------------------------------- MODULE DaemonSet -------------------------------
(***************************************************************************)
(* A DaemonSet, the pods of its nodes and the revisions kubectl records    *)
(* for `rollout undo`.                                                     *)
(*                                                                         *)
(* Everything a reconcile reads it reads at its start, and the events of   *)
(* its own writes only put its key back into the work queue, so a          *)
(* reconcile is one step; kubelets, users and resyncs find the queue       *)
(* empty, because the immediate loop ends only then.  Creation events of   *)
(* nodes are not watched: the controller learns of nodes by reconciling    *)
(* for another reason or by the periodic resync.                           *)
(*                                                                         *)
(* Pods are owned by name, so a new DaemonSet adopts what is left of the   *)
(* pods, and of the revisions, of an old one with its name.  The selector  *)
(* is taken to match the template's labels, and pods restart (Always).     *)
(***************************************************************************)
EXTENDS Naturals, Sequences, FiniteSets, SequencesExt

CONSTANTS
  NodeNames,   \* names of the nodes there may ever be
  Images,      \* images of the container
  MaxEdits,    \* bound of the model: user actions
  MaxFaults,   \* bound of the model: containers that fail
  None

ASSUME NodesAssumption == IsFiniteSet(NodeNames)
ASSUME BoundsAssumption == MaxEdits \in Nat /\ MaxFaults \in Nat

VARIABLES
  set,       \* the DaemonSet object, or None
  nodes,     \* names of the nodes in the store
  pods,      \* per node name its owned pods, in store order
  history,   \* templates of the ControllerRevisions 1, 2, ... of this name
  queued,    \* the DaemonSet's key is in the work queue
  seen,      \* history variable: the nodes of the last reconcile
  edits,     \* user actions so far
  faults     \* container failures so far

vars == <<set, nodes, pods, history, queued, seen, edits, faults>>

\* The stamp is the restartedAt annotation.
Template == [image : Images, stamp : Nat]
Pod == [template : Template, ready : BOOLEAN, dying : BOOLEAN]
DaemonSets == [template : Template,
               status : [current : Nat, desired : Nat, ready : Nat]]

ASSUME NoneAssumption == None \notin DaemonSets

Places == UNION {{n} \X DOMAIN pods[n] : n \in NodeNames}
PodAt(p) == pods[p[1]][p[2]]

-------------------------------------------------------------------------------
(* The controller *)

NewPod == [template |-> set.template, ready |-> FALSE, dying |-> FALSE]

\* Mutant: asking for a pod's deletion leaves its Ready condition.
DyingStillReady(pod) == [pod EXCEPT !.dying = TRUE]

\* requestPodDeletion, which does nothing to a pod that is terminating
Dying(pod) == [pod EXCEPT !.dying = TRUE, !.ready = FALSE]

DyingAll(list) == [i \in DOMAIN list |-> Dying(list[i])]

\* Mutant: the outdated pod is not deleted when its replacement is created.
ReplaceCreateOnly(pod) == <<pod, NewPod>>

Replace(pod) == <<Dying(pod), NewPod>>

\* More than one pod: all but the first go, whatever their templates are.
OnlyFirst(list) == <<list[1]>> \o DyingAll(Tail(list))

\* What a reconcile makes of the pods of a node.
NodePods(n) ==
  LET list == pods[n]
  IN  IF n \notin nodes THEN DyingAll(list)
      ELSE IF list = <<>> THEN <<NewPod>>
      ELSE IF Len(list) > 1 THEN OnlyFirst(list)
      ELSE IF list[1].template # set.template THEN Replace(list[1])
      ELSE list

\* computeDaemonSetStatus of the pods as they were read
Status == [current |-> Cardinality(Places),
           desired |-> Cardinality(nodes),
           ready   |-> Cardinality({p \in Places : PodAt(p).ready})]

\* Mutant: only a changed status puts the key back.
ReconcileOwnEventsMissed ==
  /\ queued
  /\ seen' = nodes
  /\ IF set = None
     THEN queued' = FALSE /\ UNCHANGED <<set, pods>>
     ELSE /\ pods' = [n \in NodeNames |-> NodePods(n)]
          /\ set' = [set EXCEPT !.status = Status]
          /\ queued' = (set' # set)
  /\ UNCHANGED <<nodes, history, edits, faults>>

\* The events of the pods and of the status put the key back.
Reconcile ==
  /\ queued
  /\ seen' = nodes
  /\ IF set = None
     THEN queued' = FALSE /\ UNCHANGED <<set, pods>>
     ELSE /\ pods' = [n \in NodeNames |-> NodePods(n)]
          /\ set' = [set EXCEPT !.status = Status]
          /\ queued' = (pods' # pods \/ set' # set)
  /\ UNCHANGED <<nodes, history, edits, faults>>

\* Everything else waits for the queue to be empty; an event of the set or of
\* one of its pods adds the key, unless the set is gone.
Rest == ~queued
Notified == queued' = (set # None)

Resync ==
  /\ Rest
  /\ set # None
  /\ queued' = TRUE
  /\ UNCHANGED <<set, nodes, pods, history, seen, edits, faults>>

-------------------------------------------------------------------------------
(* Kubelets *)

SetPods(n, list) ==
  /\ pods' = [pods EXCEPT ![n] = list]
  /\ Notified
  /\ UNCHANGED <<set, nodes, history, seen, edits>>

\* The pod's containers have started.
PodReady(n, i) ==
  /\ Rest
  /\ i \in DOMAIN pods[n]
  /\ ~pods[n][i].ready /\ ~pods[n][i].dying
  /\ SetPods(n, [pods[n] EXCEPT ![i].ready = TRUE])
  /\ UNCHANGED faults

\* A container of the pod fails; it will be started again.
PodFails(n, i) ==
  /\ Rest
  /\ faults < MaxFaults
  /\ i \in DOMAIN pods[n]
  /\ pods[n][i].ready
  /\ SetPods(n, [pods[n] EXCEPT ![i].ready = FALSE])
  /\ faults' = faults + 1

\* The grace period of a terminating pod is over.
Finalize(n, i) ==
  /\ Rest
  /\ i \in DOMAIN pods[n]
  /\ pods[n][i].dying
  /\ SetPods(n, RemoveAt(pods[n], i))
  /\ UNCHANGED faults

-------------------------------------------------------------------------------
(* Users *)

Command ==
  /\ Rest
  /\ edits < MaxEdits
  /\ edits' = edits + 1
  /\ UNCHANGED <<seen, faults>>

NoStatus == [current |-> 0, desired |-> 0, ready |-> 0]

CreateSet ==
  /\ Command
  /\ set = None
  /\ \E image \in Images :
       set' = [template |-> [image |-> image, stamp |-> 0], status |-> NoStatus]
  /\ queued' = TRUE
  /\ UNCHANGED <<nodes, pods, history>>

\* Deleting the set asks for the deletion of all pods with its name as owner.
DeleteSet ==
  /\ Command
  /\ set # None
  /\ set' = None
  /\ pods' = [n \in NodeNames |-> DyingAll(pods[n])]
  /\ UNCHANGED <<nodes, history, queued>>

SetTemplate(template) ==
  /\ set' = [set EXCEPT !.template = template]
  /\ queued' = TRUE

SetImage ==
  /\ Command
  /\ set # None
  /\ \E image \in Images : SetTemplate([set.template EXCEPT !.image = image])
  /\ UNCHANGED <<nodes, pods, history>>

\* Mutant: a template that was recorded before is not recorded again.
RecordedNew(revisions, template) ==
  IF Contains(revisions, template)
  THEN revisions ELSE Append(revisions, template)

\* ensureControllerRevisionHistory
Recorded(revisions, template) ==
  IF revisions # <<>> /\ Last(revisions) = template
  THEN revisions ELSE Append(revisions, template)

\* A fresh stamp; recorded before and after.
RolloutRestart ==
  /\ Command
  /\ set # None
  /\ LET fresh == [set.template EXCEPT !.stamp = edits + 1]
     IN  /\ SetTemplate(fresh)
         /\ history' = Recorded(Recorded(history, set.template), fresh)
  /\ UNCHANGED <<nodes, pods>>

\* The current template is recorded even when there is nothing to go back to.
UndoFails(revision) ==
  LET revisions == Recorded(history, set.template)
  IN  IF revision = 0 THEN Len(revisions) < 2 ELSE revision > Len(revisions)

\* rollout undo [--to-revision=k]; 0 stands for no revision given
RolloutUndo(revision) ==
  /\ Command
  /\ set # None
  /\ LET revisions == Recorded(history, set.template)
         target == IF revision = 0 THEN revisions[Len(revisions) - 1]
                                   ELSE revisions[revision]
     IN  IF UndoFails(revision)
         THEN history' = revisions /\ UNCHANGED <<set, queued>>
         ELSE SetTemplate(target) /\ history' = Recorded(revisions, target)
  /\ UNCHANGED <<nodes, pods>>

\* `rollout history` records the current template as well.
RolloutHistory ==
  /\ Command
  /\ set # None
  /\ history' = Recorded(history, set.template)
  /\ UNCHANGED <<set, nodes, pods, queued>>

DeletePod(n, i) ==
  /\ Command
  /\ i \in DOMAIN pods[n]
  /\ ~pods[n][i].dying
  /\ pods' = [pods EXCEPT ![n][i] = Dying(pods[n][i])]
  /\ Notified
  /\ UNCHANGED <<set, nodes, history>>

ChangeNodes ==
  /\ Command
  /\ \E n \in NodeNames :
       nodes' = IF n \in nodes THEN nodes \ {n} ELSE nodes \union {n}
  /\ UNCHANGED <<set, pods, history, queued>>

-------------------------------------------------------------------------------
Init ==
  /\ set = None
  /\ nodes \in SUBSET NodeNames
  /\ pods = [n \in NodeNames |-> <<>>]
  /\ history = <<>>
  /\ queued = FALSE
  /\ seen = nodes
  /\ edits = 0
  /\ faults = 0

KubeletStep ==
  \E n \in NodeNames :
    \E i \in DOMAIN pods[n] : PodReady(n, i) \/ PodFails(n, i) \/ Finalize(n, i)

UserStep ==
  \/ CreateSet \/ DeleteSet \/ SetImage
  \/ RolloutRestart \/ RolloutHistory
  \/ \E revision \in 0..(Len(history) + 2) : RolloutUndo(revision)
  \/ \E n \in NodeNames : \E i \in DOMAIN pods[n] : DeletePod(n, i)
  \/ ChangeNodes

Next == Reconcile \/ Resync \/ KubeletStep \/ UserStep

Spec == Init /\ [][Next]_vars

\* The immediate loop runs to its end, the interval of the resync comes round,
\* and the kubelet's timers for the first pod of a node fire.
FairSpec ==
  /\ Spec
  /\ WF_vars(Reconcile)
  /\ SF_vars(Resync)
  /\ \A n \in NodeNames : SF_vars(PodReady(n, 1)) /\ SF_vars(Finalize(n, 1))

-------------------------------------------------------------------------------
(* Properties *)

\* Every variable has its type, and a pod asked to terminate is not ready: the
\* endpoints and the status built from the Ready condition rely on it.
TypeOK ==
  /\ set \in DaemonSets \union {None}
  /\ nodes \in SUBSET NodeNames /\ seen \in SUBSET NodeNames
  /\ pods \in [NodeNames -> Seq(Pod)]
  /\ history \in Seq(Template)
  /\ queued \in BOOLEAN
  /\ edits \in Nat /\ faults \in Nat
  /\ \A p \in Places : PodAt(p).dying => ~PodAt(p).ready

\* A node has one pod that is not terminating at most, and then its first.
Current(n) ==
  /\ pods[n] # <<>>
  /\ \A i \in DOMAIN pods[n] : pods[n][i].dying \/ i = 1
  /\ pods[n][1].dying \/ pods[n][1].template = set.template

\* At rest every node the controller knows of has a pod, none has two that
\* stay, those that stay are of the current template, and nothing stays on
\* nodes that are gone.
Covered ==
  Rest /\ set # None =>
    \A n \in NodeNames :
      IF n \in seen THEN Current(n) ELSE \A i \in DOMAIN pods[n] : pods[n][i].dying

\* rolloutStatusComplete: what `kubectl rollout status` calls rolled out
RolledOut ==
  /\ set # None
  /\ set.status.desired > 0
  /\ set.status.current >= set.status.desired
  /\ set.status.ready >= set.status.desired

\* Every node runs a ready pod of the current template, its first, and no
\* other pod of the set is ready.
Serving ==
  /\ {p \in Places : PodAt(p).ready} = {<<n, 1>> : n \in nodes}
  /\ \A n \in nodes : pods[n][1].template = set.template

\* When kubectl reports a DaemonSet as rolled out, and no node came or went
\* since the last reconcile, every node runs one ready pod of the current
\* template and nothing else of the set is ready anywhere, although the status
\* is computed from pods read before the reconcile changed them and counts
\* terminating pods (DaemonSetController.reconcile, rolloutStatusComplete).
StatusTruthful ==
  Rest /\ seen = nodes /\ RolledOut => Serving

\* `rollout undo` without a revision either reports that there is none or
\* changes the template to one that was recorded before, whatever the user
\* did in between (resolveControllerRevisionTemplate).
UndoGoesBack ==
  [][RolloutUndo(0) /\ ~UndoFails(0) =>
       /\ set'.template # set.template
       /\ Contains(Recorded(history, set.template), set'.template)]_vars

\* When the users stop, every node gets its one ready pod of the current
\* template and the rollout status says so, for good: outdated pods, pods
\* deleted by hand, nodes that came or went and replacements killed while their
\* predecessors terminate included.
Settles == <>[](set # None => Serving /\ (nodes # {} => RolledOut))

================================================================================
