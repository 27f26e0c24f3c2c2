---------------------------- MODULE DaemonSet_proofs ----------------------------
(***************************************************************************)
(* Theorems about DaemonSet.  StatusTruthful compares two numbers; what    *)
(* makes them mean something is that at rest the places that may be ready  *)
(* are the first ones of the nodes seen (Covered) and that the status      *)
(* counts the ready places there are (Counted).  Both hold at rest because *)
(* the last reconcile before it changed nothing.                           *)
(***************************************************************************)
EXTENDS DaemonSet, FiniteSetTheorems, TLAPS

\* Pods that are terminating are not ready.
SoundPod == {pod \in Pod : pod.dying => ~pod.ready}

TypeInv ==
  /\ set \in DaemonSets \union {None}
  /\ nodes \in SUBSET NodeNames /\ seen \in SUBSET NodeNames
  /\ pods \in [NodeNames -> Seq(SoundPod)]
  /\ history \in Seq(Template)
  /\ queued \in BOOLEAN
  /\ edits \in Nat /\ faults \in Nat

Ready == {p \in Places : PodAt(p).ready}

\* At rest the status counts what there is.
Counted ==
  Rest /\ set # None =>
    /\ set.status.desired = Cardinality(seen)
    /\ set.status.ready = Cardinality(Ready)

\* Only a set that exists is reconciled, and deleting it leaves no pod that
\* stays: at rest its pods are Covered or nobody's.
Driven == queued => set # None

Orphans ==
  set = None => \A n \in NodeNames : \A i \in DOMAIN pods[n] : pods[n][i].dying

\* A pod that stays is the only one of its node or came after its first.
FirstAlone == \A n \in NodeNames : Len(pods[n]) > 1 => pods[n][1].dying

PodsInv == Driven /\ Orphans /\ FirstAlone

IInv == TypeInv /\ PodsInv /\ Covered /\ Counted

-------------------------------------------------------------------------------
(* Pods and sequences *)

LEMMA ConcatType ==
  ASSUME NEW S, NEW left \in Seq(S), NEW right \in Seq(S)
  PROVE  left \o right \in Seq(S)
OBVIOUS

LEMMA OneElementType ==
  ASSUME NEW S, NEW e \in S
  PROVE  <<e>> \in Seq(S)
OBVIOUS

LEMMA Sizes ==
  ASSUME NEW S, NEW list \in Seq(S)
  PROVE  list = << >> \/ Len(list) = 1 \/ Len(list) > 1
<1>1. CASE Len(list) = 0
  BY <1>1
<1>2. Len(list) \in Nat
  OBVIOUS
<1> QED
  BY <1>1, <1>2

LEMMA DyingType ==
  ASSUME NEW pod \in Pod
  PROVE  Dying(pod) \in SoundPod
BY DEF Dying, SoundPod, Pod

LEMMA DyingAllType ==
  ASSUME NEW list \in Seq(SoundPod)
  PROVE  DyingAll(list) \in Seq(SoundPod) /\ Len(DyingAll(list)) = Len(list)
<1>1. \A i \in 1..Len(list) : Dying(list[i]) \in SoundPod
  BY DyingType DEF SoundPod
<1> QED
  BY <1>1 DEF DyingAll

LEMMA RecordedType ==
  ASSUME NEW list \in Seq(Template), NEW template \in Template
  PROVE  Recorded(list, template) \in Seq(Template) /\ Recorded(list, template) # << >>
BY DEF Recorded

LEMMA NewPodType ==
  ASSUME set \in DaemonSets
  PROVE  NewPod \in SoundPod
BY DEF NewPod, DaemonSets, SoundPod, Pod

\* A reconcile leaves every node a list of pods.
LEMMA NodePodsType ==
  ASSUME TypeInv, set # None, NEW n \in NodeNames
  PROVE  NodePods(n) \in Seq(SoundPod)
<1> DEFINE list == pods[n]
<1>1. list \in Seq(SoundPod) /\ set \in DaemonSets
  BY DEF TypeInv
<1>2. CASE n \notin nodes
  BY <1>1, <1>2, DyingAllType DEF NodePods
<1>3. CASE n \in nodes /\ list = << >>
  BY <1>3, NewPodType, <1>1 DEF NodePods
<1>4. CASE n \in nodes /\ Len(list) > 1
  <2>1. Tail(list) \in Seq(SoundPod) /\ list[1] \in SoundPod
    BY <1>1, <1>4
  <2>2. NodePods(n) = <<list[1]>> \o DyingAll(Tail(list))
    BY <1>4, <1>1 DEF NodePods, OnlyFirst
  <2>3. <<list[1]>> \in Seq(SoundPod) /\ DyingAll(Tail(list)) \in Seq(SoundPod)
    BY <2>1, DyingAllType, OneElementType, Zenon
  <2> QED
    BY <2>2, <2>3, ConcatType, Zenon
<1>5. CASE n \in nodes /\ Len(list) = 1
  <2>1. list[1] \in SoundPod /\ list[1] \in Pod
    BY <1>1, <1>5 DEF SoundPod
  <2>2. NodePods(n) = IF list[1].template # set.template
                      THEN <<Dying(list[1]), NewPod>> ELSE list
    BY <1>5, <1>1 DEF NodePods, Replace
  <2>3. Dying(list[1]) \in SoundPod /\ NewPod \in SoundPod
    BY <2>1, <1>1, DyingType, NewPodType
  <2> QED
    BY <2>2, <2>3, <1>1
<1>6. list = << >> \/ Len(list) = 1 \/ Len(list) > 1
  BY <1>1, Sizes, Zenon
<1> QED
  BY <1>2, <1>3, <1>4, <1>5, <1>6

\* There are finitely many pods.
LEMMA PlacesFinite ==
  ASSUME TypeInv
  PROVE  IsFiniteSet(Places) /\ IsFiniteSet(Ready)
<1> DEFINE At(n) == {n} \X DOMAIN pods[n]
<1>1. ASSUME NEW n \in NodeNames PROVE IsFiniteSet(At(n))
  <2>1. DOMAIN pods[n] = 1..Len(pods[n]) /\ Len(pods[n]) \in Nat
    BY DEF TypeInv
  <2>2. IsFiniteSet(1..Len(pods[n]))
    BY <2>1, FS_Interval
  <2> QED
    BY <2>1, <2>2, FS_Singleton, FS_Product
<1>2. IsFiniteSet({At(n) : n \in NodeNames})
  <2> DEFINE all == {At(n) : n \in NodeNames}
             f == [n \in NodeNames |-> At(n)]
  <2>1. f \in Surjection(NodeNames, all)
    BY DEF Surjection
  <2> HIDE DEF f, all
  <2>2. IsFiniteSet(all)
    BY <2>1, NodesAssumption, FS_Surjection
  <2> QED
    BY <2>2 DEF all
<1>3. IsFiniteSet(UNION {At(n) : n \in NodeNames})
  <2>1. \A S \in {At(n) : n \in NodeNames} : IsFiniteSet(S)
    BY <1>1
  <2> HIDE DEF At
  <2> QED
    BY <1>2, <2>1, FS_UNION
<1>4. IsFiniteSet(Places)
  BY <1>3 DEF Places
<1>5. Ready \in SUBSET Places
  BY DEF Ready
<1> QED
  BY <1>4, <1>5, FS_Subset

-------------------------------------------------------------------------------
(* The inductive invariant *)

LEMMA InitIInv == Init => IInv
<1> SUFFICES ASSUME Init PROVE IInv
  OBVIOUS
<1>1. TypeInv
  <2>1. << >> \in Seq(SoundPod) /\ << >> \in Seq(Template)
    OBVIOUS
  <2>2. pods \in [NodeNames -> Seq(SoundPod)]
    BY <2>1 DEF Init
  <2> QED
    BY <2>1, <2>2, BoundsAssumption DEF Init, TypeInv
<1>2. PodsInv
  BY DEF Init, PodsInv, Driven, Orphans, FirstAlone
<1>3. Covered /\ Counted
  BY DEF Init, Covered, Counted
<1> QED
  BY <1>1, <1>2, <1>3 DEF IInv

LEMMA ReconcileSet ==
  ASSUME TypeInv, Reconcile, set # None
  PROVE  set' \in DaemonSets
<1>1. Status \in [current : Nat, desired : Nat, ready : Nat]
  <2>1. IsFiniteSet(nodes)
    BY NodesAssumption, FS_Subset DEF TypeInv
  <2> QED
    BY <2>1, PlacesFinite, FS_CardinalityType DEF Status, Ready
<1> QED
  BY <1>1 DEF Reconcile, TypeInv, DaemonSets

LEMMA ReconcileType == TypeInv /\ Reconcile => TypeInv'
<1> SUFFICES ASSUME TypeInv, Reconcile PROVE TypeInv'
  OBVIOUS
<1>1. CASE set = None
  BY <1>1 DEF Reconcile, TypeInv
<1>2. CASE set # None
  <2>1. pods' \in [NodeNames -> Seq(SoundPod)]
    BY <1>2, NodePodsType DEF Reconcile
  <2>3. set' \in DaemonSets
    BY <1>2, ReconcileSet
  <2>4. queued' \in BOOLEAN
    BY <1>2, Zenon DEF Reconcile
  <2> QED
    BY <2>1, <2>3, <2>4 DEF Reconcile, TypeInv
<1> QED
  BY <1>1, <1>2

\* A step that changes one pod, or drops it, keeps the lists typed.
LEMMA SetPodType ==
  ASSUME TypeInv, NEW n \in NodeNames, NEW i \in DOMAIN pods[n]
  PROVE  /\ pods[n][i] \in Pod
         /\ \A pod \in SoundPod : [pods[n] EXCEPT ![i] = pod] \in Seq(SoundPod)
<1>1. pods[n] \in Seq(SoundPod)
  BY DEF TypeInv
<1>2. pods[n][i] \in SoundPod
  BY <1>1
<1> QED
  BY <1>1, <1>2 DEF SoundPod

LEMMA RemoveAtType ==
  ASSUME NEW S, NEW list \in Seq(S), NEW i \in DOMAIN list
  PROVE  /\ RemoveAt(list, i) \in Seq(S)
         /\ Len(RemoveAt(list, i)) = Len(list) - 1
         /\ \A j \in 1..(Len(list) - 1) :
              RemoveAt(list, i)[j] = IF j < i THEN list[j] ELSE list[j + 1]
<1> DEFINE before == SubSeq(list, 1, i - 1)
           after == SubSeq(list, i + 1, Len(list))
<1>1. i \in 1..Len(list) /\ Len(list) \in Nat
  OBVIOUS
<1>2. before \in Seq(S) /\ Len(before) = i - 1
  BY <1>1
<1>3. after \in Seq(S) /\ Len(after) = Len(list) - i
  BY <1>1
<1>4. \A j \in 1..(i - 1) : before[j] = list[j]
  BY <1>1
<1>5. \A j \in 1..(Len(list) - i) : after[j] = list[i + j]
  BY <1>1
<1>6. RemoveAt(list, i) = before \o after
  BY DEF RemoveAt
<1> HIDE DEF before, after
<1>7. RemoveAt(list, i) \in Seq(S) /\ Len(RemoveAt(list, i)) = Len(list) - 1
  BY <1>1, <1>2, <1>3, <1>6, ConcatType
<1>8. ASSUME NEW j \in 1..(Len(list) - 1)
      PROVE  RemoveAt(list, i)[j] = IF j < i THEN list[j] ELSE list[j + 1]
  <2>1. CASE j < i
    BY <1>1, <1>2, <1>3, <1>4, <1>6, <2>1
  <2>2. CASE j >= i
    <3>1. RemoveAt(list, i)[j] = after[j - (i - 1)]
      BY <1>1, <1>2, <1>3, <1>6, <2>2
    <3>2. after[j - (i - 1)] = list[i + (j - (i - 1))]
      BY <1>1, <1>5, <2>2
    <3>3. i + (j - (i - 1)) = j + 1
      BY <1>1
    <3> QED
      BY <3>1, <3>2, <3>3, <2>2, <1>1
  <2> QED
    BY <1>1, <2>1, <2>2
<1> QED
  BY <1>7, <1>8

LEMMA KubeletType == TypeInv /\ KubeletStep => TypeInv'
<1> SUFFICES ASSUME TypeInv, NEW n \in NodeNames, NEW i \in DOMAIN pods[n],
                    PodReady(n, i) \/ PodFails(n, i) \/ Finalize(n, i)
             PROVE  TypeInv'
  BY DEF KubeletStep
<1>0. pods[n] \in Seq(SoundPod) /\ pods[n][i] \in SoundPod
  BY DEF TypeInv
<1>1. PICK list \in Seq(SoundPod) : SetPods(n, list)
  <2>1. CASE PodReady(n, i)
    <3>1. [pods[n][i] EXCEPT !.ready = TRUE] \in SoundPod
      BY <1>0, <2>1 DEF PodReady, SoundPod, Pod
    <3> QED
      BY <1>0, <2>1, <3>1, SetPodType DEF PodReady
  <2>2. CASE PodFails(n, i)
    <3>1. [pods[n][i] EXCEPT !.ready = FALSE] \in SoundPod
      BY <1>0 DEF SoundPod, Pod
    <3> QED
      BY <1>0, <2>2, <3>1, SetPodType DEF PodFails
  <2>3. CASE Finalize(n, i)
    BY <1>0, <2>3, RemoveAtType DEF Finalize
  <2> QED
    BY <2>1, <2>2, <2>3
<1>2. pods' \in [NodeNames -> Seq(SoundPod)]
  BY <1>1 DEF SetPods, TypeInv
<1>3. faults' \in Nat
  BY DEF PodReady, PodFails, Finalize, TypeInv
<1>4. queued' \in BOOLEAN
  BY <1>1, Zenon DEF SetPods, Notified
<1> QED
  BY <1>1, <1>2, <1>3, <1>4 DEF SetPods, TypeInv

\* A DaemonSet with another template is still one.
LEMMA SetTemplateType ==
  ASSUME TypeInv, set # None, NEW template \in Template, SetTemplate(template)
  PROVE  set' \in DaemonSets /\ queued' = TRUE
BY DEF TypeInv, SetTemplate, DaemonSets

\* The commands that read the template, and most of them write it.
TemplateStep ==
  \/ SetImage \/ RolloutRestart \/ RolloutHistory
  \/ \E revision \in 0..(Len(history) + 2) : RolloutUndo(revision)

LEMMA TemplateStepType ==
  ASSUME TypeInv, TemplateStep
  PROVE  /\ Command /\ UNCHANGED <<nodes, pods>>
         /\ set \in DaemonSets /\ set' \in DaemonSets
         /\ history' \in Seq(Template)
         /\ queued' = TRUE \/ UNCHANGED <<set, queued>>
<1>1. Command /\ set # None /\ UNCHANGED <<nodes, pods>>
  BY DEF TemplateStep, SetImage, RolloutRestart, RolloutHistory, RolloutUndo
<1>2. /\ set \in DaemonSets /\ set.template \in Template
      /\ history \in Seq(Template) /\ edits \in Nat
  BY <1>1 DEF TypeInv, DaemonSets
<1>3. CASE SetImage
  <2>1. PICK image \in Images : SetTemplate([set.template EXCEPT !.image = image])
    BY <1>3 DEF SetImage
  <2>2. [set.template EXCEPT !.image = image] \in Template
    BY <1>2 DEF Template
  <2>3. set' \in DaemonSets /\ queued' = TRUE
    BY <1>1, <2>1, <2>2, SetTemplateType
  <2>4. history' = history
    BY <1>3 DEF SetImage
  <2> QED
    BY <1>1, <1>2, <2>3, <2>4
<1>4. CASE RolloutRestart
  <2> DEFINE fresh == [set.template EXCEPT !.stamp = edits + 1]
  <2>1. fresh \in Template
    BY <1>2 DEF Template
  <2>2. SetTemplate(fresh) /\ history' = Recorded(Recorded(history, set.template), fresh)
    BY <1>4 DEF RolloutRestart
  <2> HIDE DEF fresh
  <2>3. set' \in DaemonSets /\ queued' = TRUE
    BY <1>1, <2>1, <2>2, SetTemplateType
  <2>4. history' \in Seq(Template)
    BY <1>2, <2>1, <2>2, RecordedType, Zenon
  <2> QED
    BY <1>1, <1>2, <2>3, <2>4
<1>5. CASE RolloutHistory
  BY <1>1, <1>2, <1>5, RecordedType DEF RolloutHistory
<1>6. ASSUME NEW revision \in 0..(Len(history) + 2), RolloutUndo(revision)
      PROVE  /\ set' \in DaemonSets /\ history' \in Seq(Template)
             /\ queued' = TRUE \/ UNCHANGED <<set, queued>>
  <2> DEFINE revisions == Recorded(history, set.template)
             target == IF revision = 0 THEN revisions[Len(revisions) - 1]
                                       ELSE revisions[revision]
  <2>1. revisions \in Seq(Template) /\ Len(revisions) \in Nat
    <3>1. revisions \in Seq(Template)
      BY <1>2, RecordedType, Zenon
    <3> HIDE DEF revisions
    <3> QED
      BY <3>1
  <2>2. CASE UndoFails(revision)
    <3>1. history' = revisions /\ UNCHANGED <<set, queued>>
      BY <1>6, <2>2 DEF RolloutUndo
    <3> QED
      BY <1>2, <2>1, <3>1
  <2>3. CASE ~UndoFails(revision)
    <3>1. target \in Template
      BY <1>2, <2>1, <2>3 DEF UndoFails
    <3>2. SetTemplate(target) /\ history' = Recorded(revisions, target)
      BY <1>6, <2>3 DEF RolloutUndo
    <3> HIDE DEF target, revisions
    <3>3. set' \in DaemonSets /\ queued' = TRUE
      BY <1>1, <3>1, <3>2, SetTemplateType
    <3>4. history' \in Seq(Template)
      BY <2>1, <3>1, <3>2, RecordedType
    <3> QED
      BY <3>3, <3>4
  <2> QED
    BY <2>2, <2>3
<1> QED
  BY <1>1, <1>2, <1>3, <1>4, <1>5, <1>6 DEF TemplateStep

LEMMA UserType == TypeInv /\ UserStep => TypeInv'
<1> SUFFICES ASSUME TypeInv, UserStep PROVE TypeInv'
  OBVIOUS
<1>1. CASE CreateSet
  <2>1. set' \in DaemonSets
    BY <1>1 DEF CreateSet, NoStatus, DaemonSets, Template
  <2> QED
    BY <1>1, <2>1 DEF CreateSet, Command, TypeInv
<1>2. CASE DeleteSet
  <2>1. pods' \in [NodeNames -> Seq(SoundPod)]
    BY <1>2, DyingAllType DEF DeleteSet, TypeInv
  <2> QED
    BY <1>2, <2>1 DEF DeleteSet, Command, TypeInv
<1>3. CASE TemplateStep
  <2>1. /\ Command /\ UNCHANGED <<nodes, pods>>
        /\ set' \in DaemonSets /\ history' \in Seq(Template)
        /\ queued' = TRUE \/ queued' = queued
    BY <1>3, TemplateStepType
  <2>2. queued' \in BOOLEAN
    BY <2>1, Zenon DEF TypeInv
  <2> QED
    BY <2>1, <2>2 DEF Command, TypeInv
<1>4. ASSUME NEW n \in NodeNames, NEW i \in DOMAIN pods[n], DeletePod(n, i)
      PROVE  TypeInv'
  <2>1. pods[n][i] \in Pod
    BY DyingType, SetPodType, Zenon
  <2>2. [pods[n] EXCEPT ![i] = Dying(pods[n][i])] \in Seq(SoundPod)
    BY <2>1, DyingType, SetPodType
  <2>3. pods' = [pods EXCEPT ![n] = [pods[n] EXCEPT ![i] = Dying(pods[n][i])]]
    BY <1>4 DEF DeletePod, TypeInv
  <2>4. pods' \in [NodeNames -> Seq(SoundPod)]
    BY <2>2, <2>3 DEF TypeInv
  <2>5. queued' \in BOOLEAN
    BY <1>4, Zenon DEF DeletePod, Notified
  <2> QED
    BY <1>4, <2>4, <2>5 DEF DeletePod, Command, TypeInv
<1>5. CASE ChangeNodes
  BY <1>5 DEF ChangeNodes, Command, TypeInv
<1> QED
  BY <1>1, <1>2, <1>3, <1>4, <1>5 DEF UserStep, TemplateStep

LEMMA TypePreserved == TypeInv /\ [Next]_vars => TypeInv'
<1>1. TypeInv /\ Resync => TypeInv'
  BY DEF Resync, TypeInv
<1>2. TypeInv /\ UNCHANGED vars => TypeInv'
  BY DEF vars, TypeInv
<1> QED
  BY <1>1, <1>2, ReconcileType, KubeletType, UserType DEF Next

\* At rest a pod that stays is the first of its node.
LEMMA RestTails ==
  ASSUME IInv, Rest, NEW n \in NodeNames, NEW i \in DOMAIN pods[n]
  PROVE  i = 1 \/ pods[n][i].dying
BY DEF IInv, PodsInv, Orphans, Covered, Current

LEMMA DyingAllDying ==
  ASSUME NEW list \in Seq(SoundPod), NEW i \in DOMAIN DyingAll(list)
  PROVE  DyingAll(list)[i].dying
<1>1. list[i] \in Pod /\ DyingAll(list)[i] = Dying(list[i])
  BY DEF DyingAll, SoundPod
<1> QED
  BY <1>1 DEF Dying, Pod

\* The pods a reconcile leaves on a node, when there are several.
LEMMA NodePodsFirst ==
  ASSUME TypeInv, FirstAlone, set # None, NEW n \in NodeNames,
         Len(NodePods(n)) > 1
  PROVE  NodePods(n)[1].dying
<1> DEFINE list == pods[n]
<1>1. list \in Seq(SoundPod)
  BY DEF TypeInv
<1>2. CASE n \notin nodes
  <2>1. NodePods(n) = DyingAll(list)
    BY <1>2 DEF NodePods
  <2>2. 1 \in DOMAIN DyingAll(list)
    BY <1>1, <2>1, DyingAllType
  <2> QED
    BY <1>1, <2>1, <2>2, DyingAllDying
<1>3. CASE n \in nodes /\ Len(list) > 1
  <2>1. NodePods(n) = <<list[1]>> \o DyingAll(Tail(list))
    BY <1>1, <1>3 DEF NodePods, OnlyFirst
  <2>2. DyingAll(Tail(list)) \in Seq(SoundPod)
    <3>1. Tail(list) \in Seq(SoundPod)
      BY <1>1, <1>3
    <3> QED
      BY <3>1, DyingAllType, Zenon
  <2>3. NodePods(n)[1] = list[1]
    BY <2>1, <2>2
  <2> QED
    BY <1>3, <2>3 DEF FirstAlone
<1>4. CASE n \in nodes /\ Len(list) = 1
  <2>1. list[1] \in Pod
    BY <1>1, <1>4 DEF SoundPod
  <2>2. NodePods(n) = <<Dying(list[1]), NewPod>>
    BY <1>1, <1>4 DEF NodePods, Replace
  <2>3. NodePods(n)[1] = Dying(list[1])
    BY <2>2
  <2> QED
    BY <2>1, <2>3 DEF Dying, Pod
<1>5. CASE n \in nodes /\ list = << >>
  BY <1>5 DEF NodePods
<1> QED
  BY <1>1, <1>2, <1>3, <1>4, <1>5, Sizes, Zenon

LEMMA ReconcilePods ==
  ASSUME TypeInv, PodsInv, Reconcile
  PROVE  PodsInv'
<1>1. CASE set = None
  BY <1>1 DEF Reconcile, PodsInv, Driven, Orphans, FirstAlone
<1>2. CASE set # None
  <2>1. set' # None
    BY <1>2, ReconcileSet, NoneAssumption, Zenon
  <2>2. pods' = [n \in NodeNames |-> NodePods(n)]
    BY <1>2 DEF Reconcile
  <2>3. FirstAlone'
    BY <1>2, <2>2, NodePodsFirst DEF FirstAlone, PodsInv
  <2> QED
    BY <2>1, <2>3 DEF PodsInv, Driven, Orphans
<1> QED
  BY <1>1, <1>2

\* Only a pod that stays becomes ready, fails or is asked to terminate.
LEMMA KubeletPods ==
  ASSUME IInv, KubeletStep
  PROVE  PodsInv'
<1> SUFFICES ASSUME NEW n \in NodeNames, NEW i \in DOMAIN pods[n],
                    PodReady(n, i) \/ PodFails(n, i) \/ Finalize(n, i)
             PROVE  PodsInv'
  BY DEF KubeletStep
<1> DEFINE list == pods[n]
<1>1. TypeInv /\ PodsInv
  BY DEF IInv
<1>2. list \in Seq(SoundPod) /\ list[i] \in SoundPod /\ i \in 1..Len(list)
  BY <1>1 DEF TypeInv
<1>3. PICK new : SetPods(n, new)
  BY DEF PodReady, PodFails, Finalize
<1>4. set' = set /\ Driven'
  BY <1>3 DEF SetPods, Notified, Driven
<1>5. pods' = [pods EXCEPT ![n] = pods'[n]] /\ \A m \in NodeNames \ {n} : pods'[m] = pods[m]
  BY <1>3, <1>1 DEF SetPods, TypeInv
<1>6. CASE PodReady(n, i) \/ PodFails(n, i)
  <2>1. ~list[i].dying
    BY <1>2, <1>6 DEF PodReady, PodFails, SoundPod
  <2>2. set # None
    BY <1>1, <2>1 DEF PodsInv, Orphans
  <2>3. PICK b \in BOOLEAN : pods'[n] = [list EXCEPT ![i] = [list[i] EXCEPT !.ready = b]]
    BY <1>1, <1>6 DEF PodReady, PodFails, SetPods, TypeInv
  <2>4. Len(pods'[n]) = Len(list)
    BY <1>2, <2>3
  <2>5. ASSUME Len(list) > 1 PROVE pods'[n][1].dying = list[1].dying
    BY <1>2, <2>3, <2>5 DEF SoundPod, Pod
  <2>6. FirstAlone'
    BY <1>1, <1>5, <2>4, <2>5 DEF FirstAlone, PodsInv
  <2> QED
    BY <1>4, <2>2, <2>6 DEF PodsInv, Orphans
<1>7. CASE Finalize(n, i)
  <2>1. pods'[n] = RemoveAt(list, i) /\ Rest
    BY <1>1, <1>7 DEF Finalize, SetPods, TypeInv
  <2>2. /\ Len(pods'[n]) = Len(list) - 1
        /\ pods'[n] \in Seq(SoundPod)
        /\ \A j \in 1..(Len(list) - 1) :
             pods'[n][j] = IF j < i THEN list[j] ELSE list[j + 1]
    BY <1>2, <2>1, RemoveAtType
  <2>3. ASSUME set = None, NEW j \in DOMAIN pods'[n] PROVE pods'[n][j].dying
    <3>1. \A k \in DOMAIN list : list[k].dying
      BY <1>1, <2>3 DEF PodsInv, Orphans
    <3>2. j \in 1..(Len(list) - 1) /\ Len(list) \in Nat
      BY <1>2, <2>2, <2>3
    <3>3. j \in DOMAIN list /\ j + 1 \in DOMAIN list
      BY <1>2, <3>2
    <3> QED
      BY <2>2, <3>1, <3>2, <3>3
  <2>4. Orphans'
    BY <1>1, <1>4, <1>5, <2>3 DEF Orphans, PodsInv
  <2>5. ASSUME Len(pods'[n]) > 1 PROVE pods'[n][1].dying
    <3>1. 1 \in 1..(Len(list) - 1) /\ 2 \in DOMAIN list /\ Len(list) > 1
      BY <1>2, <2>2, <2>5
    <3>2. list[2].dying /\ list[1].dying
      BY <1>1, <2>1, <3>1, RestTails DEF PodsInv, FirstAlone
    <3> QED
      BY <2>2, <3>1, <3>2
  <2>6. FirstAlone'
    BY <1>1, <1>5, <2>5 DEF FirstAlone, PodsInv
  <2> QED
    BY <1>4, <2>4, <2>6 DEF PodsInv
<1> QED
  BY <1>6, <1>7

LEMMA UserPods ==
  ASSUME IInv, UserStep
  PROVE  PodsInv'
<1>1. TypeInv /\ PodsInv
  BY DEF IInv
<1>2. CASE CreateSet
  <2>1. set' # None
    BY <1>2, NoneAssumption DEF CreateSet, NoStatus, DaemonSets, Template
  <2> QED
    BY <1>1, <1>2, <2>1 DEF CreateSet, PodsInv, Driven, Orphans, FirstAlone
<1>3. CASE DeleteSet
  <2>1. \A n \in NodeNames : pods'[n] = DyingAll(pods[n]) /\ pods[n] \in Seq(SoundPod)
    BY <1>1, <1>3 DEF DeleteSet, TypeInv
  <2>2. \A n \in NodeNames : \A i \in DOMAIN pods'[n] : pods'[n][i].dying
    BY <2>1, DyingAllDying
  <2>3. \A n \in NodeNames : Len(pods'[n]) > 1 => 1 \in DOMAIN pods'[n]
    BY <2>1, DyingAllType
  <2>4. ~queued'
    BY <1>3 DEF DeleteSet, Command, Rest
  <2> QED
    BY <2>2, <2>3, <2>4 DEF PodsInv, Driven, Orphans, FirstAlone
<1>4. ASSUME UNCHANGED pods, set # None, set' # None PROVE PodsInv'
  BY <1>1, <1>4 DEF PodsInv, Driven, Orphans, FirstAlone
<1>5. CASE TemplateStep
  <2>1. UNCHANGED pods /\ set # None /\ set' # None
    BY <1>1, <1>5, TemplateStepType, NoneAssumption, Zenon
  <2> QED
    BY <1>4, <2>1
<1>6. ASSUME NEW n \in NodeNames, NEW i \in DOMAIN pods[n], DeletePod(n, i)
      PROVE  PodsInv'
  <2> DEFINE list == pods[n]
  <2>1. list \in Seq(SoundPod) /\ list[i] \in Pod /\ i \in 1..Len(list)
    BY <1>1 DEF TypeInv, SoundPod
  <2>2. pods' = [pods EXCEPT ![n] = [list EXCEPT ![i] = Dying(list[i])]]
    BY <1>1, <1>6 DEF DeletePod, TypeInv
  <2>3. set # None /\ set' = set /\ Driven'
    BY <1>1, <1>6 DEF DeletePod, Notified, Driven, PodsInv, Orphans
  <2>4. \A m \in NodeNames \ {n} : pods'[m] = pods[m]
    BY <1>1, <2>2 DEF TypeInv
  <2>5. pods'[n] = [list EXCEPT ![i] = Dying(list[i])]
    BY <1>1, <2>2 DEF TypeInv
  <2>6. Len(pods'[n]) = Len(list)
    BY <2>1, <2>5
  <2>7. Dying(list[i]).dying
    BY <2>1 DEF Dying, Pod
  <2>8. ASSUME Len(list) > 1 PROVE pods'[n][1].dying
    <3>1. list[1].dying /\ 1 \in DOMAIN list
      BY <1>1, <2>1, <2>8 DEF PodsInv, FirstAlone
    <3> QED
      BY <2>1, <2>5, <2>7, <3>1
  <2>9. FirstAlone'
    BY <1>1, <2>4, <2>6, <2>8 DEF FirstAlone, PodsInv
  <2> QED
    BY <2>3, <2>9 DEF PodsInv, Orphans
<1>7. CASE ChangeNodes
  BY <1>1, <1>7 DEF ChangeNodes, Command, Rest, PodsInv, Driven, Orphans, FirstAlone
<1> QED
  BY <1>2, <1>3, <1>5, <1>6, <1>7 DEF UserStep, TemplateStep

LEMMA PodsPreserved == IInv /\ [Next]_vars => PodsInv'
<1> SUFFICES ASSUME IInv, [Next]_vars PROVE PodsInv'
  OBVIOUS
<1>1. CASE Reconcile
  BY <1>1, ReconcilePods DEF IInv
<1>2. CASE Resync
  BY <1>2 DEF Resync, IInv, PodsInv, Driven, Orphans, FirstAlone
<1>3. CASE UNCHANGED vars
  BY <1>3 DEF vars, IInv, PodsInv, Driven, Orphans, FirstAlone
<1> QED
  BY <1>1, <1>2, <1>3, KubeletPods, UserPods DEF Next

-------------------------------------------------------------------------------
(* At rest *)

\* What Covered and Counted speak of did not change, or there is no rest.
LEMMA Quiet ==
  ASSUME IInv,
         \/ queued' = TRUE
         \/ set' = None
         \/ UNCHANGED <<set, pods, seen, queued>>
  PROVE  Covered' /\ Counted'
<1>1. CASE queued' = TRUE \/ set' = None
  BY <1>1 DEF Covered, Counted, Rest
<1>2. CASE UNCHANGED <<set, pods, seen, queued>>
  <2>1. Covered'
    BY <1>2 DEF IInv, Covered, Rest, Current
  <2>2. Ready' = Ready
    BY <1>2 DEF Ready, Places, PodAt
  <2>3. Counted'
    BY <1>2, <2>2 DEF IInv, Counted, Rest
  <2> QED
    BY <2>1, <2>3
<1> QED
  BY <1>1, <1>2

\* A reconcile that leaves a node's pods as they are found them in order.
LEMMA Fixpoint ==
  ASSUME TypeInv, FirstAlone, set # None, NEW n \in NodeNames,
         NodePods(n) = pods[n]
  PROVE  IF n \in nodes THEN Current(n) ELSE \A i \in DOMAIN pods[n] : pods[n][i].dying
<1> DEFINE list == pods[n]
<1>1. list \in Seq(SoundPod)
  BY DEF TypeInv
<1>2. CASE n \notin nodes
  <2>1. list = DyingAll(list)
    BY <1>2 DEF NodePods
  <2> QED
    BY <1>1, <1>2, <2>1, DyingAllDying
<1>3. CASE n \in nodes
  <2>1. list # << >>
    BY <1>3 DEF NodePods
  <2>2. CASE Len(list) > 1
    <3>1. list = <<list[1]>> \o DyingAll(Tail(list))
      BY <1>3, <2>1, <2>2 DEF NodePods, OnlyFirst
    <3>2. Tail(list) \in Seq(SoundPod) /\ Len(Tail(list)) = Len(list) - 1
      BY <1>1, <2>1
    <3>3. DyingAll(Tail(list)) \in Seq(SoundPod) /\ Len(DyingAll(Tail(list))) = Len(list) - 1
      BY <3>2, DyingAllType
    <3>4. ASSUME NEW i \in DOMAIN list, i # 1 PROVE list[i].dying
      <4>1. i - 1 \in DOMAIN DyingAll(Tail(list)) /\ i \in Nat /\ i > 1
        BY <1>1, <3>3, <3>4
      <4>2. list[i] = DyingAll(Tail(list))[i - 1]
        <5> DEFINE tail == DyingAll(Tail(list))
                   first == list[1]
        <5>1. (<<first>> \o tail)[i] = tail[i - 1]
          <6> HIDE DEF tail, first
          <6> QED
            BY <3>3, <4>1 DEF tail
        <5> QED
          BY <3>1, <5>1
      <4> QED
        BY <3>2, <4>1, <4>2, DyingAllDying
    <3>5. list[1].dying
      BY <2>2 DEF FirstAlone
    <3> QED
      BY <1>3, <2>1, <3>4, <3>5 DEF Current
  <2>3. CASE Len(list) = 1
    <3>1. list[1].template = set.template
      <4>1. SUFFICES ASSUME list[1].template # set.template PROVE FALSE
        OBVIOUS
      <4>2. list = <<Dying(list[1]), NewPod>>
        BY <1>3, <2>1, <2>3, <4>1 DEF NodePods, Replace
      <4> QED
        BY <2>3, <4>2
    <3> QED
      BY <1>1, <1>3, <2>1, <2>3, <3>1 DEF Current
  <2> QED
    BY <1>1, <2>1, <2>2, <2>3, Sizes, Zenon
<1> QED
  BY <1>2, <1>3

LEMMA ReconcileRest ==
  ASSUME IInv, Reconcile
  PROVE  Covered' /\ Counted'
<1>1. TypeInv /\ FirstAlone
  BY DEF IInv, PodsInv
<1>2. CASE set = None
  BY <1>2, Quiet DEF Reconcile
<1>3. CASE set # None
  <2>1. CASE queued' = TRUE
    BY <2>1, Quiet
  <2>2. CASE queued' # TRUE
    <3>1. pods' = pods /\ set' = set /\ seen' = nodes
      BY <1>3, <2>2 DEF Reconcile
    <3>2. \A n \in NodeNames : NodePods(n) = pods[n]
      BY <1>3, <3>1 DEF Reconcile
    <3>3. Covered'
      BY <1>1, <1>3, <3>1, <3>2, Fixpoint DEF Covered, Current
    <3>4. set.status = Status
      BY <1>1, <1>3, <3>1 DEF Reconcile, TypeInv, DaemonSets
    <3>5. Ready' = Ready
      BY <3>1 DEF Ready, Places, PodAt
    <3>6. Counted'
      BY <3>1, <3>4, <3>5 DEF Counted, Status, Ready
    <3> QED
      BY <3>3, <3>6
  <2> QED
    BY <2>1, <2>2
<1> QED
  BY <1>2, <1>3

LEMMA RestPreserved == IInv /\ [Next]_vars => Covered' /\ Counted'
<1> SUFFICES ASSUME IInv, [Next]_vars PROVE Covered' /\ Counted'
  OBVIOUS
<1>1. TypeInv /\ PodsInv
  BY DEF IInv
<1>2. CASE KubeletStep
  <2>1. queued' = (set # None) /\ set' = set
    BY <1>2 DEF KubeletStep, PodReady, PodFails, Finalize, SetPods, Notified
  <2> QED
    BY <2>1, Quiet
<1>3. CASE TemplateStep
  BY <1>1, <1>3, TemplateStepType, Quiet DEF Command
<1>4. CASE CreateSet \/ DeleteSet \/ ChangeNodes \/ Resync
  BY <1>4, Quiet DEF CreateSet, DeleteSet, ChangeNodes, Resync, Command
<1>5. ASSUME NEW n \in NodeNames, NEW i \in DOMAIN pods[n], DeletePod(n, i)
      PROVE  Covered' /\ Counted'
  <2>1. queued' = (set # None) /\ set' = set
    BY <1>5 DEF DeletePod, Notified
  <2> QED
    BY <2>1, Quiet
<1>6. CASE UNCHANGED vars
  BY <1>6, Quiet DEF vars
<1> QED
  BY <1>2, <1>3, <1>4, <1>5, <1>6, ReconcileRest DEF Next, UserStep, TemplateStep

-------------------------------------------------------------------------------
(* Theorems *)

\* The inductive invariant holds in every behaviour of the DaemonSet, its
\* kubelets and its users (DaemonSetController.reconcile).
THEOREM Inductive == Spec => []IInv
<1>1. IInv /\ [Next]_vars => IInv'
  BY TypePreserved, PodsPreserved, RestPreserved DEF IInv
<1> QED
  BY <1>1, InitIInv, PTL DEF Spec

\* Every variable keeps its type, and a terminating pod is never ready
\* (withTerminatingPodConditions).
THEOREM TypesHold == Spec => []TypeOK
<1>1. IInv => TypeOK
  <2> SUFFICES ASSUME TypeInv PROVE TypeOK
    BY DEF IInv
  <2>1. SoundPod \subseteq Pod
    BY DEF SoundPod
  <2>2. \A n \in NodeNames : pods[n] \in Seq(Pod)
    <3> SUFFICES ASSUME NEW n \in NodeNames PROVE pods[n] \in Seq(Pod)
      OBVIOUS
    <3>1. pods[n] \in Seq(SoundPod)
      BY DEF TypeInv
    <3> QED
      BY <2>1, <3>1
  <2>3. ASSUME NEW p \in Places PROVE PodAt(p).dying => ~PodAt(p).ready
    <3>1. PICK n \in NodeNames : p \in {n} \X DOMAIN pods[n]
      BY DEF Places
    <3>2. pods[n] \in Seq(SoundPod) /\ p[1] = n /\ p[2] \in DOMAIN pods[n]
      BY <3>1 DEF TypeInv
    <3>3. pods[n][p[2]] \in SoundPod
      BY <3>2
    <3> QED
      BY <3>2, <3>3 DEF PodAt, SoundPod
  <2> QED
    BY <2>2, <2>3 DEF TypeInv, TypeOK
<1> QED
  BY <1>1, Inductive, PTL

\* Whenever the work queue is empty every node the controller knows of has a
\* pod, and none has two that stay (DaemonSetController.reconcile).
THEOREM NodesAreCovered == Spec => []Covered
<1>1. IInv => Covered
  BY DEF IInv
<1> QED
  BY <1>1, Inductive, PTL

\* What `kubectl rollout status` reports is true of every node, however many
\* there are: the ready pods are among the first pods of the nodes seen, and
\* the status counts as many (rolloutStatusComplete).
THEOREM StatusIsTruthful == Spec => []StatusTruthful
<1>1. IInv => StatusTruthful
  <2> SUFFICES ASSUME IInv, Rest, seen = nodes, RolledOut PROVE Serving
    BY DEF StatusTruthful
  <2> DEFINE firsts == {<<n, 1>> : n \in nodes}
             f == [n \in nodes |-> <<n, 1>>]
  <2>1. TypeInv /\ set # None /\ Covered /\ Counted
    BY DEF IInv, RolledOut
  <2>2. ASSUME NEW p \in Ready PROVE p \in firsts /\ ~PodAt(p).dying
    <3>1. PICK n \in NodeNames : p \in {n} \X DOMAIN pods[n]
      BY DEF Ready, Places
    <3>2. pods[n] \in Seq(SoundPod) /\ p = <<n, p[2]>> /\ p[2] \in DOMAIN pods[n]
      BY <2>1, <3>1 DEF TypeInv
    <3>3. pods[n][p[2]] \in SoundPod
      BY <3>2
    <3>4. ~pods[n][p[2]].dying
      BY <3>2, <3>3 DEF Ready, PodAt, SoundPod
    <3>5. n \in nodes /\ p[2] = 1
      BY <2>1, <3>2, <3>4 DEF Covered, Current
    <3> QED
      BY <3>2, <3>4, <3>5 DEF PodAt
  <2>3. IsFiniteSet(nodes)
    BY <2>1, NodesAssumption, FS_Subset DEF TypeInv
  <2>4. f \in Surjection(nodes, firsts)
    BY DEF Surjection
  <2>5. IsFiniteSet(firsts) /\ Cardinality(firsts) <= Cardinality(nodes)
    <3> HIDE DEF f, firsts
    <3> QED
      BY <2>3, <2>4, FS_Surjection
  <2>6. Ready \in SUBSET firsts
    BY <2>2
  <2>7. Cardinality(Ready) >= Cardinality(nodes)
    BY <2>1 DEF RolledOut, Counted
  <2>8. Ready = firsts
    <3> HIDE DEF firsts
    <3>1. /\ Cardinality(Ready) <= Cardinality(firsts)
          /\ Cardinality(firsts) = Cardinality(Ready) => firsts = Ready
      BY <2>5, <2>6, FS_Subset
    <3>2. /\ Cardinality(Ready) \in Nat /\ Cardinality(firsts) \in Nat
          /\ Cardinality(nodes) \in Nat
      BY <2>1, <2>3, <2>5, PlacesFinite, FS_CardinalityType
    <3> QED
      BY <2>5, <2>7, <3>1, <3>2
  <2>9. ASSUME NEW n \in nodes PROVE pods[n][1].template = set.template
    <3>1. <<n, 1>> \in Ready
      BY <2>8
    <3>2. ~pods[n][1].dying
      BY <2>2, <3>1 DEF PodAt
    <3> QED
      BY <2>1, <3>2 DEF Covered, Current, TypeInv
  <2> QED
    BY <2>8, <2>9 DEF Serving, Ready
<1> QED
  BY <1>1, Inductive, PTL

-------------------------------------------------------------------------------
(* The revisions *)

\* No template is recorded twice in a row.
NoRepeats == \A i \in 1..(Len(history) - 1) : history[i] # history[i + 1]

LEMMA RecordedNoRepeats ==
  ASSUME NEW list \in Seq(Template), NEW template \in Template,
         \A i \in 1..(Len(list) - 1) : list[i] # list[i + 1]
  PROVE  LET new == Recorded(list, template)
         IN  /\ \A i \in 1..(Len(new) - 1) : new[i] # new[i + 1]
             /\ new # << >> /\ new[Len(new)] = template
<1>1. CASE list # << >> /\ list[Len(list)] = template
  BY <1>1 DEF Recorded, Last
<1>2. CASE ~(list # << >> /\ list[Len(list)] = template)
  <2> DEFINE new == Append(list, template)
  <2>1. Recorded(list, template) = new
    BY <1>2 DEF Recorded, Last
  <2>2. /\ Len(new) = Len(list) + 1 /\ new[Len(list) + 1] = template
        /\ \A i \in 1..Len(list) : new[i] = list[i]
    OBVIOUS
  <2>3. new # << >>
    <3> HIDE DEF new
    <3> QED
      BY <2>1, RecordedType
  <2>4. Len(list) \in Nat /\ (Len(list) > 0 => list[Len(list)] # template)
    BY <1>2
  <2> HIDE DEF new
  <2>5. ASSUME NEW i \in 1..Len(list) PROVE new[i] # new[i + 1]
    <3>1. CASE i = Len(list)
      BY <2>2, <2>4, <3>1
    <3>2. CASE i # Len(list)
      BY <2>2, <2>4, <3>2
    <3> QED
      BY <3>1, <3>2
  <2> QED
    BY <2>1, <2>2, <2>3, <2>4, <2>5
<1> QED
  BY <1>1, <1>2

\* The commands record the template, one after the other.
LEMMA RevisionsStep ==
  ASSUME TypeInv, NoRepeats, [Next]_vars
  PROVE  NoRepeats'
<1> DEFINE Apart(list) == \A i \in 1..(Len(list) - 1) : list[i] # list[i + 1]
<1>1. ASSUME NEW list \in Seq(Template), NEW template \in Template, Apart(list)
      PROVE  Apart(Recorded(list, template)) /\ Recorded(list, template) \in Seq(Template)
  BY <1>1, RecordedNoRepeats, RecordedType
<1>2. history \in Seq(Template) /\ Apart(history) /\ edits \in Nat
  BY DEF TypeInv, NoRepeats
<1>3. set # None => set.template \in Template
  BY DEF TypeInv, DaemonSets
<1>4. CASE RolloutRestart
  <2> DEFINE fresh == [set.template EXCEPT !.stamp = edits + 1]
             once == Recorded(history, set.template)
  <2>1. set # None /\ history' = Recorded(once, fresh)
    BY <1>4 DEF RolloutRestart
  <2>2. fresh \in Template
    BY <1>2, <1>3, <2>1 DEF Template
  <2>3. Apart(once) /\ once \in Seq(Template)
    <3> HIDE DEF Apart
    <3> QED
      BY <1>1, <1>2, <1>3, <2>1
  <2> HIDE DEF fresh, once, Apart
  <2>4. Apart(history')
    BY <1>1, <2>1, <2>2, <2>3
  <2> QED
    BY <2>4 DEF NoRepeats, Apart
<1>5. CASE RolloutHistory
  <2>1. set # None /\ history' = Recorded(history, set.template)
    BY <1>5 DEF RolloutHistory
  <2> HIDE DEF Apart
  <2>2. Apart(history')
    BY <1>1, <1>2, <1>3, <2>1
  <2> QED
    BY <2>2 DEF NoRepeats, Apart
<1>6. ASSUME NEW revision \in 0..(Len(history) + 2), RolloutUndo(revision)
      PROVE  NoRepeats'
  <2> DEFINE revisions == Recorded(history, set.template)
             target == IF revision = 0 THEN revisions[Len(revisions) - 1]
                                       ELSE revisions[revision]
  <2>1. set # None
    BY <1>6 DEF RolloutUndo
  <2>2. Apart(revisions) /\ revisions \in Seq(Template)
    <3> HIDE DEF Apart
    <3> QED
      BY <1>1, <1>2, <1>3, <2>1
  <2>3. CASE UndoFails(revision)
    <3>1. history' = revisions
      BY <1>6, <2>3 DEF RolloutUndo
    <3> QED
      BY <2>2, <3>1 DEF NoRepeats
  <2>4. CASE ~UndoFails(revision)
    <3>1. history' = Recorded(revisions, target)
      BY <1>6, <2>4 DEF RolloutUndo
    <3>2. target \in Template
      BY <2>2, <2>4 DEF UndoFails
    <3> HIDE DEF target, revisions, Apart
    <3>3. Apart(history')
      BY <1>1, <2>2, <3>1, <3>2
    <3> QED
      BY <3>3 DEF NoRepeats, Apart
  <2> QED
    BY <2>3, <2>4
<1>7. CASE UNCHANGED history
  BY <1>7 DEF NoRepeats
<1>8. \/ RolloutRestart \/ RolloutHistory \/ UNCHANGED history
      \/ \E revision \in 0..(Len(history) + 2) : RolloutUndo(revision)
  BY DEF Next, Reconcile, Resync, KubeletStep, PodReady, PodFails, Finalize, SetPods, UserStep,
         CreateSet, DeleteSet, SetImage, DeletePod, ChangeNodes, vars
<1> QED
  BY <1>4, <1>5, <1>6, <1>7, <1>8

\* The second last revision is another one than the current template.
LEMMA UndoBack ==
  ASSUME TypeInv, NoRepeats, RolloutUndo(0), ~UndoFails(0)
  PROVE  /\ set'.template # set.template
         /\ Contains(Recorded(history, set.template), set'.template)
<1> DEFINE revisions == Recorded(history, set.template)
           last == Len(revisions)
<1>1. set \in DaemonSets /\ set.template \in Template /\ history \in Seq(Template)
  BY DEF RolloutUndo, TypeInv, DaemonSets
<1>2. /\ \A i \in 1..(last - 1) : revisions[i] # revisions[i + 1]
      /\ revisions[last] = set.template
  BY <1>1, RecordedNoRepeats DEF NoRepeats
<1>3. revisions \in Seq(Template) /\ last \in Nat /\ last >= 2
  <2>1. revisions \in Seq(Template)
    BY <1>1, RecordedType, Zenon
  <2>2. ~(last < 2)
    BY DEF UndoFails
  <2> HIDE DEF revisions
  <2> QED
    BY <2>1, <2>2
<1>4. SetTemplate(revisions[last - 1])
  BY DEF RolloutUndo
<1> HIDE DEF revisions
<1>5. set'.template = revisions[last - 1]
  BY <1>1, <1>4 DEF SetTemplate, DaemonSets
<1> QED
  BY <1>2, <1>3, <1>5 DEF Contains, revisions

\* `kubectl rollout undo` either says that there is nothing to go back to or
\* gives the DaemonSet a template that is recorded and is not its current one,
\* after any restarts, undos, changes of image and re-creations of the set
\* (resolveControllerRevisionTemplate, ensureControllerRevisionHistory).
THEOREM UndoReallyGoesBack == Spec => UndoGoesBack
<1>1. Init => NoRepeats
  BY DEF Init, NoRepeats
<1>2. IInv /\ NoRepeats /\ [Next]_vars => NoRepeats'
  BY RevisionsStep DEF IInv
<1>3. IInv /\ NoRepeats =>
        (RolloutUndo(0) /\ ~UndoFails(0) =>
           /\ set'.template # set.template
           /\ Contains(Recorded(history, set.template), set'.template))
  BY UndoBack DEF IInv
<1> QED
  BY <1>1, <1>2, <1>3, Inductive, PTL DEF Spec, UndoGoesBack
===============================================================================
