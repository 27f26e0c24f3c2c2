-------------------------------- MODULE Rollout --------------------------------
(***************************************************************************)
(* A Deployment, its ReplicaSets and their pods: the Deployment and the    *)
(* ReplicaSet controller on the synchronous event bus.                     *)
(*                                                                         *)
(* As in PodPlane the call stack is a variable and only an empty stack     *)
(* leaves a choice, to timers, resyncs, kubelets and users.  A reconcile   *)
(* of the Deployment reads everything at its start and decides from that:  *)
(* what it goes on to do is a plan, carried by its frame, and every write  *)
(* of the plan is delivered to both controllers before the next is made.   *)
(* While a rollout is under way a reconcile adds its own key again, so a   *)
(* batch of the Deployment's work queue can be full (MaxBatch, 1000 in the *)
(* code); the rest is left to processNext.                                 *)
(*                                                                         *)
(* A ReplicaSet is named by its template, and a pod is only whether it is  *)
(* ready; pods that end or are asked to terminate are not active any more  *)
(* and leave the lists.  observedGeneration is left out.                   *)
(***************************************************************************)
EXTENDS Naturals, Sequences, FiniteSets, FiniteSetsExt, SequencesExt

CONSTANTS
  Templates,    \* template hashes
  Strategies,   \* values of spec.strategy
  MaxReplicas,  \* bound of the model: replicas a user asks for
  MaxEdits,     \* bound of the model: user actions
  MaxFaults,    \* bound of the model: pods that fail or turn unready
  ScaleDown,    \* bound of the model: users also lower a rolling one's replicas
  MaxBatch,     \* maxImmediateBatchSize of the Deployment's queue
  None

ASSUME SizeAssumption ==
  MaxReplicas \in Nat \ {0} /\ MaxEdits \in Nat /\ MaxFaults \in Nat
ASSUME BatchAssumption == MaxBatch \in Nat \ {0}
ASSUME TemplatesAssumption == Templates # {} /\ IsFiniteSet(Templates)
ASSUME StrategiesAssumption ==
  \A s \in Strategies :
    /\ s.type \in {"Recreate", "RollingUpdate"}
    /\ {s.surge, s.unavailable} \subseteq [percent : BOOLEAN, n : Nat]

\* What the model keeps of the objects
Statuses == [replicas : Nat, available : Nat, updated : Nat]
Deployments ==
  [replicas : Nat, template : Templates, strategy : Strategies, revision : Nat,
   status : Statuses]
ReplicaSets ==
  [spec : Nat, revision : Nat, replicas : Nat, available : Nat, at : Nat]

ASSUME NoneAssumption == None \notin Deployments \cup ReplicaSets

VARIABLES
  deploy,       \* the Deployment object, or None
  replicaSets,  \* per template the ReplicaSet, or None
  pods,         \* per template its active pods in store order: ready or not
  queued,       \* the Deployment's key is in its controller's work queue
  timer,        \* timeoutId of that queue: processNext is due
  rsQueue,      \* the ReplicaSet controller's work queue
  stack,        \* the call stack, innermost frame first
  edits,        \* user actions so far
  faults        \* pod failures so far

store == <<deploy, replicaSets, pods>>
vars == <<store, queued, timer, rsQueue, stack, edits, faults>>

-------------------------------------------------------------------------------
(* Events *)

Event(type, t) == [type |-> type, template |-> t]

\* Mutant: the Deployment controller does not watch its ReplicaSets.
SubscribersNoReplicaSets(type) ==
  IF type \in {"DeploymentUpdated", "DeploymentDeleted"}
  THEN <<"Deployment">> ELSE <<"ReplicaSet">>

\* In the order of initializeControlPlane.
Subscribers(type) ==
  CASE type \in {"DeploymentUpdated", "DeploymentDeleted"} -> <<"Deployment">>
    [] type = "ReplicaSetUpdated" -> <<"Deployment", "ReplicaSet">>
    [] OTHER -> <<"ReplicaSet">>

Delivery(event, i) == [op |-> "deliver", event |-> event, to |-> i]
Deliver(event, rest) == stack' = <<Delivery(event, 1)>> \o rest
Return(rest) == stack' = rest /\ UNCHANGED store

\* updateResource looks the object up and does nothing when it is gone.
UpdateDeployment(new, rest) ==
  IF deploy = None
  THEN Return(rest)
  ELSE /\ deploy' = new
       /\ Deliver(Event("DeploymentUpdated", None), rest)
       /\ UNCHANGED <<replicaSets, pods>>

UpdateReplicaSet(t, new, rest) ==
  IF replicaSets[t] = None
  THEN Return(rest)
  ELSE /\ replicaSets' = [replicaSets EXCEPT ![t] = new]
       /\ Deliver(Event("ReplicaSetUpdated", t), rest)
       /\ UNCHANGED <<deploy, pods>>

CreateReplicaSet(t, new, rest) ==
  /\ replicaSets' = [replicaSets EXCEPT ![t] = new]
  /\ Deliver(Event("ReplicaSetCreated", t), rest)
  /\ UNCHANGED <<deploy, pods>>

SetPods(t, list, rest) ==
  /\ pods' = [pods EXCEPT ![t] = list]
  /\ Deliver(Event("Pod", t), rest)
  /\ UNCHANGED <<deploy, replicaSets>>

-------------------------------------------------------------------------------
(* Work queues: one key for the Deployment's, templates for the ReplicaSets' *)

Draining(op, frames) == \E i \in DOMAIN frames : frames[i].op = op

DeploymentsLoop(n) == [op |-> "deployments", left |-> n]

\* add() of the Deployment's key: a queue of one key is processed, unless the
\* immediate loop is running further down the stack.
EnqueueDeployment(rest) ==
  /\ queued' = TRUE
  /\ Return(IF Draining("deployments", rest)
            THEN rest
            ELSE <<DeploymentsLoop(MaxBatch)>> \o rest)


\* Mutant: a key that comes while the loop is running is lost.
EnqueueReplicaSetLost(t, rest) ==
  IF Draining("replicaSets", rest)
  THEN Return(rest) /\ UNCHANGED rsQueue
  ELSE rsQueue' = <<t>> /\ Return(<<[op |-> "replicaSets"]>> \o rest)

\* Mutant: the queue is a list instead of a set.
EnqueueReplicaSetTwice(t, rest) ==
  /\ rsQueue' = Append(rsQueue, t)
  /\ Return(IF Draining("replicaSets", rest)
            THEN rest ELSE <<[op |-> "replicaSets"]>> \o rest)

EnqueueReplicaSet(t, rest) ==
  LET added == IF Contains(rsQueue, t) THEN rsQueue ELSE Append(rsQueue, t)
  IN  /\ rsQueue' = added
      /\ Return(IF Len(added) = 1 /\ ~Draining("replicaSets", rest)
                THEN <<[op |-> "replicaSets"]>> \o rest
                ELSE rest)

-------------------------------------------------------------------------------
(* DeploymentController: arithmetic *)

\* The sum of a function's values, as a number of pairs: a definition without
\* recursion.
Total(count) ==
  Cardinality(UNION {{t} \X (1..count[t]) : t \in DOMAIN count})

Owned(read) == {t \in Templates : read[t] # None}
TotalSpec(read, sets) == Total([t \in sets |-> read[t].spec])
TotalAvailable(read, sets) == Total([t \in sets |-> read[t].available])
AtMost(a, b) == Min({a, b})
Less(a, b) == IF a < b THEN 0 ELSE a - b       \* Math.max(0, a - b)
Unavailable(rs) == Less(rs.replicas, rs.available)

\* parseIntOrPercent
Resolve(value, desired, roundUp) ==
  IF value.percent
  THEN (desired * value.n + (IF roundUp THEN 99 ELSE 0)) \div 100
  ELSE value.n

\* resolveRollingUpdateLimits
MaxSurge(d) ==
  LET surge == Resolve(d.strategy.surge, d.replicas, TRUE)
      unavailable == Resolve(d.strategy.unavailable, d.replicas, FALSE)
  IN  IF surge = 0 /\ unavailable = 0 /\ d.replicas > 0 THEN 1 ELSE surge

MaxUnavailable(d) ==
  AtMost(Resolve(d.strategy.unavailable, d.replicas, FALSE), d.replicas)

Ceiling(d) == d.replicas + MaxSurge(d)
Floor(d) == d.replicas - MaxUnavailable(d)

-------------------------------------------------------------------------------
(* DeploymentController: what reconcile does, as steps *)

\* Several ReplicaSets are written one after the other, in store order or the
\* newest first.
Precedes(order, a, b) ==
  \/ order = "newest" /\ a.revision > b.revision
  \/ (order = "newest" => a.revision = b.revision) /\ a.at < b.at

Write(t, rs) == [template |-> t, rs |-> rs]
WriteSets(order, writes) == [do |-> "sets", order |-> order, writes |-> writes]
WriteSet(t, rs) == WriteSets("stored", {Write(t, rs)})
CreateSet(t, rs) == [do |-> "create", template |-> t, rs |-> rs]
WriteDeployment(d) == [do |-> "deployment", deploy |-> d]
WriteStatus(d) == [do |-> "status", deploy |-> d]
Again == [do |-> "enqueue"]
When(condition, step) == IF condition THEN <<step>> ELSE << >>

NewReplicaSet(read, replicas, revision) ==
  [spec |-> replicas, revision |-> revision, replicas |-> 0, available |-> 0,
   at |-> Cardinality(Owned(read)) + 1]

\* Mutant: the first rollout and the others alike.
FirstReplicasAtOnce(d, read) == d.replicas

\* What a new ReplicaSet begins with: all, or what the surge leaves
FirstReplicas(d, read) ==
  LET old == Owned(read)
      oldTotal == TotalSpec(read, old)
  IN  IF old = {} THEN d.replicas
      ELSE AtMost(d.replicas, Less(Ceiling(d), oldTotal))

\* createNewReplicaSet; the status goes into the Deployment as it was read.
CreationPlan(d, read) ==
  LET old == Owned(read)
      revision == Max({read[t].revision : t \in old} \cup {0}) + 1
      new == NewReplicaSet(read, FirstReplicas(d, read), revision)
  IN  <<CreateSet(d.template, new),
        WriteDeployment([d EXCEPT !.revision = revision])>>
      \o When(old # {}, Again)
      \o <<WriteStatus(d)>>

\* scaleDownReplicaSetsToTotal: by revision, the newest first
ScaleDownToTotal(read, old, target) ==
  LET total == TotalSpec(read, old)
      before(t) == TotalSpec(read, {u \in old : Precedes("newest", read[u], read[t])})
      removable(t) == AtMost(read[t].spec, Less(Less(total, target), before(t)))
      scaled == {t \in old : removable(t) > 0}
  IN  When(scaled # {},
           WriteSets("newest",
                     {Write(t, [read[t] EXCEPT !.spec = @ - removable(t)]) :
                        t \in scaled}))

\* Mutant: one replica too many.
MaxScaleDownOneMore(d, read, old, oldTotal, target) ==
  AtMost(oldTotal, Less(oldTotal + target + 1, Floor(d)))

\* maxScaleDown of reconcileRollingUpdateStrategy
MaxScaleDown(d, read, old, oldTotal, target) ==
  LET oldUnavailable == Total([t \in old |-> Unavailable(read[t])])
      available == TotalAvailable(read, Owned(read))
      respecting == AtMost(Less(oldTotal + target, Floor(d)),
                           Less(available, Floor(d)))
  IN  AtMost(oldTotal, Max({respecting, oldUnavailable}))

\* reconcileRollingUpdateStrategy
RollingPlan(d, read) ==
  LET current == read[d.template]
      old == Owned(read) \ {d.template}
      oldTotal == TotalSpec(read, old)
      scaleUp == AtMost(Less(d.replicas, current.spec),
                        Less(Ceiling(d), oldTotal + current.spec))
      target == current.spec + scaleUp
      targetOld == oldTotal - MaxScaleDown(d, read, old, oldTotal, target)
      mayScaleDown == \/ current.available >= target
                      \/ \E t \in old : Unavailable(read[t]) > 0
  IN  When(scaleUp > 0, WriteSet(d.template, [current EXCEPT !.spec = target]))
      \o (IF mayScaleDown /\ targetOld < oldTotal
          THEN ScaleDownToTotal(read, old, targetOld) ELSE << >>)
      \o When(target < d.replicas \/ targetOld > 0, Again)

\* reconcileRecreateStrategy
RecreatePlan(d, read) ==
  LET current == read[d.template]
      running == {t \in Owned(read) \ {d.template} : read[t].spec > 0}
  IN  IF running # {}
      THEN <<WriteSets("stored",
                       {Write(t, [read[t] EXCEPT !.spec = 0]) : t \in running}),
             Again>>
      ELSE When(current.spec # d.replicas,
                WriteSet(d.template, [current EXCEPT !.spec = d.replicas]))

\* syncDeploymentRevisionAnnotation, with the ReplicaSet that was read before
\* the steps above, and updateDeploymentStatus
RevisionPlan(d, read) ==
  LET current == read[d.template]
      highest == Max({read[t].revision : t \in Owned(read)} \cup {d.revision})
      revision == IF current.revision < highest THEN highest + 1
                  ELSE current.revision
      synced == [d EXCEPT !.revision = revision]
  IN  When(current.revision # revision,
           WriteSet(d.template, [current EXCEPT !.revision = revision]))
      \o When(d.revision # revision, WriteDeployment(synced))
      \o <<WriteStatus(synced)>>

Plan(d, read) ==
  IF read[d.template] = None THEN CreationPlan(d, read)
  ELSE IF d.strategy.type = "Recreate"
       THEN RecreatePlan(d, read) \o RevisionPlan(d, read)
       ELSE RollingPlan(d, read) \o RevisionPlan(d, read)

\* computeDeploymentStatus
StatusOf(d, read) ==
  [replicas |-> Total([t \in Owned(read) |-> read[t].replicas]),
   available |-> TotalAvailable(read, Owned(read)),
   updated |-> IF read[d.template] = None THEN 0 ELSE read[d.template].replicas]

-------------------------------------------------------------------------------
(* DeploymentController: running a reconcile *)

Reconcile(rest) ==
  Return(IF deploy = None THEN rest
         ELSE <<[op |-> "plan", steps |-> Plan(deploy, replicaSets)]>> \o rest)

PlanStep(frame, rest) ==
  LET step == Head(frame.steps)
      after == IF Len(frame.steps) = 1 THEN rest
               ELSE <<[frame EXCEPT !.steps = Tail(@)]>> \o rest
      status == StatusOf(step.deploy, replicaSets)
      without(write) ==
        IF step.writes = {write} THEN after
        ELSE <<[frame EXCEPT !.steps[1].writes = @ \ {write}]>> \o rest
  IN  \/ /\ step.do = "sets"
         /\ \E write \in step.writes :
              /\ \A other \in step.writes \ {write} :
                   Precedes(step.order, write.rs, other.rs)
              /\ UpdateReplicaSet(write.template, write.rs, without(write))
         /\ UNCHANGED queued
      \/ /\ step.do = "create"
         /\ CreateReplicaSet(step.template, step.rs, after)
         /\ UNCHANGED queued
      \/ /\ step.do = "deployment"
         /\ UpdateDeployment(step.deploy, after)
         /\ UNCHANGED queued
      \/ /\ step.do = "enqueue"
         /\ EnqueueDeployment(after)
      \/ /\ step.do = "status"
         /\ IF step.deploy.status = status
            THEN Return(after)
            ELSE UpdateDeployment([step.deploy EXCEPT !.status = status], after)
         /\ UNCHANGED queued

\* Mutant: a full batch ends without a callback.
DrainDeploymentsStops(frame, rest) ==
  /\ IF queued /\ frame.left > 0
     THEN /\ queued' = FALSE
          /\ Reconcile(<<DeploymentsLoop(frame.left - 1)>> \o rest)
     ELSE Return(rest) /\ UNCHANGED queued
  /\ UNCHANGED timer

\* One turn of the immediate loop, or its end: a full batch leaves the rest to
\* a callback.
DrainDeployments(frame, rest) ==
  IF queued /\ frame.left > 0
  THEN /\ queued' = FALSE
       /\ Reconcile(<<DeploymentsLoop(frame.left - 1)>> \o rest)
       /\ UNCHANGED timer
  ELSE /\ timer' = (timer \/ queued)
       /\ Return(rest)
       /\ UNCHANGED queued

\* The end of processNext, which has called the handler outside of the loop.
AfterNext(rest) ==
  /\ IF queued THEN EnqueueDeployment(rest) ELSE Return(rest) /\ UNCHANGED queued
  /\ UNCHANGED timer

\* handleDeploymentDeleted: the ReplicaSets found owned, one after the other
DeleteSets(frame, rest) ==
  \E t \in frame.sets :
    LET others == frame.sets \ {t}
    IN  /\ \A u \in others : Precedes("stored", replicaSets[t], replicaSets[u])
        /\ replicaSets' = [replicaSets EXCEPT ![t] = None]
        /\ Deliver(Event("ReplicaSetDeleted", t),
                   IF others = {} THEN rest
                   ELSE <<[frame EXCEPT !.sets = others]>> \o rest)
        /\ UNCHANGED <<deploy, pods>>

HandleDeployment(event, rest) ==
  \/ /\ event.type = "DeploymentUpdated"
     /\ EnqueueDeployment(rest)
  \/ /\ event.type = "ReplicaSetUpdated"
     /\ IF deploy # None THEN EnqueueDeployment(rest)
        ELSE Return(rest) /\ UNCHANGED queued
  \/ /\ event.type = "DeploymentDeleted"
     /\ LET owned == Owned(replicaSets)
        IN  Return(IF owned = {} THEN rest
                   ELSE <<[op |-> "deleteSets", sets |-> owned]>> \o rest)
     /\ UNCHANGED queued

-------------------------------------------------------------------------------
(* ReplicaSetController *)

ReadyOf(list) == Cardinality({i \in DOMAIN list : list[i]})

SetStatus(list) == [replicas |-> Len(list), available |-> ReadyOf(list)]

\* reconcile reads the ReplicaSet and its active pods once.
ReconcileSet(t, rest) ==
  LET rs == replicaSets[t]
      active == Len(pods[t])
  IN  Return(IF rs = None THEN rest
             ELSE <<[op |-> "scale", template |-> t, rs |-> rs,
                     create |-> Less(rs.spec, active),
                     delete |-> Less(active, rs.spec),
                     status |-> SetStatus(pods[t])]>> \o rest)

\* Mutant: the status is written until it is that of the pods.
ScaleStepWritesOn(frame, rest) ==
  LET t == frame.template
      status == [replicas |-> frame.rs.replicas, available |-> frame.rs.available]
      again == [frame EXCEPT !.rs.replicas = frame.status.replicas,
                             !.rs.available = frame.status.available,
                             !.status = SetStatus(pods[t])]
  IN  \/ /\ frame.create > 0
         /\ SetPods(t, Append(pods[t], FALSE),
                    <<[frame EXCEPT !.create = @ - 1]>> \o rest)
      \/ /\ frame.create = 0
         /\ IF frame.status = status
            THEN Return(rest)
            ELSE UpdateReplicaSet(t, again.rs, <<again>> \o rest)

\* Pods are created, or deleted in store order, and each is delivered before
\* the next; then the status, as it was before, goes into the ReplicaSet that
\* was read.
ScaleStep(frame, rest) ==
  LET t == frame.template
      status == [replicas |-> frame.rs.replicas, available |-> frame.rs.available]
  IN  \/ /\ frame.create > 0
         /\ SetPods(t, Append(pods[t], FALSE),
                    <<[frame EXCEPT !.create = @ - 1]>> \o rest)
      \/ /\ frame.delete > 0
         /\ SetPods(t, Tail(pods[t]), <<[frame EXCEPT !.delete = @ - 1]>> \o rest)
      \/ /\ frame.create = 0 /\ frame.delete = 0
         /\ IF frame.status = status
            THEN Return(rest)
            ELSE UpdateReplicaSet(t, [frame.rs EXCEPT
                                        !.replicas = frame.status.replicas,
                                        !.available = frame.status.available],
                                  rest)

DrainReplicaSets(rest) ==
  IF rsQueue = << >>
  THEN Return(rest) /\ UNCHANGED rsQueue
  ELSE /\ rsQueue' = Tail(rsQueue)
       /\ ReconcileSet(Head(rsQueue), <<[op |-> "replicaSets"]>> \o rest)

\* Mutant: only one pod of a deleted ReplicaSet is deleted.
DeleteOnePod(frame, rest) ==
  LET t == frame.template
  IN  IF pods[t] = << >> THEN Return(rest) ELSE SetPods(t, Tail(pods[t]), rest)

\* handleReplicaSetDeleted: the pods found owned, one after the other
DeletePods(frame, rest) ==
  LET t == frame.template
  IN  IF pods[t] = << >>
      THEN Return(rest)
      ELSE SetPods(t, Tail(pods[t]), <<frame>> \o rest)

HandleReplicaSet(event, rest) ==
  \/ /\ event.type \in {"ReplicaSetCreated", "ReplicaSetUpdated"}
     /\ EnqueueReplicaSet(event.template, rest)
  \/ /\ event.type = "ReplicaSetDeleted"
     /\ Return(<<[op |-> "deletePods", template |-> event.template]>> \o rest)
     /\ UNCHANGED rsQueue
  \/ /\ event.type = "Pod"
     /\ IF replicaSets[event.template] # None
        THEN EnqueueReplicaSet(event.template, rest)
        ELSE Return(rest) /\ UNCHANGED rsQueue

-------------------------------------------------------------------------------
(* The call stack *)

\* One subscriber of a delivery; the last one is called in tail position.
DeliverStep(frame, rest) ==
  LET to == Subscribers(frame.event.type)
      after == IF frame.to = Len(to) THEN rest
               ELSE <<[frame EXCEPT !.to = @ + 1]>> \o rest
  IN  \/ /\ to[frame.to] = "Deployment"
         /\ HandleDeployment(frame.event, after)
         /\ UNCHANGED rsQueue
      \/ /\ to[frame.to] = "ReplicaSet"
         /\ HandleReplicaSet(frame.event, after)
         /\ UNCHANGED queued

\* The innermost frame runs on.
Run ==
  /\ stack # << >>
  /\ LET frame == Head(stack)
         rest == Tail(stack)
     IN  \/ /\ frame.op = "deliver" /\ DeliverStep(frame, rest)
            /\ UNCHANGED timer
         \/ /\ frame.op = "deployments" /\ DrainDeployments(frame, rest)
            /\ UNCHANGED rsQueue
         \/ /\ frame.op = "next" /\ AfterNext(rest)
            /\ UNCHANGED rsQueue
         \/ /\ frame.op = "plan" /\ PlanStep(frame, rest)
            /\ UNCHANGED <<timer, rsQueue>>
         \/ /\ frame.op = "deleteSets" /\ DeleteSets(frame, rest)
            /\ UNCHANGED <<queued, timer, rsQueue>>
         \/ /\ frame.op = "replicaSets" /\ DrainReplicaSets(rest)
            /\ UNCHANGED <<queued, timer>>
         \/ /\ frame.op = "scale" /\ ScaleStep(frame, rest)
            /\ UNCHANGED <<queued, timer, rsQueue>>
         \/ /\ frame.op = "deletePods" /\ DeletePods(frame, rest)
            /\ UNCHANGED <<queued, timer, rsQueue>>
  /\ UNCHANGED <<edits, faults>>

-------------------------------------------------------------------------------
(* Event-loop callbacks *)

Idle == stack = << >>

\* processNext: one key, outside of the immediate loop.
TimerFires ==
  /\ Idle /\ timer
  /\ timer' = FALSE
  /\ queued' = FALSE
  /\ IF queued THEN Reconcile(<<[op |-> "next"]>>) ELSE Return(<< >>)
  /\ UNCHANGED <<rsQueue, edits, faults>>

\* resyncAll of the two controllers; the Deployment's only while its queue is
\* not being processed anyway.
ResyncDeployment ==
  /\ Idle /\ deploy # None
  /\ EnqueueDeployment(<< >>)
  /\ UNCHANGED <<timer, rsQueue, edits, faults>>

ResyncReplicaSet(t) ==
  /\ Idle /\ replicaSets[t] # None
  /\ EnqueueReplicaSet(t, << >>)
  /\ UNCHANGED <<queued, timer, edits, faults>>

-------------------------------------------------------------------------------
(* Kubelets: a pod's Ready condition changes, or it ends *)

SetReady(t, i, ready) ==
  /\ Idle
  /\ SetPods(t, [pods[t] EXCEPT ![i] = ready], << >>)
  /\ UNCHANGED <<queued, timer, rsQueue, edits>>

PodReady(t, i) ==
  ~pods[t][i] /\ SetReady(t, i, TRUE) /\ UNCHANGED faults

Fault == faults < MaxFaults /\ faults' = faults + 1

PodUnready(t, i) == pods[t][i] /\ SetReady(t, i, FALSE) /\ Fault

PodEnds(t, i) ==
  /\ Idle /\ Fault
  /\ SetPods(t, RemoveAt(pods[t], i), << >>)
  /\ UNCHANGED <<queued, timer, rsQueue, edits>>

-------------------------------------------------------------------------------
(* Users *)

Edit ==
  /\ Idle
  /\ edits < MaxEdits
  /\ edits' = edits + 1
  /\ UNCHANGED <<queued, timer, rsQueue, faults>>

Scale(n) ==
  /\ Edit
  /\ deploy # None /\ n # deploy.replicas
  /\ n < deploy.replicas => ScaleDown \/ deploy.strategy.type = "Recreate"
  /\ UpdateDeployment([deploy EXCEPT !.replicas = n], << >>)

\* set image, apply, rollout restart or rollout undo
ChangeTemplate(t) ==
  /\ Edit
  /\ deploy # None /\ t # deploy.template
  /\ UpdateDeployment([deploy EXCEPT !.template = t], << >>)

DeletePod(t, i) ==
  /\ Edit
  /\ SetPods(t, RemoveAt(pods[t], i), << >>)

DeleteDeployment ==
  /\ Edit
  /\ deploy # None
  /\ deploy' = None
  /\ Deliver(Event("DeploymentDeleted", None), << >>)
  /\ UNCHANGED <<replicaSets, pods>>

NewDeployment(n, t, strategy) ==
  [replicas |-> n, template |-> t, strategy |-> strategy, revision |-> 0,
   status |-> [replicas |-> 0, available |-> 0, updated |-> 0]]

CreateDeployment(d) ==
  /\ Edit
  /\ deploy = None
  /\ deploy' = d
  /\ Deliver(Event("DeploymentUpdated", None), << >>)
  /\ UNCHANGED <<replicaSets, pods>>

NewDeployments ==
  {NewDeployment(n, t, s) : n \in 0..MaxReplicas, t \in Templates,
                            s \in Strategies}

-------------------------------------------------------------------------------

\* A Deployment has just been created and rolled out.
RolledOut(d) ==
  /\ deploy = [d EXCEPT !.revision = 1,
                        !.status = [replicas |-> d.replicas,
                                    available |-> d.replicas,
                                    updated |-> d.replicas]]
  /\ replicaSets = [t \in Templates |->
       IF t = d.template
       THEN [spec |-> d.replicas, revision |-> 1, replicas |-> d.replicas,
             available |-> d.replicas, at |-> 1]
       ELSE None]
  /\ pods = [t \in Templates |->
               IF t = d.template THEN [i \in 1..d.replicas |-> TRUE] ELSE << >>]

Init ==
  /\ \E s \in Strategies, n \in 1..MaxReplicas :
       RolledOut(NewDeployment(n, CHOOSE t \in Templates : TRUE, s))
  /\ queued = FALSE
  /\ timer = FALSE
  /\ rsQueue = << >>
  /\ stack = << >>
  /\ edits = 0
  /\ faults = 0

Next ==
  \/ Run
  \/ TimerFires
  \/ ResyncDeployment
  \/ \E t \in Templates :
       \/ ResyncReplicaSet(t)
       \/ \E i \in DOMAIN pods[t] :
            \/ PodReady(t, i)
            \/ PodUnready(t, i)
            \/ PodEnds(t, i)
            \/ DeletePod(t, i)
       \/ ChangeTemplate(t)
  \/ \E n \in 0..MaxReplicas : Scale(n)
  \/ DeleteDeployment
  \/ \E d \in NewDeployments : CreateDeployment(d)

Spec == Init /\ [][Next]_vars

Fairness ==
  /\ WF_vars(Run)
  /\ SF_vars(TimerFires)
  /\ \A t \in Templates : SF_vars(\E i \in DOMAIN pods[t] : PodReady(t, i))

FairSpec == Spec /\ Fairness

-------------------------------------------------------------------------------
(* Properties *)

Ops == {"deliver", "deployments", "next", "plan", "deleteSets", "replicaSets",
        "scale", "deletePods"}

\* Replicas, revisions and statuses are numbers that are not negative, and a key
\* waits at most once in a queue.
TypeOK ==
  /\ deploy \in Deployments \cup {None}
  /\ \A t \in Templates : replicaSets[t] \in ReplicaSets \cup {None}
  /\ \A t \in Templates : pods[t] \in Seq(BOOLEAN)
  /\ queued \in BOOLEAN /\ timer \in BOOLEAN
  /\ rsQueue \in Seq(Templates) /\ IsInjective(rsQueue)
  /\ \A i \in DOMAIN stack : stack[i].op \in Ops
  /\ edits \in 0..MaxEdits /\ faults \in 0..MaxFaults

Active == Total([t \in Templates |-> Len(pods[t])])
Ready == Total([t \in Templates |-> ReadyOf(pods[t])])

\* Whatever is left in the Deployment's queue when the stack is empty has a
\* callback that will take it up, and the ReplicaSets' queue is empty.
NothingForgotten == Idle => (queued => timer) /\ rsQueue = << >>

\* Between calls the status of every ReplicaSet is that of its active pods, it
\* has as many as it asks for, and the Deployment's status is their sum.
StatusFresh ==
  Idle =>
    /\ \A t \in Owned(replicaSets) :
         /\ SetStatus(pods[t]) = [replicas |-> replicaSets[t].replicas,
                                  available |-> replicaSets[t].available]
         /\ Len(pods[t]) = replicaSets[t].spec
    /\ deploy # None /\ ~timer => deploy.status = StatusOf(deploy, replicaSets)

\* Nothing outlives its owner.
NoOrphans ==
  Idle =>
    /\ deploy = None => Owned(replicaSets) = {}
    /\ \A t \in Templates : replicaSets[t] = None => pods[t] = << >>

\* Between calls a rolling update has no more pods than replicas + maxSurge.
SurgeKept ==
  Idle /\ deploy # None /\ deploy.strategy.type = "RollingUpdate"
    => Active <= Ceiling(deploy)

OldSets == IF deploy = None THEN {} ELSE Owned(replicaSets) \ {deploy.template}

Decides == Len(stack') > Len(stack) /\ Head(stack').op = "plan"

\* How many pods a plan takes from the old ReplicaSets
Lowered(steps) ==
  LET downs == {i \in DOMAIN steps : steps[i].do = "sets" /\ steps[i].order = "newest"}
      writes == UNION {steps[i].writes : i \in downs}
      of(t) == CHOOSE write \in writes : write.template = t
  IN  Total([t \in {write.template : write \in writes} |->
               replicaSets[t].spec - of(t).rs.spec])

\* A rolling update that lowers old ReplicaSets, none of which reports
\* unavailable pods, leaves enough ready pods even if all it takes are ready:
\* the statuses it read, some of them written by reconciles still under way, do
\* not deceive it.  Not so inside the plan of processNext, whose writes take back
\* what the loop nested in an earlier one has written.
AvailabilityKept ==
  [][/\ Decides /\ ~Draining("plan", stack)
     /\ deploy # None /\ deploy.strategy.type = "RollingUpdate"
     /\ \A t \in OldSets : Unavailable(replicaSets[t]) = 0
     /\ Lowered(Head(stack').steps) > 0
     => Ready >= Floor(deploy) + Lowered(Head(stack').steps)]_vars

\* What the ReplicaSet controller writes with a status is the specification
\* that is there, although it read it before its pods were delivered.
StatusWritesAreFresh ==
  [][stack # << >> /\ Head(stack).op = "scale" =>
      \A t \in Owned(replicaSets) : replicaSets'[t].spec = replicaSets[t].spec
                /\ replicaSets'[t].revision = replicaSets[t].revision]_vars

\* In the end a Deployment runs its template only, on as many ready pods as it
\* asks for, and its status says so.
RolloutCompletes ==
  <>[](deploy # None =>
        /\ \A t \in OldSets : pods[t] = << >>
        /\ ReadyOf(pods[deploy.template]) = deploy.replicas
        /\ deploy.status = [replicas |-> deploy.replicas,
                            available |-> deploy.replicas,
                            updated |-> deploy.replicas])
===============================================================================
