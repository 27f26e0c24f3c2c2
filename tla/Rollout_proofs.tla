----------------------------- MODULE Rollout_proofs -----------------------------
(***************************************************************************)
(* Theorems about Rollout.  NothingForgotten is not inductive: while code  *)
(* runs, a queue may have keys because a loop on the stack will take them. *)
(* Attended is that; it needs nothing of what the plans and the frames     *)
(* carry, only that the stack is a sequence and that a step replaces its   *)
(* head and keeps the frames below.                                        *)
(*                                                                         *)
(* The objects need more.  What holds of them between calls is, inside a   *)
(* call, owed by a frame of the stack: a status by the delivery, the key   *)
(* or the reconcile that will compute it, an orphan by the cascade that is *)
(* deleting it.  The invariant OInv says so, and has two cases.  While the *)
(* Deployment exists (Living) the frames that may be anywhere on the stack *)
(* are calm: they neither delete anything nor create or scale a            *)
(* ReplicaSet, which only the innermost frames do.  While it is deleted    *)
(* (Dying) the stack is the cascade, with nothing else on it.              *)
(***************************************************************************)
EXTENDS Rollout, TLAPS, FiniteSetTheorems, WellFoundedInduction

\* Of a stack only this matters: it is a sequence, of whatever frames.
IsStack(frames) == \E S : frames \in Seq(S)

\* The work queues are attended to: by a callback, or by a frame of the stack.
Attended ==
  /\ queued => \/ timer
               \/ Draining("deployments", stack)
               \/ Draining("next", stack)
  /\ rsQueue # << >> => Draining("replicaSets", stack)

IInv == IsStack(stack) /\ Attended

\* The next stack has all the frames of rest.
Above(rest) ==
  /\ IsStack(stack')
  /\ \A op : Draining(op, rest) => Draining(op, stack')

-------------------------------------------------------------------------------
(* Stacks *)

\* The empty stack is one.
LEMMA EmptyStack == IsStack(<< >>) /\ \A op : ~Draining(op, << >>)
<1>1. << >> \in Seq({})
  OBVIOUS
<1> QED
  BY <1>1 DEF IsStack, Draining

\* A frame on top of a stack leaves the others where they are.
LEMMA Push ==
  ASSUME NEW frame, NEW rest, IsStack(rest)
  PROVE  /\ IsStack(<<frame>> \o rest)
         /\ \A op : Draining(op, rest) => Draining(op, <<frame>> \o rest)
         /\ Draining(frame.op, <<frame>> \o rest)
<1>1. PICK S : rest \in Seq(S)
  BY DEF IsStack
<1> DEFINE T == S \cup {frame}
           frames == <<frame>> \o rest
<1>2. rest \in Seq(T) /\ <<frame>> \in Seq(T)
  BY <1>1
<1>3. frames \in Seq(T) /\ Len(frames) = Len(rest) + 1
  BY <1>2
<1>4. frames[1] = frame /\ 1 \in DOMAIN frames
  BY <1>2, <1>3
<1>5. \A i \in DOMAIN rest : i + 1 \in DOMAIN frames /\ frames[i + 1] = rest[i]
  BY <1>2, <1>3
<1>6. ASSUME NEW op, Draining(op, rest) PROVE Draining(op, frames)
  BY <1>5, <1>6 DEF Draining
<1>7. Draining(frame.op, frames)
  BY <1>4 DEF Draining
<1>8. IsStack(frames)
  BY <1>3 DEF IsStack
<1> QED
  BY <1>6, <1>7, <1>8

\* Without its head a stack has all the other operations.
LEMMA Pop ==
  ASSUME NEW frames, IsStack(frames), frames # << >>
  PROVE  /\ IsStack(Tail(frames))
         /\ \A op : /\ Draining(op, frames)
                    /\ op # Head(frames).op
                    => Draining(op, Tail(frames))
<1>1. PICK S : frames \in Seq(S)
  BY DEF IsStack
<1>2. Tail(frames) \in Seq(S)
  BY <1>1
<1>3. ASSUME NEW op, Draining(op, frames), op # Head(frames).op
      PROVE  Draining(op, Tail(frames))
  <2>1. PICK i \in DOMAIN frames : frames[i].op = op
    BY <1>3 DEF Draining
  <2>2. i # 1 /\ i \in 1..Len(frames)
    BY <2>1, <1>1, <1>3
  <2>3. i - 1 \in DOMAIN Tail(frames) /\ Tail(frames)[i - 1] = frames[i]
    BY <1>1, <2>2
  <2> QED
    BY <2>1, <2>3 DEF Draining
<1> QED
  BY <1>2, <1>3 DEF IsStack

\* A function that returns keeps the frames below it.
LEMMA Returns ==
  ASSUME NEW rest, IsStack(rest), Return(rest) PROVE Above(rest)
BY DEF Return, Above

\* So does one that emits an event.
LEMMA Delivers ==
  ASSUME NEW rest, NEW event, IsStack(rest), Deliver(event, rest)
  PROVE  Above(rest)
BY Push DEF Deliver, Above

\* So do the writes to the store.
LEMMA Writes ==
  ASSUME NEW rest, IsStack(rest), NEW t, NEW new,
         \/ UpdateDeployment(new, rest)
         \/ UpdateReplicaSet(t, new, rest)
         \/ CreateReplicaSet(t, new, rest)
         \/ SetPods(t, new, rest)
  PROVE  Above(rest)
<1>1. CASE UpdateDeployment(new, rest)
  <2>1. Return(rest) \/ Deliver(Event("DeploymentUpdated", None), rest)
    BY <1>1 DEF UpdateDeployment
  <2> QED
    BY <2>1, Returns, Delivers
<1>2. CASE UpdateReplicaSet(t, new, rest)
  <2>1. Return(rest) \/ Deliver(Event("ReplicaSetUpdated", t), rest)
    BY <1>2 DEF UpdateReplicaSet
  <2> QED
    BY <2>1, Returns, Delivers
<1>3. CASE CreateReplicaSet(t, new, rest)
  BY <1>3, Delivers DEF CreateReplicaSet
<1>4. CASE SetPods(t, new, rest)
  BY <1>4, Delivers DEF SetPods
<1> QED
  BY <1>1, <1>2, <1>3, <1>4

\* A frame between the new ones and rest does not matter.
LEMMA Through ==
  ASSUME NEW rest, IsStack(rest), NEW frame, Above(<<frame>> \o rest)
  PROVE  Above(rest) /\ Draining(frame.op, stack')
BY Push DEF Above

-------------------------------------------------------------------------------
(* Queues *)

\* The Deployment's queue has a key and its loop is on the stack.
LEMMA EnqueuesDeployment ==
  ASSUME NEW rest, IsStack(rest), EnqueueDeployment(rest)
  PROVE  Above(rest) /\ Draining("deployments", stack')
<1>1. CASE Draining("deployments", rest)
  <2>1. Return(rest)
    BY <1>1 DEF EnqueueDeployment
  <2> QED
    BY <1>1, <2>1, Returns DEF Above
<1>2. CASE ~Draining("deployments", rest)
  <2> DEFINE frame == DeploymentsLoop(MaxBatch)
  <2>1. Return(<<frame>> \o rest) /\ frame.op = "deployments"
    BY <1>2 DEF EnqueueDeployment, DeploymentsLoop
  <2>2. IsStack(<<frame>> \o rest)
    BY Push
  <2> HIDE DEF frame
  <2>3. Above(<<frame>> \o rest)
    BY <2>1, <2>2, Returns
  <2>4. Above(rest) /\ Draining(frame.op, stack')
    BY <2>3, Through
  <2> QED
    BY <2>1, <2>4
<1> QED
  BY <1>1, <1>2

\* A key of the ReplicaSets' queue is attended to if those before it were.
LEMMA EnqueuesReplicaSet ==
  ASSUME NEW rest, IsStack(rest), NEW t, EnqueueReplicaSet(t, rest),
         rsQueue # << >> => Draining("replicaSets", rest)
  PROVE  Above(rest) /\ Draining("replicaSets", stack')
<1> DEFINE frame == [op |-> "replicaSets"]
           added == IF Contains(rsQueue, t) THEN rsQueue ELSE Append(rsQueue, t)
<1>1. CASE Draining("replicaSets", rest)
  <2>1. Return(rest)
    BY <1>1 DEF EnqueueReplicaSet
  <2> QED
    BY <1>1, <2>1, Returns DEF Above
<1>2. CASE ~Draining("replicaSets", rest)
  <2>1. rsQueue = << >>
    BY <1>2
  <2>2. ~Contains(rsQueue, t)
    BY <2>1 DEF Contains
  <2>3. added = <<t>> /\ Len(added) = 1
    BY <2>1, <2>2
  <2>4. Return(<<frame>> \o rest)
    BY <1>2, <2>3 DEF EnqueueReplicaSet
  <2>5. IsStack(<<frame>> \o rest)
    BY Push
  <2>6. Above(<<frame>> \o rest)
    BY <2>4, <2>5, Returns
  <2>7. Above(rest) /\ Draining(frame.op, stack')
    BY <2>6, Through
  <2> QED
    BY <2>7
<1> QED
  BY <1>1, <1>2

-------------------------------------------------------------------------------
(* The frames of the call stack.  A frame that is neither a loop of a queue *)
(* nor processNext may leave the stack, as long as the queues it touches    *)
(* stay attended to.                                                        *)

\* What a step may do to the queues: leave one alone, or put a loop under it.
Careful(rest) ==
  /\ Above(rest)
  /\ UNCHANGED timer
  /\ UNCHANGED queued \/ Draining("deployments", stack')
  /\ UNCHANGED rsQueue \/ Draining("replicaSets", stack')

\* Such a step keeps the invariant, if the frame it replaces runs no queue.
LEMMA CarefulKeeps ==
  ASSUME IInv, stack # << >>, Careful(Tail(stack)),
         Head(stack).op \notin {"deployments", "next", "replicaSets"}
  PROVE  IInv'
<1>1. \A op \in {"deployments", "next", "replicaSets"} :
        Draining(op, stack) => Draining(op, Tail(stack))
  BY Pop DEF IInv
<1>2. IsStack(stack')
  BY DEF Careful, Above
<1>3. \A op \in {"deployments", "next", "replicaSets"} :
        Draining(op, stack) => Draining(op, stack')
  BY <1>1 DEF Careful, Above
<1>4. ASSUME queued'
      PROVE  timer' \/ Draining("deployments", stack') \/ Draining("next", stack')
  BY <1>3, <1>4 DEF Careful, IInv, Attended
<1>5. ASSUME rsQueue' # << >> PROVE Draining("replicaSets", stack')
  BY <1>3, <1>5 DEF Careful, IInv, Attended
<1> QED
  BY <1>2, <1>4, <1>5 DEF IInv, Attended

\* A frame over the rest of the stack keeps the rest.
LEMMA CarefulThrough ==
  ASSUME NEW rest, IsStack(rest), NEW frame, Careful(<<frame>> \o rest)
  PROVE  Careful(rest)
BY Through DEF Careful

\* A subscriber is called.
LEMMA DeliverKeeps ==
  ASSUME IInv, stack # << >>, NEW rest, IsStack(rest),
         rsQueue # << >> => Draining("replicaSets", rest),
         NEW frame, DeliverStep(frame, rest), UNCHANGED timer
  PROVE  Careful(rest)
<1> DEFINE next == [frame EXCEPT !.to = @ + 1]
           last == frame.to = Len(Subscribers(frame.event.type))
           after == IF last THEN rest ELSE <<next>> \o rest
<1>1. /\ IsStack(after)
      /\ rsQueue # << >> => Draining("replicaSets", after)
  <2> HIDE DEF next, last
  <2> QED
    BY Push
<1>2. \/ HandleDeployment(frame.event, after) /\ UNCHANGED rsQueue
      \/ HandleReplicaSet(frame.event, after) /\ UNCHANGED queued
  BY DEF DeliverStep
<1>s. SUFFICES Careful(after)
  <2> HIDE DEF next, last
  <2> QED
    BY CarefulThrough
<1> HIDE DEF after
<1>3. CASE HandleDeployment(frame.event, after) /\ UNCHANGED rsQueue
  <2>1. CASE EnqueueDeployment(after)
    BY <1>1, <1>3, <2>1, EnqueuesDeployment DEF Careful
  <2>2. CASE Return(after) /\ UNCHANGED queued
    BY <1>1, <1>3, <2>2, Returns DEF Careful
  <2>3. ASSUME NEW sets, UNCHANGED queued,
               Return(<<[op |-> "deleteSets", sets |-> sets]>> \o after)
        PROVE  Careful(after)
    <3> DEFINE top == [op |-> "deleteSets", sets |-> sets]
    <3>1. IsStack(<<top>> \o after)
      BY <1>1, Push
    <3>2. Above(<<top>> \o after)
      BY <2>3, <3>1, Returns
    <3>3. Above(after)
      BY <1>1, <3>2, Through
    <3> QED
      BY <1>3, <2>3, <3>3 DEF Careful
  <2>4. \/ EnqueueDeployment(after)
        \/ Return(after) /\ UNCHANGED queued
        \/ \E sets : /\ Return(<<[op |-> "deleteSets", sets |-> sets]>> \o after)
                     /\ UNCHANGED queued
    BY <1>3 DEF HandleDeployment
  <2> QED
    BY <2>1, <2>2, <2>3, <2>4
<1>4. CASE HandleReplicaSet(frame.event, after) /\ UNCHANGED queued
  <2> DEFINE t == frame.event.template
             top == [op |-> "deletePods", template |-> t]
  <2>1. CASE EnqueueReplicaSet(t, after)
    BY <1>1, <1>4, <2>1, EnqueuesReplicaSet DEF Careful
  <2>2. CASE Return(after) /\ UNCHANGED rsQueue
    BY <1>1, <1>4, <2>2, Returns DEF Careful
  <2>3. CASE Return(<<top>> \o after) /\ UNCHANGED rsQueue
    <3>1. IsStack(<<top>> \o after)
      BY <1>1, Push
    <3>2. Above(<<top>> \o after)
      BY <2>3, <3>1, Returns
    <3>3. Above(after)
      BY <1>1, <3>2, Through
    <3> QED
      BY <1>4, <2>3, <3>3 DEF Careful
  <2>4. \/ EnqueueReplicaSet(t, after)
        \/ Return(after) /\ UNCHANGED rsQueue
        \/ Return(<<top>> \o after) /\ UNCHANGED rsQueue
    BY <1>4 DEF HandleReplicaSet
  <2> QED
    BY <2>1, <2>2, <2>3, <2>4
<1> QED
  BY <1>2, <1>3, <1>4

\* A step of a plan: a write, or the Deployment's key is added again.
LEMMA PlanKeeps ==
  ASSUME NEW rest, IsStack(rest), NEW frame, PlanStep(frame, rest),
         UNCHANGED <<timer, rsQueue>>
  PROVE  Careful(rest)
<1> DEFINE Below(after) == after = rest \/ \E next : after = <<next>> \o rest
<1>1. \E after :
        /\ Below(after)
        /\ \/ EnqueueDeployment(after)
           \/ /\ UNCHANGED queued
              /\ \/ \E t, new : \/ UpdateDeployment(new, after)
                                \/ UpdateReplicaSet(t, new, after)
                                \/ CreateReplicaSet(t, new, after)
                 \/ Return(after)
  <2> DEFINE step == Head(frame.steps)
             after == IF Len(frame.steps) = 1 THEN rest
                      ELSE <<[frame EXCEPT !.steps = Tail(@)]>> \o rest
             without(write) ==
               IF step.writes = {write} THEN after
               ELSE <<[frame EXCEPT !.steps[1].writes = @ \ {write}]>> \o rest
  <2>1. Below(after) /\ \A write : Below(without(write))
    OBVIOUS
  <2>2. \/ EnqueueDeployment(after)
        \/ /\ UNCHANGED queued
           /\ \/ \E t, new : \/ UpdateDeployment(new, after)
                             \/ \E write : UpdateReplicaSet(t, new, without(write))
                             \/ CreateReplicaSet(t, new, after)
              \/ Return(after)
    BY DEF PlanStep
  <2> HIDE DEF after, without, step, Below
  <2> QED
    BY <2>1, <2>2
<1>2. PICK after : <1>1!(after)
  BY <1>1
<1>3. IsStack(after) /\ (Careful(after) => Careful(rest))
  BY <1>2, Push, CarefulThrough
<1> HIDE DEF Below
<1>4. CASE EnqueueDeployment(after)
  BY <1>3, <1>4, EnqueuesDeployment DEF Careful
<1>5. CASE Above(after) /\ UNCHANGED queued
  BY <1>3, <1>5 DEF Careful
<1> QED
  BY <1>2, <1>3, <1>4, <1>5, Writes, Returns

\* A step of the ReplicaSet controller's reconcile writes the store only.
LEMMA ScaleKeeps ==
  ASSUME NEW rest, IsStack(rest), NEW frame, ScaleStep(frame, rest),
         UNCHANGED <<queued, timer, rsQueue>>
  PROVE  Careful(rest)
<1> DEFINE t == frame.template
           fewer == [frame EXCEPT !.create = @ - 1]
           less == [frame EXCEPT !.delete = @ - 1]
<1>1. \/ \E new : SetPods(t, new, <<fewer>> \o rest)
      \/ \E new : SetPods(t, new, <<less>> \o rest)
      \/ Return(rest)
      \/ \E new : UpdateReplicaSet(t, new, rest)
  BY DEF ScaleStep
<1> HIDE DEF fewer, less, t
<1>2. IsStack(<<fewer>> \o rest) /\ IsStack(<<less>> \o rest)
  BY Push
<1>3. Above(<<fewer>> \o rest) \/ Above(<<less>> \o rest) \/ Above(rest)
  BY <1>1, <1>2, Writes, Returns
<1>4. Above(rest)
  BY <1>3, Through
<1> QED
  BY <1>4 DEF Careful

\* So do the deletions of what a deleted object owned.
LEMMA DeletionsKeep ==
  ASSUME NEW rest, IsStack(rest), NEW frame,
         DeleteSets(frame, rest) \/ DeletePods(frame, rest),
         UNCHANGED <<queued, timer, rsQueue>>
  PROVE  Careful(rest)
<1>1. \A next : IsStack(<<next>> \o rest)
  BY Push
<1>2. ASSUME DeleteSets(frame, rest) PROVE Above(rest)
  <2>1. \E event : \/ Deliver(event, rest)
                   \/ \E next : Deliver(event, <<next>> \o rest)
    BY <1>2 DEF DeleteSets
  <2> QED
    BY <1>1, <2>1, Delivers, Through
<1>3. ASSUME DeletePods(frame, rest) PROVE Above(rest)
  <2>1. \/ Return(rest)
        \/ \E new : SetPods(frame.template, new, <<frame>> \o rest)
    BY <1>3 DEF DeletePods
  <2> QED
    BY <1>1, <2>1, Returns, Writes, Through
<1> QED
  BY <1>2, <1>3 DEF Careful

-------------------------------------------------------------------------------
(* The frames that run a queue *)

\* A reconcile of the Deployment only puts its plan on the stack.
LEMMA Reconciles ==
  ASSUME NEW rest, IsStack(rest), Reconcile(rest) PROVE Above(rest)
<1> DEFINE plan == [op |-> "plan", steps |-> Plan(deploy, replicaSets)]
<1>1. Return(rest) \/ Return(<<plan>> \o rest)
  BY DEF Reconcile
<1> HIDE DEF plan
<1>2. IsStack(<<plan>> \o rest)
  BY Push
<1> QED
  BY <1>1, <1>2, Returns, Through

\* A reconcile of a ReplicaSet likewise.
LEMMA ReconcilesSet ==
  ASSUME NEW rest, IsStack(rest), NEW t, ReconcileSet(t, rest) PROVE Above(rest)
<1>1. Return(rest) \/ \E frame : Return(<<frame>> \o rest)
  BY DEF ReconcileSet
<1>2. \A frame : IsStack(<<frame>> \o rest)
  BY Push
<1> QED
  BY <1>1, <1>2, Returns, Through

\* The loop goes on as long as there are keys, or leaves them to a callback.
LEMMA DrainDeploymentsKeeps ==
  ASSUME IInv, stack # << >>, Head(stack).op = "deployments",
         DrainDeployments(Head(stack), Tail(stack)), UNCHANGED rsQueue
  PROVE  IInv'
<1> DEFINE rest == Tail(stack)
           loop == DeploymentsLoop(Head(stack).left - 1)
<1>1. /\ IsStack(rest)
      /\ Draining("replicaSets", stack) => Draining("replicaSets", rest)
  BY Pop DEF IInv
<1>2. CASE queued /\ Head(stack).left > 0
  <2>1. ~queued' /\ Reconcile(<<loop>> \o rest)
    BY <1>2 DEF DrainDeployments
  <2> HIDE DEF loop, rest
  <2>2. Above(<<loop>> \o rest)
    BY <1>1, <2>1, Push, Reconciles
  <2>3. Above(rest)
    BY <1>1, <2>2, Through
  <2> QED
    BY <1>1, <2>1, <2>3 DEF IInv, Attended, Above
<1>3. CASE ~(queued /\ Head(stack).left > 0)
  <2>1. timer' = (timer \/ queued) /\ Return(rest) /\ UNCHANGED queued
    BY <1>3 DEF DrainDeployments
  <2>2. Above(rest)
    BY <1>1, <2>1, Returns
  <2> QED
    BY <1>1, <2>1, <2>2 DEF IInv, Attended, Above
<1> QED
  BY <1>2, <1>3

\* processNext starts the loop if its handler has left keys.
LEMMA AfterNextKeeps ==
  ASSUME IInv, stack # << >>, Head(stack).op = "next",
         AfterNext(Tail(stack)), UNCHANGED rsQueue
  PROVE  IInv'
<1> DEFINE rest == Tail(stack)
<1>1. /\ IsStack(rest)
      /\ Draining("replicaSets", stack) => Draining("replicaSets", rest)
  BY Pop DEF IInv
<1>2. \/ EnqueueDeployment(rest)
      \/ ~queued /\ Return(rest) /\ UNCHANGED queued
  BY DEF AfterNext
<1> HIDE DEF rest
<1>3. Above(rest) /\ (queued' => Draining("deployments", stack'))
  BY <1>1, <1>2, EnqueuesDeployment, Returns
<1> QED
  BY <1>1, <1>3 DEF IInv, Attended, Above

\* The ReplicaSets' loop leaves the stack when its queue is empty.
LEMMA DrainReplicaSetsKeeps ==
  ASSUME IInv, stack # << >>, Head(stack).op = "replicaSets",
         DrainReplicaSets(Tail(stack)), UNCHANGED <<queued, timer>>
  PROVE  IInv'
<1> DEFINE rest == Tail(stack)
           loop == [op |-> "replicaSets"]
<1>1. /\ IsStack(rest)
      /\ \A op \in {"deployments", "next"} :
           Draining(op, stack) => Draining(op, rest)
  BY Pop DEF IInv
<1>2. \/ rsQueue' = << >> /\ Return(rest)
      \/ ReconcileSet(Head(rsQueue), <<loop>> \o rest)
  BY DEF DrainReplicaSets
<1>3. CASE rsQueue' = << >> /\ Return(rest)
  <2>1. Above(rest)
    BY <1>1, <1>3, Returns
  <2> QED
    BY <1>1, <1>3, <2>1 DEF IInv, Attended, Above
<1>4. CASE ReconcileSet(Head(rsQueue), <<loop>> \o rest)
  <2> HIDE DEF rest
  <2>1. Above(<<loop>> \o rest)
    BY <1>1, <1>4, Push, ReconcilesSet
  <2>2. Above(rest) /\ Draining(loop.op, stack')
    BY <1>1, <2>1, Through
  <2>3. Draining("replicaSets", stack')
    BY <2>2
  <2> QED
    BY <1>1, <2>2, <2>3 DEF IInv, Attended, Above
<1> QED
  BY <1>2, <1>3, <1>4

-------------------------------------------------------------------------------
(* The steps *)

\* The innermost frame runs on.
LEMMA RunKeeps == ASSUME IInv, Run PROVE IInv'
<1> DEFINE frame == Head(stack)
           rest == Tail(stack)
           quiet == frame.op \notin {"deployments", "next", "replicaSets"}
<1>1. stack # << >>
  BY DEF Run
<1>2. IsStack(rest)
  BY <1>1, Pop DEF IInv
<1>3. quiet => (rsQueue # << >> => Draining("replicaSets", rest))
  BY <1>1, Pop DEF IInv, Attended
<1>4. ASSUME quiet, Careful(rest) PROVE IInv'
  BY <1>1, <1>4, CarefulKeeps
<1>5. CASE /\ frame.op = "deliver"
           /\ DeliverStep(frame, rest)
           /\ UNCHANGED timer
  <2> HIDE DEF frame, rest
  <2>1. quiet
    BY <1>5
  <2> QED
    BY <1>1, <1>2, <1>3, <1>4, <1>5, <2>1, DeliverKeeps
<1>6. CASE /\ frame.op = "plan"
           /\ PlanStep(frame, rest)
           /\ UNCHANGED <<timer, rsQueue>>
  <2> HIDE DEF frame, rest
  <2> QED
    BY <1>2, <1>4, <1>6, PlanKeeps
<1>7. CASE /\ frame.op = "scale"
           /\ ScaleStep(frame, rest)
           /\ UNCHANGED <<queued, timer, rsQueue>>
  <2> HIDE DEF frame, rest
  <2> QED
    BY <1>2, <1>4, <1>7, ScaleKeeps
<1>8. CASE /\ frame.op \in {"deleteSets", "deletePods"}
           /\ DeleteSets(frame, rest) \/ DeletePods(frame, rest)
           /\ UNCHANGED <<queued, timer, rsQueue>>
  <2> HIDE DEF frame, rest
  <2> QED
    BY <1>2, <1>4, <1>8, DeletionsKeep
<1>9. CASE /\ frame.op = "deployments"
           /\ DrainDeployments(frame, rest)
           /\ UNCHANGED rsQueue
  BY <1>1, <1>9, DrainDeploymentsKeeps
<1>10. CASE /\ frame.op = "next"
            /\ AfterNext(rest)
            /\ UNCHANGED rsQueue
  BY <1>1, <1>10, AfterNextKeeps
<1>11. CASE /\ frame.op = "replicaSets"
            /\ DrainReplicaSets(rest)
            /\ UNCHANGED <<queued, timer>>
  BY <1>1, <1>11, DrainReplicaSetsKeeps
<1> HIDE DEF frame, rest, quiet
<1> QED
  BY <1>5, <1>6, <1>7, <1>8, <1>9, <1>10, <1>11 DEF Run, frame, rest

\* processNext, on an empty stack.
LEMMA TimerKeeps == ASSUME IInv, TimerFires PROVE IInv'
<1> DEFINE next == [op |-> "next"]
<1>1. rsQueue = << >> /\ rsQueue' = rsQueue /\ ~queued'
  BY EmptyStack DEF TimerFires, Idle, IInv, Attended
<1>2. Reconcile(<<next>> \o << >>) \/ Return(<< >>)
  <2>1. <<next>> \o << >> = <<next>>
    OBVIOUS
  <2> QED
    BY <2>1 DEF TimerFires
<1> HIDE DEF next
<1>3. IsStack(stack')
  BY <1>2, EmptyStack, Push, Reconciles, Returns DEF Above
<1> QED
  BY <1>1, <1>3 DEF IInv, Attended

\* The resyncs add a key.
LEMMA ResyncKeeps ==
  ASSUME IInv, ResyncDeployment \/ \E t \in Templates : ResyncReplicaSet(t)
  PROVE  IInv'
<1>1. stack = << >> /\ rsQueue = << >> /\ (queued => timer)
  BY EmptyStack DEF ResyncDeployment, ResyncReplicaSet, Idle, IInv, Attended
<1>2. CASE ResyncDeployment
  <2>1. EnqueueDeployment(<< >>) /\ UNCHANGED <<timer, rsQueue>>
    BY <1>2 DEF ResyncDeployment
  <2>2. Above(<< >>) /\ Draining("deployments", stack')
    BY <2>1, EmptyStack, EnqueuesDeployment
  <2> QED
    BY <1>1, <2>1, <2>2 DEF IInv, Attended, Above
<1>3. ASSUME NEW t \in Templates, ResyncReplicaSet(t) PROVE IInv'
  <2>1. EnqueueReplicaSet(t, << >>) /\ UNCHANGED <<queued, timer>>
    BY <1>3 DEF ResyncReplicaSet
  <2>2. Above(<< >>) /\ Draining("replicaSets", stack')
    BY <1>1, <2>1, EmptyStack, EnqueuesReplicaSet
  <2> QED
    BY <1>1, <2>1, <2>2 DEF IInv, Attended, Above
<1> QED
  BY <1>2, <1>3

\* What kubelets and users do starts on an empty stack, with empty queues.
LEMMA OutsideKeeps ==
  ASSUME IInv, Idle, UNCHANGED <<queued, timer, rsQueue>>, Above(<< >>)
  PROVE  IInv'
BY EmptyStack DEF Idle, IInv, Attended, Above

\* Such a step writes the store.
LEMMA OutsideWrites ==
  ASSUME NEW t, NEW new,
         \/ UpdateDeployment(new, << >>)
         \/ SetPods(t, new, << >>)
         \/ Deliver(t, << >>)
  PROVE  Above(<< >>)
BY EmptyStack, Writes, Delivers

\* All steps keep the invariant.
LEMMA NextKeeps == ASSUME IInv, [Next]_vars PROVE IInv'
<1>1. CASE UNCHANGED vars
  BY <1>1 DEF vars, IInv, Attended, IsStack
<1>2. ASSUME NEW t \in Templates, NEW i \in DOMAIN pods[t],
             \/ PodReady(t, i) \/ PodUnready(t, i)
             \/ PodEnds(t, i) \/ DeletePod(t, i)
      PROVE  IInv'
  <2>1. /\ Idle /\ UNCHANGED <<queued, timer, rsQueue>>
        /\ \E new : SetPods(t, new, << >>)
    BY <1>2 DEF PodReady, PodUnready, PodEnds, DeletePod, SetReady, Edit
  <2> QED
    BY <2>1, OutsideWrites, OutsideKeeps
<1>3. ASSUME \/ \E t \in Templates : ChangeTemplate(t)
             \/ \E n \in 0..MaxReplicas : Scale(n)
             \/ DeleteDeployment
             \/ \E d \in NewDeployments : CreateDeployment(d)
      PROVE  IInv'
  <2>1. Idle /\ UNCHANGED <<queued, timer, rsQueue>>
    BY <1>3 DEF ChangeTemplate, Scale, DeleteDeployment, CreateDeployment, Edit
  <2>2. \/ \E new : UpdateDeployment(new, << >>)
        \/ \E event : Deliver(event, << >>)
    BY <1>3 DEF ChangeTemplate, Scale, DeleteDeployment, CreateDeployment
  <2>3. Above(<< >>)
    BY <2>2, OutsideWrites
  <2> QED
    BY <2>1, <2>3, OutsideKeeps
<1> QED
  BY <1>1, <1>2, <1>3, RunKeeps, TimerKeeps, ResyncKeeps DEF Next

\* Whatever is in a work queue when the stack is empty will be taken up: for
\* any templates, strategies, replicas, batch size and numbers of user actions
\* and failures, the re-entrant queues of the Deployment and the ReplicaSet
\* controller forget no key.
THEOREM NothingIsForgotten == Spec => []NothingForgotten
<1>1. Init => IInv
  BY EmptyStack DEF Init, IInv, Attended
<1>2. IInv /\ [Next]_vars => IInv'
  BY NextKeeps
<1>3. IInv => NothingForgotten
  BY EmptyStack DEF IInv, Attended, NothingForgotten, Idle
<1> QED
  BY <1>1, <1>2, <1>3, PTL DEF Spec

-------------------------------------------------------------------------------
(* The limits of a rolling update *)

\* The smaller of two natural numbers is one of them.
LEMMA AtMostIs ==
  ASSUME NEW a \in Nat, NEW b \in Nat
  PROVE  AtMost(a, b) = IF a <= b THEN a ELSE b
<1> DEFINE S == {a, b}
           m == IF a <= b THEN a ELSE b
<1>1. m \in S /\ \A y \in S : m <= y
  OBVIOUS
<1>2. \A x \in S : (\A y \in S : x <= y) => x = m
  OBVIOUS
<1> QED
  BY <1>1, <1>2 DEF AtMost, Min

\* parseIntOrPercent gives a number that is not negative.
LEMMA ResolveIs ==
  ASSUME NEW desired \in Nat, NEW roundUp \in BOOLEAN,
         NEW value \in [percent : BOOLEAN, n : Nat]
  PROVE  Resolve(value, desired, roundUp) \in Nat
<1>1. desired * value.n \in Nat
  OBVIOUS
<1> DEFINE product == desired * value.n
<1>2. \A m \in Nat : m \div 100 \in Nat
  BY SMT
<1>3. CASE roundUp
  <2> HIDE DEF product
  <2>1. product + 99 \in Nat
    BY <1>1 DEF product
  <2>2. (product + 99) \div 100 \in Nat
    BY <1>2, <2>1
  <2> QED
    BY <1>3, <2>2 DEF Resolve, product
<1>4. CASE ~roundUp
  <2> HIDE DEF product
  <2>1. product + 0 \in Nat
    BY <1>1 DEF product
  <2>2. (product + 0) \div 100 \in Nat
    BY <1>2, <2>1
  <2> QED
    BY <1>4, <2>2 DEF Resolve, product
<1> QED
  BY <1>3, <1>4

\* Whatever surge and unavailability a user sets, zero and percentages
\* included, a rolling update of at least one replica has room: the number of
\* replicas that must be available is below the number that may exist.  With
\* equal limits it could neither create nor delete.
THEOREM RollingHasRoom ==
  ASSUME NEW d,
         d.replicas \in Nat \ {0},
         d.strategy.surge \in [percent : BOOLEAN, n : Nat],
         d.strategy.unavailable \in [percent : BOOLEAN, n : Nat]
  PROVE  /\ Floor(d) \in 0..d.replicas
         /\ d.replicas <= Ceiling(d)
         /\ Floor(d) < Ceiling(d)
<1> DEFINE surge == Resolve(d.strategy.surge, d.replicas, TRUE)
           unavailable == Resolve(d.strategy.unavailable, d.replicas, FALSE)
<1>1. surge \in Nat /\ unavailable \in Nat
  BY ResolveIs
<1>2. MaxUnavailable(d) =
        IF unavailable <= d.replicas THEN unavailable ELSE d.replicas
  BY <1>1, AtMostIs DEF MaxUnavailable
<1>3. MaxSurge(d) = IF surge = 0 /\ unavailable = 0 THEN 1 ELSE surge
  <2>1. d.replicas > 0
    OBVIOUS
  <2> QED
    BY <2>1, Zenon DEF MaxSurge
<1> HIDE DEF surge, unavailable
<1> QED
  BY <1>1, <1>2, <1>3 DEF Floor, Ceiling

-------------------------------------------------------------------------------
(* Sums and maxima *)

\* A function with a finite domain has a finite range.
LEMMA FiniteRange ==
  ASSUME NEW f, IsFiniteSet(DOMAIN f)
  PROVE  IsFiniteSet({f[x] : x \in DOMAIN f})
<1> DEFINE S == DOMAIN f
           T == {f[x] : x \in S}
           g == [x \in S |-> f[x]]
<1>1. g \in Surjection(S, T)
  BY DEF Surjection
<1> HIDE DEF g, T
<1>2. IsFiniteSet(T)
  BY <1>1, FS_Surjection
<1> QED
  BY <1>2 DEF T

\* A sum of natural numbers is one.
LEMMA TotalType ==
  ASSUME NEW count, IsFiniteSet(DOMAIN count), \A t \in DOMAIN count : count[t] \in Nat
  PROVE  Total(count) \in Nat
<1> DEFINE f == [t \in DOMAIN count |-> {t} \X (1..count[t])]
           T == {f[t] : t \in DOMAIN f}
<1>1. IsFiniteSet(T)
  <2>1. IsFiniteSet(DOMAIN f)
    OBVIOUS
  <2> HIDE DEF f
  <2> QED
    BY <2>1, FiniteRange
<1>2. ASSUME NEW t \in DOMAIN count PROVE IsFiniteSet({t} \X (1..count[t]))
  <2>1. 1 \in Int /\ count[t] \in Int
    OBVIOUS
  <2>2. IsFiniteSet(1..count[t])
    BY <2>1, FS_Interval
  <2>3. IsFiniteSet({t})
    BY FS_Singleton
  <2> QED
    BY <2>2, <2>3, FS_Product
<1>3. \A U \in T : IsFiniteSet(U)
  BY <1>2
<1>4. T = {{t} \X (1..count[t]) : t \in DOMAIN count}
  OBVIOUS
<1> HIDE DEF T
<1>5. Cardinality(UNION T) \in Nat
  BY <1>1, <1>3, FS_UNION, FS_CardinalityType
<1> QED
  BY <1>4, <1>5 DEF Total

\* A finite set of numbers has a greatest one.
LEMMA MaxType ==
  ASSUME NEW S \in SUBSET Nat, IsFiniteSet(S), S # {}
  PROVE  Max(S) \in S /\ \A y \in S : Max(S) >= y
<1> DEFINE Has(U) == \E x \in U : \A y \in U : x >= y
           Bad == {U \in SUBSET S : U # {} /\ ~Has(U)}
<1>1. ASSUME Bad # {} PROVE FALSE
  <2>1. /\ IsWellFoundedOn(StrictSubsetOrdering(S), FiniteSubsetsOf(S))
        /\ FiniteSubsetsOf(S) = SUBSET S
    BY FS_StrictSubsetOrderingWellFounded, FS_FiniteSubsetsOfFinite
  <2>2. Bad \subseteq FiniteSubsetsOf(S)
    BY <2>1
  <2> HIDE DEF Bad
  <2>3. PICK U \in Bad : \A V \in Bad : <<V, U>> \notin StrictSubsetOrdering(S)
    BY <1>1, <2>1, <2>2, WFMin
  <2> USE DEF Bad
  <2>4. PICK x \in U : TRUE
    BY <2>3
  <2> DEFINE V == U \ {x}
  <2>5. V \in SUBSET S /\ V \subseteq U /\ V # U
    BY <2>3, <2>4
  <2>6. <<V, U>> \in StrictSubsetOrdering(S)
    BY <2>3, <2>5 DEF StrictSubsetOrdering
  <2>7. V = {} \/ Has(V)
    BY <2>3, <2>5, <2>6
  <2>8. CASE V = {}
    BY <2>3, <2>4, <2>8
  <2>9. CASE Has(V)
    <3>1. PICK z \in V : \A y \in V : z >= y
      BY <2>9
    <3>2. x \in Nat /\ z \in Nat /\ U \subseteq Nat
      BY <2>3, <2>4, <3>1
    <3>3. CASE x >= z
      <4>1. \A y \in U : x >= y
        BY <3>1, <3>2, <3>3
      <4> QED
        BY <2>3, <2>4, <4>1
    <3>4. CASE ~(x >= z)
      <4>1. \A y \in U : z >= y
        BY <3>1, <3>2, <3>4
      <4> QED
        BY <2>3, <3>1, <4>1
    <3> QED
      BY <3>3, <3>4
  <2> QED
    BY <2>7, <2>8, <2>9
<1>2. Has(S)
  BY <1>1
<1> QED
  BY <1>2 DEF Max

-------------------------------------------------------------------------------
(* What the frames carry *)

DeploymentEvents == [type : {"DeploymentUpdated"}, template : {None}]
SetEvents ==
  [type : {"ReplicaSetCreated", "ReplicaSetUpdated", "Pod"}, template : Templates]

\* Only ReplicaSetUpdated has two subscribers.
DeliverFrames ==
  {frame \in [op : {"deliver"}, event : DeploymentEvents \cup SetEvents, to : {1, 2}] :
     frame.to = 2 => frame.event.type = "ReplicaSetUpdated"}
LoopFrames ==
  [op : {"deployments"}, left : Nat] \cup [op : {"next"}] \cup [op : {"replicaSets"}]
ScaleFrames ==
  [op : {"scale"}, template : Templates, rs : ReplicaSets, create : Nat,
   delete : Nat, status : [replicas : Nat, available : Nat]]

SetsSteps ==
  [do : {"sets"}, order : {"newest", "stored"},
   writes : SUBSET [template : Templates, rs : ReplicaSets]]
CreateSteps == [do : {"create"}, template : Templates, rs : ReplicaSets]
DeploymentSteps == [do : {"deployment", "status"}, deploy : Deployments]
AgainSteps == [do : {"enqueue"}]

\* What no plan changes of a Deployment
KindOf(d) == [template |-> d.template, strategy |-> d.strategy]

\* What a plan made of d may hold after its first step: it creates nothing, and
\* it writes no other template or strategy and no other status than d's.
LaterSteps(d) ==
  SetsSteps \cup AgainSteps
    \cup {step \in DeploymentSteps :
            KindOf(step.deploy) = KindOf(d) /\ step.deploy.status = d.status}

\* A plan ends with the status.
PlansOf(d) ==
  {steps \in Seq(CreateSteps \cup LaterSteps(d)) :
     /\ steps # << >> /\ Last(steps).do = "status"
     /\ \A k \in DOMAIN steps : k = 1 \/ steps[k] \in LaterSteps(d)}

\* Such a plan, when it creates nothing any more
CalmPlans(d) ==
  {steps \in Seq(LaterSteps(d)) : steps # << >> /\ Last(steps).do = "status"}
DeploymentsOf(kind) == {d \in Deployments : KindOf(d) = kind}

\* Frames that may be anywhere on the stack while the Deployment exists: they
\* delete nothing, and only the innermost creates or scales a ReplicaSet.
CalmFrames(kind) ==
  DeliverFrames \cup LoopFrames
    \cup [op : {"plan"}, steps : UNION {CalmPlans(d) : d \in DeploymentsOf(kind)}]
CreatingFrames(d) ==
  [op : {"plan"}, steps : {steps \in PlansOf(d) : Head(steps).do = "create"}]

-------------------------------------------------------------------------------
(* Plans *)

ReadSets == [Templates -> ReplicaSets \cup {None}]

\* The ReplicaSets that a reconcile reads
LEMMA OwnedTypes ==
  ASSUME NEW read \in ReadSets
  PROVE  /\ Owned(read) \subseteq Templates /\ IsFiniteSet(Owned(read))
         /\ Cardinality(Owned(read)) \in Nat
         /\ \A t \in Owned(read) : read[t] \in ReplicaSets
<1>1. Owned(read) \in SUBSET Templates /\ \A t \in Owned(read) : read[t] \in ReplicaSets
  BY DEF Owned, ReadSets
<1>2. IsFiniteSet(Owned(read))
  BY <1>1, TemplatesAssumption, FS_Subset
<1> QED
  BY <1>1, <1>2, FS_CardinalityType

LEMMA LessType == \A a, b \in Nat : Less(a, b) \in Nat
BY DEF Less

LEMMA AtMostType == \A a, b \in Nat : AtMost(a, b) \in Nat /\ AtMost(a, b) <= a
BY AtMostIs

\* Their sums
LEMMA SumTypes ==
  ASSUME NEW read \in ReadSets, NEW sets \in SUBSET Owned(read)
  PROVE  /\ TotalSpec(read, sets) \in Nat /\ TotalAvailable(read, sets) \in Nat
         /\ Total([t \in sets |-> Unavailable(read[t])]) \in Nat
         /\ Total([t \in sets |-> read[t].replicas]) \in Nat
<1>1. IsFiniteSet(sets) /\ \A t \in sets : read[t] \in ReplicaSets
  BY OwnedTypes, FS_Subset
<1>2. \A t \in sets : /\ read[t].spec \in Nat /\ read[t].available \in Nat
                     /\ read[t].replicas \in Nat /\ Unavailable(read[t]) \in Nat
  BY <1>1, LessType DEF ReplicaSets, Unavailable
<1>3. Total([t \in sets |-> read[t].spec]) \in Nat
  BY <1>1, <1>2, TotalType
<1>4. Total([t \in sets |-> read[t].available]) \in Nat
  BY <1>1, <1>2, TotalType
<1>5. Total([t \in sets |-> Unavailable(read[t])]) \in Nat
  BY <1>1, <1>2, TotalType
<1>6. Total([t \in sets |-> read[t].replicas]) \in Nat
  BY <1>1, <1>2, TotalType
<1> QED
  BY <1>3, <1>4, <1>5, <1>6 DEF TotalSpec, TotalAvailable

\* Revisions
LEMMA HighestRevision ==
  ASSUME NEW read \in ReadSets, NEW n \in Nat
  PROVE  Max({read[t].revision : t \in Owned(read)} \cup {n}) \in Nat
<1> DEFINE f == [t \in Owned(read) |-> read[t].revision]
           R == {read[t].revision : t \in Owned(read)}
<1>1. R = {f[t] : t \in DOMAIN f} /\ DOMAIN f = Owned(read)
  OBVIOUS
<1>2. IsFiniteSet({f[t] : t \in DOMAIN f})
  <2>1. IsFiniteSet(DOMAIN f)
    BY OwnedTypes
  <2> HIDE DEF f
  <2> QED
    BY <2>1, FiniteRange
<1>3. R \subseteq Nat
  BY OwnedTypes DEF ReplicaSets
<1> HIDE DEF R, f
<1>4. IsFiniteSet(R \cup {n})
  BY <1>1, <1>2, FS_AddElement
<1>5. Max(R \cup {n}) \in R \cup {n}
  BY <1>3, <1>4, MaxType
<1> QED
  BY <1>3, <1>5 DEF R

\* The limits of a rolling update are numbers that are not negative.
LEMMA LimitTypes ==
  ASSUME NEW d \in Deployments
  PROVE  Ceiling(d) \in Nat /\ Floor(d) \in Nat
<1> DEFINE surge == Resolve(d.strategy.surge, d.replicas, TRUE)
           unavailable == Resolve(d.strategy.unavailable, d.replicas, FALSE)
<1>1. /\ d.replicas \in Nat
      /\ d.strategy.surge \in [percent : BOOLEAN, n : Nat]
      /\ d.strategy.unavailable \in [percent : BOOLEAN, n : Nat]
  BY StrategiesAssumption DEF Deployments
<1>2. surge \in Nat /\ unavailable \in Nat
  BY <1>1, ResolveIs
<1>3. MaxUnavailable(d) \in Nat /\ MaxUnavailable(d) <= d.replicas
  <2>1. MaxUnavailable(d) = AtMost(unavailable, d.replicas)
    BY DEF MaxUnavailable
  <2> HIDE DEF unavailable
  <2>2. MaxUnavailable(d) =
          IF unavailable <= d.replicas THEN unavailable ELSE d.replicas
    BY <1>1, <1>2, <2>1, AtMostIs
  <2> QED
    BY <1>1, <1>2, <2>2
<1>4. MaxSurge(d) \in Nat
  <2>1. MaxSurge(d) = 1 \/ MaxSurge(d) = surge
    BY Zenon DEF MaxSurge
  <2> HIDE DEF surge
  <2> QED
    BY <1>2, <2>1
<1> HIDE DEF surge, unavailable
<1> QED
  BY <1>1, <1>3, <1>4 DEF Ceiling, Floor

\* A step that is made on a condition
LEMMA WhenType ==
  ASSUME NEW S, NEW condition, NEW step, condition => step \in S
  PROVE  When(condition, step) \in Seq(S)
<1>1. CASE condition
  BY <1>1 DEF When
<1>2. CASE ~condition
  BY <1>2 DEF When
<1> QED
  BY <1>1, <1>2

LEMMA ConcatType ==
  ASSUME NEW S, NEW a \in Seq(S), NEW b \in Seq(S)
  PROVE  /\ a \o b \in Seq(S) /\ Len(a \o b) = Len(a) + Len(b) /\ Len(b) \in Nat
         /\ \A k \in 1..Len(a) : (a \o b)[k] = a[k]
         /\ \A k \in 1..Len(b) : (a \o b)[Len(a) + k] = b[k]
OBVIOUS

\* Steps before the last one of a plan
LEMMA Concluded ==
  ASSUME NEW d \in Deployments, NEW list \in Seq(CreateSteps \cup LaterSteps(d)),
         \A k \in DOMAIN list : k = 1 \/ list[k] \in LaterSteps(d),
         NEW last \in LaterSteps(d), last.do = "status"
  PROVE  list \o <<last>> \in PlansOf(d)
<1> DEFINE steps == list \o <<last>>
           S == CreateSteps \cup LaterSteps(d)
<1>1. <<last>> \in Seq(S) /\ Len(<<last>>) = 1 /\ <<last>>[1] = last
  OBVIOUS
<1>2. /\ steps \in Seq(S) /\ Len(steps) = Len(list) + 1 /\ steps[Len(list) + 1] = last
      /\ Len(list) \in Nat /\ DOMAIN list = 1..Len(list)
      /\ \A k \in 1..Len(list) : steps[k] = list[k]
  BY <1>1
<1> HIDE DEF steps, S
<1>3. DOMAIN steps = 1..Len(steps) /\ Last(steps) = last /\ steps # << >>
  BY <1>2 DEF Last
<1>4. ASSUME NEW k \in DOMAIN steps PROVE k = 1 \/ steps[k] \in LaterSteps(d)
  BY <1>2, <1>3
<1> QED
  BY <1>2, <1>3, <1>4 DEF PlansOf, steps, S

\* Steps before a plan
LEMMA Preceded ==
  ASSUME NEW d \in Deployments, NEW list \in Seq(LaterSteps(d)),
         NEW steps \in PlansOf(d), steps \in Seq(LaterSteps(d))
  PROVE  list \o steps \in PlansOf(d)
<1> DEFINE all == list \o steps
<1>1. /\ all \in Seq(LaterSteps(d)) /\ Len(all) = Len(list) + Len(steps)
      /\ Len(list) \in Nat /\ Len(steps) \in Nat
      /\ \A k \in 1..Len(steps) : all[Len(list) + k] = steps[k]
  <2> DEFINE S == LaterSteps(d)
  <2>1. list \in Seq(S) /\ steps \in Seq(S)
    OBVIOUS
  <2>2. Len(list) \in Nat /\ Len(steps) \in Nat
    BY <2>1
  <2> HIDE DEF S, all
  <2>3. /\ list \o steps \in Seq(S) /\ Len(list \o steps) = Len(list) + Len(steps)
        /\ \A k \in 1..Len(steps) : (list \o steps)[Len(list) + k] = steps[k]
    BY <2>1, ConcatType
  <2> QED
    BY <2>2, <2>3 DEF all, S
<1>2. steps # << >> /\ Last(steps).do = "status"
  BY DEF PlansOf
<1> HIDE DEF all
<1>3. Len(steps) \in Nat \ {0}
  BY <1>2
<1>4. Last(all) = Last(steps) /\ all # << >>
  BY <1>1, <1>3 DEF Last
<1>5. \A k \in DOMAIN all : all[k] \in LaterSteps(d)
  BY <1>1
<1>6. all \in Seq(CreateSteps \cup LaterSteps(d))
  BY <1>1
<1> QED
  BY <1>2, <1>4, <1>5, <1>6 DEF PlansOf, all

LEMMA StepTypes ==
  ASSUME NEW d \in Deployments
  PROVE  /\ Again \in LaterSteps(d)
         /\ \A t \in Templates, rs \in ReplicaSets : WriteSet(t, rs) \in LaterSteps(d)
         /\ \A t \in Templates, rs \in ReplicaSets : CreateSet(t, rs) \in CreateSteps
         /\ \A order \in {"newest", "stored"},
               writes \in SUBSET [template : Templates, rs : ReplicaSets] :
              WriteSets(order, writes) \in LaterSteps(d)
         /\ \A n \in Nat :
              /\ WriteDeployment([d EXCEPT !.revision = n]) \in LaterSteps(d)
              /\ WriteStatus([d EXCEPT !.revision = n]) \in LaterSteps(d)
              /\ WriteStatus([d EXCEPT !.revision = n]).do = "status"
         /\ WriteStatus(d) \in LaterSteps(d) /\ WriteStatus(d).do = "status"
<1>1. Again \in LaterSteps(d)
  BY DEF Again, LaterSteps, AgainSteps
<1>2. ASSUME NEW order \in {"newest", "stored"},
             NEW writes \in SUBSET [template : Templates, rs : ReplicaSets]
      PROVE  WriteSets(order, writes) \in LaterSteps(d)
  BY DEF WriteSets, LaterSteps, SetsSteps
<1>3. ASSUME NEW t \in Templates, NEW rs \in ReplicaSets
      PROVE  WriteSet(t, rs) \in LaterSteps(d) /\ CreateSet(t, rs) \in CreateSteps
  <2>1. {Write(t, rs)} \in SUBSET [template : Templates, rs : ReplicaSets]
    BY DEF Write
  <2>2. WriteSet(t, rs) \in LaterSteps(d)
    BY <1>2, <2>1 DEF WriteSet
  <2>3. CreateSet(t, rs) \in CreateSteps
    BY DEF CreateSet, CreateSteps
  <2> QED
    BY <2>2, <2>3
<1>4. ASSUME NEW x \in Deployments, KindOf(x) = KindOf(d), x.status = d.status
      PROVE  /\ WriteDeployment(x) \in LaterSteps(d) /\ WriteStatus(x) \in LaterSteps(d)
             /\ WriteStatus(x).do = "status"
  BY <1>4 DEF WriteDeployment, WriteStatus, LaterSteps, DeploymentSteps
<1>5. ASSUME NEW n \in Nat
      PROVE  LET x == [d EXCEPT !.revision = n]
             IN  x \in Deployments /\ KindOf(x) = KindOf(d) /\ x.status = d.status
  BY DEF Deployments, KindOf
<1> QED
  BY <1>1, <1>2, <1>3, <1>4, <1>5

LEMMA ScaleDownType ==
  ASSUME NEW d \in Deployments, NEW read \in ReadSets, NEW old \in SUBSET Owned(read),
         NEW target \in Nat
  PROVE  ScaleDownToTotal(read, old, target) \in Seq(LaterSteps(d))
<1> DEFINE total == TotalSpec(read, old)
           before(t) == TotalSpec(read, {u \in old : Precedes("newest", read[u], read[t])})
           removable(t) == AtMost(read[t].spec, Less(Less(total, target), before(t)))
           scaled == {t \in old : removable(t) > 0}
           writes == {Write(t, [read[t] EXCEPT !.spec = @ - removable(t)]) : t \in scaled}
<1>1. ASSUME NEW t \in old
      PROVE  Write(t, [read[t] EXCEPT !.spec = @ - removable(t)])
               \in [template : Templates, rs : ReplicaSets]
  <2>1. t \in Templates /\ read[t] \in ReplicaSets /\ read[t].spec \in Nat
    BY OwnedTypes DEF ReplicaSets
  <2>2. total \in Nat
    BY SumTypes
  <2>3. before(t) \in Nat
    BY SumTypes
  <2> DEFINE r == removable(t)
  <2>4. Less(Less(total, target), before(t)) \in Nat
    <3> HIDE DEF total, before
    <3> QED
      BY <2>2, <2>3, LessType
  <2>5. r \in Nat /\ r <= read[t].spec
    <3> HIDE DEF total, before
    <3> QED
      BY <2>1, <2>4, AtMostType
  <2> HIDE DEF r
  <2>6. read[t].spec - r \in Nat
    BY <2>1, <2>5
  <2>7. [read[t] EXCEPT !.spec = @ - r] \in ReplicaSets
    BY <2>1, <2>6 DEF ReplicaSets
  <2> QED
    BY <2>1, <2>7 DEF Write, r
<1>2. writes \in SUBSET [template : Templates, rs : ReplicaSets]
  <2> HIDE DEF removable
  <2> QED
    BY <1>1
<1>3. ScaleDownToTotal(read, old, target) = When(scaled # {}, WriteSets("newest", writes))
  BY DEF ScaleDownToTotal
<1> HIDE DEF writes, scaled
<1>4. WriteSets("newest", writes) \in LaterSteps(d)
  BY <1>2, StepTypes
<1> QED
  BY <1>3, <1>4, WhenType

LEMMA RollingType ==
  ASSUME NEW d \in Deployments, NEW read \in ReadSets, read[d.template] # None
  PROVE  RollingPlan(d, read) \in Seq(LaterSteps(d))
<1> DEFINE current == read[d.template]
           old == Owned(read) \ {d.template}
           oldTotal == TotalSpec(read, old)
           scaleUp == AtMost(Less(d.replicas, current.spec),
                             Less(Ceiling(d), oldTotal + current.spec))
           target == current.spec + scaleUp
           down == MaxScaleDown(d, read, old, oldTotal, target)
           targetOld == oldTotal - down
           mayScaleDown == \/ current.available >= target
                           \/ \E t \in old : Unavailable(read[t]) > 0
           first == When(scaleUp > 0,
                         WriteSet(d.template, [current EXCEPT !.spec = target]))
           second == IF mayScaleDown /\ targetOld < oldTotal
                     THEN ScaleDownToTotal(read, old, targetOld) ELSE << >>
           third == When(target < d.replicas \/ targetOld > 0, Again)
<1>1. d.template \in Templates /\ d.replicas \in Nat /\ current \in ReplicaSets
  BY DEF Deployments, ReadSets
<1>2. old \in SUBSET Owned(read) /\ oldTotal \in Nat /\ current.spec \in Nat
  BY <1>1, SumTypes DEF ReplicaSets
<1>3. scaleUp \in Nat /\ target \in Nat
  <2>1. Less(d.replicas, current.spec) \in Nat
    BY <1>1, <1>2, LessType
  <2>2. Less(Ceiling(d), oldTotal + current.spec) \in Nat
    <3> DEFINE n == current.spec
    <3> HIDE DEF oldTotal, n
    <3>1. oldTotal + n \in Nat /\ Ceiling(d) \in Nat
      BY <1>2, LimitTypes DEF n
    <3>2. Less(Ceiling(d), oldTotal + n) \in Nat
      BY <3>1, LessType
    <3> QED
      BY <3>2 DEF n
  <2>3. scaleUp \in Nat
    <3> HIDE DEF oldTotal, current
    <3> QED
      BY <2>1, <2>2, AtMostType
  <2> HIDE DEF scaleUp, current
  <2> QED
    BY <1>2, <2>3
<1> HIDE DEF scaleUp
<1>4. [current EXCEPT !.spec = target] \in ReplicaSets
  <2> HIDE DEF target, current
  <2> QED
    BY <1>1, <1>3 DEF ReplicaSets
<1> HIDE DEF target
<1>5. down \in Nat /\ down <= oldTotal
  <2> DEFINE oldUnavailable == Total([t \in old |-> Unavailable(read[t])])
             available == TotalAvailable(read, Owned(read))
             a == Less(oldTotal + target, Floor(d))
             b == Less(available, Floor(d))
  <2>1. oldUnavailable \in Nat /\ available \in Nat
    BY <1>2, SumTypes
  <2>2. a \in Nat /\ b \in Nat
    <3> HIDE DEF oldTotal, available
    <3>1. oldTotal + target \in Nat /\ Floor(d) \in Nat
      BY <1>2, <1>3, LimitTypes
    <3> QED
      BY <2>1, <3>1, LessType
  <2>3. AtMost(a, b) \in Nat
    <3> HIDE DEF a, b
    <3> QED
      BY <2>2, AtMostType
  <2> DEFINE both == {AtMost(a, b), oldUnavailable}
  <2>4. both \in SUBSET Nat /\ IsFiniteSet(both) /\ both # {}
    <3> HIDE DEF a, b, oldUnavailable
    <3>1. {AtMost(a, b)} \cup {oldUnavailable} = both
      OBVIOUS
    <3>2. IsFiniteSet({AtMost(a, b)})
      BY FS_Singleton
    <3>3. IsFiniteSet({AtMost(a, b)} \cup {oldUnavailable})
      BY <3>2, FS_AddElement
    <3> QED
      BY <2>1, <2>3, <3>1, <3>3
  <2> HIDE DEF both
  <2>5. Max(both) \in Nat
    BY <2>4, MaxType
  <2>6. down = AtMost(oldTotal, Max(both))
    BY DEF MaxScaleDown, both
  <2> HIDE DEF down, oldTotal
  <2> QED
    BY <1>2, <2>5, <2>6, AtMostType
<1> HIDE DEF down
<1>6. targetOld \in Nat
  <2> HIDE DEF oldTotal
  <2> QED
    BY <1>2, <1>5
<1>7. first \in Seq(LaterSteps(d))
  <2>1. WriteSet(d.template, [current EXCEPT !.spec = target]) \in LaterSteps(d)
    BY <1>1, <1>4, StepTypes
  <2> HIDE DEF current
  <2> QED
    BY <2>1, WhenType
<1>8. second \in Seq(LaterSteps(d))
  <2>1. ScaleDownToTotal(read, old, targetOld) \in Seq(LaterSteps(d))
    <3> HIDE DEF targetOld, old
    <3> QED
      BY <1>2, <1>6, ScaleDownType
  <2> HIDE DEF targetOld, old, oldTotal, mayScaleDown
  <2> QED
    BY <2>1
<1>9. third \in Seq(LaterSteps(d))
  <2> HIDE DEF targetOld
  <2> QED
    BY StepTypes, WhenType
<1>10. RollingPlan(d, read) = first \o second \o third
  BY DEF RollingPlan, down, target, scaleUp
<1> HIDE DEF first, second, third
<1> QED
  BY <1>7, <1>8, <1>9, <1>10, ConcatType

LEMMA RecreateType ==
  ASSUME NEW d \in Deployments, NEW read \in ReadSets, read[d.template] # None
  PROVE  RecreatePlan(d, read) \in Seq(LaterSteps(d))
<1> DEFINE current == read[d.template]
           running == {t \in Owned(read) \ {d.template} : read[t].spec > 0}
           writes == {Write(t, [read[t] EXCEPT !.spec = 0]) : t \in running}
           whole == [current EXCEPT !.spec = d.replicas]
<1>1. /\ d.template \in Templates /\ current \in ReplicaSets
      /\ whole \in ReplicaSets
  BY DEF Deployments, ReadSets, ReplicaSets
<1>2. writes \in SUBSET [template : Templates, rs : ReplicaSets]
  <2>1. ASSUME NEW t \in Owned(read)
        PROVE  Write(t, [read[t] EXCEPT !.spec = 0]) \in [template : Templates, rs : ReplicaSets]
    <3>1. t \in Templates /\ read[t] \in ReplicaSets
      BY OwnedTypes
    <3>2. [read[t] EXCEPT !.spec = 0] \in ReplicaSets
      BY <3>1 DEF ReplicaSets
    <3> QED
      BY <3>1, <3>2 DEF Write
  <2> QED
    BY <2>1
<1>3. /\ WriteSets("stored", writes) \in LaterSteps(d) /\ Again \in LaterSteps(d)
      /\ WriteSet(d.template, whole) \in LaterSteps(d)
  <2> HIDE DEF writes, whole
  <2> QED
    BY <1>1, <1>2, StepTypes
<1>4. \/ RecreatePlan(d, read) = <<WriteSets("stored", writes), Again>>
      \/ RecreatePlan(d, read) =
           When(current.spec # d.replicas, WriteSet(d.template, whole))
  BY DEF RecreatePlan
<1> HIDE DEF writes, whole, current
<1>5. <<WriteSets("stored", writes), Again>> \in Seq(LaterSteps(d))
  BY <1>3
<1> QED
  BY <1>3, <1>4, <1>5, WhenType

LEMMA RevisionType ==
  ASSUME NEW d \in Deployments, NEW read \in ReadSets, read[d.template] # None
  PROVE  RevisionPlan(d, read) \in PlansOf(d) \cap Seq(LaterSteps(d))
<1> DEFINE current == read[d.template]
           highest == Max({read[t].revision : t \in Owned(read)} \cup {d.revision})
           revision == IF current.revision < highest THEN highest + 1
                       ELSE current.revision
           synced == [d EXCEPT !.revision = revision]
           first == When(current.revision # revision,
                         WriteSet(d.template, [current EXCEPT !.revision = revision]))
           second == When(d.revision # revision, WriteDeployment(synced))
           last == WriteStatus(synced)
<1>1. /\ d.template \in Templates /\ d.revision \in Nat /\ current \in ReplicaSets
      /\ current.revision \in Nat
  BY DEF Deployments, ReadSets, ReplicaSets
<1>2. highest \in Nat
  BY <1>1, HighestRevision
<1>3. revision \in Nat
  <2> HIDE DEF highest, current
  <2> QED
    BY <1>1, <1>2
<1> HIDE DEF revision
<1>4. [current EXCEPT !.revision = revision] \in ReplicaSets
  <2> HIDE DEF current
  <2> QED
    BY <1>1, <1>3 DEF ReplicaSets
<1>5. /\ WriteSet(d.template, [current EXCEPT !.revision = revision]) \in LaterSteps(d)
      /\ WriteDeployment(synced) \in LaterSteps(d)
      /\ last \in LaterSteps(d) /\ last.do = "status"
  BY <1>1, <1>3, <1>4, StepTypes
<1>6. RevisionPlan(d, read) = (first \o second) \o <<last>>
  BY DEF RevisionPlan, revision
<1>7. first \in Seq(LaterSteps(d)) /\ second \in Seq(LaterSteps(d))
  <2> HIDE DEF last, synced, current
  <2> QED
    BY <1>5, WhenType
<1> DEFINE list == first \o second
<1> HIDE DEF first, second, last
<1>8. list \in Seq(LaterSteps(d)) /\ <<last>> \in Seq(LaterSteps(d))
  BY <1>5, <1>7, ConcatType
<1> HIDE DEF list
<1>9. list \o <<last>> \in Seq(LaterSteps(d))
  BY <1>8, ConcatType
<1>10. list \in Seq(CreateSteps \cup LaterSteps(d)) /\ \A k \in DOMAIN list : list[k] \in LaterSteps(d)
  BY <1>8
<1>11. list \o <<last>> \in PlansOf(d)
  BY <1>5, <1>10, Concluded
<1> QED
  BY <1>6, <1>9, <1>11 DEF list

LEMMA CreationType ==
  ASSUME NEW d \in Deployments, NEW read \in ReadSets
  PROVE  CreationPlan(d, read) \in PlansOf(d)
<1> DEFINE old == Owned(read)
           revision == Max({read[t].revision : t \in old} \cup {0}) + 1
           replicas == FirstReplicas(d, read)
           new == NewReplicaSet(read, replicas, revision)
           two == <<CreateSet(d.template, new), WriteDeployment([d EXCEPT !.revision = revision])>>
           again == When(old # {}, Again)
<1>1. d.template \in Templates /\ d.replicas \in Nat
  BY DEF Deployments
<1>2. revision \in Nat
  <2>1. Max({read[t].revision : t \in old} \cup {0}) \in Nat
    BY HighestRevision
  <2> QED
    BY <2>1
<1> HIDE DEF revision
<1>3. replicas \in Nat
  <2> DEFINE oldTotal == TotalSpec(read, old)
  <2>1. oldTotal \in Nat
    BY SumTypes
  <2> HIDE DEF oldTotal
  <2>2. Less(Ceiling(d), oldTotal) \in Nat
    BY <2>1, LimitTypes, LessType
  <2>3. AtMost(d.replicas, Less(Ceiling(d), oldTotal)) \in Nat
    BY <1>1, <2>2, AtMostType
  <2> QED
    BY <1>1, <2>3 DEF FirstReplicas, oldTotal
<1> HIDE DEF replicas
<1>4. new \in ReplicaSets
  BY <1>2, <1>3, OwnedTypes DEF NewReplicaSet, ReplicaSets
<1> HIDE DEF new
<1>5. /\ CreateSet(d.template, new) \in CreateSteps
      /\ WriteDeployment([d EXCEPT !.revision = revision]) \in LaterSteps(d)
      /\ Again \in LaterSteps(d)
      /\ WriteStatus(d) \in LaterSteps(d) /\ WriteStatus(d).do = "status"
  BY <1>1, <1>2, <1>4, StepTypes
<1>6. CreationPlan(d, read) = (two \o again) \o <<WriteStatus(d)>>
  BY DEF CreationPlan, new, replicas, revision
<1>7. again \in Seq(LaterSteps(d))
  BY <1>5, WhenType
<1> DEFINE S == CreateSteps \cup LaterSteps(d)
           list == two \o again
<1>8. two \in Seq(S) /\ Len(two) = 2 /\ two[2] \in LaterSteps(d) /\ again \in Seq(S)
  BY <1>5, <1>7
<1> HIDE DEF two, again, S
<1>9. /\ list \in Seq(S) /\ Len(list) = 2 + Len(again) /\ Len(again) \in Nat
      /\ list[2] = two[2] /\ \A k \in 1..Len(again) : list[2 + k] = again[k]
  <2>1. /\ list \in Seq(S) /\ Len(list) = Len(two) + Len(again) /\ Len(again) \in Nat
        /\ \A k \in 1..Len(two) : list[k] = two[k]
        /\ \A k \in 1..Len(again) : list[Len(two) + k] = again[k]
    BY <1>8, ConcatType
  <2> HIDE DEF list
  <2> QED
    BY <1>8, <2>1
<1>10. ASSUME NEW k \in DOMAIN list PROVE k = 1 \/ list[k] \in LaterSteps(d)
  <2>1. k \in 1..(2 + Len(again))
    BY <1>9
  <2>2. CASE k = 2
    BY <1>8, <1>9, <2>2
  <2>3. CASE k > 2
    <3>1. k - 2 \in 1..Len(again)
      BY <1>9, <2>1, <2>3
    <3>2. list[2 + (k - 2)] = again[k - 2]
      BY <1>9, <3>1
    <3>3. 2 + (k - 2) = k
      BY <2>1
    <3>4. again[k - 2] \in LaterSteps(d)
      BY <1>7, <3>1
    <3> QED
      BY <3>2, <3>3, <3>4
  <2> QED
    BY <2>1, <2>2, <2>3
<1> HIDE DEF list
<1>11. list \o <<WriteStatus(d)>> \in PlansOf(d)
  BY <1>5, <1>9, <1>10, Concluded DEF S
<1> QED
  BY <1>6, <1>11 DEF list

\* What a reconcile of the Deployment goes on to do
LEMMA PlanType ==
  ASSUME NEW d \in Deployments, NEW read \in ReadSets
  PROVE  Plan(d, read) \in PlansOf(d)
<1>1. CASE read[d.template] = None
  BY <1>1, CreationType DEF Plan
<1>2. CASE read[d.template] # None
  <2>1. /\ RevisionPlan(d, read) \in PlansOf(d)
        /\ RevisionPlan(d, read) \in Seq(LaterSteps(d))
    BY <1>2, RevisionType
  <2>2. /\ RecreatePlan(d, read) \in Seq(LaterSteps(d))
        /\ RollingPlan(d, read) \in Seq(LaterSteps(d))
    BY <1>2, RecreateType, RollingType
  <2>3. /\ RecreatePlan(d, read) \o RevisionPlan(d, read) \in PlansOf(d)
        /\ RollingPlan(d, read) \o RevisionPlan(d, read) \in PlansOf(d)
    BY <2>1, <2>2, Preceded
  <2> QED
    BY <1>2, <2>3 DEF Plan
<1> QED
  BY <1>1, <1>2

\* A sequence without its first element
LEMMA TailIs ==
  ASSUME NEW S, NEW list \in Seq(S), list # << >>
  PROVE  /\ Len(list) \in Nat \ {0} /\ DOMAIN list = 1..Len(list)
         /\ Head(list) = list[1] /\ Head(list) \in S
         /\ Tail(list) \in Seq(S) /\ Len(Tail(list)) = Len(list) - 1
         /\ \A k \in 1..(Len(list) - 1) : Tail(list)[k] = list[k + 1]
         /\ Len(list) # 1 => Tail(list) # << >> /\ Last(Tail(list)) = Last(list)
<1>1. /\ Len(list) \in Nat \ {0} /\ DOMAIN list = 1..Len(list)
      /\ Head(list) = list[1] /\ Head(list) \in S
      /\ Tail(list) \in Seq(S) /\ Len(Tail(list)) = Len(list) - 1
      /\ \A k \in 1..(Len(list) - 1) : Tail(list)[k] = list[k + 1]
  OBVIOUS
<1>2. ASSUME Len(list) # 1
      PROVE  Tail(list) # << >> /\ Last(Tail(list)) = Last(list)
  <2> DEFINE n == Len(list) - 1
  <2>1. n \in 1..n /\ n + 1 = Len(list) /\ Len(Tail(list)) = n
    BY <1>1, <1>2
  <2>2. Tail(list)[n] = list[n + 1]
    BY <1>1, <2>1
  <2> HIDE DEF n
  <2>3. Last(Tail(list)) = Tail(list)[n] /\ Last(list) = list[n + 1]
    BY <2>1 DEF Last
  <2>4. Tail(list) # << >>
    BY <2>1
  <2> QED
    BY <2>2, <2>3, <2>4
<1> QED
  BY <1>1, <1>2

\* The same of a sequence whose elements are known one by one
LEMMA SeqIs ==
  ASSUME NEW S, NEW T, NEW list \in Seq(T), \A k \in 1..Len(list) : list[k] \in S
  PROVE  list \in Seq(S)
OBVIOUS

\* Plans as they go on
LEMMA LaterTypes ==
  ASSUME NEW d, NEW step \in LaterSteps(d)
  PROVE  /\ step.do \in {"sets", "deployment", "status", "enqueue"}
         /\ step.do = "sets" => step \in SetsSteps
         /\ step.do \in {"deployment", "status"} =>
              /\ step.deploy \in Deployments
              /\ KindOf(step.deploy) = KindOf(d) /\ step.deploy.status = d.status
              /\ step.deploy.template = d.template
BY DEF LaterSteps, SetsSteps, AgainSteps, DeploymentSteps, KindOf

LEMMA CalmPlanSteps ==
  ASSUME NEW d, NEW steps \in CalmPlans(d)
  PROVE  /\ steps \in Seq(LaterSteps(d)) /\ Len(steps) \in Nat \ {0}
         /\ Head(steps) = steps[1] /\ Head(steps) \in LaterSteps(d)
         /\ Last(steps).deploy.status = d.status
         /\ Len(steps) = 1 => Head(steps).do = "status"
         /\ Len(steps) # 1 => Tail(steps) \in CalmPlans(d)
         /\ \A step \in LaterSteps(d) :
              Len(steps) # 1 => [steps EXCEPT ![1] = step] \in CalmPlans(d)
<1> DEFINE S == LaterSteps(d)
<1>1. steps \in Seq(S) /\ steps # << >> /\ Last(steps).do = "status"
  BY DEF CalmPlans
<1>s. SUFFICES /\ Last(steps).deploy.status = d.status
               /\ Len(steps) = 1 => Head(steps).do = "status"
               /\ Len(steps) # 1 => Tail(steps) \in CalmPlans(d)
               /\ \A step \in S :
                    Len(steps) # 1 => [steps EXCEPT ![1] = step] \in CalmPlans(d)
  <2> HIDE DEF S
  <2>1. Len(steps) \in Nat \ {0} /\ Head(steps) = steps[1] /\ Head(steps) \in S
    BY <1>1
  <2> QED
    BY <1>1, <2>1 DEF S
<1> HIDE DEF S
<1>2. Last(steps) \in S /\ Last(steps) = steps[Len(steps)]
  BY <1>1 DEF Last
<1>3. Last(steps).deploy.status = d.status
  BY <1>1, <1>2, LaterTypes DEF S
<1>4. ASSUME Len(steps) = 1 PROVE Head(steps).do = "status"
  BY <1>1, <1>2, <1>4
<1>5. ASSUME Len(steps) # 1 PROVE Tail(steps) \in CalmPlans(d)
  <2>1. /\ Tail(steps) \in Seq(S) /\ Tail(steps) # << >>
        /\ Last(Tail(steps)) = Last(steps)
    BY <1>1, <1>5, TailIs
  <2> QED
    BY <1>1, <2>1 DEF CalmPlans, S
<1>6. ASSUME NEW step \in S, Len(steps) # 1
      PROVE  [steps EXCEPT ![1] = step] \in CalmPlans(d)
  <2> DEFINE new == [steps EXCEPT ![1] = step]
  <2>1. /\ new \in Seq(S) /\ Len(new) = Len(steps) /\ Len(steps) > 1 /\ Len(steps) \in Nat
        /\ new[Len(steps)] = steps[Len(steps)]
    BY <1>1, <1>6
  <2> HIDE DEF new
  <2>2. Last(new) = Last(steps) /\ new # << >>
    BY <1>2, <2>1 DEF Last
  <2> QED
    BY <1>1, <2>1, <2>2 DEF CalmPlans, S, new
<1> QED
  BY <1>3, <1>4, <1>5, <1>6

\* A plan either begins by creating a ReplicaSet, or never does.
LEMMA PlanKinds ==
  ASSUME NEW d, NEW steps \in PlansOf(d)
  PROVE  \/ steps \in CalmPlans(d)
         \/ /\ Len(steps) # 1 /\ Head(steps) \in CreateSteps
            /\ Head(steps).do = "create" /\ Tail(steps) \in CalmPlans(d)
<1> DEFINE S == LaterSteps(d)
           T == CreateSteps \cup S
<1>1. /\ steps \in Seq(T) /\ steps # << >> /\ Last(steps).do = "status"
      /\ \A k \in DOMAIN steps : k = 1 \/ steps[k] \in S
  BY DEF PlansOf
<1>2. \A step \in T : \/ step \in S
                      \/ step \in CreateSteps /\ step.do = "create"
  BY DEF CreateSteps
<1>3. Last(steps) = steps[Len(steps)]
  BY DEF Last
<1> HIDE DEF S, T
<1>4. /\ Len(steps) \in Nat \ {0} /\ DOMAIN steps = 1..Len(steps)
      /\ Head(steps) = steps[1] /\ Head(steps) \in T
  BY <1>1, TailIs
<1>5. CASE Head(steps) \in S
  <2>1. \A k \in 1..Len(steps) : steps[k] \in S
    BY <1>1, <1>4, <1>5
  <2>2. steps \in Seq(S)
    BY <1>1, <2>1
  <2> QED
    BY <1>1, <2>2 DEF CalmPlans, S
<1>6. CASE Head(steps) \in CreateSteps /\ Head(steps).do = "create"
  <2>1. Len(steps) # 1
    BY <1>1, <1>3, <1>4, <1>6
  <2>2. /\ Len(Tail(steps)) = Len(steps) - 1 /\ Tail(steps) \in Seq(T)
        /\ \A k \in 1..(Len(steps) - 1) : Tail(steps)[k] = steps[k + 1]
        /\ Tail(steps) # << >> /\ Last(Tail(steps)) = Last(steps)
    BY <1>1, <2>1, TailIs
  <2>3. ASSUME NEW k \in 1..Len(Tail(steps)) PROVE Tail(steps)[k] \in S
    <3>1. k + 1 \in DOMAIN steps /\ k + 1 # 1 /\ k \in 1..(Len(steps) - 1)
      BY <1>4, <2>2
    <3> QED
      BY <1>1, <2>2, <3>1
  <2>4. Tail(steps) \in Seq(S)
    BY <2>2, <2>3, SeqIs
  <2> QED
    BY <1>1, <1>6, <2>1, <2>2, <2>4 DEF CalmPlans, S
<1> QED
  BY <1>2, <1>4, <1>5, <1>6

-------------------------------------------------------------------------------
(* The invariant *)

StoreType ==
  /\ deploy \in Deployments \cup {None}
  /\ replicaSets \in ReadSets
  /\ pods \in [Templates -> Seq(BOOLEAN)]

KeysType == rsQueue \in Seq(Templates) /\ IsInjective(rsQueue)

Unowned(t) == replicaSets[t] = None => pods[t] = << >>

\* A reconcile of the ReplicaSet is under way: nobody has written it since it
\* was read, and the pods that are missing, or too many, are those to come.
Scaling(frame) ==
  LET t == frame.template
  IN  /\ frame.rs = replicaSets[t] /\ replicaSets[t] # None
      /\ Len(pods[t]) + frame.create = frame.rs.spec + frame.delete
      /\ frame.create = 0 \/ frame.delete = 0

LivingStack ==
  \/ stack \in Seq(CalmFrames(KindOf(deploy)))
  \/ \E rest \in Seq(CalmFrames(KindOf(deploy))) :
       \/ \E frame \in CreatingFrames(deploy) : stack = <<frame>> \o rest
       \/ \E frame \in ScaleFrames :
            /\ Scaling(frame) /\ Draining("replicaSets", rest)
            /\ \/ stack = <<frame>> \o rest
               \/ stack = <<Delivery(Event("Pod", frame.template), 1)>>
                            \o (<<frame>> \o rest)

\* The frame is a delivery after which the ReplicaSet's key is in the queue.
TellsSet(frame, t) ==
  frame.op = "deliver" /\ frame.event \in SetEvents /\ frame.event.template = t

\* The frame will have the Deployment's status computed: a delivery to its
\* controller, or a reconcile, whose status is compared with the one it read.
TellsDeployment(frame, status) ==
  \/ /\ frame.op = "deliver" /\ frame.to = 1
     /\ frame.event.type \in {"DeploymentUpdated", "ReplicaSetUpdated"}
  \/ frame.op = "plan" /\ Last(frame.steps).deploy.status = status

Awaits(t, frames) == \E i \in DOMAIN frames : TellsSet(frames[i], t)
Computes(status, frames) == \E i \in DOMAIN frames : TellsDeployment(frames[i], status)

Settled(t) ==
  /\ SetStatus(pods[t]) = [replicas |-> replicaSets[t].replicas,
                           available |-> replicaSets[t].available]
  /\ Len(pods[t]) = replicaSets[t].spec

\* The innermost reconcile has counted the pods that are there.
Counted(t) ==
  /\ stack # << >> /\ Head(stack).op = "scale" /\ Head(stack).template = t
  /\ Head(stack).status = SetStatus(pods[t])

SetTold(t) == Settled(t) \/ Contains(rsQueue, t) \/ Awaits(t, stack) \/ Counted(t)

DeploymentTold ==
  \/ deploy.status = StatusOf(deploy, replicaSets)
  \/ queued
  \/ Computes(deploy.status, stack)

Living ==
  /\ deploy # None
  /\ LivingStack
  /\ \A t \in Templates : Unowned(t)
  /\ \A t \in Owned(replicaSets) : SetTold(t)
  /\ DeploymentTold

\* The cascade of a deletion, with nothing else on the stack
Remaining ==
  LET owned == Owned(replicaSets)
  IN  IF owned = {} THEN << >> ELSE <<[op |-> "deleteSets", sets |-> owned]>>

Pending(t) == <<[op |-> "deletePods", template |-> t]>> \o Remaining

DeletingPodsOf(t) ==
  /\ replicaSets[t] = None
  /\ \A u \in Templates \ {t} : Unowned(u)
  /\ \/ stack = <<Delivery(Event("ReplicaSetDeleted", t), 1)>> \o Remaining
     \/ stack = Pending(t)
     \/ stack = <<Delivery(Event("Pod", t), 1)>> \o Pending(t)

DeletingSets ==
  /\ \A t \in Templates : Unowned(t)
  /\ \/ stack = Remaining
     \/ stack = <<[op |-> "next"]>> /\ ~queued /\ Owned(replicaSets) = {}
     \/ stack = <<Delivery(Event("DeploymentDeleted", None), 1)>>

Dying == deploy = None /\ (DeletingSets \/ \E t \in Templates : DeletingPodsOf(t))

OInv == StoreType /\ KeysType /\ (Living \/ Dying)

-------------------------------------------------------------------------------
(* Stacks *)

\* What a frame adds to a stack
LEMMA Stacked ==
  ASSUME NEW S, NEW rest \in Seq(S), NEW frame
  PROVE  /\ <<frame>> \o rest # << >>
         /\ Head(<<frame>> \o rest) = frame /\ Tail(<<frame>> \o rest) = rest
         /\ \A T : frame \in T /\ rest \in Seq(T) => <<frame>> \o rest \in Seq(T)
         /\ \A t : Awaits(t, <<frame>> \o rest) <=> TellsSet(frame, t) \/ Awaits(t, rest)
         /\ \A status : Computes(status, <<frame>> \o rest) <=>
                          TellsDeployment(frame, status) \/ Computes(status, rest)
         /\ \A op : Draining(op, <<frame>> \o rest) <=> frame.op = op \/ Draining(op, rest)
<1> DEFINE frames == <<frame>> \o rest
           T == S \cup {frame}
<1>1. <<frame>> \in Seq(T) /\ rest \in Seq(T) /\ Len(<<frame>>) = 1 /\ <<frame>>[1] = frame
  OBVIOUS
<1>2. /\ frames \in Seq(T) /\ Len(frames) = 1 + Len(rest) /\ Len(rest) \in Nat
      /\ frames[1] = frame /\ \A k \in 1..Len(rest) : frames[1 + k] = rest[k]
  BY <1>1, ConcatType
<1>3. Head(frames) = frame /\ Tail(frames) = rest
  OBVIOUS
<1>4. DOMAIN frames = 1..(1 + Len(rest)) /\ DOMAIN rest = 1..Len(rest)
  BY <1>2
<1> HIDE DEF frames, T
<1>5. frames # << >>
  BY <1>2
<1>6. {frames[i] : i \in DOMAIN frames} = {frame} \cup {rest[i] : i \in DOMAIN rest}
  <2>1. ASSUME NEW i \in DOMAIN frames
        PROVE  frames[i] \in {frame} \cup {rest[k] : k \in DOMAIN rest}
    <3>1. CASE i = 1
      BY <1>2, <3>1
    <3>2. CASE i # 1
      <4>1. i - 1 \in DOMAIN rest /\ 1 + (i - 1) = i
        BY <1>2, <1>4, <3>2
      <4> QED
        BY <1>2, <1>4, <4>1
    <3> QED
      BY <3>1, <3>2
  <2>2. ASSUME NEW k \in DOMAIN rest PROVE rest[k] \in {frames[i] : i \in DOMAIN frames}
    <3>1. 1 + k \in DOMAIN frames /\ frames[1 + k] = rest[k]
      BY <1>2, <1>4
    <3> QED
      BY <3>1
  <2>3. frame \in {frames[i] : i \in DOMAIN frames}
    <3>1. 1 \in DOMAIN frames
      BY <1>2, <1>4
    <3> QED
      BY <1>2, <3>1
  <2> QED
    BY <2>1, <2>2, <2>3
<1>7. \A t : Awaits(t, frames) <=> TellsSet(frame, t) \/ Awaits(t, rest)
  <2> TAKE t
  <2>1. Awaits(t, frames) <=> \E f \in {frames[i] : i \in DOMAIN frames} : TellsSet(f, t)
    BY DEF Awaits
  <2>2. Awaits(t, rest) <=> \E f \in {rest[i] : i \in DOMAIN rest} : TellsSet(f, t)
    BY DEF Awaits
  <2> QED
    BY <1>6, <2>1, <2>2
<1>8. \A status : Computes(status, frames) <=>
                   TellsDeployment(frame, status) \/ Computes(status, rest)
  <2> TAKE status
  <2>1. Computes(status, frames) <=>
          \E f \in {frames[i] : i \in DOMAIN frames} : TellsDeployment(f, status)
    BY DEF Computes
  <2>2. Computes(status, rest) <=>
          \E f \in {rest[i] : i \in DOMAIN rest} : TellsDeployment(f, status)
    BY DEF Computes
  <2> QED
    BY <1>6, <2>1, <2>2
<1>9. \A op : Draining(op, frames) <=> frame.op = op \/ Draining(op, rest)
  <2> TAKE op
  <2>1. Draining(op, frames) <=> \E f \in {frames[i] : i \in DOMAIN frames} : f.op = op
    BY DEF Draining
  <2>2. Draining(op, rest) <=> \E f \in {rest[i] : i \in DOMAIN rest} : f.op = op
    BY DEF Draining
  <2> QED
    BY <1>6, <2>1, <2>2
<1>10. \A U : frame \in U /\ rest \in Seq(U) => frames \in Seq(U)
  <2> TAKE U
  <2> HAVE frame \in U /\ rest \in Seq(U)
  <2>1. <<frame>> \in Seq(U)
    OBVIOUS
  <2> QED
    BY <2>1, ConcatType DEF frames
<1> QED
  BY <1>3, <1>5, <1>7, <1>8, <1>9, <1>10 DEF frames

\* A stack that is not empty
LEMMA Unstacked ==
  ASSUME NEW S, NEW frames \in Seq(S), frames # << >>
  PROVE  /\ Head(frames) \in S /\ Tail(frames) \in Seq(S)
         /\ frames = <<Head(frames)>> \o Tail(frames)
OBVIOUS

LEMMA Nothing ==
  /\ << >> \in Seq({})
  /\ \A t, op, status : /\ ~Awaits(t, << >>) /\ ~Computes(status, << >>)
                        /\ ~Draining(op, << >>)
BY DEF Awaits, Computes, Draining

\* What the frames are, by their operation
LEMMA CalmKinds ==
  ASSUME NEW t, NEW frame \in CalmFrames(t)
  PROVE  \/ frame.op = "deliver" /\ frame \in DeliverFrames
         \/ frame.op = "deployments" /\ frame.left \in Nat
         \/ frame = [op |-> "next"]
         \/ frame = [op |-> "replicaSets"]
         \/ /\ frame = [op |-> "plan", steps |-> frame.steps]
            /\ \E d \in DeploymentsOf(t) : frame.steps \in CalmPlans(d)
BY DEF CalmFrames, DeliverFrames, LoopFrames

LEMMA CalmMembers ==
  ASSUME NEW t
  PROVE  /\ \A n \in Nat : DeploymentsLoop(n) \in CalmFrames(t)
         /\ [op |-> "next"] \in CalmFrames(t) /\ [op |-> "replicaSets"] \in CalmFrames(t)
         /\ DeliverFrames \subseteq CalmFrames(t)
         /\ \A event \in DeploymentEvents \cup SetEvents :
              Delivery(event, 1) \in DeliverFrames
         /\ \A d \in DeploymentsOf(t) : \A steps \in CalmPlans(d) :
              [op |-> "plan", steps |-> steps] \in CalmFrames(t)
BY DEF CalmFrames, DeliverFrames, LoopFrames, Delivery, DeploymentsLoop

-------------------------------------------------------------------------------
(* Queues and writes *)

LEMMA KeyAdded ==
  ASSUME NEW S, NEW list \in Seq(S), IsInjective(list), NEW x \in S, NEW added,
         added = IF Contains(list, x) THEN list ELSE Append(list, x)
  PROVE  /\ added \in Seq(S) /\ IsInjective(added) /\ Contains(added, x)
         /\ \A u : Contains(list, u) => Contains(added, u)
<1>1. CASE Contains(list, x)
  BY <1>1
<1>2. CASE ~Contains(list, x)
  <2>1. /\ added \in Seq(S) /\ Len(added) = Len(list) + 1 /\ Len(list) \in Nat
        /\ added[Len(list) + 1] = x /\ \A k \in 1..Len(list) : added[k] = list[k]
    BY <1>2
  <2>2. DOMAIN added = 1..(Len(list) + 1) /\ DOMAIN list = 1..Len(list)
    BY <2>1
  <2>3. \A k \in 1..Len(list) : list[k] # x
    BY <1>2 DEF Contains
  <2>4. ASSUME NEW a \in DOMAIN added, NEW b \in DOMAIN added, added[a] = added[b]
        PROVE  a = b
    BY <2>1, <2>2, <2>3, <2>4 DEF IsInjective
  <2>5. Contains(added, x)
    <3>1. Len(list) + 1 \in 1..Len(added)
      BY <2>1
    <3> QED
      BY <2>1, <3>1 DEF Contains
  <2>6. ASSUME NEW u, Contains(list, u) PROVE Contains(added, u)
    <3>1. PICK k \in 1..Len(list) : list[k] = u
      BY <2>6 DEF Contains
    <3>2. k \in 1..Len(added)
      BY <2>1
    <3> QED
      BY <2>1, <3>1, <3>2 DEF Contains
  <2> QED
    BY <2>1, <2>4, <2>5, <2>6 DEF IsInjective
<1> QED
  BY <1>1, <1>2

LEMMA KeyTaken ==
  ASSUME NEW S, NEW list \in Seq(S), IsInjective(list), list # << >>
  PROVE  /\ Head(list) \in S /\ Tail(list) \in Seq(S) /\ IsInjective(Tail(list))
         /\ \A u : Contains(list, u) => u = Head(list) \/ Contains(Tail(list), u)
<1>1. /\ Len(list) \in Nat \ {0} /\ DOMAIN list = 1..Len(list)
      /\ Head(list) = list[1] /\ Head(list) \in S
      /\ Tail(list) \in Seq(S) /\ Len(Tail(list)) = Len(list) - 1
      /\ \A k \in 1..(Len(list) - 1) : Tail(list)[k] = list[k + 1]
  BY TailIs
<1>2. DOMAIN Tail(list) = 1..(Len(list) - 1)
  BY <1>1
<1>3. ASSUME NEW a \in DOMAIN Tail(list), NEW b \in DOMAIN Tail(list),
             Tail(list)[a] = Tail(list)[b]
      PROVE  a = b
  <2>1. a + 1 \in DOMAIN list /\ b + 1 \in DOMAIN list /\ list[a + 1] = list[b + 1]
    BY <1>1, <1>2, <1>3
  <2>2. a + 1 = b + 1
    BY <2>1 DEF IsInjective
  <2> QED
    BY <1>2, <2>2
<1>4. ASSUME NEW u, Contains(list, u), u # Head(list) PROVE Contains(Tail(list), u)
  <2>1. PICK k \in 1..Len(list) : list[k] = u
    BY <1>4 DEF Contains
  <2>2. k # 1
    BY <1>1, <1>4, <2>1
  <2>3. k - 1 \in 1..(Len(list) - 1) /\ (k - 1) + 1 = k
    BY <1>1, <2>2
  <2>4. Tail(list)[k - 1] = u /\ k - 1 \in 1..Len(Tail(list))
    BY <1>1, <2>1, <2>3
  <2> QED
    BY <2>4 DEF Contains
<1> QED
  BY <1>1, <1>3, <1>4 DEF IsInjective

\* The Deployment's key is added.
LEMMA AddsDeployment ==
  ASSUME NEW t, NEW rest \in Seq(CalmFrames(t)), EnqueueDeployment(rest)
  PROVE  /\ queued' = TRUE /\ UNCHANGED store
         /\ stack' \in Seq(CalmFrames(t))
         /\ \A u : Awaits(u, rest) => Awaits(u, stack')
<1> DEFINE loop == DeploymentsLoop(MaxBatch)
<1>1. loop \in CalmFrames(t)
  BY BatchAssumption, CalmMembers
<1>2. /\ queued' = TRUE /\ UNCHANGED store
      /\ stack' = rest \/ stack' = <<loop>> \o rest
  BY DEF EnqueueDeployment, Return
<1> HIDE DEF loop
<1>3. <<loop>> \o rest \in Seq(CalmFrames(t))
  BY <1>1, Stacked
<1>4. \A u : Awaits(u, rest) => Awaits(u, <<loop>> \o rest)
  BY Stacked
<1> QED
  BY <1>2, <1>3, <1>4

\* A ReplicaSet's key is added.
LEMMA AddsSet ==
  ASSUME KeysType, NEW t \in Templates, NEW S, [op |-> "replicaSets"] \in S,
         NEW rest \in Seq(S), EnqueueReplicaSet(t, rest)
  PROVE  /\ UNCHANGED store /\ KeysType' /\ Contains(rsQueue', t)
         /\ \A u : Contains(rsQueue, u) => Contains(rsQueue', u)
         /\ stack' \in Seq(S)
         /\ Draining("replicaSets", rest) => stack' = rest
         /\ \A u : Awaits(u, rest) => Awaits(u, stack')
         /\ \A status : Computes(status, rest) => Computes(status, stack')
<1> DEFINE loop == [op |-> "replicaSets"]
<1>1. rsQueue' = IF Contains(rsQueue, t) THEN rsQueue ELSE Append(rsQueue, t)
  BY DEF EnqueueReplicaSet
<1>2. /\ KeysType' /\ Contains(rsQueue', t)
      /\ \A u : Contains(rsQueue, u) => Contains(rsQueue', u)
  BY <1>1, KeyAdded DEF KeysType
<1>3. /\ UNCHANGED store
      /\ stack' = rest \/ stack' = <<loop>> \o rest
      /\ Draining("replicaSets", rest) => stack' = rest
  BY DEF EnqueueReplicaSet, Return
<1> HIDE DEF loop
<1>4. <<loop>> \o rest \in Seq(S)
  BY Stacked DEF loop
<1>5. /\ \A u : Awaits(u, rest) => Awaits(u, <<loop>> \o rest)
      /\ \A status : Computes(status, rest) => Computes(status, <<loop>> \o rest)
  BY Stacked
<1>6. /\ stack' \in Seq(S)
      /\ \A u : Awaits(u, rest) => Awaits(u, stack')
      /\ \A status : Computes(status, rest) => Computes(status, stack')
  <2>1. CASE stack' = rest
    BY <2>1
  <2>2. CASE stack' = <<loop>> \o rest
    BY <1>4, <1>5, <2>2
  <2> QED
    BY <1>3, <2>1, <2>2
<1> QED
  BY <1>2, <1>3, <1>6

\* The Deployment is written.
LEMMA WritesDeployment ==
  ASSUME NEW t, NEW rest \in Seq(CalmFrames(t)), NEW new, deploy # None,
         UpdateDeployment(new, rest)
  PROVE  /\ deploy' = new /\ UNCHANGED <<replicaSets, pods>>
         /\ stack' \in Seq(CalmFrames(t))
         /\ \A status : Computes(status, stack')
         /\ \A u : Awaits(u, rest) => Awaits(u, stack')
<1> DEFINE event == Event("DeploymentUpdated", None)
           frame == Delivery(event, 1)
<1>1. /\ deploy' = new /\ UNCHANGED <<replicaSets, pods>>
      /\ stack' = <<frame>> \o rest
  BY DEF UpdateDeployment, Deliver
<1>2. event \in DeploymentEvents /\ event.type = "DeploymentUpdated"
  BY DEF Event, DeploymentEvents
<1>3. /\ frame \in CalmFrames(t) /\ frame.op = "deliver" /\ frame.to = 1
      /\ frame.event = event
  <2> HIDE DEF event
  <2> QED
    BY <1>2, CalmMembers DEF Delivery
<1>4. \A status : TellsDeployment(frame, status)
  BY <1>2, <1>3 DEF TellsDeployment
<1> HIDE DEF frame
<1> QED
  BY <1>1, <1>3, <1>4, Stacked

\* A ReplicaSet is written, or created.
LEMMA WritesSet ==
  ASSUME NEW t, NEW rest \in Seq(CalmFrames(t)), NEW u \in Templates, NEW new,
         \/ replicaSets[u] # None /\ UpdateReplicaSet(u, new, rest)
         \/ CreateReplicaSet(u, new, rest)
  PROVE  /\ replicaSets' = [replicaSets EXCEPT ![u] = new] /\ UNCHANGED <<deploy, pods>>
         /\ stack' \in Seq(CalmFrames(t))
         /\ Awaits(u, stack') /\ \A x : Awaits(x, rest) => Awaits(x, stack')
         /\ \A status : Computes(status, rest) => Computes(status, stack')
         /\ replicaSets[u] # None /\ UpdateReplicaSet(u, new, rest) =>
              \A status : Computes(status, stack')
<1>1. ASSUME NEW type \in {"ReplicaSetCreated", "ReplicaSetUpdated"},
             Deliver(Event(type, u), rest)
      PROVE  /\ stack' \in Seq(CalmFrames(t))
             /\ Awaits(u, stack') /\ \A x : Awaits(x, rest) => Awaits(x, stack')
             /\ \A status : Computes(status, rest) => Computes(status, stack')
             /\ type = "ReplicaSetUpdated" => \A status : Computes(status, stack')
  <2> DEFINE event == Event(type, u)
             frame == Delivery(event, 1)
  <2>1. event \in SetEvents /\ event.type = type /\ event.template = u
    BY DEF Event, SetEvents
  <2>2. /\ frame \in CalmFrames(t) /\ frame.op = "deliver" /\ frame.to = 1
        /\ frame.event = event
    <3> HIDE DEF event
    <3> QED
      BY <2>1, CalmMembers DEF Delivery
  <2>3. stack' = <<frame>> \o rest
    BY <1>1 DEF Deliver
  <2>4. /\ TellsSet(frame, u)
        /\ type = "ReplicaSetUpdated" => \A status : TellsDeployment(frame, status)
    BY <2>1, <2>2 DEF TellsSet, TellsDeployment
  <2> HIDE DEF frame
  <2> QED
    BY <2>2, <2>3, <2>4, Stacked
<1>2. CASE replicaSets[u] # None /\ UpdateReplicaSet(u, new, rest)
  <2>1. /\ replicaSets' = [replicaSets EXCEPT ![u] = new] /\ UNCHANGED <<deploy, pods>>
        /\ Deliver(Event("ReplicaSetUpdated", u), rest)
    BY <1>2 DEF UpdateReplicaSet
  <2> QED
    BY <1>1, <2>1
<1>3. CASE CreateReplicaSet(u, new, rest)
  <2>1. /\ replicaSets' = [replicaSets EXCEPT ![u] = new] /\ UNCHANGED <<deploy, pods>>
        /\ Deliver(Event("ReplicaSetCreated", u), rest)
    BY <1>3 DEF CreateReplicaSet
  <2>2. replicaSets[u] # None /\ UpdateReplicaSet(u, new, rest) =>
          Deliver(Event("ReplicaSetUpdated", u), rest)
    BY DEF UpdateReplicaSet
  <2> QED
    BY <1>1, <2>1, <2>2
<1> QED
  BY <1>2, <1>3

-------------------------------------------------------------------------------
(* While the Deployment exists: frames that write nothing *)

\* What the innermost frame tells, and what the others do
LEMMA LivingHead ==
  ASSUME Living, NEW S, NEW rest \in Seq(S), NEW frame, stack = <<frame>> \o rest
  PROVE  /\ \A t \in Owned(replicaSets) :
              \/ Settled(t) \/ Contains(rsQueue, t) \/ Awaits(t, rest)
              \/ TellsSet(frame, t)
              \/ /\ frame.op = "scale" /\ frame.template = t
                 /\ frame.status = SetStatus(pods[t])
         /\ \/ deploy.status = StatusOf(deploy, replicaSets)
            \/ queued
            \/ Computes(deploy.status, rest) \/ TellsDeployment(frame, deploy.status)
<1>1. /\ Head(stack) = frame
      /\ \A t : Awaits(t, stack) <=> TellsSet(frame, t) \/ Awaits(t, rest)
      /\ \A status : Computes(status, stack) <=>
                       TellsDeployment(frame, status) \/ Computes(status, rest)
  BY Stacked
<1>2. (\A t \in Owned(replicaSets) : SetTold(t)) /\ DeploymentTold
  BY DEF Living
<1> QED
  BY <1>1, <1>2 DEF SetTold, DeploymentTold, Counted

\* When nothing is written, nothing that was told may be forgotten.
LEMMA QuietKeeps ==
  ASSUME StoreType, Living, UNCHANGED store,
         NEW S, NEW rest \in Seq(S), NEW frame, stack = <<frame>> \o rest,
         frame.op # "scale",
         stack' \in Seq(CalmFrames(KindOf(deploy))),
         \A t \in Owned(replicaSets) :
           Contains(rsQueue, t) \/ Awaits(t, rest) \/ TellsSet(frame, t)
             => Contains(rsQueue', t) \/ Awaits(t, stack'),
         queued \/ Computes(deploy.status, rest) \/ TellsDeployment(frame, deploy.status)
           => \/ deploy.status = StatusOf(deploy, replicaSets)
              \/ queued' \/ Computes(deploy.status, stack')
  PROVE  StoreType' /\ Living'
<1>1. deploy' = deploy /\ replicaSets' = replicaSets /\ pods' = pods
  BY DEF store
<1>2. StoreType' /\ deploy' # None /\ \A t \in Templates : Unowned(t)'
  BY <1>1 DEF StoreType, Living, Unowned
<1>3. LivingStack'
  BY <1>1 DEF LivingStack
<1>4. ASSUME NEW t \in Owned(replicaSets') PROVE SetTold(t)'
  <2>1. t \in Owned(replicaSets) /\ (Settled(t) => Settled(t)')
    BY <1>1, <1>4 DEF Settled
  <2> QED
    BY <2>1, LivingHead DEF SetTold
<1>5. DeploymentTold'
  <2>1. \/ deploy.status = StatusOf(deploy, replicaSets)
        \/ queued' \/ Computes(deploy.status, stack')
    BY LivingHead
  <2> QED
    BY <1>1, <2>1 DEF DeploymentTold
<1> QED
  BY <1>2, <1>3, <1>4, <1>5 DEF Living

\* A delivery calls one controller, which adds a key.
LEMMA DeliverKinds ==
  ASSUME NEW frame \in DeliverFrames, NEW rest, DeliverStep(frame, rest)
  PROVE  \/ /\ frame.event.type = "DeploymentUpdated" /\ UNCHANGED rsQueue
            /\ EnqueueDeployment(rest)
         \/ /\ frame.event.type = "ReplicaSetUpdated" /\ UNCHANGED rsQueue
            /\ deploy # None => EnqueueDeployment(<<[frame EXCEPT !.to = 2]>> \o rest)
         \/ /\ frame.event \in SetEvents /\ UNCHANGED queued
            /\ frame.event.type = "ReplicaSetUpdated" => frame.to = 2
            /\ \/ EnqueueReplicaSet(frame.event.template, rest)
               \/ /\ replicaSets[frame.event.template] = None
                  /\ Return(rest) /\ UNCHANGED rsQueue
<1> DEFINE event == frame.event
           after == IF frame.to = Len(Subscribers(event.type)) THEN rest
                    ELSE <<[frame EXCEPT !.to = @ + 1]>> \o rest
<1>1. /\ event \in DeploymentEvents \cup SetEvents /\ frame.to \in {1, 2}
      /\ frame.to = 2 => event.type = "ReplicaSetUpdated"
      /\ frame = [op |-> "deliver", event |-> event, to |-> frame.to]
  BY DEF DeliverFrames
<1>2. \/ /\ Subscribers(event.type)[frame.to] = "Deployment"
         /\ HandleDeployment(event, after) /\ UNCHANGED rsQueue
      \/ /\ Subscribers(event.type)[frame.to] = "ReplicaSet"
         /\ HandleReplicaSet(event, after) /\ UNCHANGED queued
  BY DEF DeliverStep
<1>3. CASE event.type = "DeploymentUpdated"
  <2>1. Subscribers(event.type) = <<"Deployment">> /\ frame.to = 1
    BY <1>1, <1>3 DEF Subscribers
  <2>2. after = rest /\ Subscribers(event.type)[frame.to] # "ReplicaSet"
    BY <2>1
  <2> QED
    BY <1>2, <1>3, <2>2 DEF HandleDeployment
<1>4. CASE event.type = "ReplicaSetUpdated"
  <2>1. Subscribers(event.type) = <<"Deployment", "ReplicaSet">> /\ event \in SetEvents
    BY <1>1, <1>4 DEF Subscribers, DeploymentEvents
  <2>2. CASE frame.to = 1
    <3>1. /\ after = <<[frame EXCEPT !.to = 2]>> \o rest
          /\ Subscribers(event.type)[frame.to] = "Deployment"
      BY <1>1, <2>1, <2>2
    <3> QED
      BY <1>2, <1>4, <3>1 DEF HandleDeployment
  <2>3. CASE frame.to = 2
    <3>1. after = rest /\ Subscribers(event.type)[frame.to] = "ReplicaSet"
      BY <2>1, <2>3
    <3> QED
      BY <1>2, <1>4, <2>1, <2>3, <3>1 DEF HandleReplicaSet
  <2> QED
    BY <1>1, <2>2, <2>3
<1>5. CASE event.type \in {"ReplicaSetCreated", "Pod"}
  <2>1. /\ Subscribers(event.type) = <<"ReplicaSet">> /\ frame.to = 1
        /\ event \in SetEvents
    BY <1>1, <1>5 DEF Subscribers, DeploymentEvents
  <2>2. after = rest /\ Subscribers(event.type)[frame.to] = "ReplicaSet"
    BY <2>1
  <2> QED
    BY <1>2, <1>5, <2>1, <2>2 DEF HandleReplicaSet
<1> QED
  BY <1>1, <1>3, <1>4, <1>5 DEF DeploymentEvents, SetEvents

LEMMA DeliveryKeepsLiving ==
  ASSUME StoreType, KeysType, Living, NEW rest \in Seq(CalmFrames(KindOf(deploy))),
         NEW frame \in DeliverFrames, stack = <<frame>> \o rest,
         DeliverStep(frame, rest)
  PROVE  StoreType' /\ KeysType' /\ Living'
<1> DEFINE C == CalmFrames(KindOf(deploy))
<1>1. /\ frame.op = "deliver" /\ frame.event \in DeploymentEvents \cup SetEvents
      /\ frame.to \in {1, 2} /\ frame.to = 2 => frame.event.type = "ReplicaSetUpdated"
      /\ deploy # None
  BY DEF DeliverFrames, Living
<1>2. CASE /\ frame.event.type = "DeploymentUpdated" /\ UNCHANGED rsQueue
           /\ EnqueueDeployment(rest)
  <2>1. /\ queued' = TRUE /\ UNCHANGED store /\ stack' \in Seq(C)
        /\ \A u : Awaits(u, rest) => Awaits(u, stack')
    BY <1>2, AddsDeployment
  <2>2. \A t : ~TellsSet(frame, t)
    BY <1>2 DEF TellsSet, SetEvents
  <2> QED
    BY <1>1, <1>2, <2>1, <2>2, QuietKeeps DEF KeysType
<1>3. CASE /\ frame.event.type = "ReplicaSetUpdated" /\ UNCHANGED rsQueue
           /\ EnqueueDeployment(<<[frame EXCEPT !.to = 2]>> \o rest)
  <2> DEFINE next == [frame EXCEPT !.to = 2]
  <2>1. next \in DeliverFrames /\ \A t : TellsSet(frame, t) => TellsSet(next, t)
    BY <1>3 DEF DeliverFrames, TellsSet
  <2> HIDE DEF next
  <2>2. <<next>> \o rest \in Seq(C) /\ \A t : Awaits(t, rest) => Awaits(t, <<next>> \o rest)
    BY <2>1, CalmMembers, Stacked
  <2>3. /\ queued' = TRUE /\ UNCHANGED store /\ stack' \in Seq(C)
        /\ \A u : Awaits(u, <<next>> \o rest) => Awaits(u, stack')
    BY <1>3, <2>2, AddsDeployment DEF next
  <2>4. \A t : TellsSet(frame, t) => Awaits(t, <<next>> \o rest)
    BY <2>1, Stacked
  <2> QED
    BY <1>1, <1>3, <2>2, <2>3, <2>4, QuietKeeps DEF KeysType
<1>4. CASE /\ frame.event \in SetEvents /\ UNCHANGED queued
           /\ frame.event.type = "ReplicaSetUpdated" => frame.to = 2
           /\ \/ EnqueueReplicaSet(frame.event.template, rest)
              \/ /\ replicaSets[frame.event.template] = None
                 /\ Return(rest) /\ UNCHANGED rsQueue
  <2> DEFINE t == frame.event.template
  <2>1. t \in Templates /\ \A u : TellsSet(frame, u) => u = t
    BY <1>4 DEF SetEvents, TellsSet
  <2>2. \A status : ~TellsDeployment(frame, status)
    BY <1>1, <1>4 DEF TellsDeployment, SetEvents
  <2>3. CASE EnqueueReplicaSet(t, rest)
    <3>1. [op |-> "replicaSets"] \in C
      BY CalmMembers
    <3> HIDE DEF t, C
    <3>2. /\ UNCHANGED store /\ KeysType' /\ Contains(rsQueue', t) /\ stack' \in Seq(C)
          /\ \A u : Contains(rsQueue, u) => Contains(rsQueue', u)
          /\ \A u : Awaits(u, rest) => Awaits(u, stack')
          /\ \A status : Computes(status, rest) => Computes(status, stack')
      BY <2>1, <2>3, <3>1, AddsSet DEF C
    <3> QED
      BY <1>1, <1>4, <2>1, <2>2, <3>2, QuietKeeps DEF C
  <2>4. CASE replicaSets[t] = None /\ Return(rest) /\ UNCHANGED rsQueue
    <3>1. t \notin Owned(replicaSets) /\ UNCHANGED store /\ stack' = rest
      BY <2>4 DEF Owned, Return
    <3> HIDE DEF t
    <3> QED
      BY <1>1, <1>4, <2>1, <2>2, <2>4, <3>1, QuietKeeps DEF KeysType
  <2> QED
    BY <1>4, <2>3, <2>4
<1> QED
  BY <1>1, <1>2, <1>3, <1>4, DeliverKinds

\* A reconcile of the Deployment puts its plan on the stack.
LEMMA PlansDeployment ==
  ASSUME StoreType, deploy # None, NEW rest \in Seq(CalmFrames(KindOf(deploy))),
         Reconcile(rest)
  PROVE  /\ UNCHANGED store /\ LivingStack'
         /\ \A t : Awaits(t, rest) => Awaits(t, stack')
         /\ Computes(deploy.status, stack')
<1> DEFINE C == CalmFrames(KindOf(deploy))
           steps == Plan(deploy, replicaSets)
           frame == [op |-> "plan", steps |-> steps]
<1>1. UNCHANGED store /\ stack' = <<frame>> \o rest
  BY DEF Reconcile, Return
<1>2. deploy \in Deployments /\ steps \in PlansOf(deploy)
  BY PlanType DEF StoreType
<1>3. deploy \in DeploymentsOf(KindOf(deploy))
  BY <1>2 DEF DeploymentsOf
<1> HIDE DEF steps
<1>4. LivingStack'
  <2>1. CASE steps \in CalmPlans(deploy)
    <3>1. frame \in C
      BY <1>3, <2>1, CalmMembers
    <3> HIDE DEF frame
    <3>2. stack' \in Seq(C)
      BY <1>1, <3>1, Stacked
    <3> QED
      BY <1>1, <3>2 DEF LivingStack, store
  <2>2. CASE Head(steps).do = "create"
    <3>1. frame \in CreatingFrames(deploy)
      BY <1>2, <2>2 DEF CreatingFrames
    <3> HIDE DEF frame
    <3>2. deploy' = deploy
      BY <1>1 DEF store
    <3> QED
      BY <1>1, <3>1, <3>2 DEF LivingStack
  <2> QED
    BY <1>2, <2>1, <2>2, PlanKinds
<1>5. Last(steps).deploy.status = deploy.status
  <2>1. CASE steps \in CalmPlans(deploy)
    BY <2>1, CalmPlanSteps
  <2>2. CASE Len(steps) # 1 /\ Tail(steps) \in CalmPlans(deploy)
    <3>1. Last(Tail(steps)).deploy.status = deploy.status
      BY <2>2, CalmPlanSteps
    <3>2. steps \in Seq(CreateSteps \cup LaterSteps(deploy)) /\ steps # << >>
      BY <1>2 DEF PlansOf
    <3>3. Last(Tail(steps)) = Last(steps)
      BY <2>2, <3>2, TailIs
    <3> QED
      BY <3>1, <3>3
  <2> QED
    BY <1>2, <2>1, <2>2, PlanKinds
<1>6. TellsDeployment(frame, deploy.status)
  BY <1>5 DEF TellsDeployment
<1> HIDE DEF frame
<1> QED
  BY <1>1, <1>4, <1>6, Stacked

\* So it keeps what is told, though the key is taken.
LEMMA ReconcileKeepsLiving ==
  ASSUME StoreType, Living, NEW rest \in Seq(CalmFrames(KindOf(deploy))),
         Reconcile(rest), UNCHANGED rsQueue,
         \A t \in Owned(replicaSets) : ~Counted(t),
         \A t \in Owned(replicaSets) : Awaits(t, stack) => Awaits(t, rest)
  PROVE  StoreType' /\ Living'
<1>1. /\ deploy # None /\ UNCHANGED store /\ LivingStack'
      /\ \A t : Awaits(t, rest) => Awaits(t, stack')
      /\ Computes(deploy.status, stack')
  BY PlansDeployment DEF Living
<1>2. deploy' = deploy /\ replicaSets' = replicaSets /\ pods' = pods
  BY <1>1 DEF store
<1>3. StoreType' /\ \A t \in Templates : Unowned(t)'
  BY <1>2 DEF StoreType, Living, Unowned
<1>4. ASSUME NEW t \in Owned(replicaSets') PROVE SetTold(t)'
  <2>1. t \in Owned(replicaSets) /\ SetTold(t) /\ (Settled(t) => Settled(t)')
    BY <1>2, <1>4 DEF Settled, Living
  <2> QED
    BY <1>1, <2>1 DEF SetTold
<1>5. DeploymentTold'
  BY <1>1, <1>2 DEF DeploymentTold
<1> QED
  BY <1>1, <1>2, <1>3, <1>4, <1>5 DEF Living

\* A turn of the Deployment's loop, or its end
LEMMA DrainKeepsLiving ==
  ASSUME StoreType, KeysType, Living, NEW rest \in Seq(CalmFrames(KindOf(deploy))),
         NEW frame, frame.op = "deployments", frame.left \in Nat,
         stack = <<frame>> \o rest, DrainDeployments(frame, rest), UNCHANGED rsQueue
  PROVE  StoreType' /\ KeysType' /\ Living'
<1> DEFINE C == CalmFrames(KindOf(deploy))
<1>1. /\ \A t : ~TellsSet(frame, t) /\ (Awaits(t, stack) <=> Awaits(t, rest))
      /\ \A status : ~TellsDeployment(frame, status)
      /\ \A t : ~Counted(t)
  <2>1. \A t : ~TellsSet(frame, t)
    BY DEF TellsSet
  <2>2. \A status : ~TellsDeployment(frame, status)
    BY DEF TellsDeployment
  <2>3. Head(stack).op = "deployments"
    BY Stacked
  <2>4. \A t : Awaits(t, stack) <=> TellsSet(frame, t) \/ Awaits(t, rest)
    BY Stacked
  <2> QED
    BY <2>1, <2>2, <2>3, <2>4 DEF Counted
<1>2. CASE queued /\ frame.left > 0
  <2> DEFINE loop == DeploymentsLoop(frame.left - 1)
  <2>1. loop \in C
    <3>1. frame.left - 1 \in Nat
      BY <1>2
    <3> QED
      BY <3>1, CalmMembers
  <2>2. Reconcile(<<loop>> \o rest)
    BY <1>2 DEF DrainDeployments
  <2> HIDE DEF loop, C
  <2>3. <<loop>> \o rest \in Seq(C) /\ \A t : Awaits(t, rest) => Awaits(t, <<loop>> \o rest)
    BY <2>1, Stacked DEF C
  <2> QED
    BY <1>1, <2>2, <2>3, ReconcileKeepsLiving DEF C, KeysType
<1>3. CASE ~(queued /\ frame.left > 0)
  <2>1. UNCHANGED store /\ stack' = rest /\ UNCHANGED queued
    BY <1>3 DEF DrainDeployments, Return
  <2> QED
    BY <1>1, <2>1, QuietKeeps DEF KeysType
<1> QED
  BY <1>2, <1>3

\* The end of processNext
LEMMA NextKeepsLiving ==
  ASSUME StoreType, KeysType, Living, NEW rest \in Seq(CalmFrames(KindOf(deploy))),
         NEW frame, frame.op = "next", stack = <<frame>> \o rest, AfterNext(rest),
         UNCHANGED rsQueue
  PROVE  StoreType' /\ KeysType' /\ Living'
<1>1. /\ \A t : ~TellsSet(frame, t)
      /\ \A status : ~TellsDeployment(frame, status)
  BY DEF TellsSet, TellsDeployment
<1>2. CASE queued
  <2>1. /\ queued' = TRUE /\ UNCHANGED store
        /\ stack' \in Seq(CalmFrames(KindOf(deploy)))
        /\ \A u : Awaits(u, rest) => Awaits(u, stack')
    BY <1>2, AddsDeployment DEF AfterNext
  <2> QED
    BY <1>1, <2>1, QuietKeeps DEF KeysType
<1>3. CASE ~queued
  <2>1. UNCHANGED store /\ stack' = rest /\ UNCHANGED queued
    BY <1>3 DEF AfterNext, Return
  <2> QED
    BY <1>1, <2>1, QuietKeeps DEF KeysType
<1> QED
  BY <1>2, <1>3

\* The status of a ReplicaSet counts its pods.
LEMMA StatusType ==
  ASSUME NEW list \in Seq(BOOLEAN)
  PROVE  SetStatus(list) \in [replicas : Nat, available : Nat]
<1> DEFINE ready == {i \in DOMAIN list : list[i]}
<1>1. Len(list) \in Nat /\ DOMAIN list = 1..Len(list)
  OBVIOUS
<1>2. 1 \in Int /\ Len(list) \in Int
  BY <1>1
<1>3. IsFiniteSet(1..Len(list))
  BY <1>2, FS_Interval
<1>4. ready \subseteq 1..Len(list)
  BY <1>1
<1>5. IsFiniteSet(ready)
  BY <1>3, <1>4, FS_Subset
<1>6. Cardinality(ready) \in Nat
  BY <1>5, FS_CardinalityType
<1> QED
  BY <1>1, <1>6 DEF SetStatus, ReadyOf

\* A reconcile of a ReplicaSet counts the pods that are there.
LEMMA ReadsSet ==
  ASSUME StoreType, NEW t \in Templates, replicaSets[t] # None, NEW rest,
         ReconcileSet(t, rest)
  PROVE  /\ UNCHANGED store
         /\ \E frame \in ScaleFrames :
              /\ stack' = <<frame>> \o rest
              /\ frame.op = "scale" /\ frame.template = t
              /\ frame.status = SetStatus(pods[t]) /\ Scaling(frame)
<1> DEFINE rs == replicaSets[t]
           active == Len(pods[t])
           more == Less(rs.spec, active)
           less == Less(active, rs.spec)
           frame == [op |-> "scale", template |-> t, rs |-> rs,
                     create |-> more, delete |-> less, status |-> SetStatus(pods[t])]
<1>1. UNCHANGED store /\ stack' = <<frame>> \o rest
  BY DEF ReconcileSet, Return
<1>2. rs \in ReplicaSets /\ rs.spec \in Nat /\ pods[t] \in Seq(BOOLEAN) /\ active \in Nat
  BY DEF StoreType, ReadSets, ReplicaSets
<1>3. /\ more \in Nat /\ less \in Nat /\ active + more = rs.spec + less
      /\ more = 0 \/ less = 0
  <2> DEFINE n == rs.spec
  <2> HIDE DEF rs, active, n
  <2>1. /\ Less(n, active) \in Nat /\ Less(active, n) \in Nat
        /\ active + Less(n, active) = n + Less(active, n)
        /\ Less(n, active) = 0 \/ Less(active, n) = 0
    BY <1>2 DEF Less, n
  <2> QED
    BY <2>1 DEF n
<1>4. SetStatus(pods[t]) \in [replicas : Nat, available : Nat]
  BY <1>2, StatusType
<1> HIDE DEF more, less
<1>5. Scaling(frame)
  BY <1>3 DEF Scaling
<1>6. frame \in ScaleFrames
  <2> HIDE DEF rs, active
  <2> QED
    BY <1>2, <1>3, <1>4 DEF ScaleFrames
<1> QED
  BY <1>1, <1>5, <1>6

\* A turn of the ReplicaSets' loop, or its end
LEMMA SetsLoopKeepsLiving ==
  ASSUME StoreType, KeysType, Living, NEW rest \in Seq(CalmFrames(KindOf(deploy))),
         stack = <<[op |-> "replicaSets"]>> \o rest, DrainReplicaSets(rest),
         UNCHANGED queued
  PROVE  StoreType' /\ KeysType' /\ Living'
<1> DEFINE C == CalmFrames(KindOf(deploy))
           loop == [op |-> "replicaSets"]
<1>1. /\ \A t : ~TellsSet(loop, t)
      /\ \A status : ~TellsDeployment(loop, status)
      /\ loop.op = "replicaSets" /\ loop \in C
  BY CalmMembers DEF TellsSet, TellsDeployment
<1> HIDE DEF loop
<1>2. /\ stack \in Seq(C) /\ Draining("replicaSets", stack)
      /\ \A t : Awaits(t, stack) <=> Awaits(t, rest)
      /\ \A status : Computes(status, stack) <=> Computes(status, rest)
  BY <1>1, Stacked DEF loop
<1>3. CASE rsQueue = << >>
  <2>1. UNCHANGED store /\ stack' = rest /\ UNCHANGED rsQueue
    BY <1>3 DEF DrainReplicaSets, Return
  <2> QED
    BY <1>1, <2>1, QuietKeeps DEF KeysType, loop
<1>4. CASE rsQueue # << >>
  <2>1. /\ rsQueue' = Tail(rsQueue) /\ ReconcileSet(Head(rsQueue), stack)
    BY <1>4 DEF DrainReplicaSets, loop
  <2>2. PICK t \in Templates :
          /\ ReconcileSet(t, stack) /\ KeysType'
          /\ \A u : Contains(rsQueue, u) => u = t \/ Contains(rsQueue', u)
    BY <1>4, <2>1, KeyTaken DEF KeysType
  <2>3. CASE replicaSets[t] = None
    <3>1. UNCHANGED store /\ stack' = stack /\ t \notin Owned(replicaSets)
      BY <2>2, <2>3 DEF ReconcileSet, Return, Owned
    <3> QED
      BY <1>1, <1>2, <2>2, <3>1, QuietKeeps DEF loop
  <2>4. CASE replicaSets[t] # None
    <3>1. /\ UNCHANGED store
          /\ \E frame \in ScaleFrames :
               /\ stack' = <<frame>> \o stack
               /\ frame.op = "scale" /\ frame.template = t
               /\ frame.status = SetStatus(pods[t]) /\ Scaling(frame)
      BY <2>2, <2>4, ReadsSet
    <3>2. PICK frame \in ScaleFrames :
               /\ stack' = <<frame>> \o stack
               /\ frame.op = "scale" /\ frame.template = t
               /\ frame.status = SetStatus(pods[t]) /\ Scaling(frame)
      BY <3>1
    <3>3. deploy' = deploy /\ replicaSets' = replicaSets /\ pods' = pods
      BY <3>1 DEF store
    <3>6. Scaling(frame)'
      BY <3>2, <3>3 DEF Scaling
    <3>7. LivingStack'
      BY <1>2, <3>2, <3>3, <3>6 DEF LivingStack
    <3>8. /\ StoreType' /\ deploy' # None /\ \A u \in Templates : Unowned(u)'
      BY <3>3 DEF StoreType, Living, Unowned
    <3>9. /\ stack' # << >> /\ Head(stack') = frame
          /\ \A u : Awaits(u, stack) => Awaits(u, stack')
          /\ \A status : Computes(status, stack) => Computes(status, stack')
      BY <1>2, <3>2, Stacked
    <3>10. Counted(t)'
      BY <3>2, <3>3, <3>9 DEF Counted
    <3>11. ASSUME NEW u \in Owned(replicaSets') PROVE SetTold(u)'
      <4>1. CASE u = t
        BY <3>10, <4>1 DEF SetTold
      <4>2. CASE u # t
        <5>1. Settled(u) \/ Contains(rsQueue, u) \/ Awaits(u, rest)
          BY <1>1, <3>3, <3>11, LivingHead DEF loop
        <5>2. Settled(u) => Settled(u)'
          BY <3>3 DEF Settled
        <5> QED
          BY <1>2, <2>2, <3>9, <4>2, <5>1, <5>2 DEF SetTold
      <4> QED
        BY <4>1, <4>2
    <3>12. DeploymentTold'
      BY <3>3, <3>9 DEF DeploymentTold, Living
    <3> QED
      BY <2>2, <3>7, <3>8, <3>11, <3>12 DEF Living
  <2> QED
    BY <2>3, <2>4
<1> QED
  BY <1>3, <1>4

-------------------------------------------------------------------------------
(* While the Deployment exists: frames that write *)

\* A ReplicaSet has been written and its event is being delivered.
LEMMA SetWritten ==
  ASSUME StoreType, KeysType, Living, UNCHANGED rsQueue,
         NEW u \in Templates, NEW new \in ReplicaSets,
         replicaSets' = [replicaSets EXCEPT ![u] = new], UNCHANGED <<deploy, pods>>,
         stack' \in Seq(CalmFrames(KindOf(deploy))),
         Awaits(u, stack'), Computes(deploy.status, stack'),
         \A x \in Templates \ {u} : Awaits(x, stack) \/ Counted(x) => Awaits(x, stack')
  PROVE  StoreType' /\ KeysType' /\ Living'
<1>1. /\ StoreType' /\ KeysType' /\ deploy' = deploy /\ pods' = pods
      /\ replicaSets'[u] = new /\ new # None
      /\ \A x \in Templates \ {u} : replicaSets'[x] = replicaSets[x]
  BY NoneAssumption DEF StoreType, KeysType, ReadSets
<1>2. \A x \in Templates : Unowned(x)'
  BY <1>1 DEF Unowned, Living
<1>3. LivingStack'
  BY <1>1 DEF LivingStack
<1>4. ASSUME NEW x \in Owned(replicaSets') PROVE SetTold(x)'
  <2>1. CASE x = u
    BY <2>1 DEF SetTold
  <2>2. CASE x # u
    <3>1. x \in Templates /\ x \in Owned(replicaSets)
      BY <1>1, <1>4, <2>2 DEF Owned
    <3>2. Settled(x) => Settled(x)'
      BY <1>1, <2>2, <3>1 DEF Settled
    <3> QED
      BY <2>2, <3>1, <3>2 DEF SetTold, Living
  <2> QED
    BY <2>1, <2>2
<1>5. DeploymentTold'
  BY <1>1 DEF DeploymentTold
<1> QED
  BY <1>1, <1>2, <1>3, <1>4, <1>5 DEF Living

\* The Deployment has been written and its event is being delivered.
LEMMA DeploymentWritten ==
  ASSUME StoreType, KeysType, Living, UNCHANGED rsQueue,
         NEW new \in Deployments, deploy' = new, UNCHANGED <<replicaSets, pods>>,
         stack' \in Seq(CalmFrames(KindOf(new))), Computes(new.status, stack'),
         \A x \in Templates : Awaits(x, stack) \/ Counted(x) => Awaits(x, stack')
  PROVE  StoreType' /\ KeysType' /\ Living'
<1>1. /\ StoreType' /\ KeysType' /\ deploy' # None
      /\ replicaSets' = replicaSets /\ pods' = pods
  BY NoneAssumption DEF StoreType, KeysType
<1>2. \A x \in Templates : Unowned(x)'
  BY <1>1 DEF Unowned, Living
<1>3. LivingStack'
  BY DEF LivingStack
<1>4. ASSUME NEW x \in Owned(replicaSets') PROVE SetTold(x)'
  <2>1. x \in Templates /\ x \in Owned(replicaSets) /\ (Settled(x) => Settled(x)')
    BY <1>1, <1>4 DEF Owned, Settled
  <2> QED
    BY <2>1 DEF SetTold, Living
<1>5. DeploymentTold'
  BY DEF DeploymentTold
<1> QED
  BY <1>1, <1>2, <1>3, <1>4, <1>5 DEF Living

\* The status that is computed
LEMMA StatusOfType ==
  ASSUME StoreType, NEW d \in Deployments
  PROVE  /\ StatusOf(d, replicaSets) \in Statuses
         /\ \A e : e.template = d.template =>
              StatusOf(e, replicaSets) = StatusOf(d, replicaSets)
<1>1. /\ replicaSets \in ReadSets /\ d.template \in Templates
      /\ Owned(replicaSets) \in SUBSET Owned(replicaSets)
  BY DEF StoreType, Deployments
<1>2. /\ TotalAvailable(replicaSets, Owned(replicaSets)) \in Nat
      /\ Total([t \in Owned(replicaSets) |-> replicaSets[t].replicas]) \in Nat
  BY <1>1, SumTypes
<1>3. replicaSets[d.template] # None => replicaSets[d.template].replicas \in Nat
  BY <1>1 DEF ReadSets, ReplicaSets
<1>4. StatusOf(d, replicaSets) \in Statuses
  BY <1>2, <1>3 DEF StatusOf, Statuses
<1> QED
  BY <1>4 DEF StatusOf

\* A step of a plan that creates nothing
LEMMA PlanKeepsLiving ==
  ASSUME StoreType, KeysType, Living, NEW rest \in Seq(CalmFrames(KindOf(deploy))),
         NEW d \in DeploymentsOf(KindOf(deploy)), NEW steps \in CalmPlans(d), NEW frame,
         frame = [op |-> "plan", steps |-> steps], stack = <<frame>> \o rest,
         PlanStep(frame, rest), UNCHANGED rsQueue
  PROVE  StoreType' /\ KeysType' /\ Living'
<1> DEFINE C == CalmFrames(KindOf(deploy))
           GoesOn(after) ==
             /\ after \in Seq(C) /\ \A x : Awaits(x, rest) => Awaits(x, after)
             /\ \A status : Computes(status, rest) \/ TellsDeployment(frame, status)
                              => Computes(status, after)
<1>1. PICK step \in LaterSteps(d) : step = Head(steps) /\ step = steps[1]
  BY CalmPlanSteps
<1>2. PICK after :
        after = IF Len(frame.steps) = 1 THEN rest
                ELSE <<[frame EXCEPT !.steps = Tail(@)]>> \o rest
  OBVIOUS
<1>11. ASSUME NEW next \in CalmPlans(d), NEW goes,
              goes = <<[op |-> "plan", steps |-> next]>> \o rest
       PROVE  GoesOn(goes)
  <2> DEFINE top == [op |-> "plan", steps |-> next]
  <2>1. top \in C
    BY CalmMembers
  <2>2. Last(next).deploy.status = d.status /\ Last(steps).deploy.status = d.status
    BY CalmPlanSteps
  <2>3. \A status : TellsDeployment(frame, status) => TellsDeployment(top, status)
    BY <2>2 DEF TellsDeployment
  <2>4. goes = <<top>> \o rest
    BY <1>11
  <2> HIDE DEF top, C
  <2>5. /\ goes \in Seq(C) /\ \A x : Awaits(x, rest) => Awaits(x, goes)
        /\ \A status : TellsDeployment(top, status) \/ Computes(status, rest)
                         => Computes(status, goes)
    BY <2>1, <2>4, Stacked DEF C
  <2> QED
    BY <2>3, <2>5
<1>12. /\ frame.steps = steps
       /\ \A next : [frame EXCEPT !.steps = next] = [op |-> "plan", steps |-> next]
  OBVIOUS
<1>3. /\ after \in Seq(C) /\ \A x : Awaits(x, rest) => Awaits(x, after)
      /\ Len(steps) # 1 => GoesOn(after)
  <2>1. CASE Len(steps) = 1
    BY <1>2, <2>1
  <2>2. CASE Len(steps) # 1
    <3>1. Tail(steps) \in CalmPlans(d)
      BY <2>2, CalmPlanSteps
    <3>2. after = <<[frame EXCEPT !.steps = Tail(frame.steps)]>> \o rest
      BY <1>2, <1>12, <2>2
    <3>3. [frame EXCEPT !.steps = Tail(frame.steps)] = [op |-> "plan", steps |-> Tail(steps)]
      BY <1>12
    <3>4. GoesOn(after)
      BY <1>11, <3>1, <3>2, <3>3
    <3> QED
      BY <3>4
  <2> QED
    BY <2>1, <2>2
<1>4. /\ \A x : ~TellsSet(frame, x) /\ ~Counted(x)
      /\ \A x : Awaits(x, stack) => Awaits(x, rest)
      /\ frame.op = "plan" /\ deploy # None
  <2>1. \A x : ~TellsSet(frame, x)
    BY DEF TellsSet
  <2>2. Head(stack) = frame /\ \A x : Awaits(x, stack) <=> TellsSet(frame, x) \/ Awaits(x, rest)
    BY Stacked
  <2> QED
    BY <2>1, <2>2 DEF Counted, Living
<1>5. d \in Deployments /\ d.template = deploy.template /\ KindOf(d) = KindOf(deploy)
  BY DEF DeploymentsOf, KindOf
<1>6. CASE step.do = "sets"
  <2> DEFINE without(write) ==
               IF step.writes = {write} THEN after
               ELSE <<[frame EXCEPT !.steps[1].writes = @ \ {write}]>> \o rest
  <2>1. PICK write \in step.writes :
           UpdateReplicaSet(write.template, write.rs, without(write)) /\ UNCHANGED queued
    BY <1>1, <1>2, <1>6 DEF PlanStep
  <2>2. step \in SetsSteps /\ Len(steps) # 1
    BY <1>1, <1>6, LaterTypes, CalmPlanSteps
  <2>3. write.template \in Templates /\ write.rs \in ReplicaSets
    BY <2>2 DEF SetsSteps
  <2>4. PICK left : left = without(write) /\ GoesOn(left)
    <3> DEFINE fewer == [step EXCEPT !.writes = @ \ {write}]
               next == [steps EXCEPT ![1] = fewer]
    <3>1. fewer \in LaterSteps(d)
      BY <2>2 DEF SetsSteps, LaterSteps
    <3>2. next \in CalmPlans(d)
      BY <2>2, <3>1, CalmPlanSteps
    <3>3. [frame EXCEPT !.steps[1].writes = @ \ {write}] = [op |-> "plan", steps |-> next]
      <4>1. [frame EXCEPT !.steps[1].writes = @ \ {write}] =
              [frame EXCEPT !.steps =
                 [frame.steps EXCEPT ![1] =
                    [frame.steps[1] EXCEPT !.writes = frame.steps[1].writes \ {write}]]]
        <5> HIDE DEF GoesOn, C
        <5> QED
          OBVIOUS
      <4>2. frame.steps[1] = step
        BY <1>1, <1>12
      <4>3. [frame.steps EXCEPT ![1] =
               [frame.steps[1] EXCEPT !.writes = frame.steps[1].writes \ {write}]] = next
        BY <1>12, <4>2
      <4> QED
        BY <1>12, <4>1, <4>3
    <3> HIDE DEF next
    <3>4. PICK goes : goes = <<[op |-> "plan", steps |-> next]>> \o rest
      OBVIOUS
    <3>5. GoesOn(goes)
      BY <1>11, <3>2, <3>4
    <3> QED
      BY <1>3, <2>2, <3>3, <3>4, <3>5
  <2> HIDE DEF without
  <2>5. CASE replicaSets[write.template] = None
    <3>1. UNCHANGED store /\ stack' = left
      BY <2>1, <2>4, <2>5 DEF UpdateReplicaSet, Return
    <3> QED
      BY <1>4, <2>1, <2>4, <3>1, QuietKeeps DEF KeysType
  <2>6. CASE replicaSets[write.template] # None
    <3>1. /\ replicaSets' = [replicaSets EXCEPT ![write.template] = write.rs]
          /\ UNCHANGED <<deploy, pods>> /\ stack' \in Seq(C)
          /\ Awaits(write.template, stack') /\ Computes(deploy.status, stack')
          /\ \A x : Awaits(x, left) => Awaits(x, stack')
      BY <2>1, <2>3, <2>4, <2>6, WritesSet
    <3> QED
      BY <1>4, <2>3, <2>4, <3>1, SetWritten
  <2> QED
    BY <2>5, <2>6
<1>7. CASE step.do = "deployment"
  <2>1. UpdateDeployment(step.deploy, after)
    BY <1>1, <1>2, <1>7 DEF PlanStep
  <2>2. step.deploy \in Deployments /\ KindOf(step.deploy) = KindOf(deploy)
    BY <1>5, <1>7, LaterTypes
  <2> QED
    BY <1>3, <1>4, <2>1, <2>2, WritesDeployment, DeploymentWritten
<1>8. CASE step.do = "enqueue"
  <2>1. EnqueueDeployment(after)
    BY <1>1, <1>2, <1>8 DEF PlanStep
  <2>2. /\ queued' = TRUE /\ UNCHANGED store /\ stack' \in Seq(C)
        /\ \A u : Awaits(u, after) => Awaits(u, stack')
    BY <1>3, <2>1, AddsDeployment
  <2> QED
    BY <1>3, <1>4, <2>2, QuietKeeps DEF KeysType
<1>9. CASE step.do = "status"
  <2> DEFINE status == StatusOf(step.deploy, replicaSets)
             new == [step.deploy EXCEPT !.status = status]
  <2>1. /\ step.deploy \in Deployments /\ step.deploy.template = deploy.template
        /\ step.deploy.status = d.status /\ KindOf(step.deploy) = KindOf(deploy)
    BY <1>5, <1>9, LaterTypes
  <2>2. status \in Statuses /\ StatusOf(deploy, replicaSets) = status
    BY <2>1, StatusOfType
  <2>3. /\ UNCHANGED queued
        /\ IF step.deploy.status = status THEN Return(after)
           ELSE UpdateDeployment(new, after)
    BY <1>1, <1>2, <1>9 DEF PlanStep
  <2> HIDE DEF status
  <2>4. CASE step.deploy.status = status
    <3>1. UNCHANGED store /\ stack' = after
      BY <2>3, <2>4 DEF Return
    <3>2. ASSUME TellsDeployment(frame, deploy.status)
          PROVE  deploy.status = StatusOf(deploy, replicaSets)
      <4>1. Last(steps).deploy.status = deploy.status
        BY <3>2 DEF TellsDeployment
      <4>2. Last(steps).deploy.status = d.status
        BY CalmPlanSteps
      <4> QED
        BY <2>1, <2>2, <2>4, <4>1, <4>2
    <3>3. Computes(deploy.status, rest) => Computes(deploy.status, after)
      <4>1. CASE Len(steps) = 1
        BY <1>2, <4>1
      <4> QED
        BY <1>3, <4>1
    <3> QED
      BY <1>3, <1>4, <2>3, <3>1, <3>2, <3>3, QuietKeeps DEF KeysType
  <2>5. CASE step.deploy.status # status
    <3>1. new \in Deployments /\ KindOf(new) = KindOf(deploy)
      BY <2>1, <2>2 DEF Deployments, KindOf
    <3>2. UpdateDeployment(new, after)
      BY <2>3, <2>5
    <3> HIDE DEF new
    <3> QED
      BY <1>3, <1>4, <3>1, <3>2, WritesDeployment, DeploymentWritten
  <2> QED
    BY <2>4, <2>5
<1>10. step.do \in {"sets", "deployment", "status", "enqueue"}
  BY LaterTypes
<1> QED
  BY <1>6, <1>7, <1>8, <1>9, <1>10

\* A plan that begins with a ReplicaSet creates it first of all.
LEMMA CreateKeepsLiving ==
  ASSUME StoreType, KeysType, Living, NEW rest \in Seq(CalmFrames(KindOf(deploy))),
         NEW frame \in CreatingFrames(deploy), stack = <<frame>> \o rest,
         PlanStep(frame, rest), UNCHANGED rsQueue
  PROVE  StoreType' /\ KeysType' /\ Living'
<1> DEFINE C == CalmFrames(KindOf(deploy))
<1>1. PICK steps \in PlansOf(deploy) :
        Head(steps).do = "create" /\ frame = [op |-> "plan", steps |-> steps]
  BY DEF CreatingFrames
<1>2. PICK step : step = Head(steps) /\ step.do = "create"
  BY <1>1
<1>3. Len(steps) # 1 /\ step \in CreateSteps /\ Tail(steps) \in CalmPlans(deploy)
  <2>1. steps \notin CalmPlans(deploy)
    <3>1. ASSUME steps \in CalmPlans(deploy) PROVE FALSE
      <4>1. Head(steps) \in LaterSteps(deploy)
        BY <3>1, CalmPlanSteps
      <4> QED
        BY <1>2, <4>1, LaterTypes
    <3> QED
      BY <3>1
  <2> QED
    BY <1>2, <2>1, PlanKinds
<1>4. deploy # None /\ deploy \in DeploymentsOf(KindOf(deploy))
  BY DEF Living, StoreType, DeploymentsOf
<1> DEFINE top == [op |-> "plan", steps |-> Tail(steps)]
<1>5. PICK after : after = <<top>> \o rest
  OBVIOUS
<1>6. step.template \in Templates /\ step.rs \in ReplicaSets
  BY <1>3 DEF CreateSteps
<1>7. CreateReplicaSet(step.template, step.rs, after)
  <2>1. frame.steps = steps /\ [frame EXCEPT !.steps = Tail(@)] = top
    <3>1. /\ frame.steps = steps
          /\ \A x : [frame EXCEPT !.steps = x] = [op |-> "plan", steps |-> x]
      BY <1>1
    <3> QED
      BY <3>1
  <2>2. after = IF Len(frame.steps) = 1 THEN rest
                ELSE <<[frame EXCEPT !.steps = Tail(@)]>> \o rest
    BY <1>3, <1>5, <2>1
  <2> QED
    BY <1>2, <2>1, <2>2 DEF PlanStep
<1>8. /\ after \in Seq(C) /\ Computes(deploy.status, after)
      /\ \A x : Awaits(x, rest) => Awaits(x, after)
  <2>1. top \in C
    BY <1>3, <1>4, CalmMembers
  <2>2. TellsDeployment(top, deploy.status)
    <3>1. Last(Tail(steps)).deploy.status = deploy.status
      BY <1>3, CalmPlanSteps
    <3> QED
      BY <3>1 DEF TellsDeployment
  <2> HIDE DEF top, C
  <2> QED
    BY <1>5, <2>1, <2>2, Stacked DEF C
<1> HIDE DEF top
<1>9. /\ replicaSets' = [replicaSets EXCEPT ![step.template] = step.rs]
      /\ UNCHANGED <<deploy, pods>> /\ stack' \in Seq(C)
      /\ Awaits(step.template, stack') /\ Computes(deploy.status, stack')
      /\ \A x : Awaits(x, rest) => Awaits(x, stack')
  BY <1>6, <1>7, <1>8, WritesSet
<1>10. \A x : ~Counted(x) /\ (Awaits(x, stack) => Awaits(x, rest))
  <2>1. frame.op = "plan"
    BY <1>1
  <2>2. Head(stack) = frame /\ \A x : Awaits(x, stack) <=> TellsSet(frame, x) \/ Awaits(x, rest)
    BY Stacked
  <2> QED
    BY <2>1, <2>2 DEF Counted, TellsSet
<1> QED
  BY <1>6, <1>9, <1>10, SetWritten

\* A pod that comes is not ready yet, and one that goes leaves no more behind.
LEMMA ReadyCounts ==
  ASSUME NEW list \in Seq(BOOLEAN)
  PROVE  /\ ReadyOf(list) \in Nat /\ ReadyOf(list) <= Len(list)
         /\ ReadyOf(Append(list, FALSE)) <= ReadyOf(list)
         /\ list # << >> => ReadyOf(Tail(list)) <= ReadyOf(list)
<1> DEFINE ready(l) == {i \in DOMAIN l : l[i]}
<1>1. Len(list) \in Nat /\ DOMAIN list = 1..Len(list)
  OBVIOUS
<1>2. 1 \in Int /\ Len(list) \in Int
  BY <1>1
<1>3. IsFiniteSet(1..Len(list)) /\ Cardinality(1..Len(list)) = Len(list)
  BY <1>1, <1>2, FS_Interval
<1>4. ready(list) \in SUBSET (1..Len(list))
  BY <1>1
<1>5. IsFiniteSet(ready(list)) /\ Cardinality(ready(list)) <= Len(list)
  BY <1>3, <1>4, FS_Subset
<1>6. ReadyOf(list) \in Nat /\ ReadyOf(list) <= Len(list)
  BY <1>5, FS_CardinalityType DEF ReadyOf
<1>7. ReadyOf(Append(list, FALSE)) <= ReadyOf(list)
  <2> DEFINE more == Append(list, FALSE)
  <2>1. /\ DOMAIN more = 1..(Len(list) + 1) /\ more[Len(list) + 1] = FALSE
        /\ \A i \in 1..Len(list) : more[i] = list[i]
    BY <1>1
  <2> HIDE DEF more
  <2>2. ready(more) \in SUBSET ready(list)
    BY <1>1, <2>1
  <2>3. Cardinality(ready(more)) <= Cardinality(ready(list))
    BY <1>5, <2>2, FS_Subset
  <2> QED
    BY <2>3 DEF ReadyOf, more
<1>8. ASSUME list # << >> PROVE ReadyOf(Tail(list)) <= ReadyOf(list)
  <2> DEFINE fewer == Tail(list)
             move == [i \in ready(fewer) |-> i + 1]
  <2>1. /\ DOMAIN fewer = 1..(Len(list) - 1) /\ Len(list) \in Nat \ {0}
        /\ \A i \in 1..(Len(list) - 1) : fewer[i] = list[i + 1]
    BY <1>8, TailIs
  <2> HIDE DEF fewer
  <2>2. \A i \in ready(fewer) : i \in Nat /\ i + 1 \in ready(list)
    BY <1>1, <2>1
  <2>3. move \in Injection(ready(fewer), ready(list))
    BY <2>2 DEF Injection, IsInjective
  <2> HIDE DEF move
  <2>4. Cardinality(ready(fewer)) <= Cardinality(ready(list))
    BY <1>5, <2>3, FS_Injection
  <2> QED
    BY <2>4 DEF ReadyOf, fewer
<1> QED
  BY <1>6, <1>7, <1>8

\* A step of a reconcile of a ReplicaSet: a pod comes or goes, or the status is
\* written into the ReplicaSet that was read, which is still the one there is.
LEMMA ScaleStepIs ==
  ASSUME StoreType, NEW frame \in ScaleFrames, Scaling(frame), NEW rest,
         ScaleStep(frame, rest)
  PROVE  LET t == frame.template
         IN  \/ \E next \in ScaleFrames, list \in Seq(BOOLEAN) :
                  /\ pods' = [pods EXCEPT ![t] = list] /\ UNCHANGED <<deploy, replicaSets>>
                  /\ stack' = <<Delivery(Event("Pod", t), 1)>> \o (<<next>> \o rest)
                  /\ next.template = t /\ next.rs = frame.rs
                  /\ Len(list) + next.create = next.rs.spec + next.delete
                  /\ next.create = 0 \/ next.delete = 0
                  /\ ReadyOf(list) <= ReadyOf(pods[t])
             \/ /\ UNCHANGED store /\ stack' = rest
                /\ frame.status = SetStatus(pods[t]) => Settled(t)
             \/ \E new \in ReplicaSets :
                  /\ UpdateReplicaSet(t, new, rest)
                  /\ new.spec = replicaSets[t].spec
                  /\ new.revision = replicaSets[t].revision
                  /\ new.at = replicaSets[t].at
<1> DEFINE t == frame.template
           list == pods[t]
<1>1. /\ t \in Templates /\ frame.rs \in ReplicaSets /\ frame.create \in Nat
      /\ frame.delete \in Nat /\ frame.status \in [replicas : Nat, available : Nat]
      /\ list \in Seq(BOOLEAN) /\ frame.rs.spec \in Nat
  BY DEF ScaleFrames, StoreType, ReplicaSets
<1>2. /\ frame.rs = replicaSets[t] /\ replicaSets[t] # None
      /\ Len(list) + frame.create = frame.rs.spec + frame.delete
      /\ frame.create = 0 \/ frame.delete = 0
  BY DEF Scaling
<1>3. CASE frame.create > 0 /\ SetPods(t, Append(list, FALSE), <<[frame EXCEPT !.create = @ - 1]>> \o rest)
  <2> DEFINE next == [frame EXCEPT !.create = @ - 1]
             more == Append(list, FALSE)
  <2>1. frame.create - 1 \in Nat /\ frame.delete = 0
    BY <1>1, <1>2, <1>3
  <2>2. next \in ScaleFrames /\ next.template = t /\ next.rs = frame.rs
        /\ next.create = frame.create - 1 /\ next.delete = 0
    BY <2>1 DEF ScaleFrames
  <2>3. more \in Seq(BOOLEAN) /\ Len(more) = Len(list) + 1 /\ Len(list) \in Nat
    BY <1>1
  <2>4. Len(more) + next.create = next.rs.spec + next.delete
    <3> DEFINE n == frame.rs.spec
               m == frame.create
    <3> HIDE DEF more, next, list, n, m
    <3>1. Len(list) + m = n + 0 /\ m \in Nat /\ n \in Nat
      BY <1>1, <1>2, <2>1 DEF n, m
    <3>2. (Len(list) + 1) + (m - 1) = n + 0
      BY <2>3, <3>1
    <3> QED
      BY <2>2, <2>3, <3>2 DEF n, m
  <2>5. /\ pods' = [pods EXCEPT ![t] = more] /\ UNCHANGED <<deploy, replicaSets>>
        /\ stack' = <<Delivery(Event("Pod", t), 1)>> \o (<<next>> \o rest)
    BY <1>3 DEF SetPods, Deliver
  <2>6. ReadyOf(more) <= ReadyOf(pods[t])
    BY <1>1, ReadyCounts
  <2> HIDE DEF next, more
  <2> QED
    BY <2>2, <2>3, <2>4, <2>5, <2>6
<1>4. CASE frame.delete > 0 /\ SetPods(t, Tail(list), <<[frame EXCEPT !.delete = @ - 1]>> \o rest)
  <2> DEFINE next == [frame EXCEPT !.delete = @ - 1]
             fewer == Tail(list)
  <2>1. frame.delete - 1 \in Nat /\ frame.create = 0
    BY <1>1, <1>2, <1>4
  <2>2. next \in ScaleFrames /\ next.template = t /\ next.rs = frame.rs
        /\ next.create = 0 /\ next.delete = frame.delete - 1
    BY <2>1 DEF ScaleFrames
  <2>3. list # << >>
    <3> DEFINE n == frame.rs.spec
    <3> HIDE DEF n
    <3>1. Len(list) + 0 = n + frame.delete /\ n \in Nat /\ Len(list) \in Nat
      BY <1>1, <1>2, <2>1 DEF n
    <3>2. Len(list) # 0
      BY <1>1, <1>4, <3>1
    <3> QED
      BY <3>2
  <2>4. fewer \in Seq(BOOLEAN) /\ Len(fewer) = Len(list) - 1 /\ Len(list) \in Nat
    BY <1>1, <2>3, TailIs
  <2>5. Len(fewer) + next.create = next.rs.spec + next.delete
    <3> DEFINE n == frame.rs.spec
    <3> HIDE DEF fewer, next, list, n
    <3>1. (Len(list) - 1) + 0 = n + (frame.delete - 1)
      BY <1>1, <1>2, <2>1, <2>4 DEF n
    <3> QED
      BY <2>2, <2>4, <3>1 DEF n
  <2>6. /\ pods' = [pods EXCEPT ![t] = fewer] /\ UNCHANGED <<deploy, replicaSets>>
        /\ stack' = <<Delivery(Event("Pod", t), 1)>> \o (<<next>> \o rest)
    BY <1>4 DEF SetPods, Deliver
  <2>7. ReadyOf(fewer) <= ReadyOf(pods[t])
    BY <1>1, <2>3, ReadyCounts
  <2> HIDE DEF next, fewer
  <2> QED
    BY <2>2, <2>4, <2>5, <2>6, <2>7
<1> DEFINE status == [replicas |-> frame.rs.replicas, available |-> frame.rs.available]
           new == [frame.rs EXCEPT !.replicas = frame.status.replicas,
                                   !.available = frame.status.available]
<1>5. CASE /\ frame.create = 0 /\ frame.delete = 0 /\ frame.status = status
           /\ Return(rest)
  <2>1. Len(list) = frame.rs.spec
    <3> DEFINE n == frame.rs.spec
    <3> HIDE DEF n
    <3>1. Len(list) + 0 = n + 0 /\ n \in Nat /\ Len(list) \in Nat
      BY <1>1, <1>2, <1>5 DEF n
    <3> QED
      BY <3>1 DEF n
  <2> QED
    BY <1>2, <1>5, <2>1 DEF Return, Settled
<1>6. CASE frame.create = 0 /\ frame.delete = 0 /\ UpdateReplicaSet(t, new, rest)
  <2>1. /\ new \in ReplicaSets /\ new.spec = frame.rs.spec
        /\ new.revision = frame.rs.revision /\ new.at = frame.rs.at
    BY <1>1 DEF ReplicaSets
  <2> HIDE DEF new
  <2> QED
    BY <1>2, <1>6, <2>1
<1> QED
  BY <1>3, <1>4, <1>5, <1>6 DEF ScaleStep

LEMMA ScaleKeepsLiving ==
  ASSUME StoreType, KeysType, Living, NEW rest \in Seq(CalmFrames(KindOf(deploy))),
         NEW frame \in ScaleFrames, Scaling(frame), Draining("replicaSets", rest),
         stack = <<frame>> \o rest, ScaleStep(frame, rest), UNCHANGED <<queued, rsQueue>>
  PROVE  StoreType' /\ KeysType' /\ Living'
<1> DEFINE C == CalmFrames(KindOf(deploy))
<1>1. PICK t \in Templates : t = frame.template
  BY DEF ScaleFrames
<1>2. /\ frame.op = "scale" /\ deploy # None
      /\ \A x : ~TellsSet(frame, x) /\ (Counted(x) => x = t)
      /\ \A x : Awaits(x, stack) <=> Awaits(x, rest)
      /\ \A status : ~TellsDeployment(frame, status)
      /\ \A status : Computes(status, stack) <=> Computes(status, rest)
  <2>1. frame.op = "scale"
    BY DEF ScaleFrames
  <2>2. /\ \A x : ~TellsSet(frame, x)
        /\ \A status : ~TellsDeployment(frame, status)
    BY <2>1 DEF TellsSet, TellsDeployment
  <2>3. /\ Head(stack) = frame
        /\ \A x : Awaits(x, stack) <=> TellsSet(frame, x) \/ Awaits(x, rest)
        /\ \A status : Computes(status, stack) <=>
                         TellsDeployment(frame, status) \/ Computes(status, rest)
    BY Stacked
  <2> QED
    BY <1>1, <2>1, <2>2, <2>3 DEF Counted, Living
<1>3. replicaSets[t] # None /\ frame.rs = replicaSets[t]
  BY <1>1 DEF Scaling
<1>4. ASSUME NEW next \in ScaleFrames, NEW list \in Seq(BOOLEAN),
             pods' = [pods EXCEPT ![t] = list], UNCHANGED <<deploy, replicaSets>>,
             stack' = <<Delivery(Event("Pod", t), 1)>> \o (<<next>> \o rest),
             next.template = t, next.rs = frame.rs,
             Len(list) + next.create = next.rs.spec + next.delete,
             next.create = 0 \/ next.delete = 0
      PROVE  StoreType' /\ KeysType' /\ Living'
  <2> DEFINE top == Delivery(Event("Pod", t), 1)
  <2>1. /\ StoreType' /\ KeysType' /\ deploy' = deploy /\ replicaSets' = replicaSets
        /\ pods'[t] = list /\ \A x \in Templates \ {t} : pods'[x] = pods[x]
    BY <1>4 DEF StoreType, KeysType
  <2>2. Scaling(next)'
    BY <1>3, <1>4, <2>1 DEF Scaling
  <2>3. LivingStack'
    BY <1>4, <2>1, <2>2 DEF LivingStack
  <2>4. \A x \in Templates : Unowned(x)'
    BY <1>3, <2>1 DEF Unowned, Living
  <2>5. TellsSet(top, t)
    BY DEF TellsSet, SetEvents, Delivery, Event
  <2>6. /\ Awaits(t, stack') /\ \A x : Awaits(x, rest) => Awaits(x, stack')
        /\ \A status : Computes(status, rest) => Computes(status, stack')
    <3> DEFINE over == <<next>> \o rest
               S == C \cup {next}
    <3>1. /\ over \in Seq(S) /\ \A x : Awaits(x, rest) => Awaits(x, over)
          /\ \A status : Computes(status, rest) => Computes(status, over)
      <4>1. rest \in Seq(S)
        OBVIOUS
      <4> QED
        BY <4>1, Stacked
    <3> HIDE DEF top, over, S
    <3> QED
      BY <1>4, <2>5, <3>1, Stacked DEF top, over
  <2>7. ASSUME NEW x \in Owned(replicaSets') PROVE SetTold(x)'
    <3>1. CASE x = t
      BY <2>6, <3>1 DEF SetTold
    <3>2. CASE x # t
      <4>1. /\ x \in Templates /\ x \in Owned(replicaSets)
            /\ Settled(x) \/ Contains(rsQueue, x) \/ Awaits(x, rest)
        BY <1>2, <2>1, <2>7, <3>2 DEF Owned, SetTold, Living
      <4>2. Settled(x) => Settled(x)'
        BY <2>1, <3>2, <4>1 DEF Settled
      <4> QED
        BY <2>6, <4>1, <4>2 DEF SetTold
    <3> QED
      BY <3>1, <3>2
  <2>8. DeploymentTold'
    BY <1>2, <2>1, <2>6 DEF DeploymentTold, Living
  <2> QED
    BY <1>2, <2>1, <2>3, <2>4, <2>7, <2>8 DEF Living
<1>5. ASSUME UNCHANGED store, stack' = rest,
             frame.status = SetStatus(pods[t]) => Settled(t)
      PROVE  StoreType' /\ KeysType' /\ Living'
  <2>1. deploy' = deploy /\ replicaSets' = replicaSets /\ pods' = pods
    BY <1>5 DEF store
  <2>2. /\ StoreType' /\ KeysType' /\ \A x \in Templates : Unowned(x)'
    BY <2>1 DEF StoreType, KeysType, Unowned, Living
  <2>3. LivingStack'
    BY <1>5, <2>1 DEF LivingStack
  <2>4. ASSUME NEW x \in Owned(replicaSets') PROVE SetTold(x)'
    <3>1. x \in Owned(replicaSets) /\ (Settled(x) => Settled(x)')
      BY <2>1, <2>4 DEF Settled
    <3>2. Settled(x) \/ Contains(rsQueue, x) \/ Awaits(x, rest)
      BY <1>1, <1>2, <1>5, <3>1, LivingHead
    <3> QED
      BY <1>5, <3>1, <3>2 DEF SetTold
  <2>5. DeploymentTold'
    BY <1>2, <1>5, <2>1 DEF DeploymentTold, Living
  <2> QED
    BY <1>2, <2>1, <2>2, <2>3, <2>4, <2>5 DEF Living
<1>6. ASSUME NEW new \in ReplicaSets, UpdateReplicaSet(t, new, rest)
      PROVE  StoreType' /\ KeysType' /\ Living'
  <2>1. /\ replicaSets' = [replicaSets EXCEPT ![t] = new] /\ UNCHANGED <<deploy, pods>>
        /\ stack' \in Seq(C) /\ Awaits(t, stack') /\ Computes(deploy.status, stack')
        /\ \A x : Awaits(x, rest) => Awaits(x, stack')
    BY <1>3, <1>6, WritesSet
  <2> QED
    BY <1>2, <2>1, SetWritten
<1> QED
  BY <1>1, <1>4, <1>5, <1>6, ScaleStepIs

\* The event of a pod that a reconcile has made or deleted
LEMMA PodKeepsLiving ==
  ASSUME StoreType, KeysType, Living, NEW rest \in Seq(CalmFrames(KindOf(deploy))),
         NEW frame \in ScaleFrames, Scaling(frame), Draining("replicaSets", rest),
         NEW top, top = Delivery(Event("Pod", frame.template), 1),
         stack = <<top>> \o (<<frame>> \o rest),
         DeliverStep(top, <<frame>> \o rest)
  PROVE  StoreType' /\ KeysType' /\ Living'
<1> DEFINE C == CalmFrames(KindOf(deploy))
           S == C \cup {frame}
           over == <<frame>> \o rest
<1>1. PICK t \in Templates : t = frame.template
  BY DEF ScaleFrames
<1>2. /\ top \in DeliverFrames /\ top.event.type = "Pod" /\ top.event.template = t
      /\ replicaSets[t] # None
  BY <1>1 DEF DeliverFrames, SetEvents, Delivery, Event, Scaling
<1>3. /\ over \in Seq(S) /\ Draining("replicaSets", over)
      /\ \A x : Awaits(x, rest) => Awaits(x, over)
      /\ \A status : Computes(status, rest) => Computes(status, over)
  <2>1. rest \in Seq(S)
    OBVIOUS
  <2> HIDE DEF S
  <2>2. frame \in S
    BY DEF S
  <2> QED
    BY <2>1, <2>2, Stacked
<1>4. EnqueueReplicaSet(t, over) /\ UNCHANGED queued
  BY <1>1, <1>2, DeliverKinds
<1>5. [op |-> "replicaSets"] \in S
  BY CalmMembers
<1> HIDE DEF over, S
<1>6. /\ UNCHANGED store /\ KeysType' /\ Contains(rsQueue', t) /\ stack' = over
      /\ \A u : Contains(rsQueue, u) => Contains(rsQueue', u)
  BY <1>1, <1>3, <1>4, <1>5, AddsSet
<1>7. deploy' = deploy /\ replicaSets' = replicaSets /\ pods' = pods
  BY <1>6 DEF store
<1>8. /\ StoreType' /\ deploy' # None /\ \A x \in Templates : Unowned(x)'
  BY <1>7 DEF StoreType, Unowned, Living
<1>9. Scaling(frame)'
  BY <1>7 DEF Scaling
<1>10. LivingStack'
  BY <1>6, <1>7, <1>9 DEF LivingStack, over
<1>11. stack = <<top>> \o over
  BY DEF over
<1>12. ASSUME NEW x \in Owned(replicaSets') PROVE SetTold(x)'
  <2>1. x \in Owned(replicaSets) /\ (Settled(x) => Settled(x)')
    BY <1>7, <1>12 DEF Settled
  <2>2. top.op = "deliver" /\ (TellsSet(top, x) => x = t)
    BY <1>2 DEF TellsSet, DeliverFrames
  <2>3. Settled(x) \/ Contains(rsQueue, x) \/ Awaits(x, over) \/ x = t
    BY <1>3, <1>11, <2>1, <2>2, LivingHead
  <2> QED
    BY <1>6, <2>1, <2>3 DEF SetTold
<1>13. DeploymentTold'
  <2>1. ~TellsDeployment(top, deploy.status)
    BY <1>2 DEF TellsDeployment, DeliverFrames
  <2>2. \/ deploy.status = StatusOf(deploy, replicaSets)
        \/ queued \/ Computes(deploy.status, over)
    BY <1>3, <1>11, <2>1, LivingHead
  <2> QED
    BY <1>4, <1>6, <1>7, <2>2 DEF DeploymentTold
<1> QED
  BY <1>6, <1>8, <1>10, <1>12, <1>13 DEF Living

-------------------------------------------------------------------------------
(* While the Deployment exists: all steps *)

\* Which code runs, by the frame that is innermost
LEMMA RunIs ==
  ASSUME Run, NEW S, NEW rest \in Seq(S), NEW frame, stack = <<frame>> \o rest
  PROVE  /\ UNCHANGED <<edits, faults>>
         /\ \/ /\ frame.op = "deliver" /\ DeliverStep(frame, rest) /\ UNCHANGED timer
            \/ /\ frame.op = "deployments" /\ DrainDeployments(frame, rest)
               /\ UNCHANGED rsQueue
            \/ frame.op = "next" /\ AfterNext(rest) /\ UNCHANGED rsQueue
            \/ frame.op = "plan" /\ PlanStep(frame, rest) /\ UNCHANGED <<timer, rsQueue>>
            \/ /\ frame.op = "deleteSets" /\ DeleteSets(frame, rest)
               /\ UNCHANGED <<queued, timer, rsQueue>>
            \/ /\ frame.op = "replicaSets" /\ DrainReplicaSets(rest)
               /\ UNCHANGED <<queued, timer>>
            \/ /\ frame.op = "scale" /\ ScaleStep(frame, rest)
               /\ UNCHANGED <<queued, timer, rsQueue>>
            \/ /\ frame.op = "deletePods" /\ DeletePods(frame, rest)
               /\ UNCHANGED <<queued, timer, rsQueue>>
<1>1. Head(stack) = frame /\ Tail(stack) = rest
  BY Stacked
<1> QED
  BY <1>1 DEF Run

LEMMA RunKeepsLiving ==
  ASSUME StoreType, KeysType, Living, Run
  PROVE  StoreType' /\ KeysType' /\ Living'
<1> DEFINE C == CalmFrames(KindOf(deploy))
<1>1. CASE stack \in Seq(C)
  <2>1. PICK frame \in C, rest \in Seq(C) : stack = <<frame>> \o rest
    <3>1. stack # << >>
      BY DEF Run
    <3> QED
      BY <1>1, <3>1, Unstacked
  <2>2. CASE frame.op = "deliver" /\ frame \in DeliverFrames
    <3>1. DeliverStep(frame, rest)
      BY <2>1, <2>2, RunIs
    <3> QED
      BY <2>1, <2>2, <3>1, DeliveryKeepsLiving
  <2>3. CASE frame.op = "deployments" /\ frame.left \in Nat
    <3>1. DrainDeployments(frame, rest) /\ UNCHANGED rsQueue
      BY <2>1, <2>3, RunIs
    <3> QED
      BY <2>1, <2>3, <3>1, DrainKeepsLiving
  <2>4. CASE frame = [op |-> "next"]
    <3>1. frame.op = "next"
      BY <2>4
    <3>2. AfterNext(rest) /\ UNCHANGED rsQueue
      BY <2>1, <3>1, RunIs
    <3> QED
      BY <2>1, <3>1, <3>2, NextKeepsLiving
  <2>5. CASE frame = [op |-> "replicaSets"]
    <3>1. frame.op = "replicaSets"
      BY <2>5
    <3>2. DrainReplicaSets(rest) /\ UNCHANGED queued
      BY <2>1, <3>1, RunIs
    <3> QED
      BY <2>1, <2>5, <3>2, SetsLoopKeepsLiving
  <2>6. CASE /\ frame = [op |-> "plan", steps |-> frame.steps]
             /\ \E d \in DeploymentsOf(KindOf(deploy)) : frame.steps \in CalmPlans(d)
    <3>1. frame.op = "plan"
      BY <2>6
    <3>2. PlanStep(frame, rest) /\ UNCHANGED rsQueue
      BY <2>1, <3>1, RunIs
    <3>3. PICK d \in DeploymentsOf(KindOf(deploy)) : frame.steps \in CalmPlans(d)
      BY <2>6
    <3>4. PICK steps \in CalmPlans(d) : frame = [op |-> "plan", steps |-> steps]
      BY <2>6, <3>3
    <3> QED
      BY <2>1, <3>2, <3>3, <3>4, PlanKeepsLiving
  <2> QED
    BY <2>2, <2>3, <2>4, <2>5, <2>6, CalmKinds
<1>2. ASSUME NEW rest \in Seq(C), NEW frame \in CreatingFrames(deploy),
             stack = <<frame>> \o rest
      PROVE  StoreType' /\ KeysType' /\ Living'
  <2>1. frame.op = "plan"
    BY DEF CreatingFrames
  <2>2. PlanStep(frame, rest) /\ UNCHANGED rsQueue
    BY <1>2, <2>1, RunIs
  <2> QED
    BY <1>2, <2>2, CreateKeepsLiving
<1>3. ASSUME NEW rest \in Seq(C), NEW frame \in ScaleFrames, Scaling(frame),
             Draining("replicaSets", rest), stack = <<frame>> \o rest
      PROVE  StoreType' /\ KeysType' /\ Living'
  <2>1. frame.op = "scale"
    BY DEF ScaleFrames
  <2>2. ScaleStep(frame, rest) /\ UNCHANGED <<queued, rsQueue>>
    BY <1>3, <2>1, RunIs
  <2> QED
    BY <1>3, <2>2, ScaleKeepsLiving
<1>4. ASSUME NEW rest \in Seq(C), NEW frame \in ScaleFrames, Scaling(frame),
             Draining("replicaSets", rest),
             stack = <<Delivery(Event("Pod", frame.template), 1)>> \o (<<frame>> \o rest)
      PROVE  StoreType' /\ KeysType' /\ Living'
  <2>1. PICK top : top = Delivery(Event("Pod", frame.template), 1)
    OBVIOUS
  <2> DEFINE S == C \cup {frame}
  <2>2. <<frame>> \o rest \in Seq(S)
    <3>1. rest \in Seq(S)
      OBVIOUS
    <3> QED
      BY <3>1, Stacked
  <2> HIDE DEF S
  <2>3. top.op = "deliver"
    BY <2>1 DEF Delivery
  <2>4. DeliverStep(top, <<frame>> \o rest)
    BY <1>4, <2>1, <2>2, <2>3, RunIs
  <2> QED
    BY <1>4, <2>1, <2>4, PodKeepsLiving
<1> QED
  BY <1>1, <1>2, <1>3, <1>4 DEF Living, LivingStack

\* Between calls
LEMMA IdleTells ==
  ASSUME Idle
  PROVE  /\ \A S : stack \in Seq(S)
         /\ \A t : ~Awaits(t, stack) /\ ~Counted(t)
         /\ \A status : ~Computes(status, stack)
<1>1. stack = << >> /\ \A S : << >> \in Seq(S)
  BY DEF Idle
<1> QED
  BY <1>1, Nothing DEF Counted

\* A callback that writes nothing
LEMMA IdleQuiet ==
  ASSUME StoreType, Living, Idle, UNCHANGED store,
         stack' \in Seq(CalmFrames(KindOf(deploy))),
         \A t : Contains(rsQueue, t) => Contains(rsQueue', t),
         queued => queued'
  PROVE  StoreType' /\ Living'
<1>1. deploy' = deploy /\ replicaSets' = replicaSets /\ pods' = pods
  BY DEF store
<1>2. StoreType' /\ deploy' # None /\ \A t \in Templates : Unowned(t)'
  BY <1>1 DEF StoreType, Living, Unowned
<1>3. LivingStack'
  BY <1>1 DEF LivingStack
<1>4. ASSUME NEW t \in Owned(replicaSets') PROVE SetTold(t)'
  <2>1. t \in Owned(replicaSets) /\ (Settled(t) => Settled(t)')
    BY <1>1, <1>4 DEF Settled
  <2>2. Settled(t) \/ Contains(rsQueue, t)
    BY <2>1, IdleTells DEF SetTold, Living
  <2> QED
    BY <2>1, <2>2 DEF SetTold
<1>5. DeploymentTold'
  <2>1. deploy.status = StatusOf(deploy, replicaSets) \/ queued
    BY IdleTells DEF DeploymentTold, Living
  <2> QED
    BY <1>1, <2>1 DEF DeploymentTold
<1> QED
  BY <1>2, <1>3, <1>4, <1>5 DEF Living

LEMMA CallbacksKeepLiving ==
  ASSUME StoreType, KeysType, Living, Idle,
         TimerFires \/ ResyncDeployment \/ \E t \in Templates : ResyncReplicaSet(t)
  PROVE  StoreType' /\ KeysType' /\ Living'
<1> DEFINE C == CalmFrames(KindOf(deploy))
<1>1. << >> \in Seq(C)
  OBVIOUS
<1>2. CASE TimerFires
  <2>1. UNCHANGED rsQueue
    BY <1>2 DEF TimerFires
  <2>2. CASE queued
    <3>1. Reconcile(<<[op |-> "next"]>>)
      BY <1>2, <2>2 DEF TimerFires
    <3>2. [op |-> "next"] \in C
      BY CalmMembers
    <3>3. <<[op |-> "next"]>> \in Seq(C)
      BY <3>2
    <3> QED
      BY <2>1, <3>1, <3>3, IdleTells, ReconcileKeepsLiving DEF KeysType
  <2>3. CASE ~queued
    <3>1. UNCHANGED store /\ stack' = << >>
      BY <1>2, <2>3 DEF TimerFires, Return
    <3> QED
      BY <1>1, <2>1, <2>3, <3>1, IdleQuiet DEF KeysType
  <2> QED
    BY <2>2, <2>3
<1>3. CASE ResyncDeployment
  <2>1. EnqueueDeployment(<< >>) /\ UNCHANGED rsQueue
    BY <1>3 DEF ResyncDeployment
  <2>2. queued' = TRUE /\ UNCHANGED store /\ stack' \in Seq(C)
    BY <1>1, <2>1, AddsDeployment
  <2> QED
    BY <2>1, <2>2, IdleQuiet DEF KeysType
<1>4. ASSUME NEW t \in Templates, ResyncReplicaSet(t)
      PROVE  StoreType' /\ KeysType' /\ Living'
  <2>1. EnqueueReplicaSet(t, << >>) /\ UNCHANGED queued
    BY <1>4 DEF ResyncReplicaSet
  <2>2. [op |-> "replicaSets"] \in C
    BY CalmMembers
  <2>3. /\ UNCHANGED store /\ KeysType' /\ stack' \in Seq(C)
        /\ \A u : Contains(rsQueue, u) => Contains(rsQueue', u)
    BY <1>1, <2>1, <2>2, AddsSet
  <2> QED
    BY <2>1, <2>3, IdleQuiet
<1> QED
  BY <1>2, <1>3, <1>4

\* A pod changes, or is gone.
LEMMA PodsKeepLiving ==
  ASSUME StoreType, KeysType, Living, Idle, NEW t \in Templates, NEW list \in Seq(BOOLEAN),
         pods[t] # << >>, SetPods(t, list, << >>), UNCHANGED <<queued, rsQueue>>
  PROVE  StoreType' /\ KeysType' /\ Living'
<1> DEFINE C == CalmFrames(KindOf(deploy))
           frame == Delivery(Event("Pod", t), 1)
<1>1. /\ deploy' = deploy /\ replicaSets' = replicaSets
      /\ pods' = [pods EXCEPT ![t] = list] /\ stack' = <<frame>> \o << >>
  BY DEF SetPods, Deliver
<1>2. /\ StoreType' /\ KeysType' /\ deploy' # None
      /\ \A x \in Templates \ {t} : pods'[x] = pods[x]
  BY <1>1 DEF StoreType, KeysType, Living
<1>3. replicaSets[t] # None
  BY DEF Living, Unowned
<1>4. \A x \in Templates : Unowned(x)'
  BY <1>1, <1>2, <1>3 DEF Unowned, Living
<1>5. frame \in C /\ TellsSet(frame, t)
  <2>1. Event("Pod", t) \in SetEvents /\ Event("Pod", t).template = t
    BY DEF Event, SetEvents
  <2>2. Delivery(Event("Pod", t), 1) \in DeliverFrames
    BY <2>1, CalmMembers
  <2> QED
    BY <2>1, <2>2, CalmMembers DEF TellsSet, Delivery
<1> HIDE DEF frame
<1>6. stack' \in Seq(C) /\ Awaits(t, stack')
  <2>1. << >> \in Seq(C)
    OBVIOUS
  <2> QED
    BY <1>1, <1>5, <2>1, Stacked
<1>7. LivingStack'
  BY <1>1, <1>6 DEF LivingStack
<1>8. ASSUME NEW x \in Owned(replicaSets') PROVE SetTold(x)'
  <2>1. CASE x = t
    BY <1>6, <2>1 DEF SetTold
  <2>2. CASE x # t
    <3>1. x \in Templates /\ x \in Owned(replicaSets)
      BY <1>1, <1>8 DEF Owned
    <3>2. Settled(x) => Settled(x)'
      BY <1>1, <1>2, <2>2, <3>1 DEF Settled
    <3>3. Settled(x) \/ Contains(rsQueue, x)
      BY <3>1, IdleTells DEF SetTold, Living
    <3> QED
      BY <3>2, <3>3 DEF SetTold
  <2> QED
    BY <2>1, <2>2
<1>9. DeploymentTold'
  <2>1. deploy.status = StatusOf(deploy, replicaSets) \/ queued
    BY IdleTells DEF DeploymentTold, Living
  <2> QED
    BY <1>1, <2>1 DEF DeploymentTold
<1> QED
  BY <1>2, <1>4, <1>7, <1>8, <1>9 DEF Living

\* Lists of pods
LEMMA ListTypes ==
  ASSUME NEW list \in Seq(BOOLEAN), NEW i \in DOMAIN list
  PROVE  /\ list # << >>
         /\ \A ready \in BOOLEAN : [list EXCEPT ![i] = ready] \in Seq(BOOLEAN)
         /\ RemoveAt(list, i) \in Seq(BOOLEAN)
<1>1. list # << >> /\ i \in 1..Len(list) /\ Len(list) \in Nat
  OBVIOUS
<1>2. \A ready \in BOOLEAN : [list EXCEPT ![i] = ready] \in Seq(BOOLEAN)
  OBVIOUS
<1>3. SubSeq(list, 1, i - 1) \in Seq(BOOLEAN)
  BY <1>1
<1>4. SubSeq(list, i + 1, Len(list)) \in Seq(BOOLEAN)
  BY <1>1
<1>5. RemoveAt(list, i) \in Seq(BOOLEAN)
  BY <1>3, <1>4, ConcatType DEF RemoveAt
<1> QED
  BY <1>1, <1>2, <1>5

LEMMA KubeletsKeepLiving ==
  ASSUME StoreType, KeysType, Living, NEW t \in Templates, NEW i \in DOMAIN pods[t],
         PodReady(t, i) \/ PodUnready(t, i) \/ PodEnds(t, i) \/ DeletePod(t, i)
  PROVE  StoreType' /\ KeysType' /\ Living'
<1>1. pods[t] \in Seq(BOOLEAN)
  BY DEF StoreType
<1>2. PICK list \in Seq(BOOLEAN) : Idle /\ SetPods(t, list, << >>) /\ UNCHANGED <<queued, rsQueue>>
  <2>1. \/ SetReady(t, i, TRUE) \/ SetReady(t, i, FALSE)
        \/ /\ Idle /\ SetPods(t, RemoveAt(pods[t], i), << >>)
           /\ UNCHANGED <<queued, rsQueue>>
    BY DEF PodReady, PodUnready, PodEnds, DeletePod, Edit
  <2> QED
    BY <1>1, <2>1, ListTypes DEF SetReady
<1>3. pods[t] # << >>
  BY <1>1, ListTypes
<1> QED
  BY <1>2, <1>3, PodsKeepLiving

\* The user writes the Deployment.
LEMMA EditsKeepLiving ==
  ASSUME StoreType, KeysType, Living,
         \/ \E n \in 0..MaxReplicas : Scale(n)
         \/ \E t \in Templates : ChangeTemplate(t)
  PROVE  StoreType' /\ KeysType' /\ Living'
<1>1. PICK new \in Deployments : Idle /\ UpdateDeployment(new, << >>) /\ UNCHANGED rsQueue
  <2>1. deploy \in Deployments
    BY DEF StoreType, Living
  <2>2. ASSUME NEW n \in 0..MaxReplicas PROVE [deploy EXCEPT !.replicas = n] \in Deployments
    <3>1. n \in Nat
      BY SizeAssumption
    <3> QED
      BY <2>1, <3>1 DEF Deployments
  <2>3. ASSUME NEW t \in Templates PROVE [deploy EXCEPT !.template = t] \in Deployments
    BY <2>1 DEF Deployments
  <2> QED
    BY <2>2, <2>3 DEF Scale, ChangeTemplate, Edit
<1>2. << >> \in Seq(CalmFrames(KindOf(new))) /\ deploy # None
  BY DEF Living
<1>3. /\ deploy' = new /\ UNCHANGED <<replicaSets, pods>>
      /\ stack' \in Seq(CalmFrames(KindOf(new))) /\ Computes(new.status, stack')
  BY <1>1, <1>2, WritesDeployment
<1> QED
  BY <1>1, <1>3, IdleTells, DeploymentWritten

-------------------------------------------------------------------------------
(* While the Deployment's ReplicaSets and their pods are deleted *)

LEMMA RemainingIs ==
  /\ Remaining = IF Owned(replicaSets) = {} THEN << >>
                 ELSE <<[op |-> "deleteSets", sets |-> Owned(replicaSets)]>> \o << >>
  /\ \E S : Remaining \in Seq(S)
<1> DEFINE owned == Owned(replicaSets)
           frame == [op |-> "deleteSets", sets |-> owned]
<1>1. Remaining = IF owned = {} THEN << >> ELSE <<frame>>
  BY DEF Remaining
<1> HIDE DEF owned, frame
<1>2. <<frame>> \o << >> = <<frame>> /\ <<frame>> \in Seq({frame}) /\ << >> \in Seq({frame})
  OBVIOUS
<1>3. Remaining \in Seq({frame})
  BY <1>1, <1>2
<1>4. Remaining = IF owned = {} THEN << >> ELSE <<frame>> \o << >>
  BY <1>1, <1>2
<1> QED
  BY <1>3, <1>4 DEF owned, frame

LEMMA RemainingKept ==
  ASSUME replicaSets' = replicaSets
  PROVE  /\ Remaining' = Remaining /\ Owned(replicaSets') = Owned(replicaSets)
         /\ \A t : Pending(t)' = Pending(t)
BY DEF Remaining, Owned, Pending

LEMMA PendingIs ==
  ASSUME NEW t
  PROVE  Pending(t) # << >> /\ \E S : Pending(t) \in Seq(S)
<1> DEFINE frame == [op |-> "deletePods", template |-> t]
<1>1. PICK S : Remaining \in Seq(S)
  BY RemainingIs
<1> DEFINE T == S \cup {frame}
<1> HIDE DEF frame
<1>2. frame \in T /\ Remaining \in Seq(T)
  BY <1>1
<1> HIDE DEF T
<1>3. <<frame>> \o Remaining \in Seq(T) /\ <<frame>> \o Remaining # << >>
  BY <1>2, Stacked
<1> QED
  BY <1>3 DEF Pending, frame

\* Between calls nothing is left.
LEMMA NothingLeft ==
  ASSUME StoreType, Dying, Idle
  PROVE  /\ deploy = None /\ Owned(replicaSets) = {}
         /\ \A t \in Templates : Unowned(t) /\ replicaSets[t] = None /\ pods[t] = << >>
<1>1. stack = << >>
  BY DEF Idle
<1>2. PICK S : Remaining \in Seq(S)
  BY RemainingIs
<1>3. \A t : ~DeletingPodsOf(t)
  <2> TAKE t
  <2>1. PICK T : Pending(t) \in Seq(T)
    BY PendingIs
  <2>2. \A frame : <<frame>> \o Remaining # << >> /\ <<frame>> \o Pending(t) # << >>
    BY <1>2, <2>1, Stacked
  <2> QED
    BY <1>1, <2>2, PendingIs DEF DeletingPodsOf
<1>4. DeletingSets /\ deploy = None
  BY <1>3 DEF Dying
<1>5. Owned(replicaSets) = {}
  <2>1. stack = Remaining \/ Owned(replicaSets) = {}
    BY <1>1, <1>4 DEF DeletingSets
  <2> QED
    BY <1>1, <2>1 DEF Remaining
<1>6. \A t \in Templates : replicaSets[t] = None
  BY <1>5 DEF Owned
<1> QED
  BY <1>4, <1>5, <1>6 DEF DeletingSets, Unowned

\* The user deletes the Deployment.
LEMMA DeletionBegins ==
  ASSUME StoreType, KeysType, Living, DeleteDeployment
  PROVE  StoreType' /\ KeysType' /\ Dying'
<1> DEFINE frame == Delivery(Event("DeploymentDeleted", None), 1)
<1>1. /\ deploy' = None /\ replicaSets' = replicaSets /\ pods' = pods /\ rsQueue' = rsQueue
      /\ stack' = <<frame>> \o << >>
  BY DEF DeleteDeployment, Edit, Deliver
<1>2. <<frame>> \o << >> = <<frame>>
  <2> HIDE DEF frame
  <2> QED
    OBVIOUS
<1>3. \A t \in Templates : Unowned(t)'
  BY <1>1 DEF Living, Unowned
<1> QED
  BY <1>1, <1>2, <1>3 DEF StoreType, KeysType, Dying, DeletingSets

\* The user creates it again.
LEMMA CreationBegins ==
  ASSUME StoreType, KeysType, Dying, NEW d \in NewDeployments, CreateDeployment(d)
  PROVE  StoreType' /\ KeysType' /\ Living'
<1> DEFINE event == Event("DeploymentUpdated", None)
           frame == Delivery(event, 1)
<1>1. /\ deploy' = d /\ replicaSets' = replicaSets /\ pods' = pods /\ rsQueue' = rsQueue
      /\ stack' = <<frame>> \o << >> /\ Idle
  BY DEF CreateDeployment, Edit, Deliver
<1>2. d \in Deployments
  <2>1. PICK n \in 0..MaxReplicas, t \in Templates, s \in Strategies : d = NewDeployment(n, t, s)
    BY DEF NewDeployments
  <2>2. n \in Nat
    BY SizeAssumption
  <2> QED
    BY <2>1, <2>2 DEF NewDeployment, Deployments, Statuses
<1>3. Owned(replicaSets') = {} /\ \A t \in Templates : Unowned(t)'
  BY <1>1, NothingLeft DEF Unowned
<1>4. /\ frame \in CalmFrames(KindOf(d)) /\ frame.op = "deliver" /\ frame.to = 1
      /\ frame.event = event /\ event.type = "DeploymentUpdated"
  <2>1. event \in DeploymentEvents /\ event.type = "DeploymentUpdated"
    BY DEF Event, DeploymentEvents
  <2> HIDE DEF event
  <2> QED
    BY <2>1, CalmMembers DEF Delivery
<1>5. \A status : TellsDeployment(frame, status)
  BY <1>4 DEF TellsDeployment
<1> HIDE DEF frame
<1>6. << >> \in Seq(CalmFrames(KindOf(d)))
  OBVIOUS
<1>7. stack' \in Seq(CalmFrames(KindOf(d))) /\ \A status : Computes(status, stack')
  BY <1>1, <1>4, <1>5, <1>6, Stacked
<1>8. LivingStack' /\ DeploymentTold' /\ deploy' # None
  BY <1>1, <1>2, <1>7, NoneAssumption DEF LivingStack, DeploymentTold
<1> QED
  BY <1>1, <1>2, <1>3, <1>8 DEF StoreType, KeysType, Living

\* A callback that is still due finds nothing.
LEMMA CallbacksKeepDying ==
  ASSUME StoreType, KeysType, Dying,
         TimerFires \/ ResyncDeployment \/ \E t \in Templates : ResyncReplicaSet(t)
  PROVE  StoreType' /\ KeysType' /\ Dying'
<1>1. /\ deploy = None /\ Owned(replicaSets) = {}
      /\ \A t \in Templates : Unowned(t) /\ replicaSets[t] = None
  BY NothingLeft DEF TimerFires, ResyncDeployment, ResyncReplicaSet
<1>2. TimerFires
  BY <1>1 DEF ResyncDeployment, ResyncReplicaSet
<1>3. /\ UNCHANGED store /\ rsQueue' = rsQueue /\ queued' = FALSE
      /\ stack' = << >> \/ stack' = <<[op |-> "next"]>>
  BY <1>1, <1>2 DEF TimerFires, Reconcile, Return
<1>4. deploy' = deploy /\ replicaSets' = replicaSets /\ pods' = pods
  BY <1>3 DEF store
<1>5. Owned(replicaSets') = {} /\ Remaining' = << >> /\ \A t \in Templates : Unowned(t)'
  BY <1>1, <1>4, RemainingKept DEF Remaining, Unowned
<1> QED
  BY <1>1, <1>3, <1>4, <1>5 DEF StoreType, KeysType, Dying, DeletingSets

\* Deliveries to one controller
LEMMA DeliveryEnds ==
  ASSUME NEW type \in {"DeploymentDeleted", "ReplicaSetDeleted", "Pod"}, NEW t, NEW rest,
         DeliverStep(Delivery(Event(type, t), 1), rest)
  PROVE  /\ type = "DeploymentDeleted" =>
              HandleDeployment(Event(type, t), rest) /\ UNCHANGED rsQueue
         /\ type # "DeploymentDeleted" =>
              HandleReplicaSet(Event(type, t), rest) /\ UNCHANGED queued
<1> DEFINE event == Event(type, t)
           frame == Delivery(event, 1)
           to == Subscribers(type)
<1>1. event.type = type
  BY DEF Event
<1>2. frame.to = 1 /\ frame.event = event
  <2> HIDE DEF event
  <2> QED
    BY DEF Delivery
<1>3. to = IF type = "DeploymentDeleted" THEN <<"Deployment">> ELSE <<"ReplicaSet">>
  BY DEF Subscribers
<1>4. Len(to) = 1 /\ to[1] = IF type = "DeploymentDeleted" THEN "Deployment" ELSE "ReplicaSet"
  BY <1>3
<1>5. DeliverStep(frame, rest)
  OBVIOUS
<1> HIDE DEF frame, to, event
<1>6. \/ to[1] = "Deployment" /\ HandleDeployment(event, rest) /\ UNCHANGED rsQueue
      \/ to[1] = "ReplicaSet" /\ HandleReplicaSet(event, rest) /\ UNCHANGED queued
  BY <1>1, <1>2, <1>4, <1>5 DEF DeliverStep, to
<1> QED
  BY <1>4, <1>6 DEF event

\* A ReplicaSet is deleted.
LEMMA SetDeleted ==
  ASSUME StoreType, DeletingSets, deploy = None,
         stack = Remaining, Owned(replicaSets) # {}, Run
  PROVE  StoreType' /\ rsQueue' = rsQueue /\ Dying'
<1> DEFINE frame == [op |-> "deleteSets", sets |-> Owned(replicaSets)]
<1>1. stack = <<frame>> \o << >> /\ << >> \in Seq({}) /\ frame.op = "deleteSets"
  BY RemainingIs
<1>2. frame.sets = Owned(replicaSets)
  OBVIOUS
<1>3. \A x : [frame EXCEPT !.sets = x] = [op |-> "deleteSets", sets |-> x]
  OBVIOUS
<1> HIDE DEF frame
<1>4. DeleteSets(frame, << >>) /\ rsQueue' = rsQueue
  BY <1>1, RunIs
<1>5. PICK t \in frame.sets :
        LET others == frame.sets \ {t}
        IN  /\ replicaSets' = [replicaSets EXCEPT ![t] = None]
            /\ stack' = <<Delivery(Event("ReplicaSetDeleted", t), 1)>>
                          \o IF others = {} THEN << >>
                             ELSE <<[frame EXCEPT !.sets = others]>> \o << >>
            /\ UNCHANGED <<deploy, pods>>
  BY <1>4 DEF DeleteSets, Deliver
<1>6. t \in Templates /\ replicaSets \in ReadSets
  BY <1>2 DEF Owned, StoreType
<1>7. /\ replicaSets' \in ReadSets /\ replicaSets'[t] = None
      /\ \A u \in Templates \ {t} : replicaSets'[u] = replicaSets[u]
  BY <1>5, <1>6 DEF ReadSets
<1>8. Owned(replicaSets') = frame.sets \ {t}
  BY <1>2, <1>6, <1>7 DEF Owned
<1>9. Remaining' = IF frame.sets \ {t} = {} THEN << >>
                   ELSE <<[op |-> "deleteSets", sets |-> frame.sets \ {t}]>>
  BY <1>8 DEF Remaining
<1>10. \A x : <<[op |-> "deleteSets", sets |-> x]>> \o << >> = <<[op |-> "deleteSets", sets |-> x]>>
  <2> TAKE x
  <2>1. \A f : <<f>> \o << >> = <<f>>
    OBVIOUS
  <2> QED
    BY <2>1
<1>11. stack' = <<Delivery(Event("ReplicaSetDeleted", t), 1)>> \o Remaining'
  BY <1>3, <1>5, <1>9, <1>10
<1>12. \A u \in Templates \ {t} : Unowned(u)'
  BY <1>5, <1>7 DEF DeletingSets, Unowned
<1>13. StoreType'
  BY <1>5, <1>7 DEF StoreType
<1>14. DeletingPodsOf(t)'
  BY <1>7, <1>11, <1>12 DEF DeletingPodsOf
<1> QED
  BY <1>4, <1>5, <1>6, <1>13, <1>14 DEF Dying

\* Its pods are deleted.
LEMMA PodsDeleted ==
  ASSUME StoreType, deploy = None, NEW t \in Templates, DeletingPodsOf(t), Run
  PROVE  StoreType' /\ rsQueue' = rsQueue /\ Dying'
<1>1. PICK S : Remaining \in Seq(S)
  BY RemainingIs
<1>2. PICK T : Pending(t) \in Seq(T)
  BY PendingIs
<1>3. ASSUME UNCHANGED store, rsQueue' = rsQueue, stack' = Pending(t)
      PROVE  StoreType' /\ rsQueue' = rsQueue /\ Dying'
  <2>1. deploy' = deploy /\ replicaSets' = replicaSets /\ pods' = pods
    BY <1>3 DEF store
  <2>2. DeletingPodsOf(t)'
    BY <1>3, <2>1, RemainingKept DEF DeletingPodsOf, Unowned
  <2> QED
    BY <1>3, <2>1, <2>2 DEF StoreType, Dying
<1>4. CASE stack = <<Delivery(Event("ReplicaSetDeleted", t), 1)>> \o Remaining
  <2> DEFINE frame == Delivery(Event("ReplicaSetDeleted", t), 1)
  <2>1. frame.op = "deliver"
    BY DEF Delivery
  <2>2. DeliverStep(frame, Remaining)
    <3> HIDE DEF frame
    <3>1. stack = <<frame>> \o Remaining
      BY <1>4 DEF frame
    <3> QED
      BY <1>1, <2>1, <3>1, RunIs
  <2>3. HandleReplicaSet(Event("ReplicaSetDeleted", t), Remaining)
    BY <2>2, DeliveryEnds
  <2>4. Event("ReplicaSetDeleted", t).type = "ReplicaSetDeleted"
        /\ Event("ReplicaSetDeleted", t).template = t
    BY DEF Event
  <2>5. UNCHANGED store /\ rsQueue' = rsQueue /\ stack' = Pending(t)
    BY <2>3, <2>4 DEF HandleReplicaSet, Return, Pending
  <2> QED
    BY <1>3, <2>5
<1>5. CASE stack = <<Delivery(Event("Pod", t), 1)>> \o Pending(t)
  <2> DEFINE frame == Delivery(Event("Pod", t), 1)
  <2>1. frame.op = "deliver"
    BY DEF Delivery
  <2>2. DeliverStep(frame, Pending(t))
    <3> HIDE DEF frame
    <3>1. stack = <<frame>> \o Pending(t)
      BY <1>5 DEF frame
    <3> QED
      BY <1>2, <2>1, <3>1, RunIs
  <2>3. HandleReplicaSet(Event("Pod", t), Pending(t))
    BY <2>2, DeliveryEnds
  <2>4. Event("Pod", t).type = "Pod" /\ Event("Pod", t).template = t
    BY DEF Event
  <2>5. UNCHANGED store /\ rsQueue' = rsQueue /\ stack' = Pending(t)
    BY <2>3, <2>4 DEF HandleReplicaSet, Return, DeletingPodsOf
  <2> QED
    BY <1>3, <2>5
<1>6. CASE stack = Pending(t)
  <2> DEFINE frame == [op |-> "deletePods", template |-> t]
  <2>1. frame.op = "deletePods" /\ frame.template = t
    OBVIOUS
  <2>2. Pending(t) = <<frame>> \o Remaining
    BY DEF Pending
  <2> HIDE DEF frame
  <2>3. DeletePods(frame, Remaining) /\ rsQueue' = rsQueue
    BY <1>1, <1>6, <2>1, <2>2, RunIs
  <2>4. CASE pods[t] = << >>
    <3>1. /\ deploy' = deploy /\ replicaSets' = replicaSets /\ pods' = pods
          /\ stack' = Remaining
      BY <2>1, <2>3, <2>4 DEF DeletePods, Return, store
    <3>2. \A u \in Templates : Unowned(u)'
      BY <2>4, <3>1 DEF DeletingPodsOf, Unowned
    <3> QED
      BY <2>3, <3>1, <3>2, RemainingKept DEF StoreType, Dying, DeletingSets
  <2>5. CASE pods[t] # << >>
    <3>1. /\ deploy' = deploy /\ replicaSets' = replicaSets
          /\ pods' = [pods EXCEPT ![t] = Tail(pods[t])]
          /\ stack' = <<Delivery(Event("Pod", t), 1)>> \o Pending(t)
      BY <2>1, <2>2, <2>3, <2>5 DEF DeletePods, SetPods, Deliver
    <3>2. Tail(pods[t]) \in Seq(BOOLEAN)
      <4>1. pods[t] \in Seq(BOOLEAN)
        BY DEF StoreType
      <4> QED
        BY <2>5, <4>1, Unstacked
    <3>3. StoreType' /\ \A u \in Templates \ {t} : pods'[u] = pods[u]
      BY <3>1, <3>2 DEF StoreType
    <3>4. \A u \in Templates \ {t} : Unowned(u)'
      BY <3>1, <3>3 DEF DeletingPodsOf, Unowned
    <3>5. DeletingPodsOf(t)'
      BY <3>1, <3>4, RemainingKept DEF DeletingPodsOf
    <3> QED
      BY <2>3, <3>1, <3>3, <3>5 DEF Dying
  <2> QED
    BY <2>4, <2>5
<1> QED
  BY <1>4, <1>5, <1>6 DEF DeletingPodsOf

LEMMA RunKeepsDying ==
  ASSUME StoreType, KeysType, Dying, Run
  PROVE  StoreType' /\ KeysType' /\ Dying'
<1> SUFFICES StoreType' /\ rsQueue' = rsQueue /\ Dying'
  BY DEF KeysType
<1>1. deploy = None /\ stack # << >> /\ << >> \in Seq({}) /\ \A f : <<f>> = <<f>> \o << >>
  BY DEF Dying, Run
<1>2. CASE \E t \in Templates : DeletingPodsOf(t)
  BY <1>1, <1>2, PodsDeleted
<1>3. CASE DeletingSets /\ stack = Remaining
  <2>1. Owned(replicaSets) # {}
    BY <1>1, <1>3 DEF Remaining
  <2> QED
    BY <1>1, <1>3, <2>1, SetDeleted
<1>4. ASSUME UNCHANGED store, rsQueue' = rsQueue, stack' = Remaining, DeletingSets
      PROVE  StoreType' /\ rsQueue' = rsQueue /\ Dying'
  <2>1. deploy' = deploy /\ replicaSets' = replicaSets /\ pods' = pods
    BY <1>4 DEF store
  <2>2. stack' = Remaining' /\ \A t \in Templates : Unowned(t)'
    BY <1>4, <2>1, RemainingKept DEF DeletingSets, Unowned
  <2> QED
    BY <1>1, <1>4, <2>1, <2>2 DEF StoreType, Dying, DeletingSets
<1>5. CASE DeletingSets /\ stack = <<[op |-> "next"]>> /\ ~queued /\ Owned(replicaSets) = {}
  <2> DEFINE frame == [op |-> "next"]
  <2>1. frame.op = "next"
    OBVIOUS
  <2> HIDE DEF frame
  <2>2. stack = <<frame>> \o << >>
    BY <1>1, <1>5 DEF frame
  <2>3. AfterNext(<< >>) /\ rsQueue' = rsQueue
    BY <1>1, <2>1, <2>2, RunIs
  <2>4. UNCHANGED store /\ stack' = << >>
    BY <1>5, <2>3 DEF AfterNext, Return
  <2>5. Remaining = << >>
    BY <1>5 DEF Remaining
  <2> QED
    BY <1>4, <1>5, <2>3, <2>4, <2>5
<1>6. CASE DeletingSets /\ stack = <<Delivery(Event("DeploymentDeleted", None), 1)>>
  <2> DEFINE frame == Delivery(Event("DeploymentDeleted", None), 1)
  <2>1. frame.op = "deliver"
    BY DEF Delivery
  <2>2. DeliverStep(frame, << >>)
    <3> HIDE DEF frame
    <3>1. stack = <<frame>> \o << >>
      BY <1>1, <1>6 DEF frame
    <3> QED
      BY <1>1, <2>1, <3>1, RunIs
  <2>3. HandleDeployment(Event("DeploymentDeleted", None), << >>) /\ rsQueue' = rsQueue
    BY <2>2, DeliveryEnds
  <2>4. Event("DeploymentDeleted", None).type = "DeploymentDeleted"
    BY DEF Event
  <2>5. /\ UNCHANGED store
        /\ stack' = IF Owned(replicaSets) = {} THEN << >>
                    ELSE <<[op |-> "deleteSets", sets |-> Owned(replicaSets)]>> \o << >>
    BY <2>3, <2>4 DEF HandleDeployment, Return
  <2> QED
    BY <1>4, <1>6, <2>3, <2>5, RemainingIs
<1> QED
  BY <1>2, <1>3, <1>5, <1>6 DEF Dying, DeletingSets

-------------------------------------------------------------------------------
(* The invariant is inductive *)

\* A Deployment that has just been rolled out
LEMMA InitObjects ==
  ASSUME Init
  PROVE  OInv
<1>1. PICK s \in Strategies, n \in 1..MaxReplicas :
        RolledOut(NewDeployment(n, CHOOSE t \in Templates : TRUE, s))
  BY DEF Init
<1> DEFINE d == NewDeployment(n, CHOOSE t \in Templates : TRUE, s)
<1>2. n \in Nat /\ d.replicas = n /\ d.template \in Templates /\ d \in Deployments
  <2>1. n \in Nat
    BY SizeAssumption
  <2>2. (CHOOSE t \in Templates : TRUE) \in Templates
    BY TemplatesAssumption
  <2> QED
    BY <1>1, <2>1, <2>2 DEF NewDeployment, Deployments, Statuses
<1> DEFINE status == [replicas |-> n, available |-> n, updated |-> n]
           rs == [spec |-> n, revision |-> 1, replicas |-> n, available |-> n, at |-> 1]
           list == [i \in 1..n |-> TRUE]
<1>3. /\ deploy = [d EXCEPT !.revision = 1, !.status = status]
      /\ replicaSets = [t \in Templates |-> IF t = d.template THEN rs ELSE None]
      /\ pods = [t \in Templates |-> IF t = d.template THEN list ELSE << >>]
      /\ stack = << >> /\ rsQueue = << >>
  BY <1>1, <1>2 DEF Init, RolledOut
<1>4. /\ deploy \in Deployments /\ deploy.template = d.template /\ deploy.status = status
      /\ rs \in ReplicaSets /\ rs # None /\ deploy # None
  <2>1. rs \in ReplicaSets
    BY <1>2 DEF ReplicaSets
  <2>2. deploy \in Deployments /\ deploy.template = d.template /\ deploy.status = status
    BY <1>2, <1>3 DEF Deployments, Statuses
  <2> QED
    BY <2>1, <2>2, NoneAssumption
<1> HIDE DEF d
<1>5. list \in Seq(BOOLEAN) /\ Len(list) = n /\ ReadyOf(list) = n
  <2>1. list \in Seq(BOOLEAN) /\ Len(list) = n /\ DOMAIN list = 1..n
    BY <1>2
  <2>2. {i \in DOMAIN list : list[i]} = 1..n
    BY <2>1
  <2>3. Cardinality(1..n) = n
    BY <1>2, FS_Interval
  <2> QED
    BY <2>1, <2>2, <2>3 DEF ReadyOf
<1>6. StoreType /\ KeysType
  <2>1. << >> \in Seq(BOOLEAN) /\ << >> \in Seq(Templates) /\ IsInjective(<< >>)
    BY DEF IsInjective
  <2> QED
    BY <1>3, <1>4, <1>5, <2>1 DEF StoreType, KeysType, ReadSets
<1>7. \A t \in Templates : Unowned(t)
  BY <1>2, <1>3, <1>4 DEF Unowned
<1>8. Owned(replicaSets) = {d.template} /\ replicaSets[d.template] = rs
  BY <1>2, <1>3, <1>4 DEF Owned
<1>9. Settled(d.template)
  BY <1>2, <1>3, <1>5, <1>8 DEF Settled, SetStatus
<1>10. StatusOf(deploy, replicaSets) = status
  <2>1. /\ Total([t \in {d.template} |-> replicaSets[t].replicas]) = n
        /\ Total([t \in {d.template} |-> replicaSets[t].available]) = n
    <3>1. ASSUME NEW x, NEW count, count = [t \in {x} |-> n] PROVE Total(count) = n
      <4>1. UNION {{t} \X (1..count[t]) : t \in DOMAIN count} = {x} \X (1..n)
        BY <3>1
      <4>2. IsFiniteSet({x}) /\ Cardinality({x}) = 1
        BY FS_Singleton
      <4>3. IsFiniteSet(1..n) /\ Cardinality(1..n) = n
        BY <1>2, FS_Interval
      <4>4. Cardinality({x} \X (1..n)) = 1 * n
        BY <4>2, <4>3, FS_Product
      <4>5. 1 * n = n
        BY <1>2
      <4> QED
        BY <4>1, <4>4, <4>5 DEF Total
    <3>2. /\ [t \in {d.template} |-> replicaSets[t].replicas] = [t \in {d.template} |-> n]
          /\ [t \in {d.template} |-> replicaSets[t].available] = [t \in {d.template} |-> n]
      BY <1>8
    <3> QED
      BY <3>1, <3>2
  <2> QED
    BY <1>4, <1>8, <2>1 DEF StatusOf, TotalAvailable
<1>11. LivingStack
  BY <1>3 DEF LivingStack
<1> QED
  BY <1>4, <1>6, <1>7, <1>8, <1>9, <1>10, <1>11
     DEF OInv, Living, SetTold, DeploymentTold

\* A step that is nobody's
LEMMA StutterKeepsObjects ==
  ASSUME OInv, UNCHANGED vars
  PROVE  OInv'
BY DEF OInv, vars, store, StoreType, KeysType, Living, LivingStack, Unowned, Scaling,
       SetTold, Settled, Counted, DeploymentTold, Dying, DeletingSets, DeletingPodsOf,
       Remaining, Pending

LEMMA NextKeepsObjects ==
  ASSUME OInv, [Next]_vars
  PROVE  OInv'
<1>1. CASE Living
  <2> USE <1>1 DEF OInv
  <2>1. CASE Run
    BY <2>1, RunKeepsLiving
  <2>2. CASE TimerFires \/ ResyncDeployment \/ \E t \in Templates : ResyncReplicaSet(t)
    <3>1. Idle
      BY <2>2 DEF TimerFires, ResyncDeployment, ResyncReplicaSet
    <3> QED
      BY <2>2, <3>1, CallbacksKeepLiving
  <2>3. CASE \E t \in Templates, i \in UNION {DOMAIN pods[u] : u \in Templates} :
               /\ i \in DOMAIN pods[t]
               /\ PodReady(t, i) \/ PodUnready(t, i) \/ PodEnds(t, i) \/ DeletePod(t, i)
    BY <2>3, KubeletsKeepLiving
  <2>4. CASE \/ \E n \in 0..MaxReplicas : Scale(n)
             \/ \E t \in Templates : ChangeTemplate(t)
    BY <2>4, EditsKeepLiving
  <2>5. CASE DeleteDeployment
    BY <2>5, DeletionBegins
  <2>6. \A d \in NewDeployments : ~CreateDeployment(d)
    BY DEF Living, CreateDeployment
  <2>7. CASE UNCHANGED vars
    BY <2>7, StutterKeepsObjects
  <2> QED
    BY <2>1, <2>2, <2>3, <2>4, <2>5, <2>6, <2>7 DEF Next
<1>2. CASE Dying
  <2> USE <1>2 DEF OInv
  <2>1. CASE Run
    BY <2>1, RunKeepsDying
  <2>2. CASE TimerFires \/ ResyncDeployment \/ \E t \in Templates : ResyncReplicaSet(t)
    BY <2>2, CallbacksKeepDying
  <2>3. ASSUME NEW t \in Templates, NEW i \in DOMAIN pods[t],
               PodReady(t, i) \/ PodUnready(t, i) \/ PodEnds(t, i) \/ DeletePod(t, i)
        PROVE  FALSE
    <3>1. Idle
      BY <2>3 DEF PodReady, PodUnready, PodEnds, DeletePod, SetReady, Edit
    <3>2. pods[t] = << >>
      BY <3>1, NothingLeft
    <3> QED
      BY <2>3, <3>2
  <2>4. /\ \A n \in 0..MaxReplicas : ~Scale(n)
        /\ \A t \in Templates : ~ChangeTemplate(t)
        /\ ~DeleteDeployment
    BY DEF Dying, Scale, ChangeTemplate, DeleteDeployment
  <2>5. CASE \E d \in NewDeployments : CreateDeployment(d)
    BY <2>5, CreationBegins
  <2>6. CASE UNCHANGED vars
    BY <2>6, StutterKeepsObjects
  <2> QED
    BY <2>1, <2>2, <2>3, <2>4, <2>5, <2>6 DEF Next
<1> QED
  BY <1>1, <1>2 DEF OInv

-------------------------------------------------------------------------------
(* What is bounded by itself *)

FlagsType ==
  /\ queued \in BOOLEAN /\ timer \in BOOLEAN
  /\ edits \in 0..MaxEdits /\ faults \in 0..MaxFaults

LEMMA QueuedType ==
  ASSUME queued \in BOOLEAN, NEW frame, NEW rest,
         \/ EnqueueDeployment(rest) \/ HandleDeployment(frame, rest)
         \/ PlanStep(frame, rest) \/ DeliverStep(frame, rest)
         \/ DrainDeployments(frame, rest) \/ AfterNext(rest)
  PROVE  queued' \in BOOLEAN
<1>1. \A x : EnqueueDeployment(x) => queued' \in BOOLEAN
  BY DEF EnqueueDeployment
<1>2. \A e, x : HandleDeployment(e, x) => queued' \in BOOLEAN
  BY <1>1 DEF HandleDeployment
<1>3. CASE PlanStep(frame, rest)
  <2>1. queued' = queued \/ \E x : EnqueueDeployment(x)
    BY <1>3, Zenon DEF PlanStep
  <2> QED
    BY <1>1, <2>1
<1>4. CASE DeliverStep(frame, rest)
  <2>1. queued' = queued \/ \E e, x : HandleDeployment(e, x)
    BY <1>4, Zenon DEF DeliverStep
  <2> QED
    BY <1>2, <2>1
<1>5. CASE DrainDeployments(frame, rest)
  BY <1>5 DEF DrainDeployments
<1>6. CASE AfterNext(rest)
  BY <1>1, <1>6 DEF AfterNext
<1> QED
  BY <1>1, <1>2, <1>3, <1>4, <1>5, <1>6

LEMMA FlagsKept ==
  ASSUME FlagsType, [Next]_vars
  PROVE  FlagsType'
<1> USE DEF FlagsType
<1>1. CASE Run
  <2> DEFINE frame == Head(stack)
             rest == Tail(stack)
  <2>1. /\ edits' = edits /\ faults' = faults
        /\ \/ timer' = timer \/ DrainDeployments(frame, rest)
        /\ \/ queued' = queued \/ DeliverStep(frame, rest) \/ PlanStep(frame, rest)
           \/ DrainDeployments(frame, rest) \/ AfterNext(rest)
    BY <1>1, Zenon DEF Run, AfterNext
  <2>2. queued' \in BOOLEAN
    BY <2>1, QueuedType
  <2>3. timer' \in BOOLEAN
    BY <2>1 DEF DrainDeployments
  <2> QED
    BY <2>1, <2>2, <2>3
<1>2. CASE TimerFires
  BY <1>2 DEF TimerFires
<1>3. CASE ResyncDeployment
  BY <1>3, QueuedType DEF ResyncDeployment
<1>4. CASE \E t \in Templates : ResyncReplicaSet(t)
  BY <1>4 DEF ResyncReplicaSet
<1>5. ASSUME NEW t \in Templates, NEW i \in DOMAIN pods[t],
             PodReady(t, i) \/ PodUnready(t, i) \/ PodEnds(t, i)
      PROVE  FlagsType'
  <2>1. /\ queued' = queued /\ timer' = timer /\ edits' = edits
        /\ faults' = faults \/ Fault
    BY <1>5 DEF PodReady, PodUnready, PodEnds, SetReady
  <2> QED
    BY <2>1, SizeAssumption DEF Fault
<1>6. CASE Edit
  BY <1>6, SizeAssumption DEF Edit
<1>7. CASE \/ \E n \in 0..MaxReplicas : Scale(n)
           \/ \E t \in Templates : ChangeTemplate(t)
           \/ \E t \in Templates : \E i \in DOMAIN pods[t] : DeletePod(t, i)
           \/ DeleteDeployment
           \/ \E d \in NewDeployments : CreateDeployment(d)
  BY <1>6, <1>7 DEF Scale, ChangeTemplate, DeletePod, DeleteDeployment, CreateDeployment
<1>8. CASE UNCHANGED vars
  BY <1>8 DEF vars
<1> QED
  BY <1>1, <1>2, <1>3, <1>4, <1>5, <1>7, <1>8 DEF Next

\* The operations on the stack, and of the innermost frame
LEMMA StackOps ==
  ASSUME OInv
  PROVE  /\ \A i \in DOMAIN stack : stack[i].op \in Ops
         /\ Dying /\ stack # << >> => Head(stack).op # "scale"
<1> DEFINE Fine(S) == stack \in Seq(S) /\ \A f \in S : f.op \in Ops
<1>1. ASSUME NEW S, Fine(S) PROVE \A i \in DOMAIN stack : stack[i].op \in Ops
  <2>1. \A i \in DOMAIN stack : stack[i] \in S
    BY <1>1
  <2> QED
    BY <1>1, <2>1
<1>2. CASE Living
  <2> DEFINE C == CalmFrames(KindOf(deploy))
  <2>1. \A f \in C : f.op \in Ops
    BY CalmKinds DEF Ops
  <2> HIDE DEF C
  <2>2. ASSUME stack \in Seq(C) PROVE \A i \in DOMAIN stack : stack[i].op \in Ops
    BY <1>1, <2>1, <2>2
  <2>3. ASSUME NEW rest \in Seq(C), NEW frame, frame.op \in Ops, stack = <<frame>> \o rest
        PROVE  \A i \in DOMAIN stack : stack[i].op \in Ops
    <3> DEFINE S == C \cup {frame}
    <3>1. stack \in Seq(S)
      <4>1. frame \in S /\ rest \in Seq(S)
        OBVIOUS
      <4> HIDE DEF S
      <4> QED
        BY <2>3, <4>1, Stacked
    <3> QED
      BY <1>1, <2>1, <2>3, <3>1
  <2>4. ASSUME NEW rest \in Seq(C), NEW top, NEW frame, frame.op \in Ops, top.op \in Ops,
               stack = <<top>> \o (<<frame>> \o rest)
        PROVE  \A i \in DOMAIN stack : stack[i].op \in Ops
    <3> DEFINE S == C \cup {frame, top}
    <3>1. stack \in Seq(S)
      <4>1. frame \in S /\ top \in S /\ rest \in Seq(S)
        OBVIOUS
      <4> HIDE DEF S
      <4>2. <<frame>> \o rest \in Seq(S)
        BY <4>1, Stacked
      <4> QED
        BY <2>4, <4>1, <4>2, Stacked
    <3> QED
      BY <1>1, <2>1, <2>4, <3>1
  <2>5. \A frame \in CreatingFrames(deploy) : frame.op \in Ops
    BY DEF CreatingFrames, Ops
  <2>6. \A frame \in ScaleFrames : frame.op \in Ops
    BY DEF ScaleFrames, Ops
  <2>7. \A event : Delivery(event, 1).op \in Ops
    BY DEF Delivery, Ops
  <2>8. \/ stack \in Seq(C)
        \/ \E rest \in Seq(C) :
             \/ \E frame \in CreatingFrames(deploy) : stack = <<frame>> \o rest
             \/ \E frame \in ScaleFrames :
                  \/ stack = <<frame>> \o rest
                  \/ \E event : stack = <<Delivery(event, 1)>> \o (<<frame>> \o rest)
    BY <1>2 DEF Living, LivingStack, C
  <2>9. ~Dying
    BY <1>2 DEF Living, Dying
  <2> QED
    BY <2>2, <2>3, <2>4, <2>5, <2>6, <2>7, <2>8, <2>9
<1>3. CASE Dying
  <2> DEFINE Deleting == Ops \ {"scale"}
  <2>1. \A event : Delivery(event, 1).op \in Deleting
    BY DEF Delivery, Ops
  <2>2. \A t : [op |-> "deletePods", template |-> t].op \in Deleting
    BY DEF Ops
  <2>3. \A x : [op |-> "deleteSets", sets |-> x].op \in Deleting
    BY DEF Ops
  <2>4. [op |-> "next"].op \in Deleting
    BY DEF Ops
  <2> HIDE DEF Deleting
  <2> DEFINE Well(frames) == \E S : frames \in Seq(S) /\ \A f \in S : f.op \in Deleting
  <2>5. ASSUME NEW frame, NEW rest, frame.op \in Deleting, Well(rest)
        PROVE  Well(<<frame>> \o rest)
    <3>1. PICK S : rest \in Seq(S) /\ \A f \in S : f.op \in Deleting
      BY <2>5
    <3> DEFINE T == S \cup {frame}
    <3>2. frame \in T /\ rest \in Seq(T) /\ \A f \in T : f.op \in Deleting
      BY <2>5, <3>1
    <3> HIDE DEF T
    <3>3. <<frame>> \o rest \in Seq(T)
      BY <3>2, Stacked
    <3> QED
      BY <3>2, <3>3
  <2>6. Well(<< >>)
    <3> DEFINE S == {}
    <3>1. << >> \in Seq(S) /\ \A f \in S : f.op \in Deleting
      OBVIOUS
    <3> HIDE DEF S
    <3> QED
      BY <3>1, Zenon
  <2>7. \A f : <<f>> = <<f>> \o << >>
    OBVIOUS
  <2> HIDE DEF Well
  <2>8. Well(Remaining)
    BY <2>3, <2>5, <2>6, RemainingIs
  <2>9. \A t : Well(Pending(t))
    BY <2>2, <2>5, <2>8 DEF Pending
  <2>10. Well(stack)
    <3>1. CASE DeletingSets
      BY <2>1, <2>4, <2>5, <2>6, <2>7, <2>8, <3>1 DEF DeletingSets
    <3>2. ASSUME NEW t, DeletingPodsOf(t) PROVE Well(stack)
      BY <2>1, <2>5, <2>8, <2>9, <3>2 DEF DeletingPodsOf
    <3> QED
      BY <1>3, <3>1, <3>2 DEF Dying
  <2>11. PICK S : stack \in Seq(S) /\ \A f \in S : f.op \in Deleting
    BY <2>10 DEF Well
  <2>12. stack # << >> => Head(stack).op \in Deleting
    BY <2>11, Unstacked
  <2>13. \A i \in DOMAIN stack : stack[i].op \in Deleting
    <3>1. \A i \in DOMAIN stack : stack[i] \in S
      BY <2>11
    <3> QED
      BY <2>11, <3>1
  <2> QED
    BY <2>12, <2>13 DEF Deleting
<1> QED
  BY <1>2, <1>3 DEF OInv

-------------------------------------------------------------------------------
(* Theorems *)

\* The invariant of this module, with those it is used with
AllInv == OInv /\ FlagsType /\ IInv

THEOREM Inductive == Spec => []AllInv
<1>1. Init => AllInv
  <2>1. Init => FlagsType
    <3>1. Init => queued = FALSE /\ timer = FALSE /\ edits = 0 /\ faults = 0
      BY Zenon DEF Init
    <3>2. 0 \in 0..MaxEdits /\ 0 \in 0..MaxFaults
      BY SizeAssumption
    <3> QED
      BY <3>1, <3>2, Zenon DEF FlagsType
  <2>2. Init => IInv
    BY EmptyStack DEF Init, IInv, Attended
  <2> QED
    BY <2>1, <2>2, InitObjects DEF AllInv
<1>2. AllInv /\ [Next]_vars => AllInv'
  BY NextKeepsObjects, FlagsKept, NextKeeps DEF AllInv
<1> QED
  BY <1>1, <1>2, PTL DEF Spec

\* Whatever users, kubelets and resyncs do, and in whatever order the two
\* controllers' handlers nest, the numbers the controllers compute and write
\* (replicas of a surge, a scaling down, a rollback, revisions, statuses) are
\* never negative, and no ReplicaSet waits twice in its work queue.
THEOREM TypesHold == Spec => []TypeOK
<1>1. AllInv => TypeOK
  <2> SUFFICES ASSUME AllInv PROVE TypeOK
    OBVIOUS
  <2>1. StoreType /\ KeysType /\ FlagsType
    BY DEF AllInv, OInv
  <2>2. \A i \in DOMAIN stack : stack[i].op \in Ops
    BY StackOps DEF AllInv
  <2>3. \A t \in Templates :
          replicaSets[t] \in ReplicaSets \cup {None} /\ pods[t] \in Seq(BOOLEAN)
    BY <2>1 DEF StoreType, ReadSets
  <2> QED
    BY <2>1, <2>2, <2>3 DEF TypeOK, StoreType, KeysType, FlagsType
<1> QED
  BY <1>1, Inductive, PTL

\* handleDeploymentDeleted and handleReplicaSetDeleted leave nothing behind:
\* when the call that deleted a Deployment has returned no ReplicaSet is left,
\* and no pod whose ReplicaSet is gone, however many pods there were and
\* whatever their deletions were delivered to.
THEOREM NothingIsOrphaned == Spec => []NoOrphans
<1>1. AllInv => NoOrphans
  <2> SUFFICES ASSUME AllInv, Idle
               PROVE  /\ deploy = None => Owned(replicaSets) = {}
                      /\ \A t \in Templates : replicaSets[t] = None => pods[t] = << >>
    BY DEF NoOrphans
  <2>1. CASE Living
    BY <2>1 DEF Living, Unowned
  <2>2. CASE Dying
    BY <2>2, NothingLeft DEF AllInv, OInv
  <2> QED
    BY <2>1, <2>2 DEF AllInv, OInv
<1> QED
  BY <1>1, Inductive, PTL

\* Although both controllers write a status they computed from what they read
\* before their own writes were delivered, every status is right when the call
\* returns: a ReplicaSet's counts its active pods and it has as many as it asks
\* for, and the Deployment's is the sum, unless its queue left a key to a
\* callback.
THEOREM StatusesAreFresh == Spec => []StatusFresh
<1>1. AllInv => StatusFresh
  <2> SUFFICES ASSUME AllInv, Idle
               PROVE  /\ \A t \in Owned(replicaSets) : Settled(t)
                      /\ deploy # None /\ ~timer
                           => deploy.status = StatusOf(deploy, replicaSets)
    BY DEF StatusFresh, Settled
  <2>1. (queued => timer) /\ rsQueue = << >>
    BY EmptyStack DEF AllInv, IInv, Attended, Idle
  <2>2. \A t : ~Contains(rsQueue, t)
    BY <2>1 DEF Contains
  <2>3. CASE Living
    <3>1. \A t \in Owned(replicaSets) : Settled(t)
      BY <2>2, <2>3, IdleTells DEF Living, SetTold
    <3>2. deploy.status = StatusOf(deploy, replicaSets) \/ queued
      BY <2>3, IdleTells DEF Living, DeploymentTold
    <3> QED
      BY <2>1, <3>1, <3>2
  <2>4. CASE Dying
    BY <2>4, NothingLeft DEF AllInv, OInv
  <2> QED
    BY <2>3, <2>4 DEF AllInv, OInv
<1> QED
  BY <1>1, Inductive, PTL

\* The ReplicaSet controller writes a status into the ReplicaSet it read before
\* it created or deleted pods, and this takes nothing back: no event of those
\* pods lets anyone write the specification or the revision in between.
THEOREM StatusWritesKeepSpecs == Spec => StatusWritesAreFresh
<1> DEFINE A == stack # << >> /\ Head(stack).op = "scale" =>
                  \A t \in Owned(replicaSets) :
                    replicaSets'[t].spec = replicaSets[t].spec
                      /\ replicaSets'[t].revision = replicaSets[t].revision
<1>1. AllInv /\ [Next]_vars => A
  <2> SUFFICES ASSUME AllInv, [Next]_vars, stack # << >>, Head(stack).op = "scale",
                      NEW t \in Owned(replicaSets)
               PROVE  /\ replicaSets'[t].spec = replicaSets[t].spec
                      /\ replicaSets'[t].revision = replicaSets[t].revision
    BY Zenon
  <2>1. StoreType /\ Living
    BY StackOps DEF AllInv, OInv
  <2>2. CASE replicaSets' = replicaSets
    BY <2>2
  <2>3. Run \/ replicaSets' = replicaSets
    BY DEF Next, TimerFires, ResyncDeployment, ResyncReplicaSet, PodReady, PodUnready,
           PodEnds, DeletePod, SetReady, Scale, ChangeTemplate, DeleteDeployment,
           CreateDeployment, Edit, Idle, vars, store
  <2>4. CASE Run
    <3> DEFINE C == CalmFrames(KindOf(deploy))
    <3>1. PICK rest \in Seq(C), frame \in ScaleFrames :
            Scaling(frame) /\ stack = <<frame>> \o rest
      <4>1. stack \notin Seq(C)
        <5>1. \A f \in C : f.op # "scale"
          BY CalmKinds
        <5> HIDE DEF C
        <5> QED
          BY <5>1, Unstacked
      <4>2. ASSUME NEW rest \in Seq(C), NEW frame, stack = <<frame>> \o rest
            PROVE  frame.op = "scale"
        <5> HIDE DEF C
        <5> QED
          BY <4>2, Stacked
      <4>3. \A frame \in CreatingFrames(deploy) : frame.op # "scale"
        BY DEF CreatingFrames
      <4>4. ASSUME NEW rest \in Seq(C), NEW frame \in ScaleFrames, NEW event
            PROVE  stack # <<Delivery(event, 1)>> \o (<<frame>> \o rest)
        <5> DEFINE S == C \cup {frame}
                   top == Delivery(event, 1)
        <5>1. top.op # "scale"
          BY DEF Delivery
        <5>2. rest \in Seq(S) /\ frame \in S
          OBVIOUS
        <5> HIDE DEF S, C, top
        <5>3. <<frame>> \o rest \in Seq(S)
          BY <5>2, Stacked
        <5> QED
          BY <5>1, <5>3, Stacked DEF top
      <4> QED
        BY <2>1, <4>1, <4>2, <4>3, <4>4 DEF Living, LivingStack
    <3>2. frame.op = "scale"
      BY DEF ScaleFrames
    <3>3. ScaleStep(frame, rest)
      <4> HIDE DEF C
      <4> QED
        BY <2>4, <3>1, <3>2, RunIs
    <3>4. \/ replicaSets' = replicaSets
          \/ \E new : /\ UpdateReplicaSet(frame.template, new, rest)
                      /\ new.spec = replicaSets[frame.template].spec
                      /\ new.revision = replicaSets[frame.template].revision
      BY <2>1, <3>1, <3>3, ScaleStepIs DEF store
    <3>5. CASE replicaSets' # replicaSets
      <4>1. PICK new : /\ replicaSets' = [replicaSets EXCEPT ![frame.template] = new]
                       /\ new.spec = replicaSets[frame.template].spec
                       /\ new.revision = replicaSets[frame.template].revision
        BY <3>4, <3>5 DEF UpdateReplicaSet, Return, store
      <4>2. t \in DOMAIN replicaSets
        BY <2>1 DEF StoreType, ReadSets, Owned
      <4> QED
        BY <4>1, <4>2
    <3> QED
      BY <2>2, <3>5
  <2> QED
    BY <2>2, <2>3, <2>4
<1> QED
  BY <1>1, Inductive, PTL DEF Spec, StatusWritesAreFresh
===============================================================================
