---------------------------- MODULE PodPlane_proofs ----------------------------
(***************************************************************************)
(* Proofs about PodPlane, for any number of replicas and user actions.     *)
(*                                                                         *)
(* 1. The types of all variables, call stack included, and that no         *)
(* controller is left with keys in its queue: a queue with keys has its    *)
(* drain loop on the stack (IInv).                                         *)
(*                                                                         *)
(* 2. That the status of the set is that of its pods: the frames of the    *)
(* stack are in order, one drain loop per queue and one reconcile of the   *)
(* set at a time (OInv).                                                   *)
(*                                                                         *)
(* 3. With scheduling and start delays, that what is kept under a pod's    *)
(* name is the pod's, that its timers are set, and that its life is that   *)
(* of PodLife.  BInv says what each name has and what each frame may rely  *)
(* on while the stack is not empty; every step changes one name at most,   *)
(* in one of eight ways (Changes), and what it does to the timers, records *)
(* and addresses kept under it goes with that (Effects).                   *)
(*                                                                         *)
(* Most functions of PodPlane are given the part of the stack that stays   *)
(* (rest) and put frames on it: the lemmas below say what each of them     *)
(* keeps of what rest has.                                                 *)
(***************************************************************************)
EXTENDS PodPlane, SequenceTheorems, FiniteSetTheorems, TLAPS

StoreOK ==
  /\ pods \in Named(Pods)
  /\ set \in Sets
  /\ incarnation \in [Ordinals -> Nat]

ComponentsOK ==
  /\ proc \in Named([incarnation : Nat, running : BOOLEAN])
  /\ ipHolder \in Named(Nat)
  /\ bindTimer \in Named(Nat)
  /\ startTimer \in Named(Nat)
  /\ checkTimer \in Named([incarnation : Nat, polls : BOOLEAN])

QueueOK ==
  /\ DOMAIN queue = Controllers
  /\ \A c \in Controllers : queue[c] \in Seq(Keys(c))

StackOK == stack \in Seq(Frames)
AgeOK == age \in [Ordinals -> 0..2]
UsersOK == schedulable \in BOOLEAN /\ edits \in 0..MaxEdits

Types == StoreOK /\ ComponentsOK /\ QueueOK /\ StackOK /\ AgeOK /\ UsersOK

\* A queue with keys is being drained by a frame of the stack.
Drained(frames) == \A c \in Controllers : queue[c] # << >> => Draining(c, frames)

IInv == Types /\ Drained(stack)

\* The next stack is typed and has the drain loops of the given frames.
Keeps(frames) ==
  /\ stack' \in Seq(Frames)
  /\ \A c \in Controllers : Draining(c, frames) => Draining(c, stack')

LEMMA TypesAreTypeOK == Types <=> TypeOK
BY DEF Types, TypeOK, StoreOK, ComponentsOK, QueueOK, StackOK, AgeOK, UsersOK

-------------------------------------------------------------------------------
(* Frames *)

LEMMA Push ==
  ASSUME NEW frame \in Frames, NEW rest \in Seq(Frames)
  PROVE  /\ <<frame>> \o rest \in Seq(Frames)
         /\ \A c : Draining(c, rest) => Draining(c, <<frame>> \o rest)
         /\ \A c : frame.op = "drain" /\ frame.queue = c =>
                     Draining(c, <<frame>> \o rest)
<1> DEFINE s == <<frame>> \o rest
<1>1. <<frame>> \in Seq(Frames)
  OBVIOUS
<1>2. /\ s \in Seq(Frames)
      /\ Len(s) = Len(rest) + 1
      /\ s[1] = frame
      /\ \A i \in 1..Len(rest) : s[i + 1] = rest[i]
  BY <1>1
<1>3. ASSUME NEW c, Draining(c, rest)
      PROVE  Draining(c, s)
  <2>1. PICK i \in 1..Len(rest) : rest[i].op = "drain" /\ rest[i].queue = c
    BY <1>3 DEF Draining
  <2>2. i + 1 \in DOMAIN s /\ s[i + 1] = rest[i]
    BY <1>2
  <2> QED
    BY <2>1, <2>2 DEF Draining
<1>4. 1 \in DOMAIN s
  BY <1>2
<1> QED
  BY <1>2, <1>3, <1>4 DEF Draining

LEMMA Pop ==
  ASSUME NEW frames \in Seq(Frames), frames # << >>
  PROVE  /\ Head(frames) \in Frames
         /\ Tail(frames) \in Seq(Frames)
         /\ \A c : Draining(c, frames) =>
              \/ Draining(c, Tail(frames))
              \/ Head(frames).op = "drain" /\ Head(frames).queue = c
<1>1. /\ Head(frames) \in Frames
      /\ Head(frames) = frames[1]
      /\ Tail(frames) \in Seq(Frames)
      /\ Len(Tail(frames)) = Len(frames) - 1
      /\ \A i \in 1..Len(Tail(frames)) : Tail(frames)[i] = frames[i + 1]
  OBVIOUS
<1>2. ASSUME NEW c, Draining(c, frames), ~Draining(c, Tail(frames))
      PROVE  Head(frames).op = "drain" /\ Head(frames).queue = c
  <2>1. PICK i \in 1..Len(frames) : frames[i].op = "drain" /\ frames[i].queue = c
    BY <1>2 DEF Draining
  <2>2. CASE i = 1
    BY <1>1, <2>1, <2>2
  <2>3. CASE i # 1
    <3>1. i - 1 \in DOMAIN Tail(frames) /\ Tail(frames)[i - 1] = frames[i]
      BY <1>1, <2>3
    <3> QED
      BY <1>2, <2>1, <3>1 DEF Draining
  <2> QED
    BY <2>2, <2>3
<1> QED
  BY <1>1, <1>2

LEMMA NobodyDrainsIdle == \A c : ~Draining(c, << >>)
BY DEF Draining

LEMMA DeliveryFrame ==
  ASSUME NEW event \in Events, NEW i \in Nat \ {0},
         i <= Len(Subscribers(event.type))
  PROVE  Delivery(event, i) \in Frames
<1>1. Len(Subscribers(event.type)) <= 5
  BY DEF Events, Subscribers
<1> QED
  BY <1>1 DEF Delivery, Frames

-------------------------------------------------------------------------------
(* Events, returns and work queues *)

LEMMA EmitKeeps ==
  ASSUME StoreOK, NEW event \in Events, NEW rest \in Seq(Frames),
         Emit(event, rest)
  PROVE  StoreOK' /\ Keeps(rest)
<1>1. 1 <= Len(Subscribers(event.type))
  BY DEF Events, Subscribers
<1>2. Delivery(event, 1) \in Frames
  BY <1>1, DeliveryFrame
<1>3. Keeps(rest)
  BY <1>2, Push DEF Emit, Keeps
<1>4. CASE event.type = "StatefulSetUpdated"
  <2>1. event.set \in Sets
    BY <1>4 DEF Events
  <2>2. set' = event.set /\ pods' = pods /\ incarnation' = incarnation
    BY <1>4 DEF Emit
  <2> QED
    BY <1>3, <2>1, <2>2 DEF StoreOK
<1>5. CASE event.type # "StatefulSetUpdated"
  <2>1. /\ event.type \in {"PodCreated", "PodUpdated", "PodBound", "PodDeleted"}
        /\ event.name \in Ordinals
        /\ event.pod \in Pods
    BY <1>5 DEF Events
  <2>2. CASE event.type = "PodCreated"
    <3>1. /\ pods' = [pods EXCEPT ![event.name] = event.pod]
          /\ incarnation' = [incarnation EXCEPT ![event.name] = @ + 1]
          /\ set' = set
      BY <2>2 DEF Emit
    <3> QED
      BY <1>3, <2>1, <3>1 DEF StoreOK, Named
  <2>3. CASE event.type = "PodUpdated"
    <3>1. /\ pods' = [pods EXCEPT ![event.name] =
                        IF @ = None THEN None ELSE event.pod]
          /\ set' = set /\ incarnation' = incarnation
      BY <2>3 DEF Emit
    <3>2. pods' \in Named(Pods)
      BY <2>1, <3>1 DEF StoreOK, Named
    <3> QED
      BY <1>3, <3>1, <3>2 DEF StoreOK
  <2>4. CASE event.type = "PodDeleted"
    <3>1. /\ pods' = [pods EXCEPT ![event.name] = None]
          /\ set' = set /\ incarnation' = incarnation
      BY <2>4 DEF Emit
    <3> QED
      BY <1>3, <2>1, <3>1 DEF StoreOK, Named
  <2>5. CASE event.type = "PodBound"
    BY <1>3, <2>5 DEF Emit, StoreOK
  <2> QED
    BY <2>1, <2>2, <2>3, <2>4, <2>5
<1> QED
  BY <1>4, <1>5

LEMMA ReturnKeeps ==
  ASSUME StoreOK, NEW rest \in Seq(Frames), Return(rest)
  PROVE  StoreOK' /\ Keeps(rest)
BY DEF Return, StoreOK, Keeps

LEMMA PodEventTyped ==
  ASSUME NEW type \in {"PodCreated", "PodUpdated", "PodBound", "PodDeleted"},
         NEW n \in Ordinals, NEW pod \in Pods
  PROVE  PodEvent(type, n, pod) \in Events
BY DEF PodEvent, Events

\* What is added to a queue is drained: by a new loop, or by one that is there.
LEMMA EnqueueKeeps ==
  ASSUME StoreOK, QueueOK,
         NEW c \in Controllers, NEW key \in Keys(c), NEW rest \in Seq(Frames),
         Drained(rest), Enqueue(c, key, rest)
  PROVE  StoreOK' /\ QueueOK' /\ StackOK' /\ Drained(stack)'
<1> DEFINE known == \E i \in DOMAIN queue[c] : queue[c][i] = key
           added == IF known THEN queue[c] ELSE Append(queue[c], key)
           starts == Len(added) = 1 /\ ~Draining(c, rest)
           loop == [op |-> "drain", queue |-> c]
<1>1. /\ queue' = [queue EXCEPT ![c] = added]
      /\ stack' = IF starts THEN <<loop>> \o rest ELSE rest
      /\ UNCHANGED <<pods, set, incarnation>>
  BY DEF Enqueue, Return
<1>2. queue[c] \in Seq(Keys(c))
  BY DEF QueueOK
<1>3. added \in Seq(Keys(c)) /\ (queue[c] = << >> => added = << >> \/ Len(added) = 1)
  BY <1>2
<1> HIDE DEF added
<1>4. QueueOK'
  BY <1>1, <1>3 DEF QueueOK
<1>5. loop \in Frames /\ loop.op = "drain" /\ loop.queue = c
  BY DEF Frames
<1> HIDE DEF loop
<1>6. /\ StackOK'
      /\ \A d : Draining(d, rest) => Draining(d, stack')
      /\ starts => Draining(c, stack')
  <2>1. CASE starts
    BY <1>1, <1>5, <2>1, Push DEF StackOK
  <2>2. CASE ~starts
    BY <1>1, <2>2 DEF StackOK
  <2> QED
    BY <2>1, <2>2
<1>7. ASSUME NEW d \in Controllers, queue'[d] # << >>
      PROVE  Draining(d, stack')
  <2>1. CASE d # c
    <3>1. queue'[d] = queue[d]
      BY <1>1, <2>1 DEF QueueOK
    <3> QED
      BY <1>6, <1>7, <3>1 DEF Drained
  <2>2. CASE d = c /\ queue[c] # << >>
    BY <1>6, <2>2 DEF Drained
  <2>3. CASE d = c /\ queue[c] = << >>
    <3>1. queue'[c] = added
      BY <1>1 DEF QueueOK
    <3>2. Len(added) = 1
      BY <1>3, <1>7, <2>3, <3>1
    <3>3. starts \/ Draining(c, rest)
      BY <3>2
    <3> QED
      BY <1>6, <2>3, <3>3
  <2> QED
    BY <2>1, <2>2, <2>3
<1>8. StoreOK'
  BY <1>1 DEF StoreOK
<1> QED
  BY <1>4, <1>6, <1>7, <1>8 DEF Drained

\* A function that leaves the queues alone keeps them drained.
LEMMA KeepsDrained ==
  ASSUME QueueOK, NEW rest \in Seq(Frames), Drained(rest), Keeps(rest),
         UNCHANGED queue
  PROVE  QueueOK' /\ StackOK' /\ Drained(stack)'
BY DEF QueueOK, StackOK, Drained, Keeps

-------------------------------------------------------------------------------
(* What the controllers write *)

LEMMA NewPodTyped ==
  ASSUME StoreOK, NEW n \in Ordinals, NEW template \in Templates
  PROVE  NewPod(n, template) \in Pods
<1>1. incarnation[n] + 1 \in Nat \ {0}
  BY DEF StoreOK
<1> QED
  BY <1>1 DEF NewPod, Pods

LEMMA StatusTyped ==
  ASSUME NEW spec \in Specs
  PROVE  SetStatus(spec) \in Statuses
<1>1. IsFiniteSet(Ordinals)
  BY SizeAssumption, FS_Interval DEF Ordinals
<1>2. \A S \in SUBSET Ordinals : Cardinality(S) \in Nat
  BY <1>1, FS_Subset, FS_CardinalityType
<1>3. spec.replicas \in Nat
  BY SizeAssumption DEF Specs
<1>4. /\ {n \in Ordinals : Exists(n) /\ pods[n].ready} \in SUBSET Ordinals
      /\ {n \in Ordinals : Exists(n)} \in SUBSET Ordinals
      /\ {n \in Ordinals : Exists(n) /\ pods[n].template = spec.template}
           \in SUBSET Ordinals
  OBVIOUS
<1> QED
  BY <1>2, <1>3, <1>4 DEF SetStatus, Statuses

LEMMA ExistingPod ==
  ASSUME StoreOK, NEW n \in Ordinals, Exists(n)
  PROVE  pods[n] \in Pods
BY DEF StoreOK, Named, Exists

LEMMA MarkTerminatingKeeps ==
  ASSUME StoreOK, AgeOK, NEW n \in Ordinals, Exists(n), NEW forced \in BOOLEAN,
         NEW rest \in Seq(Frames), MarkTerminating(n, forced, rest)
  PROVE  StoreOK' /\ AgeOK' /\ Keeps(rest)
<1> DEFINE pod == [pods[n] EXCEPT !.terminating = TRUE, !.forced = forced,
                                  !.ready = FALSE]
<1>1. pod \in Pods
  BY ExistingPod DEF Pods
<1>2. PodEvent("PodUpdated", n, pod) \in Events
  BY <1>1, PodEventTyped
<1>3. Emit(PodEvent("PodUpdated", n, pod), rest) /\ age' = [age EXCEPT ![n] = 0]
  BY DEF MarkTerminating
<1>4. StoreOK' /\ Keeps(rest)
  BY <1>2, <1>3, EmitKeeps
<1>5. AgeOK'
  BY <1>3 DEF AgeOK
<1> QED
  BY <1>4, <1>5

LEMMA SetStepKeeps ==
  ASSUME StoreOK, AgeOK, NEW frame \in Frames, frame.op = "set",
         NEW rest \in Seq(Frames), SetStep(frame, rest)
  PROVE  StoreOK' /\ AgeOK' /\ Keeps(rest)
<1> DEFINE n == frame.next
           next == [frame EXCEPT !.next = n + 1]
           after == <<next>> \o rest
<1>1. /\ frame \in [op : {"set"}, read : Named(Pods), set : Sets,
                    next : 0..MaxReplicas]
  BY DEF Frames
<1>2. n \in Ordinals /\ n + 1 \in 0..MaxReplicas
  BY <1>1, SizeAssumption DEF SetStep, Ordinals
<1>3. next \in Frames
  BY <1>1, <1>2 DEF Frames
<1>4. /\ after \in Seq(Frames)
      /\ \A c : Draining(c, rest) => Draining(c, after)
  BY <1>3, Push
<1>5. frame.set.spec.template \in Templates
  BY <1>1 DEF Sets, Specs
<1> HIDE DEF n, next, after
<1>6. CASE Emit(PodEvent("PodCreated", n,
                         NewPod(n, frame.set.spec.template)), after)
             /\ UNCHANGED age
  <2>1. PodEvent("PodCreated", n, NewPod(n, frame.set.spec.template)) \in Events
    BY <1>2, <1>5, NewPodTyped, PodEventTyped
  <2>2. StoreOK' /\ Keeps(after)
    BY <1>4, <1>6, <2>1, EmitKeeps
  <2> QED
    BY <1>4, <1>6, <2>2 DEF Keeps, AgeOK
<1>7. CASE MarkTerminating(n, FALSE, after) /\ Exists(n)
  BY <1>2, <1>4, <1>7, MarkTerminatingKeeps DEF Keeps
<1>8. CASE Return(after) /\ UNCHANGED age
  BY <1>4, <1>8, ReturnKeeps DEF Keeps, AgeOK
<1>9. \/ Emit(PodEvent("PodCreated", n,
                       NewPod(n, frame.set.spec.template)), after)
           /\ UNCHANGED age
      \/ RequestDeletion(n, FALSE, after)
      \/ Return(after) /\ UNCHANGED age
  BY DEF SetStep, n, next, after
<1> QED
  BY <1>6, <1>7, <1>8, <1>9 DEF RequestDeletion

LEMMA SetWriteStatusKeeps ==
  ASSUME StoreOK, NEW frame \in Frames, frame.op = "set",
         NEW rest \in Seq(Frames), SetWriteStatus(frame, rest)
  PROVE  StoreOK' /\ Keeps(rest)
<1> DEFINE status == SetStatus(frame.set.spec)
           new == [frame.set EXCEPT !.status = status]
<1>1. frame.set \in Sets
  BY DEF Frames
<1>2. status \in Statuses
  BY <1>1, StatusTyped DEF Sets
<1> HIDE DEF status
<1>3. new \in Sets
  BY <1>1, <1>2 DEF Sets
<1>4. SetEvent(new) \in Events
  BY <1>3 DEF SetEvent, Events
<1>5. Return(rest) \/ Emit(SetEvent(new), rest)
  BY DEF SetWriteStatus, status
<1> QED
  BY <1>4, <1>5, EmitKeeps, ReturnKeeps

LEMMA BindOnceKeeps ==
  ASSUME StoreOK, NEW n \in Ordinals, NEW pod \in Pods,
         NEW rest \in Seq(Frames), BindOnce(n, pod, rest)
  PROVE  StoreOK' /\ Keeps(rest)
<1> DEFINE boundPod == [pod EXCEPT !.bound = TRUE]
           frame == [op |-> "bound", name |-> n, pod |-> boundPod]
<1>1. boundPod \in Pods
  BY DEF Pods
<1> HIDE DEF boundPod
<1>2. frame \in Frames
  BY <1>1 DEF Frames
<1> HIDE DEF frame
<1>3. PodEvent("PodUpdated", n, boundPod) \in Events
  BY <1>1, PodEventTyped
<1>4. /\ <<frame>> \o rest \in Seq(Frames)
      /\ \A c : Draining(c, rest) => Draining(c, <<frame>> \o rest)
  BY <1>2, Push
<1>5. \/ Emit(PodEvent("PodUpdated", n, boundPod), <<frame>> \o rest)
      \/ Return(rest)
  BY DEF BindOnce, boundPod, frame
<1> QED
  BY <1>3, <1>4, <1>5, EmitKeeps, ReturnKeeps DEF Keeps

LEMMA EmitRunningKeeps ==
  ASSUME StoreOK, ComponentsOK, NEW n \in Ordinals, NEW pod \in Pods,
         NEW rest \in Seq(Frames), EmitRunning(n, pod, rest)
  PROVE  /\ StoreOK' /\ Keeps(rest)
         /\ proc' \in Named([incarnation : Nat, running : BOOLEAN])
<1> DEFINE dead == HasProcess(pod) /\ proc[n] # None /\ ~ProcessRuns(n)
           new == [pod EXCEPT !.phase = "Running", !.ready = ~dead]
           record == [incarnation |-> pod.incarnation, running |-> TRUE]
<1>1. (~dead) \in BOOLEAN
  OBVIOUS
<1>2. new \in Pods
  <2> HIDE DEF dead
  <2> QED
    BY <1>1 DEF Pods
<1>3. Emit(PodEvent("PodUpdated", n, new), rest)
  BY DEF EmitRunning
<1> HIDE DEF new
<1>4. StoreOK' /\ Keeps(rest)
  BY <1>2, <1>3, PodEventTyped, EmitKeeps
<1>5. record \in [incarnation : Nat, running : BOOLEAN]
  BY DEF Pods
<1> HIDE DEF record
<1>6. proc' = [proc EXCEPT ![n] = record] \/ proc' = proc
  BY DEF EmitRunning, record
<1>7. proc' \in Named([incarnation : Nat, running : BOOLEAN])
  BY <1>5, <1>6 DEF ComponentsOK, Named
<1> QED
  BY <1>4, <1>7

LEMMA ArmStartKeeps ==
  ASSUME StoreOK, ComponentsOK, NEW n \in Ordinals, NEW pod \in Pods,
         NEW rest \in Seq(Frames), ArmStart(n, pod, rest)
  PROVE  /\ StoreOK' /\ Keeps(rest)
         /\ proc' \in Named([incarnation : Nat, running : BOOLEAN])
         /\ startTimer' \in Named(Nat)
<1>1. CASE Delays
  <2>1. /\ startTimer' = [startTimer EXCEPT ![n] = pod.incarnation]
        /\ Return(rest)
        /\ proc' = proc
    BY <1>1 DEF ArmStart
  <2>2. pod.incarnation \in Nat
    BY DEF Pods
  <2>3. startTimer' \in Named(Nat)
    BY <2>1, <2>2 DEF ComponentsOK, Named
  <2> QED
    BY <2>1, <2>3, ReturnKeeps DEF ComponentsOK
<1>2. CASE ~Delays
  BY <1>2, EmitRunningKeeps DEF ArmStart, ComponentsOK
<1> QED
  BY <1>1, <1>2

-------------------------------------------------------------------------------
(* Reconciliations *)

LEMMA ReconcileSetKeeps ==
  ASSUME StoreOK, ComponentsOK, StackOK, AgeOK, ReconcileSet
  PROVE  StoreOK' /\ ComponentsOK' /\ AgeOK' /\ Keeps(stack)
<1> DEFINE frame == [op |-> "set", read |-> pods, set |-> set, next |-> 0]
<1>1. frame \in Frames
  BY SizeAssumption DEF Frames, StoreOK
<1> HIDE DEF frame
<1>2. /\ stack' = <<frame>> \o stack
      /\ UNCHANGED <<pods, set, incarnation, age, components>>
  BY DEF ReconcileSet, frame
<1>3. Keeps(stack)
  BY <1>1, <1>2, Push DEF StackOK, Keeps
<1> QED
  BY <1>2, <1>3 DEF StoreOK, ComponentsOK, AgeOK, components

LEMMA ReconcileSchedulingKeeps ==
  ASSUME StoreOK, ComponentsOK, StackOK, AgeOK, NEW n \in Ordinals,
         ReconcileScheduling(n)
  PROVE  StoreOK' /\ ComponentsOK' /\ AgeOK' /\ Keeps(stack)
<1>1. /\ UNCHANGED <<proc, ipHolder, startTimer, checkTimer, age>>
      /\ \/ Exists(n) /\ Return(stack) /\ UNCHANGED bindTimer
         \/ /\ Exists(n) /\ Return(stack)
            /\ bindTimer' = [bindTimer EXCEPT ![n] = pods[n].incarnation]
         \/ Exists(n) /\ BindOnce(n, pods[n], stack) /\ UNCHANGED bindTimer
         \/ bindTimer' = [bindTimer EXCEPT ![n] = None] /\ Return(stack)
  BY DEF ReconcileScheduling
<1>2. StoreOK' /\ Keeps(stack)
  BY <1>1, ExistingPod, ReturnKeeps, BindOnceKeeps DEF StackOK
<1>3. Exists(n) => pods[n].incarnation \in Nat
  BY ExistingPod DEF Pods
<1>4. bindTimer' \in Named(Nat)
  BY <1>1, <1>3 DEF ComponentsOK, Named
<1> QED
  BY <1>1, <1>2, <1>4 DEF ComponentsOK, AgeOK

LEMMA ReconcileStartKeeps ==
  ASSUME StoreOK, ComponentsOK, StackOK, AgeOK, NEW n \in Ordinals,
         ReconcileStart(n)
  PROVE  StoreOK' /\ ComponentsOK' /\ AgeOK' /\ Keeps(stack)
<1> DEFINE new == [pods[n] EXCEPT !.creating = TRUE]
           frame == [op |-> "arm", name |-> n, pod |-> pods[n]]
           Sound == /\ StoreOK' /\ Keeps(stack)
                    /\ proc' \in Named([incarnation : Nat, running : BOOLEAN])
                    /\ startTimer' \in Named(Nat)
<1>1. UNCHANGED <<ipHolder, bindTimer, checkTimer, age>>
  BY DEF ReconcileStart
<1>2. ASSUME Exists(n), ArmStart(n, pods[n], stack)
      PROVE  Sound
  BY <1>2, ExistingPod, ArmStartKeeps DEF StackOK
<1>3. ASSUME Exists(n),
             Emit(PodEvent("PodUpdated", n, new), <<frame>> \o stack),
             UNCHANGED <<startTimer, proc>>
      PROVE  Sound
  <2>1. pods[n] \in Pods
    BY <1>3, ExistingPod
  <2>2. new \in Pods /\ frame \in Frames
    BY <2>1 DEF Pods, Frames
  <2> HIDE DEF new, frame
  <2>3. /\ <<frame>> \o stack \in Seq(Frames)
        /\ \A c : Draining(c, stack) => Draining(c, <<frame>> \o stack)
    BY <2>2, Push DEF StackOK
  <2>4. StoreOK' /\ Keeps(<<frame>> \o stack)
    BY <1>3, <2>2, <2>3, PodEventTyped, EmitKeeps
  <2> QED
    BY <1>3, <2>3, <2>4 DEF Keeps, ComponentsOK
<1>4. ASSUME Return(stack), UNCHANGED <<startTimer, proc>>
      PROVE  Sound
  BY <1>4, ReturnKeeps DEF StackOK, ComponentsOK
<1>5. ASSUME startTimer' = [startTimer EXCEPT ![n] = None],
             Return(stack), UNCHANGED proc
      PROVE  Sound
  <2>1. startTimer' \in Named(Nat)
    BY <1>5 DEF ComponentsOK, Named
  <2> QED
    BY <1>5, <2>1, ReturnKeeps DEF StackOK, ComponentsOK
<1>6. Sound
  <2>1. \/ Exists(n) /\ ArmStart(n, pods[n], stack)
        \/ /\ Exists(n)
           /\ Emit(PodEvent("PodUpdated", n, new), <<frame>> \o stack)
           /\ UNCHANGED <<startTimer, proc>>
        \/ Return(stack) /\ UNCHANGED <<startTimer, proc>>
        \/ /\ startTimer' = [startTimer EXCEPT ![n] = None]
           /\ Return(stack) /\ UNCHANGED proc
    BY DEF ReconcileStart, MayStart
  <2> HIDE DEF Sound, new, frame
  <2> QED
    BY <1>2, <1>3, <1>4, <1>5, <2>1
<1> QED
  BY <1>1, <1>6 DEF ComponentsOK, AgeOK

LEMMA ReconcileTerminationKeeps ==
  ASSUME StoreOK, ComponentsOK, StackOK, AgeOK, NEW n \in Ordinals,
         ReconcileTermination(n)
  PROVE  StoreOK' /\ ComponentsOK' /\ AgeOK' /\ Keeps(stack)
<1>1. /\ UNCHANGED <<proc, ipHolder, bindTimer, startTimer, age>>
      /\ \/ /\ Exists(n) /\ Emit(PodEvent("PodDeleted", n, pods[n]), stack)
            /\ checkTimer' = [checkTimer EXCEPT ![n] = None]
         \/ /\ Exists(n) /\ Return(stack)
            /\ checkTimer' = [checkTimer EXCEPT ![n] = NextCheck(n)]
         \/ checkTimer' = [checkTimer EXCEPT ![n] = None] /\ Return(stack)
  BY DEF ReconcileTermination
<1>2. StoreOK' /\ Keeps(stack)
  BY <1>1, ExistingPod, PodEventTyped, ReturnKeeps, EmitKeeps DEF StackOK
<1>3. ASSUME Exists(n)
      PROVE  NextCheck(n) \in [incarnation : Nat, polls : BOOLEAN]
  <2>1. pods[n].incarnation \in Nat
    BY <1>3, ExistingPod DEF Pods
  <2>2. ProcessRuns(n) \in BOOLEAN
    <3>1. proc[n] # None => proc[n].running \in BOOLEAN
      BY DEF ComponentsOK, Named
    <3> QED
      BY <3>1 DEF ProcessRuns
  <2> QED
    BY <2>1, <2>2 DEF NextCheck
<1>4. checkTimer' \in Named([incarnation : Nat, polls : BOOLEAN])
  BY <1>1, <1>3 DEF ComponentsOK, Named
<1> QED
  BY <1>1, <1>2, <1>4 DEF ComponentsOK, AgeOK

-------------------------------------------------------------------------------
(* The frames of the stack *)

\* One turn of a drain loop; the loop ends when its queue is empty.
LEMMA DrainKeeps ==
  ASSUME IInv, stack # << >>, Head(stack).op = "drain",
         Drain(Head(stack), Tail(stack))
  PROVE  /\ StoreOK' /\ ComponentsOK' /\ QueueOK' /\ StackOK' /\ AgeOK'
         /\ Drained(stack)'
<1> DEFINE c == Head(stack).queue
<1> USE DEF IInv, Types
<1>1. /\ Head(stack) \in Frames /\ Tail(stack) \in Seq(Frames)
      /\ \A d : Draining(d, stack) => Draining(d, Tail(stack)) \/ c = d
  BY Pop DEF StackOK
<1>2. c \in Controllers
  BY <1>1 DEF Frames
<1> HIDE DEF c
<1>3. CASE queue[c] = << >>
  <2>1. Return(Tail(stack)) /\ UNCHANGED <<components, queue, age>>
    BY <1>3 DEF Drain, c
  <2>2. StoreOK' /\ Keeps(Tail(stack))
    BY <1>1, <2>1, ReturnKeeps
  <2>3. Drained(Tail(stack))
    BY <1>1, <1>3 DEF Drained
  <2>4. QueueOK' /\ StackOK' /\ Drained(stack)'
    BY <1>1, <2>1, <2>2, <2>3, KeepsDrained
  <2> QED
    BY <2>1, <2>2, <2>4 DEF ComponentsOK, AgeOK, components
<1>4. CASE queue[c] # << >>
  <2>1. /\ queue[c] \in Seq(Keys(c))
        /\ Head(queue[c]) \in Keys(c) /\ Tail(queue[c]) \in Seq(Keys(c))
    BY <1>2, <1>4 DEF QueueOK
  <2>2. queue' = [queue EXCEPT ![c] = Tail(queue[c])]
    BY <1>4 DEF Drain, c
  <2>3. StoreOK' /\ ComponentsOK' /\ AgeOK' /\ Keeps(stack)
    <3>1. CASE c = "StatefulSet"
      BY <1>4, <3>1, ReconcileSetKeeps DEF Drain, c
    <3>2. CASE c # "StatefulSet"
      <4>1. Head(queue[c]) \in Ordinals
        BY <2>1, <3>2 DEF Keys
      <4>2. \/ ReconcileScheduling(Head(queue[c]))
            \/ ReconcileStart(Head(queue[c]))
            \/ ReconcileTermination(Head(queue[c]))
        <5>1. CASE c = "Scheduler"
          BY <1>4, <5>1 DEF Drain, c
        <5>2. CASE c = "PodLifecycle"
          BY <1>4, <5>2 DEF Drain, c
        <5>3. CASE c = "PodTermination"
          BY <1>4, <5>3 DEF Drain, c
        <5> QED
          BY <1>2, <3>2, <5>1, <5>2, <5>3 DEF Controllers
      <4> QED
        BY <4>1, <4>2, ReconcileSchedulingKeeps, ReconcileStartKeeps,
           ReconcileTerminationKeeps
    <3> QED
      BY <3>1, <3>2
  <2>4. QueueOK'
    BY <2>1, <2>2 DEF QueueOK
  <2>5. \A d \in Controllers : queue'[d] # << >> => queue[d] # << >>
    BY <1>4, <2>2 DEF QueueOK
  <2>6. StackOK' /\ Drained(stack)'
    BY <2>3, <2>5 DEF Keeps, StackOK, Drained
  <2> QED
    BY <2>3, <2>4, <2>6
<1> QED
  BY <1>3, <1>4

-------------------------------------------------------------------------------
(* Deliveries: what each subscriber keeps *)

Served == StoreOK /\ ComponentsOK /\ QueueOK /\ StackOK /\ Drained(stack)

PodEvents ==
  [type : {"PodCreated", "PodUpdated", "PodBound", "PodDeleted"},
   name : Ordinals, pod : Pods]

LEMMA HandleSchedulerKeeps ==
  ASSUME StoreOK, ComponentsOK, QueueOK, NEW event \in PodEvents,
         NEW rest \in Seq(Frames), Drained(rest), HandleScheduler(event, rest)
  PROVE  Served'
<1>1. /\ event.name \in Ordinals /\ event.pod \in Pods
  BY DEF PodEvents
<1>2. /\ UNCHANGED <<proc, ipHolder, startTimer, checkTimer>>
      /\ \/ /\ bindTimer' = [bindTimer EXCEPT ![event.name] = None]
            /\ Return(rest) /\ UNCHANGED queue
         \/ Enqueue("Scheduler", event.name, rest) /\ UNCHANGED bindTimer
         \/ Return(rest) /\ UNCHANGED bindTimer /\ UNCHANGED queue
  BY DEF HandleScheduler
<1>3. \/ Enqueue("Scheduler", event.name, rest)
      \/ Return(rest) /\ UNCHANGED queue
  BY <1>2
<1>4. StoreOK' /\ QueueOK' /\ StackOK' /\ Drained(stack)'
  <2>1. CASE Enqueue("Scheduler", event.name, rest)
    <3>1. event.name \in Keys("Scheduler")
      BY <1>1 DEF Keys
    <3> QED
      BY <2>1, <3>1, EnqueueKeeps DEF Controllers
  <2>2. CASE Return(rest) /\ UNCHANGED queue
    BY <2>2, ReturnKeeps, KeepsDrained
  <2> QED
    BY <1>3, <2>1, <2>2
<1>5. ComponentsOK'
  BY <1>1, <1>2 DEF ComponentsOK, Named
<1> QED
  BY <1>4, <1>5 DEF Served

LEMMA HandleLifecycleKeeps ==
  ASSUME StoreOK, ComponentsOK, QueueOK, NEW event \in PodEvents,
         NEW rest \in Seq(Frames), Drained(rest), HandleLifecycle(event, rest)
  PROVE  Served'
<1>1. /\ event.name \in Ordinals /\ event.pod \in Pods
  BY DEF PodEvents
<1>2. /\ UNCHANGED <<ipHolder, bindTimer, checkTimer>>
      /\ \/ /\ startTimer' = [startTimer EXCEPT ![event.name] = None]
            /\ proc' = [proc EXCEPT ![event.name] = None] \/ proc' = proc
            /\ Return(rest) /\ UNCHANGED queue
         \/ Enqueue("PodLifecycle", event.name, rest)
              /\ UNCHANGED <<startTimer, proc>>
         \/ Return(rest) /\ UNCHANGED <<startTimer, proc>>
              /\ UNCHANGED queue
  BY DEF HandleLifecycle
<1>3. \/ Enqueue("PodLifecycle", event.name, rest)
      \/ Return(rest) /\ UNCHANGED queue
  BY <1>2
<1>4. StoreOK' /\ QueueOK' /\ StackOK' /\ Drained(stack)'
  <2>1. CASE Enqueue("PodLifecycle", event.name, rest)
    <3>1. event.name \in Keys("PodLifecycle")
      BY <1>1 DEF Keys
    <3> QED
      BY <2>1, <3>1, EnqueueKeeps DEF Controllers
  <2>2. CASE Return(rest) /\ UNCHANGED queue
    BY <2>2, ReturnKeeps, KeepsDrained
  <2> QED
    BY <1>3, <2>1, <2>2
<1>5. ComponentsOK'
  BY <1>1, <1>2 DEF ComponentsOK, Named
<1> QED
  BY <1>4, <1>5 DEF Served

LEMMA HandleTerminationKeeps ==
  ASSUME StoreOK, ComponentsOK, QueueOK, NEW event \in PodEvents,
         NEW rest \in Seq(Frames), Drained(rest), HandleTermination(event, rest)
  PROVE  Served'
<1>1. /\ event.name \in Ordinals /\ event.pod \in Pods
  BY DEF PodEvents
<1>2. /\ UNCHANGED <<proc, ipHolder, bindTimer, startTimer>>
      /\ \/ /\ checkTimer' = [checkTimer EXCEPT ![event.name] = None]
            /\ Return(rest) /\ UNCHANGED queue
         \/ Enqueue("PodTermination", event.name, rest) /\ UNCHANGED checkTimer
         \/ Return(rest) /\ UNCHANGED checkTimer /\ UNCHANGED queue
  BY DEF HandleTermination
<1>3. \/ Enqueue("PodTermination", event.name, rest)
      \/ Return(rest) /\ UNCHANGED queue
  BY <1>2
<1>4. StoreOK' /\ QueueOK' /\ StackOK' /\ Drained(stack)'
  <2>1. CASE Enqueue("PodTermination", event.name, rest)
    <3>1. event.name \in Keys("PodTermination")
      BY <1>1 DEF Keys
    <3> QED
      BY <2>1, <3>1, EnqueueKeeps DEF Controllers
  <2>2. CASE Return(rest) /\ UNCHANGED queue
    BY <2>2, ReturnKeeps, KeepsDrained
  <2> QED
    BY <1>3, <2>1, <2>2
<1>5. ComponentsOK'
  BY <1>1, <1>2 DEF ComponentsOK, Named
<1> QED
  BY <1>4, <1>5 DEF Served

LEMMA HandleSetKeeps ==
  ASSUME StoreOK, ComponentsOK, QueueOK, NEW event,
         NEW rest \in Seq(Frames), Drained(rest), HandleSet(event, rest)
  PROVE  Served'
<1>1. "set" \in Keys("StatefulSet") /\ "StatefulSet" \in Controllers
  BY DEF Keys, Controllers
<1>2. Enqueue("StatefulSet", "set", rest) /\ UNCHANGED components
  BY DEF HandleSet
<1>3. StoreOK' /\ QueueOK' /\ StackOK' /\ Drained(stack)'
  BY <1>1, <1>2, EnqueueKeeps
<1> QED
  BY <1>2, <1>3 DEF Served, ComponentsOK, components

LEMMA HandlePodIpKeeps ==
  ASSUME StoreOK, ComponentsOK, QueueOK, NEW event \in PodEvents,
         NEW rest \in Seq(Frames), Drained(rest), HandlePodIp(event, rest)
  PROVE  Served'
<1> DEFINE new == [event.pod EXCEPT !.ip = TRUE]
<1>1. /\ event.name \in Ordinals /\ event.pod \in Pods
      /\ event.pod.incarnation \in Nat
  BY DEF PodEvents, Pods
<1>2. new \in Pods
  BY <1>1 DEF Pods
<1>3. UNCHANGED <<proc, bindTimer, startTimer, checkTimer, queue>>
  BY DEF HandlePodIp
<1>4. /\ \/ Return(rest)
         \/ Emit(PodEvent("PodUpdated", event.name, new), rest)
      /\ \/ ipHolder' = [ipHolder EXCEPT ![event.name] = None]
         \/ ipHolder' = [ipHolder EXCEPT ![event.name] = event.pod.incarnation]
         \/ ipHolder' = ipHolder
  BY DEF HandlePodIp
<1> HIDE DEF new
<1>5. StoreOK' /\ Keeps(rest)
  BY <1>1, <1>2, <1>4, PodEventTyped, EmitKeeps, ReturnKeeps
<1>6. QueueOK' /\ StackOK' /\ Drained(stack)'
  BY <1>3, <1>5, KeepsDrained
<1>7. ComponentsOK'
  BY <1>1, <1>3, <1>4 DEF ComponentsOK, Named
<1> QED
  BY <1>5, <1>6, <1>7 DEF Served

LEMMA DeliverKeeps ==
  ASSUME IInv, stack # << >>, Head(stack).op = "deliver",
         Deliver(Head(stack), Tail(stack))
  PROVE  Served' /\ AgeOK'
<1> DEFINE frame == Head(stack)
           rest == Tail(stack)
           to == Subscribers(frame.event.type)
           after == IF frame.to = Len(to) THEN rest
                    ELSE <<Delivery(frame.event, frame.to + 1)>> \o rest
           subscriber == to[frame.to]
<1> USE DEF IInv, Types
<1>1. /\ frame \in Frames /\ rest \in Seq(Frames)
      /\ Drained(rest)
  BY Pop DEF StackOK, Drained
<1>2. /\ frame.event \in Events /\ frame.to \in 1..5 /\ frame.to <= Len(to)
  BY <1>1 DEF Frames
<1> HIDE DEF frame, rest
<1>3. after \in Seq(Frames) /\ Drained(after)
  <2>1. CASE frame.to = Len(to)
    BY <1>1, <2>1
  <2>2. CASE frame.to # Len(to)
    <3>1. Len(to) \in Nat
      BY <1>2 DEF Events, Subscribers
    <3>2. frame.to + 1 \in Nat \ {0} /\ frame.to + 1 <= Len(to)
      BY <1>2, <2>2, <3>1
    <3>3. Delivery(frame.event, frame.to + 1) \in Frames
      BY <1>2, <3>2, DeliveryFrame
    <3> QED
      BY <1>1, <2>2, <3>3, Push DEF Drained
  <2> QED
    BY <2>1, <2>2
<1> HIDE DEF after
<1>4. UNCHANGED age
  BY DEF Deliver
<1>5. CASE subscriber = "StatefulSet"
  <2>1. HandleSet(frame.event, after)
    BY <1>5 DEF Deliver, frame, rest, after
  <2> QED
    BY <1>3, <1>4, <2>1, HandleSetKeeps DEF AgeOK
<1>6. CASE subscriber # "StatefulSet"
  <2>1. /\ frame.event.type # "StatefulSetUpdated"
        /\ subscriber \in {"Scheduler", "PodLifecycle", "PodTermination", "PodIp"}
    BY <1>2, <1>6 DEF Events, Subscribers
  <2>2. frame.event \in PodEvents
    BY <1>2, <2>1 DEF Events, PodEvents
  <2>3. CASE subscriber = "Scheduler"
    <3>1. HandleScheduler(frame.event, after)
      BY <2>3 DEF Deliver, frame, rest, after
    <3> QED
      BY <1>3, <1>4, <2>2, <3>1, HandleSchedulerKeeps DEF AgeOK
  <2>4. CASE subscriber = "PodLifecycle"
    <3>1. HandleLifecycle(frame.event, after)
      BY <2>4 DEF Deliver, frame, rest, after
    <3> QED
      BY <1>3, <1>4, <2>2, <3>1, HandleLifecycleKeeps DEF AgeOK
  <2>5. CASE subscriber = "PodTermination"
    <3>1. HandleTermination(frame.event, after)
      BY <2>5 DEF Deliver, frame, rest, after
    <3> QED
      BY <1>3, <1>4, <2>2, <3>1, HandleTerminationKeeps DEF AgeOK
  <2>6. CASE subscriber = "PodIp"
    <3>1. HandlePodIp(frame.event, after)
      BY <2>6 DEF Deliver, frame, rest, after
    <3> QED
      BY <1>3, <1>4, <2>2, <3>1, HandlePodIpKeeps DEF AgeOK
  <2> QED
    BY <2>1, <2>3, <2>4, <2>5, <2>6
<1> QED
  BY <1>5, <1>6

-------------------------------------------------------------------------------
(* The innermost frame runs on *)

\* What is left when a frame that is not a drain loop is taken off the stack
LEMMA TopFrame ==
  ASSUME IInv, stack # << >>, Head(stack).op # "drain"
  PROVE  /\ Head(stack) \in Frames
         /\ Tail(stack) \in Seq(Frames)
         /\ Drained(Tail(stack))
BY Pop DEF IInv, Types, StackOK, Drained

LEMMA SyncKeeps ==
  ASSUME IInv, stack # << >>, Head(stack).op = "sync",
         SyncStep(Head(stack), Tail(stack))
  PROVE  Served' /\ AgeOK'
<1> DEFINE frame == Head(stack)
           rest == Tail(stack)
           less(n) == [frame EXCEPT !.keys = @ \ {n}]
           after(n) == IF frame.keys = {n} THEN rest ELSE <<less(n)>> \o rest
<1> USE DEF IInv, Types
<1>1. frame \in Frames /\ rest \in Seq(Frames) /\ Drained(rest)
  BY TopFrame
<1>2. frame \in [op : {"sync"}, queue : {"Scheduler", "PodLifecycle"},
                keys : SUBSET Ordinals]
  BY <1>1 DEF Frames
<1>3. PICK n \in frame.keys : Enqueue(frame.queue, n, after(n))
  BY DEF SyncStep
<1>4. UNCHANGED <<components, age>>
  BY DEF SyncStep
<1> HIDE DEF frame, rest
<1>5. less(n) \in Frames
  BY <1>2 DEF Frames
<1> HIDE DEF less
<1>6. after(n) \in Seq(Frames) /\ Drained(after(n))
  BY <1>1, <1>5, Push DEF Drained
<1>7. frame.queue \in Controllers /\ n \in Keys(frame.queue)
  BY <1>2 DEF Controllers, Keys
<1> HIDE DEF after
<1>8. StoreOK' /\ QueueOK' /\ StackOK' /\ Drained(stack)'
  BY <1>3, <1>6, <1>7, EnqueueKeeps
<1> QED
  BY <1>4, <1>8 DEF Served, ComponentsOK, AgeOK, components

LEMMA RunKeeps ==
  ASSUME IInv, Run
  PROVE  IInv'
<1> DEFINE frame == Head(stack)
           rest == Tail(stack)
<1> USE DEF IInv, Types
<1>1. stack # << >> /\ UNCHANGED <<schedulable, edits>>
  BY DEF Run
<1>2. UsersOK'
  BY <1>1 DEF UsersOK
<1>3. ASSUME frame.op # "drain", StoreOK', Keeps(rest), UNCHANGED queue,
             AgeOK', ComponentsOK'
      PROVE  IInv'
  <2>1. rest \in Seq(Frames) /\ Drained(rest)
    BY <1>1, <1>3, TopFrame
  <2>2. QueueOK' /\ StackOK' /\ Drained(stack)'
    BY <1>3, <2>1, KeepsDrained
  <2> QED
    BY <1>2, <1>3, <2>2
<1>4. frame.op # "drain" => frame \in Frames /\ rest \in Seq(Frames)
  BY <1>1, TopFrame
<1>5. CASE frame.op = "deliver" /\ Deliver(frame, rest)
  BY <1>1, <1>2, <1>5, DeliverKeeps DEF Served
<1>6. CASE frame.op = "drain" /\ Drain(frame, rest)
  BY <1>1, <1>2, <1>6, DrainKeeps
<1>7. CASE frame.op = "set" /\ SetStep(frame, rest)
  <2>1. StoreOK' /\ AgeOK' /\ Keeps(rest)
    BY <1>4, <1>7, SetStepKeeps
  <2>2. UNCHANGED <<components, queue>>
    BY <1>7 DEF SetStep
  <2> QED
    BY <1>3, <1>7, <2>1, <2>2 DEF ComponentsOK, components
<1>8. CASE frame.op = "set" /\ SetWriteStatus(frame, rest)
  <2>1. StoreOK' /\ Keeps(rest)
    BY <1>4, <1>8, SetWriteStatusKeeps
  <2>2. UNCHANGED <<components, queue, age>>
    BY <1>8 DEF SetWriteStatus
  <2> QED
    BY <1>3, <1>8, <2>1, <2>2 DEF ComponentsOK, components, AgeOK
<1>9. CASE frame.op = "bound" /\ BoundStep(frame, rest)
  <2>1. frame.name \in Ordinals /\ frame.pod \in Pods
    BY <1>4, <1>9 DEF Frames
  <2>2. /\ Emit(PodEvent("PodBound", frame.name, frame.pod), rest)
        /\ UNCHANGED <<components, queue, age>>
    BY <1>9 DEF BoundStep
  <2>3. StoreOK' /\ Keeps(rest)
    BY <1>4, <1>9, <2>1, <2>2, PodEventTyped, EmitKeeps
  <2> QED
    BY <1>3, <1>9, <2>2, <2>3 DEF ComponentsOK, components, AgeOK
<1>10. CASE frame.op = "arm" /\ ArmStep(frame, rest)
  <2>1. frame.name \in Ordinals /\ frame.pod \in Pods
    BY <1>4, <1>10 DEF Frames
  <2>2. /\ ArmStart(frame.name, frame.pod, rest)
        /\ UNCHANGED <<ipHolder, bindTimer, checkTimer, queue, age>>
    BY <1>10 DEF ArmStep
  <2>3. /\ StoreOK' /\ Keeps(rest)
        /\ proc' \in Named([incarnation : Nat, running : BOOLEAN])
        /\ startTimer' \in Named(Nat)
    BY <1>4, <1>10, <2>1, <2>2, ArmStartKeeps
  <2> QED
    BY <1>3, <1>10, <2>2, <2>3 DEF ComponentsOK, AgeOK
<1>11. CASE frame.op = "sync" /\ SyncStep(frame, rest)
  BY <1>1, <1>2, <1>11, SyncKeeps DEF Served
<1> QED
  BY <1>5, <1>6, <1>7, <1>8, <1>9, <1>10, <1>11 DEF Run

-------------------------------------------------------------------------------
(* Callbacks and users, on an empty stack *)

LEMMA IdleIsDrained ==
  ASSUME IInv, Idle
  PROVE  /\ \A c \in Controllers : queue[c] = << >>
         /\ << >> \in Seq(Frames) /\ Drained(<< >>)
BY NobodyDrainsIdle DEF IInv, Drained, Idle

LEMMA IdleKeeps ==
  ASSUME IInv, Idle, StoreOK', Keeps(<< >>), UNCHANGED queue,
         ComponentsOK', AgeOK', UsersOK'
  PROVE  IInv'
BY IdleIsDrained, KeepsDrained DEF IInv, Types

\* A callback or an edit that emits nothing.
LEMMA QuietKeeps ==
  ASSUME IInv, Idle, UNCHANGED <<pods, set, incarnation, queue, stack>>,
         ComponentsOK', AgeOK', UsersOK'
  PROVE  IInv'
<1>1. StoreOK' /\ Keeps(<< >>)
  BY DEF IInv, Types, StoreOK, StackOK, Keeps, Idle
<1> QED
  BY <1>1, IdleKeeps

LEMMA BindTimerKeeps ==
  ASSUME IInv, NEW n \in Ordinals, BindTimerFires(n)
  PROVE  IInv'
<1> USE DEF IInv, Types
<1>1. /\ Idle
      /\ bindTimer' = [bindTimer EXCEPT ![n] = None]
      /\ \/ Exists(n) /\ BindOnce(n, pods[n], << >>)
         \/ Return(<< >>)
      /\ UNCHANGED <<schedulable, proc, ipHolder, startTimer, checkTimer, queue,
                     age, edits>>
  BY DEF BindTimerFires
<1>2. StoreOK' /\ Keeps(<< >>)
  BY <1>1, IdleIsDrained, ExistingPod, BindOnceKeeps, ReturnKeeps
<1>3. ComponentsOK'
  BY <1>1 DEF ComponentsOK, Named
<1> QED
  BY <1>1, <1>2, <1>3, IdleKeeps DEF AgeOK, UsersOK

LEMMA StartTimerKeeps ==
  ASSUME IInv, NEW n \in Ordinals, StartTimerFires(n)
  PROVE  IInv'
<1> USE DEF IInv, Types
<1>1. /\ Idle
      /\ startTimer' = [startTimer EXCEPT ![n] = None]
      /\ \/ Exists(n) /\ EmitRunning(n, pods[n], << >>)
         \/ Return(<< >>) /\ UNCHANGED proc
      /\ UNCHANGED <<schedulable, ipHolder, bindTimer, checkTimer, queue, age,
                     edits>>
  BY DEF StartTimerFires
<1>2. /\ StoreOK' /\ Keeps(<< >>)
      /\ proc' \in Named([incarnation : Nat, running : BOOLEAN])
  BY <1>1, IdleIsDrained, ExistingPod, EmitRunningKeeps, ReturnKeeps
     DEF ComponentsOK
<1>3. ComponentsOK'
  BY <1>1, <1>2 DEF ComponentsOK, Named
<1> QED
  BY <1>1, <1>2, <1>3, IdleKeeps DEF AgeOK, UsersOK

LEMMA CheckTimerKeeps ==
  ASSUME IInv, NEW n \in Ordinals, CheckTimerFires(n)
  PROVE  IInv'
<1> USE DEF IInv, Types
<1>1. /\ Idle
      /\ checkTimer' = [checkTimer EXCEPT ![n] = None]
      /\ Enqueue("PodTermination", n, << >>)
      /\ UNCHANGED <<schedulable, proc, ipHolder, bindTimer, startTimer, age,
                     edits>>
  BY DEF CheckTimerFires
<1>2. "PodTermination" \in Controllers /\ n \in Keys("PodTermination")
  BY DEF Controllers, Keys
<1>3. StoreOK' /\ QueueOK' /\ StackOK' /\ Drained(stack)'
  BY <1>1, <1>2, IdleIsDrained, EnqueueKeeps
<1>4. ComponentsOK'
  BY <1>1 DEF ComponentsOK, Named
<1> QED
  BY <1>1, <1>3, <1>4 DEF AgeOK, UsersOK

LEMMA ResyncKeeps ==
  ASSUME IInv, NEW c \in {"Scheduler", "PodLifecycle"}, Resync(c)
  PROVE  IInv'
<1> DEFINE frame == [op |-> "sync", queue |-> c, keys |-> Due(c)]
<1> USE DEF IInv, Types
<1>1. /\ Idle /\ stack' = <<frame>>
      /\ UNCHANGED <<pods, set, schedulable, components, queue, age,
                     incarnation, edits>>
  BY DEF Resync
<1>2. frame \in Frames
  BY DEF Frames, Due
<1> HIDE DEF frame
<1>3. StoreOK' /\ Keeps(<< >>)
  BY <1>1, <1>2, NobodyDrainsIdle DEF StoreOK, Keeps
<1> QED
  BY <1>1, <1>3, IdleKeeps DEF ComponentsOK, AgeOK, UsersOK, components

LEMMA TimePassesKeeps ==
  ASSUME IInv, NEW n \in Ordinals, TimePasses(n)
  PROVE  IInv'
<1> USE DEF IInv, Types
<1>1. /\ Idle /\ age[n] < 2 /\ age' = [age EXCEPT ![n] = @ + 1]
      /\ UNCHANGED <<pods, set, schedulable, components, queue, stack,
                     incarnation, edits>>
  BY DEF TimePasses
<1>2. AgeOK'
  BY <1>1 DEF AgeOK
<1> QED
  BY <1>1, <1>2, QuietKeeps DEF ComponentsOK, UsersOK, components

LEMMA ProcessExitsKeeps ==
  ASSUME IInv, NEW n \in Ordinals, ProcessExits(n)
  PROVE  IInv'
<1> USE DEF IInv, Types
<1>1. /\ Idle /\ ProcessRuns(n)
      /\ proc' = [proc EXCEPT ![n].running = FALSE]
      /\ UNCHANGED <<pods, set, schedulable, ipHolder, bindTimer, startTimer,
                     checkTimer, queue, stack, age, incarnation, edits>>
  BY DEF ProcessExits
<1>2. proc' \in Named([incarnation : Nat, running : BOOLEAN])
  BY <1>1 DEF ComponentsOK, Named, ProcessRuns
<1> QED
  BY <1>1, <1>2, QuietKeeps DEF ComponentsOK, AgeOK, UsersOK

LEMMA EditCounts ==
  ASSUME UsersOK, Edit
  PROVE  Idle /\ edits' \in 0..MaxEdits /\ UNCHANGED <<components, queue>>
BY SizeAssumption DEF UsersOK, Edit

LEMMA EditSetKeeps ==
  ASSUME IInv, NEW spec \in Specs, EditSet(spec)
  PROVE  IInv'
<1> DEFINE new == [set EXCEPT !.spec = spec]
<1> USE DEF IInv, Types
<1>1. Edit /\ Emit(SetEvent(new), << >>) /\ UNCHANGED <<schedulable, age>>
  BY DEF EditSet
<1>2. new \in Sets
  BY DEF StoreOK, Sets
<1> HIDE DEF new
<1>3. SetEvent(new) \in Events
  BY <1>2 DEF SetEvent, Events
<1>4. StoreOK' /\ Keeps(<< >>)
  BY <1>1, <1>3, EditCounts, IdleIsDrained, EmitKeeps
<1> QED
  BY <1>1, <1>4, EditCounts, IdleKeeps
     DEF ComponentsOK, AgeOK, UsersOK, components

LEMMA DeletePodKeeps ==
  ASSUME IInv, NEW n \in Ordinals, NEW forced \in BOOLEAN, DeletePod(n, forced)
  PROVE  IInv'
<1> USE DEF IInv, Types
<1>1. /\ Edit /\ Exists(n) /\ MarkTerminating(n, forced, << >>)
      /\ UNCHANGED schedulable
  BY DEF DeletePod
<1>2. StoreOK' /\ AgeOK' /\ Keeps(<< >>)
  BY <1>1, EditCounts, IdleIsDrained, MarkTerminatingKeeps
<1> QED
  BY <1>1, <1>2, EditCounts, IdleKeeps DEF ComponentsOK, UsersOK, components

LEMMA SetSchedulableKeeps ==
  ASSUME IInv, SetSchedulable
  PROVE  IInv'
<1> USE DEF IInv, Types
<1>1. /\ Edit /\ schedulable' = ~schedulable
      /\ UNCHANGED <<pods, set, stack, age, incarnation>>
  BY DEF SetSchedulable
<1>2. UsersOK'
  BY <1>1, EditCounts DEF UsersOK
<1> QED
  BY <1>1, <1>2, EditCounts, QuietKeeps DEF ComponentsOK, AgeOK, components

-------------------------------------------------------------------------------
(* The theorems *)

LEMMA InitEstablishes == Init => IInv
<1> SUFFICES ASSUME Init PROVE IInv
  OBVIOUS
<1> USE DEF Init
<1>1. FirstSet \in Sets
  <2>1. (CHOOSE t \in Templates : TRUE) \in Templates
    BY TemplatesAssumption
  <2> QED
    BY <2>1, SizeAssumption DEF FirstSet, Sets, Specs, Statuses
<1>2. StoreOK
  BY <1>1 DEF StoreOK, Named
<1>3. ComponentsOK
  BY DEF ComponentsOK, Named
<1>4. StackOK
  <2>1. SetEvent(FirstSet) \in Events
    BY <1>1 DEF SetEvent, Events
  <2>2. 1 <= Len(Subscribers(SetEvent(FirstSet).type))
    BY DEF SetEvent, Subscribers
  <2>3. Delivery(SetEvent(FirstSet), 1) \in Frames
    BY <2>1, <2>2, DeliveryFrame
  <2> QED
    BY <2>3 DEF StackOK
<1>5. QueueOK /\ Drained(stack)
  BY DEF QueueOK, Drained
<1>6. AgeOK /\ UsersOK
  BY SizeAssumption DEF AgeOK, UsersOK
<1> QED
  BY <1>2, <1>3, <1>4, <1>5, <1>6 DEF IInv, Types

LEMMA StepPreserves == IInv /\ [Next]_vars => IInv'
<1> SUFFICES ASSUME IInv, [Next]_vars PROVE IInv'
  OBVIOUS
<1>1. CASE Run
  BY <1>1, RunKeeps
<1>2. CASE \E n \in Ordinals : BindTimerFires(n)
  BY <1>2, BindTimerKeeps
<1>3. CASE \E n \in Ordinals : StartTimerFires(n)
  BY <1>3, StartTimerKeeps
<1>4. CASE \E n \in Ordinals : CheckTimerFires(n)
  BY <1>4, CheckTimerKeeps
<1>5. CASE \E n \in Ordinals : TimePasses(n)
  BY <1>5, TimePassesKeeps
<1>6. CASE \E n \in Ordinals : ProcessExits(n)
  BY <1>6, ProcessExitsKeeps
<1>7. CASE \E n \in Ordinals, forced \in BOOLEAN : DeletePod(n, forced)
  BY <1>7, DeletePodKeeps
<1>8. CASE \E c \in {"Scheduler", "PodLifecycle"} : Resync(c)
  BY <1>8, ResyncKeeps
<1>9. CASE \E replicas \in 0..MaxReplicas : Scale(replicas)
  <2>1. PICK replicas \in 0..MaxReplicas : Scale(replicas)
    BY <1>9
  <2>2. [set.spec EXCEPT !.replicas = replicas] \in Specs
    BY DEF IInv, Types, StoreOK, Sets, Specs
  <2> QED
    BY <2>1, <2>2, EditSetKeeps DEF Scale
<1>10. CASE \E template \in Templates : ChangeTemplate(template)
  <2>1. PICK template \in Templates : ChangeTemplate(template)
    BY <1>10
  <2>2. [set.spec EXCEPT !.template = template] \in Specs
    BY DEF IInv, Types, StoreOK, Sets, Specs
  <2> QED
    BY <2>1, <2>2, EditSetKeeps DEF ChangeTemplate
<1>11. CASE SetSchedulable
  BY <1>11, SetSchedulableKeeps
<1>12. CASE UNCHANGED vars
  BY <1>12 DEF IInv, Types, StoreOK, ComponentsOK, QueueOK, StackOK, AgeOK,
     UsersOK, Drained, Draining, vars, components
<1> QED
  BY <1>1, <1>2, <1>3, <1>4, <1>5, <1>6, <1>7, <1>8, <1>9, <1>10, <1>11, <1>12
     DEF Next

LEMMA Invariance == Spec => []IInv
BY InitEstablishes, StepPreserves, PTL DEF Spec

\* Every variable keeps the shape its Map, object or array has in the code, and
\* every frame of the call stack has what the function it stands for has in
\* scope (EventBus.emit, the drain loop, reconcile, bindPod, resyncAll).
THEOREM TypeCorrect == Spec => []TypeOK
<1>1. IInv => TypeOK
  BY TypesAreTypeOK DEF IInv
<1> QED
  BY <1>1, Invariance, PTL

\* When the call stack is empty no controller's work queue has keys left: the
\* loop that add() relies on when it finds isProcessing set is further down the
\* stack, and runs until its queue is empty.
THEOREM QueuesAreEmptied == Spec => []NothingQueuedWhenIdle
<1>1. IInv => NothingQueuedWhenIdle
  BY NobodyDrainsIdle DEF IInv, Drained, NothingQueuedWhenIdle, Idle
<1> QED
  BY <1>1, Invariance, PTL

-------------------------------------------------------------------------------
(* The order of the call stack *)

On(frames) == {frames[i] : i \in DOMAIN frames}
Drains(frame, c) == frame.op = "drain" /\ frame.queue = c

\* Two frames that are never on the stack together, f being the inner one: a
\* queue has one drain loop, and that of the StatefulSet controller runs one
\* reconcile at a time.
Clash(f, g) ==
  \/ f.op = "drain" /\ g.op = "drain" /\ f.queue = g.queue
  \/ f.op = "set" /\ g.op = "set"
  \/ Drains(f, "StatefulSet") /\ g.op = "set"

\* A reconcile of the set was called by the drain loop of its queue.
Orderly(frames) ==
  /\ \A i, j \in DOMAIN frames : i < j => ~Clash(frames[i], frames[j])
  /\ \A i \in DOMAIN frames :
       frames[i].op = "set" =>
         \E j \in DOMAIN frames : j > i /\ Drains(frames[j], "StatefulSet")

LEMMA OnPush ==
  ASSUME NEW frame \in Frames, NEW rest \in Seq(Frames)
  PROVE  /\ <<frame>> \o rest \in Seq(Frames)
         /\ On(<<frame>> \o rest) = {frame} \cup On(rest)
<1> DEFINE s == <<frame>> \o rest
<1>1. <<frame>> \in Seq(Frames)
  OBVIOUS
<1>2. /\ s \in Seq(Frames)
      /\ Len(s) = Len(rest) + 1
      /\ s[1] = frame
      /\ \A i \in 1..Len(rest) : s[i + 1] = rest[i]
  BY <1>1
<1>3. ASSUME NEW f \in On(s)
      PROVE  f \in {frame} \cup On(rest)
  <2>1. PICK i \in 1..Len(s) : f = s[i]
    BY <1>2 DEF On
  <2>2. CASE i = 1
    BY <1>2, <2>1, <2>2
  <2>3. CASE i # 1
    <3>1. i - 1 \in 1..Len(rest) /\ s[(i - 1) + 1] = rest[i - 1]
      BY <1>2, <2>3
    <3>2. f = rest[i - 1]
      BY <2>1, <3>1
    <3> QED
      BY <3>1, <3>2 DEF On
  <2> QED
    BY <2>2, <2>3
<1>4. ASSUME NEW f \in On(rest)
      PROVE  f \in On(s)
  <2>1. PICK i \in 1..Len(rest) : f = rest[i]
    BY <1>4 DEF On
  <2>2. i + 1 \in DOMAIN s /\ f = s[i + 1]
    BY <1>2, <2>1
  <2> QED
    BY <2>2 DEF On
<1>5. frame \in On(s)
  <2>1. 1 \in DOMAIN s /\ frame = s[1]
    BY <1>2
  <2> QED
    BY <2>1 DEF On
<1> QED
  BY <1>2, <1>3, <1>4, <1>5

LEMMA OnPop ==
  ASSUME NEW frames \in Seq(Frames), frames # << >>
  PROVE  /\ Head(frames) \in Frames /\ Tail(frames) \in Seq(Frames)
         /\ frames = <<Head(frames)>> \o Tail(frames)
         /\ On(frames) = {Head(frames)} \cup On(Tail(frames))
<1>1. /\ Head(frames) \in Frames /\ Tail(frames) \in Seq(Frames)
      /\ frames = <<Head(frames)>> \o Tail(frames)
  OBVIOUS
<1> QED
  BY <1>1, OnPush

LEMMA DrainingIsOn ==
  ASSUME NEW frames \in Seq(Frames), NEW c
  PROVE  Draining(c, frames) <=> \E f \in On(frames) : Drains(f, c)
BY DEF Draining, On, Drains

LEMMA NothingOnIdle == On(<< >>) = {}
BY DEF On

LEMMA OnFrames ==
  ASSUME NEW frames \in Seq(Frames), NEW f \in On(frames)
  PROVE  f \in Frames
BY DEF On

\* A frame that clashes with nothing below it may be put on the stack.
LEMMA OrderlyPush ==
  ASSUME NEW frame \in Frames, NEW rest \in Seq(Frames), Orderly(rest),
         \A g \in On(rest) : ~Clash(frame, g),
         frame.op = "set" => Draining("StatefulSet", rest)
  PROVE  Orderly(<<frame>> \o rest)
<1> DEFINE s == <<frame>> \o rest
<1>1. <<frame>> \in Seq(Frames)
  OBVIOUS
<1>2. /\ s \in Seq(Frames)
      /\ Len(s) = Len(rest) + 1
      /\ s[1] = frame
      /\ \A i \in 1..Len(rest) : s[i + 1] = rest[i]
  BY <1>1
<1>3. \A i \in 1..Len(s) : i # 1 => i - 1 \in 1..Len(rest) /\ s[i] = rest[i - 1]
  <2>1. ASSUME NEW i \in 1..Len(s), i # 1
        PROVE  i - 1 \in 1..Len(rest) /\ s[i] = rest[i - 1]
    <3>1. i - 1 \in 1..Len(rest) /\ (i - 1) + 1 = i
      BY <1>2, <2>1
    <3> QED
      BY <1>2, <3>1
  <2> QED
    BY <2>1
<1> HIDE DEF s
<1>4. ASSUME NEW i \in 1..Len(s), NEW j \in 1..Len(s), i < j
      PROVE  ~Clash(s[i], s[j])
  <2>1. j # 1 /\ j - 1 \in 1..Len(rest) /\ s[j] = rest[j - 1]
    BY <1>2, <1>3, <1>4
  <2>2. CASE i = 1
    <3>1. rest[j - 1] \in On(rest)
      BY <2>1 DEF On
    <3> QED
      BY <1>2, <2>1, <2>2, <3>1
  <2>3. CASE i # 1
    <3>1. i - 1 \in 1..Len(rest) /\ s[i] = rest[i - 1] /\ i - 1 < j - 1
      BY <1>2, <1>3, <1>4, <2>3
    <3>2. ~Clash(rest[i - 1], rest[j - 1])
      BY <2>1, <3>1 DEF Orderly
    <3> QED
      BY <2>1, <3>1, <3>2
  <2> QED
    BY <2>2, <2>3
<1>5. ASSUME NEW i \in 1..Len(s), s[i].op = "set"
      PROVE  \E j \in 1..Len(s) : j > i /\ Drains(s[j], "StatefulSet")
  <2>1. PICK k \in 1..Len(rest) : i <= k /\ Drains(rest[k], "StatefulSet")
    <3>1. CASE i = 1
      <4>1. \E k \in DOMAIN rest : Drains(rest[k], "StatefulSet")
        BY <1>2, <1>5, <3>1 DEF Draining, Drains
      <4> QED
        BY <3>1, <4>1
    <3>2. CASE i # 1
      <4>1. i - 1 \in DOMAIN rest /\ rest[i - 1].op = "set"
        BY <1>2, <1>3, <1>5, <3>2
      <4>2. PICK k \in DOMAIN rest : k > i - 1 /\ Drains(rest[k], "StatefulSet")
        BY <4>1 DEF Orderly
      <4> QED
        BY <4>2
    <3> QED
      BY <3>1, <3>2
  <2>2. k + 1 \in 1..Len(s) /\ k + 1 > i /\ s[k + 1] = rest[k]
    BY <1>2, <2>1
  <2> QED
    BY <2>1, <2>2
<1>6. DOMAIN s = 1..Len(s)
  BY <1>2
<1>7. Orderly(s)
  BY <1>4, <1>5, <1>6 DEF Orderly
<1> QED
  BY <1>7 DEF s

LEMMA OrderlyPop ==
  ASSUME NEW frames \in Seq(Frames), frames # << >>, Orderly(frames)
  PROVE  /\ Orderly(Tail(frames))
         /\ \A g \in On(Tail(frames)) : ~Clash(Head(frames), g)
         /\ Head(frames).op = "set" => Draining("StatefulSet", Tail(frames))
<1> DEFINE t == Tail(frames)
<1>1. /\ t \in Seq(Frames)
      /\ Len(t) = Len(frames) - 1
      /\ Head(frames) = frames[1]
      /\ \A i \in 1..Len(t) : t[i] = frames[i + 1]
      /\ 1 \in 1..Len(frames)
  OBVIOUS
<1> HIDE DEF t
<1>2. DOMAIN t = 1..Len(t) /\ DOMAIN frames = 1..Len(frames)
  BY <1>1
<1>3. ASSUME NEW i \in 1..Len(t), NEW j \in 1..Len(t), i < j
      PROVE  ~Clash(t[i], t[j])
  <2>1. /\ i + 1 \in 1..Len(frames) /\ j + 1 \in 1..Len(frames)
        /\ i + 1 < j + 1
    BY <1>1, <1>3
  <2>2. ~Clash(frames[i + 1], frames[j + 1])
    BY <1>2, <2>1 DEF Orderly
  <2> QED
    BY <1>1, <2>2
<1>4. ASSUME NEW i \in 0..Len(t), frames[i + 1].op = "set"
      PROVE  \E j \in 1..Len(t) : j > i /\ Drains(t[j], "StatefulSet")
  <2>1. i + 1 \in DOMAIN frames
    BY <1>1, <1>2
  <2>2. PICK k \in 1..Len(frames) : k > i + 1 /\ Drains(frames[k], "StatefulSet")
    BY <1>2, <1>4, <2>1 DEF Orderly
  <2>3. k - 1 \in 1..Len(t) /\ k - 1 > i /\ (k - 1) + 1 = k
    BY <1>1, <2>2
  <2>4. t[k - 1] = frames[k]
    BY <1>1, <2>3
  <2> QED
    BY <2>2, <2>3, <2>4
<1>5. ASSUME NEW i \in 1..Len(t), t[i].op = "set"
      PROVE  \E j \in 1..Len(t) : j > i /\ Drains(t[j], "StatefulSet")
  <2>1. i \in 0..Len(t) /\ frames[i + 1].op = "set"
    BY <1>1, <1>5
  <2> QED
    BY <1>4, <2>1
<1>6. ASSUME NEW g \in On(t)
      PROVE  ~Clash(frames[1], g)
  <2>1. PICK j \in 1..Len(t) : g = t[j]
    BY <1>2 DEF On
  <2>2. j + 1 \in 1..Len(frames) /\ 1 < j + 1
    BY <1>1
  <2>3. ~Clash(frames[1], frames[j + 1])
    BY <1>1, <1>2, <2>2 DEF Orderly
  <2> QED
    BY <1>1, <2>1, <2>3
<1>7. frames[1].op = "set" => Draining("StatefulSet", t)
  <2>1. ASSUME frames[1].op = "set"
        PROVE  Draining("StatefulSet", t)
    <3>1. 0 \in 0..Len(t) /\ 0 + 1 = 1
      BY <1>1
    <3>2. \E j \in 1..Len(t) : j > 0 /\ Drains(t[j], "StatefulSet")
      BY <1>4, <2>1, <3>1
    <3> QED
      BY <1>2, <3>2 DEF Draining, Drains
  <2> QED
    BY <2>1
<1>8. Orderly(t)
  BY <1>2, <1>3, <1>5 DEF Orderly
<1> QED
  BY <1>1, <1>6, <1>7, <1>8 DEF t

-------------------------------------------------------------------------------
(* The status of the set *)

\* Delivering this makes the StatefulSet controller reconcile.
TellsSet(frame) ==
  frame.op = "deliver" /\ frame.to = 1 /\ frame.event.type # "PodBound"

WillReconcile ==
  queue["StatefulSet"] # << >> \/ \E f \in On(stack) : TellsSet(f)

\* A status that is not that of the pods will be looked at again.
StatusOwed ==
  \/ set.status = SetStatus(set.spec)
  \/ WillReconcile
  \/ \E f \in On(stack) : f.op = "set"

\* Nobody writes the set behind the reconcile that has read it.
SetKept == \A f \in On(stack) : f.op = "set" => f.set = set

OInv == Orderly(stack) /\ StatusOwed /\ SetKept

\* What most functions do: the frames below stay, none that is put on them is a
\* reconcile of the set, and a write to the store is told to its controller.
Calmly(rest) ==
  /\ Orderly(stack')
  /\ On(rest) \subseteq On(stack')
  /\ \A f \in On(stack') : f.op = "set" => f \in On(rest)
  /\ set' = set
  /\ pods' = pods \/ \E f \in On(stack') : TellsSet(f)

LEMMA PushCalm ==
  ASSUME NEW frame \in Frames, NEW rest \in Seq(Frames), Orderly(rest),
         frame.op \notin {"set", "drain"}
  PROVE  /\ Orderly(<<frame>> \o rest)
         /\ On(rest) \subseteq On(<<frame>> \o rest)
         /\ \A f \in On(<<frame>> \o rest) : f.op = "set" => f \in On(rest)
<1>1. \A g : ~Clash(frame, g)
  BY DEF Clash, Drains
<1>2. Orderly(<<frame>> \o rest)
  BY <1>1, OrderlyPush
<1> QED
  BY <1>2, OnPush

LEMMA EmitTells ==
  ASSUME NEW event \in Events, NEW rest \in Seq(Frames), Orderly(rest),
         Emit(event, rest)
  PROVE  /\ Orderly(stack')
         /\ On(rest) \subseteq On(stack')
         /\ \A f \in On(stack') : f.op = "set" => f \in On(rest)
         /\ event.type # "PodBound" => \E f \in On(stack') : TellsSet(f)
<1> DEFINE frame == Delivery(event, 1)
<1>1. 1 <= Len(Subscribers(event.type))
  BY DEF Events, Subscribers
<1>2. frame \in Frames /\ frame.op = "deliver" /\ frame.to = 1
      /\ frame.event = event
  BY <1>1, DeliveryFrame DEF Delivery
<1>3. stack' = <<frame>> \o rest
  BY DEF Emit
<1> HIDE DEF frame
<1>4. frame \in On(stack')
  BY <1>2, <1>3, OnPush
<1>5. event.type # "PodBound" => TellsSet(frame)
  BY <1>2 DEF TellsSet
<1> QED
  BY <1>2, <1>3, <1>4, <1>5, PushCalm

LEMMA EmitCalm ==
  ASSUME NEW event \in PodEvents, NEW rest \in Seq(Frames), Orderly(rest),
         Emit(event, rest)
  PROVE  Calmly(rest)
<1>1. event \in Events /\ event.type # "StatefulSetUpdated"
  BY DEF PodEvents, Events
<1>2. set' = set /\ (event.type = "PodBound" => pods' = pods)
  BY DEF PodEvents, Emit
<1> QED
  BY <1>1, <1>2, EmitTells DEF Calmly

LEMMA ReturnCalm ==
  ASSUME NEW rest \in Seq(Frames), Orderly(rest), Return(rest)
  PROVE  Calmly(rest)
BY DEF Return, Calmly

\* A drain loop is started only where none is further down, so no reconcile of
\* the set is there either.
LEMMA EnqueueCalm ==
  ASSUME QueueOK, NEW c \in Controllers, NEW key \in Keys(c),
         NEW rest \in Seq(Frames), Orderly(rest), Enqueue(c, key, rest)
  PROVE  /\ Calmly(rest)
         /\ c = "StatefulSet" => queue'[c] # << >>
         /\ c # "StatefulSet" => queue'["StatefulSet"] = queue["StatefulSet"]
<1> DEFINE known == \E i \in DOMAIN queue[c] : queue[c][i] = key
           added == IF known THEN queue[c] ELSE Append(queue[c], key)
           loop == [op |-> "drain", queue |-> c]
<1>1. /\ queue' = [queue EXCEPT ![c] = added]
      /\ \/ stack' = <<loop>> \o rest /\ ~Draining(c, rest)
         \/ stack' = rest
      /\ UNCHANGED <<pods, set, incarnation>>
  BY DEF Enqueue, Return
<1>2. loop \in Frames /\ loop.op = "drain" /\ loop.queue = c
  BY DEF Frames
<1> HIDE DEF loop
<1>3. Calmly(rest)
  <2>1. CASE stack' = rest
    BY <1>1, <2>1 DEF Calmly
  <2>2. CASE stack' = <<loop>> \o rest /\ ~Draining(c, rest)
    <3>1. ASSUME NEW g \in On(rest)
          PROVE  ~Clash(loop, g)
      <4>1. ~Drains(g, c)
        BY <2>2, DrainingIsOn
      <4>2. c = "StatefulSet" => g.op # "set"
        <5>1. ASSUME c = "StatefulSet", g.op = "set"
              PROVE  Draining(c, rest)
          <6>1. PICK i \in DOMAIN rest : g = rest[i]
            BY DEF On
          <6>2. \E j \in DOMAIN rest : Drains(rest[j], "StatefulSet")
            BY <5>1, <6>1 DEF Orderly
          <6> QED
            BY <5>1, <6>2 DEF Draining, Drains
        <5> QED
          BY <2>2, <5>1
      <4> QED
        BY <1>2, <4>1, <4>2 DEF Clash, Drains
    <3>2. Orderly(stack')
      BY <1>2, <2>2, <3>1, OrderlyPush
    <3>3. On(stack') = {loop} \cup On(rest)
      BY <1>2, <2>2, OnPush
    <3> QED
      BY <1>1, <1>2, <3>2, <3>3 DEF Calmly
  <2> QED
    BY <1>1, <2>1, <2>2
<1>4. queue[c] \in Seq(Keys(c))
  BY DEF QueueOK
<1>5. added # << >>
  BY <1>4
<1>6. "StatefulSet" \in DOMAIN queue /\ c \in DOMAIN queue
  BY DEF QueueOK, Controllers
<1> HIDE DEF added
<1>7. /\ c = "StatefulSet" => queue'[c] # << >>
      /\ c # "StatefulSet" => queue'["StatefulSet"] = queue["StatefulSet"]
  BY <1>1, <1>5, <1>6
<1> QED
  BY <1>3, <1>7

\* What a calm step takes off the stack is not a reconcile, and not an event
\* for one without leaving a key for it.
CalmStep ==
  /\ \E rest \in Seq(Frames) :
       /\ Calmly(rest) /\ On(rest) \subseteq On(stack)
       /\ \A f \in On(stack) :
            \/ f \in On(rest)
            \/ f.op # "set" /\ (TellsSet(f) => queue'["StatefulSet"] # << >>)
  /\ queue["StatefulSet"] # << >> => queue'["StatefulSet"] # << >>

LEMMA CalmKeeps ==
  ASSUME OInv, CalmStep
  PROVE  OInv'
<1> USE DEF OInv, Calmly
<1>1. queue["StatefulSet"] # << >> => queue'["StatefulSet"] # << >>
  BY DEF CalmStep
<1>2. PICK rest \in Seq(Frames) :
        /\ Calmly(rest) /\ On(rest) \subseteq On(stack)
        /\ \A f \in On(stack) :
             \/ f \in On(rest)
             \/ f.op # "set" /\ (TellsSet(f) => queue'["StatefulSet"] # << >>)
  BY DEF CalmStep
<1>3. SetKept'
  BY <1>2 DEF SetKept
<1>4. StatusOwed'
  <2>1. CASE \E f \in On(stack') : TellsSet(f)
    BY <2>1 DEF StatusOwed, WillReconcile
  <2>2. CASE queue'["StatefulSet"] # << >>
    BY <2>2 DEF StatusOwed, WillReconcile
  <2>3. CASE pods' = pods /\ set.status = SetStatus(set.spec)
    BY <1>2, <2>3 DEF StatusOwed, SetStatus, Exists
  <2>4. CASE \E f \in On(stack) : f.op = "set"
    BY <1>2, <2>4 DEF StatusOwed
  <2>5. CASE \E f \in On(stack) : TellsSet(f)
    BY <1>2, <2>2, <2>5 DEF StatusOwed, WillReconcile
  <2> QED
    BY <1>1, <1>2, <2>1, <2>2, <2>3, <2>4, <2>5 DEF StatusOwed, WillReconcile
<1> QED
  BY <1>2, <1>3, <1>4

LEMMA BindOnceCalm ==
  ASSUME NEW n \in Ordinals, NEW pod \in Pods, NEW rest \in Seq(Frames),
         Orderly(rest), BindOnce(n, pod, rest)
  PROVE  Calmly(rest)
<1> DEFINE boundPod == [pod EXCEPT !.bound = TRUE]
           frame == [op |-> "bound", name |-> n, pod |-> boundPod]
<1>1. boundPod \in Pods
  BY DEF Pods
<1> HIDE DEF boundPod
<1>2. frame \in Frames /\ frame.op = "bound"
  BY <1>1 DEF Frames
<1>3. PodEvent("PodUpdated", n, boundPod) \in PodEvents
  BY <1>1 DEF PodEvent, PodEvents
<1>4. \/ Emit(PodEvent("PodUpdated", n, boundPod), <<frame>> \o rest)
      \/ Return(rest)
  BY DEF BindOnce, boundPod, frame
<1> HIDE DEF frame
<1>5. /\ <<frame>> \o rest \in Seq(Frames)
      /\ Orderly(<<frame>> \o rest)
      /\ On(rest) \subseteq On(<<frame>> \o rest)
      /\ \A f \in On(<<frame>> \o rest) : f.op = "set" => f \in On(rest)
  BY <1>2, PushCalm, OnPush
<1>6. CASE Emit(PodEvent("PodUpdated", n, boundPod), <<frame>> \o rest)
  <2>1. Calmly(<<frame>> \o rest)
    BY <1>3, <1>5, <1>6, EmitCalm
  <2> QED
    BY <1>5, <2>1 DEF Calmly
<1> QED
  BY <1>4, <1>6, ReturnCalm

LEMMA EmitRunningCalm ==
  ASSUME NEW n \in Ordinals, NEW pod \in Pods, NEW rest \in Seq(Frames),
         Orderly(rest), EmitRunning(n, pod, rest)
  PROVE  Calmly(rest)
<1> DEFINE dead == HasProcess(pod) /\ proc[n] # None /\ ~ProcessRuns(n)
           new == [pod EXCEPT !.phase = "Running", !.ready = ~dead]
<1>1. (~dead) \in BOOLEAN
  OBVIOUS
<1>2. new \in Pods
  <2> HIDE DEF dead
  <2> QED
    BY <1>1 DEF Pods
<1>3. Emit(PodEvent("PodUpdated", n, new), rest)
  BY DEF EmitRunning
<1> HIDE DEF new
<1>4. PodEvent("PodUpdated", n, new) \in PodEvents
  BY <1>2 DEF PodEvent, PodEvents
<1> QED
  BY <1>3, <1>4, EmitCalm

LEMMA ArmStartCalm ==
  ASSUME NEW n \in Ordinals, NEW pod \in Pods, NEW rest \in Seq(Frames),
         Orderly(rest), ArmStart(n, pod, rest)
  PROVE  Calmly(rest)
<1>1. Return(rest) \/ EmitRunning(n, pod, rest)
  BY DEF ArmStart
<1> QED
  BY <1>1, ReturnCalm, EmitRunningCalm

LEMMA MarkTerminatingCalm ==
  ASSUME StoreOK, NEW n \in Ordinals, Exists(n), NEW forced \in BOOLEAN,
         NEW rest \in Seq(Frames), Orderly(rest), MarkTerminating(n, forced, rest)
  PROVE  Calmly(rest)
<1> DEFINE pod == [pods[n] EXCEPT !.terminating = TRUE, !.forced = forced,
                                  !.ready = FALSE]
<1>1. pod \in Pods
  BY ExistingPod DEF Pods
<1>2. PodEvent("PodUpdated", n, pod) \in PodEvents
  BY <1>1 DEF PodEvent, PodEvents
<1>3. Emit(PodEvent("PodUpdated", n, pod), rest)
  BY DEF MarkTerminating
<1> QED
  BY <1>2, <1>3, EmitCalm

LEMMA ReconcileSchedulingCalm ==
  ASSUME StoreOK, StackOK, Orderly(stack), NEW n \in Ordinals,
         ReconcileScheduling(n)
  PROVE  Calmly(stack)
<1>1. \/ Return(stack)
      \/ Exists(n) /\ BindOnce(n, pods[n], stack)
  BY DEF ReconcileScheduling
<1> QED
  BY <1>1, ExistingPod, ReturnCalm, BindOnceCalm DEF StackOK

LEMMA ReconcileStartCalm ==
  ASSUME StoreOK, StackOK, Orderly(stack), NEW n \in Ordinals,
         ReconcileStart(n)
  PROVE  Calmly(stack)
<1> DEFINE new == [pods[n] EXCEPT !.creating = TRUE]
           frame == [op |-> "arm", name |-> n, pod |-> pods[n]]
<1>1. ASSUME Exists(n), Emit(PodEvent("PodUpdated", n, new), <<frame>> \o stack)
      PROVE  Calmly(stack)
  <2>1. pods[n] \in Pods
    BY <1>1, ExistingPod
  <2>2. new \in Pods /\ frame \in Frames /\ frame.op = "arm"
    BY <2>1 DEF Pods, Frames
  <2>3. PodEvent("PodUpdated", n, new) \in PodEvents
    BY <2>2 DEF PodEvent, PodEvents
  <2> HIDE DEF new, frame
  <2>4. /\ <<frame>> \o stack \in Seq(Frames)
        /\ Orderly(<<frame>> \o stack)
        /\ On(stack) \subseteq On(<<frame>> \o stack)
        /\ \A f \in On(<<frame>> \o stack) : f.op = "set" => f \in On(stack)
    BY <2>2, PushCalm, OnPush DEF StackOK
  <2>5. Calmly(<<frame>> \o stack)
    BY <1>1, <2>3, <2>4, EmitCalm
  <2> QED
    BY <2>4, <2>5 DEF Calmly
<1>2. \/ Exists(n) /\ ArmStart(n, pods[n], stack)
      \/ Exists(n) /\ Emit(PodEvent("PodUpdated", n, new), <<frame>> \o stack)
      \/ Return(stack)
  BY DEF ReconcileStart, MayStart
<1> HIDE DEF new, frame
<1> QED
  BY <1>1, <1>2, ExistingPod, ReturnCalm, ArmStartCalm DEF StackOK

LEMMA ReconcileTerminationCalm ==
  ASSUME StoreOK, StackOK, Orderly(stack), NEW n \in Ordinals,
         ReconcileTermination(n)
  PROVE  Calmly(stack)
<1>1. \/ Exists(n) /\ Emit(PodEvent("PodDeleted", n, pods[n]), stack)
      \/ Return(stack)
  BY DEF ReconcileTermination
<1>2. Exists(n) => PodEvent("PodDeleted", n, pods[n]) \in PodEvents
  BY ExistingPod DEF PodEvent, PodEvents
<1> QED
  BY <1>1, <1>2, ReturnCalm, EmitCalm DEF StackOK

\* A subscriber that is not the StatefulSet controller leaves its queue alone.
LEMMA HandlerCalm ==
  ASSUME QueueOK, NEW event \in PodEvents, NEW rest \in Seq(Frames),
         Orderly(rest),
         \/ HandleScheduler(event, rest)
         \/ HandleLifecycle(event, rest)
         \/ HandleTermination(event, rest)
         \/ HandlePodIp(event, rest)
  PROVE  Calmly(rest) /\ queue'["StatefulSet"] = queue["StatefulSet"]
<1>1. event.name \in Ordinals /\ event.pod \in Pods
  BY DEF PodEvents
<1>2. ASSUME NEW c \in {"Scheduler", "PodLifecycle", "PodTermination"},
             Enqueue(c, event.name, rest)
      PROVE  Calmly(rest) /\ queue'["StatefulSet"] = queue["StatefulSet"]
  <2>1. c \in Controllers /\ event.name \in Keys(c) /\ c # "StatefulSet"
    BY <1>1 DEF Controllers, Keys
  <2> QED
    BY <1>2, <2>1, EnqueueCalm
<1>3. ASSUME Return(rest), UNCHANGED queue
      PROVE  Calmly(rest) /\ queue'["StatefulSet"] = queue["StatefulSet"]
  BY <1>3, ReturnCalm
<1>4. CASE HandleScheduler(event, rest)
  <2>1. \/ Enqueue("Scheduler", event.name, rest)
        \/ Return(rest) /\ UNCHANGED queue
    BY <1>4 DEF HandleScheduler
  <2> QED
    BY <1>2, <1>3, <2>1
<1>5. CASE HandleLifecycle(event, rest)
  <2>1. \/ Enqueue("PodLifecycle", event.name, rest)
        \/ Return(rest) /\ UNCHANGED queue
    BY <1>5 DEF HandleLifecycle
  <2> QED
    BY <1>2, <1>3, <2>1
<1>6. CASE HandleTermination(event, rest)
  <2>1. \/ Enqueue("PodTermination", event.name, rest)
        \/ Return(rest) /\ UNCHANGED queue
    BY <1>6 DEF HandleTermination
  <2> QED
    BY <1>2, <1>3, <2>1
<1>7. CASE HandlePodIp(event, rest)
  <2> DEFINE new == [event.pod EXCEPT !.ip = TRUE]
  <2>1. new \in Pods
    BY <1>1 DEF Pods
  <2>2. PodEvent("PodUpdated", event.name, new) \in PodEvents
    BY <1>1, <2>1 DEF PodEvent, PodEvents
  <2>3. /\ UNCHANGED queue
        /\ \/ Return(rest)
           \/ Emit(PodEvent("PodUpdated", event.name, new), rest)
    BY <1>7 DEF HandlePodIp
  <2> HIDE DEF new
  <2> QED
    BY <1>3, <2>2, <2>3, EmitCalm
<1> QED
  BY <1>4, <1>5, <1>6, <1>7

LEMMA DeliverCalm ==
  ASSUME IInv, OInv, stack # << >>, Head(stack).op = "deliver",
         Deliver(Head(stack), Tail(stack))
  PROVE  CalmStep
<1> DEFINE frame == Head(stack)
           rest == Tail(stack)
           to == Subscribers(frame.event.type)
           next == Delivery(frame.event, frame.to + 1)
           after == IF frame.to = Len(to) THEN rest ELSE <<next>> \o rest
           subscriber == to[frame.to]
<1> USE DEF IInv, Types, OInv
<1>1. /\ frame \in Frames /\ rest \in Seq(Frames) /\ Orderly(rest)
      /\ On(stack) = {frame} \cup On(rest)
  BY OnPop, OrderlyPop DEF StackOK
<1>2. /\ frame.event \in Events /\ frame.to \in 1..5 /\ frame.to <= Len(to)
      /\ frame.op = "deliver"
  BY <1>1 DEF Frames
<1>3. subscriber = "StatefulSet" => Enqueue("StatefulSet", "set", after)
  BY DEF Deliver, HandleSet
<1>4. subscriber = "Scheduler" => HandleScheduler(frame.event, after)
  BY DEF Deliver
<1>5. subscriber = "PodLifecycle" => HandleLifecycle(frame.event, after)
  BY DEF Deliver
<1>6. subscriber = "PodTermination" => HandleTermination(frame.event, after)
  BY DEF Deliver
<1>7. subscriber = "PodIp" => HandlePodIp(frame.event, after)
  BY DEF Deliver
<1> HIDE DEF frame, rest
<1>8. /\ after \in Seq(Frames) /\ Orderly(after)
      /\ On(rest) \subseteq On(after)
      /\ \A f \in On(after) : f.op = "set" => f \in On(rest)
  <2>1. CASE frame.to = Len(to)
    BY <1>1, <2>1
  <2>2. CASE frame.to # Len(to)
    <3>1. Len(to) \in Nat
      BY <1>2 DEF Events, Subscribers
    <3>2. frame.to + 1 \in Nat \ {0} /\ frame.to + 1 <= Len(to)
      BY <1>2, <2>2, <3>1
    <3>3. next \in Frames /\ next.op = "deliver"
      BY <1>2, <3>2, DeliveryFrame DEF Delivery
    <3> HIDE DEF next
    <3> QED
      BY <1>1, <2>2, <3>3, PushCalm, OnPush
  <2> QED
    BY <2>1, <2>2
<1> HIDE DEF after
<1>9. TellsSet(frame) => subscriber = "StatefulSet"
  BY <1>2 DEF TellsSet, Events, Subscribers
<1>10. /\ subscriber = "StatefulSet" \/ frame.event \in PodEvents
       /\ subscriber \in {"StatefulSet", "Scheduler", "PodLifecycle",
                          "PodTermination", "PodIp"}
  BY <1>2 DEF Events, PodEvents, Subscribers
<1>11. /\ Calmly(after)
       /\ TellsSet(frame) => queue'["StatefulSet"] # << >>
       /\ queue["StatefulSet"] # << >> => queue'["StatefulSet"] # << >>
  <2>1. CASE subscriber = "StatefulSet"
    <3>1. "set" \in Keys("StatefulSet") /\ "StatefulSet" \in Controllers
      BY DEF Keys, Controllers
    <3> QED
      BY <1>3, <1>8, <2>1, <3>1, EnqueueCalm
  <2>2. CASE subscriber # "StatefulSet"
    <3>1. \/ HandleScheduler(frame.event, after)
          \/ HandleLifecycle(frame.event, after)
          \/ HandleTermination(frame.event, after)
          \/ HandlePodIp(frame.event, after)
      BY <1>4, <1>5, <1>6, <1>7, <1>10, <2>2
    <3>2. Calmly(after) /\ queue'["StatefulSet"] = queue["StatefulSet"]
      BY <1>8, <1>10, <2>2, <3>1, HandlerCalm
    <3> QED
      BY <1>9, <2>2, <3>2
  <2> QED
    BY <2>1, <2>2
<1>12. Calmly(rest)
  BY <1>8, <1>11 DEF Calmly
<1> QED
  BY <1>1, <1>2, <1>11, <1>12 DEF CalmStep

LEMMA DrainCalm ==
  ASSUME IInv, OInv, stack # << >>, Head(stack).op = "drain",
         Drain(Head(stack), Tail(stack)),
         Head(stack).queue # "StatefulSet" \/ queue["StatefulSet"] = << >>
  PROVE  CalmStep
<1> DEFINE c == Head(stack).queue
<1> USE DEF IInv, Types, OInv
<1>1. /\ Head(stack) \in Frames /\ Tail(stack) \in Seq(Frames)
      /\ Orderly(Tail(stack)) /\ Orderly(stack)
      /\ On(stack) = {Head(stack)} \cup On(Tail(stack))
      /\ \A g \in On(Tail(stack)) : ~Clash(Head(stack), g)
  BY OnPop, OrderlyPop DEF StackOK
<1>2. c \in Controllers /\ ~TellsSet(Head(stack))
  BY <1>1 DEF Frames, TellsSet
<1> HIDE DEF c
<1>3. CASE queue[c] = << >>
  <2>1. Return(Tail(stack)) /\ UNCHANGED queue
    BY <1>3 DEF Drain, c
  <2>2. Calmly(Tail(stack))
    BY <1>1, <2>1, ReturnCalm
  <2> QED
    BY <1>1, <1>2, <2>1, <2>2 DEF CalmStep
<1>4. CASE queue[c] # << >> /\ c # "StatefulSet"
  <2>1. queue' = [queue EXCEPT ![c] = Tail(queue[c])]
    BY <1>4 DEF Drain, c
  <2>2. queue'["StatefulSet"] = queue["StatefulSet"]
    BY <1>4, <2>1 DEF QueueOK, Controllers
  <2>3. Head(queue[c]) \in Ordinals
    <3>1. queue[c] \in Seq(Ordinals)
      BY <1>2, <1>4 DEF QueueOK, Keys
    <3> QED
      BY <1>4, <3>1
  <2>4. Calmly(stack)
    <3>1. CASE c = "Scheduler"
      BY <1>1, <1>4, <2>3, <3>1, ReconcileSchedulingCalm DEF Drain, c
    <3>2. CASE c = "PodLifecycle"
      BY <1>1, <1>4, <2>3, <3>2, ReconcileStartCalm DEF Drain, c
    <3>3. CASE c = "PodTermination"
      BY <1>1, <1>4, <2>3, <3>3, ReconcileTerminationCalm DEF Drain, c
    <3> QED
      BY <1>2, <1>4, <3>1, <3>2, <3>3 DEF Controllers
  <2> QED
    BY <2>2, <2>4 DEF CalmStep, StackOK
<1> QED
  BY <1>3, <1>4 DEF c

\* The reconcile is put on the stack by the drain loop that takes its key: no
\* other one is there.
LEMMA ReconcileSetOrder ==
  ASSUME IInv, OInv, stack # << >>, Drains(Head(stack), "StatefulSet"),
         Drain(Head(stack), Tail(stack)), queue["StatefulSet"] # << >>
  PROVE  /\ OInv'
         /\ UNCHANGED <<pods, set, incarnation, age, components>>
         /\ \A g \in On(stack) : g.op # "set"
         /\ stack' = <<[op |-> "set", read |-> pods, set |-> set, next |-> 0]>>
                       \o stack
<1> DEFINE frame == [op |-> "set", read |-> pods, set |-> set, next |-> 0]
<1> USE DEF IInv, Types, OInv
<1>1. /\ Head(stack) \in Frames /\ Tail(stack) \in Seq(Frames)
      /\ Orderly(stack)
      /\ On(stack) = {Head(stack)} \cup On(Tail(stack))
      /\ \A g \in On(Tail(stack)) : ~Clash(Head(stack), g)
  BY OnPop, OrderlyPop DEF StackOK
<1>2. frame \in Frames /\ frame.op = "set" /\ frame.set = set
  BY SizeAssumption DEF Frames, StoreOK
<1>3. /\ stack' = <<frame>> \o stack
      /\ UNCHANGED <<pods, set, incarnation, age, components>>
  BY DEF Drain, Drains, ReconcileSet
<1>4. \A g \in On(stack) : g.op # "set"
  BY <1>1 DEF Clash, Drains
<1>5. Draining("StatefulSet", stack)
  BY <1>1, DrainingIsOn DEF StackOK
<1> HIDE DEF frame
<1>6. \A g \in On(stack) : ~Clash(frame, g)
  BY <1>2, <1>4 DEF Clash, Drains
<1>7. Orderly(stack')
  BY <1>1, <1>2, <1>3, <1>5, <1>6, OrderlyPush DEF StackOK
<1>8. On(stack') = {frame} \cup On(stack)
  BY <1>2, <1>3, OnPush DEF StackOK
<1>9. StatusOwed' /\ SetKept'
  BY <1>2, <1>3, <1>4, <1>8 DEF StatusOwed, SetKept
<1> QED
  BY <1>3, <1>4, <1>7, <1>9 DEF frame

LEMMA SetStepOrder ==
  ASSUME IInv, OInv, stack # << >>, Head(stack).op = "set",
         SetStep(Head(stack), Tail(stack))
  PROVE  OInv'
<1> DEFINE frame == Head(stack)
           rest == Tail(stack)
           n == frame.next
           next == [frame EXCEPT !.next = n + 1]
           after == <<next>> \o rest
<1> USE DEF IInv, Types, OInv
<1>1. /\ frame \in Frames /\ rest \in Seq(Frames) /\ Orderly(rest)
      /\ On(stack) = {frame} \cup On(rest)
      /\ \A g \in On(rest) : ~Clash(frame, g)
      /\ Draining("StatefulSet", rest)
  BY OnPop, OrderlyPop DEF StackOK
<1>2. /\ n < MaxReplicas /\ UNCHANGED queue
      /\ \/ Emit(PodEvent("PodCreated", n,
                          NewPod(n, frame.set.spec.template)), after)
         \/ Exists(n) /\ MarkTerminating(n, FALSE, after)
         \/ Return(after)
  BY DEF SetStep, RequestDeletion
<1>3. frame.op = "set"
  OBVIOUS
<1> HIDE DEF frame, rest
<1>4. frame \in [op : {"set"}, read : Named(Pods), set : Sets,
                 next : 0..MaxReplicas]
  BY <1>1, <1>3 DEF Frames
<1>5. /\ n \in Ordinals /\ n + 1 \in 0..MaxReplicas
      /\ frame.set.spec.template \in Templates
  BY <1>2, <1>4, SizeAssumption DEF Ordinals, Sets, Specs
<1>6. next \in Frames /\ next.op = "set" /\ next.set = frame.set
  BY <1>4, <1>5 DEF Frames
<1> HIDE DEF next
<1>7. \A g \in On(rest) : ~Clash(next, g) /\ g.op # "set"
  BY <1>1, <1>3, <1>6 DEF Clash, Drains
<1>8. /\ after \in Seq(Frames) /\ Orderly(after)
      /\ On(after) = {next} \cup On(rest)
  BY <1>1, <1>6, <1>7, OrderlyPush, OnPush
<1> HIDE DEF after
<1>9. Calmly(after)
  <2>1. CASE Emit(PodEvent("PodCreated", n,
                           NewPod(n, frame.set.spec.template)), after)
    <3>1. PodEvent("PodCreated", n, NewPod(n, frame.set.spec.template))
            \in PodEvents
      BY <1>5, NewPodTyped DEF PodEvent, PodEvents
    <3> QED
      BY <1>8, <2>1, <3>1, EmitCalm
  <2>2. CASE Exists(n) /\ MarkTerminating(n, FALSE, after)
    BY <1>5, <1>8, <2>2, MarkTerminatingCalm
  <2>3. CASE Return(after)
    BY <1>8, <2>3, ReturnCalm
  <2> QED
    BY <1>2, <2>1, <2>2, <2>3
<1>10. Orderly(stack') /\ next \in On(stack')
  BY <1>8, <1>9 DEF Calmly
<1>11. frame.set = set
  BY <1>1, <1>3 DEF SetKept
<1>12. SetKept'
  BY <1>6, <1>7, <1>8, <1>9, <1>11 DEF SetKept, Calmly
<1>13. StatusOwed'
  BY <1>6, <1>10 DEF StatusOwed
<1> QED
  BY <1>10, <1>12, <1>13

\* The set that the reconcile writes its status into is still the set that is
\* in the store, so it only writes the status.
LEMMA SetWriteStatusOrder ==
  ASSUME IInv, OInv, stack # << >>, Head(stack).op = "set",
         SetWriteStatus(Head(stack), Tail(stack))
  PROVE  OInv'
<1> DEFINE frame == Head(stack)
           rest == Tail(stack)
           status == SetStatus(frame.set.spec)
           new == [frame.set EXCEPT !.status = status]
<1> USE DEF IInv, Types, OInv
<1>1. /\ frame \in Frames /\ rest \in Seq(Frames) /\ Orderly(rest)
      /\ On(stack) = {frame} \cup On(rest)
      /\ \A g \in On(rest) : ~Clash(frame, g)
      /\ frame.op = "set"
  BY OnPop, OrderlyPop DEF StackOK
<1>2. frame.set = set
  BY <1>1 DEF SetKept
<1>3. \A g \in On(rest) : g.op # "set"
  BY <1>1 DEF Clash
<1>4. \/ status = frame.set.status /\ Return(rest)
      \/ Emit(SetEvent(new), rest)
  BY DEF SetWriteStatus
<1>5. set \in Sets /\ status \in Statuses
  BY <1>2, StatusTyped DEF StoreOK, Sets
<1> HIDE DEF frame, rest
<1>6. CASE status = frame.set.status /\ Return(rest)
  <2>1. stack' = rest /\ UNCHANGED <<pods, set>>
    BY <1>6 DEF Return
  <2>2. set'.status = SetStatus(set.spec)'
    BY <1>2, <1>6, <2>1 DEF SetStatus, Exists
  <2>3. SetKept'
    BY <1>3, <2>1 DEF SetKept
  <2> QED
    BY <1>1, <2>1, <2>2, <2>3 DEF StatusOwed
<1>7. CASE Emit(SetEvent(new), rest)
  <2> HIDE DEF status
  <2>1. new \in Sets
    BY <1>2, <1>5 DEF Sets
  <2>2. SetEvent(new) \in Events /\ SetEvent(new).type # "PodBound"
    BY <2>1 DEF SetEvent, Events
  <2>3. /\ Orderly(stack')
        /\ \A f \in On(stack') : f.op = "set" => f \in On(rest)
        /\ \E f \in On(stack') : TellsSet(f)
    BY <1>1, <1>7, <2>2, EmitTells
  <2>4. SetKept'
    BY <1>3, <2>3 DEF SetKept
  <2>5. StatusOwed'
    BY <2>3 DEF StatusOwed, WillReconcile
  <2> QED
    BY <2>3, <2>4, <2>5
<1> QED
  BY <1>4, <1>6, <1>7

LEMMA SyncCalm ==
  ASSUME IInv, OInv, stack # << >>, Head(stack).op = "sync",
         SyncStep(Head(stack), Tail(stack))
  PROVE  CalmStep
<1> DEFINE frame == Head(stack)
           rest == Tail(stack)
           less(n) == [frame EXCEPT !.keys = @ \ {n}]
           after(n) == IF frame.keys = {n} THEN rest ELSE <<less(n)>> \o rest
<1> USE DEF IInv, Types, OInv
<1>1. /\ frame \in Frames /\ rest \in Seq(Frames) /\ Orderly(rest)
      /\ On(stack) = {frame} \cup On(rest)
      /\ frame.op = "sync"
  BY OnPop, OrderlyPop DEF StackOK
<1>2. frame \in [op : {"sync"}, queue : {"Scheduler", "PodLifecycle"},
                keys : SUBSET Ordinals]
  BY <1>1 DEF Frames
<1>3. PICK n \in frame.keys : Enqueue(frame.queue, n, after(n))
  BY DEF SyncStep
<1> HIDE DEF frame, rest
<1>4. less(n) \in Frames /\ less(n).op = "sync"
  BY <1>2 DEF Frames
<1> HIDE DEF less
<1>5. /\ after(n) \in Seq(Frames) /\ Orderly(after(n))
      /\ On(rest) \subseteq On(after(n))
      /\ \A f \in On(after(n)) : f.op = "set" => f \in On(rest)
  BY <1>1, <1>4, PushCalm, OnPush
<1>6. /\ frame.queue \in Controllers /\ n \in Keys(frame.queue)
      /\ frame.queue # "StatefulSet"
  BY <1>2 DEF Controllers, Keys
<1> HIDE DEF after
<1>7. /\ Calmly(after(n))
      /\ queue'["StatefulSet"] = queue["StatefulSet"]
  BY <1>3, <1>5, <1>6, EnqueueCalm
<1>8. Calmly(rest)
  BY <1>5, <1>7 DEF Calmly
<1>9. ~TellsSet(frame)
  BY <1>1 DEF TellsSet
<1> QED
  BY <1>1, <1>7, <1>8, <1>9 DEF CalmStep

LEMMA RunCalm ==
  ASSUME IInv, OInv, Run, Head(stack).op # "set",
         ~Drains(Head(stack), "StatefulSet") \/ queue["StatefulSet"] = << >>
  PROVE  CalmStep
<1> DEFINE frame == Head(stack)
           rest == Tail(stack)
<1> USE DEF IInv, Types, OInv
<1>1. /\ stack # << >>
      /\ frame \in Frames /\ rest \in Seq(Frames) /\ Orderly(rest)
      /\ On(stack) = {frame} \cup On(rest)
  BY OnPop, OrderlyPop DEF StackOK, Run
<1>2. ASSUME frame.op \in {"bound", "arm"}, Calmly(rest), UNCHANGED queue
      PROVE  CalmStep
  BY <1>1, <1>2 DEF CalmStep, TellsSet
<1>3. frame.op \in {"bound", "arm"} => frame.name \in Ordinals /\ frame.pod \in Pods
  BY <1>1 DEF Frames
<1>4. CASE frame.op = "bound" /\ BoundStep(frame, rest)
  <2>1. PodEvent("PodBound", frame.name, frame.pod) \in PodEvents
    BY <1>3, <1>4 DEF PodEvent, PodEvents
  <2>2. Emit(PodEvent("PodBound", frame.name, frame.pod), rest) /\ UNCHANGED queue
    BY <1>4 DEF BoundStep
  <2>3. Calmly(rest)
    BY <1>1, <2>1, <2>2, EmitCalm
  <2> QED
    BY <1>2, <1>4, <2>2, <2>3
<1>5. CASE frame.op = "arm" /\ ArmStep(frame, rest)
  <2>1. ArmStart(frame.name, frame.pod, rest) /\ UNCHANGED queue
    BY <1>5 DEF ArmStep
  <2>2. Calmly(rest)
    BY <1>1, <1>3, <1>5, <2>1, ArmStartCalm
  <2> QED
    BY <1>2, <1>5, <2>1, <2>2
<1>6. CASE frame.op = "deliver" /\ Deliver(frame, rest)
  BY <1>1, <1>6, DeliverCalm
<1>7. CASE frame.op = "drain" /\ Drain(frame, rest)
  BY <1>1, <1>7, DrainCalm DEF Drains
<1>8. CASE frame.op = "sync" /\ SyncStep(frame, rest)
  BY <1>1, <1>8, SyncCalm
<1> QED
  BY <1>4, <1>5, <1>6, <1>7, <1>8 DEF Run

LEMMA RunOrder ==
  ASSUME IInv, OInv, Run
  PROVE  OInv'
<1>1. stack # << >>
  BY DEF Run
<1>2. CASE Head(stack).op = "set"
  BY <1>1, <1>2, SetStepOrder, SetWriteStatusOrder DEF Run
<1>3. CASE Drains(Head(stack), "StatefulSet") /\ queue["StatefulSet"] # << >>
  <2>1. Drain(Head(stack), Tail(stack))
    BY <1>3 DEF Run, Drains
  <2> QED
    BY <1>1, <1>3, <2>1, ReconcileSetOrder
<1> QED
  BY <1>2, <1>3, RunCalm, CalmKeeps

LEMMA EmptyStack ==
  /\ << >> \in Seq(Frames) /\ Orderly(<< >>) /\ On(<< >>) = {}
BY NothingOnIdle DEF Orderly

\* Callbacks and users find the stack empty.
LEMMA IdleCalm ==
  ASSUME IInv, Idle, Calmly(<< >>)
  PROVE  CalmStep
<1>1. queue["StatefulSet"] = << >>
  BY IdleIsDrained DEF Controllers
<1> QED
  BY <1>1, EmptyStack DEF Idle, CalmStep

\* The callbacks and user actions that may put frames on the stack, but for
\* edits of the set
Calls ==
  \/ \E n \in Ordinals :
       \/ BindTimerFires(n)
       \/ StartTimerFires(n)
       \/ CheckTimerFires(n)
       \/ \E forced \in BOOLEAN : DeletePod(n, forced)
  \/ \E c \in {"Scheduler", "PodLifecycle"} : Resync(c)

LEMMA CallsCalm ==
  ASSUME IInv, Calls
  PROVE  CalmStep
<1> USE DEF IInv, Types
<1>1. ASSUME NEW n \in Ordinals, BindTimerFires(n)
      PROVE  CalmStep
  <2>1. /\ Idle
        /\ \/ Exists(n) /\ BindOnce(n, pods[n], << >>)
           \/ Return(<< >>)
    BY <1>1 DEF BindTimerFires
  <2>2. Calmly(<< >>)
    BY <2>1, EmptyStack, ExistingPod, ReturnCalm, BindOnceCalm
  <2> QED
    BY <2>1, <2>2, IdleCalm
<1>2. ASSUME NEW n \in Ordinals, StartTimerFires(n)
      PROVE  CalmStep
  <2>1. /\ Idle
        /\ \/ Exists(n) /\ EmitRunning(n, pods[n], << >>)
           \/ Return(<< >>)
    BY <1>2 DEF StartTimerFires
  <2>2. Calmly(<< >>)
    BY <2>1, EmptyStack, ExistingPod, ReturnCalm, EmitRunningCalm
  <2> QED
    BY <2>1, <2>2, IdleCalm
<1>3. ASSUME NEW n \in Ordinals, CheckTimerFires(n)
      PROVE  CalmStep
  <2>1. Idle /\ Enqueue("PodTermination", n, << >>)
    BY <1>3 DEF CheckTimerFires
  <2>2. "PodTermination" \in Controllers /\ n \in Keys("PodTermination")
    BY DEF Controllers, Keys
  <2>3. Calmly(<< >>)
    BY <2>1, <2>2, EmptyStack, EnqueueCalm
  <2> QED
    BY <2>1, <2>3, IdleCalm
<1>4. ASSUME NEW n \in Ordinals, NEW forced \in BOOLEAN, DeletePod(n, forced)
      PROVE  CalmStep
  <2>1. Idle /\ Exists(n) /\ MarkTerminating(n, forced, << >>)
    BY <1>4 DEF DeletePod, Edit
  <2>2. Calmly(<< >>)
    BY <2>1, EmptyStack, MarkTerminatingCalm
  <2> QED
    BY <2>1, <2>2, IdleCalm
<1>5. ASSUME NEW c \in {"Scheduler", "PodLifecycle"}, Resync(c)
      PROVE  CalmStep
  <2> DEFINE frame == [op |-> "sync", queue |-> c, keys |-> Due(c)]
  <2>1. Idle /\ stack' = <<frame>> /\ UNCHANGED <<pods, set>>
    BY <1>5 DEF Resync
  <2>2. frame \in Frames /\ frame.op = "sync"
    BY DEF Frames, Due
  <2> HIDE DEF frame
  <2>3. stack' = <<frame>> \o << >>
    BY <2>1, <2>2
  <2>4. Calmly(<< >>)
    BY <2>1, <2>2, <2>3, EmptyStack, PushCalm DEF Calmly
  <2> QED
    BY <2>1, <2>4, IdleCalm
<1> QED
  BY <1>1, <1>2, <1>3, <1>4, <1>5 DEF Calls

LEMMA StepOrder ==
  ASSUME IInv, OInv, [Next]_vars
  PROVE  OInv'
<1> USE DEF IInv, Types
<1>1. CASE Run
  BY <1>1, RunOrder
<1>2. CASE Calls
  BY <1>2, CallsCalm, CalmKeeps
<1>3. ASSUME NEW spec \in Specs, EditSet(spec)
      PROVE  OInv'
  <2> DEFINE new == [set EXCEPT !.spec = spec]
  <2>1. Emit(SetEvent(new), << >>)
    BY <1>3 DEF EditSet
  <2>2. new \in Sets
    BY DEF StoreOK, Sets
  <2> HIDE DEF new
  <2>3. SetEvent(new) \in Events /\ SetEvent(new).type # "PodBound"
    BY <2>2 DEF SetEvent, Events
  <2>4. /\ Orderly(stack')
        /\ \A f \in On(stack') : f.op = "set" => f \in On(<< >>)
        /\ \E f \in On(stack') : TellsSet(f)
    BY <2>1, <2>3, EmptyStack, EmitTells
  <2> QED
    BY <2>4, EmptyStack DEF OInv, StatusOwed, SetKept, WillReconcile
<1>4. ASSUME UNCHANGED <<pods, set, stack, queue>>
      PROVE  OInv'
  BY <1>4 DEF OInv, Orderly, StatusOwed, SetKept, WillReconcile, SetStatus, Exists
<1>5. CASE \E n \in Ordinals : TimePasses(n)
  BY <1>4, <1>5 DEF TimePasses
<1>6. CASE \E n \in Ordinals : ProcessExits(n)
  BY <1>4, <1>6 DEF ProcessExits
<1>7. CASE SetSchedulable
  BY <1>4, <1>7 DEF SetSchedulable, Edit
<1>8. CASE UNCHANGED vars
  BY <1>4, <1>8 DEF vars
<1>9. CASE \E replicas \in 0..MaxReplicas : Scale(replicas)
  <2>1. PICK replicas \in 0..MaxReplicas : Scale(replicas)
    BY <1>9
  <2>2. [set.spec EXCEPT !.replicas = replicas] \in Specs
    BY DEF StoreOK, Sets, Specs
  <2> QED
    BY <1>3, <2>1, <2>2 DEF Scale
<1>10. CASE \E template \in Templates : ChangeTemplate(template)
  <2>1. PICK template \in Templates : ChangeTemplate(template)
    BY <1>10
  <2>2. [set.spec EXCEPT !.template = template] \in Specs
    BY DEF StoreOK, Sets, Specs
  <2> QED
    BY <1>3, <2>1, <2>2 DEF ChangeTemplate
<1> QED
  BY <1>1, <1>2, <1>5, <1>6, <1>7, <1>8, <1>9, <1>10 DEF Next, Calls

LEMMA InitOrder == Init => OInv
<1> SUFFICES ASSUME Init PROVE OInv
  OBVIOUS
<1>1. IInv
  BY InitEstablishes
<1> DEFINE frame == Delivery(SetEvent(FirstSet), 1)
<1>2. stack = <<frame>>
  BY DEF Init
<1>3. TellsSet(frame) /\ frame.op = "deliver"
  BY DEF TellsSet, Delivery, SetEvent
<1>4. frame \in Frames
  BY <1>1, <1>2 DEF IInv, Types, StackOK
<1> HIDE DEF frame
<1>5. stack = <<frame>> \o << >>
  BY <1>2, <1>4
<1>6. frame.op \notin {"set", "drain"}
  BY <1>3
<1>7. Orderly(<<frame>> \o << >>)
  BY <1>4, <1>6, EmptyStack, PushCalm
<1>8. On(<<frame>> \o << >>) = {frame} \cup On(<< >>)
  BY <1>4, EmptyStack, OnPush
<1>9. On(stack) = {frame} /\ Orderly(stack)
  BY <1>5, <1>7, <1>8, EmptyStack
<1> QED
  BY <1>3, <1>9 DEF OInv, StatusOwed, SetKept, WillReconcile

LEMMA OrderInvariance == Spec => [](IInv /\ OInv)
<1>1. Init => IInv /\ OInv
  BY InitEstablishes, InitOrder
<1>2. IInv /\ OInv /\ [Next]_vars => (IInv /\ OInv)'
  BY StepPreserves, StepOrder
<1> QED
  BY <1>1, <1>2, PTL DEF Spec

\* Between callbacks the status of the set is that of its pods: a reconcile
\* writes the status it computed at its end into the set it read at its start
\* (StatefulSetController.reconcile), and whatever changes a pod or the set in
\* between queues the set again.
THEOREM StatusesAreFresh == Spec => []StatusFresh
<1>1. IInv /\ OInv => StatusFresh
  <2>1. SUFFICES ASSUME IInv, OInv, Idle
                 PROVE  set.status = SetStatus(set.spec)
    BY DEF StatusFresh
  <2>2. queue["StatefulSet"] = << >>
    BY <2>1, IdleIsDrained DEF Controllers
  <2> QED
    BY <2>1, <2>2, NothingOnIdle DEF OInv, StatusOwed, WillReconcile, Idle
<1> QED
  BY <1>1, OrderInvariance, PTL

-------------------------------------------------------------------------------
(* What a pod name has while the stack is not empty *)

\* The set wants the pod it has under this name.
Suits(n) ==
  /\ Exists(n) /\ ~pods[n].terminating
  /\ n < set.spec.replicas /\ pods[n].template = set.spec.template

\* What a frame delivers, and whether the subscriber at place i is still to be
\* told.
Carries(frame, type, n) ==
  frame.op = "deliver" /\ frame.event.type = type /\ frame.event.name = n

NeedsIp(frame) ==
  /\ frame.op = "deliver" /\ frame.event.type = "PodUpdated"
  /\ frame.event.pod.phase = "Running" /\ ~frame.event.pod.ip

DeletionTold(n, i) ==
  \E f \in On(stack) : Carries(f, "PodDeleted", n) /\ f.to <= i
BoundDeletionTold(n) ==
  \E f \in On(stack) :
    Carries(f, "PodDeleted", n) /\ f.to <= 3 /\ f.event.pod.bound

KeyIn(c, n) == \E i \in DOMAIN queue[c] : queue[c][i] = n

StartTold(n) ==
  \/ KeyIn("PodLifecycle", n)
  \/ \E f \in On(stack) :
       Carries(f, "PodUpdated", n) /\ f.to <= 3 /\ ShouldProgress(f.event.pod)
EndTold(n) ==
  \/ KeyIn("PodTermination", n)
  \/ \E f \in On(stack) :
       Carries(f, "PodUpdated", n) /\ f.to <= 4 /\ f.event.pod.terminating
IpTold(n) == \E f \in On(stack) : NeedsIp(f) /\ f.event.name = n
ArmWaits(n) == \E f \in On(stack) : f.op = "arm" /\ f.name = n

-------------------------------------------------------------------------------
(* The invariant: what each name has, and what each frame may rely on *)

\* The set has judged the pod, or will.
Judged(n) == Suits(n) \/ ~Exists(n) \/ pods[n].terminating
SetOwes ==
  \A n \in Ordinals :
    \/ Judged(n)
    \/ WillReconcile
    \/ \E f \in On(stack) : f.op = "set" /\ f.next <= n

\* A start timer is that of the pod, which will be told if it is to be deleted,
\* or of its predecessor, whose deletion has not reached the kubelet yet.
StartIsDue(n) ==
  startTimer[n] # None =>
    \/ /\ Exists(n) /\ ShouldProgress(pods[n])
       /\ startTimer[n] = pods[n].incarnation
       /\ pods[n].terminating => StartTold(n)
    \/ DeletionTold(n, 3)

\* A pod that may start and has no timer is on its way to one, and the set
\* wants it.
StartIsComing(n) ==
  MayStart(n) /\ startTimer[n] = None => Suits(n) /\ (StartTold(n) \/ ArmWaits(n))

AddressIsComing(n) ==
  Exists(n) /\ pods[n].phase = "Running" /\ ~pods[n].ip => IpTold(n)

PodIsSound(n) ==
  Exists(n) =>
    /\ pods[n].incarnation = incarnation[n]
    /\ pods[n].phase = "Running" =>
         /\ pods[n].bound
         /\ pods[n].ip => ipHolder[n] = pods[n].incarnation
         /\ pods[n].template \in Long => ProcessRuns(n)
    /\ pods[n].phase = "Pending" => ~pods[n].ip

CheckIsDue(n) ==
  /\ checkTimer[n] # None =>
       /\ Exists(n) /\ pods[n].terminating
       /\ checkTimer[n].incarnation = pods[n].incarnation
  /\ Exists(n) /\ pods[n].terminating => checkTimer[n] # None \/ EndTold(n)

\* What is kept under the name is the pod's, or its predecessor's, whose
\* deletion has not reached the component that keeps it.
HoldingsAreIts(n) ==
  /\ bindTimer[n] # None =>
       \/ Exists(n) /\ bindTimer[n] = pods[n].incarnation
       \/ DeletionTold(n, 2)
  /\ proc[n] # None =>
       \/ /\ Exists(n) /\ pods[n].phase = "Running"
          /\ proc[n].incarnation = pods[n].incarnation
       \/ BoundDeletionTold(n)
  /\ ipHolder[n] # None =>
       \/ /\ Exists(n) /\ pods[n].phase = "Running"
          /\ ipHolder[n] = pods[n].incarnation
       \/ DeletionTold(n, 5)

NameInv(n) ==
  /\ StartIsDue(n)
  /\ StartIsComing(n)
  /\ AddressIsComing(n)
  /\ PodIsSound(n)
  /\ CheckIsDue(n)
  /\ HoldingsAreIts(n)

\* What reconcile read still tells it what to do about the names left.
ReadHolds(f) ==
  \A m \in Ordinals :
    m >= f.next =>
      IF f.read[m] = None
      THEN ~Exists(m)
      ELSE Exists(m) =>
             /\ pods[m].template = f.read[m].template
             /\ f.read[m].terminating => pods[m].terminating

ArmHolds(f) ==
  /\ Suits(f.name) /\ ShouldProgress(pods[f.name])
  /\ pods[f.name].incarnation = f.pod.incarnation

\* A deleted pod's name has at most the pod that replaces it.
DeletionHolds(n) ==
  ~Exists(n) \/ (Suits(n) /\ ~pods[n].bound /\ pods[n].phase = "Pending")

SamePod(p, q) ==
  /\ p.incarnation = q.incarnation /\ p.template = q.template
  /\ p.bound = q.bound /\ p.phase = q.phase

\* A pod that an event shows running is not deleted during that call.
RunningHolds(n, pod) ==
  /\ Exists(n) /\ pods[n].phase = "Running"
  /\ pods[n].incarnation = pod.incarnation
  /\ pods[n].terminating => age[n] = 0
  /\ ~pod.ip => Suits(n) /\ SamePod(pods[n], pod) /\ ~pod.terminating

Holds(f) ==
  /\ f.op = "set" => ReadHolds(f)
  /\ f.op = "arm" => ArmHolds(f)
  /\ f.op = "deliver" =>
       /\ f.event.type = "PodDeleted" => DeletionHolds(f.event.name)
       /\ f.event.type = "PodUpdated" /\ f.event.pod.phase = "Running" =>
            RunningHolds(f.event.name, f.event.pod)

FramesHold == \A f \in On(stack) : Holds(f)

BInv == SetOwes /\ FramesHold /\ \A n \in Ordinals : NameInv(n)

-------------------------------------------------------------------------------
(* What a step may do to one name *)

UpdateTold(n) ==
  \E f \in On(stack') :
    Carries(f, "PodUpdated", n) /\ f.to = 1 /\ f.event.pod = pods'[n]

Same(n) ==
  /\ pods'[n] = pods[n]
  /\ incarnation'[n] = incarnation[n]
  /\ age'[n] = age[n]

Born(n) ==
  /\ ~Exists(n) /\ Exists(n)'
  /\ stack # << >> /\ Head(stack).op = "set" /\ Head(stack).next = n
  /\ n < set.spec.replicas
  /\ incarnation'[n] = incarnation[n] + 1
  /\ pods'[n].incarnation = incarnation'[n]
  /\ pods'[n].template = set.spec.template
  /\ pods'[n].phase = "Pending"
  /\ ~pods'[n].bound /\ ~pods'[n].ip /\ ~pods'[n].terminating

\* The pod is still there and is still the same pod.
Stays(n) ==
  /\ Exists(n) /\ Exists(n)'
  /\ incarnation'[n] = incarnation[n]
  /\ pods'[n].incarnation = pods[n].incarnation
  /\ pods'[n].template = pods[n].template

Marked(n) ==
  /\ Stays(n) /\ SamePod(pods'[n], pods[n]) /\ pods'[n].ip = pods[n].ip
  /\ ~pods[n].terminating /\ pods'[n].terminating
  /\ age'[n] = 0
  /\ Idle \/ ~Suits(n)
  /\ UpdateTold(n)

Reported(n) ==
  /\ Stays(n) /\ SamePod(pods'[n], pods[n]) /\ pods'[n].ip = pods[n].ip
  /\ MayStart(n) /\ Suits(n) /\ ~pods'[n].terminating
  /\ age'[n] = age[n]
  /\ ArmWaits(n)'

Addressed(n) ==
  /\ Stays(n) /\ SamePod(pods'[n], pods[n]) /\ pods'[n].ip
  /\ pods[n].phase = "Running"
  /\ ~pods[n].terminating /\ ~pods'[n].terminating
  /\ age'[n] = age[n]
  /\ ipHolder'[n] = pods[n].incarnation

Removed(n) ==
  /\ Exists(n) /\ pods[n].terminating /\ age[n] >= 1
  /\ ~Exists(n)'
  /\ incarnation'[n] = incarnation[n]
  /\ checkTimer'[n] = None
  /\ \E f \in On(stack') :
       Carries(f, "PodDeleted", n) /\ f.to = 1 /\ f.event.pod = pods[n]

Bound(n) ==
  /\ Idle
  /\ Stays(n) /\ ~pods[n].bound /\ pods'[n].bound
  /\ pods'[n].phase = pods[n].phase /\ pods'[n].ip = pods[n].ip
  /\ pods'[n].terminating = pods[n].terminating
  /\ age'[n] = age[n]
  /\ UpdateTold(n)

Started(n) ==
  /\ Idle
  /\ Stays(n) /\ ShouldProgress(pods[n]) /\ ~pods[n].terminating
  /\ pods'[n].phase = "Running" /\ pods'[n].bound
  /\ pods'[n].ip = pods[n].ip /\ ~pods'[n].terminating
  /\ age'[n] = age[n]
  /\ startTimer'[n] = None
  /\ pods[n].template \in Long => ProcessRuns(n)'
  /\ proc'[n] # None => proc'[n].incarnation = pods[n].incarnation
  /\ UpdateTold(n)

Aged(n) ==
  /\ Idle
  /\ Exists(n) /\ pods[n].terminating /\ pods'[n] = pods[n]
  /\ incarnation'[n] = incarnation[n]
  /\ age'[n] = age[n] + 1

Changes(n) ==
  Born(n) \/ Marked(n) \/ Reported(n) \/ Addressed(n) \/ Removed(n)
    \/ Bound(n) \/ Started(n) \/ Aged(n)

\* And to what is kept under it
BindEffect(n) ==
  /\ \/ bindTimer'[n] \in {None, bindTimer[n]}
     \/ Same(n) /\ Exists(n) /\ bindTimer'[n] = pods[n].incarnation
  /\ DeletionTold(n, 2) => DeletionTold(n, 2)' \/ bindTimer'[n] = None

ProcEffect(n) ==
  /\ \/ proc'[n] = proc[n]
     \/ Started(n)
     \/ Same(n) /\ proc'[n] = None /\ (Exists(n) => pods[n].phase = "Pending")
     \/ /\ Same(n) /\ Exists(n) /\ pods[n].template \in Finite
        /\ proc[n] # None /\ proc'[n].incarnation = proc[n].incarnation
  /\ BoundDeletionTold(n) => BoundDeletionTold(n)' \/ proc'[n] = None

IpEffect(n) ==
  /\ \/ ipHolder'[n] = ipHolder[n]
     \/ Addressed(n)
     \/ Same(n) /\ ipHolder'[n] = None /\ (Exists(n) => pods[n].phase = "Pending")
     \/ /\ Same(n) /\ Exists(n) /\ pods[n].phase = "Running"
        /\ ipHolder'[n] = pods[n].incarnation
  /\ DeletionTold(n, 5) => DeletionTold(n, 5)' \/ ipHolder'[n] = None
  /\ IpTold(n) => IpTold(n)' \/ Addressed(n)

CheckEffect(n) ==
  /\ \/ checkTimer'[n] = checkTimer[n]
     \/ /\ checkTimer'[n] = None
        /\ \/ Removed(n) \/ EndTold(n)'
           \/ Same(n) /\ ~(Exists(n) /\ pods[n].terminating)
     \/ /\ Same(n) /\ Exists(n) /\ pods[n].terminating /\ checkTimer'[n] # None
        /\ checkTimer'[n].incarnation = pods[n].incarnation
  /\ EndTold(n) =>
       \/ EndTold(n)' \/ Removed(n) \/ checkTimer'[n] # None
       \/ Same(n) /\ ~(Exists(n) /\ pods[n].terminating)

StartEffect(n) ==
  /\ \/ startTimer'[n] = startTimer[n]
     \/ startTimer'[n] = None /\ (Started(n) \/ (Same(n) /\ ~MayStart(n)))
     \/ startTimer'[n] = pods[n].incarnation /\ Same(n) /\ MayStart(n)
  /\ DeletionTold(n, 3) => DeletionTold(n, 3)' \/ startTimer'[n] = None
  /\ ArmWaits(n) => ArmWaits(n)' \/ startTimer'[n] # None
  /\ StartTold(n) =>
       \/ StartTold(n)' \/ Reported(n)
       \/ Same(n) /\ (MayStart(n) <=> startTimer'[n] # None)

Effects(n) ==
  /\ BindEffect(n)
  /\ ProcEffect(n)
  /\ IpEffect(n)
  /\ CheckEffect(n)
  /\ StartEffect(n)

\* One name changes in a step, if any.
Small ==
  \/ \A n \in Ordinals : Same(n)
  \/ \E n \in Ordinals : Changes(n) /\ \A m \in Ordinals \ {n} : Same(m)

-------------------------------------------------------------------------------
(* The effects keep what is invariant of a name *)

\* The hypotheses shared by the lemmas of this section
Progress(n) ==
  /\ StoreOK /\ StoreOK'
  /\ set'.spec = set.spec
  /\ NameInv(n)
  /\ FramesHold /\ FramesHold'
  /\ Same(n) \/ Changes(n)
  /\ Effects(n)

LEMMA PhaseOfPod ==
  ASSUME StoreOK, NEW n \in Ordinals, Exists(n)
  PROVE  /\ pods[n].phase \in {"Pending", "Running"}
         /\ pods[n].incarnation \in Nat
         /\ pods[n].terminating \in BOOLEAN /\ pods[n].bound \in BOOLEAN
         /\ pods[n].ip \in BOOLEAN
         /\ pods[n].template \in Templates
BY ExistingPod DEF Pods

LEMMA NoneIsNoNumber == None \notin Nat
BY NoneAssumption

LEMMA IdleTellsNobody ==
  ASSUME IInv, Idle
  PROVE  \A n \in Ordinals :
           /\ \A i : ~DeletionTold(n, i)
           /\ ~BoundDeletionTold(n) /\ ~StartTold(n) /\ ~EndTold(n)
           /\ ~IpTold(n) /\ ~ArmWaits(n)
<1>1. On(stack) = {}
  BY NothingOnIdle DEF Idle
<1>2. queue["PodLifecycle"] = << >> /\ queue["PodTermination"] = << >>
  BY IdleIsDrained DEF Controllers
<1>3. \A n : ~KeyIn("PodLifecycle", n) /\ ~KeyIn("PodTermination", n)
  BY <1>2 DEF KeyIn
<1> QED
  BY <1>1, <1>3 DEF DeletionTold, BoundDeletionTold, StartTold, EndTold, IpTold,
     ArmWaits

LEMMA SoundKept ==
  ASSUME NEW n \in Ordinals, Progress(n)
  PROVE  PodIsSound(n)'
<1> USE DEF Progress, NameInv
<1>1. SUFFICES ASSUME Exists(n)'
               PROVE  /\ pods'[n].incarnation = incarnation'[n]
                      /\ pods'[n].phase = "Running" =>
                           /\ pods'[n].bound
                           /\ pods'[n].ip => ipHolder'[n] = pods'[n].incarnation
                           /\ pods'[n].template \in Long => ProcessRuns(n)'
                      /\ pods'[n].phase = "Pending" => ~pods'[n].ip
  BY DEF PodIsSound
<1>2. CASE Born(n)
  BY <1>2 DEF Born
<1>3. ASSUME ~Born(n)
      PROVE  /\ Exists(n) /\ PodIsSound(n)
             /\ pods'[n].incarnation = pods[n].incarnation
             /\ incarnation'[n] = incarnation[n]
             /\ pods'[n].template = pods[n].template
  BY <1>1, <1>3 DEF Same, Changes, Marked, Reported, Addressed, Removed, Bound,
     Started, Aged, Stays, Exists
<1>4. CASE Started(n)
  BY <1>3, <1>4 DEF Started, PodIsSound, ShouldProgress, Born
<1>5. ASSUME ~Born(n), ~Started(n)
      PROVE  /\ pods'[n].incarnation = incarnation'[n]
             /\ pods'[n].phase = "Running" =>
                  /\ pods'[n].bound
                  /\ pods'[n].ip => ipHolder'[n] = pods'[n].incarnation
                  /\ pods'[n].template \in Long => ProcessRuns(n)'
             /\ pods'[n].phase = "Pending" => ~pods'[n].ip
  <2>1. /\ pods'[n].phase = pods[n].phase
        /\ pods[n].bound => pods'[n].bound
        /\ pods'[n].ip => pods[n].ip \/ Addressed(n)
    BY <1>1, <1>5 DEF Same, Changes, Marked, Reported, Addressed, Removed, Bound,
       Aged, Stays, SamePod
  <2>2. pods'[n].phase = "Running" /\ pods'[n].ip =>
          ipHolder'[n] = pods'[n].incarnation
    <3>1. Addressed(n) => ipHolder'[n] = pods[n].incarnation
      BY DEF Addressed
    <3>2. pods[n].phase = "Running" /\ pods[n].ip =>
            ipHolder[n] = pods[n].incarnation
      BY <1>3, <1>5 DEF PodIsSound
    <3> QED
      BY <1>3, <1>5, <2>1, <3>1, <3>2 DEF Effects, IpEffect
  <2>3. pods'[n].phase = "Running" /\ pods'[n].template \in Long =>
          ProcessRuns(n)'
    <3>1. SUFFICES ASSUME pods'[n].phase = "Running", pods'[n].template \in Long
                   PROVE  ProcessRuns(n)'
      OBVIOUS
    <3>2. ProcessRuns(n)
      BY <1>3, <1>5, <2>1, <3>1 DEF PodIsSound
    <3>3. proc'[n] = proc[n]
      BY <1>3, <1>5, <2>1, <3>1, ProcessAssumption DEF Effects, ProcEffect
    <3> QED
      BY <3>2, <3>3 DEF ProcessRuns
  <2>4. pods'[n].phase = "Pending" => ~pods'[n].ip
    BY <1>3, <1>5, <2>1 DEF Addressed, PodIsSound
  <2> QED
    BY <1>3, <1>5, <2>1, <2>2, <2>3, <2>4 DEF PodIsSound
<1> QED
  BY <1>2, <1>4, <1>5

\* What a name's pod can have become, for the kinds of change that leave it
LEMMA StaysOrGoes ==
  ASSUME NEW n \in Ordinals, Same(n) \/ Changes(n), Exists(n)
  PROVE  /\ Removed(n) \/ Stays(n)
         /\ Stays(n) =>
              /\ pods'[n].phase = pods[n].phase \/ Started(n)
              /\ (pods'[n].bound <=> pods[n].bound) \/ Bound(n) \/ Started(n)
              /\ pods'[n].terminating => pods[n].terminating \/ Marked(n)
              /\ pods[n].terminating => pods'[n].terminating
              /\ (pods'[n].ip <=> pods[n].ip) \/ Addressed(n)
<1>1. CASE Same(n)
  BY <1>1 DEF Same, Stays, Exists
<1>2. CASE Changes(n) /\ ~Removed(n)
  BY <1>2 DEF Changes, Born, Marked, Reported, Addressed, Bound, Started, Aged,
     Stays, Exists, SamePod, MayStart
<1>3. CASE Removed(n)
  BY <1>3 DEF Removed, Stays
<1> QED
  BY <1>1, <1>2, <1>3

LEMMA StartDueKept ==
  ASSUME NEW n \in Ordinals, IInv, Progress(n)
  PROVE  StartIsDue(n)'
<1> USE DEF Progress, NameInv
<1>1. SUFFICES ASSUME startTimer'[n] # None
               PROVE  \/ /\ Exists(n)' /\ ShouldProgress(pods'[n])
                         /\ startTimer'[n] = pods'[n].incarnation
                         /\ pods'[n].terminating => StartTold(n)'
                      \/ DeletionTold(n, 3)'
  BY DEF StartIsDue
<1>2. StartEffect(n)
  BY DEF Effects
<1>3. CASE startTimer'[n] # startTimer[n]
  <2>1. startTimer'[n] = pods[n].incarnation /\ Same(n) /\ MayStart(n)
    BY <1>1, <1>2, <1>3 DEF StartEffect
  <2> QED
    BY <2>1 DEF Same, MayStart, Exists
<1>4. CASE startTimer'[n] = startTimer[n] /\ DeletionTold(n, 3)
  BY <1>1, <1>2, <1>4 DEF StartEffect
<1>5. CASE startTimer'[n] = startTimer[n] /\ ~DeletionTold(n, 3)
  <2>1. /\ Exists(n) /\ ShouldProgress(pods[n])
        /\ startTimer[n] = pods[n].incarnation
        /\ pods[n].terminating => StartTold(n)
    BY <1>1, <1>5 DEF StartIsDue
  <2>2. CASE Removed(n)
    <3>1. DeletionTold(n, 3)'
      BY <2>2 DEF Removed, DeletionTold
    <3> QED
      BY <3>1
  <2>3. CASE Stays(n)
    <3>1. ~Started(n) /\ ~Bound(n)
      BY <1>1, <2>1 DEF Started, Bound, ShouldProgress
    <3>2. ShouldProgress(pods'[n])
      BY <2>1, <2>3, <3>1, StaysOrGoes DEF ShouldProgress
    <3>3. startTimer'[n] = pods'[n].incarnation
      BY <1>5, <2>1, <2>3 DEF Stays
    <3>4. ASSUME pods'[n].terminating
          PROVE  StartTold(n)'
      <4>1. CASE Marked(n)
        <5>1. UpdateTold(n)
          BY <4>1 DEF Marked
        <5> QED
          BY <3>2, <5>1 DEF UpdateTold, StartTold
      <4>2. CASE ~Marked(n)
        <5>1. pods[n].terminating /\ ~MayStart(n)
          BY <2>1, <2>3, <3>4, <4>2, StaysOrGoes DEF MayStart
        <5>2. StartTold(n) /\ ~Reported(n)
          BY <2>1, <5>1 DEF Reported
        <5> QED
          BY <1>1, <1>2, <5>1, <5>2 DEF StartEffect
      <4> QED
        BY <4>1, <4>2
    <3> QED
      BY <2>3, <3>2, <3>3, <3>4 DEF Stays
  <2> QED
    BY <2>1, <2>2, <2>3, StaysOrGoes
<1> QED
  BY <1>3, <1>4, <1>5

LEMMA StartComingKept ==
  ASSUME NEW n \in Ordinals, IInv, Progress(n),
         Bound(n) => pods[n].terminating \/ Suits(n)
  PROVE  StartIsComing(n)'
<1> USE DEF Progress, NameInv
<1>1. SUFFICES ASSUME MayStart(n)', startTimer'[n] = None
               PROVE  Suits(n)' /\ (StartTold(n)' \/ ArmWaits(n)')
  BY DEF StartIsComing
<1>2. StartEffect(n)
  BY DEF Effects
<1>3. /\ Exists(n)' /\ ~pods'[n].terminating
      /\ pods'[n].phase = "Pending" /\ pods'[n].bound
  BY <1>1 DEF MayStart, ShouldProgress
<1>4. ~Born(n) /\ ~Marked(n) /\ ~Started(n) /\ ~Removed(n)
  BY <1>3 DEF Born, Marked, Started, Removed
<1>5. Exists(n)
  BY <1>3, <1>4 DEF Same, Changes, Reported, Addressed, Bound, Aged, Exists, Stays
<1>6. /\ Stays(n) /\ ~pods[n].terminating /\ pods[n].phase = "Pending"
      /\ pods[n].bound \/ Bound(n)
  BY <1>3, <1>4, <1>5, StaysOrGoes
<1>7. Suits(n) => Suits(n)'
  BY <1>3, <1>6 DEF Suits, Stays
<1>8. CASE Bound(n)
  <2>1. Suits(n)'
    BY <1>6, <1>7, <1>8
  <2>2. StartTold(n)'
    BY <1>3, <1>8 DEF Bound, UpdateTold, StartTold, ShouldProgress
  <2> QED
    BY <2>1, <2>2
<1>9. CASE Reported(n)
  BY <1>7, <1>9 DEF Reported
<1>10. CASE ~Bound(n) /\ ~Reported(n)
  <2>1. MayStart(n)
    BY <1>5, <1>6, <1>10 DEF MayStart, ShouldProgress
  <2>2. startTimer[n] = None
    BY <1>1, <1>2, <1>4, <1>5, <2>1, PhaseOfPod, NoneIsNoNumber DEF StartEffect
  <2>3. Suits(n) /\ (StartTold(n) \/ ArmWaits(n))
    BY <2>1, <2>2 DEF StartIsComing
  <2>4. StartTold(n)' \/ ArmWaits(n)'
    BY <1>1, <1>2, <1>10, <2>1, <2>3 DEF StartEffect
  <2> QED
    BY <1>7, <2>3, <2>4
<1> QED
  BY <1>8, <1>9, <1>10

LEMMA AddressComingKept ==
  ASSUME NEW n \in Ordinals, IInv, Progress(n)
  PROVE  AddressIsComing(n)'
<1> USE DEF Progress, NameInv
<1>1. SUFFICES ASSUME Exists(n)', pods'[n].phase = "Running", ~pods'[n].ip
               PROVE  IpTold(n)'
  BY DEF AddressIsComing
<1>2. CASE Started(n)
  BY <1>1, <1>2 DEF Started, UpdateTold, IpTold, NeedsIp, Carries
<1>3. CASE ~Started(n)
  <2>1. ~Born(n) /\ ~Removed(n) /\ ~Addressed(n)
    BY <1>1 DEF Born, Removed, Addressed
  <2>2. Exists(n)
    BY <1>1, <1>3, <2>1 DEF Same, Changes, Marked, Reported, Bound, Aged, Exists,
       Stays
  <2>3. pods[n].phase = "Running" /\ ~pods[n].ip
    BY <1>1, <1>3, <2>1, <2>2, StaysOrGoes
  <2>4. IpTold(n)
    BY <2>2, <2>3 DEF AddressIsComing
  <2> QED
    BY <2>1, <2>4 DEF Effects, IpEffect
<1> QED
  BY <1>2, <1>3

LEMMA CheckKept ==
  ASSUME NEW n \in Ordinals, IInv, Progress(n)
  PROVE  CheckIsDue(n)'
<1> USE DEF Progress, NameInv
<1>1. CheckEffect(n)
  BY DEF Effects
<1>2. ASSUME checkTimer'[n] # None
      PROVE  /\ Exists(n)' /\ pods'[n].terminating
             /\ checkTimer'[n].incarnation = pods'[n].incarnation
  <2>1. CASE checkTimer'[n] # checkTimer[n]
    BY <1>1, <1>2, <2>1 DEF CheckEffect, Same, Exists
  <2>2. CASE checkTimer'[n] = checkTimer[n]
    <3>1. /\ Exists(n) /\ pods[n].terminating
          /\ checkTimer[n].incarnation = pods[n].incarnation
      BY <1>2, <2>2 DEF CheckIsDue
    <3>2. ~Removed(n)
      BY <1>2 DEF Removed
    <3>3. Stays(n) /\ pods'[n].terminating
      BY <3>1, <3>2, StaysOrGoes
    <3> QED
      BY <2>2, <3>1, <3>3 DEF Stays
  <2> QED
    BY <2>1, <2>2
<1>3. ASSUME Exists(n)', pods'[n].terminating
      PROVE  checkTimer'[n] # None \/ EndTold(n)'
  <2>1. CASE Marked(n)
    BY <1>3, <2>1 DEF Marked, UpdateTold, EndTold
  <2>2. CASE ~Marked(n)
    <3>1. ~Born(n) /\ ~Removed(n)
      BY <1>3 DEF Born, Removed
    <3>2. Exists(n)
      BY <1>3, <2>2, <3>1 DEF Same, Changes, Reported, Addressed, Bound, Started,
         Aged, Exists, Stays
    <3>3. pods[n].terminating
      BY <1>3, <2>2, <3>1, <3>2, StaysOrGoes
    <3>4. checkTimer[n] # None \/ EndTold(n)
      BY <3>2, <3>3 DEF CheckIsDue
    <3> QED
      BY <1>1, <3>1, <3>2, <3>3, <3>4 DEF CheckEffect
  <2> QED
    BY <2>1, <2>2
<1> QED
  BY <1>2, <1>3 DEF CheckIsDue

LEMMA HoldingsKept ==
  ASSUME NEW n \in Ordinals, IInv, Progress(n)
  PROVE  HoldingsAreIts(n)'
<1> USE DEF Progress, NameInv
<1>1. BindEffect(n) /\ ProcEffect(n) /\ IpEffect(n)
  BY DEF Effects
<1>2. ASSUME Removed(n)
      PROVE  /\ DeletionTold(n, 2)' /\ DeletionTold(n, 5)'
             /\ pods[n].bound => BoundDeletionTold(n)'
  BY <1>2 DEF Removed, DeletionTold, BoundDeletionTold
<1>3. ASSUME bindTimer'[n] # None
      PROVE  \/ Exists(n)' /\ bindTimer'[n] = pods'[n].incarnation
             \/ DeletionTold(n, 2)'
  <2>1. CASE bindTimer'[n] # bindTimer[n]
    BY <1>1, <1>3, <2>1 DEF BindEffect, Same, Exists
  <2>2. CASE bindTimer'[n] = bindTimer[n] /\ ~DeletionTold(n, 2)
    <3>1. Exists(n) /\ bindTimer[n] = pods[n].incarnation
      BY <1>3, <2>2 DEF HoldingsAreIts
    <3> QED
      BY <1>2, <2>2, <3>1, StaysOrGoes DEF Stays
  <2>3. CASE bindTimer'[n] = bindTimer[n] /\ DeletionTold(n, 2)
    BY <1>1, <1>3, <2>3 DEF BindEffect
  <2> QED
    BY <2>1, <2>2, <2>3
<1>4. ASSUME proc'[n] # None
      PROVE  \/ /\ Exists(n)' /\ pods'[n].phase = "Running"
                /\ proc'[n].incarnation = pods'[n].incarnation
             \/ BoundDeletionTold(n)'
  <2>1. CASE Started(n)
    BY <1>4, <2>1 DEF Started, Stays
  <2>2. CASE ~Started(n) /\ BoundDeletionTold(n)
    BY <1>1, <1>4, <2>2 DEF ProcEffect
  <2>3. CASE ~Started(n) /\ ~BoundDeletionTold(n)
    <3>1. /\ proc[n] # None
          /\ proc'[n].incarnation = proc[n].incarnation
      BY <1>1, <1>4, <2>3 DEF ProcEffect
    <3>2. /\ Exists(n) /\ pods[n].phase = "Running"
          /\ proc[n].incarnation = pods[n].incarnation
      BY <2>3, <3>1 DEF HoldingsAreIts
    <3>3. pods[n].bound
      BY <3>2 DEF PodIsSound
    <3>4. CASE Removed(n)
      BY <1>2, <3>3, <3>4
    <3>5. CASE Stays(n)
      BY <2>3, <3>1, <3>2, <3>5, StaysOrGoes DEF Stays
    <3> QED
      BY <3>2, <3>4, <3>5, StaysOrGoes
  <2> QED
    BY <2>1, <2>2, <2>3
<1>5. ASSUME ipHolder'[n] # None
      PROVE  \/ /\ Exists(n)' /\ pods'[n].phase = "Running"
                /\ ipHolder'[n] = pods'[n].incarnation
             \/ DeletionTold(n, 5)'
  <2>1. CASE Addressed(n)
    BY <2>1 DEF Addressed, Stays, SamePod
  <2>2. CASE ~Addressed(n) /\ ipHolder'[n] # ipHolder[n]
    BY <1>1, <1>5, <2>2 DEF IpEffect, Same, Exists
  <2>3. CASE ~Addressed(n) /\ ipHolder'[n] = ipHolder[n] /\ ~DeletionTold(n, 5)
    <3>1. /\ Exists(n) /\ pods[n].phase = "Running"
          /\ ipHolder[n] = pods[n].incarnation
      BY <1>5, <2>3 DEF HoldingsAreIts
    <3>2. ~Started(n)
      BY <3>1 DEF Started, ShouldProgress
    <3> QED
      BY <1>2, <2>3, <3>1, <3>2, StaysOrGoes DEF Stays
  <2>4. CASE ~Addressed(n) /\ ipHolder'[n] = ipHolder[n] /\ DeletionTold(n, 5)
    BY <1>1, <1>5, <2>4 DEF IpEffect
  <2> QED
    BY <2>1, <2>2, <2>3, <2>4
<1> QED
  BY <1>3, <1>4, <1>5 DEF HoldingsAreIts

LEMMA NameKept ==
  ASSUME NEW n \in Ordinals, IInv, Progress(n),
         Bound(n) => pods[n].terminating \/ Suits(n)
  PROVE  NameInv(n)'
BY StartDueKept, StartComingKept, AddressComingKept, SoundKept, CheckKept,
   HoldingsKept DEF NameInv

-------------------------------------------------------------------------------
(* The effects keep what the frames of the stack rely on *)

LEMMA ReadStays ==
  ASSUME NEW f \in Frames, f.op = "set", ReadHolds(f), set'.spec = set.spec,
         NEW g \in Frames, g.op = "set", g.read = f.read, g.next >= f.next,
         f.next \in Nat, g.next \in Nat,
         \A m \in Ordinals : Same(m) \/ Changes(m),
         \A m \in Ordinals : m >= g.next => ~Born(m)
  PROVE  ReadHolds(g)'
<1>1. SUFFICES ASSUME NEW m \in Ordinals, m >= g.next
               PROVE  IF f.read[m] = None
                      THEN ~Exists(m)'
                      ELSE Exists(m)' =>
                             /\ pods'[m].template = f.read[m].template
                             /\ f.read[m].terminating => pods'[m].terminating
  BY DEF ReadHolds
<1>2. m >= f.next
  BY <1>1, SizeAssumption DEF Ordinals
<1>3. IF f.read[m] = None
      THEN ~Exists(m)
      ELSE Exists(m) =>
             /\ pods[m].template = f.read[m].template
             /\ f.read[m].terminating => pods[m].terminating
  BY <1>2 DEF ReadHolds
<1>4. Exists(m)' => Exists(m)
  BY <1>1 DEF Same, Changes, Marked, Reported, Addressed, Removed, Bound, Started,
     Aged, Stays, Exists
<1>5. ASSUME Exists(m)'
      PROVE  Stays(m)
  BY <1>4, <1>5, StaysOrGoes DEF Removed
<1> QED
  BY <1>3, <1>4, <1>5, StaysOrGoes DEF Stays

LEMMA SuitsStays ==
  ASSUME NEW n \in Ordinals, Same(n) \/ Changes(n), ~Idle, set'.spec = set.spec,
         Suits(n)
  PROVE  Suits(n)' /\ Stays(n) /\ pods'[n].phase = pods[n].phase
         /\ (pods'[n].bound <=> pods[n].bound)
<1>1. ~Marked(n) /\ ~Removed(n) /\ ~Started(n) /\ ~Bound(n)
  BY DEF Marked, Removed, Started, Bound, Suits
<1>2. Stays(n) /\ ~pods'[n].terminating
  BY <1>1, StaysOrGoes DEF Suits
<1> QED
  BY <1>1, <1>2, StaysOrGoes DEF Suits, Stays

\* A frame below the one that runs can go on relying on what it did.
LEMMA HoldsStays ==
  ASSUME IInv, ~Idle, \A m \in Ordinals : Same(m) \/ Changes(m),
         set'.spec = set.spec,
         NEW f \in Frames, Holds(f), f.op = "set" => Head(stack).op # "set"
  PROVE  Holds(f)'
<1>1. ASSUME f.op = "set"
      PROVE  ReadHolds(f)'
  <2>1. \A m \in Ordinals : ~Born(m)
    BY <1>1 DEF Born
  <2>2. f.next \in Nat
    BY <1>1, SizeAssumption DEF Frames
  <2>3. ReadHolds(f)
    BY <1>1 DEF Holds
  <2>4. f.next >= f.next
    BY <2>2
  <2> QED
    BY <1>1, <2>1, <2>2, <2>3, <2>4, ReadStays
<1>2. ASSUME f.op = "arm"
      PROVE  ArmHolds(f)'
  <2>1. f.name \in Ordinals
    BY <1>2 DEF Frames
  <2>2. ArmHolds(f)
    BY <1>2 DEF Holds
  <2> QED
    BY <2>1, <2>2, SuitsStays DEF ArmHolds, ShouldProgress, Stays
<1>3. ASSUME f.op = "deliver", f.event.type = "PodDeleted"
      PROVE  DeletionHolds(f.event.name)'
  <2> DEFINE n == f.event.name
  <2>1. n \in Ordinals
    BY <1>3 DEF Frames, Events
  <2> HIDE DEF n
  <2>2. DeletionHolds(n)
    BY <1>3 DEF Holds, n
  <2>3. ASSUME Exists(n)
        PROVE  DeletionHolds(n)'
    BY <2>1, <2>2, <2>3, SuitsStays DEF DeletionHolds
  <2>4. ASSUME ~Exists(n), Born(n)
        PROVE  DeletionHolds(n)'
    <3>1. set'.spec = set.spec
      OBVIOUS
    <3> QED
      BY <2>4, <3>1 DEF Born, DeletionHolds, Suits
  <2>5. ASSUME ~Exists(n), ~Born(n)
        PROVE  DeletionHolds(n)'
    <3>1. ~Exists(n)'
      BY <2>1, <2>5 DEF Same, Changes, Marked, Reported, Addressed, Removed, Bound,
         Started, Aged, Stays, Exists
    <3> QED
      BY <3>1 DEF DeletionHolds
  <2>6. DeletionHolds(n)'
    BY <2>3, <2>4, <2>5
  <2> QED
    BY <2>6 DEF n
<1>4. ASSUME f.op = "deliver", f.event.type = "PodUpdated",
             f.event.pod.phase = "Running"
      PROVE  RunningHolds(f.event.name, f.event.pod)'
  <2> DEFINE n == f.event.name
             pod == f.event.pod
  <2>1. n \in Ordinals
    BY <1>4 DEF Frames, Events
  <2>2. RunningHolds(n, pod)
    BY <1>4 DEF Holds
  <2> HIDE DEF n, pod
  <2>3. ~Started(n) /\ ~Bound(n) /\ ~Aged(n)
    BY DEF Started, Bound, Aged
  <2>4. ~Removed(n)
    BY <2>2 DEF Removed, RunningHolds
  <2>5. Stays(n) /\ pods'[n].phase = "Running"
    BY <2>1, <2>2, <2>3, <2>4, StaysOrGoes DEF RunningHolds
  <2>6. pods'[n].terminating => age'[n] = 0
    <3>1. CASE Marked(n)
      BY <3>1 DEF Marked
    <3>2. CASE ~Marked(n)
      <4>1. pods'[n].terminating => pods[n].terminating
        BY <2>1, <2>5, <3>2, StaysOrGoes DEF Stays
      <4>2. age'[n] = age[n]
        BY <2>1, <2>2, <2>3, <2>4, <3>2 DEF Same, Changes, Born, Reported, Addressed,
           RunningHolds
      <4> QED
        BY <2>2, <4>1, <4>2 DEF RunningHolds
    <3> QED
      BY <3>1, <3>2
  <2>7. ASSUME ~pod.ip
        PROVE  Suits(n)' /\ SamePod(pods'[n], pod) /\ ~pod.terminating
    <3>1. Suits(n) /\ SamePod(pods[n], pod) /\ ~pod.terminating
      BY <2>2, <2>7 DEF RunningHolds
    <3>2. Suits(n)' /\ pods'[n].bound = pods[n].bound
      <4>1. ~Marked(n)
        BY <3>1 DEF Marked
      <4>2. SamePod(pods'[n], pods[n])
        BY <2>1, <2>2, <2>3, <2>4, <4>1 DEF Same, Changes, Born, Reported, Addressed,
           SamePod, RunningHolds
      <4> QED
        BY <2>1, <3>1, <4>2, SuitsStays DEF SamePod
    <3> QED
      BY <2>2, <2>5, <3>1, <3>2 DEF SamePod, Stays, RunningHolds
  <2>8. RunningHolds(n, pod)'
    BY <2>2, <2>5, <2>6, <2>7 DEF RunningHolds, Stays
  <2> QED
    BY <2>8 DEF n, pod
<1> QED
  BY <1>1, <1>2, <1>3, <1>4 DEF Holds

-------------------------------------------------------------------------------
(* What is still told after a step *)

KeptBind(n) == DeletionTold(n, 2) => DeletionTold(n, 2)'
KeptProc(n) == BoundDeletionTold(n) => BoundDeletionTold(n)'
KeptIp(n) ==
  /\ DeletionTold(n, 5) => DeletionTold(n, 5)'
  /\ IpTold(n) => IpTold(n)'
KeptCheck(n) == EndTold(n) => EndTold(n)'
KeptStart(n) ==
  /\ DeletionTold(n, 3) => DeletionTold(n, 3)'
  /\ ArmWaits(n) => ArmWaits(n)'
  /\ StartTold(n) => StartTold(n)'
KeptAll(n) ==
  KeptBind(n) /\ KeptProc(n) /\ KeptIp(n) /\ KeptCheck(n) /\ KeptStart(n)

LEMMA QuietEffects ==
  ASSUME NEW n \in Ordinals
  PROVE  /\ bindTimer'[n] = bindTimer[n] /\ KeptBind(n) => BindEffect(n)
         /\ proc'[n] = proc[n] /\ KeptProc(n) => ProcEffect(n)
         /\ ipHolder'[n] = ipHolder[n] /\ KeptIp(n) => IpEffect(n)
         /\ checkTimer'[n] = checkTimer[n] /\ KeptCheck(n) => CheckEffect(n)
         /\ startTimer'[n] = startTimer[n] /\ KeptStart(n) => StartEffect(n)
<1>1. bindTimer'[n] = bindTimer[n] /\ KeptBind(n) => BindEffect(n)
  BY DEF KeptBind, BindEffect
<1>2. proc'[n] = proc[n] /\ KeptProc(n) => ProcEffect(n)
  BY DEF KeptProc, ProcEffect
<1>3. ipHolder'[n] = ipHolder[n] /\ KeptIp(n) => IpEffect(n)
  BY DEF KeptIp, IpEffect
<1>4. checkTimer'[n] = checkTimer[n] /\ KeptCheck(n) => CheckEffect(n)
  BY DEF KeptCheck, CheckEffect
<1>5. startTimer'[n] = startTimer[n] /\ KeptStart(n) => StartEffect(n)
  BY DEF KeptStart, StartEffect
<1> QED
  BY <1>1, <1>2, <1>3, <1>4, <1>5

\* A frame that tells nothing about n
Silent(frame, n) ==
  /\ ~Carries(frame, "PodDeleted", n)
  /\ ~Carries(frame, "PodUpdated", n)
  /\ ~(frame.op = "arm" /\ frame.name = n)

KeysKept(n) ==
  \A c \in {"PodLifecycle", "PodTermination"} : KeyIn(c, n) => KeyIn(c, n)'

LEMMA SilentKeeps ==
  ASSUME NEW n \in Ordinals, KeysKept(n),
         \A f \in On(stack) : Silent(f, n) \/ f \in On(stack')
  PROVE  KeptAll(n)
<1>1. \A i : DeletionTold(n, i) => DeletionTold(n, i)'
  BY DEF DeletionTold, Silent
<1>2. BoundDeletionTold(n) => BoundDeletionTold(n)'
  BY DEF BoundDeletionTold, Silent
<1>3. IpTold(n) => IpTold(n)'
  BY DEF IpTold, NeedsIp, Silent, Carries
<1>4. EndTold(n) => EndTold(n)'
  BY DEF EndTold, Silent, KeysKept
<1>5. ArmWaits(n) => ArmWaits(n)'
  BY DEF ArmWaits, Silent
<1>6. StartTold(n) => StartTold(n)'
  BY DEF StartTold, Silent, KeysKept
<1> QED
  BY <1>1, <1>2, <1>3, <1>4, <1>5, <1>6
     DEF KeptAll, KeptBind, KeptProc, KeptIp, KeptCheck, KeptStart

\* The frame that follows a delivery.
Heir(frame) == Delivery(frame.event, frame.to + 1)

\* A delivery that goes on loses only what it had to tell at its place.
LEMMA DeliveryKeeps ==
  ASSUME NEW n \in Ordinals, KeysKept(n),
         NEW frame \in Frames, frame.op = "deliver",
         \A f \in On(stack) : f = frame \/ f \in On(stack'),
         frame.to = 5 \/ Heir(frame) \in On(stack')
  PROVE  /\ frame.to # 2 => KeptBind(n)
         /\ frame.to # 3 => KeptProc(n) /\ KeptStart(n)
         /\ frame.to # 4 => KeptCheck(n)
         /\ frame.to # 5 => KeptIp(n)
<1> DEFINE heir == Heir(frame)
<1>1. frame.to \in 1..5
  BY DEF Frames
<1>2. heir.op = "deliver" /\ heir.event = frame.event /\ heir.to = frame.to + 1
  BY DEF Heir, Delivery
<1>3. frame.to # 5 => heir \in On(stack')
  OBVIOUS
<1> HIDE DEF heir
<1>4. \A i \in 1..5 :
        frame.to # i => (frame.to <= i => heir \in On(stack') /\ heir.to <= i)
  BY <1>1, <1>2, <1>3
<1>5. ASSUME NEW i \in 1..5, frame.to # i, DeletionTold(n, i)
      PROVE  DeletionTold(n, i)'
  <2>1. PICK f \in On(stack) : Carries(f, "PodDeleted", n) /\ f.to <= i
    BY <1>5 DEF DeletionTold
  <2>2. CASE f = frame
    BY <1>2, <1>4, <1>5, <2>1, <2>2 DEF DeletionTold, Carries
  <2>3. CASE f \in On(stack')
    BY <2>1, <2>3 DEF DeletionTold
  <2> QED
    BY <2>2, <2>3
<1>6. ASSUME frame.to # 3, BoundDeletionTold(n)
      PROVE  BoundDeletionTold(n)'
  <2>1. PICK f \in On(stack) :
          Carries(f, "PodDeleted", n) /\ f.to <= 3 /\ f.event.pod.bound
    BY <1>6 DEF BoundDeletionTold
  <2>2. CASE f = frame
    BY <1>2, <1>4, <1>6, <2>1, <2>2 DEF BoundDeletionTold, Carries
  <2>3. CASE f \in On(stack')
    BY <2>1, <2>3 DEF BoundDeletionTold
  <2> QED
    BY <2>2, <2>3
<1>7. ASSUME frame.to # 3, StartTold(n)
      PROVE  StartTold(n)'
  <2>1. CASE KeyIn("PodLifecycle", n)
    BY <2>1 DEF StartTold, KeysKept
  <2>2. CASE ~KeyIn("PodLifecycle", n)
    <3>1. PICK f \in On(stack) :
            Carries(f, "PodUpdated", n) /\ f.to <= 3 /\ ShouldProgress(f.event.pod)
      BY <1>7, <2>2 DEF StartTold
    <3>2. CASE f = frame
      BY <1>2, <1>4, <1>7, <3>1, <3>2 DEF StartTold, Carries
    <3>3. CASE f \in On(stack')
      BY <3>1, <3>3 DEF StartTold
    <3> QED
      BY <3>2, <3>3
  <2> QED
    BY <2>1, <2>2
<1>8. ASSUME frame.to # 4, EndTold(n)
      PROVE  EndTold(n)'
  <2>1. CASE KeyIn("PodTermination", n)
    BY <2>1 DEF EndTold, KeysKept
  <2>2. CASE ~KeyIn("PodTermination", n)
    <3>1. PICK f \in On(stack) :
            Carries(f, "PodUpdated", n) /\ f.to <= 4 /\ f.event.pod.terminating
      BY <1>8, <2>2 DEF EndTold
    <3>2. CASE f = frame
      BY <1>2, <1>4, <1>8, <3>1, <3>2 DEF EndTold, Carries
    <3>3. CASE f \in On(stack')
      BY <3>1, <3>3 DEF EndTold
    <3> QED
      BY <3>2, <3>3
  <2> QED
    BY <2>1, <2>2
<1>9. ASSUME frame.to # 5, IpTold(n)
      PROVE  IpTold(n)'
  <2>1. PICK f \in On(stack) : NeedsIp(f) /\ f.event.name = n
    BY <1>9 DEF IpTold
  <2>2. CASE f = frame
    BY <1>2, <1>3, <1>9, <2>1, <2>2 DEF IpTold, NeedsIp
  <2>3. CASE f \in On(stack')
    BY <2>1, <2>3 DEF IpTold
  <2> QED
    BY <2>2, <2>3
<1>10. ArmWaits(n) => ArmWaits(n)'
  BY DEF ArmWaits
<1> QED
  BY <1>5, <1>6, <1>7, <1>8, <1>9, <1>10
     DEF KeptBind, KeptProc, KeptIp, KeptCheck, KeptStart

-------------------------------------------------------------------------------
(* What functions put on the stack *)

LEMMA EmitShape ==
  ASSUME NEW event \in Events, NEW rest \in Seq(Frames), Emit(event, rest)
  PROVE  /\ Delivery(event, 1) \in Frames
         /\ On(stack') = {Delivery(event, 1)} \cup On(rest)
<1>1. 1 <= Len(Subscribers(event.type))
  BY DEF Events, Subscribers
<1>2. Delivery(event, 1) \in Frames
  BY <1>1, DeliveryFrame
<1> QED
  BY <1>2, OnPush DEF Emit

LEMMA EnqueueShape ==
  ASSUME QueueOK, NEW c \in Controllers, NEW key \in Keys(c),
         NEW rest \in Seq(Frames), Enqueue(c, key, rest)
  PROVE  /\ UNCHANGED <<pods, set, incarnation>>
         /\ On(rest) \subseteq On(stack')
         /\ \A f \in On(stack') : f \in On(rest) \/ f.op = "drain"
         /\ \A d \in Controllers : \A k : KeyIn(d, k) => KeyIn(d, k)'
         /\ KeyIn(c, key)'
<1> DEFINE known == \E i \in DOMAIN queue[c] : queue[c][i] = key
           added == IF known THEN queue[c] ELSE Append(queue[c], key)
           loop == [op |-> "drain", queue |-> c]
<1>1. /\ queue' = [queue EXCEPT ![c] = added]
      /\ stack' = <<loop>> \o rest \/ stack' = rest
      /\ UNCHANGED <<pods, set, incarnation>>
  BY DEF Enqueue, Return
<1>2. loop \in Frames /\ loop.op = "drain"
  BY DEF Frames
<1> HIDE DEF loop
<1>3. /\ On(rest) \subseteq On(stack')
      /\ \A f \in On(stack') : f \in On(rest) \/ f.op = "drain"
  BY <1>1, <1>2, OnPush
<1>4. queue[c] \in Seq(Keys(c))
  BY DEF QueueOK
<1>5. /\ \A i \in DOMAIN queue[c] : i \in DOMAIN added /\ added[i] = queue[c][i]
      /\ \E i \in DOMAIN added : added[i] = key
  <2>1. CASE known
    <3>1. added = queue[c]
      BY <2>1
    <3>2. \E i \in DOMAIN queue[c] : queue[c][i] = key
      BY <2>1
    <3> HIDE DEF added, known
    <3> QED
      BY <3>1, <3>2
  <2>2. CASE ~known
    <3>1. added = Append(queue[c], key)
      BY <2>2
    <3>2. /\ \A i \in 1..Len(queue[c]) : i \in 1..Len(added) /\ added[i] = queue[c][i]
          /\ Len(queue[c]) + 1 \in 1..Len(added)
          /\ added[Len(queue[c]) + 1] = key
      BY <1>4, <3>1
    <3>3. DOMAIN added = 1..Len(added) /\ DOMAIN queue[c] = 1..Len(queue[c])
      BY <1>4, <3>1
    <3> QED
      BY <3>2, <3>3
  <2> QED
    BY <2>1, <2>2
<1> HIDE DEF added
<1>6. queue'[c] = added /\ \A d \in Controllers \ {c} : queue'[d] = queue[d]
  BY <1>1 DEF QueueOK
<1>7. KeyIn(c, key)'
  BY <1>5, <1>6 DEF KeyIn
<1>8. ASSUME NEW d \in Controllers, NEW k, KeyIn(d, k)
      PROVE  KeyIn(d, k)'
  <2>1. CASE d = c
    BY <1>5, <1>6, <1>8, <2>1 DEF KeyIn
  <2>2. CASE d # c
    BY <1>6, <1>8, <2>2 DEF KeyIn
  <2> QED
    BY <2>1, <2>2
<1> QED
  BY <1>1, <1>3, <1>7, <1>8

LEMMA DequeueShape ==
  ASSUME QueueOK, NEW c \in Controllers, queue[c] # << >>,
         queue' = [queue EXCEPT ![c] = Tail(@)]
  PROVE  /\ Head(queue[c]) \in Keys(c)
         /\ \A d \in Controllers : \A k :
              KeyIn(d, k) => KeyIn(d, k)' \/ (d = c /\ k = Head(queue[c]))
<1>1. queue[c] \in Seq(Keys(c)) /\ queue[c] # << >>
  BY DEF QueueOK
<1>2. /\ Head(queue[c]) = queue[c][1]
      /\ Head(queue[c]) \in Keys(c)
      /\ Len(Tail(queue[c])) = Len(queue[c]) - 1
      /\ Tail(queue[c]) \in Seq(Keys(c))
      /\ \A i \in 1..Len(Tail(queue[c])) : Tail(queue[c])[i] = queue[c][i + 1]
  BY <1>1
<1>3. queue'[c] = Tail(queue[c]) /\ \A d \in Controllers \ {c} : queue'[d] = queue[d]
  BY DEF QueueOK
<1>4. ASSUME NEW k, KeyIn(c, k), k # Head(queue[c])
      PROVE  KeyIn(c, k)'
  <2>1. PICK i \in 1..Len(queue[c]) : queue[c][i] = k
    BY <1>1, <1>4 DEF KeyIn
  <2>2. i # 1
    BY <1>2, <1>4, <2>1
  <2>3. i - 1 \in 1..Len(Tail(queue[c])) /\ (i - 1) + 1 = i
    BY <1>1, <1>2, <2>2
  <2>4. Tail(queue[c])[i - 1] = k
    BY <1>2, <2>1, <2>3
  <2>5. DOMAIN Tail(queue[c]) = 1..Len(Tail(queue[c]))
    BY <1>2
  <2>6. i - 1 \in DOMAIN queue'[c] /\ queue'[c][i - 1] = k
    BY <1>3, <2>3, <2>4, <2>5
  <2> QED
    BY <2>6 DEF KeyIn
<1>5. ASSUME NEW d \in Controllers \ {c}, NEW k, KeyIn(d, k)
      PROVE  KeyIn(d, k)'
  BY <1>3, <1>5 DEF KeyIn
<1> QED
  BY <1>2, <1>4, <1>5

-------------------------------------------------------------------------------
(* The frames of the next stack *)

Lawful ==
  /\ set'.spec = set.spec
  /\ Small
  /\ \A n \in Ordinals : Effects(n)
  /\ FramesHold'

LEMMA SmallChanges ==
  ASSUME Small
  PROVE  \A m \in Ordinals : Same(m) \/ Changes(m)
BY DEF Small

\* The frames that rely on nothing
Free(frame) ==
  \/ frame.op \notin {"set", "arm", "deliver"}
  \/ frame.op = "deliver" /\ frame.event.type \notin {"PodUpdated", "PodDeleted"}
  \/ /\ frame.op = "deliver" /\ frame.event.type = "PodUpdated"
     /\ frame.event.pod.phase # "Running"

LEMMA FramesKept ==
  ASSUME IInv, FramesHold, ~Idle, Small, set'.spec = set.spec,
         \A f \in On(stack') :
           \/ f \in On(stack) /\ (f.op = "set" => Head(stack).op # "set")
           \/ f \in Frames /\ f.op = "deliver" /\ Holds(f)
           \/ Free(f)
           \/ Holds(f)'
  PROVE  FramesHold'
<1>1. ASSUME NEW f \in On(stack')
      PROVE  Holds(f)'
  <2>1. CASE f \in On(stack) /\ (f.op = "set" => Head(stack).op # "set")
    <3>1. f \in Frames /\ Holds(f)
      BY <2>1, OnFrames DEF IInv, Types, StackOK, FramesHold
    <3> QED
      BY <2>1, <3>1, SmallChanges, HoldsStays
  <2>2. CASE f \in Frames /\ f.op = "deliver" /\ Holds(f)
    <3>1. f.op = "set" => Head(stack).op # "set"
      BY <2>2
    <3> QED
      BY <2>2, <3>1, SmallChanges, HoldsStays
  <2>3. CASE Free(f)
    BY <2>3 DEF Free, Holds
  <2> QED
    BY <1>1, <2>1, <2>2, <2>3
<1> QED
  BY <1>1 DEF FramesHold

-------------------------------------------------------------------------------
(* Deliveries *)

Whole == Delays /\ IInv /\ OInv /\ BInv

\* What a delivery leaves on the stack for the subscribers still to be told
Passes(frame, after) ==
  /\ On(stack) = {frame} \cup On(Tail(stack))
  /\ On(Tail(stack)) \subseteq On(after)
  /\ \A f \in On(after) : f \in On(stack) \/ (f \in Frames /\ f = Heir(frame))
  /\ frame.event.type \in {"PodUpdated", "PodDeleted"} =>
       frame.to = 5 \/ Heir(frame) \in On(after)

\* The handler that is called
CallsOne(frame, after) ==
  \/ frame.to = 1 /\ HandleSet(frame.event, after)
  \/ /\ frame.event \in PodEvents
     /\ \/ frame.to = 2 /\ HandleScheduler(frame.event, after)
        \/ /\ frame.to = 3 \/ frame.event.type = "PodBound"
           /\ HandleLifecycle(frame.event, after)
        \/ frame.to = 4 /\ HandleTermination(frame.event, after)
        \/ frame.to = 5 /\ HandlePodIp(frame.event, after)

LEMMA DeliverPasses ==
  ASSUME IInv, ~Idle, NEW frame, frame = Head(stack), frame.op = "deliver",
         Deliver(frame, Tail(stack))
  PROVE  /\ frame \in Frames /\ frame \in On(stack)
         /\ frame.to \in 1..5
         /\ UNCHANGED age
         /\ \E after \in Seq(Frames) : Passes(frame, after) /\ CallsOne(frame, after)
<1> DEFINE rest == Tail(stack)
           to == Subscribers(frame.event.type)
           next == Heir(frame)
           after == IF frame.to = Len(to) THEN rest ELSE <<next>> \o rest
           subscriber == to[frame.to]
<1>1. /\ frame \in Frames /\ rest \in Seq(Frames)
      /\ On(stack) = {frame} \cup On(rest)
  BY OnPop DEF IInv, Types, StackOK, Idle
<1>2. /\ frame.event \in Events /\ frame.to \in 1..5 /\ frame.to <= Len(to)
  BY <1>1 DEF Frames
<1>3. /\ subscriber = "StatefulSet" => HandleSet(frame.event, after)
      /\ subscriber = "Scheduler" => HandleScheduler(frame.event, after)
      /\ subscriber = "PodLifecycle" => HandleLifecycle(frame.event, after)
      /\ subscriber = "PodTermination" => HandleTermination(frame.event, after)
      /\ subscriber = "PodIp" => HandlePodIp(frame.event, after)
      /\ UNCHANGED age
  BY DEF Deliver, Heir
<1>4. after \in Seq(Frames) /\ Passes(frame, after)
  <2>1. CASE frame.to = Len(to)
    <3>1. after = rest
      BY <2>1
    <3>2. frame.event.type \in {"PodUpdated", "PodDeleted"} => frame.to = 5
      BY <2>1 DEF Subscribers
    <3> HIDE DEF after
    <3> QED
      BY <1>1, <3>1, <3>2 DEF Passes
  <2>2. CASE frame.to # Len(to)
    <3>1. Len(to) \in Nat
      BY <1>2 DEF Events, Subscribers
    <3>2. frame.to + 1 \in Nat \ {0} /\ frame.to + 1 <= Len(to)
      BY <1>2, <2>2, <3>1
    <3>3. next \in Frames
      BY <1>2, <3>2, DeliveryFrame DEF Heir
    <3>4. after = <<next>> \o rest
      BY <2>2
    <3> HIDE DEF next, after
    <3>5. after \in Seq(Frames) /\ On(after) = {next} \cup On(rest)
      BY <1>1, <3>3, <3>4, OnPush
    <3> QED
      BY <1>1, <3>3, <3>5 DEF Passes, next
  <2> QED
    BY <2>1, <2>2
<1> HIDE DEF after
<1>5. /\ subscriber = "StatefulSet" => frame.to = 1
      /\ subscriber = "Scheduler" => frame.to = 2
      /\ subscriber = "PodLifecycle" => frame.to = 3 \/ frame.event.type = "PodBound"
      /\ subscriber = "PodTermination" => frame.to = 4
      /\ subscriber = "PodIp" => frame.to = 5
      /\ subscriber = "StatefulSet" \/ frame.event \in PodEvents
      /\ subscriber \in {"StatefulSet", "Scheduler", "PodLifecycle",
                         "PodTermination", "PodIp"}
  <2>1. CASE frame.event.type = "StatefulSetUpdated"
    BY <1>2, <2>1 DEF Subscribers
  <2>2. CASE frame.event.type # "StatefulSetUpdated"
    <3>1. /\ frame.event \in PodEvents
          /\ frame.event.type \in {"PodCreated", "PodUpdated", "PodBound", "PodDeleted"}
      BY <1>2, <2>2 DEF Events, PodEvents
    <3> HIDE DEF after
    <3> QED
      BY <1>2, <3>1 DEF Subscribers
  <2> QED
    BY <2>1, <2>2
<1>6. CallsOne(frame, after)
  <2> HIDE DEF subscriber
  <2> QED
    BY <1>3, <1>5 DEF CallsOne
<1> QED
  BY <1>1, <1>2, <1>3, <1>4, <1>6

LEMMA PassingKeeps ==
  ASSUME NEW n \in Ordinals, KeysKept(n),
         NEW frame \in Frames, frame.op = "deliver",
         NEW after, Passes(frame, after), On(after) \subseteq On(stack')
  PROVE  /\ Silent(frame, n) => KeptAll(n)
         /\ frame.to # 2 => KeptBind(n)
         /\ frame.to # 3 => KeptProc(n) /\ KeptStart(n)
         /\ frame.to # 4 => KeptCheck(n)
         /\ frame.to # 5 => KeptIp(n)
<1>1. \A f \in On(stack) : f = frame \/ f \in On(stack')
  BY DEF Passes
<1>2. Silent(frame, n) => KeptAll(n)
  BY <1>1, SilentKeeps
<1>3. CASE Silent(frame, n)
  BY <1>2, <1>3 DEF KeptAll
<1>4. CASE ~Silent(frame, n)
  <2>1. frame.event.type \in {"PodUpdated", "PodDeleted"}
    BY <1>4 DEF Silent, Carries
  <2>2. frame.to = 5 \/ Heir(frame) \in On(stack')
    BY <2>1 DEF Passes
  <2> QED
    BY <1>1, <1>2, <2>2, DeliveryKeeps
<1> QED
  BY <1>3, <1>4

LEMMA PassingFrames ==
  ASSUME IInv, FramesHold, ~Idle, Small, set'.spec = set.spec,
         NEW frame \in On(stack), frame = Head(stack), frame.op = "deliver",
         NEW after, Passes(frame, after),
         \A f \in On(stack') : f \in On(after) \/ Free(f) \/ Holds(f)'
  PROVE  FramesHold'
<1> DEFINE heir == Heir(frame)
<1>1. heir.op = "deliver" /\ heir.event = frame.event
  BY DEF Heir, Delivery
<1>2. Holds(frame)
  BY DEF FramesHold
<1>3. Holds(heir)
  <2> HIDE DEF heir
  <2> QED
    BY <1>1, <1>2 DEF Holds
<1>4. \A f \in On(after) : f \in On(stack) \/ (f \in Frames /\ f = heir)
  BY DEF Passes
<1> HIDE DEF heir
<1>5. ASSUME NEW f \in On(stack')
      PROVE  \/ f \in On(stack) /\ (f.op = "set" => Head(stack).op # "set")
             \/ f \in Frames /\ f.op = "deliver" /\ Holds(f)
             \/ Free(f)
             \/ Holds(f)'
  BY <1>1, <1>3, <1>4
<1> QED
  BY <1>5, FramesKept

LEMMA AllSame ==
  ASSUME UNCHANGED <<pods, incarnation, age>>
  PROVE  Small /\ \A n \in Ordinals : Same(n)
BY DEF Small, Same

\* A subscriber that queues the pod, or does nothing
Takes(c, key, after) ==
  Enqueue(c, key, after) \/ (Return(after) /\ UNCHANGED queue)

LEMMA TakesShape ==
  ASSUME QueueOK, NEW c \in Controllers, NEW key \in Keys(c),
         NEW after \in Seq(Frames), Takes(c, key, after)
  PROVE  /\ UNCHANGED <<pods, set, incarnation>>
         /\ On(after) \subseteq On(stack')
         /\ \A f \in On(stack') : f \in On(after) \/ Free(f)
         /\ \A n \in Ordinals : KeysKept(n)
<1>1. {"PodLifecycle", "PodTermination"} \subseteq Controllers
  BY DEF Controllers
<1>2. CASE Enqueue(c, key, after)
  BY <1>1, <1>2, EnqueueShape DEF Free, KeysKept
<1>3. CASE Return(after) /\ UNCHANGED queue
  BY <1>3 DEF Return, KeysKept, KeyIn
<1> QED
  BY <1>2, <1>3 DEF Takes

Delivering(frame, after) ==
  /\ Whole /\ ~Idle
  /\ frame = Head(stack) /\ frame.op = "deliver"
  /\ frame \in Frames /\ frame \in On(stack) /\ frame.to \in 1..5
  /\ after \in Seq(Frames) /\ Passes(frame, after)
  /\ UNCHANGED age

LEMMA TakesLawful ==
  ASSUME NEW frame, NEW after, Delivering(frame, after),
         NEW c \in Controllers, NEW key \in Keys(c), Takes(c, key, after),
         \A n \in Ordinals : Effects(n)
  PROVE  Lawful
<1> USE DEF Delivering, Whole, BInv
<1>1. /\ UNCHANGED <<pods, set, incarnation, age>>
      /\ \A f \in On(stack') : f \in On(after) \/ Free(f)
  BY TakesShape DEF IInv, Types
<1>2. Small /\ set'.spec = set.spec
  BY <1>1, AllSame
<1>3. FramesHold'
  BY <1>1, <1>2, PassingFrames
<1> QED
  BY <1>2, <1>3 DEF Lawful

LEMMA HandleSetLawful ==
  ASSUME NEW frame, NEW after, Delivering(frame, after), frame.to = 1,
         HandleSet(frame.event, after)
  PROVE  Lawful
<1> USE DEF Delivering
<1>1. /\ "StatefulSet" \in Controllers /\ "set" \in Keys("StatefulSet")
      /\ Takes("StatefulSet", "set", after)
      /\ UNCHANGED components
  BY DEF HandleSet, Takes, Controllers, Keys
<1>2. /\ On(after) \subseteq On(stack')
      /\ \A n \in Ordinals : KeysKept(n)
  BY <1>1, TakesShape DEF Whole, IInv, Types
<1>3. ASSUME NEW n \in Ordinals
      PROVE  Effects(n)
  <2>1. KeptAll(n)
    BY <1>2, PassingKeeps DEF KeptAll
  <2> QED
    BY <1>1, <2>1, QuietEffects DEF KeptAll, Effects, components
<1> QED
  BY <1>1, <1>3, TakesLawful

LEMMA HandleSchedulerLawful ==
  ASSUME NEW frame, NEW after, Delivering(frame, after), frame.to = 2,
         frame.event \in PodEvents, HandleScheduler(frame.event, after)
  PROVE  Lawful
<1> DEFINE m == frame.event.name
<1> USE DEF Delivering
<1>1. /\ "Scheduler" \in Controllers /\ m \in Keys("Scheduler") /\ m \in Ordinals
      /\ Takes("Scheduler", m, after)
      /\ UNCHANGED <<proc, ipHolder, startTimer, checkTimer>>
  BY DEF HandleScheduler, Takes, Controllers, Keys, PodEvents
<1>2. /\ On(after) \subseteq On(stack')
      /\ \A n \in Ordinals : KeysKept(n)
  BY <1>1, TakesShape DEF Whole, IInv, Types
<1>3. ASSUME NEW n \in Ordinals
      PROVE  BindEffect(n)
  <2>1. CASE frame.event.type = "PodDeleted"
    <3>1. bindTimer' = [bindTimer EXCEPT ![m] = None]
      BY <2>1 DEF HandleScheduler
    <3>2. DOMAIN bindTimer = Ordinals
      BY DEF Whole, IInv, Types, ComponentsOK, Named
    <3>3. CASE n = m
      BY <3>1, <3>2, <3>3 DEF BindEffect
    <3>4. CASE n # m
      <4>1. Silent(frame, n)
        BY <3>4 DEF Silent, Carries
      <4> QED
        BY <1>2, <3>1, <3>4, <4>1, PassingKeeps, QuietEffects DEF KeptAll
    <3> QED
      BY <3>3, <3>4
  <2>2. CASE frame.event.type # "PodDeleted"
    <3>1. UNCHANGED bindTimer
      BY <2>2 DEF HandleScheduler
    <3>2. KeptBind(n)
      BY <1>2, <2>2 DEF KeptBind, DeletionTold, Carries, Passes
    <3> QED
      BY <3>1, <3>2, QuietEffects
  <2> QED
    BY <2>1, <2>2
<1>4. ASSUME NEW n \in Ordinals
      PROVE  Effects(n)
  <2>1. KeptProc(n) /\ KeptIp(n) /\ KeptCheck(n) /\ KeptStart(n)
    BY <1>2, PassingKeeps
  <2> QED
    BY <1>1, <1>3, <2>1, QuietEffects DEF Effects
<1> QED
  BY <1>1, <1>4, TakesLawful

LEMMA HandleTerminationLawful ==
  ASSUME NEW frame, NEW after, Delivering(frame, after), frame.to = 4,
         frame.event \in PodEvents, HandleTermination(frame.event, after)
  PROVE  Lawful
<1> DEFINE m == frame.event.name
<1> USE DEF Delivering
<1>1. /\ "PodTermination" \in Controllers /\ m \in Keys("PodTermination")
      /\ m \in Ordinals
      /\ Takes("PodTermination", m, after)
      /\ UNCHANGED <<proc, ipHolder, bindTimer, startTimer>>
  BY DEF HandleTermination, Takes, Controllers, Keys, PodEvents
<1>2. /\ On(after) \subseteq On(stack')
      /\ \A n \in Ordinals : KeysKept(n)
      /\ UNCHANGED <<pods, incarnation, age>>
  BY <1>1, TakesShape DEF Whole, IInv, Types
<1>3. ASSUME NEW n \in Ordinals
      PROVE  CheckEffect(n)
  <2>1. CASE n # m
    <3>1. Silent(frame, n)
      BY <2>1 DEF Silent, Carries
    <3>2. KeptCheck(n)
      BY <1>2, <3>1, PassingKeeps DEF KeptAll
    <3>3. DOMAIN checkTimer = Ordinals
      BY DEF Whole, IInv, Types, ComponentsOK, Named
    <3>4. checkTimer'[n] = checkTimer[n]
      BY <1>1, <2>1, <3>3 DEF HandleTermination
    <3> QED
      BY <3>2, <3>4, QuietEffects
  <2>2. CASE n = m /\ frame.event.type = "PodDeleted"
    <3>1. checkTimer'[n] = None
      BY <2>2 DEF HandleTermination, Whole, IInv, Types, ComponentsOK, Named
    <3>2. DeletionHolds(n)
      BY <2>2 DEF Whole, BInv, FramesHold, Holds
    <3>3. Same(n) /\ ~(Exists(n) /\ pods[n].terminating)
      BY <1>2, <3>2, AllSame DEF DeletionHolds, Suits
    <3> QED
      BY <3>1, <3>3 DEF CheckEffect
  <2>3. CASE n = m /\ frame.event.type # "PodDeleted" /\ frame.event.pod.terminating
    <3>1. Enqueue("PodTermination", n, after) /\ UNCHANGED checkTimer
      BY <2>3 DEF HandleTermination
    <3>2. KeyIn("PodTermination", n)'
      BY <1>1, <2>3, <3>1, EnqueueShape DEF Whole, IInv, Types
    <3> QED
      BY <3>1, <3>2 DEF CheckEffect, EndTold
  <2>4. CASE frame.event.type # "PodDeleted" /\ ~frame.event.pod.terminating
    <3>1. UNCHANGED checkTimer
      BY <2>4 DEF HandleTermination
    <3>2. KeptCheck(n)
      BY <1>2, <2>4 DEF KeptCheck, EndTold, Carries, Passes, KeysKept
    <3> QED
      BY <3>1, <3>2, QuietEffects
  <2> QED
    BY <2>1, <2>2, <2>3, <2>4
<1>4. ASSUME NEW n \in Ordinals
      PROVE  Effects(n)
  <2>1. KeptProc(n) /\ KeptIp(n) /\ KeptBind(n) /\ KeptStart(n)
    BY <1>2, PassingKeeps
  <2> QED
    BY <1>1, <1>3, <2>1, QuietEffects DEF Effects
<1> QED
  BY <1>1, <1>4, TakesLawful

LEMMA HandleLifecycleLawful ==
  ASSUME NEW frame, NEW after, Delivering(frame, after),
         frame.to = 3 \/ frame.event.type = "PodBound",
         frame.event \in PodEvents, HandleLifecycle(frame.event, after)
  PROVE  Lawful
<1> DEFINE m == frame.event.name
<1> USE DEF Delivering
<1>1. /\ "PodLifecycle" \in Controllers /\ m \in Keys("PodLifecycle")
      /\ m \in Ordinals
      /\ Takes("PodLifecycle", m, after)
      /\ UNCHANGED <<ipHolder, bindTimer, checkTimer>>
  BY DEF HandleLifecycle, Takes, Controllers, Keys, PodEvents
<1>2. /\ On(after) \subseteq On(stack')
      /\ \A n \in Ordinals : KeysKept(n)
      /\ UNCHANGED <<pods, incarnation, age>>
  BY <1>1, TakesShape DEF Whole, IInv, Types
<1>3. ASSUME NEW n \in Ordinals
      PROVE  StartEffect(n) /\ ProcEffect(n)
  <2>1. CASE n # m \/ frame.event.type = "PodBound"
    <3>1. Silent(frame, n)
      BY <2>1 DEF Silent, Carries
    <3>2. KeptStart(n) /\ KeptProc(n)
      BY <1>2, <3>1, PassingKeeps DEF KeptAll
    <3>3. DOMAIN startTimer = Ordinals /\ DOMAIN proc = Ordinals
      BY DEF Whole, IInv, Types, ComponentsOK, Named
    <3>4. startTimer'[n] = startTimer[n] /\ proc'[n] = proc[n]
      BY <1>1, <2>1, <3>3 DEF HandleLifecycle
    <3> QED
      BY <3>2, <3>4, QuietEffects
  <2>2. CASE n = m /\ frame.event.type = "PodDeleted"
    <3>1. DeletionHolds(n)
      BY <2>2 DEF Whole, BInv, FramesHold, Holds
    <3>2. Same(n) /\ ~MayStart(n) /\ (Exists(n) => pods[n].phase = "Pending")
      BY <1>2, <3>1, AllSame DEF DeletionHolds, MayStart, ShouldProgress
    <3>3. StartEffect(n)
      <4>1. startTimer'[n] = None
        BY <2>2 DEF HandleLifecycle, Whole, IInv, Types, ComponentsOK, Named
      <4>2. /\ ArmWaits(n) => ArmWaits(n)'
            /\ StartTold(n) => StartTold(n)'
        BY <1>2, <2>2 DEF ArmWaits, StartTold, Carries, Passes, KeysKept
      <4> QED
        BY <3>2, <4>1, <4>2 DEF StartEffect
    <3>4. ProcEffect(n)
      <4>1. CASE frame.event.pod.bound
        <5>1. proc'[n] = None
          BY <2>2, <4>1 DEF HandleLifecycle, Whole, IInv, Types, ComponentsOK, Named
        <5> QED
          BY <3>2, <5>1 DEF ProcEffect
      <4>2. CASE ~frame.event.pod.bound
        <5>1. proc' = proc
          BY <2>2, <4>2 DEF HandleLifecycle
        <5>2. KeptProc(n)
          BY <1>2, <4>2 DEF KeptProc, BoundDeletionTold, Passes
        <5> QED
          BY <5>1, <5>2, QuietEffects
      <4> QED
        BY <4>1, <4>2
    <3> QED
      BY <3>3, <3>4
  <2>3. CASE n = m /\ frame.event.type # "PodDeleted"
    <3>1. UNCHANGED <<startTimer, proc>>
      BY <2>3 DEF HandleLifecycle
    <3>2. KeptProc(n)
      BY <1>2, <2>3 DEF KeptProc, BoundDeletionTold, Carries, Passes
    <3>3. KeptStart(n)
      <4>1. /\ DeletionTold(n, 3) => DeletionTold(n, 3)'
            /\ ArmWaits(n) => ArmWaits(n)'
        BY <1>2, <2>3 DEF DeletionTold, ArmWaits, Carries, Passes
      <4>2. StartTold(n) => StartTold(n)'
        <5>1. CASE ShouldProgress(frame.event.pod)
          <6>1. Enqueue("PodLifecycle", n, after)
            BY <2>3, <5>1 DEF HandleLifecycle
          <6>2. KeyIn("PodLifecycle", n)'
            BY <1>1, <2>3, <6>1, EnqueueShape DEF Whole, IInv, Types
          <6> QED
            BY <6>2 DEF StartTold
        <5>2. CASE ~ShouldProgress(frame.event.pod)
          BY <1>2, <5>2 DEF StartTold, Carries, Passes, KeysKept
        <5> QED
          BY <5>1, <5>2
      <4> QED
        BY <4>1, <4>2 DEF KeptStart
    <3> QED
      BY <3>1, <3>2, <3>3, QuietEffects
  <2> QED
    BY <2>1, <2>2, <2>3
<1>4. ASSUME NEW n \in Ordinals
      PROVE  Effects(n)
  <2>1. KeptBind(n) /\ KeptIp(n) /\ KeptCheck(n)
    <3>1. CASE frame.to = 3
      BY <1>2, <3>1, PassingKeeps
    <3>2. CASE frame.event.type = "PodBound"
      <4>1. Silent(frame, n)
        BY <3>2 DEF Silent, Carries
      <4> QED
        BY <1>2, <4>1, PassingKeeps DEF KeptAll
    <3> QED
      BY <3>1, <3>2
  <2> QED
    BY <1>1, <1>3, <2>1, QuietEffects DEF Effects
<1> QED
  BY <1>1, <1>4, TakesLawful

LEMMA EmitUpdate ==
  ASSUME StoreOK, NEW n \in Ordinals, Exists(n), NEW pod \in Pods,
         NEW rest \in Seq(Frames), Emit(PodEvent("PodUpdated", n, pod), rest)
  PROVE  /\ pods'[n] = pod /\ Exists(n)'
         /\ \A m \in Ordinals \ {n} : pods'[m] = pods[m]
         /\ UNCHANGED <<set, incarnation>>
         /\ On(rest) \subseteq On(stack')
         /\ UpdateTold(n)
         /\ \A f \in On(stack') :
              \/ f \in On(rest)
              \/ f.op = "deliver" /\ f.event = PodEvent("PodUpdated", n, pod)
<1> DEFINE event == PodEvent("PodUpdated", n, pod)
           frame == Delivery(event, 1)
<1>1. event \in Events
  BY PodEventTyped
<1>2. event.type = "PodUpdated" /\ event.name = n /\ event.pod = pod
  BY DEF PodEvent
<1>3. /\ pods' = [pods EXCEPT ![n] = IF @ = None THEN None ELSE pod]
      /\ UNCHANGED <<set, incarnation>>
  BY <1>2 DEF Emit
<1>4. /\ pods'[n] = pod
      /\ \A m \in Ordinals \ {n} : pods'[m] = pods[m]
  BY <1>3 DEF StoreOK, Named, Exists
<1>5. Exists(n)'
  BY <1>4, ObjectsAssumption DEF Exists
<1>6. frame.op = "deliver" /\ frame.event = event /\ frame.to = 1
  BY DEF Delivery
<1>7. On(stack') = {frame} \cup On(rest)
  BY <1>1, EmitShape
<1> HIDE DEF frame, event
<1>8. UpdateTold(n)
  BY <1>2, <1>4, <1>6, <1>7 DEF UpdateTold, Carries
<1>9. \A f \in On(stack') :
        f \in On(rest) \/ (f.op = "deliver" /\ f.event = event)
  BY <1>6, <1>7
<1> QED
  BY <1>3, <1>4, <1>5, <1>7, <1>8, <1>9 DEF event

\* A pod that runs without an address is still the one the event shows.
LEMMA HandlePodIpLawful ==
  ASSUME NEW frame, NEW after, Delivering(frame, after), frame.to = 5,
         frame.event \in PodEvents, HandlePodIp(frame.event, after)
  PROVE  Lawful
<1> DEFINE m == frame.event.name
           pod == frame.event.pod
           new == [pod EXCEPT !.ip = TRUE]
           addresses == /\ frame.event.type # "PodDeleted"
                        /\ pod.phase = "Running" /\ ~pod.ip
<1> USE DEF Delivering
<1>1. /\ m \in Ordinals /\ pod \in Pods
      /\ UNCHANGED <<proc, bindTimer, startTimer, checkTimer, queue>>
      /\ DOMAIN ipHolder = Ordinals
  BY DEF HandlePodIp, PodEvents, Whole, IInv, Types, ComponentsOK, Named
<1>2. \A n \in Ordinals : KeysKept(n)
  BY <1>1 DEF KeysKept, KeyIn
<1>3. ASSUME NEW n \in Ordinals, On(after) \subseteq On(stack'), IpEffect(n)
      PROVE  Effects(n)
  <2>1. KeptBind(n) /\ KeptProc(n) /\ KeptStart(n) /\ KeptCheck(n)
    BY <1>2, <1>3, PassingKeeps
  <2> QED
    BY <1>1, <1>3, <2>1, QuietEffects DEF Effects
<1>4. ASSUME NEW n \in Ordinals \ {m}, On(after) \subseteq On(stack')
      PROVE  IpEffect(n)
  <2>1. Silent(frame, n)
    BY DEF Silent, Carries
  <2>2. KeptIp(n)
    BY <1>2, <1>4, <2>1, PassingKeeps DEF KeptAll
  <2>3. ipHolder'[n] = ipHolder[n]
    BY <1>1 DEF HandlePodIp
  <2> QED
    BY <2>2, <2>3, QuietEffects
<1>5. CASE ~addresses
  <2> Return(after)
    BY <1>5 DEF HandlePodIp
  <2>1. /\ On(after) \subseteq On(stack')
        /\ UNCHANGED <<pods, set, incarnation, age>>
        /\ \A f \in On(stack') : f \in On(after)
    BY DEF Return
  <2>2. Small /\ Same(m)
    BY <1>1, <2>1, AllSame
  <2>3. IpEffect(m)
    <3>1. CASE frame.event.type = "PodDeleted"
      <4>1. ipHolder'[m] = None
        BY <1>1, <3>1 DEF HandlePodIp
      <4>2. DeletionHolds(m)
        BY <3>1 DEF Whole, BInv, FramesHold, Holds
      <4>3. IpTold(m) => IpTold(m)'
        BY <2>1, <3>1 DEF IpTold, NeedsIp, Passes
      <4> QED
        BY <2>2, <4>1, <4>2, <4>3 DEF IpEffect, DeletionHolds
    <3>2. CASE frame.event.type # "PodDeleted"
      <4>1. DeletionTold(m, 5) => DeletionTold(m, 5)'
        BY <2>1, <3>2 DEF DeletionTold, Carries, Passes
      <4>2. CASE pod.phase = "Running" /\ pod.ip
        <5>1. ipHolder'[m] = pod.incarnation
          BY <1>1, <3>2, <4>2 DEF HandlePodIp
        <5>2. IpTold(m) => IpTold(m)'
          BY <2>1, <4>2 DEF IpTold, NeedsIp, Passes
        <5>3. CASE frame.event.type = "PodUpdated"
          <6>1. RunningHolds(m, pod)
            BY <4>2, <5>3 DEF Whole, BInv, FramesHold, Holds
          <6> QED
            BY <2>2, <4>1, <5>1, <5>2, <6>1 DEF IpEffect, RunningHolds
        <5>4. frame.event.type = "PodUpdated"
          BY <3>2 DEF Frames, Subscribers, PodEvents
        <5> QED
          BY <5>3, <5>4
      <4>3. CASE pod.phase # "Running"
        <5>1. UNCHANGED ipHolder
          BY <3>2, <4>3 DEF HandlePodIp
        <5>2. KeptIp(m)
          BY <2>1, <4>1, <4>3 DEF KeptIp, IpTold, NeedsIp, Passes
        <5> QED
          BY <1>1, <5>1, <5>2, QuietEffects
      <4> QED
        BY <1>5, <3>2, <4>2, <4>3
    <3> QED
      BY <3>1, <3>2
  <2>4. \A n \in Ordinals : Effects(n)
    BY <1>3, <1>4, <2>1, <2>3
  <2>5. FramesHold'
    BY <2>1, <2>2, PassingFrames DEF Whole, BInv
  <2> QED
    BY <2>1, <2>2, <2>4, <2>5 DEF Lawful
<1>6. CASE addresses
  <2>1. /\ frame.event.type # "PodDeleted" /\ pod.phase = "Running" /\ ~pod.ip
        /\ ipHolder' = [ipHolder EXCEPT ![m] = pod.incarnation]
        /\ Emit(PodEvent("PodUpdated", m, new), after)
    BY <1>6 DEF HandlePodIp
  <2>2. frame.event.type = "PodUpdated"
    BY <2>1 DEF Frames, Subscribers, PodEvents
  <2>3. RunningHolds(m, pod)
    BY <2>1, <2>2 DEF Whole, BInv, FramesHold, Holds
  <2>4. /\ Exists(m) /\ pods[m].phase = "Running"
        /\ pods[m].incarnation = pod.incarnation
        /\ Suits(m) /\ SamePod(pods[m], pod) /\ ~pod.terminating
    BY <2>1, <2>3 DEF RunningHolds
  <2>5. /\ new \in Pods /\ new.ip /\ ~new.terminating /\ SamePod(new, pod)
        /\ new.phase = "Running" /\ new.incarnation = pod.incarnation
    BY <1>1, <2>1, <2>4 DEF Pods, SamePod
  <2> HIDE DEF new, pod
  <2>6. /\ pods'[m] = new /\ Exists(m)'
        /\ \A n \in Ordinals \ {m} : pods'[n] = pods[n]
        /\ UNCHANGED <<set, incarnation, age>>
        /\ On(after) \subseteq On(stack')
        /\ \A f \in On(stack') :
             \/ f \in On(after)
             \/ f.op = "deliver" /\ f.event = PodEvent("PodUpdated", m, new)
    BY <1>1, <2>1, <2>4, <2>5, EmitUpdate DEF Whole, IInv, Types
  <2>7. ipHolder'[m] = pods[m].incarnation
    BY <1>1, <2>1, <2>4
  <2>8. Addressed(m)
    BY <1>1, <2>4, <2>5, <2>6, <2>7 DEF Addressed, Stays, SamePod, Suits
  <2>9. Small
    BY <1>1, <2>6, <2>8 DEF Small, Same, Changes
  <2>10. IpEffect(m)
    <3>1. DeletionTold(m, 5) => DeletionTold(m, 5)'
      BY <2>2, <2>6 DEF DeletionTold, Carries, Passes
    <3> QED
      BY <2>8, <3>1 DEF IpEffect
  <2>11. \A n \in Ordinals : Effects(n)
    BY <1>3, <1>4, <2>6, <2>10
  <2>12. RunningHolds(m, new)'
    BY <2>5, <2>6 DEF RunningHolds
  <2>13. ASSUME NEW f \in On(stack'), f \notin On(after)
         PROVE  Holds(f)'
    <3>1. f.op = "deliver" /\ f.event = PodEvent("PodUpdated", m, new)
      BY <2>6, <2>13
    <3>2. f.event.type = "PodUpdated" /\ f.event.name = m /\ f.event.pod = new
      BY <3>1 DEF PodEvent
    <3> QED
      BY <2>12, <3>1, <3>2 DEF Holds
  <2>14. FramesHold'
    BY <2>6, <2>9, <2>13, PassingFrames DEF Whole, BInv
  <2> QED
    BY <2>6, <2>9, <2>11, <2>14 DEF Lawful
<1> QED
  BY <1>5, <1>6

LEMMA DeliverLawful ==
  ASSUME Whole, ~Idle, Head(stack).op = "deliver",
         Deliver(Head(stack), Tail(stack))
  PROVE  Lawful
<1> DEFINE frame == Head(stack)
<1>1. /\ frame \in Frames /\ frame \in On(stack)
      /\ frame.to \in 1..5
      /\ UNCHANGED age
  BY DeliverPasses DEF Whole
<1>2. PICK after \in Seq(Frames) : Passes(frame, after) /\ CallsOne(frame, after)
  BY DeliverPasses DEF Whole
<1>3. Delivering(frame, after)
  BY <1>1, <1>2 DEF Delivering
<1> HIDE DEF frame
<1> QED
  BY <1>2, <1>3, HandleSetLawful, HandleSchedulerLawful, HandleLifecycleLawful,
     HandleTerminationLawful, HandlePodIpLawful DEF CallsOne

-------------------------------------------------------------------------------
(* Drain loops *)

\* A loop takes a key off its queue; its frame, and all below, stay.
Draws(c, n) ==
  /\ Whole /\ ~Idle /\ Head(stack).op = "drain"
  /\ c \in {"Scheduler", "PodLifecycle", "PodTermination"}
  /\ n \in Ordinals
  /\ queue[c] # << >> /\ n = Head(queue[c])
  /\ queue' = [queue EXCEPT ![c] = Tail(@)]
  /\ UNCHANGED age

LEMMA DrawsKeep ==
  ASSUME NEW c, NEW n, Draws(c, n), On(stack) \subseteq On(stack')
  PROVE  \A m \in Ordinals :
           /\ KeptBind(m) /\ KeptProc(m) /\ KeptIp(m)
           /\ c # "PodTermination" \/ m # n => KeptCheck(m)
           /\ DeletionTold(m, 3) => DeletionTold(m, 3)'
           /\ ArmWaits(m) => ArmWaits(m)'
           /\ c # "PodLifecycle" \/ m # n => KeptStart(m)
<1> USE DEF Draws
<1>1. {"PodLifecycle", "PodTermination", c} \subseteq Controllers
  BY DEF Controllers
<1>2. \A d \in {"PodLifecycle", "PodTermination"} : \A k :
        KeyIn(d, k) => KeyIn(d, k)' \/ (d = c /\ k = n)
  BY <1>1, DequeueShape DEF Whole, IInv, Types
<1>3. ASSUME NEW m \in Ordinals
      PROVE  /\ KeptBind(m) /\ KeptProc(m) /\ KeptIp(m)
             /\ DeletionTold(m, 3) => DeletionTold(m, 3)'
             /\ ArmWaits(m) => ArmWaits(m)'
  BY DEF KeptBind, KeptProc, KeptIp, DeletionTold, BoundDeletionTold, IpTold,
     ArmWaits
<1>4. ASSUME NEW m \in Ordinals
      PROVE  KeptCheck(m) \/ (c = "PodTermination" /\ m = n)
  BY <1>2 DEF KeptCheck, EndTold
<1>5. ASSUME NEW m \in Ordinals
      PROVE  KeptStart(m) \/ (c = "PodLifecycle" /\ m = n)
  BY <1>2, <1>3 DEF KeptStart, StartTold
<1> QED
  BY <1>3, <1>4, <1>5

\* The loop itself
LEMMA DrawsFrames ==
  ASSUME NEW c, NEW n, Draws(c, n), Small, set'.spec = set.spec,
         \A f \in On(stack') : f \in On(stack) \/ Free(f) \/ Holds(f)'
  PROVE  FramesHold'
BY FramesKept DEF Draws, Whole, BInv

LEMMA DrawsQuiet ==
  ASSUME NEW c, NEW n, Draws(c, n), Return(stack)
  PROVE  /\ set'.spec = set.spec /\ Small /\ FramesHold'
         /\ On(stack) \subseteq On(stack')
         /\ \A m \in Ordinals : Same(m)
<1>1. stack' = stack /\ UNCHANGED <<pods, set, incarnation, age>>
  BY DEF Return, Draws
<1> QED
  BY <1>1, AllSame, DrawsFrames

LEMMA ReconcileSchedulingLawful ==
  ASSUME NEW n, Draws("Scheduler", n), ReconcileScheduling(n)
  PROVE  Lawful
<1> USE DEF Draws
<1>1. /\ Return(stack)
      /\ UNCHANGED <<proc, ipHolder, startTimer, checkTimer>>
  BY DEF ReconcileScheduling, Whole
<1>2. /\ set'.spec = set.spec /\ Small /\ FramesHold'
      /\ On(stack) \subseteq On(stack')
      /\ \A m \in Ordinals : Same(m)
  BY <1>1, DrawsQuiet
<1>3. \A m \in Ordinals : KeptAll(m)
  BY <1>2, DrawsKeep DEF KeptAll
<1>4. ASSUME NEW m \in Ordinals
      PROVE  BindEffect(m)
  <2>1. DOMAIN bindTimer = Ordinals
    BY DEF Whole, IInv, Types, ComponentsOK, Named
  <2>2. \/ bindTimer'[m] \in {None, bindTimer[m]}
        \/ m = n /\ Exists(n) /\ bindTimer'[n] = pods[n].incarnation
    BY <2>1 DEF ReconcileScheduling, Whole
  <2> QED
    BY <1>2, <1>3, <2>2 DEF BindEffect, KeptAll, KeptBind
<1>5. \A m \in Ordinals : Effects(m)
  BY <1>1, <1>3, <1>4, QuietEffects DEF KeptAll, Effects
<1> QED
  BY <1>2, <1>5 DEF Lawful

LEMMA ReconcileStartLawful ==
  ASSUME NEW n, Draws("PodLifecycle", n), ReconcileStart(n)
  PROVE  Lawful
<1> DEFINE new == [pods[n] EXCEPT !.creating = TRUE]
           arm == [op |-> "arm", name |-> n, pod |-> pods[n]]
           reports == MayStart(n) /\ startTimer[n] = None /\ ~pods[n].creating
<1>0. ASSUME On(stack) \subseteq On(stack')
      PROVE  /\ \A m \in Ordinals :
                  KeptBind(m) /\ KeptProc(m) /\ KeptIp(m) /\ KeptCheck(m)
             /\ DeletionTold(n, 3) => DeletionTold(n, 3)'
             /\ ArmWaits(n) => ArmWaits(n)'
             /\ \A m \in Ordinals \ {n} : KeptStart(m)
  <2>1. n \in Ordinals /\ "PodLifecycle" # "PodTermination"
    BY DEF Draws
  <2> QED
    BY <1>0, <2>1, DrawsKeep
<1> USE DEF Draws
<1>1. /\ UNCHANGED <<proc, ipHolder, bindTimer, checkTimer>>
      /\ DOMAIN startTimer = Ordinals
  BY DEF ReconcileStart, ArmStart, Whole, IInv, Types, ComponentsOK, Named
<1>2. ASSUME NEW m \in Ordinals, On(stack) \subseteq On(stack'), StartEffect(m)
      PROVE  Effects(m)
  <2>1. KeptBind(m) /\ KeptProc(m) /\ KeptIp(m) /\ KeptCheck(m)
    BY <1>0, <1>2
  <2> QED
    BY <1>1, <1>2, <2>1, QuietEffects DEF Effects
<1>3. ASSUME NEW m \in Ordinals \ {n}, On(stack) \subseteq On(stack')
      PROVE  StartEffect(m)
  <2>1. KeptStart(m)
    BY <1>0, <1>3
  <2>2. startTimer'[m] = startTimer[m]
    BY <1>1 DEF ReconcileStart, ArmStart, Whole
  <2> QED
    BY <2>1, <2>2, QuietEffects
<1>4. CASE ~reports
  <2>1. Return(stack)
    BY <1>4 DEF ReconcileStart, ArmStart, Whole
  <2>2. /\ set'.spec = set.spec /\ Small /\ FramesHold'
        /\ On(stack) \subseteq On(stack')
        /\ \A m \in Ordinals : Same(m)
    BY <2>1, DrawsQuiet
  <2>3. /\ DeletionTold(n, 3) => DeletionTold(n, 3)'
        /\ ArmWaits(n) => ArmWaits(n)'
    BY <1>0, <2>2
  <2>4. /\ \/ startTimer'[n] = startTimer[n]
           \/ startTimer'[n] = None /\ ~MayStart(n)
           \/ startTimer'[n] = pods[n].incarnation /\ MayStart(n)
        /\ MayStart(n) <=> startTimer'[n] # None
    <3>1. CASE MayStart(n) /\ startTimer[n] # None
      BY <3>1 DEF ReconcileStart
    <3>2. CASE MayStart(n) /\ startTimer[n] = None
      <4>1. startTimer'[n] = pods[n].incarnation
        BY <1>1, <1>4, <3>2 DEF ReconcileStart, ArmStart, Whole
      <4>2. pods[n].incarnation # None
        BY <3>2, PhaseOfPod, NoneIsNoNumber DEF MayStart, Whole, IInv, Types
      <4> QED
        BY <3>2, <4>1, <4>2
    <3>3. CASE ~MayStart(n)
      BY <1>1, <3>3 DEF ReconcileStart
    <3> QED
      BY <3>1, <3>2, <3>3
  <2>5. StartEffect(n)
    BY <2>2, <2>3, <2>4 DEF StartEffect
  <2>6. \A m \in Ordinals : Effects(m)
    BY <1>2, <1>3, <2>2, <2>5
  <2> QED
    BY <2>2, <2>6 DEF Lawful
<1>5. CASE reports
  <2>1. /\ Emit(PodEvent("PodUpdated", n, new), <<arm>> \o stack)
        /\ UNCHANGED startTimer
    BY <1>5 DEF ReconcileStart
  <2>2. /\ Exists(n) /\ pods[n].phase = "Pending" /\ pods[n].bound
        /\ ~pods[n].terminating /\ MayStart(n)
    BY <1>5 DEF MayStart, ShouldProgress
  <2>3. Suits(n)
    BY <1>5, <2>2 DEF Whole, BInv, NameInv, StartIsComing
  <2>4. pods[n] \in Pods
    BY <2>2, ExistingPod DEF Whole, IInv, Types
  <2>5. /\ new \in Pods /\ SamePod(new, pods[n]) /\ new.ip = pods[n].ip
        /\ new.incarnation = pods[n].incarnation /\ new.template = pods[n].template
        /\ new.bound = pods[n].bound /\ new.phase = pods[n].phase
        /\ ~new.terminating
    BY <2>2, <2>4 DEF Pods, SamePod
  <2>6. /\ arm \in Frames /\ arm.op = "arm" /\ arm.name = n /\ arm.pod = pods[n]
    BY <2>4 DEF Frames
  <2> HIDE DEF new, arm
  <2>7. /\ <<arm>> \o stack \in Seq(Frames)
        /\ On(<<arm>> \o stack) = {arm} \cup On(stack)
    BY <2>6, OnPush DEF Whole, IInv, Types, StackOK
  <2>8. /\ pods'[n] = new /\ Exists(n)'
        /\ \A m \in Ordinals \ {n} : pods'[m] = pods[m]
        /\ UNCHANGED <<set, incarnation, age>>
        /\ On(stack) \subseteq On(stack') /\ arm \in On(stack')
        /\ \A f \in On(stack') :
             \/ f \in On(stack) \/ f = arm
             \/ f.op = "deliver" /\ f.event = PodEvent("PodUpdated", n, new)
    BY <2>1, <2>2, <2>5, <2>7, EmitUpdate DEF Whole, IInv, Types
  <2>9. ArmWaits(n)'
    BY <2>6, <2>8 DEF ArmWaits
  <2>10. Reported(n)
    BY <2>2, <2>3, <2>5, <2>8, <2>9 DEF Reported, Stays
  <2>11. Small
    BY <2>8, <2>10 DEF Small, Same, Changes
  <2>12. StartEffect(n)
    <3>1. DeletionTold(n, 3) => DeletionTold(n, 3)'
      BY <1>0, <2>8
    <3> QED
      BY <2>1, <2>9, <2>10, <3>1 DEF StartEffect
  <2>13. \A m \in Ordinals : Effects(m)
    BY <1>2, <1>3, <2>8, <2>12
  <2>14. Suits(n)' /\ ShouldProgress(pods'[n])
    BY <2>2, <2>3, <2>5, <2>8 DEF Suits, ShouldProgress
  <2>15. ASSUME NEW f \in On(stack')
         PROVE  f \in On(stack) \/ Free(f) \/ Holds(f)'
    <3>1. CASE f = arm
      <4>1. f.op = "arm" /\ f.name = n /\ f.pod.incarnation = pods'[n].incarnation
        BY <2>5, <2>6, <2>8, <3>1
      <4> QED
        BY <2>14, <4>1 DEF Holds, ArmHolds
    <3>2. CASE f.op = "deliver" /\ f.event = PodEvent("PodUpdated", n, new)
      <4>1. f.event.type = "PodUpdated" /\ f.event.pod.phase = "Pending"
        BY <2>2, <2>5, <3>2 DEF PodEvent
      <4> QED
        BY <3>2, <4>1 DEF Free
    <3> QED
      BY <2>8, <3>1, <3>2
  <2>16. FramesHold'
    BY <2>8, <2>11, <2>15, DrawsFrames
  <2> QED
    BY <2>8, <2>11, <2>13, <2>16 DEF Lawful
<1> QED
  BY <1>4, <1>5

LEMMA ReconcileTerminationLawful ==
  ASSUME NEW n, Draws("PodTermination", n), ReconcileTermination(n)
  PROVE  Lawful
<1> DEFINE finalizes == Exists(n) /\ pods[n].terminating /\ MayFinalize(n)
           event == PodEvent("PodDeleted", n, pods[n])
           frame == Delivery(event, 1)
<1>0. ASSUME On(stack) \subseteq On(stack')
      PROVE  /\ \A m \in Ordinals :
                  KeptBind(m) /\ KeptProc(m) /\ KeptIp(m) /\ KeptStart(m)
             /\ \A m \in Ordinals \ {n} : KeptCheck(m)
  <2>1. n \in Ordinals /\ "PodLifecycle" # "PodTermination"
    BY DEF Draws
  <2> QED
    BY <1>0, <2>1, DrawsKeep
<1> USE DEF Draws
<1>1. /\ UNCHANGED <<proc, ipHolder, bindTimer, startTimer>>
      /\ DOMAIN checkTimer = Ordinals
  BY DEF ReconcileTermination, Whole, IInv, Types, ComponentsOK, Named
<1>2. ASSUME On(stack) \subseteq On(stack'), CheckEffect(n)
      PROVE  \A m \in Ordinals : Effects(m)
  <2>1. ASSUME NEW m \in Ordinals
        PROVE  CheckEffect(m)
    <3>1. CASE m = n
      BY <1>2, <3>1
    <3>2. CASE m # n
      <4>1. KeptCheck(m)
        BY <1>0, <1>2, <3>2
      <4>2. checkTimer'[m] = checkTimer[m]
        BY <1>1, <3>2 DEF ReconcileTermination
      <4> QED
        BY <4>1, <4>2, QuietEffects
    <3> QED
      BY <3>1, <3>2
  <2> QED
    BY <1>0, <1>1, <1>2, <2>1, QuietEffects DEF Effects
<1>3. CASE ~finalizes
  <2>1. Return(stack)
    BY <1>3 DEF ReconcileTermination
  <2>2. /\ set'.spec = set.spec /\ Small /\ FramesHold'
        /\ On(stack) \subseteq On(stack')
        /\ \A m \in Ordinals : Same(m)
    BY <2>1, DrawsQuiet
  <2>3. CheckEffect(n)
    <3>1. CASE Exists(n) /\ pods[n].terminating
      <4>1. checkTimer'[n] = NextCheck(n)
        BY <1>1, <1>3, <3>1 DEF ReconcileTermination
      <4>2. pods[n].incarnation \in Nat
        BY <3>1, PhaseOfPod DEF Whole, IInv, Types
      <4>3. /\ NextCheck(n) \in [incarnation : Nat, polls : BOOLEAN]
            /\ NextCheck(n).incarnation = pods[n].incarnation
        <5>1. ProcessRuns(n) \in BOOLEAN
          BY DEF ProcessRuns, Whole, IInv, Types, ComponentsOK, Named
        <5> QED
          BY <4>2, <5>1 DEF NextCheck
      <4> QED
        BY <2>2, <3>1, <4>1, <4>3, ObjectsAssumption DEF CheckEffect
    <3>2. CASE ~(Exists(n) /\ pods[n].terminating)
      <4>1. checkTimer'[n] = None
        BY <1>1, <3>2 DEF ReconcileTermination
      <4> QED
        BY <2>2, <3>2, <4>1 DEF CheckEffect
    <3> QED
      BY <3>1, <3>2
  <2>4. \A m \in Ordinals : Effects(m)
    BY <1>2, <2>2, <2>3
  <2> QED
    BY <2>2, <2>4 DEF Lawful
<1>4. CASE finalizes
  <2>1. /\ Emit(event, stack)
        /\ checkTimer' = [checkTimer EXCEPT ![n] = None]
    BY <1>4 DEF ReconcileTermination
  <2>2. event.type = "PodDeleted" /\ event.name = n /\ event.pod = pods[n]
    BY DEF PodEvent
  <2>3. event \in Events
    BY <1>4, ExistingPod, PodEventTyped DEF Whole, IInv, Types
  <2>4. frame.op = "deliver" /\ frame.event = event /\ frame.to = 1
    BY DEF Delivery
  <2>5. On(stack') = {frame} \cup On(stack)
    BY <2>1, <2>3, EmitShape DEF Whole, IInv, Types, StackOK
  <2>6. /\ pods' = [pods EXCEPT ![n] = None]
        /\ UNCHANGED <<set, incarnation, age>>
    BY <2>1, <2>2 DEF Emit
  <2>7. /\ pods'[n] = None
        /\ \A m \in Ordinals \ {n} : pods'[m] = pods[m]
    BY <2>6 DEF Whole, IInv, Types, StoreOK, Named
  <2>8. ~Exists(n)'
    BY <2>7 DEF Exists
  <2>9. age[n] >= 1
    BY <1>4 DEF MayFinalize, DeadlinePassed, Whole, IInv, Types, AgeOK
  <2> HIDE DEF event, frame
  <2>10. \E f \in On(stack') :
           Carries(f, "PodDeleted", n) /\ f.to = 1 /\ f.event.pod = pods[n]
    BY <2>2, <2>4, <2>5 DEF Carries
  <2>11. checkTimer'[n] = None
    BY <1>1, <2>1
  <2>12. Removed(n)
    BY <1>4, <2>6, <2>8, <2>9, <2>10, <2>11 DEF Removed
  <2>13. Small
    BY <2>6, <2>7, <2>12 DEF Small, Same, Changes
  <2>14. CheckEffect(n)
    BY <2>11, <2>12 DEF CheckEffect
  <2>15. \A m \in Ordinals : Effects(m)
    BY <1>2, <2>5, <2>14
  <2>16. ASSUME NEW f \in On(stack')
         PROVE  f \in On(stack) \/ Free(f) \/ Holds(f)'
    <3>1. CASE f = frame
      <4>1. f.op = "deliver" /\ f.event.type = "PodDeleted" /\ f.event.name = n
        BY <2>2, <2>4, <3>1
      <4> QED
        BY <2>8, <4>1 DEF Holds, DeletionHolds
    <3> QED
      BY <2>5, <3>1
  <2>17. FramesHold'
    BY <2>6, <2>13, <2>16, DrawsFrames
  <2> QED
    BY <2>6, <2>13, <2>15, <2>17 DEF Lawful
<1> QED
  BY <1>3, <1>4

-------------------------------------------------------------------------------
(* The StatefulSet controller *)

\* A step that only takes a frame off the stack, or puts some on it
LEMMA QuietLawful ==
  ASSUME Whole, UNCHANGED <<pods, incarnation, age, components>>,
         set'.spec = set.spec,
         \A n \in Ordinals : KeysKept(n),
         \A f \in On(stack) :
           f \in On(stack') \/ f.op \notin {"deliver", "arm"},
         FramesHold'
  PROVE  Lawful
<1>1. Small
  BY AllSame
<1>2. ASSUME NEW n \in Ordinals
      PROVE  Effects(n)
  <2>1. \A f \in On(stack) : Silent(f, n) \/ f \in On(stack')
    BY DEF Silent, Carries
  <2>2. KeptAll(n)
    BY <2>1, SilentKeeps
  <2> QED
    BY <2>2, QuietEffects DEF KeptAll, Effects, components
<1> QED
  BY <1>1, <1>2 DEF Lawful

\* reconcile has just read the pods.
LEMMA ReconcileSetLawful ==
  ASSUME Whole, ~Idle, Drains(Head(stack), "StatefulSet"),
         Drain(Head(stack), Tail(stack)), queue["StatefulSet"] # << >>
  PROVE  Lawful
<1> DEFINE frame == [op |-> "set", read |-> pods, set |-> set, next |-> 0]
<1>1. /\ UNCHANGED <<pods, set, incarnation, age, components>>
      /\ stack' = <<frame>> \o stack
  BY ReconcileSetOrder DEF Whole, Idle
<1>2. frame \in Frames
  BY SizeAssumption DEF Frames, Whole, IInv, Types, StoreOK
<1>3. On(stack') = {frame} \cup On(stack)
  BY <1>1, <1>2, OnPush DEF Whole, IInv, Types, StackOK
<1>4. queue' = [queue EXCEPT !["StatefulSet"] = Tail(@)]
  BY DEF Drain, Drains
<1>5. \A n \in Ordinals : KeysKept(n)
  BY <1>4 DEF KeysKept, KeyIn, Whole, IInv, Types, QueueOK, Controllers
<1>6. Small
  BY <1>1, AllSame
<1>7. ASSUME NEW f \in On(stack')
      PROVE  \/ f \in On(stack) /\ (f.op = "set" => Head(stack).op # "set")
             \/ Holds(f)'
  <2>1. CASE f = frame
    <3>1. f.op = "set" /\ f.read = pods
      BY <2>1
    <3>2. ASSUME NEW m \in Ordinals
          PROVE  IF f.read[m] = None
                 THEN ~Exists(m)'
                 ELSE Exists(m)' =>
                        /\ pods'[m].template = f.read[m].template
                        /\ f.read[m].terminating => pods'[m].terminating
      BY <1>1, <3>1 DEF Exists
    <3> QED
      BY <3>1, <3>2 DEF Holds, ReadHolds
  <2>2. CASE f \in On(stack)
    BY <2>2 DEF Drains
  <2> HIDE DEF frame
  <2> QED
    BY <1>3, <2>1, <2>2
<1>8. FramesHold'
  BY <1>1, <1>6, <1>7, FramesKept DEF Whole, BInv
<1> HIDE DEF frame
<1> QED
  BY <1>1, <1>3, <1>5, <1>8, QuietLawful

\* A queue's loop ends.
LEMMA DrainEndsLawful ==
  ASSUME Whole, ~Idle, Head(stack).op = "drain",
         Drain(Head(stack), Tail(stack)), queue[Head(stack).queue] = << >>
  PROVE  Lawful
<1>1. /\ stack' = Tail(stack) /\ UNCHANGED <<pods, set, incarnation>>
      /\ UNCHANGED <<age, components, queue>>
  BY DEF Drain, Return
<1>2. On(stack) = {Head(stack)} \cup On(stack')
  BY <1>1, OnPop DEF Whole, IInv, Types, StackOK, Idle
<1>3. Small
  BY <1>1, AllSame
<1>4. FramesHold'
  BY <1>1, <1>2, <1>3, FramesKept DEF Whole, BInv
<1> QED
  BY <1>1, <1>2, <1>4, QuietLawful DEF KeysKept, KeyIn

\* The reconcile that frame stands for does what it has to about one name, and
\* goes on with next.
Acting(frame, next, after) ==
  /\ Whole /\ ~Idle /\ frame = Head(stack) /\ frame.op = "set"
  /\ frame \in Frames /\ frame.next \in Ordinals /\ frame.set = set
  /\ On(stack) = {frame} \cup On(Tail(stack))
  /\ \A g \in On(Tail(stack)) : g.op # "set"
  /\ ReadHolds(frame)
  /\ next \in Frames /\ next.op = "set" /\ next.read = frame.read
  /\ next.next = frame.next + 1
  /\ after \in Seq(Frames) /\ On(after) = {next} \cup On(Tail(stack))
  /\ UNCHANGED <<components, queue>>

LEMMA SetFrame ==
  ASSUME Whole, ~Idle, NEW frame, frame = Head(stack), frame.op = "set"
  PROVE  /\ frame \in Frames /\ Tail(stack) \in Seq(Frames)
         /\ frame.set = set /\ frame.next \in 0..MaxReplicas
         /\ On(stack) = {frame} \cup On(Tail(stack))
         /\ \A g \in On(Tail(stack)) : g.op # "set"
         /\ ReadHolds(frame)
<1> USE DEF Whole, IInv, Types, OInv
<1>1. /\ frame \in Frames /\ Tail(stack) \in Seq(Frames)
      /\ On(stack) = {frame} \cup On(Tail(stack))
      /\ \A g \in On(Tail(stack)) : ~Clash(frame, g)
  BY OnPop, OrderlyPop DEF StackOK, Idle
<1>2. frame.set = set
  BY <1>1 DEF SetKept
<1>3. \A g \in On(Tail(stack)) : g.op # "set"
  BY <1>1 DEF Clash
<1>4. ReadHolds(frame)
  BY <1>1 DEF BInv, FramesHold, Holds
<1>5. frame.next \in 0..MaxReplicas
  BY <1>1 DEF Frames
<1> QED
  BY <1>1, <1>2, <1>3, <1>4, <1>5

LEMMA SetStepActs ==
  ASSUME Whole, ~Idle, NEW frame, frame = Head(stack), frame.op = "set",
         SetStep(frame, Tail(stack))
  PROVE  \E next, after :
           /\ Acting(frame, next, after)
           /\ CASE Wanted(frame.next, set.spec, frame.read) = "create" ->
                     /\ Emit(PodEvent("PodCreated", frame.next,
                                      NewPod(frame.next, set.spec.template)), after)
                     /\ UNCHANGED age
                [] Wanted(frame.next, set.spec, frame.read) = "delete" ->
                     RequestDeletion(frame.next, FALSE, after)
                [] OTHER -> Return(after) /\ UNCHANGED age
<1> DEFINE next == [frame EXCEPT !.next = frame.next + 1]
           after == <<next>> \o Tail(stack)
<1>1. /\ frame \in Frames /\ Tail(stack) \in Seq(Frames)
      /\ frame.set = set /\ frame.next \in 0..MaxReplicas
      /\ On(stack) = {frame} \cup On(Tail(stack))
      /\ \A g \in On(Tail(stack)) : g.op # "set"
      /\ ReadHolds(frame)
  BY SetFrame
<1>2. frame \in [op : {"set"}, read : Named(Pods), set : Sets, next : 0..MaxReplicas]
  BY <1>1 DEF Frames
<1>3. frame.next < MaxReplicas /\ UNCHANGED <<components, queue>>
  BY DEF SetStep
<1>4. frame.next \in Ordinals /\ frame.next + 1 \in 0..MaxReplicas
  BY <1>2, <1>3, SizeAssumption DEF Ordinals
<1>5. /\ next \in Frames /\ next.op = "set" /\ next.read = frame.read
      /\ next.next = frame.next + 1
  BY <1>2, <1>4 DEF Frames
<1>6. (CASE Wanted(frame.next, set.spec, frame.read) = "create" ->
              /\ Emit(PodEvent("PodCreated", frame.next,
                               NewPod(frame.next, set.spec.template)), after)
              /\ UNCHANGED age
         [] Wanted(frame.next, set.spec, frame.read) = "delete" ->
              RequestDeletion(frame.next, FALSE, after)
         [] OTHER -> Return(after) /\ UNCHANGED age)
  BY <1>1 DEF SetStep
<1> HIDE DEF next
<1>7. after \in Seq(Frames) /\ On(after) = {next} \cup On(Tail(stack))
  BY <1>1, <1>5, OnPush
<1> HIDE DEF after
<1>8. Acting(frame, next, after)
  BY <1>1, <1>3, <1>4, <1>5, <1>7 DEF Acting
<1> QED
  BY <1>6, <1>8

\* The names after frame.next are as the reconcile relies on them.
LEMMA ActingFrames ==
  ASSUME NEW frame, NEW next, NEW after, Acting(frame, next, after),
         set'.spec = set.spec, Small,
         \A m \in Ordinals \ {frame.next} : Same(m),
         \A f \in On(stack') : f \in On(after) \/ Free(f) \/ Holds(f)'
  PROVE  FramesHold'
<1> USE DEF Acting
<1>1. Holds(next)'
  <2>1. \A m \in Ordinals : m >= next.next => ~Born(m)
    <3>1. SUFFICES ASSUME NEW m \in Ordinals, m >= next.next
                   PROVE  ~Born(m)
      OBVIOUS
    <3>2. m # frame.next
      BY <3>1, SizeAssumption DEF Ordinals
    <3>3. Same(m)
      BY <3>2
    <3> QED
      BY <3>3 DEF Same, Born, Exists
  <2>2. \A m \in Ordinals : Same(m) \/ Changes(m)
    BY SmallChanges
  <2>3. frame.next \in Nat /\ next.next \in Nat /\ next.next >= frame.next
    BY SizeAssumption DEF Ordinals
  <2>4. ReadHolds(next)'
    BY <2>1, <2>2, <2>3, ReadStays
  <2> QED
    BY <2>4 DEF Holds
<1>2. ASSUME NEW f \in On(stack')
      PROVE  \/ f \in On(stack) /\ (f.op = "set" => Head(stack).op # "set")
             \/ Free(f)
             \/ Holds(f)'
  BY <1>1
<1> QED
  BY <1>2, FramesKept DEF Whole, BInv

\* All that is told of the pods is still told.
LEMMA ActingKeeps ==
  ASSUME NEW frame, NEW next, NEW after, Acting(frame, next, after),
         On(after) \subseteq On(stack')
  PROVE  \A n \in Ordinals : Effects(n)
<1> USE DEF Acting
<1>1. ASSUME NEW n \in Ordinals
      PROVE  Effects(n)
  <2>1. \A f \in On(stack) : Silent(f, n) \/ f \in On(stack')
    BY DEF Silent, Carries
  <2>2. KeysKept(n)
    BY DEF KeysKept, KeyIn
  <2>3. KeptAll(n)
    BY <2>1, <2>2, SilentKeeps
  <2> QED
    BY <2>3, QuietEffects DEF KeptAll, Effects, components
<1> QED
  BY <1>1

LEMMA ActingReturns ==
  ASSUME NEW frame, NEW next, NEW after, Acting(frame, next, after),
         Return(after), UNCHANGED age
  PROVE  Lawful
<1>1. stack' = after /\ UNCHANGED <<pods, set, incarnation>>
  BY DEF Return
<1>2. Small /\ \A m \in Ordinals : Same(m)
  BY <1>1, AllSame
<1>3. \A n \in Ordinals : Effects(n)
  BY <1>1, ActingKeeps
<1>4. FramesHold'
  BY <1>1, <1>2, ActingFrames
<1> QED
  BY <1>1, <1>2, <1>3, <1>4 DEF Lawful

\* There is no pod where reconcile saw none.
LEMMA ActingCreates ==
  ASSUME NEW frame, NEW next, NEW after, Acting(frame, next, after),
         Wanted(frame.next, set.spec, frame.read) = "create",
         Emit(PodEvent("PodCreated", frame.next,
                       NewPod(frame.next, set.spec.template)), after),
         UNCHANGED age
  PROVE  Lawful
<1> DEFINE n == frame.next
           pod == NewPod(n, set.spec.template)
           event == PodEvent("PodCreated", n, pod)
           delivery == Delivery(event, 1)
<1> USE DEF Acting
<1>1. n < set.spec.replicas /\ frame.read[n] = None
  BY DEF Wanted
<1>2. ~Exists(n)
  BY <1>1, SizeAssumption DEF ReadHolds, Ordinals
<1>3. pod \in Pods
  BY NewPodTyped DEF Whole, IInv, Types, StoreOK, Sets, Specs
<1>4. /\ pod.incarnation = incarnation[n] + 1 /\ pod.template = set.spec.template
      /\ pod.phase = "Pending" /\ ~pod.bound /\ ~pod.ip /\ ~pod.terminating
      /\ Emit(event, after)
  BY DEF NewPod
<1> HIDE DEF pod
<1>5. event \in Events /\ event.type = "PodCreated" /\ event.name = n
      /\ event.pod = pod
  <2>1. event \in Events
    BY <1>3, PodEventTyped
  <2> QED
    BY <2>1 DEF PodEvent
<1>6. delivery.op = "deliver" /\ delivery.event = event
  BY DEF Delivery
<1> HIDE DEF event
<1>7. On(stack') = {delivery} \cup On(after)
  BY <1>4, <1>5, EmitShape
<1> HIDE DEF delivery
<1>8. /\ pods' = [pods EXCEPT ![n] = pod]
      /\ incarnation' = [incarnation EXCEPT ![n] = @ + 1]
      /\ set' = set
  BY <1>4, <1>5 DEF Emit
<1>9. /\ pods'[n] = pod /\ incarnation'[n] = incarnation[n] + 1
      /\ \A m \in Ordinals \ {n} :
           pods'[m] = pods[m] /\ incarnation'[m] = incarnation[m]
  BY <1>8 DEF Whole, IInv, Types, StoreOK, Named
<1>10. Born(n)
  <2>1. Exists(n)'
    BY <1>3, <1>9, ObjectsAssumption DEF Exists
  <2> QED
    BY <1>1, <1>2, <1>4, <1>9, <2>1 DEF Born, Idle
<1>11. Small /\ \A m \in Ordinals \ {n} : Same(m)
  BY <1>9, <1>10 DEF Small, Same, Changes
<1>12. Free(delivery)
  BY <1>5, <1>6 DEF Free
<1>13. FramesHold'
  BY <1>7, <1>8, <1>11, <1>12, ActingFrames
<1>14. \A m \in Ordinals : Effects(m)
  BY <1>7, ActingKeeps
<1> QED
  BY <1>8, <1>11, <1>13, <1>14 DEF Lawful

\* A pod that is to go does not suit the set, and has its address if it runs.
LEMMA ActingDeletes ==
  ASSUME NEW frame, NEW next, NEW after, Acting(frame, next, after),
         Wanted(frame.next, set.spec, frame.read) = "delete",
         Exists(frame.next), ~pods[frame.next].terminating,
         MarkTerminating(frame.next, FALSE, after)
  PROVE  Lawful
<1> DEFINE n == frame.next
           pod == [pods[n] EXCEPT !.terminating = TRUE, !.forced = FALSE,
                                  !.ready = FALSE]
<1> USE DEF Acting
<1>1. ~Suits(n)
  <2>1. frame.read[n] # None => pods[n].template = frame.read[n].template
    BY SizeAssumption DEF ReadHolds, Ordinals
  <2> QED
    BY <2>1 DEF Wanted, Suits
<1>2. pods[n].phase = "Running" => pods[n].ip
  <2>1. SUFFICES ASSUME pods[n].phase = "Running", ~pods[n].ip
                 PROVE  FALSE
    OBVIOUS
  <2>2. IpTold(n)
    BY <2>1 DEF Whole, BInv, NameInv, AddressIsComing
  <2>3. PICK f \in On(stack) : NeedsIp(f) /\ f.event.name = n
    BY <2>2 DEF IpTold
  <2>4. RunningHolds(n, f.event.pod)
    BY <2>3 DEF Whole, BInv, FramesHold, Holds, NeedsIp
  <2> QED
    BY <1>1, <2>3, <2>4 DEF RunningHolds, NeedsIp
<1>3. pods[n] \in Pods
  BY ExistingPod DEF Whole, IInv, Types
<1>4. /\ pod \in Pods /\ SamePod(pod, pods[n]) /\ pod.ip = pods[n].ip
      /\ pod.incarnation = pods[n].incarnation /\ pod.template = pods[n].template
      /\ pod.phase = pods[n].phase /\ pod.terminating
  BY <1>3 DEF Pods, SamePod
<1>5. /\ Emit(PodEvent("PodUpdated", n, pod), after)
      /\ age' = [age EXCEPT ![n] = 0]
  BY DEF MarkTerminating
<1> HIDE DEF pod
<1>6. /\ pods'[n] = pod /\ Exists(n)'
      /\ \A m \in Ordinals \ {n} : pods'[m] = pods[m]
      /\ UNCHANGED <<set, incarnation>>
      /\ On(after) \subseteq On(stack')
      /\ UpdateTold(n)
      /\ \A f \in On(stack') :
           \/ f \in On(after)
           \/ f.op = "deliver" /\ f.event = PodEvent("PodUpdated", n, pod)
  BY <1>4, <1>5, EmitUpdate DEF Whole, IInv, Types
<1>7. age'[n] = 0 /\ \A m \in Ordinals \ {n} : age'[m] = age[m]
  BY <1>5 DEF Whole, IInv, Types, AgeOK
<1>8. Marked(n)
  BY <1>1, <1>4, <1>6, <1>7 DEF Marked, Stays
<1>9. Small /\ \A m \in Ordinals \ {n} : Same(m)
  BY <1>6, <1>7, <1>8 DEF Small, Same, Changes
<1>10. ASSUME NEW f \in On(stack'), f \notin On(after)
       PROVE  Holds(f)'
  <2>1. /\ f.op = "deliver" /\ f.event.type = "PodUpdated" /\ f.event.name = n
        /\ f.event.pod = pod
    BY <1>6, <1>10 DEF PodEvent
  <2>2. f.event.pod.phase = "Running" => RunningHolds(n, f.event.pod)'
    BY <1>2, <1>4, <1>6, <1>7, <2>1 DEF RunningHolds
  <2> QED
    BY <2>1, <2>2 DEF Holds
<1>11. FramesHold'
  BY <1>6, <1>9, <1>10, ActingFrames
<1>12. \A m \in Ordinals : Effects(m)
  BY <1>6, ActingKeeps
<1> QED
  BY <1>6, <1>9, <1>11, <1>12 DEF Lawful

\* And the set owes nothing for the names it has been at.
LEMMA ActingOwes ==
  ASSUME NEW frame, NEW next, NEW after, Acting(frame, next, after),
         On(after) \subseteq On(stack'), set'.spec = set.spec,
         \/ \E f \in On(stack') : TellsSet(f)
         \/ UNCHANGED pods /\ Judged(frame.next)
  PROVE  SetOwes'
<1> USE DEF Acting
<1>1. CASE \E f \in On(stack') : TellsSet(f)
  BY <1>1 DEF SetOwes, WillReconcile
<1>2. CASE UNCHANGED pods /\ Judged(frame.next)
  <2>1. ASSUME NEW n \in Ordinals
        PROVE  \/ Judged(n)
               \/ WillReconcile'
               \/ \E f \in On(stack') : f.op = "set" /\ f.next <= n
    <3>1. CASE n = frame.next
      BY <1>2, <3>1
    <3>2. CASE n # frame.next /\ WillReconcile
      BY <3>2 DEF WillReconcile, TellsSet
    <3>3. CASE n # frame.next /\ \E f \in On(stack) : f.op = "set" /\ f.next <= n
      <4>1. frame.next <= n /\ frame.next # n
        BY <3>3
      <4>2. next.next <= n
        BY <4>1, SizeAssumption DEF Ordinals
      <4> QED
        BY <4>2
    <3> QED
      BY <3>1, <3>2, <3>3 DEF Whole, BInv, SetOwes
  <2>2. \A n \in Ordinals : Judged(n) => Judged(n)'
    BY <1>2 DEF Judged, Suits, Exists
  <2> QED
    BY <2>1, <2>2 DEF SetOwes
<1> QED
  BY <1>1, <1>2

LEMMA SetStepLawful ==
  ASSUME Whole, ~Idle, Head(stack).op = "set", SetStep(Head(stack), Tail(stack))
  PROVE  Lawful /\ SetOwes'
<1> DEFINE frame == Head(stack)
           n == frame.next
<1>1. PICK next, after :
        /\ Acting(frame, next, after)
        /\ CASE Wanted(n, set.spec, frame.read) = "create" ->
                  /\ Emit(PodEvent("PodCreated", n, NewPod(n, set.spec.template)),
                          after)
                  /\ UNCHANGED age
             [] Wanted(n, set.spec, frame.read) = "delete" ->
                  RequestDeletion(n, FALSE, after)
             [] OTHER -> Return(after) /\ UNCHANGED age
  BY SetStepActs
<1> HIDE DEF frame
<1> USE DEF Acting
<1>2. n \in Ordinals /\ after \in Seq(Frames)
  BY <1>1
<1>3. /\ frame.read[n] = None => ~Exists(n)
      /\ frame.read[n] # None /\ Exists(n) =>
           /\ pods[n].template = frame.read[n].template
           /\ frame.read[n].terminating => pods[n].terminating
  BY <1>1, SizeAssumption DEF ReadHolds, Ordinals
<1>4. ASSUME Return(after), UNCHANGED age, Judged(n)
      PROVE  Lawful /\ SetOwes'
  <2>1. Lawful
    BY <1>1, <1>4, ActingReturns
  <2>2. UNCHANGED pods /\ On(after) \subseteq On(stack')
    BY <1>4 DEF Return
  <2> QED
    BY <1>1, <1>4, <2>1, <2>2, ActingOwes DEF Lawful
<1>5. CASE Wanted(n, set.spec, frame.read) = "create"
  <2> DEFINE event == PodEvent("PodCreated", n, NewPod(n, set.spec.template))
  <2>1. Emit(event, after) /\ UNCHANGED age
    BY <1>1, <1>5
  <2>2. NewPod(n, set.spec.template) \in Pods
    BY <1>1, <1>2, NewPodTyped DEF Whole, IInv, Types, StoreOK, Sets, Specs
  <2>3. event \in Events
    BY <1>2, <2>2, PodEventTyped
  <2>4. event.type # "PodBound"
    BY DEF PodEvent
  <2>5. Lawful
    BY <1>1, <1>5, <2>1, ActingCreates
  <2> HIDE DEF event
  <2>6. Delivery(event, 1).op = "deliver" /\ TellsSet(Delivery(event, 1))
    BY <2>4 DEF TellsSet, Delivery
  <2>7. On(stack') = {Delivery(event, 1)} \cup On(after)
    BY <1>2, <2>1, <2>3, EmitShape
  <2> QED
    BY <1>1, <2>5, <2>6, <2>7, ActingOwes DEF Lawful
<1>6. CASE Wanted(n, set.spec, frame.read) = "delete"
  <2>1. RequestDeletion(n, FALSE, after)
    BY <1>1, <1>6
  <2>2. CASE Exists(n) /\ ~pods[n].terminating
    <3>1. MarkTerminating(n, FALSE, after)
      BY <2>1, <2>2 DEF RequestDeletion
    <3>2. Lawful
      BY <1>1, <1>6, <2>2, <3>1, ActingDeletes
    <3> DEFINE pod == [pods[n] EXCEPT !.terminating = TRUE, !.forced = FALSE,
                                      !.ready = FALSE]
               event == PodEvent("PodUpdated", n, pod)
    <3>3. Emit(event, after)
      BY <3>1 DEF MarkTerminating
    <3>4. event \in Events
      <4>1. pod \in Pods
        BY <1>1, <1>2, <2>2, ExistingPod DEF Pods, Whole, IInv, Types
      <4> QED
        BY <1>2, <4>1, PodEventTyped
    <3>5. event.type # "PodBound"
      BY DEF PodEvent
    <3> HIDE DEF event
    <3>6. TellsSet(Delivery(event, 1))
      BY <3>5 DEF TellsSet, Delivery
    <3>7. On(stack') = {Delivery(event, 1)} \cup On(after)
      BY <1>2, <3>3, <3>4, EmitShape
    <3> QED
      BY <1>1, <3>2, <3>6, <3>7, ActingOwes DEF Lawful
  <2>3. CASE ~(Exists(n) /\ ~pods[n].terminating)
    <3>1. Return(after) /\ UNCHANGED age
      BY <2>1, <2>3 DEF RequestDeletion
    <3>2. Judged(n)
      BY <2>3 DEF Judged
    <3> QED
      BY <1>4, <3>1, <3>2
  <2> QED
    BY <2>2, <2>3
<1>7. CASE Wanted(n, set.spec, frame.read) \notin {"create", "delete"}
  <2>1. Return(after) /\ UNCHANGED age
    BY <1>1, <1>7
  <2>2. Judged(n)
    BY <1>3, <1>7 DEF Judged, Suits, Wanted
  <2> QED
    BY <1>4, <2>1, <2>2
<1> QED
  BY <1>5, <1>6, <1>7

\* At its end reconcile has been at every name.
LEMMA SetWriteStatusLawful ==
  ASSUME Whole, ~Idle, Head(stack).op = "set",
         SetWriteStatus(Head(stack), Tail(stack))
  PROVE  Lawful /\ SetOwes'
<1> DEFINE frame == Head(stack)
           rest == Tail(stack)
           status == SetStatus(frame.set.spec)
           event == SetEvent([frame.set EXCEPT !.status = status])
<1>1. /\ rest \in Seq(Frames) /\ frame.set = set
      /\ On(stack) = {frame} \cup On(rest)
      /\ \A g \in On(rest) : g.op # "set"
      /\ frame.op = "set"
  BY SetFrame
<1>2. /\ frame.next = MaxReplicas /\ UNCHANGED <<components, queue, age>>
      /\ Return(rest) \/ Emit(event, rest)
  BY DEF SetWriteStatus
<1>3. set \in Sets /\ set.spec \in Specs
  BY DEF Whole, IInv, Types, StoreOK, Sets
<1>4. status \in Statuses
  BY <1>1, <1>3, StatusTyped
<1> HIDE DEF frame, rest, status
<1>5. /\ event \in Events /\ event.type = "StatefulSetUpdated"
      /\ event.set.spec = set.spec
  BY <1>1, <1>3, <1>4 DEF SetEvent, Events, Sets
<1> HIDE DEF event
<1>6. CASE Return(rest)
  <2>1. stack' = rest /\ UNCHANGED <<pods, set, incarnation>>
    BY <1>6 DEF Return
  <2>2. Small
    BY <1>2, <2>1, AllSame
  <2>3. FramesHold'
    BY <1>1, <2>1, <2>2, FramesKept DEF Whole, BInv
  <2>4. Lawful
    BY <1>1, <1>2, <2>1, <2>3, QuietLawful DEF KeysKept, KeyIn
  <2>5. ASSUME NEW n \in Ordinals
        PROVE  Judged(n) \/ WillReconcile
    <3>1. \A f \in On(stack) : f.op = "set" => ~(f.next <= n)
      BY <1>1, <1>2, SizeAssumption DEF Ordinals
    <3> QED
      BY <3>1 DEF Whole, BInv, SetOwes
  <2>6. \A n \in Ordinals : Judged(n) => Judged(n)'
    BY <2>1 DEF Judged, Suits, Exists
  <2>7. WillReconcile => WillReconcile'
    BY <1>1, <1>2, <2>1 DEF WillReconcile, TellsSet
  <2> QED
    BY <2>4, <2>5, <2>6, <2>7 DEF SetOwes
<1>7. CASE Emit(event, rest)
  <2>1. set'.spec = set.spec /\ UNCHANGED <<pods, incarnation>>
    BY <1>5, <1>7 DEF Emit
  <2>2. On(stack') = {Delivery(event, 1)} \cup On(rest)
    BY <1>1, <1>5, <1>7, EmitShape
  <2>3. Free(Delivery(event, 1)) /\ TellsSet(Delivery(event, 1))
    BY <1>5 DEF Free, TellsSet, Delivery
  <2>4. Small
    BY <1>2, <2>1, AllSame
  <2>5. FramesHold'
    BY <1>1, <2>1, <2>2, <2>3, <2>4, FramesKept DEF Whole, BInv
  <2>6. Lawful
    BY <1>1, <1>2, <2>1, <2>2, <2>5, QuietLawful DEF KeysKept, KeyIn
  <2>7. SetOwes'
    BY <2>2, <2>3 DEF SetOwes, WillReconcile
  <2> QED
    BY <2>6, <2>7
<1> QED
  BY <1>2, <1>6, <1>7

LEMMA CalmOwes ==
  ASSUME Whole, CalmStep
  PROVE  SetOwes'
<1> USE DEF Whole, BInv, Calmly
<1>1. PICK rest \in Seq(Frames) :
        /\ Calmly(rest) /\ On(rest) \subseteq On(stack)
        /\ \A f \in On(stack) :
             \/ f \in On(rest)
             \/ f.op # "set" /\ (TellsSet(f) => queue'["StatefulSet"] # << >>)
  BY DEF CalmStep
<1>2. queue["StatefulSet"] # << >> => queue'["StatefulSet"] # << >>
  BY DEF CalmStep
<1>3. CASE \E f \in On(stack') : TellsSet(f)
  BY <1>3 DEF SetOwes, WillReconcile
<1>4. CASE pods' = pods
  <2>1. WillReconcile => WillReconcile'
    BY <1>1, <1>2 DEF WillReconcile
  <2>2. \A n \in Ordinals : Judged(n) => Judged(n)'
    BY <1>1, <1>4 DEF Judged, Suits, Exists
  <2>3. ASSUME NEW n \in Ordinals, \E f \in On(stack) : f.op = "set" /\ f.next <= n
        PROVE  \E f \in On(stack') : f.op = "set" /\ f.next <= n
    BY <1>1, <2>3
  <2> QED
    BY <2>1, <2>2, <2>3 DEF SetOwes
<1> QED
  BY <1>1, <1>3, <1>4

-------------------------------------------------------------------------------
(* The other frames *)

\* The frame that runs is taken off the stack, and some that rely on nothing are
\* put on it.
LEMMA PoppedLawful ==
  ASSUME Whole, ~Idle, Head(stack).op \notin {"deliver", "arm"},
         UNCHANGED <<pods, set, incarnation, age, components>>,
         \A n \in Ordinals : KeysKept(n),
         On(Tail(stack)) \subseteq On(stack'),
         \A f \in On(stack') : f \in On(Tail(stack)) \/ Free(f),
         Head(stack).op # "set"
  PROVE  Lawful
<1>1. On(stack) = {Head(stack)} \cup On(Tail(stack))
  BY OnPop DEF Whole, IInv, Types, StackOK, Idle
<1>2. FramesHold'
  BY <1>1, AllSame, FramesKept DEF Whole, BInv
<1> QED
  BY <1>1, <1>2, QuietLawful

LEMMA BoundStepLawful ==
  ASSUME Whole, ~Idle, Head(stack).op = "bound",
         BoundStep(Head(stack), Tail(stack))
  PROVE  Lawful
<1> DEFINE frame == Head(stack)
           event == PodEvent("PodBound", frame.name, frame.pod)
<1>1. frame \in Frames /\ Tail(stack) \in Seq(Frames) /\ frame.op = "bound"
  BY OnPop DEF Whole, IInv, Types, StackOK, Idle
<1>2. Emit(event, Tail(stack)) /\ UNCHANGED <<components, queue, age>>
  BY DEF BoundStep
<1> HIDE DEF frame
<1>3. frame.name \in Ordinals /\ frame.pod \in Pods
  BY <1>1 DEF Frames
<1>4. event \in Events
  BY <1>3, PodEventTyped
<1>5. event.type = "PodBound"
  BY DEF PodEvent
<1> HIDE DEF event
<1>6. UNCHANGED <<pods, set, incarnation>>
  BY <1>2, <1>5 DEF Emit
<1>7. On(stack') = {Delivery(event, 1)} \cup On(Tail(stack))
  BY <1>1, <1>2, <1>4, EmitShape
<1>8. Free(Delivery(event, 1))
  BY <1>5 DEF Free, Delivery
<1> QED
  BY <1>2, <1>6, <1>7, <1>8, PoppedLawful DEF KeysKept, KeyIn

LEMMA SyncStepLawful ==
  ASSUME Whole, ~Idle, Head(stack).op = "sync",
         SyncStep(Head(stack), Tail(stack))
  PROVE  Lawful
<1> DEFINE frame == Head(stack)
           rest == Tail(stack)
           less(n) == [frame EXCEPT !.keys = @ \ {n}]
           after(n) == IF frame.keys = {n} THEN rest ELSE <<less(n)>> \o rest
<1>1. frame \in Frames /\ rest \in Seq(Frames) /\ frame.op = "sync"
  BY OnPop DEF Whole, IInv, Types, StackOK, Idle
<1>2. UNCHANGED <<components, age>>
  BY DEF SyncStep
<1>3. PICK n \in frame.keys : Enqueue(frame.queue, n, after(n))
  BY DEF SyncStep
<1> HIDE DEF frame
<1>4. frame \in [op : {"sync"}, queue : {"Scheduler", "PodLifecycle"},
                keys : SUBSET Ordinals]
  BY <1>1 DEF Frames
<1>5. less(n) \in Frames /\ less(n).op = "sync"
  BY <1>4 DEF Frames
<1> HIDE DEF less, rest
<1>6. /\ after(n) \in Seq(Frames)
      /\ On(rest) \subseteq On(after(n))
      /\ \A f \in On(after(n)) : f \in On(rest) \/ f.op = "sync"
  BY <1>1, <1>5, OnPush
<1>7. frame.queue \in Controllers /\ n \in Keys(frame.queue)
  BY <1>4 DEF Controllers, Keys
<1> HIDE DEF after
<1>8. Takes(frame.queue, n, after(n))
  BY <1>3 DEF Takes
<1>9. /\ UNCHANGED <<pods, set, incarnation>>
      /\ On(after(n)) \subseteq On(stack')
      /\ \A f \in On(stack') : f \in On(after(n)) \/ Free(f)
      /\ \A m \in Ordinals : KeysKept(m)
  BY <1>6, <1>7, <1>8, TakesShape DEF Whole, IInv, Types
<1>10. \A f \in On(stack') : f \in On(Tail(stack)) \/ Free(f)
  BY <1>6, <1>9 DEF Free, rest
<1>11. On(Tail(stack)) \subseteq On(stack')
  BY <1>6, <1>9 DEF rest
<1> QED
  BY <1>2, <1>9, <1>10, <1>11, PoppedLawful

\* The pod has not changed since its ContainerCreating was reported.
LEMMA ArmStepLawful ==
  ASSUME Whole, ~Idle, Head(stack).op = "arm", ArmStep(Head(stack), Tail(stack))
  PROVE  Lawful
<1> DEFINE frame == Head(stack)
           n == frame.name
<1>1. /\ frame \in Frames /\ frame.op = "arm"
      /\ On(stack) = {frame} \cup On(Tail(stack))
  BY OnPop DEF Whole, IInv, Types, StackOK, Idle
<1>2. /\ startTimer' = [startTimer EXCEPT ![n] = frame.pod.incarnation]
      /\ stack' = Tail(stack)
      /\ UNCHANGED <<pods, set, incarnation, age, queue>>
      /\ UNCHANGED <<proc, ipHolder, bindTimer, checkTimer>>
  BY DEF ArmStep, ArmStart, Return, Whole
<1>3. ArmHolds(frame)
  BY <1>1 DEF Whole, BInv, FramesHold, Holds
<1> HIDE DEF frame
<1>4. n \in Ordinals
  BY <1>1 DEF Frames
<1>5. /\ startTimer'[n] = pods[n].incarnation /\ MayStart(n)
      /\ \A m \in Ordinals \ {n} : startTimer'[m] = startTimer[m]
  BY <1>2, <1>3, <1>4
     DEF ArmHolds, Suits, MayStart, Whole, IInv, Types, ComponentsOK, Named
<1>6. startTimer'[n] # None
  BY <1>4, <1>5, PhaseOfPod, NoneIsNoNumber DEF MayStart, Whole, IInv, Types
<1>7. Small /\ \A m \in Ordinals : Same(m)
  BY <1>2, AllSame
<1>8. \A m \in Ordinals : KeysKept(m)
  BY <1>2 DEF KeysKept, KeyIn
<1>9. \A f \in On(stack) : f = frame \/ f \in On(stack')
  BY <1>1, <1>2
<1>10. ASSUME NEW m \in Ordinals
       PROVE  Effects(m)
  <2>1. CASE m # n
    <3>1. Silent(frame, m)
      BY <1>1, <2>1 DEF Silent, Carries
    <3>2. KeptAll(m)
      BY <1>8, <1>9, <3>1, SilentKeeps
    <3> QED
      BY <1>2, <1>5, <2>1, <3>2, QuietEffects DEF KeptAll, Effects
  <2>2. CASE m = n
    <3>1. /\ KeptBind(m) /\ KeptProc(m) /\ KeptIp(m) /\ KeptCheck(m)
          /\ DeletionTold(m, 3) => DeletionTold(m, 3)'
          /\ StartTold(m) => StartTold(m)'
      BY <1>1, <1>8, <1>9
         DEF KeptBind, KeptProc, KeptIp, KeptCheck, DeletionTold, BoundDeletionTold,
             IpTold, EndTold, StartTold, NeedsIp, Carries, KeysKept
    <3>2. StartEffect(m)
      BY <1>5, <1>6, <1>7, <2>2, <3>1 DEF StartEffect
    <3> QED
      BY <1>2, <3>1, <3>2, QuietEffects DEF Effects
  <2> QED
    BY <2>1, <2>2
<1>11. FramesHold'
  BY <1>1, <1>2, <1>7, FramesKept DEF Whole, BInv
<1> QED
  BY <1>2, <1>7, <1>10, <1>11 DEF Lawful

LEMMA DrainLawful ==
  ASSUME Whole, ~Idle, Head(stack).op = "drain", Drain(Head(stack), Tail(stack))
  PROVE  Lawful
<1> DEFINE c == Head(stack).queue
           n == Head(queue[c])
<1>1. c \in Controllers
  <2>1. Head(stack) \in Frames
    BY OnPop DEF Whole, IInv, Types, StackOK, Idle
  <2> QED
    BY <2>1 DEF Frames
<1>2. CASE queue[c] = << >>
  BY <1>2, DrainEndsLawful
<1>3. CASE queue[c] # << >> /\ c = "StatefulSet"
  BY <1>3, ReconcileSetLawful DEF Drains
<1>4. CASE queue[c] # << >> /\ c # "StatefulSet"
  <2>1. c \in {"Scheduler", "PodLifecycle", "PodTermination"}
    BY <1>1, <1>4 DEF Controllers
  <2>2. /\ queue' = [queue EXCEPT ![c] = Tail(@)]
        /\ c = "Scheduler" => ReconcileScheduling(n)
        /\ c = "PodLifecycle" => ReconcileStart(n)
        /\ c = "PodTermination" => ReconcileTermination(n)
        /\ UNCHANGED age
    <3>1. /\ queue' = [queue EXCEPT ![c] = Tail(@)]
          /\ c = "Scheduler" => ReconcileScheduling(n)
          /\ c = "PodLifecycle" => ReconcileStart(n)
          /\ c = "PodTermination" => ReconcileTermination(n)
      BY <1>4 DEF Drain
    <3> HIDE DEF c, n
    <3> QED
      BY <2>1, <3>1 DEF ReconcileScheduling, ReconcileStart, ReconcileTermination
  <2>3. n \in Ordinals
    <3>1. n \in Keys(c)
      <4>1. queue' = [queue EXCEPT ![c] = Tail(@)] /\ queue[c] # << >>
        BY <1>4, <2>2
      <4> HIDE DEF c
      <4> QED
        BY <1>1, <4>1, DequeueShape DEF Whole, IInv, Types
    <3> HIDE DEF c, n
    <3> QED
      BY <2>1, <3>1 DEF Keys
  <2>4. Draws(c, n)
    BY <1>4, <2>1, <2>2, <2>3 DEF Draws
  <2> HIDE DEF c, n
  <2> QED
    BY <2>1, <2>2, <2>4, ReconcileSchedulingLawful, ReconcileStartLawful,
       ReconcileTerminationLawful
<1> QED
  BY <1>2, <1>3, <1>4

LEMMA RunLawful ==
  ASSUME Whole, Run
  PROVE  Lawful /\ SetOwes'
<1>1. ~Idle
  BY DEF Run, Idle
<1>2. CASE Head(stack).op = "set"
  BY <1>1, <1>2, SetStepLawful, SetWriteStatusLawful DEF Run
<1>3. CASE Head(stack).op # "set"
  <2>1. Lawful
    BY <1>1, <1>3, DeliverLawful, DrainLawful, BoundStepLawful, ArmStepLawful,
       SyncStepLawful DEF Run
  <2>2. CASE Drains(Head(stack), "StatefulSet") /\ queue["StatefulSet"] # << >>
    <3> DEFINE frame == [op |-> "set", read |-> pods, set |-> set, next |-> 0]
    <3>1. stack' = <<frame>> \o stack
      <4>1. Drain(Head(stack), Tail(stack))
        BY <2>2 DEF Run, Drains
      <4> QED
        BY <1>1, <2>2, <4>1, ReconcileSetOrder DEF Whole, Idle
    <3>2. frame \in Frames
      BY SizeAssumption DEF Frames, Whole, IInv, Types, StoreOK
    <3>3. frame.op = "set" /\ frame.next = 0
      OBVIOUS
    <3> HIDE DEF frame
    <3>4. frame \in On(stack')
      BY <3>1, <3>2, OnPush DEF Whole, IInv, Types, StackOK
    <3>5. SetOwes'
      BY <3>3, <3>4, SizeAssumption DEF SetOwes, Ordinals
    <3> QED
      BY <2>1, <3>5
  <2>3. CASE ~(Drains(Head(stack), "StatefulSet") /\ queue["StatefulSet"] # << >>)
    BY <1>3, <2>1, <2>3, RunCalm, CalmOwes DEF Whole
  <2> QED
    BY <2>2, <2>3
<1> QED
  BY <1>2, <1>3

-------------------------------------------------------------------------------
(* Callbacks and users, who find the stack empty *)

\* Nothing is on its way to anybody, and the set has judged every pod.
LEMMA IdleFacts ==
  ASSUME Whole, Idle, NEW n \in Ordinals
  PROVE  /\ NameInv(n) /\ Judged(n) /\ KeptAll(n)
         /\ ~StartTold(n) /\ ~EndTold(n) /\ ~IpTold(n) /\ ~BoundDeletionTold(n)
         /\ ~DeletionTold(n, 2) /\ ~DeletionTold(n, 3) /\ ~DeletionTold(n, 5)
         /\ ~ArmWaits(n)
<1>1. /\ ~StartTold(n) /\ ~EndTold(n) /\ ~IpTold(n) /\ ~BoundDeletionTold(n)
      /\ ~DeletionTold(n, 2) /\ ~DeletionTold(n, 3) /\ ~DeletionTold(n, 5)
      /\ ~ArmWaits(n)
  BY IdleTellsNobody DEF Whole
<1>2. KeptAll(n)
  BY <1>1 DEF KeptAll, KeptBind, KeptProc, KeptIp, KeptCheck, KeptStart
<1>3. NameInv(n) /\ SetOwes
  BY DEF Whole, BInv
<1>4. On(stack) = {} /\ queue["StatefulSet"] = << >>
  BY NothingOnIdle, IdleIsDrained DEF Idle, Whole, Controllers
<1>5. Judged(n)
  BY <1>3, <1>4 DEF SetOwes, WillReconcile
<1> QED
  BY <1>1, <1>2, <1>3, <1>5

\* What is kept under every other name stays.
OthersKeep(n) ==
  \A m \in Ordinals \ {n} :
    /\ bindTimer'[m] = bindTimer[m] /\ startTimer'[m] = startTimer[m]
    /\ checkTimer'[m] = checkTimer[m] /\ proc'[m] = proc[m]
    /\ ipHolder'[m] = ipHolder[m]

LEMMA CallLawful ==
  ASSUME Whole, Idle, NEW n \in Ordinals, set'.spec = set.spec,
         Same(n) \/ Changes(n), \A m \in Ordinals \ {n} : Same(m),
         OthersKeep(n), Effects(n),
         \A f \in On(stack') : Free(f) \/ Holds(f)'
  PROVE  Lawful
<1>1. Small
  BY DEF Small
<1>2. ASSUME NEW m \in Ordinals
      PROVE  Effects(m)
  <2>1. CASE m # n
    <3>1. KeptAll(m)
      BY IdleFacts
    <3> QED
      BY <2>1, <3>1, QuietEffects DEF OthersKeep, KeptAll, Effects
  <2> QED
    BY <2>1
<1>3. FramesHold'
  BY DEF FramesHold, Free, Holds
<1> QED
  BY <1>1, <1>2, <1>3 DEF Lawful

LEMMA BindTimerLawful ==
  ASSUME Whole, NEW n \in Ordinals, BindTimerFires(n)
  PROVE  Lawful
<1>1. /\ Idle /\ bindTimer' = [bindTimer EXCEPT ![n] = None]
      /\ UNCHANGED <<proc, ipHolder, startTimer, checkTimer, queue, age>>
  BY DEF BindTimerFires
<1>2. bindTimer'[n] = None /\ OthersKeep(n)
  BY <1>1 DEF OthersKeep, Whole, IInv, Types, ComponentsOK, Named
<1>3. /\ KeptAll(n) /\ NameInv(n) /\ ~DeletionTold(n, 2)
  BY <1>1, IdleFacts
<1>4. Effects(n)
  <2>1. BindEffect(n)
    BY <1>2, <1>3 DEF BindEffect
  <2> QED
    BY <1>1, <1>3, <2>1, QuietEffects DEF Effects, KeptAll
<1>5. CASE Return(<< >>)
  <2>1. \A m \in Ordinals : Same(m)
    BY <1>1, <1>5 DEF Return, Same
  <2>2. On(stack') = {} /\ set'.spec = set.spec
    BY <1>5, EmptyStack DEF Return
  <2> QED
    BY <1>1, <1>2, <1>4, <2>1, <2>2, CallLawful
<1>6. CASE /\ Exists(n) /\ NeedsScheduling(pods[n]) /\ schedulable
           /\ BindOnce(n, pods[n], << >>)
  <2> DEFINE pod == [pods[n] EXCEPT !.bound = TRUE]
             frame == [op |-> "bound", name |-> n, pod |-> pod]
             rest == <<frame>> \o << >>
  <2>1. pods[n] \in Pods
    BY <1>6, ExistingPod DEF Whole, IInv, Types
  <2>2. /\ pod \in Pods /\ pod.bound /\ pod.incarnation = pods[n].incarnation
        /\ pod.template = pods[n].template /\ pod.phase = pods[n].phase
        /\ pod.ip = pods[n].ip /\ pod.terminating = pods[n].terminating
    BY <2>1 DEF Pods
  <2>3. Emit(PodEvent("PodUpdated", n, pod), rest)
    BY <1>6 DEF BindOnce
  <2>4. frame \in Frames
    BY <2>2 DEF Frames
  <2>5. Free(frame)
    BY DEF Free
  <2> HIDE DEF pod, frame
  <2>6. rest \in Seq(Frames) /\ On(rest) = {frame}
    BY <2>4, EmptyStack, OnPush
  <2> HIDE DEF rest
  <2>7. /\ pods'[n] = pod /\ Exists(n)'
        /\ \A m \in Ordinals \ {n} : pods'[m] = pods[m]
        /\ UNCHANGED <<set, incarnation>>
        /\ UpdateTold(n)
        /\ \A f \in On(stack') :
             \/ f \in On(rest)
             \/ f.op = "deliver" /\ f.event = PodEvent("PodUpdated", n, pod)
    BY <1>6, <2>2, <2>3, <2>6, EmitUpdate DEF Whole, IInv, Types
  <2>8. Bound(n)
    BY <1>1, <1>6, <2>2, <2>7 DEF Bound, Stays, NeedsScheduling
  <2>9. pod.phase # "Running"
    BY <1>3, <1>6, <2>2 DEF NameInv, PodIsSound, NeedsScheduling
  <2>10. \A f \in On(stack') : Free(f)
    BY <2>5, <2>6, <2>7, <2>9 DEF Free, PodEvent
  <2>11. \A m \in Ordinals \ {n} : Same(m)
    BY <1>1, <2>7 DEF Same
  <2> QED
    BY <1>1, <1>2, <1>4, <2>7, <2>8, <2>10, <2>11, CallLawful DEF Changes
<1> QED
  BY <1>5, <1>6 DEF BindTimerFires, BindOnce

LEMMA StartTimerLawful ==
  ASSUME Whole, NEW n \in Ordinals, StartTimerFires(n)
  PROVE  Lawful
<1>1. /\ Idle /\ startTimer[n] # None
      /\ startTimer' = [startTimer EXCEPT ![n] = None]
      /\ UNCHANGED <<ipHolder, bindTimer, checkTimer, queue, age>>
  BY DEF StartTimerFires
<1>2. /\ KeptAll(n) /\ NameInv(n) /\ Judged(n)
      /\ ~DeletionTold(n, 3) /\ ~StartTold(n) /\ ~BoundDeletionTold(n)
      /\ ~ArmWaits(n)
  BY <1>1, IdleFacts
<1>3. Exists(n) /\ ShouldProgress(pods[n]) /\ ~pods[n].terminating
  BY <1>1, <1>2 DEF NameInv, StartIsDue
<1>4. Suits(n)
  BY <1>2, <1>3 DEF Judged
<1>5. proc[n] = None
  BY <1>2, <1>3 DEF NameInv, HoldingsAreIts, ShouldProgress
<1>6. EmitRunning(n, pods[n], << >>)
  BY <1>3 DEF StartTimerFires
<1>0. PICK pod : pod = [pods[n] EXCEPT !.phase = "Running", !.ready = TRUE]
  OBVIOUS
<1> DEFINE record == [incarnation |-> pods[n].incarnation, running |-> TRUE]
<1>7. pods[n] \in Pods
  BY <1>3, ExistingPod DEF Whole, IInv, Types
<1>8. /\ pod \in Pods /\ pod.phase = "Running"
      /\ pod.incarnation = pods[n].incarnation
      /\ pod.template = pods[n].template /\ pod.bound = pods[n].bound
      /\ pod.ip = pods[n].ip /\ pod.terminating = pods[n].terminating
  BY <1>0, <1>7 DEF Pods
<1>9. /\ Emit(PodEvent("PodUpdated", n, pod), << >>)
      /\ proc' = IF HasProcess(pods[n]) THEN [proc EXCEPT ![n] = record] ELSE proc
  BY <1>5, <1>6, <1>0 DEF EmitRunning
<1>10. record # None
  <2>1. record \in [incarnation : Nat, running : BOOLEAN]
    BY <1>7 DEF Pods
  <2> QED
    BY <2>1, ObjectsAssumption
<1>11. record.incarnation = pods[n].incarnation /\ record.running
  OBVIOUS
<1> HIDE DEF record
<1>12. /\ HasProcess(pods[n]) => proc'[n] = record
       /\ ~HasProcess(pods[n]) => proc'[n] = None
       /\ startTimer'[n] = None /\ OthersKeep(n)
  BY <1>1, <1>5, <1>9 DEF OthersKeep, Whole, IInv, Types, ComponentsOK, Named
<1>13. /\ pods'[n] = pod /\ Exists(n)'
       /\ \A m \in Ordinals \ {n} : pods'[m] = pods[m]
       /\ UNCHANGED <<set, incarnation>>
       /\ UpdateTold(n)
       /\ \A f \in On(stack') :
            f.op = "deliver" /\ f.event = PodEvent("PodUpdated", n, pod)
  BY <1>3, <1>8, <1>9, EmptyStack, EmitUpdate DEF Whole, IInv, Types
<1>14. Started(n)
  <2>1. Stays(n)
    BY <1>3, <1>8, <1>13 DEF Stays
  <2>2. pods[n].template \in Long => ProcessRuns(n)'
    BY <1>10, <1>11, <1>12 DEF HasProcess, ProcessRuns
  <2>3. proc'[n] # None => proc'[n].incarnation = pods[n].incarnation
    BY <1>11, <1>12
  <2>4. pods'[n].bound
    BY <1>3, <1>8, <1>13 DEF ShouldProgress
  <2> QED
    BY <1>1, <1>3, <1>8, <1>12, <1>13, <2>1, <2>2, <2>3, <2>4 DEF Started
<1>15. Effects(n)
  <2>1. ProcEffect(n)
    BY <1>2, <1>14 DEF ProcEffect
  <2>2. StartEffect(n)
    BY <1>2, <1>12, <1>14 DEF StartEffect
  <2> QED
    BY <1>1, <1>2, <2>1, <2>2, QuietEffects DEF Effects, KeptAll
<1>16. RunningHolds(n, pod)'
  <2>1. /\ Exists(n)' /\ ~pods'[n].terminating
        /\ pods'[n].template = pods[n].template
        /\ set'.spec = set.spec /\ pods'[n] = pod
    BY <1>3, <1>8, <1>13
  <2>2. Suits(n)'
    BY <1>4, <2>1 DEF Suits
  <2>3. SamePod(pods'[n], pod)
    BY <2>1 DEF SamePod
  <2> QED
    BY <1>8, <2>1, <2>2, <2>3 DEF RunningHolds
<1>17. \A f \in On(stack') : Holds(f)'
  BY <1>13, <1>16 DEF Holds, PodEvent
<1>18. \A m \in Ordinals \ {n} : Same(m)
  BY <1>1, <1>13 DEF Same
<1> QED
  BY <1>1, <1>12, <1>13, <1>14, <1>15, <1>17, <1>18, CallLawful DEF Changes

LEMMA CheckTimerLawful ==
  ASSUME Whole, NEW n \in Ordinals, CheckTimerFires(n)
  PROVE  Lawful
<1>1. /\ Idle /\ checkTimer' = [checkTimer EXCEPT ![n] = None]
      /\ Enqueue("PodTermination", n, << >>)
      /\ UNCHANGED <<proc, ipHolder, bindTimer, startTimer, age>>
  BY DEF CheckTimerFires
<1>2. checkTimer'[n] = None /\ OthersKeep(n)
  BY <1>1 DEF OthersKeep, Whole, IInv, Types, ComponentsOK, Named
<1>3. "PodTermination" \in Controllers /\ n \in Keys("PodTermination")
  BY DEF Controllers, Keys
<1>4. /\ UNCHANGED <<pods, set, incarnation>>
      /\ \A f \in On(stack') : f.op = "drain"
      /\ KeyIn("PodTermination", n)'
  BY <1>1, <1>3, EmptyStack, EnqueueShape DEF Whole, IInv, Types
<1>5. EndTold(n)'
  BY <1>4 DEF EndTold
<1>6. Effects(n)
  <2>1. CheckEffect(n)
    BY <1>2, <1>5 DEF CheckEffect
  <2>2. KeptAll(n)
    BY <1>1, IdleFacts
  <2> QED
    BY <1>1, <2>1, <2>2, QuietEffects DEF Effects, KeptAll
<1>7. \A m \in Ordinals : Same(m)
  BY <1>1, <1>4 DEF Same
<1>8. \A f \in On(stack') : Free(f)
  BY <1>4 DEF Free
<1> QED
  BY <1>1, <1>2, <1>4, <1>6, <1>7, <1>8, CallLawful

LEMMA DeletePodLawful ==
  ASSUME Whole, NEW n \in Ordinals, NEW forced \in BOOLEAN, DeletePod(n, forced)
  PROVE  Lawful
<1>1. /\ Idle /\ Exists(n) /\ ~pods[n].terminating
      /\ UNCHANGED <<components, queue>>
      /\ age' = [age EXCEPT ![n] = 0]
  BY DEF DeletePod, Edit, MarkTerminating
<1>2. OthersKeep(n)
  BY <1>1 DEF OthersKeep, components
<1>3. PICK pod : pod = [pods[n] EXCEPT !.terminating = TRUE, !.forced = forced,
                                       !.ready = FALSE]
  OBVIOUS
<1>4. Emit(PodEvent("PodUpdated", n, pod), << >>)
  BY <1>3 DEF DeletePod, MarkTerminating
<1>5. pods[n] \in Pods
  BY <1>1, ExistingPod DEF Whole, IInv, Types
<1>6. /\ pod \in Pods /\ pod.terminating /\ SamePod(pod, pods[n])
      /\ pod.ip = pods[n].ip
  BY <1>3, <1>5 DEF Pods, SamePod
<1>7. /\ pods'[n] = pod /\ Exists(n)'
      /\ \A m \in Ordinals \ {n} : pods'[m] = pods[m]
      /\ UNCHANGED <<set, incarnation>>
      /\ UpdateTold(n)
      /\ \A f \in On(stack') :
           f.op = "deliver" /\ f.event = PodEvent("PodUpdated", n, pod)
  BY <1>1, <1>4, <1>6, EmptyStack, EmitUpdate, ZenonT(60) DEF Whole, IInv, Types
<1>8. age'[n] = 0 /\ \A m \in Ordinals \ {n} : age'[m] = age[m]
  BY <1>1 DEF Whole, IInv, Types, AgeOK
<1>9. Marked(n)
  BY <1>1, <1>6, <1>7, <1>8 DEF Marked, Stays, SamePod
<1>10. KeptAll(n) /\ NameInv(n) /\ ~IpTold(n)
  BY <1>1, IdleFacts
<1>11. Effects(n)
  BY <1>1, <1>10, QuietEffects DEF Effects, KeptAll, components
<1>12. pod.phase = "Running" => pod.ip
  BY <1>1, <1>6, <1>10 DEF NameInv, AddressIsComing, SamePod
<1>13. pod.phase = "Running" => RunningHolds(n, pod)'
  BY <1>7, <1>8, <1>12 DEF RunningHolds
<1>14. \A f \in On(stack') : Holds(f)'
  BY <1>7, <1>13 DEF Holds, PodEvent
<1>15. \A m \in Ordinals \ {n} : Same(m)
  BY <1>7, <1>8 DEF Same
<1> QED
  BY <1>1, <1>2, <1>7, <1>9, <1>11, <1>14, <1>15, CallLawful DEF Changes

LEMMA TimePassesLawful ==
  ASSUME Whole, NEW n \in Ordinals, TimePasses(n)
  PROVE  Lawful
<1>1. /\ Idle /\ Exists(n) /\ pods[n].terminating
      /\ age' = [age EXCEPT ![n] = @ + 1]
      /\ UNCHANGED <<pods, set, components, stack, incarnation>>
  BY DEF TimePasses
<1>2. OthersKeep(n)
  BY <1>1 DEF OthersKeep, components
<1>3. age'[n] = age[n] + 1 /\ \A m \in Ordinals \ {n} : age'[m] = age[m]
  BY <1>1 DEF Whole, IInv, Types, AgeOK
<1>4. Aged(n) /\ \A m \in Ordinals \ {n} : Same(m)
  BY <1>1, <1>3 DEF Aged, Same
<1>5. Effects(n)
  <2>1. KeptAll(n)
    BY <1>1, IdleFacts
  <2> QED
    BY <1>1, <2>1, QuietEffects DEF Effects, KeptAll, components
<1>6. On(stack') = {}
  BY <1>1, EmptyStack DEF Idle
<1> QED
  BY <1>1, <1>2, <1>4, <1>5, <1>6, CallLawful DEF Changes

LEMMA ProcessExitsLawful ==
  ASSUME Whole, NEW n \in Ordinals, ProcessExits(n)
  PROVE  Lawful
<1>1. /\ Idle /\ Exists(n) /\ pods[n].template \in Finite /\ ProcessRuns(n)
      /\ proc' = [proc EXCEPT ![n].running = FALSE]
      /\ UNCHANGED <<pods, set, ipHolder, bindTimer, startTimer, checkTimer, stack,
                     age, incarnation>>
  BY DEF ProcessExits
<1>2. \A m \in Ordinals \ {n} : proc'[m] = proc[m]
  BY <1>1 DEF Whole, IInv, Types, ComponentsOK, Named
<1>3. OthersKeep(n)
  BY <1>1, <1>2 DEF OthersKeep
<1>4. proc'[n].incarnation = proc[n].incarnation
  <2>1. proc[n] \in [incarnation : Nat, running : BOOLEAN]
    BY <1>1 DEF ProcessRuns, Whole, IInv, Types, ComponentsOK, Named
  <2>2. proc'[n] = [proc[n] EXCEPT !.running = FALSE]
    BY <1>1 DEF Whole, IInv, Types, ComponentsOK, Named
  <2> QED
    BY <2>1, <2>2
<1>5. \A m \in Ordinals : Same(m)
  BY <1>1 DEF Same
<1>6. Effects(n)
  <2>1. KeptAll(n) /\ ~BoundDeletionTold(n)
    BY <1>1, IdleFacts
  <2>2. ProcEffect(n)
    BY <1>1, <1>4, <1>5, <2>1 DEF ProcEffect, ProcessRuns
  <2> QED
    BY <1>1, <2>1, <2>2, QuietEffects DEF Effects, KeptAll
<1>7. On(stack') = {}
  BY <1>1, EmptyStack DEF Idle
<1> QED
  BY <1>1, <1>3, <1>5, <1>6, <1>7, CallLawful

LEMMA ResyncLawful ==
  ASSUME Whole, NEW c \in {"Scheduler", "PodLifecycle"}, Resync(c)
  PROVE  Lawful
<1> DEFINE frame == [op |-> "sync", queue |-> c, keys |-> Due(c)]
<1>1. /\ Idle /\ stack' = <<frame>>
      /\ UNCHANGED <<pods, set, components, queue, age, incarnation>>
  BY DEF Resync
<1>2. frame \in Frames /\ Free(frame)
  BY DEF Frames, Due, Free
<1> HIDE DEF frame
<1>3. On(stack') = {frame}
  <2>1. <<frame>> \o << >> = <<frame>>
    BY <1>2
  <2> QED
    BY <1>1, <1>2, <2>1, EmptyStack, OnPush
<1>4. FramesHold'
  BY <1>2, <1>3 DEF FramesHold, Free, Holds
<1>5. \A m \in Ordinals : KeysKept(m)
  BY <1>1 DEF KeysKept, KeyIn
<1>6. On(stack) = {}
  BY <1>1, EmptyStack DEF Idle
<1> QED
  BY <1>1, <1>4, <1>5, <1>6, QuietLawful

\* Nothing of what the frames and the names rely on changes.
LEMMA StillLawful ==
  ASSUME Whole,
         UNCHANGED <<pods, set, components, queue, stack, age, incarnation>>
  PROVE  Lawful
<1>1. FramesHold'
  BY DEF Whole, BInv, FramesHold, Holds, ReadHolds, ArmHolds, DeletionHolds,
     RunningHolds, Suits, Exists
<1>2. \A m \in Ordinals : KeysKept(m)
  BY DEF KeysKept, KeyIn
<1> QED
  BY <1>1, <1>2, QuietLawful

-------------------------------------------------------------------------------
(* The invariant *)

\* Every step but an edit of the set
StepsOfPods ==
  \/ Run
  \/ Calls
  \/ \E n \in Ordinals : TimePasses(n) \/ ProcessExits(n)
  \/ SetSchedulable
  \/ UNCHANGED vars

LEMMA StepLawful ==
  ASSUME Whole, StepsOfPods
  PROVE  Lawful /\ SetOwes'
<1>1. CASE Run
  BY <1>1, RunLawful
<1>2. CASE Calls
  <2>1. Lawful
    BY <1>2, BindTimerLawful, StartTimerLawful, CheckTimerLawful, DeletePodLawful,
       ResyncLawful DEF Calls
  <2> QED
    BY <1>2, <2>1, CallsCalm, CalmOwes DEF Whole
<1>3. ASSUME UNCHANGED <<pods, set, stack, queue>>
      PROVE  SetOwes'
  BY <1>3 DEF Whole, BInv, SetOwes, Judged, Suits, Exists, WillReconcile
<1>4. CASE \E n \in Ordinals : TimePasses(n)
  BY <1>3, <1>4, TimePassesLawful DEF TimePasses
<1>5. CASE \E n \in Ordinals : ProcessExits(n)
  BY <1>3, <1>5, ProcessExitsLawful DEF ProcessExits
<1>6. CASE SetSchedulable
  BY <1>3, <1>6, StillLawful DEF SetSchedulable, Edit
<1>7. CASE UNCHANGED vars
  BY <1>3, <1>7, StillLawful DEF vars
<1> QED
  BY <1>1, <1>2, <1>4, <1>5, <1>6, <1>7 DEF StepsOfPods

LEMMA LawfulKeeps ==
  ASSUME Whole, StoreOK', Lawful, SetOwes'
  PROVE  BInv'
<1>1. ASSUME NEW n \in Ordinals
      PROVE  NameInv(n)'
  <2>1. Progress(n)
    BY SmallChanges DEF Lawful, Progress, Whole, BInv, IInv, Types
  <2>2. Bound(n) => pods[n].terminating \/ Suits(n)
    BY IdleFacts DEF Bound, Judged, Stays
  <2> QED
    BY <2>1, <2>2, NameKept DEF Whole
<1> QED
  BY <1>1 DEF Lawful, BInv

LEMMA EditSetShape ==
  ASSUME IInv, NEW spec \in Specs, EditSet(spec)
  PROVE  /\ Idle /\ UNCHANGED <<pods, components, queue, age, incarnation>>
         /\ \E f \in On(stack') : TellsSet(f)
         /\ \A f \in On(stack') :
              f.op = "deliver" /\ f.event.type = "StatefulSetUpdated"
<1> DEFINE new == [set EXCEPT !.spec = spec]
<1>1. /\ Idle /\ UNCHANGED <<components, queue, age>>
      /\ Emit(SetEvent(new), << >>)
  BY DEF EditSet, Edit
<1>2. new \in Sets
  BY DEF IInv, Types, StoreOK, Sets
<1> HIDE DEF new
<1> DEFINE event == SetEvent(new)
<1>3. event \in Events /\ event.type = "StatefulSetUpdated"
  BY <1>2 DEF SetEvent, Events
<1>4. Emit(event, << >>)
  BY <1>1
<1> HIDE DEF event
<1>5. On(stack') = {Delivery(event, 1)}
  BY <1>3, <1>4, EmptyStack, EmitShape
<1>6. UNCHANGED <<pods, incarnation>>
  BY <1>3, <1>4 DEF Emit
<1> QED
  BY <1>1, <1>3, <1>5, <1>6 DEF Delivery, TellsSet

LEMMA EditSetKeepsNames ==
  ASSUME Whole, NEW spec \in Specs, EditSet(spec)
  PROVE  BInv'
<1>1. /\ Idle /\ UNCHANGED <<pods, components, queue, age, incarnation>>
      /\ \E f \in On(stack') : TellsSet(f)
      /\ \A f \in On(stack') :
           f.op = "deliver" /\ f.event.type = "StatefulSetUpdated"
  BY EditSetShape DEF Whole
<1>2. SetOwes'
  BY <1>1 DEF SetOwes, WillReconcile
<1>3. FramesHold'
  BY <1>1 DEF FramesHold, Holds
<1>4. ASSUME NEW n \in Ordinals
      PROVE  NameInv(n)'
  <2>1. /\ NameInv(n)
        /\ ~StartTold(n) /\ ~EndTold(n) /\ ~IpTold(n) /\ ~BoundDeletionTold(n)
        /\ ~DeletionTold(n, 2) /\ ~DeletionTold(n, 3) /\ ~DeletionTold(n, 5)
        /\ ~ArmWaits(n)
    BY <1>1, IdleFacts
  <2>2. StartIsDue(n)'
    BY <1>1, <2>1 DEF NameInv, StartIsDue, Exists, components
  <2>3. StartIsComing(n)'
    BY <1>1, <2>1 DEF NameInv, StartIsComing, MayStart, Exists, components
  <2>4. AddressIsComing(n)'
    BY <1>1, <2>1 DEF NameInv, AddressIsComing, Exists
  <2>5. PodIsSound(n)'
    BY <1>1, <2>1 DEF NameInv, PodIsSound, Exists, ProcessRuns, components
  <2>6. CheckIsDue(n)'
    BY <1>1, <2>1 DEF NameInv, CheckIsDue, Exists, components
  <2>7. HoldingsAreIts(n)'
    BY <1>1, <2>1 DEF NameInv, HoldingsAreIts, Exists, components
  <2> QED
    BY <2>2, <2>3, <2>4, <2>5, <2>6, <2>7 DEF NameInv
<1> QED
  BY <1>2, <1>3, <1>4 DEF BInv

\* Edits of the set, by the field they change
LEMMA EditsAreOfTheSet ==
  ASSUME IInv, [Next]_vars
  PROVE  StepsOfPods \/ \E spec \in Specs : EditSet(spec)
<1> USE DEF IInv, Types, StoreOK, Sets, Specs
<1>1. ASSUME NEW replicas \in 0..MaxReplicas, Scale(replicas)
      PROVE  \E spec \in Specs : EditSet(spec)
  <2>1. [set.spec EXCEPT !.replicas = replicas] \in Specs
    OBVIOUS
  <2> QED
    BY <1>1, <2>1 DEF Scale
<1>2. ASSUME NEW template \in Templates, ChangeTemplate(template)
      PROVE  \E spec \in Specs : EditSet(spec)
  <2>1. [set.spec EXCEPT !.template = template] \in Specs
    OBVIOUS
  <2> QED
    BY <1>2, <2>1 DEF ChangeTemplate
<1> QED
  BY <1>1, <1>2 DEF Next, StepsOfPods, Calls

LEMMA StepKeepsNames ==
  ASSUME Whole, [Next]_vars
  PROVE  BInv'
<1>1. StoreOK'
  BY StepPreserves DEF Whole, IInv, Types
<1>2. CASE StepsOfPods
  BY <1>1, <1>2, StepLawful, LawfulKeeps
<1>3. CASE \E spec \in Specs : EditSet(spec)
  BY <1>3, EditSetKeepsNames
<1> QED
  BY <1>2, <1>3, EditsAreOfTheSet DEF Whole

LEMMA InitNames == Init => BInv
<1> SUFFICES ASSUME Init PROVE BInv
  OBVIOUS
<1> DEFINE event == SetEvent(FirstSet)
           frame == Delivery(event, 1)
<1>1. \A n \in Ordinals : ~Exists(n)
  BY DEF Init, Exists
<1>2. stack = <<frame>> /\ TellsSet(frame)
  BY DEF Init, TellsSet, Delivery, SetEvent
<1>3. Free(frame) /\ frame.op = "deliver"
  BY DEF Free, Delivery, SetEvent
<1> HIDE DEF frame
<1>4. On(stack) = {frame}
  BY <1>2 DEF On
<1>5. SetOwes /\ FramesHold
  BY <1>2, <1>3, <1>4 DEF SetOwes, WillReconcile, FramesHold, Holds, Free
<1>6. ASSUME NEW n \in Ordinals
      PROVE  NameInv(n)
  <2>1. /\ bindTimer[n] = None /\ startTimer[n] = None /\ checkTimer[n] = None
        /\ proc[n] = None /\ ipHolder[n] = None
    BY DEF Init
  <2> QED
    BY <1>1, <2>1 DEF NameInv, StartIsDue, StartIsComing, AddressIsComing,
       PodIsSound, CheckIsDue, HoldingsAreIts, MayStart
<1> QED
  BY <1>5, <1>6 DEF BInv

LEMMA NamesInvariance ==
  ASSUME Delays
  PROVE  Spec => [](IInv /\ OInv /\ BInv)
<1>1. Init => IInv /\ OInv /\ BInv
  BY InitEstablishes, InitOrder, InitNames
<1>2. IInv /\ OInv /\ BInv /\ [Next]_vars => (IInv /\ OInv /\ BInv)'
  BY StepPreserves, StepOrder, StepKeepsNames DEF Whole
<1> QED
  BY <1>1, <1>2, PTL DEF Spec

\* When the call stack is empty every pod that is being deleted has the timer
\* that will look at it again (PodTerminationController.scheduleFinalizeCheck),
\* and a pod has a start timer exactly while it may start
\* (PodLifecycleController), provided the simulator is run with delays.
THEOREM DecisionsAreAlwaysArmed ==
  ASSUME Delays
  PROVE  Spec => []DecisionsAreArmed
<1>1. IInv /\ OInv /\ BInv => DecisionsAreArmed
  <2>1. SUFFICES ASSUME IInv, OInv, BInv, Idle, NEW n \in Ordinals
                 PROVE  /\ checkTimer[n] # None <=> Exists(n) /\ pods[n].terminating
                        /\ startTimer[n] # None <=>
                             Delays /\ Exists(n) /\ ShouldProgress(pods[n])
                               /\ ~pods[n].terminating
    BY DEF DecisionsAreArmed
  <2>2. /\ NameInv(n) /\ ~StartTold(n) /\ ~EndTold(n) /\ ~ArmWaits(n)
        /\ ~DeletionTold(n, 3)
    BY <2>1, IdleFacts DEF Whole
  <2>3. checkTimer[n] # None <=> Exists(n) /\ pods[n].terminating
    BY <2>2 DEF NameInv, CheckIsDue
  <2>4. startTimer[n] # None =>
          Exists(n) /\ ShouldProgress(pods[n]) /\ ~pods[n].terminating
    BY <2>2 DEF NameInv, StartIsDue
  <2>5. Exists(n) /\ ShouldProgress(pods[n]) /\ ~pods[n].terminating =>
          startTimer[n] # None
    BY <2>2 DEF NameInv, StartIsComing, MayStart
  <2> QED
    BY <2>3, <2>4, <2>5
<1> QED
  BY <1>1, NamesInvariance, PTL

\* When the call stack is empty whatever the scheduler, the kubelet, the process
\* runtime and the pod IP service keep under a pod's name is of the pod that has
\* the name now, and a running pod has its process and its address.
THEOREM PodsOwnTheirResources ==
  ASSUME Delays
  PROVE  Spec => []OwnsItsResources
<1>1. IInv /\ OInv /\ BInv => OwnsItsResources
  <2>1. SUFFICES ASSUME IInv, OInv, BInv, Idle, NEW n \in Ordinals
                 PROVE  LET holders == {bindTimer[n], startTimer[n], ipHolder[n],
                              IF checkTimer[n] = None THEN None
                              ELSE checkTimer[n].incarnation,
                              IF proc[n] = None THEN None
                              ELSE proc[n].incarnation}
                        IN  /\ \A h \in holders \ {None} :
                                 Exists(n) /\ h = pods[n].incarnation
                            /\ Exists(n) /\ pods[n].phase = "Running" =>
                                 /\ pods[n].ip /\ ipHolder[n] # None
                                 /\ pods[n].template \in Long => ProcessRuns(n)
    BY DEF OwnsItsResources
  <2>2. /\ NameInv(n) /\ ~IpTold(n) /\ ~BoundDeletionTold(n)
        /\ ~DeletionTold(n, 2) /\ ~DeletionTold(n, 3) /\ ~DeletionTold(n, 5)
    BY <2>1, IdleFacts DEF Whole
  <2>3. /\ bindTimer[n] # None => Exists(n) /\ bindTimer[n] = pods[n].incarnation
        /\ ipHolder[n] # None => Exists(n) /\ ipHolder[n] = pods[n].incarnation
        /\ proc[n] # None =>
             Exists(n) /\ proc[n].incarnation = pods[n].incarnation
    BY <2>2 DEF NameInv, HoldingsAreIts
  <2>4. /\ startTimer[n] # None =>
             Exists(n) /\ startTimer[n] = pods[n].incarnation
        /\ checkTimer[n] # None =>
             Exists(n) /\ checkTimer[n].incarnation = pods[n].incarnation
    BY <2>2 DEF NameInv, StartIsDue, CheckIsDue
  <2>5. ASSUME Exists(n), pods[n].phase = "Running"
        PROVE  /\ pods[n].ip /\ ipHolder[n] # None
               /\ pods[n].template \in Long => ProcessRuns(n)
    <3>1. pods[n].ip
      BY <2>2, <2>5 DEF NameInv, AddressIsComing
    <3>2. ipHolder[n] = pods[n].incarnation
      BY <2>2, <2>5, <3>1 DEF NameInv, PodIsSound
    <3>3. ipHolder[n] # None
      BY <2>1, <2>5, <3>2, PhaseOfPod, NoneIsNoNumber DEF IInv, Types
    <3> QED
      BY <2>2, <2>5, <3>1, <3>3 DEF NameInv, PodIsSound
  <2> QED
    BY <2>3, <2>4, <2>5
<1> QED
  BY <1>1, NamesInvariance, PTL

-------------------------------------------------------------------------------
(* The refinement of PodLife *)

Entry(number, stage, terminating, seen) ==
  [number |-> number, stage |-> stage, terminating |-> terminating, seen |-> seen]

LEMMA EntryHas ==
  ASSUME NEW a, NEW b, NEW c, NEW d, NEW e, e = Entry(a, b, c, d)
  PROVE  e.number = a /\ e.stage = b /\ e.terminating = c /\ e.seen = d
BY DEF Entry

LEMMA WithNumber ==
  ASSUME NEW a, NEW b, NEW c, NEW d, NEW x, NEW e, e = Entry(a, b, c, d)
  PROVE  [e EXCEPT !.number = x] = Entry(x, b, c, d)
BY DEF Entry

LEMMA WithStage ==
  ASSUME NEW a, NEW b, NEW c, NEW d, NEW x, NEW e, e = Entry(a, b, c, d)
  PROVE  [e EXCEPT !.stage = x] = Entry(a, x, c, d)
BY DEF Entry

LEMMA WithTerminating ==
  ASSUME NEW a, NEW b, NEW c, NEW d, NEW x, NEW e, e = Entry(a, b, c, d)
  PROVE  [e EXCEPT !.terminating = x] = Entry(a, b, x, d)
BY DEF Entry

LEMMA WithSeen ==
  ASSUME NEW a, NEW b, NEW c, NEW d, NEW x, NEW e, e = Entry(a, b, c, d)
  PROVE  [e EXCEPT !.seen = x] = Entry(a, b, c, x)
BY DEF Entry

\* The part of Life that a name has
LifeOf(n) ==
  IF Exists(n)
  THEN Entry(pods[n].incarnation, Stage(pods[n]), pods[n].terminating,
             pods[n].terminating /\ age[n] > 0)
  ELSE Entry(incarnation[n], "absent", FALSE, FALSE)

LEMMA LifeIsLifeOf ==
  /\ Life = [n \in Ordinals |-> LifeOf(n)]
  /\ Life' = [n \in Ordinals |-> LifeOf(n)']
BY DEF Life, LifeOf, Entry

LEMMA SameLife ==
  ASSUME NEW n \in Ordinals, Same(n)
  PROVE  LifeOf(n)' = LifeOf(n)
BY DEF Same, LifeOf, Exists, Stage

LEMMA OneLife ==
  ASSUME NEW n \in Ordinals, \A m \in Ordinals \ {n} : Same(m)
  PROVE  Life[n] = LifeOf(n) /\ Life' = [Life EXCEPT ![n] = LifeOf(n)']
<1>1. \A m \in Ordinals \ {n} : LifeOf(m)' = LifeOf(m)
  BY SameLife
<1>2. DOMAIN Life = Ordinals /\ DOMAIN Life' = Ordinals
  BY LifeIsLifeOf
<1>3. \A m \in Ordinals : Life[m] = LifeOf(m) /\ Life'[m] = LifeOf(m)'
  BY LifeIsLifeOf
<1>4. \A m \in Ordinals : Life'[m] = [Life EXCEPT ![n] = LifeOf(n)'][m]
  BY <1>1, <1>2, <1>3
<1>5. Life' = [m \in Ordinals |-> Life'[m]]
  BY LifeIsLifeOf
<1>6. [Life EXCEPT ![n] = LifeOf(n)']
        = [m \in Ordinals |-> [Life EXCEPT ![n] = LifeOf(n)'][m]]
  BY <1>2
<1> QED
  BY <1>3, <1>4, <1>5, <1>6

\* The life of a pod that exists, and the stages it may be at
LEMMA LifeOfPod ==
  ASSUME StoreOK, AgeOK, NEW n \in Ordinals, Exists(n)
  PROVE  /\ LifeOf(n) = Entry(pods[n].incarnation, Stage(pods[n]),
                              pods[n].terminating,
                              pods[n].terminating /\ age[n] > 0)
         /\ Stage(pods[n]) \in {"running", "bound", "pending"}
         /\ age[n] \in 0..2
BY DEF LifeOf, Stage, AgeOK

LEMMA SameStage ==
  ASSUME NEW p, NEW q, SamePod(p, q), p.bound \in BOOLEAN, q.bound \in BOOLEAN
  PROVE  Stage(p) = Stage(q)
BY DEF SamePod, Stage

Progressing(n) ==
  /\ Whole /\ StoreOK' /\ AgeOK'
  /\ Small /\ \A m \in Ordinals \ {n} : Same(m)

LEMMA BooleanValues ==
  /\ \E yes : yes = TRUE
  /\ \E no : no = FALSE
OBVIOUS

\* A pod that is not terminating says so in its life.
LEMMA NotTerminating ==
  ASSUME StoreOK, NEW n \in Ordinals, Exists(n), ~pods[n].terminating
  PROVE  pods[n].terminating = FALSE
<1>1. pods[n].terminating \in BOOLEAN
  BY PhaseOfPod
<1> QED
  BY <1>1

LEMMA BornCreates ==
  ASSUME NEW n \in Ordinals, Progressing(n), Born(n)
  PROVE  Lives!Create(n)
<1>1. PICK no : no = FALSE
  BY BooleanValues
<1>2. LifeOf(n) = Entry(incarnation[n], "absent", no, no)
  BY <1>1 DEF Born, LifeOf
<1>3. Stage(pods'[n]) = "pending"
  BY DEF Born, Stage
<1>4. pods'[n].terminating = FALSE
  <2>1. Exists(n)' /\ ~pods'[n].terminating
    BY DEF Born
  <2>2. pods'[n].terminating \in BOOLEAN
    BY <2>1 DEF Progressing, StoreOK, Named, Exists, Pods
  <2> QED
    BY <2>1, <2>2
<1>5. LifeOf(n)' = Entry(incarnation[n] + 1, "pending", no, no)
  BY <1>1, <1>3, <1>4 DEF Born, LifeOf
<1>6. Life[n] = LifeOf(n) /\ Life' = [Life EXCEPT ![n] = LifeOf(n)']
  BY OneLife DEF Progressing
<1>7. Life[n].number = incarnation[n] /\ Life[n].stage = "absent"
  BY <1>2, <1>6, EntryHas
<1>8. [Life[n] EXCEPT !.number = incarnation[n] + 1]
        = Entry(incarnation[n] + 1, "absent", no, no)
  BY <1>2, <1>6, WithNumber
<1>9. [[Life[n] EXCEPT !.number = incarnation[n] + 1] EXCEPT !.stage = "pending"]
        = Entry(incarnation[n] + 1, "pending", no, no)
  <2>1. [Entry(incarnation[n] + 1, "absent", no, no) EXCEPT !.stage = "pending"]
          = Entry(incarnation[n] + 1, "pending", no, no)
    BY WithStage
  <2> QED
    BY <1>8, <2>1
<1>10. Life' = [Life EXCEPT ![n].number = @ + 1, ![n].stage = "pending"]
  <2>1. Life' = [Life EXCEPT ![n] = [[Life[n] EXCEPT !.number = incarnation[n] + 1]
                                       EXCEPT !.stage = "pending"]]
    BY <1>5, <1>6, <1>9
  <2>2. Life' = [Life EXCEPT ![n].number = incarnation[n] + 1,
                             ![n].stage = "pending"]
    BY <2>1
  <2> QED
    BY <1>7, <2>2
<1> QED
  BY <1>7, <1>10 DEF Lives!Create

LEMMA BoundBinds ==
  ASSUME NEW n \in Ordinals, Progressing(n), Bound(n)
  PROVE  Lives!Bind(n)
<1> DEFINE number == pods[n].incarnation
           dying == pods[n].terminating
           seen == pods[n].terminating /\ age[n] > 0
<1>1. Exists(n) /\ pods[n].phase = "Pending"
  <2>1. Exists(n) /\ ~pods[n].bound
    BY DEF Bound, Stays
  <2>2. pods[n].phase # "Running"
    BY <2>1 DEF Progressing, Whole, BInv, NameInv, PodIsSound
  <2> QED
    BY <2>1, <2>2, PhaseOfPod DEF Progressing, Whole, IInv, Types
<1>2. Stage(pods[n]) = "pending" /\ Stage(pods'[n]) = "bound"
  BY <1>1 DEF Bound, Stage
<1>3. LifeOf(n) = Entry(number, "pending", dying, seen)
  BY <1>1, <1>2 DEF LifeOf
<1>4. LifeOf(n)' = Entry(number, "bound", dying, seen)
  BY <1>2 DEF LifeOf, Bound, Stays
<1> HIDE DEF number, dying, seen
<1>5. Life[n] = LifeOf(n) /\ Life' = [Life EXCEPT ![n] = LifeOf(n)']
  BY OneLife DEF Progressing
<1>6. Life[n].stage = "pending"
  BY <1>3, <1>5, EntryHas
<1>7. [Life[n] EXCEPT !.stage = "bound"] = Entry(number, "bound", dying, seen)
  BY <1>3, <1>5, WithStage
<1>8. Life' = [Life EXCEPT ![n].stage = "bound"]
  BY <1>4, <1>5, <1>7
<1> QED
  BY <1>6, <1>8 DEF Lives!Bind, Lives!Advance

LEMMA StartedStarts ==
  ASSUME NEW n \in Ordinals, Progressing(n), Started(n)
  PROVE  Lives!Start(n)
<1> DEFINE number == pods[n].incarnation
<1>1. PICK no : no = FALSE
  BY BooleanValues
<1>2. /\ Exists(n) /\ ~pods[n].terminating
      /\ pods[n].phase = "Pending" /\ pods[n].bound
      /\ Exists(n)' /\ ~pods'[n].terminating /\ pods'[n].phase = "Running"
      /\ pods'[n].incarnation = number
  BY DEF Started, Stays, ShouldProgress
<1>3. Stage(pods[n]) = "bound" /\ Stage(pods'[n]) = "running"
  BY <1>2 DEF Stage
<1>4. pods[n].terminating = FALSE
  BY <1>2, NotTerminating DEF Progressing, Whole, IInv, Types
<1>5. pods'[n].terminating = FALSE
  <2>1. pods'[n].terminating \in BOOLEAN
    BY <1>2 DEF Progressing, StoreOK, Named, Exists, Pods
  <2> QED
    BY <1>2, <2>1
<1>6. LifeOf(n) = Entry(number, "bound", no, no)
  BY <1>1, <1>2, <1>3, <1>4 DEF LifeOf
<1>7. LifeOf(n)' = Entry(number, "running", no, no)
  BY <1>1, <1>2, <1>3, <1>5 DEF LifeOf
<1> HIDE DEF number
<1>8. Life[n] = LifeOf(n) /\ Life' = [Life EXCEPT ![n] = LifeOf(n)']
  BY OneLife DEF Progressing
<1>9. Life[n].stage = "bound" /\ Life[n].terminating = no
  BY <1>6, <1>8, EntryHas
<1>10. [Life[n] EXCEPT !.stage = "running"] = Entry(number, "running", no, no)
  BY <1>6, <1>8, WithStage
<1>11. Life' = [Life EXCEPT ![n].stage = "running"]
  BY <1>7, <1>8, <1>10
<1>12. ~Life[n].terminating
  BY <1>1, <1>9
<1> QED
  BY <1>9, <1>11, <1>12 DEF Lives!Start, Lives!Advance

LEMMA MarkedTerminates ==
  ASSUME NEW n \in Ordinals, Progressing(n), Marked(n)
  PROVE  Lives!Terminate(n)
<1> DEFINE number == pods[n].incarnation
           stage == Stage(pods[n])
<1>1. PICK no : no = FALSE
  BY BooleanValues
<1>2. PICK yes : yes = TRUE
  BY BooleanValues
<1>3. /\ Exists(n) /\ ~pods[n].terminating
      /\ Exists(n)' /\ pods'[n].terminating /\ SamePod(pods'[n], pods[n])
      /\ age'[n] = 0
  BY DEF Marked, Stays
<1>4. pods[n] \in Pods /\ pods'[n] \in Pods
  BY <1>3 DEF Progressing, Whole, IInv, Types, StoreOK, Named, Exists
<1>5. Stage(pods'[n]) = stage /\ pods'[n].incarnation = number
  BY <1>3, <1>4, SameStage DEF Pods, SamePod
<1>6. pods[n].terminating = FALSE /\ pods'[n].terminating = TRUE
  <2>1. pods[n].terminating \in BOOLEAN /\ pods'[n].terminating \in BOOLEAN
    BY <1>4 DEF Pods
  <2> QED
    BY <1>3, <2>1
<1>7. LifeOf(n) = Entry(number, stage, no, no)
  BY <1>1, <1>3, <1>6 DEF LifeOf
<1>8. ~(age'[n] > 0)
  BY <1>3
<1>9. LifeOf(n)' = Entry(number, stage, yes, no)
  BY <1>1, <1>2, <1>3, <1>5, <1>6, <1>8 DEF LifeOf
<1>10. stage # "absent"
  BY DEF Stage
<1> HIDE DEF number, stage
<1>11. Life[n] = LifeOf(n) /\ Life' = [Life EXCEPT ![n] = LifeOf(n)']
  BY OneLife DEF Progressing
<1>12. Life[n].stage = stage /\ Life[n].terminating = no
  BY <1>7, <1>11, EntryHas
<1>13. [Life[n] EXCEPT !.terminating = yes] = Entry(number, stage, yes, no)
  BY <1>7, <1>11, WithTerminating
<1>14. Life' = [Life EXCEPT ![n].terminating = yes]
  BY <1>9, <1>11, <1>13
<1>15. Life' = [Life EXCEPT ![n].terminating = TRUE]
  BY <1>2, <1>14
<1>16. ~Life[n].terminating
  BY <1>1, <1>12
<1> QED
  BY <1>10, <1>12, <1>15, <1>16 DEF Lives!Terminate

LEMMA AgedIsSeen ==
  ASSUME NEW n \in Ordinals, Progressing(n), Aged(n)
  PROVE  Lives!BeSeen(n)
<1> DEFINE number == pods[n].incarnation
           stage == Stage(pods[n])
           dying == pods[n].terminating
           seen == pods[n].terminating /\ age[n] > 0
<1>1. PICK yes : yes = TRUE
  BY BooleanValues
<1>2. /\ Exists(n) /\ pods[n].terminating /\ pods'[n] = pods[n]
      /\ age'[n] = age[n] + 1
  BY DEF Aged
<1>3. age'[n] > 0
  <2>1. age[n] \in 0..2
    BY DEF Progressing, Whole, IInv, Types, AgeOK
  <2> QED
    BY <1>2, <2>1
<1>4. LifeOf(n) = Entry(number, stage, dying, seen)
  BY <1>2 DEF LifeOf
<1>6. LifeOf(n)' = Entry(number, stage, dying, yes)
  BY <1>1, <1>2, <1>3 DEF LifeOf, Exists
<1>7. Life[n] = LifeOf(n) /\ Life' = [Life EXCEPT ![n] = LifeOf(n)']
  BY OneLife DEF Progressing
<1>8. dying
  BY <1>2
<1> HIDE DEF number, stage, dying, seen
<1>9. Life[n].terminating = dying
  BY <1>4, <1>7, EntryHas
<1>10. [Life[n] EXCEPT !.seen = yes] = Entry(number, stage, dying, yes)
  BY <1>4, <1>7, WithSeen
<1>11. Life' = [Life EXCEPT ![n].seen = yes]
  BY <1>6, <1>7, <1>10
<1>12. Life' = [Life EXCEPT ![n].seen = TRUE]
  BY <1>1, <1>11
<1> QED
  BY <1>8, <1>9, <1>12 DEF Lives!BeSeen

LEMMA RemovedRemoves ==
  ASSUME NEW n \in Ordinals, Progressing(n), Removed(n)
  PROVE  Lives!Remove(n)
<1> DEFINE number == incarnation[n]
           stage == Stage(pods[n])
<1>1. PICK no : no = FALSE
  BY BooleanValues
<1>2. PICK yes : yes = TRUE
  BY BooleanValues
<1>3. /\ Exists(n) /\ pods[n].terminating /\ age[n] >= 1
      /\ ~Exists(n)' /\ incarnation'[n] = incarnation[n]
      /\ pods[n].incarnation = incarnation[n]
  BY DEF Removed, Progressing, Whole, BInv, NameInv, PodIsSound
<1>4. pods[n].terminating = TRUE /\ age[n] > 0
  <2>1. pods[n].terminating \in BOOLEAN
    BY <1>3, PhaseOfPod DEF Progressing, Whole, IInv, Types
  <2>2. age[n] \in 0..2
    BY DEF Progressing, Whole, IInv, Types, AgeOK
  <2> QED
    BY <1>3, <2>1, <2>2
<1>5. LifeOf(n) = Entry(number, stage, yes, yes)
  BY <1>2, <1>3, <1>4 DEF LifeOf
<1>6. LifeOf(n)' = Entry(number, "absent", no, no)
  BY <1>1, <1>3 DEF LifeOf
<1> HIDE DEF number, stage
<1>7. Life[n] = LifeOf(n) /\ Life' = [Life EXCEPT ![n] = LifeOf(n)']
  BY OneLife DEF Progressing
<1>8. Life[n].seen = yes
  BY <1>5, <1>7, EntryHas
<1>9. [Life[n] EXCEPT !.stage = "absent"] = Entry(number, "absent", yes, yes)
  BY <1>5, <1>7, WithStage
<1>10. [[Life[n] EXCEPT !.stage = "absent"] EXCEPT !.terminating = no]
         = Entry(number, "absent", no, yes)
  <2>1. [Entry(number, "absent", yes, yes) EXCEPT !.terminating = no]
          = Entry(number, "absent", no, yes)
    BY WithTerminating
  <2> QED
    BY <1>9, <2>1
<1>11. [[[Life[n] EXCEPT !.stage = "absent"] EXCEPT !.terminating = no]
          EXCEPT !.seen = no] = Entry(number, "absent", no, no)
  <2>1. [Entry(number, "absent", no, yes) EXCEPT !.seen = no]
          = Entry(number, "absent", no, no)
    BY WithSeen
  <2> QED
    BY <1>10, <2>1
<1>12. Life' = [Life EXCEPT ![n].stage = "absent", ![n].terminating = no,
                            ![n].seen = no]
  <2>1. Life' = [Life EXCEPT ![n] =
                   [[[Life[n] EXCEPT !.stage = "absent"] EXCEPT !.terminating = no]
                      EXCEPT !.seen = no]]
    BY <1>6, <1>7, <1>11
  <2> QED
    BY <2>1
<1>13. Life' = [Life EXCEPT ![n].stage = "absent", ![n].terminating = FALSE,
                            ![n].seen = FALSE]
  BY <1>1, <1>12
<1>14. Life[n].seen
  BY <1>2, <1>8
<1> QED
  BY <1>13, <1>14 DEF Lives!Remove

\* A pod that is reported as being created, or gets its address, stays as it is.
LEMMA ReportedStutters ==
  ASSUME NEW n \in Ordinals, Progressing(n), Reported(n) \/ Addressed(n)
  PROVE  Life' = Life
<1> DEFINE number == pods[n].incarnation
           stage == Stage(pods[n])
<1>1. PICK no : no = FALSE
  BY BooleanValues
<1>2. /\ Exists(n) /\ ~pods[n].terminating
      /\ Exists(n)' /\ ~pods'[n].terminating /\ SamePod(pods'[n], pods[n])
  BY DEF Reported, Addressed, Stays, MayStart
<1>3. pods[n] \in Pods /\ pods'[n] \in Pods
  BY <1>2 DEF Progressing, Whole, IInv, Types, StoreOK, Named, Exists
<1>4. Stage(pods'[n]) = stage /\ pods'[n].incarnation = number
  BY <1>2, <1>3, SameStage DEF Pods, SamePod
<1>5. pods[n].terminating = FALSE /\ pods'[n].terminating = FALSE
  <2>1. pods[n].terminating \in BOOLEAN /\ pods'[n].terminating \in BOOLEAN
    BY <1>3 DEF Pods
  <2> QED
    BY <1>2, <2>1
<1>6. LifeOf(n) = Entry(number, stage, no, no)
  BY <1>1, <1>2, <1>5 DEF LifeOf
<1>7. LifeOf(n)' = Entry(number, stage, no, no)
  BY <1>1, <1>2, <1>4, <1>5 DEF LifeOf
<1>8. Life[n] = LifeOf(n) /\ Life' = [Life EXCEPT ![n] = LifeOf(n)']
  BY OneLife DEF Progressing
<1>9. Life = [m \in Ordinals |-> LifeOf(m)]
  BY LifeIsLifeOf
<1> HIDE DEF number, stage
<1> QED
  BY <1>6, <1>7, <1>8, <1>9

LEMMA LawfulLives ==
  ASSUME Whole, StoreOK', AgeOK', Lawful
  PROVE  [Lives!Next]_Life
<1>1. CASE \A n \in Ordinals : Same(n)
  <2>1. \A n \in Ordinals : LifeOf(n)' = LifeOf(n)
    BY <1>1, SameLife
  <2>2. Life' = Life
    BY <2>1, LifeIsLifeOf
  <2> QED
    BY <2>2
<1>2. ASSUME NEW n \in Ordinals, Changes(n), \A m \in Ordinals \ {n} : Same(m)
      PROVE  [Lives!Next]_Life
  <2>1. Progressing(n)
    BY <1>2 DEF Progressing, Lawful
  <2>2. CASE Born(n)
    BY <2>1, <2>2, BornCreates DEF Lives!Next
  <2>3. CASE Marked(n)
    BY <2>1, <2>3, MarkedTerminates DEF Lives!Next
  <2>4. CASE Reported(n) \/ Addressed(n)
    BY <2>1, <2>4, ReportedStutters
  <2>5. CASE Removed(n)
    BY <2>1, <2>5, RemovedRemoves DEF Lives!Next
  <2>6. CASE Bound(n)
    BY <2>1, <2>6, BoundBinds DEF Lives!Next
  <2>7. CASE Started(n)
    BY <2>1, <2>7, StartedStarts DEF Lives!Next
  <2>8. CASE Aged(n)
    BY <2>1, <2>8, AgedIsSeen DEF Lives!Next
  <2> QED
    BY <1>2, <2>2, <2>3, <2>4, <2>5, <2>6, <2>7, <2>8 DEF Changes
<1> QED
  BY <1>1, <1>2 DEF Lawful, Small

LEMMA StepLives ==
  ASSUME Whole, [Next]_vars
  PROVE  [Lives!Next]_Life
<1>1. StoreOK' /\ AgeOK'
  BY StepPreserves DEF Whole, IInv, Types
<1>2. CASE StepsOfPods
  BY <1>1, <1>2, StepLawful, LawfulLives
<1>3. CASE \E spec \in Specs : EditSet(spec)
  <2>1. UNCHANGED <<pods, age, incarnation>>
    BY <1>3, EditSetShape DEF Whole
  <2>2. \A n \in Ordinals : LifeOf(n)' = LifeOf(n)
    BY <2>1, SameLife DEF Same
  <2> QED
    BY <2>2, LifeIsLifeOf
<1> QED
  BY <1>2, <1>3, EditsAreOfTheSet DEF Whole

\* The pods of a set live as PodLife says: under a name they follow each other
\* and never come back, each goes through its stages in order, a deletion once
\* announced stays announced and is seen before the pod goes, and one that is
\* announced keeps a pod from starting, whichever copies of it the events and
\* the frames of the call stack carry.
THEOREM PodsLiveAsPromised ==
  ASSUME Delays
  PROVE  Spec => ImplementsPodLife
<1>1. Init => Lives!Init
  <2>1. SUFFICES ASSUME Init
                 PROVE  Life = [n \in Ordinals |->
                                 [number |-> 0, stage |-> "absent",
                                  terminating |-> FALSE, seen |-> FALSE]]
    BY DEF Lives!Init
  <2>2. \A n \in Ordinals : LifeOf(n) = Entry(0, "absent", FALSE, FALSE)
    BY <2>1 DEF Init, LifeOf, Exists
  <2> QED
    BY <2>2, LifeIsLifeOf DEF Entry
<1>2. IInv /\ OInv /\ BInv /\ [Next]_vars => [Lives!Next]_Life
  BY StepLives DEF Whole
<1> QED
  BY <1>1, <1>2, NamesInvariance, PTL DEF Spec, ImplementsPodLife, Lives!Spec
===============================================================================
