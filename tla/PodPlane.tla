------------------------------- MODULE PodPlane -------------------------------
(***************************************************************************)
(* The life of a StatefulSet's pods: the StatefulSet controller, the       *)
(* scheduler, the kubelet's lifecycle and termination controllers and the  *)
(* pod IP service, connected by the synchronous event bus.                 *)
(*                                                                         *)
(* JavaScript runs one call stack at a time, and emit() calls subscribers  *)
(* synchronously.  The call stack is therefore a variable: a sequence of   *)
(* frames, innermost first, each saying what its caller does next.  A      *)
(* frame is an event delivery (which subscriber is next), the drain loop   *)
(* of a controller's work queue, or the rest of a function that emitted in *)
(* the middle.  Timers, resyncs and users act only on an empty stack, so   *)
(* the choices are theirs; but for the order in which a resync goes over   *)
(* the pods, what follows one of them is determined.                       *)
(*                                                                         *)
(* A pod name is the ordinal it ends in.  Names are reused: incarnation    *)
(* counts the pods created under a name, and is carried by the pod and, as *)
(* a history, by everything that is kept under its name.                   *)
(***************************************************************************)
EXTENDS Naturals, Sequences, FiniteSets

CONSTANTS
  MaxReplicas,   \* bound of the model: ordinals are 0..MaxReplicas-1
  MaxEdits,      \* bound of the model: user actions
  Templates,     \* template hashes
  Finite,        \* those whose containers' process ends by itself
  Long,          \* those whose process does not; the others have none
  Delays,        \* schedulingDelayRangeMs and pendingDelayRangeMs are given
  Resyncs,       \* resyncIntervalMs is given
  None

ASSUME SizeAssumption == MaxReplicas \in Nat \ {0} /\ MaxEdits \in Nat
ASSUME ProcessAssumption == Finite \cup Long \subseteq Templates /\ Finite \cap Long = {}
ASSUME ModeAssumption == Delays \in BOOLEAN /\ Resyncs \in BOOLEAN
ASSUME TemplatesAssumption == Templates # {}
ASSUME NoneAssumption == None \notin Nat \cup Templates

Ordinals == 0..MaxReplicas - 1
Controllers == {"StatefulSet", "Scheduler", "PodLifecycle", "PodTermination"}

VARIABLES
  pods,          \* the store: per name the pod, or None
  set,           \* the StatefulSet object: spec and status
  schedulable,   \* some node is eligible
  proc,          \* process runtime: per name None, or the record
  ipHolder,      \* pod IP allocator: per name the incarnation that got an IP
  bindTimer,     \* SchedulerController.pendingTimeouts
  startTimer,    \* the 'pending' timers of the PodLifecycleTimeoutRegistry
  checkTimer,    \* PodTerminationController.finalizeTimeouts
  queue,         \* per controller, its runnable keys
  stack,         \* the call stack, innermost frame first
  age,           \* per name, how long its pod has been terminating:
                 \* 0, 1 (minimum visibility over), 2 (grace period over)
  incarnation,   \* history: pods created so far under each name
  edits          \* user actions so far

components == <<proc, ipHolder, bindTimer, startTimer, checkTimer>>
vars == <<pods, set, schedulable, components, queue, stack, age, incarnation,
          edits>>

-------------------------------------------------------------------------------
(* Objects and events *)

\* Mutant: createPod without the phase the controller passes.
NewPodWithoutPhase(n, template) ==
  [incarnation |-> incarnation[n] + 1, template |-> template, bound |-> FALSE,
   phase |-> "Unknown", creating |-> FALSE, ready |-> FALSE, ip |-> FALSE,
   terminating |-> FALSE, forced |-> FALSE]

NewPod(n, template) ==
  [incarnation |-> incarnation[n] + 1, template |-> template, bound |-> FALSE,
   phase |-> "Pending", creating |-> FALSE, ready |-> FALSE, ip |-> FALSE,
   terminating |-> FALSE, forced |-> FALSE]

Exists(n) == pods[n] # None
ProcessRuns(n) == proc[n] # None /\ proc[n].running

\* hasProcessCommand
HasProcess(pod) == pod.template \in Finite \cup Long

NeedsScheduling(pod) == ~pod.bound
ShouldProgress(pod) == pod.phase = "Pending" /\ pod.bound

PodEvent(type, n, pod) == [type |-> type, name |-> n, pod |-> pod]
SetEvent(newSet) == [type |-> "StatefulSetUpdated", set |-> newSet]

\* Mutant: the StatefulSet controller does not watch PodDeleted.
SubscribersMissDeletion(type) ==
  CASE type = "StatefulSetUpdated" -> <<"StatefulSet">>
    [] type = "PodCreated" -> <<"StatefulSet", "Scheduler", "PodLifecycle">>
    [] type = "PodBound"   -> <<"PodLifecycle">>
    [] type = "PodDeleted" -> <<"Scheduler", "PodLifecycle", "PodTermination",
                                "PodIp">>
    [] OTHER -> <<"StatefulSet", "Scheduler", "PodLifecycle", "PodTermination",
                  "PodIp">>

\* Type subscribers in the order the environment starts the components.
Subscribers(type) ==
  CASE type = "StatefulSetUpdated" -> <<"StatefulSet">>
    [] type = "PodCreated" -> <<"StatefulSet", "Scheduler", "PodLifecycle">>
    [] type = "PodBound"   -> <<"PodLifecycle">>
    [] OTHER -> <<"StatefulSet", "Scheduler", "PodLifecycle", "PodTermination",
                  "PodIp">>

Delivery(event, i) == [op |-> "deliver", event |-> event, to |-> i]

\* ClusterState subscribes to everything, first: the event is applied before
\* any controller sees it.  An update of a pod that is gone changes nothing,
\* and is delivered all the same.
Emit(event, rest) ==
  /\ stack' = <<Delivery(event, 1)>> \o rest
  /\ CASE event.type = "StatefulSetUpdated" ->
            set' = event.set /\ UNCHANGED <<pods, incarnation>>
       [] event.type = "PodCreated" ->
            /\ pods' = [pods EXCEPT ![event.name] = event.pod]
            /\ incarnation' = [incarnation EXCEPT ![event.name] = @ + 1]
            /\ UNCHANGED set
       [] event.type = "PodUpdated" ->
            /\ pods' = [pods EXCEPT ![event.name] =
                          IF @ = None THEN None ELSE event.pod]
            /\ UNCHANGED <<set, incarnation>>
       [] event.type = "PodDeleted" ->
            /\ pods' = [pods EXCEPT ![event.name] = None]
            /\ UNCHANGED <<set, incarnation>>
       [] event.type = "PodBound" ->
            UNCHANGED <<pods, set, incarnation>>

Return(rest) == stack' = rest /\ UNCHANGED <<pods, set, incarnation>>

-------------------------------------------------------------------------------
(* Work queues in immediate mode (module WorkQueue, batches not full) *)

\* Mutant: one isProcessing flag for all queues.
AnyDraining(c, frames) == \E i \in DOMAIN frames : frames[i].op = "drain"

Draining(c, frames) ==
  \E i \in DOMAIN frames : frames[i].op = "drain" /\ frames[i].queue = c

Enqueue(c, key, rest) ==
  LET known == \E i \in DOMAIN queue[c] : queue[c][i] = key
      added == IF known THEN queue[c] ELSE Append(queue[c], key)
  IN  /\ queue' = [queue EXCEPT ![c] = added]
      /\ Return(IF Len(added) = 1 /\ ~Draining(c, rest)
                THEN <<[op |-> "drain", queue |-> c]>> \o rest
                ELSE rest)

-------------------------------------------------------------------------------
(* The API server's two-phase deletion *)

\* requestPodDeletion of a pod that exists and is not terminating yet
MarkTerminating(n, forced, rest) ==
  /\ age' = [age EXCEPT ![n] = 0]
  /\ Emit(PodEvent("PodUpdated", n,
            [pods[n] EXCEPT !.terminating = TRUE, !.forced = forced,
                            !.ready = FALSE]), rest)

RequestDeletion(n, forced, rest) ==
  IF Exists(n) /\ ~pods[n].terminating
  THEN MarkTerminating(n, forced, rest)
  ELSE Return(rest) /\ UNCHANGED age

-------------------------------------------------------------------------------
(* StatefulSetController *)

SetStatus(spec) ==
  [ready   |-> Cardinality({n \in Ordinals : Exists(n) /\ pods[n].ready}),
   current |-> Cardinality({n \in Ordinals : Exists(n)}),
   updated |-> Cardinality({n \in Ordinals : Exists(n)
                              /\ pods[n].template = spec.template}),
   replicas |-> spec.replicas]

\* What reconcile wants done about name n, from the pods it read at its start.
Wanted(n, spec, read) ==
  IF n < spec.replicas
  THEN IF read[n] = None THEN "create"
       ELSE IF read[n].template # spec.template /\ ~read[n].terminating
            THEN "delete" ELSE "keep"
  ELSE IF read[n] = None THEN "keep" ELSE "delete"

\* reconcile reads the set and the pods once and then acts on name after name.
ReconcileSet ==
  /\ stack' = <<[op |-> "set", read |-> pods, set |-> set, next |-> 0]>>
                \o stack
  /\ UNCHANGED <<pods, set, incarnation, age, components>>

\* One name of the loops; deletions and creations emit before the next name.
SetStep(frame, rest) ==
  LET n == frame.next
      after == <<[frame EXCEPT !.next = n + 1]>> \o rest
  IN  /\ n < MaxReplicas
      /\ CASE Wanted(n, frame.set.spec, frame.read) = "create" ->
                /\ Emit(PodEvent("PodCreated", n,
                                 NewPod(n, frame.set.spec.template)), after)
                /\ UNCHANGED age
           [] Wanted(n, frame.set.spec, frame.read) = "delete" ->
                RequestDeletion(n, FALSE, after)
           [] OTHER -> Return(after) /\ UNCHANGED age
      /\ UNCHANGED <<components, queue>>

\* The status is computed from the pods as they are now, and written into the
\* set as it was at the start.
SetWriteStatus(frame, rest) ==
  LET status == SetStatus(frame.set.spec)
  IN  /\ frame.next = MaxReplicas
      /\ IF status = frame.set.status
         THEN Return(rest)
         ELSE Emit(SetEvent([frame.set EXCEPT !.status = status]), rest)
      /\ UNCHANGED <<components, queue, age>>

-------------------------------------------------------------------------------
(* SchedulerController *)

\* updateResource, and after its event has been delivered the PodBound event
BindOnce(n, pod, rest) ==
  LET boundPod == [pod EXCEPT !.bound = TRUE]
  IN  IF schedulable
      THEN Emit(PodEvent("PodUpdated", n, boundPod),
                <<[op |-> "bound", name |-> n, pod |-> boundPod]>> \o rest)
      ELSE Return(rest)

ReconcileScheduling(n) ==
  /\ IF Exists(n) /\ NeedsScheduling(pods[n])
     THEN IF bindTimer[n] # None
          THEN Return(stack) /\ UNCHANGED bindTimer
          ELSE IF Delays
               THEN /\ bindTimer' = [bindTimer EXCEPT ![n] = pods[n].incarnation]
                    /\ Return(stack)
               ELSE BindOnce(n, pods[n], stack) /\ UNCHANGED bindTimer
     ELSE bindTimer' = [bindTimer EXCEPT ![n] = None] /\ Return(stack)
  /\ UNCHANGED <<proc, ipHolder, startTimer, checkTimer, age>>

BoundStep(frame, rest) ==
  /\ Emit(PodEvent("PodBound", frame.name, frame.pod), rest)
  /\ UNCHANGED <<components, queue, age>>

-------------------------------------------------------------------------------
(* PodLifecycleController, for containers that start (see ContainerStart for those *)
(* that do not) and volumes that are ready                                    *)

\* emitPodRunning; ensureMainProcess keeps a record it finds
EmitRunning(n, pod, rest) ==
  LET starts == HasProcess(pod) /\ proc[n] = None
      dead == HasProcess(pod) /\ proc[n] # None /\ ~ProcessRuns(n)
  IN  /\ proc' = IF starts
                 THEN [proc EXCEPT ![n] = [incarnation |-> pod.incarnation,
                                           running |-> TRUE]]
                 ELSE proc
      /\ Emit(PodEvent("PodUpdated", n,
                [pod EXCEPT !.phase = "Running", !.ready = ~dead]), rest)

\* The tail of ReadyToStart, once ContainerCreating has been reported
ArmStart(n, pod, rest) ==
  IF Delays
  THEN /\ startTimer' = [startTimer EXCEPT ![n] = pod.incarnation]
       /\ Return(rest)
       /\ UNCHANGED proc
  ELSE EmitRunning(n, pod, rest) /\ UNCHANGED startTimer

\* Mutant: the decision has no case for terminating pods.
StartsAnyPod(n) == Exists(n) /\ ShouldProgress(pods[n])

\* buildReconcileDecision
MayStart(n) == Exists(n) /\ ~pods[n].terminating /\ ShouldProgress(pods[n])

\* Reconcile starts a pod once, and cancels the start of one that may not start.
\* ContainerCreating is emitted only if it changes the container statuses.
ReconcileStart(n) ==
  /\ IF MayStart(n)
     THEN IF startTimer[n] # None
          THEN Return(stack) /\ UNCHANGED <<startTimer, proc>>
          ELSE IF pods[n].creating
               THEN ArmStart(n, pods[n], stack)
               ELSE /\ Emit(PodEvent("PodUpdated", n,
                              [pods[n] EXCEPT !.creating = TRUE]),
                            <<[op |-> "arm", name |-> n, pod |-> pods[n]]>>
                              \o stack)
                    /\ UNCHANGED <<startTimer, proc>>
     ELSE /\ startTimer' = [startTimer EXCEPT ![n] = None]
          /\ Return(stack)
          /\ UNCHANGED proc
  /\ UNCHANGED <<ipHolder, bindTimer, checkTimer, age>>

ArmStep(frame, rest) ==
  /\ ArmStart(frame.name, frame.pod, rest)
  /\ UNCHANGED <<ipHolder, bindTimer, checkTimer, queue, age>>

-------------------------------------------------------------------------------
(* PodTerminationController *)

\* Mutant: the deadline is the grace period's alone.
GraceDeadlinePassed(n) == age[n] >= IF pods[n].forced THEN 0 ELSE 2

\* The grace period of a forced deletion is 0, but every terminating pod stays
\* visible for minVisibleTerminatingMs.
DeadlinePassed(n) == age[n] >= IF pods[n].forced THEN 1 ELSE 2
MayFinalize(n) == DeadlinePassed(n) \/ (age[n] >= 1 /\ ~ProcessRuns(n))

\* Mutant: a running process is left to the grace period, without a timer.
NextCheckNoPolling(n) ==
  IF ProcessRuns(n) THEN None
  ELSE [incarnation |-> pods[n].incarnation, polls |-> FALSE]

NextCheck(n) ==
  [incarnation |-> pods[n].incarnation, polls |-> ProcessRuns(n)]

ReconcileTermination(n) ==
  /\ IF Exists(n) /\ pods[n].terminating
     THEN IF MayFinalize(n)
          THEN /\ checkTimer' = [checkTimer EXCEPT ![n] = None]
               /\ Emit(PodEvent("PodDeleted", n, pods[n]), stack)
          ELSE /\ checkTimer' = [checkTimer EXCEPT ![n] = NextCheck(n)]
               /\ Return(stack)
     ELSE checkTimer' = [checkTimer EXCEPT ![n] = None] /\ Return(stack)
  /\ UNCHANGED <<proc, ipHolder, bindTimer, startTimer, age>>

-------------------------------------------------------------------------------
(* Subscribers: what each does with an event, in handleEvent *)

NoTimers == UNCHANGED <<bindTimer, startTimer, checkTimer>>

HandleSet(event, rest) ==
  Enqueue("StatefulSet", "set", rest) /\ UNCHANGED components

\* Mutant: PodDeleted does not cancel the pod's bind timer.
HandleSchedulerKeepsTimer(event, rest) ==
  /\ IF event.type # "PodDeleted" /\ NeedsScheduling(event.pod)
     THEN Enqueue("Scheduler", event.name, rest)
     ELSE Return(rest) /\ UNCHANGED queue
  /\ UNCHANGED components

HandleScheduler(event, rest) ==
  /\ CASE event.type = "PodDeleted" ->
            /\ bindTimer' = [bindTimer EXCEPT ![event.name] = None]
            /\ Return(rest)
            /\ UNCHANGED queue
       [] event.type # "PodDeleted" /\ NeedsScheduling(event.pod) ->
            Enqueue("Scheduler", event.name, rest) /\ UNCHANGED bindTimer
       [] OTHER -> Return(rest) /\ UNCHANGED <<bindTimer, queue>>
  /\ UNCHANGED <<proc, ipHolder, startTimer, checkTimer>>

HandleLifecycle(event, rest) ==
  /\ CASE event.type = "PodDeleted" ->
            /\ startTimer' = [startTimer EXCEPT ![event.name] = None]
            /\ proc' = IF event.pod.bound
                       THEN [proc EXCEPT ![event.name] = None] ELSE proc
            /\ Return(rest)
            /\ UNCHANGED queue
       [] event.type # "PodDeleted" /\ ShouldProgress(event.pod) ->
            Enqueue("PodLifecycle", event.name, rest)
            /\ UNCHANGED <<startTimer, proc>>
       [] OTHER -> Return(rest) /\ UNCHANGED <<startTimer, proc, queue>>
  /\ UNCHANGED <<ipHolder, bindTimer, checkTimer>>

HandleTermination(event, rest) ==
  /\ CASE event.type = "PodDeleted" ->
            /\ checkTimer' = [checkTimer EXCEPT ![event.name] = None]
            /\ Return(rest)
            /\ UNCHANGED queue
       [] event.type # "PodDeleted" /\ event.pod.terminating ->
            Enqueue("PodTermination", event.name, rest) /\ UNCHANGED checkTimer
       [] OTHER -> Return(rest) /\ UNCHANGED <<checkTimer, queue>>
  /\ UNCHANGED <<proc, ipHolder, bindTimer, startTimer>>

\* The IP goes into the pod the event carries, whatever the store holds by now.
HandlePodIp(event, rest) ==
  /\ CASE event.type = "PodDeleted" ->
            /\ ipHolder' = [ipHolder EXCEPT ![event.name] = None]
            /\ Return(rest)
       [] event.type # "PodDeleted" /\ event.pod.phase = "Running" ->
            /\ ipHolder' = [ipHolder EXCEPT ![event.name] =
                              event.pod.incarnation]
            /\ IF event.pod.ip
               THEN Return(rest)
               ELSE Emit(PodEvent("PodUpdated", event.name,
                           [event.pod EXCEPT !.ip = TRUE]), rest)
       [] OTHER -> Return(rest) /\ UNCHANGED ipHolder
  /\ UNCHANGED <<proc, bindTimer, startTimer, checkTimer, queue>>

\* One subscriber of a delivery; the last one is called in tail position.
Deliver(frame, rest) ==
  LET to == Subscribers(frame.event.type)
      after == IF frame.to = Len(to)
               THEN rest
               ELSE <<Delivery(frame.event, frame.to + 1)>> \o rest
      subscriber == to[frame.to]
  IN  /\ CASE subscriber = "StatefulSet" -> HandleSet(frame.event, after)
           [] subscriber = "Scheduler" -> HandleScheduler(frame.event, after)
           [] subscriber = "PodLifecycle" -> HandleLifecycle(frame.event, after)
           [] subscriber = "PodTermination" -> HandleTermination(frame.event, after)
           [] subscriber = "PodIp" -> HandlePodIp(frame.event, after)
      /\ UNCHANGED age

\* One turn of a controller's drain loop.
Drain(frame, rest) ==
  LET c == frame.queue
      key == Head(queue[c])
  IN  IF queue[c] = << >>
      THEN Return(rest) /\ UNCHANGED <<components, queue, age>>
      ELSE /\ queue' = [queue EXCEPT ![c] = Tail(@)]
           /\ CASE c = "StatefulSet" -> ReconcileSet
                [] c = "Scheduler" -> ReconcileScheduling(key)
                [] c = "PodLifecycle" -> ReconcileStart(key)
                [] c = "PodTermination" -> ReconcileTermination(key)

\* resyncAll enqueues every pod of the list it read, which has the order in
\* which the store got them: here any order.
SyncStep(frame, rest) ==
  /\ \E n \in frame.keys :
       Enqueue(frame.queue, n,
               IF frame.keys = {n}
               THEN rest
               ELSE <<[frame EXCEPT !.keys = @ \ {n}]>> \o rest)
  /\ UNCHANGED <<components, age>>

\* The innermost frame runs on.
Run ==
  /\ stack # << >>
  /\ LET frame == Head(stack)
         rest == Tail(stack)
     IN  \/ frame.op = "deliver" /\ Deliver(frame, rest)
         \/ frame.op = "drain" /\ Drain(frame, rest)
         \/ frame.op = "set" /\ SetStep(frame, rest)
         \/ frame.op = "set" /\ SetWriteStatus(frame, rest)
         \/ frame.op = "bound" /\ BoundStep(frame, rest)
         \/ frame.op = "arm" /\ ArmStep(frame, rest)
         \/ frame.op = "sync" /\ SyncStep(frame, rest)
  /\ UNCHANGED <<schedulable, edits>>

-------------------------------------------------------------------------------
(* Event-loop callbacks *)

Idle == stack = << >>

BindTimerFires(n) ==
  /\ Idle
  /\ bindTimer[n] # None
  /\ bindTimer' = [bindTimer EXCEPT ![n] = None]
  /\ IF Exists(n) /\ NeedsScheduling(pods[n])
     THEN BindOnce(n, pods[n], << >>)
     ELSE Return(<< >>)
  /\ UNCHANGED <<schedulable, proc, ipHolder, startTimer, checkTimer, queue,
                 age, edits>>

StartTimerFires(n) ==
  /\ Idle
  /\ startTimer[n] # None
  /\ startTimer' = [startTimer EXCEPT ![n] = None]
  /\ IF Exists(n) /\ ShouldProgress(pods[n])
     THEN EmitRunning(n, pods[n], << >>)
     ELSE Return(<< >>) /\ UNCHANGED proc
  /\ UNCHANGED <<schedulable, ipHolder, bindTimer, checkTimer, queue, age, edits>>

\* The timer of a pod without running processes waits for the minimum
\* visibility; with processes it polls.
CheckTimerFires(n) ==
  /\ Idle
  /\ checkTimer[n] # None
  /\ checkTimer[n].polls \/ age[n] >= 1
  /\ checkTimer' = [checkTimer EXCEPT ![n] = None]
  /\ Enqueue("PodTermination", n, << >>)
  /\ UNCHANGED <<schedulable, proc, ipHolder, bindTimer, startTimer, age, edits>>

\* Mutant: resyncAll passes over the pods that have no node.
DueBoundPods(c) == {n \in Ordinals : Exists(n) /\ ShouldProgress(pods[n])}

\* The pods initialSync enqueues
Due(c) ==
  {n \in Ordinals : Exists(n) /\ IF c = "Scheduler" THEN NeedsScheduling(pods[n])
                                                    ELSE ShouldProgress(pods[n])}

\* resyncAll of the scheduler or the pod lifecycle controller; the StatefulSet
\* and termination controllers are started without an interval.
Resync(c) ==
  /\ Resyncs
  /\ Idle
  /\ Due(c) # {}
  /\ stack' = <<[op |-> "sync", queue |-> c, keys |-> Due(c)]>>
  /\ UNCHANGED <<pods, set, schedulable, components, queue, age, incarnation,
                 edits>>

TimePasses(n) ==
  /\ Idle
  /\ Exists(n) /\ pods[n].terminating
  /\ age[n] < 2
  /\ age' = [age EXCEPT ![n] = @ + 1]
  /\ UNCHANGED <<pods, set, schedulable, components, queue, stack, incarnation,
                 edits>>

\* maybeAutoCompleteFiniteSleep: a finite command is over.
ProcessExits(n) ==
  /\ Idle
  /\ Exists(n) /\ pods[n].template \in Finite
  /\ ProcessRuns(n)
  /\ proc' = [proc EXCEPT ![n].running = FALSE]
  /\ UNCHANGED <<pods, set, schedulable, ipHolder, bindTimer, startTimer,
                 checkTimer, queue, stack, age, incarnation, edits>>

-------------------------------------------------------------------------------
(* Users *)

Edit ==
  /\ Idle
  /\ edits < MaxEdits
  /\ edits' = edits + 1
  /\ UNCHANGED <<components, queue>>

EditSet(spec) ==
  /\ Edit
  /\ spec # set.spec
  /\ Emit(SetEvent([set EXCEPT !.spec = spec]), << >>)
  /\ UNCHANGED <<schedulable, age>>

Scale(replicas) == EditSet([set.spec EXCEPT !.replicas = replicas])
ChangeTemplate(template) == EditSet([set.spec EXCEPT !.template = template])

DeletePod(n, forced) ==
  /\ Edit
  /\ Exists(n) /\ ~pods[n].terminating
  /\ MarkTerminating(n, forced, << >>)
  /\ UNCHANGED schedulable

\* Cordon or uncordon the nodes; nobody subscribes to that.
SetSchedulable ==
  /\ Edit
  /\ schedulable' = ~schedulable
  /\ UNCHANGED <<pods, set, stack, age, incarnation>>

-------------------------------------------------------------------------------

FirstSet ==
  [spec |-> [replicas |-> MaxReplicas, template |-> CHOOSE t \in Templates : TRUE],
   status |-> [ready |-> 0, current |-> 0, updated |-> 0, replicas |-> 0]]

\* The set has just been created: its event is about to be delivered.
Init ==
  /\ pods = [n \in Ordinals |-> None]
  /\ set = FirstSet
  /\ schedulable = TRUE
  /\ proc = [n \in Ordinals |-> None]
  /\ ipHolder = [n \in Ordinals |-> None]
  /\ bindTimer = [n \in Ordinals |-> None]
  /\ startTimer = [n \in Ordinals |-> None]
  /\ checkTimer = [n \in Ordinals |-> None]
  /\ queue = [c \in Controllers |-> << >>]
  /\ stack = <<Delivery(SetEvent(FirstSet), 1)>>
  /\ age = [n \in Ordinals |-> 0]
  /\ incarnation = [n \in Ordinals |-> 0]
  /\ edits = 0

Next ==
  \/ Run
  \/ \E n \in Ordinals :
       \/ BindTimerFires(n)
       \/ StartTimerFires(n)
       \/ CheckTimerFires(n)
       \/ TimePasses(n)
       \/ ProcessExits(n)
       \/ \E forced \in BOOLEAN : DeletePod(n, forced)
  \/ \E c \in {"Scheduler", "PodLifecycle"} : Resync(c)
  \/ \E replicas \in 0..MaxReplicas : Scale(replicas)
  \/ \E template \in Templates : ChangeTemplate(template)
  \/ SetSchedulable

Spec == Init /\ [][Next]_vars

\* The event loop runs what is on the stack, time goes on, a timer that keeps
\* being due fires (some timer of each kind: one of each pod is not needed), and
\* the scheduler's interval comes round again and again.
Fairness ==
  /\ WF_vars(Run)
  /\ SF_vars(\E n \in Ordinals : BindTimerFires(n))
  /\ SF_vars(\E n \in Ordinals : StartTimerFires(n))
  /\ SF_vars(\E n \in Ordinals : CheckTimerFires(n))
  /\ SF_vars(\E n \in Ordinals : TimePasses(n))
  /\ SF_vars(Resync("Scheduler"))

FairSpec == Spec /\ Fairness

-------------------------------------------------------------------------------
(* Properties *)

Pods == [incarnation : Nat \ {0}, template : Templates, bound : BOOLEAN,
         phase : {"Pending", "Running"}, creating : BOOLEAN, ready : BOOLEAN,
         ip : BOOLEAN, terminating : BOOLEAN, forced : BOOLEAN]

\* None stands for undefined, which is no object.
ASSUME ObjectsAssumption ==
  None \notin Pods \cup [incarnation : Nat, running : BOOLEAN]
                    \cup [incarnation : Nat, polls : BOOLEAN]

Specs == [replicas : 0..MaxReplicas, template : Templates]
Statuses == [ready : Nat, current : Nat, updated : Nat, replicas : Nat]
Named(S) == [Ordinals -> S \cup {None}]
Sets == [spec : Specs, status : Statuses]
Events ==
  [type : {"PodCreated", "PodUpdated", "PodBound", "PodDeleted"},
   name : Ordinals, pod : Pods]
  \cup [type : {"StatefulSetUpdated"}, set : Sets]
Frames ==
  {frame \in [op : {"deliver"}, event : Events, to : 1..5] :
     frame.to <= Len(Subscribers(frame.event.type))}
  \cup [op : {"drain"}, queue : Controllers]
  \cup [op : {"set"}, read : Named(Pods), set : Sets, next : 0..MaxReplicas]
  \cup [op : {"bound", "arm"}, name : Ordinals, pod : Pods]
  \cup [op : {"sync"}, queue : {"Scheduler", "PodLifecycle"},
        keys : SUBSET Ordinals]
Keys(c) == IF c = "StatefulSet" THEN {"set"} ELSE Ordinals

\* Every variable keeps the shape its Map, object or array has in the code, and
\* every frame of the stack what its function has in scope.
TypeOK ==
  /\ pods \in Named(Pods)
  /\ set \in Sets
  /\ schedulable \in BOOLEAN
  /\ proc \in Named([incarnation : Nat, running : BOOLEAN])
  /\ ipHolder \in Named(Nat)
  /\ bindTimer \in Named(Nat)
  /\ startTimer \in Named(Nat)
  /\ checkTimer \in Named([incarnation : Nat, polls : BOOLEAN])
  /\ DOMAIN queue = Controllers
  /\ \A c \in Controllers : queue[c] \in Seq(Keys(c))
  /\ stack \in Seq(Frames)
  /\ age \in [Ordinals -> 0..2]
  /\ incarnation \in [Ordinals -> Nat]
  /\ edits \in 0..MaxEdits

\* When the call stack is empty no controller has work left in its queue: a
\* queue that is being drained further down the stack is drained to the end.
NothingQueuedWhenIdle == Idle => \A c \in Controllers : queue[c] = << >>

\* What is kept under a pod's name belongs to the pod that has the name now,
\* and a running pod has its process and its address: PodDeleted of the pod
\* before it has neither left anything behind nor taken anything from it.
OwnsItsResources ==
  Idle =>
    \A n \in Ordinals :
      LET holders == {bindTimer[n], startTimer[n], ipHolder[n],
                      IF checkTimer[n] = None THEN None
                      ELSE checkTimer[n].incarnation,
                      IF proc[n] = None THEN None ELSE proc[n].incarnation}
      IN  /\ \A h \in holders \ {None} : Exists(n) /\ h = pods[n].incarnation
          /\ Exists(n) /\ pods[n].phase = "Running" =>
               /\ pods[n].ip /\ ipHolder[n] # None
               /\ pods[n].template \in Long => ProcessRuns(n)

\* A terminating pod has a timer that will look at it again: nobody resyncs the
\* termination controller.  A pod about to start has one exactly while it is
\* wanted.
DecisionsAreArmed ==
  Idle =>
    \A n \in Ordinals :
      /\ checkTimer[n] # None <=> Exists(n) /\ pods[n].terminating
      /\ startTimer[n] # None <=>
           Delays /\ Exists(n) /\ ShouldProgress(pods[n]) /\ ~pods[n].terminating

\* Between callbacks the status of the set is that of its pods.
StatusFresh == Idle => set.status = SetStatus(set.spec)

\* The pods as PodLife shows them.
Stage(pod) ==
  CASE pod.phase = "Running" -> "running"
    [] pod.phase = "Pending" /\ pod.bound -> "bound"
    [] OTHER -> "pending"

Life ==
  [n \in Ordinals |->
    IF Exists(n)
    THEN [number |-> pods[n].incarnation, stage |-> Stage(pods[n]),
          terminating |-> pods[n].terminating,
          seen |-> pods[n].terminating /\ age[n] > 0]
    ELSE [number |-> incarnation[n], stage |-> "absent",
          terminating |-> FALSE, seen |-> FALSE]]

Lives == INSTANCE PodLife WITH Names <- Ordinals, life <- Life

\* Every pod is created, bound, started, terminated and removed in that order,
\* whatever the events that carry copies of it.
ImplementsPodLife == Lives!Spec

\* The set has what its spec asks for and its status says so.
Settled ==
  /\ Idle
  /\ \A n \in Ordinals :
       IF n < set.spec.replicas
       THEN /\ Exists(n)
            /\ pods[n].phase = "Running" /\ pods[n].ip
            /\ pods[n].template = set.spec.template
            /\ ~pods[n].terminating
       ELSE ~Exists(n)
  /\ StatusFresh

\* Once users stop and a node takes pods, the set gets what it asks for, for
\* good.
Settles == <>[]schedulable => <>[]Settled

\* A replacement is created "only after the previous Pod for this ordinal has
\* fully disappeared": nothing on its node or in the network is its any more.
ReplacementIsOrdered ==
  [][ \A n \in Ordinals :
        incarnation'[n] # incarnation[n] => proc[n] = None /\ ipHolder[n] = None
    ]_vars

===============================================================================
