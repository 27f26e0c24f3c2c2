# kube-mastery: verification of the simulated cluster

kube-mastery teaches Kubernetes with a cluster that runs in one JavaScript
process: an API server with an etcd-like store, an event bus, the control-plane
controllers, a kubelet, volumes, the network and a container runtime, all
simulated in `src/src/core`. This directory holds TLA+ modules that model that
core, TLC configurations that check them on small instances, and TLAPS proofs.
Paths below are relative to the repository unless they start with a module name.

## 1. Inventory

Everything runs on one thread. Three mechanisms connect the parts:

* **Event bus** (`src/core/cluster/events/EventBus.ts`). `emit` calls every
  subscriber synchronously, in subscription order, and is re-entrant: a
  subscriber that emits has its event delivered completely before the outer
  delivery continues. Subscribers further down the list therefore see the outer
  event *after* the consequences of the inner one.
* **Work queue** (`control-plane/controller-runtime/WorkQueue.ts`). Each
  controller turns events into keys of its own queue; with `processDelay: 0`
  (what every controller uses) `add` runs the handler at once unless the queue is
  already busy, so a reconciliation usually happens inside the delivery of the
  event that caused it.
* **Timers** (`setTimeout`). Simulated latencies (scheduling, image pull,
  start-up, termination), delayed keys and periodic resyncs. A timer runs on an
  empty call stack and may find that the world has changed since it was armed.

| Component | State | Operations | Hard behaviour | What makes it correct |
|---|---|---|---|---|
| Work queue | runnable keys, delayed timers, retry counts, pending callback | add, addWithOptions, retry, start, stop | handlers call back into the queue; several ways to leave keys behind | no lost wake-up, one callback, no key forgotten, delays never extended |
| Etcd store and API facade (`etcd/`, `api/ApiServerFacade.ts`) | resources, revision, event log | create, update, delete, patch, requestPodDeletion, finalizePodDeletion | writes emit events whose handlers write again | revision order, two-phase pod deletion |
| Cluster state (`cluster/ClusterState.ts`, `repositories/`, `events/handlers.ts`) | resource maps | apply events | later events overwrite with payloads captured earlier | one object per name, no resurrection |
| Event bus | subscribers, history | emit, subscribe | re-entrant delivery | all subscribers see each event once |
| Scheduler | pending timers per pod | handle pod events, bind, resync | timer against deletion and re-creation under the same name | a pod is bound once; none waits for ever |
| Pod lifecycle (kubelet) | timers per pod and purpose, retry maps | start, image pull and crash-loop back-off, probes, completion | chains of timers; emission re-enters the reconciliation | one chain per pod, no action for a dead pod |
| Pod termination (kubelet) | finalisation timers | reconcile, finalise | process exit, minimum visibility and grace deadline race | a terminating pod disappears once its deadline has passed, never before the grace period unless its processes are gone |
| StatefulSet, ReplicaSet, DaemonSet, Deployment controllers | queue, status written into the resource | reconcile on events of owned objects | nested reconciliation of a partly updated world, stale snapshots written back | converge to the desired pods, surge and availability limits |
| Pod IP allocator | addresses per pod | allocate, release | reuse under the same name | the holder of an address is the pod there is |
| Service IP and node-port allocators | owners of addresses and ports, both ways | assign, reserve, release | ranges that run out, reservations that throw half-way, retries | an address and a port have one owner, the two maps agree |
| Network controller (`network/`) | per service a runtime (address, ports, endpoints), queue | reconcile services, hear of pods and endpoints | a failed reconcile leaves its first half, recomputation from partial events | requests reach one service and its pods |
| Volumes (`volumes/`) | claims, volumes, bindings, pod readiness, three queues | provision, bind, release, reclaim | two objects per binding, written one after the other and delivered in between | a volume has one claim, both sides agree, no claim is left beside a volume that fits |
| kubectl rollout | revisions (ControllerRevision, annotations) | restart, undo, status, history | some commands record a revision and others do not | undo goes back to a recorded template |
| Container runtime (`runtime/`) | containers and processes | start, stop, signal | late exits | no container of a deleted pod |
| Event recorder and lifecycle event stores | Kubernetes Event objects | record, aggregate | re-entrancy | counts |
| Environment (`emulatedEnvironment/`) | the instances above | create, destroy, load | timers of a destroyed environment | everything is stopped |

Not part of the simulated cluster, and not modelled: the web application (pages,
courses, blog, i18n, database, authentication), the terminal, shell and file
system, the kubectl command line, the OpenAPI and parity tooling, drills, seeds.

## 2. Modules

| Module | Component | Composed with | Abstraction it implements | Proofs |
|---|---|---|---|---|
| `WorkQueue` | the work queue, all of it | foreign handlers | `DedupQueue` | `WorkQueue_proofs` |
| `PodPlane` | StatefulSet controller, scheduler, kubelet (start, termination), pod IP, process runtime, pod store | one another, on one call stack | `PodLife` | `PodPlane_proofs` |
| `ContainerStart` | the start-up chains of the pod lifecycle controller, with its timers | users, volumes, resync | | `ContainerStart_proofs` |
| `Rollout` | Deployment and ReplicaSet controllers | one another, on one call stack; pods | | `Rollout_proofs`, `RolloutSurge_proofs` |
| `DaemonSet` | DaemonSet controller, kubectl rollout | nodes, kubelets | | `DaemonSet_proofs` |
| `Volumes` | provisioning, binding and pod volume controllers | one another, on one call stack | | `Volumes_proofs` (with `VolumesInvariants`) |
| `Network` | network controller, service IP and node-port allocators | users, pods | | `Network_proofs` |

`MCRollout`, `MCVolumes` and `MCNetwork` give TLC strategies, specifications of volumes
and of services. The order above is that in which the system rests
on the parts: everything runs inside a work queue; pods are what the controllers
are about; volumes and network hang on pods.

Every module that has a call stack (`PodPlane`, `Rollout`, `Volumes`) has the
same form: `stack` is a sequence of frames, innermost first; `Run` makes the one
step the innermost frame makes next; timers, users and kubelets act on an empty
stack only (`Idle`). A property that is meant to hold between calls says so with
`Idle =>`. `DaemonSet` and `Network` need no stack, because the events their
reconciles cause come back only as a key in their own queue.

Worth doing next: the probing of the pod IP allocator; the order of etcd
revisions.

## 3. Work queue

`WorkQueue.tla` models `createWorkQueue`. Variables are the closure's: `queue`
(the `Set`, in insertion order), `delayed` (due time of the delayed timer as the
ticks that remain), `attempts`, `running`, `timeoutSet` (`timeoutId`/`rafId` not
null), `processing` (`processingImmediate`); `callbacks` counts the `processNext`
callbacks the event loop holds, `batchKey`, `batchCount` and `tickKey` are the
control state of the loop and of `processNext`. A handler is foreign code that
may call the API, so its entry and its return are two steps (`BatchTake` and
`BatchHandlerReturns`, `ProcessNext` and `TickHandlerReturns`) with API calls
between them. `processNext` does not set `processingImmediate`; the immediate
loop may run nested inside its handler, and the model has that nesting.

`ScheduleProcess`, `MakeRunnable` (`enqueueKey` without delay and the body of a
delayed timer), `Delay` (with delay), `RetryKey` and `HandlerResult` (the tail of
`processOne`) are the code's functions as operators. Handlers that throw and
handlers that return `retry` are the same step.

| Run | Question | Instance |
|---|---|---|
| `WorkQueueImmediate` | invariants, unextended delays, refinement of `DedupQueue` and liveness in the production mode | 2 keys, batches of 2, delays 1-2 ticks, 2 failures counted; 15,288 states |

The delayed mode (`ProcessImmediately = FALSE`), which no controller uses, is in
the module and covered by the proofs; no run is kept for it.

Bounds. `MaxBatch` (1000 in the code) is 2 so that full batches, and batches
that end with keys left over, occur with two keys. `AttemptBound` bounds the failures counted per key; a failure
beyond it is not explored. Delays are ticks, their sizes matter only relative to
one another.

Fairness. Synchronous code runs on (weak fairness of the loop and of handler
returns). The event loop is given strong fairness for each kind of callback,
because a callback that is due is enabled only while the stack is empty: the
loop runs due timers in order, so none is passed over for ever. A tick handler
returns strongly fairly for the same reason: the nested batch may run above it.

Proved in `WorkQueue_proofs` for every value of the constants, from the named
assumptions of `WorkQueue` (keys, mode, batch size at least 1, positive delays,
positive back-off): `TypeOK`, `NoLostWakeup`, `HandledOnce` (a key is runnable or
delayed but not both, and one `processNext` callback is pending at most),
`NeverPostponed`, and the refinement of `DedupQueue`. The inductive invariant `IInv` adds `StackShape` (a handler or a
batch count exists only where the control state allows it) to the conjunction of
the checked invariants; `NoLostWakeup` needs it because a batch that ends
leaves its rest to a callback only if `timeoutSet` tells the truth about
`callbacks`. Liveness is only model-checked.

A handler that adds its own key is called again by the same loop, so "once per
batch", as the header of `WorkQueue.ts` puts it, is true of waiting keys only.
`Rollout` and `Volumes` show what that leads to.

## 4. The pods of a StatefulSet

`PodPlane.tla` models five components that share the pod store and are wired
together by the event bus. Its main variable is `stack`, the JavaScript call
stack: a sequence of frames, innermost first.

| Frame | Code |
|---|---|
| `deliver` | the loop over subscribers in `EventBus.emit`; `to` is the next one |
| `drain` | the immediate loop of one controller's work queue |
| `set` | the two loops of `StatefulSetController.reconcile` over the ordinals, with the set and the pods it read at its start |
| `bound` | the rest of `bindPod`: emit `PodBound` after the update was delivered |
| `arm` | the rest of `ReadyToStart`: arm the start timer after `ContainerCreating` was delivered |
| `sync` | the loop of `resyncAll` |

`Run` executes one step of the innermost frame; what it does is determined.
Choices exist only on an empty stack (`Idle`), but for the order in which a
resync goes over the pods: a timer fires (`BindTimerFires`,
`StartTimerFires`, `CheckTimerFires`), an interval comes round (`Resync`), time
passes for a terminating pod, a process exits, a user acts. `Subscribers` is the
order in which the environment starts the components; it matters, because each
`emit` inside a subscriber is delivered to the end before the next subscriber
hears of the outer event. `Emit` applies the event first, as `ClusterState`, the
first subscriber, does. Every variable that is kept per pod name in a `Map` of
the code (`bindTimer`, `startTimer`, `checkTimer`, `proc`, `ipHolder`) also
carries the incarnation it was made for: history that the code does not have and
no guard reads, so that a property can say that the next pod of a name met
something of the previous one.

`PodLife.tla` is what this amounts to for a watcher of the pods: under each name
pods follow one another, are created, bound, started, terminated, seen as
terminating, removed, in that order. `PodPlane` implements it under the mapping
`Life`, with `seen` for "has been terminating for at least the minimum
visibility".

| Run | Question | Instance |
|---|---|---|
| `PodPlane` | the safety properties, the refinement and settling with the delays and resyncs of the emulated environment | 2 replicas, 2 templates of which one's process ends by itself, 2 user actions, `FairSpec`; 479,123 states |
| `PodPlaneReplacement` | "ordered" replacement: violated | 1 replica, 1 user action |

Bounds. Two replicas are enough for the loops of `reconcile` to emit for one
name before they reach the other, for the outer loop to read a pod that has
since been deleted, and for a scale-down to delete one of two. Two user actions
give a template change during a deletion, a forced deletion during a roll-out
and so on; each is followed by every interleaving of timers. `Finite` and `Long`
say which templates have a command that ends by itself or goes on. `age` counts the
two moments the code distinguishes in a pod's termination (minimum visibility
over, grace period over). The runs need `CHECK_DEADLOCK FALSE`: a settled set
with the user actions used up really stops.

Fairness. The event loop runs what is on the stack (`WF(Run)`). Timers fire: a
timer is enabled only on an empty stack and other callbacks come between, hence
strong fairness, for some timer of each kind and not for each pod. Time passes.
The scheduler's resync interval comes round. It is needed, because neither an
uncordoned node nor a replacement whose bind timer was cancelled (below) is
noticed otherwise. Nothing is assumed of `ProcessExits`, of the kubelet's resync
or of users.

Assumed. One flag says whether some node is eligible; the choice of the node is
left out. Volumes are ready and containers start (module `ContainerStart` has
the rest). Pods are named by their ordinals.

Proved in `PodPlane_proofs`, for any number of replicas and user actions and any
templates, in three layers.

* With and without delays, resyncs and processes: `TypeOK`, which includes the
  shape of every frame, and `NothingQueuedWhenIdle`. The latter is not inductive.
  `IInv` adds `Drained`: a queue with keys has its drain loop somewhere on the
  stack. It is kept because `Enqueue` starts a loop unless one is there, and a
  loop leaves the stack only when its queue is empty; each function keeps the
  frames below it (`Keeps`), whatever it puts on top.
* In the same generality: `StatusFresh`. A reconcile of the set writes a status
  that it computed at its end into the set that it read at its start, so the proof
  has to show that nobody writes the set in between. `OInv` == `Orderly` (one
  drain loop per queue, one reconcile of the set at a time, and that one above
  the drain loop of its queue), `SetKept` (the set that the reconcile has read is
  still the set) and `StatusOwed` (a status that is not that of the pods will be
  computed again: the set is queued, or an event it listens to has not reached
  its controller, or its reconcile is under way). Most steps are calm
  (`CalmStep`): they keep the frames below, and what they write they also tell.
* With delays (`Delays = TRUE`, as in the emulated environment; the finding below
  says why not without): `DecisionsAreArmed`, `OwnsItsResources` and the
  refinement `ImplementsPodLife`. None of them holds inside a call, where an
  event may show a pod as it was several writes ago. `BInv` says what holds
  there. `NameInv`: what is kept under a name belongs to the pod that has it, or
  to its predecessor, and then the deletion of that one has not reached the
  component that keeps it; what a pod does not have yet is on its way. `FramesHold`:
  what the caller in each frame goes on to do is still right, for instance the
  names a reconcile has not come to yet are as it read them, and the pod whose
  start is about to be armed is still wanted. `SetOwes`: a pod that the set does
  not want will be judged. The induction goes over `Lawful` steps: a step changes
  one name at most (`Small`), in one of eight ways (`Changes`: born, bound,
  reported, started, addressed, marked, aged, removed), and what it does to the
  timers, records and addresses of a name goes with that (`Effects`). Each of the
  eight is an action of `PodLife` or a stutter.

`ObjectsAssumption` (undefined is no object) is used by the third layer.
`Settles` is model-checked only. `ReplacementIsOrdered` is violated.

Finding. The StatefulSet controller subscribes to `PodDeleted` before the
scheduler, the kubelet and the IP service, so it creates the replacement before
those have dropped the deleted pod's timer, process record and address, although
a comment calls this ordered (`PodPlaneReplacement`). Consequences:

* With delays the scheduler arms the replacement's bind timer and then, as the
  outer delivery reaches it, cancels it: the pod stays Pending until the next
  resync. Without resyncs `Settles` does not hold. `OwnsItsResources` holds.
* Without delays (`Delays = FALSE`, which some tests of the repository use and no
  run here does) the replacement has been bound, started and given an address by
  then, and loses its process record and its address, so that `OwnsItsResources`
  does not hold.

## 5. How a container starts

`ContainerStart.tla` models `PodLifecycleController` for one pod with one
container, from its creation already bound. `Reconcile` is the work queue's
handler: one disjunct per decision of `buildReconcileDecision`. `registry` is
the `PodLifecycleTimeoutRegistry` together with the event loop's timers: `armed`
has each timer that will fire and what it does, `slot` the id that the registry
holds under each of the four purposes. They are apart because a chain of timers
shares a slot, `deleteTimeout` forgets an entry without cancelling its timer, and
arming overwrites an entry without cancelling the one before. `after` is what a
callback does once the update it emitted has been delivered, which includes a
reconciliation: it arms the next timer of its chain.

An image stands for a kind (starts and runs, completes, crashes, cannot be
pulled) and a version; the kind is what the image registry, the command and the
container plan say. The crash loop has the phase in which `Error` is shown; the
branch without it (`errorPhaseMs <= 0`, PodLifecycleController.ts:822-826) needs an
option nobody sets, and is left out.

| Run | Question | Instance |
|---|---|---|
| `ContainerStart` | slots and timers, crash counting, finality of deletions and ends, settling | 4 kinds, Always and Never, with and without delays, 7 timers; 4 user actions, `FairSpec`; 45,142 states |
| `ContainerStartPull` | "starts with ContainerCreating then transitions to ErrImagePull": violated | 1 image, 1 user action |
| `ContainerStartUpdate` | the updated image is the pod's image: violated | 2 versions, 2 user actions |

Bounds. There are four slots, and as long as images can be pulled the code arms
no more timers than that: `RegistryAgrees` says that a taken slot belongs to a
timer that fires, and that every timer but those of image pulls holds its slot.
With missing images the timers multiply (below), seven are kept, and `HeldBack`
keeps the callback of a pull from firing when more than two timers are armed: one
more for it and one for each of the four slots are what it and the reconciliation
inside it may need. That is also why the theorems ask for `MaxTimers >= 5`.
`Delays` is chosen in the initial state, so that one run has both modes. Restarts are counted modulo 3, since
only equality and the next value matter. Four user actions are a creation and
three of: image change, deletion, volumes come or go.

Fairness. A reconciliation and a continuation run on. Each timer that stays
armed fires: strong fairness per id, because callbacks need an empty stack. The
resync interval comes round; nobody else tells the kubelet that a volume is
ready. The termination controller removes a terminating pod.

Proved in `ContainerStart_proofs`, for any images, versions, policies, number of
timers from five and of user actions: `TypeOK`, `RegistryAgrees`,
`RestartsWhenDue` and `EndingsAreFinal`. `RegistryAgrees` is about the moments
between calls and is not inductive. `IInv` says where the timers are in the middle
of a call too (`Sound`): every timer but those of pulls is in its slot (`InSlots`),
and a taken slot has its timer (`SlotsFire`), but for the slot of the restart
while the back-off is being shown, whose timer has fired and whose successor is
not armed yet. That slot is what keeps the crash of the same pod from arming
another restart (`Backoff`). `Ending` adds that a pending pod that is being
deleted has lost all timers but those of pulls, from which `EndingsAreFinal`
follows. `Room` and `Pulling` count the pull timers outside their slot, because
there must be a free id wherever the model arms a timer. `Settles` is
model-checked only.

Findings. (1) The callback that reports `ErrImagePull` has dropped its slot
before it emits. The reconciliation inside finds no pull under way and no
attempt, reports `ContainerCreating` again and arms another pull, over which the
first callback then arms its transition. The reported reason goes back at once
and the number of pull timers doubles with every callback, until the retries set
the attempt count (`ContainerStartPull`). (2) The completion timer survives an
image update, and its callback writes the pod it captured, of before the update,
when the pod is Pending again: the old image and restart count come back as
Succeeded (`ContainerStartUpdate`).

Not modelled here: init containers, container runtime records, logs, processes
that end later than they were expected to, the probe's reasons.

## 6. Deployments and ReplicaSets

`Rollout.tla` models the two controllers with one Deployment. Variables: `deploy`,
`replicaSets` and `pods` are the store (a ReplicaSet is named by its template
hash, an active pod is whether it is ready); `queued` and `rsQueue` are the two
work queues, `timer` the pending `processNext` callback of the first.

A reconcile of the Deployment reads everything at its start, and all it does
after that follows from what it read. `Plan` is therefore computed once, as a
sequence of writes, and carried by a frame; `PlanStep` makes the next write,
whose delivery to both controllers runs to its end before the one after.
`RollingPlan`, `RecreatePlan`, `RevisionPlan` and `StatusOf` are
`reconcileRollingUpdateStrategy`, `reconcileRecreateStrategy`,
`syncDeploymentRevisionAnnotation` and the status computation. `ScaleStep` is the
loop of the ReplicaSet controller that creates or deletes one pod per event and
then writes the status into the ReplicaSet as it was read. While a rollout is
under way, every reconcile adds its own key (`Again`), so the batch of the
Deployment's queue fills up: `MaxBatch`, 1000 in the code, is 3.

| Run | Question | Instance |
|---|---|---|
| `Rollout` | nothing forgotten, statuses, orphans, surge, availability, fresh writes, convergence | 2 templates, 2 replicas, strategies default (25 %/25 %), in place (surge 0, unavailable 1), `Stuck` (surge 0, unavailable 25 %) and Recreate, 3 user actions, 1 failing pod, `FairSpec`; 81,507 states |
| `RolloutScaleDown` | scaling down a rolling Deployment: violated | users may lower the replicas, 1 user action |

Bounds. With two replicas the percentages round to 1 and 0, and a rollout takes
several rounds; of `Stuck` both limits come out zero, and the code makes the surge
one (DeploymentController.ts:194-196). Three user actions are, for instance, a template change, its
rollback while it is under way, and a deletion. Larger instances were run by
hand: 3 templates, 3 replicas, 3 actions, 1 fault, 645,614 states, no error.

Fairness. The loop and the callback run (`WF(Run)`, `SF(TimerFires)`), and of each
template's pods that are not ready some pod becomes ready (`SF`): a kubelet goes
on. Resyncs are not assumed.

What the properties say, and why not more.

* `SurgeKept` is about the moments between calls: inside a call the store goes
  through intermediate counts.
* `AvailabilityKept` is about a decision: a reconcile of a rolling Deployment that
  lowers old ReplicaSets, none of which reports unavailable pods, leaves at least
  `replicas - maxUnavailable` ready pods even if all it takes are ready. It adds up
  statuses that reconciles still under way have written from what was, so this is
  not plain from the arithmetic. Two stronger statements do not hold. With an old
  ReplicaSet that reports unavailable pods the limit is not kept: each nested
  reconcile lowers the old ReplicaSets by one more on the ground of the unavailable
  pod, and the ReplicaSet controller deletes the oldest pods first, which are the
  ready ones. And the statement cannot be about the moment a pod is deleted: with
  three templates, two template changes and a scale-up, a ReplicaSet that was
  scaled to none writes the status of before (two replicas, one available), the
  reconcile nested in that write takes the last ready pods of a third one, and when
  these are deleted no status tells of unavailable pods any more. The course says
  that `maxUnavailable` "guarantees a minimum number of old Pods"
  (`courses/modules/deployments/08-rollback-and-revision-history/en/content.md:22`).
  The property is about decisions that are not made inside another plan. Without
  this restriction TLC finds it violated with 4 templates, 2 replicas, 4 actions,
  1 fault, `maxSurge` 6, `maxUnavailable` 0 and `MaxBatch` 1: processNext's plan
  writes the newer of two old ReplicaSets; the loop nested in that write lowers the
  older one from two to none and its pods are deleted; then the outer plan writes the
  older one as it had read it, with two available replicas which are gone, and the
  reconcile nested in this write counts them. The restricted property was checked by
  hand on that instance and with `maxSurge` 2 and 4 (up to 4,188,173 states), and
  with 3 templates, 3 replicas, 3 actions, 1 fault, `MaxBatch` 1 and the surges 3, 4,
  6 and 8 with 0, 1 and 2 unavailable pods (9,015,206 states), no error.
* On a rollback `syncDeploymentRevisionAnnotation` (DeploymentController.ts:668)
  writes the current ReplicaSet as it was read at the start of the reconcile, and
  takes back the scale-up the same reconcile has just written. The rollout still
  completes.
* `Recreate` creates the new ReplicaSet with the number a rolling update would
  (`createNewReplicaSet`), so old and new pods overlap for a moment.

Proved in `Rollout_proofs` for every value of the constants: `NothingIsForgotten`
(`NothingForgotten`), from the invariant `IInv` == `IsStack` (frames have known
forms) and `Attended` (a queue with keys has its loop on the stack or a callback,
and a plan in progress ends in one of these); and `RollingHasRoom`: a rolling
update with limits that are not both zero has always room to create or to delete,
for any percentages, counts and replicas.

Proved there, likewise: `TypesHold` (`TypeOK`),
`NothingIsOrphaned` (`NoOrphans`), `StatusesAreFresh` (`StatusFresh`) and
`StatusWritesKeepSpecs` (`StatusWritesAreFresh`). Inside a call there are orphans
and stale statuses; `OInv` says who owes what is missing. While the Deployment
exists (`Living`), a ReplicaSet whose status or pods are not yet right is in the
queue, or its event is being delivered, or its reconcile is under way, and all
but the innermost frames are calm: they neither delete nor create nor scale. This
is why a status that was read earlier may be written later: no deeper call has
changed the replicas meanwhile. While the Deployment is being deleted (`Dying`)
the stack is the cascade and nothing else. The plans need lemmas about sums over
finite sets and about maxima of finite sets of numbers, which are there too.

Proved in `RolloutSurge_proofs`: `SurgeIsKept` (`SurgeKept`), for any templates,
strategies, replicas, batch size and numbers of edits and pod failures, under
`~ScaleDown`, the users of the run: with a scale-down the surplus of the current
ReplicaSet is never taken back (the finding below), and the bound does not hold.
Between calls the ReplicaSets have exactly the pods they ask for, so the theorem is
about what they ask for together (`Asked`). Inside a call this may exceed
`replicas + maxSurge`: the writes of a plan are delivered before its next write, a
nested reconcile acts on them, and then the outer plan goes on with what it read
before. The invariant `RoomInv` has three parts.

* What processNext and the immediate loop have on the stack: at most two plans are
  under way, the second inside a write of the first (`Flat`, `Deep`); all other
  frames are deliveries and the ReplicaSet controller's, which write no
  specification.
* Each plan *settles*: except for its first step, which was computed from what is
  there, it asks for no more of the current ReplicaSet, and if it may leave an old
  ReplicaSet with pods it adds the Deployment's key again. So if more is asked for
  than there is room for, either such a key is still to come, or the loop has a turn
  left, or the next step of the inner plan frees enough (`Heals`).
* A reconcile can always free enough: the ready pods of the old ReplicaSets, as far
  as they are asked for, and the replicas of the current one fit (`KeptTotal <=
  Book.room`), and `maxScaleDown` may take all the others at once.

`Placed` (ReplicaSets were created one after the other) makes "the newest first"
an order. The lemmas compute what `scaleDownReplicaSetsToTotal` leaves in total.

Proved there, too: `AvailabilityIsKept` (`AvailabilityKept`), for any templates,
strategies, replicas, batch size and numbers of edits and pod failures, scale-downs
included. Two invariants carry it.

* `AvailInv` says how a status may differ from the pods. Wherever the Deployment
  is reconciled outside a plan the statuses are `Sound`. Either every ReplicaSet
  `Fits`: the current one has at most the pods it asks for and does not report more
  ready ones than it has, and an old one has at least the pods it asks for, all
  ready if it reports none that is not. Or there is a `Window`: one old ReplicaSet
  has got a pod its status does not count yet, its key is the next one in the queue,
  and no status counts too many ready pods. To get there the invariant follows a
  call that begins with a pod or a resync: the pod's ReplicaSet has not been
  reconciled (`Touched`); an old one replaces the pod (`Replacing`); the current one
  gets pods or an old one loses some (`Adjusting`); the status has been written and
  both controllers take turns (`Conversing`), where what is left of a plan takes no
  status back (`Honors`). In all other calls whoever may owe a status was called by
  a plan (`Based`); outside that plan nothing is owed by `OInv`, so every ReplicaSet
  fits.
* `PlacedInv` says that ReplicaSets were created one after the other (`Placed`), and
  that every plan on the stack writes them back at their places, however many plans
  there are; so `maxScaleDown` lowers exactly as many as it computes, and the theorem
  does not need `~ScaleDown`.

`maxScaleDown` bounds what a plan takes twice: by the reported ready pods of all
ReplicaSets, which suffices in a `Window`; and, when no old ReplicaSet reports
unavailable pods, by what the old ones ask for and the current one must have ready,
which suffices if all fit (`SoundPlanIsSafe`).

Model-checked only: `RolloutCompletes`, which is liveness. `SurgeKept` was also run
by hand with `MaxBatch` 1 and 2 and with 3 replicas, and `AvailabilityKept` together
with scale-downs with 3 templates and 3 replicas (1,088,116 states) and with 4
templates, surge 6 and 2 faults (10,205,447 states).

Finding. Nothing lowers the current ReplicaSet of a rolling Deployment
(DeploymentController.ts:786), while the course says scaling down "terminates
three Pods" (`RolloutScaleDown`). Users therefore only raise replicas in
`Rollout` (`ScaleDown = FALSE`).

## 7. DaemonSets

`DaemonSet.tla` models the controller, `kubectl set image`, `rollout restart`,
`undo` and `history` of one DaemonSet, the nodes and the kubelets' part in the
life of its pods. `Reconcile` is one step, because the events of its own writes
only add its key again; users, kubelets and resyncs act when the queue is empty
(`Rest`). `pods` has per node its pods in store order, which decides whom the
controller keeps; `history` has the ControllerRevisions, which belong to a name
and outlive the set. `seen` is a history variable: the nodes of the last
reconcile.

| Run | Question | Instance |
|---|---|---|
| `DaemonSet` | truth of `rollout status`, undo, settling | 2 nodes, 2 images, 4 user actions, 1 failing container, `FairSpec`; 69,126 states |

Bounds. Two nodes, so that one is replaced while the other is gone or new. Four
actions are enough for deletion and re-creation with a node change in between; 5
were run by hand (430,048 states).

Fairness. The queue is drained (`WF(Reconcile)`), the resync interval comes round
(`SF(Resync)`; node events are not watched, so it is needed), and per node the
first pod becomes ready and a terminating first pod is finalised (`SF`).

Proved in `DaemonSet_proofs`: `TypesHold`; `NodesAreCovered` (at rest every node
the controller knows of has one pod that stays, of the current template, and
other nodes have none); `StatusIsTruthful`: when `rollout status` says complete
and no node came or went since the last reconcile, every node runs one ready pod
of the current template and no other pod of the set is ready. The inductive
invariant is `IInv` == `TypeInv`, `PodsInv` (who is terminating, and that a set
that is gone drives nothing), `Covered`, `Counted` (the status counts the pods
there are). `Counted` is needed because the status is computed from pods read
before the reconcile changed them: it is right only because the reconcile's own
events have brought the key back until nothing was left to do. `UndoReallyGoesBack`
(`UndoGoesBack`): `rollout undo` without a revision either reports that there is
none or gives the set a recorded template other than its own.

What the model shows beside the properties.

* The whole set is replaced at once: outdated pods are all deleted and replacements
  created beside them, and as long as the old pods terminate each reconcile finds
  two pods on a node and deletes the newer, so replacements are created and killed
  repeatedly. The course says the controller "deletes one Pod and waits"
  (`courses/modules/daemonsets/04-updating-daemonsets/en/content.md:56`).
* `kubectl set image` records no revision, so `rollout undo` right after it
  reports that there is none. Revisions are owned by name: a new set of an old
  name inherits them, and a StatefulSet of the same name shares them.
* `rollout status` never completes with no nodes, which is why `Settles` excepts
  that.
* A template whose labels do not match the selector is accepted (only ReplicaSets
  are validated, `ReplicaSet.ts:344`) and would create pods for ever; the model
  takes them to match.

## 8. Volumes

`Volumes.tla` models the three controllers on one stack. `claims`, `volumes`,
`pods` and `classes` are the store, `boundTo` and `readiness` what `VolumeState`
keeps, `queue` and `timer` the three work queues (provisioning; claims and
volumes of the binding controller) with their callbacks. `BindStep` is the
continuation of a binding: the volume is written first, its update delivered to
everyone, then the claim is written as it was read. `SyncBound`, `SyncUnbound`
and `ReconcileVolume` are the branches of the binding reconciler. What the code
orders by list position or by size is a choice here: any volume that fits.
`gone` is a history variable (classes that were deleted).

| Run | Question | Instance |
|---|---|---|
| `Volumes` | agreement of both sides, no claim left behind, pod readiness, stability | 2 claims, 1 static volume, 1 pod, a waiting and an immediate class, 4 user actions, `MaxBatch` 6; 865,329 states |
| `VolumesRest` | the controllers come to rest: violated | the same, 2 user actions |

Bounds. `MaxBatch` (1000) only has to be larger than the work of one call; the
properties also hold with 14 (1,471,729 states) and with 5 actions (3,557,367
states), run by hand.

Liveness stays unstated beside `VolumesRest`: in a system whose queues never
come to rest "in the end" is said by the invariants at the moments between calls.

Finding. A bound claim and its volume add each other's key for ever
(volumeBindingReconciler.ts:136, :271): 1000 keys, a timeout, 1000 keys, until
the environment stops (`VolumesRest`).

Other consequences the model shows, which no property excludes.

* The first write of a binding is delivered to provisioning, which finds the
  claim pending and no volume free, and creates a dynamic volume that nobody
  uses, left Available for ever.
* A volume of policy Retain loses its claimRef with its claim and is Available to
  the next one at once (`toReleasedVolume`, volumeBindingReconciler.ts:266). The
  course says it stays Released until an administrator removes the claimRef
  (`courses/modules/persistent-storage/04-pv-and-pvc-concepts/en/content.md:73`,
  `08-access-modes-and-reclaim-policies/en/content.md:64`). The properties hold of
  either behaviour: in `BindingsAgree` a volume that is not Bound may name a claim
  that is gone if it is to be retained, and it fits nobody while it does.
* A volume left under a claim's dynamic name keeps a new, larger claim of that
  name from being provisioned; `NoClaimLeftBehind` therefore excepts a name that
  is taken.
* The binding controller does not hear of StorageClasses; a claim held back by a
  class that is deleted is looked at when something else happens (`gone`).

Proved in `Volumes_proofs`, for any sets of claims, volumes, classes and pods and
any `MaxBatch`: `TypesHold` (`TypeOK`) and `ReadinessIsFresh` (`ReadinessFresh`).
`IInv` adds `Told`: a pod whose readiness is not what its claim and volume make
it has an event of one of them still being delivered. The pod volume controller
subscribes last, so a delivery leaves the stack only after it has been told. The
proof also shows that `VolumeState.boundTo`, the fallback in the readiness
computation, never decides: a bound claim names its volume.

Also proved, as long as the work of a call fits a batch (`BatchSuffices`):
`BindingsDoAgree` (`BindingsAgree`), `BindingsAreStable` (`BindingIsStable`) and
`NoneIsLeftBehind` (`NoClaimLeftBehind`), all from `BindingsInductive`. The
invariants, and the vocabulary of the proofs, are in `VolumesInvariants`. Some
such condition is needed: with `MaxBatch` 1, 2 or 3 TLC finds `BindingIsStable`
violated. A key that a full batch leaves to the callback is taken by
`processNext`, during which the queue does not count as being drained. A claim
whose volume is just being written is then taken again by a nested loop, and bound
to a second volume that was provisioned for it; when the outer binding goes on, it
writes the claim as it had read it.

The inductive invariant is `IInv`, `BInv` and `Room`.

* `BInv` says what holds of bindings inside calls. A claim that names a volume it
  does not have (`Dirty`), or a volume whose claim is gone (`Orphan`), is in the
  queue of the binding controller or named by an event this controller has yet
  to hear of; a queue with such a key is being drained (`Busy`). A queue is
  drained by one loop at a time and one claim is being bound at most (`Nested`);
  the volume of a binding in progress names the claim, and the claim names no
  volume until it is written (`BindsMean`). `VolumeState` knows a claim's volume,
  or the binding that will tell it is on the stack (`Known`).
* `BInv` is kept by every step after which no loop leaves such a key behind
  (`NotStranded`). `Room` says that none does, by counting. `Work` is a set of at
  most 4 elements per claim and 3 per name of a volume, of which every write made
  inside a call takes one away and none gives one back (`TurnsShrink`): a claim is
  given its class once, bound once, a volume provisioned, bound, released once.
  Between two writes every queue takes in each key at most once, so a loop has at
  most `Debt` == `Round` * |`Work`| turns to take before the keys it waits for are
  done, where `Round` is 2 max(claims, names) + 1. `Room` compares that with the
  turns a loop has left, for every loop on the stack, by what lies above it.
* `BatchSuffices` is then |`Work`| at its largest: finite sets of claims and names and
  `MaxBatch` >= (2 max(c, n) + 1)(4c + 3n + 1). The code's 1000 is enough for
  c = n = 8 (969), such as 4 claims with 4 static volumes (a claim adds the name
  of its dynamic volume). The bound is generous: TLC finds the properties
  to hold with 6, where it asks for 126.

`NoClaimLeftBehind` adds `NoneLeft`, which holds inside calls: where a claim that
nothing holds back fits a free volume (`Match`), the claim or the volume is in a
queue of the binding controller, or a frame of the stack brings it there
(`BringsMatch`: an event untold, an `addAll` that holds the claim, a binding of
the claim that has not been written yet); where such a claim lacks a volume
(`Lack`), it is in the provisioning queue, or an event, an `addAll` or a provision
frame that read it as it is now brings it to notice (`BringsLack`). `NoneLeft`
needs no counting: every write of a volume is heard by provisioning, every
removal of a pending claim's hindrance (a pod, a class, another claim's volume) is
an event that names the claim or concerns all of them, and a turn that stops
short has found that there is nothing to match. Between calls the queues hold
claims and volumes that have each other only (`Busy`), so nothing is left to see.
A class that is deleted is the hindrance whose end the binding controller does not
hear of, hence `gone`.

TLC has checked `TypeInv`, `BInv`, `Room` and `NoneLeft` as they stand in
`VolumesInvariants`, with `MaxBatch` 126, where `BatchSuffices` holds, and 3 user
actions (1,809,230 states), by hand.

## 9. Services

`Network.tla` models the controller and its two allocators. `services` and `pods`
are the store; `ipOf`, `usedIps` the service IP allocator; `portOf`, `ownerOf`,
`usedPorts` the node-port allocator, with its two maps and its set kept apart as
the code does; `runtime` what requests are routed by. A reconcile is a `job` of
several steps (`Take`, `ReserveNext`, `IpStep`, `PortStep`, `Publish`), because
each allocator throws in the middle of it: what was reserved stays, the rest is
not done, and the key waits for a retry (`Throw`, `RetryFires`), while users go
on. An allocator probes from a hash of the key; here it takes any free member.
`SpaceOf` is the namespace of a service or a pod: endpoints are made of the pods of
all namespaces (`EndpointsOf`, :288), while a pod's events are told to the services
of its own (`Selecting`, :457-460). A pod's `ready` is what the kubelet reports of
its containers and the code never asks for. `strayed` (which pods were relabelled
out of which service's selector) and `clash` (a user gave one service another's
address) are history variables the properties refer to.

| Run | Question | Instance |
|---|---|---|
| `Network` | books of the node ports, unique routes, fresh runtimes, service for who is not blocked | 2 services of 2 namespaces, 8 specifications, 1 pod, 2 addresses, 3 node ports of which 2 are in the range, 4 user actions, `FairSpec`; 389,486 states |

Bounds. Ranges of two are exhausted by two services; the eight specifications ask
for automatic, given, given out of range, exchanged and headless addresses and
ports. Four actions make two services exchange their ports. The pod is of the
namespace of one service and foreign to the other.

Fairness. The reconciles run (`WF`), and each service's retry timer fires (`SF`).

Proved in `Network_proofs`, for any sets of services, ports and specifications:
`TypesHold`, `BooksBalance` (`PortBooksBalance`) and `RoutesAreUnique`
(`RoutesUnique`). `IInv` == `TypeInv`, `PortBooks`, `OwnersExist`; on top of it
`RoutesInv` == `IpBooks` (the books of addresses), `Told` (a runtime says what the
allocators hold unless its service waits) and `JobKept` (what a job has reserved
so far). The proof needs a service that waits for its retry to be excepted for
addresses as well as for ports. `RuntimesAreFresh` (`RuntimeFresh`): a service no
reconcile is due for (`Settled`) is routed as its spec says; of the pods of its own
namespace, those that answer are behind it and no others but strayed ones
(`Fresh`). `RuntimeFresh` asks for less, that the ready ones be in, so that it holds
whether or not readiness counts. Of pods of other namespaces neither says anything.

Where the code departs from the course, so that the properties leave it open.

* A pod of another namespace whose labels match becomes an endpoint, and when it
  stops or is deleted no service of that namespace hears of it, so that it stays
  one; the course calls the endpoints "a live list"
  (`courses/modules/services/02-service-and-endpoints/en/content.md:14`).
  `RuntimeFresh` speaks of the pods of a service's own namespace; asked of all pods,
  TLC finds it violated by a pod of the other namespace that stops running.
* A pod that runs but is not ready is an endpoint; the same lesson excludes it (:16).
  `RuntimeFresh` holds with such pods in or out.
* A service that moves a node port from one of its ports to another, or asks for one
  that a port it has dropped still holds, is refused it and retried for ever, although
  no other service is involved (NodePortAllocator.ts:90); the course knows only the
  conflict of two services
  (`courses/modules/crash-course-networking/03-nodeport-and-loadbalancer/en/content.md:114`).
  `Served` therefore excepts three cases: another service has the port (`Blocked`),
  the range that this service needs something from is exhausted (`Exhausted`, part of
  `Blocked`), and this one (`InItsOwnWay`). Without the third TLC finds it violated
  with one service and three edits.

What the properties except, because the code does it: a reconcile that throws has
already freed the old ports, while the service's runtime still answers on them
until the retry; two services that exchange node ports wait on each other for
ever (`Blocked`); an address that a user gives is reserved without a look at its
owner, and the one before it is not given back; a pod relabelled out of a
selector stays an endpoint, as the event of a pod reaches only the services that
select it as it is now (`strayed`).

## 10. What rests on what

| Module | Proved for every instance | Model-checked only |
|---|---|---|
| `WorkQueue` | `TypeOK`, `NoLostWakeup`, `HandledOnce`, `NeverPostponed`, `ImplementsDedupQueue` | `EveryKeyHandled` |
| `PodPlane` | `TypeOK`, `NothingQueuedWhenIdle`, `StatusFresh`; with delays `DecisionsAreArmed`, `OwnsItsResources`, `ImplementsPodLife` | `Settles` |
| `ContainerStart` | `TypeOK`, `RegistryAgrees`, `RestartsWhenDue`, `EndingsAreFinal` | `Settles` |
| `Rollout` | `TypeOK`, `NothingForgotten`, `StatusFresh`, `NoOrphans`, `StatusWritesAreFresh`, `SurgeKept` (nobody scales down), `AvailabilityKept`, room of a rolling update | `RolloutCompletes` |
| `DaemonSet` | `TypeOK`, `Covered`, `StatusTruthful`, `UndoGoesBack` | `Settles` |
| `Volumes` | `TypeOK`, `ReadinessFresh`; if a batch suffices `BindingsAgree`, `BindingIsStable`, `NoClaimLeftBehind` | none |
| `Network` | `TypeOK`, `PortBooksBalance`, `RoutesUnique`, `RuntimeFresh` | `Served` |

The theorems rest on the named assumptions of their module (`…Assumption`) and,
where said, on delays or the size of a batch; TLC evaluates these assumptions in every run. Liveness stays with
TLC, because the proof system does not reason about fairness.

All modules but `WorkQueue` use the work queue in a simplified form: immediate
mode, never stopped; `PodPlane`, `ContainerStart`, `DaemonSet` and `Network` also
never fill a batch. That a queue neither forgets nor duplicates work in the other
cases is what `WorkQueue` is about.

## 11. Not modelled

Most of the repository's lines are not the cluster: the web application, the
courses, the terminal with its shell and editor, kubectl's parser, transformers
and formatters, generated OpenAPI and event types, parity tooling, drills and
seeds. They are sequential conversions from text to text or to tables, without
state that several actors share; tests reach them, and a model would repeat them
line by line.

Inside the cluster:

* **Etcd store, cluster state, repositories.** One operation is one assignment to
  one map; the order in which writes reach readers is in `Emit`, `Deliver` and
  `SetPods` of the modules above. Revisions are a counter.
* **API facade.** Creation, update and the two-phase deletion of pods are in
  `PodPlane`; the rest is hydration of objects and validation. Deleting a pod
  that is already terminating does nothing; no document promises otherwise, so no
  property forbids it.
* **Pod IP probing.** `SimPodIpAllocator` tries the 240 members of one
  progression and does not give up when they are taken; `PodPlane` has who holds
  an address and not which one.
* **Whether a container completes** is asked once, when it starts to run
  (PodLifecycleController.ts:1012): a process that ends later never makes its pod
  Succeeded. The models have the question where the code has it.
* **Ordinals** are read with `parseInt` (StatefulSetController.ts:61); in the
  model a name is its ordinal. The deletion of a StatefulSet is not in `PodPlane`
  either.
* **Nested handlers.** `WorkQueue` models that `processNext` does not protect its
  handler from the immediate loop; nothing promises that handlers never nest.
* **Event recorder, lifecycle event stores, watch hub, logs, metrics.** Observers:
  they write what nobody decides by.
* **DNS, traffic, network policies, gateway API.** Functions of the runtime, the
  pods and the policies at the moment of a request.
* **Container runtime records and volume contents.** Derived from pods; what
  decides is in the pods' status.
* **Environment.** The order in which it starts the parts is in the modules'
  `Subscribers`; saving and restoring stop everything and build it anew.
