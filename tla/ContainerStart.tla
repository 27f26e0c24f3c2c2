---------------------------- MODULE ContainerStart ----------------------------
(***************************************************************************)
(* How the kubelet brings a pod's container up: PodLifecycleController for *)
(* one pod name, with images that can or cannot be pulled, containers that *)
(* crash or complete, and volumes that are or are not ready.               *)
(*                                                                         *)
(* The controller keeps its timers in four slots per name, and a chain of  *)
(* timers (pull, transition, retry; show the back-off, restart) shares one *)
(* slot.  Cancelling goes through the slot: a timer that is armed but no   *)
(* longer in its slot cannot be cancelled.  A callback that emits an       *)
(* update is delivered it at once and reconciles before it goes on, so a   *)
(* callback is split where it emits: "after" says what it does next.       *)
(*                                                                         *)
(* An image is its kind and a version of it.  The pod has one container,   *)
(* described by the image: what its command does comes with it.            *)
(***************************************************************************)
EXTENDS Naturals, FiniteSets

CONSTANTS
  Kinds,      \* of the images there are
  Versions,   \* of an image
  Policies,   \* the restart policies of pods
  Delays,     \* whether pendingDelayRangeMs and completionDelayRangeMs are given
  MaxTimers,  \* bound of the model: timers armed at a time
  MaxEdits,   \* bound of the model: user actions
  None

AllKinds ==
  {"runs",       \* is pulled, starts and runs
   "completes",  \* ends by itself with 0, unless the policy is Always
   "crashes",    \* ends with an error
   "missing"}    \* is not in the registry

ASSUME KindsAssumption == Kinds \subseteq AllKinds
ASSUME PoliciesAssumption == Policies \subseteq {"Always", "OnFailure", "Never"}
ASSUME DelaysAssumption == Delays \subseteq BOOLEAN
ASSUME BoundsAssumption == MaxTimers \in Nat /\ MaxTimers >= 5 /\ MaxEdits \in Nat

Images == [kind : Kinds, version : Versions]
Ids == 1..MaxTimers
Slots == {"pending", "completion", "restart", "imagePull"}
RestartCycle == 3   \* bound of the model: restartCount is counted modulo this

VARIABLES
  pod,           \* the pod in the store, or None
  registry,      \* the timers, and the PodLifecycleTimeoutRegistry's slots
  pulled,        \* the imagePull attempts are not 0
  queued,        \* the pod's key is in the work queue, which is being drained
  after,         \* what the callback that emitted does next, or "nothing"
  volumesReady,  \* what volumeReadinessProbe says
  edits,         \* user actions so far
  delays         \* the controller was made with delays

vars == <<pod, registry, pulled, queued, after, volumesReady, edits, delays>>

-------------------------------------------------------------------------------
(* Timers and slots *)

SlotOf(does) ==
  CASE does = "start" -> "pending"
    [] does = "complete" -> "completion"
    [] does \in {"showBackoff", "restart"} -> "restart"
    [] does \in {"pull", "transition", "retry"} -> "imagePull"

Armed(r) == {id \in Ids : r.armed[id] # None}
Taken(r) == {r.slot[s] : s \in Slots}
FreeId(r) == CHOOSE id \in Ids : id \notin Armed(r) \cup Taken(r)

\* setTimeout and the registry's setTimeout, whatever the slot holds; p is what
\* the callback has captured.
Arm(r, does, p) ==
  [armed |-> [r.armed EXCEPT ![FreeId(r)] = [does |-> does, pod |-> p]],
   slot  |-> [r.slot EXCEPT ![SlotOf(does)] = FreeId(r)]]

Cancel(r, slots) ==
  [armed |-> [id \in Ids |-> IF \E s \in slots : r.slot[s] = id
                             THEN None ELSE r.armed[id]],
   slot  |-> [s \in Slots |-> IF s \in slots THEN None ELSE r.slot[s]]]

\* deleteTimeout forgets the entry and leaves the timer alone.
Forget(r, slot) == [r EXCEPT !.slot[slot] = None]

\* A timer's callback begins: it drops its slot's entry, whoever owns that by
\* now; the one that shows the back-off keeps it.
Fired(r, id) ==
  LET does == r.armed[id].does
      fired == [r EXCEPT !.armed[id] = None]
  IN  IF does = "showBackoff" THEN fired ELSE Forget(fired, SlotOf(does))

-------------------------------------------------------------------------------
(* Pods *)

NewPod(image, policy) ==
  [image |-> image, policy |-> policy, phase |-> "Pending", reason |-> "ContainerCreating",
   last |-> None, restarts |-> 0, terminating |-> FALSE]

ShouldProgress(p) == p # None /\ p.phase = "Pending"
Is(p, kind) == p.image.kind = kind
Completes(p) == Is(p, "completes") /\ p.policy # "Always"

\* The container waits for the given reason; hasContainerStatusChanged compares
\* the reason and the one before it.
Waiting(p, reason) ==
  IF p.reason = reason /\ p.last = reason
  THEN p
  ELSE [p EXCEPT !.phase = "Pending", !.reason = reason, !.last = p.reason]

\* emitPodWaitingForVolume compares the reason only.
WaitingForVolume(p) ==
  IF p.reason = "VolumesNotReady" THEN p ELSE Waiting(p, "VolumesNotReady")

Terminated(p, reason, phase) ==
  [p EXCEPT !.phase = phase, !.reason = reason, !.last = p.reason]

Crashed(p) ==
  [Terminated(p, "Error", "Pending") EXCEPT
     !.restarts = (@ + 1) % RestartCycle]

Running(p) ==
  [p EXCEPT !.phase = "Running", !.reason = "Running", !.last = p.reason]

\* Mutant: updateResource of a running pod leaves its status alone.
ResetImageOnly(p, image) == [p EXCEPT !.image = image]

\* resetPodToContainerCreating
Reset(p, image) ==
  [p EXCEPT !.image = image, !.phase = "Pending",
            !.reason = "ContainerCreating", !.last = p.reason]

\* An emitted update is applied, and enqueues the pod if it should progress;
\* nothing is emitted when nothing changed.
Emit(p) == pod' = p /\ queued' = (p # pod /\ ShouldProgress(p))

\* Mutant: a completion timer that is there already is not looked for.
ScheduleCompletionAgain(p, r) ==
  IF ~Completes(p) THEN Cancel(r, {"completion"}) ELSE Arm(r, "complete", p)

\* schedulePodSucceededTransition
ScheduleCompletion(p, r) ==
  IF ~Completes(p) THEN Cancel(r, {"completion"})
  ELSE IF r.slot["completion"] # None \/ ~delays THEN r
  ELSE Arm(r, "complete", p)

\* Mutant: the completion is scheduled for the pod as it was.
EmitRunningOld(p, r) ==
  Emit(Running(p)) /\ registry' = ScheduleCompletion(p, r)

\* emitPodRunning
EmitRunning(p, r) ==
  Emit(Running(p)) /\ registry' = ScheduleCompletion(Running(p), r)

-------------------------------------------------------------------------------
(* reconcile *)

\* Mutant: handleTerminatingPod leaves the completion timer alone.
ReleaseKeepsCompletion ==
  /\ registry' = Cancel(registry, Slots \ {"completion"})
  /\ pulled' = FALSE

\* NotFound, Terminating and the deletion of the pod
Release ==
  /\ registry' = Cancel(registry, Slots)
  /\ pulled' = FALSE

\* NotSchedulable
Leave ==
  /\ Emit(pod)
  /\ registry' = Cancel(registry,
                   Slots \ IF pod.phase = "Running" THEN {"completion"} ELSE {})
  /\ UNCHANGED pulled

\* VolumeBlocked
WaitForVolumes ==
  /\ Emit(WaitingForVolume(pod))
  /\ registry' = Cancel(registry, {"pending", "imagePull"})
  /\ UNCHANGED pulled

\* handleImagePullBackOff
PullImage ==
  /\ UNCHANGED pulled
  /\ IF registry.slot["imagePull"] # None
     THEN Emit(pod) /\ UNCHANGED registry
     ELSE /\ Emit(IF pulled THEN pod ELSE Waiting(pod, "ContainerCreating"))
          /\ registry' = Arm(Cancel(registry, {"pending", "restart"}), "pull", None)

\* Mutant: handleCrashLoopBackOff does not look for a restart under way.
HandleCrashAgain ==
  /\ pulled' = FALSE
  /\ Emit(IF pod.policy = "Never" THEN Terminated(pod, "Error", "Failed")
                              ELSE Crashed(pod))
  /\ registry' = Arm(Cancel(registry, {"imagePull", "pending"}),
                     "showBackoff", None)

\* handleCrashLoopBackOff
HandleCrash ==
  /\ pulled' = FALSE
  /\ IF pod.policy = "Never"
     THEN /\ Emit(Terminated(pod, "Error", "Failed"))
          /\ registry' = Cancel(registry, {"imagePull", "pending", "restart"})
     ELSE IF registry.slot["restart"] # None
     THEN Emit(pod) /\ registry' = Cancel(registry, {"imagePull"})
     ELSE /\ Emit(Crashed(pod))
          /\ registry' = Arm(Cancel(registry, {"imagePull", "pending"}),
                             "showBackoff", None)

\* AlreadyPending, or ReadyToStart.  Without delays the container runs before
\* the update that it is being created has been reconciled.
StartContainer ==
  LET cleared == Cancel(registry, {"imagePull", "restart"})
      creating == Waiting(pod, "ContainerCreating")
  IN  /\ pulled' = FALSE
      /\ IF registry.slot["pending"] # None
         THEN Emit(pod) /\ registry' = cleared
         ELSE IF delays
         THEN Emit(creating) /\ registry' = Arm(cleared, "start", None)
         ELSE /\ pod' = Running(pod)
              /\ queued' = (creating # pod)
              /\ registry' = ScheduleCompletion(Running(pod), cleared)

\* buildReconcileDecision; the startup issue is the image's kind.
Decision ==
  CASE pod = None -> "NotFound"
    [] pod # None /\ pod.terminating -> "Terminating"
    [] pod # None /\ ~pod.terminating /\ ~ShouldProgress(pod) -> "NotSchedulable"
    [] ShouldProgress(pod) /\ ~pod.terminating /\ ~volumesReady -> "VolumeBlocked"
    [] ShouldProgress(pod) /\ ~pod.terminating /\ volumesReady ->
         "StartupIssueOrReady"

Reconcile ==
  /\ queued
  /\ \/ Decision \in {"NotFound", "Terminating"} /\ Release /\ Emit(pod)
     \/ Decision = "NotSchedulable" /\ Leave
     \/ Decision = "VolumeBlocked" /\ WaitForVolumes
     \/ Decision = "StartupIssueOrReady" /\ Is(pod, "missing") /\ PullImage
     \/ Decision = "StartupIssueOrReady" /\ Is(pod, "crashes") /\ HandleCrash
     \/ Decision = "StartupIssueOrReady" /\ pod.image.kind \in {"runs", "completes"}
          /\ StartContainer
  /\ UNCHANGED <<after, volumesReady, edits, delays>>

-------------------------------------------------------------------------------
(* Timer callbacks, on an empty call stack *)

Idle == ~queued /\ after = "nothing"

Returns == Emit(pod) /\ after' = "nothing" /\ UNCHANGED pulled
EnqueueAgain == pod' = pod /\ queued' = TRUE /\ after' = "nothing"

Start(r) ==
  /\ UNCHANGED pulled
  /\ after' = "nothing"
  /\ IF ~ShouldProgress(pod) THEN Emit(pod) /\ registry' = r
     ELSE IF volumesReady THEN EmitRunning(pod, r)
     ELSE Emit(WaitingForVolume(pod)) /\ registry' = r

\* The pull, or the transition after it, ends: the image may be there by now.
ImageStep(r, reason, next) ==
  IF ~ShouldProgress(pod)
  THEN Returns /\ registry' = r
  ELSE IF ~Is(pod, "missing")
  THEN EnqueueAgain /\ registry' = Cancel(r, {"imagePull"}) /\ pulled' = FALSE
  ELSE /\ Emit(Waiting(pod, reason))
       /\ registry' = r
       /\ after' = next
       /\ UNCHANGED pulled

\* The retry of the pull and the restart are due.
Again(r) ==
  /\ registry' = r
  /\ IF ShouldProgress(pod) THEN EnqueueAgain /\ UNCHANGED pulled ELSE Returns

ShowBackoff(r) ==
  IF ShouldProgress(pod)
  THEN /\ Emit(Waiting(pod, "CrashLoopBackOff"))
       /\ registry' = r
       /\ after' = "armRestart"
       /\ UNCHANGED pulled
  ELSE Returns /\ registry' = Forget(r, "restart")

\* A pod that is not running is completed as it was when the timer was armed.
Complete(r, captured) ==
  /\ registry' = r
  /\ after' = "nothing"
  /\ UNCHANGED pulled
  /\ IF pod = None \/ pod.phase \in {"Succeeded", "Failed"} \/ ~Completes(pod)
     THEN Emit(pod)
     ELSE Emit(Terminated(IF pod.phase = "Running" THEN pod ELSE captured,
                          "Completed", "Succeeded"))

\* Bound of the model: pulls multiply, and are held back at MaxTimers.
HeldBack ==
  /\ ShouldProgress(pod) /\ Is(pod, "missing")
  /\ Cardinality(Armed(registry)) + 5 > MaxTimers

TimerFires(id) ==
  /\ Idle
  /\ registry.armed[id] # None
  /\ LET timer == registry.armed[id]
         r == Fired(registry, id)
     IN  \/ timer.does = "start" /\ Start(r)
         \/ timer.does = "pull" /\ ~HeldBack
              /\ ImageStep(r, "ErrImagePull", "armTransition")
         \/ timer.does = "transition" /\ ~HeldBack
              /\ ImageStep(r, "ImagePullBackOff", "armRetry")
         \/ timer.does \in {"retry", "restart"} /\ Again(r)
         \/ timer.does = "showBackoff" /\ ShowBackoff(r)
         \/ timer.does = "complete" /\ Complete(r, timer.pod)
  /\ UNCHANGED <<volumesReady, edits, delays>>

\* The callback goes on once its update has been delivered and reconciled: it
\* arms the next timer of the chain over whatever the slot holds by now.
Continue ==
  /\ ~queued
  /\ \/ after = "armTransition"
          /\ registry' = Arm(registry, "transition", None) /\ UNCHANGED pulled
     \/ after = "armRetry"
          /\ registry' = Arm(registry, "retry", None) /\ pulled' = TRUE
     \/ after = "armRestart"
          /\ registry' = Arm(registry, "restart", None) /\ UNCHANGED pulled
  /\ after' = "nothing"
  /\ UNCHANGED <<pod, queued, volumesReady, edits, delays>>

-------------------------------------------------------------------------------
(* Others *)

Resync ==
  /\ Idle
  /\ ShouldProgress(pod)
  /\ queued' = TRUE
  /\ UNCHANGED <<pod, registry, pulled, after, volumesReady, edits, delays>>

\* The termination controller finalises the deletion.
Remove ==
  /\ Idle
  /\ pod # None /\ pod.terminating
  /\ pod' = None
  /\ Release
  /\ UNCHANGED <<queued, after, volumesReady, edits, delays>>

Edit == Idle /\ edits < MaxEdits /\ edits' = edits + 1
        /\ UNCHANGED <<after, delays>>

Create(image, policy) ==
  /\ Edit
  /\ pod = None
  /\ Emit(NewPod(image, policy))
  /\ UNCHANGED <<registry, pulled, volumesReady>>

ChangeImage(image) ==
  /\ Edit
  /\ pod # None /\ pod.image # image
  /\ Emit(Reset(pod, image))
  /\ UNCHANGED <<registry, pulled, volumesReady>>

Delete ==
  /\ Edit
  /\ pod # None /\ ~pod.terminating
  /\ Emit([pod EXCEPT !.terminating = TRUE])
  /\ UNCHANGED <<registry, pulled, volumesReady>>

\* A claim is bound or deleted; nobody tells the kubelet.
ChangeVolumes ==
  /\ Edit
  /\ volumesReady' = ~volumesReady
  /\ UNCHANGED <<pod, registry, pulled, queued>>

-------------------------------------------------------------------------------

Init ==
  /\ pod = None
  /\ registry = [armed |-> [id \in Ids |-> None], slot |-> [s \in Slots |-> None]]
  /\ pulled = FALSE
  /\ queued = FALSE
  /\ after = "nothing"
  /\ volumesReady \in BOOLEAN
  /\ edits = 0
  /\ delays \in Delays

Next ==
  \/ Reconcile
  \/ Continue
  \/ \E id \in Ids : TimerFires(id)
  \/ Resync
  \/ Remove
  \/ \E image \in Images : ChangeImage(image)
  \/ \E image \in Images, policy \in Policies : Create(image, policy)
  \/ Delete
  \/ ChangeVolumes

Spec == Init /\ [][Next]_vars

\* The call stack runs on, every timer that stays armed fires, the interval of
\* the resync comes round, and deletions are finalised.
Fairness ==
  /\ WF_vars(Reconcile)
  /\ WF_vars(Continue)
  /\ \A id \in Ids : SF_vars(TimerFires(id))
  /\ SF_vars(Resync)
  /\ WF_vars(Remove)

FairSpec == Spec /\ Fairness

-------------------------------------------------------------------------------
(* Properties *)

Reasons ==
  {"ContainerCreating", "VolumesNotReady", "ErrImagePull", "ImagePullBackOff",
   "Error", "CrashLoopBackOff", "Completed", "Running"}

Pods ==
  [image : Images, policy : Policies,
   phase : {"Pending", "Running", "Succeeded", "Failed"},
   reason : Reasons, last : Reasons \cup {None},
   restarts : 0..RestartCycle - 1, terminating : BOOLEAN]

Timers ==
  [does : {"start", "complete", "showBackoff", "restart", "pull", "transition", "retry"},
   pod : Pods \cup {None}]

ASSUME NoneAssumption == None \notin Nat /\ None \notin Pods /\ None \notin Timers

\* Every variable keeps the shape of what it stands for; only a completion timer
\* has captured a pod, and one that was running.
TypeOK ==
  /\ pod \in Pods \cup {None}
  /\ registry \in [armed : [Ids -> Timers \cup {None}], slot : [Slots -> Ids \cup {None}]]
  /\ \A id \in Armed(registry) :
       LET timer == registry.armed[id]
       IN  IF timer.does = "complete"
           THEN timer.pod \in Pods /\ timer.pod.phase = "Running"
           ELSE timer.pod = None
  /\ pulled \in BOOLEAN /\ queued \in BOOLEAN
  /\ after \in {"nothing", "armTransition", "armRetry", "armRestart"}
  /\ volumesReady \in BOOLEAN
  /\ edits \in 0..MaxEdits
  /\ delays \in Delays

\* A slot that holds a timer's id holds that of a timer still to fire.
TakenSlotsFire ==
  Idle => \A s \in Slots :
            registry.slot[s] # None =>
              /\ registry.slot[s] \in Armed(registry)
              /\ SlotOf(registry.armed[registry.slot[s]].does) = s

\* Every armed timer but those of image pulls is in its slot, where it can be
\* cancelled, and none is armed for a name that has no pod.
NoStrayTimers ==
  Idle => \A id \in Armed(registry) :
            SlotOf(registry.armed[id].does) # "imagePull" =>
              /\ registry.slot[SlotOf(registry.armed[id].does)] = id
              /\ pod # None

\* The registry and the armed timers agree: reconcile skips a pod whose slot is
\* taken, and would skip it for ever; a timer outside its slot cannot be
\* cancelled and acts on whatever the pod has become.
RegistryAgrees == TakenSlotsFire /\ NoStrayTimers

\* A container crashes, and is counted as restarted, once per restart under way:
\* neither a resync, nor the update that says so, nor a user's edit does it twice.
RestartsWhenDue ==
  [][ pod # None /\ pod' # None /\ pod' # pod /\ pod'.reason = "Error" =>
        \/ /\ pod'.restarts = (pod.restarts + 1) % RestartCycle
           /\ registry.slot["restart"] = None
           /\ \A id \in Armed(registry) :
                registry.armed[id].does \notin {"showBackoff", "restart"}
        \/ pod'.phase = "Failed" \/ edits' # edits ]_vars

\* A pod that is being deleted stays so, and no container of it starts: no timer
\* writes back the pod of before.  A pod that has ended is started again by a
\* change of its image only.
EndingsAreFinal ==
  [][ pod # None /\ pod' # None =>
        /\ pod.terminating =>
             /\ pod'.terminating
             /\ pod.phase = "Pending" => pod'.phase = "Pending"
        /\ pod.phase \in {"Succeeded", "Failed"} =>
             pod' = pod \/ edits' # edits ]_vars

\* What a pod left alone comes to, whatever its image and its volumes were
\* before: one that runs or ends does so for good, and a container that crashes
\* under a policy that restarts it is restarted again and again.
LeftAlone(kind, policies) ==
  <>[](/\ pod # None /\ ~pod.terminating /\ volumesReady
       /\ pod.image.kind = kind /\ pod.policy \in policies)
EndsAs(phase) == <>[](pod # None /\ pod.phase = phase)
Reports(reason) == []<>(pod # None /\ pod.reason = reason)

Settles ==
  /\ LeftAlone("runs", Policies) => EndsAs("Running")
  /\ LeftAlone("completes", {"Always"}) => EndsAs("Running")
  /\ LeftAlone("completes", {"OnFailure", "Never"}) =>
       <>[](pod # None /\ pod.phase = IF delays THEN "Succeeded" ELSE "Running")
  /\ LeftAlone("crashes", {"Never"}) => EndsAs("Failed")
  /\ LeftAlone("crashes", {"Always", "OnFailure"}) =>
       Reports("Error") /\ Reports("CrashLoopBackOff")

\* An image that is missing "starts with ContainerCreating then transitions to
\* ErrImagePull and ImagePullBackOff": it does not go back.
NeverBackToCreating ==
  [][ pod # None /\ pod' # None /\ edits' = edits
        /\ pod.reason \in {"ErrImagePull", "ImagePullBackOff"} =>
          pod'.reason # "ContainerCreating" ]_vars

\* kubectl set image has the pod's image be the new one, until somebody sets
\* another.
UpdatedImageStays ==
  [][ pod # None /\ pod' # None /\ edits' = edits =>
        pod'.image = pod.image ]_vars

===============================================================================
