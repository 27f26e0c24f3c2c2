-------------------------------- MODULE Volumes --------------------------------
(***************************************************************************)
(* Persistent volumes and claims: the provisioning, binding and pod volume *)
(* controllers on the synchronous event bus.                               *)
(*                                                                         *)
(* A binding is two writes, the volume and then the claim, and each is     *)
(* delivered to the three controllers before the code goes on with what it *)
(* had read: "stack" is the call stack, as in PodPlane and Rollout.  Only  *)
(* an empty stack leaves room for timers, kubelets and users.              *)
(*                                                                         *)
(* Of a capacity and the access modes only a size is kept, and of the      *)
(* order in which the code goes over a list, nothing: any key of it may be *)
(* next, any volume that fits may be found first.  A pod uses one claim.   *)
(* Users create and delete objects and do not edit them, and do not set    *)
(* claimRef.                                                               *)
(***************************************************************************)
EXTENDS Naturals, Sequences, FiniteSets, SequencesExt

CONSTANTS
  Claims,          \* names of claims
  Statics,         \* names of volumes that users create
  Pods,
  VolumeSpecs,     \* what users create volumes with: class, size and policy
  ClaimSpecs,      \* what users create claims with: class or None, and size
  StorageClasses,  \* per class that can be made, its mode and its policy
  DefaultClass,    \* the one that carries the default annotation
  DynamicName,     \* createDynamicPersistentVolumeName
  MaxBatch,        \* maxImmediateBatchSize of the work queues
  MaxEdits,        \* bound of the model: user actions
  None

ASSUME ClassesAssumption ==
  /\ DefaultClass \in DOMAIN StorageClasses /\ None \notin DOMAIN StorageClasses
  /\ \A s \in DOMAIN StorageClasses :
       StorageClasses[s] \in [waits : BOOLEAN, policy : {"Retain", "Delete"}]
ASSUME SpecsAssumption == \A s \in VolumeSpecs : s.policy \in {"Retain", "Delete"}
ASSUME NamesAssumption == \A c \in Claims : DynamicName[c] \notin Statics
ASSUME BoundsAssumption == MaxBatch \in Nat \ {0} /\ MaxEdits \in Nat

Names == Statics \cup {DynamicName[c] : c \in Claims}
Queues == {"provisioning", "claims", "volumes"}

\* What the model keeps of a claim, a volume and a pod
ClassNames == {s.class : s \in VolumeSpecs \cup ClaimSpecs} \cup DOMAIN StorageClasses
Sizes == {s.size : s \in VolumeSpecs \cup ClaimSpecs}

ClaimValues ==
  [class : ClassNames \cup {None}, size : Sizes, volume : Names \cup {None},
   bound : BOOLEAN]
VolumeValues ==
  [class : ClassNames, size : Sizes, policy : {"Retain", "Delete"},
   claim : Claims \cup {None}, bound : BOOLEAN]

PodValues == [claim : Claims, scheduled : BOOLEAN, terminating : BOOLEAN]

ASSUME NoneAssumption ==
  None \notin Claims \cup Names \cup ClaimValues \cup VolumeValues \cup PodValues

VARIABLES
  claims,     \* per name the PersistentVolumeClaim, or None
  volumes,    \* per name the PersistentVolume, or None
  pods,       \* per name the pod, or None
  classes,    \* the StorageClasses there are
  gone,       \* history: those that were ever deleted
  boundTo,    \* claimToVolumeByKey of VolumeState
  readiness,  \* podReadinessByKey of VolumeState
  queue,      \* the controllers' work queues; the pod queue is always empty
  timer,      \* timeoutId of each: its processNext is due
  stack,      \* the call stack, innermost frame first
  edits       \* user actions so far

store == <<claims, volumes>>
vars == <<store, pods, classes, gone, boundTo, readiness, queue, timer, stack, edits>>

-------------------------------------------------------------------------------
(* Events *)

\* ref is the claim of a volume or a pod, or the volume of a claim.
Event(kind, op, name, ref) == [kind |-> kind, op |-> op, name |-> name, ref |-> ref]

Subscribers(event) ==
  IF event.kind = "StorageClass" THEN <<"Provisioning">>
  ELSE <<"Provisioning", "Binding", "PodVolume">>

Deliver(event, rest) ==
  stack' = <<[op |-> "deliver", event |-> event, to |-> 1]>> \o rest

Return(rest) == stack' = rest /\ UNCHANGED store

\* createResource, updateResource and deleteResource; the latter two do nothing
\* when the object is gone.
SetClaim(op, c, new, rest) ==
  IF op # "Created" /\ claims[c] = None
  THEN Return(rest)
  ELSE /\ claims' = [claims EXCEPT ![c] = new]
       /\ Deliver(Event("Claim", op, c, IF op = "Deleted" THEN claims[c].volume
                                                          ELSE new.volume), rest)
       /\ UNCHANGED volumes

SetVolume(op, v, new, rest) ==
  IF op # "Created" /\ volumes[v] = None
  THEN Return(rest)
  ELSE /\ volumes' = [volumes EXCEPT ![v] = new]
       /\ Deliver(Event("Volume", op, v, IF op = "Deleted" THEN volumes[v].claim
                                                           ELSE new.claim), rest)
       /\ UNCHANGED claims

-------------------------------------------------------------------------------
(* Work queues *)

Draining(q, frames) == \E i \in DOMAIN frames : frames[i].op = "loop" /\ frames[i].queue = q

Loop(q, n) == [op |-> "loop", queue |-> q, left |-> n]
AddAll(q, keys) == IF keys = {} THEN << >>
                   ELSE <<[op |-> "addAll", queue |-> q, keys |-> keys]>>

Added(q, key) ==
  IF Contains(queue[q], key) THEN queue
  ELSE [queue EXCEPT ![q] = Append(@, key)]

\* add(): the immediate loop runs unless it is further down the stack.
Enqueue(q, key, rest) ==
  /\ queue' = Added(q, key)
  /\ Return(IF Draining(q, rest) THEN rest ELSE <<Loop(q, MaxBatch)>> \o rest)

-------------------------------------------------------------------------------
(* VolumeBindingPolicy and pvcBindingMode *)

Exists(map, name) == name # None /\ map[name] # None

Fits(v, read) ==
  /\ volumes[v] # None
  /\ ~volumes[v].bound /\ volumes[v].claim = None
  /\ volumes[v].class = read.class
  /\ volumes[v].size >= read.size

Candidates(read) == {v \in Names : Fits(v, read)}

Waits(class) == class \in classes /\ StorageClasses[class].waits

Scheduled(p) == pods[p] # None /\ pods[p].scheduled /\ ~pods[p].terminating
HasConsumer(c) == \E p \in Pods : Scheduled(p) /\ pods[p].claim = c

Held(c, read) == Waits(read.class) /\ ~HasConsumer(c)

-------------------------------------------------------------------------------
(* volumeBindingTransforms *)

ToPending(read) == [read EXCEPT !.volume = None, !.bound = FALSE]
ToBoundClaim(read, v) == [read EXCEPT !.volume = v, !.bound = TRUE]
ToBoundVolume(read, c) == [read EXCEPT !.claim = c, !.bound = TRUE]

\* Mutant: the phase is forgotten.
ToReleasedBound(read) == [read EXCEPT !.claim = None]

ToReleased(read) == [read EXCEPT !.claim = None, !.bound = FALSE]

-------------------------------------------------------------------------------
(* VolumeProvisioningController *)

PendingClaims == {c \in Claims : claims[c] # None /\ ~claims[c].bound}

NewVolume(spec) ==
  [class |-> spec.class, size |-> spec.size, policy |-> spec.policy,
   claim |-> None, bound |-> FALSE]

\* createDynamicallyProvisionedPersistentVolume
DynamicVolume(read) ==
  NewVolume([class |-> read.class, size |-> read.size,
             policy |-> StorageClasses[read.class].policy])

\* Mutant: a volume that is there already is not looked for.
ProvisionAgain(c, read, rest) ==
  IF read.bound \/ read.volume # None \/ read.class \notin classes
     \/ Held(c, read) \/ Candidates(read) # {}
  THEN Return(rest)
  ELSE SetVolume("Created", DynamicName[c], DynamicVolume(read), rest)

\* syncClaimProvisioning, with the claim as it was read
Provision(c, read, rest) ==
  IF read.bound \/ read.volume # None \/ read.class \notin classes
     \/ Held(c, read) \/ Candidates(read) # {} \/ volumes[DynamicName[c]] # None
  THEN Return(rest)
  ELSE SetVolume("Created", DynamicName[c], DynamicVolume(read), rest)

\* reconcileProvisioningClaimByKey: syncClaimStorageClass and then the above
ReconcileProvisioning(c, rest) ==
  LET read == claims[c]
      withClass == [read EXCEPT !.class = DefaultClass]
      provision(r) == <<[op |-> "provision", claim |-> c, read |-> r]>> \o rest
  IN  IF read = None THEN Return(rest)
      ELSE IF read.class = None /\ DefaultClass \in classes
      THEN SetClaim("Updated", c, withClass, provision(withClass))
      ELSE Return(provision(read))

HandleProvisioning(event, rest) ==
  /\ UNCHANGED queue
  /\ Return(IF event.kind = "Claim" /\ event.op # "Deleted"
            THEN AddAll("provisioning", {event.name}) \o rest
            ELSE IF event.kind = "Pod"
            THEN AddAll("provisioning", {event.ref}) \o rest
            ELSE IF event.kind \in {"StorageClass", "Volume"}
            THEN AddAll("provisioning", PendingClaims) \o rest
            ELSE rest)

-------------------------------------------------------------------------------
(* VolumeBindingController *)

Unbind(c) == boundTo' = [boundTo EXCEPT ![c] = None]

\* enqueuePendingClaimsMatchingVolume
ClaimsFor(read) ==
  {c \in PendingClaims : claims[c].volume = None /\ claims[c].class = read.class}

\* The second write of a binding, with the claim as it was read, and what
\* follows it.
BindFrame(c, read, v, written) ==
  [op |-> "bind", claim |-> c, read |-> read, volume |-> v, written |-> written]

BindStep(frame, rest) ==
  \/ /\ ~frame.written
     /\ SetClaim("Updated", frame.claim, ToBoundClaim(frame.read, frame.volume),
                 <<[frame EXCEPT !.written = TRUE]>> \o rest)
     /\ UNCHANGED <<boundTo, queue>>
  \/ /\ frame.written
     /\ boundTo' = [boundTo EXCEPT ![frame.claim] = frame.volume]
     /\ Enqueue("volumes", frame.volume, rest)

GoPending(c, read, rest) ==
  /\ Unbind(c)
  /\ SetClaim("Updated", c, ToPending(read), rest)

\* Mutant: a volume is taken whoever has claimed it.
SyncBoundTakes(c, read, rest) ==
  LET v == read.volume
      bind == <<BindFrame(c, read, v, read.bound)>> \o rest
  IN  IF volumes[v] = None
      THEN GoPending(c, read, rest)
      ELSE /\ UNCHANGED boundTo
           /\ IF volumes[v].claim = c THEN Return(bind)
              ELSE SetVolume("Updated", v, ToBoundVolume(volumes[v], c), bind)

\* syncBoundClaim
SyncBound(c, read, rest) ==
  LET v == read.volume
      bind == <<BindFrame(c, read, v, read.bound)>> \o rest
  IN  IF volumes[v] = None \/ volumes[v].claim \notin {None, c}
      THEN GoPending(c, read, rest)
      ELSE /\ UNCHANGED boundTo
           /\ IF volumes[v].claim = c THEN Return(bind)
              ELSE SetVolume("Updated", v, ToBoundVolume(volumes[v], c), bind)

\* syncUnboundClaim
SyncUnbound(c, read, rest) ==
  \/ /\ Held(c, read) \/ Candidates(read) = {}
     /\ IF read.bound THEN GoPending(c, read, rest)
        ELSE Unbind(c) /\ Return(rest)
  \/ /\ ~Held(c, read)
     /\ \E v \in Candidates(read) :
          SetVolume("Updated", v, ToBoundVolume(volumes[v], c),
                    <<BindFrame(c, read, v, FALSE)>> \o rest)
     /\ UNCHANGED boundTo

\* reconcileClaimByKey
ReconcileClaim(c, rest) ==
  LET read == claims[c]
  IN  IF read = None THEN Unbind(c) /\ Return(rest)
      ELSE IF read.volume # None THEN SyncBound(c, read, rest)
      ELSE SyncUnbound(c, read, rest)

\* Mutant: a volume is deleted or released without a look at its claim.
ReconcileVolumeBlindly(v, rest) ==
  LET read == volumes[v]
  IN  IF read = None THEN Return(rest)
      ELSE IF read.claim = None
      THEN Return(AddAll("claims", ClaimsFor(read)) \o rest)
      ELSE IF read.policy = "Delete" THEN SetVolume("Deleted", v, None, rest)
      ELSE SetVolume("Updated", v, ToReleased(read), rest)

\* reconcileVolumeByKey
ReconcileVolume(v, rest) ==
  LET read == volumes[v]
  IN  IF read = None THEN Return(rest)
      ELSE IF read.claim = None
      THEN Return(AddAll("claims", ClaimsFor(read)) \o rest)
      ELSE IF claims[read.claim] # None
      THEN Return(AddAll("claims", {read.claim}) \o rest)
      ELSE IF read.policy = "Delete" THEN SetVolume("Deleted", v, None, rest)
      ELSE SetVolume("Updated", v, ToReleased(read), rest)

\* Mutant: a claim does not hear of its pods.
HandlePodNot(c, rest) == Return(rest) /\ UNCHANGED queue

\* A claim that waits for its first consumer is looked at again.
HandlePod(c, rest) ==
  IF claims[c] # None /\ Waits(claims[c].class)
  THEN Enqueue("claims", c, rest)
  ELSE Return(rest) /\ UNCHANGED queue

HandleBinding(event, rest) ==
  \/ /\ event.kind = "Volume" /\ event.op # "Deleted"
     /\ Enqueue("volumes", event.name,
                <<[op |-> "matching", volume |-> event.name]>> \o rest)
     /\ UNCHANGED boundTo
  \/ /\ event.kind = "Volume" /\ event.op = "Deleted"
     /\ IF event.ref = None THEN Return(rest) /\ UNCHANGED queue
        ELSE Enqueue("claims", event.ref, rest)
     /\ UNCHANGED boundTo
  \/ /\ event.kind = "Claim" /\ event.op # "Deleted"
     /\ Enqueue("claims", event.name, rest)
     /\ UNCHANGED boundTo
  \/ /\ event.kind = "Claim" /\ event.op = "Deleted"
     /\ Unbind(event.name)
     /\ IF event.ref = None THEN Return(rest) /\ UNCHANGED queue
        ELSE Enqueue("volumes", event.ref, rest)
  \/ /\ event.kind = "Pod"
     /\ HandlePod(event.ref, rest)
     /\ UNCHANGED boundTo

-------------------------------------------------------------------------------
(* PodVolumeController *)

\* syncPodVolumeReadiness
Readiness(p) ==
  LET claim == claims[pods[p].claim]
  IN  IF claim = None THEN "PersistentVolumeClaimNotFound"
      ELSE LET v == IF claim.volume # None THEN claim.volume
                    ELSE boundTo[pods[p].claim]
           IN  IF ~claim.bound \/ v = None THEN "PersistentVolumeClaimPending"
               ELSE IF volumes[v] = None THEN "PersistentVolumeNotFound"
               ELSE IF ~volumes[v].bound THEN "PersistentVolumeNotBound"
               ELSE "ready"

ReadinessNow == [p \in Pods |-> IF pods[p] = None THEN None ELSE Readiness(p)]

\* Mutant: only the pod's own events are heard.
HandlePodVolumeOwn(event) ==
  readiness' = IF event.kind = "Pod"
               THEN [readiness EXCEPT ![event.name] = ReadinessNow[event.name]]
               ELSE readiness

\* Its queue is drained at once, as its handler changes nothing else.
HandlePodVolume(event) ==
  readiness' = IF event.kind = "Pod"
               THEN [readiness EXCEPT ![event.name] = ReadinessNow[event.name]]
               ELSE [p \in Pods |-> IF pods[p] = None THEN readiness[p]
                                    ELSE Readiness(p)]

-------------------------------------------------------------------------------
(* The call stack *)

Idle == stack = << >>

DeliverStep(frame, rest) ==
  LET to == Subscribers(frame.event)
      after == IF frame.to = Len(to) THEN rest
               ELSE <<[frame EXCEPT !.to = @ + 1]>> \o rest
  IN  \/ /\ to[frame.to] = "Provisioning"
         /\ HandleProvisioning(frame.event, after)
         /\ UNCHANGED <<boundTo, readiness>>
      \/ /\ to[frame.to] = "Binding"
         /\ HandleBinding(frame.event, after)
         /\ UNCHANGED readiness
      \/ /\ to[frame.to] = "PodVolume"
         /\ HandlePodVolume(frame.event)
         /\ Return(after)
         /\ UNCHANGED <<boundTo, queue>>

Handle(q, key, rest) ==
  \/ q = "provisioning" /\ ReconcileProvisioning(key, rest) /\ UNCHANGED boundTo
  \/ q = "claims" /\ ReconcileClaim(key, rest)
  \/ q = "volumes" /\ ReconcileVolume(key, rest) /\ UNCHANGED boundTo

\* scheduleNext: a full batch leaves the rest to a callback.
ScheduleNext(q) == timer' = [timer EXCEPT ![q] = @ \/ queue[q] # << >>]

\* One turn of an immediate loop, or its end
LoopStep(frame, rest) ==
  LET q == frame.queue
  IN  IF queue[q] # << >> /\ frame.left > 0
      THEN /\ queue' = [queue EXCEPT ![q] = Tail(@)]
           /\ Handle(q, Head(queue[q]), <<Loop(q, frame.left - 1)>> \o rest)
           /\ UNCHANGED timer
      ELSE /\ ScheduleNext(q)
           /\ Return(rest)
           /\ UNCHANGED <<boundTo, queue>>

\* The end of processNext
AfterNext(frame, rest) ==
  Return(IF queue[frame.queue] = << >> \/ Draining(frame.queue, rest) THEN rest
         ELSE <<Loop(frame.queue, MaxBatch)>> \o rest)

AddAllStep(frame, rest) ==
  \E key \in frame.keys :
    Enqueue(frame.queue, key, AddAll(frame.queue, frame.keys \ {key}) \o rest)

Matching(frame, rest) ==
  Return(IF volumes[frame.volume] = None THEN rest
         ELSE AddAll("claims", ClaimsFor(volumes[frame.volume])) \o rest)

\* The innermost frame runs on.
Run ==
  /\ ~Idle
  /\ LET frame == Head(stack)
         rest == Tail(stack)
     IN  \/ /\ frame.op = "deliver" /\ DeliverStep(frame, rest)
            /\ UNCHANGED timer
         \/ /\ frame.op = "loop" /\ LoopStep(frame, rest)
            /\ UNCHANGED readiness
         \/ /\ frame.op = "next" /\ AfterNext(frame, rest)
            /\ UNCHANGED <<boundTo, readiness, queue, timer>>
         \/ /\ frame.op = "addAll" /\ AddAllStep(frame, rest)
            /\ UNCHANGED <<boundTo, readiness, timer>>
         \/ /\ frame.op = "matching" /\ Matching(frame, rest)
            /\ UNCHANGED <<boundTo, readiness, queue, timer>>
         \/ /\ frame.op = "provision" /\ Provision(frame.claim, frame.read, rest)
            /\ UNCHANGED <<boundTo, readiness, queue, timer>>
         \/ /\ frame.op = "bind" /\ BindStep(frame, rest)
            /\ UNCHANGED <<readiness, timer>>
  /\ UNCHANGED <<pods, classes, gone, edits>>

\* processNext of a queue: one key, outside of the immediate loop.
TimerFires(q) ==
  /\ Idle /\ timer[q]
  /\ timer' = [timer EXCEPT ![q] = FALSE]
  /\ IF queue[q] = << >>
     THEN Return(<< >>) /\ UNCHANGED <<queue, boundTo>>
     ELSE /\ queue' = [queue EXCEPT ![q] = Tail(@)]
          /\ Handle(q, Head(queue[q]), <<[op |-> "next", queue |-> q]>>)
  /\ UNCHANGED <<pods, classes, gone, readiness, edits>>

-------------------------------------------------------------------------------
(* Users, the scheduler and the kubelet *)

Edit == Idle /\ edits < MaxEdits /\ edits' = edits + 1
Untouched == <<gone, boundTo, readiness, queue, timer>>

CreateVolume(v, spec) ==
  /\ Edit /\ volumes[v] = None
  /\ SetVolume("Created", v, NewVolume(spec), << >>)
  /\ UNCHANGED <<pods, classes, Untouched>>

DeleteVolume(v) ==
  /\ Edit /\ volumes[v] # None
  /\ SetVolume("Deleted", v, None, << >>)
  /\ UNCHANGED <<pods, classes, Untouched>>

\* A claim that names its volume starts out as Bound; one without a class is
\* given the default.
CreateClaim(c, spec, v) ==
  /\ Edit /\ claims[c] = None
  /\ SetClaim("Created", c,
       [class |-> IF spec.class = None /\ DefaultClass \in classes
                  THEN DefaultClass ELSE spec.class,
        size |-> spec.size, volume |-> v, bound |-> v # None], << >>)
  /\ UNCHANGED <<pods, classes, Untouched>>

DeleteClaim(c) ==
  /\ Edit /\ claims[c] # None
  /\ SetClaim("Deleted", c, None, << >>)
  /\ UNCHANGED <<pods, classes, Untouched>>

SetPod(op, p, new) ==
  /\ pods' = [pods EXCEPT ![p] = new]
  /\ Deliver(Event("Pod", op, p, IF new = None THEN pods[p].claim ELSE new.claim),
             << >>)
  /\ UNCHANGED <<store, classes, Untouched>>

CreatePod(p, c) ==
  /\ Edit /\ pods[p] = None
  /\ SetPod("Created", p, [claim |-> c, scheduled |-> FALSE, terminating |-> FALSE])

Schedule(p) ==
  /\ Idle /\ pods[p] # None /\ ~pods[p].scheduled
  /\ SetPod("Updated", p, [pods[p] EXCEPT !.scheduled = TRUE])
  /\ UNCHANGED edits

TerminatePod(p) ==
  /\ Edit /\ pods[p] # None /\ ~pods[p].terminating
  /\ SetPod("Updated", p, [pods[p] EXCEPT !.terminating = TRUE])

RemovePod(p) ==
  /\ Idle /\ pods[p] # None /\ pods[p].terminating
  /\ SetPod("Deleted", p, None)
  /\ UNCHANGED edits

CreateClass(s) ==
  /\ Edit /\ s \notin classes
  /\ classes' = classes \cup {s}
  /\ Deliver(Event("StorageClass", "Created", s, None), << >>)
  /\ UNCHANGED <<store, pods, Untouched>>

DeleteClass(s) ==
  /\ Edit /\ s \in classes
  /\ classes' = classes \ {s}
  /\ gone' = gone \cup {s}
  /\ Deliver(Event("StorageClass", "Deleted", s, None), << >>)
  /\ UNCHANGED <<store, pods, boundTo, readiness, queue, timer>>

-------------------------------------------------------------------------------

Init ==
  /\ claims = [c \in Claims |-> None]
  /\ volumes = [v \in Names |-> None]
  /\ pods = [p \in Pods |-> None]
  /\ classes = DOMAIN StorageClasses
  /\ gone = {}
  /\ boundTo = [c \in Claims |-> None]
  /\ readiness = [p \in Pods |-> None]
  /\ queue = [q \in Queues |-> << >>]
  /\ timer = [q \in Queues |-> FALSE]
  /\ stack = << >>
  /\ edits = 0

Next ==
  \/ Run
  \/ \E q \in Queues : TimerFires(q)
  \/ \E v \in Statics, spec \in VolumeSpecs : CreateVolume(v, spec)
  \/ \E v \in Names : DeleteVolume(v)
  \/ \E c \in Claims, spec \in ClaimSpecs, v \in Names \cup {None} :
       CreateClaim(c, spec, v)
  \/ \E c \in Claims : DeleteClaim(c)
  \/ \E p \in Pods :
       \/ \E c \in Claims : CreatePod(p, c)
       \/ Schedule(p)
       \/ TerminatePod(p)
       \/ RemovePod(p)
  \/ \E s \in DOMAIN StorageClasses : CreateClass(s) \/ DeleteClass(s)

Spec == Init /\ [][Next]_vars

Fairness == WF_vars(Run) /\ \A q \in Queues : SF_vars(TimerFires(q))

FairSpec == Spec /\ Fairness

-------------------------------------------------------------------------------
(* Properties *)

Keys == [q \in Queues |-> IF q = "volumes" THEN Names ELSE Claims]

\* Every object is of its kind, a volume is Bound only when it names a claim,
\* and a queue holds keys of its own kind, none twice.
TypeOK ==
  /\ \A c \in Claims : claims[c] \in ClaimValues \cup {None}
  /\ \A v \in Names : volumes[v] # None =>
       volumes[v] \in VolumeValues /\ (volumes[v].bound => volumes[v].claim # None)
  /\ \A p \in Pods : pods[p] \in PodValues \cup {None}
  /\ classes \cup gone \subseteq DOMAIN StorageClasses
  /\ boundTo \in [Claims -> Names \cup {None}]
  /\ \A q \in Queues : IsInjective(queue[q]) /\ Range(queue[q]) \subseteq Keys[q]
  /\ timer \in [Queues -> BOOLEAN]
  /\ edits \in 0..MaxEdits

\* Between calls both sides of a binding agree, a volume has one claim and a
\* claim one volume, and VolumeState knows it.  A volume that is not Bound may
\* still name its last claim if it is to be retained.
BindingsAgree ==
  Idle =>
    /\ \A c \in Claims :
         /\ claims[c] # None /\ claims[c].volume # None =>
              /\ claims[c].bound
              /\ Exists(volumes, claims[c].volume)
              /\ volumes[claims[c].volume].claim = c
         /\ boundTo[c] = IF claims[c] = None THEN None ELSE claims[c].volume
    /\ \A v \in Names :
         /\ volumes[v] # None /\ volumes[v].claim # None
         /\ volumes[v].bound \/ volumes[v].policy = "Delete"
         => /\ Exists(claims, volumes[v].claim)
            /\ claims[volumes[v].claim].volume = v

\* No claim that may be bound is left pending beside a volume that fits, and
\* none whose class provisions, unless the name of its volume is taken.  Only
\* provisioning hears of StorageClasses, so that claims of a class that was
\* deleted, for all of its comings back, may wait on.
NoClaimLeftBehind ==
  Idle =>
    \A c \in PendingClaims :
      \/ Held(c, claims[c])
      \/ claims[c].class \in gone
      \/ /\ Candidates(claims[c]) = {}
         /\ claims[c].class \in classes => volumes[DynamicName[c]] # None

\* Between calls a pod's readiness is that of its claim and its volume.
ReadinessFresh == Idle => readiness = ReadinessNow

\* A claim that is bound and its volume stay with each other as long as both are
\* there.
BindingIsStable ==
  [][\A c \in Claims :
       LET v == claims[c].volume
       IN  /\ claims[c] # None /\ claims[c].bound
           /\ Exists(volumes, v) /\ volumes[v].claim = c
           /\ claims'[c] # None /\ volumes'[v] # None
           => /\ claims'[c].volume = v /\ claims'[c].bound
              /\ volumes'[v].claim = c]_vars

\* The controllers come to rest.
ComesToRest == []<>(Idle /\ \A q \in Queues : queue[q] = << >>)

===============================================================================
