----------------------------- MODULE Volumes_proofs -----------------------------
(***************************************************************************)
(* Theorems about Volumes.  ReadinessFresh speaks of moments between       *)
(* calls; inside them a pod's readiness may lag behind its claim and its   *)
(* volume, but then the event that will have it computed again is still    *)
(* being delivered (Told): the pod volume controller subscribes last, so   *)
(* no delivery leaves the stack before it.                                 *)
(*                                                                         *)
(* BindingsAgree follows from BInv and Room, NoClaimLeftBehind from        *)
(* NoneLeft (VolumesInvariants).                                           *)
(***************************************************************************)
EXTENDS VolumesInvariants, TLAPS, FiniteSetTheorems

-------------------------------------------------------------------------------
(* Objects *)

LEMMA ClaimTypes ==
  ASSUME NEW read \in Claimed
  PROVE  /\ read.volume \in Names \cup {None}
         /\ ToPending(read) \in Claimed
         /\ \A v \in Names : ToBoundClaim(read, v) \in Claimed
         /\ [read EXCEPT !.class = DefaultClass] \in Claimed
<1>1. DefaultClass \in ClassNames
  BY ClassesAssumption DEF ClassNames
<1>2. read \in ClaimValues /\ (read.bound <=> read.volume # None)
  BY DEF Claimed
<1> HIDE DEF ClassNames, Sizes, Names
<1>3. ToPending(read) \in Claimed
  BY <1>2 DEF ToPending, Claimed, ClaimValues
<1>4. ASSUME NEW v \in Names PROVE ToBoundClaim(read, v) \in Claimed
  BY <1>2, NoneAssumption DEF ToBoundClaim, Claimed, ClaimValues
<1>5. [read EXCEPT !.class = DefaultClass] \in Claimed
  BY <1>1, <1>2 DEF Claimed, ClaimValues
<1> QED
  BY <1>2, <1>3, <1>4, <1>5 DEF ClaimValues

LEMMA VolumeTypes ==
  ASSUME NEW read \in Backed
  PROVE  /\ read.claim \in Claims \cup {None}
         /\ ToReleased(read) \in Backed
         /\ \A c \in Claims : ToBoundVolume(read, c) \in Backed
<1>1. read \in VolumeValues /\ (read.bound <=> read.claim # None)
  BY DEF Backed
<1> HIDE DEF ClassNames, Sizes
<1>2. ToReleased(read) \in Backed
  BY <1>1 DEF ToReleased, Backed, VolumeValues
<1>3. ASSUME NEW c \in Claims PROVE ToBoundVolume(read, c) \in Backed
  BY <1>1, NoneAssumption DEF ToBoundVolume, Backed, VolumeValues
<1> QED
  BY <1>1, <1>2, <1>3 DEF VolumeValues

\* New volumes, made by users or for a claim
LEMMA NewVolumeTypes ==
  /\ \A spec \in VolumeSpecs : NewVolume(spec) \in Backed
  /\ \A read \in Claimed :
       read.class \in classes /\ classes \subseteq DOMAIN StorageClasses =>
         DynamicVolume(read) \in Backed
<1>1. ASSUME NEW spec \in VolumeSpecs PROVE NewVolume(spec) \in Backed
  <2>1. spec.class \in ClassNames /\ spec.size \in Sizes /\ spec.policy \in {"Retain", "Delete"}
    BY SpecsAssumption DEF ClassNames, Sizes
  <2> HIDE DEF ClassNames, Sizes
  <2> QED
    BY <2>1 DEF NewVolume, Backed, VolumeValues
<1>2. ASSUME NEW read \in Claimed, read.class \in classes, classes \subseteq DOMAIN StorageClasses
      PROVE  DynamicVolume(read) \in Backed
  <2>1. /\ read.class \in ClassNames /\ read.size \in Sizes
        /\ StorageClasses[read.class].policy \in {"Retain", "Delete"}
    <3>1. read.class \in DOMAIN StorageClasses
      BY <1>2
    <3>2. read.class \in ClassNames
      BY <3>1 DEF ClassNames
    <3>3. read.size \in Sizes
      BY DEF Claimed, ClaimValues
    <3>4. StorageClasses[read.class] \in [waits : BOOLEAN, policy : {"Retain", "Delete"}]
      BY <3>1, ClassesAssumption
    <3> QED
      BY <3>2, <3>3, <3>4
  <2> HIDE DEF ClassNames, Sizes
  <2> QED
    BY <2>1 DEF DynamicVolume, NewVolume, Backed, VolumeValues
<1> QED
  BY <1>1, <1>2

-------------------------------------------------------------------------------
(* Stacks *)

\* What is put on a stack leaves the rest of it where it is.
LEMMA Prepend ==
  ASSUME NEW new \in Seq(Frames), NEW rest \in Seq(Frames)
  PROVE  /\ new \o rest \in Seq(Frames)
         /\ \A event : Delivering(event, new) \/ Delivering(event, rest)
                         => Delivering(event, new \o rest)
<1> DEFINE frames == new \o rest
<1>1. /\ frames \in Seq(Frames) /\ Len(frames) = Len(new) + Len(rest)
      /\ \A i \in 1..Len(new) : frames[i] = new[i]
      /\ \A i \in 1..Len(rest) : frames[i + Len(new)] = rest[i]
  OBVIOUS
<1>2. /\ Len(new) \in Nat /\ Len(rest) \in Nat
      /\ DOMAIN new = 1..Len(new) /\ DOMAIN rest = 1..Len(rest)
  OBVIOUS
<1>3. DOMAIN frames = 1..Len(frames)
  BY <1>1
<1> HIDE DEF frames
<1>4. ASSUME NEW event, Delivering(event, new) PROVE Delivering(event, frames)
  BY <1>1, <1>2, <1>3, <1>4 DEF Delivering
<1>5. ASSUME NEW event, Delivering(event, rest) PROVE Delivering(event, frames)
  <2>1. PICK i \in 1..Len(rest) : rest[i].op = "deliver" /\ rest[i].event = event
    BY <1>2, <1>5 DEF Delivering
  <2>2. i + Len(new) \in DOMAIN frames /\ frames[i + Len(new)] = rest[i]
    BY <1>1, <1>2, <1>3
  <2> QED
    BY <2>1, <2>2 DEF Delivering
<1> QED
  BY <1>1, <1>4, <1>5 DEF frames

\* The same of one frame
LEMMA Push ==
  ASSUME NEW frame \in Frames, NEW rest \in Seq(Frames)
  PROVE  /\ <<frame>> \o rest \in Seq(Frames)
         /\ \A event : Delivering(event, rest) => Delivering(event, <<frame>> \o rest)
         /\ frame.op = "deliver" => Delivering(frame.event, <<frame>> \o rest)
<1>1. <<frame>> \in Seq(Frames)
  OBVIOUS
<1>2. frame.op = "deliver" => Delivering(frame.event, <<frame>>)
  <2>1. 1 \in DOMAIN <<frame>> /\ <<frame>>[1] = frame
    OBVIOUS
  <2> QED
    BY <2>1 DEF Delivering
<1> QED
  BY <1>1, <1>2, Prepend

\* Only the head's event is no longer delivered when it leaves.
LEMMA Pop ==
  ASSUME NEW frames \in Seq(Frames), frames # << >>
  PROVE  /\ Head(frames) \in Frames /\ Tail(frames) \in Seq(Frames)
         /\ \A event : Delivering(event, frames) =>
              \/ Delivering(event, Tail(frames))
              \/ Head(frames).op = "deliver" /\ Head(frames).event = event
<1>1. Head(frames) \in Frames /\ Tail(frames) \in Seq(Frames) /\ Head(frames) = frames[1]
  OBVIOUS
<1>2. ASSUME NEW event, Delivering(event, frames), ~Delivering(event, Tail(frames))
      PROVE  Head(frames).op = "deliver" /\ Head(frames).event = event
  <2>1. PICK i \in DOMAIN frames : frames[i].op = "deliver" /\ frames[i].event = event
    BY <1>2 DEF Delivering
  <2>2. CASE i = 1
    BY <1>1, <2>1, <2>2
  <2>3. CASE i # 1
    <3>1. i - 1 \in DOMAIN Tail(frames) /\ Tail(frames)[i - 1] = frames[i]
      BY <2>3
    <3> QED
      BY <1>2, <2>1, <3>1 DEF Delivering
  <2> QED
    BY <2>2, <2>3
<1> QED
  BY <1>1, <1>2

\* What a frame is, by its operation
LEMMA FrameKinds ==
  ASSUME NEW frame \in Frames
  PROVE  /\ frame.op = "deliver" => frame \in DeliverFrames
         /\ frame.op = "loop" => frame \in LoopFrames
         /\ frame.op = "next" => frame \in NextFrames
         /\ frame.op = "addAll" => frame \in AddAllFrames
         /\ frame.op = "matching" => frame \in MatchingFrames
         /\ frame.op = "provision" => frame \in ProvisionFrames
         /\ frame.op = "bind" => frame \in BindFrames
BY DEF Frames, DeliverFrames, LoopFrames, NextFrames, AddAllFrames, MatchingFrames,
       ProvisionFrames, BindFrames

-------------------------------------------------------------------------------
(* Code above a stack: writes, deliveries and queues *)

LEMMA Returns ==
  ASSUME StoreType, NEW rest \in Seq(Frames), Return(rest)
  PROVE  Keeps(rest)
BY DEF Return, Keeps, StoreType, store

\* Frames between the new ones and rest do not matter.
LEMMA Through ==
  ASSUME NEW new \in Seq(Frames), NEW rest \in Seq(Frames), Keeps(new \o rest)
  PROVE  Keeps(rest)
BY Prepend DEF Keeps

LEMMA ThroughOne ==
  ASSUME NEW frame \in Frames, NEW rest \in Seq(Frames), Keeps(<<frame>> \o rest)
  PROVE  Keeps(rest)
BY Push DEF Keeps

LEMMA EventFrames ==
  ASSUME NEW event \in ClaimEvents \cup VolumeEvents \cup PodEvents \cup ClassEvents
  PROVE  [op |-> "deliver", event |-> event, to |-> 1] \in Frames
BY DEF Frames, DeliverFrames

\* The event is delivered, before anything in rest goes on.
LEMMA Delivers ==
  ASSUME NEW event \in ClaimEvents \cup VolumeEvents \cup PodEvents \cup ClassEvents,
         NEW rest \in Seq(Frames), Deliver(event, rest)
  PROVE  /\ stack' \in Seq(Frames) /\ Delivering(event, stack')
         /\ \A e : Delivering(e, rest) => Delivering(e, stack')
<1> DEFINE frame == [op |-> "deliver", event |-> event, to |-> 1]
<1>1. frame \in Frames /\ frame.op = "deliver" /\ frame.event = event
  BY EventFrames
<1>2. stack' = <<frame>> \o rest
  BY DEF Deliver
<1> HIDE DEF frame
<1> QED
  BY <1>1, <1>2, Push

LEMMA ClaimWrites ==
  ASSUME StoreType, NEW rest \in Seq(Frames), NEW c \in Claims, NEW op \in Ops, NEW new,
         IF op = "Deleted" THEN new = None ELSE new \in Claimed,
         SetClaim(op, c, new, rest)
  PROVE  Keeps(rest)
<1>1. CASE op # "Created" /\ claims[c] = None
  BY <1>1, Returns DEF SetClaim
<1>2. CASE ~(op # "Created" /\ claims[c] = None)
  <2> DEFINE ref == IF op = "Deleted" THEN claims[c].volume ELSE new.volume
             event == Event("Claim", op, c, ref)
  <2>1. claims' = [claims EXCEPT ![c] = new] /\ Deliver(event, rest) /\ UNCHANGED volumes
    BY <1>2 DEF SetClaim
  <2>2. ref \in Names \cup {None}
    <3>1. CASE op = "Deleted"
      BY <1>2, <3>1, ClaimTypes DEF StoreType
    <3>2. CASE op # "Deleted"
      BY <3>2, ClaimTypes
    <3> QED
      BY <3>1, <3>2
  <2>3. event \in ClaimEvents /\ event.kind = "Claim"
    BY <2>2 DEF Event, ClaimEvents
  <2> HIDE DEF event, ref
  <2>4. /\ stack' \in Seq(Frames) /\ Delivering(event, stack')
        /\ \A e : Delivering(e, rest) => Delivering(e, stack')
    BY <2>1, <2>3, Delivers
  <2>5. StoreType'
    BY <2>1 DEF StoreType
  <2> QED
    BY <2>3, <2>4, <2>5 DEF Keeps
<1> QED
  BY <1>1, <1>2

LEMMA VolumeWrites ==
  ASSUME StoreType, NEW rest \in Seq(Frames), NEW v \in Names, NEW op \in Ops, NEW new,
         IF op = "Deleted" THEN new = None ELSE new \in Backed,
         SetVolume(op, v, new, rest)
  PROVE  Keeps(rest)
<1>1. CASE op # "Created" /\ volumes[v] = None
  BY <1>1, Returns DEF SetVolume
<1>2. CASE ~(op # "Created" /\ volumes[v] = None)
  <2> DEFINE ref == IF op = "Deleted" THEN volumes[v].claim ELSE new.claim
             event == Event("Volume", op, v, ref)
  <2>1. volumes' = [volumes EXCEPT ![v] = new] /\ Deliver(event, rest) /\ UNCHANGED claims
    BY <1>2 DEF SetVolume
  <2>2. ref \in Claims \cup {None}
    <3>1. CASE op = "Deleted"
      BY <1>2, <3>1, VolumeTypes DEF StoreType
    <3>2. CASE op # "Deleted"
      BY <3>2, VolumeTypes
    <3> QED
      BY <3>1, <3>2
  <2>3. event \in VolumeEvents /\ event.kind = "Volume"
    BY <2>2 DEF Event, VolumeEvents
  <2> HIDE DEF event, ref
  <2>4. /\ stack' \in Seq(Frames) /\ Delivering(event, stack')
        /\ \A e : Delivering(e, rest) => Delivering(e, stack')
    BY <2>1, <2>3, Delivers
  <2>5. StoreType'
    BY <2>1 DEF StoreType
  <2> QED
    BY <2>3, <2>4, <2>5 DEF Keeps
<1> QED
  BY <1>1, <1>2

LEMMA KeysOf ==
  /\ Keys["claims"] = Claims /\ Keys["provisioning"] = Claims /\ Keys["volumes"] = Names
  /\ "claims" \in Queues /\ "provisioning" \in Queues /\ "volumes" \in Queues
BY DEF Keys, Queues

LEMMA LoopTypes ==
  ASSUME NEW q \in Queues, NEW n \in Nat
  PROVE  Loop(q, n) \in Frames
BY DEF Loop, Frames, LoopFrames

LEMMA AddAllTypes ==
  ASSUME NEW q \in {"provisioning", "claims"}, NEW keys \in SUBSET Claims
  PROVE  AddAll(q, keys) \in Seq(Frames)
<1>1. [op |-> "addAll", queue |-> q, keys |-> keys] \in Frames
  BY DEF Frames, AddAllFrames
<1> QED
  BY <1>1 DEF AddAll

LEMMA AppendIs ==
  ASSUME NEW S, NEW list \in Seq(S), NEW e \in S
  PROVE  /\ Append(list, e) \in Seq(S) /\ Len(list) \in Nat
         /\ DOMAIN Append(list, e) = 1..(Len(list) + 1)
         /\ Append(list, e)[Len(list) + 1] = e
         /\ \A i \in 1..Len(list) : Append(list, e)[i] = list[i]
OBVIOUS

LEMMA TailIs ==
  ASSUME NEW S, NEW list \in Seq(S), list # << >>
  PROVE  /\ Tail(list) \in Seq(S) /\ Head(list) \in S
         /\ \A i \in DOMAIN Tail(list) :
              i \in Nat /\ i + 1 \in DOMAIN list /\ Tail(list)[i] = list[i + 1]
OBVIOUS

LEMMA RangeIs ==
  ASSUME NEW S, NEW list \in Seq(S)
  PROVE  Range(list) \subseteq S
BY DEF Range

\* A key is added once, and its queue's loop runs before rest goes on.
LEMMA Enqueues ==
  ASSUME StoreType, QueueType, NEW q \in Queues, NEW key \in Keys[q],
         NEW rest \in Seq(Frames), Enqueue(q, key, rest)
  PROVE  Keeps(rest) /\ QueueType'
<1>1. QueueType'
  <2>1. CASE Contains(queue[q], key)
    BY <2>1 DEF Enqueue, Added, QueueType
  <2>2. CASE ~Contains(queue[q], key)
    <3>1. queue' = [queue EXCEPT ![q] = Append(queue[q], key)]
      BY <2>2 DEF Enqueue, Added
    <3>2. queue[q] \in Seq(Keys[q]) /\ IsInjective(queue[q])
      BY DEF QueueType
    <3>3. Append(queue[q], key) \in Seq(Keys[q])
      BY <3>2, AppendIs
    <3>4. IsInjective(Append(queue[q], key))
      <4> DEFINE longer == Append(queue[q], key)
      <4>1. /\ DOMAIN longer = 1..(Len(queue[q]) + 1) /\ Len(queue[q]) \in Nat
            /\ longer[Len(queue[q]) + 1] = key
            /\ \A i \in 1..Len(queue[q]) : longer[i] = queue[q][i]
        BY <3>2, AppendIs
      <4>2. \A i \in 1..Len(queue[q]) : queue[q][i] # key
        BY <2>2 DEF Contains
      <4>3. \A i, j \in 1..Len(queue[q]) : queue[q][i] = queue[q][j] => i = j
        BY <3>2 DEF IsInjective
      <4> HIDE DEF longer
      <4>4. ASSUME NEW i \in DOMAIN longer, NEW j \in DOMAIN longer, longer[i] = longer[j]
            PROVE  i = j
        <5>1. CASE i \in 1..Len(queue[q]) /\ j \in 1..Len(queue[q])
          BY <4>1, <4>3, <4>4, <5>1
        <5>2. CASE ~(i \in 1..Len(queue[q]) /\ j \in 1..Len(queue[q]))
          BY <4>1, <4>2, <4>4, <5>2
        <5> QED
          BY <5>1, <5>2
      <4> QED
        BY <4>4 DEF IsInjective, longer
    <3> QED
      BY <3>1, <3>3, <3>4 DEF QueueType
  <2> QED
    BY <2>1, <2>2
<1>2. Keeps(rest)
  <2>1. CASE Draining(q, rest)
    <3>1. Return(rest)
      BY <2>1 DEF Enqueue
    <3> QED
      BY <3>1, Returns
  <2>2. CASE ~Draining(q, rest)
    <3>1. Return(<<Loop(q, MaxBatch)>> \o rest)
      BY <2>2 DEF Enqueue
    <3>2. Loop(q, MaxBatch) \in Frames
      BY LoopTypes, BoundsAssumption
    <3>3. <<Loop(q, MaxBatch)>> \o rest \in Seq(Frames)
      BY <3>2, Push
    <3> QED
      BY <3>1, <3>2, <3>3, Returns, ThroughOne
  <2> QED
    BY <2>1, <2>2
<1> QED
  BY <1>1, <1>2

\* The first key of a queue is taken from it.
LEMMA Takes ==
  ASSUME QueueType, NEW q \in Queues, queue[q] # << >>,
         queue' = [queue EXCEPT ![q] = Tail(queue[q])]
  PROVE  QueueType' /\ Head(queue[q]) \in Keys[q]
<1>1. queue[q] \in Seq(Keys[q]) /\ IsInjective(queue[q])
  BY DEF QueueType
<1>2. Tail(queue[q]) \in Seq(Keys[q]) /\ Head(queue[q]) \in Keys[q]
  BY <1>1, TailIs
<1>3. IsInjective(Tail(queue[q]))
  <2> DEFINE shorter == Tail(queue[q])
  <2>1. /\ \A i \in DOMAIN shorter : i + 1 \in DOMAIN queue[q] /\ shorter[i] = queue[q][i + 1]
        /\ \A i \in DOMAIN shorter : i \in Nat
    BY <1>1, TailIs
  <2> HIDE DEF shorter
  <2>2. ASSUME NEW i \in DOMAIN shorter, NEW j \in DOMAIN shorter, shorter[i] = shorter[j]
        PROVE  i = j
    <3>1. i + 1 = j + 1
      BY <1>1, <2>1, <2>2 DEF IsInjective
    <3> QED
      BY <2>1, <3>1
  <2> QED
    BY <2>2 DEF IsInjective, shorter
<1> QED
  BY <1>2, <1>3 DEF QueueType

-------------------------------------------------------------------------------
(* The reconcilers *)

BoundType == boundTo \in [Claims -> Names \cup {None}]

LEMMA Unbinds ==
  ASSUME BoundType, NEW c \in Claims, Unbind(c)
  PROVE  BoundType'
BY DEF BoundType, Unbind

LEMMA Provisions ==
  ASSUME StoreType, classes \subseteq DOMAIN StorageClasses,
         NEW c \in Claims, NEW read \in Claimed, NEW rest \in Seq(Frames), Provision(c, read, rest)
  PROVE  Keeps(rest)
<1>1. CASE Return(rest)
  BY <1>1, Returns
<1>2. CASE ~Return(rest)
  <2>1. read.class \in classes /\ SetVolume("Created", DynamicName[c], DynamicVolume(read), rest)
    BY <1>2 DEF Provision
  <2>2. DynamicVolume(read) \in Backed /\ DynamicName[c] \in Names /\ "Created" \in Ops
    BY <2>1, NewVolumeTypes DEF Names, Ops
  <2> QED
    BY <2>1, <2>2, VolumeWrites
<1> QED
  BY <1>1, <1>2

LEMMA ReconcilesProvisioning ==
  ASSUME StoreType, NEW c \in Claims, NEW rest \in Seq(Frames), ReconcileProvisioning(c, rest)
  PROVE  Keeps(rest)
<1> DEFINE frame(r) == [op |-> "provision", claim |-> c, read |-> r]
<1>1. \A r \in Claimed : frame(r) \in Frames
  BY DEF Frames, ProvisionFrames
<1> DEFINE new == [claims[c] EXCEPT !.class = DefaultClass]
<1>2. CASE Return(rest)
  BY <1>2, Returns
<1>3. CASE ~Return(rest) /\ Return(<<frame(claims[c])>> \o rest)
  <2>1. claims[c] # None
    BY <1>3 DEF ReconcileProvisioning
  <2>2. frame(claims[c]) \in Frames
    BY <1>1, <2>1 DEF StoreType
  <2> HIDE DEF frame
  <2>3. <<frame(claims[c])>> \o rest \in Seq(Frames)
    BY <2>2, Push
  <2> QED
    BY <1>3, <2>2, <2>3, Returns, ThroughOne
<1>4. CASE ~Return(rest) /\ ~Return(<<frame(claims[c])>> \o rest)
  <2>1. claims[c] # None /\ SetClaim("Updated", c, new, <<frame(new)>> \o rest)
    BY <1>4 DEF ReconcileProvisioning
  <2>2. new \in Claimed /\ frame(new) \in Frames /\ "Updated" \in Ops
    <3>1. claims[c] \in Claimed
      BY <2>1 DEF StoreType
    <3>2. new \in Claimed
      BY <3>1, ClaimTypes
    <3> QED
      BY <1>1, <3>2 DEF Ops
  <2> HIDE DEF frame, new
  <2>3. <<frame(new)>> \o rest \in Seq(Frames)
    BY <2>2, Push
  <2>4. Keeps(<<frame(new)>> \o rest)
    BY <2>1, <2>2, <2>3, ClaimWrites
  <2> QED
    BY <2>2, <2>4, ThroughOne
<1> QED
  BY <1>2, <1>3, <1>4

LEMMA GoesPending ==
  ASSUME StoreType, BoundType, NEW c \in Claims, NEW read \in Claimed, NEW rest \in Seq(Frames),
         GoPending(c, read, rest)
  PROVE  Keeps(rest) /\ BoundType'
<1>1. ToPending(read) \in Claimed /\ "Updated" \in Ops
  BY ClaimTypes DEF Ops
<1>2. Unbind(c) /\ SetClaim("Updated", c, ToPending(read), rest)
  BY DEF GoPending
<1> QED
  BY <1>1, <1>2, ClaimWrites, Unbinds

LEMMA BindFrameTypes ==
  ASSUME NEW c \in Claims, NEW read \in Claimed, NEW v \in Names, NEW written \in BOOLEAN,
         NEW rest \in Seq(Frames)
  PROVE  /\ BindFrame(c, read, v, written) \in Frames
         /\ <<BindFrame(c, read, v, written)>> \o rest \in Seq(Frames)
<1>1. BindFrame(c, read, v, written) \in Frames
  BY DEF BindFrame, Frames, BindFrames
<1> QED
  BY <1>1, Push

LEMMA SyncsBound ==
  ASSUME StoreType, BoundType, NEW c \in Claims, NEW read \in Claimed, read.volume # None,
         NEW rest \in Seq(Frames), SyncBound(c, read, rest)
  PROVE  Keeps(rest) /\ BoundType'
<1> DEFINE v == read.volume
           frame == BindFrame(c, read, v, read.bound)
           bind == <<frame>> \o rest
<1>1. v \in Names /\ read.bound \in BOOLEAN
  BY ClaimTypes DEF Claimed, ClaimValues
<1>2. frame \in Frames /\ bind \in Seq(Frames)
  BY <1>1, BindFrameTypes
<1>3. \/ GoPending(c, read, rest)
      \/ UNCHANGED boundTo /\ Return(bind)
      \/ /\ UNCHANGED boundTo /\ volumes[v] # None
         /\ SetVolume("Updated", v, ToBoundVolume(volumes[v], c), bind)
  BY DEF SyncBound
<1>4. CASE UNCHANGED boundTo /\ Return(bind)
  <2>1. Keeps(bind)
    <3> HIDE DEF bind
    <3> QED
      BY <1>2, <1>4, Returns
  <2> HIDE DEF frame
  <2> QED
    BY <1>2, <1>4, <2>1, ThroughOne DEF BoundType
<1>5. CASE /\ UNCHANGED boundTo /\ volumes[v] # None
           /\ SetVolume("Updated", v, ToBoundVolume(volumes[v], c), bind)
  <2>1. ToBoundVolume(volumes[v], c) \in Backed /\ "Updated" \in Ops
    BY <1>1, <1>5, VolumeTypes DEF StoreType, Ops
  <2>2. Keeps(bind)
    <3> HIDE DEF bind, v
    <3> QED
      BY <1>1, <1>2, <1>5, <2>1, VolumeWrites
  <2> HIDE DEF frame
  <2> QED
    BY <1>2, <1>5, <2>2, ThroughOne DEF BoundType
<1> HIDE DEF bind, v
<1> QED
  BY <1>3, <1>4, <1>5, GoesPending

LEMMA SyncsUnbound ==
  ASSUME StoreType, BoundType, NEW c \in Claims, NEW read \in Claimed, NEW rest \in Seq(Frames),
         SyncUnbound(c, read, rest)
  PROVE  Keeps(rest) /\ BoundType'
<1>1. \/ GoPending(c, read, rest)
      \/ Unbind(c) /\ Return(rest)
      \/ /\ UNCHANGED boundTo
         /\ \E v \in Candidates(read) :
              SetVolume("Updated", v, ToBoundVolume(volumes[v], c),
                        <<BindFrame(c, read, v, FALSE)>> \o rest)
  BY DEF SyncUnbound
<1>2. ASSUME NEW v \in Candidates(read), UNCHANGED boundTo,
             SetVolume("Updated", v, ToBoundVolume(volumes[v], c),
                       <<BindFrame(c, read, v, FALSE)>> \o rest)
      PROVE  Keeps(rest) /\ BoundType'
  <2> DEFINE frame == BindFrame(c, read, v, FALSE)
  <2>1. v \in Names /\ volumes[v] # None
    BY DEF Candidates, Fits
  <2>2. frame \in Frames /\ <<frame>> \o rest \in Seq(Frames)
    BY <2>1, BindFrameTypes
  <2>3. ToBoundVolume(volumes[v], c) \in Backed /\ "Updated" \in Ops
    BY <2>1, VolumeTypes DEF StoreType, Ops
  <2>4. Keeps(<<frame>> \o rest)
    BY <1>2, <2>1, <2>2, <2>3, VolumeWrites
  <2> HIDE DEF frame
  <2> QED
    BY <1>2, <2>2, <2>4, ThroughOne DEF BoundType
<1>3. CASE Unbind(c) /\ Return(rest)
  BY <1>3, Unbinds, Returns
<1> QED
  BY <1>1, <1>2, <1>3, GoesPending

LEMMA ReconcilesClaim ==
  ASSUME StoreType, BoundType, NEW c \in Claims, NEW rest \in Seq(Frames), ReconcileClaim(c, rest)
  PROVE  Keeps(rest) /\ BoundType'
<1>1. CASE claims[c] = None
  BY <1>1, Unbinds, Returns DEF ReconcileClaim
<1>2. CASE claims[c] # None
  <2>1. claims[c] \in Claimed
    BY <1>2 DEF StoreType
  <2> QED
    BY <1>2, <2>1, SyncsBound, SyncsUnbound DEF ReconcileClaim
<1> QED
  BY <1>1, <1>2

LEMMA ReturnsAddAll ==
  ASSUME StoreType, NEW q \in {"provisioning", "claims"}, NEW keys \in SUBSET Claims,
         NEW rest \in Seq(Frames), Return(AddAll(q, keys) \o rest)
  PROVE  Keeps(rest)
<1>1. AddAll(q, keys) \in Seq(Frames)
  BY AddAllTypes
<1>2. AddAll(q, keys) \o rest \in Seq(Frames)
  BY <1>1, Prepend
<1> QED
  BY <1>1, <1>2, Returns, Through

LEMMA ReconcilesVolume ==
  ASSUME StoreType, NEW v \in Names, NEW rest \in Seq(Frames), ReconcileVolume(v, rest)
  PROVE  Keeps(rest)
<1> DEFINE read == volumes[v]
<1>1. CASE read = None
  BY <1>1, Returns DEF ReconcileVolume
<1>2. CASE read # None
  <2>1. read \in Backed /\ "Updated" \in Ops /\ "Deleted" \in Ops
    BY <1>2 DEF StoreType, Ops
  <2>2. read.claim \in Claims \cup {None} /\ ToReleased(read) \in Backed
    BY <2>1, VolumeTypes
  <2>3. \/ Return(AddAll("claims", ClaimsFor(read)) \o rest)
        \/ read.claim # None /\ Return(AddAll("claims", {read.claim}) \o rest)
        \/ SetVolume("Deleted", v, None, rest)
        \/ SetVolume("Updated", v, ToReleased(read), rest)
    BY <1>2 DEF ReconcileVolume
  <2>4. ClaimsFor(read) \in SUBSET Claims
    BY DEF ClaimsFor, PendingClaims
  <2>5. CASE read.claim # None /\ Return(AddAll("claims", {read.claim}) \o rest)
    <3>1. {read.claim} \in SUBSET Claims
      BY <2>2, <2>5
    <3> QED
      BY <2>5, <3>1, ReturnsAddAll
  <2>6. CASE Return(AddAll("claims", ClaimsFor(read)) \o rest)
    BY <2>4, <2>6, ReturnsAddAll
  <2>7. CASE SetVolume("Deleted", v, None, rest)
    BY <2>1, <2>7, VolumeWrites
  <2>8. CASE SetVolume("Updated", v, ToReleased(read), rest)
    BY <2>1, <2>2, <2>8, VolumeWrites
  <2> QED
    BY <2>3, <2>5, <2>6, <2>7, <2>8
<1> QED
  BY <1>1, <1>2

-------------------------------------------------------------------------------
(* Deliveries *)

Events == ClaimEvents \cup VolumeEvents \cup PodEvents \cup ClassEvents

LEMMA EventKinds ==
  ASSUME NEW event \in Events
  PROVE  /\ event.kind = "Claim" => event \in ClaimEvents
         /\ event.kind = "Volume" => event \in VolumeEvents
         /\ event.kind = "Pod" => event \in PodEvents
         /\ event.kind = "StorageClass" => event \in ClassEvents
BY DEF Events, ClaimEvents, VolumeEvents, PodEvents, ClassEvents

LEMMA HandlesProvisioning ==
  ASSUME StoreType, QueueType, NEW event \in Events, NEW rest \in Seq(Frames),
         HandleProvisioning(event, rest)
  PROVE  Keeps(rest) /\ QueueType'
<1>1. QueueType'
  BY DEF HandleProvisioning, QueueType
<1>2. \/ Return(rest)
      \/ event.kind = "Claim" /\ Return(AddAll("provisioning", {event.name}) \o rest)
      \/ event.kind = "Pod" /\ Return(AddAll("provisioning", {event.ref}) \o rest)
      \/ Return(AddAll("provisioning", PendingClaims) \o rest)
  BY DEF HandleProvisioning
<1>3. /\ event.kind = "Claim" => {event.name} \in SUBSET Claims
      /\ event.kind = "Pod" => {event.ref} \in SUBSET Claims
      /\ PendingClaims \in SUBSET Claims
  BY EventKinds DEF ClaimEvents, PodEvents, PendingClaims
<1>4. \A keys \in SUBSET Claims : Return(AddAll("provisioning", keys) \o rest) => Keeps(rest)
  BY ReturnsAddAll
<1>5. Return(rest) => Keeps(rest)
  BY Returns
<1> QED
  BY <1>1, <1>2, <1>3, <1>4, <1>5

LEMMA HandlesPod ==
  ASSUME StoreType, QueueType, NEW c \in Claims, NEW rest \in Seq(Frames), HandlePod(c, rest)
  PROVE  Keeps(rest) /\ QueueType'
<1>1. CASE Enqueue("claims", c, rest)
  BY <1>1, Enqueues, KeysOf
<1>2. CASE Return(rest) /\ UNCHANGED queue
  BY <1>2, Returns DEF QueueType
<1> QED
  BY <1>1, <1>2 DEF HandlePod

LEMMA HandlesBinding ==
  ASSUME StoreType, QueueType, BoundType, NEW event \in Events, NEW rest \in Seq(Frames),
         HandleBinding(event, rest)
  PROVE  Keeps(rest) /\ QueueType' /\ BoundType'
<1>1. UNCHANGED boundTo => BoundType'
  BY DEF BoundType
<1>2. ASSUME Return(rest), UNCHANGED queue PROVE Keeps(rest) /\ QueueType'
  BY <1>2, Returns DEF QueueType
<1>3. CASE /\ event.kind = "Volume" /\ event.op # "Deleted"
           /\ Enqueue("volumes", event.name,
                      <<[op |-> "matching", volume |-> event.name]>> \o rest)
           /\ UNCHANGED boundTo
  <2> DEFINE frame == [op |-> "matching", volume |-> event.name]
  <2>1. event.name \in Names
    BY <1>3, EventKinds DEF VolumeEvents
  <2>2. frame \in Frames
    BY <2>1 DEF Frames, MatchingFrames
  <2> HIDE DEF frame
  <2>3. <<frame>> \o rest \in Seq(Frames)
    BY <2>2, Push
  <2>4. Enqueue("volumes", event.name, <<frame>> \o rest)
    BY <1>3 DEF frame
  <2>5. Keeps(<<frame>> \o rest) /\ QueueType'
    BY <2>1, <2>3, <2>4, Enqueues, KeysOf
  <2> QED
    BY <1>1, <1>3, <2>2, <2>5, ThroughOne
<1>4. CASE /\ event.kind = "Volume" /\ event.op = "Deleted"
           /\ IF event.ref = None THEN Return(rest) /\ UNCHANGED queue
              ELSE Enqueue("claims", event.ref, rest)
           /\ UNCHANGED boundTo
  <2>1. event.ref \in Claims \cup {None}
    BY <1>4, EventKinds DEF VolumeEvents
  <2> QED
    BY <1>1, <1>2, <1>4, <2>1, Enqueues, KeysOf
<1>5. CASE /\ event.kind = "Claim" /\ event.op # "Deleted"
           /\ Enqueue("claims", event.name, rest)
           /\ UNCHANGED boundTo
  <2>1. event.name \in Claims
    BY <1>5, EventKinds DEF ClaimEvents
  <2> QED
    BY <1>1, <1>5, <2>1, Enqueues, KeysOf
<1>6. CASE /\ event.kind = "Claim" /\ event.op = "Deleted"
           /\ Unbind(event.name)
           /\ IF event.ref = None THEN Return(rest) /\ UNCHANGED queue
              ELSE Enqueue("volumes", event.ref, rest)
  <2>1. event.name \in Claims /\ event.ref \in Names \cup {None}
    BY <1>6, EventKinds DEF ClaimEvents
  <2>2. BoundType'
    BY <1>6, <2>1, Unbinds
  <2> QED
    BY <1>2, <1>6, <2>1, <2>2, Enqueues, KeysOf
<1>7. CASE event.kind = "Pod" /\ HandlePod(event.ref, rest) /\ UNCHANGED boundTo
  <2>1. event.ref \in Claims
    BY <1>7, EventKinds DEF PodEvents
  <2> QED
    BY <1>1, <1>7, <2>1, HandlesPod
<1> QED
  BY <1>3, <1>4, <1>5, <1>6, <1>7 DEF HandleBinding

\* The stack that is left when a subscriber has been called: the pod volume
\* controller's is the last call.
LEMMA AfterDelivery ==
  ASSUME NEW frame \in DeliverFrames, NEW rest \in Seq(Frames)
  PROVE  LET to == Subscribers(frame.event)
             after == IF frame.to = Len(to) THEN rest
                      ELSE <<[frame EXCEPT !.to = @ + 1]>> \o rest
         IN  /\ frame.event \in Events /\ after \in Seq(Frames)
             /\ \A e : Delivering(e, rest) => Delivering(e, after)
             /\ to[frame.to] = "PodVolume" => after = rest
             /\ \/ to[frame.to] = "PodVolume"
                \/ frame.event.kind = "StorageClass"
                \/ Delivering(frame.event, after)
<1> DEFINE to == Subscribers(frame.event)
           next == [frame EXCEPT !.to = @ + 1]
<1>1. CASE frame.event.kind = "StorageClass"
  <2>1. frame.to = 1 /\ frame.event \in Events
    BY <1>1 DEF DeliverFrames, Events, ClaimEvents, VolumeEvents, PodEvents, ClassEvents
  <2>2. to = <<"Provisioning">>
    BY <1>1 DEF Subscribers
  <2>3. Len(to) = 1 /\ to[1] = "Provisioning"
    BY <2>2
  <2> QED
    BY <1>1, <2>1, <2>3
<1>2. CASE frame.event.kind # "StorageClass"
  <2>1. /\ frame \in [op : {"deliver"}, event : ClaimEvents \cup VolumeEvents \cup PodEvents,
                      to : 1..3]
        /\ frame.event \in Events
    BY <1>2 DEF DeliverFrames, Events, ClassEvents
  <2>2. to = <<"Provisioning", "Binding", "PodVolume">>
    BY <1>2 DEF Subscribers
  <2>3. Len(to) = 3 /\ to[3] = "PodVolume" /\ to[1] # "PodVolume" /\ to[2] # "PodVolume"
    BY <2>2
  <2>4. CASE frame.to = 3
    BY <2>1, <2>3, <2>4
  <2>5. CASE frame.to # 3
    <3>1. frame.to \in {1, 2}
      BY <2>1, <2>5
    <3>2. next \in Frames /\ next.op = "deliver" /\ next.event = frame.event
      BY <2>1, <3>1 DEF Frames, DeliverFrames
    <3> HIDE DEF next
    <3>3. /\ <<next>> \o rest \in Seq(Frames)
          /\ \A e : Delivering(e, rest) => Delivering(e, <<next>> \o rest)
          /\ Delivering(frame.event, <<next>> \o rest)
      BY <3>2, Push
    <3>4. frame.to # Len(to) /\ to[frame.to] # "PodVolume"
      BY <2>3, <3>1
    <3> QED
      BY <2>1, <3>3, <3>4 DEF next
  <2> QED
    BY <2>4, <2>5
<1> QED
  BY <1>1, <1>2

-------------------------------------------------------------------------------
(* Readiness *)

LEMMA ReadinessTypes ==
  ASSUME NEW p \in Pods
  PROVE  Readiness(p) \in Messages
BY DEF Readiness, Messages

\* What VolumeState remembers makes no difference: a Bound claim names its
\* volume.
LEMMA ReadinessOfStore ==
  ASSUME StoreType, RestType, UNCHANGED <<claims, volumes, pods>>
  PROVE  ReadinessNow' = ReadinessNow
<1>1. ASSUME NEW p \in Pods, pods[p] # None PROVE Readiness(p)' = Readiness(p)
  <2> DEFINE claim == claims[pods[p].claim]
  <2>1. claim \in Claimed \cup {None}
    BY <1>1 DEF StoreType, RestType, PodValues
  <2>2. CASE claim = None
    BY <2>2 DEF Readiness
  <2>3. CASE claim # None /\ ~claim.bound
    BY <2>3 DEF Readiness
  <2>4. CASE claim # None /\ claim.bound
    <3>1. claim.volume # None
      BY <2>1, <2>4 DEF Claimed
    <3> QED
      BY <2>4, <3>1 DEF Readiness
  <2> QED
    BY <2>2, <2>3, <2>4
<1> QED
  BY <1>1 DEF ReadinessNow

\* What tells of a change: nothing changed or it is being delivered.
LEMMA ToldStays ==
  ASSUME StoreType, RestType, Told, UNCHANGED <<pods, readiness>>,
         \A e : Delivering(e, stack) /\ e.kind # "StorageClass" => Delivering(e, stack'),
         \/ UNCHANGED store
         \/ \E e : Delivering(e, stack') /\ e.kind \in {"Claim", "Volume"}
  PROVE  Told'
<1> SUFFICES ASSUME NEW p \in Pods
             PROVE  \/ readiness'[p] = ReadinessNow'[p]
                    \/ \E e : Delivering(e, stack') /\ Concerns(e, p)'
  BY DEF Told
<1>1. \A e : Concerns(e, p)' = Concerns(e, p)
  BY DEF Concerns
<1>2. CASE \E e : Delivering(e, stack) /\ Concerns(e, p)
  BY <1>1, <1>2 DEF Concerns
<1>3. CASE readiness[p] = ReadinessNow[p] /\ UNCHANGED store
  BY <1>3, ReadinessOfStore DEF store
<1>4. CASE readiness[p] = ReadinessNow[p] /\ pods[p] = None
  BY <1>4 DEF ReadinessNow
<1>5. CASE pods[p] # None /\ \E e : Delivering(e, stack') /\ e.kind \in {"Claim", "Volume"}
  BY <1>5 DEF Concerns
<1> QED
  BY <1>2, <1>3, <1>4, <1>5 DEF Told

\* The pod volume controller has been told.
LEMMA PodVolumeTells ==
  ASSUME TypeInv, Told, stack # << >>,
         LET frame == Head(stack)
         IN  /\ frame.op = "deliver" /\ frame.event.kind # "StorageClass"
             /\ HandlePodVolume(frame.event),
         Return(Tail(stack)), UNCHANGED pods
  PROVE  Told' /\ readiness' \in [Pods -> Messages \cup {None}]
<1> DEFINE event == Head(stack).event
           rest == Tail(stack)
<1>1. /\ stack' = rest /\ UNCHANGED <<claims, volumes>>
      /\ \A e : Delivering(e, stack) => Delivering(e, rest) \/ e = event
  BY Pop DEF Return, store, TypeInv
<1>2. ReadinessNow' = ReadinessNow
  BY <1>1, ReadinessOfStore DEF TypeInv
<1>3. event \in Events /\ event.kind \in {"Claim", "Volume", "Pod"}
  <2>1. Head(stack) \in DeliverFrames
    BY Pop, FrameKinds DEF TypeInv
  <2> QED
    BY <2>1 DEF DeliverFrames, Events, ClaimEvents, VolumeEvents, PodEvents, ClassEvents
<1>4. /\ readiness \in [Pods -> Messages \cup {None}]
      /\ \A p \in Pods : ReadinessNow[p] \in Messages \cup {None}
  BY ReadinessTypes DEF TypeInv, RestType, ReadinessNow
<1>5. \A e, p : Concerns(e, p)' = Concerns(e, p)
  BY DEF Concerns
<1>6. \A p \in Pods : \/ readiness[p] = ReadinessNow[p]
                      \/ \E e : Delivering(e, rest) /\ Concerns(e, p)
                      \/ Concerns(event, p)
  BY <1>1 DEF Told
<1>7. CASE event.kind = "Pod"
  <2>1. readiness' = [readiness EXCEPT ![event.name] = ReadinessNow[event.name]]
    BY <1>7 DEF HandlePodVolume
  <2>2. event.name \in Pods
    BY <1>3, <1>7, EventKinds DEF PodEvents
  <2>3. \A p \in Pods : Concerns(event, p) => p = event.name
    BY <1>7 DEF Concerns
  <2> HIDE DEF event
  <2>4. readiness' \in [Pods -> Messages \cup {None}]
    BY <1>4, <2>1, <2>2
  <2>5. ASSUME NEW p \in Pods
        PROVE  readiness'[p] = ReadinessNow[p] \/ \E e : Delivering(e, rest) /\ Concerns(e, p)
    BY <1>4, <1>6, <2>1, <2>2, <2>3
  <2> QED
    BY <1>1, <1>2, <1>5, <2>4, <2>5 DEF Told
<1>8. CASE event.kind # "Pod"
  <2>1. readiness' = [p \in Pods |-> IF pods[p] = None THEN readiness[p] ELSE Readiness(p)]
    BY <1>8 DEF HandlePodVolume
  <2>2. readiness' \in [Pods -> Messages \cup {None}]
    BY <1>4, <2>1, ReadinessTypes
  <2>3. \A p \in Pods : Concerns(event, p) => pods[p] # None
    BY <1>8 DEF Concerns
  <2> HIDE DEF event
  <2>4. ASSUME NEW p \in Pods
        PROVE  readiness'[p] = ReadinessNow[p] \/ \E e : Delivering(e, rest) /\ Concerns(e, p)
    BY <1>6, <2>1, <2>3 DEF ReadinessNow
  <2> QED
    BY <1>1, <1>2, <1>5, <2>2, <2>4 DEF Told
<1> QED
  BY <1>7, <1>8

-------------------------------------------------------------------------------
(* The steps *)

\* Code that ran above what was left of the stack
LEMMA KeptIs ==
  ASSUME TypeInv, Told, NEW rest, Keeps(rest), QueueType',
         \A e : Delivering(e, stack) /\ e.kind # "StorageClass" => Delivering(e, rest),
         UNCHANGED <<pods, classes, gone, readiness, edits>>,
         BoundType', timer' \in [Queues -> BOOLEAN]
  PROVE  IInv'
<1>1. RestType'
  BY DEF TypeInv, RestType, BoundType
<1>2. Told'
  BY ToldStays DEF TypeInv, Keeps
<1> QED
  BY <1>1, <1>2 DEF IInv, TypeInv, Keeps

\* The three reconcilers
LEMMA Handles ==
  ASSUME StoreType, BoundType, classes \subseteq DOMAIN StorageClasses,
         NEW q \in Queues, NEW key \in Keys[q], NEW rest \in Seq(Frames), Handle(q, key, rest)
  PROVE  Keeps(rest) /\ BoundType'
<1>1. UNCHANGED boundTo => BoundType'
  BY DEF BoundType
<1>2. CASE q = "provisioning"
  BY <1>1, <1>2, ReconcilesProvisioning, KeysOf DEF Handle
<1>3. CASE q = "claims"
  BY <1>3, ReconcilesClaim, KeysOf DEF Handle
<1>4. CASE q = "volumes"
  BY <1>1, <1>4, ReconcilesVolume, KeysOf DEF Handle
<1> QED
  BY <1>2, <1>3, <1>4 DEF Queues

LEMMA DeliverKeeps ==
  ASSUME IInv, ~Idle, Head(stack).op = "deliver", DeliverStep(Head(stack), Tail(stack)),
         UNCHANGED <<pods, classes, gone, edits, timer>>
  PROVE  IInv'
<1> DEFINE frame == Head(stack)
           rest == Tail(stack)
           to == Subscribers(frame.event)
           after == IF frame.to = Len(to) THEN rest
                    ELSE <<[frame EXCEPT !.to = @ + 1]>> \o rest
<1>1. /\ frame \in DeliverFrames /\ rest \in Seq(Frames)
      /\ \A e : Delivering(e, stack) => Delivering(e, rest) \/ e = frame.event
  BY Pop, FrameKinds DEF Idle, IInv, TypeInv
<1>2. /\ frame.event \in Events /\ after \in Seq(Frames)
      /\ \A e : Delivering(e, rest) => Delivering(e, after)
      /\ to[frame.to] = "PodVolume" => after = rest
      /\ \/ to[frame.to] = "PodVolume"
         \/ frame.event.kind = "StorageClass"
         \/ Delivering(frame.event, after)
  <2> HIDE DEF rest, frame
  <2> QED
    BY <1>1, AfterDelivery
<1>3. \/ HandleProvisioning(frame.event, after) /\ UNCHANGED <<boundTo, readiness>>
         /\ to[frame.to] = "Provisioning"
      \/ HandleBinding(frame.event, after) /\ UNCHANGED readiness /\ to[frame.to] = "Binding"
      \/ /\ to[frame.to] = "PodVolume" /\ HandlePodVolume(frame.event)
         /\ Return(after) /\ UNCHANGED <<boundTo, queue>>
  BY DEF DeliverStep
<1>4. StoreType /\ QueueType /\ BoundType /\ timer' \in [Queues -> BOOLEAN]
  BY DEF IInv, TypeInv, RestType, BoundType
<1> HIDE DEF after, to
<1>5. CASE to[frame.to] # "PodVolume"
  <2>1. \A e : Delivering(e, stack) /\ e.kind # "StorageClass" => Delivering(e, after)
    BY <1>1, <1>2, <1>5
  <2>2. Keeps(after) /\ QueueType' /\ BoundType' /\ UNCHANGED readiness
    <3>1. CASE HandleProvisioning(frame.event, after) /\ UNCHANGED <<boundTo, readiness>>
      <4>1. BoundType'
        BY <1>4, <3>1 DEF BoundType
      <4> QED
        BY <1>2, <1>4, <3>1, <4>1, HandlesProvisioning
    <3>2. CASE HandleBinding(frame.event, after) /\ UNCHANGED readiness
      BY <1>2, <1>4, <3>2, HandlesBinding
    <3> QED
      BY <1>3, <1>5, <3>1, <3>2
  <2> QED
    BY <1>4, <2>1, <2>2, KeptIs DEF IInv
<1>6. CASE to[frame.to] = "PodVolume"
  <2>1. HandlePodVolume(frame.event) /\ Return(rest) /\ UNCHANGED <<boundTo, queue>>
    BY <1>2, <1>3, <1>6
  <2>2. frame.event.kind # "StorageClass"
    <3>1. frame.event.kind = "StorageClass" => to = <<"Provisioning">> /\ frame.to = 1
      BY <1>1, <1>2, EventKinds
         DEF to, Subscribers, DeliverFrames, ClaimEvents, VolumeEvents, PodEvents, ClassEvents
    <3> QED
      BY <1>6, <3>1
  <2>3. Told' /\ readiness' \in [Pods -> Messages \cup {None}]
    BY <2>1, <2>2, PodVolumeTells DEF Idle, IInv
  <2>4. StoreType' /\ QueueType' /\ stack' \in Seq(Frames)
    BY <1>1, <1>4, <2>1 DEF Return, store, StoreType, QueueType
  <2>5. RestType'
    BY <2>1, <2>3 DEF IInv, TypeInv, RestType
  <2> QED
    BY <2>3, <2>4, <2>5 DEF IInv, TypeInv
<1> QED
  BY <1>5, <1>6

LEMMA LoopKeeps ==
  ASSUME IInv, ~Idle, Head(stack).op = "loop", LoopStep(Head(stack), Tail(stack)),
         UNCHANGED <<pods, classes, gone, edits, readiness>>
  PROVE  IInv'
<1> DEFINE frame == Head(stack)
           rest == Tail(stack)
           q == frame.queue
<1>1. /\ frame \in LoopFrames /\ rest \in Seq(Frames)
      /\ \A e : Delivering(e, stack) => Delivering(e, rest)
  BY Pop, FrameKinds DEF Idle, IInv, TypeInv
<1>2. q \in Queues /\ frame.left \in Nat
  BY <1>1 DEF LoopFrames
<1>3. /\ StoreType /\ QueueType /\ BoundType /\ timer \in [Queues -> BOOLEAN]
      /\ classes \subseteq DOMAIN StorageClasses
  BY DEF IInv, TypeInv, RestType, BoundType
<1>4. CASE queue[q] # << >> /\ frame.left > 0
  <2> DEFINE next == Loop(q, frame.left - 1)
  <2>1. /\ queue' = [queue EXCEPT ![q] = Tail(queue[q])] /\ UNCHANGED timer
        /\ Handle(q, Head(queue[q]), <<next>> \o rest)
    BY <1>4 DEF LoopStep
  <2>2. QueueType' /\ Head(queue[q]) \in Keys[q]
    BY <1>2, <1>3, <1>4, <2>1, Takes
  <2>3. next \in Frames
    BY <1>2, <1>4, LoopTypes
  <2> HIDE DEF next, rest, q
  <2>4. <<next>> \o rest \in Seq(Frames)
    BY <1>1, <2>3, Push
  <2>5. Keeps(<<next>> \o rest) /\ BoundType'
    BY <1>2, <1>3, <2>1, <2>2, <2>4, Handles
  <2>6. Keeps(rest)
    BY <1>1, <2>3, <2>5, ThroughOne
  <2> QED
    BY <1>1, <1>3, <2>1, <2>2, <2>5, <2>6, KeptIs DEF IInv
<1>5. CASE ~(queue[q] # << >> /\ frame.left > 0)
  <2>1. Return(rest) /\ UNCHANGED <<boundTo, queue>> /\ ScheduleNext(q)
    BY <1>5 DEF LoopStep
  <2>2. timer' \in [Queues -> BOOLEAN]
    BY <1>2, <1>3, <2>1 DEF ScheduleNext
  <2>3. QueueType' /\ BoundType'
    BY <1>3, <2>1 DEF QueueType, BoundType
  <2> QED
    BY <1>1, <1>3, <2>1, <2>2, <2>3, Returns, KeptIs DEF IInv
<1> QED
  BY <1>4, <1>5

\* The other frames deliver nothing and write at most once.
LEMMA OthersKeep ==
  ASSUME IInv, ~Idle, UNCHANGED <<pods, classes, gone, edits, readiness, timer>>,
         LET frame == Head(stack)
             rest == Tail(stack)
         IN  \/ frame.op = "next" /\ AfterNext(frame, rest) /\ UNCHANGED <<boundTo, queue>>
             \/ frame.op = "addAll" /\ AddAllStep(frame, rest) /\ UNCHANGED boundTo
             \/ frame.op = "matching" /\ Matching(frame, rest) /\ UNCHANGED <<boundTo, queue>>
             \/ /\ frame.op = "provision" /\ Provision(frame.claim, frame.read, rest)
                /\ UNCHANGED <<boundTo, queue>>
             \/ frame.op = "bind" /\ BindStep(frame, rest)
  PROVE  IInv'
<1> DEFINE frame == Head(stack)
           rest == Tail(stack)
<1>1. /\ frame \in Frames /\ rest \in Seq(Frames)
      /\ frame.op # "deliver" => \A e : Delivering(e, stack) => Delivering(e, rest)
  BY Pop DEF Idle, IInv, TypeInv
<1>2. /\ StoreType /\ QueueType /\ BoundType /\ timer' \in [Queues -> BOOLEAN]
      /\ classes \subseteq DOMAIN StorageClasses
  BY DEF IInv, TypeInv, RestType, BoundType
<1>3. ASSUME Keeps(rest), QueueType', BoundType', frame.op # "deliver" PROVE IInv'
  BY <1>1, <1>2, <1>3, KeptIs DEF IInv
<1>4. UNCHANGED queue => QueueType'
  BY <1>2 DEF QueueType
<1>5. UNCHANGED boundTo => BoundType'
  BY <1>2 DEF BoundType
<1> HIDE DEF rest, frame
<1>6. CASE frame.op = "next" /\ AfterNext(frame, rest) /\ UNCHANGED <<boundTo, queue>>
  <2> DEFINE loop == Loop(frame.queue, MaxBatch)
  <2>1. frame.queue \in Queues
    BY <1>1, <1>6, FrameKinds DEF NextFrames
  <2>2. loop \in Frames
    BY <2>1, LoopTypes, BoundsAssumption
  <2>3. Return(rest) \/ Return(<<loop>> \o rest)
    BY <1>6 DEF AfterNext
  <2> HIDE DEF loop
  <2>4. <<loop>> \o rest \in Seq(Frames)
    BY <1>1, <2>2, Push
  <2>5. Keeps(rest)
    BY <1>1, <1>2, <2>2, <2>3, <2>4, Returns, ThroughOne
  <2> QED
    BY <1>3, <1>4, <1>5, <1>6, <2>5
<1>7. CASE frame.op = "addAll" /\ AddAllStep(frame, rest) /\ UNCHANGED boundTo
  <2>1. frame.queue \in {"provisioning", "claims"} /\ frame.keys \in SUBSET Claims
    BY <1>1, <1>7, FrameKinds DEF AddAllFrames
  <2>2. PICK key \in frame.keys :
          Enqueue(frame.queue, key, AddAll(frame.queue, frame.keys \ {key}) \o rest)
    BY <1>7 DEF AddAllStep
  <2>3. frame.queue \in Queues /\ key \in Keys[frame.queue]
    BY <2>1, KeysOf
  <2>4. AddAll(frame.queue, frame.keys \ {key}) \in Seq(Frames)
    <3>1. frame.keys \ {key} \in SUBSET Claims
      BY <2>1
    <3> QED
      BY <2>1, <3>1, AddAllTypes
  <2>5. AddAll(frame.queue, frame.keys \ {key}) \o rest \in Seq(Frames)
    BY <1>1, <2>4, Prepend
  <2>6. Keeps(AddAll(frame.queue, frame.keys \ {key}) \o rest) /\ QueueType'
    BY <1>2, <2>2, <2>3, <2>5, Enqueues
  <2>7. Keeps(rest)
    BY <1>1, <2>4, <2>6, Through
  <2> QED
    BY <1>3, <1>5, <1>7, <2>6, <2>7
<1>8. CASE frame.op = "matching" /\ Matching(frame, rest) /\ UNCHANGED <<boundTo, queue>>
  <2>1. \/ Return(rest)
        \/ Return(AddAll("claims", ClaimsFor(volumes[frame.volume])) \o rest)
    BY <1>8 DEF Matching
  <2>2. ClaimsFor(volumes[frame.volume]) \in SUBSET Claims
    BY DEF ClaimsFor, PendingClaims
  <2>3. Keeps(rest)
    BY <1>1, <1>2, <2>1, <2>2, Returns, ReturnsAddAll
  <2> QED
    BY <1>3, <1>4, <1>5, <1>8, <2>3
<1>9. CASE /\ frame.op = "provision" /\ Provision(frame.claim, frame.read, rest)
           /\ UNCHANGED <<boundTo, queue>>
  <2>1. frame.claim \in Claims /\ frame.read \in Claimed
    BY <1>1, <1>9, FrameKinds DEF ProvisionFrames
  <2>2. Keeps(rest)
    BY <1>1, <1>2, <1>9, <2>1, Provisions
  <2> QED
    BY <1>3, <1>4, <1>5, <1>9, <2>2
<1>10. CASE frame.op = "bind" /\ BindStep(frame, rest)
  <2>1. /\ frame \in BindFrames
        /\ frame.claim \in Claims /\ frame.read \in Claimed /\ frame.volume \in Names
    BY <1>1, <1>10, FrameKinds DEF BindFrames
  <2>2. CASE ~frame.written
    <3> DEFINE done == [frame EXCEPT !.written = TRUE]
    <3>1. /\ SetClaim("Updated", frame.claim, ToBoundClaim(frame.read, frame.volume),
                      <<done>> \o rest)
          /\ UNCHANGED <<boundTo, queue>>
      BY <1>10, <2>2 DEF BindStep
    <3>2. done \in Frames
      BY <2>1 DEF BindFrames, Frames
    <3> HIDE DEF done
    <3>3. ToBoundClaim(frame.read, frame.volume) \in Claimed /\ "Updated" \in Ops
      BY <2>1, ClaimTypes DEF Ops
    <3>4. <<done>> \o rest \in Seq(Frames)
      BY <1>1, <3>2, Push
    <3>5. Keeps(<<done>> \o rest)
      BY <1>2, <2>1, <3>1, <3>3, <3>4, ClaimWrites
    <3>6. Keeps(rest)
      BY <1>1, <3>2, <3>5, ThroughOne
    <3> QED
      BY <1>3, <1>4, <1>5, <1>10, <3>1, <3>6
  <2>3. CASE frame.written
    <3>1. /\ boundTo' = [boundTo EXCEPT ![frame.claim] = frame.volume]
          /\ Enqueue("volumes", frame.volume, rest)
      BY <1>10, <2>3 DEF BindStep
    <3>2. BoundType'
      BY <1>2, <2>1, <3>1 DEF BoundType
    <3>3. Keeps(rest) /\ QueueType'
      BY <1>1, <1>2, <2>1, <3>1, Enqueues, KeysOf
    <3> QED
      BY <1>3, <1>10, <3>2, <3>3
  <2> QED
    BY <2>2, <2>3
<1> QED
  BY <1>6, <1>7, <1>8, <1>9, <1>10 DEF frame, rest

LEMMA RunKeeps == ASSUME IInv, Run PROVE IInv'
<1>1. ~Idle /\ UNCHANGED <<pods, classes, gone, edits>>
  BY DEF Run
<1>2. CASE /\ Head(stack).op = "deliver" /\ DeliverStep(Head(stack), Tail(stack))
           /\ UNCHANGED timer
  BY <1>1, <1>2, DeliverKeeps
<1>3. CASE /\ Head(stack).op = "loop" /\ LoopStep(Head(stack), Tail(stack))
           /\ UNCHANGED readiness
  BY <1>1, <1>3, LoopKeeps
<1> QED
  BY <1>1, <1>2, <1>3, OthersKeep DEF Run

LEMMA TimerKeeps ==
  ASSUME IInv, NEW q \in Queues, TimerFires(q)
  PROVE  IInv'
<1>1. /\ StoreType /\ QueueType /\ BoundType /\ classes \subseteq DOMAIN StorageClasses
      /\ timer' \in [Queues -> BOOLEAN]
  BY DEF IInv, TypeInv, RestType, BoundType, TimerFires
<1>2. UNCHANGED <<pods, classes, gone, readiness, edits>> /\ stack = << >>
  BY DEF TimerFires, Idle
<1>3. << >> \in Seq(Frames) /\ \A e : Delivering(e, stack) => Delivering(e, << >>)
  BY <1>2
<1>4. CASE queue[q] = << >>
  <2>1. Return(<< >>) /\ UNCHANGED <<queue, boundTo>>
    BY <1>4 DEF TimerFires
  <2>2. QueueType' /\ BoundType'
    BY <1>1, <2>1 DEF QueueType, BoundType
  <2> QED
    BY <1>1, <1>2, <1>3, <2>1, <2>2, Returns, KeptIs DEF IInv
<1>5. CASE queue[q] # << >>
  <2> DEFINE next == [op |-> "next", queue |-> q]
  <2>1. /\ queue' = [queue EXCEPT ![q] = Tail(queue[q])]
        /\ Handle(q, Head(queue[q]), <<next>>)
    BY <1>5 DEF TimerFires
  <2>2. QueueType' /\ Head(queue[q]) \in Keys[q]
    BY <1>1, <1>5, <2>1, Takes
  <2>3. next \in Frames
    BY DEF Frames, NextFrames
  <2> HIDE DEF next
  <2>4. <<next>> \in Seq(Frames) /\ <<next>> \o << >> = <<next>>
    BY <2>3
  <2>5. Keeps(<<next>>) /\ BoundType'
    BY <1>1, <2>1, <2>2, <2>4, Handles
  <2>6. Keeps(<< >>)
    BY <1>3, <2>3, <2>4, <2>5, ThroughOne
  <2> QED
    BY <1>1, <1>2, <1>3, <2>2, <2>5, <2>6, KeptIs DEF IInv
<1> QED
  BY <1>4, <1>5

-------------------------------------------------------------------------------
(* Users, the scheduler and the kubelet *)

UserStep ==
  \/ \E v \in Statics, spec \in VolumeSpecs : CreateVolume(v, spec)
  \/ \E v \in Names : DeleteVolume(v)
  \/ \E c \in Claims, spec \in ClaimSpecs, v \in Names \cup {None} : CreateClaim(c, spec, v)
  \/ \E c \in Claims : DeleteClaim(c)

LEMMA EditCounts == RestType /\ Edit => edits' \in 0..MaxEdits
BY BoundsAssumption DEF RestType, Edit

\* Writes to the store while nothing runs
LEMMA UserKeeps == ASSUME IInv, UserStep PROVE IInv'
<1>1. StoreType /\ QueueType /\ RestType
  BY DEF IInv, TypeInv
<1>2. Edit /\ UNCHANGED <<pods, classes, gone, boundTo, readiness, queue, timer>>
  BY DEF UserStep, CreateVolume, DeleteVolume, CreateClaim, DeleteClaim, Untouched
<1>3. stack = << >> /\ << >> \in Seq(Frames)
  BY <1>2 DEF Edit, Idle
<1>4. "Created" \in Ops /\ "Deleted" \in Ops /\ "Created" # "Deleted"
  BY DEF Ops
<1>5. ASSUME NEW v \in Statics, NEW spec \in VolumeSpecs, CreateVolume(v, spec)
      PROVE  Keeps(<< >>)
  <2>1. v \in Names /\ NewVolume(spec) \in Backed
    BY NewVolumeTypes DEF Names
  <2>2. SetVolume("Created", v, NewVolume(spec), << >>)
    BY <1>5 DEF CreateVolume
  <2> QED
    BY <1>1, <1>3, <1>4, <2>1, <2>2, VolumeWrites
<1>6. ASSUME NEW v \in Names, DeleteVolume(v) PROVE Keeps(<< >>)
  <2>1. SetVolume("Deleted", v, None, << >>)
    BY <1>6 DEF DeleteVolume
  <2> QED
    BY <1>1, <1>3, <1>4, <2>1, VolumeWrites
<1>7. ASSUME NEW c \in Claims, NEW spec \in ClaimSpecs, NEW v \in Names \cup {None},
             CreateClaim(c, spec, v)
      PROVE  Keeps(<< >>)
  <2> DEFINE class == IF spec.class = None /\ DefaultClass \in classes
                      THEN DefaultClass ELSE spec.class
             new == [class |-> class, size |-> spec.size, volume |-> v, bound |-> v # None]
  <2>1. SetClaim("Created", c, new, << >>)
    BY <1>7 DEF CreateClaim
  <2>2. class \in ClassNames /\ spec.size \in Sizes
    BY ClassesAssumption DEF ClassNames, Sizes
  <2>3. new \in Claimed
    <3> HIDE DEF class
    <3> HIDE DEF ClassNames, Sizes, Names
    <3> QED
      BY <2>2 DEF Claimed, ClaimValues
  <2> HIDE DEF new
  <2> QED
    BY <1>1, <1>3, <1>4, <2>1, <2>3, ClaimWrites
<1>8. ASSUME NEW c \in Claims, DeleteClaim(c) PROVE Keeps(<< >>)
  <2>1. SetClaim("Deleted", c, None, << >>)
    BY <1>8 DEF DeleteClaim
  <2> QED
    BY <1>1, <1>3, <1>4, <2>1, ClaimWrites
<1>9. Keeps(<< >>)
  BY <1>5, <1>6, <1>7, <1>8 DEF UserStep
<1>10. edits' \in 0..MaxEdits
  BY <1>1, <1>2, EditCounts
<1>11. RestType' /\ QueueType'
  BY <1>1, <1>2, <1>10 DEF RestType, QueueType
<1>12. Told'
  BY <1>1, <1>2, <1>3, <1>9, ToldStays DEF IInv, Keeps
<1> QED
  BY <1>9, <1>11, <1>12 DEF IInv, TypeInv, Keeps

\* A pod comes, changes or goes, and its event says so.
LEMMA PodKeeps ==
  ASSUME IInv, NEW p \in Pods, NEW op \in Ops, NEW new \in PodValues \cup {None},
         new = None => pods[p] # None, Idle, SetPod(op, p, new), edits' \in 0..MaxEdits
  PROVE  IInv'
<1>1. /\ pods' = [pods EXCEPT ![p] = new]
      /\ UNCHANGED <<claims, volumes, classes, gone, boundTo, readiness, queue, timer>>
  BY DEF SetPod, Untouched, store
<1>2. StoreType /\ QueueType /\ RestType /\ stack = << >> /\ << >> \in Seq(Frames)
  BY DEF IInv, TypeInv, Idle
<1>3. PICK ref \in Claims : Deliver(Event("Pod", op, p, ref), << >>)
  <2>1. (IF new = None THEN pods[p].claim ELSE new.claim) \in Claims
    BY <1>2 DEF RestType, PodValues
  <2> QED
    BY <2>1 DEF SetPod
<1>4. PICK event \in Events : event.kind = "Pod" /\ event.name = p /\ Deliver(event, << >>)
  BY <1>3 DEF Event, Events, PodEvents
<1>5. stack' \in Seq(Frames) /\ Delivering(event, stack')
  BY <1>2, <1>4, Delivers DEF Events
<1>6. \A e : ~Delivering(e, stack)
  BY <1>2 DEF Delivering
<1>7. ASSUME NEW q \in Pods, q # p PROVE readiness'[q] = ReadinessNow'[q]
  <2>1. pods'[q] = pods[q] /\ readiness[q] = ReadinessNow[q]
    BY <1>1, <1>2, <1>6, <1>7 DEF RestType, IInv, Told
  <2>2. Readiness(q)' = Readiness(q)
    BY <1>1, <2>1 DEF Readiness
  <2> QED
    BY <1>1, <2>1, <2>2 DEF ReadinessNow
<1>8. Concerns(event, p)'
  BY <1>4 DEF Concerns
<1>9. Told'
  BY <1>5, <1>7, <1>8 DEF Told
<1>10. StoreType' /\ QueueType' /\ RestType'
  BY <1>1, <1>2 DEF StoreType, QueueType, RestType
<1> QED
  BY <1>5, <1>9, <1>10 DEF IInv, TypeInv

LEMMA PodsKeep ==
  ASSUME IInv, NEW p \in Pods,
         \/ \E c \in Claims : CreatePod(p, c)
         \/ Schedule(p) \/ TerminatePod(p) \/ RemovePod(p)
  PROVE  IInv'
<1>1. RestType
  BY DEF IInv, TypeInv
<1>2. pods[p] # None => pods[p] \in PodValues
  BY <1>1 DEF RestType
<1>3. ASSUME NEW c \in Claims, CreatePod(p, c) PROVE IInv'
  <2> DEFINE new == [claim |-> c, scheduled |-> FALSE, terminating |-> FALSE]
  <2>1. SetPod("Created", p, new) /\ Edit /\ pods[p] = None
    BY <1>3 DEF CreatePod
  <2>2. new \in PodValues /\ "Created" \in Ops
    BY DEF PodValues, Ops
  <2>3. new # None
    BY <2>2, NoneAssumption
  <2> HIDE DEF new
  <2> QED
    BY <1>1, <2>1, <2>2, <2>3, PodKeeps, EditCounts DEF Edit
<1>4. CASE Schedule(p)
  <2> DEFINE new == [pods[p] EXCEPT !.scheduled = TRUE]
  <2>1. SetPod("Updated", p, new) /\ Idle /\ UNCHANGED edits /\ pods[p] # None
    BY <1>4 DEF Schedule
  <2>2. new \in PodValues /\ "Updated" \in Ops /\ edits' \in 0..MaxEdits
    BY <1>1, <1>2, <2>1 DEF PodValues, Ops, RestType
  <2> HIDE DEF new
  <2> QED
    BY <2>1, <2>2, PodKeeps
<1>5. CASE TerminatePod(p)
  <2> DEFINE new == [pods[p] EXCEPT !.terminating = TRUE]
  <2>1. SetPod("Updated", p, new) /\ Edit /\ pods[p] # None
    BY <1>5 DEF TerminatePod
  <2>2. new \in PodValues /\ "Updated" \in Ops
    BY <1>2, <2>1 DEF PodValues, Ops
  <2> HIDE DEF new
  <2> QED
    BY <1>1, <2>1, <2>2, PodKeeps, EditCounts DEF Edit
<1>6. CASE RemovePod(p)
  <2>1. SetPod("Deleted", p, None) /\ Idle /\ UNCHANGED edits /\ pods[p] # None
    BY <1>6 DEF RemovePod
  <2>2. "Deleted" \in Ops /\ edits' \in 0..MaxEdits
    BY <1>1, <2>1 DEF Ops, RestType
  <2> QED
    BY <2>1, <2>2, PodKeeps
<1> QED
  BY <1>3, <1>4, <1>5, <1>6

LEMMA ClassesKeep ==
  ASSUME IInv, NEW s \in DOMAIN StorageClasses, CreateClass(s) \/ DeleteClass(s)
  PROVE  IInv'
<1>1. /\ Edit /\ UNCHANGED <<claims, volumes, pods, boundTo, readiness, queue, timer>>
      /\ (classes \cup gone)' \subseteq classes \cup gone \cup {s}
      /\ \E op \in Ops : Deliver(Event("StorageClass", op, s, None), << >>)
  BY DEF CreateClass, DeleteClass, Untouched, store, Ops
<1>2. StoreType /\ QueueType /\ RestType /\ stack = << >> /\ << >> \in Seq(Frames)
  BY <1>1 DEF IInv, TypeInv, Edit, Idle
<1>3. PICK op \in Ops : Deliver(Event("StorageClass", op, s, None), << >>)
  BY <1>1
<1>4. Event("StorageClass", op, s, None) \in ClassEvents
  BY DEF Event, ClassEvents
<1>5. stack' \in Seq(Frames)
  BY <1>2, <1>3, <1>4, Delivers
<1>6. edits' \in 0..MaxEdits
  BY <1>1, <1>2, EditCounts
<1>7. StoreType' /\ QueueType' /\ RestType'
  BY <1>1, <1>2, <1>6 DEF StoreType, QueueType, RestType
<1>8. \A e : ~Delivering(e, stack)
  BY <1>2 DEF Delivering
<1>9. Told'
  BY <1>1, <1>2, <1>8, ToldStays DEF IInv, store
<1> QED
  BY <1>5, <1>7, <1>9 DEF IInv, TypeInv

LEMMA StepKeeps == ASSUME IInv, [Next]_vars PROVE IInv'
<1>1. CASE UNCHANGED vars
  <2>1. UNCHANGED <<claims, volumes, pods, classes, gone, boundTo, readiness, queue, timer,
                    stack, edits>>
    BY <1>1 DEF vars, store
  <2>2. TypeInv'
    BY <2>1 DEF IInv, TypeInv, StoreType, QueueType, RestType
  <2>3. ReadinessNow' = ReadinessNow
    BY <2>1, ReadinessOfStore DEF IInv, TypeInv
  <2>4. \A e, p : Concerns(e, p)' = Concerns(e, p)
    BY <2>1 DEF Concerns
  <2> QED
    BY <2>1, <2>2, <2>3, <2>4 DEF IInv, Told
<1> QED
  BY <1>1, RunKeeps, TimerKeeps, UserKeeps, PodsKeep, ClassesKeep DEF Next, UserStep

LEMMA InitIInv == Init => IInv
<1> SUFFICES ASSUME Init PROVE IInv
  OBVIOUS
<1>1. StoreType
  BY DEF Init, StoreType
<1>2. QueueType
  <2>1. \A q \in Queues : queue[q] = << >>
    BY DEF Init
  <2>2. \A S : << >> \in Seq(S)
    OBVIOUS
  <2>3. IsInjective(<< >>)
    BY DEF IsInjective
  <2> QED
    BY <2>1, <2>2, <2>3 DEF Init, QueueType
<1>3. RestType
  <2>1. edits \in 0..MaxEdits
    BY BoundsAssumption DEF Init
  <2> QED
    BY <2>1 DEF Init, RestType
<1>4. stack \in Seq(Frames)
  BY DEF Init
<1>5. Told
  BY DEF Init, Told, ReadinessNow
<1> QED
  BY <1>1, <1>2, <1>3, <1>4, <1>5 DEF IInv, TypeInv

-------------------------------------------------------------------------------
(* Theorems *)

\* The types and the promise to the pod volume controller hold in every
\* behaviour of the three controllers, users, scheduler and kubelet.
THEOREM Inductive == Spec => []IInv
<1>1. IInv /\ [Next]_vars => IInv'
  BY StepKeeps
<1> QED
  BY <1>1, InitIInv, PTL DEF Spec

\* Every object is of its kind, a volume is Bound only when it names a claim,
\* and a queue holds keys of its own kind, none twice (volumeBindingTransforms,
\* WorkQueue's enqueueKey).
THEOREM TypesHold == Spec => []TypeOK
<1>1. IInv => TypeOK
  <2> SUFFICES ASSUME IInv PROVE TypeOK
    OBVIOUS
  <2>1. StoreType /\ QueueType /\ RestType
    BY DEF IInv, TypeInv
  <2>2. /\ \A c \in Claims : claims[c] \in ClaimValues \cup {None}
        /\ \A v \in Names : volumes[v] # None =>
             volumes[v] \in VolumeValues /\ (volumes[v].bound <=> volumes[v].claim # None)
    BY <2>1 DEF StoreType, Claimed, Backed
  <2>3. ASSUME NEW q \in Queues PROVE Range(queue[q]) \subseteq Keys[q]
    <3>1. queue[q] \in Seq(Keys[q])
      BY <2>1 DEF QueueType
    <3> QED
      BY <3>1, RangeIs
  <2> QED
    BY <2>1, <2>2, <2>3 DEF TypeOK, QueueType, RestType
<1> QED
  BY <1>1, Inductive, PTL

\* Between calls a pod's readiness is that of its claim and its volume, however
\* the binding of claims, the provisioning and the users' deletions nest
\* (syncPodVolumeReadiness, PodVolumeController's onEvent).
THEOREM ReadinessIsFresh == Spec => []ReadinessFresh
<1>1. IInv => ReadinessFresh
  <2> SUFFICES ASSUME IInv, Idle PROVE readiness = ReadinessNow
    BY DEF ReadinessFresh
  <2>1. \A e : ~Delivering(e, stack)
    BY DEF Idle, Delivering
  <2>2. \A p \in Pods : readiness[p] = ReadinessNow[p]
    BY <2>1 DEF IInv, Told
  <2>3. readiness \in [Pods -> Messages \cup {None}]
    BY DEF IInv, TypeInv, RestType
  <2> QED
    BY <2>2, <2>3 DEF ReadinessNow
<1> QED
  BY <1>1, Inductive, PTL

-------------------------------------------------------------------------------
(* Stacks, as sets of frames *)

LEMMA Under1 ==
  ASSUME NEW frame \in Frames, NEW rest \in Seq(Frames)
  PROVE  LET s == <<frame>> \o rest
         IN  /\ s \in Seq(Frames) /\ s # << >> /\ Head(s) = frame /\ Tail(s) = rest
             /\ Len(s) = Len(rest) + 1 /\ s[1] = frame
             /\ \A i \in 1..Len(rest) : s[i + 1] = rest[i]
OBVIOUS

LEMMA PushIs ==
  ASSUME NEW frame \in Frames, NEW rest \in Seq(Frames)
  PROVE  LET s == <<frame>> \o rest
         IN  /\ s \in Seq(Frames) /\ s # << >> /\ Head(s) = frame /\ Tail(s) = rest
             /\ Range(s) = {frame} \cup Range(rest)
             /\ Nested(s) <=> Above(frame, Range(rest)) /\ Nested(rest)
<1> DEFINE s == <<frame>> \o rest
<1>1. /\ s \in Seq(Frames) /\ s # << >> /\ Head(s) = frame /\ Tail(s) = rest
      /\ Len(s) = Len(rest) + 1 /\ s[1] = frame
      /\ \A i \in 1..Len(rest) : s[i + 1] = rest[i]
  BY Under1
<1>2. /\ Len(rest) \in Nat /\ DOMAIN rest = 1..Len(rest) /\ DOMAIN s = 1..Len(s)
  BY <1>1
<1> HIDE DEF s
<1>3. \A i \in 2..Len(s) : i - 1 \in 1..Len(rest) /\ s[i] = rest[i - 1]
  <2> TAKE i \in 2..Len(s)
  <2>1. i - 1 \in 1..Len(rest) /\ (i - 1) + 1 = i
    BY <1>1, <1>2
  <2> QED
    BY <1>1, <2>1
<1>4. Range(s) = {frame} \cup Range(rest)
  <2>1. ASSUME NEW x \in Range(s) PROVE x \in {frame} \cup Range(rest)
    <3>1. PICK i \in 1..Len(s) : s[i] = x
      BY <1>2, <2>1 DEF Range
    <3>2. CASE i = 1
      BY <1>1, <3>1, <3>2
    <3>3. CASE i # 1
      <4>1. i \in 2..Len(s)
        BY <1>1, <1>2, <3>1, <3>3
      <4> QED
        BY <1>2, <1>3, <3>1, <4>1 DEF Range
    <3> QED
      BY <3>2, <3>3
  <2>2. ASSUME NEW x \in Range(rest) PROVE x \in Range(s)
    <3>1. PICK i \in 1..Len(rest) : rest[i] = x
      BY <1>2, <2>2 DEF Range
    <3>2. i + 1 \in DOMAIN s /\ s[i + 1] = x
      BY <1>1, <1>2, <3>1
    <3> QED
      BY <3>2 DEF Range
  <2>3. frame \in Range(s)
    <3>1. 1 \in DOMAIN s
      BY <1>1, <1>2
    <3> QED
      BY <1>1, <3>1 DEF Range
  <2> QED
    BY <2>1, <2>2, <2>3
<1>5. Under(s, 1) = Range(rest)
  <2>1. Under(s, 1) = {s[k] : k \in 2..Len(s)}
    BY DEF Under
  <2>2. ASSUME NEW x \in Range(rest) PROVE x \in {s[k] : k \in 2..Len(s)}
    <3>1. PICK i \in 1..Len(rest) : rest[i] = x
      BY <1>2, <2>2 DEF Range
    <3>2. i + 1 \in 2..Len(s) /\ s[i + 1] = x
      BY <1>1, <1>2, <3>1
    <3> QED
      BY <3>2
  <2>3. ASSUME NEW k \in 2..Len(s) PROVE s[k] \in Range(rest)
    BY <1>2, <1>3 DEF Range
  <2> QED
    BY <2>1, <2>2, <2>3
<1>6. ASSUME NEW i \in 1..Len(rest) PROVE Under(s, i + 1) = Under(rest, i)
  <2>1. Under(s, i + 1) = {s[k] : k \in (i + 2)..Len(s)}
    BY <1>2 DEF Under
  <2>2. Under(rest, i) = {rest[k] : k \in (i + 1)..Len(rest)}
    BY DEF Under
  <2>3. ASSUME NEW k \in (i + 2)..Len(s)
        PROVE  k - 1 \in (i + 1)..Len(rest) /\ s[k] = rest[k - 1]
    BY <1>1, <1>2, <1>3
  <2>4. ASSUME NEW k \in (i + 1)..Len(rest)
        PROVE  k + 1 \in (i + 2)..Len(s) /\ rest[k] = s[k + 1]
    BY <1>1, <1>2
  <2>5. ASSUME NEW x \in Under(s, i + 1) PROVE x \in Under(rest, i)
    BY <2>1, <2>2, <2>3
  <2>6. ASSUME NEW x \in Under(rest, i) PROVE x \in Under(s, i + 1)
    BY <2>1, <2>2, <2>4
  <2> QED
    BY <2>5, <2>6
<1>7. Nested(s) => Above(frame, Range(rest)) /\ Nested(rest)
  <2> SUFFICES ASSUME Nested(s) PROVE Above(frame, Range(rest)) /\ Nested(rest)
    OBVIOUS
  <2>1. Above(frame, Range(rest))
    <3>1. 1 \in 1..Len(s)
      BY <1>1, <1>2
    <3> QED
      BY <1>1, <1>5, <3>1 DEF Nested
  <2>2. ASSUME NEW i \in 1..Len(rest) PROVE Above(rest[i], Under(rest, i))
    <3>1. i + 1 \in 1..Len(s) /\ s[i + 1] = rest[i]
      BY <1>1, <1>2
    <3> QED
      BY <1>6, <3>1 DEF Nested
  <2> QED
    BY <2>1, <2>2 DEF Nested
<1>8. Above(frame, Range(rest)) /\ Nested(rest) => Nested(s)
  <2> SUFFICES ASSUME Above(frame, Range(rest)), Nested(rest), NEW i \in 1..Len(s)
               PROVE  Above(s[i], Under(s, i))
    BY DEF Nested
  <2>1. CASE i = 1
    BY <1>1, <1>5, <2>1
  <2>2. CASE i # 1
    <3>1. i \in 2..Len(s)
      BY <2>2
    <3>2. i - 1 \in 1..Len(rest) /\ s[i] = rest[i - 1] /\ (i - 1) + 1 = i
      BY <1>3, <3>1
    <3>3. Under(s, i) = Under(rest, i - 1)
      BY <1>6, <3>2
    <3> QED
      BY <3>2, <3>3 DEF Nested
  <2> QED
    BY <2>1, <2>2
<1> QED
  BY <1>1, <1>4, <1>7, <1>8 DEF s

LEMMA PopIs ==
  ASSUME NEW frames \in Seq(Frames), frames # << >>
  PROVE  /\ frames = <<Head(frames)>> \o Tail(frames)
         /\ Head(frames) \in Frames /\ Tail(frames) \in Seq(Frames)
         /\ Range(frames) = {Head(frames)} \cup Range(Tail(frames))
         /\ Nested(frames) => Above(Head(frames), Range(Tail(frames))) /\ Nested(Tail(frames))
<1>1. /\ frames = <<Head(frames)>> \o Tail(frames)
      /\ Head(frames) \in Frames /\ Tail(frames) \in Seq(Frames)
  OBVIOUS
<1>2. ASSUME NEW head \in Frames, NEW tail \in Seq(Frames), frames = <<head>> \o tail
      PROVE  /\ Range(frames) = {head} \cup Range(tail)
             /\ Nested(frames) => Above(head, Range(tail)) /\ Nested(tail)
  <2>1. Range(<<head>> \o tail) = {head} \cup Range(tail)
    BY PushIs
  <2>2. Nested(<<head>> \o tail) <=> Above(head, Range(tail)) /\ Nested(tail)
    BY PushIs
  <2> QED
    BY <1>2, <2>1, <2>2
<1> QED
  BY <1>1, <1>2

LEMMA EmptyIs == << >> \in Seq(Frames) /\ Range(<< >>) = {} /\ Nested(<< >>)
<1>1. DOMAIN << >> = {} /\ Len(<< >>) = 0 /\ << >> \in Seq(Frames)
  OBVIOUS
<1>2. Range(<< >>) = {}
  BY <1>1 DEF Range
<1>3. Nested(<< >>)
  BY <1>1 DEF Nested
<1> QED
  BY <1>1, <1>2, <1>3

LEMMA FramesIn == ASSUME NEW frames \in Seq(Frames) PROVE Range(frames) \subseteq Frames
BY RangeIs

LEMMA DrainingIs ==
  ASSUME NEW q, NEW frames
  PROVE  Draining(q, frames) <=> \E f \in Range(frames) : IsLoop(f, q)
BY DEF Draining, IsLoop, Range

AddAllFrame(q, keys) == [op |-> "addAll", queue |-> q, keys |-> keys]

LEMMA AddAllIs ==
  ASSUME NEW q \in {"provisioning", "claims"}, NEW keys \in SUBSET Claims,
         NEW rest \in Seq(Frames)
  PROVE  LET s == AddAll(q, keys) \o rest
             frame == AddAllFrame(q, keys)
         IN  /\ s \in Seq(Frames) /\ frame \in Frames /\ frame.op = "addAll"
             /\ frame.queue = q /\ frame.keys = keys
             /\ keys = {} => s = rest
             /\ keys # {} => s = <<frame>> \o rest
             /\ Range(rest) \subseteq Range(s)
             /\ \A f \in Range(s) : (f = frame /\ keys # {}) \/ f \in Range(rest)
             /\ keys # {} => frame \in Range(s)
             /\ Nested(s) <=> Nested(rest)
<1> DEFINE s == AddAll(q, keys) \o rest
           frame == AddAllFrame(q, keys)
<1>1. frame \in Frames /\ frame.op = "addAll" /\ frame.queue = q /\ frame.keys = keys
  BY DEF Frames, AddAllFrames, AddAllFrame
<1>2. CASE keys = {}
  <2>1. s = rest
    BY <1>2 DEF AddAll
  <2> QED
    BY <1>1, <1>2, <2>1
<1>3. CASE keys # {}
  <2>1. s = <<frame>> \o rest
    BY <1>3 DEF AddAll, AddAllFrame
  <2>2. \A below : Above(frame, below)
    BY DEF Above, IsLoop, Unwritten, AddAllFrame
  <2> HIDE DEF s, frame
  <2>3. /\ s \in Seq(Frames) /\ Range(s) = {frame} \cup Range(rest)
        /\ Nested(s) <=> Nested(rest)
    BY <1>1, <2>1, <2>2, PushIs
  <2> QED
    BY <1>1, <1>3, <2>1, <2>3 DEF s, frame
<1> QED
  BY <1>2, <1>3

-------------------------------------------------------------------------------
(* Claims and volumes *)

LEMMA RefTypes ==
  ASSUME StoreType
  PROVE  /\ \A c \in Claims : claims[c] # None =>
              claims[c] \in Claimed /\ claims[c].volume \in Names \cup {None}
         /\ \A v \in Names : volumes[v] # None =>
              volumes[v] \in Backed /\ volumes[v].claim \in Claims \cup {None}
<1>1. ASSUME NEW c \in Claims, claims[c] # None
      PROVE  claims[c] \in Claimed /\ claims[c].volume \in Names \cup {None}
  <2>1. claims[c] \in Claimed
    BY <1>1 DEF StoreType
  <2> QED
    BY <2>1, ClaimTypes
<1>2. ASSUME NEW v \in Names, volumes[v] # None
      PROVE  volumes[v] \in Backed /\ volumes[v].claim \in Claims \cup {None}
  <2>1. volumes[v] \in Backed
    BY <1>2 DEF StoreType
  <2> QED
    BY <2>1, VolumeTypes
<1> QED
  BY <1>1, <1>2

LEMMA GoodIsSettled ==
  ASSUME StoreType
  PROVE  /\ \A c \in Claims : Good(c) => claims[c].volume \in Names /\ Settled(claims[c].volume)
         /\ \A v \in Names : Settled(v) => volumes[v].claim \in Claims /\ Good(volumes[v].claim)
<1>1. ASSUME NEW c \in Claims, Good(c)
      PROVE  claims[c].volume \in Names /\ Settled(claims[c].volume)
  <2>1. claims[c] # None /\ claims[c].volume # None /\ claims[c].volume \in Names
    BY <1>1, RefTypes DEF Good
  <2> QED
    BY <1>1, <2>1, NoneAssumption DEF Good, Settled
<1>2. ASSUME NEW v \in Names, Settled(v)
      PROVE  volumes[v].claim \in Claims /\ Good(volumes[v].claim)
  <2>1. volumes[v] # None /\ volumes[v].claim # None /\ volumes[v].claim \in Claims
    BY <1>2, RefTypes DEF Settled
  <2> QED
    BY <1>2, <2>1, NoneAssumption DEF Good, Settled
<1> QED
  BY <1>1, <1>2

LEMMA SameObjects ==
  ASSUME UNCHANGED store
  PROVE  /\ claims' = claims /\ volumes' = volumes
         /\ \A c : (Good(c)' <=> Good(c)) /\ (Dirty(c)' <=> Dirty(c))
         /\ \A v : (Settled(v)' <=> Settled(v)) /\ (Orphan(v)' <=> Orphan(v))
         /\ \A f : BindMeans(f)' <=> BindMeans(f)
BY DEF store, Good, Dirty, Settled, Orphan, BindMeans

-------------------------------------------------------------------------------
(* Steps that write nothing *)

LEMMA ComesMore ==
  ASSUME NEW a, NEW b, Range(a) \subseteq Range(b)
  PROVE  /\ \A c : ClaimComes(c, a) => ClaimComes(c, b)
         /\ \A v : VolumeComes(v, a) => VolumeComes(v, b)
         /\ \A c : ClaimGoes(c, a) => ClaimGoes(c, b)
         /\ \A q : Draining(q, a) => Draining(q, b)
         /\ \A c, v, w : Binding(c, v, w, a) => Binding(c, v, w, b)
BY DrainingIs DEF ClaimComes, VolumeComes, ClaimGoes, Binding

LEMMA KnownStays ==
  ASSUME Known, UNCHANGED store,
         \A c \in Claims : ClaimGoes(c, stack) => ClaimGoes(c, stack') \/ boundTo'[c] = None,
         \A c \in Claims : ClaimGoes(c, stack') => ClaimGoes(c, stack),
         \A c \in Claims :
           \/ boundTo'[c] = boundTo[c]
           \/ boundTo'[c] = None /\ ~Good(c)
           \/ boundTo'[c] = claims[c].volume /\ Good(c),
         \A c \in Claims : Good(c) /\ Binding(c, claims[c].volume, TRUE, stack) =>
           \/ Binding(c, claims[c].volume, TRUE, stack')
           \/ boundTo'[c] = claims[c].volume
  PROVE  Known'
<1> SUFFICES ASSUME NEW c \in Claims
             PROVE  /\ claims'[c] = None => boundTo'[c] = None \/ ClaimGoes(c, stack')
                    /\ claims'[c] # None =>
                         /\ ~ClaimGoes(c, stack')
                         /\ claims'[c].volume = None => boundTo'[c] = None
                         /\ Good(c)' => boundTo'[c] = claims'[c].volume
                                        \/ Binding(c, claims'[c].volume, TRUE, stack')
  BY DEF Known
<1>1. claims' = claims /\ (Good(c)' <=> Good(c))
  BY SameObjects
<1>2. Good(c) => claims[c] # None /\ claims[c].volume # None
  BY DEF Good
<1> QED
  BY <1>1, <1>2 DEF Known

LEMMA BusyStays ==
  ASSUME Busy, UNCHANGED store,
         \A q \in Queues : \A k : InQueue(q, k)' => InQueue(q, k) \/ Draining(q, stack'),
         \A q \in Queues : Draining(q, stack) =>
           \/ Draining(q, stack')
           \/ q = "claims" /\ \A c \in Claims : InQueue(q, c)' => Good(c)
           \/ q = "volumes" /\ \A v \in Names : InQueue(q, v)' => Settled(v)
           \/ queue'[q] = << >>,
         \A c \in Claims : ClaimComes(c, stack) =>
           ClaimComes(c, stack') \/ Draining("claims", stack'),
         \A v \in Names : VolumeComes(v, stack) =>
           VolumeComes(v, stack') \/ Draining("volumes", stack'),
         queue'["provisioning"] = << >> \/ queue["provisioning"] # << >>
           \/ Draining("provisioning", stack')
  PROVE  Busy'
<1>1. /\ \A c : claims'[c] = claims[c] /\ (Good(c)' <=> Good(c))
      /\ \A v : volumes'[v] = volumes[v] /\ (Settled(v)' <=> Settled(v))
  BY SameObjects
<1>2. "claims" \in Queues /\ "volumes" \in Queues /\ "provisioning" \in Queues
  BY KeysOf
<1>3. \A q, k : queue'[q] = << >> => ~InQueue(q, k)'
  <2>1. DOMAIN << >> = {}
    OBVIOUS
  <2> QED
    BY <2>1 DEF InQueue
<1>4. ASSUME NEW c \in Claims, InQueue("claims", c)', claims'[c] # None, ~Good(c)'
      PROVE  Draining("claims", stack') \/ ClaimComes(c, stack')
  <2>1. CASE InQueue("claims", c)
    <3>1. Draining("claims", stack) \/ ClaimComes(c, stack)
      BY <1>1, <1>4, <2>1 DEF Busy
    <3> QED
      BY <1>1, <1>2, <1>3, <1>4, <3>1
  <2> QED
    BY <1>2, <1>4, <2>1
<1>5. ASSUME NEW v \in Names, InQueue("volumes", v)', volumes'[v] # None, ~Settled(v)'
      PROVE  Draining("volumes", stack') \/ VolumeComes(v, stack')
  <2>1. CASE InQueue("volumes", v)
    <3>1. Draining("volumes", stack) \/ VolumeComes(v, stack)
      BY <1>1, <1>5, <2>1 DEF Busy
    <3> QED
      BY <1>1, <1>2, <1>3, <1>5, <3>1
  <2> QED
    BY <1>2, <1>5, <2>1
<1>6. queue'["provisioning"] # << >> => Draining("provisioning", stack')
  <2> SUFFICES ASSUME queue'["provisioning"] # << >> PROVE Draining("provisioning", stack')
    OBVIOUS
  <2>1. CASE queue["provisioning"] # << >>
    <3>1. Draining("provisioning", stack)
      BY <2>1 DEF Busy
    <3> QED
      BY <1>2, <3>1
  <2> QED
    BY <2>1
<1> QED
  BY <1>4, <1>5, <1>6 DEF Busy

\* What a step that writes nothing has to leave
LEMMA QuietKeeps ==
  ASSUME BInv, UNCHANGED store, Nested(stack'),
         \A f \in Range(stack') : f.op = "bind" => f \in Range(stack) \/ BindMeans(f),
         \A f \in Range(stack) : Unwritten(f) => f \in Range(stack'),
         \A v \in Names : InQueue("volumes", v) \/ VolumeComes(v, stack) =>
           InQueue("volumes", v)' \/ VolumeComes(v, stack') \/ ~Orphan(v),
         \A c \in Claims : InQueue("claims", c) \/ ClaimComes(c, stack) =>
           InQueue("claims", c)' \/ ClaimComes(c, stack') \/ ~Dirty(c),
         Known', Busy'
  PROVE  BInv'
<1>1. /\ claims' = claims /\ volumes' = volumes
      /\ \A c : (Good(c)' <=> Good(c)) /\ (Dirty(c)' <=> Dirty(c))
      /\ \A v : (Settled(v)' <=> Settled(v)) /\ (Orphan(v)' <=> Orphan(v))
      /\ \A f : BindMeans(f)' <=> BindMeans(f)
  BY SameObjects
<1>2. BindsMean'
  BY <1>1 DEF BInv, BindsMean
<1>3. \A c, v : Binding(c, v, FALSE, stack) => Binding(c, v, FALSE, stack')
  BY DEF Binding, Unwritten
<1>4. OneVolume'
  BY <1>1, <1>3 DEF BInv, OneVolume
<1>5. OrphansSeen' /\ DirtSeen'
  BY <1>1 DEF BInv, OrphansSeen, DirtSeen
<1> QED
  BY <1>2, <1>4, <1>5 DEF BInv

-------------------------------------------------------------------------------
(* Queues *)

LEMMA InAppend ==
  ASSUME NEW S, NEW list \in Seq(S), NEW e \in S
  PROVE  \A k : (\E i \in DOMAIN Append(list, e) : Append(list, e)[i] = k)
                  <=> (\E i \in DOMAIN list : list[i] = k) \/ k = e
<1> DEFINE longer == Append(list, e)
<1>1. /\ DOMAIN longer = 1..(Len(list) + 1) /\ longer[Len(list) + 1] = e /\ Len(list) \in Nat
      /\ \A i \in 1..Len(list) : longer[i] = list[i]
      /\ DOMAIN list = 1..Len(list)
  BY AppendIs
<1> HIDE DEF longer
<1>2. ASSUME NEW i \in DOMAIN longer PROVE (i \in DOMAIN list /\ longer[i] = list[i]) \/ longer[i] = e
  BY <1>1
<1>3. ASSUME NEW i \in DOMAIN list PROVE i \in DOMAIN longer /\ longer[i] = list[i]
  BY <1>1
<1>4. Len(list) + 1 \in DOMAIN longer /\ longer[Len(list) + 1] = e
  BY <1>1
<1> QED
  BY <1>2, <1>3, <1>4 DEF longer

\* What add() does
LEMMA EnqueueIs ==
  ASSUME QueueType, NEW q \in Queues, NEW key \in Keys[q], NEW rest \in Seq(Frames),
         Enqueue(q, key, rest)
  PROVE  /\ UNCHANGED store
         /\ \A p \in Queues \ {q} : queue'[p] = queue[p]
         /\ \A p \in Queues : \A k : InQueue(p, k) => InQueue(p, k)'
         /\ \A p \in Queues : \A k : InQueue(p, k)' => InQueue(p, k) \/ (p = q /\ k = key)
         /\ InQueue(q, key)'
         /\ \/ queue'[q] = queue[q]
            \/ queue'[q] = Append(queue[q], key)
         /\ Draining(q, stack')
         /\ \/ Draining(q, rest) /\ stack' = rest
            \/ ~Draining(q, rest) /\ stack' = <<Loop(q, MaxBatch)>> \o rest
         /\ stack' \in Seq(Frames) /\ Loop(q, MaxBatch) \in Frames
         /\ Range(rest) \subseteq Range(stack')
         /\ Range(stack') \subseteq Range(rest) \cup {Loop(q, MaxBatch)}
         /\ Nested(rest) => Nested(stack')
<1> DEFINE loop == Loop(q, MaxBatch)
<1>1. loop \in Frames /\ IsLoop(loop, q) /\ loop.op = "loop" /\ loop.queue = q
  <2>1. loop \in Frames
    BY LoopTypes, BoundsAssumption
  <2> QED
    BY <2>1 DEF IsLoop, Loop
<1>2. queue' = Added(q, key) /\ UNCHANGED store
  BY DEF Enqueue, Return
<1>3. queue[q] \in Seq(Keys[q])
  BY DEF QueueType
<1>4. \/ queue' = queue /\ Contains(queue[q], key)
      \/ queue' = [queue EXCEPT ![q] = Append(queue[q], key)]
  BY <1>2 DEF Added
<1>5. /\ \A p \in Queues \ {q} : queue'[p] = queue[p]
      /\ (queue'[q] = queue[q] /\ Contains(queue[q], key)) \/ queue'[q] = Append(queue[q], key)
  BY <1>4 DEF QueueType
<1>6. \A k : InQueue(q, k)' <=> InQueue(q, k) \/ k = key
  <2>1. CASE queue'[q] = queue[q] /\ Contains(queue[q], key)
    BY <2>1 DEF InQueue, Contains
  <2>2. CASE queue'[q] = Append(queue[q], key)
    BY <1>3, <2>2, InAppend DEF InQueue
  <2> QED
    BY <1>5, <2>1, <2>2
<1>7. \A p \in Queues \ {q} : \A k : InQueue(p, k)' <=> InQueue(p, k)
  BY <1>5 DEF InQueue
<1>8. \/ Draining(q, rest) /\ stack' = rest
      \/ ~Draining(q, rest) /\ stack' = <<loop>> \o rest
  BY DEF Enqueue, Return
<1> HIDE DEF loop
<1>9. /\ stack' \in Seq(Frames) /\ Range(rest) \subseteq Range(stack')
      /\ Range(stack') \subseteq Range(rest) \cup {loop} /\ Draining(q, stack')
      /\ Nested(rest) => Nested(stack')
  <2>1. CASE Draining(q, rest) /\ stack' = rest
    BY <2>1
  <2>2. CASE ~Draining(q, rest) /\ stack' = <<loop>> \o rest
    <3>1. ~\E g \in Range(rest) : IsLoop(g, q)
      BY <2>2, DrainingIs
    <3>2. Above(loop, Range(rest))
      BY <1>1, <3>1 DEF Above, IsLoop, Unwritten
    <3>3. /\ stack' \in Seq(Frames) /\ Range(stack') = {loop} \cup Range(rest)
          /\ Nested(rest) => Nested(stack')
      BY <1>1, <2>2, <3>2, PushIs
    <3> QED
      BY <1>1, <3>3, DrainingIs
  <2> QED
    BY <1>8, <2>1, <2>2
<1>10. /\ \A p \in Queues : \A k : InQueue(p, k) => InQueue(p, k)'
       /\ \A p \in Queues : \A k : InQueue(p, k)' => InQueue(p, k) \/ (p = q /\ k = key)
       /\ InQueue(q, key)'
  BY <1>6, <1>7
<1>11. queue'[q] = queue[q] \/ queue'[q] = Append(queue[q], key)
  BY <1>5
<1> QED
  BY <1>1, <1>2, <1>5, <1>8, <1>9, <1>10, <1>11 DEF loop

\* The first key of a queue is taken.
LEMMA TakeIs ==
  ASSUME QueueType, NEW q \in Queues, queue[q] # << >>,
         queue' = [queue EXCEPT ![q] = Tail(queue[q])]
  PROVE  /\ \A p \in Queues \ {q} : queue'[p] = queue[p]
         /\ queue'[q] = Tail(queue[q])
         /\ Head(queue[q]) \in Keys[q] /\ InQueue(q, Head(queue[q]))
         /\ \A p \in Queues : \A k : InQueue(p, k)' => InQueue(p, k)
         /\ \A p \in Queues : \A k : InQueue(p, k) => InQueue(p, k)' \/ (p = q /\ k = Head(queue[q]))
<1> DEFINE list == queue[q]
<1>1. list \in Seq(Keys[q]) /\ DOMAIN queue = Queues
  BY DEF QueueType
<1>2. /\ \A p \in Queues \ {q} : queue'[p] = queue[p]
      /\ queue'[q] = Tail(list)
  BY <1>1
<1> HIDE DEF list
<1>3. /\ Head(list) \in Keys[q] /\ Head(list) = list[1] /\ 1 \in DOMAIN list
      /\ DOMAIN Tail(list) = 1..(Len(list) - 1) /\ DOMAIN list = 1..Len(list)
      /\ Len(list) \in Nat
      /\ \A i \in 1..(Len(list) - 1) : Tail(list)[i] = list[i + 1]
  BY <1>1 DEF list
<1>4. ASSUME NEW i \in DOMAIN Tail(list) PROVE i + 1 \in DOMAIN list /\ Tail(list)[i] = list[i + 1]
  BY <1>3
<1>5. ASSUME NEW i \in DOMAIN list, i # 1
      PROVE  i - 1 \in DOMAIN Tail(list) /\ Tail(list)[i - 1] = list[i]
  <2>1. i - 1 \in 1..(Len(list) - 1) /\ (i - 1) + 1 = i
    BY <1>3, <1>5
  <2> QED
    BY <1>3, <2>1
<1>6. \A k : (\E i \in DOMAIN Tail(list) : Tail(list)[i] = k) => \E i \in DOMAIN list : list[i] = k
  BY <1>4
<1>7. \A k : (\E i \in DOMAIN list : list[i] = k) =>
        (\E i \in DOMAIN Tail(list) : Tail(list)[i] = k) \/ k = Head(list)
  BY <1>3, <1>5
<1>8. \A k : InQueue(q, k)' <=> \E i \in DOMAIN Tail(list) : Tail(list)[i] = k
  BY <1>2 DEF InQueue
<1>9. \A k : InQueue(q, k) <=> \E i \in DOMAIN list : list[i] = k
  BY DEF InQueue, list
<1>10. \A p \in Queues \ {q} : \A k : InQueue(p, k)' <=> InQueue(p, k)
  BY <1>2 DEF InQueue
<1>11. InQueue(q, Head(list))
  BY <1>3, <1>9
<1>12. \A p \in Queues : \A k : InQueue(p, k)' => InQueue(p, k)
  BY <1>6, <1>8, <1>9, <1>10
<1>13. \A p \in Queues : \A k : InQueue(p, k) => InQueue(p, k)' \/ (p = q /\ k = Head(list))
  BY <1>7, <1>8, <1>9, <1>10
<1> QED
  BY <1>2, <1>3, <1>11, <1>12, <1>13 DEF list

-------------------------------------------------------------------------------
(* What a frame that leaves the stack has done, if nothing was written *)

\* The keys of the queues
KeysListed ==
  \A q \in Queues :
    /\ \A k : InQueue(q, k) => k \in Keys[q]
    /\ OpenIn(q) <=> \E k \in Keys[q] : InQueue(q, k) /\ IsOpen(q, k)
    /\ (queue[q] # << >>) <=> \E k \in Keys[q] : InQueue(q, k)

LEMMA InQueueIs == QueueType => KeysListed
<1> SUFFICES ASSUME QueueType, NEW q \in Queues
             PROVE  /\ \A k : InQueue(q, k) => k \in Keys[q]
                    /\ OpenIn(q) <=> \E k \in Keys[q] : InQueue(q, k) /\ IsOpen(q, k)
                    /\ (queue[q] # << >>) <=> \E k \in Keys[q] : InQueue(q, k)
  BY DEF KeysListed
<1> DEFINE list == queue[q]
<1>1. list \in Seq(Keys[q])
  BY DEF QueueType
<1>2. /\ DOMAIN list = 1..Len(list) /\ Len(list) \in Nat
      /\ \A i \in DOMAIN list : list[i] \in Keys[q]
  BY <1>1
<1> HIDE DEF list
<1>6. list # << >> => 1 \in DOMAIN list
  BY <1>1
<1>7. list = << >> => DOMAIN list = {}
  OBVIOUS
<1>3. \A k : InQueue(q, k) <=> \E i \in DOMAIN list : list[i] = k
  BY DEF InQueue, list
<1>4. OpenIn(q) <=> \E i \in DOMAIN list : IsOpen(q, list[i])
  BY DEF OpenIn, list
<1>5. (list # << >>) <=> \E k \in Keys[q] : InQueue(q, k)
  BY <1>2, <1>3, <1>6, <1>7
<1> QED
  BY <1>2, <1>3, <1>4, <1>5 DEF list

LEMMA InQueueNext == QueueType' => KeysListed'
BY InQueueIs, PTL

LEMMA Quiet ==
  ASSUME BInv, QueueType, QueueType', UNCHANGED store, Nested(stack'),
         \A f \in Range(stack) : f \in Range(stack') \/ Finished(f),
         \A f \in Range(stack') : f.op = "bind" => f \in Range(stack) \/ BindMeans(f),
         \A f \in Range(stack') : Untold(f, 2) =>
           \E g \in Range(stack) : Untold(g, 2) /\ g.event = f.event,
         \A q \in Queues : \A k : InQueue(q, k)' => InQueue(q, k) \/ Draining(q, stack'),
         \A c \in Claims : InQueue("claims", c) /\ Dirty(c) => InQueue("claims", c)',
         \A v \in Names : InQueue("volumes", v) /\ Orphan(v) => InQueue("volumes", v)',
         \A c \in Claims :
           \/ boundTo'[c] = boundTo[c]
           \/ boundTo'[c] = None /\ ~Good(c)
           \/ boundTo'[c] = claims[c].volume /\ Good(c)
  PROVE  BInv'
<1>1. \A c \in Claims : ClaimComes(c, stack) =>
        ClaimComes(c, stack') \/ (InQueue("claims", c)' /\ Draining("claims", stack'))
  BY DEF ClaimComes, Finished
<1>2. \A v \in Names : VolumeComes(v, stack) =>
        VolumeComes(v, stack') \/ (InQueue("volumes", v)' /\ Draining("volumes", stack'))
  BY DEF VolumeComes, Finished
<1>3. \A c \in Claims : ClaimGoes(c, stack) => ClaimGoes(c, stack') \/ boundTo'[c] = None
  BY DEF ClaimGoes, Finished
<1>4. Known'
  <2>1. ASSUME NEW c \in Claims, Binding(c, claims[c].volume, TRUE, stack)
        PROVE  Binding(c, claims[c].volume, TRUE, stack') \/ boundTo'[c] = claims[c].volume
    BY <2>1 DEF Binding, Finished
  <2>2. \A c \in Claims : ClaimGoes(c, stack') => ClaimGoes(c, stack)
    BY DEF ClaimGoes
  <2> QED
    BY <1>3, <2>1, <2>2, KnownStays DEF BInv
<1>5. Busy'
  <2>1. /\ \A c : Good(c)' <=> Good(c)
        /\ \A v : Settled(v)' <=> Settled(v)
    BY SameObjects
  <2>2. ASSUME NEW q \in Queues, Draining(q, stack)
        PROVE  Draining(q, stack') \/ ~OpenIn(q)'
    <3>1. PICK f \in Range(stack) : IsLoop(f, q)
      BY <2>2, DrainingIs
    <3> QED
      BY <3>1, DrainingIs DEF Finished
  <2>3. ASSUME NEW q \in Queues, ~OpenIn(q)'
        PROVE  /\ q = "claims" => \A c \in Claims : InQueue(q, c)' => Good(c)
               /\ q = "volumes" => \A v \in Names : InQueue(q, v)' => Settled(v)
               /\ q = "provisioning" => queue'[q] = << >>
    <3>1. /\ OpenIn(q)' <=> \E k \in Keys[q] : InQueue(q, k)' /\ IsOpen(q, k)'
          /\ (queue'[q] # << >>) <=> \E k \in Keys[q] : InQueue(q, k)'
      BY InQueueNext DEF KeysListed
    <3> QED
      BY <2>1, <2>3, <3>1, KeysOf DEF IsOpen
  <2>4. queue'["provisioning"] = << >> \/ queue["provisioning"] # << >>
          \/ Draining("provisioning", stack')
    <3>1. \A q \in Queues : (queue[q] # << >>) <=> \E k \in Keys[q] : InQueue(q, k)
      BY InQueueIs DEF KeysListed
    <3>2. \A q \in Queues : (queue'[q] # << >>) <=> \E k \in Keys[q] : InQueue(q, k)'
      BY InQueueNext DEF KeysListed
    <3> QED
      BY <3>1, <3>2, KeysOf
  <2> QED
    BY <1>1, <1>2, <2>2, <2>3, <2>4, BusyStays DEF BInv, Queues
<1>6. /\ \A v \in Names : InQueue("volumes", v) \/ VolumeComes(v, stack) =>
           InQueue("volumes", v)' \/ VolumeComes(v, stack') \/ ~Orphan(v)
      /\ \A c \in Claims : InQueue("claims", c) \/ ClaimComes(c, stack) =>
           InQueue("claims", c)' \/ ClaimComes(c, stack') \/ ~Dirty(c)
  BY <1>1, <1>2
<1>7. \A f \in Range(stack) : Unwritten(f) => f \in Range(stack')
  BY DEF Finished
<1> QED
  BY <1>4, <1>5, <1>6, <1>7, QuietKeeps

-------------------------------------------------------------------------------
(* Runs of the innermost frame that write nothing *)

\* What VolumeState may be told
BookKept ==
  \A c \in Claims :
    \/ boundTo'[c] = boundTo[c]
    \/ boundTo'[c] = None /\ ~Good(c)
    \/ boundTo'[c] = claims[c].volume /\ Good(c)

LEMMA QuietReturn ==
  ASSUME BInv, TypeInv, stack # << >>, UNCHANGED <<store, queue>>, Nested(stack'),
         Range(Tail(stack)) \subseteq Range(stack'), Finished(Head(stack)),
         \A f \in Range(stack') : f.op = "bind" => f \in Range(stack) \/ BindMeans(f),
         \A f \in Range(stack') : Untold(f, 2) =>
           \E g \in Range(stack) : Untold(g, 2) /\ g.event = f.event,
         BookKept
  PROVE  BInv'
<1>1. Range(stack) = {Head(stack)} \cup Range(Tail(stack))
  BY PopIs DEF TypeInv
<1>2. QueueType /\ QueueType'
  BY DEF TypeInv, QueueType
<1>3. \A q, k : InQueue(q, k)' <=> InQueue(q, k)
  BY DEF InQueue
<1> QED
  BY <1>1, <1>2, <1>3, Quiet DEF BookKept

LEMMA QuietEnqueue ==
  ASSUME BInv, TypeInv, stack # << >>, NEW q \in Queues, NEW key \in Keys[q],
         NEW base \in Seq(Frames), Enqueue(q, key, base), Nested(base),
         Range(Tail(stack)) \subseteq Range(base),
         \A f \in Range(base) : f.op = "bind" \/ Untold(f, 2) => f \in Range(stack),
         LET h == Head(stack)
         IN  /\ h.op # "loop" /\ ~Unwritten(h)
             /\ h.op = "bind" => boundTo'[h.claim] = h.volume
             /\ Untold(h, 2) =>
                  /\ \A c \in Claims : TellsClaim(h.event, c) => q = "claims" /\ key = c
                  /\ \A v \in Names : TellsVolume(h.event, v) => q = "volumes" /\ key = v
                  /\ \A c \in Claims : TellsGone(h.event, c) => boundTo'[c] = None,
         BookKept
  PROVE  BInv'
<1>1. Range(stack) = {Head(stack)} \cup Range(Tail(stack))
  BY PopIs DEF TypeInv
<1>2. QueueType /\ QueueType'
  BY Enqueues DEF TypeInv
<1>3. /\ UNCHANGED store
      /\ \A p \in Queues : \A k : InQueue(p, k) => InQueue(p, k)'
      /\ \A p \in Queues : \A k : InQueue(p, k)' => InQueue(p, k) \/ (p = q /\ k = key)
      /\ InQueue(q, key)' /\ Draining(q, stack') /\ Nested(stack')
      /\ Range(base) \subseteq Range(stack')
      /\ Range(stack') \subseteq Range(base) \cup {Loop(q, MaxBatch)}
  BY <1>2, EnqueueIs
<1>4. Finished(Head(stack))
  BY <1>3 DEF Finished, IsLoop
<1>5. \A f \in Range(stack) : f \in Range(stack') \/ Finished(f)
  BY <1>1, <1>3, <1>4
<1>6. \A f \in Range(stack') : f.op = "bind" \/ Untold(f, 2) => f \in Range(stack)
  BY <1>3 DEF Loop, Untold
<1>7. /\ \A p \in Queues : \A k : InQueue(p, k)' => InQueue(p, k) \/ Draining(p, stack')
      /\ \A c \in Claims : InQueue("claims", c) /\ Dirty(c) => InQueue("claims", c)'
      /\ \A v \in Names : InQueue("volumes", v) /\ Orphan(v) => InQueue("volumes", v)'
  BY <1>3, KeysOf
<1> QED
  BY <1>2, <1>3, <1>5, <1>6, <1>7, Quiet DEF BookKept

-------------------------------------------------------------------------------
(* Deliveries *)

\* What is left of a delivery when a subscriber has been called
Onward(frame) == [frame EXCEPT !.to = @ + 1]
After(frame, rest) ==
  IF frame.to = Len(Subscribers(frame.event)) THEN rest
  ELSE <<Onward(frame)>> \o rest

LEMMA AfterIs ==
  ASSUME NEW frame \in DeliverFrames, NEW rest \in Seq(Frames)
  PROVE  LET to == Subscribers(frame.event)
             after == After(frame, rest)
             next == Onward(frame)
         IN  /\ frame.event \in Events /\ after \in Seq(Frames)
             /\ Range(rest) \subseteq Range(after)
             /\ Nested(after) <=> Nested(rest)
             /\ frame.to \in {1, 2, 3}
             /\ frame.to = 1 =>
                  /\ to[frame.to] = "Provisioning"
                  /\ \/ frame.event.kind = "StorageClass" /\ after = rest
                     \/ /\ frame.event.kind # "StorageClass"
                        /\ after = <<next>> \o rest /\ Range(after) = {next} \cup Range(rest)
             /\ frame.to = 2 =>
                  /\ to[frame.to] = "Binding" /\ frame.event.kind # "StorageClass"
                  /\ after = <<next>> \o rest /\ Range(after) = {next} \cup Range(rest)
             /\ frame.to = 3 =>
                  /\ to[frame.to] = "PodVolume" /\ after = rest
                  /\ frame.event.kind # "StorageClass"
             /\ frame.op = "deliver" /\ next.op = "deliver" /\ next.to = frame.to + 1
             /\ next.event = frame.event
             /\ after = rest \/ next \in Frames
<1> DEFINE to == Subscribers(frame.event)
           after == After(frame, rest)
           next == Onward(frame)
<1>0. /\ frame.op = "deliver" /\ next.op = "deliver" /\ next.to = frame.to + 1
      /\ next.event = frame.event
  BY DEF DeliverFrames, Onward
<1>1. CASE frame.event.kind = "StorageClass"
  <2>1. frame.to = 1 /\ frame.event \in Events
    BY <1>1 DEF DeliverFrames, Events, ClaimEvents, VolumeEvents, PodEvents, ClassEvents
  <2>2. to = <<"Provisioning">>
    BY <1>1 DEF Subscribers
  <2>3. Len(to) = 1 /\ to[1] = "Provisioning"
    BY <2>2
  <2>4. after = rest
    BY <2>1, <2>3 DEF After
  <2> QED
    BY <1>0, <1>1, <2>1, <2>3, <2>4
<1>2. CASE frame.event.kind # "StorageClass"
  <2>1. /\ frame \in [op : {"deliver"}, event : ClaimEvents \cup VolumeEvents \cup PodEvents,
                      to : 1..3]
        /\ frame.event \in Events /\ frame.to \in 1..3
    BY <1>2 DEF DeliverFrames, Events, ClassEvents
  <2>2. to = <<"Provisioning", "Binding", "PodVolume">>
    BY <1>2 DEF Subscribers
  <2>3. Len(to) = 3 /\ to[3] = "PodVolume" /\ to[1] = "Provisioning" /\ to[2] = "Binding"
    BY <2>2
  <2>4. CASE frame.to = 3
    <3>1. after = rest
      BY <2>3, <2>4 DEF After
    <3> QED
      BY <1>0, <1>2, <2>1, <2>3, <2>4, <3>1
  <2>5. CASE frame.to # 3
    <3>1. frame.to \in {1, 2}
      BY <2>1, <2>5
    <3>2. next \in Frames
      BY <2>1, <3>1 DEF Frames, DeliverFrames, Onward
    <3>3. after = <<next>> \o rest
      BY <2>3, <3>1 DEF After
    <3>4. \A below : Above(next, below)
      BY <1>0 DEF Above, IsLoop, Unwritten
    <3> HIDE DEF next, after, to
    <3>5. /\ after \in Seq(Frames) /\ Range(after) = {next} \cup Range(rest)
          /\ Nested(after) <=> Nested(rest)
      BY <3>2, <3>3, <3>4, PushIs
    <3>6. \/ frame.to = 1 /\ to[frame.to] = "Provisioning"
          \/ frame.to = 2 /\ to[frame.to] = "Binding"
      BY <2>3, <3>1
    <3> QED
      BY <1>0, <1>2, <2>1, <3>2, <3>3, <3>5, <3>6 DEF next, after, to
  <2> QED
    BY <2>4, <2>5
<1> QED
  BY <1>1, <1>2

-------------------------------------------------------------------------------

\* Provisioning collects the claims to look at.
LEMMA ToProvisioning ==
  ASSUME NEW event \in Events, NEW rest \in Seq(Frames), HandleProvisioning(event, rest)
  PROVE  /\ UNCHANGED <<store, queue>>
         /\ \E keys \in SUBSET Claims :
              /\ stack' = AddAll("provisioning", keys) \o rest
              /\ event.kind = "Claim" /\ event.op # "Deleted" => keys = {event.name}
              /\ event.kind = "Pod" => keys = {event.ref}
              /\ event.kind \in {"StorageClass", "Volume"} => keys = PendingClaims
<1>1. UNCHANGED <<store, queue>>
  BY DEF HandleProvisioning, Return
<1>2. /\ event.kind = "Claim" => {event.name} \in SUBSET Claims
      /\ event.kind = "Pod" => {event.ref} \in SUBSET Claims
      /\ PendingClaims \in SUBSET Claims
  BY EventKinds DEF ClaimEvents, PodEvents, PendingClaims
<1>3. AddAll("provisioning", {}) \o rest = rest
  BY DEF AddAll
<1>4. event.kind \in {"Claim", "Volume", "Pod", "StorageClass"}
  BY DEF Events, ClaimEvents, VolumeEvents, PodEvents, ClassEvents
<1>5. CASE event.kind = "Claim" /\ event.op # "Deleted"
  <2>1. stack' = AddAll("provisioning", {event.name}) \o rest
    BY <1>5 DEF HandleProvisioning, Return
  <2> QED
    BY <1>1, <1>2, <1>5, <2>1
<1>6. CASE event.kind = "Claim" /\ event.op = "Deleted"
  <2>1. stack' = AddAll("provisioning", {}) \o rest
    BY <1>3, <1>6 DEF HandleProvisioning, Return
  <2> QED
    BY <1>1, <1>6, <2>1
<1>7. CASE event.kind = "Pod"
  <2>1. stack' = AddAll("provisioning", {event.ref}) \o rest
    BY <1>7 DEF HandleProvisioning, Return
  <2> QED
    BY <1>1, <1>2, <1>7, <2>1
<1>8. CASE event.kind \in {"StorageClass", "Volume"}
  <2>1. stack' = AddAll("provisioning", PendingClaims) \o rest
    BY <1>8 DEF HandleProvisioning, Return
  <2> QED
    BY <1>1, <1>2, <1>8, <2>1
<1> QED
  BY <1>4, <1>5, <1>6, <1>7, <1>8

\* The frame that holds a volume event while the queue of the volumes runs
MatchingFrame(v) == [op |-> "matching", volume |-> v]

\* Binding enqueues what the event names, or does nothing.
LEMMA ToBinding ==
  ASSUME NEW event \in Events, NEW rest \in Seq(Frames), HandleBinding(event, rest)
  PROVE  /\ UNCHANGED store
         /\ \/ /\ event.kind = "Volume" /\ event.op # "Deleted" /\ event.name \in Names
               /\ MatchingFrame(event.name) \in Frames
               /\ Enqueue("volumes", event.name, <<MatchingFrame(event.name)>> \o rest)
               /\ UNCHANGED boundTo
            \/ /\ event.kind = "Volume" /\ event.op = "Deleted" /\ event.ref \in Claims
               /\ Enqueue("claims", event.ref, rest) /\ UNCHANGED boundTo
            \/ /\ event.kind = "Volume" /\ event.op = "Deleted" /\ event.ref = None
               /\ stack' = rest /\ UNCHANGED <<queue, boundTo>>
            \/ /\ event.kind = "Claim" /\ event.op # "Deleted" /\ event.name \in Claims
               /\ Enqueue("claims", event.name, rest) /\ UNCHANGED boundTo
            \/ /\ event.kind = "Claim" /\ event.op = "Deleted" /\ event.name \in Claims
               /\ Unbind(event.name)
               /\ \/ event.ref = None /\ stack' = rest /\ UNCHANGED queue
                  \/ event.ref \in Names /\ Enqueue("volumes", event.ref, rest)
            \/ /\ event.kind = "Pod" /\ event.ref \in Claims /\ UNCHANGED boundTo
               /\ \/ /\ claims[event.ref] # None /\ Waits(claims[event.ref].class)
                     /\ Enqueue("claims", event.ref, rest)
                  \/ /\ ~(claims[event.ref] # None /\ Waits(claims[event.ref].class))
                     /\ stack' = rest /\ UNCHANGED queue
<1>1. UNCHANGED store
  BY DEF HandleBinding, HandlePod, Enqueue, Return
<1>2. /\ event.kind = "Volume" => event.name \in Names /\ event.ref \in Claims \cup {None}
      /\ event.kind = "Claim" => event.name \in Claims /\ event.ref \in Names \cup {None}
      /\ event.kind = "Pod" => event.ref \in Claims
  BY EventKinds DEF ClaimEvents, VolumeEvents, PodEvents
<1>3. \A v \in Names : MatchingFrame(v) \in Frames
  BY DEF Frames, MatchingFrames, MatchingFrame
<1>4. CASE /\ event.kind = "Volume" /\ event.op # "Deleted"
           /\ Enqueue("volumes", event.name,
                      <<[op |-> "matching", volume |-> event.name]>> \o rest)
           /\ UNCHANGED boundTo
  BY <1>1, <1>2, <1>3, <1>4 DEF MatchingFrame
<1>5. CASE /\ event.kind = "Volume" /\ event.op = "Deleted"
           /\ IF event.ref = None THEN Return(rest) /\ UNCHANGED queue
              ELSE Enqueue("claims", event.ref, rest)
           /\ UNCHANGED boundTo
  <2>1. CASE event.ref = None
    BY <1>1, <1>5, <2>1 DEF Return
  <2>2. CASE event.ref # None
    <3>1. event.ref \in Claims /\ Enqueue("claims", event.ref, rest)
      BY <1>2, <1>5, <2>2
    <3> QED
      BY <1>1, <1>5, <3>1
  <2> QED
    BY <2>1, <2>2
<1>6. CASE /\ event.kind = "Claim" /\ event.op # "Deleted"
           /\ Enqueue("claims", event.name, rest) /\ UNCHANGED boundTo
  BY <1>1, <1>2, <1>6
<1>7. CASE /\ event.kind = "Claim" /\ event.op = "Deleted"
           /\ Unbind(event.name)
           /\ IF event.ref = None THEN Return(rest) /\ UNCHANGED queue
              ELSE Enqueue("volumes", event.ref, rest)
  <2>1. CASE event.ref = None
    BY <1>1, <1>2, <1>7, <2>1 DEF Return
  <2>2. CASE event.ref # None
    <3>1. event.ref \in Names /\ Enqueue("volumes", event.ref, rest)
      BY <1>2, <1>7, <2>2
    <3> QED
      BY <1>1, <1>2, <1>7, <3>1
  <2> QED
    BY <2>1, <2>2
<1>8. CASE event.kind = "Pod" /\ HandlePod(event.ref, rest) /\ UNCHANGED boundTo
  BY <1>1, <1>2, <1>8 DEF HandlePod, Return
<1> QED
  BY <1>4, <1>5, <1>6, <1>7, <1>8 DEF HandleBinding

-------------------------------------------------------------------------------

LEMMA ProvisioningTold ==
  ASSUME BInv, TypeInv, NEW frame \in DeliverFrames, NEW rest \in Seq(Frames),
         stack = <<frame>> \o rest, frame.to = 1,
         HandleProvisioning(frame.event, After(frame, rest)), UNCHANGED boundTo
  PROVE  BInv'
<1> DEFINE after == After(frame, rest)
           next == Onward(frame)
<1>1. frame \in Frames
  BY DEF Frames
<1>2. /\ stack # << >> /\ Head(stack) = frame /\ Tail(stack) = rest /\ Nested(rest)
      /\ Range(stack) = {frame} \cup Range(rest)
  BY <1>1, PushIs DEF BInv
<1>3. /\ frame.event \in Events /\ after \in Seq(Frames)
      /\ Range(rest) \subseteq Range(after) /\ Nested(after)
      /\ \/ frame.event.kind = "StorageClass" /\ after = rest
         \/ /\ frame.event.kind # "StorageClass"
            /\ after = <<next>> \o rest /\ Range(after) = {next} \cup Range(rest)
      /\ frame.op = "deliver" /\ next.op = "deliver" /\ next.to = frame.to + 1
      /\ next.event = frame.event
  BY <1>2, AfterIs
<1> HIDE DEF after, next
<1>4. PICK keys \in SUBSET Claims : stack' = AddAll("provisioning", keys) \o after
  BY <1>3, ToProvisioning DEF after
<1>5. /\ Range(after) \subseteq Range(stack') /\ Nested(stack')
      /\ \A f \in Range(stack') : f.op = "addAll" \/ f \in Range(after)
  <2>1. after \in Seq(Frames) /\ Nested(after)
    BY <1>3
  <2>2. /\ Range(after) \subseteq Range(stack')
        /\ Nested(stack') <=> Nested(after)
    BY <1>4, <2>1, AddAllIs
  <2>3. \A f \in Range(stack') : f.op = "addAll" \/ f \in Range(after)
    BY <1>4, <2>1, AddAllIs
  <2> QED
    BY <2>1, <2>2, <2>3
<1>6. /\ \A c : TellsClaim(frame.event, c) => frame.event.kind # "StorageClass"
      /\ \A v : TellsVolume(frame.event, v) => frame.event.kind # "StorageClass"
      /\ \A c : TellsGone(frame.event, c) => frame.event.kind # "StorageClass"
  BY DEF TellsClaim, TellsVolume, TellsGone
<1>7. Finished(frame)
  <2>1. frame.event.kind # "StorageClass" =>
          next \in Range(stack') /\ Untold(next, 2) /\ next.event = frame.event
    BY <1>3, <1>5 DEF Untold
  <2> QED
    BY <1>3, <1>6, <2>1 DEF Finished, IsLoop, Unwritten, ClaimComes, VolumeComes, ClaimGoes
<1>8. \A f \in Range(stack') : Untold(f, 2) =>
           \E g \in Range(stack) : Untold(g, 2) /\ g.event = f.event
  BY <1>2, <1>3, <1>5 DEF Untold
<1>9. \A f \in Range(stack') : f.op = "bind" => f \in Range(stack)
  BY <1>2, <1>3, <1>5
<1>10. BookKept /\ UNCHANGED <<store, queue>>
  BY DEF BookKept, HandleProvisioning, Return
<1> QED
  BY <1>2, <1>3, <1>5, <1>7, <1>8, <1>9, <1>10, QuietReturn

LEMMA PodVolumeTold ==
  ASSUME BInv, TypeInv, NEW frame \in DeliverFrames, NEW rest \in Seq(Frames),
         stack = <<frame>> \o rest, frame.to = 3, Return(rest), UNCHANGED <<boundTo, queue>>
  PROVE  BInv'
<1>1. frame \in Frames /\ frame.op = "deliver"
  BY DEF Frames, DeliverFrames
<1>2. /\ stack # << >> /\ Head(stack) = frame /\ Tail(stack) = rest /\ Nested(rest)
      /\ Range(stack) = {frame} \cup Range(rest)
  BY <1>1, PushIs DEF BInv
<1>3. BookKept /\ UNCHANGED <<store, queue>> /\ stack' = rest
  BY DEF BookKept, Return
<1>4. Finished(frame)
  BY <1>1 DEF Finished, IsLoop, Unwritten, Untold
<1> QED
  BY <1>2, <1>3, <1>4, QuietReturn

LEMMA BindingTold ==
  ASSUME BInv, TypeInv, NEW frame \in DeliverFrames, NEW rest \in Seq(Frames),
         stack = <<frame>> \o rest, frame.to = 2,
         HandleBinding(frame.event, After(frame, rest))
  PROVE  BInv'
<1> DEFINE after == After(frame, rest)
           next == Onward(frame)
           event == frame.event
<1>1. frame \in Frames
  BY DEF Frames
<1>2. /\ stack # << >> /\ Head(stack) = frame /\ Tail(stack) = rest /\ Nested(rest)
      /\ Range(stack) = {frame} \cup Range(rest)
  BY <1>1, PushIs DEF BInv
<1>3. /\ event \in Events /\ after \in Seq(Frames) /\ Nested(after)
      /\ Range(after) = {next} \cup Range(rest)
      /\ frame.op = "deliver" /\ next.op = "deliver" /\ next.to = 3
  <2> HIDE DEF after, next, event
  <2>1. /\ event \in Events /\ after \in Seq(Frames) /\ Nested(after)
        /\ frame.op = "deliver" /\ next.op = "deliver" /\ next.to = frame.to + 1
    BY <1>2, AfterIs DEF after, next, event
  <2>2. Range(after) = {next} \cup Range(rest)
    BY <1>2, AfterIs DEF after, next
  <2> QED
    BY <2>1, <2>2, 2 + 1 = 3
<1>4. \A f \in Range(after) : f.op = "bind" \/ Untold(f, 2) => f \in Range(stack)
  BY <1>2, <1>3 DEF Untold
<1> HIDE DEF after, next, event
<1>5. HandleBinding(event, after) /\ frame.event = event
  BY DEF after, event
<1>6. frame.op # "loop" /\ frame.op # "bind" /\ ~Unwritten(frame)
  BY <1>3 DEF Unwritten
<1>7. UNCHANGED boundTo => BookKept
  BY DEF BookKept
<1>8. boundTo \in [Claims -> Names \cup {None}]
  BY DEF TypeInv, RestType
<1>9. CASE /\ event.kind = "Volume" /\ event.op # "Deleted" /\ event.name \in Names
           /\ MatchingFrame(event.name) \in Frames
           /\ Enqueue("volumes", event.name, <<MatchingFrame(event.name)>> \o after)
           /\ UNCHANGED boundTo
  <2> DEFINE m == MatchingFrame(event.name)
  <2>1. m.op = "matching" /\ \A below : Above(m, below)
    BY DEF Above, IsLoop, Unwritten, MatchingFrame
  <2> HIDE DEF m
  <2>2. /\ <<m>> \o after \in Seq(Frames) /\ Range(<<m>> \o after) = {m} \cup Range(after)
        /\ Nested(<<m>> \o after)
    BY <1>3, <1>9, <2>1, PushIs DEF m
  <2>3. /\ Range(rest) \subseteq Range(<<m>> \o after)
        /\ \A f \in Range(<<m>> \o after) : f.op = "bind" \/ Untold(f, 2) => f \in Range(stack)
    BY <1>3, <1>4, <2>1, <2>2 DEF Untold
  <2>4. /\ \A c : ~TellsClaim(event, c) /\ ~TellsGone(event, c)
        /\ \A v : TellsVolume(event, v) => event.name = v
    BY <1>9 DEF TellsClaim, TellsVolume, TellsGone
  <2>5. event.name \in Keys["volumes"] /\ "volumes" \in Queues
    BY <1>9, KeysOf
  <2>6. Enqueue("volumes", event.name, <<m>> \o after)
    BY <1>9 DEF m
  <2> QED
    BY <1>2, <1>5, <1>6, <1>7, <1>9, <2>2, <2>3, <2>4, <2>5, <2>6, QuietEnqueue
<1>10. CASE /\ event.kind = "Volume" /\ event.op = "Deleted" /\ event.ref \in Claims
            /\ Enqueue("claims", event.ref, after) /\ UNCHANGED boundTo
  <2>1. /\ \A c : TellsClaim(event, c) => event.ref = c
        /\ \A v : ~TellsVolume(event, v) /\ ~TellsGone(event, v)
    BY <1>10 DEF TellsClaim, TellsVolume, TellsGone
  <2>2. event.ref \in Keys["claims"] /\ "claims" \in Queues
    BY <1>10, KeysOf
  <2> QED
    BY <1>2, <1>3, <1>4, <1>5, <1>6, <1>7, <1>10, <2>1, <2>2, QuietEnqueue
<1>11. CASE event.kind = "Claim" /\ event.op # "Deleted" /\ event.name \in Claims
            /\ Enqueue("claims", event.name, after) /\ UNCHANGED boundTo
  <2>1. /\ \A c : TellsClaim(event, c) => event.name = c
        /\ \A v : ~TellsVolume(event, v) /\ ~TellsGone(event, v)
    BY <1>11 DEF TellsClaim, TellsVolume, TellsGone
  <2>2. event.name \in Keys["claims"] /\ "claims" \in Queues
    BY <1>11, KeysOf
  <2> QED
    BY <1>2, <1>3, <1>4, <1>5, <1>6, <1>7, <1>11, <2>1, <2>2, QuietEnqueue
<1>12. ASSUME stack' = after, UNCHANGED queue, BookKept,
              \A c : ~TellsClaim(event, c) /\ (TellsGone(event, c) => boundTo'[c] = None),
              \A v : ~TellsVolume(event, v)
       PROVE  BInv'
  <2>1. UNCHANGED store
    BY <1>3, <1>5, ToBinding
  <2>2. Finished(frame)
    BY <1>5, <1>6, <1>12 DEF Finished, IsLoop
  <2>3. Range(rest) \subseteq Range(stack')
    BY <1>3, <1>12
  <2> QED
    BY <1>2, <1>3, <1>4, <1>12, <2>1, <2>2, <2>3, QuietReturn
<1>13. CASE /\ event.kind = "Volume" /\ event.op = "Deleted" /\ event.ref = None
            /\ stack' = after /\ UNCHANGED <<queue, boundTo>>
  <2>1. /\ \A c \in Claims : ~TellsClaim(event, c) /\ ~TellsGone(event, c)
        /\ \A v : ~TellsVolume(event, v)
    BY <1>13, NoneAssumption DEF TellsClaim, TellsVolume, TellsGone
  <2>2. UNCHANGED store
    BY <1>3, <1>5, ToBinding
  <2>3. Finished(frame)
    BY <1>5, <1>6, <2>1 DEF Finished, IsLoop
  <2>4. Range(rest) \subseteq Range(stack')
    BY <1>3, <1>13
  <2> QED
    BY <1>2, <1>3, <1>4, <1>7, <1>13, <2>2, <2>3, <2>4, QuietReturn
<1>14. CASE /\ event.kind = "Claim" /\ event.op = "Deleted" /\ event.name \in Claims
            /\ Unbind(event.name)
            /\ \/ event.ref = None /\ stack' = after /\ UNCHANGED queue
               \/ event.ref \in Names /\ Enqueue("volumes", event.ref, after)
  <2>1. /\ \A c : ~TellsClaim(event, c)
        /\ \A c : TellsGone(event, c) <=> event.name = c
        /\ \A v : TellsVolume(event, v) => event.ref = v
    BY <1>14 DEF TellsClaim, TellsVolume, TellsGone
  <2>2. /\ boundTo'[event.name] = None
        /\ \A c \in Claims : c # event.name => boundTo'[c] = boundTo[c]
    BY <1>8, <1>14 DEF Unbind
  <2>3. claims[event.name] = None
    <3>1. Untold(frame, 2)
      BY <1>3 DEF Untold
    <3>2. ClaimGoes(event.name, stack)
      BY <1>2, <1>5, <2>1, <3>1 DEF ClaimGoes
    <3> QED
      BY <1>14, <3>2 DEF BInv, Known
  <2>4. BookKept
    BY <2>2, <2>3 DEF BookKept, Good
  <2>5. CASE event.ref \in Names /\ Enqueue("volumes", event.ref, after)
    <3>1. event.ref \in Keys["volumes"] /\ "volumes" \in Queues
      BY <2>5, KeysOf
    <3> QED
      BY <1>2, <1>3, <1>4, <1>5, <1>6, <2>1, <2>2, <2>4, <2>5, <3>1, QuietEnqueue
  <2>6. CASE event.ref = None /\ stack' = after /\ UNCHANGED queue
    <3>1. UNCHANGED store
      BY <1>3, <1>5, ToBinding
    <3>2. \A v \in Names : ~TellsVolume(event, v)
      BY <2>1, <2>6, NoneAssumption
    <3>3. Finished(frame)
      BY <1>5, <1>6, <2>1, <2>2, <3>2 DEF Finished, IsLoop
    <3>4. Range(rest) \subseteq Range(stack')
      BY <1>3, <2>6
    <3> QED
      BY <1>2, <1>3, <1>4, <2>4, <2>6, <3>1, <3>3, <3>4, QuietReturn
  <2> QED
    BY <1>14, <2>5, <2>6
<1>15. CASE /\ event.kind = "Pod" /\ event.ref \in Claims /\ UNCHANGED boundTo
            /\ Enqueue("claims", event.ref, after) \/ (stack' = after /\ UNCHANGED queue)
  <2>1. /\ \A c : ~TellsClaim(event, c) /\ ~TellsGone(event, c)
        /\ \A v : ~TellsVolume(event, v)
    BY <1>15 DEF TellsClaim, TellsVolume, TellsGone
  <2>2. CASE Enqueue("claims", event.ref, after)
    <3>1. event.ref \in Keys["claims"] /\ "claims" \in Queues
      BY <1>15, KeysOf
    <3> QED
      BY <1>2, <1>3, <1>4, <1>5, <1>6, <1>7, <1>15, <2>1, <2>2, <3>1, QuietEnqueue
  <2>3. CASE stack' = after /\ UNCHANGED queue
    BY <1>7, <1>12, <1>15, <2>1, <2>3
  <2> QED
    BY <1>15, <2>2, <2>3
<1> QED
  BY <1>3, <1>5, <1>9, <1>10, <1>11, <1>13, <1>14, <1>15, ToBinding

LEMMA DeliverBInv ==
  ASSUME BInv, TypeInv, ~Idle, Head(stack).op = "deliver",
         DeliverStep(Head(stack), Tail(stack))
  PROVE  BInv'
<1> DEFINE frame == Head(stack)
           rest == Tail(stack)
           to == Subscribers(frame.event)
<1>1. /\ frame \in DeliverFrames /\ rest \in Seq(Frames) /\ stack = <<frame>> \o rest
  BY PopIs, FrameKinds DEF Idle, TypeInv
<1>2. \/ HandleProvisioning(frame.event, After(frame, rest)) /\ UNCHANGED boundTo
         /\ to[frame.to] = "Provisioning"
      \/ HandleBinding(frame.event, After(frame, rest)) /\ to[frame.to] = "Binding"
      \/ /\ to[frame.to] = "PodVolume"
         /\ Return(After(frame, rest)) /\ UNCHANGED <<boundTo, queue>>
  BY DEF DeliverStep, After, Onward
<1> HIDE DEF frame, rest
<1>3. /\ to[frame.to] = "Provisioning" => frame.to = 1
      /\ to[frame.to] = "Binding" => frame.to = 2
      /\ to[frame.to] = "PodVolume" => frame.to = 3 /\ After(frame, rest) = rest
  BY <1>1, AfterIs
<1> QED
  BY <1>1, <1>2, <1>3, ProvisioningTold, BindingTold, PodVolumeTold

-------------------------------------------------------------------------------
(* What a turn of a queue does *)

LEMMA SetClaimIs ==
  ASSUME NEW op, NEW c, NEW new, NEW rest, SetClaim(op, c, new, rest),
         op = "Created" \/ claims[c] # None
  PROVE  WroteClaim(op, c, new, IF op = "Deleted" THEN claims[c].volume ELSE new.volume, rest)
BY DEF SetClaim, WroteClaim, Deliver, Delivery

LEMMA SetVolumeIs ==
  ASSUME NEW op, NEW v, NEW new, NEW rest, SetVolume(op, v, new, rest),
         op = "Created" \/ volumes[v] # None
  PROVE  WroteVolume(op, v, new, IF op = "Deleted" THEN volumes[v].claim ELSE new.claim, rest)
BY DEF SetVolume, WroteVolume, Deliver, Delivery

LEMMA ReadIs ==
  ASSUME StoreType
  PROVE  /\ \A c \in Claims : claims[c] # None =>
              /\ ToPending(claims[c]).volume = None /\ ~ToPending(claims[c]).bound
              /\ WithClass(claims[c]).volume = claims[c].volume
              /\ WithClass(claims[c]).class = DefaultClass
              /\ WithClass(claims[c]).bound = claims[c].bound
              /\ ToPending(claims[c]).class = claims[c].class
              /\ claims[c].bound <=> claims[c].volume # None
         /\ \A v \in Names, c \in Claims : volumes[v] # None =>
              ToBoundVolume(volumes[v], c).claim = c
         /\ \A v \in Names : volumes[v] # None => ToReleased(volumes[v]).claim = None
<1>1. ASSUME NEW c \in Claims, claims[c] # None
      PROVE  /\ ToPending(claims[c]).volume = None /\ ~ToPending(claims[c]).bound
             /\ WithClass(claims[c]).volume = claims[c].volume
             /\ WithClass(claims[c]).class = DefaultClass
             /\ WithClass(claims[c]).bound = claims[c].bound
             /\ ToPending(claims[c]).class = claims[c].class
             /\ claims[c].bound <=> claims[c].volume # None
  <2>1. claims[c] \in Claimed
    BY <1>1 DEF StoreType
  <2> QED
    BY <2>1 DEF ToPending, WithClass, Claimed, ClaimValues
<1>2. ASSUME NEW v \in Names, volumes[v] # None
      PROVE  /\ \A c \in Claims : ToBoundVolume(volumes[v], c).claim = c
             /\ ToReleased(volumes[v]).claim = None
  <2>1. volumes[v] \in Backed
    BY <1>2 DEF StoreType
  <2> QED
    BY <2>1 DEF ToBoundVolume, ToReleased, Backed, VolumeValues
<1> QED
  BY <1>1, <1>2

LEMMA ClaimTurn ==
  ASSUME StoreType, NEW c \in Claims, NEW rest \in Seq(Frames), ReconcileClaim(c, rest)
  PROVE  \/ TurnWaits(c, rest) \/ TurnRests(c, rest) \/ TurnGivesUp(c, rest)
         \/ TurnRetakes(c, rest) \/ \E v \in Names : TurnTakes(c, v, rest)
<1>1. CASE claims[c] = None
  <2>1. Unbind(c) /\ UNCHANGED store /\ stack' = rest
    BY <1>1 DEF ReconcileClaim, Return
  <2> QED
    BY <1>1, <2>1 DEF TurnWaits, Good, Dirty
<1>2. CASE claims[c] # None /\ claims[c].volume # None
  <2> DEFINE v == claims[c].volume
             bind == <<BindFrame(c, claims[c], v, claims[c].bound)>> \o rest
  <2>1. v \in Names /\ claims[c].bound = TRUE
    BY <1>2, RefTypes DEF Claimed, ClaimValues
  <2>2. SyncBound(c, claims[c], rest)
    BY <1>2 DEF ReconcileClaim
  <2>3. CASE volumes[v] = None \/ volumes[v].claim \notin {None, c}
    <3>1. Dirty(c)
      BY <1>2, <2>3 DEF Dirty, Good
    <3>2. Unbind(c) /\ SetClaim("Updated", c, ToPending(claims[c]), rest)
      BY <2>2, <2>3 DEF SyncBound, GoPending
    <3>3. WroteClaim("Updated", c, ToPending(claims[c]), ToPending(claims[c]).volume, rest)
      BY <1>2, <3>2, SetClaimIs
    <3> QED
      BY <1>2, <3>1, <3>2, <3>3, ReadIs DEF TurnGivesUp
  <2>4. CASE volumes[v] # None /\ volumes[v].claim = c
    <3>1. UNCHANGED boundTo /\ Return(bind)
      BY <2>2, <2>4 DEF SyncBound
    <3>2. Good(c)
      BY <1>2, <2>4 DEF Good
    <3> QED
      BY <2>1, <3>1, <3>2 DEF TurnRests, Return
  <2>5. CASE volumes[v] # None /\ volumes[v].claim = None
    <3>1. volumes[v].claim # c
      BY <2>5, NoneAssumption
    <3>2. UNCHANGED boundTo /\ SetVolume("Updated", v, ToBoundVolume(volumes[v], c), bind)
      BY <2>2, <2>5, <3>1 DEF SyncBound
    <3>3. WroteVolume("Updated", v, ToBoundVolume(volumes[v], c), c, bind)
      <4> HIDE DEF bind, v
      <4> QED
        BY <2>1, <2>5, <3>2, SetVolumeIs, ReadIs
    <3>4. Dirty(c)
      BY <1>2, <3>1 DEF Dirty, Good
    <3> QED
      BY <2>1, <2>5, <3>2, <3>3, <3>4 DEF TurnRetakes
  <2> QED
    BY <2>3, <2>4, <2>5
<1>3. CASE claims[c] # None /\ claims[c].volume = None
  <2>1. SyncUnbound(c, claims[c], rest) /\ ~claims[c].bound
    BY <1>3, ReadIs DEF ReconcileClaim
  <2>2. ~Good(c) /\ ~Dirty(c)
    BY <1>3 DEF Good, Dirty
  <2>3. CASE /\ Held(c, claims[c]) \/ Candidates(claims[c]) = {}
             /\ Unbind(c) /\ Return(rest)
    BY <2>2, <2>3 DEF TurnWaits, Return
  <2>4. ASSUME ~Held(c, claims[c]), UNCHANGED boundTo, NEW v \in Candidates(claims[c]),
               SetVolume("Updated", v, ToBoundVolume(volumes[v], c),
                         <<BindFrame(c, claims[c], v, FALSE)>> \o rest)
        PROVE  v \in Names /\ TurnTakes(c, v, rest)
    <3> DEFINE bind == <<BindFrame(c, claims[c], v, FALSE)>> \o rest
    <3>1. v \in Names /\ volumes[v] # None
      BY DEF Candidates, Fits
    <3>2. WroteVolume("Updated", v, ToBoundVolume(volumes[v], c), c, bind)
      <4> HIDE DEF bind
      <4>1. SetVolume("Updated", v, ToBoundVolume(volumes[v], c), bind)
        BY <2>4 DEF bind
      <4> QED
        BY <3>1, <4>1, SetVolumeIs, ReadIs
    <3> QED
      BY <1>3, <2>4, <3>1, <3>2 DEF TurnTakes
  <2> QED
    BY <2>1, <2>3, <2>4 DEF SyncUnbound
<1> QED
  BY <1>1, <1>2, <1>3

LEMMA VolumeTurn ==
  ASSUME StoreType, NEW v \in Names, NEW rest \in Seq(Frames), ReconcileVolume(v, rest),
         UNCHANGED boundTo
  PROVE  TurnTells(v, rest) \/ TurnDeletes(v, rest) \/ TurnReleases(v, rest)
<1>1. CASE volumes[v] = None
  BY <1>1 DEF ReconcileVolume, Return, TurnTells, Orphan
<1>2. CASE volumes[v] # None /\ volumes[v].claim = None
  BY <1>2 DEF ReconcileVolume, Return, TurnTells, Orphan
<1>3. CASE volumes[v] # None /\ volumes[v].claim # None /\ claims[volumes[v].claim] # None
  BY <1>3 DEF ReconcileVolume, Return, TurnTells, Orphan
<1>4. CASE volumes[v] # None /\ volumes[v].claim # None /\ claims[volumes[v].claim] = None
  <2>1. Orphan(v)
    BY <1>4 DEF Orphan
  <2>2. \/ SetVolume("Deleted", v, None, rest)
        \/ SetVolume("Updated", v, ToReleased(volumes[v]), rest)
    BY <1>4 DEF ReconcileVolume
  <2>3. CASE SetVolume("Deleted", v, None, rest)
    <3>1. WroteVolume("Deleted", v, None, volumes[v].claim, rest)
      BY <1>4, <2>3, SetVolumeIs
    <3> QED
      BY <2>1, <3>1 DEF TurnDeletes
  <2>4. CASE SetVolume("Updated", v, ToReleased(volumes[v]), rest)
    <3>1. WroteVolume("Updated", v, ToReleased(volumes[v]), None, rest)
      BY <1>4, <2>4, SetVolumeIs, ReadIs
    <3> QED
      BY <2>1, <3>1 DEF TurnReleases
  <2> QED
    BY <2>2, <2>3, <2>4
<1> QED
  BY <1>1, <1>2, <1>3, <1>4

LEMMA ProvisioningTurn ==
  ASSUME StoreType, NEW c \in Claims, NEW rest \in Seq(Frames),
         ReconcileProvisioning(c, rest), UNCHANGED boundTo
  PROVE  TurnProvisions(c, rest) \/ TurnDefaults(c, rest)
<1>1. CASE claims[c] = None
  BY <1>1 DEF ReconcileProvisioning, Return, TurnProvisions
<1>2. CASE claims[c] # None /\ claims[c].class = None /\ DefaultClass \in classes
  <2> DEFINE base == <<ProvisionFrame(c, WithClass(claims[c]))>> \o rest
  <2>1. SetClaim("Updated", c, WithClass(claims[c]), base)
    BY <1>2 DEF ReconcileProvisioning, WithClass, ProvisionFrame
  <2>2. WroteClaim("Updated", c, WithClass(claims[c]), claims[c].volume, base)
    <3> HIDE DEF base
    <3> QED
      BY <1>2, <2>1, SetClaimIs, ReadIs
  <2> QED
    BY <1>2, <2>2 DEF TurnDefaults
<1>3. CASE claims[c] # None /\ ~(claims[c].class = None /\ DefaultClass \in classes)
  BY <1>3 DEF ReconcileProvisioning, Return, TurnProvisions, ProvisionFrame
<1> QED
  BY <1>1, <1>2, <1>3

-------------------------------------------------------------------------------
(* Other frames that write nothing *)

LEMMA HeadIs ==
  ASSUME TypeInv, ~Idle
  PROVE  /\ stack # << >> /\ Head(stack) \in Frames /\ Tail(stack) \in Seq(Frames)
         /\ stack = <<Head(stack)>> \o Tail(stack)
         /\ Range(stack) = {Head(stack)} \cup Range(Tail(stack))
         /\ Nested(stack) =>
              Above(Head(stack), Range(Tail(stack))) /\ Nested(Tail(stack))
BY PopIs DEF Idle, TypeInv

\* A loop ends when nothing is left to do in its queue.
LEMMA LoopEnds ==
  ASSUME BInv, TypeInv, ~Idle, Head(stack).op = "loop", ~OpenIn(Head(stack).queue),
         Return(Tail(stack)), UNCHANGED <<queue, boundTo>>
  PROVE  BInv'
<1>1. UNCHANGED store /\ stack' = Tail(stack)
  BY DEF Return
<1>2. BookKept
  BY DEF BookKept
<1>4. ASSUME NEW q PROVE OpenIn(q)' <=> OpenIn(q)
  BY <1>1, SameObjects DEF OpenIn, IsOpen
<1>5. Finished(Head(stack))
  BY <1>4 DEF Finished, IsLoop, Unwritten, Untold
<1> QED
  BY <1>1, <1>2, <1>5, HeadIs, QuietReturn DEF BInv

LEMMA NextEnds ==
  ASSUME BInv, TypeInv, ~Idle, Head(stack).op = "next", AfterNext(Head(stack), Tail(stack)),
         UNCHANGED <<queue, boundTo>>
  PROVE  BInv'
<1> DEFINE q == Head(stack).queue
           rest == Tail(stack)
<1>1. rest \in Seq(Frames) /\ Nested(rest) /\ Range(rest) = {}
  BY HeadIs DEF BInv, Above
<1>2. UNCHANGED store /\ BookKept
  BY DEF AfterNext, Return, BookKept
<1>3. Finished(Head(stack))
  BY DEF Finished, IsLoop, Unwritten, Untold
<1>4. CASE stack' = rest
  BY <1>1, <1>2, <1>3, <1>4, HeadIs, QuietReturn
<1>5. CASE stack' = <<Loop(q, MaxBatch)>> \o rest
  <2>1. q \in Queues
    BY HeadIs, FrameKinds DEF NextFrames
  <2>2. Loop(q, MaxBatch) \in Frames
    BY <2>1, LoopTypes, BoundsAssumption
  <2>3. Above(Loop(q, MaxBatch), {})
    BY DEF Above, IsLoop, Unwritten, Loop
  <2>4. Nested(stack') /\ Range(stack') = {Loop(q, MaxBatch)} \cup Range(rest)
    <3>1. ASSUME NEW loop \in Frames, NEW below \in Seq(Frames), stack' = <<loop>> \o below,
                 Above(loop, Range(below)), Nested(below)
          PROVE  Nested(stack') /\ Range(stack') = {loop} \cup Range(below)
      <4>1. Range(<<loop>> \o below) = {loop} \cup Range(below)
        BY PushIs
      <4>2. Nested(<<loop>> \o below) <=> Above(loop, Range(below)) /\ Nested(below)
        BY PushIs
      <4> QED
        BY <3>1, <4>1, <4>2
    <3>2. Above(Loop(q, MaxBatch), Range(rest))
      BY <1>1, <2>3
    <3> HIDE DEF q, rest
    <3> QED
      BY <1>1, <1>5, <2>2, <3>1, <3>2
  <2>5. \A f \in Range(stack') : f.op = "loop"
    BY <1>1, <2>4 DEF Loop
  <2> QED
    BY <1>1, <1>2, <1>3, <2>4, <2>5, HeadIs, QuietReturn DEF Untold
<1> QED
  BY <1>4, <1>5 DEF AfterNext, Return

LEMMA AddsAll ==
  ASSUME BInv, TypeInv, ~Idle, Head(stack).op = "addAll", AddAllStep(Head(stack), Tail(stack)),
         UNCHANGED boundTo
  PROVE  BInv'
<1> DEFINE frame == Head(stack)
           rest == Tail(stack)
<1>1. /\ frame \in AddAllFrames /\ frame.queue \in {"provisioning", "claims"}
      /\ frame.keys \in SUBSET Claims
  BY HeadIs, FrameKinds DEF AddAllFrames
<1>2. PICK key \in frame.keys :
        Enqueue(frame.queue, key, AddAll(frame.queue, frame.keys \ {key}) \o rest)
  BY DEF AddAllStep
<1>3. frame.queue \in Queues /\ key \in Keys[frame.queue] /\ frame.keys \ {key} \in SUBSET Claims
  BY <1>1, <1>2, KeysOf
<1> DEFINE q == frame.queue
           left == frame.keys \ {key}
           base == AddAll(q, left) \o rest
           new == AddAllFrame(q, left)
<1>4. rest \in Seq(Frames) /\ Nested(rest) /\ Range(stack) = {frame} \cup Range(rest)
  BY HeadIs DEF BInv
<1>5. new.op = "addAll"
  BY DEF AddAllFrame
<1>6. /\ base \in Seq(Frames) /\ Nested(base)
      /\ Range(rest) \subseteq Range(base)
      /\ Range(base) \subseteq Range(rest) \cup {new}
  <2>0. q \in {"provisioning", "claims"} /\ left \in SUBSET Claims
    BY <1>1, <1>3
  <2> HIDE DEF q, left, rest
  <2> QED
    BY <1>4, <2>0, AddAllIs
<1>7. \A f \in Range(base) : f.op = "bind" \/ Untold(f, 2) => f \in Range(stack)
  <2> HIDE DEF base, new, rest, frame
  <2> QED
    BY <1>4, <1>5, <1>6 DEF Untold
<1>8. BookKept /\ frame.op = "addAll"
  BY DEF BookKept
<1>9. ~Untold(frame, 2) /\ ~Unwritten(frame)
  BY <1>8 DEF Untold, Unwritten
<1> HIDE DEF base, new
<1>10. Enqueue(q, key, base)
  BY <1>2 DEF base
<1> QED
  BY <1>3, <1>6, <1>7, <1>8, <1>9, <1>10, HeadIs, QuietEnqueue

LEMMA ReturnsQuietly ==
  ASSUME BInv, TypeInv, ~Idle, Head(stack).op \in {"matching", "provision"},
         NEW keys \in SUBSET Claims, stack' = AddAll("claims", keys) \o Tail(stack),
         UNCHANGED <<store, queue, boundTo>>
  PROVE  BInv'
<1> DEFINE new == AddAllFrame("claims", keys)
<1>1. new.op = "addAll"
  BY DEF AddAllFrame
<1>2. /\ Nested(stack') /\ Range(Tail(stack)) \subseteq Range(stack')
      /\ Range(stack') \subseteq Range(Tail(stack)) \cup {new}
  BY HeadIs, AddAllIs DEF BInv
<1> HIDE DEF new
<1>3. \A f \in Range(stack') : f.op = "bind" \/ Untold(f, 2) => f \in Range(stack)
  BY <1>1, <1>2, HeadIs DEF Untold
<1>4. Finished(Head(stack)) /\ BookKept
  BY DEF Finished, IsLoop, Unwritten, Untold, BookKept
<1> QED
  BY <1>2, <1>3, <1>4, HeadIs, QuietReturn

LEMMA BindEnds ==
  ASSUME BInv, TypeInv, ~Idle, Head(stack).op = "bind", Head(stack).written,
         BindStep(Head(stack), Tail(stack))
  PROVE  BInv'
<1> DEFINE frame == Head(stack)
           rest == Tail(stack)
           c == frame.claim
           v == frame.volume
<1>1. frame \in BindFrames /\ c \in Claims /\ v \in Names
  BY HeadIs, FrameKinds DEF BindFrames
<1>2. boundTo' = [boundTo EXCEPT ![c] = v] /\ Enqueue("volumes", v, rest)
  BY DEF BindStep
<1>3. frame \in Range(stack) /\ BindMeans(frame)
  BY HeadIs DEF BInv, BindsMean
<1>4. Good(c) /\ claims[c].volume = v
  BY <1>1, <1>3, NoneAssumption DEF BindMeans, Good
<1>5. boundTo'[c] = v /\ \A d \in Claims : d # c => boundTo'[d] = boundTo[d]
  BY <1>1, <1>2 DEF TypeInv, RestType
<1>6. BookKept
  BY <1>4, <1>5 DEF BookKept
<1>7. rest \in Seq(Frames) /\ Nested(rest) /\ Range(rest) \subseteq Range(stack)
  BY HeadIs DEF BInv
<1>8. v \in Keys["volumes"] /\ "volumes" \in Queues
  BY <1>1, KeysOf
<1>9. frame.op = "bind" /\ ~Untold(frame, 2) /\ ~Unwritten(frame)
  BY DEF Untold, Unwritten
<1> QED
  BY <1>2, <1>5, <1>6, <1>7, <1>8, <1>9, HeadIs, QuietEnqueue

-------------------------------------------------------------------------------
(* Turns that write nothing *)

LEMMA QuietTurn ==
  ASSUME BInv, TypeInv, UNCHANGED store, NEW q \in Queues, Popped(q),
         NEW base, Turning(q, base), NEW new, Range(base) \subseteq Range(stack'),
         \A f \in Range(stack') : f = new \/ f \in Range(base), Nested(stack'),
         new.op \in {"provision", "addAll", "bind"},
         new.op = "bind" => BindMeans(new) \/ new \in Range(stack),
         q = "claims" => ~Dirty(Head(queue[q])),
         q = "volumes" => ~Orphan(Head(queue[q])),
         BookKept
  PROVE  BInv'
<1>1. QueueType /\ QueueType'
  BY Takes DEF TypeInv, Popped
<1>2. /\ \A p \in Queues : \A k : InQueue(p, k)' => InQueue(p, k)
      /\ \A p \in Queues : \A k : InQueue(p, k) => InQueue(p, k)' \/ (p = q /\ k = Head(queue[q]))
  BY <1>1, TakeIs DEF Popped
<1>3. \A p \in Queues : Draining(p, base) => Draining(p, stack')
  BY DrainingIs
<1>4. ASSUME NEW f \in Range(stack) PROVE f \in Range(stack') \/ Finished(f)
  <2>1. CASE f \in Range(base)
    BY <2>1
  <2>2. CASE IsLoop(f, q) /\ Draining(q, base)
    BY <1>3, <2>2 DEF Finished, IsLoop, Unwritten, Untold
  <2> QED
    BY <2>1, <2>2 DEF Turning
<1>5. \A f \in Range(stack') : f.op = "bind" => f \in Range(stack) \/ BindMeans(f)
  BY DEF Turning
<1>6. \A f \in Range(stack') : Untold(f, 2) =>
           \E g \in Range(stack) : Untold(g, 2) /\ g.event = f.event
  BY DEF Turning, Untold
<1>7. /\ \A c \in Claims : InQueue("claims", c) /\ Dirty(c) => InQueue("claims", c)'
      /\ \A v \in Names : InQueue("volumes", v) /\ Orphan(v) => InQueue("volumes", v)'
  BY <1>2, KeysOf
<1> QED
  BY <1>1, <1>2, <1>4, <1>5, <1>6, <1>7, Quiet DEF BookKept

LEMMA UnbindIs ==
  ASSUME TypeInv, NEW c \in Claims, Unbind(c)
  PROVE  boundTo'[c] = None /\ \A d \in Claims : d # c => boundTo'[d] = boundTo[d]
BY DEF Unbind, TypeInv, RestType

LEMMA ClaimTurnQuiet ==
  ASSUME BInv, TypeInv, Popped("claims"), NEW base, Turning("claims", base),
         NEW c \in Claims, c = Head(queue["claims"]),
         TurnWaits(c, base) \/ TurnRests(c, base)
  PROVE  BInv'
<1>1. "claims" \in Queues /\ base \in Seq(Frames) /\ Nested(base)
  BY KeysOf DEF Turning
<1>2. CASE TurnWaits(c, base)
  <2>1. ~Good(c) /\ ~Dirty(c) /\ UNCHANGED store /\ stack' = base
    BY <1>2 DEF TurnWaits
  <2>2. BookKept
    BY <1>2, <2>1, UnbindIs DEF BookKept, TurnWaits
  <2>3. [op |-> "provision"].op = "provision"
    OBVIOUS
  <2> QED
    BY <1>1, <2>1, <2>2, <2>3, QuietTurn
<1>3. CASE TurnRests(c, base)
  <2> DEFINE v == claims[c].volume
             bind == BindFrame(c, claims[c], v, TRUE)
  <2>1. /\ Good(c) /\ ~Dirty(c) /\ UNCHANGED store /\ BookKept
        /\ stack' = <<bind>> \o base
    BY <1>3 DEF TurnRests, BookKept, Dirty
  <2>2. claims[c] \in Claimed /\ v \in Names
    BY <2>1, RefTypes DEF Good, TypeInv
  <2>3. bind \in Frames /\ bind.op = "bind" /\ bind.claim = c /\ bind.volume = v /\ bind.written
    <3>1. bind \in Frames
      BY <1>1, <2>2, BindFrameTypes
    <3> QED
      BY <3>1 DEF BindFrame
  <2>4. BindMeans(bind)
    BY <2>1, <2>3 DEF BindMeans, Good
  <2>5. \A below : Above(bind, below)
    BY <2>3 DEF Above, IsLoop, Unwritten
  <2> HIDE DEF bind
  <2>6. Nested(stack') /\ Range(stack') = {bind} \cup Range(base)
    BY <1>1, <2>1, <2>3, <2>5, PushIs
  <2> QED
    BY <1>1, <2>1, <2>3, <2>4, <2>6, QuietTurn
<1> QED
  BY <1>2, <1>3

LEMMA VolumeTurnQuiet ==
  ASSUME BInv, TypeInv, Popped("volumes"), NEW base, Turning("volumes", base),
         NEW v \in Names, v = Head(queue["volumes"]), TurnTells(v, base)
  PROVE  BInv'
<1>1. "volumes" \in Queues /\ base \in Seq(Frames) /\ Nested(base)
  BY KeysOf DEF Turning
<1>2. ~Orphan(v) /\ UNCHANGED store /\ BookKept
  BY DEF TurnTells, BookKept
<1>3. ASSUME NEW keys \in SUBSET Claims, stack' = AddAll("claims", keys) \o base
      PROVE  BInv'
  <2> DEFINE new == AddAllFrame("claims", keys)
  <2>1. new.op = "addAll"
    BY DEF AddAllFrame
  <2>2. Range(base) \subseteq Range(stack')
    BY <1>1, <1>3, AddAllIs
  <2>4. Nested(stack')
    BY <1>1, <1>3, AddAllIs
  <2>3. \A f \in Range(stack') : f = new \/ f \in Range(base)
    BY <1>1, <1>3, AddAllIs
  <2> HIDE DEF new
  <2> QED
    BY <1>1, <1>2, <2>1, <2>2, <2>3, <2>4, QuietTurn
<1>4. AddAll("claims", {}) \o base = base
  BY DEF AddAll
<1>5. /\ ClaimsFor(volumes[v]) \in SUBSET Claims
      /\ volumes[v] # None /\ volumes[v].claim # None => {volumes[v].claim} \in SUBSET Claims
  BY RefTypes DEF ClaimsFor, PendingClaims, TypeInv
<1>6. CASE stack' = base
  <2>1. {} \in SUBSET Claims
    OBVIOUS
  <2> QED
    BY <1>3, <1>4, <1>6, <2>1
<1> QED
  BY <1>3, <1>5, <1>6 DEF TurnTells

LEMMA ProvisioningTurnQuiet ==
  ASSUME BInv, TypeInv, Popped("provisioning"), NEW base, Turning("provisioning", base),
         NEW c \in Claims, c = Head(queue["provisioning"]), TurnProvisions(c, base)
  PROVE  BInv'
<1>1. "provisioning" \in Queues /\ base \in Seq(Frames) /\ Nested(base)
  BY KeysOf DEF Turning
<1>2. UNCHANGED store /\ BookKept
  BY DEF TurnProvisions, BookKept
<1> DEFINE new == ProvisionFrame(c, claims[c])
<1>3. new.op = "provision" /\ \A below : Above(new, below)
  <2>1. new.op = "provision"
    BY DEF ProvisionFrame
  <2> HIDE DEF new
  <2> QED
    BY <2>1 DEF Above, IsLoop, Unwritten
<1>4. CASE stack' = base
  <2> HIDE DEF new
  <2> QED
    BY <1>1, <1>2, <1>3, <1>4, QuietTurn
<1>5. CASE claims[c] # None /\ stack' = <<new>> \o base
  <2>1. new \in Frames
    BY <1>5, RefTypes DEF TypeInv, Frames, ProvisionFrames, ProvisionFrame
  <2> HIDE DEF new
  <2>2. Nested(stack') /\ Range(stack') = {new} \cup Range(base)
    BY <1>1, <1>3, <1>5, <2>1, PushIs
  <2> QED
    BY <1>1, <1>2, <1>3, <2>2, QuietTurn
<1> QED
  BY <1>4, <1>5 DEF TurnProvisions

-------------------------------------------------------------------------------
(* Writes *)

LEMMA Persists ==
  ASSUME Carried
  PROVE  /\ \A c : ClaimComes(c, stack) => ClaimComes(c, stack')
         /\ \A v : VolumeComes(v, stack) => VolumeComes(v, stack')
         /\ \A c : ClaimGoes(c, stack) => ClaimGoes(c, stack')
         /\ \A q \in Queues : Draining(q, stack) => Draining(q, stack')
         /\ \A c, v : Binding(c, v, TRUE, stack) => Binding(c, v, TRUE, stack')
<1>1. \A f \in Range(stack) : Untold(f, 2) => f \in Range(stack')
  BY DEF Carried, Spent, Unwritten, IsLoop, Untold
<1>2. ASSUME NEW q \in Queues, Draining(q, stack) PROVE Draining(q, stack')
  <2>1. PICK f \in Range(stack) : IsLoop(f, q)
    BY <1>2, DrainingIs
  <2>2. CASE f \in Range(stack')
    BY <2>1, <2>2, DrainingIs
  <2>3. CASE Spent(f)
    BY <2>1, <2>3 DEF Spent, IsLoop, Unwritten
  <2> QED
    BY <2>2, <2>3 DEF Carried
<1>3. \A c, v : Binding(c, v, TRUE, stack) => Binding(c, v, TRUE, stack')
  BY DEF Carried, Spent, Unwritten, IsLoop, Binding
<1> QED
  BY <1>1, <1>2, <1>3 DEF ClaimComes, VolumeComes, ClaimGoes

\* Busy, where no key is added and every key that was settled is announced
LEMMA BusyOn ==
  ASSUME Busy, Carried, QueueType, QueueType',
         \A c \in Claims : claims'[c] # None /\ ~Good(c)' =>
           (claims[c] # None /\ ~Good(c)) \/ ClaimComes(c, stack'),
         \A v \in Names : volumes'[v] # None /\ ~Settled(v)' =>
           (volumes[v] # None /\ ~Settled(v)) \/ VolumeComes(v, stack')
  PROVE  Busy'
<1>1. /\ \A q \in Queues : \A k : InQueue(q, k)' => InQueue(q, k)
      /\ \A c : ClaimComes(c, stack) => ClaimComes(c, stack')
      /\ \A v : VolumeComes(v, stack) => VolumeComes(v, stack')
      /\ \A q \in Queues : Draining(q, stack) => Draining(q, stack')
  BY Persists DEF Carried
<1>2. queue'["provisioning"] # << >> => Draining("provisioning", stack')
  <2>1. queue'["provisioning"] # << >> => queue["provisioning"] # << >>
    BY <1>1, InQueueIs, InQueueNext, KeysOf DEF KeysListed
  <2> QED
    BY <1>1, <2>1, KeysOf DEF Busy
<1>3. ASSUME NEW c \in Claims, InQueue("claims", c)', claims'[c] # None, ~Good(c)'
      PROVE  Draining("claims", stack') \/ ClaimComes(c, stack')
  BY <1>1, <1>3, KeysOf DEF Busy
<1>4. ASSUME NEW v \in Names, InQueue("volumes", v)', volumes'[v] # None, ~Settled(v)'
      PROVE  Draining("volumes", stack') \/ VolumeComes(v, stack')
  BY <1>1, <1>4, KeysOf DEF Busy
<1> QED
  BY <1>2, <1>3, <1>4 DEF Busy

LEMMA VolumeWrite ==
  ASSUME BInv, TypeInv, QueueType', NEW v \in Names, NEW new,
         volumes' = [volumes EXCEPT ![v] = new], UNCHANGED <<claims, boundTo>>,
         Carried, Nested(stack'),
         \A f \in Range(stack') : f.op = "bind" =>
           BindMeans(f)' \/ (f \in Range(stack) /\ f.volume # v),
         \A c \in Claims : ClaimGoes(c, stack') => ClaimGoes(c, stack),
         \A c \in Claims : \A u \in Names :
           Binding(c, u, FALSE, stack) => Binding(c, u, FALSE, stack'),
         \A c \in Claims : InQueue("claims", c) => InQueue("claims", c)' \/ ~Dirty(c)',
         \A u \in Names : InQueue("volumes", u) => InQueue("volumes", u)' \/ ~Orphan(u)',
         \A c \in Claims : new # None /\ new.claim = c /\ claims[c] # None =>
           claims[c].volume = v \/ Binding(c, v, FALSE, stack'),
         Orphan(v)' => VolumeComes(v, stack'),
         new # None /\ ~Settled(v)' => VolumeComes(v, stack'),
         \A c \in Claims : Dirty(c)' => Dirty(c) \/ ClaimComes(c, stack'),
         \A c \in Claims : Good(c)' =>
           Good(c) \/ Binding(c, claims[c].volume, TRUE, stack')
  PROVE  BInv'
<1>1. /\ \A c : ClaimComes(c, stack) => ClaimComes(c, stack')
      /\ \A u : VolumeComes(u, stack) => VolumeComes(u, stack')
      /\ \A c : ClaimGoes(c, stack) => ClaimGoes(c, stack')
      /\ \A c, u : Binding(c, u, TRUE, stack) => Binding(c, u, TRUE, stack')
  BY Persists
<1>2. /\ claims' = claims /\ boundTo' = boundTo /\ volumes'[v] = new
      /\ \A u \in Names : u # v => volumes'[u] = volumes[u]
  BY DEF TypeInv, StoreType
<1>3. \A u \in Names : u # v => (Orphan(u)' <=> Orphan(u)) /\ (Settled(u)' <=> Settled(u))
  BY <1>2 DEF Orphan, Settled
<1>4. BindsMean'
  <2>1. ASSUME NEW f \in Range(stack'), f.op = "bind" PROVE BindMeans(f)'
    <3>1. CASE f \in Range(stack) /\ f.volume # v
      <4>1. BindMeans(f) /\ f.volume \in Names
        <5>1. f \in BindFrames
          BY <2>1, <3>1, FramesIn, FrameKinds DEF TypeInv
        <5> QED
          BY <2>1, <3>1, <5>1 DEF BInv, BindsMean, BindFrames
      <4> QED
        BY <1>2, <3>1, <4>1 DEF BindMeans
    <3> QED
      BY <2>1, <3>1
  <2> QED
    BY <2>1 DEF BindsMean
<1>5. OneVolume'
  <2>1. ASSUME NEW u \in Names, NEW c \in Claims,
               volumes'[u] # None, volumes'[u].claim = c, claims'[c] # None
        PROVE  claims'[c].volume = u \/ Binding(c, u, FALSE, stack')
    <3>1. CASE u = v
      BY <1>2, <2>1, <3>1
    <3>2. CASE u # v
      BY <1>2, <2>1, <3>2 DEF BInv, OneVolume
    <3> QED
      BY <3>1, <3>2
  <2> QED
    BY <2>1 DEF OneVolume
<1>6. OrphansSeen'
  <2>1. ASSUME NEW u \in Names, Orphan(u)'
        PROVE  InQueue("volumes", u)' \/ VolumeComes(u, stack')
    BY <1>1, <1>3, <2>1 DEF BInv, OrphansSeen
  <2> QED
    BY <2>1 DEF OrphansSeen
<1>7. DirtSeen'
  <2>1. ASSUME NEW c \in Claims, Dirty(c)'
        PROVE  InQueue("claims", c)' \/ ClaimComes(c, stack')
    BY <1>1, <2>1 DEF BInv, DirtSeen
  <2> QED
    BY <2>1 DEF DirtSeen
<1>8. Known'
  <2>1. ASSUME NEW c \in Claims
        PROVE  /\ claims'[c] = None => boundTo'[c] = None \/ ClaimGoes(c, stack')
               /\ claims'[c] # None =>
                    /\ ~ClaimGoes(c, stack')
                    /\ claims'[c].volume = None => boundTo'[c] = None
                    /\ Good(c)' => boundTo'[c] = claims'[c].volume
                                   \/ Binding(c, claims'[c].volume, TRUE, stack')
    BY <1>1, <1>2 DEF BInv, Known
  <2> QED
    BY <2>1 DEF Known
<1>9. Busy'
  <2>1. ASSUME NEW u \in Names, volumes'[u] # None, ~Settled(u)'
        PROVE  (volumes[u] # None /\ ~Settled(u)) \/ VolumeComes(u, stack')
    BY <1>2, <1>3, <2>1
  <2>2. ASSUME NEW c \in Claims, claims'[c] # None, ~Good(c)'
        PROVE  (claims[c] # None /\ ~Good(c)) \/ ClaimComes(c, stack')
    <3>1. CASE Good(c)
      <4>1. Dirty(c)' /\ ~Dirty(c)
        BY <1>2, <2>2, <3>1 DEF Good, Dirty
      <4> QED
        BY <4>1
    <3> QED
      BY <1>2, <2>2, <3>1
  <2> QED
    BY <2>1, <2>2, BusyOn DEF BInv, TypeInv
<1> QED
  BY <1>4, <1>5, <1>6, <1>7, <1>8, <1>9 DEF BInv

LEMMA ClaimWrite ==
  ASSUME BInv, TypeInv, QueueType', NEW c \in Claims, NEW new,
         claims' = [claims EXCEPT ![c] = new], UNCHANGED volumes,
         \A d \in Claims : d # c => boundTo'[d] = boundTo[d],
         Carried, Nested(stack'),
         \A f \in Range(stack') : f.op = "bind" =>
           BindMeans(f)' \/ (f \in Range(stack) /\ f.claim # c),
         \A d \in Claims : ClaimGoes(d, stack') => ClaimGoes(d, stack) \/ (d = c /\ new = None),
         \A d \in Claims : \A u \in Names :
           Binding(d, u, FALSE, stack) /\ d # c => Binding(d, u, FALSE, stack'),
         \A d \in Claims : InQueue("claims", d) => InQueue("claims", d)' \/ ~Dirty(d)',
         \A u \in Names : InQueue("volumes", u) => InQueue("volumes", u)' \/ ~Orphan(u)',
         \A u \in Names : new # None /\ volumes[u] # None /\ volumes[u].claim = c =>
           new.volume = u \/ Binding(c, u, FALSE, stack'),
         \A u \in Names : Orphan(u)' => Orphan(u) \/ VolumeComes(u, stack'),
         \A u \in Names : volumes[u] # None /\ ~Settled(u)' =>
           ~Settled(u) \/ VolumeComes(u, stack'),
         new # None => ClaimComes(c, stack'),
         new = None => boundTo'[c] = None \/ ClaimGoes(c, stack'),
         new # None =>
           /\ ~ClaimGoes(c, stack)
           /\ new.volume = None => boundTo'[c] = None
           /\ Good(c)' => boundTo'[c] = new.volume \/ Binding(c, new.volume, TRUE, stack')
  PROVE  BInv'
<1>1. /\ \A d : ClaimComes(d, stack) => ClaimComes(d, stack')
      /\ \A u : VolumeComes(u, stack) => VolumeComes(u, stack')
      /\ \A d : ClaimGoes(d, stack) => ClaimGoes(d, stack')
      /\ \A d, u : Binding(d, u, TRUE, stack) => Binding(d, u, TRUE, stack')
  BY Persists
<1>2. /\ volumes' = volumes /\ claims'[c] = new
      /\ \A d \in Claims : d # c => claims'[d] = claims[d]
  BY DEF TypeInv, StoreType
<1>3. \A d \in Claims : d # c => (Dirty(d)' <=> Dirty(d)) /\ (Good(d)' <=> Good(d))
  BY <1>2 DEF Dirty, Good
<1>4. BindsMean'
  <2>1. ASSUME NEW f \in Range(stack'), f.op = "bind" PROVE BindMeans(f)'
    <3>1. CASE f \in Range(stack) /\ f.claim # c
      <4>1. BindMeans(f) /\ f.claim \in Claims
        <5>1. f \in BindFrames
          BY <2>1, <3>1, FramesIn, FrameKinds DEF TypeInv
        <5> QED
          BY <2>1, <3>1, <5>1 DEF BInv, BindsMean, BindFrames
      <4> QED
        BY <1>2, <3>1, <4>1 DEF BindMeans
    <3> QED
      BY <2>1, <3>1
  <2> QED
    BY <2>1 DEF BindsMean
<1>5. OneVolume'
  <2>1. ASSUME NEW u \in Names, NEW d \in Claims,
               volumes'[u] # None, volumes'[u].claim = d, claims'[d] # None
        PROVE  claims'[d].volume = u \/ Binding(d, u, FALSE, stack')
    <3>1. CASE d = c
      BY <1>2, <2>1, <3>1 DEF Binding
    <3>2. CASE d # c
      <4>1. claims'[d] = claims[d] /\ volumes'[u] = volumes[u]
        BY <1>2, <3>2
      <4>2. claims[d].volume = u \/ Binding(d, u, FALSE, stack)
        BY <2>1, <4>1 DEF BInv, OneVolume
      <4> QED
        BY <3>2, <4>1, <4>2
    <3> QED
      BY <3>1, <3>2
  <2> QED
    BY <2>1 DEF OneVolume
<1>6. OrphansSeen'
  <2>1. ASSUME NEW u \in Names, Orphan(u)'
        PROVE  InQueue("volumes", u)' \/ VolumeComes(u, stack')
    BY <1>1, <2>1 DEF BInv, OrphansSeen
  <2> QED
    BY <2>1 DEF OrphansSeen
<1>7. DirtSeen'
  <2>1. ASSUME NEW d \in Claims, Dirty(d)'
        PROVE  InQueue("claims", d)' \/ ClaimComes(d, stack')
    <3>1. CASE d = c
      BY <1>2, <2>1, <3>1 DEF Dirty
    <3>2. CASE d # c
      BY <1>1, <1>3, <2>1, <3>2 DEF BInv, DirtSeen
    <3> QED
      BY <3>1, <3>2
  <2> QED
    BY <2>1 DEF DirtSeen
<1>8. Known'
  <2>1. ASSUME NEW d \in Claims
        PROVE  /\ claims'[d] = None => boundTo'[d] = None \/ ClaimGoes(d, stack')
               /\ claims'[d] # None =>
                    /\ ~ClaimGoes(d, stack')
                    /\ claims'[d].volume = None => boundTo'[d] = None
                    /\ Good(d)' => boundTo'[d] = claims'[d].volume
                                   \/ Binding(d, claims'[d].volume, TRUE, stack')
    <3>1. CASE d = c
      BY <1>2, <3>1
    <3>2. CASE d # c
      BY <1>1, <1>2, <1>3, <3>2 DEF BInv, Known
    <3> QED
      BY <3>1, <3>2
  <2> QED
    BY <2>1 DEF Known
<1>9. Busy'
  <2>1. ASSUME NEW u \in Names, volumes'[u] # None, ~Settled(u)'
        PROVE  (volumes[u] # None /\ ~Settled(u)) \/ VolumeComes(u, stack')
    BY <1>2, <2>1
  <2>2. ASSUME NEW d \in Claims, claims'[d] # None, ~Good(d)'
        PROVE  (claims[d] # None /\ ~Good(d)) \/ ClaimComes(d, stack')
    BY <1>2, <1>3, <2>2
  <2> QED
    BY <2>1, <2>2, BusyOn DEF BInv, TypeInv
<1> QED
  BY <1>4, <1>5, <1>6, <1>7, <1>8, <1>9 DEF BInv

-------------------------------------------------------------------------------
(* The stack of a write *)

LEMMA DeliveryIs ==
  ASSUME NEW event \in Events
  PROVE  /\ Delivery(event) \in Frames /\ Delivery(event).op = "deliver"
         /\ Delivery(event).event = event /\ Delivery(event).to = 1
         /\ Untold(Delivery(event), 2) /\ Untold(Delivery(event), 1)
         /\ \A below : Above(Delivery(event), below)
<1>1. Delivery(event) \in Frames
  BY EventFrames DEF Delivery, Events
<1>2. Delivery(event).op = "deliver" /\ Delivery(event).event = event /\ Delivery(event).to = 1
  BY DEF Delivery
<1> QED
  BY <1>1, <1>2 DEF Untold, Above, IsLoop, Unwritten

LEMMA WriteIs ==
  ASSUME NEW base, Acting(base), NEW event \in Events, NEW new, Delivered(event, new, base),
         \A q \in Queues : \A k : InQueue(q, k)' => InQueue(q, k)
  PROVE  /\ Carried /\ Nested(stack') /\ Delivery(event) \in Range(stack')
         /\ Range(base) \subseteq Range(stack')
         /\ \A f \in Range(stack') : f = Delivery(event) \/ f = new \/ f \in Range(base)
         /\ \A f \in Range(stack') : f.op = "bind" => f \in Range(stack) \/ f = new
         /\ \A c : ClaimGoes(c, stack') => ClaimGoes(c, stack) \/ TellsGone(event, c)
         /\ \A c : TellsClaim(event, c) => ClaimComes(c, stack')
         /\ \A v : TellsVolume(event, v) => VolumeComes(v, stack')
         /\ \A c : TellsGone(event, c) => ClaimGoes(c, stack')
<1> DEFINE d == Delivery(event)
<1>1. /\ d \in Frames /\ d.op = "deliver" /\ d.event = event /\ Untold(d, 2)
      /\ \A below : Above(d, below)
  BY DeliveryIs
<1>2. base \in Seq(Frames) /\ Nested(base) /\ new.op \in {"bind", "provision"}
  BY DEF Acting, Delivered
<1> HIDE DEF d
<1>3. /\ Nested(stack') /\ d \in Range(stack') /\ Range(base) \subseteq Range(stack')
      /\ \A f \in Range(stack') : f = d \/ f = new \/ f \in Range(base)
  <2>1. CASE stack' = <<d>> \o base
    <3>1. Nested(stack') /\ Range(stack') = {d} \cup Range(base)
      BY <1>1, <1>2, <2>1, PushIs
    <3> QED
      BY <3>1
  <2>2. CASE /\ new \in Frames /\ Above(new, Range(base))
             /\ stack' = <<d>> \o (<<new>> \o base)
    <3> DEFINE over == <<new>> \o base
    <3>1. over \in Seq(Frames) /\ Nested(over) /\ Range(over) = {new} \cup Range(base)
      BY <1>2, <2>2, PushIs
    <3> HIDE DEF over
    <3>2. Nested(stack') /\ Range(stack') = {d} \cup Range(over)
      BY <1>1, <2>2, <3>1, PushIs DEF over
    <3> QED
      BY <3>1, <3>2
  <2> QED
    BY <2>1, <2>2 DEF Delivered, d
<1>4. Carried
  <2>1. ASSUME NEW f \in Range(stack) PROVE f \in Range(stack') \/ Spent(f)
    <3>1. \A q : Draining(q, base) => Draining(q, stack')
      BY <1>3, DrainingIs
    <3> QED
      BY <1>3, <3>1 DEF Acting, Spent
  <2> QED
    BY <2>1 DEF Carried
<1>5. \A f \in Range(stack') : f.op = "bind" => f \in Range(stack) \/ f = new
  BY <1>1, <1>3 DEF Acting
<1>6. ASSUME NEW c, ClaimGoes(c, stack') PROVE ClaimGoes(c, stack) \/ TellsGone(event, c)
  <2>1. PICK f \in Range(stack') : Untold(f, 2) /\ TellsGone(f.event, c)
    BY <1>6 DEF ClaimGoes
  <2>2. CASE f = d
    BY <1>1, <2>1, <2>2
  <2>3. CASE f # d
    <3>1. f \in Range(base) /\ f.op = "deliver"
      BY <1>2, <1>3, <2>1, <2>3 DEF Untold
    <3> QED
      BY <2>1, <3>1 DEF Acting, ClaimGoes
  <2> QED
    BY <2>2, <2>3
<1>7. /\ \A c : TellsClaim(event, c) => ClaimComes(c, stack')
      /\ \A v : TellsVolume(event, v) => VolumeComes(v, stack')
      /\ \A c : TellsGone(event, c) => ClaimGoes(c, stack')
  BY <1>1, <1>3 DEF ClaimComes, VolumeComes, ClaimGoes
<1> QED
  BY <1>3, <1>4, <1>5, <1>6, <1>7 DEF d

LEMMA EventIs ==
  /\ \A op \in Ops : \A c \in Claims : \A ref \in Names \cup {None} :
       Event("Claim", op, c, ref) \in Events
  /\ \A op \in Ops : \A v \in Names : \A ref \in Claims \cup {None} :
       Event("Volume", op, v, ref) \in Events
BY DEF Event, Events, ClaimEvents, VolumeEvents

LEMMA TellsIs ==
  ASSUME NEW op, NEW name, NEW ref
  PROVE  /\ LET e == Event("Claim", op, name, ref)
            IN  /\ op # "Deleted" => TellsClaim(e, name)
                /\ op = "Deleted" /\ ref # None => TellsVolume(e, ref)
                /\ op = "Deleted" => TellsGone(e, name)
                /\ \A c : TellsGone(e, c) => op = "Deleted" /\ c = name
         /\ LET e == Event("Volume", op, name, ref)
            IN  /\ op # "Deleted" => TellsVolume(e, name)
                /\ op = "Deleted" /\ ref # None => TellsClaim(e, ref)
                /\ \A c : ~TellsGone(e, c)
BY DEF Event, TellsClaim, TellsVolume, TellsGone

LEMMA UnwrittenNeeds ==
  ASSUME NEW frames \in Seq(Frames), Nested(frames), NEW g \in Range(frames), Unwritten(g)
  PROVE  \E f \in Range(frames) : IsLoop(f, "claims")
<1>1. PICK i \in 1..Len(frames) : frames[i] = g
  BY DEF Range
<1>2. \E f \in Under(frames, i) : IsLoop(f, "claims")
  BY <1>1 DEF Nested, Above
<1>3. Under(frames, i) \subseteq Range(frames)
  <2>1. \A k \in (i + 1)..Len(frames) : k \in DOMAIN frames
    BY <1>1
  <2> QED
    BY <2>1 DEF Under, Range
<1> QED
  BY <1>2, <1>3

-------------------------------------------------------------------------------
(* Turns that write *)

LEMMA PoppedIs ==
  ASSUME TypeInv, NEW q \in Queues, Popped(q)
  PROVE  /\ QueueType' /\ Head(queue[q]) \in Keys[q] /\ InQueue(q, Head(queue[q]))
         /\ \A p \in Queues : \A k : InQueue(p, k)' => InQueue(p, k)
         /\ \A p \in Queues : \A k : InQueue(p, k) =>
              InQueue(p, k)' \/ (p = q /\ k = Head(queue[q]))
BY Takes, TakeIs DEF TypeInv, Popped

LEMMA TurningActs ==
  ASSUME NEW q \in Queues, NEW base, Turning(q, base)
  PROVE  /\ Acting(base)
         /\ \A c, v, w : Binding(c, v, w, stack) => Binding(c, v, w, base)
         /\ \A f \in Range(stack) : Unwritten(f) => f \in Range(base)
BY DEF Turning, Acting, Binding, IsLoop, Unwritten

LEMMA DefaultsBInv ==
  ASSUME BInv, TypeInv, Popped("provisioning"), NEW base, Turning("provisioning", base),
         NEW c \in Claims, TurnDefaults(c, base)
  PROVE  BInv'
<1> DEFINE new == WithClass(claims[c])
           event == Event("Claim", "Updated", c, claims[c].volume)
           frame == ProvisionFrame(c, new)
<1>1. /\ claims[c] # None /\ UNCHANGED boundTo /\ UNCHANGED volumes
      /\ claims' = [claims EXCEPT ![c] = new]
      /\ stack' = <<Delivery(event)>> \o (<<frame>> \o base)
  BY DEF TurnDefaults, WroteClaim
<1>2. /\ claims[c] \in Claimed /\ claims[c].volume \in Names \cup {None}
      /\ new \in Claimed /\ new.volume = claims[c].volume /\ new # None
  <2>1. claims[c] \in Claimed /\ claims[c].volume \in Names \cup {None}
    BY <1>1, RefTypes DEF TypeInv
  <2>2. new \in Claimed
    BY <2>1, ClaimTypes DEF WithClass
  <2>3. new.volume = claims[c].volume
    BY <2>1 DEF WithClass
  <2>4. ~(None \in Claimed)
    BY NoneAssumption DEF Claimed
  <2> QED
    BY <2>1, <2>2, <2>3, <2>4
<1>3. event \in Events /\ "provisioning" \in Queues /\ "volumes" # "provisioning" /\ "claims" # "provisioning"
  BY <1>2, EventIs, KeysOf DEF Ops
<1>4. frame \in Frames /\ frame.op = "provision" /\ Above(frame, Range(base))
  <2>1. frame \in Frames /\ frame.op = "provision"
    BY <1>2 DEF ProvisionFrame, Frames, ProvisionFrames
  <2> HIDE DEF frame
  <2> QED
    BY <2>1 DEF Above, IsLoop, Unwritten
<1>5. \A d \in Claims : d # c => claims'[d] = claims[d]
  BY <1>1 DEF TypeInv, StoreType
<1>6. claims'[c] = new /\ volumes' = volumes /\ boundTo' = boundTo
  BY <1>1 DEF TypeInv, StoreType
<1>7. /\ \A d : TellsGone(event, d) => FALSE
      /\ TellsClaim(event, c)
  BY TellsIs
<1> HIDE DEF new, event, frame
<1>8. Delivered(event, frame, base) /\ Acting(base)
  BY <1>1, <1>3, <1>4, TurningActs DEF Delivered
<1>9. /\ QueueType'
      /\ \A p \in Queues : \A k : InQueue(p, k)' => InQueue(p, k)
      /\ \A p \in Queues : \A k : InQueue(p, k) =>
           InQueue(p, k)' \/ (p = "provisioning" /\ k = Head(queue["provisioning"]))
  BY <1>3, PoppedIs
<1>10. /\ Carried /\ Nested(stack') /\ Range(base) \subseteq Range(stack')
       /\ \A f \in Range(stack') : f.op = "bind" => f \in Range(stack) \/ f = frame
       /\ \A d : ClaimGoes(d, stack') => ClaimGoes(d, stack)
       /\ ClaimComes(c, stack')
  BY <1>3, <1>7, <1>8, <1>9, WriteIs
<1>11. \A d, u, w : Binding(d, u, w, stack) => Binding(d, u, w, stack')
  BY <1>3, <1>10, TurningActs, ComesMore
<1>12. \A f \in Range(stack') : f.op = "bind" => BindMeans(f)'
  <2>1. ASSUME NEW f \in Range(stack'), f.op = "bind" PROVE BindMeans(f)'
    <3>1. f \in Range(stack) /\ f \in Frames /\ f.claim \in Claims
      <4>1. f \in Range(stack)
        BY <1>4, <1>10, <2>1
      <4> QED
        BY <2>1, <4>1, FramesIn, FrameKinds DEF TypeInv, BindFrames
    <3>2. BindMeans(f)
      BY <2>1, <3>1 DEF BInv, BindsMean
    <3> QED
      BY <1>2, <1>5, <1>6, <3>1, <3>2 DEF BindMeans
  <2> QED
    BY <2>1
<1>13. \A d \in Claims : (claims'[d] = None <=> claims[d] = None)
         /\ (claims[d] # None => claims'[d].volume = claims[d].volume)
  BY <1>1, <1>2, <1>5, <1>6
<1>14. /\ \A d \in Claims : (Good(d)' <=> Good(d)) /\ (Dirty(d)' <=> Dirty(d))
       /\ \A u \in Names : (Orphan(u)' <=> Orphan(u)) /\ (Settled(u)' <=> Settled(u))
  <2>1. \A d \in Claims : (Good(d)' <=> Good(d)) /\ (Dirty(d)' <=> Dirty(d))
    BY <1>6, <1>13 DEF Good, Dirty
  <2>2. \A u \in Names : volumes[u] # None => volumes[u].claim \in Claims \cup {None}
    BY RefTypes DEF TypeInv
  <2> QED
    BY <1>6, <1>13, <2>1, <2>2 DEF Orphan, Settled
<1>15. \A u \in Names : volumes[u] # None /\ volumes[u].claim = c =>
         new.volume = u \/ Binding(c, u, FALSE, stack')
  BY <1>1, <1>2, <1>11 DEF BInv, OneVolume
<1>16. /\ ~ClaimGoes(c, stack)
       /\ new.volume = None => boundTo'[c] = None
       /\ Good(c)' => boundTo'[c] = new.volume \/ Binding(c, new.volume, TRUE, stack')
  BY <1>1, <1>2, <1>6, <1>11, <1>14 DEF BInv, Known
<1>17. /\ \A d \in Claims : InQueue("claims", d) => InQueue("claims", d)'
       /\ \A u \in Names : InQueue("volumes", u) => InQueue("volumes", u)'
  BY <1>3, <1>9, KeysOf
<1> QED
  BY <1>1, <1>2, <1>6, <1>9, <1>10, <1>11, <1>12, <1>14, <1>15, <1>16, <1>17, ClaimWrite
LEMMA WroteVolumeIs ==
  ASSUME TypeInv, NEW v \in Names, NEW op \in Ops, NEW ref \in Claims \cup {None}, NEW new,
         NEW base, Acting(base), NEW frame \in Frames, frame.op \in {"bind", "provision"},
         Above(frame, Range(base)),
         WroteVolume(op, v, new, ref, <<frame>> \o base),
         \A q \in Queues : \A k : InQueue(q, k)' => InQueue(q, k),
         \A f \in Range(stack) : Unwritten(f) => f \in Range(base)
  PROVE  VolumeWritten(op, v, new, ref, base, frame) /\ frame \in Range(stack')
<1> DEFINE event == Event("Volume", op, v, ref)
<1>1. /\ \A d : TellsGone(event, d) => FALSE
      /\ op # "Deleted" => TellsVolume(event, v)
      /\ op = "Deleted" /\ ref # None => TellsClaim(event, ref)
  BY TellsIs
<1>2. event \in Events
  BY EventIs
<1>3. /\ volumes' = [volumes EXCEPT ![v] = new] /\ UNCHANGED claims
      /\ stack' = <<Delivery(event)>> \o (<<frame>> \o base)
  BY DEF WroteVolume
<1> HIDE DEF event
<1>4. Delivered(event, frame, base)
  BY <1>3 DEF Delivered
<1>5. /\ Carried /\ Nested(stack') /\ Range(base) \subseteq Range(stack')
      /\ \A f \in Range(stack') : f.op = "bind" => f \in Range(stack) \/ f = frame
      /\ \A c : ClaimGoes(c, stack') => ClaimGoes(c, stack)
      /\ op # "Deleted" => VolumeComes(v, stack')
      /\ op = "Deleted" /\ ref # None => ClaimComes(ref, stack')
  BY <1>1, <1>2, <1>4, WriteIs
<1>6. \A c, u : Binding(c, u, FALSE, stack) => Binding(c, u, FALSE, stack')
  BY <1>5 DEF Binding, Unwritten
<1>7. volumes'[v] = new /\ \A u \in Names : u # v => volumes'[u] = volumes[u]
  BY <1>3 DEF TypeInv, StoreType
<1>8. frame \in Range(stack')
  <2> DEFINE rest == <<frame>> \o base
  <2>1. base \in Seq(Frames) /\ Delivery(event) \in Frames
    BY <1>2, DeliveryIs DEF Acting
  <2>2. rest \in Seq(Frames) /\ frame \in Range(rest)
    BY <2>1, PushIs
  <2>3. Range(stack') = {Delivery(event)} \cup Range(rest)
    <3> HIDE DEF rest
    <3> QED
      BY <1>3, <2>1, <2>2, PushIs DEF rest
  <2> QED
    BY <2>2, <2>3
<1> QED
  BY <1>3, <1>5, <1>6, <1>7, <1>8 DEF VolumeWritten

\* The same where nothing is left to do after the write
LEMMA WroteVolumeOnly ==
  ASSUME TypeInv, NEW v \in Names, NEW op \in Ops, NEW ref \in Claims \cup {None}, NEW new,
         NEW base, Acting(base), WroteVolume(op, v, new, ref, base),
         \A q \in Queues : \A k : InQueue(q, k)' => InQueue(q, k),
         \A f \in Range(stack) : Unwritten(f) => f \in Range(base)
  PROVE  VolumeWritten(op, v, new, ref, base, [op |-> "provision"])
<1> DEFINE event == Event("Volume", op, v, ref)
           frame == [op |-> "provision"]
<1>1. /\ \A d : TellsGone(event, d) => FALSE
      /\ op # "Deleted" => TellsVolume(event, v)
      /\ op = "Deleted" /\ ref # None => TellsClaim(event, ref)
  BY TellsIs
<1>2. event \in Events
  BY EventIs
<1>3. /\ volumes' = [volumes EXCEPT ![v] = new] /\ UNCHANGED claims
      /\ stack' = <<Delivery(event)>> \o base
  BY DEF WroteVolume
<1>4. frame.op = "provision" /\ frame.op # "bind"
  OBVIOUS
<1> HIDE DEF event, frame
<1>5. Delivered(event, frame, base)
  BY <1>3, <1>4 DEF Delivered
<1>6. /\ Carried /\ Nested(stack') /\ Range(base) \subseteq Range(stack')
      /\ \A f \in Range(stack') : f.op = "bind" => f \in Range(stack)
      /\ \A c : ClaimGoes(c, stack') => ClaimGoes(c, stack)
      /\ op # "Deleted" => VolumeComes(v, stack')
      /\ op = "Deleted" /\ ref # None => ClaimComes(ref, stack')
  BY <1>1, <1>2, <1>4, <1>5, WriteIs
<1>7. \A c, u : Binding(c, u, FALSE, stack) => Binding(c, u, FALSE, stack')
  BY <1>6 DEF Binding, Unwritten
<1>8. volumes'[v] = new /\ \A u \in Names : u # v => volumes'[u] = volumes[u]
  BY <1>3 DEF TypeInv, StoreType
<1> QED
  BY <1>3, <1>6, <1>7, <1>8 DEF VolumeWritten

LEMMA WroteClaimIs ==
  ASSUME TypeInv, NEW c \in Claims, NEW op \in Ops, NEW ref \in Names \cup {None}, NEW new,
         NEW base, Acting(base), NEW frame \in Frames, frame.op \in {"bind", "provision"},
         Above(frame, Range(base)),
         WroteClaim(op, c, new, ref, <<frame>> \o base),
         \A q \in Queues : \A k : InQueue(q, k)' => InQueue(q, k)
  PROVE  ClaimWritten(op, c, new, ref, base, frame) /\ frame \in Range(stack')
<1> DEFINE event == Event("Claim", op, c, ref)
<1>1. /\ \A d : TellsGone(event, d) => op = "Deleted" /\ d = c
      /\ op # "Deleted" => TellsClaim(event, c)
      /\ op = "Deleted" => TellsGone(event, c)
      /\ op = "Deleted" /\ ref # None => TellsVolume(event, ref)
  BY TellsIs
<1>2. event \in Events
  BY EventIs
<1>3. /\ claims' = [claims EXCEPT ![c] = new] /\ UNCHANGED volumes
      /\ stack' = <<Delivery(event)>> \o (<<frame>> \o base)
  BY DEF WroteClaim
<1> HIDE DEF event
<1>4. Delivered(event, frame, base)
  BY <1>3 DEF Delivered
<1>5. /\ Carried /\ Nested(stack') /\ Range(base) \subseteq Range(stack')
      /\ \A f \in Range(stack') : f = Delivery(event) \/ f = frame \/ f \in Range(base)
      /\ \A d : ClaimGoes(d, stack') => ClaimGoes(d, stack) \/ (d = c /\ op = "Deleted")
      /\ op # "Deleted" => ClaimComes(c, stack')
      /\ op = "Deleted" => ClaimGoes(c, stack')
      /\ op = "Deleted" /\ ref # None => VolumeComes(ref, stack')
  BY <1>1, <1>2, <1>4, WriteIs
<1>6. /\ \A f \in Range(stack') : f.op = "bind" => f = frame \/ f \in Range(base)
      /\ \A f \in Range(base) : f.op = "bind" => f \in Range(stack)
  BY <1>2, <1>5, DeliveryIs DEF Acting
<1>7. claims'[c] = new /\ \A d \in Claims : d # c => claims'[d] = claims[d]
  BY <1>3 DEF TypeInv, StoreType
<1>8. frame \in Range(stack')
  <2> DEFINE rest == <<frame>> \o base
  <2>1. base \in Seq(Frames) /\ Delivery(event) \in Frames
    BY <1>2, DeliveryIs DEF Acting
  <2>2. rest \in Seq(Frames) /\ frame \in Range(rest)
    BY <2>1, PushIs
  <2>3. Range(stack') = {Delivery(event)} \cup Range(rest)
    <3> HIDE DEF rest
    <3> QED
      BY <1>3, <2>1, <2>2, PushIs DEF rest
  <2> QED
    BY <2>2, <2>3
<1> QED
  BY <1>3, <1>5, <1>6, <1>7, <1>8 DEF ClaimWritten

LEMMA WroteClaimOnly ==
  ASSUME TypeInv, NEW c \in Claims, NEW op \in Ops, NEW ref \in Names \cup {None}, NEW new,
         NEW base, Acting(base), WroteClaim(op, c, new, ref, base),
         \A q \in Queues : \A k : InQueue(q, k)' => InQueue(q, k)
  PROVE  ClaimWritten(op, c, new, ref, base, [op |-> "provision"])
<1> DEFINE event == Event("Claim", op, c, ref)
           frame == [op |-> "provision"]
<1>1. /\ \A d : TellsGone(event, d) => op = "Deleted" /\ d = c
      /\ op # "Deleted" => TellsClaim(event, c)
      /\ op = "Deleted" => TellsGone(event, c)
      /\ op = "Deleted" /\ ref # None => TellsVolume(event, ref)
  BY TellsIs
<1>2. event \in Events
  BY EventIs
<1>3. /\ claims' = [claims EXCEPT ![c] = new] /\ UNCHANGED volumes
      /\ stack' = <<Delivery(event)>> \o base
  BY DEF WroteClaim
<1>0. frame.op = "provision" /\ frame.op # "bind"
  OBVIOUS
<1> HIDE DEF event, frame
<1>4. Delivered(event, frame, base)
  BY <1>0, <1>3 DEF Delivered
<1>5. /\ Carried /\ Nested(stack') /\ Range(base) \subseteq Range(stack')
      /\ \A f \in Range(stack') : f = Delivery(event) \/ f = frame \/ f \in Range(base)
      /\ \A d : ClaimGoes(d, stack') => ClaimGoes(d, stack) \/ (d = c /\ op = "Deleted")
      /\ op # "Deleted" => ClaimComes(c, stack')
      /\ op = "Deleted" => ClaimGoes(c, stack')
      /\ op = "Deleted" /\ ref # None => VolumeComes(ref, stack')
  BY <1>1, <1>2, <1>4, WriteIs
<1>6. /\ \A f \in Range(stack') : f.op = "bind" => f \in Range(base)
      /\ \A f \in Range(base) : f.op = "bind" => f \in Range(stack)
  BY <1>0, <1>2, <1>5, DeliveryIs DEF Acting
<1>7. claims'[c] = new /\ \A d \in Claims : d # c => claims'[d] = claims[d]
  BY <1>3 DEF TypeInv, StoreType
<1> QED
  BY <1>3, <1>5, <1>6, <1>7 DEF ClaimWritten

-------------------------------------------------------------------------------
(* The writes *)

LEMMA BindsKnown ==
  ASSUME BInv, TypeInv, NEW f \in Range(stack), f.op = "bind"
  PROVE  /\ f \in BindFrames /\ f.claim \in Claims /\ f.volume \in Names /\ f.written \in BOOLEAN
         /\ f.read \in Claimed /\ BindMeans(f)
<1>1. f \in BindFrames
  BY FramesIn, FrameKinds DEF TypeInv
<1> QED
  BY <1>1 DEF BindFrames, BInv, BindsMean

\* createResource of a volume, by a user or by provisioning
LEMMA CreatesVolume ==
  ASSUME BInv, TypeInv, NEW v \in Names, volumes[v] = None, NEW new \in Backed,
         new.claim = None, NEW base, Acting(base),
         \A f \in Range(stack) : Unwritten(f) => f \in Range(base),
         WroteVolume("Created", v, new, None, base), UNCHANGED <<queue, boundTo>>
  PROVE  BInv'
<1>1. "Created" \in Ops /\ "Created" # "Deleted"
  BY DEF Ops
<1>2. /\ QueueType' /\ \A q \in Queues : \A k : InQueue(q, k)' <=> InQueue(q, k)
  BY DEF TypeInv, QueueType, InQueue
<1>3a. VolumeWritten("Created", v, new, None, base, [op |-> "provision"])
  BY <1>1, <1>2, WroteVolumeOnly
<1>3b. [op |-> "provision"].op # "bind"
  OBVIOUS
<1>3. /\ Carried /\ Nested(stack')
      /\ \A f \in Range(stack') : f.op = "bind" => f \in Range(stack)
      /\ \A c : ClaimGoes(c, stack') => ClaimGoes(c, stack)
      /\ \A c, u : Binding(c, u, FALSE, stack) => Binding(c, u, FALSE, stack')
      /\ claims' = claims /\ volumes' = [volumes EXCEPT ![v] = new]
      /\ volumes'[v] = new /\ \A u \in Names : u # v => volumes'[u] = volumes[u]
      /\ VolumeComes(v, stack')
  BY <1>1, <1>3a, <1>3b DEF VolumeWritten
<1>4. None \notin Claims
  BY NoneAssumption
<1>5. \A f \in Range(stack') : f.op = "bind" => f \in Range(stack) /\ f.volume # v
  BY <1>1, <1>3, BindsKnown DEF BindMeans
<1>6. ~Orphan(v)'
  BY <1>3 DEF Orphan
<1>7. \A c \in Claims : (Good(c)' => Good(c)) /\ (Dirty(c)' => Dirty(c))
  <2> SUFFICES ASSUME NEW c \in Claims, claims[c] # None, claims[c].volume # None
               PROVE  Good(c)' => Good(c)
    BY <1>3 DEF Good, Dirty
  <2>1. claims[c].volume \in Names
    BY RefTypes DEF TypeInv
  <2> QED
    BY <1>3, <1>4, <2>1 DEF Good
<1>8. \A c \in Claims : Dirty(c)' => Dirty(c)
  <2> SUFFICES ASSUME NEW c \in Claims, claims[c] # None, claims[c].volume # None, Good(c)
               PROVE  Good(c)'
    BY <1>3 DEF Good, Dirty
  <2>1. claims[c].volume \in Names /\ claims[c].volume # v
    BY RefTypes DEF TypeInv, Good
  <2> QED
    BY <1>3, <2>1 DEF Good
<1>9. \A c \in Claims : new # None /\ new.claim = c /\ claims[c] # None =>
        claims[c].volume = v \/ Binding(c, v, FALSE, stack')
  BY <1>4
<1>10. UNCHANGED <<claims, boundTo>>
  BY <1>3
<1>11. /\ \A c \in Claims : InQueue("claims", c) => InQueue("claims", c)'
       /\ \A u \in Names : InQueue("volumes", u) => InQueue("volumes", u)'
  BY <1>2, KeysOf
<1>12. QueueType'
  BY <1>2
<1>13. \A f \in Range(stack') : f.op = "bind" =>
         BindMeans(f)' \/ (f \in Range(stack) /\ f.volume # v)
  BY <1>5
<1>14. /\ Orphan(v)' => VolumeComes(v, stack')
       /\ new # None /\ ~Settled(v)' => VolumeComes(v, stack')
  BY <1>3, <1>6
<1>15. /\ \A c \in Claims : Dirty(c)' => Dirty(c) \/ ClaimComes(c, stack')
       /\ \A c \in Claims : Good(c)' => Good(c) \/ Binding(c, claims[c].volume, TRUE, stack')
  BY <1>7, <1>8
<1>16. /\ Carried /\ Nested(stack') /\ volumes' = [volumes EXCEPT ![v] = new]
       /\ \A c \in Claims : ClaimGoes(c, stack') => ClaimGoes(c, stack)
       /\ \A c \in Claims : \A u \in Names :
            Binding(c, u, FALSE, stack) => Binding(c, u, FALSE, stack')
  BY <1>3
<1> QED
  BY ZenonT(60), <1>9, <1>10, <1>11, <1>12, <1>13, <1>14, <1>15, <1>16, VolumeWrite

\* deleteResource of a volume that is not being bound
LEMMA RemovesVolume ==
  ASSUME BInv, TypeInv, QueueType', NEW v \in Names, volumes[v] # None, NEW base, Acting(base),
         \A f \in Range(stack) : Unwritten(f) => f \in Range(base),
         \A f \in Range(stack) : f.op = "bind" => f.volume # v,
         WroteVolume("Deleted", v, None, volumes[v].claim, base), UNCHANGED boundTo,
         \A q \in Queues : \A k : InQueue(q, k)' => InQueue(q, k),
         \A q \in Queues : \A k : InQueue(q, k) => InQueue(q, k)' \/ (q = "volumes" /\ k = v)
  PROVE  BInv'
<1>1. "Deleted" \in Ops
  BY DEF Ops
<1> DEFINE ref == volumes[v].claim
<1>2. ref \in Claims \cup {None} /\ WroteVolume("Deleted", v, None, ref, base)
  BY RefTypes DEF TypeInv
<1> HIDE DEF ref
<1>3a. VolumeWritten("Deleted", v, None, ref, base, [op |-> "provision"])
  BY <1>1, <1>2, WroteVolumeOnly
<1>3b. [op |-> "provision"].op # "bind"
  OBVIOUS
<1>3. /\ Carried /\ Nested(stack')
      /\ \A f \in Range(stack') : f.op = "bind" => f \in Range(stack)
      /\ \A c : ClaimGoes(c, stack') => ClaimGoes(c, stack)
      /\ \A c, u : Binding(c, u, FALSE, stack) => Binding(c, u, FALSE, stack')
      /\ claims' = claims /\ volumes' = [volumes EXCEPT ![v] = None]
      /\ volumes'[v] = None /\ \A u \in Names : u # v => volumes'[u] = volumes[u]
      /\ ref # None => ClaimComes(ref, stack')
  BY <1>1, <1>3a, <1>3b DEF VolumeWritten
<1>4. None \notin Claims
  BY NoneAssumption
<1>5. \A f \in Range(stack') : f.op = "bind" => f \in Range(stack) /\ f.volume # v
  BY <1>1, <1>3
<1>6. ~Orphan(v)'
  BY <1>3 DEF Orphan
<1>7. \A c \in Claims : Good(c)' => Good(c)
  <2> SUFFICES ASSUME NEW c \in Claims, Good(c)' PROVE Good(c)
    OBVIOUS
  <2>1. claims[c].volume \in Names /\ claims[c].volume # v
    BY <1>3, RefTypes DEF TypeInv, Good
  <2> QED
    BY <1>3, <2>1 DEF Good
<1>8. \A c \in Claims : Dirty(c)' => Dirty(c) \/ ClaimComes(c, stack')
  <2> SUFFICES ASSUME NEW c \in Claims, claims[c] # None, claims[c].volume # None, Good(c),
                      ~Good(c)'
               PROVE  ClaimComes(c, stack')
    BY <1>3 DEF Dirty
  <2>1. claims[c].volume \in Names
    BY RefTypes DEF TypeInv
  <2>2. claims[c].volume = v
    BY <1>3, <2>1 DEF Good
  <2> QED
    BY <1>3, <1>4, <2>2 DEF Good, ref
<1>9. /\ \A c \in Claims : InQueue("claims", c) => InQueue("claims", c)'
      /\ \A u \in Names : InQueue("volumes", u) => InQueue("volumes", u)' \/ u = v
  BY KeysOf
<1> QED
  BY <1>3, <1>4, <1>5, <1>6, <1>7, <1>8, <1>9, VolumeWrite

\* A volume whose claim is gone becomes free.
LEMMA ReleasesVolume ==
  ASSUME BInv, TypeInv, QueueType', NEW v \in Names, NEW base, Acting(base),
         \A f \in Range(stack) : Unwritten(f) => f \in Range(base), TurnReleases(v, base),
         \A q \in Queues : \A k : InQueue(q, k)' => InQueue(q, k),
         \A q \in Queues : \A k : InQueue(q, k) => InQueue(q, k)' \/ (q = "volumes" /\ k = v)
  PROVE  BInv'
<1> DEFINE new == ToReleased(volumes[v])
<1>1. "Updated" \in Ops /\ "Updated" # "Deleted"
  BY DEF Ops
<1>2. /\ Orphan(v) /\ UNCHANGED boundTo /\ WroteVolume("Updated", v, new, None, base)
      /\ volumes[v] # None
  BY DEF TurnReleases, Orphan
<1>3. /\ volumes[v].claim \in Claims
      /\ new.claim = None
  BY <1>2, RefTypes, ReadIs DEF TypeInv, Orphan
<1> HIDE DEF new
<1>6a. VolumeWritten("Updated", v, new, None, base, [op |-> "provision"])
  BY <1>1, <1>2, WroteVolumeOnly
<1>6b. [op |-> "provision"].op # "bind"
  OBVIOUS
<1>6. /\ Carried /\ Nested(stack')
      /\ \A f \in Range(stack') : f.op = "bind" => f \in Range(stack)
      /\ \A c : ClaimGoes(c, stack') => ClaimGoes(c, stack)
      /\ \A c, u : Binding(c, u, FALSE, stack) => Binding(c, u, FALSE, stack')
      /\ claims' = claims /\ volumes' = [volumes EXCEPT ![v] = new]
      /\ volumes'[v] = new /\ \A u \in Names : u # v => volumes'[u] = volumes[u]
      /\ VolumeComes(v, stack')
  BY <1>1, <1>6a, <1>6b DEF VolumeWritten
<1>7. None \notin Claims
  BY NoneAssumption
<1>8. \A f \in Range(stack') : f.op = "bind" => f \in Range(stack) /\ f.volume # v
  BY <1>1, <1>2, <1>6, BindsKnown DEF BindMeans, Orphan
<1>9. ~Orphan(v)'
  BY <1>3, <1>6 DEF Orphan
<1>10. \A c \in Claims : Good(c)' <=> Good(c)
  <2> SUFFICES ASSUME NEW c \in Claims, claims[c] # None, claims[c].volume # None
               PROVE  Good(c)' <=> Good(c)
    BY <1>6 DEF Good
  <2>1. claims[c].volume \in Names
    BY RefTypes DEF TypeInv
  <2>2. CASE claims[c].volume = v
    BY <1>2, <1>3, <1>6, <1>7, <2>2 DEF Good, Orphan
  <2>3. CASE claims[c].volume # v
    BY <1>6, <2>1, <2>3 DEF Good
  <2> QED
    BY <2>2, <2>3
<1>11. \A c \in Claims : Dirty(c)' => Dirty(c)
  BY <1>6, <1>10 DEF Dirty
<1>12. /\ \A c \in Claims : InQueue("claims", c) => InQueue("claims", c)'
       /\ \A u \in Names : InQueue("volumes", u) => InQueue("volumes", u)' \/ u = v
  BY KeysOf
<1>13. \A c \in Claims : new # None /\ new.claim = c /\ claims[c] # None =>
         claims[c].volume = v \/ Binding(c, v, FALSE, stack')
  BY <1>3, <1>7
<1>14. UNCHANGED <<claims, boundTo>>
  BY <1>2, <1>6
<1>15. \A u \in Names : InQueue("volumes", u) => InQueue("volumes", u)' \/ ~Orphan(u)'
  BY <1>9, <1>12
<1>16. \A f \in Range(stack') : f.op = "bind" =>
         BindMeans(f)' \/ (f \in Range(stack) /\ f.volume # v)
  BY <1>8
<1>17. /\ Orphan(v)' => VolumeComes(v, stack')
       /\ new # None /\ ~Settled(v)' => VolumeComes(v, stack')
  BY <1>6, <1>9
<1>18. /\ \A c \in Claims : Dirty(c)' => Dirty(c) \/ ClaimComes(c, stack')
       /\ \A c \in Claims : Good(c)' => Good(c) \/ Binding(c, claims[c].volume, TRUE, stack')
  BY <1>10, <1>11
<1>19. /\ Carried /\ Nested(stack') /\ volumes' = [volumes EXCEPT ![v] = new]
       /\ \A c \in Claims : ClaimGoes(c, stack') => ClaimGoes(c, stack)
       /\ \A c \in Claims : \A u \in Names :
            Binding(c, u, FALSE, stack) => Binding(c, u, FALSE, stack')
  BY <1>6
<1>20. \A c \in Claims : InQueue("claims", c) => InQueue("claims", c)' \/ ~Dirty(c)'
  BY <1>12
<1> QED
  BY <1>13, <1>14, <1>15, <1>16, <1>17, <1>18, <1>19, <1>20, VolumeWrite

LEMMA DeletesVolume ==
  ASSUME BInv, TypeInv, Popped("volumes"), NEW base, Turning("volumes", base),
         NEW v \in Names, v = Head(queue["volumes"]), TurnDeletes(v, base)
  PROVE  BInv'
<1>1. /\ Orphan(v) /\ UNCHANGED boundTo /\ volumes[v] # None
      /\ WroteVolume("Deleted", v, None, volumes[v].claim, base)
  BY DEF TurnDeletes, Orphan
<1>2. /\ QueueType' /\ \A p \in Queues : \A k : InQueue(p, k)' => InQueue(p, k)
      /\ \A p \in Queues : \A k : InQueue(p, k) => InQueue(p, k)' \/ (p = "volumes" /\ k = v)
  BY PoppedIs, KeysOf
<1>3. /\ Acting(base) /\ \A f \in Range(stack) : Unwritten(f) => f \in Range(base)
  BY TurningActs, KeysOf
<1>4. \A f \in Range(stack) : f.op = "bind" => f.volume # v
  BY <1>1, BindsKnown DEF BindMeans, Orphan
<1> QED
  BY <1>1, <1>2, <1>3, <1>4, RemovesVolume

\* The first write of a binding: a free volume is given a claim.
LEMMA ClaimsVolume ==
  ASSUME BInv, TypeInv, QueueType', NEW v \in Names, volumes[v] # None, volumes[v].claim = None,
         NEW c \in Claims, claims[c] # None, NEW base, Acting(base),
         \A f \in Range(stack) : Unwritten(f) => f \in Range(base),
         NEW written \in BOOLEAN, claims[c].volume = IF written THEN v ELSE None,
         NEW frame \in Frames, Above(frame, Range(base)),
         frame.op = "bind", frame.claim = c, frame.volume = v, frame.written = written,
         WroteVolume("Updated", v, ToBoundVolume(volumes[v], c), c, <<frame>> \o base),
         UNCHANGED boundTo,
         \A q \in Queues : \A k : InQueue(q, k)' => InQueue(q, k),
         \A q \in Queues : \A k : InQueue(q, k) => InQueue(q, k)' \/ (q = "claims" /\ k = c)
  PROVE  BInv'
<1> DEFINE new == ToBoundVolume(volumes[v], c)
<1>1. frame.op \in {"bind", "provision"} /\ "Updated" \in Ops /\ "Updated" # "Deleted"
  BY DEF Ops
<1>2. WroteVolume("Updated", v, new, c, <<frame>> \o base) /\ new.claim = c
  BY ReadIs DEF TypeInv
<1> HIDE DEF new
<1>3. c \in Claims \cup {None}
  OBVIOUS
<1>4a. VolumeWritten("Updated", v, new, c, base, frame) /\ frame \in Range(stack')
  BY <1>1, <1>2, <1>3, WroteVolumeIs
<1>4. /\ Carried /\ Nested(stack')
      /\ \A f \in Range(stack') : f.op = "bind" => f \in Range(stack) \/ f = frame
      /\ \A d : ClaimGoes(d, stack') => ClaimGoes(d, stack)
      /\ \A d, u : Binding(d, u, FALSE, stack) => Binding(d, u, FALSE, stack')
      /\ claims' = claims /\ volumes' = [volumes EXCEPT ![v] = new]
      /\ volumes'[v] = new /\ \A u \in Names : u # v => volumes'[u] = volumes[u]
      /\ VolumeComes(v, stack')
      /\ frame \in Range(stack')
  BY <1>1, <1>4a DEF VolumeWritten
<1>5. None \notin Claims /\ None \notin Names /\ None \notin Backed
  BY NoneAssumption DEF Backed
<1>6. new \in Backed /\ new # None
  BY <1>5, VolumeTypes DEF TypeInv, StoreType, new
<1>7. BindMeans(frame)'
  BY <1>2, <1>4, <1>5, <1>6 DEF BindMeans
<1>8. \A f \in Range(stack') : f.op = "bind" =>
        BindMeans(f)' \/ (f \in Range(stack) /\ f.volume # v)
  <2>1. ASSUME NEW f \in Range(stack), f.op = "bind" PROVE f.volume # v
    BY <1>5, <2>1, BindsKnown DEF BindMeans
  <2> QED
    BY <1>4, <1>7, <2>1
<1>9. ~Orphan(v)'
  BY <1>2, <1>4 DEF Orphan
<1>10. ASSUME NEW d \in Claims, claims[d] # None, claims[d].volume # None
       PROVE  /\ ~Good(d)' => ~Good(d)
              /\ Good(d)' => Good(d) \/ Binding(d, claims[d].volume, TRUE, stack')
              /\ d = c => Good(d)'
  <2>1. claims[d].volume \in Names
    BY <1>10, RefTypes DEF TypeInv
  <2>2. CASE claims[d].volume # v
    BY <1>4, <1>5, <1>10, <2>1, <2>2 DEF Good
  <2>3. CASE claims[d].volume = v
    <3>1. ~Good(d)
      BY <1>5, <2>3 DEF Good
    <3>2. CASE d = c
      BY <1>2, <1>4, <1>5, <1>6, <1>10, <2>3, <3>1, <3>2 DEF Good, Binding
    <3>3. CASE d # c
      BY <1>2, <1>4, <1>5, <1>10, <2>3, <3>1, <3>3 DEF Good
    <3> QED
      BY <3>2, <3>3
  <2> QED
    BY <2>2, <2>3
<1>11. /\ \A d \in Claims : Dirty(d)' => Dirty(d) \/ ClaimComes(d, stack')
       /\ \A d \in Claims : Good(d)' => Good(d) \/ Binding(d, claims[d].volume, TRUE, stack')
  BY <1>4, <1>10 DEF Dirty, Good
<1>12. \A d \in Claims : InQueue("claims", d) => InQueue("claims", d)' \/ ~Dirty(d)'
  BY <1>4, <1>10, KeysOf DEF Dirty
<1>13. \A u \in Names : InQueue("volumes", u) => InQueue("volumes", u)' \/ ~Orphan(u)'
  BY KeysOf
<1>14. \A d \in Claims : new # None /\ new.claim = d /\ claims[d] # None =>
         claims[d].volume = v \/ Binding(d, v, FALSE, stack')
  BY <1>2, <1>4 DEF Binding
<1>15. UNCHANGED <<claims, boundTo>>
  BY <1>4
<1>16. /\ Orphan(v)' => VolumeComes(v, stack')
       /\ new # None /\ ~Settled(v)' => VolumeComes(v, stack')
  BY <1>4
<1>17. /\ Carried /\ Nested(stack') /\ volumes' = [volumes EXCEPT ![v] = new]
       /\ \A d \in Claims : ClaimGoes(d, stack') => ClaimGoes(d, stack)
       /\ \A d \in Claims : \A u \in Names :
            Binding(d, u, FALSE, stack) => Binding(d, u, FALSE, stack')
  BY <1>4
<1> QED
  BY <1>8, <1>11, <1>12, <1>13, <1>14, <1>15, <1>16, <1>17, VolumeWrite

\* What createResource does to the claim of a user: no volume has it yet.
LEMMA CreatesClaim ==
  ASSUME BInv, TypeInv, Idle, NEW c \in Claims, claims[c] = None, NEW new \in Claimed,
         WroteClaim("Created", c, new, new.volume, << >>), UNCHANGED <<queue, boundTo>>
  PROVE  BInv'
<1> DEFINE base == << >>
           ref == new.volume
<1>1. "Created" \in Ops /\ "Created" # "Deleted"
  BY DEF Ops
<1>2. /\ QueueType' /\ \A q \in Queues : \A k : InQueue(q, k)' <=> InQueue(q, k)
  BY DEF TypeInv, QueueType, InQueue
<1>3. ref \in Names \cup {None} /\ new # None /\ WroteClaim("Created", c, new, ref, base)
  BY NoneAssumption, ClaimTypes DEF Claimed
<1>4. Range(stack) = {} /\ Acting(base) /\ base \in Seq(Frames) /\ Range(base) = {}
  BY EmptyIs DEF Idle, Acting
<1> HIDE DEF base, ref
<1>5a. ClaimWritten("Created", c, new, ref, base, [op |-> "provision"])
  BY <1>1, <1>2, <1>3, <1>4, WroteClaimOnly
<1>5. /\ Carried /\ Nested(stack')
      /\ \A f \in Range(stack') : f.op = "bind" => f \in Range(base)
      /\ \A d : ClaimGoes(d, stack') => ClaimGoes(d, stack) \/ (d = c /\ "Created" = "Deleted")
      /\ volumes' = volumes /\ claims' = [claims EXCEPT ![c] = new]
      /\ claims'[c] = new /\ \A d \in Claims : d # c => claims'[d] = claims[d]
      /\ ClaimComes(c, stack')
  BY <1>1, <1>5a DEF ClaimWritten
<1>6. /\ \A q : ~Draining(q, stack) /\ \A u : ~VolumeComes(u, stack) /\ ~ClaimGoes(u, stack)
      /\ \A d, u, w : ~Binding(d, u, w, stack)
  BY <1>4, DrainingIs DEF VolumeComes, ClaimGoes, Binding
<1>7. None \notin Claims /\ None \notin Names
  BY NoneAssumption
<1>8. \A u \in Names : volumes[u] # None => volumes[u].claim # c
  <2> SUFFICES ASSUME NEW u \in Names, volumes[u] # None, volumes[u].claim = c PROVE FALSE
    OBVIOUS
  <2>1. Orphan(u) /\ ~Settled(u)
    BY <1>7 DEF Orphan, Settled
  <2>2. InQueue("volumes", u)
    BY <1>6, <2>1 DEF BInv, OrphansSeen
  <2> QED
    BY <1>6, <2>1, <2>2 DEF BInv, Busy
<1>9. ~Good(c)'
  BY <1>5, <1>8, ClaimTypes DEF Good
<1>10. \A u \in Names : (Orphan(u)' => Orphan(u)) /\ (volumes[u] # None /\ ~Settled(u)' => ~Settled(u))
  <2> SUFFICES ASSUME NEW u \in Names, volumes[u] # None, volumes[u].claim # None
               PROVE  (Orphan(u)' => Orphan(u)) /\ (~Settled(u)' => ~Settled(u))
    BY <1>5 DEF Orphan, Settled
  <2>1. volumes[u].claim \in Claims /\ volumes[u].claim # c
    BY <1>8, RefTypes DEF TypeInv
  <2> QED
    BY <1>5, <2>1 DEF Orphan, Settled
<1>11. boundTo'[c] = None
  BY <1>6 DEF BInv, Known
<1>12. \A f \in Range(stack') : f.op = "bind" =>
         BindMeans(f)' \/ (f \in Range(stack) /\ f.claim # c)
  BY <1>1, <1>4, <1>5
<1>13. /\ \A d \in Claims : d # c => boundTo'[d] = boundTo[d]
       /\ \A d \in Claims : ClaimGoes(d, stack') => ClaimGoes(d, stack) \/ (d = c /\ new = None)
       /\ \A d \in Claims : \A u \in Names :
            Binding(d, u, FALSE, stack) /\ d # c => Binding(d, u, FALSE, stack')
  BY <1>1, <1>5, <1>6
<1>14. /\ \A d \in Claims : InQueue("claims", d) => InQueue("claims", d)' \/ ~Dirty(d)'
       /\ \A u \in Names : InQueue("volumes", u) => InQueue("volumes", u)' \/ ~Orphan(u)'
  BY <1>2, KeysOf
<1>15. \A u \in Names : new # None /\ volumes[u] # None /\ volumes[u].claim = c =>
         new.volume = u \/ Binding(c, u, FALSE, stack')
  BY <1>8
<1>16. /\ \A u \in Names : Orphan(u)' => Orphan(u) \/ VolumeComes(u, stack')
       /\ \A u \in Names : volumes[u] # None /\ ~Settled(u)' =>
            ~Settled(u) \/ VolumeComes(u, stack')
  BY <1>10
<1>17. /\ new # None => ClaimComes(c, stack')
       /\ new = None => boundTo'[c] = None \/ ClaimGoes(c, stack')
       /\ new # None =>
            /\ ~ClaimGoes(c, stack)
            /\ new.volume = None => boundTo'[c] = None
            /\ Good(c)' => boundTo'[c] = new.volume \/ Binding(c, new.volume, TRUE, stack')
  BY <1>3, <1>5, <1>6, <1>9, <1>11
<1>18. /\ QueueType' /\ Carried /\ Nested(stack') /\ claims' = [claims EXCEPT ![c] = new]
       /\ UNCHANGED volumes
  BY <1>2, <1>5
<1> QED
  BY <1>12, <1>13, <1>14, <1>15, <1>16, <1>17, <1>18, ClaimWrite

-------------------------------------------------------------------------------

LEMMA ClaimChanges ==
  ASSUME BInv, TypeInv, QueueType', NEW c \in Claims, NEW new, ClaimChange(c, new)
  PROVE  BInv'
<1>1. /\ claims' = [claims EXCEPT ![c] = new] /\ UNCHANGED volumes
      /\ \A d \in Claims : d # c => boundTo'[d] = boundTo[d]
      /\ Carried /\ Nested(stack')
  BY DEF ClaimChange
<1>2. \A f \in Range(stack') : f.op = "bind" =>
        BindMeans(f)' \/ (f \in Range(stack) /\ f.claim # c)
  BY DEF ClaimChange
<1>3. /\ \A d \in Claims : ClaimGoes(d, stack') => ClaimGoes(d, stack) \/ (d = c /\ new = None)
      /\ \A d \in Claims : \A u \in Names :
           Binding(d, u, FALSE, stack) /\ d # c => Binding(d, u, FALSE, stack')
  BY DEF ClaimChange
<1>4. /\ \A d \in Claims : InQueue("claims", d) => InQueue("claims", d)' \/ ~Dirty(d)'
      /\ \A u \in Names : InQueue("volumes", u) => InQueue("volumes", u)' \/ ~Orphan(u)'
  BY DEF ClaimChange
<1>5. \A u \in Names : new # None /\ volumes[u] # None /\ volumes[u].claim = c =>
        new.volume = u \/ Binding(c, u, FALSE, stack')
  BY DEF ClaimChange
<1>6. /\ \A u \in Names : Orphan(u)' => Orphan(u) \/ VolumeComes(u, stack')
      /\ \A u \in Names : volumes[u] # None /\ ~Settled(u)' =>
           ~Settled(u) \/ VolumeComes(u, stack')
  BY DEF ClaimChange
<1>7. /\ new # None => ClaimComes(c, stack')
      /\ new = None => boundTo'[c] = None \/ ClaimGoes(c, stack')
      /\ new # None =>
           /\ ~ClaimGoes(c, stack)
           /\ new.volume = None => boundTo'[c] = None
           /\ Good(c)' => boundTo'[c] = new.volume \/ Binding(c, new.volume, TRUE, stack')
  BY DEF ClaimChange
<1> QED
  BY <1>1, <1>2, <1>3, <1>4, <1>5, <1>6, <1>7, ClaimWrite

\* deleteResource of a claim, by its user
LEMMA RemovesClaim ==
  ASSUME BInv, TypeInv, Idle, NEW c \in Claims, claims[c] # None,
         WroteClaim("Deleted", c, None, claims[c].volume, << >>), UNCHANGED <<queue, boundTo>>
  PROVE  BInv'
<1> DEFINE base == << >>
           ref == claims[c].volume
<1>1. "Deleted" \in Ops
  BY DEF Ops
<1>2. /\ QueueType' /\ \A q \in Queues : \A k : InQueue(q, k)' <=> InQueue(q, k)
  BY DEF TypeInv, QueueType, InQueue
<1>3. ref \in Names \cup {None} /\ WroteClaim("Deleted", c, None, ref, base)
  BY RefTypes DEF TypeInv
<1>4. Range(stack) = {} /\ Acting(base) /\ base \in Seq(Frames) /\ Range(base) = {}
  BY EmptyIs DEF Idle, Acting
<1>5. ref = claims[c].volume
  OBVIOUS
<1> HIDE DEF base, ref
<1>6. ClaimWritten("Deleted", c, None, ref, base, [op |-> "provision"])
  BY <1>1, <1>2, <1>3, <1>4, WroteClaimOnly
<1>7. [op |-> "provision"].op # "bind"
  OBVIOUS
<1>8. /\ Carried /\ Nested(stack')
      /\ \A f \in Range(stack') : f.op = "bind" => f \in Range(base)
      /\ \A d : ClaimGoes(d, stack') => ClaimGoes(d, stack) \/ d = c
      /\ volumes' = volumes /\ claims' = [claims EXCEPT ![c] = None]
      /\ claims'[c] = None /\ \A d \in Claims : d # c => claims'[d] = claims[d]
      /\ ClaimGoes(c, stack') /\ (ref # None => VolumeComes(ref, stack'))
  BY <1>6, <1>7 DEF ClaimWritten
<1>9. \A d, u, w : ~Binding(d, u, w, stack)
  BY <1>4 DEF Binding
<1>10. None \notin Claims /\ None \notin Names
  BY NoneAssumption
<1>11. ASSUME NEW u \in Names, volumes[u] # None, volumes[u].claim \in Claims
       PROVE  /\ Orphan(u)' => Orphan(u) \/ VolumeComes(u, stack')
              /\ ~Settled(u)' => ~Settled(u) \/ VolumeComes(u, stack')
  <2>1. CASE volumes[u].claim = c
    <3>1. claims[c].volume = u
      BY <1>9, <1>11, <2>1 DEF BInv, OneVolume
    <3>2. VolumeComes(u, stack')
      BY <1>5, <1>8, <1>10, <3>1
    <3> QED
      BY <3>2
  <2>2. CASE volumes[u].claim # c
    BY <1>8, <1>11, <2>2 DEF Orphan, Settled
  <2> QED
    BY <2>1, <2>2
<1>12. /\ \A u \in Names : Orphan(u)' => Orphan(u) \/ VolumeComes(u, stack')
       /\ \A u \in Names : volumes[u] # None /\ ~Settled(u)' =>
            ~Settled(u) \/ VolumeComes(u, stack')
  <2> SUFFICES ASSUME NEW u \in Names, volumes[u] # None, volumes[u].claim # None
               PROVE  /\ Orphan(u)' => Orphan(u) \/ VolumeComes(u, stack')
                      /\ ~Settled(u)' => ~Settled(u) \/ VolumeComes(u, stack')
    BY <1>8 DEF Orphan, Settled
  <2> QED
    BY <1>11, RefTypes DEF TypeInv
<1>13. \A f \in Range(stack') : f.op = "bind" =>
         BindMeans(f)' \/ (f \in Range(stack) /\ f.claim # c)
  BY <1>4, <1>8
<1>14. /\ \A d \in Claims : d # c => boundTo'[d] = boundTo[d]
       /\ \A d \in Claims : ClaimGoes(d, stack') => ClaimGoes(d, stack) \/ (d = c /\ None = None)
       /\ \A d \in Claims : \A u \in Names :
            Binding(d, u, FALSE, stack) /\ d # c => Binding(d, u, FALSE, stack')
  BY <1>8, <1>9
<1>15. /\ \A d \in Claims : InQueue("claims", d) => InQueue("claims", d)' \/ ~Dirty(d)'
       /\ \A u \in Names : InQueue("volumes", u) => InQueue("volumes", u)' \/ ~Orphan(u)'
  BY <1>2, KeysOf
<1>16. /\ QueueType' /\ Carried /\ Nested(stack')
       /\ UNCHANGED volumes
  BY <1>2, <1>8
<1> DEFINE new == None
<1>17. new = None
  OBVIOUS
<1> HIDE DEF new
<1>18. /\ \A d \in Claims : ClaimGoes(d, stack') => ClaimGoes(d, stack) \/ (d = c /\ new = None)
       /\ claims' = [claims EXCEPT ![c] = new]
       /\ \A u \in Names : new # None /\ volumes[u] # None /\ volumes[u].claim = c =>
            new.volume = u \/ Binding(c, u, FALSE, stack')
       /\ new # None => ClaimComes(c, stack')
       /\ new = None => boundTo'[c] = None \/ ClaimGoes(c, stack')
       /\ new # None =>
            /\ ~ClaimGoes(c, stack)
            /\ new.volume = None => boundTo'[c] = None
            /\ Good(c)' => boundTo'[c] = new.volume \/ Binding(c, new.volume, TRUE, stack')
  BY <1>8, <1>17
<1>19. ClaimChange(c, new)
  BY <1>12, <1>13, <1>14, <1>15, <1>16, <1>18 DEF ClaimChange
<1> QED
  BY <1>16, <1>19, ClaimChanges

\* The second write of a binding
LEMMA WritesBind ==
  ASSUME BInv, TypeInv, NEW frame \in Range(stack), Unwritten(frame),
         NEW base, Acting(base), \A g \in Range(base) : ~Unwritten(g),
         \A f \in Range(stack) : Unwritten(f) => f = frame,
         NEW next \in Frames, next.op = "bind", next.claim = frame.claim,
         next.volume = frame.volume, next.written,
         WroteClaim("Updated", frame.claim, ToBoundClaim(frame.read, frame.volume), frame.volume,
                    <<next>> \o base),
         UNCHANGED <<queue, boundTo>>
  PROVE  BInv'
<1> DEFINE c == frame.claim
           v == frame.volume
           new == ToBoundClaim(frame.read, v)
<1>1. /\ next.op \in {"bind", "provision"} /\ "Updated" \in Ops /\ "Updated" # "Deleted"
      /\ \A below : Above(next, below)
  BY DEF Ops, Above, IsLoop, Unwritten
<1>2. /\ QueueType' /\ \A q \in Queues : \A k : InQueue(q, k)' <=> InQueue(q, k)
  BY DEF TypeInv, QueueType, InQueue
<1>3. /\ frame.op = "bind" /\ c \in Claims /\ v \in Names /\ frame.read \in Claimed
      /\ BindMeans(frame) /\ frame.written = FALSE
  BY BindsKnown DEF Unwritten
<1>4. None \notin Claims /\ None \notin Names /\ None \notin Claimed
  BY NoneAssumption DEF Claimed
<1>5. new \in Claimed /\ new.volume = v /\ new # None
  <2>1. new \in Claimed
    BY <1>3, ClaimTypes
  <2>2. new.volume = v
    BY <1>3 DEF ToBoundClaim, Claimed, ClaimValues
  <2> QED
    BY <1>4, <2>1, <2>2
<1>6. /\ claims[c] # None /\ claims[c].volume = None
      /\ volumes[v] # None /\ volumes[v].claim = c
  BY <1>3 DEF BindMeans
<1>7. WroteClaim("Updated", c, new, v, <<next>> \o base) /\ v \in Names \cup {None}
  BY <1>3
<1>8. next.claim = c /\ next.volume = v
  OBVIOUS
<1>9. \A d, u : Binding(d, u, FALSE, stack) => d = c /\ u = v
  BY DEF Binding, Unwritten
<1> HIDE DEF c, v, new
<1>10. ClaimWritten("Updated", c, new, v, base, next) /\ next \in Range(stack')
  BY <1>1, <1>2, <1>3, <1>7, WroteClaimIs
<1>11. /\ Carried /\ Nested(stack')
       /\ \A f \in Range(stack') : f.op = "bind" => f = next \/ f \in Range(base)
       /\ \A f \in Range(base) : f.op = "bind" => f \in Range(stack)
       /\ \A d : ClaimGoes(d, stack') => ClaimGoes(d, stack)
       /\ volumes' = volumes /\ claims' = [claims EXCEPT ![c] = new]
       /\ claims'[c] = new /\ \A d \in Claims : d # c => claims'[d] = claims[d]
       /\ ClaimComes(c, stack')
  BY <1>1, <1>10 DEF ClaimWritten
<1>12. BindMeans(next)'
  BY <1>5, <1>6, <1>8, <1>11 DEF BindMeans
<1>13. \A f \in Range(stack') : f.op = "bind" =>
         BindMeans(f)' \/ (f \in Range(stack) /\ f.claim # c)
  <2> SUFFICES ASSUME NEW f \in Range(base), f.op = "bind"
               PROVE  f \in Range(stack) /\ f.claim # c
    BY <1>11, <1>12
  <2>1. f \in Range(stack)
    BY <1>11
  <2>2. f.written = TRUE /\ BindMeans(f) /\ f.volume \in Names
    BY <2>1, BindsKnown DEF Unwritten
  <2> QED
    BY <1>4, <1>6, <2>1, <2>2 DEF BindMeans
<1>14. \A d \in Claims : \A u \in Names :
            Binding(d, u, FALSE, stack) /\ d # c => Binding(d, u, FALSE, stack')
  BY <1>9
<1>15. \A u \in Names : new # None /\ volumes[u] # None /\ volumes[u].claim = c =>
         new.volume = u \/ Binding(c, u, FALSE, stack')
  <2> SUFFICES ASSUME NEW u \in Names, volumes[u] # None, volumes[u].claim = c PROVE u = v
    BY <1>5
  <2> QED
    BY <1>3, <1>4, <1>6, <1>9 DEF BInv, OneVolume
<1>16. ASSUME NEW u \in Names, volumes[u] # None, volumes[u].claim \in Claims
       PROVE  (Orphan(u)' => Orphan(u)) /\ (~Settled(u)' => ~Settled(u))
  <2>1. CASE volumes[u].claim = c
    BY <1>4, <1>5, <1>6, <1>11, <1>16, <2>1 DEF Orphan, Settled
  <2>2. CASE volumes[u].claim # c
    BY <1>11, <1>16, <2>2 DEF Orphan, Settled
  <2> QED
    BY <2>1, <2>2
<1>17. /\ \A u \in Names : Orphan(u)' => Orphan(u) \/ VolumeComes(u, stack')
       /\ \A u \in Names : volumes[u] # None /\ ~Settled(u)' =>
            ~Settled(u) \/ VolumeComes(u, stack')
  <2> SUFFICES ASSUME NEW u \in Names, volumes[u] # None, volumes[u].claim # None
               PROVE  (Orphan(u)' => Orphan(u)) /\ (~Settled(u)' => ~Settled(u))
    BY <1>11 DEF Orphan, Settled
  <2> QED
    BY <1>16, RefTypes DEF TypeInv
<1>18. /\ \A d \in Claims : InQueue("claims", d) => InQueue("claims", d)' \/ ~Dirty(d)'
       /\ \A u \in Names : InQueue("volumes", u) => InQueue("volumes", u)' \/ ~Orphan(u)'
  BY <1>2, KeysOf
<1>19. /\ new # None => ClaimComes(c, stack')
       /\ new = None => boundTo'[c] = None \/ ClaimGoes(c, stack')
       /\ new # None =>
            /\ ~ClaimGoes(c, stack)
            /\ new.volume = None => boundTo'[c] = None
            /\ Good(c)' => boundTo'[c] = new.volume \/ Binding(c, new.volume, TRUE, stack')
  <2>1. ~ClaimGoes(c, stack)
    BY <1>3, <1>6 DEF BInv, Known
  <2>2. Binding(c, v, TRUE, stack')
    <3>1. next.written = TRUE
      <4>1. next \in BindFrames
        BY FrameKinds
      <4> QED
        BY <4>1 DEF BindFrames
    <3> QED
      BY <1>8, <1>10, <3>1 DEF Binding
  <2> QED
    BY <1>3, <1>4, <1>5, <1>11, <2>1, <2>2
<1>20. /\ \A d \in Claims : d # c => boundTo'[d] = boundTo[d]
       /\ \A d \in Claims : ClaimGoes(d, stack') => ClaimGoes(d, stack) \/ (d = c /\ new = None)
       /\ QueueType' /\ Carried /\ Nested(stack') /\ claims' = [claims EXCEPT ![c] = new]
       /\ UNCHANGED volumes
  BY <1>2, <1>11
<1>21. ClaimChange(c, new)
  BY <1>3, <1>13, <1>14, <1>15, <1>17, <1>18, <1>19, <1>20 DEF ClaimChange
<1> QED
  BY <1>3, <1>20, <1>21, ClaimChanges

-------------------------------------------------------------------------------
(* Turns *)

\* A claim loses a volume that is gone or another's.
LEMMA GivesUp ==
  ASSUME BInv, TypeInv, QueueType', NEW c \in Claims, NEW base, Acting(base),
         TurnGivesUp(c, base),
         \A d, u, w : Binding(d, u, w, stack) => Binding(d, u, w, base),
         \A q \in Queues : \A k : InQueue(q, k)' => InQueue(q, k),
         \A q \in Queues : \A k : InQueue(q, k) => InQueue(q, k)' \/ (q = "claims" /\ k = c)
  PROVE  BInv'
<1> DEFINE new == ToPending(claims[c])
<1>1. "Updated" \in Ops /\ "Updated" # "Deleted" /\ [op |-> "provision"].op # "bind"
  BY DEF Ops
<1>2. /\ Dirty(c) /\ claims[c] # None /\ claims[c].volume # None /\ ~Good(c)
      /\ Unbind(c) /\ WroteClaim("Updated", c, new, None, base)
  BY DEF TurnGivesUp, Dirty
<1>3. None \notin Claims /\ None \notin Names /\ None \notin Claimed
  BY NoneAssumption DEF Claimed
<1>4. claims[c] \in Claimed /\ claims[c].volume \in Names
  BY <1>2, RefTypes DEF TypeInv
<1>5. new \in Claimed /\ new.volume = None /\ new # None
  BY <1>3, <1>4, ClaimTypes, ReadIs, <1>2 DEF TypeInv
<1>6. boundTo'[c] = None /\ \A d \in Claims : d # c => boundTo'[d] = boundTo[d]
  BY <1>2, UnbindIs
<1> HIDE DEF new
<1>7. ClaimWritten("Updated", c, new, None, base, [op |-> "provision"])
  BY <1>1, <1>2, WroteClaimOnly
<1>8. /\ Carried /\ Nested(stack') /\ Range(base) \subseteq Range(stack')
      /\ \A f \in Range(stack') : f.op = "bind" => f \in Range(base)
      /\ \A f \in Range(base) : f.op = "bind" => f \in Range(stack)
      /\ \A d : ClaimGoes(d, stack') => ClaimGoes(d, stack)
      /\ volumes' = volumes /\ claims' = [claims EXCEPT ![c] = new]
      /\ claims'[c] = new /\ \A d \in Claims : d # c => claims'[d] = claims[d]
      /\ ClaimComes(c, stack')
  BY <1>1, <1>7 DEF ClaimWritten
<1>9. \A d, u, w : Binding(d, u, w, stack) => Binding(d, u, w, stack')
  BY <1>8, ComesMore
<1>10. \A f \in Range(stack') : f.op = "bind" =>
         BindMeans(f)' \/ (f \in Range(stack) /\ f.claim # c)
  <2> SUFFICES ASSUME NEW f \in Range(stack'), f.op = "bind"
               PROVE  f \in Range(stack) /\ f.claim # c
    OBVIOUS
  <2>1. f \in Range(stack)
    BY <1>8
  <2>2. f.written \in BOOLEAN /\ BindMeans(f)
    BY <2>1, BindsKnown
  <2> QED
    BY <1>2, <2>1, <2>2 DEF BindMeans, Good
<1>11. \A u \in Names : new # None /\ volumes[u] # None /\ volumes[u].claim = c =>
         new.volume = u \/ Binding(c, u, FALSE, stack')
  <2> SUFFICES ASSUME NEW u \in Names, volumes[u] # None, volumes[u].claim = c
               PROVE  Binding(c, u, FALSE, stack')
    OBVIOUS
  <2>1. claims[c].volume = u \/ Binding(c, u, FALSE, stack)
    BY <1>2 DEF BInv, OneVolume
  <2>2. claims[c].volume # u
    BY <1>2, <1>4 DEF Good
  <2> QED
    BY <1>9, <2>1, <2>2
<1>12. ASSUME NEW u \in Names, volumes[u] # None, volumes[u].claim \in Claims
       PROVE  (Orphan(u)' => Orphan(u)) /\ (~Settled(u)' => ~Settled(u))
  <2>1. CASE volumes[u].claim = c
    <3>1. claims[c].volume # u
      BY <1>2, <1>12, <2>1 DEF Good
    <3> QED
      BY <1>2, <1>3, <1>5, <1>8, <1>12, <2>1, <3>1 DEF Orphan, Settled
  <2>2. CASE volumes[u].claim # c
    BY <1>8, <1>12, <2>2 DEF Orphan, Settled
  <2> QED
    BY <2>1, <2>2
<1>13. /\ \A u \in Names : Orphan(u)' => Orphan(u) \/ VolumeComes(u, stack')
       /\ \A u \in Names : volumes[u] # None /\ ~Settled(u)' =>
            ~Settled(u) \/ VolumeComes(u, stack')
  <2> SUFFICES ASSUME NEW u \in Names, volumes[u] # None, volumes[u].claim # None
               PROVE  (Orphan(u)' => Orphan(u)) /\ (~Settled(u)' => ~Settled(u))
    BY <1>8 DEF Orphan, Settled
  <2> QED
    BY <1>12, RefTypes DEF TypeInv
<1>14. ~Dirty(c)' /\ ~Good(c)'
  BY <1>5, <1>8 DEF Dirty, Good
<1>15. /\ \A d \in Claims : InQueue("claims", d) => InQueue("claims", d)' \/ ~Dirty(d)'
       /\ \A u \in Names : InQueue("volumes", u) => InQueue("volumes", u)' \/ ~Orphan(u)'
  BY <1>14, KeysOf
<1>16. ~ClaimGoes(c, stack)
  BY <1>2 DEF BInv, Known
<1>17. ClaimChange(c, new)
  BY <1>3, <1>5, <1>6, <1>8, <1>9, <1>10, <1>11, <1>13, <1>14, <1>15, <1>16 DEF ClaimChange
<1> QED
  BY <1>17, ClaimChanges

\* One turn for a claim: the first write of a binding is made under the loop of
\* the claims only.
LEMMA ClaimTurnBInv ==
  ASSUME BInv, TypeInv, Popped("claims"), NEW base, Turning("claims", base),
         NEW c \in Claims, c = Head(queue["claims"]), ReconcileClaim(c, base),
         \A f \in Range(stack) : ~Unwritten(f),
         claims[c] # None /\ ~Good(c) => Draining("claims", base)
  PROVE  BInv'
<1>1. base \in Seq(Frames) /\ "claims" \in Queues
  BY KeysOf DEF Turning
<1>2. /\ QueueType' /\ \A p \in Queues : \A k : InQueue(p, k)' => InQueue(p, k)
      /\ \A p \in Queues : \A k : InQueue(p, k) => InQueue(p, k)' \/ (p = "claims" /\ k = c)
  BY <1>1, PoppedIs
<1>3. /\ Acting(base) /\ \A f \in Range(stack) : Unwritten(f) => f \in Range(base)
      /\ \A d, u, w : Binding(d, u, w, stack) => Binding(d, u, w, base)
  BY <1>1, TurningActs
<1>4. CASE TurnWaits(c, base) \/ TurnRests(c, base)
  BY <1>4, ClaimTurnQuiet
<1>5. CASE TurnGivesUp(c, base)
  BY <1>2, <1>3, <1>5, GivesUp
<1>6. CASE TurnRetakes(c, base)
  <2> DEFINE v == claims[c].volume
             frame == BindFrame(c, claims[c], v, TRUE)
  <2>1. /\ claims[c] # None /\ v # None /\ UNCHANGED boundTo
        /\ volumes[v] # None /\ volumes[v].claim = None
        /\ WroteVolume("Updated", v, ToBoundVolume(volumes[v], c), c, <<frame>> \o base)
    BY <1>6 DEF TurnRetakes, Dirty
  <2>2. claims[c] \in Claimed /\ v \in Names
    BY <2>1, RefTypes DEF TypeInv
  <2>3. /\ frame \in Frames /\ frame.op = "bind" /\ frame.claim = c /\ frame.volume = v
        /\ frame.written = TRUE
    <3>1. frame \in Frames
      BY <1>1, <2>2, BindFrameTypes
    <3> QED
      BY <3>1 DEF BindFrame
  <2>4. claims[c].volume = IF TRUE THEN v ELSE None
    OBVIOUS
  <2> HIDE DEF frame, v
  <2>5. Above(frame, Range(base))
    BY <2>3 DEF Above, IsLoop, Unwritten
  <2> QED
    BY <1>2, <1>3, <2>1, <2>2, <2>3, <2>4, <2>5, ClaimsVolume
<1>7. ASSUME NEW v \in Names, TurnTakes(c, v, base) PROVE BInv'
  <2> DEFINE frame == BindFrame(c, claims[c], v, FALSE)
  <2>1. /\ claims[c] # None /\ claims[c].volume = None /\ UNCHANGED boundTo
        /\ volumes[v] # None /\ volumes[v].claim = None
        /\ WroteVolume("Updated", v, ToBoundVolume(volumes[v], c), c, <<frame>> \o base)
    BY <1>7 DEF TurnTakes, Candidates, Fits
  <2>2. claims[c] \in Claimed
    BY <2>1, RefTypes DEF TypeInv
  <2>3. /\ frame \in Frames /\ frame.op = "bind" /\ frame.claim = c /\ frame.volume = v
        /\ frame.written = FALSE
    <3>1. frame \in Frames
      BY <1>1, <2>2, BindFrameTypes
    <3> QED
      BY <3>1 DEF BindFrame
  <2>4. claims[c].volume = IF FALSE THEN v ELSE None
    BY <2>1
  <2> HIDE DEF frame
  <2>5. Above(frame, Range(base))
    <3>1. \E g \in Range(base) : IsLoop(g, "claims")
      BY <2>1, DrainingIs DEF Good
    <3>2. ~\E g \in Range(base) : Unwritten(g)
      BY DEF Turning, Unwritten
    <3> QED
      BY <2>3, <3>1, <3>2 DEF Above, IsLoop
  <2> QED
    BY <1>2, <1>3, <2>1, <2>3, <2>4, <2>5, ClaimsVolume
<1> QED
  BY <1>1, <1>4, <1>5, <1>6, <1>7, ClaimTurn DEF TypeInv

LEMMA VolumeTurnBInv ==
  ASSUME BInv, TypeInv, Popped("volumes"), NEW base, Turning("volumes", base),
         NEW v \in Names, v = Head(queue["volumes"]), ReconcileVolume(v, base),
         UNCHANGED boundTo
  PROVE  BInv'
<1>1. base \in Seq(Frames) /\ "volumes" \in Queues
  BY KeysOf DEF Turning
<1>2. /\ QueueType' /\ \A p \in Queues : \A k : InQueue(p, k)' => InQueue(p, k)
      /\ \A p \in Queues : \A k : InQueue(p, k) => InQueue(p, k)' \/ (p = "volumes" /\ k = v)
  BY <1>1, PoppedIs
<1>3. /\ Acting(base) /\ \A f \in Range(stack) : Unwritten(f) => f \in Range(base)
  BY <1>1, TurningActs
<1>4. CASE TurnReleases(v, base)
  BY <1>2, <1>3, <1>4, ReleasesVolume
<1> QED
  BY <1>1, <1>4, VolumeTurn, VolumeTurnQuiet, DeletesVolume DEF TypeInv

LEMMA ProvisioningTurnBInv ==
  ASSUME BInv, TypeInv, Popped("provisioning"), NEW base, Turning("provisioning", base),
         NEW c \in Claims, c = Head(queue["provisioning"]), ReconcileProvisioning(c, base),
         UNCHANGED boundTo
  PROVE  BInv'
<1>1. base \in Seq(Frames)
  BY DEF Turning
<1> QED
  BY <1>1, ProvisioningTurn, ProvisioningTurnQuiet, DefaultsBInv DEF TypeInv

-------------------------------------------------------------------------------
(* Every step *)

\* A loop does not run out while a key in its queue needs a turn.
NotStranded ==
  ~Idle /\ Head(stack).op = "loop" /\ Head(stack).left = 0 => ~OpenIn(Head(stack).queue)

\* Above the loop of the claims nothing is written between its turns.
LEMMA NoneUnwritten ==
  ASSUME BInv, TypeInv, ~Idle, IsLoop(Head(stack), "claims")
  PROVE  \A f \in Range(stack) : ~Unwritten(f)
<1>1. /\ Head(stack) \in Frames /\ Tail(stack) \in Seq(Frames)
      /\ Range(stack) = {Head(stack)} \cup Range(Tail(stack))
      /\ Above(Head(stack), Range(Tail(stack))) /\ Nested(Tail(stack))
  BY HeadIs DEF BInv
<1>2. ASSUME NEW f \in Range(Tail(stack)), Unwritten(f) PROVE FALSE
  <2>1. \E g \in Range(Tail(stack)) : IsLoop(g, "claims")
    BY <1>1, <1>2, UnwrittenNeeds
  <2> QED
    BY <1>1, <2>1, KeysOf DEF Above
<1> QED
  BY <1>1, <1>2 DEF Unwritten, IsLoop

LEMMA LoopBInv ==
  ASSUME BInv, TypeInv, NotStranded, ~Idle, Head(stack).op = "loop",
         LoopStep(Head(stack), Tail(stack))
  PROVE  BInv'
<1> DEFINE frame == Head(stack)
           rest == Tail(stack)
           q == frame.queue
           next == Loop(q, frame.left - 1)
           base == <<next>> \o rest
<1>1. /\ frame \in LoopFrames /\ q \in Queues /\ frame.left \in Nat /\ rest \in Seq(Frames)
      /\ IsLoop(frame, q) /\ stack = <<frame>> \o rest
      /\ Range(stack) = {frame} \cup Range(rest)
      /\ Above(frame, Range(rest)) /\ Nested(rest)
  <2>1. frame \in LoopFrames
    BY HeadIs, FrameKinds
  <2> QED
    BY <2>1, HeadIs DEF BInv, LoopFrames, IsLoop
<1>2. CASE ~(queue[q] # << >> /\ frame.left > 0)
  <2>1. Return(rest) /\ UNCHANGED <<queue, boundTo>>
    BY <1>2 DEF LoopStep
  <2>2. ~OpenIn(q)
    <3>1. CASE queue[q] = << >>
      BY <3>1 DEF OpenIn
    <3>2. CASE frame.left = 0
      BY <3>2 DEF NotStranded
    <3> QED
      BY <1>1, <1>2, <3>1, <3>2
  <2> QED
    BY <2>1, <2>2, LoopEnds
<1>3. CASE queue[q] # << >> /\ frame.left > 0
  <2>1. /\ queue' = [queue EXCEPT ![q] = Tail(queue[q])]
        /\ Handle(q, Head(queue[q]), base)
    BY <1>3 DEF LoopStep
  <2>2. Popped(q)
    BY <1>3, <2>1 DEF Popped
  <2>3. next \in Frames /\ next.op = "loop" /\ next.queue = q
    <3>1. frame.left - 1 \in Nat
      BY <1>1, <1>3
    <3> QED
      BY <1>1, <3>1, LoopTypes DEF Loop
  <2> HIDE DEF next, q, frame
  <2>4. Above(next, Range(rest))
    BY <1>1, <2>3 DEF Above, IsLoop, Unwritten
  <2>5. base \in Seq(Frames) /\ Nested(base) /\ Range(base) = {next} \cup Range(rest)
    BY <1>1, <2>3, <2>4, PushIs
  <2> HIDE DEF base
  <2>6. Draining(q, base)
    BY <2>3, <2>5, DrainingIs DEF IsLoop
  <2>7. Turning(q, base)
    BY <1>1, <2>3, <2>5, <2>6 DEF Turning
  <2>8. Head(queue[q]) \in Keys[q]
    BY <1>1, <2>2, PoppedIs
  <2>9. CASE q = "claims"
    <3>1. \A f \in Range(stack) : ~Unwritten(f)
      BY <1>1, <2>9, NoneUnwritten DEF frame
    <3>2. ReconcileClaim(Head(queue["claims"]), base)
      BY <2>1, <2>9 DEF Handle
    <3> QED
      BY <2>2, <2>6, <2>7, <2>8, <2>9, <3>1, <3>2, ClaimTurnBInv, KeysOf
  <2>10. CASE q = "volumes"
    <3>1. ReconcileVolume(Head(queue["volumes"]), base) /\ UNCHANGED boundTo
      BY <2>1, <2>10 DEF Handle
    <3> QED
      BY <2>2, <2>7, <2>8, <2>10, <3>1, VolumeTurnBInv, KeysOf
  <2>11. CASE q = "provisioning"
    <3>1. ReconcileProvisioning(Head(queue["provisioning"]), base) /\ UNCHANGED boundTo
      BY <2>1, <2>11 DEF Handle
    <3> QED
      BY <2>2, <2>7, <2>8, <2>11, <3>1, ProvisioningTurnBInv, KeysOf
  <2> QED
    BY <1>1, <2>9, <2>10, <2>11 DEF Queues
<1> QED
  BY <1>2, <1>3

LEMMA ProvisionBInv ==
  ASSUME BInv, TypeInv, ~Idle, Head(stack).op = "provision",
         Provision(Head(stack).claim, Head(stack).read, Tail(stack)), UNCHANGED <<queue, boundTo>>
  PROVE  BInv'
<1> DEFINE c == Head(stack).claim
           read == Head(stack).read
           base == Tail(stack)
           v == DynamicName[c]
           new == DynamicVolume(read)
<1>1. /\ c \in Claims /\ read \in Claimed /\ base \in Seq(Frames)
      /\ Range(stack) = {Head(stack)} \cup Range(base) /\ Nested(base)
  <2>1. Head(stack) \in ProvisionFrames
    BY HeadIs, FrameKinds
  <2> QED
    BY <2>1, HeadIs DEF BInv, ProvisionFrames
<1>2. CASE Return(base)
  <2>1. stack' = AddAll("claims", {}) \o base /\ UNCHANGED store
    BY <1>1, <1>2 DEF AddAll, Return
  <2> QED
    BY <2>1, ReturnsQuietly
<1>3. CASE ~Return(base)
  <2>1. /\ read.class \in classes /\ volumes[v] = None
        /\ SetVolume("Created", v, new, base)
    BY <1>3 DEF Provision
  <2>2. new \in Backed /\ v \in Names
    BY <1>1, <2>1, NewVolumeTypes DEF Names, TypeInv, RestType
  <2>3. new.claim = None
    BY DEF DynamicVolume, NewVolume
  <2>4. Acting(base) /\ \A f \in Range(stack) : Unwritten(f) => f \in Range(base)
    BY <1>1 DEF Acting, Unwritten
  <2> HIDE DEF c, read, base, v, new
  <2>5. WroteVolume("Created", v, new, None, base)
    <3>1. WroteVolume("Created", v, new, IF "Created" = "Deleted" THEN volumes[v].claim
                                         ELSE new.claim, base)
      BY <2>1, SetVolumeIs
    <3> QED
      BY <2>3, <3>1
  <2> QED
    BY <2>1, <2>2, <2>3, <2>4, <2>5, CreatesVolume
<1> QED
  BY <1>2, <1>3

LEMMA BindBInv ==
  ASSUME BInv, TypeInv, ~Idle, Head(stack).op = "bind", BindStep(Head(stack), Tail(stack))
  PROVE  BInv'
<1> DEFINE frame == Head(stack)
           base == Tail(stack)
           next == [frame EXCEPT !.written = TRUE]
<1>1. /\ frame \in BindFrames /\ base \in Seq(Frames) /\ Nested(base)
      /\ Range(stack) = {frame} \cup Range(base) /\ frame \in Range(stack)
      /\ Above(frame, Range(base))
  BY HeadIs, FrameKinds DEF BInv
<1>2. CASE frame.written
  BY <1>2, BindEnds
<1>3. CASE ~frame.written
  <2>1. /\ SetClaim("Updated", frame.claim, ToBoundClaim(frame.read, frame.volume),
                    <<next>> \o base)
        /\ UNCHANGED <<queue, boundTo>>
    BY <1>3 DEF BindStep
  <2>2. /\ next \in BindFrames /\ next.op = "bind" /\ next.claim = frame.claim
        /\ next.volume = frame.volume /\ next.written = TRUE
    BY <1>1 DEF BindFrames
  <2>3. next \in Frames
    BY <2>2 DEF Frames
  <2>4. frame.claim \in Claims /\ claims[frame.claim] # None
        /\ frame.read \in Claimed /\ frame.volume \in Names
    BY <1>1, BindsKnown DEF BindMeans
  <2>5. ToBoundClaim(frame.read, frame.volume).volume = frame.volume
    BY <2>4 DEF ToBoundClaim, Claimed, ClaimValues
  <2>6. Unwritten(frame)
    BY <1>1, <1>3 DEF Unwritten, BindFrames
  <2> HIDE DEF frame, base, next
  <2>7. WroteClaim("Updated", frame.claim, ToBoundClaim(frame.read, frame.volume), frame.volume,
                   <<next>> \o base)
    <3> DEFINE new == ToBoundClaim(frame.read, frame.volume)
    <3>1. WroteClaim("Updated", frame.claim, new, IF "Updated" = "Deleted"
                     THEN claims[frame.claim].volume ELSE new.volume, <<next>> \o base)
      BY <2>1, <2>4, SetClaimIs
    <3> QED
      BY <2>5, <3>1
  <2>8. /\ \A g \in Range(base) : ~Unwritten(g)
        /\ \A f \in Range(stack) : Unwritten(f) => f = frame
    BY <1>1, <2>6 DEF Above
  <2>9. \A f \in Range(base) : f \in Range(stack)
    BY <1>1
  <2>10. Acting(base)
    BY <1>1, <2>6 DEF Acting
  <2> QED
    BY <1>1, <2>1, <2>2, <2>3, <2>6, <2>7, <2>8, <2>10, WritesBind
<1> QED
  BY <1>2, <1>3

LEMMA RunBInv ==
  ASSUME BInv, TypeInv, NotStranded, Run
  PROVE  BInv'
<1> DEFINE frame == Head(stack)
           rest == Tail(stack)
<1>1. ~Idle /\ frame \in Frames /\ rest \in Seq(Frames)
  BY HeadIs DEF Run
<1>2. CASE frame.op = "deliver" /\ DeliverStep(frame, rest)
  BY <1>1, <1>2, DeliverBInv
<1>3. CASE frame.op = "loop" /\ LoopStep(frame, rest)
  BY <1>1, <1>3, LoopBInv
<1>4. CASE frame.op = "next" /\ AfterNext(frame, rest) /\ UNCHANGED <<queue, boundTo>>
  BY <1>1, <1>4, NextEnds
<1>5. CASE frame.op = "addAll" /\ AddAllStep(frame, rest) /\ UNCHANGED boundTo
  BY <1>1, <1>5, AddsAll
<1>6. CASE frame.op = "matching" /\ Matching(frame, rest) /\ UNCHANGED <<queue, boundTo>>
  <2>1. PICK keys \in SUBSET Claims :
          stack' = AddAll("claims", keys) \o rest /\ UNCHANGED store
    <3>1. ClaimsFor(volumes[frame.volume]) \in SUBSET Claims
      BY DEF ClaimsFor, PendingClaims
    <3>2. CASE volumes[frame.volume] = None
      <4>1. Return(rest)
        BY <1>6, <3>2 DEF Matching
      <4>2. stack' = AddAll("claims", {}) \o rest /\ UNCHANGED store
        BY <1>1, <4>1 DEF AddAll, Return
      <4>3. {} \in SUBSET Claims
        OBVIOUS
      <4> QED
        BY <4>2, <4>3
    <3>3. CASE volumes[frame.volume] # None
      BY <1>6, <3>1, <3>3 DEF Matching, Return
    <3> QED
      BY <3>2, <3>3
  <2> QED
    BY <1>1, <1>6, <2>1, ReturnsQuietly
<1>7. CASE frame.op = "provision" /\ Provision(frame.claim, frame.read, rest)
           /\ UNCHANGED <<queue, boundTo>>
  BY <1>1, <1>7, ProvisionBInv
<1>8. CASE frame.op = "bind" /\ BindStep(frame, rest)
  BY <1>1, <1>8, BindBInv
<1> QED
  BY <1>2, <1>3, <1>4, <1>5, <1>6, <1>7, <1>8 DEF Run

-------------------------------------------------------------------------------

LEMMA PodNotice ==
  ASSUME TypeInv, NEW p \in Pods, PodStep(p)
  PROVE  \E op \in Ops : \E ref \in Claims : Notice(Event("Pod", op, p, ref))
<1>1. pods[p] # None => pods[p].claim \in Claims
  BY DEF TypeInv, RestType, PodValues
<1>2. ASSUME NEW op \in Ops, NEW new, SetPod(op, p, new), Idle,
             (IF new = None THEN pods[p].claim ELSE new.claim) \in Claims
      PROVE  \E ref \in Claims : Notice(Event("Pod", op, p, ref))
  <2> DEFINE ref == IF new = None THEN pods[p].claim ELSE new.claim
             event == Event("Pod", op, p, ref)
  <2>1. stack' = <<Delivery(event)>> \o << >>
    BY <1>2 DEF SetPod, Deliver, Delivery
  <2>2. UNCHANGED <<claims, volumes, boundTo, queue>>
    BY <1>2 DEF SetPod, store, Untouched
  <2>3. event.kind = "Pod"
    BY DEF Event
  <2>4. ref \in Claims
    BY <1>2
  <2> HIDE DEF ref
  <2> QED
    BY <1>2, <2>1, <2>2, <2>3, <2>4 DEF Notice
<1>3. "Created" \in Ops /\ "Updated" \in Ops /\ "Deleted" \in Ops
  BY DEF Ops
<1>4. ASSUME NEW c \in Claims, CreatePod(p, c)
      PROVE  \E op \in Ops : \E ref \in Claims : Notice(Event("Pod", op, p, ref))
  <2> DEFINE new == [claim |-> c, scheduled |-> FALSE, terminating |-> FALSE]
  <2>1. new \in PodValues /\ new.claim = c
    BY DEF PodValues
  <2>2. new # None
    BY <2>1, NoneAssumption
  <2>3. SetPod("Created", p, new) /\ Idle
    BY <1>4 DEF CreatePod, Edit
  <2> HIDE DEF new
  <2> QED
    BY <1>2, <1>3, <2>1, <2>2, <2>3
<1>5. CASE Schedule(p) \/ TerminatePod(p)
  <2>1. PICK new : /\ SetPod("Updated", p, new) /\ Idle /\ pods[p] # None
                   /\ new = [pods[p] EXCEPT !.scheduled = TRUE]
                      \/ new = [pods[p] EXCEPT !.terminating = TRUE]
    BY <1>5 DEF Schedule, TerminatePod, Edit
  <2>2. pods[p] \in PodValues
    BY <2>1 DEF TypeInv, RestType
  <2>3. new.claim = pods[p].claim
    BY <2>1, <2>2 DEF PodValues
  <2> QED
    BY <1>1, <1>2, <1>3, <2>1, <2>3
<1>6. CASE RemovePod(p)
  <2>1. SetPod("Deleted", p, None) /\ Idle /\ pods[p] # None
    BY <1>6 DEF RemovePod
  <2> QED
    BY <1>1, <1>2, <1>3, <2>1
<1> QED
  BY <1>4, <1>5, <1>6 DEF PodStep

LEMMA ClassNotice ==
  ASSUME NEW s \in DOMAIN StorageClasses, CreateClass(s) \/ DeleteClass(s)
  PROVE  \E op \in Ops : Notice(Event("StorageClass", op, s, None))
<1>1. \A op : Event("StorageClass", op, s, None).kind = "StorageClass"
  BY DEF Event
<1>2. CASE CreateClass(s)
  <2>1. Notice(Event("StorageClass", "Created", s, None))
    BY <1>1, <1>2 DEF CreateClass, Notice, Edit, Untouched, store, Deliver, Delivery
  <2> QED
    BY <2>1 DEF Ops
<1>3. CASE DeleteClass(s)
  <2>1. Notice(Event("StorageClass", "Deleted", s, None))
    BY <1>1, <1>3 DEF DeleteClass, Notice, Edit, store, Deliver, Delivery
  <2> QED
    BY <2>1 DEF Ops
<1> QED
  BY <1>2, <1>3

LEMMA NoticeTypes ==
  /\ \A op \in Ops, p \in Pods, ref \in Claims : Event("Pod", op, p, ref) \in Events
  /\ \A op \in Ops, s \in DOMAIN StorageClasses : Event("StorageClass", op, s, None) \in Events
BY DEF Event, Events, PodEvents, ClassEvents

LEMMA NoticeBInv ==
  ASSUME BInv, TypeInv, NEW event \in Events, Notice(event)
  PROVE  BInv'
<1>1. /\ Range(stack) = {} /\ UNCHANGED <<claims, volumes, boundTo, queue>>
      /\ event.kind \in {"Pod", "StorageClass"}
  BY EmptyIs DEF Notice, Idle
<1>2. UNCHANGED store /\ queue' = queue /\ boundTo' = boundTo
  BY <1>1 DEF store
<1>3. Delivery(event) \in Frames /\ Delivery(event).op = "deliver"
      /\ Delivery(event).event = event /\ \A below : Above(Delivery(event), below)
  BY DeliveryIs
<1>4. Nested(stack') /\ Range(stack') = {Delivery(event)}
  BY <1>3, PushIs, EmptyIs DEF Notice
<1>5. \A x : ~TellsClaim(event, x) /\ ~TellsVolume(event, x) /\ ~TellsGone(event, x)
  BY <1>1 DEF TellsClaim, TellsVolume, TellsGone
<1>6. \A x : ~ClaimComes(x, stack') /\ ~VolumeComes(x, stack') /\ ~ClaimGoes(x, stack')
  BY <1>3, <1>4, <1>5 DEF ClaimComes, VolumeComes, ClaimGoes
<1>7. \A x : /\ ~ClaimComes(x, stack) /\ ~VolumeComes(x, stack) /\ ~ClaimGoes(x, stack)
             /\ ~Draining(x, stack)
  BY <1>1, DrainingIs DEF ClaimComes, VolumeComes, ClaimGoes
<1>8. \A x, y, w : ~Binding(x, y, w, stack)
  BY <1>1 DEF Binding
<1>9. \A q, k : InQueue(q, k)' <=> InQueue(q, k)
  BY <1>2 DEF InQueue
<1>10. Known'
  BY <1>2, <1>6, <1>7, <1>8, KnownStays DEF BInv
<1>11. Busy'
  BY <1>2, <1>6, <1>7, <1>9, BusyStays DEF BInv
<1> QED
  BY <1>1, <1>2, <1>3, <1>4, <1>6, <1>7, <1>9, <1>10, <1>11, QuietKeeps DEF Unwritten

UserWrite ==
  \/ \E v \in Names : \E new \in Backed :
       /\ volumes[v] = None /\ new.claim = None
       /\ WroteVolume("Created", v, new, None, << >>)
  \/ \E v \in Names : volumes[v] # None
       /\ WroteVolume("Deleted", v, None, volumes[v].claim, << >>)
  \/ \E c \in Claims : \E new \in Claimed :
       claims[c] = None /\ WroteClaim("Created", c, new, new.volume, << >>)
  \/ \E c \in Claims : claims[c] # None
       /\ WroteClaim("Deleted", c, None, claims[c].volume, << >>)

LEMMA UserWrites ==
  ASSUME TypeInv, UserStep
  PROVE  Idle /\ UNCHANGED <<queue, boundTo, pods, classes, gone>> /\ UserWrite
<1>1. Idle /\ UNCHANGED <<queue, boundTo, pods, classes, gone>>
  BY DEF UserStep, CreateVolume, DeleteVolume, CreateClaim, DeleteClaim, Edit, Untouched
<1>2. ASSUME NEW v \in Statics, NEW spec \in VolumeSpecs, CreateVolume(v, spec) PROVE UserWrite
  <2> DEFINE new == NewVolume(spec)
  <2>1. v \in Names /\ new \in Backed /\ volumes[v] = None
        /\ SetVolume("Created", v, new, << >>)
    BY <1>2, NewVolumeTypes DEF Names, CreateVolume
  <2>2. new.claim = None
    BY DEF NewVolume
  <2> HIDE DEF new
  <2>3. WroteVolume("Created", v, new, IF "Created" = "Deleted" THEN volumes[v].claim
                                       ELSE new.claim, << >>)
    BY <2>1, SetVolumeIs
  <2>4. WroteVolume("Created", v, new, None, << >>)
    BY <2>2, <2>3
  <2> QED
    BY <2>1, <2>2, <2>4 DEF UserWrite
<1>3. ASSUME NEW v \in Names, DeleteVolume(v) PROVE UserWrite
  <2> DEFINE new == None
  <2>1. volumes[v] # None /\ SetVolume("Deleted", v, new, << >>)
    BY <1>3 DEF DeleteVolume
  <2>2. new = None
    OBVIOUS
  <2> HIDE DEF new
  <2>3. WroteVolume("Deleted", v, new, IF "Deleted" = "Deleted" THEN volumes[v].claim
                                       ELSE new.claim, << >>)
    BY <2>1, SetVolumeIs
  <2>4. WroteVolume("Deleted", v, None, volumes[v].claim, << >>)
    BY <2>2, <2>3
  <2> QED
    BY <2>1, <2>4 DEF UserWrite
<1>4. ASSUME NEW c \in Claims, NEW spec \in ClaimSpecs, NEW v \in Names \cup {None},
             CreateClaim(c, spec, v)
      PROVE  UserWrite
  <2> DEFINE class == IF spec.class = None /\ DefaultClass \in classes
                      THEN DefaultClass ELSE spec.class
             new == [class |-> class, size |-> spec.size, volume |-> v, bound |-> v # None]
  <2>1. SetClaim("Created", c, new, << >>) /\ claims[c] = None
    BY <1>4 DEF CreateClaim
  <2>2. class \in ClassNames /\ spec.size \in Sizes
    BY ClassesAssumption DEF ClassNames, Sizes
  <2>3. new \in Claimed
    <3> HIDE DEF class
    <3> HIDE DEF ClassNames, Sizes, Names
    <3> QED
      BY <2>2 DEF Claimed, ClaimValues
  <2> HIDE DEF new
  <2>4. WroteClaim("Created", c, new, IF "Created" = "Deleted" THEN claims[c].volume
                                      ELSE new.volume, << >>)
    BY <2>1, SetClaimIs
  <2>5. WroteClaim("Created", c, new, new.volume, << >>)
    BY <2>4
  <2> QED
    BY <2>1, <2>3, <2>5 DEF UserWrite
<1>5. ASSUME NEW c \in Claims, DeleteClaim(c) PROVE UserWrite
  <2> DEFINE new == None
  <2>1. claims[c] # None /\ SetClaim("Deleted", c, new, << >>)
    BY <1>5 DEF DeleteClaim
  <2>2. new = None
    OBVIOUS
  <2> HIDE DEF new
  <2>3. WroteClaim("Deleted", c, new, IF "Deleted" = "Deleted" THEN claims[c].volume
                                      ELSE new.volume, << >>)
    BY <2>1, SetClaimIs
  <2>4. WroteClaim("Deleted", c, None, claims[c].volume, << >>)
    BY <2>2, <2>3
  <2> QED
    BY <2>1, <2>4 DEF UserWrite
<1> QED
  BY <1>1, <1>2, <1>3, <1>4, <1>5 DEF UserStep

LEMMA UserBInv ==
  ASSUME BInv, TypeInv, Idle, UNCHANGED <<queue, boundTo>>, UserWrite
  PROVE  BInv'
<1>1. Range(stack) = {} /\ Acting(<< >>)
  BY EmptyIs DEF Idle, Acting
<1>2. QueueType' /\ \A q \in Queues : \A k : InQueue(q, k)' <=> InQueue(q, k)
  BY DEF TypeInv, QueueType, InQueue
<1>3. ASSUME NEW v \in Names, volumes[v] # None,
             WroteVolume("Deleted", v, None, volumes[v].claim, << >>)
      PROVE  BInv'
  BY <1>1, <1>2, <1>3, RemovesVolume
<1> QED
  BY <1>1, <1>3, CreatesVolume, CreatesClaim, RemovesClaim DEF UserWrite

-------------------------------------------------------------------------------

LEMMA IdleIs ==
  ASSUME BInv, TypeInv, Idle
  PROVE  /\ Range(stack) = {}
         /\ \A x : /\ ~ClaimComes(x, stack) /\ ~VolumeComes(x, stack) /\ ~ClaimGoes(x, stack)
                   /\ ~Draining(x, stack)
         /\ \A x, y, w : ~Binding(x, y, w, stack)
         /\ \A c \in Claims : claims[c] # None /\ InQueue("claims", c) => Good(c)
         /\ \A v \in Names : volumes[v] # None /\ InQueue("volumes", v) => Settled(v)
         /\ queue["provisioning"] = << >>
         /\ \A c \in Claims : ~Dirty(c)
         /\ \A v \in Names : ~Orphan(v)
<1>1. Range(stack) = {}
  BY EmptyIs DEF Idle
<1>2. /\ \A x : /\ ~ClaimComes(x, stack) /\ ~VolumeComes(x, stack) /\ ~ClaimGoes(x, stack)
                /\ ~Draining(x, stack)
      /\ \A x, y, w : ~Binding(x, y, w, stack)
  BY <1>1, DrainingIs DEF ClaimComes, VolumeComes, ClaimGoes, Binding
<1>3. /\ \A c \in Claims : claims[c] # None /\ InQueue("claims", c) => Good(c)
      /\ \A v \in Names : volumes[v] # None /\ InQueue("volumes", v) => Settled(v)
      /\ queue["provisioning"] = << >>
  BY <1>2 DEF BInv, Busy
<1>4. \A c \in Claims : ~Dirty(c)
  BY <1>2, <1>3 DEF BInv, DirtSeen, Dirty
<1>5. \A v \in Names : ~Orphan(v)
  BY <1>2, <1>3 DEF BInv, OrphansSeen, Orphan, Settled
<1> QED
  BY <1>1, <1>2, <1>3, <1>4, <1>5

\* processNext finds a key whose turn writes nothing: what needed a turn had it
\* in an immediate loop.
LEMMA TimerTurn ==
  ASSUME BInv, TypeInv, NEW q \in Queues, TimerFires(q), queue[q] # << >>
  PROVE  LET base == <<[op |-> "next", queue |-> q]>>
         IN  /\ Popped(q) /\ Turning(q, base) /\ Handle(q, Head(queue[q]), base)
             /\ Head(queue[q]) \in Keys[q] /\ InQueue(q, Head(queue[q]))
             /\ q # "provisioning"
             /\ Range(base) = {[op |-> "next", queue |-> q]}
<1> DEFINE next == [op |-> "next", queue |-> q]
           base == <<next>>
<1>1. Idle /\ Popped(q) /\ Handle(q, Head(queue[q]), base)
  BY DEF TimerFires, Popped
<1>2. next \in Frames /\ next.op = "next" /\ base = <<next>> \o << >>
  BY DEF Frames, NextFrames
<1> HIDE DEF next
<1>3. Above(next, {})
  BY <1>2 DEF Above, IsLoop, Unwritten
<1>4. base \in Seq(Frames) /\ Nested(base) /\ Range(base) = {next}
  <2> DEFINE empty == << >>
             over == <<next>> \o empty
  <2>1. empty \in Seq(Frames) /\ Range(empty) = {} /\ Nested(empty)
    BY EmptyIs
  <2>2. base = over
    BY <1>2
  <2> HIDE DEF empty, base
  <2>3. Above(next, Range(empty))
    BY <1>3, <2>1
  <2>4. over \in Seq(Frames) /\ Range(over) = {next} \cup Range(empty) /\ Nested(over)
    BY <1>2, <2>1, <2>3, PushIs
  <2> HIDE DEF over
  <2> QED
    BY <2>1, <2>2, <2>4
<1>5. Turning(q, base)
  BY <1>1, <1>2, <1>4, IdleIs DEF Turning
<1>6. q # "provisioning"
  BY <1>1, IdleIs
<1>7. Head(queue[q]) \in Keys[q] /\ InQueue(q, Head(queue[q]))
  BY <1>1, PoppedIs
<1>8. next = [op |-> "next", queue |-> q]
  BY DEF next
<1> QED
  BY <1>1, <1>4, <1>5, <1>6, <1>7, <1>8

LEMMA TimerBInv ==
  ASSUME BInv, TypeInv, NEW q \in Queues, TimerFires(q)
  PROVE  BInv'
<1>1. Idle
  BY DEF TimerFires
<1>2. CASE queue[q] = << >>
  <2>1. UNCHANGED <<claims, volumes, queue, boundTo, stack>>
    BY <1>1, <1>2 DEF TimerFires, Return, store, Idle
  <2> QED
    BY <2>1 DEF BInv, Nested, BindsMean, BindMeans, OneVolume, OrphansSeen, Orphan, DirtSeen,
                Dirty, Good, Known, Busy, Settled, InQueue
<1>3. CASE queue[q] # << >>
  <2> DEFINE base == <<[op |-> "next", queue |-> q]>>
  <2>1. /\ Popped(q) /\ Turning(q, base) /\ Handle(q, Head(queue[q]), base)
        /\ Head(queue[q]) \in Keys[q] /\ InQueue(q, Head(queue[q]))
        /\ q = "claims" \/ q = "volumes"
    BY <1>3, TimerTurn DEF Queues
  <2> HIDE DEF base
  <2>2. CASE q = "claims"
    <3>1. \A f \in Range(stack) : ~Unwritten(f)
      BY <1>1, IdleIs
    <3>2. ReconcileClaim(Head(queue["claims"]), base)
      BY <2>1, <2>2 DEF Handle
    <3>3. LET c == Head(queue["claims"]) IN claims[c] # None => Good(c)
      BY <1>1, <2>1, <2>2, IdleIs, KeysOf
    <3> QED
      BY <2>1, <2>2, <3>1, <3>2, <3>3, ClaimTurnBInv, KeysOf
  <2>3. CASE q = "volumes"
    <3>1. ReconcileVolume(Head(queue["volumes"]), base) /\ UNCHANGED boundTo
      BY <2>1, <2>3 DEF Handle
    <3> QED
      BY <2>1, <2>3, <3>1, VolumeTurnBInv, KeysOf
  <2> QED
    BY <2>1, <2>2, <2>3
<1> QED
  BY <1>2, <1>3

LEMMA StepBInv ==
  ASSUME BInv, TypeInv, NotStranded, [Next]_vars
  PROVE  BInv'
<1>1. CASE UNCHANGED vars
  <2>1. UNCHANGED <<claims, volumes, queue, boundTo, stack>>
    BY <1>1 DEF vars, store
  <2> QED
    BY <2>1 DEF BInv, Nested, BindsMean, BindMeans, OneVolume, OrphansSeen, Orphan, DirtSeen,
                Dirty, Good, Known, Busy, Settled, InQueue
<1>2. ASSUME NEW p \in Pods, PodStep(p) PROVE BInv'
  BY <1>2, PodNotice, NoticeTypes, NoticeBInv
<1>3. ASSUME NEW s \in DOMAIN StorageClasses, CreateClass(s) \/ DeleteClass(s) PROVE BInv'
  BY <1>3, ClassNotice, NoticeTypes, NoticeBInv
<1>4. CASE UserStep
  BY <1>4, UserWrites, UserBInv
<1> QED
  BY <1>1, <1>2, <1>3, <1>4, RunBInv, TimerBInv DEF Next, UserStep, PodStep

LEMMA InitBInv == Init => BInv
<1> SUFFICES ASSUME Init PROVE BInv
  OBVIOUS
<1>1. /\ \A c \in Claims : claims[c] = None /\ boundTo[c] = None
      /\ \A v \in Names : volumes[v] = None
      /\ \A q \in Queues : queue[q] = << >>
      /\ stack = << >>
  BY DEF Init
<1>2. Range(stack) = {} /\ Nested(stack)
  BY <1>1, EmptyIs
<1> QED
  BY <1>1, <1>2, KeysOf DEF BInv, BindsMean, OneVolume, OrphansSeen, Orphan, DirtSeen, Dirty, Known,
     Busy

-------------------------------------------------------------------------------
(* What there is to write *)

LEMMA WorkIs ==
  /\ \A n, c : <<n, c>> \in Work <=>
       \/ n \in 1..4 /\ c \in Claims /\ ClaimWork(n, c)
       \/ n \in 5..7 /\ c \in Names /\ VolumeWork(n, c)
  /\ Work \subseteq ClaimTasks \cup VolumeTasks
  /\ \A t \in Work : t = <<t[1], t[2]>>
BY DEF Work, ClaimTasks, VolumeTasks

LEMMA SizesAre ==
  ASSUME BatchSuffices
  PROVE  /\ Longest \in Nat /\ Round \in Nat /\ Round = 2 * Longest + 1
         /\ Cardinality(Claims) \in Nat /\ Cardinality(Claims) <= Longest
         /\ Cardinality(Names) \in Nat /\ Cardinality(Names) <= Longest
<1>1. Cardinality(Claims) \in Nat /\ Cardinality(Names) \in Nat
  BY FS_CardinalityType DEF BatchSuffices
<1> QED
  BY <1>1 DEF Longest, Round

\* The tasks are finitely many.
LEMMA TasksAre ==
  ASSUME BatchSuffices
  PROVE  LET tasks == ClaimTasks \cup VolumeTasks
         IN  /\ IsFiniteSet(tasks) /\ Cardinality(tasks) \in Nat
             /\ Cardinality(tasks) <= 4 * Cardinality(Claims) + 3 * Cardinality(Names)
<1> DEFINE a == ClaimTasks
           b == VolumeTasks
<1>1. IsFiniteSet(Claims) /\ IsFiniteSet(Names)
  BY DEF BatchSuffices
<1>2. /\ IsFiniteSet(1..4) /\ Cardinality(1..4) = 4
      /\ IsFiniteSet(5..7) /\ Cardinality(5..7) = 3
  <2>1. ASSUME NEW m \in Int, NEW n \in Int, m <= n
        PROVE  IsFiniteSet(m..n) /\ Cardinality(m..n) = n - m + 1
    <3>1. ~(m > n)
      BY <2>1
    <3> QED
      BY <3>1, FS_Interval
  <2>2. /\ 1 \in Int /\ 4 \in Int /\ 1 <= 4 /\ 4 - 1 + 1 = 4
        /\ 5 \in Int /\ 7 \in Int /\ 5 <= 7 /\ 7 - 5 + 1 = 3
    OBVIOUS
  <2>3. IsFiniteSet(1..4) /\ Cardinality(1..4) = 4 - 1 + 1
    BY <2>1, <2>2, Zenon
  <2>4. IsFiniteSet(5..7) /\ Cardinality(5..7) = 7 - 5 + 1
    BY <2>1, <2>2, Zenon
  <2> QED
    BY <2>2, <2>3, <2>4, Zenon
<1>3. IsFiniteSet(a) /\ Cardinality(a) = 4 * Cardinality(Claims)
  BY <1>1, <1>2, FS_Product DEF ClaimTasks
<1>4. IsFiniteSet(b) /\ Cardinality(b) = 3 * Cardinality(Names)
  BY <1>1, <1>2, FS_Product DEF VolumeTasks
<1> HIDE DEF a, b
<1>5. /\ IsFiniteSet(a \cup b)
      /\ Cardinality(a \cup b) = Cardinality(a) + Cardinality(b) - Cardinality(a \cap b)
  BY <1>3, <1>4, FS_Union
<1>6. IsFiniteSet(a \cap b)
  BY <1>3, FS_Intersection
<1>7. /\ Cardinality(a \cap b) \in Nat /\ Cardinality(a \cup b) \in Nat
      /\ Cardinality(a) \in Nat /\ Cardinality(b) \in Nat
  BY <1>3, <1>4, <1>5, <1>6, FS_CardinalityType
<1>8. Cardinality(a \cup b) <= 4 * Cardinality(Claims) + 3 * Cardinality(Names)
  BY <1>3, <1>4, <1>5, <1>7
<1> QED
  BY <1>5, <1>7, <1>8 DEF a, b

LEMMA Times ==
  ASSUME NEW r \in Nat, NEW a \in Nat, NEW b \in Nat, a <= b
  PROVE  r * a \in Nat /\ r * b \in Nat /\ r * a <= r * b /\ r * (b + 1) = r * b + r
OBVIOUS

\* What the proofs need of the bound
Counts ==
  /\ Longest \in Nat /\ Round = 2 * Longest + 1
  /\ Debt \in Nat /\ MaxBatch \in Nat /\ MaxBatch >= Debt + Round

Counted == BatchSuffices => Counts

LEMMA CountsHold == Counted
<1> SUFFICES ASSUME BatchSuffices PROVE Counts
  BY DEF Counted
<1> DEFINE tasks == ClaimTasks \cup VolumeTasks
           most == 4 * Cardinality(Claims) + 3 * Cardinality(Names)
<1>1. IsFiniteSet(tasks) /\ Cardinality(tasks) \in Nat /\ Cardinality(tasks) <= most
  BY TasksAre
<1>2. Work \in SUBSET tasks
  BY WorkIs
<1> HIDE DEF tasks
<1>3. IsFiniteSet(Work) /\ Cardinality(Work) <= Cardinality(tasks)
  BY <1>1, <1>2, FS_Subset
<1>4. Cardinality(Work) \in Nat
  BY <1>3, FS_CardinalityType
<1>5. most \in Nat /\ Round \in Nat /\ MaxBatch \in Nat
  BY SizesAre, BoundsAssumption
<1>6. MaxBatch >= Round * (most + 1)
  BY DEF BatchSuffices
<1> HIDE DEF most
<1>7. Cardinality(Work) <= most
  BY <1>1, <1>3, <1>4, <1>5
<1>8. /\ Debt \in Nat /\ Round * most \in Nat /\ Debt <= Round * most
      /\ Round * (most + 1) = Round * most + Round
  BY <1>4, <1>5, <1>7, Times DEF Debt
<1>9. MaxBatch >= Debt + Round
  BY <1>5, <1>6, <1>8
<1> QED
  BY <1>5, <1>8, <1>9, SizesAre DEF Counts

LEMMA CountsNext == BatchSuffices => Counts /\ Counts'
<1>1. Counted'
  BY CountsHold, PTL
<1>2. BatchSuffices => BatchSuffices'
  BY DEF BatchSuffices, Round, Longest
<1> QED
  BY <1>1, <1>2, CountsHold DEF Counted

\* A write that takes a task away
Shrinks == Work' \subseteq Work /\ Work' # Work

LEMMA DebtShrinks ==
  ASSUME BatchSuffices, Shrinks
  PROVE  Debt' + Round <= Debt
<1> DEFINE tasks == ClaimTasks \cup VolumeTasks
           before == Work
           after == Work'
<1>1. IsFiniteSet(tasks)
  BY TasksAre
<1>2. before \in SUBSET tasks /\ after \in SUBSET before /\ after # before
  BY WorkIs DEF Shrinks
<1>d. Debt = Round * Cardinality(before) /\ Debt' = Round * Cardinality(after)
  BY DEF Debt, Round, Longest
<1> HIDE DEF tasks, before, after
<1>3. IsFiniteSet(before)
  BY <1>1, <1>2, FS_Subset
<1>4. IsFiniteSet(after) /\ Cardinality(after) <= Cardinality(before)
      /\ Cardinality(after) # Cardinality(before)
  BY <1>2, <1>3, FS_Subset
<1>5. Cardinality(after) \in Nat /\ Cardinality(before) \in Nat /\ Round \in Nat
  BY <1>3, <1>4, FS_CardinalityType, SizesAre
<1>6. Cardinality(after) + 1 \in Nat /\ Cardinality(after) + 1 <= Cardinality(before)
  BY <1>4, <1>5
<1>7. Round * (Cardinality(after) + 1) <= Round * Cardinality(before)
  BY <1>5, <1>6, Times
<1>8. Round * (Cardinality(after) + 1) = Round * Cardinality(after) + Round
  BY <1>5, Times
<1>9. Round * Cardinality(after) + Round <= Round * Cardinality(before)
  BY <1>7, <1>8
<1> QED
  BY <1>9, <1>d

LEMMA DebtStays == ASSUME UNCHANGED store PROVE Debt' = Debt /\ Work' = Work
BY SameObjects DEF Debt, Round, Longest, Work, ClaimWork, VolumeWork, Claimless, store

-------------------------------------------------------------------------------
(* Writes take from what there is to write *)

LEMMA TakesTask ==
  ASSUME \A n \in 1..4 : \A c \in Claims : ClaimWork(n, c)' => ClaimWork(n, c),
         \A n \in 5..7 : \A v \in Names : VolumeWork(n, v)' => VolumeWork(n, v),
         \/ \E n \in 1..4 : \E c \in Claims : ClaimWork(n, c) /\ ~ClaimWork(n, c)'
         \/ \E n \in 5..7 : \E v \in Names : VolumeWork(n, v) /\ ~VolumeWork(n, v)'
  PROVE  Shrinks
<1> DEFINE after == Work'
<1>1. \A t : t \in after <=>
        \/ t \in ClaimTasks /\ \E n \in 1..4 : \E c \in Claims : t = <<n, c>> /\ ClaimWork(n, c)'
        \/ t \in VolumeTasks /\ \E n \in 5..7 : \E v \in Names : t = <<n, v>> /\ VolumeWork(n, v)'
  BY DEF Work, ClaimTasks, VolumeTasks
<1>2. \A t : t \in Work <=>
        \/ t \in ClaimTasks /\ \E n \in 1..4 : \E c \in Claims : t = <<n, c>> /\ ClaimWork(n, c)
        \/ t \in VolumeTasks /\ \E n \in 5..7 : \E v \in Names : t = <<n, v>> /\ VolumeWork(n, v)
  BY DEF Work, ClaimTasks, VolumeTasks
<1> HIDE DEF after
<1>3. after \subseteq Work
  BY <1>1, <1>2
<1>4. after # Work
  <2>1. CASE \E n \in 1..4 : \E c \in Claims : ClaimWork(n, c) /\ ~ClaimWork(n, c)'
    <3>1. PICK n \in 1..4, c \in Claims : ClaimWork(n, c) /\ ~ClaimWork(n, c)'
      BY <2>1
    <3>2. <<n, c>> \in Work
      BY <1>2, <3>1 DEF ClaimTasks
    <3>3. <<n, c>> \notin after
      <4>1. n \notin 5..7
        OBVIOUS
      <4> QED
        BY <1>1, <3>1, <4>1
    <3> QED
      BY <3>2, <3>3
  <2>2. CASE \E n \in 5..7 : \E v \in Names : VolumeWork(n, v) /\ ~VolumeWork(n, v)'
    <3>1. PICK n \in 5..7, v \in Names : VolumeWork(n, v) /\ ~VolumeWork(n, v)'
      BY <2>2
    <3>2. <<n, v>> \in Work
      BY <1>2, <3>1 DEF VolumeTasks
    <3>3. <<n, v>> \notin after
      <4>1. n \notin 1..4
        OBVIOUS
      <4> QED
        BY <1>1, <3>1, <4>1
    <3> QED
      BY <3>2, <3>3
  <2> QED
    BY <2>1, <2>2
<1> QED
  BY <1>3, <1>4 DEF Shrinks, after

LEMMA CreatesShrinks ==
  ASSUME StoreType, NEW v \in Names, volumes[v] = None, NEW new \in Backed, new.claim = None,
         volumes' = [volumes EXCEPT ![v] = new], UNCHANGED claims
  PROVE  Shrinks
<1>1. /\ volumes'[v] = new /\ new # None
      /\ \A u \in Names : u # v => volumes'[u] = volumes[u]
  BY NoneAssumption DEF StoreType, Backed
<1>2. \A c \in Claims : claims'[c] = claims[c] /\ (claims[c] # None => claims[c].volume \in Names \cup {None})
  BY RefTypes
<1>n. None \notin Names /\ None \notin Claims
  BY NoneAssumption
<1>3. \A c \in Claims : (Good(c)' <=> Good(c)) /\ (Dirty(c)' <=> Dirty(c))
  BY <1>1, <1>2, <1>n DEF Good, Dirty
<1>4. \A n \in 1..4 : \A c \in Claims : ClaimWork(n, c)' => ClaimWork(n, c)
  BY <1>2, <1>3 DEF ClaimWork
<1>5. \A n \in 5..7 : \A u \in Names : VolumeWork(n, u)' => VolumeWork(n, u)
  BY <1>1 DEF VolumeWork, Claimless, Orphan
<1>6. VolumeWork(6, v) /\ ~VolumeWork(6, v)'
  BY <1>1 DEF VolumeWork, Orphan
<1> QED
  BY <1>4, <1>5, <1>6, TakesTask

LEMMA ClaimingShrinks ==
  ASSUME StoreType, NEW v \in Names, volumes[v] # None, volumes[v].claim = None,
         NEW c \in Claims, claims[c] # None, NEW new \in Backed, new.claim = c,
         volumes' = [volumes EXCEPT ![v] = new], UNCHANGED claims
  PROVE  Shrinks
<1>1. /\ volumes'[v] = new /\ new # None
      /\ \A u \in Names : u # v => volumes'[u] = volumes[u]
  BY NoneAssumption DEF StoreType, Backed
<1>2. \A d \in Claims : claims'[d] = claims[d] /\ (claims[d] # None => claims[d].volume \in Names \cup {None})
  BY RefTypes
<1>n. None \notin Names /\ None \notin Claims
  BY NoneAssumption
<1>3. \A d \in Claims : (Good(d) => Good(d)') /\ (Dirty(d)' => Dirty(d))
  BY <1>1, <1>2, <1>n DEF Good, Dirty
<1>4. \A n \in 1..4 : \A d \in Claims : ClaimWork(n, d)' => ClaimWork(n, d)
  BY <1>2, <1>3 DEF ClaimWork
<1>5. \A n \in 5..7 : \A u \in Names : VolumeWork(n, u)' => VolumeWork(n, u)
  BY <1>1 DEF VolumeWork, Claimless, Orphan
<1>6. VolumeWork(5, v) /\ ~VolumeWork(5, v)'
  BY <1>1, <1>n DEF VolumeWork, Claimless
<1> QED
  BY <1>4, <1>5, <1>6, TakesTask

LEMMA FreeingShrinks ==
  ASSUME StoreType, NEW v \in Names, Orphan(v), NEW new, new = None \/ new.claim = None,
         volumes' = [volumes EXCEPT ![v] = new], UNCHANGED claims
  PROVE  Shrinks
<1>1. /\ volumes'[v] = new
      /\ \A u \in Names : u # v => volumes'[u] = volumes[u]
  BY DEF StoreType
<1>2. \A d \in Claims : claims'[d] = claims[d] /\ (claims[d] # None => claims[d].volume \in Names \cup {None})
  BY RefTypes
<1>n. None \notin Names /\ None \notin Claims
  BY NoneAssumption
<1>3. \A d \in Claims : (Good(d) <=> Good(d)') /\ (Dirty(d)' <=> Dirty(d))
  BY <1>1, <1>2, <1>n DEF Good, Dirty, Orphan
<1>4. \A n \in 1..4 : \A d \in Claims : ClaimWork(n, d)' => ClaimWork(n, d)
  BY <1>2, <1>3 DEF ClaimWork
<1>5. \A n \in 5..7 : \A u \in Names : VolumeWork(n, u)' => VolumeWork(n, u)
  BY <1>1 DEF VolumeWork, Claimless, Orphan
<1>6. VolumeWork(7, v) /\ ~VolumeWork(7, v)'
  BY <1>1 DEF VolumeWork, Orphan
<1> QED
  BY <1>4, <1>5, <1>6, TakesTask

LEMMA GivingUpShrinks ==
  ASSUME StoreType, NEW c \in Claims, Dirty(c), NEW new \in Claimed, new.volume = None,
         new.class = claims[c].class,
         claims' = [claims EXCEPT ![c] = new], UNCHANGED volumes
  PROVE  Shrinks
<1>1. /\ claims'[c] = new /\ new # None /\ claims[c] # None
      /\ \A d \in Claims : d # c => claims'[d] = claims[d]
  BY NoneAssumption DEF StoreType, Claimed, Dirty
<1>2. /\ \A u \in Names : volumes'[u] = volumes[u]
      /\ \A u \in Names : volumes[u] # None => volumes[u].claim \in Claims \cup {None}
  BY RefTypes
<1>n. None \notin Names /\ None \notin Claims
  BY NoneAssumption
<1>3. \A d \in Claims :
        /\ d # c => (Good(d)' <=> Good(d)) /\ (Dirty(d)' <=> Dirty(d))
        /\ d = c => ~Good(d)' /\ ~Good(d) /\ ~Dirty(d)'
  BY <1>1, <1>2 DEF Good, Dirty
<1>4. \A n \in 1..4 : \A d \in Claims : ClaimWork(n, d)' => ClaimWork(n, d)
  BY <1>1, <1>3 DEF ClaimWork
<1>5. \A n \in 5..7 : \A u \in Names : VolumeWork(n, u)' => VolumeWork(n, u)
  BY <1>1, <1>2, <1>n DEF VolumeWork, Claimless, Orphan
<1>6. \A d \in Claims : d = c => ClaimWork(2, d) /\ ~ClaimWork(2, d)'
  BY <1>1, <1>3 DEF ClaimWork
<1> QED
  BY <1>4, <1>5, <1>6, TakesTask

LEMMA BindingShrinks ==
  ASSUME StoreType, NEW c \in Claims, claims[c] # None, claims[c].volume = None,
         NEW v \in Names, volumes[v] # None, volumes[v].claim = c,
         NEW new \in Claimed, new.volume = v,
         claims' = [claims EXCEPT ![c] = new], UNCHANGED volumes
  PROVE  Shrinks
<1>1. /\ claims'[c] = new /\ new # None /\ claims[c] # None
      /\ \A d \in Claims : d # c => claims'[d] = claims[d]
  BY NoneAssumption DEF StoreType, Claimed
<1>2. /\ \A u \in Names : volumes'[u] = volumes[u]
      /\ \A u \in Names : volumes[u] # None => volumes[u].claim \in Claims \cup {None}
  BY RefTypes
<1>n. None \notin Names /\ None \notin Claims
  BY NoneAssumption
<1>3. \A d \in Claims :
        /\ d # c => (Good(d)' <=> Good(d)) /\ (Dirty(d)' <=> Dirty(d))
        /\ d = c => Good(d)' /\ ~Good(d) /\ ~Dirty(d)'
  BY <1>1, <1>2, <1>n DEF Good, Dirty
<1>4. \A n \in 1..4 : \A d \in Claims : ClaimWork(n, d)' => ClaimWork(n, d)
  BY <1>1, <1>3 DEF ClaimWork
<1>5. \A n \in 5..7 : \A u \in Names : VolumeWork(n, u)' => VolumeWork(n, u)
  BY <1>1, <1>2, <1>n DEF VolumeWork, Claimless, Orphan
<1>6. \A d \in Claims : d = c => ClaimWork(1, d) /\ ~ClaimWork(1, d)'
  BY <1>1, <1>3 DEF ClaimWork
<1> QED
  BY <1>4, <1>5, <1>6, TakesTask

LEMMA DefaultingShrinks ==
  ASSUME StoreType, NEW c \in Claims, claims[c] # None, claims[c].class = None,
         NEW new \in Claimed, new.volume = claims[c].volume, new.class # None,
         claims' = [claims EXCEPT ![c] = new], UNCHANGED volumes
  PROVE  Shrinks
<1>1. /\ claims'[c] = new /\ new # None /\ claims[c] # None
      /\ \A d \in Claims : d # c => claims'[d] = claims[d]
  BY NoneAssumption DEF StoreType, Claimed
<1>2. /\ \A u \in Names : volumes'[u] = volumes[u]
      /\ \A u \in Names : volumes[u] # None => volumes[u].claim \in Claims \cup {None}
  BY RefTypes
<1>n. None \notin Names /\ None \notin Claims
  BY NoneAssumption
<1>3. \A d \in Claims : (Good(d)' <=> Good(d)) /\ (Dirty(d)' <=> Dirty(d))
  <2> TAKE d \in Claims
  <2>1. CASE d = c
    BY <1>1, <2>1 DEF Good, Dirty
  <2>2. CASE d # c
    BY <1>1, <2>2 DEF Good, Dirty
  <2> QED
    BY <2>1, <2>2
<1>4. \A n \in 1..4 : \A d \in Claims : ClaimWork(n, d)' => ClaimWork(n, d)
  BY <1>1, <1>3 DEF ClaimWork
<1>5. \A n \in 5..7 : \A u \in Names : VolumeWork(n, u)' => VolumeWork(n, u)
  BY <1>1, <1>2, <1>n DEF VolumeWork, Claimless, Orphan
<1>6. \A d \in Claims : d = c =>
        \/ ClaimWork(3, d) /\ ~ClaimWork(3, d)'
        \/ ClaimWork(4, d) /\ ~ClaimWork(4, d)'
  BY <1>1, <1>3 DEF ClaimWork
<1> QED
  BY <1>4, <1>5, <1>6, TakesTask

-------------------------------------------------------------------------------
(* Batches suffice *)

LEMMA PushRoom ==
  \A frame \in Frames : \A rest \in Seq(Frames) : \A over :
    RoomBelow(over, <<frame>> \o rest) <=>
      (frame.op = "loop" => Roomy(frame, over)) /\ RoomBelow(over \cup {frame}, rest)
<1> SUFFICES ASSUME NEW frame \in Frames, NEW rest \in Seq(Frames), NEW over
             PROVE  RoomBelow(over, <<frame>> \o rest) <=>
                      /\ frame.op = "loop" => Roomy(frame, over)
                      /\ RoomBelow(over \cup {frame}, rest)
  OBVIOUS
<1> DEFINE s == <<frame>> \o rest
<1>1. /\ Len(rest) \in Nat /\ Len(s) = Len(rest) + 1 /\ s[1] = frame
      /\ \A i \in 1..Len(rest) : s[i + 1] = rest[i]
  BY Under1
<1> HIDE DEF s
<1>2. over \cup Over(s, 1) = over
  BY DEF Over
<1>3. ASSUME NEW i \in 1..Len(rest)
      PROVE  over \cup Over(s, i + 1) = (over \cup {frame}) \cup Over(rest, i)
  <2>1. Over(s, i + 1) = {s[k] : k \in 1..i}
    BY <1>1 DEF Over
  <2>2. Over(rest, i) = {rest[k] : k \in 1..(i - 1)}
    BY DEF Over
  <2>3. ASSUME NEW k \in 1..i, k # 1 PROVE k - 1 \in 1..(i - 1) /\ s[k] = rest[k - 1]
    BY <1>1, <2>3
  <2>4. ASSUME NEW k \in 1..(i - 1) PROVE k + 1 \in 1..i /\ rest[k] = s[k + 1]
    BY <1>1
  <2>5. 1 \in 1..i
    BY <1>1
  <2>6. ASSUME NEW k \in 1..i PROVE s[k] = frame \/ s[k] \in Over(rest, i)
    BY <1>1, <2>2, <2>3
  <2>7. ASSUME NEW k \in 1..(i - 1) PROVE rest[k] \in Over(s, i + 1)
    BY <2>1, <2>4
  <2>8. frame \in Over(s, i + 1)
    BY <1>1, <2>1, <2>5
  <2>9. Over(s, i + 1) = {frame} \cup Over(rest, i)
    BY <2>1, <2>2, <2>6, <2>7, <2>8
  <2> QED
    BY <2>9
<1>4. ASSUME RoomBelow(over, s)
      PROVE  (frame.op = "loop" => Roomy(frame, over)) /\ RoomBelow(over \cup {frame}, rest)
  <2>1. frame.op = "loop" => Roomy(frame, over)
    <3>1. 1 \in 1..Len(s)
      BY <1>1
    <3> QED
      BY <1>1, <1>2, <1>4, <3>1 DEF RoomBelow
  <2>2. ASSUME NEW i \in 1..Len(rest), rest[i].op = "loop"
        PROVE  Roomy(rest[i], (over \cup {frame}) \cup Over(rest, i))
    <3>1. i + 1 \in 1..Len(s) /\ s[i + 1] = rest[i]
      BY <1>1
    <3>2. Roomy(s[i + 1], over \cup Over(s, i + 1))
      BY <1>4, <2>2, <3>1 DEF RoomBelow
    <3> QED
      BY <1>3, <3>1, <3>2
  <2> QED
    BY <2>1, <2>2 DEF RoomBelow
<1>5. ASSUME frame.op = "loop" => Roomy(frame, over), RoomBelow(over \cup {frame}, rest)
      PROVE  RoomBelow(over, s)
  <2> SUFFICES ASSUME NEW i \in 1..Len(s), s[i].op = "loop"
               PROVE  Roomy(s[i], over \cup Over(s, i))
    BY DEF RoomBelow
  <2>1. CASE i = 1
    BY <1>1, <1>2, <1>5, <2>1
  <2>2. CASE i # 1
    <3>1. i - 1 \in 1..Len(rest) /\ s[i] = rest[i - 1] /\ (i - 1) + 1 = i
      <4>1. i - 1 \in 1..Len(rest) /\ (i - 1) + 1 = i
        BY <1>1, <2>2
      <4> QED
        BY <1>1, <4>1
    <3>2. Roomy(rest[i - 1], (over \cup {frame}) \cup Over(rest, i - 1))
      BY <1>5, <3>1 DEF RoomBelow
    <3>3. over \cup Over(s, (i - 1) + 1) = (over \cup {frame}) \cup Over(rest, i - 1)
      BY <1>3, <3>1
    <3> QED
      BY <3>1, <3>2, <3>3
  <2> QED
    BY <2>1, <2>2
<1> QED
  BY <1>4, <1>5 DEF s

\* What loops below are, whatever is above them
LEMMA EveryLoop ==
  \A rest \in Seq(Frames) : \A over :
    RoomBelow(over, rest) <=>
      \A i \in 1..Len(rest) : rest[i].op = "loop" =>
        rest[i] \in LoopFrames /\ Roomy(rest[i], over \cup Over(rest, i))
<1> SUFFICES ASSUME NEW rest \in Seq(Frames), NEW i \in 1..Len(rest), rest[i].op = "loop"
             PROVE  rest[i] \in LoopFrames
  BY DEF RoomBelow
<1>1. rest[i] \in Frames
  OBVIOUS
<1> QED
  BY <1>1, FrameKinds

\* A queue holds no more keys than there are.
LEMMA QueueFits ==
  QueueType /\ BatchSuffices =>
    \A q \in Queues : \A j \in DOMAIN queue[q] : j \in Nat /\ 1 <= j /\ j <= Longest
<1> SUFFICES ASSUME QueueType, BatchSuffices, NEW q \in Queues, NEW j \in DOMAIN queue[q]
             PROVE  j \in Nat /\ 1 <= j /\ j <= Longest
  OBVIOUS
<1> DEFINE list == queue[q]
           S == 1..Len(list)
<1>1. list \in Seq(Keys[q]) /\ IsInjective(list)
  BY DEF QueueType
<1>2. /\ Len(list) \in Nat /\ DOMAIN list = S /\ list \in [S -> Keys[q]]
      /\ j \in S
  BY <1>1
<1>3. Keys[q] = Claims \/ Keys[q] = Names
  BY DEF Keys, Queues
<1>4. IsFiniteSet(Keys[q]) /\ Cardinality(Keys[q]) <= Longest /\ Longest \in Nat
      /\ Cardinality(Keys[q]) \in Nat
  BY <1>3, SizesAre DEF BatchSuffices
<1>5. list \in Injection(S, Keys[q])
  <2> HIDE DEF list, S
  <2> QED
    BY <1>1, <1>2 DEF Injection
<1>6. Cardinality(S) <= Cardinality(Keys[q])
  <2> HIDE DEF list, S
  <2> QED
    BY <1>4, <1>5, FS_Injection
<1>7. Cardinality(S) = Len(list)
  <2>1. CASE Len(list) = 0
    BY <1>2, <2>1
  <2>2. CASE Len(list) # 0
    <3> DEFINE n == Len(list)
    <3>1. n \in Int /\ 1 \in Int /\ ~(1 > n) /\ n - 1 + 1 = n
      BY <1>2, <2>2
    <3> HIDE DEF n
    <3>2. Cardinality(1..n) = n - 1 + 1
      BY <3>1, FS_Interval
    <3> QED
      BY <3>1, <3>2 DEF n
  <2> QED
    BY <2>1, <2>2
<1> QED
  BY <1>2, <1>4, <1>6, <1>7

LEMMA AmpleIsRoom ==
  QueueType /\ BatchSuffices =>
    \A loop \in LoopFrames : \A over : Ample(loop) => Roomy(loop, over)
<1> SUFFICES ASSUME QueueType, BatchSuffices, NEW loop \in LoopFrames, NEW over, Ample(loop)
             PROVE  Roomy(loop, over)
  OBVIOUS
<1>1. /\ Longest \in Nat /\ Round = 2 * Longest + 1 /\ Debt \in Nat
      /\ loop.left \in Nat /\ loop.queue \in Queues
  BY CountsHold DEF Counted, Counts, LoopFrames
<1>2. \A j \in DOMAIN queue[loop.queue] : j \in Nat /\ j <= Longest
  BY <1>1, QueueFits
<1> DEFINE q == loop.queue
           n == loop.left
<1>3. /\ n >= Debt + Longest /\ (Hidden(q) => n >= Debt + Round)
      /\ n \in Nat
      /\ \A j \in DOMAIN queue[q] : j \in Nat /\ j <= Longest
  BY <1>1, <1>2 DEF Ample
<1> HIDE DEF q, n
<1>4. /\ n >= Debt /\ (Hidden(q) => n >= Debt + Longest + 1)
      /\ \A j \in DOMAIN queue[q] : n >= Debt + j /\ (Hidden(q) => n >= Debt + Longest + 1 + j)
  BY <1>1, <1>3
<1> QED
  BY <1>3, <1>4 DEF Roomy, q, n

-------------------------------------------------------------------------------
(* Room after a step *)

LEMMA LongestStays == Longest' = Longest /\ Round' = Round /\ (BatchSuffices => BatchSuffices')
BY DEF Longest, Round, BatchSuffices

LEMMA RoomFree ==
  ASSUME BatchSuffices, QueueType', stack' \in Seq(Frames),
         \A f \in LoopFrames : f \in Range(stack') => Ample(f)'
  PROVE  Room'
<1>1. (QueueType /\ BatchSuffices =>
        \A loop \in LoopFrames : \A over : Ample(loop) => Roomy(loop, over))'
  BY AmpleIsRoom, PTL
<1>2. \A loop \in LoopFrames : \A over : Ample(loop)' => Roomy(loop, over)'
  BY <1>1, LongestStays
<1>3. ASSUME NEW i \in 1..Len(stack'), stack'[i].op = "loop", NEW over
      PROVE  \A f : f = stack'[i] => Roomy(f, over)'
  <2>1. stack'[i] \in Frames /\ stack'[i] \in Range(stack')
    BY DEF Range
  <2>2. stack'[i] \in LoopFrames
    BY <1>3, <2>1, FrameKinds
  <2> QED
    BY <1>2, <2>1, <2>2
<1> QED
  BY <1>3 DEF Room, RoomBelow

LEMMA PushRoomNext ==
  \A frame \in Frames : \A rest \in Seq(Frames) : \A over :
    RoomBelow(over, <<frame>> \o rest)' <=>
      (frame.op = "loop" => Roomy(frame, over)') /\ RoomBelow(over \cup {frame}, rest)'
<1>1. (\A frame \in Frames : \A rest \in Seq(Frames) : \A over :
        RoomBelow(over, <<frame>> \o rest) <=>
          (frame.op = "loop" => Roomy(frame, over)) /\ RoomBelow(over \cup {frame}, rest))'
  BY PushRoom, PTL
<1> QED
  BY <1>1

LEMMA RoomIs == \A frames : frames = stack' => (RoomBelow({}, frames)' <=> Room')
BY DEF Room, RoomBelow

\* A step that hides no keys
LEMMA HiddenLess ==
  ASSUME \A p \in {"claims", "volumes"} :
           OpenIn(p)' /\ ~Draining(p, stack') => OpenIn(p) /\ ~Draining(p, stack)
  PROVE  \A q : Hidden(q)' => Hidden(q)
BY DEF Hidden

\* A write leaves room to every loop that there was room for.
LEMMA RoomAfterWrite ==
  ASSUME BatchSuffices, Shrinks, QueueType', stack' \in Seq(Frames),
         \A f \in LoopFrames : f \in Range(stack') => f.left >= Debt
  PROVE  Room'
<1>1. Debt' + Round <= Debt
  BY DebtShrinks
<1>2. /\ Longest \in Nat /\ Round = 2 * Longest + 1 /\ Debt \in Nat /\ Debt' \in Nat
  BY CountsNext DEF Counts
<1>3. \A f \in LoopFrames : f \in Range(stack') => Ample(f)'
  <2> SUFFICES ASSUME NEW f \in LoopFrames, f \in Range(stack') PROVE Ample(f)'
    OBVIOUS
  <2>1. f.left >= Debt /\ f.left \in Nat
    BY DEF LoopFrames
  <2> DEFINE n == f.left
             d == Debt
             e == Debt'
             r == Round
             l == Longest
  <2>2. n \in Nat /\ d \in Nat /\ e \in Nat /\ l \in Nat /\ r = 2 * l + 1
        /\ e + r <= d /\ n >= d
    BY <1>1, <1>2, <2>1
  <2> HIDE DEF n, d, e, r, l
  <2>3. n >= e + l /\ n >= e + r
    BY <2>2
  <2>4. f.left >= Debt' + Longest /\ f.left >= Debt' + Round
    BY <2>3 DEF n, d, e, r, l
  <2> QED
    BY <2>4, LongestStays DEF Ample
<1> QED
  BY <1>3, RoomFree

-------------------------------------------------------------------------------
(* Room after a step that writes nothing *)

LEMMA SameOpen == UNCHANGED store => \A q, k : IsOpen(q, k)' <=> IsOpen(q, k)
BY SameObjects DEF IsOpen

LEMMA QueueFitsNext ==
  ASSUME QueueType', BatchSuffices
  PROVE  \A q \in Queues : \A j \in DOMAIN queue'[q] : j \in Nat /\ 1 <= j /\ j <= Longest
<1>1. (QueueType /\ BatchSuffices =>
        \A q \in Queues : \A j \in DOMAIN queue[q] : j \in Nat /\ 1 <= j /\ j <= Longest)'
  BY QueueFits, PTL
<1> QED
  BY <1>1, LongestStays

\* The frames between the two
LEMMA BetweenStays ==
  ASSUME UNCHANGED store, NEW head, Unopened(head), NEW f \in Frames
  PROVE  /\ Writer(f)' => Writer(f) \/ Writer(head)
         /\ \A q : Carrier(q, f)' => Carrier(q, f) \/ Carrier(q, head)
<1>1. f.op = "loop" => f.queue \in Queues
  BY FrameKinds DEF LoopFrames
<1> QED
  BY <1>1, SameOpen DEF Writer, Carrier, Unopened, Unwritten

LEMMA RoomyStays ==
  ASSUME BatchSuffices, QueueType, QueueType', UNCHANGED store,
         NEW head, NEW new, NEW between \in SUBSET Frames, NEW loop \in LoopFrames,
         Unopened(head), Lighter(loop.queue, head, new), Roomy(loop, {head} \cup between)
  PROVE  Roomy(loop, new \cup between)'
<1> DEFINE q == loop.queue
           n == loop.left
<1>1. q \in Queues /\ n \in Nat
  BY DEF LoopFrames
<1>2. /\ Longest \in Nat /\ Round = 2 * Longest + 1 /\ Debt \in Nat
      /\ Longest' = Longest /\ Round' = Round /\ Debt' = Debt
  BY CountsNext, LongestStays, DebtStays DEF Counts
<1>3. /\ q = "provisioning" \/ (\E f \in {head} \cup between : Writer(f)) => n >= Debt
      /\ (\E f \in {head} \cup between : Carrier(q, f)) =>
           n >= Debt + Longest /\ (Hidden(q) => n >= Debt + Round)
      /\ \A j \in DOMAIN queue[q] : IsOpen(q, queue[q][j]) =>
           n >= Debt + j /\ (Hidden(q) => n >= Debt + Longest + 1 + j)
      /\ Hidden(q) =>
           n >= Debt + Longest + 1
           \/ (n >= Debt + Longest /\ \E f \in {head} \cup between : Ender(q, f))
  BY DEF Roomy
<1>4. /\ Hidden(q)' => Hidden(q)
      /\ \A f \in between : Writer(f)' => Writer(f) \/ Writer(head)
      /\ \A f \in between : Carrier(q, f)' => Carrier(q, f) \/ Carrier(q, head)
  BY BetweenStays DEF Unopened
<1>5. Hidden(q) => n >= Debt
  BY <1>1, <1>2, <1>3
<1>6. q = "provisioning" \/ (\E f \in new \cup between : Writer(f)') => n >= Debt
  BY <1>3, <1>4, <1>5 DEF Lighter
<1>7. ASSUME NEW f \in new \cup between, Carrier(q, f)'
      PROVE  n >= Debt + Longest /\ (Hidden(q)' => n >= Debt + Round)
  <2>1. CASE Carrier(q, head) \/ (f \in between /\ Carrier(q, f))
    BY <1>3, <1>4, <2>1
  <2>2. CASE Hidden(q) /\ ~Hidden(q)'
    BY <1>1, <1>2, <1>3, <2>2
  <2> QED
    BY <1>4, <1>7, <2>1, <2>2 DEF Lighter
<1>8. ASSUME NEW j \in DOMAIN queue'[q], IsOpen(q, queue'[q][j])
      PROVE  n >= Debt + j /\ (Hidden(q)' => n >= Debt + Longest + 1 + j)
  <2>1. CASE j \in DOMAIN queue[q] /\ queue'[q][j] = queue[q][j]
    BY <1>3, <1>4, <1>8, <2>1
  <2>2. CASE Carrier(q, head)
    <3>1. n >= Debt + Longest /\ (Hidden(q)' => n >= Debt + Round)
      BY <1>3, <1>4, <2>2
    <3>2. j \in Nat /\ j <= Longest
      BY <1>1, <1>8, QueueFitsNext
    <3> QED
      BY <1>1, <1>2, <3>1, <3>2
  <2>3. CASE queue'[q] = queue[q]
    BY <1>8, <2>1, <2>3
  <2>4. ASSUME NEW k \in Keys[q], queue'[q] = Append(queue[q], k), IsOpen(q, k) => Carrier(q, head)
        PROVE  Carrier(q, head) \/ (j \in DOMAIN queue[q] /\ queue'[q][j] = queue[q][j])
    <3>1. queue[q] \in Seq(Keys[q])
      BY <1>1 DEF QueueType
    <3>2. j \in 1..(Len(queue[q]) + 1) /\ Len(queue[q]) \in Nat /\ DOMAIN queue[q] = 1..Len(queue[q])
          /\ queue'[q][Len(queue[q]) + 1] = k
          /\ \A i \in 1..Len(queue[q]) : queue'[q][i] = queue[q][i]
      BY <1>8, <2>4, <3>1, AppendIs
    <3>3. CASE j = Len(queue[q]) + 1
      BY <1>8, <2>4, <3>2, <3>3
    <3>4. CASE j # Len(queue[q]) + 1
      <4>1. j \in 1..Len(queue[q])
        BY <3>2, <3>4
      <4> QED
        BY <3>2, <4>1
    <3> QED
      BY <3>3, <3>4
  <2> QED
    BY <2>1, <2>2, <2>3, <2>4 DEF Lighter
<1>9. Hidden(q)' =>
        \/ n >= Debt + Longest + 1
        \/ n >= Debt + Longest /\ \E f \in new \cup between : Ender(q, f)
  BY <1>3, <1>4 DEF Lighter
<1>10. \A k : IsOpen(q, k)' <=> IsOpen(q, k)
  BY SameOpen
<1>11. \A f : Ender(q, f)' <=> Ender(q, f)
  BY DEF Ender
<1> QED
  BY <1>2, <1>6, <1>7, <1>8, <1>9, <1>10, <1>11 DEF Roomy

LEMMA RoomStays ==
  ASSUME BatchSuffices, QueueType, QueueType', UNCHANGED store,
         NEW head, NEW new, NEW rest \in Seq(Frames),
         RoomBelow({head}, rest), Unopened(head), Lightens(head, new, rest)
  PROVE  RoomBelow(new, rest)'
<1> SUFFICES ASSUME NEW i \in 1..Len(rest), rest[i].op = "loop"
             PROVE  Roomy(rest[i], new \cup Over(rest, i))'
  BY DEF RoomBelow
<1>1. Over(rest, i) \in SUBSET Frames
  BY DEF Over
<1>2. rest[i] \in LoopFrames
  BY FrameKinds
<1>3. Roomy(rest[i], {head} \cup Over(rest, i))
  BY DEF RoomBelow
<1>4. Lighter(rest[i].queue, head, new)
  <2>1. rest[i].queue \in Queues /\ IsLoop(rest[i], rest[i].queue)
    BY <1>2 DEF LoopFrames, IsLoop
  <2>2. Draining(rest[i].queue, rest)
    BY <2>1 DEF Draining, IsLoop
  <2> QED
    BY <2>1, <2>2 DEF Lightens
<1> QED
  BY <1>1, <1>2, <1>3, <1>4, RoomyStays

LEMMA RoomOfHead ==
  ASSUME TypeInv, ~Idle, Room
  PROVE  /\ Head(stack).op = "loop" => Roomy(Head(stack), {})
         /\ RoomBelow({Head(stack)}, Tail(stack))
         /\ QueueType
<1>1. Head(stack) \in Frames /\ Tail(stack) \in Seq(Frames)
      /\ stack = <<Head(stack)>> \o Tail(stack)
  BY HeadIs
<1>2. RoomBelow({}, <<Head(stack)>> \o Tail(stack))
  BY <1>1 DEF Room
<1>3. {} \cup {Head(stack)} = {Head(stack)}
  OBVIOUS
<1> QED
  BY <1>1, <1>2, <1>3, PushRoom DEF TypeInv

LEMMA FreshIsAmple ==
  BatchSuffices => \A q \in Queues : Ample(Loop(q, MaxBatch))' /\ Loop(q, MaxBatch) \in LoopFrames
<1> SUFFICES ASSUME BatchSuffices, NEW q \in Queues
             PROVE  Ample(Loop(q, MaxBatch))' /\ Loop(q, MaxBatch) \in LoopFrames
  OBVIOUS
<1>1. Loop(q, MaxBatch) \in LoopFrames /\ Loop(q, MaxBatch).left = MaxBatch
  BY BoundsAssumption DEF Loop, LoopFrames
<1> DEFINE d == Debt'
           r == Round
           l == Longest
<1>2. /\ d \in Nat /\ l \in Nat /\ r = 2 * l + 1 /\ MaxBatch \in Nat /\ MaxBatch >= d + r
  BY CountsNext, LongestStays DEF Counts
<1> HIDE DEF d, r, l
<1>3. MaxBatch >= d + l /\ MaxBatch >= d + r
  BY <1>2
<1> QED
  BY <1>1, <1>3, LongestStays DEF Ample, d, r, l

LEMMA FreshIsRoomy ==
  ASSUME BatchSuffices, QueueType', NEW q \in Queues
  PROVE  \A over : Roomy(Loop(q, MaxBatch), over)'
<1>1. (QueueType /\ BatchSuffices =>
        \A loop \in LoopFrames : \A over : Ample(loop) => Roomy(loop, over))'
  BY AmpleIsRoom, PTL
<1> QED
  BY <1>1, FreshIsAmple, LongestStays

\* The innermost frame is gone, or one or two have come in its place.
LEMMA RoomWithNone ==
  ASSUME BatchSuffices, TypeInv, QueueType', UNCHANGED store, ~Idle, Room,
         Unopened(Head(stack)), Lightens(Head(stack), {}, Tail(stack)), stack' = Tail(stack)
  PROVE  Room'
<1> SUFFICES ASSUME NEW rest, rest = Tail(stack) PROVE RoomBelow({}, rest)'
  BY RoomIs
<1>1. rest \in Seq(Frames)
  BY HeadIs
<1> QED
  BY <1>1, RoomOfHead, RoomStays

LEMMA RoomWithOne ==
  ASSUME BatchSuffices, TypeInv, QueueType', UNCHANGED store, ~Idle, Room, NEW a \in Frames,
         Unopened(Head(stack)), Lightens(Head(stack), {a}, Tail(stack)),
         stack' = <<a>> \o Tail(stack),
         \A f : f = a /\ f.op = "loop" => Roomy(f, {})'
  PROVE  Room'
<1> SUFFICES ASSUME NEW rest, NEW f, rest = Tail(stack), f = a
             PROVE  RoomBelow({}, <<f>> \o rest)'
  BY RoomIs
<1>1. rest \in Seq(Frames) /\ f \in Frames
  BY HeadIs
<1>2. RoomBelow({f}, rest)'
  BY <1>1, RoomOfHead, RoomStays
<1>3. {} \cup {f} = {f}
  OBVIOUS
<1> QED
  BY <1>1, <1>2, <1>3, PushRoomNext

LEMMA RoomWithTwo ==
  ASSUME BatchSuffices, TypeInv, QueueType', UNCHANGED store, ~Idle, Room,
         NEW a \in Frames, NEW b \in Frames,
         Unopened(Head(stack)), Lightens(Head(stack), {a, b}, Tail(stack)),
         stack' = <<b>> \o (<<a>> \o Tail(stack)),
         \A f : f = b /\ f.op = "loop" => Roomy(f, {})',
         \A f, g : f = a /\ g = b /\ f.op = "loop" => Roomy(f, {g})'
  PROVE  Room'
<1> SUFFICES ASSUME NEW rest, NEW f, NEW g, rest = Tail(stack), f = a, g = b
             PROVE  RoomBelow({}, <<g>> \o (<<f>> \o rest))'
  BY RoomIs
<1>1. rest \in Seq(Frames) /\ f \in Frames /\ g \in Frames
  BY HeadIs
<1>2. RoomBelow({f, g}, rest)'
  BY <1>1, RoomOfHead, RoomStays
<1>3. {} \cup {g} = {g} /\ {g} \cup {f} = {f, g}
  OBVIOUS
<1>4. RoomBelow({g}, <<f>> \o rest)'
  BY <1>1, <1>2, <1>3, PushRoomNext
<1>5. <<f>> \o rest \in Seq(Frames)
  BY <1>1, Push
<1>6. ASSUME NEW below \in Seq(Frames), RoomBelow({g}, below)'
      PROVE  RoomBelow({}, <<g>> \o below)'
  BY <1>1, <1>3, <1>6, PushRoomNext
<1> QED
  BY <1>4, <1>5, <1>6

-------------------------------------------------------------------------------
(* Room after each of the steps that write nothing *)

LEMMA OpenAfter ==
  ASSUME UNCHANGED store
  PROVE  /\ \A q, k : InQueue(q, k) /\ IsOpen(q, k) => OpenIn(q)
         /\ \A q : OpenIn(q)' => \E k : InQueue(q, k)' /\ IsOpen(q, k)
         /\ \A q : queue'[q] = queue[q] => (OpenIn(q)' <=> OpenIn(q))
<1>1. \A q, k : IsOpen(q, k)' <=> IsOpen(q, k)
  BY SameOpen
<1> QED
  BY <1>1 DEF OpenIn, InQueue

LEMMA Enqueueing ==
  ASSUME QueueType, NEW q \in Queues, NEW key \in Keys[q], NEW rest \in Seq(Frames),
         Enqueue(q, key, rest)
  PROVE  Enqueued(q, key, rest)
BY EnqueueIs DEF Enqueued

LEMMA AddingAll ==
  ASSUME NEW q \in {"provisioning", "claims"}, NEW keys \in SUBSET Claims,
         NEW rest \in Seq(Frames)
  PROVE  /\ Adding(AddAllFrame(q, keys), keys, rest, AddAll(q, keys) \o rest)
         /\ AddAllFrame(q, keys).queue = q
BY AddAllIs DEF Adding

\* matching and provision
LEMMA ReturnsRoom ==
  ASSUME BatchSuffices, TypeInv, UNCHANGED <<store, queue>>, ~Idle, Room,
         Head(stack).op \in {"matching", "provision"},
         NEW keys \in SUBSET Claims, Head(stack).op = "provision" => keys = {},
         stack' = AddAll("claims", keys) \o Tail(stack)
  PROVE  Room'
<1> DEFINE head == Head(stack)
           rest == Tail(stack)
           frame == AddAllFrame("claims", keys)
<1>0. UNCHANGED store
  BY DEF store
<1>1. head \in Frames /\ rest \in Seq(Frames) /\ Range(stack) = {head} \cup Range(rest)
  BY HeadIs
<1>2. /\ frame \in Frames /\ frame.op = "addAll" /\ frame.queue = "claims"
      /\ keys = {} => stack' = rest
      /\ keys # {} => stack' = <<frame>> \o rest
      /\ Range(rest) \subseteq Range(stack')
  <2>1. Adding(frame, keys, rest, stack') /\ frame.queue = "claims"
    BY <1>1, AddingAll
  <2> HIDE DEF frame, rest
  <2> QED
    BY <2>1 DEF Adding
<1>3. QueueType'
  BY DEF TypeInv, QueueType
<1>4. \A q \in Queues : OpenIn(q)' <=> OpenIn(q)
  BY <1>0, OpenAfter
<1>5. \A q : Draining(q, stack) => Draining(q, stack')
  <2>1. \A q : ~IsLoop(head, q)
    BY DEF IsLoop
  <2> QED
    BY <1>1, <1>2, <2>1, DrainingIs
<1>6. Unopened(head)
  <2>1. \A q : Hidden(q)' => Hidden(q)
    BY <1>4, <1>5, HiddenLess DEF Queues
  <2> QED
    BY <1>4, <2>1 DEF Unopened, Queues
<1>7. \A q : ~Ender(q, head)
  BY DEF Ender
<1>8. CASE keys = {}
  <2>1. Lightens(head, {}, rest)
    BY <1>7 DEF Lightens, Lighter
  <2> QED
    BY <1>0, <1>2, <1>3, <1>6, <1>8, <2>1, RoomWithNone
<1>9. CASE keys # {}
  <2>1. head.op = "matching"
    BY <1>9
  <2>2. Writer(head) /\ Carrier("claims", head)
    BY <2>1 DEF Writer, Carrier
  <2>3. \A q, f : f = frame /\ Carrier(q, f)' => q = "claims"
    BY <1>2 DEF Carrier
  <2>4. Lightens(head, {frame}, rest)
    BY <1>7, <2>2, <2>3 DEF Lightens, Lighter
  <2>5. frame.op # "loop"
    BY <1>2
  <2> QED
    BY <1>0, <1>2, <1>3, <1>6, <1>9, <2>4, <2>5, RoomWithOne
<1> QED
  BY <1>8, <1>9

\* A loop ends when no key is open in its queue.
LEMMA LoopEndsRoom ==
  ASSUME BatchSuffices, TypeInv, BInv, UNCHANGED <<store, queue>>, ~Idle, Room,
         Head(stack).op = "loop", ~OpenIn(Head(stack).queue), stack' = Tail(stack)
  PROVE  Room'
<1> DEFINE head == Head(stack)
           rest == Tail(stack)
<1>0. UNCHANGED store
  BY DEF store
<1>1. head \in Frames /\ rest \in Seq(Frames) /\ Range(stack) = {head} \cup Range(rest)
  BY HeadIs
<1>3. QueueType'
  BY DEF TypeInv, QueueType
<1>4. \A q \in Queues : OpenIn(q)' <=> OpenIn(q)
  BY <1>0, OpenAfter
<1>5. \A q : Draining(q, stack) => Draining(q, stack') \/ q = head.queue
  BY <1>1, DrainingIs DEF IsLoop
<1>6. Unopened(head)
  <2>1. \A p \in {"claims", "volumes"} :
          OpenIn(p)' /\ ~Draining(p, stack') => OpenIn(p) /\ ~Draining(p, stack)
    BY <1>4, <1>5 DEF Queues
  <2>2. \A q : Hidden(q)' => Hidden(q)
    BY <2>1, HiddenLess
  <2> QED
    BY <1>4, <2>2 DEF Unopened, Queues
<1>7. \A q : ~Ender(q, head)
  BY DEF Ender
<1>8. Lightens(head, {}, rest)
  BY <1>7 DEF Lightens, Lighter
<1> QED
  BY <1>0, <1>3, <1>6, <1>8, RoomWithNone

\* A written binding puts its volume, which is settled, in the queue.
LEMMA BindEndsRoom ==
  ASSUME BatchSuffices, TypeInv, BInv, ~Idle, Room, Head(stack).op = "bind",
         Head(stack).written, NEW v \in Names, Settled(v), QueueType',
         Enqueue("volumes", v, Tail(stack))
  PROVE  Room'
<1> DEFINE head == Head(stack)
           rest == Tail(stack)
           loop == Loop("volumes", MaxBatch)
<1>1. head \in Frames /\ rest \in Seq(Frames) /\ Range(stack) = {head} \cup Range(rest)
  BY HeadIs
<1>2. /\ UNCHANGED store
      /\ \A p \in Queues \ {"volumes"} : queue'[p] = queue[p]
      /\ \A k : InQueue("volumes", k)' => InQueue("volumes", k) \/ k = v
      /\ queue'["volumes"] = queue["volumes"] \/ queue'["volumes"] = Append(queue["volumes"], v)
      /\ Draining("volumes", stack')
      /\ \/ Draining("volumes", rest) /\ stack' = rest
         \/ ~Draining("volumes", rest) /\ stack' = <<loop>> \o rest
      /\ loop \in Frames /\ Range(rest) \subseteq Range(stack')
  <2>1. Enqueued("volumes", v, rest)
    BY <1>1, KeysOf, Enqueueing DEF TypeInv
  <2> HIDE DEF rest, loop
  <2>2. /\ \A p \in Queues \ {"volumes"} : queue'[p] = queue[p]
        /\ queue'["volumes"] = queue["volumes"] \/ queue'["volumes"] = Append(queue["volumes"], v)
        /\ UNCHANGED store
    BY <2>1 DEF Enqueued
  <2>3. \A k : InQueue("volumes", k)' => InQueue("volumes", k) \/ k = v
    BY <2>1, KeysOf DEF Enqueued
  <2>4. /\ Draining("volumes", stack') /\ Range(rest) \subseteq Range(stack')
        /\ \/ Draining("volumes", rest) /\ stack' = rest
           \/ ~Draining("volumes", rest) /\ stack' = <<loop>> \o rest
        /\ loop \in Frames
    BY <2>1 DEF Enqueued, loop
  <2> QED
    BY <2>2, <2>3, <2>4
<1>3. ~IsOpen("volumes", v) /\ v \in Keys["volumes"]
  BY KeysOf DEF IsOpen
<1>4. \A q \in Queues : OpenIn(q)' => OpenIn(q)
  <2> TAKE q \in Queues
  <2>1. CASE q = "volumes"
    BY <1>2, <1>3, <2>1, OpenAfter
  <2>2. CASE q # "volumes"
    BY <1>2, <2>2, OpenAfter
  <2> QED
    BY <2>1, <2>2
<1>d. \A q : Draining(q, stack) <=> Draining(q, rest)
  <2>1. \A q : ~IsLoop(head, q)
    BY DEF IsLoop
  <2> QED
    BY <1>1, <2>1, DrainingIs
<1>5. \A q : Draining(q, stack) => Draining(q, stack')
  BY <1>2, <1>d, DrainingIs
<1>6. Unopened(head)
  <2>1. \A q : Hidden(q)' => Hidden(q)
    BY <1>4, <1>5, HiddenLess DEF Queues
  <2> QED
    BY <1>4, <2>1 DEF Unopened, Queues
<1>7. \A q : ~(Ender(q, head) /\ Hidden(q)')
  <2>1. \A q : Ender(q, head) => q = "claims"
    BY DEF Ender
  <2>2. ~Hidden("claims")'
    BY <1>2 DEF Hidden
  <2> QED
    BY <2>1, <2>2
<1>8. \A q \in Queues :
        \/ queue'[q] = queue[q]
        \/ \E k \in Keys[q] : queue'[q] = Append(queue[q], k) /\ ~IsOpen(q, k)
  BY <1>2, <1>3
<1>9. CASE Draining("volumes", rest)
  <2>1. Lightens(head, {}, rest)
    BY <1>7, <1>8 DEF Lightens, Lighter
  <2> QED
    BY <1>2, <1>6, <1>9, <2>1, RoomWithNone
<1>10. CASE ~Draining("volumes", rest)
  <2>1. stack' = <<loop>> \o rest
    BY <1>2, <1>10
  <2>2. OpenIn("volumes") => Hidden("claims")
    BY <1>10, <1>d DEF Hidden
  <2>3. ~Hidden("claims")'
    BY <1>2 DEF Hidden
  <2>4. \A f : f = loop /\ Writer(f)' => OpenIn("volumes")
    BY <1>4 DEF Writer, Loop, Unwritten, Queues
  <2>5. \A f, q : f = loop /\ Carrier(q, f)' => q = "claims" /\ OpenIn("volumes")
    BY <1>4 DEF Carrier, Loop, Queues
  <2>6. ASSUME NEW q \in Queues, Draining(q, rest) PROVE Lighter(q, head, {loop})
    <3>1. q = "provisioning" \/ q = "claims"
      BY <1>10, <2>6 DEF Queues
    <3> QED
      BY <1>7, <1>8, <2>2, <2>3, <2>4, <2>5, <3>1 DEF Lighter
  <2>7. Lightens(head, {loop}, rest)
    BY <2>6 DEF Lightens
  <2>8. \A f : f = loop /\ f.op = "loop" => Roomy(f, {})'
    BY FreshIsRoomy, KeysOf
  <2> QED
    BY <1>2, <1>6, <2>1, <2>7, <2>8, RoomWithOne
<1> QED
  BY <1>9, <1>10

LEMMA AddsRoom ==
  ASSUME BatchSuffices, TypeInv, QueueType', ~Idle, Room, Head(stack).op = "addAll",
         NEW a \in {"provisioning", "claims"}, a = Head(stack).queue,
         NEW key \in Claims, key \in Head(stack).keys,
         NEW keys \in SUBSET Claims, keys \subseteq Head(stack).keys,
         NEW base, base = AddAll(a, keys) \o Tail(stack), Enqueue(a, key, base)
  PROVE  Room'
<1> DEFINE head == Head(stack)
           rest == Tail(stack)
           loop == Loop(a, MaxBatch)
           frame == AddAllFrame(a, keys)
<1>1. head \in Frames /\ rest \in Seq(Frames) /\ Range(stack) = {head} \cup Range(rest)
  BY HeadIs
<1>b. /\ base \in Seq(Frames) /\ frame \in Frames /\ frame.op = "addAll"
      /\ frame.queue = a /\ frame.keys = keys
      /\ keys = {} => base = rest
      /\ keys # {} => base = <<frame>> \o rest
      /\ Range(rest) \subseteq Range(base)
      /\ \A f \in Range(base) : f = frame \/ f \in Range(rest)
  <2>1. Adding(frame, keys, rest, base) /\ frame.queue = a
    BY <1>1, AddingAll
  <2> HIDE DEF frame, rest
  <2> QED
    BY <2>1 DEF Adding
<1>q. a \in Queues /\ key \in Keys[a] /\ QueueType /\ a # "volumes"
  BY KeysOf DEF TypeInv, Queues
<1>2. /\ UNCHANGED store
      /\ \A p \in Queues \ {a} : queue'[p] = queue[p]
      /\ queue'[a] = queue[a] \/ queue'[a] = Append(queue[a], key)
      /\ Draining(a, stack')
      /\ \/ Draining(a, base) /\ stack' = base
         \/ ~Draining(a, base) /\ stack' = <<loop>> \o base
      /\ loop \in Frames /\ Range(base) \subseteq Range(stack')
  <2>1. Enqueued(a, key, base)
    BY <1>b, <1>q, Enqueueing
  <2> QED
    BY <2>1 DEF Enqueued
<1>3. \A p \in Queues : \A k : InQueue(p, k)' => InQueue(p, k) \/ (p = a /\ k = key)
  <2>1. Enqueued(a, key, base)
    BY <1>b, <1>q, Enqueueing
  <2> QED
    BY <2>1 DEF Enqueued
<1>4. IsOpen(a, key) => Writer(head) /\ Carrier(a, head)
  BY DEF Writer, Carrier
<1>5. \A q \in Queues : OpenIn(q)' => OpenIn(q) \/ (q = a /\ Writer(head))
  <2> TAKE q \in Queues
  <2>1. CASE q = a
    BY <1>2, <1>3, <1>4, <1>q, <2>1, OpenAfter
  <2>2. CASE q # a
    BY <1>2, <2>2, OpenAfter
  <2> QED
    BY <2>1, <2>2
<1>d. \A q : /\ Draining(q, stack) <=> Draining(q, rest)
             /\ Draining(q, base) <=> Draining(q, rest)
  <2>1. \A q : ~IsLoop(head, q)
    BY DEF IsLoop
  <2>2. \A q : ~IsLoop(frame, q)
    BY <1>b DEF IsLoop
  <2> HIDE DEF head, rest, frame
  <2> QED
    BY <1>1, <1>b, <2>1, <2>2, DrainingIs
<1>6. \A q : Draining(q, stack) => Draining(q, stack')
  <2> HIDE DEF rest
  <2> QED
    BY <1>2, <1>d, DrainingIs
<1>7. Unopened(head)
  <2>1. \A p \in {"claims", "volumes"} :
          OpenIn(p)' /\ ~Draining(p, stack') => OpenIn(p) /\ ~Draining(p, stack)
    BY <1>2, <1>5, <1>6 DEF Queues
  <2>2. \A q : Hidden(q)' => Hidden(q)
    BY <2>1, HiddenLess
  <2> QED
    BY <1>5, <1>q, <2>2 DEF Unopened, Queues
<1>8. \A q : ~(Ender(q, head) /\ Hidden(q)')
  <2>1. \A q : Ender(q, head) => q = "volumes" /\ a = "claims"
    BY DEF Ender
  <2>2. a = "claims" => ~Hidden("volumes")'
    BY <1>2 DEF Hidden
  <2> QED
    BY <2>1, <2>2
<1>9. \A q \in Queues :
        \/ queue'[q] = queue[q]
        \/ \E k \in Keys[q] :
             queue'[q] = Append(queue[q], k) /\ (IsOpen(q, k) => Carrier(q, head))
  BY <1>2, <1>4, <1>q
<1>f. \A f : f = frame => (Writer(f)' => Writer(head)) /\ \A q : Carrier(q, f)' => Carrier(q, head)
  BY <1>2, <1>b, SameOpen DEF Writer, Carrier, Unwritten
<1>l. \A f : f = loop =>
        /\ Writer(f)' => Writer(head) \/ OpenIn(a)
        /\ \A q : ~Carrier(q, f)'
  <2>1. a = "provisioning" => Writer(head)
    BY DEF Writer, IsOpen
  <2> QED
    BY <1>5, <1>q, <2>1 DEF Writer, Carrier, Loop, Unwritten
<1>h. ~Draining(a, rest) /\ OpenIn(a) =>
        \A q \in Queues : Draining(q, rest) => q = "provisioning" \/ Hidden(q) \/ Writer(head)
  <2>1. a = "provisioning" => Writer(head)
    BY DEF Writer, IsOpen
  <2> QED
    BY <1>d, <2>1 DEF Hidden, Queues
<1> DEFINE Light(new) == \A f \in new : f = frame \/ (f = loop /\ ~Draining(a, rest))
<1>s. ASSUME NEW new, Light(new) PROVE Lightens(head, new, rest)
  <2> SUFFICES ASSUME NEW q \in Queues, Draining(q, rest) PROVE Lighter(q, head, new)
    BY DEF Lightens
  <2>1. \A f \in new : Writer(f)' => q = "provisioning" \/ Writer(head) \/ Hidden(q)
    BY <1>f, <1>l, <1>h, <1>s
  <2>2. \A f \in new : Carrier(q, f)' => Carrier(q, head)
    BY <1>f, <1>l, <1>s
  <2> QED
    BY <1>8, <1>9, <2>1, <2>2 DEF Lighter
<1>r. \A f, g : f = loop => Roomy(f, {})' /\ Roomy(f, {g})'
  BY <1>q, FreshIsRoomy
<1>a. frame.op # "loop"
  BY <1>b
<1>10. CASE keys = {} /\ Draining(a, rest)
  <2>1. Light({}) /\ stack' = rest
    BY <1>2, <1>b, <1>d, <1>10
  <2> QED
    BY <1>2, <1>7, <1>s, <2>1, RoomWithNone
<1>11. CASE keys # {} /\ Draining(a, rest)
  <2>1. Light({frame}) /\ stack' = <<frame>> \o rest
    BY <1>2, <1>b, <1>d, <1>11
  <2>2. Lightens(head, {frame}, rest)
    BY <1>s, <2>1
  <2>3. \A f : f = frame /\ f.op = "loop" => Roomy(f, {})'
    BY <1>a
  <2>4. frame \in Frames /\ UNCHANGED store
    BY <1>2, <1>b
  <2> HIDE DEF frame
  <2> QED
    BY <1>7, <2>1, <2>2, <2>3, <2>4, RoomWithOne
<1>12. CASE keys = {} /\ ~Draining(a, rest)
  <2>1. Light({loop}) /\ stack' = <<loop>> \o rest
    BY <1>2, <1>b, <1>d, <1>12
  <2>2. Lightens(head, {loop}, rest)
    BY <1>s, <2>1
  <2>3. \A f : f = loop /\ f.op = "loop" => Roomy(f, {})'
    BY <1>r
  <2>4. loop \in Frames /\ UNCHANGED store
    BY <1>2, <1>b
  <2> HIDE DEF loop
  <2> QED
    BY <1>7, <2>1, <2>2, <2>3, <2>4, RoomWithOne
<1>13. CASE keys # {} /\ ~Draining(a, rest)
  <2>1. Light({frame, loop}) /\ stack' = <<loop>> \o (<<frame>> \o rest)
    BY <1>2, <1>b, <1>d, <1>13
  <2>2. Lightens(head, {frame, loop}, rest)
    BY <1>s, <2>1
  <2>3. \A f : f = loop /\ f.op = "loop" => Roomy(f, {})'
    BY <1>r
  <2>4. loop \in Frames /\ UNCHANGED store /\ frame \in Frames
    BY <1>2, <1>b
  <2>5. \A f, g : f = frame /\ g = loop /\ f.op = "loop" => Roomy(f, {g})'
    BY <1>a
  <2> HIDE DEF loop, frame
  <2> QED
    BY <1>7, <2>1, <2>2, <2>3, <2>4, <2>5, RoomWithTwo
<1> QED
  BY <1>10, <1>11, <1>12, <1>13

\* A turn of a loop is paid for by the key that it takes, if that was open, or
\* is of no consequence.
LEMMA TurnRoomy ==
  ASSUME BatchSuffices, TypeInv, UNCHANGED store, NEW q \in Queues, Popped(q),
         NEW n \in Nat, n # 0, Roomy(Loop(q, n), {}), Hidden(q)' => Hidden(q), NEW over,
         \A f \in over : ~Carrier(q, f)' /\ (Writer(f)' => IsOpen(q, Head(queue[q]))),
         IsOpen(q, Head(queue[q])) \/ \E f \in over : Ender(q, f)
  PROVE  Roomy(Loop(q, n - 1), over)'
<1> DEFINE key == Head(queue[q])
           m == n - 1
           d == Debt
           l == Longest
           list == queue[q]
<1>1. /\ l \in Nat /\ Round = 2 * l + 1 /\ d \in Nat
      /\ Longest' = l /\ Round' = Round /\ Debt' = d
  BY CountsNext, LongestStays, DebtStays DEF Counts
<1>2. /\ Loop(q, n).queue = q /\ Loop(q, n).left = n
      /\ Loop(q, n - 1).queue = q /\ Loop(q, n - 1).left = n - 1
  BY DEF Loop
<1>3. /\ q = "provisioning" => n >= d
      /\ \A j \in DOMAIN list : IsOpen(q, list[j]) =>
           n >= d + j /\ (Hidden(q) => n >= d + l + 1 + j)
      /\ Hidden(q) => n >= d + l + 1
  BY <1>1, <1>2 DEF Roomy
<1>4. /\ list \in Seq(Keys[q]) /\ list # << >> /\ queue'[q] = Tail(list)
  BY TakeIs DEF TypeInv, QueueType, Popped
<1>5. /\ 1 \in DOMAIN list /\ list[1] = key
      /\ \A j \in DOMAIN Tail(list) : j \in Nat /\ j + 1 \in DOMAIN list /\ Tail(list)[j] = list[j + 1]
  <2>1. 1 \in DOMAIN list /\ list[1] = Head(list)
    BY <1>4
  <2> QED
    BY <1>4, <2>1, TailIs
<1> HIDE DEF d, l, list
<1>6. IsOpen(q, key) => n >= d + 1 /\ (Hidden(q) => n >= d + l + 1 + 1)
  BY <1>3, <1>5
<1>7. IsOpen(q, key) => m >= d /\ (Hidden(q) => m >= d + l + 1)
  BY <1>1, <1>6
<1>8. \A j \in DOMAIN Tail(list) : IsOpen(q, Tail(list)[j]) =>
        m >= d + j /\ (Hidden(q) => m >= d + l + 1 + j)
  <2> SUFFICES ASSUME NEW j \in DOMAIN Tail(list), IsOpen(q, Tail(list)[j])
               PROVE  m >= d + j /\ (Hidden(q) => m >= d + l + 1 + j)
    OBVIOUS
  <2>1. j \in Nat /\ n >= d + (j + 1) /\ (Hidden(q) => n >= d + l + 1 + (j + 1))
    BY <1>3, <1>5
  <2> QED
    BY <1>1, <2>1
<1>9. Hidden(q) => m >= d + l
  BY <1>1, <1>3
<1>10. q = "provisioning" => m >= d
  BY <1>7 DEF IsOpen
<1>11. (\E f \in over : Writer(f)') => m >= d
  BY <1>7
<1>12. Hidden(q)' => m >= d + l + 1 \/ (m >= d + l /\ \E f \in over : Ender(q, f))
  BY <1>7, <1>9
<1>13. \A k : IsOpen(q, k)' <=> IsOpen(q, k)
  BY SameOpen
<1>14. \A f : Ender(q, f)' <=> Ender(q, f)
  BY DEF Ender
<1> DEFINE loop == Loop(q, n - 1)
<1>15. loop.queue = q /\ loop.left = m
  BY <1>2
<1>16. \A j \in DOMAIN queue'[q] : IsOpen(q, queue'[q][j]) =>
         m >= d + j /\ (Hidden(q)' => m >= d + l + 1 + j)
  BY <1>4, <1>8
<1>17. loop' = loop
  BY DEF Loop
<1> HIDE DEF m, loop, key
<1>18. \A f : f = loop => Roomy(f, over)'
  BY <1>1, <1>10, <1>11, <1>12, <1>13, <1>14, <1>15, <1>16 DEF Roomy, l, d
<1> QED
  BY <1>17, <1>18 DEF loop

LEMMA QuietTurnRoom ==
  ASSUME BatchSuffices, TypeInv, BInv, QueueType', UNCHANGED store, ~Idle, Room,
         NEW q \in Queues, NEW n \in Nat, n # 0, Head(stack) = Loop(q, n), Popped(q),
         NEW new, Leaves(q, Head(queue[q]), new),
         LET base == <<Loop(q, n - 1)>> \o Tail(stack)
         IN  \/ stack' = base /\ IsOpen(q, Head(queue[q]))
             \/ /\ stack' = <<new>> \o base /\ new \in Frames
                /\ IsOpen(q, Head(queue[q])) \/ Ender(q, new)
  PROVE  Room'
<1> DEFINE head == Head(stack)
           rest == Tail(stack)
           key == Head(queue[q])
           loop == Loop(q, n - 1)
<1>1. /\ head \in Frames /\ rest \in Seq(Frames) /\ Range(stack) = {head} \cup Range(rest)
      /\ Above(head, Range(rest))
      /\ head.op = "loop" /\ head.queue = q
  BY HeadIs DEF BInv, Loop
<1>2. /\ loop \in Frames /\ loop.op = "loop" /\ loop.queue = q
      /\ n - 1 \in Nat
  <2>1. n - 1 \in Nat
    OBVIOUS
  <2> QED
    BY <2>1, LoopTypes DEF Loop
<1>3. InQueue(q, key) /\ \A p \in Queues : \A k : InQueue(p, k)' => InQueue(p, k)
  BY PoppedIs
<1>4. \A p \in Queues : OpenIn(p)' => OpenIn(p)
  BY <1>3, OpenAfter
<1>5. IsOpen(q, key) => OpenIn(q)
  BY <1>3, OpenAfter
<1>6. /\ Range(rest) \subseteq Range(stack') /\ loop \in Range(stack')
  <2> DEFINE base == <<loop>> \o rest
  <2>1. base \in Seq(Frames) /\ Range(base) = {loop} \cup Range(rest)
    BY <1>1, <1>2, PushIs
  <2> HIDE DEF base, loop, rest
  <2>2. CASE stack' = base
    BY <2>1, <2>2
  <2>3. CASE stack' = <<new>> \o base /\ new \in Frames
    BY <2>1, <2>3, PushIs
  <2> QED
    BY <2>2, <2>3 DEF base, loop, rest
<1>7. \A p : Draining(p, stack) => Draining(p, stack')
  <2>1. Draining(q, stack')
    BY <1>2, <1>6, DrainingIs DEF IsLoop
  <2>2. \A p : IsLoop(head, p) => p = q
    BY <1>1 DEF IsLoop
  <2> QED
    BY <1>1, <1>6, <2>1, <2>2, DrainingIs
<1>8. Unopened(head)
  <2>1. \A p : Hidden(p)' => Hidden(p)
    BY <1>4, <1>7, HiddenLess DEF Queues
  <2> QED
    BY <1>4, <2>1 DEF Unopened, Queues
<1>9. ~Draining(q, rest)
  BY <1>1, DrainingIs DEF Above, IsLoop
<1>10. \A p \in Queues : Draining(p, rest) => queue'[p] = queue[p]
  BY <1>9, TakeIs DEF Popped, TypeInv
<1>11. \A p : ~Ender(p, head)
  BY <1>1 DEF Ender
<1>h. OpenIn(q) => Writer(head) /\ (q = "volumes" => Carrier("claims", head))
  BY <1>1 DEF Writer, Carrier
<1>12. \A f : f = loop => (Writer(f)' => Writer(head)) /\ \A p : Carrier(p, f)' => Carrier(p, head)
  <2> SUFFICES ASSUME NEW f, f = loop
               PROVE  (Writer(f)' => Writer(head)) /\ \A p : Carrier(p, f)' => Carrier(p, head)
    OBVIOUS
  <2>1. f.op = "loop" /\ f.queue = q
    BY <1>2
  <2>2. q = "provisioning" => Writer(head)
    BY <1>1 DEF Writer
  <2> QED
    BY <1>4, <1>h, <2>1, <2>2 DEF Writer, Carrier, Unwritten
<1>13. \A f : f = new => (Writer(f)' => Writer(head)) /\ \A p : Carrier(p, f)' => Carrier(p, head)
  <2> SUFFICES ASSUME NEW f, f = new
               PROVE  (Writer(f)' => Writer(head)) /\ \A p : Carrier(p, f)' => Carrier(p, head)
    OBVIOUS
  <2>1. CASE f.op = "provision"
    BY <1>1, <2>1 DEF Writer, Carrier, Leaves
  <2>2. CASE f.op = "bind"
    BY <2>2 DEF Writer, Carrier, Leaves, Unwritten
  <2>3. CASE f.op = "addAll"
    BY <1>5, <1>h, <2>3, SameOpen DEF Writer, Carrier, Leaves, Unwritten
  <2> QED
    BY <2>1, <2>2, <2>3 DEF Leaves
<1>14. ASSUME NEW set, \A f \in set : f = new \/ f = loop PROVE Lightens(head, set, rest)
  <2> SUFFICES ASSUME NEW p \in Queues, Draining(p, rest) PROVE Lighter(p, head, set)
    BY DEF Lightens
  <2>1. \A f \in set : Writer(f)' => Writer(head)
    BY <1>12, <1>13, <1>14
  <2>2. \A f \in set : Carrier(p, f)' => Carrier(p, head)
    BY <1>12, <1>13, <1>14
  <2> QED
    BY <1>10, <1>11, <2>1, <2>2 DEF Lighter
<1>15. Roomy(Loop(q, n), {}) /\ (Hidden(q)' => Hidden(q))
  <2>1. Roomy(Head(stack), {})
    BY <1>1, RoomOfHead
  <2> QED
    BY <2>1, <1>8 DEF Unopened
<1>16. CASE stack' = <<loop>> \o rest /\ IsOpen(q, key)
  <2>1. \A f : f = loop => Roomy(f, {})'
    BY <1>15, <1>16, TurnRoomy
  <2>2. Lightens(head, {loop}, rest)
    BY <1>14
  <2> HIDE DEF loop
  <2> QED
    BY <1>2, <1>8, <1>16, <2>1, <2>2, RoomWithOne
<1>17. CASE stack' = <<new>> \o (<<loop>> \o rest) /\ new \in Frames
            /\ (IsOpen(q, key) \/ Ender(q, new))
  <2>1. new.op # "loop"
    BY DEF Leaves
  <2>2. \A g : g = new => ~Carrier(q, g)' /\ (Writer(g)' => IsOpen(q, key))
    <3> SUFFICES ASSUME NEW g, g = new PROVE ~Carrier(q, g)' /\ (Writer(g)' => IsOpen(q, key))
      OBVIOUS
    <3>1. CASE g.op = "provision"
      BY <3>1 DEF Writer, Carrier, Leaves, IsOpen
    <3>2. CASE g.op = "bind"
      BY <3>2 DEF Writer, Carrier, Leaves, Unwritten
    <3>3. CASE g.op = "addAll"
      BY <3>3, SameOpen DEF Writer, Carrier, Leaves, Unwritten
    <3> QED
      BY <3>1, <3>2, <3>3 DEF Leaves
  <2>3. ASSUME NEW f, NEW g, f = loop, g = new PROVE Roomy(f, {g})'
    <3>1. \A h \in {g} : ~Carrier(q, h)' /\ (Writer(h)' => IsOpen(q, key))
      BY <2>2, <2>3
    <3>2. IsOpen(q, key) \/ \E h \in {g} : Ender(q, h)
      BY <1>17, <2>3
    <3>3. Roomy(Loop(q, n - 1), {g})'
      BY <1>15, <3>1, <3>2, TurnRoomy
    <3> QED
      BY <2>3, <3>3
  <2>4. Lightens(head, {loop, new}, rest)
    BY <1>14
  <2> HIDE DEF loop
  <2> QED
    BY <1>2, <1>8, <1>17, <2>1, <2>3, <2>4, RoomWithTwo
<1> QED
  BY <1>16, <1>17

-------------------------------------------------------------------------------
(* Room after each of the writes *)

\* The event of a write, above the caller's frame or none
Caller(g) == g.op \in {"bind", "provision"}
Says(e, base) == stack' = <<Delivery(e)>> \o base
Announces(base) ==
  \/ \E e : Says(e, base)
  \/ \E e, g : Caller(g) /\ Says(e, <<g>> \o base)

LEMMA WroteAnnounces ==
  ASSUME NEW base, NEW op, NEW x, NEW new, NEW ref
  PROVE  /\ WroteClaim(op, x, new, ref, base) => \E e : Says(e, base)
         /\ WroteVolume(op, x, new, ref, base) => \E e : Says(e, base)
<1>1. WroteClaim(op, x, new, ref, base) => Says(Event("Claim", op, x, ref), base)
  BY DEF WroteClaim, Says
<1>2. WroteVolume(op, x, new, ref, base) => Says(Event("Volume", op, x, ref), base)
  BY DEF WroteVolume, Says
<1> QED
  BY <1>1, <1>2

LEMMA WroteAnnouncesOver ==
  ASSUME NEW base, NEW op, NEW x, NEW new, NEW ref, NEW g, Caller(g)
  PROVE  /\ WroteClaim(op, x, new, ref, <<g>> \o base) => Announces(base)
         /\ WroteVolume(op, x, new, ref, <<g>> \o base) => Announces(base)
<1> DEFINE more == <<g>> \o base
<1>1. (\E e : Says(e, more)) => Announces(base)
  BY DEF Announces
<1> HIDE DEF more
<1>2. /\ WroteClaim(op, x, new, ref, more) => \E e : Says(e, more)
      /\ WroteVolume(op, x, new, ref, more) => \E e : Says(e, more)
  BY WroteAnnounces
<1> QED
  BY <1>1, <1>2 DEF more

LEMMA InPush ==
  ASSUME NEW S, NEW s \in Seq(S), NEW x
  PROVE  /\ <<x>> \o s \in Seq(S \cup {x})
         /\ \A f \in Range(<<x>> \o s) : f = x \/ f \in Range(s)
<1>1. /\ Len(<<x>> \o s) = Len(s) + 1 /\ (<<x>> \o s)[1] = x
      /\ \A i \in 1..Len(s) : (<<x>> \o s)[i + 1] = s[i]
      /\ Len(s) \in Nat
  OBVIOUS
<1>2. <<x>> \o s \in Seq(S \cup {x})
  OBVIOUS
<1> DEFINE t == <<x>> \o s
<1>3. DOMAIN t = 1..Len(t)
  BY <1>2
<1> HIDE DEF t
<1>4. ASSUME NEW i \in DOMAIN t PROVE t[i] = x \/ t[i] \in Range(s)
  <2>1. CASE i = 1
    BY <1>1, <2>1 DEF t
  <2>2. CASE i # 1
    <3>1. i - 1 \in 1..Len(s) /\ (i - 1) + 1 = i
      BY <1>1, <1>3, <2>2 DEF t
    <3>2. t[i] = s[i - 1]
      BY <1>1, <3>1 DEF t
    <3> QED
      BY <3>1, <3>2 DEF Range
  <2> QED
    BY <2>1, <2>2
<1>5. \A f \in Range(t) : f = x \/ f \in Range(s)
  BY <1>4 DEF Range
<1> QED
  BY <1>2, <1>5 DEF t

LEMMA AnnouncedLoops ==
  ASSUME NEW base \in Seq(Frames), Announces(base)
  PROVE  \A f \in Range(stack') : f.op = "loop" => f \in Range(base)
<1>2. \A e : Delivery(e).op = "deliver"
  BY DEF Delivery
<1>3. ASSUME NEW e, Says(e, base)
      PROVE  \A f \in Range(stack') : f.op = "loop" => f \in Range(base)
  BY <1>2, <1>3, InPush DEF Says
<1>4. ASSUME NEW e, NEW g, Caller(g), Says(e, <<g>> \o base)
      PROVE  \A f \in Range(stack') : f.op = "loop" => f \in Range(base)
  <2> DEFINE more == <<g>> \o base
  <2>1. more \in Seq(Frames \cup {g}) /\ \A f \in Range(more) : f = g \/ f \in Range(base)
    BY InPush
  <2> HIDE DEF more
  <2>2. \A f \in Range(<<Delivery(e)>> \o more) : f = Delivery(e) \/ f \in Range(more)
    BY <2>1, InPush
  <2> QED
    BY <1>2, <1>4, <2>1, <2>2 DEF more, Says, Caller
<1> QED
  BY <1>3, <1>4 DEF Announces

\* The loops below a frame that may write have turns left for all that is to be
\* written.
LEMMA LowerLoops ==
  ASSUME TypeInv, ~Idle, Room, Writer(Head(stack))
  PROVE  \A f \in Range(Tail(stack)) : f.op = "loop" => f.left >= Debt
<1> DEFINE rest == Tail(stack)
           head == Head(stack)
<1>1. rest \in Seq(Frames) /\ RoomBelow({head}, rest)
  BY HeadIs, RoomOfHead
<1> HIDE DEF rest, head
<1>2. ASSUME NEW i \in 1..Len(rest), rest[i].op = "loop" PROVE rest[i].left >= Debt
  <2>1. Roomy(rest[i], {head} \cup Over(rest, i))
    BY <1>1, <1>2 DEF RoomBelow
  <2>2. \E f \in {head} \cup Over(rest, i) : Writer(f)
    BY DEF head
  <2> QED
    BY <2>1, <2>2 DEF Roomy
<1> QED
  BY <1>1, <1>2 DEF Range, rest

LEMMA TurnsShrink ==
  ASSUME TypeInv, NEW base
  PROVE  /\ \A c \in Claims : TurnGivesUp(c, base) => Shrinks /\ Announces(base)
         /\ \A c \in Claims : TurnRetakes(c, base) => Shrinks /\ Announces(base)
         /\ \A c \in Claims, v \in Names : TurnTakes(c, v, base) => Shrinks /\ Announces(base)
         /\ \A v \in Names : TurnDeletes(v, base) => Shrinks /\ Announces(base)
         /\ \A v \in Names : TurnReleases(v, base) => Shrinks /\ Announces(base)
         /\ \A c \in Claims : TurnDefaults(c, base) => Shrinks /\ Announces(base)
<1>0. StoreType
  BY DEF TypeInv
<1>f. \A c, r, v, w : Caller(BindFrame(c, r, v, w))
  BY DEF BindFrame, Caller
<1>p. \A c, r : Caller(ProvisionFrame(c, r))
  BY DEF ProvisionFrame, Caller
<1>1. ASSUME NEW c \in Claims, TurnGivesUp(c, base) PROVE Shrinks /\ Announces(base)
  <2>1. claims[c] # None
    BY <1>1 DEF TurnGivesUp, Dirty
  <2>2. claims[c] \in Claimed
    BY <1>0, <2>1, RefTypes
  <2>3. ToPending(claims[c]) \in Claimed /\ ToPending(claims[c]).volume = None
        /\ ToPending(claims[c]).class = claims[c].class
    BY <1>0, <2>1, <2>2, ClaimTypes, ReadIs
  <2>4. Shrinks
    BY <1>0, <1>1, <2>3, GivingUpShrinks DEF TurnGivesUp, WroteClaim
  <2>5. Announces(base)
    BY <1>1, WroteAnnounces DEF Announces, TurnGivesUp
  <2> QED
    BY <2>4, <2>5
<1>2. ASSUME NEW c \in Claims, TurnRetakes(c, base) PROVE Shrinks /\ Announces(base)
  <2> DEFINE v == claims[c].volume
  <2>1. /\ claims[c] # None /\ v \in Names /\ volumes[v] # None /\ volumes[v].claim = None
    BY <1>0, <1>2, RefTypes DEF TurnRetakes, Dirty
  <2>2. /\ volumes' = [volumes EXCEPT ![v] = ToBoundVolume(volumes[v], c)]
        /\ UNCHANGED claims
    BY <1>2 DEF TurnRetakes, WroteVolume
  <2>5. Announces(base)
    BY <1>2, <1>f, WroteAnnouncesOver DEF TurnRetakes
  <2> HIDE DEF v
  <2>3. ToBoundVolume(volumes[v], c) \in Backed /\ ToBoundVolume(volumes[v], c).claim = c
    BY <1>0, <2>1, RefTypes, VolumeTypes, ReadIs
  <2>4. Shrinks
    BY <1>0, <2>1, <2>2, <2>3, ClaimingShrinks
  <2> QED
    BY <2>4, <2>5
<1>3. ASSUME NEW c \in Claims, NEW v \in Names, TurnTakes(c, v, base)
      PROVE  Shrinks /\ Announces(base)
  <2>1. /\ claims[c] # None /\ volumes[v] # None /\ volumes[v].claim = None
    BY <1>3 DEF TurnTakes, Candidates, Fits
  <2>2. /\ volumes' = [volumes EXCEPT ![v] = ToBoundVolume(volumes[v], c)]
        /\ UNCHANGED claims
    BY <1>3 DEF TurnTakes, WroteVolume
  <2>5. Announces(base)
    BY <1>3, <1>f, WroteAnnouncesOver DEF TurnTakes
  <2>3. ToBoundVolume(volumes[v], c) \in Backed /\ ToBoundVolume(volumes[v], c).claim = c
    BY <1>0, <2>1, RefTypes, VolumeTypes, ReadIs
  <2>4. Shrinks
    BY <1>0, <2>1, <2>2, <2>3, ClaimingShrinks
  <2> QED
    BY <2>4, <2>5
<1>4. ASSUME NEW v \in Names, TurnDeletes(v, base) PROVE Shrinks /\ Announces(base)
  <2>1. Shrinks
    BY <1>0, <1>4, FreeingShrinks DEF TurnDeletes, WroteVolume
  <2>2. Announces(base)
    BY <1>4, WroteAnnounces DEF Announces, TurnDeletes
  <2> QED
    BY <2>1, <2>2
<1>5. ASSUME NEW v \in Names, TurnReleases(v, base) PROVE Shrinks /\ Announces(base)
  <2>1. ToReleased(volumes[v]).claim = None
    BY <1>0, <1>5, ReadIs DEF TurnReleases, Orphan
  <2>2. Shrinks
    BY <1>0, <1>5, <2>1, FreeingShrinks DEF TurnReleases, WroteVolume
  <2>3. Announces(base)
    BY <1>5, WroteAnnounces DEF Announces, TurnReleases
  <2> QED
    BY <2>2, <2>3
<1>6. ASSUME NEW c \in Claims, TurnDefaults(c, base) PROVE Shrinks /\ Announces(base)
  <2>1. claims[c] # None /\ claims[c].class = None
    BY <1>6 DEF TurnDefaults
  <2>2. claims[c] \in Claimed
    BY <1>0, <2>1, RefTypes
  <2>3. WithClass(claims[c]) \in Claimed
    BY <2>2, ClaimTypes DEF WithClass
  <2>4. WithClass(claims[c]).volume = claims[c].volume /\ WithClass(claims[c]).class # None
    BY <1>0, <2>1, ReadIs, ClassesAssumption
  <2>5. /\ claims' = [claims EXCEPT ![c] = WithClass(claims[c])] /\ UNCHANGED volumes
    BY <1>6 DEF TurnDefaults, WroteClaim
  <2>7. Announces(base)
    BY <1>6, <1>p, WroteAnnouncesOver DEF TurnDefaults
  <2>6. Shrinks
    BY <1>0, <2>1, <2>3, <2>4, <2>5, DefaultingShrinks
  <2> QED
    BY <2>6, <2>7
<1> QED
  BY <1>1, <1>2, <1>3, <1>4, <1>5, <1>6

\* A turn that writes pays for what it enqueues with what it writes.
LEMMA WritingTurnRoom ==
  ASSUME BatchSuffices, TypeInv, QueueType', stack' \in Seq(Frames), ~Idle, Room,
         NEW q \in Queues, NEW n \in Nat, n # 0, Head(stack) = Loop(q, n), Popped(q),
         IsOpen(q, Head(queue[q])), Shrinks, Announces(<<Loop(q, n - 1)>> \o Tail(stack))
  PROVE  Room'
<1> DEFINE head == Head(stack)
           rest == Tail(stack)
           loop == Loop(q, n - 1)
           base == <<loop>> \o rest
           d == Debt
           list == queue[q]
<1>1. head \in Frames /\ rest \in Seq(Frames) /\ head.op = "loop" /\ head.queue = q /\ head.left = n
  BY HeadIs DEF Loop
<1>2. loop \in Frames /\ loop.left = n - 1
  <2>1. n - 1 \in Nat
    OBVIOUS
  <2> QED
    BY <2>1, LoopTypes DEF Loop
<1>3. list \in Seq(Keys[q]) /\ list # << >>
  BY DEF TypeInv, QueueType, Popped
<1>4. 1 \in DOMAIN list /\ list[1] = Head(list)
  BY <1>3
<1>5. OpenIn(q)
  BY <1>4 DEF OpenIn
<1>6. Writer(head)
  BY <1>1, <1>5 DEF Writer
<1>7. \A f \in Range(rest) : f.op = "loop" => f.left >= Debt
  BY <1>6, LowerLoops
<1>8. d \in Nat
  BY CountsNext DEF Counts
<1>9. n - 1 >= d
  <2>1. Roomy(head, {})
    BY <1>1, RoomOfHead
  <2>2. n >= d + 1
    BY <1>1, <1>4, <2>1 DEF Roomy
  <2> HIDE DEF d
  <2> QED
    BY <1>8, <2>2
<1>10. base \in Seq(Frames) /\ Range(base) = {loop} \cup Range(rest)
  <2> HIDE DEF loop, rest
  <2> QED
    BY <1>1, <1>2, PushIs
<1>11. \A f \in Range(stack') : f.op = "loop" => f \in Range(base)
  <2>1. Announces(base)
    OBVIOUS
  <2> HIDE DEF base
  <2> QED
    BY <1>10, <2>1, AnnouncedLoops
<1>12. \A f \in LoopFrames : f \in Range(stack') => f.left >= Debt
  <2> SUFFICES ASSUME NEW f \in LoopFrames, f \in Range(stack') PROVE f.left >= Debt
    OBVIOUS
  <2>1. f = loop \/ f \in Range(rest)
    BY <1>10, <1>11 DEF LoopFrames
  <2>2. f.op = "loop"
    BY DEF LoopFrames
  <2> QED
    BY <1>2, <1>7, <1>9, <2>1, <2>2
<1> QED
  BY <1>12, RoomAfterWrite

LEMMA ClaimTurnRoom ==
  ASSUME BatchSuffices, TypeInv, BInv, QueueType', stack' \in Seq(Frames), ~Idle, Room,
         NEW n \in Nat, n # 0, Head(stack) = Loop("claims", n), Popped("claims"),
         ReconcileClaim(Head(queue["claims"]), <<Loop("claims", n - 1)>> \o Tail(stack))
  PROVE  Room'
<1> DEFINE base == <<Loop("claims", n - 1)>> \o Tail(stack)
           c == Head(queue["claims"])
<1>0. "claims" \in Queues /\ StoreType /\ c \in Claims
  BY PoppedIs, KeysOf DEF Queues, TypeInv
<1>1. base \in Seq(Frames) /\ Range(base) = {Loop("claims", n - 1)} \cup Range(Tail(stack))
  <2>1. n - 1 \in Nat
    OBVIOUS
  <2>2. Loop("claims", n - 1) \in Frames
    BY <1>0, <2>1, LoopTypes DEF Loop
  <2> QED
    BY <2>2, HeadIs, PushIs
<1>2. CASE TurnWaits(c, base)
  <2>1. IsOpen("claims", c) /\ UNCHANGED store /\ stack' = base
    BY <1>2 DEF TurnWaits, IsOpen
  <2> DEFINE new == [op |-> "provision"]
  <2>2. Leaves("claims", c, [op |-> "bind", written |-> TRUE])
    BY DEF Leaves
  <2> QED
    BY <1>0, <2>1, <2>2, QuietTurnRoom
<1>3. CASE TurnRests(c, base)
  <2> DEFINE new == BindFrame(c, claims[c], claims[c].volume, TRUE)
  <2>1. UNCHANGED store /\ stack' = <<new>> \o base
    BY <1>3 DEF TurnRests
  <2>2. claims[c] # None /\ claims[c].volume \in Names /\ claims[c] \in Claimed
    BY <1>0, <1>3, RefTypes DEF TurnRests, Good
  <2>3. new \in Frames /\ new.op = "bind" /\ new.written
    BY <1>0, <2>2 DEF BindFrame, Frames, BindFrames
  <2> HIDE DEF new
  <2>4. Leaves("claims", c, new) /\ Ender("claims", new)
    BY <2>3 DEF Leaves, Ender
  <2> QED
    BY <1>0, <2>1, <2>3, <2>4, QuietTurnRoom
<1>4. ASSUME Shrinks, Announces(base), ~Good(c) PROVE Room'
  <2>1. IsOpen("claims", c)
    BY <1>4 DEF IsOpen
  <2> QED
    BY <1>0, <1>4, <2>1, WritingTurnRoom
<1>5. CASE TurnGivesUp(c, base) \/ TurnRetakes(c, base)
  <2>1. ~Good(c)
    BY <1>5 DEF TurnGivesUp, TurnRetakes, Dirty
  <2>2. Shrinks /\ Announces(base)
    <3> HIDE DEF base, c
    <3> QED
      BY <1>0, <1>5, TurnsShrink
  <2> QED
    BY <1>4, <2>1, <2>2
<1>6. ASSUME NEW v \in Names, TurnTakes(c, v, base) PROVE Room'
  <2>1. ~Good(c)
    BY <1>6 DEF TurnTakes, Good
  <2>2. Shrinks /\ Announces(base)
    <3> HIDE DEF base, c
    <3> QED
      BY <1>0, <1>6, TurnsShrink
  <2> QED
    BY <1>4, <2>1, <2>2
<1> HIDE DEF base, c
<1>7. ReconcileClaim(c, base)
  BY DEF base, c
<1> QED
  BY <1>0, <1>1, <1>2, <1>3, <1>5, <1>6, <1>7, ClaimTurn

LEMMA VolumeTurnRoom ==
  ASSUME BatchSuffices, TypeInv, BInv, QueueType', stack' \in Seq(Frames), ~Idle, Room,
         NEW n \in Nat, n # 0, Head(stack) = Loop("volumes", n), Popped("volumes"),
         ReconcileVolume(Head(queue["volumes"]), <<Loop("volumes", n - 1)>> \o Tail(stack)),
         UNCHANGED boundTo
  PROVE  Room'
<1> DEFINE base == <<Loop("volumes", n - 1)>> \o Tail(stack)
           v == Head(queue["volumes"])
<1>0. "volumes" \in Queues /\ StoreType /\ v \in Names
  BY PoppedIs, KeysOf DEF Queues, TypeInv
<1>1. base \in Seq(Frames) /\ Range(base) = {Loop("volumes", n - 1)} \cup Range(Tail(stack))
  <2>1. n - 1 \in Nat
    OBVIOUS
  <2>2. Loop("volumes", n - 1) \in Frames
    BY <1>0, <2>1, LoopTypes DEF Loop
  <2> QED
    BY <2>2, HeadIs, PushIs
<1>2. ASSUME NEW keys \in SUBSET Claims, UNCHANGED store, stack' = AddAll("claims", keys) \o base,
             IsOpen("volumes", v) \/ keys # {},
             (\E k \in keys : IsOpen("claims", k)) => IsOpen("volumes", v)
      PROVE  Room'
  <2> DEFINE new == AddAllFrame("claims", keys)
  <2>1. /\ new \in Frames /\ new.op = "addAll" /\ new.queue = "claims" /\ new.keys = keys
        /\ keys = {} => stack' = base
        /\ keys # {} => stack' = <<new>> \o base
    <3> HIDE DEF base
    <3>1. base \in Seq(Frames)
      BY <1>1
    <3> DEFINE s == AddAll("claims", keys) \o base
    <3>2. /\ new \in Frames /\ new.op = "addAll" /\ new.queue = "claims" /\ new.keys = keys
          /\ keys = {} => s = base
          /\ keys # {} => s = <<new>> \o base
      BY <3>1, AddAllIs
    <3>3. stack' = s
      BY <1>2
    <3> HIDE DEF s, new
    <3> QED
      BY <3>2, <3>3
  <2> HIDE DEF new
  <2>2. Leaves("volumes", v, new) /\ Ender("volumes", new)
    BY <1>2, <2>1 DEF Leaves, Ender
  <2>3. \/ stack' = base /\ IsOpen("volumes", v)
        \/ stack' = <<new>> \o base /\ new \in Frames /\ Ender("volumes", new)
    BY <1>2, <2>1, <2>2
  <2> QED
    BY <1>0, <1>2, <2>2, <2>3, QuietTurnRoom
<1>3. CASE TurnTells(v, base)
  <2>1. UNCHANGED store
    BY <1>3 DEF TurnTells
  <2>2. CASE volumes[v] = None /\ stack' = base
    <3>1. stack' = AddAll("claims", {}) \o base
      <4> HIDE DEF base
      <4>1. base \in Seq(Frames) /\ AddAll("claims", {}) = << >>
        BY <1>1 DEF AddAll
      <4>2. << >> \o base = base
        BY <4>1
      <4> QED
        BY <2>2, <4>1, <4>2
    <3>2. IsOpen("volumes", v)
      BY <2>2 DEF IsOpen, Settled
    <3> DEFINE none == {}
    <3>3. none \in SUBSET Claims /\ stack' = AddAll("claims", none) \o base
      BY <3>1
    <3> HIDE DEF none, base, v
    <3> QED
      BY <1>2, <2>1, <3>2, <3>3
  <2>3. CASE volumes[v] # None /\ volumes[v].claim = None
    <3>1. stack' = AddAll("claims", ClaimsFor(volumes[v])) \o base
      BY <1>3, <2>3 DEF TurnTells
    <3>2. ClaimsFor(volumes[v]) \in SUBSET Claims
      BY DEF ClaimsFor, PendingClaims
    <3>3. IsOpen("volumes", v)
      BY <2>3 DEF IsOpen, Settled
    <3> QED
      BY <1>2, <2>1, <3>1, <3>2, <3>3
  <2>4. CASE volumes[v] # None /\ volumes[v].claim # None
    <3> DEFINE d == volumes[v].claim
    <3>1. stack' = AddAll("claims", {d}) \o base
      BY <1>3, <2>4 DEF TurnTells
    <3>2. d \in Claims /\ claims[d] # None
      BY <1>0, <1>3, <2>4, RefTypes DEF TurnTells, Orphan
    <3>3. Settled(v) => Good(d)
      BY <1>0, GoodIsSettled
    <3>4. IsOpen("claims", d) => IsOpen("volumes", v)
      BY <3>3 DEF IsOpen
    <3> HIDE DEF d
    <3>5. {d} \in SUBSET Claims /\ {d} # {}
      BY <3>2
    <3>6. (\E k \in {d} : IsOpen("claims", k)) => IsOpen("volumes", v)
      BY <3>4
    <3> QED
      BY <1>2, <2>1, <3>1, <3>5, <3>6
  <2> QED
    BY <1>3, <2>2, <2>3, <2>4 DEF TurnTells
<1>4. CASE TurnDeletes(v, base) \/ TurnReleases(v, base)
  <2>1. IsOpen("volumes", v)
    BY <1>4 DEF TurnDeletes, TurnReleases, Orphan, IsOpen, Settled
  <2>2. Shrinks /\ Announces(base)
    <3> HIDE DEF base, v
    <3> QED
      BY <1>0, <1>4, TurnsShrink
  <2> QED
    BY <1>0, <2>1, <2>2, WritingTurnRoom
<1> HIDE DEF base, v
<1>7. ReconcileVolume(v, base)
  BY DEF base, v
<1> QED
  BY <1>0, <1>1, <1>3, <1>4, <1>7, VolumeTurn

LEMMA ProvisioningTurnRoom ==
  ASSUME BatchSuffices, TypeInv, BInv, QueueType', stack' \in Seq(Frames), ~Idle, Room,
         NEW n \in Nat, n # 0, Head(stack) = Loop("provisioning", n), Popped("provisioning"),
         ReconcileProvisioning(Head(queue["provisioning"]),
                               <<Loop("provisioning", n - 1)>> \o Tail(stack)),
         UNCHANGED boundTo
  PROVE  Room'
<1> DEFINE base == <<Loop("provisioning", n - 1)>> \o Tail(stack)
           c == Head(queue["provisioning"])
<1>0. /\ "provisioning" \in Queues /\ StoreType /\ c \in Claims
      /\ IsOpen("provisioning", c)
  BY PoppedIs, KeysOf DEF Queues, TypeInv, IsOpen
<1>1. base \in Seq(Frames) /\ Range(base) = {Loop("provisioning", n - 1)} \cup Range(Tail(stack))
  <2>1. n - 1 \in Nat
    OBVIOUS
  <2>2. Loop("provisioning", n - 1) \in Frames
    BY <1>0, <2>1, LoopTypes DEF Loop
  <2> QED
    BY <2>2, HeadIs, PushIs
<1>2. CASE claims[c] = None /\ TurnProvisions(c, base)
  <2>1. UNCHANGED store /\ stack' = base
    BY <1>2 DEF TurnProvisions
  <2>2. Leaves("provisioning", c, [op |-> "provision"])
    BY DEF Leaves
  <2> QED
    BY <1>0, <2>1, <2>2, QuietTurnRoom
<1>3. CASE claims[c] # None /\ TurnProvisions(c, base)
  <2> DEFINE new == ProvisionFrame(c, claims[c])
  <2>1. UNCHANGED store /\ stack' = <<new>> \o base
    BY <1>3 DEF TurnProvisions
  <2>2. claims[c] \in Claimed
    BY <1>0, <1>3, RefTypes
  <2>3. new \in Frames /\ new.op = "provision"
    BY <1>0, <2>2 DEF ProvisionFrame, Frames, ProvisionFrames
  <2> HIDE DEF new
  <2>4. Leaves("provisioning", c, new)
    BY <2>3 DEF Leaves
  <2> QED
    BY <1>0, <2>1, <2>3, <2>4, QuietTurnRoom
<1>4. CASE TurnDefaults(c, base)
  <2>2. Shrinks /\ Announces(base)
    <3> HIDE DEF base, c
    <3> QED
      BY <1>0, <1>4, TurnsShrink
  <2> QED
    BY <1>0, <2>2, WritingTurnRoom
<1> HIDE DEF base, c
<1>7. ReconcileProvisioning(c, base)
  BY DEF base, c
<1> QED
  BY <1>0, <1>1, <1>2, <1>3, <1>4, <1>7, ProvisioningTurn

LEMMA RoomNotStranded ==
  ASSUME BatchSuffices, TypeInv, Room PROVE NotStranded
<1> SUFFICES ASSUME ~Idle, Head(stack).op = "loop", Head(stack).left = 0, OpenIn(Head(stack).queue)
             PROVE  FALSE
  BY DEF NotStranded
<1> DEFINE q == Head(stack).queue
           d == Debt
<1>1. Head(stack) \in LoopFrames
  BY HeadIs, FrameKinds
<1>2. PICK j \in DOMAIN queue[q] : IsOpen(q, queue[q][j])
  BY DEF OpenIn
<1>3. j \in Nat /\ 1 <= j
  BY <1>1, QueueFits DEF LoopFrames, TypeInv
<1>4. Roomy(Head(stack), {})
  BY RoomOfHead
<1>5. 0 >= d + j
  BY <1>2, <1>4 DEF Roomy
<1>6. d \in Nat
  BY CountsNext DEF Counts
<1> HIDE DEF d
<1> QED
  BY <1>3, <1>5, <1>6

LEMMA LoopRoom ==
  ASSUME BatchSuffices, TypeInv, BInv, QueueType', stack' \in Seq(Frames), ~Idle, Room,
         Head(stack).op = "loop", LoopStep(Head(stack), Tail(stack))
  PROVE  Room'
<1> DEFINE q == Head(stack).queue
           n == Head(stack).left
<1>1. Head(stack) \in LoopFrames
  BY HeadIs, FrameKinds
<1>2. q \in Queues /\ n \in Nat /\ Head(stack) = Loop(q, n)
  BY <1>1 DEF LoopFrames, Loop
<1>3. CASE ~(queue[q] # << >> /\ n > 0)
  <2>1. Return(Tail(stack)) /\ UNCHANGED <<queue, boundTo>>
    BY <1>3 DEF LoopStep
  <2>2. ~OpenIn(q)
    <3>1. CASE queue[q] = << >>
      BY <3>1 DEF OpenIn
    <3>2. CASE n = 0
      BY <3>2, RoomNotStranded DEF NotStranded
    <3> QED
      BY <1>2, <1>3, <3>1, <3>2
  <2> QED
    BY <2>1, <2>2, LoopEndsRoom DEF Return
<1>4. CASE queue[q] # << >> /\ n > 0
  <2>1. /\ queue' = [queue EXCEPT ![q] = Tail(queue[q])]
        /\ Handle(q, Head(queue[q]), <<Loop(q, n - 1)>> \o Tail(stack))
    BY <1>4 DEF LoopStep
  <2>2. Popped(q) /\ n # 0
    BY <1>2, <1>4, <2>1 DEF Popped
  <2> HIDE DEF n, q
  <2>3. CASE q = "claims"
    <3>1. ReconcileClaim(Head(queue["claims"]), <<Loop("claims", n - 1)>> \o Tail(stack))
      BY <2>1, <2>3 DEF Handle
    <3> QED
      BY <1>2, <2>2, <2>3, <3>1, ClaimTurnRoom
  <2>4. CASE q = "volumes"
    <3>1. /\ ReconcileVolume(Head(queue["volumes"]), <<Loop("volumes", n - 1)>> \o Tail(stack))
          /\ UNCHANGED boundTo
      BY <2>1, <2>4 DEF Handle
    <3> QED
      BY <1>2, <2>2, <2>4, <3>1, VolumeTurnRoom
  <2>5. CASE q = "provisioning"
    <3>1. /\ ReconcileProvisioning(Head(queue["provisioning"]),
                                   <<Loop("provisioning", n - 1)>> \o Tail(stack))
          /\ UNCHANGED boundTo
      BY <2>1, <2>5 DEF Handle
    <3> QED
      BY <1>2, <2>2, <2>5, <3>1, ProvisioningTurnRoom
  <2> QED
    BY <1>2, <2>3, <2>4, <2>5 DEF Queues
<1> QED
  BY <1>3, <1>4

\* A frame other than a loop writes, and what is below it has room for that.
LEMMA HeadWrites ==
  ASSUME BatchSuffices, TypeInv, QueueType', stack' \in Seq(Frames), ~Idle, Room,
         Writer(Head(stack)), Shrinks, Announces(Tail(stack))
  PROVE  Room'
<1> DEFINE rest == Tail(stack)
<1>1. rest \in Seq(Frames) /\ Announces(rest)
  BY HeadIs
<1>2. \A f \in Range(rest) : f.op = "loop" => f.left >= Debt
  BY LowerLoops
<1> HIDE DEF rest
<1>3. \A f \in Range(stack') : f.op = "loop" => f \in Range(rest)
  BY <1>1, AnnouncedLoops
<1>4. \A f \in LoopFrames : f.op = "loop"
  BY DEF LoopFrames
<1> QED
  BY <1>2, <1>3, <1>4, RoomAfterWrite

LEMMA ProvisionRoom ==
  ASSUME BatchSuffices, TypeInv, QueueType', stack' \in Seq(Frames), ~Idle, Room,
         Head(stack).op = "provision",
         Provision(Head(stack).claim, Head(stack).read, Tail(stack)), UNCHANGED queue
  PROVE  Room'
<1> DEFINE c == Head(stack).claim
           read == Head(stack).read
           base == Tail(stack)
           v == DynamicName[c]
           new == DynamicVolume(read)
<1>1. /\ c \in Claims /\ read \in Claimed /\ base \in Seq(Frames)
      /\ Writer(Head(stack)) /\ StoreType
  <2>1. Head(stack) \in ProvisionFrames
    BY HeadIs, FrameKinds
  <2> QED
    BY <2>1, HeadIs DEF ProvisionFrames, Writer, TypeInv
<1>2. CASE Return(base)
  <2>1. stack' = base /\ UNCHANGED <<store, queue>>
    BY <1>2 DEF Return
  <2> DEFINE none == {}
  <2>2. none \in SUBSET Claims /\ AddAll("claims", none) = << >>
    BY DEF AddAll
  <2>3. << >> \o base = base
    BY <1>1
  <2>4. stack' = AddAll("claims", none) \o Tail(stack) /\ none = {}
    BY <2>1, <2>2, <2>3
  <2> HIDE DEF none
  <2> QED
    BY <2>1, <2>2, <2>4, ReturnsRoom
<1>3. CASE ~Return(base)
  <2>1. /\ read.class \in classes /\ volumes[v] = None
        /\ SetVolume("Created", v, new, base)
    BY <1>3 DEF Provision
  <2>2. new \in Backed /\ v \in Names
    BY <1>1, <2>1, NewVolumeTypes DEF Names, TypeInv, RestType
  <2>3. new.claim = None
    BY DEF DynamicVolume, NewVolume
  <2> HIDE DEF c, read, base, v, new
  <2>4. WroteVolume("Created", v, new, None, base)
    <3>1. WroteVolume("Created", v, new, IF "Created" = "Deleted" THEN volumes[v].claim
                                         ELSE new.claim, base)
      BY <2>1, SetVolumeIs
    <3> QED
      BY <2>3, <3>1
  <2>5. Shrinks
    <3>1. volumes' = [volumes EXCEPT ![v] = new] /\ UNCHANGED claims
      BY <2>4 DEF WroteVolume
    <3> QED
      BY <1>1, <2>1, <2>2, <2>3, <3>1, CreatesShrinks
  <2>6. Announces(base)
    BY <2>4, WroteAnnounces DEF Announces
  <2> QED
    BY <1>1, <2>5, <2>6, HeadWrites DEF base
<1> QED
  BY <1>2, <1>3

LEMMA BindRoom ==
  ASSUME BatchSuffices, TypeInv, BInv, QueueType', stack' \in Seq(Frames), ~Idle, Room,
         Head(stack).op = "bind", BindStep(Head(stack), Tail(stack))
  PROVE  Room'
<1> DEFINE frame == Head(stack)
           base == Tail(stack)
           next == [frame EXCEPT !.written = TRUE]
<1>1. /\ frame \in BindFrames /\ base \in Seq(Frames) /\ frame \in Range(stack)
  BY HeadIs, FrameKinds
<1>2. /\ frame.claim \in Claims /\ frame.volume \in Names /\ frame.read \in Claimed
      /\ BindMeans(frame)
  BY <1>1, BindsKnown
<1>3. CASE frame.written
  <2>1. Enqueue("volumes", frame.volume, base)
    BY <1>3 DEF BindStep
  <2>2. Settled(frame.volume)
    <3>1. frame.claim # None
      BY <1>2, NoneAssumption
    <3> QED
      BY <1>2, <1>3, <3>1 DEF BindMeans, Settled
  <2> QED
    BY <1>2, <1>3, <2>1, <2>2, BindEndsRoom
<1>4. CASE ~frame.written
  <2>1. SetClaim("Updated", frame.claim, ToBoundClaim(frame.read, frame.volume),
                 <<next>> \o base)
    BY <1>4 DEF BindStep
  <2>2. Caller(next)
    BY <1>1 DEF BindFrames, Caller
  <2>3. /\ claims[frame.claim] # None /\ claims[frame.claim].volume = None
        /\ volumes[frame.volume] # None /\ volumes[frame.volume].claim = frame.claim
    BY <1>2, <1>4 DEF BindMeans
  <2>4. /\ ToBoundClaim(frame.read, frame.volume).volume = frame.volume
        /\ ToBoundClaim(frame.read, frame.volume) \in Claimed
    <3>1. frame.volume # None
      BY <1>2, NoneAssumption
    <3> QED
      BY <1>2, <3>1 DEF ToBoundClaim, Claimed, ClaimValues
  <2>5. Writer(Head(stack))
    BY <1>1, <1>4 DEF Writer, Unwritten, BindFrames
  <2> HIDE DEF frame, base, next
  <2>6. WroteClaim("Updated", frame.claim, ToBoundClaim(frame.read, frame.volume), frame.volume,
                   <<next>> \o base)
    <3> DEFINE new == ToBoundClaim(frame.read, frame.volume)
    <3>1. WroteClaim("Updated", frame.claim, new, IF "Updated" = "Deleted"
                     THEN claims[frame.claim].volume ELSE new.volume, <<next>> \o base)
      BY <2>1, <2>3, SetClaimIs
    <3> QED
      BY <2>4, <3>1
  <2>7. Shrinks
    <3>1. /\ claims' = [claims EXCEPT ![frame.claim] = ToBoundClaim(frame.read, frame.volume)]
          /\ UNCHANGED volumes /\ StoreType
      BY <2>6 DEF WroteClaim, TypeInv
    <3> QED
      BY <1>2, <2>3, <2>4, <3>1, BindingShrinks
  <2>8. Announces(base)
    BY <2>2, <2>6, WroteAnnouncesOver
  <2> QED
    BY <2>5, <2>7, <2>8, HeadWrites DEF base
<1> QED
  BY <1>3, <1>4

LEMMA MatchingRoom ==
  ASSUME BatchSuffices, TypeInv, ~Idle, Room, Head(stack).op = "matching",
         Matching(Head(stack), Tail(stack)), UNCHANGED queue
  PROVE  Room'
<1> DEFINE rest == Tail(stack)
           v == Head(stack).volume
<1>0. rest \in Seq(Frames)
  BY HeadIs
<1>1. PICK keys \in SUBSET Claims :
        stack' = AddAll("claims", keys) \o rest /\ UNCHANGED store
  <2>1. ClaimsFor(volumes[v]) \in SUBSET Claims
    BY DEF ClaimsFor, PendingClaims
  <2>2. CASE volumes[v] = None
    <3>1. Return(rest)
      BY <2>2 DEF Matching
    <3>2. stack' = AddAll("claims", {}) \o rest /\ UNCHANGED store
      BY <1>0, <3>1 DEF AddAll, Return
    <3>3. {} \in SUBSET Claims
      OBVIOUS
    <3> QED
      BY <3>2, <3>3
  <2>3. CASE volumes[v] # None
    BY <2>1, <2>3 DEF Matching, Return
  <2> QED
    BY <2>2, <2>3
<1>2. Head(stack).op # "provision" /\ Head(stack).op \in {"matching", "provision"}
  OBVIOUS
<1> QED
  BY <1>1, <1>2, ReturnsRoom

LEMMA AddAllRoom ==
  ASSUME BatchSuffices, TypeInv, QueueType', ~Idle, Room, Head(stack).op = "addAll",
         AddAllStep(Head(stack), Tail(stack))
  PROVE  Room'
<1> DEFINE a == Head(stack).queue
           all == Head(stack).keys
<1>1. a \in {"provisioning", "claims"} /\ all \in SUBSET Claims
  <2>1. Head(stack) \in AddAllFrames
    BY HeadIs, FrameKinds
  <2> QED
    BY <2>1 DEF AddAllFrames
<1>2. PICK key \in all : Enqueue(a, key, AddAll(a, all \ {key}) \o Tail(stack))
  BY DEF AddAllStep
<1> DEFINE keys == all \ {key}
<1>3. key \in Claims /\ keys \in SUBSET Claims /\ keys \subseteq all
  BY <1>1
<1>4. Enqueue(a, key, AddAll(a, keys) \o Tail(stack))
  BY <1>2
<1> HIDE DEF keys
<1> QED
  BY <1>1, <1>3, <1>4, AddsRoom

\* Nothing but fresh loops
LEMMA FreshRoom ==
  ASSUME BatchSuffices, QueueType', stack' \in Seq(Frames),
         \A f \in Range(stack') : f.op = "loop" => \E q \in Queues : f = Loop(q, MaxBatch)
  PROVE  Room'
<1>1. ASSUME NEW f \in LoopFrames, f \in Range(stack') PROVE Ample(f)'
  <2>1. PICK q \in Queues : f = Loop(q, MaxBatch)
    BY <1>1 DEF LoopFrames
  <2> QED
    BY <2>1, FreshIsAmple
<1> QED
  BY <1>1, RoomFree

LEMMA NextRoom ==
  ASSUME BatchSuffices, TypeInv, BInv, QueueType', stack' \in Seq(Frames), ~Idle,
         Head(stack).op = "next", AfterNext(Head(stack), Tail(stack))
  PROVE  Room'
<1> DEFINE q == Head(stack).queue
           rest == Tail(stack)
           loop == Loop(q, MaxBatch)
<1>1. rest \in Seq(Frames) /\ Range(rest) = {}
  BY HeadIs DEF BInv, Above
<1>2. q \in Queues
  BY HeadIs, FrameKinds DEF NextFrames
<1>3. stack' = rest \/ stack' = <<loop>> \o rest
  BY DEF AfterNext, Return
<1>4. \A f \in Range(stack') : f = loop
  <2> HIDE DEF loop, rest
  <2> QED
    BY <1>1, <1>3, InPush
<1> QED
  BY <1>2, <1>4, FreshRoom

LEMMA RelayedAfter ==
  ASSUME NEW rest, NEW after, Relayed(after), Range(rest) \subseteq Range(after),
         \A f \in Range(after) : f.op = "loop" => f \in Range(rest)
  PROVE  Relayed(rest)
BY DEF Relayed

LEMMA RelayedByAdd ==
  ASSUME QueueType, NEW q \in Queues, NEW key \in Keys[q], NEW rest \in Seq(Frames),
         Enqueue(q, key, rest)
  PROVE  Relayed(rest)
<1>1. Enqueued(q, key, rest)
  BY Enqueueing
<1> QED
  BY <1>1 DEF Enqueued, Relayed

LEMMA RelayedBare ==
  ASSUME NEW rest, UNCHANGED <<store, queue>>, stack' = rest
  PROVE  Relayed(rest)
BY DEF Relayed

LEMMA RelayedByProvisioning ==
  ASSUME NEW event \in Events, NEW rest \in Seq(Frames), HandleProvisioning(event, rest)
  PROVE  Relayed(rest)
<1>1. UNCHANGED <<store, queue>>
  BY ToProvisioning
<1>2. PICK keys \in SUBSET Claims : stack' = AddAll("provisioning", keys) \o rest
  BY ToProvisioning
<1> DEFINE s == AddAll("provisioning", keys) \o rest
           frame == AddAllFrame("provisioning", keys)
<1>3. /\ frame.op = "addAll" /\ Range(rest) \subseteq Range(s)
      /\ \A f \in Range(s) : f = frame \/ f \in Range(rest)
  <2> HIDE DEF s, frame
  <2>1. Adding(frame, keys, rest, s)
    BY AddingAll DEF s, frame
  <2> QED
    BY <2>1 DEF Adding
<1>4. stack' = s
  BY <1>2
<1> HIDE DEF s, frame
<1> QED
  BY <1>1, <1>3, <1>4 DEF Relayed

LEMMA RelayedByBinding ==
  ASSUME QueueType, NEW event \in Events, NEW rest \in Seq(Frames), HandleBinding(event, rest)
  PROVE  Relayed(rest)
<1>0. \A q \in {"claims", "volumes"} : q \in Queues
  BY DEF Queues
<1>1. CASE stack' = rest /\ UNCHANGED <<store, queue>>
  BY <1>1, RelayedBare
<1>2. ASSUME NEW c \in Claims, Enqueue("claims", c, rest) PROVE Relayed(rest)
  BY <1>0, <1>2, KeysOf, RelayedByAdd
<1>3. ASSUME NEW v \in Names, Enqueue("volumes", v, rest) PROVE Relayed(rest)
  BY <1>0, <1>3, KeysOf, RelayedByAdd
<1>4. ASSUME NEW v \in Names, MatchingFrame(v) \in Frames,
             Enqueue("volumes", v, <<MatchingFrame(v)>> \o rest)
      PROVE  Relayed(rest)
  <2> DEFINE frame == MatchingFrame(v)
             after == <<frame>> \o rest
  <2>1. frame.op = "matching" /\ frame \in Frames
    BY <1>4 DEF MatchingFrame
  <2> HIDE DEF frame
  <2>2. after \in Seq(Frames) /\ Range(after) = {frame} \cup Range(rest)
    BY <2>1, PushIs
  <2>3. Enqueue("volumes", v, after)
    BY <1>4 DEF frame
  <2> HIDE DEF after
  <2>4. Relayed(after)
    BY <1>0, <2>2, <2>3, KeysOf, RelayedByAdd
  <2> QED
    BY <2>1, <2>2, <2>4, RelayedAfter
<1> QED
  BY <1>1, <1>2, <1>3, <1>4, ToBinding

\* A delivery leaves room for whatever its subscribers may add.
LEMMA DeliverRoom ==
  ASSUME BatchSuffices, TypeInv, QueueType', stack' \in Seq(Frames), ~Idle, Room,
         Head(stack).op = "deliver", DeliverStep(Head(stack), Tail(stack))
  PROVE  Room'
<1> DEFINE frame == Head(stack)
           rest == Tail(stack)
           to == Subscribers(frame.event)
<1>1. /\ frame \in DeliverFrames /\ frame \in Frames /\ rest \in Seq(Frames)
      /\ Range(stack) = {frame} \cup Range(rest)
  BY HeadIs, FrameKinds
<1>2. \/ HandleProvisioning(frame.event, After(frame, rest))
      \/ HandleBinding(frame.event, After(frame, rest))
      \/ /\ Return(After(frame, rest)) /\ UNCHANGED queue
  BY DEF DeliverStep, After, Onward
<1>d. \A q : ~IsLoop(frame, q)
  BY DEF IsLoop
<1>c. \A q : Carrier(q, frame)
  BY DEF Carrier
<1>r. RoomBelow({frame}, rest)
  BY RoomOfHead
<1> HIDE DEF frame, rest
<1>3. /\ frame.event \in Events /\ After(frame, rest) \in Seq(Frames)
      /\ Range(rest) \subseteq Range(After(frame, rest))
      /\ \A f \in Range(After(frame, rest)) : f.op = "loop" => f \in Range(rest)
  <2> DEFINE after == After(frame, rest)
             next == Onward(frame)
  <2>1. /\ frame.event \in Events /\ after \in Seq(Frames) /\ next.op = "deliver"
        /\ Range(rest) \subseteq Range(after)
        /\ after = rest \/ Range(after) = {next} \cup Range(rest)
    BY <1>1, AfterIs
  <2> HIDE DEF after, next
  <2>2. \A f \in Range(after) : f.op = "loop" => f \in Range(rest)
    BY <2>1
  <2> QED
    BY <2>1, <2>2 DEF after
<1> DEFINE after == After(frame, rest)
<1>4. Relayed(after)
  <2> HIDE DEF after
  <2>0. QueueType /\ after \in Seq(Frames)
    BY <1>3 DEF TypeInv, after
  <2> QED
    BY <1>2, <1>3, <2>0, RelayedByProvisioning, RelayedByBinding, RelayedBare DEF after, Return
<1>5. Relayed(rest)
  <2> HIDE DEF after
  <2> QED
    BY <1>3, <1>4, RelayedAfter DEF after
<1>6. /\ \A p \in Queues : OpenIn(p)' => OpenIn(p) \/ Draining(p, stack')
      /\ \A p : Draining(p, stack) => Draining(p, stack')
  <2>1. \A p \in Queues : queue'[p] = queue[p] => (OpenIn(p)' <=> OpenIn(p))
    BY <1>5, OpenAfter DEF Relayed
  <2>2. \A p : Draining(p, stack) => Draining(p, rest)
    BY <1>1, <1>d, DrainingIs
  <2>3. \A p : Draining(p, rest) => Draining(p, stack')
    BY <1>5, DrainingIs DEF Relayed
  <2> QED
    BY <1>5, <2>1, <2>2, <2>3 DEF Relayed
<1>7. \A q : Hidden(q)' => Hidden(q)
  BY <1>6, HiddenLess DEF Queues
<1>8. \A f \in LoopFrames : f \in Range(rest) => Ample(f)
  <2> SUFFICES ASSUME NEW i \in 1..Len(rest), rest[i] \in LoopFrames PROVE Ample(rest[i])
    BY <1>1 DEF Range
  <2>1. rest[i].op = "loop"
    BY DEF LoopFrames
  <2>2. Roomy(rest[i], {frame} \cup Over(rest, i))
    BY <1>r, <2>1 DEF RoomBelow
  <2> QED
    BY <1>c, <2>2 DEF Roomy, Ample
<1>9. UNCHANGED store
  BY <1>5 DEF Relayed
<1>10. \A f \in LoopFrames : f \in Range(rest) => Ample(f)'
  BY <1>7, <1>8, <1>9, LongestStays, DebtStays DEF Ample
<1>11. \A f \in LoopFrames : f \in Range(stack') => Ample(f)'
  <2> SUFFICES ASSUME NEW f \in LoopFrames, f \in Range(stack') PROVE Ample(f)'
    OBVIOUS
  <2>1. f \in Range(rest) \/ \E q \in Queues : f = Loop(q, MaxBatch)
    BY <1>5 DEF Relayed, LoopFrames
  <2> QED
    BY <1>10, <2>1, FreshIsAmple
<1> QED
  BY <1>11, RoomFree

\* The loops that run after a turn are those that ran before it.
LEMMA TurnLoops ==
  ASSUME TypeInv, NEW q \in Queues, NEW key \in Keys[q], NEW base \in Seq(Frames),
         Handle(q, key, base)
  PROVE  \A f \in Range(stack') : f.op = "loop" => f \in Range(base)
<1>0. StoreType
  BY DEF TypeInv
<1>1. ASSUME NEW new, new.op # "loop", stack' = <<new>> \o base
      PROVE  \A f \in Range(stack') : f.op = "loop" => f \in Range(base)
  BY <1>1, InPush
<1>2. ASSUME NEW keys \in SUBSET Claims, stack' = AddAll("claims", keys) \o base
      PROVE  \A f \in Range(stack') : f.op = "loop" => f \in Range(base)
  <2> DEFINE s == AddAll("claims", keys) \o base
             frame == AddAllFrame("claims", keys)
  <2>1. Adding(frame, keys, base, s)
    BY AddingAll
  <2>2. stack' = s
    BY <1>2
  <2> HIDE DEF s, frame
  <2> QED
    BY <2>1, <2>2 DEF Adding
<1>3. CASE Announces(base)
  BY <1>3, AnnouncedLoops
<1>4. CASE q = "claims"
  <2>1. key \in Claims /\ ReconcileClaim(key, base)
    BY <1>4, KeysOf DEF Handle
  <2>2. CASE TurnWaits(key, base)
    BY <2>2 DEF TurnWaits
  <2>3. CASE TurnRests(key, base)
    BY <1>1, <2>3 DEF TurnRests, BindFrame
  <2> QED
    BY <1>0, <1>3, <2>1, <2>2, <2>3, ClaimTurn, TurnsShrink
<1>5. CASE q = "volumes"
  <2>1. key \in Names /\ ReconcileVolume(key, base) /\ UNCHANGED boundTo
    BY <1>5, KeysOf DEF Handle
  <2>2. CASE TurnTells(key, base)
    <3>1. CASE stack' = base
      BY <3>1
    <3>2. CASE stack' = AddAll("claims", ClaimsFor(volumes[key])) \o base
      <4>1. ClaimsFor(volumes[key]) \in SUBSET Claims
        BY DEF ClaimsFor, PendingClaims
      <4> QED
        BY <1>2, <3>2, <4>1
    <3>3. CASE volumes[key] # None /\ volumes[key].claim # None
               /\ stack' = AddAll("claims", {volumes[key].claim}) \o base
      <4>1. volumes[key].claim \in Claims
        BY <1>0, <2>1, <3>3, RefTypes
      <4> QED
        BY <1>2, <3>3, <4>1
    <3> QED
      BY <2>2, <3>1, <3>2, <3>3 DEF TurnTells
  <2> QED
    BY <1>0, <1>3, <2>1, <2>2, VolumeTurn, TurnsShrink
<1>6. CASE q = "provisioning"
  <2>1. key \in Claims /\ ReconcileProvisioning(key, base) /\ UNCHANGED boundTo
    BY <1>6, KeysOf DEF Handle
  <2>2. CASE TurnProvisions(key, base)
    BY <1>1, <2>2 DEF TurnProvisions, ProvisionFrame
  <2> QED
    BY <1>0, <1>3, <2>1, <2>2, ProvisioningTurn, TurnsShrink
<1> QED
  BY <1>4, <1>5, <1>6 DEF Queues

LEMMA TimerRoom ==
  ASSUME BatchSuffices, TypeInv, BInv, QueueType', stack' \in Seq(Frames),
         NEW q \in Queues, TimerFires(q)
  PROVE  Room'
<1>1. CASE queue[q] = << >>
  <2>1. stack' = << >>
    BY <1>1 DEF TimerFires, Return
  <2> QED
    BY <2>1, EmptyIs, FreshRoom
<1>2. CASE queue[q] # << >>
  <2> DEFINE next == [op |-> "next", queue |-> q]
             base == <<next>>
  <2>1. /\ Handle(q, Head(queue[q]), base) /\ Head(queue[q]) \in Keys[q]
        /\ Range(base) = {next} /\ next.op = "next" /\ Turning(q, base)
    BY <1>2, TimerTurn
  <2> HIDE DEF base, next
  <2>2. base \in Seq(Frames)
    BY <2>1 DEF Turning
  <2>3. \A f \in Range(stack') : f.op = "loop" => f \in Range(base)
    BY <2>1, <2>2, TurnLoops
  <2>4. \A f \in Range(stack') : f.op # "loop"
    BY <2>1, <2>3
  <2> QED
    BY <2>4, FreshRoom
<1> QED
  BY <1>1, <1>2

LEMMA AnnouncedRoom ==
  ASSUME BatchSuffices, QueueType', stack' \in Seq(Frames), Announces(<< >>)
  PROVE  Room'
<1> DEFINE empty == << >>
<1>1. empty \in Seq(Frames) /\ Range(empty) = {} /\ Announces(empty)
  BY EmptyIs
<1> HIDE DEF empty
<1>2. \A f \in Range(stack') : f.op = "loop" => f \in Range(empty)
  BY <1>1, AnnouncedLoops
<1>3. \A f \in Range(stack') : f.op # "loop"
  BY <1>1, <1>2
<1> QED
  BY <1>3, FreshRoom

LEMMA RunRoom ==
  ASSUME BatchSuffices, TypeInv, BInv, QueueType', stack' \in Seq(Frames), Room, Run
  PROVE  Room'
<1> DEFINE frame == Head(stack)
           rest == Tail(stack)
<1>1. ~Idle
  BY DEF Run
<1>2. CASE frame.op = "deliver" /\ DeliverStep(frame, rest)
  BY <1>1, <1>2, DeliverRoom
<1>3. CASE frame.op = "loop" /\ LoopStep(frame, rest)
  BY <1>1, <1>3, LoopRoom
<1>4. CASE frame.op = "next" /\ AfterNext(frame, rest)
  BY <1>1, <1>4, NextRoom
<1>5. CASE frame.op = "addAll" /\ AddAllStep(frame, rest)
  BY <1>1, <1>5, AddAllRoom
<1>6. CASE frame.op = "matching" /\ Matching(frame, rest) /\ UNCHANGED queue
  BY <1>1, <1>6, MatchingRoom
<1>7. CASE frame.op = "provision" /\ Provision(frame.claim, frame.read, rest)
           /\ UNCHANGED queue
  BY <1>1, <1>7, ProvisionRoom
<1>8. CASE frame.op = "bind" /\ BindStep(frame, rest)
  BY <1>1, <1>8, BindRoom
<1> QED
  BY <1>2, <1>3, <1>4, <1>5, <1>6, <1>7, <1>8 DEF Run

LEMMA StepRoom ==
  ASSUME BatchSuffices, TypeInv, BInv, TypeInv', Room, [Next]_vars
  PROVE  Room'
<1>0. QueueType' /\ stack' \in Seq(Frames)
  BY DEF TypeInv
<1>1. CASE UNCHANGED vars
  <2>1. UNCHANGED <<claims, volumes, queue, stack>>
    BY <1>1 DEF vars, store
  <2>2. UNCHANGED store
    BY <2>1 DEF store
  <2>3. \A q : Hidden(q)' <=> Hidden(q)
    BY <2>1, <2>2, SameOpen DEF Hidden, OpenIn
  <2>4. /\ \A f : Writer(f)' <=> Writer(f)
        /\ \A q, f : Carrier(q, f)' <=> Carrier(q, f)
        /\ \A q, f : Ender(q, f)' <=> Ender(q, f)
    BY <2>1, <2>2, SameOpen DEF Writer, Carrier, Ender, OpenIn, Unwritten
  <2>5. ASSUME NEW f, NEW over, Roomy(f, over) PROVE Roomy(f, over)'
    BY <2>1, <2>2, <2>3, <2>4, <2>5, SameOpen, LongestStays, DebtStays DEF Roomy
  <2>6. ASSUME NEW frames, frames = stack PROVE RoomBelow({}, frames)'
    BY <2>5, <2>6 DEF Room, RoomBelow, Over
  <2> QED
    BY <2>1, <2>6, RoomIs
<1>2. ASSUME NEW event, Notice(event) PROVE Room'
  <2>1. Says(event, << >>)
    BY <1>2 DEF Notice, Says
  <2>2. Announces(<< >>)
    BY <2>1 DEF Announces
  <2> QED
    BY <1>0, <2>2, AnnouncedRoom
<1>3. ASSUME NEW p \in Pods, PodStep(p) PROVE Room'
  BY <1>2, <1>3, PodNotice
<1>4. ASSUME NEW s \in DOMAIN StorageClasses, CreateClass(s) \/ DeleteClass(s) PROVE Room'
  BY <1>2, <1>4, ClassNotice
<1>5. CASE UserStep
  <2>1. UserWrite
    BY <1>5, UserWrites
  <2>2. Announces(<< >>)
    BY <2>1, WroteAnnounces DEF UserWrite, Announces
  <2> QED
    BY <1>0, <2>2, AnnouncedRoom
<1> QED
  BY <1>0, <1>1, <1>3, <1>4, <1>5, RunRoom, TimerRoom DEF Next, UserStep, PodStep

LEMMA InitRoom == Init => Room
BY DEF Init, Room, RoomBelow

-------------------------------------------------------------------------------
(* Bindings stay *)

LEMMA QuietIsSteady == UNCHANGED store => Steady
BY DEF Steady, Good, store

LEMMA ClaimIsSteady ==
  ASSUME StoreType, NEW c \in Claims, NEW new, new # None,
         claims' = [claims EXCEPT ![c] = new], UNCHANGED volumes,
         Good(c) => new.volume = claims[c].volume
  PROVE  Steady
<1>1. claims'[c] = new /\ \A d \in Claims : d # c => claims'[d] = claims[d]
  BY DEF StoreType
<1> QED
  BY <1>1 DEF Steady, Good

LEMMA VolumeIsSteady ==
  ASSUME StoreType, NEW v \in Names, NEW new,
         volumes' = [volumes EXCEPT ![v] = new], UNCHANGED claims,
         new = None \/ ~Settled(v)
  PROVE  Steady
<1>1. volumes'[v] = new /\ \A u \in Names : u # v => volumes'[u] = volumes[u]
  BY DEF StoreType
<1>2. \A c \in Claims : Good(c) => claims[c].volume \in Names /\ Settled(claims[c].volume)
  BY GoodIsSettled
<1> QED
  BY <1>1, <1>2 DEF Steady, Good

LEMMA GoneIsSteady ==
  ASSUME StoreType, NEW c \in Claims, claims' = [claims EXCEPT ![c] = None], UNCHANGED volumes
  PROVE  Steady
<1>1. claims'[c] = None /\ \A d \in Claims : d # c => claims'[d] = claims[d]
  BY DEF StoreType
<1> QED
  BY <1>1 DEF Steady, Good

LEMMA TurnSteady ==
  ASSUME TypeInv, NEW q \in Queues, NEW key \in Keys[q], NEW base \in Seq(Frames),
         Handle(q, key, base)
  PROVE  Steady
<1>0. StoreType /\ None \notin Claimed
  BY NoneAssumption DEF TypeInv, Claimed
<1>1. CASE q = "claims"
  <2>1. key \in Claims /\ ReconcileClaim(key, base)
    BY <1>1, KeysOf DEF Handle
  <2>2. CASE TurnWaits(key, base) \/ TurnRests(key, base)
    <3>1. UNCHANGED store
      BY <2>2 DEF TurnWaits, TurnRests
    <3> QED
      BY <3>1, QuietIsSteady
  <2>3. CASE TurnGivesUp(key, base)
    <3>1. /\ ~Good(key) /\ claims[key] \in Claimed
          /\ claims' = [claims EXCEPT ![key] = ToPending(claims[key])] /\ UNCHANGED volumes
      BY <1>0, <2>1, <2>3, RefTypes DEF TurnGivesUp, Dirty, WroteClaim
    <3>2. ToPending(claims[key]) \in Claimed
      BY <3>1, ClaimTypes
    <3> QED
      BY <1>0, <2>1, <3>1, <3>2, ClaimIsSteady
  <2>4. CASE TurnRetakes(key, base)
    <3>1. /\ claims[key].volume \in Names /\ ~Settled(claims[key].volume)
      BY <1>0, <2>1, <2>4, RefTypes DEF TurnRetakes, Dirty, Settled
    <3>2. /\ volumes' = [volumes EXCEPT ![claims[key].volume] =
                                    ToBoundVolume(volumes[claims[key].volume], key)]
          /\ UNCHANGED claims
      BY <2>4 DEF TurnRetakes, WroteVolume
    <3> QED
      BY <1>0, <3>1, <3>2, VolumeIsSteady
  <2>5. ASSUME NEW v \in Names, TurnTakes(key, v, base) PROVE Steady
    <3>1. ~Settled(v)
      BY <2>5 DEF TurnTakes, Candidates, Fits, Settled
    <3>2. /\ volumes' = [volumes EXCEPT ![v] = ToBoundVolume(volumes[v], key)]
          /\ UNCHANGED claims
      BY <2>5 DEF TurnTakes, WroteVolume
    <3> QED
      BY <1>0, <3>1, <3>2, VolumeIsSteady
  <2> QED
    BY <1>0, <2>1, <2>2, <2>3, <2>4, <2>5, ClaimTurn
<1>2. CASE q = "volumes"
  <2>1. key \in Names /\ ReconcileVolume(key, base) /\ UNCHANGED boundTo
    BY <1>2, KeysOf DEF Handle
  <2>2. CASE TurnTells(key, base)
    BY <2>2, QuietIsSteady DEF TurnTells
  <2>3. CASE TurnDeletes(key, base) \/ TurnReleases(key, base)
    <3>1. ~Settled(key)
      BY <2>3 DEF TurnDeletes, TurnReleases, Orphan, Settled
    <3> QED
      BY <1>0, <2>1, <2>3, <3>1, VolumeIsSteady DEF TurnDeletes, TurnReleases, WroteVolume
  <2> QED
    BY <1>0, <2>1, <2>2, <2>3, VolumeTurn
<1>3. CASE q = "provisioning"
  <2>1. key \in Claims /\ ReconcileProvisioning(key, base) /\ UNCHANGED boundTo
    BY <1>3, KeysOf DEF Handle
  <2>2. CASE TurnProvisions(key, base)
    BY <2>2, QuietIsSteady DEF TurnProvisions
  <2>3. CASE TurnDefaults(key, base)
    <3> DEFINE new == WithClass(claims[key])
    <3>1. claims[key] # None /\ claims[key] \in Claimed
      BY <1>0, <2>1, <2>3, RefTypes DEF TurnDefaults
    <3>2. new \in Claimed /\ new.volume = claims[key].volume
      BY <1>0, <2>1, <3>1, ClaimTypes, ReadIs DEF WithClass
    <3>3. claims' = [claims EXCEPT ![key] = new] /\ UNCHANGED volumes
      BY <2>3 DEF TurnDefaults, WroteClaim
    <3> HIDE DEF new
    <3> QED
      BY <1>0, <2>1, <3>2, <3>3, ClaimIsSteady
  <2> QED
    BY <1>0, <2>1, <2>2, <2>3, ProvisioningTurn
<1> QED
  BY <1>1, <1>2, <1>3 DEF Queues

LEMMA ProvisionSteady ==
  ASSUME TypeInv, NEW c \in Claims, NEW read \in Claimed, NEW base, Provision(c, read, base)
  PROVE  Steady
<1> DEFINE v == DynamicName[c]
           new == DynamicVolume(read)
<1>1. CASE Return(base)
  BY <1>1, QuietIsSteady DEF Return
<1>2. CASE ~Return(base)
  <2>1. volumes[v] = None /\ SetVolume("Created", v, new, base) /\ v \in Names
    BY <1>2 DEF Provision, Names
  <2>2. volumes' = [volumes EXCEPT ![v] = new] /\ UNCHANGED claims
    BY <2>1 DEF SetVolume
  <2>3. ~Settled(v) /\ StoreType
    BY <2>1 DEF Settled, TypeInv
  <2> HIDE DEF v, new
  <2> QED
    BY <2>1, <2>2, <2>3, VolumeIsSteady
<1> QED
  BY <1>1, <1>2

LEMMA BindSteady ==
  ASSUME TypeInv, BInv, ~Idle, Head(stack).op = "bind", BindStep(Head(stack), Tail(stack))
  PROVE  Steady
<1> DEFINE frame == Head(stack)
           base == Tail(stack)
           next == [frame EXCEPT !.written = TRUE]
           new == ToBoundClaim(frame.read, frame.volume)
<1>1. /\ frame \in Range(stack) /\ frame.claim \in Claims /\ frame.volume \in Names
      /\ frame.read \in Claimed /\ BindMeans(frame)
  BY HeadIs, BindsKnown
<1>2. CASE frame.written
  BY <1>2, QuietIsSteady DEF BindStep, Enqueue, Return
<1>3. CASE ~frame.written
  <2>1. SetClaim("Updated", frame.claim, new, <<next>> \o base)
    BY <1>3 DEF BindStep
  <2>2. claims[frame.claim] # None /\ claims[frame.claim].volume = None /\ ~Good(frame.claim)
    BY <1>1, <1>3 DEF BindMeans, Good
  <2>3. claims' = [claims EXCEPT ![frame.claim] = new] /\ UNCHANGED volumes
    BY <2>1, <2>2 DEF SetClaim
  <2>4. new # None /\ StoreType
    <3>1. new \in ClaimValues
      BY <1>1 DEF ToBoundClaim, Claimed, ClaimValues
    <3> QED
      BY <3>1, NoneAssumption DEF TypeInv
  <2> HIDE DEF new, frame
  <2> QED
    BY <1>1, <2>2, <2>3, <2>4, ClaimIsSteady
<1> QED
  BY <1>2, <1>3

LEMMA RunSteady ==
  ASSUME TypeInv, BInv, Run
  PROVE  Steady
<1> DEFINE frame == Head(stack)
           rest == Tail(stack)
<1>1. ~Idle /\ frame \in Frames /\ rest \in Seq(Frames)
  BY HeadIs DEF Run
<1>2. CASE frame.op = "deliver" /\ DeliverStep(frame, rest)
  <2>1. UNCHANGED store
    BY <1>2 DEF DeliverStep, HandleProvisioning, HandleBinding, HandlePod, Enqueue, Return
  <2> QED
    BY <2>1, QuietIsSteady
<1>3. CASE frame.op = "loop" /\ LoopStep(frame, rest)
  <2> DEFINE q == frame.queue
             loop == Loop(q, frame.left - 1)
             base == <<loop>> \o rest
  <2>1. q \in Queues /\ frame.left \in Nat
    BY <1>1, <1>3, FrameKinds DEF LoopFrames
  <2>2. CASE queue[q] # << >> /\ frame.left > 0
    <3>1. /\ queue' = [queue EXCEPT ![q] = Tail(queue[q])]
          /\ Handle(q, Head(queue[q]), base)
      BY <1>3, <2>2 DEF LoopStep
    <3>2. loop \in Frames
      <4>1. frame.left - 1 \in Nat
        BY <2>1, <2>2
      <4> QED
        BY <2>1, <4>1, LoopTypes
    <3>3. base \in Seq(Frames)
      <4> HIDE DEF loop, rest
      <4> QED
        BY <1>1, <3>2, PushIs
    <3>4. Head(queue[q]) \in Keys[q]
      BY <2>1, <2>2, <3>1, PoppedIs DEF Popped
    <3> HIDE DEF base, q
    <3> QED
      BY <2>1, <3>1, <3>3, <3>4, TurnSteady
  <2>3. CASE ~(queue[q] # << >> /\ frame.left > 0)
    BY <1>3, <2>3, QuietIsSteady DEF LoopStep, Return
  <2> QED
    BY <2>2, <2>3
<1>4. CASE frame.op = "next" /\ AfterNext(frame, rest)
  BY <1>4, QuietIsSteady DEF AfterNext, Return
<1>5. CASE frame.op = "addAll" /\ AddAllStep(frame, rest)
  BY <1>5, QuietIsSteady DEF AddAllStep, Enqueue, Return
<1>6. CASE frame.op = "matching" /\ Matching(frame, rest)
  BY <1>6, QuietIsSteady DEF Matching, Return
<1>7. CASE frame.op = "provision" /\ Provision(frame.claim, frame.read, rest)
  <2>1. frame \in ProvisionFrames
    BY <1>1, <1>7, FrameKinds
  <2>2. frame.claim \in Claims /\ frame.read \in Claimed
    BY <2>1 DEF ProvisionFrames
  <2> QED
    BY <1>7, <2>2, ProvisionSteady
<1>8. CASE frame.op = "bind" /\ BindStep(frame, rest)
  BY <1>1, <1>8, BindSteady
<1> QED
  BY <1>2, <1>3, <1>4, <1>5, <1>6, <1>7, <1>8 DEF Run

LEMMA StepSteady ==
  ASSUME TypeInv, BInv, [Next]_vars
  PROVE  Steady
<1>0. StoreType
  BY DEF TypeInv
<1>1. CASE UNCHANGED vars
  BY <1>1, QuietIsSteady DEF vars, store
<1>2. ASSUME NEW q \in Queues, TimerFires(q) PROVE Steady
  <2>1. CASE queue[q] = << >>
    BY <1>2, <2>1, QuietIsSteady DEF TimerFires, Return
  <2>2. CASE queue[q] # << >>
    <3> DEFINE base == <<[op |-> "next", queue |-> q]>>
    <3>1. Handle(q, Head(queue[q]), base) /\ Head(queue[q]) \in Keys[q] /\ Turning(q, base)
      BY <1>2, <2>2, TimerTurn
    <3> HIDE DEF base
    <3> QED
      BY <3>1, TurnSteady DEF Turning
  <2> QED
    BY <2>1, <2>2
<1>3. ASSUME NEW event, Notice(event) PROVE Steady
  BY <1>3, QuietIsSteady DEF Notice, store
<1>4. ASSUME NEW p \in Pods, PodStep(p) PROVE Steady
  BY <1>3, <1>4, PodNotice
<1>5. ASSUME NEW s \in DOMAIN StorageClasses, CreateClass(s) \/ DeleteClass(s) PROVE Steady
  BY <1>3, <1>5, ClassNotice
<1>6. CASE UserStep
  <2>1. UserWrite
    BY <1>6, UserWrites
  <2>2. ASSUME NEW v \in Names, NEW new, WroteVolume("Created", v, new, None, << >>),
               volumes[v] = None
        PROVE  Steady
    <3>1. ~Settled(v)
      BY <2>2 DEF Settled
    <3> QED
      BY <1>0, <2>2, <3>1, VolumeIsSteady DEF WroteVolume
  <2>3. ASSUME NEW v \in Names, WroteVolume("Deleted", v, None, volumes[v].claim, << >>)
        PROVE  Steady
    BY <1>0, <2>3, VolumeIsSteady DEF WroteVolume
  <2>4. ASSUME NEW c \in Claims, NEW new \in Claimed, claims[c] = None,
               WroteClaim("Created", c, new, new.volume, << >>)
        PROVE  Steady
    <3>1. new # None /\ ~Good(c)
      BY <2>4, NoneAssumption DEF Good, Claimed
    <3> QED
      BY <1>0, <2>4, <3>1, ClaimIsSteady DEF WroteClaim
  <2>5. ASSUME NEW c \in Claims, WroteClaim("Deleted", c, None, claims[c].volume, << >>)
        PROVE  Steady
    BY <1>0, <2>5, GoneIsSteady DEF WroteClaim
  <2> QED
    BY <2>1, <2>2, <2>3, <2>4, <2>5 DEF UserWrite
<1> QED
  BY <1>1, <1>2, <1>4, <1>5, <1>6, RunSteady DEF Next, UserStep, PodStep

-------------------------------------------------------------------------------
(* Theorems *)

\* Under BatchSuffices, no immediate loop runs out of turns while a key in its
\* queue needs one, and so what is wrong with a binding is put right before the
\* call stack is empty.
THEOREM BindingsInductive ==
  ASSUME BatchSuffices
  PROVE  Spec => [](IInv /\ BInv /\ Room)
<1>1. Init => IInv /\ BInv /\ Room
  BY InitIInv, InitBInv, InitRoom
<1>2. IInv /\ BInv /\ Room /\ [Next]_vars => (IInv /\ BInv /\ Room)'
  <2> SUFFICES ASSUME IInv, BInv, Room, [Next]_vars PROVE IInv' /\ BInv' /\ Room'
    OBVIOUS
  <2>1. IInv'
    BY StepKeeps
  <2>2. TypeInv /\ TypeInv'
    BY <2>1 DEF IInv
  <2>3. NotStranded
    BY <2>2, RoomNotStranded
  <2>4. BInv'
    BY <2>2, <2>3, StepBInv
  <2>5. Room'
    BY <2>2, StepRoom
  <2> QED
    BY <2>1, <2>4, <2>5
<1> QED
  BY <1>1, <1>2, PTL DEF Spec

\* Between calls both sides of a binding agree, a volume has one claim and a
\* claim one volume, and VolumeState knows it (volumeBindingReconciler).
THEOREM BindingsDoAgree ==
  ASSUME BatchSuffices
  PROVE  Spec => []BindingsAgree
<1>1. IInv /\ BInv => BindingsAgree
  <2> SUFFICES ASSUME IInv, BInv, Idle
               PROVE  /\ \A c \in Claims :
                           /\ claims[c] # None /\ claims[c].volume # None =>
                                /\ claims[c].bound
                                /\ Exists(volumes, claims[c].volume)
                                /\ volumes[claims[c].volume].claim = c
                           /\ boundTo[c] = IF claims[c] = None THEN None ELSE claims[c].volume
                      /\ \A v \in Names :
                           volumes[v] # None /\ volumes[v].claim # None =>
                             /\ Exists(claims, volumes[v].claim)
                             /\ claims[volumes[v].claim].volume = v
    BY DEF BindingsAgree
  <2>1. TypeInv /\ StoreType
    BY DEF IInv, TypeInv
  <2>2. /\ \A x : ~ClaimGoes(x, stack)
        /\ \A x, y, w : ~Binding(x, y, w, stack)
        /\ \A c \in Claims : ~Dirty(c)
        /\ \A v \in Names : ~Orphan(v)
    BY <2>1, IdleIs
  <2>3. ASSUME NEW c \in Claims, claims[c] # None, claims[c].volume # None
        PROVE  Good(c) /\ claims[c].bound
    BY <2>1, <2>2, <2>3, ReadIs DEF Dirty
  <2>4. ASSUME NEW c \in Claims
        PROVE  boundTo[c] = IF claims[c] = None THEN None ELSE claims[c].volume
    BY <2>2, <2>3 DEF BInv, Known
  <2>5. ASSUME NEW v \in Names, volumes[v] # None, volumes[v].claim # None
        PROVE  claims[volumes[v].claim] # None /\ claims[volumes[v].claim].volume = v
    <3>1. volumes[v].claim \in Claims
      BY <2>1, <2>5, RefTypes
    <3> QED
      BY <2>2, <2>5, <3>1 DEF BInv, OneVolume, Orphan
  <2> QED
    BY <2>3, <2>4, <2>5 DEF Good, Exists
<1> QED
  BY <1>1, BindingsInductive, PTL

\* A claim that is bound and its volume stay with each other as long as both are
\* there.
THEOREM BindingsAreStable ==
  ASSUME BatchSuffices
  PROVE  Spec => BindingIsStable
<1>1. IInv /\ BInv /\ IInv' /\ [Next]_vars =>
        [\A c \in Claims :
           LET v == claims[c].volume
           IN  /\ claims[c] # None /\ claims[c].bound
               /\ Exists(volumes, v) /\ volumes[v].claim = c
               /\ claims'[c] # None /\ volumes'[v] # None
               => /\ claims'[c].volume = v /\ claims'[c].bound
                  /\ volumes'[v].claim = c]_vars
  <2> SUFFICES ASSUME IInv, BInv, IInv', [Next]_vars, NEW c \in Claims,
                      claims[c] # None, Exists(volumes, claims[c].volume),
                      volumes[claims[c].volume].claim = c,
                      claims'[c] # None, volumes'[claims[c].volume] # None
               PROVE  /\ claims'[c].volume = claims[c].volume /\ claims'[c].bound
                      /\ volumes'[claims[c].volume].claim = c
    OBVIOUS
  <2>1. TypeInv /\ StoreType' /\ Good(c) /\ claims[c].volume # None
    BY DEF IInv, TypeInv, Good, Exists
  <2>2. Steady
    BY <2>1, StepSteady
  <2>3. claims'[c].volume = claims[c].volume /\ volumes'[claims[c].volume].claim = c
    BY <2>1, <2>2 DEF Steady
  <2>4. claims'[c] \in Claimed
    BY <2>1 DEF StoreType
  <2> QED
    BY <2>1, <2>3, <2>4 DEF Claimed
<1> QED
  BY <1>1, BindingsInductive, PTL DEF Spec, BindingIsStable

-------------------------------------------------------------------------------
(* No claim left behind *)

LEMMA SameMatch ==
  ASSUME NEW c, NEW v, UNCHANGED <<pods, classes, gone>>, claims'[c] = claims[c],
         volumes'[v] = volumes[v]
  PROVE  Match(c, v)' <=> Match(c, v)
BY DEF Match, Able, Held, Waits, HasConsumer, Scheduled, Fits

LEMMA SameLack ==
  ASSUME NEW c, UNCHANGED <<pods, classes, gone, volumes>>, claims'[c] = claims[c]
  PROVE  Lack(c)' <=> Lack(c)
<1>1. Candidates(claims[c])' = Candidates(claims[c])
  BY DEF Candidates, Fits
<1>2. Able(c)' <=> Able(c)
  BY DEF Able, Held, Waits, HasConsumer, Scheduled
<1> QED
  BY <1>1, <1>2 DEF Lack

LEMMA SameBrings ==
  ASSUME NEW c, UNCHANGED classes, claims'[c] = claims[c]
  PROVE  /\ \A f, v : BringsMatch(f, c, v)' <=> BringsMatch(f, c, v)
         /\ \A f : BringsLack(f, c)' <=> BringsLack(f, c)
BY DEF BringsMatch, BringsLack, TellsPod, Waits

LEMMA MatchCarried ==
  ASSUME NEW c, NEW v, UNCHANGED classes, claims'[c] = claims[c], MatchSeen(c, v),
         InQueue("claims", c) => MatchSeen(c, v)',
         InQueue("volumes", v) => MatchSeen(c, v)',
         \A f \in Range(stack) :
           BringsMatch(f, c, v) => f \in Range(stack') \/ MatchSeen(c, v)'
  PROVE  MatchSeen(c, v)'
<1>1. \A f : BringsMatch(f, c, v)' <=> BringsMatch(f, c, v)
  BY SameBrings
<1>2. ASSUME NEW f \in Range(stack), BringsMatch(f, c, v) PROVE MatchSeen(c, v)'
  <2>1. CASE f \in Range(stack')
    BY <1>1, <1>2, <2>1 DEF MatchSeen
  <2> QED
    BY <1>2, <2>1
<1> QED
  BY <1>2 DEF MatchSeen

LEMMA LackCarried ==
  ASSUME NEW c, UNCHANGED classes, claims'[c] = claims[c], LackSeen(c),
         InQueue("provisioning", c) => LackSeen(c)',
         \A f \in Range(stack) : BringsLack(f, c) => f \in Range(stack') \/ LackSeen(c)'
  PROVE  LackSeen(c)'
<1>1. \A f : BringsLack(f, c)' <=> BringsLack(f, c)
  BY SameBrings
<1>2. ASSUME NEW f \in Range(stack), BringsLack(f, c) PROVE LackSeen(c)'
  <2>1. CASE f \in Range(stack')
    BY <1>1, <1>2, <2>1 DEF LackSeen
  <2> QED
    BY <1>2, <2>1
<1> QED
  BY <1>2 DEF LackSeen

\* A step that writes nothing keeps what is seen.
LEMMA QuietNone ==
  ASSUME NoneLeft, UNCHANGED <<claims, volumes, pods, classes, gone>>,
         \A c \in Claims, v \in Names : Match(c, v) /\ MatchSeen(c, v) => MatchSeen(c, v)',
         \A c \in Claims : Lack(c) /\ LackSeen(c) => LackSeen(c)'
  PROVE  NoneLeft'
<1>1. \A c, v : Match(c, v)' <=> Match(c, v)
  BY SameMatch
<1>2. \A c : Lack(c)' <=> Lack(c)
  BY SameLack
<1> QED
  BY <1>1, <1>2 DEF NoneLeft

\* The innermost frame passes on what it brings.
LEMMA HeadPasses ==
  ASSUME NoneLeft, UNCHANGED <<store, pods, classes, gone>>, NEW head, NEW below,
         Range(stack) = {head} \cup below, below \subseteq Range(stack'),
         \A q \in Queues : \A k : InQueue(q, k) => InQueue(q, k)',
         \A c \in Claims, v \in Names : Match(c, v) /\ BringsMatch(head, c, v) => MatchSeen(c, v)',
         \A c \in Claims : Lack(c) /\ BringsLack(head, c) => LackSeen(c)'
  PROVE  NoneLeft'
<1>0. UNCHANGED <<claims, volumes, pods, classes, gone>>
  BY DEF store
<1>q. "claims" \in Queues /\ "volumes" \in Queues /\ "provisioning" \in Queues
  BY KeysOf
<1>1. ASSUME NEW c \in Claims, NEW v \in Names, Match(c, v), MatchSeen(c, v)
      PROVE  MatchSeen(c, v)'
  <2>1. InQueue("claims", c) \/ InQueue("volumes", v) => MatchSeen(c, v)'
    BY <1>q DEF MatchSeen
  <2>2. \A f \in Range(stack) :
          BringsMatch(f, c, v) => f \in Range(stack') \/ MatchSeen(c, v)'
    BY <1>1
  <2>3. UNCHANGED classes /\ claims'[c] = claims[c]
    BY <1>0
  <2> QED
    BY <1>1, <2>1, <2>2, <2>3, MatchCarried
<1>2. ASSUME NEW c \in Claims, Lack(c), LackSeen(c) PROVE LackSeen(c)'
  <2>1. InQueue("provisioning", c) => LackSeen(c)'
    BY <1>q DEF LackSeen
  <2>2. \A f \in Range(stack) : BringsLack(f, c) => f \in Range(stack') \/ LackSeen(c)'
    BY <1>2
  <2>3. UNCHANGED classes /\ claims'[c] = claims[c]
    BY <1>0
  <2> QED
    BY <1>2, <2>1, <2>2, <2>3, LackCarried
<1> QED
  BY <1>0, <1>1, <1>2, QuietNone

-------------------------------------------------------------------------------
(* Steps that take no turn and write nothing leave no claim behind *)

LEMMA BringsNothing ==
  ASSUME NEW f, f.op \in {"loop", "next", "matching"} \/ (f.op = "bind" /\ f.written)
  PROVE  \A c, v : ~BringsMatch(f, c, v) /\ ~BringsLack(f, c)
BY DEF BringsMatch, BringsLack, Untold, Unwritten

LEMMA HeadEnds ==
  ASSUME TypeInv, NoneLeft, ~Idle, UNCHANGED <<store, pods, classes, gone>>,
         Range(Tail(stack)) \subseteq Range(stack'),
         \A q \in Queues : \A k : InQueue(q, k) => InQueue(q, k)',
         \A c \in Claims, v \in Names : ~BringsMatch(Head(stack), c, v),
         \A c \in Claims : ~BringsLack(Head(stack), c)
  PROVE  NoneLeft'
<1>1. Range(stack) = {Head(stack)} \cup Range(Tail(stack))
  BY HeadIs
<1> QED
  BY <1>1, HeadPasses

LEMMA QueuesStay ==
  ASSUME UNCHANGED queue
  PROVE  \A q, k : InQueue(q, k) => InQueue(q, k)'
BY DEF InQueue

LEMMA Entering ==
  ASSUME QueueType, NEW q \in Queues, NEW key \in Keys[q], NEW rest \in Seq(Frames),
         Enqueue(q, key, rest)
  PROVE  Entered(q, key, rest)
BY EnqueueIs DEF Entered, Kept

\* addAll() passes on the keys that it has not added yet.
LEMMA AddsLeft ==
  ASSUME TypeInv, NoneLeft, ~Idle, UNCHANGED <<pods, classes, gone>>,
         NEW a \in {"provisioning", "claims"}, NEW key \in Claims, NEW keys \in SUBSET Claims,
         Head(stack).op = "addAll", Head(stack).queue = a, Head(stack).keys = keys,
         Enqueue(a, key, AddAll(a, keys \ {key}) \o Tail(stack))
  PROVE  NoneLeft'
<1> DEFINE frame == Head(stack)
           rest == Tail(stack)
           left == keys \ {key}
           base == AddAll(a, left) \o rest
           new == AddAllFrame(a, left)
<1>1. /\ rest \in Seq(Frames) /\ Range(stack) = {frame} \cup Range(rest)
      /\ frame.op = "addAll" /\ frame.queue = a /\ frame.keys = keys
  BY HeadIs
<1>2. QueueType /\ a \in Queues /\ key \in Keys[a] /\ left \in SUBSET Claims
  BY KeysOf DEF TypeInv
<1>3. Enqueue(a, key, base)
  OBVIOUS
<1> HIDE DEF frame, rest
<1>4. Adding(new, left, rest, base) /\ new.queue = a
  <2> HIDE DEF left
  <2> QED
    BY <1>1, <1>2, AddingAll
<1> HIDE DEF new, base
<1>5. /\ base \in Seq(Frames) /\ Range(rest) \subseteq Range(base)
      /\ new.op = "addAll" /\ new.queue = a /\ new.keys = left
      /\ left # {} => base = <<new>> \o rest
      /\ new \in Frames
  BY <1>4 DEF Adding
<1>6. left # {} => new \in Range(base)
  <2> SUFFICES ASSUME left # {} PROVE new \in Range(base)
    OBVIOUS
  <2>1. base = <<new>> \o rest
    BY <1>5
  <2>2. Range(<<new>> \o rest) = {new} \cup Range(rest)
    BY <1>1, <1>5, PushIs
  <2> QED
    BY <2>1, <2>2
<1>7. Entered(a, key, base)
  BY <1>2, <1>3, <1>5, Entering
<1>8. /\ InQueue(a, key)'
      /\ \A c \in keys : c = key \/ (c \in new.keys /\ new \in Range(stack'))
  BY <1>5, <1>6, <1>7 DEF Entered, Kept
<1>9. ASSUME NEW c \in Claims, NEW v \in Names, BringsMatch(frame, c, v) PROVE MatchSeen(c, v)'
  <2>1. a = "claims" /\ c \in keys
    BY <1>1, <1>9 DEF BringsMatch, Untold, Unwritten
  <2>2. BringsMatch(new, c, v)' <=> c \in new.keys
    BY <1>5, <2>1 DEF BringsMatch, Untold, Unwritten, new
  <2> QED
    BY <1>8, <2>1, <2>2 DEF MatchSeen
<1>10. ASSUME NEW c \in Claims, BringsLack(frame, c) PROVE LackSeen(c)'
  <2>1. a = "provisioning" /\ c \in keys
    BY <1>1, <1>10 DEF BringsLack, Untold
  <2>2. BringsLack(new, c)' <=> c \in new.keys
    BY <1>5, <2>1 DEF BringsLack, Untold, new
  <2> QED
    BY <1>8, <2>1, <2>2 DEF LackSeen
<1>11. Kept(rest)
  BY <1>5, <1>7 DEF Entered, Kept
<1> QED
  BY <1>1, <1>9, <1>10, <1>11, HeadPasses DEF Kept

LEMMA AddAllLeft ==
  ASSUME TypeInv, NoneLeft, ~Idle, Head(stack).op = "addAll",
         AddAllStep(Head(stack), Tail(stack)), UNCHANGED <<pods, classes, gone>>
  PROVE  NoneLeft'
<1>1. /\ Head(stack).queue \in {"provisioning", "claims"} /\ Head(stack).keys \in SUBSET Claims
  BY HeadIs, FrameKinds DEF AddAllFrames
<1>2. PICK a \in {"provisioning", "claims"} : a = Head(stack).queue
  BY <1>1
<1>3. PICK keys \in SUBSET Claims : keys = Head(stack).keys
  BY <1>1
<1>4. PICK key \in keys : Enqueue(a, key, AddAll(a, keys \ {key}) \o Tail(stack))
  BY <1>2, <1>3 DEF AddAllStep
<1> QED
  BY <1>2, <1>3, <1>4, AddsLeft

\* The loop ends, or processNext, or the look at a volume.
LEMMA EndsLeft ==
  ASSUME TypeInv, NoneLeft, ~Idle, UNCHANGED <<queue, pods, classes, gone>>,
         \/ Head(stack).op = "loop" /\ Return(Tail(stack))
         \/ Head(stack).op = "next" /\ AfterNext(Head(stack), Tail(stack))
         \/ Head(stack).op = "matching" /\ Matching(Head(stack), Tail(stack))
  PROVE  NoneLeft'
<1> DEFINE rest == Tail(stack)
           loop == Loop(Head(stack).queue, MaxBatch)
<1>0. rest \in Seq(Frames) /\ Head(stack) \in Frames
  BY HeadIs
<1>1. UNCHANGED store
  BY DEF Return, AfterNext, Matching
<1>2. Range(rest) \subseteq Range(stack')
  <2>1. CASE Return(rest)
    BY <2>1 DEF Return
  <2>2. CASE Head(stack).op = "next" /\ stack' = <<loop>> \o rest
    <3>1. Head(stack).queue \in Queues /\ MaxBatch \in Nat
      BY <1>0, <2>2, FrameKinds, BoundsAssumption DEF NextFrames
    <3>2. loop \in Frames
      BY <3>1, LoopTypes
    <3> HIDE DEF loop, rest
    <3> QED
      BY <1>0, <2>2, <3>2, PushIs
  <2>3. CASE Head(stack).op = "matching"
             /\ stack' = AddAll("claims", ClaimsFor(volumes[Head(stack).volume])) \o rest
    <3>1. ClaimsFor(volumes[Head(stack).volume]) \in SUBSET Claims
      BY DEF ClaimsFor, PendingClaims
    <3> HIDE DEF rest
    <3> QED
      BY <1>0, <2>3, <3>1, AddAllIs
  <2> QED
    BY <2>1, <2>2, <2>3 DEF AfterNext, Matching, Return
<1>3. \A q \in Queues : \A k : InQueue(q, k) => InQueue(q, k)'
  BY QueuesStay
<1>4. \A c, v : ~BringsMatch(Head(stack), c, v) /\ ~BringsLack(Head(stack), c)
  BY BringsNothing
<1> QED
  BY <1>1, <1>2, <1>3, <1>4, HeadEnds

-------------------------------------------------------------------------------
(* Deliveries leave no claim behind *)

LEMMA KeptBare ==
  ASSUME NEW rest, UNCHANGED <<store, queue>>, stack' = rest
  PROVE  Kept(rest)
BY QueuesStay DEF Kept

LEMMA HearsBinding ==
  ASSUME QueueType, NEW event \in Events, NEW rest \in Seq(Frames), HandleBinding(event, rest)
  PROVE  Heard(event, rest)
<1>1. CASE event.kind = "Volume" /\ event.op # "Deleted"
  <2> DEFINE frame == MatchingFrame(event.name)
             after == <<frame>> \o rest
  <2>1. event.name \in Names /\ frame \in Frames /\ Enqueue("volumes", event.name, after)
    BY <1>1, ToBinding
  <2> HIDE DEF frame
  <2>2. after \in Seq(Frames) /\ Range(after) = {frame} \cup Range(rest)
    BY <2>1, PushIs
  <2> HIDE DEF after
  <2>3. Entered("volumes", event.name, after)
    BY <2>1, <2>2, KeysOf, Entering
  <2>4. Kept(rest) /\ InQueue("volumes", event.name)'
    BY <2>2, <2>3 DEF Entered, Kept
  <2> QED
    BY <1>1, <2>4 DEF Heard, TellsClaim, TellsVolume, TellsPod
<1>2. CASE event.kind = "Volume" /\ event.op = "Deleted"
  <2>1. CASE event.ref = None
    <3>1. Kept(rest)
      BY <1>2, <2>1, ToBinding, KeptBare, NoneAssumption
    <3>2. \A c \in Claims : ~TellsClaim(event, c)
      BY <1>2, <2>1, NoneAssumption DEF TellsClaim
    <3> QED
      BY <1>2, <3>1, <3>2 DEF Heard, TellsVolume, TellsPod
  <2>2. CASE event.ref # None
    <3>1. event.ref \in Claims /\ Enqueue("claims", event.ref, rest)
      BY <1>2, <2>2, ToBinding
    <3>2. Entered("claims", event.ref, rest)
      BY <3>1, KeysOf, Entering
    <3> QED
      BY <1>2, <3>2 DEF Heard, Entered, TellsClaim, TellsVolume, TellsPod
  <2> QED
    BY <2>1, <2>2
<1>3. CASE event.kind = "Claim" /\ event.op # "Deleted"
  <2>1. event.name \in Claims /\ Enqueue("claims", event.name, rest)
    BY <1>3, ToBinding
  <2>2. Entered("claims", event.name, rest)
    BY <2>1, KeysOf, Entering
  <2> QED
    BY <1>3, <2>2 DEF Heard, Entered, TellsClaim, TellsVolume, TellsPod
<1>4. CASE event.kind = "Claim" /\ event.op = "Deleted"
  <2>1. CASE event.ref = None
    <3>1. Kept(rest)
      BY <1>4, <2>1, ToBinding, KeptBare, NoneAssumption
    <3>2. \A v \in Names : ~TellsVolume(event, v)
      BY <1>4, <2>1, NoneAssumption DEF TellsVolume
    <3> QED
      BY <1>4, <3>1, <3>2 DEF Heard, TellsClaim, TellsPod
  <2>2. CASE event.ref # None
    <3>1. event.ref \in Names /\ Enqueue("volumes", event.ref, rest)
      BY <1>4, <2>2, ToBinding
    <3>2. Entered("volumes", event.ref, rest)
      BY <3>1, KeysOf, Entering
    <3> QED
      BY <1>4, <3>2 DEF Heard, Entered, TellsClaim, TellsVolume, TellsPod
  <2> QED
    BY <2>1, <2>2
<1>5. CASE event.kind = "Pod"
  <2>1. CASE claims[event.ref] # None /\ Waits(claims[event.ref].class)
    <3>1. event.ref \in Claims /\ Enqueue("claims", event.ref, rest)
      BY <1>5, <2>1, ToBinding
    <3>2. Entered("claims", event.ref, rest)
      BY <3>1, KeysOf, Entering
    <3> QED
      BY <1>5, <3>2 DEF Heard, Entered, TellsClaim, TellsVolume, TellsPod
  <2>2. CASE ~(claims[event.ref] # None /\ Waits(claims[event.ref].class))
    <3>1. Kept(rest)
      BY <1>5, <2>2, ToBinding, KeptBare
    <3> QED
      BY <1>5, <2>2, <3>1 DEF Heard, TellsClaim, TellsVolume, TellsPod
  <2> QED
    BY <2>1, <2>2
<1> QED
  BY <1>1, <1>2, <1>3, <1>4, <1>5, ToBinding

\* Provisioning collects every claim that lacks a volume.
LEMMA ToProvisioningLeft ==
  ASSUME TypeInv, NoneLeft, ~Idle, UNCHANGED <<pods, classes, gone>>,
         NEW frame \in DeliverFrames, Head(stack) = frame, frame.to = 1,
         HandleProvisioning(frame.event, After(frame, Tail(stack)))
  PROVE  NoneLeft'
<1> DEFINE rest == Tail(stack)
           after == After(frame, rest)
           next == Onward(frame)
<1>1. rest \in Seq(Frames) /\ Range(stack) = {frame} \cup Range(rest)
  BY HeadIs
<1> HIDE DEF rest
<1>2. /\ frame.event \in Events /\ after \in Seq(Frames) /\ frame.op = "deliver"
      /\ Range(rest) \subseteq Range(after)
      /\ frame.event.kind # "StorageClass" => Range(after) = {next} \cup Range(rest)
      /\ next.op = "deliver" /\ next.to = 2 /\ next.event = frame.event
  <2>1. frame.event.kind # "StorageClass" => Range(after) = {next} \cup Range(rest)
    BY <1>1, AfterIs
  <2>2. /\ frame.event \in Events /\ after \in Seq(Frames) /\ frame.op = "deliver"
        /\ Range(rest) \subseteq Range(after)
    BY <1>1, AfterIs
  <2>3. next.op = "deliver" /\ next.to = frame.to + 1 /\ next.event = frame.event
    BY <1>1, AfterIs
  <2> HIDE DEF next, after
  <2> QED
    BY <2>1, <2>2, <2>3
<1>3. HandleProvisioning(frame.event, after)
  BY DEF rest
<1> HIDE DEF after, next
<1>4. UNCHANGED <<store, queue>>
  BY <1>2, <1>3, ToProvisioning
<1>5. PICK keys \in SUBSET Claims :
        /\ stack' = AddAll("provisioning", keys) \o after
        /\ frame.event.kind = "Claim" /\ frame.event.op # "Deleted" => keys = {frame.event.name}
        /\ frame.event.kind = "Pod" => keys = {frame.event.ref}
        /\ frame.event.kind \in {"StorageClass", "Volume"} => keys = PendingClaims
  BY <1>2, <1>3, ToProvisioning
<1> DEFINE new == AddAllFrame("provisioning", keys)
<1>6. /\ Range(after) \subseteq Range(stack')
      /\ new.op = "addAll" /\ new.queue = "provisioning" /\ new.keys = keys
      /\ keys # {} => new \in Range(stack')
  BY <1>2, <1>5, AddAllIs
<1> HIDE DEF new
<1>7. ASSUME NEW c \in Claims, NEW v \in Names, BringsMatch(frame, c, v)
      PROVE  MatchSeen(c, v)'
  <2>1. /\ frame.event.kind # "StorageClass"
        /\ \/ TellsClaim(frame.event, c) \/ TellsVolume(frame.event, v)
           \/ TellsPod(frame.event, c)
    BY <1>2, <1>7 DEF BringsMatch, TellsClaim, TellsVolume, TellsPod, Unwritten
  <2>2. next \in Range(stack')
    BY <1>2, <1>6, <2>1
  <2>3. UNCHANGED <<claims, classes>>
    BY <1>4 DEF store
  <2>4. BringsMatch(next, c, v)
    BY <1>2, <2>1 DEF BringsMatch, Untold
  <2>5. BringsMatch(next, c, v)'
    BY <2>3, <2>4, SameBrings DEF next
  <2> QED
    BY <2>2, <2>5 DEF MatchSeen, next
<1>8. ASSUME NEW c \in Claims, Lack(c), BringsLack(frame, c)
      PROVE  LackSeen(c)'
  <2>1. c \in PendingClaims
    <3>1. StoreType
      BY DEF TypeInv
    <3> QED
      BY <1>8, <3>1, ReadIs DEF PendingClaims, Lack, Able
  <2>2. TellsProvisioning(frame.event, c)
    BY <1>2, <1>8 DEF BringsLack
  <2>3. c \in keys
    BY <1>5, <2>1, <2>2 DEF TellsProvisioning
  <2>4. new \in Range(stack') /\ BringsLack(new, c)'
    BY <1>6, <2>3 DEF BringsLack, new
  <2> QED
    BY <2>4 DEF LackSeen, new
<1>9. Range(rest) \subseteq Range(stack')
  BY <1>2, <1>6
<1>10. UNCHANGED store /\ \A q, k : InQueue(q, k) => InQueue(q, k)'
  BY <1>4, QueuesStay
<1> QED
  BY <1>1, <1>7, <1>8, <1>9, <1>10, HeadPasses

LEMMA ToBindingLeft ==
  ASSUME TypeInv, NoneLeft, ~Idle, UNCHANGED <<pods, classes, gone>>,
         NEW frame \in DeliverFrames, Head(stack) = frame, frame.to = 2,
         HandleBinding(frame.event, After(frame, Tail(stack)))
  PROVE  NoneLeft'
<1> DEFINE rest == Tail(stack)
           after == After(frame, rest)
<1>1. rest \in Seq(Frames) /\ Range(stack) = {frame} \cup Range(rest) /\ QueueType
  BY HeadIs DEF TypeInv
<1> HIDE DEF rest
<1>2. /\ frame.event \in Events /\ after \in Seq(Frames) /\ frame.op = "deliver"
      /\ Range(rest) \subseteq Range(after)
  BY <1>1, AfterIs
<1>3. HandleBinding(frame.event, after)
  BY DEF rest
<1> HIDE DEF after
<1>4. Heard(frame.event, after)
  BY <1>1, <1>2, <1>3, HearsBinding
<1>5. Kept(rest)
  BY <1>2, <1>4 DEF Heard, Kept
<1>6. ASSUME NEW c \in Claims, NEW v \in Names, Match(c, v), BringsMatch(frame, c, v)
      PROVE  MatchSeen(c, v)'
  <2>1. \/ TellsClaim(frame.event, c) \/ TellsVolume(frame.event, v)
        \/ TellsPod(frame.event, c)
    BY <1>2, <1>6 DEF BringsMatch, Unwritten
  <2>2. claims[c] # None
    BY <1>6 DEF Match, Able
  <2>3. InQueue("claims", c)' \/ InQueue("volumes", v)'
    BY <1>4, <2>1, <2>2 DEF Heard
  <2> QED
    BY <2>3 DEF MatchSeen
<1>7. ASSUME NEW c \in Claims PROVE ~BringsLack(frame, c)
  BY <1>2 DEF BringsLack, Untold
<1> QED
  BY <1>1, <1>5, <1>6, <1>7, HeadPasses DEF Kept

LEMMA DeliverLeft ==
  ASSUME TypeInv, NoneLeft, ~Idle, Head(stack).op = "deliver",
         DeliverStep(Head(stack), Tail(stack)), UNCHANGED <<pods, classes, gone>>
  PROVE  NoneLeft'
<1>1. PICK frame \in DeliverFrames : frame = Head(stack)
  BY HeadIs, FrameKinds
<1> DEFINE rest == Tail(stack)
           to == Subscribers(frame.event)
<1>2. /\ rest \in Seq(Frames) /\ Range(stack) = {frame} \cup Range(rest)
  BY <1>1, HeadIs
<1>3. \/ to[frame.to] = "Provisioning" /\ HandleProvisioning(frame.event, After(frame, rest))
      \/ to[frame.to] = "Binding" /\ HandleBinding(frame.event, After(frame, rest))
      \/ /\ to[frame.to] = "PodVolume"
         /\ Return(After(frame, rest)) /\ UNCHANGED queue
  BY <1>1 DEF DeliverStep, After, Onward
<1>4. \/ frame.to = 1 /\ to[frame.to] = "Provisioning"
      \/ frame.to = 2 /\ to[frame.to] = "Binding"
      \/ /\ frame.to = 3 /\ to[frame.to] = "PodVolume"
         /\ After(frame, rest) = rest /\ frame.op = "deliver"
  <2> HIDE DEF rest
  <2>1. frame.to \in {1, 2, 3} /\ frame.op = "deliver"
    BY <1>2, AfterIs
  <2>2. frame.to = 1 => to[frame.to] = "Provisioning"
    BY <1>2, AfterIs
  <2>3. frame.to = 2 => to[frame.to] = "Binding"
    BY <1>2, AfterIs
  <2>4. frame.to = 3 => to[frame.to] = "PodVolume" /\ After(frame, rest) = rest
    BY <1>2, AfterIs
  <2> QED
    BY <2>1, <2>2, <2>3, <2>4
<1> HIDE DEF to
<1>5. CASE frame.to = 3 /\ UNCHANGED <<store, queue>> /\ stack' = rest /\ frame.op = "deliver"
  <2>1. \A c, v : ~BringsMatch(frame, c, v) /\ ~BringsLack(frame, c)
    BY <1>5 DEF BringsMatch, BringsLack, Untold, Unwritten
  <2>2. Range(rest) \subseteq Range(stack')
    BY <1>5
  <2>3. UNCHANGED store /\ \A q, k : InQueue(q, k) => InQueue(q, k)'
    BY <1>5, QueuesStay
  <2> QED
    BY <1>1, <2>1, <2>2, <2>3, HeadEnds
<1>6. CASE frame.to = 1 /\ HandleProvisioning(frame.event, After(frame, rest))
  BY <1>1, <1>6, ToProvisioningLeft
<1>7. CASE frame.to = 2 /\ HandleBinding(frame.event, After(frame, rest))
  BY <1>1, <1>7, ToBindingLeft
<1> HIDE DEF rest
<1> QED
  BY <1>3, <1>4, <1>5, <1>6, <1>7 DEF Return

-------------------------------------------------------------------------------
(* Writes leave no claim behind *)

LEMMA Announced ==
  /\ \A c : ClaimAnnounced(c) => LackSeen(c) /\ \A v : MatchSeen(c, v)
  /\ \A v : VolumeAnnounced(v) =>
       /\ \A c : LackSeen(c)
       /\ volumes[v] # None => \A c : MatchSeen(c, v)
<1>1. ASSUME NEW c, ClaimAnnounced(c) PROVE LackSeen(c) /\ \A v : MatchSeen(c, v)
  <2>1. PICK f \in Range(stack) :
          /\ Untold(f, 1) /\ Untold(f, 2)
          /\ f.event.kind = "Claim" /\ f.event.op # "Deleted" /\ f.event.name = c
    BY <1>1 DEF ClaimAnnounced
  <2>2. BringsLack(f, c) /\ \A v : BringsMatch(f, c, v)
    BY <2>1 DEF BringsLack, BringsMatch, TellsProvisioning, TellsClaim
  <2> QED
    BY <2>2 DEF LackSeen, MatchSeen
<1>2. ASSUME NEW v, VolumeAnnounced(v)
      PROVE  /\ \A c : LackSeen(c)
             /\ volumes[v] # None => \A c : MatchSeen(c, v)
  <2>1. PICK f \in Range(stack) :
          /\ Untold(f, 1) /\ Untold(f, 2) /\ f.event.kind = "Volume"
          /\ volumes[v] # None => f.event.op # "Deleted" /\ f.event.name = v
    BY <1>2 DEF VolumeAnnounced
  <2>2. /\ \A c : BringsLack(f, c)
        /\ volumes[v] # None => \A c : BringsMatch(f, c, v)
    BY <2>1 DEF BringsLack, BringsMatch, TellsProvisioning, TellsVolume
  <2> QED
    BY <2>2 DEF LackSeen, MatchSeen
<1> QED
  BY <1>1, <1>2

LEMMA AnnouncedNext ==
  /\ \A c : ClaimAnnounced(c)' => LackSeen(c)' /\ \A v : MatchSeen(c, v)'
  /\ \A v : VolumeAnnounced(v)' =>
       /\ \A c : LackSeen(c)'
       /\ volumes'[v] # None => \A c : MatchSeen(c, v)'
<1>1. (/\ \A c : ClaimAnnounced(c) => LackSeen(c) /\ \A v : MatchSeen(c, v)
       /\ \A v : VolumeAnnounced(v) =>
            /\ \A c : LackSeen(c)
            /\ volumes[v] # None => \A c : MatchSeen(c, v))'
  BY Announced, PTL
<1> QED
  BY <1>1

LEMMA ClaimWriteLeft ==
  ASSUME NoneLeft, NEW c \in Claims, UNCHANGED <<volumes, pods, classes, gone>>,
         \A d \in Claims : d # c => claims'[d] = claims[d],
         claims'[c] = None \/ ClaimAnnounced(c)',
         \A d \in Claims : d # c =>
           /\ InQueue("claims", d) => InQueue("claims", d)'
           /\ InQueue("provisioning", d) => InQueue("provisioning", d)',
         \A v \in Names : InQueue("volumes", v) => InQueue("volumes", v)',
         \A f \in Range(stack) :
           \/ f \in Range(stack')
           \/ \A d \in Claims : d # c => ~BringsLack(f, d) /\ \A v : ~BringsMatch(f, d, v)
  PROVE  NoneLeft'
<1>1. ASSUME NEW d \in Claims, NEW v \in Names, Match(d, v)' PROVE MatchSeen(d, v)'
  <2>1. CASE d = c
    <3>1. claims'[c] # None
      BY <1>1, <2>1 DEF Match, Able
    <3> QED
      BY <2>1, <3>1, AnnouncedNext
  <2>2. CASE d # c
    <3>1. claims'[d] = claims[d] /\ volumes'[v] = volumes[v]
      BY <2>2
    <3>2. MatchSeen(d, v)
      BY <1>1, <3>1, SameMatch DEF NoneLeft
    <3>3. \A f \in Range(stack) :
            BringsMatch(f, d, v) => f \in Range(stack') \/ MatchSeen(d, v)'
      BY <2>2
    <3>4. /\ InQueue("claims", d) => MatchSeen(d, v)'
          /\ InQueue("volumes", v) => MatchSeen(d, v)'
      BY <2>2 DEF MatchSeen
    <3> QED
      BY <3>1, <3>2, <3>3, <3>4, MatchCarried
  <2> QED
    BY <2>1, <2>2
<1>2. ASSUME NEW d \in Claims, Lack(d)' PROVE LackSeen(d)'
  <2>1. CASE d = c
    <3>1. claims'[c] # None
      BY <1>2, <2>1 DEF Lack, Able
    <3> QED
      BY <2>1, <3>1, AnnouncedNext
  <2>2. CASE d # c
    <3>1. claims'[d] = claims[d]
      BY <2>2
    <3>2. LackSeen(d)
      BY <1>2, <3>1, SameLack DEF NoneLeft
    <3>3. \A f \in Range(stack) :
            BringsLack(f, d) => f \in Range(stack') \/ LackSeen(d)'
      BY <2>2
    <3>4. InQueue("provisioning", d) => LackSeen(d)'
      BY <2>2 DEF LackSeen
    <3> QED
      BY <3>1, <3>2, <3>3, <3>4, LackCarried
  <2> QED
    BY <2>1, <2>2
<1> QED
  BY <1>1, <1>2 DEF NoneLeft

LEMMA VolumeWriteLeft ==
  ASSUME NoneLeft, NEW v \in Names, UNCHANGED <<claims, pods, classes, gone>>,
         \A u \in Names : u # v => volumes'[u] = volumes[u],
         VolumeAnnounced(v)',
         \A c \in Claims, u \in Names : u # v /\ Match(c, u) /\ InQueue("claims", c) =>
           MatchSeen(c, u)',
         \A u \in Names : u # v /\ InQueue("volumes", u) => InQueue("volumes", u)',
         \A f \in Range(stack) :
           f \in Range(stack') \/ \A c \in Claims, u \in Names : ~BringsMatch(f, c, u)
  PROVE  NoneLeft'
<1>1. ASSUME NEW c \in Claims, NEW u \in Names, Match(c, u)' PROVE MatchSeen(c, u)'
  <2>1. CASE u = v
    <3>1. volumes'[v] # None
      BY <1>1, <2>1 DEF Match, Fits
    <3> QED
      BY <2>1, <3>1, AnnouncedNext
  <2>2. CASE u # v
    <3>1. claims'[c] = claims[c] /\ volumes'[u] = volumes[u]
      BY <2>2
    <3>2. Match(c, u) /\ MatchSeen(c, u)
      BY <1>1, <3>1, SameMatch DEF NoneLeft
    <3>3. \A f \in Range(stack) :
            BringsMatch(f, c, u) => f \in Range(stack') \/ MatchSeen(c, u)'
      OBVIOUS
    <3>4. /\ InQueue("claims", c) => MatchSeen(c, u)'
          /\ InQueue("volumes", u) => MatchSeen(c, u)'
      BY <2>2, <3>2 DEF MatchSeen
    <3> QED
      BY <3>1, <3>2, <3>3, <3>4, MatchCarried
  <2> QED
    BY <2>1, <2>2
<1>2. \A c \in Claims : LackSeen(c)'
  BY AnnouncedNext
<1> QED
  BY <1>1, <1>2 DEF NoneLeft

-------------------------------------------------------------------------------
(* Turns leave no claim behind *)

\* What a turn leaves of the frames above which it runs, and of the queues
LEMMA TurnKeeps ==
  ASSUME TypeInv, NEW q \in Queues, Popped(q), NEW base, Turning(q, base)
  PROVE  /\ base \in Seq(Frames)
         /\ \A f \in Range(stack) :
              f \in Range(base) \/ \A c, v : ~BringsMatch(f, c, v) /\ ~BringsLack(f, c)
         /\ \A p \in Queues : \A k : InQueue(p, k) =>
              InQueue(p, k)' \/ (p = q /\ k = Head(queue[q]))
<1>1. ASSUME NEW f \in Range(stack), f \notin Range(base)
      PROVE  \A c, v : ~BringsMatch(f, c, v) /\ ~BringsLack(f, c)
  BY <1>1, BringsNothing DEF Turning, IsLoop
<1> QED
  BY <1>1, PoppedIs DEF Turning

LEMMA QuietTurnLeft ==
  ASSUME TypeInv, NoneLeft, UNCHANGED <<store, pods, classes, gone>>,
         NEW q \in Queues, Popped(q), NEW base, Turning(q, base),
         Range(base) \subseteq Range(stack'), NEW key, key = Head(queue[q]),
         q = "claims" => \A v \in Names : Match(key, v) => MatchSeen(key, v)',
         q = "volumes" => \A c \in Claims : Match(c, key) => MatchSeen(c, key)',
         q = "provisioning" => (Lack(key) => LackSeen(key)')
  PROVE  NoneLeft'
<1>1. /\ \A f \in Range(stack) :
           f \in Range(stack') \/ \A c, v : ~BringsMatch(f, c, v) /\ ~BringsLack(f, c)
      /\ \A p \in Queues : \A k : InQueue(p, k) => InQueue(p, k)' \/ (p = q /\ k = key)
  BY TurnKeeps
<1>2. UNCHANGED <<claims, volumes, pods, classes, gone>>
  BY DEF store
<1>3. ASSUME NEW c \in Claims, NEW v \in Names, Match(c, v), MatchSeen(c, v)
      PROVE  MatchSeen(c, v)'
  <2>1. InQueue("claims", c) => MatchSeen(c, v)'
    BY <1>1, <1>3, KeysOf DEF MatchSeen
  <2>2. InQueue("volumes", v) => MatchSeen(c, v)'
    BY <1>1, <1>3, KeysOf DEF MatchSeen
  <2>3. \A f \in Range(stack) :
          BringsMatch(f, c, v) => f \in Range(stack') \/ MatchSeen(c, v)'
    BY <1>1
  <2>4. UNCHANGED classes /\ claims'[c] = claims[c]
    BY <1>2
  <2> QED
    BY <1>3, <2>1, <2>2, <2>3, <2>4, MatchCarried
<1>4. ASSUME NEW c \in Claims, Lack(c), LackSeen(c) PROVE LackSeen(c)'
  <2>1. InQueue("provisioning", c) => LackSeen(c)'
    BY <1>1, <1>4, KeysOf DEF LackSeen
  <2>2. \A f \in Range(stack) : BringsLack(f, c) => f \in Range(stack') \/ LackSeen(c)'
    BY <1>1
  <2>3. UNCHANGED classes /\ claims'[c] = claims[c]
    BY <1>2
  <2> QED
    BY <1>4, <2>1, <2>2, <2>3, LackCarried
<1> QED
  BY <1>2, <1>3, <1>4, QuietNone

\* The event of a write is the innermost frame.
LEMMA EventOnTop ==
  ASSUME NEW event \in Events, NEW below \in Seq(Frames),
         stack' = <<Delivery(event)>> \o below
  PROVE  /\ Delivery(event) \in Range(stack') /\ Range(below) \subseteq Range(stack')
         /\ Untold(Delivery(event), 1) /\ Untold(Delivery(event), 2)
         /\ Delivery(event).event = event
<1>1. /\ Delivery(event) \in Frames /\ Untold(Delivery(event), 1)
      /\ Untold(Delivery(event), 2) /\ Delivery(event).event = event
  BY DeliveryIs
<1>2. PICK frame \in Frames : frame = Delivery(event)
  BY <1>1
<1>3. Range(<<frame>> \o below) = {frame} \cup Range(below)
  BY PushIs
<1> QED
  BY <1>1, <1>2, <1>3

LEMMA ClaimOnTop ==
  ASSUME TypeInv, NEW c \in Claims, NEW op \in Ops, NEW ref \in Names \cup {None}, NEW new,
         NEW below \in Seq(Frames), WroteClaim(op, c, new, ref, below),
         op = "Deleted" => new = None
  PROVE  /\ UNCHANGED volumes /\ \A d \in Claims : d # c => claims'[d] = claims[d]
         /\ Range(below) \subseteq Range(stack')
         /\ claims'[c] = None \/ ClaimAnnounced(c)'
<1> DEFINE event == Event("Claim", op, c, ref)
<1>1. /\ event \in Events /\ event.kind = "Claim" /\ event.op = op /\ event.name = c
  BY EventIs DEF Event
<1>2. stack' = <<Delivery(event)>> \o below
  BY DEF WroteClaim
<1> HIDE DEF event
<1>3. PICK frame \in Range(stack') :
        Untold(frame, 1) /\ Untold(frame, 2) /\ frame.event = event
  BY <1>1, <1>2, EventOnTop
<1>4. Range(below) \subseteq Range(stack')
  BY <1>1, <1>2, EventOnTop
<1>5. (Untold(frame, 1) /\ Untold(frame, 2))'
  BY <1>3 DEF Untold
<1>6. op # "Deleted" => ClaimAnnounced(c)'
  BY <1>1, <1>3, <1>5 DEF ClaimAnnounced
<1>7. /\ UNCHANGED volumes /\ \A d \in Claims : d # c => claims'[d] = claims[d]
      /\ claims'[c] = new
  BY DEF WroteClaim, TypeInv, StoreType
<1> QED
  BY <1>4, <1>6, <1>7

LEMMA VolumeOnTop ==
  ASSUME TypeInv, NEW v \in Names, NEW op \in Ops, NEW ref \in Claims \cup {None}, NEW new,
         NEW below \in Seq(Frames), WroteVolume(op, v, new, ref, below),
         op = "Deleted" => new = None
  PROVE  /\ UNCHANGED claims /\ \A u \in Names : u # v => volumes'[u] = volumes[u]
         /\ Range(below) \subseteq Range(stack') /\ VolumeAnnounced(v)'
<1> DEFINE event == Event("Volume", op, v, ref)
<1>1. /\ event \in Events /\ event.kind = "Volume" /\ event.op = op /\ event.name = v
  BY EventIs DEF Event
<1>2. stack' = <<Delivery(event)>> \o below
  BY DEF WroteVolume
<1> HIDE DEF event
<1>3. PICK frame \in Range(stack') :
        Untold(frame, 1) /\ Untold(frame, 2) /\ frame.event = event
  BY <1>1, <1>2, EventOnTop
<1>4. Range(below) \subseteq Range(stack')
  BY <1>1, <1>2, EventOnTop
<1>5. (Untold(frame, 1) /\ Untold(frame, 2))'
  BY <1>3 DEF Untold
<1>6. /\ UNCHANGED claims /\ \A u \in Names : u # v => volumes'[u] = volumes[u]
      /\ volumes'[v] = new
  BY DEF WroteVolume, TypeInv, StoreType
<1>7. VolumeAnnounced(v)'
  BY <1>1, <1>3, <1>5, <1>6 DEF VolumeAnnounced
<1> QED
  BY <1>4, <1>6, <1>7

-------------------------------------------------------------------------------
(* One turn of each controller *)

\* What a frame below the event of a write brings is unheard of still.
LEMMA BelowEvent ==
  ASSUME NEW frame \in Frames, NEW base \in Seq(Frames)
  PROVE  /\ <<frame>> \o base \in Seq(Frames)
         /\ Range(<<frame>> \o base) = {frame} \cup Range(base)
BY PushIs

LEMMA ClaimTurnLeft ==
  ASSUME TypeInv, NoneLeft, UNCHANGED <<pods, classes, gone>>, Popped("claims"),
         NEW base, Turning("claims", base), NEW c \in Claims, c = Head(queue["claims"]),
         ReconcileClaim(c, base)
  PROVE  NoneLeft'
<1>0. "claims" \in Queues /\ StoreType /\ "Updated" \in Ops /\ "Updated" # "Deleted"
  BY KeysOf DEF TypeInv, Ops
<1>1. /\ base \in Seq(Frames)
      /\ \A f \in Range(stack) :
           f \in Range(base) \/ \A d, v : ~BringsMatch(f, d, v) /\ ~BringsLack(f, d)
      /\ \A p \in Queues : \A k : InQueue(p, k) =>
           InQueue(p, k)' \/ (p = "claims" /\ k = c)
  BY <1>0, TurnKeeps
<1>2. CASE TurnWaits(c, base)
  <2>1. UNCHANGED <<store, pods, classes, gone>> /\ Range(base) \subseteq Range(stack')
    BY <1>2 DEF TurnWaits
  <2>2. \A v \in Names : ~Match(c, v)
    BY <1>2 DEF TurnWaits, Match, Able, Candidates
  <2> QED
    BY <1>0, <2>1, <2>2, QuietTurnLeft
<1>3. CASE TurnRests(c, base)
  <2> DEFINE frame == BindFrame(c, claims[c], claims[c].volume, TRUE)
  <2>1. Good(c) /\ UNCHANGED store /\ stack' = <<frame>> \o base
    BY <1>3 DEF TurnRests
  <2>2. frame \in Frames
    <3>1. claims[c] \in Claimed /\ claims[c].volume \in Names
      BY <1>0, <2>1, RefTypes DEF Good
    <3> QED
      BY <1>1, <3>1, BindFrameTypes
  <2> HIDE DEF frame
  <2>3. Range(base) \subseteq Range(stack')
    BY <1>1, <2>1, <2>2, BelowEvent
  <2>4. \A v \in Names : ~Match(c, v)
    BY <2>1, NoneAssumption DEF Good, Match, Able
  <2>5. UNCHANGED <<store, pods, classes, gone>>
    BY <2>1
  <2> QED
    BY <1>0, <2>3, <2>4, <2>5, QuietTurnLeft
<1>4. CASE TurnGivesUp(c, base)
  <2>1. WroteClaim("Updated", c, ToPending(claims[c]), None, base)
    BY <1>4 DEF TurnGivesUp
  <2>2. /\ UNCHANGED volumes /\ \A d \in Claims : d # c => claims'[d] = claims[d]
        /\ Range(base) \subseteq Range(stack')
        /\ claims'[c] = None \/ ClaimAnnounced(c)'
    BY <1>0, <1>1, <2>1, ClaimOnTop
  <2>3. /\ \A d \in Claims : d # c =>
             /\ InQueue("claims", d) => InQueue("claims", d)'
             /\ InQueue("provisioning", d) => InQueue("provisioning", d)'
        /\ \A v \in Names : InQueue("volumes", v) => InQueue("volumes", v)'
    BY <1>1, KeysOf
  <2>4. \A f \in Range(stack) :
          \/ f \in Range(stack')
          \/ \A d \in Claims : d # c => ~BringsLack(f, d) /\ \A v : ~BringsMatch(f, d, v)
    BY <1>1, <2>2
  <2>5. UNCHANGED <<volumes, pods, classes, gone>>
    BY <2>2
  <2> QED
    BY <2>2, <2>3, <2>4, <2>5, ClaimWriteLeft
<1>5. ASSUME NEW v \in Names, NEW frame \in Frames,
             \A u \in Names : u # v /\ Match(c, u) => BringsMatch(frame, c, u),
             WroteVolume("Updated", v, ToBoundVolume(volumes[v], c), c, <<frame>> \o base),
             frame.op = "bind"
      PROVE  NoneLeft'
  <2> DEFINE below == <<frame>> \o base
             new == ToBoundVolume(volumes[v], c)
  <2>1. below \in Seq(Frames) /\ Range(below) = {frame} \cup Range(base)
    BY <1>1, BelowEvent
  <2>2. WroteVolume("Updated", v, new, c, below)
    BY <1>5
  <2> HIDE DEF below, new
  <2>3. /\ UNCHANGED claims /\ \A u \in Names : u # v => volumes'[u] = volumes[u]
        /\ Range(below) \subseteq Range(stack') /\ VolumeAnnounced(v)'
    BY <1>0, <2>1, <2>2, VolumeOnTop
  <2>4. UNCHANGED <<claims, pods, classes, gone>>
    BY <2>3
  <2>5. ASSUME NEW d \in Claims, NEW u \in Names, u # v, Match(d, u), InQueue("claims", d)
        PROVE  MatchSeen(d, u)'
    <3>1. CASE d = c
      <4>1. BringsMatch(frame, c, u)
        BY <1>5, <2>5, <3>1
      <4>2. claims'[c] = claims[c] /\ UNCHANGED classes
        BY <2>4
      <4>3. BringsMatch(frame, c, u)'
        BY <4>1, <4>2, SameBrings
      <4> QED
        BY <2>1, <2>3, <3>1, <4>3 DEF MatchSeen
    <3>2. CASE d # c
      <4>1. InQueue("claims", d)'
        BY <1>0, <1>1, <2>5, <3>2
      <4> QED
        BY <4>1 DEF MatchSeen
    <3> QED
      BY <3>1, <3>2
  <2>6. \A u \in Names : u # v /\ InQueue("volumes", u) => InQueue("volumes", u)'
    BY <1>1, KeysOf
  <2>7. \A f \in Range(stack) :
          f \in Range(stack') \/ \A d \in Claims, u \in Names : ~BringsMatch(f, d, u)
    BY <1>1, <2>1, <2>3
  <2> QED
    BY <2>3, <2>4, <2>5, <2>6, <2>7, VolumeWriteLeft
<1>6. CASE TurnRetakes(c, base)
  <2> DEFINE v == claims[c].volume
             frame == BindFrame(c, claims[c], v, TRUE)
  <2>1. /\ Dirty(c)
        /\ WroteVolume("Updated", v, ToBoundVolume(volumes[v], c), c, <<frame>> \o base)
    BY <1>6 DEF TurnRetakes
  <2>2. claims[c] \in Claimed /\ v \in Names
    BY <1>0, <2>1, RefTypes DEF Dirty
  <2>3. frame \in Frames /\ frame.op = "bind"
    <3>1. frame \in Frames
      BY <1>1, <2>2, BindFrameTypes
    <3> QED
      BY <3>1 DEF BindFrame
  <2>4. \A u \in Names : ~Match(c, u)
    BY <2>1, NoneAssumption DEF Dirty, Match, Able
  <2> HIDE DEF v, frame
  <2> QED
    BY <1>5, <2>1, <2>2, <2>3, <2>4
<1>7. ASSUME NEW v \in Names, TurnTakes(c, v, base) PROVE NoneLeft'
  <2> DEFINE frame == BindFrame(c, claims[c], v, FALSE)
  <2>1. /\ claims[c] # None
        /\ WroteVolume("Updated", v, ToBoundVolume(volumes[v], c), c, <<frame>> \o base)
    BY <1>7 DEF TurnTakes
  <2>2. claims[c] \in Claimed
    BY <1>0, <2>1, RefTypes
  <2>3. frame \in Frames /\ frame.op = "bind" /\ frame.claim = c /\ ~frame.written
    <3>1. frame \in Frames
      BY <1>1, <2>2, BindFrameTypes
    <3> QED
      BY <3>1 DEF BindFrame
  <2> HIDE DEF frame
  <2>4. \A u \in Names : BringsMatch(frame, c, u)
    BY <2>3 DEF BringsMatch, Unwritten
  <2> QED
    BY <1>5, <2>1, <2>3, <2>4
<1> QED
  BY <1>0, <1>1, <1>2, <1>3, <1>4, <1>6, <1>7, ClaimTurn

-------------------------------------------------------------------------------
LEMMA VolumeTurnLeft ==
  ASSUME TypeInv, NoneLeft, UNCHANGED <<pods, classes, gone>>, Popped("volumes"),
         NEW base, Turning("volumes", base), NEW v \in Names, v = Head(queue["volumes"]),
         ReconcileVolume(v, base), UNCHANGED boundTo
  PROVE  NoneLeft'
<1>0. "volumes" \in Queues /\ StoreType /\ "Updated" \in Ops /\ "Deleted" \in Ops
  BY KeysOf DEF TypeInv, Ops
<1>1. /\ base \in Seq(Frames)
      /\ \A f \in Range(stack) :
           f \in Range(base) \/ \A d, u : ~BringsMatch(f, d, u) /\ ~BringsLack(f, d)
      /\ \A p \in Queues : \A k : InQueue(p, k) =>
           InQueue(p, k)' \/ (p = "volumes" /\ k = v)
  BY <1>0, TurnKeeps
<1>2. CASE TurnTells(v, base)
  <2>1. UNCHANGED <<store, pods, classes, gone>>
    BY <1>2 DEF TurnTells
  <2>2. ASSUME NEW keys \in SUBSET Claims, stack' = AddAll("claims", keys) \o base,
               \A c \in Claims : Match(c, v) => c \in keys
        PROVE  NoneLeft'
    <3> DEFINE frame == AddAllFrame("claims", keys)
    <3>1. /\ Range(base) \subseteq Range(stack')
          /\ frame.op = "addAll" /\ frame.queue = "claims" /\ frame.keys = keys
          /\ keys # {} => frame \in Range(stack')
      BY <1>1, <2>2, AddAllIs
    <3> HIDE DEF frame
    <3>2. ASSUME NEW c \in Claims, Match(c, v) PROVE MatchSeen(c, v)'
      <4>1. c \in frame.keys /\ frame \in Range(stack')
        BY <2>2, <3>1, <3>2
      <4>2. BringsMatch(frame, c, v)'
        BY <3>1, <4>1 DEF BringsMatch, frame
      <4> QED
        BY <4>1, <4>2 DEF MatchSeen, frame
    <3> QED
      BY <1>0, <2>1, <3>1, <3>2, QuietTurnLeft
  <2>3. CASE volumes[v] = None /\ stack' = base
    <3>1. \A c \in Claims : ~Match(c, v)
      BY <2>3 DEF Match, Fits
    <3>2. Range(base) \subseteq Range(stack')
      BY <2>3
    <3> QED
      BY <1>0, <2>1, <3>1, <3>2, QuietTurnLeft
  <2>4. CASE volumes[v] # None /\ stack' = AddAll("claims", ClaimsFor(volumes[v])) \o base
    <3>1. ClaimsFor(volumes[v]) \in SUBSET Claims
      BY DEF ClaimsFor, PendingClaims
    <3>2. ASSUME NEW c \in Claims, Match(c, v) PROVE c \in ClaimsFor(volumes[v])
      <4>1. claims[c] # None /\ claims[c].volume = None /\ volumes[v].class = claims[c].class
        BY <3>2 DEF Match, Able, Fits
      <4>2. ~claims[c].bound
        BY <1>0, <4>1, ReadIs
      <4> QED
        BY <4>1, <4>2 DEF ClaimsFor, PendingClaims
    <3> QED
      BY <2>2, <2>4, <3>1, <3>2
  <2>5. CASE /\ volumes[v] # None /\ volumes[v].claim # None
             /\ stack' = AddAll("claims", {volumes[v].claim}) \o base
    <3>1. {volumes[v].claim} \in SUBSET Claims
      BY <1>0, <2>5, RefTypes
    <3>2. \A c \in Claims : ~Match(c, v)
      BY <2>5 DEF Match, Fits
    <3> QED
      BY <2>2, <2>5, <3>1, <3>2
  <2> QED
    BY <1>2, <2>3, <2>4, <2>5 DEF TurnTells
<1>3. ASSUME NEW op \in {"Updated", "Deleted"}, NEW ref \in Claims \cup {None}, NEW new,
             op = "Deleted" => new = None, WroteVolume(op, v, new, ref, base)
      PROVE  NoneLeft'
  <2>1. op \in Ops
    BY <1>0
  <2>2. /\ UNCHANGED claims /\ \A u \in Names : u # v => volumes'[u] = volumes[u]
        /\ Range(base) \subseteq Range(stack') /\ VolumeAnnounced(v)'
    BY <1>1, <1>3, <2>1, VolumeOnTop
  <2>3. UNCHANGED <<claims, pods, classes, gone>>
    BY <2>2
  <2>4. ASSUME NEW d \in Claims, NEW u \in Names, InQueue("claims", d) PROVE MatchSeen(d, u)'
    <3>1. InQueue("claims", d)'
      BY <1>1, <2>4, KeysOf
    <3> QED
      BY <3>1 DEF MatchSeen
  <2>5. \A u \in Names : u # v /\ InQueue("volumes", u) => InQueue("volumes", u)'
    BY <1>0, <1>1
  <2>6. \A f \in Range(stack) :
          f \in Range(stack') \/ \A d \in Claims, u \in Names : ~BringsMatch(f, d, u)
    BY <1>1, <2>2
  <2> QED
    BY <2>2, <2>3, <2>4, <2>5, <2>6, VolumeWriteLeft
<1>4. CASE TurnDeletes(v, base)
  <2>1. volumes[v].claim \in Claims \cup {None}
    BY <1>0, <1>4, RefTypes DEF TurnDeletes, Orphan
  <2>2. WroteVolume("Deleted", v, None, volumes[v].claim, base)
    BY <1>4 DEF TurnDeletes
  <2> QED
    BY <1>3, <2>1, <2>2
<1>5. CASE TurnReleases(v, base)
  <2>1. WroteVolume("Updated", v, ToReleased(volumes[v]), None, base)
    BY <1>5 DEF TurnReleases
  <2> QED
    BY <1>3, <2>1
<1> QED
  BY <1>0, <1>1, <1>2, <1>4, <1>5, VolumeTurn

LEMMA ProvisioningTurnLeft ==
  ASSUME TypeInv, NoneLeft, UNCHANGED <<pods, classes, gone>>, Popped("provisioning"),
         NEW base, Turning("provisioning", base), NEW c \in Claims,
         c = Head(queue["provisioning"]), ReconcileProvisioning(c, base), UNCHANGED boundTo
  PROVE  NoneLeft'
<1>0. "provisioning" \in Queues /\ StoreType /\ "Updated" \in Ops /\ "Updated" # "Deleted"
  BY KeysOf DEF TypeInv, Ops
<1>1. /\ base \in Seq(Frames)
      /\ \A f \in Range(stack) :
           f \in Range(base) \/ \A d, u : ~BringsMatch(f, d, u) /\ ~BringsLack(f, d)
      /\ \A p \in Queues : \A k : InQueue(p, k) =>
           InQueue(p, k)' \/ (p = "provisioning" /\ k = c)
  BY <1>0, TurnKeeps
<1>2. CASE UNCHANGED store /\ claims[c] = None /\ stack' = base
  <2>1. UNCHANGED <<store, pods, classes, gone>> /\ Range(base) \subseteq Range(stack')
    BY <1>2
  <2>2. ~Lack(c)
    BY <1>2 DEF Lack, Able
  <2> QED
    BY <1>0, <2>1, <2>2, QuietTurnLeft
<1>3. CASE /\ UNCHANGED store /\ claims[c] # None
           /\ stack' = <<ProvisionFrame(c, claims[c])>> \o base
  <2> DEFINE frame == ProvisionFrame(c, claims[c])
  <2>1. frame \in Frames /\ frame.op = "provision" /\ frame.claim = c /\ frame.read = claims[c]
    <3>1. claims[c] \in Claimed
      BY <1>0, <1>3, RefTypes
    <3> QED
      BY <3>1 DEF ProvisionFrame, Frames, ProvisionFrames
  <2>2. stack' = <<frame>> \o base
    BY <1>3
  <2> HIDE DEF frame
  <2>3. Range(base) \subseteq Range(stack') /\ frame \in Range(stack')
    BY <1>1, <2>1, <2>2, BelowEvent
  <2>4. LackSeen(c)'
    <3>1. PICK f \in Range(stack') : f = frame
      BY <2>3
    <3>2. BringsLack(f, c)
      BY <2>1, <3>1 DEF BringsLack
    <3>3. claims'[c] = claims[c] /\ UNCHANGED classes
      BY <1>3 DEF store
    <3>4. BringsLack(f, c)'
      BY <3>2, <3>3, SameBrings
    <3> QED
      BY <3>1, <3>4 DEF LackSeen
  <2>5. UNCHANGED <<store, pods, classes, gone>>
    BY <1>3
  <2> QED
    BY <1>0, <2>3, <2>4, <2>5, QuietTurnLeft
<1>4. CASE TurnDefaults(c, base)
  <2> DEFINE frame == ProvisionFrame(c, WithClass(claims[c]))
             below == <<frame>> \o base
  <2>1. claims[c] # None
        /\ WroteClaim("Updated", c, WithClass(claims[c]), claims[c].volume, below)
    BY <1>4 DEF TurnDefaults
  <2>2. frame \in Frames /\ claims[c].volume \in Names \cup {None}
    <3>1. claims[c] \in Claimed
      BY <1>0, <2>1, RefTypes
    <3>2. WithClass(claims[c]) \in Claimed /\ claims[c].volume \in Names \cup {None}
      BY <3>1, ClaimTypes DEF WithClass
    <3> QED
      BY <3>2 DEF ProvisionFrame, Frames, ProvisionFrames
  <2> HIDE DEF frame
  <2>3. below \in Seq(Frames) /\ Range(below) = {frame} \cup Range(base)
    BY <1>1, <2>2, BelowEvent
  <2> HIDE DEF below
  <2>4. /\ UNCHANGED volumes /\ \A d \in Claims : d # c => claims'[d] = claims[d]
        /\ Range(below) \subseteq Range(stack')
        /\ claims'[c] = None \/ ClaimAnnounced(c)'
    BY <1>0, <2>1, <2>2, <2>3, ClaimOnTop
  <2>5. /\ \A d \in Claims : d # c =>
             /\ InQueue("claims", d) => InQueue("claims", d)'
             /\ InQueue("provisioning", d) => InQueue("provisioning", d)'
        /\ \A v \in Names : InQueue("volumes", v) => InQueue("volumes", v)'
    BY <1>1, KeysOf
  <2>6. \A f \in Range(stack) :
          \/ f \in Range(stack')
          \/ \A d \in Claims : d # c => ~BringsLack(f, d) /\ \A v : ~BringsMatch(f, d, v)
    BY <1>1, <2>3, <2>4
  <2>7. UNCHANGED <<volumes, pods, classes, gone>>
    BY <2>4
  <2> QED
    BY <2>4, <2>5, <2>6, <2>7, ClaimWriteLeft
<1> QED
  <2>1. TurnProvisions(c, base) \/ TurnDefaults(c, base)
    BY <1>0, <1>1, ProvisioningTurn
  <2> QED
    BY <1>2, <1>3, <1>4, <2>1 DEF TurnProvisions

LEMMA HandleLeft ==
  ASSUME TypeInv, NoneLeft, UNCHANGED <<pods, classes, gone>>, NEW q \in Queues, Popped(q),
         NEW base, Turning(q, base), Handle(q, Head(queue[q]), base)
  PROVE  NoneLeft'
<1>1. Head(queue[q]) \in Keys[q]
  BY PoppedIs
<1>2. CASE q = "claims"
  <2>1. ReconcileClaim(Head(queue["claims"]), base) /\ Head(queue["claims"]) \in Claims
    BY <1>1, <1>2, KeysOf DEF Handle
  <2> QED
    BY <1>2, <2>1, ClaimTurnLeft
<1>3. CASE q = "volumes"
  <2>1. /\ ReconcileVolume(Head(queue["volumes"]), base) /\ UNCHANGED boundTo
        /\ Head(queue["volumes"]) \in Names
    BY <1>1, <1>3, KeysOf DEF Handle
  <2> QED
    BY <1>3, <2>1, VolumeTurnLeft
<1>4. CASE q = "provisioning"
  <2>1. /\ ReconcileProvisioning(Head(queue["provisioning"]), base) /\ UNCHANGED boundTo
        /\ Head(queue["provisioning"]) \in Claims
    BY <1>1, <1>4, KeysOf DEF Handle
  <2> QED
    BY <1>4, <2>1, ProvisioningTurnLeft
<1> QED
  BY <1>2, <1>3, <1>4 DEF Queues

-------------------------------------------------------------------------------
(* Every step of the controllers leaves no claim behind *)

LEMMA LoopLeft ==
  ASSUME BInv, TypeInv, NoneLeft, ~Idle, Head(stack).op = "loop",
         LoopStep(Head(stack), Tail(stack)), UNCHANGED <<pods, classes, gone>>
  PROVE  NoneLeft'
<1> DEFINE frame == Head(stack)
           rest == Tail(stack)
           q == frame.queue
           next == Loop(q, frame.left - 1)
           base == <<next>> \o rest
<1>1. /\ frame \in LoopFrames /\ q \in Queues /\ frame.left \in Nat /\ rest \in Seq(Frames)
      /\ IsLoop(frame, q) /\ Range(stack) = {frame} \cup Range(rest)
      /\ Above(frame, Range(rest)) /\ Nested(rest)
  <2>1. frame \in LoopFrames
    BY HeadIs, FrameKinds
  <2> QED
    BY <2>1, HeadIs DEF BInv, LoopFrames, IsLoop
<1>2. CASE ~(queue[q] # << >> /\ frame.left > 0)
  <2>1. Return(rest) /\ UNCHANGED queue
    BY <1>2 DEF LoopStep
  <2> QED
    BY <2>1, EndsLeft
<1>3. CASE queue[q] # << >> /\ frame.left > 0
  <2>1. /\ queue' = [queue EXCEPT ![q] = Tail(queue[q])]
        /\ Handle(q, Head(queue[q]), base)
    BY <1>3 DEF LoopStep
  <2>2. Popped(q)
    BY <1>3, <2>1 DEF Popped
  <2>3. next \in Frames /\ next.op = "loop" /\ next.queue = q
    <3>1. frame.left - 1 \in Nat
      BY <1>1, <1>3
    <3> QED
      BY <1>1, <3>1, LoopTypes DEF Loop
  <2> HIDE DEF next, q, frame
  <2>4. Above(next, Range(rest))
    BY <1>1, <2>3 DEF Above, IsLoop, Unwritten
  <2>5. base \in Seq(Frames) /\ Nested(base) /\ Range(base) = {next} \cup Range(rest)
    BY <1>1, <2>3, <2>4, PushIs
  <2> HIDE DEF base
  <2>6. Draining(q, base)
    BY <2>3, <2>5, DrainingIs DEF IsLoop
  <2>7. Turning(q, base)
    BY <1>1, <2>3, <2>5, <2>6 DEF Turning
  <2> QED
    BY <1>1, <2>1, <2>2, <2>7, HandleLeft
<1> QED
  BY <1>2, <1>3

\* A provision frame whose claim lacks a volume makes one.
LEMMA ProvisionLeft ==
  ASSUME TypeInv, NoneLeft, ~Idle, Head(stack).op = "provision",
         Provision(Head(stack).claim, Head(stack).read, Tail(stack)),
         UNCHANGED <<queue, pods, classes, gone>>
  PROVE  NoneLeft'
<1> DEFINE frame == Head(stack)
           c == frame.claim
           read == frame.read
           base == Tail(stack)
           new == DynamicVolume(read)
<1> SUFFICES ASSUME NEW v, v = DynamicName[c] PROVE NoneLeft'
  OBVIOUS
<1>1. /\ c \in Claims /\ read \in Claimed /\ base \in Seq(Frames)
      /\ Range(stack) = {frame} \cup Range(base) /\ frame.op = "provision"
  <2>1. frame \in ProvisionFrames
    BY HeadIs, FrameKinds
  <2> QED
    BY <2>1, HeadIs DEF ProvisionFrames
<1>2. \A d, u : ~BringsMatch(frame, d, u)
  BY <1>1 DEF BringsMatch, Untold, Unwritten
<1>3. CASE Return(base) /\ (~Lack(c) \/ read # claims[c])
  <2>1. \A d \in Claims : Lack(d) => ~BringsLack(frame, d)
    BY <1>1, <1>3 DEF BringsLack, Untold
  <2>2. UNCHANGED <<store, pods, classes, gone>> /\ Range(base) \subseteq Range(stack')
    BY <1>3 DEF Return
  <2>3. \A q \in Queues : \A k : InQueue(q, k) => InQueue(q, k)'
    BY QueuesStay
  <2> HIDE DEF frame, base
  <2> QED
    BY <1>1, <1>2, <2>1, <2>2, <2>3, HeadPasses
<1>4. CASE (Lack(c) /\ read = claims[c]) \/ ~Return(base)
  <2>1. /\ read.class \in classes /\ volumes[v] = None
        /\ SetVolume("Created", v, new, base)
    <3>1. CASE Lack(c) /\ read = claims[c]
      <4>1. /\ read.volume = None /\ read.class \in classes /\ ~Held(c, read)
            /\ Candidates(read) = {} /\ volumes[v] = None
        BY <3>1 DEF Lack, Able
      <4>2. ~read.bound
        BY <1>1, <4>1 DEF Claimed
      <4> QED
        BY <4>1, <4>2 DEF Provision
    <3>2. CASE ~Return(base)
      BY <3>2 DEF Provision
    <3> QED
      BY <1>4, <3>1, <3>2
  <2>2. v \in Names /\ new.claim = None /\ "Created" \in Ops /\ "Created" # "Deleted"
    BY <1>1 DEF Names, DynamicVolume, NewVolume, Ops
  <2> HIDE DEF frame, c, read, base, new
  <2>3. WroteVolume("Created", v, new, None, base)
    <3>1. WroteVolume("Created", v, new, IF "Created" = "Deleted" THEN volumes[v].claim
                                         ELSE new.claim, base)
      BY <2>1, SetVolumeIs
    <3> QED
      BY <2>2, <3>1
  <2>4. /\ UNCHANGED claims /\ \A u \in Names : u # v => volumes'[u] = volumes[u]
        /\ Range(base) \subseteq Range(stack') /\ VolumeAnnounced(v)'
    BY <1>1, <2>2, <2>3, VolumeOnTop
  <2>5. UNCHANGED <<claims, pods, classes, gone>>
    BY <2>4
  <2>6. \A p, k : InQueue(p, k) => InQueue(p, k)'
    BY QueuesStay
  <2>7. \A d \in Claims, u \in Names : InQueue("claims", d) => MatchSeen(d, u)'
    BY <2>6 DEF MatchSeen
  <2>8. \A f \in Range(stack) :
          f \in Range(stack') \/ \A d \in Claims, u \in Names : ~BringsMatch(f, d, u)
    BY <1>1, <1>2, <2>4
  <2> QED
    BY <2>2, <2>4, <2>5, <2>6, <2>7, <2>8, VolumeWriteLeft
<1> QED
  BY <1>3, <1>4

LEMMA BindLeft ==
  ASSUME TypeInv, NoneLeft, ~Idle, Head(stack).op = "bind",
         BindStep(Head(stack), Tail(stack)), UNCHANGED <<pods, classes, gone>>
  PROVE  NoneLeft'
<1> DEFINE frame == Head(stack)
           base == Tail(stack)
           next == [frame EXCEPT !.written = TRUE]
           new == ToBoundClaim(frame.read, frame.volume)
<1> SUFFICES ASSUME NEW c, c = frame.claim PROVE NoneLeft'
  OBVIOUS
<1>1. /\ frame \in BindFrames /\ base \in Seq(Frames)
      /\ Range(stack) = {frame} \cup Range(base)
  BY HeadIs, FrameKinds
<1>2. c \in Claims /\ frame.volume \in Names /\ frame.read \in Claimed /\ frame.op = "bind"
  BY <1>1 DEF BindFrames
<1>3. \A d \in Claims : ~BringsLack(frame, d)
  BY <1>2 DEF BringsLack, Untold
<1>4. CASE frame.written
  <2>1. Enqueue("volumes", frame.volume, base)
    BY <1>4 DEF BindStep
  <2>2. Entered("volumes", frame.volume, base)
    BY <1>1, <1>2, <2>1, KeysOf, Entering DEF TypeInv
  <2>3. Kept(base)
    BY <2>2 DEF Entered
  <2>4. \A d \in Claims, v \in Names : ~BringsMatch(frame, d, v)
    BY <1>2, <1>4 DEF BringsMatch, Untold, Unwritten
  <2> QED
    BY <1>3, <2>3, <2>4, HeadEnds DEF Kept
<1>5. CASE ~frame.written
  <2>1. SetClaim("Updated", c, new, <<next>> \o base) /\ UNCHANGED queue
    BY <1>5 DEF BindStep
  <2>2. next \in Frames /\ new.volume = frame.volume
    <3>1. next \in BindFrames
      BY <1>1 DEF BindFrames
    <3> QED
      BY <1>2, <3>1 DEF Frames, ToBoundClaim, Claimed, ClaimValues
  <2>3. \A p, k : InQueue(p, k) => InQueue(p, k)'
    BY <2>1, QueuesStay
  <2>4. \A d \in Claims : d # c => ~BringsLack(frame, d) /\ \A v : ~BringsMatch(frame, d, v)
    BY <1>2, <1>3 DEF BringsMatch, Untold
  <2> DEFINE below == <<next>> \o base
  <2> HIDE DEF frame, base, next, new
  <2>5. below \in Seq(Frames) /\ Range(below) = {next} \cup Range(base)
    BY <1>1, <2>2, BelowEvent
  <2>6. SetClaim("Updated", c, new, below)
    BY <2>1
  <2> HIDE DEF below
  <2>7. CASE claims[c] = None
    <3>1. UNCHANGED store /\ stack' = below
      BY <2>6, <2>7 DEF SetClaim, Return
    <3>2. \A d \in Claims, v \in Names : Match(d, v) => d # c
      BY <2>7 DEF Match, Able
    <3>3. UNCHANGED <<store, pods, classes, gone>> /\ Range(base) \subseteq Range(stack')
      BY <2>5, <3>1
    <3>4. \A d \in Claims, v \in Names : Match(d, v) => ~BringsMatch(frame, d, v)
      BY <2>4, <3>2
    <3> QED
      BY <1>1, <1>3, <2>3, <3>3, <3>4, HeadPasses
  <2>8. CASE claims[c] # None
    <3>1. WroteClaim("Updated", c, new, frame.volume, below)
      <4>1. WroteClaim("Updated", c, new, IF "Updated" = "Deleted"
                       THEN claims[c].volume ELSE new.volume, below)
        BY <2>6, <2>8, SetClaimIs
      <4> QED
        BY <2>2, <4>1
    <3>2. "Updated" \in Ops /\ "Updated" # "Deleted"
      BY DEF Ops
    <3>3. /\ UNCHANGED volumes /\ \A d \in Claims : d # c => claims'[d] = claims[d]
          /\ Range(below) \subseteq Range(stack')
          /\ claims'[c] = None \/ ClaimAnnounced(c)'
      BY <1>2, <2>5, <3>1, <3>2, ClaimOnTop
    <3>4. \A f \in Range(stack) :
            \/ f \in Range(stack')
            \/ \A d \in Claims : d # c => ~BringsLack(f, d) /\ \A v : ~BringsMatch(f, d, v)
      BY <1>1, <2>4, <2>5, <3>3
    <3>5. UNCHANGED <<volumes, pods, classes, gone>>
      BY <3>3
    <3> QED
      BY <1>2, <2>3, <3>3, <3>4, <3>5, ClaimWriteLeft
  <2> QED
    BY <2>7, <2>8
<1> QED
  BY <1>4, <1>5

LEMMA RunLeft ==
  ASSUME BInv, TypeInv, NoneLeft, Run
  PROVE  NoneLeft'
<1> DEFINE frame == Head(stack)
           rest == Tail(stack)
<1>1. ~Idle /\ UNCHANGED <<pods, classes, gone>>
  BY DEF Run
<1>2. CASE frame.op = "deliver" /\ DeliverStep(frame, rest)
  BY <1>1, <1>2, DeliverLeft
<1>3. CASE frame.op = "loop" /\ LoopStep(frame, rest)
  BY <1>1, <1>3, LoopLeft
<1>4. CASE frame.op = "addAll" /\ AddAllStep(frame, rest)
  BY <1>1, <1>4, AddAllLeft
<1>5. CASE \/ frame.op = "next" /\ AfterNext(frame, rest) /\ UNCHANGED queue
           \/ frame.op = "matching" /\ Matching(frame, rest) /\ UNCHANGED queue
  BY <1>1, <1>5, EndsLeft
<1>6. CASE /\ frame.op = "provision" /\ Provision(frame.claim, frame.read, rest)
           /\ UNCHANGED queue
  BY <1>1, <1>6, ProvisionLeft
<1>7. CASE frame.op = "bind" /\ BindStep(frame, rest)
  BY <1>1, <1>7, BindLeft
<1> QED
  BY <1>2, <1>3, <1>4, <1>5, <1>6, <1>7 DEF Run

LEMMA TimerLeft ==
  ASSUME BInv, TypeInv, NoneLeft, NEW q \in Queues, TimerFires(q)
  PROVE  NoneLeft'
<1>1. Idle /\ UNCHANGED <<pods, classes, gone>>
  BY DEF TimerFires
<1>2. CASE queue[q] = << >>
  <2>1. UNCHANGED <<store, queue>> /\ Idle'
    BY <1>2 DEF TimerFires, Return, Idle
  <2>2. UNCHANGED stack
    BY <1>1, <2>1 DEF Idle
  <2>3. UNCHANGED <<claims, volumes, pods, classes, gone>>
    BY <1>1, <2>1 DEF store
  <2>4. \A p, k : InQueue(p, k) => InQueue(p, k)'
    BY <2>1, QueuesStay
  <2>5. ASSUME NEW c \in Claims, NEW v \in Names, MatchSeen(c, v) PROVE MatchSeen(c, v)'
    <3>1. /\ InQueue("claims", c) => MatchSeen(c, v)'
          /\ InQueue("volumes", v) => MatchSeen(c, v)'
      BY <2>4 DEF MatchSeen
    <3>2. UNCHANGED classes /\ claims'[c] = claims[c]
      BY <2>3
    <3> QED
      BY <2>2, <2>5, <3>1, <3>2, MatchCarried
  <2>6. ASSUME NEW c \in Claims, LackSeen(c) PROVE LackSeen(c)'
    <3>1. InQueue("provisioning", c) => LackSeen(c)'
      BY <2>4 DEF LackSeen
    <3>2. UNCHANGED classes /\ claims'[c] = claims[c]
      BY <2>3
    <3> QED
      BY <2>2, <2>6, <3>1, <3>2, LackCarried
  <2> QED
    BY <2>3, <2>5, <2>6, QuietNone
<1>3. CASE queue[q] # << >>
  <2> DEFINE base == <<[op |-> "next", queue |-> q]>>
  <2>1. Popped(q) /\ Turning(q, base) /\ Handle(q, Head(queue[q]), base)
    BY <1>3, TimerTurn
  <2> HIDE DEF base
  <2> QED
    BY <1>1, <2>1, HandleLeft
<1> QED
  BY <1>2, <1>3

-------------------------------------------------------------------------------
(* Users, the scheduler and the kubelet leave no claim behind *)

\* Between calls what is seen is in a queue.
LEMMA IdleSees ==
  ASSUME NoneLeft, Idle, UNCHANGED queue
  PROVE  /\ \A c \in Claims, v \in Names : Match(c, v) => MatchSeen(c, v)'
         /\ \A c \in Claims : Lack(c) => LackSeen(c)'
<1>1. Range(stack) = {}
  BY EmptyIs DEF Idle
<1>2. \A p, k : InQueue(p, k) => InQueue(p, k)'
  BY QueuesStay
<1> QED
  BY <1>1, <1>2 DEF NoneLeft, MatchSeen, LackSeen

\* A pod that comes to use a claim is announced with it.
LEMMA PodConsumes ==
  ASSUME TypeInv, NEW p \in Pods, PodStep(p)
  PROVE  \E op \in Ops : \E ref \in Claims :
           /\ Notice(Event("Pod", op, p, ref)) /\ UNCHANGED <<classes, gone>>
           /\ \A c \in Claims : HasConsumer(c)' => HasConsumer(c) \/ c = ref
<1>1. pods[p] # None => pods[p].claim \in Claims /\ pods[p] \in PodValues
  BY DEF TypeInv, RestType, PodValues
<1>2. ASSUME NEW op \in Ops, NEW new, SetPod(op, p, new), Idle, NEW ref \in Claims,
             ref = IF new = None THEN pods[p].claim ELSE new.claim
      PROVE  /\ Notice(Event("Pod", op, p, ref)) /\ UNCHANGED <<classes, gone>>
             /\ \A c \in Claims : HasConsumer(c)' => HasConsumer(c) \/ c = ref
  <2> DEFINE event == Event("Pod", op, p, ref)
  <2>1. stack' = <<Delivery(event)>> \o << >>
    BY <1>2 DEF SetPod, Deliver, Delivery
  <2>2. UNCHANGED <<claims, volumes, boundTo, queue, classes, gone>>
    BY <1>2 DEF SetPod, store, Untouched
  <2>3. event.kind = "Pod"
    BY DEF Event
  <2>4. pods' = [pods EXCEPT ![p] = new]
    BY <1>2 DEF SetPod
  <2>5. ASSUME NEW c \in Claims, HasConsumer(c)', c # ref PROVE HasConsumer(c)
    <3>1. PICK r \in Pods : /\ pods'[r] # None /\ pods'[r].scheduled
                            /\ ~pods'[r].terminating /\ pods'[r].claim = c
      BY <2>5 DEF HasConsumer, Scheduled
    <3>2. r # p
      BY <1>2, <2>4, <2>5, <3>1 DEF TypeInv, RestType
    <3>3. pods'[r] = pods[r]
      BY <2>4, <3>2
    <3> QED
      BY <3>1, <3>3 DEF HasConsumer, Scheduled
  <2> QED
    BY <1>2, <2>1, <2>2, <2>3, <2>5 DEF Notice
<1>3. "Created" \in Ops /\ "Updated" \in Ops /\ "Deleted" \in Ops
  BY DEF Ops
<1>4. PICK op, new :
        /\ op \in Ops /\ SetPod(op, p, new) /\ Idle
        /\ (IF new = None THEN pods[p].claim ELSE new.claim) \in Claims
  <2>1. ASSUME NEW c \in Claims, CreatePod(p, c)
        PROVE  /\ SetPod("Created", p, [claim |-> c, scheduled |-> FALSE, terminating |-> FALSE])
               /\ Idle /\ [claim |-> c, scheduled |-> FALSE, terminating |-> FALSE] # None
    <3>1. [claim |-> c, scheduled |-> FALSE, terminating |-> FALSE] \in PodValues
      BY DEF PodValues
    <3> QED
      BY <2>1, <3>1, NoneAssumption DEF CreatePod, Edit
  <2>2. CASE \E c \in Claims : CreatePod(p, c)
    <3>1. PICK c \in Claims : CreatePod(p, c)
      BY <2>2
    <3>2. PICK new : new = [claim |-> c, scheduled |-> FALSE, terminating |-> FALSE]
      OBVIOUS
    <3>3. SetPod("Created", p, new) /\ Idle /\ new # None /\ new.claim \in Claims
      BY <2>1, <3>1, <3>2
    <3> QED
      BY <1>3, <3>3
  <2>3. CASE Schedule(p)
    <3>1. PICK new : new = [pods[p] EXCEPT !.scheduled = TRUE]
      OBVIOUS
    <3>2. SetPod("Updated", p, new) /\ Idle /\ pods[p] # None
      BY <2>3, <3>1 DEF Schedule
    <3>3. new.claim = pods[p].claim
      BY <1>1, <3>1, <3>2 DEF PodValues
    <3> QED
      BY <1>1, <1>3, <3>2, <3>3
  <2>4. CASE TerminatePod(p)
    <3>1. PICK new : new = [pods[p] EXCEPT !.terminating = TRUE]
      OBVIOUS
    <3>2. SetPod("Updated", p, new) /\ Idle /\ pods[p] # None
      BY <2>4, <3>1 DEF TerminatePod, Edit
    <3>3. new.claim = pods[p].claim
      BY <1>1, <3>1, <3>2 DEF PodValues
    <3> QED
      BY <1>1, <1>3, <3>2, <3>3
  <2>5. CASE RemovePod(p)
    <3>1. SetPod("Deleted", p, None) /\ Idle /\ pods[p] # None
      BY <2>5 DEF RemovePod
    <3> QED
      BY <1>1, <1>3, <3>1
  <2> QED
    BY <2>2, <2>3, <2>4, <2>5 DEF PodStep
<1>5. PICK ref \in Claims : ref = IF new = None THEN pods[p].claim ELSE new.claim
  BY <1>4
<1> QED
  BY <1>2, <1>4, <1>5

LEMMA PodLeft ==
  ASSUME TypeInv, NoneLeft, NEW p \in Pods, PodStep(p)
  PROVE  NoneLeft'
<1>1. PICK op \in Ops, ref \in Claims :
        /\ Notice(Event("Pod", op, p, ref)) /\ UNCHANGED <<classes, gone>>
        /\ \A c \in Claims : HasConsumer(c)' => HasConsumer(c) \/ c = ref
  BY PodConsumes
<1> DEFINE event == Event("Pod", op, p, ref)
<1>2. event \in Events /\ event.kind = "Pod" /\ event.ref = ref
  BY NoticeTypes DEF Event
<1>3. Idle /\ UNCHANGED <<claims, volumes, queue>> /\ stack' = <<Delivery(event)>> \o << >>
  BY <1>1 DEF Notice
<1> HIDE DEF event
<1>4. PICK frame \in Range(stack') :
        Untold(frame, 1) /\ Untold(frame, 2) /\ frame.event = event
  BY <1>2, <1>3, EmptyIs, EventOnTop
<1>5. (Untold(frame, 1) /\ Untold(frame, 2))'
  BY <1>4 DEF Untold
<1>6. ASSUME NEW c \in Claims, Able(c)', ~Able(c) PROVE c = ref /\ Waits(claims[c].class)'
  <2>1. Held(c, claims[c]) /\ ~Held(c, claims[c])'
    BY <1>1, <1>3, <1>6 DEF Able
  <2>2. Waits(claims[c].class)' <=> Waits(claims[c].class)
    BY <1>1, <1>3 DEF Waits
  <2>3. Waits(claims[c].class) /\ ~HasConsumer(c) /\ HasConsumer(c)'
    BY <2>1, <2>2 DEF Held
  <2> QED
    BY <1>1, <2>2, <2>3
<1>7. ASSUME NEW c \in Claims, NEW v \in Names, Match(c, v)' PROVE MatchSeen(c, v)'
  <2>1. CASE Able(c)
    <3>1. Match(c, v)
      BY <1>3, <1>7, <2>1 DEF Match, Fits
    <3> QED
      BY <1>3, <3>1, IdleSees
  <2>2. CASE ~Able(c)
    <3>1. TellsPod(event, c)'
      BY <1>2, <1>6, <1>7, <2>2 DEF TellsPod, Match
    <3>2. BringsMatch(frame, c, v)'
      BY <1>4, <1>5, <3>1 DEF BringsMatch
    <3> QED
      BY <1>4, <3>2 DEF MatchSeen
  <2> QED
    BY <2>1, <2>2
<1>8. ASSUME NEW c \in Claims, Lack(c)' PROVE LackSeen(c)'
  <2>1. CASE Able(c)
    <3>1. Candidates(claims[c])' = Candidates(claims[c])
      BY <1>3 DEF Candidates, Fits
    <3>2. Lack(c)
      BY <1>1, <1>3, <1>8, <2>1, <3>1 DEF Lack
    <3> QED
      BY <1>3, <3>2, IdleSees
  <2>2. CASE ~Able(c)
    <3>1. TellsProvisioning(event, c)
      BY <1>2, <1>6, <1>8, <2>2 DEF TellsProvisioning, Lack
    <3>2. BringsLack(frame, c)'
      BY <1>4, <1>5, <3>1 DEF BringsLack, TellsProvisioning
    <3> QED
      BY <1>4, <3>2 DEF LackSeen
  <2> QED
    BY <2>1, <2>2
<1> QED
  BY <1>7, <1>8 DEF NoneLeft

\* Provisioning hears of every StorageClass, and a class that is new or gone
\* lets no claim be bound that could not be before.
LEMMA ClassLeft ==
  ASSUME TypeInv, NoneLeft, NEW s \in DOMAIN StorageClasses, CreateClass(s) \/ DeleteClass(s)
  PROVE  NoneLeft'
<1>1. PICK op \in Ops : Notice(Event("StorageClass", op, s, None))
  BY ClassNotice
<1> DEFINE event == Event("StorageClass", op, s, None)
<1>2. event \in Events /\ event.kind = "StorageClass"
  BY NoticeTypes DEF Event
<1>3. Idle /\ UNCHANGED <<claims, volumes, queue>> /\ stack' = <<Delivery(event)>> \o << >>
  BY <1>1 DEF Notice
<1> HIDE DEF event
<1>4. PICK frame \in Range(stack') :
        Untold(frame, 1) /\ Untold(frame, 2) /\ frame.event = event
  BY <1>2, <1>3, EmptyIs, EventOnTop
<1>5. ASSUME NEW c \in Claims PROVE LackSeen(c)'
  <2>1. BringsLack(frame, c)'
    BY <1>2, <1>4 DEF BringsLack, Untold, TellsProvisioning
  <2> QED
    BY <1>4, <2>1 DEF LackSeen
<1>6. ASSUME NEW c \in Claims, Able(c)' PROVE Able(c)
  <2>1. HasConsumer(c)' <=> HasConsumer(c)
    BY DEF CreateClass, DeleteClass, HasConsumer, Scheduled
  <2>2. /\ claims[c] # None /\ claims[c].volume = None
        /\ ~(Waits(claims[c].class)' /\ ~HasConsumer(c)) /\ claims[c].class \notin gone'
    BY <1>3, <1>6, <2>1 DEF Able, Held
  <2>3. CASE CreateClass(s)
    <3>1. classes' = classes \cup {s} /\ gone' = gone
      BY <2>3 DEF CreateClass, Untouched
    <3>2. Waits(claims[c].class) => Waits(claims[c].class)'
      BY <1>3, <3>1 DEF Waits
    <3> QED
      BY <2>2, <3>1, <3>2 DEF Able, Held
  <2>4. CASE DeleteClass(s)
    <3>1. classes' = classes \ {s} /\ gone' = gone \cup {s}
      BY <2>4 DEF DeleteClass
    <3>2. Waits(claims[c].class) => Waits(claims[c].class)'
      BY <1>3, <2>2, <3>1 DEF Waits
    <3> QED
      BY <2>2, <3>1, <3>2 DEF Able, Held
  <2> QED
    BY <2>3, <2>4
<1>7. ASSUME NEW c \in Claims, NEW v \in Names, Match(c, v)' PROVE MatchSeen(c, v)'
  <2>1. Match(c, v)
    BY <1>3, <1>6, <1>7 DEF Match, Fits
  <2> QED
    BY <1>3, <2>1, IdleSees
<1> QED
  BY <1>5, <1>7 DEF NoneLeft

-------------------------------------------------------------------------------
LEMMA UserLeft ==
  ASSUME TypeInv, NoneLeft, UserStep
  PROVE  NoneLeft'
<1>1. Idle /\ UNCHANGED <<queue, boundTo, pods, classes, gone>> /\ UserWrite
  BY UserWrites
<1>2. Range(stack) = {} /\ << >> \in Seq(Frames) /\ StoreType
  BY <1>1, EmptyIs DEF Idle, TypeInv
<1>3. \A p, k : InQueue(p, k) => InQueue(p, k)'
  BY <1>1, QueuesStay
<1>4. ASSUME NEW c \in Claims, NEW op \in Ops, NEW ref \in Names \cup {None}, NEW new,
             op = "Deleted" => new = None, WroteClaim(op, c, new, ref, << >>)
      PROVE  NoneLeft'
  <2>1. /\ UNCHANGED volumes /\ \A d \in Claims : d # c => claims'[d] = claims[d]
        /\ claims'[c] = None \/ ClaimAnnounced(c)'
    BY <1>2, <1>4, ClaimOnTop
  <2>2. UNCHANGED <<volumes, pods, classes, gone>>
    BY <1>1, <2>1
  <2> QED
    BY <1>2, <1>3, <2>1, <2>2, ClaimWriteLeft
<1>5. ASSUME NEW v \in Names, NEW op \in Ops, NEW ref \in Claims \cup {None}, NEW new,
             op = "Deleted" => new = None, WroteVolume(op, v, new, ref, << >>)
      PROVE  NoneLeft'
  <2>1. /\ UNCHANGED claims /\ \A u \in Names : u # v => volumes'[u] = volumes[u]
        /\ VolumeAnnounced(v)'
    BY <1>2, <1>5, VolumeOnTop
  <2>2. UNCHANGED <<claims, pods, classes, gone>>
    BY <1>1, <2>1
  <2>3. \A c \in Claims, u \in Names : InQueue("claims", c) => MatchSeen(c, u)'
    BY <1>3 DEF MatchSeen
  <2> QED
    BY <1>2, <1>3, <2>1, <2>2, <2>3, VolumeWriteLeft
<1>6. "Created" \in Ops /\ "Deleted" \in Ops /\ "Created" # "Deleted"
  BY DEF Ops
<1>7. ASSUME NEW v \in Names, NEW new \in Backed, WroteVolume("Created", v, new, None, << >>)
      PROVE  NoneLeft'
  BY <1>5, <1>6, <1>7
<1>8. ASSUME NEW v \in Names, volumes[v] # None,
             WroteVolume("Deleted", v, None, volumes[v].claim, << >>)
      PROVE  NoneLeft'
  <2>1. volumes[v].claim \in Claims \cup {None}
    BY <1>2, <1>8, RefTypes
  <2> QED
    BY <1>5, <1>6, <1>8, <2>1
<1>9. ASSUME NEW c \in Claims, NEW new \in Claimed,
             WroteClaim("Created", c, new, new.volume, << >>)
      PROVE  NoneLeft'
  <2>1. new.volume \in Names \cup {None}
    BY ClaimTypes
  <2> QED
    BY <1>4, <1>6, <1>9, <2>1
<1>10. ASSUME NEW c \in Claims, claims[c] # None,
              WroteClaim("Deleted", c, None, claims[c].volume, << >>)
       PROVE  NoneLeft'
  <2>1. claims[c].volume \in Names \cup {None}
    BY <1>2, <1>10, RefTypes
  <2> QED
    BY <1>4, <1>6, <1>10, <2>1
<1> QED
  BY <1>1, <1>7, <1>8, <1>9, <1>10 DEF UserWrite

LEMMA StepLeft ==
  ASSUME BInv, TypeInv, NoneLeft, [Next]_vars
  PROVE  NoneLeft'
<1>1. CASE UNCHANGED vars
  <2>1. UNCHANGED <<claims, volumes, pods, classes, gone, queue, stack>>
    BY <1>1 DEF vars, store
  <2>2. \A c \in Claims : UNCHANGED classes /\ claims'[c] = claims[c]
    BY <2>1
  <2>3. ASSUME NEW c \in Claims, NEW v \in Names, MatchSeen(c, v) PROVE MatchSeen(c, v)'
    <3>1. /\ InQueue("claims", c) => MatchSeen(c, v)'
          /\ InQueue("volumes", v) => MatchSeen(c, v)'
      BY <2>1, QueuesStay DEF MatchSeen
    <3> QED
      BY <2>1, <2>2, <2>3, <3>1, MatchCarried
  <2>4. ASSUME NEW c \in Claims, LackSeen(c) PROVE LackSeen(c)'
    <3>1. InQueue("provisioning", c) => LackSeen(c)'
      BY <2>1, QueuesStay DEF LackSeen
    <3> QED
      BY <2>1, <2>2, <2>4, <3>1, LackCarried
  <2> QED
    BY <2>1, <2>3, <2>4, QuietNone
<1>2. ASSUME NEW p \in Pods, PodStep(p) PROVE NoneLeft'
  BY <1>2, PodLeft
<1>3. ASSUME NEW s \in DOMAIN StorageClasses, CreateClass(s) \/ DeleteClass(s) PROVE NoneLeft'
  BY <1>3, ClassLeft
<1>4. CASE UserStep
  BY <1>4, UserLeft
<1> QED
  BY <1>1, <1>2, <1>3, <1>4, RunLeft, TimerLeft DEF Next, UserStep, PodStep

LEMMA InitLeft == Init => NoneLeft
BY DEF Init, NoneLeft, Match, Lack, Able

\* No claim that may be bound is left pending beside a volume that fits, and none
\* whose class provisions: a match of a claim and a volume, or the lack of one,
\* is in a queue or about to be put there, and between calls no queue holds a key
\* that needs a turn.
THEOREM NoneIsLeftBehind ==
  ASSUME BatchSuffices
  PROVE  Spec => []NoClaimLeftBehind
<1>1. Init => NoneLeft
  BY InitLeft
<1>2. IInv /\ BInv /\ NoneLeft /\ [Next]_vars => NoneLeft'
  BY StepLeft DEF IInv
<1>3. IInv /\ BInv /\ NoneLeft => NoClaimLeftBehind
  <2> SUFFICES ASSUME IInv, BInv, NoneLeft, Idle, NEW c \in PendingClaims,
                      ~Held(c, claims[c]), claims[c].class \notin gone
               PROVE  /\ Candidates(claims[c]) = {}
                      /\ claims[c].class \in classes => volumes[DynamicName[c]] # None
    BY DEF NoClaimLeftBehind
  <2>1. TypeInv /\ StoreType /\ KeysListed /\ Range(stack) = {}
    BY InQueueIs, IdleIs DEF IInv, TypeInv
  <2>2. c \in Claims /\ claims[c] # None /\ claims[c].volume = None /\ Able(c)
    BY <2>1, ReadIs DEF PendingClaims, Able
  <2>3. ~Good(c)
    BY <2>2 DEF Good
  <2>4. ASSUME NEW v \in Candidates(claims[c]) PROVE FALSE
    <3>1. v \in Names /\ Match(c, v)
      BY <2>2, <2>4 DEF Candidates, Match
    <3>2. InQueue("claims", c) \/ InQueue("volumes", v)
      BY <2>1, <2>2, <3>1 DEF NoneLeft, MatchSeen
    <3>3. volumes[v] # None /\ volumes[v].claim = None
      BY <3>1 DEF Match, Fits
    <3>4. ~Settled(v)
      BY <3>3 DEF Settled
    <3> QED
      BY <2>1, <2>2, <2>3, <3>1, <3>2, <3>3, <3>4, IdleIs
  <2>5. ASSUME claims[c].class \in classes, volumes[DynamicName[c]] = None,
               Candidates(claims[c]) = {}
        PROVE  FALSE
    <3>1. Lack(c)
      BY <2>2, <2>5 DEF Lack
    <3>2. InQueue("provisioning", c)
      BY <2>1, <2>2, <3>1 DEF NoneLeft, LackSeen
    <3>3. queue["provisioning"] = << >>
      BY <2>1, IdleIs
    <3> QED
      BY <3>2, <3>3 DEF InQueue
  <2> QED
    BY <2>4, <2>5
<1> QED
  BY <1>1, <1>2, <1>3, BindingsInductive, PTL DEF Spec

===============================================================================
