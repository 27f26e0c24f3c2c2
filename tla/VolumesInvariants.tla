--------------------------- MODULE VolumesInvariants ---------------------------
(***************************************************************************)
(* The inductive invariants of Volumes, and the words in which their       *)
(* proofs (Volumes_proofs) speak of a step.                                *)
(*                                                                         *)
(* BindingsAgree speaks of moments between calls.  Inside a call, every    *)
(* claim and every volume that has lost the other is in a queue that is    *)
(* being drained, or an event that puts it there is still being delivered, *)
(* and at most one claim is being bound, in a turn of the claims' queue    *)
(* (BInv).  That rests on the loop not stopping at a full batch.  A call   *)
(* from outside has a bounded number of writes to cause (Work), each write *)
(* fills each queue once (Round), and so a loop of MaxBatch turns reaches  *)
(* every key that needs one, if MaxBatch is not below the product (Room).  *)
(*                                                                         *)
(* NoClaimLeftBehind rests on NoneLeft: a claim and a volume that fit each *)
(* other, or a claim that lacks a volume, are in a queue or brought to     *)
(* the notice of a controller by a frame of the stack.                     *)
(***************************************************************************)
EXTENDS Volumes, FiniteSets

\* A claim is Bound exactly when it names a volume.
Claimed == {r \in ClaimValues : r.bound <=> r.volume # None}
Backed == {r \in VolumeValues : r.bound <=> r.claim # None}

Ops == {"Created", "Updated", "Deleted"}

ClaimEvents == [kind : {"Claim"}, op : Ops, name : Claims, ref : Names \cup {None}]
VolumeEvents == [kind : {"Volume"}, op : Ops, name : Names, ref : Claims \cup {None}]
PodEvents == [kind : {"Pod"}, op : Ops, name : Pods, ref : Claims]
ClassEvents == [kind : {"StorageClass"}, op : Ops, name : DOMAIN StorageClasses, ref : {None}]

DeliverFrames ==
  [op : {"deliver"}, event : ClaimEvents \cup VolumeEvents \cup PodEvents, to : 1..3]
  \cup [op : {"deliver"}, event : ClassEvents, to : {1}]
LoopFrames == [op : {"loop"}, queue : Queues, left : Nat]
NextFrames == [op : {"next"}, queue : Queues]
AddAllFrames == [op : {"addAll"}, queue : {"provisioning", "claims"}, keys : SUBSET Claims]
MatchingFrames == [op : {"matching"}, volume : Names]
ProvisionFrames == [op : {"provision"}, claim : Claims, read : Claimed]
BindFrames ==
  [op : {"bind"}, claim : Claims, read : Claimed, volume : Names, written : BOOLEAN]

Frames ==
  DeliverFrames \cup LoopFrames \cup NextFrames \cup AddAllFrames \cup MatchingFrames
    \cup ProvisionFrames \cup BindFrames

StoreType ==
  /\ claims \in [Claims -> Claimed \cup {None}]
  /\ volumes \in [Names -> Backed \cup {None}]

\* The keys of a queue, none twice
QueueType ==
  /\ DOMAIN queue = Queues
  /\ \A q \in Queues : queue[q] \in Seq(Keys[q]) /\ IsInjective(queue[q])

Messages ==
  {"PersistentVolumeClaimNotFound", "PersistentVolumeClaimPending",
   "PersistentVolumeNotFound", "PersistentVolumeNotBound", "ready"}

RestType ==
  /\ pods \in [Pods -> PodValues \cup {None}]
  /\ classes \cup gone \subseteq DOMAIN StorageClasses
  /\ boundTo \in [Claims -> Names \cup {None}]
  /\ readiness \in [Pods -> Messages \cup {None}]
  /\ timer \in [Queues -> BOOLEAN]
  /\ edits \in 0..MaxEdits

TypeInv == StoreType /\ QueueType /\ RestType /\ stack \in Seq(Frames)

\* The event is being delivered by a frame of the stack.
Delivering(event, frames) ==
  \E i \in DOMAIN frames : frames[i].op = "deliver" /\ frames[i].event = event

\* An event after which the pod's readiness will be computed
Concerns(event, p) ==
  \/ event.kind \in {"Claim", "Volume"} /\ pods[p] # None
  \/ event.kind = "Pod" /\ event.name = p

Told ==
  \A p \in Pods :
    \/ readiness[p] = ReadinessNow[p]
    \/ \E event : Delivering(event, stack) /\ Concerns(event, p)

IInv == TypeInv /\ Told

-------------------------------------------------------------------------------
(* Bindings *)

\* A claim and its volume name each other.
Good(c) ==
  /\ claims[c] # None /\ claims[c].volume # None
  /\ volumes[claims[c].volume] # None /\ volumes[claims[c].volume].claim = c

\* A claim that names a volume which is gone or not its own
Dirty(c) == claims[c] # None /\ claims[c].volume # None /\ ~Good(c)

\* A volume whose claim is gone
Orphan(v) ==
  volumes[v] # None /\ volumes[v].claim # None /\ claims[volumes[v].claim] = None

\* A volume and its claim name each other.
Settled(v) ==
  /\ volumes[v] # None /\ volumes[v].claim # None /\ claims[volumes[v].claim] # None
  /\ claims[volumes[v].claim].volume = v

InQueue(q, key) == \E i \in DOMAIN queue[q] : queue[q][i] = key

\* The n-th subscriber has yet to hear of the frame's event.
Untold(frame, n) == frame.op = "deliver" /\ frame.to <= n

\* Events after which the binding controller looks at a claim or a volume, or
\* forgets a claim
TellsClaim(e, c) ==
  \/ e.kind = "Claim" /\ e.op # "Deleted" /\ e.name = c
  \/ e.kind = "Volume" /\ e.op = "Deleted" /\ e.ref = c
TellsVolume(e, v) ==
  \/ e.kind = "Volume" /\ e.op # "Deleted" /\ e.name = v
  \/ e.kind = "Claim" /\ e.op = "Deleted" /\ e.ref = v
TellsGone(e, c) == e.kind = "Claim" /\ e.op = "Deleted" /\ e.name = c

ClaimComes(c, frames) == \E f \in Range(frames) : Untold(f, 2) /\ TellsClaim(f.event, c)
VolumeComes(v, frames) == \E f \in Range(frames) : Untold(f, 2) /\ TellsVolume(f.event, v)
ClaimGoes(c, frames) == \E f \in Range(frames) : Untold(f, 2) /\ TellsGone(f.event, c)

IsLoop(frame, q) == frame.op = "loop" /\ frame.queue = q
Unwritten(frame) == frame.op = "bind" /\ ~frame.written

\* A bind frame of a claim and a volume
Binding(c, v, written, frames) ==
  \E f \in Range(frames) :
    f.op = "bind" /\ f.claim = c /\ f.volume = v /\ f.written = written

\* What is below a frame: one loop of each queue, the loop of the claims where
\* one of them is being bound, and nothing below processNext.
Above(frame, below) ==
  /\ \A q \in Queues : IsLoop(frame, q) => ~\E g \in below : IsLoop(g, q)
  /\ Unwritten(frame) =>
       (\E g \in below : IsLoop(g, "claims")) /\ ~\E g \in below : Unwritten(g)
  /\ frame.op = "next" => below = {}

Under(frames, i) == {frames[k] : k \in (i + 1)..Len(frames)}
Nested(frames) == \A i \in 1..Len(frames) : Above(frames[i], Under(frames, i))

\* The volume of a bind frame is its claim's, and the claim's write follows.
BindMeans(frame) ==
  /\ claims[frame.claim] # None
  /\ volumes[frame.volume] # None /\ volumes[frame.volume].claim = frame.claim
  /\ claims[frame.claim].volume = IF frame.written THEN frame.volume ELSE None
BindsMean == \A f \in Range(stack) : f.op = "bind" => BindMeans(f)

\* A claim has one volume, but for the one that it is being bound to.
OneVolume ==
  \A v \in Names : \A c \in Claims :
    volumes[v] # None /\ volumes[v].claim = c /\ claims[c] # None =>
      claims[c].volume = v \/ Binding(c, v, FALSE, stack)

\* What is wrong is going to be looked at.
OrphansSeen ==
  \A v \in Names : Orphan(v) => InQueue("volumes", v) \/ VolumeComes(v, stack)
DirtSeen ==
  \A c \in Claims : Dirty(c) => InQueue("claims", c) \/ ClaimComes(c, stack)

\* VolumeState knows the volume of a claim, or is about to.
Known ==
  \A c \in Claims :
    /\ claims[c] = None => boundTo[c] = None \/ ClaimGoes(c, stack)
    /\ claims[c] # None =>
         /\ ~ClaimGoes(c, stack)
         /\ claims[c].volume = None => boundTo[c] = None
         /\ Good(c) => boundTo[c] = claims[c].volume
                       \/ Binding(c, claims[c].volume, TRUE, stack)

\* A key that needs a turn is in a queue that is being drained.
Busy ==
  /\ \A c \in Claims : InQueue("claims", c) /\ claims[c] # None /\ ~Good(c) =>
       Draining("claims", stack) \/ ClaimComes(c, stack)
  /\ \A v \in Names : InQueue("volumes", v) /\ volumes[v] # None /\ ~Settled(v) =>
       Draining("volumes", stack) \/ VolumeComes(v, stack)
  /\ queue["provisioning"] # << >> => Draining("provisioning", stack)

\* A key that may make its controller write
IsOpen(q, key) ==
  \/ q = "provisioning"
  \/ q = "claims" /\ ~Good(key)
  \/ q = "volumes" /\ ~Settled(key)
OpenIn(q) == \E i \in DOMAIN queue[q] : IsOpen(q, queue[q][i])

BInv ==
  /\ Nested(stack) /\ BindsMean /\ OneVolume /\ OrphansSeen /\ DirtSeen /\ Known /\ Busy

-------------------------------------------------------------------------------
(* What there is to write *)

\* Until the next step of a user, every write takes something from it: a claim
\* is bound, gives its volume up, is given a class; a volume is claimed, is
\* created, is deleted or released.
ClaimWork(n, c) ==
  /\ claims[c] # None
  /\ n = 1 => ~Good(c)
  /\ n = 2 => Dirty(c)
  /\ n = 3 => ~Good(c) /\ claims[c].class = None
  /\ n = 4 => ~Good(c) \/ claims[c].class = None

Claimless(v) ==
  volumes[v] = None \/ volumes[v].claim = None \/ claims[volumes[v].claim] = None

VolumeWork(n, v) ==
  /\ n = 5 => Claimless(v)
  /\ n = 6 => volumes[v] = None \/ Orphan(v)
  /\ n = 7 => Orphan(v)

ClaimTasks == (1..4) \X Claims
VolumeTasks == (5..7) \X Names
Work ==
  {t \in ClaimTasks : ClaimWork(t[1], t[2])} \cup {t \in VolumeTasks : VolumeWork(t[1], t[2])}

\* No queue is longer, and after a write every queue may be filled again.
Longest ==
  IF Cardinality(Claims) > Cardinality(Names) THEN Cardinality(Claims) ELSE Cardinality(Names)
Round == 2 * Longest + 1

\* The turns that an immediate loop may still have to take
Debt == Round * Cardinality(Work)

\* A batch takes as many turns as there can be.
BatchSuffices ==
  /\ IsFiniteSet(Claims) /\ IsFiniteSet(Names)
  /\ MaxBatch >= Round * (4 * Cardinality(Claims) + 3 * Cardinality(Names) + 1)

-------------------------------------------------------------------------------
(* Batches suffice *)

\* A frame whose run may write, before the frames below it go on
Writer(f) ==
  \/ f.op \in {"deliver", "matching", "provision"}
  \/ f.op = "addAll" /\ \E k \in f.keys : IsOpen(f.queue, k)
  \/ Unwritten(f)
  \/ f.op = "loop" /\ (f.queue = "provisioning" \/ OpenIn(f.queue))

\* One that may add an open key to a queue without a write
Carrier(q, f) ==
  \/ f.op = "deliver"
  \/ f.op = "addAll" /\ f.queue = q /\ \E k \in f.keys : IsOpen(q, k)
  \/ q = "claims" /\ f.op = "matching"
  \/ q = "claims" /\ f.op = "loop" /\ f.queue = "volumes" /\ OpenIn("volumes")

\* One that will drain the other queue
Ender(q, f) ==
  \/ q = "claims" /\ f.op = "bind" /\ f.written
  \/ q = "volumes" /\ f.op = "addAll" /\ f.queue = "claims"

\* The other of the two queues has open keys and nobody drains it.
Hidden(q) ==
  \E p \in {"claims", "volumes"} :
    p # q /\ q # "provisioning" /\ ~Draining(p, stack) /\ OpenIn(p)

\* A loop has turns left for all that may be written before it goes on (over are
\* the frames above it), and for the open keys that its queue has or may get.
Roomy(loop, over) ==
  LET q == loop.queue
      n == loop.left
  IN  /\ q = "provisioning" \/ (\E f \in over : Writer(f)) => n >= Debt
      /\ (\E f \in over : Carrier(q, f)) =>
           n >= Debt + Longest /\ (Hidden(q) => n >= Debt + Round)
      /\ \A j \in DOMAIN queue[q] : IsOpen(q, queue[q][j]) =>
           n >= Debt + j /\ (Hidden(q) => n >= Debt + Longest + 1 + j)
      /\ Hidden(q) =>
           n >= Debt + Longest + 1 \/ (n >= Debt + Longest /\ \E f \in over : Ender(q, f))

Over(frames, i) == {frames[k] : k \in 1..(i - 1)}
RoomBelow(over, frames) ==
  \A i \in 1..Len(frames) : frames[i].op = "loop" => Roomy(frames[i], over \cup Over(frames, i))

Room == RoomBelow({}, stack)

-------------------------------------------------------------------------------
(* No claim left behind *)

\* A pending claim that no class holds back
Able(c) ==
  /\ claims[c] # None /\ claims[c].volume = None
  /\ ~Held(c, claims[c]) /\ claims[c].class \notin gone

\* A claim that may be bound to a volume, and one that needs a volume of its own
Match(c, v) == Able(c) /\ Fits(v, claims[c])
Lack(c) ==
  /\ Able(c) /\ claims[c].class \in classes
  /\ Candidates(claims[c]) = {} /\ volumes[DynamicName[c]] = None

\* Events after which the provisioning controller looks at a claim, and the
\* binding controller at one that waits for a pod
TellsProvisioning(e, c) ==
  \/ e.kind \in {"Volume", "StorageClass"}
  \/ e.kind = "Claim" /\ e.op # "Deleted" /\ e.name = c
  \/ e.kind = "Pod" /\ e.ref = c
TellsPod(e, c) == e.kind = "Pod" /\ e.ref = c /\ Waits(claims[c].class)

\* Frames that bring the match of a claim and a volume, or the lack of one, to
\* the notice of a controller
BringsMatch(f, c, v) ==
  \/ Untold(f, 2) /\ TellsClaim(f.event, c)
  \/ Untold(f, 2) /\ TellsVolume(f.event, v)
  \/ Untold(f, 2) /\ TellsPod(f.event, c)
  \/ f.op = "addAll" /\ f.queue = "claims" /\ c \in f.keys
  \/ Unwritten(f) /\ f.claim = c
BringsLack(f, c) ==
  \/ Untold(f, 1) /\ TellsProvisioning(f.event, c)
  \/ f.op = "addAll" /\ f.queue = "provisioning" /\ c \in f.keys
  \/ f.op = "provision" /\ f.claim = c /\ f.read = claims[c]

MatchSeen(c, v) ==
  \/ InQueue("claims", c) \/ InQueue("volumes", v)
  \/ \E f \in Range(stack) : BringsMatch(f, c, v)
LackSeen(c) ==
  \/ InQueue("provisioning", c)
  \/ \E f \in Range(stack) : BringsLack(f, c)

NoneLeft ==
  /\ \A c \in Claims, v \in Names : Match(c, v) => MatchSeen(c, v)
  /\ \A c \in Claims : Lack(c) => LackSeen(c)

-------------------------------------------------------------------------------
(* What a piece of code leaves behind *)

\* What a piece of code that runs on top of rest leaves behind: objects and
\* frames of their types, every delivery of rest, and one more if it wrote.
Keeps(rest) ==
  /\ StoreType' /\ stack' \in Seq(Frames)
  /\ \A event : Delivering(event, rest) => Delivering(event, stack')
  /\ \/ UNCHANGED store
     \/ \E event : Delivering(event, stack') /\ event.kind \in {"Claim", "Volume"}

\* What a frame that leaves the stack has done, if nothing was written
Finished(f) ==
  /\ ~Unwritten(f)
  /\ f.op = "bind" => boundTo'[f.claim] = f.volume
  /\ \A q \in Queues : IsLoop(f, q) => Draining(q, stack') \/ ~OpenIn(q)'
  /\ Untold(f, 2) =>
       /\ \A c \in Claims : TellsClaim(f.event, c) =>
            ClaimComes(c, stack') \/ (InQueue("claims", c)' /\ Draining("claims", stack'))
       /\ \A v \in Names : TellsVolume(f.event, v) =>
            VolumeComes(v, stack') \/ (InQueue("volumes", v)' /\ Draining("volumes", stack'))
       /\ \A c \in Claims : TellsGone(f.event, c) =>
            ClaimGoes(c, stack') \/ boundTo'[c] = None

-------------------------------------------------------------------------------
(* What a turn of a queue does *)

Delivery(event) == [op |-> "deliver", event |-> event, to |-> 1]

WroteClaim(op, c, new, ref, rest) ==
  /\ claims' = [claims EXCEPT ![c] = new] /\ UNCHANGED volumes
  /\ stack' = <<Delivery(Event("Claim", op, c, ref))>> \o rest
WroteVolume(op, v, new, ref, rest) ==
  /\ volumes' = [volumes EXCEPT ![v] = new] /\ UNCHANGED claims
  /\ stack' = <<Delivery(Event("Volume", op, v, ref))>> \o rest

ProvisionFrame(c, read) == [op |-> "provision", claim |-> c, read |-> read]
WithClass(read) == [read EXCEPT !.class = DefaultClass]

\* Of the claims: nothing can be done, it is bound, its volume is gone or
\* another's, its volume is free, a volume is found.
TurnWaits(c, rest) ==
  /\ ~Good(c) /\ ~Dirty(c) /\ Unbind(c) /\ UNCHANGED store /\ stack' = rest
  /\ claims[c] # None => Held(c, claims[c]) \/ Candidates(claims[c]) = {}
TurnRests(c, rest) ==
  /\ Good(c) /\ UNCHANGED <<store, boundTo>>
  /\ stack' = <<BindFrame(c, claims[c], claims[c].volume, TRUE)>> \o rest
TurnGivesUp(c, rest) ==
  /\ Dirty(c) /\ Unbind(c) /\ WroteClaim("Updated", c, ToPending(claims[c]), None, rest)
TurnRetakes(c, rest) ==
  LET v == claims[c].volume
  IN  /\ Dirty(c) /\ UNCHANGED boundTo /\ volumes[v] # None /\ volumes[v].claim = None
      /\ WroteVolume("Updated", v, ToBoundVolume(volumes[v], c), c,
                     <<BindFrame(c, claims[c], v, TRUE)>> \o rest)
TurnTakes(c, v, rest) ==
  /\ claims[c] # None /\ claims[c].volume = None /\ ~Held(c, claims[c])
  /\ v \in Candidates(claims[c]) /\ UNCHANGED boundTo
  /\ WroteVolume("Updated", v, ToBoundVolume(volumes[v], c), c,
                 <<BindFrame(c, claims[c], v, FALSE)>> \o rest)

\* Of the volumes: its claims are told, or it is deleted or released.
TurnTells(v, rest) ==
  /\ ~Orphan(v) /\ UNCHANGED <<store, boundTo>>
  /\ \/ volumes[v] = None /\ stack' = rest
     \/ /\ volumes[v] # None /\ volumes[v].claim = None
        /\ stack' = AddAll("claims", ClaimsFor(volumes[v])) \o rest
     \/ /\ volumes[v] # None /\ volumes[v].claim # None
        /\ stack' = AddAll("claims", {volumes[v].claim}) \o rest
TurnDeletes(v, rest) ==
  /\ Orphan(v) /\ UNCHANGED boundTo
  /\ WroteVolume("Deleted", v, None, volumes[v].claim, rest)
TurnReleases(v, rest) ==
  /\ Orphan(v) /\ UNCHANGED boundTo
  /\ WroteVolume("Updated", v, ToReleased(volumes[v]), None, rest)

\* Of the provisioning: the claim is given the default class first, or not.
TurnProvisions(c, rest) ==
  /\ UNCHANGED <<store, boundTo>>
  /\ \/ claims[c] = None /\ stack' = rest
     \/ /\ claims[c] # None /\ ~(claims[c].class = None /\ DefaultClass \in classes)
        /\ stack' = <<ProvisionFrame(c, claims[c])>> \o rest
TurnDefaults(c, rest) ==
  /\ claims[c] # None /\ claims[c].class = None /\ DefaultClass \in classes
  /\ UNCHANGED boundTo
  /\ WroteClaim("Updated", c, WithClass(claims[c]), claims[c].volume,
                <<ProvisionFrame(c, WithClass(claims[c]))>> \o rest)

\* The stack above which a queue's controller runs: its loop goes on, or a
\* callback has started it.
Turning(q, base) ==
  /\ base \in Seq(Frames) /\ Nested(base)
  /\ \A f \in Range(stack) : f \in Range(base) \/ (IsLoop(f, q) /\ Draining(q, base))
  /\ \A f \in Range(base) : f.op = "bind" \/ f.op = "deliver" => f \in Range(stack)

Popped(q) == queue[q] # << >> /\ queue' = [queue EXCEPT ![q] = Tail(queue[q])]

-------------------------------------------------------------------------------
(* Writes *)

\* The frame that wrote may be gone, or has changed.
Spent(f) ==
  \/ f.op = "provision" \/ Unwritten(f)
  \/ \E q \in Queues : IsLoop(f, q) /\ Draining(q, stack')
Carried ==
  /\ \A f \in Range(stack) : f \in Range(stack') \/ Spent(f)
  /\ \A q \in Queues : \A k : InQueue(q, k)' => InQueue(q, k)

\* What a step leaves of the stack
Acting(base) ==
  /\ base \in Seq(Frames) /\ Nested(base)
  /\ \A f \in Range(stack) :
       \/ f \in Range(base) \/ f.op = "provision" \/ Unwritten(f)
       \/ \E q \in Queues : IsLoop(f, q) /\ Draining(q, base)
  /\ \A f \in Range(base) : f.op = "bind" \/ f.op = "deliver" => f \in Range(stack)

\* What it puts there: the event of a write, above one frame or none
Delivered(event, new, base) ==
  /\ new.op \in {"bind", "provision"}
  /\ \/ stack' = <<Delivery(event)>> \o base
     \/ /\ new \in Frames /\ Above(new, Range(base))
        /\ stack' = <<Delivery(event)>> \o (<<new>> \o base)

\* What a write leaves: what was on the stack, and an event that tells of it
VolumeWritten(op, v, new, ref, base, frame) ==
  /\ Carried /\ Nested(stack') /\ Range(base) \subseteq Range(stack')
  /\ \A f \in Range(stack') : f.op = "bind" => f \in Range(stack) \/ f = frame
  /\ \A c : ClaimGoes(c, stack') => ClaimGoes(c, stack)
  /\ \A c, u : Binding(c, u, FALSE, stack) => Binding(c, u, FALSE, stack')
  /\ claims' = claims /\ volumes' = [volumes EXCEPT ![v] = new]
  /\ volumes'[v] = new /\ \A u \in Names : u # v => volumes'[u] = volumes[u]
  /\ op # "Deleted" => VolumeComes(v, stack')
  /\ op = "Deleted" /\ ref # None => ClaimComes(ref, stack')

ClaimWritten(op, c, new, ref, base, frame) ==
  /\ Carried /\ Nested(stack') /\ Range(base) \subseteq Range(stack')
  /\ \A f \in Range(stack') : f.op = "bind" => f = frame \/ f \in Range(base)
  /\ \A f \in Range(base) : f.op = "bind" => f \in Range(stack)
  /\ \A d : ClaimGoes(d, stack') => ClaimGoes(d, stack) \/ (d = c /\ op = "Deleted")
  /\ volumes' = volumes /\ claims' = [claims EXCEPT ![c] = new]
  /\ claims'[c] = new /\ \A d \in Claims : d # c => claims'[d] = claims[d]
  /\ op # "Deleted" => ClaimComes(c, stack')
  /\ op = "Deleted" => ClaimGoes(c, stack')
  /\ op = "Deleted" /\ ref # None => VolumeComes(ref, stack')

\* What ClaimWrite asks of a write
ClaimChange(c, new) ==
  /\ claims' = [claims EXCEPT ![c] = new] /\ UNCHANGED volumes
  /\ \A d \in Claims : d # c => boundTo'[d] = boundTo[d]
  /\ Carried /\ Nested(stack')
  /\ \A f \in Range(stack') : f.op = "bind" =>
       BindMeans(f)' \/ (f \in Range(stack) /\ f.claim # c)
  /\ \A d \in Claims : ClaimGoes(d, stack') => ClaimGoes(d, stack) \/ (d = c /\ new = None)
  /\ \A d \in Claims : \A u \in Names :
       Binding(d, u, FALSE, stack) /\ d # c => Binding(d, u, FALSE, stack')
  /\ \A d \in Claims : InQueue("claims", d) => InQueue("claims", d)' \/ ~Dirty(d)'
  /\ \A u \in Names : InQueue("volumes", u) => InQueue("volumes", u)' \/ ~Orphan(u)'
  /\ \A u \in Names : new # None /\ volumes[u] # None /\ volumes[u].claim = c =>
       new.volume = u \/ Binding(c, u, FALSE, stack')
  /\ \A u \in Names : Orphan(u)' => Orphan(u) \/ VolumeComes(u, stack')
  /\ \A u \in Names : volumes[u] # None /\ ~Settled(u)' =>
       ~Settled(u) \/ VolumeComes(u, stack')
  /\ new # None => ClaimComes(c, stack')
  /\ new = None => boundTo'[c] = None \/ ClaimGoes(c, stack')
  /\ new # None => ~ClaimGoes(c, stack)
  /\ new # None /\ new.volume = None => boundTo'[c] = None
  /\ \A d \in Claims : d = c /\ new # None /\ Good(d)' =>
       boundTo'[c] = new.volume \/ Binding(c, new.volume, TRUE, stack')

\* An event of a claim, or of a volume, that nobody has heard of yet
ClaimAnnounced(c) ==
  \E f \in Range(stack) :
    /\ Untold(f, 1) /\ Untold(f, 2)
    /\ f.event.kind = "Claim" /\ f.event.op # "Deleted" /\ f.event.name = c
VolumeAnnounced(v) ==
  \E f \in Range(stack) :
    /\ Untold(f, 1) /\ Untold(f, 2) /\ f.event.kind = "Volume"
    /\ volumes[v] # None => f.event.op # "Deleted" /\ f.event.name = v

\* Claims and volumes that name each other go on to do so.
Steady ==
  \A c \in Claims :
    LET v == claims[c].volume
    IN  Good(c) /\ claims'[c] # None /\ volumes'[v] # None =>
          claims'[c].volume = v /\ volumes'[v].claim = c

-------------------------------------------------------------------------------
(* Queues *)

\* What add() leaves
Enqueued(q, key, rest) ==
  /\ UNCHANGED store
  /\ \A p \in Queues : p # q => queue'[p] = queue[p]
  /\ queue'[q] = queue[q] \/ queue'[q] = Append(queue[q], key)
  /\ \A p \in Queues : \A k : InQueue(p, k)' => InQueue(p, k) \/ (p = q /\ k = key)
  /\ Draining(q, stack')
  /\ \/ Draining(q, rest) /\ stack' = rest
     \/ ~Draining(q, rest) /\ stack' = <<Loop(q, MaxBatch)>> \o rest
  /\ Loop(q, MaxBatch) \in Frames /\ Range(rest) \subseteq Range(stack')
  /\ Range(stack') \subseteq Range(rest) \cup {Loop(q, MaxBatch)}

\* What AddAll leaves
Adding(frame, keys, rest, s) ==
  /\ s \in Seq(Frames) /\ frame \in Frames /\ frame.op = "addAll" /\ frame.keys = keys
  /\ keys = {} => s = rest
  /\ keys # {} => s = <<frame>> \o rest
  /\ Range(rest) \subseteq Range(s)
  /\ \A f \in Range(s) : f = frame \/ f \in Range(rest)

\* add() forgets nothing.
Kept(rest) ==
  /\ UNCHANGED store /\ Range(rest) \subseteq Range(stack')
  /\ \A p \in Queues : \A k : InQueue(p, k) => InQueue(p, k)'
Entered(q, key, rest) == Kept(rest) /\ InQueue(q, key)'

\* What the binding controller is told, its queues know.
Heard(event, rest) ==
  /\ Kept(rest)
  /\ \A c \in Claims : TellsClaim(event, c) => InQueue("claims", c)'
  /\ \A v \in Names : TellsVolume(event, v) => InQueue("volumes", v)'
  /\ \A c \in Claims : claims[c] # None /\ TellsPod(event, c) => InQueue("claims", c)'

\* What hearing of an event leaves
Relayed(rest) ==
  /\ UNCHANGED store
  /\ \A f \in Range(stack') :
       f.op = "loop" => f \in Range(rest) \/ \E q \in Queues : f = Loop(q, MaxBatch)
  /\ Range(rest) \subseteq Range(stack')
  /\ \A p \in Queues : queue'[p] = queue[p] \/ Draining(p, stack')

\* What a turn that writes nothing leaves above its loop
Leaves(q, key, new) ==
  /\ new.op \in {"provision", "addAll", "bind"}
  /\ new.op = "provision" => q = "provisioning"
  /\ new.op = "addAll" =>
       /\ q = "volumes" /\ new.queue = "claims"
       /\ \A k \in new.keys : IsOpen("claims", k) => IsOpen("volumes", key)
  /\ new.op = "bind" => new.written

-------------------------------------------------------------------------------
(* Steps and the room that loops have *)

\* Room for whatever may come
Ample(loop) ==
  /\ loop.left >= Debt + Longest
  /\ Hidden(loop.queue) => loop.left >= Debt + Round

\* No queue is opened but by a frame that may, in its run, open it.
Unopened(head) ==
  /\ \A q : Hidden(q)' => Hidden(q)
  /\ \A q \in Queues : OpenIn(q)' => OpenIn(q) \/ Writer(head)
  /\ OpenIn("volumes")' => OpenIn("volumes") \/ Carrier("claims", head)

\* What a frame leaves of itself asks no more of the loop of a queue below it.
Lighter(q, head, new) ==
  /\ \A f \in new : Writer(f)' => q = "provisioning" \/ Writer(head) \/ Hidden(q)
  /\ \A f \in new : Carrier(q, f)' => Carrier(q, head) \/ (Hidden(q) /\ ~Hidden(q)')
  /\ \/ queue'[q] = queue[q]
     \/ \E k \in Keys[q] :
          queue'[q] = Append(queue[q], k) /\ (IsOpen(q, k) => Carrier(q, head))
  /\ Ender(q, head) /\ Hidden(q)' => \E f \in new : Ender(q, f)

\* Of the loops below
Lightens(head, new, rest) ==
  \A q \in Queues : Draining(q, rest) => Lighter(q, head, new)

-------------------------------------------------------------------------------
(* Pods and StorageClasses *)

\* A step of a pod or a StorageClass
Notice(event) ==
  /\ Idle /\ UNCHANGED <<claims, volumes, boundTo, queue>>
  /\ event.kind \in {"Pod", "StorageClass"}
  /\ stack' = <<Delivery(event)>> \o << >>

PodStep(p) ==
  \/ \E c \in Claims : CreatePod(p, c)
  \/ Schedule(p) \/ TerminatePod(p) \/ RemovePod(p)

===============================================================================
