------------------------- MODULE ContainerStart_proofs -------------------------
(***************************************************************************)
(* Theorems about ContainerStart.  Every property of the timers comes down *)
(* to where they are: all but those of image pulls are in their slot, also *)
(* in the middle of a call (InSlots), and a taken slot has its timer,      *)
(* except that the one that shows the back-off is gone before the callback *)
(* has armed the restart in its place (SlotsFire, Backoff).  The pulls     *)
(* that no slot holds are counted (Room), because the proof needs a free   *)
(* timer id wherever one is armed.                                         *)
(***************************************************************************)
EXTENDS ContainerStart, FiniteSetTheorems, TLAPS

Registries ==
  [armed : [Ids -> Timers \cup {None}], slot : [Slots -> Ids \cup {None}]]

Captured(r) ==
  \A id \in Armed(r) :
    IF r.armed[id].does = "complete"
    THEN r.armed[id].pod \in Pods /\ r.armed[id].pod.phase = "Running"
    ELSE r.armed[id].pod = None

Typed(r) == r \in Registries /\ Captured(r)

Pulls(r) == {id \in Armed(r) : SlotOf(r.armed[id].does) = "imagePull"}
Strays(r) == Pulls(r) \ {r.slot["imagePull"]}

InSlots(r) == \A id \in Armed(r) \ Pulls(r) : r.slot[SlotOf(r.armed[id].does)] = id

SlotsFire(r, restarting) ==
  \A s \in Slots : r.slot[s] # None =>
    \/ r.slot[s] \in Armed(r) /\ SlotOf(r.armed[r.slot[s]].does) = s
    \/ r.slot[s] \notin Armed(r) /\ restarting /\ s = "restart"

Room(r, n) == Cardinality(Strays(r)) + n <= MaxTimers

\* No armed timer belongs in slot s.
Clear(r, s) == \A id \in Armed(r) : SlotOf(r.armed[id].does) # s

OnlyPulls(r) == \A s \in Slots \ {"imagePull"} : Clear(r, s)

\* What holds of a registry by itself; restarting: the callback that shows the
\* back-off is waiting for its update to be reconciled.
Sound(r, restarting) ==
  Typed(r) /\ InSlots(r) /\ SlotsFire(r, restarting) /\ Room(r, 5)

Restarting == after = "armRestart"

\* A pull's callback has left room for the timer it is about to arm.
Pulling == after \in {"armTransition", "armRetry"} => Room(registry, 6)

\* While the back-off is being shown, the slot of the restart keeps a crash from
\* arming another.
Backoff ==
  Restarting =>
    /\ Clear(registry, "restart")
    /\ ~pod.terminating
    /\ queued /\ ShouldProgress(pod) /\ Is(pod, "crashes")
         => registry.slot["restart"] # None

\* A name without a pod has pulls at most.
Alive == pod = None => OnlyPulls(registry) /\ after = "nothing"

\* So has a pending pod that is being deleted, once that has been reconciled.
Ending ==
  pod # None /\ pod.terminating /\ pod.phase = "Pending" /\ ~queued
    => OnlyPulls(registry)

IInv == TypeOK /\ Sound(registry, Restarting) /\ Pulling /\ Backoff /\ Alive /\ Ending

-------------------------------------------------------------------------------
(* Operators on registries *)

PullKinds == {"pull", "transition", "retry"}
Does == {"start", "complete", "showBackoff", "restart"} \cup PullKinds

LEMMA SlotOfTyped ==
  ASSUME NEW does \in Does
  PROVE  /\ SlotOf(does) \in Slots
         /\ SlotOf(does) = "imagePull" <=> does \in PullKinds
         /\ SlotOf(does) = "restart" <=> does \in {"showBackoff", "restart"}
         /\ SlotOf(does) = "completion" <=> does = "complete"
BY DEF Does, PullKinds, SlotOf, Slots

LEMMA ArmedTyped ==
  ASSUME NEW r, Typed(r), NEW id \in Armed(r)
  PROVE  /\ id \in Ids /\ id # None
         /\ r.armed[id] \in Timers /\ r.armed[id].does \in Does
         /\ r.slot \in [Slots -> Ids \cup {None}]
         /\ SlotOf(r.armed[id].does) \in Slots
<1>1. id \in Ids /\ r.armed[id] # None
  BY DEF Armed
<1>2. id # None
  BY <1>1, NoneAssumption, BoundsAssumption DEF Ids
<1>3. r.armed[id] \in Timers /\ r.slot \in [Slots -> Ids \cup {None}]
  BY <1>1 DEF Typed, Registries
<1>4. r.armed[id].does \in Does
  BY <1>3 DEF Timers, Does, PullKinds
<1> QED
  BY <1>1, <1>2, <1>3, <1>4, SlotOfTyped

LEMMA StraysFinite ==
  ASSUME NEW r, Typed(r)
  PROVE  IsFiniteSet(Strays(r)) /\ Cardinality(Strays(r)) \in Nat
<1>1. IsFiniteSet(Ids)
  BY FS_Interval, BoundsAssumption DEF Ids
<1>2. Strays(r) \in SUBSET Ids
  BY DEF Strays, Pulls, Armed
<1> QED
  BY <1>1, <1>2, FS_Subset, FS_CardinalityType

\* Fewer strays leave no less room.
LEMMA RoomKept ==
  ASSUME NEW r, NEW s, Typed(r), Typed(s), Strays(s) \subseteq Strays(r),
         NEW n \in Nat, Room(r, n)
  PROVE  Room(s, n)
<1>1. Cardinality(Strays(s)) <= Cardinality(Strays(r))
  BY StraysFinite, FS_Subset
<1> QED
  BY <1>1, StraysFinite, BoundsAssumption DEF Room

LEMMA OneMore ==
  ASSUME NEW S, IsFiniteSet(S), NEW x
  PROVE  /\ IsFiniteSet(S \cup {x})
         /\ Cardinality(S) \in Nat /\ Cardinality(S \cup {x}) \in Nat
         /\ Cardinality(S \cup {x}) <= Cardinality(S) + 1
<1>1. IsFiniteSet(S \cup {x})
  BY FS_AddElement
<1>2. Cardinality(S) \in Nat /\ Cardinality(S \cup {x}) \in Nat
  BY <1>1, FS_CardinalityType
<1> QED
  BY <1>1, <1>2, FS_AddElement

\* With room there is an id that neither a timer nor a slot has.
LEMMA FreeIdIsFree ==
  ASSUME NEW r, Typed(r), InSlots(r), Room(r, 5)
  PROVE  /\ FreeId(r) \in Ids \ Armed(r)
         /\ \A s \in Slots : r.slot[s] # FreeId(r)
<1> DEFINE a == Strays(r) \cup {r.slot["pending"]}
           b == a \cup {r.slot["completion"]}
           c == b \cup {r.slot["restart"]}
           d == c \cup {r.slot["imagePull"]}
<1>1. IsFiniteSet(a) /\ Cardinality(a) <= Cardinality(Strays(r)) + 1 /\ Cardinality(a) \in Nat
  BY StraysFinite, OneMore
<1> HIDE DEF a
<1>2. IsFiniteSet(b) /\ Cardinality(b) <= Cardinality(a) + 1 /\ Cardinality(b) \in Nat
  BY <1>1, OneMore
<1> HIDE DEF b
<1>3. IsFiniteSet(c) /\ Cardinality(c) <= Cardinality(b) + 1 /\ Cardinality(c) \in Nat
  BY <1>2, OneMore
<1> HIDE DEF c
<1>4. IsFiniteSet(d) /\ Cardinality(d) <= Cardinality(c) + 1 /\ Cardinality(d) \in Nat
  BY <1>3, OneMore
<1> HIDE DEF d
<1>5. Cardinality(d) < MaxTimers
  BY <1>1, <1>2, <1>3, <1>4, StraysFinite, BoundsAssumption DEF Room
<1>6. Cardinality(Ids) = MaxTimers
  BY FS_Interval, BoundsAssumption DEF Ids
<1>7. PICK id \in Ids : id \notin d
  <2>1. ~(Ids \subseteq d)
    BY <1>4, <1>5, <1>6, FS_Subset, BoundsAssumption
  <2> QED
    BY <2>1
<1>8. Taken(r) \subseteq d
  BY DEF a, b, c, d, Taken, Slots
<1>9. Armed(r) \subseteq d
  <2> SUFFICES ASSUME NEW x \in Armed(r)
               PROVE  x \in d
    OBVIOUS
  <2>1. CASE x \in Strays(r)
    BY <2>1 DEF a, b, c, d
  <2>2. CASE x \in Pulls(r) \ Strays(r)
    BY <2>2 DEF Strays, d
  <2>3. CASE x \notin Pulls(r)
    <3>1. r.slot[SlotOf(r.armed[x].does)] = x
      BY <2>3 DEF InSlots
    <3>2. SlotOf(r.armed[x].does) \in Slots
      BY ArmedTyped
    <3> QED
      BY <3>1, <3>2, <1>8 DEF Taken
  <2> QED
    BY <2>1, <2>2, <2>3
<1>10. FreeId(r) \in Ids /\ FreeId(r) \notin Armed(r) \cup Taken(r)
  BY <1>7, <1>8, <1>9 DEF FreeId
<1> QED
  BY <1>10 DEF Taken

\* An empty slot has no timer that belongs there.
LEMMA EmptyIsClear ==
  ASSUME NEW r, Typed(r), InSlots(r), NEW s \in Slots \ {"imagePull"}, r.slot[s] = None
  PROVE  Clear(r, s)
<1> SUFFICES ASSUME NEW id \in Armed(r), SlotOf(r.armed[id].does) = s
             PROVE  FALSE
  BY DEF Clear
<1>1. id \notin Pulls(r)
  BY DEF Pulls
<1> QED
  BY <1>1, ArmedTyped DEF InSlots

\* A timer that may be armed: what it captures, and whose place it takes.
MayArm(r, does, p) ==
  /\ IF does = "complete" THEN p \in Pods /\ p.phase = "Running" ELSE p = None
  /\ \/ r.slot[SlotOf(does)] = None
     \/ does \in PullKinds /\ Room(r, 6)
     \/ does \in {"showBackoff", "restart"} /\ Clear(r, "restart")

LEMMA ArmChanges ==
  ASSUME NEW r, Typed(r), InSlots(r), Room(r, 5), NEW does \in Does, NEW p \in Pods \cup {None}
  PROVE  LET q == Arm(r, does, p)
             f == FreeId(r)
         IN  /\ q \in Registries
             /\ f \in Ids /\ f # None
             /\ Armed(q) = Armed(r) \cup {f}
             /\ q.armed[f] = [does |-> does, pod |-> p]
             /\ \A id \in Armed(r) : q.armed[id] = r.armed[id]
             /\ q.slot[SlotOf(does)] = f
             /\ \A s \in Slots \ {SlotOf(does)} : q.slot[s] = r.slot[s]
<1> DEFINE q == Arm(r, does, p)
           f == FreeId(r)
           timer == [does |-> does, pod |-> p]
<1>1. f \in Ids \ Armed(r)
  BY FreeIdIsFree
<1>2. f # None
  BY <1>1, NoneAssumption, BoundsAssumption DEF Ids
<1>3. r.armed \in [Ids -> Timers \cup {None}] /\ r.slot \in [Slots -> Ids \cup {None}]
  BY DEF Typed, Registries
<1>4. timer \in Timers
  BY DEF Timers, Does, PullKinds
<1>5. timer # None
  BY <1>4, NoneAssumption
<1>6. SlotOf(does) \in Slots
  BY SlotOfTyped
<1> HIDE DEF f, timer
<1>7. /\ q.armed = [r.armed EXCEPT ![f] = timer]
      /\ q.slot = [r.slot EXCEPT ![SlotOf(does)] = f]
      /\ q = [armed |-> q.armed, slot |-> q.slot]
  BY DEF Arm, f, timer
<1> HIDE DEF q
<1>8. q.armed \in [Ids -> Timers \cup {None}] /\ q.slot \in [Slots -> Ids \cup {None}]
  BY <1>1, <1>3, <1>4, <1>6, <1>7
<1>9. q \in Registries
  BY <1>7, <1>8 DEF Registries
<1>10. Armed(q) = Armed(r) \cup {f}
  BY <1>1, <1>3, <1>5, <1>7 DEF Armed
<1>11. q.armed[f] = timer /\ \A id \in Armed(r) : q.armed[id] = r.armed[id]
  BY <1>1, <1>3, <1>7 DEF Armed
<1>12. /\ q.slot[SlotOf(does)] = f
       /\ \A s \in Slots \ {SlotOf(does)} : q.slot[s] = r.slot[s]
  BY <1>3, <1>6, <1>7
<1> QED
  BY <1>1, <1>2, <1>9, <1>10, <1>11, <1>12 DEF q, f, timer

\* Arming a timer keeps a registry sound, and makes strays only of the pull
\* whose place it takes.
LEMMA ArmKeeps ==
  ASSUME NEW r, NEW restarting \in BOOLEAN, Sound(r, restarting),
         NEW does \in Does, NEW p \in Pods \cup {None}, MayArm(r, does, p)
  PROVE  LET q == Arm(r, does, p)
         IN  /\ Sound(q, restarting /\ SlotOf(does) # "restart")
             /\ r.slot[SlotOf(does)] = None => \A n \in Nat : Room(r, n) => Room(q, n)
             /\ \A s \in Slots \ {SlotOf(does)} : Clear(r, s) => Clear(q, s)
             /\ \A s \in Slots \ {SlotOf(does)} : q.slot[s] = r.slot[s]
             /\ q.slot[SlotOf(does)] # None
<1> DEFINE q == Arm(r, does, p)
           f == FreeId(r)
           d == SlotOf(does)
<1>1. Typed(r) /\ InSlots(r) /\ SlotsFire(r, restarting) /\ Room(r, 5)
  BY DEF Sound
<1>2. /\ q \in Registries
      /\ f \in Ids /\ f # None
      /\ Armed(q) = Armed(r) \cup {f}
      /\ q.armed[f] = [does |-> does, pod |-> p]
      /\ \A id \in Armed(r) : q.armed[id] = r.armed[id]
      /\ q.slot[d] = f
      /\ \A s \in Slots \ {d} : q.slot[s] = r.slot[s]
  BY <1>1, ArmChanges
<1>3. q.armed[f].does = does /\ q.armed[f].pod = p
  BY <1>2
<1>4. d \in Slots /\ (d = "imagePull" <=> does \in PullKinds)
      /\ (d = "restart" <=> does \in {"showBackoff", "restart"})
  BY SlotOfTyped
<1>5. d # "imagePull" => Clear(r, d)
  BY <1>1, <1>4, EmptyIsClear DEF MayArm
<1>6. f \notin Armed(r) /\ \A s \in Slots : r.slot[s] # f
  BY <1>1, FreeIdIsFree
<1>7. ASSUME NEW id \in Armed(r)
      PROVE  SlotOf(r.armed[id].does) \in Slots /\ id # None
  BY <1>1, ArmedTyped
<1> HIDE DEF q, f, d
<1>8. Typed(q)
  BY <1>1, <1>2, <1>3 DEF Typed, Captured, MayArm
<1>9. Pulls(q) = IF d = "imagePull" THEN Pulls(r) \cup {f} ELSE Pulls(r)
  BY <1>2, <1>3, <1>6 DEF Pulls, d
<1>10. InSlots(q)
  <2> SUFFICES ASSUME NEW id \in Armed(q) \ Pulls(q)
               PROVE  q.slot[SlotOf(q.armed[id].does)] = id
    BY DEF InSlots
  <2>1. CASE id = f
    BY <2>1, <1>2, <1>3 DEF d
  <2>2. CASE id # f
    <3>1. id \in Armed(r) \ Pulls(r) /\ q.armed[id] = r.armed[id]
      BY <2>2, <1>2, <1>9
    <3>2. r.slot[SlotOf(r.armed[id].does)] = id
      BY <3>1, <1>1 DEF InSlots
    <3>3. SlotOf(r.armed[id].does) # d
      <4>1. CASE d = "imagePull"
        BY <4>1, <3>1 DEF Pulls
      <4>2. CASE d # "imagePull"
        BY <4>2, <3>1, <1>5 DEF Clear
      <4> QED
        BY <4>1, <4>2
    <3> QED
      BY <3>1, <3>2, <3>3, <1>2, <1>7
  <2> QED
    BY <2>1, <2>2
<1>11. SlotsFire(q, restarting /\ d # "restart")
  <2> SUFFICES ASSUME NEW s \in Slots, q.slot[s] # None
               PROVE  \/ q.slot[s] \in Armed(q) /\ SlotOf(q.armed[q.slot[s]].does) = s
                      \/ /\ q.slot[s] \notin Armed(q)
                         /\ restarting /\ d # "restart" /\ s = "restart"
    BY DEF SlotsFire
  <2>1. CASE s = d
    BY <2>1, <1>2, <1>3 DEF d
  <2>2. CASE s # d
    <3>1. q.slot[s] = r.slot[s] /\ r.slot[s] # f
      BY <2>2, <1>2, <1>6
    <3> QED
      BY <3>1, <2>2, <1>1, <1>2 DEF SlotsFire
  <2> QED
    BY <2>1, <2>2
<1>12. r.slot[d] = None => Strays(q) \subseteq Strays(r)
  <2> SUFFICES ASSUME r.slot[d] = None, NEW id \in Strays(q)
               PROVE  id \in Strays(r)
    OBVIOUS
  <2>1. CASE d = "imagePull"
    BY <2>1, <1>2, <1>7, <1>9 DEF Strays, Pulls
  <2>2. CASE d # "imagePull"
    BY <2>2, <1>2, <1>9 DEF Strays, Slots
  <2> QED
    BY <2>1, <2>2
<1>13. r.slot[d] = None => \A n \in Nat : Room(r, n) => Room(q, n)
  BY <1>1, <1>8, <1>12, RoomKept
<1>14. Room(q, 5)
  <2>1. CASE r.slot[d] = None
    BY <2>1, <1>1, <1>13
  <2>2. CASE does \in PullKinds /\ Room(r, 6)
    <3>1. Strays(q) \subseteq Strays(r) \cup {r.slot["imagePull"]}
      BY <2>2, <1>2, <1>4, <1>9 DEF Strays
    <3>2. Cardinality(Strays(q)) <= Cardinality(Strays(r)) + 1
      <4>1. IsFiniteSet(Strays(r) \cup {r.slot["imagePull"]})
            /\ Cardinality(Strays(r) \cup {r.slot["imagePull"]}) \in Nat
            /\ Cardinality(Strays(r) \cup {r.slot["imagePull"]}) <= Cardinality(Strays(r)) + 1
        BY <1>1, StraysFinite, OneMore
      <4>2. Cardinality(Strays(q)) <= Cardinality(Strays(r) \cup {r.slot["imagePull"]})
        BY <4>1, <3>1, FS_Subset
      <4> QED
        BY <4>1, <4>2, <1>1, <1>8, StraysFinite
    <3> QED
      BY <3>2, <2>2, <1>1, <1>8, StraysFinite, BoundsAssumption DEF Room
  <2>3. CASE does \in {"showBackoff", "restart"} /\ Clear(r, "restart")
    <3>1. d # "imagePull"
      BY <2>3, <1>4 DEF PullKinds
    <3>2. Strays(q) \subseteq Strays(r)
      BY <3>1, <1>2, <1>9 DEF Strays, Slots
    <3> QED
      BY <3>2, <1>1, <1>8, RoomKept
  <2> QED
    BY <2>1, <2>2, <2>3 DEF MayArm, d
<1>15. \A s \in Slots \ {d} : Clear(r, s) => Clear(q, s)
  BY <1>2, <1>3 DEF Clear, d
<1>16. Sound(q, restarting /\ d # "restart")
  BY <1>8, <1>10, <1>11, <1>14 DEF Sound
<1> QED
  BY <1>2, <1>13, <1>15, <1>16 DEF q, d

LEMMA CancelChanges ==
  ASSUME NEW r, Typed(r), NEW S \in SUBSET Slots
  PROVE  LET q == Cancel(r, S)
         IN  /\ q \in Registries
             /\ \A id \in Ids : id \in Armed(q) <=> id \in Armed(r) /\ \A s \in S : r.slot[s] # id
             /\ Armed(q) \subseteq Armed(r)
             /\ \A id \in Armed(q) : q.armed[id] = r.armed[id]
             /\ \A s \in S : q.slot[s] = None
             /\ \A s \in Slots \ S : q.slot[s] = r.slot[s]
<1> DEFINE q == Cancel(r, S)
<1>1. r.armed \in [Ids -> Timers \cup {None}] /\ r.slot \in [Slots -> Ids \cup {None}]
  BY DEF Typed, Registries
<1>2. /\ q.armed = [id \in Ids |-> IF \E s \in S : r.slot[s] = id THEN None ELSE r.armed[id]]
      /\ q.slot = [s \in Slots |-> IF s \in S THEN None ELSE r.slot[s]]
      /\ q = [armed |-> q.armed, slot |-> q.slot]
  BY DEF Cancel
<1> HIDE DEF q
<1>3. q.armed \in [Ids -> Timers \cup {None}] /\ q.slot \in [Slots -> Ids \cup {None}]
  BY <1>1, <1>2
<1>4. q \in Registries
  BY <1>2, <1>3 DEF Registries
<1>5. \A id \in Ids : id \in Armed(q) <=> id \in Armed(r) /\ \A s \in S : r.slot[s] # id
  BY <1>2 DEF Armed
<1>6. Armed(q) \subseteq Armed(r) /\ \A id \in Armed(q) : q.armed[id] = r.armed[id]
  BY <1>2 DEF Armed
<1>7. /\ \A s \in S : q.slot[s] = None
      /\ \A s \in Slots \ S : q.slot[s] = r.slot[s]
  BY <1>2
<1> QED
  BY <1>4, <1>5, <1>6, <1>7 DEF q

\* Cancelling keeps a registry sound and makes no strays; what is in its slot
\* is gone.
LEMMA CancelKeeps ==
  ASSUME NEW r, NEW restarting \in BOOLEAN, Sound(r, restarting), NEW S \in SUBSET Slots
  PROVE  LET q == Cancel(r, S)
         IN  /\ Sound(q, restarting)
             /\ \A n \in Nat : Room(r, n) => Room(q, n)
             /\ \A s \in Slots : Clear(r, s) => Clear(q, s)
             /\ \A s \in S \ {"imagePull"} : Clear(q, s)
             /\ \A s \in S : q.slot[s] = None
             /\ \A s \in Slots \ S : q.slot[s] = r.slot[s]
<1> DEFINE q == Cancel(r, S)
<1>1. Typed(r) /\ InSlots(r) /\ SlotsFire(r, restarting) /\ Room(r, 5)
  BY DEF Sound
<1>2. /\ q \in Registries
      /\ \A id \in Ids : id \in Armed(q) <=> id \in Armed(r) /\ \A s \in S : r.slot[s] # id
      /\ Armed(q) \subseteq Armed(r)
      /\ \A id \in Armed(q) : q.armed[id] = r.armed[id]
      /\ \A s \in S : q.slot[s] = None
      /\ \A s \in Slots \ S : q.slot[s] = r.slot[s]
  BY <1>1, CancelChanges
<1>3. ASSUME NEW id \in Armed(r)
      PROVE  id \in Ids /\ SlotOf(r.armed[id].does) \in Slots /\ id # None
  BY <1>1, ArmedTyped
<1> HIDE DEF q
<1>4. Typed(q)
  BY <1>1, <1>2 DEF Typed, Captured
<1>5. Pulls(q) = Armed(q) \cap Pulls(r)
  BY <1>2 DEF Pulls
<1>6. InSlots(q)
  <2> SUFFICES ASSUME NEW id \in Armed(q) \ Pulls(q)
               PROVE  q.slot[SlotOf(q.armed[id].does)] = id
    BY DEF InSlots
  <2>1. id \in Armed(r) \ Pulls(r) /\ q.armed[id] = r.armed[id]
    BY <1>2, <1>5
  <2>2. r.slot[SlotOf(r.armed[id].does)] = id
    BY <2>1, <1>1 DEF InSlots
  <2>3. SlotOf(r.armed[id].does) \in Slots \ S
    BY <2>1, <2>2, <1>2, <1>3
  <2> QED
    BY <2>1, <2>2, <2>3, <1>2
<1>7. SlotsFire(q, restarting)
  <2> SUFFICES ASSUME NEW s \in Slots, q.slot[s] # None
               PROVE  \/ q.slot[s] \in Armed(q) /\ SlotOf(q.armed[q.slot[s]].does) = s
                      \/ q.slot[s] \notin Armed(q) /\ restarting /\ s = "restart"
    BY DEF SlotsFire
  <2>1. s \in Slots \ S /\ q.slot[s] = r.slot[s]
    BY <1>2
  <2>2. CASE r.slot[s] \in Armed(r) /\ SlotOf(r.armed[r.slot[s]].does) = s
    <3>1. ASSUME NEW t \in S, r.slot[t] = r.slot[s]
          PROVE  FALSE
      <4>1. SlotOf(r.armed[r.slot[t]].does) = t
        BY <3>1, <2>2, <1>1, <1>3 DEF SlotsFire
      <4> QED
        BY <4>1, <3>1, <2>1, <2>2
    <3>2. r.slot[s] \in Armed(q)
      BY <3>1, <2>2, <1>2, <1>3
    <3> QED
      BY <3>2, <2>1, <2>2, <1>2
  <2>3. CASE r.slot[s] \notin Armed(r) /\ restarting /\ s = "restart"
    BY <2>3, <2>1, <1>2
  <2> QED
    BY <2>1, <2>2, <2>3, <1>1 DEF SlotsFire
<1>8. Strays(q) \subseteq Strays(r)
  <2> SUFFICES ASSUME NEW id \in Strays(q)
               PROVE  id # r.slot["imagePull"]
    BY <1>5 DEF Strays
  <2>1. id \in Armed(q) /\ id \in Ids
    BY <1>2, <1>3, <1>5 DEF Strays
  <2>2. CASE "imagePull" \in S
    BY <2>1, <2>2, <1>2
  <2>3. CASE "imagePull" \notin S
    BY <2>3, <1>2 DEF Strays, Slots
  <2> QED
    BY <2>2, <2>3
<1>9. \A n \in Nat : Room(r, n) => Room(q, n)
  BY <1>1, <1>4, <1>8, RoomKept
<1>10. Sound(q, restarting)
  BY <1>1, <1>4, <1>6, <1>7, <1>9 DEF Sound
<1>11. \A s \in Slots : Clear(r, s) => Clear(q, s)
  BY <1>2 DEF Clear
<1>12. \A s \in S \ {"imagePull"} : Clear(q, s)
  BY <1>2, <1>4, <1>6, EmptyIsClear
<1> QED
  BY <1>2, <1>9, <1>10, <1>11, <1>12 DEF q

LEMMA DisarmChanges ==
  ASSUME NEW r, Typed(r), NEW id \in Armed(r)
  PROVE  LET F == [r EXCEPT !.armed[id] = None]
             d == SlotOf(r.armed[id].does)
             G == Forget(F, d)
         IN  /\ Typed(F) /\ Armed(F) = Armed(r) \ {id}
             /\ \A x \in Armed(F) : F.armed[x] = r.armed[x]
             /\ F.slot = r.slot
             /\ Typed(G) /\ Armed(G) = Armed(r) \ {id}
             /\ \A x \in Armed(G) : G.armed[x] = r.armed[x]
             /\ G.slot[d] = None
             /\ \A s \in Slots \ {d} : G.slot[s] = r.slot[s]
<1> DEFINE F == [r EXCEPT !.armed[id] = None]
           d == SlotOf(r.armed[id].does)
           G == Forget(F, d)
<1>1. r.armed \in [Ids -> Timers \cup {None}] /\ r.slot \in [Slots -> Ids \cup {None}]
      /\ r = [armed |-> r.armed, slot |-> r.slot]
  BY DEF Typed, Registries
<1>2. id \in Ids /\ d \in Slots
  BY ArmedTyped
<1>3. /\ F.armed = [r.armed EXCEPT ![id] = None] /\ F.slot = r.slot
      /\ F = [armed |-> F.armed, slot |-> F.slot]
  BY <1>1
<1> HIDE DEF F
<1>4. /\ G.armed = F.armed /\ G.slot = [F.slot EXCEPT ![d] = None]
      /\ G = [armed |-> G.armed, slot |-> G.slot]
  BY <1>1, <1>3 DEF Forget
<1> HIDE DEF G, d
<1>5. F \in Registries /\ G \in Registries
  <2>1. F.armed \in [Ids -> Timers \cup {None}]
    BY <1>1, <1>2, <1>3
  <2>2. G.slot \in [Slots -> Ids \cup {None}]
    BY <1>1, <1>2, <1>3, <1>4
  <2> QED
    BY <2>1, <2>2, <1>1, <1>3, <1>4 DEF Registries
<1>6. Armed(F) = Armed(r) \ {id} /\ \A x \in Armed(F) : F.armed[x] = r.armed[x]
  BY <1>1, <1>2, <1>3 DEF Armed
<1>7. Armed(G) = Armed(r) \ {id} /\ \A x \in Armed(G) : G.armed[x] = r.armed[x]
  BY <1>4, <1>6 DEF Armed
<1>8. Typed(F) /\ Typed(G)
  BY <1>5, <1>6, <1>7 DEF Typed, Captured
<1>9. G.slot[d] = None /\ \A s \in Slots \ {d} : G.slot[s] = r.slot[s]
  BY <1>1, <1>2, <1>3, <1>4
<1> QED
  BY <1>3, <1>6, <1>7, <1>8, <1>9 DEF F, G, d

\* A timer that fires and whose slot is emptied, whoever had it.
LEMMA DropKeeps ==
  ASSUME NEW r, Sound(r, FALSE), NEW id \in Armed(r)
  PROVE  LET d == SlotOf(r.armed[id].does)
             G == Forget([r EXCEPT !.armed[id] = None], d)
         IN  /\ Sound(G, FALSE)
             /\ \A s \in Slots : Clear(r, s) => Clear(G, s)
             /\ G.slot[d] = None
             /\ Cardinality(Armed(r)) + 5 <= MaxTimers => Room(G, 6)
<1> DEFINE d == SlotOf(r.armed[id].does)
           G == Forget([r EXCEPT !.armed[id] = None], d)
<1>1. Typed(r) /\ InSlots(r) /\ SlotsFire(r, FALSE) /\ Room(r, 5)
  BY DEF Sound
<1>2. /\ Typed(G) /\ Armed(G) = Armed(r) \ {id}
      /\ \A x \in Armed(G) : G.armed[x] = r.armed[x]
      /\ G.slot[d] = None
      /\ \A s \in Slots \ {d} : G.slot[s] = r.slot[s]
  BY <1>1, DisarmChanges
<1>3. \A x \in Armed(r) : x \in Ids /\ x # None /\ SlotOf(r.armed[x].does) \in Slots
  BY <1>1, ArmedTyped
<1> HIDE DEF G, d
<1>4. Pulls(G) = Pulls(r) \ {id}
  BY <1>2 DEF Pulls
<1>5. InSlots(G)
  <2> SUFFICES ASSUME NEW x \in Armed(G) \ Pulls(G)
               PROVE  G.slot[SlotOf(G.armed[x].does)] = x
    BY DEF InSlots
  <2>1. x \in Armed(r) \ Pulls(r) /\ x # id /\ G.armed[x] = r.armed[x]
    BY <1>2, <1>4
  <2>2. r.slot[SlotOf(r.armed[x].does)] = x
    BY <2>1, <1>1 DEF InSlots
  <2>3. SlotOf(r.armed[x].does) # d
    <3>1. CASE id \in Pulls(r)
      BY <3>1, <2>1 DEF Pulls, d
    <3>2. CASE id \notin Pulls(r)
      BY <3>2, <2>1, <2>2, <1>1 DEF InSlots, d
    <3> QED
      BY <3>1, <3>2
  <2> QED
    BY <2>1, <2>2, <2>3, <1>2, <1>3
<1>6. SlotsFire(G, FALSE)
  <2> SUFFICES ASSUME NEW s \in Slots, G.slot[s] # None
               PROVE  G.slot[s] \in Armed(G) /\ SlotOf(G.armed[G.slot[s]].does) = s
    BY DEF SlotsFire
  <2>1. s # d /\ G.slot[s] = r.slot[s]
    BY <1>2
  <2>2. r.slot[s] \in Armed(r) /\ SlotOf(r.armed[r.slot[s]].does) = s
    BY <2>1, <1>1 DEF SlotsFire
  <2>3. r.slot[s] # id
    BY <2>1, <2>2 DEF d
  <2> QED
    BY <2>1, <2>2, <2>3, <1>2
<1>7. Room(G, 5)
  <2>1. CASE Strays(G) \subseteq Strays(r)
    BY <2>1, <1>1, <1>2, RoomKept
  <2>2. CASE ~(Strays(G) \subseteq Strays(r))
    <3>1. d = "imagePull"
      BY <2>2, <1>2, <1>4 DEF Strays, Slots
    <3>2. id \in Pulls(r)
      BY <3>1 DEF Pulls, d
    <3>3. id \in Strays(r)
      BY <2>2, <1>4, <3>2 DEF Strays
    <3>4. Strays(G) \subseteq (Strays(r) \ {id}) \cup {r.slot["imagePull"]}
      BY <1>4 DEF Strays
    <3>5. /\ IsFiniteSet(Strays(r) \ {id})
          /\ Cardinality(Strays(r) \ {id}) = Cardinality(Strays(r)) - 1
      BY <3>3, <1>1, StraysFinite, FS_RemoveElement
    <3> DEFINE U == (Strays(r) \ {id}) \cup {r.slot["imagePull"]}
    <3>6. IsFiniteSet(U) /\ Cardinality(U) \in Nat
          /\ Cardinality(U) <= Cardinality(Strays(r) \ {id}) + 1
      BY <3>5, OneMore
    <3> HIDE DEF U
    <3>7. Cardinality(Strays(G)) <= Cardinality(U)
      BY <3>4, <3>6, FS_Subset DEF U
    <3>8. Cardinality(Strays(G)) <= Cardinality(Strays(r))
      BY <3>5, <3>6, <3>7, <1>1, <1>2, StraysFinite
    <3> QED
      BY <3>8, <1>1, <1>2, StraysFinite, BoundsAssumption DEF Room
  <2> QED
    BY <2>1, <2>2
<1>8. ASSUME Cardinality(Armed(r)) + 5 <= MaxTimers
      PROVE  Room(G, 6)
  <2>1. IsFiniteSet(Armed(r))
    <3>1. IsFiniteSet(Ids)
      BY FS_Interval, BoundsAssumption DEF Ids
    <3>2. Armed(r) \in SUBSET Ids
      BY DEF Armed
    <3> QED
      BY <3>1, <3>2, FS_Subset
  <2>2. /\ IsFiniteSet(Armed(r) \ {id}) /\ Cardinality(Armed(r)) \in Nat
        /\ Cardinality(Armed(r) \ {id}) = Cardinality(Armed(r)) - 1
    BY <2>1, FS_RemoveElement, FS_CardinalityType
  <2>3. Strays(G) \subseteq Armed(r) \ {id}
    BY <1>2 DEF Strays, Pulls
  <2>4. Cardinality(Strays(G)) <= Cardinality(Armed(r) \ {id})
    BY <2>2, <2>3, FS_Subset
  <2> QED
    BY <1>8, <2>2, <2>4, <1>2, StraysFinite, BoundsAssumption DEF Room
<1>9. \A s \in Slots : Clear(r, s) => Clear(G, s)
  BY <1>2 DEF Clear
<1>10. Sound(G, FALSE)
  BY <1>2, <1>5, <1>6, <1>7 DEF Sound
<1> QED
  BY <1>2, <1>8, <1>9, <1>10 DEF G, d

\* The timer that shows the back-off keeps its slot.
LEMMA ShowingKeeps ==
  ASSUME NEW r, Sound(r, FALSE), NEW id \in Armed(r), r.armed[id].does = "showBackoff"
  PROVE  LET F == [r EXCEPT !.armed[id] = None]
         IN  /\ Sound(F, TRUE)
             /\ \A s \in Slots : Clear(r, s) => Clear(F, s)
             /\ Clear(F, "restart") /\ F.slot["restart"] = id /\ id # None
<1> DEFINE F == [r EXCEPT !.armed[id] = None]
<1>1. Typed(r) /\ InSlots(r) /\ SlotsFire(r, FALSE) /\ Room(r, 5)
  BY DEF Sound
<1>2. /\ Typed(F) /\ Armed(F) = Armed(r) \ {id}
      /\ \A x \in Armed(F) : F.armed[x] = r.armed[x]
      /\ F.slot = r.slot
  BY <1>1, DisarmChanges
<1>3. \A x \in Armed(r) : x \in Ids /\ x # None /\ SlotOf(r.armed[x].does) \in Slots
  BY <1>1, ArmedTyped
<1> HIDE DEF F
<1>4. SlotOf(r.armed[id].does) = "restart"
  BY DEF SlotOf
<1>5. r.slot["restart"] = id
  BY <1>1, <1>4 DEF InSlots, Pulls
<1>6. Pulls(F) = Pulls(r)
  BY <1>2, <1>4 DEF Pulls
<1>7. InSlots(F)
  BY <1>1, <1>2, <1>6 DEF InSlots
<1>8. SlotsFire(F, TRUE)
  <2> SUFFICES ASSUME NEW s \in Slots, F.slot[s] # None
               PROVE  \/ F.slot[s] \in Armed(F) /\ SlotOf(F.armed[F.slot[s]].does) = s
                      \/ F.slot[s] \notin Armed(F) /\ s = "restart"
    BY DEF SlotsFire
  <2>1. r.slot[s] \in Armed(r) /\ SlotOf(r.armed[r.slot[s]].does) = s
    BY <1>1, <1>2 DEF SlotsFire
  <2> QED
    BY <2>1, <1>2, <1>4
<1>9. Room(F, 5)
  <2>1. Strays(F) \subseteq Strays(r)
    BY <1>2, <1>6 DEF Strays
  <2> QED
    BY <2>1, <1>1, <1>2, RoomKept
<1>10. Sound(F, TRUE)
  BY <1>2, <1>7, <1>8, <1>9 DEF Sound
<1>11. \A s \in Slots : Clear(r, s) => Clear(F, s)
  BY <1>2 DEF Clear
<1>12. Clear(F, "restart")
  <2> SUFFICES ASSUME NEW x \in Armed(F), SlotOf(F.armed[x].does) = "restart"
               PROVE  FALSE
    BY DEF Clear
  <2>1. x \in Armed(r) \ {id} /\ SlotOf(r.armed[x].does) = "restart"
    BY <1>2
  <2> QED
    BY <2>1, <1>1, <1>5 DEF InSlots, Pulls
<1> QED
  BY <1>2, <1>3, <1>5, <1>10, <1>11, <1>12 DEF F

-------------------------------------------------------------------------------
(* Operators on pods *)

LEMMA PodFields ==
  ASSUME NEW p \in Pods
  PROVE  /\ p # None
         /\ p.image \in Images /\ p.policy \in Policies
         /\ p.phase \in {"Pending", "Running", "Succeeded", "Failed"}
         /\ p.reason \in Reasons /\ p.last \in Reasons \cup {None}
         /\ p.restarts \in 0..RestartCycle - 1 /\ p.terminating \in BOOLEAN
BY NoneAssumption DEF Pods

LEMMA WaitingTyped ==
  ASSUME NEW p \in Pods, NEW reason \in Reasons
  PROVE  LET q == Waiting(p, reason)
         IN  /\ q \in Pods
             /\ q.image = p.image /\ q.policy = p.policy /\ q.terminating = p.terminating
             /\ q.restarts = p.restarts
             /\ q.phase \in {p.phase, "Pending"}
             /\ q = p \/ q.reason = reason
BY DEF Waiting, Pods

LEMMA WaitingForVolumeTyped ==
  ASSUME NEW p \in Pods
  PROVE  LET q == WaitingForVolume(p)
         IN  /\ q \in Pods
             /\ q.image = p.image /\ q.policy = p.policy /\ q.terminating = p.terminating
             /\ q.phase \in {p.phase, "Pending"}
             /\ q = p \/ q.reason = "VolumesNotReady"
BY WaitingTyped DEF WaitingForVolume, Reasons

LEMMA TerminatedTyped ==
  ASSUME NEW p \in Pods, NEW reason \in Reasons,
         NEW phase \in {"Pending", "Running", "Succeeded", "Failed"}
  PROVE  LET q == Terminated(p, reason, phase)
         IN  /\ q \in Pods /\ q.phase = phase /\ q.reason = reason
             /\ q.image = p.image /\ q.policy = p.policy /\ q.terminating = p.terminating
             /\ q.restarts = p.restarts
BY DEF Terminated, Pods

LEMMA CrashedTyped ==
  ASSUME NEW p \in Pods
  PROVE  LET q == Crashed(p)
         IN  /\ q \in Pods /\ q.phase = "Pending" /\ q.reason = "Error"
             /\ q.image = p.image /\ q.policy = p.policy /\ q.terminating = p.terminating
             /\ q.restarts = (p.restarts + 1) % RestartCycle
<1> DEFINE t == Terminated(p, "Error", "Pending")
<1>1. /\ t \in Pods /\ t.phase = "Pending" /\ t.reason = "Error"
      /\ t.image = p.image /\ t.policy = p.policy /\ t.terminating = p.terminating
      /\ t.restarts = p.restarts
  BY TerminatedTyped DEF Reasons
<1>2. (p.restarts + 1) % RestartCycle \in 0..RestartCycle - 1
  BY PodFields DEF RestartCycle
<1>3. Crashed(p) = [t EXCEPT !.restarts = (t.restarts + 1) % RestartCycle]
  BY DEF Crashed
<1> HIDE DEF t
<1> QED
  BY <1>1, <1>2, <1>3 DEF Pods

LEMMA RunningTyped ==
  ASSUME NEW p \in Pods
  PROVE  LET q == Running(p)
         IN  /\ q \in Pods /\ q.phase = "Running" /\ q.reason = "Running"
             /\ q.image = p.image /\ q.policy = p.policy /\ q.terminating = p.terminating
BY DEF Running, Pods, Reasons

LEMMA EmitTyped ==
  ASSUME NEW p, Emit(p)
  PROVE  /\ pod' = p /\ queued' \in BOOLEAN
         /\ p = pod => ~queued'
         /\ queued' => ShouldProgress(p)
         /\ p # pod /\ ShouldProgress(p) => queued'
BY DEF Emit

LEMMA ProgressingPod ==
  ASSUME pod \in Pods \cup {None}, ShouldProgress(pod)
  PROVE  pod \in Pods /\ pod # None /\ pod.phase = "Pending"
BY PodFields DEF ShouldProgress

LEMMA Decisions ==
  ASSUME pod \in Pods \cup {None}
  PROVE  /\ Decision \in {"NotFound", "Terminating"} => pod = None \/ pod.terminating
         /\ Decision = "NotSchedulable" =>
              pod # None /\ ~pod.terminating /\ ~ShouldProgress(pod)
         /\ Decision = "VolumeBlocked" => ShouldProgress(pod) /\ ~pod.terminating
         /\ Decision = "StartupIssueOrReady" => ShouldProgress(pod) /\ ~pod.terminating
<1>1. CASE pod = None
  BY <1>1 DEF Decision, ShouldProgress
<1>2. CASE pod # None /\ pod.terminating
  BY <1>2 DEF Decision, ShouldProgress
<1>3. CASE pod # None /\ ~pod.terminating /\ ~ShouldProgress(pod)
  BY <1>3 DEF Decision
<1>4. CASE pod # None /\ ~pod.terminating /\ ShouldProgress(pod)
  BY <1>4 DEF Decision
<1> QED
  BY <1>1, <1>2, <1>3, <1>4

\* The completion of a running pod is armed in its own slot or not at all.
LEMMA CompletionKeeps ==
  ASSUME NEW r, NEW restarting \in BOOLEAN, Sound(r, restarting),
         NEW p \in Pods, p.phase = "Running"
  PROVE  LET q == ScheduleCompletion(p, r)
         IN  /\ Sound(q, restarting)
             /\ \A n \in Nat : Room(r, n) => Room(q, n)
             /\ \A s \in Slots \ {"completion"} : Clear(r, s) => Clear(q, s)
<1>1. CASE ~Completes(p)
  <2>1. {"completion"} \in SUBSET Slots
    BY DEF Slots
  <2> QED
    BY <1>1, <2>1, CancelKeeps DEF ScheduleCompletion
<1>2. CASE Completes(p) /\ (r.slot["completion"] # None \/ ~delays)
  BY <1>2 DEF ScheduleCompletion
<1>3. CASE Completes(p) /\ r.slot["completion"] = None /\ delays
  <2>1. ScheduleCompletion(p, r) = Arm(r, "complete", p)
    BY <1>3 DEF ScheduleCompletion
  <2>2. "complete" \in Does /\ SlotOf("complete") = "completion"
    BY SlotOfTyped DEF Does, PullKinds
  <2>3. MayArm(r, "complete", p)
    BY <1>3, <2>2 DEF MayArm
  <2>4. (restarting /\ SlotOf("complete") # "restart") = restarting
    BY <2>2
  <2> HIDE DEF MayArm
  <2> QED
    BY <1>3, <2>1, <2>2, <2>3, <2>4, ArmKeeps
<1> QED
  BY <1>1, <1>2, <1>3

-------------------------------------------------------------------------------
(* Every step keeps the invariant *)

Afters == {"nothing", "armTransition", "armRetry", "armRestart"}

LEMMA TypeNext ==
  ASSUME pod' \in Pods \cup {None}, Typed(registry'), pulled' \in BOOLEAN,
         queued' \in BOOLEAN, after' \in Afters, volumesReady' \in BOOLEAN,
         edits' \in 0..MaxEdits, delays' \in Delays
  PROVE  TypeOK'
BY DEF TypeOK, Typed, Registries, Captured, Armed, Afters

LEMMA TypeNow ==
  ASSUME TypeOK
  PROVE  /\ pod \in Pods \cup {None} /\ pulled \in BOOLEAN /\ queued \in BOOLEAN
         /\ after \in Afters /\ volumesReady \in BOOLEAN /\ edits \in 0..MaxEdits
         /\ delays \in Delays /\ delays \in BOOLEAN /\ Restarting \in BOOLEAN
BY DelaysAssumption DEF TypeOK, Afters, Restarting

\* What a reconciliation owes, whatever it decides.
Reconciled ==
  /\ pod' \in Pods \cup {None} /\ queued' \in BOOLEAN /\ pulled' \in BOOLEAN
  /\ Sound(registry', Restarting)
  /\ Room(registry, 6) => Room(registry', 6)
  /\ Backoff' /\ Alive' /\ Ending'

LEMMA ReleaseReconciles ==
  ASSUME IInv, queued, UNCHANGED after, pod = None \/ pod.terminating, Release, Emit(pod)
  PROVE  Reconciled
<1>1. /\ pod \in Pods \cup {None} /\ Restarting \in BOOLEAN
  BY TypeNow DEF IInv
<1>2. pod' = pod /\ queued' \in BOOLEAN /\ pulled' \in BOOLEAN
  BY EmitTyped DEF Release
<1>3. /\ Sound(registry', Restarting)
      /\ Room(registry, 6) => Room(registry', 6)
      /\ OnlyPulls(registry')
  BY <1>1, CancelKeeps DEF Release, OnlyPulls, IInv
<1>4. ~Restarting
  BY <1>1 DEF IInv, Backoff, Alive, Restarting
<1>5. Backoff' /\ Alive' /\ Ending'
  BY <1>2, <1>3, <1>4 DEF Backoff, Alive, Ending, IInv, Restarting, OnlyPulls, Clear, Armed
<1> QED
  BY <1>1, <1>2, <1>3, <1>5 DEF Reconciled

LEMMA LeaveReconciles ==
  ASSUME IInv, queued, UNCHANGED after, pod # None, ~pod.terminating, Leave
  PROVE  Reconciled
<1> DEFINE S == Slots \ IF pod.phase = "Running" THEN {"completion"} ELSE {}
<1>1. /\ pod \in Pods /\ Restarting \in BOOLEAN /\ pulled \in BOOLEAN
  BY TypeNow DEF IInv
<1>2. pod' = pod /\ ~queued' /\ queued' \in BOOLEAN /\ pulled' \in BOOLEAN
  BY <1>1, EmitTyped DEF Leave
<1>3. registry' = Cancel(registry, S) /\ S \in SUBSET Slots
  BY DEF Leave
<1> HIDE DEF S
<1>4. /\ Sound(registry', Restarting)
      /\ Room(registry, 6) => Room(registry', 6)
      /\ Clear(registry, "restart") => Clear(registry', "restart")
  BY <1>1, <1>3, CancelKeeps DEF IInv, Slots
<1>5. Backoff'
  BY <1>2, <1>4 DEF Backoff, IInv, Restarting, Clear, Armed
<1>6. Alive' /\ Ending'
  BY <1>1, <1>2, PodFields DEF Alive, Ending
<1> QED
  BY <1>1, <1>2, <1>4, <1>5, <1>6 DEF Reconciled

LEMMA WaitReconciles ==
  ASSUME IInv, queued, UNCHANGED after, ShouldProgress(pod), ~pod.terminating, WaitForVolumes
  PROVE  Reconciled
<1>1. /\ pod \in Pods /\ Restarting \in BOOLEAN /\ pulled \in BOOLEAN
  BY TypeNow, ProgressingPod DEF IInv
<1>2. /\ pod' \in Pods /\ pod'.image = pod.image /\ pod'.terminating = pod.terminating
      /\ queued' \in BOOLEAN /\ pulled' \in BOOLEAN
  BY <1>1, EmitTyped, WaitingForVolumeTyped DEF WaitForVolumes
<1>3. registry' = Cancel(registry, {"pending", "imagePull"})
      /\ {"pending", "imagePull"} \in SUBSET Slots /\ "restart" \in Slots \ {"pending", "imagePull"}
  BY DEF WaitForVolumes, Slots
<1>4. /\ Sound(registry', Restarting)
      /\ Room(registry, 6) => Room(registry', 6)
      /\ Clear(registry, "restart") => Clear(registry', "restart")
      /\ registry'.slot["restart"] = registry.slot["restart"]
  BY <1>1, <1>3, CancelKeeps DEF IInv
<1>5. Backoff'
  BY <1>2, <1>4 DEF Backoff, IInv, Restarting, Clear, Armed, Is
<1>6. Alive' /\ Ending'
  BY <1>1, <1>2, PodFields DEF Alive, Ending
<1> QED
  BY <1>1, <1>2, <1>4, <1>5, <1>6 DEF Reconciled

LEMMA PullReconciles ==
  ASSUME IInv, queued, UNCHANGED after, ShouldProgress(pod), ~pod.terminating,
         Is(pod, "missing"), PullImage
  PROVE  Reconciled
<1>1. /\ pod \in Pods /\ Restarting \in BOOLEAN /\ pulled \in BOOLEAN /\ pulled' \in BOOLEAN
  BY TypeNow, ProgressingPod DEF IInv, PullImage
<1>2. CASE registry.slot["imagePull"] # None
  <2>1. pod' = pod /\ ~queued' /\ queued' \in BOOLEAN /\ UNCHANGED registry
    BY <1>2, EmitTyped DEF PullImage
  <2>2. Backoff' /\ Alive' /\ Ending'
    BY <2>1, <1>1, PodFields DEF Backoff, Alive, Ending, IInv, Restarting, Clear, Armed
  <2> QED
    BY <1>1, <2>1, <2>2 DEF Reconciled, IInv
<1>3. CASE registry.slot["imagePull"] = None
  <2> DEFINE c == Cancel(registry, {"pending", "restart"})
             p == IF pulled THEN pod ELSE Waiting(pod, "ContainerCreating")
  <2>1. Emit(p) /\ registry' = Arm(c, "pull", None)
    BY <1>3 DEF PullImage
  <2>2. p \in Pods /\ p.image = pod.image /\ p.terminating = pod.terminating
    BY <1>1, WaitingTyped DEF Reasons
  <2> HIDE DEF p
  <2>3. /\ pod' \in Pods /\ pod'.image = pod.image /\ pod'.terminating = pod.terminating
        /\ queued' \in BOOLEAN
    BY <2>1, <2>2, EmitTyped
  <2>4. /\ Sound(c, Restarting)
        /\ \A n \in Nat : Room(registry, n) => Room(c, n)
        /\ \A s \in Slots : Clear(registry, s) => Clear(c, s)
        /\ c.slot["imagePull"] = None
    <3>1. {"pending", "restart"} \in SUBSET Slots /\ "imagePull" \in Slots \ {"pending", "restart"}
      BY DEF Slots
    <3> QED
      BY <1>1, <1>3, <3>1, CancelKeeps DEF IInv
  <2> HIDE DEF c
  <2>5. "pull" \in Does /\ SlotOf("pull") = "imagePull"
    BY SlotOfTyped DEF Does, PullKinds
  <2>6. MayArm(c, "pull", None)
    BY <2>4, <2>5 DEF MayArm
  <2>7. (Restarting /\ SlotOf("pull") # "restart") = Restarting
    BY <2>5, <1>1
  <2> HIDE DEF MayArm
  <2>8. /\ Sound(registry', Restarting)
        /\ \A n \in Nat : Room(c, n) => Room(registry', n)
        /\ \A s \in Slots \ {"imagePull"} : Clear(c, s) => Clear(registry', s)
    BY <1>1, <2>1, <2>4, <2>5, <2>6, <2>7, ArmKeeps
  <2>9. Clear(registry, "restart") => Clear(registry', "restart")
    BY <2>4, <2>8 DEF Slots
  <2>10. Backoff'
    BY <2>3, <2>9 DEF Backoff, IInv, Restarting, Clear, Armed, Is
  <2>11. Alive' /\ Ending'
    BY <1>1, <2>3, PodFields DEF Alive, Ending
  <2> QED
    BY <1>1, <2>3, <2>4, <2>8, <2>10, <2>11 DEF Reconciled
<1> QED
  BY <1>2, <1>3

LEMMA CrashReconciles ==
  ASSUME IInv, queued, UNCHANGED after, ShouldProgress(pod), ~pod.terminating,
         Is(pod, "crashes"), HandleCrash
  PROVE  Reconciled
<1>1. /\ pod \in Pods /\ Restarting \in BOOLEAN /\ pulled' \in BOOLEAN
  BY TypeNow, ProgressingPod DEF IInv, HandleCrash
<1>2. CASE pod.policy = "Never"
  <2> DEFINE p == Terminated(pod, "Error", "Failed")
             S == {"imagePull", "pending", "restart"}
  <2>1. Emit(p) /\ registry' = Cancel(registry, S)
    BY <1>2 DEF HandleCrash
  <2>2. p \in Pods /\ p.phase = "Failed" /\ p.terminating = pod.terminating
    BY <1>1, TerminatedTyped DEF Reasons
  <2>3. ~ShouldProgress(p)
    BY <2>2 DEF ShouldProgress
  <2> HIDE DEF p
  <2>4. pod' \in Pods /\ ~pod'.terminating /\ queued' \in BOOLEAN /\ ~queued'
    BY <2>1, <2>2, <2>3, EmitTyped
  <2>5. S \in SUBSET Slots /\ "restart" \in S \ {"imagePull"}
    BY DEF Slots
  <2> HIDE DEF S
  <2>6. /\ Sound(registry', Restarting)
        /\ Room(registry, 6) => Room(registry', 6)
        /\ Clear(registry', "restart")
    BY <1>1, <2>1, <2>5, CancelKeeps DEF IInv
  <2>7. Backoff' /\ Alive' /\ Ending'
    BY <2>4, <2>6, PodFields DEF Backoff, Alive, Ending, Clear, Armed
  <2> QED
    BY <1>1, <2>4, <2>6, <2>7 DEF Reconciled
<1>3. CASE pod.policy # "Never" /\ registry.slot["restart"] # None
  <2>1. Emit(pod) /\ registry' = Cancel(registry, {"imagePull"})
    BY <1>3 DEF HandleCrash
  <2>2. pod' = pod /\ queued' \in BOOLEAN /\ ~queued'
    BY <2>1, EmitTyped
  <2>3. /\ Sound(registry', Restarting)
        /\ Room(registry, 6) => Room(registry', 6)
        /\ Clear(registry, "restart") => Clear(registry', "restart")
    <3>1. {"imagePull"} \in SUBSET Slots /\ "restart" \in Slots
      BY DEF Slots
    <3> QED
      BY <1>1, <2>1, <3>1, CancelKeeps DEF IInv
  <2>4. Backoff' /\ Alive' /\ Ending'
    BY <1>1, <2>2, <2>3, PodFields
       DEF Backoff, Alive, Ending, IInv, Restarting, Clear, Armed
  <2> QED
    BY <1>1, <2>2, <2>3, <2>4 DEF Reconciled
<1>4. CASE pod.policy # "Never" /\ registry.slot["restart"] = None
  <2> DEFINE c == Cancel(registry, {"imagePull", "pending"})
  <2>1. Emit(Crashed(pod)) /\ registry' = Arm(c, "showBackoff", None)
    BY <1>4 DEF HandleCrash
  <2>2. pod' \in Pods /\ ~pod'.terminating /\ queued' \in BOOLEAN
    BY <1>1, <2>1, CrashedTyped, EmitTyped
  <2>3. ~Restarting
    BY <1>4 DEF IInv, Backoff
  <2>4. /\ Sound(c, FALSE)
        /\ \A n \in Nat : Room(registry, n) => Room(c, n)
        /\ c.slot["restart"] = None
    <3>1. {"imagePull", "pending"} \in SUBSET Slots
          /\ "restart" \in Slots \ {"imagePull", "pending"}
      BY DEF Slots
    <3>2. /\ Sound(c, Restarting)
          /\ \A n \in Nat : Room(registry, n) => Room(c, n)
          /\ c.slot["restart"] = None
      BY <1>1, <1>4, <3>1, CancelKeeps DEF IInv
    <3> HIDE DEF c
    <3> QED
      BY <2>3, <3>2 DEF Sound, SlotsFire
  <2> HIDE DEF c
  <2>5. "showBackoff" \in Does /\ SlotOf("showBackoff") = "restart"
    BY SlotOfTyped DEF Does, PullKinds
  <2>6. MayArm(c, "showBackoff", None)
    BY <2>4, <2>5 DEF MayArm
  <2>7. (FALSE /\ SlotOf("showBackoff") # "restart") = FALSE
    OBVIOUS
  <2> HIDE DEF MayArm
  <2>8. /\ Sound(registry', FALSE)
        /\ \A n \in Nat : Room(c, n) => Room(registry', n)
    BY <2>1, <2>4, <2>5, <2>6, <2>7, ArmKeeps
  <2>9. Sound(registry', Restarting)
    BY <1>1, <2>3, <2>8 DEF Sound, SlotsFire
  <2>10. ~Restarting' /\ Backoff' /\ Alive' /\ Ending'
    BY <2>2, <2>3, PodFields DEF Backoff, Alive, Ending, Restarting
  <2> QED
    BY <1>1, <2>2, <2>4, <2>8, <2>9, <2>10 DEF Reconciled
<1> QED
  BY <1>2, <1>3, <1>4

LEMMA StartReconciles ==
  ASSUME IInv, queued, UNCHANGED after, ShouldProgress(pod), ~pod.terminating,
         pod.image.kind \in {"runs", "completes"}, StartContainer
  PROVE  Reconciled
<1> DEFINE c == Cancel(registry, {"imagePull", "restart"})
           creating == Waiting(pod, "ContainerCreating")
<1>1. /\ pod \in Pods /\ Restarting \in BOOLEAN /\ pulled' \in BOOLEAN
  BY TypeNow, ProgressingPod DEF IInv, StartContainer
<1>2. /\ Sound(c, Restarting)
      /\ \A n \in Nat : Room(registry, n) => Room(c, n)
      /\ Clear(c, "restart")
      /\ c.slot["pending"] = registry.slot["pending"]
  <2>1. {"imagePull", "restart"} \in SUBSET Slots
        /\ "restart" \in {"imagePull", "restart"} \ {"imagePull"}
        /\ "pending" \in Slots \ {"imagePull", "restart"}
    BY DEF Slots
  <2> QED
    BY <1>1, <2>1, CancelKeeps DEF IInv
<1>3. /\ creating \in Pods /\ creating.image = pod.image
      /\ creating.terminating = pod.terminating
  BY <1>1, WaitingTyped DEF Reasons
<1> HIDE DEF creating
<1>4. /\ pod' \in Pods /\ pod'.image = pod.image /\ pod'.terminating = pod.terminating
      /\ queued' \in BOOLEAN
      /\ Sound(registry', Restarting)
      /\ \A n \in Nat : Room(c, n) => Room(registry', n)
      /\ Clear(registry', "restart")
  <2>1. CASE registry.slot["pending"] # None
    <3>1. Emit(pod) /\ registry' = c
      BY <2>1 DEF StartContainer
    <3> QED
      BY <1>1, <1>2, <3>1, EmitTyped
  <2>2. CASE registry.slot["pending"] = None /\ delays
    <3>1. Emit(creating) /\ registry' = Arm(c, "start", None)
      BY <2>2 DEF StartContainer, creating
    <3> HIDE DEF c
    <3>2. "start" \in Does /\ SlotOf("start") = "pending"
      BY SlotOfTyped DEF Does, PullKinds, SlotOf
    <3>3. MayArm(c, "start", None)
      BY <1>2, <2>2, <3>2 DEF MayArm
    <3>4. (Restarting /\ SlotOf("start") # "restart") = Restarting
      BY <3>2, <1>1
    <3> HIDE DEF MayArm
    <3>5. /\ Sound(registry', Restarting)
          /\ \A n \in Nat : Room(c, n) => Room(registry', n)
          /\ \A s \in Slots \ {"pending"} : Clear(c, s) => Clear(registry', s)
      BY <1>1, <1>2, <2>2, <3>1, <3>2, <3>3, <3>4, ArmKeeps
    <3>6. Clear(registry', "restart")
      BY <1>2, <3>5 DEF Slots
    <3> QED
      BY <1>3, <3>1, <3>5, <3>6, EmitTyped
  <2>3. CASE registry.slot["pending"] = None /\ ~delays
    <3>1. /\ pod' = Running(pod) /\ queued' = (creating # pod)
          /\ registry' = ScheduleCompletion(Running(pod), c)
      BY <2>3 DEF StartContainer, creating
    <3>2. /\ Running(pod) \in Pods /\ Running(pod).phase = "Running"
          /\ Running(pod).image = pod.image /\ Running(pod).terminating = pod.terminating
      BY <1>1, RunningTyped
    <3> HIDE DEF c
    <3>3. /\ Sound(registry', Restarting)
          /\ \A n \in Nat : Room(c, n) => Room(registry', n)
          /\ \A s \in Slots \ {"completion"} : Clear(c, s) => Clear(registry', s)
      BY <1>1, <1>2, <3>1, <3>2, CompletionKeeps
    <3>4. Clear(registry', "restart")
      BY <1>2, <3>3 DEF Slots
    <3>5. queued' \in BOOLEAN
      BY <3>1
    <3> QED
      BY <3>1, <3>2, <3>3, <3>4, <3>5
  <2> QED
    BY <2>1, <2>2, <2>3
<1> HIDE DEF c
<1>5. ~Is(pod', "crashes")
  BY <1>4 DEF Is
<1>6. Backoff' /\ Alive' /\ Ending'
  BY <1>4, <1>5, PodFields DEF Backoff, Alive, Ending, Clear, Armed, Is
<1> QED
  BY <1>1, <1>2, <1>4, <1>6 DEF Reconciled

LEMMA ReconcileKeeps ==
  ASSUME IInv, Reconcile
  PROVE  IInv'
<1>1. /\ pod \in Pods \cup {None}
      /\ queued /\ UNCHANGED <<after, volumesReady, edits, delays>>
  BY TypeNow DEF IInv, Reconcile
<1>2. Reconciled
  <2>1. CASE Decision \in {"NotFound", "Terminating"} /\ Release /\ Emit(pod)
    BY <1>1, <2>1, Decisions, ReleaseReconciles
  <2>2. CASE Decision = "NotSchedulable" /\ Leave
    BY <1>1, <2>2, Decisions, LeaveReconciles
  <2>3. CASE Decision = "VolumeBlocked" /\ WaitForVolumes
    BY <1>1, <2>3, Decisions, WaitReconciles
  <2>4. CASE Decision = "StartupIssueOrReady" /\ Is(pod, "missing") /\ PullImage
    BY <1>1, <2>4, Decisions, PullReconciles
  <2>5. CASE Decision = "StartupIssueOrReady" /\ Is(pod, "crashes") /\ HandleCrash
    BY <1>1, <2>5, Decisions, CrashReconciles
  <2>6. CASE /\ Decision = "StartupIssueOrReady" /\ pod.image.kind \in {"runs", "completes"}
             /\ StartContainer
    BY <1>1, <2>6, Decisions, StartReconciles
  <2> QED
    BY <2>1, <2>2, <2>3, <2>4, <2>5, <2>6 DEF Reconcile
<1>3. TypeOK'
  BY <1>1, <1>2, TypeNow, TypeNext DEF Reconciled, Sound, IInv
<1>4. Sound(registry, Restarting)'
  BY <1>1, <1>2 DEF Reconciled, Restarting, Sound, Typed, Registries, Captured, InSlots,
    Pulls, Armed, SlotsFire, Room, Strays
<1>5. Pulling'
  BY <1>1, <1>2 DEF Reconciled, Pulling, IInv, Room, Strays, Pulls, Armed
<1> QED
  BY <1>2, <1>3, <1>4, <1>5 DEF IInv, Reconciled

\* What a callback owes.
Called ==
  /\ pod' \in Pods \cup {None} /\ queued' \in BOOLEAN /\ pulled' \in BOOLEAN /\ after' \in Afters
  /\ Sound(registry', Restarting')
  /\ Pulling' /\ Backoff' /\ Alive' /\ Ending'

LEMMA CallKeeps ==
  ASSUME IInv, Called, volumesReady' \in BOOLEAN, edits' \in 0..MaxEdits, UNCHANGED delays
  PROVE  IInv'
<1>1. TypeOK'
  BY TypeNow, TypeNext DEF Called, Sound, IInv
<1>2. Sound(registry, Restarting)'
  BY DEF Called, Sound, Typed, Registries, Captured, InSlots, Pulls, Armed, SlotsFire,
    Room, Strays
<1> QED
  BY <1>1, <1>2 DEF IInv, Called

\* A callback that is done, and armed nothing that a pod without timers may not
\* have.
LEMMA DoneIsCalled ==
  ASSUME IInv, Idle, after' = "nothing",
         pod' \in Pods \cup {None}, queued' \in BOOLEAN, pulled' \in BOOLEAN,
         Sound(registry', FALSE),
         \A s \in Slots : Clear(registry, s) => Clear(registry', s),
         pod' = None => pod = None,
         pod' # None /\ pod'.terminating /\ pod'.phase = "Pending" /\ ~queued' =>
           pod # None /\ pod.terminating /\ pod.phase = "Pending"
  PROVE  Called
<1>1. ~Restarting' /\ after' \in Afters
  BY DEF Restarting, Afters
<1>2. OnlyPulls(registry) => OnlyPulls(registry)'
  BY DEF OnlyPulls, Clear, Armed
<1>3. Sound(registry', Restarting')
  BY <1>1 DEF Sound, SlotsFire
<1>4. Pulling' /\ Backoff' /\ Alive' /\ Ending'
  BY <1>1, <1>2 DEF IInv, Idle, Pulling, Backoff, Alive, Ending
<1> QED
  BY <1>1, <1>3, <1>4 DEF Called

LEMMA ArmedNow ==
  ASSUME IInv, Idle, NEW id \in Armed(registry)
  PROVE  /\ Sound(registry, FALSE)
         /\ registry.armed[id].does \in Does
         /\ registry.armed[id].does \notin PullKinds =>
              pod \in Pods /\ ~(pod.terminating /\ pod.phase = "Pending")
<1>1. Sound(registry, FALSE)
  BY DEF IInv, Idle, Sound, SlotsFire, Restarting
<1>2. registry.armed[id].does \in Does
  BY <1>1, ArmedTyped DEF Sound
<1>3. ASSUME registry.armed[id].does \notin PullKinds
      PROVE  pod \in Pods /\ ~(pod.terminating /\ pod.phase = "Pending")
  <2>1. SlotOf(registry.armed[id].does) \in Slots \ {"imagePull"}
    BY <1>2, <1>3, SlotOfTyped
  <2>2. ~OnlyPulls(registry)
    BY <2>1 DEF OnlyPulls, Clear
  <2> QED
    BY <2>2, TypeNow DEF IInv, Alive, Ending, Idle
<1> QED
  BY <1>1, <1>2, <1>3

LEMMA StartCalls ==
  ASSUME IInv, Idle, NEW r, Sound(r, FALSE), Start(r), pod \in Pods,
         ~(pod.terminating /\ pod.phase = "Pending"),
         \A s \in Slots : Clear(registry, s) => Clear(r, s)
  PROVE  Called
<1>1. after' = "nothing" /\ pulled' \in BOOLEAN
  BY TypeNow DEF Start, IInv
<1>2. CASE ~ShouldProgress(pod)
  <2>1. Emit(pod) /\ registry' = r
    BY <1>2 DEF Start
  <2>2. pod' = pod /\ queued' \in BOOLEAN
    BY <2>1, EmitTyped
  <2> QED
    BY <1>1, <2>1, <2>2, DoneIsCalled, PodFields
<1>3. CASE ShouldProgress(pod) /\ volumesReady
  <2>1. Emit(Running(pod)) /\ registry' = ScheduleCompletion(Running(pod), r)
    BY <1>3 DEF Start, EmitRunning
  <2>2. /\ Running(pod) \in Pods /\ Running(pod).phase = "Running"
    BY RunningTyped
  <2>3. pod' \in Pods /\ pod'.phase = "Running" /\ queued' \in BOOLEAN
    BY <2>1, <2>2, EmitTyped
  <2>4. Sound(registry', FALSE)
    BY <2>1, <2>2, CompletionKeeps
  <2>5. ~Restarting' /\ after' \in Afters
    BY <1>1 DEF Restarting, Afters
  <2>6. Sound(registry', Restarting')
    BY <2>4, <2>5 DEF Sound, SlotsFire
  <2>7. Pulling' /\ Backoff' /\ Alive' /\ Ending'
    BY <1>1, <2>3, <2>5, PodFields DEF Pulling, Backoff, Alive, Ending
  <2> QED
    BY <1>1, <2>3, <2>5, <2>6, <2>7 DEF Called
<1>4. CASE ShouldProgress(pod) /\ ~volumesReady
  <2>1. Emit(WaitingForVolume(pod)) /\ registry' = r
    BY <1>4 DEF Start
  <2>2. /\ pod' \in Pods /\ pod'.terminating = pod.terminating /\ queued' \in BOOLEAN
    BY <2>1, WaitingForVolumeTyped, EmitTyped
  <2>3. ~pod.terminating
    BY <1>4 DEF ShouldProgress
  <2> QED
    BY <1>1, <2>1, <2>2, <2>3, DoneIsCalled, PodFields
<1> QED
  BY <1>2, <1>3, <1>4

LEMMA PullCalls ==
  ASSUME IInv, Idle, NEW r, Sound(r, FALSE), NEW reason \in Reasons,
         NEW next \in {"armTransition", "armRetry"}, ImageStep(r, reason, next),
         ShouldProgress(pod) /\ Is(pod, "missing") => Room(r, 6),
         \A s \in Slots : Clear(registry, s) => Clear(r, s)
  PROVE  Called
<1>1. /\ pod \in Pods \cup {None} /\ pulled \in BOOLEAN
  BY TypeNow DEF IInv
<1>2. CASE ~ShouldProgress(pod)
  <2>1. Emit(pod) /\ after' = "nothing" /\ pulled' = pulled /\ registry' = r
    BY <1>2 DEF ImageStep, Returns
  <2>2. pod' = pod /\ queued' \in BOOLEAN
    BY <2>1, EmitTyped
  <2> QED
    BY <1>1, <2>1, <2>2, DoneIsCalled
<1>3. CASE ShouldProgress(pod) /\ ~Is(pod, "missing")
  <2>1. /\ pod' = pod /\ queued' = TRUE /\ after' = "nothing" /\ pulled' = FALSE
        /\ registry' = Cancel(r, {"imagePull"})
    BY <1>3 DEF ImageStep, EnqueueAgain
  <2>2. {"imagePull"} \in SUBSET Slots
    BY DEF Slots
  <2>3. Sound(registry', FALSE) /\ \A s \in Slots : Clear(r, s) => Clear(registry', s)
    BY <2>1, <2>2, CancelKeeps
  <2> QED
    BY <1>1, <2>1, <2>3, DoneIsCalled
<1>4. CASE ShouldProgress(pod) /\ Is(pod, "missing")
  <2>1. /\ Emit(Waiting(pod, reason)) /\ registry' = r /\ after' = next /\ pulled' = pulled
    BY <1>4 DEF ImageStep
  <2>2. pod \in Pods /\ pod # None /\ pod.phase = "Pending"
    BY <1>1, <1>4, ProgressingPod
  <2>3. pod' \in Pods /\ pod'.terminating = pod.terminating /\ queued' \in BOOLEAN
    BY <2>1, <2>2, WaitingTyped, EmitTyped
  <2>4. ~Restarting' /\ after' \in Afters
    BY <2>1 DEF Restarting, Afters
  <2>5. Sound(registry', Restarting')
    BY <2>1, <2>4 DEF Sound, SlotsFire
  <2>6. Pulling'
    BY <1>4, <2>1 DEF Pulling, Room, Strays, Pulls, Armed
  <2>7. OnlyPulls(registry) => OnlyPulls(registry)'
    BY <2>1 DEF OnlyPulls, Clear, Armed
  <2>8. Backoff' /\ Alive' /\ Ending'
    BY <2>2, <2>3, <2>4, <2>7, PodFields DEF IInv, Idle, Backoff, Alive, Ending
  <2> QED
    BY <1>1, <2>1, <2>3, <2>4, <2>5, <2>6, <2>8 DEF Called
<1> QED
  BY <1>2, <1>3, <1>4

LEMMA AgainCalls ==
  ASSUME IInv, Idle, NEW r, Sound(r, FALSE), Again(r),
         \A s \in Slots : Clear(registry, s) => Clear(r, s)
  PROVE  Called
<1>1. /\ pod \in Pods \cup {None} /\ pulled \in BOOLEAN
  BY TypeNow DEF IInv
<1>2. pod' = pod /\ queued' \in BOOLEAN /\ after' = "nothing" /\ pulled' = pulled /\ registry' = r
  <2>1. CASE ShouldProgress(pod)
    BY <2>1 DEF Again, EnqueueAgain
  <2>2. CASE ~ShouldProgress(pod)
    BY <2>2, EmitTyped DEF Again, Returns
  <2> QED
    BY <2>1, <2>2
<1> QED
  BY <1>1, <1>2, DoneIsCalled

LEMMA ShowCalls ==
  ASSUME IInv, Idle, NEW r, Sound(r, TRUE), Clear(r, "restart"), r.slot["restart"] # None,
         Sound(Forget(r, "restart"), FALSE), ShowBackoff(r), pod \in Pods,
         ~(pod.terminating /\ pod.phase = "Pending"),
         \A s \in Slots : Clear(registry, s) => Clear(Forget(r, "restart"), s)
  PROVE  Called
<1>1. pulled \in BOOLEAN
  BY TypeNow DEF IInv
<1>2. CASE ~ShouldProgress(pod)
  <2>1. Emit(pod) /\ after' = "nothing" /\ pulled' = pulled /\ registry' = Forget(r, "restart")
    BY <1>2 DEF ShowBackoff, Returns
  <2>2. pod' = pod /\ queued' \in BOOLEAN
    BY <2>1, EmitTyped
  <2> QED
    BY <1>1, <2>1, <2>2, DoneIsCalled
<1>3. CASE ShouldProgress(pod)
  <2>1. /\ Emit(Waiting(pod, "CrashLoopBackOff")) /\ registry' = r
        /\ after' = "armRestart" /\ pulled' = pulled
    BY <1>3 DEF ShowBackoff
  <2>2. ~pod.terminating
    BY <1>3 DEF ShouldProgress
  <2>3. pod' \in Pods /\ ~pod'.terminating /\ queued' \in BOOLEAN
    <3>1. "CrashLoopBackOff" \in Reasons
      BY DEF Reasons
    <3> QED
      BY <3>1, <2>1, <2>2, WaitingTyped, EmitTyped
  <2>4. Restarting' /\ after' \in Afters
    BY <2>1 DEF Restarting, Afters
  <2>5. Sound(registry', Restarting')
    BY <2>1, <2>4 DEF Sound, SlotsFire
  <2>6. Pulling' /\ Backoff' /\ Alive' /\ Ending'
    BY <2>1, <2>3, <2>4, PodFields DEF Pulling, Backoff, Alive, Ending, Clear, Armed
  <2> QED
    BY <1>1, <2>1, <2>3, <2>4, <2>5, <2>6 DEF Called
<1> QED
  BY <1>2, <1>3

LEMMA CompleteCalls ==
  ASSUME IInv, Idle, NEW r, Sound(r, FALSE), NEW captured \in Pods, Complete(r, captured),
         pod \in Pods,
         \A s \in Slots : Clear(registry, s) => Clear(r, s)
  PROVE  Called
<1>1. after' = "nothing" /\ pulled' \in BOOLEAN /\ registry' = r
  BY TypeNow DEF Complete, IInv
<1>2. CASE Emit(pod)
  BY <1>1, <1>2, EmitTyped, DoneIsCalled
<1>3. CASE Emit(Terminated(IF pod.phase = "Running" THEN pod ELSE captured,
                           "Completed", "Succeeded"))
  <2>1. pod' \in Pods /\ pod'.phase = "Succeeded" /\ queued' \in BOOLEAN
    BY <1>3, TerminatedTyped, EmitTyped DEF Reasons
  <2> QED
    BY <1>1, <2>1, DoneIsCalled, PodFields
<1> QED
  BY <1>2, <1>3 DEF Complete

LEMMA TimerFiresKeeps ==
  ASSUME IInv, NEW id \in Ids, TimerFires(id)
  PROVE  IInv'
<1> DEFINE timer == registry.armed[id]
           r == Fired(registry, id)
<1>1. /\ Idle /\ id \in Armed(registry) /\ UNCHANGED <<volumesReady, edits, delays>>
  BY DEF TimerFires, Armed
<1>2. /\ Sound(registry, FALSE) /\ timer.does \in Does
      /\ timer.does \notin PullKinds =>
           pod \in Pods /\ ~(pod.terminating /\ pod.phase = "Pending")
  BY <1>1, ArmedNow
<1>3. timer.does # "showBackoff" =>
        /\ Sound(r, FALSE)
        /\ \A s \in Slots : Clear(registry, s) => Clear(r, s)
        /\ Cardinality(Armed(registry)) + 5 <= MaxTimers => Room(r, 6)
  BY <1>1, <1>2, DropKeeps DEF Fired
<1>4. timer.does = "showBackoff" =>
        /\ Sound(r, TRUE) /\ Clear(r, "restart") /\ r.slot["restart"] # None
        /\ Sound(Forget(r, "restart"), FALSE)
        /\ \A s \in Slots : Clear(registry, s) => Clear(Forget(r, "restart"), s)
  <2> SUFFICES ASSUME timer.does = "showBackoff"
               PROVE  /\ Sound(r, TRUE) /\ Clear(r, "restart") /\ r.slot["restart"] # None
                      /\ Sound(Forget(r, "restart"), FALSE)
                      /\ \A s \in Slots : Clear(registry, s) => Clear(Forget(r, "restart"), s)
    OBVIOUS
  <2> DEFINE F == [registry EXCEPT !.armed[id] = None]
  <2>1. SlotOf(timer.does) = "restart"
    BY <1>2, SlotOfTyped
  <2>2. r = F
    BY DEF Fired
  <2>3. Sound(F, TRUE) /\ Clear(F, "restart") /\ F.slot["restart"] = id /\ id # None
    BY <1>1, <1>2, ShowingKeeps
  <2>4. LET G == Forget(F, SlotOf(timer.does))
        IN  Sound(G, FALSE) /\ \A s \in Slots : Clear(registry, s) => Clear(G, s)
    BY <1>1, <1>2, DropKeeps
  <2> HIDE DEF F, r, timer
  <2>5. /\ Sound(Forget(F, "restart"), FALSE)
        /\ \A s \in Slots : Clear(registry, s) => Clear(Forget(F, "restart"), s)
    BY <2>1, <2>4
  <2> QED
    BY <2>2, <2>3, <2>5
<1>5. ~HeldBack /\ ShouldProgress(pod) /\ Is(pod, "missing")
        => Cardinality(Armed(registry)) + 5 <= MaxTimers
  <2>1. Cardinality(Armed(registry)) \in Nat
    <3>1. IsFiniteSet(Ids)
      BY FS_Interval, BoundsAssumption DEF Ids
    <3>2. Armed(registry) \in SUBSET Ids
      BY DEF Armed
    <3> QED
      BY <3>1, <3>2, FS_Subset, FS_CardinalityType
  <2> QED
    BY <2>1, BoundsAssumption DEF HeldBack
<1>6. timer.does = "complete" => timer.pod \in Pods
  BY <1>1, <1>2 DEF Sound, Typed, Captured
<1>7. "ErrImagePull" \in Reasons /\ "ImagePullBackOff" \in Reasons
  BY DEF Reasons
<1>8. \/ timer.does = "start" /\ Start(r)
      \/ timer.does = "pull" /\ ~HeldBack /\ ImageStep(r, "ErrImagePull", "armTransition")
      \/ timer.does = "transition" /\ ~HeldBack
           /\ ImageStep(r, "ImagePullBackOff", "armRetry")
      \/ timer.does \in {"retry", "restart"} /\ Again(r)
      \/ timer.does = "showBackoff" /\ ShowBackoff(r)
      \/ timer.does = "complete" /\ Complete(r, timer.pod)
  BY DEF TimerFires
<1> HIDE DEF timer, r
<1>9. Called
  <2>1. CASE timer.does = "start" /\ Start(r)
    BY <2>1, <1>1, <1>2, <1>3, StartCalls DEF PullKinds
  <2>2. CASE timer.does = "pull" /\ ~HeldBack /\ ImageStep(r, "ErrImagePull", "armTransition")
    BY <2>2, <1>1, <1>3, <1>5, <1>7, PullCalls
  <2>3. CASE /\ timer.does = "transition" /\ ~HeldBack
             /\ ImageStep(r, "ImagePullBackOff", "armRetry")
    BY <2>3, <1>1, <1>3, <1>5, <1>7, PullCalls
  <2>4. CASE timer.does \in {"retry", "restart"} /\ Again(r)
    BY <2>4, <1>1, <1>3, AgainCalls
  <2>5. CASE timer.does = "showBackoff" /\ ShowBackoff(r)
    BY <2>5, <1>1, <1>2, <1>4, ShowCalls DEF PullKinds
  <2>6. CASE timer.does = "complete" /\ Complete(r, timer.pod)
    BY <2>6, <1>1, <1>2, <1>3, <1>6, CompleteCalls DEF PullKinds
  <2> QED
    BY <1>8, <2>1, <2>2, <2>3, <2>4, <2>5, <2>6
<1>10. volumesReady' \in BOOLEAN /\ edits' \in 0..MaxEdits
  BY <1>1, TypeNow DEF IInv
<1> QED
  BY <1>1, <1>9, <1>10, CallKeeps

\* What a callback has armed once its update has been reconciled.
LEMMA ArmCalls ==
  ASSUME IInv, ~queued, after # "nothing", NEW does \in {"transition", "retry", "restart"},
         does = "restart" => Restarting, does # "restart" => ~Restarting /\ Room(registry, 6),
         registry' = Arm(registry, does, None), after' = "nothing", UNCHANGED <<pod, queued>>,
         pulled' \in BOOLEAN
  PROVE  Called
<1>1. /\ pod \in Pods /\ Restarting \in BOOLEAN
      /\ Sound(registry, Restarting)
  BY TypeNow DEF IInv, Alive
<1>2. /\ does \in Does
      /\ does = "restart" => SlotOf(does) = "restart"
      /\ does # "restart" => does \in PullKinds /\ SlotOf(does) = "imagePull"
  BY SlotOfTyped DEF Does, PullKinds
<1>3. MayArm(registry, does, None)
  BY <1>1, <1>2 DEF MayArm, IInv, Backoff
<1> HIDE DEF MayArm
<1>4. /\ Sound(registry', Restarting /\ SlotOf(does) # "restart")
      /\ \A s \in Slots \ {SlotOf(does)} : Clear(registry, s) => Clear(registry', s)
  BY <1>1, <1>2, <1>3, ArmKeeps
<1>5. ~Restarting' /\ after' \in Afters
  BY DEF Restarting, Afters
<1>6. Sound(registry', Restarting')
  <2>1. ~(Restarting /\ SlotOf(does) # "restart")
    BY <1>2
  <2> QED
    BY <1>4, <1>5, <2>1 DEF Sound, SlotsFire
<1>7. Ending'
  <2>1. CASE does = "restart"
    BY <2>1 DEF IInv, Backoff, Ending
  <2>2. CASE does # "restart"
    BY <2>2, <1>2, <1>4 DEF IInv, Ending, OnlyPulls, Clear, Armed
  <2> QED
    BY <2>1, <2>2
<1>8. Pulling' /\ Backoff' /\ Alive'
  BY <1>1, <1>5, PodFields DEF Pulling, Backoff, Alive
<1> QED
  BY <1>1, <1>5, <1>6, <1>7, <1>8, TypeNow DEF Called, IInv

LEMMA ContinueKeeps ==
  ASSUME IInv, Continue
  PROVE  IInv'
<1>1. /\ ~queued /\ after' = "nothing"
      /\ UNCHANGED <<pod, queued, volumesReady, edits, delays>>
      /\ pulled \in BOOLEAN /\ volumesReady' \in BOOLEAN /\ edits' \in 0..MaxEdits
  BY TypeNow DEF Continue, IInv
<1>2. Called
  <2>1. CASE after = "armTransition" /\ registry' = Arm(registry, "transition", None)
             /\ UNCHANGED pulled
    BY <1>1, <2>1, ArmCalls DEF IInv, Pulling, Restarting
  <2>2. CASE after = "armRetry" /\ registry' = Arm(registry, "retry", None) /\ pulled' = TRUE
    BY <1>1, <2>2, ArmCalls DEF IInv, Pulling, Restarting
  <2>3. CASE after = "armRestart" /\ registry' = Arm(registry, "restart", None)
             /\ UNCHANGED pulled
    BY <1>1, <2>3, ArmCalls DEF Restarting
  <2> QED
    BY <2>1, <2>2, <2>3 DEF Continue
<1> QED
  BY <1>1, <1>2, CallKeeps

\* A step of another component that leaves the timers as they are.
LEMMA OtherKeeps ==
  ASSUME IInv, Idle, UNCHANGED <<registry, after, delays>>,
         pod' \in Pods \cup {None}, queued' \in BOOLEAN, pulled' \in BOOLEAN,
         volumesReady' \in BOOLEAN, edits' \in 0..MaxEdits,
         pod' = None => pod = None,
         pod' # None /\ pod'.terminating /\ pod'.phase = "Pending" /\ ~queued' =>
           pod # None /\ pod.terminating /\ pod.phase = "Pending"
  PROVE  IInv'
<1>1. Sound(registry', FALSE)
  BY DEF IInv, Idle, Sound, SlotsFire, Restarting
<1>2. Called
  BY <1>1, DoneIsCalled DEF Idle
<1> QED
  BY <1>2, CallKeeps

LEMMA ResyncKeeps ==
  ASSUME IInv, Resync
  PROVE  IInv'
<1>1. pod' = pod /\ queued' \in BOOLEAN /\ pulled' \in BOOLEAN
      /\ volumesReady' \in BOOLEAN /\ edits' \in 0..MaxEdits
      /\ pod \in Pods \cup {None}
  BY TypeNow DEF Resync, IInv
<1> QED
  BY <1>1, OtherKeeps DEF Resync

LEMMA RemoveKeeps ==
  ASSUME IInv, Remove
  PROVE  IInv'
<1>1. /\ pod' = None /\ registry' = Cancel(registry, Slots) /\ pulled' \in BOOLEAN
      /\ queued' \in BOOLEAN /\ after' = "nothing"
      /\ volumesReady' \in BOOLEAN /\ edits' \in 0..MaxEdits /\ delays' = delays
  BY TypeNow DEF Remove, Release, IInv, Idle
<1>2. Sound(registry, FALSE)
  BY DEF Remove, IInv, Idle, Sound, SlotsFire, Restarting
<1>3. Sound(registry', FALSE) /\ OnlyPulls(registry')
  BY <1>1, <1>2, CancelKeeps DEF OnlyPulls
<1>4. ~Restarting' /\ after' \in Afters
  BY <1>1 DEF Restarting, Afters
<1>5. Sound(registry', Restarting')
  BY <1>3, <1>4 DEF Sound, SlotsFire
<1>6. Pulling' /\ Backoff' /\ Alive' /\ Ending'
  BY <1>1, <1>3, <1>4 DEF Pulling, Backoff, Alive, Ending, OnlyPulls, Clear, Armed
<1>7. Called
  BY <1>1, <1>4, <1>5, <1>6 DEF Called
<1> QED
  BY <1>1, <1>7, CallKeeps

LEMMA EditTyped ==
  ASSUME TypeOK, Edit
  PROVE  Idle /\ edits' \in 0..MaxEdits /\ UNCHANGED <<after, delays>>
BY TypeNow, BoundsAssumption DEF Edit

LEMMA CreateKeeps ==
  ASSUME IInv, NEW image \in Images, NEW policy \in Policies, Create(image, policy)
  PROVE  IInv'
<1>1. NewPod(image, policy) \in Pods /\ ~NewPod(image, policy).terminating
  BY DEF NewPod, Pods, Reasons, RestartCycle
<1>2. pod' = NewPod(image, policy) /\ queued' \in BOOLEAN
  BY EmitTyped DEF Create
<1>3. Idle /\ edits' \in 0..MaxEdits /\ UNCHANGED <<after, delays>>
  BY EditTyped DEF Create, IInv
<1>4. UNCHANGED registry /\ pulled' \in BOOLEAN /\ volumesReady' \in BOOLEAN
  BY TypeNow DEF Create, IInv
<1>5. pod' \in Pods /\ ~pod'.terminating /\ pod' # None
  BY <1>1, <1>2, PodFields
<1> QED
  BY <1>2, <1>3, <1>4, <1>5, OtherKeeps

LEMMA ResetTyped ==
  ASSUME NEW p \in Pods, NEW image \in Images
  PROVE  LET q == Reset(p, image)
         IN  /\ q \in Pods /\ q # None /\ q.terminating = p.terminating /\ q.phase = "Pending"
             /\ q.reason = "ContainerCreating"
BY NoneAssumption DEF Reset, Pods, Reasons

LEMMA ChangeImageKeeps ==
  ASSUME IInv, NEW image \in Images, ChangeImage(image)
  PROVE  IInv'
<1>1. /\ pod \in Pods /\ pulled' \in BOOLEAN /\ volumesReady' \in BOOLEAN
      /\ UNCHANGED registry /\ Emit(Reset(pod, image))
  BY TypeNow DEF ChangeImage, IInv
<1>2. /\ pod' \in Pods /\ pod' # None /\ pod'.phase = "Pending" /\ queued' \in BOOLEAN
      /\ pod'.terminating = pod.terminating
      /\ pod' # pod => queued'
  BY <1>1, ResetTyped, EmitTyped DEF ShouldProgress
<1>3. Idle /\ edits' \in 0..MaxEdits /\ UNCHANGED <<after, delays>>
  BY EditTyped DEF ChangeImage, IInv
<1> QED
  BY <1>1, <1>2, <1>3, OtherKeeps

LEMMA DeleteKeeps ==
  ASSUME IInv, Delete
  PROVE  IInv'
<1> DEFINE p == [pod EXCEPT !.terminating = TRUE]
<1>1. /\ pod \in Pods /\ ~pod.terminating
      /\ pulled' \in BOOLEAN /\ volumesReady' \in BOOLEAN
      /\ UNCHANGED registry /\ Emit(p)
  BY TypeNow DEF Delete, IInv
<1>2. p \in Pods /\ p.terminating /\ p.phase = pod.phase
  BY <1>1 DEF Pods
<1> HIDE DEF p
<1>3. p # pod /\ p # None
  BY <1>1, <1>2, PodFields
<1>4. /\ pod' \in Pods /\ pod' # None /\ queued' \in BOOLEAN
      /\ pod'.phase = "Pending" => queued'
  BY <1>1, <1>2, <1>3, EmitTyped DEF ShouldProgress
<1>5. Idle /\ edits' \in 0..MaxEdits /\ UNCHANGED <<after, delays>>
  BY EditTyped DEF Delete, IInv
<1> QED
  BY <1>1, <1>4, <1>5, OtherKeeps

LEMMA ChangeVolumesKeeps ==
  ASSUME IInv, ChangeVolumes
  PROVE  IInv'
<1>1. /\ pod' = pod /\ pod \in Pods \cup {None} /\ queued' \in BOOLEAN /\ pulled' \in BOOLEAN
      /\ volumesReady' \in BOOLEAN /\ UNCHANGED <<registry, queued>>
  BY TypeNow DEF ChangeVolumes, IInv
<1>2. Idle /\ edits' \in 0..MaxEdits /\ UNCHANGED <<after, delays>>
  BY EditTyped DEF ChangeVolumes, IInv
<1> QED
  BY <1>1, <1>2, OtherKeeps

-------------------------------------------------------------------------------
(* The invariant and what follows from it *)

LEMMA InitHolds == Init => IInv
<1> SUFFICES ASSUME Init
             PROVE  IInv
  OBVIOUS
<1>1. Armed(registry) = {}
  BY DEF Init, Armed
<1>2. registry \in Registries /\ \A s \in Slots : registry.slot[s] = None
  BY DEF Init, Registries
<1>3. Typed(registry)
  BY <1>1, <1>2 DEF Typed, Captured
<1>4. TypeOK
  <2>1. /\ pod \in Pods \cup {None} /\ pulled \in BOOLEAN /\ queued \in BOOLEAN
        /\ after \in Afters /\ volumesReady \in BOOLEAN /\ delays \in Delays
    BY DEF Init, Afters
  <2>2. edits \in 0..MaxEdits
    BY BoundsAssumption DEF Init
  <2> QED
    BY <1>3, <2>1, <2>2 DEF TypeOK, Typed, Registries, Captured, Afters
<1>5. Strays(registry) = {} /\ Cardinality({}) = 0
  BY <1>1, FS_EmptySet DEF Strays, Pulls
<1>6. Sound(registry, Restarting)
  <2>1. Room(registry, 5)
    BY <1>5, BoundsAssumption DEF Room
  <2>2. InSlots(registry) /\ SlotsFire(registry, Restarting)
    BY <1>1, <1>2 DEF InSlots, SlotsFire
  <2> QED
    BY <1>3, <2>1, <2>2 DEF Sound
<1>7. Pulling /\ Backoff /\ Alive /\ Ending
  BY <1>1 DEF Init, Pulling, Backoff, Restarting, Alive, Ending, OnlyPulls, Clear
<1> QED
  BY <1>4, <1>6, <1>7 DEF IInv

LEMMA NextKeeps == IInv /\ [Next]_vars => IInv'
<1> SUFFICES ASSUME IInv, [Next]_vars
             PROVE  IInv'
  OBVIOUS
<1>1. CASE UNCHANGED vars
  BY <1>1 DEF vars, IInv, TypeOK, Sound, Typed, Registries, Captured, InSlots, SlotsFire,
    Room, Strays, Pulls, Armed, Restarting, Pulling, Backoff, Alive, Ending, OnlyPulls, Clear
<1>2. CASE Next
  BY <1>2, ReconcileKeeps, ContinueKeeps, TimerFiresKeeps, ResyncKeeps, RemoveKeeps,
    ChangeImageKeeps, CreateKeeps, DeleteKeeps, ChangeVolumesKeeps DEF Next
<1> QED
  BY <1>1, <1>2

\* The inductive invariant: where the timers are, in the middle of a call too.
THEOREM Inductive == Spec => []IInv
BY InitHolds, NextKeeps, PTL DEF Spec

\* Every variable keeps its type, and only a completion timer has captured a pod,
\* one that was running: for any images, policies and number of timers from five.
THEOREM TypesHold == Spec => []TypeOK
<1>1. IInv => TypeOK
  BY DEF IInv
<1> QED
  BY <1>1, Inductive, PTL

LEMMA InvariantAgrees == IInv => RegistryAgrees
<1> SUFFICES ASSUME IInv, Idle
             PROVE  RegistryAgrees
  BY DEF RegistryAgrees, TakenSlotsFire, NoStrayTimers
<1>1. Sound(registry, FALSE)
  BY DEF IInv, Idle, Sound, SlotsFire, Restarting
<1>2. TakenSlotsFire
  BY <1>1 DEF TakenSlotsFire, Sound, SlotsFire
<1>3. ASSUME NEW id \in Armed(registry), SlotOf(registry.armed[id].does) # "imagePull"
      PROVE  registry.slot[SlotOf(registry.armed[id].does)] = id /\ pod # None
  <2>1. registry.slot[SlotOf(registry.armed[id].does)] = id
    BY <1>1, <1>3 DEF Sound, InSlots, Pulls
  <2>2. SlotOf(registry.armed[id].does) \in Slots \ {"imagePull"}
    BY <1>1, <1>3, ArmedTyped DEF Sound
  <2>3. ~OnlyPulls(registry)
    BY <2>2 DEF OnlyPulls, Clear
  <2> QED
    BY <2>1, <2>3 DEF IInv, Alive
<1> QED
  BY <1>2, <1>3 DEF RegistryAgrees, NoStrayTimers

\* Between calls a taken slot has a timer of its kind still to fire, and every
\* armed timer but those of image pulls is in its slot, of a pod that exists: the
\* registry that reconcile consults tells the truth.
THEOREM RegistryIsTrue == Spec => []RegistryAgrees
BY InvariantAgrees, Inductive, PTL

-------------------------------------------------------------------------------
(* What a step may do to a pod *)

StaysPending ==
  pod.terminating => pod'.terminating /\ (pod.phase = "Pending" => pod'.phase = "Pending")

Due ==
  \/ /\ pod'.restarts = (pod.restarts + 1) % RestartCycle
     /\ registry.slot["restart"] = None
     /\ Clear(registry, "restart")
  \/ pod'.phase = "Failed"

PodStep ==
  \/ pod' = pod
  \/ pod' = None
  \/ edits' # edits /\ StaysPending
  \/ /\ pod.phase \notin {"Succeeded", "Failed"}
     /\ pod'.reason = "Error" => Due
     /\ StaysPending

LEMMA ReconcileSteps ==
  ASSUME IInv, pod # None, Reconcile
  PROVE  PodStep
<1>1. pod \in Pods
  BY TypeNow DEF IInv
<1>2. ASSUME NEW p, Emit(p), p = pod \/ p.reason # "Error" \/ Due,
             ShouldProgress(pod), ~pod.terminating
      PROVE  PodStep
  BY <1>2 DEF PodStep, StaysPending, Emit, ShouldProgress
<1>3. CASE (Release /\ Emit(pod)) \/ Leave
  BY <1>3 DEF Leave, Emit, PodStep
<1>4. CASE Decision = "VolumeBlocked" /\ WaitForVolumes
  BY <1>1, <1>2, <1>4, Decisions, WaitingForVolumeTyped DEF WaitForVolumes
<1>5. CASE Decision = "StartupIssueOrReady" /\ PullImage
  BY <1>1, <1>2, <1>5, Decisions, WaitingTyped DEF PullImage, Reasons
<1>6. CASE Decision = "StartupIssueOrReady" /\ HandleCrash
  <2>1. CASE pod.policy = "Never"
    <3>1. Emit(Terminated(pod, "Error", "Failed")) /\ Terminated(pod, "Error", "Failed").phase = "Failed"
      BY <1>1, <1>6, <2>1, TerminatedTyped DEF HandleCrash, Reasons
    <3>2. Due
      BY <3>1 DEF Due, Emit
    <3> QED
      BY <1>1, <1>2, <1>6, <3>1, <3>2, Decisions
  <2>2. CASE pod.policy # "Never" /\ registry.slot["restart"] # None
    BY <1>1, <1>2, <1>6, <2>2, Decisions DEF HandleCrash
  <2>3. CASE pod.policy # "Never" /\ registry.slot["restart"] = None
    <3>1. Emit(Crashed(pod)) /\ Crashed(pod).restarts = (pod.restarts + 1) % RestartCycle
      BY <1>1, <1>6, <2>3, CrashedTyped DEF HandleCrash
    <3>2. Clear(registry, "restart")
      BY <2>3, EmptyIsClear DEF IInv, Sound, Slots
    <3>3. Due
      BY <3>1, <3>2, <2>3 DEF Due, Emit
    <3> QED
      BY <1>1, <1>2, <1>6, <3>1, <3>3, Decisions
  <2> QED
    BY <2>1, <2>2, <2>3
<1>7. CASE Decision = "StartupIssueOrReady" /\ StartContainer
  <2>1. CASE Emit(pod) \/ Emit(Waiting(pod, "ContainerCreating"))
    BY <1>1, <1>2, <1>7, <2>1, Decisions, WaitingTyped DEF Reasons
  <2>2. CASE pod' = Running(pod)
    BY <1>1, <1>7, <2>2, Decisions, RunningTyped DEF PodStep, StaysPending, ShouldProgress
  <2> QED
    BY <1>7, <2>1, <2>2 DEF StartContainer
<1> QED
  BY <1>3, <1>4, <1>5, <1>6, <1>7 DEF Reconcile

LEMMA TimerSteps ==
  ASSUME IInv, pod # None, NEW id \in Ids, TimerFires(id)
  PROVE  PodStep
<1>1. /\ pod \in Pods /\ Idle /\ id \in Armed(registry)
  BY TypeNow DEF IInv, TimerFires, Armed
<1>2. /\ Sound(registry, FALSE)
      /\ registry.armed[id].does \notin PullKinds => ~(pod.terminating /\ pod.phase = "Pending")
  BY <1>1, ArmedNow
<1>3. ASSUME NEW p \in Pods, Emit(p), p.reason # "Error", p.terminating = pod.terminating,
             pod.phase = "Pending", ~pod.terminating \/ p.phase = "Pending"
      PROVE  PodStep
  BY <1>3 DEF PodStep, StaysPending, Emit
<1>4. CASE registry.armed[id].does = "start" /\ \E r : Start(r)
  <2>1. ~(pod.terminating /\ pod.phase = "Pending")
    BY <1>2, <1>4 DEF PullKinds
  <2>2. CASE pod' = pod
    BY <2>2 DEF PodStep
  <2>3. CASE ShouldProgress(pod) /\ Emit(Running(pod))
    BY <1>1, <1>3, <2>1, <2>3, RunningTyped DEF ShouldProgress
  <2>4. CASE ShouldProgress(pod) /\ Emit(WaitingForVolume(pod))
    <3>1. CASE WaitingForVolume(pod) = pod
      BY <3>1, <2>4 DEF Emit, PodStep
    <3>2. CASE WaitingForVolume(pod).reason = "VolumesNotReady"
      BY <1>1, <1>3, <2>1, <2>4, <3>2, WaitingForVolumeTyped DEF ShouldProgress
    <3> QED
      BY <1>1, <3>1, <3>2, WaitingForVolumeTyped
  <2> QED
    BY <1>4, <2>2, <2>3, <2>4 DEF Start, EmitRunning, Emit
<1>5. CASE \E r : \/ ImageStep(r, "ErrImagePull", "armTransition")
                  \/ ImageStep(r, "ImagePullBackOff", "armRetry")
                  \/ Again(r) \/ ShowBackoff(r)
  BY <1>1, <1>3, <1>5, WaitingTyped
     DEF ImageStep, Again, ShowBackoff, Returns, EnqueueAgain, ShouldProgress, PodStep, Emit, Reasons
<1>6. CASE registry.armed[id].does = "complete" /\ \E r : Complete(r, registry.armed[id].pod)
  <2> DEFINE p == IF pod.phase = "Running" THEN pod ELSE registry.armed[id].pod
  <2>1. CASE Emit(pod)
    BY <2>1 DEF Emit, PodStep
  <2>2. CASE pod.phase \notin {"Succeeded", "Failed"}
             /\ Emit(Terminated(p, "Completed", "Succeeded"))
    <3>1. p \in Pods /\ (pod.terminating => p = pod)
      BY <1>1, <1>2, <1>6, <2>2, PodFields DEF Sound, Typed, Captured, PullKinds
    <3> HIDE DEF p
    <3>2. /\ pod'.reason = "Completed"
          /\ pod.terminating => pod'.terminating
      BY <2>2, <3>1, TerminatedTyped DEF Emit, Reasons
    <3>3. ~(pod.terminating /\ pod.phase = "Pending")
      BY <1>2, <1>6 DEF PullKinds
    <3> QED
      BY <2>2, <3>2, <3>3 DEF PodStep, StaysPending
  <2> QED
    BY <1>1, <1>6, <2>1, <2>2 DEF Complete
<1> QED
  BY <1>4, <1>5, <1>6 DEF TimerFires

LEMMA EditSteps ==
  ASSUME IInv, pod # None,
         Delete \/ \E image \in Images : ChangeImage(image)
  PROVE  PodStep
<1>1. pod \in Pods /\ edits' # edits
  BY TypeNow DEF IInv, Delete, ChangeImage, Edit
<1>2. CASE Delete
  BY <1>1, <1>2 DEF Delete, PodStep, StaysPending
<1>3. CASE \E image \in Images : ChangeImage(image)
  BY <1>1, <1>3, ResetTyped DEF ChangeImage, Emit, PodStep, StaysPending
<1> QED
  BY <1>2, <1>3

LEMMA Steps ==
  ASSUME IInv, pod # None, [Next]_vars
  PROVE  PodStep
<1>1. CASE pod' = pod \/ pod' = None
  BY <1>1 DEF PodStep
<1>2. CASE Reconcile \/ \E id \in Ids : TimerFires(id)
  BY <1>2, ReconcileSteps, TimerSteps
<1>3. CASE Delete \/ \E image \in Images : ChangeImage(image)
  BY <1>3, EditSteps
<1> QED
  BY <1>1, <1>2, <1>3 DEF Next, vars, Continue, Resync, Remove, Create, ChangeVolumes

\* No container is counted as restarted twice for one crash, and none while the
\* restart of an earlier crash is under way.
THEOREM RestartsAreDue == Spec => RestartsWhenDue
<1>1. IInv /\ [Next]_vars =>
        [ pod # None /\ pod' # None /\ pod' # pod /\ pod'.reason = "Error" =>
            \/ /\ pod'.restarts = (pod.restarts + 1) % RestartCycle
               /\ registry.slot["restart"] = None
               /\ \A id \in Armed(registry) :
                    registry.armed[id].does \notin {"showBackoff", "restart"}
            \/ pod'.phase = "Failed" \/ edits' # edits ]_vars
  <2> SUFFICES ASSUME IInv, [Next]_vars, pod # None, pod' # None, pod' # pod,
                      pod'.reason = "Error", edits' = edits, pod'.phase # "Failed"
               PROVE  /\ pod'.restarts = (pod.restarts + 1) % RestartCycle
                      /\ registry.slot["restart"] = None
                      /\ \A id \in Armed(registry) :
                           registry.armed[id].does \notin {"showBackoff", "restart"}
    OBVIOUS
  <2>1. /\ pod'.restarts = (pod.restarts + 1) % RestartCycle
        /\ registry.slot["restart"] = None /\ Clear(registry, "restart")
    BY Steps DEF PodStep, Due
  <2>2. \A id \in Armed(registry) : registry.armed[id].does \notin {"showBackoff", "restart"}
    BY <2>1 DEF Clear, SlotOf
  <2> QED
    BY <2>1, <2>2
<1> QED
  BY <1>1, Inductive, PTL DEF Spec, RestartsWhenDue

\* Whatever timers were armed before, none starts a container of a pod that is
\* being deleted, revives a pod that has ended, or writes back the pod of before.
THEOREM EndingsStay == Spec => EndingsAreFinal
<1>1. IInv /\ [Next]_vars =>
        [ pod # None /\ pod' # None =>
            /\ pod.terminating =>
                 /\ pod'.terminating
                 /\ pod.phase = "Pending" => pod'.phase = "Pending"
            /\ pod.phase \in {"Succeeded", "Failed"} =>
                 pod' = pod \/ edits' # edits ]_vars
  <2> SUFFICES ASSUME IInv, [Next]_vars, pod # None, pod' # None
               PROVE  /\ pod.terminating =>
                           /\ pod'.terminating
                           /\ pod.phase = "Pending" => pod'.phase = "Pending"
                      /\ pod.phase \in {"Succeeded", "Failed"} => pod' = pod \/ edits' # edits
    OBVIOUS
  <2>1. PodStep
    BY Steps
  <2> QED
    BY <2>1 DEF PodStep, StaysPending
<1> QED
  BY <1>1, Inductive, PTL DEF Spec, EndingsAreFinal
===============================================================================
