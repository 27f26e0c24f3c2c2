-------------------------- MODULE RolloutSurge_proofs --------------------------
(***************************************************************************)
(* A rolling update keeps to its surge.  Between calls every ReplicaSet    *)
(* has the pods it asks for, so the sum of what they ask for (Asked) must  *)
(* not exceed replicas + maxSurge (Book.room).  Inside a call it may: a    *)
(* plan that was made from an older reading can scale an old ReplicaSet up *)
(* again.  The invariant RoomInv says why that is made good before the     *)
(* call returns.  At most two reconciles of the Deployment are on the      *)
(* stack: the plan of processNext, and above it that of the immediate      *)
(* loop.  What is left of either settles: it asks for no more of the       *)
(* current ReplicaSet (only the first step of a plan may, and that is      *)
(* computed from what there is), and when it leaves old ReplicaSets with   *)
(* pods it adds the Deployment's key once more.  When more is asked for    *)
(* than there is room for, such a key, the next turn of the loop, or a     *)
(* step that frees enough is still to come.  A reconcile can free enough   *)
(* because what it may not take from the old ReplicaSets, their ready      *)
(* pods, and what the current one asks for always fit (KeptTotal).         *)
(*                                                                         *)
(* A reconcile that takes pods away leaves enough ready ones, although it  *)
(* adds up statuses of which one may be about to be written again          *)
(* (AvailInv, in the second half): when the Deployment is reconciled,      *)
(* either every ReplicaSet fits its status, or one old ReplicaSet has got  *)
(* a pod that its status does not count and no status counts too many.     *)
(***************************************************************************)
EXTENDS Rollout_proofs, SequenceTheorems

-------------------------------------------------------------------------------
(* Sums: a sum is the number of pairs of an index and a number up to its value *)

Pairs(count) == UNION {{t} \X (1..count[t]) : t \in DOMAIN count}

\* What such a pair is
LEMMA PairsAre ==
  ASSUME NEW count, NEW z
  PROVE  z \in Pairs(count) <=>
           \E t \in DOMAIN count : \E i \in 1..count[t] : z = <<t, i>>
BY DEF Pairs

\* There are finitely many.
LEMMA PairsFinite ==
  ASSUME NEW count, IsFiniteSet(DOMAIN count), \A t \in DOMAIN count : count[t] \in Nat
  PROVE  IsFiniteSet(Pairs(count)) /\ Total(count) = Cardinality(Pairs(count))
<1> DEFINE f == [t \in DOMAIN count |-> {t} \X (1..count[t])]
           T == {f[t] : t \in DOMAIN f}
<1>1. IsFiniteSet(T)
  <2>1. IsFiniteSet(DOMAIN f)
    OBVIOUS
  <2> HIDE DEF f
  <2> QED
    BY <2>1, FiniteRange
<1>2. ASSUME NEW t \in DOMAIN count PROVE IsFiniteSet({t} \X (1..count[t]))
  <2>1. 1 \in Int /\ count[t] \in Int
    OBVIOUS
  <2>2. IsFiniteSet(1..count[t])
    BY <2>1, FS_Interval
  <2>3. IsFiniteSet({t})
    BY FS_Singleton
  <2> QED
    BY <2>2, <2>3, FS_Product
<1>3. \A U \in T : IsFiniteSet(U)
  BY <1>2
<1>4. T = {{t} \X (1..count[t]) : t \in DOMAIN count}
  OBVIOUS
<1> HIDE DEF T
<1>5. IsFiniteSet(UNION T)
  BY <1>1, <1>3, FS_UNION
<1> QED
  BY <1>4, <1>5 DEF Total, Pairs

\* Fewer indices and smaller values have a smaller sum.
LEMMA TotalGrows ==
  ASSUME NEW f, NEW g, IsFiniteSet(DOMAIN g), DOMAIN f \subseteq DOMAIN g,
         \A t \in DOMAIN g : g[t] \in Nat,
         \A t \in DOMAIN f : f[t] \in Nat /\ f[t] <= g[t]
  PROVE  Total(f) <= Total(g)
<1>1. IsFiniteSet(DOMAIN f)
  BY FS_Subset
<1>2. ASSUME NEW z \in Pairs(f) PROVE z \in Pairs(g)
  <2>1. PICK t \in DOMAIN f : \E i \in 1..f[t] : z = <<t, i>>
    BY <1>2, PairsAre
  <2>2. PICK i \in 1..f[t] : z = <<t, i>>
    BY <2>1
  <2>3. t \in DOMAIN g /\ i \in 1..g[t]
    BY <2>2
  <2> QED
    BY <2>2, <2>3, PairsAre
<1>3. Pairs(f) \in SUBSET Pairs(g)
  BY <1>2
<1> QED
  BY <1>1, <1>3, PairsFinite, FS_Subset

\* Indices whose value is zero do not count.
LEMMA TotalSame ==
  ASSUME NEW f, NEW g, DOMAIN f \subseteq DOMAIN g,
         \A t \in DOMAIN f : f[t] = g[t],
         \A t \in DOMAIN g \ DOMAIN f : g[t] = 0
  PROVE  Total(f) = Total(g)
<1>1. ASSUME NEW z PROVE z \in Pairs(f) <=> z \in Pairs(g)
  <2>1. ASSUME z \in Pairs(f) PROVE z \in Pairs(g)
    <3>1. PICK t \in DOMAIN f : \E i \in 1..f[t] : z = <<t, i>>
      BY <2>1, PairsAre
    <3>2. t \in DOMAIN g /\ \E i \in 1..g[t] : z = <<t, i>>
      BY <3>1
    <3> QED
      BY <3>2, PairsAre
  <2>2. ASSUME z \in Pairs(g) PROVE z \in Pairs(f)
    <3>1. PICK t \in DOMAIN g : \E i \in 1..g[t] : z = <<t, i>>
      BY <2>2, PairsAre
    <3>2. t \in DOMAIN f
      BY <3>1
    <3>3. \E i \in 1..f[t] : z = <<t, i>>
      BY <3>1, <3>2
    <3> QED
      BY <3>2, <3>3, PairsAre
  <2> QED
    BY <2>1, <2>2
<1>2. Pairs(f) = Pairs(g)
  BY <1>1
<1> QED
  BY <1>2 DEF Total, Pairs

\* One value and the others
LEMMA TotalSplits ==
  ASSUME NEW f, IsFiniteSet(DOMAIN f), \A t \in DOMAIN f : f[t] \in Nat,
         NEW x \in DOMAIN f
  PROVE  Total(f) = Total([t \in DOMAIN f \ {x} |-> f[t]]) + f[x]
<1> DEFINE g == [t \in DOMAIN f \ {x} |-> f[t]]
           own == {x} \X (1..f[x])
<1>1. IsFiniteSet(DOMAIN g) /\ \A t \in DOMAIN g : g[t] \in Nat
  BY FS_Subset
<1>2. IsFiniteSet(own) /\ Cardinality(own) = f[x]
  <2>1. 1 \in Int /\ f[x] \in Nat
    OBVIOUS
  <2>2. IsFiniteSet(1..f[x]) /\ Cardinality(1..f[x]) = f[x]
    BY <2>1, FS_Interval
  <2>3. IsFiniteSet({x}) /\ Cardinality({x}) = 1
    BY FS_Singleton
  <2>4. IsFiniteSet(own) /\ Cardinality(own) = 1 * f[x]
    BY <2>2, <2>3, FS_Product, ZenonT(60)
  <2> QED
    BY <2>1, <2>4
<1>3. ASSUME NEW z PROVE z \in Pairs(f) <=> z \in Pairs(g) \cup own
  <2>1. ASSUME z \in Pairs(f) PROVE z \in Pairs(g) \cup own
    <3>1. PICK t \in DOMAIN f : \E i \in 1..f[t] : z = <<t, i>>
      BY <2>1, PairsAre
    <3>2. CASE t = x
      BY <3>1, <3>2
    <3>3. CASE t # x
      <4>1. t \in DOMAIN g /\ \E i \in 1..g[t] : z = <<t, i>>
        BY <3>1, <3>3
      <4> QED
        BY <4>1, PairsAre
    <3> QED
      BY <3>2, <3>3
  <2>2. ASSUME z \in Pairs(g) PROVE z \in Pairs(f)
    <3>1. PICK t \in DOMAIN g : \E i \in 1..g[t] : z = <<t, i>>
      BY <2>2, PairsAre
    <3>2. t \in DOMAIN f /\ \E i \in 1..f[t] : z = <<t, i>>
      BY <3>1
    <3> QED
      BY <3>2, PairsAre
  <2>3. ASSUME z \in own PROVE z \in Pairs(f)
    <3>1. \E i \in 1..f[x] : z = <<x, i>>
      BY <2>3
    <3> QED
      BY <3>1, PairsAre
  <2> QED
    BY <2>1, <2>2, <2>3
<1>4. Pairs(f) = Pairs(g) \cup own
  BY <1>3
<1>5. Pairs(g) \cap own = {}
  <2>1. ASSUME NEW z \in Pairs(g), z \in own PROVE FALSE
    <3>1. PICK t \in DOMAIN g : \E i \in 1..g[t] : z = <<t, i>>
      BY <2>1, PairsAre
    <3>2. z[1] = t /\ z[1] = x
      BY <2>1, <3>1
    <3> QED
      BY <3>1, <3>2
  <2> QED
    BY <2>1
<1> HIDE DEF own
<1>6. IsFiniteSet(Pairs(g)) /\ Total(g) = Cardinality(Pairs(g))
  BY <1>1, PairsFinite
<1>7. Total(f) = Cardinality(Pairs(f))
  BY PairsFinite
<1> HIDE DEF g
<1>8. Cardinality(Pairs(g) \cup own) =
        Cardinality(Pairs(g)) + Cardinality(own) - Cardinality({})
  BY <1>2, <1>5, <1>6, FS_Union
<1>9. Cardinality({}) = 0 /\ Cardinality(Pairs(g)) \in Nat /\ f[x] \in Nat
  BY <1>6, FS_EmptySet, FS_CardinalityType
<1>10. Total(f) = Total(g) + f[x]
  BY <1>2, <1>4, <1>6, <1>7, <1>8, <1>9
<1> QED
  BY <1>10 DEF g

\* One value is changed.
LEMMA TotalChanges ==
  ASSUME NEW f, IsFiniteSet(DOMAIN f), \A t \in DOMAIN f : f[t] \in Nat,
         NEW x \in DOMAIN f, NEW n \in Nat
  PROVE  Total([f EXCEPT ![x] = n]) = Total(f) - f[x] + n
<1> DEFINE g == [f EXCEPT ![x] = n]
           h == [t \in DOMAIN f \ {x} |-> f[t]]
<1>1. /\ DOMAIN g = DOMAIN f /\ g[x] = n /\ \A t \in DOMAIN f : g[t] \in Nat
      /\ h = [t \in DOMAIN g \ {x} |-> g[t]]
  OBVIOUS
<1>2. IsFiniteSet(DOMAIN h) /\ \A t \in DOMAIN h : h[t] \in Nat
  BY FS_Subset
<1>3. Total(f) = Total(h) + f[x]
  BY TotalSplits
<1> HIDE DEF g
<1>4. Total(g) = Total([t \in DOMAIN g \ {x} |-> g[t]]) + g[x]
  BY <1>1, TotalSplits
<1>5. Total(g) = Total(h) + n
  BY <1>1, <1>4
<1> HIDE DEF h
<1>6. Total(h) \in Nat /\ f[x] \in Nat
  BY <1>2, TotalType
<1> QED
  BY <1>3, <1>5, <1>6 DEF g

\* A sum is at most that of smaller values and what they lack.
LEMMA TotalLacks ==
  ASSUME NEW f, NEW g, NEW h, IsFiniteSet(DOMAIN f),
         DOMAIN g = DOMAIN f, DOMAIN h = DOMAIN f,
         \A t \in DOMAIN f : /\ f[t] \in Nat /\ g[t] \in Nat /\ h[t] \in Nat
                             /\ f[t] <= g[t] + h[t] 
  PROVE  Total(f) <= Total(g) + Total(h)
<1> DEFINE more == Pairs(f) \ Pairs(g)
           move == [z \in more |-> <<z[1], z[2] - g[z[1]]>>]
<1>1. /\ IsFiniteSet(Pairs(f)) /\ Total(f) = Cardinality(Pairs(f))
      /\ IsFiniteSet(Pairs(g)) /\ Total(g) = Cardinality(Pairs(g))
      /\ IsFiniteSet(Pairs(h)) /\ Total(h) = Cardinality(Pairs(h))
  BY PairsFinite
<1>2. ASSUME NEW z \in more
      PROVE  /\ z[1] \in DOMAIN f /\ z[2] \in Nat /\ z = <<z[1], z[2]>>
             /\ z[2] > g[z[1]] /\ z[2] <= f[z[1]]
  <2>1. PICK t \in DOMAIN f : \E i \in 1..f[t] : z = <<t, i>>
    BY <1>2, PairsAre
  <2>2. PICK i \in 1..f[t] : z = <<t, i>>
    BY <2>1
  <2>3. ~(i \in 1..g[t])
    <3>1. i \in 1..g[t] => z \in Pairs(g)
      BY <2>2, PairsAre
    <3> QED
      BY <1>2, <3>1
  <2>4. f[t] \in Nat /\ g[t] \in Nat /\ i \in Nat /\ i >= 1
    BY <2>2
  <2>5. i > g[t] /\ i <= f[t]
    BY <2>2, <2>3, <2>4
  <2> QED
    BY <2>2, <2>4, <2>5
<1>3. ASSUME NEW z \in more PROVE move[z] \in Pairs(h)
  <2>1. z[2] - g[z[1]] \in 1..h[z[1]]
    BY <1>2
  <2>2. move[z] = <<z[1], z[2] - g[z[1]]>>
    OBVIOUS
  <2> QED
    BY <1>2, <2>1, <2>2, PairsAre
<1>4. ASSUME NEW y \in more, NEW z \in more, move[y] = move[z] PROVE y = z
  <2>1. y[1] = z[1] /\ y[2] - g[y[1]] = z[2] - g[z[1]]
    BY <1>4
  <2>2. y[2] = z[2]
    BY <1>2, <2>1
  <2> QED
    BY <1>2, <2>1, <2>2
<1>5. move \in Injection(more, Pairs(h))
  BY <1>3, <1>4 DEF Injection, IsInjective
<1> HIDE DEF move
<1>6. Cardinality(more) <= Total(h)
  BY <1>1, <1>5, FS_Injection
<1>7. Cardinality(more) = Cardinality(Pairs(f)) - Cardinality(Pairs(f) \cap Pairs(g))
  BY <1>1, FS_Difference
<1>8. Cardinality(Pairs(f) \cap Pairs(g)) <= Cardinality(Pairs(g))
  BY <1>1, FS_Intersection
<1>9. /\ Cardinality(Pairs(f)) \in Nat /\ Cardinality(Pairs(g)) \in Nat
      /\ Cardinality(Pairs(f) \cap Pairs(g)) \in Nat /\ Total(h) \in Nat
  BY <1>1, FS_CardinalityType, FS_Intersection
<1> QED
  BY <1>1, <1>6, <1>7, <1>8, <1>9

-------------------------------------------------------------------------------
(* scaleDownReplicaSetsToTotal *)

\* With distinct places in the store the newest first is a strict total order.
Ranked(read, sets) ==
  \A t, u \in sets : t # u => read[t].at # read[u].at

\* sortReplicaSetsByNewestRevision orders ReplicaSets strictly.
LEMMA NewestFirst ==
  ASSUME NEW read \in ReadSets, NEW sets \in SUBSET Owned(read), Ranked(read, sets)
  PROVE  /\ \A t \in sets : ~Precedes("newest", read[t], read[t])
         /\ \A t, u \in sets : t # u => \/ Precedes("newest", read[t], read[u])
                                        \/ Precedes("newest", read[u], read[t])
         /\ \A t, u, x \in sets : /\ Precedes("newest", read[t], read[u])
                                  /\ Precedes("newest", read[u], read[x])
                                  => Precedes("newest", read[t], read[x])
<1>1. \A t \in sets : read[t].revision \in Nat /\ read[t].at \in Nat
  BY OwnedTypes DEF ReplicaSets
<1>2. \A a, b : Precedes("newest", a, b) <=>
                  a.revision > b.revision \/ (a.revision = b.revision /\ a.at < b.at)
  BY DEF Precedes
<1>3. \A t \in sets : ~Precedes("newest", read[t], read[t])
  BY <1>1, <1>2
<1>4. ASSUME NEW t \in sets, NEW u \in sets, t # u
      PROVE  Precedes("newest", read[t], read[u]) \/ Precedes("newest", read[u], read[t])
  <2>1. read[t].at # read[u].at
    BY <1>4 DEF Ranked
  <2> QED
    BY <1>1, <1>2, <2>1
<1>5. ASSUME NEW t \in sets, NEW u \in sets, NEW x \in sets,
             Precedes("newest", read[t], read[u]), Precedes("newest", read[u], read[x])
      PROVE  Precedes("newest", read[t], read[x])
  BY <1>1, <1>2, <1>5
<1> QED
  BY <1>3, <1>4, <1>5

\* One more ReplicaSet asks for as many pods more.
LEMMA SpecAdded ==
  ASSUME NEW read \in ReadSets, NEW few \in SUBSET Owned(read),
         NEW many \in SUBSET Owned(read), NEW u \in many, u \notin few, few \subseteq many
  PROVE  TotalSpec(read, few) + read[u].spec <= TotalSpec(read, many)
<1> DEFINE count(sets) == [t \in sets |-> read[t].spec]
           more == few \cup {u}
<1>1. IsFiniteSet(many) /\ IsFiniteSet(more) /\ more \subseteq many
  BY OwnedTypes, FS_Subset
<1>2. \A t \in many : read[t].spec \in Nat
  BY OwnedTypes DEF ReplicaSets
<1>3. Total(count(more)) = Total([t \in DOMAIN count(more) \ {u} |-> count(more)[t]]) + read[u].spec
  <2>1. /\ DOMAIN count(more) = more /\ count(more)[u] = read[u].spec
        /\ \A t \in more : count(more)[t] \in Nat
    BY <1>1, <1>2
  <2> DEFINE f == count(more)
  <2> HIDE DEF f
  <2>2. Total(f) = Total([t \in DOMAIN f \ {u} |-> f[t]]) + f[u]
    BY <1>1, <2>1, TotalSplits DEF f
  <2> QED
    BY <2>1, <2>2 DEF f
<1>4. [t \in DOMAIN count(more) \ {u} |-> count(more)[t]] = count(few)
  OBVIOUS
<1>5. Total(count(more)) <= Total(count(many))
  <2>1. /\ DOMAIN count(more) \subseteq DOMAIN count(many) /\ DOMAIN count(many) = many
        /\ \A t \in DOMAIN count(many) : count(many)[t] \in Nat
        /\ \A t \in DOMAIN count(more) : /\ count(more)[t] \in Nat
                                         /\ count(more)[t] <= count(many)[t]
    BY <1>1, <1>2
  <2> HIDE DEF count
  <2> QED
    BY <1>1, <2>1, TotalGrows
<1> QED
  BY <1>3, <1>4, <1>5 DEF TotalSpec

\* What is left after scaling down is at most the target: each replica that is
\* left has its own place behind those that are removed.
LEMMA ScaledDown ==
  ASSUME NEW read \in ReadSets, NEW old \in SUBSET Owned(read), Ranked(read, old),
         NEW target \in Nat, NEW kept \in [old -> Nat],
         \A t \in old :
           LET before == TotalSpec(read, {u \in old : Precedes("newest", read[u], read[t])})
           IN  kept[t] = read[t].spec
                           - AtMost(read[t].spec,
                                    Less(Less(TotalSpec(read, old), target), before))
  PROVE  Total(kept) <= target
<1> DEFINE ahead(t) == {u \in old : Precedes("newest", read[u], read[t])}
           before == [t \in old |-> TotalSpec(read, ahead(t))]
           total == TotalSpec(read, old)
           excess == Less(total, target)
           removed == [t \in old |-> AtMost(read[t].spec, Less(excess, before[t]))]
           place == [z \in Pairs(kept) |->
                       before[z[1]] + removed[z[1]] + z[2] - excess]
<1>1. \A t \in old : read[t].spec \in Nat
  BY OwnedTypes DEF ReplicaSets
<1>2. total \in Nat /\ \A t \in old : before[t] \in Nat
  BY SumTypes
<1>3. excess \in Nat /\ (excess = 0 \/ excess = total - target)
      /\ total <= excess + target
  <2> HIDE DEF total
  <2> QED
    BY <1>2 DEF Less
<1>4. ASSUME NEW t \in old
      PROVE  before[t] + read[t].spec <= total
  <2>1. t \notin ahead(t) /\ ahead(t) \subseteq old
    BY NewestFirst
  <2> QED
    BY <2>1, SpecAdded
<1>5. ASSUME NEW t \in old, NEW u \in old, Precedes("newest", read[t], read[u])
      PROVE  before[t] + read[t].spec <= before[u]
  <2>1. t \notin ahead(t) /\ t \in ahead(u) /\ ahead(t) \subseteq ahead(u)
    BY <1>5, NewestFirst
  <2> QED
    BY <2>1, SpecAdded
<1> HIDE DEF before, total, excess
<1>6. ASSUME NEW t \in old
      PROVE  /\ removed[t] \in Nat /\ kept[t] = read[t].spec - removed[t]
             /\ kept[t] > 0 => before[t] + removed[t] >= excess
  <2>1. kept[t] = read[t].spec - removed[t]
    BY DEF before, total, excess
  <2>2. removed[t] = AtMost(read[t].spec, Less(excess, before[t]))
    OBVIOUS
  <2>3. Less(excess, before[t]) \in Nat /\ Less(excess, before[t]) + before[t] >= excess
    BY <1>2, <1>3 DEF Less
  <2>4. \/ removed[t] = read[t].spec
        \/ removed[t] = Less(excess, before[t])
    BY <1>1, <2>2, <2>3, AtMostIs
  <2> HIDE DEF removed
  <2> QED
    BY <1>1, <1>2, <1>3, <2>1, <2>3, <2>4
<1> HIDE DEF removed
<1>7. ASSUME NEW z \in Pairs(kept)
      PROVE  /\ z[1] \in old /\ z[2] \in Nat /\ z = <<z[1], z[2]>>
             /\ z[2] >= 1 /\ z[2] <= kept[z[1]]
             /\ place[z] = before[z[1]] + removed[z[1]] + z[2] - excess
  <2>1. PICK t \in old : \E i \in 1..kept[t] : z = <<t, i>>
    BY <1>7, PairsAre
  <2>2. PICK i \in 1..kept[t] : z = <<t, i>>
    BY <2>1
  <2>3. kept[t] \in Nat
    OBVIOUS
  <2> QED
    BY <2>2, <2>3
<1> HIDE DEF place
<1>8. ASSUME NEW z \in Pairs(kept) PROVE place[z] \in 1..target
  <2>1. /\ removed[z[1]] \in Nat /\ kept[z[1]] = read[z[1]].spec - removed[z[1]]
        /\ kept[z[1]] > 0 => before[z[1]] + removed[z[1]] >= excess
        /\ before[z[1]] + read[z[1]].spec <= total
        /\ before[z[1]] \in Nat /\ read[z[1]].spec \in Nat
    BY <1>1, <1>2, <1>4, <1>6, <1>7
  <2> QED
    BY <1>2, <1>3, <1>7, <2>1
<1>9. ASSUME NEW y \in Pairs(kept), NEW z \in Pairs(kept), place[y] = place[z]
      PROVE  y = z
  <2>1. /\ removed[y[1]] \in Nat /\ kept[y[1]] = read[y[1]].spec - removed[y[1]]
        /\ removed[z[1]] \in Nat /\ kept[z[1]] = read[z[1]].spec - removed[z[1]]
        /\ before[y[1]] \in Nat /\ before[z[1]] \in Nat
        /\ read[y[1]].spec \in Nat /\ read[z[1]].spec \in Nat
    BY <1>1, <1>2, <1>6, <1>7
  <2>2. before[y[1]] + removed[y[1]] + y[2] = before[z[1]] + removed[z[1]] + z[2]
    BY <1>3, <1>7, <1>9, <2>1
  <2>3. ~Precedes("newest", read[y[1]], read[z[1]])
    <3>1. Precedes("newest", read[y[1]], read[z[1]]) =>
            before[y[1]] + read[y[1]].spec <= before[z[1]]
      BY <1>5, <1>7
    <3> QED
      BY <1>7, <2>1, <2>2, <3>1
  <2>4. ~Precedes("newest", read[z[1]], read[y[1]])
    <3>1. Precedes("newest", read[z[1]], read[y[1]]) =>
            before[z[1]] + read[z[1]].spec <= before[y[1]]
      BY <1>5, <1>7
    <3> QED
      BY <1>7, <2>1, <2>2, <3>1
  <2>5. y[1] = z[1]
    BY <1>7, <2>3, <2>4, NewestFirst
  <2>6. y[2] = z[2]
    BY <1>7, <2>1, <2>2, <2>5
  <2> QED
    BY <1>7, <2>5, <2>6
<1>10. DOMAIN place = Pairs(kept)
  BY DEF place
<1>11. place \in [Pairs(kept) -> 1..target]
  BY <1>8 DEF place
<1>12. place \in Injection(Pairs(kept), 1..target)
  BY <1>9, <1>11 DEF Injection, IsInjective
<1>13. IsFiniteSet(1..target) /\ Cardinality(1..target) = target
  <2>1. 1 \in Int /\ target \in Int
    OBVIOUS
  <2> QED
    BY <2>1, FS_Interval
<1>14. IsFiniteSet(old)
  BY OwnedTypes, FS_Subset
<1> QED
  BY <1>12, <1>13, <1>14, PairsFinite, FS_Injection

-------------------------------------------------------------------------------
(* Plans of a rolling update, and what they may do to the sum of what is asked *)

Specs(read) == [t \in Templates |-> IF read[t] = None THEN 0 ELSE read[t].spec]

\* What a plan is judged by
BookOf(d, read) ==
  [specs |-> Specs(read), template |-> d.template,
   exists |-> read[d.template] # None, room |-> Ceiling(d)]

\* Steps that change no specification but that of the current ReplicaSet, to v
Quiets(v, book) ==
  AgainSteps \cup DeploymentSteps
    \cup {step \in SetsSteps : \E write : /\ step.writes = {write}
                                          /\ write.template = book.template
                                          /\ write.rs.spec = v}

HasAgain(steps) == \E k \in DOMAIN steps : steps[k].do = "enqueue"

\* f is what is asked of each template after the writes.
Reaches(writes, specs, f) ==
  /\ f \in [Templates -> Nat]
  /\ \A write \in writes : f[write.template] = write.rs.spec
  /\ \A t \in Templates : (\A write \in writes : write.template # t) => f[t] = specs[t]

\* A step that scales old ReplicaSets.  In a plan of the immediate loop nobody
\* else does so meanwhile, and it scales them down.
Scales(step, looped, book) ==
  /\ step \in SetsSteps /\ book.exists
  /\ \A write \in step.writes : write.template # book.template
  /\ looped => \E f : /\ Reaches(step.writes, book.specs, f)
                      /\ \A t \in Templates : f[t] <= book.specs[t]

\* It leaves no more than there is room for.
Frees(step, book) ==
  \E f : Reaches(step.writes, book.specs, f) /\ Total(f) <= book.room

\* A plan that asks for no more of the current ReplicaSet: old ones are scaled
\* first, and when some of them stay the plan adds its key again.
Settling(steps, v, looped, book) ==
  \E later \in Seq(Quiets(v, book)) :
    \/ steps = later
    \/ \E step : /\ steps = <<step>> \o later
                 /\ Scales(step, looped, book)
                 /\ (\E write \in step.writes : write.rs.spec > 0) => HasAgain(later)

\* A step that asks for more of the current ReplicaSet, as far as there is room
Raises(step, v, book) ==
  /\ step \in SetsSteps /\ book.exists
  /\ \E write : /\ step.writes = {write} /\ write.template = book.template
                /\ write.rs.spec >= v
                /\ Total([book.specs EXCEPT ![book.template] = write.rs.spec]) <= book.room

\* A step that creates the current ReplicaSet
Begins(step, book) ==
  /\ step \in CreateSteps /\ step.template = book.template /\ ~book.exists
  /\ \/ step.rs.spec = 0
     \/ Total([book.specs EXCEPT ![book.template] = step.rs.spec]) <= book.room

\* A plan that has just been made
Fresh(steps, v, looped, book) ==
  \/ Settling(steps, v, looped, book)
  \/ \E step, later :
       /\ steps = <<step>> \o later
       /\ \/ Raises(step, v, book) /\ Settling(later, v, looped, book)
          \/ Begins(step, book) /\ later \in Seq(Quiets(v, book))

\* A plan that brings the sum back to what there is room for
Heals(steps, v, book) ==
  \E step : \E later \in Seq(Quiets(v, book)) :
    steps = <<step>> \o later /\ Scales(step, TRUE, book) /\ Frees(step, book)

\* What the ReplicaSets ask for, template by template
LEMMA SpecsType ==
  ASSUME NEW read \in ReadSets
  PROVE  /\ Specs(read) \in [Templates -> Nat] /\ IsFiniteSet(DOMAIN Specs(read))
         /\ DOMAIN Specs(read) = Templates
         /\ \A t \in Templates : Specs(read)[t] = IF read[t] = None THEN 0 ELSE read[t].spec
         /\ Total(Specs(read)) \in Nat
<1>1. \A t \in Templates : (IF read[t] = None THEN 0 ELSE read[t].spec) \in Nat
  BY DEF ReadSets, ReplicaSets
<1>2. Specs(read) \in [Templates -> Nat]
  BY <1>1 DEF Specs
<1>3. /\ DOMAIN Specs(read) = Templates /\ IsFiniteSet(DOMAIN Specs(read))
      /\ \A t \in DOMAIN Specs(read) : Specs(read)[t] \in Nat
  BY <1>2, TemplatesAssumption
<1> QED
  BY <1>2, <1>3, TotalType DEF Specs

\* A sum over all templates, with one apart
LEMMA OneApart ==
  ASSUME NEW old \in SUBSET Templates, NEW t \in Templates \ old,
         NEW f \in [Templates -> Nat], NEW kept \in [old -> Nat],
         \A u \in old : f[u] = kept[u],
         \A u \in Templates \ (old \cup {t}) : f[u] = 0
  PROVE  Total(f) = Total(kept) + f[t]
<1> DEFINE g == [u \in DOMAIN f \ {t} |-> f[u]]
<1>1. Total(f) = Total(g) + f[t]
  BY TotalSplits, TemplatesAssumption
<1>2. DOMAIN kept = old /\ DOMAIN g = Templates \ {t}
  OBVIOUS
<1>3. /\ \A u \in DOMAIN kept : kept[u] = g[u]
      /\ \A u \in DOMAIN g \ DOMAIN kept : g[u] = 0
  OBVIOUS
<1> HIDE DEF g
<1>4. Total(kept) = Total(g)
  BY <1>2, <1>3, TotalSame
<1> QED
  BY <1>1, <1>4

\* The sum is that of the old ReplicaSets and of one template's.
LEMMA SpecsSplit ==
  ASSUME NEW read \in ReadSets, NEW t \in Templates, NEW n \in Nat
  PROVE  LET old == Owned(read) \ {t}
         IN  /\ Total(Specs(read)) = TotalSpec(read, old) + Specs(read)[t]
             /\ Total([Specs(read) EXCEPT ![t] = n]) = TotalSpec(read, old) + n
<1> DEFINE old == Owned(read) \ {t}
           specs == Specs(read)
           kept == [u \in old |-> read[u].spec]
           next == [specs EXCEPT ![t] = n]
<1>1. old \in SUBSET Templates /\ t \in Templates \ old
  BY OwnedTypes
<1>2. specs \in [Templates -> Nat] /\ \A u \in Templates \ Owned(read) : specs[u] = 0
  BY SpecsType DEF Owned
<1>3. kept \in [old -> Nat] /\ \A u \in old : specs[u] = kept[u]
  BY OwnedTypes, SpecsType DEF Owned, ReplicaSets
<1>4. Total(kept) = TotalSpec(read, old)
  BY DEF TotalSpec
<1>5. \A u \in Templates \ (old \cup {t}) : specs[u] = 0
  BY <1>2
<1> HIDE DEF specs, kept
<1>6. /\ next \in [Templates -> Nat] /\ next[t] = n
      /\ \A u \in old : next[u] = kept[u]
      /\ \A u \in Templates \ (old \cup {t}) : next[u] = 0
  BY <1>1, <1>2, <1>3, <1>5
<1> HIDE DEF next, old
<1>7. Total(specs) = Total(kept) + specs[t] /\ Total(next) = Total(kept) + next[t]
  BY <1>1, <1>2, <1>3, <1>5, <1>6, OneApart
<1> QED
  BY <1>4, <1>6, <1>7 DEF specs, next, old

\* scaleDownReplicaSetsToTotal scales the old ReplicaSets down to the target.
LEMMA ScaleDownFits ==
  ASSUME NEW d \in Deployments, NEW read \in ReadSets, read[d.template] # None,
         Ranked(read, Owned(read)), NEW target \in Nat
  PROVE  LET old == Owned(read) \ {d.template}
             book == BookOf(d, read)
         IN  \/ /\ ScaleDownToTotal(read, old, target) = << >>
                /\ TotalSpec(read, old) <= target
             \/ \E step :
                  /\ ScaleDownToTotal(read, old, target) = <<step>>
                  /\ Scales(step, TRUE, book) /\ Scales(step, FALSE, book)
                  /\ target + read[d.template].spec <= book.room => Frees(step, book)
                  /\ target = 0 => \A write \in step.writes : write.rs.spec = 0
<1> DEFINE old == Owned(read) \ {d.template}
           book == BookOf(d, read)
           total == TotalSpec(read, old)
           before(t) == TotalSpec(read, {u \in old : Precedes("newest", read[u], read[t])})
           removable(t) == AtMost(read[t].spec, Less(Less(total, target), before(t)))
           scaled == {t \in old : removable(t) > 0}
           writes == {Write(t, [read[t] EXCEPT !.spec = @ - removable(t)]) : t \in scaled}
           kept == [t \in old |-> read[t].spec - removable(t)]
           f == [t \in Templates |-> IF t \in old THEN kept[t] ELSE Specs(read)[t]]
<1>1. /\ d.template \in Templates /\ d.template \in Owned(read)
      /\ old \in SUBSET Owned(read) /\ Ranked(read, old) /\ Owned(read) \subseteq Templates
  BY OwnedTypes DEF Deployments, Owned, Ranked
<1>2. total \in Nat
  BY SumTypes
<1>3. ASSUME NEW t \in old
      PROVE  /\ read[t] \in ReplicaSets /\ read[t].spec \in Nat /\ removable(t) \in Nat
             /\ removable(t) <= read[t].spec
             /\ Specs(read)[t] = read[t].spec
  <2>1. read[t] \in ReplicaSets /\ read[t].spec \in Nat
    BY OwnedTypes DEF ReplicaSets
  <2>2. before(t) \in Nat
    BY SumTypes
  <2>3. Less(Less(total, target), before(t)) \in Nat
    <3> HIDE DEF total, before
    <3> QED
      BY <1>2, <2>2, LessType
  <2>4. Specs(read)[t] = read[t].spec
    BY <1>1, SpecsType DEF Owned
  <2> HIDE DEF total, before
  <2> QED
    BY <2>1, <2>3, <2>4, AtMostType
<1>4. kept \in [old -> Nat]
  <2>1. \A t \in old : read[t].spec - removable(t) \in Nat
    <3> HIDE DEF removable, old
    <3> QED
      BY <1>3
  <2> QED
    BY <2>1
<1>5. Total(kept) <= target
  <2>1. ASSUME NEW t \in old
        PROVE  LET b == TotalSpec(read, {u \in old : Precedes("newest", read[u], read[t])})
               IN  kept[t] = read[t].spec
                               - AtMost(read[t].spec,
                                        Less(Less(TotalSpec(read, old), target), b))
    OBVIOUS
  <2> HIDE DEF kept, old
  <2> QED
    BY <1>1, <1>4, <2>1, ScaledDown
<1>6. ScaleDownToTotal(read, old, target) = When(scaled # {}, WriteSets("newest", writes))
  BY DEF ScaleDownToTotal
<1>7. ASSUME NEW t \in old PROVE kept[t] = read[t].spec - removable(t)
  OBVIOUS
<1>8. f \in [Templates -> Nat] /\ \A t \in old : f[t] = kept[t]
  BY <1>1, <1>4, SpecsType
<1>9. \A t \in Templates \ old : f[t] = Specs(read)[t]
  OBVIOUS
<1> HIDE DEF removable, kept, f, total
<1>10. CASE scaled = {}
  <2>1. ScaleDownToTotal(read, old, target) = << >>
    BY <1>6, <1>10 DEF When
  <2>2. \A t \in old : kept[t] = read[t].spec
    <3>1. ASSUME NEW t \in old PROVE kept[t] = read[t].spec
      <4>1. ~(removable(t) > 0)
        BY <1>10
      <4> HIDE DEF old, scaled
      <4> QED
        BY <1>3, <1>7, <4>1
    <3> QED
      BY <3>1
  <2>3. kept = [t \in old |-> read[t].spec]
    BY <1>4, <2>2
  <2>4. Total(kept) = TotalSpec(read, old)
    BY <2>3 DEF TotalSpec
  <2> QED
    BY <1>5, <2>1, <2>4
<1>11. CASE scaled # {}
  <2> DEFINE step == WriteSets("newest", writes)
  <2>1. ScaleDownToTotal(read, old, target) = <<step>>
    BY <1>6, <1>11 DEF When
  <2>2. step.writes = writes /\ step.do = "sets"
    BY DEF WriteSets
  <2>3. ASSUME NEW write \in writes
        PROVE  /\ write \in [template : Templates, rs : ReplicaSets]
               /\ write.template \in old /\ write.rs.spec = kept[write.template]
               /\ write.template \in scaled
    <3>1. PICK t \in scaled : write = Write(t, [read[t] EXCEPT !.spec = @ - removable(t)])
      BY <2>3
    <3>2. t \in old /\ t \in Templates
      BY <1>1
    <3> DEFINE new == [read[t] EXCEPT !.spec = @ - removable(t)]
    <3>3. kept[t] \in Nat /\ kept[t] = read[t].spec - removable(t)
      BY <1>4, <1>7, <3>2
    <3>4. new \in ReplicaSets /\ new.spec = kept[t]
      BY <1>3, <3>2, <3>3 DEF ReplicaSets
    <3> HIDE DEF new
    <3>5. write = [template |-> t, rs |-> new]
      BY <3>1 DEF Write, new
    <3> QED
      BY <3>1, <3>2, <3>4, <3>5
  <2>4. ASSUME NEW t \in scaled PROVE \E write \in writes : write.template = t
    <3> DEFINE own == Write(t, [read[t] EXCEPT !.spec = @ - removable(t)])
    <3>1. own \in writes
      OBVIOUS
    <3>2. own.template = t
      BY DEF Write
    <3> QED
      BY <3>1, <3>2
  <2>5. step \in SetsSteps
    <3>1. writes \in SUBSET [template : Templates, rs : ReplicaSets]
      BY <2>3
    <3> HIDE DEF writes
    <3> QED
      BY <3>1 DEF WriteSets, SetsSteps
  <2> HIDE DEF writes, step
  <2>6. Reaches(step.writes, book.specs, f)
    <3>1. book.specs = Specs(read)
      BY DEF BookOf
    <3>2. \A write \in writes : f[write.template] = write.rs.spec
      BY <1>8, <2>3
    <3>3. ASSUME NEW t \in Templates, \A write \in writes : write.template # t
          PROVE  f[t] = Specs(read)[t]
      <4>1. t \notin scaled
        BY <2>4, <3>3
      <4>2. CASE t \in old
        <5>1. ~(removable(t) > 0)
          BY <4>1, <4>2
        <5>2. kept[t] = read[t].spec
          <6> HIDE DEF old, scaled
          <6> QED
            BY <1>3, <1>7, <4>2, <5>1
        <5> QED
          BY <1>3, <1>8, <4>2, <5>2
      <4>3. CASE t \notin old
        BY <1>9, <4>3
      <4> QED
        BY <4>2, <4>3
    <3> QED
      BY <1>8, <2>2, <3>1, <3>2, <3>3 DEF Reaches
  <2>7. \A t \in Templates : f[t] <= book.specs[t]
    <3>1. ASSUME NEW t \in Templates PROVE f[t] <= Specs(read)[t]
      <4>1. CASE t \in old
        <5> HIDE DEF old
        <5> QED
          BY <1>3, <1>7, <1>8, <4>1
      <4>2. CASE t \notin old
        <5>1. f[t] = Specs(read)[t] /\ f[t] \in Nat
          BY <1>8, <1>9, <4>2
        <5> QED
          BY <5>1
      <4> QED
        BY <4>1, <4>2
    <3> QED
      BY <3>1 DEF BookOf
  <2>8. Scales(step, TRUE, book) /\ Scales(step, FALSE, book)
    <3>1. book.exists /\ book.template = d.template
      BY DEF BookOf
    <3>2. \A write \in step.writes : write.template # d.template
      BY <2>2, <2>3
    <3>3. \E g : /\ Reaches(step.writes, book.specs, g)
                 /\ \A t \in Templates : g[t] <= book.specs[t]
      BY <2>6, <2>7
    <3> HIDE DEF book
    <3> QED
      BY <2>5, <3>1, <3>2, <3>3 DEF Scales
  <2>9. Total(f) = Total(kept) + read[d.template].spec
    <3>1. \A u \in Templates \ (old \cup {d.template}) : f[u] = 0
      BY <1>1, <1>9, SpecsType DEF Owned
    <3>2. f[d.template] = read[d.template].spec
      BY <1>1, <1>9, SpecsType
    <3>3. old \in SUBSET Templates /\ d.template \in Templates \ old
      BY <1>1
    <3> HIDE DEF old
    <3> QED
      BY <1>4, <1>8, <3>1, <3>2, <3>3, OneApart
  <2>10. read[d.template].spec \in Nat /\ Ceiling(d) \in Nat /\ Total(kept) \in Nat
    <3>1. IsFiniteSet(DOMAIN kept) /\ \A t \in DOMAIN kept : kept[t] \in Nat
      BY <1>1, <1>4, OwnedTypes, FS_Subset
    <3> QED
      BY <1>1, <3>1, OwnedTypes, LimitTypes, TotalType DEF ReplicaSets
  <2>11. ASSUME target + read[d.template].spec <= book.room PROVE Frees(step, book)
    <3>1. book.room = Ceiling(d)
      BY DEF BookOf
    <3>2. Total(f) <= book.room
      BY <1>5, <2>9, <2>10, <2>11, <3>1
    <3> HIDE DEF book
    <3> QED
      BY <2>6, <3>2 DEF Frees
  <2>12. ASSUME target = 0, NEW write \in step.writes PROVE write.rs.spec = 0
    <3> DEFINE t == write.template
               others == [u \in DOMAIN kept \ {t} |-> kept[u]]
    <3>1. t \in old /\ write.rs.spec = kept[t]
      BY <2>2, <2>3, <2>12
    <3> HIDE DEF t
    <3>2. /\ IsFiniteSet(DOMAIN kept) /\ t \in DOMAIN kept
          /\ \A u \in DOMAIN kept : kept[u] \in Nat
      BY <1>1, <1>4, <3>1, OwnedTypes, FS_Subset
    <3>3. Total(kept) = Total(others) + kept[t]
      BY <3>2, TotalSplits
    <3>4. Total(others) \in Nat
      <4>1. IsFiniteSet(DOMAIN others) /\ \A u \in DOMAIN others : others[u] \in Nat
        BY <3>2, FS_Subset
      <4> HIDE DEF others
      <4> QED
        BY <4>1, TotalType
    <3> QED
      BY <1>5, <2>10, <2>12, <3>1, <3>2, <3>3, <3>4
  <2> QED
    BY <2>1, <2>8, <2>11, <2>12
<1> QED
  BY <1>10, <1>11

\* Steps that leave the specifications alone
LEMMA QuietSteps ==
  ASSUME NEW d \in Deployments, NEW read \in ReadSets, NEW v
  PROVE  LET quiet == Quiets(v, BookOf(d, read))
         IN  /\ Again \in quiet
             /\ \A rs \in ReplicaSets : rs.spec = v => WriteSet(d.template, rs) \in quiet
             /\ \A n \in Nat : /\ WriteDeployment([d EXCEPT !.revision = n]) \in quiet
                               /\ WriteStatus([d EXCEPT !.revision = n]) \in quiet
             /\ WriteStatus(d) \in quiet
<1> DEFINE book == BookOf(d, read)
           quiet == Quiets(v, book)
<1>1. d.template \in Templates /\ book.template = d.template
  BY DEF Deployments, BookOf
<1> HIDE DEF book
<1>2. Again \in quiet
  BY DEF Quiets, Again, AgainSteps
<1>3. ASSUME NEW rs \in ReplicaSets, rs.spec = v PROVE WriteSet(d.template, rs) \in quiet
  <2> DEFINE write == Write(d.template, rs)
             step == WriteSet(d.template, rs)
  <2>1. /\ write \in [template : Templates, rs : ReplicaSets]
        /\ write.template = d.template /\ write.rs = rs
    BY <1>1 DEF Write
  <2> HIDE DEF write
  <2>2. step = [do |-> "sets", order |-> "stored", writes |-> {write}]
    BY DEF WriteSet, WriteSets, write
  <2> HIDE DEF step
  <2>3. step \in SetsSteps /\ step.writes = {write}
    BY <2>1, <2>2 DEF SetsSteps
  <2>4. step \in quiet
    BY <1>1, <1>3, <2>1, <2>3 DEF Quiets
  <2> QED
    BY <2>4 DEF step
<1>4. \A e \in Deployments : WriteDeployment(e) \in quiet /\ WriteStatus(e) \in quiet
  BY DEF Quiets, WriteDeployment, WriteStatus, DeploymentSteps
<1>5. \A n \in Nat : [d EXCEPT !.revision = n] \in Deployments
  BY DEF Deployments
<1> QED
  BY <1>2, <1>3, <1>4, <1>5 DEF book

\* A plan that corrects the revisions changes no specification.
LEMMA RevisionQuiet ==
  ASSUME NEW d \in Deployments, NEW read \in ReadSets, read[d.template] # None
  PROVE  RevisionPlan(d, read) \in Seq(Quiets(read[d.template].spec, BookOf(d, read)))
<1> DEFINE current == read[d.template]
           quiet == Quiets(current.spec, BookOf(d, read))
           highest == Max({read[t].revision : t \in Owned(read)} \cup {d.revision})
           revision == IF current.revision < highest THEN highest + 1
                       ELSE current.revision
           synced == [d EXCEPT !.revision = revision]
           first == When(current.revision # revision,
                         WriteSet(d.template, [current EXCEPT !.revision = revision]))
           second == When(d.revision # revision, WriteDeployment(synced))
           last == WriteStatus(synced)
<1>1. /\ d.template \in Templates /\ d.revision \in Nat /\ current \in ReplicaSets
      /\ current.revision \in Nat
  BY DEF Deployments, ReadSets, ReplicaSets
<1>2. highest \in Nat
  BY <1>1, HighestRevision
<1>3. revision \in Nat
  <2> HIDE DEF highest, current
  <2> QED
    BY <1>1, <1>2
<1> HIDE DEF revision
<1>4. /\ [current EXCEPT !.revision = revision] \in ReplicaSets
      /\ [current EXCEPT !.revision = revision].spec = current.spec
  <2> HIDE DEF current
  <2> QED
    BY <1>1, <1>3 DEF ReplicaSets
<1>5. /\ WriteSet(d.template, [current EXCEPT !.revision = revision]) \in quiet
      /\ WriteDeployment(synced) \in quiet /\ last \in quiet
  <2> DEFINE new == [current EXCEPT !.revision = revision]
             v == current.spec
  <2> HIDE DEF current, new, v
  <2> QED
    BY <1>3, <1>4, QuietSteps DEF v, new
<1>6. RevisionPlan(d, read) = (first \o second) \o <<last>>
  BY DEF RevisionPlan, revision
<1> HIDE DEF quiet
<1>7. first \in Seq(quiet) /\ second \in Seq(quiet)
  <2> HIDE DEF last, synced, current
  <2> QED
    BY <1>5, WhenType
<1> HIDE DEF first, second, last
<1>8. first \o second \in Seq(quiet) /\ <<last>> \in Seq(quiet)
  BY <1>5, <1>7, ConcatType
<1>9. (first \o second) \o <<last>> \in Seq(quiet)
  BY <1>8, ConcatType
<1> QED
  BY <1>6, <1>9 DEF quiet

\* Sums of zeros
LEMMA NothingAdds ==
  ASSUME NEW f, \A t \in DOMAIN f : f[t] = 0
  PROVE  Total(f) = 0
<1>1. UNION {{t} \X (1..f[t]) : t \in DOMAIN f} = {}
  <2>1. \A t \in DOMAIN f : 1..f[t] = {}
    OBVIOUS
  <2> QED
    BY <2>1
<1> QED
  BY <1>1, FS_EmptySet DEF Total

\* maxScaleDown is at least the pods of the old ReplicaSets that are unavailable.
LEMMA ScaleDownIsEnough ==
  ASSUME NEW d \in Deployments, NEW read \in ReadSets, NEW old \in SUBSET Owned(read),
         NEW oldTotal \in Nat, NEW target \in Nat
  PROVE  LET unavailable == Total([t \in old |-> Unavailable(read[t])])
             down == MaxScaleDown(d, read, old, oldTotal, target)
         IN  /\ down \in Nat /\ down <= oldTotal /\ unavailable \in Nat
             /\ unavailable >= oldTotal => down = oldTotal
             /\ unavailable <= oldTotal => down >= unavailable
<1> DEFINE unavailable == Total([t \in old |-> Unavailable(read[t])])
           available == TotalAvailable(read, Owned(read))
           a == Less(oldTotal + target, Floor(d))
           b == Less(available, Floor(d))
           both == {AtMost(a, b), unavailable}
           down == MaxScaleDown(d, read, old, oldTotal, target)
<1>1. unavailable \in Nat /\ available \in Nat
  BY SumTypes
<1>2. a \in Nat /\ b \in Nat
  <2> HIDE DEF available
  <2>1. oldTotal + target \in Nat /\ Floor(d) \in Nat
    BY LimitTypes
  <2> QED
    BY <1>1, <2>1, LessType
<1>3. AtMost(a, b) \in Nat
  <2> HIDE DEF a, b
  <2> QED
    BY <1>2, AtMostType
<1> HIDE DEF a, b, unavailable
<1>4. both \in SUBSET Nat /\ IsFiniteSet(both) /\ both # {} /\ unavailable \in both
  <2>1. {AtMost(a, b)} \cup {unavailable} = both
    OBVIOUS
  <2>2. IsFiniteSet({AtMost(a, b)})
    BY FS_Singleton
  <2>3. IsFiniteSet({AtMost(a, b)} \cup {unavailable})
    BY <2>2, FS_AddElement
  <2> QED
    BY <1>1, <1>3, <2>1, <2>3
<1>5. down = AtMost(oldTotal, Max(both))
  BY DEF MaxScaleDown, a, b, unavailable
<1> HIDE DEF both, down
<1>6. Max(both) \in Nat /\ Max(both) >= unavailable
  BY <1>4, MaxType
<1>7. down = IF oldTotal <= Max(both) THEN oldTotal ELSE Max(both)
  BY <1>5, <1>6, AtMostIs
<1> QED
  BY <1>1, <1>6, <1>7 DEF unavailable, down

\* Sequences of steps
LEMMA StepsIn ==
  /\ \A S, T : S \subseteq T => Seq(S) \subseteq Seq(T)
  /\ \A S : \A list \in Seq(S) : << >> \o list = list /\ list \o << >> = list
  /\ \A S : \A x \in S : <<x>> \in Seq(S) 
OBVIOUS

\* A concatenation that begins with such a step has it.
LEMMA AgainFirst ==
  ASSUME NEW S, NEW list \in Seq(S)
  PROVE  HasAgain(<<Again>> \o list)
<1> DEFINE steps == <<Again>> \o list
<1>1. 1 \in DOMAIN steps /\ steps[1] = Again
  OBVIOUS
<1>2. Again.do = "enqueue"
  BY DEF Again
<1> QED
  BY <1>1, <1>2 DEF HasAgain

\* reconcileRollingUpdateStrategy raises the current ReplicaSet as far as there
\* is room, and makes room when there is none.
LEMMA RollingFits ==
  ASSUME NEW d \in Deployments, NEW read \in ReadSets, read[d.template] # None,
         Ranked(read, Owned(read))
  PROVE  LET plan == RollingPlan(d, read) \o RevisionPlan(d, read)
             book == BookOf(d, read)
             v == read[d.template].spec
             old == Owned(read) \ {d.template}
             unavailable == Total([t \in old |-> Unavailable(read[t])])
         IN  /\ Fresh(plan, v, TRUE, book) /\ Fresh(plan, v, FALSE, book)
             /\ /\ Total(Specs(read)) > Ceiling(d) /\ v <= Ceiling(d)
                /\ unavailable + Ceiling(d) >= Total(Specs(read))
                => Heals(plan, v, book)
<1> DEFINE current == read[d.template]
           v == current.spec
           book == BookOf(d, read)
           quiet == Quiets(v, book)
           old == Owned(read) \ {d.template}
           unavailable == Total([t \in old |-> Unavailable(read[t])])
           oldTotal == TotalSpec(read, old)
           scaleUp == AtMost(Less(d.replicas, current.spec),
                             Less(Ceiling(d), oldTotal + current.spec))
           target == current.spec + scaleUp
           down == MaxScaleDown(d, read, old, oldTotal, target)
           targetOld == oldTotal - down
           mayScaleDown == \/ current.available >= target
                           \/ \E t \in old : Unavailable(read[t]) > 0
           new == [current EXCEPT !.spec = target]
           first == When(scaleUp > 0, WriteSet(d.template, new))
           second == IF mayScaleDown /\ targetOld < oldTotal
                     THEN ScaleDownToTotal(read, old, targetOld) ELSE << >>
           third == When(target < d.replicas \/ targetOld > 0, Again)
           revision == RevisionPlan(d, read)
           later == third \o revision
<1>1. /\ d.template \in Templates /\ d.replicas \in Nat /\ current \in ReplicaSets
      /\ v \in Nat /\ Ceiling(d) \in Nat
  BY LimitTypes DEF Deployments, ReadSets, ReplicaSets
<1>2. old \in SUBSET Owned(read) /\ oldTotal \in Nat
  BY SumTypes
<1>3. /\ Total(Specs(read)) = oldTotal + v
      /\ \A n \in Nat : Total([Specs(read) EXCEPT ![d.template] = n]) = oldTotal + n
  <2>1. Specs(read)[d.template] = v
    BY <1>1, SpecsType
  <2> QED
    BY <1>1, <2>1, SpecsSplit
<1>4. /\ book.specs = Specs(read) /\ book.template = d.template /\ book.exists
      /\ book.room = Ceiling(d)
  BY DEF BookOf
<1>5. /\ scaleUp \in Nat
      /\ scaleUp > 0 => oldTotal + target <= Ceiling(d)
      /\ oldTotal + v > Ceiling(d) => scaleUp = 0
  <2> DEFINE a == Less(d.replicas, v)
             b == Less(Ceiling(d), oldTotal + v)
  <2> HIDE DEF oldTotal, v
  <2>1. a \in Nat /\ b \in Nat
    <3>1. oldTotal + v \in Nat
      BY <1>1, <1>2
    <3> QED
      BY <1>1, <3>1, LessType
  <2>2. b > 0 => b = Ceiling(d) - (oldTotal + v)
    BY <1>1, <1>2 DEF Less
  <2>3. oldTotal + v > Ceiling(d) => b = 0
    BY <1>1, <1>2 DEF Less
  <2>4. scaleUp = IF a <= b THEN a ELSE b
    <3>1. scaleUp = AtMost(a, b)
      BY DEF v
    <3> HIDE DEF a, b, scaleUp
    <3> QED
      BY <2>1, <3>1, AtMostIs
  <2>5. target = v + scaleUp
    BY DEF v
  <2> HIDE DEF a, b, scaleUp, target
  <2> QED
    BY <1>1, <1>2, <2>1, <2>2, <2>3, <2>4, <2>5
<1>6. target = v + scaleUp
  OBVIOUS
<1> HIDE DEF scaleUp
<1>7. target \in Nat /\ target >= v
  <2> HIDE DEF target, v
  <2> QED
    BY <1>1, <1>5, <1>6
<1> HIDE DEF oldTotal
<1>8. /\ down \in Nat /\ down <= oldTotal /\ unavailable \in Nat
      /\ unavailable >= oldTotal => down = oldTotal
      /\ unavailable <= oldTotal => down >= unavailable
  <2> HIDE DEF old, target
  <2> QED
    BY <1>2, <1>7, ScaleDownIsEnough DEF old
<1> HIDE DEF down, unavailable
<1>9. targetOld \in Nat /\ targetOld = oldTotal - down
  BY <1>2, <1>8
<1> HIDE DEF targetOld
<1>10. revision \in Seq(quiet)
  BY RevisionQuiet
<1>11. third \in Seq(quiet)
  <2>1. Again \in quiet
    BY QuietSteps
  <2> HIDE DEF quiet
  <2> QED
    BY <2>1, WhenType
<1>12. targetOld # 0 => third = <<Again>>
  <2>1. targetOld > 0 \/ targetOld = 0
    BY <1>9
  <2> QED
    BY <2>1, Zenon DEF When
<1> HIDE DEF third, revision
<1>13. later \in Seq(quiet) /\ (targetOld # 0 => HasAgain(later))
  <2> HIDE DEF quiet
  <2> QED
    BY <1>10, <1>11, <1>12, AgainFirst, ConcatType
<1>14. mayScaleDown /\ targetOld < oldTotal =>
         \/ second = << >> /\ oldTotal <= targetOld
         \/ \E step : /\ second = <<step>>
                      /\ Scales(step, TRUE, book) /\ Scales(step, FALSE, book)
                      /\ targetOld + v <= book.room => Frees(step, book)
                      /\ targetOld = 0 => \A write \in step.writes : write.rs.spec = 0
  <2> DEFINE list == ScaleDownToTotal(read, old, targetOld)
  <2>1. mayScaleDown /\ targetOld < oldTotal => second = list
    OBVIOUS
  <2>2. \/ list = << >> /\ oldTotal <= targetOld
        \/ \E step : /\ list = <<step>>
                     /\ Scales(step, TRUE, book) /\ Scales(step, FALSE, book)
                     /\ targetOld + v <= book.room => Frees(step, book)
                     /\ targetOld = 0 => \A write \in step.writes : write.rs.spec = 0
    BY <1>9, ScaleDownFits DEF oldTotal
  <2> HIDE DEF second, mayScaleDown, book, list
  <2> QED
    BY <2>1, <2>2
<1>15. ~(mayScaleDown /\ targetOld < oldTotal) => second = << >>
  OBVIOUS
<1>16. \/ second = << >>
       \/ \E step : /\ second = <<step>>
                    /\ Scales(step, TRUE, book) /\ Scales(step, FALSE, book)
                    /\ targetOld = 0 => \A write \in step.writes : write.rs.spec = 0
  BY <1>14, <1>15
<1> HIDE DEF second, mayScaleDown, later, book
<1>17. Settling(second \o later, v, TRUE, book) /\ Settling(second \o later, v, FALSE, book)
  <2>1. CASE second = << >>
    <3>1. second \o later = later
      BY <1>13, <2>1, StepsIn
    <3> QED
      BY <1>13, <3>1 DEF Settling
  <2>2. CASE second # << >>
    <3>1. PICK step : /\ second = <<step>>
                      /\ Scales(step, TRUE, book) /\ Scales(step, FALSE, book)
                      /\ targetOld = 0 => \A write \in step.writes : write.rs.spec = 0
      BY <1>16, <2>2
    <3>2. (\E write \in step.writes : write.rs.spec > 0) => HasAgain(later)
      <4>1. ASSUME NEW write \in step.writes, write.rs.spec > 0 PROVE targetOld # 0
        <5>1. ~(0 > 0)
          OBVIOUS
        <5> QED
          BY <3>1, <4>1, <5>1
      <4> QED
        BY <1>13, <4>1
    <3> QED
      BY <1>13, <3>1, <3>2 DEF Settling
  <2> QED
    BY <2>1, <2>2
<1> DEFINE plan == RollingPlan(d, read) \o RevisionPlan(d, read)
<1>18. plan = first \o (second \o later)
  <2>1. RollingPlan(d, read) = (first \o second) \o third
    BY DEF RollingPlan, down, target, scaleUp, oldTotal, targetOld, second, third,
           mayScaleDown
  <2> DEFINE S == SetsSteps \cup quiet
  <2>2. first \in Seq(S)
    <3>1. new \in ReplicaSets
      <4> HIDE DEF target, current
      <4> QED
        BY <1>1, <1>7 DEF ReplicaSets
    <3> HIDE DEF new
    <3>2. WriteSet(d.template, new) \in SetsSteps
      BY <1>1, <3>1 DEF WriteSet, WriteSets, Write, SetsSteps
    <3>3. WriteSet(d.template, new) \in S
      BY <3>2
    <3> HIDE DEF S
    <3> QED
      BY <3>3, WhenType
  <2>3. second \in Seq(S)
    <3>1. \A step : Scales(step, TRUE, book) => step \in S
      BY DEF Scales
    <3> HIDE DEF S
    <3>2. << >> \in Seq(S) /\ \A step \in S : <<step>> \in Seq(S)
      OBVIOUS
    <3> QED
      BY <1>16, <3>1, <3>2
  <2>4. third \in Seq(S) /\ revision \in Seq(S)
    <3>1. quiet \subseteq S
      OBVIOUS
    <3> HIDE DEF S, quiet
    <3> QED
      BY <1>10, <1>11, <3>1, StepsIn
  <2> HIDE DEF S, first
  <2>5. plan = ((first \o second) \o third) \o revision
    BY <2>1 DEF revision
  <2>6. first \o second \in Seq(S) /\ third \o revision \in Seq(S)
    BY <2>2, <2>3, <2>4, ConcatType
  <2>7. ((first \o second) \o third) \o revision = (first \o second) \o (third \o revision)
    BY <2>4, <2>6, ConcatAssociative
  <2>8. (first \o second) \o (third \o revision) = first \o (second \o (third \o revision))
    BY <2>2, <2>3, <2>6, ConcatAssociative, SMTT(60)
  <2> QED
    BY <2>5, <2>7, <2>8 DEF later
<1> HIDE DEF plan
<1>19. \E T : second \o later \in Seq(T)
  <2>1. later \in Seq(SetsSteps \cup quiet)
    BY <1>13, StepsIn
  <2>2. second \in Seq(SetsSteps \cup quiet)
    <3> DEFINE S == SetsSteps \cup quiet
    <3>1. \A step : Scales(step, TRUE, book) => step \in S
      BY DEF Scales
    <3> HIDE DEF S
    <3>2. << >> \in Seq(S) /\ \A step \in S : <<step>> \in Seq(S)
      OBVIOUS
    <3>3. second \in Seq(S)
      BY <1>16, <3>1, <3>2
    <3> QED
      BY <3>3 DEF S
  <2> QED
    BY <2>1, <2>2, ConcatType
<1>20. scaleUp = 0 => plan = second \o later
  <2>1. ASSUME scaleUp = 0 PROVE first = << >>
    BY <2>1 DEF When
  <2> HIDE DEF first
  <2> QED
    BY <1>18, <1>19, <2>1, StepsIn
<1>21. Fresh(plan, v, TRUE, book) /\ Fresh(plan, v, FALSE, book)
  <2>1. CASE scaleUp = 0
    BY <1>17, <1>20, <2>1 DEF Fresh
  <2>2. CASE scaleUp # 0
    <3> DEFINE step == WriteSet(d.template, new)
               write == Write(d.template, new)
    <3>1. scaleUp > 0
      BY <1>5, <2>2
    <3>2. first = <<step>>
      BY <3>1 DEF When
    <3>3. new \in ReplicaSets /\ new.spec = target
      <4> HIDE DEF target, current
      <4> QED
        BY <1>1, <1>7 DEF ReplicaSets
    <3> HIDE DEF new
    <3>4. /\ write \in [template : Templates, rs : ReplicaSets]
          /\ write.template = d.template /\ write.rs = new
      BY <1>1, <3>3 DEF Write
    <3>5. step \in SetsSteps /\ step.writes = {write}
      <4>1. step = [do |-> "sets", order |-> "stored", writes |-> {write}]
        BY DEF WriteSet, WriteSets
      <4> HIDE DEF write, step
      <4> QED
        BY <3>4, <4>1 DEF SetsSteps
    <3> HIDE DEF write, step
    <3>6. Total([book.specs EXCEPT ![book.template] = write.rs.spec]) <= book.room
      <4> HIDE DEF target, v
      <4> QED
        BY <1>3, <1>4, <1>5, <1>7, <3>1, <3>3, <3>4
    <3>7. Raises(step, v, book)
      <4> HIDE DEF target, v
      <4> QED
        BY <1>4, <1>7, <3>3, <3>4, <3>5, <3>6 DEF Raises
    <3> HIDE DEF first
    <3>8. plan = <<step>> \o (second \o later)
      BY <1>18, <3>2
    <3> QED
      BY <1>17, <3>7, <3>8 DEF Fresh
  <2> QED
    BY <2>1, <2>2
<1>22. ASSUME Total(Specs(read)) > Ceiling(d), v <= Ceiling(d),
              unavailable + Ceiling(d) >= Total(Specs(read))
       PROVE  Heals(plan, v, book)
  <2> HIDE DEF v, first
  <2>1. scaleUp = 0 /\ targetOld + v <= Ceiling(d) /\ targetOld < oldTotal /\ unavailable > 0
    BY <1>1, <1>2, <1>3, <1>5, <1>8, <1>9, <1>22
  <2>2. mayScaleDown
    <3>1. ASSUME \A t \in old : ~(Unavailable(read[t]) > 0) PROVE FALSE
      <4> DEFINE g == [t \in old |-> Unavailable(read[t])]
      <4>1. \A t \in DOMAIN g : g[t] = 0
        <5>1. \A t \in old : Unavailable(read[t]) \in Nat
          BY <1>2, OwnedTypes, LessType DEF Unavailable, ReplicaSets
        <5> QED
          BY <3>1, <5>1
      <4>2. unavailable = Total(g)
        BY DEF unavailable
      <4> HIDE DEF g
      <4>3. Total(g) = 0
        BY <4>1, NothingAdds
      <4> QED
        BY <2>1, <4>2, <4>3
    <3> QED
      BY <3>1 DEF mayScaleDown
  <2>3. PICK step : /\ second = <<step>>
                    /\ Scales(step, TRUE, book)
                    /\ targetOld + v <= book.room => Frees(step, book)
    <3>1. ~(oldTotal <= targetOld)
      BY <1>2, <1>9, <2>1
    <3> HIDE DEF targetOld, oldTotal
    <3> QED
      BY <1>14, <2>1, <2>2, <3>1
  <2>4. Frees(step, book) /\ plan = <<step>> \o later
    BY <1>4, <1>20, <2>1, <2>3
  <2> QED
    BY <1>13, <2>3, <2>4 DEF Heals
<1> QED
  BY <1>21, <1>22 DEF plan, book, unavailable

\* maxSurge is a number of pods.
LEMMA SurgeType ==
  ASSUME NEW d \in Deployments
  PROVE  MaxSurge(d) \in Nat
<1> DEFINE surge == Resolve(d.strategy.surge, d.replicas, TRUE)
<1>1. d.replicas \in Nat /\ d.strategy.surge \in [percent : BOOLEAN, n : Nat]
  BY StrategiesAssumption DEF Deployments
<1>2. surge \in Nat
  BY <1>1, ResolveIs
<1>3. MaxSurge(d) = 1 \/ MaxSurge(d) = surge
  BY Zenon DEF MaxSurge
<1> HIDE DEF surge
<1> QED
  BY <1>2, <1>3

\* Two elements
LEMMA Pair ==
  ASSUME NEW a, NEW b
  PROVE  <<a, b>> = <<a>> \o <<b>>
<1> DEFINE S == {a, b}
           l == <<a, b>>
           r == <<a>> \o <<b>>
<1>1. <<a>> \in Seq(S) /\ <<b>> \in Seq(S) /\ Len(<<a>>) = 1 /\ Len(<<b>>) = 1
      /\ <<a>>[1] = a /\ <<b>>[1] = b
  OBVIOUS
<1>2. r \in Seq(S) /\ Len(r) = 2 /\ r[1] = a /\ r[2] = b
  <2> DEFINE x == <<a>>
             y == <<b>>
  <2> HIDE DEF S, x, y
  <2> QED
    BY <1>1 DEF x, y
<1>3. l \in Seq(S) /\ Len(l) = 2 /\ l[1] = a /\ l[2] = b
  OBVIOUS
<1> HIDE DEF l, r, S
<1>4. DOMAIN l = 1..2 /\ DOMAIN r = 1..2 /\ l = [i \in 1..2 |-> l[i]] /\ r = [i \in 1..2 |-> r[i]]
  BY <1>2, <1>3
<1>5. \A i \in 1..2 : l[i] = r[i]
  BY <1>2, <1>3
<1> QED
  BY <1>4, <1>5 DEF l, r

\* createNewReplicaSet begins with what there is room for.
LEMMA CreationFits ==
  ASSUME NEW d \in Deployments, NEW read \in ReadSets, read[d.template] = None,
         NEW looped
  PROVE  Fresh(CreationPlan(d, read), 0, looped, BookOf(d, read))
<1> DEFINE book == BookOf(d, read)
           quiet == Quiets(0, book)
           old == Owned(read)
           revision == Max({read[t].revision : t \in old} \cup {0}) + 1
           replicas == FirstReplicas(d, read)
           new == NewReplicaSet(read, replicas, revision)
           create == CreateSet(d.template, new)
           write == WriteDeployment([d EXCEPT !.revision = revision])
           again == When(old # {}, Again)
           later == (<<write>> \o again) \o <<WriteStatus(d)>>
<1>1. /\ d.template \in Templates /\ d.replicas \in Nat /\ Ceiling(d) \in Nat
      /\ old \in SUBSET Owned(read)
  BY LimitTypes DEF Deployments
<1>2. revision \in Nat
  <2>1. Max({read[t].revision : t \in old} \cup {0}) \in Nat
    BY HighestRevision
  <2> QED
    BY <2>1
<1> HIDE DEF revision
<1>3. /\ book.specs = Specs(read) /\ book.template = d.template /\ ~book.exists
      /\ book.room = Ceiling(d)
  BY DEF BookOf
<1>4. /\ TotalSpec(read, old) \in Nat
      /\ \A n \in Nat : Total([Specs(read) EXCEPT ![d.template] = n]) = TotalSpec(read, old) + n
  <2>1. old \ {d.template} = old
    BY DEF Owned
  <2>2. \A n \in Nat :
          Total([Specs(read) EXCEPT ![d.template] = n])
            = TotalSpec(read, old \ {d.template}) + n
    BY <1>1, SpecsSplit
  <2> QED
    BY <1>1, <2>1, <2>2, SumTypes
<1>5. /\ replicas \in Nat
      /\ replicas = 0 \/ TotalSpec(read, old) + replicas <= Ceiling(d)
  <2>1. CASE old = {}
    <3>1. replicas = d.replicas
      BY <2>1 DEF FirstReplicas
    <3>2. TotalSpec(read, old) = 0
      <4>1. \A t \in DOMAIN [t \in old |-> read[t].spec] : FALSE
        BY <2>1
      <4> DEFINE f == [t \in old |-> read[t].spec]
      <4>2. \A t \in DOMAIN f : f[t] = 0
        BY <2>1
      <4> HIDE DEF f
      <4>3. Total(f) = 0
        BY <4>2, NothingAdds
      <4> QED
        BY <4>3 DEF TotalSpec, f
    <3>3. d.replicas <= Ceiling(d)
      <4>1. Ceiling(d) = d.replicas + MaxSurge(d) /\ MaxSurge(d) \in Nat
        BY SurgeType DEF Ceiling
      <4> QED
        BY <1>1, <4>1
    <3> QED
      BY <1>1, <3>1, <3>2, <3>3
  <2>2. CASE old # {}
    <3> DEFINE total == TotalSpec(read, old)
               room == Less(Ceiling(d), total)
    <3>1. replicas = AtMost(d.replicas, room)
      BY <2>2 DEF FirstReplicas
    <3> HIDE DEF total
    <3>2. total \in Nat
      BY <1>4 DEF total
    <3>3. room \in Nat /\ (room = 0 \/ room = Ceiling(d) - total)
      BY <1>1, <3>2 DEF Less
    <3> HIDE DEF room, replicas
    <3>4. replicas = IF d.replicas <= room THEN d.replicas ELSE room
      BY <1>1, <3>1, <3>3, AtMostIs
    <3>5. replicas \in Nat /\ (replicas = 0 \/ total + replicas <= Ceiling(d))
      BY <1>1, <3>2, <3>3, <3>4
    <3> QED
      BY <3>5 DEF total
  <2> QED
    BY <2>1, <2>2
<1> HIDE DEF replicas
<1>6. new \in ReplicaSets /\ new.spec = replicas
  BY <1>2, <1>5, OwnedTypes DEF NewReplicaSet, ReplicaSets
<1> HIDE DEF new
<1>7. /\ create \in CreateSteps /\ create.template = d.template /\ create.rs = new
  BY <1>1, <1>6 DEF CreateSet, CreateSteps
<1> HIDE DEF create
<1>8. Begins(create, book)
  <2>1. replicas = 0 \/ Total([Specs(read) EXCEPT ![d.template] = replicas]) <= Ceiling(d)
    BY <1>4, <1>5
  <2> HIDE DEF book
  <2> QED
    BY <1>3, <1>6, <1>7, <2>1 DEF Begins
<1>9. write \in quiet /\ WriteStatus(d) \in quiet /\ Again \in quiet
  BY <1>2, QuietSteps
<1> HIDE DEF quiet, write
<1>10. again \in Seq(quiet)
  BY <1>9, WhenType
<1> HIDE DEF again
<1> DEFINE last == WriteStatus(d)
<1> HIDE DEF last
<1>11. <<write>> \in Seq(quiet) /\ <<last>> \in Seq(quiet)
  BY <1>9 DEF last
<1>12. <<write>> \o again \in Seq(quiet)
  BY <1>10, <1>11, ConcatType
<1>13. (<<write>> \o again) \o <<last>> \in Seq(quiet)
  BY <1>11, <1>12, ConcatType
<1>14. CreationPlan(d, read) = (<<create, write>> \o again) \o <<last>>
  BY DEF CreationPlan, new, replicas, revision, create, write, again, last
<1>15. (<<create, write>> \o again) \o <<last>> = <<create>> \o ((<<write>> \o again) \o <<last>>)
  <2> DEFINE S == quiet \cup {create}
  <2>1. <<create>> \in Seq(S) /\ <<write>> \in Seq(S) /\ again \in Seq(S) /\ <<last>> \in Seq(S)
    <3>1. quiet \subseteq S /\ create \in S
      OBVIOUS
    <3> HIDE DEF S
    <3> QED
      BY <1>10, <1>11, <3>1, StepsIn
  <2>2. <<create, write>> = <<create>> \o <<write>>
    BY Pair
  <2> HIDE DEF S
  <2>3. (<<create>> \o <<write>>) \o again = <<create>> \o (<<write>> \o again)
    BY <2>1, ConcatAssociative
  <2>4. <<write>> \o again \in Seq(S)
    BY <2>1, ConcatType
  <2>5. (<<create>> \o (<<write>> \o again)) \o <<last>>
          = <<create>> \o ((<<write>> \o again) \o <<last>>)
    BY <2>1, <2>4, ConcatAssociative
  <2> QED
    BY <2>2, <2>3, <2>5
<1> HIDE DEF book
<1> QED
  BY <1>8, <1>13, <1>14, <1>15 DEF Fresh, quiet, book

\* What a reconcile of a rolling Deployment goes on to do
LEMMA PlanFits ==
  ASSUME NEW d \in Deployments, NEW read \in ReadSets, Ranked(read, Owned(read)),
         d.strategy.type = "RollingUpdate"
  PROVE  LET book == BookOf(d, read)
             v == Specs(read)[d.template]
             old == Owned(read) \ {d.template}
             unavailable == Total([t \in old |-> Unavailable(read[t])])
         IN  /\ Fresh(Plan(d, read), v, TRUE, book) /\ Fresh(Plan(d, read), v, FALSE, book)
             /\ /\ book.exists /\ Total(Specs(read)) > Ceiling(d) /\ v <= Ceiling(d)
                /\ unavailable + Ceiling(d) >= Total(Specs(read))
                => Heals(Plan(d, read), v, book)
<1>0. d.template \in Templates
  BY DEF Deployments
<1>1. CASE read[d.template] = None
  <2>1. Specs(read)[d.template] = 0 /\ ~BookOf(d, read).exists
    BY <1>0, <1>1, SpecsType DEF BookOf
  <2>2. Plan(d, read) = CreationPlan(d, read)
    BY <1>1 DEF Plan
  <2> QED
    BY <1>1, <2>1, <2>2, CreationFits
<1>2. CASE read[d.template] # None
  <2>1. Specs(read)[d.template] = read[d.template].spec
    BY <1>0, <1>2, SpecsType
  <2>2. Plan(d, read) = RollingPlan(d, read) \o RevisionPlan(d, read)
    BY <1>2 DEF Plan
  <2> QED
    BY <1>2, <2>1, <2>2, RollingFits
<1> QED
  BY <1>1, <1>2

-------------------------------------------------------------------------------
(* The stack as a rolling update sees it *)

\* Frames that deliver, or reconcile ReplicaSets
SideOps == {"deliver", "replicaSets", "scale"}

\* Such frames above base
Over(frames, base) ==
  \E S : \E above \in Seq(S) : \E T :
    /\ base \in Seq(T) /\ frames = above \o base
    /\ \A frame \in S : frame.op \in SideOps

\* What may go on above rest: more such frames, or the Deployment's loop
Beside(rest) ==
  \E frames :
    /\ \A base : Over(rest, base) => Over(frames, base)
    /\ \/ stack' = frames
       \/ /\ stack' = <<DeploymentsLoop(MaxBatch)>> \o frames
          /\ ~Draining("deployments", frames)

\* The store changes only in what does not concern a rolling update: statuses of
\* ReplicaSets, and pods that come unready, or go.
Gentle ==
  /\ deploy' = deploy
  /\ \A t \in Templates :
       /\ replicaSets'[t] = None <=> replicaSets[t] = None
       /\ replicaSets[t] # None => /\ replicaSets'[t].spec = replicaSets[t].spec
                                   /\ replicaSets'[t].at = replicaSets[t].at
       /\ ReadyOf(pods'[t]) <= ReadyOf(pods[t])

\* Nothing is above the stack itself.
LEMMA OverSame ==
  ASSUME NEW S, NEW base \in Seq(S)
  PROVE  Over(base, base)
<1>1. /\ << >> \in Seq({}) /\ base = << >> \o base
      /\ \A frame \in {} : frame.op \in SideOps
  OBVIOUS
<1>2. \E T : /\ base \in Seq(T) /\ base = << >> \o base
             /\ \A frame \in {} : frame.op \in SideOps
  BY <1>1
<1>3. \E above \in Seq({}) : \E T :
        /\ base \in Seq(T) /\ base = above \o base
        /\ \A frame \in {} : frame.op \in SideOps
  BY <1>1, <1>2
<1> QED
  BY <1>3 DEF Over

\* A side frame may go on top of what is above.
LEMMA OverPushed ==
  ASSUME NEW frames, NEW base, Over(frames, base), NEW frame, frame.op \in SideOps
  PROVE  Over(<<frame>> \o frames, base)
<1>1. PICK S : \E above \in Seq(S) : \E T :
                 /\ base \in Seq(T) /\ frames = above \o base
                 /\ \A f \in S : f.op \in SideOps
  BY DEF Over
<1>2. PICK above \in Seq(S) : \E T :
                 /\ base \in Seq(T) /\ frames = above \o base
                 /\ \A f \in S : f.op \in SideOps
  BY <1>1
<1>3. PICK T : /\ base \in Seq(T) /\ frames = above \o base
               /\ \A f \in S : f.op \in SideOps
  BY <1>2
<1> DEFINE U == S \cup {frame}
           V == U \cup T
<1>4. <<frame>> \in Seq(U) /\ above \in Seq(U) /\ \A f \in U : f.op \in SideOps
  BY <1>3
<1>5. <<frame>> \in Seq(V) /\ above \in Seq(V) /\ base \in Seq(V)
  BY <1>3
<1> HIDE DEF U, V
<1>6. <<frame>> \o (above \o base) = (<<frame>> \o above) \o base
  BY <1>5, ConcatAssociative
<1>7. <<frame>> \o above \in Seq(U)
  BY <1>4, ConcatType
<1> QED
  BY <1>3, <1>4, <1>6, <1>7 DEF Over

\* The top of what is above is a side frame.
LEMMA OverPopped ==
  ASSUME NEW frames, NEW base, Over(frames, base)
  PROVE  \/ frames = base
         \/ /\ frames # << >> /\ Head(frames).op \in SideOps
            /\ Over(Tail(frames), base)
<1>1. PICK S : \E above \in Seq(S) : \E T :
                 /\ base \in Seq(T) /\ frames = above \o base
                 /\ \A f \in S : f.op \in SideOps
  BY DEF Over
<1>2. PICK above \in Seq(S) : \E T :
                 /\ base \in Seq(T) /\ frames = above \o base
                 /\ \A f \in S : f.op \in SideOps
  BY <1>1
<1>3. PICK T : /\ base \in Seq(T) /\ frames = above \o base
               /\ \A f \in S : f.op \in SideOps
  BY <1>2
<1>4. CASE above = << >>
  <2>1. frames = base
    BY <1>3, <1>4
  <2> QED
    BY <2>1
<1>5. CASE above # << >>
  <2>1. PICK head \in S, tail \in Seq(S) : above = <<head>> \o tail
    BY <1>5, Unstacked
  <2> DEFINE V == S \cup T
  <2>2. <<head>> \in Seq(V) /\ tail \in Seq(V) /\ base \in Seq(V)
    BY <1>3
  <2> HIDE DEF V
  <2>3. (<<head>> \o tail) \o base = <<head>> \o (tail \o base)
    BY <2>2, ConcatAssociative
  <2>4. tail \o base \in Seq(V)
    BY <2>2, ConcatType
  <2>5. /\ <<head>> \o (tail \o base) # << >>
        /\ Head(<<head>> \o (tail \o base)) = head
        /\ Tail(<<head>> \o (tail \o base)) = tail \o base
    BY <2>4, Stacked
  <2>6. Over(tail \o base, base)
    BY <1>3, <2>1 DEF Over
  <2> QED
    BY <1>3, <2>1, <2>3, <2>5, <2>6
<1> QED
  BY <1>4, <1>5

\* Both are stacks, and base is part of frames.
LEMMA OverKeeps ==
  ASSUME NEW frames, NEW base, Over(frames, base)
  PROVE  /\ \E S : frames \in Seq(S) /\ base \in Seq(S)
         /\ \A op : Draining(op, base) => Draining(op, frames)
<1>1. PICK S : \E above \in Seq(S) : \E T :
                 /\ base \in Seq(T) /\ frames = above \o base
                 /\ \A f \in S : f.op \in SideOps
  BY DEF Over
<1>2. PICK above \in Seq(S) : \E T :
                 /\ base \in Seq(T) /\ frames = above \o base
                 /\ \A f \in S : f.op \in SideOps
  BY <1>1
<1>3. PICK T : /\ base \in Seq(T) /\ frames = above \o base
               /\ \A f \in S : f.op \in SideOps
  BY <1>2
<1> DEFINE V == S \cup T
<1>4. above \in Seq(V) /\ base \in Seq(V)
  BY <1>3
<1> HIDE DEF V
<1>5. /\ frames \in Seq(V) /\ Len(frames) = Len(above) + Len(base) /\ Len(base) \in Nat
      /\ \A k \in 1..Len(base) : frames[Len(above) + k] = base[k]
  BY <1>3, <1>4, ConcatType
<1>6. ASSUME NEW op, Draining(op, base) PROVE Draining(op, frames)
  <2>1. PICK k \in DOMAIN base : base[k].op = op
    BY <1>6 DEF Draining
  <2>2. k \in 1..Len(base) /\ Len(above) \in Nat
    BY <1>4, <2>1
  <2>3. Len(above) + k \in DOMAIN frames /\ frames[Len(above) + k] = base[k]
    BY <1>5, <2>2
  <2> QED
    BY <2>1, <2>3 DEF Draining
<1> QED
  BY <1>4, <1>5, <1>6

\* The innermost frame, by its operation
LEMMA LivingTop ==
  ASSUME Living, stack # << >>
  PROVE  \E S, frame : \E rest \in Seq(S) :
           /\ stack = <<frame>> \o rest
           /\ frame.op = "deliver" => frame \in DeliverFrames
           /\ frame.op = "scale" => frame \in ScaleFrames /\ Scaling(frame)
<1> DEFINE C == CalmFrames(KindOf(deploy))
<1>1. CASE stack \in Seq(C)
  <2>1. PICK frame \in C, rest \in Seq(C) : stack = <<frame>> \o rest
    BY <1>1, Unstacked
  <2>2. /\ frame.op = "deliver" => frame \in DeliverFrames
        /\ frame.op # "scale"
    BY CalmKinds
  <2> HIDE DEF C
  <2> QED
    BY <2>1, <2>2
<1>2. ASSUME NEW rest \in Seq(C), NEW frame \in CreatingFrames(deploy), stack = <<frame>> \o rest
      PROVE  frame.op = "plan"
  BY DEF CreatingFrames
<1>3. ASSUME NEW frame \in ScaleFrames
      PROVE  frame.op = "scale"
  BY DEF ScaleFrames
<1>4. ASSUME NEW rest \in Seq(C), NEW frame \in ScaleFrames,
             stack = <<Delivery(Event("Pod", frame.template), 1)>> \o (<<frame>> \o rest)
      PROVE  \E S, f : \E r \in Seq(S) :
               /\ stack = <<f>> \o r /\ f.op = "deliver" /\ f \in DeliverFrames
  <2> DEFINE S == C \cup {frame}
             top == Delivery(Event("Pod", frame.template), 1)
  <2>1. <<frame>> \o rest \in Seq(S)
    <3>1. rest \in Seq(S)
      OBVIOUS
    <3> QED
      BY <3>1, Stacked
  <2>2. top \in DeliverFrames /\ top.op = "deliver"
    <3>1. Event("Pod", frame.template) \in SetEvents
      BY DEF Event, SetEvents, ScaleFrames
    <3> QED
      BY <3>1, CalmMembers DEF Delivery
  <2> HIDE DEF S, top
  <2> QED
    BY <1>4, <2>1, <2>2 DEF top
<1> HIDE DEF C
<1> QED
  BY <1>1, <1>2, <1>3, <1>4 DEF Living, LivingStack, C

\* What may go on above rest: itself, an enqueued Deployment, more side frames
LEMMA BesideIs ==
  ASSUME NEW rest
  PROVE  /\ stack' = rest => Beside(rest)
         /\ EnqueueDeployment(rest) => Beside(rest)
         /\ \A frame : frame.op \in SideOps /\ Beside(<<frame>> \o rest) => Beside(rest)
<1>1. stack' = rest => Beside(rest)
  BY DEF Beside
<1>2. ASSUME EnqueueDeployment(rest) PROVE Beside(rest)
  <2>1. stack' = IF Draining("deployments", rest) THEN rest
                 ELSE <<DeploymentsLoop(MaxBatch)>> \o rest
    BY <1>2 DEF EnqueueDeployment, Return
  <2>2. \A base : Over(rest, base) => Over(rest, base)
    OBVIOUS
  <2> QED
    BY <2>1, <2>2 DEF Beside
<1>3. ASSUME NEW frame, frame.op \in SideOps, Beside(<<frame>> \o rest)
      PROVE  Beside(rest)
  <2>1. PICK frames :
          /\ \A base : Over(<<frame>> \o rest, base) => Over(frames, base)
          /\ \/ stack' = frames
             \/ /\ stack' = <<DeploymentsLoop(MaxBatch)>> \o frames
                /\ ~Draining("deployments", frames)
    BY <1>3 DEF Beside
  <2>2. \A base : Over(rest, base) => Over(frames, base)
    BY <1>3, <2>1, OverPushed
  <2> QED
    BY <2>1, <2>2 DEF Beside
<1> QED
  BY <1>1, <1>2, <1>3

\* A step that leaves the objects alone is gentle.
LEMMA SameIsGentle ==
  ASSUME StoreType, UNCHANGED store
  PROVE  Gentle
<1>1. deploy' = deploy /\ replicaSets' = replicaSets /\ pods' = pods
  BY DEF store
<1>2. \A t \in Templates : ReadyOf(pods[t]) \in Nat
  BY ReadyCounts DEF StoreType
<1> QED
  BY <1>1, <1>2 DEF Gentle

\* Frames that deliver, or reconcile ReplicaSets, ask for nothing.
LEMMA SideRuns ==
  ASSUME StoreType, KeysType, Living, Run, stack # << >>, Head(stack).op \in SideOps
  PROVE  Gentle /\ Beside(Tail(stack))
<1>1. PICK S, frame : \E r \in Seq(S) :
        /\ stack = <<frame>> \o r
        /\ frame.op = "deliver" => frame \in DeliverFrames
        /\ frame.op = "scale" => frame \in ScaleFrames /\ Scaling(frame)
  BY LivingTop
<1>2. PICK rest \in Seq(S) :
        /\ stack = <<frame>> \o rest
        /\ frame.op = "deliver" => frame \in DeliverFrames
        /\ frame.op = "scale" => frame \in ScaleFrames /\ Scaling(frame)
  BY <1>1
<1>3. Head(stack) = frame /\ Tail(stack) = rest
  BY <1>2, Stacked
<1>4. deploy # None
  BY DEF Living
<1>5. ASSUME NEW t \in Templates, NEW after, EnqueueReplicaSet(t, after)
      PROVE  Gentle /\ Beside(after)
  <2> DEFINE loop == [op |-> "replicaSets"]
  <2>1. UNCHANGED store /\ (stack' = <<loop>> \o after \/ stack' = after)
    BY <1>5 DEF EnqueueReplicaSet, Return
  <2>2. loop.op \in SideOps
    BY DEF SideOps
  <2> HIDE DEF loop
  <2> QED
    BY <2>1, <2>2, SameIsGentle, BesideIs
<1>6. CASE frame.op = "deliver"
  <2>1. DeliverStep(frame, rest) /\ frame \in DeliverFrames
    BY <1>2, <1>6, RunIs
  <2>2. ASSUME NEW after, EnqueueDeployment(after) PROVE Gentle /\ Beside(after)
    <3>1. UNCHANGED store
      BY <2>2 DEF EnqueueDeployment, Return
    <3> QED
      BY <2>2, <3>1, SameIsGentle, BesideIs
  <2>3. CASE EnqueueDeployment(rest)
    BY <1>3, <2>2, <2>3
  <2>4. CASE EnqueueDeployment(<<[frame EXCEPT !.to = 2]>> \o rest)
    <3> DEFINE next == [frame EXCEPT !.to = 2]
    <3>1. next.op \in SideOps
      BY <1>6, <2>1 DEF SideOps, DeliverFrames
    <3> HIDE DEF next
    <3>2. Gentle /\ Beside(<<next>> \o rest)
      BY <2>2, <2>4 DEF next
    <3> QED
      BY <1>3, <3>1, <3>2, BesideIs
  <2>5. CASE /\ frame.event \in SetEvents
             /\ \/ EnqueueReplicaSet(frame.event.template, rest)
                \/ Return(rest)
    <3>1. frame.event.template \in Templates
      BY <2>5 DEF SetEvents
    <3>2. Return(rest) => Gentle /\ Beside(rest)
      BY SameIsGentle, BesideIs DEF Return
    <3> QED
      BY <1>3, <1>5, <2>5, <3>1, <3>2
  <2> QED
    BY <1>4, <2>1, <2>3, <2>4, <2>5, DeliverKinds
<1>7. CASE frame.op = "replicaSets"
  <2> DEFINE loop == [op |-> "replicaSets"]
  <2>1. DrainReplicaSets(rest)
    BY <1>2, <1>7, RunIs
  <2>2. loop.op \in SideOps
    BY DEF SideOps
  <2>3. CASE Return(rest)
    BY <1>3, <2>3, SameIsGentle, BesideIs DEF Return
  <2>4. CASE rsQueue # << >> /\ ReconcileSet(Head(rsQueue), <<loop>> \o rest)
    <3>1. Head(rsQueue) \in Templates
      BY <2>4, KeyTaken DEF KeysType
    <3> HIDE DEF loop
    <3>2. CASE replicaSets[Head(rsQueue)] = None
      <4>1. Return(<<loop>> \o rest)
        BY <2>4, <3>2 DEF ReconcileSet
      <4>2. Gentle /\ Beside(<<loop>> \o rest)
        BY <4>1, SameIsGentle, BesideIs DEF Return
      <4> QED
        BY <1>3, <2>2, <4>2, BesideIs
    <3>3. CASE replicaSets[Head(rsQueue)] # None
      <4>1. PICK next \in ScaleFrames :
              /\ UNCHANGED store /\ stack' = <<next>> \o (<<loop>> \o rest)
              /\ next.op = "scale"
        BY <2>4, <3>1, <3>3, ReadsSet
      <4>2. Beside(<<next>> \o (<<loop>> \o rest)) /\ next.op \in SideOps
        BY <4>1, BesideIs DEF SideOps
      <4>3. Beside(<<loop>> \o rest)
        BY <4>2, BesideIs
      <4> QED
        BY <1>3, <2>2, <4>1, <4>3, SameIsGentle, BesideIs
    <3> QED
      BY <3>2, <3>3
  <2> QED
    BY <2>1, <2>3, <2>4 DEF DrainReplicaSets
<1>8. CASE frame.op = "scale"
  <2> DEFINE t == frame.template
  <2>1. ScaleStep(frame, rest) /\ frame \in ScaleFrames /\ Scaling(frame)
    BY <1>2, <1>8, RunIs
  <2>2. t \in Templates
    BY <2>1 DEF ScaleFrames
  <2>3. /\ \A u \in Templates : ReadyOf(pods[u]) \in Nat
        /\ replicaSets \in ReadSets /\ pods \in [Templates -> Seq(BOOLEAN)]
    BY ReadyCounts DEF StoreType
  <2>4. \A event : Delivery(event, 1).op \in SideOps
    BY DEF Delivery, SideOps
  <2>5. CASE \E next \in ScaleFrames, list \in Seq(BOOLEAN) :
                  /\ pods' = [pods EXCEPT ![t] = list] /\ UNCHANGED <<deploy, replicaSets>>
                  /\ stack' = <<Delivery(Event("Pod", t), 1)>> \o (<<next>> \o rest)
                  /\ ReadyOf(list) <= ReadyOf(pods[t])
    <3>1. PICK next \in ScaleFrames, list \in Seq(BOOLEAN) :
                  /\ pods' = [pods EXCEPT ![t] = list] /\ UNCHANGED <<deploy, replicaSets>>
                  /\ stack' = <<Delivery(Event("Pod", t), 1)>> \o (<<next>> \o rest)
                  /\ ReadyOf(list) <= ReadyOf(pods[t])
      BY <2>5
    <3>2. Gentle
      BY <2>2, <2>3, <3>1 DEF Gentle
    <3>3. next.op \in SideOps
      BY DEF ScaleFrames, SideOps
    <3>4. Beside(<<next>> \o rest)
      BY <2>4, <3>1, BesideIs
    <3> QED
      BY <1>3, <3>2, <3>3, <3>4, BesideIs
  <2>6. CASE UNCHANGED store /\ stack' = rest
    BY <1>3, <2>6, SameIsGentle, BesideIs
  <2>7. CASE \E new \in ReplicaSets :
                  /\ UpdateReplicaSet(t, new, rest)
                  /\ new.spec = replicaSets[t].spec
                  /\ new.at = replicaSets[t].at
    <3>1. PICK new \in ReplicaSets :
                  /\ UpdateReplicaSet(t, new, rest)
                  /\ new.spec = replicaSets[t].spec
                  /\ new.at = replicaSets[t].at
      BY <2>7
    <3>2. replicaSets[t] # None /\ new # None
      BY <2>1, NoneAssumption DEF Scaling
    <3>3. /\ replicaSets' = [replicaSets EXCEPT ![t] = new] /\ UNCHANGED <<deploy, pods>>
          /\ stack' = <<Delivery(Event("ReplicaSetUpdated", t), 1)>> \o rest
      BY <3>1, <3>2 DEF UpdateReplicaSet, Deliver
    <3>4. Gentle
      BY <2>2, <2>3, <3>1, <3>2, <3>3 DEF Gentle, ReadSets
    <3> QED
      BY <1>3, <2>4, <3>3, <3>4, BesideIs
  <2> QED
    BY <2>1, <2>5, <2>6, <2>7, ScaleStepIs
<1> QED
  BY <1>3, <1>6, <1>7, <1>8 DEF SideOps

-------------------------------------------------------------------------------
(* The invariant of a rolling update *)

Rolling == deploy # None /\ deploy.strategy.type = "RollingUpdate"

Book == BookOf(deploy, replicaSets)
Asked == Total(Specs(replicaSets))

\* What is certain to be there: what the current ReplicaSet asks for, and of the
\* old ones the pods that are ready, as far as they are asked for
KeptOf(d, read, lists) ==
  [t \in Templates |->
     IF t = d.template THEN Specs(read)[t] ELSE AtMost(Specs(read)[t], ReadyOf(lists[t]))]
KeptTotal == Total(KeptOf(deploy, replicaSets, pods))

\* The ReplicaSets were created one after the other.
Placed(read) ==
  /\ Ranked(read, Owned(read))
  /\ \A t \in Owned(read) : read[t].at <= Cardinality(Owned(read))

Same(d, e) ==
  d.template = e.template /\ d.replicas = e.replicas /\ d.strategy = e.strategy

\* A step writes what there is, and leaves alone what no plan changes.
LoyalStep(step, d, read) ==
  /\ step.do \in {"deployment", "status"} => Same(step.deploy, d)
  /\ step.do = "sets" =>
       \A write \in step.writes : /\ write.template \in Owned(read)
                                  /\ write.rs.at = read[write.template].at
  /\ step.do = "create" => step.rs.at = Cardinality(Owned(read)) + 1
Loyal(steps, d, read) == \A k \in DOMAIN steps : LoyalStep(steps[k], d, read)

Planned(steps, rest) ==
  IF steps = << >> THEN rest ELSE <<[op |-> "plan", steps |-> steps]>> \o rest
NextFrame == [op |-> "next"]

\* The frames of processNext, and of the plan p that it runs
Outer(base, p) ==
  \/ base = << >> /\ p = << >>
  \/ base = Planned(p, <<NextFrame>>)

\* Those of the immediate loop, which runs the plan q
Inner(n, q, rest) == Planned(q, <<DeploymentsLoop(n)>> \o rest)

\* Either only processNext runs, or the immediate loop does too.  A plan asks
\* for no more of the current ReplicaSet, except with its first step.  When more
\* is asked for than there is room for, a reconcile will see to that: one whose
\* key processNext's plan adds, or the next turn of the loop, or the one under
\* way.
Flat(p, base, u) ==
  /\ u \in Nat /\ Outer(base, p) /\ Over(stack, base)
  /\ Settling(p, u, FALSE, Book) \/ (stack = base /\ Fresh(p, u, FALSE, Book))
  /\ Loyal(p, deploy, replicaSets)
  /\ u <= Book.specs[Book.template]
  /\ Asked > Book.room => Book.exists /\ HasAgain(p)

Deep(p, base, q, rest, u, v, n) ==
  /\ u \in Nat /\ v \in Nat /\ n \in Nat
  /\ Outer(base, p) /\ Over(rest, base) /\ Over(stack, Inner(n, q, rest))
  /\ Settling(p, u, FALSE, Book)
  /\ \/ Settling(q, v, TRUE, Book)
     \/ stack = Inner(n, q, rest) /\ Fresh(q, v, TRUE, Book)
  /\ Loyal(p, deploy, replicaSets) /\ Loyal(q, deploy, replicaSets)
  /\ u <= v /\ v <= Book.specs[Book.template]
  /\ Asked > Book.room =>
       /\ Book.exists
       /\ \/ HasAgain(p)
          \/ q = << >> /\ rest = base /\ stack = Inner(n, q, rest) /\ n > 0 /\ queued
          \/ Heals(q, v, Book)

FlatRoom == \E p, base, u : Flat(p, base, u)
DeepRoom == \E p, base, q, rest, u, v, n : Deep(p, base, q, rest, u, v, n)

RoomInv ==
  Rolling => /\ Placed(replicaSets)
             /\ KeptTotal <= Book.room
             /\ FlatRoom \/ DeepRoom

\* What every step of the code keeps
Keeps ==
  /\ deploy' # None /\ Same(deploy', deploy)
  /\ Placed(replicaSets')
  /\ \A t \in Templates : replicaSets[t] # None =>
       replicaSets'[t] # None /\ replicaSets'[t].at = replicaSets[t].at
  /\ KeptTotal' <= Ceiling(deploy')

\* What is certain to be there is no more than what is asked for.
LEMMA KeptType ==
  ASSUME NEW d \in Deployments, NEW read \in ReadSets,
         NEW lists \in [Templates -> Seq(BOOLEAN)]
  PROVE  LET kept == KeptOf(d, read, lists)
         IN  /\ kept \in [Templates -> Nat] /\ DOMAIN kept = Templates
             /\ IsFiniteSet(DOMAIN kept) /\ Total(kept) \in Nat
             /\ kept[d.template] = Specs(read)[d.template]
             /\ \A t \in Templates : /\ kept[t] <= Specs(read)[t]
                                     /\ t # d.template => kept[t] <= ReadyOf(lists[t])
                                     /\ \/ kept[t] = Specs(read)[t]
                                        \/ kept[t] = ReadyOf(lists[t])
             /\ Total(kept) <= Total(Specs(read))
             /\ Specs(read)[d.template] <= Total(kept)
<1> DEFINE kept == KeptOf(d, read, lists)
           specs == Specs(read)
<1>1. /\ specs \in [Templates -> Nat] /\ DOMAIN specs = Templates
      /\ IsFiniteSet(Templates) /\ d.template \in Templates
  BY SpecsType, TemplatesAssumption DEF Deployments
<1>2. \A t \in Templates : ReadyOf(lists[t]) \in Nat
  BY ReadyCounts
<1> HIDE DEF specs
<1>3. ASSUME NEW t \in Templates
      PROVE  /\ kept[t] \in Nat /\ kept[t] <= specs[t]
             /\ t # d.template => kept[t] <= ReadyOf(lists[t])
             /\ kept[t] = specs[t] \/ kept[t] = ReadyOf(lists[t])
             /\ t = d.template => kept[t] = specs[t]
  <2>1. kept[t] = IF t = d.template THEN specs[t] ELSE AtMost(specs[t], ReadyOf(lists[t]))
    BY DEF KeptOf, specs
  <2>2. specs[t] \in Nat /\ ReadyOf(lists[t]) \in Nat
    BY <1>1, <1>2
  <2>3. AtMost(specs[t], ReadyOf(lists[t]))
          = IF specs[t] <= ReadyOf(lists[t]) THEN specs[t] ELSE ReadyOf(lists[t])
    BY <2>2, AtMostIs
  <2> HIDE DEF kept
  <2> QED
    BY <2>1, <2>2, <2>3
<1>4. DOMAIN kept = Templates /\ kept \in [Templates -> Nat]
  BY <1>3 DEF KeptOf
<1> HIDE DEF kept
<1>5. Total(kept) \in Nat
  BY <1>1, <1>4, TotalType
<1>6. Total(kept) <= Total(specs)
  BY <1>1, <1>3, <1>4, TotalGrows
<1>7. specs[d.template] <= Total(kept)
  <2> DEFINE others == [t \in DOMAIN kept \ {d.template} |-> kept[t]]
  <2>1. Total(kept) = Total(others) + kept[d.template]
    BY <1>1, <1>4, TotalSplits
  <2>2. IsFiniteSet(DOMAIN others) /\ \A t \in DOMAIN others : others[t] \in Nat
    BY <1>1, <1>4, FS_Subset
  <2> HIDE DEF others
  <2>3. Total(others) \in Nat
    BY <2>2, TotalType
  <2> QED
    BY <1>1, <1>3, <2>1, <2>3
<1> QED
  BY <1>1, <1>3, <1>4, <1>5, <1>6, <1>7 DEF kept, specs

\* The same Deployment has the same limits.
LEMMA SameLimits ==
  ASSUME NEW d, NEW e, Same(d, e)
  PROVE  Ceiling(d) = Ceiling(e)
BY DEF Same, Ceiling, MaxSurge

\* Plans that ask for no more create nothing.
LEMMA SettlingSteps ==
  ASSUME NEW steps, NEW v, NEW looped, NEW book, Settling(steps, v, looped, book)
  PROVE  /\ steps \in Seq(SetsSteps \cup AgainSteps \cup DeploymentSteps)
         /\ \A k \in DOMAIN steps : steps[k].do # "create"
<1> DEFINE S == SetsSteps \cup AgainSteps \cup DeploymentSteps
<1>1. Quiets(v, book) \subseteq S /\ \A step : Scales(step, looped, book) => step \in S
  BY DEF Quiets, Scales
<1>2. \A step \in S : step.do # "create"
  BY DEF SetsSteps, AgainSteps, DeploymentSteps
<1> HIDE DEF S
<1>3. PICK later \in Seq(Quiets(v, book)) :
        steps = later \/ \E step : steps = <<step>> \o later /\ Scales(step, looped, book)
  BY DEF Settling
<1>4. later \in Seq(S)
  BY <1>1, StepsIn
<1>5. steps \in Seq(S)
  BY <1>1, <1>3, <1>4, Stacked
<1>6. \A k \in DOMAIN steps : steps[k] \in S
  BY <1>5
<1> QED
  BY <1>2, <1>5, <1>6 DEF S

\* Plans below are as good as before.
LEMMA KeepsPlans ==
  ASSUME Keeps, deploy \in Deployments
  PROVE  /\ Book'.template = Book.template /\ Book'.room = Book.room
         /\ Book.exists => Book'.exists
         /\ \A step : step.do # "create" /\ LoyalStep(step, deploy, replicaSets)
              => LoyalStep(step, deploy', replicaSets')
         /\ \A p, u : Settling(p, u, FALSE, Book) => Settling(p, u, FALSE, Book')
         /\ \A p, u, looped, book :
              Settling(p, u, looped, book) /\ Loyal(p, deploy, replicaSets)
                => Loyal(p, deploy', replicaSets')
<1>1. /\ Book'.template = Book.template /\ Book'.room = Book.room
      /\ Book.exists => Book'.exists
  <2>1. deploy.template \in Templates /\ deploy'.template = deploy.template
    BY DEF Keeps, Same, Deployments
  <2>2. Ceiling(deploy') = Ceiling(deploy)
    BY SameLimits DEF Keeps
  <2> QED
    BY <2>1, <2>2 DEF Keeps, Book, BookOf
<1>2. ASSUME NEW step, step.do # "create", LoyalStep(step, deploy, replicaSets)
      PROVE  LoyalStep(step, deploy', replicaSets')
  BY <1>2 DEF Keeps, LoyalStep, Same, Owned
<1>3. ASSUME NEW p, NEW u, Settling(p, u, FALSE, Book)
      PROVE  Settling(p, u, FALSE, Book')
  <2>1. Quiets(u, Book') = Quiets(u, Book)
    BY <1>1 DEF Quiets
  <2>2. \A step : Scales(step, FALSE, Book) => Scales(step, FALSE, Book')
    BY <1>1 DEF Scales
  <2> QED
    BY <1>3, <2>1, <2>2 DEF Settling
<1>4. ASSUME NEW p, NEW u, NEW looped, NEW book, Settling(p, u, looped, book),
             Loyal(p, deploy, replicaSets)
      PROVE  Loyal(p, deploy', replicaSets')
  <2>1. ASSUME NEW k \in DOMAIN p PROVE LoyalStep(p[k], deploy', replicaSets')
    <3>1. /\ p[k] \in SetsSteps \cup AgainSteps \cup DeploymentSteps
          /\ p[k].do # "create"
      BY <1>4, SettlingSteps
    <3> QED
      BY <1>2, <1>4, <3>1 DEF Loyal
  <2> QED
    BY <2>1 DEF Loyal
<1> QED
  BY <1>1, <1>2, <1>3, <1>4

-------------------------------------------------------------------------------
(* Plans are loyal to what they were made from *)

\* A step that is made under a condition
LEMMA LoyalWhen ==
  ASSUME NEW d, NEW read, NEW condition, NEW step, condition => LoyalStep(step, d, read)
  PROVE  \E S : When(condition, step) \in Seq(S) /\ Loyal(When(condition, step), d, read)
<1>1. CASE condition
  <2>1. When(condition, step) = <<step>> /\ <<step>> \in Seq({step})
    BY <1>1 DEF When
  <2>2. \A k \in DOMAIN <<step>> : <<step>>[k] = step
    OBVIOUS
  <2> QED
    BY <1>1, <2>1, <2>2 DEF Loyal
<1>2. CASE ~condition
  <2>1. When(condition, step) = << >> /\ << >> \in Seq({}) /\ DOMAIN << >> = {}
    BY <1>2 DEF When
  <2> QED
    BY <2>1 DEF Loyal
<1> QED
  BY <1>1, <1>2

\* Plans one after the other
LEMMA LoyalConcat ==
  ASSUME NEW d, NEW read, NEW A, NEW B, NEW a \in Seq(A), NEW b \in Seq(B),
         Loyal(a, d, read), Loyal(b, d, read)
  PROVE  (\E S : a \o b \in Seq(S)) /\ Loyal(a \o b, d, read)
<1> DEFINE S == A \cup B
           all == a \o b
<1>1. a \in Seq(S) /\ b \in Seq(S)
  OBVIOUS
<1>2. /\ all \in Seq(S) /\ Len(all) = Len(a) + Len(b) /\ Len(a) \in Nat /\ Len(b) \in Nat
      /\ \A k \in 1..Len(a) : all[k] = a[k]
      /\ \A k \in 1..Len(b) : all[Len(a) + k] = b[k]
      /\ DOMAIN a = 1..Len(a) /\ DOMAIN b = 1..Len(b)
  <2> HIDE DEF S
  <2> QED
    BY <1>1
<1> HIDE DEF all
<1>3. ASSUME NEW k \in DOMAIN all PROVE LoyalStep(all[k], d, read)
  <2>1. k \in 1..(Len(a) + Len(b))
    BY <1>2
  <2>2. CASE k \in 1..Len(a)
    BY <1>2, <2>2 DEF Loyal
  <2>3. CASE k \notin 1..Len(a)
    <3>1. k - Len(a) \in 1..Len(b) /\ Len(a) + (k - Len(a)) = k
      BY <1>2, <2>1, <2>3
    <3>2. all[k] = b[k - Len(a)]
      BY <1>2, <3>1
    <3> QED
      BY <1>2, <3>1, <3>2 DEF Loyal
  <2> QED
    BY <2>2, <2>3
<1> QED
  BY <1>2, <1>3 DEF Loyal, all

\* What the steps of a plan keep of what was read
LEMMA LoyalSteps ==
  ASSUME NEW d, NEW read
  PROVE  /\ LoyalStep(Again, d, read)
         /\ \A order, writes :
              (\A write \in writes : /\ write.template \in Owned(read)
                                     /\ write.rs.at = read[write.template].at)
              => LoyalStep(WriteSets(order, writes), d, read)
         /\ \A rs : d.template \in Owned(read) /\ rs.at = read[d.template].at
                      => LoyalStep(WriteSet(d.template, rs), d, read)
         /\ \A rs : rs.at = Cardinality(Owned(read)) + 1
                      => LoyalStep(CreateSet(d.template, rs), d, read)
         /\ \A e : Same(e, d) => /\ LoyalStep(WriteDeployment(e), d, read)
                                 /\ LoyalStep(WriteStatus(e), d, read)
BY DEF LoyalStep, Again, WriteSets, WriteSet, Write, CreateSet, WriteDeployment, WriteStatus

\* A revision changes nothing that plans depend on.
LEMMA SameRevised ==
  ASSUME NEW d \in Deployments, NEW n
  PROVE  Same(d, d) /\ Same([d EXCEPT !.revision = n], d)
BY DEF Same, Deployments

\* A plan is loyal to what it was made from.
LEMMA PlanLoyal ==
  ASSUME NEW d \in Deployments, NEW read \in ReadSets, d.strategy.type = "RollingUpdate"
  PROVE  Loyal(Plan(d, read), d, read)
<1> DEFINE L(steps) == (\E S : steps \in Seq(S)) /\ Loyal(steps, d, read)
<1>1. ASSUME NEW condition, NEW step, condition => LoyalStep(step, d, read)
      PROVE  L(When(condition, step))
  BY <1>1, LoyalWhen
<1>2. ASSUME NEW a, NEW b, L(a), L(b) PROVE L(a \o b)
  <2>1. PICK A : a \in Seq(A)
    BY <1>2
  <2>2. PICK B : b \in Seq(B)
    BY <1>2
  <2> QED
    BY <1>2, <2>1, <2>2, LoyalConcat
<1>3. ASSUME NEW step, LoyalStep(step, d, read) PROVE L(<<step>>)
  <2>1. When(TRUE, step) = <<step>>
    BY DEF When
  <2> QED
    BY <1>1, <1>3, <2>1
<1> HIDE DEF L
<1>4. \A x \in ReplicaSets : \A n : /\ [x EXCEPT !.spec = n].at = x.at
                                    /\ [x EXCEPT !.revision = n].at = x.at
  BY DEF ReplicaSets
<1>5. CASE read[d.template] = None
  <2> DEFINE old == Owned(read)
             revision == Max({read[t].revision : t \in old} \cup {0}) + 1
             new == NewReplicaSet(read, FirstReplicas(d, read), revision)
             first == CreateSet(d.template, new)
             second == WriteDeployment([d EXCEPT !.revision = revision])
  <2>1. new.at = Cardinality(Owned(read)) + 1
    BY DEF NewReplicaSet
  <2>2. Plan(d, read) = (<<first, second>> \o When(old # {}, Again)) \o <<WriteStatus(d)>>
    BY <1>5 DEF Plan, CreationPlan
  <2> HIDE DEF new, revision
  <2>3. /\ LoyalStep(first, d, read) /\ LoyalStep(second, d, read)
        /\ LoyalStep(Again, d, read) /\ LoyalStep(WriteStatus(d), d, read)
    BY <2>1, LoyalSteps, SameRevised
  <2> HIDE DEF first, second
  <2>4. L(<<first, second>>)
    <3>1. <<first, second>> = <<first>> \o <<second>>
      BY Pair
    <3> QED
      BY <1>2, <1>3, <2>3, <3>1
  <2>5. L(When(old # {}, Again)) /\ L(<<WriteStatus(d)>>)
    BY <1>1, <1>3, <2>3
  <2> QED
    BY <1>2, <2>2, <2>4, <2>5 DEF L
<1>6. CASE read[d.template] # None
  <2> DEFINE current == read[d.template]
             highest == Max({read[t].revision : t \in Owned(read)} \cup {d.revision})
             revision == IF current.revision < highest THEN highest + 1
                         ELSE current.revision
             synced == [d EXCEPT !.revision = revision]
             one == WriteSet(d.template, [current EXCEPT !.revision = revision])
  <2>1. current \in ReplicaSets /\ d.template \in Owned(read)
    BY <1>6 DEF ReadSets, Deployments, Owned
  <2>2. L(RevisionPlan(d, read))
    <3>1. RevisionPlan(d, read) =
            (When(current.revision # revision, one)
               \o When(d.revision # revision, WriteDeployment(synced)))
               \o <<WriteStatus(synced)>>
      BY DEF RevisionPlan
    <3> HIDE DEF revision
    <3>2. [current EXCEPT !.revision = revision].at = read[d.template].at
      BY <1>4, <2>1
    <3>3. /\ LoyalStep(one, d, read) /\ LoyalStep(WriteDeployment(synced), d, read)
          /\ LoyalStep(WriteStatus(synced), d, read)
      BY <2>1, <3>2, LoyalSteps, SameRevised
    <3> HIDE DEF one, synced, current
    <3>4. /\ L(When(current.revision # revision, one))
          /\ L(When(d.revision # revision, WriteDeployment(synced)))
          /\ L(<<WriteStatus(synced)>>)
      BY <1>1, <1>3, <3>3
    <3> QED
      BY <1>2, <3>1, <3>4
  <2>3. ASSUME NEW old \in SUBSET Owned(read), NEW target
        PROVE  L(ScaleDownToTotal(read, old, target))
    <3> DEFINE total == TotalSpec(read, old)
               before(t) == TotalSpec(read, {u \in old : Precedes("newest", read[u], read[t])})
               removable(t) == AtMost(read[t].spec, Less(Less(total, target), before(t)))
               scaled == {t \in old : removable(t) > 0}
               writes == {Write(t, [read[t] EXCEPT !.spec = @ - removable(t)]) : t \in scaled}
    <3>1. ScaleDownToTotal(read, old, target) = When(scaled # {}, WriteSets("newest", writes))
      BY DEF ScaleDownToTotal
    <3> HIDE DEF removable
    <3>2. ASSUME NEW t \in scaled, NEW write,
                 write = Write(t, [read[t] EXCEPT !.spec = @ - removable(t)])
          PROVE  write.template \in Owned(read) /\ write.rs.at = read[write.template].at
      <4>1. t \in Owned(read) /\ read[t] \in ReplicaSets /\ write.template = t
        BY <3>2, OwnedTypes DEF Write
      <4>2. write.rs = [read[t] EXCEPT !.spec = read[t].spec - removable(t)]
        BY <3>2 DEF Write
      <4> QED
        BY <1>4, <4>1, <4>2
    <3>3. LoyalStep(WriteSets("newest", writes), d, read)
      BY <3>2, LoyalSteps
    <3> HIDE DEF writes, scaled
    <3> QED
      BY <1>1, <3>1, <3>3
  <2>4. L(RollingPlan(d, read))
    <3> DEFINE old == Owned(read) \ {d.template}
               oldTotal == TotalSpec(read, old)
               scaleUp == AtMost(Less(d.replicas, current.spec),
                                 Less(Ceiling(d), oldTotal + current.spec))
               target == current.spec + scaleUp
               targetOld == oldTotal - MaxScaleDown(d, read, old, oldTotal, target)
               mayScaleDown == \/ current.available >= target
                               \/ \E t \in old : Unavailable(read[t]) > 0
               first == When(scaleUp > 0,
                             WriteSet(d.template, [current EXCEPT !.spec = target]))
               second == IF mayScaleDown /\ targetOld < oldTotal
                         THEN ScaleDownToTotal(read, old, targetOld) ELSE << >>
               third == When(target < d.replicas \/ targetOld > 0, Again)
    <3>1. RollingPlan(d, read) = (first \o second) \o third
      BY DEF RollingPlan
    <3> HIDE DEF target, targetOld, mayScaleDown, scaleUp, oldTotal
    <3>2. [current EXCEPT !.spec = target].at = read[d.template].at
      BY <1>4, <2>1
    <3>3. LoyalStep(WriteSet(d.template, [current EXCEPT !.spec = target]), d, read)
      BY <2>1, <3>2, LoyalSteps
    <3>4. L(first) /\ L(third)
      <4> HIDE DEF current
      <4> QED
        BY <1>1, <3>3, LoyalSteps
    <3>5. L(second)
      <4>1. L(<< >>)
        <5>1. When(FALSE, Again) = << >>
          BY DEF When
        <5> QED
          BY <1>1, <5>1
      <4>2. L(ScaleDownToTotal(read, old, targetOld))
        BY <2>3
      <4> QED
        BY <4>1, <4>2
    <3> HIDE DEF first, second, third
    <3> QED
      BY <1>2, <3>1, <3>4, <3>5
  <2>5. Plan(d, read) = RollingPlan(d, read) \o RevisionPlan(d, read)
    BY <1>6 DEF Plan
  <2> QED
    BY <1>2, <2>2, <2>4, <2>5 DEF L
<1> QED
  BY <1>5, <1>6

\* What only concerns deliveries and ReplicaSets does not touch the invariant.
LEMMA GentleKeeps ==
  ASSUME StoreType, StoreType', Rolling, Gentle, Placed(replicaSets), KeptTotal <= Book.room
  PROVE  /\ Rolling' /\ Placed(replicaSets') /\ KeptTotal' <= Book'.room
         /\ Book' = Book /\ Asked' = Asked
         /\ \A steps : Loyal(steps, deploy, replicaSets)
                         => Loyal(steps, deploy', replicaSets')
<1>1. /\ deploy \in Deployments /\ deploy' = deploy
      /\ replicaSets \in ReadSets /\ replicaSets' \in ReadSets
      /\ pods \in [Templates -> Seq(BOOLEAN)] /\ pods' \in [Templates -> Seq(BOOLEAN)]
  BY DEF StoreType, Rolling, Gentle
<1>2. Owned(replicaSets') = Owned(replicaSets)
  BY DEF Owned, Gentle
<1>3. Specs(replicaSets') = Specs(replicaSets)
  BY DEF Specs, Gentle
<1>4. Book' = Book
  BY <1>1, <1>3 DEF Book, BookOf, Gentle, Deployments
<1>5. Placed(replicaSets')
  <2>1. \A t \in Owned(replicaSets) : replicaSets'[t].at = replicaSets[t].at
    BY OwnedTypes, <1>1 DEF Owned, Gentle
  <2> QED
    BY <1>2, <2>1 DEF Placed, Ranked
<1>6. KeptTotal' <= KeptTotal
  <2> DEFINE kept == KeptOf(deploy, replicaSets, pods)
             new == KeptOf(deploy, replicaSets, pods')
  <2>1. KeptTotal' = Total(new)
    BY <1>1, <1>3 DEF KeptTotal, KeptOf
  <2>2. /\ DOMAIN kept = Templates /\ DOMAIN new = Templates
        /\ kept \in [Templates -> Nat] /\ new \in [Templates -> Nat]
    BY <1>1, KeptType
  <2>3. ASSUME NEW t \in Templates PROVE new[t] <= kept[t]
    <3> DEFINE s == Specs(replicaSets)[t]
               a == ReadyOf(pods[t])
               b == ReadyOf(pods'[t])
    <3>1. s \in Nat /\ a \in Nat /\ b \in Nat /\ b <= a
      BY <1>1, SpecsType, ReadyCounts DEF Gentle
    <3>2. /\ kept[t] = IF t = deploy.template THEN s ELSE AtMost(s, a)
          /\ new[t] = IF t = deploy.template THEN s ELSE AtMost(s, b)
      BY DEF KeptOf
    <3> HIDE DEF s, a, b, kept, new
    <3>3. /\ AtMost(s, a) = IF s <= a THEN s ELSE a
          /\ AtMost(s, b) = IF s <= b THEN s ELSE b
      BY <3>1, AtMostIs
    <3> QED
      BY <3>1, <3>2, <3>3
  <2> HIDE DEF new, kept
  <2>4. Total(new) <= Total(kept)
    BY <2>2, <2>3, TemplatesAssumption, TotalGrows
  <2> QED
    BY <2>1, <2>4 DEF KeptTotal, kept
<1>7. KeptTotal' <= Book'.room
  <2>1. KeptTotal \in Nat /\ KeptTotal' \in Nat
    BY <1>1, KeptType DEF KeptTotal
  <2>2. Book.room \in Nat
    BY <1>1, LimitTypes DEF Book, BookOf
  <2> QED
    BY <1>4, <1>6, <2>1, <2>2
<1>8. ASSUME NEW steps, Loyal(steps, deploy, replicaSets)
      PROVE  Loyal(steps, deploy', replicaSets')
  <2>1. ASSUME NEW k \in DOMAIN steps PROVE LoyalStep(steps[k], deploy', replicaSets')
    <3>1. LoyalStep(steps[k], deploy, replicaSets)
      BY <1>8 DEF Loyal
    <3>2. \A t \in Owned(replicaSets) : replicaSets'[t].at = replicaSets[t].at
      BY DEF Gentle, Owned
    <3> QED
      BY <1>1, <1>2, <3>1, <3>2 DEF LoyalStep
  <2> QED
    BY <2>1 DEF Loyal
<1> QED
  BY <1>1, <1>3, <1>4, <1>5, <1>7, <1>8 DEF Rolling, Asked

-------------------------------------------------------------------------------
(* The frames of a rolling update *)

PlanFrame(steps) == [op |-> "plan", steps |-> steps]

\* The frame of a plan, and what is under it
LEMMA PlannedIs ==
  ASSUME NEW S, NEW rest \in Seq(S), NEW steps
  PROVE  /\ \E T : Planned(steps, rest) \in Seq(T) /\ rest \in Seq(T)
         /\ steps = << >> => Planned(steps, rest) = rest
         /\ steps # << >> =>
              /\ Planned(steps, rest) = <<PlanFrame(steps)>> \o rest
              /\ Planned(steps, rest) # << >>
              /\ Head(Planned(steps, rest)) = PlanFrame(steps)
              /\ Tail(Planned(steps, rest)) = rest
         /\ \A op : Draining(op, Planned(steps, rest)) => op = "plan" \/ Draining(op, rest)
         /\ \A op : Draining(op, rest) => Draining(op, Planned(steps, rest))
<1>1. CASE steps = << >>
  <2>1. Planned(steps, rest) = rest
    BY <1>1 DEF Planned
  <2> QED
    BY <1>1, <2>1
<1>2. CASE steps # << >>
  <2> DEFINE frame == PlanFrame(steps)
             T == S \cup {frame}
  <2>1. Planned(steps, rest) = <<frame>> \o rest
    BY <1>2 DEF Planned, PlanFrame
  <2>2. frame.op = "plan"
    BY DEF PlanFrame
  <2>3. rest \in Seq(T) /\ frame \in T
    OBVIOUS
  <2> HIDE DEF frame, T
  <2>4. <<frame>> \o rest \in Seq(T)
    BY <2>3, Stacked
  <2>5. /\ <<frame>> \o rest # << >>
        /\ Head(<<frame>> \o rest) = frame /\ Tail(<<frame>> \o rest) = rest
        /\ \A op : Draining(op, <<frame>> \o rest) <=> frame.op = op \/ Draining(op, rest)
    BY Stacked
  <2> QED
    BY <1>2, <2>1, <2>2, <2>3, <2>4, <2>5 DEF frame
<1> QED
  BY <1>1, <1>2

\* The frames of processNext
LEMMA OuterIs ==
  ASSUME NEW base, NEW p, Outer(base, p)
  PROVE  /\ \E S : base \in Seq(S)
         /\ base # << >> =>
              /\ base = Planned(p, <<NextFrame>> \o << >>)
              /\ IF p = << >> THEN Head(base) = NextFrame /\ Tail(base) = << >>
                 ELSE Head(base) = PlanFrame(p) /\ Tail(base) = <<NextFrame>> \o << >>
         /\ base = << >> => p = << >>
         /\ \A op : Draining(op, base) => op \in {"plan", "next"}
<1> DEFINE next == <<NextFrame>> \o << >>
           S == {NextFrame}
<1>1. <<NextFrame>> = next /\ next \in Seq(S) /\ NextFrame.op = "next" /\ << >> \in Seq(S)
  BY DEF NextFrame
<1>2. /\ next # << >> /\ Head(next) = NextFrame /\ Tail(next) = << >>
      /\ \A op : Draining(op, next) <=> NextFrame.op = op \/ Draining(op, << >>)
  <2> HIDE DEF S
  <2> QED
    BY <1>1, Stacked
<1>3. \A op : ~Draining(op, << >>)
  BY Nothing
<1>4. CASE base = << >> /\ p = << >>
  BY <1>1, <1>3, <1>4
<1>5. CASE base = Planned(p, <<NextFrame>>)
  <2> HIDE DEF next, S
  <2>1. base = Planned(p, next)
    BY <1>1, <1>5
  <2> QED
    BY <1>1, <1>2, <1>3, <2>1, PlannedIs DEF next
<1> QED
  BY <1>4, <1>5 DEF Outer

\* The frames of the immediate loop
LEMMA InnerIs ==
  ASSUME NEW S, NEW rest \in Seq(S), NEW n, NEW q
  PROVE  LET inner == Inner(n, q, rest)
             loop == <<DeploymentsLoop(n)>> \o rest
         IN  /\ \E T : inner \in Seq(T) /\ loop \in Seq(T)
             /\ inner # << >>
             /\ IF q = << >> THEN inner = loop
                ELSE Head(inner) = PlanFrame(q) /\ Tail(inner) = loop
             /\ Head(loop) = DeploymentsLoop(n) /\ Tail(loop) = rest
             /\ Draining("deployments", inner)
             /\ \A op : Draining(op, inner) =>
                          op \in {"plan", "deployments"} \/ Draining(op, rest)
<1> DEFINE loop == <<DeploymentsLoop(n)>> \o rest
           T == S \cup {DeploymentsLoop(n)}
<1>1. rest \in Seq(T) /\ DeploymentsLoop(n) \in T /\ DeploymentsLoop(n).op = "deployments"
  BY DEF DeploymentsLoop
<1> HIDE DEF T
<1>2. /\ loop # << >> /\ Head(loop) = DeploymentsLoop(n) /\ Tail(loop) = rest
      /\ loop \in Seq(T)
      /\ \A op : Draining(op, loop) <=> DeploymentsLoop(n).op = op \/ Draining(op, rest)
  BY <1>1, Stacked
<1> HIDE DEF loop
<1> DEFINE inner == Inner(n, q, rest)
<1>3. inner = Planned(q, loop)
  BY DEF Inner, loop
<1> HIDE DEF inner
<1>4. /\ \E U : inner \in Seq(U) /\ loop \in Seq(U)
      /\ q = << >> => inner = loop
      /\ q # << >> => inner # << >> /\ Head(inner) = PlanFrame(q) /\ Tail(inner) = loop
      /\ \A op : Draining(op, inner) => op = "plan" \/ Draining(op, loop)
      /\ \A op : Draining(op, loop) => Draining(op, inner)
  <2>1. loop \in Seq(T)
    BY <1>2
  <2> QED
    BY <1>3, <2>1, PlannedIs
<1>5. /\ inner # << >>
      /\ Draining("deployments", inner)
      /\ \A op : Draining(op, inner) => op \in {"plan", "deployments"} \/ Draining(op, rest)
  BY <1>1, <1>2, <1>4
<1>6. /\ \E U : inner \in Seq(U) /\ loop \in Seq(U)
      /\ IF q = << >> THEN inner = loop
         ELSE Head(inner) = PlanFrame(q) /\ Tail(inner) = loop
      /\ Head(loop) = DeploymentsLoop(n) /\ Tail(loop) = rest
  BY <1>2, <1>4
<1> QED
  BY <1>5, <1>6, Zenon DEF loop, inner

\* What is at the top when neither deliveries nor reconciles of ReplicaSets are
LEMMA BaseOnTop ==
  ASSUME NEW base, Over(stack, base), stack = << >> \/ Head(stack).op \notin SideOps
  PROVE  stack = base
<1>1. \/ stack = base
      \/ stack # << >> /\ Head(stack).op \in SideOps
  BY OverPopped
<1> QED
  BY <1>1

\* A side frame is above the base.
LEMMA BaseBelow ==
  ASSUME NEW base, Over(stack, base), Head(stack).op \in SideOps,
         base = << >> \/ Head(base).op \notin SideOps, stack # << >>
  PROVE  stack # base /\ Over(Tail(stack), base)
<1>1. stack # base
  OBVIOUS
<1> QED
  BY <1>1, OverPopped

\* What processNext has on the stack begins with its plan or with itself.
LEMMA OuterTop ==
  ASSUME NEW base, NEW p, Outer(base, p)
  PROVE  base = << >> \/ Head(base).op \in {"plan", "next"}
<1>1. NextFrame.op = "next" /\ PlanFrame(p).op = "plan"
  BY DEF NextFrame, PlanFrame
<1> QED
  BY <1>1, OuterIs

\* What the immediate loop has begins with its plan or with itself.
LEMMA InnerTop ==
  ASSUME NEW S, NEW rest \in Seq(S), NEW n, NEW q
  PROVE  /\ Inner(n, q, rest) # << >>
         /\ Head(Inner(n, q, rest)).op = IF q = << >> THEN "deployments" ELSE "plan"
<1>1. DeploymentsLoop(n).op = "deployments" /\ PlanFrame(q).op = "plan"
  BY DEF DeploymentsLoop, PlanFrame
<1> QED
  BY <1>1, InnerIs

\* An empty plan settles.
LEMMA NothingSettles ==
  ASSUME NEW v, NEW looped, NEW book
  PROVE  Settling(<< >>, v, looped, book) /\ ~HasAgain(<< >>) /\ ~Heals(<< >>, v, book)
         /\ \A d, read : Loyal(<< >>, d, read)
<1>1. << >> \in Seq(Quiets(v, book)) /\ DOMAIN << >> = {}
  OBVIOUS
<1>2. ASSUME Heals(<< >>, v, book) PROVE FALSE
  <2>1. PICK step : \E later \in Seq(Quiets(v, book)) : << >> = <<step>> \o later
    BY <1>2 DEF Heals
  <2> QED
    BY <2>1, Stacked
<1> QED
  BY <1>1, <1>2 DEF Settling, HasAgain, Loyal

-------------------------------------------------------------------------------
(* Steps that leave the plans alone *)

\* The immediate loop begins.
LEMMA LoopBegins ==
  ASSUME NEW base, NEW p, NEW u \in Nat, NEW frames,
         Outer(base, p), Over(frames, base),
         stack' = <<DeploymentsLoop(MaxBatch)>> \o frames,
         Settling(p, u, FALSE, Book'), Loyal(p, deploy', replicaSets'),
         u <= Book'.specs[Book'.template],
         Asked' > Book'.room =>
           Book'.exists /\ (HasAgain(p) \/ (frames = base /\ queued'))
  PROVE  DeepRoom'
<1> DEFINE q == << >>
           n == MaxBatch
<1>1. PICK S : frames \in Seq(S) /\ base \in Seq(S)
  BY OverKeeps
<1>2. stack' = Inner(n, q, frames) /\ \E T : stack' \in Seq(T)
  BY <1>1, InnerIs
<1>3. Over(stack', Inner(n, q, frames))
  BY <1>2, OverSame
<1>4. Settling(q, u, TRUE, Book') /\ Loyal(q, deploy', replicaSets')
  BY NothingSettles
<1>5. n \in Nat /\ n > 0
  BY BatchAssumption
<1> HIDE DEF q, n
<1>6. Deep(p, base, q, frames, u, u, n)'
  <2>1. u <= u
    OBVIOUS
  <2>2. q = << >>
    BY DEF q
  <2> QED
    BY <1>2, <1>3, <1>4, <1>5, <2>1, <2>2 DEF Deep
<1> QED
  BY <1>6 DEF DeepRoom

\* Deliveries and the ReplicaSet controller leave room.
LEMMA SideRoom ==
  ASSUME StoreType, KeysType, Living, StoreType', Rolling, RoomInv, Run,
         stack # << >>, Head(stack).op \in SideOps
  PROVE  RoomInv'
<1>1. Gentle /\ Beside(Tail(stack))
  BY SideRuns
<1>2. /\ Rolling' /\ Placed(replicaSets') /\ KeptTotal' <= Book'.room
      /\ Book' = Book /\ Asked' = Asked
      /\ \A steps : Loyal(steps, deploy, replicaSets) => Loyal(steps, deploy', replicaSets')
  BY <1>1, GentleKeeps DEF RoomInv
<1>3. PICK frames :
        /\ \A base : Over(Tail(stack), base) => Over(frames, base)
        /\ \/ stack' = frames
           \/ /\ stack' = <<DeploymentsLoop(MaxBatch)>> \o frames
              /\ ~Draining("deployments", frames)
  BY <1>1 DEF Beside
<1>4. ASSUME NEW p, NEW base, NEW u, Flat(p, base, u) PROVE RoomInv'
  <2>1. base = << >> \/ Head(base).op \notin SideOps
    BY <1>4, OuterTop DEF Flat, SideOps
  <2>2. stack # base /\ Over(frames, base)
    BY <1>3, <1>4, <2>1, BaseBelow DEF Flat
  <2>3. /\ u \in Nat /\ Outer(base, p)
        /\ Settling(p, u, FALSE, Book') /\ Loyal(p, deploy', replicaSets')
        /\ u <= Book'.specs[Book'.template]
        /\ Asked' > Book'.room => Book'.exists /\ HasAgain(p)
    BY <1>2, <1>4, <2>2 DEF Flat
  <2>4. CASE stack' = frames
    <3>1. Flat(p, base, u)'
      BY <2>2, <2>3, <2>4 DEF Flat
    <3> QED
      BY <1>2, <3>1 DEF RoomInv, FlatRoom
  <2>5. CASE stack' = <<DeploymentsLoop(MaxBatch)>> \o frames
    <3>1. DeepRoom'
      BY <2>2, <2>3, <2>5, LoopBegins
    <3> QED
      BY <1>2, <3>1 DEF RoomInv
  <2> QED
    BY <1>3, <2>4, <2>5
<1>5. ASSUME NEW p, NEW base, NEW q, NEW rest, NEW u, NEW v, NEW n,
             Deep(p, base, q, rest, u, v, n)
      PROVE  RoomInv'
  <2> DEFINE inner == Inner(n, q, rest)
  <2>1. Over(rest, base) /\ Over(stack, inner)
    BY <1>5 DEF Deep
  <2>2. PICK S : rest \in Seq(S)
    BY <2>1, OverKeeps
  <2>3. Head(inner).op \notin SideOps /\ Draining("deployments", inner)
    BY <2>2, InnerTop, InnerIs DEF SideOps
  <2> HIDE DEF inner
  <2>4. stack # inner /\ Over(frames, inner)
    BY <1>3, <2>1, <2>3, BaseBelow
  <2>5. Draining("deployments", frames)
    BY <2>3, <2>4, OverKeeps
  <2>6. stack' = frames
    BY <1>3, <2>5
  <2>7. Deep(p, base, q, rest, u, v, n)'
    BY <1>2, <1>5, <2>4, <2>6 DEF Deep, inner
  <2> QED
    BY <1>2, <2>7 DEF RoomInv, DeepRoom
<1> QED
  BY <1>4, <1>5 DEF RoomInv, FlatRoom, DeepRoom

\* What the book of a Deployment says
LEMMA BookIs ==
  ASSUME NEW d \in Deployments, NEW read \in ReadSets
  PROVE  /\ d.template \in Templates
         /\ BookOf(d, read).specs = Specs(read) /\ BookOf(d, read).template = d.template
         /\ BookOf(d, read).room = Ceiling(d) /\ Ceiling(d) \in Nat
         /\ BookOf(d, read).exists <=> read[d.template] # None
         /\ Specs(read) \in [Templates -> Nat] /\ Total(Specs(read)) \in Nat
         /\ Specs(read)[d.template] \in Nat
<1>1. d.template \in Templates
  BY DEF Deployments
<1> QED
  BY <1>1, LimitTypes, SpecsType DEF BookOf

\* Between calls no more is asked for than there is room for.
LEMMA IdleRoom ==
  ASSUME StoreType, RoomInv, Rolling, Idle
  PROVE  Asked <= Book.room
<1>1. Asked \in Nat /\ Book.room \in Nat
  BY BookIs DEF Asked, Book, StoreType, Rolling
<1>2. ASSUME NEW p, NEW base, NEW u, Flat(p, base, u) PROVE Asked <= Book.room
  <2>1. stack = base /\ p = << >>
    BY <1>2, BaseOnTop, OuterIs DEF Flat, Idle
  <2>2. ~(Asked > Book.room)
    BY <1>2, <2>1, NothingSettles DEF Flat
  <2> QED
    BY <1>1, <2>2
<1>3. ASSUME NEW p, NEW base, NEW q, NEW rest, NEW u, NEW v, NEW n,
             Deep(p, base, q, rest, u, v, n)
      PROVE  FALSE
  <2>1. stack = Inner(n, q, rest)
    BY <1>3, BaseOnTop DEF Deep, Idle
  <2>2. PICK S : rest \in Seq(S)
    BY <1>3, OverKeeps DEF Deep
  <2> QED
    BY <2>1, <2>2, InnerTop DEF Idle
<1> QED
  BY <1>2, <1>3 DEF RoomInv, FlatRoom, DeepRoom

\* A call begins.
LEMMA CallBegins ==
  ASSUME StoreType', Rolling', Placed(replicaSets'), Asked' <= Book'.room,
         \/ Over(stack', << >>)
         \/ stack' = <<DeploymentsLoop(MaxBatch)>> \o << >>
  PROVE  RoomInv'
<1> DEFINE e == deploy'
           read == replicaSets'
<1>1. /\ e \in Deployments /\ read \in ReadSets /\ pods' \in [Templates -> Seq(BOOLEAN)]
  BY DEF StoreType, Rolling
<1>2. Asked' \in Nat /\ Book'.room \in Nat /\ Book'.specs[Book'.template] \in Nat
  BY <1>1, BookIs DEF Asked, Book
<1>3. KeptTotal' \in Nat /\ KeptTotal' <= Asked'
  BY <1>1, KeptType DEF KeptTotal, Asked
<1>4. KeptTotal' <= Book'.room
  BY <1>2, <1>3
<1> DEFINE p == << >>
           base == << >>
<1>5. /\ Settling(p, 0, FALSE, Book') /\ Loyal(p, deploy', replicaSets')
      /\ Outer(base, p) /\ Over(base, base)
  <2>1. << >> \in Seq({})
    OBVIOUS
  <2> QED
    BY <2>1, NothingSettles, OverSame DEF Outer
<1>6. /\ 0 \in Nat /\ 0 <= Book'.specs[Book'.template] /\ ~(Asked' > Book'.room)
  BY <1>2
<1>7. CASE Over(stack', base)
  <2>1. Flat(p, base, 0)'
    BY <1>5, <1>6, <1>7 DEF Flat
  <2> QED
    BY <1>4, <2>1 DEF RoomInv, FlatRoom
<1>8. CASE stack' = <<DeploymentsLoop(MaxBatch)>> \o base
  <2> HIDE DEF p, base
  <2>1. DeepRoom'
    BY <1>5, <1>6, <1>8, LoopBegins
  <2> QED
    BY <1>4, <2>1 DEF RoomInv
<1> QED
  BY <1>7, <1>8

\* One frame that delivers or reconciles ReplicaSets
LEMMA FirstFrame ==
  ASSUME NEW frame, frame.op \in SideOps
  PROVE  Over(<<frame>> \o << >>, << >>) /\ Over(<<frame>>, << >>) /\ Over(<< >>, << >>)
<1>1. << >> \in Seq({}) /\ <<frame>> \o << >> = <<frame>>
  OBVIOUS
<1>2. Over(<< >>, << >>)
  BY <1>1, OverSame
<1>3. Over(<<frame>> \o << >>, << >>)
  BY <1>2, OverPushed
<1> QED
  BY <1>1, <1>2, <1>3

\* Callbacks that only enqueue
LEMMA CallbackRoom ==
  ASSUME StoreType, StoreType', RoomInv, Rolling, Idle, UNCHANGED store,
         \/ stack' = << >>
         \/ EnqueueDeployment(<< >>)
         \/ \E t : EnqueueReplicaSet(t, << >>)
  PROVE  RoomInv'
<1>1. /\ deploy' = deploy /\ replicaSets' = replicaSets /\ pods' = pods
  BY DEF store
<1>2. Rolling' /\ Placed(replicaSets') /\ Asked' <= Book'.room
  BY <1>1, IdleRoom DEF RoomInv, Rolling, Asked, Book
<1>3. \/ Over(stack', << >>)
      \/ stack' = <<DeploymentsLoop(MaxBatch)>> \o << >>
  <2> DEFINE frame == [op |-> "replicaSets"]
  <2>1. frame.op \in SideOps
    BY DEF SideOps
  <2>2. CASE EnqueueDeployment(<< >>)
    <3>1. stack' = <<DeploymentsLoop(MaxBatch)>> \o << >>
      BY <2>2, Nothing DEF EnqueueDeployment, Return
    <3> QED
      BY <3>1
  <2>3. CASE \E t : EnqueueReplicaSet(t, << >>)
    <3>1. stack' = << >> \/ stack' = <<frame>> \o << >>
      BY <2>3 DEF EnqueueReplicaSet, Return
    <3> QED
      BY <2>1, <3>1, FirstFrame
  <2> QED
    BY <2>1, <2>2, <2>3, FirstFrame
<1> QED
  BY <1>2, <1>3, CallBegins

\* A product grows with its factor.
LEMMA TimesGrows ==
  ASSUME NEW a \in Nat, NEW b \in Nat, a <= b, NEW k \in Nat
  PROVE  a * k \in Nat /\ b * k \in Nat /\ a * k <= b * k
<1> DEFINE m == b - a
<1>1. m \in Nat /\ b = a + m
  OBVIOUS
<1> HIDE DEF m
<1>2. (a + m) * k = a * k + m * k
  BY <1>1
<1>3. a * k \in Nat /\ m * k \in Nat
  BY <1>1
<1> QED
  BY <1>1, <1>2, <1>3

\* A percentage, rounded up, grows with what it is of.
LEMMA PercentGrows ==
  ASSUME NEW x \in Nat, NEW y \in Nat, x <= y
  PROVE  (x + 99) \div 100 <= (y + 99) \div 100
OBVIOUS

\* Who asks for more replicas makes room for more.
LEMMA CeilingGrows ==
  ASSUME NEW d \in Deployments, NEW n \in Nat, n > d.replicas
  PROVE  Ceiling(d) <= Ceiling([d EXCEPT !.replicas = n])
<1> DEFINE e == [d EXCEPT !.replicas = n]
           s == d.strategy.surge
           surge(x) == Resolve(s, x, TRUE)
           old == surge(d.replicas)
           new == surge(n)
<1>1. /\ e.replicas = n /\ e.strategy = d.strategy /\ d.replicas \in Nat
      /\ s \in [percent : BOOLEAN, n : Nat] /\ e \in Deployments
  BY StrategiesAssumption DEF Deployments
<1>2. old \in Nat /\ new \in Nat
  BY <1>1, ResolveIs
<1>3. old <= new
  <2>1. CASE ~s.percent
    BY <1>1, <2>1 DEF Resolve
  <2>2. CASE s.percent
    <3>1. /\ d.replicas * s.n \in Nat /\ n * s.n \in Nat
          /\ d.replicas * s.n <= n * s.n
      BY <1>1, TimesGrows
    <3>2. old = (d.replicas * s.n + 99) \div 100 /\ new = (n * s.n + 99) \div 100
      BY <2>2 DEF Resolve
    <3> HIDE DEF old, new, s
    <3> DEFINE x == d.replicas * s.n
               y == n * s.n
    <3> HIDE DEF x, y
    <3> QED
      BY <3>1, <3>2, PercentGrows DEF x, y
  <2> QED
    BY <2>1, <2>2
<1> HIDE DEF old, new
<1>4. MaxSurge(d) = old \/ (MaxSurge(d) = 1 /\ old = 0)
  BY Zenon DEF MaxSurge, old
<1>5. MaxSurge(e) = new \/ (MaxSurge(e) = 1 /\ new = 0)
  <2>1. Resolve(e.strategy.surge, e.replicas, TRUE) = new
    BY <1>1 DEF new
  <2> QED
    BY <2>1, Zenon DEF MaxSurge
<1>6. Ceiling(d) = d.replicas + MaxSurge(d) /\ Ceiling(e) = n + MaxSurge(e)
  BY <1>1 DEF Ceiling
<1> HIDE DEF e
<1> QED
  BY <1>1, <1>2, <1>3, <1>4, <1>5, <1>6 DEF e

\* Kubelets and users change pods.
LEMMA PodRoom ==
  ASSUME StoreType, StoreType', RoomInv, Rolling, Idle,
         NEW t, NEW list, SetPods(t, list, << >>)
  PROVE  RoomInv'
<1>1. /\ deploy' = deploy /\ replicaSets' = replicaSets
      /\ stack' = <<Delivery(Event("Pod", t), 1)>> \o << >>
  BY DEF SetPods, Deliver
<1>2. Rolling' /\ Placed(replicaSets') /\ Asked' <= Book'.room
  BY <1>1, IdleRoom DEF RoomInv, Rolling, Asked, Book
<1>3. Delivery(Event("Pod", t), 1).op \in SideOps
  BY DEF Delivery, SideOps
<1> QED
  BY <1>1, <1>2, <1>3, FirstFrame, CallBegins

\* Users ask for more replicas, or another template.
LEMMA EditRoom ==
  ASSUME ~ScaleDown, StoreType, StoreType', RoomInv, Rolling', Idle,
         \/ \E n \in 0..MaxReplicas : Scale(n)
         \/ \E t \in Templates : ChangeTemplate(t)
  PROVE  RoomInv'
<1> DEFINE event == Event("DeploymentUpdated", None)
<1>1. Delivery(event, 1).op \in SideOps
  BY DEF Delivery, SideOps
<1>2. PICK new : deploy # None /\ UpdateDeployment(new, << >>)
                 /\ \/ \E n \in Nat : /\ new = [deploy EXCEPT !.replicas = n]
                                      /\ n # deploy.replicas
                                      /\ n < deploy.replicas => deploy.strategy.type = "Recreate"
                    \/ \E t \in Templates : new = [deploy EXCEPT !.template = t]
  <2>1. CASE \E n \in 0..MaxReplicas : Scale(n)
    <3>1. PICK n \in 0..MaxReplicas : Scale(n)
      BY <2>1
    <3>2. n \in Nat
      BY SizeAssumption
    <3> QED
      BY <3>1, <3>2 DEF Scale
  <2>2. CASE \E t \in Templates : ChangeTemplate(t)
    BY <2>2 DEF ChangeTemplate
  <2> QED
    BY <2>1, <2>2
<1>3. /\ deploy' = new /\ replicaSets' = replicaSets /\ deploy \in Deployments
      /\ stack' = <<Delivery(event, 1)>> \o << >>
  BY <1>2 DEF UpdateDeployment, Deliver, StoreType
<1>4. Rolling /\ Ceiling(deploy) <= Ceiling(deploy')
  <2>1. CASE \E n \in Nat : /\ new = [deploy EXCEPT !.replicas = n]
                            /\ n # deploy.replicas
                            /\ n < deploy.replicas => deploy.strategy.type = "Recreate"
    <3>1. PICK n \in Nat : /\ new = [deploy EXCEPT !.replicas = n]
                           /\ n # deploy.replicas
                           /\ n < deploy.replicas => deploy.strategy.type = "Recreate"
      BY <2>1
    <3>2. new.strategy = deploy.strategy /\ deploy.replicas \in Nat
      BY <1>3, <3>1 DEF Deployments
    <3>3. Rolling /\ n > deploy.replicas
      BY <1>2, <1>3, <3>1, <3>2 DEF Rolling
    <3> QED
      BY <1>3, <3>1, <3>3, CeilingGrows
  <2>2. CASE \E t \in Templates : new = [deploy EXCEPT !.template = t]
    <3>1. /\ new.strategy = deploy.strategy /\ new.replicas = deploy.replicas
          /\ deploy.replicas \in Nat
      BY <1>3, <2>2 DEF Deployments
    <3>2. Ceiling(new) = Ceiling(deploy)
      BY <3>1 DEF Ceiling, MaxSurge
    <3> QED
      BY <1>2, <1>3, <3>1, <3>2, LimitTypes DEF Rolling
  <2> QED
    BY <1>2, <2>1, <2>2
<1>5. Asked' <= Book'.room
  <2>1. Asked <= Book.room
    BY <1>4, IdleRoom
  <2>2. Asked' = Asked /\ Book.room = Ceiling(deploy) /\ Book'.room = Ceiling(deploy')
    BY <1>3 DEF Asked, Book, BookOf
  <2>3. Asked \in Nat /\ Ceiling(deploy) \in Nat /\ Ceiling(deploy') \in Nat
    BY <1>3, BookIs, LimitTypes DEF Asked, StoreType, Rolling
  <2> QED
    BY <1>4, <2>1, <2>2, <2>3
<1>6. Placed(replicaSets')
  BY <1>3, <1>4 DEF RoomInv
<1> QED
  BY <1>1, <1>3, <1>5, <1>6, FirstFrame, CallBegins

\* A Deployment is created when nothing is left of the one before.
LEMMA CreationRoom ==
  ASSUME StoreType, StoreType', Rolling', Idle, Dying,
         NEW d, CreateDeployment(d)
  PROVE  RoomInv'
<1> DEFINE event == Event("DeploymentUpdated", None)
<1>1. Delivery(event, 1).op \in SideOps
  BY DEF Delivery, SideOps
<1>2. /\ replicaSets' = replicaSets /\ deploy' = d
      /\ stack' = <<Delivery(event, 1)>> \o << >>
  BY DEF CreateDeployment, Deliver
<1>3. Owned(replicaSets) = {} /\ \A t \in Templates : replicaSets[t] = None
  BY NothingLeft
<1>4. Asked' = 0
  <2>1. \A t \in DOMAIN Specs(replicaSets) : Specs(replicaSets)[t] = 0
    BY <1>3 DEF Specs
  <2> QED
    BY <1>2, <2>1, NothingAdds DEF Asked
<1>5. Book'.room \in Nat
  <2>1. deploy' \in Deployments /\ replicaSets' \in ReadSets
    BY DEF StoreType, Rolling
  <2> QED
    BY <2>1, BookIs DEF Book
<1>6. Placed(replicaSets')
  BY <1>2, <1>3 DEF Placed, Ranked
<1> QED
  BY <1>1, <1>2, <1>4, <1>5, <1>6, FirstFrame, CallBegins

-------------------------------------------------------------------------------
(* Reconciles begin *)

\* Nothing is owed to a ReplicaSet when nothing delivers or reconciles one.
LEMMA AllSettled ==
  ASSUME Living, IInv, NEW S, stack \in Seq(S),
         \A op \in SideOps : ~Draining(op, stack)
  PROVE  \A t \in Owned(replicaSets) : Settled(t)
<1>1. rsQueue = << >>
  BY DEF IInv, Attended, SideOps
<1>2. ASSUME NEW t PROVE ~Contains(rsQueue, t)
  BY <1>1 DEF Contains
<1>3. ASSUME NEW t, Awaits(t, stack) PROVE FALSE
  <2>1. PICK i \in DOMAIN stack : stack[i].op = "deliver"
    BY <1>3 DEF Awaits, TellsSet
  <2> QED
    BY <2>1 DEF Draining, SideOps
<1>4. ASSUME NEW t, Counted(t) PROVE FALSE
  <2>1. 1 \in DOMAIN stack /\ stack[1].op = "scale"
    BY <1>4 DEF Counted
  <2> QED
    BY <2>1 DEF Draining, SideOps
<1> QED
  BY <1>2, <1>3, <1>4 DEF Living, SetTold

\* What is asked for beyond what is certain to be there is reported unavailable.
LEMMA ExcessIsUnavailable ==
  ASSUME StoreType, Rolling, \A t \in Owned(replicaSets) : Settled(t)
  PROVE  Asked <= KeptTotal + Total([t \in Owned(replicaSets) \ {deploy.template} |->
                                       Unavailable(replicaSets[t])])
<1> DEFINE old == Owned(replicaSets) \ {deploy.template}
           specs == Specs(replicaSets)
           kept == KeptOf(deploy, replicaSets, pods)
           few == [t \in old |-> Unavailable(replicaSets[t])]
           all == [t \in Templates |-> IF t \in old THEN Unavailable(replicaSets[t]) ELSE 0]
<1>1. /\ deploy \in Deployments /\ replicaSets \in ReadSets
      /\ pods \in [Templates -> Seq(BOOLEAN)] /\ old \subseteq Templates
  BY DEF StoreType, Rolling, Owned
<1>2. /\ specs \in [Templates -> Nat] /\ kept \in [Templates -> Nat]
      /\ DOMAIN specs = Templates /\ DOMAIN kept = Templates
      /\ IsFiniteSet(DOMAIN specs)
  BY <1>1, SpecsType, KeptType
<1>3. ASSUME NEW t \in Templates
      PROVE  all[t] \in Nat /\ specs[t] <= kept[t] + all[t]
  <2>0. specs[t] \in Nat /\ kept[t] \in Nat
    BY <1>2
  <2>1. CASE t = deploy.template
    <3>1. kept[t] = specs[t] /\ all[t] = 0
      BY <1>1, <2>1, KeptType
    <3> QED
      BY <2>0, <3>1
  <2>2. CASE t \notin Owned(replicaSets)
    <3>1. specs[t] = 0 /\ all[t] = 0
      BY <1>1, <2>2, SpecsType DEF Owned
    <3> QED
      BY <2>0, <3>1
  <2>3. CASE t \in old
    <3> DEFINE rs == replicaSets[t]
               a == ReadyOf(pods[t])
               b == Len(pods[t])
    <3>1. a \in Nat /\ b \in Nat /\ a <= b
      <4>1. pods[t] \in Seq(BOOLEAN)
        BY <1>1
      <4>2. Len(pods[t]) \in Nat
        BY <4>1
      <4> QED
        BY <4>1, <4>2, ReadyCounts
    <3>2. rs.spec = b /\ rs.replicas = b /\ rs.available = a
      <4>1. Settled(t)
        BY <2>3
      <4>2. /\ [replicas |-> b, available |-> a]
                 = [replicas |-> rs.replicas, available |-> rs.available]
            /\ b = rs.spec
        BY <4>1 DEF Settled, SetStatus
      <4> HIDE DEF a, b, rs
      <4> QED
        BY <4>2
    <3>3. specs[t] = b
      BY <1>1, <2>3, <3>2, SpecsType DEF Owned
    <3>4. kept[t] = AtMost(b, a)
      BY <2>3, <3>3 DEF KeptOf
    <3>5. all[t] = Less(b, a)
      BY <2>3, <3>2 DEF Unavailable
    <3> HIDE DEF a, b, all, kept, specs
    <3>6. AtMost(b, a) = IF b <= a THEN b ELSE a
      BY <3>1, AtMostIs
    <3>7. Less(b, a) = b - a
      BY <3>1 DEF Less
    <3> QED
      BY <3>1, <3>3, <3>4, <3>5, <3>6, <3>7
  <2> QED
    BY <2>1, <2>2, <2>3
<1>4. Total(few) = Total(all)
  <2>1. /\ DOMAIN few = old /\ DOMAIN all = Templates
        /\ \A t \in DOMAIN few : few[t] = all[t]
        /\ \A t \in DOMAIN all \ DOMAIN few : all[t] = 0
    BY <1>1
  <2> HIDE DEF few, all
  <2> QED
    BY <1>1, <2>1, TotalSame
<1>5. Total(specs) <= Total(kept) + Total(all)
  <2>1. DOMAIN all = Templates
    OBVIOUS
  <2> HIDE DEF specs, kept, all
  <2> QED
    BY <1>2, <1>3, <2>1, TotalLacks
<1> QED
  BY <1>4, <1>5 DEF Asked, KeptTotal

\* A reconcile makes its plan.
LEMMA PlanBegins ==
  ASSUME StoreType, Rolling, Placed(replicaSets), NEW S, NEW rest \in Seq(S), Reconcile(rest)
  PROVE  LET plan == Plan(deploy, replicaSets)
         IN  /\ UNCHANGED store /\ plan # << >> /\ stack' = Planned(plan, rest)
             /\ Loyal(plan, deploy, replicaSets)
             /\ Fresh(plan, Book.specs[Book.template], TRUE, Book)
             /\ Fresh(plan, Book.specs[Book.template], FALSE, Book)
<1>1. deploy \in Deployments /\ replicaSets \in ReadSets
  BY DEF StoreType, Rolling
<1>2. Plan(deploy, replicaSets) # << >>
  BY <1>1, PlanType DEF PlansOf
<1>3. UNCHANGED store /\ stack' = Planned(Plan(deploy, replicaSets), rest)
  BY <1>2 DEF Reconcile, Return, Rolling, Planned
<1>4. Loyal(Plan(deploy, replicaSets), deploy, replicaSets)
  BY <1>1, PlanLoyal DEF Rolling
<1>5. /\ Fresh(Plan(deploy, replicaSets), Specs(replicaSets)[deploy.template], TRUE,
               BookOf(deploy, replicaSets))
      /\ Fresh(Plan(deploy, replicaSets), Specs(replicaSets)[deploy.template], FALSE,
               BookOf(deploy, replicaSets))
  BY <1>1, PlanFits DEF Placed, Rolling
<1>6. /\ Book = BookOf(deploy, replicaSets) /\ Book.specs = Specs(replicaSets)
      /\ Book.template = deploy.template
  BY DEF Book, BookOf
<1> QED
  BY <1>2, <1>3, <1>4, <1>5, <1>6

\* processNext leaves room.
LEMMA TimerRoom ==
  ASSUME StoreType, StoreType', RoomInv, Rolling, TimerFires
  PROVE  RoomInv'
<1>1. Idle /\ Placed(replicaSets) /\ KeptTotal <= Book.room /\ NextFrame = [op |-> "next"]
  BY DEF TimerFires, RoomInv, NextFrame
<1>2. CASE ~queued
  <2>1. stack' = << >> /\ UNCHANGED store
    BY <1>2 DEF TimerFires, Return
  <2> QED
    BY <1>1, <2>1, CallbackRoom
<1>3. CASE queued
  <2>1. Reconcile(<<NextFrame>>) /\ <<NextFrame>> \in Seq({NextFrame})
    BY <1>1, <1>3 DEF TimerFires
  <2>2. PICK plan, v :
          /\ v = Book.specs[Book.template]
          /\ UNCHANGED store /\ stack' = Planned(plan, <<NextFrame>>)
          /\ Loyal(plan, deploy, replicaSets) /\ Fresh(plan, v, FALSE, Book)
    BY <1>1, <2>1, PlanBegins
  <2>3. v \in Nat /\ Asked \in Nat /\ Book.room \in Nat
    BY <2>2, BookIs DEF Asked, Book, StoreType, Rolling
  <2>4. v <= v /\ ~(Asked > Book.room)
    BY <1>1, <2>3, IdleRoom
  <2> DEFINE base == Planned(plan, <<NextFrame>>)
  <2>5. Outer(base, plan)
    BY DEF Outer
  <2>6. Over(base, base)
    <3>1. \E T : base \in Seq(T)
      BY <2>5, OuterIs
    <3> HIDE DEF base
    <3> QED
      BY <3>1, OverSame
  <2>7. deploy' = deploy /\ replicaSets' = replicaSets /\ pods' = pods
    BY <2>2 DEF store
  <2>8. Book' = Book /\ Asked' = Asked /\ KeptTotal' = KeptTotal /\ Rolling'
    BY <2>7 DEF Book, Asked, KeptTotal, Rolling
  <2>9. stack' = base
    BY <2>2
  <2> HIDE DEF base
  <2>10. Flat(plan, base, v)'
    BY <2>2, <2>3, <2>4, <2>5, <2>6, <2>7, <2>8, <2>9 DEF Flat
  <2> QED
    BY <1>1, <2>7, <2>8, <2>10 DEF RoomInv, FlatRoom
<1> QED
  BY <1>2, <1>3

\* The immediate loop takes the key, or ends.
LEMMA LoopRoom ==
  ASSUME StoreType, StoreType', Living, IInv, RoomInv, Rolling, Run,
         stack # << >>, Head(stack).op = "deployments"
  PROVE  RoomInv'
<1>1. DrainDeployments(Head(stack), Tail(stack))
  BY Zenon DEF Run
<1>2. UNCHANGED store
  BY <1>1 DEF DrainDeployments, Reconcile, Return
<1>3. deploy' = deploy /\ replicaSets' = replicaSets /\ pods' = pods
  BY <1>2 DEF store
<1>4. /\ Book' = Book /\ Asked' = Asked /\ KeptTotal' = KeptTotal /\ Rolling'
      /\ Placed(replicaSets) /\ Placed(replicaSets') /\ KeptTotal <= Book.room
      /\ KeptTotal' <= Book'.room
  BY <1>3 DEF Book, Asked, KeptTotal, Rolling, RoomInv
<1>5. ASSUME NEW p, NEW base, NEW u, Flat(p, base, u) PROVE FALSE
  <2>1. stack = base
    BY <1>5, BaseOnTop DEF Flat, SideOps
  <2> QED
    BY <1>5, <2>1, OuterTop DEF Flat
<1>6. ASSUME NEW p, NEW base, NEW q, NEW rest, NEW u, NEW v, NEW n,
             Deep(p, base, q, rest, u, v, n)
      PROVE  RoomInv'
  <2>1. stack = Inner(n, q, rest) /\ Over(rest, base)
    BY <1>6, BaseOnTop DEF Deep, SideOps
  <2>2. PICK S : rest \in Seq(S) /\ base \in Seq(S)
    BY <2>1, OverKeeps
  <2>3. q = << >>
    BY <2>1, <2>2, InnerTop
  <2>4. stack = <<DeploymentsLoop(n)>> \o rest
    BY <2>1, <2>2, <2>3, InnerIs
  <2>5. /\ Head(stack) = DeploymentsLoop(n) /\ Tail(stack) = rest
        /\ \E T : stack \in Seq(T)
    <3>1. /\ Head(<<DeploymentsLoop(n)>> \o rest) = DeploymentsLoop(n)
          /\ Tail(<<DeploymentsLoop(n)>> \o rest) = rest
      BY <2>2, Stacked
    <3>2. \E T : stack \in Seq(T)
      BY <2>1, <2>2, InnerIs
    <3> QED
      BY <2>4, <3>1, <3>2
  <2>6. DeploymentsLoop(n).left = n
    BY DEF DeploymentsLoop
  <2>7. /\ u \in Nat /\ v \in Nat /\ n \in Nat /\ Outer(base, p)
        /\ Settling(p, u, FALSE, Book) /\ Loyal(p, deploy, replicaSets)
        /\ u <= v /\ v <= Book.specs[Book.template]
        /\ Asked > Book.room => /\ Book.exists
                                /\ HasAgain(p) \/ (rest = base /\ n > 0 /\ queued)
    BY <1>6, <2>3, NothingSettles DEF Deep
  <2>8. Book.specs[Book.template] \in Nat
    BY BookIs DEF Book, StoreType, Rolling
  <2>9. u <= Book.specs[Book.template]
    BY <2>7, <2>8
  <2>10. CASE queued /\ n > 0
    <3> DEFINE loop == <<DeploymentsLoop(n - 1)>> \o rest
    <3>1. Reconcile(loop)
      BY <1>1, <2>5, <2>6, <2>10 DEF DrainDeployments
    <3>2. PICK T : loop \in Seq(T)
      BY <2>2, InnerIs
    <3>3. PICK plan, w :
            /\ plan = Plan(deploy, replicaSets) /\ w = Book.specs[Book.template]
            /\ stack' = Planned(plan, loop)
            /\ Loyal(plan, deploy, replicaSets) /\ Fresh(plan, w, TRUE, Book)
      BY <1>4, <3>1, <3>2, PlanBegins
    <3>4. stack' = Inner(n - 1, plan, rest)
      BY <3>3 DEF Inner
    <3>5. Over(stack', Inner(n - 1, plan, rest))
      <4>1. \E U : stack' \in Seq(U)
        BY <2>2, <3>4, InnerIs
      <4> QED
        BY <3>4, <4>1, OverSame
    <3>6. n - 1 \in Nat /\ w \in Nat /\ u <= w /\ w <= w
      BY <2>7, <2>8, <2>9, <2>10, <3>3
    <3>7. ASSUME Asked > Book.room
          PROVE  Book.exists /\ (HasAgain(p) \/ Heals(plan, w, Book))
      <4>1. CASE HasAgain(p)
        BY <2>7, <3>7, <4>1
      <4>2. CASE rest = base
        <5>1. \A op : Draining(op, stack) => op \in {"plan", "next", "deployments"}
          BY <2>1, <2>2, <2>7, <4>2, InnerIs, OuterIs
        <5>2. \A t \in Owned(replicaSets) : Settled(t)
          BY <2>5, <5>1, AllSettled DEF SideOps
        <5> DEFINE unavailable ==
                     Total([t \in Owned(replicaSets) \ {deploy.template} |->
                              Unavailable(replicaSets[t])])
        <5>3. Asked <= KeptTotal + unavailable
          BY <5>2, ExcessIsUnavailable
        <5>4. deploy \in Deployments /\ replicaSets \in ReadSets
              /\ pods \in [Templates -> Seq(BOOLEAN)]
          BY DEF StoreType, Rolling
        <5>5. unavailable \in Nat
          BY <5>4, SumTypes
        <5>6. /\ KeptTotal \in Nat /\ w <= KeptTotal /\ Asked \in Nat
              /\ Book.room = Ceiling(deploy) /\ Ceiling(deploy) \in Nat
              /\ w = Specs(replicaSets)[deploy.template]
              /\ Asked = Total(Specs(replicaSets))
          <6>1. Book.specs[Book.template] = Specs(replicaSets)[deploy.template]
            BY DEF Book, BookOf
          <6> QED
            BY <3>3, <5>4, <6>1, KeptType, BookIs DEF KeptTotal, Asked, Book
        <5>7. /\ Total(Specs(replicaSets)) > Ceiling(deploy) /\ w <= Ceiling(deploy)
              /\ unavailable + Ceiling(deploy) >= Total(Specs(replicaSets))
          <6> HIDE DEF unavailable
          <6> QED
            BY <1>4, <3>6, <3>7, <5>3, <5>5, <5>6
        <5>8. Book.exists
          BY <2>7, <3>7
        <5>9. Heals(Plan(deploy, replicaSets), Specs(replicaSets)[deploy.template],
                    BookOf(deploy, replicaSets))
          BY <1>4, <5>4, <5>6, <5>7, <5>8, PlanFits DEF Placed, Rolling, Book
        <5> QED
          BY <3>3, <5>6, <5>8, <5>9 DEF Book
      <4> QED
        BY <2>7, <3>7, <4>1, <4>2
    <3>8. Deep(p, base, plan, rest, u, w, n - 1)'
      BY <1>3, <1>4, <2>1, <2>7, <3>3, <3>4, <3>5, <3>6, <3>7 DEF Deep
    <3> QED
      BY <1>4, <3>8 DEF RoomInv, DeepRoom
  <2>11. CASE ~(queued /\ n > 0)
    <3>1. stack' = rest
      BY <1>1, <2>5, <2>6, <2>11 DEF DrainDeployments, Return
    <3>2. Flat(p, base, u)'
      BY <1>3, <1>4, <2>1, <2>7, <2>9, <2>11, <3>1 DEF Flat
    <3> QED
      BY <1>4, <3>2 DEF RoomInv, FlatRoom
  <2> QED
    BY <2>10, <2>11
<1> QED
  BY <1>5, <1>6 DEF RoomInv, FlatRoom, DeepRoom

\* processNext ends.
LEMMA NextRoom ==
  ASSUME StoreType, StoreType', RoomInv, Rolling, Run,
         stack # << >>, Head(stack).op = "next"
  PROVE  RoomInv'
<1>1. AfterNext(Tail(stack))
  BY Zenon DEF Run
<1>2. UNCHANGED store
  BY <1>1 DEF AfterNext, EnqueueDeployment, Return
<1>3. deploy' = deploy /\ replicaSets' = replicaSets /\ pods' = pods
  BY <1>2 DEF store
<1>4. ASSUME NEW p, NEW base, NEW u, Flat(p, base, u) PROVE RoomInv'
  <2>1. stack = base
    BY <1>4, BaseOnTop DEF Flat, SideOps
  <2>2. p = << >> /\ Tail(stack) = << >>
    <3>1. PlanFrame(p).op = "plan"
      BY DEF PlanFrame
    <3> QED
      BY <1>4, <2>1, <3>1, OuterIs DEF Flat
  <2>3. Asked <= Book.room
    <3>1. Asked \in Nat /\ Book.room \in Nat
      BY BookIs DEF Asked, Book, StoreType, Rolling
    <3>2. ~(Asked > Book.room)
      BY <1>4, <2>2, NothingSettles DEF Flat
    <3> QED
      BY <3>1, <3>2
  <2>4. Rolling' /\ Placed(replicaSets') /\ Asked' <= Book'.room
    BY <1>3, <2>3 DEF Book, Asked, Rolling, RoomInv
  <2>5. stack' = << >> \/ stack' = <<DeploymentsLoop(MaxBatch)>> \o << >>
    BY <1>1, <2>2, Nothing DEF AfterNext, EnqueueDeployment, Return
  <2> QED
    <3> DEFINE frame == [op |-> "deliver"]
    <3>1. frame.op \in SideOps
      BY DEF SideOps
    <3>2. Over(<< >>, << >>)
      BY <3>1, FirstFrame
    <3> QED
      BY <2>4, <2>5, <3>2, CallBegins
<1>5. ASSUME NEW p, NEW base, NEW q, NEW rest, NEW u, NEW v, NEW n,
             Deep(p, base, q, rest, u, v, n)
      PROVE  FALSE
  <2>1. stack = Inner(n, q, rest) /\ Over(rest, base)
    BY <1>5, BaseOnTop DEF Deep, SideOps
  <2>2. PICK S : rest \in Seq(S)
    BY <2>1, OverKeeps
  <2> QED
    BY <2>1, <2>2, InnerTop
<1> QED
  BY <1>4, <1>5 DEF RoomInv, FlatRoom, DeepRoom

-------------------------------------------------------------------------------
(* A plan goes on *)

\* A plan whose first step is known
LEMMA Pushed ==
  ASSUME NEW S, NEW later \in Seq(S), NEW step
  PROVE  /\ HasAgain(<<step>> \o later) <=> step.do = "enqueue" \/ HasAgain(later)
         /\ \A d, read : Loyal(<<step>> \o later, d, read) <=>
                           LoyalStep(step, d, read) /\ Loyal(later, d, read)
         /\ \A new : [<<step>> \o later EXCEPT ![1] = new] = <<new>> \o later
         /\ <<step>> \o later # << >> /\ Head(<<step>> \o later) = step
         /\ Tail(<<step>> \o later) = later
         /\ Len(<<step>> \o later) = 1 <=> later = << >>
<1> DEFINE all == <<step>> \o later
           T == S \cup {step}
<1>1. <<step>> \in Seq(T) /\ later \in Seq(T) /\ Len(<<step>>) = 1 /\ <<step>>[1] = step
  OBVIOUS
<1>2. /\ all \in Seq(T) /\ Len(all) = 1 + Len(later) /\ Len(later) \in Nat
      /\ all[1] = step /\ \A k \in 1..Len(later) : all[1 + k] = later[k]
  BY <1>1, ConcatType
<1>3. all # << >> /\ Head(all) = step /\ Tail(all) = later
  BY Stacked
<1>4. DOMAIN all = 1..(1 + Len(later)) /\ DOMAIN later = 1..Len(later)
  BY <1>2
<1>5. Len(all) = 1 <=> later = << >>
  BY <1>2
<1>6. ASSUME NEW new PROVE [all EXCEPT ![1] = new] = <<new>> \o later
  <2> DEFINE U == T \cup {new}
             one == [all EXCEPT ![1] = new]
             two == <<new>> \o later
  <2>1. <<new>> \in Seq(U) /\ later \in Seq(U) /\ Len(<<new>>) = 1 /\ <<new>>[1] = new
    OBVIOUS
  <2>2. /\ two \in Seq(U) /\ Len(two) = 1 + Len(later)
        /\ two[1] = new /\ \A k \in 1..Len(later) : two[1 + k] = later[k]
    BY <2>1, ConcatType
  <2> HIDE DEF two, all, U
  <2>3. DOMAIN two = 1..(1 + Len(later)) /\ two = [k \in DOMAIN two |-> two[k]]
    BY <1>2, <2>2
  <2>4. DOMAIN one = 1..(1 + Len(later)) /\ one = [k \in DOMAIN one |-> one[k]]
    BY <1>4
  <2>5. ASSUME NEW k \in 1..(1 + Len(later)) PROVE one[k] = two[k]
    <3>1. CASE k = 1
      BY <1>4, <2>2, <3>1
    <3>2. CASE k # 1
      <4>1. k - 1 \in 1..Len(later) /\ 1 + (k - 1) = k
        BY <1>2, <3>2
      <4>2. two[k] = later[k - 1] /\ all[k] = later[k - 1]
        BY <1>2, <2>2, <4>1
      <4> QED
        BY <1>4, <3>2, <4>2
    <3> QED
      BY <3>1, <3>2
  <2> HIDE DEF one
  <2> QED
    BY <2>3, <2>4, <2>5 DEF one, two, all
<1> HIDE DEF all
<1>7. \A k \in DOMAIN all : k = 1 \/ (k - 1 \in DOMAIN later /\ all[k] = later[k - 1])
  <2> SUFFICES ASSUME NEW k \in DOMAIN all, k # 1
               PROVE  k - 1 \in DOMAIN later /\ all[k] = later[k - 1]
    OBVIOUS
  <2>1. k - 1 \in 1..Len(later) /\ 1 + (k - 1) = k
    BY <1>2, <1>4
  <2> QED
    BY <1>2, <1>4, <2>1
<1>8. /\ 1 \in DOMAIN all
      /\ \A k \in DOMAIN later : 1 + k \in DOMAIN all /\ all[1 + k] = later[k]
  BY <1>2, <1>4
<1>9. HasAgain(all) <=> step.do = "enqueue" \/ HasAgain(later)
  BY <1>2, <1>7, <1>8 DEF HasAgain
<1>10. ASSUME NEW d, NEW read
       PROVE  Loyal(all, d, read) <=> LoyalStep(step, d, read) /\ Loyal(later, d, read)
  BY <1>2, <1>7, <1>8 DEF Loyal
<1> QED
  BY <1>3, <1>5, <1>6, <1>9, <1>10 DEF all

\* One step of a plan
LEMMA PlanStepIs ==
  ASSUME NEW S, NEW later \in Seq(S), NEW step, NEW rest,
         PlanStep(PlanFrame(<<step>> \o later), rest)
  PROVE  \/ /\ step.do = "sets"
            /\ \E write \in step.writes :
                 \/ /\ step.writes = {write}
                    /\ UpdateReplicaSet(write.template, write.rs, Planned(later, rest))
                 \/ /\ step.writes # {write}
                    /\ UpdateReplicaSet(write.template, write.rs,
                         Planned(<<[step EXCEPT !.writes = @ \ {write}]>> \o later, rest))
         \/ /\ step.do = "create"
            /\ CreateReplicaSet(step.template, step.rs, Planned(later, rest))
         \/ /\ step.do = "deployment"
            /\ UpdateDeployment(step.deploy, Planned(later, rest))
         \/ /\ step.do = "enqueue" /\ EnqueueDeployment(Planned(later, rest))
         \/ /\ step.do = "status"
            /\ \/ UNCHANGED store /\ stack' = Planned(later, rest)
               \/ UpdateDeployment([step.deploy EXCEPT !.status = StatusOf(step.deploy, replicaSets)],
                                   Planned(later, rest))
<1> DEFINE steps == <<step>> \o later
           frame == PlanFrame(steps)
           after == IF Len(frame.steps) = 1 THEN rest
                    ELSE <<[frame EXCEPT !.steps = Tail(@)]>> \o rest
           without(write) ==
             IF step.writes = {write} THEN after
             ELSE <<[frame EXCEPT !.steps[1].writes = @ \ {write}]>> \o rest
<1>1. /\ steps # << >> /\ Head(steps) = step /\ Tail(steps) = later
      /\ Len(steps) = 1 <=> later = << >>
      /\ \A new : [steps EXCEPT ![1] = new] = <<new>> \o later
      /\ steps[1] = step
  <2>1. steps[1] = step
    OBVIOUS
  <2> QED
    BY <2>1, Pushed
<1> HIDE DEF steps
<1>2. frame.steps = steps /\ Head(frame.steps) = step
  BY <1>1 DEF PlanFrame
<1>3. after = Planned(later, rest)
  <2>1. [frame EXCEPT !.steps = Tail(@)] = PlanFrame(later)
    <3>1. [frame EXCEPT !.steps = Tail(@)] = [frame EXCEPT !.steps = Tail(frame.steps)]
      OBVIOUS
    <3>2. Tail(frame.steps) = later
      BY <1>1, <1>2
    <3> HIDE DEF steps
    <3>3. \A some : [frame EXCEPT !.steps = some] = PlanFrame(some)
      BY DEF PlanFrame
    <3> HIDE DEF frame
    <3> QED
      BY <3>1, <3>2, <3>3
  <2>2. /\ Planned(later, rest) = IF later = << >> THEN rest
                                 ELSE <<PlanFrame(later)>> \o rest
        /\ Len(frame.steps) = 1 <=> later = << >>
    BY <1>1, <1>2 DEF Planned, PlanFrame
  <2> HIDE DEF frame
  <2> QED
    BY <2>1, <2>2
<1>4. ASSUME NEW write
      PROVE  step.writes # {write} =>
               without(write) = Planned(<<[step EXCEPT !.writes = @ \ {write}]>> \o later, rest)
  <2> DEFINE new == [step EXCEPT !.writes = @ \ {write}]
             more == <<new>> \o later
  <2>1. [frame EXCEPT !.steps[1].writes = @ \ {write}] = PlanFrame([steps EXCEPT ![1] = new])
    <3>1. \A some : [frame EXCEPT !.steps = some] = PlanFrame(some)
      BY DEF PlanFrame
    <3> HIDE DEF frame
    <3>2. [frame EXCEPT !.steps[1].writes = @ \ {write}] =
            [frame EXCEPT !.steps =
               [frame.steps EXCEPT ![1] =
                  [frame.steps[1] EXCEPT !.writes = frame.steps[1].writes \ {write}]]]
      OBVIOUS
    <3>3. frame.steps[1] = step
      BY <1>1, <1>2
    <3>4. [step EXCEPT !.writes = step.writes \ {write}] = new
      OBVIOUS
    <3> HIDE DEF new
    <3>5. [frame.steps EXCEPT ![1] =
             [frame.steps[1] EXCEPT !.writes = frame.steps[1].writes \ {write}]]
            = [steps EXCEPT ![1] = new]
      BY <1>2, <3>3, <3>4
    <3> QED
      BY <3>1, <3>2, <3>5
  <2>2. [steps EXCEPT ![1] = new] = more
    BY <1>1
  <2> HIDE DEF new, frame
  <2>3. more # << >>
    BY Pushed
  <2> HIDE DEF more
  <2>4. Planned(more, rest) = <<PlanFrame(more)>> \o rest
    BY <2>3 DEF Planned, PlanFrame
  <2> QED
    BY <2>1, <2>2, <2>4 DEF more, new
<1>5. PlanStep(frame, rest)
  BY DEF steps
<1>6. \/ /\ step.do = "sets"
         /\ \E write \in step.writes :
              UpdateReplicaSet(write.template, write.rs, without(write))
      \/ step.do = "create" /\ CreateReplicaSet(step.template, step.rs, after)
      \/ step.do = "deployment" /\ UpdateDeployment(step.deploy, after)
      \/ step.do = "enqueue" /\ EnqueueDeployment(after)
      \/ /\ step.do = "status"
         /\ \/ Return(after)
            \/ UpdateDeployment([step.deploy EXCEPT !.status = StatusOf(step.deploy, replicaSets)],
                                after)
  <2> HIDE DEF frame
  <2> QED
    BY <1>2, <1>5, Zenon DEF PlanStep
<1>7. \A write : step.writes = {write} => without(write) = Planned(later, rest)
  BY <1>3
<1> HIDE DEF frame, after, without
<1> QED
  BY <1>3, <1>4, <1>6, <1>7 DEF Return

\* The first step of a plan, and what follows it
LEMMA FreshHead ==
  ASSUME NEW steps, NEW v, NEW looped, NEW book, steps # << >>,
         Fresh(steps, v, looped, book)
  PROVE  \E step : \E later \in Seq(SetsSteps \cup AgainSteps \cup DeploymentSteps) :
           /\ steps = <<step>> \o later
           /\ \/ step \in Quiets(v, book) /\ later \in Seq(Quiets(v, book))
              \/ /\ Scales(step, looped, book) /\ later \in Seq(Quiets(v, book))
                 /\ (\E write \in step.writes : write.rs.spec > 0) => HasAgain(later)
              \/ Raises(step, v, book) /\ Settling(later, v, looped, book)
              \/ Begins(step, book) /\ later \in Seq(Quiets(v, book))
<1> DEFINE quiet == Quiets(v, book)
           S == SetsSteps \cup AgainSteps \cup DeploymentSteps
<1>1. Seq(quiet) \subseteq Seq(S)
  <2>1. quiet \subseteq S
    BY DEF Quiets
  <2> HIDE DEF quiet, S
  <2> QED
    BY <2>1, StepsIn
<1> HIDE DEF quiet, S
<1>2. CASE steps \in Seq(quiet)
  <2>1. Head(steps) \in quiet /\ Tail(steps) \in Seq(quiet) /\ steps = <<Head(steps)>> \o Tail(steps)
    BY <1>2, Unstacked
  <2> QED
    BY <1>1, <2>1 DEF quiet, S
<1>3. ASSUME NEW later \in Seq(quiet), NEW step, steps = <<step>> \o later,
             \/ /\ Scales(step, looped, book)
                /\ (\E write \in step.writes : write.rs.spec > 0) => HasAgain(later)
             \/ Begins(step, book)
      PROVE  \E s : \E l \in Seq(S) :
               /\ steps = <<s>> \o l
               /\ \/ /\ Scales(s, looped, book) /\ l \in Seq(quiet)
                     /\ (\E write \in s.writes : write.rs.spec > 0) => HasAgain(l)
                  \/ Begins(s, book) /\ l \in Seq(quiet)
  BY <1>1, <1>3, Zenon
<1>4. ASSUME NEW later, NEW step, steps = <<step>> \o later,
             Raises(step, v, book), Settling(later, v, looped, book)
      PROVE  later \in Seq(S)
  BY <1>4, SettlingSteps DEF S
<1> QED
  <2>1. CASE Settling(steps, v, looped, book)
    <3>1. PICK later \in Seq(quiet) :
            \/ steps = later
            \/ \E step : /\ steps = <<step>> \o later
                         /\ Scales(step, looped, book)
                         /\ (\E write \in step.writes : write.rs.spec > 0) => HasAgain(later)
      BY <2>1 DEF Settling, quiet
    <3>2. CASE steps = later
      BY <1>2, <3>2
    <3>3. CASE \E step : /\ steps = <<step>> \o later
                         /\ Scales(step, looped, book)
                         /\ (\E write \in step.writes : write.rs.spec > 0) => HasAgain(later)
      BY <1>1, <3>3, Zenon DEF quiet, S
    <3> QED
      BY <3>1, <3>2, <3>3
  <2>2. CASE ~Settling(steps, v, looped, book)
    <3>1. PICK step, later :
            /\ steps = <<step>> \o later
            /\ \/ Raises(step, v, book) /\ Settling(later, v, looped, book)
               \/ Begins(step, book) /\ later \in Seq(quiet)
      BY <2>2 DEF Fresh, quiet
    <3>2. later \in Seq(S)
      BY <1>1, <1>4, <3>1
    <3> QED
      BY <3>1, <3>2, Zenon DEF quiet, S
  <2> QED
    BY <2>1, <2>2

\* A plan that heals begins with scaling old ReplicaSets.
LEMMA HealsHead ==
  ASSUME NEW S, NEW later \in Seq(S), NEW step, NEW v, NEW book,
         Heals(<<step>> \o later, v, book)
  PROVE  Scales(step, TRUE, book) /\ Frees(step, book) /\ later \in Seq(Quiets(v, book))
<1>1. PICK first : \E l \in Seq(Quiets(v, book)) :
        /\ <<step>> \o later = <<first>> \o l
        /\ Scales(first, TRUE, book) /\ Frees(first, book)
  BY DEF Heals
<1>2. PICK l \in Seq(Quiets(v, book)) :
        /\ <<step>> \o later = <<first>> \o l
        /\ Scales(first, TRUE, book) /\ Frees(first, book)
  BY <1>1
<1>3. first = step /\ l = later
  <2>1. Head(<<step>> \o later) = step /\ Tail(<<step>> \o later) = later
    BY Stacked
  <2>2. Head(<<first>> \o l) = first /\ Tail(<<first>> \o l) = l
    BY Stacked
  <2> QED
    BY <1>2, <2>1, <2>2
<1> QED
  BY <1>2, <1>3

\* One of the writes of a step is made.
LEMMA ReachesOn ==
  ASSUME NEW writes, NEW specs, NEW f, Reaches(writes, specs, f),
         NEW write \in writes, specs \in [Templates -> Nat]
  PROVE  LET specs2 == [specs EXCEPT ![write.template] = write.rs.spec]
         IN  /\ Reaches(writes \ {write}, specs2, f)
             /\ (\A t \in Templates : f[t] <= specs[t])
                  => \A t \in Templates : f[t] <= specs2[t]
             /\ writes = {write} => f = specs2
<1> DEFINE t0 == write.template
           specs2 == [specs EXCEPT ![t0] = write.rs.spec]
<1>1. f \in [Templates -> Nat] /\ f[t0] = write.rs.spec
  BY DEF Reaches
<1>2. \A t \in Templates : specs2[t] = IF t = t0 THEN f[t] ELSE specs[t]
  BY <1>1
<1>3. \A t \in Templates : (\A w \in writes \ {write} : w.template # t) => f[t] = specs2[t]
  <2> SUFFICES ASSUME NEW t \in Templates, \A w \in writes \ {write} : w.template # t, t # t0
               PROVE  f[t] = specs[t]
    BY <1>2
  <2>1. \A w \in writes : w.template # t
    OBVIOUS
  <2> QED
    BY <2>1 DEF Reaches
<1>4. Reaches(writes \ {write}, specs2, f)
  <2> HIDE DEF specs2
  <2> QED
    BY <1>1, <1>3 DEF Reaches
<1>5. ASSUME \A t \in Templates : f[t] <= specs[t]
      PROVE  \A t \in Templates : f[t] <= specs2[t]
  BY <1>1, <1>2, <1>5
<1>6. ASSUME writes = {write} PROVE f = specs2
  <2>1. \A t \in Templates : f[t] = specs2[t]
    BY <1>3, <1>6
  <2>2. DOMAIN specs2 = Templates /\ specs2 = [t \in Templates |-> specs2[t]]
    OBVIOUS
  <2> HIDE DEF specs2
  <2> QED
    BY <1>1, <2>1, <2>2
<1> QED
  BY <1>4, <1>5, <1>6

\* Plans are judged by less than the whole book.
LEMMA QuietsSame ==
  ASSUME NEW v, NEW book, NEW book2, book2.template = book.template
  PROVE  Quiets(v, book2) = Quiets(v, book)
BY DEF Quiets

\* What is asked of the current template does not matter to scaling the others.
LEMMA SettlingRaised ==
  ASSUME NEW steps, NEW v, NEW looped, NEW book, NEW book2, NEW n \in Nat,
         Settling(steps, v, looped, book),
         book.specs \in [Templates -> Nat], book.template \in Templates,
         book2.specs = [book.specs EXCEPT ![book.template] = n],
         book2.template = book.template, book.exists => book2.exists
  PROVE  Settling(steps, v, looped, book2)
<1> DEFINE t0 == book.template
<1>1. ASSUME NEW step, Scales(step, looped, book) PROVE Scales(step, looped, book2)
  <2>1. ASSUME looped
        PROVE  \E f : /\ Reaches(step.writes, book2.specs, f)
                      /\ \A t \in Templates : f[t] <= book2.specs[t]
    <3>1. PICK f : /\ Reaches(step.writes, book.specs, f)
                   /\ \A t \in Templates : f[t] <= book.specs[t]
      BY <1>1, <2>1 DEF Scales
    <3> DEFINE g == [f EXCEPT ![t0] = n]
    <3>2. f \in [Templates -> Nat] /\ \A write \in step.writes : write.template # t0
      BY <1>1, <3>1 DEF Scales, Reaches
    <3>3. g \in [Templates -> Nat] /\ \A t \in Templates : g[t] = IF t = t0 THEN n ELSE f[t]
      BY <3>2
    <3>4. \A t \in Templates : book2.specs[t] = IF t = t0 THEN n ELSE book.specs[t]
      OBVIOUS
    <3>5. \A write \in step.writes : f[write.template] = write.rs.spec
                                     /\ write.template \in Templates
      BY <1>1, <3>1 DEF Reaches, Scales, SetsSteps
    <3> HIDE DEF g
    <3>6. Reaches(step.writes, book2.specs, g)
      BY <3>1, <3>2, <3>3, <3>4, <3>5 DEF Reaches
    <3>7. \A t \in Templates : g[t] <= book2.specs[t]
      BY <3>1, <3>2, <3>3, <3>4
    <3> QED
      BY <3>6, <3>7
  <2> QED
    BY <1>1, <2>1 DEF Scales
<1>2. Quiets(v, book2) = Quiets(v, book)
  BY QuietsSame
<1> QED
  BY <1>1, <1>2 DEF Settling

\* Scaling goes on after one of the writes.
LEMMA ScalesOn ==
  ASSUME NEW step, NEW looped, NEW book, NEW book2, Scales(step, looped, book),
         NEW write \in step.writes, step.writes # {write},
         book.specs \in [Templates -> Nat],
         book2.specs = [book.specs EXCEPT ![write.template] = write.rs.spec],
         book2.template = book.template, book2.exists, book2.room = book.room
  PROVE  LET less == [step EXCEPT !.writes = @ \ {write}]
         IN  /\ Scales(less, looped, book2)
             /\ less.writes = step.writes \ {write} /\ less.do = "sets"
             /\ Frees(step, book) => Frees(less, book2)
<1> DEFINE less == [step EXCEPT !.writes = @ \ {write}]
<1>1. step \in SetsSteps
  BY DEF Scales
<1>2. less \in SetsSteps /\ less.writes = step.writes \ {write} /\ less.do = "sets"
  BY <1>1 DEF SetsSteps
<1> HIDE DEF less
<1>3. ASSUME NEW f, Reaches(step.writes, book.specs, f)
      PROVE  /\ Reaches(step.writes \ {write}, book2.specs, f)
             /\ (\A t \in Templates : f[t] <= book.specs[t])
                  => \A t \in Templates : f[t] <= book2.specs[t]
  <2> DEFINE writes == step.writes
             specs == book.specs
             specs2 == [specs EXCEPT ![write.template] = write.rs.spec]
  <2>1. /\ Reaches(writes, specs, f) /\ write \in writes /\ specs \in [Templates -> Nat]
        /\ book2.specs = specs2
    BY <1>3
  <2> HIDE DEF writes, specs
  <2>2. /\ Reaches(writes \ {write}, specs2, f)
        /\ (\A t \in Templates : f[t] <= specs[t])
             => \A t \in Templates : f[t] <= specs2[t]
    BY <2>1, ReachesOn
  <2> HIDE DEF specs2
  <2> QED
    BY <2>1, <2>2 DEF writes, specs
<1>4. ASSUME Frees(step, book) PROVE Frees(less, book2)
  <2>1. PICK f : Reaches(step.writes, book.specs, f) /\ Total(f) <= book.room
    BY <1>4 DEF Frees
  <2>2. Reaches(less.writes, book2.specs, f)
    BY <1>2, <1>3, <2>1
  <2> QED
    BY <2>1, <2>2 DEF Frees
<1>6. ASSUME looped
      PROVE  \E f : /\ Reaches(less.writes, book2.specs, f)
                    /\ \A t \in Templates : f[t] <= book2.specs[t]
  <2>1. PICK f : /\ Reaches(step.writes, book.specs, f)
                 /\ \A t \in Templates : f[t] <= book.specs[t]
    BY <1>6 DEF Scales
  <2>2. /\ Reaches(less.writes, book2.specs, f)
        /\ \A t \in Templates : f[t] <= book2.specs[t]
    BY <1>2, <1>3, <2>1
  <2> QED
    BY <2>2
<1>5. Scales(less, looped, book2)
  BY <1>2, <1>6 DEF Scales
<1> QED
  BY <1>2, <1>4, <1>5 DEF less

-------------------------------------------------------------------------------
(* What the steps of a plan do to the store *)

\* A plan scales a ReplicaSet: down, or an old one that has its pods, or the
\* current one as far as there is room.
LEMMA SetWrites ==
  ASSUME StoreType, StoreType', Rolling, Placed(replicaSets), KeptTotal <= Book.room,
         NEW t \in Owned(replicaSets), NEW rs \in ReplicaSets,
         rs.at = replicaSets[t].at, NEW after, UpdateReplicaSet(t, rs, after),
         \/ rs.spec <= Book.specs[t]
         \/ t # Book.template /\ Settled(t)
         \/ t = Book.template /\ Total([Book.specs EXCEPT ![t] = rs.spec]) <= Book.room
  PROVE  /\ Keeps /\ deploy' = deploy
         /\ Book'.specs = [Book.specs EXCEPT ![t] = rs.spec]
         /\ Book'.template = Book.template /\ Book'.room = Book.room
         /\ Book'.exists <=> Book.exists
         /\ Asked' = Total([Book.specs EXCEPT ![t] = rs.spec])
         /\ stack' = <<Delivery(Event("ReplicaSetUpdated", t), 1)>> \o after
<1> DEFINE specs == Specs(replicaSets)
           new == Specs(replicaSets')
           kept == KeptOf(deploy, replicaSets, pods)
           left == KeptOf(deploy, replicaSets', pods)
<1>1. /\ deploy \in Deployments /\ replicaSets \in ReadSets /\ replicaSets' \in ReadSets
      /\ pods \in [Templates -> Seq(BOOLEAN)] /\ t \in Templates /\ rs # None
      /\ replicaSets[t] # None /\ deploy.template \in Templates
  BY NoneAssumption DEF StoreType, Rolling, Owned, Deployments
<1>2. /\ replicaSets' = [replicaSets EXCEPT ![t] = rs] /\ deploy' = deploy /\ pods' = pods
      /\ stack' = <<Delivery(Event("ReplicaSetUpdated", t), 1)>> \o after
  BY <1>1 DEF UpdateReplicaSet, Deliver
<1>3. \A u \in Templates : replicaSets'[u] = IF u = t THEN rs ELSE replicaSets[u]
  BY <1>1, <1>2 DEF ReadSets
<1>4. Owned(replicaSets') = Owned(replicaSets)
  BY <1>1, <1>3 DEF Owned
<1>5. \A u \in Templates : replicaSets[u] # None =>
        replicaSets'[u] # None /\ replicaSets'[u].at = replicaSets[u].at
  BY <1>1, <1>3
<1>6. Placed(replicaSets')
  <2>1. \A u \in Owned(replicaSets) : replicaSets'[u].at = replicaSets[u].at
    BY <1>5 DEF Owned
  <2> QED
    BY <1>4, <2>1 DEF Placed, Ranked
<1>7. rs.spec \in Nat /\ specs \in [Templates -> Nat] /\ new \in [Templates -> Nat]
  BY <1>1, SpecsType DEF ReplicaSets
<1>8. new = [specs EXCEPT ![t] = rs.spec]
  <2>1. \A u \in Templates : new[u] = IF u = t THEN rs.spec ELSE specs[u]
    BY <1>1, <1>3 DEF Specs
  <2> HIDE DEF new, specs
  <2> QED
    BY <1>7, <2>1
<1>9. /\ Book.specs = specs /\ Book'.specs = new /\ Book'.template = Book.template
      /\ Book.template = deploy.template
      /\ Book'.room = Book.room /\ Book.room = Ceiling(deploy)
      /\ Book'.exists <=> Book.exists
  <2>1. replicaSets'[deploy.template] # None <=> replicaSets[deploy.template] # None
    BY <1>1, <1>3
  <2> QED
    BY <1>2, <2>1 DEF Book, BookOf
<1>10. Asked' = Total(new)
  BY DEF Asked
<1>11. /\ KeptTotal = Total(kept) /\ KeptTotal' = Total(left)
       /\ kept \in [Templates -> Nat] /\ left \in [Templates -> Nat]
       /\ Total(kept) \in Nat /\ Total(left) \in Nat /\ Total(left) <= Total(new)
       /\ Ceiling(deploy) \in Nat /\ Total(new) \in Nat
  BY <1>1, <1>2, KeptType, LimitTypes, SpecsType DEF KeptTotal
<1>12. ASSUME \A u \in Templates : left[u] <= kept[u] PROVE Total(left) <= Total(kept)
  <2> HIDE DEF left, kept
  <2> QED
    BY <1>11, <1>12, TemplatesAssumption, TotalGrows
<1>13. \A u \in Templates \ {t} : left[u] = kept[u]
  <2>1. \A u \in Templates \ {t} : new[u] = specs[u]
    BY <1>7, <1>8
  <2> QED
    BY <2>1 DEF KeptOf
<1>14. Total(left) <= Ceiling(deploy)
  <2> DEFINE ready == ReadyOf(pods[t])
  <2>1. /\ kept[t] = IF t = deploy.template THEN specs[t] ELSE AtMost(specs[t], ready)
        /\ left[t] = IF t = deploy.template THEN new[t] ELSE AtMost(new[t], ready)
    BY <1>1 DEF KeptOf
  <2>2. new[t] = rs.spec /\ specs[t] \in Nat /\ ready \in Nat /\ ready <= Len(pods[t])
    <3>1. pods[t] \in Seq(BOOLEAN)
      BY <1>1
    <3> QED
      BY <1>1, <1>7, <1>8, <3>1, ReadyCounts
  <2>3. /\ AtMost(specs[t], ready) = IF specs[t] <= ready THEN specs[t] ELSE ready
        /\ AtMost(new[t], ready) = IF new[t] <= ready THEN new[t] ELSE ready
    BY <1>7, <2>2, AtMostIs
  <2> HIDE DEF ready, new, specs, kept, left
  <2>4. CASE rs.spec <= specs[t]
    <3>1. left[t] <= kept[t]
      BY <1>7, <2>1, <2>2, <2>3, <2>4
    <3>2. \A u \in Templates : left[u] <= kept[u]
      BY <1>11, <1>13, <3>1
    <3> QED
      BY <1>9, <1>11, <1>12, <3>2
  <2>5. CASE t # deploy.template /\ Settled(t)
    <3>1. Len(pods[t]) = specs[t]
      BY <1>1, <2>5, SpecsType DEF Settled, specs
    <3>2. left[t] <= kept[t]
      BY <1>7, <2>1, <2>2, <2>3, <2>5, <3>1
    <3>3. \A u \in Templates : left[u] <= kept[u]
      BY <1>11, <1>13, <3>2
    <3> QED
      BY <1>9, <1>11, <1>12, <3>3
  <2>6. CASE Total(new) <= Ceiling(deploy)
    BY <1>11, <2>6
  <2>7. \/ rs.spec <= specs[t]
        \/ t # deploy.template /\ Settled(t)
        \/ Total(new) <= Ceiling(deploy)
    BY <1>8, <1>9
  <2> QED
    BY <2>4, <2>5, <2>6, <2>7
<1>15. Keeps
  <2>1. Same(deploy', deploy) /\ deploy' # None /\ Ceiling(deploy') = Ceiling(deploy)
    BY <1>2 DEF Same, Rolling
  <2> QED
    BY <1>5, <1>6, <1>11, <1>14, <2>1 DEF Keeps
<1> HIDE DEF new, specs
<1> QED
  BY <1>2, <1>8, <1>9, <1>10, <1>15

\* A plan leaves the ReplicaSets alone.
LEMMA SetsKept ==
  ASSUME StoreType, StoreType', Rolling, Placed(replicaSets), KeptTotal <= Book.room,
         UNCHANGED <<replicaSets, pods>>, deploy' # None, Same(deploy', deploy)
  PROVE  Keeps /\ Book' = Book /\ Asked' = Asked
<1>1. deploy'.template = deploy.template /\ Ceiling(deploy') = Ceiling(deploy)
  BY SameLimits DEF Same
<1>2. Book' = Book /\ Asked' = Asked /\ KeptTotal' = KeptTotal
  BY <1>1 DEF Book, BookOf, Asked, KeptTotal, KeptOf
<1>3. Book.room = Ceiling(deploy)
  BY DEF Book, BookOf
<1> QED
  BY <1>1, <1>2, <1>3 DEF Keeps

\* A plan creates the current ReplicaSet.
LEMMA SetBegins ==
  ASSUME StoreType, StoreType', Rolling, Placed(replicaSets), ~Book.exists,
         NEW rs \in ReplicaSets, rs.at = Cardinality(Owned(replicaSets)) + 1,
         NEW after, CreateReplicaSet(deploy.template, rs, after),
         Total([Book.specs EXCEPT ![Book.template] = rs.spec]) <= Book.room
  PROVE  /\ Keeps /\ deploy' = deploy
         /\ Book'.specs = [Book.specs EXCEPT ![Book.template] = rs.spec]
         /\ Book'.template = Book.template /\ Book'.room = Book.room /\ Book'.exists
         /\ Asked' <= Book'.room
         /\ stack' = <<Delivery(Event("ReplicaSetCreated", deploy.template), 1)>> \o after
<1> DEFINE t == deploy.template
           specs == Specs(replicaSets)
           new == Specs(replicaSets')
           own == Owned(replicaSets)
<1>1. /\ deploy \in Deployments /\ replicaSets \in ReadSets /\ replicaSets' \in ReadSets
      /\ pods \in [Templates -> Seq(BOOLEAN)] /\ t \in Templates /\ rs # None
  BY NoneAssumption DEF StoreType, Rolling, Deployments
<1>2. replicaSets[t] = None
  BY DEF Book, BookOf
<1>3. /\ replicaSets' = [replicaSets EXCEPT ![t] = rs] /\ deploy' = deploy /\ pods' = pods
      /\ stack' = <<Delivery(Event("ReplicaSetCreated", t), 1)>> \o after
  BY DEF CreateReplicaSet, Deliver
<1>4. \A u \in Templates : replicaSets'[u] = IF u = t THEN rs ELSE replicaSets[u]
  BY <1>1, <1>3 DEF ReadSets
<1>5. Owned(replicaSets') = own \cup {t} /\ t \notin own
  BY <1>1, <1>2, <1>4 DEF Owned
<1>6. /\ Cardinality(Owned(replicaSets')) = Cardinality(own) + 1
      /\ Cardinality(own) \in Nat
  BY <1>1, <1>5, OwnedTypes, FS_AddElement
<1>7. Placed(replicaSets')
  <2>1. \A u \in own : u \in Templates /\ u # t /\ replicaSets'[u] = replicaSets[u]
                       /\ replicaSets[u].at \in Nat
    BY <1>1, <1>4, <1>5, OwnedTypes DEF ReplicaSets
  <2>2. replicaSets'[t].at = Cardinality(own) + 1
    BY <1>1, <1>4
  <2>3. \A u \in own : replicaSets[u].at <= Cardinality(own)
    BY DEF Placed
  <2> HIDE DEF own, t
  <2>4. \A u \in own \cup {t} : replicaSets'[u].at <= Cardinality(own) + 1
    BY <1>6, <2>1, <2>2, <2>3
  <2>5. \A u, w \in own \cup {t} : u # w => replicaSets'[u].at # replicaSets'[w].at
    <3>1. \A u, w \in own : u # w => replicaSets[u].at # replicaSets[w].at
      BY DEF Placed, Ranked, own
    <3>2. \A u \in own : replicaSets'[u].at # replicaSets'[t].at
      BY <1>6, <2>1, <2>2, <2>3
    <3> QED
      BY <2>1, <3>1, <3>2
  <2> QED
    BY <1>5, <1>6, <2>4, <2>5 DEF Placed, Ranked
<1>8. rs.spec \in Nat /\ specs \in [Templates -> Nat] /\ new \in [Templates -> Nat]
  BY <1>1, SpecsType DEF ReplicaSets
<1>9. new = [specs EXCEPT ![t] = rs.spec]
  <2>1. \A u \in Templates : new[u] = IF u = t THEN rs.spec ELSE specs[u]
    BY <1>1, <1>4 DEF Specs
  <2> HIDE DEF new, specs
  <2> QED
    BY <1>8, <2>1
<1>10. /\ Book.specs = specs /\ Book'.specs = new /\ Book'.template = Book.template
       /\ Book.template = t /\ Book'.exists
       /\ Book'.room = Book.room /\ Book.room = Ceiling(deploy)
  <2>1. replicaSets'[t] # None
    BY <1>1, <1>4
  <2> QED
    BY <1>3, <2>1 DEF Book, BookOf
<1>11. Asked' = Total(new)
  BY DEF Asked
<1>12. Asked' <= Book'.room
  BY <1>9, <1>10, <1>11
<1>13. KeptTotal' <= Ceiling(deploy')
  <2>1. KeptTotal' \in Nat /\ KeptTotal' <= Total(new) /\ Total(new) \in Nat
        /\ Ceiling(deploy) \in Nat
    BY <1>1, <1>3, KeptType, LimitTypes, SpecsType DEF KeptTotal
  <2> QED
    BY <1>3, <1>10, <1>11, <1>12, <2>1
<1>14. Keeps
  <2>1. Same(deploy', deploy) /\ deploy' # None
    BY <1>3 DEF Same, Rolling
  <2>2. \A u \in Templates : replicaSets[u] # None =>
          replicaSets'[u] # None /\ replicaSets'[u].at = replicaSets[u].at
    BY <1>2, <1>4
  <2> QED
    BY <1>7, <1>13, <2>1, <2>2 DEF Keeps
<1> HIDE DEF new, specs
<1> QED
  BY <1>3, <1>9, <1>10, <1>12, <1>14

-------------------------------------------------------------------------------
(* How a plan goes on *)

\* A plan at the top of the stack; outside the loop every ReplicaSet is settled.
Going(steps, w, looped) ==
  /\ Rolling /\ Placed(replicaSets) /\ KeptTotal <= Book.room
  /\ w \in Nat /\ w <= Book.specs[Book.template]
  /\ Fresh(steps, w, looped, Book) /\ Loyal(steps, deploy, replicaSets)
  /\ Asked > Book.room => Book.exists /\ (looped \/ HasAgain(steps))
  /\ ~looped => \A t \in Owned(replicaSets) : Settled(t)

\* It makes a step, and left is what is left of it.
Proceeds(steps, left, w, looped, rest) ==
  /\ Keeps
  /\ Settling(left, w, looped, Book') /\ Loyal(left, deploy', replicaSets')
  /\ w <= Book'.specs[Book'.template]
  /\ \/ stack' = Planned(left, rest)
     \/ \E frame : frame.op \in SideOps /\ stack' = <<frame>> \o Planned(left, rest)
     \/ EnqueueDeployment(Planned(left, rest))
  /\ Asked' > Book'.room =>
       /\ Book'.exists
       /\ looped => Asked > Book.room /\ (Heals(steps, w, Book) => Heals(left, w, Book'))
       /\ ~looped => HasAgain(left) \/ EnqueueDeployment(Planned(left, rest))

\* The book of the Deployment there is
LEMMA BookTypes ==
  ASSUME StoreType, Rolling
  PROVE  /\ Asked \in Nat /\ Book.room \in Nat /\ Asked = Total(Book.specs)
         /\ Book.specs \in [Templates -> Nat] /\ Book.template \in Templates
         /\ DOMAIN Book.specs = Templates /\ IsFiniteSet(DOMAIN Book.specs)
         /\ Book.specs[Book.template] \in Nat
         /\ Book.template = deploy.template
         /\ deploy \in Deployments /\ deploy # None
<1>1. deploy \in Deployments /\ replicaSets \in ReadSets
  BY DEF StoreType, Rolling
<1>2. Book.specs = Specs(replicaSets)
  BY DEF Book, BookOf
<1> QED
  BY <1>1, <1>2, BookIs, TemplatesAssumption DEF Asked, Book, Rolling

\* Only steps that do not change the specifications are left.
LEMMA QuietLeft ==
  ASSUME StoreType, Rolling, Keeps, NEW w, NEW looped, NEW step,
         NEW later \in Seq(Quiets(w, Book)),
         Loyal(<<step>> \o later, deploy, replicaSets)
  PROVE  /\ Settling(later, w, looped, Book') /\ Loyal(later, deploy', replicaSets')
         /\ LoyalStep(step, deploy, replicaSets)
         /\ HasAgain(<<step>> \o later) <=> step.do = "enqueue" \/ HasAgain(later)
<1>1. deploy \in Deployments
  BY DEF StoreType, Rolling
<1>2. Quiets(w, Book') = Quiets(w, Book)
  BY <1>1, KeepsPlans, QuietsSame
<1>3. Settling(later, w, looped, Book') /\ Settling(later, w, looped, Book)
  BY <1>2 DEF Settling
<1>4. Loyal(later, deploy, replicaSets) /\ LoyalStep(step, deploy, replicaSets)
      /\ (HasAgain(<<step>> \o later) <=> step.do = "enqueue" \/ HasAgain(later))
  BY Pushed
<1>5. Loyal(later, deploy', replicaSets')
  BY <1>1, <1>3, <1>4, KeepsPlans
<1> QED
  BY <1>3, <1>4, <1>5

\* A step that leaves the ReplicaSets alone
LEMMA StillProceeds ==
  ASSUME StoreType, StoreType', NEW w, NEW looped, NEW rest, NEW step,
         NEW later \in Seq(Quiets(w, Book)), Going(<<step>> \o later, w, looped),
         step \in AgainSteps \cup DeploymentSteps,
         PlanStep(PlanFrame(<<step>> \o later), rest)
  PROVE  Proceeds(<<step>> \o later, later, w, looped, rest)
<1> DEFINE steps == <<step>> \o later
           after == Planned(later, rest)
<1>1. Rolling /\ Placed(replicaSets) /\ KeptTotal <= Book.room
      /\ Loyal(steps, deploy, replicaSets)
  BY DEF Going
<1>2. LoyalStep(step, deploy, replicaSets)
  BY <1>1, Pushed
<1>3. step.do \in {"deployment", "status", "enqueue"}
      /\ (step.do # "enqueue" => step.deploy \in Deployments)
  BY DEF AgainSteps, DeploymentSteps
<1>4. \/ /\ step.do = "deployment" /\ UpdateDeployment(step.deploy, after)
      \/ /\ step.do = "enqueue" /\ EnqueueDeployment(after)
      \/ /\ step.do = "status"
         /\ \/ UNCHANGED store /\ stack' = after
            \/ UpdateDeployment([step.deploy EXCEPT !.status = StatusOf(step.deploy, replicaSets)],
                                after)
  BY <1>3, PlanStepIs, Zenon
<1>5. ASSUME NEW d, d # None, Same(d, deploy), UpdateDeployment(d, after)
      PROVE  /\ UNCHANGED <<replicaSets, pods>> /\ deploy' # None /\ Same(deploy', deploy)
             /\ \E frame : frame.op \in SideOps /\ stack' = <<frame>> \o after
  <2> DEFINE frame == Delivery(Event("DeploymentUpdated", None), 1)
  <2>1. frame.op \in SideOps
    BY DEF Delivery, SideOps
  <2>2. /\ UNCHANGED <<replicaSets, pods>> /\ deploy' = d
        /\ stack' = <<frame>> \o after
    BY <1>1, <1>5 DEF Rolling, UpdateDeployment, Deliver
  <2> HIDE DEF frame, after
  <2> QED
    BY <1>5, <2>1, <2>2
<1> HIDE DEF after
<1>6. /\ UNCHANGED <<replicaSets, pods>> /\ deploy' # None /\ Same(deploy', deploy)
      /\ \/ stack' = after
         \/ \E frame : frame.op \in SideOps /\ stack' = <<frame>> \o after
         \/ step.do = "enqueue" /\ EnqueueDeployment(after)
  <2>1. CASE step.do = "deployment"
    <3>1. step.deploy # None /\ Same(step.deploy, deploy)
      BY <1>2, <1>3, <2>1, NoneAssumption DEF LoyalStep
    <3> QED
      BY <1>4, <1>5, <2>1, <3>1
  <2>2. CASE step.do = "enqueue"
    BY <1>1, <1>4, <2>2 DEF EnqueueDeployment, Return, store, Rolling, Same
  <2>3. CASE step.do = "status"
    <3> DEFINE d == [step.deploy EXCEPT !.status = StatusOf(step.deploy, replicaSets)]
    <3>1. step.deploy \in Deployments /\ Same(step.deploy, deploy)
      BY <1>2, <1>3, <2>3 DEF LoyalStep
    <3>2. d \in Deployments /\ Same(d, deploy)
      <4>1. /\ d.template = step.deploy.template /\ d.replicas = step.deploy.replicas
            /\ d.strategy = step.deploy.strategy
        BY <3>1 DEF Deployments
      <4>2. replicaSets \in ReadSets
        BY DEF StoreType
      <4>3. StatusOf(step.deploy, replicaSets) \in Statuses
        BY <3>1, <4>2, StatusOfType
      <4> QED
        BY <3>1, <4>1, <4>3 DEF Same, Deployments
    <3>3. d # None
      BY <3>2, NoneAssumption
    <3>4. (UNCHANGED store /\ stack' = after) \/ UpdateDeployment(d, after)
      BY <1>4, <2>3
    <3> HIDE DEF d
    <3>5. CASE UNCHANGED store /\ stack' = after
      BY <1>1, <3>5 DEF store, Rolling, Same
    <3>6. CASE UpdateDeployment(d, after)
      BY <1>5, <3>2, <3>3, <3>6
    <3> QED
      BY <3>4, <3>5, <3>6
  <2> QED
    BY <1>3, <2>1, <2>2, <2>3
<1>7. Keeps /\ Book' = Book /\ Asked' = Asked
  BY <1>1, <1>6, SetsKept
<1>8. /\ Settling(later, w, looped, Book') /\ Loyal(later, deploy', replicaSets')
      /\ HasAgain(steps) <=> step.do = "enqueue" \/ HasAgain(later)
  BY <1>1, <1>7, QuietLeft
<1>9. ~Heals(steps, w, Book)
  <2>1. Scales(step, TRUE, Book) => step.do = "sets"
    BY DEF Scales, SetsSteps
  <2> QED
    BY <1>3, <2>1, HealsHead
<1> HIDE DEF steps
<1>10. Asked' > Book'.room =>
         /\ Book'.exists
         /\ looped => Asked > Book.room /\ (Heals(steps, w, Book) => Heals(later, w, Book'))
         /\ ~looped => HasAgain(later) \/ EnqueueDeployment(after)
  BY <1>3, <1>4, <1>7, <1>8, <1>9 DEF Going, steps
<1>11. w <= Book'.specs[Book'.template]
  BY <1>7 DEF Going
<1> QED
  BY <1>6, <1>7, <1>8, <1>10, <1>11 DEF Proceeds, after, steps

\* A step that writes the current ReplicaSet
LEMMA WriteProceeds ==
  ASSUME StoreType, StoreType', NEW w, NEW looped, NEW rest, NEW step, NEW S,
         NEW later \in Seq(S), Going(<<step>> \o later, w, looped),
         step \in SetsSteps, NEW write, step.writes = {write},
         write.template = Book.template,
         \/ write.rs.spec = w /\ later \in Seq(Quiets(w, Book))
         \/ Raises(step, w, Book) /\ Settling(later, w, looped, Book),
         PlanStep(PlanFrame(<<step>> \o later), rest)
  PROVE  Proceeds(<<step>> \o later, later, w, looped, rest)
<1> DEFINE steps == <<step>> \o later
           after == Planned(later, rest)
           t == write.template
           rs == write.rs
<1>1. /\ Rolling /\ Placed(replicaSets) /\ KeptTotal <= Book.room
      /\ Loyal(steps, deploy, replicaSets) /\ w \in Nat /\ w <= Book.specs[Book.template]
  BY DEF Going
<1>2. step.do = "sets" /\ t \in Templates /\ rs \in ReplicaSets /\ rs.spec \in Nat
  BY DEF SetsSteps, ReplicaSets
<1>3. LoyalStep(step, deploy, replicaSets) /\ Loyal(later, deploy, replicaSets)
      /\ (HasAgain(steps) <=> step.do = "enqueue" \/ HasAgain(later))
  BY <1>1, Pushed
<1>4. t \in Owned(replicaSets) /\ rs.at = replicaSets[t].at
  BY <1>2, <1>3 DEF LoyalStep
<1>5. UpdateReplicaSet(t, rs, after)
  BY <1>2, PlanStepIs, Zenon
<1>6. /\ Asked \in Nat /\ Book.room \in Nat /\ Asked = Total(Book.specs)
      /\ Book.specs \in [Templates -> Nat] /\ Book.template \in Templates
      /\ DOMAIN Book.specs = Templates /\ IsFiniteSet(DOMAIN Book.specs)
      /\ deploy \in Deployments
  BY <1>1, BookTypes
<1>7. \/ rs.spec = w /\ rs.spec <= Book.specs[t] /\ later \in Seq(Quiets(w, Book))
      \/ /\ rs.spec >= w /\ Total([Book.specs EXCEPT ![t] = rs.spec]) <= Book.room
         /\ Settling(later, w, looped, Book)
  BY <1>1 DEF Raises
<1> HIDE DEF after, steps, t, rs
<1>8. t = Book.template
  BY DEF t
<1>9. /\ Keeps
      /\ Book'.specs = [Book.specs EXCEPT ![t] = rs.spec]
      /\ Book'.template = Book.template /\ Book'.room = Book.room
      /\ Book'.exists <=> Book.exists
      /\ Asked' = Total([Book.specs EXCEPT ![t] = rs.spec])
      /\ stack' = <<Delivery(Event("ReplicaSetUpdated", t), 1)>> \o after
  <2>1. \/ rs.spec <= Book.specs[t]
        \/ t # Book.template /\ Settled(t)
        \/ t = Book.template /\ Total([Book.specs EXCEPT ![t] = rs.spec]) <= Book.room
    BY <1>7, <1>8
  <2> QED
    BY <1>1, <1>2, <1>4, <1>5, <2>1, SetWrites
<1>10. Asked' = Asked - Book.specs[t] + rs.spec
  BY <1>2, <1>6, <1>9, TotalChanges
<1>11. Settling(later, w, looped, Book') /\ Loyal(later, deploy', replicaSets')
  <2>1. CASE later \in Seq(Quiets(w, Book))
    BY <1>1, <1>9, <2>1, QuietLeft DEF steps
  <2>2. CASE Settling(later, w, looped, Book)
    <3>1. Settling(later, w, looped, Book')
      BY <1>2, <1>6, <1>8, <1>9, <2>2, SettlingRaised
    <3>2. Loyal(later, deploy', replicaSets')
      BY <1>3, <1>6, <1>9, <2>2, KeepsPlans
    <3> QED
      BY <3>1, <3>2
  <2> QED
    BY <1>7, <2>1, <2>2
<1>12. w <= Book'.specs[Book'.template]
  <2>1. Book'.specs[Book'.template] = rs.spec
    BY <1>6, <1>8, <1>9
  <2> QED
    BY <1>1, <1>2, <1>7, <2>1
<1>13. ~Heals(steps, w, Book)
  <2>1. ~Scales(step, TRUE, Book)
    BY <1>8 DEF Scales, t
  <2> QED
    BY <2>1, HealsHead DEF steps
<1>14. ASSUME Asked' > Book'.room
       PROVE  Book'.exists /\ Asked > Book.room /\ (~looped => HasAgain(later))
  <2>0. Book.specs[t] \in Nat /\ Asked' \in Int
    BY <1>2, <1>6, <1>8, <1>10
  <2>1. rs.spec <= Book.specs[t] /\ Book.specs[t] \in Nat
    <3>1. ~(Asked' <= Book.room)
      BY <1>6, <1>9, <1>14, <2>0
    <3> QED
      BY <1>7, <1>9, <2>0, <3>1
  <2>2. Asked > Book.room
    BY <1>2, <1>6, <1>9, <1>10, <1>14, <2>1
  <2> QED
    BY <1>2, <1>3, <1>9, <2>2 DEF Going, steps
<1>15. \E frame : frame.op \in SideOps /\ stack' = <<frame>> \o after
  <2> DEFINE frame == Delivery(Event("ReplicaSetUpdated", t), 1)
  <2>1. frame.op \in SideOps
    BY DEF Delivery, SideOps
  <2>2. stack' = <<frame>> \o after
    BY <1>9
  <2> HIDE DEF frame
  <2> QED
    BY <2>1, <2>2
<1> QED
  BY <1>9, <1>11, <1>12, <1>13, <1>14, <1>15 DEF Proceeds, after, steps

\* A step that scales old ReplicaSets, one at a time
LEMMA ScaleProceeds ==
  ASSUME StoreType, StoreType', NEW w, NEW looped \in BOOLEAN, NEW rest, NEW step,
         NEW later \in Seq(Quiets(w, Book)), Going(<<step>> \o later, w, looped),
         Scales(step, looped, Book),
         (\E write \in step.writes : write.rs.spec > 0) => HasAgain(later),
         PlanStep(PlanFrame(<<step>> \o later), rest)
  PROVE  \E left : Proceeds(<<step>> \o later, left, w, looped, rest)
<1> DEFINE steps == <<step>> \o later
<1>1. /\ Rolling /\ Placed(replicaSets) /\ KeptTotal <= Book.room
      /\ Loyal(steps, deploy, replicaSets) /\ w \in Nat /\ w <= Book.specs[Book.template]
  BY DEF Going
<1>2. step \in SetsSteps /\ step.do = "sets" /\ Book.exists
  BY DEF Scales, SetsSteps
<1>3. LoyalStep(step, deploy, replicaSets) /\ Loyal(later, deploy, replicaSets)
      /\ (HasAgain(steps) <=> HasAgain(later))
  BY <1>1, <1>2, Pushed
<1>4. PICK write \in step.writes :
        \/ /\ step.writes = {write}
           /\ UpdateReplicaSet(write.template, write.rs, Planned(later, rest))
        \/ /\ step.writes # {write}
           /\ UpdateReplicaSet(write.template, write.rs,
                Planned(<<[step EXCEPT !.writes = @ \ {write}]>> \o later, rest))
  BY <1>2, PlanStepIs, Zenon
<1> DEFINE less == [step EXCEPT !.writes = @ \ {write}]
           left == IF step.writes = {write} THEN later ELSE <<less>> \o later
           after == Planned(left, rest)
           t == write.template
           rs == write.rs
<1>5. UpdateReplicaSet(t, rs, after)
  BY <1>4
<1>6. t \in Templates /\ rs \in ReplicaSets /\ rs.spec \in Nat /\ t # Book.template
  BY <1>2 DEF SetsSteps, ReplicaSets, Scales
<1>7. t \in Owned(replicaSets) /\ rs.at = replicaSets[t].at
  BY <1>2, <1>3 DEF LoyalStep
<1>8. /\ Asked \in Nat /\ Book.room \in Nat /\ Asked = Total(Book.specs)
      /\ Book.specs \in [Templates -> Nat] /\ Book.template \in Templates
      /\ DOMAIN Book.specs = Templates /\ IsFiniteSet(DOMAIN Book.specs)
      /\ deploy \in Deployments
  BY <1>1, BookTypes
<1>9. looped => rs.spec <= Book.specs[t]
  <2> SUFFICES ASSUME looped PROVE rs.spec <= Book.specs[t]
    OBVIOUS
  <2>1. PICK f : /\ Reaches(step.writes, Book.specs, f)
                 /\ \A u \in Templates : f[u] <= Book.specs[u]
    BY DEF Scales
  <2>2. f[t] = rs.spec
    BY <2>1 DEF Reaches
  <2> QED
    BY <1>6, <2>1, <2>2
<1> HIDE DEF steps, less, left, after, t, rs
<1>10. /\ Keeps
       /\ Book'.specs = [Book.specs EXCEPT ![t] = rs.spec]
       /\ Book'.template = Book.template /\ Book'.room = Book.room
       /\ Book'.exists
       /\ Asked' = Total([Book.specs EXCEPT ![t] = rs.spec])
       /\ stack' = <<Delivery(Event("ReplicaSetUpdated", t), 1)>> \o after
  <2>1. \/ rs.spec <= Book.specs[t]
        \/ t # Book.template /\ Settled(t)
        \/ t = Book.template /\ Total([Book.specs EXCEPT ![t] = rs.spec]) <= Book.room
    BY <1>6, <1>7, <1>9 DEF Going
  <2> QED
    BY <1>1, <1>2, <1>5, <1>6, <1>7, <2>1, SetWrites
<1>11. Asked' = Asked - Book.specs[t] + rs.spec
  BY <1>6, <1>8, <1>10, TotalChanges
<1>12. rs.spec <= Book.specs[t] /\ Asked' > Book'.room => Asked > Book.room
  <2>1. Book.specs[t] \in Nat
    BY <1>6, <1>8
  <2> QED
    BY <1>6, <1>8, <1>10, <1>11, <2>1
<1>13. /\ Settling(later, w, looped, Book') /\ Loyal(later, deploy', replicaSets')
       /\ later \in Seq(Quiets(w, Book'))
  <2>1. Quiets(w, Book') = Quiets(w, Book)
    BY <1>10, QuietsSame
  <2> QED
    BY <1>1, <1>10, <2>1, QuietLeft DEF steps
<1>14. w <= Book'.specs[Book'.template]
  <2>1. Book'.specs[Book'.template] = Book.specs[Book.template]
    BY <1>6, <1>8, <1>10
  <2> QED
    BY <1>1, <2>1
<1>15. \E frame : frame.op \in SideOps /\ stack' = <<frame>> \o after
  <2> DEFINE frame == Delivery(Event("ReplicaSetUpdated", t), 1)
  <2>1. frame.op \in SideOps
    BY DEF Delivery, SideOps
  <2>2. stack' = <<frame>> \o after
    BY <1>10
  <2> HIDE DEF frame
  <2> QED
    BY <2>1, <2>2
<1>16. ASSUME step.writes # {write}
       PROVE  /\ Settling(left, w, looped, Book') /\ Loyal(left, deploy', replicaSets')
              /\ HasAgain(left) <=> HasAgain(later)
              /\ Heals(steps, w, Book) => Heals(left, w, Book')
  <2>1. left = <<less>> \o later
    BY <1>16 DEF left
  <2>2. Book'.specs = [Book.specs EXCEPT ![write.template] = write.rs.spec]
    BY <1>10 DEF t, rs
  <2>3. /\ Scales(less, looped, Book') /\ less.do = "sets"
        /\ less.writes = step.writes \ {write}
        /\ Frees(step, Book) => Frees(less, Book')
        /\ Scales(step, TRUE, Book) => Scales(less, TRUE, Book')
    <3>1. PICK book : book = Book
      OBVIOUS
    <3>2. PICK book2 : book2 = Book'
      OBVIOUS
    <3>3. /\ book.specs \in [Templates -> Nat]
          /\ book2.specs = [book.specs EXCEPT ![write.template] = write.rs.spec]
          /\ book2.template = book.template /\ book2.exists /\ book2.room = book.room
      BY <1>8, <1>10, <2>2, <3>1, <3>2
    <3>4. ASSUME NEW looped2, Scales(step, looped2, book)
          PROVE  /\ Scales(less, looped2, book2)
                 /\ less.writes = step.writes \ {write} /\ less.do = "sets"
                 /\ Frees(step, book) => Frees(less, book2)
      BY <1>16, <3>3, <3>4, ScalesOn DEF less
    <3> QED
      BY <3>1, <3>2, <3>4
  <2>5. (\E other \in less.writes : other.rs.spec > 0) => HasAgain(later)
    BY <2>3
  <2>6. Settling(left, w, looped, Book')
    BY <1>13, <2>1, <2>3, <2>5 DEF Settling
  <2>7. LoyalStep(less, deploy', replicaSets')
    <3>1. LoyalStep(less, deploy, replicaSets)
      BY <1>2, <1>3, <2>3 DEF LoyalStep
    <3> QED
      BY <1>8, <1>10, <2>3, <3>1, KeepsPlans
  <2>8. Loyal(left, deploy', replicaSets') /\ (HasAgain(left) <=> HasAgain(later))
    BY <1>13, <2>1, <2>3, <2>7, Pushed
  <2>9. ASSUME Heals(steps, w, Book) PROVE Heals(left, w, Book')
    <3>1. Scales(step, TRUE, Book) /\ Frees(step, Book)
      BY <2>9, HealsHead DEF steps
    <3>2. Scales(less, TRUE, Book') /\ Frees(less, Book')
      BY <2>3, <3>1
    <3> QED
      BY <1>13, <2>1, <3>2 DEF Heals
  <2> QED
    BY <2>6, <2>8, <2>9
<1>17. ASSUME step.writes = {write}
       PROVE  /\ left = later
              /\ Heals(steps, w, Book) => Asked' <= Book'.room
  <2>1. left = later
    BY <1>17 DEF left
  <2>2. ASSUME Heals(steps, w, Book) PROVE Asked' <= Book'.room
    <3>1. Frees(step, Book)
      BY <2>2, HealsHead DEF steps
    <3>2. PICK f : Reaches(step.writes, Book.specs, f) /\ Total(f) <= Book.room
      BY <3>1 DEF Frees
    <3> DEFINE specs2 == [Book.specs EXCEPT ![write.template] = write.rs.spec]
    <3>5. step.writes = {write} => f = specs2
      <4> DEFINE writes == step.writes
                 specs == Book.specs
      <4>1. /\ Reaches(writes, specs, f) /\ write \in writes /\ specs \in [Templates -> Nat]
            /\ specs2 = [specs EXCEPT ![write.template] = write.rs.spec]
        BY <1>8, <3>2
      <4> HIDE DEF writes, specs, specs2
      <4>2. writes = {write} => f = [specs EXCEPT ![write.template] = write.rs.spec]
        BY <4>1, ReachesOn
      <4> QED
        BY <4>1, <4>2 DEF writes
    <3>3. f = [Book.specs EXCEPT ![write.template] = write.rs.spec]
      BY <1>17, <3>5
    <3>4. f = [Book.specs EXCEPT ![t] = rs.spec]
      BY <3>3 DEF t, rs
    <3> QED
      BY <1>10, <3>2, <3>4
  <2> QED
    BY <2>1, <2>2
<1>18. /\ Settling(left, w, looped, Book') /\ Loyal(left, deploy', replicaSets')
       /\ HasAgain(left) <=> HasAgain(later)
  BY <1>13, <1>16, <1>17
<1>19. ASSUME Asked' > Book'.room
       PROVE  /\ looped => Asked > Book.room /\ (Heals(steps, w, Book) => Heals(left, w, Book'))
              /\ ~looped => HasAgain(left)
  <2>1. Asked' \in Int /\ Book'.room \in Nat
    BY <1>6, <1>8, <1>10, <1>11
  <2>2. ASSUME looped, Heals(steps, w, Book) PROVE Heals(left, w, Book')
    <3>1. ~(Asked' <= Book'.room)
      BY <1>19, <2>1
    <3> QED
      BY <1>16, <1>17, <2>2, <3>1
  <2>3. ASSUME ~looped PROVE HasAgain(left)
    <3>1. CASE rs.spec > 0
      BY <1>18, <3>1 DEF rs
    <3>2. CASE ~(rs.spec > 0)
      <4>1. rs.spec <= Book.specs[t]
        BY <1>6, <1>8, <3>2
      <4>2. HasAgain(steps)
        BY <1>12, <1>19, <2>3, <4>1 DEF Going, steps
      <4> QED
        BY <1>3, <1>18, <4>2
    <3> QED
      BY <3>1, <3>2
  <2> QED
    BY <1>9, <1>12, <1>19, <2>2, <2>3
<1>20. Proceeds(steps, left, w, looped, rest)
  BY <1>10, <1>14, <1>15, <1>18, <1>19 DEF Proceeds, after
<1> QED
  BY <1>20 DEF steps

\* A step that creates the current ReplicaSet
LEMMA BeginProceeds ==
  ASSUME StoreType, StoreType', NEW w, NEW looped, NEW rest, NEW step,
         NEW later \in Seq(Quiets(w, Book)), Going(<<step>> \o later, w, looped),
         Begins(step, Book),
         PlanStep(PlanFrame(<<step>> \o later), rest)
  PROVE  Proceeds(<<step>> \o later, later, w, looped, rest)
<1> DEFINE steps == <<step>> \o later
           after == Planned(later, rest)
           t == step.template
           rs == step.rs
<1>1. /\ Rolling /\ Placed(replicaSets) /\ Loyal(steps, deploy, replicaSets)
      /\ w \in Nat /\ w <= Book.specs[Book.template] /\ ~Book.exists
      /\ ~(Asked > Book.room)
  BY DEF Going, Begins
<1>2. /\ step.do = "create" /\ rs \in ReplicaSets /\ rs.spec \in Nat /\ t = Book.template
      /\ rs.spec = 0 \/ Total([Book.specs EXCEPT ![Book.template] = rs.spec]) <= Book.room
  BY DEF Begins, CreateSteps, ReplicaSets
<1>3. LoyalStep(step, deploy, replicaSets)
  BY <1>1, Pushed
<1>4. rs.at = Cardinality(Owned(replicaSets)) + 1
  BY <1>2, <1>3 DEF LoyalStep
<1>5. CreateReplicaSet(t, rs, after)
  BY <1>2, PlanStepIs, Zenon
<1>6. /\ Asked \in Nat /\ Book.room \in Nat /\ Asked = Total(Book.specs)
      /\ Book.specs \in [Templates -> Nat] /\ Book.template \in Templates
      /\ Book.template = deploy.template
      /\ deploy \in Deployments
  BY <1>1, BookTypes
<1>7. Book.specs[Book.template] = 0
  <2>1. replicaSets[deploy.template] = None
    BY <1>1 DEF Book, BookOf
  <2>2. Book.specs = Specs(replicaSets)
    BY DEF Book, BookOf
  <2> QED
    BY <1>6, <2>1, <2>2 DEF Specs
<1> HIDE DEF after, steps, t, rs
<1>8. Total([Book.specs EXCEPT ![Book.template] = rs.spec]) <= Book.room
  <2>1. CASE rs.spec = 0
    <3>1. [Book.specs EXCEPT ![Book.template] = rs.spec] = Book.specs
      BY <1>6, <1>7, <2>1
    <3> QED
      BY <1>1, <1>6, <3>1
  <2> QED
    BY <1>2, <2>1
<1>9. /\ Keeps
      /\ Book'.specs = [Book.specs EXCEPT ![Book.template] = rs.spec]
      /\ Book'.template = Book.template /\ Book'.room = Book.room /\ Book'.exists
      /\ Asked' <= Book'.room
      /\ stack' = <<Delivery(Event("ReplicaSetCreated", deploy.template), 1)>> \o after
  <2>1. CreateReplicaSet(deploy.template, rs, after)
    BY <1>2, <1>5, <1>6
  <2> QED
    BY <1>1, <1>2, <1>4, <1>8, <2>1, SetBegins
<1>10. Settling(later, w, looped, Book') /\ Loyal(later, deploy', replicaSets')
  BY <1>1, <1>9, QuietLeft DEF steps
<1>11. w <= Book'.specs[Book'.template]
  <2>1. Book'.specs[Book'.template] = rs.spec
    BY <1>6, <1>9
  <2> QED
    BY <1>1, <1>2, <1>7, <2>1
<1>12. ~(Asked' > Book'.room)
  <2>1. Asked' \in Nat
    <3>1. Book'.specs = Specs(replicaSets') /\ replicaSets' \in ReadSets
      BY DEF Book, BookOf, StoreType
    <3> QED
      BY <3>1, SpecsType DEF Asked
  <2> QED
    BY <1>6, <1>9, <2>1
<1>13. \E frame : frame.op \in SideOps /\ stack' = <<frame>> \o after
  <2> DEFINE frame == Delivery(Event("ReplicaSetCreated", deploy.template), 1)
  <2>1. frame.op \in SideOps
    BY DEF Delivery, SideOps
  <2>2. stack' = <<frame>> \o after
    BY <1>9
  <2> HIDE DEF frame
  <2> QED
    BY <2>1, <2>2
<1> QED
  BY <1>9, <1>10, <1>11, <1>12, <1>13 DEF Proceeds, after, steps

\* Every step of a plan
LEMMA PlanProceeds ==
  ASSUME StoreType, StoreType', NEW steps, NEW w, NEW looped \in BOOLEAN, NEW rest,
         steps # << >>, Going(steps, w, looped), PlanStep(PlanFrame(steps), rest)
  PROVE  \E left : Proceeds(steps, left, w, looped, rest)
<1> DEFINE S == SetsSteps \cup AgainSteps \cup DeploymentSteps
<1>1. PICK step : \E later \in Seq(S) :
        /\ steps = <<step>> \o later
        /\ \/ step \in Quiets(w, Book) /\ later \in Seq(Quiets(w, Book))
           \/ /\ Scales(step, looped, Book) /\ later \in Seq(Quiets(w, Book))
              /\ (\E write \in step.writes : write.rs.spec > 0) => HasAgain(later)
           \/ Raises(step, w, Book) /\ Settling(later, w, looped, Book)
           \/ Begins(step, Book) /\ later \in Seq(Quiets(w, Book))
  BY FreshHead DEF Going
<1>2. PICK later \in Seq(S) :
        /\ steps = <<step>> \o later
        /\ \/ step \in Quiets(w, Book) /\ later \in Seq(Quiets(w, Book))
           \/ /\ Scales(step, looped, Book) /\ later \in Seq(Quiets(w, Book))
              /\ (\E write \in step.writes : write.rs.spec > 0) => HasAgain(later)
           \/ Raises(step, w, Book) /\ Settling(later, w, looped, Book)
           \/ Begins(step, Book) /\ later \in Seq(Quiets(w, Book))
  BY <1>1
<1>3. Going(<<step>> \o later, w, looped) /\ PlanStep(PlanFrame(<<step>> \o later), rest)
  BY <1>2
<1> HIDE DEF S
<1>4. CASE step \in AgainSteps \cup DeploymentSteps /\ later \in Seq(Quiets(w, Book))
  BY <1>2, <1>3, <1>4, StillProceeds
<1>5. ASSUME NEW write, step \in SetsSteps, step.writes = {write},
             write.template = Book.template,
             \/ write.rs.spec = w /\ later \in Seq(Quiets(w, Book))
             \/ Raises(step, w, Book) /\ Settling(later, w, looped, Book)
      PROVE  \E left : Proceeds(steps, left, w, looped, rest)
  BY <1>2, <1>3, <1>5, WriteProceeds
<1>6. CASE /\ Scales(step, looped, Book) /\ later \in Seq(Quiets(w, Book))
           /\ (\E write \in step.writes : write.rs.spec > 0) => HasAgain(later)
  BY <1>2, <1>3, <1>6, ScaleProceeds
<1>7. CASE Begins(step, Book) /\ later \in Seq(Quiets(w, Book))
  BY <1>2, <1>3, <1>7, BeginProceeds
<1>8. CASE Raises(step, w, Book) /\ Settling(later, w, looped, Book)
  <2>1. PICK write : step.writes = {write} /\ write.template = Book.template
    BY <1>8 DEF Raises
  <2>2. step \in SetsSteps
    BY <1>8 DEF Raises
  <2> QED
    BY <1>5, <1>8, <2>1, <2>2
<1>9. CASE step \in Quiets(w, Book) /\ later \in Seq(Quiets(w, Book))
  <2>1. CASE step \in AgainSteps \cup DeploymentSteps
    BY <1>4, <1>9, <2>1
  <2>2. CASE step \notin AgainSteps \cup DeploymentSteps
    <3>1. /\ step \in SetsSteps
          /\ \E write : /\ step.writes = {write} /\ write.template = Book.template
                        /\ write.rs.spec = w
      BY <1>9, <2>2 DEF Quiets
    <3> QED
      BY <1>5, <1>9, <3>1
  <2> QED
    BY <2>1, <2>2
<1> QED
  BY <1>2, <1>6, <1>7, <1>8, <1>9

\* What a step of a plan keeps of the invariant
LEMMA KeepsRoom ==
  ASSUME StoreType, Rolling, Keeps
  PROVE  /\ Rolling' /\ Placed(replicaSets') /\ KeptTotal' <= Book'.room
         /\ \A p, u : Settling(p, u, FALSE, Book) /\ Loyal(p, deploy, replicaSets)
              => Settling(p, u, FALSE, Book') /\ Loyal(p, deploy', replicaSets')
<1>1. deploy \in Deployments
  BY DEF StoreType, Rolling
<1>2. Rolling' /\ Placed(replicaSets')
  BY DEF Keeps, Same, Rolling
<1>3. KeptTotal' <= Book'.room
  BY DEF Keeps, Book, BookOf
<1> QED
  BY <1>1, <1>2, <1>3, KeepsPlans

\* A plan of processNext goes on.
LEMMA OuterRoom ==
  ASSUME StoreType, StoreType', Living, IInv, RoomInv, Rolling, Run,
         stack # << >>, Head(stack).op = "plan",
         NEW p, NEW base, NEW u, Flat(p, base, u)
  PROVE  RoomInv'
<1> DEFINE rest == <<NextFrame>> \o << >>
<1>1. PlanStep(Head(stack), Tail(stack))
  BY Zenon DEF Run
<1>2. stack = base /\ Outer(base, p)
  BY BaseOnTop DEF Flat, SideOps
<1>3. p # << >> /\ Head(stack) = PlanFrame(p) /\ Tail(stack) = rest
  <2>1. NextFrame.op = "next"
    BY DEF NextFrame
  <2> HIDE DEF rest
  <2> QED
    BY <1>2, <2>1, OuterIs DEF rest
<1>4. PICK S : stack \in Seq(S)
  BY <1>2, OuterIs
<1>5. \A t \in Owned(replicaSets) : Settled(t)
  <2>1. \A op \in SideOps : ~Draining(op, stack)
    BY <1>2, OuterIs DEF SideOps
  <2> QED
    BY <1>4, <2>1, AllSettled
<1>6. Going(p, u, FALSE)
  <2>1. Fresh(p, u, FALSE, Book)
    BY DEF Flat, Fresh
  <2> QED
    BY <1>5, <2>1 DEF Going, Flat, RoomInv
<1>7. PlanStep(PlanFrame(p), rest)
  BY <1>1, <1>3
<1> HIDE DEF rest
<1>8. PICK left : Proceeds(p, left, u, FALSE, rest)
  BY <1>3, <1>6, <1>7, PlanProceeds
<1>9. Keeps /\ Rolling' /\ Placed(replicaSets') /\ KeptTotal' <= Book'.room
  BY <1>8, KeepsRoom DEF Proceeds
<1> DEFINE below == Planned(left, rest)
<1>10. Outer(below, left)
  <2>1. rest = <<NextFrame>>
    BY DEF rest
  <2> QED
    BY <2>1 DEF Outer
<1> HIDE DEF below
<1>11. Over(below, below) /\ ~Draining("deployments", below)
  <2>1. PICK T : below \in Seq(T)
    BY <1>10, OuterIs
  <2> QED
    BY <1>10, <2>1, OverSame, OuterIs
<1>12. /\ u \in Nat /\ u <= Book'.specs[Book'.template]
       /\ Settling(left, u, FALSE, Book') /\ Loyal(left, deploy', replicaSets')
       /\ Asked' > Book'.room =>
            Book'.exists /\ (HasAgain(left) \/ EnqueueDeployment(below))
  BY <1>8 DEF Proceeds, Flat, below
<1>13. CASE EnqueueDeployment(below)
  <2>1. stack' = <<DeploymentsLoop(MaxBatch)>> \o below /\ queued'
    BY <1>11, <1>13 DEF EnqueueDeployment, Return
  <2>2. DeepRoom'
    BY <1>10, <1>11, <1>12, <2>1, LoopBegins
  <2> QED
    BY <1>9, <2>2 DEF RoomInv
<1>14. CASE ~EnqueueDeployment(below)
  <2>1. Over(stack', below)
    <3>1. \/ stack' = below
          \/ \E frame : frame.op \in SideOps /\ stack' = <<frame>> \o below
      BY <1>8, <1>14 DEF Proceeds, below
    <3> QED
      BY <1>11, <3>1, OverPushed
  <2>2. Flat(left, below, u)'
    BY <1>10, <1>12, <1>14, <2>1 DEF Flat
  <2> QED
    BY <1>9, <2>2 DEF RoomInv, FlatRoom
<1> QED
  BY <1>13, <1>14

\* A plan of the immediate loop goes on.
LEMMA InnerRoom ==
  ASSUME StoreType, StoreType', RoomInv, Rolling, Run,
         stack # << >>, Head(stack).op = "plan",
         NEW p, NEW base, NEW q, NEW rest, NEW u, NEW v, NEW n,
         Deep(p, base, q, rest, u, v, n)
  PROVE  RoomInv'
<1> DEFINE loop == <<DeploymentsLoop(n)>> \o rest
<1>1. PlanStep(Head(stack), Tail(stack))
  BY Zenon DEF Run
<1>2. stack = Inner(n, q, rest) /\ Over(rest, base)
  BY BaseOnTop DEF Deep, SideOps
<1>3. PICK S : rest \in Seq(S)
  BY <1>2, OverKeeps
<1>4. q # << >>
  BY <1>2, <1>3, InnerTop
<1>5. Head(stack) = PlanFrame(q) /\ Tail(stack) = loop
  BY <1>2, <1>3, <1>4, InnerIs
<1>6. Going(q, v, TRUE)
  <2>1. Fresh(q, v, TRUE, Book)
    BY DEF Deep, Fresh
  <2> QED
    BY <2>1 DEF Going, Deep, RoomInv
<1>7. PlanStep(PlanFrame(q), loop)
  BY <1>1, <1>5
<1> HIDE DEF loop
<1>8. PICK left : Proceeds(q, left, v, TRUE, loop)
  BY <1>4, <1>6, <1>7, PlanProceeds
<1>9. /\ Rolling' /\ Placed(replicaSets') /\ KeptTotal' <= Book'.room
      /\ Settling(p, u, FALSE, Book') /\ Loyal(p, deploy', replicaSets')
  BY <1>8, KeepsRoom DEF Proceeds, Deep
<1> DEFINE inner == Inner(n, left, rest)
<1>10. inner = Planned(left, loop)
  BY DEF Inner, loop
<1>11. Over(inner, inner) /\ Draining("deployments", inner)
  <2>1. \E T : inner \in Seq(T)
    BY <1>3, InnerIs
  <2>2. Draining("deployments", inner)
    BY <1>3, InnerIs
  <2> HIDE DEF inner
  <2> QED
    BY <2>1, <2>2, OverSame
<1> HIDE DEF inner
<1>12. Over(stack', inner)
  <2>1. EnqueueDeployment(inner) => stack' = inner
    BY <1>11 DEF EnqueueDeployment, Return
  <2>2. \/ stack' = inner
        \/ \E frame : frame.op \in SideOps /\ stack' = <<frame>> \o inner
        \/ EnqueueDeployment(inner)
    BY <1>8, <1>10 DEF Proceeds
  <2> QED
    BY <1>11, <2>1, <2>2, OverPushed
<1>13. Asked' > Book'.room => Book'.exists /\ (HasAgain(p) \/ Heals(left, v, Book'))
  BY <1>4, <1>8 DEF Proceeds, Deep
<1>14. Deep(p, base, left, rest, u, v, n)'
  <2>1. /\ u \in Nat /\ v \in Nat /\ n \in Nat /\ Outer(base, p) /\ Over(rest, base)
        /\ u <= v /\ v <= Book'.specs[Book'.template]
        /\ Settling(left, v, TRUE, Book') /\ Loyal(left, deploy', replicaSets')
    BY <1>8 DEF Proceeds, Deep
  <2> QED
    BY <1>9, <1>12, <1>13, <2>1 DEF Deep, inner
<1> QED
  BY <1>9, <1>14 DEF RoomInv, DeepRoom

\* Every step of a plan leaves room.
LEMMA PlanRoom ==
  ASSUME StoreType, StoreType', Living, IInv, RoomInv, Rolling, Run,
         stack # << >>, Head(stack).op = "plan"
  PROVE  RoomInv'
BY OuterRoom, InnerRoom DEF RoomInv, FlatRoom, DeepRoom

-------------------------------------------------------------------------------
(* The invariant holds *)

\* Only plans write a Deployment, and nothing but a user creates one.
LEMMA RunWrites ==
  ASSUME Run
  PROVE  /\ Head(stack).op # "plan" => deploy' = deploy
         /\ deploy = None => deploy' = None
         /\ LET step == Head(Head(stack).steps)
            IN  \/ deploy' = deploy
                \/ step.do \in {"deployment", "status"} /\ deploy' = step.deploy
                \/ /\ step.do \in {"deployment", "status"}
                   /\ \E status : deploy' = [step.deploy EXCEPT !.status = status]
<1> DEFINE frame == Head(stack)
           rest == Tail(stack)
           step == Head(frame.steps)
<1>1. \A r : (Return(r) \/ EnqueueDeployment(r)) => deploy' = deploy
  BY DEF Return, EnqueueDeployment, store
<1>2. \A t, r : EnqueueReplicaSet(t, r) => deploy' = deploy
  BY <1>1 DEF EnqueueReplicaSet
<1>3. \A t, list, r : SetPods(t, list, r) => deploy' = deploy
  BY DEF SetPods
<1>4. \A t, new, r : UpdateReplicaSet(t, new, r) => deploy' = deploy
  BY <1>1 DEF UpdateReplicaSet
<1>5. CASE frame.op = "plan" /\ PlanStep(frame, rest)
  <2>1. \A t, new, r : CreateReplicaSet(t, new, r) => deploy' = deploy
    BY DEF CreateReplicaSet
  <2>2. \A new, r : UpdateDeployment(new, r) =>
          IF deploy = None THEN deploy' = deploy ELSE deploy' = new
    BY <1>1 DEF UpdateDeployment
  <2> HIDE DEF frame, rest
  <2>3. \/ \E t, new, r : UpdateReplicaSet(t, new, r)
        \/ \E t, new, r : CreateReplicaSet(t, new, r)
        \/ step.do = "deployment" /\ \E r : UpdateDeployment(step.deploy, r)
        \/ \E r : EnqueueDeployment(r) \/ Return(r)
        \/ /\ step.do = "status"
           /\ \E status, r : UpdateDeployment([step.deploy EXCEPT !.status = status], r)
    <3> DEFINE after == IF Len(frame.steps) = 1 THEN rest
                        ELSE <<[frame EXCEPT !.steps = Tail(@)]>> \o rest
               without(write) ==
                 IF step.writes = {write} THEN after
                 ELSE <<[frame EXCEPT !.steps[1].writes = @ \ {write}]>> \o rest
               status == StatusOf(step.deploy, replicaSets)
    <3>1. \/ \E write \in step.writes : UpdateReplicaSet(write.template, write.rs, without(write))
          \/ CreateReplicaSet(step.template, step.rs, after)
          \/ step.do = "deployment" /\ UpdateDeployment(step.deploy, after)
          \/ EnqueueDeployment(after)
          \/ /\ step.do = "status"
             /\ \/ Return(after)
                \/ UpdateDeployment([step.deploy EXCEPT !.status = status], after)
      BY <1>5, ZenonT(60) DEF PlanStep
    <3> HIDE DEF after, without, status
    <3> QED
      BY <3>1, Zenon
  <2>4. \/ deploy' = deploy
        \/ deploy # None /\ step.do = "deployment" /\ deploy' = step.deploy
        \/ /\ deploy # None /\ step.do = "status"
           /\ \E status : deploy' = [step.deploy EXCEPT !.status = status]
    <3> HIDE DEF step
    <3>1. (deploy = None /\ \E r, new : UpdateDeployment(new, r)) => deploy' = deploy
      BY <2>2
    <3>2. \A new, r : deploy # None /\ UpdateDeployment(new, r) => deploy' = new
      BY <2>2
    <3> QED
      BY <1>1, <1>4, <2>1, <2>3, <3>1, <3>2, ZenonT(60)
  <2> HIDE DEF step
  <2> QED
    BY <1>5, <2>4 DEF frame, step
<1>6. CASE frame.op = "deliver" /\ DeliverStep(frame, rest)
  <2> DEFINE Handled(r) == HandleDeployment(frame.event, r) \/ HandleReplicaSet(frame.event, r)
  <2>1. ASSUME NEW r, Handled(r) PROVE deploy' = deploy
    <3>1. HandleDeployment(frame.event, r) => deploy' = deploy
      BY <1>1, Zenon DEF HandleDeployment
    <3>2. HandleReplicaSet(frame.event, r) => deploy' = deploy
      BY <1>1, <1>2, Zenon DEF HandleReplicaSet
    <3> QED
      BY <2>1, <3>1, <3>2
  <2>2. \E r : Handled(r)
    BY <1>6, Zenon DEF DeliverStep
  <2>3. deploy' = deploy
    BY <2>1, <2>2
  <2> QED
    BY <1>6, <2>3
<1>7. CASE \/ frame.op = "deployments" /\ DrainDeployments(frame, rest)
           \/ frame.op = "next" /\ AfterNext(rest)
           \/ frame.op = "deleteSets" /\ DeleteSets(frame, rest)
           \/ frame.op = "replicaSets" /\ DrainReplicaSets(rest)
           \/ frame.op = "scale" /\ ScaleStep(frame, rest)
           \/ frame.op = "deletePods" /\ DeletePods(frame, rest)
  <2>1. \A r : Reconcile(r) => deploy' = deploy
    BY <1>1 DEF Reconcile
  <2>2. \A t, r : ReconcileSet(t, r) => deploy' = deploy
    BY <1>1 DEF ReconcileSet
  <2>3. deploy' = deploy
    <3>1. DrainDeployments(frame, rest) => deploy' = deploy
      BY <1>1, <2>1, Zenon DEF DrainDeployments
    <3>2. AfterNext(rest) => deploy' = deploy
      BY <1>1, Zenon DEF AfterNext
    <3>3. DeleteSets(frame, rest) => deploy' = deploy
      BY Zenon DEF DeleteSets
    <3>4. DrainReplicaSets(rest) => deploy' = deploy
      BY <1>1, <2>2, Zenon DEF DrainReplicaSets
    <3>5. ScaleStep(frame, rest) => deploy' = deploy
      BY <1>1, <1>3, <1>4, Zenon DEF ScaleStep
    <3>6. DeletePods(frame, rest) => deploy' = deploy
      BY <1>1, <1>3, Zenon DEF DeletePods
    <3> QED
      BY <1>7, <3>1, <3>2, <3>3, <3>4, <3>5, <3>6
  <2> QED
    BY <1>7, <2>3
<1>8. \/ frame.op = "plan" /\ PlanStep(frame, rest)
      \/ frame.op = "deliver" /\ DeliverStep(frame, rest)
      \/ frame.op = "deployments" /\ DrainDeployments(frame, rest)
      \/ frame.op = "next" /\ AfterNext(rest)
      \/ frame.op = "deleteSets" /\ DeleteSets(frame, rest)
      \/ frame.op = "replicaSets" /\ DrainReplicaSets(rest)
      \/ frame.op = "scale" /\ ScaleStep(frame, rest)
      \/ frame.op = "deletePods" /\ DeletePods(frame, rest)
  BY Zenon DEF Run
<1> QED
  BY <1>5, <1>6, <1>7, <1>8

\* A Deployment's strategy does not change while it exists.
LEMMA StrategyKept ==
  ASSUME Living, Run, Rolling'
  PROVE  Rolling
<1> DEFINE C == CalmFrames(KindOf(deploy))
           step == Head(Head(stack).steps)
<1>1. deploy # None
  BY DEF Living
<1>2. CASE Head(stack).op # "plan"
  BY <1>2, RunWrites DEF Rolling
<1>3. CASE Head(stack).op = "plan"
  <2>1. step.do \in {"deployment", "status"} => /\ step.deploy \in Deployments
                                                /\ step.deploy.strategy = deploy.strategy
    <3>1. ASSUME NEW d, NEW s \in LaterSteps(d), KindOf(d) = KindOf(deploy),
                 s.do \in {"deployment", "status"}
          PROVE  s.deploy \in Deployments /\ s.deploy.strategy = deploy.strategy
      BY <3>1, LaterTypes DEF KindOf
    <3>2. ASSUME NEW frame \in C, NEW rest \in Seq(C), stack = <<frame>> \o rest
          PROVE  \E d : KindOf(d) = KindOf(deploy) /\ step \in LaterSteps(d)
      <4>1. Head(stack) = frame
        BY <3>2, Stacked
      <4>2. PICK d \in DeploymentsOf(KindOf(deploy)) : frame.steps \in CalmPlans(d)
        BY <1>3, <4>1, CalmKinds DEF DeliverFrames
      <4>3. Head(frame.steps) \in LaterSteps(d) /\ KindOf(d) = KindOf(deploy)
        BY <4>2, CalmPlanSteps DEF DeploymentsOf
      <4> QED
        BY <4>1, <4>3
    <3>3. CASE stack \in Seq(C)
      <4>1. stack # << >>
        BY DEF Run
      <4>2. Head(stack) \in C /\ Tail(stack) \in Seq(C) /\ stack = <<Head(stack)>> \o Tail(stack)
        BY <3>3, <4>1, Unstacked
      <4>3. PICK d : KindOf(d) = KindOf(deploy) /\ step \in LaterSteps(d)
        BY <3>2, <4>2
      <4> QED
        BY <3>1, <4>3
    <3>4. ASSUME NEW rest \in Seq(C), NEW frame \in CreatingFrames(deploy),
                 stack = <<frame>> \o rest
          PROVE  step.do = "create"
      <4>1. Head(stack) = frame
        BY <3>4, Stacked
      <4> QED
        BY <4>1 DEF CreatingFrames
    <3>5. ASSUME NEW rest \in Seq(C), NEW frame \in ScaleFrames, NEW event,
                 \/ stack = <<frame>> \o rest
                 \/ stack = <<Delivery(event, 1)>> \o (<<frame>> \o rest)
          PROVE  FALSE
      <4> DEFINE S == C \cup {frame}
                 top == Delivery(event, 1)
      <4>1. frame.op # "plan" /\ top.op # "plan"
        BY DEF Delivery, ScaleFrames
      <4>2. rest \in Seq(S) /\ frame \in S
        OBVIOUS
      <4> HIDE DEF S, C, top
      <4>3. <<frame>> \o rest \in Seq(S)
        BY <4>2, Stacked
      <4> QED
        BY <1>3, <3>5, <4>1, <4>2, <4>3, Stacked DEF top
    <3> QED
      BY <3>3, <3>4, <3>5 DEF Living, LivingStack
  <2> HIDE DEF step
  <2>2. deploy'.strategy = deploy.strategy
    <3>1. \/ deploy' = deploy
          \/ step.do \in {"deployment", "status"} /\ deploy' = step.deploy
          \/ /\ step.do \in {"deployment", "status"}
             /\ \E status : deploy' = [step.deploy EXCEPT !.status = status]
      BY RunWrites DEF step
    <3>2. ASSUME NEW d \in Deployments, NEW status
          PROVE  [d EXCEPT !.status = status].strategy = d.strategy
      BY DEF Deployments
    <3> QED
      BY <2>1, <3>1, <3>2
  <2> QED
    BY <1>1, <2>2 DEF Rolling
<1> QED
  BY <1>2, <1>3

\* The invariant holds at first.
LEMMA RoomInit ==
  ASSUME Init
  PROVE  RoomInv
<1>1. PICK s \in Strategies, n \in 1..MaxReplicas :
        RolledOut(NewDeployment(n, CHOOSE t \in Templates : TRUE, s))
  BY DEF Init
<1> DEFINE t0 == CHOOSE t \in Templates : TRUE
           d == NewDeployment(n, t0, s)
           rs == [spec |-> n, revision |-> 1, replicas |-> n, available |-> n, at |-> 1]
<1>2. t0 \in Templates /\ n \in Nat
  BY TemplatesAssumption, SizeAssumption
<1> HIDE DEF t0
<1>3. /\ d.replicas = n /\ d.template = t0 /\ d.strategy = s /\ d \in Deployments
  BY <1>2 DEF NewDeployment, Deployments, Statuses
<1>4. /\ replicaSets = [t \in Templates |-> IF t = t0 THEN rs ELSE None]
      /\ deploy.replicas = n /\ deploy.template = t0 /\ stack = << >>
  <2>1. RolledOut(d)
    BY <1>1 DEF t0
  <2> HIDE DEF d
  <2> QED
    BY <1>3, <2>1 DEF RolledOut, Init, Deployments
<1>5. rs \in ReplicaSets /\ rs # None /\ rs.at = 1 /\ rs.spec = n
  BY <1>2, NoneAssumption DEF ReplicaSets
<1> HIDE DEF rs
<1>6. StoreType
  BY InitObjects DEF OInv
<1> SUFFICES ASSUME Rolling
             PROVE  /\ Placed(replicaSets) /\ KeptTotal <= Book.room /\ FlatRoom
  BY DEF RoomInv
<1>7. Owned(replicaSets) = {t0} /\ replicaSets[t0] = rs
  BY <1>2, <1>4, <1>5 DEF Owned
<1>8. Placed(replicaSets)
  <2>1. Cardinality({t0}) = 1
    BY FS_Singleton
  <2> QED
    BY <1>5, <1>7, <2>1 DEF Placed, Ranked
<1>9. /\ Asked \in Nat /\ Book.room \in Nat
      /\ Book.specs[Book.template] \in Nat /\ deploy \in Deployments
      /\ replicaSets \in ReadSets /\ pods \in [Templates -> Seq(BOOLEAN)]
  BY <1>6, BookTypes DEF StoreType
<1>10. Asked = n
  <2>1. Total(Specs(replicaSets)) =
          TotalSpec(replicaSets, Owned(replicaSets) \ {t0}) + Specs(replicaSets)[t0]
    BY <1>2, <1>9, SpecsSplit
  <2>2. Owned(replicaSets) \ {t0} = {} /\ Specs(replicaSets)[t0] = n
    BY <1>2, <1>5, <1>7 DEF Specs
  <2>3. TotalSpec(replicaSets, {}) = 0
    BY NothingAdds DEF TotalSpec
  <2> QED
    BY <1>2, <2>1, <2>2, <2>3 DEF Asked
<1>11. Asked <= Book.room
  <2>1. Book.room = n + MaxSurge(deploy) /\ MaxSurge(deploy) \in Nat
    BY <1>4, <1>9, SurgeType DEF Book, BookOf, Ceiling
  <2> QED
    BY <1>2, <1>10, <2>1
<1>12. KeptTotal <= Book.room
  <2>1. KeptTotal \in Nat /\ KeptTotal <= Asked
    BY <1>9, KeptType DEF KeptTotal, Asked
  <2> QED
    BY <1>9, <1>11, <2>1
<1> DEFINE p == << >>
           base == << >>
<1>13. /\ Settling(p, 0, FALSE, Book) /\ Loyal(p, deploy, replicaSets)
       /\ Outer(base, p) /\ Over(stack, base)
  <2>1. << >> \in Seq({})
    OBVIOUS
  <2> QED
    BY <1>4, <2>1, NothingSettles, OverSame DEF Outer
<1> HIDE DEF p, base
<1>14. Flat(p, base, 0)
  <2> DEFINE room == Book.room
             spec == Book.specs[Book.template]
  <2>1. ~(Asked > room)
    <3>1. Asked \in Nat /\ room \in Nat /\ Asked <= room
      BY <1>9, <1>11
    <3> HIDE DEF room
    <3> QED
      BY <3>1
  <2>2. 0 \in Nat /\ 0 <= spec
    <3>1. spec \in Nat
      BY <1>9
    <3> HIDE DEF spec
    <3> QED
      BY <3>1
  <2> QED
    BY <1>13, <2>1, <2>2 DEF Flat
<1> QED
  BY <1>8, <1>12, <1>14 DEF FlatRoom

\* While the Deployment exists no cascade is under way.
LEMMA LivingOps ==
  ASSUME Living, stack # << >>
  PROVE  Head(stack).op \in SideOps \cup {"deployments", "next", "plan"}
<1> DEFINE C == CalmFrames(KindOf(deploy))
           Calm == SideOps \cup {"deployments", "next", "plan"}
<1>1. \A f \in C : f.op \in Calm
  BY CalmKinds DEF SideOps
<1>2. \A f \in CreatingFrames(deploy) : f.op \in Calm
  BY DEF CreatingFrames
<1>3. \A f \in ScaleFrames : f.op \in Calm
  BY DEF ScaleFrames, SideOps
<1>4. \A event : Delivery(event, 1).op \in Calm
  BY DEF Delivery, SideOps
<1> SUFFICES Head(stack).op \in Calm
  OBVIOUS
<1> HIDE DEF C, Calm
<1>5. CASE stack \in Seq(C)
  <2>1. Head(stack) \in C
    BY <1>5, Unstacked
  <2> QED
    BY <1>1, <2>1
<1>6. ASSUME NEW rest \in Seq(C), NEW frame, frame.op \in Calm, stack = <<frame>> \o rest
      PROVE  Head(stack).op \in Calm
  BY <1>6, Stacked
<1>7. ASSUME NEW rest \in Seq(C), NEW frame, NEW top, top.op \in Calm,
             stack = <<top>> \o (<<frame>> \o rest)
      PROVE  Head(stack).op \in Calm
  <2> DEFINE S == C \cup {frame}
  <2>1. rest \in Seq(S) /\ frame \in S
    OBVIOUS
  <2> HIDE DEF S
  <2>2. <<frame>> \o rest \in Seq(S)
    BY <2>1, Stacked
  <2> QED
    BY <1>7, <2>2, Stacked
<1>8. \/ stack \in Seq(C)
      \/ \E rest \in Seq(C) : \E frame \in CreatingFrames(deploy) : stack = <<frame>> \o rest
      \/ \E rest \in Seq(C) : \E frame \in ScaleFrames :
            \/ stack = <<frame>> \o rest
            \/ stack = <<Delivery(Event("Pod", frame.template), 1)>> \o (<<frame>> \o rest)
  BY DEF Living, LivingStack, C
<1>9. CASE \E rest \in Seq(C) : \E frame \in CreatingFrames(deploy) : stack = <<frame>> \o rest
  BY <1>2, <1>6, <1>9
<1>10. ASSUME NEW rest \in Seq(C), NEW frame \in ScaleFrames,
              \/ stack = <<frame>> \o rest
              \/ stack = <<Delivery(Event("Pod", frame.template), 1)>> \o (<<frame>> \o rest)
       PROVE  Head(stack).op \in Calm
  <2>1. CASE stack = <<frame>> \o rest
    BY <1>3, <1>6, <2>1
  <2>2. CASE stack = <<Delivery(Event("Pod", frame.template), 1)>> \o (<<frame>> \o rest)
    BY <1>4, <1>7, <2>2
  <2> QED
    BY <1>10, <2>1, <2>2
<1> QED
  BY <1>5, <1>8, <1>9, <1>10

\* Nothing but the stack, the objects and the two queues matters.
LEMMA StutterRoom ==
  ASSUME UNCHANGED vars, RoomInv
  PROVE  RoomInv'
<1>1. /\ deploy' = deploy /\ replicaSets' = replicaSets /\ pods' = pods
      /\ stack' = stack /\ queued' = queued
  BY DEF vars, store
<1>2. Book' = Book /\ Asked' = Asked /\ KeptTotal' = KeptTotal /\ Rolling' = Rolling
      /\ Placed(replicaSets') = Placed(replicaSets)
  BY <1>1 DEF Book, Asked, KeptTotal, Rolling
<1>3. \A p, base, u : Flat(p, base, u) => Flat(p, base, u)'
  BY <1>1, <1>2 DEF Flat
<1>4. ASSUME NEW p, NEW base, NEW q, NEW rest, NEW u, NEW v, NEW n,
             Deep(p, base, q, rest, u, v, n)
      PROVE  Deep(p, base, q, rest, u, v, n)'
  BY <1>1, <1>2, <1>4, Zenon DEF Deep
<1>5. FlatRoom => FlatRoom'
  BY <1>3 DEF FlatRoom
<1>6. DeepRoom => DeepRoom'
  BY <1>4 DEF DeepRoom
<1> QED
  BY <1>1, <1>2, <1>5, <1>6 DEF RoomInv

\* Every step keeps the invariant, when nobody asks for fewer replicas.
LEMMA NextKeepsRoom ==
  ASSUME ~ScaleDown, AllInv, AllInv', RoomInv, [Next]_vars
  PROVE  RoomInv'
<1>1. StoreType /\ StoreType' /\ KeysType /\ IInv /\ (Living \/ Dying)
  BY DEF AllInv, OInv
<1> SUFFICES ASSUME Rolling' PROVE RoomInv'
  BY DEF RoomInv
<1>2. CASE Run
  <2>1. Living
    <3>1. deploy = None => deploy' = None
      BY <1>2, RunWrites
    <3>2. deploy # None
      BY <3>1 DEF Rolling
    <3> QED
      BY <1>1, <3>2 DEF Dying
  <2>2. Rolling /\ stack # << >>
    BY <1>2, <2>1, StrategyKept DEF Run
  <2>3. Head(stack).op \in SideOps \cup {"deployments", "next", "plan"}
    BY <2>1, <2>2, LivingOps
  <2>4. CASE Head(stack).op \in SideOps
    BY <1>1, <1>2, <2>1, <2>2, <2>4, SideRoom
  <2>5. CASE Head(stack).op = "deployments"
    BY <1>1, <1>2, <2>1, <2>2, <2>5, LoopRoom
  <2>6. CASE Head(stack).op = "next"
    BY <1>1, <1>2, <2>2, <2>6, NextRoom
  <2>7. CASE Head(stack).op = "plan"
    BY <1>1, <1>2, <2>1, <2>2, <2>7, PlanRoom
  <2> QED
    BY <2>3, <2>4, <2>5, <2>6, <2>7
<1>3. CASE TimerFires
  <2>1. deploy' = deploy
    BY <1>3 DEF TimerFires, Reconcile, Return, store
  <2> QED
    BY <1>1, <1>3, <2>1, TimerRoom DEF Rolling
<1>4. CASE ResyncDeployment
  <2>1. Idle /\ EnqueueDeployment(<< >>)
    BY <1>4 DEF ResyncDeployment
  <2>2. UNCHANGED store
    BY <2>1 DEF EnqueueDeployment, Return
  <2>3. Rolling
    BY <2>2 DEF Rolling, store
  <2> QED
    BY <1>1, <2>1, <2>2, <2>3, CallbackRoom
<1>5. ASSUME NEW t \in Templates, ResyncReplicaSet(t) PROVE RoomInv'
  <2>1. Idle /\ EnqueueReplicaSet(t, << >>)
    BY <1>5 DEF ResyncReplicaSet
  <2>2. UNCHANGED store
    BY <2>1 DEF EnqueueReplicaSet, Return
  <2>3. Rolling
    BY <2>2 DEF Rolling, store
  <2> QED
    BY <1>1, <2>1, <2>2, <2>3, CallbackRoom
<1>6. ASSUME NEW t \in Templates, NEW i,
             PodReady(t, i) \/ PodUnready(t, i) \/ PodEnds(t, i) \/ DeletePod(t, i)
      PROVE  RoomInv'
  <2>1. PICK list : Idle /\ SetPods(t, list, << >>)
    BY <1>6, Zenon DEF PodReady, PodUnready, PodEnds, DeletePod, SetReady, Edit
  <2>2. Rolling
    BY <2>1 DEF SetPods, Rolling
  <2> QED
    BY <1>1, <2>1, <2>2, PodRoom
<1>7. CASE \/ \E n \in 0..MaxReplicas : Scale(n)
           \/ \E t \in Templates : ChangeTemplate(t)
  <2>1. Idle
    BY <1>7 DEF Scale, ChangeTemplate, Edit
  <2>2. Rolling
    <3> DEFINE Old(new) == UpdateDeployment(new, << >>) /\ new.strategy = deploy.strategy
    <3>1. deploy # None /\ deploy \in Deployments
      BY <1>1, <1>7 DEF Scale, ChangeTemplate, StoreType
    <3>2. \E new : Old(new)
      <4>1. \A n : [deploy EXCEPT !.replicas = n].strategy = deploy.strategy
        BY <3>1 DEF Deployments
      <4>2. \A t : [deploy EXCEPT !.template = t].strategy = deploy.strategy
        BY <3>1 DEF Deployments
      <4> QED
        BY <1>7, <4>1, <4>2, Zenon DEF Scale, ChangeTemplate
    <3>3. PICK new : Old(new)
      BY <3>2
    <3>4. deploy' = new
      BY <3>1, <3>3 DEF UpdateDeployment, Deliver
    <3> QED
      BY <3>1, <3>3, <3>4 DEF Rolling
  <2> QED
    BY <1>1, <1>7, <2>1, <2>2, EditRoom
<1>8. CASE DeleteDeployment
  BY <1>8 DEF DeleteDeployment, Rolling
<1>9. ASSUME NEW d \in NewDeployments, CreateDeployment(d) PROVE RoomInv'
  <2>1. Idle /\ Dying
    BY <1>1, <1>9 DEF CreateDeployment, Edit, Living
  <2> QED
    BY <1>1, <1>9, <2>1, CreationRoom
<1>10. CASE UNCHANGED vars
  BY <1>10, StutterRoom
<1> QED
  BY <1>2, <1>3, <1>4, <1>5, <1>6, <1>7, <1>8, <1>9, <1>10 DEF Next

\* Between calls the ReplicaSets have the pods they ask for, and no others.
LEMMA IdlePods ==
  ASSUME AllInv, Idle, deploy # None
  PROVE  Active = Asked
<1>1. rsQueue = << >>
  BY EmptyStack DEF AllInv, IInv, Attended, Idle
<1>2. Living /\ StoreType
  BY DEF AllInv, OInv, Dying
<1>3. \A t \in Owned(replicaSets) : Settled(t)
  BY <1>1, <1>2, IdleTells DEF Living, SetTold, Contains
<1>4. ASSUME NEW t \in Templates
      PROVE  Len(pods[t]) = IF replicaSets[t] = None THEN 0 ELSE replicaSets[t].spec
  <2>1. CASE replicaSets[t] = None
    <3>1. pods[t] = << >>
      BY <1>2, <2>1 DEF Living, Unowned
    <3> QED
      BY <2>1, <3>1
  <2>2. CASE replicaSets[t] # None
    BY <1>3, <2>2 DEF Owned, Settled
  <2> QED
    BY <2>1, <2>2
<1>5. [t \in Templates |-> Len(pods[t])] = Specs(replicaSets)
  BY <1>4 DEF Specs
<1> QED
  BY <1>5 DEF Active, Asked

\* However the callbacks of a reconcile nest, whatever pods fail and however
\* often users change the template or ask for more replicas, a rolling update
\* has at most replicas + maxSurge pods whenever a call has returned, as long as
\* nobody asks for fewer replicas: reconcileRollingUpdate computes what it writes
\* from what it read before its earlier writes, and yet never adds to the
\* current ReplicaSet what the old ones have not given up.
THEOREM SurgeIsKept ==
  ASSUME ~ScaleDown
  PROVE  Spec => []SurgeKept
<1>1. Init => RoomInv
  BY RoomInit
<1>2. AllInv /\ AllInv' /\ RoomInv /\ [Next]_vars => RoomInv'
  BY NextKeepsRoom
<1>3. AllInv /\ RoomInv => SurgeKept
  <2> SUFFICES ASSUME AllInv, RoomInv, Idle, Rolling
               PROVE  Active <= Ceiling(deploy)
    BY DEF SurgeKept, Rolling
  <2>1. StoreType /\ deploy # None /\ deploy \in Deployments /\ replicaSets \in ReadSets
    BY DEF AllInv, OInv, StoreType, Rolling
  <2>2. Asked <= Book.room
    BY <2>1, IdleRoom
  <2>3. Book.room = Ceiling(deploy)
    BY <2>1, BookIs DEF Book
  <2> QED
    BY <2>1, <2>2, <2>3, IdlePods
<1> QED
  BY <1>1, <1>2, <1>3, Inductive, PTL DEF Spec

-------------------------------------------------------------------------------
(* Availability: calls that reconcile ReplicaSets on behalf of a plan *)

SetsLoop == [op |-> "replicaSets"]

\* Frames under which a ReplicaSet may not be what its status says
Owes(frame) ==
  \/ frame.op \in {"replicaSets", "scale"}
  \/ frame.op = "deliver" /\ frame.event \in SetEvents

\* Every such frame was called by a plan.
Based(frames) ==
  \A i \in DOMAIN frames :
    Owes(frames[i]) => \E j \in DOMAIN frames : j > i /\ frames[j].op = "plan"

\* What that says of the frame on top
LEMMA BasedIs ==
  ASSUME NEW S, NEW rest \in Seq(S), NEW frame
  PROVE  /\ Based(<< >>)
         /\ Based(<<frame>> \o rest) <=>
              Based(rest) /\ (Owes(frame) => Draining("plan", rest))
<1> DEFINE frames == <<frame>> \o rest
           T == S \cup {frame}
<1>1. <<frame>> \in Seq(T) /\ rest \in Seq(T) /\ Len(<<frame>>) = 1 /\ <<frame>>[1] = frame
  OBVIOUS
<1>2. /\ frames \in Seq(T) /\ Len(frames) = 1 + Len(rest) /\ Len(rest) \in Nat
      /\ frames[1] = frame /\ \A k \in 1..Len(rest) : frames[1 + k] = rest[k]
  BY <1>1, ConcatType
<1>3. DOMAIN frames = 1..(1 + Len(rest)) /\ DOMAIN rest = 1..Len(rest)
  BY <1>2
<1> HIDE DEF frames
<1>4. ASSUME Based(frames) PROVE Based(rest) /\ (Owes(frame) => Draining("plan", rest))
  <2>1. ASSUME NEW i \in DOMAIN rest, Owes(rest[i])
        PROVE  \E j \in DOMAIN rest : j > i /\ rest[j].op = "plan"
    <3>1. 1 + i \in DOMAIN frames /\ frames[1 + i] = rest[i]
      BY <1>2, <1>3
    <3>2. PICK j \in DOMAIN frames : j > 1 + i /\ frames[j].op = "plan"
      BY <1>4, <2>1, <3>1 DEF Based
    <3>3. j - 1 \in DOMAIN rest /\ 1 + (j - 1) = j /\ j - 1 > i
      BY <1>2, <1>3, <3>2
    <3> QED
      BY <1>2, <1>3, <3>2, <3>3
  <2>2. ASSUME Owes(frame) PROVE Draining("plan", rest)
    <3>1. 1 \in DOMAIN frames
      BY <1>2, <1>3
    <3>2. PICK j \in DOMAIN frames : j > 1 /\ frames[j].op = "plan"
      BY <1>2, <1>4, <2>2, <3>1 DEF Based
    <3>3. j - 1 \in DOMAIN rest /\ 1 + (j - 1) = j
      BY <1>2, <1>3, <3>2
    <3> QED
      BY <1>2, <1>3, <3>2, <3>3 DEF Draining
  <2> QED
    BY <2>1, <2>2 DEF Based
<1>5. ASSUME Based(rest), Owes(frame) => Draining("plan", rest) PROVE Based(frames)
  <2>1. ASSUME NEW i \in DOMAIN frames, Owes(frames[i])
        PROVE  \E j \in DOMAIN frames : j > i /\ frames[j].op = "plan"
    <3>1. PICK k \in DOMAIN rest : 1 + k > i /\ rest[k].op = "plan"
      <4>1. CASE i = 1
        <5>1. PICK k \in DOMAIN rest : rest[k].op = "plan"
          BY <1>2, <1>5, <2>1, <4>1 DEF Draining
        <5> QED
          BY <1>3, <4>1, <5>1
      <4>2. CASE i # 1
        <5>1. i - 1 \in DOMAIN rest /\ 1 + (i - 1) = i
          BY <1>2, <1>3, <4>2
        <5>2. Owes(rest[i - 1])
          BY <1>2, <1>3, <2>1, <5>1
        <5>3. PICK k \in DOMAIN rest : k > i - 1 /\ rest[k].op = "plan"
          BY <1>5, <5>1, <5>2 DEF Based
        <5> QED
          BY <1>2, <1>3, <5>1, <5>3
      <4> QED
        BY <4>1, <4>2
    <3>2. 1 + k \in DOMAIN frames /\ frames[1 + k] = rest[k]
      BY <1>2, <1>3
    <3> QED
      BY <3>1, <3>2
  <2> QED
    BY <2>1 DEF Based
<1>6. Based(<< >>)
  BY DEF Based
<1> QED
  BY <1>4, <1>5, <1>6 DEF frames

\* What such a call adds above a plan
LEMMA BasedOver ==
  ASSUME NEW frames, NEW base, Over(frames, base), Based(base), Draining("plan", base)
  PROVE  Based(frames)
<1>1. PICK S : \E above \in Seq(S) : \E T :
                 /\ base \in Seq(T) /\ frames = above \o base
                 /\ \A f \in S : f.op \in SideOps
  BY DEF Over
<1>2. PICK above \in Seq(S) : \E T :
                 /\ base \in Seq(T) /\ frames = above \o base
                 /\ \A f \in S : f.op \in SideOps
  BY <1>1
<1>3. PICK T : /\ base \in Seq(T) /\ frames = above \o base
               /\ \A f \in S : f.op \in SideOps
  BY <1>2
<1> DEFINE V == S \cup T
<1>4. above \in Seq(V) /\ base \in Seq(V)
  BY <1>3
<1> HIDE DEF V
<1>5. /\ frames \in Seq(V) /\ Len(frames) = Len(above) + Len(base) /\ Len(base) \in Nat
      /\ \A k \in 1..Len(base) : frames[Len(above) + k] = base[k]
  BY <1>3, <1>4, ConcatType
<1>6. /\ DOMAIN frames = 1..(Len(above) + Len(base)) /\ DOMAIN base = 1..Len(base)
      /\ Len(above) \in Nat
  BY <1>4, <1>5
<1>7. ASSUME NEW i \in DOMAIN frames, Owes(frames[i])
      PROVE  \E j \in DOMAIN frames : j > i /\ frames[j].op = "plan"
  <2>1. PICK k \in DOMAIN base : Len(above) + k > i /\ base[k].op = "plan"
    <3>1. CASE i <= Len(above)
      <4>1. PICK k \in DOMAIN base : base[k].op = "plan"
        BY DEF Draining
      <4> QED
        BY <1>5, <1>6, <3>1, <4>1
    <3>2. CASE ~(i <= Len(above))
      <4>1. i - Len(above) \in DOMAIN base /\ Len(above) + (i - Len(above)) = i
        BY <1>5, <1>6, <3>2
      <4>2. Owes(base[i - Len(above)])
        BY <1>5, <1>6, <1>7, <4>1
      <4>3. PICK k \in DOMAIN base : k > i - Len(above) /\ base[k].op = "plan"
        BY <4>1, <4>2 DEF Based
      <4> QED
        BY <1>5, <1>6, <4>1, <4>3
    <3> QED
      BY <3>1, <3>2
  <2>2. Len(above) + k \in DOMAIN frames /\ frames[Len(above) + k] = base[k]
    BY <1>5, <1>6
  <2> QED
    BY <2>1, <2>2
<1> QED
  BY <1>7 DEF Based

\* A plan that runs, and its first step
LEMMA LivingPlan ==
  ASSUME Living, stack # << >>, Head(stack).op = "plan"
  PROVE  \E S, T, step : \E later \in Seq(S), rest \in Seq(T) :
           /\ stack = <<PlanFrame(<<step>> \o later)>> \o rest
           /\ step.do \in {"sets", "create"} => later # << >>
<1> DEFINE C == CalmFrames(KindOf(deploy))
<1>1. ASSUME NEW S, NEW steps \in Seq(S), steps # << >>, NEW rest \in Seq(C),
             stack = <<PlanFrame(steps)>> \o rest,
             Len(steps) = 1 => ~(Head(steps).do \in {"sets", "create"})
      PROVE  \E U, T, step : \E later \in Seq(U), r \in Seq(T) :
               /\ stack = <<PlanFrame(<<step>> \o later)>> \o r
               /\ step.do \in {"sets", "create"} => later # << >>
  <2>3. Head(steps) \in S /\ Tail(steps) \in Seq(S) /\ steps = <<Head(steps)>> \o Tail(steps)
    BY <1>1, Unstacked
  <2>1. PICK step \in S, later \in Seq(S) : steps = <<step>> \o later
    BY <2>3
  <2>2. Head(steps) = step /\ (Len(steps) = 1 <=> later = << >>)
    BY <2>1, Pushed
  <2> HIDE DEF C
  <2> QED
    BY <1>1, <2>1, <2>2
<1>2. CASE stack \in Seq(C)
  <2>1. PICK frame \in C, rest \in Seq(C) : stack = <<frame>> \o rest
    BY <1>2, Unstacked
  <2>2. frame.op = "plan"
    BY <2>1, Stacked
  <2>3. /\ frame = [op |-> "plan", steps |-> frame.steps]
        /\ \E d \in DeploymentsOf(KindOf(deploy)) : frame.steps \in CalmPlans(d)
    BY <2>2, CalmKinds DEF DeliverFrames
  <2>4. PICK d : \E steps \in CalmPlans(d) : frame = PlanFrame(steps)
    BY <2>3 DEF PlanFrame
  <2>6. PICK steps \in CalmPlans(d) : frame = PlanFrame(steps)
    BY <2>4
  <2>5. /\ steps \in Seq(LaterSteps(d)) /\ steps # << >>
        /\ Len(steps) = 1 => Head(steps).do = "status"
    BY <2>6, CalmPlanSteps DEF CalmPlans
  <2> HIDE DEF C
  <2> QED
    BY <1>1, <2>1, <2>6, <2>5 DEF C
<1>3. ASSUME NEW rest \in Seq(C), NEW frame \in CreatingFrames(deploy),
             stack = <<frame>> \o rest
      PROVE  \E S, T, step : \E later \in Seq(S), r \in Seq(T) :
               /\ stack = <<PlanFrame(<<step>> \o later)>> \o r
               /\ step.do \in {"sets", "create"} => later # << >>
  <2>1. PICK steps \in PlansOf(deploy) :
          frame = PlanFrame(steps) /\ Head(steps).do = "create"
    BY DEF CreatingFrames, PlanFrame
  <2>2. ~(steps \in CalmPlans(deploy))
    <3>1. ASSUME steps \in CalmPlans(deploy) PROVE FALSE
      <4>1. Head(steps) \in LaterSteps(deploy)
        BY <3>1, CalmPlanSteps
      <4> QED
        BY <2>1, <4>1, LaterTypes
    <3> QED
      BY <3>1
  <2>3. Len(steps) # 1
    BY <2>2, PlanKinds
  <2>4. steps \in Seq(CreateSteps \cup LaterSteps(deploy)) /\ steps # << >>
    BY DEF PlansOf
  <2> HIDE DEF C
  <2> QED
    BY <1>1, <1>3, <2>1, <2>3, <2>4
<1>4. ASSUME NEW rest \in Seq(C), NEW frame \in ScaleFrames, NEW event,
             \/ stack = <<frame>> \o rest
             \/ stack = <<Delivery(event, 1)>> \o (<<frame>> \o rest)
      PROVE  FALSE
  <2> DEFINE S == C \cup {frame}
             top == Delivery(event, 1)
  <2>1. frame.op # "plan" /\ top.op # "plan"
    BY DEF Delivery, ScaleFrames
  <2>2. rest \in Seq(S) /\ frame \in S
    OBVIOUS
  <2> HIDE DEF S, C, top
  <2>3. <<frame>> \o rest \in Seq(S)
    BY <2>2, Stacked
  <2> QED
    BY <1>4, <2>1, <2>2, <2>3, Stacked DEF top
<1> HIDE DEF C
<1> QED
  BY <1>2, <1>3, <1>4 DEF Living, LivingStack, C

\* Such a call stays one, and so does the one that a plan makes.
LEMMA BasedRuns ==
  ASSUME StoreType, KeysType, Living, Run, Based(stack)
  PROVE  Based(stack')
<1>1. stack # << >>
  BY DEF Run
<1>2. PICK S, frame : \E r \in Seq(S) :
        /\ stack = <<frame>> \o r
        /\ frame.op = "deliver" => frame \in DeliverFrames
        /\ frame.op = "scale" => frame \in ScaleFrames /\ Scaling(frame)
  BY <1>1, LivingTop
<1>3. PICK rest \in Seq(S) :
        /\ stack = <<frame>> \o rest
        /\ frame.op = "deliver" => frame \in DeliverFrames
        /\ frame.op = "scale" => frame \in ScaleFrames /\ Scaling(frame)
  BY <1>2
<1>4. /\ Head(stack) = frame /\ Tail(stack) = rest
      /\ Based(rest) /\ (Owes(frame) => Draining("plan", rest))
  BY <1>3, Stacked, BasedIs
<1>5. ASSUME NEW T, NEW r \in Seq(T), Based(r), NEW n
      PROVE  Based(<<DeploymentsLoop(n)>> \o r)
  <2>1. ~Owes(DeploymentsLoop(n))
    BY DEF Owes, DeploymentsLoop
  <2> QED
    BY <1>5, <2>1, BasedIs
<1>6. ASSUME NEW T, NEW r \in Seq(T), Based(r), EnqueueDeployment(r)
      PROVE  Based(stack')
  BY <1>5, <1>6 DEF EnqueueDeployment, Return
<1>7. CASE Owes(frame)
  <2>1. frame.op \in SideOps
    BY <1>7 DEF Owes, SideOps
  <2>2. Beside(rest)
    BY <1>1, <1>4, <2>1, SideRuns
  <2>3. PICK frames : /\ \A base : Over(rest, base) => Over(frames, base)
                      /\ \/ stack' = frames
                         \/ stack' = <<DeploymentsLoop(MaxBatch)>> \o frames
    BY <2>2 DEF Beside
  <2>4. Over(frames, rest)
    BY <2>3, OverSame
  <2>5. Based(frames)
    BY <1>4, <1>7, <2>4, BasedOver
  <2>6. PICK T : frames \in Seq(T)
    BY <2>4, OverKeeps
  <2> QED
    BY <1>5, <2>3, <2>5, <2>6
<1>8. CASE frame.op \in SideOps /\ ~Owes(frame)
  <2>1. frame.op = "deliver" /\ frame.event \notin SetEvents /\ frame \in DeliverFrames
    BY <1>3, <1>8 DEF SideOps, Owes
  <2>2. DeliverStep(frame, rest)
    BY <1>3, <2>1, RunIs
  <2>3. frame.event.type = "DeploymentUpdated"
    BY <2>1 DEF DeliverFrames, DeploymentEvents
  <2>4. EnqueueDeployment(rest)
    BY <2>1, <2>2, <2>3, DeliverKinds
  <2> QED
    BY <1>4, <1>6, <2>4
<1>9. CASE frame.op = "deployments"
  <2>1. DrainDeployments(frame, rest)
    BY <1>3, <1>9, RunIs
  <2> DEFINE loop == <<DeploymentsLoop(frame.left - 1)>> \o rest
  <2>2. stack' = rest \/ Reconcile(loop)
    BY <2>1 DEF DrainDeployments, Return
  <2>3. CASE stack' = rest
    BY <1>4, <2>3
  <2>4. CASE Reconcile(loop)
    <3>1. Based(loop) /\ \E T : loop \in Seq(T)
      <4> DEFINE f == DeploymentsLoop(frame.left - 1)
                 T == S \cup {f}
      <4>1. rest \in Seq(T) /\ f \in T
        OBVIOUS
      <4>2. <<f>> \o rest \in Seq(T)
        <5> HIDE DEF f, T
        <5> QED
          BY <4>1, Stacked
      <4> QED
        BY <1>4, <1>5, <4>2
    <3> HIDE DEF loop
    <3> DEFINE plan == PlanFrame(Plan(deploy, replicaSets))
    <3>2. stack' = loop \/ stack' = <<plan>> \o loop
      BY <2>4 DEF Reconcile, Return, PlanFrame
    <3>3. ~Owes(plan)
      BY DEF Owes, PlanFrame
    <3> HIDE DEF plan
    <3> QED
      BY <3>1, <3>2, <3>3, BasedIs, ZenonT(60)
  <2> QED
    BY <2>2, <2>3, <2>4
<1>10. CASE frame.op = "next"
  <2>1. AfterNext(rest)
    BY <1>3, <1>10, RunIs
  <2>2. EnqueueDeployment(rest) \/ stack' = rest
    BY <2>1 DEF AfterNext, Return
  <2> QED
    BY <1>4, <1>6, <2>2
<1>11. CASE frame.op = "plan"
  <2>1. PICK U, T, step : \E later \in Seq(U), r \in Seq(T) :
           /\ stack = <<PlanFrame(<<step>> \o later)>> \o r
           /\ step.do \in {"sets", "create"} => later # << >>
    BY <1>1, <1>4, <1>11, LivingPlan
  <2>2. PICK later \in Seq(U), r \in Seq(T) :
           /\ stack = <<PlanFrame(<<step>> \o later)>> \o r
           /\ step.do \in {"sets", "create"} => later # << >>
    BY <2>1
  <2>3. frame = PlanFrame(<<step>> \o later) /\ r = rest
    BY <1>4, <2>2, Stacked
  <2>4. PlanStep(PlanFrame(<<step>> \o later), rest)
    BY <1>3, <1>11, <2>3, RunIs
  <2>5. ASSUME NEW x
        PROVE  /\ Based(Planned(x, rest)) /\ \E V : Planned(x, rest) \in Seq(V)
               /\ x # << >> => Draining("plan", Planned(x, rest))
    <3>1. PlanFrame(x).op = "plan" /\ ~Owes(PlanFrame(x))
      BY DEF PlanFrame, Owes
    <3>2. x # << >> => Draining("plan", <<PlanFrame(x)>> \o rest)
      BY <3>1, Stacked
    <3>3. Based(<<PlanFrame(x)>> \o rest)
      BY <1>4, <3>1, BasedIs
    <3> QED
      BY <1>4, <3>2, <3>3, PlannedIs
  <2>6. ASSUME NEW x, x # << >>, NEW event, Deliver(event, Planned(x, rest))
        PROVE  Based(stack')
    BY <2>5, <2>6, BasedIs DEF Deliver
  <2>7. ASSUME NEW x, x # << >>, NEW t, NEW rs,
               \/ UpdateReplicaSet(t, rs, Planned(x, rest))
               \/ CreateReplicaSet(t, rs, Planned(x, rest))
        PROVE  Based(stack')
    BY <2>5, <2>6, <2>7 DEF UpdateReplicaSet, CreateReplicaSet, Return
  <2>8. ASSUME NEW d, UpdateDeployment(d, Planned(later, rest)) PROVE Based(stack')
    <3> DEFINE top == Delivery(Event("DeploymentUpdated", None), 1)
    <3>1. ~Owes(top)
      BY DEF Owes, Delivery, Event, SetEvents
    <3>2. stack' = Planned(later, rest) \/ stack' = <<top>> \o Planned(later, rest)
      BY <2>8 DEF UpdateDeployment, Return, Deliver
    <3> DEFINE under == Planned(later, rest)
    <3>3. PICK V : under \in Seq(V)
      BY <2>5
    <3>4. Based(under)
      BY <2>5
    <3>5. stack' = under \/ stack' = <<top>> \o under
      BY <3>2
    <3> HIDE DEF top, under
    <3>6. Based(<<top>> \o under)
      BY <3>1, <3>3, <3>4, BasedIs
    <3> QED
      BY <3>4, <3>5, <3>6
  <2>9. \A x : <<x>> \o later # << >>
    BY Pushed
  <2>10. CASE step.do = "sets"
    <3>1. later # << >>
      BY <2>2, <2>10
    <3>2. \E x, t, rs : x # << >> /\ UpdateReplicaSet(t, rs, Planned(x, rest))
      <4>1. PICK write \in step.writes :
              \/ UpdateReplicaSet(write.template, write.rs, Planned(later, rest))
              \/ UpdateReplicaSet(write.template, write.rs,
                   Planned(<<[step EXCEPT !.writes = @ \ {write}]>> \o later, rest))
        BY <2>2, <2>4, <2>10, PlanStepIs
      <4> QED
        BY <2>9, <3>1, <4>1
    <3> QED
      BY <2>7, <3>2
  <2>11. CASE step.do = "create"
    <3>1. later # << >>
      BY <2>2, <2>11
    <3>2. CreateReplicaSet(step.template, step.rs, Planned(later, rest))
      BY <2>2, <2>4, <2>11, PlanStepIs
    <3> QED
      BY <2>7, <3>1, <3>2
  <2>12. CASE step.do \notin {"sets", "create"}
    <3>1. \/ EnqueueDeployment(Planned(later, rest))
          \/ stack' = Planned(later, rest)
          \/ \E d : UpdateDeployment(d, Planned(later, rest))
      BY <2>2, <2>4, <2>12, PlanStepIs
    <3>2. ASSUME EnqueueDeployment(Planned(later, rest)) PROVE Based(stack')
      <4> DEFINE under == Planned(later, rest)
      <4>1. PICK V : under \in Seq(V)
        BY <2>5
      <4>2. Based(under) /\ EnqueueDeployment(under)
        BY <2>5, <3>2
      <4> HIDE DEF under
      <4> QED
        BY <1>6, <4>1, <4>2
    <3>3. CASE stack' = Planned(later, rest)
      BY <2>5, <3>3
    <3> QED
      BY <2>8, <3>1, <3>2, <3>3
  <2> QED
    BY <2>10, <2>11, <2>12
<1> QED
  BY <1>1, <1>4, <1>7, <1>8, <1>9, <1>10, <1>11, LivingOps

(* Availability: what a status may say of the pods *)

\* It does not count more ready pods than there are.
Honest(t) == replicaSets[t].available <= ReadyOf(pods[t])

\* The current ReplicaSet is honest and lacks pods at most.  An old one has too
\* many at most, and if its status reports none that is not ready there is none.
Fits(t) ==
  IF t = deploy.template
  THEN Honest(t) /\ Len(pods[t]) <= replicaSets[t].spec
  ELSE /\ Len(pods[t]) >= replicaSets[t].spec
       /\ replicaSets[t].replicas <= replicaSets[t].available
            => ReadyOf(pods[t]) = Len(pods[t])

Others(t) == Owned(replicaSets) \ {t}

\* An old ReplicaSet has got a pod that its status does not count yet, its key is
\* the next one, and all statuses are honest.
Window(t) ==
  /\ t # deploy.template
  /\ \A u \in Owned(replicaSets) : Honest(u)
  /\ \A u \in Others(t) : Fits(u)
  /\ Len(pods[t]) >= replicaSets[t].spec /\ ReadyOf(pods[t]) < Len(pods[t])
  /\ rsQueue # << >> /\ Head(rsQueue) = t

Sound ==
  \/ \A t \in Owned(replicaSets) : Fits(t)
  \/ \E t \in Owned(replicaSets) : Window(t)

(* A call that begins with a pod or a resync *)

Bottom == <<SetsLoop>>
PodTold(t) == Delivery(Event("Pod", t), 1)
Scaled(frame) == <<frame>> \o Bottom

\* A pod has changed, or a ReplicaSet is resynced.
Touched(t) ==
  /\ t \in Owned(replicaSets)
  /\ \/ stack = <<PodTold(t)>> /\ rsQueue = << >>
     \/ stack = Bottom /\ rsQueue = <<t>>
  /\ \A u \in Others(t) : Fits(u) /\ Honest(u)
  /\ replicaSets[t].spec \in {Len(pods[t]), Len(pods[t]) + 1}

\* An old ReplicaSet gets a pod for the one that it has lost.
Replacing(frame) ==
  LET t == frame.template
  IN  /\ frame \in ScaleFrames /\ Scaling(frame) /\ t # deploy.template
      /\ \A u \in Others(t) : Fits(u) /\ Honest(u)
      /\ frame.delete = 0 /\ frame.status.available <= ReadyOf(pods[t])
      /\ \/ frame.create = 1 /\ stack = Scaled(frame) /\ rsQueue = << >>
         \/ /\ frame.create = 0 /\ ReadyOf(pods[t]) < Len(pods[t])
            /\ \/ stack = <<PodTold(t)>> \o Scaled(frame) /\ rsQueue = << >>
               \/ stack = Scaled(frame) /\ rsQueue = <<t>>

\* The current ReplicaSet gets pods, or an old one loses some.
Adjusting(frame) ==
  LET t == frame.template
  IN  /\ frame \in ScaleFrames /\ Scaling(frame)
      /\ \A u \in Others(t) : Fits(u)
      /\ IF t = deploy.template
         THEN frame.delete = 0 /\ frame.status.available <= ReadyOf(pods[t])
         ELSE /\ frame.create = 0
              /\ frame.status.replicas <= frame.status.available
                   => ReadyOf(pods[t]) = Len(pods[t])
      /\ stack = Scaled(frame) \/ stack = <<PodTold(t)>> \o Scaled(frame)

\* A write of a plan takes no statuses back.
FaithfulWrite(write, d, read, lists) ==
  LET t == write.template
      rs == write.rs
  IN  /\ t \in Owned(read)
      /\ rs.replicas = read[t].replicas /\ rs.available = read[t].available
      /\ IF t = d.template THEN Len(lists[t]) <= rs.spec ELSE rs.spec <= Len(lists[t])

FaithfulStep(step, d, read, lists) ==
  /\ step.do \in {"deployment", "status"} => Same(step.deploy, d)
  /\ step.do = "sets" =>
       \A write \in step.writes : FaithfulWrite(write, d, read, lists)
  /\ step.do = "create" => /\ step.template = d.template /\ read[d.template] = None
                           /\ step.rs.replicas = 0 /\ step.rs.available = 0

Faithful(steps, d, read, lists) ==
  \A k \in DOMAIN steps : FaithfulStep(steps[k], d, read, lists)

WriteSteps == SetsSteps \cup AgainSteps \cup DeploymentSteps

\* What is left of a plan of the immediate loop.  It may begin by creating the
\* current ReplicaSet.
Honors(steps) ==
  \/ steps = << >>
  \/ \E step \in CreateSteps \cup WriteSteps, later \in Seq(WriteSteps) :
       /\ steps = <<step>> \o later
       /\ FaithfulStep(step, deploy, replicaSets, pods)
       /\ Faithful(later, deploy, replicaSets, pods)

UpdateFrames == {frame \in DeliverFrames : frame.event.type = "ReplicaSetUpdated"}
LoopOver(n, frame) == <<DeploymentsLoop(n)>> \o (<<frame>> \o Bottom)

\* The status has been written, and the two controllers take turns.
Conversing ==
  /\ Sound
  /\ \/ stack = Bottom
     \/ \E frame \in UpdateFrames : stack = <<frame>> \o Bottom
     \/ \E frame \in UpdateFrames, n \in Nat : \E steps :
          /\ Honors(steps)
          /\ \/ stack = Planned(steps, LoopOver(n, frame))
             \/ \E top \in DeliverFrames :
                  stack = <<top>> \o Planned(steps, LoopOver(n, frame))

AvailInv ==
  Rolling => \/ Based(stack)
             \/ \E t \in Templates : Touched(t)
             \/ \E frame : Replacing(frame) \/ Adjusting(frame)
             \/ Conversing

(* Lists of pods *)

\* A pod that comes is not ready; one that goes leaves the others.
LEMMA ReadyKept ==
  ASSUME NEW list \in Seq(BOOLEAN)
  PROVE  /\ ReadyOf(list) \in Nat /\ ReadyOf(list) <= Len(list)
         /\ ReadyOf(Append(list, FALSE)) = ReadyOf(list)
         /\ list # << >> /\ ReadyOf(list) = Len(list)
              => ReadyOf(Tail(list)) = Len(Tail(list))
<1>4. Len(list) \in Nat /\ DOMAIN list = 1..Len(list)
  OBVIOUS
<1>1. ReadyOf(list) \in Nat /\ ReadyOf(list) <= Len(list) /\ Len(list) \in Nat
  BY <1>4, ReadyCounts
<1>2. ReadyOf(Append(list, FALSE)) = ReadyOf(list)
  <2> DEFINE more == Append(list, FALSE)
  <2>1. /\ DOMAIN more = 1..(Len(list) + 1) /\ DOMAIN list = 1..Len(list)
        /\ \A i \in 1..Len(list) : more[i] = list[i]
        /\ more[Len(list) + 1] = FALSE
    <3>1. /\ Len(more) = Len(list) + 1 /\ more \in Seq(BOOLEAN) /\ FALSE \in BOOLEAN
          /\ \A i \in 1..Len(list) : more[i] = list[i]
          /\ more[Len(list) + 1] = FALSE
      BY AppendProperties
    <3> HIDE DEF more
    <3> QED
      BY <3>1
  <2> HIDE DEF more
  <2>2. {i \in DOMAIN more : more[i]} = {i \in DOMAIN list : list[i]}
    BY <1>1, <2>1
  <2> QED
    BY <2>2 DEF ReadyOf, more
<1>3. ASSUME list # << >>, ReadyOf(list) = Len(list)
      PROVE  ReadyOf(Tail(list)) = Len(Tail(list))
  <2>1. /\ DOMAIN list = 1..Len(list) /\ IsFiniteSet(1..Len(list))
        /\ Cardinality(1..Len(list)) = Len(list)
    <3>1. IsFiniteSet(1..Len(list))
          /\ Cardinality(1..Len(list)) = IF 1 > Len(list) THEN 0 ELSE Len(list) - 1 + 1
      <4>1. 1 \in Int /\ Len(list) \in Int
        BY <1>4
      <4> QED
        BY <4>1, FS_Interval
    <3> DEFINE c == Cardinality(1..Len(list))
               n == Len(list)
    <3>2. n \in Nat /\ c = IF 1 > n THEN 0 ELSE n - 1 + 1
      BY <1>1, <3>1
    <3> HIDE DEF c, n
    <3>3. c = n
      BY <3>2
    <3> QED
      BY <1>4, <3>1, <3>3 DEF c, n
  <2>2. \A i \in DOMAIN list : list[i]
    <3>1. {i \in DOMAIN list : list[i]} = 1..Len(list)
      <4>1. {i \in DOMAIN list : list[i]} \subseteq 1..Len(list)
        BY <2>1
      <4>2. Cardinality({i \in DOMAIN list : list[i]}) = Cardinality(1..Len(list))
        BY <1>3, <2>1 DEF ReadyOf
      <4> QED
        BY <2>1, <4>1, <4>2, FS_Subset
    <3> QED
      BY <2>1, <3>1
  <2>3. /\ Len(Tail(list)) = Len(list) - 1 /\ DOMAIN Tail(list) = 1..(Len(list) - 1)
        /\ Len(list) - 1 \in Nat
        /\ \A i \in 1..(Len(list) - 1) : Tail(list)[i] = list[i + 1]
    BY <1>1, <1>3, TailIs
  <2>4. {i \in DOMAIN Tail(list) : Tail(list)[i]} = 1..(Len(list) - 1)
    BY <2>1, <2>2, <2>3
  <2>5. Cardinality(1..(Len(list) - 1)) = Len(list) - 1
    BY <2>3, FS_Interval
  <2> QED
    BY <2>3, <2>4, <2>5 DEF ReadyOf
<1> QED
  BY <1>1, <1>2, <1>3

\* A status counts the pods.
LEMMA StatusIs ==
  ASSUME NEW list \in Seq(BOOLEAN)
  PROVE  /\ ReadyOf(list) \in Nat /\ ReadyOf(list) <= Len(list) /\ Len(list) \in Nat
         /\ SetStatus(list).replicas = Len(list)
         /\ SetStatus(list).available = ReadyOf(list)
<1>1. SetStatus(list).replicas = Len(list) /\ SetStatus(list).available = ReadyOf(list)
  BY DEF SetStatus
<1>2. Len(list) \in Nat
  OBVIOUS
<1> QED
  BY <1>1, <1>2, ReadyKept

(* What the others keep *)

\* Whatever happens to one ReplicaSet and its pods, the others fit as before.
LEMMA OthersKept ==
  ASSUME NEW t, NEW u, u # t, replicaSets'[u] = replicaSets[u], pods'[u] = pods[u],
         deploy'.template = deploy.template
  PROVE  (Fits(u) => Fits(u)') /\ (Honest(u) => Honest(u)')
BY DEF Fits, Honest

\* One ReplicaSet is written, or its pods change.
LEMMA OneChanged ==
  ASSUME StoreType, NEW t \in Owned(replicaSets), UNCHANGED deploy,
         \/ \E rs \in ReplicaSets :
              replicaSets' = [replicaSets EXCEPT ![t] = rs] /\ UNCHANGED pods
         \/ \E list : pods' = [pods EXCEPT ![t] = list] /\ UNCHANGED replicaSets
  PROVE  /\ Owned(replicaSets)' = Owned(replicaSets) /\ Others(t)' = Others(t)
         /\ \A u \in Others(t) : (Fits(u) => Fits(u)') /\ (Honest(u) => Honest(u)')
<1>1. \A u \in Others(t) : replicaSets'[u] = replicaSets[u] /\ pods'[u] = pods[u]
  BY DEF StoreType, ReadSets, Others, Owned
<1>2. \A u \in Others(t) : (Fits(u) => Fits(u)') /\ (Honest(u) => Honest(u)')
  BY <1>1, OthersKept DEF Others
<1>3. Owned(replicaSets)' = Owned(replicaSets)
  <2>1. \A rs \in ReplicaSets : rs # None
    BY NoneAssumption
  <2> QED
    BY <2>1 DEF StoreType, ReadSets, Owned
<1> QED
  BY <1>2, <1>3 DEF Others

\* Nothing is written, and the next key of the ReplicaSets' queue stays.
LEMMA SoundKept ==
  ASSUME Sound, UNCHANGED store,
         rsQueue # << >> => rsQueue' # << >> /\ Head(rsQueue') = Head(rsQueue)
  PROVE  Sound'
<1>1. \A t : (Fits(t) => Fits(t)') /\ (Honest(t) => Honest(t)')
  BY DEF Fits, Honest, store
<1>2. Owned(replicaSets)' = Owned(replicaSets) /\ \A t : Others(t)' = Others(t)
  BY DEF store, Others
<1>3. \A t : Window(t) => Window(t)'
  BY <1>1, <1>2 DEF Window, store, Others
<1> QED
  BY <1>1, <1>2, <1>3 DEF Sound

\* Plans that are left are as good as before when nothing is written.
LEMMA HonorsKept ==
  ASSUME UNCHANGED store, NEW steps, Honors(steps)
  PROVE  Honors(steps)'
BY DEF Honors, store

\* A key is added at the end.
LEMMA KeyBehind ==
  ASSUME KeysType, NEW t \in Templates, NEW rest, EnqueueReplicaSet(t, rest)
  PROVE  /\ UNCHANGED store
         /\ rsQueue # << >> => rsQueue' # << >> /\ Head(rsQueue') = Head(rsQueue)
         /\ rsQueue = << >> => rsQueue' = <<t>>
         /\ Draining("replicaSets", rest) => stack' = rest
         /\ ~Draining("replicaSets", rest) /\ rsQueue = << >> =>
              stack' = <<SetsLoop>> \o rest
<1> DEFINE added == IF Contains(rsQueue, t) THEN rsQueue ELSE Append(rsQueue, t)
<1>1. /\ rsQueue' = added /\ UNCHANGED store
      /\ stack' = IF Len(added) = 1 /\ ~Draining("replicaSets", rest)
                  THEN <<SetsLoop>> \o rest ELSE rest
  BY DEF EnqueueReplicaSet, Return, SetsLoop
<1>2. rsQueue \in Seq(Templates)
  BY DEF KeysType
<1>3. rsQueue # << >> => added # << >> /\ Head(added) = Head(rsQueue)
  BY <1>2
<1>4. rsQueue = << >> => added = <<t>> /\ Len(added) = 1
  BY DEF Contains
<1> HIDE DEF added
<1> QED
  BY <1>1, <1>3, <1>4

(* A call that begins with a pod or a resync goes on *)

\* The frame at the bottom of the stack
LEMMA BottomIs ==
  /\ Bottom \in Seq({SetsLoop}) /\ Bottom = <<SetsLoop>> \o << >> /\ Bottom # << >>
  /\ Draining("replicaSets", Bottom) /\ ~Draining("deployments", Bottom)
  /\ \A frame : /\ <<frame>> = <<frame>> \o << >>
                /\ \E S : <<frame>> \o Bottom \in Seq(S)
                /\ Draining("replicaSets", <<frame>> \o Bottom)
                /\ <<frame>> \o Bottom # << >>
<1>1. Bottom \in Seq({SetsLoop}) /\ Bottom = <<SetsLoop>> \o << >> /\ << >> \in Seq({})
  BY DEF Bottom
<1>2. \A frame : <<frame>> = <<frame>> \o << >>
  OBVIOUS
<1>3. SetsLoop.op = "replicaSets" /\ \A op : ~Draining(op, << >>)
  BY Nothing DEF SetsLoop
<1>4. /\ Draining("replicaSets", Bottom) /\ ~Draining("deployments", Bottom)
      /\ Bottom # << >>
  <2>1. /\ <<SetsLoop>> \o << >> # << >>
        /\ \A op : Draining(op, <<SetsLoop>> \o << >>) <=> SetsLoop.op = op \/ Draining(op, << >>)
    BY <1>1, Stacked
  <2>2. Draining("replicaSets", Bottom) <=> SetsLoop.op = "replicaSets" \/ Draining("replicaSets", << >>)
    BY <1>1, <2>1
  <2>3. Draining("deployments", Bottom) <=> SetsLoop.op = "deployments" \/ Draining("deployments", << >>)
    BY <1>1, <2>1
  <2>4. SetsLoop.op # "deployments"
    BY <1>3
  <2> QED
    BY <1>1, <1>3, <2>1, <2>2, <2>3, <2>4
<1>5. ASSUME NEW frame
      PROVE  /\ \E S : <<frame>> \o Bottom \in Seq(S)
             /\ Draining("replicaSets", <<frame>> \o Bottom)
             /\ <<frame>> \o Bottom # << >>
  <2> DEFINE S == {frame, SetsLoop}
  <2>1. Bottom \in Seq(S) /\ frame \in S
    BY <1>1
  <2> HIDE DEF S
  <2>2. <<frame>> \o Bottom \in Seq(S)
    BY <2>1, Stacked
  <2> QED
    BY <1>4, <2>1, <2>2, Stacked
<1> QED
  BY <1>1, <1>2, <1>4, <1>5

\* A reconcile of a ReplicaSet begins that only fills the current one up, or only
\* takes from an old one.
LEMMA AdjustingBegins ==
  ASSUME StoreType, UNCHANGED store,
         NEW frame \in ScaleFrames, Scaling(frame), stack' = Scaled(frame),
         \A u \in Others(frame.template) : Fits(u),
         frame.status = SetStatus(pods[frame.template]),
         IF frame.template = deploy.template THEN frame.delete = 0 ELSE frame.create = 0
  PROVE  Adjusting(frame)'
<1> DEFINE t == frame.template
<1>1. t \in Templates /\ pods[t] \in Seq(BOOLEAN)
  BY DEF ScaleFrames, StoreType
<1>2. /\ ReadyOf(pods[t]) \in Nat /\ ReadyOf(pods[t]) <= Len(pods[t]) /\ Len(pods[t]) \in Nat
      /\ frame.status.replicas = Len(pods[t]) /\ frame.status.available = ReadyOf(pods[t])
  BY <1>1, StatusIs
<1>3. Scaling(frame)'
  BY DEF Scaling, store
<1>4. \A u \in Others(t)' : Fits(u)'
  BY DEF store, Others, Fits, Honest
<1>5. deploy' = deploy /\ pods' = pods
  BY DEF store
<1> QED
  BY <1>2, <1>3, <1>4, <1>5 DEF Adjusting

\* A pod that has changed leads to its ReplicaSet's reconcile.
LEMMA TouchedRuns ==
  ASSUME StoreType, KeysType, Rolling, Run, NEW t \in Templates, Touched(t)
  PROVE  AvailInv'
<1>1. /\ t \in Owned(replicaSets) /\ replicaSets[t] # None /\ pods[t] \in Seq(BOOLEAN)
      /\ \A u \in Others(t) : Fits(u) /\ Honest(u)
      /\ replicaSets[t].spec \in {Len(pods[t]), Len(pods[t]) + 1}
  BY DEF Touched, Owned, StoreType
<1>2. << >> \in Seq({}) /\ ~Draining("replicaSets", << >>)
  BY Nothing
<1>3. CASE stack = <<PodTold(t)>> /\ rsQueue = << >>
  <2> DEFINE top == PodTold(t)
  <2>1. /\ top \in DeliverFrames /\ top.op = "deliver"
        /\ top.event.type = "Pod" /\ top.event.template = t
    BY DEF PodTold, Delivery, Event, DeliverFrames, SetEvents
  <2>2. stack = <<top>> \o << >>
    BY <1>3, BottomIs
  <2> HIDE DEF top
  <2>3. DeliverStep(top, << >>)
    BY <1>2, <2>1, <2>2, RunIs
  <2>4. EnqueueReplicaSet(t, << >>)
    BY <1>1, <2>1, <2>3, DeliverKinds
  <2>5. UNCHANGED store /\ rsQueue' = <<t>> /\ stack' = Bottom
    BY <1>2, <1>3, <2>4, KeyBehind, BottomIs
  <2>6. Touched(t)'
    BY <1>1, <2>5 DEF Touched, store, Others, Fits, Honest
  <2> QED
    BY <2>6 DEF AvailInv
<1>4. CASE stack = Bottom /\ rsQueue = <<t>>
  <2>1. stack = <<SetsLoop>> \o << >> /\ SetsLoop.op = "replicaSets"
    BY <1>4, BottomIs DEF SetsLoop
  <2>2. DrainReplicaSets(<< >>)
    BY <1>2, <2>1, RunIs
  <2>3. rsQueue' = << >> /\ ReconcileSet(t, Bottom)
    <3>1. rsQueue # << >> /\ Head(rsQueue) = t /\ Tail(rsQueue) = << >>
      BY <1>4
    <3>2. Bottom = <<[op |-> "replicaSets"]>> \o << >>
      BY BottomIs DEF SetsLoop
    <3> QED
      BY <2>2, <3>1, <3>2 DEF DrainReplicaSets
  <2>4. UNCHANGED store
    BY <1>1, <2>3, ReadsSet
  <2>5. PICK frame \in ScaleFrames :
          /\ stack' = <<frame>> \o Bottom
          /\ frame.template = t
          /\ frame.status = SetStatus(pods[t]) /\ Scaling(frame)
    BY <1>1, <2>3, ReadsSet
  <2>6. stack' = Scaled(frame)
    BY <2>5 DEF Scaled
  <2>7. frame.delete = 0 /\ frame.create \in {0, 1}
    <3>1. frame.create \in Nat /\ frame.delete \in Nat /\ Len(pods[t]) \in Nat
      BY <1>1 DEF ScaleFrames
    <3>2. /\ Len(pods[t]) + frame.create = replicaSets[t].spec + frame.delete
          /\ frame.create = 0 \/ frame.delete = 0
      BY <2>5 DEF Scaling
    <3> QED
      BY <1>1, <3>1, <3>2
  <2>8. CASE t = deploy.template \/ frame.create = 0
    <3>1. Adjusting(frame)'
      BY <1>1, <2>4, <2>5, <2>6, <2>7, <2>8, AdjustingBegins
    <3> QED
      BY <3>1 DEF AvailInv
  <2>9. CASE t # deploy.template /\ frame.create = 1
    <3>1. frame.status.available = ReadyOf(pods[t]) /\ ReadyOf(pods[t]) \in Nat
      BY <1>1, <2>5, StatusIs
    <3>2. frame.status.available <= ReadyOf(pods[t])
      BY <3>1
    <3>3. Scaling(frame)'
      BY <2>4, <2>5 DEF Scaling, store
    <3>4. \A u \in Others(t)' : Fits(u)' /\ Honest(u)'
      BY <1>1, <2>4 DEF store, Others, Fits, Honest
    <3>5. Replacing(frame)'
      BY <2>3, <2>4, <2>5, <2>6, <2>7, <2>9, <3>2, <3>3, <3>4 DEF Replacing, store
    <3> QED
      BY <3>5 DEF AvailInv
  <2> QED
    BY <2>7, <2>8, <2>9
<1> QED
  BY <1>3, <1>4 DEF Touched

\* The event of a pod under a reconcile of its ReplicaSet
LEMMA PodDelivered ==
  ASSUME StoreType, KeysType, Run, NEW frame \in ScaleFrames, Scaling(frame),
         stack = <<PodTold(frame.template)>> \o Scaled(frame)
  PROVE  /\ UNCHANGED store /\ stack' = Scaled(frame)
         /\ rsQueue = << >> => rsQueue' = <<frame.template>>
<1> DEFINE t == frame.template
           top == PodTold(t)
<1>1. t \in Templates /\ replicaSets[t] # None
  BY DEF ScaleFrames, Scaling
<1>2. /\ top \in DeliverFrames /\ top.op = "deliver"
      /\ top.event.type = "Pod" /\ top.event.template = t
  BY <1>1 DEF PodTold, Delivery, Event, DeliverFrames, SetEvents
<1> HIDE DEF top
<1>3. PICK S : Scaled(frame) \in Seq(S)
  BY BottomIs DEF Scaled
<1>4. stack = <<top>> \o Scaled(frame) /\ Draining("replicaSets", Scaled(frame))
  BY BottomIs DEF Scaled, top
<1>5. DeliverStep(top, Scaled(frame))
  BY <1>2, <1>3, <1>4, RunIs
<1>6. EnqueueReplicaSet(t, Scaled(frame))
  BY <1>1, <1>2, <1>5, DeliverKinds
<1> QED
  BY <1>1, <1>4, <1>6, KeyBehind

\* A reconcile of a ReplicaSet writes what it has counted into the ReplicaSet that
\* is still the one it read.
LEMMA StatusWritten ==
  ASSUME StoreType, NEW frame \in ScaleFrames, Scaling(frame),
         frame.create = 0, frame.delete = 0, NEW rest, ScaleStep(frame, rest)
  PROVE  LET t == frame.template
         IN  /\ t \in Owned(replicaSets) /\ UNCHANGED <<deploy, pods>>
             /\ \E rs \in ReplicaSets :
                  /\ replicaSets' = [replicaSets EXCEPT ![t] = rs]
                  /\ replicaSets'[t] = rs
                  /\ rs.spec = Len(pods[t]) /\ rs.replicas = frame.status.replicas
                  /\ rs.available = frame.status.available
             /\ \/ stack' = rest
                \/ stack' = <<Delivery(Event("ReplicaSetUpdated", t), 1)>> \o rest
<1> DEFINE t == frame.template
           old == frame.rs
           new == [old EXCEPT !.replicas = frame.status.replicas,
                              !.available = frame.status.available]
           status == [replicas |-> old.replicas, available |-> old.available]
<1>1. /\ t \in Templates /\ old \in ReplicaSets /\ old = replicaSets[t]
      /\ frame.status \in [replicas : Nat, available : Nat]
      /\ replicaSets[t] # None
      /\ Len(pods[t]) + frame.create = old.spec + frame.delete
  BY DEF ScaleFrames, Scaling
<1>2. old.spec = Len(pods[t])
  BY <1>1 DEF ReplicaSets, StoreType
<1>3. new \in ReplicaSets /\ new.spec = old.spec
      /\ new.replicas = frame.status.replicas /\ new.available = frame.status.available
  BY <1>1 DEF ReplicaSets
<1>4. t \in Owned(replicaSets)
  BY <1>1 DEF Owned
<1>5. IF frame.status = status THEN Return(rest) ELSE UpdateReplicaSet(t, new, rest)
  BY DEF ScaleStep
<1>6. CASE frame.status = status
  <2>1. UNCHANGED store /\ stack' = rest
    BY <1>5, <1>6 DEF Return
  <2>2. replicaSets' = [replicaSets EXCEPT ![t] = old]
    BY <1>1, <2>1 DEF StoreType, ReadSets, store
  <2>3. replicaSets'[t] = old /\ old.replicas = frame.status.replicas
        /\ old.available = frame.status.available
    BY <1>1, <1>6, <2>1 DEF store
  <2> QED
    BY <1>1, <1>2, <1>4, <2>1, <2>2, <2>3 DEF store
<1>7. CASE frame.status # status
  <2>1. UpdateReplicaSet(t, new, rest)
    BY <1>5, <1>7
  <2> HIDE DEF new, status
  <2>2. /\ replicaSets' = [replicaSets EXCEPT ![t] = new] /\ UNCHANGED <<deploy, pods>>
        /\ stack' = <<Delivery(Event("ReplicaSetUpdated", t), 1)>> \o rest
    BY <1>1, <2>1 DEF UpdateReplicaSet, Deliver
  <2>3. replicaSets'[t] = new
    BY <1>1, <2>2 DEF StoreType, ReadSets
  <2> QED
    BY <1>2, <1>3, <1>4, <2>2, <2>3
<1> QED
  BY <1>6, <1>7

\* A reconcile of a ReplicaSet creates a pod, or deletes one.
LEMMA PodCounted ==
  ASSUME StoreType, NEW frame \in ScaleFrames, Scaling(frame),
         frame.create # 0 \/ frame.delete # 0, NEW rest, ScaleStep(frame, rest)
  PROVE  LET t == frame.template
         IN  /\ UNCHANGED <<deploy, replicaSets>>
             /\ \E list \in Seq(BOOLEAN) :
                  /\ pods' = [pods EXCEPT ![t] = list] /\ pods'[t] = list
                  /\ frame.create # 0 => /\ ReadyOf(list) = ReadyOf(pods[t])
                                         /\ Len(list) = Len(pods[t]) + 1
                  /\ ReadyOf(pods[t]) = Len(pods[t]) /\ frame.create = 0 =>
                       ReadyOf(list) = Len(list)
             /\ \E next \in ScaleFrames :
                  /\ Scaling(next)' /\ next.template = t /\ next.status = frame.status
                  /\ stack' = <<PodTold(t)>> \o (<<next>> \o rest)
                  /\ frame.create = 1 => next.create = 0
                  /\ frame.create = 0 => next.create = 0
                  /\ frame.delete = 0 => next.delete = 0
<1> DEFINE t == frame.template
<1>1. /\ t \in Templates /\ pods[t] \in Seq(BOOLEAN) /\ Len(pods[t]) \in Nat
      /\ frame.create \in Nat /\ frame.delete \in Nat /\ frame.rs.spec \in Nat
      /\ Len(pods[t]) + frame.create = frame.rs.spec + frame.delete
      /\ frame.create = 0 \/ frame.delete = 0
      /\ frame.rs = replicaSets[t] /\ replicaSets[t] # None
  BY DEF ScaleFrames, StoreType, Scaling, ReplicaSets
<1>2. CASE frame.create # 0
  <2> DEFINE next == [frame EXCEPT !.create = frame.create - 1]
             list == Append(pods[t], FALSE)
  <2>1. SetPods(t, list, <<next>> \o rest)
    <3>1. frame.delete = 0 /\ ~(frame.delete > 0)
      BY <1>1, <1>2
    <3> QED
      BY <1>2, <3>1, Zenon DEF ScaleStep
  <2>2. /\ next \in ScaleFrames /\ next.template = t /\ next.status = frame.status
        /\ next.rs = frame.rs /\ next.create = frame.create - 1 /\ next.delete = 0
    <3>1. frame.create - 1 \in Nat /\ frame.delete = 0
      BY <1>1, <1>2
    <3> QED
      BY <3>1 DEF ScaleFrames
  <2>3. list \in Seq(BOOLEAN) /\ Len(list) = Len(pods[t]) + 1 /\ ReadyOf(list) = ReadyOf(pods[t])
    <3>1. ReadyOf(list) = ReadyOf(pods[t])
      BY <1>1, ReadyKept
    <3>2. FALSE \in BOOLEAN
      OBVIOUS
    <3>3. list \in Seq(BOOLEAN) /\ Len(list) = Len(pods[t]) + 1
      BY <1>1, <3>2, AppendProperties
    <3> QED
      BY <3>1, <3>3
  <2> HIDE DEF next, list
  <2>4. /\ pods' = [pods EXCEPT ![t] = list] /\ UNCHANGED <<deploy, replicaSets>>
        /\ stack' = <<PodTold(t)>> \o (<<next>> \o rest)
    BY <2>1 DEF SetPods, Deliver, PodTold
  <2>5. pods'[t] = list
    BY <1>1, <2>4 DEF StoreType
  <2>6. Scaling(next)'
    <3>1. Len(list) + next.create = next.rs.spec + next.delete
      <4> DEFINE n == Len(pods[t])
                 a == frame.create
                 b == frame.rs.spec
                 m == Len(list)
      <4>1. n \in Nat /\ a \in Nat /\ b \in Nat /\ a # 0 /\ n + a = b + frame.delete
            /\ frame.delete = 0 /\ m = n + 1
        BY <1>1, <1>2, <2>3
      <4>2. next.create = a - 1 /\ next.rs.spec = b /\ next.delete = 0
        BY <2>2
      <4> HIDE DEF n, a, b, m
      <4>3. m + (a - 1) = b + 0
        BY <4>1
      <4> QED
        BY <4>2, <4>3 DEF m
    <3> QED
      BY <1>1, <2>2, <2>4, <2>5, <3>1 DEF Scaling
  <2>7. frame.create = 1 => next.create = 0
    BY <2>2
  <2> QED
    BY <1>2, <2>2, <2>3, <2>4, <2>5, <2>6, <2>7
<1>3. CASE frame.create = 0 /\ frame.delete # 0
  <2> DEFINE next == [frame EXCEPT !.delete = frame.delete - 1]
             list == Tail(pods[t])
  <2>1. SetPods(t, list, <<next>> \o rest)
    <3>1. ~(frame.create > 0)
      BY <1>1, <1>3
    <3> QED
      BY <1>3, <3>1, Zenon DEF ScaleStep
  <2>2. /\ next \in ScaleFrames /\ next.template = t /\ next.status = frame.status
        /\ next.rs = frame.rs /\ next.create = 0 /\ next.delete = frame.delete - 1
    <3>1. frame.delete - 1 \in Nat
      BY <1>1, <1>3
    <3> QED
      BY <1>3, <3>1 DEF ScaleFrames
  <2>3. pods[t] # << >>
    <3>1. Len(pods[t]) # 0
      BY <1>1, <1>3
    <3> QED
      BY <3>1
  <2>4. /\ list \in Seq(BOOLEAN) /\ Len(list) = Len(pods[t]) - 1
        /\ ReadyOf(pods[t]) = Len(pods[t]) => ReadyOf(list) = Len(list)
    BY <1>1, <2>3, ReadyKept, TailIs
  <2> HIDE DEF next, list
  <2>5. /\ pods' = [pods EXCEPT ![t] = list] /\ UNCHANGED <<deploy, replicaSets>>
        /\ stack' = <<PodTold(t)>> \o (<<next>> \o rest)
    BY <2>1 DEF SetPods, Deliver, PodTold
  <2>6. pods'[t] = list
    BY <1>1, <2>5 DEF StoreType
  <2>7. Scaling(next)'
    <3>1. Len(list) + next.create = next.rs.spec + next.delete
      <4> DEFINE n == Len(pods[t])
                 a == frame.delete
                 b == frame.rs.spec
                 m == Len(list)
      <4>1. n \in Nat /\ a \in Nat /\ b \in Nat /\ a # 0 /\ n + 0 = b + a /\ m = n - 1
        BY <1>1, <1>3, <2>4
      <4>2. next.create = 0 /\ next.rs.spec = b /\ next.delete = a - 1
        BY <2>2
      <4> HIDE DEF n, a, b, m
      <4>3. m + 0 = b + (a - 1)
        BY <4>1
      <4> QED
        BY <4>2, <4>3 DEF m
    <3> QED
      BY <1>1, <2>2, <2>5, <2>6, <3>1 DEF Scaling
  <2> QED
    BY <1>3, <2>2, <2>4, <2>5, <2>6, <2>7
<1> QED
  BY <1>2, <1>3

\* The status that is written tells the truth.
LEMMA Concludes ==
  ASSUME StoreType, NEW frame \in ScaleFrames, Scaling(frame),
         frame.create = 0, frame.delete = 0, ScaleStep(frame, Bottom)
  PROVE  /\ frame.template \in Owned(replicaSets)
         /\ \/ stack' = Bottom
            \/ \E update \in UpdateFrames : stack' = <<update>> \o Bottom
         /\ deploy' = deploy /\ pods' = pods
         /\ Owned(replicaSets)' = Owned(replicaSets)
         /\ Others(frame.template)' = Others(frame.template)
         /\ \A u \in Others(frame.template) :
              (Fits(u) => Fits(u)') /\ (Honest(u) => Honest(u)')
         /\ LET t == frame.template
                rs == replicaSets'[t]
            IN  /\ rs.spec = Len(pods[t]) /\ rs.spec \in Nat
                /\ rs.replicas = frame.status.replicas
                /\ rs.available = frame.status.available
<1> DEFINE t == frame.template
           update == Delivery(Event("ReplicaSetUpdated", t), 1)
<1>1. /\ t \in Owned(replicaSets) /\ UNCHANGED <<deploy, pods>>
      /\ stack' = Bottom \/ stack' = <<update>> \o Bottom
  BY StatusWritten
<1>2. PICK rs \in ReplicaSets :
        /\ replicaSets' = [replicaSets EXCEPT ![t] = rs]
        /\ replicaSets'[t] = rs
        /\ rs.spec = Len(pods[t]) /\ rs.replicas = frame.status.replicas
        /\ rs.available = frame.status.available
  BY StatusWritten
<1>3. rs.spec \in Nat
  BY DEF ReplicaSets
<1>4. update \in UpdateFrames
  BY DEF Delivery, Event, UpdateFrames, DeliverFrames, SetEvents, ScaleFrames
<1> HIDE DEF update
<1>5. /\ Owned(replicaSets)' = Owned(replicaSets) /\ Others(t)' = Others(t)
      /\ \A u \in Others(t) : (Fits(u) => Fits(u)') /\ (Honest(u) => Honest(u)')
  BY <1>1, <1>2, OneChanged
<1> QED
  BY <1>1, <1>2, <1>3, <1>4, <1>5

\* An old ReplicaSet gets its pod, and its status is written.
LEMMA ReplacingRuns ==
  ASSUME StoreType, KeysType, Rolling, Run, NEW frame, Replacing(frame)
  PROVE  AvailInv'
<1> DEFINE t == frame.template
<1>1. /\ frame \in ScaleFrames /\ Scaling(frame) /\ t # deploy.template
      /\ \A u \in Others(t) : Fits(u) /\ Honest(u)
      /\ frame.delete = 0 /\ frame.status.available <= ReadyOf(pods[t])
      /\ t \in Templates /\ frame.op = "scale" /\ pods[t] \in Seq(BOOLEAN)
      /\ t \in Owned(replicaSets)
  BY DEF Replacing, ScaleFrames, StoreType, Scaling, Owned
<1>2. PICK S : Bottom \in Seq(S)
  BY BottomIs
<1>3. CASE stack = Scaled(frame)
  <2>6. stack = <<frame>> \o Bottom /\ frame.op = "scale"
    BY <1>1, <1>3 DEF Scaled
  <2>1. ScaleStep(frame, Bottom)
    BY <1>2, <2>6, RunIs
  <2>2. rsQueue' = rsQueue
    BY <1>2, <2>6, RunIs
  <2>3. CASE frame.create = 1 /\ rsQueue = << >>
    <3>7. frame.create # 0
      BY <2>3
    <3>1. PICK list \in Seq(BOOLEAN) :
            /\ pods' = [pods EXCEPT ![t] = list] /\ pods'[t] = list
            /\ ReadyOf(list) = ReadyOf(pods[t]) /\ Len(list) = Len(pods[t]) + 1
      BY <1>1, <2>1, <3>7, PodCounted
    <3>2. UNCHANGED <<deploy, replicaSets>>
      BY <1>1, <2>1, <3>7, PodCounted
    <3>3. PICK next \in ScaleFrames :
            /\ Scaling(next)' /\ next.template = t /\ next.status = frame.status
            /\ stack' = <<PodTold(t)>> \o (<<next>> \o Bottom)
            /\ frame.create = 1 => next.create = 0
            /\ frame.create = 0 => next.create = 0
            /\ frame.delete = 0 => next.delete = 0
      <4>1. Scaling(frame) /\ (frame.create # 0 \/ frame.delete # 0)
        BY <1>1, <3>7
      <4> QED
        BY <1>1, <2>1, <4>1, PodCounted, ZenonT(60)
    <3>8. next.create = 0 /\ next.delete = 0
      BY <1>1, <2>3, <3>3
    <3>4. \A u \in Others(t)' : Fits(u)' /\ Honest(u)'
      BY <1>1, <3>1, <3>2, OneChanged
    <3>5. ReadyOf(list) < Len(list) /\ frame.status.available <= ReadyOf(list)
      BY <1>1, <3>1, StatusIs
    <3>6. Replacing(next)'
      BY <1>1, <2>2, <2>3, <3>1, <3>2, <3>3, <3>4, <3>5, <3>8 DEF Replacing, Scaled
    <3> QED
      BY <3>6 DEF AvailInv
  <2>4. CASE frame.create = 0 /\ rsQueue = <<t>> /\ ReadyOf(pods[t]) < Len(pods[t])
    <3>1. /\ \/ stack' = Bottom
             \/ \E update \in UpdateFrames : stack' = <<update>> \o Bottom
          /\ deploy' = deploy /\ pods' = pods
          /\ Owned(replicaSets)' = Owned(replicaSets) /\ Others(t)' = Others(t)
          /\ \A u \in Others(t) : Fits(u)' /\ Honest(u)'
          /\ LET rs == replicaSets'[t]
             IN  rs.spec = Len(pods[t]) /\ rs.spec \in Nat
                   /\ rs.available = frame.status.available
      BY <1>1, <2>1, <2>4, Concludes
    <3>2. Honest(t)'
      BY <1>1, <3>1 DEF Honest
    <3>3. \A u \in Owned(replicaSets)' : Honest(u)'
      BY <3>1, <3>2 DEF Others
    <3>4. Len(pods'[t]) >= replicaSets'[t].spec
      BY <3>1
    <3>5. rsQueue' # << >> /\ Head(rsQueue') = t
      BY <2>2, <2>4
    <3>6. Window(t)'
      BY <1>1, <2>4, <3>1, <3>3, <3>4, <3>5 DEF Window
    <3>7. Sound'
      BY <1>1, <3>1, <3>6 DEF Sound
    <3> QED
      BY <3>1, <3>7 DEF Conversing, AvailInv
  <2>5. CASE stack = <<PodTold(t)>> \o Scaled(frame)
    <3>1. frame # PodTold(t)
      BY <1>1 DEF PodTold, Delivery
    <3>2. PICK T : Scaled(frame) \in Seq(T)
      BY BottomIs DEF Scaled
    <3>3. Head(stack) = PodTold(t)
      BY <2>5, <3>2, Stacked
    <3>4. Head(stack) = frame
      BY <1>2, <1>3, Stacked DEF Scaled
    <3> QED
      BY <3>1, <3>3, <3>4
  <2> QED
    BY <2>3, <2>4, <2>5 DEF Replacing
<1>4. CASE /\ stack = <<PodTold(t)>> \o Scaled(frame) /\ rsQueue = << >>
           /\ frame.create = 0 /\ ReadyOf(pods[t]) < Len(pods[t])
  <2>1. UNCHANGED store /\ stack' = Scaled(frame) /\ rsQueue' = <<t>>
    BY <1>1, <1>4, PodDelivered
  <2>2. Scaling(frame)' /\ \A u \in Others(t)' : Fits(u)' /\ Honest(u)'
    BY <1>1, <2>1 DEF store, Scaling, Others, Fits, Honest
  <2>3. Replacing(frame)'
    BY <1>1, <1>4, <2>1, <2>2 DEF Replacing, store
  <2> QED
    BY <2>3 DEF AvailInv
<1> QED
  BY <1>3, <1>4 DEF Replacing

\* The current ReplicaSet gets its pods, or an old one loses some, and the status
\* is written.
LEMMA AdjustingRuns ==
  ASSUME StoreType, KeysType, Rolling, Run, NEW frame, Adjusting(frame)
  PROVE  AvailInv'
<1> DEFINE t == frame.template
<1>1. /\ frame \in ScaleFrames /\ Scaling(frame)
      /\ \A u \in Others(t) : Fits(u)
      /\ t \in Templates /\ frame.op = "scale" /\ pods[t] \in Seq(BOOLEAN)
      /\ t \in Owned(replicaSets)
      /\ frame.status.replicas \in Nat /\ frame.status.available \in Nat
  BY DEF Adjusting, ScaleFrames, StoreType, Scaling, Owned
<1>2. IF t = deploy.template
      THEN frame.delete = 0 /\ frame.status.available <= ReadyOf(pods[t])
      ELSE /\ frame.create = 0
           /\ frame.status.replicas <= frame.status.available
                => ReadyOf(pods[t]) = Len(pods[t])
  BY DEF Adjusting
<1>3. CASE stack = <<PodTold(t)>> \o Scaled(frame)
  <2>1. UNCHANGED store /\ stack' = Scaled(frame)
    BY <1>1, <1>3, PodDelivered
  <2>2. Scaling(frame)' /\ \A u \in Others(t)' : Fits(u)'
    BY <1>1, <2>1 DEF store, Scaling, Others, Fits, Honest
  <2>3. Adjusting(frame)'
    BY <1>1, <1>2, <2>1, <2>2 DEF Adjusting, store
  <2> QED
    BY <2>3 DEF AvailInv
<1>4. CASE stack = Scaled(frame)
  <2>1. PICK S : Bottom \in Seq(S)
    BY BottomIs
  <2>2. ScaleStep(frame, Bottom)
    BY <1>1, <1>4, <2>1, RunIs DEF Scaled
  <2>3. CASE frame.create # 0 \/ frame.delete # 0
    <3>1. PICK list \in Seq(BOOLEAN) :
            /\ pods' = [pods EXCEPT ![t] = list] /\ pods'[t] = list
            /\ frame.create # 0 => ReadyOf(list) = ReadyOf(pods[t])
            /\ ReadyOf(pods[t]) = Len(pods[t]) /\ frame.create = 0 => ReadyOf(list) = Len(list)
      BY <1>1, <2>2, <2>3, PodCounted
    <3>2. UNCHANGED <<deploy, replicaSets>>
      BY <1>1, <2>2, <2>3, PodCounted
    <3>3. PICK next \in ScaleFrames :
            /\ Scaling(next)' /\ next.template = t /\ next.status = frame.status
            /\ stack' = <<PodTold(t)>> \o (<<next>> \o Bottom)
            /\ frame.create = 0 => next.create = 0
            /\ frame.delete = 0 => next.delete = 0
      BY <1>1, <2>2, <2>3, PodCounted
    <3>4. \A u \in Others(t)' : Fits(u)'
      BY <1>1, <3>1, <3>2, OneChanged
    <3>5. IF t = deploy.template
          THEN next.delete = 0 /\ next.status.available <= ReadyOf(list)
          ELSE /\ next.create = 0
               /\ next.status.replicas <= next.status.available
                    => ReadyOf(list) = Len(list)
      BY <1>2, <2>3, <3>1, <3>3
    <3>6. Adjusting(next)'
      BY <3>1, <3>2, <3>3, <3>4, <3>5 DEF Adjusting, Scaled
    <3> QED
      BY <3>6 DEF AvailInv
  <2>4. CASE frame.create = 0 /\ frame.delete = 0
    <3>1. /\ \/ stack' = Bottom
             \/ \E update \in UpdateFrames : stack' = <<update>> \o Bottom
          /\ deploy' = deploy /\ pods' = pods
          /\ Owned(replicaSets)' = Owned(replicaSets) /\ Others(t)' = Others(t)
          /\ \A u \in Others(t) : Fits(u)'
          /\ LET rs == replicaSets'[t]
             IN  rs.spec = Len(pods[t]) /\ rs.spec \in Nat
                   /\ rs.replicas = frame.status.replicas
                   /\ rs.available = frame.status.available
      BY <1>1, <2>2, <2>4, Concludes
    <3>2. Fits(t)'
      BY <1>2, <3>1 DEF Fits, Honest
    <3>3. \A u \in Owned(replicaSets)' : Fits(u)'
      BY <3>1, <3>2 DEF Others
    <3>4. Sound'
      BY <3>3 DEF Sound
    <3> QED
      BY <3>1, <3>4 DEF Conversing, AvailInv
  <2> QED
    BY <2>3, <2>4
<1> QED
  BY <1>3, <1>4 DEF Adjusting

(* The two controllers take turns *)

\* The frames under a plan of the immediate loop
LEMMA LoopOverIs ==
  ASSUME NEW n, NEW frame, NEW steps
  PROVE  LET loop == LoopOver(n, frame)
             frames == Planned(steps, loop)
         IN  /\ \E S : <<frame>> \o Bottom \in Seq(S)
             /\ \E S : loop \in Seq(S)
             /\ \E S : frames \in Seq(S)
             /\ Draining("deployments", frames) /\ Draining("replicaSets", frames)
             /\ frames # << >>
             /\ steps = << >> => frames = loop
<1> DEFINE under == <<frame>> \o Bottom
           top == DeploymentsLoop(n)
           loop == <<top>> \o under
           frames == Planned(steps, loop)
<1>1. PICK S : under \in Seq(S)
  BY BottomIs
<1>2. Draining("replicaSets", under)
  BY BottomIs
<1>3. top.op = "deployments"
  BY DEF DeploymentsLoop
<1> DEFINE T == S \cup {top}
<1>4. under \in Seq(T) /\ top \in T
  BY <1>1
<1> HIDE DEF T, under, top
<1>5. /\ loop \in Seq(T) /\ loop # << >>
      /\ \A op : Draining(op, loop) <=> top.op = op \/ Draining(op, under)
  BY <1>4, Stacked
<1>6. Draining("deployments", loop) /\ Draining("replicaSets", loop)
  BY <1>2, <1>3, <1>5
<1> HIDE DEF loop
<1>7. /\ \E V : frames \in Seq(V)
      /\ Draining("deployments", frames) /\ Draining("replicaSets", frames)
      /\ steps = << >> => frames = loop
      /\ frames # << >>
  BY <1>5, <1>6, PlannedIs
<1> QED
  BY <1>1, <1>5, <1>7 DEF LoopOver, loop, top, under

\* A delivery of an updated ReplicaSet goes on to its second subscriber.
LEMMA SecondIs ==
  ASSUME NEW frame \in DeliverFrames, frame.event.type = "ReplicaSetUpdated"
  PROVE  [frame EXCEPT !.to = 2] \in UpdateFrames
BY DEF DeliverFrames, UpdateFrames

\* The ReplicaSets' loop takes the next key, or ends.
LEMMA BottomRuns ==
  ASSUME StoreType, KeysType, Rolling, Run, Sound, stack = Bottom
  PROVE  AvailInv'
<1>1. stack = <<SetsLoop>> \o << >> /\ SetsLoop.op = "replicaSets" /\ << >> \in Seq({})
  BY BottomIs DEF SetsLoop
<1>2. DrainReplicaSets(<< >>)
  BY <1>1, RunIs
<1>3. Bottom = <<[op |-> "replicaSets"]>> \o << >>
  BY BottomIs DEF SetsLoop
<1>4. CASE rsQueue = << >>
  <2>1. stack' = << >>
    BY <1>2, <1>4 DEF DrainReplicaSets, Return
  <2>2. Based(stack')
    BY <2>1 DEF Based
  <2> QED
    BY <2>2 DEF AvailInv
<1>5. CASE rsQueue # << >>
  <2> DEFINE h == Head(rsQueue)
  <2>1. h \in Templates /\ rsQueue' = Tail(rsQueue) /\ ReconcileSet(h, Bottom)
    BY <1>2, <1>3, <1>5, KeyTaken DEF DrainReplicaSets, KeysType
  <2>2. PICK t \in Templates : t = h
    BY <2>1
  <2>3. /\ ReconcileSet(t, Bottom)
        /\ \A u : Window(u) => u = t
    BY <2>1, <2>2 DEF Window
  <2> HIDE DEF h
  <2>4. CASE replicaSets[t] = None
    <3>1. UNCHANGED store /\ stack' = Bottom
      BY <2>3, <2>4 DEF ReconcileSet, Return
    <3>2. \A u \in Owned(replicaSets) : Fits(u)
      BY <2>3, <2>4 DEF Sound, Owned
    <3>3. Sound'
      BY <3>1, <3>2 DEF Sound, store, Fits, Honest
    <3> QED
      BY <3>1, <3>3 DEF Conversing, AvailInv
  <2>5. CASE replicaSets[t] # None
    <3>1. UNCHANGED store
      BY <2>3, <2>5, ReadsSet
    <3>2. PICK frame \in ScaleFrames :
            /\ stack' = <<frame>> \o Bottom
            /\ frame.template = t
            /\ frame.status = SetStatus(pods[t]) /\ Scaling(frame)
      BY <2>3, <2>5, ReadsSet
    <3>3. /\ \A u \in Others(t) : Fits(u)
          /\ IF t = deploy.template THEN Len(pods[t]) <= replicaSets[t].spec
             ELSE Len(pods[t]) >= replicaSets[t].spec
      <4>1. t \in Owned(replicaSets)
        BY <2>5 DEF Owned
      <4>2. CASE \A u \in Owned(replicaSets) : Fits(u)
        BY <4>1, <4>2 DEF Others, Fits
      <4>3. CASE Window(t)
        BY <4>3 DEF Window
      <4> QED
        BY <2>3, <4>2, <4>3 DEF Sound
    <3>4. IF t = deploy.template THEN frame.delete = 0 ELSE frame.create = 0
      <4>1. /\ frame.create \in Nat /\ frame.delete \in Nat
            /\ frame.rs.spec \in Nat /\ frame.rs = replicaSets[t]
            /\ Len(pods[t]) + frame.create = frame.rs.spec + frame.delete
            /\ frame.create = 0 \/ frame.delete = 0
        BY <3>2 DEF ScaleFrames, Scaling, ReplicaSets
      <4>2. Len(pods[t]) \in Nat
        BY DEF StoreType
      <4> QED
        BY <3>3, <4>1, <4>2
    <3>5. stack' = Scaled(frame)
      BY <3>2 DEF Scaled
    <3>6. Adjusting(frame)'
      BY <3>1, <3>2, <3>3, <3>4, <3>5, AdjustingBegins
    <3> QED
      BY <3>6 DEF AvailInv
  <2> QED
    BY <2>4, <2>5
<1> QED
  BY <1>4, <1>5

\* The loop of the Deployment's queue is on top of a delivery.
LEMMA LoopTurns ==
  ASSUME Sound', NEW frame \in UpdateFrames, NEW n \in Nat, NEW steps, Honors(steps)',
         \/ stack' = Planned(steps, LoopOver(n, frame))
         \/ \E top \in DeliverFrames :
              stack' = <<top>> \o Planned(steps, LoopOver(n, frame))
  PROVE  AvailInv'
BY DEF Conversing, AvailInv

\* The event of a status is delivered.
LEMMA UpdateRuns ==
  ASSUME StoreType, KeysType, Rolling, Run, Sound,
         NEW frame \in UpdateFrames, stack = <<frame>> \o Bottom
  PROVE  AvailInv'
<1>1. frame \in DeliverFrames /\ frame.op = "deliver" /\ frame.event.type = "ReplicaSetUpdated"
  BY DEF UpdateFrames, DeliverFrames
<1>2. PICK S : Bottom \in Seq(S)
  BY BottomIs
<1>3. DeliverStep(frame, Bottom)
  BY <1>1, <1>2, RunIs
<1> DEFINE next == [frame EXCEPT !.to = 2]
<1>4. CASE UNCHANGED rsQueue /\ EnqueueDeployment(<<next>> \o Bottom)
  <2>1. next \in UpdateFrames
    BY <1>1, SecondIs
  <2> HIDE DEF next
  <2>2. /\ UNCHANGED store
        /\ stack' = <<next>> \o Bottom \/ stack' = LoopOver(MaxBatch, next)
    BY <1>4 DEF EnqueueDeployment, Return, LoopOver
  <2>3. Sound'
    BY <1>4, <2>2, SoundKept
  <2>4. CASE stack' = <<next>> \o Bottom
    BY <2>1, <2>3, <2>4 DEF Conversing, AvailInv
  <2>5. CASE stack' = LoopOver(MaxBatch, next)
    <3>1. stack' = Planned(<< >>, LoopOver(MaxBatch, next))
      BY <2>5, LoopOverIs
    <3>2. MaxBatch \in Nat /\ Honors(<< >>)'
      BY BatchAssumption DEF Honors
    <3> QED
      BY <2>1, <2>3, <3>1, <3>2, LoopTurns
  <2> QED
    BY <2>2, <2>4, <2>5
<1>5. CASE \/ EnqueueReplicaSet(frame.event.template, Bottom)
           \/ Return(Bottom) /\ UNCHANGED rsQueue
  <2>1. frame.event.template \in Templates
    BY <1>1 DEF DeliverFrames, SetEvents, DeploymentEvents
  <2>2. /\ UNCHANGED store /\ stack' = Bottom
        /\ rsQueue # << >> => rsQueue' # << >> /\ Head(rsQueue') = Head(rsQueue)
    BY <1>5, <2>1, KeyBehind, BottomIs DEF Return
  <2>3. Sound'
    BY <2>2, SoundKept
  <2> QED
    BY <2>2, <2>3 DEF Conversing, AvailInv
<1>6. deploy # None
  BY DEF Rolling
<1> QED
  BY <1>1, <1>3, <1>4, <1>5, <1>6, DeliverKinds

\* An event is delivered on top of a plan or of the loop.
LEMMA DeliveryRuns ==
  ASSUME StoreType, KeysType, Rolling, Run, Sound,
         NEW frame \in UpdateFrames, NEW n \in Nat, NEW steps, Honors(steps),
         NEW top \in DeliverFrames,
         stack = <<top>> \o Planned(steps, LoopOver(n, frame))
  PROVE  AvailInv'
<1> DEFINE rest == Planned(steps, LoopOver(n, frame))
           next == [top EXCEPT !.to = 2]
<1>1. PICK S : rest \in Seq(S)
  BY LoopOverIs
<1>2. Draining("deployments", rest) /\ Draining("replicaSets", rest) /\ deploy # None
  BY LoopOverIs DEF Rolling
<1> SUFFICES ASSUME /\ UNCHANGED store
                    /\ rsQueue # << >> => rsQueue' # << >> /\ Head(rsQueue') = Head(rsQueue)
                    /\ \/ stack' = rest
                       \/ \E e \in DeliverFrames : stack' = <<e>> \o rest
             PROVE  AvailInv'
  <2>1. stack = <<top>> \o rest /\ top.op = "deliver"
    BY DEF DeliverFrames
  <2> HIDE DEF rest
  <2>2. DeliverStep(top, rest)
    BY <1>1, <2>1, RunIs
  <2>3. CASE UNCHANGED rsQueue /\ EnqueueDeployment(rest)
    BY <1>2, <2>3 DEF EnqueueDeployment, Return
  <2>4. CASE /\ top.event.type = "ReplicaSetUpdated" /\ UNCHANGED rsQueue
             /\ EnqueueDeployment(<<next>> \o rest)
    <3>1. next \in DeliverFrames
      BY <2>4, SecondIs DEF UpdateFrames
    <3> HIDE DEF next
    <3>2. Draining("deployments", <<next>> \o rest)
      BY <1>1, <1>2, Stacked
    <3>3. stack' = <<next>> \o rest /\ UNCHANGED store
      BY <2>4, <3>2 DEF EnqueueDeployment, Return
    <3> QED
      BY <2>4, <3>1, <3>3
  <2>5. CASE /\ top.event \in SetEvents
             /\ \/ EnqueueReplicaSet(top.event.template, rest)
                \/ Return(rest) /\ UNCHANGED rsQueue
    <3>1. top.event.template \in Templates
      BY <2>5 DEF SetEvents
    <3> QED
      BY <1>2, <2>5, <3>1, KeyBehind DEF Return
  <2> QED
    BY <1>2, <2>2, <2>3, <2>4, <2>5, DeliverKinds
<1>3. Sound' /\ Honors(steps)'
  BY SoundKept, HonorsKept
<1> QED
  BY <1>3, LoopTurns

(* Plans are faithful to what they were made from *)

\* A step that is made under a condition
LEMMA FaithfulWhen ==
  ASSUME NEW d, NEW read, NEW lists, NEW condition, NEW step,
         condition => FaithfulStep(step, d, read, lists)
  PROVE  /\ \E S : When(condition, step) \in Seq(S)
         /\ Faithful(When(condition, step), d, read, lists)
<1>1. CASE condition
  <2>1. When(condition, step) = <<step>> /\ <<step>> \in Seq({step})
    BY <1>1 DEF When
  <2>2. \A k \in DOMAIN <<step>> : <<step>>[k] = step
    OBVIOUS
  <2> QED
    BY <1>1, <2>1, <2>2 DEF Faithful
<1>2. CASE ~condition
  <2>1. When(condition, step) = << >> /\ << >> \in Seq({}) /\ DOMAIN << >> = {}
    BY <1>2 DEF When
  <2> QED
    BY <2>1 DEF Faithful
<1> QED
  BY <1>1, <1>2

\* Plans one after the other
LEMMA FaithfulConcat ==
  ASSUME NEW d, NEW read, NEW lists, NEW A, NEW B, NEW a \in Seq(A), NEW b \in Seq(B),
         Faithful(a, d, read, lists), Faithful(b, d, read, lists)
  PROVE  (\E S : a \o b \in Seq(S)) /\ Faithful(a \o b, d, read, lists)
<1> DEFINE S == A \cup B
           all == a \o b
<1>1. a \in Seq(S) /\ b \in Seq(S)
  OBVIOUS
<1>2. /\ all \in Seq(S) /\ Len(all) = Len(a) + Len(b) /\ Len(a) \in Nat /\ Len(b) \in Nat
      /\ \A k \in 1..Len(a) : all[k] = a[k]
      /\ \A k \in 1..Len(b) : all[Len(a) + k] = b[k]
      /\ DOMAIN a = 1..Len(a) /\ DOMAIN b = 1..Len(b)
  <2> HIDE DEF S
  <2> QED
    BY <1>1
<1> HIDE DEF all
<1>3. ASSUME NEW k \in DOMAIN all PROVE FaithfulStep(all[k], d, read, lists)
  <2>1. k \in 1..(Len(a) + Len(b))
    BY <1>2
  <2>2. CASE k \in 1..Len(a)
    BY <1>2, <2>2 DEF Faithful
  <2>3. CASE k \notin 1..Len(a)
    <3>1. k - Len(a) \in 1..Len(b) /\ Len(a) + (k - Len(a)) = k
      BY <1>2, <2>1, <2>3
    <3>2. all[k] = b[k - Len(a)]
      BY <1>2, <3>1
    <3> QED
      BY <1>2, <3>1, <3>2 DEF Faithful
  <2> QED
    BY <2>2, <2>3
<1> QED
  BY <1>2, <1>3 DEF Faithful, all

\* What the steps of a plan keep of the statuses that were read
LEMMA FaithfulSteps ==
  ASSUME NEW d, NEW read, NEW lists
  PROVE  /\ FaithfulStep(Again, d, read, lists)
         /\ \A order, writes :
              (\A write \in writes : FaithfulWrite(write, d, read, lists))
              => FaithfulStep(WriteSets(order, writes), d, read, lists)
         /\ \A t, rs : FaithfulWrite(Write(t, rs), d, read, lists)
                         => FaithfulStep(WriteSet(t, rs), d, read, lists)
         /\ \A rs : /\ read[d.template] = None
                    /\ rs.replicas = 0 /\ rs.available = 0
                    => FaithfulStep(CreateSet(d.template, rs), d, read, lists)
         /\ \A e : Same(e, d) => /\ FaithfulStep(WriteDeployment(e), d, read, lists)
                                 /\ FaithfulStep(WriteStatus(e), d, read, lists)
<1>1. \A order, writes : /\ WriteSets(order, writes).do = "sets"
                         /\ WriteSets(order, writes).writes = writes
  BY DEF WriteSets
<1>2. \A order, writes :
              (\A write \in writes : FaithfulWrite(write, d, read, lists))
              => FaithfulStep(WriteSets(order, writes), d, read, lists)
  BY <1>1, Zenon DEF FaithfulStep
<1>3. \A t, rs : FaithfulWrite(Write(t, rs), d, read, lists)
                         => FaithfulStep(WriteSet(t, rs), d, read, lists)
  <2> SUFFICES ASSUME NEW t, NEW rs, FaithfulWrite(Write(t, rs), d, read, lists)
               PROVE  FaithfulStep(WriteSets("stored", {Write(t, rs)}), d, read, lists)
    BY DEF WriteSet
  <2>1. \A write \in {Write(t, rs)} : FaithfulWrite(write, d, read, lists)
    BY Zenon
  <2> QED
    BY <1>2, <2>1
<1> QED
  BY <1>2, <1>3 DEF FaithfulStep, Again, CreateSet, WriteDeployment, WriteStatus

\* What a write changes of a ReplicaSet that was read
LEMMA FaithfulRewrite ==
  ASSUME NEW d, NEW read \in ReadSets, NEW lists, NEW t \in Owned(read), NEW n,
         IF t = d.template THEN Len(lists[t]) <= n ELSE n <= Len(lists[t])
  PROVE  FaithfulWrite(Write(t, [read[t] EXCEPT !.spec = n]), d, read, lists)
<1>1. read[t] \in ReplicaSets
  BY OwnedTypes
<1> DEFINE new == [read[t] EXCEPT !.spec = n]
           write == Write(t, new)
<1>2. new.spec = n /\ new.replicas = read[t].replicas /\ new.available = read[t].available
  BY <1>1 DEF ReplicaSets
<1> HIDE DEF new
<1>3. write.template = t /\ write.rs = new
  BY DEF Write
<1> HIDE DEF write
<1>4. FaithfulWrite(write, d, read, lists)
  BY <1>2, <1>3 DEF FaithfulWrite
<1> QED
  BY <1>4 DEF write, new

\* A plan is faithful to what it was made from, if the current ReplicaSet had no
\* pods to lose and the old ones had none to get.
LEMMA PlanFaithful ==
  ASSUME NEW d \in Deployments, NEW read \in ReadSets, d.strategy.type = "RollingUpdate",
         NEW lists \in [Templates -> Seq(BOOLEAN)],
         \A t \in Owned(read) : IF t = d.template THEN Len(lists[t]) <= read[t].spec
                                ELSE read[t].spec <= Len(lists[t])
  PROVE  Faithful(Plan(d, read), d, read, lists)
<1> DEFINE F(step) == FaithfulStep(step, d, read, lists)
           L(steps) == (\E S : steps \in Seq(S)) /\ Faithful(steps, d, read, lists)
<1>1. ASSUME NEW condition, NEW step, condition => F(step)
      PROVE  L(When(condition, step))
  BY <1>1, FaithfulWhen
<1>2. ASSUME NEW a, NEW b, L(a), L(b) PROVE L(a \o b)
  <2>1. PICK A : a \in Seq(A)
    BY <1>2
  <2>2. PICK B : b \in Seq(B)
    BY <1>2
  <2> QED
    BY <1>2, <2>1, <2>2, FaithfulConcat
<1>3. ASSUME NEW step, F(step) PROVE L(<<step>>)
  <2>1. <<step>> \in Seq({step}) /\ \A k \in DOMAIN <<step>> : <<step>>[k] = step
    OBVIOUS
  <2> QED
    BY <1>3, <2>1 DEF Faithful
<1> HIDE DEF L
<1>4. \A t \in Owned(read) : t \in Templates /\ Len(lists[t]) \in Nat
                             /\ read[t] \in ReplicaSets /\ read[t].spec \in Nat
  BY OwnedTypes DEF ReplicaSets
<1>5. CASE read[d.template] = None
  <2> DEFINE old == Owned(read)
             revision == Max({read[t].revision : t \in old} \cup {0}) + 1
             new == NewReplicaSet(read, FirstReplicas(d, read), revision)
             first == CreateSet(d.template, new)
             second == WriteDeployment([d EXCEPT !.revision = revision])
  <2>1. new.replicas = 0 /\ new.available = 0
    BY DEF NewReplicaSet
  <2>2. Plan(d, read) = (<<first, second>> \o When(old # {}, Again)) \o <<WriteStatus(d)>>
    BY <1>5 DEF Plan, CreationPlan
  <2> HIDE DEF new, revision
  <2>3. F(first) /\ F(second) /\ F(Again) /\ F(WriteStatus(d))
    BY <1>5, <2>1, FaithfulSteps, SameRevised
  <2> HIDE DEF first, second
  <2>4. L(<<first, second>>)
    <3>1. <<first, second>> = <<first>> \o <<second>>
      BY Pair
    <3>2. L(<<first>>) /\ L(<<second>>)
      BY <1>3, <2>3
    <3>3. L(<<first>> \o <<second>>)
      BY <1>2, <3>2
    <3> QED
      BY <3>1, <3>3
  <2>5. L(When(old # {}, Again)) /\ L(<<WriteStatus(d)>>)
    BY <1>1, <1>3, <2>3
  <2> QED
    BY <1>2, <2>2, <2>4, <2>5 DEF L
<1>6. CASE read[d.template] # None
  <2> DEFINE current == read[d.template]
             highest == Max({read[t].revision : t \in Owned(read)} \cup {d.revision})
             revision == IF current.revision < highest THEN highest + 1
                         ELSE current.revision
             synced == [d EXCEPT !.revision = revision]
             one == WriteSet(d.template, [current EXCEPT !.revision = revision])
  <2>1. current \in ReplicaSets /\ d.template \in Owned(read)
    BY <1>6 DEF ReadSets, Deployments, Owned
  <2>2. L(RevisionPlan(d, read))
    <3>1. RevisionPlan(d, read) =
            (When(current.revision # revision, one)
               \o When(d.revision # revision, WriteDeployment(synced)))
               \o <<WriteStatus(synced)>>
      BY DEF RevisionPlan
    <3> HIDE DEF revision
    <3>2. F(one)
      <4> DEFINE new == [current EXCEPT !.revision = revision]
                 write == Write(d.template, new)
      <4>1. /\ new.spec = read[d.template].spec /\ new.replicas = read[d.template].replicas
            /\ new.available = read[d.template].available
        BY <2>1 DEF ReplicaSets
      <4>2. write.template = d.template /\ write.rs = new
        BY DEF Write
      <4>3. Len(lists[d.template]) <= read[d.template].spec
        BY <2>1
      <4> HIDE DEF new, write
      <4>4. FaithfulWrite(write, d, read, lists)
        BY <2>1, <4>1, <4>2, <4>3 DEF FaithfulWrite
      <4> QED
        BY <4>4, FaithfulSteps DEF write, new
    <3>3. F(WriteDeployment(synced)) /\ F(WriteStatus(synced))
      BY FaithfulSteps, SameRevised
    <3> HIDE DEF one, synced, current
    <3>4. /\ L(When(current.revision # revision, one))
          /\ L(When(d.revision # revision, WriteDeployment(synced)))
          /\ L(<<WriteStatus(synced)>>)
      BY <1>1, <1>3, <3>2, <3>3
    <3> QED
      BY <1>2, <3>1, <3>4
  <2>3. ASSUME NEW old \in SUBSET (Owned(read) \ {d.template}), NEW target \in Nat
        PROVE  L(ScaleDownToTotal(read, old, target))
    <3> DEFINE total == TotalSpec(read, old)
               before(t) == TotalSpec(read, {u \in old : Precedes("newest", read[u], read[t])})
               removable(t) == AtMost(read[t].spec, Less(Less(total, target), before(t)))
               scaled == {t \in old : removable(t) > 0}
               writes == {Write(t, [read[t] EXCEPT !.spec = @ - removable(t)]) : t \in scaled}
    <3>1. ScaleDownToTotal(read, old, target) = When(scaled # {}, WriteSets("newest", writes))
      BY DEF ScaleDownToTotal
    <3>2. ASSUME NEW t \in old PROVE removable(t) \in Nat
      <4>1. total \in Nat /\ before(t) \in Nat
        <5>1. old \in SUBSET Owned(read)
          OBVIOUS
        <5>2. {u \in old : Precedes("newest", read[u], read[t])} \in SUBSET Owned(read)
          BY <5>1
        <5> QED
          BY <5>1, <5>2, SumTypes
      <4>2. read[t].spec \in Nat
        BY <1>4
      <4> HIDE DEF total, before
      <4> QED
        BY <4>1, <4>2, AtMostType, LessType
    <3> HIDE DEF removable
    <3>3. ASSUME NEW t \in scaled, NEW write,
                 write = Write(t, [read[t] EXCEPT !.spec = @ - removable(t)])
          PROVE  FaithfulWrite(write, d, read, lists)
      <4>1. /\ t \in Owned(read) /\ t # d.template /\ read[t] \in ReplicaSets
            /\ read[t].spec \in Nat /\ Len(lists[t]) \in Nat
            /\ read[t].spec <= Len(lists[t]) /\ removable(t) \in Nat
        BY <1>4, <3>2
      <4> DEFINE n == read[t].spec - removable(t)
      <4>2. n <= Len(lists[t])
        BY <4>1
      <4>3. write = Write(t, [read[t] EXCEPT !.spec = n])
        BY <3>3
      <4> HIDE DEF n
      <4> QED
        BY <4>1, <4>2, <4>3, FaithfulRewrite
    <3>4. F(WriteSets("newest", writes))
      <4>1. \A write \in writes : FaithfulWrite(write, d, read, lists)
        BY <3>3
      <4> HIDE DEF writes
      <4> QED
        BY <4>1, FaithfulSteps
    <3> HIDE DEF writes, scaled
    <3> QED
      BY <1>1, <3>1, <3>4
  <2>4. L(RollingPlan(d, read))
    <3> DEFINE old == Owned(read) \ {d.template}
               oldTotal == TotalSpec(read, old)
               scaleUp == AtMost(Less(d.replicas, current.spec),
                                 Less(Ceiling(d), oldTotal + current.spec))
               target == current.spec + scaleUp
               down == MaxScaleDown(d, read, old, oldTotal, target)
               targetOld == oldTotal - down
               mayScaleDown == \/ current.available >= target
                               \/ \E t \in old : Unavailable(read[t]) > 0
               first == When(scaleUp > 0,
                             WriteSet(d.template, [current EXCEPT !.spec = target]))
               second == IF mayScaleDown /\ targetOld < oldTotal
                         THEN ScaleDownToTotal(read, old, targetOld) ELSE << >>
               third == When(target < d.replicas \/ targetOld > 0, Again)
    <3>1. RollingPlan(d, read) = (first \o second) \o third
      BY DEF RollingPlan
    <3>2. /\ current.spec \in Nat /\ d.replicas \in Nat /\ oldTotal \in Nat
          /\ Ceiling(d) \in Nat /\ Len(lists[d.template]) \in Nat
          /\ Len(lists[d.template]) <= current.spec
      <4>1. old \in SUBSET Owned(read)
        OBVIOUS
      <4>2. d.replicas \in Nat
        BY DEF Deployments
      <4> QED
        BY <1>4, <2>1, <4>1, <4>2, SumTypes, LimitTypes
    <3>3. scaleUp \in Nat
      <4> HIDE DEF oldTotal, current
      <4>1. oldTotal + current.spec \in Nat
        BY <3>2
      <4> QED
        BY <3>2, <4>1, AtMostType, LessType
    <3> HIDE DEF scaleUp
    <3>4. target \in Nat /\ Len(lists[d.template]) <= target
      BY <3>2, <3>3
    <3> HIDE DEF target
    <3>5. targetOld \in Nat
      <4>1. old \in SUBSET Owned(read)
        OBVIOUS
      <4>2. down \in Nat /\ down <= oldTotal
        BY <3>2, <3>4, <4>1, ScaleDownIsEnough
      <4> HIDE DEF down, oldTotal
      <4> QED
        BY <3>2, <4>2
    <3> HIDE DEF targetOld, mayScaleDown, oldTotal
    <3>6. F(WriteSet(d.template, [current EXCEPT !.spec = target]))
      <4>1. FaithfulWrite(Write(d.template, [current EXCEPT !.spec = target]), d, read, lists)
        BY <2>1, <3>4, FaithfulRewrite
      <4> QED
        BY <4>1, FaithfulSteps
    <3>7. L(first) /\ L(third)
      <4> HIDE DEF current
      <4> QED
        BY <1>1, <3>6, FaithfulSteps
    <3>8. L(second)
      <4>1. L(<< >>)
        <5>1. When(FALSE, Again) = << >>
          BY DEF When
        <5> QED
          BY <1>1, <5>1
      <4>2. L(ScaleDownToTotal(read, old, targetOld))
        BY <2>3, <3>5
      <4> QED
        BY <4>1, <4>2
    <3> HIDE DEF first, second, third
    <3> QED
      BY <1>2, <3>1, <3>7, <3>8
  <2>5. Plan(d, read) = RollingPlan(d, read) \o RevisionPlan(d, read)
    BY <1>6 DEF Plan
  <2> QED
    BY <1>2, <2>2, <2>4, <2>5 DEF L
<1> QED
  BY <1>5, <1>6

(* The Deployment controller's turns *)

\* The pods that are there allow for a plan that is faithful.
LEMMA SoundLengths ==
  ASSUME Sound
  PROVE  \A t \in Owned(replicaSets) :
           IF t = deploy.template THEN Len(pods[t]) <= replicaSets[t].spec
           ELSE replicaSets[t].spec <= Len(pods[t])
<1>1. \A t \in Owned(replicaSets) :
        Fits(t) => IF t = deploy.template THEN Len(pods[t]) <= replicaSets[t].spec
                   ELSE Len(pods[t]) >= replicaSets[t].spec
  BY DEF Fits
<1>2. \A t, u \in Owned(replicaSets) : Window(t) =>
        IF u = deploy.template THEN Len(pods[u]) <= replicaSets[u].spec
        ELSE Len(pods[u]) >= replicaSets[u].spec
  <2> SUFFICES ASSUME NEW t \in Owned(replicaSets), NEW u \in Owned(replicaSets), Window(t)
               PROVE  IF u = deploy.template THEN Len(pods[u]) <= replicaSets[u].spec
                      ELSE Len(pods[u]) >= replicaSets[u].spec
    OBVIOUS
  <2>1. CASE u = t
    BY <2>1 DEF Window
  <2>2. CASE u # t
    BY <1>1, <2>2 DEF Window, Others
  <2> QED
    BY <2>1, <2>2
<1>3. \A t \in Owned(replicaSets) :
           IF t = deploy.template THEN Len(pods[t]) <= replicaSets[t].spec
           ELSE Len(pods[t]) >= replicaSets[t].spec
  BY <1>1, <1>2 DEF Sound
<1> QED
  BY <1>3

\* A plan that is faithful, step by step
LEMMA FaithfulParts ==
  ASSUME NEW S, NEW later \in Seq(S), NEW step, NEW d, NEW read, NEW lists
  PROVE  Faithful(<<step>> \o later, d, read, lists) <=>
           FaithfulStep(step, d, read, lists) /\ Faithful(later, d, read, lists)
<1> DEFINE T == S \cup {step}
           all == <<step>> \o later
<1>1. <<step>> \in Seq(T) /\ later \in Seq(T) /\ Len(<<step>>) = 1 /\ <<step>>[1] = step
  OBVIOUS
<1> HIDE DEF T
<1>2. /\ DOMAIN all = 1..(1 + Len(later)) /\ Len(later) \in Nat
      /\ DOMAIN later = 1..Len(later)
      /\ all[1] = step /\ \A k \in 1..Len(later) : all[1 + k] = later[k]
  <2>1. /\ all \in Seq(T) /\ Len(all) = Len(<<step>>) + Len(later) /\ Len(later) \in Nat
        /\ \A k \in 1..Len(<<step>>) : all[k] = <<step>>[k]
        /\ \A k \in 1..Len(later) : all[Len(<<step>>) + k] = later[k]
    BY <1>1, ConcatType
  <2> HIDE DEF all
  <2> QED
    BY <1>1, <2>1
<1> HIDE DEF all
<1>3. ASSUME Faithful(all, d, read, lists)
      PROVE  FaithfulStep(step, d, read, lists) /\ Faithful(later, d, read, lists)
  <2>1. \A k \in DOMAIN all : FaithfulStep(all[k], d, read, lists)
    BY <1>3 DEF Faithful
  <2>2. 1 \in DOMAIN all /\ \A k \in 1..Len(later) : 1 + k \in DOMAIN all
    BY <1>2
  <2>3. FaithfulStep(step, d, read, lists)
    BY <1>2, <2>1, <2>2
  <2>4. \A k \in DOMAIN later : FaithfulStep(later[k], d, read, lists)
    BY <1>2, <2>1, <2>2
  <2> QED
    BY <2>3, <2>4 DEF Faithful
<1>4. ASSUME FaithfulStep(step, d, read, lists), Faithful(later, d, read, lists)
      PROVE  Faithful(all, d, read, lists)
  <2> SUFFICES ASSUME NEW k \in DOMAIN all PROVE FaithfulStep(all[k], d, read, lists)
    BY DEF Faithful
  <2>1. CASE k = 1
    BY <1>2, <1>4, <2>1
  <2>2. CASE k # 1
    <3>1. k - 1 \in DOMAIN later /\ 1 + (k - 1) = k
      BY <1>2, <2>2
    <3>2. all[k] = later[k - 1]
      BY <1>2, <3>1
    <3> QED
      BY <1>4, <3>1, <3>2 DEF Faithful
  <2> QED
    BY <2>1, <2>2
<1> QED
  BY <1>3, <1>4 DEF all

\* The plan of a reconcile is made.
LEMMA PlanHonored ==
  ASSUME StoreType, Rolling, Sound
  PROVE  Plan(deploy, replicaSets) # << >> /\ Honors(Plan(deploy, replicaSets))
<1> DEFINE steps == Plan(deploy, replicaSets)
           S == CreateSteps \cup LaterSteps(deploy)
<1>1. /\ deploy \in Deployments /\ replicaSets \in ReadSets
      /\ pods \in [Templates -> Seq(BOOLEAN)] /\ deploy.strategy.type = "RollingUpdate"
  BY DEF StoreType, Rolling
<1>2. steps \in PlansOf(deploy)
  BY <1>1, PlanType
<1>3. Faithful(steps, deploy, replicaSets, pods)
  BY <1>1, SoundLengths, PlanFaithful
<1> HIDE DEF steps
<1>4. /\ steps \in Seq(S) /\ steps # << >>
      /\ \A k \in DOMAIN steps : k = 1 \/ steps[k] \in LaterSteps(deploy)
  BY <1>2 DEF PlansOf
<1>5. S \subseteq CreateSteps \cup WriteSteps /\ LaterSteps(deploy) \subseteq WriteSteps
  BY DEF LaterSteps, WriteSteps
<1> HIDE DEF S
<1>6. /\ Head(steps) \in S /\ Tail(steps) \in Seq(S)
      /\ Len(steps) \in Nat \ {0} /\ DOMAIN steps = 1..Len(steps)
      /\ Len(Tail(steps)) = Len(steps) - 1
      /\ \A k \in 1..(Len(steps) - 1) : Tail(steps)[k] = steps[k + 1]
      /\ steps = <<Head(steps)>> \o Tail(steps)
  BY <1>4, TailIs, Unstacked
<1>7. PICK step \in S, later \in Seq(S) : step = Head(steps) /\ later = Tail(steps)
  BY <1>6
<1>8. later \in Seq(WriteSteps)
  <2>1. \A k \in 1..Len(later) : k + 1 \in DOMAIN steps /\ k + 1 # 1 /\ later[k] = steps[k + 1]
    BY <1>6, <1>7
  <2>2. \A k \in 1..Len(later) : later[k] \in WriteSteps
    BY <1>4, <1>5, <2>1
  <2> QED
    BY <2>2, SeqIs
<1>9. /\ steps = <<step>> \o later
      /\ FaithfulStep(step, deploy, replicaSets, pods)
      /\ Faithful(later, deploy, replicaSets, pods)
  BY <1>3, <1>6, <1>7, FaithfulParts
<1>10. step \in CreateSteps \cup WriteSteps
  BY <1>5
<1> QED
  BY <1>4, <1>8, <1>9, <1>10 DEF Honors, steps

\* What is left of a plan, whatever the store has become
LEMMA LeftHonors ==
  ASSUME NEW later \in Seq(WriteSteps), Faithful(later, deploy', replicaSets', pods')
  PROVE  Honors(later)'
<1>1. CASE later = << >>
  BY <1>1 DEF Honors
<1>2. CASE later # << >>
  <2>1. /\ Head(later) \in WriteSteps /\ Tail(later) \in Seq(WriteSteps)
        /\ later = <<Head(later)>> \o Tail(later)
    BY <1>2, Unstacked
  <2>2. PICK step \in WriteSteps, rest \in Seq(WriteSteps) : later = <<step>> \o rest
    BY <2>1
  <2>3. /\ FaithfulStep(step, deploy', replicaSets', pods')
        /\ Faithful(rest, deploy', replicaSets', pods')
    BY <2>2, FaithfulParts
  <2>4. step \in CreateSteps \cup WriteSteps
    OBVIOUS
  <2> QED
    BY <2>2, <2>3, <2>4 DEF Honors
<1> QED
  BY <1>1, <1>2

\* Steps stay faithful as long as the statuses and the pods stay.
LEMMA FaithfulKept ==
  ASSUME NEW d, NEW e, Same(e, d), NEW read, NEW read2, NEW lists,
         \A t \in Owned(read) :
           /\ t \in Owned(read2)
           /\ read2[t].replicas = read[t].replicas /\ read2[t].available = read[t].available,
         NEW later \in Seq(WriteSteps), Faithful(later, d, read, lists)
  PROVE  Faithful(later, e, read2, lists)
<1> SUFFICES ASSUME NEW k \in DOMAIN later PROVE FaithfulStep(later[k], e, read2, lists)
  BY DEF Faithful
<1>1. PICK step : step = later[k]
  OBVIOUS
<1>2. step \in WriteSteps /\ FaithfulStep(step, d, read, lists)
  BY <1>1 DEF Faithful
<1>3. \A write : FaithfulWrite(write, d, read, lists) => FaithfulWrite(write, e, read2, lists)
  BY DEF FaithfulWrite, Same
<1>4. step.do # "create"
  BY <1>2 DEF WriteSteps, SetsSteps, AgainSteps, DeploymentSteps
<1>5. step.do \in {"deployment", "status"} => Same(step.deploy, e)
  BY <1>2 DEF FaithfulStep, Same
<1>6. step.do = "sets" => \A write \in step.writes : FaithfulWrite(write, e, read2, lists)
  BY <1>2, <1>3 DEF FaithfulStep
<1> QED
  BY <1>1, <1>4, <1>5, <1>6 DEF FaithfulStep

\* A plan writes a ReplicaSet.
LEMMA SetsWritten ==
  ASSUME StoreType, Sound, NEW t \in Owned(replicaSets), NEW rs \in ReplicaSets,
         rs.replicas = replicaSets[t].replicas, rs.available = replicaSets[t].available,
         IF t = deploy.template THEN Len(pods[t]) <= rs.spec ELSE rs.spec <= Len(pods[t]),
         replicaSets' = [replicaSets EXCEPT ![t] = rs], UNCHANGED <<deploy, pods, rsQueue>>
  PROVE  /\ Sound'
         /\ \A u \in Owned(replicaSets) :
              /\ u \in Owned(replicaSets')
              /\ replicaSets'[u].replicas = replicaSets[u].replicas
              /\ replicaSets'[u].available = replicaSets[u].available
<1>1. /\ Owned(replicaSets)' = Owned(replicaSets)
      /\ \A u \in Others(t) : (Fits(u) => Fits(u)') /\ (Honest(u) => Honest(u)')
  BY OneChanged
<1>2. \A u : Others(u)' = Others(u)
  BY <1>1 DEF Others
<1>3. replicaSets'[t] = rs /\ \A u \in Others(t) : replicaSets'[u] = replicaSets[u]
  BY DEF StoreType, ReadSets, Owned, Others
<1>4. Honest(t) => Honest(t)'
  BY <1>3 DEF Honest
<1>5. Fits(t) => Fits(t)'
  <2>1. CASE t = deploy.template
    <3>1. Fits(t) => Honest(t)
      BY <2>1 DEF Fits
    <3>2. Len(pods'[t]) <= replicaSets'[t].spec /\ t = deploy'.template
      BY <1>3, <2>1
    <3> QED
      BY <1>4, <2>1, <3>1, <3>2 DEF Fits
  <2>2. CASE t # deploy.template
    <3>0. rs.spec \in Nat /\ Len(pods[t]) \in Nat
      BY DEF ReplicaSets, StoreType, Owned
    <3>1. Len(pods'[t]) >= replicaSets'[t].spec /\ t # deploy'.template
      BY <1>3, <2>2, <3>0
    <3>2. /\ replicaSets'[t].replicas = replicaSets[t].replicas
          /\ replicaSets'[t].available = replicaSets[t].available
          /\ pods'[t] = pods[t]
      BY <1>3
    <3> QED
      BY <2>2, <3>1, <3>2 DEF Fits
  <2> QED
    BY <2>1, <2>2
<1>6. \A u \in Owned(replicaSets) : (Fits(u) => Fits(u)') /\ (Honest(u) => Honest(u)')
  BY <1>1, <1>4, <1>5 DEF Others
<1>7. ASSUME NEW u \in Owned(replicaSets), Window(u) PROVE Window(u)'
  <2>1. Len(pods'[u]) >= replicaSets'[u].spec
    <3>1. CASE u = t
      <4>1. rs.spec <= Len(pods[t])
        BY <1>7, <3>1 DEF Window
      <4>2. rs.spec \in Nat /\ Len(pods[t]) \in Nat
        BY DEF ReplicaSets, StoreType, Owned
      <4> QED
        BY <1>3, <3>1, <4>1, <4>2
    <3>2. CASE u # t
      BY <1>3, <1>7, <3>2 DEF Others, Window
    <3> QED
      BY <3>1, <3>2
  <2>2. /\ \A x \in Owned(replicaSets)' : Honest(x)'
        /\ \A x \in Others(u)' : Fits(x)'
    BY <1>1, <1>2, <1>6, <1>7 DEF Window, Others
  <2>3. /\ u # deploy'.template /\ ReadyOf(pods'[u]) < Len(pods'[u])
        /\ rsQueue' # << >> /\ Head(rsQueue') = u
    BY <1>7 DEF Window
  <2> QED
    BY <2>1, <2>2, <2>3 DEF Window
<1>8. Sound'
  BY <1>1, <1>6, <1>7 DEF Sound
<1>9. \A u \in Owned(replicaSets) :
         /\ u \in Owned(replicaSets')
         /\ replicaSets'[u].replicas = replicaSets[u].replicas
         /\ replicaSets'[u].available = replicaSets[u].available
  BY <1>1, <1>3 DEF Others
<1> QED
  BY <1>8, <1>9

\* A plan creates the current ReplicaSet.
LEMMA SetsCreated ==
  ASSUME StoreType, Rolling, Sound, replicaSets[deploy.template] = None,
         Unowned(deploy.template), NEW rs \in ReplicaSets,
         rs.replicas = 0, rs.available = 0,
         replicaSets' = [replicaSets EXCEPT ![deploy.template] = rs],
         UNCHANGED <<deploy, pods, rsQueue>>
  PROVE  /\ Sound'
         /\ \A u \in Owned(replicaSets) :
              /\ u \in Owned(replicaSets')
              /\ replicaSets'[u].replicas = replicaSets[u].replicas
              /\ replicaSets'[u].available = replicaSets[u].available
<1>1. PICK c \in Templates : c = deploy.template
  BY DEF StoreType, Rolling, Deployments
<1>2. replicaSets'[c] = rs /\ \A u \in Owned(replicaSets) : replicaSets'[u] = replicaSets[u]
  BY <1>1 DEF StoreType, ReadSets, Owned
<1>3. Owned(replicaSets') = Owned(replicaSets) \cup {c} /\ c \notin Owned(replicaSets)
  <2>1. rs # None
    BY NoneAssumption
  <2> QED
    BY <1>1, <2>1 DEF StoreType, ReadSets, Owned
<1>4. \A u \in Owned(replicaSets) : (Fits(u) => Fits(u)') /\ (Honest(u) => Honest(u)')
  BY <1>2 DEF Fits, Honest
<1>5. Fits(c)' /\ Honest(c)'
  <2>1. pods'[c] = << >> /\ deploy'.template = c
    BY <1>1 DEF Unowned
  <2>2. Len(<< >>) = 0 /\ << >> \in Seq(BOOLEAN)
    OBVIOUS
  <2>3. ReadyOf(<< >>) \in Nat
    BY <2>2, ReadyKept
  <2>4. rs.spec \in Nat
    BY DEF ReplicaSets
  <2> QED
    BY <1>2, <2>1, <2>2, <2>3, <2>4 DEF Fits, Honest
<1>6. ASSUME NEW u \in Owned(replicaSets), Window(u) PROVE Window(u)'
  <2>1. /\ \A x \in Owned(replicaSets)' : Honest(x)'
        /\ \A x \in Others(u)' : Fits(x)'
    BY <1>3, <1>4, <1>5, <1>6 DEF Window, Others
  <2>2. /\ u # deploy'.template /\ ReadyOf(pods'[u]) < Len(pods'[u])
        /\ rsQueue' # << >> /\ Head(rsQueue') = u
        /\ Len(pods'[u]) >= replicaSets'[u].spec
    BY <1>2, <1>6 DEF Window
  <2> QED
    BY <2>1, <2>2 DEF Window
<1>7. Sound'
  BY <1>3, <1>4, <1>5, <1>6 DEF Sound
<1> QED
  BY <1>2, <1>3, <1>7

\* A plan writes the Deployment.
LEMMA SoundSame ==
  ASSUME Sound, UNCHANGED <<replicaSets, pods, rsQueue>>, Same(deploy', deploy)
  PROVE  Sound'
<1>1. deploy'.template = deploy.template
  BY DEF Same
<1>2. \A u : (Fits(u) => Fits(u)') /\ (Honest(u) => Honest(u)')
  BY <1>1 DEF Fits, Honest
<1>3. Owned(replicaSets)' = Owned(replicaSets) /\ \A u : Others(u)' = Others(u)
  BY DEF Others
<1>4. \A u : Window(u) => Window(u)'
  BY <1>1, <1>2, <1>3 DEF Window
<1> QED
  BY <1>2, <1>3, <1>4 DEF Sound

\* The loop's plan goes on.
LEMMA PlanRuns ==
  ASSUME StoreType, Living, Rolling, Run, Sound,
         NEW frame \in UpdateFrames, NEW n \in Nat, NEW steps, Honors(steps), steps # << >>,
         stack = Planned(steps, LoopOver(n, frame))
  PROVE  AvailInv'
<1> DEFINE rest == LoopOver(n, frame)
<1>1. PICK step \in CreateSteps \cup WriteSteps, later \in Seq(WriteSteps) :
        /\ steps = <<step>> \o later
        /\ FaithfulStep(step, deploy, replicaSets, pods)
        /\ Faithful(later, deploy, replicaSets, pods)
  BY DEF Honors
<1>2. PICK S : rest \in Seq(S)
  BY LoopOverIs
<1>3. stack = <<PlanFrame(<<step>> \o later)>> \o rest
  BY <1>1, <1>2, PlannedIs
<1>4. PlanFrame(<<step>> \o later).op = "plan"
  BY DEF PlanFrame
<1>5. PlanStep(PlanFrame(<<step>> \o later), rest) /\ UNCHANGED rsQueue
  <2> DEFINE top == PlanFrame(<<step>> \o later)
  <2>1. top.op = "plan" /\ stack = <<top>> \o rest
    BY <1>3, <1>4
  <2> HIDE DEF top, rest
  <2>2. PlanStep(top, rest) /\ UNCHANGED rsQueue
    BY <1>2, <2>1, RunIs
  <2> QED
    BY <2>2 DEF top
<1>6. deploy # None /\ deploy \in Deployments
  BY DEF Rolling, StoreType
<1>7. ASSUME Sound', NEW left, Honors(left)',
             \/ stack' = Planned(left, rest)
             \/ \E top \in DeliverFrames : stack' = <<top>> \o Planned(left, rest)
      PROVE  AvailInv'
  BY <1>7, LoopTurns
<1>8. ASSUME NEW t \in Templates
      PROVE  /\ Delivery(Event("ReplicaSetUpdated", t), 1) \in DeliverFrames
             /\ Delivery(Event("ReplicaSetCreated", t), 1) \in DeliverFrames
  BY DEF Delivery, Event, DeliverFrames, SetEvents
<1>9. Delivery(Event("DeploymentUpdated", None), 1) \in DeliverFrames
  BY DEF Delivery, Event, DeliverFrames, DeploymentEvents
<1>10. CASE step.do = "sets"
  <2>1. step \in SetsSteps
    BY <1>10 DEF CreateSteps, WriteSteps, AgainSteps, DeploymentSteps
  <2>2. PICK write \in step.writes :
          \/ UpdateReplicaSet(write.template, write.rs, Planned(later, rest))
          \/ UpdateReplicaSet(write.template, write.rs,
               Planned(<<[step EXCEPT !.writes = @ \ {write}]>> \o later, rest))
    BY <1>5, <1>10, PlanStepIs
  <2> DEFINE less == [step EXCEPT !.writes = @ \ {write}]
  <2>3. less \in SetsSteps /\ less.do = "sets" /\ less.writes = step.writes \ {write}
    BY <2>1 DEF SetsSteps
  <2>4. /\ FaithfulWrite(write, deploy, replicaSets, pods)
        /\ \A x \in step.writes : FaithfulWrite(x, deploy, replicaSets, pods)
    BY <1>1, <1>10 DEF FaithfulStep
  <2>5. FaithfulStep(less, deploy, replicaSets, pods)
    BY <2>3, <2>4 DEF FaithfulStep
  <2> HIDE DEF less
  <2>6. PICK t \in Owned(replicaSets), rs \in ReplicaSets : t = write.template /\ rs = write.rs
    BY <2>1, <2>4 DEF SetsSteps, FaithfulWrite
  <2>7. /\ rs.replicas = replicaSets[t].replicas /\ rs.available = replicaSets[t].available
        /\ IF t = deploy.template THEN Len(pods[t]) <= rs.spec ELSE rs.spec <= Len(pods[t])
    BY <2>4, <2>6 DEF FaithfulWrite
  <2>8. \E left \in Seq(WriteSteps) :
          /\ UpdateReplicaSet(t, rs, Planned(left, rest))
          /\ Faithful(left, deploy, replicaSets, pods)
    <3>1. <<less>> \o later \in Seq(WriteSteps)
      <4>1. less \in WriteSteps
        BY <2>3 DEF WriteSteps
      <4> QED
        BY <4>1, Stacked
    <3>2. Faithful(<<less>> \o later, deploy, replicaSets, pods)
      BY <1>1, <2>5, FaithfulParts
    <3>3. CASE UpdateReplicaSet(write.template, write.rs, Planned(later, rest))
      BY <1>1, <2>6, <3>3
    <3>4. CASE UpdateReplicaSet(write.template, write.rs, Planned(<<less>> \o later, rest))
      BY <2>6, <3>1, <3>2, <3>4
    <3> QED
      BY <2>2, <3>3, <3>4 DEF less
  <2>9. PICK left \in Seq(WriteSteps) :
          /\ UpdateReplicaSet(t, rs, Planned(left, rest))
          /\ Faithful(left, deploy, replicaSets, pods)
    BY <2>8
  <2>10. /\ replicaSets' = [replicaSets EXCEPT ![t] = rs] /\ UNCHANGED <<deploy, pods, rsQueue>>
         /\ stack' = <<Delivery(Event("ReplicaSetUpdated", t), 1)>> \o Planned(left, rest)
    BY <1>5, <2>9 DEF UpdateReplicaSet, Deliver, Owned
  <2>11. /\ Sound'
         /\ \A u \in Owned(replicaSets) :
              /\ u \in Owned(replicaSets')
              /\ replicaSets'[u].replicas = replicaSets[u].replicas
              /\ replicaSets'[u].available = replicaSets[u].available
    BY <2>7, <2>10, SetsWritten
  <2>12. Same(deploy, deploy)
    BY DEF Same
  <2>13. Faithful(left, deploy', replicaSets', pods')
    <3>1. Faithful(left, deploy, replicaSets', pods)
      BY <2>9, <2>11, <2>12, FaithfulKept
    <3> QED
      BY <2>10, <3>1
  <2>14. Honors(left)'
    BY <2>13, LeftHonors
  <2>15. Delivery(Event("ReplicaSetUpdated", t), 1) \in DeliverFrames
    BY <1>8, <2>6 DEF Owned
  <2> QED
    BY <1>7, <2>10, <2>11, <2>14, <2>15
<1>11. CASE step.do = "create"
  <2>1. step \in CreateSteps
    BY <1>11 DEF WriteSteps, SetsSteps, AgainSteps, DeploymentSteps
  <2>2. CreateReplicaSet(step.template, step.rs, Planned(later, rest))
    BY <1>5, <1>11, PlanStepIs
  <2>3. PICK t \in Templates, rs \in ReplicaSets : t = step.template /\ rs = step.rs
    BY <2>1 DEF CreateSteps
  <2>4. t = deploy.template /\ replicaSets[t] = None /\ rs.replicas = 0 /\ rs.available = 0
    BY <1>1, <1>11, <2>3 DEF FaithfulStep
  <2>5. /\ replicaSets' = [replicaSets EXCEPT ![t] = rs] /\ UNCHANGED <<deploy, pods, rsQueue>>
        /\ stack' = <<Delivery(Event("ReplicaSetCreated", t), 1)>> \o Planned(later, rest)
    BY <1>5, <2>2, <2>3 DEF CreateReplicaSet, Deliver
  <2>6. Unowned(deploy.template)
    BY <2>4 DEF Living
  <2>7. /\ Sound'
        /\ \A u \in Owned(replicaSets) :
             /\ u \in Owned(replicaSets')
             /\ replicaSets'[u].replicas = replicaSets[u].replicas
             /\ replicaSets'[u].available = replicaSets[u].available
    BY <2>4, <2>5, <2>6, SetsCreated
  <2>8. Same(deploy, deploy)
    BY DEF Same
  <2>9. Faithful(later, deploy', replicaSets', pods')
    <3>1. Faithful(later, deploy, replicaSets', pods)
      BY <1>1, <2>7, <2>8, FaithfulKept
    <3> QED
      BY <2>5, <3>1
  <2>10. Honors(later)'
    BY <2>9, LeftHonors
  <2> QED
    BY <1>7, <1>8, <2>5, <2>7, <2>10
<1>12. ASSUME NEW d, Same(d, deploy), UpdateDeployment(d, Planned(later, rest))
       PROVE  AvailInv'
  <2>1. /\ deploy' = d /\ UNCHANGED <<replicaSets, pods, rsQueue>>
        /\ stack' = <<Delivery(Event("DeploymentUpdated", None), 1)>> \o Planned(later, rest)
    BY <1>5, <1>6, <1>12 DEF UpdateDeployment, Deliver
  <2>2. Sound'
    BY <1>12, <2>1, SoundSame
  <2>3. Faithful(later, deploy', replicaSets', pods')
    <3>1. Faithful(later, d, replicaSets, pods)
      BY <1>1, <1>12, FaithfulKept
    <3> QED
      BY <2>1, <3>1
  <2>4. Honors(later)'
    BY <2>3, LeftHonors
  <2> QED
    BY <1>7, <1>9, <2>1, <2>2, <2>4
<1>13. ASSUME UNCHANGED store, stack' = Planned(later, rest) PROVE AvailInv'
  <2>1. Sound'
    BY <1>5, <1>13, SoundKept
  <2>2. Faithful(later, deploy', replicaSets', pods')
    BY <1>1, <1>13 DEF store
  <2>3. Honors(later)'
    BY <2>2, LeftHonors
  <2> QED
    BY <1>7, <1>13, <2>1, <2>3
<1>14. CASE step.do = "deployment"
  <2>1. Same(step.deploy, deploy)
    BY <1>1, <1>14 DEF FaithfulStep
  <2>2. UpdateDeployment(step.deploy, Planned(later, rest))
    BY <1>5, <1>14, PlanStepIs
  <2> QED
    BY <1>12, <2>1, <2>2
<1>15. CASE step.do = "enqueue"
  <2>1. EnqueueDeployment(Planned(later, rest))
    BY <1>5, <1>15, PlanStepIs
  <2>2. Draining("deployments", Planned(later, rest))
    BY LoopOverIs
  <2>3. UNCHANGED store /\ stack' = Planned(later, rest)
    BY <2>1, <2>2 DEF EnqueueDeployment, Return
  <2> QED
    BY <1>13, <2>3
<1>16. CASE step.do = "status"
  <2> DEFINE status == StatusOf(step.deploy, replicaSets)
             new == [step.deploy EXCEPT !.status = status]
  <2>1. \/ UNCHANGED store /\ stack' = Planned(later, rest)
        \/ UpdateDeployment(new, Planned(later, rest))
    BY <1>5, <1>16, PlanStepIs
  <2>2. step.deploy \in Deployments /\ Same(step.deploy, deploy)
    BY <1>1, <1>16 DEF FaithfulStep, CreateSteps, WriteSteps, SetsSteps, AgainSteps,
                       DeploymentSteps
  <2> HIDE DEF status
  <2>3. Same(new, deploy)
    BY <2>2 DEF Same, Deployments
  <2> HIDE DEF new
  <2> QED
    BY <1>12, <1>13, <2>1, <2>3
<1> QED
  BY <1>1, <1>5, <1>10, <1>11, <1>14, <1>15, <1>16, PlanStepIs

\* The loop takes the Deployment's key, or ends.
LEMMA LoopRuns ==
  ASSUME StoreType, Rolling, Run, Sound, NEW frame \in UpdateFrames, NEW n \in Nat,
         stack = LoopOver(n, frame)
  PROVE  AvailInv'
<1> DEFINE under == <<frame>> \o Bottom
<1>1. PICK S : under \in Seq(S)
  BY LoopOverIs
<1>2. DrainDeployments(DeploymentsLoop(n), under) /\ UNCHANGED rsQueue
  <2>1. stack = <<DeploymentsLoop(n)>> \o under /\ DeploymentsLoop(n).op = "deployments"
    BY DEF LoopOver, DeploymentsLoop
  <2> HIDE DEF under
  <2> QED
    BY <1>1, <2>1, RunIs
<1>3. DeploymentsLoop(n).left = n
  BY DEF DeploymentsLoop
<1>4. CASE queued /\ n > 0
  <2>1. Reconcile(LoopOver(n - 1, frame))
    BY <1>2, <1>3, <1>4 DEF DrainDeployments, LoopOver
  <2> DEFINE plan == Plan(deploy, replicaSets)
  <2>2. plan # << >> /\ Honors(plan)
    BY PlanHonored
  <2>3. UNCHANGED store /\ stack' = Planned(plan, LoopOver(n - 1, frame))
    BY <2>1, <2>2 DEF Reconcile, Return, Planned, Rolling
  <2>4. PICK steps : steps = plan
    OBVIOUS
  <2>5. Honors(steps)'
    BY <2>2, <2>3, <2>4, HonorsKept
  <2>6. Sound'
    BY <1>2, <2>3, SoundKept
  <2>7. PICK m \in Nat : m = n - 1
    BY <1>4
  <2>8. stack' = Planned(steps, LoopOver(m, frame))
    BY <2>3, <2>4, <2>7
  <2> QED
    BY <2>5, <2>6, <2>8, LoopTurns
<1>5. CASE ~(queued /\ n > 0)
  <2>1. UNCHANGED store /\ stack' = under
    BY <1>2, <1>3, <1>5 DEF DrainDeployments, Return
  <2>2. Sound'
    BY <1>2, <2>1, SoundKept
  <2> QED
    BY <2>1, <2>2 DEF Conversing, AvailInv
<1> QED
  BY <1>4, <1>5

\* The two controllers go on.
LEMMA ConversingRuns ==
  ASSUME StoreType, KeysType, Living, Rolling, Run, Conversing
  PROVE  AvailInv'
<1>1. Sound
  BY DEF Conversing
<1>2. CASE stack = Bottom
  BY <1>1, <1>2, BottomRuns
<1>3. CASE \E frame \in UpdateFrames : stack = <<frame>> \o Bottom
  BY <1>1, <1>3, UpdateRuns
<1>4. ASSUME NEW frame \in UpdateFrames, NEW n \in Nat, NEW steps, Honors(steps),
             \/ stack = Planned(steps, LoopOver(n, frame))
             \/ \E top \in DeliverFrames :
                  stack = <<top>> \o Planned(steps, LoopOver(n, frame))
      PROVE  AvailInv'
  <2>1. CASE stack = Planned(steps, LoopOver(n, frame)) /\ steps # << >>
    BY <1>1, <1>4, <2>1, PlanRuns
  <2>2. CASE stack = Planned(steps, LoopOver(n, frame)) /\ steps = << >>
    <3>1. stack = LoopOver(n, frame)
      BY <2>2, LoopOverIs
    <3> QED
      BY <1>1, <3>1, LoopRuns
  <2>3. CASE \E top \in DeliverFrames : stack = <<top>> \o Planned(steps, LoopOver(n, frame))
    BY <1>1, <1>4, <2>3, DeliveryRuns
  <2> QED
    BY <1>4, <2>1, <2>2, <2>3
<1> QED
  BY <1>2, <1>3, <1>4 DEF Conversing

(* Availability: calls begin *)

\* A status that is right is honest, and its ReplicaSet fits.
LEMMA SettledFits ==
  ASSUME StoreType, NEW t \in Owned(replicaSets), Settled(t)
  PROVE  Fits(t) /\ Honest(t)
<1> DEFINE list == pods[t]
<1>1. list \in Seq(BOOLEAN)
  BY DEF StoreType, Owned
<1>2. /\ SetStatus(list).replicas = replicaSets[t].replicas
      /\ SetStatus(list).available = replicaSets[t].available
      /\ Len(list) = replicaSets[t].spec
  BY DEF Settled
<1>3. /\ ReadyOf(list) \in Nat /\ ReadyOf(list) <= Len(list) /\ Len(list) \in Nat
      /\ SetStatus(list).replicas = Len(list)
      /\ SetStatus(list).available = ReadyOf(list)
  BY <1>1, StatusIs
<1>4. replicaSets[t].replicas = Len(pods[t]) /\ replicaSets[t].available = ReadyOf(pods[t])
  BY <1>2, <1>3
<1>5. replicaSets[t].available <= ReadyOf(pods[t])
  BY <1>3, <1>4
<1>6. Len(pods[t]) <= replicaSets[t].spec /\ Len(pods[t]) >= replicaSets[t].spec
  BY <1>2, <1>3
<1>7. replicaSets[t].replicas <= replicaSets[t].available => ReadyOf(pods[t]) = Len(pods[t])
  BY <1>3, <1>4
<1> QED
  BY <1>5, <1>6, <1>7 DEF Fits, Honest

\* Between calls nothing is owed to anyone.
LEMMA IdleFits ==
  ASSUME StoreType, Living, IInv, Idle
  PROVE  /\ rsQueue = << >>
         /\ \A t \in Owned(replicaSets) :
              Fits(t) /\ Honest(t) /\ Len(pods[t]) = replicaSets[t].spec
         /\ \A t \in Templates : pods[t] # << >> => t \in Owned(replicaSets)
<1>1. \A op : ~Draining(op, stack)
  BY Nothing DEF Idle
<1>2. rsQueue = << >>
  BY <1>1 DEF IInv, Attended
<1>3. stack \in Seq({})
  BY Nothing DEF Idle
<1>4. \A t \in Owned(replicaSets) : Settled(t)
  BY <1>1, <1>3, AllSettled
<1>5. \A t \in Owned(replicaSets) : Len(pods[t]) = replicaSets[t].spec
  BY <1>4 DEF Settled
<1>6. \A t \in Templates : pods[t] # << >> => t \in Owned(replicaSets)
  BY DEF Living, Unowned, Owned
<1> QED
  BY <1>2, <1>4, <1>5, <1>6, SettledFits

\* A pod is taken out of a list.
LEMMA RemovedLength ==
  ASSUME NEW list \in Seq(BOOLEAN), NEW i \in DOMAIN list
  PROVE  Len(list) = Len(RemoveAt(list, i)) + 1
<1>1. i \in 1..Len(list) /\ Len(list) \in Nat
  OBVIOUS
<1> DEFINE n == Len(list)
           a == SubSeq(list, 1, i - 1)
           b == SubSeq(list, i + 1, n)
<1>2. \A k \in 1..n : list[k] \in BOOLEAN
  BY <1>1
<1>3. n \in Nat /\ i \in 1..n
  BY <1>1
<1> HIDE DEF n
<1>4. a \in Seq(BOOLEAN) /\ Len(a) = i - 1
  <2>1. /\ 1 \in Int /\ i - 1 \in Int
        /\ \A k \in 1..(i - 1) : list[k] \in BOOLEAN
    BY <1>2, <1>3
  <2>2. a \in Seq(BOOLEAN) /\ Len(a) = IF 1 <= i - 1 THEN i - 1 - 1 + 1 ELSE 0
    BY <2>1, SubSeqProperties
  <2> HIDE DEF a
  <2> QED
    BY <1>3, <2>2
<1>5. b \in Seq(BOOLEAN) /\ Len(b) = n - i
  <2>1. /\ i + 1 \in Int /\ n \in Int
        /\ \A k \in (i + 1)..n : list[k] \in BOOLEAN
    BY <1>2, <1>3
  <2>2. b \in Seq(BOOLEAN) /\ Len(b) = IF i + 1 <= n THEN n - (i + 1) + 1 ELSE 0
    BY <2>1, SubSeqProperties
  <2> HIDE DEF b
  <2> QED
    BY <1>3, <2>2
<1>6. RemoveAt(list, i) = a \o b
  BY DEF RemoveAt, n
<1> HIDE DEF a, b
<1>7. Len(a \o b) = Len(a) + Len(b)
  BY <1>4, <1>5, ConcatType
<1>8. Len(RemoveAt(list, i)) = (i - 1) + (n - i)
  BY <1>4, <1>5, <1>6, <1>7
<1> DEFINE m == Len(RemoveAt(list, i))
<1> HIDE DEF m
<1>9. n = m + 1
  BY <1>3, <1>8 DEF m
<1> QED
  BY <1>9 DEF m, n

\* A pod changes, or is gone.
LEMMA PodAvail ==
  ASSUME StoreType, Living, IInv, Idle, NEW t \in Templates, pods[t] # << >>,
         NEW list \in Seq(BOOLEAN), Len(pods[t]) \in {Len(list), Len(list) + 1},
         SetPods(t, list, << >>), UNCHANGED rsQueue
  PROVE  AvailInv'
<1>1. /\ deploy' = deploy /\ replicaSets' = replicaSets
      /\ pods' = [pods EXCEPT ![t] = list] /\ stack' = <<PodTold(t)>> \o << >>
  BY DEF SetPods, Deliver, PodTold
<1>2. /\ rsQueue = << >> /\ t \in Owned(replicaSets)
      /\ \A u \in Owned(replicaSets) : Fits(u) /\ Honest(u)
      /\ Len(pods[t]) = replicaSets[t].spec
  BY IdleFits
<1>3. /\ Owned(replicaSets)' = Owned(replicaSets) /\ Others(t)' = Others(t)
      /\ \A u \in Others(t) : (Fits(u) => Fits(u)') /\ (Honest(u) => Honest(u)')
  BY <1>1, <1>2, OneChanged
<1>4. \A u \in Others(t)' : Fits(u)' /\ Honest(u)'
  BY <1>2, <1>3 DEF Others
<1>5. pods'[t] = list
  BY <1>1 DEF StoreType
<1>6. replicaSets'[t].spec \in {Len(pods'[t]), Len(pods'[t]) + 1}
  BY <1>1, <1>2, <1>5
<1>7. stack' = <<PodTold(t)>> /\ rsQueue' = << >>
  BY <1>1, <1>2, BottomIs
<1>8. Touched(t)'
  BY <1>2, <1>3, <1>4, <1>6, <1>7 DEF Touched
<1> QED
  BY <1>8 DEF AvailInv

\* A ReplicaSet is resynced.
LEMMA ResyncAvail ==
  ASSUME StoreType, KeysType, Living, IInv, NEW t \in Templates, ResyncReplicaSet(t)
  PROVE  AvailInv'
<1>1. Idle /\ replicaSets[t] # None /\ EnqueueReplicaSet(t, << >>)
  BY DEF ResyncReplicaSet
<1>2. /\ rsQueue = << >> /\ t \in Owned(replicaSets)
      /\ \A u \in Owned(replicaSets) : Fits(u) /\ Honest(u)
      /\ Len(pods[t]) = replicaSets[t].spec
  BY <1>1, IdleFits DEF Owned
<1>3. UNCHANGED store /\ rsQueue' = <<t>> /\ stack' = <<SetsLoop>> \o << >>
  <2>1. ~Draining("replicaSets", << >>)
    BY Nothing
  <2> QED
    BY <1>1, <1>2, <2>1, KeyBehind
<1>4. stack' = Bottom
  BY <1>3, BottomIs
<1>5. \A u \in Others(t)' : Fits(u)' /\ Honest(u)'
  BY <1>2, <1>3 DEF Others, Fits, Honest, store
<1>6. t \in Owned(replicaSets)' /\ replicaSets'[t].spec \in {Len(pods'[t]), Len(pods'[t]) + 1}
  BY <1>2, <1>3 DEF store
<1>7. Touched(t)'
  BY <1>3, <1>4, <1>5, <1>6 DEF Touched
<1> QED
  BY <1>7 DEF AvailInv

\* Calls that begin with the Deployment
LEMMA CallIsBased ==
  /\ Based(<< >>)
  /\ \A n : Based(<<DeploymentsLoop(n)>> \o << >>)
  /\ Based(<<Delivery(Event("DeploymentUpdated", None), 1)>> \o << >>)
  /\ \A steps : Based(<<PlanFrame(steps)>> \o <<NextFrame>>)
<1>1. /\ \A n : ~Owes(DeploymentsLoop(n))
      /\ ~Owes(Delivery(Event("DeploymentUpdated", None), 1))
      /\ \A steps : ~Owes(PlanFrame(steps))
      /\ ~Owes(NextFrame)
  BY DEF Owes, DeploymentsLoop, Delivery, Event, SetEvents, PlanFrame, NextFrame
<1>2. << >> \in Seq({}) /\ <<NextFrame>> \in Seq({NextFrame})
      /\ <<NextFrame>> = <<NextFrame>> \o << >>
  OBVIOUS
<1>3. Based(<< >>)
  BY <1>2, BasedIs
<1>4. \A frame : ~Owes(frame) => Based(<<frame>> \o << >>)
  BY <1>2, <1>3, BasedIs
<1>5. Based(<<NextFrame>>)
  BY <1>1, <1>2, <1>4
<1>6. \A steps : Based(<<PlanFrame(steps)>> \o <<NextFrame>>)
  BY <1>1, <1>2, <1>5, BasedIs
<1> QED
  BY <1>1, <1>3, <1>4, <1>6

\* The invariant holds at first.
LEMMA AvailInit ==
  ASSUME Init
  PROVE  AvailInv
<1>1. stack = << >>
  BY DEF Init
<1> QED
  BY <1>1, CallIsBased DEF AvailInv

\* Every step keeps it.
LEMMA NextKeepsAvail ==
  ASSUME AllInv, AvailInv, [Next]_vars
  PROVE  AvailInv'
<1>1. StoreType /\ KeysType /\ IInv /\ (Living \/ Dying)
  BY DEF AllInv, OInv
<1> SUFFICES ASSUME Rolling' PROVE AvailInv'
  BY DEF AvailInv
<1>2. CASE Run
  <2>1. Living
    <3>1. deploy = None => deploy' = None
      BY <1>2, RunWrites
    <3>2. deploy # None
      BY <3>1 DEF Rolling
    <3> QED
      BY <1>1, <3>2 DEF Dying
  <2>2. Rolling
    BY <1>2, <2>1, StrategyKept
  <2>3. CASE Based(stack)
    <3>1. Based(stack')
      BY <1>1, <1>2, <2>1, <2>3, BasedRuns
    <3> QED
      BY <3>1 DEF AvailInv
  <2>4. CASE \E t \in Templates : Touched(t)
    BY <1>1, <1>2, <2>2, <2>4, TouchedRuns
  <2>5. CASE \E frame : Replacing(frame) \/ Adjusting(frame)
    BY <1>1, <1>2, <2>2, <2>5, ReplacingRuns, AdjustingRuns
  <2>6. CASE Conversing
    BY <1>1, <1>2, <2>1, <2>2, <2>6, ConversingRuns
  <2> QED
    BY <2>2, <2>3, <2>4, <2>5, <2>6 DEF AvailInv
<1>3. ASSUME Based(stack') PROVE AvailInv'
  BY <1>3 DEF AvailInv
<1>4. CASE TimerFires
  <2>1. \/ stack' = << >>
        \/ stack' = <<PlanFrame(Plan(deploy, replicaSets))>> \o <<NextFrame>>
        \/ stack' = <<NextFrame>> /\ deploy' = None
    BY <1>4 DEF TimerFires, Reconcile, Return, PlanFrame, NextFrame, store
  <2>2. deploy' # None
    BY DEF Rolling
  <2> QED
    BY <1>3, <2>1, <2>2, CallIsBased
<1>5. CASE ResyncDeployment
  <2>1. \/ stack' = << >>
        \/ stack' = <<DeploymentsLoop(MaxBatch)>> \o << >>
    BY <1>5 DEF ResyncDeployment, EnqueueDeployment, Return
  <2> QED
    BY <1>3, <2>1, CallIsBased
<1>6. ASSUME NEW t \in Templates, ResyncReplicaSet(t) PROVE AvailInv'
  <2>1. replicaSets[t] # None /\ UNCHANGED store
    BY <1>6 DEF ResyncReplicaSet, EnqueueReplicaSet, Return
  <2>2. deploy # None
    BY <2>1 DEF Rolling, store
  <2>3. Living
    BY <1>1, <2>2 DEF Dying
  <2> QED
    BY <1>1, <1>6, <2>3, ResyncAvail
<1>7. ASSUME NEW t \in Templates, NEW i \in DOMAIN pods[t],
             PodReady(t, i) \/ PodUnready(t, i) \/ PodEnds(t, i) \/ DeletePod(t, i)
      PROVE  AvailInv'
  <2>1. pods[t] \in Seq(BOOLEAN) /\ pods[t] # << >>
    BY <1>1, <1>7, ListTypes DEF StoreType
  <2>2. PICK list \in Seq(BOOLEAN) :
          /\ Idle /\ SetPods(t, list, << >>) /\ UNCHANGED rsQueue
          /\ Len(pods[t]) \in {Len(list), Len(list) + 1}
    <3>1. \/ SetReady(t, i, TRUE) \/ SetReady(t, i, FALSE)
          \/ /\ Idle /\ SetPods(t, RemoveAt(pods[t], i), << >>)
             /\ UNCHANGED rsQueue
      BY <1>7 DEF PodReady, PodUnready, PodEnds, DeletePod, Edit
    <3>2. CASE SetReady(t, i, TRUE) \/ SetReady(t, i, FALSE)
      <4>1. \A ready \in BOOLEAN : /\ [pods[t] EXCEPT ![i] = ready] \in Seq(BOOLEAN)
                                   /\ Len([pods[t] EXCEPT ![i] = ready]) = Len(pods[t])
        BY <2>1, ListTypes
      <4> QED
        BY <3>2, <4>1 DEF SetReady
    <3>3. CASE /\ Idle /\ SetPods(t, RemoveAt(pods[t], i), << >>)
               /\ UNCHANGED rsQueue
      <4>1. RemoveAt(pods[t], i) \in Seq(BOOLEAN)
        BY <1>7, <2>1, ListTypes
      <4>2. Len(pods[t]) = Len(RemoveAt(pods[t], i)) + 1
        BY <1>7, <2>1, RemovedLength
      <4> QED
        BY <3>3, <4>1, <4>2
    <3> QED
      BY <3>1, <3>2, <3>3
  <2>3. deploy # None
    BY <2>2 DEF SetPods, Rolling
  <2>4. Living
    BY <1>1, <2>3 DEF Dying
  <2> QED
    BY <1>1, <2>1, <2>2, <2>4, PodAvail
<1>8. CASE \/ \E n \in 0..MaxReplicas : Scale(n)
           \/ \E t \in Templates : ChangeTemplate(t)
           \/ \E d \in NewDeployments : CreateDeployment(d)
  <2>1. Deliver(Event("DeploymentUpdated", None), << >>)
    <3>1. \A n : Scale(n) => Deliver(Event("DeploymentUpdated", None), << >>)
      BY DEF Scale, UpdateDeployment
    <3>2. \A t : ChangeTemplate(t) => Deliver(Event("DeploymentUpdated", None), << >>)
      BY DEF ChangeTemplate, UpdateDeployment
    <3>3. \A d : CreateDeployment(d) => Deliver(Event("DeploymentUpdated", None), << >>)
      BY DEF CreateDeployment
    <3> QED
      BY <1>8, <3>1, <3>2, <3>3
  <2> QED
    BY <1>3, <2>1, CallIsBased DEF Deliver
<1>9. CASE DeleteDeployment
  BY <1>9 DEF DeleteDeployment, Rolling
<1>10. CASE UNCHANGED vars
  <2>1. /\ deploy' = deploy /\ replicaSets' = replicaSets /\ pods' = pods
        /\ rsQueue' = rsQueue /\ stack' = stack
    BY <1>10 DEF vars, store
  <2>2. AvailInv' <=> AvailInv
    BY <2>1 DEF AvailInv, Rolling, Touched, Replacing, Adjusting, Conversing, Sound, Window,
                Fits, Honest, Others, Honors, Scaling
  <2> QED
    BY <2>2
<1> QED
  BY <1>2, <1>4, <1>5, <1>6, <1>7, <1>8, <1>9, <1>10 DEF Next

(* Availability: what a plan takes from the old ReplicaSets *)

\* scaleDownReplicaSetsToTotal removes no more than there is to remove: each
\* replica that is removed has its own place behind those removed before.
LEMMA RemovedIs ==
  ASSUME NEW read \in ReadSets, NEW old \in SUBSET Owned(read), Ranked(read, old),
         NEW excess \in Nat, NEW removed \in [old -> Nat],
         \A t \in old :
           LET before == TotalSpec(read, {u \in old : Precedes("newest", read[u], read[t])})
           IN  removed[t] = AtMost(read[t].spec, Less(excess, before))
  PROVE  Total(removed) <= excess
<1> DEFINE ahead(t) == {u \in old : Precedes("newest", read[u], read[t])}
           before == [t \in old |-> TotalSpec(read, ahead(t))]
           place == [z \in Pairs(removed) |-> before[z[1]] + z[2]]
<1>1. \A t \in old : read[t].spec \in Nat
  BY OwnedTypes DEF ReplicaSets
<1>2. \A t \in old : before[t] \in Nat
  BY SumTypes
<1>3. ASSUME NEW t \in old, NEW u \in old, Precedes("newest", read[t], read[u])
      PROVE  before[t] + read[t].spec <= before[u]
  <2>1. t \notin ahead(t) /\ t \in ahead(u) /\ ahead(t) \subseteq ahead(u)
    BY <1>3, NewestFirst
  <2> QED
    BY <2>1, SpecAdded
<1>4. ASSUME NEW t \in old
      PROVE  /\ removed[t] \in Nat /\ removed[t] <= read[t].spec
             /\ removed[t] > 0 => before[t] + removed[t] <= excess
  <2>1. removed[t] = AtMost(read[t].spec, Less(excess, before[t]))
    OBVIOUS
  <2> HIDE DEF before
  <2>2. /\ Less(excess, before[t]) \in Nat
        /\ Less(excess, before[t]) > 0 => Less(excess, before[t]) + before[t] = excess
    BY <1>2 DEF Less
  <2>3. removed[t] = IF read[t].spec <= Less(excess, before[t]) THEN read[t].spec
                     ELSE Less(excess, before[t])
    BY <1>1, <2>1, <2>2, AtMostIs
  <2> QED
    BY <1>1, <1>2, <2>2, <2>3
<1> HIDE DEF before
<1>5. ASSUME NEW z \in Pairs(removed)
      PROVE  /\ z[1] \in old /\ z[2] \in Nat /\ z = <<z[1], z[2]>>
             /\ z[2] >= 1 /\ z[2] <= removed[z[1]]
             /\ place[z] = before[z[1]] + z[2]
  <2>1. PICK t \in old : \E i \in 1..removed[t] : z = <<t, i>>
    BY <1>5, PairsAre
  <2>2. PICK i \in 1..removed[t] : z = <<t, i>>
    BY <2>1
  <2> QED
    BY <1>4, <2>2
<1> HIDE DEF place
<1>6. ASSUME NEW z \in Pairs(removed) PROVE place[z] \in 1..excess
  <2>1. /\ removed[z[1]] \in Nat /\ before[z[1]] \in Nat
        /\ removed[z[1]] > 0 => before[z[1]] + removed[z[1]] <= excess
    BY <1>2, <1>4, <1>5
  <2> QED
    BY <1>5, <2>1
<1>7. ASSUME NEW y \in Pairs(removed), NEW z \in Pairs(removed), place[y] = place[z]
      PROVE  y = z
  <2>1. /\ removed[y[1]] \in Nat /\ removed[y[1]] <= read[y[1]].spec
        /\ removed[z[1]] \in Nat /\ removed[z[1]] <= read[z[1]].spec
        /\ before[y[1]] \in Nat /\ before[z[1]] \in Nat
        /\ read[y[1]].spec \in Nat /\ read[z[1]].spec \in Nat
    BY <1>1, <1>2, <1>4, <1>5
  <2>2. before[y[1]] + y[2] = before[z[1]] + z[2]
    BY <1>5, <1>7
  <2>3. ~Precedes("newest", read[y[1]], read[z[1]])
    <3>1. Precedes("newest", read[y[1]], read[z[1]]) =>
            before[y[1]] + read[y[1]].spec <= before[z[1]]
      BY <1>3, <1>5
    <3> QED
      BY <1>5, <2>1, <2>2, <3>1
  <2>4. ~Precedes("newest", read[z[1]], read[y[1]])
    <3>1. Precedes("newest", read[z[1]], read[y[1]]) =>
            before[z[1]] + read[z[1]].spec <= before[y[1]]
      BY <1>3, <1>5
    <3> QED
      BY <1>5, <2>1, <2>2, <3>1
  <2>5. y[1] = z[1]
    BY <1>5, <2>3, <2>4, NewestFirst
  <2>6. y[2] = z[2]
    BY <1>5, <2>1, <2>2, <2>5
  <2> QED
    BY <1>5, <2>5, <2>6
<1>8. place \in [Pairs(removed) -> 1..excess]
  BY <1>6 DEF place
<1>9. place \in Injection(Pairs(removed), 1..excess)
  BY <1>7, <1>8 DEF Injection, IsInjective
<1>10. IsFiniteSet(1..excess) /\ Cardinality(1..excess) = excess
  <2>1. 1 \in Int /\ excess \in Int
    OBVIOUS
  <2> QED
    BY <2>1, FS_Interval
<1>11. IsFiniteSet(old)
  BY OwnedTypes, FS_Subset
<1> QED
  BY <1>4, <1>9, <1>10, <1>11, PairsFinite, FS_Injection

\* The writes that Lowered counts
Downs(steps) ==
  UNION {steps[i].writes :
           i \in {j \in DOMAIN steps : steps[j].do = "sets" /\ steps[j].order = "newest"}}

\* What such a write is
LEMMA DownsAre ==
  ASSUME NEW steps, NEW write
  PROVE  write \in Downs(steps) <=>
           \E i \in DOMAIN steps : /\ steps[i].do = "sets" /\ steps[i].order = "newest"
                                   /\ write \in steps[i].writes
BY DEF Downs

\* One plan after the other
LEMMA DownsConcat ==
  ASSUME NEW S, NEW a \in Seq(S), NEW b \in Seq(S)
  PROVE  a \o b \in Seq(S) /\ Downs(a \o b) = Downs(a) \cup Downs(b)
<1> DEFINE all == a \o b
<1>1. /\ all \in Seq(S) /\ Len(all) = Len(a) + Len(b) /\ Len(a) \in Nat /\ Len(b) \in Nat
      /\ \A k \in 1..Len(a) : all[k] = a[k]
      /\ \A k \in 1..Len(b) : all[Len(a) + k] = b[k]
      /\ DOMAIN a = 1..Len(a) /\ DOMAIN b = 1..Len(b)
  BY ConcatType
<1> HIDE DEF all
<1>2. DOMAIN all = 1..(Len(a) + Len(b))
  BY <1>1
<1>3. ASSUME NEW write \in Downs(all) PROVE write \in Downs(a) \cup Downs(b)
  <2>1. PICK i \in DOMAIN all : /\ all[i].do = "sets" /\ all[i].order = "newest"
                                /\ write \in all[i].writes
    BY DownsAre
  <2>2. CASE i \in 1..Len(a)
    BY <1>1, <2>1, <2>2, DownsAre
  <2>3. CASE i \notin 1..Len(a)
    <3>1. i - Len(a) \in 1..Len(b) /\ Len(a) + (i - Len(a)) = i
      BY <1>1, <1>2, <2>3
    <3>2. all[i] = b[i - Len(a)]
      BY <1>1, <3>1
    <3> QED
      BY <1>1, <2>1, <3>1, <3>2, DownsAre
  <2> QED
    BY <2>2, <2>3
<1>4. ASSUME NEW write \in Downs(a) PROVE write \in Downs(all)
  <2>1. PICK i \in DOMAIN a : /\ a[i].do = "sets" /\ a[i].order = "newest"
                              /\ write \in a[i].writes
    BY DownsAre
  <2>2. i \in DOMAIN all /\ all[i] = a[i]
    BY <1>1, <1>2
  <2> QED
    BY <2>1, <2>2, DownsAre
<1>5. ASSUME NEW write \in Downs(b) PROVE write \in Downs(all)
  <2>1. PICK i \in DOMAIN b : /\ b[i].do = "sets" /\ b[i].order = "newest"
                              /\ write \in b[i].writes
    BY DownsAre
  <2>2. Len(a) + i \in DOMAIN all /\ all[Len(a) + i] = b[i]
    BY <1>1, <1>2
  <2> QED
    BY <2>1, <2>2, DownsAre
<1> QED
  BY <1>1, <1>3, <1>4, <1>5 DEF all

\* A step that is made under a condition
LEMMA DownsWhen ==
  ASSUME NEW condition, NEW step
  PROVE  /\ When(condition, step) \in Seq({step})
         /\ ~(condition /\ step.do = "sets" /\ step.order = "newest")
              => Downs(When(condition, step)) = {}
         /\ condition /\ step.do = "sets" /\ step.order = "newest"
              => Downs(When(condition, step)) = step.writes
<1>1. CASE condition
  <2>1. When(condition, step) = <<step>>
    BY <1>1 DEF When
  <2>2. <<step>> \in Seq({step}) /\ DOMAIN <<step>> = {1} /\ <<step>>[1] = step
    OBVIOUS
  <2> DEFINE list == <<step>>
  <2> HIDE DEF list
  <2>3. \A write : write \in Downs(list) <=> /\ step.do = "sets" /\ step.order = "newest"
                                             /\ write \in step.writes
    <3>1. DOMAIN list = {1} /\ list[1] = step
      BY <2>2 DEF list
    <3> QED
      BY <3>1, DownsAre
  <2>4. Downs(list) = {} \/ (step.do = "sets" /\ step.order = "newest")
    BY <2>3
  <2>5. step.do = "sets" /\ step.order = "newest" => Downs(list) = step.writes
    BY <2>3
  <2> QED
    BY <1>1, <2>1, <2>2, <2>4, <2>5 DEF list
<1>2. CASE ~condition
  <2>1. When(condition, step) = << >> /\ << >> \in Seq({step}) /\ DOMAIN << >> = {}
    BY <1>2 DEF When
  <2> QED
    BY <1>2, <2>1 DEF Downs
<1> QED
  BY <1>1, <1>2

\* scaleDownReplicaSetsToTotal writes what it removes.
LEMMA ScaleDownDowns ==
  ASSUME NEW read \in ReadSets, NEW old \in SUBSET Owned(read), Ranked(read, old),
         NEW target \in Nat
  PROVE  \E removed \in [old -> Nat] :
           /\ Total(removed) <= Less(TotalSpec(read, old), target)
           /\ Downs(ScaleDownToTotal(read, old, target)) =
                {Write(t, [read[t] EXCEPT !.spec = @ - removed[t]]) :
                   t \in {u \in old : removed[u] > 0}}
<1> DEFINE total == TotalSpec(read, old)
           before(t) == TotalSpec(read, {u \in old : Precedes("newest", read[u], read[t])})
           removable(t) == AtMost(read[t].spec, Less(Less(total, target), before(t)))
           scaled == {t \in old : removable(t) > 0}
           writes == {Write(t, [read[t] EXCEPT !.spec = @ - removable(t)]) : t \in scaled}
           removed == [t \in old |-> removable(t)]
<1>1. ScaleDownToTotal(read, old, target) = When(scaled # {}, WriteSets("newest", writes))
  BY DEF ScaleDownToTotal
<1>2. total \in Nat /\ Less(total, target) \in Nat
  <2>1. total \in Nat
    BY SumTypes
  <2> HIDE DEF total
  <2> QED
    BY <2>1, LessType
<1>3. ASSUME NEW t \in old PROVE removable(t) \in Nat
  <2>1. before(t) \in Nat
    <3>1. {u \in old : Precedes("newest", read[u], read[t])} \in SUBSET Owned(read)
      OBVIOUS
    <3> QED
      BY <3>1, SumTypes
  <2>2. read[t].spec \in Nat
    BY OwnedTypes DEF ReplicaSets
  <2> HIDE DEF total, before
  <2> QED
    BY <1>2, <2>1, <2>2, AtMostType, LessType
<1>4. removed \in [old -> Nat] /\ \A t \in old : removed[t] = removable(t)
  BY <1>3
<1>5. Total(removed) <= Less(total, target)
  <2>1. \A t \in old : removed[t] = AtMost(read[t].spec, Less(Less(total, target), before(t)))
    OBVIOUS
  <2> DEFINE excess == Less(total, target)
  <2>2. excess \in Nat
    BY <1>2
  <2>3. \A t \in old :
           LET b == TotalSpec(read, {u \in old : Precedes("newest", read[u], read[t])})
           IN  removed[t] = AtMost(read[t].spec, Less(excess, b))
    BY <2>1
  <2> HIDE DEF removed, excess
  <2>4. Total(removed) <= excess
    BY <1>4, <2>2, <2>3, RemovedIs
  <2> QED
    BY <2>4 DEF excess
<1>6. Downs(ScaleDownToTotal(read, old, target)) = writes
  <2>1. /\ WriteSets("newest", writes).do = "sets" /\ WriteSets("newest", writes).order = "newest"
        /\ WriteSets("newest", writes).writes = writes
    BY DEF WriteSets
  <2>2. CASE scaled # {}
    <3> HIDE DEF writes, scaled
    <3> QED
      BY <1>1, <2>1, <2>2, DownsWhen
  <2>3. CASE scaled = {}
    <3>1. writes = {}
      BY <2>3
    <3>2. Downs(When(scaled # {}, WriteSets("newest", writes))) = {}
      <4> HIDE DEF writes, scaled
      <4> QED
        BY <2>3, DownsWhen
    <3> QED
      BY <1>1, <3>1, <3>2
  <2> QED
    BY <2>2, <2>3
<1>7. scaled = {u \in old : removed[u] > 0}
  BY <1>4
<1> DEFINE after(t) == [read[t] EXCEPT !.spec = @ - removed[t]]
<1>8. writes = {Write(t, after(t)) : t \in scaled}
  <2>1. \A t \in scaled : [read[t] EXCEPT !.spec = @ - removable(t)] = after(t)
    BY <1>4
  <2> HIDE DEF scaled, after, removable
  <2> QED
    BY <2>1
<1>9. Downs(ScaleDownToTotal(read, old, target)) =
        {Write(t, [read[t] EXCEPT !.spec = @ - removed[t]]) : t \in {u \in old : removed[u] > 0}}
  <2> HIDE DEF writes, scaled, removed
  <2> QED
    BY <1>6, <1>7, <1>8
<1> HIDE DEF removed, total
<1> QED
  BY <1>4, <1>5, <1>9 DEF total

\* A plan takes from the old ReplicaSets what maxScaleDown allows, if it may.
LEMMA PlanDowns ==
  ASSUME NEW d \in Deployments, NEW read \in ReadSets, d.strategy.type = "RollingUpdate"
  PROVE  LET current == read[d.template]
             old == Owned(read) \ {d.template}
             oldTotal == TotalSpec(read, old)
             down(target) == MaxScaleDown(d, read, old, oldTotal, target)
         IN  \/ Downs(Plan(d, read)) = {}
             \/ /\ current # None
                /\ \E target \in Nat :
                     /\ current.available >= target \/ \E t \in old : Unavailable(read[t]) > 0
                     /\ down(target) > 0 /\ down(target) \in Nat /\ down(target) <= oldTotal
                     /\ Downs(Plan(d, read)) =
                          Downs(ScaleDownToTotal(read, old, oldTotal - down(target)))
<1> DEFINE L(steps) == \E S : steps \in Seq(S)
<1>1. ASSUME NEW a, NEW b, L(a), L(b)
      PROVE  L(a \o b) /\ Downs(a \o b) = Downs(a) \cup Downs(b)
  <2>1. PICK A : a \in Seq(A)
    BY <1>1
  <2>2. PICK B : b \in Seq(B)
    BY <1>1
  <2> DEFINE T == A \cup B
  <2>3. a \in Seq(T) /\ b \in Seq(T)
    BY <2>1, <2>2
  <2> HIDE DEF T
  <2>4. a \o b \in Seq(T) /\ Downs(a \o b) = Downs(a) \cup Downs(b)
    BY <2>3, DownsConcat
  <2> QED
    BY <2>4
<1>2. ASSUME NEW condition, NEW step, step.do # "sets" \/ step.order # "newest"
      PROVE  L(When(condition, step)) /\ Downs(When(condition, step)) = {}
  BY <1>2, DownsWhen
<1>3. ASSUME NEW step, step.do # "sets" \/ step.order # "newest"
      PROVE  L(<<step>>) /\ Downs(<<step>>) = {}
  <2>1. <<step>> \in Seq({step}) /\ DOMAIN <<step>> = {1} /\ <<step>>[1] = step
    OBVIOUS
  <2> DEFINE list == <<step>>
  <2>2. DOMAIN list = {1} /\ list[1] = step /\ list \in Seq({step})
    BY <2>1
  <2> HIDE DEF list
  <2>3. \A write : write \notin Downs(list)
    BY <1>3, <2>2, DownsAre
  <2>4. Downs(list) = {}
    BY <2>3
  <2> QED
    BY <2>1, <2>4 DEF list
<1> HIDE DEF L
<1>4. /\ Again.do # "sets"
      /\ \A e : WriteDeployment(e).do # "sets" /\ WriteStatus(e).do # "sets"
      /\ \A t, rs : CreateSet(t, rs).do # "sets" /\ WriteSet(t, rs).order # "newest"
  BY DEF Again, WriteDeployment, WriteStatus, CreateSet, WriteSet, WriteSets
<1>5. CASE read[d.template] = None
  <2> DEFINE old == Owned(read)
             revision == Max({read[t].revision : t \in old} \cup {0}) + 1
             new == NewReplicaSet(read, FirstReplicas(d, read), revision)
             first == CreateSet(d.template, new)
             second == WriteDeployment([d EXCEPT !.revision = revision])
             third == When(old # {}, Again)
             fourth == WriteStatus(d)
  <2>1. Plan(d, read) = (<<first, second>> \o third) \o <<fourth>>
    BY <1>5 DEF Plan, CreationPlan
  <2>2. <<first, second>> = <<first>> \o <<second>>
    BY Pair
  <2>3. /\ L(<<first>>) /\ Downs(<<first>>) = {} /\ L(<<second>>) /\ Downs(<<second>>) = {}
        /\ L(third) /\ Downs(third) = {} /\ L(<<fourth>>) /\ Downs(<<fourth>>) = {}
    BY <1>2, <1>3, <1>4
  <2> HIDE DEF first, second, third, fourth
  <2>4. L(<<first, second>>) /\ Downs(<<first, second>>) = {}
    <3> DEFINE x == <<first>>
               y == <<second>>
    <3>0. L(x) /\ L(y) /\ Downs(x) = {} /\ Downs(y) = {}
      BY <2>3
    <3> HIDE DEF x, y
    <3>4. L(x \o y) /\ Downs(x \o y) = {}
      BY <1>1, <3>0
    <3>1. L(<<first>> \o <<second>>) /\ Downs(<<first>> \o <<second>>) = {}
      BY <3>4 DEF x, y
    <3>2. Downs(<<first, second>>) = {}
      BY <2>2, <3>1
    <3>3. L(<<first, second>>)
      BY <2>2, <3>1 DEF L
    <3> QED
      BY <3>2, <3>3
  <2>5. L(<<first, second>> \o third) /\ Downs(<<first, second>> \o third) = {}
    BY <1>1, <2>3, <2>4
  <2>6. Downs((<<first, second>> \o third) \o <<fourth>>) = {}
    BY <1>1, <2>3, <2>5
  <2> QED
    BY <2>1, <2>6
<1>6. CASE read[d.template] # None
  <2> DEFINE current == read[d.template]
             old == Owned(read) \ {d.template}
             oldTotal == TotalSpec(read, old)
             scaleUp == AtMost(Less(d.replicas, current.spec),
                               Less(Ceiling(d), oldTotal + current.spec))
             target == current.spec + scaleUp
             down == MaxScaleDown(d, read, old, oldTotal, target)
             targetOld == oldTotal - down
             mayScaleDown == \/ current.available >= target
                             \/ \E t \in old : Unavailable(read[t]) > 0
             first == When(scaleUp > 0,
                           WriteSet(d.template, [current EXCEPT !.spec = target]))
             second == IF mayScaleDown /\ targetOld < oldTotal
                       THEN ScaleDownToTotal(read, old, targetOld) ELSE << >>
             third == When(target < d.replicas \/ targetOld > 0, Again)
             highest == Max({read[t].revision : t \in Owned(read)} \cup {d.revision})
             revision == IF current.revision < highest THEN highest + 1
                         ELSE current.revision
             synced == [d EXCEPT !.revision = revision]
             one == When(current.revision # revision,
                         WriteSet(d.template, [current EXCEPT !.revision = revision]))
             two == When(d.revision # revision, WriteDeployment(synced))
             three == WriteStatus(synced)
  <2>1. Plan(d, read) = ((first \o second) \o third) \o ((one \o two) \o <<three>>)
    BY <1>6 DEF Plan, RollingPlan, RevisionPlan
  <2>2. /\ L(first) /\ Downs(first) = {} /\ L(third) /\ Downs(third) = {}
        /\ L(one) /\ Downs(one) = {} /\ L(two) /\ Downs(two) = {}
        /\ L(<<three>>) /\ Downs(<<three>>) = {}
    BY <1>2, <1>3, <1>4
  <2>3. L(second)
    <3>1. L(<< >>)
      <4>1. << >> \in Seq({})
        OBVIOUS
      <4> QED
        BY <4>1 DEF L
    <3>2. L(ScaleDownToTotal(read, old, targetOld))
      BY DownsWhen DEF ScaleDownToTotal, L
    <3> QED
      BY <3>1, <3>2
  <2>4. oldTotal \in Nat /\ target \in Nat /\ down \in Nat /\ down <= oldTotal
    <3>1. old \in SUBSET Owned(read)
      OBVIOUS
    <3>2. oldTotal \in Nat /\ current.spec \in Nat /\ d.replicas \in Nat /\ Ceiling(d) \in Nat
      <4>1. current \in ReplicaSets
        BY <1>6 DEF ReadSets, Deployments
      <4> QED
        BY <3>1, <4>1, SumTypes, LimitTypes DEF ReplicaSets, Deployments
    <3>3. scaleUp \in Nat
      <4> HIDE DEF oldTotal, current
      <4>1. oldTotal + current.spec \in Nat
        BY <3>2
      <4> QED
        BY <3>2, <4>1, AtMostType, LessType
    <3> HIDE DEF scaleUp
    <3>4. target \in Nat
      BY <3>2, <3>3
    <3> HIDE DEF target
    <3> QED
      BY <3>1, <3>2, <3>4, ScaleDownIsEnough
  <2>5. \/ Downs(second) = {}
        \/ /\ mayScaleDown /\ targetOld < oldTotal
           /\ Downs(second) = Downs(ScaleDownToTotal(read, old, targetOld))
    <3>1. Downs(<< >>) = {}
      <4>1. DOMAIN << >> = {}
        OBVIOUS
      <4> QED
        BY <4>1 DEF Downs
    <3> QED
      BY <3>1
  <2>6. down > 0 <=> targetOld < oldTotal
    <3> HIDE DEF down, oldTotal
    <3> QED
      BY <2>4
  <2> HIDE DEF first, second, third, one, two, three
  <2>7. Downs(Plan(d, read)) = Downs(second)
    <3>1. L(first \o second) /\ Downs(first \o second) = Downs(second)
      BY <1>1, <2>2, <2>3
    <3>2. L((first \o second) \o third) /\ Downs((first \o second) \o third) = Downs(second)
      BY <1>1, <2>2, <3>1
    <3>3. L(one \o two) /\ Downs(one \o two) = {}
      BY <1>1, <2>2
    <3>4. L((one \o two) \o <<three>>) /\ Downs((one \o two) \o <<three>>) = {}
      BY <1>1, <2>2, <3>3
    <3>5. Downs(((first \o second) \o third) \o ((one \o two) \o <<three>>)) = Downs(second)
      BY <1>1, <3>2, <3>4
    <3> QED
      BY <2>1, <3>5
  <2>8. CASE Downs(second) = {}
    BY <2>7, <2>8
  <2>9. CASE /\ mayScaleDown /\ targetOld < oldTotal
             /\ Downs(second) = Downs(ScaleDownToTotal(read, old, targetOld))
    <3>1. /\ mayScaleDown /\ down > 0
          /\ Downs(Plan(d, read)) = Downs(ScaleDownToTotal(read, old, oldTotal - down))
      BY <2>6, <2>7, <2>9
    <3>2. /\ target \in Nat
          /\ current.available >= target \/ \E t \in old : Unavailable(read[t]) > 0
          /\ down > 0 /\ down \in Nat /\ down <= oldTotal
          /\ Downs(Plan(d, read)) = Downs(ScaleDownToTotal(read, old, oldTotal - down))
      BY <2>4, <3>1
    <3> QED
      BY <1>6, <3>2, ZenonT(60)
  <2> QED
    BY <2>5, <2>8, <2>9
<1> QED
  BY <1>5, <1>6

\* What Lowered counts is what is removed.
LEMMA LoweredIs ==
  ASSUME StoreType, NEW steps, NEW old \in SUBSET Owned(replicaSets),
         NEW removed \in [old -> Nat],
         Downs(steps) = {Write(t, [replicaSets[t] EXCEPT !.spec = @ - removed[t]]) :
                           t \in {u \in old : removed[u] > 0}}
  PROVE  Lowered(steps) <= Total(removed) /\ Lowered(steps) \in Nat
<1> DEFINE scaled == {u \in old : removed[u] > 0}
           after(t) == [replicaSets[t] EXCEPT !.spec = @ - removed[t]]
           writes == Downs(steps)
           of(t) == CHOOSE write \in writes : write.template = t
           few == [t \in {write.template : write \in writes} |->
                     replicaSets[t].spec - of(t).rs.spec]
<1>1. Lowered(steps) = Total(few)
  BY DEF Lowered, Downs
<1>2. writes = {Write(t, after(t)) : t \in scaled}
  OBVIOUS
<1>3. \A t \in scaled : /\ replicaSets[t] \in ReplicaSets /\ removed[t] \in Nat
                        /\ after(t).spec = replicaSets[t].spec - removed[t]
                        /\ replicaSets[t].spec \in Nat
  BY OwnedTypes DEF StoreType, ReplicaSets
<1> HIDE DEF after, writes
<1>4. \A t, rs : Write(t, rs).template = t /\ Write(t, rs).rs = rs
  BY DEF Write
<1>5. {write.template : write \in writes} = scaled
  BY <1>2, <1>4
<1>6. ASSUME NEW t \in scaled PROVE replicaSets[t].spec - of(t).rs.spec = removed[t]
  <2>1. \E write \in writes : write.template = t
    BY <1>2, <1>4
  <2>2. of(t) \in writes /\ of(t).template = t
    BY <2>1, Zenon
  <2> HIDE DEF of
  <2>3. PICK u \in scaled : of(t) = Write(u, after(u))
    BY <1>2, <2>2
  <2>4. of(t).rs = after(t)
    BY <1>4, <2>2, <2>3
  <2> QED
    BY <1>3, <2>4
<1>7. DOMAIN few = scaled /\ \A t \in scaled : few[t] = removed[t]
  BY <1>5, <1>6
<1> HIDE DEF few
<1>8. IsFiniteSet(old) /\ IsFiniteSet(scaled)
  <2>1. IsFiniteSet(old)
    BY OwnedTypes, FS_Subset DEF StoreType
  <2> QED
    BY <2>1, FS_Subset
<1>9. Total(few) <= Total(removed) /\ Total(few) \in Nat
  <2>1. /\ IsFiniteSet(DOMAIN removed) /\ DOMAIN few \subseteq DOMAIN removed
        /\ \A t \in DOMAIN removed : removed[t] \in Nat
        /\ \A t \in DOMAIN few : few[t] \in Nat /\ few[t] <= removed[t]
        /\ IsFiniteSet(DOMAIN few)
    BY <1>7, <1>8
  <2> QED
    BY <2>1, TotalGrows, TotalType
<1> QED
  BY <1>1, <1>9

\* A plan without steps lowers nothing.
LEMMA LoweredNothing ==
  ASSUME NEW steps, Downs(steps) = {}
  PROVE  Lowered(steps) = 0
<1> DEFINE of(t) == CHOOSE write \in Downs(steps) : write.template = t
           few == [t \in {write.template : write \in Downs(steps)} |->
                     replicaSets[t].spec - of(t).rs.spec]
<1>1. Lowered(steps) = Total(few)
  BY DEF Lowered, Downs
<1>2. DOMAIN few = {}
  OBVIOUS
<1> HIDE DEF few
<1>3. Total(few) = 0
  BY <1>2, NothingAdds
<1> QED
  BY <1>1, <1>3

-------------------------------------------------------------------------------
(* Availability: a plan that is made of sound statuses leaves enough pods *)

\* While no old ReplicaSet reports unavailable pods, maxScaleDown takes no more
\* than what is above the floor, of what is asked for and of what is available.
LEMMA DownIsSafe ==
  ASSUME NEW d \in Deployments, NEW read \in ReadSets, NEW old \in SUBSET Owned(read),
         \A t \in old : Unavailable(read[t]) = 0,
         NEW oldTotal \in Nat, NEW target \in Nat,
         MaxScaleDown(d, read, old, oldTotal, target) > 0
  PROVE  LET down == MaxScaleDown(d, read, old, oldTotal, target)
         IN  /\ Floor(d) + down <= oldTotal + target
             /\ Floor(d) + down <= TotalAvailable(read, Owned(read))
<1> DEFINE unavailable == Total([t \in old |-> Unavailable(read[t])])
           available == TotalAvailable(read, Owned(read))
           floor == Floor(d)
           one == Less(oldTotal + target, floor)
           two == Less(available, floor)
           respecting == AtMost(one, two)
           down == AtMost(oldTotal, Max({respecting, unavailable}))
<1>1. MaxScaleDown(d, read, old, oldTotal, target) = down
  BY DEF MaxScaleDown
<1>2. unavailable = 0
  <2> DEFINE f == [t \in old |-> Unavailable(read[t])]
  <2>1. \A t \in DOMAIN f : f[t] = 0
    OBVIOUS
  <2> HIDE DEF f
  <2>2. Total(f) = 0
    BY <2>1, NothingAdds
  <2> QED
    BY <2>2 DEF f
<1>3. available \in Nat /\ floor \in Nat
  BY SumTypes, LimitTypes
<1> HIDE DEF unavailable, available, floor
<1>4. /\ one \in Nat /\ two \in Nat
      /\ one > 0 => floor + one = oldTotal + target
      /\ two > 0 => floor + two = available
  BY <1>3 DEF Less
<1> HIDE DEF one, two
<1>5. respecting \in Nat /\ respecting <= one /\ respecting <= two
  BY <1>4, AtMostIs
<1> HIDE DEF respecting
<1>6. Max({respecting, unavailable}) \in Nat /\ Max({respecting, unavailable}) <= respecting
  <2> DEFINE S == {respecting, unavailable}
  <2>1. S \in SUBSET Nat /\ S # {}
    BY <1>2, <1>5
  <2>2. IsFiniteSet(S)
    <3>1. IsFiniteSet({} \cup {respecting})
      BY FS_EmptySet, FS_AddElement
    <3>2. IsFiniteSet(({} \cup {respecting}) \cup {unavailable})
      BY <3>1, FS_AddElement
    <3>3. S = ({} \cup {respecting}) \cup {unavailable}
      OBVIOUS
    <3> QED
      BY <3>2, <3>3
  <2>3. Max(S) \in S
    <3> HIDE DEF S
    <3> QED
      BY <2>1, <2>2, MaxType
  <2> QED
    BY <1>2, <1>5, <2>3
<1>7. down \in Nat /\ down <= Max({respecting, unavailable})
  BY <1>6, AtMostIs
<1>8. down > 0
  BY <1>1
<1> HIDE DEF down
<1>9. floor + down <= oldTotal + target /\ floor + down <= available
  BY <1>3, <1>4, <1>5, <1>6, <1>7, <1>8
<1> QED
  BY <1>1, <1>9 DEF floor, available

\* When every ReplicaSet fits, what the old ones ask for and what the current one
\* reports available is ready.
LEMMA FitsAreReady ==
  ASSUME StoreType, Rolling, \A t \in Owned(replicaSets) : Fits(t),
         replicaSets[deploy.template] # None,
         \A t \in Owned(replicaSets) \ {deploy.template} : Unavailable(replicaSets[t]) = 0
  PROVE  TotalSpec(replicaSets, Owned(replicaSets) \ {deploy.template})
           + replicaSets[deploy.template].available <= Ready
<1> DEFINE now == deploy.template
           old == Owned(replicaSets) \ {now}
           kept == [t \in old |-> replicaSets[t].spec]
           f == [t \in Templates |-> IF t \in old THEN replicaSets[t].spec
                                     ELSE IF t = now THEN replicaSets[t].available ELSE 0]
           g == [t \in Templates |-> ReadyOf(pods[t])]
<1>1. /\ deploy \in Deployments /\ replicaSets \in ReadSets /\ now \in Templates
      /\ pods \in [Templates -> Seq(BOOLEAN)] /\ old \in SUBSET Templates
      /\ now \in Owned(replicaSets) /\ now \in Templates \ old
  BY DEF StoreType, Rolling, Owned, Deployments
<1>2. ASSUME NEW t \in Owned(replicaSets)
      PROVE  /\ replicaSets[t].spec \in Nat /\ replicaSets[t].available \in Nat
             /\ replicaSets[t].replicas \in Nat
  BY <1>1, OwnedTypes DEF ReplicaSets
<1>3. ASSUME NEW t \in Templates
      PROVE  ReadyOf(pods[t]) \in Nat /\ Len(pods[t]) \in Nat
  <2>1. pods[t] \in Seq(BOOLEAN)
    BY <1>1
  <2> QED
    BY <2>1, StatusIs
<1>4. ASSUME NEW t \in old PROVE replicaSets[t].spec <= ReadyOf(pods[t])
  <2>1. Len(pods[t]) >= replicaSets[t].spec
    BY DEF Fits
  <2>2. replicaSets[t].replicas <= replicaSets[t].available
    <3>1. Less(replicaSets[t].replicas, replicaSets[t].available) = 0
      BY DEF Unavailable
    <3> QED
      BY <1>2, <3>1 DEF Less
  <2>3. ReadyOf(pods[t]) = Len(pods[t])
    BY <2>2 DEF Fits
  <2> QED
    BY <2>1, <2>3
<1>5. f \in [Templates -> Nat] /\ kept \in [old -> Nat]
  BY <1>1, <1>2
<1>6. Total(f) = Total(kept) + f[now]
  <2>1. /\ \A u \in old : f[u] = kept[u]
        /\ \A u \in Templates \ (old \cup {now}) : f[u] = 0
    BY <1>1
  <2> HIDE DEF f, kept, old, now
  <2> QED
    BY <1>1, <1>5, <2>1, OneApart, SMTT(60)
<1>7. Total(f) <= Total(g)
  <2>1. /\ IsFiniteSet(DOMAIN g) /\ DOMAIN f \subseteq DOMAIN g
        /\ \A t \in DOMAIN g : g[t] \in Nat
    BY <1>3, TemplatesAssumption
  <2>2. \A t \in DOMAIN f : f[t] \in Nat /\ f[t] <= g[t]
    <3> SUFFICES ASSUME NEW t \in Templates PROVE f[t] \in Nat /\ f[t] <= g[t]
      OBVIOUS
    <3>1. CASE t \in old
      BY <1>2, <1>4, <3>1
    <3>2. CASE t = now
      BY <1>1, <1>2, <3>2 DEF Fits, Honest
    <3>3. CASE t \notin old /\ t # now
      BY <1>3, <3>3
    <3> QED
      BY <3>1, <3>2, <3>3
  <2> HIDE DEF f, g
  <2> QED
    BY <2>1, <2>2, TotalGrows
<1>8. f[now] = replicaSets[now].available
  BY <1>1
<1>9. Total(kept) = TotalSpec(replicaSets, old) /\ Total(g) = Ready
  BY DEF TotalSpec, Ready
<1> HIDE DEF f, g, kept
<1> QED
  BY <1>6, <1>7, <1>8, <1>9

\* When every status is honest, what they report available is ready.
LEMMA HonestAreReady ==
  ASSUME StoreType, \A t \in Owned(replicaSets) : Honest(t)
  PROVE  TotalAvailable(replicaSets, Owned(replicaSets)) <= Ready
<1> DEFINE f == [t \in Owned(replicaSets) |-> replicaSets[t].available]
           g == [t \in Templates |-> ReadyOf(pods[t])]
<1>1. /\ \A t \in Owned(replicaSets) : replicaSets[t].available \in Nat
      /\ Owned(replicaSets) \subseteq Templates
  BY OwnedTypes DEF ReplicaSets, StoreType
<1>2. \A t \in Templates : ReadyOf(pods[t]) \in Nat
  BY StatusIs DEF StoreType
<1>3. /\ IsFiniteSet(DOMAIN g) /\ DOMAIN f \subseteq DOMAIN g
      /\ \A t \in DOMAIN g : g[t] \in Nat
      /\ \A t \in DOMAIN f : f[t] \in Nat /\ f[t] <= g[t]
  BY <1>1, <1>2, TemplatesAssumption DEF Honest
<1>4. Total(f) = TotalAvailable(replicaSets, Owned(replicaSets)) /\ Total(g) = Ready
  BY DEF TotalAvailable, Ready
<1> HIDE DEF f, g
<1> QED
  BY <1>3, <1>4, TotalGrows

\* A plan made of sound statuses leaves enough pods.
LEMMA SoundPlanIsSafe ==
  ASSUME StoreType, Rolling, Sound, Ranked(replicaSets, Owned(replicaSets)),
         \A t \in OldSets : Unavailable(replicaSets[t]) = 0,
         Lowered(Plan(deploy, replicaSets)) > 0
  PROVE  Ready >= Floor(deploy) + Lowered(Plan(deploy, replicaSets))
<1> DEFINE current == replicaSets[deploy.template]
           old == Owned(replicaSets) \ {deploy.template}
           oldTotal == TotalSpec(replicaSets, old)
           steps == Plan(deploy, replicaSets)
           down(target) == MaxScaleDown(deploy, replicaSets, old, oldTotal, target)
<1>1. /\ deploy \in Deployments /\ replicaSets \in ReadSets
      /\ deploy.strategy.type = "RollingUpdate" /\ old \in SUBSET Owned(replicaSets)
      /\ OldSets = old
  BY DEF StoreType, Rolling, OldSets
<1>2. Downs(steps) # {}
  BY LoweredNothing
<1>3. /\ current # None
      /\ \E target \in Nat :
           /\ current.available >= target \/ \E t \in old : Unavailable(replicaSets[t]) > 0
           /\ down(target) > 0 /\ down(target) \in Nat /\ down(target) <= oldTotal
           /\ Downs(steps) = Downs(ScaleDownToTotal(replicaSets, old, oldTotal - down(target)))
  BY <1>1, <1>2, PlanDowns
<1>4. PICK target \in Nat :
        /\ current.available >= target \/ \E t \in old : Unavailable(replicaSets[t]) > 0
        /\ down(target) > 0 /\ down(target) \in Nat /\ down(target) <= oldTotal
        /\ Downs(steps) = Downs(ScaleDownToTotal(replicaSets, old, oldTotal - down(target)))
  BY <1>3
<1> DEFINE n == down(target)
           lowered == Lowered(steps)
<1>5. current.available >= target
  BY <1>1, <1>4
<1>6. oldTotal \in Nat /\ n \in Nat /\ n > 0 /\ n <= oldTotal
  BY <1>1, <1>4, SumTypes
<1>7. /\ Floor(deploy) + n <= oldTotal + target
      /\ Floor(deploy) + n <= TotalAvailable(replicaSets, Owned(replicaSets))
  <2>1. \A t \in old : Unavailable(replicaSets[t]) = 0
    BY <1>1
  <2> HIDE DEF oldTotal, old
  <2> QED
    BY <1>1, <1>6, <2>1, DownIsSafe
<1>8. lowered <= n /\ lowered \in Nat
  <2> DEFINE goal == oldTotal - n
  <2>1. goal \in Nat /\ Less(oldTotal, goal) = n
    <3> HIDE DEF oldTotal, n
    <3> QED
      BY <1>6 DEF Less
  <2>2. Ranked(replicaSets, old)
    BY DEF Ranked
  <2>3. Downs(steps) = Downs(ScaleDownToTotal(replicaSets, old, goal))
    BY <1>4
  <2> HIDE DEF goal, steps, n
  <2>4. PICK removed \in [old -> Nat] :
           /\ Total(removed) <= Less(TotalSpec(replicaSets, old), goal)
           /\ Downs(ScaleDownToTotal(replicaSets, old, goal)) =
                {Write(t, [replicaSets[t] EXCEPT !.spec = @ - removed[t]]) :
                   t \in {u \in old : removed[u] > 0}}
    BY <1>1, <2>1, <2>2, ScaleDownDowns
  <2>5. Lowered(steps) <= Total(removed) /\ Lowered(steps) \in Nat
    BY <1>1, <2>3, <2>4, LoweredIs
  <2>6. Total(removed) <= n
    BY <2>1, <2>4
  <2>7. Total(removed) \in Nat
    <3>1. IsFiniteSet(old)
      BY <1>1, OwnedTypes, FS_Subset
    <3> HIDE DEF old
    <3> QED
      BY <3>1, TotalType
  <2> QED
    BY <1>6, <2>5, <2>6, <2>7
<1>9. Floor(deploy) \in Nat /\ Ready \in Nat
  <2>1. \A t \in Templates : ReadyOf(pods[t]) \in Nat
    BY StatusIs DEF StoreType
  <2> DEFINE g == [t \in Templates |-> ReadyOf(pods[t])]
  <2>2. IsFiniteSet(DOMAIN g) /\ \A t \in DOMAIN g : g[t] \in Nat
    BY <2>1, TemplatesAssumption
  <2>3. Ready = Total(g)
    BY DEF Ready
  <2> HIDE DEF g
  <2> QED
    BY <1>1, <2>2, <2>3, LimitTypes, TotalType
<1>10. Floor(deploy) + n <= Ready
  <2>1. CASE \A t \in Owned(replicaSets) : Fits(t)
    <3>1. oldTotal + current.available <= Ready
      BY <1>1, <1>3, <2>1, FitsAreReady
    <3>2. current.available \in Nat
      BY <1>1, <1>3, OwnedTypes DEF Owned, Deployments, ReplicaSets
    <3> HIDE DEF oldTotal, n, current
    <3> QED
      BY <1>5, <1>6, <1>7, <1>9, <3>1, <3>2
  <2>2. CASE \A t \in Owned(replicaSets) : Honest(t)
    <3>1. TotalAvailable(replicaSets, Owned(replicaSets)) <= Ready
      BY <2>2, HonestAreReady
    <3>2. TotalAvailable(replicaSets, Owned(replicaSets)) \in Nat
      BY <1>1, SumTypes
    <3> HIDE DEF oldTotal, n
    <3> QED
      BY <1>6, <1>7, <1>9, <3>1, <3>2
  <2> QED
    BY <2>1, <2>2 DEF Sound, Window
<1> HIDE DEF n, steps, lowered
<1>11. Floor(deploy) + lowered <= Ready
  BY <1>6, <1>8, <1>9, <1>10
<1> QED
  BY <1>8, <1>9, <1>11 DEF lowered, steps

-------------------------------------------------------------------------------
(* Availability: when a reconcile decides *)

\* A call that begins neither with processNext nor with a plan puts one frame on
\* the stack, if any.
LEMMA OthersDoNotDecide ==
  ASSUME NEW frame, frame.op # "plan", Idle, stack' = << >> \/ stack' = <<frame>> \o << >>
  PROVE  ~Decides
<1>1. << >> \in Seq({frame})
  OBVIOUS
<1>2. CASE stack' = << >>
  BY <1>2 DEF Decides, Idle
<1>3. CASE stack' = <<frame>> \o << >>
  <2>1. Head(stack') = frame
    BY <1>1, <1>3, Stacked
  <2> QED
    BY <2>1 DEF Decides
<1> QED
  BY <1>2, <1>3

\* Only the immediate loop and processNext decide, when no plan is on the stack,
\* from what there is.
LEMMA DecidesIs ==
  ASSUME AllInv, [Next]_vars, Decides, deploy # None, ~Draining("plan", stack)
  PROVE  /\ Living /\ Head(stack').steps = Plan(deploy, replicaSets)
         /\ stack = << >> \/ Head(stack).op = "deployments"
<1>1. StoreType /\ KeysType /\ IInv /\ Living
  BY DEF AllInv, OInv, Dying
<1>2. CASE Run
  <2>1. stack # << >>
    BY <1>2 DEF Run
  <2>2. PICK S, frame : \E r \in Seq(S) :
          /\ stack = <<frame>> \o r
          /\ frame.op = "deliver" => frame \in DeliverFrames
          /\ frame.op = "scale" => frame \in ScaleFrames /\ Scaling(frame)
    BY <1>1, <2>1, LivingTop
  <2>3. PICK rest \in Seq(S) : stack = <<frame>> \o rest
    BY <2>2
  <2>4. /\ Head(stack) = frame /\ Tail(stack) = rest /\ frame.op # "plan"
        /\ Len(rest) \in Nat
    BY <2>3, Stacked
  <2>5. Len(stack) = Len(rest) + 1
    <3> DEFINE T == S \cup {frame}
    <3>1. <<frame>> \in Seq(T) /\ rest \in Seq(T) /\ Len(<<frame>>) = 1
      OBVIOUS
    <3>2. Len(stack) = 1 + Len(rest)
      BY <2>3, <3>1, ConcatType
    <3> QED
      BY <2>4, <3>2
  <2>6. stack' # rest
    BY <2>4, <2>5 DEF Decides
  <2>7. ASSUME NEW T, NEW r \in Seq(T), NEW n, stack' = <<DeploymentsLoop(n)>> \o r
        PROVE  FALSE
    <3>1. Head(stack') = DeploymentsLoop(n)
      BY <2>7, Stacked
    <3> QED
      BY <3>1 DEF Decides, DeploymentsLoop
  <2>8. CASE frame.op \in SideOps
    <3>1. Beside(rest)
      BY <1>1, <1>2, <2>1, <2>4, <2>8, SideRuns
    <3>2. PICK frames :
            /\ \A base : Over(rest, base) => Over(frames, base)
            /\ stack' = frames \/ stack' = <<DeploymentsLoop(MaxBatch)>> \o frames
      BY <3>1 DEF Beside
    <3>3. Over(frames, rest)
      BY <3>2, OverSame
    <3>4. PICK T : frames \in Seq(T)
      BY <3>3, OverKeeps
    <3>5. stack' = frames
      BY <2>7, <3>2, <3>4
    <3>6. Head(frames).op \in SideOps
      BY <2>6, <3>3, <3>5, OverPopped
    <3> QED
      BY <3>5, <3>6 DEF Decides, SideOps
  <2>9. CASE frame.op = "deployments"
    <3>1. DrainDeployments(frame, rest)
      BY <1>2, <2>3, <2>9, RunIs
    <3> DEFINE loop == <<DeploymentsLoop(frame.left - 1)>> \o rest
               plan == PlanFrame(Plan(deploy, replicaSets))
    <3>2. Reconcile(loop)
      BY <2>6, <3>1 DEF DrainDeployments, Return
    <3>3. PICK T : loop \in Seq(T)
      <4> DEFINE f == DeploymentsLoop(frame.left - 1)
                 T == S \cup {f}
      <4>1. rest \in Seq(T) /\ f \in T
        OBVIOUS
      <4>2. <<f>> \o rest \in Seq(T)
        <5> HIDE DEF f, T
        <5> QED
          BY <4>1, Stacked
      <4> QED
        BY <4>2
    <3>4. stack' = <<plan>> \o loop
      BY <3>2 DEF Reconcile, Return, PlanFrame
    <3>5. plan.steps = Plan(deploy, replicaSets)
      BY DEF PlanFrame
    <3> HIDE DEF plan, loop
    <3>6. Head(stack') = plan
      BY <3>3, <3>4, Stacked
    <3> QED
      BY <1>1, <2>4, <2>9, <3>5, <3>6
  <2>10. CASE frame.op = "next"
    <3>1. AfterNext(rest)
      BY <1>2, <2>3, <2>10, RunIs
    <3>2. stack' = <<DeploymentsLoop(MaxBatch)>> \o rest
      BY <2>6, <3>1 DEF AfterNext, EnqueueDeployment, Return
    <3> QED
      BY <2>7, <3>2
  <2> QED
    BY <1>1, <2>1, <2>4, <2>8, <2>9, <2>10, LivingOps
<1>3. CASE TimerFires
  <2>1. Idle
    BY <1>3 DEF TimerFires
  <2> DEFINE plan == PlanFrame(Plan(deploy, replicaSets))
  <2>2. \/ stack' = << >>
        \/ stack' = <<plan>> \o <<NextFrame>>
    BY <1>3 DEF TimerFires, Reconcile, Return, PlanFrame, NextFrame
  <2>3. plan.steps = Plan(deploy, replicaSets)
    BY DEF PlanFrame
  <2> HIDE DEF plan
  <2>4. stack' # << >>
    BY <2>1 DEF Decides, Idle
  <2>5. Head(stack') = plan
    <3>1. <<NextFrame>> \in Seq({NextFrame})
      OBVIOUS
    <3> QED
      BY <2>2, <2>4, <3>1, Stacked
  <2> QED
    BY <1>1, <2>1, <2>3, <2>5 DEF Idle
<1>4. ASSUME Idle, NEW event, Deliver(event, << >>) PROVE FALSE
  <2>1. Delivery(event, 1).op # "plan"
    BY DEF Delivery
  <2> QED
    BY <1>4, <2>1, OthersDoNotDecide DEF Deliver
<1>5. CASE ResyncDeployment
  <2>1. Idle /\ (stack' = << >> \/ stack' = <<DeploymentsLoop(MaxBatch)>> \o << >>)
    BY <1>5 DEF ResyncDeployment, EnqueueDeployment, Return
  <2>2. DeploymentsLoop(MaxBatch).op # "plan"
    BY DEF DeploymentsLoop
  <2> QED
    BY <2>1, <2>2, OthersDoNotDecide
<1>6. ASSUME NEW t \in Templates, ResyncReplicaSet(t) PROVE FALSE
  <2>1. Idle /\ (stack' = << >> \/ stack' = <<SetsLoop>> \o << >>)
    BY <1>6 DEF ResyncReplicaSet, EnqueueReplicaSet, Return, SetsLoop
  <2>2. SetsLoop.op # "plan"
    BY DEF SetsLoop
  <2> QED
    BY <2>1, <2>2, OthersDoNotDecide
<1>7. ASSUME NEW t \in Templates, NEW i,
             PodReady(t, i) \/ PodUnready(t, i) \/ PodEnds(t, i) \/ DeletePod(t, i)
      PROVE  FALSE
  <2>1. PICK list : Idle /\ SetPods(t, list, << >>)
    BY <1>7, Zenon DEF PodReady, PodUnready, PodEnds, DeletePod, SetReady, Edit
  <2> QED
    BY <1>4, <2>1 DEF SetPods
<1>8. CASE \/ \E n \in 0..MaxReplicas : Scale(n)
           \/ \E t \in Templates : ChangeTemplate(t)
  <2>1. Idle
    BY <1>8 DEF Scale, ChangeTemplate, Edit
  <2>2. Deliver(Event("DeploymentUpdated", None), << >>)
    <3>1. \A n : Scale(n) => Deliver(Event("DeploymentUpdated", None), << >>)
      BY DEF Scale, UpdateDeployment
    <3>2. \A t : ChangeTemplate(t) => Deliver(Event("DeploymentUpdated", None), << >>)
      BY DEF ChangeTemplate, UpdateDeployment
    <3> QED
      BY <1>8, <3>1, <3>2
  <2> QED
    BY <1>4, <2>1, <2>2
<1>9. CASE DeleteDeployment
  <2>1. Idle /\ Deliver(Event("DeploymentDeleted", None), << >>)
    BY <1>9 DEF DeleteDeployment, Edit
  <2> QED
    BY <1>4, <2>1
<1>10. ~\E d \in NewDeployments : CreateDeployment(d)
  BY DEF CreateDeployment
<1>11. CASE UNCHANGED vars
  <2>1. PICK T : stack \in Seq(T)
    BY <1>1 DEF IInv, IsStack
  <2>2. stack' = stack /\ Len(stack) \in Nat
    BY <1>11, <2>1 DEF vars
  <2> QED
    BY <2>2 DEF Decides
<1> QED
  BY <1>2, <1>3, <1>5, <1>6, <1>7, <1>8, <1>9, <1>10, <1>11 DEF Next

\* When it does, the statuses are sound.
LEMMA DecidesSoundly ==
  ASSUME AllInv, AvailInv, Rolling, Living, ~Draining("plan", stack),
         stack = << >> \/ Head(stack).op = "deployments"
  PROVE  Sound
<1>1. StoreType /\ IInv
  BY DEF AllInv, OInv
<1>2. CASE Based(stack)
  <2>1. ASSUME NEW i \in DOMAIN stack PROVE ~Owes(stack[i])
    BY <1>2 DEF Based, Draining
  <2>2. rsQueue = << >>
    BY <1>1, <2>1 DEF IInv, Attended, Draining, Owes
  <2>3. ASSUME NEW t PROVE ~Contains(rsQueue, t)
    BY <2>2 DEF Contains
  <2>4. ASSUME NEW t, Awaits(t, stack) PROVE FALSE
    BY <2>1, <2>4 DEF Awaits, TellsSet, Owes
  <2>5. ASSUME NEW t, Counted(t) PROVE FALSE
    BY <2>5 DEF Counted
  <2>6. \A t \in Owned(replicaSets) : Settled(t)
    BY <2>3, <2>4, <2>5 DEF Living, SetTold
  <2> QED
    BY <1>1, <2>6, SettledFits DEF Sound
<1>3. ASSUME NEW S, NEW rest \in Seq(S), NEW frame, stack = <<frame>> \o rest,
             frame.op # "deployments"
      PROVE  FALSE
  BY <1>3, Stacked
<1>4. /\ Bottom = <<SetsLoop>> \o << >> /\ SetsLoop.op # "deployments"
      /\ << >> \in Seq({SetsLoop}) /\ Bottom \in Seq({SetsLoop})
  BY DEF Bottom, SetsLoop
<1>5. ASSUME NEW t PROVE PodTold(t).op # "deployments"
  BY DEF PodTold, Delivery
<1>6. ASSUME NEW t, Touched(t) PROVE FALSE
  <2>1. <<PodTold(t)>> = <<PodTold(t)>> \o << >>
    OBVIOUS
  <2>2. \/ stack = <<PodTold(t)>> \o << >>
        \/ stack = <<SetsLoop>> \o << >>
    BY <1>4, <1>6, <2>1 DEF Touched
  <2> QED
    BY <1>3, <1>4, <1>5, <2>2
<1>7. ASSUME NEW frame, Replacing(frame) \/ Adjusting(frame) PROVE FALSE
  <2>1. /\ frame \in ScaleFrames
        /\ \/ stack = Scaled(frame)
           \/ stack = <<PodTold(frame.template)>> \o Scaled(frame)
    BY <1>7 DEF Replacing, Adjusting
  <2>2. frame.op # "deployments"
    BY <2>1 DEF ScaleFrames
  <2>3. Scaled(frame) = <<frame>> \o Bottom /\ \E S : Scaled(frame) \in Seq(S)
    <3> DEFINE S == {SetsLoop, frame}
    <3>1. Bottom \in Seq(S) /\ frame \in S
      BY DEF Bottom
    <3> HIDE DEF S
    <3>2. <<frame>> \o Bottom \in Seq(S)
      BY <3>1, Stacked
    <3> QED
      BY <3>2 DEF Scaled
  <2>4. PICK S : Scaled(frame) \in Seq(S)
    BY <2>3
  <2>5. CASE stack = Scaled(frame)
    BY <1>3, <1>4, <2>2, <2>3, <2>5
  <2>6. CASE stack = <<PodTold(frame.template)>> \o Scaled(frame)
    BY <1>3, <1>5, <2>4, <2>6
  <2> QED
    BY <2>1, <2>5, <2>6
<1> QED
  BY <1>2, <1>6, <1>7 DEF AvailInv, Conversing

-------------------------------------------------------------------------------
(* Places: in which order ReplicaSets were created stays known *)

\* A step keeps the places in the store: what it writes is where it was, and what
\* it creates comes last.
PlaceKept(step, read) ==
  /\ step.do = "sets" =>
       \A write \in step.writes : /\ write.template \in Owned(read)
                                  /\ write.rs \in ReplicaSets
                                  /\ write.rs.at = read[write.template].at
  /\ step.do = "create" => /\ step.template \in Templates \ Owned(read)
                           /\ step.rs \in ReplicaSets
                           /\ step.rs.at = Cardinality(Owned(read)) + 1
PlacesKept(steps, read) == \A k \in DOMAIN steps : PlaceKept(steps[k], read)

\* Every plan on the stack does.
WellPlaced(frame, read) == frame.op = "plan" => PlacesKept(frame.steps, read)
Positioned(frames, read) == \A i \in DOMAIN frames : WellPlaced(frames[i], read)

PlacedInv == Rolling => Placed(replicaSets) /\ Positioned(stack, replicaSets)

\* One more frame, or one more step
LEMMA PositionedIs ==
  ASSUME NEW S, NEW rest \in Seq(S), NEW one, NEW read
  PROVE  /\ Positioned(<< >>, read)
         /\ Positioned(<<one>> \o rest, read) <=>
              WellPlaced(one, read) /\ Positioned(rest, read)
         /\ PlacesKept(<<one>> \o rest, read) <=>
              PlaceKept(one, read) /\ PlacesKept(rest, read)
<1> DEFINE T == S \cup {one}
           all == <<one>> \o rest
<1>1. <<one>> \in Seq(T) /\ rest \in Seq(T) /\ Len(<<one>>) = 1 /\ <<one>>[1] = one
  OBVIOUS
<1> HIDE DEF T
<1>2. /\ DOMAIN all = 1..(1 + Len(rest)) /\ Len(rest) \in Nat
      /\ DOMAIN rest = 1..Len(rest)
      /\ all[1] = one /\ \A k \in 1..Len(rest) : all[1 + k] = rest[k]
  <2>1. /\ all \in Seq(T) /\ Len(all) = Len(<<one>>) + Len(rest) /\ Len(rest) \in Nat
        /\ \A k \in 1..Len(<<one>>) : all[k] = <<one>>[k]
        /\ \A k \in 1..Len(rest) : all[Len(<<one>>) + k] = rest[k]
    BY <1>1, ConcatType
  <2> HIDE DEF all
  <2> QED
    BY <1>1, <2>1
<1> HIDE DEF all
<1>3. /\ 1 \in DOMAIN all
      /\ \A k \in DOMAIN rest : 1 + k \in DOMAIN all /\ all[1 + k] = rest[k]
  BY <1>2
<1>4. \A k \in DOMAIN all : k = 1 \/ (k - 1 \in DOMAIN rest /\ all[k] = rest[k - 1])
  <2> SUFFICES ASSUME NEW k \in DOMAIN all, k # 1
               PROVE  k - 1 \in DOMAIN rest /\ all[k] = rest[k - 1]
    OBVIOUS
  <2>1. k - 1 \in 1..Len(rest) /\ 1 + (k - 1) = k
    BY <1>2
  <2> QED
    BY <1>2, <2>1
<1>5. Positioned(all, read) <=> WellPlaced(one, read) /\ Positioned(rest, read)
  BY <1>2, <1>3, <1>4 DEF Positioned
<1>6. PlacesKept(all, read) <=> PlaceKept(one, read) /\ PlacesKept(rest, read)
  BY <1>2, <1>3, <1>4 DEF PlacesKept
<1>7. Positioned(<< >>, read)
  BY DEF Positioned
<1> QED
  BY <1>5, <1>6, <1>7 DEF all

\* Deliveries and reconciles of ReplicaSets are no plans.
LEMMA PositionedOver ==
  ASSUME NEW frames, NEW base, NEW read, Over(frames, base), Positioned(base, read)
  PROVE  Positioned(frames, read)
<1>1. PICK S : \E above \in Seq(S) : \E T :
                 /\ base \in Seq(T) /\ frames = above \o base
                 /\ \A f \in S : f.op \in SideOps
  BY DEF Over
<1>2. PICK above \in Seq(S) : \E T :
                 /\ base \in Seq(T) /\ frames = above \o base
                 /\ \A f \in S : f.op \in SideOps
  BY <1>1
<1>3. PICK T : /\ base \in Seq(T) /\ frames = above \o base
               /\ \A f \in S : f.op \in SideOps
  BY <1>2
<1> DEFINE V == S \cup T
<1>4. above \in Seq(V) /\ base \in Seq(V)
  BY <1>3
<1> HIDE DEF V
<1>5. /\ frames \in Seq(V) /\ Len(frames) = Len(above) + Len(base) /\ Len(base) \in Nat
      /\ \A k \in 1..Len(above) : frames[k] = above[k]
      /\ \A k \in 1..Len(base) : frames[Len(above) + k] = base[k]
  BY <1>3, <1>4, ConcatType
<1>6. /\ DOMAIN frames = 1..(Len(above) + Len(base)) /\ DOMAIN base = 1..Len(base)
      /\ Len(above) \in Nat
  BY <1>4, <1>5
<1>7. ASSUME NEW i \in DOMAIN frames PROVE WellPlaced(frames[i], read)
  <2>1. CASE i <= Len(above)
    <3>1. i \in 1..Len(above)
      BY <1>6, <2>1
    <3>2. frames[i] = above[i] /\ above[i] \in S
      BY <1>2, <1>5, <3>1
    <3> QED
      BY <1>3, <3>2 DEF WellPlaced, SideOps
  <2>2. CASE ~(i <= Len(above))
    <3>1. i - Len(above) \in DOMAIN base /\ Len(above) + (i - Len(above)) = i
      BY <1>5, <1>6, <2>2
    <3>2. frames[i] = base[i - Len(above)]
      BY <1>5, <1>6, <3>1
    <3> QED
      BY <3>1, <3>2 DEF Positioned
  <2> QED
    BY <2>1, <2>2
<1> QED
  BY <1>7 DEF Positioned

\* Places do not change.
LEMMA SamePlaces ==
  ASSUME NEW read, NEW read2, Owned(read2) = Owned(read),
         \A t \in Owned(read) : read2[t].at = read[t].at
  PROVE  /\ Placed(read) => Placed(read2)
         /\ \A step : PlaceKept(step, read) => PlaceKept(step, read2)
         /\ \A steps : PlacesKept(steps, read) => PlacesKept(steps, read2)
         /\ \A frames : Positioned(frames, read) => Positioned(frames, read2)
<1>1. Placed(read) => Placed(read2)
  BY DEF Placed, Ranked
<1>2. \A step : PlaceKept(step, read) => PlaceKept(step, read2)
  BY DEF PlaceKept
<1>3. \A steps : PlacesKept(steps, read) => PlacesKept(steps, read2)
  BY <1>2 DEF PlacesKept
<1>4. \A frames : Positioned(frames, read) => Positioned(frames, read2)
  BY <1>3 DEF Positioned, WellPlaced
<1> QED
  BY <1>1, <1>2, <1>3, <1>4

\* A ReplicaSet is created.
LEMMA NewPlace ==
  ASSUME NEW read \in ReadSets, Placed(read), NEW t \in Templates \ Owned(read),
         NEW rs \in ReplicaSets, rs.at = Cardinality(Owned(read)) + 1,
         NEW read2, read2 = [read EXCEPT ![t] = rs]
  PROVE  /\ Placed(read2)
         /\ \A step : step.do # "create" /\ PlaceKept(step, read) => PlaceKept(step, read2)
<1> DEFINE n == Cardinality(Owned(read))
<1>1. /\ IsFiniteSet(Owned(read)) /\ n \in Nat /\ rs # None
      /\ \A u \in Owned(read) : read[u] \in ReplicaSets
  BY OwnedTypes, NoneAssumption
<1>2. Owned(read2) = Owned(read) \cup {t}
  BY <1>1 DEF Owned, ReadSets
<1>3. /\ \A u \in Owned(read) : read2[u] = read[u]
      /\ read2[t] = rs
  BY DEF ReadSets
<1>4. Cardinality(Owned(read2)) = n + 1
  BY <1>1, <1>2, FS_AddElement
<1>8. rs.at = n + 1
  OBVIOUS
<1> HIDE DEF n
<1>5. \A u \in Owned(read) : read[u].at \in Nat /\ read[u].at <= n
  BY <1>1 DEF Placed, ReplicaSets, n
<1>6. Placed(read2)
  <2>1. \A u \in Owned(read2) : read2[u].at <= n + 1
    BY <1>1, <1>2, <1>3, <1>5 DEF n
  <2>2. ASSUME NEW u \in Owned(read2), NEW v \in Owned(read2), u # v
        PROVE  read2[u].at # read2[v].at
    <3>1. CASE u \in Owned(read) /\ v \in Owned(read)
      BY <1>3, <2>2, <3>1 DEF Placed, Ranked
    <3>2. CASE u = t \/ v = t
      <4>1. \A w \in Owned(read) : read2[w].at \in Nat /\ read2[w].at <= n
        BY <1>3, <1>5
      <4>2. read2[t].at = n + 1
        BY <1>3, <1>8
      <4>3. \/ u = t /\ v \in Owned(read)
            \/ v = t /\ u \in Owned(read)
        BY <1>2, <2>2, <3>2
      <4> QED
        BY <1>1, <4>1, <4>2, <4>3
    <3> QED
      BY <1>2, <3>1, <3>2
  <2> QED
    BY <1>4, <2>1, <2>2 DEF Placed, Ranked
<1>7. \A step : step.do # "create" /\ PlaceKept(step, read) => PlaceKept(step, read2)
  BY <1>2, <1>3 DEF PlaceKept
<1> QED
  BY <1>6, <1>7

\* What a plan is made of keeps the places.
LEMMA PlanPlaces ==
  ASSUME StoreType, Rolling, Placed(replicaSets)
  PROVE  PlacesKept(Plan(deploy, replicaSets), replicaSets)
<1> DEFINE plan == Plan(deploy, replicaSets)
<1>1. deploy \in Deployments /\ replicaSets \in ReadSets
  BY DEF StoreType, Rolling
<1>2. /\ plan \in Seq(CreateSteps \cup LaterSteps(deploy)) /\ plan # << >>
      /\ \A k \in DOMAIN plan : k = 1 \/ plan[k] \in LaterSteps(deploy)
  BY <1>1, PlanType DEF PlansOf
<1>3. Loyal(plan, deploy, replicaSets)
  BY <1>1, PlanLoyal DEF Rolling
<1>4. Fresh(plan, Specs(replicaSets)[deploy.template], TRUE, Book)
  BY <1>1, PlanFits DEF Placed, Rolling, Book
<1> HIDE DEF plan
<1>5. PICK step : \E later \in Seq(SetsSteps \cup AgainSteps \cup DeploymentSteps) :
           /\ plan = <<step>> \o later
           /\ \/ /\ step \in Quiets(Specs(replicaSets)[deploy.template], Book)
                 /\ later \in Seq(Quiets(Specs(replicaSets)[deploy.template], Book))
              \/ /\ Scales(step, TRUE, Book)
                 /\ later \in Seq(Quiets(Specs(replicaSets)[deploy.template], Book))
                 /\ (\E write \in step.writes : write.rs.spec > 0) => HasAgain(later)
              \/ /\ Raises(step, Specs(replicaSets)[deploy.template], Book)
                 /\ Settling(later, Specs(replicaSets)[deploy.template], TRUE, Book)
              \/ /\ Begins(step, Book)
                 /\ later \in Seq(Quiets(Specs(replicaSets)[deploy.template], Book))
  BY <1>2, <1>4, FreshHead
<1>6. Head(plan) = step
  BY <1>5, Pushed
<1>7. step.do = "create" => step.template \in Templates \ Owned(replicaSets)
  <2>1. step.do = "create" => Begins(step, Book)
    BY <1>5 DEF Quiets, Scales, Raises, SetsSteps, AgainSteps, DeploymentSteps
  <2>2. Begins(step, Book) => step.template \in Templates \ Owned(replicaSets)
    BY DEF Begins, CreateSteps, Book, BookOf, Owned
  <2> QED
    BY <2>1, <2>2
<1>8. ASSUME NEW k \in DOMAIN plan PROVE PlaceKept(plan[k], replicaSets)
  <2>1. plan[k] \in CreateSteps \cup LaterSteps(deploy)
    BY <1>2
  <2>2. LoyalStep(plan[k], deploy, replicaSets)
    BY <1>3 DEF Loyal
  <2>3. CASE plan[k] \in LaterSteps(deploy)
    <3>1. plan[k].do # "create" /\ (plan[k].do = "sets" => plan[k] \in SetsSteps)
      BY <2>3, LaterTypes
    <3> QED
      BY <2>2, <3>1 DEF PlaceKept, LoyalStep, SetsSteps
  <2>4. CASE plan[k] \notin LaterSteps(deploy)
    <3>1. k = 1 /\ plan[k] \in CreateSteps
      BY <1>2, <2>1, <2>4
    <3>2. plan[k] = step
      BY <1>2, <1>6, <3>1
    <3> QED
      BY <1>7, <2>2, <3>1, <3>2 DEF PlaceKept, LoyalStep, CreateSteps
  <2> QED
    BY <2>3, <2>4
<1> QED
  BY <1>8 DEF PlacesKept, plan

\* A plan that runs, its first step and what comes after it: only the first step of
\* the innermost plan creates a ReplicaSet.
LEMMA CalmBelow ==
  ASSUME Living, NEW S, NEW rest \in Seq(S), NEW U, NEW later \in Seq(U), NEW step,
         stack = <<PlanFrame(<<step>> \o later)>> \o rest
  PROVE  /\ step \in CreateSteps \cup SetsSteps \cup AgainSteps \cup DeploymentSteps
         /\ \A k \in DOMAIN later : later[k].do # "create"
         /\ \A i \in DOMAIN rest : rest[i].op = "plan" =>
              \A k \in DOMAIN rest[i].steps : rest[i].steps[k].do # "create"
<1> DEFINE C == CalmFrames(KindOf(deploy))
           top == PlanFrame(<<step>> \o later)
           steps == <<step>> \o later
           T == U \cup {step}
<1>1. Head(stack) = top /\ Tail(stack) = rest
  BY Stacked
<1>2. top.op = "plan" /\ top.steps = steps
  BY DEF PlanFrame
<1>3. <<step>> \in Seq(T) /\ later \in Seq(T) /\ Len(<<step>>) = 1 /\ <<step>>[1] = step
  OBVIOUS
<1> HIDE DEF T
<1>4. /\ DOMAIN steps = 1..(1 + Len(later)) /\ Len(later) \in Nat
      /\ DOMAIN later = 1..Len(later)
      /\ steps[1] = step /\ \A k \in 1..Len(later) : steps[1 + k] = later[k]
  <2>1. /\ steps \in Seq(T) /\ Len(steps) = Len(<<step>>) + Len(later) /\ Len(later) \in Nat
        /\ \A k \in 1..Len(<<step>>) : steps[k] = <<step>>[k]
        /\ \A k \in 1..Len(later) : steps[Len(<<step>>) + k] = later[k]
    BY <1>3, ConcatType
  <2> HIDE DEF steps
  <2> QED
    BY <1>3, <2>1
<1>5. /\ 1 \in DOMAIN steps
      /\ \A k \in DOMAIN later : 1 + k \in DOMAIN steps /\ 1 + k # 1 /\ steps[1 + k] = later[k]
  BY <1>4
<1> HIDE DEF steps, top
<1>6. ASSUME NEW d, NEW s \in LaterSteps(d)
      PROVE  s \in SetsSteps \cup AgainSteps \cup DeploymentSteps /\ s.do # "create"
  BY LaterTypes DEF LaterSteps
<1>7. ASSUME NEW frame \in C, frame.op = "plan"
      PROVE  \A k \in DOMAIN frame.steps :
               /\ frame.steps[k] \in SetsSteps \cup AgainSteps \cup DeploymentSteps
               /\ frame.steps[k].do # "create"
  <2>1. PICK d \in DeploymentsOf(KindOf(deploy)) : frame.steps \in CalmPlans(d)
    BY <1>7, CalmKinds DEF DeliverFrames
  <2>2. frame.steps \in Seq(LaterSteps(d))
    BY <2>1 DEF CalmPlans
  <2> DEFINE list == frame.steps
  <2>3. \A k \in DOMAIN list : list[k] \in LaterSteps(d)
    BY <2>2
  <2> QED
    BY <1>6, <2>3
<1>8. ASSUME NEW k \in DOMAIN rest, rest \in Seq(C), rest[k].op = "plan"
      PROVE  \A i \in DOMAIN rest[k].steps : rest[k].steps[i].do # "create"
  <2>1. rest[k] \in C
    BY <1>8
  <2> HIDE DEF C
  <2> QED
    BY <1>7, <1>8, <2>1
<1>9. CASE stack \in Seq(C)
  <2>1. stack # << >>
    BY Stacked
  <2>2. top \in C /\ rest \in Seq(C)
    <3> HIDE DEF C
    <3> QED
      BY <1>1, <1>9, <2>1, Unstacked
  <2>3. \A k \in DOMAIN steps : /\ steps[k] \in SetsSteps \cup AgainSteps \cup DeploymentSteps
                                /\ steps[k].do # "create"
    <3> HIDE DEF C
    <3> QED
      BY <1>2, <1>7, <2>2
  <2> QED
    BY <1>4, <1>5, <1>8, <2>2, <2>3
<1>10. ASSUME NEW r \in Seq(C), NEW frame \in CreatingFrames(deploy),
              stack = <<frame>> \o r
       PROVE  /\ rest \in Seq(C) /\ steps \in PlansOf(deploy)
  <2>1. top = frame /\ rest = r
    <3> HIDE DEF C
    <3> QED
      BY <1>1, <1>10, Stacked
  <2> QED
    BY <1>2, <2>1 DEF CreatingFrames
<1>11. CASE rest \in Seq(C) /\ steps \in PlansOf(deploy)
  <2>1. /\ \A k \in DOMAIN steps : steps[k] \in CreateSteps \cup LaterSteps(deploy)
        /\ \A k \in DOMAIN steps : k = 1 \/ steps[k] \in LaterSteps(deploy)
    BY <1>11 DEF PlansOf
  <2>2. step \in CreateSteps \cup LaterSteps(deploy)
    BY <1>4, <1>5, <2>1
  <2>3. \A k \in DOMAIN later : later[k] \in LaterSteps(deploy)
    BY <1>5, <2>1
  <2> QED
    BY <1>6, <1>8, <1>11, <2>2, <2>3
<1>12. ASSUME NEW r \in Seq(C), NEW frame \in ScaleFrames, NEW event,
              \/ stack = <<frame>> \o r
              \/ stack = <<Delivery(event, 1)>> \o (<<frame>> \o r)
       PROVE  FALSE
  <2> DEFINE V == C \cup {frame}
             first == Delivery(event, 1)
  <2>1. frame.op # "plan" /\ first.op # "plan"
    BY DEF Delivery, ScaleFrames
  <2>2. r \in Seq(V) /\ frame \in V
    OBVIOUS
  <2> HIDE DEF V, C, first
  <2>3. <<frame>> \o r \in Seq(V)
    BY <2>2, Stacked
  <2>4. Head(stack) = frame \/ Head(stack) = first
    BY <1>12, <2>2, <2>3, Stacked DEF first
  <2> QED
    BY <1>1, <1>2, <2>1, <2>4
<1> HIDE DEF C
<1> QED
  BY <1>9, <1>10, <1>11, <1>12 DEF Living, LivingStack, C

\* A plan goes on.
LEMMA PlanKeepsPlaces ==
  ASSUME StoreType, Living, Rolling, PlacedInv, Run, stack # << >>, Head(stack).op = "plan"
  PROVE  Placed(replicaSets') /\ Positioned(stack', replicaSets')
<1>1. PICK U, T, step : \E l \in Seq(U), r \in Seq(T) :
         /\ stack = <<PlanFrame(<<step>> \o l)>> \o r
         /\ step.do \in {"sets", "create"} => l # << >>
  BY LivingPlan
<1>2. PICK later \in Seq(U), rest \in Seq(T) :
         /\ stack = <<PlanFrame(<<step>> \o later)>> \o rest
         /\ step.do \in {"sets", "create"} => later # << >>
  BY <1>1
<1> DEFINE steps == <<step>> \o later
           top == PlanFrame(steps)
           read == replicaSets
<1>3. top.op = "plan" /\ top.steps = steps /\ stack = <<top>> \o rest
  BY <1>2 DEF PlanFrame
<1>4. PlanStep(top, rest)
  <2> HIDE DEF top
  <2> QED
    BY <1>3, RunIs
<1>5. Placed(read) /\ PlaceKept(step, read) /\ PlacesKept(later, read) /\ Positioned(rest, read)
  <2>1. Placed(read) /\ Positioned(stack, read)
    BY DEF PlacedInv
  <2> HIDE DEF top, steps
  <2>2. WellPlaced(top, read) /\ Positioned(rest, read)
    BY <1>3, <2>1, PositionedIs
  <2>3. PlacesKept(steps, read)
    BY <1>3, <2>2 DEF WellPlaced
  <2>4. PlaceKept(step, read) /\ PlacesKept(later, read)
    BY <2>3, PositionedIs DEF steps
  <2> QED
    BY <2>1, <2>2, <2>4
<1>6. /\ step \in CreateSteps \cup SetsSteps \cup AgainSteps \cup DeploymentSteps
      /\ \A k \in DOMAIN later : later[k].do # "create"
      /\ \A i \in DOMAIN rest : rest[i].op = "plan" =>
           \A k \in DOMAIN rest[i].steps : rest[i].steps[k].do # "create"
  BY <1>2, CalmBelow
<1>7. ASSUME NEW x, NEW now, PlacesKept(x, now), Positioned(rest, now)
      PROVE  Positioned(Planned(x, rest), now) /\ \E V : Planned(x, rest) \in Seq(V)
  <2>1. WellPlaced(PlanFrame(x), now)
    BY <1>7 DEF PlanFrame, WellPlaced
  <2>2. Positioned(<<PlanFrame(x)>> \o rest, now)
    BY <1>7, <2>1, PositionedIs
  <2> QED
    BY <1>7, <2>2, PlannedIs
<1>8. ASSUME NEW now, NEW V, NEW under \in Seq(V), Positioned(under, now), NEW event, NEW n
      PROVE  /\ Positioned(<<Delivery(event, 1)>> \o under, now)
             /\ Positioned(<<DeploymentsLoop(n)>> \o under, now)
  <2>1. WellPlaced(Delivery(event, 1), now) /\ WellPlaced(DeploymentsLoop(n), now)
    BY DEF WellPlaced, Delivery, DeploymentsLoop
  <2> QED
    BY <1>8, <2>1, PositionedIs
<1>9. CASE step.do = "sets"
  <2>1. step \in SetsSteps
    BY <1>6, <1>9 DEF CreateSteps, AgainSteps, DeploymentSteps
  <2>2. \E write \in step.writes : \E x :
          /\ UpdateReplicaSet(write.template, write.rs, Planned(x, rest))
          /\ x = later \/ x = <<[step EXCEPT !.writes = @ \ {write}]>> \o later
    <3>1. PICK write \in step.writes :
            \/ UpdateReplicaSet(write.template, write.rs, Planned(later, rest))
            \/ UpdateReplicaSet(write.template, write.rs,
                 Planned(<<[step EXCEPT !.writes = @ \ {write}]>> \o later, rest))
      BY <1>2, <1>4, <1>9, PlanStepIs
    <3> QED
      BY <3>1
  <2>13. PICK write \in step.writes : \E x :
          /\ UpdateReplicaSet(write.template, write.rs, Planned(x, rest))
          /\ x = later \/ x = <<[step EXCEPT !.writes = @ \ {write}]>> \o later
    BY <2>2
  <2>3. PICK x :
          /\ UpdateReplicaSet(write.template, write.rs, Planned(x, rest))
          /\ x = later \/ x = <<[step EXCEPT !.writes = @ \ {write}]>> \o later
    BY <2>13
  <2> DEFINE t == write.template
             rs == write.rs
             less == [step EXCEPT !.writes = @ \ {write}]
  <2>4. t \in Owned(read) /\ rs \in ReplicaSets /\ rs.at = read[t].at /\ rs # None
    BY <1>5, <1>9, NoneAssumption DEF PlaceKept
  <2>5. less.do = "sets" /\ less.writes \subseteq step.writes
    BY <1>9, <2>1 DEF SetsSteps
  <2>6. PlaceKept(less, read)
    BY <1>5, <1>9, <2>5 DEF PlaceKept
  <2>14. x = later \/ x = <<less>> \o later
    BY <2>3
  <2> HIDE DEF less
  <2>7. PlacesKept(x, read)
    BY <1>5, <2>14, <2>6, PositionedIs, ZenonT(60)
  <2> HIDE DEF t, rs
  <2>8. /\ replicaSets' = [replicaSets EXCEPT ![t] = rs]
        /\ Deliver(Event("ReplicaSetUpdated", t), Planned(x, rest))
    BY <2>3, <2>4 DEF UpdateReplicaSet, Owned, t, rs
  <2>9. /\ Owned(replicaSets') = Owned(read)
        /\ \A u \in Owned(read) : replicaSets'[u].at = read[u].at
    BY <2>4, <2>8 DEF Owned, StoreType, ReadSets
  <2>10. /\ Placed(replicaSets') /\ PlacesKept(x, replicaSets')
         /\ Positioned(rest, replicaSets')
    BY <1>5, <2>7, <2>9, SamePlaces
  <2> DEFINE under == Planned(x, rest)
  <2>11. Positioned(under, replicaSets') /\ \E V : under \in Seq(V)
    BY <1>7, <2>10
  <2>12. stack' = <<Delivery(Event("ReplicaSetUpdated", t), 1)>> \o under
    BY <2>8 DEF Deliver
  <2> HIDE DEF under
  <2> QED
    BY <1>8, <2>10, <2>11, <2>12
<1>10. CASE step.do = "create"
  <2> DEFINE t == step.template
             rs == step.rs
             under == Planned(later, rest)
  <2>1. t \in Templates \ Owned(read) /\ rs \in ReplicaSets /\ rs.at = Cardinality(Owned(read)) + 1
    BY <1>5, <1>10 DEF PlaceKept
  <2>2. CreateReplicaSet(t, rs, under)
    BY <1>2, <1>4, <1>10, PlanStepIs
  <2> HIDE DEF t, rs, under
  <2>3. /\ replicaSets' = [read EXCEPT ![t] = rs]
        /\ stack' = <<Delivery(Event("ReplicaSetCreated", t), 1)>> \o under
    BY <2>2 DEF CreateReplicaSet, Deliver
  <2>4. /\ Placed(replicaSets')
        /\ \A s : s.do # "create" /\ PlaceKept(s, read) => PlaceKept(s, replicaSets')
    BY <1>5, <2>1, <2>3, NewPlace DEF StoreType
  <2>5. PlacesKept(later, replicaSets') /\ Positioned(rest, replicaSets')
    BY <1>5, <1>6, <2>4 DEF PlacesKept, Positioned, WellPlaced
  <2>6. Positioned(under, replicaSets') /\ \E V : under \in Seq(V)
    BY <1>7, <2>5 DEF under
  <2> QED
    BY <1>8, <2>3, <2>4, <2>6
<1>11. CASE step.do \notin {"sets", "create"}
  <2> DEFINE under == Planned(later, rest)
  <2>1. \/ EnqueueDeployment(under)
        \/ UNCHANGED store /\ stack' = under
        \/ \E d : UpdateDeployment(d, under)
    BY <1>2, <1>4, <1>11, PlanStepIs
  <2>2. Positioned(under, read) /\ \E V : under \in Seq(V)
    BY <1>5, <1>7
  <2> HIDE DEF under
  <2>3. /\ replicaSets' = replicaSets
        /\ \/ stack' = under
           \/ stack' = <<DeploymentsLoop(MaxBatch)>> \o under
           \/ stack' = <<Delivery(Event("DeploymentUpdated", None), 1)>> \o under
    BY <2>1 DEF EnqueueDeployment, UpdateDeployment, Return, Deliver, store
  <2> QED
    BY <1>5, <1>8, <2>2, <2>3
<1> QED
  BY <1>9, <1>10, <1>11

\* The innermost frame runs on.
LEMMA RunKeepsPlaces ==
  ASSUME StoreType, KeysType, Living, Rolling, PlacedInv, Run
  PROVE  PlacedInv'
<1> USE DEF PlacedInv
<1>1. stack # << >>
  BY DEF Run
<1>2. PICK S, frame : \E r \in Seq(S) :
        /\ stack = <<frame>> \o r
        /\ frame.op = "deliver" => frame \in DeliverFrames
        /\ frame.op = "scale" => frame \in ScaleFrames /\ Scaling(frame)
  BY <1>1, LivingTop
<1>3. PICK rest \in Seq(S) : stack = <<frame>> \o rest
  BY <1>2
<1>4. /\ Head(stack) = frame /\ Tail(stack) = rest
      /\ Placed(replicaSets) /\ Positioned(rest, replicaSets)
  BY <1>3, Stacked, PositionedIs
<1>5. ASSUME NEW T, NEW r \in Seq(T), NEW read, Positioned(r, read), NEW n
      PROVE  Positioned(<<DeploymentsLoop(n)>> \o r, read)
  <2>1. WellPlaced(DeploymentsLoop(n), read)
    BY DEF WellPlaced, DeploymentsLoop
  <2> QED
    BY <1>5, <2>1, PositionedIs
<1>6. ASSUME Placed(replicaSets'), Positioned(stack', replicaSets') PROVE PlacedInv'
  BY <1>6
<1>7. CASE frame.op \in SideOps
  <2>1. Gentle /\ Beside(rest)
    BY <1>1, <1>4, <1>7, SideRuns
  <2>2. /\ Owned(replicaSets') = Owned(replicaSets)
        /\ \A t \in Owned(replicaSets) : replicaSets'[t].at = replicaSets[t].at
    BY <2>1 DEF Gentle, Owned
  <2>3. Placed(replicaSets') /\ Positioned(rest, replicaSets')
    BY <1>4, <2>2, SamePlaces
  <2>4. PICK frames : /\ \A base : Over(rest, base) => Over(frames, base)
                      /\ \/ stack' = frames
                         \/ stack' = <<DeploymentsLoop(MaxBatch)>> \o frames
    BY <2>1 DEF Beside
  <2>5. Over(frames, rest)
    BY <2>4, OverSame
  <2>6. Positioned(frames, replicaSets')
    BY <2>3, <2>5, PositionedOver
  <2>7. PICK T : frames \in Seq(T)
    BY <2>5, OverKeeps
  <2> QED
    BY <1>5, <1>6, <2>3, <2>4, <2>6, <2>7
<1>8. CASE frame.op = "deployments"
  <2>1. DrainDeployments(frame, rest)
    BY <1>2, <1>3, <1>8, RunIs
  <2> DEFINE f == DeploymentsLoop(frame.left - 1)
             loop == <<f>> \o rest
  <2>2. (UNCHANGED store /\ stack' = rest) \/ Reconcile(loop)
    BY <2>1 DEF DrainDeployments, Return
  <2>3. Positioned(loop, replicaSets) /\ \E T : loop \in Seq(T)
    <3> DEFINE T == S \cup {f}
    <3>1. rest \in Seq(T) /\ f \in T
      OBVIOUS
    <3>2. <<f>> \o rest \in Seq(T)
      <4> HIDE DEF f, T
      <4> QED
        BY <3>1, Stacked
    <3> QED
      BY <1>4, <1>5, <3>2
  <2> HIDE DEF loop
  <2>4. CASE UNCHANGED store /\ stack' = rest
    BY <1>4, <1>6, <2>4 DEF store
  <2>5. CASE Reconcile(loop)
    <3> DEFINE plan == PlanFrame(Plan(deploy, replicaSets))
    <3>1. UNCHANGED store /\ stack' = <<plan>> \o loop
      BY <2>5 DEF Reconcile, Return, PlanFrame, Rolling
    <3>2. WellPlaced(plan, replicaSets)
      BY <1>4, PlanPlaces DEF WellPlaced, PlanFrame
    <3> HIDE DEF plan
    <3>3. Positioned(<<plan>> \o loop, replicaSets)
      BY <2>3, <3>2, PositionedIs
    <3> QED
      BY <1>4, <1>6, <3>1, <3>3 DEF store
  <2> QED
    BY <2>2, <2>4, <2>5
<1>9. CASE frame.op = "next"
  <2>1. AfterNext(rest)
    BY <1>2, <1>3, <1>9, RunIs
  <2>2. /\ replicaSets' = replicaSets
        /\ stack' = rest \/ stack' = <<DeploymentsLoop(MaxBatch)>> \o rest
    BY <2>1 DEF AfterNext, EnqueueDeployment, Return, store
  <2> QED
    BY <1>4, <1>5, <1>6, <2>2
<1>10. CASE frame.op = "plan"
  BY <1>1, <1>4, <1>6, <1>10, PlanKeepsPlaces
<1> QED
  BY <1>1, <1>4, <1>7, <1>8, <1>9, <1>10, LivingOps

\* At first there is one ReplicaSet.
LEMMA PlacedInit ==
  ASSUME Init
  PROVE  PlacedInv
<1>1. RoomInv
  BY RoomInit
<1>2. Positioned(stack, replicaSets)
  BY DEF Init, Positioned
<1> QED
  BY <1>1, <1>2 DEF RoomInv, PlacedInv

\* Every step keeps the places.
LEMMA NextKeepsPlaces ==
  ASSUME AllInv, PlacedInv, [Next]_vars
  PROVE  PlacedInv'
<1>1. StoreType /\ KeysType /\ IInv /\ (Living \/ Dying)
  BY DEF AllInv, OInv
<1> SUFFICES ASSUME Rolling'
             PROVE  Placed(replicaSets') /\ Positioned(stack', replicaSets')
  BY DEF PlacedInv
<1>2. CASE Run
  <2>1. Living
    <3>1. deploy = None => deploy' = None
      BY <1>2, RunWrites
    <3>2. deploy # None
      BY <3>1 DEF Rolling
    <3> QED
      BY <1>1, <3>2 DEF Dying
  <2>2. Rolling
    BY <1>2, <2>1, StrategyKept
  <2>3. PlacedInv'
    BY <1>1, <1>2, <2>1, <2>2, RunKeepsPlaces
  <2> QED
    BY <2>3 DEF PlacedInv
<1>3. ASSUME NEW frame, frame.op # "plan", stack' = << >> \/ stack' = <<frame>> \o << >>
      PROVE  Positioned(stack', replicaSets')
  <2>1. << >> \in Seq({frame}) /\ WellPlaced(frame, replicaSets')
    BY <1>3 DEF WellPlaced
  <2> QED
    BY <1>3, <2>1, PositionedIs, ZenonT(60)
<1>4. ASSUME Rolling, replicaSets' = replicaSets PROVE Placed(replicaSets')
  BY <1>4 DEF PlacedInv
<1>5. CASE TimerFires
  <2>1. UNCHANGED store
    BY <1>5 DEF TimerFires, Reconcile, Return
  <2>2. Rolling /\ replicaSets' = replicaSets /\ deploy # None
    BY <2>1 DEF Rolling, store
  <2> DEFINE plan == PlanFrame(Plan(deploy, replicaSets))
  <2>3. \/ stack' = << >>
        \/ stack' = <<plan>> \o <<NextFrame>>
    BY <1>5, <2>2 DEF TimerFires, Reconcile, Return, PlanFrame, NextFrame
  <2>4. WellPlaced(plan, replicaSets)
    BY <1>1, <1>4, <2>2, PlanPlaces DEF WellPlaced, PlanFrame
  <2>5. \A frame : frame.op # "plan" =>
          <<frame>> \in Seq({frame}) /\ Positioned(<<frame>>, replicaSets)
    <3> SUFFICES ASSUME NEW frame, frame.op # "plan"
                 PROVE  <<frame>> \in Seq({frame}) /\ Positioned(<<frame>>, replicaSets)
      OBVIOUS
    <3>1. DOMAIN <<frame>> = {1} /\ <<frame>>[1] = frame
      OBVIOUS
    <3>2. WellPlaced(frame, replicaSets)
      BY DEF WellPlaced
    <3>3. <<frame>> \in Seq({frame})
      OBVIOUS
    <3> QED
      BY <3>1, <3>2, <3>3 DEF Positioned
  <2>6. NextFrame.op # "plan"
    BY DEF NextFrame
  <2>7. <<NextFrame>> \in Seq({NextFrame}) /\ Positioned(<<NextFrame>>, replicaSets)
    BY <2>5, <2>6
  <2> HIDE DEF plan
  <2>8. Positioned(<<plan>> \o <<NextFrame>>, replicaSets)
    BY <2>4, <2>7, PositionedIs
  <2> QED
    BY <1>4, <2>2, <2>3, <2>7, <2>8, PositionedIs
<1>6. CASE ResyncDeployment
  <2>1. /\ stack' = << >> \/ stack' = <<DeploymentsLoop(MaxBatch)>> \o << >>
        /\ UNCHANGED store
    BY <1>6 DEF ResyncDeployment, EnqueueDeployment, Return
  <2>2. DeploymentsLoop(MaxBatch).op # "plan"
    BY DEF DeploymentsLoop
  <2>3. Rolling /\ replicaSets' = replicaSets
    BY <2>1 DEF Rolling, store
  <2> QED
    BY <1>3, <1>4, <2>1, <2>2, <2>3
<1>7. ASSUME NEW t \in Templates, ResyncReplicaSet(t)
      PROVE  Placed(replicaSets') /\ Positioned(stack', replicaSets')
  <2>1. /\ stack' = << >> \/ stack' = <<SetsLoop>> \o << >>
        /\ UNCHANGED store
    BY <1>7 DEF ResyncReplicaSet, EnqueueReplicaSet, Return, SetsLoop
  <2>2. SetsLoop.op # "plan"
    BY DEF SetsLoop
  <2>3. Rolling /\ replicaSets' = replicaSets
    BY <2>1 DEF Rolling, store
  <2> QED
    BY <1>3, <1>4, <2>1, <2>2, <2>3
<1>8. ASSUME NEW event, stack' = <<Delivery(event, 1)>> \o << >>
      PROVE  Positioned(stack', replicaSets')
  <2>1. Delivery(event, 1).op # "plan"
    BY DEF Delivery
  <2> QED
    BY <1>3, <1>8, <2>1
<1>9. ASSUME NEW t \in Templates, NEW i,
             PodReady(t, i) \/ PodUnready(t, i) \/ PodEnds(t, i) \/ DeletePod(t, i)
      PROVE  Placed(replicaSets') /\ Positioned(stack', replicaSets')
  <2>1. PICK list : Idle /\ SetPods(t, list, << >>)
    BY <1>9, Zenon DEF PodReady, PodUnready, PodEnds, DeletePod, SetReady, Edit
  <2>2. /\ deploy' = deploy /\ replicaSets' = replicaSets
        /\ stack' = <<Delivery(Event("Pod", t), 1)>> \o << >>
    BY <2>1 DEF SetPods, Deliver
  <2> QED
    BY <1>4, <1>8, <2>2 DEF Rolling
<1>10. CASE \/ \E n \in 0..MaxReplicas : Scale(n)
            \/ \E t \in Templates : ChangeTemplate(t)
  <2>1. PICK new : deploy # None /\ UpdateDeployment(new, << >>)
                   /\ \/ \E n : new = [deploy EXCEPT !.replicas = n]
                      \/ \E t : new = [deploy EXCEPT !.template = t]
    BY <1>10, Zenon DEF Scale, ChangeTemplate
  <2>2. /\ deploy' = new /\ replicaSets' = replicaSets /\ deploy \in Deployments
        /\ stack' = <<Delivery(Event("DeploymentUpdated", None), 1)>> \o << >>
    BY <1>1, <2>1 DEF UpdateDeployment, Deliver, StoreType
  <2>3. new.strategy = deploy.strategy
    BY <2>1, <2>2 DEF Deployments
  <2> QED
    BY <1>4, <1>8, <2>1, <2>2, <2>3 DEF Rolling
<1>11. CASE DeleteDeployment
  BY <1>11 DEF DeleteDeployment, Rolling
<1>12. ASSUME NEW d \in NewDeployments, CreateDeployment(d)
       PROVE  Placed(replicaSets') /\ Positioned(stack', replicaSets')
  <2>1. /\ replicaSets' = replicaSets /\ deploy = None /\ Idle
        /\ stack' = <<Delivery(Event("DeploymentUpdated", None), 1)>> \o << >>
    BY <1>12 DEF CreateDeployment, Deliver, Edit
  <2>2. Dying
    BY <1>1, <2>1 DEF Living
  <2>3. Owned(replicaSets) = {}
    BY <1>1, <2>1, <2>2, NothingLeft
  <2> QED
    BY <1>8, <2>1, <2>3 DEF Placed, Ranked
<1>13. CASE UNCHANGED vars
  <2>1. deploy' = deploy /\ replicaSets' = replicaSets /\ stack' = stack
    BY <1>13 DEF vars, store
  <2> QED
    BY <2>1 DEF PlacedInv, Rolling
<1> QED
  BY <1>2, <1>5, <1>6, <1>7, <1>9, <1>10, <1>11, <1>12, <1>13 DEF Next

-------------------------------------------------------------------------------
(* Availability: the theorem *)

\* A rolling update never lowers old ReplicaSets, none of which reports unavailable
\* pods, below the pods that must be ready: whenever the immediate loop or
\* processNext reconciles a Deployment that no plan further down the stack
\* handles already, maxScaleDown leaves replicas - maxUnavailable ready pods even
\* if all it takes are ready.
THEOREM AvailabilityIsKept == Spec => AvailabilityKept
<1>1. Init => AvailInv /\ PlacedInv
  BY AvailInit, PlacedInit
<1>2. AllInv /\ AvailInv /\ PlacedInv /\ [Next]_vars => AvailInv' /\ PlacedInv'
  BY NextKeepsAvail, NextKeepsPlaces
<1> DEFINE KeepsReady ==
      /\ Decides /\ ~Draining("plan", stack)
      /\ deploy # None /\ deploy.strategy.type = "RollingUpdate"
      /\ \A t \in OldSets : Unavailable(replicaSets[t]) = 0
      /\ Lowered(Head(stack').steps) > 0
      => Ready >= Floor(deploy) + Lowered(Head(stack').steps)
<1>3. AllInv /\ AvailInv /\ PlacedInv /\ [Next]_vars => KeepsReady
  <2> SUFFICES ASSUME AllInv, AvailInv, PlacedInv, [Next]_vars,
                      Decides, ~Draining("plan", stack), Rolling,
                      \A t \in OldSets : Unavailable(replicaSets[t]) = 0,
                      Lowered(Head(stack').steps) > 0
               PROVE  Ready >= Floor(deploy) + Lowered(Head(stack').steps)
    BY DEF Rolling
  <2>1. StoreType /\ deploy # None
    BY DEF AllInv, OInv, Rolling
  <2>2. /\ Living /\ Head(stack').steps = Plan(deploy, replicaSets)
        /\ stack = << >> \/ Head(stack).op = "deployments"
    BY <2>1, DecidesIs
  <2>3. Sound
    BY <2>2, DecidesSoundly
  <2>4. Ranked(replicaSets, Owned(replicaSets))
    BY DEF PlacedInv, Placed
  <2>5. Lowered(Plan(deploy, replicaSets)) > 0
    BY <2>2
  <2>6. Ready >= Floor(deploy) + Lowered(Plan(deploy, replicaSets))
    BY <2>1, <2>3, <2>4, <2>5, SoundPlanIsSafe
  <2> QED
    BY <2>2, <2>6
<1>4. AllInv /\ AvailInv /\ PlacedInv /\ [Next]_vars => [KeepsReady]_vars
  BY <1>3
<1> HIDE DEF KeepsReady
<1>5. Spec => [][KeepsReady]_vars
  BY <1>1, <1>2, <1>4, Inductive, PTL DEF Spec
<1> QED
  BY <1>5 DEF AvailabilityKept, KeepsReady
===============================================================================
