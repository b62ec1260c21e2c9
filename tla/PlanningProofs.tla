---------------------------- MODULE PlanningProofs ----------------------------
(***************************************************************************)
(* What TLAPS proves of the plan of the dispatcher.  Of the pool: that a   *)
(* decision is in one queue, once, and in the index, whatever is merged,   *)
(* purged, popped or stolen, and that no task has more segments on servers *)
(* than it may have.  Of the scheduler: that its answer is such a plan and *)
(* that its quotas share the batch out exactly.  For all items, servers,   *)
(* slots and speeds, and changes of them in the middle of a cycle.         *)
(***************************************************************************)
EXTENDS PlanPool, BatchScheduler, FiniteLemmas, SequenceTheorems

-----------------------------------------------------------------------------
(* Sets of numbers, counted from below. *)

(* Nth counts a finite set of numbers from below: no member twice, none left out. *)
LEMMA NthCounts ==
    ASSUME NEW S \in SUBSET Nat, IsFiniteSet(S)
    PROVE  /\ \A n \in 1 .. Cardinality(S) : Nth(S, n) \in S
           /\ \A m, n \in 1 .. Cardinality(S) : Nth(S, m) = Nth(S, n) => m = n
           /\ \A k \in S : \E n \in 1 .. Cardinality(S) : Nth(S, n) = k
<1>0. Cardinality(S) \in Nat
  BY Ranks
<1>1. ASSUME NEW n \in 1 .. Cardinality(S)
      PROVE  Nth(S, n) \in S /\ Cardinality(Below(S, Nth(S, n))) = n - 1
  <2>1. n - 1 \in 0 .. Cardinality(S) - 1
    BY <1>0
  <2>2. \E k \in S : Cardinality(Below(S, k)) = n - 1
    BY <2>1, RanksTaken
  <2> QED
    BY <2>2 DEF Nth, Below
<1>2. ASSUME NEW m \in 1 .. Cardinality(S), NEW n \in 1 .. Cardinality(S), Nth(S, m) = Nth(S, n)
      PROVE  m = n
  <2>1. m - 1 = n - 1
    BY <1>1, <1>2
  <2> QED
    BY <1>0, <2>1
<1>3. ASSUME NEW k \in S PROVE \E n \in 1 .. Cardinality(S) : Nth(S, n) = k
  <2> DEFINE n == Cardinality(Below(S, k)) + 1
  <2>1. n \in 1 .. Cardinality(S) /\ n - 1 = Cardinality(Below(S, k))
    BY Ranks
  <2>2. Nth(S, n) = k
    <3>1. Nth(S, n) \in S /\ Cardinality(Below(S, Nth(S, n))) = n - 1
      BY <2>1, <1>1
    <3>2. Cardinality(Below(S, Nth(S, n))) = Cardinality(Below(S, k))
      BY <2>1, <3>1
    <3>3. \A j \in S : Cardinality(Below(S, j)) = Cardinality(Below(S, k)) => j = k
      BY RanksTaken
    <3> HIDE DEF n
    <3> QED
      BY <3>1, <3>2, <3>3
  <2> QED
    BY <2>1, <2>2
<1> QED
  BY <1>1, <1>2, <1>3

(* The first n of a set of numbers are at most n. *)
LEMMA FirstIsSmall ==
    ASSUME NEW S \in SUBSET Nat, IsFiniteSet(S), NEW n \in Int
    PROVE  /\ First(S, n) \subseteq S
           /\ n <= 0 => First(S, n) = {}
           /\ n >= 0 => Cardinality(First(S, n)) <= n
<1>1. First(S, n) = {k \in S : Cardinality(Below(S, k)) < n}
  BY DEF First, Below
<1>2. ASSUME n <= 0 PROVE First(S, n) = {}
  <2>1. \A k \in S : Cardinality(Below(S, k)) \in Nat
    BY Ranks
  <2>2. \A k \in S : ~ (Cardinality(Below(S, k)) < n)
    BY <1>2, <2>1
  <2> QED
    BY <1>1, <2>2
<1>3. ASSUME n >= 0 PROVE Cardinality(First(S, n)) <= n
  <2> DEFINE rank == [k \in First(S, n) |-> Cardinality(Below(S, k))]
             T == 0 .. n - 1
  <2>1. rank \in Injection(First(S, n), T)
    <3>0. \A k \in S : Cardinality(Below(S, k)) \in Nat
      BY Ranks
    <3>1. \A k \in First(S, n) : k \in S /\ Cardinality(Below(S, k)) \in T
      <4> SUFFICES ASSUME NEW k \in First(S, n)
                   PROVE  k \in S /\ Cardinality(Below(S, k)) \in T
        OBVIOUS
      <4>1. k \in S /\ Cardinality(Below(S, k)) < n
        BY <1>1
      <4> QED
        BY <4>1, <3>0
    <3>2. \A k, l \in First(S, n) : rank[k] = rank[l] => k = l
      BY <3>1, RanksTaken
    <3> QED
      BY <3>1, <3>2 DEF Injection, IsInjective
  <2>2. IsFiniteSet(T) /\ Cardinality(T) = n
    BY <1>3, FS_Interval
  <2>3. Cardinality(First(S, n)) <= Cardinality(T)
    <3> HIDE DEF rank, T
    <3> QED
      BY <2>1, <2>2, FS_Injection
  <2> QED
    BY <2>2, <2>3
<1> QED
  BY <1>1, <1>2, <1>3

-----------------------------------------------------------------------------
(* The operations on queues. *)

(* A queue that holds no item twice. *)
Sound(q) == q \in Seq(Decision) /\ \A j, k \in DOMAIN q : q[j].id = q[k].id => j = k

Apart(qs) == \A r, s \in Hosts : r # s => Ids(qs[r]) \cap Ids(qs[s]) = {}

SoundPool(qs) == qs \in [Hosts -> Seq(Decision)] /\ (\A s \in Hosts : Sound(qs[s])) /\ Apart(qs)

LEMMA QueueElements ==
    ASSUME NEW q \in Seq(Decision)
    PROVE  /\ DOMAIN q = 1 .. Len(q) /\ Len(q) \in Nat
           /\ \A k \in DOMAIN q : q[k] \in Decision /\ q[k].id \in Items /\ q[k].now \in BOOLEAN
           /\ Ids(q) \subseteq Items
<1>1. DOMAIN q = 1 .. Len(q) /\ Len(q) \in Nat /\ q \in [1 .. Len(q) -> Decision]
  BY LenProperties
<1>2. \A k \in DOMAIN q : q[k] \in Decision /\ q[k].id \in Items /\ q[k].now \in BOOLEAN
  BY <1>1 DEF Decision
<1> QED
  BY <1>1, <1>2 DEF Ids

(* Taking items out of a queue leaves the others, in a queue of the same kind. *)
LEMMA WithoutIs ==
    ASSUME NEW q \in Seq(Decision), NEW ids
    PROVE  /\ Without(q, ids) \in Seq(Decision)
           /\ Ids(Without(q, ids)) = Ids(q) \ ids
           /\ Sound(q) => Sound(Without(q, ids))
<1> DEFINE keep == {k \in DOMAIN q : q[k].id \notin ids}
           N == Cardinality(keep)
           w == [n \in 1 .. N |-> q[Nth(keep, n)]]
<1>0. w = Without(q, ids)
  BY DEF Without
<1>1. keep \in SUBSET Nat /\ IsFiniteSet(keep) /\ keep \subseteq DOMAIN q
  <2>1. keep \in SUBSET (1 .. Len(q)) /\ Len(q) \in Nat /\ DOMAIN q = 1 .. Len(q)
    BY QueueElements
  <2>2. IsFiniteSet(1 .. Len(q))
    BY <2>1, FS_Interval
  <2>3. IsFiniteSet(keep)
    <3> HIDE DEF keep
    <3> QED
      BY <2>1, <2>2, FS_Subset
  <2> QED
    BY <2>1, <2>3
<1>2. N \in Nat
  <2> HIDE DEF keep
  <2> QED
    BY <1>1, FS_CardinalityType
<1>3. /\ \A n \in 1 .. N : Nth(keep, n) \in keep
      /\ \A m, n \in 1 .. N : Nth(keep, m) = Nth(keep, n) => m = n
      /\ \A k \in keep : \E n \in 1 .. N : Nth(keep, n) = k
  <2> HIDE DEF keep
  <2> QED
    BY <1>1, NthCounts
<1>4. \A n \in 1 .. N : w[n] = q[Nth(keep, n)] /\ w[n] \in Decision
  BY <1>1, <1>3, QueueElements
<1>5. w \in Seq(Decision) /\ DOMAIN w = 1 .. N
  <2>1. w \in [1 .. N -> Decision]
    BY <1>4
  <2> HIDE DEF w, N
  <2> QED
    BY <1>2, <2>1, SeqDef
<1>6. Ids(w) = Ids(q) \ ids
  <2>1. ASSUME NEW i \in Ids(w) PROVE i \in Ids(q) \ ids
    <3>1. PICK n \in 1 .. N : i = w[n].id
      BY <1>5 DEF Ids
    <3>2. Nth(keep, n) \in keep /\ i = q[Nth(keep, n)].id
      BY <3>1, <1>3, <1>4
    <3> QED
      BY <3>2 DEF Ids
  <2>2. ASSUME NEW i \in Ids(q) \ ids PROVE i \in Ids(w)
    <3>1. PICK k \in keep : i = q[k].id
      BY DEF Ids
    <3>2. PICK n \in 1 .. N : Nth(keep, n) = k
      BY <1>3
    <3>3. w[n].id = i /\ n \in DOMAIN w
      BY <3>1, <3>2, <1>4, <1>5
    <3> HIDE DEF w
    <3> QED
      BY <3>3 DEF Ids
  <2> QED
    BY <2>1, <2>2
<1>7. ASSUME Sound(q) PROVE Sound(w)
  <2> SUFFICES ASSUME NEW m \in DOMAIN w, NEW n \in DOMAIN w, w[m].id = w[n].id PROVE m = n
    BY <1>5 DEF Sound
  <2>1. /\ q[Nth(keep, m)].id = q[Nth(keep, n)].id /\ m \in 1 .. N /\ n \in 1 .. N
        /\ Nth(keep, m) \in DOMAIN q /\ Nth(keep, n) \in DOMAIN q
    BY <1>1, <1>3, <1>4, <1>5
  <2>2. Nth(keep, m) = Nth(keep, n)
    BY <1>7, <2>1 DEF Sound
  <2> QED
    BY <1>3, <2>1, <2>2
<1> HIDE DEF w
<1> QED
  BY <1>0, <1>5, <1>6, <1>7

(* An answer of the scheduler: a sound pool of the items it was asked for. *)
LEMMA PlansAre ==
    ASSUME NEW items \in SUBSET Items, NEW avail \in SUBSET Hosts, NEW free,
           NEW p \in Plans(items, avail, free)
    PROVE  SoundPool(p) /\ \A s \in Hosts : Ids(p[s]) \subseteq items
<1>1. PICK on \in [items -> avail], f \in SetToSeqs(items), first \in SUBSET items :
        p = [s \in Hosts |->
               Without([k \in DOMAIN f |-> [id |-> f[k], now |-> f[k] \in first]],
                       items \ {i \in items : on[i] = s})]
  BY Zenon DEF Plans
<1> DEFINE q == [k \in DOMAIN f |-> [id |-> f[k], now |-> f[k] \in first]]
           On(s) == {i \in items : on[i] = s}
<1>2. /\ f \in [1 .. Cardinality(items) -> items]
      /\ \A j, k \in DOMAIN f : f[j] = f[k] => j = k
  BY DEF SetToSeqs
<1>3. Cardinality(items) \in Nat
  BY PoolAssumption, FS_Subset, FS_CardinalityType
<1>4. \A k \in DOMAIN f : q[k] \in Decision /\ q[k].id = f[k] /\ f[k] \in items
  BY <1>2 DEF Decision
<1>5. q \in Seq(Decision) /\ DOMAIN q = DOMAIN f
  <2>1. q \in [1 .. Cardinality(items) -> Decision]
    BY <1>2, <1>4
  <2> HIDE DEF q
  <2> QED
    BY <1>2, <1>3, <2>1, SeqDef
<1>6. Sound(q) /\ Ids(q) \subseteq items
  <2> HIDE DEF q
  <2>1. Sound(q)
    BY <1>2, <1>4, <1>5 DEF Sound
  <2>2. Ids(q) \subseteq items
    BY <1>4, <1>5 DEF Ids
  <2> QED
    BY <2>1, <2>2
<1>7. /\ DOMAIN p = Hosts
      /\ \A s \in Hosts : p[s] = Without(q, items \ On(s))
  BY <1>1, Zenon
<1>8. \A s \in Hosts : Sound(p[s]) /\ Ids(p[s]) = Ids(q) \ (items \ On(s))
  <2> SUFFICES ASSUME NEW s \in Hosts
               PROVE  Sound(p[s]) /\ Ids(p[s]) = Ids(q) \ (items \ On(s))
    OBVIOUS
  <2> DEFINE others == items \ On(s)
  <2>1. p[s] = Without(q, others)
    BY <1>7
  <2> HIDE DEF q, others
  <2>2. Sound(Without(q, others)) /\ Ids(Without(q, others)) = Ids(q) \ others
    BY <1>5, <1>6, WithoutIs
  <2> QED
    BY <2>1, <2>2 DEF others
<1>9. \A s \in Hosts : Ids(p[s]) \subseteq On(s)
  <2> HIDE DEF q, On
  <2> QED
    BY <1>6, <1>8
<1>10. Apart(p)
  BY <1>9 DEF Apart
<1>11. p \in [Hosts -> Seq(Decision)]
  <2>1. p = [s \in Hosts |-> p[s]]
    BY <1>1, Zenon
  <2> QED
    BY <2>1, <1>8 DEF Sound
<1> QED
  BY <1>8, <1>9, <1>10, <1>11 DEF SoundPool

(* The index that is built from a sound pool names the queue of each item. *)
LEMMA IndexNames ==
    ASSUME NEW qs, SoundPool(qs)
    PROVE  /\ IndexOf(qs) \in [Items -> Hosts \cup {NoHost}]
           /\ \A s \in Hosts, i \in Items : IndexOf(qs)[i] = s <=> i \in Ids(qs[s])
<1> SUFFICES ASSUME NEW i \in Items
             PROVE  /\ IndexOf(qs)[i] \in Hosts \cup {NoHost}
                    /\ \A s \in Hosts : IndexOf(qs)[i] = s <=> i \in Ids(qs[s])
  BY DEF IndexOf
<1>1. CASE \E s \in Hosts : i \in Ids(qs[s])
  <2>1. IndexOf(qs)[i] \in Hosts /\ i \in Ids(qs[IndexOf(qs)[i]])
    BY <1>1 DEF IndexOf
  <2> QED
    BY <2>1 DEF SoundPool, Apart
<1>2. CASE ~ \E s \in Hosts : i \in Ids(qs[s])
  BY <1>2, PoolAssumption DEF IndexOf
<1> QED
  BY <1>1, <1>2

(* New decisions go behind a queue that holds none of them. *)
LEMMA BehindIs ==
    ASSUME NEW q, NEW r, Sound(q), Sound(r), Ids(q) \cap Ids(r) = {}
    PROVE  Sound(Behind(q, r)) /\ Ids(Behind(q, r)) = Ids(q) \cup Ids(r)
<1> DEFINE later == [k \in DOMAIN r |-> [r[k] EXCEPT !.now = r[k].now /\ q = <<>>]]
           b == q \o later
<1>1. /\ q \in Seq(Decision) /\ DOMAIN q = 1 .. Len(q) /\ Len(q) \in Nat
      /\ r \in Seq(Decision) /\ DOMAIN r = 1 .. Len(r) /\ Len(r) \in Nat
  BY QueueElements DEF Sound
<1>2. \A k \in DOMAIN r : later[k] \in Decision /\ later[k].id = r[k].id
  <2> SUFFICES ASSUME NEW k \in DOMAIN r PROVE later[k] \in Decision /\ later[k].id = r[k].id
    OBVIOUS
  <2>1. r[k] \in Decision /\ (r[k].now /\ q = <<>>) \in BOOLEAN
    BY <1>1, QueueElements
  <2> QED
    BY <2>1 DEF Decision
<1>3. later \in Seq(Decision) /\ Len(later) = Len(r)
  <2>1. later \in [1 .. Len(r) -> Decision]
    BY <1>1, <1>2
  <2> HIDE DEF later
  <2>2. later \in Seq(Decision)
    BY <1>1, <2>1, SeqDef
  <2>3. DOMAIN later = 1 .. Len(later) /\ Len(later) \in Nat
    BY <2>2, QueueElements
  <2> QED
    BY <1>1, <2>1, <2>2, <2>3
<1>4. /\ b \in Seq(Decision) /\ DOMAIN b = 1 .. Len(q) + Len(r)
      /\ \A k \in 1 .. Len(q) : b[k] = q[k]
      /\ \A k \in 1 .. Len(r) : b[Len(q) + k].id = r[k].id
  <2> HIDE DEF later
  <2>1. /\ b \in Seq(Decision) /\ Len(b) = Len(q) + Len(r)
        /\ \A k \in 1 .. Len(q) + Len(r) : b[k] = IF k <= Len(q) THEN q[k] ELSE later[k - Len(q)]
    <3>1. /\ q \o later \in Seq(Decision) /\ Len(q \o later) = Len(q) + Len(later)
          /\ \A k \in 1 .. Len(q) + Len(later) :
               (q \o later)[k] = IF k <= Len(q) THEN q[k] ELSE later[k - Len(q)]
      BY <1>1, <1>3, ConcatProperties, Zenon
    <3> QED
      BY <1>3, <3>1, Zenon
  <2>2. DOMAIN b = 1 .. Len(q) + Len(r)
    BY <2>1, QueueElements
  <2>3. \A k \in 1 .. Len(q) : b[k] = q[k]
    BY <1>1, <2>1
  <2>4. ASSUME NEW k \in 1 .. Len(r) PROVE b[Len(q) + k].id = r[k].id
    <3>1. Len(q) + k \in 1 .. Len(q) + Len(r) /\ ~ (Len(q) + k <= Len(q)) /\ (Len(q) + k) - Len(q) = k
      BY <1>1
    <3>2. b[Len(q) + k] = later[k]
      BY <2>1, <3>1
    <3> QED
      BY <1>1, <1>2, <3>2
  <2> QED
    BY <2>1, <2>2, <2>3, <2>4
<1> HIDE DEF later, b
<1>5. \A k \in DOMAIN b :
        \/ k \in 1 .. Len(q) /\ b[k].id = q[k].id
        \/ k - Len(q) \in 1 .. Len(r) /\ b[k].id = r[k - Len(q)].id
  <2> SUFFICES ASSUME NEW k \in DOMAIN b, k \notin 1 .. Len(q)
               PROVE  k - Len(q) \in 1 .. Len(r) /\ b[k].id = r[k - Len(q)].id
    BY <1>4
  <2>1. k - Len(q) \in 1 .. Len(r) /\ Len(q) + (k - Len(q)) = k
    BY <1>1, <1>4
  <2>2. b[Len(q) + (k - Len(q))].id = r[k - Len(q)].id
    BY <1>4, <2>1
  <2> QED
    BY <2>1, <2>2
<1>6. Ids(b) = Ids(q) \cup Ids(r)
  <2>1. Ids(b) \subseteq Ids(q) \cup Ids(r)
    BY <1>1, <1>5 DEF Ids
  <2>2. \A k \in 1 .. Len(q) : k \in DOMAIN b /\ b[k].id = q[k].id
    BY <1>1, <1>4
  <2>3. \A k \in 1 .. Len(r) : Len(q) + k \in DOMAIN b /\ b[Len(q) + k].id = r[k].id
    BY <1>1, <1>4
  <2>4. Ids(q) \subseteq Ids(b)
    BY <1>1, <2>2 DEF Ids
  <2>5. Ids(r) \subseteq Ids(b)
    <3>1. ASSUME NEW k \in DOMAIN r PROVE r[k].id \in Ids(b)
      <4>1. Len(q) + k \in DOMAIN b /\ b[Len(q) + k].id = r[k].id
        BY <1>1, <2>3
      <4> QED
        BY <4>1 DEF Ids
    <3> QED
      BY <3>1 DEF Ids
  <2> QED
    BY <2>1, <2>4, <2>5
<1>7. ASSUME NEW j \in DOMAIN b, NEW k \in DOMAIN b, b[j].id = b[k].id PROVE j = k
  <2> DEFINE InOld(m) == m \in 1 .. Len(q) /\ b[m].id = q[m].id
             InNew(m)  == m - Len(q) \in 1 .. Len(r) /\ b[m].id = r[m - Len(q)].id
  <2>0. \A m, n : ~ (m \in 1 .. Len(q) /\ n \in 1 .. Len(r) /\ q[m].id = r[n].id)
    BY <1>1 DEF Ids
  <2>1. (InOld(j) \/ InNew(j)) /\ (InOld(k) \/ InNew(k))
    BY <1>5
  <2>2. CASE InOld(j) /\ InOld(k)
    BY <1>1, <1>7, <2>2 DEF Sound
  <2>3. CASE InNew(j) /\ InNew(k)
    <3>1. j - Len(q) = k - Len(q)
      BY <1>1, <1>7, <2>3 DEF Sound
    <3> QED
      BY <1>1, <1>4, <3>1
  <2>4. CASE InOld(j) /\ InNew(k)
    BY <1>7, <2>0, <2>4
  <2>5. CASE InNew(j) /\ InOld(k)
    BY <1>7, <2>0, <2>5
  <2> QED
    BY <2>1, <2>2, <2>3, <2>4, <2>5
<1>8. b = Behind(q, r)
  BY DEF b, later, Behind
<1> QED
  BY <1>4, <1>6, <1>7, <1>8 DEF Sound

(* What is purged of a sound pool leaves a sound pool of the cycle's items. *)
LEMMA PurgedIs ==
    ASSUME NEW qs, SoundPool(qs)
    PROVE  SoundPool(Purged(qs)) /\ \A s \in Hosts : Ids(Purged(qs)[s]) \subseteq cycle.items
<1> DEFINE out == Items \ cycle.items
           ps  == Purged(qs)
<1>1. DOMAIN ps = Hosts /\ ps = [s \in Hosts |-> ps[s]] /\ \A s \in Hosts : ps[s] = Without(qs[s], out)
  BY DEF Purged
<1> HIDE DEF ps, out
<1>2. \A s \in Hosts : Sound(ps[s]) /\ Ids(ps[s]) = Ids(qs[s]) \ out /\ Ids(qs[s]) \subseteq Items
  <2> SUFFICES ASSUME NEW s \in Hosts
               PROVE  Sound(ps[s]) /\ Ids(ps[s]) = Ids(qs[s]) \ out /\ Ids(qs[s]) \subseteq Items
    OBVIOUS
  <2>1. qs[s] \in Seq(Decision) /\ Sound(qs[s])
    BY DEF SoundPool
  <2> QED
    BY <1>1, <2>1, WithoutIs, QueueElements
<1>3. ps \in [Hosts -> Seq(Decision)]
  BY <1>1, <1>2 DEF Sound
<1>4. Apart(ps)
  BY <1>2 DEF SoundPool, Apart
<1> QED
  BY <1>2, <1>3, <1>4 DEF SoundPool, ps, out

-----------------------------------------------------------------------------
(* The inductive invariant.  During a cycle what it took and what the queues *)
(* still hold are items that it read, and of those there are no more than    *)
(* their task has room for beside the segments that run already.             *)

CycleTyped ==
    cycle \in [pc: {"rest", "plan", "pop", "steal"}, avail: SUBSET Hosts, items: SUBSET Items,
               cap: [Hosts -> Nat], free: [Hosts -> Nat], fresh: BOOLEAN, todo: SUBSET Hosts,
               taken: [Items -> Hosts \cup {NoHost}]]

WorldTyped ==
    /\ work \in [Items -> [st: {"absent", "waiting", "running", "over"},
                          host: Hosts \cup {NoHost}, tries: Nat]]
    /\ host \in [Hosts -> {"ready", "blocked", "away"}]
    /\ slots \in [Hosts -> Nat \ {0}]
    /\ changes \in Nat

WithinCycle ==
    /\ cycle.pc \in {"rest", "plan"} => Taken = {}
    /\ cycle.pc \in {"pop", "steal"} => /\ Taken \subseteq cycle.items
                                        /\ \A s \in Hosts : Ids(queue[s]) \subseteq cycle.items

RoomKept ==
    \A t \in Parents : Cardinality(PartsOf(t) \cap (In("running") \cup cycle.items)) <= MaxParallel

PoolInv == PoolTypeOK /\ CycleTyped /\ WorldTyped /\ PoolIndexed /\ WithinCycle /\ RoomKept

LEMMA IndexedPoolSound == ASSUME PoolTypeOK, PoolIndexed PROVE SoundPool(queue)
<1>1. \A s \in Hosts : Sound(queue[s]) /\ Ids(queue[s]) \subseteq Items
  BY QueueElements DEF PoolTypeOK, PoolIndexed, Sound
<1>2. Apart(queue)
  BY <1>1 DEF PoolIndexed, Apart
<1> QED
  BY <1>1, <1>2 DEF SoundPool, PoolTypeOK

LEMMA PoolTypes == PoolInv => PoolTypeOK /\ CycleTyped /\ WorldTyped
  BY DEF PoolInv

LEMMA PartsFinite ==
    ASSUME NEW t, NEW A
    PROVE  /\ IsFiniteSet(PartsOf(t) \cap A) /\ Cardinality(PartsOf(t) \cap A) \in Nat
           /\ \A B \in SUBSET A : Cardinality(PartsOf(t) \cap B) <= Cardinality(PartsOf(t) \cap A)
<1>1. IsFiniteSet(PartsOf(t) \cap A)
  BY PoolAssumption, FS_Subset DEF PartsOf
<1>2. ASSUME NEW B \in SUBSET A
      PROVE  Cardinality(PartsOf(t) \cap B) <= Cardinality(PartsOf(t) \cap A)
  <2> DEFINE U == PartsOf(t) \cap A
             V == PartsOf(t) \cap B
  <2>1. V \in SUBSET U /\ IsFiniteSet(U)
    BY <1>1
  <2> HIDE DEF U, V
  <2>2. Cardinality(V) <= Cardinality(U)
    BY <2>1, FS_Subset
  <2> QED
    BY <2>2 DEF U, V
<1> QED
  BY <1>1, <1>2, FS_CardinalityType

(* No step but the reading of work makes more of the two together. *)
LEMMA RoomStays ==
    ASSUME RoomKept,
           In("running")' \cup cycle'.items \subseteq In("running") \cup cycle.items
    PROVE  RoomKept'
<1> DEFINE A == In("running") \cup cycle.items
           B == In("running")' \cup cycle'.items
<1> SUFFICES ASSUME NEW t \in Parents PROVE Cardinality(PartsOf(t) \cap B) <= MaxParallel
  BY DEF RoomKept, Parents, PartsOf
<1>1. Cardinality(PartsOf(t) \cap A) <= MaxParallel /\ B \in SUBSET A
  BY DEF RoomKept
<1> HIDE DEF A, B
<1>2. Cardinality(PartsOf(t) \cap B) <= Cardinality(PartsOf(t) \cap A)
  BY <1>1, PartsFinite
<1>3. Cardinality(PartsOf(t) \cap B) \in Nat /\ Cardinality(PartsOf(t) \cap A) \in Nat
  BY PartsFinite
<1> QED
  BY <1>1, <1>2, <1>3, PoolAssumption

(* A new plan is purged and put in the queues. *)
LEMMA PhaseAKeeps ==
    ASSUME PoolInv, cycle.pc = "plan", NEW qs, SoundPool(qs), NEW isFresh \in BOOLEAN,
           StartPhaseA(qs, isFresh), plannedFor' \subseteq Hosts, since' \in 0 .. 2,
           UNCHANGED envVars
    PROVE  PoolInv'
<1> USE PoolTypes
<1>1. /\ SoundPool(Purged(qs)) /\ \A s \in Hosts : Ids(Purged(qs)[s]) \subseteq cycle.items
      /\ queue' = Purged(qs) /\ index' = IndexOf(Purged(qs))
  BY PurgedIs DEF StartPhaseA
<1>2. /\ index' \in [Items -> Hosts \cup {NoHost}]
      /\ \A s \in Hosts, i \in Items : index'[i] = s <=> i \in Ids(queue'[s])
  BY <1>1, IndexNames
<1>3. cycle' = [cycle EXCEPT !.pc = "pop", !.fresh = isFresh, !.todo = cycle.avail]
  BY DEF StartPhaseA
<1>4. /\ CycleTyped' /\ cycle'.pc = "pop" /\ cycle'.items = cycle.items
      /\ cycle'.taken = cycle.taken
  BY <1>3 DEF CycleTyped
<1>5. Taken' = Taken /\ Taken = {}
  BY <1>4 DEF Taken, PoolInv, WithinCycle
<1>6. PoolTypeOK'
  BY <1>1, <1>2 DEF PoolTypeOK, SoundPool, envVars
<1>7. PoolIndexed'
  BY <1>1, <1>2, <1>5 DEF PoolIndexed, SoundPool, Sound, Ids
<1>8. WithinCycle'
  BY <1>1, <1>4, <1>5 DEF WithinCycle, Ids
<1>9. RoomKept'
  BY <1>4, RoomStays DEF PoolInv, In, envVars
<1>10. WorldTyped'
  BY DEF WorldTyped, envVars
<1> QED
  BY <1>4, <1>6, <1>7, <1>8, <1>9, <1>10 DEF PoolInv

LEMMA InitPool == PoolInit => PoolInv
<1> SUFFICES ASSUME PoolInit PROVE PoolInv
  OBVIOUS
<1> USE PoolAssumption DEF PoolInit, Resting
<1>1. \A s \in Hosts : queue[s] = <<>> /\ DOMAIN queue[s] = {}
  OBVIOUS
<1>2. PoolTypeOK
  BY EmptySeq DEF PoolTypeOK
<1>3. CycleTyped
  BY DEF CycleTyped
<1>4. WorldTyped
  BY DEF WorldTyped
<1>5. Taken = {} /\ In("running") = {} /\ cycle.items = {}
  BY DEF Taken, In
<1>6. PoolIndexed
  BY <1>1, <1>5 DEF PoolIndexed, Ids
<1>7. WithinCycle
  BY <1>5 DEF WithinCycle
<1>8. RoomKept
  <2> SUFFICES ASSUME NEW t \in Parents
               PROVE  Cardinality(PartsOf(t) \cap (In("running") \cup cycle.items)) <= MaxParallel
    BY DEF RoomKept
  <2> DEFINE A == PartsOf(t) \cap (In("running") \cup cycle.items)
  <2>1. A = {}
    BY <1>5
  <2> HIDE DEF A
  <2>2. Cardinality(A) = 0
    BY <2>1, FS_EmptySet
  <2>3. Cardinality(A) <= MaxParallel
    BY <2>2, PoolAssumption
  <2> QED
    BY <2>3 DEF A
<1> QED
  BY <1>2, <1>3, <1>4, <1>6, <1>7, <1>8 DEF PoolInv

(* What a task's segments that run and those that are read come to. *)
LEMMA ReadRoom ==
    ASSUME PoolInv, NEW avail \in SUBSET Hosts, NEW t \in Parents
    PROVE  Cardinality(PartsOf(t) \cap (In("running") \cup Readable(avail))) <= MaxParallel
<1> DEFINE run == PartsOf(t) \cap In("running")
           wait == PartsOf(t) \cap In("waiting")
           room == Room(t, avail)
           first == First(wait, room)
           both == PartsOf(t) \cap (In("running") \cup Readable(avail))
<1>1. /\ IsFiniteSet(run) /\ Cardinality(run) \in Nat
      /\ IsFiniteSet(wait) /\ wait \in SUBSET Nat
  BY PartsFinite, PoolAssumption DEF PartsOf
<1>2. Cardinality(run) <= MaxParallel
  <2> DEFINE A == In("running") \cup cycle.items
             B == In("running")
  <2>1. Cardinality(PartsOf(t) \cap A) <= MaxParallel
    BY DEF PoolInv, RoomKept
  <2>2. B \in SUBSET A
    OBVIOUS
  <2> HIDE DEF A, B
  <2>3. Cardinality(PartsOf(t) \cap B) <= Cardinality(PartsOf(t) \cap A)
    BY <2>2, PartsFinite
  <2>4. Cardinality(PartsOf(t) \cap B) \in Nat /\ Cardinality(PartsOf(t) \cap A) \in Nat
    BY PartsFinite
  <2>5. Cardinality(PartsOf(t) \cap B) <= MaxParallel
    BY <2>1, <2>3, <2>4, PoolAssumption
  <2> QED
    BY <2>5 DEF B
<1>3. room \in Int /\ room <= MaxParallel - Cardinality(run)
  <2>1. Cardinality(avail) \in Nat
    BY PoolAssumption, FS_Subset, FS_CardinalityType
  <2>2. /\ Min({Cardinality(avail), MaxParallel}) \in Int
        /\ Min({Cardinality(avail), MaxParallel}) <= MaxParallel
    <3> DEFINE c == Cardinality(avail)
    <3> HIDE DEF c
    <3>1. c \in Int /\ MaxParallel \in Int
      BY <2>1, PoolAssumption DEF c
    <3>2. Min({c, MaxParallel}) \in {c, MaxParallel} /\ Min({c, MaxParallel}) <= MaxParallel
      BY <3>1, TwoCompared
    <3> QED
      BY <3>1, <3>2 DEF c
  <2>3. room = Min({Cardinality(avail), MaxParallel}) - Cardinality(run)
    BY DEF Room
  <2> HIDE DEF room, run
  <2> QED
    BY <1>1, <2>2, <2>3, PoolAssumption
<1>4. both \subseteq run \cup first
  <2> SUFFICES ASSUME NEW i \in both, i \notin run PROVE i \in first
    OBVIOUS
  <2>1. i \in Items /\ PartOf[i] = t /\ t # Whole /\ i \in Readable(avail)
    BY DEF PartsOf, Parents
  <2>2. PICK u \in Parents : i \in First(PartsOf(u) \cap In("waiting"), Room(u, avail))
    BY <2>1 DEF Readable
  <2>3. u = t
    BY <2>1, <2>2 DEF First, PartsOf
  <2> QED
    BY <2>2, <2>3
<1> HIDE DEF run, wait, room, both
<1>5. first \subseteq wait /\ (room <= 0 => first = {}) /\ (room >= 0 => Cardinality(first) <= room)
  BY <1>1, <1>3, FirstIsSmall
<1>6. IsFiniteSet(first) /\ Cardinality(first) \in Nat
  <2> HIDE DEF first
  <2> QED
    BY <1>1, <1>5, FS_Subset, FS_CardinalityType
<1> HIDE DEF first
<1>7. Cardinality(first) <= MaxParallel - Cardinality(run)
  <2>1. CASE room <= 0
    <3>1. Cardinality(first) = 0
      BY <2>1, <1>5, FS_EmptySet
    <3> QED
      BY <3>1, <1>1, <1>2, PoolAssumption
  <2>2. CASE room >= 0
    BY <2>2, <1>1, <1>3, <1>5, <1>6, PoolAssumption
  <2> QED
    BY <1>3, <2>1, <2>2
<1>8. /\ IsFiniteSet(run \cup first)
      /\ Cardinality(run \cup first) = Cardinality(run) + Cardinality(first) - Cardinality(run \cap first)
  BY <1>1, <1>6, FS_Union
<1>9. Cardinality(run \cap first) \in Nat
  BY <1>1, FS_Intersection, FS_CardinalityType
<1>10. /\ Cardinality(both) <= Cardinality(run \cup first)
       /\ Cardinality(both) \in Nat /\ Cardinality(run \cup first) \in Nat
  BY <1>4, <1>8, FS_Subset, FS_CardinalityType
<1>11. Cardinality(both) <= MaxParallel
  BY <1>1, <1>6, <1>7, <1>8, <1>9, <1>10, PoolAssumption
<1> QED
  BY <1>11 DEF both

LEMMA ReadWorkKeeps == ASSUME PoolInv, ReadWork PROVE PoolInv'
<1> USE PoolTypes
<1>1. /\ cycle.pc = "rest" /\ Taken = {} /\ Avail \in SUBSET Hosts /\ Readable(Avail) \in SUBSET Items
      /\ UNCHANGED <<planVars, envVars>>
  BY DEF ReadWork, PoolInv, WithinCycle, Avail, Readable, In, PartsOf, First
<1> DEFINE free == [s \in Hosts |-> Max({slots[s] - Cardinality(RunningOn(s)), 0})]
<1>2. free \in [Hosts -> Nat]
  <2> SUFFICES ASSUME NEW s \in Hosts PROVE Max({slots[s] - Cardinality(RunningOn(s)), 0}) \in Nat
    OBVIOUS
  <2>1. Cardinality(RunningOn(s)) \in Nat
    BY PoolAssumption, FS_Subset, FS_CardinalityType DEF RunningOn, In
  <2> DEFINE more == slots[s] - Cardinality(RunningOn(s))
  <2>2. more \in Int
    BY <2>1 DEF WorldTyped
  <2>3. Max({more, 0}) \in {more, 0} /\ Max({more, 0}) >= 0
    <3> HIDE DEF more
    <3> QED
      BY <2>2, TwoCompared
  <2> QED
    BY <2>2, <2>3
<1>3. cycle' = [pc |-> "plan", avail |-> Avail, items |-> Readable(Avail), cap |-> slots,
                free |-> free, fresh |-> FALSE, todo |-> {}, taken |-> [i \in Items |-> NoHost]]
  BY DEF ReadWork, Resting
<1> HIDE DEF free
<1>4. /\ CycleTyped' /\ cycle'.pc = "plan" /\ cycle'.items = Readable(Avail)
      /\ \A i \in Items : cycle'.taken[i] = NoHost
  BY <1>1, <1>2, <1>3 DEF CycleTyped, WorldTyped
<1>5. Taken' = {}
  BY <1>4 DEF Taken
<1>6. PoolTypeOK' /\ WorldTyped'
  BY <1>1 DEF PoolTypeOK, WorldTyped, planVars, envVars
<1>7. PoolIndexed'
  BY <1>1, <1>5 DEF PoolInv, PoolIndexed, Ids, planVars
<1>8. WithinCycle'
  BY <1>4, <1>5 DEF WithinCycle
<1>9. RoomKept'
  <2> SUFFICES ASSUME NEW t \in Parents
               PROVE  Cardinality(PartsOf(t) \cap (In("running")' \cup cycle'.items)) <= MaxParallel
    BY DEF RoomKept, Parents, PartsOf
  <2>1. In("running")' = In("running") /\ cycle'.items = Readable(Avail)
    BY <1>1, <1>4 DEF In, envVars
  <2> QED
    BY <1>1, <2>1, ReadRoom
<1> QED
  BY <1>4, <1>6, <1>7, <1>8, <1>9 DEF PoolInv

LEMMA ClearedPool ==
    ASSUME PoolInv, queue' = [s \in Hosts |-> <<>>], index' = [i \in Items |-> NoHost],
           plannedFor' \subseteq Hosts, since' = since, busyIds' \subseteq Items
    PROVE  PoolTypeOK' /\ PoolIndexed' /\ \A s \in Hosts : Ids(queue'[s]) = {}
<1> USE PoolTypes
<1>1. \A s \in Hosts : queue'[s] = <<>> /\ DOMAIN queue'[s] = {}
  OBVIOUS
<1>2. PoolTypeOK'
  BY EmptySeq DEF PoolTypeOK
<1>3. PoolIndexed'
  BY <1>1, PoolAssumption DEF PoolIndexed, Ids, Taken
<1> QED
  BY <1>1, <1>2, <1>3 DEF Ids

LEMMA NobodyOnlineKeeps == ASSUME PoolInv, NobodyOnline PROVE PoolInv'
<1> USE PoolTypes
<1>1. /\ queue' = [s \in Hosts |-> <<>>] /\ index' = [i \in Items |-> NoHost]
      /\ plannedFor' = {} /\ UNCHANGED <<since, envVars, cycle>> /\ cycle.pc = "rest"
  BY DEF NobodyOnline, Clear
<1>2. PoolTypeOK' /\ PoolIndexed'
  BY <1>1, ClearedPool DEF PoolTypeOK, envVars
<1>3. CycleTyped' /\ WorldTyped'
  BY <1>1 DEF CycleTyped, WorldTyped, envVars
<1>4. WithinCycle'
  BY <1>1 DEF PoolInv, WithinCycle, Taken
<1>5. RoomKept'
  BY <1>1, RoomStays DEF PoolInv, In, envVars
<1> QED
  BY <1>2, <1>3, <1>4, <1>5 DEF PoolInv

LEMMA ReplanKeeps == ASSUME PoolInv, NEW imbalanced \in BOOLEAN, Replan(imbalanced) PROVE PoolInv'
<1> USE PoolTypes
<1>1. PICK p \in Plans(cycle.items, cycle.avail, cycle.free) : StartPhaseA(p, TRUE)
  BY DEF Replan
<1>2. SoundPool(p)
  BY PlansAre DEF CycleTyped
<1>3. /\ cycle.pc = "plan" /\ plannedFor' \subseteq Hosts /\ since' \in 0 .. 2 /\ UNCHANGED envVars
  BY DEF Replan, CycleTyped
<1> QED
  BY <1>1, <1>2, <1>3, PhaseAKeeps

LEMMA MergeNewKeeps == ASSUME PoolInv, MergeNew PROVE PoolInv'
<1> USE PoolTypes
<1>1. PICK p \in Plans(NewWork, cycle.avail, cycle.free) :
        StartPhaseA([s \in Hosts |-> Behind(queue[s], p[s])], TRUE)
  BY DEF MergeNew
<1>2. SoundPool(p) /\ \A s \in Hosts : Ids(p[s]) \subseteq NewWork
  <2>1. NewWork \in SUBSET Items /\ cycle.avail \in SUBSET Hosts
    BY DEF CycleTyped, NewWork
  <2> QED
    BY <2>1, PlansAre
<1>3. SoundPool(queue) /\ \A s \in Hosts : Ids(queue[s]) \subseteq Pooled
  <2>1. \A s \in Hosts : Ids(queue[s]) \subseteq Items
    BY QueueElements DEF PoolTypeOK
  <2>2. \A s \in Hosts : Ids(queue[s]) \subseteq Pooled
    <3>1. \A s \in Hosts, i \in Items : index[i] = s <=> i \in Ids(queue[s])
      BY DEF PoolInv, PoolIndexed
    <3>2. ASSUME NEW s \in Hosts, NEW i \in Ids(queue[s]) PROVE i \in Pooled
      <4>1. i \in Items /\ index[i] = s /\ s # NoHost
        BY <2>1, <3>1, PoolAssumption
      <4> QED
        BY <4>1 DEF Pooled
    <3> QED
      BY <3>2
  <2> QED
    BY <2>2, IndexedPoolSound DEF PoolInv
<1> DEFINE b == [s \in Hosts |-> Behind(queue[s], p[s])]
<1>4. \A s \in Hosts : Sound(b[s]) /\ Ids(b[s]) = Ids(queue[s]) \cup Ids(p[s])
  <2> SUFFICES ASSUME NEW s \in Hosts
               PROVE  Sound(Behind(queue[s], p[s]))
                      /\ Ids(Behind(queue[s], p[s])) = Ids(queue[s]) \cup Ids(p[s])
    BY Zenon
  <2>1. Sound(queue[s]) /\ Sound(p[s]) /\ Ids(queue[s]) \cap Ids(p[s]) = {}
    BY <1>2, <1>3 DEF SoundPool, NewWork
  <2> QED
    BY <2>1, BehindIs
<1>5. DOMAIN b = Hosts /\ b = [s \in Hosts |-> b[s]]
  OBVIOUS
<1>6. StartPhaseA(b, TRUE)
  BY <1>1
<1> HIDE DEF b
<1>7. b \in [Hosts -> Seq(Decision)]
  BY <1>4, <1>5 DEF Sound
<1>8. Apart(b)
  BY <1>2, <1>3, <1>4 DEF SoundPool, Apart, NewWork
<1>9. SoundPool(b)
  BY <1>4, <1>7, <1>8 DEF SoundPool
<1>10. /\ cycle.pc = "plan" /\ plannedFor' \subseteq Hosts /\ since' \in 0 .. 2 /\ UNCHANGED envVars
  BY DEF MergeNew, PoolTypeOK
<1> QED
  BY <1>6, <1>9, <1>10, PhaseAKeeps

LEMMA KeepPlanKeeps == ASSUME PoolInv, KeepPlan PROVE PoolInv'
<1> USE PoolTypes
<1>1. SoundPool(queue)
  BY IndexedPoolSound DEF PoolInv
<1>2. /\ cycle.pc = "plan" /\ plannedFor' \subseteq Hosts /\ since' \in 0 .. 2 /\ UNCHANGED envVars
      /\ StartPhaseA(queue, FALSE)
  BY DEF KeepPlan, PoolTypeOK
<1> QED
  BY <1>1, <1>2, PhaseAKeeps

(* An item is taken out of the queue it is in, for a server. *)
LEMMA TakenFromQueue ==
    ASSUME PoolInv, cycle.pc \in {"pop", "steal"}, NEW s \in Hosts, NEW r \in Hosts, NEW d,
           d \in Ids(queue[r]), cycle.free[s] > 0,
           queue' = [queue EXCEPT ![r] = Without(@, {d})],
           index' = [index EXCEPT ![d] = NoHost],
           cycle' = [cycle EXCEPT !.free[s] = @ - 1, !.taken[d] = s],
           UNCHANGED <<plannedFor, since, envVars>>
    PROVE  PoolInv'
<1> USE PoolTypes
<1>1. /\ queue[r] \in Seq(Decision) /\ d \in Items /\ index[d] = r /\ d \in cycle.items
      /\ Sound(queue[r])
  <2>1. queue[r] \in Seq(Decision)
    BY DEF PoolTypeOK
  <2>2. d \in Items
    BY <2>1, QueueElements
  <2>3. index[d] = r /\ d \in cycle.items
    BY <2>2 DEF PoolInv, PoolIndexed, WithinCycle
  <2>4. Sound(queue[r])
    BY <2>1 DEF PoolInv, PoolIndexed, Sound
  <2> QED
    BY <2>1, <2>2, <2>3, <2>4
<1> DEFINE rest == Without(queue[r], {d})
<1>2. rest \in Seq(Decision) /\ Ids(rest) = Ids(queue[r]) \ {d} /\ Sound(rest)
  BY <1>1, WithoutIs
<1>3. queue' \in [Hosts -> Seq(Decision)] /\ queue'[r] = rest /\ \A q \in Hosts \ {r} : queue'[q] = queue[q]
  <2>1. queue' = [queue EXCEPT ![r] = rest]
    OBVIOUS
  <2> HIDE DEF rest
  <2> QED
    BY <1>2, <2>1 DEF PoolTypeOK
<1> HIDE DEF rest
<1>4. /\ index' \in [Items -> Hosts \cup {NoHost}] /\ index'[d] = NoHost
      /\ \A i \in Items \ {d} : index'[i] = index[i]
  BY <1>1 DEF PoolTypeOK
<1>5. /\ CycleTyped' /\ cycle'.pc = cycle.pc /\ cycle'.items = cycle.items
      /\ cycle'.taken[d] = s /\ \A i \in Items \ {d} : cycle'.taken[i] = cycle.taken[i]
  <2>1. cycle.free \in [Hosts -> Nat] /\ cycle.free[s] - 1 \in Nat /\ cycle.taken \in [Items -> Hosts \cup {NoHost}]
    BY DEF CycleTyped
  <2> DEFINE free  == [cycle.free EXCEPT ![s] = cycle.free[s] - 1]
             taken == [cycle.taken EXCEPT ![d] = s]
  <2>2. /\ free \in [Hosts -> Nat] /\ taken \in [Items -> Hosts \cup {NoHost}]
        /\ taken[d] = s /\ \A i \in Items \ {d} : taken[i] = cycle.taken[i]
    BY <1>1, <2>1
  <2>3. cycle' = [cycle EXCEPT !.free = free, !.taken = taken]
    BY DEF CycleTyped
  <2> HIDE DEF free, taken
  <2>4. /\ CycleTyped' /\ cycle'.pc = cycle.pc /\ cycle'.items = cycle.items /\ cycle'.taken = taken
    BY <2>2, <2>3 DEF CycleTyped
  <2> QED
    BY <2>2, <2>4
<1>6. Taken' = Taken \cup {d}
  BY <1>1, <1>5, PoolAssumption DEF Taken
<1>7. PoolTypeOK' /\ WorldTyped'
  BY <1>3, <1>4 DEF PoolTypeOK, WorldTyped, envVars
<1>8. PoolIndexed'
  <2>1. \A q \in Hosts, i \in Items : index[i] = q <=> i \in Ids(queue[q])
    BY DEF PoolInv, PoolIndexed
  <2>2. ASSUME NEW q \in Hosts, NEW i \in Items PROVE index'[i] = q <=> i \in Ids(queue'[q])
    <3>1. CASE i = d
      BY <3>1, <1>1, <1>2, <1>3, <1>4, <2>1, PoolAssumption
    <3>2. CASE i # d
      BY <3>2, <1>1, <1>2, <1>3, <1>4, <2>1
    <3> QED
      BY <3>1, <3>2
  <2>3. \A q \in Hosts : \A j, k \in DOMAIN queue'[q] : queue'[q][j].id = queue'[q][k].id => j = k
    BY <1>2, <1>3 DEF PoolInv, PoolIndexed, Sound
  <2>4. \A i \in Taken' : index'[i] = NoHost
    BY <1>4, <1>6 DEF PoolInv, PoolIndexed, Taken
  <2> QED
    BY <2>2, <2>3, <2>4 DEF PoolIndexed, Ids
<1>9. WithinCycle'
  <2>1. Taken \subseteq cycle.items /\ \A q \in Hosts : Ids(queue[q]) \subseteq cycle.items
    BY DEF PoolInv, WithinCycle
  <2>2. \A q \in Hosts : Ids(queue'[q]) \subseteq cycle'.items
    BY <1>2, <1>3, <1>5, <2>1
  <2>3. Taken' \subseteq cycle'.items
    BY <1>1, <1>5, <1>6, <2>1
  <2> QED
    BY <1>5, <2>2, <2>3 DEF WithinCycle, Ids
<1>10. RoomKept'
  BY <1>5, RoomStays DEF PoolInv, In, envVars
<1> QED
  BY <1>5, <1>7, <1>8, <1>9, <1>10 DEF PoolInv

(* Where a queue is popped there is a decision. *)
LEMMA PopAtElement ==
    ASSUME NEW q \in Seq(Decision), NEW fut, Poppable(q, fut)
    PROVE  PopAt(q) \in DOMAIN q
<1>1. DOMAIN q = 1 .. Len(q) /\ Len(q) \in Nat /\ (q # <<>> => Len(q) # 0)
  BY QueueElements, EmptySeq
<1>2. CASE Nows(q) # {}
  <2> DEFINE T == Nows(q)
  <2>1. T \in SUBSET Nat /\ T # {} /\ T \subseteq DOMAIN q
    BY <1>1, <1>2 DEF Nows
  <2> HIDE DEF T
  <2>4. Min(T) \in T
    BY <2>1, LeastNumber
  <2>5. PopAt(q) = Min(T)
    BY <1>2 DEF PopAt, T
  <2> QED
    BY <2>1, <2>4, <2>5
<1>3. CASE Nows(q) = {}
  BY <1>1, <1>3 DEF Poppable, PopAt
<1> QED
  BY <1>2, <1>3

LEMMA PopHeadKeeps == ASSUME PoolInv, NEW s \in Hosts, PopHead(s) PROVE PoolInv'
<1> USE PoolTypes
<1> DEFINE d == queue[s][PopAt(queue[s])].id
<1>1. CASE host[s] = "blocked"
  <2>1. /\ cycle' = [cycle EXCEPT !.todo = cycle.todo \ {s}]
        /\ UNCHANGED <<queue, index, plannedFor, since, envVars>>
    BY <1>1 DEF PopHead
  <2>2. /\ CycleTyped' /\ cycle'.pc = cycle.pc /\ cycle'.items = cycle.items
        /\ cycle'.taken = cycle.taken
    BY <2>1 DEF CycleTyped
  <2>3. PoolTypeOK' /\ WorldTyped'
    BY <2>1 DEF PoolTypeOK, WorldTyped, envVars
  <2>4. PoolIndexed' /\ WithinCycle'
    BY <2>1, <2>2 DEF PoolInv, PoolIndexed, WithinCycle, Taken, Ids
  <2>5. RoomKept'
    BY <2>1, <2>2, RoomStays DEF PoolInv, In, envVars
  <2> QED
    BY <2>2, <2>3, <2>4, <2>5 DEF PoolInv
<1>2. CASE host[s] # "blocked"
  <2>1. queue[s] \in Seq(Decision) /\ Poppable(queue[s], ~cycle.fresh)
    BY DEF PopHead, PoolTypeOK
  <2>2. d \in Ids(queue[s])
    BY <2>1, PopAtElement DEF Ids
  <2>3. /\ cycle.pc \in {"pop", "steal"} /\ cycle.free[s] > 0
        /\ queue' = [queue EXCEPT ![s] = Without(@, {d})]
        /\ index' = [index EXCEPT ![d] = NoHost]
        /\ cycle' = [cycle EXCEPT !.free[s] = @ - 1, !.taken[d] = s]
        /\ UNCHANGED <<plannedFor, since, envVars>>
    BY <1>2 DEF PopHead
  <2> HIDE DEF d
  <2> QED
    BY <2>2, <2>3, TakenFromQueue
<1> QED
  BY <1>1, <1>2

LEMMA StartStealingKeeps == ASSUME PoolInv, StartStealing PROVE PoolInv'
<1> USE PoolTypes
<1>1. cycle' = [cycle EXCEPT !.pc = "steal", !.todo = cycle.avail] /\ UNCHANGED <<planVars, envVars>>
      /\ cycle.pc = "pop"
  BY DEF StartStealing
<1>2. /\ CycleTyped' /\ cycle'.pc = "steal" /\ cycle'.items = cycle.items
      /\ cycle'.taken = cycle.taken
  BY <1>1 DEF CycleTyped
<1>3. PoolTypeOK' /\ WorldTyped'
  BY <1>1 DEF PoolTypeOK, WorldTyped, planVars, envVars
<1>4. PoolIndexed' /\ WithinCycle'
  BY <1>1, <1>2 DEF PoolInv, PoolIndexed, WithinCycle, Taken, Ids, planVars
<1>5. RoomKept'
  BY <1>1, <1>2, RoomStays DEF PoolInv, In, envVars
<1> QED
  BY <1>2, <1>3, <1>4, <1>5 DEF PoolInv

LEMMA StealKeeps == ASSUME PoolInv, NEW s \in Hosts, NEW i \in Items, Steal(s, i) PROVE PoolInv'
<1> USE PoolTypes
<1>1. PICK r \in cycle.avail \ {s} : i \in Tail3(queue[r])
  BY DEF Steal, StealFrom
<1>2. r \in Hosts /\ i \in Ids(queue[r])
  BY <1>1 DEF CycleTyped, Tail3, Ids
<1>3. index[i] = r
  BY <1>2 DEF PoolInv, PoolIndexed
<1>4. /\ cycle.pc \in {"pop", "steal"} /\ cycle.free[s] > 0
      /\ queue' = [queue EXCEPT ![r] = Without(@, {i})]
      /\ index' = [index EXCEPT ![i] = NoHost]
      /\ cycle' = [cycle EXCEPT !.free[s] = @ - 1, !.taken[i] = s]
      /\ UNCHANGED <<plannedFor, since, envVars>>
  BY <1>3 DEF Steal
<1> QED
  BY <1>2, <1>4, TakenFromQueue

LEMMA RowStarted ==
    ASSUME NEW row \in [st: {"absent", "waiting", "running", "over"}, host: Hosts \cup {NoHost}, tries: Nat],
           NEW on \in Hosts \cup {NoHost}
    PROVE  [row EXCEPT !.st = "running", !.host = on, !.tries = @ + 1]
             \in [st: {"absent", "waiting", "running", "over"}, host: Hosts \cup {NoHost}, tries: Nat]
<1>1. row.tries + 1 \in Nat
  OBVIOUS
<1> DEFINE n == row.tries + 1
<1> HIDE DEF n
<1>2. [row EXCEPT !.st = "running", !.host = on, !.tries = n]
        \in [st: {"absent", "waiting", "running", "over"}, host: Hosts \cup {NoHost}, tries: Nat]
  BY <1>1 DEF n
<1> QED
  BY <1>2 DEF n

LEMMA EndCycleKeeps == ASSUME PoolInv, EndCycle PROVE PoolInv'
<1> USE PoolTypes
<1>1. /\ cycle' = Resting /\ UNCHANGED <<host, slots, changes>> /\ cycle.pc = "steal"
  BY DEF EndCycle
<1>2. /\ CycleTyped' /\ cycle'.pc = "rest" /\ cycle'.items = {}
      /\ \A i \in Items : cycle'.taken[i] = NoHost
  BY <1>1 DEF CycleTyped, Resting
<1>3. Taken' = {}
  BY <1>2 DEF Taken
<1>4. WithinCycle'
  BY <1>2, <1>3 DEF WithinCycle
<1>5. Taken \subseteq cycle.items /\ Taken \subseteq Items
  BY <1>1 DEF PoolInv, WithinCycle, Taken
<1> SUFFICES PoolTypeOK' /\ PoolIndexed' /\ WorldTyped' /\ RoomKept'
  BY <1>2, <1>4 DEF PoolInv
<1>6. ASSUME UNCHANGED <<planVars, work, busyIds>>
      PROVE  PoolTypeOK' /\ PoolIndexed' /\ WorldTyped' /\ RoomKept'
  <2>1. PoolTypeOK' /\ WorldTyped'
    BY <1>1, <1>6 DEF PoolTypeOK, WorldTyped, planVars
  <2>2. PoolIndexed'
    BY <1>3, <1>6 DEF PoolInv, PoolIndexed, Ids, planVars
  <2>3. RoomKept'
    BY <1>2, <1>6, RoomStays DEF PoolInv, In
  <2> QED
    BY <2>1, <2>2, <2>3
<1>7. ASSUME Clear(FALSE), UNCHANGED <<since, work, busyIds>>
      PROVE  PoolTypeOK' /\ PoolIndexed' /\ WorldTyped' /\ RoomKept'
  <2>1. PoolTypeOK' /\ PoolIndexed'
    <3>1. /\ queue' = [s \in Hosts |-> <<>>] /\ index' = [i \in Items |-> NoHost]
          /\ plannedFor' = plannedFor /\ since' = since /\ busyIds' = busyIds
      BY <1>7 DEF Clear
    <3> QED
      BY <3>1, ClearedPool DEF PoolTypeOK
  <2>2. WorldTyped'
    BY <1>1, <1>7 DEF WorldTyped
  <2>3. RoomKept'
    BY <1>2, <1>7, RoomStays DEF PoolInv, In
  <2> QED
    BY <2>1, <2>2, <2>3
<1>8. ASSUME work' = [i \in Items |-> IF i \in Taken
                       THEN [work[i] EXCEPT !.st = "running", !.host = cycle.taken[i], !.tries = @ + 1]
                       ELSE work[i]],
             busyIds' = busyIds \cup Taken, UNCHANGED planVars
      PROVE  PoolTypeOK' /\ PoolIndexed' /\ WorldTyped' /\ RoomKept'
  <2>0. UNCHANGED <<queue, index, plannedFor, since>>
    BY <1>8 DEF planVars
  <2>1. PoolTypeOK'
    BY <1>5, <1>8, <2>0 DEF PoolTypeOK
  <2>2. PoolIndexed'
    BY <1>3, <2>0 DEF PoolInv, PoolIndexed, Ids
  <2>3. WorldTyped'
    <3> DEFINE Row == [st: {"absent", "waiting", "running", "over"}, host: Hosts \cup {NoHost}, tries: Nat]
    <3>1. ASSUME NEW i \in Items PROVE work'[i] \in Row
      <4>1. work[i] \in Row /\ cycle.taken[i] \in Hosts \cup {NoHost}
        BY DEF WorldTyped, CycleTyped
      <4>2. [work[i] EXCEPT !.st = "running", !.host = cycle.taken[i], !.tries = @ + 1] \in Row
        BY <4>1, RowStarted
      <4> QED
        BY <1>8, <4>1, <4>2
    <3>2. work' = [i \in Items |-> work'[i]]
      BY <1>8
    <3> HIDE DEF Row
    <3>3. work' \in [Items -> Row]
      BY <3>1, <3>2
    <3> QED
      BY <1>1, <3>3 DEF WorldTyped, Row
  <2>4. In("running")' \subseteq In("running") \cup Taken
    BY <1>8 DEF In
  <2>5. RoomKept'
    BY <1>2, <1>5, <2>4, RoomStays DEF PoolInv
  <2> QED
    BY <2>1, <2>2, <2>3, <2>5
<1> QED
  BY <1>6, <1>7, <1>8 DEF EndCycle

-----------------------------------------------------------------------------
(* What happens beside the cycle changes neither the plan nor what the cycle *)
(* has read, and starts nothing.                                             *)

LEMMA BesideKeeps ==
    ASSUME PoolInv, UNCHANGED <<queue, index, plannedFor, cycle>>, since' \in 0 .. 2,
           busyIds' \subseteq Items, WorldTyped', In("running")' \subseteq In("running")
    PROVE  PoolInv'
<1> USE PoolTypes
<1>1. PoolTypeOK'
  BY DEF PoolTypeOK
<1>2. CycleTyped'
  BY DEF CycleTyped
<1>3. PoolIndexed' /\ WithinCycle'
  BY DEF PoolInv, PoolIndexed, WithinCycle, Taken, Ids
<1>4. RoomKept'
  BY RoomStays DEF PoolInv
<1> QED
  BY <1>1, <1>2, <1>3, <1>4 DEF PoolInv

LEMMA RowSet ==
    ASSUME WorldTyped, NEW i \in Items, NEW st \in {"waiting", "over"},
           work' = [work EXCEPT ![i].st = st], host' = host, slots' = slots, changes' \in Nat
    PROVE  WorldTyped' /\ In("running")' \subseteq In("running")
<1>1. /\ DOMAIN work' = Items /\ work'[i] = [work[i] EXCEPT !.st = st]
      /\ \A j \in Items \ {i} : work'[j] = work[j]
  BY DEF WorldTyped
<1>2. WorldTyped'
  BY DEF WorldTyped
<1>3. In("running")' \subseteq In("running")
  BY <1>1 DEF In, WorldTyped
<1> QED
  BY <1>2, <1>3

LEMMA BesideStep ==
    ASSUME PoolInv,
           \/ TimePasses
           \/ \E i \in Items : Arrive(i) \/ Settle(i) \/ Unmark(i) \/ Cancel(i)
           \/ \E s \in Hosts : LowerSlots(s) \/ \E h \in {"ready", "blocked", "away"} : HostChanges(s, h)
    PROVE  PoolInv'
<1> USE PoolTypes
<1>1. CASE TimePasses
  <2>1. since' \in 0 .. 2 /\ UNCHANGED <<queue, index, plannedFor, envVars, cycle>>
    BY <1>1 DEF TimePasses, PoolTypeOK
  <2>2. WorldTyped' /\ In("running")' = In("running") /\ busyIds' \subseteq Items
    BY <2>1 DEF WorldTyped, In, envVars, PoolTypeOK
  <2> QED
    BY <2>1, <2>2, BesideKeeps
<1>2. ASSUME NEW i \in Items, Arrive(i) PROVE PoolInv'
  <2>1. UNCHANGED <<queue, index, plannedFor, since, busyIds, host, slots, changes, cycle>>
    BY <1>2 DEF Arrive, planVars
  <2>2. /\ DOMAIN work' = Items /\ work' = [j \in Items |-> work'[j]]
        /\ \A j \in Items : work'[j] = work[j] \/ work'[j] = [work[j] EXCEPT !.st = "waiting"]
    BY <1>2 DEF Arrive
  <2>3. In("running")' \subseteq In("running")
    BY <2>2 DEF In, WorldTyped
  <2>4. WorldTyped'
    <3> DEFINE Row == [st: {"absent", "waiting", "running", "over"}, host: Hosts \cup {NoHost}, tries: Nat]
    <3>1. \A j \in Items : work[j] \in Row
      BY DEF WorldTyped
    <3>2. \A j \in Items : work'[j] \in Row
      BY <2>2, <3>1
    <3> HIDE DEF Row
    <3>3. work' \in [Items -> Row]
      BY <2>2, <3>2
    <3> QED
      BY <2>1, <3>3 DEF WorldTyped, Row
  <2> QED
    BY <2>1, <2>3, <2>4, BesideKeeps DEF PoolTypeOK
<1>3. ASSUME NEW i \in Items, Settle(i) PROVE PoolInv'
  <2>1. /\ UNCHANGED <<queue, index, plannedFor, since, host, slots, changes, cycle>>
        /\ busyIds' \subseteq busyIds
        /\ \/ work' = [work EXCEPT ![i].st = "over"]
           \/ work' = [work EXCEPT ![i].st = "waiting"]
    BY <1>3 DEF Settle, planVars
  <2>2. WorldTyped' /\ In("running")' \subseteq In("running")
    BY <2>1, RowSet DEF WorldTyped
  <2> QED
    BY <2>1, <2>2, BesideKeeps DEF PoolTypeOK
<1>4. ASSUME NEW i \in Items, Unmark(i) PROVE PoolInv'
  <2>1. /\ UNCHANGED <<queue, index, plannedFor, since, work, host, slots, changes, cycle>>
        /\ busyIds' \subseteq busyIds
    BY <1>4 DEF Unmark, planVars
  <2>2. WorldTyped' /\ In("running")' \subseteq In("running")
    BY <2>1 DEF WorldTyped, In
  <2> QED
    BY <2>1, <2>2, BesideKeeps DEF PoolTypeOK
<1>5. ASSUME NEW i \in Items, Cancel(i) PROVE PoolInv'
  <2>1. /\ UNCHANGED <<queue, index, plannedFor, since, host, slots, cycle>>
        /\ busyIds' \subseteq busyIds /\ changes' \in Nat
        /\ work' = [work EXCEPT ![i].st = "over"]
    BY <1>5 DEF Cancel, planVars, WorldTyped
  <2>2. WorldTyped' /\ In("running")' \subseteq In("running")
    BY <2>1, RowSet
  <2> QED
    BY <2>1, <2>2, BesideKeeps DEF PoolTypeOK
<1>6. ASSUME NEW s \in Hosts, LowerSlots(s) PROVE PoolInv'
  <2>1. /\ UNCHANGED <<queue, index, plannedFor, since, work, busyIds, host, cycle>>
        /\ slots' \in [Hosts -> Nat \ {0}] /\ changes' \in Nat
    BY <1>6 DEF LowerSlots, planVars, WorldTyped
  <2>2. WorldTyped' /\ In("running")' \subseteq In("running")
    BY <2>1 DEF WorldTyped, In
  <2> QED
    BY <2>1, <2>2, BesideKeeps DEF PoolTypeOK
<1>7. ASSUME NEW s \in Hosts, NEW h \in {"ready", "blocked", "away"}, HostChanges(s, h) PROVE PoolInv'
  <2>1. /\ UNCHANGED <<queue, index, plannedFor, since, work, busyIds, slots, cycle>>
        /\ host' \in [Hosts -> {"ready", "blocked", "away"}] /\ changes' \in Nat
    BY <1>7 DEF HostChanges, planVars, WorldTyped
  <2>2. WorldTyped' /\ In("running")' \subseteq In("running")
    BY <2>1 DEF WorldTyped, In
  <2> QED
    BY <2>1, <2>2, BesideKeeps DEF PoolTypeOK
<1> QED
  BY <1>1, <1>2, <1>3, <1>4, <1>5, <1>6, <1>7

LEMMA NextPool == PoolInv /\ [PoolNext]_poolVars => PoolInv'
<1> SUFFICES ASSUME PoolInv, [PoolNext]_poolVars PROVE PoolInv'
  OBVIOUS
<1>1. CASE UNCHANGED poolVars
  <2>1. UNCHANGED <<queue, index, plannedFor, since, work, busyIds, host, slots, changes, cycle>>
    BY <1>1 DEF poolVars
  <2>2. WorldTyped' /\ In("running")' \subseteq In("running")
    BY <2>1 DEF PoolInv, WorldTyped, In
  <2> QED
    BY <2>1, <2>2, BesideKeeps DEF PoolInv, PoolTypeOK
<1>2. CASE CycleStep
  BY <1>2, ReadWorkKeeps, NobodyOnlineKeeps, MergeNewKeeps, KeepPlanKeeps, StartStealingKeeps,
     EndCycleKeeps, ReplanKeeps, PopHeadKeeps, StealKeeps DEF CycleStep
<1> QED
  BY <1>1, <1>2, BesideStep DEF PoolNext

-----------------------------------------------------------------------------

THEOREM PoolInvAlways == PoolSpec => []PoolInv
  BY InitPool, NextPool, PTL DEF PoolSpec

(* The queues, their index and what is remembered of the last replan keep    *)
(* their types, in every state of the dispatcher and its surroundings.       *)
THEOREM PoolTypeCorrect == PoolSpec => []PoolTypeOK
  BY PoolInvAlways, PTL DEF PoolInv

(* An item is in the one queue that the index names, once, and what a cycle *)
(* has taken is in none: no item is started from two queues, and none counts *)
(* as planned that is in no queue.                                           *)
THEOREM IndexedAlways == PoolSpec => []PoolIndexed
  BY PoolInvAlways, PTL DEF PoolInv

LEMMA LimitFollows == PoolInv => ParallelWithinLimit
<1> SUFFICES ASSUME PoolInv, NEW t \in Parents
             PROVE  Cardinality(PartsOf(t) \cap In("running")) <= MaxParallel
  BY DEF ParallelWithinLimit
<1> DEFINE A == In("running") \cup cycle.items
           B == In("running")
<1>1. Cardinality(PartsOf(t) \cap A) <= MaxParallel /\ B \in SUBSET A
  BY DEF PoolInv, RoomKept
<1> HIDE DEF A, B
<1>2. Cardinality(PartsOf(t) \cap B) <= Cardinality(PartsOf(t) \cap A)
  BY <1>1, PartsFinite
<1>3. Cardinality(PartsOf(t) \cap B) \in Nat /\ Cardinality(PartsOf(t) \cap A) \in Nat
  BY PartsFinite
<1>4. Cardinality(PartsOf(t) \cap B) <= MaxParallel
  BY <1>1, <1>2, <1>3, PoolAssumption
<1> QED
  BY <1>4 DEF B

(* No task ever has more segments on servers than it may have at a time, *)
(* although a cycle counts them when it reads the work and starts them    *)
(* later, and whatever was merged, put back or stolen in between.         *)
THEOREM WithinLimitAlways == PoolSpec => []ParallelWithinLimit
  BY PoolInvAlways, LimitFollows, PTL

-----------------------------------------------------------------------------
(* BatchScheduler: the quotas. *)

Asked == profile' \in [Machines -> Profiles]

LEMMA ProfileValues ==
    ASSUME NEW p \in Profiles
    PROVE  p.limit \in Nat \ {0} /\ p.running \in Nat /\ p.rtf \in Nat \ {0}
  BY SchedulerAssumption

LEMMA TotalIsSum ==
    ASSUME NEW f, NEW S, f = [x \in S |-> f[x]]
    PROVE  Total(f) = SumOn(f, S)
<1>1. DOMAIN f = S
  OBVIOUS
<1>2. Total(f) = FoldFunctionOnSet(+, 0, f, DOMAIN f)
  BY Zenon DEF Total, FoldFunction
<1> QED
  BY <1>1, <1>2, SumIsFold

(* All speeds are positive. *)
LEMMA Speeds ==
    ASSUME Asked
    PROVE  \A h \in Machines : Speed(h) \in Nat \ {0}
<1> DEFINE scale == FoldOf("product", profile', Machines)
<1>1. DOMAIN profile' = Machines /\ \A h \in Machines : profile'[h] \in Profiles
  BY DEF Asked
<1>2. Scale = scale
  <2>1. Scale = FoldOf("product", profile', DOMAIN profile')
    BY Zenon DEF Scale, FoldFunction, FoldFunctionOnSet, MapThenFoldSet, FoldOf, IsFold, FoldStep,
                 FoldBase, Chosen
  <2> QED
    BY <1>1, <2>1
<1>3. scale \in Nat \ {0} /\ \A h \in Machines : profile'[h].rtf <= scale
  BY <1>1, ProfileValues, ProductAbove, SchedulerAssumption
<1> HIDE DEF scale
<1> SUFFICES ASSUME NEW h \in Machines PROVE Speed(h) \in Nat \ {0}
  OBVIOUS
<1> DEFINE limit == profile'[h].limit
           rtf   == profile'[h].rtf
           part  == scale \div rtf
<1>4. limit \in Nat \ {0} /\ rtf \in Nat \ {0} /\ rtf <= scale
  BY <1>1, <1>3, ProfileValues
<1>5. Speed(h) = limit * part
  BY <1>2 DEF Speed
<1> HIDE DEF limit, rtf
<1>6. part \in Nat \ {0}
  BY <1>3, <1>4
<1> HIDE DEF part
<1>7. limit * part \in Nat \ {0}
  BY <1>4, <1>6, Products
<1> QED
  BY <1>5, <1>7

LEMMA Rounded ==
    ASSUME NEW a \in Nat, NEW b \in Nat \ {0}
    PROVE  RoundHalfEven(a, b) \in Nat
<1>1. a \div b \in Nat
  OBVIOUS
<1> QED
  BY <1>1 DEF RoundHalfEven

LEMMA SharesAre ==
    ASSUME Asked, NEW n \in Nat
    PROVE  Shares(n) \in [Machines -> Nat]
<1> DEFINE f == [h \in Machines |-> Speed(h)]
           all == Total(f)
<1>1. IsFiniteSet(Machines) /\ \A h \in Machines : f[h] \in Nat \ {0}
  BY Speeds, SchedulerAssumption
<1>2. all = SumOn(f, Machines)
  <2> HIDE DEF f
  <2>1. f = [h \in Machines |-> f[h]]
    BY DEF f
  <2> QED
    BY <2>1, TotalIsSum
<1>3. all \in Nat \ {0}
  <2>1. PICK h \in Machines : TRUE
    BY SchedulerAssumption
  <2> DEFINE rest == Machines \ {h}
             zero == [x \in rest |-> 0]
  <2>2. IsFiniteSet(rest) /\ \A x \in rest : f[x] \in Nat
    BY <1>1, FS_Subset
  <2>3. SumOn(f, Machines) = f[h] + SumOn(f, rest)
    <3> HIDE DEF f
    <3> QED
      BY <1>1, <2>1, SumIs
  <2>4. SumOn(f, rest) \in Int
    <3> HIDE DEF f, rest
    <3> QED
      BY <2>2, SumIs
  <2>5. SumOn(zero, rest) = 0
    <3>1. \A x \in rest : zero[x] = 0
      OBVIOUS
    <3> HIDE DEF zero, rest
    <3> QED
      BY <2>2, <3>1, SumOfNothing
  <2>6. SumOn(zero, rest) <= SumOn(f, rest)
    <3>1. \A x \in rest : zero[x] \in Int /\ f[x] \in Int /\ zero[x] <= f[x]
      BY <2>2
    <3> HIDE DEF zero, rest, f
    <3> QED
      BY <2>2, <3>1, SumBelow
  <2>7. f[h] \in Nat \ {0}
    BY <1>1
  <2> HIDE DEF f, all
  <2> QED
    BY <1>2, <2>3, <2>4, <2>5, <2>6, <2>7
<1>4. ASSUME NEW h \in Machines PROVE RoundHalfEven(n * Speed(h), all) \in Nat
  <2>1. n * Speed(h) \in Nat
    BY Speeds, Products
  <2> HIDE DEF all
  <2> QED
    BY <1>3, <2>1, Rounded
<1> QED
  BY <1>4 DEF Shares

LEMMA FastestIsOne ==
    ASSUME Asked
    PROVE  Fastest \in Machines
<1> DEFINE f == [h \in Machines |-> Speed(h)]
<1>1. \A h \in Machines : f[h] \in Int /\ f[h] = Speed(h)
  BY Speeds
<1>2. PICK x \in Machines : \A y \in Machines : f[y] <= f[x]
  <2> HIDE DEF f
  <2> QED
    BY <1>1, Greatest, SchedulerAssumption
<1> DEFINE T == {h \in Machines : f[h] = f[x]}
           id == [h \in T |-> h]
<1>3. T # {} /\ \A h \in T : id[h] \in Nat
  BY SchedulerAssumption
<1>4. PICK m \in T : \A k \in T : id[m] <= id[k]
  <2> HIDE DEF T, id
  <2> QED
    BY <1>3, Least
<1>5. \A k \in Machines : Speed(m) > Speed(k) \/ (Speed(m) = Speed(k) /\ m <= k)
  <2> SUFFICES ASSUME NEW k \in Machines, ~ (Speed(m) > Speed(k))
               PROVE  Speed(m) = Speed(k) /\ m <= k
    OBVIOUS
  <2>1. m \in Machines /\ f[m] = f[x] /\ f[k] <= f[x] /\ f[k] \in Int /\ f[m] \in Int
    BY <1>1, <1>2
  <2>2. f[k] = f[x]
    BY <1>1, <2>1
  <2>3. k \in T
    BY <2>2
  <2> QED
    BY <1>1, <1>4, <2>1, <2>2, <2>3
<1> QED
  BY <1>5 DEF Fastest

(* Of any machines one is faster than all others. *)
LEMMA OneIsLast ==
    ASSUME Asked, NEW T \in SUBSET Machines, T # {}
    PROVE  \E x \in T : \A y \in T \ {x} : Slower(y, x) /\ ~ Slower(x, y)
<1> DEFINE f == [h \in Machines |-> Speed(h)]
<1>0. IsFiniteSet(T) /\ \A S \in SUBSET T : IsFiniteSet(S)
  BY FS_Subset, SchedulerAssumption
<1>1. \A h \in T : f[h] \in Int /\ f[h] = Speed(h)
  BY Speeds
<1>2. PICK x \in T : \A y \in T : f[y] <= f[x]
  <2> HIDE DEF f
  <2> QED
    BY <1>0, <1>1, Greatest
<1> DEFINE S == {h \in T : f[h] = f[x]}
           id == [h \in S |-> h]
<1>3. S # {} /\ S \subseteq T
  OBVIOUS
<1>6. IsFiniteSet(S) /\ \A h \in S : id[h] \in Int
  <2>1. IsFiniteSet(S)
    BY <1>0
  <2>2. \A h \in S : h \in Int
    BY SchedulerAssumption
  <2> QED
    BY <2>1, <2>2
<1>4. PICK m \in S : \A k \in S : id[k] <= id[m]
  <2> HIDE DEF S, id
  <2> QED
    BY <1>3, <1>6, Greatest
<1>5. ASSUME NEW y \in T \ {m} PROVE Slower(y, m) /\ ~ Slower(m, y)
  <2>1. /\ m \in T /\ f[m] = f[x] /\ f[y] <= f[x] /\ f[y] \in Int /\ f[x] \in Int
        /\ f[y] = Speed(y) /\ f[m] = Speed(m) /\ y \in Nat /\ m \in Nat /\ y # m
    BY <1>1, <1>2, SchedulerAssumption
  <2>2. CASE f[y] = f[x]
    <3>1. y <= m
      BY <1>4, <2>2
    <3> HIDE DEF f
    <3> QED
      BY <2>1, <2>2, <3>1 DEF Slower
  <2>3. CASE f[y] # f[x]
    <3> HIDE DEF f
    <3> QED
      BY <2>1, <2>3 DEF Slower
  <2> QED
    BY <2>2, <2>3
<1> QED
  BY <1>3, <1>5

Under(T, h) == {m \in T : Slower(m, h)}

(* What is taken back of a share e too many in all, from the slowest of T on. *)
Cut(share, e, T, h) == Min({share[h], Max({e - SumOn(share, Under(T, h)), 0})})

LEMMA CutIs ==
    ASSUME NEW share \in [Machines -> Nat], NEW e \in Nat, NEW T \in SUBSET Machines, NEW h \in T
    PROVE  Cut(share, e, T, h) \in Nat /\ Cut(share, e, T, h) <= share[h]
<1> DEFINE u == SumOn(share, Under(T, h))
           d == e - u
           m == Max({d, 0})
           a == share[h]
<1>1. u \in Nat
  <2>1. IsFiniteSet(Under(T, h))
    BY FS_Subset, SchedulerAssumption DEF Under
  <2>2. \A x \in Under(T, h) : share[x] \in Nat
    BY DEF Under
  <2> QED
    BY <2>1, <2>2, SumIsNat
<1>2. a \in Nat
  OBVIOUS
<1>3. d \in Int
  <2> HIDE DEF u
  <2> QED
    BY <1>1
<1>4. m \in Nat
  <2> HIDE DEF d
  <2> QED
    BY <1>3, TwoCompared
<1>5. Min({a, m}) = IF a <= m THEN a ELSE m
  <2> HIDE DEF a, m
  <2>1. a \in Int /\ m \in Int
    BY <1>2, <1>4
  <2> QED
    BY <2>1, TwoCompared
<1>6. Cut(share, e, T, h) = Min({a, m})
  BY DEF Cut
<1> HIDE DEF a, m
<1>7. Cut(share, e, T, h) \in Nat /\ Cut(share, e, T, h) <= a
  BY <1>2, <1>4, <1>5, <1>6
<1> QED
  BY <1>7 DEF a

(* Nothing is taken twice and, as long as there are shares, all that is too many. *)
LEMMA CutsSum ==
    ASSUME Asked, NEW share \in [Machines -> Nat], NEW e \in Nat
    PROVE  \A T \in SUBSET Machines :
             SumOn([h \in T |-> Cut(share, e, T, h)], T) = Min({SumOn(share, T), e})
<1> DEFINE C(T) == [h \in T |-> Cut(share, e, T, h)]
           Good == {T \in SUBSET Machines : SumOn(C(T), T) = Min({SumOn(share, T), e})}
<1>0. IsFiniteSet(Machines) /\ \A T \in SUBSET Machines : IsFiniteSet(T)
  BY SchedulerAssumption, FS_Subset
<1>1. \A T \in SUBSET Machines : SumOn(share, T) \in Nat
  BY <1>0, SumIsNat
<1>2. ASSUME NEW T \in SUBSET Machines, NEW h \in T
      PROVE  Cut(share, e, T, h) \in Nat
  BY CutIs
<1>3. ASSUME NEW T \in SUBSET Machines, \A U \in SUBSET T : U # T => U \in Good
      PROVE  T \in Good
  <2>1. CASE T = {}
    <3>1. SumOn(C(T), T) = 0 /\ SumOn(share, T) = 0
      <4> HIDE DEF C
      <4> QED
        BY <1>0, <2>1, SumUnfolds
    <3>2. Min({0, e}) = 0
      <4> DEFINE z == 0
      <4>1. z \in Int /\ e \in Int /\ z = 0
        OBVIOUS
      <4> HIDE DEF z
      <4>2. Min({z, e}) = IF z <= e THEN z ELSE e
        BY <4>1, TwoCompared
      <4> QED
        BY <4>1, <4>2
    <3> QED
      BY <3>1, <3>2
  <2>2. CASE T # {}
    <3>1. PICK x \in T : \A y \in T \ {x} : Slower(y, x) /\ ~ Slower(x, y)
      BY <2>2, OneIsLast
    <3> DEFINE R == T \ {x}
    <3>2. SumOn(C(R), R) = Min({SumOn(share, R), e}) /\ R \in SUBSET Machines /\ IsFiniteSet(R)
      BY <1>0, <1>3, <3>1
    <3>3. ~ Slower(x, x)
      <4>1. Speed(x) \in Nat /\ x \in Nat
        BY Speeds, SchedulerAssumption
      <4> QED
        BY <4>1 DEF Slower
    <3>4. Under(T, x) = R /\ \A y \in R : Under(T, y) = Under(R, y)
      BY <3>1, <3>3 DEF Under
    <3>5. SumOn(C(T), R) = SumOn(C(R), R)
      <4>1. \A y \in R : C(T)[y] = C(R)[y]
        BY <3>4 DEF Cut
      <4> HIDE DEF C, R
      <4> QED
        BY <3>2, <4>1, FoldAgrees DEF SumOn
    <3>6. SumOn(C(T), T) = C(T)[x] + SumOn(C(T), R)
      <4>1. \A y \in T : C(T)[y] \in Int
        BY <1>2
      <4> HIDE DEF C
      <4> QED
        BY <1>0, <4>1, SumIs
    <3>7. SumOn(share, T) = share[x] + SumOn(share, R)
      <4>1. \A y \in T : share[y] \in Int
        OBVIOUS
      <4> QED
        BY <1>0, <4>1, SumIs
    <3>8. C(T)[x] = Min({share[x], Max({e - SumOn(share, R), 0})})
      BY <3>4 DEF Cut
    <3> DEFINE a == share[x]
               b == SumOn(share, R)
    <3>9. a \in Nat /\ b \in Nat
      BY <1>1, <3>2
    <3> HIDE DEF a, b, C, R
    <3>10. Min({a, Max({e - b, 0})}) + Min({b, e}) = Min({a + b, e})
      <4>1. /\ Max({e - b, 0}) = IF e - b >= 0 THEN e - b ELSE 0
            /\ Min({b, e}) = IF b <= e THEN b ELSE e
            /\ Min({a + b, e}) = IF a + b <= e THEN a + b ELSE e
        <5> DEFINE d == e - b
                   c == a + b
        <5>1. d \in Int /\ c \in Int /\ b \in Int /\ e \in Int
          BY <3>9
        <5> HIDE DEF d, c
        <5>2. Max({d, 0}) = IF d >= 0 THEN d ELSE 0
          BY <5>1, TwoCompared
        <5>3. Min({b, e}) = IF b <= e THEN b ELSE e
          BY <5>1, TwoCompared
        <5>4. Min({c, e}) = IF c <= e THEN c ELSE e
          BY <5>1, TwoCompared
        <5> QED
          BY <5>2, <5>3, <5>4 DEF d, c
      <4> DEFINE m == Max({e - b, 0})
      <4>2. m \in Nat
        BY <3>9, <4>1
      <4>3. Min({a, m}) = IF a <= m THEN a ELSE m
        <5> HIDE DEF m
        <5>1. a \in Int /\ m \in Int
          BY <3>9, <4>2
        <5> QED
          BY <5>1, TwoCompared
      <4>4. m = IF e >= b THEN e - b ELSE 0
        BY <3>9, <4>1
      <4> DEFINE x1 == Min({a, m})
                 x2 == Min({b, e})
                 x3 == Min({a + b, e})
      <4>5. /\ x1 = IF a <= m THEN a ELSE m
            /\ x2 = IF b <= e THEN b ELSE e
            /\ x3 = IF a + b <= e THEN a + b ELSE e
        BY <4>1, <4>3
      <4> HIDE DEF m, x1, x2, x3
      <4>6. x1 + x2 = x3
        BY <3>9, <4>4, <4>5
      <4> QED
        BY <4>6 DEF x1, x2, x3, m
    <3>11. SumOn(C(T), T) = Min({a, Max({e - b, 0})}) + Min({b, e})
      BY <3>2, <3>5, <3>6, <3>8 DEF a, b
    <3>12. SumOn(share, T) = a + b
      BY <3>7 DEF a, b
    <3> QED
      BY <3>10, <3>11, <3>12
  <2> QED
    BY <2>1, <2>2
<1> HIDE DEF Good
<1>4. \A T \in SUBSET Machines : T \in Good
  BY <1>0, <1>3, FiniteInduction
<1> QED
  BY <1>4 DEF Good

(* The quotas share out a batch of any size exactly, over any rounding. *)
LEMMA QuotasShareOut ==
    ASSUME Asked, NEW n \in Nat
    PROVE  Quotas(n) \in [Machines -> Nat] /\ SumOn(Quotas(n), Machines) = n
<1> DEFINE share == Shares(n)
           diff  == n - Total(share)
           quotas == Quotas(n)
           sum   == SumOn(share, Machines)
<1>1. share \in [Machines -> Nat] /\ IsFiniteSet(Machines)
  BY SharesAre, SchedulerAssumption
<1>2. Total(share) = sum /\ sum \in Nat
  <2> HIDE DEF share
  <2>1. share = [x \in Machines |-> share[x]] /\ \A x \in Machines : share[x] \in Nat
    BY <1>1
  <2> QED
    BY <1>1, <2>1, TotalIsSum, SumIsNat
<1>3. CASE diff >= 0
  <2> DEFINE g == [share EXCEPT ![Fastest] = @ + diff]
  <2>1. quotas = g
    BY <1>3 DEF Quotas
  <2>2. diff = n - sum
    BY <1>2
  <2> HIDE DEF share, diff, sum
  <2>3. Fastest \in Machines /\ share[Fastest] \in Nat /\ diff \in Nat
    BY <1>1, <1>2, <1>3, <2>2, FastestIsOne
  <2>4. g \in [Machines -> Nat] /\ g[Fastest] = share[Fastest] + diff
    BY <1>1, <2>3
  <2>5. /\ \A x \in Machines : share[x] \in Int /\ g[x] \in Int
        /\ \A x \in Machines \ {Fastest} : g[x] = share[x]
    BY <1>1, <2>4
  <2>6. SumOn(g, Machines) = sum + (g[Fastest] - share[Fastest])
    <3> HIDE DEF g
    <3> QED
      BY <1>1, <2>3, <2>5, SumChanges DEF sum
  <2>7. SumOn(g, Machines) = n
    <3> HIDE DEF g
    <3> QED
      BY <1>2, <2>2, <2>3, <2>4, <2>6
  <2> QED
    BY <2>1, <2>4, <2>7
<1>4. CASE ~ (diff >= 0)
  <2> DEFINE e == -diff
             C == [h \in Machines |-> Cut(share, e, Machines, h)]
             g == [h \in Machines |-> share[h] - C[h]]
  <2>1. diff = n - sum
    BY <1>2
  <2>2. e \in Nat /\ e <= sum /\ sum = n + e
    <3> HIDE DEF sum, diff
    <3> QED
      BY <1>2, <1>4, <2>1
  <2>3. ASSUME NEW h \in Machines
        PROVE  Total([k \in {m \in Machines : Slower(m, h)} |-> share[k]]) = SumOn(share, Under(Machines, h))
    <3> DEFINE U == Under(Machines, h)
               f == [k \in U |-> share[k]]
    <3>1. U = {m \in Machines : Slower(m, h)} /\ IsFiniteSet(U)
      BY FS_Subset, SchedulerAssumption DEF Under
    <3>2. f = [k \in U |-> f[k]] /\ \A k \in U : f[k] = share[k]
      OBVIOUS
    <3>3. Total(f) = SumOn(share, U)
      <4> HIDE DEF f, U
      <4> QED
        BY <3>1, <3>2, TotalIsSum, FoldAgrees DEF SumOn
    <3> QED
      BY <3>1, <3>3
  <2>4. quotas = g
    <3> DEFINE Before(h) == Total([k \in {m \in Machines : Slower(m, h)} |-> share[k]])
    <3>1. quotas = [h \in Machines |-> share[h] - Min({share[h], Max({-diff - Before(h), 0})})]
      BY <1>4 DEF Quotas
    <3>2. \A h \in Machines : Min({share[h], Max({-diff - Before(h), 0})}) = C[h]
      BY <2>3 DEF Cut
    <3> HIDE DEF Before, C, share, diff
    <3> QED
      BY <3>1, <3>2
  <2> HIDE DEF share, diff, e
  <2>5. \A h \in Machines : C[h] \in Nat /\ C[h] <= share[h] /\ share[h] \in Nat
    BY <1>1, <2>2, CutIs
  <2>6. \A h \in Machines : C[h] \in Int /\ share[h] \in Int /\ g[h] = share[h] - C[h] /\ g[h] \in Nat
    BY <2>5
  <2>7. SumOn(C, Machines) = Min({sum, e})
    BY <1>1, <2>2, CutsSum
  <2>8. SumOn(g, Machines) = sum - SumOn(C, Machines)
    <3> HIDE DEF g, C
    <3> QED
      BY <1>1, <2>6, SumOfDifferences
  <2>9. Min({sum, e}) = e
    <3> HIDE DEF sum
    <3>1. sum \in Int /\ e \in Int
      BY <1>2, <2>2
    <3>2. Min({sum, e}) = IF sum <= e THEN sum ELSE e
      BY <3>1, TwoCompared
    <3> QED
      BY <2>2, <3>1, <3>2
  <2>10. SumOn(g, Machines) = n
    <3> HIDE DEF sum, g, C
    <3> QED
      BY <2>2, <2>7, <2>8, <2>9
  <2>11. g \in [Machines -> Nat]
    BY <2>6
  <2> QED
    BY <2>4, <2>10, <2>11
<1> QED
  BY <1>3, <1>4

-----------------------------------------------------------------------------
(* BatchScheduler: the invariant. *)

Slots == UNION {{h} \X (0 .. profile[h].limit - 1) : h \in Machines}
Idle(h) == {s \in DOMAIN freeAt : s[1] = h /\ freeAt[s] = 0}
AtOnce(h) == {d \in DecidedOn(h) : d.start = 0}

WorkItem     == [n : Nat, dur : Nat, segment : BOOLEAN]
Placement == [n : Nat, on : Machines, slot : Nat, start : Nat, segment : BOOLEAN]

BatchTyped ==
    /\ profile \in [Machines -> Profiles]
    /\ left \in SUBSET WorkItem /\ IsFiniteSet(left)
    /\ freeAt \in [Slots -> Nat]
    /\ quota \in [Machines -> Nat] /\ given \in [Machines -> Nat]
    /\ decided \in SUBSET Placement /\ IsFiniteSet(decided)

(* Every item is left or decided once. *)
ItemsOnce ==
    /\ \A j, k \in left : j.n = k.n => j = k
    /\ \A d, e \in decided : d.n = e.n => d = e
    /\ \A d \in decided, j \in left : d.n # j.n

QuotasExact == Total(quota) - Total(given) = Cardinality(left)

(* Of a server's slots that were free, those still free start nothing yet, *)
(* and nothing waits on the server as long as there is one.                *)
FreeSlotsFirst ==
    \A h \in Machines :
      /\ Cardinality(AtOnce(h)) + Cardinality(Idle(h)) = Max({profile[h].limit - profile[h].running, 0})
      /\ Idle(h) # {} => \A d \in DecidedOn(h) : d.start = 0

Requested == BatchTyped /\ ItemsOnce /\ QuotasExact /\ FreeSlotsFirst /\ SegmentsSpread
BatchInv  == BatchInit \/ Requested

LEMMA BatchFinite ==
    ASSUME BatchTyped
    PROVE  /\ IsFiniteSet(left) /\ Cardinality(left) \in Nat
           /\ \A h \in Machines : /\ IsFiniteSet(DecidedOn(h)) /\ IsFiniteSet(AtOnce(h))
                                 /\ Cardinality(DecidedOn(h)) \in Nat /\ Cardinality(AtOnce(h)) \in Nat
<1>1. IsFiniteSet(left) /\ Cardinality(left) \in Nat
  BY FS_CardinalityType DEF BatchTyped
<1>2. ASSUME NEW T \in SUBSET decided PROVE IsFiniteSet(T) /\ Cardinality(T) \in Nat
  <2>1. IsFiniteSet(T)
    BY FS_Subset DEF BatchTyped
  <2> QED
    BY <2>1, FS_CardinalityType
<1>3. \A h \in Machines : DecidedOn(h) \in SUBSET decided /\ AtOnce(h) \in SUBSET decided
  BY DEF DecidedOn, AtOnce
<1> QED
  BY <1>1, <1>2, <1>3

LEMMA QuotaSums ==
    ASSUME BatchTyped
    PROVE  /\ Total(quota) = SumOn(quota, Machines) /\ Total(given) = SumOn(given, Machines)
           /\ Total(quota) \in Int /\ Total(given) \in Int
<1>1. quota = [x \in Machines |-> quota[x]] /\ given = [x \in Machines |-> given[x]]
  BY DEF BatchTyped
<1>2. \A x \in Machines : quota[x] \in Int /\ given[x] \in Int
  BY DEF BatchTyped
<1>3. Total(quota) = SumOn(quota, Machines) /\ Total(given) = SumOn(given, Machines)
  BY <1>1, TotalIsSum
<1>4. SumOn(quota, Machines) \in Int /\ SumOn(given, Machines) \in Int
  BY <1>2, SumIs, SchedulerAssumption
<1> QED
  BY <1>3, <1>4

(* Every slot is a machine's, and every machine has one. *)
LEMMA SlotsAre ==
    ASSUME BatchTyped
    PROVE  /\ DOMAIN freeAt = Slots
           /\ \A s \in Slots : s[1] \in Machines /\ s[2] \in Nat /\ s = <<s[1], s[2]>> /\ freeAt[s] \in Nat
           /\ \A h \in Machines : <<h, 0>> \in Slots
<1>1. DOMAIN freeAt = Slots /\ \A s \in Slots : freeAt[s] \in Nat
  BY DEF BatchTyped
<1>2. ASSUME NEW h \in Machines PROVE profile[h].limit \in Nat \ {0}
  BY ProfileValues DEF BatchTyped
<1>3. ASSUME NEW s \in Slots PROVE s[1] \in Machines /\ s[2] \in Nat /\ s = <<s[1], s[2]>>
  <2>1. PICK h \in Machines : s \in {h} \X (0 .. profile[h].limit - 1)
    BY DEF Slots
  <2> QED
    BY <1>2, <2>1
<1>4. ASSUME NEW h \in Machines PROVE <<h, 0>> \in Slots
  <2>1. 0 \in 0 .. profile[h].limit - 1
    BY <1>2
  <2>2. <<h, 0>> \in {h} \X (0 .. profile[h].limit - 1)
    BY <2>1
  <2> QED
    BY <2>2 DEF Slots
<1> QED
  BY <1>1, <1>3, <1>4

LEMMA IdleFinite ==
    ASSUME BatchTyped, NEW h \in Machines
    PROVE  IsFiniteSet(Idle(h)) /\ Cardinality(Idle(h)) \in Nat
<1> DEFINE top == profile[h].limit - 1
           T   == {h} \X (0 .. top)
           f   == [k \in 0 .. top |-> <<h, k>>]
<1>1. top \in Int
  BY ProfileValues DEF BatchTyped
<1>2. IsFiniteSet(T)
  <2> HIDE DEF top
  <2>1. f \in [0 .. top -> T]
    OBVIOUS
  <2>2. \A m, n \in 0 .. top : f[m] = f[n] => m = n
    OBVIOUS
  <2>3. \A x \in T : \E n \in 0 .. top : f[n] = x
    OBVIOUS
  <2> HIDE DEF f, T
  <2> QED
    BY <1>1, <2>1, <2>2, <2>3, Listed
<1>3. Idle(h) \in SUBSET T
  <2> SUFFICES ASSUME NEW s \in Idle(h) PROVE s \in T
    OBVIOUS
  <2>1. s \in Slots /\ s[1] = h
    BY SlotsAre DEF Idle
  <2>2. PICK k \in Machines : s \in {k} \X (0 .. profile[k].limit - 1)
    BY <2>1 DEF Slots
  <2> QED
    BY <2>1, <2>2
<1> HIDE DEF T
<1>4. IsFiniteSet(Idle(h))
  BY <1>2, <1>3, FS_Subset
<1> QED
  BY <1>4, FS_CardinalityType

(* While work is left some machine is below its quota. *)
LEMMA SomeBelowQuota ==
    ASSUME BatchTyped, QuotasExact, left # {}
    PROVE  WithinQuota # {}
<1>1. \E h \in Machines : given[h] < quota[h]
  <2> SUFFICES ASSUME \A h \in Machines : ~ (given[h] < quota[h]) PROVE FALSE
    OBVIOUS
  <2>1. \A h \in Machines : quota[h] \in Int /\ given[h] \in Int /\ quota[h] <= given[h]
    BY DEF BatchTyped
  <2>2. SumOn(quota, Machines) <= SumOn(given, Machines)
    BY <2>1, SumBelow, SchedulerAssumption
  <2>3. Cardinality(left) = 0
    BY <2>2, QuotaSums, BatchFinite DEF QuotasExact
  <2> QED
    BY <2>3, BatchFinite, FS_EmptySet
<1>2. PICK h \in Machines : given[h] < quota[h]
  BY <1>1
<1>3. <<h, 0>> \in WithinQuota
  BY <1>2, SlotsAre DEF WithinQuota
<1> QED
  BY <1>3

(* The invariant says that the answer is a plan. *)
LEMMA AnswerFollows == BatchInv => AnswerIsPlan
<1>1. ASSUME BatchInit PROVE AnswerIsPlan
  <2> DEFINE empty == [h \in {} |-> 0]
  <2>1. Total(empty) = 0
    <3>1. empty = [h \in {} |-> empty[h]]
      OBVIOUS
    <3> HIDE DEF empty
    <3>2. Total(empty) = SumOn(empty, {})
      BY <3>1, TotalIsSum
    <3> QED
      BY <3>2, SumUnfolds, FS_EmptySet
  <2>2. Total(quota) = 0 /\ Total(given) = 0 /\ DOMAIN quota = {} /\ left = {}
    BY <1>1, <2>1 DEF BatchInit
  <2>3. QuotaLeftForRest
    BY <2>2, FS_EmptySet DEF QuotaLeftForRest
  <2>4. profile = << >>
    BY <1>1 DEF BatchInit
  <2> QED
    BY <2>3, <2>4 DEF AnswerIsPlan, Answered
<1>2. ASSUME Requested PROVE AnswerIsPlan
  <2> USE <1>2 DEF Requested
  <2>1. QuotaLeftForRest
    <3>1. \A h \in DOMAIN quota : quota[h] >= 0
      BY DEF BatchTyped
    <3> QED
      BY <3>1, SomeBelowQuota DEF QuotaLeftForRest, QuotasExact
  <2>2. FreeSlotsUsed
    <3> SUFFICES ASSUME NEW h \in Machines
                 PROVE  Cardinality(AtOnce(h))
                          = Min({Cardinality(DecidedOn(h)), Max({profile[h].limit - profile[h].running, 0})})
      BY DEF FreeSlotsUsed, AtOnce
    <3> DEFINE room == Max({profile[h].limit - profile[h].running, 0})
               all  == Cardinality(DecidedOn(h))
               now  == Cardinality(AtOnce(h))
               idle == Cardinality(Idle(h))
    <3>1. now \in Nat /\ all \in Nat /\ now <= all
      <4>1. AtOnce(h) \in SUBSET DecidedOn(h)
        BY DEF AtOnce
      <4> QED
        BY <4>1, BatchFinite, FS_Subset
    <3>2. now + idle = room
      BY DEF FreeSlotsFirst
    <3>3. idle \in Nat /\ room \in Nat
      <4> DEFINE diff == profile[h].limit - profile[h].running
      <4>1. diff \in Int
        BY ProfileValues DEF BatchTyped
      <4>2. room \in Nat
        <5>1. room = Max({diff, 0})
          OBVIOUS
        <5> HIDE DEF room, diff
        <5>2. Max({diff, 0}) = IF diff >= 0 THEN diff ELSE 0
          BY <4>1, TwoCompared
        <5> QED
          BY <4>1, <5>1, <5>2
      <4>3. IsFiniteSet(Idle(h))
        BY IdleFinite
      <4> QED
        BY <4>2, <4>3, FS_CardinalityType
    <3>4. Min({all, room}) = IF all <= room THEN all ELSE room
      <4> HIDE DEF all, room
      <4>1. all \in Int /\ room \in Int
        BY <3>1, <3>3
      <4> QED
        BY <4>1, TwoCompared
    <3>5. CASE Idle(h) = {}
      <4>1. idle = 0
        BY <3>5, FS_EmptySet
      <4> HIDE DEF all, room, now, idle
      <4>2. now = Min({all, room})
        BY <3>1, <3>2, <3>3, <3>4, <4>1
      <4> QED
        BY <4>2 DEF all, room, now
    <3>6. CASE Idle(h) # {}
      <4>1. AtOnce(h) = DecidedOn(h)
        BY <3>6 DEF FreeSlotsFirst, AtOnce
      <4>2. now = all
        BY <4>1
      <4> HIDE DEF all, room, now, idle
      <4>3. now = Min({all, room})
        BY <3>1, <3>2, <3>3, <3>4, <4>2
      <4> QED
        BY <4>3 DEF all, room, now
    <3> QED
      BY <3>5, <3>6
  <2> QED
    BY <2>1, <2>2 DEF AnswerIsPlan, ItemsOnce
<1> QED
  BY <1>1, <1>2 DEF BatchInv

-----------------------------------------------------------------------------
(* BatchScheduler: the request. *)

(* What a slot in use waits for is never nothing. *)
LEMMA EarliestFreeIs ==
    ASSUME Asked
    PROVE  /\ EarliestFree \in [SlotSet -> Nat]
           /\ \A s \in SlotSet : EarliestFree[s] = 0 <=> ~ (s[2] < Occupied(s[1]))
<1> SUFFICES ASSUME NEW s \in SlotSet
             PROVE  EarliestFree[s] \in Nat /\ (EarliestFree[s] = 0 <=> ~ (s[2] < Occupied(s[1])))
  BY DEF EarliestFree
<1>1. PICK h \in Machines : s \in {h} \X (0 .. profile'[h].limit - 1)
  BY DEF SlotSet
<1> DEFINE limit == profile'[h].limit
           running == profile'[h].running
           rtf == profile'[h].rtf
           occ == Occupied(h)
           call == 10 * (AverageTask * rtf + Overhead)
           k == occ - s[2]
           N == call * k
<1>2. limit \in Nat \ {0} /\ running \in Nat /\ rtf \in Nat \ {0}
  BY ProfileValues DEF Asked
<1>3. s[1] = h /\ s[2] \in Nat
  BY <1>1
<1>4. occ \in Nat
  <2>1. occ = Min({running, limit})
    BY DEF Occupied
  <2> HIDE DEF running, limit, occ
  <2>2. running \in Int /\ limit \in Int
    BY <1>2
  <2>3. Min({running, limit}) = IF running <= limit THEN running ELSE limit
    BY <2>2, TwoCompared
  <2> QED
    BY <1>2, <2>1, <2>3
<1>5. CASE s[2] < occ
  <2>1. call \in Nat \ {0}
    <3> HIDE DEF rtf
    <3>1. AverageTask * rtf \in Nat
      BY <1>2, Products, SchedulerAssumption
    <3> QED
      BY <3>1, SchedulerAssumption
  <2>2. k \in Nat \ {0}
    <3> HIDE DEF occ
    <3> QED
      BY <1>3, <1>4, <1>5
  <2>3. N \in Nat \ {0}
    <3> HIDE DEF call, k
    <3> QED
      BY <2>1, <2>2, Products
  <2>4. EarliestFree[s] = (N + occ - 1) \div occ
    BY <1>3, <1>5 DEF EarliestFree
  <2> HIDE DEF N, occ
  <2>5. (N + occ - 1) \div occ \in Nat \ {0}
    <3>1. N \in Nat /\ N >= 1 /\ occ \in Nat /\ occ >= 1
      BY <1>3, <1>4, <1>5, <2>3
    <3> DEFINE M == N + occ - 1
    <3>2. M \in Nat /\ M >= occ
      BY <3>1
    <3> HIDE DEF M
    <3>3. M \div occ \in Nat \ {0}
      BY <3>1, <3>2
    <3> QED
      BY <3>3 DEF M
  <2> QED
    BY <1>3, <1>5, <2>4, <2>5 DEF occ
<1>6. CASE ~ (s[2] < occ)
  BY <1>3, <1>6 DEF EarliestFree
<1> QED
  BY <1>5, <1>6

(* As many slots are free as are not in use. *)
LEMMA FreeAtFirst ==
    ASSUME Asked, NEW h \in Machines
    PROVE  LET free == Cardinality({s \in SlotSet : s[1] = h /\ EarliestFree[s] = 0})
           IN  free \in Nat /\ free = Max({profile'[h].limit - profile'[h].running, 0})
<1> DEFINE T == {s \in SlotSet : s[1] = h /\ EarliestFree[s] = 0}
           limit == profile'[h].limit
           running == profile'[h].running
           occ == Occupied(h)
           top == limit - 1
           f == [k \in occ .. top |-> <<h, k>>]
           room == limit - running
<1>1. limit \in Nat \ {0} /\ running \in Nat
  BY ProfileValues DEF Asked
<1>2. occ = IF running <= limit THEN running ELSE limit
  <2>1. occ = Min({running, limit})
    BY DEF Occupied
  <2> HIDE DEF running, limit, occ
  <2>2. running \in Int /\ limit \in Int
    BY <1>1
  <2> QED
    BY <2>1, <2>2, TwoCompared
<1>3. \A s : s \in T <=> s \in {h} \X (occ .. top)
  <2>1. ASSUME NEW s \in T PROVE s \in {h} \X (occ .. top)
    <3>1. s \in SlotSet /\ s[1] = h /\ ~ (s[2] < occ)
      BY EarliestFreeIs
    <3>2. PICK k \in Machines : s \in {k} \X (0 .. profile'[k].limit - 1)
      BY <3>1 DEF SlotSet
    <3>3. s = <<h, s[2]>> /\ s[2] \in 0 .. top
      BY <3>1, <3>2
    <3>4. occ \in Int /\ top \in Int
      BY <1>1, <1>2
    <3> HIDE DEF top, occ
    <3>5. s[2] \in occ .. top
      BY <3>1, <3>3, <3>4
    <3> QED
      BY <3>3, <3>5
  <2>2. ASSUME NEW s \in {h} \X (occ .. top) PROVE s \in T
    <3>1. occ \in Nat /\ top \in Int
      BY <1>1, <1>2
    <3>2. s = <<h, s[2]>> /\ s[1] = h /\ s[2] \in occ .. top
      OBVIOUS
    <3>3. s[2] \in 0 .. top /\ ~ (s[2] < occ)
      <4> HIDE DEF occ, top
      <4> QED
        BY <3>1, <3>2
    <3>4. s \in {h} \X (0 .. profile'[h].limit - 1)
      BY <3>2, <3>3
    <3>5. s \in SlotSet
      BY <3>4 DEF SlotSet
    <3> QED
      BY <3>2, <3>3, <3>5, EarliestFreeIs
  <2> QED
    BY <2>1, <2>2
<1>4. Cardinality(T) = IF occ > top THEN 0 ELSE top - occ + 1
  <2>1. occ \in Int /\ top \in Int
    BY <1>1, <1>2
  <2> HIDE DEF T, occ, top
  <2>2. f \in [occ .. top -> T]
    BY <1>3
  <2>3. \A m, n \in occ .. top : f[m] = f[n] => m = n
    OBVIOUS
  <2>4. \A x \in T : \E n \in occ .. top : f[n] = x
    BY <1>3
  <2> HIDE DEF f
  <2> QED
    BY <2>1, <2>2, <2>3, <2>4, Listed
<1>5. Max({room, 0}) = IF room >= 0 THEN room ELSE 0
  <2>1. room \in Int
    BY <1>1
  <2> HIDE DEF room
  <2> QED
    BY <2>1, TwoCompared
<1> HIDE DEF occ, limit, running, T
<1>6. Cardinality(T) = IF room >= 0 THEN room ELSE 0
  BY <1>1, <1>2, <1>4
<1>7. Cardinality(T) \in Nat /\ Cardinality(T) = Max({room, 0})
  BY <1>1, <1>5, <1>6
<1> QED
  BY <1>7 DEF T, limit, running

LEMMA RequestStep == BatchInv /\ Request => BatchInv'
<1> SUFFICES ASSUME BatchInv, Request PROVE Requested'
  BY DEF BatchInv
<1>1. BatchInit
  <2> SUFFICES ASSUME Requested PROVE FALSE
    BY DEF BatchInv
  <2>1. profile \in [Machines -> Profiles] /\ profile = << >>
    BY DEF Requested, BatchTyped, Request
  <2>2. DOMAIN << >> = {}
    OBVIOUS
  <2> QED
    BY <2>1, <2>2, SchedulerAssumption
<1>2. Asked /\ freeAt' = EarliestFree /\ given' = [h \in Machines |-> 0] /\ decided' = {}
  BY <1>1 DEF Request, Asked, BatchInit
<1> PICK n \in 1 .. MaxBatch : \E jobs \in Jobs(n) :
       /\ left' = {[n |-> k, dur |-> jobs[k].dur, segment |-> jobs[k].segment] : k \in 1 .. n}
       /\ quota' = Quotas(n)
  BY DEF Request
<1>3. PICK jobs \in Jobs(n) :
        /\ left' = {[n |-> k, dur |-> jobs[k].dur, segment |-> jobs[k].segment] : k \in 1 .. n}
        /\ quota' = Quotas(n)
  OBVIOUS
<1>4. n \in Nat /\ n >= 1
  BY SchedulerAssumption
<1> DEFINE f == [k \in 1 .. n |-> [n |-> k, dur |-> jobs[k].dur, segment |-> jobs[k].segment]]
<1>5. ASSUME NEW k \in 1 .. n PROVE f[k] \in WorkItem /\ f[k].n = k
  <2>1. jobs[k].dur \in Nat /\ jobs[k].segment \in BOOLEAN
    BY SchedulerAssumption DEF Jobs
  <2> QED
    BY <1>4, <2>1 DEF WorkItem
<1>6. \A j \in left' : \E k \in 1 .. n : j = f[k]
  BY <1>3
<1>7. f \in [1 .. n -> left']
  BY <1>3
<1>8. IsFiniteSet(left') /\ Cardinality(left') = n
  <2>1. 1 \in Int /\ n \in Int
    BY <1>4
  <2>2. \A k, l \in 1 .. n : f[k] = f[l] => k = l
    BY <1>5
  <2>3. \A x \in left' : \E k \in 1 .. n : f[k] = x
    BY <1>6
  <2> DEFINE a == 1
  <2>4. IsFiniteSet(left') /\ Cardinality(left') = IF a > n THEN 0 ELSE n - a + 1
    <3>1. a \in Int /\ f \in [a .. n -> left'] /\ (\A k, l \in a .. n : f[k] = f[l] => k = l)
          /\ \A x \in left' : \E k \in a .. n : f[k] = x
      BY <1>7, <2>2, <2>3
    <3> HIDE DEF a, f
    <3> QED
      BY <2>1, <3>1, Listed
  <2> QED
    BY <1>4, <2>4
<1>9. quota' \in [Machines -> Nat] /\ SumOn(quota', Machines) = n
  BY <1>2, <1>3, <1>4, QuotasShareOut
<1>10. BatchTyped'
  <2>1. left' \in SUBSET WorkItem
    BY <1>5, <1>6
  <2>2. SlotSet = Slots'
    BY DEF SlotSet, Slots
  <2>3. freeAt' \in [Slots' -> Nat]
    BY <1>2, <2>2, EarliestFreeIs
  <2>4. given' \in [Machines -> Nat]
    BY <1>2
  <2>5. decided' \in SUBSET Placement /\ IsFiniteSet(decided')
    BY <1>2, FS_EmptySet
  <2> QED
    BY <1>2, <1>8, <1>9, <2>1, <2>3, <2>4, <2>5 DEF BatchTyped, Asked
<1>11. ItemsOnce'
  <2>1. \A j, k \in left' : j.n = k.n => j = k
    BY <1>5, <1>6
  <2> QED
    BY <1>2, <2>1 DEF ItemsOnce
<1>12. QuotasExact'
  <2>1. Total(quota') = n
    <3>1. quota' = [x \in Machines |-> quota'[x]]
      BY <1>9
    <3> QED
      BY <1>9, <3>1, TotalIsSum
  <2>2. Total(given') = 0
    <3>1. given' = [x \in Machines |-> given'[x]] /\ \A x \in Machines : given'[x] = 0
      BY <1>2
    <3> QED
      BY <3>1, TotalIsSum, SumOfNothing, SchedulerAssumption
  <2> QED
    BY <1>4, <1>8, <2>1, <2>2 DEF QuotasExact
<1>13. FreeSlotsFirst'
  <2> SUFFICES ASSUME NEW h \in Machines
               PROVE  /\ Cardinality(AtOnce(h)') + Cardinality(Idle(h)') = Max({profile'[h].limit - profile'[h].running, 0})
                      /\ DecidedOn(h)' = {}
    BY DEF FreeSlotsFirst
  <2>1. DecidedOn(h)' = {} /\ AtOnce(h)' = {}
    BY <1>2 DEF DecidedOn, AtOnce
  <2>2. DOMAIN freeAt' = SlotSet
    BY <1>2, EarliestFreeIs
  <2>3. Idle(h)' = {s \in SlotSet : s[1] = h /\ EarliestFree[s] = 0}
    BY <1>2, <2>2 DEF Idle
  <2>4. Cardinality(AtOnce(h)') = 0
    BY <2>1, FS_EmptySet
  <2>5. Cardinality(Idle(h)') = Max({profile'[h].limit - profile'[h].running, 0})
    BY <1>2, <2>3, FreeAtFirst
  <2>6. Cardinality(Idle(h)') \in Nat
    BY <1>2, <2>3, FreeAtFirst
  <2> HIDE DEF AtOnce, Idle
  <2> QED
    BY <2>1, <2>4, <2>5, <2>6
<1>14. SegmentsSpread'
  BY <1>2 DEF SegmentsSpread, Segmented
<1> QED
  BY <1>10, <1>11, <1>12, <1>13, <1>14 DEF Requested

-----------------------------------------------------------------------------
(* BatchScheduler: an item is placed. *)

(* No item is done at once, by any server. *)
LEMMA EstimateIs ==
    ASSUME BatchTyped, NEW j \in left, NEW h \in Machines
    PROVE  Estimate(j, h) \in Nat \ {0}
<1> DEFINE dur == j.dur
           rtf == profile[h].rtf
           load == 10 + profile[h].running
           x == dur * rtf
           y == x * load
<1>1. dur \in Nat /\ rtf \in Nat /\ load \in Nat
  BY ProfileValues DEF BatchTyped, WorkItem
<1>2. Estimate(j, h) = y + 10 * Overhead
  BY DEF Estimate
<1> HIDE DEF dur, rtf, load
<1>3. x \in Nat
  BY <1>1, Products
<1> HIDE DEF x
<1>4. y \in Nat
  BY <1>1, <1>3, Products
<1> HIDE DEF y
<1> QED
  BY <1>2, <1>4, SchedulerAssumption

LEMMA LongestLeft ==
    ASSUME BatchTyped, ItemsOnce, left # {}
    PROVE  Longest \in left
<1> DEFINE f == [j \in left |-> Best(j)]
<1>1. ASSUME NEW j \in left PROVE Best(j) \in Nat
  <2> DEFINE S == {Estimate(j, h) : h \in Machines}
  <2>1. S \in SUBSET Nat
    BY EstimateIs
  <2>2. S # {}
    BY SchedulerAssumption
  <2>3. Min(S) \in S
    <3> HIDE DEF S
    <3> QED
      BY <2>1, <2>2, LeastNumber
  <2> QED
    BY <2>1, <2>3 DEF Best
<1>2. \A j \in left : f[j] = Best(j) /\ f[j] \in Nat /\ f[j] \in Int
  BY <1>1
<1>3. PICK x \in left : \A y \in left : f[y] <= f[x]
  <2> HIDE DEF f
  <2> QED
    BY <1>2, BatchFinite, Greatest
<1> DEFINE T == {j \in left : f[j] = f[x]}
           rank == [j \in T |-> j.n]
<1>4. T # {} /\ \A j \in T : rank[j] \in Nat
  BY DEF BatchTyped, WorkItem
<1>5. PICK m \in T : \A k \in T : rank[m] <= rank[k]
  <2> HIDE DEF T, rank
  <2> QED
    BY <1>4, Least
<1>6. ASSUME NEW k \in left PROVE Best(m) > Best(k) \/ (Best(m) = Best(k) /\ m.n <= k.n)
  <2>1. m \in left /\ f[m] = f[x] /\ f[k] <= f[m] /\ f[m] = Best(m) /\ f[k] = Best(k)
        /\ f[k] \in Int /\ f[m] \in Int
    BY <1>2, <1>3
  <2>2. f[k] = f[x] => m.n <= k.n
    BY <1>5
  <2> HIDE DEF f
  <2> QED
    BY <2>1, <2>2
<1>7. m \in left
  OBVIOUS
<1> HIDE DEF T, f
<1> QED
  BY <1>6, <1>7 DEF Longest

(* Among any slots one is chosen, on which the item finishes first. *)
LEMMA BestSlotIs ==
    ASSUME BatchTyped, NEW j \in left, NEW E \in SUBSET Slots, E # {}
    PROVE  BestSlot(j, E) \in E /\ \A r \in E : Finish(j, BestSlot(j, E)) <= Finish(j, r)
<1> DEFINE f == [s \in E |-> Finish(j, s)]
<1>1. ASSUME NEW s \in E PROVE f[s] = Finish(j, s) /\ f[s] \in Nat
  <2>1. freeAt[s] \in Nat /\ s[1] \in Machines
    BY SlotsAre
  <2> QED
    BY <2>1, EstimateIs DEF Finish
<1>2. PICK a \in E : \A r \in E : f[a] <= f[r]
  <2> HIDE DEF f
  <2> QED
    BY <1>1, Least
<1> DEFINE A == {s \in E : f[s] = f[a]}
           server == [s \in A |-> s[1]]
<1>3. A # {} /\ \A s \in A : server[s] \in Nat
  <2>1. \A s \in A : s[1] \in Nat
    BY SlotsAre, SchedulerAssumption
  <2> QED
    BY <2>1
<1>4. PICK b \in A : \A r \in A : server[b] <= server[r]
  <2> HIDE DEF A, server
  <2> QED
    BY <1>3, Least
<1> DEFINE B == {s \in A : server[s] = server[b]}
           place == [s \in B |-> s[2]]
<1>5. B # {} /\ \A s \in B : place[s] \in Nat
  <2>1. \A s \in B : s[2] \in Nat
    BY SlotsAre
  <2> QED
    BY <2>1
<1>6. PICK c \in B : \A r \in B : place[c] <= place[r]
  <2> HIDE DEF B, place
  <2> QED
    BY <1>5, Least
<1>7. c \in E /\ f[c] = f[a] /\ c[1] = b[1]
  OBVIOUS
<1>8. ASSUME NEW r \in E
      PROVE  Finish(j, c) < Finish(j, r) \/ (Finish(j, c) = Finish(j, r) /\ Earlier(c, r))
  <2>1. f[c] = Finish(j, c) /\ f[r] = Finish(j, r) /\ f[c] \in Nat /\ f[r] \in Nat /\ f[c] <= f[r]
    BY <1>1, <1>2, <1>7
  <2>2. CASE f[c] = f[r]
    <3>1. r \in A
      BY <1>7, <2>2
    <3>2. b[1] <= r[1] /\ b[1] \in Nat /\ r[1] \in Nat /\ c[2] \in Nat /\ r[2] \in Nat
      BY <1>4, <3>1, SlotsAre, SchedulerAssumption
    <3>3. b[1] = r[1] => c[2] <= r[2]
      BY <1>6, <3>1
    <3>4. Earlier(c, r)
      <4> HIDE DEF A, B, f
      <4> QED
        BY <1>7, <3>2, <3>3 DEF Earlier
    <3> QED
      BY <2>1, <2>2, <3>4
  <2>3. CASE f[c] # f[r]
    <3> HIDE DEF f
    <3> QED
      BY <2>1, <2>3
  <2> QED
    BY <2>2, <2>3
<1> DEFINE s == BestSlot(j, E)
<1>9. s \in E /\ \A r \in E : Finish(j, s) < Finish(j, r) \/ (Finish(j, s) = Finish(j, r) /\ Earlier(s, r))
  <2> HIDE DEF A, B, f
  <2> QED
    BY <1>7, <1>8 DEF BestSlot
<1> HIDE DEF s
<1>10. ASSUME NEW r \in E PROVE Finish(j, s) <= Finish(j, r)
  <2>1. Finish(j, s) \in Nat /\ Finish(j, r) \in Nat
    BY <1>1, <1>9
  <2> QED
    BY <1>9, <2>1
<1> QED
  BY <1>9, <1>10 DEF s

(* All slots of a server are eligible or none, and a segment is kept off *)
(* the servers that have one as long as there is another.                *)
LEMMA EligibleIs ==
    ASSUME BatchTyped, NEW j \in left
    PROVE  /\ Eligible(j) # {} /\ Eligible(j) \in SUBSET Slots
           /\ \A s \in Eligible(j), r \in Slots : r[1] = s[1] => r \in Eligible(j)
           /\ j.segment /\ UsedBySegments # Machines => \A s \in Eligible(j) : s[1] \notin UsedBySegments
<1> DEFINE quotaSlots == IF WithinQuota # {} THEN WithinQuota ELSE DOMAIN freeAt
           other    == Machines \ UsedBySegments
           fresh    == OnHost(quotaSlots, other)
           freshAny == OnHost(DOMAIN freeAt, other)
<1>1. UsedBySegments \subseteq Machines
  BY DEF UsedBySegments, Segmented, BatchTyped, Placement
<1>2. quotaSlots # {} /\ quotaSlots \subseteq Slots /\ \A s \in quotaSlots, r \in Slots : r[1] = s[1] => r \in quotaSlots
  <2>1. Slots # {}
    BY SlotsAre, SchedulerAssumption
  <2> QED
    BY <2>1, SlotsAre DEF WithinQuota
<1>3. UsedBySegments # Machines => freshAny # {}
  <2> SUFFICES ASSUME UsedBySegments # Machines PROVE freshAny # {}
    OBVIOUS
  <2>1. PICK h \in Machines : h \in other
    BY <1>1
  <2>2. <<h, 0>> \in freshAny
    BY <2>1, SlotsAre DEF OnHost
  <2> QED
    BY <2>2
<1>4. /\ Eligible(j) = IF j.segment /\ fresh # {} THEN fresh
                       ELSE IF j.segment /\ freshAny # {} THEN freshAny ELSE quotaSlots
  BY DEF Eligible
<1>5. /\ fresh \subseteq Slots /\ \A s \in fresh : s[1] \in other
      /\ \A s \in fresh, r \in Slots : r[1] = s[1] => r \in fresh
  BY <1>2 DEF OnHost
<1>6. /\ freshAny \subseteq Slots /\ \A s \in freshAny : s[1] \in other
      /\ \A s \in freshAny, r \in Slots : r[1] = s[1] => r \in freshAny
  BY SlotsAre DEF OnHost
<1> HIDE DEF quotaSlots, fresh, freshAny
<1> QED
  BY <1>2, <1>3, <1>4, <1>5, <1>6

LEMMA PlaceStep == BatchInv /\ Place => BatchInv'
<1> SUFFICES ASSUME BatchInv, Place PROVE Requested'
  BY DEF BatchInv
<1>1. Requested /\ left # {}
  BY DEF BatchInv, BatchInit, Place
<1> DEFINE j == Longest
           E == Eligible(j)
           s == BestSlot(j, E)
           D == [n |-> j.n, on |-> s[1], slot |-> s[2], start |-> freeAt[s], segment |-> j.segment]
           end == Finish(j, s)
<1>2. BatchTyped /\ ItemsOnce /\ QuotasExact /\ FreeSlotsFirst /\ SegmentsSpread
  BY <1>1 DEF Requested
<1>3. /\ decided' = decided \cup {D} /\ freeAt' = [freeAt EXCEPT ![s] = end]
      /\ given' = [given EXCEPT ![s[1]] = @ + 1] /\ left' = left \ {j}
      /\ profile' = profile /\ quota' = quota
  BY DEF Place
<1>4. j \in left
  BY <1>1, <1>2, LongestLeft
<1> HIDE DEF j
<1>5. /\ E # {} /\ E \in SUBSET Slots
      /\ \A t \in E, r \in Slots : r[1] = t[1] => r \in E
      /\ j.segment /\ UsedBySegments # Machines => \A t \in E : t[1] \notin UsedBySegments
  BY <1>2, <1>4, EligibleIs
<1> HIDE DEF E
<1>6. s \in E /\ \A r \in E : Finish(j, s) <= Finish(j, r)
  BY <1>2, <1>4, <1>5, BestSlotIs
<1> HIDE DEF s
<1>7. /\ s \in Slots /\ s[1] \in Machines /\ s[2] \in Nat /\ freeAt[s] \in Nat
      /\ DOMAIN freeAt = Slots
  BY <1>2, <1>5, <1>6, SlotsAre
<1>8. end \in Nat \ {0}
  BY <1>2, <1>4, <1>7, EstimateIs DEF Finish
<1>9. j.n \in Nat /\ j.segment \in BOOLEAN
  BY <1>2, <1>4 DEF BatchTyped, WorkItem
<1>10. D \in Placement /\ D \notin decided /\ D.n = j.n /\ D.on = s[1] /\ D.start = freeAt[s]
       /\ D.segment = j.segment
  <2>1. D \in Placement
    BY <1>7, <1>9 DEF Placement
  <2>2. \A d \in decided : d.n # j.n
    BY <1>2, <1>4 DEF ItemsOnce
  <2> QED
    BY <2>1, <2>2
<1> HIDE DEF D, end
<1>11. BatchTyped'
  <2>1. left' \in SUBSET WorkItem /\ IsFiniteSet(left')
    BY <1>2, <1>3, FS_RemoveElement DEF BatchTyped
  <2>2. decided' \in SUBSET Placement /\ IsFiniteSet(decided')
    BY <1>2, <1>3, <1>10, FS_AddElement DEF BatchTyped
  <2>3. freeAt' \in [Slots' -> Nat]
    BY <1>2, <1>3, <1>7, <1>8 DEF BatchTyped, Slots
  <2>4. given' \in [Machines -> Nat]
    BY <1>2, <1>3, <1>7 DEF BatchTyped
  <2>5. profile' \in [Machines -> Profiles] /\ quota' \in [Machines -> Nat]
    BY <1>2, <1>3 DEF BatchTyped
  <2> QED
    BY <2>1, <2>2, <2>3, <2>4, <2>5 DEF BatchTyped
<1>12. ItemsOnce'
  <2>1. \A k, l \in left' : k.n = l.n => k = l
    BY <1>2, <1>3 DEF ItemsOnce
  <2>2. \A d, e \in decided' : d.n = e.n => d = e
    BY <1>2, <1>3, <1>4, <1>10 DEF ItemsOnce
  <2>3. \A d \in decided', k \in left' : d.n # k.n
    BY <1>2, <1>3, <1>4, <1>10 DEF ItemsOnce
  <2> QED
    BY <2>1, <2>2, <2>3 DEF ItemsOnce
<1>13. QuotasExact'
  <2>1. Cardinality(left') = Cardinality(left) - 1
    BY <1>2, <1>3, <1>4, FS_RemoveElement DEF BatchTyped
  <2>2. Total(given') = Total(given) + 1
    <3> DEFINE h == s[1]
               g == given'
    <3>1. h \in Machines /\ g \in [Machines -> Nat] /\ given \in [Machines -> Nat] /\ g[h] = given[h] + 1
          /\ \A x \in Machines \ {h} : g[x] = given[x]
      BY <1>2, <1>3, <1>7, <1>11 DEF BatchTyped
    <3> HIDE DEF g, h
    <3>2. \A x \in Machines : given[x] \in Int /\ g[x] \in Int
      BY <3>1
    <3>3. SumOn(g, Machines) = SumOn(given, Machines) + (g[h] - given[h])
      <4>1. /\ IsFiniteSet(Machines) /\ h \in Machines
            /\ \A x \in Machines \ {h} : g[x] = given[x]
        BY <3>1, SchedulerAssumption
      <4> QED
        BY ONLY <3>2, <4>1, SumChanges
    <3>4. g = [x \in Machines |-> g[x]]
      BY <3>1
    <3>5. Total(g) = SumOn(g, Machines)
      BY <3>4, TotalIsSum
    <3>6. Total(given) = SumOn(given, Machines) /\ Total(given) \in Int
      BY <1>2, QuotaSums
    <3>7. given[h] \in Int
      BY <3>1
    <3>8. Total(g) = Total(given) + 1
      BY <3>1, <3>3, <3>5, <3>6, <3>7
    <3> QED
      BY <3>8 DEF g
  <2>3. Total(quota) \in Int /\ Total(given) \in Int /\ Cardinality(left) \in Nat
    BY <1>2, QuotaSums, BatchFinite
  <2>4. Total(quota)' = Total(quota)
    BY <1>3
  <2> QED
    BY <1>2, <2>1, <2>2, <2>3, <2>4 DEF QuotasExact
<1>14. FreeSlotsFirst'
  <2> SUFFICES ASSUME NEW h \in Machines
               PROVE  /\ Cardinality(AtOnce(h)') + Cardinality(Idle(h)') = Cardinality(AtOnce(h)) + Cardinality(Idle(h))
                      /\ Idle(h)' # {} => \A d \in DecidedOn(h)' : d.start = 0
    BY <1>2, <1>3 DEF FreeSlotsFirst
  <2>1. /\ AtOnce(h)' = {d \in decided \cup {D} : d.on = h /\ d.start = 0}
        /\ DecidedOn(h)' = {d \in decided \cup {D} : d.on = h}
        /\ Idle(h)' = {r \in Slots : r[1] = h /\ freeAt'[r] = 0}
    <3>1. DOMAIN freeAt' = Slots
      BY <1>3, <1>7
    <3> QED
      BY <1>3, <3>1 DEF AtOnce, DecidedOn, Idle
  <2>2. /\ AtOnce(h) = {d \in decided : d.on = h /\ d.start = 0}
        /\ DecidedOn(h) = {d \in decided : d.on = h}
        /\ Idle(h) = {r \in Slots : r[1] = h /\ freeAt[r] = 0}
    BY <1>7 DEF AtOnce, DecidedOn, Idle
  <2>3. freeAt'[s] = end /\ \A r \in Slots : r # s => freeAt'[r] = freeAt[r]
    BY <1>2, <1>3, <1>7 DEF BatchTyped
  <2>4. Idle(h) # {} => \A d \in DecidedOn(h) : d.start = 0
    BY <1>2 DEF FreeSlotsFirst
  <2>5. /\ IsFiniteSet(AtOnce(h)) /\ IsFiniteSet(Idle(h))
        /\ Cardinality(AtOnce(h)) \in Nat /\ Cardinality(Idle(h)) \in Nat
    BY <1>2, BatchFinite, IdleFinite
  <2> HIDE DEF AtOnce, DecidedOn, Idle
  <2>6. CASE h # s[1]
    <3>1. AtOnce(h)' = AtOnce(h) /\ DecidedOn(h)' = DecidedOn(h) /\ Idle(h)' = Idle(h)
      BY <1>10, <2>1, <2>2, <2>3, <2>6
    <3> QED
      BY <2>4, <3>1
  <2>7. CASE h = s[1] /\ freeAt[s] = 0
    <3>1. AtOnce(h)' = AtOnce(h) \cup {D} /\ D \notin AtOnce(h)
      BY <1>10, <2>1, <2>2, <2>7
    <3>2. Idle(h)' = Idle(h) \ {s} /\ s \in Idle(h)
      BY <1>7, <1>8, <2>1, <2>2, <2>3, <2>7
    <3>3. Cardinality(AtOnce(h)') = Cardinality(AtOnce(h)) + 1
      BY <2>5, <3>1, FS_AddElement
    <3>4. Cardinality(Idle(h)') = Cardinality(Idle(h)) - 1
      BY <2>5, <3>2, FS_RemoveElement
    <3>5. \A d \in DecidedOn(h)' : d.start = 0
      BY <1>10, <2>1, <2>2, <2>4, <2>7, <3>2
    <3> QED
      BY <2>5, <3>3, <3>4, <3>5
  <2>8. CASE h = s[1] /\ freeAt[s] # 0
    <3>1. Idle(h) = {}
      <4> SUFFICES ASSUME NEW r \in Idle(h) PROVE FALSE
        OBVIOUS
      <4>1. r \in Slots /\ r[1] = s[1] /\ freeAt[r] = 0
        BY <2>2, <2>8
      <4>2. Finish(j, s) <= Finish(j, r)
        BY <1>5, <1>6, <4>1
      <4> DEFINE estimate == Estimate(j, h)
      <4>3. Finish(j, s) = freeAt[s] + estimate /\ Finish(j, r) = 0 + estimate /\ estimate \in Nat
        BY <1>2, <1>4, <2>8, <4>1, EstimateIs DEF Finish
      <4> HIDE DEF estimate
      <4> QED
        BY <1>7, <2>8, <4>2, <4>3
    <3>2. AtOnce(h)' = AtOnce(h)
      BY <1>10, <2>1, <2>2, <2>8
    <3>3. Idle(h)' = {}
      BY <1>8, <2>1, <2>2, <2>3, <3>1
    <3> QED
      BY <3>1, <3>2, <3>3
  <2> QED
    BY <2>6, <2>7, <2>8
<1>15. SegmentsSpread'
  <2>1. CASE ~ j.segment
    <3>1. {d \in decided' : d.segment} = {d \in decided : d.segment}
      BY <1>3, <1>10, <2>1
    <3> QED
      BY <1>2, <3>1 DEF SegmentsSpread, UsedBySegments, Segmented
  <2>2. CASE j.segment
    <3>1. {d \in decided' : d.segment} = {d \in decided : d.segment} \cup {D}
      BY <1>3, <1>10, <2>2
    <3>2. CASE UsedBySegments = Machines
      <4>1. UsedBySegments' = Machines
        BY <1>7, <1>10, <3>1, <3>2 DEF UsedBySegments, Segmented
      <4> QED
        BY <4>1 DEF SegmentsSpread
    <3>3. CASE UsedBySegments # Machines
      <4>1. s[1] \notin UsedBySegments
        BY <1>5, <1>6, <2>2, <3>3
      <4>2. \A d, e \in {d \in decided : d.segment} : d.on = e.on => d = e
        BY <1>2, <3>3 DEF SegmentsSpread, Segmented
      <4>3. \A d \in {d \in decided : d.segment} : d.on # s[1]
        BY <4>1 DEF UsedBySegments, Segmented
      <4> QED
        BY <1>10, <3>1, <4>2, <4>3 DEF SegmentsSpread, Segmented
    <3> QED
      BY <3>2, <3>3
  <2> QED
    BY <2>1, <2>2
<1> QED
  BY <1>11, <1>12, <1>13, <1>14, <1>15 DEF Requested

(* The state of a batch: quotas, slots and decisions fit together. *)
THEOREM BatchInvAlways == BatchSpec => []BatchInv
<1>1. BatchInit => BatchInv
  BY DEF BatchInv
<1>2. BatchInv /\ [BatchNext]_batchVars => BatchInv'
  <2>1. BatchInv /\ UNCHANGED batchVars => BatchInv'
    <3> SUFFICES ASSUME BatchInv, UNCHANGED batchVars PROVE BatchInv'
      OBVIOUS
    <3>1. /\ profile' = profile /\ left' = left /\ freeAt' = freeAt
          /\ quota' = quota /\ given' = given /\ decided' = decided
      BY DEF batchVars
    <3>2. CASE BatchInit
      BY <3>1, <3>2 DEF BatchInv, BatchInit
    <3>3. CASE Requested
      <4>1. BatchTyped'
        BY <3>1, <3>3 DEF Requested, BatchTyped, Slots
      <4>2. ItemsOnce'
        BY <3>1, <3>3 DEF Requested, ItemsOnce
      <4>3. QuotasExact'
        BY <3>1, <3>3 DEF Requested, QuotasExact
      <4>4. FreeSlotsFirst'
        BY <3>1, <3>3 DEF Requested, FreeSlotsFirst, AtOnce, Idle, DecidedOn
      <4>5. SegmentsSpread'
        BY <3>1, <3>3 DEF Requested, SegmentsSpread, UsedBySegments, Segmented
      <4> QED
        BY <4>1, <4>2, <4>3, <4>4, <4>5 DEF BatchInv, Requested
    <3> QED
      BY <3>2, <3>3 DEF BatchInv
  <2> QED
    BY <2>1, RequestStep, PlaceStep DEF BatchNext
<1> QED
  BY <1>1, <1>2, PTL DEF BatchSpec

(* The answer to a batch is a plan as the plan pool expects it: the quotas   *)
(* share it out exactly over any rounding, every item is placed once, free   *)
(* slots are used before anything waits, and the segments of a task share a  *)
(* server only when it has some on every one; for any servers and batch.     *)
THEOREM AnswersArePlans == BatchSpec => []AnswerIsPlan
  BY BatchInvAlways, AnswerFollows, PTL

=============================================================================
