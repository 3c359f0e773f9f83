---------------------------- MODULE Shared_proofs ----------------------------
(***************************************************************************)
(* Theorems about the two values any goroutine may call, each behind one   *)
(* mutex.                                                                  *)
(*                                                                         *)
(* MemoryCache, for any keys, bound, slack and lifetimes: the map stays a  *)
(* map, the age queue follows it, evicting through the queue evicts the    *)
(* oldest write, and a Get answers the last one.  Socket, for any number of goroutines that write to   *)
(* it and close it.                                                        *)
(***************************************************************************)
EXTENDS MemoryCache, Socket, FiniteSetTheorems, TLAPS

\* The set `entries' is a map, and a generation names one entry of it. New
\* generations are above all that are held.
IsMap ==
  /\ entries \subseteq Entry
  /\ nextSeq \in Nat /\ clock \in Nat
  /\ \A e \in entries : e.seq \in 1 .. nextSeq
  /\ \A e, f \in entries : e.key = f.key \/ e.seq = f.seq => e = f

\* Whatever Set inserts and pops, and Get finds expired, the entries stay a map
\* whose generations are distinct: what Set does of Go's map assignment, and why
\* comparing a slot's generation is enough to tell a stale slot.
THEOREM EntriesAreAMap == Spec => []IsMap
<1> USE SizeAssumption DEF Entry
<1>1. Init => IsMap
  BY DEF Init, IsMap
<1>2. IsMap /\ [Next]_vars => IsMap'
  <2> SUFFICES ASSUME IsMap, [Next]_vars PROVE IsMap'
    OBVIOUS
  <2> USE DEF IsMap
  <2>1. ASSUME NEW k \in Key, Get(k) PROVE IsMap'
    <3>1. entries' \subseteq entries /\ UNCHANGED << nextSeq, clock >>
      BY <2>1 DEF Get
    <3> QED BY <3>1
  <2>2. ASSUME NEW k \in Key, NEW ttl \in 1 .. MaxTTL, Set(k, ttl) PROVE IsMap'
    <3> DEFINE e == [key |-> k, expires |-> clock + ttl, seq |-> nextSeq + 1]
               m == { x \in entries : x.key # k } \cup {e}
    <3>1. e \in Entry /\ e.key = k /\ e.seq = nextSeq + 1
      OBVIOUS
    <3>2. /\ entries' \subseteq m
          /\ nextSeq' = nextSeq + 1 /\ clock' = clock
      BY <2>2 DEF Set, Left
    <3>3. \A x \in m : x.seq \in 1 .. nextSeq'
      BY <3>1, <3>2
    <3>4. \A x, y \in m : x.key = y.key \/ x.seq = y.seq => x = y
      <4> SUFFICES ASSUME NEW x \in m, NEW y \in m, x.key = y.key \/ x.seq = y.seq
                   PROVE  x = y
        OBVIOUS
      <4>1. CASE x = e \/ y = e
        <5>1. ASSUME NEW z \in entries, z.key # k PROVE z.key # e.key /\ z.seq # e.seq
          BY <3>1, <5>1
        <5> QED BY <4>1, <5>1
      <4>2. CASE x # e /\ y # e
        BY <4>2
      <4> QED BY <4>1, <4>2
    <3> HIDE DEF e
    <3> QED BY <3>1, <3>2, <3>3, <3>4
  <2>3. CASE Tick
    BY <2>3 DEF Tick
  <2>4. CASE UNCHANGED vars
    BY <2>4 DEF vars
  <2> QED BY <2>1, <2>2, <2>3, <2>4 DEF Next
<1> QED
  BY <1>1, <1>2, PTL DEF Spec

-----------------------------------------------------------------------------
(* Picking elements of a sequence.                                         *)

\* The place in kept of the index i.
Rank(kept, i) == Cardinality({ j \in kept : j <= i })

\* Ranks number the indices without a gap, in their order.
LEMMA Ranks ==
  ASSUME NEW n \in Nat, NEW kept \in SUBSET (1 .. n)
  PROVE  /\ IsFiniteSet(kept) /\ Cardinality(kept) \in Nat
         /\ \A i \in kept : Rank(kept, i) \in 1 .. Cardinality(kept)
         /\ \A i, j \in kept : i < j => Rank(kept, i) < Rank(kept, j)
         /\ \A r \in 1 .. Cardinality(kept) : \E i \in kept : Rank(kept, i) = r
<1> DEFINE Upto(i) == { j \in kept : j <= i }
<1>1. IsFiniteSet(kept) /\ Cardinality(kept) \in Nat
  <2>1. IsFiniteSet(1 .. n)
    BY FS_Interval
  <2>2. IsFiniteSet(kept)
    BY <2>1, FS_Subset
  <2> QED BY <2>2, FS_CardinalityType
<1>5. \A i \in kept : i \in Int
  OBVIOUS
<1>2. \A i \in kept : /\ IsFiniteSet(Upto(i))
                      /\ Cardinality(Upto(i)) \in 1 .. Cardinality(kept)
  <2> TAKE i \in kept
  <2>1. Upto(i) \in SUBSET kept /\ i \in Upto(i)
    OBVIOUS
  <2>2. IsFiniteSet(Upto(i)) /\ Cardinality(Upto(i)) <= Cardinality(kept)
    BY <1>1, <2>1, FS_Subset
  <2>3. Cardinality(Upto(i)) \in Nat /\ Cardinality(Upto(i)) # 0
    BY <2>1, <2>2, FS_CardinalityType, FS_EmptySet
  <2> QED BY <1>1, <2>2, <2>3
<1>3. ASSUME NEW i \in kept, NEW j \in kept, i < j
      PROVE  Cardinality(Upto(i)) < Cardinality(Upto(j))
  <2>1. Upto(i) \in SUBSET Upto(j) /\ j \in Upto(j) /\ j \notin Upto(i)
    <3>1. i \in Int /\ j \in Int /\ \A x \in kept : x \in Int /\ (x <= i => x <= j)
      BY <1>3, <1>5
    <3>2. /\ \A x \in Upto(i) : x \in kept /\ x <= i
          /\ \A x \in kept : x <= j => x \in Upto(j)
          /\ j <= j /\ ~(j <= i)
      BY <1>3, <3>1
    <3> HIDE DEF Upto
    <3>3. \A x \in Upto(i) : x \in Upto(j)
      BY <3>1, <3>2
    <3> QED BY <3>2, <3>3
  <2>2. /\ Cardinality(Upto(i)) <= Cardinality(Upto(j))
        /\ Cardinality(Upto(j)) = Cardinality(Upto(i)) => Upto(j) = Upto(i)
    BY <1>2, <2>1, FS_Subset
  <2>3. Cardinality(Upto(i)) \in Int /\ Cardinality(Upto(j)) \in Int
    BY <1>2
  <2> QED BY <2>1, <2>2, <2>3
<1>4. \A r \in 1 .. Cardinality(kept) : \E i \in kept : Cardinality(Upto(i)) = r
  <2> DEFINE f == [i \in kept |-> Cardinality(Upto(i))]
  <2>1. f \in [kept -> 1 .. Cardinality(kept)]
    BY <1>2
  <2>2. \A i, j \in kept : f[i] = f[j] => i = j
    <3> TAKE i, j \in kept
    <3>1. i \in Int /\ j \in Int /\ f[i] = Cardinality(Upto(i)) /\ f[j] = Cardinality(Upto(j))
      OBVIOUS
    <3>2. f[i] \in Int /\ f[j] \in Int
      BY <2>1
    <3>3. (i < j => f[i] < f[j]) /\ (j < i => f[j] < f[i])
      BY <1>3, <3>1
    <3> HIDE DEF f
    <3> QED BY <3>1, <3>2, <3>3
  <2>3. f \in Injection(kept, 1 .. Cardinality(kept))
    <3> HIDE DEF f
    <3> QED BY <2>1, <2>2 DEF Injection, IsInjective
  <2>4. /\ IsFiniteSet(1 .. Cardinality(kept))
        /\ Cardinality(1 .. Cardinality(kept)) = Cardinality(kept)
    BY <1>1, FS_Interval
  <2>5. f \in Surjection(kept, 1 .. Cardinality(kept))
    <3> HIDE DEF f
    <3> QED BY <2>3, <2>4, FS_Injection
  <2>6. \A r \in 1 .. Cardinality(kept) : \E i \in kept : f[i] = r
    <3> HIDE DEF f
    <3> QED BY <2>5 DEF Surjection
  <2> QED BY <2>6
<1> QED BY <1>1, <1>2, <1>3, <1>4 DEF Rank

\* What Picked returns: as many elements as indices were kept, each of them at a
\* kept index, in the order of the indices, and none left out.
LEMMA PickedInOrder ==
  ASSUME NEW S, NEW q \in Seq(S), NEW kept \in SUBSET (1 .. Len(q))
  PROVE  /\ Picked(q, kept) \in Seq(S)
         /\ Len(Picked(q, kept)) = Cardinality(kept) /\ Cardinality(kept) \in Nat
         /\ \E at \in [1 .. Cardinality(kept) -> kept] :
              /\ \A n \in 1 .. Cardinality(kept) : Picked(q, kept)[n] = q[at[n]]
              /\ \A m, n \in 1 .. Cardinality(kept) : m < n => at[m] < at[n]
              /\ \A i \in kept : \E n \in 1 .. Cardinality(kept) : at[n] = i
<1> DEFINE at == [n \in 1 .. Cardinality(kept) |-> CHOOSE i \in kept : Rank(kept, i) = n]
<1>1. Len(q) \in Nat /\ \A i \in kept : i \in Int /\ q[i] \in S
  OBVIOUS
<1>2. /\ Cardinality(kept) \in Nat
      /\ \A i \in kept : Rank(kept, i) \in 1 .. Cardinality(kept)
      /\ \A i, j \in kept : i < j => Rank(kept, i) < Rank(kept, j)
      /\ \A r \in 1 .. Cardinality(kept) : \E i \in kept : Rank(kept, i) = r
  BY <1>1, Ranks
<1>3. \A n \in 1 .. Cardinality(kept) : at[n] \in kept /\ Rank(kept, at[n]) = n
  BY <1>2
<1>4. at \in [1 .. Cardinality(kept) -> kept]
  BY <1>3
<1>5. Picked(q, kept) = [n \in 1 .. Cardinality(kept) |-> q[at[n]]]
  BY DEF Picked, Rank
<1> HIDE DEF at
<1>6. Picked(q, kept) \in [1 .. Cardinality(kept) -> S]
  <2>1. \A n \in 1 .. Cardinality(kept) : q[at[n]] \in S
    BY <1>1, <1>3
  <2> QED BY <1>5, <2>1
<1>7. Picked(q, kept) \in Seq(S) /\ Len(Picked(q, kept)) = Cardinality(kept)
  BY <1>2, <1>6
<1>8. \A m, n \in 1 .. Cardinality(kept) : m < n => at[m] < at[n]
  <2> SUFFICES ASSUME NEW m \in 1 .. Cardinality(kept), NEW n \in 1 .. Cardinality(kept), m < n
               PROVE  at[m] < at[n]
    OBVIOUS
  <2>1. at[m] \in Int /\ at[n] \in Int
    BY <1>1, <1>3
  <2>2. at[m] # at[n] /\ ~(at[n] < at[m])
    <3>1. /\ at[m] \in kept /\ Rank(kept, at[m]) = m
          /\ at[n] \in kept /\ Rank(kept, at[n]) = n
      BY <1>3
    <3>2. m \in Int /\ n \in Int
      BY <1>2
    <3>3. at[n] < at[m] => Rank(kept, at[n]) < Rank(kept, at[m])
      BY <1>2, <3>1
    <3> QED BY <3>1, <3>2, <3>3
  <2> QED BY <2>1, <2>2
<1>9. \A i \in kept : \E n \in 1 .. Cardinality(kept) : at[n] = i
  <2> SUFFICES ASSUME NEW i \in kept PROVE \E n \in 1 .. Cardinality(kept) : at[n] = i
    OBVIOUS
  <2> DEFINE n == Rank(kept, i)
  <2>1. n \in 1 .. Cardinality(kept)
    BY <1>2
  <2>2. at[n] \in kept /\ Rank(kept, at[n]) = n
    BY <1>3, <2>1
  <2>3. at[n] \in Int /\ i \in Int
    BY <1>1, <2>2
  <2>4. at[n] = i
    BY <1>2, <2>2, <2>3
  <2> QED BY <2>1, <2>4
<1> QED
  BY <1>2, <1>4, <1>5, <1>7, <1>8, <1>9

-----------------------------------------------------------------------------
(* QueueIsSound.                                                           *)

\* No two entries of the map m were written at the same generation.
Distinct(m) == \A e, f \in m : e.seq = f.seq => e = f

\* The queue q, read from h, holds generations up to n in the order they were
\* written, and a slot of every entry of the map m.
Follows(m, q, h, n) ==
  /\ q \in Seq(Slot) /\ h \in 0 .. Len(q)
  /\ \A i, j \in h + 1 .. Len(q) : i < j => q[i].seq < q[j].seq
  /\ \A i \in h + 1 .. Len(q) : q[i].seq <= n
  /\ \A e \in m : \E i \in h + 1 .. Len(q) : q[i] = SlotOf(e)

\* Rebuilding the queue keeps it following the map and leaves one slot to an entry
\* at most; not rebuilding it leaves no more than is tolerated.
LEMMA CompactFollows ==
  ASSUME NEW m \in SUBSET Entry, IsFiniteSet(m), Distinct(m), NEW q, NEW h, NEW n \in Nat,
         Follows(m, q, h, n), compact(m, q, h)
  PROVE  /\ Follows(m, order', head', n)
         /\ Len(order') - head' <= 2 * Cardinality(m) + Slack
<1> USE SizeAssumption
<1>1. Cardinality(m) \in Nat
  BY FS_CardinalityType
<1>2. CASE ~Crowded(m, q, h)
  <2>1. order' = q /\ head' = h
    BY <1>2 DEF compact
  <2>2. Len(q) \in Nat /\ h \in Nat
    BY DEF Follows
  <2> QED BY <1>1, <1>2, <2>1, <2>2 DEF Crowded
<1>3. CASE Crowded(m, q, h)
  <2> DEFINE kept == { i \in h + 1 .. Len(q) : \E e \in m : SlotOf(e) = q[i] }
             c == Cardinality(kept)
  <2>1. /\ order' = Picked(q, kept) /\ head' = 0
        /\ q \in Seq(Slot) /\ Len(q) \in Nat /\ h \in 0 .. Len(q)
    BY <1>3 DEF compact, Live, Follows
  <2>2. kept \in SUBSET (1 .. Len(q)) /\ kept \subseteq h + 1 .. Len(q)
    BY <2>1
  <2>3. /\ \A i \in kept : q[i] \in Slot /\ i \in Int /\ \E e \in m : SlotOf(e) = q[i]
        /\ \A i, j \in kept : i < j => q[i].seq < q[j].seq
        /\ \A i \in kept : q[i].seq <= n
        /\ \A e \in m : \E i \in kept : q[i] = SlotOf(e)
    <3>1. \A i \in kept : /\ i \in h + 1 .. Len(q) /\ i \in Int /\ q[i] \in Slot
                          /\ \E e \in m : SlotOf(e) = q[i]
      BY <2>1
    <3>2. \A e \in m : \E i \in kept : q[i] = SlotOf(e)
      BY <2>1 DEF Follows
    <3> HIDE DEF kept
    <3> QED BY <3>1, <3>2 DEF Follows
  <2> HIDE DEF kept
  <2>4. PICK at \in [1 .. c -> kept] :
          /\ \A x \in 1 .. c : order'[x] = q[at[x]]
          /\ \A x, y \in 1 .. c : x < y => at[x] < at[y]
          /\ \A i \in kept : \E x \in 1 .. c : at[x] = i
    BY <2>1, <2>2, PickedInOrder
  <2>5. order' \in Seq(Slot) /\ Len(order') = c /\ c \in Nat
    BY <2>1, <2>2, PickedInOrder
  <2>6. Follows(m, order', head', n)
    <3>1. \A x, y \in 1 .. c : x < y => order'[x].seq < order'[y].seq
      <4> SUFFICES ASSUME NEW x \in 1 .. c, NEW y \in 1 .. c, x < y
                   PROVE  order'[x].seq < order'[y].seq
        OBVIOUS
      <4>1. at[x] \in kept /\ at[y] \in kept /\ at[x] < at[y]
        BY <2>4
      <4>2. q[at[x]].seq < q[at[y]].seq
        BY <2>3, <4>1
      <4> QED BY <2>4, <4>2
    <3>2. \A x \in 1 .. c : order'[x].seq <= n
      BY <2>3, <2>4
    <3>3. \A e \in m : \E x \in 1 .. c : order'[x] = SlotOf(e)
      BY <2>3, <2>4
    <3>4. head' \in 0 .. Len(order') /\ head' + 1 = 1
      BY <2>1, <2>5
    <3> QED BY <2>5, <3>1, <3>2, <3>3, <3>4 DEF Follows
  <2>7. c <= Cardinality(m)
    <3> DEFINE f == [i \in kept |-> CHOOSE e \in m : SlotOf(e) = q[i]]
    <3>1. \A i \in kept : f[i] \in m /\ SlotOf(f[i]) = q[i]
      BY <2>3
    <3>2. f \in [kept -> m]
      BY <3>1
    <3>3. \A i, j \in kept : f[i] = f[j] => i = j
      <4> HIDE DEF f
      <4> SUFFICES ASSUME NEW i \in kept, NEW j \in kept, f[i] = f[j] PROVE i = j
        OBVIOUS
      <4>1. q[i] = q[j]
        BY <3>1
      <4>2. q[i].seq \in Nat /\ q[j].seq \in Nat /\ i \in Int /\ j \in Int
        BY <2>3 DEF Slot
      <4>3. (i < j => q[i].seq < q[j].seq) /\ (j < i => q[j].seq < q[i].seq)
        BY <2>3
      <4>4. q[i].seq = q[j].seq
        BY <4>1
      <4> HIDE DEF kept
      <4> QED BY <4>2, <4>3, <4>4
    <3>4. f \in Injection(kept, m)
      <4> HIDE DEF f
      <4> QED BY <3>2, <3>3 DEF Injection, IsInjective
    <3> HIDE DEF f
    <3> QED BY <3>4, FS_Injection
  <2> QED BY <1>1, <2>1, <2>5, <2>6, <2>7
<1> QED BY <1>2, <1>3

\* The age queue holds the generations in the order they were written, ahead of head
\* a slot of every entry, and no more slots than compact tolerates. The map is
\* finite, so that its size is a number.
QueueInv ==
  /\ TypeOK /\ IsMap
  /\ IsFiniteSet(entries)
  /\ Follows(entries, order, head, nextSeq)
  /\ BacklogIsBounded

\* The entry Set writes, and the map and the queue before anything is popped.
Written(k, ttl) == [key |-> k, expires |-> clock + ttl, seq |-> nextSeq + 1]
Inserted(k, ttl) == { x \in entries : x.key # k } \cup {Written(k, ttl)}
Queued(k, ttl) == Append(order, SlotOf(Written(k, ttl)))

\* The queue follows the map when the entry has been written and its slot queued.
LEMMA SetInserts ==
  ASSUME QueueInv, NEW k \in Key, NEW ttl \in 1 .. MaxTTL
  PROVE  /\ Inserted(k, ttl) \in SUBSET Entry
         /\ IsFiniteSet(Inserted(k, ttl)) /\ Distinct(Inserted(k, ttl))
         /\ Follows(Inserted(k, ttl), Queued(k, ttl), head, nextSeq + 1)
         /\ Len(Queued(k, ttl)) \in Nat /\ head \in Nat
<1> USE SizeAssumption
<1> DEFINE e == Written(k, ttl)
           m == Inserted(k, ttl)
           q == Queued(k, ttl)
<1>0. /\ e = [key |-> k, expires |-> clock + ttl, seq |-> nextSeq + 1]
      /\ m = { x \in entries : x.key # k } \cup {e}
      /\ q = Append(order, SlotOf(e))
  BY DEF Written, Inserted, Queued
<1> HIDE DEF e, m, q
<1>1. /\ e \in Entry /\ e.key = k /\ e.seq = nextSeq + 1 /\ SlotOf(e) \in Slot
      /\ SlotOf(e).seq = nextSeq + 1 /\ nextSeq \in Nat
  BY <1>0 DEF QueueInv, TypeOK, Entry, Slot, SlotOf
<1>2. m \in SUBSET Entry
  BY <1>0, <1>1 DEF QueueInv, TypeOK
<1>3. IsFiniteSet(m)
  <2>1. IsFiniteSet({ x \in entries : x.key # k })
    BY FS_Subset DEF QueueInv
  <2> QED BY <1>0, <2>1, FS_AddElement
<1>4. Distinct(m)
  <2>1. \A x \in entries : x.seq # e.seq /\ x.seq \in Nat
    BY <1>1 DEF QueueInv, IsMap
  <2>2. Distinct(entries)
    BY DEF QueueInv, IsMap, Distinct
  <2> QED BY <1>0, <2>1, <2>2 DEF Distinct
<1>5. /\ order \in Seq(Slot) /\ Len(order) \in Nat /\ head \in 0 .. Len(order)
      /\ q \in Seq(Slot) /\ Len(q) = Len(order) + 1
      /\ \A i \in 1 .. Len(order) : q[i] = order[i]
      /\ q[Len(order) + 1] = SlotOf(e)
  BY <1>0, <1>1 DEF QueueInv, TypeOK
<1>6. \A i \in head + 1 .. Len(q) : i \in head + 1 .. Len(order) \/ i = Len(order) + 1
  BY <1>5
<1>7. \A i \in head + 1 .. Len(order) :
        i \in 1 .. Len(order) /\ q[i] = order[i] /\ q[i].seq <= nextSeq /\ q[i].seq \in Nat
  <2> SUFFICES ASSUME NEW i \in head + 1 .. Len(order)
               PROVE  /\ i \in 1 .. Len(order) /\ q[i] = order[i]
                      /\ q[i].seq <= nextSeq /\ q[i].seq \in Nat
    OBVIOUS
  <2>1. i \in 1 .. Len(order)
    BY <1>5
  <2>2. q[i] = order[i] /\ order[i] \in Slot
    BY <1>5, <2>1
  <2>3. order[i].seq <= nextSeq
    BY DEF QueueInv, Follows
  <2> QED BY <2>1, <2>2, <2>3 DEF Slot
<1>8. Follows(m, q, head, nextSeq + 1)
  <2>1. \A i, j \in head + 1 .. Len(q) : i < j => q[i].seq < q[j].seq
    <3> SUFFICES ASSUME NEW i \in head + 1 .. Len(q), NEW j \in head + 1 .. Len(q), i < j
                 PROVE  q[i].seq < q[j].seq
      OBVIOUS
    <3>1. i \in head + 1 .. Len(order)
      BY <1>5
    <3>2. CASE j \in head + 1 .. Len(order)
      BY <1>7, <3>1, <3>2 DEF QueueInv, Follows
    <3>3. CASE j = Len(order) + 1
      <4>1. q[j].seq = nextSeq + 1
        BY <1>1, <1>5, <3>3
      <4>2. q[i].seq <= nextSeq /\ q[i].seq \in Nat
        BY <1>7, <3>1
      <4> QED BY <1>1, <4>1, <4>2
    <3> QED BY <1>6, <3>2, <3>3
  <2>2. \A i \in head + 1 .. Len(q) : q[i].seq <= nextSeq + 1
    <3>1. q[Len(order) + 1].seq = nextSeq + 1 /\ nextSeq \in Nat
      BY <1>1, <1>5
    <3>2. \A i \in head + 1 .. Len(order) : q[i].seq <= nextSeq /\ q[i].seq \in Nat
      BY <1>7
    <3> SUFFICES ASSUME NEW i \in head + 1 .. Len(q) PROVE q[i].seq <= nextSeq + 1
      OBVIOUS
    <3>3. CASE i \in head + 1 .. Len(order)
      <4>1. q[i].seq <= nextSeq /\ q[i].seq \in Nat
        BY <3>2, <3>3
      <4> QED BY <3>1, <4>1
    <3>4. CASE i = Len(order) + 1
      BY <3>1, <3>4
    <3> QED BY <1>6, <3>3, <3>4
  <2>3. \A x \in m : \E i \in head + 1 .. Len(q) : q[i] = SlotOf(x)
    <3>1. ASSUME NEW x \in entries PROVE \E i \in head + 1 .. Len(q) : q[i] = SlotOf(x)
      <4>1. PICK i \in head + 1 .. Len(order) : order[i] = SlotOf(x)
        BY DEF QueueInv, Follows
      <4>2. i \in head + 1 .. Len(q)
        BY <1>5
      <4> QED BY <1>7, <4>1, <4>2
    <3>2. Len(order) + 1 \in head + 1 .. Len(q)
      BY <1>5
    <3> QED BY <1>0, <1>5, <3>1, <3>2
  <2>4. head \in 0 .. Len(q)
    BY <1>5
  <2> QED BY <1>5, <2>1, <2>2, <2>3, <2>4 DEF Follows
<1>9. Len(q) \in Nat /\ head \in Nat
  BY <1>5
<1> QED BY <1>2, <1>3, <1>4, <1>8, <1>9 DEF m, q

\* What is left of the map once slots were popped is followed by the rest of the queue.
LEMMA LeftFollows ==
  ASSUME NEW m \in SUBSET Entry, NEW q, NEW n \in Nat, Follows(m, q, head, n),
         NEW h \in head .. Len(q), head \in Nat
  PROVE  Follows(Left(m, q, h), q, h, n)
<1>1. q \in Seq(Slot) /\ Len(q) \in Nat /\ h \in 0 .. Len(q)
  BY DEF Follows
<1>2. \A i \in h + 1 .. Len(q) : i \in head + 1 .. Len(q)
  BY <1>1
<1>3. ASSUME NEW e \in Left(m, q, h) PROVE \E i \in h + 1 .. Len(q) : q[i] = SlotOf(e)
  <2>1. e \in m /\ \A i \in head + 1 .. h : q[i] # SlotOf(e)
    BY DEF Left, Evicts
  <2>2. PICK i \in head + 1 .. Len(q) : q[i] = SlotOf(e)
    BY <2>1 DEF Follows
  <2>3. i \in h + 1 .. Len(q)
    BY <1>1, <2>1, <2>2
  <2> QED BY <2>2, <2>3
<1> QED BY <1>1, <1>2, <1>3 DEF Follows

LEMMA QueueInvHolds == Spec => []QueueInv
<1>1. Init => QueueInv
  <2> SUFFICES ASSUME Init PROVE QueueInv
    OBVIOUS
  <2>1. TypeOK /\ IsMap
    BY DEF Init, TypeOK, IsMap, Slot
  <2>2. IsFiniteSet(entries) /\ Cardinality(entries) = 0
    BY FS_EmptySet DEF Init
  <2>3. Follows(entries, order, head, nextSeq)
    BY DEF Init, Follows
  <2> QED BY <2>1, <2>2, <2>3, SizeAssumption DEF Init, QueueInv, BacklogIsBounded
<1>2. QueueInv /\ IsMap' /\ [Next]_vars => QueueInv'
  <2> SUFFICES ASSUME QueueInv, IsMap', [Next]_vars PROVE QueueInv'
    OBVIOUS
  <2>1. ASSUME NEW k \in Key, Get(k) PROVE QueueInv'
    <3> DEFINE dead == { e \in entries : e.key = k /\ ~Fresh(e) }
    <3>1. /\ entries' = entries \ dead /\ UNCHANGED << nextSeq, clock >>
          /\ IF dead = {} THEN UNCHANGED << order, head >> ELSE compact(entries', order, head)
      <4>1. dead = { e \in { x \in entries : x.key = k } : ~Fresh(e) }
        OBVIOUS
      <4> QED BY <2>1, <4>1 DEF Get
    <3>2. answer' \subseteq Slot /\ last' = last
      BY <2>1 DEF Get, QueueInv, TypeOK, Slot, Entry, SlotOf
    <3> HIDE DEF dead
    <3>3. /\ entries' \in SUBSET Entry /\ IsFiniteSet(entries') /\ Distinct(entries')
          /\ nextSeq \in Nat /\ clock \in Nat
      BY <3>1, FS_Subset DEF QueueInv, TypeOK, IsMap, Distinct
    <3>4. Follows(entries', order, head, nextSeq)
      BY <3>1 DEF QueueInv, Follows
    <3>5. Follows(entries', order', head', nextSeq) /\ BacklogIsBounded'
      <4>1. CASE dead = {}
        BY <3>1, <3>4, <4>1 DEF QueueInv, BacklogIsBounded
      <4>2. CASE dead # {}
        BY <3>1, <3>3, <3>4, <4>2, CompactFollows DEF BacklogIsBounded
      <4> QED BY <4>1, <4>2
    <3> QED BY <3>1, <3>2, <3>3, <3>5 DEF QueueInv, TypeOK, Follows
  <2>2. ASSUME NEW k \in Key, NEW ttl \in 1 .. MaxTTL, Set(k, ttl) PROVE QueueInv'
    <3> DEFINE m == Inserted(k, ttl)
               q == Queued(k, ttl)
    <3>1. /\ m \in SUBSET Entry /\ IsFiniteSet(m) /\ Distinct(m)
          /\ Follows(m, q, head, nextSeq + 1) /\ Len(q) \in Nat /\ head \in Nat
      BY SetInserts
    <3>2. PICK h \in head .. Len(q) : entries' = Left(m, q, h) /\ compact(entries', q, h)
      BY <2>2 DEF Set, Inserted, Queued, Written
    <3>3. nextSeq' = nextSeq + 1 /\ nextSeq \in Nat /\ clock' = clock /\ answer' = {}
      BY <2>2 DEF Set, QueueInv, TypeOK
    <3> HIDE DEF m, q
    <3>4. Left(m, q, h) \in SUBSET m
      BY DEF Left
    <3>5. entries' \in SUBSET Entry /\ IsFiniteSet(entries') /\ Distinct(entries')
      BY <3>1, <3>2, <3>4, FS_Subset DEF Distinct
    <3>6. Follows(entries', q, h, nextSeq')
      BY <3>1, <3>2, <3>3, LeftFollows
    <3>7. Follows(entries', order', head', nextSeq') /\ BacklogIsBounded'
      <4>1. nextSeq' \in Nat
        BY <3>3
      <4> QED BY <3>2, <3>5, <3>6, <4>1, CompactFollows DEF BacklogIsBounded
    <3>8. last' \in [Key -> [seq : Nat, expires : Nat]]
      <4>1. [seq |-> nextSeq + 1, expires |-> clock + ttl] \in [seq : Nat, expires : Nat]
        BY SizeAssumption DEF QueueInv, TypeOK
      <4> QED BY <2>2, <4>1 DEF Set, QueueInv, TypeOK
    <3>9. TypeOK'
      BY <3>3, <3>5, <3>7, <3>8 DEF QueueInv, TypeOK, Follows
    <3> QED BY <3>3, <3>5, <3>7, <3>9 DEF QueueInv
  <2>3. CASE Tick
    BY <2>3 DEF Tick, QueueInv, TypeOK, BacklogIsBounded
  <2>4. CASE UNCHANGED vars
    BY <2>4 DEF vars, QueueInv, TypeOK, BacklogIsBounded
  <2> QED BY <2>1, <2>2, <2>3, <2>4 DEF Next
<1> QED
  BY <1>1, <1>2, EntriesAreAMap, PTL DEF Spec

\* Ahead of head the age queue follows the map, for any bound and slack: every entry
\* has exactly one slot there, in the order they were written, and there are few
\* others, whatever was popped, rewritten, expired and compacted in between.
THEOREM QueueStaysSound == Spec => []QueueIsSound
<1>1. QueueInv => QueueIsSound
  <2> SUFFICES ASSUME QueueInv, NEW e \in entries
               PROVE  Cardinality({ i \in head + 1 .. Len(order) : order[i] = SlotOf(e) }) = 1
    BY DEF QueueInv, QueueIsSound, EveryEntryHasItsSlot, SlotsAreInOrder, Follows
  <2>1. PICK i \in head + 1 .. Len(order) : order[i] = SlotOf(e)
    BY DEF QueueInv, Follows
  <2>2. \A j \in head + 1 .. Len(order) : order[j] = SlotOf(e) => j = i
    <3> SUFFICES ASSUME NEW j \in head + 1 .. Len(order), order[j] = SlotOf(e) PROVE j = i
      OBVIOUS
    <3>1. order[i].seq = order[j].seq
      BY <2>1
    <3>2. order[i].seq \in Nat
      BY <2>1 DEF QueueInv, TypeOK, Entry, SlotOf
    <3>3. ~(i < j) /\ ~(j < i)
      BY <3>1, <3>2 DEF QueueInv, Follows
    <3>4. i \in Int /\ j \in Int
      BY DEF QueueInv, TypeOK
    <3> QED BY <3>3, <3>4
  <2>3. { j \in head + 1 .. Len(order) : order[j] = SlotOf(e) } = {i}
    BY <2>1, <2>2
  <2> QED BY <2>3, FS_Singleton
<1> QED
  BY <1>1, QueueInvHolds, PTL

-----------------------------------------------------------------------------
(* IsEvictingStore.                                                        *)

\* The write an entry holds, and those a map holds, as EvictingStore sees them.
WriteOf(e) == [key |-> e.key, number |-> e.seq]
Writes(m) == { WriteOf(e) : e \in m }

\* A map holds as many writes as entries.
LEMMA AsManyWrites ==
  ASSUME NEW m \in SUBSET Entry, IsFiniteSet(m), Distinct(m)
  PROVE  Cardinality(Writes(m)) = Cardinality(m)
<1> DEFINE f == [e \in m |-> WriteOf(e)]
<1>1. f \in [m -> Writes(m)]
  BY DEF Writes
<1>2. \A w \in Writes(m) : \E e \in m : f[e] = w
  BY DEF Writes
<1>3. \A d, e \in m : f[d] = f[e] => d = e
  <2> SUFFICES ASSUME NEW d \in m, NEW e \in m, f[d] = f[e] PROVE d = e
    OBVIOUS
  <2>1. WriteOf(d) = WriteOf(e)
    OBVIOUS
  <2>2. d.seq = e.seq
    BY <2>1 DEF WriteOf
  <2> QED BY <2>2 DEF Distinct
<1> HIDE DEF f
<1>4. f \in Surjection(m, Writes(m))
  BY <1>1, <1>2 DEF Surjection
<1>5. f \in Injection(m, Writes(m))
  BY <1>1, <1>3 DEF Injection, IsInjective
<1> QED BY <1>4, <1>5, FS_Surjection

\* Popping one slot takes one entry away at most.
LEMMA PopTakesOne ==
  ASSUME NEW m \in SUBSET Entry, IsFiniteSet(m), Distinct(m), NEW q,
         head \in Nat, NEW h \in Nat, head < h
  PROVE  Cardinality(Left(m, q, h)) >= Cardinality(Left(m, q, h - 1)) - 1
<1> DEFINE before == Left(m, q, h - 1)
<1>1. before \in SUBSET m /\ IsFiniteSet(before) /\ Cardinality(before) \in Nat
  BY FS_Subset, FS_CardinalityType DEF Left
<1>2. Left(m, q, h) = { e \in before : q[h] # SlotOf(e) }
  <2>1. \A i : i \in head + 1 .. h <=> i \in head + 1 .. h - 1 \/ i = h
    OBVIOUS
  <2> QED BY <2>1 DEF Left, Evicts
<1>3. CASE \A e \in before : q[h] # SlotOf(e)
  <2>1. Left(m, q, h) = before
    BY <1>2, <1>3
  <2> QED BY <1>1, <2>1
<1>4. ASSUME NEW e \in before, q[h] = SlotOf(e)
      PROVE  Cardinality(Left(m, q, h)) >= Cardinality(before) - 1
  <2>1. \A d \in before : q[h] = SlotOf(d) => d = e
    BY <1>1, <1>4 DEF SlotOf, Distinct
  <2>2. Left(m, q, h) = before \ {e}
    BY <1>2, <1>4, <2>1
  <2>3. Cardinality(before \ {e}) = Cardinality(before) - 1
    BY <1>1, FS_RemoveElement
  <2> QED BY <1>1, <2>2, <2>3
<1> QED BY <1>3, <1>4

\* The instance counts as the specification does.
LEMMA SameCount ==
  ASSUME NEW S
  PROVE  Store!Cardinality(S) = Cardinality(S)
BY DEF Store!Cardinality, Cardinality

\* What it takes to be a write of the bounded store.
LEMMA IsPut ==
  ASSUME NEW k \in Key, nextSeq' = nextSeq + 1, NEW W, NEW V, NEW held,
         W = Writes(entries), V = Writes(entries'),
         held = { w \in W : w.key # k } \cup {[key |-> k, number |-> nextSeq + 1]},
         V \subseteq held,
         \A w \in held \ V, v \in V : w.number < v.number,
         IF Limit = 0 THEN V = held ELSE V = held \/ Cardinality(V) = Limit,
         Limit > 0 => Cardinality(V) <= Limit
  PROVE  Store!Put(k)
<1>1. /\ W = { [key |-> e.key, number |-> e.seq] : e \in entries }
      /\ V = { [key |-> e.key, number |-> e.seq] : e \in entries }'
  BY DEF Writes, WriteOf
<1>2. Store!Cardinality(V) = Cardinality(V)
  BY SameCount
<1> QED BY <1>1, <1>2 DEF Store!Put

\* What Set's loop popped until the bound held is what was written longest ago, and
\* no more of it than had to go.
LEMMA SetKeepsNewest ==
  ASSUME QueueInv, NEW k \in Key, NEW ttl \in 1 .. MaxTTL, Set(k, ttl)
  PROVE  /\ entries' \subseteq Inserted(k, ttl)
         /\ \A d \in Inserted(k, ttl) \ entries', f \in entries' : d.seq < f.seq
         /\ entries' = Inserted(k, ttl) \/ (Limit > 0 /\ Cardinality(entries') = Limit)
         /\ Limit > 0 => Cardinality(entries') <= Limit
<1> USE SizeAssumption
<1> DEFINE m == Inserted(k, ttl)
           q == Queued(k, ttl)
           Stops(h) == Limit = 0 \/ Cardinality(Left(m, q, h)) <= Limit \/ h = Len(q)
<1>1. PICK h \in head .. Len(q) : /\ Stops(h) /\ \A x \in head .. h - 1 : ~Stops(x)
                                  /\ entries' = Left(m, q, h)
  BY DEF Set, Inserted, Queued, Written
<1>2. nextSeq \in Nat
  BY DEF QueueInv, TypeOK
<1>3. /\ m \in SUBSET Entry /\ IsFiniteSet(m) /\ Distinct(m)
      /\ Follows(m, q, head, nextSeq + 1) /\ Len(q) \in Nat /\ head \in Nat
  BY SetInserts
<1> HIDE DEF m, q
<1>4. /\ Left(m, q, h) \in SUBSET m /\ Cardinality(Left(m, q, h)) \in Nat
  <2>1. Left(m, q, h) \in SUBSET m
    BY DEF Left
  <2> QED BY <1>3, <2>1, FS_Subset, FS_CardinalityType
<1>5. Follows(Left(m, q, h), q, h, nextSeq + 1)
  BY <1>2, <1>3, LeftFollows
<1>6. ASSUME NEW d \in m \ entries', NEW f \in entries' PROVE d.seq < f.seq
  <2>1. PICK i \in head + 1 .. h : q[i] = SlotOf(d)
    BY <1>1 DEF Left, Evicts
  <2>2. PICK j \in h + 1 .. Len(q) : q[j] = SlotOf(f)
    BY <1>1, <1>5 DEF Follows
  <2>3. i \in head + 1 .. Len(q) /\ j \in head + 1 .. Len(q) /\ i < j
    BY <1>3
  <2>4. q[i].seq < q[j].seq
    BY <1>3, <2>3 DEF Follows
  <2> QED BY <2>1, <2>2, <2>4 DEF SlotOf
<1>7. h = head => entries' = m
  BY <1>1, <1>3 DEF Left
<1>8. Limit = 0 => entries' = m
  BY <1>1, <1>3, <1>7
<1>9. Limit > 0 => Cardinality(entries') <= Limit
  <2>1. CASE h = Len(q)
    <3>1. entries' = {}
      BY <1>1, <1>3, <1>5, <2>1 DEF Follows
    <3> QED BY <3>1, FS_EmptySet
  <2> QED BY <1>1, <2>1
<1>10. Limit > 0 /\ h # head => Cardinality(entries') = Limit
  <2> SUFFICES ASSUME Limit > 0, h # head PROVE Cardinality(entries') = Limit
    OBVIOUS
  <2>1. h \in Nat /\ head < h /\ h - 1 \in head .. h - 1
    BY <1>3
  <2>2. ~(Cardinality(Left(m, q, h - 1)) <= Limit)
    BY <1>1, <2>1
  <2>3. Cardinality(Left(m, q, h - 1)) \in Nat
    <3>1. Left(m, q, h - 1) \in SUBSET m
      BY DEF Left
    <3> QED BY <1>3, <3>1, FS_Subset, FS_CardinalityType
  <2>4. Cardinality(Left(m, q, h)) >= Cardinality(Left(m, q, h - 1)) - 1
    BY <1>3, <2>1, PopTakesOne
  <2> QED BY <1>1, <1>4, <1>9, <2>2, <2>3, <2>4
<1> QED BY <1>1, <1>4, <1>6, <1>7, <1>8, <1>9, <1>10 DEF m

\* So Set is a write of the bounded store.
LEMMA SetIsPut ==
  ASSUME QueueInv, NEW k \in Key, NEW ttl \in 1 .. MaxTTL, Set(k, ttl)
  PROVE  Store!Put(k)
<1> USE SizeAssumption
<1> DEFINE m == Inserted(k, ttl)
           held == { w \in Writes(entries) : w.key # k } \cup {[key |-> k, number |-> nextSeq + 1]}
<1>1. nextSeq' = nextSeq + 1
  BY DEF Set
<1>2. held = Writes(m)
  <2> DEFINE e == Written(k, ttl)
             rest == { x \in entries : x.key # k }
  <2>1. WriteOf(e) = [key |-> k, number |-> nextSeq + 1]
    BY DEF WriteOf, Written
  <2>2. Writes(rest) = { w \in Writes(entries) : w.key # k }
    BY DEF Writes, WriteOf
  <2> HIDE DEF e, rest
  <2>3. Writes(rest \cup {e}) = Writes(rest) \cup {WriteOf(e)}
    BY DEF Writes
  <2> QED BY <2>1, <2>2, <2>3 DEF rest, e, Inserted
<1>3. m \in SUBSET Entry /\ IsFiniteSet(m) /\ Distinct(m)
  BY SetInserts
<1> HIDE DEF m, held
<1>4. /\ entries' \subseteq m
      /\ \A d \in m \ entries', f \in entries' : d.seq < f.seq
      /\ entries' = m \/ (Limit > 0 /\ Cardinality(entries') = Limit)
      /\ Limit > 0 => Cardinality(entries') <= Limit
  BY SetKeepsNewest DEF m
<1>5. Writes(entries') \subseteq held
  BY <1>2, <1>4 DEF Writes
<1>6. ASSUME NEW w \in held \ Writes(entries'), NEW v \in Writes(entries')
      PROVE  w.number < v.number
  <2>1. PICK d \in m : w = WriteOf(d) /\ d \notin entries'
    BY <1>2 DEF Writes
  <2>2. PICK f \in entries' : v = WriteOf(f)
    BY DEF Writes
  <2> QED BY <1>4, <2>1, <2>2 DEF WriteOf
<1>7. Cardinality(Writes(entries')) = Cardinality(entries')
  <2>1. IsFiniteSet(entries') /\ Distinct(entries') /\ entries' \in SUBSET Entry
    BY <1>3, <1>4, FS_Subset DEF Distinct
  <2> QED BY <2>1, AsManyWrites
<1>8. /\ IF Limit = 0 THEN Writes(entries') = held
         ELSE Writes(entries') = held \/ Cardinality(Writes(entries')) = Limit
      /\ Limit > 0 => Cardinality(Writes(entries')) <= Limit
  BY <1>2, <1>4, <1>7
<1> QED BY <1>1, <1>5, <1>6, <1>8, IsPut DEF held

\* MemoryCache implements EvictingStore, for any bound, slack and lifetimes: evicting
\* through a queue of generations, with stale slots and compactions, is forgetting
\* the oldest write, and Get forgets only what it was asked for and found expired.
THEOREM EvictsTheOldest == Spec => IsEvictingStore
<1>1. Init => Store!Init
  BY DEF Init, Store!Init
<1>2. QueueInv /\ [Next]_vars => [Store!Next]_(Store!vars)
  <2> SUFFICES ASSUME QueueInv, [Next]_vars PROVE [Store!Next]_(Store!vars)
    OBVIOUS
  <2>1. ASSUME NEW k \in Key, Get(k) PROVE [Store!Next]_(Store!vars)
    <3> DEFINE dead == { e \in entries : e.key = k /\ ~Fresh(e) }
    <3>1. entries' = entries \ dead /\ UNCHANGED nextSeq
      <4>1. dead = { e \in { x \in entries : x.key = k } : ~Fresh(e) }
        OBVIOUS
      <4> QED BY <2>1, <4>1 DEF Get
    <3>2. CASE dead = {}
      BY <3>1, <3>2 DEF Store!vars
    <3>3. ASSUME NEW d \in dead PROVE Store!Next
      <4>1. dead = {d} /\ d \in entries
        BY DEF QueueInv, IsMap
      <4>2. \A e \in entries : WriteOf(e) = WriteOf(d) => e = d
        BY <4>1 DEF QueueInv, IsMap, WriteOf
      <4>3. Writes(entries') = Writes(entries) \ {WriteOf(d)} /\ WriteOf(d) \in Writes(entries)
        BY <3>1, <4>1, <4>2 DEF Writes
      <4>4. Store!Forget(WriteOf(d))
        BY <3>1, <4>3 DEF Store!Forget, Writes, WriteOf
      <4> QED BY <4>3, <4>4 DEF Store!Next, Writes, WriteOf
    <3> QED BY <3>2, <3>3
  <2>2. ASSUME NEW k \in Key, NEW ttl \in 1 .. MaxTTL, Set(k, ttl) PROVE Store!Next
    BY <2>2, SetIsPut DEF Store!Next
  <2>3. CASE Tick \/ UNCHANGED vars
    BY <2>3 DEF Tick, vars, Store!vars
  <2> QED BY <2>1, <2>2, <2>3 DEF Next
<1> QED
  BY <1>1, <1>2, QueueInvHolds, PTL DEF Spec, IsEvictingStore, Store!Spec

-----------------------------------------------------------------------------
(* AnswersAreLastWrites.                                                   *)

\* The keys that were ever written.
Ever == { k \in Key : last[k].seq > 0 }

\* The last write of k is in the map, or may be missed.
Accounted(k) ==
  \/ \E e \in entries : e.key = k
  \/ clock >= last[k].expires
  \/ Limit > 0 /\ Cardinality(WrittenAfter(k)) >= Limit

\* An entry holds its key's last write, and no last write that is not held was lost
\* too early.
LastInv ==
  /\ IsFiniteSet(Ever)
  /\ \A k \in Key : last[k].seq \in 0 .. nextSeq
  /\ \A e \in entries : last[e.key].seq = e.seq /\ last[e.key].expires = e.expires
  /\ \A k \in Key : Accounted(k)

\* Set: the write becomes its key's last, and whatever it evicts is behind as many
\* other keys as the cache holds.
LEMMA SetAccounts ==
  ASSUME QueueInv, LastInv, NEW k \in Key, NEW ttl \in 1 .. MaxTTL, Set(k, ttl)
  PROVE  LastInv'
<1> USE SizeAssumption
<1> DEFINE m == Inserted(k, ttl)
           e == Written(k, ttl)
<1>1. /\ nextSeq \in Nat /\ clock \in Nat /\ clock' = clock /\ nextSeq' = nextSeq + 1
      /\ last' = [last EXCEPT ![k] = [seq |-> nextSeq + 1, expires |-> clock + ttl]]
      /\ last \in [Key -> [seq : Nat, expires : Nat]]
  BY DEF Set, QueueInv, TypeOK
<1>2. /\ last'[k] = [seq |-> nextSeq + 1, expires |-> clock + ttl]
      /\ \A j \in Key : j # k => last'[j] = last[j]
  BY <1>1
<1>3. \A j \in Key : last'[j].seq \in 0 .. nextSeq' /\ last[j].seq \in 0 .. nextSeq
  BY <1>1, <1>2 DEF LastInv
<1>4. /\ e.key = k /\ e.seq = nextSeq + 1 /\ e.expires = clock + ttl
      /\ m = { x \in entries : x.key # k } \cup {e}
  BY DEF Written, Inserted
<1>5. /\ entries' \subseteq m
      /\ \A d \in m \ entries', f \in entries' : d.seq < f.seq
      /\ entries' = m \/ (Limit > 0 /\ Cardinality(entries') = Limit)
  BY SetKeepsNewest
<1>6. m \in SUBSET Entry /\ IsFiniteSet(m) /\ Distinct(m)
  BY SetInserts
<1> HIDE DEF m, e
<1>7. \A x \in m : /\ last'[x.key].seq = x.seq /\ last'[x.key].expires = x.expires
                   /\ x.key \in Key
  <2>1. \A x \in m : x.key \in Key
    BY <1>6 DEF Entry
  <2>2. \A x \in m : x = e \/ (x \in entries /\ x.key # k)
    BY <1>4
  <2> QED BY <1>2, <1>4, <2>1, <2>2 DEF LastInv
<1>8. Ever' = Ever \cup {k}
  <2>1. last'[k].seq > 0
    BY <1>1, <1>2
  <2> QED BY <1>2, <2>1 DEF Ever
<1>9. IsFiniteSet(Ever')
  BY <1>8, FS_AddElement DEF LastInv
<1>10. \A j \in Key : /\ WrittenAfter(j)' \subseteq Ever'
                      /\ IsFiniteSet(WrittenAfter(j)')
                      /\ Cardinality(WrittenAfter(j)') \in Nat
  <2> SUFFICES ASSUME NEW j \in Key PROVE WrittenAfter(j)' \subseteq Ever'
    BY <1>9, FS_Subset, FS_CardinalityType
  <2> SUFFICES ASSUME NEW i \in Key, last'[i].seq > last'[j].seq PROVE last'[i].seq > 0
    BY DEF WrittenAfter, Ever
  <2>1. last'[i].seq \in Nat /\ last'[j].seq \in Nat
    BY <1>1, <1>3
  <2> QED BY <2>1
<1>11. ASSUME NEW d \in m, d \notin entries'
       PROVE  Limit > 0 /\ Cardinality(WrittenAfter(d.key)') >= Limit
  <2>1. Limit > 0 /\ Cardinality(entries') = Limit
    BY <1>5, <1>11
  <2>2. IsFiniteSet(entries') /\ \A x, y \in entries' : x.key = y.key => x = y
    <3>1. \A x, y \in m : x.key = y.key => x = y
      <4> SUFFICES ASSUME NEW x \in m, NEW y \in m, x.key = y.key PROVE x = y
        OBVIOUS
      <4>1. x.seq = last'[x.key].seq /\ y.seq = last'[y.key].seq
        BY <1>7
      <4> QED BY <1>6, <4>1 DEF Distinct
    <3> QED BY <1>5, <1>6, <3>1, FS_Subset
  <2> DEFINE W == WrittenAfter(d.key)'
             f == [x \in entries' |-> x.key]
  <2>3. \A x \in entries' : x.key \in W
    <3> SUFFICES ASSUME NEW x \in entries' PROVE x.key \in Key /\ last'[x.key].seq > last'[d.key].seq
      BY DEF WrittenAfter
    <3>1. d.seq < x.seq /\ x \in m
      BY <1>5, <1>11
    <3>2. last'[x.key].seq = x.seq /\ last'[d.key].seq = d.seq /\ x.key \in Key
      BY <1>7, <3>1
    <3>3. x.seq \in Nat /\ d.seq \in Nat
      BY <1>6, <3>1 DEF Entry
    <3> QED BY <3>1, <3>2, <3>3
  <2>4. f \in Injection(entries', W)
    BY <2>2, <2>3 DEF Injection, IsInjective
  <2>5. IsFiniteSet(W) /\ Cardinality(W) \in Nat
    BY <1>7, <1>10
  <2> HIDE DEF f, W
  <2>6. Cardinality(entries') <= Cardinality(W)
    BY <2>4, <2>5, FS_Injection
  <2> QED BY <2>1, <2>5, <2>6 DEF W
<1>12. ASSUME NEW j \in Key PROVE Accounted(j)'
  <2>1. ASSUME NEW d \in m, d.key = j PROVE Accounted(j)'
    BY <1>11, <2>1 DEF Accounted
  <2>2. CASE j = k
    BY <1>4, <2>1, <2>2
  <2>3. CASE j # k
    <3>1. ASSUME NEW d \in entries, d.key = j PROVE Accounted(j)'
      BY <1>4, <2>1, <2>3, <3>1
    <3>2. CASE clock >= last[j].expires
      BY <1>1, <1>2, <2>3, <3>2 DEF Accounted
    <3>3. CASE Limit > 0 /\ Cardinality(WrittenAfter(j)) >= Limit
      <4>1. WrittenAfter(j) \subseteq WrittenAfter(j)'
        <5> SUFFICES ASSUME NEW i \in Key, last[i].seq > last[j].seq
                     PROVE  last'[i].seq > last'[j].seq
          BY DEF WrittenAfter
        <5>1. last'[j] = last[j] /\ last[j].seq \in 0 .. nextSeq
          BY <1>2, <1>3, <2>3
        <5>2. last'[i].seq = nextSeq + 1 \/ last'[i] = last[i]
          BY <1>2
        <5> QED BY <1>1, <5>1, <5>2
      <4>2. Cardinality(WrittenAfter(j)) <= Cardinality(WrittenAfter(j)')
        BY <1>10, <4>1, FS_Subset
      <4>3. Cardinality(WrittenAfter(j)) \in Nat
        BY <1>10, <4>1, FS_Subset, FS_CardinalityType
      <4> QED BY <1>10, <3>3, <4>2, <4>3 DEF Accounted
    <3> QED BY <3>1, <3>2, <3>3 DEF LastInv, Accounted
  <2> QED BY <2>2, <2>3
<1> QED BY <1>3, <1>5, <1>7, <1>9, <1>12 DEF LastInv

\* A Get answers the last write of its key while it lasts, and misses one that has not
\* expired only behind as many other keys as the cache holds: for any keys, bound,
\* slack and lifetimes, and whatever is compacted.
THEOREM AnswersTheLastWrite == Spec => []AnswersAreLastWrites
<1> USE SizeAssumption
<1>1. Init => LastInv /\ AnswersAreLastWrites
  <2> SUFFICES ASSUME Init PROVE LastInv
    BY DEF Init, AnswersAreLastWrites
  <2>1. Ever = {}
    BY DEF Init, Ever
  <2>2. \A k \in Key : last[k].seq = 0 /\ last[k].expires = 0 /\ clock = 0 /\ nextSeq = 0
    BY DEF Init
  <2>3. entries = {}
    BY DEF Init
  <2> QED BY <2>1, <2>2, <2>3, FS_EmptySet DEF LastInv, Accounted
<1>2. QueueInv /\ LastInv /\ [Next]_vars /\ AnswersAreLastWrites => LastInv' /\ AnswersAreLastWrites'
  <2> SUFFICES ASSUME QueueInv, LastInv, [Next]_vars, AnswersAreLastWrites
               PROVE  LastInv' /\ AnswersAreLastWrites'
    OBVIOUS
  <2>1. ASSUME NEW k \in Key, Get(k) PROVE LastInv' /\ AnswersAreLastWrites'
    <3> DEFINE found == { x \in entries : x.key = k }
               dead == { x \in found : ~Fresh(x) }
    <3>1. /\ entries' = entries \ dead /\ UNCHANGED << nextSeq, clock, last >>
          /\ \/ found \ dead = {} /\ answer' = { [key |-> k, seq |-> 0] }
             \/ \E x \in found \ dead : answer' = { SlotOf(x) }
      BY <2>1 DEF Get
    <3>2. \A x \in dead : /\ x.key = k /\ x \in entries /\ clock >= last[k].expires
      <4> SUFFICES ASSUME NEW x \in dead PROVE x.key = k /\ x \in entries /\ clock >= last[k].expires
        OBVIOUS
      <4>1. x.key = k /\ x \in entries /\ ~(clock < x.expires)
        BY DEF Fresh
      <4>2. last[k].expires = x.expires
        BY <4>1 DEF LastInv
      <4>3. x.expires \in Nat /\ clock \in Nat
        BY <4>1 DEF QueueInv, TypeOK, Entry
      <4> QED BY <4>1, <4>2, <4>3
    <3>3. \A x \in found \ dead : x.key = k /\ x \in entries /\ clock < x.expires
      BY DEF Fresh
    <3>4. \A x \in entries : x.key = k => x \in found
      OBVIOUS
    <3> HIDE DEF found, dead
    <3>5. \A j \in Key : Accounted(j)'
      <4> SUFFICES ASSUME NEW j \in Key PROVE Accounted(j)'
        OBVIOUS
      <4>1. Accounted(j) /\ WrittenAfter(j)' = WrittenAfter(j)
        BY <3>1 DEF LastInv, WrittenAfter
      <4> QED BY <3>1, <3>2, <4>1 DEF Accounted
    <3>6. LastInv'
      BY <3>1, <3>5 DEF LastInv, Ever
    <3>7. AnswersAreLastWrites'
      <4>1. CASE found \ dead = {} /\ answer' = { [key |-> k, seq |-> 0] }
        <5>1. ~\E x \in entries' : x.key = k
          BY <3>1, <3>4, <4>1
        <5>2. Accounted(k)'
          BY <3>5
        <5> QED BY <4>1, <5>1, <5>2 DEF AnswersAreLastWrites, Accounted
      <4>2. ASSUME NEW x \in found \ dead, answer' = { SlotOf(x) }
            PROVE  AnswersAreLastWrites'
        <5>1. last'[x.key].seq = x.seq /\ last'[x.key].expires = x.expires /\ clock' < x.expires
          BY <3>1, <3>3 DEF LastInv
        <5>2. x.seq # 0
          BY <3>3 DEF QueueInv, IsMap
        <5> QED BY <4>2, <5>1, <5>2 DEF AnswersAreLastWrites, SlotOf
      <4> QED BY <3>1, <4>1, <4>2
    <3> QED BY <3>6, <3>7
  <2>2. ASSUME NEW k \in Key, NEW ttl \in 1 .. MaxTTL, Set(k, ttl)
        PROVE  LastInv' /\ AnswersAreLastWrites'
    <3>1. answer' = {}
      BY <2>2 DEF Set
    <3> QED BY <2>2, <3>1, SetAccounts DEF AnswersAreLastWrites
  <2>3. CASE Tick
    <3>1. /\ UNCHANGED << entries, nextSeq, last >> /\ clock' = clock + 1 /\ answer' = {}
          /\ clock \in Nat /\ last \in [Key -> [seq : Nat, expires : Nat]]
      BY <2>3 DEF Tick, QueueInv, TypeOK
    <3>2. \A j \in Key : Accounted(j)'
      <4> SUFFICES ASSUME NEW j \in Key PROVE Accounted(j)'
        OBVIOUS
      <4>1. Accounted(j) /\ WrittenAfter(j)' = WrittenAfter(j) /\ last[j].expires \in Nat
        BY <3>1 DEF LastInv, WrittenAfter
      <4>2. clock >= last[j].expires => clock' >= last'[j].expires
        BY <3>1, <4>1
      <4> QED BY <3>1, <4>1, <4>2 DEF Accounted
    <3> QED BY <3>1, <3>2 DEF LastInv, Ever, AnswersAreLastWrites
  <2>4. CASE UNCHANGED vars
    BY <2>4 DEF vars, LastInv, Ever, Accounted, WrittenAfter, AnswersAreLastWrites
  <2> QED BY <2>1, <2>2, <2>3, <2>4 DEF Next
<1> QED
  BY <1>1, <1>2, QueueInvHolds, PTL DEF Spec

-----------------------------------------------------------------------------
(* A typed WebSocket. *)

Frame == [kind : {"message", "part", "ping", "close"}, by : Goroutine \cup {"driver"}]

Waiting(t) == pc[t] \in {"telling", "closing"}

Closed == \E i \in DOMAIN calls : OwnClose(i)

\* Why nothing follows a close frame: only the goroutine that moved the flag
\* waits to send it, and once it is out nobody waits and no frame is open.
CloseInv ==
  /\ CloseFrameIsLast
  /\ \A t \in Writer : Waiting(t) => closed
  /\ \A t, u \in Writer : Waiting(t) /\ Waiting(u) => t = u
  /\ Closed => closed /\ \A t \in Writer : ~Waiting(t) /\ pc[t] # "encoding"

-----------------------------------------------------------------------------

\* A frame appended keeps the log well formed, and every earlier frame.
LEMMA AskAppends ==
  ASSUME NEW t \in Goroutine \cup {"driver"},
         NEW kind \in {"message", "part", "ping", "close"},
         calls \in Seq(Frame), Ask(t, kind)
  PROVE  /\ calls' \in Seq(Frame)
         /\ DOMAIN calls' = 1 .. Len(calls) + 1
         /\ DOMAIN calls = 1 .. Len(calls)
         /\ \A i \in DOMAIN calls : calls'[i] = calls[i]
         /\ calls'[Len(calls) + 1] = [kind |-> kind, by |-> t]
         /\ Len(calls') = Len(calls) + 1
         /\ Len(calls) \in Nat
  BY DEF Ask, Frame

\* The last frame is the one just appended.
LEMMA AskedLast ==
  ASSUME NEW t \in Goroutine \cup {"driver"},
         NEW kind \in {"message", "part", "ping", "close"},
         calls \in Seq(Frame), Ask(t, kind)
  PROVE  calls'[Len(calls')].by = t
<1>1. calls'[Len(calls')] = [kind |-> kind, by |-> t]
  BY AskAppends
<1> QED
  BY <1>1

\* Initially nobody holds the lock and no frame was asked for.
LEMMA InitTypeOK == SocketInit => SocketTypeOK
<1> SUFFICES ASSUME SocketInit PROVE SocketTypeOK
  OBVIOUS
<1>1. calls \in Seq(Frame)
  BY DEF SocketInit
<1>2. \A t \in Writer : pc[t] # "encoding" /\ lock # t
  BY SocketAssumption DEF SocketInit, Home, Writer, Goroutine
<1> QED
  BY <1>1, <1>2 DEF SocketInit, SocketTypeOK, Frame, Home, Goroutine

\* Every action keeps the shape of the state and the lock with the goroutine
\* that has a frame open.
LEMMA NextTypeOK == SocketTypeOK /\ [SocketNext]_socketVars => SocketTypeOK'
<1> SUFFICES ASSUME SocketTypeOK, [SocketNext]_socketVars PROVE SocketTypeOK'
  OBVIOUS
<1> USE SocketAssumption DEF Writer, Goroutine
<1>0. calls \in Seq(Frame)
  BY DEF SocketTypeOK, Frame
<1>1. ASSUME NEW t \in Writer, StartWrite(t) PROVE SocketTypeOK'
  BY <1>1 DEF StartWrite, Goto, Home, SocketTypeOK
<1>2. ASSUME NEW t \in Writer, FinishWrite(t) PROVE SocketTypeOK'
  <2>1. calls' \in Seq(Frame)
    BY <1>0, <1>2, AskAppends DEF FinishWrite
  <2> QED
    BY <1>2, <2>1 DEF FinishWrite, Goto, Home, SocketTypeOK, Frame
<1>3. ASSUME NEW t \in Writer, pc[t] # "encoding", Mark(t) PROVE SocketTypeOK'
  BY <1>3 DEF Mark, Goto, SocketTypeOK
<1>4. ASSUME NEW t \in Writer, Close(t) PROVE SocketTypeOK'
  BY <1>3, <1>4 DEF Close, Home
<1>5. ASSUME NEW t \in Writer, SendClose(t) PROVE SocketTypeOK'
  <2>1. calls' \in Seq(Frame)
    BY <1>0, <1>5, AskAppends DEF SendClose
  <2> QED
    BY <1>5, <2>1 DEF SendClose, Goto, Home, SocketTypeOK, Frame
<1>6. CASE Callback
  <2>1. CASE DriverRefuses
    <3>1. calls' \in Seq(Frame)
      BY <1>0, <2>1, AskAppends DEF DriverRefuses
    <3> QED
      BY <2>1, <3>1 DEF DriverRefuses, Goto, SocketTypeOK, Frame
  <2>2. CASE TooBig
    BY <1>3, <2>2 DEF TooBig
  <2>3. CASE StartRead \/ ReadReturns \/ MarkRefused \/ CallbackReturns
    BY <2>3 DEF StartRead, ReadReturns, MarkRefused, CallbackReturns, Goto, SocketTypeOK
  <2> QED
    BY <1>6, <2>1, <2>2, <2>3 DEF Callback
<1>7. CASE Ending
  <2>1. CASE ServeCloses /\ Mark("handler")
    BY <1>3, <2>1 DEF ServeCloses
  <2>2. CASE ServeCloses /\ ~Mark("handler")
    BY <2>2 DEF ServeCloses, Goto, SocketTypeOK
  <2>3. CASE ServeReturns \/ TransportCloses
    BY <2>3 DEF ServeReturns, TransportCloses, Goto, SocketTypeOK
  <2> QED
    BY <1>7, <2>1, <2>2, <2>3 DEF Ending
<1>8. CASE Pinger
  <2>1. calls' \in Seq(Frame)
    BY <1>0, <1>8, AskAppends DEF Pinger, Ping, StopPinging
  <2> QED
    BY <1>8, <2>1 DEF Pinger, Ping, StopPinging, Goto, SocketTypeOK, Frame
<1>9. CASE Finished \/ UNCHANGED socketVars
  BY <1>9 DEF Finished, socketVars, SocketTypeOK
<1> QED
  BY <1>1, <1>2, <1>4, <1>5, <1>6, <1>7, <1>8, <1>9 DEF SocketNext

\* Socket.mu is held exactly by the goroutine that has a frame open.
THEOREM SocketTypeCorrect == SocketSpec => []SocketTypeOK
  BY InitTypeOK, NextTypeOK, PTL DEF SocketSpec

-----------------------------------------------------------------------------

\* A frame of the socket goes out only from the holder of the lock, or while it
\* is free.
LEMMA StepKeepsFramesApart ==
  ASSUME SocketTypeOK, [SocketNext]_socketVars, calls' # calls, calls'[Len(calls')].by # "driver"
  PROVE  Encoding \subseteq {calls'[Len(calls')].by}
<1> USE SocketAssumption DEF Writer, Goroutine
<1>0. calls \in Seq(Frame)
  BY DEF SocketTypeOK, Frame
<1>1. ASSUME NEW t \in Writer, FinishWrite(t) PROVE Encoding \subseteq {calls'[Len(calls')].by}
  <2>1. Ask(t, "message") \/ Ask(t, "part")
    BY <1>1 DEF FinishWrite
  <2>3. calls'[Len(calls')].by = t
    BY <1>0, <2>1, AskedLast
  <2>2. \A u \in Encoding : u = t
    BY <1>1 DEF FinishWrite, Encoding, SocketTypeOK
  <2> QED
    BY <2>2, <2>3
<1>2. lock = "free" => Encoding = {}
  BY DEF Encoding, SocketTypeOK
<1>3. ASSUME NEW t \in Writer, SendClose(t) PROVE lock = "free"
  BY <1>3 DEF SendClose
<1>4. CASE DriverRefuses
  <2>1. calls'[Len(calls')].by = "driver"
    BY <1>0, <1>4, AskedLast DEF DriverRefuses
  <2> QED
    BY <2>1
<1>5. CASE Ping
  BY <1>2, <1>5 DEF Ping
<1> QED
  BY <1>1, <1>2, <1>3, <1>4, <1>5
     DEF SocketNext, StartWrite, Close, Mark, Callback, StartRead, ReadReturns, TooBig,
         MarkRefused, CallbackReturns, Ending, ServeCloses, ServeReturns,
         TransportCloses, Pinger, StopPinging, Finished, socketVars

\* Neither a message, a ping nor a close frame goes out inside another
\* goroutine's message.
THEOREM FramesStayApart == SocketSpec => FramesDoNotInterleave
<1>1. SocketTypeOK /\ [SocketNext]_socketVars =>
        [calls' # calls /\ calls'[Len(calls')].by # "driver" =>
           Encoding \subseteq {calls'[Len(calls')].by}]_calls
  BY StepKeepsFramesApart
<1> QED
  BY <1>1, SocketTypeCorrect, PTL DEF SocketSpec, FramesDoNotInterleave

-----------------------------------------------------------------------------

\* What is said of the log stays true while nothing is appended to it.
LEMMA QuietKeepsClosed ==
  ASSUME CloseFrameIsLast, UNCHANGED calls
  PROVE  CloseFrameIsLast' /\ (Closed' <=> Closed)
  BY DEF CloseFrameIsLast, Closed, OwnClose

\* A frame that is the driver's, or that is asked for before any close frame of
\* the socket, keeps the close frame last.
LEMMA AskKeepsCloseLast ==
  ASSUME SocketTypeOK, CloseFrameIsLast,
         NEW t \in Goroutine \cup {"driver"},
         NEW kind \in {"message", "part", "ping", "close"},
         Ask(t, kind), t = "driver" \/ ~Closed
  PROVE  /\ CloseFrameIsLast'
         /\ t = "driver" \/ kind # "close" => (Closed' <=> Closed)
<1>0. calls \in Seq(Frame)
  BY DEF SocketTypeOK, Frame
<1>1. /\ DOMAIN calls' = 1 .. Len(calls) + 1
      /\ DOMAIN calls = 1 .. Len(calls)
      /\ \A i \in DOMAIN calls : calls'[i] = calls[i]
      /\ calls'[Len(calls) + 1] = [kind |-> kind, by |-> t]
      /\ Len(calls) \in Nat
  BY <1>0, AskAppends
<1>2. \A i \in DOMAIN calls : OwnClose(i)' <=> OwnClose(i)
  BY <1>1 DEF OwnClose
<1>3. CloseFrameIsLast'
  <2> SUFFICES ASSUME NEW i \in DOMAIN calls', NEW j \in DOMAIN calls', OwnClose(i)', i < j
               PROVE  calls'[j].by = "driver"
    BY DEF CloseFrameIsLast
  <2>1. i \in DOMAIN calls /\ OwnClose(i)
    BY <1>1, <1>2
  <2>2. CASE j \in DOMAIN calls
    BY <1>1, <2>1, <2>2 DEF CloseFrameIsLast
  <2>3. CASE j = Len(calls) + 1
    BY <1>1, <2>1, <2>3 DEF Closed
  <2> QED
    BY <1>1, <2>2, <2>3
<1>4. ASSUME t = "driver" \/ kind # "close" PROVE Closed' <=> Closed
  BY <1>1, <1>2, <1>4 DEF Closed, OwnClose
<1> QED
  BY <1>3, <1>4

\* Initially no close frame is out and nobody waits to send one.
LEMMA InitCloseInv == SocketInit => CloseInv
  BY SocketAssumption
     DEF SocketInit, CloseInv, CloseFrameIsLast, OwnClose, Waiting, Closed, Home, Writer, Goroutine

\* One step keeps it, whichever goroutine takes it.
LEMMA NextCloseInv == SocketTypeOK /\ CloseInv /\ [SocketNext]_socketVars => CloseInv'
<1> SUFFICES ASSUME SocketTypeOK, CloseInv, [SocketNext]_socketVars PROVE CloseInv'
  OBVIOUS
<1> USE SocketAssumption DEF Writer, Goroutine
<1>1. ASSUME NEW t \in Writer, StartWrite(t) PROVE CloseInv'
  BY <1>1, QuietKeepsClosed DEF StartWrite, Goto, CloseInv, Waiting, SocketTypeOK
<1>2. ASSUME NEW t \in Writer, FinishWrite(t) PROVE CloseInv'
  <2>1. ~Closed
    BY <1>2 DEF FinishWrite, CloseInv
  <2>2. CloseFrameIsLast' /\ ~Closed'
    BY <1>2, <2>1, AskKeepsCloseLast, QuietKeepsClosed DEF FinishWrite, CloseInv
  <2> QED
    BY <1>2, <2>2 DEF FinishWrite, Goto, Home, CloseInv, Waiting, SocketTypeOK
<1>3. ASSUME NEW t \in Writer, Mark(t) PROVE CloseInv'
  BY <1>3, QuietKeepsClosed DEF Mark, Goto, CloseInv, Waiting, SocketTypeOK
<1>4. ASSUME NEW t \in Writer, SendClose(t) PROVE CloseInv'
  <2>1. Waiting(t) /\ closed /\ ~Closed
    BY <1>4 DEF SendClose, CloseInv, Waiting
  <2>2. \A u \in Writer : pc[u] # "encoding"
    BY <1>4 DEF SendClose, SocketTypeOK
  <2>3. CloseFrameIsLast'
    BY <1>4, <2>1, AskKeepsCloseLast DEF SendClose, CloseInv
  <2>4. \A u \in Writer : pc'[u] # "encoding" /\ pc'[u] \notin {"telling", "closing"}
    BY <1>4, <2>1, <2>2 DEF SendClose, Goto, Home, CloseInv, Waiting, SocketTypeOK
  <2> QED
    BY <1>4, <2>1, <2>3, <2>4 DEF SendClose, CloseInv, Waiting
<1>5. CASE Callback
  <2>1. CASE DriverRefuses
    <3>1. CloseFrameIsLast' /\ (Closed' <=> Closed)
      BY <2>1, AskKeepsCloseLast DEF DriverRefuses, CloseInv
    <3> QED
      BY <2>1, <3>1 DEF DriverRefuses, Goto, CloseInv, Waiting, SocketTypeOK
  <2>2. CASE TooBig
    BY <1>3, <2>2 DEF TooBig
  <2>3. CASE StartRead \/ ReadReturns \/ MarkRefused \/ CallbackReturns
    BY <2>3, QuietKeepsClosed
       DEF StartRead, ReadReturns, MarkRefused, CallbackReturns, Goto, CloseInv, Waiting, SocketTypeOK
  <2> QED
    BY <1>5, <2>1, <2>2, <2>3 DEF Callback
<1>6. CASE Ending
  <2>1. CASE ServeCloses /\ ~Mark("handler")
    BY <2>1, QuietKeepsClosed DEF ServeCloses, Goto, CloseInv, Waiting, SocketTypeOK
  <2>2. CASE ServeReturns \/ TransportCloses
    BY <2>2, QuietKeepsClosed
       DEF ServeReturns, TransportCloses, Goto, CloseInv, Waiting, SocketTypeOK
  <2> QED
    BY <1>3, <1>6, <2>1, <2>2 DEF Ending
<1>7. CASE Pinger
  <2>1. CloseFrameIsLast' /\ (Closed' <=> Closed)
    BY <1>7, AskKeepsCloseLast, QuietKeepsClosed DEF Pinger, Ping, StopPinging, CloseInv
  <2> QED
    BY <1>7, <2>1 DEF Pinger, Ping, StopPinging, Goto, CloseInv, Waiting, SocketTypeOK
<1>8. CASE Finished \/ UNCHANGED socketVars
  BY <1>8, QuietKeepsClosed DEF Finished, socketVars, CloseInv, Waiting
<1> QED
  BY <1>1, <1>2, <1>3, <1>4, <1>5, <1>6, <1>7, <1>8 DEF SocketNext, Close

\* Whoever closes the socket, and whatever was being written, its close frame
\* is the last frame it asks the driver for.
THEOREM CloseFrameStaysLast == SocketSpec => []CloseFrameIsLast
<1>1. CloseInv => CloseFrameIsLast
  BY DEF CloseInv
<1> QED
  BY <1>1, SocketTypeCorrect, InitCloseInv, NextCloseInv, PTL DEF SocketSpec

-----------------------------------------------------------------------------

Told == \E i \in DOMAIN calls : calls[i].kind = "close"

\* Who owes the peer a close frame: whoever moved the flag, unless the driver had
\* sent one. Only the callback's goroutine closes while it ends.
TellInv ==
  /\ closed => Told \/ \E t \in Writer : Waiting(t)
  /\ pc["handler"] = "refused" => Told
  /\ pc["handler"] \in {"closing", "returning", "returned", "over"} => closed
  /\ conn = "closed" => pc["handler"] = "over"
  /\ \A t \in Other : pc[t] \notin {"closing", "ending"}

\* A frame that was asked for stays in the log, and a close frame is one.
LEMMA AskKeepsTold ==
  ASSUME SocketTypeOK, NEW t \in Goroutine \cup {"driver"},
         NEW kind \in {"message", "part", "ping", "close"}, Ask(t, kind)
  PROVE  (Told \/ kind = "close") => Told'
<1>1. calls \in Seq(Frame)
  BY DEF SocketTypeOK, Frame
<1>2. /\ DOMAIN calls' = 1 .. Len(calls) + 1
      /\ DOMAIN calls = 1 .. Len(calls)
      /\ \A i \in DOMAIN calls : calls'[i] = calls[i]
      /\ calls'[Len(calls) + 1] = [kind |-> kind, by |-> t]
      /\ Len(calls) \in Nat
  BY <1>1, AskAppends
<1> QED BY <1>2 DEF Told

\* One step keeps it, whichever goroutine takes it.
LEMMA NextTellInv == SocketTypeOK /\ TellInv /\ [SocketNext]_socketVars => TellInv'
<1> SUFFICES ASSUME SocketTypeOK, TellInv, [SocketNext]_socketVars PROVE TellInv'
  OBVIOUS
<1> USE SocketAssumption DEF Writer, Goroutine
<1>0. /\ pc \in [Goroutine -> { "idle", "callback", "encoding", "telling", "closing", "reading",
                                "refused", "ending", "returning", "returned", "over" }]
      /\ "handler" \notin Other /\ closed \in BOOLEAN
  BY DEF SocketTypeOK
<1>1. UNCHANGED calls => (Told' <=> Told)
  BY DEF Told
<1>2. ASSUME NEW t \in Writer, StartWrite(t) PROVE TellInv'
  BY <1>0, <1>1, <1>2 DEF StartWrite, Goto, Home, TellInv, Waiting
<1>3. ASSUME NEW t \in Writer, FinishWrite(t) PROVE TellInv'
  <2>1. Told => Told'
    BY <1>1, <1>3, AskKeepsTold DEF FinishWrite
  <2> QED BY <1>0, <1>3, <2>1 DEF FinishWrite, Goto, Home, TellInv, Waiting
<1>4. ASSUME NEW t \in Writer, Mark(t), t # "handler" => pc[t] # "ending" PROVE TellInv'
  BY <1>0, <1>1, <1>4 DEF Mark, Goto, TellInv, Waiting
<1>5. ASSUME NEW t \in Writer, Close(t) PROVE TellInv'
  BY <1>4, <1>5 DEF Close, TellInv
<1>6. ASSUME NEW t \in Writer, SendClose(t) PROVE TellInv'
  <2>1. Told'
    BY <1>6, AskKeepsTold DEF SendClose
  <2>2. pc[t] = "closing" => closed /\ t = "handler"
    BY <1>6 DEF TellInv, SendClose
  <2> QED BY <1>0, <1>6, <2>1, <2>2 DEF SendClose, Goto, Home, TellInv, Waiting
<1>7. CASE Callback
  <2>1. CASE DriverRefuses
    <3>1. Told'
      BY <2>1, AskKeepsTold DEF DriverRefuses
    <3> QED BY <1>0, <2>1, <3>1 DEF DriverRefuses, Goto, TellInv, Waiting
  <2>2. CASE TooBig
    BY <1>4, <2>2 DEF TooBig
  <2>3. CASE MarkRefused
    BY <1>0, <1>1, <2>3 DEF MarkRefused, Goto, TellInv, Waiting
  <2>4. CASE StartRead \/ ReadReturns \/ CallbackReturns
    BY <1>0, <1>1, <2>4 DEF StartRead, ReadReturns, CallbackReturns, Goto, TellInv, Waiting
  <2> QED BY <1>7, <2>1, <2>2, <2>3, <2>4 DEF Callback
<1>8. CASE Ending
  <2>1. CASE ServeCloses /\ ~Mark("handler")
    BY <1>0, <1>1, <2>1 DEF ServeCloses, Goto, TellInv, Waiting
  <2>2. CASE ServeReturns \/ TransportCloses
    BY <1>0, <1>1, <2>2 DEF ServeReturns, TransportCloses, Goto, TellInv, Waiting
  <2> QED BY <1>4, <1>8, <2>1, <2>2 DEF Ending
<1>9. CASE Pinger
  <2>1. Told => Told'
    BY <1>1, <1>9, AskKeepsTold DEF Pinger, Ping, StopPinging
  <2> QED BY <1>0, <1>9, <2>1 DEF Pinger, Ping, StopPinging, Goto, TellInv, Waiting
<1>10. CASE Finished \/ UNCHANGED socketVars
  BY <1>1, <1>10 DEF Finished, socketVars, TellInv, Waiting
<1> QED
  BY <1>2, <1>3, <1>5, <1>6, <1>7, <1>8, <1>9, <1>10 DEF SocketNext

\* No connection is closed on a peer that nobody told, for any number of
\* goroutines that close: at worst the one that won is still to send its frame.
THEOREM PeersAreTold == SocketSpec => []SomebodyTells
<1>1. SocketInit => TellInv
  BY SocketAssumption DEF SocketInit, TellInv, Home, Writer, Goroutine
<1>2. SocketTypeOK /\ TellInv => SomebodyTells
  <2> SUFFICES ASSUME SocketTypeOK, TellInv, conn = "closed", ~Told
               PROVE  \E t \in Other : pc[t] = "telling"
    BY DEF SomebodyTells, Told
  <2>1. PICK t \in Writer : Waiting(t)
    BY DEF TellInv
  <2>2. t # "handler"
    BY <2>1 DEF TellInv, Waiting
  <2> QED BY <2>1, <2>2 DEF TellInv, Waiting, Writer
<1> QED BY <1>1, <1>2, SocketTypeCorrect, NextTellInv, PTL DEF SocketSpec
=============================================================================
