--------------------------- MODULE Updates_proofs ---------------------------
(***************************************************************************)
(* Theorems about Updates, for any pages whose boundaries are nested in    *)
(* one another, and the client that does what the documentation asks.      *)
(***************************************************************************)
EXTENDS Updates, Integers, FiniteSetTheorems, WellFoundedInduction, TLAPS

-----------------------------------------------------------------------------
(* Sequences and the places kept of them. *)

\* The number of i among the indices kept.
Rank(kept, i) == Cardinality({ j \in kept : j <= i })

\* Ranks number the indices without a gap, in their order.
LEMMA Ranks ==
  ASSUME NEW n \in Nat, NEW kept \in SUBSET (1 .. n)
  PROVE  /\ IsFiniteSet(kept) /\ Cardinality(kept) \in Nat
         /\ \A i \in kept : Rank(kept, i) \in 1 .. Cardinality(kept)
         /\ \A i, j \in kept : i < j => Rank(kept, i) < Rank(kept, j)
         /\ \A r \in 1 .. Cardinality(kept) : \E i \in kept : Rank(kept, i) = r
<1> DEFINE Upto(i) == { j \in kept : j <= i }
<1>1. IsFiniteSet(kept) /\ Cardinality(kept) \in Nat
  <2>1. IsFiniteSet(1 .. n)
    BY FS_Interval
  <2>2. IsFiniteSet(kept)
    BY <2>1, FS_Subset
  <2> QED BY <2>2, FS_CardinalityType
<1>5. \A i \in kept : i \in Int
  OBVIOUS
<1>2. \A i \in kept : /\ IsFiniteSet(Upto(i))
                      /\ Cardinality(Upto(i)) \in 1 .. Cardinality(kept)
  <2> TAKE i \in kept
  <2>1. Upto(i) \in SUBSET kept /\ i \in Upto(i)
    OBVIOUS
  <2>2. IsFiniteSet(Upto(i)) /\ Cardinality(Upto(i)) <= Cardinality(kept)
    BY <1>1, <2>1, FS_Subset
  <2>3. Cardinality(Upto(i)) \in Nat /\ Cardinality(Upto(i)) # 0
    BY <2>1, <2>2, FS_CardinalityType, FS_EmptySet
  <2> QED BY <1>1, <2>2, <2>3
<1>3. ASSUME NEW i \in kept, NEW j \in kept, i < j
      PROVE  Cardinality(Upto(i)) < Cardinality(Upto(j))
  <2>1. Upto(i) \in SUBSET Upto(j) /\ j \in Upto(j) /\ j \notin Upto(i)
    <3>1. i \in Int /\ j \in Int /\ \A x \in kept : x \in Int /\ (x <= i => x <= j)
      BY <1>3, <1>5
    <3>2. /\ \A x \in Upto(i) : x \in kept /\ x <= i
          /\ \A x \in kept : x <= j => x \in Upto(j)
          /\ j <= j /\ ~(j <= i)
      BY <1>3, <3>1
    <3> HIDE DEF Upto
    <3>3. \A x \in Upto(i) : x \in Upto(j)
      BY <3>1, <3>2
    <3> QED BY <3>2, <3>3
  <2>2. /\ Cardinality(Upto(i)) <= Cardinality(Upto(j))
        /\ Cardinality(Upto(j)) = Cardinality(Upto(i)) => Upto(j) = Upto(i)
    BY <1>2, <2>1, FS_Subset
  <2>3. Cardinality(Upto(i)) \in Int /\ Cardinality(Upto(j)) \in Int
    BY <1>2
  <2> QED BY <2>1, <2>2, <2>3
<1>4. \A r \in 1 .. Cardinality(kept) : \E i \in kept : Cardinality(Upto(i)) = r
  <2> DEFINE f == [i \in kept |-> Cardinality(Upto(i))]
  <2>1. f \in [kept -> 1 .. Cardinality(kept)]
    BY <1>2
  <2>2. \A i, j \in kept : f[i] = f[j] => i = j
    <3> TAKE i, j \in kept
    <3>1. i \in Int /\ j \in Int /\ f[i] = Cardinality(Upto(i)) /\ f[j] = Cardinality(Upto(j))
      OBVIOUS
    <3>2. f[i] \in Int /\ f[j] \in Int
      BY <2>1
    <3>3. (i < j => f[i] < f[j]) /\ (j < i => f[j] < f[i])
      BY <1>3, <3>1
    <3> HIDE DEF f
    <3> QED BY <3>1, <3>2, <3>3
  <2>3. f \in Injection(kept, 1 .. Cardinality(kept))
    <3> HIDE DEF f
    <3> QED BY <2>1, <2>2 DEF Injection, IsInjective
  <2>4. /\ IsFiniteSet(1 .. Cardinality(kept))
        /\ Cardinality(1 .. Cardinality(kept)) = Cardinality(kept)
    BY <1>1, FS_Interval
  <2>5. f \in Surjection(kept, 1 .. Cardinality(kept))
    <3> HIDE DEF f
    <3> QED BY <2>3, <2>4, FS_Injection
  <2>6. \A r \in 1 .. Cardinality(kept) : \E i \in kept : f[i] = r
    <3> HIDE DEF f
    <3> QED BY <2>5 DEF Surjection
  <2> QED BY <2>6
<1> QED BY <1>1, <1>2, <1>3, <1>4 DEF Rank

\* at lists the indices kept, in their order, and what Picked has of them.
Lists(at, q, kept) ==
  /\ at \in [1 .. Cardinality(kept) -> kept]
  /\ \A n \in 1 .. Cardinality(kept) : Picked(q, kept)[n] = q[at[n]]
  /\ \A m, n \in 1 .. Cardinality(kept) : m < n => at[m] < at[n]
  /\ \A i \in kept : \E n \in 1 .. Cardinality(kept) : at[n] = i

\* What Picked returns: as many elements as indices were kept, each of them at a
\* kept index, in the order of the indices, and none left out.
LEMMA PickedInOrder ==
  ASSUME NEW S, NEW q \in Seq(S), NEW kept \in SUBSET (1 .. Len(q))
  PROVE  /\ Picked(q, kept) \in Seq(S)
         /\ Len(Picked(q, kept)) = Cardinality(kept) /\ Cardinality(kept) \in Nat
         /\ \E at : Lists(at, q, kept)
<1> DEFINE at == [n \in 1 .. Cardinality(kept) |-> CHOOSE i \in kept : Rank(kept, i) = n]
<1>1. Len(q) \in Nat /\ \A i \in kept : i \in Int /\ q[i] \in S
  OBVIOUS
<1>2. /\ Cardinality(kept) \in Nat
      /\ \A i \in kept : Rank(kept, i) \in 1 .. Cardinality(kept)
      /\ \A i, j \in kept : i < j => Rank(kept, i) < Rank(kept, j)
      /\ \A r \in 1 .. Cardinality(kept) : \E i \in kept : Rank(kept, i) = r
  BY <1>1, Ranks
<1>3. \A n \in 1 .. Cardinality(kept) : at[n] \in kept /\ Rank(kept, at[n]) = n
  BY <1>2
<1>4. at \in [1 .. Cardinality(kept) -> kept]
  BY <1>3
<1>5. Picked(q, kept) = [n \in 1 .. Cardinality(kept) |-> q[at[n]]]
  BY DEF Picked, Rank
<1> HIDE DEF at
<1>6. Picked(q, kept) \in [1 .. Cardinality(kept) -> S]
  <2>1. \A n \in 1 .. Cardinality(kept) : q[at[n]] \in S
    BY <1>1, <1>3
  <2> QED BY <1>5, <2>1
<1>7. Picked(q, kept) \in Seq(S) /\ Len(Picked(q, kept)) = Cardinality(kept)
  BY <1>2, <1>6
<1>8. \A m, n \in 1 .. Cardinality(kept) : m < n => at[m] < at[n]
  <2> SUFFICES ASSUME NEW m \in 1 .. Cardinality(kept), NEW n \in 1 .. Cardinality(kept), m < n
               PROVE  at[m] < at[n]
    OBVIOUS
  <2>1. at[m] \in Int /\ at[n] \in Int
    BY <1>1, <1>3
  <2>2. at[m] # at[n] /\ ~(at[n] < at[m])
    <3>1. /\ at[m] \in kept /\ Rank(kept, at[m]) = m
          /\ at[n] \in kept /\ Rank(kept, at[n]) = n
      BY <1>3
    <3>2. m \in Int /\ n \in Int
      BY <1>2
    <3>3. at[n] < at[m] => Rank(kept, at[n]) < Rank(kept, at[m])
      BY <1>2, <3>1
    <3> QED BY <3>1, <3>2, <3>3
  <2> QED BY <2>1, <2>2
<1>9. \A i \in kept : \E n \in 1 .. Cardinality(kept) : at[n] = i
  <2> SUFFICES ASSUME NEW i \in kept PROVE \E n \in 1 .. Cardinality(kept) : at[n] = i
    OBVIOUS
  <2> DEFINE n == Rank(kept, i)
  <2>1. n \in 1 .. Cardinality(kept)
    BY <1>2
  <2>2. at[n] \in kept /\ Rank(kept, at[n]) = n
    BY <1>3, <2>1
  <2>3. at[n] \in Int /\ i \in Int
    BY <1>1, <2>2
  <2>4. at[n] = i
    BY <1>2, <2>2, <2>3
  <2> QED BY <2>1, <2>4
<1>10. Lists(at, q, kept)
  BY <1>4, <1>5, <1>8, <1>9 DEF Lists
<1> QED
  BY <1>2, <1>7, <1>10
\* One sequence after another.
LEMMA Joined ==
  ASSUME NEW S, NEW s \in Seq(S), NEW t \in Seq(S)
  PROVE  /\ s \o t \in Seq(S) /\ Len(s \o t) = Len(s) + Len(t) /\ Len(s \o t) \in Nat
         /\ \A n \in 1 .. Len(s) : (s \o t)[n] = s[n]
         /\ \A n \in 1 .. Len(t) : (s \o t)[Len(s) + n] = t[n]
<1>1. Len(s) \in Nat /\ Len(t) \in Nat
  OBVIOUS
<1>2. ASSUME NEW n \in 1 .. Len(t) PROVE (s \o t)[Len(s) + n] = t[n]
  <2>1. Len(s) + n \in 1 .. Len(s) + Len(t) /\ ~(Len(s) + n <= Len(s)) /\ Len(s) + n - Len(s) = n
    BY <1>1
  <2> QED BY <2>1
<1> QED BY <1>1, <1>2

\* Keeping all of a sequence.
LEMMA PickedAll ==
  ASSUME NEW S, NEW q \in Seq(S)
  PROVE  Picked(q, DOMAIN q) = q
<1>1. DOMAIN q = 1 .. Len(q) /\ Len(q) \in Nat /\ q = [n \in 1 .. Len(q) |-> q[n]]
  OBVIOUS
<1>2. ASSUME NEW i \in 1 .. Len(q)
      PROVE  Cardinality({ j \in 1 .. Len(q) : j <= i }) = i
  <2>1. { j \in 1 .. Len(q) : j <= i } = 1 .. i
    BY <1>1
  <2>2. i \in Nat /\ 1 <= i
    BY <1>1
  <2>3. Cardinality(1 .. i) = i - 1 + 1
    <3>1. 1 \in Int /\ i \in Int /\ ~(1 > i)
      BY <2>2
    <3> QED BY <3>1, FS_Interval
  <2>4. i - 1 + 1 = i
    BY <2>2
  <2> QED BY <2>1, <2>3, <2>4
<1>3. Cardinality(1 .. Len(q)) = Len(q)
  <2>1. Cardinality(1 .. Len(q)) = IF 1 > Len(q) THEN 0 ELSE Len(q) - 1 + 1
    <3>1. 1 \in Int /\ Len(q) \in Int
      BY <1>1
    <3> QED BY <3>1, FS_Interval
  <2> QED BY <1>1, <2>1
<1>4. ASSUME NEW n \in 1 .. Len(q)
      PROVE  (CHOOSE i \in 1 .. Len(q) : Cardinality({ j \in 1 .. Len(q) : j <= i }) = n) = n
  <2>1. \A i \in 1 .. Len(q) : Cardinality({ j \in 1 .. Len(q) : j <= i }) = n <=> i = n
    BY <1>2
  <2> QED BY <2>1
<1> QED BY <1>1, <1>3, <1>4 DEF Picked

\* A list keeps its elements when none is in the other one.
LEMMA WithoutOthers ==
  ASSUME NEW list \in Seq(Id), NEW others, ToSet(list) \cap ToSet(others) = {}
  PROVE  Without(list, others) = list
<1>1. { n \in DOMAIN list : list[n] \notin ToSet(others) } = DOMAIN list
  BY DEF ToSet
<1> QED BY <1>1, PickedAll DEF Without

-----------------------------------------------------------------------------
(* Pages and what is said of them. *)

\* The boundaries are those the walk meets.
LEMMA Walked ==
  ASSUME NEW page, IsNested(page)
  PROVE  LET order == Preorder(page.kids)
         IN  /\ order \in Seq(Id) /\ Len(order) \in Nat /\ DOMAIN order = 1 .. Len(order)
             /\ 1 \in DOMAIN order /\ order[1] = Root
             /\ \A n \in DOMAIN order : order[n] \in Instances(page) /\ order[n] \in Id
             /\ \A i \in Instances(page) : \E n \in DOMAIN order : i = order[n]
             /\ Instances(page) \subseteq Id /\ page.kids \in [Id -> Seq(Id)]
             /\ \A m, n \in DOMAIN order : order[m] = order[n] => m = n
<1> DEFINE order == Preorder(page.kids)
<1>1. /\ order \in Seq(Id) /\ IsInjective(order) /\ page.kids \in [Id -> Seq(Id)]
      /\ 1 \in DOMAIN order /\ order[1] = Root
  BY DEF IsNested
<1>2. Instances(page) = ToSet(order)
  BY DEF Instances
<1> HIDE DEF order
<1>3. Len(order) \in Nat /\ DOMAIN order = 1 .. Len(order) /\ \A n \in DOMAIN order : order[n] \in Id
  BY <1>1
<1>4. \A m, n \in DOMAIN order : order[m] = order[n] => m = n
  BY <1>1 DEF IsInjective
<1>5. /\ \A n \in DOMAIN order : order[n] \in Instances(page)
      /\ \A i \in Instances(page) : \E n \in DOMAIN order : i = order[n]
  BY <1>2 DEF ToSet
<1>6. Instances(page) \subseteq Id
  BY <1>3, <1>5
<1> QED BY <1>1, <1>3, <1>4, <1>5, <1>6 DEF order

\* What the manifest says of a boundary.
LEMMA ManifestOf ==
  ASSUME NEW page, IsNested(page), NEW i \in Instances(page)
  PROVE  /\ DOMAIN Manifest(page) = Instances(page)
         /\ Manifest(page)[i].frame = Frame(page, i)
         /\ Manifest(page)[i].children = page.kids[i]
         /\ Manifest(page)[i].parent = Parent(page, i)
         /\ Parent(page, i) \in Id \cup {Nobody}
         /\ i # Root => Parent(page, i) # Nobody
<1>1. PICK n \in DOMAIN Preorder(page.kids) : i = Preorder(page.kids)[n]
  BY Walked
<1>2. Parent(page, Root) = Nobody
  BY DEF Parent
<1>3. ASSUME i # Root PROVE Parent(page, i) \in Id
  <2>1. n # 1
    BY <1>1, <1>3, Walked
  <2>2. PICK m \in DOMAIN Preorder(page.kids) :
          Preorder(page.kids)[n] \in ToSet(page.kids[Preorder(page.kids)[m]])
    BY <2>1 DEF IsNested
  <2>3. \E p \in Instances(page) : i \in ToSet(page.kids[p])
    BY <1>1, <2>2, Walked
  <2>4. Parent(page, i) = CHOOSE p \in Instances(page) : i \in ToSet(page.kids[p])
    BY <1>3 DEF Parent
  <2>5. Parent(page, i) \in Instances(page)
    BY <2>3, <2>4
  <2> QED BY <2>5, Walked
<1> QED BY <1>2, <1>3, IdAssumption DEF Manifest

\* What Kind says of a boundary, and what it does not.
LEMMA KindIs ==
  ASSUME NEW page, IsNested(page), NEW had, NEW i \in Instances(page)
  PROVE  LET kind == Kind(Manifest(page), had, i)
         IN  /\ kind \in {"replace", "children", "unchanged"}
             /\ kind # "replace" => i \in DOMAIN had /\ had[i].frame = Frame(page, i)
             /\ kind = "unchanged" => had[i].children = page.kids[i]
             /\ i # Root /\ i \in DOMAIN had /\ had[i].frame = Frame(page, i)
                => kind # "replace"
BY ManifestOf DEF Kind

\* The records address every boundary, and one with an operation after all of those
\* with an operation before it in the document.
LEMMA ChosenInOrder ==
  ASSUME NEW page, IsNested(page), NEW had
  PROVE  LET order   == Preorder(page.kids)
             chosen  == Chosen(page, had)
             Told(i) == Kind(Manifest(page), had, i) # "unchanged"
         IN  /\ chosen \in Seq(Id) /\ Len(chosen) \in Nat
             /\ \A n \in 1 .. Len(chosen) : chosen[n] \in Instances(page)
             /\ \A i \in Instances(page) : \E n \in 1 .. Len(chosen) : chosen[n] = i
             /\ \A n \in 1 .. Len(chosen), p, q \in DOMAIN order :
                  Told(chosen[n]) /\ order[p] = chosen[n] /\ q < p /\ Told(order[q])
                  => \E m \in 1 .. Len(chosen) : m < n /\ chosen[m] = order[q]
<1> DEFINE Told(i) == Kind(Manifest(page), had, i) # "unchanged"
<1>a. PICK order : order = Preorder(page.kids)
  OBVIOUS
<1>b. PICK told : told = { n \in DOMAIN order : Told(order[n]) }
  OBVIOUS
<1>c. PICK rest : rest = DOMAIN order \ told
  OBVIOUS
<1>d. PICK first : first = Picked(order, told)
  OBVIOUS
<1>e. PICK last : last = Picked(order, rest)
  OBVIOUS
<1>f. PICK a : a = Cardinality(told)
  OBVIOUS
<1>g. PICK b : b = Cardinality(rest)
  OBVIOUS
<1>1. /\ order \in Seq(Id) /\ Len(order) \in Nat /\ DOMAIN order = 1 .. Len(order)
      /\ \A n \in DOMAIN order : order[n] \in Instances(page) /\ order[n] \in Id
      /\ \A i \in Instances(page) : \E n \in DOMAIN order : i = order[n]
      /\ \A m, n \in DOMAIN order : order[m] = order[n] => m = n
  <2>1. /\ Preorder(page.kids) \in Seq(Id) /\ Len(Preorder(page.kids)) \in Nat
        /\ DOMAIN Preorder(page.kids) = 1 .. Len(Preorder(page.kids))
        /\ \A n \in DOMAIN Preorder(page.kids) :
             Preorder(page.kids)[n] \in Instances(page) /\ Preorder(page.kids)[n] \in Id
        /\ \A i \in Instances(page) : \E n \in DOMAIN Preorder(page.kids) : i = Preorder(page.kids)[n]
        /\ \A m, n \in DOMAIN Preorder(page.kids) :
             Preorder(page.kids)[m] = Preorder(page.kids)[n] => m = n
    BY Walked
  <2> QED BY <1>a, <2>1
<1>2. Chosen(page, had) = first \o last
  BY <1>a, <1>b, <1>c, <1>d, <1>e DEF Chosen
<1> HIDE DEF Told
<1>3. told \in SUBSET (1 .. Len(order)) /\ rest \in SUBSET (1 .. Len(order))
  BY <1>1, <1>b, <1>c
<1>4. /\ first \in Seq(Id) /\ Len(first) = a /\ a \in Nat
      /\ last \in Seq(Id) /\ Len(last) = b /\ b \in Nat
  BY <1>1, <1>3, <1>d, <1>e, <1>f, <1>g, PickedInOrder
<1>5. PICK at \in [1 .. a -> told] :
        /\ \A n \in 1 .. a : first[n] = order[at[n]]
        /\ \A m, n \in 1 .. a : m < n => at[m] < at[n]
        /\ \A i \in told : \E n \in 1 .. a : at[n] = i
  <2>0. order \in Seq(Id) /\ told \in SUBSET (1 .. Len(order))
    BY <1>1, <1>3
  <2>1. PICK to : Lists(to, order, told)
    BY <2>0, PickedInOrder
  <2> QED BY <1>d, <1>f, <2>1 DEF Lists
<1>6. PICK on \in [1 .. b -> rest] :
        /\ \A n \in 1 .. b : last[n] = order[on[n]]
        /\ \A m, n \in 1 .. b : m < n => on[m] < on[n]
        /\ \A i \in rest : \E n \in 1 .. b : on[n] = i
  <2>0. order \in Seq(Id) /\ rest \in SUBSET (1 .. Len(order))
    BY <1>1, <1>3
  <2>1. PICK to : Lists(to, order, rest)
    BY <2>0, PickedInOrder
  <2> QED BY <1>e, <1>g, <2>1 DEF Lists
<1>7. PICK c : c = first \o last
  OBVIOUS
<1>8. /\ c \in Seq(Id) /\ Len(c) = a + b /\ Len(c) \in Nat
      /\ \A n \in 1 .. a : c[n] = first[n]
      /\ \A n \in 1 .. b : c[a + n] = last[n]
  <2>0. first \in Seq(Id) /\ last \in Seq(Id)
    BY <1>4
  <2>1. /\ first \o last \in Seq(Id) /\ Len(first \o last) = Len(first) + Len(last)
        /\ \A n \in 1 .. Len(first) : (first \o last)[n] = first[n]
        /\ \A n \in 1 .. Len(last) : (first \o last)[Len(first) + n] = last[n]
    BY <2>0, Joined
  <2>2. a + b \in Nat
    BY <1>4
  <2> QED BY <1>4, <1>7, <2>1, <2>2
<1>9. \A n \in 1 .. Len(c) : n \in 1 .. a \/ n - a \in 1 .. b
  BY <1>4, <1>8
<1>10. \A n \in 1 .. Len(c) : \/ n \in 1 .. a /\ c[n] = order[at[n]] /\ at[n] \in told
                              \/ c[n] = order[on[n - a]] /\ on[n - a] \in rest
  <2> TAKE n \in 1 .. Len(c)
  <2>1. CASE n \in 1 .. a
    BY <1>5, <1>8, <2>1
  <2>2. CASE n - a \in 1 .. b
    <3>1. c[a + (n - a)] = last[n - a] /\ a + (n - a) = n
      BY <1>4, <1>8, <2>2
    <3> QED BY <1>6, <2>2, <3>1
  <2> QED BY <1>9, <2>1, <2>2
<1>11. \A n \in 1 .. Len(c) : c[n] \in Instances(page)
  BY <1>1, <1>10, <1>b, <1>c
<1>12. ASSUME NEW i \in Instances(page) PROVE \E n \in 1 .. Len(c) : c[n] = i
  <2>1. PICK p \in DOMAIN order : i = order[p]
    BY <1>1
  <2>0. p \in told \/ p \in rest
    BY <1>c
  <2>2. CASE p \in told
    <3>1. PICK n \in 1 .. a : at[n] = p
      BY <1>5, <2>2
    <3>2. n \in 1 .. Len(c)
      BY <1>4, <1>8, <3>1
    <3>3. c[n] = i
      BY <1>5, <1>8, <2>1, <3>1
    <3> QED BY <3>2, <3>3
  <2>3. CASE p \in rest
    <3>1. PICK n \in 1 .. b : on[n] = p
      BY <1>6, <2>3
    <3>2. a + n \in 1 .. Len(c)
      BY <1>4, <1>8, <3>1
    <3>3. c[a + n] = i
      BY <1>6, <1>8, <2>1, <3>1
    <3> QED BY <3>2, <3>3
  <2> QED BY <2>0, <2>2, <2>3
<1>13. ASSUME NEW n \in 1 .. Len(c), NEW p \in DOMAIN order, NEW q \in DOMAIN order,
              Told(c[n]), order[p] = c[n], q < p, Told(order[q])
       PROVE  \E m \in 1 .. Len(c) : m < n /\ c[m] = order[q]
  <2>1. n \in 1 .. a /\ c[n] = order[at[n]] /\ at[n] \in told
    BY <1>10, <1>13, <1>b, <1>c
  <2>2. at[n] = p
    BY <1>1, <1>13, <1>b, <2>1
  <2>3. PICK m \in 1 .. a : at[m] = q
    BY <1>5, <1>13, <1>b
  <2>4. m < n
    <3>1. /\ m \in Int /\ n \in Int /\ at[m] = q /\ at[n] = p /\ q \in Int /\ p \in Int
          /\ n < m => at[n] < at[m]
      BY <1>1, <1>4, <1>5, <2>1, <2>2, <2>3
    <3> QED BY <1>13, <3>1
  <2>5. m \in 1 .. Len(c) /\ c[m] = order[q]
    BY <1>4, <1>5, <1>8, <2>3
  <2> QED BY <2>4, <2>5
<1>14. Chosen(page, had) = c
  BY <1>2, <1>7
<1> QED BY <1>8, <1>11, <1>12, <1>13, <1>14, <1>a DEF Told

-----------------------------------------------------------------------------
(* The invariant, for the client that does what the documentation asks.     *)

\* A finite sequence, whatever it holds.
IsSequence(q) == q \in Seq(ToSet(q))

\* The fields of a region.
IsRegion(region) ==
  region = [frame |-> region.frame, kids |-> region.kids, shown |-> region.shown]

Shaped ==
  /\ setting \in Setting /\ setting = "contract" /\ broken = FALSE
  /\ phase \in {"loading", "idle", "requested", "streaming"}
  /\ served \in Page \cup {NoPage}
  /\ waiting \subseteq served.slow \cap Instances(served)
  /\ waiting # {} => open
  /\ open => phase = "streaming"
  /\ open \in BOOLEAN /\ abandoned \in BOOLEAN
  /\ IsSequence(wire)
  /\ screen = [i \in Id |-> screen[i]] /\ \A i \in Id : IsRegion(screen[i])
  /\ renewed \subseteq Id
  /\ \A i \in DOMAIN held : held[i].parent \in Id \cup {Nobody}

\* Between two responses nothing is kept of either.
Quiet ==
  phase # "streaming" =>
    /\ wire = << >> /\ served = NoPage /\ next = Nothing /\ renewed = {}
    /\ ~open /\ ~abandoned

\* What is claimed of the regions is on the screen, and those without an await
\* boundary have settled.
Vouched(claims) ==
  \A i \in DOMAIN claims :
    /\ i \in Attached(screen)
    /\ screen[i].frame = claims[i].frame
    /\ screen[i].kids = claims[i].children
    /\ ~claims[i].frame.fenced => screen[i].shown = Plain

Claims ==
  /\ phase = "loading" => held = Nothing
  /\ phase = "idle" => Vouched(held)
  /\ phase = "requested" => Vouched(known)

AwaitOf(i) == [r |-> "await", id |-> i, value |-> served.value[i]]

End(reason) == [r |-> "end", reason |-> reason]

\* The response of a render that failed before its first record.
Failing ==
  /\ served = NoPage /\ next = Nothing /\ renewed = {}
  /\ ~open /\ wire = << End("failed") >>

\* The client has read n of the records of the boundaries; the rest of them is on
\* the wire, then what settled since, then the terminator.
HasRead(n) ==
  LET order == Chosen(served, known)
      left  == Len(order) - n
  IN  /\ n \in 0 .. Len(order)
      /\ DOMAIN next = { order[k] : k \in 1 .. n }
      /\ \A i \in DOMAIN next : next[i] = Manifest(served)[i]
      /\ left <= Len(wire)
      /\ \A k \in 1 .. left : wire[k] = Record(served, known, order[n + k])
      /\ \A k \in left + 1 .. Len(wire) :
           \/ \E i \in served.slow : wire[k] = AwaitOf(i)
           \/ k = Len(wire) /\ ~open /\ \E reason \in {"final", "failed"} : wire[k] = End(reason)
      /\ ~open => left < Len(wire) /\ wire[Len(wire)].r = "end"

Reading == \E n \in 0 .. Len(Chosen(served, known)) : HasRead(n)

\* A region with its own markup, and nothing in it that has still to settle unless an
\* await boundary is in it.
InPlace(i) ==
  /\ screen[i].frame = Frame(served, i)
  /\ i \notin served.slow => screen[i].shown = Plain

\* The regions that stay have their node, and those that were told of, or have
\* nothing to be told, are as rendered.
Applied ==
  \A i \in Instances(served) :
    LET kind == Kind(Manifest(served), known, i)
    IN  /\ kind # "replace" => InPlace(i) /\ i \notin renewed
        /\ i \in DOMAIN next \/ kind = "unchanged"
           => InPlace(i) /\ screen[i].kids = served.kids[i]

\* Every boundary's record has been read.
NoneLeft == \A k \in DOMAIN wire : wire[k].r # "op"

EndsFailed == wire # << >> /\ wire[Len(wire)] = End("failed")

\* Every await boundary of the render settles on the screen, unless the response
\* says that it failed or its context ended.
Settling ==
  \A i \in served.slow \cap Instances(served) :
    \/ i \in waiting \/ abandoned \/ EndsFailed
    \/ \E k \in DOMAIN wire : wire[k] = AwaitOf(i)
    \/ NoneLeft /\ screen[i].shown = served.value[i]

Running == served \in Page /\ Reading /\ Applied /\ Settling

Inv ==
  /\ Shaped /\ Quiet /\ Claims
  /\ phase = "streaming" => Failing \/ Running

-----------------------------------------------------------------------------
(* The wire, and what is attached. *)

\* A record is written.
LEMMA Written ==
  ASSUME NEW q, IsSequence(q), NEW x
  PROVE  /\ IsSequence(Append(q, x)) /\ Len(q) \in Nat /\ DOMAIN q = 1 .. Len(q)
         /\ Len(Append(q, x)) = Len(q) + 1 /\ Append(q, x) # << >>
         /\ DOMAIN Append(q, x) = 1 .. Len(q) + 1
         /\ \A k \in 1 .. Len(q) : Append(q, x)[k] = q[k]
         /\ Append(q, x)[Len(q) + 1] = x
<1> DEFINE S == ToSet(q) \cup {x}
<1>1. q \in Seq(S) /\ x \in S /\ q \in Seq(ToSet(q))
  BY DEF IsSequence
<1> HIDE DEF S
<1>2. PICK p : p = Append(q, x)
  OBVIOUS
<1>3. /\ p \in Seq(S) /\ Len(p) = Len(q) + 1 /\ Len(q) \in Nat /\ DOMAIN q = 1 .. Len(q)
      /\ \A k \in 1 .. Len(q) : p[k] = q[k]
      /\ p[Len(q) + 1] = x /\ DOMAIN p = 1 .. Len(q) + 1
  BY <1>1, <1>2
<1>4. p = [k \in 1 .. Len(q) + 1 |-> p[k]] /\ \A k \in 1 .. Len(q) + 1 : p[k] \in ToSet(p)
  BY <1>3 DEF ToSet
<1>5. p \in Seq(ToSet(p))
  BY <1>3, <1>4
<1>6. p # << >>
  BY <1>3
<1> QED BY <1>2, <1>3, <1>5, <1>6 DEF IsSequence

\* A record is read.
LEMMA TakenOff ==
  ASSUME NEW q, IsSequence(q), q # << >>
  PROVE  /\ IsSequence(Tail(q)) /\ Len(q) \in Nat /\ 1 <= Len(q) /\ Head(q) = q[1]
         /\ Len(Tail(q)) = Len(q) - 1 /\ DOMAIN q = 1 .. Len(q)
         /\ DOMAIN Tail(q) = 1 .. Len(q) - 1
         /\ \A k \in 1 .. Len(q) - 1 : Tail(q)[k] = q[k + 1]
<1> DEFINE S == ToSet(q)
<1>1. q \in Seq(S)
  BY DEF IsSequence
<1> HIDE DEF S
<1>2. PICK p : p = Tail(q)
  OBVIOUS
<1>3. /\ p \in Seq(S) /\ Len(p) = Len(q) - 1 /\ Len(q) \in Nat /\ 1 <= Len(q)
      /\ Head(q) = q[1] /\ DOMAIN q = 1 .. Len(q)
      /\ \A k \in 1 .. Len(q) - 1 : p[k] = q[k + 1]
      /\ DOMAIN p = 1 .. Len(q) - 1
  BY <1>1, <1>2
<1>4. p = [k \in 1 .. Len(q) - 1 |-> p[k]] /\ \A k \in 1 .. Len(q) - 1 : p[k] \in ToSet(p)
  BY <1>3 DEF ToSet
<1>5. p \in Seq(ToSet(p))
  BY <1>3, <1>4
<1> QED BY <1>2, <1>3, <1>5 DEF IsSequence

\* A set the lists of its regions stay in.
LeadsNowhereElse(regions, R) == \A j \in R : ToSet(regions[j].kids) \subseteq R

\* When everything before the nth boundary of a page has its list, the nth is
\* reached from the outermost.
LEMMA Reached ==
  ASSUME NEW page, IsNested(page), NEW regions, NEW n \in DOMAIN Preorder(page.kids),
         \A m \in DOMAIN Preorder(page.kids) :
           m < n => regions[Preorder(page.kids)[m]].kids = page.kids[Preorder(page.kids)[m]],
         NEW R, Root \in R, LeadsNowhereElse(regions, R)
  PROVE  Preorder(page.kids)[n] \in R
<1>a. PICK order : order = Preorder(page.kids)
  OBVIOUS
<1>1. /\ DOMAIN order \subseteq Nat /\ order[1] = Root /\ n \in DOMAIN order
      /\ \A k \in DOMAIN order \ {1} :
           \E m \in DOMAIN order : m < k /\ order[k] \in ToSet(page.kids[order[m]])
      /\ \A m \in DOMAIN order : m < n => regions[order[m]].kids = page.kids[order[m]]
  <2>1. Preorder(page.kids)[1] = Root /\ DOMAIN Preorder(page.kids) = 1 .. Len(Preorder(page.kids))
        /\ Len(Preorder(page.kids)) \in Nat
    BY Walked
  <2>2. \A k \in DOMAIN order \ {1} :
           \E m \in DOMAIN order : m < k /\ order[k] \in ToSet(page.kids[order[m]])
    BY <1>a DEF IsNested
  <2> QED BY <1>a, <2>1, <2>2
<1> DEFINE P(k) == k \in DOMAIN order /\ k <= n => order[k] \in R
           Missed == { k \in Nat : ~P(k) }
<1>2. ASSUME NEW k \in Nat, \A m \in 0 .. k - 1 : P(m)
      PROVE  P(k)
  <2> SUFFICES ASSUME k \in DOMAIN order, k <= n PROVE order[k] \in R
    OBVIOUS
  <2>1. CASE k = 1
    BY <1>1, <2>1
  <2>2. CASE k # 1
    <3>1. PICK m \in DOMAIN order : m < k /\ order[k] \in ToSet(page.kids[order[m]])
      BY <1>1, <2>2
    <3>2. m \in 0 .. k - 1 /\ m < n /\ m <= n
      BY <1>1, <3>1
    <3>3. order[m] \in R
      BY <1>2, <3>2
    <3>4. regions[order[m]].kids = page.kids[order[m]]
      BY <1>1, <3>2
    <3> QED BY <3>1, <3>3, <3>4 DEF LeadsNowhereElse
  <2> QED BY <2>1, <2>2
<1> DEFINE Less == OpToRel(<, Nat)
<1>3. IsWellFoundedOn(Less, Nat) /\ \A x, y \in Nat : << y, x >> \in Less <=> y < x
  BY NatLessThanWellFounded DEF OpToRel
<1>5. Missed \subseteq Nat
  OBVIOUS
<1> HIDE DEF Less
<1>6. Missed = {}
  <2> SUFFICES ASSUME Missed # {} PROVE FALSE
    OBVIOUS
  <2> HIDE DEF Missed
  <2>1. PICK k \in Missed : \A m \in Missed : ~(<< m, k >> \in Less)
    BY <1>3, <1>5, WFMin
  <2> USE DEF Missed
  <2>2. k \in Nat /\ ~P(k) /\ \A m \in Missed : ~(m < k)
    BY <1>3, <1>5, <2>1
  <2>3. \A m \in 0 .. k - 1 : m \in Nat /\ m < k
    BY <2>2
  <2>4. \A m \in 0 .. k - 1 : P(m)
    BY <2>2, <2>3
  <2> HIDE DEF P, Missed
  <2> QED BY <1>2, <2>2, <2>4
<1>4. \A k \in Nat : P(k)
  BY <1>6
<1> QED BY <1>1, <1>4, <1>a

LEMMA InAttached ==
  ASSUME NEW regions, NEW i \in Id, regions[i] # Gone,
         \A R \in SUBSET Id : Root \in R /\ LeadsNowhereElse(regions, R) => i \in R
  PROVE  i \in Attached(regions)
BY DEF Attached, Below, LeadsNowhereElse

\* What is attached is exactly a page when everything in it has its list.
LEMMA AttachedAll ==
  ASSUME NEW page, IsNested(page), NEW regions,
         \A i \in Instances(page) : regions[i] # Gone /\ regions[i].kids = page.kids[i]
  PROVE  Attached(regions) = Instances(page)
<1>a. PICK order : order = Preorder(page.kids)
  OBVIOUS
<1>1. /\ \A n \in DOMAIN order : order[n] \in Instances(page) /\ order[n] \in Id
      /\ \A i \in Instances(page) : \E n \in DOMAIN order : i = order[n]
      /\ Instances(page) \subseteq Id /\ 1 \in DOMAIN order /\ order[1] = Root
  <2> DEFINE walk == Preorder(page.kids)
  <2>1. /\ \A n \in DOMAIN walk : walk[n] \in Instances(page) /\ walk[n] \in Id
        /\ \A i \in Instances(page) : \E n \in DOMAIN walk : i = walk[n]
        /\ Instances(page) \subseteq Id /\ 1 \in DOMAIN walk /\ walk[1] = Root
    BY Walked
  <2> QED BY <1>a, <2>1
<1>2. ASSUME NEW i \in Instances(page) PROVE i \in Attached(regions)
  <2>1. PICK n \in DOMAIN order : i = order[n]
    BY <1>1
  <2>2. ASSUME NEW R \in SUBSET Id, Root \in R, LeadsNowhereElse(regions, R)
        PROVE  i \in R
    BY <1>1, <1>a, <2>1, <2>2, Reached
  <2> QED BY <1>1, <2>2, InAttached
<1>3. LeadsNowhereElse(regions, Instances(page)) /\ Root \in Instances(page)
  <2>1. \A n \in DOMAIN order : ToSet(page.kids[order[n]]) \subseteq ToSet(order)
    BY <1>a DEF IsNested
  <2>2. ToSet(order) = Instances(page)
    BY <1>a DEF Instances
  <2>3. ASSUME NEW j \in Instances(page) PROVE ToSet(regions[j].kids) \subseteq Instances(page)
    <3>1. PICK n \in DOMAIN order : j = order[n]
      BY <1>1
    <3> QED BY <2>1, <2>2, <3>1
  <2> QED BY <1>1, <2>3 DEF LeadsNowhereElse
<1>4. ASSUME NEW i \in Attached(regions) PROVE i \in Instances(page)
  BY <1>1, <1>3 DEF Attached, Below, LeadsNowhereElse
<1> QED BY <1>2, <1>4

\* A boundary is in the document, or a hole for it is, once those before it have
\* their lists.
LEMMA HoleOfEach ==
  ASSUME NEW page, IsNested(page), NEW n \in DOMAIN Preorder(page.kids),
         \A m \in DOMAIN Preorder(page.kids) :
           m < n => LET i == Preorder(page.kids)[m]
                    IN  screen[i] # Gone /\ screen[i].kids = page.kids[i]
  PROVE  Resolves(Preorder(page.kids)[n])
<1>a. PICK order : order = Preorder(page.kids)
  OBVIOUS
<1>1. CASE n = 1
  BY <1>1, Walked DEF Resolves, IsTarget
<1>2. CASE n # 1
  <2>1. PICK m \in DOMAIN order : m < n /\ order[n] \in ToSet(page.kids[order[m]])
    BY <1>a, <1>2 DEF IsNested
  <2>2. screen[order[m]] # Gone /\ screen[order[m]].kids = page.kids[order[m]]
    BY <1>a, <2>1
  <2>3. DOMAIN order = 1 .. Len(order) /\ Len(order) \in Nat /\ order[m] \in Id
    BY <1>a, <2>1, Walked
  <2>4. ASSUME NEW R \in SUBSET Id, Root \in R, LeadsNowhereElse(screen, R)
        PROVE  order[m] \in R
    <3>1. \A l \in DOMAIN order : l < m => screen[order[l]].kids = page.kids[order[l]]
      <4> TAKE l \in DOMAIN order
      <4>1. l < m => l < n
        BY <1>a, <2>1, <2>3
      <4> QED BY <1>a, <4>1
    <3> QED BY <1>a, <2>1, <2>4, <3>1, Reached
  <2>5. order[m] \in Attached(screen)
    BY <2>2, <2>3, <2>4, InAttached
  <2> QED BY <1>a, <2>1, <2>2, <2>5 DEF Resolves, IsTarget
<1> QED BY <1>1, <1>2

-----------------------------------------------------------------------------
(* The screen while a response is read. *)

LEMMA ServedIs ==
  ASSUME NEW page \in Page \cup {NoPage}
  PROVE  /\ IsNested(page)
         /\ page \in Page => \A i \in Id : Frame(page, i) # Nobody
         /\ \A i : Frame(page, i).fenced <=> i \in page.slow
BY PageAssumption DEF Frame

\* One field of a region changes.
LEMMA ListChanged ==
  ASSUME NEW r, IsRegion(r), NEW x, NEW t, t = [r EXCEPT !.kids = x]
  PROVE  IsRegion(t) /\ t.frame = r.frame /\ t.kids = x /\ t.shown = r.shown
<1>1. PICK f, k, s : r = [frame |-> f, kids |-> k, shown |-> s]
  BY DEF IsRegion
<1>2. t = [frame |-> f, kids |-> x, shown |-> s]
  BY <1>1
<1> QED BY <1>1, <1>2 DEF IsRegion

LEMMA ShownChanged ==
  ASSUME NEW r, IsRegion(r), NEW x, NEW t, t = [r EXCEPT !.shown = x]
  PROVE  IsRegion(t) /\ t.frame = r.frame /\ t.kids = r.kids /\ t.shown = x
<1>1. PICK f, k, s : r = [frame |-> f, kids |-> k, shown |-> s]
  BY DEF IsRegion
<1>2. t = [frame |-> f, kids |-> k, shown |-> x]
  BY <1>1
<1> QED BY <1>1, <1>2 DEF IsRegion

LEMMA GoneIs == IsRegion(Gone) /\ Gone.frame = Nobody
BY DEF Gone, IsRegion

\* A region that stays, or was told of, is there; one that was told of, or has
\* nothing to be told, has its list.
LEMMA PlacedIsThere ==
  ASSUME Shaped, Running, NEW i \in Instances(served), InPlace(i)
  PROVE  screen[i] # Gone
<1>1. Frame(served, i) # Nobody
  BY ServedIs, Walked DEF Running
<1> QED BY <1>1, GoneIs DEF InPlace

\* Once every record is read, the screen is the page but for what has to settle.
LEMMA AllRead ==
  ASSUME Shaped, Running, NoneLeft
  PROVE  /\ HasRead(Len(Chosen(served, known)))
         /\ DOMAIN next = Instances(served)
         /\ Attached(screen) = Instances(served)
         /\ \A i \in Instances(served) :
              InPlace(i) /\ screen[i] # Gone /\ screen[i].kids = served.kids[i]
<1>a. PICK order : order = Chosen(served, known)
  OBVIOUS
<1>0. IsNested(served)
  BY ServedIs DEF Shaped
<1>1. /\ Len(order) \in Nat
      /\ \A n \in 1 .. Len(order) : order[n] \in Instances(served)
      /\ \A i \in Instances(served) : \E n \in 1 .. Len(order) : order[n] = i
  <2> DEFINE chosen == Chosen(served, known)
  <2>1. /\ Len(chosen) \in Nat
        /\ \A n \in 1 .. Len(chosen) : chosen[n] \in Instances(served)
        /\ \A i \in Instances(served) : \E n \in 1 .. Len(chosen) : chosen[n] = i
    BY <1>0, ChosenInOrder
  <2> QED BY <1>a, <2>1
<1>2. PICK n \in 0 .. Len(order) : HasRead(n)
  BY <1>a DEF Running, Reading
<1>3. /\ Len(order) - n <= Len(wire)
      /\ \A k \in 1 .. Len(order) - n : wire[k] = Record(served, known, order[n + k])
      /\ DOMAIN next = { order[k] : k \in 1 .. n }
  BY <1>a, <1>2 DEF HasRead
<1>4. n = Len(order)
  <2> SUFFICES ASSUME n # Len(order) PROVE FALSE
    OBVIOUS
  <2>1. 1 \in 1 .. Len(order) - n /\ 1 <= Len(wire)
    <3>1. Len(wire) \in Nat
      BY DEF Shaped, IsSequence
    <3> QED BY <1>1, <1>3, <3>1
  <2>2. 1 \in DOMAIN wire
    BY <2>1 DEF Shaped, IsSequence
  <2>3. wire[1].r = "op"
    <3>1. wire[1] = Record(served, known, order[n + 1])
      BY <1>3, <2>1
    <3> QED BY <3>1 DEF Record
  <2> QED BY <2>2, <2>3 DEF NoneLeft
<1>5. DOMAIN next = Instances(served)
  BY <1>1, <1>3, <1>4
<1>6. \A i \in Instances(served) : InPlace(i) /\ screen[i].kids = served.kids[i]
  BY <1>5 DEF Running, Applied
<1>7. \A i \in Instances(served) : screen[i] # Gone
  BY <1>6, PlacedIsThere
<1>8. Attached(screen) = Instances(served)
  BY <1>0, <1>6, <1>7, AttachedAll
<1> QED BY <1>2, <1>4, <1>5, <1>6, <1>7, <1>8, <1>a

\* An open response has no terminator.
LEMMA OpenHasNoEnd ==
  ASSUME Shaped, Running, open
  PROVE  ~EndsFailed /\ \A n : HasRead(n) =>
           \A k \in Len(Chosen(served, known)) - n + 1 .. Len(wire) :
             \E i \in served.slow : wire[k] = AwaitOf(i)
<1>a. PICK order : order = Chosen(served, known)
  OBVIOUS
<1>0. Len(order) \in Nat
  <2>1. IsNested(served)
    BY ServedIs DEF Shaped
  <2> QED BY <1>a, <2>1, ChosenInOrder
<1>1. ASSUME NEW n, HasRead(n), NEW k \in Len(order) - n + 1 .. Len(wire)
      PROVE  \E i \in served.slow : wire[k] = AwaitOf(i)
  BY <1>1, <1>a DEF HasRead
<1>2. PICK n \in 0 .. Len(order) : HasRead(n)
  BY <1>a DEF Running, Reading
<1>3. ASSUME wire # << >> PROVE wire[Len(wire)].r # "end"
  <2>1. Len(wire) \in Nat /\ 1 <= Len(wire)
    BY <1>3, TakenOff DEF Shaped
  <2>2. Len(wire) \in 1 .. Len(order) - n \/ Len(wire) \in Len(order) - n + 1 .. Len(wire)
    BY <1>0, <2>1
  <2>3. CASE Len(wire) \in 1 .. Len(order) - n
    <3>1. wire[Len(wire)] = Record(served, known, order[n + Len(wire)])
      BY <1>a, <1>2, <2>3 DEF HasRead
    <3> QED BY <3>1 DEF Record
  <2>4. CASE Len(wire) \in Len(order) - n + 1 .. Len(wire)
    <3>1. PICK i \in served.slow : wire[Len(wire)] = AwaitOf(i)
      BY <1>1, <1>2, <2>4
    <3> QED BY <3>1 DEF AwaitOf
  <2> QED BY <2>2, <2>3, <2>4
<1> QED BY <1>1, <1>3, <1>a DEF EndsFailed, End

-----------------------------------------------------------------------------
(* The invariant holds of every behaviour: one lemma per action. *)

LEMMA EmptyWire == IsSequence(<< >>)
BY DEF IsSequence, ToSet

LEMMA SweptScreen ==
  ASSUME Shaped
  PROVE  /\ Swept = [i \in Id |-> Swept[i]] /\ \A i \in Id : IsRegion(Swept[i])
         /\ \A i \in Attached(screen) : i \in Id /\ Swept[i] = screen[i]
<1>1. \A i \in Attached(screen) : i \in Id
  BY DEF Attached, Below
<1>2. \A i \in Id : Swept[i] = IF i \in Attached(screen) THEN screen[i] ELSE Gone
  BY DEF Swept
<1>3. Swept = [i \in Id |-> Swept[i]]
  BY DEF Swept
<1>4. \A i \in Id : IsRegion(screen[i])
  BY DEF Shaped
<1> QED BY <1>1, <1>2, <1>3, <1>4, GoneIs

LEMMA NoPageIs == NoPage.slow = {} /\ NoPage \in Page \cup {NoPage}
BY DEF NoPage

LEMMA InitInv ==
  ASSUME Setting \subseteq {"contract"}, Init
  PROVE  Inv
<1>1. Shaped
  <2>1. \A i \in Id : screen[i] = Gone
    BY DEF Init
  <2>2. screen = [i \in Id |-> screen[i]]
    BY DEF Init
  <2>3. DOMAIN held = {}
    BY DEF Init, Nothing
  <2> QED BY <2>1, <2>2, <2>3, GoneIs, EmptyWire DEF Init, Shaped
<1>2. Quiet
  BY DEF Init, Quiet
<1>3. Claims
  BY DEF Init, Claims
<1> QED BY <1>1, <1>2, <1>3 DEF Inv, Init

LEMMA NavigateInv ==
  ASSUME Inv, Navigate
  PROVE  Inv'
<1>1. Header(held) = held
  BY DEF Header, Bundled, Inv, Shaped
<1>2. Shaped'
  BY DEF Inv, Navigate, Shaped, serverVars, clientVars
<1>3. Quiet'
  BY DEF Inv, Navigate, Quiet, serverVars, clientVars
<1>4. Claims'
  <2>1. screen' = screen /\ known' = held /\ phase' = "requested"
    BY <1>1 DEF Navigate, clientVars
  <2>2. Vouched(held)
    BY DEF Inv, Claims, Navigate
  <2>3. Vouched(known)'
    BY <2>1, <2>2 DEF Vouched
  <2> QED BY <2>1, <2>3 DEF Claims
<1> QED BY <1>2, <1>3, <1>4 DEF Inv, Navigate

\* A response is over, whatever the client is left with.
LEMMA OverInv ==
  ASSUME Shaped, NEW validators, Over("loading", validators) \/ Over("idle", validators),
         screen' = [i \in Id |-> screen'[i]], \A i \in Id : IsRegion(screen'[i]),
         \A i \in DOMAIN validators : validators[i].parent \in Id \cup {Nobody},
         phase' = "loading" => validators = Nothing,
         phase' = "idle" => Vouched(held)'
  PROVE  Inv'
<1>1. /\ phase' \in {"loading", "idle"} /\ wire' = << >> /\ served' = NoPage /\ waiting' = {}
      /\ open' = FALSE /\ abandoned' = FALSE /\ held' = validators
      /\ next' = Nothing /\ renewed' = {} /\ broken' = FALSE /\ setting' = setting
  BY DEF Over
<1>2. Shaped'
  BY <1>1, NoPageIs, EmptyWire DEF Shaped
<1>3. Quiet'
  BY <1>1 DEF Quiet
<1>4. Claims'
  BY <1>1 DEF Claims
<1> QED BY <1>1, <1>2, <1>3, <1>4 DEF Inv

LEMMA FallBackInv ==
  ASSUME Inv, FallBack
  PROVE  Inv'
<1>1. Over("loading", Nothing) /\ screen' = [i \in Id |-> Gone] /\ Shaped
  BY DEF FallBack, Inv
<1>2. phase' = "loading"
  BY <1>1 DEF Over
<1>3. DOMAIN Nothing = {}
  BY DEF Nothing
<1> QED BY <1>1, <1>2, <1>3, OverInv, GoneIs

LEMMA AbandonInv ==
  ASSUME Inv, Abandon
  PROVE  Inv'
<1>1. Over("idle", Nothing) /\ screen' = Swept /\ Shaped
  BY DEF Abandon, Inv, Shaped
<1>2. phase' = "idle" /\ held' = Nothing
  BY <1>1 DEF Over
<1>3. DOMAIN Nothing = {}
  BY DEF Nothing
<1>4. Vouched(held)'
  BY <1>2, <1>3 DEF Vouched
<1> QED BY <1>1, <1>2, <1>3, <1>4, OverInv, SweptScreen

LEMMA LoadInv ==
  ASSUME Inv, NEW page \in Page, Load(page)
  PROVE  Inv'
<1>1. /\ phase = "loading" /\ phase' = "idle" /\ screen' = Document(page)
      /\ UNCHANGED << setting, known, wire, served, waiting, open, abandoned,
                      held, next, renewed, broken >>
  BY DEF Load, serverVars
<1>2. Shaped /\ Quiet /\ held = Nothing
  BY <1>1 DEF Inv, Claims
<1>3. Document(page) = [i \in Id |-> Document(page)[i]]
  BY DEF Document
<1>4. \A i \in Id : IsRegion(Document(page)[i])
  <2> TAKE i \in Id
  <2>1. CASE i \in Instances(page)
    <3>1. Document(page)[i] = Settled(page)[i]
      BY <2>1 DEF Document
    <3> QED BY <2>1, <3>1 DEF Settled, IsRegion
  <2>2. CASE i \notin Instances(page)
    BY <2>2, GoneIs DEF Document
  <2> QED BY <2>1, <2>2
<1>5. Shaped'
  BY <1>1, <1>2, <1>3, <1>4 DEF Shaped
<1>6. Quiet'
  BY <1>1, <1>2 DEF Quiet
<1>7. Claims'
  <2>1. DOMAIN held' = {}
    BY <1>1, <1>2 DEF Nothing
  <2> QED BY <1>1, <2>1 DEF Claims, Vouched
<1> QED BY <1>1, <1>5, <1>6, <1>7 DEF Inv

LEMMA RenderFailsInv ==
  ASSUME Inv, RenderFails
  PROVE  Inv'
<1>1. /\ phase = "requested" /\ phase' = "streaming" /\ wire' = << End("failed") >>
      /\ UNCHANGED << setting, known, served, waiting, open, abandoned, screen,
                      held, next, renewed, broken >>
  BY DEF RenderFails, serverVars, clientVars, End
<1>2. Shaped /\ Quiet
  BY DEF Inv
<1>3. IsSequence(wire')
  <2>1. wire' = Append(<< >>, End("failed"))
    BY <1>1
  <2> QED BY <2>1, EmptyWire, Written
<1>4. Shaped'
  BY <1>1, <1>2, <1>3 DEF Shaped
<1>5. Failing'
  BY <1>1, <1>2 DEF Failing, Quiet, End
<1> QED BY <1>1, <1>4, <1>5 DEF Inv, Quiet, Claims

LEMMA RenderInv ==
  ASSUME Inv, NEW page \in Page, Render(page)
  PROVE  Inv'
<1>1. /\ phase = "requested" /\ phase' = "streaming" /\ served' = page
      /\ waiting' = page.slow \cap Instances(page) /\ open' = TRUE
      /\ wire' = Records(page, known)
      /\ UNCHANGED << setting, known, abandoned, screen, held, next, renewed, broken >>
  BY DEF Render, clientVars
<1>2. Shaped /\ Vouched(known) /\ next = Nothing /\ renewed = {}
  BY <1>1 DEF Inv, Quiet, Claims
<1>3. IsNested(page) /\ \A i : Frame(page, i).fenced <=> i \in page.slow
  BY ServedIs
<1>a. PICK order : order = Chosen(page, known)
  OBVIOUS
<1>4. order \in Seq(Id) /\ Len(order) \in Nat /\ DOMAIN order = 1 .. Len(order)
  <2>1. Chosen(page, known) \in Seq(Id) /\ Len(Chosen(page, known)) \in Nat
    BY <1>3, ChosenInOrder
  <2> QED BY <1>a, <2>1
<1>5. wire' = [k \in 1 .. Len(order) |-> Record(page, known, order[k])]
  BY <1>1, <1>4, <1>a DEF Records
<1>6. IsSequence(wire') /\ Len(wire') = Len(order) /\ DOMAIN wire' = 1 .. Len(order)
  <2> DEFINE M == { Record(page, known, order[k]) : k \in 1 .. Len(order) }
  <2>1. wire' \in [1 .. Len(order) -> M]
    BY <1>5
  <2>2. wire' \in Seq(M) /\ Len(wire') = Len(order) /\ DOMAIN wire' = 1 .. Len(order)
    BY <1>4, <2>1
  <2>3. ToSet(wire') = M
    BY <1>5 DEF ToSet
  <2> QED BY <2>2, <2>3 DEF IsSequence
<1>7. Shaped'
  BY <1>1, <1>2, <1>6 DEF Shaped
<1>8. Reading'
  <2>1. HasRead(0)'
    <3>1. DOMAIN next' = {}
      BY <1>1, <1>2 DEF Nothing
    <3>2. Len(order) - 0 = Len(order) /\ 1 .. 0 = {}
      BY <1>4
    <3>3. \A k \in 1 .. Len(order) : 0 + k = k
      BY <1>4
    <3>4. \A k \in 1 .. Len(order) : wire'[k] = Record(page, known, order[0 + k])
      BY <1>5, <3>3
    <3>5. ~ \E k \in Len(order) + 1 .. Len(wire') : TRUE
      BY <1>4, <1>6
    <3>6. order = Chosen(served', known')
      BY <1>1, <1>a
    <3>7. 0 \in 0 .. Len(order) /\ Len(order) <= Len(wire')
      BY <1>4, <1>6
    <3> QED BY <1>1, <3>1, <3>2, <3>4, <3>5, <3>6, <3>7 DEF HasRead
  <2>2. 0 \in 0 .. Len(Chosen(served', known'))
    BY <1>1, <1>4, <1>a
  <2> QED BY <2>1, <2>2 DEF Reading
<1>9. Applied'
  <2> SUFFICES ASSUME NEW i \in Instances(page)
               PROVE  LET kind == Kind(Manifest(page), known, i)
                      IN  /\ kind # "replace" => InPlace(i)' /\ i \notin renewed'
                          /\ i \in DOMAIN next' \/ kind = "unchanged"
                             => InPlace(i)' /\ screen'[i].kids = served'.kids[i]
    BY <1>1 DEF Applied
  <2> DEFINE kind == Kind(Manifest(page), known, i)
  <2>1. /\ kind # "replace" => i \in DOMAIN known /\ known[i].frame = Frame(page, i)
        /\ kind = "unchanged" => known[i].children = page.kids[i] /\ kind # "replace"
    BY <1>3, KindIs
  <2>2. ASSUME i \in DOMAIN known, known[i].frame = Frame(page, i) PROVE InPlace(i)'
    BY <1>1, <1>2, <1>3, <2>2 DEF Vouched, InPlace
  <2>3. i \notin DOMAIN next' /\ i \notin renewed'
    BY <1>1, <1>2 DEF Nothing
  <2> HIDE DEF kind
  <2>4. ASSUME kind = "unchanged" PROVE screen'[i].kids = served'.kids[i]
    BY <1>1, <1>2, <2>1, <2>4 DEF Vouched
  <2>5. /\ kind # "replace" => InPlace(i)' /\ i \notin renewed'
        /\ i \in DOMAIN next' \/ kind = "unchanged"
           => InPlace(i)' /\ screen'[i].kids = served'.kids[i]
    BY <2>1, <2>2, <2>3, <2>4
  <2> QED BY <2>5 DEF kind
<1>10. Settling'
  BY <1>1 DEF Settling
<1> QED BY <1>1, <1>7, <1>8, <1>9, <1>10 DEF Inv, Running, Quiet, Claims

\* Settling and what was applied do not depend on more being written.
LEMMA SettlesInv ==
  ASSUME Inv, NEW i \in Id, Settles(i)
  PROVE  Inv'
<1>a. PICK order : order = Chosen(served, known)
  OBVIOUS
<1>1. /\ i \in waiting /\ waiting' = waiting \ {i} /\ wire' = Append(wire, AwaitOf(i))
      /\ UNCHANGED << setting, phase, known, served, open, abandoned, screen,
                      held, next, renewed, broken >>
  BY DEF Settles, clientVars, AwaitOf
<1>2. Shaped /\ open /\ phase = "streaming" /\ Running
  BY <1>1 DEF Inv, Shaped, Failing
<1>3. /\ IsSequence(wire') /\ Len(wire) \in Nat /\ Len(wire') = Len(wire) + 1
      /\ \A k \in 1 .. Len(wire) : wire'[k] = wire[k]
      /\ wire'[Len(wire) + 1] = AwaitOf(i)
      /\ DOMAIN wire = 1 .. Len(wire) /\ DOMAIN wire' = 1 .. Len(wire) + 1
  BY <1>1, <1>2, Written DEF Shaped
<1>4. Len(order) \in Nat /\ AwaitOf(i)' = AwaitOf(i) /\ i \in served.slow
  <2>1. IsNested(served)
    BY <1>2, ServedIs DEF Shaped
  <2>2. AwaitOf(i)' = AwaitOf(i)
    BY <1>1 DEF AwaitOf
  <2> QED BY <1>1, <1>2, <1>a, <2>1, <2>2, ChosenInOrder DEF Shaped
<1>5. Shaped'
  BY <1>1, <1>2, <1>3 DEF Shaped
<1>6. Reading'
  <2>1. PICK n \in 0 .. Len(order) : HasRead(n)
    BY <1>2, <1>a DEF Running, Reading
  <2>0. PICK left : left = Len(order) - n
    OBVIOUS
  <2>2. /\ DOMAIN next = { order[k] : k \in 1 .. n }
        /\ \A j \in DOMAIN next : next[j] = Manifest(served)[j]
        /\ left <= Len(wire)
        /\ \A k \in 1 .. left : wire[k] = Record(served, known, order[n + k])
    BY <1>a, <2>0, <2>1 DEF HasRead
  <2>3. \A k \in left + 1 .. Len(wire) : \E j \in served.slow : wire[k] = AwaitOf(j)
    BY <1>a, <1>2, <2>0, <2>1, OpenHasNoEnd
  <2>4. left \in Nat /\ left <= Len(wire')
    BY <1>3, <1>4, <2>0, <2>1, <2>2
  <2>5. \A k \in 1 .. left : wire'[k] = Record(served, known, order[n + k])
    BY <1>3, <2>2, <2>4
  <2>6. \A k \in left + 1 .. Len(wire') : \E j \in served.slow : wire'[k] = AwaitOf(j)
    <3> TAKE k \in left + 1 .. Len(wire')
    <3>1. k \in left + 1 .. Len(wire) \/ k = Len(wire) + 1
      BY <1>3, <2>4
    <3>2. CASE k = Len(wire) + 1
      BY <1>3, <1>4, <3>2
    <3>3. CASE k \in left + 1 .. Len(wire)
      <4>1. k \in 1 .. Len(wire)
        BY <1>3, <2>4, <3>3
      <4> QED BY <1>3, <2>3, <3>3, <4>1
    <3> QED BY <3>1, <3>2, <3>3
  <2>7. order = Chosen(served, known)' /\ n \in 0 .. Len(order)
    BY <1>1, <1>a, <2>1
  <2>8. \A k \in left + 1 .. Len(wire') : \E j \in served'.slow : wire'[k] = AwaitOf(j)'
    BY <1>1, <2>6 DEF AwaitOf
  <2>9. /\ DOMAIN next' = { order[k] : k \in 1 .. n }
        /\ \A j \in DOMAIN next' : next'[j] = Manifest(served')[j]
        /\ \A k \in 1 .. left : wire'[k] = Record(served', known', order[n + k])
        /\ open'
    BY <1>1, <1>2, <2>2, <2>5
  <2>10. HasRead(n)'
    BY <2>0, <2>4, <2>7, <2>8, <2>9 DEF HasRead
  <2> QED BY <2>7, <2>10 DEF Reading
<1>7. Applied'
  BY <1>1, <1>2 DEF Running, Applied, InPlace
<1>8. Settling'
  <2> SUFFICES ASSUME NEW j \in served.slow \cap Instances(served)
               PROVE  \/ j \in waiting' \/ abandoned'
                      \/ \E k \in DOMAIN wire' : wire'[k] = AwaitOf(j)'
                      \/ NoneLeft' /\ screen'[j].shown = served'.value[j]
    BY <1>1 DEF Settling
  <2>1. \/ j \in waiting \/ abandoned
        \/ \E k \in DOMAIN wire : wire[k] = AwaitOf(j)
        \/ NoneLeft /\ screen[j].shown = served.value[j]
    BY <1>2, OpenHasNoEnd DEF Running, Settling
  <2>2. AwaitOf(j)' = AwaitOf(j)
    BY <1>1 DEF AwaitOf
  <2>3. Len(wire) + 1 \in DOMAIN wire' /\ \A k \in DOMAIN wire : k \in DOMAIN wire'
    BY <1>3
  <2>4. NoneLeft => NoneLeft'
    <3> SUFFICES ASSUME NoneLeft, NEW k \in DOMAIN wire' PROVE wire'[k].r # "op"
      BY DEF NoneLeft
    <3>1. k \in DOMAIN wire \/ k = Len(wire) + 1
      BY <1>3
    <3>2. AwaitOf(i).r # "op"
      BY DEF AwaitOf
    <3> QED BY <1>3, <3>1, <3>2 DEF NoneLeft
  <2>5. CASE j \in waiting
    BY <1>1, <1>3, <2>2, <2>3, <2>5
  <2>6. CASE \E k \in DOMAIN wire : wire[k] = AwaitOf(j)
    BY <1>3, <2>2, <2>3, <2>6
  <2>7. CASE abandoned
    BY <1>1, <2>7
  <2>8. CASE NoneLeft /\ screen[j].shown = served.value[j]
    BY <1>1, <2>4, <2>8
  <2> QED BY <2>1, <2>5, <2>6, <2>7, <2>8
<1> QED BY <1>1, <1>2, <1>5, <1>6, <1>7, <1>8 DEF Inv, Running, Quiet, Claims

\* The terminator closes a response, and says so when something is still to settle.
LEMMA TerminateInv ==
  ASSUME Inv, NEW reason \in {"final", "failed"}, Terminate(reason), abandoned' \in BOOLEAN,
         abandoned => abandoned', waiting = {} \/ reason = "failed" \/ abandoned'
  PROVE  Inv'
<1>a. PICK order : order = Chosen(served, known)
  OBVIOUS
<1>1. /\ open /\ phase = "streaming" /\ open' = FALSE /\ waiting' = {}
      /\ wire' = Append(wire, End(reason))
      /\ UNCHANGED << setting, phase, known, served, screen, held, next, renewed, broken >>
  BY DEF Terminate, clientVars, End
<1>2. Shaped /\ Running
  BY <1>1 DEF Inv, Shaped, Failing
<1>3. /\ IsSequence(wire') /\ Len(wire) \in Nat /\ Len(wire') = Len(wire) + 1
      /\ \A k \in 1 .. Len(wire) : wire'[k] = wire[k]
      /\ wire'[Len(wire) + 1] = End(reason) /\ wire' # << >>
      /\ DOMAIN wire = 1 .. Len(wire) /\ DOMAIN wire' = 1 .. Len(wire) + 1
  BY <1>1, <1>2, Written DEF Shaped
<1>4. Len(order) \in Nat
  <2>1. IsNested(served)
    BY <1>2, ServedIs DEF Shaped
  <2> QED BY <1>a, <2>1, ChosenInOrder
<1>5. Shaped'
  BY <1>1, <1>2, <1>3 DEF Shaped
<1>6. Reading'
  <2>1. PICK n \in 0 .. Len(order) : HasRead(n)
    BY <1>2, <1>a DEF Running, Reading
  <2>0. PICK left : left = Len(order) - n
    OBVIOUS
  <2>2. /\ DOMAIN next = { order[k] : k \in 1 .. n }
        /\ \A j \in DOMAIN next : next[j] = Manifest(served)[j]
        /\ left <= Len(wire)
        /\ \A k \in 1 .. left : wire[k] = Record(served, known, order[n + k])
    BY <1>a, <2>0, <2>1 DEF HasRead
  <2>3. \A k \in left + 1 .. Len(wire) : \E j \in served.slow : wire[k] = AwaitOf(j)
    BY <1>a, <1>1, <1>2, <2>0, <2>1, OpenHasNoEnd
  <2>4. left \in Nat /\ left < Len(wire')
    BY <1>3, <1>4, <2>0, <2>1, <2>2
  <2>5. \A k \in 1 .. left : wire'[k] = Record(served, known, order[n + k])
    BY <1>3, <2>2, <2>4
  <2>6. \A k \in left + 1 .. Len(wire') :
          (\E j \in served.slow : wire'[k] = AwaitOf(j)) \/ (k = Len(wire') /\ wire'[k] = End(reason))
    <3> TAKE k \in left + 1 .. Len(wire')
    <3>1. k \in left + 1 .. Len(wire) \/ k = Len(wire) + 1
      BY <1>3, <2>4
    <3>2. CASE k = Len(wire) + 1
      BY <1>3, <3>2
    <3>3. CASE k \in left + 1 .. Len(wire)
      <4>1. k \in 1 .. Len(wire)
        BY <1>3, <2>4, <3>3
      <4> QED BY <1>3, <2>3, <3>3, <4>1
    <3> QED BY <3>1, <3>2, <3>3
  <2>7. order = Chosen(served, known)' /\ n \in 0 .. Len(order) /\ End(reason).r = "end"
    BY <1>1, <1>a, <2>1 DEF End
  <2>8. \A k \in left + 1 .. Len(wire') :
          \/ \E j \in served'.slow : wire'[k] = AwaitOf(j)'
          \/ k = Len(wire') /\ ~open' /\ \E why \in {"final", "failed"} : wire'[k] = End(why)
    BY <1>1, <2>6 DEF AwaitOf
  <2>9. /\ DOMAIN next' = { order[k] : k \in 1 .. n }
        /\ \A j \in DOMAIN next' : next'[j] = Manifest(served')[j]
        /\ \A k \in 1 .. left : wire'[k] = Record(served', known', order[n + k])
        /\ left < Len(wire') /\ left <= Len(wire') /\ wire'[Len(wire')].r = "end"
    BY <1>1, <1>3, <2>2, <2>4, <2>5, <2>7
  <2>10. HasRead(n)'
    BY <2>0, <2>7, <2>8, <2>9 DEF HasRead, End
  <2> QED BY <2>7, <2>10 DEF Reading
<1>7. Applied'
  BY <1>1, <1>2 DEF Running, Applied, InPlace
<1>8. Settling'
  <2> SUFFICES ASSUME NEW j \in served.slow \cap Instances(served)
               PROVE  \/ abandoned' \/ EndsFailed'
                      \/ \E k \in DOMAIN wire' : wire'[k] = AwaitOf(j)'
                      \/ NoneLeft' /\ screen'[j].shown = served'.value[j]
    BY <1>1 DEF Settling
  <2>1. \/ j \in waiting \/ abandoned
        \/ \E k \in DOMAIN wire : wire[k] = AwaitOf(j)
        \/ NoneLeft /\ screen[j].shown = served.value[j]
    BY <1>1, <1>2, OpenHasNoEnd DEF Running, Settling
  <2>2. AwaitOf(j)' = AwaitOf(j)
    BY <1>1 DEF AwaitOf
  <2>3. \A k \in DOMAIN wire : k \in DOMAIN wire'
    BY <1>3
  <2>4. NoneLeft => NoneLeft'
    <3> SUFFICES ASSUME NoneLeft, NEW k \in DOMAIN wire' PROVE wire'[k].r # "op"
      BY DEF NoneLeft
    <3>1. k \in DOMAIN wire \/ k = Len(wire) + 1
      BY <1>3
    <3>2. End(reason).r # "op"
      BY DEF End
    <3> QED BY <1>3, <3>1, <3>2 DEF NoneLeft
  <2>5. reason = "failed" => EndsFailed'
    BY <1>3 DEF EndsFailed, End
  <2>6. CASE \E k \in DOMAIN wire : wire[k] = AwaitOf(j)
    BY <1>3, <2>2, <2>3, <2>6
  <2>7. CASE j \in waiting \/ abandoned
    BY <2>5, <2>7
  <2>8. CASE NoneLeft /\ screen[j].shown = served.value[j]
    BY <1>1, <2>4, <2>8
  <2> QED BY <2>1, <2>6, <2>7, <2>8
<1> QED BY <1>1, <1>2, <1>5, <1>6, <1>7, <1>8 DEF Inv, Running, Quiet, Claims

LEMMA RecordFields ==
  /\ \A i : AwaitOf(i).r = "await" /\ AwaitOf(i).id = i /\ AwaitOf(i).value = served.value[i]
  /\ \A reason : End(reason).r = "end"
  /\ \A page, had, i : Record(page, had, i).r = "op"
BY DEF AwaitOf, End, Record

\* An await boundary that settled takes its place.
LEMMA ReadAwaitInv ==
  ASSUME Inv, ReadAwait
  PROVE  Inv'
<1>a. PICK order : order = Chosen(served, known)
  OBVIOUS
<1>b. PICK await : await = Head(wire)
  OBVIOUS
<1>1. /\ phase = "streaming" /\ wire # << >> /\ await.r = "await" /\ wire' = Tail(wire)
      /\ UNCHANGED << setting, phase, known, served, waiting, open, abandoned,
                      held, next, renewed, broken >>
  BY <1>b DEF ReadAwait, Receive, ReadOn, serverVars
<1>2. Shaped /\ Running /\ ~Bundled /\ ~broken
  BY <1>1, <1>b DEF Inv, Shaped, Failing, End, Bundled
<1>3. /\ IsSequence(wire') /\ Len(wire) \in Nat /\ 1 <= Len(wire) /\ await = wire[1]
      /\ Len(wire') = Len(wire) - 1 /\ DOMAIN wire = 1 .. Len(wire)
      /\ DOMAIN wire' = 1 .. Len(wire) - 1
      /\ \A k \in 1 .. Len(wire) - 1 : wire'[k] = wire[k + 1]
  BY <1>1, <1>2, <1>b, TakenOff DEF Shaped
<1>4. Len(order) \in Nat
  <2>1. IsNested(served)
    BY <1>2, ServedIs DEF Shaped
  <2> QED BY <1>a, <2>1, ChosenInOrder
<1>5. PICK n \in 0 .. Len(order) : HasRead(n)
  BY <1>2, <1>a DEF Running, Reading
<1>6. n = Len(order)
  <2> SUFFICES ASSUME n # Len(order) PROVE FALSE
    OBVIOUS
  <2>1. 1 \in 1 .. Len(order) - n
    BY <1>4
  <2>2. wire[1] = Record(served, known, order[n + 1])
    BY <1>5, <1>a, <2>1 DEF HasRead
  <2> QED BY <1>1, <1>3, <2>2 DEF Record
<1>7. Len(order) - n = 0 /\ 0 + 1 = 1 /\ 1 .. 0 = {}
  BY <1>4, <1>6
<1>8. \A k \in 1 .. Len(wire) :
        \/ \E i \in served.slow : wire[k] = AwaitOf(i)
        \/ k = Len(wire) /\ ~open /\ \E reason \in {"final", "failed"} : wire[k] = End(reason)
  BY <1>5, <1>7, <1>a DEF HasRead
<1>9. NoneLeft /\ NoneLeft'
  <2>1. \A k \in 1 .. Len(wire) : wire[k].r # "op"
    BY <1>8, RecordFields
  <2>2. \A k \in 1 .. Len(wire) - 1 : wire'[k].r # "op"
    <3> TAKE k \in 1 .. Len(wire) - 1
    <3>1. k + 1 \in 1 .. Len(wire)
      BY <1>3
    <3> QED BY <1>3, <2>1, <3>1
  <2> QED BY <1>3, <2>1, <2>2 DEF NoneLeft
<1>10. PICK i \in served.slow : await = AwaitOf(i)
  <2>1. \/ \E j \in served.slow : wire[1] = AwaitOf(j)
        \/ \E reason \in {"final", "failed"} : wire[1] = End(reason)
    <3>1. 1 \in 1 .. Len(wire)
      BY <1>3
    <3> QED BY <1>8, <3>1
  <2>2. \A reason : wire[1] # End(reason)
    BY <1>1, <1>3, RecordFields
  <2> QED BY <1>3, <2>1, <2>2
<1>11. await.id = i /\ await.value = served.value[i]
  BY <1>10, RecordFields
<1>12. Attached(screen) = Instances(served)
  BY <1>2, <1>9, AllRead
<1>13. screen' = IF i \in Instances(served)
                   THEN [screen EXCEPT ![i].shown = served.value[i]] ELSE screen
  BY <1>2, <1>11, <1>12, <1>b DEF ReadAwait
<1>14. /\ screen' = [j \in Id |-> screen'[j]]
       /\ \A j \in Id : IsRegion(screen'[j]) /\ screen'[j].frame = screen[j].frame
                        /\ screen'[j].kids = screen[j].kids
                        /\ (j # i => screen'[j].shown = screen[j].shown)
       /\ i \in Instances(served) => screen'[i].shown = served.value[i]
  <2>1. screen = [j \in Id |-> screen[j]] /\ \A j \in Id : IsRegion(screen[j])
    BY <1>2 DEF Shaped
  <2>2. CASE i \in Instances(served)
    <3>1. i \in Id
      <4>1. IsNested(served)
        BY <1>2, ServedIs DEF Shaped
      <4> QED BY <2>2, <4>1, Walked
    <3>2. PICK r : r = [screen[i] EXCEPT !.shown = served.value[i]]
      OBVIOUS
    <3>0. IsRegion(screen[i])
      BY <2>1, <3>1
    <3>3. /\ IsRegion(r) /\ r.frame = screen[i].frame /\ r.kids = screen[i].kids
          /\ r.shown = served.value[i]
      <4>1. PICK s : s = screen[i]
        OBVIOUS
      <4>2. PICK x : x = served.value[i]
        OBVIOUS
      <4>3. IsRegion(s) /\ r = [s EXCEPT !.shown = x]
        BY <3>0, <3>2, <4>1, <4>2
      <4>4. IsRegion(r) /\ r.frame = s.frame /\ r.kids = s.kids /\ r.shown = x
        BY <4>3, ShownChanged
      <4> QED BY <4>1, <4>2, <4>4
    <3>4. screen' = [screen EXCEPT ![i] = r]
      BY <1>13, <2>2, <3>2
    <3>5. DOMAIN screen = Id
      BY <2>1
    <3>6. DOMAIN screen' = Id /\ screen'[i] = r /\ \A j \in Id : j # i => screen'[j] = screen[j]
      BY <3>1, <3>4, <3>5
    <3>7. screen' = [j \in Id |-> screen'[j]]
      BY <3>4, <3>5
    <3> QED BY <2>1, <3>3, <3>6, <3>7
  <2>3. CASE i \notin Instances(served)
    BY <1>13, <2>1, <2>3
  <2> QED BY <2>2, <2>3
<1>15. Shaped'
  BY <1>1, <1>2, <1>3, <1>14 DEF Shaped
<1>16. Reading'
  <2>1. /\ n \in 0 .. Len(order) /\ DOMAIN next' = { order[k] : k \in 1 .. n }
        /\ \A j \in DOMAIN next' : next'[j] = Manifest(served')[j]
    BY <1>1, <1>5, <1>a DEF HasRead
  <2>2. 0 <= Len(wire') /\ \A k \in 1 .. 0 : wire'[k] = Record(served', known', order[n + k])
    BY <1>3
  <2>3. \A k \in 1 .. Len(wire') :
          \/ \E j \in served'.slow : wire'[k] = AwaitOf(j)'
          \/ k = Len(wire') /\ ~open' /\ \E reason \in {"final", "failed"} : wire'[k] = End(reason)
    <3> TAKE k \in 1 .. Len(wire')
    <3>1. /\ wire'[k] = wire[k + 1] /\ k + 1 \in 1 .. Len(wire)
          /\ k + 1 = Len(wire) => k = Len(wire')
      BY <1>3
    <3>2. \A j : AwaitOf(j)' = AwaitOf(j)
      BY <1>1 DEF AwaitOf
    <3> QED BY <1>1, <1>8, <3>1, <3>2
  <2>4. ~open' => 0 < Len(wire') /\ wire'[Len(wire')].r = "end"
    <3> SUFFICES ASSUME ~open PROVE 0 < Len(wire') /\ wire'[Len(wire')].r = "end"
      BY <1>1
    <3>1. wire[Len(wire)].r = "end"
      BY <1>5 DEF HasRead
    <3>2. Len(wire) # 1
      BY <1>1, <1>3, <3>1
    <3>3. Len(wire') \in 1 .. Len(wire) - 1 /\ Len(wire') + 1 = Len(wire)
      BY <1>3, <3>2
    <3>4. wire'[Len(wire')] = wire[Len(wire)]
      BY <1>3, <3>3
    <3> QED BY <3>1, <3>3, <3>4
  <2>5. order = Chosen(served, known)'
    BY <1>1, <1>a
  <2>6. HasRead(n)'
    BY <1>7, <2>1, <2>2, <2>3, <2>4, <2>5 DEF HasRead, End
  <2> QED BY <2>1, <2>5, <2>6 DEF Reading
<1>0. Instances(served) \subseteq Id
  <2>1. IsNested(served)
    BY <1>2, ServedIs DEF Shaped
  <2> QED BY <2>1, Walked
<1>17. Applied'
  <2> SUFFICES ASSUME NEW j \in Instances(served)
               PROVE  LET kind == Kind(Manifest(served), known, j)
                      IN  /\ kind # "replace" => InPlace(j)' /\ j \notin renewed
                          /\ j \in DOMAIN next \/ kind = "unchanged"
                             => InPlace(j)' /\ screen'[j].kids = served.kids[j]
    BY <1>1 DEF Applied
  <2>1. InPlace(j) => InPlace(j)'
    BY <1>0, <1>1, <1>14 DEF InPlace
  <2>2. screen'[j].kids = screen[j].kids
    BY <1>0, <1>14
  <2>3. LET kind == Kind(Manifest(served), known, j)
        IN  /\ kind # "replace" => InPlace(j) /\ j \notin renewed
            /\ j \in DOMAIN next \/ kind = "unchanged"
               => InPlace(j) /\ screen[j].kids = served.kids[j]
    BY <1>2 DEF Running, Applied
  <2> QED BY <2>1, <2>2, <2>3
<1>18. Settling'
  <2> SUFFICES ASSUME NEW j \in served.slow \cap Instances(served)
               PROVE  \/ j \in waiting \/ abandoned \/ EndsFailed'
                      \/ \E k \in DOMAIN wire' : wire'[k] = AwaitOf(j)
                      \/ screen'[j].shown = served.value[j]
    BY <1>1, <1>9 DEF Settling, AwaitOf
  <2>1. \/ j \in waiting \/ abandoned \/ EndsFailed
        \/ \E k \in DOMAIN wire : wire[k] = AwaitOf(j)
        \/ screen[j].shown = served.value[j]
    BY <1>2 DEF Running, Settling
  <2>2. EndsFailed => EndsFailed'
    <3> SUFFICES ASSUME wire[Len(wire)] = End("failed") PROVE EndsFailed'
      BY DEF EndsFailed
    <3>1. Len(wire) # 1
      BY <1>1, <1>3 DEF End
    <3>2. Len(wire') \in 1 .. Len(wire) - 1 /\ Len(wire') + 1 = Len(wire)
      BY <1>3, <3>1
    <3>3. wire'[Len(wire')] = End("failed") /\ wire' # << >>
      BY <1>3, <3>2
    <3> QED BY <3>3 DEF EndsFailed, End
  <2>3. ASSUME NEW k \in DOMAIN wire, wire[k] = AwaitOf(j)
        PROVE  \/ \E l \in DOMAIN wire' : wire'[l] = AwaitOf(j)
               \/ screen'[j].shown = served.value[j]
    <3>1. CASE k = 1
      <4>1. i = j
        <5>1. AwaitOf(i) = AwaitOf(j)
          BY <1>3, <1>10, <2>3, <3>1
        <5>2. AwaitOf(i).id = i /\ AwaitOf(j).id = j
          BY RecordFields
        <5> QED BY <5>1, <5>2
      <4> QED BY <1>14, <4>1
    <3>2. CASE k # 1
      <4>1. k - 1 \in DOMAIN wire' /\ k - 1 \in 1 .. Len(wire) - 1 /\ k - 1 + 1 = k
        BY <1>3, <3>2
      <4> QED BY <1>3, <2>3, <4>1
    <3> QED BY <3>1, <3>2
  <2>4. screen[j].shown = served.value[j] => screen'[j].shown = served.value[j]
    BY <1>0, <1>14
  <2> QED BY <2>1, <2>2, <2>3, <2>4
<1> QED BY <1>1, <1>2, <1>15, <1>16, <1>17, <1>18 DEF Inv, Running, Quiet, Claims

\* A response that ended is the screen, and the client claims what it said.
LEMMA ReadEndInv ==
  ASSUME Inv, ReadEnd
  PROVE  Inv'
<1>1. /\ phase = "streaming" /\ wire # << >> /\ Head(wire).r = "end"
  BY DEF ReadEnd, Receive
<1>2. Shaped /\ (Failing \/ Running) /\ Over("idle", next) /\ screen' = Swept
  BY <1>1 DEF Inv, Shaped, ReadEnd
<1>3. phase' = "idle" /\ held' = next
  BY <1>2 DEF Over
<1>4. CASE Failing
  <2>1. DOMAIN next = {}
    BY <1>4 DEF Failing, Nothing
  <2>2. Vouched(held)'
    BY <1>3, <2>1 DEF Vouched
  <2> QED BY <1>2, <1>3, <2>1, <2>2, OverInv, SweptScreen
<1>5. CASE Running
  <2>1. NoneLeft
    <3>a. PICK order : order = Chosen(served, known)
      OBVIOUS
    <3>1. /\ Len(wire) \in Nat /\ 1 <= Len(wire) /\ wire[1].r = "end" /\ DOMAIN wire = 1 .. Len(wire)
      BY <1>1, <1>2, TakenOff DEF Shaped
    <3>2. Len(order) \in Nat
      <4>1. IsNested(served)
        BY <1>2, ServedIs DEF Shaped
      <4> QED BY <3>a, <4>1, ChosenInOrder
    <3>3. PICK n \in 0 .. Len(order) : HasRead(n)
      BY <1>5, <3>a DEF Running, Reading
    <3>4. n = Len(order)
      <4> SUFFICES ASSUME n # Len(order) PROVE FALSE
        OBVIOUS
      <4>1. 1 \in 1 .. Len(order) - n
        BY <3>2
      <4>2. wire[1] = Record(served, known, order[n + 1])
        BY <3>3, <3>a, <4>1 DEF HasRead
      <4> QED BY <3>1, <4>2 DEF Record
    <3>5. Len(order) - n = 0 /\ 0 + 1 = 1
      BY <3>2, <3>4
    <3>6. \A k \in 1 .. Len(wire) :
            \/ \E i \in served.slow : wire[k] = AwaitOf(i)
            \/ \E reason \in {"final", "failed"} : wire[k] = End(reason)
      BY <3>3, <3>5, <3>a DEF HasRead
    <3>7. \A k \in 1 .. Len(wire) : wire[k].r # "op"
      BY <3>6, RecordFields
    <3> QED BY <3>1, <3>7 DEF NoneLeft
  <2>2. /\ HasRead(Len(Chosen(served, known))) /\ DOMAIN next = Instances(served)
        /\ Attached(screen) = Instances(served)
        /\ \A i \in Instances(served) :
             InPlace(i) /\ screen[i] # Gone /\ screen[i].kids = served.kids[i]
    BY <1>2, <1>5, <2>1, AllRead
  <2>3. IsNested(served) /\ \A i : Frame(served, i).fenced <=> i \in served.slow
    BY <1>2, ServedIs DEF Shaped
  <2>4. \A i \in Instances(served) : screen'[i] = screen[i]
    BY <1>2, <2>2, SweptScreen
  <2>5. Attached(screen') = Instances(served)
    BY <2>2, <2>3, <2>4, AttachedAll
  <2>6. \A i \in DOMAIN next : next[i] = Manifest(served)[i]
    BY <2>2 DEF HasRead
  <2>7. \A i \in DOMAIN next :
          /\ next[i].frame = Frame(served, i) /\ next[i].children = served.kids[i]
          /\ next[i].parent \in Id \cup {Nobody}
    BY <2>2, <2>3, <2>6, ManifestOf
  <2>8. Vouched(held)'
    BY <1>3, <2>2, <2>3, <2>4, <2>5, <2>7 DEF Vouched, InPlace
  <2> QED BY <1>2, <1>3, <2>7, <2>8, OverInv, SweptScreen
<1> QED BY <1>2, <1>4, <1>5

\* A region is put in its place: it is as given, and the regions of the page that
\* have their lists keep them.
LEMMA InstalledScreen ==
  ASSUME Shaped, NEW i \in Instances(served), NEW region, IsRegion(region),
         region.kids = served.kids[i], NEW put, put = Installed(i, region)
  PROVE  /\ put = [j \in Id |-> put[j]] /\ \A j \in Id : IsRegion(put[j])
         /\ put[i] = region
         /\ \A j \in Instances(served) \ {i} :
              /\ put[j].frame = screen[j].frame /\ put[j].shown = screen[j].shown
              /\ screen[j].kids = served.kids[j] => put[j].kids = served.kids[j]
<1>0. IsNested(served)
  BY ServedIs DEF Shaped
<1>1. i \in Id /\ Instances(served) \subseteq Id /\ served.kids \in [Id -> Seq(Id)]
  BY <1>0, Walked
<1>2. put = [j \in Id |-> IF j = i THEN region
                          ELSE [screen[j] EXCEPT !.kids = Without(@, region.kids)]]
  BY DEF Installed
<1>3. put = [j \in Id |-> put[j]] /\ put[i] = region
  BY <1>1, <1>2
<1>4. ASSUME NEW j \in Id, j # i
      PROVE  /\ IsRegion(put[j])
             /\ put[j].frame = screen[j].frame /\ put[j].shown = screen[j].shown
             /\ put[j].kids = Without(screen[j].kids, region.kids)
  <2>1. PICK s : s = screen[j]
    OBVIOUS
  <2>2. PICK x : x = Without(screen[j].kids, region.kids)
    OBVIOUS
  <2>3. put[j] = [s EXCEPT !.kids = x] /\ IsRegion(s)
    BY <1>2, <1>4, <2>1, <2>2 DEF Shaped
  <2>5. PICK t : t = put[j]
    OBVIOUS
  <2>4. IsRegion(t) /\ t.frame = s.frame /\ t.kids = x /\ t.shown = s.shown
    BY <2>3, <2>5, ListChanged
  <2> QED BY <2>1, <2>2, <2>4, <2>5
<1>5. ASSUME NEW j \in Instances(served) \ {i}, screen[j].kids = served.kids[j]
      PROVE  put[j].kids = served.kids[j]
  <2>a. PICK order : order = Preorder(served.kids)
    OBVIOUS
  <2>1. PICK m \in DOMAIN order : j = order[m]
    BY <1>0, <2>a, Walked
  <2>2. PICK n \in DOMAIN order : i = order[n]
    BY <1>0, <2>a, Walked
  <2>3. ToSet(served.kids[order[m]]) \cap ToSet(served.kids[order[n]]) = {}
    BY <1>0, <1>5, <2>1, <2>2, <2>a DEF IsNested
  <2>4. served.kids[j] \in Seq(Id) /\ j \in Id /\ j # i
    BY <1>1
  <2>5. Without(served.kids[j], served.kids[i]) = served.kids[j]
    BY <2>1, <2>2, <2>3, <2>4, WithoutOthers
  <2> QED BY <1>4, <1>5, <2>4, <2>5
<1>6. \A j \in Id : IsRegion(put[j])
  BY <1>3, <1>4
<1> QED BY <1>1, <1>3, <1>4, <1>5, <1>6

\* The next record of the response is for a boundary of the page, and what it
\* addresses is in the document or has a hole there.
LEMMA OperationIs ==
  ASSUME Shaped, Running, wire # << >>, Head(wire).r = "op",
         NEW n \in 0 .. Len(Chosen(served, known)), HasRead(n)
  PROVE  LET i == Chosen(served, known)[n + 1]
         IN  /\ n < Len(Chosen(served, known))
             /\ i \in Instances(served) /\ Head(wire) = Record(served, known, i)
             /\ Kind(Manifest(served), known, i) # "unchanged" => Resolves(i)
<1>a. PICK chosen : chosen = Chosen(served, known)
  OBVIOUS
<1>b. PICK order : order = Preorder(served.kids)
  OBVIOUS
<1>0. IsNested(served)
  BY ServedIs DEF Shaped
<1> DEFINE Told(j) == Kind(Manifest(served), known, j) # "unchanged"
<1>1. /\ Len(chosen) \in Nat
      /\ \A k \in 1 .. Len(chosen) : chosen[k] \in Instances(served)
      /\ \A k \in 1 .. Len(chosen), p, q \in DOMAIN order :
           Told(chosen[k]) /\ order[p] = chosen[k] /\ q < p /\ Told(order[q])
           => \E m \in 1 .. Len(chosen) : m < k /\ chosen[m] = order[q]
  <2> DEFINE c == Chosen(served, known)
             o == Preorder(served.kids)
  <2>1. /\ Len(c) \in Nat
        /\ \A k \in 1 .. Len(c) : c[k] \in Instances(served)
        /\ \A k \in 1 .. Len(c), p, q \in DOMAIN o :
             Told(c[k]) /\ o[p] = c[k] /\ q < p /\ Told(o[q])
             => \E m \in 1 .. Len(c) : m < k /\ c[m] = o[q]
    BY <1>0, ChosenInOrder
  <2> HIDE DEF Told
  <2> QED BY <1>a, <1>b, <2>1
<1>2. Len(wire) \in Nat /\ 1 <= Len(wire) /\ Head(wire) = wire[1]
  BY TakenOff DEF Shaped
<1>3. n < Len(chosen)
  <2> SUFFICES ASSUME ~(n < Len(chosen)) PROVE FALSE
    OBVIOUS
  <2>1. Len(chosen) - n + 1 = 1
    BY <1>1, <1>a
  <2>2. 1 \in Len(chosen) - n + 1 .. Len(wire)
    BY <1>2, <2>1
  <2>3. \/ \E j \in served.slow : wire[1] = AwaitOf(j)
        \/ \E reason \in {"final", "failed"} : wire[1] = End(reason)
    BY <1>a, <2>2 DEF HasRead
  <2> QED BY <1>2, <2>3, RecordFields
<1>4. n + 1 \in 1 .. Len(chosen) /\ 1 \in 1 .. Len(chosen) - n
  BY <1>1, <1>3, <1>a
<1>c. PICK i : i = chosen[n + 1]
  OBVIOUS
<1>5. i \in Instances(served) /\ Head(wire) = Record(served, known, i)
  BY <1>1, <1>2, <1>4, <1>a, <1>c DEF HasRead
<1>6. ASSUME Told(i) PROVE Resolves(i)
  <2>1. PICK p \in DOMAIN order : i = order[p]
    BY <1>0, <1>5, <1>b, Walked
  <2>2. ASSUME NEW q \in DOMAIN order, q < p
        PROVE  screen[order[q]] # Gone /\ screen[order[q]].kids = served.kids[order[q]]
    <3>1. order[q] \in Instances(served)
      BY <1>0, <1>b, Walked
    <3>2. order[q] \in DOMAIN next \/ ~Told(order[q])
      <4> SUFFICES ASSUME Told(order[q]) PROVE order[q] \in DOMAIN next
        OBVIOUS
      <4> HIDE DEF Told
      <4>1. PICK m \in 1 .. Len(chosen) : m < n + 1 /\ chosen[m] = order[q]
        BY <1>1, <1>4, <1>6, <1>c, <2>1, <2>2
      <4>2. m \in 1 .. n
        BY <1>a, <4>1
      <4>3. DOMAIN next = { chosen[k] : k \in 1 .. n }
        BY <1>a DEF HasRead
      <4> QED BY <4>1, <4>2, <4>3
    <3>3. InPlace(order[q]) /\ screen[order[q]].kids = served.kids[order[q]]
      BY <3>1, <3>2 DEF Running, Applied
    <3> QED BY <3>1, <3>3, PlacedIsThere
  <2>3. p \in DOMAIN Preorder(served.kids) /\ i = Preorder(served.kids)[p]
    BY <1>b, <2>1
  <2>4. \A q \in DOMAIN Preorder(served.kids) :
          q < p => LET j == Preorder(served.kids)[q]
                   IN  screen[j] # Gone /\ screen[j].kids = served.kids[j]
    BY <1>b, <2>2
  <2>5. Resolves(Preorder(served.kids)[p])
    BY <1>0, <2>3, <2>4, HoleOfEach
  <2> QED BY <2>3, <2>5
<1> QED BY <1>3, <1>5, <1>6, <1>a, <1>c

\* What reading an operation changes on the screen.
LEMMA OperationApplied ==
  ASSUME Shaped, Running, ReadOperation,
         NEW n \in 0 .. Len(Chosen(served, known)), HasRead(n),
         NEW i, i = Chosen(served, known)[n + 1],
         NEW kind, kind = Kind(Manifest(served), known, i)
  PROVE  /\ i \in Instances(served) /\ n < Len(Chosen(served, known))
         /\ broken' = broken /\ wire' = Tail(wire) /\ wire # << >> /\ Head(wire).r = "op"
         /\ \A j : (j \in DOMAIN next' <=> j \in DOMAIN next \/ j = i)
         /\ next'[i] = Manifest(served)[i]
         /\ \A j \in DOMAIN next \ {i} : next'[j] = next[j]
         /\ \A j \in renewed' : j \in renewed \/ (kind = "replace" /\ j = i)
         /\ \A j \in DOMAIN held' : j \in DOMAIN held /\ held'[j] = held[j]
         /\ screen' = [j \in Id |-> screen'[j]] /\ \A j \in Id : IsRegion(screen'[j])
         /\ screen'[i].frame = Frame(served, i) /\ screen'[i].kids = served.kids[i]
         /\ i \notin served.slow => screen'[i].shown = Plain
         /\ \A j \in Instances(served) \ {i} :
              /\ screen'[j].frame = screen[j].frame /\ screen'[j].shown = screen[j].shown
              /\ screen[j].kids = served.kids[j] => screen'[j].kids = served.kids[j]
<1> DEFINE entry == Manifest(served)[i]
<1>0. IsNested(served) /\ ~Bundled /\ broken = FALSE
  BY ServedIs DEF Shaped, Bundled
<1>1. wire # << >> /\ Head(wire).r = "op" /\ wire' = Tail(wire) /\ served' = served
  BY DEF ReadOperation, Receive, ReadOn, serverVars
<1>2. /\ n < Len(Chosen(served, known))
      /\ i \in Instances(served) /\ Head(wire) = Record(served, known, i)
      /\ kind # "unchanged" => Resolves(i)
  <2>1. /\ n < Len(Chosen(served, known))
        /\ i \in Instances(served) /\ Head(wire) = Record(served, known, i)
        /\ Kind(Manifest(served), known, i) # "unchanged" => Resolves(i)
    BY <1>1, OperationIs
  <2> QED BY <2>1
<1>3. Head(wire).kind = kind /\ Head(wire).id = i /\ Head(wire).entry = entry
  BY <1>2 DEF Record
<1>4. kind \in {"replace", "children", "unchanged"} /\ i \in Id
  BY <1>0, <1>2, KindIs, Walked
<1>5. /\ entry.frame = Frame(served, i) /\ entry.children = served.kids[i]
      /\ Frame(served, i).fenced <=> i \in served.slow
  <2>1. \A j : Frame(served, j).fenced <=> j \in served.slow
    BY ServedIs DEF Shaped
  <2> QED BY <1>0, <1>2, <2>1, ManifestOf
<1> HIDE DEF entry
<1>6. next' = Noted(next, i, entry)
  BY <1>3 DEF ReadOperation, ReadOn
<1>7. /\ \A j : (j \in DOMAIN next' <=> j \in DOMAIN next \/ j = i)
      /\ next'[i] = entry
      /\ \A j \in DOMAIN next \ {i} : next'[j] = next[j]
  BY <1>6 DEF Noted
<1>8. ASSUME kind = "unchanged"
      PROVE  broken' = broken /\ screen' = screen /\ held' = held /\ renewed' = renewed
  BY <1>0, <1>3, <1>8 DEF ReadOperation
<1>9. ASSUME kind # "unchanged"
      PROVE  /\ broken' = broken
             /\ screen' = IF kind = "replace" THEN Replaced(i, entry) ELSE Reordered(i, entry)
             /\ renewed' = IF kind = "replace" THEN renewed \cup {i} ELSE renewed
             /\ held' = Restrict(held, DOMAIN held \ {i})
  <2>1. kind = "replace" \/ kind = "children"
    BY <1>4, <1>9
  <2>2. Resolves(i)
    BY <1>2, <1>9
  <2> QED BY <1>0, <1>3, <2>1, <2>2 DEF ReadOperation
<1>10. broken' = broken
  BY <1>8, <1>9
<1>11. \A j \in renewed' : j \in renewed \/ (kind = "replace" /\ j = i)
  BY <1>8, <1>9
<1>12. \A j \in DOMAIN held' : j \in DOMAIN held /\ held'[j] = held[j]
  <2>1. \A j \in DOMAIN held \ {i} : Restrict(held, DOMAIN held \ {i})[j] = held[j]
    BY DEF Restrict
  <2>2. DOMAIN Restrict(held, DOMAIN held \ {i}) = DOMAIN held \ {i}
    BY DEF Restrict
  <2> QED BY <1>8, <1>9, <2>1, <2>2
<1>13. /\ screen = [j \in Id |-> screen[j]] /\ \A j \in Id : IsRegion(screen[j])
  BY DEF Shaped
<1>14. /\ screen' = [j \in Id |-> screen'[j]] /\ \A j \in Id : IsRegion(screen'[j])
       /\ screen'[i].frame = Frame(served, i)
       /\ i \notin served.slow => screen'[i].shown = Plain
       /\ screen'[i].kids = served.kids[i]
       /\ \A j \in Instances(served) \ {i} :
            /\ screen'[j].frame = screen[j].frame /\ screen'[j].shown = screen[j].shown
            /\ screen[j].kids = served.kids[j] => screen'[j].kids = served.kids[j]
  <2>1. kind # "replace" => InPlace(i)
    BY <1>2 DEF Running, Applied
  <2>2. CASE kind = "unchanged"
    <3>1. screen[i].kids = served.kids[i]
      BY <1>2, <2>2 DEF Running, Applied
    <3> QED BY <1>8, <1>13, <2>1, <2>2, <3>1 DEF InPlace
  <2>3. CASE kind = "children"
    <3>1. PICK s : s = screen[i]
      OBVIOUS
    <3>2. PICK x : x = entry.children
      OBVIOUS
    <3>3. PICK region : region = [s EXCEPT !.kids = x]
      OBVIOUS
    <3>4. /\ IsRegion(region) /\ region.kids = x
          /\ region.frame = s.frame /\ region.shown = s.shown
      <4>1. IsRegion(s)
        BY <1>4, <1>13, <3>1
      <4> QED BY <3>3, <4>1, ListChanged
    <3>5. screen' = Installed(i, region)
      BY <1>0, <1>9, <2>3, <3>1, <3>2, <3>3 DEF Reordered
    <3>6. region.kids = served.kids[i]
      BY <1>5, <3>2, <3>4
    <3>7. /\ screen' = [j \in Id |-> screen'[j]] /\ \A j \in Id : IsRegion(screen'[j])
          /\ screen'[i] = region
          /\ \A j \in Instances(served) \ {i} :
               /\ screen'[j].frame = screen[j].frame /\ screen'[j].shown = screen[j].shown
               /\ screen[j].kids = served.kids[j] => screen'[j].kids = served.kids[j]
      BY <1>2, <3>4, <3>5, <3>6, InstalledScreen
    <3> QED BY <2>1, <2>3, <3>1, <3>4, <3>6, <3>7 DEF InPlace
  <2>4. CASE kind = "replace"
    <3>1. PICK region : region = Replacement(entry)
      OBVIOUS
    <3>2. /\ IsRegion(region) /\ region.kids = entry.children /\ region.frame = entry.frame
          /\ ~entry.frame.fenced => region.shown = Plain
      BY <3>1 DEF Replacement, IsRegion
    <3>5. screen' = Installed(i, region)
      BY <1>0, <1>9, <2>4, <3>1 DEF Replaced
    <3>6. region.kids = served.kids[i]
      BY <1>5, <3>2
    <3>7. /\ screen' = [j \in Id |-> screen'[j]] /\ \A j \in Id : IsRegion(screen'[j])
          /\ screen'[i] = region
          /\ \A j \in Instances(served) \ {i} :
               /\ screen'[j].frame = screen[j].frame /\ screen'[j].shown = screen[j].shown
               /\ screen[j].kids = served.kids[j] => screen'[j].kids = served.kids[j]
      BY <1>2, <3>2, <3>5, <3>6, InstalledScreen
    <3> QED BY <1>5, <3>2, <3>6, <3>7
  <2> QED BY <1>4, <2>2, <2>3, <2>4
<1> QED BY <1>1, <1>2, <1>7, <1>10, <1>11, <1>12, <1>14 DEF entry

\* An operation is applied.
LEMMA ReadOperationInv ==
  ASSUME Inv, ReadOperation
  PROVE  Inv'
<1>a. PICK order : order = Chosen(served, known)
  OBVIOUS
<1>1. /\ phase = "streaming" /\ wire # << >> /\ Head(wire).r = "op"
      /\ UNCHANGED << setting, phase, known, served, waiting, open, abandoned >>
  BY DEF ReadOperation, Receive, ReadOn, serverVars
<1>2. Shaped /\ Running
  <2>1. Failing => Head(wire) = End("failed")
    BY DEF Failing
  <2> QED BY <1>1, <2>1, RecordFields DEF Inv
<1>0. IsNested(served) /\ Instances(served) \subseteq Id
  <2>1. IsNested(served)
    BY <1>2, ServedIs DEF Shaped
  <2> QED BY <2>1, Walked
<1>3. Len(order) \in Nat
  BY <1>0, <1>a, ChosenInOrder
<1>4. PICK n \in 0 .. Len(order) : HasRead(n)
  BY <1>2, <1>a DEF Running, Reading
<1>5. PICK i : i = order[n + 1]
  OBVIOUS
<1>b. PICK kind : kind = Kind(Manifest(served), known, i)
  OBVIOUS
<1>6. /\ i \in Instances(served) /\ n < Len(order) /\ broken' = broken /\ wire' = Tail(wire)
      /\ \A j : (j \in DOMAIN next' <=> j \in DOMAIN next \/ j = i)
      /\ next'[i] = Manifest(served)[i]
      /\ \A j \in DOMAIN next \ {i} : next'[j] = next[j]
      /\ \A j \in renewed' : j \in renewed \/ (kind = "replace" /\ j = i)
      /\ \A j \in DOMAIN held' : j \in DOMAIN held /\ held'[j] = held[j]
      /\ screen' = [j \in Id |-> screen'[j]] /\ \A j \in Id : IsRegion(screen'[j])
      /\ InPlace(i)' /\ screen'[i].kids = served.kids[i]
      /\ \A j \in Instances(served) \ {i} :
           /\ screen'[j].frame = screen[j].frame /\ screen'[j].shown = screen[j].shown
           /\ screen[j].kids = served.kids[j] => screen'[j].kids = served.kids[j]
  <2>1. i = Chosen(served, known)[n + 1] /\ n \in 0 .. Len(Chosen(served, known))
    BY <1>4, <1>5, <1>a
  <2>2. /\ i \in Instances(served) /\ n < Len(Chosen(served, known)) /\ broken' = broken /\ wire' = Tail(wire)
        /\ \A j : (j \in DOMAIN next' <=> j \in DOMAIN next \/ j = i)
        /\ next'[i] = Manifest(served)[i]
        /\ \A j \in DOMAIN next \ {i} : next'[j] = next[j]
        /\ \A j \in renewed' : j \in renewed \/ (kind = "replace" /\ j = i)
        /\ \A j \in DOMAIN held' : j \in DOMAIN held /\ held'[j] = held[j]
        /\ screen' = [j \in Id |-> screen'[j]] /\ \A j \in Id : IsRegion(screen'[j])
        /\ screen'[i].frame = Frame(served, i) /\ screen'[i].kids = served.kids[i]
        /\ i \notin served.slow => screen'[i].shown = Plain
        /\ \A j \in Instances(served) \ {i} :
             /\ screen'[j].frame = screen[j].frame /\ screen'[j].shown = screen[j].shown
             /\ screen[j].kids = served.kids[j] => screen'[j].kids = served.kids[j]
    BY <1>2, <1>4, <1>b, <2>1, OperationApplied
  <2>3. InPlace(i)'
    BY <1>1, <2>2 DEF InPlace
  <2> QED BY <1>a, <2>2, <2>3
<1>7. /\ IsSequence(wire') /\ Len(wire) \in Nat /\ 1 <= Len(wire)
      /\ Len(wire') = Len(wire) - 1 /\ DOMAIN wire = 1 .. Len(wire) /\ Head(wire) = wire[1]
      /\ DOMAIN wire' = 1 .. Len(wire) - 1
      /\ \A k \in 1 .. Len(wire) - 1 : wire'[k] = wire[k + 1]
  BY <1>1, <1>2, <1>6, TakenOff DEF Shaped
<1>8. Shaped'
  <2>1. renewed' \subseteq Id
    BY <1>0, <1>2, <1>6 DEF Shaped
  <2>2. \A j \in DOMAIN held' : held'[j].parent \in Id \cup {Nobody}
    BY <1>2, <1>6 DEF Shaped
  <2> QED BY <1>1, <1>2, <1>6, <1>7, <2>1, <2>2 DEF Shaped
<1>9. Reading'
  <2>0. PICK left : left = Len(order) - n
    OBVIOUS
  <2>1. /\ DOMAIN next = { order[k] : k \in 1 .. n }
        /\ \A j \in DOMAIN next : next[j] = Manifest(served)[j]
        /\ left <= Len(wire)
        /\ \A k \in 1 .. left : wire[k] = Record(served, known, order[n + k])
        /\ \A k \in left + 1 .. Len(wire) :
             \/ \E j \in served.slow : wire[k] = AwaitOf(j)
             \/ k = Len(wire) /\ ~open /\ \E reason \in {"final", "failed"} : wire[k] = End(reason)
        /\ ~open => left < Len(wire) /\ wire[Len(wire)].r = "end"
    BY <1>4, <1>a, <2>0 DEF HasRead
  <2>2. /\ left \in Nat /\ 1 <= left /\ left - 1 = Len(order) - (n + 1)
        /\ n + 1 \in 0 .. Len(order) /\ left - 1 <= Len(wire')
    BY <1>3, <1>4, <1>6, <1>7, <2>0, <2>1
  <2>3. DOMAIN next' = { order[k] : k \in 1 .. n + 1 }
    <3>1. \A k : k \in 1 .. n + 1 <=> k \in 1 .. n \/ k = n + 1
      BY <1>3, <1>4
    <3>2. DOMAIN next' = DOMAIN next \cup {i}
      BY <1>6
    <3>3. DOMAIN next = { order[k] : k \in 1 .. n }
      BY <2>1
    <3> QED BY <1>5, <3>1, <3>2, <3>3
  <2>4. \A j \in DOMAIN next' : next'[j] = Manifest(served')[j]
    BY <1>1, <1>6, <2>1
  <2>5. \A k \in 1 .. left - 1 : wire'[k] = Record(served', known', order[n + 1 + k])
    <3> TAKE k \in 1 .. left - 1
    <3>1. k + 1 \in 1 .. left /\ k \in 1 .. Len(wire) - 1 /\ n + (k + 1) = n + 1 + k
      BY <1>3, <1>4, <1>7, <2>1, <2>2
    <3>2. wire[k + 1] = Record(served, known, order[n + 1 + k])
      BY <2>1, <3>1
    <3> QED BY <1>1, <1>7, <3>1, <3>2
  <2>6. \A k \in left - 1 + 1 .. Len(wire') :
          \/ \E j \in served'.slow : wire'[k] = AwaitOf(j)'
          \/ k = Len(wire') /\ ~open' /\ \E reason \in {"final", "failed"} : wire'[k] = End(reason)
    <3> TAKE k \in left - 1 + 1 .. Len(wire')
    <3>1. /\ k \in 1 .. Len(wire) - 1 /\ k + 1 \in left + 1 .. Len(wire)
          /\ k + 1 = Len(wire) => k = Len(wire')
      BY <1>7, <2>2
    <3>2. \A j : AwaitOf(j)' = AwaitOf(j)
      BY <1>1 DEF AwaitOf
    <3>3. wire'[k] = wire[k + 1]
      BY <1>7, <3>1
    <3>4. CASE \E j \in served.slow : wire[k + 1] = AwaitOf(j)
      BY <1>1, <3>2, <3>3, <3>4
    <3>5. CASE /\ k + 1 = Len(wire) /\ ~open
               /\ \E reason \in {"final", "failed"} : wire[k + 1] = End(reason)
      BY <1>1, <3>1, <3>3, <3>5
    <3> QED BY <2>1, <3>1, <3>4, <3>5
  <2>7. ~open' => left - 1 < Len(wire') /\ wire'[Len(wire')].r = "end"
    <3> SUFFICES ASSUME ~open PROVE left - 1 < Len(wire') /\ wire'[Len(wire')].r = "end"
      BY <1>1
    <3>1. Len(wire') \in 1 .. Len(wire) - 1 /\ Len(wire') + 1 = Len(wire) /\ left - 1 < Len(wire')
      BY <1>7, <2>1, <2>2
    <3>2. wire'[Len(wire')] = wire[Len(wire)]
      BY <1>7, <3>1
    <3> QED BY <2>1, <3>1, <3>2
  <2>8. order = Chosen(served, known)'
    BY <1>1, <1>a
  <2>9. HasRead(n + 1)'
    BY <2>2, <2>3, <2>4, <2>5, <2>6, <2>7, <2>8 DEF HasRead, End
  <2> QED BY <2>2, <2>8, <2>9 DEF Reading
<1>10. Applied'
  <2> SUFFICES ASSUME NEW j \in Instances(served)
               PROVE  LET does == Kind(Manifest(served), known, j)
                      IN  /\ does # "replace" => InPlace(j)' /\ j \notin renewed'
                          /\ j \in DOMAIN next' \/ does = "unchanged"
                             => InPlace(j)' /\ screen'[j].kids = served.kids[j]
    BY <1>1 DEF Applied
  <2>a. PICK does : does = Kind(Manifest(served), known, j)
    OBVIOUS
  <2>1. /\ does # "replace" => InPlace(j) /\ j \notin renewed
        /\ j \in DOMAIN next \/ does = "unchanged"
           => InPlace(j) /\ screen[j].kids = served.kids[j]
    BY <1>2, <2>a DEF Running, Applied
  <2>2. does # "replace" => j \notin renewed'
    BY <1>6, <1>b, <2>1, <2>a
  <2>3. ASSUME j # i, InPlace(j) PROVE InPlace(j)'
    BY <1>1, <1>6, <2>3 DEF InPlace
  <2>4. CASE j = i
    BY <1>6, <2>2, <2>4, <2>a
  <2>5. CASE j # i
    <3>1. j \in DOMAIN next' => j \in DOMAIN next
      BY <1>6, <2>5
    <3>2. screen[j].kids = served.kids[j] => screen'[j].kids = served.kids[j]
      BY <1>6, <2>5
    <3> QED BY <2>1, <2>2, <2>3, <2>5, <2>a, <3>1, <3>2
  <2> QED BY <2>4, <2>5
<1>11. Settling'
  <2> SUFFICES ASSUME NEW j \in served.slow \cap Instances(served)
               PROVE  \/ j \in waiting \/ abandoned \/ EndsFailed'
                      \/ \E k \in DOMAIN wire' : wire'[k] = AwaitOf(j)
    BY <1>1 DEF Settling, AwaitOf
  <2>0. wire[1].r = "op" /\ 1 \in DOMAIN wire
    BY <1>1, <1>7
  <2>1. ~NoneLeft
    BY <2>0 DEF NoneLeft
  <2>2. \/ j \in waiting \/ abandoned \/ EndsFailed
        \/ \E k \in DOMAIN wire : wire[k] = AwaitOf(j)
    BY <1>2, <2>1 DEF Running, Settling
  <2>3. ASSUME EndsFailed PROVE EndsFailed'
    <3>1. Len(wire) # 1
      BY <2>0, <2>3, RecordFields DEF EndsFailed
    <3>2. Len(wire') \in 1 .. Len(wire) - 1 /\ Len(wire') + 1 = Len(wire)
      BY <1>7, <3>1
    <3>3. wire'[Len(wire')] = End("failed") /\ wire' # << >>
      BY <1>7, <2>3, <3>2 DEF EndsFailed
    <3> QED BY <3>3 DEF EndsFailed, End
  <2>4. ASSUME NEW k \in DOMAIN wire, wire[k] = AwaitOf(j)
        PROVE  \E l \in DOMAIN wire' : wire'[l] = AwaitOf(j)
    <3>1. k # 1
      BY <2>0, <2>4, RecordFields
    <3>2. k - 1 \in DOMAIN wire' /\ k - 1 \in 1 .. Len(wire) - 1 /\ k - 1 + 1 = k
      BY <1>7, <3>1
    <3> QED BY <1>7, <2>4, <3>2
  <2> QED BY <2>2, <2>3, <2>4
<1> QED BY <1>1, <1>2, <1>8, <1>9, <1>10, <1>11 DEF Inv, Running, Quiet, Claims

LEMMA StepInv ==
  ASSUME Inv, [Next]_vars
  PROVE  Inv'
<1>1. ASSUME NEW page \in Page, Render(page) PROVE Inv'
  BY <1>1, RenderInv
<1>2. ASSUME RenderFails PROVE Inv'
  BY <1>2, RenderFailsInv
<1>3. ASSUME Finishes \/ AwaitFails \/ ContextEnds PROVE Inv'
  <2>1. abandoned \in BOOLEAN
    BY DEF Inv, Shaped
  <2>2. CASE Finishes
    BY <2>1, <2>2, TerminateInv DEF Finishes
  <2>3. CASE AwaitFails
    BY <2>1, <2>3, TerminateInv DEF AwaitFails
  <2>4. CASE ContextEnds
    BY <2>1, <2>4, TerminateInv DEF ContextEnds
  <2> QED BY <1>3, <2>2, <2>3, <2>4
<1>4. ASSUME NEW i \in Id, Settles(i) PROVE Inv'
  BY <1>4, SettlesInv
<1>5. ASSUME ReadOperation \/ ReadAwait \/ ReadEnd PROVE Inv'
  BY <1>5, ReadOperationInv, ReadAwaitInv, ReadEndInv
<1>6. ASSUME NEW page \in Page, Load(page) PROVE Inv'
  BY <1>6, LoadInv
<1>7. ASSUME Navigate \/ Abandon PROVE Inv'
  BY <1>7, NavigateInv, AbandonInv
<1>8. ASSUME Truncated PROVE Inv'
  BY <1>8, FallBackInv DEF Truncated
<1>9. ASSUME UNCHANGED vars PROVE Inv'
  <2>1. UNCHANGED << setting, phase, known, served, waiting, open, wire, screen, held, next,
                     renewed, broken, abandoned >>
    BY <1>9 DEF vars, serverVars, clientVars
  <2>2. Shaped' = Shaped /\ Quiet' = Quiet /\ Failing' = Failing
    BY <2>1 DEF Shaped, Quiet, Failing, End
  <2>3. Claims' = Claims
    BY <2>1 DEF Claims, Vouched
  <2>4. Reading' = Reading
    BY <2>1 DEF Reading, HasRead, AwaitOf, End
  <2>5. Applied' = Applied
    BY <2>1 DEF Applied, InPlace
  <2>6. Settling' = Settling
    BY <2>1 DEF Settling, NoneLeft, EndsFailed, AwaitOf, End
  <2>7. Running' = Running
    BY <2>1, <2>4, <2>5, <2>6 DEF Running
  <2> QED BY <2>1, <2>2, <2>3, <2>7 DEF Inv
<1> QED BY <1>1, <1>2, <1>3, <1>4, <1>5, <1>6, <1>7, <1>8, <1>9 DEF Next, ServerStep, ClientStep

LEMMA Invariance ==
  ASSUME Setting \subseteq {"contract"}
  PROVE  Spec => []Inv
<1>1. Init => Inv
  BY InitInv
<1>2. Inv /\ [Next]_vars => Inv'
  BY StepInv
<1> QED BY <1>1, <1>2, PTL DEF Spec

-----------------------------------------------------------------------------
(* The properties. *)

\* The client can apply every operation it is sent: what one addresses is in the
\* document, or a hole for it is, when it is read, whatever the browser showed and
\* however many responses were cut or superseded before (delta.go: "a target always
\* exists").
THEOREM EveryTargetExists ==
  ASSUME Setting \subseteq {"contract"}
  PROVE  Spec => []ClientKeepsUp
<1>1. ASSUME Inv PROVE ClientKeepsUp
  <2>1. Shaped /\ (phase # "streaming" => ~open /\ wire = << >>)
    BY <1>1 DEF Inv, Quiet
  <2> QED BY <2>1 DEF Shaped, ClientKeepsUp, TypeOK, TargetsExist
<1> QED BY <1>1, Invariance, PTL

\* A response that ended well leaves on the screen what the server rendered: every
\* region, in its place, with what its await boundary settled to (deltastream.go,
\* DeltaStream.Close).
THEOREM ScreenIsRendered ==
  ASSUME Setting \subseteq {"contract"}
  PROVE  Spec => []ScreenIsFresh
<1>1. ASSUME Inv PROVE ScreenIsFresh
  <2> SUFFICES ASSUME phase = "streaming", wire = << [r |-> "end", reason |-> "final"] >>, ~abandoned
               PROVE  Visible(screen) = Settled(served)
    BY DEF ScreenIsFresh
  <2>1. wire = << End("final") >> /\ DOMAIN wire = {1} /\ Len(wire) = 1 /\ wire[1] = End("final")
    BY DEF End
  <2>2. Shaped /\ Running
    BY <1>1, <2>1 DEF Inv, Failing, End
  <2>3. NoneLeft /\ ~EndsFailed
    BY <2>1, RecordFields DEF NoneLeft, EndsFailed, End
  <2>4. /\ HasRead(Len(Chosen(served, known)))
        /\ Attached(screen) = Instances(served)
        /\ \A i \in Instances(served) : InPlace(i) /\ screen[i].kids = served.kids[i]
    BY <2>2, <2>3, AllRead
  <2>5. waiting = {}
    <3>1. IsNested(served)
      BY <2>2, ServedIs DEF Shaped
    <3>2. PICK order : order = Chosen(served, known)
      OBVIOUS
    <3>3. Len(order) \in Nat
      BY <3>1, <3>2, ChosenInOrder
    <3>4. 1 \in Len(order) - Len(order) + 1 .. Len(wire)
      BY <2>1, <3>3
    <3>5. \/ \E i \in served.slow : wire[1] = AwaitOf(i)
          \/ ~open
      BY <2>4, <3>2, <3>4 DEF HasRead
    <3>6. ~open
      BY <2>1, <3>5, RecordFields
    <3> QED BY <2>2, <3>6 DEF Shaped
  <2>6. ASSUME NEW i \in served.slow \cap Instances(served)
        PROVE  screen[i].shown = served.value[i]
    <3>1. ~ \E k \in DOMAIN wire : wire[k] = AwaitOf(i)
      BY <2>1, RecordFields
    <3> QED BY <2>2, <2>3, <2>5, <3>1 DEF Running, Settling
  <2>7. ASSUME NEW i \in Instances(served)
        PROVE  screen[i] = Settled(served)[i]
    <3>1. i \in Id
      <4>1. IsNested(served)
        BY <2>2, ServedIs DEF Shaped
      <4> QED BY <4>1, Walked
    <3>2. screen[i] = [frame |-> screen[i].frame, kids |-> screen[i].kids, shown |-> screen[i].shown]
      BY <2>2, <3>1 DEF Shaped, IsRegion
    <3>3. /\ screen[i].frame = Frame(served, i) /\ screen[i].kids = served.kids[i]
          /\ screen[i].shown = IF i \in served.slow THEN served.value[i] ELSE Plain
      BY <2>4, <2>6 DEF InPlace
    <3>4. Settled(served)[i] = [frame |-> Frame(served, i), kids |-> served.kids[i],
                                shown |-> IF i \in served.slow THEN served.value[i] ELSE Plain]
      BY DEF Settled
    <3> QED BY <3>2, <3>3, <3>4
  <2>8. Settled(served) = [i \in Instances(served) |-> Settled(served)[i]]
    BY DEF Settled
  <2> QED BY <2>4, <2>7, <2>8 DEF Visible
<1> QED BY <1>1, Invariance, PTL

\* A region that keeps its own markup keeps its node, although what is around it is
\* replaced, reordered or moved (delta.go operations).
THEOREM NodesSurvive ==
  ASSUME Setting \subseteq {"contract"}
  PROVE  Spec => []LiveNodesStay
<1>1. ASSUME Inv PROVE LiveNodesStay
  <2> SUFFICES ASSUME phase = "streaming",
                      NEW i \in (DOMAIN known \cap Instances(served)) \ {Root},
                      known[i].frame = Frame(served, i)
               PROVE  i \notin renewed /\ screen[i] # Gone
    BY DEF LiveNodesStay
  <2>0. Shaped /\ IsNested(served) /\ (Failing \/ Running)
    BY <1>1, ServedIs DEF Inv, Shaped
  <2>1. CASE Failing
    <3>1. PICK order : order = Preorder(NoPage.kids)
      OBVIOUS
    <3>2. IsNested(NoPage) /\ served = NoPage
      BY <2>0, <2>1 DEF Failing
    <3>3. PICK n \in DOMAIN order : i = order[n]
      BY <3>1, <3>2, Walked
    <3>4. n # 1
      BY <3>1, <3>2, <3>3, Walked
    <3>5. PICK m \in DOMAIN order : order[n] \in ToSet(NoPage.kids[order[m]])
      BY <3>1, <3>2, <3>4 DEF IsNested
    <3>6. order[m] \in Id
      BY <3>1, <3>2, Walked
    <3>7. NoPage.kids[order[m]] = << >>
      BY <3>6 DEF NoPage
    <3> QED BY <3>5, <3>7 DEF ToSet
  <2>2. CASE Running
    <3>1. Kind(Manifest(served), known, i) # "replace"
      BY <2>0, KindIs
    <3>2. InPlace(i) /\ i \notin renewed
      BY <2>2, <3>1 DEF Running, Applied
    <3> QED BY <2>0, <2>2, <3>2, PlacedIsThere
  <2> QED BY <2>0, <2>1, <2>2
<1> QED BY <1>1, Invariance, PTL
=============================================================================
