------------------------- MODULE CacheGroup_proofs -------------------------
(***************************************************************************)
(* Theorems about CacheGroup: an identifier names one boundary of a        *)
(* render, and the same one in the next unless a component that shifts was *)
(* hit in one of them only; and what a component's key holds in the store  *)
(* is the settled form of a success.  Each names the templates it is of:   *)
(* CountsItself, and for the store Accepted.                               *)
(* They rest on where each goroutine is in its template (ShapeInv), on the *)
(* counter each numbers its boundaries with (Numbered), and on what a group *)
(* was told of each boundary that opened in it (CountInv, Reported, Captured). *)
(***************************************************************************)
EXTENDS CacheGroup, FiniteSetTheorems, WellFoundedInduction, TLAPS

\* The components the instruction at j of g stands in.
Around(ops, g, j) ==
  { c \in Cached : /\ \E i \in DOMAIN ops[g] : i < j /\ Stands(ops, g, i, "enter", c)
                   /\ \E k \in DOMAIN ops[g] : j <= k /\ Stands(ops, g, k, "leave", c) }

\* What a template is made of.
LEMMA Templates ==
  ASSUME NEW ops \in [Runner -> Seq(Instruction)]
  PROVE  /\ \A g \in Runner : Len(ops[g]) \in Nat /\ DOMAIN ops[g] = 1 .. Len(ops[g])
         /\ \A g \in Runner : \A i \in DOMAIN ops[g] :
              /\ ops[g][i].op = "await" =>
                   ops[g][i].node \in Await /\ Stands(ops, g, i, "await", ops[g][i].node)
              /\ ops[g][i].op \in {"enter", "leave"} =>
                   ops[g][i].node \in Cached /\ Stands(ops, g, i, ops[g][i].op, ops[g][i].node)
         /\ \A g \in Runner : \A i, what, n : Stands(ops, g, i, what, n) =>
              i \in DOMAIN ops[g] /\ i \in Nat /\ ops[g][i].op = what /\ ops[g][i].node = n
<1>1. \A x \in Instruction :
        /\ x = [op |-> x.op, node |-> x.node]
        /\ x.op = "await" => x.node \in Await
        /\ x.op \in {"enter", "leave"} => x.node \in Cached
  BY DEF Instruction
<1>2. \A g \in Runner : /\ ops[g] \in Seq(Instruction)
                        /\ Len(ops[g]) \in Nat /\ DOMAIN ops[g] = 1 .. Len(ops[g])
                        /\ \A i \in DOMAIN ops[g] : ops[g][i] \in Instruction
  OBVIOUS
<1> QED BY <1>1, <1>2 DEF Stands

\* A component is left after it was entered, and what it holds in between.
LEMMA Bracketed ==
  ASSUME NEW ops \in [Runner -> Seq(Instruction)], IsTree(ops), NEW g \in Runner,
         NEW i \in DOMAIN ops[g], NEW k \in DOMAIN ops[g], NEW c \in Cached,
         Stands(ops, g, i, "enter", c), Stands(ops, g, k, "leave", c)
  PROVE  i < k
<1>1. PICK j \in DOMAIN ops[g] : j < k /\ Stands(ops, g, j, "enter", c)
  BY DEF IsTree
<1>2. i = j
  BY <1>1 DEF IsTree, Stands
<1> QED BY <1>1, <1>2

\* An instruction stands in one place of one template.
LEMMA OnePlace ==
  ASSUME NEW ops, IsTree(ops), NEW g \in Runner, NEW h \in Runner, NEW i, NEW j, NEW what, NEW n,
         Stands(ops, g, i, what, n), Stands(ops, h, j, what, n)
  PROVE  g = h /\ i = j
BY DEF IsTree, Stands

\* A component entered within another is left before the other is.
LEMMA NestedIn ==
  ASSUME NEW ops, IsTree(ops), NEW g \in Runner,
         NEW i, NEW j, NEW k, NEW l, NEW c \in Cached, NEW d \in Cached,
         Stands(ops, g, i, "enter", c), Stands(ops, g, k, "leave", c),
         Stands(ops, g, j, "enter", d), Stands(ops, g, l, "leave", d), i < j, j < k
  PROVE  l < k
<1>1. i \in DOMAIN ops[g] /\ j \in DOMAIN ops[g] /\ k \in DOMAIN ops[g] /\ l \in DOMAIN ops[g]
  BY DEF Stands
<1> QED BY <1>1 DEF IsTree

\* The components around an instruction, and around the one after it.
LEMMA AroundStart ==
  ASSUME NEW ops \in [Runner -> Seq(Instruction)], NEW g \in Runner
  PROVE  Around(ops, g, 1) = {}
BY Templates DEF Around

\* A boundary stands in the components around the next instruction.
LEMMA AroundAwait ==
  ASSUME NEW ops \in [Runner -> Seq(Instruction)], NEW g \in Runner, NEW j,
         NEW b, Stands(ops, g, j, "await", b)
  PROVE  Around(ops, g, j + 1) = Around(ops, g, j)
<1>1. j \in Nat /\ \A c \in Cached : \A i :
        /\ Stands(ops, g, i, "enter", c) => i # j /\ i \in Nat
        /\ Stands(ops, g, i, "leave", c) => i # j /\ i \in Nat
  BY Templates
<1>2. \A c \in Cached : \A i :
        /\ Stands(ops, g, i, "enter", c) => (i < j <=> i < j + 1)
        /\ Stands(ops, g, i, "leave", c) => (j <= i <=> j + 1 <= i)
  BY <1>1
<1> QED BY <1>2 DEF Around

\* To enter a component is to add it to those around.
LEMMA AroundEnter ==
  ASSUME NEW ops \in [Runner -> Seq(Instruction)], IsTree(ops), NEW g \in Runner, NEW j,
         NEW c \in Cached, Stands(ops, g, j, "enter", c)
  PROVE  /\ Around(ops, g, j + 1) = Around(ops, g, j) \cup {c}
         /\ c \notin Around(ops, g, j)
<1>1. j \in DOMAIN ops[g] /\ j \in Nat
  BY Templates
<1>2. \A d \in Cached : \A i :
        /\ Stands(ops, g, i, "enter", d) => i \in Nat /\ i \in DOMAIN ops[g]
        /\ Stands(ops, g, i, "leave", d) => i # j /\ i \in Nat /\ i \in DOMAIN ops[g]
  BY Templates
<1>3. \A d \in Cached : \A i : Stands(ops, g, i, "enter", d) =>
         IF d = c THEN i = j ELSE i # j
  BY <1>1, OnePlace, Templates
<1>4. PICK k \in DOMAIN ops[g] : j < k /\ Stands(ops, g, k, "leave", c)
  BY <1>1 DEF IsTree
<1>5. c \notin Around(ops, g, j)
  BY <1>1, <1>3 DEF Around
<1>6. c \in Around(ops, g, j + 1)
  BY <1>1, <1>4, Templates DEF Around
<1>7. ASSUME NEW d \in Cached, d # c
      PROVE  d \in Around(ops, g, j + 1) <=> d \in Around(ops, g, j)
  <2>1. \A i :
        /\ Stands(ops, g, i, "enter", d) => (i < j <=> i < j + 1)
        /\ Stands(ops, g, i, "leave", d) => (j <= i <=> j + 1 <= i)
    BY <1>1, <1>2, <1>3, <1>7
  <2> QED BY <2>1 DEF Around
<1>8. \A d : d \in Around(ops, g, j + 1) \/ d \in Around(ops, g, j) => d \in Cached
  BY DEF Around
<1> QED BY <1>5, <1>6, <1>7, <1>8

\* To leave a component is to take it from those around.
LEMMA AroundLeave ==
  ASSUME NEW ops \in [Runner -> Seq(Instruction)], IsTree(ops), NEW g \in Runner, NEW j,
         NEW c \in Cached, Stands(ops, g, j, "leave", c)
  PROVE  /\ Around(ops, g, j + 1) = Around(ops, g, j) \ {c}
         /\ c \in Around(ops, g, j)
         /\ \A d \in Around(ops, g, j) : \A i, k :
              d # c /\ Stands(ops, g, i, "enter", c) /\ Stands(ops, g, k, "enter", d) => k < i
<1>1. j \in DOMAIN ops[g] /\ j \in Nat
  BY Templates
<1>2. \A d \in Cached : \A i :
        /\ Stands(ops, g, i, "enter", d) => i # j /\ i \in Nat /\ i \in DOMAIN ops[g]
        /\ Stands(ops, g, i, "leave", d) => i \in Nat /\ i \in DOMAIN ops[g]
  BY Templates
<1>3. \A d \in Cached : \A i : Stands(ops, g, i, "leave", d) =>
         IF d = c THEN i = j ELSE i # j
  BY <1>1, OnePlace, Templates
<1>4. PICK e \in DOMAIN ops[g] : e < j /\ Stands(ops, g, e, "enter", c)
  BY <1>1 DEF IsTree
<1>5. c \in Around(ops, g, j)
  BY <1>1, <1>4 DEF Around
<1>6. c \notin Around(ops, g, j + 1)
  BY <1>1, <1>3 DEF Around
<1>7. ASSUME NEW d \in Cached, d # c
      PROVE  d \in Around(ops, g, j + 1) <=> d \in Around(ops, g, j)
  <2>1. \A i :
        /\ Stands(ops, g, i, "enter", d) => (i < j <=> i < j + 1)
        /\ Stands(ops, g, i, "leave", d) => (j <= i <=> j + 1 <= i)
    BY <1>1, <1>2, <1>3, <1>7
  <2> QED BY <2>1 DEF Around
<1>8. \A d : d \in Around(ops, g, j + 1) \/ d \in Around(ops, g, j) => d \in Cached
  BY DEF Around
<1>9. ASSUME NEW d \in Around(ops, g, j), NEW i, NEW k, d # c,
             Stands(ops, g, i, "enter", c), Stands(ops, g, k, "enter", d)
      PROVE  k < i
  <2>1. PICK l \in DOMAIN ops[g] : j <= l /\ Stands(ops, g, l, "leave", d)
    BY DEF Around
  <2>2. d \in Cached /\ l # j /\ i = e
    BY <1>3, <1>4, <1>8, <1>9, <2>1, OnePlace
  <2>0. i \in Nat /\ k \in Nat /\ l \in Nat
    BY <1>9, <2>1, Templates
  <2>3. i # k
    BY <1>9, Templates
  <2>4. ~(i < k)
    <3> SUFFICES ASSUME i < k PROVE FALSE
      OBVIOUS
    <3>1. k < j
      <4>1. PICK m \in DOMAIN ops[g] : m < j /\ Stands(ops, g, m, "enter", d)
        <5>1. PICK m \in DOMAIN ops[g] : m < j /\ Stands(ops, g, m, "enter", d)
          BY DEF Around
        <5> QED BY <5>1
      <4> QED BY <1>9, <4>1, OnePlace
    <3>2. l < j
      BY <1>9, <2>1, <2>2, <3>1, NestedIn
    <3> QED BY <1>1, <2>0, <2>1, <2>2, <3>2
  <2> QED BY <2>0, <2>3, <2>4
<1> QED BY <1>5, <1>6, <1>7, <1>8, <1>9

\* Past a component served from the store, those around are what they were.
LEMMA AroundSkip ==
  ASSUME NEW ops \in [Runner -> Seq(Instruction)], IsTree(ops), NEW g \in Runner, NEW j, NEW k,
         NEW c \in Cached, Stands(ops, g, j, "enter", c), Stands(ops, g, k, "leave", c)
  PROVE  j < k /\ Around(ops, g, k + 1) = Around(ops, g, j)
<1>1. j \in DOMAIN ops[g] /\ j \in Nat /\ k \in DOMAIN ops[g] /\ k \in Nat
  BY Templates
<1>2. j < k
  BY <1>1, Bracketed
<1>3. \A d \in Cached : \A i :
        /\ Stands(ops, g, i, "enter", d) => i # k /\ i \in Nat
        /\ Stands(ops, g, i, "leave", d) => i # j /\ i \in Nat
  BY Templates
<1>4. ASSUME NEW d \in Cached, NEW i, NEW l, Stands(ops, g, i, "enter", d), Stands(ops, g, l, "leave", d)
      PROVE  i < k + 1 /\ k + 1 <= l <=> i < j /\ j <= l
  <2>1. i \in Nat /\ l \in Nat /\ i < l /\ i # k /\ l # j
    BY <1>3, <1>4, Bracketed, Templates
  <2>2. d = c => i = j /\ l = k
    BY <1>4, OnePlace
  <2>3. d # c => i # j /\ l # k
    BY <1>4, Templates
  <2>4. j < i /\ i < k => l < k
    BY <1>4, NestedIn
  <2>5. i < j /\ j < l => k < l
    BY <1>4, NestedIn
  <2> QED BY <1>1, <1>2, <2>1, <2>2, <2>3, <2>4, <2>5
<1>5. \A d \in Cached : d \in Around(ops, g, k + 1) <=> d \in Around(ops, g, j)
  <2> TAKE d \in Cached
  <2>1. ASSUME d \in Around(ops, g, k + 1) PROVE d \in Around(ops, g, j)
    <3>1. PICK i \in DOMAIN ops[g] : i < k + 1 /\ Stands(ops, g, i, "enter", d)
      BY <2>1 DEF Around
    <3>2. PICK l \in DOMAIN ops[g] : k + 1 <= l /\ Stands(ops, g, l, "leave", d)
      BY <2>1 DEF Around
    <3> QED BY <1>4, <3>1, <3>2 DEF Around
  <2>2. ASSUME d \in Around(ops, g, j) PROVE d \in Around(ops, g, k + 1)
    <3>1. PICK i \in DOMAIN ops[g] : i < j /\ Stands(ops, g, i, "enter", d)
      BY <2>2 DEF Around
    <3>2. PICK l \in DOMAIN ops[g] : j <= l /\ Stands(ops, g, l, "leave", d)
      BY <2>2 DEF Around
    <3> QED BY <1>4, <3>1, <3>2 DEF Around
  <2> QED BY <2>1, <2>2
<1>6. \A d : d \in Around(ops, g, k + 1) \/ d \in Around(ops, g, j) => d \in Cached
  BY DEF Around
<1> QED BY <1>2, <1>5, <1>6

-----------------------------------------------------------------------------
(* Chains of groups. *)

\* The chain of no components.
LEMMA EmptyChain == ToSet(<< >>) = {} /\ IsInjective(<< >>)
BY DEF ToSet, IsInjective

\* What leaving the innermost component does to a chain of components.
LEMMA TailOf ==
  ASSUME NEW S, NEW s \in Seq(S), s # << >>
  PROVE  /\ Tail(s) \in Seq(S) /\ Head(s) \in S
         /\ ToSet(s) = {Head(s)} \cup ToSet(Tail(s))
         /\ IsInjective(s) => IsInjective(Tail(s)) /\ Head(s) \notin ToSet(Tail(s))
         /\ \A n \in DOMAIN Tail(s) : n + 1 \in DOMAIN s /\ Tail(s)[n] = s[n + 1] /\ n \in Nat
         /\ 1 \in DOMAIN s /\ s[1] = Head(s)
<1>1. /\ Len(s) \in Nat /\ Len(s) # 0 /\ DOMAIN s = 1 .. Len(s)
      /\ Tail(s) \in Seq(S) /\ Len(Tail(s)) = Len(s) - 1 /\ DOMAIN Tail(s) = 1 .. Len(s) - 1
      /\ Head(s) = s[1] /\ \A n \in 1 .. Len(s) - 1 : Tail(s)[n] = s[n + 1]
  OBVIOUS
<1>2. \A n \in DOMAIN Tail(s) : n + 1 \in DOMAIN s /\ Tail(s)[n] = s[n + 1] /\ n \in Nat
  BY <1>1
<1>3. 1 \in DOMAIN s /\ s[1] = Head(s) /\ Head(s) \in S
  BY <1>1
<1>4. ToSet(s) = {Head(s)} \cup ToSet(Tail(s))
  <2>1. \A n \in DOMAIN s : n = 1 \/ (n - 1 \in DOMAIN Tail(s) /\ Tail(s)[n - 1] = s[n])
    BY <1>1
  <2>2. ASSUME NEW x \in ToSet(s) PROVE x = Head(s) \/ x \in ToSet(Tail(s))
    BY <1>3, <2>1 DEF ToSet
  <2>3. ASSUME NEW x \in ToSet(Tail(s)) PROVE x \in ToSet(s)
    BY <1>2 DEF ToSet
  <2>4. Head(s) \in ToSet(s)
    BY <1>3 DEF ToSet
  <2> QED BY <2>2, <2>3, <2>4
<1>5. ASSUME IsInjective(s) PROVE IsInjective(Tail(s)) /\ Head(s) \notin ToSet(Tail(s))
  <2>1. ASSUME NEW m \in DOMAIN Tail(s), NEW n \in DOMAIN Tail(s), Tail(s)[m] = Tail(s)[n]
        PROVE  m = n
    <3>1. m + 1 = n + 1
      BY <1>2, <1>5, <2>1 DEF IsInjective
    <3> QED BY <1>2, <3>1
  <2>2. ASSUME NEW n \in DOMAIN Tail(s) PROVE Tail(s)[n] # Head(s)
    <3>1. n + 1 # 1
      BY <1>2
    <3> QED BY <1>2, <1>3, <1>5, <3>1 DEF IsInjective
  <2> QED BY <2>1, <2>2 DEF IsInjective, ToSet
<1> QED BY <1>1, <1>2, <1>3, <1>4, <1>5

\* What a chain of components is made of when two are put together.
LEMMA Chained ==
  ASSUME NEW S, NEW s \in Seq(S), NEW t \in Seq(S)
  PROVE  /\ s \o t \in Seq(S)
         /\ ToSet(s \o t) = ToSet(s) \cup ToSet(t)
         /\ IsInjective(s \o t) <=> IsInjective(s) /\ IsInjective(t) /\ ToSet(s) \cap ToSet(t) = {}
<1>1. /\ Len(s) \in Nat /\ DOMAIN s = 1 .. Len(s) /\ Len(t) \in Nat /\ DOMAIN t = 1 .. Len(t)
      /\ s \o t \in Seq(S) /\ DOMAIN (s \o t) = 1 .. Len(s) + Len(t)
      /\ \A n \in 1 .. Len(s) + Len(t) : (s \o t)[n] = IF n <= Len(s) THEN s[n] ELSE t[n - Len(s)]
  OBVIOUS
<1>2. \A n \in DOMAIN (s \o t) : \/ n \in DOMAIN s /\ (s \o t)[n] = s[n]
                                 \/ n - Len(s) \in DOMAIN t /\ (s \o t)[n] = t[n - Len(s)]
  BY <1>1
<1>3. \A n \in DOMAIN s : n \in DOMAIN (s \o t) /\ (s \o t)[n] = s[n] /\ n \in Nat /\ n <= Len(s)
  BY <1>1
<1>4. \A n \in DOMAIN t : /\ n + Len(s) \in DOMAIN (s \o t) /\ (s \o t)[n + Len(s)] = t[n]
                          /\ n \in Nat /\ n # 0
  BY <1>1
<1>5. ToSet(s \o t) = ToSet(s) \cup ToSet(t)
  <2>1. ASSUME NEW x \in ToSet(s \o t) PROVE x \in ToSet(s) \cup ToSet(t)
    BY <1>2 DEF ToSet
  <2>2. ASSUME NEW x \in ToSet(s) PROVE x \in ToSet(s \o t)
    BY <1>3 DEF ToSet
  <2>3. ASSUME NEW x \in ToSet(t) PROVE x \in ToSet(s \o t)
    BY <1>4 DEF ToSet
  <2> QED BY <2>1, <2>2, <2>3
<1>6. ASSUME IsInjective(s \o t)
      PROVE  IsInjective(s) /\ IsInjective(t) /\ ToSet(s) \cap ToSet(t) = {}
  <2>1. IsInjective(s)
    BY <1>3, <1>6 DEF IsInjective
  <2>2. ASSUME NEW m \in DOMAIN t, NEW n \in DOMAIN t, t[m] = t[n] PROVE m = n
    <3>1. m + Len(s) = n + Len(s)
      BY <1>4, <1>6, <2>2 DEF IsInjective
    <3> QED BY <1>1, <1>4, <3>1
  <2>3. ASSUME NEW m \in DOMAIN s, NEW n \in DOMAIN t PROVE s[m] # t[n]
    <3>1. m # n + Len(s)
      BY <1>1, <1>3, <1>4
    <3> QED BY <1>3, <1>4, <1>6, <3>1 DEF IsInjective
  <2> QED BY <2>1, <2>2, <2>3 DEF IsInjective, ToSet
<1>7. ASSUME IsInjective(s), IsInjective(t), ToSet(s) \cap ToSet(t) = {}
      PROVE  IsInjective(s \o t)
  <2> SUFFICES ASSUME NEW m \in DOMAIN (s \o t), NEW n \in DOMAIN (s \o t),
                      (s \o t)[m] = (s \o t)[n]
               PROVE  m = n
    BY DEF IsInjective
  <2>0. m \in Int /\ n \in Int
    BY <1>1
  <2>1. \A i \in DOMAIN s, j \in DOMAIN t : s[i] # t[j]
    BY <1>7 DEF ToSet
  <2>2. CASE m \in DOMAIN s /\ (s \o t)[m] = s[m]
    <3>1. n \in DOMAIN s /\ (s \o t)[n] = s[n]
      BY <1>2, <2>1, <2>2
    <3> QED BY <1>7, <2>2, <3>1 DEF IsInjective
  <2>3. CASE m - Len(s) \in DOMAIN t /\ (s \o t)[m] = t[m - Len(s)]
    <3>1. n - Len(s) \in DOMAIN t /\ (s \o t)[n] = t[n - Len(s)]
      BY <1>2, <2>1, <2>3
    <3>2. m - Len(s) = n - Len(s)
      BY <1>7, <2>3, <3>1 DEF IsInjective
    <3> QED BY <1>1, <2>0, <3>2
  <2> QED BY <1>2, <2>2, <2>3
<1> QED BY <1>1, <1>5, <1>6, <1>7

\* What entering a component does to a chain of components.
LEMMA Pushed ==
  ASSUME NEW S, NEW s \in Seq(S), NEW c \in S
  PROVE  /\ << c >> \o s \in Seq(S)
         /\ ToSet(<< c >> \o s) = {c} \cup ToSet(s)
         /\ IsInjective(<< c >> \o s) <=> IsInjective(s) /\ c \notin ToSet(s)
         /\ \A n \in DOMAIN (<< c >> \o s) :
              IF n = 1 THEN (<< c >> \o s)[n] = c
              ELSE n - 1 \in DOMAIN s /\ (<< c >> \o s)[n] = s[n - 1] /\ n \in Nat
<1>1. /\ << c >> \in Seq(S) /\ Len(<< c >>) = 1 /\ << c >>[1] = c /\ DOMAIN << c >> = 1 .. 1
      /\ Len(s) \in Nat /\ DOMAIN s = 1 .. Len(s)
  OBVIOUS
<1>2. ToSet(<< c >>) = {c} /\ IsInjective(<< c >>)
  BY <1>1 DEF ToSet, IsInjective
<1>3. /\ DOMAIN (<< c >> \o s) = 1 .. 1 + Len(s)
      /\ \A n \in 1 .. 1 + Len(s) : (<< c >> \o s)[n] = IF n <= 1 THEN << c >>[n] ELSE s[n - 1]
  BY <1>1
<1>4. \A n \in DOMAIN (<< c >> \o s) :
        IF n = 1 THEN (<< c >> \o s)[n] = c
        ELSE n - 1 \in DOMAIN s /\ (<< c >> \o s)[n] = s[n - 1] /\ n \in Nat
  BY <1>1, <1>3
<1>5. /\ << c >> \o s \in Seq(S)
      /\ ToSet(<< c >> \o s) = ToSet(<< c >>) \cup ToSet(s)
      /\ IsInjective(<< c >> \o s) <=>
           IsInjective(<< c >>) /\ IsInjective(s) /\ ToSet(<< c >>) \cap ToSet(s) = {}
  <2> HIDE DEF ToSet, IsInjective
  <2> QED BY <1>1, Chained
<1>6. IsInjective(<< c >> \o s) <=> IsInjective(s) /\ c \notin ToSet(s)
  BY <1>2, <1>5
<1> QED BY <1>2, <1>4, <1>5, <1>6

-----------------------------------------------------------------------------
(* Where everybody is.                                                     *)

Working == {"rendering", "opening", "blocked"}

Shape ==
  /\ setting \in Setting
  /\ phase \in [Runner -> {"idle", "opening", "blocked", "resolving", "rendering",
                           "settling", "done"}]
  /\ pc \in [Runner -> Nat \ {0}]
  /\ frame \in [Runner -> Seq(Cached)]
  /\ groups \in [Runner -> Seq(Cached)]
  /\ todo \in [Runner -> Seq(Cached)]
  /\ verdict \in [Runner -> {"none", "settled", "recovered", "failed", "cancelled"}]
  /\ phase["document"] \notin {"idle", "resolving", "settling"}
  /\ groups["document"] = << >>

\* The groups g's instructions report to.
Chain(g) == ToSet(frame[g]) \cup ToSet(groups[g])

\* Where g waits for a boundary it settles in place, or failed with it.
Stuck(g) == phase[g] = "blocked" \/ (phase[g] = "done" /\ verdict[g] = "failed")

\* How far g has come.
Progress(g) ==
  /\ phase[g] \in {"idle", "resolving"} => pc[g] = 1
  /\ phase[g] \in {"idle", "resolving"} \cup Working => verdict[g] = "none"
  /\ phase[g] = "settling" => Streaming /\ verdict[g] # "none"
  /\ phase[g] = "opening" => Streaming
  /\ phase[g] = "blocked" => ~Streaming
  /\ phase[g] = "done" /\ ~Streaming => verdict[g] # "none"
  /\ phase[g] \in {"opening", "blocked"} => \E b \in Await : Stands(Ops, g, pc[g], "await", b)
  /\ verdict[g] = "settled" => pc[g] > Len(Ops[g])

\* The misses g is rendering are the components its next instruction stands in,
\* the one entered last first.
Framed(g) ==
  /\ ToSet(frame[g]) \subseteq Around(Ops, g, pc[g])
  /\ phase[g] \in Working => Around(Ops, g, pc[g]) \subseteq ToSet(frame[g])
  /\ \A m, n \in DOMAIN frame[g] : \A i, k \in DOMAIN Ops[g] :
       m < n /\ Stands(Ops, g, i, "enter", frame[g][m]) /\ Stands(Ops, g, k, "enter", frame[g][n])
       => k < i
  /\ IsInjective(frame[g]) /\ IsInjective(groups[g])
  /\ ToSet(frame[g]) \cap ToSet(groups[g]) = {}

\* The groups b reports to are those of the instruction that started it.
StartedBy(b, g, j) ==
  /\ Stands(Ops, g, j, "await", b)
  /\ j < pc[g] \/ (j = pc[g] /\ ~Streaming /\ Stuck(g))
  /\ \A c \in Cached : c \in ToSet(groups[b]) <=> c \in Around(Ops, g, j) \/ c \in ToSet(groups[g])

Parented(b) ==
  /\ phase[b] = "idle" => groups[b] = << >>
  /\ phase[b] # "idle" => \E g \in Runner : \E j \in DOMAIN Ops[g] : StartedBy(b, g, j)

\* A component is entered before a boundary in it starts.
Entered(c) ==
  \A b \in Await : c \in ToSet(groups[b]) =>
    \E g \in Runner : \E i \in DOMAIN Ops[g] : i < pc[g] /\ Stands(Ops, g, i, "enter", c)

\* The groups still to be told are among those of the boundary, each once.
Telling(g) ==
  /\ IsInjective(todo[g])
  /\ phase[g] = "opening" => ToSet(todo[g]) \subseteq Chain(g)
  /\ phase[g] = "settling" => ToSet(todo[g]) \subseteq ToSet(groups[g])
  /\ phase[g] \notin {"opening", "settling"} => todo[g] = << >>

ShapeInv ==
  /\ Shape
  /\ \A g \in Runner : Progress(g) /\ Framed(g) /\ Telling(g)
  /\ \A b \in Await : Parented(b)
  /\ \A c \in Cached : Entered(c)

-----------------------------------------------------------------------------
(* Steps keep the shape. *)

\* The setting that is rendered is a template.
LEMMA Rendering ==
  ASSUME setting \in Setting
  PROVE  /\ Ops \in [Runner -> Seq(Instruction)] /\ IsTree(Ops)
         /\ Recovers \subseteq Await /\ Streaming \in BOOLEAN
         /\ "document" \in Runner /\ "document" \notin Await
         /\ \A g \in Runner : g # "document" => g \in Await
         /\ Await \subseteq Runner /\ Runner \cap Cached = {}
BY TemplateAssumption DEF Ops, Recovers, Streaming, Runner

\* A goroutine is in no component twice.
LEMMA ChainOf ==
  ASSUME ShapeInv, NEW g \in Runner
  PROVE  Groups(g) \in Seq(Cached) /\ ToSet(Groups(g)) = Chain(g) /\ IsInjective(Groups(g))
<1>1. frame[g] \in Seq(Cached) /\ groups[g] \in Seq(Cached) /\ Framed(g)
  BY DEF ShapeInv, Shape
<1> QED BY <1>1, Chained DEF Groups, Chain, Framed

Same(h) ==
  /\ phase'[h] = phase[h] /\ pc'[h] = pc[h] /\ frame'[h] = frame[h] /\ groups'[h] = groups[h]
  /\ todo'[h] = todo[h] /\ verdict'[h] = verdict[h]

\* A goroutine a step leaves alone keeps what is said of it.
LEMMA SameStays ==
  ASSUME setting' = setting, NEW h, Same(h), Progress(h), Framed(h), Telling(h)
  PROVE  Progress(h)' /\ Framed(h)' /\ Telling(h)'
<1>1. Progress(h)'
  BY DEF Same, Progress, Ops, Streaming
<1>2. Framed(h)'
  BY DEF Same, Framed, Ops
<1>3. Telling(h)'
  BY DEF Same, Telling, Chain
<1> QED BY <1>1, <1>2, <1>3

\* An instruction that was run stays run.
Goes(g) ==
  /\ pc'[g] \in Nat /\ pc'[g] >= pc[g]
  /\ phase[g] # "idle" => phase'[g] # "idle" /\ groups'[g] = groups[g]
  /\ Stuck(g) /\ pc'[g] = pc[g] => Stuck(g)'

\* A boundary that was started stays one its opener has started.
LEMMA ParentedStays ==
  ASSUME ShapeInv, setting' = setting, \A g \in Runner : Goes(g),
         NEW b \in Await, phase[b] # "idle"
  PROVE  Parented(b)'
<1>0. PICK g \in Runner : \E j \in DOMAIN Ops[g] : StartedBy(b, g, j)
  BY DEF ShapeInv, Parented
<1>1. PICK j \in DOMAIN Ops[g] : StartedBy(b, g, j)
  BY <1>0
<1>2. /\ pc[g] \in Nat /\ pc'[g] \in Nat /\ pc'[g] >= pc[g] /\ j \in Nat /\ j # 0
      /\ Ops' = Ops /\ b \in Runner
  <2>1. setting \in Setting /\ pc[g] \in Nat /\ pc'[g] \in Nat /\ pc'[g] >= pc[g]
    BY DEF ShapeInv, Shape, Goes
  <2>2. j \in Nat /\ j # 0
    BY <2>1, Rendering, Templates
  <2> QED BY <2>1, <2>2, Rendering DEF Ops
<1>3. phase[g] # "idle"
  BY <1>1, <1>2 DEF StartedBy, Stuck, ShapeInv, Progress
<1>4. StartedBy(b, g, j)'
  <2>1. groups'[g] = groups[g] /\ groups'[b] = groups[b]
    BY <1>2, <1>3 DEF Goes
  <2>2. j < pc'[g] \/ (j = pc'[g] /\ ~Streaming /\ Stuck(g)')
    BY <1>1, <1>2 DEF StartedBy, Goes
  <2> QED BY <1>1, <1>2, <2>1, <2>2 DEF StartedBy, Ops, Streaming
<1>5. phase'[b] # "idle" /\ j \in DOMAIN Ops'[g]
  BY <1>2 DEF Goes
<1> QED BY <1>4, <1>5 DEF Parented

\* What was entered stays entered.
LEMMA EnteredStays ==
  ASSUME ShapeInv, setting' = setting, \A g \in Runner : Goes(g), NEW c \in Cached, NEW b \in Await,
         c \in ToSet(groups[b])
  PROVE  \E g \in Runner : \E i \in DOMAIN Ops'[g] : i < pc'[g] /\ Stands(Ops', g, i, "enter", c)
<1>0. PICK g \in Runner : \E i \in DOMAIN Ops[g] : i < pc[g] /\ Stands(Ops, g, i, "enter", c)
  BY DEF ShapeInv, Entered
<1>1. PICK i \in DOMAIN Ops[g] : i < pc[g] /\ Stands(Ops, g, i, "enter", c)
  BY <1>0
<1>2. pc[g] \in Nat /\ pc'[g] \in Nat /\ pc'[g] >= pc[g]
  BY DEF ShapeInv, Shape, Goes
<1>3. i \in Nat
  <2>1. setting \in Setting
    BY DEF ShapeInv, Shape
  <2>2. Ops \in [Runner -> Seq(Instruction)]
    BY <2>1, Rendering
  <2> QED BY <2>2, Templates
<1> QED BY <1>1, <1>2, <1>3 DEF Ops

\* A step of one of them, which starts no boundary.
LEMMA OneMoves ==
  ASSUME ShapeInv, setting' = setting, groups' = groups, NEW g \in Runner,
         \A h \in Runner : h # g => Same(h),
         Shape', Progress(g)', Framed(g)', Telling(g)',
         pc'[g] >= pc[g], phase[g] # "idle", phase'[g] # "idle",
         Stuck(g) /\ pc'[g] = pc[g] => Stuck(g)'
  PROVE  ShapeInv'
<1>1. \A h \in Runner : Progress(h)' /\ Framed(h)' /\ Telling(h)'
  BY SameStays DEF ShapeInv
<1>2. \A h \in Runner : Goes(h)
  <2> TAKE h \in Runner
  <2>1. pc[h] \in Nat /\ pc'[h] \in Nat /\ pc[h] >= pc[h]
    BY DEF ShapeInv, Shape
  <2> QED BY <2>1 DEF Goes, Same, Stuck
<1>3. \A b \in Await : Parented(b)'
  <2> SUFFICES ASSUME NEW b \in Await PROVE Parented(b)'
    OBVIOUS
  <2>1. CASE phase[b] # "idle"
    BY <1>2, <2>1, ParentedStays
  <2>2. CASE phase[b] = "idle"
    BY <2>2, Rendering DEF Same, Parented, ShapeInv, Shape
  <2> QED BY <2>1, <2>2
<1>4. \A c \in Cached : Entered(c)'
  BY <1>2, EnteredStays DEF Entered
<1> QED BY <1>1, <1>3, <1>4 DEF ShapeInv

\* At an instruction, Node is what it names.
LEMMA Instructed ==
  ASSUME ShapeInv, NEW g \in Runner, NEW what \in {"await", "enter", "leave"}, At(g, what)
  PROVE  /\ phase[g] = "rendering" /\ pc[g] \in DOMAIN Ops[g] /\ pc[g] \in Nat /\ pc[g] # 0
         /\ Stands(Ops, g, pc[g], what, Node(g))
         /\ IF what = "await" THEN Node(g) \in Await /\ Node(g) \in Runner ELSE Node(g) \in Cached
<1>1. setting \in Setting /\ pc[g] \in Nat /\ pc[g] # 0
  BY DEF ShapeInv, Shape
<1>2. Ops \in [Runner -> Seq(Instruction)]
  BY <1>1, Rendering
<1>3. DOMAIN Ops[g] = 1 .. Len(Ops[g]) /\ Len(Ops[g]) \in Nat
  BY <1>2, Templates
<1>4. phase[g] = "rendering" /\ pc[g] <= Len(Ops[g]) /\ Ops[g][pc[g]].op = what
  BY DEF At
<1>5. pc[g] \in DOMAIN Ops[g]
  BY <1>1, <1>3, <1>4
<1>6. /\ Stands(Ops, g, pc[g], what, Node(g))
      /\ IF what = "await" THEN Node(g) \in Await ELSE Node(g) \in Cached
  BY <1>2, <1>4, <1>5, Templates DEF Node
<1> QED BY <1>1, <1>4, <1>5, <1>6 DEF Runner

\* EnterHit keeps ShapeInv.
LEMMA EnterHitKeepsShape ==
  ASSUME ShapeInv, NEW g \in Runner, EnterHit(g)
  PROVE  ShapeInv'
<1> DEFINE c == Node(g)
<1>1. setting' = setting /\ UNCHANGED << phase, frame, groups, todo, verdict >> /\ phase[g] = "rendering"
  BY DEF EnterHit, pastVars, At
<1>2. c \in Cached /\ Stands(Ops, g, pc[g], "enter", c)
  BY Instructed DEF EnterHit
<1>3. PICK i \in DOMAIN Ops[g] : Ops[g][i] = [op |-> "leave", node |-> c]
                                  /\ pc' = [pc EXCEPT ![g] = i + 1]
  BY DEF EnterHit
<1> HIDE DEF c
<1>4. Stands(Ops, g, i, "leave", c) /\ i \in Nat
  <2>1. Stands(Ops, g, i, "leave", c)
    BY <1>3 DEF Stands
  <2>2. setting \in Setting
    BY DEF ShapeInv, Shape
  <2> QED BY <2>1, <2>2, Rendering, Templates
<1>5. pc[g] < i /\ Around(Ops, g, i + 1) = Around(Ops, g, pc[g])
  <2>1. setting \in Setting
    BY DEF ShapeInv, Shape
  <2>2. Ops \in [Runner -> Seq(Instruction)] /\ IsTree(Ops)
    BY <2>1, Rendering
  <2> QED BY <1>2, <1>4, <2>2, AroundSkip
<1>6. pc \in [Runner -> Nat \ {0}] /\ pc'[g] = i + 1 /\ \A h \in Runner : h # g => pc'[h] = pc[h]
  BY <1>3 DEF ShapeInv, Shape
<1>7. Shape'
  BY <1>1, <1>3, <1>4 DEF ShapeInv, Shape
<1>8. Progress(g)'
  BY <1>1 DEF ShapeInv, Progress, Working
<1>9. Framed(g)'
  BY <1>1, <1>5, <1>6 DEF ShapeInv, Framed, Ops
<1>10. Telling(g)'
  BY <1>1 DEF ShapeInv, Telling
<1>11. \A h \in Runner : h # g => Same(h)
  BY <1>1, <1>6 DEF Same
<1>12. pc'[g] >= pc[g] /\ ~Stuck(g)
  BY <1>1, <1>4, <1>5, <1>6 DEF Stuck
<1> QED BY <1>1, <1>7, <1>8, <1>9, <1>10, <1>11, <1>12, OneMoves

\* EnterMiss keeps ShapeInv.
LEMMA EnterMissKeepsShape ==
  ASSUME ShapeInv, NEW g \in Runner, EnterMiss(g)
  PROVE  ShapeInv'
<1> DEFINE c == Node(g)
<1>1. setting' = setting /\ UNCHANGED << phase, groups, todo, verdict >> /\ phase[g] = "rendering"
  BY DEF EnterMiss, pastVars, At
<1>2. c \in Cached /\ Stands(Ops, g, pc[g], "enter", c)
  BY Instructed DEF EnterMiss
<1>3. /\ pc' = [pc EXCEPT ![g] = @ + 1]
      /\ frame' = [frame EXCEPT ![g] = << c >> \o @]
  BY DEF EnterMiss, Advance
<1> HIDE DEF c
<1>4. Around(Ops, g, pc[g] + 1) = Around(Ops, g, pc[g]) \cup {c} /\ c \notin Around(Ops, g, pc[g])
  BY <1>2, Rendering, AroundEnter DEF ShapeInv, Shape
<1>5. /\ pc[g] \in Nat /\ pc'[g] = pc[g] + 1 /\ frame'[g] = << c >> \o frame[g]
      /\ frame[g] \in Seq(Cached)
      /\ \A h \in Runner : h # g => pc'[h] = pc[h] /\ frame'[h] = frame[h]
  BY <1>3 DEF ShapeInv, Shape
<1>6. /\ frame'[g] \in Seq(Cached) /\ ToSet(frame'[g]) = {c} \cup ToSet(frame[g])
      /\ IsInjective(frame'[g]) <=> IsInjective(frame[g]) /\ c \notin ToSet(frame[g])
      /\ \A n \in DOMAIN frame'[g] :
           IF n = 1 THEN frame'[g][n] = c
           ELSE n - 1 \in DOMAIN frame[g] /\ frame'[g][n] = frame[g][n - 1] /\ n \in Nat
  BY <1>2, <1>5, Pushed
<1>7. Shape'
  BY <1>1, <1>3, <1>5, <1>6 DEF ShapeInv, Shape
<1>8. Progress(g)'
  BY <1>1 DEF ShapeInv, Progress, Working
<1>9. c \notin ToSet(groups[g])
  <2> SUFFICES ASSUME c \in ToSet(groups[g]) PROVE FALSE
    OBVIOUS
  <2>1. g \in Await
    BY Rendering, EmptyChain DEF ShapeInv, Shape
  <2>2. PICK h \in Runner : \E i \in DOMAIN Ops[h] : i < pc[h] /\ Stands(Ops, h, i, "enter", c)
    BY <1>2, <2>1 DEF ShapeInv, Entered
  <2>3. pc[g] < pc[g]
    BY <1>2, <2>2, Rendering, OnePlace DEF ShapeInv, Shape
  <2> QED BY <1>5, <2>3
<1>10. Framed(g)'
  <2> DEFINE f == frame'[g]
  <2>1. ToSet(f) = Around(Ops, g, pc'[g])
    BY <1>1, <1>4, <1>5, <1>6 DEF ShapeInv, Framed, Working
  <2>2. c \notin ToSet(frame[g])
    BY <1>4 DEF ShapeInv, Framed
  <2>3. IsInjective(f) /\ IsInjective(groups[g]) /\ ToSet(f) \cap ToSet(groups[g]) = {}
    <3>1. /\ IsInjective(frame[g]) /\ IsInjective(groups[g])
          /\ ToSet(frame[g]) \cap ToSet(groups[g]) = {}
      BY DEF ShapeInv, Framed
    <3>2. IsInjective(f)
      BY <1>6, <2>2, <3>1
    <3>3. ToSet(f) = {c} \cup ToSet(frame[g])
      BY <1>6
    <3> HIDE DEF f
    <3> QED BY <1>9, <3>1, <3>2, <3>3
  <2>4. \A m, n \in DOMAIN f : \A i, k \in DOMAIN Ops[g] :
          m < n /\ Stands(Ops, g, i, "enter", f[m]) /\ Stands(Ops, g, k, "enter", f[n]) => k < i
    <3> SUFFICES ASSUME NEW m \in DOMAIN f, NEW n \in DOMAIN f,
                        NEW i \in DOMAIN Ops[g], NEW k \in DOMAIN Ops[g], m < n,
                        Stands(Ops, g, i, "enter", f[m]), Stands(Ops, g, k, "enter", f[n])
                 PROVE  k < i
      OBVIOUS
    <3>1. m \in Nat /\ n \in Nat /\ m # 0 /\ n # 1 /\ n # 0
      BY <1>6
    <3>2. n - 1 \in DOMAIN frame[g] /\ f[n] = frame[g][n - 1]
      BY <1>6, <3>1
    <3>3. CASE m = 1
      <4>1. f[m] = c /\ i = pc[g]
        BY <1>2, <1>6, <3>3, Rendering, OnePlace DEF ShapeInv, Shape
      <4>2. f[n] \in Around(Ops, g, pc[g])
        BY <3>2 DEF ShapeInv, Framed, ToSet
      <4>3. \E x \in DOMAIN Ops[g] : x < pc[g] /\ Stands(Ops, g, x, "enter", f[n])
        BY <4>2 DEF Around
      <4> QED BY <4>1, <4>3, Rendering, OnePlace DEF ShapeInv, Shape
    <3>4. CASE m # 1
      <4>1. m - 1 \in DOMAIN frame[g] /\ f[m] = frame[g][m - 1] /\ m - 1 < n - 1
        BY <1>6, <3>1, <3>4
      <4> HIDE DEF f
      <4> QED BY <3>2, <4>1 DEF ShapeInv, Framed
    <3> QED BY <3>3, <3>4
  <2> QED BY <1>1, <2>1, <2>3, <2>4 DEF Framed, Ops
<1>11. Telling(g)'
  BY <1>1 DEF ShapeInv, Telling
<1>12. \A h \in Runner : h # g => Same(h)
  BY <1>1, <1>5 DEF Same
<1>13. pc'[g] >= pc[g] /\ ~Stuck(g)
  BY <1>1, <1>5 DEF Stuck
<1> QED BY <1>1, <1>7, <1>8, <1>10, <1>11, <1>12, <1>13, OneMoves

\* The component left is the one entered last.
LEMMA LeavesTheInnermost ==
  ASSUME ShapeInv, NEW g \in Runner, At(g, "leave")
  PROVE  /\ frame[g] \in Seq(Cached) /\ frame[g] # << >> /\ Head(frame[g]) = Node(g)
         /\ Around(Ops, g, pc[g] + 1) = Around(Ops, g, pc[g]) \ {Node(g)}
         /\ Node(g) \in Around(Ops, g, pc[g])
<1> DEFINE c == Node(g)
<1>1. /\ c \in Cached /\ Stands(Ops, g, pc[g], "leave", c) /\ phase[g] = "rendering"
      /\ setting \in Setting /\ frame[g] \in Seq(Cached) /\ Framed(g)
  BY Instructed DEF ShapeInv, Shape
<1> HIDE DEF c
<1>2. Ops \in [Runner -> Seq(Instruction)] /\ IsTree(Ops)
  BY <1>1, Rendering
<1>3. /\ Around(Ops, g, pc[g] + 1) = Around(Ops, g, pc[g]) \ {c}
      /\ c \in Around(Ops, g, pc[g])
      /\ \A d \in Around(Ops, g, pc[g]) : \A i, k :
           d # c /\ Stands(Ops, g, i, "enter", c) /\ Stands(Ops, g, k, "enter", d) => k < i
  BY <1>1, <1>2, AroundLeave
<1>4. ToSet(frame[g]) = Around(Ops, g, pc[g])
  BY <1>1 DEF Framed, Working
<1>5. frame[g] # << >>
  BY <1>3, <1>4, EmptyChain
<1>6. Head(frame[g]) = c
  <2> DEFINE d == Head(frame[g])
  <2>1. 1 \in DOMAIN frame[g] /\ frame[g][1] = d /\ d \in ToSet(frame[g])
    BY <1>1, <1>5, TailOf
  <2>2. PICK n \in DOMAIN frame[g] : frame[g][n] = c
    BY <1>3, <1>4 DEF ToSet
  <2> HIDE DEF d
  <2> SUFFICES ASSUME d # c PROVE FALSE
    BY DEF d
  <2>3. n \in Nat /\ 1 < n
    BY <1>1, <2>1, <2>2
  <2>4. PICK i \in DOMAIN Ops[g] : Stands(Ops, g, i, "enter", d)
    BY <1>4, <2>1 DEF Around
  <2>5. PICK k \in DOMAIN Ops[g] : Stands(Ops, g, k, "enter", c)
    BY <1>3 DEF Around
  <2>6. k < i
    BY <1>1, <2>1, <2>2, <2>3, <2>4, <2>5 DEF Framed
  <2>7. i < k
    BY <1>3, <1>4, <2>1, <2>4, <2>5
  <2>8. i \in Nat /\ k \in Nat
    BY <1>2, <2>4, <2>5, Templates
  <2> QED BY <2>6, <2>7, <2>8
<1> QED BY <1>1, <1>3, <1>5, <1>6 DEF c

\* Leave keeps ShapeInv.
LEMMA LeaveKeepsShape ==
  ASSUME ShapeInv, NEW g \in Runner, Leave(g)
  PROVE  ShapeInv'
<1>1. /\ setting' = setting /\ UNCHANGED << phase, groups, todo, verdict >>
      /\ phase[g] = "rendering" /\ At(g, "leave")
      /\ pc' = [pc EXCEPT ![g] = @ + 1]
      /\ frame' = [frame EXCEPT ![g] = Tail(@)]
  BY DEF Leave, Advance, pastVars, At
<1>2. /\ frame[g] # << >>
      /\ Around(Ops, g, pc[g] + 1) = Around(Ops, g, pc[g]) \ {Head(frame[g])}
  BY <1>1, LeavesTheInnermost
<1>3. /\ pc[g] \in Nat /\ pc'[g] = pc[g] + 1 /\ frame'[g] = Tail(frame[g])
      /\ frame[g] \in Seq(Cached)
      /\ \A h \in Runner : h # g => pc'[h] = pc[h] /\ frame'[h] = frame[h]
  BY <1>1 DEF ShapeInv, Shape
<1>4. /\ frame'[g] \in Seq(Cached)
      /\ ToSet(frame[g]) = {Head(frame[g])} \cup ToSet(frame'[g])
      /\ IsInjective(frame[g]) => IsInjective(frame'[g]) /\ Head(frame[g]) \notin ToSet(frame'[g])
      /\ \A n \in DOMAIN frame'[g] : /\ n + 1 \in DOMAIN frame[g]
                                     /\ frame'[g][n] = frame[g][n + 1] /\ n \in Nat
  BY <1>2, <1>3, TailOf
<1>5. Shape'
  BY <1>1, <1>3, <1>4 DEF ShapeInv, Shape
<1>6. Progress(g)'
  BY <1>1 DEF ShapeInv, Progress, Working
<1>7. Framed(g)'
  <2> DEFINE f == frame'[g]
  <2>1. ToSet(f) = Around(Ops, g, pc'[g])
    <3>1. ToSet(frame[g]) = Around(Ops, g, pc[g]) /\ IsInjective(frame[g])
      BY <1>1 DEF ShapeInv, Framed, Working
    <3>2. Head(frame[g]) \notin ToSet(f) /\ ToSet(frame[g]) = {Head(frame[g])} \cup ToSet(f)
      BY <1>4, <3>1
    <3>3. Around(Ops, g, pc'[g]) = Around(Ops, g, pc[g] + 1)
      BY <1>3
    <3>4. Around(Ops, g, pc[g] + 1) = ToSet(frame[g]) \ {Head(frame[g])}
      BY <1>2, <3>1
    <3> HIDE DEF f
    <3> QED BY <3>2, <3>3, <3>4
  <2>2. IsInjective(f) /\ IsInjective(groups[g]) /\ ToSet(f) \cap ToSet(groups[g]) = {}
    BY <1>4 DEF ShapeInv, Framed
  <2>3. \A m, n \in DOMAIN f : \A i, k \in DOMAIN Ops[g] :
          m < n /\ Stands(Ops, g, i, "enter", f[m]) /\ Stands(Ops, g, k, "enter", f[n]) => k < i
    <3> SUFFICES ASSUME NEW m \in DOMAIN f, NEW n \in DOMAIN f,
                        NEW i \in DOMAIN Ops[g], NEW k \in DOMAIN Ops[g], m < n,
                        Stands(Ops, g, i, "enter", f[m]), Stands(Ops, g, k, "enter", f[n])
                 PROVE  k < i
      OBVIOUS
    <3>1. /\ m + 1 \in DOMAIN frame[g] /\ n + 1 \in DOMAIN frame[g] /\ m + 1 < n + 1
          /\ f[m] = frame[g][m + 1] /\ f[n] = frame[g][n + 1]
      BY <1>4
    <3> HIDE DEF f
    <3> QED BY <3>1 DEF ShapeInv, Framed
  <2> QED BY <1>1, <2>1, <2>2, <2>3 DEF Framed, Ops
<1>8. Telling(g)'
  BY <1>1 DEF ShapeInv, Telling
<1>9. \A h \in Runner : h # g => Same(h)
  BY <1>1, <1>3 DEF Same
<1>10. pc'[g] >= pc[g] /\ ~Stuck(g)
  BY <1>1, <1>3 DEF Stuck
<1> QED BY <1>1, <1>5, <1>6, <1>7, <1>8, <1>9, <1>10, OneMoves

\* Place keeps ShapeInv.
LEMMA PlaceKeepsShape ==
  ASSUME ShapeInv, NEW g \in Runner, Place(g)
  PROVE  ShapeInv'
<1>1. /\ setting' = setting /\ UNCHANGED << pc, frame, groups, verdict >>
      /\ Streaming /\ phase[g] = "rendering" /\ At(g, "await")
      /\ phase' = [phase EXCEPT ![g] = "opening"]
      /\ todo' = [todo EXCEPT ![g] = Groups(g)]
  BY DEF Place, pastVars, At
<1>2. /\ phase'[g] = "opening" /\ todo'[g] = Groups(g) /\ pc[g] \in Nat
      /\ \A h \in Runner : h # g => phase'[h] = phase[h] /\ todo'[h] = todo[h]
  BY <1>1 DEF ShapeInv, Shape
<1>3. Groups(g) \in Seq(Cached) /\ ToSet(Groups(g)) = Chain(g) /\ IsInjective(Groups(g))
  BY ChainOf
<1>4. Shape'
  BY <1>1, <1>2, <1>3 DEF ShapeInv, Shape
<1>5. Progress(g)'
  <2>1. \E b \in Await : Stands(Ops, g, pc[g], "await", b)
    BY <1>1, Instructed
  <2> QED BY <1>1, <1>2, <2>1 DEF ShapeInv, Progress, Working, Ops, Streaming
<1>6. Framed(g)'
  BY <1>1, <1>2 DEF ShapeInv, Framed, Working, Ops
<1>7. Telling(g)'
  BY <1>1, <1>2, <1>3 DEF Telling, Chain
<1>8. \A h \in Runner : h # g => Same(h)
  BY <1>1, <1>2 DEF Same
<1>9. pc'[g] >= pc[g] /\ ~Stuck(g)
  BY <1>1, <1>2 DEF Stuck
<1> QED BY <1>1, <1>2, <1>4, <1>5, <1>6, <1>7, <1>8, <1>9, OneMoves

\* Register and Report tell the next group of a chain.
LEMMA TellsKeepsShape ==
  ASSUME ShapeInv, NEW g \in Runner, phase[g] \in {"opening", "settling"}, todo[g] # << >>,
         todo' = [todo EXCEPT ![g] = Tail(@)], setting' = setting,
         UNCHANGED << phase, pc, frame, groups, verdict >>
  PROVE  ShapeInv'
<1>1. /\ todo'[g] = Tail(todo[g]) /\ pc[g] \in Nat
      /\ todo[g] \in Seq(Cached) /\ \A h \in Runner : h # g => todo'[h] = todo[h]
  BY DEF ShapeInv, Shape
<1>2. /\ todo'[g] \in Seq(Cached) /\ ToSet(todo'[g]) \subseteq ToSet(todo[g])
      /\ IsInjective(todo[g]) => IsInjective(todo'[g])
  BY <1>1, TailOf
<1>3. Shape'
  BY <1>1, <1>2 DEF ShapeInv, Shape
<1>4. Progress(g)' /\ Framed(g)'
  BY DEF ShapeInv, Progress, Framed, Ops, Streaming
<1>5. Telling(g)'
  BY <1>2 DEF ShapeInv, Telling, Chain
<1>6. \A h \in Runner : h # g => Same(h)
  BY <1>1 DEF Same
<1>7. pc'[g] >= pc[g] /\ ~Stuck(g)
  BY <1>1 DEF Stuck
<1> QED BY <1>3, <1>4, <1>5, <1>6, <1>7, OneMoves

\* A boundary is idle until the instruction that starts it has.
LEMMA AwaitedIsIdle ==
  ASSUME ShapeInv, NEW g \in Runner, phase[g] \in {"rendering", "opening"},
         NEW b \in Await, Stands(Ops, g, pc[g], "await", b)
  PROVE  phase[b] = "idle" /\ b # g /\ b \in Runner
<1>1. setting \in Setting /\ pc[g] \in Nat /\ b \in Runner
  BY DEF ShapeInv, Shape, Runner
<1> SUFFICES ASSUME phase[b] # "idle" PROVE FALSE
  BY <1>1
<1>2. PICK h \in Runner : \E j \in DOMAIN Ops[h] : StartedBy(b, h, j)
  BY DEF ShapeInv, Parented
<1>3. PICK j \in DOMAIN Ops[h] : StartedBy(b, h, j)
  BY <1>2
<1>4. h = g /\ j = pc[g]
  BY <1>1, <1>3, Rendering, OnePlace DEF StartedBy
<1> QED BY <1>1, <1>3, <1>4 DEF StartedBy, Stuck

\* Start and SettleInPlace: g goes on, or waits, and b starts.
LEMMA StartingKeepsShape ==
  ASSUME ShapeInv, NEW g \in Runner, NEW b \in Await, Stands(Ops, g, pc[g], "await", b),
         setting' = setting, UNCHANGED << frame, todo, verdict >>,
         groups' = [groups EXCEPT ![b] = Groups(g)],
         NEW to \in {"rendering", "blocked"},
         phase' = [phase EXCEPT ![g] = to, ![b] = "resolving"],
         IF to = "rendering"
         THEN phase[g] = "opening" /\ todo[g] = << >> /\ pc' = [pc EXCEPT ![g] = @ + 1]
         ELSE phase[g] = "rendering" /\ ~Streaming /\ UNCHANGED pc
  PROVE  ShapeInv'
<1>1. /\ setting \in Setting /\ pc[g] \in Nat /\ pc \in [Runner -> Nat \ {0}]
      /\ pc'[g] \in Nat /\ pc'[g] >= pc[g] /\ \A h \in Runner : h # g => pc'[h] = pc[h]
      /\ pc' \in [Runner -> Nat \ {0}]
      /\ to = "rendering" => pc'[g] = pc[g] + 1
      /\ to = "blocked" => pc'[g] = pc[g]
  <2>1. setting \in Setting /\ pc \in [Runner -> Nat \ {0}] /\ pc[g] \in Nat
    BY DEF ShapeInv, Shape
  <2>2. CASE to = "rendering"
    BY <2>1, <2>2
  <2>3. CASE to = "blocked"
    BY <2>1, <2>3
  <2> QED BY <2>1, <2>2, <2>3
<1>2. phase[b] = "idle" /\ b # g /\ b \in Runner
  BY AwaitedIsIdle
<1>3. /\ phase'[g] = to /\ phase'[b] = "resolving"
      /\ groups'[b] = Groups(g) /\ groups'[g] = groups[g]
      /\ \A h \in Runner : h # b => groups'[h] = groups[h]
      /\ \A h \in Runner : h # b /\ h # g => phase'[h] = phase[h]
  BY <1>2 DEF ShapeInv, Shape
<1>4. Groups(g) \in Seq(Cached) /\ ToSet(Groups(g)) = Chain(g) /\ IsInjective(Groups(g))
  BY ChainOf
<1>5. Ops \in [Runner -> Seq(Instruction)] /\ IsTree(Ops) /\ Ops' = Ops /\ Streaming' = Streaming
  BY <1>1, Rendering DEF Ops, Streaming
<1>6. Shape'
  <2>1. b # "document"
    BY <1>1, Rendering
  <2>2. Shape
    BY DEF ShapeInv
  <2>3. phase'["document"] \notin {"idle", "resolving", "settling"} /\ groups'["document"] = << >>
    BY <1>3, <2>1, <2>2 DEF Shape, Runner
  <2>4. groups' \in [Runner -> Seq(Cached)]
    BY <1>4, <2>2 DEF Shape
  <2> QED BY <1>1, <2>2, <2>3, <2>4 DEF Shape
<1>7. \A h \in Runner : h # g /\ h # b => Same(h)
  BY <1>1, <1>3 DEF Same
<1>8. Around(Ops, g, pc'[g]) = Around(Ops, g, pc[g])
  BY <1>1, <1>5, AroundAwait
<1>9. Progress(g)' /\ Framed(g)' /\ Telling(g)'
  <2>1. Progress(g)'
    BY <1>1, <1>3, <1>5 DEF ShapeInv, Progress, Working
  <2>2. Framed(g)'
    BY <1>3, <1>5, <1>8 DEF ShapeInv, Framed, Working
  <2>3. Telling(g)'
    BY <1>3 DEF ShapeInv, Telling
  <2> QED BY <2>1, <2>2, <2>3
<1>10. Progress(b)' /\ Framed(b)' /\ Telling(b)'
  <2>1. pc[b] = 1 /\ pc'[b] = 1 /\ verdict[b] = "none"
    BY <1>1, <1>2 DEF ShapeInv, Progress
  <2>2. Progress(b)'
    BY <1>2, <1>3, <1>5, <2>1 DEF Progress
  <2>3. ToSet(frame[b]) = {}
    BY <1>2, <1>5, <2>1, AroundStart DEF ShapeInv, Framed
  <2>4. Framed(b)'
    BY <1>2, <1>3, <1>4, <1>5, <2>1, <2>3 DEF ShapeInv, Framed, Working
  <2>5. Telling(b)'
    BY <1>2, <1>3 DEF ShapeInv, Telling
  <2> QED BY <2>2, <2>4, <2>5
<1>11. \A h \in Runner : Progress(h)' /\ Framed(h)' /\ Telling(h)'
  BY <1>7, <1>9, <1>10, SameStays DEF ShapeInv
<1>12. \A h \in Runner : Goes(h)
  <2>1. ~Stuck(g) /\ ~Stuck(b) /\ pc[b] \in Nat
    BY <1>1, <1>2 DEF Stuck
  <2>2. Goes(g)
    BY <1>1, <1>3, <2>1 DEF Goes
  <2>3. Goes(b)
    BY <1>1, <1>2, <1>3, <2>1 DEF Goes
  <2>4. ASSUME NEW h \in Runner, h # g, h # b PROVE Goes(h)
    <3>1. pc[h] \in Nat /\ pc[h] >= pc[h]
      BY <1>1
    <3> QED BY <1>7, <2>4, <3>1 DEF Goes, Same, Stuck
  <2> QED BY <2>2, <2>3, <2>4
<1>13. Parented(b)'
  <2>1. \A c \in Cached : c \in ToSet(groups'[b]) <=>
          c \in Around(Ops, g, pc[g]) \/ c \in ToSet(groups'[g])
    BY <1>3, <1>4 DEF ShapeInv, Framed, Working, Chain
  <2>2. pc[g] < pc'[g] \/ (pc[g] = pc'[g] /\ ~Streaming /\ Stuck(g)')
    BY <1>1, <1>3 DEF Stuck
  <2>3. PICK j \in DOMAIN Ops'[g] : j = pc[g]
    BY <1>5 DEF Stands
  <2>4. StartedBy(b, g, j)'
    BY <1>5, <2>1, <2>2, <2>3 DEF StartedBy
  <2> QED BY <1>3, <2>4 DEF Parented
<1>14. \A d \in Await : Parented(d)'
  <2> SUFFICES ASSUME NEW d \in Await, d # b PROVE Parented(d)'
    BY <1>13
  <2>1. CASE phase[d] = "idle"
    <3>1. d # g /\ d \in Runner
      BY <2>1 DEF Runner
    <3> QED BY <1>3, <2>1, <3>1 DEF ShapeInv, Parented
  <2>2. CASE phase[d] # "idle"
    BY <1>12, <2>2, ParentedStays
  <2> QED BY <2>1, <2>2
<1>15. \A c \in Cached : Entered(c)'
  <2> SUFFICES ASSUME NEW c \in Cached, NEW d \in Await, c \in ToSet(groups'[d])
               PROVE  \E h \in Runner : \E i \in DOMAIN Ops'[h] :
                        i < pc'[h] /\ Stands(Ops', h, i, "enter", c)
    BY DEF Entered
  <2>1. CASE c \in ToSet(groups[d])
    BY <1>12, <2>1, EnteredStays
  <2>2. CASE c \notin ToSet(groups[d])
    <3>1. d = b /\ c \in Chain(g)
      BY <1>3, <1>4, <2>2 DEF Runner
    <3>2. CASE c \in ToSet(frame[g])
      <4>1. PICK i \in DOMAIN Ops[g] : i < pc[g] /\ Stands(Ops, g, i, "enter", c)
        BY <3>2 DEF ShapeInv, Framed, Around
      <4>2. i \in Nat
        BY <1>5, <4>1, Templates
      <4> QED BY <1>1, <1>5, <4>1, <4>2
    <3>3. CASE c \in ToSet(groups[g])
      <4>1. g \in Await
        BY <1>1, <3>3, Rendering, EmptyChain DEF ShapeInv, Shape
      <4> QED BY <1>12, <3>3, <4>1, EnteredStays
    <3> QED BY <3>1, <3>2, <3>3 DEF Chain
  <2> QED BY <2>1, <2>2
<1> QED BY <1>6, <1>11, <1>14, <1>15 DEF ShapeInv

\* g comes to its verdict v, and to the phase p.
LEMMA FinishKeepsShape ==
  ASSUME ShapeInv, NEW g \in Runner, phase[g] \in {"rendering", "resolving", "blocked"},
         setting' = setting, UNCHANGED << pc, groups >>,
         NEW v \in {"settled", "recovered", "failed", "cancelled"},
         verdict' = [verdict EXCEPT ![g] = v],
         IF v = "settled" THEN pc[g] > Len(Ops[g]) /\ frame' = frame
                          ELSE frame' = [frame EXCEPT ![g] = << >>],
         phase[g] = "blocked" => v = "failed",
         NEW p \in {"settling", "done"}, p = "settling" => Streaming /\ g # "document",
         phase' = [phase EXCEPT ![g] = p],
         todo' = [todo EXCEPT ![g] = IF p = "settling" THEN groups[g] ELSE << >>]
  PROVE  ShapeInv'
<1>1. /\ setting \in Setting /\ pc[g] \in Nat /\ Framed(g) /\ groups[g] \in Seq(Cached)
      /\ phase'[g] = p /\ verdict'[g] = v
      /\ todo'[g] = IF p = "settling" THEN groups[g] ELSE << >>
      /\ \A h \in Runner : h # g => /\ phase'[h] = phase[h] /\ verdict'[h] = verdict[h]
                                    /\ todo'[h] = todo[h]
  BY DEF ShapeInv, Shape
<1>2. /\ frame'[g] = frame[g] \/ frame'[g] = << >>
      /\ \A h \in Runner : h # g => frame'[h] = frame[h]
      /\ frame' \in [Runner -> Seq(Cached)]
  <2>1. frame \in [Runner -> Seq(Cached)]
    BY DEF ShapeInv, Shape
  <2>2. CASE v = "settled"
    BY <2>1, <2>2
  <2>3. CASE v # "settled"
    <3>1. frame' = [frame EXCEPT ![g] = << >>] /\ << >> \in Seq(Cached)
      BY <2>3
    <3> QED BY <2>1, <3>1
  <2> QED BY <2>2, <2>3
<1>3. Shape'
  <2>1. Shape
    BY DEF ShapeInv
  <2>2. todo' \in [Runner -> Seq(Cached)]
    BY <1>1, <2>1 DEF Shape
  <2>3. phase'["document"] \notin {"idle", "resolving", "settling"}
    BY <1>1, <2>1 DEF Shape, Runner
  <2> QED BY <1>2, <2>1, <2>2, <2>3 DEF Shape
<1>4. Progress(g)'
  BY <1>1 DEF Progress, Working, Ops, Streaming
<1>5. Framed(g)'
  <2>1. CASE frame'[g] = frame[g]
    BY <1>1, <2>1 DEF Framed, Working, Ops
  <2>2. CASE frame'[g] = << >>
    <3>1. ToSet(frame'[g]) = {} /\ IsInjective(frame'[g]) /\ DOMAIN frame'[g] = {}
      BY <2>2, EmptyChain
    <3> QED BY <1>1, <3>1 DEF Framed, Working, Ops
  <2> QED BY <1>2, <2>1, <2>2
<1>6. Telling(g)'
  BY <1>1, EmptyChain DEF Telling, Framed
<1>7. \A h \in Runner : h # g => Same(h)
  BY <1>1, <1>2 DEF Same
<1>8. pc'[g] >= pc[g] /\ (Stuck(g) => Stuck(g)')
  <2>1. phase[g] = "blocked" => p = "done" /\ v = "failed"
    BY DEF ShapeInv, Progress
  <2> QED BY <1>1, <2>1 DEF Stuck
<1> QED BY <1>1, <1>3, <1>4, <1>5, <1>6, <1>7, <1>8, OneMoves

\* g goes from one phase to the next, telling nobody.
LEMMA TurnsKeepsShape ==
  ASSUME ShapeInv, NEW g \in Runner, setting' = setting,
         UNCHANGED << pc, frame, groups, todo, verdict >>,
         NEW p \in {"rendering", "done"}, phase' = [phase EXCEPT ![g] = p],
         \/ phase[g] = "resolving" /\ p = "rendering"
         \/ phase[g] = "resolving" /\ p = "done" /\ Streaming
         \/ phase[g] = "settling" /\ todo[g] = << >> /\ p = "done"
  PROVE  ShapeInv'
<1>1. /\ setting \in Setting /\ pc[g] \in Nat /\ Framed(g) /\ phase'[g] = p
      /\ \A h \in Runner : h # g => phase'[h] = phase[h]
  BY DEF ShapeInv, Shape
<1>2. Shape'
  BY <1>1 DEF ShapeInv, Shape, Runner
<1>3. Progress(g)'
  BY <1>1 DEF ShapeInv, Progress, Working, Ops, Streaming
<1>4. Framed(g)'
  <2>1. CASE phase[g] = "resolving"
    <3>1. Around(Ops, g, pc[g]) = {}
      BY <1>1, <2>1, AroundStart, Rendering DEF ShapeInv, Progress
    <3> QED BY <1>1, <3>1 DEF Framed, Working, Ops
  <2>2. CASE phase[g] # "resolving"
    BY <1>1, <2>2 DEF Framed, Working, Ops
  <2> QED BY <2>1, <2>2
<1>5. Telling(g)'
  BY <1>1 DEF ShapeInv, Telling
<1>6. \A h \in Runner : h # g => Same(h)
  BY <1>1 DEF Same
<1>7. pc'[g] >= pc[g] /\ ~Stuck(g)
  BY <1>1 DEF Stuck
<1> QED BY <1>1, <1>2, <1>3, <1>4, <1>5, <1>6, <1>7, OneMoves

\* InPlaceReturns keeps ShapeInv.
LEMMA InPlaceReturnsKeepsShape ==
  ASSUME ShapeInv, NEW g \in Runner, InPlaceReturns(g)
  PROVE  ShapeInv'
<1>1. setting' = setting /\ UNCHANGED << groups, todo >> /\ phase[g] = "blocked"
  BY DEF InPlaceReturns, pastVars
<1>2. todo \in [Runner -> Seq(Cached)] /\ todo[g] = << >> /\ phase[g] \in Working
  BY <1>1 DEF ShapeInv, Shape, Telling, Working
<1>3. CASE verdict[Node(g)] = "failed"
  <2>1. /\ phase' = [phase EXCEPT ![g] = "done"] /\ UNCHANGED pc
        /\ verdict' = [verdict EXCEPT ![g] = "failed"]
        /\ frame' = [frame EXCEPT ![g] = << >>]
    BY <1>3 DEF InPlaceReturns, Fails
  <2>2. todo' = [todo EXCEPT ![g] = << >>]
    BY <1>1, <1>2
  <2> QED BY <1>1, <2>1, <2>2, FinishKeepsShape
<1>4. CASE verdict[Node(g)] # "failed"
  <2>1. /\ phase' = [phase EXCEPT ![g] = "rendering"]
        /\ pc' = [pc EXCEPT ![g] = @ + 1]
        /\ UNCHANGED << verdict, frame >>
    BY <1>4 DEF InPlaceReturns, Advance
  <2>2. /\ phase'[g] = "rendering" /\ pc[g] \in Nat /\ pc'[g] = pc[g] + 1
        /\ setting \in Setting
        /\ \A h \in Runner : h # g => phase'[h] = phase[h] /\ pc'[h] = pc[h]
    BY <2>1 DEF ShapeInv, Shape
  <2>3. PICK b \in Await : Stands(Ops, g, pc[g], "await", b)
    BY <1>1 DEF ShapeInv, Progress
  <2>4. Around(Ops, g, pc[g] + 1) = Around(Ops, g, pc[g])
    BY <2>2, <2>3, AroundAwait, Rendering
  <2>5. Shape'
    BY <1>1, <2>1, <2>2 DEF ShapeInv, Shape, Runner
  <2>6. Progress(g)'
    BY <1>1, <2>1, <2>2 DEF ShapeInv, Progress, Working
  <2>7. Framed(g)'
    BY <1>1, <1>2, <2>1, <2>2, <2>4 DEF ShapeInv, Framed, Ops
  <2>8. Telling(g)'
    BY <1>1, <1>2, <2>2 DEF ShapeInv, Telling
  <2>9. \A h \in Runner : h # g => Same(h)
    BY <1>1, <2>1, <2>2 DEF Same
  <2>10. pc'[g] >= pc[g] /\ ~(pc'[g] = pc[g])
    BY <2>2
  <2> QED BY <1>1, <2>2, <2>5, <2>6, <2>7, <2>8, <2>9, <2>10, OneMoves
<1> QED BY <1>3, <1>4

\* The start of a render.
Fresh ==
  /\ setting \in Setting
  /\ phase = Started /\ pc = All(Runner, 1)
  /\ frame = All(Runner, << >>) /\ groups = All(Runner, << >>)
  /\ todo = All(Runner, << >>) /\ verdict = All(Runner, "none")

\* A fresh render has ShapeInv.
LEMMA FreshShape == Fresh => ShapeInv
<1> SUFFICES ASSUME Fresh PROVE ShapeInv
  OBVIOUS
<1>1. /\ setting \in Setting /\ Ops \in [Runner -> Seq(Instruction)]
      /\ "document" \in Runner /\ "document" \notin Await /\ Await \subseteq Runner
  BY Rendering DEF Fresh
<1>2. \A g \in Runner : /\ phase[g] = IF g = "document" THEN "rendering" ELSE "idle"
                        /\ pc[g] = 1 /\ frame[g] = << >> /\ groups[g] = << >>
                        /\ todo[g] = << >> /\ verdict[g] = "none"
  BY DEF Fresh, Started, All
<1>3. Shape
  <2>1. << >> \in Seq(Cached)
    OBVIOUS
  <2> QED BY <1>1, <1>2, <2>1 DEF Fresh, Started, All, Shape
<1>4. \A g \in Runner : Progress(g) /\ Framed(g) /\ Telling(g)
  <2> TAKE g \in Runner
  <2>1. Around(Ops, g, 1) = {}
    BY <1>1, AroundStart
  <2>2. ToSet(frame[g]) = {} /\ IsInjective(<< >>) /\ DOMAIN frame[g] = {}
    BY <1>2, EmptyChain
  <2>3. Progress(g)
    BY <1>2 DEF Progress, Working
  <2>4. Framed(g)
    BY <1>2, <2>1, <2>2 DEF Framed
  <2>5. Telling(g)
    BY <1>2, <2>2 DEF Telling
  <2> QED BY <2>3, <2>4, <2>5
<1>5. \A b \in Await : Parented(b)
  BY <1>1, <1>2 DEF Parented
<1>6. \A c \in Cached : Entered(c)
  BY <1>1, <1>2, EmptyChain DEF Entered
<1> QED BY <1>3, <1>4, <1>5, <1>6 DEF ShapeInv

\* The steps of a renderer keep ShapeInv.
LEMMA StepKeepsShape ==
  ASSUME ShapeInv, NEW g \in Runner, Step(g)
  PROVE  ShapeInv'
<1>1. CASE EnterHit(g)
  BY <1>1, EnterHitKeepsShape
<1>2. CASE EnterMiss(g)
  BY <1>2, EnterMissKeepsShape
<1>3. CASE Leave(g)
  BY <1>3, LeaveKeepsShape
<1>4. CASE Place(g)
  BY <1>4, PlaceKeepsShape
<1>5. CASE Register(g)
  BY <1>5, TellsKeepsShape DEF Register, pastVars
<1>6. CASE Start(g)
  <2>1. Node(g) \in Await /\ Stands(Ops, g, pc[g], "await", Node(g))
    <3>1. PICK b \in Await : Stands(Ops, g, pc[g], "await", b)
      BY <1>6 DEF Start, ShapeInv, Progress
    <3> QED BY <3>1 DEF Stands, Node
  <2>2. /\ phase[g] = "opening" /\ todo[g] = << >> /\ setting' = setting
        /\ UNCHANGED << frame, todo, verdict >>
        /\ groups' = [groups EXCEPT ![Node(g)] = Groups(g)]
        /\ phase' = [phase EXCEPT ![g] = "rendering", ![Node(g)] = "resolving"]
        /\ pc' = [pc EXCEPT ![g] = @ + 1]
    BY <1>6 DEF Start, pastVars, Advance
  <2> QED BY <2>1, <2>2, StartingKeepsShape
<1>7. CASE SettleInPlace(g)
  <2>1. Node(g) \in Await /\ Stands(Ops, g, pc[g], "await", Node(g)) /\ phase[g] = "rendering"
    BY <1>7, Instructed DEF SettleInPlace
  <2>2. /\ ~Streaming /\ setting' = setting
        /\ UNCHANGED << pc, frame, todo, verdict >>
        /\ groups' = [groups EXCEPT ![Node(g)] = Groups(g)]
        /\ phase' = [phase EXCEPT ![g] = "blocked", ![Node(g)] = "resolving"]
    BY <1>7 DEF SettleInPlace, pastVars
  <2> QED BY <2>1, <2>2, StartingKeepsShape
<1>8. CASE InPlaceReturns(g)
  BY <1>8, InPlaceReturnsKeepsShape
<1> QED BY <1>1, <1>2, <1>3, <1>4, <1>5, <1>6, <1>7, <1>8 DEF Step

\* The steps of a boundary keep ShapeInv.
LEMMA SettlingKeepsShape ==
  ASSUME ShapeInv, NEW b \in Await, Settling(b)
  PROVE  ShapeInv'
<1>1. b \in Runner /\ b # "document" /\ setting' = setting
  BY Rendering DEF ShapeInv, Shape, Settling, ResolveOk, ResolveFails, Ends, LeaveQueue,
                   RenderEnds, Report, Returns, pastVars
<1>2. CASE ResolveOk(b)
  BY <1>1, <1>2, TurnsKeepsShape DEF ResolveOk
<1>3. CASE LeaveQueue(b)
  BY <1>1, <1>3, TurnsKeepsShape DEF LeaveQueue
<1>4. CASE Returns(b)
  BY <1>1, <1>4, TurnsKeepsShape DEF Returns
<1>5. CASE Report(b)
  BY <1>1, <1>5, TellsKeepsShape DEF Report
<1> DEFINE p == IF Streaming THEN "settling" ELSE "done"
<1>6. ASSUME Ends(b)
      PROVE  /\ UNCHANGED << pc, groups >>
             /\ p \in {"settling", "done"} /\ (p = "settling" => Streaming)
             /\ phase' = [phase EXCEPT ![b] = p]
             /\ todo' = [todo EXCEPT ![b] = IF p = "settling" THEN groups[b] ELSE << >>]
  BY <1>6 DEF Ends
<1>7. CASE ResolveFails(b)
  <2> DEFINE v == IF Streaming /\ cancelled THEN "cancelled"
                  ELSE IF b \in Recovers THEN "recovered" ELSE "failed"
  <2>1. /\ phase[b] = "resolving" /\ Ends(b)
        /\ verdict' = [verdict EXCEPT ![b] = v]
        /\ frame' = [frame EXCEPT ![b] = << >>]
    BY <1>7 DEF ResolveFails, Fails
  <2>2. v \in {"settled", "recovered", "failed", "cancelled"} /\ v # "settled"
    OBVIOUS
  <2> HIDE DEF p, v
  <2> QED BY <1>1, <1>6, <2>1, <2>2, FinishKeepsShape
<1>8. CASE RenderEnds(b)
  <2>1. phase[b] = "rendering" /\ Ends(b)
    BY <1>8 DEF RenderEnds
  <2> HIDE DEF p
  <2>2. CASE pc[b] > Len(Ops[b]) /\ verdict' = [verdict EXCEPT ![b] = "settled"] /\ UNCHANGED frame
    <3> DEFINE v == "settled"
    <3>1. v \in {"settled", "recovered", "failed", "cancelled"} /\ v = "settled"
      OBVIOUS
    <3>2. verdict' = [verdict EXCEPT ![b] = v]
      BY <2>2
    <3> HIDE DEF v
    <3> QED BY <1>1, <1>6, <2>1, <2>2, <3>1, <3>2, FinishKeepsShape
  <2>3. CASE Fails(b, "failed")
    <3> DEFINE v == "failed"
    <3>1. v \in {"settled", "recovered", "failed", "cancelled"} /\ v # "settled" /\ v = "failed"
      OBVIOUS
    <3>2. verdict' = [verdict EXCEPT ![b] = v] /\ frame' = [frame EXCEPT ![b] = << >>]
      BY <2>3 DEF Fails
    <3> HIDE DEF v
    <3> QED BY <1>1, <1>6, <2>1, <3>1, <3>2, FinishKeepsShape
  <2> QED BY <1>8, <2>2, <2>3 DEF RenderEnds
<1> QED BY <1>2, <1>3, <1>4, <1>5, <1>7, <1>8 DEF Settling

\* DocumentEnds keeps ShapeInv.
LEMMA DocumentEndsKeepsShape ==
  ASSUME ShapeInv, DocumentEnds
  PROVE  ShapeInv'
<1> DEFINE g == "document"
<1>1. g \in Runner /\ phase[g] = "rendering" /\ setting' = setting
      /\ UNCHANGED << pc, groups, todo >> /\ phase' = [phase EXCEPT ![g] = "done"]
  BY DEF DocumentEnds, pastVars, Runner
<1>2. \E v \in {"settled", "failed"} :
        /\ verdict' = [verdict EXCEPT ![g] = v]
        /\ IF v = "settled" THEN pc[g] > Len(Ops[g]) /\ frame' = frame
                            ELSE frame' = [frame EXCEPT ![g] = << >>]
  <2>1. CASE pc[g] > Len(Ops[g]) /\ verdict' = [verdict EXCEPT ![g] = "settled"] /\ frame' = frame
    BY <2>1
  <2>2. CASE verdict' = [verdict EXCEPT ![g] = "failed"] /\ frame' = [frame EXCEPT ![g] = << >>]
    BY <2>2
  <2> QED BY <2>1, <2>2 DEF DocumentEnds, Fails
<1> HIDE DEF g
<1>3. PICK v \in {"settled", "failed"} :
        /\ verdict' = [verdict EXCEPT ![g] = v]
        /\ IF v = "settled" THEN pc[g] > Len(Ops[g]) /\ frame' = frame
                            ELSE frame' = [frame EXCEPT ![g] = << >>]
  BY <1>2
<1>4. todo' = [todo EXCEPT ![g] = << >>]
  <2>1. todo \in [Runner -> Seq(Cached)] /\ todo[g] = << >>
    BY <1>1 DEF ShapeInv, Shape, Telling
  <2> QED BY <1>1, <2>1
<1> DEFINE p == "done"
<1>5. p \in {"settling", "done"} /\ p # "settling" /\ phase' = [phase EXCEPT ![g] = p]
  BY <1>1
<1> HIDE DEF p
<1> QED BY <1>1, <1>3, <1>4, <1>5, FinishKeepsShape

\* Everybody is where the template and the phases say.
LEMMA ShapeInvHolds == Spec => []ShapeInv
<1>1. Init => ShapeInv
  BY FreshShape DEF Init, Fresh
<1>2. ShapeInv /\ [Next]_vars => ShapeInv'
  <2> SUFFICES ASSUME ShapeInv, [Next]_vars PROVE ShapeInv'
    OBVIOUS
  <2>1. ASSUME NEW g \in Runner, Step(g) PROVE ShapeInv'
    BY <2>1, StepKeepsShape
  <2>2. ASSUME NEW b \in Await, Settling(b) PROVE ShapeInv'
    BY <2>2, SettlingKeepsShape
  <2>3. CASE DocumentEnds
    BY <2>3, DocumentEndsKeepsShape
  <2>4. CASE RenderAgain
    <3>1. Fresh'
      BY <2>4 DEF RenderAgain, Fresh, ShapeInv, Shape, Started, All
    <3> QED BY <3>1, FreshShape, PTL
  <2>5. CASE setting' = setting /\ UNCHANGED runVars
    <3>1. \A g \in Runner : Same(g)
      BY <2>5 DEF runVars, Same
    <3>2. "document" \in Runner /\ \A g \in Runner : g # "document" => g \in Await
      BY DEF Runner
    <3>3. Shape'
      BY <2>5 DEF runVars, ShapeInv, Shape
    <3>4. \A g \in Runner : Progress(g)' /\ Framed(g)' /\ Telling(g)'
      BY <2>5, <3>1, SameStays DEF ShapeInv
    <3>5. \A b \in Await : Parented(b)'
      BY <2>5 DEF runVars, ShapeInv, Parented, StartedBy, Stuck, Ops, Streaming
    <3>6. \A c \in Cached : Entered(c)'
      BY <2>5 DEF runVars, ShapeInv, Entered, Ops
    <3> QED BY <3>3, <3>4, <3>5, <3>6 DEF ShapeInv
  <2>6. CASE Cancel \/ Finished \/ UNCHANGED vars
    BY <2>5, <2>6 DEF Cancel, Finished, vars, pastVars
  <2> QED BY <2>1, <2>2, <2>3, <2>4, <2>6 DEF Next, Goroutines
<1> QED
  BY <1>1, <1>2, PTL DEF Spec

\* A render only goes on: no instruction is run again, and a verdict is final.
LEMMA Onward ==
  ASSUME ShapeInv, Goroutines \/ DocumentEnds \/ Cancel \/ UNCHANGED vars
  PROVE  /\ setting' = setting
         /\ \A h \in Runner : Goes(h) /\ (verdict[h] # "none" => verdict'[h] = verdict[h])
<1> DEFINE Kept(h) == Goes(h) /\ (verdict[h] # "none" => verdict'[h] = verdict[h])
<1>1. \A h \in Runner : /\ pc[h] \in Nat /\ pc[h] >= pc[h]
                        /\ phase[h] \in {"resolving"} \cup Working => verdict[h] = "none"
  BY DEF ShapeInv, Shape, Progress
<1>2. ASSUME NEW h \in Runner, Same(h) PROVE Kept(h)
  BY <1>1, <1>2 DEF Same, Goes, Stuck
<1>3. ASSUME NEW g \in Runner, Step(g) PROVE setting' = setting /\ \A h \in Runner : Kept(h)
  <2>1. ASSUME setting' = setting, UNCHANGED << groups, verdict, phase >>, phase[g] = "rendering",
               \A h \in Runner : h # g => pc'[h] = pc[h], pc'[g] \in Nat, pc'[g] >= pc[g]
        PROVE  setting' = setting /\ \A h \in Runner : Kept(h)
    BY <1>1, <2>1 DEF Goes, Stuck
  <2>2. CASE EnterHit(g)
    <3> DEFINE c == Node(g)
    <3>1. c \in Cached /\ Stands(Ops, g, pc[g], "enter", c)
      BY <2>2, Instructed DEF EnterHit
    <3>2. PICK i \in DOMAIN Ops[g] : /\ Ops[g][i] = [op |-> "leave", node |-> c]
                                     /\ pc' = [pc EXCEPT ![g] = i + 1]
      BY <2>2 DEF EnterHit
    <3> HIDE DEF c
    <3>3. Stands(Ops, g, i, "leave", c) /\ Ops \in [Runner -> Seq(Instruction)] /\ IsTree(Ops)
      BY <3>2, Rendering DEF Stands, ShapeInv, Shape
    <3>4. pc[g] < i /\ i \in Nat
      BY <3>1, <3>3, AroundSkip, Templates
    <3>5. pc'[g] = i + 1 /\ \A h \in Runner : h # g => pc'[h] = pc[h]
      BY <3>2 DEF ShapeInv, Shape
    <3> QED BY <1>1, <2>1, <2>2, <3>4, <3>5 DEF EnterHit, pastVars, At
  <2>3. CASE EnterMiss(g) \/ Leave(g)
    <3>1. pc' = [pc EXCEPT ![g] = @ + 1]
      BY <2>3 DEF EnterMiss, Leave, Advance
    <3>2. pc'[g] = pc[g] + 1 /\ \A h \in Runner : h # g => pc'[h] = pc[h]
      BY <3>1 DEF ShapeInv, Shape
    <3> QED BY <1>1, <2>1, <2>3, <3>2 DEF EnterMiss, Leave, pastVars, At
  <2>4. CASE Place(g) \/ Register(g)
    <3>1. /\ setting' = setting /\ UNCHANGED << pc, groups, verdict >>
          /\ phase[g] \in {"rendering", "opening"} /\ phase'[g] \in {"rendering", "opening"}
          /\ \A h \in Runner : h # g => phase'[h] = phase[h]
      BY <2>4 DEF Place, Register, pastVars, At, ShapeInv, Shape
    <3> QED BY <1>1, <3>1 DEF Goes, Stuck
  <2>5. CASE Start(g) \/ SettleInPlace(g)
    <3> DEFINE b == Node(g)
    <3>1. b \in Await /\ Stands(Ops, g, pc[g], "await", b) /\ phase[g] \in {"rendering", "opening"}
      <4>1. CASE Start(g)
        <5>1. PICK d \in Await : Stands(Ops, g, pc[g], "await", d)
          BY <4>1 DEF Start, ShapeInv, Progress
        <5> QED BY <4>1, <5>1 DEF Stands, Node, Start
      <4>2. CASE SettleInPlace(g)
        BY <4>2, Instructed DEF SettleInPlace
      <4> QED BY <2>5, <4>1, <4>2
    <3>2. /\ setting' = setting /\ verdict' = verdict
          /\ groups' = [groups EXCEPT ![b] = Groups(g)]
          /\ \/ pc' = [pc EXCEPT ![g] = @ + 1]
             \/ UNCHANGED pc
          /\ \/ phase' = [phase EXCEPT ![g] = "rendering", ![b] = "resolving"]
             \/ phase' = [phase EXCEPT ![g] = "blocked", ![b] = "resolving"]
      BY <2>5 DEF Start, SettleInPlace, Advance, pastVars
    <3> HIDE DEF b
    <3>3. phase[b] = "idle" /\ b # g /\ b \in Runner
      BY <3>1, AwaitedIsIdle
    <3>4. /\ phase'[g] # "idle"
          /\ \A h \in Runner : h # g /\ h # b => phase'[h] = phase[h]
          /\ \A h \in Runner : h # b => groups'[h] = groups[h]
          /\ \A h \in Runner : pc'[h] \in Nat /\ pc'[h] >= pc[h]
      <4>1. \A h \in Runner : pc'[h] = pc[h] \/ pc'[h] = pc[h] + 1
        BY <3>2 DEF ShapeInv, Shape
      <4>2. \A h \in Runner : pc'[h] \in Nat /\ pc'[h] >= pc[h]
        BY <1>1, <4>1
      <4> QED BY <3>2, <3>3, <4>2 DEF ShapeInv, Shape
    <3>5. Kept(g)
      BY <1>1, <3>1, <3>2, <3>3, <3>4 DEF Goes, Stuck
    <3>6. Kept(b)
      BY <1>1, <3>2, <3>3, <3>4 DEF Goes, Stuck
    <3>7. ASSUME NEW h \in Runner, h # g, h # b PROVE Kept(h)
      BY <1>1, <3>2, <3>4, <3>7 DEF Goes, Stuck
    <3> QED BY <3>2, <3>5, <3>6, <3>7
  <2>6. CASE InPlaceReturns(g)
    <3>1. /\ setting' = setting /\ UNCHANGED groups /\ phase[g] = "blocked" /\ phase'[g] # "idle"
          /\ \A h \in Runner : h # g => Same(h)
          /\ \/ pc'[g] = pc[g] + 1
             \/ pc'[g] = pc[g] /\ phase'[g] = "done" /\ verdict'[g] = "failed"
      BY <2>6 DEF InPlaceReturns, Fails, Advance, pastVars, ShapeInv, Shape, Same
    <3>2. Kept(g)
      BY <1>1, <3>1 DEF Goes, Stuck, Working
    <3> QED BY <1>2, <3>1, <3>2
  <2> QED BY <1>3, <2>2, <2>3, <2>4, <2>5, <2>6 DEF Step
<1>4. ASSUME NEW b \in Runner, setting' = setting, UNCHANGED << pc, groups >>,
             phase[b] \in {"resolving", "rendering", "settling"}, phase'[b] # "idle",
             phase[b] = "settling" => verdict'[b] = verdict[b],
             \A h \in Runner : h # b => phase'[h] = phase[h] /\ verdict'[h] = verdict[h]
      PROVE  setting' = setting /\ \A h \in Runner : Kept(h)
  BY <1>1, <1>4 DEF Goes, Stuck, Working
<1>5. ASSUME NEW b \in Await, Settling(b)
      PROVE  setting' = setting /\ \A h \in Runner : Kept(h)
  <2>1. b \in Runner
    BY DEF Runner
  <2>2. /\ setting' = setting /\ UNCHANGED << pc, groups >>
        /\ phase[b] \in {"resolving", "rendering", "settling"} /\ phase'[b] # "idle"
        /\ phase[b] = "settling" => verdict'[b] = verdict[b]
        /\ \A h \in Runner : h # b => phase'[h] = phase[h] /\ verdict'[h] = verdict[h]
    <3>1. Shape
      BY DEF ShapeInv
    <3>2. CASE ResolveOk(b) \/ LeaveQueue(b) \/ Returns(b) \/ Report(b)
      BY <2>1, <3>1, <3>2 DEF ResolveOk, LeaveQueue, Returns, Report, pastVars, Shape
    <3>3. CASE ResolveFails(b)
      BY <2>1, <3>1, <3>3 DEF ResolveFails, Fails, Ends, pastVars, Shape
    <3>4. CASE RenderEnds(b)
      BY <2>1, <3>1, <3>4 DEF RenderEnds, Fails, Ends, pastVars, Shape
    <3> QED BY <1>5, <3>2, <3>3, <3>4 DEF Settling
  <2> QED BY <1>4, <2>1, <2>2
<1>6. CASE DocumentEnds
  <2>1. "document" \in Runner
    BY DEF Runner
  <2>2. /\ setting' = setting /\ UNCHANGED << pc, groups >>
        /\ phase["document"] = "rendering" /\ phase'["document"] # "idle"
        /\ \A h \in Runner : h # "document" => phase'[h] = phase[h] /\ verdict'[h] = verdict[h]
    BY <1>6, <2>1 DEF DocumentEnds, Fails, pastVars, ShapeInv, Shape
  <2> QED BY <1>4, <2>1, <2>2
<1>7. CASE Cancel \/ UNCHANGED vars
  BY <1>2, <1>7 DEF Cancel, vars, runVars, pastVars, Same
<1> QED BY <1>3, <1>5, <1>6, <1>7 DEF Goroutines

-----------------------------------------------------------------------------
(* Identifiers. *)

\* The document's first boundary stands outside every cached component: a component
\* entered before it takes no counter along, and counts from one again.
CountsItself(s) ==
  s.streaming =>
    \A i \in DOMAIN s.ops["document"] : s.ops["document"][i].op = "enter" =>
      \E j \in DOMAIN s.ops["document"] : j < i /\ s.ops["document"][j].op = "await"

\* The boundaries g opens are counted with a counter of g's own, in whatever misses
\* it opens them.
OwnCounters ==
  /\ counter["document"] \in {"nil", "document"}
  /\ counter["document"] = "nil" =>
       /\ phase["document"] # "opening"
       /\ \A i \in DOMAIN Ops["document"] : i < pc["document"] => Ops["document"][i].op # "await"
  /\ \A b \in Await : phase[b] # "idle" => counter[b] = b
  /\ \A g \in Runner : \A c \in ToSet(frame[g]) : counter[c] = g

\* g opened b as its n-th boundary.
Named(b, g, n) ==
  /\ \E j \in DOMAIN Ops[g] : /\ Stands(Ops, g, j, "await", b)
                              /\ j < pc[g] \/ (j = pc[g] /\ phase[g] = "opening")
  /\ id[b] = Append(Prefix(g), n)
  /\ g # "document" => id[g] # << >>

Names ==
  /\ \A b \in Await : phase[b] # "idle" => id[b] # << >>
  /\ \A g \in Runner : phase[g] = "opening" =>
       \A b \in Await : Stands(Ops, g, pc[g], "await", b) => id[b] # << >>
  /\ \A b \in Await : id[b] # << >> => \E g \in Runner : \E n \in 1 .. count[g] : Named(b, g, n)
  /\ UniqueIds

Numbered ==
  /\ counter \in [Runner \cup Cached -> {"nil"} \cup Runner \cup Cached]
  /\ count \in [Runner \cup Cached -> Nat]
  /\ id \in [Await -> Seq(Nat)]
  /\ ~Streaming => \A b \in Await : id[b] = << >>
  /\ Streaming => OwnCounters /\ Names

\* Two identifiers agree when their prefixes and their last numbers do.
LEMMA Appended ==
  ASSUME NEW s \in Seq(Nat), NEW t \in Seq(Nat), NEW m \in Nat, NEW n \in Nat
  PROVE  /\ Append(s, m) \in Seq(Nat) /\ Append(s, m) # << >>
         /\ Append(s, m) = Append(t, n) => s = t /\ m = n
<1>1. /\ Append(s, m) \in Seq(Nat) /\ Append(t, n) \in Seq(Nat)
      /\ Len(s) \in Nat /\ Len(t) \in Nat
      /\ Len(Append(s, m)) = Len(s) + 1 /\ Len(Append(t, n)) = Len(t) + 1
      /\ \A i \in 1 .. Len(s) : Append(s, m)[i] = s[i]
      /\ \A i \in 1 .. Len(t) : Append(t, n)[i] = t[i]
      /\ Append(s, m)[Len(s) + 1] = m /\ Append(t, n)[Len(t) + 1] = n
  OBVIOUS
<1>2. Append(s, m) # << >>
  <2>1. Len(Append(s, m)) # 0
    BY <1>1
  <2>2. \A q : q = << >> => Len(q) = 0
    OBVIOUS
  <2>3. Append(s, m) = << >> => Len(Append(s, m)) = 0
    BY <2>2
  <2> QED BY <2>1, <2>3
<1>3. ASSUME Append(s, m) = Append(t, n) PROVE s = t /\ m = n
  <2>1. Len(s) = Len(t) /\ m = n
    BY <1>1, <1>3
  <2>2. \A i \in 1 .. Len(s) : s[i] = t[i]
    BY <1>1, <1>3, <2>1
  <2> QED BY <2>1, <2>2
<1> QED BY <1>1, <1>2, <1>3

\* g counts with its own counter.
LEMMA OwnCounter ==
  ASSUME ShapeInv, Numbered, Streaming, CountsItself(setting), NEW g \in Runner,
         phase[g] = "rendering"
  PROVE  /\ Renderer(g) \in Runner \cup Cached
         /\ counter[Renderer(g)] \in {g} \/ (Renderer(g) = g /\ counter[g] = "nil" /\ g = "document")
         /\ Renderer(g) \in Runner => Renderer(g) = g
         /\ Renderer(g) \in Cached => Renderer(g) \in ToSet(frame[g])
         /\ frame[g] # << >> \/ At(g, "enter") => counter["document"] # "nil" \/ g # "document"
<1>1. /\ setting \in Setting /\ Ops \in [Runner -> Seq(Instruction)] /\ frame[g] \in Seq(Cached)
      /\ Runner \cap Cached = {} /\ (g # "document" => g \in Await) /\ pc[g] \in Nat
  BY Rendering DEF ShapeInv, Shape
<1> DEFINE Own == /\ Renderer(g) \in Runner \cup Cached
                  /\ counter[Renderer(g)] \in {g} \/ (Renderer(g) = g /\ counter[g] = "nil" /\ g = "document")
                  /\ Renderer(g) \in Runner => Renderer(g) = g
                  /\ Renderer(g) \in Cached => Renderer(g) \in ToSet(frame[g])
<1>2. ASSUME frame[g] = << >> PROVE Own
  <2>1. Renderer(g) = g
    BY <1>2 DEF Renderer
  <2>2. counter[g] \in {g} \/ (counter[g] = "nil" /\ g = "document")
    BY <1>1 DEF Numbered, OwnCounters
  <2>3. g \in Runner /\ g \notin Cached
    BY <1>1
  <2> QED BY <2>1, <2>2, <2>3
<1>3. ASSUME frame[g] # << >> PROVE Own
  <2>1. Renderer(g) = Head(frame[g]) /\ Head(frame[g]) \in Cached /\ Head(frame[g]) \in ToSet(frame[g])
    BY <1>1, <1>3, TailOf DEF Renderer
  <2>2. counter[Head(frame[g])] = g
    BY <2>1 DEF Numbered, OwnCounters
  <2>3. Head(frame[g]) \notin Runner
    BY <1>1, <2>1
  <2> QED BY <2>1, <2>2, <2>3
<1>4. ASSUME frame[g] # << >> \/ At(g, "enter"), g = "document" PROVE counter["document"] # "nil"
  <2>1. \E i \in DOMAIN Ops[g] : i <= pc[g] /\ Ops[g][i].op = "enter"
    <3>1. CASE frame[g] # << >>
      <4>0. Head(frame[g]) \in ToSet(frame[g])
        BY <1>1, <3>1, TailOf
      <4>1. PICK c \in Around(Ops, g, pc[g]) : TRUE
        BY <4>0 DEF ShapeInv, Framed
      <4>2. PICK i \in DOMAIN Ops[g] : i < pc[g] /\ Stands(Ops, g, i, "enter", c)
        BY DEF Around
      <4>3. i \in Nat /\ Ops[g][i].op = "enter"
        BY <1>1, <4>2, Templates
      <4> QED BY <1>1, <4>2, <4>3
    <3>2. CASE At(g, "enter")
      <4>1. Stands(Ops, g, pc[g], "enter", Node(g)) /\ pc[g] \in Nat /\ pc[g] \in DOMAIN Ops[g]
        BY <3>2, Instructed
      <4>2. pc[g] <= pc[g] /\ Ops[g][pc[g]].op = "enter"
        BY <1>1, <4>1, Templates
      <4> QED BY <4>1, <4>2
    <3> QED BY <1>4, <3>1, <3>2
  <2>2. PICK i \in DOMAIN Ops[g] : i <= pc[g] /\ Ops[g][i].op = "enter"
    BY <2>1
  <2>3. PICK j \in DOMAIN Ops[g] : j < i /\ Ops[g][j].op = "await"
    BY <1>4, <2>2 DEF CountsItself, Ops, Streaming
  <2>4. j < pc[g]
    <3>1. i \in Nat /\ j \in Nat
      BY <1>1, <2>2, <2>3, Templates
    <3> QED BY <1>1, <2>2, <2>3, <3>1
  <2> QED BY <1>4, <2>3, <2>4 DEF Numbered, OwnCounters
<1>5. Own
  BY <1>2, <1>3
<1> QED BY <1>4, <1>5

\* What leaves the identifiers alone keeps them.
LEMMA NamesStay ==
  ASSUME ShapeInv, Names, setting' = setting, UNCHANGED << count, id >>,
         \A g \in Runner : /\ pc'[g] \in Nat /\ pc'[g] >= pc[g]
                           /\ phase[g] = "opening" => pc'[g] > pc[g] \/ phase'[g] = "opening"
                           /\ phase'[g] = "opening" => phase[g] = "opening" /\ pc'[g] = pc[g],
         \A b \in Await : phase[b] = "idle" /\ phase'[b] # "idle" => id[b] # << >>
  PROVE  Names'
<1>1. Ops' = Ops /\ Ops \in [Runner -> Seq(Instruction)] /\ \A g \in Runner : pc[g] \in Nat
  BY Rendering DEF ShapeInv, Shape, Ops
<1>2. ASSUME NEW b \in Await, id[b] # << >>
      PROVE  \E g \in Runner : \E n \in 1 .. count[g] : Named(b, g, n)'
  <2>1. PICK g \in Runner : \E n \in 1 .. count[g] : Named(b, g, n)
    BY <1>2 DEF Names
  <2>2. PICK n \in 1 .. count[g] : Named(b, g, n)
    BY <2>1
  <2>3. PICK j \in DOMAIN Ops[g] : /\ Stands(Ops, g, j, "await", b)
                                   /\ j < pc[g] \/ (j = pc[g] /\ phase[g] = "opening")
    BY <2>2 DEF Named
  <2>4. j \in Nat
    BY <1>1, <2>3, Templates
  <2>5. j < pc'[g] \/ (j = pc'[g] /\ phase'[g] = "opening")
    BY <1>1, <2>3, <2>4
  <2>6. Named(b, g, n)'
    BY <1>1, <2>2, <2>3, <2>5 DEF Named, Prefix
  <2> QED BY <2>6
<1>3. \A b \in Await : phase'[b] # "idle" => id'[b] # << >>
  BY DEF Names
<1>4. \A g \in Runner : phase'[g] = "opening" =>
        \A b \in Await : Stands(Ops', g, pc'[g], "await", b) => id'[b] # << >>
  BY <1>1 DEF Names
<1>5. UniqueIds'
  BY DEF Names, UniqueIds
<1> QED BY <1>1, <1>2, <1>3, <1>4, <1>5 DEF Names

\* Place issues an identifier nobody has: the prefix is its opener's, the number new.
LEMMA PlaceNames ==
  ASSUME ShapeInv, Numbered, NEW g \in Runner, Place(g), CountsItself(setting)
  PROVE  Numbered'
<1>a. PICK b : b = Node(g)
  OBVIOUS
<1>b. PICK r : r = Renderer(g)
  OBVIOUS
<1>c. PICK n : n = count[g] + 1
  OBVIOUS
<1>1. /\ Streaming /\ At(g, "await") /\ phase[g] = "rendering" /\ setting' = setting
      /\ UNCHANGED << pc, frame >> /\ phase' = [phase EXCEPT ![g] = "opening"]
  BY DEF Place, pastVars, At
<1>2. /\ b \in Await /\ b \in Runner /\ Stands(Ops, g, pc[g], "await", b)
      /\ pc[g] \in DOMAIN Ops[g] /\ pc[g] \in Nat
  BY <1>a, <1>1, Instructed
<1>3. /\ setting \in Setting /\ Ops \in [Runner -> Seq(Instruction)] /\ IsTree(Ops) /\ Ops' = Ops
      /\ Runner \cap Cached = {} /\ (g # "document" => g \in Await)
      /\ "document" \in Runner /\ "document" \notin Await /\ "nil" \notin Runner
      /\ Await \subseteq Runner /\ Streaming' = Streaming
  <2>1. "nil" \notin Runner
    BY TemplateAssumption
  <2> QED BY <1>1, <2>1, Rendering DEF ShapeInv, Shape, Ops, Streaming
<1>4. /\ counter \in [Runner \cup Cached -> {"nil"} \cup Runner \cup Cached]
      /\ count \in [Runner \cup Cached -> Nat] /\ id \in [Await -> Seq(Nat)]
      /\ OwnCounters /\ Names
  BY <1>1 DEF Numbered
<1>5. /\ r \in Runner \cup Cached
      /\ counter[r] = g \/ (r = g /\ counter[g] = "nil" /\ g = "document")
      /\ r \in Runner => r = g
      /\ r \in Cached => r \in ToSet(frame[g])
      /\ frame[g] # << >> => counter["document"] # "nil" \/ g # "document"
      /\ frame[g] = << >> => r = g
  BY <1>b, <1>1, OwnCounter DEF Renderer
<1>6. /\ counter' = [counter EXCEPT ![r] = g]
      /\ count' = [count EXCEPT ![g] = n]
      /\ id' = [id EXCEPT ![b] = Append(Prefix(g), n)]
  BY <1>a, <1>b, <1>c, <1>3, <1>5 DEF Place
<1>7. phase[b] = "idle" /\ b # g
  BY <1>1, <1>2, AwaitedIsIdle
<1>8. id[b] = << >>
  <2> SUFFICES ASSUME id[b] # << >> PROVE FALSE
    OBVIOUS
  <2>1. PICK h \in Runner : \E m \in 1 .. count[h] : Named(b, h, m)
    BY <1>2, <1>4 DEF Names
  <2>2. PICK j \in DOMAIN Ops[h] : /\ Stands(Ops, h, j, "await", b)
                                   /\ j < pc[h] \/ (j = pc[h] /\ phase[h] = "opening")
    BY <2>1 DEF Named
  <2>3. h = g /\ j = pc[g]
    BY <1>2, <1>3, <2>2, OnePlace
  <2> QED BY <1>1, <1>2, <2>2, <2>3
<1>9. /\ Prefix(g) \in Seq(Nat) /\ n \in Nat /\ (g # "document" => id[g] # << >>)
      /\ count[g] \in Nat /\ Append(Prefix(g), n) \in Seq(Nat) /\ Append(Prefix(g), n) # << >>
  <2>1. Prefix(g) \in Seq(Nat) /\ (g # "document" => id[g] # << >>)
    BY <1>1, <1>3, <1>4 DEF Names, Prefix
  <2>2. n \in Nat /\ count[g] \in Nat
    BY <1>c, <1>4
  <2> QED BY <2>1, <2>2, Appended
<1>10. /\ counter' \in [Runner \cup Cached -> {"nil"} \cup Runner \cup Cached]
       /\ count' \in [Runner \cup Cached -> Nat] /\ id' \in [Await -> Seq(Nat)]
  BY <1>4, <1>6, <1>9
<1>11. OwnCounters'
  <2>1. counter'["document"] \in {"nil", "document"}
    BY <1>3, <1>4, <1>5, <1>6 DEF OwnCounters
  <2>2. counter'["document"] = "nil" =>
          /\ phase'["document"] # "opening"
          /\ \A i \in DOMAIN Ops["document"] : i < pc["document"] => Ops["document"][i].op # "await"
    BY <1>1, <1>3, <1>4, <1>5, <1>6 DEF OwnCounters, ShapeInv, Shape
  <2>3. \A d \in Await : phase'[d] # "idle" => counter'[d] = d
    BY <1>1, <1>3, <1>4, <1>5, <1>6 DEF OwnCounters, ShapeInv, Shape
  <2>4. ASSUME NEW h \in Runner, NEW c \in ToSet(frame[h]) PROVE counter'[c] = h
    <3>1. c \in Around(Ops, h, pc[h]) /\ c \in Cached
      BY DEF ShapeInv, Framed, Around
    <3>2. CASE c = r
      <4>1. c \in Around(Ops, g, pc[g])
        BY <1>5, <3>1, <3>2 DEF ShapeInv, Framed
      <4>2. PICK i \in DOMAIN Ops[g] : Stands(Ops, g, i, "enter", c)
        BY <4>1 DEF Around
      <4>3. PICK k \in DOMAIN Ops[h] : Stands(Ops, h, k, "enter", c)
        BY <3>1 DEF Around
      <4>4. g = h
        BY <1>3, <4>2, <4>3, OnePlace
      <4> QED BY <1>4, <1>5, <1>6, <3>2, <4>4
    <3>3. CASE c # r
      BY <1>4, <1>6, <3>1, <3>3 DEF OwnCounters
    <3> QED BY <3>2, <3>3
  <2> QED BY <1>1, <1>3, <2>1, <2>2, <2>3, <2>4 DEF OwnCounters
<1>12. /\ id'[b] = Append(Prefix(g), n) /\ \A d \in Await : d # b => id'[d] = id[d]
       /\ count'[g] = n /\ \A h \in Runner : h # g => count'[h] = count[h]
       /\ phase'[g] = "opening" /\ \A h \in Runner : h # g => phase'[h] = phase[h]
  BY <1>1, <1>2, <1>4, <1>6 DEF ShapeInv, Shape
<1>13. Named(b, g, n)'
  <2>1. Prefix(g)' = Prefix(g) /\ (g # "document" => id'[g] # << >>)
    BY <1>3, <1>7, <1>9, <1>12 DEF Prefix
  <2>3. PICK j \in DOMAIN Ops[g] : j = pc[g]
    BY <1>2
  <2>4. id'[b] = Append(Prefix(g)', n)
    BY <1>12, <2>1
  <2> QED BY <1>1, <1>2, <1>3, <1>12, <2>1, <2>3, <2>4 DEF Named
<1>14. ASSUME NEW d \in Await, d # b, id[d] # << >>, NEW h \in Runner, NEW m \in 1 .. count[h],
              Named(d, h, m)
       PROVE  /\ Named(d, h, m)' /\ h # b /\ Append(Prefix(h), m) # Append(Prefix(g), n)
              /\ m \in 1 .. count'[h]
  <2>1. h # b
    BY <1>3, <1>8, <1>14, <1>2 DEF Named
  <2>2. Prefix(h)' = Prefix(h) /\ (h # "document" => id'[h] # << >>) /\ Prefix(h) \in Seq(Nat)
    <3>1. h # "document" => h \in Await /\ id[h] # << >>
      BY <1>14 DEF Named, Runner
    <3>2. h # "document" => id'[h] = id[h] /\ id[h] \in Seq(Nat)
      BY <1>4, <1>12, <2>1, <3>1
    <3>3. << >> \in Seq(Nat)
      OBVIOUS
    <3> QED BY <3>1, <3>2, <3>3 DEF Prefix
  <2>3. PICK j \in DOMAIN Ops[h] : /\ Stands(Ops, h, j, "await", d)
                                   /\ j < pc[h] \/ (j = pc[h] /\ phase[h] = "opening")
    BY <1>14 DEF Named
  <2>4. j < pc'[h] \/ (j = pc'[h] /\ phase'[h] = "opening")
    BY <1>1, <1>12, <2>3
  <2>5. id'[d] = Append(Prefix(h)', m)
    BY <1>12, <1>14, <2>2 DEF Named
  <2>6. Named(d, h, m)'
    BY <1>3, <2>2, <2>3, <2>4, <2>5 DEF Named
  <2>7. count[h] \in Nat /\ m \in Nat /\ m <= count[h]
    BY <1>4
  <2>8. m \in 1 .. count'[h]
    <3>1. count'[h] = count[h] \/ (h = g /\ count'[h] = count[h] + 1)
      BY <1>c, <1>12
    <3>2. m <= count'[h] /\ count'[h] \in Nat
      BY <2>7, <3>1
    <3> QED BY <2>7, <3>2
  <2>9. ASSUME Append(Prefix(h), m) = Append(Prefix(g), n) PROVE FALSE
    <3>1. Prefix(h) = Prefix(g) /\ m = n
      BY <1>9, <2>2, <2>7, <2>9, Appended
    <3>2. h # g
      BY <1>c, <1>9, <2>7, <3>1
    <3>3. h \in Await /\ g \in Await /\ id[h] = id[g] /\ id[h] # << >>
      BY <1>9, <1>14, <3>1, <3>2 DEF Prefix, Named, Runner
    <3> QED BY <1>4, <3>2, <3>3 DEF Names, UniqueIds
  <2> QED BY <2>1, <2>6, <2>8, <2>9
<1>15. Names'
  <2>1. \A d \in Await : phase'[d] # "idle" => id'[d] # << >>
    BY <1>1, <1>3, <1>4, <1>9, <1>12 DEF Names
  <2>2. ASSUME NEW h \in Runner, phase'[h] = "opening", NEW d \in Await,
               Stands(Ops', h, pc'[h], "await", d)
        PROVE  id'[d] # << >>
    <3>1. CASE h = g
      <4>1. d = b
        BY <1>1, <1>2, <1>3, <2>2, <3>1 DEF Stands
      <4> QED BY <1>9, <1>12, <4>1
    <3>2. CASE h # g
      <4>1. id[d] # << >>
        BY <1>1, <1>3, <1>4, <1>12, <2>2, <3>2 DEF Names
      <4> QED BY <1>9, <1>12, <4>1
    <3> QED BY <3>1, <3>2
  <2>3. ASSUME NEW d \in Await, id'[d] # << >>
        PROVE  \E h \in Runner : \E m \in 1 .. count'[h] : Named(d, h, m)'
    <3>1. CASE d = b
      <4>1. n \in 1 .. count'[g]
        BY <1>c, <1>9, <1>12
      <4> QED BY <1>13, <3>1, <4>1
    <3>2. CASE d # b
      <4>1. PICK h \in Runner : \E m \in 1 .. count[h] : Named(d, h, m)
        BY <1>4, <1>12, <2>3, <3>2 DEF Names
      <4> QED BY <1>12, <1>14, <2>3, <3>2, <4>1
    <3> QED BY <3>1, <3>2
  <2>4. UniqueIds'
    <3>1. ASSUME NEW d \in Await, d # b PROVE id'[d] # id'[b]
      <4>1. CASE id[d] = << >>
        BY <1>9, <1>12, <3>1, <4>1
      <4>2. CASE id[d] # << >>
        <5>1. PICK h \in Runner : \E m \in 1 .. count[h] : Named(d, h, m)
          BY <1>4, <4>2 DEF Names
        <5>2. PICK m \in 1 .. count[h] : Named(d, h, m)
          BY <5>1
        <5>3. id[d] = Append(Prefix(h), m)
          BY <5>2 DEF Named
        <5> QED BY <1>12, <1>14, <3>1, <4>2, <5>2, <5>3
      <4> QED BY <4>1, <4>2
    <3>2. ASSUME NEW a \in Await, NEW d \in Await, id'[a] # << >>, id'[a] = id'[d] PROVE a = d
      <4>1. CASE a = b \/ d = b
        BY <3>1, <3>2, <4>1
      <4>2. CASE a # b /\ d # b
        BY <1>4, <1>12, <3>2, <4>2 DEF Names, UniqueIds
      <4> QED BY <4>1, <4>2
    <3> QED BY <3>2 DEF UniqueIds
  <2> QED BY <2>1, <2>2, <2>3, <2>4 DEF Names
<1> QED BY <1>1, <1>3, <1>10, <1>11, <1>15 DEF Numbered

\* A step that numbers nothing and starts no boundary.
LEMMA NumberedStays ==
  ASSUME ShapeInv, Numbered, setting' = setting, UNCHANGED idVars,
         Streaming =>
           /\ \A g \in Runner :
                /\ pc'[g] \in Nat /\ pc'[g] >= pc[g]
                /\ phase[g] = "opening" => phase'[g] = "opening"
                /\ phase'[g] = "opening" => phase[g] = "opening" /\ pc'[g] = pc[g]
                /\ phase[g] = "idle" => phase'[g] = "idle"
                /\ ToSet(frame'[g]) \subseteq ToSet(frame[g])
           /\ counter["document"] = "nil" => pc'["document"] = pc["document"]
  PROVE  Numbered'
<1>1. UNCHANGED << counter, count, id >> /\ Streaming' = Streaming /\ Ops' = Ops
  BY DEF idVars, Streaming, Ops
<1>2. /\ counter' \in [Runner \cup Cached -> {"nil"} \cup Runner \cup Cached]
      /\ count' \in [Runner \cup Cached -> Nat] /\ id' \in [Await -> Seq(Nat)]
      /\ ~Streaming' => \A b \in Await : id'[b] = << >>
  BY <1>1 DEF Numbered
<1>3. ASSUME Streaming PROVE OwnCounters' /\ Names'
  <2>1. OwnCounters /\ Names /\ "document" \in Runner /\ Await \subseteq Runner
    BY <1>3 DEF Numbered, Runner
  <2>2. OwnCounters'
    BY <1>1, <1>3, <2>1 DEF OwnCounters
  <2>3. Names'
    BY <1>1, <1>3, <2>1, NamesStay
  <2> QED BY <2>2, <2>3
<1> QED BY <1>1, <1>2, <1>3 DEF Numbered

\* EnterMiss keeps Numbered.
LEMMA EnterMissNumbers ==
  ASSUME ShapeInv, Numbered, NEW g \in Runner, EnterMiss(g), CountsItself(setting)
  PROVE  Numbered'
<1>a. PICK c : c = Node(g)
  OBVIOUS
<1>1. /\ setting' = setting /\ UNCHANGED << phase, count, id >> /\ At(g, "enter") /\ phase[g] = "rendering"
      /\ pc' = [pc EXCEPT ![g] = @ + 1] /\ frame' = [frame EXCEPT ![g] = << c >> \o @]
      /\ counter' = [counter EXCEPT ![c] = counter[Renderer(g)]]
  BY <1>a DEF EnterMiss, Advance, pastVars, At
<1>2. c \in Cached /\ Stands(Ops, g, pc[g], "enter", c) /\ pc[g] \in Nat
  BY <1>a, <1>1, Instructed
<1>3. /\ setting \in Setting /\ Ops \in [Runner -> Seq(Instruction)] /\ IsTree(Ops)
      /\ Runner \cap Cached = {} /\ "document" \in Runner /\ Await \subseteq Runner
      /\ frame[g] \in Seq(Cached)
  BY Rendering DEF ShapeInv, Shape
<1>4. Ops' = Ops /\ Streaming' = Streaming
  BY <1>1 DEF Ops, Streaming
<1>5. /\ counter \in [Runner \cup Cached -> {"nil"} \cup Runner \cup Cached]
      /\ count \in [Runner \cup Cached -> Nat] /\ id \in [Await -> Seq(Nat)]
      /\ ~Streaming => \A b \in Await : id[b] = << >>
  BY DEF Numbered
<1>6. Renderer(g) \in Runner \cup Cached
  BY <1>3, TailOf DEF Renderer
<1>7. counter' \in [Runner \cup Cached -> {"nil"} \cup Runner \cup Cached]
  BY <1>1, <1>2, <1>5, <1>6
<1>8. ASSUME Streaming PROVE OwnCounters' /\ Names'
  <2>1. OwnCounters /\ Names
    BY <1>8 DEF Numbered
  <2>2. counter[Renderer(g)] = g /\ (g = "document" => counter["document"] # "nil")
    BY <1>1, <1>8, OwnCounter
  <2>3. counter'[c] = g /\ \A x \in Runner \cup Cached : x # c => counter'[x] = counter[x]
    BY <1>1, <1>2, <1>5, <2>2
  <2>4. /\ pc'[g] = pc[g] + 1 /\ frame'[g] = << c >> \o frame[g]
        /\ \A h \in Runner : h # g => pc'[h] = pc[h] /\ frame'[h] = frame[h]
        /\ \A h \in Runner : pc[h] \in Nat
    BY <1>1 DEF ShapeInv, Shape
  <2>5. ASSUME NEW h \in Runner, NEW d \in ToSet(frame'[h]) PROVE counter'[d] = h
    <3>1. CASE h = g /\ d = c
      BY <2>3, <3>1
    <3>2. CASE ~(h = g /\ d = c)
      <4>1. d \in ToSet(frame[h])
        <5>1. CASE h = g
          <6>1. ToSet(frame'[g]) = {c} \cup ToSet(frame[g])
            <7>1. frame[g] \in Seq(Cached) /\ c \in Cached
              BY <1>2, <1>3
            <7> QED BY <2>4, <7>1, Pushed
          <6>2. d \in ToSet(frame'[g])
            BY <2>5, <5>1
          <6> QED BY <3>2, <5>1, <6>1, <6>2
        <5>2. CASE h # g
          BY <2>4, <2>5, <5>2
        <5> QED BY <5>1, <5>2
      <4>2. d \in Around(Ops, h, pc[h]) /\ d \in Cached
        BY <4>1 DEF ShapeInv, Framed, Around
      <4>3. d # c
        <5> SUFFICES ASSUME d = c PROVE FALSE
          OBVIOUS
        <5>1. PICK i \in DOMAIN Ops[h] : i < pc[h] /\ Stands(Ops, h, i, "enter", c)
          BY <4>2 DEF Around
        <5>2. h = g /\ i = pc[g]
          BY <1>2, <1>3, <5>1, OnePlace
        <5> QED BY <1>2, <5>1, <5>2
      <4>4. counter[d] = h
        BY <2>1, <4>1 DEF OwnCounters
      <4> QED BY <2>3, <4>2, <4>3, <4>4
    <3> QED BY <3>1, <3>2
  <2>6. counter'["document"] = counter["document"] /\ \A b \in Await : counter'[b] = counter[b]
    BY <1>2, <1>3, <2>3
  <2>7. counter["document"] = "nil" => pc'["document"] = pc["document"]
    BY <1>3, <2>2, <2>4
  <2>8. OwnCounters'
    BY <1>1, <1>4, <2>1, <2>5, <2>6, <2>7 DEF OwnCounters
  <2>9. \A h \in Runner : /\ pc'[h] \in Nat /\ pc'[h] >= pc[h]
                          /\ phase[h] = "opening" => pc'[h] > pc[h] \/ phase'[h] = "opening"
                          /\ phase'[h] = "opening" => phase[h] = "opening" /\ pc'[h] = pc[h]
    BY <1>1, <1>2, <2>4
  <2>10. Names'
    BY <1>1, <2>1, <2>9, NamesStay
  <2> QED BY <2>8, <2>10
<1> QED BY <1>1, <1>4, <1>5, <1>7, <1>8 DEF Numbered

\* Start keeps Numbered.
LEMMA StartNumbers ==
  ASSUME ShapeInv, Numbered, NEW g \in Runner, Start(g)
  PROVE  Numbered'
<1>1. PICK b \in Await : Stands(Ops, g, pc[g], "await", b)
  BY DEF Start, ShapeInv, Progress
<1>2. /\ Node(g) = b /\ phase[g] = "opening" /\ b \in Runner /\ Streaming
      /\ setting \in Setting /\ pc[g] \in Nat
  BY <1>1 DEF Stands, Node, Start, ShapeInv, Shape, Progress, Runner
<1>3. /\ setting' = setting /\ UNCHANGED << frame, count, id >>
      /\ phase' = [phase EXCEPT ![g] = "rendering", ![b] = "resolving"]
      /\ pc' = [pc EXCEPT ![g] = @ + 1] /\ counter' = [counter EXCEPT ![b] = b]
  BY <1>2 DEF Start, Advance, pastVars
<1>4. phase[b] = "idle" /\ b # g
  BY <1>1, <1>2, AwaitedIsIdle
<1>5. /\ "document" \in Runner /\ "document" \notin Await /\ Await \subseteq Runner
      /\ Runner \cap Cached = {} /\ Ops' = Ops /\ Streaming' = Streaming
  BY <1>2, <1>3, Rendering DEF Ops, Streaming
<1>6. /\ counter \in [Runner \cup Cached -> {"nil"} \cup Runner \cup Cached]
      /\ count \in [Runner \cup Cached -> Nat] /\ id \in [Await -> Seq(Nat)]
      /\ OwnCounters /\ Names
  BY <1>2 DEF Numbered
<1>7. /\ counter' \in [Runner \cup Cached -> {"nil"} \cup Runner \cup Cached]
      /\ counter'[b] = b /\ \A x \in Runner \cup Cached : x # b => counter'[x] = counter[x]
  BY <1>2, <1>3, <1>6
<1>8. /\ phase'[g] = "rendering" /\ phase'[b] = "resolving"
      /\ \A h \in Runner : h # g /\ h # b => phase'[h] = phase[h]
      /\ pc'[g] = pc[g] + 1 /\ \A h \in Runner : h # g => pc'[h] = pc[h]
      /\ \A h \in Runner : pc[h] \in Nat
  BY <1>2, <1>3, <1>4 DEF ShapeInv, Shape
<1>9. OwnCounters'
  <2>1. counter'["document"] = counter["document"] /\ b # "document"
    BY <1>5, <1>7
  <2>2. counter["document"] = "nil" => g # "document"
    BY <1>2, <1>6 DEF OwnCounters
  <2>3. \A d \in Await : phase'[d] # "idle" => counter'[d] = d
    <3> SUFFICES ASSUME NEW d \in Await, phase'[d] # "idle" PROVE counter'[d] = d
      OBVIOUS
    <3>1. \A x \in Await : phase[x] # "idle" => counter[x] = x
      BY <1>6 DEF OwnCounters
    <3>2. d = b \/ phase[d] # "idle"
      BY <1>2, <1>5, <1>8
    <3>3. counter'[b] = b /\ (d # b => counter'[d] = counter[d])
      BY <1>5, <1>7
    <3> QED BY <3>1, <3>2, <3>3
  <2>4. ASSUME NEW h \in Runner, NEW c \in ToSet(frame[h]) PROVE counter'[c] = h
    <3>1. c \in Cached
      BY DEF ShapeInv, Framed, Around
    <3> QED BY <1>5, <1>6, <1>7, <3>1, <1>2 DEF OwnCounters
  <2> QED BY <1>3, <1>5, <1>6, <1>8, <2>1, <2>2, <2>3, <2>4 DEF OwnCounters
<1>10. \A h \in Runner : /\ pc'[h] \in Nat /\ pc'[h] >= pc[h]
                         /\ phase[h] = "opening" => pc'[h] > pc[h] \/ phase'[h] = "opening"
                         /\ phase'[h] = "opening" => phase[h] = "opening" /\ pc'[h] = pc[h]
  <2> TAKE h \in Runner
  <2>1. CASE h = g
    BY <1>2, <1>8, <2>1
  <2>2. CASE h = b
    BY <1>2, <1>4, <1>8, <2>2
  <2>3. CASE h # g /\ h # b
    BY <1>8, <2>3
  <2> QED BY <2>1, <2>2, <2>3
<1>11. \A d \in Await : phase[d] = "idle" /\ phase'[d] # "idle" => id[d] # << >>
  BY <1>1, <1>2, <1>5, <1>6, <1>8 DEF Names
<1>12. Names'
  BY <1>3, <1>6, <1>10, <1>11, NamesStay
<1> QED BY <1>2, <1>3, <1>5, <1>6, <1>7, <1>9, <1>12 DEF Numbered

\* The steps of a renderer keep Numbered.
LEMMA StepNumbers ==
  ASSUME ShapeInv, Numbered, NEW g \in Runner, Step(g), CountsItself(setting)
  PROVE  Numbered'
<1>0. /\ setting' = setting /\ \A h \in Runner : pc[h] \in Nat /\ pc'[h] \in Nat /\ pc'[h] >= pc[h]
      /\ Shape
  <2>1. Goroutines
    BY DEF Goroutines
  <2> QED BY <2>1, Onward DEF Goes, ShapeInv, Shape
<1>1. CASE EnterHit(g)
  <2>1. /\ UNCHANGED << idVars, phase, frame >> /\ phase[g] = "rendering" /\ At(g, "enter")
        /\ \A h \in Runner : h # g => pc'[h] = pc[h]
    BY <1>0, <1>1 DEF EnterHit, At, Shape
  <2>2. Streaming /\ g = "document" => counter["document"] # "nil"
    BY <2>1, OwnCounter
  <2>3. "document" \in Runner
    BY DEF Runner
  <2> QED BY <1>0, <2>1, <2>2, <2>3, NumberedStays
<1>2. CASE EnterMiss(g)
  BY <1>2, EnterMissNumbers
<1>3. CASE Leave(g)
  <2>1. /\ UNCHANGED << idVars, phase >> /\ phase[g] = "rendering"
        /\ frame' = [frame EXCEPT ![g] = Tail(@)]
        /\ \A h \in Runner : h # g => pc'[h] = pc[h]
    BY <1>0, <1>3 DEF Leave, At, Advance, Shape
  <2>2. frame[g] # << >> /\ frame[g] \in Seq(Cached)
    BY <1>3, LeavesTheInnermost DEF Leave
  <2>3. Streaming /\ g = "document" => counter["document"] # "nil"
    BY <2>1, <2>2, OwnCounter
  <2>4. \A h \in Runner : ToSet(frame'[h]) \subseteq ToSet(frame[h])
    <3>1. frame'[g] = Tail(frame[g]) /\ \A h \in Runner : h # g => frame'[h] = frame[h]
      BY <1>0, <2>1 DEF Shape
    <3>2. ToSet(frame'[g]) \subseteq ToSet(frame[g])
      BY <2>2, <3>1, TailOf
    <3> QED BY <3>1, <3>2
  <2>5. "document" \in Runner
    BY DEF Runner
  <2> QED BY <1>0, <2>1, <2>3, <2>4, <2>5, NumberedStays
<1>4. CASE Place(g)
  BY <1>4, PlaceNames
<1>5. CASE Register(g)
  <2>1. UNCHANGED << idVars, phase, pc, frame >>
    BY <1>5 DEF Register
  <2> QED BY <1>0, <2>1, NumberedStays
<1>6. CASE Start(g)
  BY <1>6, StartNumbers
<1>7. CASE SettleInPlace(g)
  BY <1>0, <1>7, NumberedStays DEF SettleInPlace
<1>8. CASE InPlaceReturns(g)
  <2>1. ~Streaming /\ UNCHANGED idVars
    BY <1>8 DEF InPlaceReturns, ShapeInv, Progress
  <2> QED BY <1>0, <2>1, NumberedStays
<1> QED BY <1>1, <1>2, <1>3, <1>4, <1>5, <1>6, <1>7, <1>8 DEF Step

\* A goroutine goes from one phase to the next.
LEMMA TurningNumbers ==
  ASSUME ShapeInv, Numbered, NEW b \in Runner,
         phase[b] \in {"resolving", "rendering", "settling"},
         setting' = setting, UNCHANGED << pc, idVars >>,
         phase'[b] \in {"rendering", "settling", "done"},
         \A h \in Runner : h # b => phase'[h] = phase[h],
         \A h \in Runner : frame'[h] = frame[h] \/ frame'[h] = << >>
  PROVE  Numbered'
<1>1. \A h \in Runner : pc[h] \in Nat /\ pc[h] >= pc[h]
  BY DEF ShapeInv, Shape
<1>2. \A h \in Runner : ToSet(frame'[h]) \subseteq ToSet(frame[h])
  BY EmptyChain
<1> QED BY <1>1, <1>2, NumberedStays

\* The steps of a boundary keep Numbered.
LEMMA SettlingNumbers ==
  ASSUME ShapeInv, Numbered, NEW b \in Await, Settling(b)
  PROVE  Numbered'
<1>1. b \in Runner /\ Shape
  BY DEF Runner, ShapeInv
<1>2. CASE ResolveOk(b) \/ LeaveQueue(b) \/ Returns(b) \/ Report(b)
  <2>1. /\ setting' = setting /\ UNCHANGED << pc, idVars, frame >>
        /\ phase[b] \in {"resolving", "rendering", "settling"}
        /\ phase'[b] \in {"rendering", "settling", "done"}
        /\ \A h \in Runner : h # b => phase'[h] = phase[h]
    BY <1>1, <1>2 DEF ResolveOk, LeaveQueue, Returns, Report, pastVars, Shape
  <2> QED BY <1>1, <2>1, TurningNumbers
<1>3. CASE ResolveFails(b) \/ RenderEnds(b)
  <2>1. /\ setting' = setting /\ UNCHANGED << pc, idVars >>
        /\ phase[b] \in {"resolving", "rendering", "settling"}
        /\ phase'[b] \in {"rendering", "settling", "done"}
        /\ \A h \in Runner : h # b => phase'[h] = phase[h]
    BY <1>1, <1>3 DEF ResolveFails, RenderEnds, Ends, pastVars, Shape
  <2>2. frame' = frame \/ frame' = [frame EXCEPT ![b] = << >>]
    BY <1>3 DEF ResolveFails, RenderEnds, Fails
  <2>3. \A h \in Runner : frame'[h] = frame[h] \/ frame'[h] = << >>
    BY <1>1, <2>2 DEF Shape
  <2> QED BY <1>1, <2>1, <2>3, TurningNumbers
<1> QED BY <1>2, <1>3 DEF Settling

\* DocumentEnds keeps Numbered.
LEMMA DocumentEndsNumbers ==
  ASSUME ShapeInv, Numbered, DocumentEnds
  PROVE  Numbered'
<1>1. "document" \in Runner /\ Shape
  BY DEF Runner, ShapeInv
<1>2. /\ setting' = setting /\ UNCHANGED << pc, idVars >> /\ phase["document"] = "rendering"
      /\ phase'["document"] = "done" /\ \A h \in Runner : h # "document" => phase'[h] = phase[h]
  BY <1>1 DEF DocumentEnds, pastVars, Shape
<1>3. frame' = frame \/ frame' = [frame EXCEPT !["document"] = << >>]
  BY DEF DocumentEnds, Fails
<1>4. \A h \in Runner : frame'[h] = frame[h] \/ frame'[h] = << >>
  BY <1>1, <1>3 DEF Shape
<1> QED BY <1>1, <1>2, <1>4, TurningNumbers

\* A fresh render is Numbered.
LEMMA FreshNumbers ==
  ASSUME Fresh, counter = All(Runner \cup Cached, "nil"),
         count = All(Runner \cup Cached, 0), id = All(Await, << >>)
  PROVE  Numbered
<1>1. /\ setting \in Setting /\ Ops \in [Runner -> Seq(Instruction)]
      /\ "document" \in Runner /\ "document" \notin Await /\ Await \subseteq Runner
  BY Rendering DEF Fresh
<1>2. \A g \in Runner : /\ phase[g] = IF g = "document" THEN "rendering" ELSE "idle"
                        /\ pc[g] = 1 /\ frame[g] = << >>
  BY DEF Fresh, Started, All
<1>3. /\ \A x \in Runner \cup Cached : counter[x] = "nil"
      /\ \A b \in Await : id[b] = << >>
      /\ counter \in [Runner \cup Cached -> {"nil"} \cup Runner \cup Cached]
      /\ count \in [Runner \cup Cached -> Nat] /\ id \in [Await -> Seq(Nat)]
  BY DEF All
<1>4. OwnCounters
  <2>1. \A i \in DOMAIN Ops["document"] : ~(i < 1)
    BY <1>1, Templates
  <2> QED BY <1>1, <1>2, <1>3, <2>1, EmptyChain DEF OwnCounters
<1>5. Names
  BY <1>1, <1>2, <1>3 DEF Names, UniqueIds
<1> QED BY <1>3, <1>4, <1>5 DEF Numbered

\* Every identifier tells who opened the boundary, and as its how many.
LEMMA NumberedHolds ==
  ASSUME \A s \in Setting : CountsItself(s)
  PROVE  Spec => []Numbered
<1>1. Init => Numbered
  BY FreshNumbers DEF Init, Fresh
<1>2. ShapeInv /\ Numbered /\ [Next]_vars => Numbered'
  <2> SUFFICES ASSUME ShapeInv, Numbered, [Next]_vars PROVE Numbered'
    OBVIOUS
  <2>0. CountsItself(setting)
    BY DEF ShapeInv, Shape
  <2>1. ASSUME NEW g \in Runner, Step(g) PROVE Numbered'
    BY <2>0, <2>1, StepNumbers
  <2>2. ASSUME NEW b \in Await, Settling(b) PROVE Numbered'
    BY <2>2, SettlingNumbers
  <2>3. CASE DocumentEnds
    BY <2>3, DocumentEndsNumbers
  <2>4. CASE RenderAgain
    <3>1. (/\ Fresh /\ counter = All(Runner \cup Cached, "nil")
           /\ count = All(Runner \cup Cached, 0) /\ id = All(Await, << >>))'
      BY <2>4 DEF RenderAgain, Fresh, All, Started, ShapeInv, Shape
    <3> QED BY <3>1, FreshNumbers, PTL
  <2>5. CASE Cancel \/ Finished \/ UNCHANGED vars
    <3>1. UNCHANGED << setting, pc, frame, phase, idVars >>
      BY <2>5 DEF Cancel, Finished, vars, runVars, pastVars
    <3>2. \A h \in Runner : pc[h] \in Nat /\ pc[h] >= pc[h]
      BY DEF ShapeInv, Shape
    <3> QED BY <3>1, <3>2, NumberedStays
  <2> QED BY <2>1, <2>2, <2>3, <2>4, <2>5 DEF Next, Goroutines
<1> QED BY <1>1, <1>2, ShapeInvHolds, PTL DEF Spec

\* cachegroup.go, parent: "The fence ids are unique across the render". They are, where
\* the document's first boundary stands outside every cached component.
THEOREM IdentifiersAreUnique ==
  ASSUME \A s \in Setting : CountsItself(s)
  PROVE  Spec => []UniqueIds
<1>1. ShapeInv /\ Numbered => UniqueIds
  <2> SUFFICES ASSUME ShapeInv, Numbered PROVE UniqueIds
    OBVIOUS
  <2> QED BY Rendering DEF Numbered, Names, UniqueIds, ShapeInv, Shape
<1> QED BY <1>1, ShapeInvHolds, NumberedHolds, PTL

-----------------------------------------------------------------------------
(* Pending counts. *)

\* b has registered with c and not reported to it.
Owes(b, c) ==
  IF phase[b] = "idle"
  THEN \E g \in Runner : /\ phase[g] = "opening" /\ Stands(Ops, g, pc[g], "await", b)
                         /\ c \in Chain(g) \ ToSet(todo[g])
  ELSE c \in ToSet(groups[b]) /\ (verdict[b] = "none" \/ c \in ToSet(todo[b]))

Debtors(c) == { b \in Await : Owes(b, c) }

CountInv ==
  /\ pending \in [Cached -> Nat]
  /\ \A c \in Cached : pending[c] = IF Streaming THEN Cardinality(Debtors(c)) ELSE 0

\* Cardinality counts the debtors, which are boundaries.
LEMMA DebtorsFinite ==
  ASSUME NEW c
  PROVE  IsFiniteSet(Debtors(c)) /\ Cardinality(Debtors(c)) \in Nat
<1>1. Debtors(c) \subseteq Await /\ IsFiniteSet(Await)
  BY TemplateAssumption DEF Debtors
<1> QED BY <1>1, FS_Subset, FS_CardinalityType

\* Nobody registers or reports.
LEMMA CountStays ==
  ASSUME CountInv, setting' = setting, UNCHANGED pending,
         Streaming => \A b \in Await, c \in Cached : Owes(b, c)' <=> Owes(b, c)
  PROVE  CountInv'
<1>1. Streaming' = Streaming
  BY DEF Streaming
<1>2. ASSUME NEW c \in Cached, Streaming PROVE Debtors(c)' = Debtors(c)
  <2> HIDE DEF Owes
  <2> QED BY <1>2 DEF Debtors
<1>3. ASSUME NEW c \in Cached
      PROVE  pending'[c] = IF Streaming' THEN Cardinality(Debtors(c)') ELSE 0
  BY <1>1, <1>2, <1>3 DEF CountInv
<1> QED BY <1>3 DEF CountInv

\* One of them registers with d, or reports to it.
LEMMA CountMoves ==
  ASSUME CountInv, setting' = setting, Streaming, NEW a \in Await, NEW d \in Cached,
         \A b \in Await, c \in Cached : ~(b = a /\ c = d) => (Owes(b, c)' <=> Owes(b, c)),
         \/ /\ ~Owes(a, d) /\ Owes(a, d)'
            /\ pending' = [pending EXCEPT ![d] = @ + 1]
         \/ /\ Owes(a, d) /\ ~Owes(a, d)'
            /\ pending' = [pending EXCEPT ![d] = @ - 1]
  PROVE  CountInv'
<1>1. Streaming' = Streaming
  BY DEF Streaming
<1>2. \A c \in Cached : c # d => Debtors(c)' = Debtors(c)
  BY DEF Debtors
<1>3. \A c \in Cached : pending[c] = Cardinality(Debtors(c)) /\ pending[c] \in Nat
  BY DEF CountInv
<1>4. IsFiniteSet(Debtors(d)) /\ Cardinality(Debtors(d)) \in Nat
  BY DebtorsFinite
<1>5. pending'[d] = Cardinality(Debtors(d)') /\ pending'[d] \in Nat
  <2>1. CASE ~Owes(a, d) /\ Owes(a, d)' /\ pending' = [pending EXCEPT ![d] = @ + 1]
    <3>1. Debtors(d)' = Debtors(d) \cup {a} /\ a \notin Debtors(d)
      BY <2>1 DEF Debtors
    <3>2. Cardinality(Debtors(d)') = Cardinality(Debtors(d)) + 1
      BY <1>4, <3>1, FS_AddElement
    <3>3. pending'[d] = pending[d] + 1
      BY <2>1 DEF CountInv
    <3> QED BY <1>3, <3>2, <3>3
  <2>2. CASE Owes(a, d) /\ ~Owes(a, d)' /\ pending' = [pending EXCEPT ![d] = @ - 1]
    <3>1. Debtors(d)' = Debtors(d) \ {a} /\ a \in Debtors(d)
      BY <2>2 DEF Debtors
    <3>2. Cardinality(Debtors(d)') = Cardinality(Debtors(d)) - 1
      BY <1>4, <3>1, FS_RemoveElement
    <3>3. pending'[d] = pending[d] - 1
      BY <2>2 DEF CountInv
    <3>4. Cardinality(Debtors(d)) # 0
      BY <1>4, <3>1, FS_EmptySet
    <3> QED BY <1>3, <1>4, <3>2, <3>3, <3>4
  <2> QED BY <2>1, <2>2
<1>6. \A c \in Cached : c # d => pending'[c] = pending[c]
  BY DEF CountInv
<1>7. pending' \in [Cached -> Nat]
  <2>1. /\ pending \in [Cached -> Nat]
        /\ \E x : pending' = [pending EXCEPT ![d] = x]
    BY DEF CountInv
  <2> QED BY <1>5, <2>1
<1>8. ASSUME NEW c \in Cached
      PROVE  pending'[c] = IF Streaming' THEN Cardinality(Debtors(c)') ELSE 0
  <2>1. CASE c = d
    BY <1>1, <1>5, <2>1
  <2>2. CASE c # d
    <3>1. Debtors(c)' = Debtors(c)
      BY <1>2, <2>2
    <3> QED BY <1>1, <1>3, <1>6, <2>2, <3>1
  <2> QED BY <2>1, <2>2
<1> QED BY <1>7, <1>8 DEF CountInv

\* Whoever opens a boundary goes on doing so, and whoever told a group has told it.
LEMMA OwesStays ==
  ASSUME ShapeInv, setting' = setting,
         \A g \in Runner :
           /\ phase[g] = "opening" <=> phase'[g] = "opening"
           /\ phase[g] = "idle" <=> phase'[g] = "idle"
           /\ phase[g] = "opening" => pc'[g] = pc[g] /\ frame'[g] = frame[g] /\ todo'[g] = todo[g]
           /\ groups'[g] = groups[g],
         \A b \in Await : /\ verdict'[b] = verdict[b]
                          /\ verdict[b] = "none" \/ todo'[b] = todo[b],
         NEW b \in Await, NEW c \in Cached
  PROVE  Owes(b, c)' <=> Owes(b, c)
<1>1. Ops' = Ops /\ b \in Runner
  BY DEF Ops, Runner
<1>2. CASE phase[b] = "idle"
  BY <1>1, <1>2 DEF Owes, Chain
<1>3. CASE phase[b] # "idle"
  BY <1>1, <1>3 DEF Owes
<1> QED BY <1>2, <1>3

\* Place keeps CountInv.
LEMMA PlaceCounts ==
  ASSUME ShapeInv, CountInv, NEW g \in Runner, Place(g)
  PROVE  CountInv'
<1>a. PICK a : a = Node(g)
  OBVIOUS
<1>1. /\ setting' = setting /\ UNCHANGED << pc, frame, groups, verdict, pending >>
      /\ phase[g] = "rendering" /\ At(g, "await")
      /\ phase' = [phase EXCEPT ![g] = "opening"]
      /\ todo' = [todo EXCEPT ![g] = Groups(g)]
  BY DEF Place, pastVars, groupVars, At
<1>2. /\ a \in Await /\ Stands(Ops, g, pc[g], "await", a) /\ Ops' = Ops
      /\ IsTree(Ops) /\ Await \subseteq Runner /\ verdict[g] = "none"
  BY <1>a, <1>1, Instructed, Rendering DEF ShapeInv, Shape, Ops, Progress, Working
<1>3. phase[a] = "idle" /\ a # g /\ a \in Runner
  BY <1>1, <1>2, AwaitedIsIdle
<1>4. /\ phase'[g] = "opening" /\ todo'[g] = Groups(g) /\ ToSet(Groups(g)) = Chain(g)
      /\ \A h \in Runner : h # g => phase'[h] = phase[h] /\ todo'[h] = todo[h]
  BY <1>1, ChainOf DEF ShapeInv, Shape
<1>5. ASSUME NEW b \in Await, NEW c \in Cached PROVE Owes(b, c)' <=> Owes(b, c)
  <2>0. b \in Runner
    BY <1>2
  <2>1. CASE phase[b] = "idle"
    <3>0. b # g /\ phase'[b] = "idle"
      BY <1>1, <1>4, <2>0, <2>1
    <3>1. ~(c \in Chain(g)' \ ToSet(todo'[g]))
      BY <1>1, <1>4 DEF Chain
    <3>2. \A h \in Runner : h # g => /\ Chain(h)' = Chain(h)
                                     /\ todo'[h] = todo[h] /\ phase'[h] = phase[h]
      BY <1>1, <1>4 DEF Chain
    <3> QED BY <1>1, <1>2, <2>1, <3>0, <3>1, <3>2 DEF Owes
  <2>2. CASE phase[b] # "idle"
    <3>1. phase'[b] # "idle"
      BY <1>4, <2>0, <2>2
    <3>2. verdict[b] = "none" \/ todo'[b] = todo[b]
      BY <1>2, <1>4, <2>0
    <3> QED BY <1>1, <2>2, <3>1, <3>2 DEF Owes
  <2> QED BY <2>1, <2>2
<1> QED BY <1>1, <1>5, CountStays

\* Register keeps CountInv.
LEMMA RegisterCounts ==
  ASSUME ShapeInv, CountInv, NEW g \in Runner, Register(g)
  PROVE  CountInv'
<1>a. PICK d : d = Head(todo[g])
  OBVIOUS
<1>1. /\ setting' = setting /\ UNCHANGED << phase, pc, frame, groups, verdict >>
      /\ phase[g] = "opening" /\ todo[g] # << >> /\ Streaming
      /\ todo' = [todo EXCEPT ![g] = Tail(@)]
      /\ pending' = [pending EXCEPT ![d] = @ + 1]
  BY <1>a DEF Register, pastVars, ShapeInv, Progress
<1>2. PICK a \in Await : Stands(Ops, g, pc[g], "await", a)
  BY <1>1 DEF ShapeInv, Progress
<1>3. /\ Ops' = Ops /\ IsTree(Ops) /\ Await \subseteq Runner /\ verdict[g] = "none"
      /\ todo[g] \in Seq(Cached) /\ IsInjective(todo[g]) /\ ToSet(todo[g]) \subseteq Chain(g)
  BY <1>1, Rendering DEF ShapeInv, Shape, Ops, Progress, Working, Telling
<1>4. phase[a] = "idle" /\ a # g /\ a \in Runner
  BY <1>1, <1>2, AwaitedIsIdle
<1>5. /\ todo'[g] = Tail(todo[g]) /\ \A h \in Runner : h # g => todo'[h] = todo[h]
  BY <1>1 DEF ShapeInv, Shape
<1>6. /\ d \in Cached /\ d \in Chain(g) /\ d \in ToSet(todo[g])
      /\ d \notin ToSet(todo'[g]) /\ ToSet(todo[g]) = {d} \cup ToSet(todo'[g])
  BY <1>a, <1>1, <1>3, <1>5, TailOf
<1>7. \A h \in Runner : Chain(h)' = Chain(h)
  BY <1>1 DEF Chain
<1>8. ~Owes(a, d) /\ Owes(a, d)'
  <2>1. \A h \in Runner : Stands(Ops, h, pc[h], "await", a) => h = g
    BY <1>2, <1>3, OnePlace
  <2> QED BY <1>1, <1>2, <1>3, <1>4, <1>6, <1>7, <2>1 DEF Owes
<1>9. ASSUME NEW b \in Await, NEW c \in Cached, ~(b = a /\ c = d) PROVE Owes(b, c)' <=> Owes(b, c)
  <2>0. b \in Runner
    BY <1>3
  <2>1. CASE phase[b] = "idle"
    <3>1. ASSUME NEW h \in Runner, Stands(Ops, h, pc[h], "await", b)
          PROVE  c \in ToSet(todo'[h]) <=> c \in ToSet(todo[h])
      <4>1. CASE h = g
        <5>1. b = a
          BY <1>2, <3>1, <4>1 DEF Stands
        <5> QED BY <1>6, <1>9, <4>1, <5>1
      <4>2. CASE h # g
        BY <1>5, <4>2
      <4> QED BY <4>1, <4>2
    <3> QED BY <1>1, <1>3, <1>7, <2>1, <3>1 DEF Owes
  <2>2. CASE phase[b] # "idle"
    <3>1. verdict[b] = "none" \/ todo'[b] = todo[b]
      BY <1>3, <1>5, <2>0
    <3> QED BY <1>1, <2>2, <3>1 DEF Owes
  <2> QED BY <2>1, <2>2
<1> QED BY <1>1, <1>6, <1>8, <1>9, CountMoves

\* Start keeps CountInv.
LEMMA StartCounts ==
  ASSUME ShapeInv, CountInv, NEW g \in Runner, Start(g)
  PROVE  CountInv'
<1>1. PICK a \in Await : Stands(Ops, g, pc[g], "await", a)
  BY DEF Start, ShapeInv, Progress
<1>2. /\ Node(g) = a /\ phase[g] = "opening" /\ todo[g] = << >>
      /\ setting \in Setting /\ pc[g] \in Nat
  BY <1>1 DEF Stands, Node, Start, ShapeInv, Shape
<1>3. /\ setting' = setting /\ UNCHANGED << frame, todo, verdict, pending >>
      /\ phase' = [phase EXCEPT ![g] = "rendering", ![a] = "resolving"]
      /\ groups' = [groups EXCEPT ![a] = Groups(g)]
      /\ pc' = [pc EXCEPT ![g] = @ + 1]
  BY <1>2 DEF Start, Advance, pastVars, groupVars
<1>4. phase[a] = "idle" /\ a # g /\ a \in Runner
  BY <1>1, <1>2, AwaitedIsIdle
<1>5. /\ Ops' = Ops /\ IsTree(Ops) /\ Await \subseteq Runner /\ verdict[a] = "none"
  BY <1>2, <1>3, <1>4, Rendering DEF Ops, ShapeInv, Progress
<1>6. /\ phase'[g] = "rendering" /\ phase'[a] = "resolving"
      /\ \A h \in Runner : h # g /\ h # a => phase'[h] = phase[h]
      /\ \A h \in Runner : h # g => pc'[h] = pc[h]
      /\ ToSet(groups'[a]) = Chain(g) /\ \A h \in Runner : h # a => groups'[h] = groups[h]
  BY <1>3, <1>4, ChainOf DEF ShapeInv, Shape
<1>7. ASSUME NEW b \in Await, NEW c \in Cached PROVE Owes(b, c)' <=> Owes(b, c)
  <2>0. b \in Runner /\ ToSet(todo[g]) = {}
    BY <1>2, <1>5, EmptyChain
  <2>1. CASE b = a
    <3>1. Owes(a, c) <=> c \in Chain(g)
      <4>1. \A h \in Runner : Stands(Ops, h, pc[h], "await", a) => h = g
        BY <1>1, <1>5, OnePlace
      <4> QED BY <1>1, <1>2, <1>4, <2>0, <4>1 DEF Owes
    <3>2. Owes(a, c)' <=> c \in Chain(g)
      BY <1>3, <1>5, <1>6 DEF Owes
    <3> QED BY <2>1, <3>1, <3>2
  <2>2. CASE b # a /\ phase[b] = "idle"
    <3>0. b # g /\ phase'[b] = "idle"
      BY <1>2, <1>6, <2>0, <2>2
    <3>1. ~Stands(Ops, g, pc[g], "await", b)
      BY <1>1, <2>2 DEF Stands
    <3>2. \A h \in Runner : /\ h # g /\ h # a =>
                                 /\ Chain(h)' = Chain(h) /\ pc'[h] = pc[h] /\ phase'[h] = phase[h]
                            /\ h = g \/ h = a => phase'[h] # "opening"
      BY <1>3, <1>6 DEF Chain
    <3>3. \A h \in Runner : h = a => phase[h] # "opening"
      BY <1>4
    <3> QED BY <1>3, <1>5, <2>2, <3>0, <3>1, <3>2, <3>3 DEF Owes
  <2>3. CASE b # a /\ phase[b] # "idle"
    <3>1. phase'[b] # "idle" /\ groups'[b] = groups[b]
      BY <1>6, <2>0, <2>3
    <3> QED BY <1>3, <2>3, <3>1 DEF Owes
  <2> QED BY <2>1, <2>2, <2>3
<1> QED BY <1>3, <1>7, CountStays

\* The steps of a renderer keep CountInv.
LEMMA StepCounts ==
  ASSUME ShapeInv, CountInv, NEW g \in Runner, Step(g)
  PROVE  CountInv'
<1>0. Shape /\ Await \subseteq Runner
  BY DEF ShapeInv, Runner
<1>1. CASE EnterHit(g) \/ EnterMiss(g) \/ Leave(g)
  <2>1. /\ setting' = setting /\ UNCHANGED << phase, groups, todo, verdict, pending >>
        /\ phase[g] = "rendering"
        /\ \A h \in Runner : h # g => pc'[h] = pc[h] /\ frame'[h] = frame[h]
    <3>1. CASE EnterHit(g)
      BY <1>0, <3>1 DEF EnterHit, At, pastVars, groupVars, Shape
    <3>2. CASE EnterMiss(g)
      BY <1>0, <3>2 DEF EnterMiss, At, Advance, pastVars, groupVars, Shape
    <3>3. CASE Leave(g)
      BY <1>0, <3>3 DEF Leave, At, Advance, pastVars, Shape
    <3> QED BY <1>1, <3>1, <3>2, <3>3
  <2>2. ASSUME NEW b \in Await, NEW c \in Cached PROVE Owes(b, c)' <=> Owes(b, c)
    BY <1>0, <2>1, OwesStays
  <2> QED BY <2>1, <2>2, CountStays
<1>2. CASE Place(g)
  BY <1>2, PlaceCounts
<1>3. CASE Register(g)
  BY <1>3, RegisterCounts
<1>4. CASE Start(g)
  BY <1>4, StartCounts
<1>5. CASE SettleInPlace(g) \/ InPlaceReturns(g)
  <2>1. setting' = setting /\ UNCHANGED pending /\ ~Streaming
    BY <1>5 DEF SettleInPlace, InPlaceReturns, pastVars, groupVars, ShapeInv, Progress
  <2> QED BY <2>1, CountStays
<1> QED BY <1>1, <1>2, <1>3, <1>4, <1>5 DEF Step

\* The steps of a boundary keep CountInv.
LEMMA SettlingCounts ==
  ASSUME ShapeInv, CountInv, NEW b \in Await, Settling(b)
  PROVE  CountInv'
<1>0. Shape /\ Await \subseteq Runner /\ b \in Runner /\ Progress(b) /\ Telling(b)
  BY DEF ShapeInv, Runner
<1>1. CASE ResolveOk(b) \/ LeaveQueue(b) \/ Returns(b)
  <2>1. /\ setting' = setting /\ UNCHANGED << pc, frame, groups, todo, verdict, pending >>
        /\ phase[b] \notin {"idle", "opening"} /\ phase'[b] \notin {"idle", "opening"}
        /\ \A h \in Runner : h # b => phase'[h] = phase[h]
    BY <1>0, <1>1 DEF ResolveOk, LeaveQueue, Returns, pastVars, groupVars, Shape
  <2>2. ASSUME NEW a \in Await, NEW c \in Cached PROVE Owes(a, c)' <=> Owes(a, c)
    BY <1>0, <2>1, OwesStays
  <2> QED BY <2>1, <2>2, CountStays
<1>2. CASE ResolveFails(b) \/ RenderEnds(b)
  <2>1. /\ setting' = setting /\ UNCHANGED << pc, groups, pending >>
        /\ phase[b] \in {"resolving", "rendering"} /\ phase'[b] \notin {"idle", "opening"}
        /\ \A h \in Runner : h # b => phase'[h] = phase[h] /\ todo'[h] = todo[h]
        /\ Streaming => todo'[b] = groups[b]
    BY <1>0, <1>2 DEF ResolveFails, RenderEnds, Ends, pastVars, groupVars, Shape
  <2>2. /\ \A h \in Runner : h # b => frame'[h] = frame[h] /\ verdict'[h] = verdict[h]
        /\ verdict[b] = "none"
    BY <1>0, <1>2 DEF ResolveFails, RenderEnds, Fails, Shape, Progress, Working
  <2>3. ASSUME Streaming, NEW a \in Await, NEW c \in Cached PROVE Owes(a, c)' <=> Owes(a, c)
    <3>0. Ops' = Ops /\ a \in Runner
      BY <1>0, <2>1 DEF Ops
    <3>1. CASE phase[a] = "idle"
      <4>1. \A h \in Runner : phase[h] = "opening" \/ phase'[h] = "opening" =>
              /\ phase'[h] = phase[h] /\ Chain(h)' = Chain(h) /\ todo'[h] = todo[h]
        BY <2>1, <2>2 DEF Chain
      <4>2. phase'[a] = "idle"
        BY <2>1, <3>0, <3>1
      <4> QED BY <2>1, <3>0, <3>1, <4>1, <4>2 DEF Owes
    <3>2. CASE phase[a] # "idle" /\ a # b
      BY <2>1, <2>2, <3>0, <3>2 DEF Owes
    <3>3. CASE a = b
      <4>1. Owes(b, c) <=> c \in ToSet(groups[b])
        BY <2>1, <2>2 DEF Owes
      <4>2. Owes(b, c)' <=> c \in ToSet(groups[b])
        BY <2>1, <2>3 DEF Owes
      <4> QED BY <3>3, <4>1, <4>2
    <3> QED BY <3>1, <3>2, <3>3
  <2> QED BY <2>1, <2>3, CountStays
<1>3. CASE Report(b)
  <2>a. PICK d : d = Head(todo[b])
    OBVIOUS
  <2>1. /\ setting' = setting /\ UNCHANGED << phase, pc, frame, groups, verdict >>
        /\ phase[b] = "settling" /\ todo[b] # << >> /\ Streaming /\ verdict[b] # "none"
        /\ todo' = [todo EXCEPT ![b] = Tail(@)]
        /\ pending' = [pending EXCEPT ![d] = @ - 1]
    BY <1>0, <1>3, <2>a DEF Report, pastVars, Progress
  <2>2. /\ todo[b] \in Seq(Cached) /\ IsInjective(todo[b]) /\ ToSet(todo[b]) \subseteq ToSet(groups[b])
        /\ Ops' = Ops /\ todo'[b] = Tail(todo[b])
        /\ \A h \in Runner : h # b => todo'[h] = todo[h]
    BY <1>0, <2>1 DEF Shape, Telling, Ops
  <2>3. /\ d \in Cached /\ d \in ToSet(groups[b]) /\ d \in ToSet(todo[b])
        /\ d \notin ToSet(todo'[b]) /\ ToSet(todo[b]) = {d} \cup ToSet(todo'[b])
    BY <2>a, <2>1, <2>2, TailOf
  <2>4. Owes(b, d) /\ ~Owes(b, d)'
    BY <2>1, <2>3 DEF Owes
  <2>5. ASSUME NEW a \in Await, NEW c \in Cached, ~(a = b /\ c = d) PROVE Owes(a, c)' <=> Owes(a, c)
    <3>0. a \in Runner
      BY <1>0
    <3>1. CASE phase[a] = "idle"
      <4>1. \A h \in Runner : phase[h] = "opening" => todo'[h] = todo[h] /\ Chain(h)' = Chain(h)
        BY <2>1, <2>2 DEF Chain
      <4> QED BY <2>1, <2>2, <3>1, <4>1 DEF Owes
    <3>2. CASE phase[a] # "idle"
      <4>1. c \in ToSet(todo'[a]) <=> c \in ToSet(todo[a])
        BY <2>2, <2>3, <2>5, <3>0
      <4> QED BY <2>1, <3>2, <4>1 DEF Owes
    <3> QED BY <3>1, <3>2
  <2> QED BY <2>1, <2>3, <2>4, <2>5, CountMoves
<1> QED BY <1>1, <1>2, <1>3 DEF Settling

\* DocumentEnds keeps CountInv.
LEMMA DocumentEndsCounts ==
  ASSUME ShapeInv, CountInv, DocumentEnds
  PROVE  CountInv'
<1>1. Shape /\ Await \subseteq Runner /\ "document" \in Runner /\ "document" \notin Await
  BY Rendering DEF ShapeInv, Shape
<1>2. /\ setting' = setting /\ UNCHANGED << pc, groups, todo, pending >>
      /\ phase["document"] = "rendering" /\ phase'["document"] = "done"
      /\ \A h \in Runner : h # "document" => /\ phase'[h] = phase[h] /\ verdict'[h] = verdict[h]
                                             /\ frame'[h] = frame[h]
  BY <1>1 DEF DocumentEnds, Fails, pastVars, groupVars, Shape
<1>3. ASSUME NEW a \in Await, NEW c \in Cached PROVE Owes(a, c)' <=> Owes(a, c)
  BY <1>1, <1>2, OwesStays
<1> QED BY <1>2, <1>3, CountStays

\* A fresh render has CountInv.
LEMMA FreshCounts ==
  ASSUME Fresh, pending = All(Cached, 0)
  PROVE  CountInv
<1>1. "document" \in Runner /\ "document" \notin Await /\ Await \subseteq Runner
  BY Rendering DEF Fresh
<1>2. \A g \in Runner : phase[g] = IF g = "document" THEN "rendering" ELSE "idle"
  BY DEF Fresh, Started
<1>3. ASSUME NEW c \in Cached PROVE Cardinality(Debtors(c)) = 0
  <2>1. \A b \in Await : ~Owes(b, c)
    BY <1>1, <1>2 DEF Owes
  <2>2. Debtors(c) = {}
    BY <2>1 DEF Debtors
  <2> QED BY <2>2, FS_EmptySet
<1> QED BY <1>3 DEF CountInv, All

\* A group's pending count is the number of boundaries that have registered with it and
\* not yet reported to it.
LEMMA CountInvHolds == Spec => []CountInv
<1>1. Init => CountInv
  BY FreshCounts DEF Init, Fresh
<1>2. ShapeInv /\ CountInv /\ [Next]_vars => CountInv'
  <2> SUFFICES ASSUME ShapeInv, CountInv, [Next]_vars PROVE CountInv'
    OBVIOUS
  <2>1. ASSUME NEW g \in Runner, Step(g) PROVE CountInv'
    BY <2>1, StepCounts
  <2>2. ASSUME NEW b \in Await, Settling(b) PROVE CountInv'
    BY <2>2, SettlingCounts
  <2>3. CASE DocumentEnds
    BY <2>3, DocumentEndsCounts
  <2>4. CASE RenderAgain
    <3>1. (Fresh /\ pending = All(Cached, 0))'
      BY <2>4 DEF RenderAgain, Fresh, All, Started, ShapeInv, Shape
    <3> QED BY <3>1, FreshCounts, PTL
  <2>5. CASE Cancel \/ Finished \/ UNCHANGED vars
    <3>1. UNCHANGED << setting, runVars, pending >>
      BY <2>5 DEF Cancel, Finished, vars, runVars, pastVars, groupVars
    <3>2. ASSUME NEW a \in Await, NEW c \in Cached PROVE Owes(a, c)' <=> Owes(a, c)
      BY <3>1, OwesStays DEF runVars
    <3> QED BY <3>1, <3>2, CountStays
  <2> QED BY <2>1, <2>2, <2>3, <2>4, <2>5 DEF Next, Goroutines
<1> QED BY <1>1, <1>2, ShapeInvHolds, PTL DEF Spec

-----------------------------------------------------------------------------
(* The store. *)

\* b has settled and told c so.
Settled(b, c) == verdict[b] = "settled" /\ c \notin ToSet(todo[b])

\* A component is captured once it is left.
Captured ==
  /\ captured \in [Cached -> BOOLEAN]
  /\ \A c \in Cached : captured[c] =>
       \E g \in Runner : \E k \in DOMAIN Ops[g] : k < pc[g] /\ Stands(Ops, g, k, "leave", c)

\* A boundary with a placeholder that has not started is the one being opened.
Opening ==
  \A b \in Await : phase[b] = "idle" /\ id[b] # << >> =>
    \E g \in Runner : phase[g] = "opening" /\ Stands(Ops, g, pc[g], "await", b)

\* What b told c when its outcome was known, and what c knows of it since.
Told(b, c) == Streaming /\ c \in ToSet(groups[b]) /\ verdict[b] # "none" /\ c \notin ToSet(todo[b])

Known(b, c) ==
  IF verdict[b] = "settled" THEN id[b] \in DOMAIN settled[c] /\ settled[c][id[b]] = b
  ELSE failed[c]

Reported ==
  /\ failed \in [Cached -> BOOLEAN]
  /\ settled = [c \in Cached |-> settled[c]]
  /\ \A c \in Cached : \A i \in DOMAIN settled[c] : settled[c][i] \in Await
  /\ \A b \in Await, c \in Cached : Told(b, c) => Known(b, c)

\* In place, the instruction after a boundary is not reached before it settled.
InPlace ==
  ~Streaming =>
    /\ \A b \in Await : /\ verdict[b] = "recovered" => b \in Recovers
                        /\ verdict[b] # "cancelled"
    /\ Recovers = {} =>
         \A b \in Await, g \in Runner : \A j \in DOMAIN Ops[g] :
           Stands(Ops, g, j, "await", b) /\ phase[b] # "idle" /\ j < pc[g]
           => verdict[b] = "settled"

\* Every boundary in a stored component has settled, and its placeholder is replaced by
\* what it settled to.
Stored ==
  /\ stored \subseteq Cached
  /\ entry \in [Cached -> SUBSET (Await \X (Await \cup {"placeholder", "failure"}))]
  /\ \A c \in stored : captured[c] /\ \A b \in Await : c \in ToSet(groups[b]) => Settled(b, c)
  /\ StoredIsSettled

\* Whoever reports to c has started, below an instruction in c.
LEMMA Members ==
  ASSUME ShapeInv, NEW b \in Await, NEW c, c \in ToSet(groups[b])
  PROVE  c \in Cached /\ phase[b] # "idle" /\ b \in Runner
<1>1. groups[b] \in Seq(Cached) /\ groups[b] # << >> /\ b \in Runner
  BY EmptyChain DEF ShapeInv, Shape, Runner
<1>2. c \in Cached
  BY <1>1 DEF ToSet
<1> QED BY <1>1, <1>2 DEF ShapeInv, Parented

\* What later proofs need of the shape of the state.
LEMMA Types ==
  ASSUME ShapeInv
  PROVE  /\ setting \in Setting /\ Ops \in [Runner -> Seq(Instruction)] /\ IsTree(Ops)
         /\ Streaming \in BOOLEAN /\ Recovers \subseteq Await
         /\ "document" \in Runner /\ "document" \notin Await /\ Await \subseteq Runner
         /\ Runner \cap Cached = {} /\ (\A g \in Runner : g # "document" => g \in Await)
         /\ \A g \in Runner : pc[g] \in Nat /\ pc[g] # 0
BY Rendering DEF ShapeInv, Shape

\* A component a miss is still rendering is not captured, nor is one whose boundary
\* opens another: it has not been left.
LEMMA StillOpen ==
  ASSUME ShapeInv, NEW g \in Runner, NEW h \in Runner, NEW k \in DOMAIN Ops[h], NEW c,
         Stands(Ops, h, k, "leave", c), k < pc[h], c \in ToSet(frame[g])
  PROVE  FALSE
<1>1. c \in Around(Ops, g, pc[g])
  BY DEF ShapeInv, Framed
<1>2. PICK l \in DOMAIN Ops[g] : pc[g] <= l /\ Stands(Ops, g, l, "leave", c)
  BY <1>1 DEF Around
<1>3. g = h /\ k = l
  BY <1>2, Types, OnePlace
<1>4. pc[g] \in Nat /\ k \in Nat
  BY Types, Templates
<1> QED BY <1>2, <1>3, <1>4

\* The members of c that c itself started, and those that another member did.
LEMMA Descent ==
  ASSUME ShapeInv, NEW b \in Await, NEW c \in Cached, c \in ToSet(groups[b])
  PROVE  \E g \in Runner : \E j \in DOMAIN Ops[g] :
           /\ StartedBy(b, g, j)
           /\ \/ g \in Await /\ c \in ToSet(groups[g])
              \/ c \in Around(Ops, g, j)
<1>0. phase[b] # "idle"
  BY Members
<1>1. PICK g \in Runner : \E j \in DOMAIN Ops[g] : StartedBy(b, g, j)
  BY <1>0 DEF ShapeInv, Parented
<1>2. PICK j \in DOMAIN Ops[g] : StartedBy(b, g, j)
  BY <1>1
<1>3. c \in Around(Ops, g, j) \/ c \in ToSet(groups[g])
  BY <1>2 DEF StartedBy
<1>4. c \in ToSet(groups[g]) => g \in Await
  BY Types, EmptyChain DEF ShapeInv, Shape
<1> QED BY <1>2, <1>3, <1>4

\* What a group publishes when every boundary in it has settled.
LEMMA Publishes ==
  ASSUME ShapeInv, Opening, NEW c \in Cached, NEW map,
         \A b \in Await : c \in ToSet(groups[b]) =>
           verdict[b] = "settled" /\ (Streaming => id[b] \in DOMAIN map /\ map[id[b]] = b),
         NEW h \in Runner, NEW m \in DOMAIN Ops[h], Stands(Ops, h, m, "leave", c), m <= pc[h]
  PROVE  \A pair \in spliceSettled(c, map) : pair[1] = pair[2]
<1> DEFINE Kin == { b \in Await : c \in ToSet(groups[b]) }
           filler == [b \in Await |-> Filler(b, map)]
           holds == [b \in Await |-> IF filler[b] \in Await THEN OpenedBy(filler[b]) ELSE {}]
           spliced == { R \in SUBSET Await : Shell(c) \subseteq R /\ \A b \in R : holds[b] \subseteq R }
<1>1. \A b \in Kin : filler[b] = b /\ verdict[b] = "settled"
  BY DEF Filler
<1>2. ASSUME NEW b \in Shell(c) PROVE b \in Kin
  <2>0. b \in Await /\ b \in Opened
    BY DEF Shell, Opened
  <2>1. PICK g \in Runner : \E j \in DOMAIN Ops[g] :
          /\ Stands(Ops, g, j, "await", b)
          /\ \E i \in DOMAIN Ops[g] : i < j /\ Stands(Ops, g, i, "enter", c)
          /\ \E k \in DOMAIN Ops[g] : j < k /\ Stands(Ops, g, k, "leave", c)
    BY DEF Shell
  <2>2. PICK j \in DOMAIN Ops[g] :
          /\ Stands(Ops, g, j, "await", b)
          /\ \E i \in DOMAIN Ops[g] : i < j /\ Stands(Ops, g, i, "enter", c)
          /\ \E k \in DOMAIN Ops[g] : j < k /\ Stands(Ops, g, k, "leave", c)
    BY <2>1
  <2>3. PICK k \in DOMAIN Ops[g] : j < k /\ Stands(Ops, g, k, "leave", c)
    BY <2>2
  <2>4. j \in Nat /\ k \in Nat /\ m = k /\ h = g /\ pc[g] \in Nat
    BY <2>2, <2>3, Types, Templates, OnePlace
  <2>5. c \in Around(Ops, g, j)
    BY <2>2, <2>3, <2>4 DEF Around
  <2>6. CASE phase[b] # "idle"
    <3>1. PICK x \in Runner : \E y \in DOMAIN Ops[x] : StartedBy(b, x, y)
      BY <2>0, <2>6 DEF ShapeInv, Parented
    <3>2. PICK y \in DOMAIN Ops[x] : StartedBy(b, x, y)
      BY <3>1
    <3>3. x = g /\ y = j
      BY <2>2, <3>2, Types, OnePlace DEF StartedBy
    <3> QED BY <2>0, <2>5, <3>2, <3>3 DEF StartedBy
  <2>7. CASE phase[b] = "idle"
    <3>1. PICK x \in Runner : phase[x] = "opening" /\ Stands(Ops, x, pc[x], "await", b)
      BY <2>0, <2>7 DEF Opening, Opened
    <3>2. x = g /\ pc[x] = j
      BY <2>2, <3>1, Types, OnePlace
    <3> QED BY <2>3, <2>4, <3>2
  <2> QED BY <2>6, <2>7
<1>3. ASSUME NEW b \in Kin, NEW a \in OpenedBy(b) PROVE a \in Kin
  <2>0. a \in Await /\ a \in Opened /\ b \in Runner /\ verdict[b] = "settled"
    BY <1>1, Types DEF OpenedBy, Opened
  <2>1. PICK i \in DOMAIN Ops[b] : Stands(Ops, b, i, "await", a)
    BY DEF OpenedBy
  <2>2. CASE phase[a] # "idle"
    <3>1. PICK x \in Runner : \E y \in DOMAIN Ops[x] : StartedBy(a, x, y)
      BY <2>0, <2>2 DEF ShapeInv, Parented
    <3>2. PICK y \in DOMAIN Ops[x] : StartedBy(a, x, y)
      BY <3>1
    <3>3. x = b
      BY <2>0, <2>1, <3>2, Types, OnePlace DEF StartedBy
    <3> QED BY <2>0, <3>2, <3>3 DEF StartedBy
  <2>3. CASE phase[a] = "idle"
    <3>1. PICK x \in Runner : phase[x] = "opening" /\ Stands(Ops, x, pc[x], "await", a)
      BY <2>0, <2>3 DEF Opening, Opened
    <3>2. x = b
      BY <2>0, <2>1, <3>1, Types, OnePlace
    <3> QED BY <2>0, <3>1, <3>2 DEF ShapeInv, Progress, Working
  <2> QED BY <2>2, <2>3
<1> HIDE DEF filler
<1>4. Kin \in spliced
  <2>1. \A b \in Kin : holds[b] \subseteq Kin
    BY <1>1, <1>3
  <2>2. Shell(c) \subseteq Kin
    BY <1>2
  <2> HIDE DEF holds
  <2> QED BY <2>1, <2>2
<1>5. spliceSettled(c, map) = { << b, filler[b] >> : b \in { x \in Await : \A R \in spliced : x \in R } }
  BY DEF spliceSettled, filler
<1> HIDE DEF spliced, Kin
<1> QED BY <1>1, <1>4, <1>5

\* The entries of spliceSettled, one for each boundary whose content is spliced.
LEMMA Entries ==
  ASSUME NEW c \in Cached, NEW map, \A i \in DOMAIN map : map[i] \in Await
  PROVE  spliceSettled(c, map) \in SUBSET (Await \X (Await \cup {"placeholder", "failure"}))
<1> DEFINE filler == [b \in Await |-> Filler(b, map)]
<1>1. \A b \in Await : filler[b] \in Await \cup {"placeholder", "failure"}
  BY DEF Filler
<1>2. \A pair \in spliceSettled(c, map) : \E b \in Await : pair = << b, filler[b] >>
  BY DEF spliceSettled
<1> HIDE DEF filler
<1> QED BY <1>1, <1>2

\* With none pending and none failed, every boundary in the group has settled and said so.
AllTold ==
  \A c \in Cached : pending[c] = 0 /\ ~failed[c] =>
    \A b \in Await : c \in ToSet(groups[b]) =>
      Settled(b, c) /\ id[b] \in DOMAIN settled[c] /\ settled[c][id[b]] = b

\* A group that counts nothing pending has been told of every boundary in it.
LEMMA AllReported == ShapeInv /\ CountInv /\ Reported /\ Streaming => AllTold
<1> SUFFICES ASSUME ShapeInv, CountInv, Reported, Streaming, NEW c \in Cached,
                    pending[c] = 0, ~failed[c], NEW b \in Await, c \in ToSet(groups[b])
             PROVE  Settled(b, c) /\ id[b] \in DOMAIN settled[c] /\ settled[c][id[b]] = b
  BY DEF AllTold
<1>1. Cardinality(Debtors(c)) = 0 /\ IsFiniteSet(Debtors(c))
  BY DebtorsFinite DEF CountInv
<1>2. ~Owes(b, c)
  BY <1>1, FS_EmptySet DEF Debtors
<1>3. verdict[b] # "none" /\ c \notin ToSet(todo[b])
  BY <1>2, Members DEF Owes
<1> QED BY <1>3 DEF Reported, Told, Known, Settled

\* In place, every boundary a component started has settled when it is left.
LEMMA AllSettledInPlace ==
  ASSUME ShapeInv, InPlace, ~Streaming, Recovers = {}, NEW g \in Runner, NEW k \in DOMAIN Ops[g],
         NEW c \in Cached, Stands(Ops, g, k, "leave", c), k <= pc[g]
  PROVE  \A b \in Await : c \in ToSet(groups[b]) => verdict[b] = "settled"
<1>0. PICK depth \in [Runner -> 0 .. Cardinality(Await)] :
        \A h \in Runner : \A i \in DOMAIN Ops[h] : \A b \in Await :
          Stands(Ops, h, i, "await", b) => depth[h] < depth[b]
  BY Types DEF IsTree
<1> DEFINE Late == { b \in Await : c \in ToSet(groups[b]) /\ verdict[b] # "settled" }
           R == OpToRel(<, Nat)
           T == { depth[b] : b \in Late }
<1> SUFFICES ASSUME Late # {} PROVE FALSE
  OBVIOUS
<1>1. \A h \in Runner : depth[h] \in Nat
  <2>1. Cardinality(Await) \in Nat
    BY FS_CardinalityType, TemplateAssumption
  <2> QED BY <2>1
<1>2. T \subseteq Nat /\ T # {}
  BY <1>1, Types
<1>3. IsWellFoundedOn(R, Nat) /\ \A x, y \in Nat : << y, x >> \in R <=> y < x
  BY NatLessThanWellFounded DEF OpToRel
<1> HIDE DEF R
<1>4. PICK n \in T : \A y \in T : ~(<< y, n >> \in R)
  BY <1>2, <1>3, WFMin
<1>5. PICK b \in Late : depth[b] = n
  BY <1>4
<1>6. PICK h \in Runner : \E j \in DOMAIN Ops[h] :
        /\ StartedBy(b, h, j)
        /\ \/ h \in Await /\ c \in ToSet(groups[h])
           \/ c \in Around(Ops, h, j)
  BY <1>5, Descent
<1>7. PICK j \in DOMAIN Ops[h] :
        /\ StartedBy(b, h, j)
        /\ \/ h \in Await /\ c \in ToSet(groups[h])
           \/ c \in Around(Ops, h, j)
  BY <1>6
<1>8. j \in Nat /\ pc[h] \in Nat /\ Stands(Ops, h, j, "await", b)
  BY <1>7, Types, Templates DEF StartedBy
<1>9. j < pc[h]
  <2>1. CASE h \in Await /\ c \in ToSet(groups[h])
    <3>1. depth[h] < depth[b] /\ depth[h] \in Nat /\ depth[b] \in Nat
      BY <1>0, <1>1, <1>8, Types
    <3>2. depth[h] \notin T
      BY <1>2, <1>3, <1>4, <1>5, <3>1
    <3>3. verdict[h] = "settled"
      BY <2>1, <3>2
    <3>4. pc[h] > Len(Ops[h]) /\ DOMAIN Ops[h] = 1 .. Len(Ops[h]) /\ Len(Ops[h]) \in Nat
      BY <3>3, Types, Templates DEF ShapeInv, Progress
    <3> QED BY <1>8, <3>4
  <2>2. CASE c \in Around(Ops, h, j)
    <3>1. PICK l \in DOMAIN Ops[h] : j <= l /\ Stands(Ops, h, l, "leave", c)
      BY <2>2 DEF Around
    <3>2. h = g /\ l = k
      BY <3>1, Types, OnePlace
    <3>0. Ops \in [Runner -> Seq(Instruction)]
      BY Types
    <3>3. l \in Nat /\ Ops[h][l].op = "leave" /\ Ops[h][j].op = "await"
      BY <1>8, <3>0, <3>1, Templates
    <3> QED BY <1>8, <3>1, <3>2, <3>3
  <2> QED BY <1>7, <2>1, <2>2
<1>10. phase[b] # "idle"
  BY <1>5, Members
<1> QED BY <1>5, <1>8, <1>9, <1>10 DEF InPlace

Moves == Goroutines \/ DocumentEnds \/ Cancel \/ UNCHANGED vars

\* Every step is a move of a goroutine or the beginning of another render.
LEMMA NextMoves == [Next]_vars => Moves \/ RenderAgain
BY DEF Moves, Next, Finished

\* A move only goes forward.
LEMMA MovesOn ==
  ASSUME ShapeInv, Moves
  PROVE  /\ setting' = setting /\ Ops' = Ops /\ Streaming' = Streaming /\ Recovers' = Recovers
         /\ \A h \in Runner : /\ pc'[h] \in Nat /\ pc'[h] >= pc[h]
                              /\ phase[h] # "idle" => phase'[h] # "idle" /\ groups'[h] = groups[h]
                              /\ verdict[h] # "none" => verdict'[h] = verdict[h]
<1>1. setting' = setting /\ \A h \in Runner : Goes(h) /\ (verdict[h] # "none" => verdict'[h] = verdict[h])
  BY Onward DEF Moves
<1> QED BY <1>1 DEF Goes, Ops, Streaming, Recovers

\* Captured is an invariant.
LEMMA CapturedHolds == Spec => []Captured
<1>1. Init => Captured
  BY DEF Init, Captured, All
<1>2. ShapeInv /\ Captured /\ [Next]_vars => Captured'
  <2> SUFFICES ASSUME ShapeInv, Captured, [Next]_vars PROVE Captured'
    OBVIOUS
  <2>1. CASE RenderAgain
    BY <2>1 DEF RenderAgain, Captured, All
  <2>2. ASSUME Moves, UNCHANGED captured PROVE Captured'
    <3>1. ASSUME NEW c \in Cached, captured[c]
          PROVE  \E g \in Runner : \E k \in DOMAIN Ops'[g] : k < pc'[g] /\ Stands(Ops', g, k, "leave", c)
      <4>1. PICK g \in Runner : \E k \in DOMAIN Ops[g] : k < pc[g] /\ Stands(Ops, g, k, "leave", c)
        BY <3>1 DEF Captured
      <4>2. PICK k \in DOMAIN Ops[g] : k < pc[g] /\ Stands(Ops, g, k, "leave", c)
        BY <4>1
      <4>3. pc'[g] \in Nat /\ pc[g] \in Nat /\ pc'[g] >= pc[g] /\ Ops' = Ops
        BY <2>2, MovesOn, Types
      <4>4. k \in Nat
        BY <4>2, Types, Templates
      <4> QED BY <4>2, <4>3, <4>4
    <3> QED BY <2>2, <3>1 DEF Captured
  <2>3. ASSUME NEW g \in Runner, Leave(g) PROVE Captured'
    <3>a. PICK d : d = Node(g)
      OBVIOUS
    <3>1. d \in Cached /\ Stands(Ops, g, pc[g], "leave", d) /\ pc[g] \in DOMAIN Ops[g] /\ pc[g] \in Nat
      BY <2>3, <3>a, Instructed DEF Leave
    <3>2. /\ captured' = [captured EXCEPT ![d] = TRUE] /\ pc' = [pc EXCEPT ![g] = @ + 1]
          /\ Moves
      BY <2>3, <3>a DEF Leave, Advance, Moves, Goroutines, Step
    <3>3. \A h \in Runner : pc'[h] \in Nat /\ pc[h] \in Nat /\ pc'[h] >= pc[h] /\ Ops' = Ops
      BY <3>2, MovesOn, Types
    <3>4. ASSUME NEW c \in Cached, captured'[c]
          PROVE  \E h \in Runner : \E k \in DOMAIN Ops'[h] : k < pc'[h] /\ Stands(Ops', h, k, "leave", c)
      <4>1. CASE c = d
        <5>1. pc'[g] = pc[g] + 1
          BY <3>2 DEF ShapeInv, Shape
        <5>2. PICK k \in DOMAIN Ops[g] : k = pc[g]
          BY <3>1
        <5>3. k < pc'[g] /\ Stands(Ops', g, k, "leave", c)
          BY <3>1, <3>3, <4>1, <5>1, <5>2
        <5> QED BY <3>3, <5>3
      <4>2. CASE c # d
        <5>0. captured[c]
          BY <3>2, <3>4, <4>2 DEF Captured
        <5>1. PICK h \in Runner : \E k \in DOMAIN Ops[h] : k < pc[h] /\ Stands(Ops, h, k, "leave", c)
          BY <5>0 DEF Captured
        <5>2. PICK k \in DOMAIN Ops[h] : k < pc[h] /\ Stands(Ops, h, k, "leave", c)
          BY <5>1
        <5>3. k \in Nat
          BY <5>2, Types, Templates
        <5> QED BY <3>3, <5>2, <5>3
      <4> QED BY <4>1, <4>2
    <3> QED BY <3>2, <3>4 DEF Captured
  <2>4. ASSUME NEW g \in Runner, Step(g), ~Leave(g) PROVE UNCHANGED captured
    BY <2>4 DEF Step, EnterHit, EnterMiss, Place, Register, Start, SettleInPlace, InPlaceReturns, groupVars
  <2>5. ASSUME NEW b \in Await, Settling(b) PROVE UNCHANGED captured
    BY <2>5 DEF Settling, ResolveOk, ResolveFails, LeaveQueue, RenderEnds, Report, Returns, Ends, groupVars
  <2>6. CASE DocumentEnds \/ Cancel \/ UNCHANGED vars
    BY <2>2, <2>6 DEF DocumentEnds, Cancel, vars, groupVars, Moves
  <2> QED BY <2>1, <2>2, <2>3, <2>4, <2>5, <2>6, NextMoves DEF Moves, Goroutines
<1> QED BY <1>1, <1>2, ShapeInvHolds, PTL DEF Spec

\* No boundary is opened or started.
LEMMA QuietSteps ==
  ASSUME ShapeInv, Moves, Streaming, ~\E g \in Runner : Place(g) \/ Start(g)
  PROVE  /\ UNCHANGED << groups, id >>
         /\ \A h \in Runner : /\ phase[h] = "opening" <=> phase'[h] = "opening"
                              /\ phase[h] = "idle" <=> phase'[h] = "idle"
                              /\ phase[h] = "opening" => pc'[h] = pc[h]
<1>0. Shape /\ "document" \in Runner /\ Await \subseteq Runner
  BY DEF ShapeInv, Runner
<1>1. ASSUME UNCHANGED << groups, id, phase >>, NEW g \in Runner, phase[g] = "rendering",
             \A h \in Runner : h # g => pc'[h] = pc[h]
      PROVE  /\ UNCHANGED << groups, id >>
             /\ \A h \in Runner : /\ phase[h] = "opening" <=> phase'[h] = "opening"
                                  /\ phase[h] = "idle" <=> phase'[h] = "idle"
                                  /\ phase[h] = "opening" => pc'[h] = pc[h]
  BY <1>1
<1>2. ASSUME NEW g \in Runner, Step(g)
      PROVE  /\ UNCHANGED << groups, id >>
             /\ \A h \in Runner : /\ phase[h] = "opening" <=> phase'[h] = "opening"
                                  /\ phase[h] = "idle" <=> phase'[h] = "idle"
                                  /\ phase[h] = "opening" => pc'[h] = pc[h]
  <2>1. CASE EnterHit(g)
    BY <1>0, <1>1, <2>1 DEF EnterHit, At, idVars, Shape
  <2>2. CASE EnterMiss(g)
    BY <1>0, <1>1, <2>2 DEF EnterMiss, At, Advance, Shape
  <2>3. CASE Leave(g)
    BY <1>0, <1>1, <2>3 DEF Leave, At, Advance, idVars, Shape
  <2>4. CASE Register(g)
    BY <2>4 DEF Register, idVars
  <2>5. ~SettleInPlace(g) /\ ~InPlaceReturns(g)
    BY DEF SettleInPlace, InPlaceReturns, ShapeInv, Progress
  <2> QED BY <1>2, <2>1, <2>2, <2>3, <2>4, <2>5 DEF Step
<1>3. ASSUME NEW b \in Runner, UNCHANGED << groups, id, pc >>, phase[b] \notin {"idle", "opening"},
             phase'[b] \notin {"idle", "opening"}, \A h \in Runner : h # b => phase'[h] = phase[h]
      PROVE  /\ UNCHANGED << groups, id >>
             /\ \A h \in Runner : /\ phase[h] = "opening" <=> phase'[h] = "opening"
                                  /\ phase[h] = "idle" <=> phase'[h] = "idle"
                                  /\ phase[h] = "opening" => pc'[h] = pc[h]
  BY <1>3
<1>4. ASSUME NEW b \in Await, Settling(b)
      PROVE  /\ UNCHANGED << groups, id >>
             /\ \A h \in Runner : /\ phase[h] = "opening" <=> phase'[h] = "opening"
                                  /\ phase[h] = "idle" <=> phase'[h] = "idle"
                                  /\ phase[h] = "opening" => pc'[h] = pc[h]
  <2>1. /\ UNCHANGED << groups, id, pc >> /\ phase[b] \notin {"idle", "opening"}
        /\ phase'[b] \notin {"idle", "opening"} /\ \A h \in Runner : h # b => phase'[h] = phase[h]
    BY <1>0, <1>4 DEF Settling, ResolveOk, ResolveFails, LeaveQueue, RenderEnds, Report, Returns, Ends,
         idVars, Shape
  <2> QED BY <1>0, <1>3, <2>1
<1>5. CASE DocumentEnds
  <2>1. /\ UNCHANGED << groups, id, pc >> /\ phase["document"] \notin {"idle", "opening"}
        /\ phase'["document"] \notin {"idle", "opening"}
        /\ \A h \in Runner : h # "document" => phase'[h] = phase[h]
    BY <1>0, <1>5 DEF DocumentEnds, idVars, Shape
  <2> QED BY <1>0, <1>3, <2>1
<1>6. CASE Cancel \/ UNCHANGED vars
  BY <1>6 DEF Cancel, vars, runVars, idVars
<1> QED BY <1>2, <1>4, <1>5, <1>6 DEF Moves, Goroutines

\* Opening is an invariant.
LEMMA OpeningHolds ==
  ASSUME \A s \in Setting : CountsItself(s)
  PROVE  Spec => []Opening
<1>1. Init => Opening
  BY DEF Init, Opening, All
<1>2. ShapeInv /\ Numbered /\ Numbered' /\ Opening /\ [Next]_vars => Opening'
  <2> SUFFICES ASSUME ShapeInv, Numbered, Numbered', Opening, [Next]_vars PROVE Opening'
    OBVIOUS
  <2>1. CASE RenderAgain
    BY <2>1 DEF RenderAgain, Opening, All
  <2>2. ASSUME Moves PROVE Opening'
    <3>0. Streaming' = Streaming /\ Ops' = Ops
      BY <2>2, MovesOn
    <3>1. CASE ~Streaming
      BY <3>0, <3>1 DEF Numbered, Opening
    <3>2. CASE Streaming /\ ~\E g \in Runner : Place(g) \/ Start(g)
      <4>1. /\ UNCHANGED << groups, id >>
            /\ \A h \in Runner : /\ phase[h] = "opening" <=> phase'[h] = "opening"
                                 /\ phase[h] = "idle" <=> phase'[h] = "idle"
                                 /\ phase[h] = "opening" => pc'[h] = pc[h]
        BY <2>2, <3>2, QuietSteps
      <4> QED BY <3>0, <4>1, Types DEF Opening
    <3>3. ASSUME NEW g \in Runner, Place(g) PROVE Opening'
      <4>a. PICK a : a = Node(g)
        OBVIOUS
      <4>1. /\ a \in Await /\ Stands(Ops, g, pc[g], "await", a) /\ phase[g] = "rendering"
        BY <3>3, <4>a, Instructed DEF Place
      <4>2. /\ UNCHANGED pc /\ phase' = [phase EXCEPT ![g] = "opening"]
            /\ \E x : id' = [id EXCEPT ![a] = x]
        BY <3>3, <4>a DEF Place
      <4>3. /\ phase'[g] = "opening" /\ \A h \in Runner : h # g => phase'[h] = phase[h]
            /\ \A d \in Await : d # a => id'[d] = id[d]
        BY <4>2 DEF ShapeInv, Shape, Numbered
      <4> QED BY <3>0, <4>1, <4>2, <4>3, Types DEF Opening
    <3>4. ASSUME NEW g \in Runner, Start(g) PROVE Opening'
      <4>1. PICK a \in Await : Stands(Ops, g, pc[g], "await", a)
        BY <3>4 DEF Start, ShapeInv, Progress
      <4>2. Node(g) = a /\ phase[g] = "opening"
        BY <3>4, <4>1 DEF Stands, Node, Start
      <4>3. phase[a] = "idle" /\ a # g /\ a \in Runner
        BY <4>1, <4>2, AwaitedIsIdle
      <4>4. /\ UNCHANGED id /\ phase'[a] = "resolving"
            /\ \A h \in Runner : h # g => pc'[h] = pc[h]
            /\ \A h \in Runner : h # g /\ h # a => phase'[h] = phase[h]
            /\ phase'[g] = "rendering"
        BY <3>4, <4>2, <4>3 DEF Start, Advance, ShapeInv, Shape
      <4>5. \A d \in Await : Stands(Ops, g, pc[g], "await", d) => d = a
        BY <4>1 DEF Stands
      <4>6. ASSUME NEW d \in Await, phase'[d] = "idle", id'[d] # << >>
            PROVE  \E h \in Runner : phase'[h] = "opening" /\ Stands(Ops', h, pc'[h], "await", d)
        <5>1. d # a /\ d # g /\ phase[d] = "idle" /\ id[d] # << >>
          BY <4>3, <4>4, <4>6, Types
        <5>2. PICK h \in Runner : phase[h] = "opening" /\ Stands(Ops, h, pc[h], "await", d)
          BY <5>1 DEF Opening
        <5>3. h # g /\ h # a
          BY <4>3, <4>5, <5>1, <5>2
        <5> QED BY <3>0, <4>4, <5>2, <5>3
      <4> QED BY <4>6 DEF Opening
    <3> QED BY <3>1, <3>2, <3>3, <3>4, Types
  <2> QED BY <2>1, <2>2, NextMoves
<1> QED BY <1>1, <1>2, ShapeInvHolds, NumberedHolds, PTL DEF Spec

\* A step after which the groups know no more leaves Reported.
LEMMA ReportedStays ==
  ASSUME Reported, UNCHANGED << failed, settled >>,
         \A b \in Await, c \in Cached : Told(b, c)' =>
           Told(b, c) /\ id'[b] = id[b] /\ verdict'[b] = verdict[b]
  PROVE  Reported'
<1>1. \A b \in Await, c \in Cached : Told(b, c)' => Known(b, c)'
  BY DEF Reported, Told, Known
<1> QED BY <1>1 DEF Reported

\* Report tells the group at the head of the chain what the boundary came to.
LEMMA ReportReports ==
  ASSUME ShapeInv, Numbered, Reported, NEW b \in Await, Report(b)
  PROVE  Reported'
<1>a. PICK c : c = Head(todo[b])
  OBVIOUS
<1>1. /\ phase[b] = "settling" /\ todo[b] # << >> /\ Streaming /\ verdict[b] # "none"
      /\ todo' = [todo EXCEPT ![b] = Tail(@)] /\ b \in Runner
      /\ UNCHANGED << setting, groups, verdict, id >>
      /\ IF verdict[b] = "settled"
         THEN /\ settled' = [settled EXCEPT ![c] =
                               [i \in DOMAIN @ \cup {id[b]} |-> IF i = id[b] THEN b ELSE @[i]]]
              /\ UNCHANGED failed
         ELSE failed' = [failed EXCEPT ![c] = TRUE] /\ UNCHANGED settled
  BY <1>a, Types DEF Report, idVars, pastVars, ShapeInv, Progress
<1>2. /\ todo[b] \in Seq(Cached) /\ IsInjective(todo[b])
      /\ todo'[b] = Tail(todo[b]) /\ \A h \in Runner : h # b => todo'[h] = todo[h]
  BY <1>1 DEF ShapeInv, Shape, Telling
<1>3. /\ c \in Cached /\ c \in ToSet(todo[b]) /\ ToSet(todo[b]) = {c} \cup ToSet(todo'[b])
  BY <1>a, <1>1, <1>2, TailOf
<1>4. Await \subseteq Runner /\ Streaming' = Streaming
  BY <1>1, Types DEF Streaming
<1>5. /\ \A d \in Cached : d # c => settled'[d] = settled[d] /\ failed'[d] = failed[d]
      /\ (failed[c] => failed'[c]) /\ failed' \in [Cached -> BOOLEAN]
      /\ settled' = [d \in Cached |-> settled'[d]]
  <2>1. failed \in [Cached -> BOOLEAN] /\ settled = [d \in Cached |-> settled[d]]
    BY DEF Reported
  <2>2. \/ UNCHANGED failed /\ \E x : settled' = [settled EXCEPT ![c] = x]
        \/ UNCHANGED settled /\ failed' = [failed EXCEPT ![c] = TRUE]
    BY <1>1
  <2>3. settled' = [d \in Cached |-> settled'[d]]
    BY <1>3, <2>1, <2>2
  <2> QED BY <1>3, <2>1, <2>2, <2>3
<1>6. verdict[b] = "settled" =>
        /\ DOMAIN settled'[c] = DOMAIN settled[c] \cup {id[b]}
        /\ settled'[c][id[b]] = b
        /\ \A i \in DOMAIN settled[c] : i # id[b] => settled'[c][i] = settled[c][i]
  BY <1>1, <1>3 DEF Reported
<1>7. \A d \in Cached : \A i \in DOMAIN settled'[d] : settled'[d][i] \in Await
  <2> TAKE d \in Cached
  <2>1. CASE d = c /\ verdict[b] = "settled"
    BY <1>3, <1>6, <2>1 DEF Reported
  <2>2. CASE settled'[d] = settled[d]
    BY <2>2 DEF Reported
  <2> QED BY <1>1, <1>5, <2>1, <2>2
<1>8. ASSUME NEW a \in Await, NEW d \in Cached, Told(a, d)' PROVE Known(a, d)'
  <2>0. /\ d \in ToSet(groups[a]) /\ verdict[a] # "none" /\ d \notin ToSet(todo'[a]) /\ a \in Runner
        /\ verdict'[a] = verdict[a] /\ id'[a] = id[a]
    BY <1>1, <1>4, <1>8 DEF Told
  <2>1. CASE a = b /\ d = c
    <3>1. verdict[b] # "settled" => failed'[c]
      BY <1>1, <1>3 DEF Reported
    <3> QED BY <1>6, <2>0, <2>1, <3>1 DEF Known
  <2>2. CASE ~(a = b /\ d = c)
    <3>1. Told(a, d) /\ Known(a, d)
      <4>1. d \notin ToSet(todo[a])
        BY <1>2, <1>3, <2>0, <2>2
      <4>2. Told(a, d)
        BY <1>1, <2>0, <4>1 DEF Told
      <4> QED BY <4>2 DEF Reported
    <3>2. CASE d # c
      BY <1>5, <2>0, <3>1, <3>2 DEF Known
    <3>3. CASE d = c /\ verdict[b] # "settled"
      BY <1>1, <1>5, <2>0, <3>1, <3>3 DEF Known
    <3>4. CASE d = c /\ verdict[b] = "settled"
      <4>1. CASE verdict[a] = "settled"
        <5>1. phase[a] # "idle"
          BY <2>0, Members
        <5>2. id[a] # id[b]
          BY <1>1, <2>2, <3>4, <5>1 DEF Numbered, Names, UniqueIds
        <5>3. id[a] \in DOMAIN settled[c] /\ settled[c][id[a]] = a
          BY <3>1, <3>4, <4>1 DEF Known
        <5> QED BY <1>6, <2>0, <3>4, <4>1, <5>2, <5>3 DEF Known
      <4>2. CASE verdict[a] # "settled"
        BY <1>5, <2>0, <3>1, <3>4, <4>2 DEF Known
      <4> QED BY <4>1, <4>2
    <3> QED BY <3>2, <3>3, <3>4
  <2> QED BY <2>1, <2>2
<1> QED BY <1>5, <1>7, <1>8 DEF Reported

\* Reported is an invariant.
LEMMA ReportedHolds ==
  ASSUME \A s \in Setting : CountsItself(s)
  PROVE  Spec => []Reported
<1>1. Init => Reported
  BY EmptyChain DEF Init, Reported, Told, All
<1>2. ShapeInv /\ Numbered /\ Reported /\ [Next]_vars => Reported'
  <2> SUFFICES ASSUME ShapeInv, Numbered, Reported, [Next]_vars PROVE Reported'
    OBVIOUS
  <2>0. Shape /\ Await \subseteq Runner /\ "document" \in Runner /\ "document" \notin Await
    BY Types DEF ShapeInv
  <2>1. CASE RenderAgain
    <3>1. \A b \in Await : groups'[b] = << >>
      BY <2>0, <2>1 DEF RenderAgain, All
    <3>2. /\ failed' \in [Cached -> BOOLEAN] /\ settled' = [c \in Cached |-> << >>]
          /\ DOMAIN << >> = {}
      BY <2>1 DEF RenderAgain, All
    <3>3. \A b \in Await, c \in Cached : ~Told(b, c)'
      BY <3>1, EmptyChain DEF Told
    <3> QED BY <3>2, <3>3 DEF Reported
  <2>2. ASSUME Moves, UNCHANGED << failed, settled >>,
               Streaming => \A b \in Await :
                 \/ verdict'[b] = "none"
                 \/ todo'[b] = groups'[b]
                 \/ /\ groups'[b] = groups[b] /\ verdict'[b] = verdict[b]
                    /\ todo'[b] = todo[b] /\ id'[b] = id[b]
        PROVE  Reported'
    <3>1. Streaming' = Streaming
      BY <2>2, MovesOn
    <3> QED BY <2>2, <3>1, ReportedStays DEF Told
  <2>3. ASSUME NEW g \in Runner, Step(g) PROVE Reported'
    <3>0. Moves
      BY <2>3 DEF Moves, Goroutines
    <3>1. UNCHANGED << failed, settled >>
      BY <2>3 DEF Step, EnterHit, EnterMiss, Leave, Place, Register, Start, SettleInPlace,
           InPlaceReturns, groupVars
    <3>2. CASE EnterHit(g) \/ EnterMiss(g) \/ Leave(g)
      <4>1. UNCHANGED << groups, verdict, todo, id >>
        BY <3>2 DEF EnterHit, EnterMiss, Leave, idVars
      <4> QED BY <2>2, <3>0, <3>1, <4>1
    <3>3. CASE Place(g)
      <4>a. PICK a : a = Node(g)
        OBVIOUS
      <4>1. /\ a \in Await /\ Stands(Ops, g, pc[g], "await", a) /\ phase[g] = "rendering"
        BY <3>3, <4>a, Instructed DEF Place
      <4>2. phase[a] = "idle"
        BY <4>1, AwaitedIsIdle
      <4>3. verdict[a] = "none" /\ verdict[g] = "none"
        BY <2>0, <4>1, <4>2 DEF ShapeInv, Progress, Working
      <4>4. /\ UNCHANGED << groups, verdict >>
            /\ \E x : id' = [id EXCEPT ![a] = x]
            /\ \E x : todo' = [todo EXCEPT ![g] = x]
        BY <3>3, <4>a DEF Place
      <4>5. \A b \in Await : /\ b # a => id'[b] = id[b]
                             /\ b # g => todo'[b] = todo[b]
        BY <2>0, <4>4 DEF Numbered, Shape
      <4> QED BY <2>2, <3>0, <3>1, <4>3, <4>4, <4>5
    <3>4. CASE Register(g)
      <4>1. /\ UNCHANGED << groups, verdict, id >> /\ verdict[g] = "none"
            /\ \A b \in Await : b # g => todo'[b] = todo[b]
        BY <2>0, <3>4 DEF Register, idVars, ShapeInv, Progress, Working, Shape
      <4> QED BY <2>2, <3>0, <3>1, <4>1
    <3>5. CASE Start(g)
      <4>1. PICK a \in Await : Stands(Ops, g, pc[g], "await", a)
        BY <3>5 DEF Start, ShapeInv, Progress
      <4>2. Node(g) = a /\ phase[g] = "opening"
        BY <3>5, <4>1 DEF Stands, Node, Start
      <4>3. phase[a] = "idle" /\ verdict[a] = "none"
        BY <2>0, <4>1, <4>2, AwaitedIsIdle DEF ShapeInv, Progress
      <4>4. /\ UNCHANGED << todo, verdict, id >>
            /\ \A b \in Await : b # a => groups'[b] = groups[b]
        BY <2>0, <3>5, <4>2 DEF Start, Shape
      <4> QED BY <2>2, <3>0, <3>1, <4>3, <4>4
    <3>6. CASE SettleInPlace(g) \/ InPlaceReturns(g)
      <4>1. ~Streaming
        BY <3>6 DEF SettleInPlace, InPlaceReturns, ShapeInv, Progress
      <4> QED BY <2>2, <3>0, <3>1, <4>1
    <3> QED BY <2>3, <3>2, <3>3, <3>4, <3>5, <3>6 DEF Step
  <2>4. ASSUME NEW b \in Await, Settling(b) PROVE Reported'
    <3>0. Moves
      BY <2>4 DEF Moves, Goroutines
    <3>1. CASE Report(b)
      BY <3>1, ReportReports
    <3>2. CASE ResolveOk(b) \/ LeaveQueue(b) \/ Returns(b)
      <4>1. UNCHANGED << groups, verdict, todo, id, failed, settled >>
        BY <3>2 DEF ResolveOk, LeaveQueue, Returns, idVars, groupVars
      <4> QED BY <2>2, <3>0, <4>1
    <3>3. CASE ResolveFails(b) \/ RenderEnds(b)
      <4>1. /\ UNCHANGED << groups, id, failed, settled >>
            /\ \A a \in Await : a # b => todo'[a] = todo[a]
            /\ Streaming => todo'[b] = groups[b]
        BY <2>0, <3>3 DEF ResolveFails, RenderEnds, Ends, idVars, groupVars, Shape
      <4>2. \A a \in Await : a # b => verdict'[a] = verdict[a]
        BY <2>0, <3>3 DEF ResolveFails, RenderEnds, Fails, Shape
      <4> QED BY <2>2, <3>0, <4>1, <4>2
    <3> QED BY <2>4, <3>1, <3>2, <3>3 DEF Settling
  <2>5. CASE DocumentEnds
    <3>1. /\ UNCHANGED << groups, todo, id, failed, settled >>
          /\ \A a \in Await : verdict'[a] = verdict[a]
      BY <2>0, <2>5 DEF DocumentEnds, Fails, idVars, groupVars, Shape
    <3> QED BY <2>2, <2>5, <3>1 DEF Moves
  <2>6. CASE Cancel \/ UNCHANGED vars
    BY <2>2, <2>6 DEF Cancel, vars, runVars, idVars, groupVars, Moves
  <2> QED BY <2>1, <2>3, <2>4, <2>5, <2>6, NextMoves DEF Moves, Goroutines
<1> QED BY <1>1, <1>2, ShapeInvHolds, NumberedHolds, PTL DEF Spec

\* Who starts a boundary.
LEMMA Begins ==
  ASSUME ShapeInv, Moves, NEW b \in Await, phase[b] = "idle", phase'[b] # "idle"
  PROVE  \E g \in Runner : (Start(g) \/ SettleInPlace(g)) /\ Node(g) = b
<1>0. Shape /\ "document" \in Runner /\ "document" \notin Await /\ b \in Runner
  BY Types DEF ShapeInv
<1>1. ASSUME NEW g \in Runner, Step(g), ~Start(g), ~SettleInPlace(g) PROVE FALSE
  <2>1. phase[g] # "idle" /\ \A h \in Runner : h # g => phase'[h] = phase[h]
    BY <1>0, <1>1 DEF Step, EnterHit, EnterMiss, Leave, Place, Register, InPlaceReturns, At, Shape
  <2> QED BY <1>0, <2>1
<1>2. ASSUME NEW g \in Runner, Start(g) \/ SettleInPlace(g) PROVE Node(g) = b
  <2>1. phase[g] # "idle" /\ \A h \in Runner : h # g /\ h # Node(g) => phase'[h] = phase[h]
    BY <1>0, <1>2 DEF Start, SettleInPlace, At, Shape
  <2> QED BY <1>0, <2>1
<1>3. ASSUME NEW x \in Await, Settling(x) PROVE FALSE
  <2>1. phase[x] # "idle" /\ \A h \in Runner : h # x => phase'[h] = phase[h]
    BY <1>0, <1>3 DEF Settling, ResolveOk, ResolveFails, LeaveQueue, RenderEnds, Report, Returns, Ends, Shape
  <2> QED BY <1>0, <2>1
<1>4. ~DocumentEnds /\ ~Cancel /\ ~(UNCHANGED vars)
  BY <1>0 DEF DocumentEnds, Cancel, vars, runVars, Shape
<1> QED BY <1>1, <1>2, <1>3, <1>4 DEF Moves, Goroutines

\* Who goes on to the next instruction, in place.
LEMMA Advances ==
  ASSUME ShapeInv, Moves, ~Streaming, NEW g \in Runner, pc'[g] # pc[g]
  PROVE  phase[g] = "rendering" \/ InPlaceReturns(g)
<1>0. Shape
  BY DEF ShapeInv
<1>1. ASSUME NEW h \in Runner, Step(h), h # g PROVE FALSE
  BY <1>0, <1>1 DEF Step, EnterHit, EnterMiss, Leave, Place, Register, Start, SettleInPlace,
     InPlaceReturns, Advance, Shape
<1>2. ASSUME Step(g), phase[g] # "rendering" PROVE InPlaceReturns(g)
  BY <1>2 DEF Step, EnterHit, EnterMiss, Leave, Place, Register, Start, SettleInPlace, At,
     ShapeInv, Progress
<1>3. \A x \in Await : ~Settling(x)
  BY DEF Settling, ResolveOk, ResolveFails, LeaveQueue, RenderEnds, Report, Returns, Ends
<1>4. ~DocumentEnds /\ ~Cancel /\ ~(UNCHANGED vars)
  BY DEF DocumentEnds, Cancel, vars, runVars
<1> QED BY <1>1, <1>2, <1>3, <1>4 DEF Moves, Goroutines

\* A boundary settled in place is not cancelled, and recovers only if it declares how.
LEMMA VerdictsInPlace ==
  ASSUME ShapeInv, InPlace, Moves, ~Streaming, NEW b \in Await
  PROVE  /\ verdict'[b] = "recovered" => b \in Recovers
         /\ verdict'[b] # "cancelled"
<1>0. Shape /\ "document" \in Runner /\ "document" \notin Await /\ b \in Runner /\ Await \subseteq Runner
  BY Types DEF ShapeInv
<1>1. verdict'[b] = verdict[b] => /\ verdict'[b] = "recovered" => b \in Recovers
                                  /\ verdict'[b] # "cancelled"
  BY DEF InPlace
<1>2. ASSUME NEW g \in Runner, Step(g)
      PROVE  verdict'[b] = verdict[b] \/ verdict'[b] = "failed"
  <2>1. verdict' = verdict \/ verdict' = [verdict EXCEPT ![g] = "failed"]
    BY <1>2 DEF Step, EnterHit, EnterMiss, Leave, Place, Register, Start, SettleInPlace,
       InPlaceReturns, Fails
  <2> QED BY <1>0, <2>1 DEF Shape
<1>3. ASSUME NEW x \in Await, Settling(x)
      PROVE  \/ verdict'[b] = verdict[b] \/ verdict'[b] \in {"settled", "failed"}
             \/ verdict'[b] = "recovered" /\ b \in Recovers
  <2>1. \/ verdict' = verdict
        \/ verdict' = [verdict EXCEPT ![x] = "failed"]
        \/ verdict' = [verdict EXCEPT ![x] = "settled"]
        \/ verdict' = [verdict EXCEPT ![x] = "recovered"] /\ x \in Recovers
    BY <1>3 DEF Settling, ResolveOk, ResolveFails, LeaveQueue, RenderEnds, Report, Returns, Fails
  <2> QED BY <1>0, <2>1 DEF Shape
<1>4. ASSUME DocumentEnds \/ Cancel \/ UNCHANGED vars PROVE verdict'[b] = verdict[b]
  BY <1>0, <1>4 DEF DocumentEnds, Fails, Cancel, vars, runVars, Shape
<1> QED BY <1>1, <1>2, <1>3, <1>4 DEF Moves, Goroutines

\* InPlace is an invariant.
LEMMA InPlaceHolds == Spec => []InPlace
<1>1. Fresh => InPlace
  <2> SUFFICES ASSUME Fresh PROVE InPlace
    OBVIOUS
  <2>1. "document" \in Runner /\ "document" \notin Await /\ Await \subseteq Runner
    BY Rendering DEF Fresh
  <2>2. \A b \in Await : phase[b] = "idle" /\ verdict[b] = "none"
    BY <2>1 DEF Fresh, Started, All
  <2> QED BY <2>2 DEF InPlace
<1>2. Init => InPlace
  BY <1>1 DEF Init, Fresh
<1>3. ShapeInv /\ InPlace /\ [Next]_vars => InPlace'
  <2> SUFFICES ASSUME ShapeInv, InPlace, [Next]_vars PROVE InPlace'
    OBVIOUS
  <2>1. CASE RenderAgain
    <3>1. Fresh'
      BY <2>1 DEF RenderAgain, Fresh, All, Started, ShapeInv, Shape
    <3> QED BY <1>1, <3>1, PTL
  <2>2. ASSUME Moves, ~Streaming PROVE InPlace'
    <3>0. /\ Ops' = Ops /\ Streaming' = Streaming /\ Recovers' = Recovers
          /\ \A h \in Runner : /\ pc'[h] \in Nat /\ pc'[h] >= pc[h]
                               /\ verdict[h] # "none" => verdict'[h] = verdict[h]
      BY <2>2, MovesOn
    <3>1. ASSUME Recovers = {}, NEW b \in Await, NEW g \in Runner, NEW j \in DOMAIN Ops[g],
                 Stands(Ops, g, j, "await", b), phase'[b] # "idle", j < pc'[g]
          PROVE  verdict'[b] = "settled"
      <4>0. b \in Runner /\ pc[g] \in Nat /\ j \in Nat
        BY <3>1, Types, Templates
      <4>1. phase[b] # "idle"
        <5> SUFFICES ASSUME phase[b] = "idle" PROVE FALSE
          OBVIOUS
        <5>1. PICK h \in Runner : (Start(h) \/ SettleInPlace(h)) /\ Node(h) = b
          BY <2>2, <3>1, Begins
        <5>2. SettleInPlace(h)
          BY <2>2, <5>1 DEF Start, ShapeInv, Progress
        <5>3. Stands(Ops, h, pc[h], "await", b) /\ UNCHANGED pc
          BY <5>1, <5>2, Instructed DEF SettleInPlace
        <5>4. h = g /\ j = pc[g]
          BY <3>1, <5>3, Types, OnePlace
        <5> QED BY <3>1, <4>0, <5>3, <5>4
      <4>2. CASE j < pc[g]
        <5>1. verdict[b] = "settled"
          BY <2>2, <3>1, <4>1, <4>2 DEF InPlace
        <5> QED BY <3>0, <4>0, <5>1
      <4>3. CASE ~(j < pc[g])
        <5>1. PICK x \in Runner : \E y \in DOMAIN Ops[x] : StartedBy(b, x, y)
          BY <4>1 DEF ShapeInv, Parented
        <5>2. PICK y \in DOMAIN Ops[x] : StartedBy(b, x, y)
          BY <5>1
        <5>3. x = g /\ y = j
          BY <3>1, <5>2, Types, OnePlace DEF StartedBy
        <5>4. j = pc[g] /\ Stuck(g)
          BY <4>3, <5>2, <5>3 DEF StartedBy
        <5>5. InPlaceReturns(g)
          <6>1. pc'[g] # pc[g]
            BY <3>1, <4>0, <5>4
          <6> QED BY <2>2, <5>4, <6>1, Advances DEF Stuck
        <5>6. Node(g) = b /\ phase[b] = "done" /\ verdict[b] # "failed"
          <6>1. Node(g) = b
            BY <3>1, <5>4 DEF Stands, Node
          <6>2. pc'[g] # pc[g]
            BY <3>1, <4>0, <5>4
          <6> QED BY <5>5, <6>1, <6>2 DEF InPlaceReturns
        <5>7. verdict[b] # "none" /\ verdict[b] \in {"none", "settled", "recovered", "failed", "cancelled"}
          BY <2>2, <4>0, <5>6 DEF ShapeInv, Shape, Progress
        <5>8. verdict[b] = "settled"
          BY <2>2, <3>1, <5>6, <5>7 DEF InPlace
        <5> QED BY <3>0, <4>0, <5>8
      <4> QED BY <4>2, <4>3
    <3>2. \A b \in Await : /\ verdict'[b] = "recovered" => b \in Recovers
                           /\ verdict'[b] # "cancelled"
      BY <2>2, VerdictsInPlace
    <3> QED BY <3>0, <3>1, <3>2 DEF InPlace
  <2>3. ASSUME Moves, Streaming PROVE InPlace'
    <3>1. Streaming' = Streaming
      BY <2>3, MovesOn
    <3> QED BY <2>3, <3>1 DEF InPlace
  <2> QED BY <2>1, <2>2, <2>3, NextMoves
<1> QED BY <1>2, <1>3, ShapeInvHolds, PTL DEF Spec

\* A captured component stays captured in a render.
LEMMA CapturedStays ==
  ASSUME Captured, Moves, NEW c \in Cached, captured[c]
  PROVE  captured'[c]
<1>1. ASSUME NEW g \in Runner, Step(g) PROVE captured'[c]
  <2>1. captured' = captured \/ captured' = [captured EXCEPT ![Node(g)] = TRUE]
    BY <1>1 DEF Step, EnterHit, EnterMiss, Leave, Place, Register, Start, SettleInPlace,
       InPlaceReturns, groupVars
  <2> QED BY <2>1 DEF Captured
<1>2. ASSUME NEW b \in Await, Settling(b) PROVE captured' = captured
  BY <1>2 DEF Settling, ResolveOk, ResolveFails, LeaveQueue, RenderEnds, Report, Returns, Ends, groupVars
<1>3. ASSUME DocumentEnds \/ Cancel \/ UNCHANGED vars PROVE captured' = captured
  BY <1>3 DEF DocumentEnds, Cancel, vars, groupVars
<1> QED BY <1>1, <1>2, <1>3 DEF Moves, Goroutines

\* Once its outcome is known, a boundary only tells its groups.
LEMMA TellingEnds ==
  ASSUME ShapeInv, Moves, NEW b \in Await, verdict[b] = "settled", NEW c, c \notin ToSet(todo[b])
  PROVE  c \notin ToSet(todo'[b])
<1>0. Shape /\ Progress(b) /\ b \in Runner /\ todo[b] \in Seq(Cached)
  BY Types DEF ShapeInv, Shape
<1>1. ASSUME NEW g \in Runner, Step(g) PROVE todo'[b] = todo[b]
  <2>1. todo' = todo \/ (phase[g] \in {"rendering", "opening"} /\ \E x : todo' = [todo EXCEPT ![g] = x])
    BY <1>1 DEF Step, EnterHit, EnterMiss, Leave, Place, Register, Start, SettleInPlace, InPlaceReturns, At
  <2>2. g = b => phase[g] \notin {"rendering", "opening"}
    BY <1>0 DEF Progress, Working
  <2> QED BY <1>0, <2>1, <2>2 DEF Shape
<1>2. ASSUME NEW x \in Await, Settling(x)
      PROVE  todo'[b] = todo[b] \/ (todo[b] # << >> /\ todo'[b] = Tail(todo[b]))
  <2>1. CASE Report(x)
    BY <1>0, <2>1 DEF Report, Shape
  <2>2. CASE ~Report(x)
    <3>1. todo' = todo \/ (phase[x] \in {"resolving", "rendering"} /\ \E y : todo' = [todo EXCEPT ![x] = y])
      BY <1>2, <2>2 DEF Settling, ResolveOk, ResolveFails, LeaveQueue, RenderEnds, Returns, Ends
    <3>2. x = b => phase[x] \notin {"resolving", "rendering"}
      BY <1>0 DEF Progress, Working
    <3> QED BY <1>0, <3>1, <3>2 DEF Shape
  <2> QED BY <2>1, <2>2
<1>3. ASSUME DocumentEnds \/ Cancel \/ UNCHANGED vars PROVE todo' = todo
  BY <1>3 DEF DocumentEnds, Cancel, vars, runVars
<1>4. todo[b] # << >> => ToSet(Tail(todo[b])) \subseteq ToSet(todo[b])
  BY <1>0, TailOf
<1> QED BY <1>1, <1>2, <1>3, <1>4 DEF Moves, Goroutines

\* A boundary joins a component that is being rendered, or that of one in it.
LEMMA Joins ==
  ASSUME ShapeInv, ShapeInv', Moves, NEW b \in Await, NEW c,
         c \in ToSet(groups'[b]), c \notin ToSet(groups[b])
  PROVE  \E g \in Runner : c \in Chain(g) /\ verdict[g] = "none"
<1>1. b \in Runner /\ phase[b] = "idle"
  BY MovesOn, Types
<1>2. phase'[b] # "idle"
  BY EmptyChain DEF ShapeInv, Parented
<1>3. PICK g \in Runner : (Start(g) \/ SettleInPlace(g)) /\ Node(g) = b
  BY <1>1, <1>2, Begins
<1>4. /\ groups' = [groups EXCEPT ![b] = Groups(g)] /\ phase[g] \in {"opening", "rendering"}
  BY <1>3 DEF Start, SettleInPlace, At
<1>5. groups'[b] = Groups(g) /\ verdict[g] = "none"
  BY <1>1, <1>4 DEF ShapeInv, Shape, Progress, Working
<1> QED BY <1>5, ChainOf

\* A component that is stored stays captured, and no boundary joins it unsettled.
LEMMA StoredStays ==
  ASSUME ShapeInv, ShapeInv', Captured, Stored, Moves, NEW c \in stored
  PROVE  captured'[c] /\ \A b \in Await : c \in ToSet(groups'[b]) => Settled(b, c)'
<1>1. c \in Cached /\ captured[c] /\ \A b \in Await : c \in ToSet(groups[b]) => Settled(b, c)
  BY DEF Stored
<1>2. captured'[c]
  BY <1>1, CapturedStays
<1>3. ASSUME NEW b \in Await, c \in ToSet(groups'[b]) PROVE c \in ToSet(groups[b])
  <2> SUFFICES ASSUME c \notin ToSet(groups[b]) PROVE FALSE
    OBVIOUS
  <2>1. PICK g \in Runner : c \in Chain(g) /\ verdict[g] = "none"
    BY <1>3, Joins
  <2>2. c \notin ToSet(frame[g])
    <3>1. PICK h \in Runner : \E k \in DOMAIN Ops[h] : k < pc[h] /\ Stands(Ops, h, k, "leave", c)
      BY <1>1 DEF Captured
    <3>2. PICK k \in DOMAIN Ops[h] : k < pc[h] /\ Stands(Ops, h, k, "leave", c)
      BY <3>1
    <3> QED BY <3>2, StillOpen
  <2>3. c \in ToSet(groups[g]) /\ g \in Await
    BY <2>1, <2>2, Types, EmptyChain DEF Chain, ShapeInv, Shape
  <2> QED BY <1>1, <2>1, <2>3 DEF Settled
<1>4. ASSUME NEW b \in Await, c \in ToSet(groups'[b]) PROVE Settled(b, c)'
  <2>1. verdict[b] = "settled" /\ c \notin ToSet(todo[b]) /\ b \in Runner
    BY <1>1, <1>3, <1>4, Types DEF Settled
  <2>2. verdict'[b] = "settled"
    BY <2>1, MovesOn
  <2>3. c \notin ToSet(todo'[b])
    BY <2>1, TellingEnds
  <2> QED BY <2>2, <2>3 DEF Settled
<1> QED BY <1>2, <1>4

\* What a step of publishLocked adds.
LEMMA StoredGrows ==
  ASSUME ShapeInv, ShapeInv', Captured, Stored, Moves, NEW c \in Cached, NEW map,
         \/ UNCHANGED << stored, entry >>
         \/ /\ stored' = stored \cup {c}
            /\ entry' = [entry EXCEPT ![c] = spliceSettled(c, map)]
            /\ \A i \in DOMAIN map : map[i] \in Await
            /\ c \notin stored /\ captured'[c]
            /\ \A b \in Await : c \in ToSet(groups'[b]) => Settled(b, c)'
            /\ \A pair \in spliceSettled(c, map) : pair[1] = pair[2]
  PROVE  Stored'
<1>1. \A d \in stored : captured'[d] /\ \A b \in Await : d \in ToSet(groups'[b]) => Settled(b, d)'
  BY StoredStays
<1>2. CASE UNCHANGED << stored, entry >>
  BY <1>1, <1>2 DEF Stored, StoredIsSettled
<1>3. CASE /\ stored' = stored \cup {c}
           /\ entry' = [entry EXCEPT ![c] = spliceSettled(c, map)]
           /\ \A i \in DOMAIN map : map[i] \in Await
           /\ c \notin stored /\ captured'[c]
           /\ \A b \in Await : c \in ToSet(groups'[b]) => Settled(b, c)'
           /\ \A pair \in spliceSettled(c, map) : pair[1] = pair[2]
  <2>1. PICK e \in SUBSET (Await \X (Await \cup {"placeholder", "failure"})) :
          e = spliceSettled(c, map)
    BY <1>3, Entries
  <2>2. /\ entry' = [entry EXCEPT ![c] = e] /\ \A pair \in e : pair[1] = pair[2]
    BY <1>3, <2>1
  <2>3. /\ entry' \in [Cached -> SUBSET (Await \X (Await \cup {"placeholder", "failure"}))]
        /\ entry'[c] = e /\ \A d \in Cached : d # c => entry'[d] = entry[d]
    BY <2>2 DEF Stored
  <2>4. stored' \subseteq Cached
    BY <1>3 DEF Stored
  <2>5. StoredIsSettled'
    BY <1>3, <2>2, <2>3 DEF Stored, StoredIsSettled
  <2>6. \A d \in stored' : captured'[d] /\ \A b \in Await : d \in ToSet(groups'[b]) => Settled(b, d)'
    BY <1>1, <1>3
  <2> QED BY <2>3, <2>4, <2>5, <2>6 DEF Stored
<1> QED BY <1>2, <1>3

\* Leave stores a component whose boundaries have all settled, and its entry is theirs.
LEMMA LeaveStores ==
  ASSUME ShapeInv, ShapeInv', Captured, Captured', CountInv, Reported, InPlace, Opening, Stored,
         Streaming \/ Recovers = {}, NEW g \in Runner, Leave(g)
  PROVE  Stored'
<1>a. PICK c : c = Node(g)
  OBVIOUS
<1>b. PICK map : map = settled'[c]
  OBVIOUS
<1>1. /\ c \in Cached /\ Stands(Ops, g, pc[g], "leave", c) /\ pc[g] \in DOMAIN Ops[g] /\ pc[g] \in Nat
  BY <1>a, Instructed DEF Leave
<1>2. /\ captured' = [captured EXCEPT ![c] = TRUE]
      /\ UNCHANGED << pending, failed, settled, groups, verdict, todo, id >>
      /\ Moves
      /\ IF c \notin stored /\ ~failed'[c] /\ captured'[c] /\ pending'[c] = 0
         THEN /\ stored' = stored \cup {c}
              /\ entry' = [entry EXCEPT ![c] = spliceSettled(c, map)]
         ELSE UNCHANGED << stored, entry >>
  BY <1>a, <1>b DEF Leave, publishLocked, Moves, Goroutines, Step, idVars
<1>3. ASSUME ~failed[c], pending[c] = 0
      PROVE  /\ \A b \in Await : c \in ToSet(groups[b]) =>
                  Settled(b, c) /\ (Streaming => id[b] \in DOMAIN map /\ map[id[b]] = b)
  <2>1. CASE Streaming
    BY <1>1, <1>2, <1>3, <1>b, <2>1, AllReported DEF AllTold
  <2>2. CASE ~Streaming
    <3>0. PICK k \in DOMAIN Ops[g] : k = pc[g]
      BY <1>1
    <3>1. \A b \in Await : c \in ToSet(groups[b]) => verdict[b] = "settled"
      BY <1>1, <2>2, <3>0, AllSettledInPlace
    <3>2. \A b \in Await : phase[b] \notin {"opening", "settling"} /\ todo[b] = << >>
      BY <2>2, Types DEF ShapeInv, Progress, Telling
    <3> QED BY <2>2, <3>1, <3>2, EmptyChain DEF Settled
  <2> QED BY <2>1, <2>2
<1>4. ASSUME ~failed[c], pending[c] = 0
      PROVE  \A pair \in spliceSettled(c, map) : pair[1] = pair[2]
  <2>0. PICK k \in DOMAIN Ops[g] : k = pc[g]
    BY <1>1
  <2>1. Stands(Ops, g, k, "leave", c) /\ k <= pc[g]
    BY <1>1, <2>0
  <2>2. \A b \in Await : c \in ToSet(groups[b]) =>
          verdict[b] = "settled" /\ (Streaming => id[b] \in DOMAIN map /\ map[id[b]] = b)
    BY <1>3, <1>4 DEF Settled
  <2> QED BY <1>1, <2>1, <2>2, Publishes
<1>5. \A i \in DOMAIN map : map[i] \in Await
  BY <1>1, <1>2, <1>b DEF Reported
<1>6. ASSUME ~failed[c], pending[c] = 0
      PROVE  \A b \in Await : c \in ToSet(groups'[b]) => Settled(b, c)'
  BY <1>2, <1>3, <1>6 DEF Settled
<1>7. \/ UNCHANGED << stored, entry >>
      \/ /\ stored' = stored \cup {c}
         /\ entry' = [entry EXCEPT ![c] = spliceSettled(c, map)]
         /\ \A i \in DOMAIN map : map[i] \in Await
         /\ c \notin stored /\ captured'[c]
         /\ \A b \in Await : c \in ToSet(groups'[b]) => Settled(b, c)'
         /\ \A pair \in spliceSettled(c, map) : pair[1] = pair[2]
  BY <1>2, <1>4, <1>5, <1>6
<1> QED BY <1>1, <1>2, <1>7, StoredGrows

\* Report stores a component once its last boundary has settled.
LEMMA ReportStores ==
  ASSUME ShapeInv, ShapeInv', Captured, Captured', CountInv', Reported', Opening, Stored,
         NEW a \in Await, Report(a)
  PROVE  Stored'
<1>a. PICK c : c = Head(todo[a])
  OBVIOUS
<1>b. PICK map : map = settled'[c]
  OBVIOUS
<1>1. /\ phase[a] = "settling" /\ todo[a] # << >> /\ Streaming
      /\ UNCHANGED << setting, phase, groups, verdict, id, captured >>
      /\ Moves
      /\ \/ UNCHANGED << stored, entry >>
         \/ /\ c \notin stored /\ ~failed'[c] /\ captured'[c] /\ pending'[c] = 0
            /\ stored' = stored \cup {c}
            /\ entry' = [entry EXCEPT ![c] = spliceSettled(c, map)]
  BY <1>a, <1>b, Types DEF Report, publishLocked, Moves, Goroutines, Settling, idVars, pastVars,
     ShapeInv, Progress
<1>2. c \in Cached /\ Streaming'
  <2>1. todo[a] \in Seq(Cached)
    BY Types DEF ShapeInv, Shape
  <2> QED BY <1>a, <1>1, <2>1, TailOf DEF Streaming
<1>3. ShapeInv' /\ CountInv' /\ Reported' /\ Streaming'
  BY <1>2
<1>4. AllTold'
  BY <1>3, AllReported, PTL
<1>5. ASSUME ~failed'[c], pending'[c] = 0
      PROVE  \A b \in Await : c \in ToSet(groups'[b]) =>
               Settled(b, c)' /\ id[b] \in DOMAIN map /\ map[id[b]] = b
  BY <1>1, <1>2, <1>4, <1>5, <1>b DEF AllTold
<1>6. ASSUME ~failed'[c], pending'[c] = 0, captured[c]
      PROVE  \A pair \in spliceSettled(c, map) : pair[1] = pair[2]
  <2>1. PICK h \in Runner : \E k \in DOMAIN Ops[h] : k < pc[h] /\ Stands(Ops, h, k, "leave", c)
    BY <1>2, <1>6 DEF Captured
  <2>2. PICK k \in DOMAIN Ops[h] : k < pc[h] /\ Stands(Ops, h, k, "leave", c)
    BY <2>1
  <2>3. k <= pc[h]
    BY <2>2, Types, Templates
  <2>4. \A b \in Await : c \in ToSet(groups[b]) =>
          verdict[b] = "settled" /\ (Streaming => id[b] \in DOMAIN map /\ map[id[b]] = b)
    BY <1>1, <1>5, <1>6 DEF Settled
  <2> QED BY <1>2, <2>2, <2>3, <2>4, Publishes
<1>7. \A i \in DOMAIN map : map[i] \in Await
  BY <1>2, <1>b DEF Reported
<1>8. \/ UNCHANGED << stored, entry >>
      \/ /\ stored' = stored \cup {c}
         /\ entry' = [entry EXCEPT ![c] = spliceSettled(c, map)]
         /\ \A i \in DOMAIN map : map[i] \in Await
         /\ c \notin stored /\ captured'[c]
         /\ \A b \in Await : c \in ToSet(groups'[b]) => Settled(b, c)'
         /\ \A pair \in spliceSettled(c, map) : pair[1] = pair[2]
  BY <1>1, <1>5, <1>6, <1>7
<1> QED BY <1>1, <1>2, <1>8, StoredGrows

\* The hypotheses under which what is stored is right.
Accepted(s) == CountsItself(s) /\ (s.streaming \/ s.recovers = {})

\* Stored is an invariant.
LEMMA StoredHolds ==
  ASSUME \A s \in Setting : Accepted(s)
  PROVE  Spec => []Stored
<1>0. \A s \in Setting : CountsItself(s)
  BY DEF Accepted
<1>1. Init => Stored
  BY DEF Init, Stored, StoredIsSettled, All
<1> DEFINE Lemmas == ShapeInv /\ Captured /\ CountInv /\ Reported /\ InPlace /\ Opening
<1>2. Lemmas /\ Lemmas' /\ Stored /\ [Next]_vars => Stored'
  <2> SUFFICES ASSUME Lemmas, Lemmas', Stored, [Next]_vars PROVE Stored'
    OBVIOUS
  <2>0. Streaming \/ Recovers = {}
    BY Types DEF Accepted, Streaming, Recovers
  <2>1. CASE RenderAgain
    BY <2>1 DEF RenderAgain, Stored, StoredIsSettled, All
  <2>2. ASSUME Moves, UNCHANGED << stored, entry >> PROVE Stored'
    BY <2>2, StoredStays DEF Stored, StoredIsSettled
  <2>3. ASSUME NEW g \in Runner, Step(g) PROVE Stored'
    <3>1. CASE Leave(g)
      BY <2>0, <3>1, LeaveStores
    <3>2. CASE ~Leave(g)
      <4>1. Moves /\ UNCHANGED << stored, entry >>
        BY <2>3, <3>2 DEF Moves, Goroutines, Step, EnterHit, EnterMiss, Place, Register, Start,
           SettleInPlace, InPlaceReturns, groupVars
      <4> QED BY <2>2, <4>1
    <3> QED BY <3>1, <3>2
  <2>4. ASSUME NEW b \in Await, Settling(b) PROVE Stored'
    <3>1. CASE Report(b)
      BY <3>1, ReportStores
    <3>2. CASE ~Report(b)
      <4>1. Moves /\ UNCHANGED << stored, entry >>
        BY <2>4, <3>2 DEF Moves, Goroutines, Settling, ResolveOk, ResolveFails, LeaveQueue, RenderEnds,
           Returns, Ends, groupVars
      <4> QED BY <2>2, <4>1
    <3> QED BY <3>1, <3>2
  <2>5. CASE DocumentEnds \/ Cancel \/ UNCHANGED vars
    <3>1. Moves /\ UNCHANGED << stored, entry >>
      BY <2>5 DEF Moves, DocumentEnds, Cancel, vars, groupVars
    <3> QED BY <2>2, <3>1
  <2> QED BY <2>1, <2>3, <2>4, <2>5, NextMoves DEF Moves, Goroutines
<1> QED BY <1>0, <1>1, <1>2, ShapeInvHolds, CapturedHolds, CountInvHolds, ReportedHolds, InPlaceHolds,
        OpeningHolds, PTL DEF Spec

\* What lasts from one render to the next.
Ranges ==
  /\ cancelled \in BOOLEAN
  /\ stored \subseteq Cached
  /\ held \subseteq Cached /\ before \subseteq Cached
  /\ earlier \in [Await -> Seq(Nat)]
  /\ renders \in 1 .. setting.renders

\* The rest of the state keeps its range.
LEMMA RangesHold ==
  ASSUME \A s \in Setting : CountsItself(s)
  PROVE  Spec => []Ranges
<1>1. Init => Ranges
  <2> SUFFICES ASSUME Init PROVE Ranges
    OBVIOUS
  <2>1. setting \in Setting /\ cancelled = FALSE /\ held \in SUBSET Cached /\ stored = {}
        /\ earlier = [b \in Await |-> << >>] /\ before = {} /\ renders = 1
    BY DEF Init
  <2>2. setting.renders \in Nat /\ setting.renders # 0
    BY <2>1, TemplateAssumption
  <2>3. 1 \in 1 .. setting.renders
    BY <2>2
  <2>4. << >> \in Seq(Nat)
    OBVIOUS
  <2> QED BY <2>1, <2>3, <2>4 DEF Ranges
<1>2. ShapeInv /\ Numbered /\ Ranges /\ [Next]_vars => Ranges'
  <2> SUFFICES ASSUME ShapeInv, Numbered, Ranges, [Next]_vars PROVE Ranges'
    OBVIOUS
  <2>0. setting \in Setting /\ setting.renders \in Nat
    BY Types, TemplateAssumption
  <2>1. CASE RenderAgain
    <3>1. renders' \in 1 .. setting'.renders
      BY <2>0, <2>1 DEF RenderAgain, Ranges
    <3>2. stored' = {} /\ held' \in SUBSET (held \cup stored) /\ before' = held
      BY <2>1 DEF RenderAgain
    <3> QED BY <2>1, <3>1, <3>2 DEF RenderAgain, Ranges, Numbered
  <2>2. ASSUME UNCHANGED pastVars, cancelled' \in BOOLEAN, stored' \subseteq Cached PROVE Ranges'
    BY <2>2 DEF Ranges, pastVars
  <2>3. ASSUME NEW c \in Cached, publishLocked(c) PROVE stored' \subseteq Cached
    BY <2>3 DEF publishLocked, Ranges
  <2>4. ASSUME NEW g \in Runner, Step(g)
        PROVE  UNCHANGED pastVars /\ cancelled' = cancelled /\ stored' \subseteq Cached
    <3>1. UNCHANGED pastVars /\ cancelled' = cancelled
      BY <2>4 DEF Step, EnterHit, EnterMiss, Leave, Place, Register, Start, SettleInPlace, InPlaceReturns
    <3>2. CASE Leave(g)
      <4>1. Node(g) \in Cached
        BY <3>2, Instructed DEF Leave
      <4> QED BY <2>3, <3>1, <3>2, <4>1 DEF Leave
    <3>3. CASE ~Leave(g)
      <4>1. stored' = stored
        BY <2>4, <3>3 DEF Step, EnterHit, EnterMiss, Place, Register, Start, SettleInPlace, InPlaceReturns,
           groupVars
      <4> QED BY <3>1, <4>1 DEF Ranges
    <3> QED BY <3>2, <3>3
  <2>5. ASSUME NEW b \in Await, Settling(b)
        PROVE  UNCHANGED pastVars /\ cancelled' = cancelled /\ stored' \subseteq Cached
    <3>1. UNCHANGED pastVars /\ cancelled' = cancelled
      BY <2>5 DEF Settling, ResolveOk, ResolveFails, LeaveQueue, RenderEnds, Report, Returns, Ends
    <3>2. CASE Report(b)
      <4>1. todo[b] \in Seq(Cached) /\ todo[b] # << >>
        BY <3>2, Types DEF Report, ShapeInv, Shape
      <4>2. Head(todo[b]) \in Cached
        BY <4>1, TailOf
      <4>3. publishLocked(Head(todo[b])) \/ stored' = stored
        BY <3>2 DEF Report
      <4> QED BY <2>3, <3>1, <4>2, <4>3 DEF Ranges
    <3>3. CASE ~Report(b)
      <4>1. stored' = stored
        BY <2>5, <3>3 DEF Settling, ResolveOk, ResolveFails, LeaveQueue, RenderEnds, Returns, Ends, groupVars
      <4> QED BY <3>1, <4>1 DEF Ranges
    <3> QED BY <3>2, <3>3
  <2>6. ASSUME DocumentEnds \/ Cancel \/ UNCHANGED vars
        PROVE  UNCHANGED pastVars /\ cancelled' \in {cancelled, TRUE} /\ stored' = stored
    BY <2>6 DEF DocumentEnds, Cancel, vars, groupVars
  <2>7. cancelled \in BOOLEAN /\ stored \subseteq Cached
    BY DEF Ranges
  <2> QED BY <2>1, <2>2, <2>4, <2>5, <2>6, <2>7, NextMoves DEF Moves, Goroutines
<1> QED BY <1>1, <1>2, ShapeInvHolds, NumberedHolds, PTL DEF Spec

\* What the store holds is the settled form of a success: no placeholder and no rendered
\* failure is stored under a component's key, in whatever order its boundaries settle and
\* its components are captured. Two kinds of template are left out, because the code
\* does store something else there: a component entered before the document's first
\* boundary counts its identifiers apart from the document, and a synchronous render
\* stores what a recover subtree showed.
THEOREM StoreStaysSound ==
  ASSUME \A s \in Setting : Accepted(s)
  PROVE  Spec => []StoreIsSound
<1>0. \A s \in Setting : CountsItself(s)
  BY DEF Accepted
<1> DEFINE Inv == ShapeInv /\ Numbered /\ CountInv /\ Captured /\ Reported /\ Stored /\ Ranges
<1>1. Inv => StoreIsSound
  <2> SUFFICES ASSUME Inv PROVE StoreIsSound
    OBVIOUS
  <2>1. Shape
    BY DEF ShapeInv
  <2>2. /\ setting \in Setting
        /\ phase \in [Runner -> {"idle", "opening", "blocked", "resolving", "rendering",
                                 "settling", "done"}]
        /\ pc \in [Runner -> Nat]
        /\ frame \in [Runner -> Seq(Cached)] /\ groups \in [Runner -> Seq(Cached)]
        /\ todo \in [Runner -> Seq(Cached)]
        /\ verdict \in [Runner -> {"none", "settled", "recovered", "failed", "cancelled"}]
    BY <2>1 DEF Shape
  <2>3. /\ counter \in [Runner \cup Cached -> {"nil"} \cup Runner \cup Cached]
        /\ count \in [Runner \cup Cached -> Nat]
        /\ id \in [Await -> Seq(Nat)]
    BY DEF Numbered
  <2>4. pending \in [Cached -> Nat]
    BY DEF CountInv
  <2>5. /\ captured \in [Cached -> BOOLEAN] /\ failed \in [Cached -> BOOLEAN]
        /\ \A c \in Cached : \A i \in DOMAIN settled[c] : settled[c][i] \in Await
    BY DEF Captured, Reported
  <2>6. /\ stored \subseteq Cached
        /\ entry \in [Cached -> SUBSET (Await \X (Await \cup {"placeholder", "failure"}))]
        /\ StoredIsSettled
    BY DEF Stored
  <2>7. /\ cancelled \in BOOLEAN /\ held \subseteq Cached /\ before \subseteq Cached
        /\ earlier \in [Await -> Seq(Nat)]
        /\ renders \in 1 .. setting.renders
    BY DEF Ranges
  <2>8. TypeOK
    BY <2>2, <2>3, <2>4, <2>5, <2>6, <2>7 DEF TypeOK
  <2>9. NoFailureStored
    BY DEF NoFailureStored, Stored, Settled
  <2> QED BY <2>6, <2>8, <2>9 DEF StoreIsSound
<1> QED BY <1>0, <1>1, ShapeInvHolds, NumberedHolds, CountInvHolds, CapturedHolds, ReportedHolds,
        StoredHolds, RangesHold, PTL

-----------------------------------------------------------------------------
(* The same identifiers again. *)

\* The boundaries g opens before j, when the components of hits are hits.
OpenedBefore(ops, hits, g, j) ==
  { i \in DOMAIN ops[g] : i < j /\ ops[g][i].op = "await" /\ Around(ops, g, i) \cap hits = {} }

Number(ops, hits, g, j) == Cardinality(OpenedBefore(ops, hits, g, j))

\* g has counted the boundaries its instructions opened.
Tally(g) == count[g] = Number(Ops, held, g, pc[g]) + (IF phase[g] = "opening" THEN 1 ELSE 0)

Tallied == Streaming => \A g \in Runner : Tally(g)

\* What g is rendering is no hit.
Missing == \A g \in Runner : ToSet(frame[g]) \cap held = {}

\* In ids, b has the number of its instruction, which no hit skips.
InOrder(ids, hits, b, g, j) ==
  /\ Stands(Ops, g, j, "await", b)
  /\ Around(Ops, g, j) \cap hits = {}
  /\ ids[b] = Append(IF g = "document" THEN << >> ELSE ids[g], Number(Ops, hits, g, j) + 1)
  /\ g # "document" => ids[g] # << >>

Ordered(ids, hits) ==
  \A b \in Await : ids[b] # << >> =>
    \E g \in Runner : \E j \in DOMAIN Ops[g] : InOrder(ids, hits, b, g, j)

SameInv ==
  /\ held \subseteq Cached /\ before \subseteq Cached
  /\ Streaming => Ordered(id, held) /\ Ordered(earlier, before) /\ SameIdsAgain

\* Cardinality counts the boundaries before an instruction.
LEMMA FiniteBefore ==
  ASSUME NEW ops \in [Runner -> Seq(Instruction)], NEW hits, NEW g \in Runner, NEW j
  PROVE  IsFiniteSet(OpenedBefore(ops, hits, g, j)) /\ Number(ops, hits, g, j) \in Nat
<1>1. DOMAIN ops[g] = 1 .. Len(ops[g]) /\ Len(ops[g]) \in Nat
  BY Templates
<1>2. IsFiniteSet(1 .. Len(ops[g]))
  BY <1>1, FS_Interval
<1>3. OpenedBefore(ops, hits, g, j) \subseteq DOMAIN ops[g]
  BY DEF OpenedBefore
<1> QED BY <1>1, <1>2, <1>3, FS_Subset, FS_CardinalityType DEF Number

\* One boundary more is open after an instruction that is an await outside the hits, and
\* as many after any other.
LEMMA BeforeNext ==
  ASSUME NEW ops \in [Runner -> Seq(Instruction)], NEW hits, NEW g \in Runner, NEW j \in DOMAIN ops[g],
         Around(ops, g, j) \cap hits = {} \/ ops[g][j].op # "await"
  PROVE  Number(ops, hits, g, j + 1) =
           Number(ops, hits, g, j) + (IF ops[g][j].op = "await" THEN 1 ELSE 0)
<1>1. DOMAIN ops[g] = 1 .. Len(ops[g]) /\ Len(ops[g]) \in Nat
  BY Templates
<1>2. \A i \in DOMAIN ops[g] : i < j + 1 <=> i < j \/ i = j
  BY <1>1
<1>3. IsFiniteSet(OpenedBefore(ops, hits, g, j)) /\ Number(ops, hits, g, j) \in Nat
  BY FiniteBefore
<1>4. CASE ops[g][j].op = "await"
  <2>1. /\ OpenedBefore(ops, hits, g, j + 1) = OpenedBefore(ops, hits, g, j) \cup {j}
        /\ j \notin OpenedBefore(ops, hits, g, j)
    BY <1>1, <1>2, <1>4 DEF OpenedBefore
  <2>2. Number(ops, hits, g, j + 1) = Number(ops, hits, g, j) + 1
    BY <1>3, <2>1, FS_AddElement DEF Number
  <2> QED BY <1>4, <2>2
<1>5. CASE ops[g][j].op # "await"
  <2>1. OpenedBefore(ops, hits, g, j + 1) = OpenedBefore(ops, hits, g, j)
    BY <1>2, <1>5 DEF OpenedBefore
  <2> QED BY <1>3, <1>5, <2>1 DEF Number
<1> QED BY <1>4, <1>5

\* A hit opens no boundary.
LEMMA Skipped ==
  ASSUME NEW ops \in [Runner -> Seq(Instruction)], IsTree(ops), NEW hits, NEW g \in Runner, NEW j, NEW k,
         NEW c \in Cached \cap hits, Stands(ops, g, j, "enter", c), Stands(ops, g, k, "leave", c)
  PROVE  Number(ops, hits, g, k + 1) = Number(ops, hits, g, j)
<1>1. /\ j \in DOMAIN ops[g] /\ k \in DOMAIN ops[g] /\ ops[g][j].op = "enter"
      /\ ops[g][k].op = "leave" /\ \A i \in DOMAIN ops[g] : i \in Nat
  BY Templates
<1>2. j < k
  BY <1>1, Bracketed
<1>3. ASSUME NEW i \in DOMAIN ops[g], ops[g][i].op = "await", Around(ops, g, i) \cap hits = {}
      PROVE  i < k + 1 <=> i < j
  <2>1. i # j /\ i # k
    BY <1>1, <1>3
  <2>2. ~(j < i /\ i < k)
    <3> SUFFICES ASSUME j < i, i < k PROVE FALSE
      OBVIOUS
    <3>1. i <= k
      BY <1>1
    <3>2. c \in Around(ops, g, i)
      BY <1>1, <3>1 DEF Around
    <3> QED BY <1>3, <3>2
  <2> QED BY <1>1, <1>2, <2>1, <2>2
<1>4. OpenedBefore(ops, hits, g, k + 1) = OpenedBefore(ops, hits, g, j)
  BY <1>3 DEF OpenedBefore
<1> QED BY <1>4 DEF Number

\* Where no component shifts that is a hit in one render only, an instruction both
\* renders reach has one number.
LEMMA NumbersAgree ==
  ASSUME Ops \in [Runner -> Seq(Instruction)], IsTree(Ops), NEW hits \in SUBSET Cached, NEW others \in SUBSET Cached,
         \A c \in (hits \ others) \cup (others \ hits) : ~Shifts(c),
         NEW g \in Runner, NEW j, NEW b, Stands(Ops, g, j, "await", b),
         Around(Ops, g, j) \cap hits = {}, Around(Ops, g, j) \cap others = {}
  PROVE  Number(Ops, hits, g, j) = Number(Ops, others, g, j)
<1>1. j \in DOMAIN Ops[g] /\ Ops[g][j].op = "await" /\ \A i \in DOMAIN Ops[g] : i \in Nat
  BY Templates
<1>2. ASSUME NEW i \in DOMAIN Ops[g], i < j, Ops[g][i].op = "await", NEW c \in Cached,
             c \in Around(Ops, g, i), c \notin Around(Ops, g, j)
      PROVE  Shifts(c)
  <2>1. PICK m \in DOMAIN Ops[g] : m < i /\ Stands(Ops, g, m, "enter", c)
    BY <1>2 DEF Around
  <2>2. PICK k \in DOMAIN Ops[g] : i <= k /\ Stands(Ops, g, k, "leave", c)
    BY <1>2 DEF Around
  <2>3. Ops[g][k].op = "leave" /\ k # i
    BY <1>2, <2>2, Templates
  <2>4. m < j
    BY <1>1, <1>2, <2>1
  <2>5. ~(j <= k)
    BY <1>2, <2>1, <2>2, <2>4 DEF Around
  <2>6. i < k /\ k < j
    BY <1>1, <2>2, <2>3, <2>5
  <2> QED BY <1>1, <1>2, <2>1, <2>2, <2>6 DEF Shifts
<1>3. ASSUME NEW i \in DOMAIN Ops[g], i < j, Ops[g][i].op = "await"
      PROVE  Around(Ops, g, i) \cap hits = {} <=> Around(Ops, g, i) \cap others = {}
  <2>1. \A c \in Cached : c \in Around(Ops, g, i) => (c \in hits <=> c \in others)
    BY <1>2, <1>3
  <2>2. Around(Ops, g, i) \subseteq Cached
    BY DEF Around
  <2> QED BY <2>1, <2>2
<1>4. OpenedBefore(Ops, hits, g, j) = OpenedBefore(Ops, others, g, j)
  BY <1>3 DEF OpenedBefore
<1> QED BY <1>4 DEF Number

\* A goroutine that issues no identifier keeps its tally.
LEMMA TallyStays ==
  ASSUME setting' = setting, held' = held, NEW h, Tally(h), count'[h] = count[h], pc'[h] = pc[h],
         phase[h] = "opening" <=> phase'[h] = "opening"
  PROVE  Tally(h)'
BY DEF Tally, Ops

\* The store answers alike during a render.
LEMMA HitsStay ==
  ASSUME Moves
  PROVE  UNCHANGED pastVars
BY DEF Moves, Goroutines, Step, EnterHit, EnterMiss, Leave, Place, Register, Start, SettleInPlace,
       InPlaceReturns, Settling, ResolveOk, ResolveFails, LeaveQueue, RenderEnds, Report, Returns, Ends,
       DocumentEnds, Cancel, vars

\* A goroutine that passes a component, or goes through one.
LEMMA StepTallies ==
  ASSUME ShapeInv, Numbered, Tallied, Missing, CountsItself(setting), Streaming,
         NEW g \in Runner, Step(g)
  PROVE  Tallied'
<1>0. /\ Shape /\ Await \subseteq Runner /\ setting' = setting /\ Ops' = Ops /\ Streaming' = Streaming
      /\ Ops \in [Runner -> Seq(Instruction)] /\ IsTree(Ops) /\ Moves /\ held' = held
      /\ \A h \in Runner : pc[h] \in Nat /\ Tally(h)
  <2>1. Moves
    BY DEF Moves, Goroutines
  <2>2. held' = held
    BY <2>1, HitsStay DEF pastVars
  <2> QED BY <2>1, <2>2, MovesOn, Types DEF ShapeInv, Tallied
<1>1. Number(Ops, held, g, pc[g]) \in Nat
  BY <1>0, FiniteBefore
<1>2. ASSUME \A h \in Runner : h # g => Tally(h)', Tally(g)' PROVE Tallied'
  BY <1>2 DEF Tallied
<1>3. ASSUME phase[g] = "rendering", UNCHANGED << phase, count >>,
             \A h \in Runner : h # g => pc'[h] = pc[h],
             Number(Ops, held, g, pc'[g]) = Number(Ops, held, g, pc[g])
      PROVE  Tallied'
  <2>1. \A h \in Runner : h # g => Tally(h)'
    BY <1>0, <1>3, TallyStays
  <2>2. Tally(g)'
    BY <1>0, <1>3 DEF Tally
  <2> QED BY <1>2, <2>1, <2>2
<1>4. CASE EnterHit(g)
  <2>a. PICK c : c = Node(g)
    OBVIOUS
  <2>1. /\ phase[g] = "rendering" /\ c \in Cached \cap held
        /\ Stands(Ops, g, pc[g], "enter", c)
    BY <1>4, <2>a, Instructed DEF EnterHit
  <2>2. PICK i \in DOMAIN Ops[g] : /\ Ops[g][i] = [op |-> "leave", node |-> c]
                                   /\ pc' = [pc EXCEPT ![g] = i + 1]
    BY <1>4, <2>a DEF EnterHit
  <2>3. Stands(Ops, g, i, "leave", c) /\ pc'[g] = i + 1 /\ \A h \in Runner : h # g => pc'[h] = pc[h]
    BY <1>0, <2>2 DEF Shape, Stands
  <2>4. UNCHANGED << phase, count >>
    BY <1>4 DEF EnterHit, idVars
  <2>5. Number(Ops, held, g, i + 1) = Number(Ops, held, g, pc[g])
    BY <1>0, <2>1, <2>3, Skipped
  <2> QED BY <1>3, <2>1, <2>3, <2>4, <2>5
<1>5. CASE EnterMiss(g) \/ Leave(g)
  <2>1. pc[g] \in DOMAIN Ops[g] /\ phase[g] = "rendering" /\ Ops[g][pc[g]].op # "await"
    BY <1>5, Instructed DEF EnterMiss, Leave, At
  <2>2. /\ pc'[g] = pc[g] + 1 /\ \A h \in Runner : h # g => pc'[h] = pc[h]
        /\ UNCHANGED << phase, count >>
    BY <1>0, <1>5 DEF EnterMiss, Leave, Advance, idVars, Shape
  <2>3. Number(Ops, held, g, pc[g] + 1) = Number(Ops, held, g, pc[g]) + 0
    BY <1>0, <2>1, BeforeNext
  <2> QED BY <1>1, <1>3, <2>1, <2>2, <2>3
<1>6. CASE Place(g)
  <2>1. phase[g] = "rendering" /\ count[g] = Number(Ops, held, g, pc[g])
    BY <1>0, <1>1, <1>6, Instructed DEF Place, At, Tally
  <2>2. count' = [count EXCEPT ![g] = @ + 1]
    <3>1. counter[Renderer(g)] = g \/ (counter[Renderer(g)] = "nil" /\ Renderer(g) = g)
      BY <2>1, OwnCounter
    <3>2. "nil" \notin Runner
      BY TemplateAssumption
    <3> QED BY <1>6, <3>1, <3>2 DEF Place
  <2>3. /\ count'[g] = count[g] + 1 /\ phase'[g] = "opening" /\ UNCHANGED pc
        /\ \A h \in Runner : h # g => count'[h] = count[h] /\ phase'[h] = phase[h]
    BY <1>0, <1>6, <2>2 DEF Place, Shape, Numbered
  <2>4. Tally(g)'
    BY <1>0, <2>1, <2>3 DEF Tally
  <2>5. \A h \in Runner : h # g => Tally(h)'
    BY <1>0, <2>3, TallyStays
  <2> QED BY <1>2, <2>4, <2>5
<1>7. CASE Register(g)
  <2>1. UNCHANGED << count, phase, pc >>
    BY <1>7 DEF Register, idVars
  <2>2. \A h \in Runner : Tally(h)'
    BY <1>0, <2>1, TallyStays
  <2> QED BY <1>2, <2>2
<1>8. CASE Start(g)
  <2>1. PICK a \in Await : Stands(Ops, g, pc[g], "await", a)
    BY <1>8 DEF Start, ShapeInv, Progress
  <2>2. Node(g) = a /\ phase[g] = "opening" /\ pc[g] \in DOMAIN Ops[g] /\ Ops[g][pc[g]].op = "await"
    BY <1>8, <2>1 DEF Stands, Node, Start
  <2>3. phase[a] = "idle" /\ a # g /\ a \in Runner
    BY <2>1, <2>2, AwaitedIsIdle
  <2>4. /\ UNCHANGED count /\ phase'[a] = "resolving" /\ phase'[g] = "rendering"
        /\ \A h \in Runner : h # g => pc'[h] = pc[h]
        /\ \A h \in Runner : h # g /\ h # a => phase'[h] = phase[h]
        /\ pc'[g] = pc[g] + 1
    BY <1>0, <1>8, <2>2, <2>3 DEF Start, Advance, Shape
  <2>5. Tally(g)'
    <3>1. Around(Ops, g, pc[g]) \cap held = {}
      BY <2>2 DEF ShapeInv, Framed, Working, Missing
    <3>2. Number(Ops, held, g, pc[g] + 1) = Number(Ops, held, g, pc[g]) + 1
      BY <1>0, <2>2, <3>1, BeforeNext
    <3>3. count[g] = Number(Ops, held, g, pc[g]) + 1
      BY <1>0, <2>2 DEF Tally
    <3> QED BY <1>0, <1>1, <2>4, <3>2, <3>3 DEF Tally
  <2>6. \A h \in Runner : h # g => Tally(h)'
    BY <1>0, <2>3, <2>4, TallyStays
  <2> QED BY <1>2, <2>5, <2>6
<1>9. ~SettleInPlace(g) /\ ~InPlaceReturns(g)
  BY DEF SettleInPlace, InPlaceReturns, ShapeInv, Progress
<1> QED BY <1>4, <1>5, <1>6, <1>7, <1>8, <1>9 DEF Step

\* Missing is an invariant.
LEMMA MissingHolds == Spec => []Missing
<1>1. Fresh => Missing
  BY EmptyChain DEF Fresh, Missing, All
<1>2. Init => Missing
  BY <1>1 DEF Init, Fresh
<1>3. ShapeInv /\ Missing /\ [Next]_vars => Missing'
  <2> SUFFICES ASSUME ShapeInv, Missing, [Next]_vars PROVE Missing'
    OBVIOUS
  <2>0. Shape /\ Await \subseteq Runner /\ "document" \in Runner
    BY Types DEF ShapeInv
  <2>1. CASE RenderAgain
    <3>1. Fresh'
      BY <2>1 DEF RenderAgain, Fresh, All, Started, ShapeInv, Shape
    <3> QED BY <1>1, <3>1, PTL
  <2>2. ASSUME held' = held,
               \A h \in Runner : \/ frame'[h] = frame[h]
                                 \/ frame'[h] = << >>
                                 \/ frame[h] # << >> /\ frame'[h] = Tail(frame[h])
                                 \/ \E c \in Cached \ held : frame'[h] = << c >> \o frame[h]
        PROVE  Missing'
    <3> SUFFICES ASSUME NEW h \in Runner PROVE ToSet(frame'[h]) \cap held = {}
      BY <2>2 DEF Missing
    <3>1. ToSet(frame[h]) \cap held = {} /\ frame[h] \in Seq(Cached)
      BY <2>0 DEF Missing, Shape
    <3>2. CASE frame'[h] = << >>
      BY <3>2, EmptyChain
    <3>3. CASE frame[h] # << >> /\ frame'[h] = Tail(frame[h])
      BY <3>1, <3>3, TailOf
    <3>4. CASE \E c \in Cached \ held : frame'[h] = << c >> \o frame[h]
      BY <3>1, <3>4, Pushed
    <3> QED BY <2>2, <3>1, <3>2, <3>3, <3>4
  <2>3. ASSUME NEW g \in Runner, EnterMiss(g) PROVE Missing'
    <3>1. Node(g) \in Cached \ held
      BY <2>3, Instructed DEF EnterMiss
    <3>2. held' = held /\ \A h \in Runner : frame'[h] = IF h = g THEN << Node(g) >> \o frame[h] ELSE frame[h]
      BY <2>0, <2>3 DEF EnterMiss, pastVars, Shape
    <3> QED BY <2>2, <3>1, <3>2
  <2>4. ASSUME NEW g \in Runner, Leave(g) PROVE Missing'
    <3>1. frame[g] # << >>
      BY <2>4, LeavesTheInnermost DEF Leave
    <3>2. held' = held /\ \A h \in Runner : frame'[h] = IF h = g THEN Tail(frame[h]) ELSE frame[h]
      BY <2>0, <2>4 DEF Leave, pastVars, Shape
    <3> QED BY <2>2, <3>1, <3>2
  <2>5. ASSUME NEW g \in Runner, Step(g), ~EnterMiss(g), ~Leave(g) PROVE Missing'
    <3>1. held' = held /\ \A h \in Runner : frame'[h] \in {frame[h], << >>}
      BY <2>0, <2>5 DEF Step, EnterHit, Place, Register, Start, SettleInPlace, InPlaceReturns, Fails,
         pastVars, Shape
    <3> QED BY <2>2, <3>1
  <2>6. ASSUME NEW b \in Await, Settling(b) PROVE Missing'
    <3>1. held' = held /\ \A h \in Runner : frame'[h] \in {frame[h], << >>}
      BY <2>0, <2>6 DEF Settling, ResolveOk, ResolveFails, LeaveQueue, RenderEnds, Report, Returns, Ends,
         Fails, pastVars, Shape
    <3> QED BY <2>2, <3>1
  <2>7. CASE DocumentEnds
    <3>1. held' = held /\ \A h \in Runner : frame'[h] \in {frame[h], << >>}
      BY <2>0, <2>7 DEF DocumentEnds, Fails, pastVars, Shape
    <3> QED BY <2>2, <3>1
  <2>8. CASE Cancel \/ UNCHANGED vars
    BY <2>2, <2>8 DEF Cancel, vars, runVars, pastVars
  <2> QED BY <2>1, <2>3, <2>4, <2>5, <2>6, <2>7, <2>8, NextMoves DEF Moves, Goroutines
<1> QED BY <1>2, <1>3, ShapeInvHolds, PTL DEF Spec

\* Tallied is an invariant.
LEMMA TalliedHolds ==
  ASSUME \A s \in Setting : CountsItself(s)
  PROVE  Spec => []Tallied
<1>1. Fresh /\ count = All(Runner \cup Cached, 0) => Tallied
  <2> SUFFICES ASSUME Fresh, count = All(Runner \cup Cached, 0), NEW g \in Runner PROVE Tally(g)
    BY DEF Tallied
  <2>1. Ops \in [Runner -> Seq(Instruction)] /\ pc[g] = 1 /\ count[g] = 0 /\ phase[g] # "opening"
    BY Rendering DEF Fresh, All, Started
  <2>2. OpenedBefore(Ops, held, g, 1) = {}
    BY <2>1, Templates DEF OpenedBefore
  <2>3. Number(Ops, held, g, pc[g]) = 0
    BY <2>1, <2>2, FS_EmptySet DEF Number
  <2> QED BY <2>1, <2>3 DEF Tally
<1>2. Init => Tallied
  BY <1>1 DEF Init, Fresh
<1>3. ShapeInv /\ Numbered /\ Missing /\ Tallied /\ [Next]_vars => Tallied'
  <2> SUFFICES ASSUME ShapeInv, Numbered, Missing, Tallied, [Next]_vars PROVE Tallied'
    OBVIOUS
  <2>0. /\ Shape /\ CountsItself(setting) /\ Await \subseteq Runner /\ "document" \in Runner
    BY Types DEF ShapeInv
  <2>1. CASE RenderAgain
    <3>1. (Fresh /\ count = All(Runner \cup Cached, 0))'
      BY <2>1 DEF RenderAgain, Fresh, All, Started, ShapeInv, Shape
    <3> QED BY <1>1, <3>1, PTL
  <2>2. ASSUME Moves, ~Streaming PROVE Tallied'
    BY <2>2, MovesOn DEF Tallied
  <2>3. ASSUME Moves, UNCHANGED << pc, count >>,
               \A h \in Runner : phase[h] = "opening" <=> phase'[h] = "opening"
        PROVE  Tallied'
    <3>1. setting' = setting /\ Streaming' = Streaming /\ held' = held
      BY <2>3, MovesOn, HitsStay DEF pastVars
    <3> QED BY <2>3, <3>1, TallyStays DEF Tallied
  <2>4. ASSUME NEW g \in Runner, Step(g) PROVE Tallied'
    <3>1. Moves
      BY <2>4 DEF Moves, Goroutines
    <3> QED BY <2>0, <2>2, <2>4, <3>1, StepTallies
  <2>5. ASSUME NEW b \in Await, Settling(b) PROVE Tallied'
    <3>1. /\ UNCHANGED << pc, count >>
          /\ \A h \in Runner : phase[h] = "opening" <=> phase'[h] = "opening"
      BY <2>0, <2>5 DEF Settling, ResolveOk, ResolveFails, LeaveQueue, RenderEnds, Report, Returns, Ends,
         idVars, Shape
    <3> QED BY <2>3, <2>5, <3>1 DEF Moves, Goroutines
  <2>6. CASE DocumentEnds
    <3>1. /\ UNCHANGED << pc, count >>
          /\ \A h \in Runner : phase[h] = "opening" <=> phase'[h] = "opening"
      BY <2>0, <2>6 DEF DocumentEnds, idVars, Shape
    <3> QED BY <2>3, <2>6, <3>1 DEF Moves
  <2>7. CASE Cancel \/ UNCHANGED vars
    BY <2>3, <2>7 DEF Cancel, vars, runVars, idVars, Moves
  <2> QED BY <2>1, <2>4, <2>5, <2>6, <2>7, NextMoves DEF Moves, Goroutines
<1> QED BY <1>2, <1>3, ShapeInvHolds, NumberedHolds, MissingHolds, PTL DEF Spec

\* Place gives the boundary the number of its place in the template.
LEMMA PlaceRepeats ==
  ASSUME ShapeInv, Numbered, Tallied, Missing, SameInv, CountsItself(setting), NEW g \in Runner, Place(g)
  PROVE  SameInv'
<1>a. PICK b : b = Node(g)
  OBVIOUS
<1>b. PICK n : n = Number(Ops, held, g, pc[g]) + 1
  OBVIOUS
<1>1. /\ Streaming /\ phase[g] = "rendering" /\ b \in Await /\ Stands(Ops, g, pc[g], "await", b)
      /\ pc[g] \in DOMAIN Ops[g] /\ Ops[g][pc[g]].op = "await" /\ UNCHANGED pastVars
  BY <1>a, Instructed DEF Place, At
<1>2. Streaming' = Streaming /\ Ops' = Ops /\ b \in Runner /\ UNCHANGED << held, before, earlier >>
  BY <1>1, Types DEF Streaming, Ops, pastVars
<1>3. Ordered(id, held) /\ Ordered(earlier, before) /\ SameIdsAgain /\ Tally(g) /\ Names
  BY <1>1 DEF SameInv, Tallied, Numbered
<1>4. count[g] + 1 = n
  <2>1. count[g] = Number(Ops, held, g, pc[g]) + 0
    BY <1>1, <1>3 DEF Tally
  <2>2. Number(Ops, held, g, pc[g]) \in Nat
    BY Types, FiniteBefore
  <2> QED BY <1>b, <2>1, <2>2
<1>5. id' = [id EXCEPT ![b] = Append(Prefix(g), n)]
  <2>1. counter[Renderer(g)] = g \/ (counter[Renderer(g)] = "nil" /\ Renderer(g) = g)
    BY <1>1, OwnCounter
  <2>2. "nil" \notin Runner
    BY TemplateAssumption
  <2> QED BY <1>a, <1>4, <2>1, <2>2 DEF Place
<1>6. id'[b] = Append(Prefix(g), n) /\ \A d \in Await : d # b => id'[d] = id[d]
  BY <1>1, <1>5 DEF Numbered
<1>7. phase[b] = "idle" /\ b # g
  BY <1>1, AwaitedIsIdle
<1>8. id[b] = << >>
  <2> SUFFICES ASSUME id[b] # << >> PROVE FALSE
    OBVIOUS
  <2>1. PICK h \in Runner : \E m \in 1 .. count[h] : Named(b, h, m)
    BY <1>1, <1>3 DEF Names
  <2>2. PICK j \in DOMAIN Ops[h] : /\ Stands(Ops, h, j, "await", b)
                                   /\ j < pc[h] \/ (j = pc[h] /\ phase[h] = "opening")
    BY <2>1 DEF Named
  <2>3. h = g /\ j = pc[g]
    BY <1>1, <2>2, Types, OnePlace
  <2> QED BY <1>1, <2>2, <2>3, Types
<1>9. g # "document" => g \in Await /\ id[g] # << >> /\ id'[g] = id[g]
  BY <1>1, <1>3, <1>6, <1>7, Types DEF Names
<1>10. Around(Ops, g, pc[g]) \cap held = {}
  BY <1>1 DEF ShapeInv, Framed, Working, Missing
<1>11. PICK j \in DOMAIN Ops[g] : j = pc[g]
  BY <1>1
<1>12. InOrder(id', held, b, g, j)
  BY <1>b, <1>1, <1>6, <1>9, <1>10, <1>11 DEF InOrder, Prefix
<1>13. ASSUME NEW d \in Await, d # b, id'[d] # << >>
       PROVE  \E h \in Runner : \E i \in DOMAIN Ops[h] : InOrder(id', held, d, h, i)
  <2>1. PICK h \in Runner : \E i \in DOMAIN Ops[h] : InOrder(id, held, d, h, i)
    BY <1>3, <1>6, <1>13 DEF Ordered
  <2>2. PICK i \in DOMAIN Ops[h] : InOrder(id, held, d, h, i)
    BY <2>1
  <2>3. h # "document" => id'[h] = id[h]
    BY <1>6, <1>8, <2>2, Types DEF InOrder
  <2>4. InOrder(id', held, d, h, i)
    BY <1>6, <1>13, <2>2, <2>3 DEF InOrder
  <2> QED BY <2>4
<1>14. Ordered(id, held)'
  <2>1. Ordered(id', held)
    BY <1>12, <1>13 DEF Ordered
  <2> QED BY <1>2, <2>1 DEF Ordered, InOrder
<1>15. Ordered(earlier, before)'
  BY <1>2, <1>3 DEF Ordered, InOrder
<1>16. ASSUME \A c \in (held \ before) \cup (before \ held) : ~Shifts(c), earlier[b] # << >>
       PROVE  id'[b] = earlier[b]
  <2>1. PICK h \in Runner : \E i \in DOMAIN Ops[h] : InOrder(earlier, before, b, h, i)
    BY <1>1, <1>3, <1>16 DEF Ordered
  <2>2. PICK i \in DOMAIN Ops[h] : InOrder(earlier, before, b, h, i)
    BY <2>1
  <2>3. h = g /\ i = pc[g]
    BY <1>1, <2>2, Types, OnePlace DEF InOrder
  <2>4. g # "document" => id[g] = earlier[g]
    BY <1>3, <1>9, <1>16, <2>2, <2>3 DEF InOrder, SameIdsAgain
  <2>5. Number(Ops, held, g, pc[g]) = Number(Ops, before, g, pc[g])
    <3>1. Around(Ops, g, pc[g]) \cap before = {}
      BY <2>2, <2>3 DEF InOrder
    <3>2. held \in SUBSET Cached /\ before \in SUBSET Cached
      BY DEF SameInv
    <3>3. Ops \in [Runner -> Seq(Instruction)] /\ IsTree(Ops) /\ Stands(Ops, g, pc[g], "await", b)
      BY <1>1, Types
    <3> QED BY <1>10, <1>16, <3>1, <3>2, <3>3, NumbersAgree
  <2>6. earlier[b] = Append(IF g = "document" THEN << >> ELSE earlier[g], n)
    BY <1>b, <2>2, <2>3, <2>5 DEF InOrder
  <2> QED BY <1>6, <2>4, <2>6 DEF Prefix
<1>17. SameIdsAgain'
  <2>1. \A c : Shifts(c)' <=> Shifts(c)
    BY <1>2 DEF Shifts
  <2> SUFFICES ASSUME \A c \in (held \ before) \cup (before \ held) : ~Shifts(c)
               PROVE  \A d \in Await : id'[d] # << >> /\ earlier[d] # << >> => id'[d] = earlier[d]
    BY <1>2, <2>1 DEF SameIdsAgain
  <2>2. \A d \in Await : id[d] # << >> /\ earlier[d] # << >> => id[d] = earlier[d]
    BY <1>3 DEF SameIdsAgain
  <2> QED BY <1>6, <1>16, <2>2
<1> QED BY <1>2, <1>14, <1>15, <1>17 DEF SameInv

\* SameInv is an invariant.
LEMMA SameHolds ==
  ASSUME \A s \in Setting : CountsItself(s)
  PROVE  Spec => []SameInv
<1>1. Init => SameInv
  BY DEF Init, SameInv, Ordered, SameIdsAgain, All
<1>2. ShapeInv /\ Numbered /\ Tallied /\ Missing /\ Ranges /\ SameInv /\ [Next]_vars => SameInv'
  <2> SUFFICES ASSUME ShapeInv, Numbered, Tallied, Missing, Ranges, SameInv, [Next]_vars PROVE SameInv'
    OBVIOUS
  <2>0. CountsItself(setting)
    BY Types
  <2>1. CASE RenderAgain
    <3>1. /\ setting' = setting /\ earlier' = id /\ before' = held
          /\ \A b \in Await : id'[b] = << >>
          /\ held' \subseteq Cached
      BY <2>1 DEF RenderAgain, All, Ranges, SameInv
    <3>2. Ops' = Ops /\ Streaming' = Streaming
      BY <3>1 DEF Ops, Streaming
    <3>3. Ordered(id, held)' /\ SameIdsAgain'
      BY <3>1 DEF Ordered, SameIdsAgain
    <3>4. Ordered(id, held) => Ordered(earlier, before)'
      BY <3>1, <3>2 DEF Ordered, InOrder
    <3> QED BY <3>1, <3>2, <3>3, <3>4 DEF SameInv
  <2>2. ASSUME UNCHANGED << pastVars, id >> PROVE SameInv'
    <3>1. /\ Ordered(id, held)' = Ordered(id, held)
          /\ Ordered(earlier, before)' = Ordered(earlier, before)
      BY <2>2 DEF Ordered, InOrder, Ops, pastVars
    <3>2. Streaming' = Streaming /\ (SameIdsAgain' <=> SameIdsAgain)
      BY <2>2 DEF Streaming, SameIdsAgain, Shifts, Ops, pastVars
    <3> QED BY <2>2, <3>1, <3>2 DEF SameInv, pastVars
  <2>3. ASSUME NEW g \in Runner, Step(g) PROVE SameInv'
    <3>1. CASE Place(g)
      BY <2>0, <3>1, PlaceRepeats
    <3>2. CASE ~Place(g)
      <4>1. UNCHANGED << pastVars, id >>
        BY <2>3, <3>2 DEF Step, EnterHit, EnterMiss, Leave, Register, Start, SettleInPlace,
           InPlaceReturns, idVars
      <4> QED BY <2>2, <4>1
    <3> QED BY <3>1, <3>2
  <2>4. ASSUME NEW b \in Await, Settling(b) PROVE UNCHANGED << pastVars, id >>
    BY <2>4 DEF Settling, ResolveOk, ResolveFails, LeaveQueue, RenderEnds, Report, Returns, Ends, idVars
  <2>5. ASSUME DocumentEnds \/ Cancel \/ UNCHANGED vars
        PROVE  UNCHANGED << pastVars, id >>
    BY <2>5 DEF DocumentEnds, Cancel, vars, idVars
  <2> QED BY <2>1, <2>2, <2>3, <2>4, <2>5, NextMoves DEF Moves, Goroutines
<1> QED BY <1>1, <1>2, ShapeInvHolds, NumberedHolds, TalliedHolds, MissingHolds, RangesHold, PTL DEF Spec

\* An identifier names one boundary in a render, and the same one in the render that
\* follows it: in any template whose document opens a boundary before its first cached
\* component, and whatever of it the store serves by then, unless that moves the
\* numbers of the goroutine it is in. render.go, RenderChainLive, makes the promise
\* without the exception ("the same chain rendered again for the same request produces
\* the same ids as the document render did"); a component that shifts does break it.
THEOREM IdentifiersNameBoundaries ==
  ASSUME \A s \in Setting : CountsItself(s)
  PROVE  Spec => []IdsNameBoundaries
<1>1. ShapeInv /\ Numbered /\ SameInv /\ UniqueIds => IdsNameBoundaries
  <2> SUFFICES ASSUME ShapeInv, Numbered, SameInv PROVE SameIdsAgain
    BY DEF IdsNameBoundaries
  <2>1. CASE ~Streaming
    BY <2>1 DEF Numbered, SameIdsAgain
  <2>2. CASE Streaming
    BY <2>2 DEF SameInv
  <2> QED BY <2>1, <2>2
<1> QED BY <1>1, ShapeInvHolds, NumberedHolds, SameHolds, IdentifiersAreUnique, PTL
=============================================================================
