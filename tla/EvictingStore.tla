--------------------------- MODULE EvictingStore ---------------------------
(***************************************************************************)
(* What MemoryCache (htmlbind/cache.go) promises the renders that share    *)
(* it: a bounded store that forgets what has expired and, when it is full, *)
(* what was written longest ago.                                           *)
(***************************************************************************)
EXTENDS Naturals, FiniteSets

CONSTANTS Key, Limit  \* Limit 0 is unbounded

VARIABLES
  live,   \* the writes it holds: the key and the number of each
  writes  \* writes made so far

vars == << live, writes >>

Init == live = {} /\ writes = 0

\* A write replaces the key's earlier one; the oldest are forgotten until the
\* bound holds.
Put(k) ==
  /\ writes' = writes + 1
  /\ LET held == { w \in live : w.key # k } \cup { [key |-> k, number |-> writes + 1] }
     IN /\ live' \subseteq held
        /\ \A w \in held \ live', v \in live' : w.number < v.number
        /\ IF Limit = 0 THEN live' = held
           ELSE live' = held \/ Cardinality(live') = Limit
        /\ Limit > 0 => Cardinality(live') <= Limit

\* An expired write is forgotten when it is asked for.
Forget(w) ==
  /\ w \in live
  /\ live' = live \ {w}
  /\ UNCHANGED writes

Next == \/ \E k \in Key : Put(k)
        \/ \E w \in live : Forget(w)

Spec == Init /\ [][Next]_vars
=============================================================================
