----------------------------- MODULE MCOvertaken -----------------------------
(* Pages of an outer boundary and a list in it, of two texts each.            *)
EXTENDS Overtaken

CONSTANTS c0, list

Pages ==
  { [kids |-> (c0 :> << list >>) @@ (list :> << >>), slow |-> {},
     value |-> [i \in Id |-> 1], text |-> (c0 :> outer) @@ (list :> inner)] :
      outer, inner \in 1..2 }
=============================================================================
