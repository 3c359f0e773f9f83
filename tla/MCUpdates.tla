------------------------------ MODULE MCUpdates ------------------------------
(* Pages of an outer boundary, a list in it and two rows: in the list in      *)
(* either order, nested in each other, beside the list, or absent.  The outer *)
(* boundary and the list have two texts each, and one row an await boundary   *)
(* that settles to either of two values.                                      *)
EXTENDS Updates

CONSTANTS c0, list, r1, r2

Tree(outer, inner, first) ==
  (c0 :> outer) @@ (list :> inner) @@ (r1 :> first) @@ (r2 :> << >>)

Shapes ==
  { Tree(<< >>, << >>, << >>),
    Tree(<< r2 >>, << >>, << >>),
    Tree(<< list >>, << >>, << >>),
    Tree(<< list >>, << r1 >>, << >>),
    Tree(<< list >>, << r1, r2 >>, << >>),
    Tree(<< list >>, << r2, r1 >>, << >>),
    Tree(<< list >>, << r1 >>, << r2 >>),
    Tree(<< list, r2 >>, << r1 >>, << >>) }

Texts == { << 1, 1 >>, << 1, 2 >>, << 2, 1 >> }

Pages ==
  { [kids |-> kids, slow |-> {r2}, value |-> [i \in Id |-> value],
     text |-> (c0 :> text[1]) @@ (list :> text[2]) @@ [i \in Id |-> 1]] :
      kids \in Shapes, text \in Texts, value \in 1..2 }
=============================================================================
