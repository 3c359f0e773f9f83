--------------------------- MODULE MCAsyncRender ---------------------------
(* Two boundaries of the document, one nested in the first of them: a        *)
(* parent, its child and a stranger that races both.                         *)
EXTENDS AsyncRender, TLC

CONSTANTS outer, inner, side

Pair == (outer :> {}) @@ (inner :> {outer}) @@ (side :> {})

\* Each option left out, and at its tightest.
Options == [limit : {0, 1}, timed : BOOLEAN]
=============================================================================
