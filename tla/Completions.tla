---------------------------- MODULE Completions ----------------------------
(***************************************************************************)
(* What RenderChainAsync (htmlbind/render.go) promises the caller who      *)
(* ranges over its sequence: one completion per placeholder at most, only  *)
(* for placeholders that were handed out, and a sequence that runs to its  *)
(* end only once every placeholder has been completed.                     *)
(***************************************************************************)
CONSTANT Boundary

VARIABLES
  placed,   \* boundaries whose fallback was written
  settled,  \* boundaries whose replacement was yielded
  status    \* of the sequence

vars == << placed, settled, status >>

Init == placed = {} /\ settled = {} /\ status = "open"

\* A boundary commits its fallback. Work that outlives an abandoned sequence
\* may still do so, into content nobody reads; a finished one is final.
Place(b) ==
  /\ status # "finished"
  /\ b \notin placed
  /\ placed' = placed \cup {b}
  /\ UNCHANGED << settled, status >>

\* The replacement of a placeholder is yielded.
Settle(b) ==
  /\ status = "open"
  /\ b \in placed \ settled
  /\ settled' = settled \cup {b}
  /\ UNCHANGED << placed, status >>

\* The sequence runs to its end.
Finish ==
  /\ status = "open"
  /\ placed \subseteq settled
  /\ status' = "finished"
  /\ UNCHANGED << placed, settled >>

\* A failure was yielded, the caller stopped, or the request went away.
GiveUp ==
  /\ status = "open"
  /\ status' \in {"failed", "abandoned"}
  /\ UNCHANGED << placed, settled >>

Next == \/ \E b \in Boundary : Place(b) \/ Settle(b)
        \/ Finish
        \/ GiveUp

Spec == Init /\ [][Next]_vars
=============================================================================
