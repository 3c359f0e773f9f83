------------------------------ MODULE Overtaken ------------------------------
(***************************************************************************)
(* The bundled client when one navigation overtakes another                *)
(* (internal/updatecore/runtime.js, go and consumeStream).                 *)
(*                                                                         *)
(* Records are applied through a promise chain, which a stylesheet the     *)
(* head asks for holds up.  A newer navigation aborts the reading of the   *)
(* older response; what was read of it is in the chain and stays there.    *)
(* Records that are read while the sheet loads are left on the wire: the   *)
(* abort decides how many of them had been.                                *)
(***************************************************************************)
EXTENDS Updates

VARIABLES
  unstyled,  \* the chain of this response waits for a stylesheet
  late       \* the records in the chain of a response that was overtaken

overtakenVars == << vars, unstyled, late >>

OvertakenInit == Init /\ setting = "bundled" /\ unstyled = FALSE /\ late = << >>

(* Another page is loaded in place of this one, and its chains are gone.    *)
Survives(chain) == late' = IF phase' = "loading" THEN << >> ELSE chain

(* The head asks for a stylesheet that is not there, or it does not. One    *)
(* overtaken response waits at a time: the sheet it asked for is there for  *)
(* the next.                                                                *)
StyledRender(page) ==
  /\ Render(page)
  /\ unstyled' \in {FALSE, late = << >>}
  /\ UNCHANGED late

(* The rest of the server, which the chain does not hold up.                *)
GoesOn ==
  /\ RenderFails \/ Finishes \/ AwaitFails \/ ContextEnds \/ \E i \in Id : Settles(i)
  /\ UNCHANGED << unstyled, late >>

(* The sheet is loaded or has taken too long: the chain runs.               *)
SheetArrives == unstyled /\ unstyled' = FALSE /\ UNCHANGED << vars, late >>

ChainRuns ==
  /\ ~unstyled /\ ClientStep
  /\ Survives(late) /\ UNCHANGED unstyled

Leaves == Truncated /\ unstyled' = FALSE /\ Survives(late)

Asks == Navigate /\ UNCHANGED << unstyled, late >>

(* A newer navigation takes the ticket and aborts the fetch.  The           *)
(* validators stay as they are.  What had been read stays in the chain, and *)
(* a body that had been read to its end is not aborted at all.              *)
Supersede ==
  /\ phase \in {"requested", "streaming"}
  /\ screen' = Swept
  /\ Over("idle", held)
  /\ unstyled' = FALSE
  /\ IF unstyled
       THEN \E read \in 0 .. Len(wire) : late' = SubSeq(wire, 1, read)
       ELSE UNCHANGED late

(* One record of a chain, on what is on the screen and in the validators by *)
(* now.                                                                     *)
Step(page, item) ==
  LET fails == ~IsTarget(page.screen, item.id)
      found == /\ item.id \in Attached(page.screen)
               /\ page.screen[item.id].shown = Fallback
  IN  IF page.failed \/ item.r = "end" THEN page
      ELSE IF item.r = "await"
        THEN [page EXCEPT !.screen[item.id].shown = IF found THEN item.value ELSE @]
      ELSE IF item.kind # "replace" THEN page
      ELSE IF fails THEN [page EXCEPT !.failed = TRUE]
      ELSE [page EXCEPT !.screen = Swapped(page.screen, item.id, item.entry),
                        !.held = Restrict(page.held, DOMAIN page.held \ {item.id})]

(* The manifest the operations of a chain restate.                          *)
Restated(chain) ==
  LET ops == { n \in DOMAIN chain : chain[n].r = "op" }
  IN  [i \in { chain[n].id : n \in ops } |->
         chain[CHOOSE n \in ops : chain[n].id = i].entry]

(* The sheet of an overtaken response arrives, and its chain runs.  Nothing *)
(* asks for the ticket before all of it is applied and, if the body had     *)
(* been read to its end, the validators are replaced.  One that cannot be   *)
(* applied is then a navigation to the older page.                          *)
LateSheetArrives ==
  /\ late # << >>
  /\ LET page  == FoldLeft(Step, [screen |-> screen, held |-> held, failed |-> FALSE], late)
         ended == Last(late).r = "end"
     IN  \/ /\ ended /\ page.failed
            /\ FallBack /\ unstyled' = FALSE
         \/ /\ ~(ended /\ page.failed)
            /\ screen' = page.screen
            /\ held' = IF ended THEN Restated(late) ELSE page.held
            /\ UNCHANGED << setting, phase, known, wire, serverVars, next, renewed, broken,
                            unstyled >>
  /\ late' = << >>

OvertakenNext ==
  \/ \E page \in Page : StyledRender(page)
  \/ GoesOn \/ SheetArrives \/ ChainRuns \/ Leaves \/ Asks \/ Supersede
  \/ LateSheetArrives

OvertakenSpec == OvertakenInit /\ [][OvertakenNext]_overtakenVars

-----------------------------------------------------------------------------
(* What the next request claims of a region that is on the screen is what   *)
(* it shows: the server sends nothing for it, so a claim of anything else   *)
(* would "leave this markup in place forever" (runtime.js applyOps), and "a *)
(* superseded navigation must not overwrite newer state" (runtime.js go).   *)
ClaimsAreShown ==
  phase = "idle" =>
    \A i \in DOMAIN held \cap Attached(screen) : screen[i].frame = held[i].frame

=============================================================================
