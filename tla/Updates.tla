------------------------------- MODULE Updates -------------------------------
(***************************************************************************)
(* One browser that moves between the states of a page by streamed deltas: *)
(* the render and the comparison on the server (htmlbind/delta), the       *)
(* stream of records (internal/updatecore), and the client that applies    *)
(* them, drops a response a newer request supersedes, and falls back to a  *)
(* whole document when a response ends without its terminator.             *)
(*                                                                         *)
(* The client is chosen by the setting.  "bundled" is internal/updatecore/ *)
(* runtime.js; what it does with a response that another one overtakes is  *)
(* in Overtaken.  "contract" is the client of an application, which is not *)
(* part of the repository: it does what delta.Operation says of the two    *)
(* kinds of operation.  Where that leaves a choice it keeps a region that  *)
(* left its parent's list until the response is over, and takes a response *)
(* it abandons for one that stopped without its terminator, which          *)
(* consumeStream says leaves the manifest unknown: it forgets it.          *)
(***************************************************************************)
EXTENDS Delta

CONSTANTS
  Page,       \* the pages the route can render
  Fallback,   \* what an await boundary shows before it settles
  Plain,      \* what a boundary without one shows there
  Setting     \* the clients to check: subset of {"contract", "bundled"}

NoPage == [kids |-> [i \in Id |-> << >>], slow |-> {}]

ASSUME PageAssumption ==
  /\ \A page \in Page \cup {NoPage} : IsNested(page)
  /\ \A page \in Page, i \in Id : Frame(page, i) # Nobody

VARIABLES
  setting,    \* the client of this behaviour
  phase,      \* "loading" a document, "idle", or the request's "requested"
              \* and "streaming"
  known,      \* the manifest header of the request
  served,     \* the page the response renders, if it is one
  waiting,    \* the await boundaries of the render that have not settled
  open,       \* the terminator is not written
  wire,       \* records written and not yet read
  screen,     \* the live regions, by id
  held,       \* the client's validators
  next,       \* the manifest this response has given so far
  renewed,    \* the regions this response has put a new node in for
  broken,     \* an operation could not be applied
  abandoned   \* the context of this response's render ended (for properties)

serverVars == << served, waiting, open, abandoned >>
clientVars == << screen, held, next, renewed, broken >>
vars == << setting, phase, known, wire, serverVars, clientVars >>

Bundled == setting = "bundled"
Gone == [frame |-> Nobody, kids |-> << >>, shown |-> Plain]
Nothing == [i \in {} |-> Gone]

-----------------------------------------------------------------------------
(* What a reader sees.                                                      *)

(* The regions at or below i that are in the document: a hole nothing       *)
(* filled shows nothing.                                                    *)
Below(regions, i) ==
  LET Closed(R) == \A j \in R : ToSet(regions[j].kids) \subseteq R
  IN  { j \in Id : /\ regions[j] # Gone
                   /\ \A R \in SUBSET Id : i \in R /\ Closed(R) => j \in R }

Attached(regions) == Below(regions, Root)

Visible(regions) == [i \in Attached(regions) |-> regions[i]]

(* A page once all of it has settled.                                       *)
Settled(p) ==
  [i \in Instances(p) |->
     [frame |-> Frame(p, i), kids |-> p.kids[i],
      shown |-> IF i \in p.slow THEN p.value[i] ELSE Plain]]

(* A whole document: everything settles before it is written, and the       *)
(* client holds no validator of it.                                         *)
Document(p) ==
  [i \in Id |-> IF i \in Instances(p) THEN Settled(p)[i] ELSE Gone]

Init ==
  /\ setting \in Setting
  /\ phase = "loading" /\ known = Nothing /\ wire = << >>
  /\ served = NoPage /\ waiting = {} /\ open = FALSE /\ abandoned = FALSE
  /\ screen = [i \in Id |-> Gone]
  /\ held = Nothing /\ next = Nothing /\ renewed = {} /\ broken = FALSE

-----------------------------------------------------------------------------
(* The server.                                                              *)

(* RunStream, up to the end of the initial pass, over whatever the page is   *)
(* by now: the fallbacks are in the frames, and every boundary has its      *)
(* record before anything settles.                                          *)
Render(page) ==
  /\ phase = "requested"
  /\ phase' = "streaming"
  /\ served' = page
  /\ waiting' = page.slow \cap Instances(page)
  /\ open' = TRUE
  /\ wire' = Records(page, known)
  /\ UNCHANGED << setting, known, abandoned, clientVars >>

(* The initial pass fails: nothing but the terminator follows the head.     *)
RenderFails ==
  /\ phase = "requested"
  /\ phase' = "streaming"
  /\ wire' = << [r |-> "end", reason |-> "failed"] >>
  /\ UNCHANGED << setting, known, serverVars, clientVars >>

(* An await boundary settles while the response is open.                    *)
Settles(i) ==
  /\ i \in waiting
  /\ waiting' = waiting \ {i}
  /\ wire' = Append(wire, [r |-> "await", id |-> i, value |-> served.value[i]])
  /\ UNCHANGED << setting, phase, known, served, open, abandoned, clientVars >>

\* Mutant: a failed response stops without a terminator.
Terminate_Silent(reason) ==
  /\ phase = "streaming" /\ open
  /\ open' = FALSE
  /\ waiting' = {}
  /\ wire' = IF reason = "failed" THEN wire ELSE Append(wire, [r |-> "end", reason |-> reason])
  /\ UNCHANGED << setting, phase, known, served, clientVars >>

(* The terminator, the last record of a response.                           *)
Terminate(reason) ==
  /\ phase = "streaming" /\ open
  /\ open' = FALSE
  /\ waiting' = {}
  /\ wire' = Append(wire, [r |-> "end", reason |-> reason])
  /\ UNCHANGED << setting, phase, known, served, clientVars >>

Finishes == waiting = {} /\ Terminate("final") /\ UNCHANGED abandoned

AwaitFails == waiting # {} /\ Terminate("failed") /\ UNCHANGED abandoned

(* The context ends and the sequence with it, silently: the stream closes   *)
(* as a complete one.                                                       *)
ContextEnds ==
  waiting # {} /\ Terminate("final") /\ abandoned' = TRUE

-----------------------------------------------------------------------------
(* The client.                                                              *)

(* runtime.js sends a frame alone; the others fields of an entry are empty. *)
Header(manifest) ==
  IF Bundled
    THEN [i \in DOMAIN manifest |->
            [manifest[i] EXCEPT !.children = << >>, !.parent = Nobody]]
    ELSE manifest

Navigate ==
  /\ phase = "idle"
  /\ phase' = "requested"
  /\ known' = Header(held)
  /\ UNCHANGED << setting, wire, serverVars, clientVars >>

(* Regions on no list any more are dropped when a response is over.         *)
Swept ==
  [i \in Id |-> IF i \in Attached(screen) THEN screen[i] ELSE Gone]

(* A response is over, and what was kept of it forgotten.                   *)
Over(then, validators) ==
  /\ phase' = then
  /\ wire' = << >> /\ known' = Nothing
  /\ served' = NoPage /\ waiting' = {} /\ open' = FALSE /\ abandoned' = FALSE
  /\ held' = validators
  /\ next' = Nothing /\ renewed' = {} /\ broken' = FALSE
  /\ UNCHANGED setting

(* Everything the client cannot handle is an ordinary navigation.           *)
FallBack ==
  /\ Over("loading", Nothing)
  /\ screen' = [i \in Id |-> Gone]

(* The first document: the screen is what the server rendered.              *)
Load(page) ==
  /\ phase = "loading"
  /\ phase' = "idle"
  /\ screen' = Document(page)
  /\ UNCHANGED << setting, known, wire, serverVars, held, next, renewed, broken >>

(* The client of an application abandons a response for another request.    *)
Abandon ==
  /\ ~Bundled
  /\ phase \in {"requested", "streaming"}
  /\ screen' = Swept
  /\ Over("idle", Nothing)

(* The connection drops before the terminator is read.                      *)
Truncated ==
  /\ phase \in {"requested", "streaming"}
  /\ FallBack

Receive(r) ==
  /\ phase = "streaming"
  /\ wire # << >> /\ Head(wire).r = r

ReadOn(manifest) ==
  /\ wire' = Tail(wire)
  /\ next' = manifest
  /\ UNCHANGED << setting, phase, known, serverVars >>

(* A manifest with an entry more.                                           *)
Noted(manifest, i, entry) ==
  [j \in DOMAIN manifest \cup {i} |-> IF j = i THEN entry ELSE manifest[j]]

(* A list without the regions of another.                                   *)
Without(list, others) ==
  Picked(list, { n \in DOMAIN list : list[n] \notin ToSet(others) })

(* A region takes its own markup and its list.  A region of the list that   *)
(* stood elsewhere has left that place.                                     *)
Installed(i, region) ==
  [j \in Id |->
     IF j = i
       THEN region
       ELSE [screen[j] EXCEPT !.kids = Without(@, region.kids)]]

Replacement(entry) ==
  [frame |-> entry.frame, kids |-> entry.children,
   shown |-> IF entry.frame.fenced THEN Fallback ELSE Plain]

(* runtime.js swaps the element: what was nested in it goes with it, and    *)
(* the holes of the new one stay empty.                                     *)
Swapped(regions, i, entry) ==
  [j \in Id |-> IF j = i THEN Replacement(entry)
                ELSE IF j \in Below(regions, i) THEN Gone ELSE regions[j]]

Replaced(i, entry) ==
  IF Bundled THEN Swapped(screen, i, entry) ELSE Installed(i, Replacement(entry))

(* The region is in the document, or a hole for it is.                      *)
IsTarget(regions, i) ==
  i = Root \/ \E j \in Attached(regions) : i \in ToSet(regions[j].kids)

Resolves(i) == IsTarget(screen, i)

(* The children of a region whose own markup stays: runtime.js has nothing  *)
(* to apply for them.                                                       *)
Reordered(i, entry) ==
  IF Bundled THEN screen ELSE Installed(i, [screen[i] EXCEPT !.kids = entry.children])

ReadOperation ==
  /\ Receive("op")
  /\ LET op == Head(wire)
         applies == op.kind = "replace" \/ (op.kind = "children" /\ ~Bundled)
         fails == applies /\ ~Resolves(op.id)
     IN  /\ ReadOn(Noted(next, op.id, op.entry))
         /\ broken' = (broken \/ fails)
         /\ IF ~applies \/ broken \/ fails
              THEN UNCHANGED << screen, held, renewed >>
              ELSE /\ screen' = IF op.kind = "replace"
                                  THEN Replaced(op.id, op.entry)
                                  ELSE Reordered(op.id, op.entry)
                   /\ renewed' = IF op.kind = "replace"
                                   THEN renewed \cup {op.id}
                                   ELSE renewed
                   /\ held' = Restrict(held, DOMAIN held \ {op.id})

(* The range between the markers is replaced.  runtime.js takes the markers *)
(* out with it, so a region settles once per replacement.                   *)
ReadAwait ==
  /\ Receive("await")
  /\ LET await == Head(wire)
         found == /\ await.id \in Attached(screen)
                  /\ Bundled => screen[await.id].shown = Fallback
     IN  screen' = IF found /\ ~broken
                     THEN [screen EXCEPT ![await.id].shown = await.value]
                     ELSE screen
  /\ ReadOn(next)
  /\ UNCHANGED << held, renewed, broken >>

ReadEnd ==
  /\ Receive("end")
  /\ IF broken
       THEN FallBack
       ELSE /\ screen' = Swept
            /\ Over("idle", next)

-----------------------------------------------------------------------------
ServerStep ==
  \/ \E page \in Page : Render(page)
  \/ RenderFails \/ Finishes \/ AwaitFails \/ ContextEnds
  \/ \E i \in Id : Settles(i)

ClientStep ==
  ReadOperation \/ ReadAwait \/ ReadEnd \/ \E page \in Page : Load(page)

Next ==
  ServerStep \/ ClientStep \/ Navigate \/ Abandon \/ Truncated

(* The renderer's goroutines run and the client reads what arrives.         *)
Spec ==
  /\ Init /\ [][Next]_vars
  /\ WF_vars(ServerStep) /\ WF_vars(ClientStep)

-----------------------------------------------------------------------------
TypeOK ==
  /\ setting \in Setting /\ served \in Page \cup {NoPage}
  /\ phase \in {"loading", "idle", "requested", "streaming"}
  /\ waiting \subseteq served.slow
  /\ (open \/ wire # << >>) => phase = "streaming"
  /\ \A i \in DOMAIN held : held[i].parent \in Id \cup {Nobody}
  /\ renewed \subseteq Id
  /\ {broken, open, abandoned} \subseteq BOOLEAN

(* A response that ended well leaves on the screen what the server          *)
(* rendered: every region, in its place, with what its await boundary       *)
(* settled to, whatever the browser showed and claimed before (delta.go,    *)
(* deltastream.go, DeltaStream.Close).                                      *)
ScreenIsFresh ==
  /\ phase = "streaming" /\ wire = << [r |-> "end", reason |-> "final"] >>
  /\ ~broken /\ ~abandoned
  => Visible(screen) = Settled(served)

(* The operations come in an order the client can follow: what one          *)
(* addresses is there when it is read (delta.go: "a target always exists"). *)
TargetsExist == ~broken

(* The client can apply whatever it is sent.                                *)
ClientKeepsUp == TypeOK /\ TargetsExist

(* A region that keeps its own markup keeps its node, with the focus and    *)
(* the form values in it, although what is around it is replaced, reordered *)
(* or moved; the outermost is the exception (delta.go operations).          *)
LiveNodesStay ==
  phase = "streaming" =>
    \A i \in (DOMAIN known \cap Instances(served)) \ {Root} :
      known[i].frame = Frame(served, i) => i \notin renewed /\ screen[i] # Gone

(* Every navigation is over in the end: its response terminates, or the     *)
(* client falls back.                                                       *)
NavigationEnds == phase # "idle" ~> phase = "idle"

=============================================================================
