----------------------------- MODULE CacheGroup -----------------------------
(***************************************************************************)
(* Cached components that hold await boundaries: execCached and            *)
(* nextBoundaryID (htmlbind/plan.go), the cacheGroup a miss collects its   *)
(* boundaries in (htmlbind/cachegroup.go) and the two ways awaitOp runs a  *)
(* boundary (htmlbind/ops.go): streamed beside the document by a goroutine *)
(* of its own, or, in the synchronous entries, settled in place.           *)
(*                                                                         *)
(* A template is the list of instructions each goroutine runs, where a     *)
(* cached component is the stretch between its "enter" and its "leave".    *)
(* Markup is abstracted to the placeholders it holds.                      *)
(***************************************************************************)
EXTENDS Naturals, Sequences, FiniteSets, SequencesExt

CONSTANTS
  Await,   \* await boundaries
  Cached,  \* the renders of cached components
  Setting  \* the templates and entries they may be rendered with

Runner == {"document"} \cup Await

Instruction == [op : {"await"}, node : Await]
                 \cup [op : {"enter", "leave"}, node : Cached]

Stands(ops, g, i, what, n) == i \in DOMAIN ops[g] /\ ops[g][i] = [op |-> what, node |-> n]

\* Every boundary and every render of a component stands in one place, where a
\* component is left after it is entered and what it holds in between, and no
\* boundary stands in its own subtree.
IsTree(ops) ==
  /\ \A g, h \in Runner : \A i \in DOMAIN ops[g], j \in DOMAIN ops[h] :
       ops[g][i] = ops[h][j] => g = h /\ i = j
  /\ \A g \in Runner : \A i \in DOMAIN ops[g] : \A c \in Cached :
       /\ Stands(ops, g, i, "enter", c) =>
            \E k \in DOMAIN ops[g] : i < k /\ Stands(ops, g, k, "leave", c)
       /\ Stands(ops, g, i, "leave", c) =>
            \E k \in DOMAIN ops[g] : k < i /\ Stands(ops, g, k, "enter", c)
  /\ \A g \in Runner : \A i, j, k, l \in DOMAIN ops[g] : \A c, d \in Cached :
       /\ Stands(ops, g, i, "enter", c) /\ Stands(ops, g, k, "leave", c)
       /\ Stands(ops, g, j, "enter", d) /\ Stands(ops, g, l, "leave", d)
       /\ i < j /\ j < k
       => l < k
  /\ \E depth \in [Runner -> 0 .. Cardinality(Await)] :
       \A g \in Runner : \A i \in DOMAIN ops[g] : \A b \in Await :
         Stands(ops, g, i, "await", b) => depth[g] < depth[b]

\* ops       the instructions of the document and of each boundary's subtree
\* recovers  the boundaries whose clause declared a recover subtree
\* streaming RenderChainAsync, rather than RenderChain
\* renders   bound: renders of the template for one request
ASSUME TemplateAssumption ==
  /\ IsFiniteSet(Await) /\ IsFiniteSet(Cached)
  /\ "document" \notin Await /\ "nil" \notin Runner \cup Cached /\ Cached \cap Runner = {}
  /\ \A s \in Setting : /\ s.ops \in [Runner -> Seq(Instruction)] /\ IsTree(s.ops)
                        /\ s.recovers \subseteq Await
                        /\ s.streaming \in BOOLEAN
                        /\ s.renders \in Nat \ {0}

VARIABLES
  setting,   \* the one that is rendered
  cancelled, \* the coordinator's context is done
  phase,     \* where the document and each boundary are
  pc,        \* the instruction each of them runs next
  frame,     \* the misses it is rendering, innermost first
  groups,    \* the groups its renderer was given, innermost first
  todo,      \* the groups the open or settle in progress still has to tell
  verdict,   \* what each boundary came to
  counter,   \* Renderer.idCount: the renderer whose count it points at, or nil
  count,     \* the counts
  id,        \* the placeholder identifier of each boundary
  pending, captured, failed, settled,  \* the fields of each cacheGroup
  stored,    \* groups that called store.Set
  entry,     \* what they stored: each placeholder and what was put in its place
  held,      \* the components the store holds an entry of when the render starts
  earlier,   \* the identifiers of the render before
  before,    \* the components the store held an entry of when that one started
  renders    \* renders so far

runVars   == << phase, pc, frame, groups, todo, verdict >>
idVars    == << counter, count, id >>
groupVars == << pending, captured, failed, settled, stored, entry >>
pastVars  == << setting, held, earlier, before, renders >>
vars      == << cancelled, runVars, idVars, groupVars, pastVars >>

Ops       == setting.ops
Recovers  == setting.recovers
Streaming == setting.streaming

All(S, v) == [x \in S |-> v]

\* Where a render starts.
Started == [g \in Runner |-> IF g = "document" THEN "rendering" ELSE "idle"]

\* Other requests may have filled the store.
Init ==
  /\ setting \in Setting
  /\ cancelled = FALSE /\ phase = Started /\ pc = All(Runner, 1)
  /\ frame = All(Runner, << >>) /\ groups = All(Runner, << >>)
  /\ todo = All(Runner, << >>) /\ verdict = All(Runner, "none")
  /\ counter = All(Runner \cup Cached, "nil")
  /\ count = All(Runner \cup Cached, 0) /\ id = All(Await, << >>)
  /\ pending = All(Cached, 0) /\ captured = All(Cached, FALSE)
  /\ failed = All(Cached, FALSE) /\ settled = All(Cached, << >>)
  /\ stored = {} /\ entry = All(Cached, {})
  /\ held \in SUBSET Cached
  /\ earlier = [b \in Await |-> << >>] /\ before = {}
  /\ renders = 1

\* The renderer the instruction runs with, and the groups it reports to.
Renderer(g) == IF frame[g] = << >> THEN g ELSE Head(frame[g])
Groups(g)   == frame[g] \o groups[g]

At(g, op) == phase[g] = "rendering" /\ pc[g] <= Len(Ops[g]) /\ Ops[g][pc[g]].op = op
Node(g)   == Ops[g][pc[g]].node

Opened == { b \in Await : phase[b] # "idle" \/ id[b] # << >> }

-----------------------------------------------------------------------------
(* The entry: the shell with every placeholder replaced, to any depth.     *)

\* The boundaries opened by g's own instructions, and those among them whose
\* placeholder the shell of c holds.
OpenedBy(g) ==
  { b \in Opened : \E i \in DOMAIN Ops[g] : Stands(Ops, g, i, "await", b) }

Shell(c) ==
  { b \in Opened :
      \E g \in Runner : \E j \in DOMAIN Ops[g] :
        /\ Stands(Ops, g, j, "await", b)
        /\ \E i \in DOMAIN Ops[g] : i < j /\ Stands(Ops, g, i, "enter", c)
        /\ \E k \in DOMAIN Ops[g] : j < k /\ Stands(Ops, g, k, "leave", c) }

\* What stands in place of b's placeholder. Settled in place, it is what the
\* clause rendered.
Filler(b, map) ==
  IF ~Streaming THEN (IF verdict[b] = "settled" THEN b ELSE "failure")
  ELSE IF id[b] \in DOMAIN map THEN map[id[b]] ELSE "placeholder"

spliceSettled(c, map) ==
  LET shell == Shell(c)
      filler == [b \in Await |-> Filler(b, map)]
      holds == [b \in Await |-> IF filler[b] \in Await THEN OpenedBy(filler[b]) ELSE {}]
      spliced == { R \in SUBSET Await : shell \subseteq R /\ \A b \in R : holds[b] \subseteq R }
  IN { << b, filler[b] >> : b \in { x \in Await : \A R \in spliced : x \in R } }

\* The settled form is stored once the shell is captured and every boundary has
\* reported.
publishLocked(c) ==
  IF c \notin stored /\ ~failed'[c] /\ captured'[c] /\ pending'[c] = 0
  THEN /\ stored' = stored \cup {c}
       /\ entry' = [entry EXCEPT ![c] = spliceSettled(c, settled'[c])]
  ELSE UNCHANGED << stored, entry >>

-----------------------------------------------------------------------------
(* execCached.                                                             *)

Advance(g) == pc' = [pc EXCEPT ![g] = @ + 1]

\* A hit writes the stored bytes, which hold no placeholder; a miss renders into
\* a buffer of its own, with the identifier counter its renderer was given.
EnterHit(g) ==
  /\ At(g, "enter") /\ Node(g) \in held
  /\ \E i \in DOMAIN Ops[g] :
       /\ Ops[g][i] = [op |-> "leave", node |-> Node(g)]
       /\ pc' = [pc EXCEPT ![g] = i + 1]
  /\ UNCHANGED << pastVars, cancelled, phase, frame, groups, todo, verdict, idVars,
                  groupVars >>

\* Mutant: the miss counts its identifiers from one again.
EnterMiss_FreshCounter(g) ==
  /\ At(g, "enter") /\ Node(g) \notin held
  /\ frame' = [frame EXCEPT ![g] = << Node(g) >> \o @]
  /\ Advance(g)
  /\ UNCHANGED << pastVars, cancelled, phase, groups, todo, verdict, idVars, groupVars >>

EnterMiss(g) ==
  /\ At(g, "enter") /\ Node(g) \notin held
  /\ frame' = [frame EXCEPT ![g] = << Node(g) >> \o @]
  /\ counter' = [counter EXCEPT ![Node(g)] = counter[Renderer(g)]]
  /\ Advance(g)
  /\ UNCHANGED << pastVars, cancelled, phase, groups, todo, verdict, count, id, groupVars >>

\* Mutant: only a boundary's report publishes.
Leave_OnlyCaptures(g) ==
  /\ At(g, "leave")
  /\ captured' = [captured EXCEPT ![Node(g)] = TRUE]
  /\ frame' = [frame EXCEPT ![g] = Tail(@)]
  /\ Advance(g)
  /\ UNCHANGED << pastVars, cancelled, phase, groups, todo, verdict, idVars,
                  pending, failed, settled, stored, entry >>

\* The miss has rendered: its shell is captured.
Leave(g) ==
  /\ At(g, "leave")
  /\ captured' = [captured EXCEPT ![Node(g)] = TRUE]
  /\ UNCHANGED << pending, failed, settled >>
  /\ publishLocked(Node(g))
  /\ frame' = [frame EXCEPT ![g] = Tail(@)]
  /\ Advance(g)
  /\ UNCHANGED << pastVars, cancelled, phase, groups, todo, verdict, idVars >>

-----------------------------------------------------------------------------
(* awaitOp.Exec: the placeholder, the registration with every enclosing    *)
(* group, one lock at a time, and the start of the boundary's goroutine.   *)

Prefix(g) == IF g = "document" THEN << >> ELSE id[g]

\* nextBoundaryID: a renderer without a counter makes one of its own.
Place(g) ==
  /\ Streaming /\ At(g, "await")
  /\ LET r     == Renderer(g)
         owner == IF counter[r] = "nil" THEN r ELSE counter[r]
     IN /\ counter' = [counter EXCEPT ![r] = owner]
        /\ count' = [count EXCEPT ![owner] = @ + 1]
        /\ id' = [id EXCEPT ![Node(g)] = Append(Prefix(g), count[owner] + 1)]
  /\ phase' = [phase EXCEPT ![g] = "opening"]
  /\ todo' = [todo EXCEPT ![g] = Groups(g)]
  /\ UNCHANGED << pastVars, cancelled, pc, frame, groups, verdict, groupVars >>

\* Mutant: an inner group does not tell the one around it.
Register_InnermostOnly(g) ==
  /\ phase[g] = "opening" /\ todo[g] # << >>
  /\ pending' = [pending EXCEPT ![Head(todo[g])] = @ + 1]
  /\ todo' = [todo EXCEPT ![g] = << >>]
  /\ UNCHANGED << pastVars, cancelled, phase, pc, frame, groups, verdict, idVars, captured,
                  failed, settled, stored, entry >>

\* cacheGroup.open, on the next group of the chain.
Register(g) ==
  /\ phase[g] = "opening" /\ todo[g] # << >>
  /\ pending' = [pending EXCEPT ![Head(todo[g])] = @ + 1]
  /\ todo' = [todo EXCEPT ![g] = Tail(@)]
  /\ UNCHANGED << pastVars, cancelled, phase, pc, frame, groups, verdict, idVars, captured,
                  failed, settled, stored, entry >>

Start(g) ==
  /\ phase[g] = "opening" /\ todo[g] = << >>
  /\ phase' = [phase EXCEPT ![g] = "rendering", ![Node(g)] = "resolving"]
  /\ groups' = [groups EXCEPT ![Node(g)] = Groups(g)]
  /\ counter' = [counter EXCEPT ![Node(g)] = Node(g)]
  /\ Advance(g)
  /\ UNCHANGED << pastVars, cancelled, frame, todo, verdict, count, id, groupVars >>

\* awaitOp.execBlocking: the boundary settles where it stands, and no group is
\* told of it.
SettleInPlace(g) ==
  /\ ~Streaming /\ At(g, "await")
  /\ phase' = [phase EXCEPT ![g] = "blocked", ![Node(g)] = "resolving"]
  /\ groups' = [groups EXCEPT ![Node(g)] = Groups(g)]
  /\ UNCHANGED << pastVars, cancelled, pc, frame, todo, verdict, idVars, groupVars >>

\* An error of the subtree leaves through every miss being rendered, and no
\* shell is captured.
Fails(g, what) ==
  /\ verdict' = [verdict EXCEPT ![g] = what]
  /\ frame' = [frame EXCEPT ![g] = << >>]

\* Mutant: the error of a boundary settled in place is swallowed.
InPlaceReturns_Swallows(g) ==
  /\ phase[g] = "blocked" /\ phase[Node(g)] = "done"
  /\ phase' = [phase EXCEPT ![g] = "rendering"]
  /\ Advance(g)
  /\ UNCHANGED << pastVars, cancelled, verdict, frame, groups, todo, idVars, groupVars >>

InPlaceReturns(g) ==
  /\ phase[g] = "blocked" /\ phase[Node(g)] = "done"
  /\ IF verdict[Node(g)] = "failed"
     THEN /\ phase' = [phase EXCEPT ![g] = "done"]
          /\ Fails(g, "failed")
          /\ UNCHANGED pc
     ELSE /\ phase' = [phase EXCEPT ![g] = "rendering"]
          /\ Advance(g)
          /\ UNCHANGED << verdict, frame >>
  /\ UNCHANGED << pastVars, cancelled, groups, todo, idVars, groupVars >>

-----------------------------------------------------------------------------
(* The run of boundary b, and its report to the groups it registered with. *)

\* Its outcome is known: it tells the groups, or the instruction waiting for it.
Ends(b) ==
  /\ phase' = [phase EXCEPT ![b] = IF Streaming THEN "settling" ELSE "done"]
  /\ todo' = [todo EXCEPT ![b] = IF Streaming THEN groups[b] ELSE << >>]
  /\ UNCHANGED << pastVars, cancelled, pc, groups, idVars, groupVars >>

ResolveOk(b) ==
  /\ phase[b] = "resolving"
  /\ phase' = [phase EXCEPT ![b] = "rendering"]
  /\ UNCHANGED << pastVars, cancelled, pc, frame, groups, todo, verdict, idVars,
                  groupVars >>

ResolveFails(b) ==
  /\ phase[b] = "resolving"
  /\ Fails(b, IF Streaming /\ cancelled THEN "cancelled"
              ELSE IF b \in Recovers THEN "recovered" ELSE "failed")
  /\ Ends(b)

\* The semaphore's other arm in start: a queued boundary returns untold.
LeaveQueue(b) ==
  /\ phase[b] = "resolving" /\ Streaming /\ cancelled
  /\ phase' = [phase EXCEPT ![b] = "done"]
  /\ UNCHANGED << pastVars, cancelled, pc, frame, groups, todo, verdict, idVars,
                  groupVars >>

RenderEnds(b) ==
  /\ phase[b] = "rendering"
  /\ \/ /\ pc[b] > Len(Ops[b])
        /\ verdict' = [verdict EXCEPT ![b] = "settled"]
        /\ UNCHANGED frame
     \/ Fails(b, "failed")
  /\ Ends(b)

\* cacheGroup.settle, on the next group of the chain.
Report(b) ==
  /\ phase[b] = "settling" /\ todo[b] # << >>
  /\ LET c == Head(todo[b]) IN
       /\ pending' = [pending EXCEPT ![c] = @ - 1]
       /\ UNCHANGED captured
       /\ IF verdict[b] = "settled"
          THEN /\ settled' = [settled EXCEPT ![c] =
                                [i \in DOMAIN @ \cup {id[b]} |-> IF i = id[b] THEN b ELSE @[i]]]
               /\ UNCHANGED failed
               /\ publishLocked(c)
          ELSE /\ failed' = [failed EXCEPT ![c] = TRUE]
               /\ UNCHANGED << settled, stored, entry >>
  /\ todo' = [todo EXCEPT ![b] = Tail(@)]
  /\ UNCHANGED << pastVars, cancelled, phase, pc, frame, groups, verdict, idVars >>

Returns(b) ==
  /\ phase[b] = "settling" /\ todo[b] = << >>
  /\ phase' = [phase EXCEPT ![b] = "done"]
  /\ UNCHANGED << pastVars, cancelled, pc, frame, groups, todo, verdict, idVars,
                  groupVars >>

\* The initial pass ends, or fails and ends the sequence with it.
DocumentEnds ==
  /\ phase["document"] = "rendering"
  /\ phase' = [phase EXCEPT !["document"] = "done"]
  /\ \/ /\ pc["document"] > Len(Ops["document"])
        /\ verdict' = [verdict EXCEPT !["document"] = "settled"]
        /\ UNCHANGED << frame, cancelled >>
     \/ /\ Fails("document", "failed")
        /\ cancelled' = TRUE
  /\ UNCHANGED << pastVars, pc, groups, todo, idVars, groupVars >>

\* The request goes away, or the caller stops ranging.
Cancel ==
  /\ ~cancelled
  /\ cancelled' = TRUE
  /\ UNCHANGED << pastVars, runVars, idVars, groupVars >>

-----------------------------------------------------------------------------

Step(g) == \/ EnterHit(g) \/ EnterMiss(g) \/ Leave(g)
           \/ Place(g) \/ Register(g) \/ Start(g)
           \/ SettleInPlace(g) \/ InPlaceReturns(g)

Settling(b) == ResolveOk(b) \/ ResolveFails(b) \/ LeaveQueue(b)
                 \/ RenderEnds(b) \/ Report(b) \/ Returns(b)

Rendered == /\ phase["document"] = "done"
            /\ \A b \in Await : phase[b] \in {"idle", "done"}

\* The same chain is rendered again, as a live request does, against a store
\* that has kept some of what was put there.
RenderAgain ==
  /\ Rendered /\ renders < setting.renders
  /\ renders' = renders + 1
  /\ earlier' = id /\ before' = held
  /\ held' \in SUBSET (held \cup stored)
  /\ cancelled' = FALSE /\ phase' = Started /\ pc' = All(Runner, 1)
  /\ frame' = All(Runner, << >>) /\ groups' = All(Runner, << >>)
  /\ todo' = All(Runner, << >>) /\ verdict' = All(Runner, "none")
  /\ counter' = All(Runner \cup Cached, "nil")
  /\ count' = All(Runner \cup Cached, 0) /\ id' = All(Await, << >>)
  /\ pending' = All(Cached, 0) /\ captured' = All(Cached, FALSE)
  /\ failed' = All(Cached, FALSE) /\ settled' = All(Cached, << >>)
  /\ stored' = {} /\ entry' = All(Cached, {})
  /\ UNCHANGED setting

Finished == Rendered /\ UNCHANGED vars

Goroutines == \/ \E g \in Runner : Step(g)
              \/ \E b \in Await : Settling(b)

Next == \/ Goroutines
        \/ DocumentEnds \/ Cancel
        \/ RenderAgain
        \/ Finished

Spec == Init /\ [][Next]_vars

\* While some goroutine can take a step one does. Each has finitely many, so
\* none is passed over for ever.
FairSpec == Spec /\ WF_vars(Goroutines)

-----------------------------------------------------------------------------
(* Properties *)

TypeOK ==
  /\ setting \in Setting
  /\ cancelled \in BOOLEAN
  /\ phase \in [Runner -> {"idle", "opening", "blocked", "resolving", "rendering",
                           "settling", "done"}]
  /\ pc \in [Runner -> Nat]
  /\ frame \in [Runner -> Seq(Cached)]
  /\ groups \in [Runner -> Seq(Cached)]
  /\ todo \in [Runner -> Seq(Cached)]
  /\ verdict \in [Runner -> {"none", "settled", "recovered", "failed", "cancelled"}]
  /\ counter \in [Runner \cup Cached -> {"nil"} \cup Runner \cup Cached]
  /\ count \in [Runner \cup Cached -> Nat]
  /\ id \in [Await -> Seq(Nat)]
  /\ pending \in [Cached -> Nat]
  /\ captured \in [Cached -> BOOLEAN]
  /\ failed \in [Cached -> BOOLEAN]
  /\ \A c \in Cached : \A i \in DOMAIN settled[c] : settled[c][i] \in Await
  /\ stored \subseteq Cached
  /\ entry \in [Cached -> SUBSET (Await \X (Await \cup {"placeholder", "failure"}))]
  /\ held \subseteq Cached /\ before \subseteq Cached
  /\ earlier \in [Await -> Seq(Nat)]
  /\ renders \in 1 .. setting.renders

\* Nothing but the settled form is stored: every placeholder, however deep, is
\* replaced by what its own boundary settled to, and none is left to show a
\* fallback for ever to whoever hits the entry.
StoredIsSettled == \A c \in stored : \A pair \in entry[c] : pair[1] = pair[2]

\* A rendered failure is never what a key stands for: the recover subtree of a
\* boundary is not stored with any component around it.
NoFailureStored ==
  \A c \in stored : \A b \in Await :
    verdict[b] \in {"recovered", "failed", "cancelled"} => c \notin ToSet(groups[b])

\* What the store holds is the settled form of a success.
StoreIsSound == TypeOK /\ StoredIsSettled /\ NoFailureStored

\* A miss whose boundaries all settle is stored, whichever of the last report
\* and the capture comes first.
SuccessIsStored ==
  \A c \in Cached :
    captured[c] /\ (\A b \in Await : phase[b] # "idle" /\ c \in ToSet(groups[b])
                                       => verdict[b] = "settled")
      ~> c \in stored \/ \E b \in Await : c \in ToSet(groups[b]) /\ verdict[b] # "settled"

\* cachegroup.go, parent: "The fence ids are unique across the render".
UniqueIds == \A a, b \in Await : id[a] # << >> /\ id[a] = id[b] => a = b

\* Whether c is a hit or a miss tells how many boundaries its goroutine opens before
\* another one of its own.
Shifts(c) ==
  \E g \in Runner : \E i, j, k, l \in DOMAIN Ops[g] :
    /\ Stands(Ops, g, i, "enter", c) /\ Stands(Ops, g, k, "leave", c)
    /\ i < j /\ j < k /\ k < l
    /\ Ops[g][j].op = "await" /\ Ops[g][l].op = "await"

\* render.go, RenderChainLive: "the same chain rendered again for the same request
\* produces the same ids as the document render did". It does unless a component that
\* shifts the boundaries after it was a miss in one of the two renders and a hit in the
\* other.
SameIdsAgain ==
  (\A c \in (held \ before) \cup (before \ held) : ~Shifts(c)) =>
    \A b \in Await : id[b] # << >> /\ earlier[b] # << >> => id[b] = earlier[b]

\* An identifier names one boundary in a render, and the same one in the next, whatever
\* the store answers by then but for a component that shifts.
IdsNameBoundaries == UniqueIds /\ SameIdsAgain
=============================================================================
