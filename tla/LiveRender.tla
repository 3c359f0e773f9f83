---------------------------- MODULE LiveRender ----------------------------
(***************************************************************************)
(* One live boundary: liveOp.Exec, pump, deliver and deliveryScope in      *)
(* htmlbind/ops.go, over startStream, start and wait of the coordinator in *)
(* htmlbind/async.go and the ranging loop of htmlbind/render.go; and its   *)
(* execBlocking, for the synchronous entries, which render it in place.    *)
(*                                                                         *)
(* Each binding of the clause ranges its source in a goroutine and calls   *)
(* deliver per item.  deliver renders and sends under the boundary's lock, *)
(* so the goroutine that is emitting or signalling holds it.  Every render *)
(* of the primary subtree opens the boundary nested in it under the same   *)
(* identifier.  The initial pass and the failures of rendering itself are  *)
(* modelled in AsyncRender.                                                *)
(***************************************************************************)
EXTENDS Naturals, FiniteSets

CONSTANTS
  Binding,  \* the bindings of the clause
  Setting,  \* the clauses and entries it may be rendered with
  MaxItems  \* bound: items one source produces, and one nested source sends

\* kind      what a binding ranges over: "live", a source that goes on; "once", a
\*           Pending handle or a call given the context; "deaf", a call given none
\* nested    the boundary in the primary subtree: "none", "await" or "live"
\* entry     "live" is RenderLive, "document" a streamed document, "sync" one of the
\*           synchronous entries
\* deadline  WithAsyncTimeout, as the first-delivery deadline of the latter two
\* recovers  the clause declared a recover subtree
ASSUME ClauseAssumption ==
  /\ IsFiniteSet(Binding) /\ Binding # {}
  /\ Setting \subseteq [kind : [Binding -> {"live", "once", "deaf"}],
                        nested : {"none", "await", "live"},
                        entry : {"live", "document", "sync"}, deadline : BOOLEAN, recovers : BOOLEAN]
  /\ MaxItems \in Nat \ {0}

\* Every render of the subtree answers an item some source produced.
Renders == 1 .. (Cardinality(Binding) * MaxItems)

VARIABLES
  setting,     \* the one it is rendered with
  pass,        \* where streamChain is: "ranging", "yielding" or "ended"; "waiting"
               \* is a synchronous render inside pump
  fatal,       \* the item being yielded is an error
  requestDone, \* the caller's context is done
  stopped,     \* coordinator.stop ran
  at,          \* where each binding's goroutine is
  item,        \* what its source handed it
  made,        \* how many items its source produced
  buffer,      \* what its deliver rendered, until it is sent
  scope,       \* liveState.scope: the item of each binding it holds, 0 for none
  ready,       \* liveState.ready
  pending,     \* liveState.pending
  halted,      \* liveState.stopped
  failed,      \* liveState.err is set
  subDone,     \* pump's context was cancelled
  late,        \* the first-delivery deadline passed
  pump,        \* "running", "failing" (sending its error) or "returned"
  renders,     \* renders of the subtree so far
  current,     \* the render whose context deliveryScope still holds, 0 for none
  nested,      \* the goroutine of the boundary nested in each render
  sent,        \* how often each nested goroutine sent
  inner,       \* renders whose nested boundary was yielded
  screen       \* the region as the client shows it, or as the document holds it

givenVars  == << setting, requestDone >>
loopVars   == << pass, fatal, stopped >>
stateVars  == << scope, ready, pending, halted, failed >>
nestedVars == << nested, sent, inner >>
vars == << givenVars, loopVars, at, item, made, buffer, stateVars, subDone,
           late, pump, renders, current, nestedVars, screen >>

Kind     == setting.kind
Nested   == setting.nested
KeepOpen == setting.entry = "live"
InPlace  == setting.entry = "sync"
Deadline == setting.deadline
Recovers == setting.recovers

NoRender == [shows |-> "none", render |-> 0, scope |-> [i \in Binding |-> 0]]

Cancelled == requestDone \/ stopped

\* The context the sources and the settle-once calls were given.
SubscriptionDone == Cancelled \/ subDone \/ late

\* Mutant: the lock is released before the emit.
LockFree_ReleasedForEmit == \A i \in Binding : at[i] # "signalling"

\* The lock of liveState is held across the render and the emit.
LockFree == \A i \in Binding : at[i] \notin {"emitting", "signalling"}

\* Mutant: a new delivery leaves the contexts of the earlier ones alone.
Superseded_Never(r) == FALSE

\* A nested await boundary runs under its render's own context.
Superseded(r) == current # r

Active == { r \in Renders : nested[r] \notin {"idle", "done"} }

\* wg.Wait returned and the closer closed the channel.
ResultsClosed == pump = "returned" /\ Active = {}

Init ==
  /\ setting \in Setting
  /\ pass = (IF InPlace THEN "waiting" ELSE "ranging") /\ fatal = FALSE
  /\ requestDone = FALSE /\ stopped = FALSE
  /\ at = [i \in Binding |-> "source"]
  /\ item = [i \in Binding |-> "none"]
  /\ made = [i \in Binding |-> 0]
  /\ buffer = [i \in Binding |-> NoRender]
  /\ scope = [i \in Binding |-> 0]
  /\ ready = {} /\ pending = Cardinality(Binding)
  /\ halted = FALSE /\ failed = FALSE
  /\ subDone = FALSE /\ late = FALSE
  /\ pump = "running"
  /\ renders = 0 /\ current = 0
  /\ nested = [r \in Renders |-> "idle"]
  /\ sent = [r \in Renders |-> 0]
  /\ inner = {}
  /\ screen = [shows |-> IF InPlace THEN "none" ELSE "fallback", render |-> 0,
               scope |-> [i \in Binding |-> 0], inner |-> 0]

-----------------------------------------------------------------------------
(* The sources, as their pumps range them.                                 *)

Hand(i, what) ==
  /\ at' = [at EXCEPT ![i] = "calling"]
  /\ item' = [item EXCEPT ![i] = what]
  /\ made' = [made EXCEPT ![i] = @ + 1]
  /\ UNCHANGED << loopVars, givenVars, buffer, stateVars, subDone, late, pump,
                  renders, current, nestedVars, screen >>

\* A source yields, or a settle-once binding settles. An item already there is
\* handed over even when the context is done.
SourceYields(i) ==
  /\ at[i] = "source"
  /\ made[i] < (IF Kind[i] = "live" THEN MaxItems ELSE 1)
  /\ \E what \in {"value", "failure", "signal"} : Hand(i, what)

\* Pending.Wait, or a call given the context, returns the context's error.
WaitEnds(i) ==
  /\ at[i] = "source"
  /\ Kind[i] = "once" /\ made[i] = 0
  /\ SubscriptionDone
  /\ Hand(i, "waitover")

\* A source's sequence ends.
SourceEnds(i) ==
  /\ at[i] = "source"
  /\ Kind[i] = "live"
  /\ at' = [at EXCEPT ![i] = "ended"]
  /\ UNCHANGED << loopVars, givenVars, item, made, buffer, stateVars, subDone,
                  late, pump, renders, current, nestedVars, screen >>

-----------------------------------------------------------------------------
(* liveState.deliver, entered with the lock free.                          *)

Enter(i) ==
  /\ at[i] = "calling" /\ LockFree
  /\ item' = [item EXCEPT ![i] = "none"]

Resume(i) == at' = [at EXCEPT ![i] = IF Kind[i] = "live" THEN "source" ELSE "ended"]

Halt(i) == halted' = TRUE /\ at' = [at EXCEPT ![i] = "leaving"]

\* deliveryScope.next: the previous render's context is cancelled.
Supersede == renders' = renders + 1 /\ current' = renders + 1

\* The subtree renders into a buffer of its own, which is then sent. Only the
\* primary subtree holds a nested boundary, whose goroutine starts here; a
\* synchronous render settles it in place.
Render(i, what, view) ==
  /\ Supersede
  /\ buffer' = [buffer EXCEPT ![i] = [shows |-> what, render |-> renders + 1, scope |-> view]]
  /\ nested' = IF what = "primary" /\ Nested # "none" /\ ~InPlace
               THEN [nested EXCEPT ![renders + 1] = "working"] ELSE nested
  /\ at' = [at EXCEPT ![i] = "emitting"]
  /\ UNCHANGED halted

\* A binding that arrives after the boundary stopped.
DeliverLate(i) ==
  /\ Enter(i)
  /\ halted
  /\ at' = [at EXCEPT ![i] = "leaving"]
  /\ UNCHANGED << loopVars, givenVars, made, buffer, stateVars, subDone,
                  late, pump, renders, current, nestedVars, screen >>

\* Mutant: every item counts against pending, not every binding.
DeliverValue_CountsItems(i) ==
  /\ Enter(i)
  /\ ~halted /\ item[i] = "value"
  /\ scope' = [scope EXCEPT ![i] = made[i]]
  /\ ready' = ready \cup {i}
  /\ pending' = pending - 1
  /\ IF pending' > 0
     THEN Resume(i) /\ UNCHANGED << buffer, halted, renders, current, nested >>
     ELSE Render(i, "primary", scope')
  /\ UNCHANGED << loopVars, givenVars, made, failed, subDone, late, pump,
                  sent, inner, screen >>

\* A value is assigned, and rendered once every binding has one.
DeliverValue(i) ==
  /\ Enter(i)
  /\ ~halted /\ item[i] = "value"
  /\ scope' = [scope EXCEPT ![i] = made[i]]
  /\ ready' = ready \cup {i}
  /\ pending' = IF i \in ready THEN pending ELSE pending - 1
  /\ IF pending' > 0
     THEN Resume(i) /\ UNCHANGED << buffer, halted, renders, current, nested >>
     ELSE Render(i, "primary", scope')
  /\ UNCHANGED << loopVars, givenVars, made, failed, subDone, late, pump,
                  sent, inner, screen >>

\* A failure renders the recover subtree or ends the boundary, whether or not
\* the other bindings have arrived. The end of the wait is a failure like any
\* other here, because only the render's own context is asked.
DeliverFailure(i) ==
  /\ Enter(i)
  /\ ~halted /\ item[i] \in {"failure", "waitover"}
  /\ \/ /\ Cancelled
        /\ Halt(i)
        /\ UNCHANGED << buffer, failed, renders, current, nested >>
     \/ /\ ~Cancelled /\ Recovers
        /\ Render(i, IF item[i] = "failure" THEN "recover" ELSE "timeout", scope)
        /\ UNCHANGED failed
     \/ /\ ~Cancelled /\ ~Recovers
        /\ Supersede
        /\ Halt(i) /\ failed' = TRUE
        /\ UNCHANGED << buffer, nested >>
  /\ UNCHANGED << loopVars, givenVars, made, scope, ready, pending,
                  subDone, late, pump, sent, inner, screen >>

\* Mutant: the subtree is opened before the item is classified.
DeliverSignal_Supersedes(i) ==
  /\ Enter(i)
  /\ ~halted /\ item[i] = "signal"
  /\ current' = 0
  /\ Resume(i)
  /\ UNCHANGED << loopVars, givenVars, made, buffer, stateVars, subDone, late, pump,
                  renders, nestedVars, screen >>

\* A signal renders nothing and supersedes nothing. The document entries drop
\* it and keep waiting for a value.
DeliverSignal(i) ==
  /\ Enter(i)
  /\ ~halted /\ item[i] = "signal"
  /\ IF Cancelled THEN Halt(i)
     ELSE /\ IF KeepOpen THEN at' = [at EXCEPT ![i] = "signalling"] ELSE Resume(i)
          /\ UNCHANGED halted
  /\ UNCHANGED << loopVars, givenVars, made, buffer, scope, ready, pending,
                  failed, subDone, late, pump, renders, current, nestedVars, screen >>

\* emit or emitSignal finds that nobody is ranging.
AbandonEmit(i) ==
  /\ at[i] \in {"emitting", "signalling"}
  /\ Cancelled /\ ~InPlace
  /\ Halt(i)
  /\ buffer' = [buffer EXCEPT ![i] = NoRender]
  /\ UNCHANGED << loopVars, givenVars, item, made, scope, ready, pending, failed,
                  subDone, late, pump, renders, current, nestedVars, screen >>

\* Mutant: a delivery's context is derived from the subscription's.
Leave_EndsDelivery(i) ==
  /\ at[i] = "leaving"
  /\ at' = [at EXCEPT ![i] = "ended"]
  /\ subDone' = TRUE /\ current' = 0
  /\ UNCHANGED << loopVars, givenVars, item, made, buffer, stateVars, late, pump,
                  renders, nestedVars, screen >>

\* deliver answered false: its binding cancels the subscription and returns.
Leave(i) ==
  /\ at[i] = "leaving"
  /\ at' = [at EXCEPT ![i] = "ended"]
  /\ subDone' = TRUE
  /\ UNCHANGED << loopVars, givenVars, item, made, buffer, stateVars, late, pump,
                  renders, current, nestedVars, screen >>

\* A synchronous render writes the subtree where it stands, with the lock held and
\* whatever is nested in it settled there too, and stops. What is nested may fail
\* without a recover subtree, and the render with it.
RenderInPlace(i) ==
  /\ InPlace /\ at[i] = "emitting"
  /\ Halt(i)
  /\ buffer' = [buffer EXCEPT ![i] = NoRender]
  /\ \/ /\ screen' = [shows |-> buffer[i].shows, render |-> buffer[i].render,
                       scope |-> buffer[i].scope, inner |-> 0]
        /\ UNCHANGED failed
     \/ /\ buffer[i].shows = "primary" /\ Nested # "none"
        /\ failed' = TRUE
        /\ UNCHANGED screen
  /\ UNCHANGED << loopVars, givenVars, item, made, scope, ready, pending, subDone,
                  late, pump, renders, current, nestedVars >>

\* Every binding returned: pump returns the boundary's failure, if it has one,
\* which is sent as an error.
PumpReturns ==
  /\ pump = "running" /\ ~InPlace
  /\ \A i \in Binding : at[i] = "ended"
  /\ pump' = IF failed THEN "failing" ELSE "returned"
  /\ subDone' = TRUE
  /\ UNCHANGED << loopVars, givenVars, at, item, made, buffer, stateVars, late,
                  renders, current, nestedVars, screen >>

\* The synchronous render returns: with the failure, or with the fallback when
\* nothing was delivered.
ReturnInPlace ==
  /\ InPlace /\ pump = "running"
  /\ \A i \in Binding : at[i] = "ended"
  /\ pump' = "returned" /\ pass' = "ended" /\ subDone' = TRUE
  /\ screen' = IF renders = 0 THEN [screen EXCEPT !.shows = "fallback"] ELSE screen
  /\ UNCHANGED << fatal, stopped, givenVars, at, item, made, buffer, stateVars, late,
                  renders, current, nestedVars >>

AbandonFailure ==
  /\ pump = "failing" /\ Cancelled
  /\ pump' = "returned"
  /\ UNCHANGED << loopVars, givenVars, at, item, made, buffer, stateVars, subDone,
                  late, renders, current, nestedVars, screen >>

-----------------------------------------------------------------------------
(* The boundary nested in render r.                                        *)

NestedStep(r, from, to) ==
  /\ nested[r] = from
  /\ nested' = [nested EXCEPT ![r] = to]
  /\ UNCHANGED << loopVars, givenVars, at, item, made, buffer, stateVars, subDone,
                  late, pump, renders, current, sent, inner, screen >>

\* An await boundary's bindings answered, and its subtree rendered.
NestedSettles(r) == Nested = "await" /\ NestedStep(r, "working", "checking")

\* Its wait ended: silently when the render is over, and otherwise as a failure
\* that its recover subtree renders.
NestedWaitEnds(r) ==
  /\ Nested = "await"
  /\ Cancelled \/ Superseded(r)
  /\ NestedStep(r, "working", IF Cancelled THEN "done" ELSE "checking")

NestedChecks(r) ==
  NestedStep(r, "checking", IF Cancelled \/ Superseded(r) THEN "done" ELSE "sending")

\* A nested live boundary is subscribed under the render's context, not under
\* its delivery's.
NestedYields(r) ==
  /\ Nested = "live" /\ sent[r] < MaxItems
  /\ NestedStep(r, "working", "sending")

NestedEnds(r) == Nested = "live" /\ NestedStep(r, "working", "done")

NestedAbandons(r) == Cancelled /\ NestedStep(r, "sending", "done")

-----------------------------------------------------------------------------
(* The ranging loop, and what the client makes of each item.               *)

Yield(error) ==
  /\ pass = "ranging"
  /\ pass' = "yielding"
  /\ fatal' = error
  /\ UNCHANGED << givenVars, stopped, item, made, late, subDone, renders, current >>

\* The live boundary's content. A document entry stops after one render.
ReceiveContent(i) ==
  /\ at[i] = "emitting"
  /\ Yield(FALSE)
  /\ screen' = [shows |-> buffer[i].shows, render |-> buffer[i].render,
                scope |-> buffer[i].scope, inner |-> 0]
  /\ buffer' = [buffer EXCEPT ![i] = NoRender]
  /\ IF KeepOpen THEN Resume(i) /\ UNCHANGED halted ELSE Halt(i)
  /\ UNCHANGED << scope, ready, pending, failed, pump, nestedVars >>

ReceiveSignal(i) ==
  /\ at[i] = "signalling"
  /\ Yield(FALSE)
  /\ Resume(i)
  /\ UNCHANGED << buffer, stateVars, pump, nestedVars, screen >>

\* The nested boundary's content replaces its placeholder, which is there while
\* the region shows the primary subtree.
ReceiveInner(r) ==
  /\ nested[r] = "sending"
  /\ Yield(FALSE)
  /\ nested' = [nested EXCEPT ![r] = IF Nested = "await" THEN "done" ELSE "working"]
  /\ sent' = [sent EXCEPT ![r] = @ + 1]
  /\ inner' = inner \cup {r}
  /\ screen' = [screen EXCEPT !.inner = IF screen.shows = "primary" THEN r ELSE @]
  /\ UNCHANGED << at, buffer, stateVars, pump >>

ReceiveFailure ==
  /\ pump = "failing"
  /\ Yield(TRUE)
  /\ pump' = "returned"
  /\ UNCHANGED << at, buffer, stateVars, nestedVars, screen >>

Stop == pass' = "ended" /\ stopped' = TRUE

YieldReturns ==
  /\ pass = "yielding"
  /\ Stop \/ (~fatal /\ pass' = "ranging" /\ UNCHANGED stopped)
  /\ UNCHANGED << fatal, givenVars, at, item, made, buffer, stateVars, subDone,
                  late, pump, renders, current, nestedVars, screen >>

SequenceEnds ==
  /\ pass = "ranging"
  /\ ResultsClosed \/ requestDone
  /\ Stop
  /\ UNCHANGED << fatal, givenVars, at, item, made, buffer, stateVars, subDone,
                  late, pump, renders, current, nestedVars, screen >>

\* Mutant: the deadline runs from the first item rather than from the start.
DeadlinePasses_FromFirstItem ==
  /\ Deadline /\ ~KeepOpen /\ ~late
  /\ pump = "running" /\ ready # {}
  /\ late' = TRUE
  /\ UNCHANGED << loopVars, givenVars, at, item, made, buffer, stateVars, subDone,
                  pump, renders, current, nestedVars, screen >>

\* The environment: the request goes away, or the first-delivery deadline of a
\* document entry passes.
CancelRequest ==
  /\ ~requestDone
  /\ requestDone' = TRUE
  /\ UNCHANGED << setting, loopVars, at, item, made, buffer, stateVars, subDone, late, pump,
                  renders, current, nestedVars, screen >>

DeadlinePasses ==
  /\ Deadline /\ ~KeepOpen /\ ~late
  /\ pump = "running"
  /\ late' = TRUE
  /\ UNCHANGED << loopVars, givenVars, at, item, made, buffer, stateVars, subDone,
                  pump, renders, current, nestedVars, screen >>

-----------------------------------------------------------------------------

Source(i) == SourceYields(i) \/ WaitEnds(i) \/ SourceEnds(i)

Deliver(i) == \/ DeliverLate(i) \/ DeliverValue(i) \/ DeliverFailure(i)
              \/ DeliverSignal(i) \/ AbandonEmit(i) \/ Leave(i)

NestedGoroutine(r) == \/ NestedSettles(r) \/ NestedWaitEnds(r) \/ NestedChecks(r)
                      \/ NestedYields(r) \/ NestedEnds(r) \/ NestedAbandons(r)

Ranging == \/ \E i \in Binding : ReceiveContent(i) \/ ReceiveSignal(i)
           \/ \E r \in Renders : ReceiveInner(r)
           \/ ReceiveFailure
           \/ YieldReturns
           \/ SequenceEnds

\* Nothing of the render is left running.
Drained == pump = "returned" /\ Active = {}

Finished == pass = "ended" /\ Drained /\ UNCHANGED vars

Next == \/ \E i \in Binding : Source(i) \/ Deliver(i) \/ RenderInPlace(i)
        \/ PumpReturns \/ AbandonFailure \/ ReturnInPlace
        \/ \E r \in Renders : NestedGoroutine(r)
        \/ Ranging
        \/ CancelRequest \/ DeadlinePasses
        \/ Finished

Spec == Init /\ [][Next]_vars

\* An await boundary that is settled in place is given the request's context and
\* no deadline, so that is all that is sure to end it.
Answers == Nested # "await" \/ Cancelled

\* A goroutine that can take a step takes it and the caller's loop body returns.
\* Of the sources only what the interface asks of them is assumed: one that is
\* given a context returns once it is done. With WithAsyncTimeout set a nested
\* await boundary has a deadline of its own.
Fairness ==
  /\ \A i \in Binding : /\ WF_vars(Deliver(i))
                        /\ WF_vars(Answers /\ RenderInPlace(i))
                        /\ WF_vars(WaitEnds(i))
                        /\ WF_vars(SubscriptionDone /\ SourceEnds(i))
  /\ WF_vars(PumpReturns) /\ WF_vars(AbandonFailure) /\ WF_vars(ReturnInPlace)
  /\ \A r \in Renders : /\ WF_vars(NestedWaitEnds(r))
                        /\ WF_vars(NestedChecks(r))
                        /\ WF_vars(NestedAbandons(r))
                        /\ WF_vars(Cancelled /\ NestedEnds(r))
                        /\ WF_vars(Deadline /\ NestedSettles(r))
  /\ WF_vars(Ranging)
  /\ WF_vars(DeadlinePasses)

FairSpec == Spec /\ Fairness

-----------------------------------------------------------------------------
(* Properties *)

Views == {"none", "fallback", "primary", "recover", "timeout"}

\* The shape of the state.
TypeOK ==
  /\ setting \in Setting
  /\ pass \in {"waiting", "ranging", "yielding", "ended"}
  /\ fatal \in BOOLEAN /\ requestDone \in BOOLEAN /\ stopped \in BOOLEAN
  /\ halted \in BOOLEAN /\ failed \in BOOLEAN /\ subDone \in BOOLEAN /\ late \in BOOLEAN
  /\ at \in [Binding -> {"source", "calling", "emitting", "signalling", "leaving", "ended"}]
  /\ item \in [Binding -> {"none", "value", "failure", "waitover", "signal"}]
  /\ made \in [Binding -> Nat]
  /\ scope \in [Binding -> Nat]
  /\ buffer \in [Binding -> [shows : Views, render : Nat, scope : [Binding -> Nat]]]
  /\ ready \subseteq Binding
  /\ pending \in Nat
  /\ pump \in {"running", "failing", "returned"}
  /\ renders \in Nat /\ current \in Nat
  /\ nested \in [Renders -> {"idle", "working", "checking", "sending", "done"}]
  /\ sent \in [Renders -> Nat]
  /\ inner \subseteq Renders
  /\ screen \in [shows : Views, render : Nat, scope : [Binding -> Nat],
                 inner : {0} \cup Renders]

\* The primary subtree reads every binding, so it never reaches the client with
\* one that has not delivered.
PrimaryShowsEveryBinding ==
  screen.shows = "primary" => \A i \in Binding : screen.scope[i] > 0

\* Two bindings moving at once cannot put an older render on screen after a
\* newer one, nor an older value of either.
ScreenMovesForward ==
  [][ /\ screen'.render >= screen.render
      /\ \A i \in Binding : screen'.scope[i] >= screen.scope[i] ]_screen

\* A document entry renders a live boundary once, however many bindings deliver.
DocumentRendersOnce == ~KeepOpen => renders <= 1

\* The page a synchronous render returns without a failure holds the content of one
\* delivery, or the fallback where a binding never delivered.
InPlaceShowsWhatCame ==
  InPlace /\ pass = "ended" /\ ~failed =>
    IF screen.shows = "fallback" THEN ready # Binding /\ renders = 0 ELSE screen.render = renders

\* What the region shows is one sound view of the bindings.
RegionIsSound == TypeOK /\ PrimaryShowsEveryBinding /\ DocumentRendersOnce /\ InPlaceShowsWhatCame

\* A nested await boundary is dropped only for a render that replaced its own:
\* a signal, a failed wait or the end of the subscription leaves it to settle.
InnerSettlesUnlessReplaced ==
  Nested = "await" =>
    \A r \in Renders :
      nested[r] = "done" /\ ~Cancelled /\ r \notin inner => r < renders

\* Once a failure has ended the boundary nothing of it is shown any more.
FailureIsFinal == [][failed => screen'.render = screen.render]_vars

\* Renders reach the screen in the order they were made, and none follows a failure.
RendersInOrder == ScreenMovesForward /\ FailureIsFinal

\* The request going away or the caller stopping ends every subscription, every
\* nested boundary and the sequence, if every source heeds its context.
Heeds == \A i \in Binding : Kind[i] # "deaf"

CancellationDrains == Heeds /\ Cancelled ~> (pass = "ended" /\ Drained)

\* The goroutine of a superseded nested await boundary returns although the source it
\* waits on never answers.
SupersededEnds ==
  \A r \in Renders : (Nested = "await" /\ r < renders) ~> nested[r] \in {"idle", "done"}

\* Nothing that was cancelled or superseded keeps running.
WorkEnds == CancellationDrains /\ SupersededEnds

\* A document with a first-delivery deadline finishes, however quiet the sources
\* that heed it; a synchronous one, unless an await boundary in it never answers.
DocumentFinishes ==
  Heeds /\ Deadline /\ ~KeepOpen /\ (InPlace => Nested # "await") ~> pass = "ended"

(* What the comments say of every render *)

\* ops.go, deliveryScope: a nested boundary left over from a superseded delivery
\* does not "settle into the replacement's placeholder and put stale content on
\* screen".
NoStaleInner == screen.inner = 0 \/ screen.inner >= screen.render
=============================================================================
