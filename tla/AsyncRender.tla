---------------------------- MODULE AsyncRender ----------------------------
(***************************************************************************)
(* The streaming render of a document with await boundaries: streamChain   *)
(* (htmlbind/render.go), the asyncCoordinator it owns (htmlbind/async.go)  *)
(* and the instruction that opens a boundary (awaitOp.Exec in              *)
(* htmlbind/ops.go).                                                       *)
(*                                                                         *)
(* One goroutine runs the initial pass and then ranges over the results    *)
(* channel.  Every boundary it opens gets a goroutine of its own, which    *)
(* may open the boundaries nested in its subtree.  The channel is          *)
(* unbuffered, so a delivery is a rendezvous between a boundary goroutine  *)
(* in `sending' and the ranging loop.  The caller's client applies what it *)
(* is handed in the order it was yielded (settle in runtime.js).           *)
(***************************************************************************)
EXTENDS Naturals, Sequences, FiniteSets

CONSTANTS
  Boundary,   \* the await boundaries the templates can open
  Enclosing,  \* [Boundary -> SUBSET Boundary], the boundaries whose subtree holds it
  Recovers,   \* the boundaries whose clause declared a recover subtree
  Setting     \* the options the render may be given

ASSUME TreeAssumption ==
  /\ IsFiniteSet(Boundary)
  /\ Enclosing \in [Boundary -> SUBSET Boundary]
  /\ \A b \in Boundary :
       /\ b \notin Enclosing[b]
       /\ \/ Enclosing[b] = {}
          \/ \E a \in Boundary : Enclosing[b] = Enclosing[a] \cup {a}

\* The initial pass is not a boundary: its identifier names no placeholder.
ASSUME NameAssumption == "document" \notin Boundary

ASSUME OptionAssumption ==
  /\ Recovers \subseteq Boundary
  /\ Setting \subseteq [limit : Nat, timed : BOOLEAN]

VARIABLES
  setting,     \* the options it was given
  pass,        \* where streamChain is
  ending,      \* how the sequence ended
  requestDone, \* the caller's context is done
  stopped,     \* coordinator.stop ran
  closer,      \* the goroutine of coordinator.wait
  phase,       \* where each boundary's goroutine is
  result,      \* what its run produced
  expired,     \* boundaries whose WithTimeout deadline passed
  reported,    \* failures handed to the error reporter, with their cause
  yielded,     \* the items handed to the ranging caller
  fences       \* placeholders the client's document holds

vars == << setting, pass, ending, requestDone, stopped, closer, phase, result,
           expired, reported, yielded, fences >>

\* What the caller decides.
givenVars       == << setting, requestDone >>
coordinatorVars == << pass, ending, stopped, closer, yielded, fences >>
goroutineVars   == << phase, result, reported >>

Limit == setting.limit \* of WithConcurrencyLimit; 0 is unbounded
Timed == setting.timed \* WithAsyncTimeout set a deadline

(***************************************************************************)
(* Contexts.  The coordinator's context is derived from the request's and  *)
(* cancelled by stop.  A boundary runs under the context its enclosing     *)
(* subtree was rendered with: with a deadline configured that is the       *)
(* WithTimeout context of the enclosing boundary's goroutine, which the    *)
(* goroutine's deferred cancel ends when it returns.                       *)
(***************************************************************************)
Cancelled == requestDone \/ stopped

RunContextEnded(b) == Timed /\ (b \in expired \/ phase[b] = "done")

BoundaryDone(b) == Cancelled \/ \E a \in Enclosing[b] : RunContextEnded(a)

Opened == { b \in Boundary : phase[b] # "idle" }

\* Mutant: wg.Add moved into the goroutine.
Counted_AddInGoroutine == { b \in Boundary : phase[b] \notin {"idle", "queued", "done"} }

\* The goroutines the wait group counts: wg.Add runs in start, not in the
\* goroutine, so a queued boundary is already counted.
Counted == { b \in Boundary : phase[b] \notin {"idle", "done"} }

\* Mutant: the slot is given back before the send.
Running_ReleasedBeforeSend == { b \in Counted : phase[b] \notin {"queued", "sending"} }

\* The boundaries holding a slot of the semaphore.
Running == { b \in Counted : phase[b] # "queued" }

Children(a) == { c \in Boundary : Enclosing[c] = Enclosing[a] \cup {a} }

YieldedIDs == { yielded[i].id : i \in { j \in DOMAIN yielded : yielded[j].kind = "content" } }

Init ==
  /\ setting \in Setting
  /\ pass = "rendering"
  /\ ending = "none"
  /\ requestDone = FALSE
  /\ stopped = FALSE
  /\ closer = "none"
  /\ phase = [b \in Boundary |-> "idle"]
  /\ result = [b \in Boundary |-> "none"]
  /\ expired = {}
  /\ reported = {}
  /\ yielded = << >>
  /\ fences = {}

-----------------------------------------------------------------------------
(* The goroutine of streamChain: the initial pass and the ranging loop.    *)

\* The sequence function returns, which runs the deferred coordinator.stop.
Return(how) ==
  /\ pass' = "ended"
  /\ ending' = how
  /\ stopped' = TRUE

\* awaitOp.Exec during the initial pass: the fallback is written between its
\* fences and the boundary's goroutine is started.
OpenInDocument(b) ==
  /\ pass = "rendering"
  /\ phase[b] = "idle" /\ Enclosing[b] = {}
  /\ phase' = [phase EXCEPT ![b] = "queued"]
  /\ UNCHANGED << coordinatorVars, givenVars, result, expired, reported >>

\* A failing instruction of the initial pass is yielded and ends the sequence.
DocumentFails ==
  /\ pass = "rendering"
  /\ pass' = "yielding"
  /\ yielded' = Append(yielded, [id |-> "document", kind |-> "error"])
  /\ UNCHANGED << ending, givenVars, stopped, closer, goroutineVars, expired, fences >>

\* The initial pass is flushed and the closer started. `rendered' is the
\* callback of a comparing caller, which may refuse to go on.
CommitDocument ==
  /\ pass = "rendering"
  /\ fences' = Opened \cap { b \in Boundary : Enclosing[b] = {} }
  /\ \/ /\ pass' = "ranging"
        /\ closer' = "waiting"
        /\ UNCHANGED << ending, stopped >>
     \/ /\ Return("stopped")
        /\ UNCHANGED closer
  /\ UNCHANGED << givenVars, goroutineVars, expired, yielded >>

\* Mutant: only the boundaries of the document are waited for.
CloseResults_IgnoresNested ==
  /\ closer = "waiting"
  /\ \A b \in Counted : Enclosing[b] # {}
  /\ closer' = "closed"
  /\ UNCHANGED << pass, ending, givenVars, stopped, goroutineVars, expired,
                  yielded, fences >>

\* wg.Wait returns and the results channel is closed.
CloseResults ==
  /\ closer = "waiting"
  /\ Counted = {}
  /\ closer' = "closed"
  /\ UNCHANGED << pass, ending, givenVars, stopped, goroutineVars, expired,
                  yielded, fences >>

\* The rendezvous: a boundary's result is received and yielded. The client
\* replaces the fallback between the two fences with the fragment, and does
\* nothing when it holds no such fences.
Receive(b) ==
  /\ pass = "ranging"
  /\ phase[b] = "sending"
  /\ phase' = [phase EXCEPT ![b] = "done"]
  /\ pass' = "yielding"
  /\ IF result[b] = "failed"
     THEN /\ yielded' = Append(yielded, [id |-> b, kind |-> "error"])
          /\ UNCHANGED fences
     ELSE /\ yielded' = Append(yielded, [id |-> b, kind |-> "content"])
          /\ fences' = IF b \notin fences THEN fences
                       ELSE IF result[b] = "recovered" THEN fences \ {b}
                       ELSE (fences \ {b}) \cup (Opened \cap Children(b))
  /\ UNCHANGED << ending, givenVars, stopped, closer, result, expired, reported >>

\* The caller's loop body returns. An error ends the sequence whatever the
\* caller answered; after content it may break out of the range.
YieldReturns ==
  /\ pass = "yielding"
  /\ \/ /\ yielded[Len(yielded)].kind = "error"
        /\ Return("failed")
     \/ /\ yielded[Len(yielded)].kind = "content"
        /\ \/ Return("stopped")
           \/ pass' = "ranging" /\ UNCHANGED << ending, stopped >>
  /\ UNCHANGED << givenVars, closer, goroutineVars, expired, yielded, fences >>

\* The two other ways out of the ranging select: the channel is closed, or the
\* caller's context is done. With both ready Go takes either.
SequenceEnds ==
  /\ pass = "ranging"
  /\ \/ closer = "closed" /\ Return(IF requestDone THEN "cancelled" ELSE "closed")
     \/ requestDone /\ Return("cancelled")
  /\ UNCHANGED << givenVars, closer, goroutineVars, expired, yielded, fences >>

\* The environment: the request goes away.
CancelRequest ==
  /\ ~requestDone
  /\ requestDone' = TRUE
  /\ UNCHANGED << setting, coordinatorVars, goroutineVars, expired >>

-----------------------------------------------------------------------------
(* The goroutine start launches for boundary b, and the run it was given.  *)

Goto(b, next) == phase' = [phase EXCEPT ![b] = next]

Produce(b, r) == result' = [result EXCEPT ![b] = r]

\* Takes a slot of the semaphore, when a limit is set, and starts run.
Acquire(b) ==
  /\ phase[b] = "queued"
  /\ Limit = 0 \/ Cardinality(Running) < Limit
  /\ Goto(b, "resolving")
  /\ UNCHANGED << coordinatorVars, givenVars, result, expired, reported >>

\* The other arm of the semaphore's select.
LeaveQueue(b) ==
  /\ phase[b] = "queued"
  /\ Limit > 0 /\ BoundaryDone(b)
  /\ Goto(b, "done")
  /\ UNCHANGED << coordinatorVars, givenVars, result, expired, reported >>

\* The deadline of the context start made passes.
Expire(b) ==
  /\ Timed /\ b \in Running \ expired
  /\ expired' = expired \cup {b}
  /\ UNCHANGED << coordinatorVars, givenVars, goroutineVars >>

\* Every binding produced its value.
ResolveOk(b) ==
  /\ phase[b] = "resolving"
  /\ Goto(b, "rendering")
  /\ UNCHANGED << coordinatorVars, givenVars, result, expired, reported >>

\* A failure is reported, and then rendered by the recover subtree or, without
\* one, sent as an error.
ReportFailure(b, cause) ==
  /\ reported' = reported \cup {<< b, cause >>}
  /\ IF b \in Recovers
     THEN Goto(b, "recovering") /\ UNCHANGED result
     ELSE Goto(b, "checking") /\ Produce(b, "failed")

\* Mutant: a failure is handled without asking whether the render was cancelled.
BindingsFail_Loud(b, cause) == ReportFailure(b, cause)

\* The bindings failed. An expected cancellation is silent: the committed
\* fallback is the final content.
BindingsFail(b, cause) ==
  IF Cancelled
  THEN Goto(b, "done") /\ UNCHANGED << result, reported >>
  ELSE ReportFailure(b, cause)

\* A source returned an error or panicked.
SourceFails(b) ==
  /\ phase[b] = "resolving"
  /\ BindingsFail(b, "source")
  /\ UNCHANGED << coordinatorVars, givenVars, expired >>

\* Concurrent stops waiting for the bindings once its context is done, and
\* returns the context's error.
WaitCauses(b) ==
  { cause \in {"deadline", "cancelled"} :
      IF cause = "deadline"
      THEN (Enclosing[b] \cup {b}) \cap expired # {}
      ELSE Cancelled \/ (Timed /\ \E a \in Enclosing[b] : phase[a] = "done") }

\* Mutant: Concurrent always joins its tasks.
WaitEnds_JoinsTasks(b) == FALSE

WaitEnds(b) ==
  /\ phase[b] = "resolving"
  /\ \E cause \in WaitCauses(b) : BindingsFail(b, cause)
  /\ UNCHANGED << coordinatorVars, givenVars, expired >>

\* awaitOp.Exec while b's primary subtree renders into b's own buffer: the
\* nested boundary registers before b's goroutine can return.
OpenNested(b, c) ==
  /\ phase[b] = "rendering"
  /\ c \in Children(b) /\ phase[c] = "idle"
  /\ Goto(c, "queued")
  /\ UNCHANGED << coordinatorVars, givenVars, result, expired, reported >>

\* Mutant: a subtree waits for the boundaries nested in it.
RenderEnds_JoinsNested(b) ==
  /\ phase[b] \in {"rendering", "recovering"}
  /\ Children(b) \cap Counted = {}
  /\ Goto(b, "checking")
  /\ Produce(b, IF phase[b] = "rendering" THEN "settled" ELSE "recovered")
  /\ UNCHANGED << coordinatorVars, givenVars, expired, reported >>

\* The primary or the recover subtree has rendered, or failed to.
RenderEnds(b) ==
  /\ phase[b] \in {"rendering", "recovering"}
  /\ Goto(b, "checking")
  /\ \/ Produce(b, IF phase[b] = "rendering" THEN "settled" ELSE "recovered")
     \/ Produce(b, "failed")
  /\ UNCHANGED << coordinatorVars, givenVars, expired, reported >>

\* Mutant: the result is dropped once the boundary's own deadline passed.
CheckContext_OwnDeadline(b) ==
  /\ phase[b] = "checking"
  /\ Goto(b, IF BoundaryDone(b) \/ b \in expired THEN "done" ELSE "sending")
  /\ UNCHANGED << coordinatorVars, givenVars, result, expired, reported >>

\* start drops the result of a boundary whose own context is done.
CheckContext(b) ==
  /\ phase[b] = "checking"
  /\ Goto(b, IF BoundaryDone(b) THEN "done" ELSE "sending")
  /\ UNCHANGED << coordinatorVars, givenVars, result, expired, reported >>

\* The send's other arm: nobody is ranging any more.
AbandonSend(b) ==
  /\ phase[b] = "sending"
  /\ Cancelled
  /\ Goto(b, "done")
  /\ UNCHANGED << coordinatorVars, givenVars, result, expired, reported >>

-----------------------------------------------------------------------------

Document == \/ \E b \in Boundary : OpenInDocument(b)
            \/ DocumentFails
            \/ CommitDocument

Ranging == \/ \E b \in Boundary : Receive(b)
           \/ YieldReturns
           \/ SequenceEnds

Goroutine(b) == \/ Acquire(b)
                \/ LeaveQueue(b)
                \/ ResolveOk(b)
                \/ SourceFails(b)
                \/ WaitEnds(b)
                \/ \E c \in Boundary : OpenNested(b, c)
                \/ RenderEnds(b)
                \/ CheckContext(b)
                \/ AbandonSend(b)

\* Every goroutine returned and the sequence is over: the render is finished.
Finished == /\ pass = "ended"
            /\ Counted = {}
            /\ closer # "waiting"
            /\ UNCHANGED vars

Next == \/ Document
        \/ Ranging
        \/ CloseResults
        \/ CancelRequest
        \/ \E b \in Boundary : Expire(b) \/ Goroutine(b)
        \/ Finished

Spec == Init /\ [][Next]_vars

\* What the Go scheduler and the caller owe: a goroutine that can take a step
\* takes it, the caller's loop body returns, and a wait on a context that is
\* done returns. Nothing is assumed of a source: its bindings may hang.
Prompt(b) == \/ Acquire(b)
             \/ LeaveQueue(b)
             \/ WaitEnds(b)
             \/ RenderEnds(b)
             \/ CheckContext(b)
             \/ AbandonSend(b)

Fairness == /\ WF_vars(CommitDocument \/ DocumentFails)
            /\ WF_vars(Ranging)
            /\ WF_vars(CloseResults)
            /\ \A b \in Boundary : WF_vars(Prompt(b))

FairSpec == Spec /\ Fairness

-----------------------------------------------------------------------------
(* Properties *)

Phases == { "idle", "queued", "resolving", "rendering", "recovering",
            "checking", "sending", "done" }

Items == [id : Boundary, kind : {"content", "error"}]
           \cup [id : {"document"}, kind : {"error"}]

\* The shape of the state.
TypeOK ==
  /\ setting \in Setting
  /\ pass \in {"rendering", "ranging", "yielding", "ended"}
  /\ ending \in {"none", "closed", "failed", "stopped", "cancelled"}
  /\ requestDone \in BOOLEAN
  /\ stopped \in BOOLEAN
  /\ closer \in {"none", "waiting", "closed"}
  /\ phase \in [Boundary -> Phases]
  /\ result \in [Boundary -> {"none", "settled", "recovered", "failed"}]
  /\ expired \subseteq Boundary
  /\ reported \subseteq (Boundary \X {"source", "deadline", "cancelled"})
  /\ yielded \in Seq(Items)
  /\ fences \subseteq Boundary

\* Nothing is sent on, or registered behind, a closed channel: once the closer
\* has closed the results no boundary goroutine is left and none is started,
\* although nested boundaries register while the closer is already waiting.
ClosedIsFinal == closer = "closed" => Counted = {}

HandedOver == { yielded[i].id : i \in DOMAIN yielded }

\* A goroutine that returned while the render was alive delivered what its
\* boundary came to. With a deadline configured this is claimed only of the
\* boundaries of the document itself: the others run under the context their
\* enclosing goroutine's return ends.
NothingLost ==
  \A b \in Boundary :
    phase[b] = "done" /\ ~Cancelled /\ (Timed => Enclosing[b] = {}) => b \in HandedOver

\* A boundary is handed to the caller at most once, so no completion arrives
\* for a placeholder that was already replaced.
YieldedOnce ==
  \A i, j \in DOMAIN yielded : yielded[i].id = yielded[j].id => i = j

\* An error is the last item of the sequence: nothing is rendered or sent
\* behind it, whatever else was still running.
ErrorIsLast ==
  \A i \in DOMAIN yielded : yielded[i].kind = "error" => i = Len(yielded)

\* The sequence is sound: the channel closes behind the last send, and what the
\* caller is handed holds nothing twice, misses nothing, and ends at the first error.
SequenceIsSound == ClosedIsFinal /\ NothingLost /\ YieldedOnce /\ ErrorIsLast

\* The request going away, or the caller breaking out of the loop, is never
\* reported as a failure of a source and never rendered by a recover subtree.
CancellationIsSilent ==
  \A b \in Boundary :
    (Timed => Enclosing[b] = {}) => << b, "cancelled" >> \notin reported

\* When the request goes away or the caller stops, the sequence ends and every
\* boundary goroutine returns, even those whose source never answers.
CancellationDrains == Cancelled ~> (pass = "ended" /\ Counted = {})

\* If the sources answer, every render ends with nothing left running: no
\* goroutine waits for ever on a slot, a send or the closer.
Answering == \A b \in Boundary : WF_vars(ResolveOk(b) \/ SourceFails(b))

RenderTerminates == Answering => <>(pass = "ended" /\ Counted = {} /\ closer # "waiting")

\* render.go, RenderChainAsync: "Each later item is the replacement for one
\* placeholder": the client holds the placeholder an item replaces. Under a limit
\* of one an enclosing boundary keeps the slot until its own content is delivered,
\* so it is so for nested boundaries too; without a limit, for those of the
\* document.
ItemsHavePlaceholders ==
  [][\A b \in Boundary :
       /\ yielded' = Append(yielded, [id |-> b, kind |-> "content"])
       /\ Limit = 1 \/ Enclosing[b] = {}
       => b \in fences]_vars

-----------------------------------------------------------------------------
(* The promise of the sequence to its caller, without goroutines. A deadline *)
(* ends the context a nested boundary runs under when its enclosing boundary  *)
(* returns, so it is kept for the boundaries no deadline encloses.            *)
Promised == { b \in Boundary : Timed => Enclosing[b] = {} }

Promise == INSTANCE Completions
             WITH placed  <- Opened \cap Promised,
                  settled <- YieldedIDs \cap Promised,
                  status  <- CASE ending = "none"   -> "open"
                               [] ending = "closed" -> "finished"
                               [] ending = "failed" -> "failed"
                               [] OTHER             -> "abandoned"

\* A render keeps the promise.
KeepsPromise == Promise!Spec
=============================================================================
