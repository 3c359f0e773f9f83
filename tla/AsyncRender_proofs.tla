------------------------ MODULE AsyncRender_proofs ------------------------
(***************************************************************************)
(* Theorems about AsyncRender for every tree of boundaries, every limit    *)
(* and with or without a deadline.                                         *)
(***************************************************************************)
EXTENDS AsyncRender, FiniteSetTheorems, TLAPS

(* The actions of one goroutine, as a step of the whole system.            *)
USE DEF coordinatorVars, goroutineVars, givenVars

\* No step changes the options the render was given.
LEMMA OptionsStay ==
  ASSUME [Next]_vars
  PROVE  Timed' = Timed
<1>1. UNCHANGED setting
  BY DEF Next, Document, Ranging, OpenInDocument, DocumentFails, CommitDocument, Return,
         Receive, YieldReturns, SequenceEnds, CloseResults, CancelRequest, Expire, Finished,
         vars, Goroutine, Acquire, LeaveQueue, ResolveOk, SourceFails, WaitEnds, OpenNested,
         RenderEnds, CheckContext, AbandonSend
<1> QED BY <1>1 DEF Timed

\* Every reachable state has the shape TypeOK describes.
THEOREM TypeCorrect == Spec => []TypeOK
<1>1. Init => TypeOK
  <2> SUFFICES ASSUME Init PROVE TypeOK
    OBVIOUS
  <2>1. yielded \in Seq(Items)
    BY DEF Init
  <2> QED
    BY <2>1 DEF Init, TypeOK, Phases
<1>2. TypeOK /\ [Next]_vars => TypeOK'
  <2> SUFFICES ASSUME TypeOK, [Next]_vars PROVE TypeOK'
    OBVIOUS
  <2> USE DEF TypeOK, Phases
  <2>1. ASSUME NEW b \in Boundary, OpenInDocument(b) PROVE TypeOK'
    BY <2>1 DEF OpenInDocument
  <2>2. CASE DocumentFails
    <3>1. yielded' \in Seq(Items)
      BY <2>2 DEF DocumentFails, Items
    <3> QED BY <2>2, <3>1 DEF DocumentFails
  <2>3. CASE CommitDocument
    BY <2>3 DEF CommitDocument, Return
  <2>4. ASSUME NEW b \in Boundary, Receive(b) PROVE TypeOK'
    <3>1. yielded' \in Seq(Items)
      <4>1. PICK kind \in {"content", "error"} :
              yielded' = Append(yielded, [id |-> b, kind |-> kind])
        BY <2>4 DEF Receive
      <4>2. [id |-> b, kind |-> kind] \in Items
        BY DEF Items
      <4>3. yielded \in Seq(Items)
        OBVIOUS
      <4> HIDE DEF TypeOK
      <4> QED BY <4>1, <4>2, <4>3
    <3>2. fences' \subseteq Boundary
      BY <2>4 DEF Receive, Opened, Children
    <3> QED BY <2>4, <3>1, <3>2 DEF Receive
  <2>5. CASE YieldReturns
    BY <2>5 DEF YieldReturns, Return
  <2>6. CASE SequenceEnds
    BY <2>6 DEF SequenceEnds, Return
  <2>7. CASE CloseResults
    BY <2>7 DEF CloseResults
  <2>8. CASE CancelRequest
    BY <2>8 DEF CancelRequest
  <2>9. ASSUME NEW b \in Boundary, Expire(b) PROVE TypeOK'
    BY <2>9 DEF Expire
  <2>10. ASSUME NEW b \in Boundary, Goroutine(b) PROVE TypeOK'
    <3>1. CASE Acquire(b) \/ LeaveQueue(b) \/ ResolveOk(b) \/ CheckContext(b) \/ AbandonSend(b)
      BY <3>1 DEF Acquire, LeaveQueue, ResolveOk, CheckContext, AbandonSend, Goto
    <3>2. CASE SourceFails(b) \/ WaitEnds(b)
      BY <3>2 DEF SourceFails, WaitEnds, WaitCauses, BindingsFail, ReportFailure, Goto, Produce
    <3>3. ASSUME NEW c \in Boundary, OpenNested(b, c) PROVE TypeOK'
      BY <3>3 DEF OpenNested, Goto
    <3>4. CASE RenderEnds(b)
      BY <3>4 DEF RenderEnds, Goto, Produce
    <3> QED BY <2>10, <3>1, <3>2, <3>3, <3>4 DEF Goroutine
  <2>11. CASE Finished \/ UNCHANGED vars
    BY <2>11 DEF Finished, vars
  <2> QED
    BY <2>1, <2>2, <2>3, <2>4, <2>5, <2>6, <2>7, <2>8, <2>9, <2>10, <2>11
       DEF Next, Document, Ranging
<1> QED
  BY <1>1, <1>2, PTL DEF Spec

-----------------------------------------------------------------------------
(* ClosedIsFinal.                                                          *)

\* Once the closer has closed the channel nobody is counted, and it does not run
\* before the initial pass is over. The second half keeps the document from
\* opening a boundary behind a closed channel; a nested boundary is opened by a
\* goroutine that is counted itself.
ClosedInv == ClosedIsFinal /\ (pass = "rendering" => closer = "none")

\* No action but opening one adds a goroutine to the counted, and a goroutine
\* acts only while it is counted.
LEMMA GoroutineIsCounted ==
  ASSUME TypeOK, NEW b \in Boundary, Goroutine(b)
  PROVE  /\ b \in Counted
         /\ UNCHANGED coordinatorVars
<1> USE DEF TypeOK, Phases, Counted
<1>1. CASE Acquire(b) \/ LeaveQueue(b) \/ ResolveOk(b) \/ CheckContext(b) \/ AbandonSend(b)
  BY <1>1 DEF Acquire, LeaveQueue, ResolveOk, CheckContext, AbandonSend
<1>2. CASE SourceFails(b) \/ WaitEnds(b)
  BY <1>2 DEF SourceFails, WaitEnds
<1>3. CASE (\E c \in Boundary : OpenNested(b, c)) \/ RenderEnds(b)
  BY <1>3 DEF OpenNested, RenderEnds
<1> QED BY <1>1, <1>2, <1>3 DEF Goroutine

\* The results channel is never sent on, and no goroutine registered, once it is
\* closed (asyncCoordinator.wait), for every tree, limit and deadline.
THEOREM ChannelClosesLast == Spec => []ClosedIsFinal
<1>1. Init => ClosedInv
  BY DEF Init, ClosedInv, ClosedIsFinal
<1>2. TypeOK /\ ClosedInv /\ [Next]_vars => ClosedInv'
  <2> SUFFICES ASSUME TypeOK, ClosedInv, [Next]_vars PROVE ClosedInv'
    OBVIOUS
  <2> USE DEF ClosedInv, ClosedIsFinal
  <2>1. ASSUME NEW b \in Boundary, OpenInDocument(b) PROVE ClosedInv'
    BY <2>1 DEF OpenInDocument
  <2>2. CASE DocumentFails
    BY <2>2 DEF DocumentFails, Counted
  <2>3. CASE CommitDocument
    BY <2>3 DEF CommitDocument, Return, Counted
  <2>4. ASSUME NEW b \in Boundary, Receive(b) PROVE ClosedInv'
    BY <2>4 DEF Receive, Counted, TypeOK
  <2>5. CASE YieldReturns
    BY <2>5 DEF YieldReturns, Return, Counted
  <2>6. CASE SequenceEnds
    BY <2>6 DEF SequenceEnds, Return, Counted
  <2>7. CASE CloseResults
    BY <2>7 DEF CloseResults, Counted
  <2>8. CASE CancelRequest \/ Finished \/ UNCHANGED vars
    BY <2>8 DEF CancelRequest, Finished, vars, Counted
  <2>9. ASSUME NEW b \in Boundary, Expire(b) PROVE ClosedInv'
    BY <2>9 DEF Expire, Counted
  <2>10. ASSUME NEW b \in Boundary, Goroutine(b) PROVE ClosedInv'
    <3>1. closer # "closed" /\ UNCHANGED coordinatorVars
      BY <2>10, GoroutineIsCounted
    <3> QED BY <3>1
  <2> QED
    BY <2>1, <2>2, <2>3, <2>4, <2>5, <2>6, <2>7, <2>8, <2>9, <2>10
       DEF Next, Document, Ranging
<1>3. ClosedInv => ClosedIsFinal
  BY DEF ClosedInv
<1> QED
  BY <1>1, <1>2, <1>3, TypeCorrect, PTL DEF Spec

-----------------------------------------------------------------------------
(* YieldedOnce and ErrorIsLast.                                            *)

\* What was yielded belongs to a goroutine that is done, and an error leaves the
\* loop no way back to receiving.
YieldedInv ==
  /\ YieldedOnce
  /\ ErrorIsLast
  /\ pass = "rendering" => yielded = << >>
  /\ \A i \in DOMAIN yielded :
       /\ yielded[i].id \in Boundary => phase[yielded[i].id] = "done"
       /\ yielded[i].kind = "error" => pass \in {"yielding", "ended"}

\* A goroutine that is done stays so.
LEMMA DoneIsFinal ==
  ASSUME TypeOK, NEW b \in Boundary, Goroutine(b),
         NEW c \in Boundary, phase[c] = "done"
  PROVE  phase'[c] = "done"
<1> USE DEF TypeOK, Phases
<1>1. CASE Acquire(b) \/ LeaveQueue(b) \/ ResolveOk(b) \/ CheckContext(b) \/ AbandonSend(b)
  BY <1>1 DEF Acquire, LeaveQueue, ResolveOk, CheckContext, AbandonSend, Goto
<1>2. CASE SourceFails(b) \/ WaitEnds(b)
  BY <1>2 DEF SourceFails, WaitEnds, BindingsFail, ReportFailure, Goto
<1>3. CASE (\E d \in Boundary : OpenNested(b, d)) \/ RenderEnds(b)
  BY <1>3 DEF OpenNested, RenderEnds, Goto
<1> QED BY <1>1, <1>2, <1>3 DEF Goroutine

LEMMA YieldedInvHolds == Spec => []YieldedInv
<1>1. Init => YieldedInv
  BY DEF Init, YieldedInv, YieldedOnce, ErrorIsLast
<1>2. TypeOK /\ YieldedInv /\ [Next]_vars => YieldedInv'
  <2> SUFFICES ASSUME TypeOK, YieldedInv, [Next]_vars PROVE YieldedInv'
    OBVIOUS
  <2> USE DEF YieldedInv, YieldedOnce, ErrorIsLast
  <2>1. ASSUME NEW b \in Boundary, OpenInDocument(b) PROVE YieldedInv'
    BY <2>1 DEF OpenInDocument, TypeOK
  <2>2. CASE DocumentFails
    <3>1. /\ pass' = "yielding"
          /\ yielded' = << [id |-> "document", kind |-> "error"] >>
          /\ UNCHANGED phase
      BY <2>2 DEF DocumentFails
    <3>2. /\ Len(yielded') = 1
          /\ \A i \in DOMAIN yielded' : i = 1
          /\ yielded'[1] = [id |-> "document", kind |-> "error"]
      BY <3>1
    <3> QED BY <3>1, <3>2, NameAssumption
  <2>3. CASE CommitDocument
    BY <2>3 DEF CommitDocument, Return
  <2>4. ASSUME NEW b \in Boundary, Receive(b) PROVE YieldedInv'
    <3>1. PICK kind \in {"content", "error"} :
            yielded' = Append(yielded, [id |-> b, kind |-> kind])
      BY <2>4 DEF Receive
    <3>2. \A i \in DOMAIN yielded : yielded[i].id # b /\ yielded[i].kind # "error"
      BY <2>4 DEF Receive
    <3>3. /\ pass' = "yielding"
          /\ phase' = [phase EXCEPT ![b] = "done"]
      BY <2>4 DEF Receive
    <3>4. /\ DOMAIN yielded = 1 .. Len(yielded) /\ Len(yielded) \in Nat
          /\ DOMAIN yielded' = 1 .. Len(yielded) + 1
          /\ Len(yielded') = Len(yielded) + 1
          /\ \A i \in DOMAIN yielded : yielded'[i] = yielded[i]
          /\ yielded'[Len(yielded) + 1] = [id |-> b, kind |-> kind]
      BY <3>1 DEF TypeOK
    <3>5. YieldedOnce'
      BY <3>2, <3>4
    <3>6. ErrorIsLast'
      BY <3>2, <3>4
    <3> QED BY <3>3, <3>4, <3>5, <3>6 DEF TypeOK
  <2>5. CASE YieldReturns
    BY <2>5 DEF YieldReturns, Return, TypeOK
  <2>6. CASE SequenceEnds
    BY <2>6 DEF SequenceEnds, Return
  <2>7. CASE CloseResults \/ CancelRequest \/ Finished \/ UNCHANGED vars
    BY <2>7 DEF CloseResults, CancelRequest, Finished, vars
  <2>8. ASSUME NEW b \in Boundary, Expire(b) PROVE YieldedInv'
    BY <2>8 DEF Expire
  <2>9. ASSUME NEW b \in Boundary, Goroutine(b) PROVE YieldedInv'
    <3>1. UNCHANGED << pass, yielded >>
      BY <2>9, GoroutineIsCounted
    <3>2. \A c \in Boundary : phase[c] = "done" => phase'[c] = "done"
      BY <2>9, DoneIsFinal
    <3> QED BY <3>1, <3>2
  <2> QED
    BY <2>1, <2>2, <2>3, <2>4, <2>5, <2>6, <2>7, <2>8, <2>9 DEF Next, Document, Ranging
<1> QED
  BY <1>1, <1>2, TypeCorrect, PTL DEF Spec

\* No boundary is handed to the ranging caller twice, for every tree, limit and
\* deadline.
THEOREM EachBoundaryOnce == Spec => []YieldedOnce
<1>1. YieldedInv => YieldedOnce
  BY DEF YieldedInv
<1> QED
  BY <1>1, YieldedInvHolds, PTL

\* The sequence goes on after no error: streamChain returns behind the one it
\* yields, and the initial pass that failed was the first.
THEOREM NothingAfterAnError == Spec => []ErrorIsLast
<1>1. YieldedInv => ErrorIsLast
  BY DEF YieldedInv
<1> QED
  BY <1>1, YieldedInvHolds, PTL

-----------------------------------------------------------------------------
(* NothingLost.                                                            *)

\* The context of a boundary outside every deadline ends only with the render.
LEMMA DoneOnlyWhenCancelled ==
  ASSUME NEW b \in Boundary, Timed => Enclosing[b] = {}, BoundaryDone(b)
  PROVE  Cancelled
BY DEF BoundaryDone, RunContextEnded

\* Every boundary whose goroutine returned without the render being cancelled was
\* handed to the caller: with no deadline every boundary, with one those of the
\* document. Inductive as it stands.
THEOREM NothingIsLost == Spec => []NothingLost
<1>1. Init => NothingLost
  BY DEF Init, NothingLost
<1>2. TypeOK /\ NothingLost /\ [Next]_vars => NothingLost'
  <2> SUFFICES ASSUME TypeOK, NothingLost, [Next]_vars,
                      NEW c \in Boundary, phase'[c] = "done", ~Cancelled',
                      Timed => Enclosing[c] = {}
               PROVE  c \in HandedOver'
    BY OptionsStay DEF NothingLost
  <2>1. HandedOver \subseteq HandedOver'
    <3>1. CASE UNCHANGED yielded
      BY <3>1 DEF HandedOver
    <3>2. ASSUME NEW item \in Items, yielded' = Append(yielded, item)
          PROVE  HandedOver \subseteq HandedOver'
      BY <3>2 DEF HandedOver, TypeOK
    <3>3. CASE DocumentFails
      BY <3>2, <3>3 DEF DocumentFails, Items
    <3>4. ASSUME NEW b \in Boundary, Receive(b) PROVE HandedOver \subseteq HandedOver'
      BY <3>2, <3>4 DEF Receive, Items
    <3>5. ASSUME NEW b \in Boundary, Goroutine(b) PROVE UNCHANGED yielded
      BY <3>5, GoroutineIsCounted
    <3> QED
      BY <3>1, <3>3, <3>4, <3>5 DEF Next, Document, Ranging, OpenInDocument, CommitDocument,
         YieldReturns, SequenceEnds, CloseResults, CancelRequest, Expire, Finished, vars
  <2>2. ~Cancelled
    BY GoroutineIsCounted
       DEF Cancelled, TypeOK, Next, Document, Ranging, OpenInDocument, DocumentFails,
           CommitDocument, Return, Receive, YieldReturns, SequenceEnds, CloseResults,
           CancelRequest, Expire, Finished, vars, Goroutine, Acquire, LeaveQueue,
           ResolveOk, SourceFails, WaitEnds, OpenNested, RenderEnds, CheckContext,
           AbandonSend
  <2>3. CASE phase[c] = "done"
    BY <2>1, <2>2, <2>3 DEF NothingLost
  <2>4. CASE phase[c] # "done"
    <3>1. ASSUME NEW b \in Boundary, Receive(b) PROVE c \in HandedOver'
      <4>1. c = b
        BY <2>4, <3>1 DEF Receive, TypeOK
      <4>2. PICK kind \in {"content", "error"} :
              yielded' = Append(yielded, [id |-> b, kind |-> kind])
        BY <3>1 DEF Receive
      <4>3. /\ Len(yielded) + 1 \in DOMAIN yielded'
            /\ yielded'[Len(yielded) + 1].id = c
        BY <4>1, <4>2 DEF TypeOK
      <4> QED BY <4>3 DEF HandedOver
    <3>2. ASSUME NEW b \in Boundary, Goroutine(b) PROVE FALSE
      <4> USE DEF TypeOK, Phases
      <4>1. CASE Acquire(b) \/ ResolveOk(b) \/ RenderEnds(b)
                   \/ \E d \in Boundary : OpenNested(b, d)
        BY <2>4, <4>1 DEF Acquire, ResolveOk, RenderEnds, OpenNested, Goto
      <4>2. CASE LeaveQueue(b) \/ CheckContext(b)
        BY <2>2, <2>4, <4>2, DoneOnlyWhenCancelled DEF LeaveQueue, CheckContext, Goto
      <4>3. CASE SourceFails(b) \/ WaitEnds(b)
        BY <2>2, <2>4, <4>3 DEF SourceFails, WaitEnds, BindingsFail, ReportFailure, Goto
      <4>4. CASE AbandonSend(b)
        BY <2>2, <4>4 DEF AbandonSend
      <4> QED BY <3>2, <4>1, <4>2, <4>3, <4>4 DEF Goroutine
    <3>3. ASSUME NEW b \in Boundary, OpenInDocument(b) PROVE FALSE
      BY <2>4, <3>3 DEF OpenInDocument, TypeOK
    <3> QED
      BY <2>4, <3>1, <3>2, <3>3 DEF Next, Document, Ranging, DocumentFails, CommitDocument,
         YieldReturns, SequenceEnds, CloseResults, CancelRequest, Expire, Finished, vars
  <2> QED BY <2>3, <2>4
<1> QED
  BY <1>1, <1>2, TypeCorrect, PTL DEF Spec

-----------------------------------------------------------------------------
(* CancellationIsSilent.                                                   *)

\* Neither the request going away nor a deadline elsewhere reaches the error
\* reporter or a recover subtree as a failure of a source. Inductive as it stands.
THEOREM CancellationStaysSilent == Spec => []CancellationIsSilent
<1>1. Init => CancellationIsSilent
  BY DEF Init, CancellationIsSilent
<1>2. TypeOK /\ CancellationIsSilent /\ [Next]_vars => CancellationIsSilent'
  <2> SUFFICES ASSUME TypeOK, CancellationIsSilent, [Next]_vars,
                      NEW c \in Boundary, Timed => Enclosing[c] = {}
               PROVE  << c, "cancelled" >> \notin reported'
    BY OptionsStay DEF CancellationIsSilent
  <2>1. << c, "cancelled" >> \notin reported
    BY DEF CancellationIsSilent
  <2>2. ASSUME NEW b \in Boundary, SourceFails(b) PROVE << c, "cancelled" >> \notin reported'
    BY <2>1, <2>2 DEF SourceFails, BindingsFail, ReportFailure
  <2>3. ASSUME NEW b \in Boundary, WaitEnds(b) PROVE << c, "cancelled" >> \notin reported'
    <3>1. PICK cause \in WaitCauses(b) : BindingsFail(b, cause)
      BY <2>3 DEF WaitEnds
    <3>2. CASE Cancelled
      BY <2>1, <3>1, <3>2 DEF BindingsFail
    <3>3. CASE ~Cancelled
      <4>1. reported' = reported \cup {<< b, cause >>}
        BY <3>1, <3>3 DEF BindingsFail, ReportFailure
      <4>2. << b, cause >> # << c, "cancelled" >>
        BY <3>3 DEF WaitCauses
      <4> QED BY <2>1, <4>1, <4>2
    <3> QED BY <3>2, <3>3
  <2> QED
    BY <2>1, <2>2, <2>3
       DEF Next, Document, Ranging, OpenInDocument, DocumentFails, CommitDocument,
           Receive, YieldReturns, SequenceEnds, CloseResults, CancelRequest, Expire,
           Finished, vars, Goroutine, Acquire, LeaveQueue, ResolveOk, OpenNested,
           RenderEnds, CheckContext, AbandonSend
<1> QED
  BY <1>1, <1>2, TypeCorrect, PTL DEF Spec

-----------------------------------------------------------------------------
(* The slots of the semaphore.                                             *)

\* The steps a boundary's goroutine can take, as moves between its phases.
LEMMA GoroutineMoves ==
  ASSUME TypeOK, NEW b \in Boundary, Goroutine(b)
  PROVE  /\ phase[b] \notin {"idle", "done"}
         /\ UNCHANGED << coordinatorVars, givenVars, expired >>
         /\ \A x \in Boundary \ {b} : result'[x] = result[x]
         /\ \/ \E c \in Children(b) :
                 /\ phase[b] = "rendering" /\ phase[c] = "idle"
                 /\ Goto(c, "queued")
                 /\ UNCHANGED result
            \/ \E to \in Phases :
                 /\ Goto(b, to)
                 /\ \/ to = "resolving" /\ phase[b] = "queued"
                         /\ (Limit = 0 \/ Cardinality(Running) < Limit)
                    \/ to \in {"rendering", "recovering"} /\ phase[b] = "resolving"
                    \/ /\ to = "checking" /\ phase[b] \in {"resolving", "rendering", "recovering"}
                       /\ result'[b] = "recovered" => phase[b] = "recovering"
                    \/ /\ to = "sending" /\ phase[b] = "checking" /\ ~BoundaryDone(b)
                       /\ UNCHANGED result
                    \/ to = "done" /\ phase[b] \in {"queued", "resolving"}
                    \/ to = "done" /\ phase[b] \in {"checking", "sending"} /\ BoundaryDone(b)
<1> USE DEF TypeOK, Phases
<1>1. CASE Acquire(b)
  BY <1>1 DEF Acquire
<1>2. CASE LeaveQueue(b)
  BY <1>2 DEF LeaveQueue
<1>3. CASE ResolveOk(b)
  BY <1>3 DEF ResolveOk
<1>4. CASE SourceFails(b) \/ WaitEnds(b)
  <2>1. PICK cause : BindingsFail(b, cause)
    BY <1>4 DEF SourceFails, WaitEnds
  <2>2. phase[b] = "resolving" /\ UNCHANGED << coordinatorVars, givenVars, expired >>
    BY <1>4 DEF SourceFails, WaitEnds
  <2> QED BY <2>1, <2>2 DEF BindingsFail, ReportFailure, Produce
<1>5. ASSUME NEW c \in Boundary, OpenNested(b, c)
      PROVE  /\ c \in Children(b) /\ phase[b] = "rendering" /\ phase[c] = "idle"
             /\ Goto(c, "queued") /\ UNCHANGED result
             /\ UNCHANGED << coordinatorVars, givenVars, expired >>
  BY <1>5 DEF OpenNested
<1>6. CASE RenderEnds(b)
  BY <1>6 DEF RenderEnds, Produce
<1>7. CASE CheckContext(b)
  BY <1>7 DEF CheckContext
<1>8. CASE AbandonSend(b)
  BY <1>8 DEF AbandonSend, BoundaryDone
<1> QED
  BY <1>1, <1>2, <1>3, <1>4, <1>5, <1>6, <1>7, <1>8 DEF Goroutine

\* No more goroutines hold a slot than the limit allows.
SlotInv == IsFiniteSet(Running) /\ (Limit > 0 => Cardinality(Running) <= Limit)

\* WithConcurrencyLimit bounds the boundaries that resolve, render or wait to be
\* received at any moment, for every tree and limit: a slot is given back only
\* when the goroutine returns.
THEOREM SlotsAreBounded == Spec => []SlotInv
<1>1. Init => SlotInv
  <2> SUFFICES ASSUME Init PROVE SlotInv
    OBVIOUS
  <2>1. Running = {}
    BY DEF Init, Running, Counted
  <2>2. Limit \in Nat
    BY OptionAssumption DEF Init, Limit
  <2> QED BY <2>1, <2>2, FS_EmptySet DEF SlotInv
<1>2. TypeOK /\ SlotInv /\ [Next]_vars => SlotInv'
  <2> SUFFICES ASSUME TypeOK, SlotInv, [Next]_vars PROVE SlotInv'
    OBVIOUS
  <2>1. Limit' = Limit /\ Limit \in Nat
    <3>1. UNCHANGED setting
      BY GoroutineMoves
         DEF Next, Document, Ranging, OpenInDocument, DocumentFails, CommitDocument, Receive,
             YieldReturns, SequenceEnds, CloseResults, CancelRequest, Expire, Finished, vars
    <3> QED BY <3>1, OptionAssumption DEF Limit, TypeOK
  <2>2. ASSUME Running' \subseteq Running PROVE SlotInv'
    <3>1. IsFiniteSet(Running') /\ Cardinality(Running') <= Cardinality(Running)
      BY <2>2, FS_Subset DEF SlotInv
    <3>2. Cardinality(Running) \in Nat /\ Cardinality(Running') \in Nat
      BY <3>1, FS_CardinalityType DEF SlotInv
    <3> QED BY <2>1, <3>1, <3>2 DEF SlotInv
  <2>3. ASSUME NEW b \in Boundary, Goroutine(b) PROVE SlotInv'
    <3>1. ASSUME NEW c \in Children(b), phase[c] = "idle", Goto(c, "queued")
          PROVE  Running' \subseteq Running
      BY <3>1 DEF Goto, Running, Counted, Children, TypeOK
    <3>2. ASSUME NEW to \in Phases, Goto(b, to), phase[b] \notin {"idle", "queued", "done"}
          PROVE  Running' \subseteq Running
      BY <3>2 DEF Goto, Running, Counted, TypeOK
    <3>3. ASSUME Goto(b, "done") PROVE Running' \subseteq Running
      BY <3>3 DEF Goto, Running, Counted, TypeOK
    <3>4. ASSUME Goto(b, "resolving"), phase[b] = "queued",
                 Limit = 0 \/ Cardinality(Running) < Limit
          PROVE  SlotInv'
      <4>1. Running' = Running \cup {b} /\ b \notin Running
        BY <3>4 DEF Goto, Running, Counted, TypeOK
      <4>2. IsFiniteSet(Running') /\ Cardinality(Running') = Cardinality(Running) + 1
        BY <4>1, FS_AddElement DEF SlotInv
      <4>3. Cardinality(Running) \in Nat
        BY FS_CardinalityType DEF SlotInv
      <4> QED BY <2>1, <3>4, <4>2, <4>3 DEF SlotInv
    <3> QED
      BY <2>2, <2>3, <3>1, <3>2, <3>3, <3>4, GoroutineMoves DEF Phases
  <2>4. ASSUME NEW b \in Boundary, OpenInDocument(b) \/ Receive(b)
        PROVE  Running' \subseteq Running
    BY <2>4 DEF OpenInDocument, Receive, Running, Counted, TypeOK
  <2>5. ASSUME UNCHANGED phase PROVE Running' \subseteq Running
    BY <2>5 DEF Running, Counted
  <2> QED
    BY <2>2, <2>3, <2>4, <2>5
       DEF Next, Document, Ranging, DocumentFails, CommitDocument, YieldReturns,
           SequenceEnds, CloseResults, CancelRequest, Expire, Finished, vars
<1> QED
  BY <1>1, <1>2, TypeCorrect, PTL DEF Spec

\* Under a limit of one nobody else holds a slot.
LEMMA OneSlot ==
  ASSUME SlotInv, Limit = 1, NEW x \in Running, NEW y \in Running
  PROVE  x = y
<1>1. Cardinality(Running) \in Nat /\ Cardinality(Running) <= 1
  BY FS_CardinalityType DEF SlotInv
<1>2. CASE x # y
  <2>1. IsFiniteSet(Running \ {x}) /\ Cardinality(Running \ {x}) = Cardinality(Running) - 1
    BY FS_RemoveElement DEF SlotInv
  <2>2. Cardinality(Running \ {x}) # 0
    BY <1>2, <2>1, FS_EmptySet
  <2>3. Cardinality(Running \ {x}) \in Nat
    BY <2>1, FS_CardinalityType
  <2> QED BY <1>1, <2>1, <2>2, <2>3
<1> QED BY <1>2

-----------------------------------------------------------------------------
(* ItemsHavePlaceholders.                                                  *)

Failing == \E i \in DOMAIN yielded : yielded[i].kind = "error"

\* Nothing nested in b was opened: its primary subtree has not begun to render, or
\* was never rendered.
Barren(b) ==
  \/ phase[b] \in {"idle", "queued", "resolving", "recovering"}
  \/ phase[b] \in {"checking", "sending"} /\ result[b] = "recovered"

\* The boundary x is nested in is still at work, or waits to be received.
Sheltered(x) == \E a \in Boundary : x \in Children(a)
                                      /\ phase[a] \in {"rendering", "checking", "sending"}

\* A boundary that is not done has its placeholder in the client's document,
\* unless that can no longer matter: the sequence is ending with an error, or the
\* boundary runs under a context that was done before it could be sent. Under a
\* limit of one the placeholder may still be in the buffer of the boundary it is
\* nested in, which holds the only slot meanwhile.
PlaceInv ==
  /\ pass = "rendering" => fences = {}
  /\ \A x \in Counted :
       pass # "rendering" /\ Enclosing[x] = {} => x \in fences \/ Failing
  /\ \A x \in Boundary : \A a \in Enclosing[x] : Barren(a) => phase[x] = "idle"
  /\ \A x \in Counted :
       Limit = 1 /\ Enclosing[x] # {} =>
         \/ Sheltered(x)
         \/ x \in fences
         \/ BoundaryDone(x) /\ phase[x] # "sending"
         \/ Failing

\* What is received replaces a placeholder the client holds.
LEMMA ReceivedHasPlace ==
  ASSUME TypeOK, PlaceInv, SlotInv, NEW b \in Boundary, phase[b] = "sending",
         pass # "rendering", ~Failing, Limit = 1 \/ Enclosing[b] = {}
  PROVE  b \in fences
<1> SUFFICES ASSUME b \notin fences PROVE FALSE
  OBVIOUS
<1>1. b \in Counted /\ b \in Running
  BY DEF Counted, Running
<1>2. Limit = 1 /\ Sheltered(b)
  BY <1>1 DEF PlaceInv
<1>3. PICK a \in Boundary : b \in Children(a) /\ a \in Running
  BY <1>2 DEF Sheltered, Running, Counted
<1>4. a = b
  BY <1>1, <1>2, <1>3, OneSlot
<1> QED BY <1>3, <1>4, TreeAssumption DEF Children

\* A context that is done stays so.
LEMMA DoneContextsStay ==
  ASSUME TypeOK, [Next]_vars
  PROVE  /\ Limit' = Limit
         /\ \A x \in Boundary : BoundaryDone(x) => BoundaryDone(x)'
<1>1. /\ UNCHANGED setting
      /\ Cancelled => Cancelled'
      /\ expired \subseteq expired'
  BY GoroutineMoves
     DEF Next, Document, Ranging, OpenInDocument, DocumentFails, CommitDocument, Return, Receive,
         YieldReturns, SequenceEnds, CloseResults, CancelRequest, Expire, Finished, vars, Cancelled,
         TypeOK
<1>2. \A x \in Boundary : phase[x] = "done" => phase'[x] = "done"
  BY DoneIsFinal
     DEF Next, Document, Ranging, OpenInDocument, DocumentFails, CommitDocument, Receive,
         YieldReturns, SequenceEnds, CloseResults, CancelRequest, Expire, Finished, vars, TypeOK
<1> QED BY <1>1, <1>2, TreeAssumption DEF BoundaryDone, RunContextEnded, Timed, Limit

\* What a step does not touch keeps PlaceInv.
LEMMA QuietKeepsPlaces ==
  ASSUME TypeOK, PlaceInv, [Next]_vars, UNCHANGED << phase, result, fences >>,
         pass' = "rendering" <=> pass = "rendering", Failing => Failing'
  PROVE  PlaceInv'
<1>1. /\ Counted' = Counted /\ Counted \subseteq Boundary
      /\ \A x \in Boundary : (Sheltered(x) => Sheltered(x)') /\ (Barren(x)' => Barren(x))
  BY DEF Counted, Sheltered, Barren, Children
<1>2. \A x \in Boundary : \A a \in Enclosing[x] : Barren(a)' => phase'[x] = "idle"
  BY <1>1, TreeAssumption DEF PlaceInv
<1> QED BY <1>1, <1>2, DoneContextsStay DEF PlaceInv

LEMMA PlaceInvHolds == Spec => []PlaceInv
<1>1. Init => PlaceInv
  BY DEF Init, PlaceInv, Counted
<1>2. TypeOK /\ SlotInv /\ YieldedInv /\ PlaceInv /\ [Next]_vars => PlaceInv'
  <2> SUFFICES ASSUME TypeOK, SlotInv, YieldedInv, PlaceInv, [Next]_vars PROVE PlaceInv'
    OBVIOUS
  <2>1. ASSUME NEW b \in Boundary, OpenInDocument(b) PROVE PlaceInv'
    <3>1. /\ pass = "rendering" /\ phase[b] = "idle" /\ Enclosing[b] = {}
          /\ phase' = [phase EXCEPT ![b] = "queued"]
          /\ UNCHANGED << pass, fences, yielded, result >>
      BY <2>1 DEF OpenInDocument
    <3>2. Counted' = Counted \cup {b}
      BY <3>1 DEF Counted, TypeOK
    <3>3. \A x \in Boundary : (Sheltered(x) => Sheltered(x)') /\ (Barren(x)' => Barren(x))
      BY <3>1 DEF Sheltered, Barren, Children, TypeOK
    <3>4. \A x \in Boundary : \A a \in Enclosing[x] : Barren(a)' => phase'[x] = "idle"
      BY <3>1, <3>3, TreeAssumption DEF PlaceInv, TypeOK
    <3>5. \A x \in Counted : phase'[x] = phase[x] /\ x \in Boundary
      BY <3>1 DEF Counted, TypeOK
    <3>6. Failing' <=> Failing
      BY <3>1 DEF Failing
    <3> QED BY <3>1, <3>2, <3>3, <3>4, <3>5, <3>6, DoneContextsStay DEF PlaceInv
  <2>2. CASE DocumentFails
    <3>1. UNCHANGED << phase, result, fences >> /\ pass' # "rendering"
      BY <2>2 DEF DocumentFails
    <3>2. Failing'
      <4>1. yielded' = Append(yielded, [id |-> "document", kind |-> "error"])
        BY <2>2 DEF DocumentFails
      <4>2. /\ Len(yielded) + 1 \in DOMAIN yielded'
            /\ yielded'[Len(yielded) + 1].kind = "error"
        BY <4>1 DEF TypeOK
      <4> QED BY <4>2 DEF Failing
    <3>3. \A x \in Boundary : Barren(x)' => Barren(x)
      BY <3>1 DEF Barren
    <3>4. \A x \in Boundary : \A a \in Enclosing[x] : Barren(a)' => phase'[x] = "idle"
      BY <3>1, <3>3, TreeAssumption DEF PlaceInv
    <3> QED BY <3>1, <3>2, <3>4 DEF PlaceInv
  <2>3. CASE CommitDocument
    <3>1. /\ UNCHANGED << phase, result, yielded >> /\ fences = {}
          /\ fences' = Opened \cap { b \in Boundary : Enclosing[b] = {} }
          /\ pass' # "rendering"
      BY <2>3 DEF CommitDocument, Return, PlaceInv
    <3>2. Counted' = Counted /\ Counted \subseteq Opened
      BY <3>1 DEF Counted, Opened
    <3>3. \A x \in Boundary : (Sheltered(x) => Sheltered(x)') /\ (Barren(x)' => Barren(x))
      BY <3>1 DEF Sheltered, Barren, Children
    <3>4. \A x \in Boundary : \A a \in Enclosing[x] : Barren(a)' => phase'[x] = "idle"
      BY <3>1, <3>3, TreeAssumption DEF PlaceInv
    <3>5. Failing' <=> Failing
      BY <3>1 DEF Failing
    <3>6. \A x \in Counted : x \in Boundary /\ (Enclosing[x] = {} => x \in fences')
      BY <3>1, <3>2 DEF Opened, Counted
    <3> QED BY <3>1, <3>2, <3>3, <3>4, <3>5, <3>6, DoneContextsStay DEF PlaceInv
  <2>4. ASSUME NEW b \in Boundary, Receive(b) PROVE PlaceInv'
    <3>1. /\ pass = "ranging" /\ phase[b] = "sending" /\ pass' # "rendering"
          /\ phase' = [phase EXCEPT ![b] = "done"]
          /\ UNCHANGED result
      BY <2>4 DEF Receive
    <3>2. ~Failing
      BY <3>1 DEF Failing, YieldedInv
    <3>3. Counted' = Counted \ {b}
      BY <3>1 DEF Counted, TypeOK
    <3>4. \A x \in Boundary : Barren(x)' => Barren(x)
      BY <3>1 DEF Barren, TypeOK
    <3>5. \A x \in Boundary : \A a \in Enclosing[x] : Barren(a)' => phase'[x] = "idle"
      BY <3>1, <3>4, TreeAssumption DEF PlaceInv, TypeOK
    <3>6. CASE result[b] = "failed"
      <4>1. yielded' = Append(yielded, [id |-> b, kind |-> "error"])
        BY <2>4, <3>6 DEF Receive
      <4>2. /\ Len(yielded) + 1 \in DOMAIN yielded'
            /\ yielded'[Len(yielded) + 1].kind = "error"
        BY <4>1 DEF TypeOK
      <4>3. Failing'
        BY <4>2 DEF Failing
      <4> QED BY <3>1, <3>5, <4>3 DEF PlaceInv
    <3>7. CASE result[b] # "failed"
      <4>1. /\ fences \ {b} \subseteq fences'
            /\ b \in fences /\ result[b] # "recovered" => Opened \cap Children(b) \subseteq fences'
        BY <2>4, <3>7 DEF Receive
      <4>2. ASSUME NEW x \in Counted', Enclosing[x] = {} PROVE x \in fences'
        BY <3>1, <3>2, <3>3, <4>1, <4>2 DEF PlaceInv
      <4>3. ASSUME NEW x \in Counted', Limit = 1, Enclosing[x] # {},
                   x \notin fences', ~(BoundaryDone(x) /\ phase[x] # "sending")
            PROVE  Sheltered(x)'
        <5>1. Sheltered(x)
          BY <3>2, <3>3, <4>1, <4>3 DEF PlaceInv
        <5>2. PICK a \in Boundary : x \in Children(a)
                                      /\ phase[a] \in {"rendering", "checking", "sending"}
          BY <5>1 DEF Sheltered
        <5>3. x \in Opened /\ x \in Boundary /\ phase[x] # "idle"
          BY <3>3 DEF Opened, Counted
        <5>4. a # b
          <6>1. CASE a = b
            <7>1. b \in fences
              BY <3>1, <3>2, <4>3, ReceivedHasPlace
            <7>2. b \in Enclosing[x]
              BY <5>2, <6>1 DEF Children
            <7>3. result[b] # "recovered"
              BY <3>1, <5>3, <7>2 DEF PlaceInv, Barren
            <7> QED BY <4>1, <4>3, <5>2, <5>3, <6>1, <7>1, <7>3
          <6> QED BY <6>1
        <5> QED BY <3>1, <5>2, <5>4 DEF Sheltered, Children, TypeOK
      <4>4. \A x \in Counted' : phase'[x] = phase[x]
        BY <3>1, <3>3 DEF Counted, TypeOK
      <4> QED
        BY <3>1, <3>3, <3>5, <4>2, <4>3, <4>4, DoneContextsStay DEF PlaceInv, Counted
    <3> QED BY <3>6, <3>7
  <2>5. CASE YieldReturns \/ SequenceEnds \/ CloseResults \/ CancelRequest \/ Finished
                \/ (\E b \in Boundary : Expire(b)) \/ UNCHANGED vars
    <3>1. /\ UNCHANGED << phase, result, fences, yielded >>
          /\ pass' = "rendering" <=> pass = "rendering"
      BY <2>5 DEF YieldReturns, Return, SequenceEnds, CloseResults, CancelRequest, Finished,
                  Expire, vars
    <3> QED BY <3>1, QuietKeepsPlaces DEF Failing
  <2>6. ASSUME NEW b \in Boundary, Goroutine(b) PROVE PlaceInv'
    <3>1. /\ phase[b] \notin {"idle", "done"}
          /\ UNCHANGED << pass, fences, yielded, expired >>
          /\ \A x \in Boundary \ {b} : result'[x] = result[x]
      BY <2>6, GoroutineMoves
    <3>2. Failing' <=> Failing
      BY <3>1 DEF Failing
    <3>3. ASSUME NEW c \in Children(b), phase[b] = "rendering", phase[c] = "idle",
                 Goto(c, "queued"), UNCHANGED result
          PROVE  PlaceInv'
      <4>1. c \in Boundary /\ Enclosing[c] = Enclosing[b] \cup {b} /\ c # b
        BY TreeAssumption DEF Children
      <4>2. Counted' = Counted \cup {c} /\ phase' = [phase EXCEPT ![c] = "queued"]
        BY <3>3, <4>1 DEF Counted, Goto, TypeOK
      <4>3. Sheltered(c)'
        BY <3>3, <4>1, <4>2 DEF Sheltered, Children, TypeOK
      <4>4. \A x \in Boundary : (Sheltered(x) => Sheltered(x)') /\ (Barren(x)' => Barren(x))
        BY <3>3, <4>1, <4>2 DEF Sheltered, Barren, Children, TypeOK
      <4>5. \A a \in Enclosing[c] : ~Barren(a)
        BY <3>1, <3>3, <4>1 DEF PlaceInv, Barren
      <4>6. \A x \in Boundary : \A a \in Enclosing[x] : Barren(a)' => phase'[x] = "idle"
        BY <4>2, <4>4, <4>5, TreeAssumption DEF PlaceInv, TypeOK
      <4> QED
        BY <3>1, <3>2, <4>1, <4>2, <4>3, <4>4, <4>6, DoneContextsStay
           DEF PlaceInv, Counted, TypeOK
    <3>4. ASSUME NEW to \in Phases, Goto(b, to),
                 \/ to = "resolving" /\ phase[b] = "queued"
                 \/ to \in {"rendering", "recovering"} /\ phase[b] = "resolving"
                 \/ /\ to = "checking" /\ phase[b] \in {"resolving", "rendering", "recovering"}
                    /\ result'[b] = "recovered" => phase[b] = "recovering"
                 \/ /\ to = "sending" /\ phase[b] = "checking" /\ ~BoundaryDone(b)
                    /\ UNCHANGED result
                 \/ to = "done" /\ phase[b] \in {"queued", "resolving"}
                 \/ to = "done" /\ phase[b] \in {"checking", "sending"} /\ BoundaryDone(b)
          PROVE  PlaceInv'
      <4>1. phase' = [phase EXCEPT ![b] = to] /\ to # "idle" /\ to # "queued"
        BY <3>4 DEF Goto
      <4>2. Counted' \subseteq Counted
        BY <3>1, <4>1 DEF Counted, TypeOK
      <4>3. \A x \in Boundary : Barren(x)' => Barren(x)
        BY <3>1, <3>4, <4>1 DEF Barren, TypeOK
      <4>4. \A x \in Boundary : \A a \in Enclosing[x] : Barren(a)' => phase'[x] = "idle"
        BY <3>1, <4>1, <4>3, TreeAssumption DEF PlaceInv, TypeOK
      <4>5. ASSUME NEW x \in Counted', Limit = 1, Enclosing[x] # {}, x \notin fences, ~Failing
            PROVE  \/ Sheltered(x)'
                   \/ BoundaryDone(x) /\ phase'[x] # "sending"
        <5>1. CASE BoundaryDone(x) /\ phase[x] # "sending"
          <6>1. phase'[x] # "sending"
            BY <3>4, <4>1, <5>1 DEF Counted, TypeOK
          <6> QED BY <5>1, <6>1
        <5>2. CASE Sheltered(x)
          <6>1. PICK a \in Boundary : x \in Children(a)
                                        /\ phase[a] \in {"rendering", "checking", "sending"}
            BY <5>2 DEF Sheltered
          <6>2. CASE phase'[a] \in {"rendering", "checking", "sending"}
            BY <6>1, <6>2 DEF Sheltered, Children
          <6>3. CASE phase'[a] \notin {"rendering", "checking", "sending"}
            <7>1. a = b /\ to = "done" /\ BoundaryDone(b)
              BY <3>4, <4>1, <6>1, <6>3 DEF TypeOK
            <7>2. BoundaryDone(x)
              BY <6>1, <7>1 DEF BoundaryDone, Children
            <7>3. x # a
              BY <6>1, TreeAssumption DEF Children
            <7>4. phase[x] # "sending"
              BY <4>2, <4>5, <6>1, <7>3, OneSlot DEF Running, Counted
            <7> QED BY <4>1, <7>1, <7>2, <7>3, <7>4 DEF Counted, TypeOK
          <6> QED BY <6>2, <6>3
        <5> QED BY <4>2, <4>5, <5>1, <5>2 DEF PlaceInv
      <4>6. \A x \in Counted' : pass # "rendering" /\ Enclosing[x] = {} => x \in fences \/ Failing
        BY <4>2 DEF PlaceInv
      <4> QED
        BY <3>1, <3>2, <4>4, <4>5, <4>6, DoneContextsStay DEF PlaceInv, Counted
    <3> QED BY <2>6, <3>3, <3>4, GoroutineMoves
  <2> QED BY <2>1, <2>2, <2>3, <2>4, <2>5, <2>6 DEF Next, Document, Ranging
<1> QED
  BY <1>1, <1>2, TypeCorrect, SlotsAreBounded, YieldedInvHolds, PTL DEF Spec

\* Each item of content replaces a placeholder the client holds when it arrives:
\* for the boundaries of the document under any limit, and for nested ones, at any
\* depth of the tree, under a limit of one.
THEOREM EveryItemHasAPlace == Spec => ItemsHavePlaceholders
<1> DEFINE Placed == \A b \in Boundary :
                       /\ yielded' = Append(yielded, [id |-> b, kind |-> "content"])
                       /\ Limit = 1 \/ Enclosing[b] = {}
                       => b \in fences
<1>1. TypeOK /\ SlotInv /\ YieldedInv /\ PlaceInv /\ [Next]_vars => [Placed]_vars
  <2> SUFFICES ASSUME TypeOK, SlotInv, YieldedInv, PlaceInv, Next, NEW b \in Boundary,
                      yielded' = Append(yielded, [id |-> b, kind |-> "content"]),
                      Limit = 1 \/ Enclosing[b] = {}
               PROVE  b \in fences
    OBVIOUS
  <2>1. /\ Len(yielded') = Len(yielded) + 1 /\ Len(yielded) \in Nat
        /\ yielded'[Len(yielded) + 1] = [id |-> b, kind |-> "content"]
    BY DEF TypeOK
  <2>2. yielded' # yielded
    BY <2>1
  <2>3. ~DocumentFails
    <3>1. ASSUME DocumentFails
          PROVE  yielded'[Len(yielded) + 1] = [id |-> "document", kind |-> "error"]
      BY <3>1 DEF DocumentFails, TypeOK
    <3> QED BY <2>1, <3>1
  <2>4. PICK c \in Boundary : Receive(c)
    BY <2>2, <2>3, GoroutineMoves
       DEF Next, Document, Ranging, OpenInDocument, CommitDocument, YieldReturns, SequenceEnds,
           CloseResults, CancelRequest, Expire, Finished, vars
  <2>5. c = b
    <3>1. PICK kind \in {"content", "error"} :
            yielded' = Append(yielded, [id |-> c, kind |-> kind])
      BY <2>4 DEF Receive
    <3>2. yielded'[Len(yielded) + 1] = [id |-> c, kind |-> kind]
      BY <3>1 DEF TypeOK
    <3> QED BY <2>1, <3>2
  <2>6. pass = "ranging" /\ phase[b] = "sending"
    BY <2>4, <2>5 DEF Receive
  <2>7. ~Failing
    BY <2>6 DEF Failing, YieldedInv
  <2> QED BY <2>6, <2>7, ReceivedHasPlace
<1> QED
  BY <1>1, TypeCorrect, SlotsAreBounded, YieldedInvHolds, PlaceInvHolds, PTL
     DEF Spec, ItemsHavePlaceholders

-----------------------------------------------------------------------------
(* KeepsPromise.                                                           *)

\* The sequence has ended exactly when its goroutine returned, which is when stop
\* runs, and it has run to its end only behind a closed channel.
EndInv ==
  /\ ending = "none" <=> pass # "ended"
  /\ stopped => pass = "ended"
  /\ ending = "closed" => closer = "closed"

LEMMA EndInvHolds == Spec => []EndInv
<1>1. Init => EndInv
  BY DEF Init, EndInv
<1>2. TypeOK /\ EndInv /\ [Next]_vars => EndInv'
  <2> SUFFICES ASSUME TypeOK, EndInv, [Next]_vars PROVE EndInv'
    OBVIOUS
  <2> USE DEF EndInv
  <2>1. CASE Document
    BY <2>1 DEF Document, OpenInDocument, DocumentFails, CommitDocument, Return
  <2>2. ASSUME NEW how \in {"closed", "failed", "stopped", "cancelled"}, Return(how),
               UNCHANGED closer, ~stopped, how = "closed" => closer = "closed"
        PROVE  EndInv'
    BY <2>2 DEF Return
  <2>3. CASE YieldReturns
    <3>1. Return("failed") \/ Return("stopped") \/ (pass' = "ranging" /\ UNCHANGED << ending, stopped >>)
      BY <2>3 DEF YieldReturns
    <3>2. pass = "yielding" /\ UNCHANGED closer
      BY <2>3 DEF YieldReturns
    <3> QED BY <2>2, <3>1, <3>2
  <2>4. CASE SequenceEnds
    <3>1. \/ Return("cancelled")
          \/ closer = "closed" /\ Return("closed")
      BY <2>4 DEF SequenceEnds
    <3>2. pass = "ranging" /\ UNCHANGED closer
      BY <2>4 DEF SequenceEnds
    <3> QED BY <2>2, <3>1, <3>2
  <2>5. ASSUME NEW b \in Boundary, Receive(b) PROVE EndInv'
    BY <2>5 DEF Receive
  <2>6. CASE CloseResults \/ CancelRequest \/ Finished \/ UNCHANGED vars
    BY <2>6 DEF CloseResults, CancelRequest, Finished, vars
  <2>7. ASSUME NEW b \in Boundary, Expire(b) \/ Goroutine(b) PROVE EndInv'
    BY <2>7, GoroutineIsCounted DEF Expire
  <2> QED BY <2>1, <2>3, <2>4, <2>5, <2>6, <2>7 DEF Next, Ranging
<1> QED BY <1>1, <1>2, TypeCorrect, PTL DEF Spec

\* A goroutine opens the boundaries nested in its subtree and no others.
LEMMA GoroutineOpens ==
  ASSUME TypeOK, NEW b \in Boundary, Goroutine(b)
  PROVE  \/ Opened' = Opened
         \/ \E c \in Boundary \ Opened : Opened' = Opened \cup {c}
<1> USE DEF TypeOK, Phases, Opened
<1>1. ASSUME NEW to \in Phases \ {"idle"}, phase[b] # "idle", Goto(b, to)
      PROVE  Opened' = Opened
  BY <1>1 DEF Goto
<1>2. CASE Acquire(b) \/ LeaveQueue(b) \/ ResolveOk(b) \/ AbandonSend(b)
  BY <1>1, <1>2 DEF Acquire, LeaveQueue, ResolveOk, AbandonSend
<1>3. CASE CheckContext(b)
  BY <1>1, <1>3 DEF CheckContext
<1>4. CASE SourceFails(b) \/ WaitEnds(b)
  BY <1>1, <1>4 DEF SourceFails, WaitEnds, BindingsFail, ReportFailure
<1>5. CASE RenderEnds(b)
  BY <1>1, <1>5 DEF RenderEnds
<1>6. ASSUME NEW c \in Boundary, OpenNested(b, c)
      PROVE  c \in Boundary \ Opened /\ Opened' = Opened \cup {c}
  BY <1>6 DEF OpenNested, Goto
<1> QED BY <1>2, <1>3, <1>4, <1>5, <1>6 DEF Goroutine

\* What was yielded as content, after one more item.
LEMMA AppendedIDs ==
  ASSUME TypeOK, NEW item \in Items, yielded' = Append(yielded, item)
  PROVE  YieldedIDs' = IF item.kind = "content" THEN YieldedIDs \cup {item.id} ELSE YieldedIDs
<1> DEFINE Content == { j \in DOMAIN yielded : yielded[j].kind = "content" }
<1>1. /\ Len(yielded) \in Nat /\ DOMAIN yielded = 1 .. Len(yielded)
      /\ DOMAIN yielded' = 1 .. Len(yielded) + 1
      /\ \A i \in DOMAIN yielded : yielded'[i] = yielded[i]
      /\ yielded'[Len(yielded) + 1] = item
  BY DEF TypeOK
<1>2. { j \in DOMAIN yielded' : yielded'[j].kind = "content" }
        = IF item.kind = "content" THEN Content \cup {Len(yielded) + 1} ELSE Content
  BY <1>1
<1>3. CASE item.kind = "content"
  BY <1>1, <1>2, <1>3 DEF YieldedIDs
<1>4. CASE item.kind # "content"
  BY <1>1, <1>2, <1>4 DEF YieldedIDs
<1> QED BY <1>3, <1>4

\* A sequence that runs to its end has handed over every promised completion: no
\* goroutine is left, none of them was cancelled, and none of the items was an
\* error, behind which the loop would not be ranging.
LEMMA EndIsComplete ==
  ASSUME TypeOK, ClosedIsFinal, YieldedInv, NothingLost, EndInv,
         pass = "ranging", closer = "closed", ~requestDone
  PROVE  Opened \cap Promised \subseteq YieldedIDs \cap Promised
<1> SUFFICES ASSUME NEW b \in Opened, b \in Promised PROVE b \in YieldedIDs
  OBVIOUS
<1>1. b \in Boundary /\ phase[b] = "done"
  BY DEF ClosedIsFinal, Counted, Opened
<1>2. ~Cancelled
  BY DEF EndInv, Cancelled
<1>3. b \in HandedOver
  BY <1>1, <1>2 DEF NothingLost, Promised
<1>4. PICK i \in DOMAIN yielded : yielded[i].id = b
  BY <1>3 DEF HandedOver
<1>5. yielded[i] \in Items
  BY DEF TypeOK
<1>6. yielded[i].kind = "content"
  BY <1>5 DEF YieldedInv, Items
<1> QED BY <1>4, <1>6 DEF YieldedIDs

\* A step that opens, yields and ends nothing.
LEMMA StutterKeepsPromise ==
  ASSUME UNCHANGED << setting, Opened, YieldedIDs, ending >>
  PROVE  UNCHANGED Promise!vars
BY DEF Promise!vars, Promised, Timed

\* A boundary is opened.
LEMMA PlaceKeepsPromise ==
  ASSUME NEW b \in Boundary \ Opened, Opened' = Opened \cup {b},
         UNCHANGED << setting, YieldedIDs, ending >>, ending # "closed"
  PROVE  [Promise!Next]_(Promise!vars)
<1>1. Promised' = Promised
  BY DEF Promised, Timed
<1>2. CASE b \in Promised
  <2>1. Promise!Place(b)
    BY <1>1, <1>2 DEF Promise!Place
  <2> QED BY <2>1 DEF Promise!Next
<1>3. CASE b \notin Promised
  <2>1. Opened' \cap Promised' = Opened \cap Promised
    BY <1>1, <1>3
  <2> QED BY <1>1, <2>1 DEF Promise!vars
<1> QED BY <1>2, <1>3

\* The sequence ends.
LEMMA EndKeepsPromise ==
  ASSUME ending = "none", ending' \in {"closed", "failed", "stopped", "cancelled"},
         ending' = "closed" => Opened \cap Promised \subseteq YieldedIDs \cap Promised,
         UNCHANGED << setting, Opened, YieldedIDs >>
  PROVE  [Promise!Next]_(Promise!vars)
<1>1. Promised' = Promised
  BY DEF Promised, Timed
<1>2. CASE ending' = "closed"
  <2>1. Promise!Finish
    BY <1>1, <1>2 DEF Promise!Finish
  <2> QED BY <2>1 DEF Promise!Next
<1>3. CASE ending' # "closed"
  <2>1. Promise!GiveUp
    BY <1>1, <1>3 DEF Promise!GiveUp
  <2> QED BY <2>1 DEF Promise!Next
<1> QED BY <1>2, <1>3

\* A completion is yielded.
LEMMA ReceiveKeepsPromise ==
  ASSUME TypeOK, YieldedInv, EndInv, NEW b \in Boundary, Receive(b)
  PROVE  [Promise!Next]_(Promise!vars)
<1>1. /\ phase[b] = "sending" /\ ending = "none"
      /\ UNCHANGED << setting, ending >>
  BY DEF Receive, EndInv
<1>2. Opened' = Opened /\ b \in Opened
  BY DEF Receive, Opened, TypeOK
<1>3. Promised' = Promised
  BY <1>1 DEF Promised, Timed
<1>4. CASE yielded' = Append(yielded, [id |-> b, kind |-> "error"])
  <2>1. [id |-> b, kind |-> "error"] \in Items
    BY DEF Items
  <2>2. YieldedIDs' = YieldedIDs
    BY <1>4, <2>1, AppendedIDs
  <2> QED BY <1>1, <1>2, <2>2, StutterKeepsPromise
<1>5. CASE yielded' = Append(yielded, [id |-> b, kind |-> "content"])
  <2>1. [id |-> b, kind |-> "content"] \in Items
    BY DEF Items
  <2>2. YieldedIDs' = YieldedIDs \cup {b}
    BY <1>5, <2>1, AppendedIDs
  <2>3. b \notin YieldedIDs
    BY <1>1 DEF YieldedIDs, YieldedInv
  <2>4. CASE b \in Promised
    <3>1. Promise!Settle(b)
      BY <1>1, <1>2, <1>3, <2>2, <2>3, <2>4 DEF Promise!Settle
    <3> QED BY <3>1 DEF Promise!Next
  <2>5. CASE b \notin Promised
    <3>1. YieldedIDs' \cap Promised' = YieldedIDs \cap Promised
      BY <1>3, <2>2, <2>5
    <3> QED BY <1>1, <1>2, <1>3, <3>1 DEF Promise!vars
  <2> QED BY <2>4, <2>5
<1> QED BY <1>4, <1>5 DEF Receive

\* Every render implements Completions: each placeholder that no deadline encloses
\* is completed once at most, only after it was handed out, and the sequence runs
\* to its end only when all of them have been.
THEOREM RenderKeepsPromise == Spec => KeepsPromise
<1>1. Init => Promise!Init
  BY DEF Init, Promise!Init, Opened, YieldedIDs
<1>2. TypeOK /\ ClosedIsFinal /\ YieldedInv /\ NothingLost /\ EndInv /\ [Next]_vars
        => [Promise!Next]_(Promise!vars)
  <2> SUFFICES ASSUME TypeOK, ClosedIsFinal, YieldedInv, NothingLost, EndInv, [Next]_vars
               PROVE  [Promise!Next]_(Promise!vars)
    OBVIOUS
  <2>1. ASSUME NEW b \in Boundary, OpenInDocument(b) PROVE [Promise!Next]_(Promise!vars)
    <3>1. b \in Boundary \ Opened /\ Opened' = Opened \cup {b}
      BY <2>1 DEF OpenInDocument, Opened, TypeOK
    <3>2. ending # "closed" /\ UNCHANGED << setting, YieldedIDs, ending >>
      BY <2>1 DEF OpenInDocument, EndInv, YieldedIDs
    <3> QED BY <3>1, <3>2, PlaceKeepsPromise
  <2>2. CASE DocumentFails
    <3>1. [id |-> "document", kind |-> "error"] \in Items
      BY DEF Items
    <3>2. UNCHANGED << setting, Opened, YieldedIDs, ending >>
      BY <2>2, <3>1, AppendedIDs DEF DocumentFails, Opened
    <3> QED BY <3>2, StutterKeepsPromise
  <2>3. CASE CommitDocument
    <3>1. UNCHANGED << setting, Opened, YieldedIDs >> /\ ending = "none"
      BY <2>3 DEF CommitDocument, EndInv, Opened, YieldedIDs
    <3>2. ending' \in {"none", "stopped"}
      BY <2>3, <3>1 DEF CommitDocument, Return
    <3> QED BY <3>1, <3>2, StutterKeepsPromise, EndKeepsPromise
  <2>4. CASE YieldReturns
    <3>1. UNCHANGED << setting, Opened, YieldedIDs >> /\ ending = "none"
      BY <2>4 DEF YieldReturns, EndInv, Opened, YieldedIDs
    <3>2. ending' \in {"none", "stopped", "failed"}
      BY <2>4, <3>1 DEF YieldReturns, Return
    <3> QED BY <3>1, <3>2, StutterKeepsPromise, EndKeepsPromise
  <2>5. CASE SequenceEnds
    <3>1. UNCHANGED << setting, Opened, YieldedIDs >> /\ ending = "none"
      BY <2>5 DEF SequenceEnds, EndInv, Opened, YieldedIDs
    <3>2. /\ ending' \in {"closed", "cancelled"}
          /\ ending' = "closed" => pass = "ranging" /\ closer = "closed" /\ ~requestDone
      BY <2>5 DEF SequenceEnds, Return
    <3> QED BY <3>1, <3>2, EndKeepsPromise, EndIsComplete
  <2>6. CASE CloseResults \/ CancelRequest \/ Finished \/ UNCHANGED vars
    BY <2>6, StutterKeepsPromise DEF CloseResults, CancelRequest, Finished, vars, Opened, YieldedIDs
  <2>7. ASSUME NEW b \in Boundary, Expire(b) PROVE [Promise!Next]_(Promise!vars)
    BY <2>7, StutterKeepsPromise DEF Expire, Opened, YieldedIDs
  <2>8. ASSUME NEW b \in Boundary, Goroutine(b) PROVE [Promise!Next]_(Promise!vars)
    <3>1. b \in Counted /\ UNCHANGED coordinatorVars
      BY <2>8, GoroutineIsCounted
    <3>2. ending # "closed"
      BY <3>1 DEF EndInv, ClosedIsFinal
    <3>3. UNCHANGED << setting, YieldedIDs, ending >>
      BY <2>8, <3>1, OptionsStay
         DEF YieldedIDs, Goroutine, Acquire, LeaveQueue, ResolveOk, SourceFails, WaitEnds,
             OpenNested, RenderEnds, CheckContext, AbandonSend
    <3> QED BY <2>8, <3>2, <3>3, GoroutineOpens, PlaceKeepsPromise, StutterKeepsPromise
  <2> QED
    BY <2>1, <2>2, <2>3, <2>4, <2>5, <2>6, <2>7, <2>8, ReceiveKeepsPromise
       DEF Next, Document, Ranging
<1> QED
  BY <1>1, <1>2, TypeCorrect, ChannelClosesLast, YieldedInvHolds, NothingIsLost, EndInvHolds,
     PTL DEF Spec, KeepsPromise, Promise!Spec
\* The sequence is sound for any tree of boundaries, limit and deadline.
THEOREM SequenceStaysSound == Spec => []SequenceIsSound
<1>1. ClosedIsFinal /\ NothingLost /\ YieldedOnce /\ ErrorIsLast => SequenceIsSound
  BY DEF SequenceIsSound
<1> QED BY <1>1, ChannelClosesLast, NothingIsLost, EachBoundaryOnce, NothingAfterAnError, PTL

=============================================================================
