------------------------- MODULE LiveRender_proofs -------------------------
(***************************************************************************)
(* Theorems about LiveRender for any clause, however many bindings it has  *)
(* and however many items their sources produce.                           *)
(*                                                                         *)
(* They rest on the lock of liveState: a render is made of the scope as it *)
(* is and nobody touches the scope before it has been sent or abandoned.   *)
(***************************************************************************)
EXTENDS LiveRender, FiniteSetTheorems, TLAPS

Shape ==
  /\ at \in [Binding -> {"source", "calling", "emitting", "signalling", "leaving", "ended"}]
  /\ item \in [Binding -> {"none", "value", "failure", "waitover", "signal"}]
  /\ made \in [Binding -> Nat]
  /\ scope \in [Binding -> Nat]
  /\ buffer \in [Binding -> [shows : Views, render : Nat, scope : [Binding -> Nat]]]
  /\ screen \in [shows : Views, render : Nat, scope : [Binding -> Nat],
                 inner : {0} \cup Renders]
  /\ ready \subseteq Binding
  /\ renders \in Nat
  /\ halted \in BOOLEAN /\ failed \in BOOLEAN

\* The scope holds an item of its source for every binding that is ready, and
\* `pending' counts the others.
ScopeInv ==
  /\ pending = Cardinality(Binding \ ready)
  /\ \A i \in Binding : /\ scope[i] <= made[i]
                        /\ i \in ready => scope[i] > 0
                        /\ item[i] = "value" => made[i] > 0

\* One goroutine at most holds the lock, and what it sends is the newest render,
\* of the scope as it is.
LockInv ==
  /\ \A i, j \in Binding : at[i] \in {"emitting", "signalling"}
                             /\ at[j] \in {"emitting", "signalling"} => i = j
  /\ \A i \in Binding :
       at[i] = "emitting" =>
         /\ buffer[i].render = renders /\ buffer[i].scope = scope
         /\ buffer[i].shows = "primary" => ready = Binding

\* The screen shows a render that was made, of a scope that has only grown.
ScreenInv ==
  /\ screen.render <= renders
  /\ \A i \in Binding : screen.scope[i] <= scope[i]
  /\ PrimaryShowsEveryBinding

\* A failure that ends the boundary is set under the lock, which nobody who is
\* emitting then holds.
FailInv == failed => halted /\ \A i \in Binding : at[i] # "emitting"

LiveInv == Shape /\ ScopeInv /\ LockInv /\ ScreenInv /\ FailInv

boundaryVars == << at, item, made, buffer, scope, ready, pending, halted, failed,
                   renders, screen >>

USE DEF givenVars, loopVars, stateVars, nestedVars

-----------------------------------------------------------------------------

LEMMA InitLive == Init => LiveInv
<1> SUFFICES ASSUME Init PROVE LiveInv
  OBVIOUS
<1> USE DEF Init, NoRender
<1>1. Shape
  BY DEF Shape, Views
<1>2. ScopeInv
  <2>1. Binding \ ready = Binding
    OBVIOUS
  <2> QED BY <2>1 DEF ScopeInv
<1>3. LockInv /\ ScreenInv /\ FailInv
  BY DEF LockInv, ScreenInv, FailInv, PrimaryShowsEveryBinding
<1> QED BY <1>1, <1>2, <1>3 DEF LiveInv

\* A render put into a buffer, or its absence, leaves the buffers well formed.
LEMMA BufferShape ==
  ASSUME Shape, NEW i \in Binding,
         NEW new \in [shows : Views, render : Nat, scope : [Binding -> Nat]],
         buffer' = [buffer EXCEPT ![i] = new]
  PROVE  /\ buffer' \in [Binding -> [shows : Views, render : Nat, scope : [Binding -> Nat]]]
         /\ buffer'[i] = new
         /\ \A j \in Binding : j # i => buffer'[j] = buffer[j]
BY DEF Shape

LEMMA NoRenderShape == NoRender \in [shows : Views, render : Nat, scope : [Binding -> Nat]]
BY DEF NoRender, Views

\* A source, a binding or the loop moves on without touching the scope.
LEMMA MovesOn ==
  ASSUME LiveInv, NEW i \in Binding,
         NEW to \in {"source", "leaving", "ended"},
         at' = [at EXCEPT ![i] = to],
         item' = item \/ item' = [item EXCEPT ![i] = "none"],
         buffer' = buffer \/ buffer' = [buffer EXCEPT ![i] = NoRender],
         halted' = halted \/ halted' = TRUE,
         UNCHANGED << made, scope, ready, pending, failed, renders, screen >>
  PROVE  LiveInv'
<1> USE DEF LiveInv
<1>1. Shape'
  <2>1. buffer' \in [Binding -> [shows : Views, render : Nat, scope : [Binding -> Nat]]]
    BY BufferShape, NoRenderShape DEF Shape
  <2>2. halted' \in BOOLEAN
    BY DEF Shape
  <2>3. /\ at' \in [Binding -> {"source", "calling", "emitting", "signalling", "leaving", "ended"}]
        /\ item' \in [Binding -> {"none", "value", "failure", "waitover", "signal"}]
    BY DEF Shape
  <2> QED BY <2>1, <2>2, <2>3 DEF Shape
<1>2. ScopeInv'
  BY DEF ScopeInv, Shape
<1>3. LockInv'
  BY DEF LockInv, Shape
<1>4. ScreenInv'
  BY DEF ScreenInv, PrimaryShowsEveryBinding
<1>5. FailInv'
  BY DEF FailInv, Shape
<1> QED BY <1>1, <1>2, <1>3, <1>4, <1>5

LEMMA SourceKeeps ==
  ASSUME LiveInv, NEW i \in Binding, Source(i)
  PROVE  LiveInv'
<1> USE DEF LiveInv
<1>1. ASSUME NEW what \in {"value", "failure", "signal", "waitover"}, at[i] = "source",
             Hand(i, what)
      PROVE  LiveInv'
  <2> USE <1>1 DEF Hand
  <2>1. Shape' /\ ScopeInv' /\ LockInv'
    BY DEF Shape, ScopeInv, LockInv
  <2>2. ScreenInv' /\ FailInv'
    BY DEF ScreenInv, FailInv, PrimaryShowsEveryBinding, Shape
  <2> QED BY <2>1, <2>2
<1>2. CASE SourceYields(i) \/ WaitEnds(i)
  BY <1>1, <1>2 DEF SourceYields, WaitEnds
<1>3. CASE SourceEnds(i)
  BY <1>3, MovesOn DEF SourceEnds
<1> QED BY <1>2, <1>3 DEF Source

\* The scope is complete once `pending' says so.
LEMMA PendingCounts ==
  ASSUME Shape, ScopeInv, NEW i \in Binding
  PROVE  /\ i \in ready => pending = Cardinality(Binding \ (ready \cup {i}))
         /\ i \notin ready => pending - 1 = Cardinality(Binding \ (ready \cup {i}))
         /\ Cardinality(Binding \ (ready \cup {i})) \in Nat
         /\ Cardinality(Binding \ (ready \cup {i})) = 0 => ready \cup {i} = Binding
<1>1. IsFiniteSet(Binding \ ready) /\ IsFiniteSet(Binding \ (ready \cup {i}))
  BY ClauseAssumption, FS_Difference
<1>2. i \in ready => ready \cup {i} = ready
  OBVIOUS
<1>3. ASSUME i \notin ready
      PROVE  Cardinality(Binding \ (ready \cup {i})) = Cardinality(Binding \ ready) - 1
  <2>1. Binding \ (ready \cup {i}) = (Binding \ ready) \ {i}
    OBVIOUS
  <2>2. i \in Binding \ ready
    BY <1>3
  <2> QED BY <1>1, <2>1, <2>2, FS_RemoveElement
<1>4. Cardinality(Binding \ (ready \cup {i})) \in Nat
  BY <1>1, FS_CardinalityType
<1>5. Cardinality(Binding \ (ready \cup {i})) = 0 => Binding \ (ready \cup {i}) = {}
  BY <1>1, FS_EmptySet
<1>6. Binding \ (ready \cup {i}) = {} => ready \cup {i} = Binding
  BY DEF Shape
<1> QED BY <1>2, <1>3, <1>4, <1>5, <1>6 DEF ScopeInv

LEMMA ValueKeeps ==
  ASSUME LiveInv, NEW i \in Binding, DeliverValue(i)
  PROVE  LiveInv'
<1> USE DEF LiveInv
<1> DEFINE Rendered == Render(i, "primary", scope')
<1>1. /\ at[i] = "calling" /\ item[i] = "value" /\ ~halted
      /\ \A j \in Binding : at[j] \notin {"emitting", "signalling"}
      /\ item' = [item EXCEPT ![i] = "none"]
      /\ scope' = [scope EXCEPT ![i] = made[i]]
      /\ ready' = ready \cup {i}
      /\ UNCHANGED << made, failed, screen >>
  BY DEF DeliverValue, Enter, LockFree
<1>2. /\ pending' = Cardinality(Binding \ ready')
      /\ pending' \in Nat /\ (pending' = 0 => ready' = Binding)
  BY <1>1, PendingCounts DEF DeliverValue
<1>3. \/ /\ at' = [at EXCEPT ![i] = "source"] \/ at' = [at EXCEPT ![i] = "ended"]
         /\ UNCHANGED << buffer, halted, renders >>
      \/ /\ at' = [at EXCEPT ![i] = "emitting"]
         /\ buffer' = [buffer EXCEPT ![i] = [shows |-> "primary", render |-> renders + 1,
                                             scope |-> scope']]
         /\ renders' = renders + 1
         /\ ready' = Binding
         /\ UNCHANGED halted
  <2>1. CASE pending' > 0
    BY <2>1 DEF DeliverValue, Resume
  <2>2. CASE ~(pending' > 0)
    BY <1>2, <2>2 DEF DeliverValue, Render, Supersede
  <2> QED BY <2>1, <2>2
<1>4. Shape'
  <2>1. scope' \in [Binding -> Nat] /\ ready' \subseteq Binding
    BY <1>1 DEF Shape
  <2>2. /\ [shows |-> "primary", render |-> renders + 1, scope |-> scope']
             \in [shows : Views, render : Nat, scope : [Binding -> Nat]]
        /\ renders + 1 \in Nat
    BY <2>1 DEF Shape, Views
  <2>3. buffer' \in [Binding -> [shows : Views, render : Nat, scope : [Binding -> Nat]]]
    BY <1>3, <2>2, BufferShape DEF Shape
  <2>4. /\ at' \in [Binding -> {"source", "calling", "emitting", "signalling", "leaving", "ended"}]
        /\ item' \in [Binding -> {"none", "value", "failure", "waitover", "signal"}]
    BY <1>1, <1>3 DEF Shape
  <2>5. renders' \in Nat /\ halted' \in BOOLEAN /\ failed' \in BOOLEAN
    BY <1>1, <1>3, <2>2 DEF Shape
  <2> QED BY <1>1, <2>1, <2>3, <2>4, <2>5 DEF Shape
<1>5. ScopeInv'
  BY <1>1, <1>2 DEF ScopeInv, Shape
<1>6. LockInv'
  <2>1. \A j \in Binding : j # i => at'[j] \notin {"emitting", "signalling"}
    BY <1>1, <1>3 DEF Shape
  <2>2. at'[i] = "emitting" => /\ buffer'[i].render = renders' /\ buffer'[i].scope = scope'
                               /\ ready' = Binding
    BY <1>3 DEF Shape
  <2> QED BY <2>1, <2>2 DEF LockInv
<1>7. ScreenInv'
  <2>1. \A j \in Binding : scope[j] <= scope'[j]
    BY <1>1 DEF ScopeInv, Shape
  <2> QED BY <1>1, <1>3, <1>4, <2>1 DEF ScreenInv, PrimaryShowsEveryBinding, Shape
<1>8. FailInv'
  BY <1>1 DEF FailInv
<1> QED BY <1>4, <1>5, <1>6, <1>7, <1>8

LEMMA FailureKeeps ==
  ASSUME LiveInv, NEW i \in Binding, DeliverFailure(i)
  PROVE  LiveInv'
<1> USE DEF LiveInv
<1>1. /\ at[i] = "calling" /\ ~halted
      /\ \A j \in Binding : at[j] \notin {"emitting", "signalling"}
      /\ item' = [item EXCEPT ![i] = "none"]
      /\ UNCHANGED << made, scope, ready, pending, screen >>
  BY DEF DeliverFailure, Enter, LockFree
<1>2. \/ /\ at' = [at EXCEPT ![i] = "leaving"]
         /\ renders' \in {renders, renders + 1}
         /\ UNCHANGED buffer
      \/ /\ at' = [at EXCEPT ![i] = "emitting"]
         /\ \E what \in {"recover", "timeout"} :
              buffer' = [buffer EXCEPT ![i] = [shows |-> what, render |-> renders + 1,
                                               scope |-> scope]]
         /\ renders' = renders + 1
  BY DEF DeliverFailure, Halt, Render, Supersede
<1>2a. \/ halted' = TRUE /\ at' = [at EXCEPT ![i] = "leaving"]
         /\ (failed' = TRUE \/ UNCHANGED failed)
      \/ UNCHANGED << halted, failed >>
  BY DEF DeliverFailure, Halt, Render
<1>3. Shape'
  <2>1. \A what \in {"recover", "timeout"} :
          [shows |-> what, render |-> renders + 1, scope |-> scope]
            \in [shows : Views, render : Nat, scope : [Binding -> Nat]]
    BY DEF Shape, Views
  <2>2. buffer' \in [Binding -> [shows : Views, render : Nat, scope : [Binding -> Nat]]]
    BY <1>2, <2>1, BufferShape DEF Shape
  <2>3. /\ at' \in [Binding -> {"source", "calling", "emitting", "signalling", "leaving", "ended"}]
        /\ item' \in [Binding -> {"none", "value", "failure", "waitover", "signal"}]
    BY <1>1, <1>2 DEF Shape
  <2>4. renders' \in Nat
    BY <1>2 DEF Shape
  <2>5. halted' \in BOOLEAN /\ failed' \in BOOLEAN
    BY <1>2a DEF Shape
  <2> QED BY <1>1, <2>2, <2>3, <2>4, <2>5 DEF Shape
<1>4. ScopeInv'
  BY <1>1 DEF ScopeInv, Shape
<1>5. LockInv'
  <2>1. \A j \in Binding : j # i => at'[j] \notin {"emitting", "signalling"}
    BY <1>1, <1>2 DEF Shape
  <2>2. at'[i] = "emitting" => /\ buffer'[i].render = renders' /\ buffer'[i].scope = scope'
                               /\ buffer'[i].shows # "primary"
    BY <1>1, <1>2 DEF Shape
  <2> QED BY <2>1, <2>2 DEF LockInv
<1>6. ScreenInv'
  <2>1. renders <= renders' /\ renders \in Nat /\ renders' \in Nat /\ screen.render \in Nat
    BY <1>2 DEF Shape
  <2>2. screen'.render <= renders'
    BY <1>1, <2>1 DEF ScreenInv
  <2> QED BY <1>1, <2>2 DEF ScreenInv, PrimaryShowsEveryBinding
<1>7. FailInv'
  <2>1. CASE UNCHANGED << halted, failed >>
    <3>1. ~failed
      BY <1>1 DEF FailInv
    <3> QED BY <2>1, <3>1 DEF FailInv
  <2>2. CASE halted' = TRUE /\ at' = [at EXCEPT ![i] = "leaving"]
    <3>1. \A j \in Binding : at'[j] # "emitting"
      BY <1>1, <2>2 DEF Shape
    <3> QED BY <2>2, <3>1 DEF FailInv
  <2> QED BY <1>2a, <2>1, <2>2
<1> QED BY <1>3, <1>4, <1>5, <1>6, <1>7

LEMMA SignalKeeps ==
  ASSUME LiveInv, NEW i \in Binding, DeliverSignal(i)
  PROVE  LiveInv'
<1>1. CASE at' = [at EXCEPT ![i] = "signalling"]
  <2>1. /\ \A j \in Binding : at[j] \notin {"emitting", "signalling"}
        /\ item' = [item EXCEPT ![i] = "none"]
        /\ halted' = TRUE \/ UNCHANGED halted
        /\ UNCHANGED << made, buffer, scope, ready, pending, failed, renders, screen >>
    BY DEF DeliverSignal, Enter, LockFree, Halt
  <2>2. Shape' /\ ScopeInv' /\ LockInv'
    BY <1>1, <2>1 DEF LiveInv, Shape, ScopeInv, LockInv
  <2>3. ScreenInv'
    BY <2>1 DEF LiveInv, ScreenInv, PrimaryShowsEveryBinding
  <2>4. \A j \in Binding : at'[j] # "emitting"
    BY <1>1, <2>1 DEF LiveInv, Shape
  <2>5. failed' => halted'
    <3>1. CASE halted' = TRUE
      BY <3>1
    <3>2. CASE UNCHANGED halted
      BY <2>1, <3>2 DEF LiveInv, FailInv
    <3> QED BY <2>1, <3>1, <3>2
  <2>6. FailInv'
    BY <2>4, <2>5 DEF FailInv
  <2> QED BY <2>2, <2>3, <2>6 DEF LiveInv
<1>2. CASE at' # [at EXCEPT ![i] = "signalling"]
  BY <1>2, MovesOn DEF DeliverSignal, Enter, Halt, Resume
<1> QED BY <1>1, <1>2

LEMMA DeliverKeeps ==
  ASSUME LiveInv, NEW i \in Binding, Deliver(i)
  PROVE  LiveInv'
<1>1. CASE DeliverLate(i)
  BY <1>1, MovesOn DEF DeliverLate, Enter
<1>2. CASE AbandonEmit(i)
  BY <1>2, MovesOn DEF AbandonEmit, Halt
<1>3. CASE Leave(i)
  BY <1>3, MovesOn DEF Leave
<1> QED
  BY <1>1, <1>2, <1>3, ValueKeeps, FailureKeeps, SignalKeeps DEF Deliver

LEMMA ContentKeeps ==
  ASSUME LiveInv, NEW i \in Binding, ReceiveContent(i)
  PROVE  /\ LiveInv'
         /\ screen'.render = renders /\ screen'.scope = scope /\ ~failed
<1> USE DEF LiveInv
<1>1. /\ at[i] = "emitting"
      /\ screen' = [shows |-> buffer[i].shows, render |-> buffer[i].render,
                    scope |-> buffer[i].scope, inner |-> 0]
      /\ buffer' = [buffer EXCEPT ![i] = NoRender]
      /\ \E to \in {"source", "leaving", "ended"} : at' = [at EXCEPT ![i] = to]
      /\ halted' \in {halted, TRUE}
      /\ UNCHANGED << item, made, scope, ready, pending, failed, renders >>
  BY DEF ReceiveContent, Yield, Resume, Halt
<1>2. /\ buffer[i].render = renders /\ buffer[i].scope = scope
      /\ buffer[i].shows = "primary" => ready = Binding
  BY <1>1 DEF LockInv
<1>3. Shape'
  BY <1>1, ZenonT(60) DEF Shape, NoRender, Views
<1>4. ScopeInv' /\ LockInv'
  BY <1>1 DEF ScopeInv, LockInv, Shape
<1>5. ScreenInv'
  BY <1>1, <1>2 DEF ScreenInv, ScopeInv, PrimaryShowsEveryBinding, Shape
<1>6. FailInv' /\ ~failed
  BY <1>1 DEF FailInv, Shape
<1> QED BY <1>1, <1>2, <1>3, <1>4, <1>5, <1>6

\* A synchronous render writes what it made, or fails with nothing of it to show.
LEMMA InPlaceKeeps ==
  ASSUME LiveInv, NEW i \in Binding, RenderInPlace(i)
  PROVE  /\ LiveInv' /\ ~failed
         /\ \/ screen'.render = renders /\ screen'.scope = scope
            \/ UNCHANGED screen
<1> USE DEF LiveInv
<1>1. /\ at[i] = "emitting"
      /\ \/ /\ screen' = [shows |-> buffer[i].shows, render |-> buffer[i].render,
                          scope |-> buffer[i].scope, inner |-> 0]
            /\ UNCHANGED failed
         \/ UNCHANGED screen /\ failed' = TRUE
      /\ buffer' = [buffer EXCEPT ![i] = NoRender]
      /\ at' = [at EXCEPT ![i] = "leaving"]
      /\ halted' = TRUE
      /\ UNCHANGED << item, made, scope, ready, pending, renders >>
  BY DEF RenderInPlace, Halt
<1>2. /\ buffer[i].render = renders /\ buffer[i].scope = scope
      /\ buffer[i].shows = "primary" => ready = Binding
  BY <1>1 DEF LockInv
<1>3. Shape'
  <2>1. buffer' \in [Binding -> [shows : Views, render : Nat, scope : [Binding -> Nat]]]
    BY <1>1, BufferShape, NoRenderShape
  <2>2. [shows |-> buffer[i].shows, render |-> buffer[i].render, scope |-> buffer[i].scope,
         inner |-> 0] \in [shows : Views, render : Nat, scope : [Binding -> Nat],
                           inner : {0} \cup Renders]
    BY DEF Shape
  <2>3. screen' \in [shows : Views, render : Nat, scope : [Binding -> Nat],
                     inner : {0} \cup Renders]
    BY <1>1, <2>2 DEF Shape
  <2>4. failed' \in BOOLEAN
    BY <1>1 DEF Shape
  <2> QED BY <1>1, <2>1, <2>3, <2>4 DEF Shape
<1>4. ScopeInv' /\ LockInv'
  BY <1>1 DEF ScopeInv, LockInv, Shape
<1>5. ScreenInv'
  BY <1>1, <1>2 DEF ScreenInv, ScopeInv, PrimaryShowsEveryBinding, Shape
<1>6. FailInv' /\ ~failed
  <2>1. \A j \in Binding : at'[j] # "emitting"
    BY <1>1 DEF LockInv, Shape
  <2>2. ~failed
    BY <1>1 DEF FailInv
  <2> QED BY <1>1, <2>1, <2>2 DEF FailInv
<1>7. (screen'.render = renders /\ screen'.scope = scope) \/ UNCHANGED screen
  BY <1>1, <1>2
<1> QED BY <1>3, <1>4, <1>5, <1>6, <1>7

\* And it returns with the fallback at most.
LEMMA ReturnKeeps ==
  ASSUME LiveInv, ReturnInPlace
  PROVE  LiveInv' /\ screen'.render = screen.render /\ screen'.scope = screen.scope
<1>1. /\ screen' \in { screen, [screen EXCEPT !.shows = "fallback"] }
      /\ UNCHANGED << at, item, made, buffer, stateVars, renders >>
  BY DEF ReturnInPlace
<1>2. screen'.render = screen.render /\ screen'.scope = screen.scope
      /\ screen'.shows \in {screen.shows, "fallback"}
  BY <1>1 DEF LiveInv, Shape
<1>3. Shape'
  BY <1>1 DEF LiveInv, Shape, Views
<1>4. ScopeInv' /\ LockInv' /\ FailInv'
  BY <1>1 DEF LiveInv, ScopeInv, LockInv, FailInv
<1>5. ScreenInv'
  BY <1>1, <1>2 DEF LiveInv, ScreenInv, PrimaryShowsEveryBinding
<1> QED BY <1>2, <1>3, <1>4, <1>5 DEF LiveInv

LEMMA InnerKeeps ==
  ASSUME LiveInv, NEW r \in Renders, ReceiveInner(r)
  PROVE  LiveInv' /\ screen'.render = screen.render /\ screen'.scope = screen.scope
<1>1. /\ screen' = [screen EXCEPT !.inner = IF screen.shows = "primary" THEN r ELSE @]
      /\ UNCHANGED << at, item, made, buffer, stateVars, renders >>
  BY DEF ReceiveInner, Yield
<1>2. screen'.shows = screen.shows /\ screen'.render = screen.render
        /\ screen'.scope = screen.scope
  BY <1>1 DEF LiveInv, Shape
<1>3. Shape'
  BY <1>1 DEF LiveInv, Shape
<1>4. ScopeInv' /\ LockInv' /\ FailInv'
  BY <1>1 DEF LiveInv, ScopeInv, LockInv, FailInv
<1>5. ScreenInv'
  BY <1>1, <1>2 DEF LiveInv, ScreenInv, PrimaryShowsEveryBinding
<1> QED BY <1>2, <1>3, <1>4, <1>5 DEF LiveInv

\* What the rest of the render does leaves the boundary's own state alone.
LEMMA OthersKeep ==
  ASSUME \/ PumpReturns \/ AbandonFailure \/ ReceiveFailure \/ YieldReturns \/ SequenceEnds
         \/ CancelRequest \/ DeadlinePasses \/ Finished \/ UNCHANGED vars
         \/ \E r \in Renders : NestedGoroutine(r)
  PROVE  UNCHANGED boundaryVars
<1>1. ASSUME NEW r \in Renders, NestedGoroutine(r) PROVE UNCHANGED boundaryVars
  BY <1>1 DEF boundaryVars, NestedGoroutine, NestedSettles, NestedWaitEnds, NestedChecks,
              NestedYields, NestedEnds, NestedAbandons, NestedStep
<1> QED
  BY <1>1 DEF boundaryVars, PumpReturns, AbandonFailure, ReceiveFailure, Yield, YieldReturns,
              SequenceEnds, Stop, CancelRequest, DeadlinePasses, Finished, vars

LEMMA SignalReceived ==
  ASSUME LiveInv, NEW i \in Binding, ReceiveSignal(i)
  PROVE  LiveInv' /\ UNCHANGED screen
BY MovesOn DEF ReceiveSignal, Yield, Resume

\* The actions that matter to the boundary, for the theorems to split on.
LEMMA StepCases ==
  ASSUME [Next]_vars
  PROVE  \/ \E i \in Binding : \/ Source(i) \/ Deliver(i) \/ RenderInPlace(i)
                               \/ ReceiveContent(i) \/ ReceiveSignal(i)
         \/ ReturnInPlace
         \/ \E r \in Renders : ReceiveInner(r)
         \/ UNCHANGED boundaryVars
BY OthersKeep DEF Next, Ranging

LEMMA LiveInvHolds == Spec => []LiveInv
<1>1. LiveInv /\ [Next]_vars => LiveInv'
  <2> SUFFICES ASSUME LiveInv, [Next]_vars PROVE LiveInv'
    OBVIOUS
  <2>1. CASE UNCHANGED boundaryVars
    BY <2>1 DEF LiveInv, Shape, ScopeInv, LockInv, ScreenInv, FailInv,
                PrimaryShowsEveryBinding, boundaryVars
  <2> QED
    BY <2>1, StepCases, SourceKeeps, DeliverKeeps, ContentKeeps, SignalReceived, InnerKeeps,
       InPlaceKeeps, ReturnKeeps
<1> QED
  BY <1>1, InitLive, PTL DEF Spec

-----------------------------------------------------------------------------

\* The primary subtree never reaches the client before every binding of the
\* clause has delivered (liveState.deliver counts `pending' down once for each),
\* for any number of bindings and any order of deliveries.
THEOREM PrimaryIsComplete == Spec => []PrimaryShowsEveryBinding
<1>1. LiveInv => PrimaryShowsEveryBinding
  BY DEF LiveInv, ScreenInv
<1> QED
  BY <1>1, LiveInvHolds, PTL

\* Neither the sources nor the deliveries change what is on screen.
LEMMA OnlyTheLoopShows ==
  ASSUME NEW i \in Binding, Source(i) \/ Deliver(i)
  PROVE  UNCHANGED screen
<1>1. CASE Source(i)
  BY <1>1 DEF Source, SourceYields, WaitEnds, SourceEnds, Hand
<1>2. CASE Deliver(i)
  BY <1>2 DEF Deliver, DeliverLate, DeliverValue, DeliverFailure, DeliverSignal,
              AbandonEmit, Leave
<1> QED BY <1>1, <1>2

\* However the bindings race, the client never sees an older render after a newer
\* one, nor an older item of any binding: the render is sent under the lock it
\* was made under.
THEOREM ScreenNeverGoesBack == Spec => ScreenMovesForward
<1> DEFINE Forward == /\ screen'.render >= screen.render
                      /\ \A i \in Binding : screen'.scope[i] >= screen.scope[i]
<1>1. LiveInv /\ [Next]_vars => [Forward]_screen
  <2> SUFFICES ASSUME LiveInv, [Next]_vars, screen' # screen PROVE Forward
    OBVIOUS
  <2> USE DEF LiveInv, ScreenInv, Shape
  <2>1. ASSUME NEW i \in Binding, ReceiveContent(i) PROVE Forward
    <3>1. screen'.render = renders /\ screen'.scope = scope
      BY <2>1, ContentKeeps
    <3> QED BY <3>1
  <2>2. ASSUME NEW r \in Renders, ReceiveInner(r) PROVE Forward
    <3>1. screen'.render = screen.render /\ screen'.scope = screen.scope
      BY <2>2, InnerKeeps
    <3> QED BY <3>1
  <2>3. ASSUME NEW i \in Binding, Source(i) \/ Deliver(i) \/ ReceiveSignal(i) PROVE FALSE
    BY <2>3, OnlyTheLoopShows, SignalReceived
  <2>4. ASSUME NEW i \in Binding, RenderInPlace(i) PROVE Forward
    <3>1. screen'.render = renders /\ screen'.scope = scope
      BY <2>4, InPlaceKeeps
    <3> QED BY <3>1
  <2>5. ASSUME ReturnInPlace PROVE Forward
    <3>1. screen'.render = screen.render /\ screen'.scope = screen.scope
      BY <2>5, ReturnKeeps
    <3> QED BY <3>1
  <2> QED
    BY <2>1, <2>2, <2>3, <2>4, <2>5, StepCases DEF boundaryVars
<1> QED
  BY <1>1, LiveInvHolds, PTL DEF Spec, ScreenMovesForward

\* Once an unrecovered failure has ended the boundary, no render of it is shown,
\* although other bindings may have been about to deliver.
THEOREM NothingAfterFailure == Spec => FailureIsFinal
<1> DEFINE Final == failed => screen'.render = screen.render
<1>1. LiveInv /\ [Next]_vars => [Final]_vars
  <2> SUFFICES ASSUME LiveInv, [Next]_vars, failed PROVE screen'.render = screen.render
    OBVIOUS
  <2> QED
    BY StepCases, ContentKeeps, InnerKeeps, SignalReceived, OnlyTheLoopShows,
       InPlaceKeeps, ReturnKeeps
       DEF boundaryVars
<1> QED
  BY <1>1, LiveInvHolds, PTL DEF Spec, FailureIsFinal

-----------------------------------------------------------------------------
(* The renders of a document, and the boundaries nested in them.           *)

\* The delivery on screen is the newest, a nested boundary belongs to a render
\* that was made, and in a document whoever rendered is still sending it or has
\* stopped the boundary.
NestInv ==
  /\ current = renders
  /\ nested \in [Renders -> {"idle", "working", "checking", "sending", "done"}]
  /\ \A r \in Renders : nested[r] # "idle" => r <= renders
  /\ InnerSettlesUnlessReplaced
  /\ ~KeepOpen => /\ renders <= 1
                  /\ renders = 1 => halted \/ \E i \in Binding : at[i] = "emitting"

\* A step that renders nothing and moves no nested boundary.
LEMMA NestStays ==
  ASSUME LiveInv, NestInv,
         UNCHANGED << setting, current, renders, nested >>, inner' = inner,
         requestDone => requestDone', stopped => stopped',
         halted => halted',
         halted' \/ \A i \in Binding : at[i] = "emitting" => at'[i] = "emitting"
  PROVE  NestInv'
BY DEF NestInv, InnerSettlesUnlessReplaced, Nested, KeepOpen, Cancelled

\* A delivery that renders, or supersedes without rendering and stops.
LEMMA NestRenders ==
  ASSUME LiveInv, NestInv, Supersede, LockFree, ~halted,
         UNCHANGED << setting, requestDone, stopped, inner >>,
         nested' \in { nested, [nested EXCEPT ![renders + 1] = "working"] },
         halted' \/ \E i \in Binding : at'[i] = "emitting"
  PROVE  NestInv'
<1>1. renders \in Nat /\ renders' = renders + 1 /\ current' = renders'
  BY DEF LiveInv, Shape, Supersede
<1>2. \A r \in Renders : r \in Nat
  BY DEF Renders
<1>3. \A r \in Renders : nested'[r] = nested[r] \/ (r = renders + 1 /\ nested'[r] = "working")
  BY DEF NestInv
<1>4. nested' \in [Renders -> {"idle", "working", "checking", "sending", "done"}]
  BY DEF NestInv
<1>5. \A r \in Renders : nested'[r] # "idle" => r <= renders'
  BY <1>1, <1>2, <1>3 DEF NestInv
<1>6. InnerSettlesUnlessReplaced'
  BY <1>1, <1>2, <1>3 DEF NestInv, InnerSettlesUnlessReplaced, Nested, Cancelled
<1>7. ~KeepOpen => renders = 0
  <2>1. ~KeepOpen => renders # 1
    BY DEF NestInv, LockFree
  <2> QED BY <1>1, <2>1 DEF NestInv
<1>8. KeepOpen' = KeepOpen
  BY DEF KeepOpen
<1> QED BY <1>1, <1>4, <1>5, <1>6, <1>7, <1>8 DEF NestInv

LEMMA DeliverKeepsNest ==
  ASSUME LiveInv, NestInv, NEW i \in Binding, Deliver(i)
  PROVE  NestInv'
<1>0. at \in [Binding -> {"source", "calling", "emitting", "signalling", "leaving", "ended"}]
  BY DEF LiveInv, Shape
<1>1. CASE DeliverLate(i)
  BY <1>0, <1>1, NestStays DEF DeliverLate, Enter
<1>2. CASE DeliverValue(i)
  <2>1. CASE pending' > 0
    BY <1>0, <1>2, <2>1, NestStays DEF DeliverValue, Enter, Resume
  <2>2. CASE ~(pending' > 0)
    <3>1. Render(i, "primary", scope') /\ LockFree /\ ~halted
          /\ UNCHANGED << setting, requestDone, stopped, inner >>
      BY <1>2, <2>2 DEF DeliverValue, Enter
    <3>2. at'[i] = "emitting"
      BY <1>0, <3>1 DEF Render
    <3> QED BY <3>1, <3>2, NestRenders DEF Render
  <2> QED BY <2>1, <2>2
<1>3. CASE DeliverFailure(i)
  <2>1. LockFree /\ ~halted /\ UNCHANGED << setting, requestDone, stopped, inner >>
        /\ at[i] = "calling"
    BY <1>3 DEF DeliverFailure, Enter
  <2>2. CASE Cancelled /\ Halt(i) /\ UNCHANGED << buffer, failed, renders, current, nested >>
    BY <2>1, <2>2, NestStays DEF Halt
  <2>3. CASE \E what \in {"recover", "timeout"} : Render(i, what, scope)
    <3>1. at'[i] = "emitting"
      BY <1>0, <2>3 DEF Render
    <3> QED BY <2>1, <2>3, <3>1, NestRenders DEF Render
  <2>4. CASE Supersede /\ Halt(i) /\ UNCHANGED nested
    BY <2>1, <2>4, NestRenders DEF Halt
  <2> QED BY <1>3, <2>2, <2>3, <2>4 DEF DeliverFailure
<1>4. CASE DeliverSignal(i)
  <2>1. \A j \in Binding : at[j] # "emitting"
    BY <1>4 DEF DeliverSignal, Enter, LockFree
  <2> QED BY <1>4, <2>1, NestStays DEF DeliverSignal, Enter, Halt
<1>5. CASE AbandonEmit(i)
  BY <1>5, NestStays DEF AbandonEmit, Halt
<1>6. CASE Leave(i)
  BY <1>0, <1>6, NestStays DEF Leave
<1> QED BY <1>1, <1>2, <1>3, <1>4, <1>5, <1>6 DEF Deliver

\* A nested boundary is dropped by the end of the render, or because its own
\* delivery was replaced.
LEMMA NestedKeepsNest ==
  ASSUME LiveInv, NestInv, NEW r \in Renders, NestedGoroutine(r) \/ ReceiveInner(r)
  PROVE  NestInv'
<1>0. renders \in Nat /\ \A q \in Renders : q \in Nat
  BY DEF LiveInv, Shape, Renders
<1>1. /\ UNCHANGED << setting, requestDone, stopped, renders, current, at, halted >>
      /\ nested[r] # "idle"
      /\ \E to \in {"working", "checking", "sending", "done"} : nested' = [nested EXCEPT ![r] = to]
      /\ inner' = inner \/ inner' = inner \cup {r}
  BY DEF NestedGoroutine, ReceiveInner, Yield, NestedSettles, NestedWaitEnds, NestedChecks,
         NestedYields, NestedEnds, NestedAbandons, NestedStep
<1>2. Nested = "await" /\ nested'[r] = "done" => Cancelled \/ Superseded(r) \/ r \in inner'
  <2>1. nested \in [Renders -> {"idle", "working", "checking", "sending", "done"}]
    BY DEF NestInv
  <2> QED BY <2>1 DEF NestedGoroutine, ReceiveInner, NestedSettles, NestedWaitEnds, NestedChecks,
             NestedYields, NestedEnds, NestedAbandons, NestedStep
<1>3. Superseded(r) => r < renders
  BY <1>0, <1>1 DEF NestInv, Superseded
<1>4. nested' \in [Renders -> {"idle", "working", "checking", "sending", "done"}]
      /\ \A q \in Renders \ {r} : nested'[q] = nested[q]
  BY <1>1 DEF NestInv
<1>5. InnerSettlesUnlessReplaced'
  BY <1>1, <1>2, <1>3, <1>4 DEF NestInv, InnerSettlesUnlessReplaced, Nested, Cancelled
<1> QED BY <1>1, <1>4, <1>5 DEF NestInv, KeepOpen

LEMMA OthersKeepNest ==
  ASSUME LiveInv, NestInv,
         \/ \E i \in Binding : \/ Source(i) \/ ReceiveContent(i) \/ ReceiveSignal(i)
                               \/ RenderInPlace(i)
         \/ PumpReturns \/ AbandonFailure \/ ReceiveFailure \/ YieldReturns \/ SequenceEnds
         \/ ReturnInPlace \/ CancelRequest \/ DeadlinePasses \/ Finished \/ UNCHANGED vars
  PROVE  NestInv'
<1>0. at \in [Binding -> {"source", "calling", "emitting", "signalling", "leaving", "ended"}]
  BY DEF LiveInv, Shape
<1>1. ASSUME NEW i \in Binding, Source(i) PROVE NestInv'
  BY <1>0, <1>1, NestStays DEF Source, SourceYields, WaitEnds, SourceEnds, Hand
<1>2. ASSUME NEW i \in Binding, ReceiveContent(i) PROVE NestInv'
  <2>1. CASE KeepOpen
    BY <1>2, <2>1 DEF ReceiveContent, Yield, NestInv, InnerSettlesUnlessReplaced, Nested,
                      KeepOpen, Cancelled
  <2>2. CASE ~KeepOpen
    BY <1>2, <2>2, NestStays DEF ReceiveContent, Yield, Halt
  <2> QED BY <2>1, <2>2
<1>3. ASSUME NEW i \in Binding, ReceiveSignal(i) PROVE NestInv'
  BY <1>0, <1>3, NestStays DEF ReceiveSignal, Yield, Resume
<1>4. CASE \/ PumpReturns \/ AbandonFailure \/ ReceiveFailure \/ YieldReturns \/ SequenceEnds
           \/ ReturnInPlace \/ CancelRequest \/ DeadlinePasses \/ Finished \/ UNCHANGED vars
  BY <1>4, NestStays DEF PumpReturns, ReturnInPlace, AbandonFailure, ReceiveFailure, Yield, YieldReturns,
     SequenceEnds, Stop, CancelRequest, DeadlinePasses, Finished, vars
<1>5. ASSUME NEW i \in Binding, RenderInPlace(i) PROVE NestInv'
  BY <1>5, NestStays DEF RenderInPlace, Halt
<1> QED BY <1>1, <1>2, <1>3, <1>4, <1>5

LEMMA NestInvHolds == Spec => []NestInv
<1>1. Init => NestInv
  BY DEF Init, NestInv, InnerSettlesUnlessReplaced
<1>2. LiveInv /\ NestInv /\ [Next]_vars => NestInv'
  BY DeliverKeepsNest, NestedKeepsNest, OthersKeepNest DEF Next, Ranging
<1> QED BY <1>1, <1>2, LiveInvHolds, PTL DEF Spec

\* A document renders a live boundary once, for any number of bindings that
\* deliver or fail at once: whoever rendered stops the boundary before it lets go
\* of the lock.
THEOREM DocumentsRenderOnce == Spec => []DocumentRendersOnce
<1>1. NestInv => DocumentRendersOnce
  BY DEF NestInv, DocumentRendersOnce
<1> QED BY <1>1, NestInvHolds, PTL

\* A nested await boundary that ends without having been shown belonged to a
\* delivery that another one replaced, unless the render itself is over.
THEOREM InnerSettles == Spec => []InnerSettlesUnlessReplaced
<1>1. NestInv => InnerSettlesUnlessReplaced
  BY DEF NestInv
<1> QED BY <1>1, NestInvHolds, PTL

-----------------------------------------------------------------------------
(* The synchronous entries.                                                *)

\* Nothing is rendered before every binding delivered or one failed, and what was
\* rendered is being written, is in the document, or failed; the render returns
\* once every binding has.
Written == \/ failed
           \/ \E i \in Binding : at[i] = "emitting"
           \/ screen.render = renders /\ screen.shows # "fallback"

InPlaceInv ==
  InPlace =>
    /\ pass \in {"waiting", "ended"}
    /\ \A i \in Binding : at[i] = "emitting" => buffer[i].shows # "fallback"
    /\ ready = Binding => renders > 0
    /\ renders > 0 => Written
    /\ renders = 0 => screen.render = 0
    /\ pass = "ended" => \A i \in Binding : at[i] = "ended"
    /\ screen.shows = "fallback" => pass = "ended" /\ renders = 0

\* A step that renders nothing and writes nothing.
LEMMA InPlaceStays ==
  ASSUME LiveInv, InPlaceInv, pass # "ended",
         UNCHANGED << setting, pass, buffer, ready, renders, screen, failed >>,
         \A i \in Binding : at'[i] = "emitting" <=> at[i] = "emitting"
  PROVE  InPlaceInv'
BY DEF InPlaceInv, Written, InPlace

\* Nor is anything of the streaming loop a step of a synchronous render.
LEMMA NoLoopInPlace ==
  ASSUME InPlace, InPlaceInv, Ranging
  PROVE  FALSE
BY DEF InPlaceInv, Ranging, ReceiveContent, ReceiveSignal, ReceiveInner, ReceiveFailure,
       Yield, YieldReturns, SequenceEnds

LEMMA DeliverInPlace ==
  ASSUME LiveInv, LiveInv', InPlace, InPlaceInv, NEW i \in Binding, Deliver(i)
  PROVE  InPlaceInv'
<1>0. at \in [Binding -> {"source", "calling", "emitting", "signalling", "leaving", "ended"}]
      /\ renders \in Nat
      /\ buffer \in [Binding -> [shows : Views, render : Nat, scope : [Binding -> Nat]]]
  BY DEF LiveInv, Shape
<1>1. /\ at[i] \in {"calling", "emitting", "signalling", "leaving"}
      /\ UNCHANGED << setting, pass, screen >>
  BY DEF Deliver, DeliverLate, DeliverValue, DeliverFailure, DeliverSignal, AbandonEmit,
         Leave, Enter
<1>2. pass = "waiting" /\ InPlace'
  BY <1>1 DEF InPlaceInv, InPlace
<1>3. CASE DeliverLate(i)
  BY <1>0, <1>2, <1>3, InPlaceStays DEF DeliverLate, Enter
<1>4. CASE DeliverSignal(i)
  BY <1>0, <1>2, <1>4, InPlaceStays DEF DeliverSignal, Enter, Halt, Resume
<1>5. CASE Leave(i)
  BY <1>0, <1>2, <1>5, InPlaceStays DEF Leave
<1>6. CASE AbandonEmit(i)
  BY <1>6 DEF AbandonEmit
<1>7. ASSUME NEW what \in {"primary", "recover", "timeout"}, NEW view, Render(i, what, view),
             LockFree, UNCHANGED failed
      PROVE  InPlaceInv'
  <2>1. /\ renders' = renders + 1
        /\ at' = [at EXCEPT ![i] = "emitting"]
        /\ buffer' = [buffer EXCEPT ![i] = [shows |-> what, render |-> renders + 1,
                                            scope |-> view]]
        /\ \A j \in Binding : at[j] # "emitting"
    BY <1>7 DEF Render, Supersede, LockFree
  <2>2. \A j \in Binding : at'[j] = "emitting" => j = i /\ buffer'[j].shows # "fallback"
    BY <1>0, <2>1
  <2>3. renders' > 0 /\ Written'
    BY <1>0, <2>1 DEF Written
  <2> QED BY <1>1, <1>2, <2>2, <2>3 DEF InPlaceInv
<1>8. CASE DeliverValue(i)
  <2>1. LockFree /\ at[i] = "calling" /\ UNCHANGED failed
    BY <1>8 DEF DeliverValue, Enter
  <2>2. CASE pending' > 0
    <3>1. /\ at' \in { [at EXCEPT ![i] = "source"], [at EXCEPT ![i] = "ended"] }
          /\ UNCHANGED << buffer, renders >>
      BY <1>8, <2>2 DEF DeliverValue, Resume
    <3>2. ready' # Binding
      <4>1. pending' = Cardinality(Binding \ ready')
        BY DEF LiveInv, ScopeInv
      <4>2. Cardinality({}) = 0
        BY FS_EmptySet
      <4>3. ready' = Binding => Binding \ ready' = {}
        OBVIOUS
      <4> QED BY <2>2, <4>1, <4>2, <4>3
    <3>3. \A j \in Binding : at'[j] = "emitting" <=> at[j] = "emitting"
      BY <1>0, <2>1, <3>1
    <3> QED BY <1>1, <1>2, <2>1, <3>1, <3>2, <3>3 DEF InPlaceInv, Written
  <2>3. CASE ~(pending' > 0)
    <3>1. Render(i, "primary", scope')
      BY <1>8, <2>3 DEF DeliverValue
    <3> QED BY <1>7, <2>1, <3>1
  <2> QED BY <2>2, <2>3
<1>9. CASE DeliverFailure(i)
  <2>1. LockFree /\ at[i] = "calling" /\ UNCHANGED ready
    BY <1>9 DEF DeliverFailure, Enter
  <2>2. CASE Cancelled /\ Halt(i) /\ UNCHANGED << buffer, failed, renders, current, nested >>
    BY <1>0, <1>1, <1>2, <2>1, <2>2, InPlaceStays DEF Halt
  <2>3. CASE /\ \E what \in {"recover", "timeout"} : Render(i, what, scope)
             /\ UNCHANGED failed
    BY <1>7, <2>1, <2>3
  <2>4. CASE Supersede /\ Halt(i) /\ failed' = TRUE /\ UNCHANGED << buffer, nested >>
    <3>1. \A j \in Binding : at'[j] # "emitting"
      BY <1>0, <2>1, <2>4 DEF Halt, LockFree
    <3>2. renders' > 0
      BY <1>0, <2>4 DEF Supersede
    <3> QED BY <1>1, <1>2, <2>4, <3>1, <3>2 DEF InPlaceInv, Written
  <2> QED BY <1>9, <2>2, <2>3, <2>4 DEF DeliverFailure
<1> QED BY <1>3, <1>4, <1>5, <1>6, <1>8, <1>9 DEF Deliver

LEMMA RestInPlace ==
  ASSUME LiveInv, InPlace, InPlaceInv, [Next]_vars,
         \A i \in Binding : ~Deliver(i)
  PROVE  InPlaceInv'
<1>0. at \in [Binding -> {"source", "calling", "emitting", "signalling", "leaving", "ended"}]
      /\ renders \in Nat
  BY DEF LiveInv, Shape
<1>1. ASSUME NEW i \in Binding, Source(i) PROVE InPlaceInv'
  <2>1. pass # "ended"
    BY <1>1 DEF InPlaceInv, Source, SourceYields, WaitEnds, SourceEnds
  <2> QED BY <1>0, <1>1, <2>1, InPlaceStays DEF Source, SourceYields, WaitEnds, SourceEnds, Hand
<1>2. ASSUME NEW i \in Binding, RenderInPlace(i) PROVE InPlaceInv'
  <2>1. /\ at[i] = "emitting" /\ UNCHANGED << setting, pass, ready, renders >>
        /\ \A j \in Binding : at'[j] # "emitting"
    BY <1>0, <1>2 DEF RenderInPlace, Halt, LiveInv, LockInv
  <2>2. pass = "waiting" /\ InPlace'
    BY <2>1 DEF InPlaceInv, InPlace
  <2>3. Written'
    <3>0. buffer[i].render = renders
      BY <2>1 DEF LiveInv, LockInv
    <3>1. failed' = TRUE \/ (screen'.render = renders /\ screen'.shows = buffer[i].shows)
      <4>1. CASE screen' = [shows |-> buffer[i].shows, render |-> buffer[i].render,
                            scope |-> buffer[i].scope, inner |-> 0]
        BY <3>0, <4>1
      <4>2. CASE failed' = TRUE
        BY <4>2
      <4>3. \/ screen' = [shows |-> buffer[i].shows, render |-> buffer[i].render,
                          scope |-> buffer[i].scope, inner |-> 0]
            \/ failed' = TRUE
        BY <1>2 DEF RenderInPlace
      <4> QED BY <4>1, <4>2, <4>3
    <3>2. buffer[i].shows # "fallback"
      BY <2>1 DEF InPlaceInv
    <3>3. CASE failed' = TRUE
      BY <3>3 DEF Written
    <3>4. CASE screen'.render = renders /\ screen'.shows = buffer[i].shows
      BY <2>1, <3>2, <3>4 DEF Written
    <3> QED BY <3>1, <3>3, <3>4
  <2>5. screen'.shows # "fallback"
    <3>1. buffer[i].shows # "fallback" /\ screen.shows # "fallback"
      BY <2>1, <2>2 DEF InPlaceInv
    <3>2. UNCHANGED screen \/ screen' = [shows |-> buffer[i].shows,
            render |-> buffer[i].render, scope |-> buffer[i].scope, inner |-> 0]
      BY <1>2 DEF RenderInPlace
    <3>3. CASE UNCHANGED screen
      BY <3>1, <3>3
    <3>4. CASE screen' = [shows |-> buffer[i].shows, render |-> buffer[i].render,
                          scope |-> buffer[i].scope, inner |-> 0]
      BY <3>1, <3>4
    <3> QED BY <3>2, <3>3, <3>4
  <2>4. renders = 0 => screen'.render = 0
    <3>1. screen'.render = renders \/ UNCHANGED screen
      BY <1>2, InPlaceKeeps
    <3> QED BY <3>1 DEF InPlaceInv
  <2> QED BY <2>1, <2>2, <2>3, <2>4, <2>5 DEF InPlaceInv
<1>3. CASE ReturnInPlace
  <2>1. /\ \A i \in Binding : at[i] = "ended"
        /\ UNCHANGED << setting, at, buffer, ready, renders, failed >>
        /\ pass' = "ended"
        /\ IF renders = 0 THEN screen' = [screen EXCEPT !.shows = "fallback"] ELSE UNCHANGED screen
    BY <1>3 DEF ReturnInPlace
  <2>2. screen'.render = screen.render
    BY <1>3, ReturnKeeps
  <2>3. renders > 0 => Written' /\ screen'.shows # "fallback"
    <3> SUFFICES ASSUME renders > 0 PROVE Written' /\ screen'.shows # "fallback"
      OBVIOUS
    <3>1. UNCHANGED << screen, renders, failed, at >> /\ Written
      BY <1>0, <2>1 DEF InPlaceInv
    <3> QED BY <1>0, <3>1 DEF InPlaceInv, Written
  <2>4. CASE renders = 0
    BY <2>1, <2>2, <2>4 DEF InPlaceInv, InPlace
  <2>5. CASE renders > 0
    BY <2>1, <2>2, <2>3, <2>5 DEF InPlaceInv, InPlace, Written
  <2> QED BY <1>0, <2>4, <2>5
<1>4. CASE \/ AbandonFailure \/ CancelRequest \/ DeadlinePasses \/ Finished \/ UNCHANGED vars
           \/ \E r \in Renders : NestedGoroutine(r)
  <2>1. UNCHANGED << setting, pass, at, buffer, ready, renders, screen, failed >>
    BY <1>4 DEF AbandonFailure, CancelRequest, DeadlinePasses, Finished, vars, NestedGoroutine,
       NestedSettles, NestedWaitEnds, NestedChecks, NestedYields, NestedEnds, NestedAbandons,
       NestedStep
  <2> QED BY <2>1 DEF InPlaceInv, InPlace, Written
<1>5. ~PumpReturns
  BY DEF PumpReturns
<1> QED BY <1>1, <1>2, <1>3, <1>4, <1>5, NoLoopInPlace DEF Next

\* What is rendered, and over which entry, is fixed.
LEMMA StepKeepsSetting ==
  ASSUME [Next]_vars
  PROVE  UNCHANGED setting
<1>1. ASSUME NEW i \in Binding, Source(i) \/ Deliver(i) \/ RenderInPlace(i)
      PROVE  UNCHANGED setting
  BY <1>1 DEF Source, SourceYields, WaitEnds, SourceEnds, Hand, Deliver, DeliverLate,
     DeliverValue, DeliverFailure, DeliverSignal, AbandonEmit, Leave, RenderInPlace
<1>2. ASSUME NEW r \in Renders, NestedGoroutine(r) PROVE UNCHANGED setting
  BY <1>2 DEF NestedGoroutine, NestedSettles, NestedWaitEnds, NestedChecks, NestedYields,
     NestedEnds, NestedAbandons, NestedStep
<1>3. CASE Ranging
  BY <1>3 DEF Ranging, ReceiveContent, ReceiveSignal, ReceiveInner, ReceiveFailure, Yield,
     YieldReturns, SequenceEnds
<1> QED
  BY <1>1, <1>2, <1>3 DEF Next, PumpReturns, AbandonFailure, ReturnInPlace, CancelRequest,
     DeadlinePasses, Finished, vars

LEMMA InPlaceInvHolds == Spec => []InPlaceInv
<1>1. Init => InPlaceInv
  BY ClauseAssumption DEF Init, InPlaceInv
<1>2. LiveInv /\ LiveInv' /\ InPlaceInv /\ [Next]_vars => InPlaceInv'
  <2> SUFFICES ASSUME LiveInv, LiveInv', InPlaceInv, [Next]_vars PROVE InPlaceInv'
    OBVIOUS
  <2>1. CASE ~InPlace
    <3>1. UNCHANGED setting
      BY StepKeepsSetting
    <3> QED BY <2>1, <3>1 DEF InPlaceInv, InPlace
  <2>2. CASE InPlace
    BY <2>2, DeliverInPlace, RestInPlace
  <2> QED BY <2>1, <2>2
<1> QED BY <1>1, <1>2, LiveInvHolds, PTL DEF Spec

\* A synchronous render that succeeds shows the one delivery it stopped at, or its
\* fallback when some binding ended without a value: no later delivery follows the
\* first into the document, and the fallback is never added to one.
THEOREM InPlaceIsOneView == Spec => []InPlaceShowsWhatCame
<1>1. LiveInv /\ InPlaceInv => InPlaceShowsWhatCame
  BY DEF LiveInv, Shape, InPlaceInv, Written, InPlaceShowsWhatCame
<1> QED BY <1>1, LiveInvHolds, InPlaceInvHolds, PTL
-----------------------------------------------------------------------------
(* The shape of the rest of the state.                                     *)

Rest ==
  /\ setting \in Setting
  /\ pass \in {"waiting", "ranging", "yielding", "ended"}
  /\ fatal \in BOOLEAN /\ requestDone \in BOOLEAN /\ stopped \in BOOLEAN
  /\ subDone \in BOOLEAN /\ late \in BOOLEAN
  /\ pump \in {"running", "failing", "returned"}
  /\ current \in Nat
  /\ nested \in [Renders -> {"idle", "working", "checking", "sending", "done"}]
  /\ sent \in [Renders -> Nat]
  /\ inner \subseteq Renders

LEMMA RestKeeps ==
  ASSUME Rest, renders \in Nat, [Next]_vars
  PROVE  Rest'
<1> USE DEF Rest
<1>1. ASSUME NEW i \in Binding, Source(i) \/ DeliverLate(i) \/ DeliverValue(i) \/ DeliverFailure(i)
      PROVE  Rest'
  BY <1>1, SMTT(30) DEF Source, SourceYields, WaitEnds, SourceEnds, Hand, DeliverLate,
              DeliverValue, DeliverFailure, Render, Supersede
<1>2. ASSUME NEW i \in Binding, DeliverSignal(i) \/ AbandonEmit(i) \/ Leave(i) \/ RenderInPlace(i)
      PROVE  Rest'
  BY <1>2, ZenonT(60) DEF DeliverSignal, AbandonEmit, Leave, RenderInPlace
<1>3. CASE PumpReturns \/ AbandonFailure \/ ReturnInPlace \/ CancelRequest \/ DeadlinePasses
  BY <1>3, ZenonT(60) DEF PumpReturns, AbandonFailure, ReturnInPlace, CancelRequest, DeadlinePasses
<1>4. ASSUME NEW r \in Renders, NestedGoroutine(r)
      PROVE  Rest'
  BY <1>4 DEF NestedGoroutine, NestedSettles, NestedWaitEnds, NestedChecks, NestedYields,
              NestedEnds, NestedAbandons, NestedStep
<1>5. ASSUME NEW i \in Binding, ReceiveContent(i) \/ ReceiveSignal(i)
      PROVE  Rest'
  BY <1>5 DEF ReceiveContent, ReceiveSignal, Yield
<1>6. ASSUME NEW r \in Renders, ReceiveInner(r)
      PROVE  Rest'
  <2>1. sent[r] + 1 \in Nat /\ sent' = [sent EXCEPT ![r] = sent[r] + 1]
    BY <1>6 DEF ReceiveInner
  <2>2. sent' \in [Renders -> Nat]
    BY <2>1
  <2>3. nested' \in [Renders -> {"idle", "working", "checking", "sending", "done"}]
    BY <1>6 DEF ReceiveInner
  <2>4. inner' \subseteq Renders
    BY <1>6 DEF ReceiveInner
  <2>5. UNCHANGED << setting, requestDone, stopped, subDone, late, current >>
    BY <1>6 DEF ReceiveInner, Yield, givenVars
  <2>6. pump' = pump /\ pass' = "yielding" /\ fatal' = FALSE
    BY <1>6 DEF ReceiveInner, Yield
  <2> QED BY <2>2, <2>3, <2>4, <2>5, <2>6
<1>7. CASE ReceiveFailure \/ YieldReturns \/ SequenceEnds
  BY <1>7 DEF ReceiveFailure, YieldReturns, SequenceEnds, Yield, Stop
<1>8. CASE UNCHANGED vars
  BY <1>8 DEF vars
<1>9. CASE \E i \in Binding : Source(i) \/ Deliver(i) \/ RenderInPlace(i)
  BY <1>1, <1>2, <1>9 DEF Deliver
<1>10. CASE Ranging
  BY <1>5, <1>6, <1>7, <1>10 DEF Ranging
<1> QED
  BY <1>3, <1>4, <1>8, <1>9, <1>10 DEF Next, Finished

\* The state keeps its shape, for any number of bindings and items.
THEOREM TypeCorrect == Spec => []TypeOK
<1>1. Init => Rest
  <2> SUFFICES ASSUME Init PROVE Rest
    OBVIOUS
  <2>1. pass \in {"waiting", "ranging"}
    BY DEF Init
  <2>2. nested \in [Renders -> {"idle", "working", "checking", "sending", "done"}]
    BY DEF Init
  <2>3. sent \in [Renders -> Nat]
    BY DEF Init
  <2>4. /\ setting \in Setting
        /\ fatal = FALSE /\ requestDone = FALSE /\ stopped = FALSE
        /\ subDone = FALSE /\ late = FALSE /\ pump = "running"
        /\ current = 0 /\ inner = {}
    BY DEF Init
  <2> QED BY <2>1, <2>2, <2>3, <2>4 DEF Rest
<1>2. LiveInv => renders \in Nat
  BY DEF LiveInv, Shape
<1>3. Rest /\ LiveInv /\ [Next]_vars => Rest'
  BY <1>2, RestKeeps
<1>4. Rest /\ LiveInv => TypeOK
  <2> SUFFICES ASSUME Rest, LiveInv PROVE TypeOK
    OBVIOUS
  <2>1. Binding \ ready \in SUBSET Binding
    OBVIOUS
  <2>2. pending \in Nat
    BY <2>1, ClauseAssumption, FS_Subset, FS_CardinalityType DEF LiveInv, ScopeInv
  <2> QED BY <2>2 DEF Rest, LiveInv, Shape, TypeOK
<1> QED BY <1>1, <1>3, <1>4, LiveInvHolds, PTL DEF Spec

\* What the region shows is one sound view of the bindings, for any number of them.
THEOREM RegionStaysSound == Spec => []RegionIsSound
<1>1. TypeOK /\ PrimaryShowsEveryBinding /\ DocumentRendersOnce /\ InPlaceShowsWhatCame
        => RegionIsSound
  BY DEF RegionIsSound
<1> QED BY <1>1, TypeCorrect, PrimaryIsComplete, DocumentsRenderOnce, InPlaceIsOneView, PTL

\* Renders are shown in order and none after a failure, for any number of bindings.
THEOREM RendersStayInOrder == Spec => RendersInOrder
BY ScreenNeverGoesBack, NothingAfterFailure DEF RendersInOrder

=============================================================================
