--------------------------- MODULE Bindings_proofs ---------------------------
(***************************************************************************)
(* Theorems about Bindings for any handles, calls and clauses, whichever   *)
(* bindings the clauses have.                                              *)
(***************************************************************************)
EXTENDS Bindings, TLAPS

\* A task is a clause and the position of a binding.
LEMMA TaskIsPair ==
  ASSUME NEW t \in Task
  PROVE  t[1] \in Clause /\ t[2] \in Nat /\ t = << t[1], t[2] >>
<1>1. PICK c \in Clause, s \in Setting : \E i \in DOMAIN s.binds[c] : t = << c, i >>
  BY DEF Task
<1>2. s.binds[c] \in Seq(Handle \cup Call)
  BY ClauseAssumption
<1> QED BY <1>1, <1>2

\* Every binding of a clause has its task.
LEMMA BindingHasTask ==
  ASSUME setting \in Setting, NEW c \in Clause, NEW i \in DOMAIN Binds[c]
  PROVE  << c, i >> \in Tasks(c) /\ i \in Nat
<1>1. << c, i >> \in Task
  <2> DEFINE Of(d, s) == { << d, j >> : j \in DOMAIN s.binds[d] }
  <2>1. << c, i >> \in Of(c, setting)
    BY DEF Binds
  <2> HIDE DEF Of
  <2>2. \E D \in { Of(d, s) : d \in Clause, s \in Setting } : << c, i >> \in D
    BY <2>1
  <2> QED BY <2>2 DEF Task, Of
<1>2. Binds[c] \in Seq(Handle \cup Call)
  BY ClauseAssumption DEF Binds
<1> QED BY <1>1, <1>2 DEF Tasks

\* What a binding awaits is a handle or a call.
LEMMA SourceIsKnown ==
  ASSUME setting \in Setting, NEW c \in Clause, NEW t \in Tasks(c)
  PROVE  Source(t) \in Handle \cup Call
<1>1. t[1] = c /\ t[2] \in DOMAIN Binds[c]
  BY DEF Tasks
<1>2. Binds[c] \in Seq(Handle \cup Call)
  BY ClauseAssumption DEF Binds
<1> QED BY <1>1, <1>2 DEF Source

\* No step changes the bindings.
LEMMA BindingsStay ==
  ASSUME [BindingsNext]_bindingsVars
  PROVE  /\ setting' = setting
         /\ \A t : Source(t)' = Source(t)
         /\ \A c : Tasks(c)' = Tasks(c)
<1>1. setting' = setting
  <2> USE DEF givenVars
  <2>1. ASSUME NEW t \in Task, TaskStep(t) \/ CallReturns(t) PROVE setting' = setting
    BY <2>1 DEF TaskStep, CallReturns, EnterWait, HandleAnswers, WaitEnds, Finish
  <2>2. ASSUME NEW h \in Handle, WorkReturns(h) \/ Publish(h) PROVE setting' = setting
    BY <2>2 DEF WorkReturns, Publish
  <2>3. ASSUME NEW c \in Clause, Start(c) \/ ContextEnds(c) \/ CallerStep(c)
        PROVE  setting' = setting
    BY <2>3 DEF Start, ContextEnds, CallerStep, ReturnJoined, ReturnEnded
  <2>4. CASE AllAnswered \/ UNCHANGED bindingsVars
    BY <2>4 DEF AllAnswered, bindingsVars
  <2> QED BY <2>1, <2>2, <2>3, <2>4 DEF BindingsNext
<1> QED BY <1>1 DEF Source, Tasks, Binds

-----------------------------------------------------------------------------
(* The invariant.                                                          *)

\* A handle that is settled has its result, and one that is unset never will.
HandleOK(h) == handle[h] = "settled" => result[h] # "none"

\* What a task has of its source, and what it wrote of that.
TaskOK(t) ==
  /\ at[t] # "idle" => t \in Tasks(t[1]) /\ outcome[t[1]] # "idle"
  /\ at[t] = "waiting" => Source(t) \in Handle /\ handle[Source(t)] # "unset"
  /\ at[t] \in {"returned", "done"} =>
       /\ got[t] # "none"
       /\ Source(t) \in Handle =>
            IF handle[Source(t)] = "unset"
              THEN got[t] = "absent"
              ELSE \/ got[t] = "ended"
                   \/ got[t] \in {"value", "error"} /\ got[t] = result[Source(t)]
  /\ at[t] = "done" =>
       /\ errs[t] = IF got[t] \in {"value", "absent"} THEN "nil" ELSE got[t]
       /\ errs[t] = "nil" => scope[t] # "zero"
  /\ got[t] = "ended" => Ended(t[1])

\* A clause that joined its tasks blames the first of those that failed.
ClauseOK(c) ==
  /\ outcome[c] \in {"rendered", "failed"} => \A t \in Tasks(c) : at[t] = "done"
  /\ outcome[c] = "rendered" => Failing(c) = {}
  /\ outcome[c] = "failed" => blame[c] \in Blamed(c)
  /\ outcome[c] # "failed" => blame[c] = 0

BindInv ==
  /\ BindingsTypeOK
  /\ \A h \in Handle : HandleOK(h)
  /\ \A t \in Task : TaskOK(t)
  /\ \A c \in Clause : ClauseOK(c)

\* A task that was not the one to step stays as it is.
LEMMA OthersStay ==
  ASSUME NEW u \in Task, TaskOK(u),
         setting' = setting, UNCHANGED << handle, result, ctx, outcome >>,
         at'[u] = at[u], got'[u] = got[u], scope'[u] = scope[u], errs'[u] = errs[u]
  PROVE  TaskOK(u)'
BY DEF TaskOK, Source, Tasks, Binds, Ended

\* A clause keeps what it has while its tasks keep what they wrote.
LEMMA ClauseStays ==
  ASSUME BindingsTypeOK, NEW c \in Clause, ClauseOK(c), setting' = setting,
         outcome'[c] = outcome[c], blame'[c] = blame[c],
         \A t \in Tasks(c) : at[t] = "done" => at'[t] = "done" /\ errs'[t] = errs[t]
  PROVE  ClauseOK(c)'
<1>1. Tasks(c)' = Tasks(c)
  BY DEF Tasks, Binds
<1>2. CASE outcome[c] \in {"rendered", "failed"}
  <2>1. \A i \in DOMAIN Binds[c] : errs'[<< c, i >>] = errs[<< c, i >>]
    BY <1>2, BindingHasTask DEF ClauseOK, BindingsTypeOK
  <2>2. Failing(c)' = Failing(c)
    BY <2>1 DEF Failing, Binds
  <2>3. Blamed(c)' = Blamed(c)
    BY <2>2 DEF Blamed
  <2> QED BY <1>1, <1>2, <2>2, <2>3 DEF ClauseOK
<1>3. CASE outcome[c] \notin {"rendered", "failed"}
  BY <1>3 DEF ClauseOK
<1> QED BY <1>2, <1>3

\* A step of one task that has not returned before keeps the invariant when it
\* keeps that task's own part of it.
LEMMA TaskStepKeeps ==
  ASSUME BindInv, NEW t \in Task, at[t] # "done", BindingsTypeOK',
         UNCHANGED << handleVars, givenVars, callerVars >>,
         \A u \in Task \ {t} : /\ at'[u] = at[u] /\ got'[u] = got[u]
                               /\ scope'[u] = scope[u] /\ errs'[u] = errs[u],
         TaskOK(t)'
  PROVE  BindInv'
<1> USE DEF BindInv, handleVars, givenVars, callerVars
<1>1. \A h \in Handle : HandleOK(h)'
  BY DEF HandleOK
<1>2. \A u \in Task : TaskOK(u)'
  BY OthersStay
<1>3. ASSUME NEW c \in Clause PROVE ClauseOK(c)'
  <2>1. \A u \in Tasks(c) : at[u] = "done" => at'[u] = "done" /\ errs'[u] = errs[u]
    BY DEF Tasks
  <2> QED BY <2>1, ClauseStays
<1> QED BY <1>1, <1>2, <1>3

LEMMA EnterWaitKeeps ==
  ASSUME BindInv, NEW t \in Task, EnterWait(t) PROVE BindInv'
<1> USE DEF BindInv, BindingsTypeOK, Results
<1>1. /\ at[t] = "entering" /\ Source(t) \in Handle
      /\ UNCHANGED << handleVars, givenVars, scope, errs, callerVars >>
  BY DEF EnterWait
<1>2. /\ TaskOK(t) /\ HandleOK(Source(t))
      /\ Source(t)' = Source(t) /\ Tasks(t[1])' = Tasks(t[1])
  BY <1>1 DEF Source, Tasks, Binds, givenVars
<1>3. CASE handle[Source(t)] = "unset" /\ Yields(t, "absent")
  <2>1. BindingsTypeOK'
    BY <1>1, <1>3 DEF Yields, handleVars, givenVars, callerVars
  <2>2. TaskOK(t)'
    BY <1>1, <1>2, <1>3 DEF TaskOK, Yields, handleVars, givenVars, callerVars
  <2> QED BY <1>1, <1>3, <2>1, <2>2, TaskStepKeeps DEF Yields
<1>4. CASE handle[Source(t)] = "settled" /\ Yields(t, result[Source(t)])
  <2>0. result[Source(t)] \in {"value", "error"}
    BY <1>1, <1>2, <1>4 DEF HandleOK
  <2>1. BindingsTypeOK'
    BY <1>1, <1>4, <2>0 DEF Yields, handleVars, givenVars, callerVars
  <2>2. TaskOK(t)'
    BY <1>1, <1>2, <1>4, <2>0 DEF TaskOK, Yields, handleVars, givenVars, callerVars
  <2> QED BY <1>1, <1>4, <2>1, <2>2, TaskStepKeeps DEF Yields
<1>5. CASE handle[Source(t)] = "working" /\ at' = [at EXCEPT ![t] = "waiting"] /\ UNCHANGED got
  <2>1. BindingsTypeOK'
    BY <1>1, <1>5 DEF handleVars, givenVars, callerVars
  <2>2. TaskOK(t)'
    BY <1>1, <1>2, <1>5 DEF TaskOK, Ended, handleVars, givenVars, callerVars
  <2> QED BY <1>1, <1>5, <2>1, <2>2, TaskStepKeeps
<1> QED BY <1>3, <1>4, <1>5 DEF EnterWait

LEMMA WaitReturnsKeeps ==
  ASSUME BindInv, NEW t \in Task, HandleAnswers(t) \/ WaitEnds(t) PROVE BindInv'
<1> USE DEF BindInv, BindingsTypeOK, Results
<1>1. /\ at[t] = "waiting"
      /\ UNCHANGED << handleVars, givenVars, scope, errs, callerVars >>
  BY DEF HandleAnswers, WaitEnds
<1>2. /\ TaskOK(t) /\ Source(t) \in Handle /\ handle[Source(t)] # "unset"
      /\ HandleOK(Source(t))
      /\ Source(t)' = Source(t) /\ Tasks(t[1])' = Tasks(t[1])
  BY <1>1 DEF TaskOK, Source, Tasks, Binds, givenVars
<1>3. PICK r \in {"value", "error", "ended"} :
        /\ Yields(t, r)
        /\ r = "ended" => Ended(t[1])
        /\ r # "ended" => r = result[Source(t)]
  BY <1>2 DEF HandleAnswers, WaitEnds, HandleOK
<1>4. BindingsTypeOK'
  BY <1>1, <1>3 DEF Yields, handleVars, givenVars, callerVars
<1>5. TaskOK(t)'
  BY <1>1, <1>2, <1>3 DEF TaskOK, Yields, Ended, handleVars, givenVars, callerVars
<1> QED BY <1>1, <1>3, <1>4, <1>5, TaskStepKeeps DEF Yields

LEMMA CallReturnsKeeps ==
  ASSUME BindInv, NEW t \in Task, CallReturns(t) PROVE BindInv'
<1> USE DEF BindInv, BindingsTypeOK, Results
<1>1. /\ at[t] = "entering" /\ Source(t) \notin Handle
      /\ UNCHANGED << handleVars, givenVars, scope, errs, callerVars >>
  BY ClauseAssumption DEF CallReturns
<1>2. TaskOK(t) /\ Source(t)' = Source(t) /\ Tasks(t[1])' = Tasks(t[1])
  BY <1>1 DEF Source, Tasks, Binds, givenVars
<1>3. PICK r \in {"value", "error"} : Yields(t, r)
  BY DEF CallReturns
<1>4. BindingsTypeOK'
  BY <1>1, <1>3 DEF Yields, handleVars, givenVars, callerVars
<1>5. TaskOK(t)'
  BY <1>1, <1>2, <1>3 DEF TaskOK, Yields, handleVars, givenVars, callerVars
<1> QED BY <1>1, <1>3, <1>4, <1>5, TaskStepKeeps DEF Yields

LEMMA FinishKeeps ==
  ASSUME BindInv, NEW t \in Task, Finish(t) PROVE BindInv'
<1> USE DEF BindInv, BindingsTypeOK, Results
<1>1. /\ at[t] = "returned" /\ at' = [at EXCEPT ![t] = "done"]
      /\ scope' = [scope EXCEPT ![t] = IF got[t] \in {"value", "absent"} THEN got[t] ELSE "zero"]
      /\ errs' = [errs EXCEPT ![t] = IF got[t] \in {"value", "absent"} THEN "nil" ELSE got[t]]
      /\ UNCHANGED << handleVars, givenVars, got, callerVars >>
  BY DEF Finish
<1>2. TaskOK(t) /\ Source(t)' = Source(t) /\ Tasks(t[1])' = Tasks(t[1])
  BY <1>1 DEF Source, Tasks, Binds, givenVars
<1>3. BindingsTypeOK'
  BY <1>1 DEF handleVars, givenVars, callerVars
<1>4. /\ at'[t] = "done"
      /\ scope'[t] = IF got[t] \in {"value", "absent"} THEN got[t] ELSE "zero"
      /\ errs'[t] = IF got[t] \in {"value", "absent"} THEN "nil" ELSE got[t]
  BY <1>1
<1>5. TaskOK(t)'
  BY <1>1, <1>2, <1>4 DEF TaskOK, Ended, handleVars, givenVars, callerVars
<1> QED BY <1>1, <1>3, <1>5, TaskStepKeeps

LEMMA HandleKeeps ==
  ASSUME BindInv, NEW h \in Handle, WorkReturns(h) \/ Publish(h) PROVE BindInv'
<1> USE DEF BindInv, BindingsTypeOK
<1>1. /\ UNCHANGED << givenVars, taskVars, callerVars >>
      /\ handle[h] = "working"
      /\ \A g \in Handle : handle'[g] = "unset" <=> handle[g] = "unset"
      /\ \A g \in Handle : result[g] # "none" => result'[g] = result[g]
      /\ BindingsTypeOK'
  BY DEF WorkReturns, Publish, givenVars, taskVars, callerVars
<1> USE DEF givenVars, taskVars, callerVars
<1>2. ASSUME NEW g \in Handle PROVE HandleOK(g)'
  BY DEF HandleOK, WorkReturns, Publish
<1>3. ASSUME NEW t \in Task PROVE TaskOK(t)'
  <2>1. TaskOK(t) /\ Source(t)' = Source(t) /\ Tasks(t[1])' = Tasks(t[1])
    BY <1>1 DEF Source, Tasks, Binds
  <2>2. Source(t) \in Handle => /\ handle'[Source(t)] = "unset" <=> handle[Source(t)] = "unset"
                                /\ result[Source(t)] # "none"
                                     => result'[Source(t)] = result[Source(t)]
    BY <1>1
  <2> QED BY <1>1, <2>1, <2>2 DEF TaskOK, Ended
<1>4. ASSUME NEW c \in Clause PROVE ClauseOK(c)'
  BY <1>1, ClauseStays
<1> QED BY <1>1, <1>2, <1>3, <1>4

LEMMA ContextKeeps ==
  ASSUME BindInv, NEW d \in Clause, ContextEnds(d) PROVE BindInv'
<1> USE DEF BindInv, BindingsTypeOK, handleVars, taskVars, callerVars
<1>1. /\ UNCHANGED << setting, handleVars, taskVars, callerVars >>
      /\ ctx' = [ctx EXCEPT ![d] = "ended"]
  BY DEF ContextEnds
<1>2. \A g \in Handle : HandleOK(g)'
  BY <1>1 DEF HandleOK
<1>3. ASSUME NEW t \in Task PROVE TaskOK(t)'
  <2>1. Ended(t[1]) => Ended(t[1])'
    BY <1>1, TaskIsPair DEF Ended
  <2> QED BY <1>1, <2>1 DEF TaskOK, Source, Tasks, Binds
<1>4. \A c \in Clause : ClauseOK(c)'
  BY <1>1, ClauseStays
<1> QED BY <1>1, <1>2, <1>3, <1>4

LEMMA StartKeeps ==
  ASSUME BindInv, NEW d \in Clause, Start(d) PROVE BindInv'
<1> USE DEF BindInv, BindingsTypeOK, handleVars, givenVars
<1>1. /\ outcome[d] = "idle" /\ outcome' = [outcome EXCEPT ![d] = "waiting"]
      /\ at' = [t \in Task |-> IF t \in Tasks(d) THEN "entering" ELSE at[t]]
      /\ UNCHANGED << handleVars, givenVars, got, scope, errs, blame >>
  BY DEF Start
<1>2. BindingsTypeOK' /\ \A g \in Handle : HandleOK(g)'
  BY <1>1 DEF HandleOK
<1>3. ASSUME NEW t \in Task PROVE TaskOK(t)'
  <2>1. t[1] \in Clause /\ Tasks(t[1])' = Tasks(t[1]) /\ Source(t)' = Source(t)
    BY <1>1, TaskIsPair DEF Source, Tasks, Binds
  <2>2. CASE t \in Tasks(d)
    <3>1. t[1] = d /\ at'[t] = "entering" /\ outcome'[d] = "waiting"
      BY <1>1, <2>2 DEF Tasks
    <3> QED BY <1>1, <2>1, <2>2, <3>1 DEF TaskOK, Ended
  <2>3. CASE t \notin Tasks(d)
    <3>1. at'[t] = at[t] /\ (outcome[t[1]] # "idle" => outcome'[t[1]] # "idle")
      BY <1>1, <2>1, <2>3
    <3> QED BY <1>1, <2>1, <3>1 DEF TaskOK, Ended
  <2> QED BY <2>2, <2>3
<1>4. ASSUME NEW c \in Clause PROVE ClauseOK(c)'
  <2>1. CASE c = d
    BY <1>1, <2>1 DEF ClauseOK
  <2>2. CASE c # d
    <3>1. outcome'[c] = outcome[c] /\ \A t \in Tasks(c) : at'[t] = at[t]
      BY <1>1, <2>2 DEF Tasks
    <3> QED BY <1>1, <3>1, ClauseStays
  <2> QED BY <2>1, <2>2
<1> QED BY <1>2, <1>3, <1>4

LEMMA ReturnKeeps ==
  ASSUME BindInv, NEW d \in Clause, CallerStep(d) PROVE BindInv'
<1> USE DEF BindInv, BindingsTypeOK, handleVars, givenVars, taskVars
<1>1. /\ outcome[d] = "waiting"
      /\ UNCHANGED << handleVars, givenVars, taskVars >>
      /\ \E o \in {"rendered", "failed", "ended"} : outcome' = [outcome EXCEPT ![d] = o]
  BY DEF CallerStep, ReturnJoined, ReturnEnded
<1>2. \A t \in Tasks(d) : t \in Task
  BY DEF Tasks
<1>3. ClauseOK(d)' /\ blame' \in [Clause -> Nat] /\ \A c \in Clause \ {d} : blame'[c] = blame[c]
  <2>1. CASE ReturnJoined(d)
    <3>1. \A t \in Tasks(d) : at[t] = "done"
      BY <2>1 DEF ReturnJoined, Counted
    <3>2. /\ Tasks(d)' = Tasks(d) /\ Failing(d)' = Failing(d) /\ Blamed(d)' = Blamed(d)
      BY <1>1 DEF Tasks, Failing, Blamed, Binds
    <3>3. CASE Failing(d) = {} /\ outcome' = [outcome EXCEPT ![d] = "rendered"] /\ UNCHANGED blame
      BY <1>1, <3>1, <3>2, <3>3 DEF ClauseOK
    <3>4. CASE \E i \in Blamed(d) : /\ outcome' = [outcome EXCEPT ![d] = "failed"]
                                    /\ blame' = [blame EXCEPT ![d] = i]
      <4>1. PICK i \in Blamed(d) : /\ outcome' = [outcome EXCEPT ![d] = "failed"]
                                   /\ blame' = [blame EXCEPT ![d] = i]
        BY <3>4
      <4>2. i \in Nat
        BY BindingHasTask DEF Blamed, Failing
      <4> QED BY <1>1, <3>1, <3>2, <4>1, <4>2 DEF ClauseOK
    <3> QED BY <2>1, <3>3, <3>4 DEF ReturnJoined
  <2>2. CASE ReturnEnded(d)
    BY <1>1, <2>2 DEF ReturnEnded, ClauseOK
  <2> QED BY <2>1, <2>2 DEF CallerStep
<1>4. BindingsTypeOK' /\ \A g \in Handle : HandleOK(g)'
  <2>1. outcome' \in [Clause -> {"idle", "waiting", "rendered", "failed", "ended"}]
    BY <1>1
  <2> QED BY <1>1, <1>3, <2>1 DEF HandleOK
<1>5. ASSUME NEW t \in Task PROVE TaskOK(t)'
  <2>1. outcome[t[1]] # "idle" => outcome'[t[1]] # "idle"
    BY <1>1, TaskIsPair
  <2> QED BY <1>1, <2>1 DEF TaskOK, Source, Tasks, Binds, Ended
<1>6. ASSUME NEW c \in Clause, c # d PROVE ClauseOK(c)'
  BY <1>1, <1>3, <1>6, ClauseStays
<1> QED BY <1>3, <1>4, <1>5, <1>6

LEMMA BindInvHolds == BindingsSpec => []BindInv
<1>1. BindingsInit => BindInv
  <2> SUFFICES ASSUME BindingsInit PROVE BindInv
    OBVIOUS
  <2>1. setting.made \in [Handle -> {"unset", "working", "resolved", "failed"}]
    BY ClauseAssumption DEF BindingsInit
  <2>2. BindingsTypeOK
    BY <2>1 DEF BindingsInit, BindingsTypeOK, Results
  <2>3. \A h \in Handle : HandleOK(h)
    BY <2>1 DEF BindingsInit, HandleOK
  <2>4. \A t \in Task : TaskOK(t)
    BY DEF BindingsInit, TaskOK
  <2>5. \A c \in Clause : ClauseOK(c)
    BY DEF BindingsInit, ClauseOK
  <2> QED BY <2>2, <2>3, <2>4, <2>5 DEF BindInv
<1>2. BindInv /\ [BindingsNext]_bindingsVars => BindInv'
  <2> SUFFICES ASSUME BindInv, [BindingsNext]_bindingsVars PROVE BindInv'
    OBVIOUS
  <2>1. CASE \E h \in Handle : WorkReturns(h) \/ Publish(h)
    BY <2>1, HandleKeeps
  <2>2. CASE \E t \in Task : TaskStep(t) \/ CallReturns(t)
    BY <2>2, EnterWaitKeeps, WaitReturnsKeeps, FinishKeeps, CallReturnsKeeps DEF TaskStep
  <2>3. CASE \E c \in Clause : Start(c) \/ ContextEnds(c) \/ CallerStep(c)
    BY <2>3, StartKeeps, ContextKeeps, ReturnKeeps
  <2>4. CASE AllAnswered \/ UNCHANGED bindingsVars
    <3>1. UNCHANGED bindingsVars
      BY <2>4 DEF AllAnswered
    <3>2. BindingsTypeOK'
      BY <3>1 DEF bindingsVars, BindInv, BindingsTypeOK
    <3>3. \A h \in Handle : HandleOK(h)'
      BY <3>1 DEF bindingsVars, BindInv, HandleOK
    <3>4. \A t \in Task : TaskOK(t)'
      BY <3>1 DEF bindingsVars, BindInv, TaskOK, Tasks, Source, Binds, Ended
    <3>5. \A c \in Clause : ClauseOK(c)'
      BY <3>1 DEF bindingsVars, BindInv, ClauseOK, Tasks, Binds, Failing, Blamed
    <3> QED BY <3>2, <3>3, <3>4, <3>5 DEF BindInv
  <2> QED BY <2>1, <2>2, <2>3, <2>4 DEF BindingsNext
<1> QED BY <1>1, <1>2, PTL DEF BindingsSpec

-----------------------------------------------------------------------------
(* The theorems.                                                           *)

\* The state keeps its shape, whatever the sources do and whoever gives up.
THEOREM TypeCorrect == BindingsSpec => []BindingsTypeOK
<1>1. BindInv => BindingsTypeOK
  BY DEF BindInv
<1> QED BY <1>1, BindInvHolds, PTL

\* Every await of a handle that is answered by it is answered alike: closing the
\* done channel publishes a result that is never written again.
THEOREM HandlesAnswerOnce == BindingsSpec => []OneAnswer
<1>1. BindInv => OneAnswer
  BY DEF BindInv, TaskOK, OneAnswer
<1> QED BY <1>1, BindInvHolds, PTL

\* A context's error reaches no clause but the one whose context it is.
THEOREM DeadlinesStayApart == BindingsSpec => []DeadlinesAreApart
<1>1. BindInv => DeadlinesAreApart
  BY DEF BindInv, TaskOK, DeadlinesAreApart
<1> QED BY <1>1, BindInvHolds, PTL

\* Two clauses over the same handles that joined their tasks in time come to one
\* end: each task's error is a function of its handle alone, so the failing
\* positions are the same, and the least of them is.
THEOREM ClausesComeToOneEnd == BindingsSpec => []ClausesAgree
<1>1. BindInv => ClausesAgree
  <2> SUFFICES ASSUME BindInv, NEW c \in Clause, NEW d \in Clause,
                      Binds[c] = Binds[d],
                      { Source(t) : t \in Tasks(c) } \subseteq Handle,
                      {outcome[c], outcome[d]} \subseteq {"rendered", "failed"},
                      ~Ended(c), ~Ended(d)
               PROVE  outcome[c] = outcome[d] /\ blame[c] = blame[d]
    BY DEF ClausesAgree
  <2> USE DEF BindInv
  <2>1. ASSUME NEW i \in DOMAIN Binds[c] PROVE errs[<< c, i >>] = errs[<< d, i >>]
    <3> DEFINE t == << c, i >>
               u == << d, i >>
    <3>1. t \in Tasks(c) /\ u \in Tasks(d)
      BY BindingHasTask DEF BindingsTypeOK
    <3>2. Source(t) = Source(u) /\ Source(t) \in Handle
      BY <3>1 DEF Source
    <3>3. /\ t \in Task /\ u \in Task /\ t[1] = c /\ u[1] = d
          /\ at[t] = "done" /\ at[u] = "done"
      BY <3>1 DEF Tasks, ClauseOK
    <3>4. TaskOK(t) /\ TaskOK(u)
      BY <3>3
    <3>5. got[t] # "ended" /\ got[u] # "ended"
      BY <3>3, <3>4 DEF TaskOK
    <3> HIDE DEF t, u
    <3>6. got[t] = got[u]
      BY <3>2, <3>3, <3>4, <3>5 DEF TaskOK
    <3>7. errs[t] = errs[u]
      BY <3>3, <3>4, <3>6 DEF TaskOK
    <3> QED BY <3>7 DEF t, u
  <2>2. Failing(c) = Failing(d)
    BY <2>1 DEF Failing
  <2>3. Blamed(c) = Blamed(d)
    BY <2>2 DEF Blamed
  <2>4. \A i, j \in Blamed(c) : i = j
    <3>1. \A i \in DOMAIN Binds[c] : i \in Nat
      BY BindingHasTask DEF BindingsTypeOK
    <3>2. \A i \in Failing(c) : i \in Nat
      BY <3>1 DEF Failing
    <3>3. \A i, j \in Blamed(c) : i \in Nat /\ j \in Nat /\ i <= j /\ j <= i
      BY <3>2 DEF Blamed
    <3> QED BY <3>3
  <2>5. Blamed(c) # {} => Failing(c) # {}
    BY DEF Blamed
  <2> QED BY <2>2, <2>3, <2>4, <2>5 DEF ClauseOK
<1> QED BY <1>1, BindInvHolds, PTL

\* The scope a clause renders from is complete, and nobody writes it any more: a
\* clause renders only when every task it counted has written its field.
THEOREM RenderedScopeStays == BindingsSpec => RenderedScopeIsFinal
<1>1. BindInv /\ [BindingsNext]_bindingsVars =>
        [\A c \in Clause : outcome[c] = "rendered" =>
           \A t \in Tasks(c) : scope[t] # "zero" /\ scope'[t] = scope[t]]_bindingsVars
  <2> SUFFICES ASSUME BindInv, BindingsNext, NEW c \in Clause, outcome[c] = "rendered",
                      NEW t \in Tasks(c)
               PROVE  scope[t] # "zero" /\ scope'[t] = scope[t]
    OBVIOUS
  <2> USE DEF BindInv
  <2>1. t \in Task /\ t = << c, t[2] >> /\ t[2] \in DOMAIN Binds[c] /\ at[t] = "done"
    BY TaskIsPair DEF Tasks, ClauseOK
  <2>2. t[2] \notin Failing(c) /\ errs[t] # "none"
    BY <2>1 DEF ClauseOK, TaskOK, BindingsTypeOK, Results
  <2>3. scope[t] # "zero"
    BY <2>1, <2>2 DEF Failing, TaskOK
  <2>4. scope'[t] = scope[t]
    <3> USE DEF taskVars
    <3>1. CASE \E u \in Task : TaskStep(u) \/ CallReturns(u)
      BY <2>1, <3>1 DEF TaskStep, CallReturns, EnterWait, HandleAnswers, WaitEnds, Finish,
                        BindingsTypeOK
    <3>2. CASE \E h \in Handle : WorkReturns(h) \/ Publish(h)
      BY <3>2 DEF WorkReturns, Publish
    <3>3. CASE \E d \in Clause : Start(d) \/ ContextEnds(d) \/ CallerStep(d)
      BY <3>3 DEF Start, ContextEnds, CallerStep, ReturnJoined, ReturnEnded
    <3>4. CASE AllAnswered
      BY <3>4 DEF AllAnswered, bindingsVars
    <3> QED BY <3>1, <3>2, <3>3, <3>4 DEF BindingsNext
  <2> QED BY <2>3, <2>4
<1> QED BY <1>1, BindInvHolds, PTL DEF BindingsSpec, RenderedScopeIsFinal

\* A handle that was settled when an await of it began is never lost to the
\* context: the first select of Wait has no arm for it.
THEOREM SettledHandleWins == BindingsSpec => SettledWins
<1>1. BindInv /\ [BindingsNext]_bindingsVars =>
        [\A t \in Task :
           /\ at[t] = "entering" /\ at'[t] = "returned"
           /\ Source(t) \in Handle /\ handle[Source(t)] = "settled"
           => got'[t] \in {"value", "error"}]_bindingsVars
  <2> SUFFICES ASSUME BindInv, BindingsNext, NEW t \in Task,
                      at[t] = "entering", at'[t] = "returned",
                      Source(t) \in Handle, handle[Source(t)] = "settled"
               PROVE  got'[t] \in {"value", "error"}
    OBVIOUS
  <2> USE DEF BindInv, BindingsTypeOK, Yields
  <2>1. result[Source(t)] \in {"value", "error"}
    BY DEF HandleOK
  <2>2. CASE \E u \in Task : TaskStep(u) \/ CallReturns(u)
    <3>1. PICK u \in Task : TaskStep(u) \/ CallReturns(u)
      BY <2>2
    <3>2. u = t
      BY <3>1 DEF TaskStep, CallReturns, EnterWait, HandleAnswers, WaitEnds, Finish
    <3> QED BY <2>1, <3>1, <3>2, ClauseAssumption
              DEF TaskStep, CallReturns, EnterWait, HandleAnswers, WaitEnds, Finish
  <2>3. CASE \E h \in Handle : WorkReturns(h) \/ Publish(h)
    BY <2>3 DEF WorkReturns, Publish, taskVars
  <2>4. CASE \E d \in Clause : Start(d) \/ ContextEnds(d) \/ CallerStep(d)
    BY <2>4 DEF Start, ContextEnds, CallerStep, ReturnJoined, ReturnEnded, taskVars
  <2>5. CASE AllAnswered
    BY <2>5 DEF AllAnswered, bindingsVars
  <2> QED BY <2>2, <2>3, <2>4, <2>5 DEF BindingsNext
<1> QED BY <1>1, BindInvHolds, PTL DEF BindingsSpec, SettledWins

\* An await's answer depends on its handle and its own clause, for any of them.
THEOREM AnswersStayOwn == BindingsSpec => []AnswersAreOwn
<1>1. OneAnswer /\ DeadlinesAreApart => AnswersAreOwn
  BY DEF AnswersAreOwn
<1> QED BY <1>1, HandlesAnswerOnce, DeadlinesStayApart, PTL

=============================================================================
