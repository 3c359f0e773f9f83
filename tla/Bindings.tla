------------------------------ MODULE Bindings ------------------------------
(***************************************************************************)
(* The values an await clause waits for: the handles a caller starts       *)
(* before rendering (Pending in htmlbind/pending.go), and the join of one  *)
(* clause's bindings (Concurrent in htmlbind/async.go), as the resolver    *)
(* templates/htmlbind/emit.go generates puts them together.                *)
(*                                                                         *)
(* One handle may be awaited by several clauses, a layout's and a page's;  *)
(* each clause waits under a context of its own.  A clause's caller, its   *)
(* joiner and each of its tasks are goroutines, and so is the work behind  *)
(* a handle, which runs under the context of whoever started it.           *)
(***************************************************************************)
EXTENDS Naturals, Sequences, FiniteSetsExt

CONSTANTS
  Handle,  \* the handles the caller made
  Call,    \* the async externals clauses call
  Clause,  \* the await clauses
  Setting  \* the bindings of the clauses, and how the handles were made

ASSUME ClauseAssumption ==
  /\ Handle \cap Call = {}
  /\ Setting \subseteq [binds : [Clause -> Seq(Handle \cup Call)],
                      made  : [Handle -> {"unset", "working", "resolved", "failed"}]]

VARIABLES
  setting, \* the one that is rendered
  handle,  \* whether each handle's done channel is closed
  result,  \* the value and error fields of its state
  ctx,     \* the context each clause waits under
  at,      \* where each task is
  got,     \* what its source returned
  scope,   \* the field of the clause's scope it assigns
  errs,    \* its slot in the errors of Concurrent
  outcome, \* what the resolver returned to the clause
  blame    \* the binding whose error it returned; 0 is none

bindingsVars == << setting, handle, result, ctx, at, got, scope, errs, outcome, blame >>

handleVars == << handle, result >>
givenVars  == << setting, ctx >>
taskVars   == << at, got, scope, errs >>
callerVars == << outcome, blame >>

Binds == setting.binds \* in declaration order

\* A task is a clause and a binding of it.
Task == UNION { { << c, i >> : i \in DOMAIN s.binds[c] } : c \in Clause, s \in Setting }

Tasks(c) == { t \in Task : t[1] = c /\ t[2] \in DOMAIN Binds[c] }

Source(t) == Binds[t[1]][t[2]]

Ended(c) == ctx[c] = "ended"

BindingsInit ==
  /\ setting \in Setting
  /\ handle = [h \in Handle |-> IF setting.made[h] \in {"resolved", "failed"}
                               THEN "settled" ELSE setting.made[h]]
  /\ result = [h \in Handle |-> CASE setting.made[h] = "resolved" -> "value"
                                 [] setting.made[h] = "failed" -> "error"
                                 [] OTHER -> "none"]
  /\ ctx = [c \in Clause |-> "live"]
  /\ at = [t \in Task |-> "idle"]
  /\ got = [t \in Task |-> "none"]
  /\ scope = [t \in Task |-> "zero"]
  /\ errs = [t \in Task |-> "none"]
  /\ outcome = [c \in Clause |-> "idle"]
  /\ blame = [c \in Clause |-> 0]

-----------------------------------------------------------------------------
(* The goroutine of Go.                                                    *)

\* The work returned, or panicked, and its result is in the handle's fields.
WorkReturns(h) ==
  /\ handle[h] = "working" /\ result[h] = "none"
  /\ \E r \in {"value", "error"} : result' = [result EXCEPT ![h] = r]
  /\ UNCHANGED << handle, givenVars, taskVars, callerVars >>

\* Mutant: done is closed as the work starts, not by the last deferred call.
Publish_First(h) ==
  /\ handle[h] = "working"
  /\ handle' = [handle EXCEPT ![h] = "settled"]
  /\ UNCHANGED << result, givenVars, taskVars, callerVars >>

\* The last deferred call: closing done publishes both fields.
Publish(h) ==
  /\ handle[h] = "working" /\ result[h] # "none"
  /\ handle' = [handle EXCEPT ![h] = "settled"]
  /\ UNCHANGED << result, givenVars, taskVars, callerVars >>

\* A clause's context is cancelled, or its deadline passes; to a wait the two are
\* one. Neither reaches the context a handle's work was given.
ContextEnds(c) ==
  /\ ~Ended(c)
  /\ ctx' = [ctx EXCEPT ![c] = "ended"]
  /\ UNCHANGED << setting, handleVars, taskVars, callerVars >>

-----------------------------------------------------------------------------
(* A task: Wait on a handle or a call, and the assignment of its result.   *)

Yields(t, r) ==
  /\ got' = [got EXCEPT ![t] = r]
  /\ at' = [at EXCEPT ![t] = "returned"]

\* Mutant: one select over both, so a settled handle may lose to the context.
EnterWait_OneSelect(t) ==
  /\ at[t] = "entering" /\ Source(t) \in Handle
  /\ \/ handle[Source(t)] = "unset" /\ Yields(t, "absent")
     \/ handle[Source(t)] = "settled" /\ Yields(t, result[Source(t)])
     \/ Ended(t[1]) /\ Yields(t, "ended")
     \/ /\ handle[Source(t)] = "working" /\ at' = [at EXCEPT ![t] = "waiting"]
        /\ UNCHANGED got
  /\ UNCHANGED << handleVars, givenVars, scope, errs, callerVars >>

\* Wait up to its second select: an unset handle is absent, a settled one
\* answers whatever became of the context.
EnterWait(t) ==
  /\ at[t] = "entering" /\ Source(t) \in Handle
  /\ \/ handle[Source(t)] = "unset" /\ Yields(t, "absent")
     \/ handle[Source(t)] = "settled" /\ Yields(t, result[Source(t)])
     \/ /\ handle[Source(t)] = "working" /\ at' = [at EXCEPT ![t] = "waiting"]
        /\ UNCHANGED got
  /\ UNCHANGED << handleVars, givenVars, scope, errs, callerVars >>

\* The second select takes the handle's arm.
HandleAnswers(t) ==
  /\ at[t] = "waiting"
  /\ handle[Source(t)] = "settled"
  /\ Yields(t, result[Source(t)])
  /\ UNCHANGED << handleVars, givenVars, scope, errs, callerVars >>

\* The second select takes the context's arm: ctx bounds the wait, not the work.
WaitEnds(t) ==
  /\ at[t] = "waiting"
  /\ Ended(t[1])
  /\ Yields(t, "ended")
  /\ UNCHANGED << handleVars, givenVars, scope, errs, callerVars >>

\* A call returns, or panics and runTask makes an error of it; it may never.
CallReturns(t) ==
  /\ at[t] = "entering" /\ Source(t) \in Call
  /\ \E r \in {"value", "error"} : Yields(t, r)
  /\ UNCHANGED << handleVars, givenVars, scope, errs, callerVars >>

\* The task assigns its own field and its own slot, whether or not anybody is
\* still waiting for them, and leaves the wait group.
Finish(t) ==
  /\ at[t] = "returned"
  /\ at' = [at EXCEPT ![t] = "done"]
  /\ scope' = [scope EXCEPT ![t] = IF got[t] \in {"value", "absent"} THEN got[t] ELSE "zero"]
  /\ errs' = [errs EXCEPT ![t] = IF got[t] \in {"value", "absent"} THEN "nil" ELSE got[t]]
  /\ UNCHANGED << handleVars, givenVars, got, callerVars >>

-----------------------------------------------------------------------------
(* Concurrent: the caller and the goroutine that joins the tasks.          *)

\* One goroutine for each task, and the joiner.
Start(c) ==
  /\ outcome[c] = "idle"
  /\ outcome' = [outcome EXCEPT ![c] = "waiting"]
  /\ at' = [t \in Task |-> IF t \in Tasks(c) THEN "entering" ELSE at[t]]
  /\ UNCHANGED << handleVars, givenVars, got, scope, errs, blame >>

\* Mutant: wg.Add moved into the goroutine.
Counted_AddInGoroutine(c) == { t \in Tasks(c) : at[t] \in {"waiting", "returned"} }

\* The tasks the wait group counts: wg.Add runs before each goroutine.
Counted(c) == { t \in Tasks(c) : at[t] # "done" }

Failing(c) == { i \in DOMAIN Binds[c] : errs[<< c, i >>] \notin {"none", "nil"} }

\* Mutant: whichever error is found first.
Blamed_Any(c) == Failing(c)

\* The first error in declaration order.
Blamed(c) == { i \in Failing(c) : \A j \in Failing(c) : i <= j }

\* wg.Wait returned, the joiner closed its channel, and the select takes it: the
\* scope is handed to the primary subtree, or the first error is returned and the
\* scope discarded.
ReturnJoined(c) ==
  /\ outcome[c] = "waiting" /\ Counted(c) = {}
  /\ \/ /\ Failing(c) = {}
        /\ outcome' = [outcome EXCEPT ![c] = "rendered"]
        /\ UNCHANGED blame
     \/ \E i \in Blamed(c) :
          /\ outcome' = [outcome EXCEPT ![c] = "failed"]
          /\ blame' = [blame EXCEPT ![c] = i]
  /\ UNCHANGED << handleVars, givenVars, taskVars >>

\* Mutant: the caller always joins its tasks.
ReturnEnded_JoinsTasks(c) == FALSE

\* The select takes the context: errs and the scope are left to the tasks, which
\* go on. With both ready Go takes either.
ReturnEnded(c) ==
  /\ outcome[c] = "waiting"
  /\ Ended(c)
  /\ outcome' = [outcome EXCEPT ![c] = "ended"]
  /\ UNCHANGED << handleVars, givenVars, taskVars, blame >>

-----------------------------------------------------------------------------

TaskStep(t) == \/ EnterWait(t)
               \/ HandleAnswers(t)
               \/ WaitEnds(t)
               \/ Finish(t)

CallerStep(c) == ReturnJoined(c) \/ ReturnEnded(c)

\* Every clause has its answer; what is left waits for a source.
AllAnswered ==
  /\ \A c \in Clause : outcome[c] \notin {"idle", "waiting"}
  /\ UNCHANGED bindingsVars

BindingsNext ==
  \/ \E h \in Handle : WorkReturns(h) \/ Publish(h)
  \/ \E t \in Task : TaskStep(t) \/ CallReturns(t)
  \/ \E c \in Clause : Start(c) \/ ContextEnds(c) \/ CallerStep(c)
  \/ AllAnswered

\* The goroutines run; what a source does, and when, is nobody's promise.
BindingsFairness ==
  /\ \A t \in Task : WF_bindingsVars(TaskStep(t))
  /\ \A c \in Clause : WF_bindingsVars(CallerStep(c))
  /\ \A h \in Handle : WF_bindingsVars(Publish(h))

BindingsSpec == BindingsInit /\ [][BindingsNext]_bindingsVars /\ BindingsFairness

-----------------------------------------------------------------------------
(* Properties *)

Results == {"none", "value", "error", "absent", "ended"}

\* The shape of the state.
BindingsTypeOK ==
  /\ setting \in Setting
  /\ handle \in [Handle -> {"unset", "working", "settled"}]
  /\ result \in [Handle -> {"none", "value", "error"}]
  /\ ctx \in [Clause -> {"live", "ended"}]
  /\ at \in [Task -> {"idle", "entering", "waiting", "returned", "done"}]
  /\ got \in [Task -> Results]
  /\ scope \in [Task -> {"zero", "value", "absent"}]
  /\ errs \in [Task -> Results \cup {"nil"}]
  /\ outcome \in [Clause -> {"idle", "waiting", "rendered", "failed", "ended"}]
  /\ blame \in [Clause -> Nat]

\* Every await of one handle that got an answer from it got the same, the one it
\* settled to, however the awaits interleave with the work and with each other.
OneAnswer ==
  \A t \in Task :
    at[t] \in {"returned", "done"} /\ Source(t) \in Handle =>
      \/ got[t] \in {"absent", "ended"}
      \/ got[t] \in {"value", "error"} /\ got[t] = result[Source(t)]

\* A layout and a page that await the same handles come to the same end, and
\* blame the same binding, whatever order those settle in, unless the context of
\* one of them ended first.
ClausesAgree ==
  \A c, d \in Clause :
    /\ Binds[c] = Binds[d]
    /\ { Source(t) : t \in Tasks(c) } \subseteq Handle
    /\ {outcome[c], outcome[d]} \subseteq {"rendered", "failed"}
    /\ ~Ended(c) /\ ~Ended(d)
    => outcome[c] = outcome[d] /\ blame[c] = blame[d]

\* One clause's deadline is its own: a clause whose context has not ended never
\* fails with a context's error, although it shares a handle with one whose has.
DeadlinesAreApart ==
  \A t \in Task : got[t] = "ended" => Ended(t[1])

\* What an await of a handle answers depends on the handle and its own clause only.
AnswersAreOwn == OneAnswer /\ DeadlinesAreApart

\* The primary subtree reads a scope nobody writes any more: every binding has
\* its value, and no step changes a field of it afterwards.
RenderedScopeIsFinal ==
  [][\A c \in Clause : outcome[c] = "rendered" =>
       \A t \in Tasks(c) : scope[t] # "zero" /\ scope'[t] = scope[t]]_bindingsVars

\* A handle that was settled when its await began is never lost to the context:
\* the task is never left with the context's error.
SettledWins ==
  [][\A t \in Task :
       /\ at[t] = "entering" /\ at'[t] = "returned"
       /\ Source(t) \in Handle /\ handle[Source(t)] = "settled"
       => got'[t] \in {"value", "error"}]_bindingsVars

\* A clause whose context ended answers, although its sources hang for ever.
EndedClausesAnswer == \A c \in Clause : Ended(c) => outcome[c] # "waiting"

\* And none of its waits outlives it: every task that awaits a handle returns,
\* although the handle never settles.
WaitersReturned ==
  \A t \in Task :
    at[t] # "idle" /\ Source(t) \in Handle /\ Ended(t[1]) => at[t] = "done"

\* A clause whose context ended comes to leave nothing waiting, and not to wait
\* itself. A context ends once and a clause starts once, so this is settled for
\* good.
EndedClausesLetGo == <>[](EndedClausesAnswer /\ WaitersReturned)
=============================================================================
