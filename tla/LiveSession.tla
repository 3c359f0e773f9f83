----------------------------- MODULE LiveSession -----------------------------
(***************************************************************************)
(* The live channel of one screen: RunStream writing the records of a live *)
(* plan (internal/updatecore/stream.go) and the loop of runtime.js that    *)
(* keeps a delivery stream open.  The server ends streams at a lifetime    *)
(* bound, on a shutdown and on a deploy; connections drop, requests fail,  *)
(* and the application closes the session when it likes.  A response the   *)
(* client gave up on may still be running on the server when the next one  *)
(* starts, so there is a set of responses.                                 *)
(*                                                                         *)
(* What a record delivers is left out but for whether it can be applied,   *)
(* and so is the head of a stream of another build: Negotiate answers a    *)
(* request of another build with a document.                               *)
(***************************************************************************)
EXTENDS Naturals, Sequences, FiniteSets

CONSTANTS
  Stream,       \* responses that can be running at once
  Sources,      \* live sources of the route
  MaxAttempts,  \* runtime.js: settings.maxAttempts
  Window,       \* records the connection holds before the writer blocks
  MaxFaults,    \* bound: connections cut, requests refused, deliveries unapplied
  Setting       \* subset of [live : BOOLEAN, told : BOOLEAN]

ASSUME BoundAssumption ==
  /\ MaxAttempts \in Nat \ {0} /\ Window \in Nat \ {0} /\ Sources \in Nat
  /\ "none" \notin Stream

VARIABLES
  setting,    \* live: the entry holds subscriptions open; told: a transport that
              \* cancels the context when the client leaves
  sent,       \* kind of the last record written, by response
  running,    \* responses whose RunStream has not returned
  active,     \* sources that have not finished, by response
  ended,      \* responses whose context has ended
  broken,     \* recordWriter.err
  wire,       \* records not yet read, by response
  gone,       \* responses whose connection is no more
  build,      \* the build of the server: 1, and 2 after a deploy
  phase,      \* "pausing", "opening", "reading" or "over"
  reading,    \* the response the client reads
  unapplied,  \* a delivery of this response could not be applied
  attempts,
  stopped,
  verdict,    \* why the loop ended
  faults      \* connections cut, requests refused and responses that could not be
              \* applied, since a rollover (bound)

serverVars == << sent, running, active, ended, broken >>
clientVars == << phase, reading, unapplied, attempts, stopped, verdict >>
vars == << setting, serverVars, wire, gone, build, clientVars, faults >>

NoStream == "none"

Init ==
  /\ setting \in Setting
  /\ sent = [s \in Stream |-> "nothing"]
  /\ running = {} /\ ended = {} /\ broken = {} /\ gone = {}
  /\ active = [s \in Stream |-> 0]
  /\ wire = [s \in Stream |-> << >>]
  /\ build = 1
  /\ phase = "pausing" /\ reading = NoStream /\ unapplied = FALSE
  /\ attempts = 0 /\ stopped = FALSE /\ verdict = "none" /\ faults = 0

-----------------------------------------------------------------------------
(* The server.                                                              *)

(* recordWriter.write: nothing once a write has failed.                     *)
Put(s, kind, record) ==
  IF s \in broken
    THEN UNCHANGED << sent, wire, broken >>
    ELSE IF s \in gone
      THEN /\ broken' = broken \cup {s}
           /\ UNCHANGED << sent, wire >>
      ELSE /\ sent' = [sent EXCEPT ![s] = kind]
           /\ wire' = [wire EXCEPT ![s] = Append(@, record)]
           /\ UNCHANGED broken

Room(s) == s \in gone \cup broken \/ Len(wire[s]) < Window

Returns(s) == running' = running \ {s}

\* Mutant: the loop does not ask whether the writer is broken.
Deliver_Unchecked(s) ==
  /\ s \in running \ ended
  /\ active[s] > 0 /\ Room(s)
  /\ Put(s, "body", "body") /\ UNCHANGED running
  /\ UNCHANGED << setting, active, ended, gone, build, clientVars, faults >>

(* The next item of the sequence is a delivery or a signal: the loop writes *)
(* it, or ends because nobody reads.                                        *)
Deliver(s) ==
  /\ s \in running \ ended
  /\ active[s] > 0 /\ Room(s)
  /\ IF s \in broken
       THEN Returns(s) /\ UNCHANGED << sent, wire, broken >>
       ELSE Put(s, "body", "body") /\ UNCHANGED running
  /\ UNCHANGED << setting, active, ended, gone, build, clientVars, faults >>

(* One of the sources of the plan returns.                                  *)
SourceEnds(s) ==
  /\ s \in running
  /\ active[s] > 0
  /\ active' = [active EXCEPT ![s] = @ - 1]
  /\ UNCHANGED << setting, sent, running, ended, broken, wire, gone, build,
                  clientVars, faults >>

\* Mutant: the loop goes on after Fail.
SourceFails_GoesOn(s) ==
  /\ s \in running \ ended
  /\ active[s] > 0 /\ Room(s)
  /\ Put(s, "end", "failed")
  /\ active' = [active EXCEPT ![s] = @ - 1]
  /\ UNCHANGED << setting, running, ended, gone, build, clientVars, faults >>

(* An unrecovered failure: Fail, and a Close that finds the stream closed.  *)
SourceFails(s) ==
  /\ s \in running \ ended
  /\ active[s] > 0 /\ Room(s)
  /\ Put(s, "end", "failed")
  /\ Returns(s)
  /\ UNCHANGED << setting, active, ended, gone, build, clientVars, faults >>

\* Mutant: every end is told as the end of the sources.
Reason_Done(s) == "done"

(* Retry when the context has ended, else Close.                            *)
Reason(s) == IF s \in ended THEN "retry" ELSE "done"

(* The sequence is over, and its terminator written.                        *)
SequenceEnds(s) ==
  /\ s \in running
  /\ active[s] = 0 \/ s \in ended
  /\ Room(s)
  /\ Put(s, "end", Reason(s))
  /\ Returns(s)
  /\ UNCHANGED << setting, active, ended, gone, build, clientVars, faults >>

(* A lifetime bound or a shutdown; or, where the transport tells, the       *)
(* client left.                                                             *)
ContextEnds(s) ==
  /\ s \in running \ ended
  /\ ended' = ended \cup {s}
  /\ UNCHANGED << setting, sent, running, active, broken, wire, gone, build,
                  clientVars, faults >>

Deploy ==
  /\ build = 1
  /\ build' = 2
  /\ ended' = ended \cup running
  /\ UNCHANGED << setting, sent, running, active, broken, wire, gone,
                  clientVars, faults >>

-----------------------------------------------------------------------------
(* The client.                                                              *)

Stops(why) ==
  /\ phase' = "over" /\ verdict' = why /\ stopped' = TRUE
  /\ reading' = NoStream /\ unapplied' = FALSE

(* reopen: the loop waits before it asks again.                             *)
Pauses ==
  /\ phase' = "pausing" /\ reading' = NoStream /\ unapplied' = FALSE
  /\ UNCHANGED << stopped, verdict >>

(* open: a request, unless the session was closed meanwhile.                *)
Reopen ==
  /\ phase = "pausing"
  /\ IF stopped
       THEN Stops("closed") /\ UNCHANGED attempts
       ELSE /\ phase' = "opening"
            /\ UNCHANGED << reading, unapplied, attempts, stopped, verdict >>
  /\ UNCHANGED << setting, serverVars, wire, gone, build, faults >>

(* A fault: one attempt less, and a reload when none is left.               *)
Faulted ==
  IF stopped
    THEN Stops("closed") /\ UNCHANGED attempts
    ELSE /\ attempts' = attempts + 1
         /\ IF attempts' >= MaxAttempts
              THEN Stops("reloaded")
              ELSE Pauses

Refused ==
  /\ phase = "opening"
  /\ faults < MaxFaults
  /\ faults' = faults + 1
  /\ Faulted
  /\ UNCHANGED << setting, serverVars, wire, gone, build >>

\* Mutant: an answer that is no delivery stream is retried.
Unavailable_AsksAgain ==
  /\ phase = "opening"
  /\ ~setting.live \/ build # 1
  /\ phase' = "pausing"
  /\ UNCHANGED << setting, serverVars, wire, gone, build, reading, unapplied,
                  attempts, stopped, verdict, faults >>

(* Negotiate finds another build, or the entry does not serve live: the     *)
(* answer is no delivery stream.                                            *)
Unavailable ==
  /\ phase = "opening"
  /\ ~setting.live \/ build # 1
  /\ Stops("unavailable")
  /\ UNCHANGED << setting, serverVars, wire, gone, build, attempts, faults >>

(* OpenStream, and the first read of the client.                            *)
Accepted(s) ==
  /\ phase = "opening"
  /\ setting.live /\ build = 1
  /\ s \notin running
  /\ sent[s] = "nothing"
  /\ sent' = [sent EXCEPT ![s] = "head"]
  /\ running' = running \cup {s}
  /\ active' = [active EXCEPT ![s] = Sources]
  /\ phase' = "reading" /\ reading' = s /\ unapplied' = FALSE
  /\ UNCHANGED << setting, ended, broken, wire, gone, build, attempts, stopped,
                  verdict, faults >>

Arrived(s) == phase = "reading" /\ reading = s /\ wire[s] # << >>

(* A delivery, which may find no target.  The ones after it are skipped,    *)
(* and the response is read to its end.                                     *)
ReadRecord(s) ==
  /\ Arrived(s) /\ Head(wire[s]) = "body"
  /\ wire' = [wire EXCEPT ![s] = Tail(@)]
  /\ unapplied' \in {unapplied, unapplied \/ faults < MaxFaults}
  /\ UNCHANGED << setting, serverVars, gone, build, phase, reading, attempts, stopped,
                  verdict, faults >>

\* Mutant: a rollover counts as a fault.
ReadEnd_Counts(s) ==
  /\ Arrived(s) /\ Head(wire[s]) # "body"
  /\ gone' = gone \cup {s}
  /\ wire' = [wire EXCEPT ![s] = << >>]
  /\ IF unapplied
       THEN Faulted /\ faults' = faults + 1
       ELSE /\ IF Head(wire[s]) = "retry"
                 THEN Faulted
                 ELSE Stops(Head(wire[s])) /\ UNCHANGED attempts
            /\ UNCHANGED faults
  /\ UNCHANGED << setting, serverVars, build >>

(* The terminator.  A response that could not be applied is a fault,        *)
(* whatever its terminator says.  Otherwise a rollover restores the         *)
(* attempts, and anything else is the end of the session.                   *)
ReadEnd(s) ==
  /\ Arrived(s) /\ Head(wire[s]) # "body"
  /\ gone' = gone \cup {s}
  /\ wire' = [wire EXCEPT ![s] = << >>]
  /\ IF stopped
       THEN Stops("closed") /\ UNCHANGED << attempts, faults >>
     ELSE IF unapplied
       THEN Faulted /\ faults' = faults + 1
     ELSE IF Head(wire[s]) = "retry"
       THEN Pauses /\ attempts' = 0 /\ faults' = 0
       ELSE Stops(Head(wire[s])) /\ UNCHANGED << attempts, faults >>
  /\ UNCHANGED << setting, serverVars, build >>

(* The connection is gone and no terminator came.                           *)
Lost(s) ==
  /\ phase = "reading" /\ reading = s
  /\ s \in gone /\ wire[s] = << >>
  /\ Faulted
  /\ UNCHANGED << setting, serverVars, wire, gone, build, faults >>

(* close: the flag, and nothing of the response that is being read.         *)
Close ==
  /\ ~stopped
  /\ stopped' = TRUE
  /\ UNCHANGED << setting, serverVars, wire, gone, build, phase, reading,
                  unapplied, attempts, verdict, faults >>

-----------------------------------------------------------------------------
(* The connection.                                                          *)

(* What was written and not read is lost.                                   *)
Cut(s) ==
  /\ sent[s] # "nothing" /\ s \notin gone
  /\ faults < MaxFaults
  /\ faults' = faults + 1
  /\ gone' = gone \cup {s}
  /\ wire' = [wire EXCEPT ![s] = << >>]
  /\ UNCHANGED << setting, serverVars, build, clientVars >>

(* The page goes away while it reads, and its connection with it.           *)
Leave(s) ==
  /\ phase = "reading" /\ reading = s
  /\ Stops("left")
  /\ gone' = gone \cup {s}
  /\ wire' = [wire EXCEPT ![s] = << >>]
  /\ UNCHANGED << setting, serverVars, build, attempts, faults >>

(* Nothing is left of a response: another may take its place.               *)
Forget(s) ==
  /\ sent[s] # "nothing"
  /\ s \notin running /\ s \in gone /\ reading # s
  /\ sent' = [sent EXCEPT ![s] = "nothing"]
  /\ active' = [active EXCEPT ![s] = 0]
  /\ ended' = ended \ {s} /\ broken' = broken \ {s} /\ gone' = gone \ {s}
  /\ UNCHANGED << setting, running, wire, build, clientVars, faults >>

-----------------------------------------------------------------------------
Response(s) ==
  \/ Deliver(s) \/ SourceEnds(s) \/ SourceFails(s) \/ SequenceEnds(s)
  \/ ContextEnds(s) \/ Cut(s) \/ Leave(s) \/ Forget(s)

Session ==
  \/ Reopen \/ Refused \/ Unavailable \/ Close
  \/ \E s \in Stream : Accepted(s) \/ ReadRecord(s) \/ ReadEnd(s) \/ Lost(s)

(* The page has gone and nothing of its responses is left.                  *)
Finished ==
  /\ phase = "over" /\ \A s \in Stream : sent[s] = "nothing"
  /\ UNCHANGED vars

Next == Deploy \/ Session \/ (\E s \in Stream : Response(s)) \/ Finished

(* RunStream goes on; a source that has not finished yields again; a page   *)
(* reads, waits and asks again; and the transports that tell the server     *)
(* that the client left do.                                                 *)
Tells(s) == setting.told /\ s \in gone /\ ContextEnds(s)

Fairness ==
  /\ WF_vars(Reopen) /\ WF_vars(Unavailable)
  /\ WF_vars(\E s \in Stream : Accepted(s))
  /\ \A s \in Stream :
       /\ WF_vars(SequenceEnds(s))
       /\ WF_vars(Deliver(s))
       /\ WF_vars(Tells(s)) /\ WF_vars(Forget(s))
       /\ WF_vars(ReadRecord(s) \/ ReadEnd(s) \/ Lost(s))

Spec == Init /\ [][Next]_vars /\ Fairness

-----------------------------------------------------------------------------
Log == INSTANCE RecordLog

(* The stream RunStream writes is what a client of the contract may rely on *)
(* (DeltaStream, recordWriter: nothing after the terminator, and one).      *)
WritesLog == Log!Spec

TypeOK ==
  /\ setting \in Setting
  /\ sent \in [Stream -> Log!Kinds]
  /\ running \subseteq Stream /\ ended \subseteq Stream
  /\ broken \subseteq gone /\ gone \subseteq Stream
  /\ active \in [Stream -> 0..Sources]
  /\ \A s \in Stream : Len(wire[s]) <= Window
  /\ \A s \in Stream : wire[s] # << >> => s \notin gone /\ sent[s] # "nothing"
  /\ phase \in {"pausing", "opening", "reading", "over"}
  /\ phase = "reading" <=> reading \in Stream
  /\ unapplied \in BOOLEAN
  /\ attempts \in 0..MaxAttempts
  /\ phase = "over" <=> verdict # "none"

(* A session stops as done only when every source had finished: a lifetime  *)
(* bound, a shutdown or a deploy brings the client back (stream.go          *)
(* RunStream, runtime.js live).                                             *)
DoneMeansFinished ==
  [][verdict' = "done" /\ verdict # "done" => active[reading] = 0]_vars

(* A page is reloaded only after as many faults as it has attempts, with no *)
(* rollover between them that was applied (runtime.js live): a connection   *)
(* cut, a request refused, a response with a delivery that could not be     *)
(* applied.  No ending the server chose counts of itself (endRetry), but    *)
(* one that follows such a delivery does not save the attempt either.       *)
OnlyFaultsReload == verdict = "reloaded" => faults >= MaxAttempts

(* Whatever becomes of the client, its response stops rendering.            *)
ServerLetsGo ==
  \A s \in Stream : (s \in running /\ s \in gone) ~> (s \notin running)

(* The loop does not hang between two streams.                              *)
SessionSettles == phase \in {"pausing", "opening"} ~> phase \in {"reading", "over"}

(* A page that meets another build of a route that serves live falls back   *)
(* to an ordinary full navigation (docs/httpbind_update_wire_contract.md).  *)
DeployReloads == verdict = "unavailable" => ~setting.live

=============================================================================
