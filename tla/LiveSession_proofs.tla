-------------------------- MODULE LiveSession_proofs --------------------------
(***************************************************************************)
(* Theorems about LiveSession for any number of responses, sources,        *)
(* attempts and faults, and any connection.                                *)
(***************************************************************************)
EXTENDS LiveSession, SequenceTheorems, TLAPS

\* What can be on the wire after the head, which nobody has to read.
Record == {"body", "failed", "done", "retry"}

\* TypeOK with what it rests on: the records on the wire are known ones, and a
\* session that goes on has an attempt left.
Shape ==
  /\ TypeOK
  /\ wire \in [Stream -> Seq(Record)]
  /\ faults \in Nat /\ stopped \in BOOLEAN
  /\ phase # "over" => attempts < MaxAttempts

\* Putting a record keeps the shape of what it touches.
LEMMA PutKeepsShape ==
  ASSUME Shape, NEW s \in Stream, NEW kind \in {"body", "end"}, NEW record \in Record,
         Room(s), Put(s, kind, record)
  PROVE  /\ sent' \in [Stream -> Log!Kinds]
         /\ wire' \in [Stream -> Seq(Record)]
         /\ broken' \subseteq gone
         /\ \A t \in Stream : Len(wire'[t]) <= Window
         /\ \A t \in Stream : wire'[t] # << >> => t \notin gone /\ sent'[t] # "nothing"
<1> USE DEF Shape, TypeOK, Log!Kinds
<1>1. CASE s \in broken \/ s \in gone
  BY <1>1 DEF Put
<1>2. CASE s \notin broken /\ s \notin gone
  <2>1. /\ sent' = [sent EXCEPT ![s] = kind]
        /\ wire' = [wire EXCEPT ![s] = Append(@, record)]
        /\ broken' = broken
    BY <1>2 DEF Put
  <2>2. Append(wire[s], record) \in Seq(Record) /\ Len(Append(wire[s], record)) = Len(wire[s]) + 1
    OBVIOUS
  <2>3. Len(wire[s]) < Window /\ Len(wire[s]) \in Nat /\ Window \in Nat
    BY <1>2, BoundAssumption DEF Room
  <2> QED BY <1>2, <2>1, <2>2, <2>3
<1> QED BY <1>1, <1>2

\* Taking the first record off the wire keeps the shape of the wire.
LEMMA TailKeepsShape ==
  ASSUME Shape, NEW s \in Stream, wire[s] # << >>
  PROVE  /\ Head(wire[s]) \in Record
         /\ Tail(wire[s]) \in Seq(Record)
         /\ Len(Tail(wire[s])) = Len(wire[s]) - 1
         /\ \A i \in 1 .. Len(Tail(wire[s])) : Tail(wire[s])[i] = wire[s][i + 1]
BY HeadTailProperties DEF Shape

\* A connection that is gone has nothing on the wire.
LEMMA EmptyKeepsShape ==
  ASSUME Shape, NEW s \in Stream,
         wire' = [wire EXCEPT ![s] = << >>], gone' = gone \cup {s}, UNCHANGED sent
  PROVE  /\ wire' \in [Stream -> Seq(Record)]
         /\ \A t \in Stream : Len(wire'[t]) <= Window
         /\ \A t \in Stream : wire'[t] # << >> => t \notin gone' /\ sent'[t] # "nothing"
<1>1. << >> \in Seq(Record) /\ Len(<< >>) = 0 /\ 0 <= Window
  BY BoundAssumption
<1> QED BY <1>1 DEF Shape, TypeOK

\* A fault takes one attempt, and the last one ends the session.
LEMMA FaultKeepsShape ==
  ASSUME Shape, phase # "over", Faulted
  PROVE  /\ phase' \in {"pausing", "over"} /\ reading' = NoStream
         /\ attempts' \in {attempts, attempts + 1}
         /\ attempts' \in 0 .. MaxAttempts
         /\ stopped' \in BOOLEAN /\ unapplied' = FALSE
         /\ phase' = "over" <=> verdict' # "none"
         /\ phase' # "over" => attempts' < MaxAttempts
         /\ verdict' = "reloaded" => attempts' >= MaxAttempts
<1> USE BoundAssumption DEF Shape, TypeOK
<1>1. attempts \in Nat /\ MaxAttempts \in Nat /\ attempts < MaxAttempts
  OBVIOUS
<1>2. CASE stopped
  BY <1>1, <1>2 DEF Faulted, Stops
<1>3. CASE ~stopped
  <2>1. attempts' = attempts + 1
    BY <1>3 DEF Faulted
  <2>2. CASE attempts' >= MaxAttempts
    BY <1>1, <1>3, <2>1, <2>2 DEF Faulted, Stops
  <2>3. CASE ~(attempts' >= MaxAttempts)
    BY <1>1, <1>3, <2>1, <2>3 DEF Faulted, Pauses
  <2> QED BY <2>1, <2>2, <2>3
<1> QED BY <1>2, <1>3

\* Every step keeps all of it.
LEMMA ShapeHolds == Spec => []Shape
<1> USE BoundAssumption
<1>1. Init => Shape
  <2> SUFFICES ASSUME Init PROVE Shape
    OBVIOUS
  <2>1. /\ << >> \in Seq(Record) /\ Len(<< >>) = 0
        /\ wire \in [Stream -> Seq(Record)]
        /\ \A s \in Stream : wire[s] = << >>
    BY DEF Init
  <2>2. 0 < MaxAttempts /\ 0 \in 0 .. MaxAttempts /\ 0 \in 0 .. Sources /\ 0 <= Window
    OBVIOUS
  <2>3. sent \in [Stream -> Log!Kinds]
    BY DEF Init, Log!Kinds
  <2> QED BY <2>1, <2>2, <2>3 DEF Init, Shape, TypeOK, NoStream
<1>2. Shape /\ [Next]_vars => Shape'
  <2> SUFFICES ASSUME Shape, [Next]_vars PROVE Shape'
    OBVIOUS
  <2> USE DEF Shape, TypeOK, NoStream, serverVars, clientVars
  <2>1. ASSUME NEW s \in Stream, Deliver(s) PROVE Shape'
    <3>1. CASE s \in broken
      BY <2>1, <3>1 DEF Deliver, Returns
    <3>2. CASE s \notin broken
      <4>1. /\ Put(s, "body", "body") /\ Room(s)
            /\ UNCHANGED << setting, running, active, ended, gone, build, clientVars, faults >>
        BY <2>1, <3>2 DEF Deliver
      <4> QED BY <4>1, PutKeepsShape DEF Record
    <3> QED BY <3>1, <3>2
  <2>2. ASSUME NEW s \in Stream, SourceEnds(s) PROVE Shape'
    BY <2>2 DEF SourceEnds
  <2>3. ASSUME NEW s \in Stream, SourceFails(s) PROVE Shape'
    BY <2>3, PutKeepsShape DEF SourceFails, Returns, Record
  <2>4. ASSUME NEW s \in Stream, SequenceEnds(s) PROVE Shape'
    <3>1. Reason(s) \in Record
      BY DEF Reason, Record
    <3> QED BY <2>4, <3>1, PutKeepsShape DEF SequenceEnds, Returns
  <2>5. ASSUME NEW s \in Stream, ContextEnds(s) PROVE Shape'
    BY <2>5 DEF ContextEnds
  <2>6. ASSUME NEW s \in Stream, Cut(s) PROVE Shape'
    <3>1. /\ gone' = gone \cup {s}
          /\ wire' = [wire EXCEPT ![s] = << >>]
          /\ UNCHANGED << setting, serverVars, build, clientVars >>
          /\ faults' \in Nat
      BY <2>6 DEF Cut
    <3> QED BY <3>1, EmptyKeepsShape
  <2>7. ASSUME NEW s \in Stream, Forget(s) PROVE Shape'
    <3>1. /\ sent' = [sent EXCEPT ![s] = "nothing"] /\ wire[s] = << >>
          /\ active' = [active EXCEPT ![s] = 0]
          /\ s \in gone /\ ended' = ended \ {s} /\ broken' = broken \ {s} /\ gone' = gone \ {s}
          /\ UNCHANGED << setting, running, wire, build, clientVars, faults >>
      BY <2>7 DEF Forget
    <3>2. sent' \in [Stream -> Log!Kinds] /\ active' \in [Stream -> 0 .. Sources]
      BY <3>1 DEF Log!Kinds
    <3>3. \A t \in Stream : wire'[t] # << >> => t \notin gone' /\ sent'[t] # "nothing"
      BY <3>1
    <3> QED BY <3>1, <3>2, <3>3
  <2>8. CASE Deploy
    BY <2>8 DEF Deploy
  <2>9. CASE Reopen \/ Unavailable \/ Close
    BY <2>9 DEF Reopen, Unavailable, Close, Stops
  <2>10. CASE Refused
    <3>1. /\ phase = "opening" /\ Faulted /\ faults' \in Nat
          /\ UNCHANGED << setting, serverVars, wire, gone, build >>
      BY <2>10 DEF Refused
    <3>2. /\ phase' \in {"pausing", "over"} /\ reading' = NoStream
          /\ attempts' \in 0 .. MaxAttempts
          /\ stopped' \in BOOLEAN /\ unapplied' \in BOOLEAN
          /\ phase' = "over" <=> verdict' # "none"
          /\ phase' # "over" => attempts' < MaxAttempts
      BY <3>1, FaultKeepsShape
    <3> QED BY <3>1, <3>2
  <2>11. ASSUME NEW s \in Stream, Accepted(s) PROVE Shape'
    <3>1. /\ phase = "opening" /\ sent' = [sent EXCEPT ![s] = "head"]
          /\ running' = running \cup {s} /\ active' = [active EXCEPT ![s] = Sources]
          /\ phase' = "reading" /\ reading' = s /\ unapplied' \in BOOLEAN
          /\ UNCHANGED << setting, ended, broken, wire, gone, build, attempts, stopped,
                          verdict, faults >>
      BY <2>11 DEF Accepted
    <3>2. sent' \in [Stream -> Log!Kinds] /\ active' \in [Stream -> 0 .. Sources]
      BY <3>1 DEF Log!Kinds
    <3>3. \A t \in Stream : wire'[t] # << >> => t \notin gone' /\ sent'[t] # "nothing"
      BY <3>1
    <3> QED BY <3>1, <3>2, <3>3
  <2>12. ASSUME NEW s \in Stream, ReadRecord(s) PROVE Shape'
    <3>1. /\ wire[s] # << >> /\ wire' = [wire EXCEPT ![s] = Tail(@)]
          /\ unapplied' \in BOOLEAN
          /\ UNCHANGED << setting, serverVars, gone, build, phase, reading, attempts,
                          stopped, verdict, faults >>
      BY <2>12 DEF ReadRecord, Arrived
    <3> QED BY <3>1, TailKeepsShape
  <2>13. ASSUME NEW s \in Stream, ReadEnd(s) PROVE Shape'
    <3>1. /\ gone' = gone \cup {s}
          /\ wire' = [wire EXCEPT ![s] = << >>]
          /\ UNCHANGED << setting, serverVars, build >>
          /\ phase = "reading" /\ faults' \in Nat
      BY <2>13 DEF ReadEnd, Arrived
    <3>2. Head(wire[s]) \in Record
      BY <2>13, TailKeepsShape DEF ReadEnd, Arrived
    <3>3. /\ phase' \in {"pausing", "over"} /\ reading' = NoStream
          /\ attempts' \in 0 .. MaxAttempts
          /\ stopped' \in BOOLEAN /\ unapplied' = FALSE
          /\ phase' = "over" <=> verdict' # "none"
          /\ phase' # "over" => attempts' < MaxAttempts
      <4>1. CASE ~stopped /\ unapplied
        <5>1. Faulted
          BY <2>13, <4>1 DEF ReadEnd
        <5> HIDE DEF Shape, TypeOK
        <5> QED BY <3>1, <5>1, FaultKeepsShape
      <4>2. CASE stopped
        <5>1. Stops("closed") /\ UNCHANGED attempts
          BY <2>13, <4>2 DEF ReadEnd
        <5> QED BY <3>1, <5>1 DEF Stops
      <4>3. CASE ~stopped /\ ~unapplied /\ Head(wire[s]) = "retry"
        <5>1. Pauses /\ attempts' = 0
          BY <2>13, <4>3 DEF ReadEnd
        <5> QED BY <3>1, <4>3, <5>1 DEF Pauses
      <4>4. CASE ~stopped /\ ~unapplied /\ Head(wire[s]) # "retry"
        <5>1. Stops(Head(wire[s])) /\ UNCHANGED attempts
          BY <2>13, <4>4 DEF ReadEnd
        <5> QED BY <3>1, <3>2, <5>1 DEF Stops, Record
      <4> QED BY <4>1, <4>2, <4>3, <4>4
    <3> QED BY <3>1, <3>3, EmptyKeepsShape
  <2>14. ASSUME NEW s \in Stream, Lost(s) PROVE Shape'
    BY <2>14, FaultKeepsShape DEF Lost
  <2>15. ASSUME NEW s \in Stream, Leave(s) PROVE Shape'
    <3>1. /\ gone' = gone \cup {s}
          /\ wire' = [wire EXCEPT ![s] = << >>]
          /\ UNCHANGED << setting, serverVars, build, attempts, faults >>
          /\ phase' = "over" /\ reading' = NoStream /\ unapplied' = FALSE
          /\ stopped' = TRUE /\ verdict' = "left"
      BY <2>15 DEF Leave, Stops
    <3> QED BY <3>1, EmptyKeepsShape
  <2>16. CASE Finished \/ UNCHANGED vars
    BY <2>16 DEF Finished, vars
  <2> QED
    BY <2>1, <2>2, <2>3, <2>4, <2>5, <2>6, <2>7, <2>8, <2>9, <2>10, <2>11, <2>12,
       <2>13, <2>14, <2>15, <2>16 DEF Next, Response, Session
<1> QED
  BY <1>1, <1>2, PTL DEF Spec

\* The state keeps its shape, whatever fails: a response the client gave up on
\* has nothing on the wire, a blocked writer writes nothing, and the attempts
\* stay within their budget.
THEOREM TypeCorrect == Spec => []TypeOK
<1>1. Shape => TypeOK
  BY DEF Shape
<1> QED BY <1>1, ShapeHolds, PTL

-----------------------------------------------------------------------------
(* WritesLog.                                                              *)

\* RunStream runs between the head and the terminator of its response.
LogInv == \A s \in running : sent[s] \in {"head", "body"}

\* What RunStream puts is a record of the log, or nothing.
LEMMA PutIsALogStep ==
  ASSUME Shape, LogInv, NEW s \in running, NEW kind \in {"body", "end"}, NEW record,
         Put(s, kind, record)
  PROVE  /\ [Log!Next]_sent
         /\ kind = "body" => sent'[s] \in {"head", "body"}
         /\ \A t \in Stream \ {s} : sent'[t] = sent[t]
<1>1. s \in Stream /\ sent[s] \in {"head", "body"}
  BY DEF Shape, TypeOK, LogInv
<1>2. CASE UNCHANGED sent
  BY <1>1, <1>2
<1>3. CASE sent' = [sent EXCEPT ![s] = kind]
  <2>1. Log!Write(s) \/ Log!End(s)
    BY <1>1, <1>3 DEF Log!Write, Log!End
  <2> QED BY <1>1, <1>3, <2>1 DEF Shape, TypeOK, Log!Next
<1> QED BY <1>2, <1>3 DEF Put

\* Every step keeps a running response open, and is a step of the log.
LEMMA StepWritesLog ==
  ASSUME Shape, LogInv, [Next]_vars
  PROVE  LogInv' /\ [Log!Next]_sent
<1> USE DEF LogInv, serverVars
<1>1. ASSUME NEW s \in Stream, Deliver(s) PROVE LogInv' /\ [Log!Next]_sent
  <2>1. CASE s \in broken
    BY <1>1, <2>1 DEF Deliver, Returns
  <2>2. CASE s \notin broken
    <3>1. s \in running /\ Put(s, "body", "body") /\ UNCHANGED running
      BY <1>1, <2>2 DEF Deliver
    <3> QED BY <3>1, PutIsALogStep DEF Shape, TypeOK
  <2> QED BY <2>1, <2>2
<1>2. ASSUME NEW s \in Stream, SourceFails(s) \/ SequenceEnds(s)
      PROVE  LogInv' /\ [Log!Next]_sent
  <2>1. PICK record : s \in running /\ Put(s, "end", record) /\ running' = running \ {s}
    BY <1>2 DEF SourceFails, SequenceEnds, Returns
  <2> QED BY <2>1, PutIsALogStep DEF Shape, TypeOK
<1>3. ASSUME NEW s \in Stream, Accepted(s) PROVE LogInv' /\ [Log!Next]_sent
  <2>1. /\ sent[s] = "nothing" /\ sent' = [sent EXCEPT ![s] = "head"]
        /\ running' = running \cup {s}
    BY <1>3 DEF Accepted
  <2>2. Log!Open(s)
    BY <2>1 DEF Log!Open
  <2> QED BY <2>1, <2>2 DEF Log!Next, Shape, TypeOK
<1>4. ASSUME NEW s \in Stream, Forget(s) PROVE LogInv' /\ [Log!Next]_sent
  <2>1. /\ s \notin running /\ UNCHANGED running
        /\ sent' = [sent EXCEPT ![s] = "nothing"]
    BY <1>4 DEF Forget
  <2>2. Log!Forget(s)
    BY <2>1 DEF Log!Forget
  <2> QED BY <2>1, <2>2 DEF Log!Next, Shape, TypeOK
<1>5. ASSUME NEW s \in Stream, SourceEnds(s) \/ ContextEnds(s) \/ Cut(s) \/ Leave(s)
      PROVE  LogInv' /\ [Log!Next]_sent
  BY <1>5 DEF SourceEnds, ContextEnds, Cut, Leave
<1>6. ASSUME NEW s \in Stream, ReadRecord(s) \/ ReadEnd(s) \/ Lost(s)
      PROVE  LogInv' /\ [Log!Next]_sent
  BY <1>6 DEF ReadRecord, ReadEnd, Lost
<1>7. CASE Deploy \/ Reopen \/ Refused \/ Unavailable \/ Close
  BY <1>7 DEF Deploy, Reopen, Refused, Unavailable, Close
<1>8. CASE Finished \/ UNCHANGED vars
  BY <1>8 DEF Finished, vars
<1> QED
  BY <1>1, <1>2, <1>3, <1>4, <1>5, <1>6, <1>7, <1>8 DEF Next, Response, Session

\* Every response is a log: its head first, one terminator at most, nothing
\* after it, whatever fails and whoever returns when. RunStream may call Fail and
\* Close one after the other, and this is why that writes one terminator.
THEOREM StreamsAreLogs == Spec => WritesLog
<1>1. Init => LogInv /\ Log!Init
  BY DEF Init, LogInv, Log!Init
<1> QED
  BY <1>1, ShapeHolds, StepWritesLog, PTL DEF Spec, WritesLog, Log!Spec

-----------------------------------------------------------------------------
(* OnlyFaultsReload.                                                       *)

\* Every attempt that was used up is a fault of its own: a request refused, a
\* connection cut, or a response that could not be applied, which is counted when
\* its terminator is read. A stream that is gone without its terminator is a fault
\* no attempt was counted for yet. A response that has not started is neither read
\* nor gone.
FaultInv ==
  /\ attempts <= faults
  /\ phase = "reading" /\ reading \in gone => attempts + 1 <= faults
  /\ \A s \in gone : sent[s] # "nothing"
  /\ phase = "reading" => sent[reading] # "nothing"
  /\ OnlyFaultsReload

\* A page is reloaded only after as many faults as it has attempts, none of them
\* before the last rollover it could apply. An ending the server chose is no fault
\* by itself; what is one is a response that brought a delivery the page could not
\* apply, and runtime.js charges that one whatever its terminator says.
THEOREM ReloadsAreForFaults == Spec => []OnlyFaultsReload
<1>1. Init => FaultInv
  BY DEF Init, FaultInv, OnlyFaultsReload
<1>2. Shape /\ FaultInv /\ [Next]_vars => FaultInv'
  <2> SUFFICES ASSUME Shape, FaultInv, [Next]_vars PROVE FaultInv'
    OBVIOUS
  <2> USE BoundAssumption DEF FaultInv, OnlyFaultsReload, serverVars, clientVars
  <2>1. attempts \in Nat /\ faults \in Nat /\ MaxAttempts \in Nat /\ gone \subseteq Stream
    BY DEF Shape, TypeOK
  <2>2. ASSUME NEW s \in Stream, Deliver(s) \/ SourceFails(s) \/ SequenceEnds(s)
        PROVE  FaultInv'
    <3>1. UNCHANGED << gone, clientVars, faults >>
      BY <2>2 DEF Deliver, SourceFails, SequenceEnds
    <3>2. \A t \in Stream : sent[t] # "nothing" => sent'[t] # "nothing"
      BY <2>1, <2>2 DEF Deliver, SourceFails, SequenceEnds, Put, Shape, TypeOK
    <3>3. phase = "reading" => reading \in Stream
      BY DEF Shape, TypeOK
    <3> QED BY <2>1, <3>1, <3>2, <3>3
  <2>3. ASSUME NEW s \in Stream, SourceEnds(s) \/ ContextEnds(s) PROVE FaultInv'
    BY <2>3 DEF SourceEnds, ContextEnds
  <2>4. ASSUME NEW s \in Stream, Cut(s) PROVE FaultInv'
    BY <2>1, <2>4 DEF Cut
  <2>5. ASSUME NEW s \in Stream, Leave(s) PROVE FaultInv'
    BY <2>1, <2>5 DEF Leave, Stops
  <2>6. ASSUME NEW s \in Stream, Forget(s) PROVE FaultInv'
    BY <2>1, <2>6 DEF Forget, Shape, TypeOK
  <2>7. CASE Deploy \/ Reopen \/ Unavailable \/ Close
    BY <2>7 DEF Deploy, Reopen, Unavailable, Close, Stops
  <2>8. CASE Refused
    <3>1. /\ faults' = faults + 1 /\ UNCHANGED << gone, sent >>
          /\ phase = "opening" /\ Faulted
      BY <2>8 DEF Refused
    <3> QED BY <2>1, <3>1 DEF Faulted, Stops, Pauses
  <2>9. ASSUME NEW s \in Stream, Accepted(s) PROVE FaultInv'
    BY <2>1, <2>9 DEF Accepted, Shape, TypeOK
  <2>10. ASSUME NEW s \in Stream, ReadRecord(s) PROVE FaultInv'
    BY <2>10 DEF ReadRecord
  <2>11. ASSUME NEW s \in Stream, ReadEnd(s) PROVE FaultInv'
    <3>1. /\ phase = "reading" /\ wire[s] # << >>
          /\ gone' = gone \cup {s} /\ UNCHANGED sent
      BY <2>11 DEF ReadEnd, Arrived
    <3>2. sent[s] # "nothing" /\ Head(wire[s]) \in Record
      BY <3>1, TailKeepsShape DEF Shape, TypeOK
    <3>3. verdict = "none"
      BY <3>1 DEF Shape, TypeOK
    <3>4. /\ phase' # "reading" /\ attempts' <= faults'
          /\ verdict' = "reloaded" => faults' >= MaxAttempts
      <4>1. CASE ~stopped /\ unapplied
        <5>1. Faulted /\ faults' = faults + 1
          BY <2>11, <4>1 DEF ReadEnd
        <5>2. attempts' \in Nat
          BY <3>1, <5>1, FaultKeepsShape
        <5> QED BY <2>1, <3>1, <5>1, <5>2, FaultKeepsShape
      <4>2. CASE stopped \/ ~unapplied
        BY <2>1, <2>11, <3>2, <3>3, <4>2 DEF ReadEnd, Stops, Pauses, Record
      <4> QED BY <4>1, <4>2
    <3> QED BY <3>1, <3>2, <3>4
  <2>12. ASSUME NEW s \in Stream, Lost(s) PROVE FaultInv'
    <3>1. /\ phase = "reading" /\ reading = s /\ s \in gone /\ Faulted
          /\ UNCHANGED << gone, sent, faults >>
      BY <2>12 DEF Lost
    <3> QED BY <2>1, <3>1 DEF Faulted, Stops, Pauses
  <2>13. CASE Finished \/ UNCHANGED vars
    BY <2>13 DEF Finished, vars
  <2> QED
    BY <2>2, <2>3, <2>4, <2>5, <2>6, <2>7, <2>8, <2>9, <2>10, <2>11, <2>12, <2>13
       DEF Next, Response, Session
<1>3. FaultInv => OnlyFaultsReload
  BY DEF FaultInv
<1> QED
  BY <1>1, <1>2, <1>3, ShapeHolds, PTL DEF Spec

-----------------------------------------------------------------------------
(* DoneMeansFinished.                                                      *)

\* The terminator that says so is written when no source is active, and none
\* becomes active in that response again.
DoneInv == \A s \in Stream : \A i \in 1 .. Len(wire[s]) : wire[s][i] = "done" => active[s] = 0

\* A record that is put is the last of its response, and none of another.
LEMMA PutKeepsDone ==
  ASSUME Shape, DoneInv, NEW s \in Stream, NEW kind, NEW record \in Record,
         Put(s, kind, record), UNCHANGED active, record = "done" => active[s] = 0
  PROVE  DoneInv'
<1>1. CASE UNCHANGED wire
  BY <1>1 DEF DoneInv
<1>2. CASE wire' = [wire EXCEPT ![s] = Append(@, record)]
  <2>1. wire'[s] = Append(wire[s], record) /\ \A t \in Stream \ {s} : wire'[t] = wire[t]
    BY <1>2 DEF Shape
  <2>2. wire[s] \in Seq(Record)
    BY DEF Shape
  <2>3. ASSUME NEW i \in 1 .. Len(Append(wire[s], record)), Append(wire[s], record)[i] = "done"
        PROVE  active[s] = 0
    <3>1. CASE i = Len(wire[s]) + 1
      BY <2>2, <2>3, <3>1
    <3>2. CASE i \in 1 .. Len(wire[s])
      BY <2>2, <2>3, <3>2 DEF DoneInv
    <3> QED BY <2>2, <3>1, <3>2
  <2> QED BY <2>1, <2>3 DEF DoneInv
<1> QED BY <1>1, <1>2 DEF Put

\* Only the end of every source is told as done, so a lifetime bound, a shutdown
\* or a deploy never stops a client that still has something to receive.
THEOREM DoneIsDone == Spec => DoneMeansFinished
<1>1. Init => DoneInv
  BY DEF Init, DoneInv
<1>2. Shape /\ DoneInv /\ [Next]_vars => DoneInv'
  <2> SUFFICES ASSUME Shape, DoneInv, [Next]_vars PROVE DoneInv'
    OBVIOUS
  <2> USE DEF serverVars
  <2>1. ASSUME NEW s \in Stream, Deliver(s) PROVE DoneInv'
    <3>1. CASE s \in broken
      BY <2>1, <3>1 DEF Deliver, DoneInv
    <3>2. CASE s \notin broken
      BY <2>1, <3>2, PutKeepsDone DEF Deliver, Record
    <3> QED BY <3>1, <3>2
  <2>2. ASSUME NEW s \in Stream, SourceFails(s) PROVE DoneInv'
    BY <2>2, PutKeepsDone DEF SourceFails, Record
  <2>3. ASSUME NEW s \in Stream, SequenceEnds(s) PROVE DoneInv'
    <3>1. Reason(s) \in Record /\ (Reason(s) = "done" => active[s] = 0)
      BY <2>3 DEF SequenceEnds, Reason, Record
    <3> QED BY <2>3, <3>1, PutKeepsDone DEF SequenceEnds
  <2>4. ASSUME NEW s \in Stream, SourceEnds(s) PROVE DoneInv'
    <3>1. active[s] # 0 /\ active' = [active EXCEPT ![s] = @ - 1] /\ UNCHANGED wire
      BY <2>4 DEF SourceEnds
    <3> QED BY <3>1 DEF DoneInv, Shape, TypeOK
  <2>5. ASSUME NEW s \in Stream, ContextEnds(s) PROVE DoneInv'
    BY <2>5 DEF ContextEnds, DoneInv
  <2>6. ASSUME NEW s \in Stream, Cut(s) \/ Leave(s) \/ ReadEnd(s) PROVE DoneInv'
    <3>1. wire' = [wire EXCEPT ![s] = << >>] /\ UNCHANGED active
      BY <2>6 DEF Cut, Leave, ReadEnd
    <3>2. wire'[s] = << >> /\ \A t \in Stream \ {s} : wire'[t] = wire[t]
      BY <3>1 DEF Shape
    <3> QED BY <3>1, <3>2 DEF DoneInv
  <2>7. ASSUME NEW s \in Stream, Forget(s) \/ Accepted(s) PROVE DoneInv'
    <3>1. wire[s] = << >> /\ UNCHANGED wire
      BY <2>7 DEF Forget, Accepted, Shape, TypeOK
    <3>2. \A t \in Stream \ {s} : active'[t] = active[t]
      BY <2>7 DEF Forget, Accepted, Shape, TypeOK
    <3> QED BY <3>1, <3>2 DEF DoneInv
  <2>8. ASSUME NEW s \in Stream, ReadRecord(s) PROVE DoneInv'
    <3>1. /\ wire[s] # << >> /\ UNCHANGED active
          /\ wire' = [wire EXCEPT ![s] = Tail(@)]
      BY <2>8 DEF ReadRecord, Arrived
    <3>2. wire'[s] = Tail(wire[s]) /\ \A t \in Stream \ {s} : wire'[t] = wire[t]
      BY <3>1 DEF Shape
    <3>3. \A i \in 1 .. Len(Tail(wire[s])) :
            i + 1 \in 1 .. Len(wire[s]) /\ Tail(wire[s])[i] = wire[s][i + 1]
      BY <3>1, TailKeepsShape DEF Shape
    <3> QED BY <3>1, <3>2, <3>3 DEF DoneInv
  <2>9. ASSUME NEW s \in Stream, Lost(s) PROVE DoneInv'
    BY <2>9 DEF Lost, DoneInv
  <2>10. CASE Deploy \/ Reopen \/ Refused \/ Unavailable \/ Close
    BY <2>10 DEF Deploy, Reopen, Refused, Unavailable, Close, DoneInv
  <2>11. CASE Finished \/ UNCHANGED vars
    BY <2>11 DEF Finished, vars, DoneInv
  <2> QED
    BY <2>1, <2>2, <2>3, <2>4, <2>5, <2>6, <2>7, <2>8, <2>9, <2>10, <2>11
       DEF Next, Response, Session
<1>3. Shape /\ DoneInv /\ [Next]_vars
        => [verdict' = "done" /\ verdict # "done" => active[reading] = 0]_vars
  <2> SUFFICES ASSUME Shape, DoneInv, Next, verdict' = "done", verdict # "done"
               PROVE  active[reading] = 0
    OBVIOUS
  <2>1. PICK s \in Stream : ReadEnd(s)
    <3> USE DEF serverVars, clientVars, Stops, Pauses, Faulted
    <3>1. ASSUME NEW s \in Stream, Response(s) PROVE FALSE
      BY <3>1 DEF Response, Deliver, SourceEnds, SourceFails, SequenceEnds, ContextEnds,
                  Cut, Leave, Forget
    <3>2. CASE Deploy \/ Reopen \/ Refused \/ Unavailable \/ Close \/ Finished
      BY <3>2 DEF Deploy, Reopen, Refused, Unavailable, Close, Finished, vars
    <3>3. ASSUME NEW s \in Stream, Accepted(s) \/ ReadRecord(s) \/ Lost(s) PROVE FALSE
      BY <3>3 DEF Accepted, ReadRecord, Lost
    <3> QED BY <3>1, <3>2, <3>3 DEF Next, Session
  <2>2. reading = s /\ wire[s] # << >> /\ Head(wire[s]) = "done"
    BY <2>1 DEF ReadEnd, Arrived, Stops, Pauses, Faulted
  <2>3. wire[s] \in Seq(Record) /\ Head(wire[s]) = wire[s][1] /\ 1 \in 1 .. Len(wire[s])
    BY <2>2 DEF Shape
  <2> QED BY <2>2, <2>3 DEF DoneInv
<1> QED
  BY <1>1, <1>2, <1>3, ShapeHolds, PTL DEF Spec, DoneMeansFinished

=============================================================================
