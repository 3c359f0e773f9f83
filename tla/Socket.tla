-------------------------------- MODULE Socket --------------------------------
(***************************************************************************)
(* A typed WebSocket: Socket and ServeSocket of internal/bindcore/socket.go *)
(* over a driver connection, and the transport entry that closes it        *)
(* (httpbind/websocket.go, fasthttpbind/websocket.go).                     *)
(*                                                                         *)
(* The callback runs in the goroutine ServeSocket was called in, a pinger  *)
(* beside it, and other goroutines broadcast to the socket.  Frames go out *)
(* under a mutex; the closed flag is an atomic that is moved outside it.   *)
(*                                                                         *)
(* The specification's parts are named after the module, so that theorems  *)
(* about it can stand beside those about another.                          *)
(***************************************************************************)
EXTENDS Naturals, Sequences, FiniteSets

CONSTANTS
  Other,    \* goroutines that hold the socket besides its callback
  Closers,  \* those among them that call Close, as the callback may
  Refuses,  \* whether the driver's own read limit is met
  Breaks,   \* whether an encoder can fail
  MaxCalls  \* bound: frames the driver is asked for

ASSUME SocketAssumption ==
  /\ {"handler", "pinger", "driver", "free"} \cap Other = {}
  /\ Closers \subseteq Other
  /\ {Refuses, Breaks} \subseteq BOOLEAN
  /\ MaxCalls \in Nat

Writer    == Other \cup {"handler"}
Goroutine == Writer \cup {"pinger"}

VARIABLES
  conn,   \* the driver connection: "open" or "closed"
  closed, \* Socket.closed
  lock,   \* who holds Socket.mu, or "free"
  pc,     \* what each goroutine is doing
  stop,   \* the channel ServeSocket closes on return
  calls   \* the frames the driver was asked for, and its own

socketVars == << conn, closed, lock, pc, stop, calls >>

Home(t) == IF t = "handler" THEN "callback" ELSE "idle"

Goto(t, next) == pc' = [pc EXCEPT ![t] = next]

Ask(t, kind) == calls' = Append(calls, [kind |-> kind, by |-> t])

SocketInit ==
  /\ conn = "open" /\ closed = FALSE
  /\ lock = "free"
  /\ pc = [t \in Goroutine |-> Home(t)]
  /\ stop = FALSE
  /\ calls = << >>

-----------------------------------------------------------------------------
(* Write, by any goroutine.                                                *)

\* Mutant: the flag is not asked once the lock is held.
StartWrite_Unchecked(t) ==
  /\ pc[t] = Home(t) /\ lock = "free"
  /\ Len(calls) < MaxCalls
  /\ lock' = t /\ Goto(t, "encoding")
  /\ UNCHANGED << conn, closed, stop, calls >>

\* The lock is taken, the flag asked and the frame opened. On a closed socket
\* Write returns an error and changes nothing.
StartWrite(t) ==
  /\ pc[t] = Home(t) /\ lock = "free" /\ ~closed
  /\ Len(calls) < MaxCalls
  /\ lock' = t /\ Goto(t, "encoding")
  /\ UNCHANGED << conn, closed, stop, calls >>

\* The message goes out, or its write deadline passes. When the encoder fails
\* the frame is closed all the same, over what the encoder had written.
FinishWrite(t) ==
  /\ pc[t] = "encoding"
  /\ \/ Ask(t, "message")
     \/ Breaks /\ Ask(t, "part")
     \/ UNCHANGED calls
  /\ lock' = "free" /\ Goto(t, Home(t))
  /\ UNCHANGED << conn, closed, stop >>

-----------------------------------------------------------------------------
(* Close and closeTooBig: the flag first, then the frame under the lock.   *)

\* The swap of the flag, which one caller wins.
Mark(t) ==
  /\ ~closed
  /\ closed' = TRUE
  /\ Goto(t, IF pc[t] = "ending" THEN "closing" ELSE "telling")
  /\ UNCHANGED << conn, lock, stop, calls >>

Close(t) == t \in Closers \cup {"handler"} /\ pc[t] = Home(t) /\ Mark(t)

SendClose(t) ==
  /\ pc[t] \in {"telling", "closing"} /\ lock = "free"
  /\ Ask(t, "close")
  /\ Goto(t, IF pc[t] = "closing" THEN "returning" ELSE Home(t))
  /\ UNCHANGED << conn, closed, lock, stop >>

-----------------------------------------------------------------------------
(* Read, and the callback around it.                                       *)

StartRead ==
  /\ pc["handler"] = "callback" /\ ~closed
  /\ Goto("handler", "reading")
  /\ UNCHANGED << conn, closed, lock, stop, calls >>

\* A message, a refused one, the peer's close or the read deadline.
ReadReturns ==
  /\ pc["handler"] = "reading"
  /\ Goto("handler", "callback")
  /\ UNCHANGED << conn, closed, lock, stop, calls >>

\* The message is over the limit: closeTooBig, unless the socket is closed.
TooBig == pc["handler"] = "reading" /\ Mark("handler")

\* The driver's own limit: it sends its close frame and fails the read.
DriverRefuses ==
  /\ Refuses /\ pc["handler"] = "reading"
  /\ Ask("driver", "close")
  /\ Goto("handler", "refused")
  /\ UNCHANGED << conn, closed, lock, stop >>

\* readError marks the socket closed.
MarkRefused ==
  /\ pc["handler"] = "refused"
  /\ closed' = TRUE
  /\ Goto("handler", "callback")
  /\ UNCHANGED << conn, lock, stop, calls >>

-----------------------------------------------------------------------------
(* ServeSocket.                                                            *)

CallbackReturns ==
  /\ pc["handler"] = "callback"
  /\ Goto("handler", "ending")
  /\ UNCHANGED << conn, closed, lock, stop, calls >>

\* Mutant: nothing is closed behind a callback.
ServeCloses_Never ==
  /\ pc["handler"] = "ending"
  /\ Goto("handler", "returning")
  /\ UNCHANGED << conn, closed, lock, stop, calls >>

\* Its own Close, which returns at once when the flag is already set.
ServeCloses ==
  /\ pc["handler"] = "ending"
  /\ \/ Mark("handler")
     \/ /\ closed
        /\ Goto("handler", "returning")
        /\ UNCHANGED << conn, closed, lock, stop, calls >>

\* Mutant: the pinger is not stopped.
ServeReturns_LeavesPinger ==
  /\ pc["handler"] = "returning"
  /\ Goto("handler", "returned")
  /\ UNCHANGED << conn, closed, lock, stop, calls >>

ServeReturns ==
  /\ pc["handler"] = "returning"
  /\ stop' = TRUE
  /\ Goto("handler", "returned")
  /\ UNCHANGED << conn, closed, lock, calls >>

\* The transport entry closes the connection.
TransportCloses ==
  /\ pc["handler"] = "returned"
  /\ conn' = "closed"
  /\ Goto("handler", "over")
  /\ UNCHANGED << closed, lock, stop, calls >>

\* Mutant: the ping does not take the lock.
Ping_Unlocked ==
  /\ pc["pinger"] = "idle"
  /\ \/ /\ ~closed /\ Len(calls) < MaxCalls
        /\ Ask("pinger", "ping")
        /\ UNCHANGED pc
     \/ /\ closed
        /\ Goto("pinger", "over")
        /\ UNCHANGED calls
  /\ UNCHANGED << conn, closed, lock, stop >>

\* A tick. The pinger ends with the first ping that fails.
Ping ==
  /\ pc["pinger"] = "idle" /\ lock = "free"
  /\ \/ /\ ~closed /\ Len(calls) < MaxCalls
        /\ Ask("pinger", "ping")
        /\ UNCHANGED pc
     \/ /\ Goto("pinger", "over")
        /\ UNCHANGED calls
  /\ UNCHANGED << conn, closed, lock, stop >>

StopPinging ==
  /\ pc["pinger"] = "idle" /\ stop
  /\ Goto("pinger", "over")
  /\ UNCHANGED << conn, closed, lock, stop, calls >>

-----------------------------------------------------------------------------

Callback == StartRead \/ ReadReturns \/ TooBig \/ DriverRefuses \/ MarkRefused
              \/ CallbackReturns

Ending == ServeCloses \/ ServeReturns \/ TransportCloses

Pinger == Ping \/ StopPinging

\* The connection is gone, and nobody holds a frame or waits to send one.
Over == /\ conn = "closed" /\ lock = "free"
        /\ pc["pinger"] = "over"
        /\ \A t \in Other : pc[t] = "idle"

Finished == Over /\ UNCHANGED socketVars

SocketNext ==
  \/ \E t \in Writer : StartWrite(t) \/ FinishWrite(t) \/ Close(t) \/ SendClose(t)
  \/ Callback
  \/ Ending
  \/ Pinger
  \/ Finished

SocketSpec == SocketInit /\ [][SocketNext]_socketVars

\* The write deadline ends every write, so the lock is always given back; the
\* goroutines that can go on do. A callback may stay as long as it likes.
SocketFairness ==
  /\ \A t \in Writer : WF_socketVars(FinishWrite(t)) /\ SF_socketVars(SendClose(t))
  /\ WF_socketVars(MarkRefused) /\ WF_socketVars(Ending) /\ WF_socketVars(StopPinging)

-----------------------------------------------------------------------------
(* Properties *)

\* The shape of the state, and that the lock is held by who has a frame open.
SocketTypeOK ==
  /\ conn \in {"open", "closed"}
  /\ closed \in BOOLEAN /\ stop \in BOOLEAN
  /\ lock \in Writer \cup {"free"}
  /\ \A t \in Writer : lock = t <=> pc[t] = "encoding"
  /\ pc \in [Goroutine -> { "idle", "callback", "encoding", "telling", "closing",
                            "reading", "refused", "ending", "returning",
                            "returned", "over" }]
  /\ calls \in Seq([kind : {"message", "part", "ping", "close"},
                    by : Goroutine \cup {"driver"}])

Encoding == { t \in Writer : pc[t] = "encoding" }

\* Every frame of the socket goes out while no other goroutine has a message
\* open: a broadcast cannot interleave with a message, nor either with a ping or
\* a close frame.
FramesDoNotInterleave ==
  [][ calls' # calls /\ calls'[Len(calls')].by # "driver" =>
        Encoding \subseteq {calls'[Len(calls')].by} ]_calls

OwnClose(i) == calls[i].kind = "close" /\ calls[i].by # "driver"

\* A close frame of the socket is the last frame it asks for. A message that was
\* open when Close was called is finished before it, and nothing follows.
CloseFrameIsLast ==
  \A i, j \in DOMAIN calls : OwnClose(i) /\ i < j => calls[j].by = "driver"

\* A connection is closed behind a close frame, or while the goroutine whose
\* Close won has yet to send it.
SomebodyTells ==
  conn = "closed" => \/ \E i \in DOMAIN calls : calls[i].kind = "close"
                     \/ \E t \in Other : pc[t] = "telling"

\* Once the callback returned, the connection is closed and every goroutine of
\* the socket is done with it, however slow the peer.
ServeEnds == pc["handler"] = "ending" ~> Over
=============================================================================
