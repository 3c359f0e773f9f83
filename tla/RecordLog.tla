------------------------------ MODULE RecordLog ------------------------------
(***************************************************************************)
(* What a client may rely on of a record stream, whoever writes it: the    *)
(* head comes first, at most one terminator follows, and nothing follows   *)
(* the terminator.  A stream may stop anywhere, which is what the          *)
(* terminator is there to tell.  One state per response: the kind of the   *)
(* last record that was written.                                           *)
(***************************************************************************)
CONSTANT Stream

VARIABLE sent

Kinds == {"nothing", "head", "body", "end"}

Init == sent = [s \in Stream |-> "nothing"]

Open(s) ==
  /\ sent[s] = "nothing"
  /\ sent' = [sent EXCEPT ![s] = "head"]

Write(s) ==
  /\ sent[s] \in {"head", "body"}
  /\ sent' = [sent EXCEPT ![s] = "body"]

End(s) ==
  /\ sent[s] \in {"head", "body"}
  /\ sent' = [sent EXCEPT ![s] = "end"]

(* The response is over, and the stream stands for another one.             *)
Forget(s) == sent' = [sent EXCEPT ![s] = "nothing"]

Next == \E s \in Stream : Open(s) \/ Write(s) \/ End(s) \/ Forget(s)

Spec == Init /\ [][Next]_sent

=============================================================================
