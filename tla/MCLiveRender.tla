---------------------------- MODULE MCLiveRender ----------------------------
(* Clauses of two bindings: two sources that go on, or one beside a binding  *)
(* that settles once.                                                        *)
EXTENDS LiveRender, TLC

CONSTANTS ticker, chat

TwoSources == (ticker :> "live") @@ (chat :> "live")
Mixed      == (ticker :> "live") @@ (chat :> "once")
Deaf       == (ticker :> "live") @@ (chat :> "deaf")

Live(kind, content, recovers) ==
  [kind |-> kind, nested |-> content, entry |-> "live", deadline |-> FALSE, recovers |-> recovers]

Document(over, kind, content, recovers) ==
  [kind |-> kind, nested |-> content, entry |-> over, deadline |-> TRUE, recovers |-> recovers]

\* What a clause and an entry can be.
All == { Live(TwoSources, "await", TRUE), Live(Mixed, "await", FALSE),
         Live(Mixed, "live", TRUE), Document("document", Mixed, "await", TRUE),
         Document("document", Deaf, "none", FALSE),
         Document("sync", Mixed, "await", FALSE), Document("sync", Mixed, "live", TRUE) }

Superseding == { Live(TwoSources, "await", TRUE) }
=============================================================================
