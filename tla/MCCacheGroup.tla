---------------------------- MODULE MCCacheGroup ----------------------------
(* Templates around a cached card that awaits its body, in which another    *)
(* boundary is nested, and holds a cached badge that awaits its count.      *)
EXTENDS CacheGroup

CONSTANTS page, body, inner, total, card, badge

Enter(c)   == [op |-> "enter", node |-> c]
LeaveOp(c) == [op |-> "leave", node |-> c]
Open(b)    == [op |-> "await", node |-> b]

\* The card stands in the subtree of another boundary.
Nested ==
  [g \in Runner |->
     CASE g = "document" -> << Open(page) >>
       [] g = page -> << Enter(card), Open(body), Enter(badge), Open(total),
                         LeaveOp(badge), LeaveOp(card) >>
       [] g = body -> << Open(inner) >>
       [] OTHER -> << >>]

\* A badge inside the subtree a card awaits.
Within ==
  [g \in Runner |->
     CASE g = "document" -> << Open(page), Enter(card), Open(body), LeaveOp(card) >>
       [] g = body -> << Enter(badge), Open(total), LeaveOp(badge) >>
       [] OTHER -> << >>]

\* A card inside the subtree of a boundary, before another one, which it shifts.
Ahead ==
  [g \in Runner |->
     CASE g = "document" -> << Open(body) >>
       [] g = body -> << Enter(card), Open(total), LeaveOp(card), Open(page) >>
       [] OTHER -> << >>]

Case(ops, failing, streamed, times) ==
  [ops |-> ops, recovers |-> failing, streaming |-> streamed, renders |-> times]

\* The streaming entry over each template, and the synchronous one without
\* recover subtrees.
Sound == { Case(Nested, {body, total}, TRUE, 1), Case(Within, {body}, TRUE, 1),
           Case(Ahead, {body}, TRUE, 2), Case(Nested, {}, FALSE, 1) }
=============================================================================
