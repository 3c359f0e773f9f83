------------------------------ MODULE MCShared ------------------------------
(***************************************************************************)
(* The values the goroutines of one process share: a cache of components,  *)
(* a socket, the handles that await clauses wait for.  None of them calls  *)
(* another, so each is explored with the others as they were made.         *)
(*                                                                         *)
(* Three keys over a cache of two entries, with few enough slots tolerated *)
(* that rewriting a key reaches a compaction.  The callback, the pinger    *)
(* and two goroutines that broadcast.  A layout and a page that await the  *)
(* same two handles; and a page that awaits the layout's, which a caller   *)
(* may leave unset, beside a call.                                         *)
(***************************************************************************)
EXTENDS MemoryCache, Socket, Bindings, TLC

CONSTANTS a, b, c, hub, echo, user, feed, fetch, layout, page

TheSame == [ binds : { (layout :> << user, feed >>) @@ (page :> << user, feed >>) },
             made  : { made \in [Handle -> {"working", "resolved", "failed"}] :
                         made[user] # "resolved" /\ made[feed] # "failed" } ]

Mixed == [ binds : { (layout :> << user >>) @@ (page :> << user, fetch >>) },
           made  : { made \in [Handle -> {"unset", "working", "resolved"}] :
                       made[user] # "resolved" /\ made[feed] = "resolved" } ]

All == TheSame \cup Mixed

VARIABLE subject  \* the value that is exercised

shared == << subject, vars, socketVars, bindingsVars >>

SharedInit ==
  /\ subject \in {"cache", "socket", "bindings"}
  /\ Init /\ SocketInit /\ BindingsInit
  /\ subject # "bindings" => setting = CHOOSE s \in Setting : TRUE

CacheRuns    == subject = "cache" /\ Next /\ UNCHANGED << socketVars, bindingsVars >>
SocketRuns   == subject = "socket" /\ SocketNext /\ UNCHANGED << vars, bindingsVars >>
BindingsRuns == subject = "bindings" /\ BindingsNext /\ UNCHANGED << vars, socketVars >>

SharedNext == (CacheRuns \/ SocketRuns \/ BindingsRuns) /\ UNCHANGED subject

\* Each is as fair as it is by itself: a value that is not exercised has no step
\* that would have to be taken.
SharedSpec == SharedInit /\ [][SharedNext]_shared /\ SocketFairness /\ BindingsFairness
=============================================================================
