---------------------------- MODULE MCLiveSession ----------------------------
(* Live delivery offered or not, by a transport that sees the page leave or not. *)
EXTENDS LiveSession

Channels == [live : BOOLEAN, told : BOOLEAN]
=============================================================================
