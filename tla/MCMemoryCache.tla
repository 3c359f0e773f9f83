--------------------------- MODULE MCMemoryCache ---------------------------
(* Three keys over a cache of two entries: every further write evicts one.   *)
EXTENDS MemoryCache

CONSTANTS a, b, c
=============================================================================
