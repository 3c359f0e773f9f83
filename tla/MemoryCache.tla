---------------------------- MODULE MemoryCache ----------------------------
(***************************************************************************)
(* The in-process CacheStore of htmlbind/cache.go: Get, Set and compact    *)
(* under one lock, so each is one step. The age queue is a slice read from *)
(* head, whose slots name a key at the generation it was written.          *)
(*                                                                         *)
(* A value is named by the write that set it.  The last write of every key *)
(* is kept beside the store, for the properties only.                      *)
(***************************************************************************)
EXTENDS Naturals, Sequences, FiniteSets

CONSTANTS
  Key,
  Limit,     \* NewMemoryCache's maxEntries; 0 is unbounded
  Slack,     \* the slots compact tolerates; 16 in the code
  MaxTTL,    \* bound: the longest ttl
  MaxWrites, \* bound: calls of Set
  MaxClock   \* bound: the instants of the clock

ASSUME SizeAssumption == {Limit, Slack, MaxTTL, MaxWrites, MaxClock} \subseteq Nat

VARIABLES
  entries,  \* the map: a set of entries, one for each key at most
  order,    \* the age queue
  head,     \* slots popped off its front
  nextSeq,
  clock,
  last,     \* the last write of each key; seq 0 is none
  answer    \* what a Get answers, until something else happens; seq 0 is a miss

vars == << entries, order, head, nextSeq, clock, last, answer >>

Entry == [key : Key, expires : Nat, seq : Nat]
Slot  == [key : Key, seq : Nat]

SlotOf(e) == [key |-> e.key, seq |-> e.seq]

Init ==
  /\ entries = {} /\ order = << >> /\ head = 0
  /\ nextSeq = 0 /\ clock = 0
  /\ last = [k \in Key |-> [seq |-> 0, expires |-> 0]] /\ answer = {}

\* compact's threshold over the map m and the queue q read from h.
Crowded(m, q, h) == Len(q) - h > 2 * Cardinality(m) + Slack

\* The elements of q at the indices kept, in their order.
Picked(q, kept) ==
  [n \in 1 .. Cardinality(kept) |->
     q[CHOOSE i \in kept : Cardinality({ j \in kept : j <= i }) = n]]

\* Mutant: the slot at head is skipped.
Live_SkipsHead(m, q, h) ==
  Picked(q, { i \in h + 2 .. Len(q) : \E e \in m : SlotOf(e) = q[i] })

\* The slots from h on that name an entry of the map m.
Live(m, q, h) == Picked(q, { i \in h + 1 .. Len(q) : \E e \in m : SlotOf(e) = q[i] })

\* The queue is rebuilt once most of it names no live entry.
compact(m, q, h) ==
  IF Crowded(m, q, h)
  THEN order' = Live(m, q, h) /\ head' = 0
  ELSE order' = q /\ head' = h

\* Mutant: an entry is still served at the instant it expires.
Fresh_Inclusive(e) == clock <= e.expires

Fresh(e) == clock < e.expires

Get(k) ==
  LET found == { e \in entries : e.key = k }
      dead  == { e \in found : ~Fresh(e) }
  IN /\ entries' = entries \ dead
     /\ IF dead = {} THEN UNCHANGED << order, head >>
        ELSE compact(entries', order, head)
     /\ \/ /\ found \ dead = {}
           /\ answer' = { [key |-> k, seq |-> 0] }
        \/ \E e \in found \ dead : answer' = { SlotOf(e) }
     /\ UNCHANGED << nextSeq, clock, last >>

\* Mutant: a popped slot evicts whatever its key holds now.
Evicts_ByKey(slot, e) == slot.key = e.key

\* A popped slot evicts the entry it was written for, and no later one.
Evicts(slot, e) == slot = SlotOf(e)

\* What is left of the map m once the slots of q up to h were popped.
Left(m, q, h) == { e \in m : \A i \in head + 1 .. h : ~Evicts(q[i], e) }

\* Set with a positive ttl. The loop pops slots until the bound holds or the
\* queue is empty.
Set(k, ttl) ==
  /\ nextSeq < MaxWrites
  /\ nextSeq' = nextSeq + 1
  /\ LET e == [key |-> k, expires |-> clock + ttl, seq |-> nextSeq + 1]
         m == { x \in entries : x.key # k } \cup {e}
         q == Append(order, SlotOf(e))
         Stops(h) == Limit = 0 \/ Cardinality(Left(m, q, h)) <= Limit \/ h = Len(q)
     IN \E h \in head .. Len(q) :
          /\ Stops(h) /\ \A x \in head .. h - 1 : ~Stops(x)
          /\ entries' = Left(m, q, h)
          /\ compact(entries', q, h)
  /\ last' = [last EXCEPT ![k] = [seq |-> nextSeq + 1, expires |-> clock + ttl]]
  /\ answer' = {} /\ UNCHANGED clock

Tick == /\ clock < MaxClock /\ clock' = clock + 1
        /\ answer' = {} /\ UNCHANGED << entries, order, head, nextSeq, last >>

Next == \/ \E k \in Key : Get(k)
        \/ \E k \in Key, ttl \in 1 .. MaxTTL : Set(k, ttl)
        \/ Tick

Spec == Init /\ [][Next]_vars

-----------------------------------------------------------------------------
(* Properties *)

TypeOK ==
  /\ entries \subseteq Entry
  /\ order \in Seq(Slot)
  /\ head \in 0 .. Len(order)
  /\ nextSeq \in Nat /\ clock \in Nat
  /\ last \in [Key -> [seq : Nat, expires : Nat]]
  /\ answer \subseteq Slot

\* An entry has exactly one slot ahead of head. One without would never be
\* evicted, and a full cache would lose every other entry in its place.
EveryEntryHasItsSlot ==
  \A e \in entries :
    Cardinality({ i \in head + 1 .. Len(order) : order[i] = SlotOf(e) }) = 1

\* The slots ahead of head are in the order they were written, so what is popped
\* first is oldest.
SlotsAreInOrder ==
  \A i, j \in head + 1 .. Len(order) : i < j => order[i].seq < order[j].seq

\* The slots that are still to be popped never outnumber the map by more than
\* compact tolerates. Those that were popped are not counted: see QueueIsBounded.
BacklogIsBounded == Len(order) - head <= 2 * Cardinality(entries) + Slack

\* What is ahead of head is the age queue of the map: one slot for each entry, in
\* the order they were written, and few others.
QueueIsSound ==
  TypeOK /\ EveryEntryHasItsSlot /\ SlotsAreInOrder /\ BacklogIsBounded

\* compact's promise: the queue cannot grow past the map it approximates. This
\* counts the whole slice, with the slots before head.
QueueIsBounded == Len(order) <= 2 * Cardinality(entries) + Slack

\* The keys written after k was.
WrittenAfter(k) == { j \in Key : last[j].seq > last[k].seq }

\* A Get answers the last value set for its key, while it lasts, whatever was
\* rewritten, expired, evicted or compacted before. It misses only a key that was
\* never written, whose last write has expired, or behind whose last write as many
\* other keys were written as the cache holds.
AnswersAreLastWrites ==
  \A a \in answer :
    \/ a.seq # 0 /\ a.seq = last[a.key].seq /\ clock < last[a.key].expires
    \/ a.seq = 0 /\ \/ clock >= last[a.key].expires
                    \/ Limit > 0 /\ Cardinality(WrittenAfter(a.key)) >= Limit

(* The bounded store, without a queue. *)
Store == INSTANCE EvictingStore
           WITH live   <- { [key |-> e.key, number |-> e.seq] : e \in entries },
                writes <- nextSeq

\* Evicting through the queue of generations is evicting the oldest write.
IsEvictingStore == Store!Spec
=============================================================================
