-------------------------------- MODULE Delta --------------------------------
(***************************************************************************)
(* htmlbind/delta: what a render tells a browser that already shows an     *)
(* earlier one.                                                            *)
(*                                                                         *)
(* A page is a tree of update boundaries.  The collector that watches the  *)
(* render gives each an entry of the manifest: the digest of its own       *)
(* markup (fallbacks included, nested boundaries and their holes left      *)
(* out), the digest of the ids nested in it, and the boundary around it.   *)
(* The comparison with the manifest the browser sends back yields one      *)
(* record per boundary.  A digest is modelled by what it digests, so two   *)
(* are equal when that is.                                                 *)
(*                                                                         *)
(* A page is a record: kids (the nested boundaries of each, in order),     *)
(* text (a boundary's own markup), slow (the boundaries whose markup has   *)
(* an await boundary in it) and value (what that one settles to).  Where   *)
(* in its own markup a boundary's holes stand is left out: neither digest  *)
(* covers it.                                                              *)
(***************************************************************************)
EXTENDS Naturals, FiniteSets, SequencesExt

CONSTANTS
  Id,      \* instance ids: "c" and a chain position, or the author's own
  Root,    \* the outermost boundary of every page
  Nobody   \* the ParentID of the outermost boundary

ASSUME IdAssumption == Root \in Id /\ Nobody \notin Id

(* The boundaries of a tree, in document order.                             *)
Preorder(kids) ==
  LET walk[i \in Id] ==
        << i >> \o FlattenSeq([k \in DOMAIN kids[i] |-> walk[kids[i][k]]])
  IN  walk[Root]

Instances(page) == ToSet(Preorder(page.kids))

Parent(page, i) ==
  IF i = Root
    THEN Nobody
    ELSE CHOOSE p \in Instances(page) : i \in ToSet(page.kids[p])

Frame(page, i) == [text |-> page.text[i], fenced |-> i \in page.slow]

(* What the collector relies on: ids name one boundary each, and the        *)
(* boundaries open and close nested in one another, so that the walk meets  *)
(* each once, after the one it stands in.                                   *)
IsNested(page) ==
  LET order   == Preorder(page.kids)
      Held(n) == ToSet(page.kids[order[n]])
  IN  /\ page.kids \in [Id -> Seq(Id)] /\ page.slow \subseteq Id
      /\ order \in Seq(Id) /\ IsInjective(order)
      /\ 1 \in DOMAIN order /\ order[1] = Root
      /\ \A n \in DOMAIN order \ {1} : \E m \in DOMAIN order : m < n /\ order[n] \in Held(m)
      /\ \A n \in DOMAIN order : Held(n) \subseteq ToSet(order)
      /\ \A m, n \in DOMAIN order : Held(m) \cap Held(n) # {} => m = n

(* What the collector has of a page once the render returns.                *)
Manifest(page) ==
  [i \in Instances(page) |->
     [frame |-> Frame(page, i), children |-> page.kids[i], parent |-> Parent(page, i)]]

-----------------------------------------------------------------------------
(* A boundary the browser holds is not in the render, and the boundary that *)
(* was around it will not say so.                                           *)
Disappeared(manifest, known) ==
  \E gone \in DOMAIN known \ DOMAIN manifest :
    LET around == known[gone].parent
    IN  \/ around = Nobody
        \/ around \notin DOMAIN manifest
        \/ around \notin DOMAIN known
        \/ manifest[around].frame # known[around].frame

\* Mutant: one digest over the markup and the children.
Kind_Folded(manifest, known, i) ==
  IF i \notin DOMAIN known \/ known[i] # manifest[i] THEN "replace" ELSE "unchanged"

\* Mutant: the children are not compared.
Kind_FrameOnly(manifest, known, i) ==
  IF i \notin DOMAIN known \/ known[i].frame # manifest[i].frame
    THEN "replace"
    ELSE "unchanged"

(* What one boundary is told.                                               *)
Kind(manifest, known, i) ==
  LET forced == Disappeared(manifest, known) /\ manifest[i].parent = Nobody
  IN  IF i \notin DOMAIN known \/ forced \/ known[i].frame # manifest[i].frame
        THEN "replace"
        ELSE IF known[i].children # manifest[i].children THEN "children" ELSE "unchanged"

(* The elements of q at the places kept, in their order.                    *)
Picked(q, kept) ==
  [n \in 1 .. Cardinality(kept) |->
     q[CHOOSE i \in kept : Cardinality({ j \in kept : j <= i }) = n]]

(* The boundaries in the order of their records: those with an operation,   *)
(* in document order, then those that have none.                            *)
Chosen(page, known) ==
  LET order == Preorder(page.kids)
      told  == { n \in DOMAIN order : Kind(Manifest(page), known, order[n]) # "unchanged" }
  IN  Picked(order, told) \o Picked(order, DOMAIN order \ told)

Record(page, known, i) ==
  [r |-> "op", kind |-> Kind(Manifest(page), known, i), id |-> i, entry |-> Manifest(page)[i]]

\* Mutant: nested regions before the region around them.
Records_InnermostFirst(page, known) ==
  LET order == Reverse(Preorder(page.kids))
  IN  [n \in DOMAIN order |-> Record(page, known, order[n])]

(* The records of a streamed delta.                                         *)
Records(page, known) ==
  LET chosen == Chosen(page, known)
  IN  [n \in DOMAIN chosen |-> Record(page, known, chosen[n])]

=============================================================================
