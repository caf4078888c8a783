-------------------------------- MODULE Links --------------------------------
(***************************************************************************)
(* What replaced a note: `amb memory history` walks the table note_links,  *)
(* and `amb memory index` looks in it for chains that cannot be right      *)
(* (src/memory/index.rs history, validate_links).  A link is on the note   *)
(* that was replaced and holds its successor as text: the id that amb      *)
(* writes, or the bare slug that a person may have written.                *)
(***************************************************************************)
EXTENDS Naturals, SequencesExt

CONSTANTS
  Notes,     \* every note a row or a link may be about
  LongId,    \* those whose id names kind, scope and slug: decisions, captures
  MaxSteps,  \* MAX_STEPS
  None       \* no link, no successor

Spellings == {"id", "slug"}
Target == [note: Notes, as: Spellings]

\* The index: a row for some notes, a link for some, also for notes whose row
\* was pruned.
Index == [rows: SUBSET Notes, link: [Notes -> Target \cup {None}],
          status: [Notes -> {"active", "superseded"}]]

-----------------------------------------------------------------------------
\* row(): a text names a note by scope/slug, kind/slug or slug, so that an id
\* of three parts names none.
Names(index, target) ==
  target.note \in index.rows /\ ~(target.as = "id" /\ target.note \in LongId)

Id(n) == [note |-> n, as |-> "id"]
Successor(index, n) == index.link[n]

Steps == [note: Notes, dangling: BOOLEAN]
StepTo(n) == [note |-> n, dangling |-> FALSE]

\* One turn of the forward loop, the steps so far unchanged where it breaks.
Onward(index, n, steps) ==
  LET last == IF steps = <<>> THEN StepTo(n) ELSE Last(steps)
      next == Successor(index, last.note)
  IN  IF last.dangling \/ next = None THEN steps
      ELSE IF ~Names(index, next) THEN Append(steps, [note |-> next.note, dangling |-> TRUE])
      ELSE IF StepTo(next.note) \in ToSet(steps) THEN steps
      ELSE Append(steps, StepTo(next.note))

\* One turn of the backward loop: a link whose text is this id, if there is one.
Replaced(index, n) == {m \in Notes : Successor(index, m) = Id(n)}
Backward(index, n, steps) ==
  LET from == IF steps = <<>> THEN n ELSE Head(steps).note
      found == Replaced(index, from)
      m == CHOOSE m \in found : TRUE
  IN  IF found = {} \/ ~Names(index, Id(m)) \/ StepTo(m) \in ToSet(steps) THEN steps
      ELSE <<StepTo(m)>> \o steps

Descendants(index, n) ==
  LET walk[k \in 0..MaxSteps] == IF k = 0 THEN <<>> ELSE Onward(index, n, walk[k - 1])
  IN  walk[MaxSteps]
Ancestors(index, n) ==
  LET walk[k \in 0..MaxSteps] == IF k = 0 THEN <<>> ELSE Backward(index, n, walk[k - 1])
  IN  walk[MaxSteps]

\* The subject of a history must have a row that its id names.
HistoryFails(index, n) == ~Names(index, Id(n))

-----------------------------------------------------------------------------
(* validate_links(): one pass over the links, in which a history that      *)
(* fails ends the command, and one over the retired notes.                 *)
Linked(index) == {n \in Notes : index.link[n] # None}

ValidationFails(index) == \E n \in Linked(index) : HistoryFails(index, n)

Dangling(index) == {n \in Linked(index) : ~Names(index, index.link[n])}
Contradicting(index) ==
  {n \in Linked(index) \cap index.rows : index.status[n] = "active"}
Cyclic(index) == {n \in Linked(index) : StepTo(n) \in ToSet(Descendants(index, n))}
Orphaned(index) ==
  {n \in index.rows \ Linked(index) : index.status[n] = "superseded"}

Clean(index) ==
  /\ ~ValidationFails(index)
  /\ Dangling(index) \cup Contradicting(index) \cup Cyclic(index) \cup Orphaned(index) = {}

-----------------------------------------------------------------------------
\* The notes that every set closed under succession and holding n's successor
\* has in common.
Follows(index, n) ==
  {m \in Notes :
     \A S \in SUBSET Notes :
       (/\ n \in Linked(index) => index.link[n].note \in S
        /\ \A k \in S \cap Linked(index) : index.link[k].note \in S) => m \in S}

(* A cycle is reported of the notes on it and of no note that only leads   *)
(* into one, provided that each of its links names a note.                 *)
CyclesAreFound(index) ==
  /\ \A n \in Cyclic(index) : n \in Follows(index, n)
  /\ Dangling(index) = {} => Cyclic(index) = {n \in Notes : n \in Follows(index, n)}

(* In an index that is reported clean every retired note leads to one note *)
(* that is active, over retired ones, and its history shows the way.       *)
CleanChainsEndActive(index) ==
  Clean(index) =>
    \A n \in index.rows : index.status[n] = "superseded" =>
      LET chain == Descendants(index, n) IN
      /\ chain # <<>> /\ index.status[Last(chain).note] = "active"
      /\ \A k \in 1..Len(chain) - 1 : index.status[chain[k].note] = "superseded"
      /\ \A k \in DOMAIN chain : ~chain[k].dangling

(* The two walks agree: what a history calls an ancestor of a note has the *)
(* note among what replaced it, cycles included.                           *)
BothWaysAgree(index) ==
  \A n \in Notes : \A step \in ToSet(Ancestors(index, n)) :
    ~HistoryFails(index, n) => StepTo(n) \in ToSet(Descendants(index, step.note))

(* The pass goes through exactly while every link is on a note that has a  *)
(* row and an id of two parts: a retired decision or capture, or a retired *)
(* note whose file and row are gone, ends it with "no such note".          *)
ValidationNeeds(index) ==
  ValidationFails(index) <=> ~(Linked(index) \subseteq index.rows \ LongId)
=============================================================================
