------------------------------ MODULE Nearest ------------------------------
(***************************************************************************)
(* What a sender is told about a destination that may be a slip            *)
(* (src/messages.rs distance, nearest, broadcast_warning, global_reach).   *)
(***************************************************************************)
EXTENDS Integers, SequencesExt

CONSTANTS Nothing, Everyone

Least(a, b) == IF a <= b THEN a ELSE b

(* The edit distance, row by row: row j + 1 holds the distance from what   *)
(* is read of a to the first j characters of b.                            *)
NextRow(row, char, b) ==
  FoldLeft(LAMBDA cur, j :
             Append(cur, Least(Least(row[j] + (IF char = b[j] THEN 0 ELSE 1), Last(cur) + 1),
                               row[j + 1] + 1)),
           <<row[1] + 1>>, [j \in 1..Len(b) |-> j])
Distance(a, b) ==
  Last(FoldLeft(LAMBDA row, char : NextRow(row, char, b), [j \in 1..Len(b) + 1 |-> j - 1], a))

Budget(typed) == IF Len(typed) \div 4 > 2 THEN Len(typed) \div 4 ELSE 2

\* The closest within the budget, if it is alone in that.
NearestTo(typed, known) ==
  LET near == {k \in known : Distance(typed, k) <= Budget(typed)}
      best == {k \in near : \A other \in near : Distance(typed, k) <= Distance(typed, other)}
  IN  IF \E k \in best : best = {k} THEN CHOOSE k \in best : TRUE ELSE Nothing

\* known: the projects on the roster. The reach of a global is others' only.
BroadcastWarning(known, project, mine) ==
  IF project = Everyone
  THEN IF known \subseteq {mine} THEN Nothing
       ELSE [reach |-> Cardinality(known \ {mine}), hint |-> Nothing]
  ELSE IF project \in known THEN Nothing
       ELSE [reach |-> 0, hint |-> NearestTo(project, known)]

-----------------------------------------------------------------------------
\* One character written, dropped or replaced.
Edits(word, letters) ==
  {InsertAt(word, k, c) : k \in 1..Len(word) + 1, c \in letters}
  \cup {RemoveAt(word, k) : k \in DOMAIN word}
  \cup {ReplaceAt(word, k, c) : k \in DOMAIN word, c \in letters}

(* The distance is the least number of edits: nothing is nearer than       *)
(* itself, what is at distance n + 1 is an edit away from something at     *)
(* distance n, and one edit changes the distance by at most one.           *)
DistanceCountsEdits(a, b, letters) ==
  /\ Distance(a, b) = 0 <=> a = b
  /\ Distance(a, b) = Distance(b, a)
  /\ a # b => \E c \in Edits(a, letters) : Distance(c, b) = Distance(a, b) - 1
  /\ \A c \in Edits(a, letters) : Distance(c, b) \in Distance(a, b) - 1..Distance(a, b) + 1

(* A slip of one letter is always named, unless another project is as near *)
(* to what was typed, in which case none is.                               *)
SlipsAreNamed(known, typed, letters) ==
  LET slips == known \cap Edits(typed, letters) IN
  typed \notin known =>
    LET warning == BroadcastWarning(known, typed, typed) IN
    /\ warning # Nothing
    /\ \A k \in slips : slips = {k} => warning.hint = k
    /\ Cardinality(slips) > 1 => warning.hint = Nothing
=============================================================================
