----------------------------- MODULE PathOverlap -----------------------------
(***************************************************************************)
(* Whether two paths overlap (normalise, overlaps and covers,              *)
(* src/claims.rs).  A path is a sequence of characters without blanks      *)
(* around it.                                                              *)
(***************************************************************************)
EXTENDS Naturals, Sequences

\* Without the "./" in front.
Undotted(p) ==
  LET dots == CHOOSE k \in 0..Len(p) :
                /\ 2 * k <= Len(p)
                /\ \A i \in 1..k : p[2 * i - 1] = "." /\ p[2 * i] = "/"
                /\ ~(2 * k + 2 <= Len(p) /\ p[2 * k + 1] = "." /\ p[2 * k + 2] = "/")
  IN SubSeq(p, 2 * dots + 1, Len(p))

\* Without the slashes at the end.
Unslashed(p) ==
  LET last == CHOOSE k \in 0..Len(p) :
                /\ \A i \in (k + 1)..Len(p) : p[i] = "/"
                /\ k > 0 => p[k] # "/"
  IN SubSeq(p, 1, last)

Normalise(p) == Unslashed(Undotted(p))

\* covers(): a directory of the child's path, up to the end of a segment.
Covers(parent, child) ==
  /\ parent # <<>>
  /\ Len(parent) < Len(child)
  /\ \A i \in 1..Len(parent) : child[i] = parent[i]
  /\ child[Len(parent) + 1] = "/"

Overlaps(a, b) ==
  LET x == Normalise(a)  y == Normalise(b) IN
  x = y \/ Covers(x, y) \/ Covers(y, x)

\* A file is in a claimed path: it is the path, or lies below it.
InPath(file, p) == file = p \/ Covers(p, file)
=============================================================================
