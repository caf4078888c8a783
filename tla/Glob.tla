--------------------------------- MODULE Glob ---------------------------------
(***************************************************************************)
(* How the path lane of the memory layer matches a declared pattern        *)
(* against a file (glob_matches, src/memory/text.rs): a loop that, on a     *)
(* mismatch, goes back to the last star it met and gives it one character  *)
(* more.  A pattern is a sequence of characters and of the two stars.      *)
(***************************************************************************)
EXTENDS Integers, Sequences

CONSTANTS
  Chars,     \* characters
  Slash,     \* the one that separates the segments of a path
  Single,    \* the star that does not span separators
  Double,    \* and the one that does
  Patterns,  \* the patterns declared by notes
  Files      \* the paths of the files they are matched with

\* What the constants are.
GlobConstants ==
  /\ Slash \in Chars
  /\ Single \notin Chars /\ Double \notin Chars /\ Single # Double
  /\ Patterns \subseteq Seq(Chars \cup {Single, Double})
  /\ Files \subseteq Seq(Chars)

VARIABLES
  pattern,
  file,
  pi,    \* how much of the pattern is consumed
  si,    \* how much of the file's path
  star,  \* the last star: what was consumed up to it and by it
  pc

vars == <<pattern, file, pi, si, star, pc>>

IsStar(t) == t \in {Single, Double}
NoStar == [pi |-> 0, si |-> 0]

-----------------------------------------------------------------------------
Init ==
  /\ pattern \in Patterns /\ file \in Files
  /\ pi = 0 /\ si = 0 /\ star = NoStar
  /\ pc = "matching"

More == pc = "matching" /\ si < Len(file)
Expects(t) == pi < Len(pattern) /\ pattern[pi + 1] = t

TakeStar ==
  /\ More
  /\ \E t \in {Single, Double} : Expects(t)
  /\ pi' = pi + 1
  /\ star' = [pi |-> pi + 1, si |-> si]
  /\ UNCHANGED <<pattern, file, si, pc>>

TakeChar ==
  /\ More
  /\ Expects(file[si + 1])
  /\ pi' = pi + 1 /\ si' = si + 1
  /\ UNCHANGED <<pattern, file, star, pc>>

Mismatch == More /\ ~\E t \in {Single, Double, file[si + 1]} : Expects(t)

\* There is a star, and it may have the next character of the path.
MayResume ==
  /\ star # NoStar
  /\ pattern[star.pi] = Double \/ file[star.si + 1] # Slash

Resume ==
  /\ Mismatch /\ MayResume
  /\ pi' = star.pi /\ si' = star.si + 1
  /\ star' = [star EXCEPT !.si = @ + 1]
  /\ UNCHANGED <<pattern, file, pc>>

GiveUp ==
  /\ Mismatch /\ ~MayResume
  /\ pc' = "no"
  /\ UNCHANGED <<pattern, file, pi, si, star>>

\* The path is used up: what is left of the pattern must be stars.
TrailingStar ==
  /\ pc = "matching" /\ si = Len(file)
  /\ \E t \in {Single, Double} : Expects(t)
  /\ pi' = pi + 1
  /\ UNCHANGED <<pattern, file, si, star, pc>>

Return ==
  /\ pc = "matching" /\ si = Len(file)
  /\ ~\E t \in {Single, Double} : Expects(t)
  /\ pc' = IF pi = Len(pattern) THEN "yes" ELSE "no"
  /\ UNCHANGED <<pattern, file, pi, si, star>>

Next == TakeStar \/ TakeChar \/ Resume \/ GiveUp \/ TrailingStar \/ Return

Spec == Init /\ [][Next]_vars

-----------------------------------------------------------------------------
\* What one element of the pattern may stand for: the path from i to j.
StandsFor(t, f, i, j) ==
  IF IsStar(t) THEN i <= j /\ (t = Single => \A x \in (i + 1)..j : f[x] # Slash)
  ELSE j = i + 1 /\ f[j] = t

\* The first m elements of p match the first n characters of f: there is a
\* way to cut the path among them.
Cut(p, f, m, n, cut) ==
  /\ cut \in [0..m -> 0..n]
  /\ cut[0] = 0 /\ cut[m] = n
  /\ \A k \in 1..m : StandsFor(p[k], f, cut[k - 1], cut[k])
Consumes(p, f, m, n) == \E cut \in [0..m -> 0..n] : Cut(p, f, m, n, cut)

Matches(p, f) == Consumes(p, f, Len(p), Len(f))

\* Type invariant.
TypeOK ==
  /\ pattern \in Patterns /\ file \in Files
  /\ pi \in 0..Len(pattern) /\ si \in 0..Len(file)
  /\ star \in [pi: 0..Len(pattern), si: 0..Len(file)]
  /\ pc \in {"matching", "yes", "no"}

(* A note is shown only before a file that its pattern matches: what the     *)
(* loop accepts, some way of cutting the path does.                          *)
AcceptedFilesMatch == pc = "yes" => Matches(pattern, file)

(* What the doc comment of glob_matches() says: two stars span separators    *)
(* and one does not (text.rs:210-212), so every file that can be cut that    *)
(* way is found.                                                             *)
MatchingFilesAreAccepted == pc = "no" => ~Matches(pattern, file)
=============================================================================
