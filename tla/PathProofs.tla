------------------------------ MODULE PathProofs ------------------------------
(***************************************************************************)
(* Theorems about paths: the globs that notes declare, and the overlap of  *)
(* two claims.                                                             *)
(***************************************************************************)
EXTENDS Glob, PathOverlap, WellFoundedInduction, TLAPS

-----------------------------------------------------------------------------
(* The loop of Glob accepts no file that its pattern does not match, for   *)
(* every pattern and every path: at any time, what is consumed of the      *)
(* pattern can be cut to match what is consumed of the path, and so could  *)
(* what was consumed up to the last star.                                  *)

\* What was consumed matches, and so does what was consumed by the last star.
ConsumedMatches ==
  /\ Consumes(pattern, file, pi, si)
  /\ star # NoStar =>
       /\ star.pi \in 1..Len(pattern) /\ IsStar(pattern[star.pi])
       /\ star.si <= si
       /\ Consumes(pattern, file, star.pi, star.si)
  /\ pc = "yes" => pi = Len(pattern) /\ si = Len(file)

GlobInv == TypeOK /\ ConsumedMatches

-----------------------------------------------------------------------------
(* An element of the pattern that stands for the next part of the path      *)
(* extends a match.                                                         *)
LEMMA ConsumeOne ==
  ASSUME NEW p, NEW f, NEW m \in Nat, NEW n \in Nat, NEW j \in Nat, n <= j,
         Consumes(p, f, m, n), StandsFor(p[m + 1], f, n, j)
  PROVE  Consumes(p, f, m + 1, j)
<1>1. PICK cut \in [0..m -> 0..n] : Cut(p, f, m, n, cut)
  BY DEF Consumes
<1> DEFINE longer == [k \in 0..(m + 1) |-> IF k = m + 1 THEN j ELSE cut[k]]
<1>2. longer \in [0..(m + 1) -> 0..j]
  OBVIOUS
<1>3. longer[0] = 0 /\ longer[m + 1] = j
  BY <1>1 DEF Cut
<1>4. ASSUME NEW k \in 1..(m + 1) PROVE StandsFor(p[k], f, longer[k - 1], longer[k])
  <2>1. CASE k = m + 1
    <3>1. longer[k] = j /\ longer[k - 1] = cut[m] /\ cut[m] = n
      BY <1>1, <2>1 DEF Cut
    <3> QED
      BY <2>1, <3>1
  <2>2. CASE k \in 1..m
    <3>1. longer[k] = cut[k] /\ longer[k - 1] = cut[k - 1]
      BY <2>2
    <3> QED
      BY <1>1, <2>2, <3>1 DEF Cut
  <2> QED
    BY <2>1, <2>2
<1> HIDE DEF longer
<1> QED
  BY <1>2, <1>3, <1>4 DEF Consumes, Cut

(* A star may have one character more, a separator only if it is the double *)
(* one.                                                                     *)
LEMMA StarTakesOneMore ==
  ASSUME GlobConstants,
         NEW p, NEW f, NEW m \in Nat \ {0}, NEW n \in Nat, Consumes(p, f, m, n),
         IsStar(p[m]), p[m] = Double \/ f[n + 1] # Slash
  PROVE  Consumes(p, f, m, n + 1)
<1>1. PICK cut \in [0..m -> 0..n] : Cut(p, f, m, n, cut)
  BY DEF Consumes
<1> DEFINE later == [k \in 0..m |-> IF k = m THEN n + 1 ELSE cut[k]]
<1>2. later \in [0..m -> 0..(n + 1)]
  OBVIOUS
<1>3. later[0] = 0 /\ later[m] = n + 1
  BY <1>1 DEF Cut
<1>4. ASSUME NEW k \in 1..m PROVE StandsFor(p[k], f, later[k - 1], later[k])
  <2>1. later[k - 1] = cut[k - 1] /\ cut[k - 1] \in 0..n
    BY <1>1
  <2>2. StandsFor(p[k], f, cut[k - 1], cut[k])
    BY <1>1 DEF Cut
  <2>3. CASE k = m
    <3>1. later[k] = n + 1 /\ cut[k] = n
      BY <1>1, <2>3 DEF Cut
    <3> QED
      BY <2>1, <2>2, <2>3, <3>1 DEF StandsFor, IsStar, GlobConstants
  <2>4. CASE k # m
    BY <2>1, <2>2, <2>4
  <2> QED
    BY <2>3, <2>4
<1> HIDE DEF later
<1> QED
  BY <1>2, <1>3, <1>4 DEF Consumes, Cut

-----------------------------------------------------------------------------
LEMMA GlobInit ==
  ASSUME GlobConstants, Init
  PROVE  GlobInv
<1>1. TypeOK
  BY DEF Init, TypeOK, NoStar, GlobConstants
<1>2. Consumes(pattern, file, 0, 0)
  <2> DEFINE cut == [k \in 0..0 |-> 0]
  <2>1. Cut(pattern, file, 0, 0, cut)
    BY DEF Cut
  <2> QED
    BY <2>1 DEF Consumes, Cut
<1> QED
  BY <1>1, <1>2 DEF GlobInv, ConsumedMatches, Init

LEMMA GlobStep ==
  ASSUME GlobConstants, GlobInv, [Next]_vars
  PROVE  GlobInv'
<1> USE DEF GlobInv
<1>0. pattern \in Seq(Chars \cup {Single, Double}) /\ file \in Seq(Chars)
      /\ Len(pattern) \in Nat /\ Len(file) \in Nat /\ pi \in Nat /\ si \in Nat
      /\ star.pi \in Nat /\ star.si \in Nat
  BY DEF TypeOK, GlobConstants
<1>1. CASE TakeStar
  <2>1. IsStar(pattern[pi + 1]) /\ pi + 1 \in 1..Len(pattern)
    BY <1>0, <1>1 DEF TakeStar, Expects, IsStar
  <2>2. Consumes(pattern, file, pi + 1, si)
    <3>1. StandsFor(pattern[pi + 1], file, si, si)
      BY <1>0, <2>1 DEF StandsFor, IsStar
    <3> QED
      BY <1>0, <3>1, ConsumeOne DEF ConsumedMatches
  <2>3. TypeOK'
    BY <1>0, <1>1, <2>1 DEF TakeStar, TypeOK
  <2> QED
    BY <1>0, <1>1, <2>1, <2>2, <2>3 DEF TakeStar, More, ConsumedMatches
<1>2. CASE TakeChar
  <2>1. file[si + 1] \in Chars /\ si + 1 \in 1..Len(file)
        /\ pattern[pi + 1] = file[si + 1] /\ pi + 1 \in 1..Len(pattern)
    BY <1>0, <1>2 DEF TakeChar, More, Expects
  <2>2. Consumes(pattern, file, pi + 1, si + 1)
    <3>1. StandsFor(pattern[pi + 1], file, si, si + 1)
      BY <1>0, <2>1 DEF StandsFor, GlobConstants
    <3> QED
      BY <1>0, <3>1, ConsumeOne DEF ConsumedMatches
  <2>3. TypeOK'
    BY <1>0, <1>2, <2>1 DEF TakeChar, TypeOK
  <2> QED
    BY <1>0, <1>2, <2>1, <2>2, <2>3 DEF TakeChar, More, ConsumedMatches
<1>3. CASE Resume
  <2>1. star # NoStar /\ star.pi \in Nat \ {0} /\ star.si + 1 \in 1..Len(file)
    BY <1>0, <1>3 DEF Resume, Mismatch, More, MayResume, ConsumedMatches
  <2>2. Consumes(pattern, file, star.pi, star.si + 1)
    BY <1>0, <1>3, <2>1, StarTakesOneMore DEF Resume, MayResume, ConsumedMatches
  <2>3. TypeOK'
    BY <1>0, <1>3, <2>1 DEF Resume, TypeOK
  <2>4. star'.pi = star.pi /\ star'.si = star.si + 1
    BY <1>3 DEF Resume, TypeOK
  <2> QED
    BY <1>0, <1>3, <2>1, <2>2, <2>3, <2>4 DEF Resume, Mismatch, More, ConsumedMatches
<1>4. CASE GiveUp
  BY <1>4 DEF GiveUp, TypeOK, ConsumedMatches
<1>5. CASE TrailingStar
  <2>1. IsStar(pattern[pi + 1]) /\ pi + 1 \in 1..Len(pattern)
    BY <1>0, <1>5 DEF TrailingStar, Expects, IsStar
  <2>2. Consumes(pattern, file, pi + 1, si)
    <3>1. StandsFor(pattern[pi + 1], file, si, si)
      BY <1>0, <2>1 DEF StandsFor, IsStar
    <3> QED
      BY <1>0, <3>1, ConsumeOne DEF ConsumedMatches
  <2>3. TypeOK'
    BY <1>0, <1>5, <2>1 DEF TrailingStar, TypeOK
  <2> QED
    BY <1>0, <1>5, <2>2, <2>3 DEF TrailingStar, ConsumedMatches
<1>6. CASE Return
  BY <1>0, <1>6 DEF Return, TypeOK, ConsumedMatches
<1>7. CASE UNCHANGED vars
  BY <1>7 DEF vars, TypeOK, ConsumedMatches
<1> QED
  BY <1>1, <1>2, <1>3, <1>4, <1>5, <1>6, <1>7 DEF Next

(* Whatever notes declare and whatever files are opened, a note is shown    *)
(* only before a file that its pattern matches (text.rs, glob_matches).     *)
THEOREM GlobIsSound ==
  ASSUME GlobConstants
  PROVE  Spec => []AcceptedFilesMatch
<1>1. Init => GlobInv
  BY GlobInit
<1>2. GlobInv /\ [Next]_vars => GlobInv'
  BY GlobStep
<1>3. GlobInv => AcceptedFilesMatch
  BY DEF GlobInv, ConsumedMatches, AcceptedFilesMatch, Matches
<1> QED
  BY <1>1, <1>2, <1>3, PTL DEF Spec

-----------------------------------------------------------------------------
(* What overlaps() is for: two sessions are told of each other exactly when *)
(* there could be a file that both claims are about.                        *)

LEMMA LeastNatural ==
  ASSUME NEW T \in SUBSET Nat, T # {}
  PROVE  \E x \in T : \A y \in T : x <= y
<1>1. PICK x \in T : \A y \in T : <<y, x>> \notin OpToRel(<, Nat)
  BY NatLessThanWellFounded, WFMin
<1>2. \A y \in T : ~(y < x)
  BY <1>1 DEF OpToRel
<1> QED
  BY <1>2

(* What normalise() leaves of a path is a path: there is a longest run of    *)
(* "./" in front and a longest run of slashes at the end.                    *)
LEMMA UndottedIsAPath ==
  ASSUME NEW S, NEW q \in Seq(S)
  PROVE  Undotted(q) \in Seq(S)
<1> DEFINE Dotted(k) == 2 * k <= Len(q)
                        /\ \A i \in 1..k : q[2 * i - 1] = "." /\ q[2 * i] = "/"
           Again(k) == 2 * k + 2 <= Len(q) /\ q[2 * k + 1] = "." /\ q[2 * k + 2] = "/"
           Good(k) == 2 * k <= Len(q)
                      /\ (\A i \in 1..k : q[2 * i - 1] = "." /\ q[2 * i] = "/")
                      /\ ~(2 * k + 2 <= Len(q) /\ q[2 * k + 1] = "." /\ q[2 * k + 2] = "/")
           Left == {n \in Nat : n <= Len(q) /\ Dotted(Len(q) - n)}
<1>1. Len(q) \in Nat
  OBVIOUS
<1>2. Dotted(0)
  BY <1>1
<1>3. Len(q) - Len(q) = 0
  BY <1>1
<1>4. Len(q) \in Left
  BY <1>1, <1>2, <1>3
<1>5. Left \in SUBSET Nat
  OBVIOUS
<1>6. PICK n \in Left : \A m \in Left : n <= m
  <2> HIDE DEF Left
  <2> QED
    BY <1>4, <1>5, LeastNatural
<1> DEFINE k == Len(q) - n
<1>7. k \in Nat /\ k <= Len(q) /\ Dotted(k) /\ n = Len(q) - k /\ n \in Nat
  BY <1>1, <1>6
<1>8. ~Again(k)
  <2> SUFFICES ASSUME Again(k) PROVE FALSE
    OBVIOUS
  <2> HIDE DEF k
  <2>1. 2 * (k + 1) <= Len(q)
    BY <1>1, <1>7
  <2>2. ASSUME NEW i \in 1..(k + 1) PROVE q[2 * i - 1] = "." /\ q[2 * i] = "/"
    <3>1. CASE i \in 1..k
      BY <1>7, <3>1
    <3>2. CASE i = k + 1
      <4>1. 2 * i - 1 = 2 * k + 1 /\ 2 * i = 2 * k + 2
        BY <1>7, <3>2
      <4> QED
        BY <4>1
    <3> QED
      BY <1>7, <3>1, <3>2
  <2>3. Dotted(k + 1)
    BY <2>1, <2>2
  <2>4. n - 1 \in Nat /\ n - 1 <= Len(q) /\ Len(q) - (n - 1) = k + 1
    BY <1>1, <1>7, <2>1
  <2>5. n - 1 \in Left
    BY <2>3, <2>4
  <2>6. n <= n - 1
    <3> HIDE DEF Left
    <3> QED
      BY <1>6, <2>5
  <2>7. n \in Nat
    BY <1>7
  <2> QED
    BY <2>6, <2>7
<1>9. \E d \in 0..Len(q) : Good(d)
  <2> HIDE DEF k
  <2> QED
    BY <1>1, <1>7, <1>8
<1> DEFINE dots == CHOOSE d \in 0..Len(q) : Good(d)
<1>10. dots \in 0..Len(q) /\ Good(dots)
  <2> HIDE DEF Good
  <2> QED
    BY <1>9
<1>11. dots \in Nat /\ 2 * dots <= Len(q)
  BY <1>1, <1>10
<1>12. Undotted(q) = SubSeq(q, 2 * dots + 1, Len(q))
  BY DEF Undotted
<1> HIDE DEF dots
<1>13. 2 * dots + 1 \in 1..(Len(q) + 1)
  BY <1>1, <1>11
<1> QED
  BY <1>1, <1>12, <1>13

LEMMA UnslashedIsAPath ==
  ASSUME NEW S, NEW q \in Seq(S)
  PROVE  Unslashed(q) \in Seq(S)
<1> DEFINE Slashes(k) == \A i \in (k + 1)..Len(q) : q[i] = "/"
           Good(k) == (\A i \in (k + 1)..Len(q) : q[i] = "/") /\ (k > 0 => q[k] # "/")
           Ends == {k \in Nat : k <= Len(q) /\ Slashes(k)}
<1>1. Len(q) \in Nat
  OBVIOUS
<1>2. Len(q) \in Ends
  BY <1>1
<1>3. Ends \in SUBSET Nat
  OBVIOUS
<1>4. PICK k \in Ends : \A m \in Ends : k <= m
  <2> HIDE DEF Ends
  <2> QED
    BY <1>2, <1>3, LeastNatural
<1>5. k \in Nat /\ k <= Len(q) /\ Slashes(k)
  BY <1>4
<1>6. k > 0 => q[k] # "/"
  <2> SUFFICES ASSUME k > 0, q[k] = "/" PROVE FALSE
    OBVIOUS
  <2>1. k - 1 \in Nat /\ k - 1 <= Len(q) /\ (k - 1) + 1 = k
    BY <1>1, <1>5
  <2>2. Slashes(k - 1)
    BY <1>1, <1>5, <2>1
  <2>3. k - 1 \in Ends
    BY <2>1, <2>2
  <2> QED
    BY <1>4, <1>5, <2>1, <2>3
<1>7. \E d \in 0..Len(q) : Good(d)
  BY <1>1, <1>5, <1>6
<1> DEFINE last == CHOOSE d \in 0..Len(q) : Good(d)
<1>8. last \in 0..Len(q)
  <2> HIDE DEF Good
  <2> QED
    BY <1>7
<1>9. Unslashed(q) = SubSeq(q, 1, last)
  BY DEF Unslashed
<1> HIDE DEF last
<1> QED
  BY <1>1, <1>8, <1>9

LEMMA NormalIsAPath ==
  ASSUME NEW S, NEW p \in Seq(S)
  PROVE  Normalise(p) \in Seq(S)
BY UndottedIsAPath, UnslashedIsAPath DEF Normalise

\* Two paths above one file are above one another, the shorter one above.
LEMMA PathsAboveAFile ==
  ASSUME NEW S, NEW f \in Seq(S), NEW a \in Seq(S), NEW b \in Seq(S),
         a # <<>>, InPath(f, a), InPath(f, b), Len(a) <= Len(b)
  PROVE  a = b \/ Covers(a, b)
<1>1. Len(a) \in Nat /\ Len(b) \in Nat /\ Len(b) <= Len(f)
  BY DEF InPath, Covers
<1>2. \A i \in 1..Len(a) : a[i] = f[i]
  BY DEF InPath, Covers
<1>3. \A i \in 1..Len(b) : b[i] = f[i]
  BY DEF InPath, Covers
<1>4. CASE Len(a) = Len(b)
  BY <1>1, <1>2, <1>3, <1>4
<1>5. CASE Len(a) < Len(b)
  <2>1. f[Len(a) + 1] = "/"
    BY <1>1, <1>5 DEF InPath, Covers
  <2> QED
    BY <1>1, <1>2, <1>3, <1>5, <2>1 DEF Covers
<1> QED
  BY <1>1, <1>4, <1>5

(* Two paths, neither of them the whole repository, overlap exactly when a  *)
(* file could be in both (claims.rs, overlaps): src/a and src/abc.rs do not. *)
THEOREM OverlapIsACommonFile ==
  ASSUME NEW S, NEW a \in Seq(S), NEW b \in Seq(S),
         Normalise(a) # <<>>, Normalise(b) # <<>>
  PROVE  Overlaps(a, b)
           <=> \E f \in Seq(S) : InPath(f, Normalise(a)) /\ InPath(f, Normalise(b))
<1>0. Normalise(a) \in Seq(S) /\ Normalise(b) \in Seq(S)
  BY NormalIsAPath
<1>1. ASSUME Overlaps(a, b)
      PROVE  \E f \in Seq(S) : InPath(f, Normalise(a)) /\ InPath(f, Normalise(b))
  BY <1>0, <1>1 DEF Overlaps, InPath
<1>2. ASSUME NEW f \in Seq(S), InPath(f, Normalise(a)), InPath(f, Normalise(b))
      PROVE  Overlaps(a, b)
  <2>1. CASE Len(Normalise(a)) <= Len(Normalise(b))
    BY <1>0, <1>2, <2>1, PathsAboveAFile DEF Overlaps
  <2>2. CASE Len(Normalise(b)) <= Len(Normalise(a))
    BY <1>0, <1>2, <2>2, PathsAboveAFile DEF Overlaps
  <2> QED
    BY <1>0, <2>1, <2>2
<1> QED
  BY <1>1, <1>2
=============================================================================
