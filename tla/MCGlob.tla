-------------------------------- MODULE MCGlob --------------------------------
(* All patterns of at most four elements with a star in them, as the loop    *)
(* reads them (two stars in a row are the double one), and short paths of up *)
(* to three segments.                                                        *)
EXTENDS Glob, SequencesExt

CONSTANTS letter, slash, single, double

Declared ==
  {p \in BoundedSeq({letter, slash, single, double}, 4) :
     /\ \E k \in DOMAIN p : IsStar(p[k])
     /\ \A k \in 2..Len(p) : ~(p[k - 1] = single /\ IsStar(p[k]))}
Named ==
  {<<letter>>, <<letter, slash, letter>>, <<letter, slash, letter, slash, letter>>,
   <<letter, letter>>, <<letter, letter, slash, letter>>}
=============================================================================
