------------------------------ MODULE MCSchema ------------------------------
(***************************************************************************)
(* A rollout for TLC: a process of the old release, two of the new one and *)
(* a build over uncommitted changes that is a version further, on a board  *)
(* that is fresh or at the old version.                                    *)
(***************************************************************************)
EXTENDS Schema

CONSTANTS old, new1, new2, dirty

ExpectsOfAll == [p \in Procs |-> IF p = old THEN 1 ELSE IF p = dirty THEN 3 ELSE 2]
=============================================================================
