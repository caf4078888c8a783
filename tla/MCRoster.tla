------------------------------ MODULE MCRoster ------------------------------
(***************************************************************************)
(* Small rosters for TLC: sessions of two repositories, two of which share *)
(* a short ref; ann's host tells its pid, the others' do not.  The    *)
(* grammar of addresses is checked on its own, on all texts up to a length.*)
(***************************************************************************)
EXTENDS Roster

CONSTANTS s1, s2, s3, web, api, ann, ref, ref3, p1, p2, p3

\* s1 and s2 begin with the same six characters.
SharedPrefixes ==
  [s \in Sessions |-> IF s = s3 THEN <<ref3, s3>> ELSE <<ref, s>>]

\* Only a session whose pid is known is told apart from its resumption.
StartsOfKnown == [s \in Sessions |-> IF s \in Known THEN 2 ELSE 1]

OwnerOfAll == [p \in Procs |-> IF p = p1 THEN s1 ELSE IF p = p2 THEN s2 ELSE s3]

Grammar == INSTANCE Address
ASSUME AddressesAreReadRight ==
  \A length \in 0..5 : \A text \in [1..length -> {"@", "#", "/", " ", "a"}] :
    /\ Grammar!ScopesRoundTrip(text)
    /\ Grammar!OneGrammar(text)
    /\ Grammar!ProjectsAreReached(text)
    /\ Grammar!NobodyIsGuessed(text)
=============================================================================
