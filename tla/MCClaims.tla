------------------------------ MODULE MCClaims ------------------------------
(***************************************************************************)
(* Small sets of claims for TLC: a directory and a file in it, which       *)
(* overlap, and two sessions of one repository.                            *)
(***************************************************************************)
EXTENDS Claims, TLC

CONSTANTS alice, bob, web, api, src, lib, a1, b1, b2

\* src covers lib, a file in it; every path overlaps itself.
OverlapAll == Paths \X Paths

\* As the rule says of two paths that are written like this.
Rule == INSTANCE PathOverlap
Spelling == (src :> <<".", "/", "s", "/">>) @@ (lib :> <<"s", "/", "l">>)
ASSUME OverlapIsTheRules ==
  OverlapAll = {r \in Paths \X Paths : Rule!Overlaps(Spelling[r[1]], Spelling[r[2]])}

OwnerOfAll == [p \in Procs |-> IF p = a1 THEN alice ELSE bob]
HomeRoaming == [a \in Agents |-> IF a = bob THEN {web, api} ELSE {web}]

\* alice edits and is swept at her turns' ends; bob edits, claims and is swept
\* in one process, releases and leaves in another.
RunsAll ==
  [p \in Procs |-> IF p = a1 THEN {"observed", "sweep"}
                  ELSE IF p = b1 THEN {"observed", "declared", "sweep"}
                  ELSE {"release", "end"}]

\* What a call of a hook ends in, and what is counted of it, on all calls, on
\* days of seven hooks, and on two that overlap.
Entry == INSTANCE HookEntry WITH Sessions <- Agents, FailLoudAfter <- 3, StaleAfter <- 3
Calls == {call \in Entry!Calls : call.session = alice}
Fine  == [session |-> alice, parsed |-> TRUE, mode |-> "memory", quiet |-> FALSE,
          board |-> "opened", identified |-> TRUE, vault |-> TRUE, lane |-> "session",
          wanted |-> TRUE, found |-> TRUE, vaultReads |-> TRUE, vaultWrites |-> TRUE,
          recorded |-> TRUE]
Capturing == [Fine EXCEPT !.lane = "capture", !.vaultWrites = FALSE]
Opening   == [Fine EXCEPT !.lane = "file"]
Short == {Fine, Capturing, Opening, [Fine EXCEPT !.session = bob], [Capturing EXCEPT !.session = bob],
          [Fine EXCEPT !.board = "none"], [Fine EXCEPT !.vaultReads = FALSE]}
Long  == {Capturing, [Fine EXCEPT !.session = bob], [Fine EXCEPT !.quiet = TRUE]}
ASSUME HooksEndRight ==
  /\ \A call \in Calls :
       /\ Entry!StaleBinaryIsToldOnce(call)
       /\ \A n \in {0, 3} :
            Entry!OnlyMemoryCounts([s \in Agents |-> [count |-> n, at |-> 1]], call, 2)
  /\ \A n \in 1..4 : \A day \in [1..n -> Short] : Entry!CountsAreConsecutive(day)
  /\ \A day \in [1..7 -> Long] : Entry!CountsAreConsecutive(day)
  /\ Entry!CaptureOutageIsHidden(Capturing, Opening, 4)
  /\ Entry!RacesRestart(2)
  /\ Entry!RacesMayRevive(2)
=============================================================================
