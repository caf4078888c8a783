----------------------------- MODULE Selection -----------------------------
(***************************************************************************)
(* Which notes a hook of memory puts before an agent, out of more than     *)
(* there is room for (src/memory/query.rs recent_for_project, concerning;  *)
(* inject.rs order_and_cap, render_session, render_file).  Both lanes cut  *)
(* twice: a LIMIT in SQL, then a sort of what is left and a cap.           *)
(***************************************************************************)
EXTENDS Integers, FiniteSetsExt

CONSTANTS
  Home, Topic, Elsewhere, Everywhere, \* scopes: a project, one of its topics,
                                      \* another project, @@
  MaxInjected,   \* MAX_INJECTED
  Window         \* PATH_LOOKUP_WINDOW

Scopes == {Home, Topic, Elsewhere, Everywhere}
Kinds == {"observation", "decision", "candidate", "capture"}
\* about: whether a note concerns the file that is opened, or only shares a
\* prefix with its path, which the SQL cannot tell apart.
Note == [kind: Kinds, scope: Scopes, force: {"rule", "decision", "advice"},
         active: BOOLEAN, about: {"file", "prefix", "other"}, created: Nat]

Injectable(notes) == {n \in notes : n.active /\ n.kind \in {"observation", "decision"}}

\* ORDER BY ... LIMIT: some first ones, no more than the limit; which, among
\* equals, is not said.
Firsts(notes, Precedes(_, _), limit) ==
  {some \in SUBSET notes :
     /\ Cardinality(some) = IF Cardinality(notes) <= limit THEN Cardinality(notes) ELSE limit
     /\ \A n \in some, other \in notes \ some : ~Precedes(other, n)}

ForceRank(n) == CASE n.force = "rule" -> 0 [] n.force = "decision" -> 1 [] n.force = "advice" -> 2
Nearness(n) ==
  CASE n.scope = Home -> 0 [] n.scope = Topic -> 1 [] n.scope = Everywhere -> 2
    [] n.scope = Elsewhere -> 3

Newer(n, other) == n.created > other.created
Stronger(n, other) ==
  \/ ForceRank(n) < ForceRank(other)
  \/ ForceRank(n) = ForceRank(other) /\ Newer(n, other)
\* recent_for_project: decisions before observations, then force.
Promoted(n, other) ==
  \/ n.kind # "observation" /\ other.kind = "observation"
  \/ (n.kind = "observation") = (other.kind = "observation") /\ Stronger(n, other)
\* order_and_cap: the nearest first, then force.
Nearer(n, other) ==
  \/ Nearness(n) < Nearness(other)
  \/ Nearness(n) = Nearness(other) /\ Stronger(n, other)

Capped(notes) == Firsts(notes, Nearer, MaxInjected)

-----------------------------------------------------------------------------
\* SessionStart: what is shown, and how many more there are.
Visible(notes) == {n \in Injectable(notes) : n.scope \in {Home, Topic, Everywhere}}
SessionLane(notes) ==
  {[shown |-> shown, hidden |-> Cardinality(Visible(notes)) - Cardinality(shown)] :
     shown \in UNION {Capped(some) : some \in Firsts(Visible(notes), Promoted, MaxInjected)}}

\* Before a file is opened: the newest that SQL selects, from any project.
Prefiltered(notes) == {n \in Injectable(notes) : n.about # "other"}
About(notes) == {n \in notes : n.about = "file"}
Total(notes, window) ==
  IF Cardinality(window) = Window THEN Cardinality(Prefiltered(notes))
  ELSE Cardinality(About(window))
FileLane(notes) ==
  UNION {{[shown |-> shown, hidden |-> Total(notes, window) - Cardinality(shown)] :
            shown \in Capped(About(window))}
         : window \in Firsts(Prefiltered(notes), Newer, Window)}

-----------------------------------------------------------------------------
(* No candidate is shown, which would argue for its own promotion, no      *)
(* capture and no retired note, and at session start no other project's.   *)
OnlyTheInjectableIsShown(notes) ==
  /\ \A lane \in SessionLane(notes) \cup FileLane(notes) : lane.shown \subseteq Injectable(notes)
  /\ \A lane \in SessionLane(notes) : \A n \in lane.shown : n.scope # Elsewhere

(* "and N more" at session start is what there is and is not shown, and    *)
(* no decision is among it as long as an observation is shown.             *)
SessionCutIsAdmitted(notes) ==
  \A lane \in SessionLane(notes) :
    /\ lane.hidden = Cardinality(Visible(notes) \ lane.shown)
    /\ (\E n \in lane.shown : n.kind = "observation") =>
         \A n \in Visible(notes) \ lane.shown : n.kind = "observation"

(* Before a file the number may overstate, and only with the window full;  *)
(* it never hides a note that there is (concerning).                       *)
FileCutIsAdmitted(notes) ==
  LET all == About(Injectable(notes)) IN
  \A lane \in FileLane(notes) :
    /\ lane.hidden >= Cardinality(all \ lane.shown)
    /\ Cardinality(Prefiltered(notes)) < Window => lane.hidden = Cardinality(all \ lane.shown)

(* A note of another repository does not push out the local one about the  *)
(* file (order_and_cap), while all the notes fit into the window.          *)
ForeignersYield(notes) ==
  Cardinality(Prefiltered(notes)) <= Window =>
    \A lane \in FileLane(notes) :
      \A n \in lane.shown, other \in About(Injectable(notes)) \ lane.shown :
        Nearness(n) <= Nearness(other)

(* Past the window newer notes of other repositories do push it out, and   *)
(* at session start the force of a global decision goes before a local     *)
(* one's scope: both orders are decided by the LIMIT, before the sort that *)
(* config.rs and inject.rs describe.                                       *)
WindowForgetsTheLocal(notes) ==
  \E lane \in FileLane(notes) :
    \E n \in lane.shown, other \in About(Injectable(notes)) \ lane.shown :
      n.scope = Elsewhere /\ other.scope = Home
ForceGoesBeforeScope(notes) ==
  \E lane \in SessionLane(notes) :
    \E n \in lane.shown, other \in Visible(notes) \ lane.shown :
      n.kind = other.kind /\ n.scope = Everywhere /\ other.scope = Home
=============================================================================
