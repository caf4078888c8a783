---------------------------- MODULE Measurement ----------------------------
(***************************************************************************)
(* What is concluded from the ledgers (src/memory/events.rs): the verdict  *)
(* on injection, the window it is counted over, and the counts of the      *)
(* searches.  The receipt that is judged is Ledger's.                      *)
(***************************************************************************)
EXTENDS Integers, FiniteSets, SequencesExt

CONSTANTS
  MinSessions, MinInjected,   \* how much must have been shown for a verdict
  FloorPerCent,
  Unopened,                   \* a window that was never opened
  AllTime,
  Unknown                     \* the terms of a search that has no count

Injected(r) == r.injected + r.injected_file
Cited(r)    == r.cited + r.cited_after_file
RatioReaches(r, perCent) == Injected(r) > 0 /\ 100 * Cited(r) >= perCent * Injected(r)

\* hooks: "installed", "incomplete" or "unknown"; the last is no reason to abstain.
Verdict(r, hooks) ==
  CASE hooks = "incomplete" -> "not_running"
    [] OTHER -> IF r.sessions < MinSessions \/ Injected(r) < MinInjected THEN "too_early"
                ELSE IF RatioReaches(r, FloorPerCent) THEN "earning"
                ELSE IF r.unprompted > 0 THEN "retrieval_suspect" ELSE "withdraw"

-----------------------------------------------------------------------------
\* amb memory window --open, or --reopen, at an instant.
WindowOpen(start, at, reopen) ==
  IF start = Unopened THEN [start |-> at, change |-> "opened"]
  ELSE IF reopen THEN [start |-> at, change |-> "reopened"]
  ELSE [start |-> start, change |-> "already open"]

\* --days wins over --all-time, and both over the window.
CountingWindow(days, allTime, start, now) ==
  CASE days # AllTime            -> now - days
    [] days = AllTime /\ allTime -> AllTime
    [] OTHER                     -> IF start = Unopened THEN AllTime ELSE start

-----------------------------------------------------------------------------
SearchLane(hasFile, acrossRepos) ==
  IF ~hasFile THEN "text" ELSE IF acrossRepos THEN "across" ELSE "path"

(* One row for each search: found is the scopes of the notes it answered.  *)
(* Only a text search has terms, whatever was typed beside a file.         *)
RecordSearch(ask, found, home) ==
  [session |-> ask.session, at |-> ask.at, origin |-> ask.origin,
   lane    |-> SearchLane(ask.file, ask.across),
   hits    |-> Len(found),
   foreign |-> Len(SelectSeq(found, LAMBDA scope : scope # home)),
   terms   |-> IF ask.file THEN Unknown ELSE Len(ask.query)]

Count(rows, Test(_)) == Len(SelectSeq(rows, Test))
Answered(row) == row.hits > 0

\* Only what a session itself asked in words is compared by its terms.
Human(row) == row.lane = "text" /\ row.origin = "session"
Bucket(rows, Of(_)) ==
  LET asked == SelectSeq(rows, LAMBDA row : Human(row) /\ Of(row)) IN
  [ran |-> Len(asked), answered |-> Count(asked, Answered)]

Searches(rows, floor) ==
  LET window == SelectSeq(rows, LAMBDA row : row.at >= floor) IN
  [ran      |-> Len(window),
   answered |-> Count(window, Answered),
   sessions |-> Cardinality({row.session : row \in ToSet(window)}),
   crossed  |-> Count(window, LAMBDA row : row.foreign > 0),
   by_origin |->
     [origin \in {row.origin : row \in ToSet(window)} |->
        LET its == SelectSeq(window, LAMBDA row : row.origin = origin) IN
        [ran |-> Len(its), answered |-> Count(its, Answered)]],
   one_term   |-> Bucket(window, LAMBDA row : row.terms = 1),
   multi_term |-> Bucket(window, LAMBDA row : row.terms # Unknown /\ row.terms >= 2),
   unrecorded |-> Bucket(window, LAMBDA row : row.terms = Unknown).ran]

-----------------------------------------------------------------------------
(* Use never counts against the layer: one more cite of a note that was    *)
(* shown, or of one that was not, never moves the verdict towards          *)
(* withdrawal; and without hooks, or without notes shown, there is none.   *)
UseNeverWithdraws(r, hooks) ==
  LET rank == [withdraw |-> 0, retrieval_suspect |-> 1, earning |-> 2]
      judged == Verdict(r, hooks) \in DOMAIN rank
      onward(next) == judged /\ rank[Verdict(next, hooks)] >= rank[Verdict(r, hooks)]
  IN  /\ judged => /\ hooks # "incomplete" /\ Injected(r) > 0
                   /\ onward([r EXCEPT !.cited = @ + 1])
                   /\ onward([r EXCEPT !.cited_after_file = @ + 1])
                   /\ onward([r EXCEPT !.unprompted = @ + 1])
      /\ Verdict(r, hooks) = "withdraw" => r.unprompted = 0 /\ ~RatioReaches(r, FloorPerCent)

(* A verdict says nothing of a window in which nothing happened, so a      *)
(* window just opened ends every verdict.                                  *)
NewWindowsAreEmpty(hooks) ==
  Verdict([injected |-> 0, injected_file |-> 0, cited |-> 0, cited_after_file |-> 0,
           unprompted |-> 0, sessions |-> 0], hooks) \in {"too_early", "not_running"}

(* A measurement is never restarted by asking for it again: the window     *)
(* starts where it was first opened, or last reopened on purpose, what is  *)
(* said tells the three outcomes apart, and what is counted unasked is     *)
(* what came since (D87).                                                  *)
WindowsAreDeliberate(asks, now) ==
  LET step(state, ask) ==
        LET w == WindowOpen(state.start, ask.at, ask.reopen) IN
        [start |-> w.start, said |-> Append(state.said, w.change)]
      end == FoldLeft(step, [start |-> Unopened, said |-> <<>>], asks)
      moves == {k \in DOMAIN asks : k = 1 \/ asks[k].reopen}
      counted(days, all) == CountingWindow(days, all, end.start, now)
  IN  /\ asks # <<>> => end.start = asks[CHOOSE k \in moves : \A j \in moves : j <= k].at
      /\ counted(AllTime, FALSE) = IF asks = <<>> THEN AllTime ELSE end.start
      /\ counted(1, TRUE) = now - 1 /\ counted(AllTime, TRUE) = AllTime
      /\ \A k \in DOMAIN asks : end.said[k] = "already open" <=> k \notin moves

(* The counts of the searches are of one population each: the origins add  *)
(* up to all that ran and answered, the human text searches are those of   *)
(* one term, of several, of none, and of an unknown number, and what is    *)
(* asked beside a file is in none of them.                                 *)
SearchesAddUp(rows, floor) ==
  LET s == Searches(rows, floor)
      sum(part(_)) == FoldFunction(+, 0, [o \in DOMAIN s.by_origin |-> part(s.by_origin[o])])
      asked   == SelectSeq(rows, LAMBDA row : /\ row.at >= floor
                                              /\ row.lane = "text" /\ row.origin = "session")
      browses == Count(asked, LAMBDA row : row.terms = 0)
  IN  /\ s.ran = sum(LAMBDA part : part.ran) /\ s.answered = sum(LAMBDA part : part.answered)
      /\ s.one_term.ran + s.multi_term.ran + s.unrecorded + browses = Len(asked)
      /\ s.crossed <= s.answered /\ s.sessions <= s.ran
=============================================================================
