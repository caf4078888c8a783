----------------------------- MODULE HookEntry -----------------------------
(***************************************************************************)
(* What one call of a hook ends in (src/main.rs main, hook_main,           *)
(* hook_memory), and the counter of a session's memory failures            *)
(* (src/memory/capture.rs), over any sequence of calls and over calls of   *)
(* one session that overlap.                                               *)
(***************************************************************************)
EXTENDS Integers, SequencesExt, FiniteSetsExt

CONSTANTS
  Sessions,
  FailLoudAfter,
  StaleAfter    \* how long a marker that nobody touches is counted

(* A call is a record: what main() and the hook find on their way.  A      *)
(* delivery hook beyond the opening of the board is in Mail and Claims;    *)
(* here its rest is said to work or to fail.                               *)
Calls == [session: Sessions,
          parsed: BOOLEAN,               \* are the arguments of this build
          mode: {"deliver", "memory"},
          quiet: BOOLEAN,                \* a subagent's, or a stop that fires again
          board: {"none", "opened", "newer", "fails"},
          identified: BOOLEAN,
          vault: BOOLEAN,
          lane: {"capture", "file", "session"},
          wanted: BOOLEAN,               \* a tool not skipped, on a file of this tree
          found: BOOLEAN,                \* there is something to show
          vaultReads: BOOLEAN, vaultWrites: BOOLEAN,
          recorded: BOOLEAN]             \* what is read and written on the board succeeds

Result(end, says) == [end |-> end, says |-> says]
Done == Result("ok", {})

(* The memory hook.  A vault that cannot be read at a session start is     *)
(* reported in the text, and is no error.                                  *)
Memory(call) ==
  CASE call.board = "none" \/ ~call.vault -> Done
    [] OTHER ->
       IF ~call.identified THEN Result("fails", {})
       ELSE IF call.board # "opened" THEN Result(call.board, {})
       ELSE CASE call.lane = "capture" ->
                   IF ~call.wanted THEN Done
                   ELSE IF call.vaultWrites /\ call.recorded THEN Done ELSE Result("fails", {})
              [] call.lane = "file" ->
                   IF ~call.wanted \/ ~call.found THEN Done
                   ELSE IF call.recorded THEN Result("ok", {"notes"}) ELSE Result("fails", {})
              [] call.lane = "session" ->
                   IF ~call.vaultReads THEN Result("ok", {"outage"})
                   ELSE IF call.recorded THEN Result("ok", {"notes"}) ELSE Result("fails", {})

Deliver(call) ==
  IF call.board = "none" THEN Done
  ELSE IF ~call.identified THEN Result("fails", {})
  ELSE IF call.board # "opened" THEN Result(call.board, {})
  ELSE IF ~call.recorded THEN Result("fails", {})
  ELSE Result("ok", IF call.found THEN {"mail"} ELSE {})

-----------------------------------------------------------------------------
(* The markers of a board's directory: the count of each session, zero     *)
(* where there is none, and when it was written.                           *)
NoMarkers == [s \in Sessions |-> [count |-> 0, at |-> 0]]

NoteFailure(markers, s, now) == [markers EXCEPT ![s] = [count |-> @.count + 1, at |-> now]]
NoteSuccess(markers, s)      == [markers EXCEPT ![s] = [count |-> 0, at |-> 0]]

\* failure_count(): of all sessions, since the failing one cannot speak.
WorstRecent(markers, now) ==
  Max({0} \cup {markers[s].count : s \in {r \in Sessions : now - markers[r].at <= StaleAfter}})
FailLoudNotice(markers, now) ==
  IF WorstRecent(markers, now) >= FailLoudAfter THEN {"failing"} ELSE {}

(* main() and hook_main(): the exit code, what is printed, the markers. A  *)
(* hook whose arguments another version wrote says nothing.                *)
Hook(markers, call, now) ==
  LET silent == [exit |-> "success", says |-> {}, markers |-> markers]
      memory == Memory(call)
      deliver == Deliver(call)
  IN  IF ~call.parsed \/ call.quiet THEN silent
      ELSE IF call.mode = "memory"
           THEN [exit |-> "success",
                 says |-> memory.says \cup IF memory.says = {} THEN {} ELSE FailLoudNotice(markers, now),
                 markers |-> IF memory.end = "ok" THEN NoteSuccess(markers, call.session)
                             ELSE NoteFailure(markers, call.session, now)]
           ELSE [exit |-> "success", markers |-> markers,
                 says |-> IF deliver.end = "newer" THEN {"stale binary"} ELSE deliver.says]

\* Calls one after the other, at the instants 1, 2, ...
Day(calls) ==
  LET step(day, call) ==
        LET after == Hook(day.markers, call, day.now) IN
        [markers |-> after.markers, now |-> day.now + 1, said |-> Append(day.said, after.says)]
  IN  FoldLeft(step, [markers |-> NoMarkers, now |-> 1, said |-> <<>>], calls)

-----------------------------------------------------------------------------
(* Calls of one session that overlap: a failure reads its marker, opens it *)
(* anew, which empties it, and writes; a success removes the file, and     *)
(* what is written to a removed file is nowhere.                           *)
StepsOf(ops) == {k \in DOMAIN ops : ops[k] = "fails"} \X {"read", "empty", "write"}
                \cup {k \in DOMAIN ops : ops[k] = "ok"} \X {"clear"}
Orders(ops) ==
  LET rank == [read |-> 1, empty |-> 2, write |-> 3, clear |-> 1] IN
  {order \in SetToSeqs(StepsOf(ops)) :
     \A i, j \in DOMAIN order :
       order[i][1] = order[j][1] /\ rank[order[i][2]] < rank[order[j][2]] => i < j}
BumpMarker(count, ops, order) ==
  LET step(state, s) ==
        LET k == s[1] IN
        CASE s[2] = "read"  -> [state EXCEPT !.seen[k] = state.count]
          [] s[2] = "empty" -> [state EXCEPT !.count = 0, !.opened[k] = state.file]
          [] s[2] = "write" -> IF state.opened[k] # state.file THEN state
                               ELSE [state EXCEPT !.count = state.seen[k] + 1]
          [] s[2] = "clear" -> [state EXCEPT !.count = 0, !.file = @ + 1]
      none == [k \in DOMAIN ops |-> 0]
  IN  FoldLeft(step, [count |-> count, file |-> 0, seen |-> none, opened |-> none], order).count
Outcomes(count, ops) == {BumpMarker(count, ops, order) : order \in Orders(ops)}

-----------------------------------------------------------------------------
(* Of the hooks that one event runs, exactly one tells of a binary that is *)
(* older than the board, and the other, unless memory is off, counts it as *)
(* a failure (D58).                                                        *)
StaleBinaryIsToldOnce(call) ==
  LET told(mode) == "stale binary" \in Hook(NoMarkers, [call EXCEPT !.mode = mode], 1).says
      after == Hook(NoMarkers, [call EXCEPT !.mode = "memory"], 1).markers
  IN  /\ call.parsed /\ ~call.quiet /\ call.identified /\ call.board = "newer"
           => told("deliver") /\ ~told("memory")
              /\ after[call.session].count = (IF call.vault THEN 1 ELSE 0)
      /\ told("deliver") => call.board = "newer"

(* A session that is told anything is told so by a hook that ended well,   *)
(* but for the notice of a stale binary; and no marker is touched by a     *)
(* delivery hook, a subagent or a stop that fires again.                   *)
OnlyMemoryCounts(markers, call, now) ==
  LET after == Hook(markers, call, now) IN
  /\ after.markers # markers => call.mode = "memory" /\ call.parsed /\ ~call.quiet
  /\ after.says \notin {{}, {"stale binary"}}
       => call.board = "opened" /\ call.identified /\ (call.recorded \/ "outage" \in after.says)
  /\ \A s \in Sessions \ {call.session} : after.markers[s] = markers[s]

(* The calls at the end of a day that a session's memory hook failed, one  *)
(* after the other, whatever other sessions did in between.                *)
InARow(calls, s) ==
  LET mine == SelectSeq(calls, LAMBDA c : c.session = s /\ c.mode = "memory" /\ c.parsed /\ ~c.quiet)
      good == {k \in DOMAIN mine : Memory(mine[k]).end = "ok"}
  IN  Len(mine) - Max({0} \cup good)

(* A marker counts the failures in a row of its own session (D108), and a  *)
(* hook that shows notes shows the notice when some session's count has    *)
(* reached the threshold and its last failure is recent.                   *)
CountsAreConsecutive(calls) ==
  LET day   == Day(calls)
      front == Day(Front(calls))
  IN  /\ \A s \in Sessions : day.markers[s].count = InARow(calls, s)
      /\ "failing" \in Last(day.said) =>
           \E s \in Sessions : InARow(Front(calls), s) >= FailLoudAfter
      /\ "notes" \in Last(day.said) =>
           ("failing" \in Last(day.said) <=>
              \E s \in Sessions : /\ InARow(Front(calls), s) >= FailLoudAfter
                                  /\ front.now - front.markers[s].at <= StaleAfter)

(* Two failures of one session that overlap: at most one of them is        *)
(* missing from the count, unless one reads the marker that the other has  *)
(* emptied and not yet written; then, if it is the last to write, the      *)
(* count starts from one.  The comment at capture.rs:33-36 has only the    *)
(* first.                                                                  *)
RacesRestart(count) == Outcomes(count, <<"fails", "fails">>) = {1, count + 1, count + 2}

(* A failure that overlaps with a success is counted as if it came before  *)
(* the success or after it, or as if the success had not been.             *)
RacesMayRevive(count) == Outcomes(count, <<"fails", "ok">>) = {0, 1, count + 1}

(* A capture that always fails is never noticed while the other lanes of   *)
(* the session work: every file that is opened clears the count that       *)
(* "captures nothing" is about.                                            *)
CaptureOutageIsHidden(capture, file, times) ==
  LET calls == [k \in 1..2 * times |-> IF k % 2 = 1 THEN capture ELSE file] IN
  /\ \A k \in DOMAIN calls : Memory(calls[k]).end = IF k % 2 = 1 THEN "fails" ELSE "ok"
  /\ \A k \in DOMAIN calls : "failing" \notin Day(calls).said[k]
=============================================================================
