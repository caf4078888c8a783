------------------------------- MODULE Claims -------------------------------
(***************************************************************************)
(* Advisory claims on paths (src/claims.rs) and the hooks that take and    *)
(* report them (src/main.rs).  Nothing is locked: a session takes a claim  *)
(* whatever others hold and is told whom it collided with.  `take` is not  *)
(* a transaction.  It looks for its own row, upserts it and lists the      *)
(* others in three statements, and the processes of other sessions run in  *)
(* between; a notice is recorded row by row before the text is printed,    *)
(* and a process that dies or meets SQLITE_BUSY on the way prints nothing. *)
(***************************************************************************)
EXTENDS Integers, FiniteSets

CONSTANTS
  Agents,     \* session ids
  Projects,   \* project names
  Paths,      \* normalised paths, relative to a project's root
  Overlap,    \* the pairs of paths claims.rs overlaps() relates
  Procs,      \* processes that may be alive at the same time
  Owner,      \* Owner[p]: the session process p belongs to
  Runs,       \* Runs[p]: the commands and hooks p may be an invocation of
  Home,       \* Home[a]: the projects session a may resolve to
  Leases,     \* the lengths a claim may be taken for, in clock units
  MaxNotices, \* claims.rs MAX_CONFLICT_NOTICES
  MaxClock,   \* bound: the last instant of the wall clock
  MaxFails    \* bound: how many processes die or fail in the middle of a command

Sources  == {"observed", "declared"}
Commands == Sources \cup {"sweep", "release", "end"}

ASSUME OverlapAssumption ==
  /\ Overlap \subseteq Paths \X Paths
  /\ \A P \in Paths : <<P, P>> \in Overlap
  /\ \A P, Q \in Paths : <<P, Q>> \in Overlap => <<Q, P>> \in Overlap

ASSUME ClaimsAssumption ==
  /\ Owner \in [Procs -> Agents]
  /\ Runs \in [Procs -> SUBSET Commands]
  /\ Home \in [Agents -> SUBSET Projects]
  /\ Leases \subseteq Nat \ {0}
  /\ MaxNotices \in Nat \ {0} /\ MaxClock \in Nat \ {0} /\ MaxFails \in Nat

VARIABLES
  claims,  \* the claims table, by its primary key (path, agent)
  notices, \* the claim_notices table: notices[a] by (path, holder)
  now,     \* the wall clock
  proc,    \* what each process is in the middle of
  told,    \* history: told[a] is the claims a was really told of
  lost,    \* history: lost[a] is the claims a process of a failed before printing
  fails,   \* how many processes died or failed so far
  mayHold  \* history: the paths a's hooks set out to claim since its session last
           \* ended, or were about to upsert at that moment

vars == <<claims, notices, now, proc, told, lost, fails, mayHold>>

-----------------------------------------------------------------------------
Rows == Paths \X Agents
Time == 0..MaxClock

\* `fresh` is history: the row was inserted by a take that saw no row of its
\* own and was not cut short, and was not extended since.
NoRow == [project |-> "none", taken |-> 0, expires |-> 0, fresh |-> FALSE]
Row   == [project: Projects, taken: Time, expires: Nat \ {0}, fresh: BOOLEAN] \cup {NoRow}

\* A claim as list() returns it: which row, and since when it is held.
Claim  == [path: Paths, holder: Agents, taken: Time]
Notice == [taken: Time, count: Nat]

Phases   == {"idle", "upserting", "listing", "telling"}
Activity == [pc: Phases, project: Projects \cup {"none"}, path: Paths \cup {"none"},
             at: Time, lease: Nat, source: Sources \cup {"sweep", "none"},
             renewed: BOOLEAN, found: SUBSET Claim, unrecorded: SUBSET Claim]
Idle == [pc |-> "idle", project |-> "none", path |-> "none", at |-> 0, lease |-> 0,
         source |-> "none", renewed |-> FALSE, found |-> {}, unrecorded |-> {}]

ProcsOf(a)    == {p \in Procs : Owner[p] = a}
UnderWay(a)   == {proc[p].path : p \in {q \in ProcsOf(a) : proc[q].pc = "upserting"}}
Exists(P, a)  == claims[<<P, a>>] # NoRow
Live(P, a)    == claims[<<P, a>>].expires > now
Overlaps(P, Q) == <<P, Q>> \in Overlap
Become(p, activity) == proc' = [proc EXCEPT ![p] = activity]
Starts(p, command)  == command \in Runs[p] /\ proc[p].pc = "idle"
AsClaim(P, a) == [path |-> P, holder |-> a, taken |-> claims[<<P, a>>].taken]

\* list(project, live_only)
Listed(project) == {r \in Rows : Live(r[1], r[2]) /\ claims[r].project = project}

-----------------------------------------------------------------------------
Init ==
  /\ claims = [r \in Rows |-> NoRow]
  /\ notices = [a \in Agents |-> [r \in Rows |-> [taken |-> 0, count |-> 0]]]
  /\ now = 1
  /\ proc = [p \in Procs |-> Idle]
  /\ told = [a \in Agents |-> {}]
  /\ lost = [a \in Agents |-> {}]
  /\ fails = 0
  /\ mayHold = [a \in Agents |-> {}]

Tick ==
  /\ now < MaxClock
  /\ now' = now + 1
  /\ UNCHANGED <<claims, notices, proc, told, lost, fails, mayHold>>

(* take(): the clock is read and the own row looked for.  Two readings of  *)
(* the clock never agree, so no two claims are taken at one instant.       *)
Begin(p, source, project, P, lease) ==
  /\ Starts(p, source)
  /\ now < MaxClock
  /\ now' = now + 1
  /\ Become(p, [pc |-> "upserting", project |-> project, path |-> P, at |-> now,
                lease |-> lease, source |-> source, renewed |-> Exists(P, Owner[p]),
                found |-> {}, unrecorded |-> {}])
  /\ mayHold' = [mayHold EXCEPT ![Owner[p]] = @ \cup {P}]
  /\ UNCHANGED <<claims, notices, told, lost, fails>>

\* An UPDATE without the INSERT: a first claim gets a deadline and nothing else.
UpsertFault(p) ==
  LET P == proc[p].path  a == Owner[p] IN
  /\ proc[p].pc = "upserting"
  /\ claims' = [claims EXCEPT ![<<P, a>>] = [@ EXCEPT !.expires = proc[p].at + proc[p].lease]]
  /\ Become(p, [proc[p] EXCEPT !.pc = "listing"])
  /\ UNCHANGED <<notices, now, told, lost, fails, mayHold>>

\* The upsert extends a row and leaves its project and taken_at alone.
Upsert(p) ==
  LET P == proc[p].path  a == Owner[p]  expires == proc[p].at + proc[p].lease IN
  /\ proc[p].pc = "upserting"
  /\ claims' = [claims EXCEPT ![<<P, a>>] =
       IF Exists(P, a) THEN [@ EXCEPT !.expires = expires, !.fresh = FALSE]
       ELSE [project |-> proc[p].project, taken |-> proc[p].at,
             expires |-> expires, fresh |-> ~proc[p].renewed]]
  /\ Become(p, [proc[p] EXCEPT !.pc = "listing"])
  /\ UNCHANGED <<notices, now, told, lost, fails, mayHold>>

\* Reports only the claims that were there before this one.
ConflictsWithFault(a, project, P, at) ==
  {AsClaim(r[1], r[2]) : r \in {s \in Listed(project) :
     s[2] # a /\ claims[s].taken < at /\ Overlaps(s[1], P)}}

\* conflicts_with(): others' claims of this project that are live now and were at `at`.
ConflictsWith(a, project, P, at) ==
  {AsClaim(r[1], r[2]) : r \in {s \in Listed(project) :
     s[2] # a /\ claims[s].expires > at /\ Overlaps(s[1], P)}}

\* `amb claim` prints every conflict; an observed edit none on a renewal, and
\* what it prints it records as a notice first.
ToReport(p, conflicts) ==
  IF proc[p].source = "observed" /\ proc[p].renewed THEN {} ELSE conflicts

\* Prints one conflict and records them all, as a render cap would (D33).
TellFault(p, source, conflicts) ==
  Become(p, IF conflicts = {} THEN Idle
            ELSE [Idle EXCEPT !.pc = "telling", !.source = source,
                              !.found = {CHOOSE c \in conflicts : TRUE},
                              !.unrecorded = IF source = "declared" THEN {} ELSE conflicts])

Tell(p, source, conflicts) ==
  Become(p, IF conflicts = {} THEN Idle
            ELSE [Idle EXCEPT !.pc = "telling", !.source = source, !.found = conflicts,
                              !.unrecorded = IF source = "declared" THEN {} ELSE conflicts])

ListConflicts(p) ==
  /\ proc[p].pc = "listing"
  /\ LET conflicts == ConflictsWith(Owner[p], proc[p].project, proc[p].path, proc[p].at)
     IN  Tell(p, proc[p].source, ToReport(p, conflicts))
  /\ UNCHANGED <<claims, notices, now, told, lost, fails, mayHold>>

(* hook_deliver()'s turn-boundary sweep: my_conflicts() re-lists the claims *)
(* that overlap one of the reader's own, less those it was told of          *)
(* MAX_CONFLICT_NOTICES times since their holder took them.                 *)
\* Forgets that a claim released and taken afresh is news again.
NoticeExhaustedFault(a, c) == notices[a][<<c.path, c.holder>>].count >= MaxNotices

NoticeExhausted(a, c) ==
  LET n == notices[a][<<c.path, c.holder>>]
  IN  n.taken = c.taken /\ n.count >= MaxNotices

MyConflicts(a, project) ==
  LET mine   == {r[1] : r \in {s \in Listed(project) : s[2] = a}}
      others == {AsClaim(r[1], r[2]) : r \in {s \in Listed(project) : s[2] # a}}
  IN  {c \in others : (\E P \in mine : Overlaps(P, c.path)) /\ ~NoticeExhausted(a, c)}

Sweep(p, project) ==
  /\ Starts(p, "sweep")
  /\ MyConflicts(Owner[p], project) # {}
  /\ Tell(p, "sweep", MyConflicts(Owner[p], project))
  /\ UNCHANGED <<claims, notices, now, told, lost, fails, mayHold>>

\* record_notices(), one autocommitted upsert per claim.
RecordNotice(p, c) ==
  LET key == <<c.path, c.holder>> IN
  /\ proc[p].pc = "telling"
  /\ c \in proc[p].unrecorded
  /\ notices' = [notices EXCEPT ![Owner[p]][key] =
       [taken |-> c.taken, count |-> IF @.taken = c.taken THEN @.count + 1 ELSE 1]]
  /\ Become(p, [proc[p] EXCEPT !.unrecorded = @ \ {c}])
  /\ UNCHANGED <<claims, now, told, lost, fails, mayHold>>

Emit(p) ==
  /\ proc[p].pc = "telling"
  /\ proc[p].unrecorded = {}
  /\ told' = [told EXCEPT ![Owner[p]] = @ \cup proc[p].found]
  /\ Become(p, Idle)
  /\ UNCHANGED <<claims, notices, now, lost, fails, mayHold>>

(* The process dies, or a statement of its command fails: what it had not  *)
(* printed its session never reads.  A row it took stays, a notice it      *)
(* recorded stays spent.                                                   *)
Fail(p) ==
  LET cut == {r \in Rows : /\ proc[p].pc = "listing"
                           /\ r = <<proc[p].path, Owner[p]>> /\ claims[r].taken = proc[p].at} IN
  /\ proc[p].pc # "idle"
  /\ fails < MaxFails
  /\ fails' = fails + 1
  /\ lost' = [lost EXCEPT ![Owner[p]] = @ \cup proc[p].found]
  /\ claims' = [r \in Rows |-> IF r \in cut THEN [claims[r] EXCEPT !.fresh = FALSE] ELSE claims[r]]
  /\ Become(p, Idle)
  /\ UNCHANGED <<notices, now, told, mayHold>>

Release(p, P) ==
  /\ Starts(p, "release")
  /\ Exists(P, Owner[p])
  /\ claims' = [claims EXCEPT ![<<P, Owner[p]>>] = NoRow]
  /\ UNCHANGED <<notices, now, proc, told, lost, fails, mayHold>>

\* Only the claims of the project the hook happened to run in.
EndSessionFault(p) ==
  LET a == Owner[p] IN
  /\ Starts(p, "end")
  /\ \E project \in Home[a] :
       claims' = [r \in Rows |-> IF r[2] = a /\ Live(r[1], a) /\ claims[r].project = project
                                 THEN [claims[r] EXCEPT !.expires = now] ELSE claims[r]]
  /\ mayHold' = [mayHold EXCEPT ![a] = UnderWay(a)]
  /\ UNCHANGED <<notices, now, proc, told, lost, fails>>

\* SessionEnd: every live claim of the session lapses, whatever its project.
EndSession(p) ==
  LET a == Owner[p] IN
  /\ Starts(p, "end")
  /\ claims' = [r \in Rows |-> IF r[2] = a /\ Live(r[1], a)
                               THEN [claims[r] EXCEPT !.expires = now] ELSE claims[r]]
  /\ mayHold' = [mayHold EXCEPT ![a] = UnderWay(a)]
  /\ UNCHANGED <<notices, now, proc, told, lost, fails>>

Finish(p) ==
  \/ Upsert(p)
  \/ ListConflicts(p)
  \/ \E c \in proc[p].unrecorded : RecordNotice(p, c)
  \/ Emit(p)

Step(p) ==
  \/ \E source \in Sources, project \in Home[Owner[p]], P \in Paths, lease \in Leases :
        Begin(p, source, project, P, lease)
  \/ Upsert(p)
  \/ ListConflicts(p)
  \/ \E project \in Home[Owner[p]] : Sweep(p, project)
  \/ \E c \in Claim : RecordNotice(p, c)
  \/ Emit(p)
  \/ Fail(p)
  \/ \E P \in Paths : Release(p, P)
  \/ EndSession(p)

Next == Tick \/ \E p \in Procs : Step(p)

Spec == Init /\ [][Next]_vars

(* A hook that started runs to its end unless it fails, and every session  *)
(* keeps finishing turns.  Nobody is obliged to edit, claim, release, fail *)
(* or leave.                                                               *)
Fairness ==
  /\ \A p \in Procs : WF_vars(Finish(p))
  /\ \A a \in Agents :
       SF_vars(\E p \in ProcsOf(a) : \E project \in Home[a] : Sweep(p, project))

FairSpec == Spec /\ Fairness

-----------------------------------------------------------------------------
TypeOK ==
  /\ claims \in [Rows -> Row]
  /\ notices \in [Agents -> [Rows -> Notice]]
  /\ now \in 1..MaxClock
  /\ proc \in [Procs -> Activity]
  /\ told \in [Agents -> SUBSET Claim]
  /\ lost \in [Agents -> SUBSET Claim]
  /\ fails \in 0..MaxFails
  /\ mayHold \in [Agents -> SUBSET Paths]

\* Two sessions hold overlapping live claims in one project.
Collide(P, a, Q, b) ==
  /\ a # b /\ Overlaps(P, Q)
  /\ Live(P, a) /\ Live(Q, b)
  /\ claims[<<P, a>>].project = claims[<<Q, b>>].project

AllIdle(a) == \A p \in ProcsOf(a) : proc[p].pc = "idle"

(* Two sessions that take overlapping claims at the same time can not both *)
(* miss each other: each upserts before it lists, so once both hooks are   *)
(* through, at least one was told of the other, or failed with it found    *)
(* and unprinted (claims.rs:256-281).  Rows extended since, or whose taker *)
(* took them for a renewal, are left out: a renewal reports nothing.  So   *)
(* are rows whose taker failed before it listed: nobody looked.            *)
FirstContact ==
  \A a, b \in Agents, P, Q \in Paths :
    ( /\ Collide(P, a, Q, b) /\ claims[<<P, a>>].fresh /\ claims[<<Q, b>>].fresh
      /\ AllIdle(a) /\ AllIdle(b) )
    => AsClaim(Q, b) \in told[a] \cup lost[a] \/ AsClaim(P, a) \in told[b] \cup lost[b]

(* SessionEnd lapses a session's claims in every project: a claim live     *)
(* afterwards is on a path some hook of the session set out to take since, *)
(* or looked up its row for before and had still to upsert then (D109).    *)
EndedSessionsHoldNothing ==
  \A a \in Agents, P \in Paths : Live(P, a) => P \in mayHold[a]

(* The notice budget is spent on what the agent was shown, except by a     *)
(* process that failed between the autocommitted notice and the print: a   *)
(* recorded notice is of a claim already printed to its reader, about to   *)
(* be, or lost with a process of it (D44, emit's order, main.rs:1565-1570).*)
NoticesAreOfToldClaims ==
  \A a \in Agents, r \in Rows :
    LET n == notices[a][r] IN
    n.count > 0 =>
      \/ [path |-> r[1], holder |-> r[2], taken |-> n.taken] \in told[a] \cup lost[a]
      \/ \E p \in ProcsOf(a) : \E c \in proc[p].found :
           c.path = r[1] /\ c.holder = r[2] /\ c.taken = n.taken

(* A collision does not stay unknown: as long as two sessions hold         *)
(* overlapping live claims in one project, each is one day told of the     *)
(* other's, also when the edit hook stayed silent because it was renewing  *)
(* or failed before it printed, and also after an earlier claim of that    *)
(* holder used up its notices.  Only a claim whose own notices failing     *)
(* processes used up stays untold (record_notices, main.rs:1569-1570).     *)
Burnt(a, c) == c \in lost[a] /\ NoticeExhausted(a, c)
Untold(a, Q, b) ==
  /\ \E P \in Paths : Collide(P, a, Q, b)
  /\ AsClaim(Q, b) \notin told[a]
  /\ ~Burnt(a, AsClaim(Q, b))
CollisionsAreTold ==
  \A a \in Agents, Q \in Paths :
    \A b \in Agents \ {a} : []<>~Untold(a, Q, b)
=============================================================================
