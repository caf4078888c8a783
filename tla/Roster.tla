------------------------------- MODULE Roster -------------------------------
(***************************************************************************)
(* The roster (src/identity.rs): every command of a session first puts the *)
(* session on the board, or refreshes its row, under a display name that   *)
(* is unique in its project.  `register` is a series of statements, each   *)
(* its own autocommit, and other sessions' commands run in between: walk   *)
(* the candidate names and, for a name somebody asked for, look its holder *)
(* up, rename a holder that is gone, and try once more.                    *)
(***************************************************************************)
EXTENDS Integers, Sequences, FiniteSets

CONSTANTS
  Sessions,  \* session ids, the routing keys
  Projects,  \* project names
  Chosen,    \* names somebody may ask for with `amb register --name`
  NoName,    \* no explicit name was given; no name was found
  Refs,      \* session ids and the prefixes of them that may stand for one
  Prefixes,  \* Prefixes[s]: the prefixes REF_WIDTHS takes of s, then s itself
  Procs,     \* processes that may be alive at the same time
  Owner,     \* Owner[p]: the session process p belongs to
  Known,     \* sessions whose pid the host lets a command discover
  Window,    \* identity.rs ASSUMED_ALIVE_FOR_SECS, in clock units
  MaxStarts, \* bound: how often each session is started or resumed
  MaxClock   \* bound: the last instant of the wall clock

ASSUME NamesAssumption ==
  /\ Sessions \subseteq Refs
  /\ NoName \notin Chosen \cup Refs \cup (Projects \X Refs)
  /\ Chosen \cap (Projects \X Refs) = {}

\* The short refs of two sessions may agree, their ids do not.
ASSUME PrefixesAssumption ==
  /\ Prefixes \in [Sessions -> Seq(Refs)]
  /\ \A s \in Sessions : Prefixes[s] # << >> /\ Prefixes[s][Len(Prefixes[s])] = s
  /\ \A s, t \in Sessions : s # t => \A i \in DOMAIN Prefixes[t] : Prefixes[t][i] # s

ASSUME RosterAssumption ==
  /\ Owner \in [Procs -> Sessions]
  /\ Known \subseteq Sessions
  /\ MaxStarts \in [Sessions -> Nat] /\ Window \in Nat /\ MaxClock \in Nat \ {0}

VARIABLES
  agents,  \* the agents table: one row per session id
  running, \* running[s]: which start of s is running now, 0 for none: its pid
  starts,  \* how often s was started
  now,     \* the wall clock
  proc     \* what each process is in the middle of

vars == <<agents, running, starts, now, proc>>

-----------------------------------------------------------------------------
\* A name somebody chose, or one made of a project and a ref.
Names   == Chosen \cup (Projects \X Refs)
Pids    == Nat            \* 0 is NULL
Time    == 0..MaxClock

\* A session not on the board yet has no row; every row has a name.
NoRow == [name |-> NoName, project |-> NoName, pid |-> 0, seen |-> 0]
Row   == [name: Names, project: Projects, pid: Pids, seen: Time]

Phases == {"idle", "touching", "seeking", "displacing", "retrying", "refused"}
Activity == [pc: Phases, project: Projects \cup {NoName}, explicit: Chosen \cup {NoName},
             rung: Nat, at: Time, pid: Pids,
             holder: Sessions \cup {NoName}, found: Row \cup {NoRow}]
Idle == [pc |-> "idle", project |-> NoName, explicit |-> NoName, rung |-> 0,
         at |-> 0, pid |-> 0, holder |-> NoName, found |-> NoRow]

OnBoard(s) == agents[s] # NoRow
Become(p, activity) == proc' = [proc EXCEPT ![p] = activity]

\* ux_agents_name: some other session's row has this name in this project.
Held(s, project, name) ==
  \E t \in Sessions \ {s} : agents[t].project = project /\ agents[t].name = name

\* default_name()
DefaultName(project, s) == <<project, Prefixes[s][1]>>

\* The ladder stops at the widest short ref.
CandidatesFault(s, project, explicit) ==
  IF explicit # NoName THEN <<explicit>>
  ELSE <<DefaultName(project, s)>>

\* name_candidates(), or the one name that was asked for.
Candidates(s, project, explicit) ==
  IF explicit # NoName THEN <<explicit>>
  ELSE [i \in DOMAIN Prefixes[s] |-> <<project, Prefixes[s][i]>>]

-----------------------------------------------------------------------------
(* is_alive(): kill(pid, 0) where there is a pid to ask about, else how    *)
(* recently the session ran a command.  Pids are not reused here.          *)
GoneAt(s, at) ==
  IF agents[s].pid # 0 THEN running[s] # agents[s].pid
  ELSE at - agents[s].seen >= Window

\* Unknown counts as gone.
ReclaimableFault(s, me, at) ==
  s # me /\ running[s] # agents[s].pid

Reclaimable(s, me, at) == s # me /\ GoneAt(s, at)

(* resolve_recipient(): exact id first, then a short ref in the project,   *)
(* then a display name in it; ties are broken by nothing.                  *)
Short(s) == Prefixes[s][1]
ById(word)             == {s \in Sessions : OnBoard(s) /\ s = word}
ByRef(word, project)   == {s \in Sessions : agents[s].project = project /\ Short(s) = word}
ByName(word, project)  == {s \in Sessions : agents[s].project = project /\ agents[s].name = word}

\* Someone who took another's id as a name shadows it.
ResolveFault(word, project) ==
  IF ByName(word, project) # {} THEN ByName(word, project)
  ELSE IF ById(word) # {} THEN ById(word) ELSE ByRef(word, project)

Resolve(word, project) ==
  IF ById(word) # {} THEN ById(word)
  ELSE IF ByRef(word, project) # {} THEN ByRef(word, project)
  ELSE ByName(word, project)

-----------------------------------------------------------------------------
Init ==
  /\ agents = [s \in Sessions |-> NoRow]
  /\ running = [s \in Sessions |-> 0]
  /\ starts = [s \in Sessions |-> 0]
  /\ now = 1
  /\ proc = [p \in Procs |-> Idle]

Tick ==
  /\ now < MaxClock
  /\ now' = now + 1
  /\ UNCHANGED <<agents, running, starts, proc>>

\* The host starts a session, or resumes one that ended, as a new process.
Start(s) ==
  /\ running[s] = 0
  /\ starts[s] < MaxStarts[s]
  /\ starts' = [starts EXCEPT ![s] = @ + 1]
  /\ running' = [running EXCEPT ![s] = starts[s] + 1]
  /\ UNCHANGED <<agents, now, proc>>

Exit(s) ==
  /\ running[s] # 0
  /\ running' = [running EXCEPT ![s] = 0]
  /\ UNCHANGED <<agents, starts, now, proc>>

(* register(): the clock and the pid are read once, then the candidates    *)
(* are tried in order.                                                     *)
Begin(p, project, explicit) ==
  LET s == Owner[p] IN
  /\ proc[p].pc \in {"idle", "refused"}
  /\ running[s] # 0
  /\ Become(p, [Idle EXCEPT !.pc = "touching", !.project = project, !.explicit = explicit,
                            !.rung = 1, !.at = now,
                            !.pid = IF s \in Known THEN running[s] ELSE 0])
  /\ UNCHANGED <<agents, running, starts, now>>

\* Every touch renames the session to its candidate.
TouchedRowFault(p, candidate) ==
  [name |-> candidate, project |-> proc[p].project, pid |-> proc[p].pid, seen |-> proc[p].at]

\* Binds the explicit name where the candidate belongs.
UnnamedRowFault(p, candidate) ==
  [name |-> IF OnBoard(Owner[p]) /\ proc[p].explicit = NoName
            THEN agents[Owner[p]].name ELSE proc[p].explicit,
   project |-> proc[p].project, pid |-> proc[p].pid, seen |-> proc[p].at]

\* try_touch(): an existing row keeps its name unless one was asked for.
TouchedRow(p, candidate) ==
  [name    |-> IF OnBoard(Owner[p]) /\ proc[p].explicit = NoName
               THEN agents[Owner[p]].name ELSE candidate,
   project |-> proc[p].project, pid |-> proc[p].pid, seen |-> proc[p].at]

Refuse(p) == Become(p, [Idle EXCEPT !.pc = "refused", !.explicit = proc[p].explicit])

\* The upsert, when the unique index allows it.
Upsert(p, row) ==
  /\ ~Held(Owner[p], row.project, row.name)
  /\ agents' = [agents EXCEPT ![Owner[p]] = row]
  /\ Become(p, Idle)

TryTouch(p) ==
  LET names == Candidates(Owner[p], proc[p].project, proc[p].explicit)
      row   == TouchedRow(p, names[proc[p].rung])
  IN  /\ proc[p].pc = "touching"
      /\ \/ Upsert(p, row)
         \/ /\ Held(Owner[p], row.project, row.name)
            /\ IF proc[p].rung < Len(names) THEN Become(p, [proc[p] EXCEPT !.rung = @ + 1])
               ELSE IF proc[p].explicit # NoName THEN Become(p, [proc[p] EXCEPT !.pc = "seeking"])
               ELSE Refuse(p)
            /\ UNCHANGED agents
      /\ UNCHANGED <<running, starts, now>>

\* reclaim(): who holds the name, and is that session gone?
SeekHolder(p) ==
  LET s == Owner[p]  holders == {t \in Sessions : agents[t].project = proc[p].project
                                                  /\ agents[t].name = proc[p].explicit}
  IN  /\ proc[p].pc = "seeking"
      /\ \/ \E t \in holders :
              /\ Reclaimable(t, s, proc[p].at)
              /\ Become(p, [proc[p] EXCEPT !.pc = "displacing", !.holder = t, !.found = agents[t]])
         \/ /\ \A t \in holders : ~Reclaimable(t, s, proc[p].at)
            /\ Refuse(p)
      /\ UNCHANGED <<agents, running, starts, now>>

\* The rename names the row by its id alone, whatever became of it meanwhile.
Displace(p) ==
  LET t == proc[p].holder  fallback == DefaultName(proc[p].project, t) IN
  /\ proc[p].pc = "displacing"
  /\ \/ /\ ~Held(t, agents[t].project, fallback)
        /\ agents' = [agents EXCEPT ![t].name = fallback]
        /\ Become(p, [proc[p] EXCEPT !.pc = "retrying"])
     \/ /\ Held(t, agents[t].project, fallback)
        /\ Refuse(p)
        /\ UNCHANGED agents
  /\ UNCHANGED <<running, starts, now>>

Retry(p) ==
  LET row == TouchedRow(p, proc[p].explicit) IN
  /\ proc[p].pc = "retrying"
  /\ \/ Upsert(p, row)
     \/ Held(Owner[p], row.project, row.name) /\ Refuse(p) /\ UNCHANGED agents
  /\ UNCHANGED <<running, starts, now>>

Step(p) ==
  \/ \E project \in Projects, explicit \in Chosen \cup {NoName} : Begin(p, project, explicit)
  \/ TryTouch(p)
  \/ SeekHolder(p)
  \/ Displace(p)
  \/ Retry(p)

Next ==
  \/ Tick
  \/ \E s \in Sessions : Start(s) \/ Exit(s)
  \/ \E p \in Procs : Step(p)

Spec == Init /\ [][Next]_vars

-----------------------------------------------------------------------------
TypeOK ==
  /\ agents \in [Sessions -> Row \cup {NoRow}]
  /\ running \in [Sessions -> Pids] /\ starts \in [Sessions -> Pids]
  /\ now \in 1..MaxClock
  /\ proc \in [Procs -> Activity]

(* Mail for a session reaches that session: its id resolves to it in every *)
(* project, whatever names others took, and so does, in its project, its   *)
(* display name, unless that is spelled like somebody's id or short ref    *)
(* (resolve_recipient, messages.rs:44-52; D18).                            *)
AddressesReachOneSession ==
  \A s \in Sessions : OnBoard(s) =>
    /\ \A project \in Projects : Resolve(s, project) = {s}
    /\ agents[s].name \notin Refs => Resolve(agents[s].name, agents[s].project) = {s}

Implicit(p)  == proc[p].explicit = NoName
Refused(p)   == proc[p].pc # "refused" /\ proc'[p].pc = "refused"

(* A session that never registered always gets onto the board, however     *)
(* many others share its short ref: the last candidate is the full id      *)
(* (identity.rs:182-184, D32).                                             *)
NewSessionsAreNamed ==
  [][\A p \in Procs : Refused(p) /\ Implicit(p) => OnBoard(Owner[p])]_vars

(* A chosen name stays with its session: only a command that asks for      *)
(* another, or a reclamation by somebody who found the session gone, takes *)
(* it away, never the upsert that every command starts with (D12, D75).    *)
ChosenNamesStick ==
  [][\A s \in Sessions :
       (agents[s].name \in Chosen /\ agents'[s].name # agents[s].name) =>
         \E p \in Procs : \/ Owner[p] = s /\ ~Implicit(p)
                          \/ proc[p].pc = "displacing" /\ proc[p].holder = s]_vars

(* A name is taken from its holder only when that session is gone, as far  *)
(* as the roster can tell, unless it touched its row between being looked  *)
(* up and being renamed (identity.rs:226-234, 267-275).                    *)
OnlyTheGoneAreDisplaced ==
  [][\A p \in Procs :
       LET t == proc[p].holder IN
       ( proc[p].pc = "displacing" /\ proc'[p].pc = "retrying" /\ agents[t] = proc[p].found )
         => GoneAt(t, now)]_vars

(* What identity.rs:182-184 and docs/DESIGN.md:195-198 say of a command    *)
(* that asks for no name: it is never locked out.                          *)
NobodyIsLockedOut ==
  \A p \in Procs : proc[p].pc = "refused" => ~Implicit(p)
=============================================================================
