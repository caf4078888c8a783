---------------------------- MODULE RosterProofs ----------------------------
(***************************************************************************)
(* Theorems about Roster for every set of sessions, projects, names and    *)
(* processes, whatever prefixes two sessions share.                        *)
(***************************************************************************)
EXTENDS Roster, SequenceTheorems, TLAPS

USE NamesAssumption, PrefixesAssumption, RosterAssumption

-----------------------------------------------------------------------------
(* The names a session may bear: one that was chosen, or a candidate of    *)
(* its own in some project.                                                *)
Derived(s)  == {<<x[1], Prefixes[s][x[2]]>> : x \in Projects \X (DOMAIN Prefixes[s])}
OwnNames(s) == Chosen \cup Derived(s)

(* A derived name ends in a ref of the session, and a ref of one session   *)
(* is never another's whole id.                                            *)
LEMMA DerivedNames ==
  ASSUME NEW s \in Sessions
  PROVE  /\ \A project \in Projects, i \in DOMAIN Prefixes[s] :
              <<project, Prefixes[s][i]>> \in Derived(s)
         /\ Derived(s) \subseteq Projects \X Refs
         /\ \A t \in Sessions \ {s}, project \in Projects : <<project, t>> \notin Derived(s)
         /\ OwnNames(s) \subseteq Names /\ NoName \notin Names
<1>1. \A i \in DOMAIN Prefixes[s] : Prefixes[s][i] \in Refs
  BY ElementOfSeq, LenProperties
<1>2. \A project \in Projects, i \in DOMAIN Prefixes[s] : <<project, Prefixes[s][i]>> \in Derived(s)
  <2>1. ASSUME NEW project \in Projects, NEW i \in DOMAIN Prefixes[s]
        PROVE  <<project, Prefixes[s][i]>> \in Derived(s)
    <3>1. <<project, i>> \in Projects \X (DOMAIN Prefixes[s])
      OBVIOUS
    <3> QED
      BY <3>1 DEF Derived
  <2> QED
    BY <2>1
<1>3. ASSUME NEW n \in Derived(s)
      PROVE  \E project \in Projects, i \in DOMAIN Prefixes[s] : n = <<project, Prefixes[s][i]>>
  <2>1. PICK x \in Projects \X (DOMAIN Prefixes[s]) : n = <<x[1], Prefixes[s][x[2]]>>
    BY DEF Derived
  <2>2. x[1] \in Projects /\ x[2] \in DOMAIN Prefixes[s]
    BY <2>1
  <2> QED
    BY <2>1, <2>2
<1>4. Derived(s) \subseteq Projects \X Refs
  BY <1>1, <1>3
<1>5. \A t \in Sessions \ {s}, project \in Projects : <<project, t>> \notin Derived(s)
  BY <1>3
<1>6. OwnNames(s) \subseteq Names /\ NoName \notin Names
  BY <1>4 DEF OwnNames, Names
<1> QED
  BY <1>2, <1>4, <1>5, <1>6

(* There is always a first ref, and the last is the session's id.          *)
LEMMA PrefixesOf ==
  ASSUME NEW s \in Sessions
  PROVE  /\ Len(Prefixes[s]) \in Nat \ {0} /\ DOMAIN Prefixes[s] = 1..Len(Prefixes[s])
         /\ Prefixes[s][Len(Prefixes[s])] = s /\ Short(s) \in Refs
         /\ \A project \in Projects : DefaultName(project, s) \in Derived(s)
<1>1. Prefixes[s] \in Seq(Refs) /\ Prefixes[s] # <<>> /\ Prefixes[s][Len(Prefixes[s])] = s
  OBVIOUS
<1>2. Len(Prefixes[s]) \in Nat \ {0} /\ DOMAIN Prefixes[s] = 1..Len(Prefixes[s])
  BY <1>1, EmptySeq, LenProperties
<1>3. 1 \in DOMAIN Prefixes[s] /\ 1 \in 1..Len(Prefixes[s])
  BY <1>2
<1>4. Short(s) \in Refs
  BY <1>1, <1>3, ElementOfSeq DEF Short
<1>5. \A project \in Projects : DefaultName(project, s) \in Derived(s)
  BY <1>3, DerivedNames DEF DefaultName
<1> QED
  BY <1>1, <1>2, <1>4, <1>5

(* The candidates are the one name asked for, or one per ref of the        *)
(* session, the last of them its id.                                       *)
LEMMA CandidatesOf ==
  ASSUME NEW s \in Sessions, NEW project \in Projects, NEW explicit \in Chosen \cup {NoName}
  PROVE  LET names == Candidates(s, project, explicit) IN
         /\ Len(names) \in Nat \ {0}
         /\ explicit # NoName => Len(names) = 1 /\ names[1] = explicit
         /\ explicit = NoName =>
              /\ \A i \in 1..Len(names) : names[i] \in Derived(s)
              /\ names[Len(names)] = <<project, s>>
<1> DEFINE names == Candidates(s, project, explicit)
<1>1. CASE explicit # NoName
  <2>1. names = <<explicit>>
    BY <1>1 DEF Candidates
  <2> QED
    BY <1>1, <2>1
<1>2. CASE explicit = NoName
  <2> DEFINE n == Len(Prefixes[s])
  <2>1. /\ n \in Nat \ {0} /\ DOMAIN Prefixes[s] = 1..n /\ Prefixes[s][n] = s
    BY PrefixesOf
  <2>2. names = [i \in DOMAIN Prefixes[s] |-> <<project, Prefixes[s][i]>>]
    BY <1>2 DEF Candidates
  <2>3. \A i \in 1..n : <<project, Prefixes[s][i]>> \in Derived(s)
    BY <2>1, DerivedNames
  <2> HIDE DEF names, n
  <2>4. names \in [1..n -> Derived(s)] /\ \A i \in 1..n : names[i] = <<project, Prefixes[s][i]>>
    BY <2>1, <2>2, <2>3
  <2>5. names \in Seq(Derived(s))
    BY <2>1, <2>4, SeqDef
  <2>6. Len(names) \in Nat /\ 1..Len(names) = 1..n
    BY <2>4, <2>5, LenProperties
  <2>7. Len(names) = n
    BY <2>1, <2>6
  <2> QED
    BY <1>2, <2>1, <2>4, <2>7 DEF names
<1> QED
  BY <1>1, <1>2

-----------------------------------------------------------------------------
(* A session on the board bears a name of its own, and no pid on record is *)
(* one that was not handed out yet.                                        *)
Named(s) ==
  /\ OnBoard(s) => agents[s].name \in OwnNames(s)
  /\ running[s] <= starts[s] /\ agents[s].pid <= starts[s]
AllNamed == \A s \in Sessions : Named(s)

(* ux_agents_name: a name is borne by one session of a project.            *)
Unique ==
  \A s, t \in Sessions :
    OnBoard(s) /\ agents[t].project = agents[s].project /\ agents[t].name = agents[s].name
      => s = t

(* The session this row was read of was gone by then, hence still is.      *)
GoneSince(s, row) ==
  IF row.pid # 0 THEN running[s] # row.pid ELSE now - row.seen >= Window

(* What a process in the middle of a registration goes by.                 *)
Registering(p) ==
  LET names == Candidates(Owner[p], proc[p].project, proc[p].explicit) IN
  /\ proc[p].pc \notin {"idle", "refused"} => proc[p].project \in Projects
  /\ proc[p].pc = "touching" => proc[p].rung \in 1..Len(names)
  /\ proc[p].pc \in {"seeking", "displacing", "retrying"} => proc[p].explicit # NoName
  /\ proc[p].at <= now /\ proc[p].pid <= starts[Owner[p]]
  /\ proc[p].pc = "displacing" =>
       /\ proc[p].holder \in Sessions /\ OnBoard(proc[p].holder) /\ proc[p].found \in Row
       /\ proc[p].found.pid <= starts[proc[p].holder]
       /\ GoneSince(proc[p].holder, proc[p].found)
AllRegistering == \A p \in Procs : Registering(p)

Inv == TypeOK /\ AllNamed /\ Unique /\ AllRegistering

(* A session is on the board once its row has a name.                      *)
LEMMA BoardRows ==
  ASSUME TypeOK, NEW s \in Sessions
  PROVE  /\ OnBoard(s) <=> agents[s] \in Row
         /\ OnBoard(s) <=> agents[s].name # NoName
         /\ agents[s].pid \in Nat /\ agents[s].seen \in Nat
<1>1. agents[s] \in Row \cup {NoRow}
  BY DEF TypeOK
<1>2. NoRow.name = NoName /\ NoRow.pid = 0 /\ NoRow.seen = 0
  BY DEF NoRow
<1>3. ASSUME NEW r \in Row PROVE r.name \in Names /\ r.pid \in Nat /\ r.seen \in Nat
  BY DEF Row, Pids, Time
<1>4. NoName \notin Names
  BY DEF Names
<1> QED
  BY <1>1, <1>2, <1>3, <1>4 DEF OnBoard

(* An allowed new row leaves the roster named and unique.                  *)
LEMMA RowKeepsRoster ==
  ASSUME Inv, NEW s \in Sessions, NEW row \in Row,
         agents' = [agents EXCEPT ![s] = row], ~Held(s, row.project, row.name),
         row.name \in OwnNames(s), row.pid <= starts[s], UNCHANGED <<running, starts>>
  PROVE  /\ agents' \in [Sessions -> Row \cup {NoRow}] /\ AllNamed' /\ Unique'
         /\ \A t \in Sessions : OnBoard(t) => OnBoard(t)'
<1>0. TypeOK /\ AllNamed /\ Unique /\ agents \in [Sessions -> Row \cup {NoRow}]
  BY DEF Inv, TypeOK
<1>1. agents'[s] = row /\ \A t \in Sessions \ {s} : agents'[t] = agents[t]
  BY <1>0
<1>2. row # NoRow
  BY DerivedNames DEF NoRow
<1>3. \A t \in Sessions : OnBoard(t) => OnBoard(t)'
  BY <1>1, <1>2 DEF OnBoard
<1>4. AllNamed'
  BY <1>0, <1>1 DEF AllNamed, Named, OnBoard
<1>5. \A t \in Sessions \ {s} : ~(agents[t].project = row.project /\ agents[t].name = row.name)
  BY DEF Held
<1>6. Unique'
  BY <1>0, <1>1, <1>5 DEF Unique, OnBoard
<1> QED
  BY <1>0, <1>1, <1>3, <1>4, <1>6

(* What one process turns to leaves the others where they were.            *)
LEMMA BecomeKeepsRegistering ==
  ASSUME Inv, NEW p \in Procs, NEW act \in Activity, Become(p, act),
         UNCHANGED <<running, starts, now>>,
         \A t \in Sessions : OnBoard(t) => OnBoard(t)', Registering(p)'
  PROVE  proc' \in [Procs -> Activity] /\ AllRegistering'
<1>1. /\ proc' \in [Procs -> Activity] /\ \A q \in Procs \ {p} : proc'[q] = proc[q]
  BY DEF Inv, TypeOK, Become
<1>2. ASSUME NEW q \in Procs \ {p} PROVE Registering(q)'
  BY <1>1 DEF Inv, AllRegistering, Registering, GoneSince
<1> QED
  BY <1>1, <1>2 DEF AllRegistering

(* A process that gives up, or is through, has nothing left to go by.      *)
LEMMA RestType ==
  ASSUME NEW explicit \in Chosen \cup {NoName}
  PROVE  /\ Idle \in Activity /\ Idle.pc = "idle" /\ Idle.at = 0 /\ Idle.pid = 0
         /\ LET act == [Idle EXCEPT !.pc = "refused", !.explicit = explicit] IN
            act \in Activity /\ act.pc = "refused" /\ act.at = 0 /\ act.pid = 0
<1>1. Idle \in Activity /\ Idle.pc = "idle" /\ Idle.at = 0 /\ Idle.pid = 0
  BY DEF Idle, Activity, Phases, Time, Pids
<1> DEFINE act == [Idle EXCEPT !.pc = "refused", !.explicit = explicit]
<1>2. act \in Activity /\ act.pc = "refused" /\ act.at = Idle.at /\ act.pid = Idle.pid
  BY <1>1 DEF Activity, Phases
<1> QED
  BY <1>1, <1>2

(* Nobody is on the board, and nothing runs.                               *)
LEMMA InvInit == Init => Inv
<1> SUFFICES ASSUME Init PROVE Inv
  OBVIOUS
<1>1. Idle \in Activity /\ Idle.pc = "idle" /\ Idle.at = 0 /\ Idle.pid = 0 /\ NoRow.pid = 0
  BY RestType DEF NoRow
<1>2. TypeOK
  BY <1>1 DEF Init, TypeOK, Pids
<1>3. AllNamed /\ Unique
  BY <1>1 DEF Init, AllNamed, Named, Unique, OnBoard
<1>4. ASSUME NEW p \in Procs PROVE Registering(p)
  <2>1. proc[p] = Idle /\ now = 1 /\ starts[Owner[p]] = 0
    BY DEF Init
  <2> QED
    BY <1>1, <2>1 DEF Registering
<1> QED
  BY <1>2, <1>3, <1>4 DEF Inv, AllRegistering

(* The candidate at hand is a name of the session's own.                   *)
LEMMA CandidateAtHand ==
  ASSUME Inv, NEW p \in Procs, proc[p].pc = "touching"
  PROVE  LET names == Candidates(Owner[p], proc[p].project, proc[p].explicit) IN
         /\ names[proc[p].rung] \in OwnNames(Owner[p])
         /\ proc[p].explicit # NoName => names[proc[p].rung] \in Chosen
         /\ Len(names) \in Nat \ {0} /\ proc[p].rung \in 1..Len(names)
<1> DEFINE names == Candidates(Owner[p], proc[p].project, proc[p].explicit)
<1>1. /\ Owner[p] \in Sessions /\ proc[p].project \in Projects
      /\ proc[p].explicit \in Chosen \cup {NoName} /\ proc[p].rung \in 1..Len(names)
  BY DEF Inv, TypeOK, Activity, AllRegistering, Registering
<1>2. /\ Len(names) \in Nat \ {0}
      /\ proc[p].explicit # NoName => Len(names) = 1 /\ names[1] = proc[p].explicit
      /\ proc[p].explicit = NoName => \A i \in 1..Len(names) : names[i] \in Derived(Owner[p])
  BY <1>1, CandidatesOf
<1> HIDE DEF names
<1>3. CASE proc[p].explicit # NoName
  <2>0. Len(names) = 1 /\ names[1] = proc[p].explicit
    BY <1>2, <1>3, Zenon
  <2>1. proc[p].rung = 1 /\ names[1] \in Chosen
    BY <1>1, <1>3, <2>0
  <2>2. names[proc[p].rung] \in Chosen
    BY <2>1
  <2> QED
    BY <1>1, <1>2, <2>2 DEF names, OwnNames
<1>4. CASE proc[p].explicit = NoName
  BY <1>1, <1>2, <1>4 DEF names, OwnNames
<1> QED
  BY <1>3, <1>4

(* The row a touch writes is a row, under a name of the session's own.     *)
LEMMA TouchedRowType ==
  ASSUME Inv, NEW p \in Procs, proc[p].project \in Projects,
         NEW candidate \in OwnNames(Owner[p])
  PROVE  LET row == TouchedRow(p, candidate) IN
         /\ row \in Row /\ row.name \in OwnNames(Owner[p]) /\ row.pid <= starts[Owner[p]]
         /\ row.name = IF OnBoard(Owner[p]) /\ proc[p].explicit = NoName
                       THEN agents[Owner[p]].name ELSE candidate
<1> DEFINE s == Owner[p]
           name == IF OnBoard(s) /\ proc[p].explicit = NoName THEN agents[s].name ELSE candidate
           row == [name |-> name, project |-> proc[p].project, pid |-> proc[p].pid,
                   seen |-> proc[p].at]
<1>1. /\ s \in Sessions /\ proc[p] \in Activity /\ proc[p].pid <= starts[s]
      /\ OnBoard(s) => agents[s].name \in OwnNames(s)
  BY DEF Inv, TypeOK, AllNamed, Named, AllRegistering, Registering
<1>2. name \in OwnNames(s) /\ OwnNames(s) \subseteq Names
  BY <1>1, DerivedNames
<1>3. proc[p].pid \in Pids /\ proc[p].at \in Time
  BY <1>1 DEF Activity
<1>4. TouchedRow(p, candidate) = row
  BY DEF TouchedRow
<1> HIDE DEF name
<1>5. row \in Row /\ row.name = name /\ row.pid = proc[p].pid
  BY <1>2, <1>3 DEF Row
<1> HIDE DEF row
<1> QED
  BY <1>1, <1>2, <1>4, <1>5 DEF name

(* The upsert, of whichever row the process came to write.                 *)
LEMMA UpsertKeepsInv ==
  ASSUME Inv, NEW p \in Procs, NEW row \in Row, Upsert(p, row),
         row.name \in OwnNames(Owner[p]), row.pid <= starts[Owner[p]],
         UNCHANGED <<running, starts, now>>
  PROVE  Inv'
<1> DEFINE s == Owner[p]
<1>1. s \in Sessions /\ agents' = [agents EXCEPT ![s] = row] /\ Become(p, Idle)
      /\ ~Held(s, row.project, row.name)
  BY DEF Upsert
<1>2. /\ agents' \in [Sessions -> Row \cup {NoRow}] /\ AllNamed' /\ Unique'
      /\ \A t \in Sessions : OnBoard(t) => OnBoard(t)'
  BY <1>1, RowKeepsRoster
<1>3. proc'[p] = Idle /\ now \in Nat /\ starts[s] \in Nat
  BY <1>1 DEF Inv, TypeOK, Become, Pids
<1>4. Idle \in Activity /\ Idle.pc = "idle" /\ Idle.at = 0 /\ Idle.pid = 0
  BY RestType
<1>5. Registering(p)'
  BY <1>3, <1>4 DEF Registering
<1>6. proc' \in [Procs -> Activity] /\ AllRegistering'
  BY <1>1, <1>2, <1>4, <1>5, BecomeKeepsRegistering
<1> QED
  BY <1>2, <1>6 DEF Inv, TypeOK

(* A step that leaves the roster alone.                                    *)
LEMMA TurnKeepsInv ==
  ASSUME Inv, NEW p \in Procs, NEW act \in Activity, Become(p, act),
         UNCHANGED <<agents, running, starts, now>>, Registering(p)'
  PROVE  Inv'
<1>1. \A t \in Sessions : OnBoard(t) => OnBoard(t)'
  BY DEF OnBoard
<1>2. proc' \in [Procs -> Activity] /\ AllRegistering'
  BY <1>1, BecomeKeepsRegistering
<1> QED
  BY <1>2 DEF Inv, TypeOK, AllNamed, Named, Unique, OnBoard

LEMMA RefuseKeepsInv ==
  ASSUME Inv, NEW p \in Procs, Refuse(p), UNCHANGED <<agents, running, starts, now>>
  PROVE  Inv'
<1> DEFINE act == [Idle EXCEPT !.pc = "refused", !.explicit = proc[p].explicit]
<1>1. proc[p].explicit \in Chosen \cup {NoName} /\ now \in Nat /\ starts[Owner[p]] \in Nat
  BY DEF Inv, TypeOK, Activity, Pids
<1>2. act \in Activity /\ act.pc = "refused" /\ act.at = 0 /\ act.pid = 0
  BY <1>1, RestType
<1>3. Become(p, act)
  BY DEF Refuse
<1> HIDE DEF act
<1>4. proc'[p] = act
  BY <1>3 DEF Inv, TypeOK, Become
<1>5. Registering(p)'
  BY <1>1, <1>2, <1>4 DEF Registering
<1> QED
  BY <1>2, <1>3, <1>5, TurnKeepsInv

-----------------------------------------------------------------------------
LEMMA BeginKeepsInv ==
  ASSUME Inv, NEW p \in Procs, NEW project \in Projects, NEW explicit \in Chosen \cup {NoName},
         Begin(p, project, explicit)
  PROVE  Inv'
<1> DEFINE s == Owner[p]
           pid == IF s \in Known THEN running[s] ELSE 0
           act == [Idle EXCEPT !.pc = "touching", !.project = project, !.explicit = explicit,
                               !.rung = 1, !.at = now, !.pid = pid]
<1>1. /\ s \in Sessions /\ starts[s] \in Nat /\ pid \in Nat /\ pid <= starts[s]
      /\ now \in Time /\ now \in Nat
  BY DEF Inv, TypeOK, AllNamed, Named, Pids, Time
<1>2. Become(p, act) /\ UNCHANGED <<agents, running, starts, now>>
  BY DEF Begin
<1> HIDE DEF pid
<1>3. /\ act.pc = "touching" /\ act.project = project /\ act.explicit = explicit
      /\ act.rung = 1 /\ act.at = now /\ act.pid = pid
  BY DEF Idle
<1>4. act \in Activity
  BY <1>1, RestType DEF Activity, Phases, Pids
<1> HIDE DEF act
<1>5. proc'[p] = act
  BY <1>2 DEF Inv, TypeOK, Become
<1>6. 1 \in 1..Len(Candidates(s, project, explicit))
  BY <1>1, CandidatesOf
<1>7. Candidates(s, project, explicit)' = Candidates(s, project, explicit)
  BY DEF Candidates
<1>8. Registering(p)'
  BY <1>1, <1>2, <1>3, <1>5, <1>6, <1>7 DEF Registering
<1> QED
  BY <1>2, <1>4, <1>8, TurnKeepsInv

LEMMA TryTouchKeepsInv ==
  ASSUME Inv, NEW p \in Procs, TryTouch(p)
  PROVE  Inv'
<1> DEFINE names == Candidates(Owner[p], proc[p].project, proc[p].explicit)
           row   == TouchedRow(p, names[proc[p].rung])
<1>0. /\ proc[p].pc = "touching" /\ UNCHANGED <<running, starts, now>>
      /\ proc[p] \in Activity /\ Registering(p) /\ proc[p].project \in Projects
  BY DEF TryTouch, Inv, TypeOK, AllRegistering, Registering
<1>1. /\ names[proc[p].rung] \in OwnNames(Owner[p])
      /\ Len(names) \in Nat /\ proc[p].rung \in 1..Len(names)
  BY <1>0, CandidateAtHand
<1>2. CASE Upsert(p, row)
  BY <1>0, <1>1, <1>2, TouchedRowType, UpsertKeepsInv
<1>3. CASE proc[p].rung < Len(names) /\ Become(p, [proc[p] EXCEPT !.rung = @ + 1])
           /\ UNCHANGED agents
  <2> DEFINE act == [proc[p] EXCEPT !.rung = @ + 1]
  <2>1. proc[p].rung + 1 \in Nat /\ proc[p].rung + 1 \in 1..Len(names)
    BY <1>1, <1>3
  <2>2. /\ act \in Activity /\ act.pc = "touching" /\ act.project = proc[p].project
        /\ act.explicit = proc[p].explicit /\ act.rung = proc[p].rung + 1
        /\ act.at = proc[p].at /\ act.pid = proc[p].pid
    BY <1>0, <2>1 DEF Activity
  <2>3. Become(p, act)
    BY <1>3
  <2> HIDE DEF act
  <2>4. proc'[p] = act
    BY <2>3 DEF Inv, TypeOK, Become
  <2>5. Registering(p)'
    BY <1>0, <2>1, <2>2, <2>4 DEF Registering, Candidates
  <2> QED
    BY <1>0, <1>3, <2>2, <2>3, <2>5, TurnKeepsInv
<1>4. CASE proc[p].explicit # NoName /\ Become(p, [proc[p] EXCEPT !.pc = "seeking"])
           /\ UNCHANGED agents
  <2> DEFINE act == [proc[p] EXCEPT !.pc = "seeking"]
  <2>1. /\ act \in Activity /\ act.pc = "seeking" /\ act.project = proc[p].project
        /\ act.explicit = proc[p].explicit /\ act.at = proc[p].at /\ act.pid = proc[p].pid
    BY <1>0 DEF Activity, Phases
  <2>2. Become(p, act)
    BY <1>4
  <2> HIDE DEF act
  <2>3. proc'[p] = act
    BY <2>2 DEF Inv, TypeOK, Become
  <2>4. Registering(p)'
    BY <1>0, <1>4, <2>1, <2>3 DEF Registering
  <2> QED
    BY <1>0, <1>4, <2>1, <2>2, <2>4, TurnKeepsInv
<1>5. CASE Refuse(p) /\ UNCHANGED agents
  BY <1>0, <1>5, RefuseKeepsInv
<1> QED
  BY <1>2, <1>3, <1>4, <1>5 DEF TryTouch

LEMMA SeekHolderKeepsInv ==
  ASSUME Inv, NEW p \in Procs, SeekHolder(p)
  PROVE  Inv'
<1>0. /\ proc[p].pc = "seeking" /\ UNCHANGED <<agents, running, starts, now>>
      /\ proc[p] \in Activity /\ Registering(p) /\ now \in Nat
  <2>1. proc[p].pc = "seeking" /\ UNCHANGED <<agents, running, starts, now>>
    BY DEF SeekHolder
  <2>2. proc[p] \in Activity /\ Registering(p) /\ now \in Nat
    BY DEF Inv, TypeOK, AllRegistering
  <2> QED
    BY <2>1, <2>2
<1>1. ASSUME NEW t \in Sessions, agents[t].name = proc[p].explicit,
             Reclaimable(t, Owner[p], proc[p].at),
             Become(p, [proc[p] EXCEPT !.pc = "displacing", !.holder = t, !.found = agents[t]])
      PROVE  Inv'
  <2> DEFINE act == [proc[p] EXCEPT !.pc = "displacing", !.holder = t, !.found = agents[t]]
  <2>1. /\ OnBoard(t) /\ agents[t] \in Row /\ agents[t].seen \in Nat /\ agents[t].pid \in Nat
        /\ agents[t].pid <= starts[t]
    <3>1. proc[p].explicit # NoName /\ TypeOK /\ Named(t)
      BY <1>0 DEF Registering, Inv, AllNamed
    <3> QED
      BY <1>1, <3>1, BoardRows DEF Named
  <2>2. /\ act \in Activity /\ act.pc = "displacing" /\ act.project = proc[p].project
        /\ act.explicit = proc[p].explicit /\ act.at = proc[p].at /\ act.pid = proc[p].pid
        /\ act.holder = t /\ act.found = agents[t]
    BY <1>0, <2>1 DEF Activity, Phases
  <2>3. Become(p, act)
    BY <1>1
  <2> HIDE DEF act
  <2>4. proc'[p] = act
    BY <2>3 DEF Inv, TypeOK, Become
  <2>5. GoneSince(t, agents[t])
    <3>1. proc[p].at <= now /\ proc[p].at \in Nat
      BY <1>0 DEF Registering, Activity, Time
    <3>2. GoneAt(t, proc[p].at)
      BY <1>1 DEF Reclaimable
    <3> QED
      BY <1>0, <2>1, <3>1, <3>2 DEF GoneAt, GoneSince
  <2>6. Registering(p)'
    BY <1>0, <2>1, <2>2, <2>4, <2>5 DEF Registering, GoneSince, OnBoard
  <2> QED
    BY <1>0, <2>2, <2>3, <2>6, TurnKeepsInv
<1>2. CASE Refuse(p)
  BY <1>0, <1>2, RefuseKeepsInv
<1> QED
  BY <1>1, <1>2 DEF SeekHolder

LEMMA DisplaceKeepsInv ==
  ASSUME Inv, NEW p \in Procs, Displace(p)
  PROVE  Inv'
<1> DEFINE t == proc[p].holder
           fallback == DefaultName(proc[p].project, t)
<1>0. /\ proc[p].pc = "displacing" /\ UNCHANGED <<running, starts, now>>
      /\ proc[p] \in Activity /\ Registering(p) /\ agents \in [Sessions -> Row \cup {NoRow}]
  BY DEF Displace, Inv, TypeOK, AllRegistering
<1>1. /\ t \in Sessions /\ OnBoard(t) /\ proc[p].project \in Projects
  BY <1>0 DEF Registering
<1>2. CASE /\ ~Held(t, agents[t].project, fallback)
           /\ agents' = [agents EXCEPT ![t].name = fallback]
           /\ Become(p, [proc[p] EXCEPT !.pc = "retrying"])
  <2> DEFINE row == [agents[t] EXCEPT !.name = fallback]
             act == [proc[p] EXCEPT !.pc = "retrying"]
  <2>1. agents[t] \in Row /\ agents[t].pid <= starts[t]
    BY <1>1, BoardRows DEF Inv, AllNamed, Named
  <2>2. fallback \in OwnNames(t) /\ fallback \in Names
    BY <1>1, PrefixesOf, DerivedNames DEF OwnNames
  <2> HIDE DEF fallback
  <2>3. row \in Row /\ row.name = fallback /\ row.project = agents[t].project
        /\ row.pid = agents[t].pid
    BY <2>1, <2>2 DEF Row
  <2>4. agents' = [agents EXCEPT ![t] = row]
    BY <1>0, <1>1, <1>2
  <2> HIDE DEF row
  <2>5. /\ agents' \in [Sessions -> Row \cup {NoRow}] /\ AllNamed' /\ Unique'
        /\ \A u \in Sessions : OnBoard(u) => OnBoard(u)'
    <3>1. ~Held(t, row.project, row.name)
      BY <1>2, <2>3, Zenon
    <3>2. row \in Row /\ row.name \in OwnNames(t) /\ row.pid <= starts[t]
      BY <2>1, <2>2, <2>3
    <3> HIDE DEF t, act
    <3> QED
      BY <1>0, <1>1, <2>4, <3>1, <3>2, RowKeepsRoster
  <2>6. /\ act \in Activity /\ act.pc = "retrying" /\ act.project = proc[p].project
        /\ act.explicit = proc[p].explicit /\ act.at = proc[p].at /\ act.pid = proc[p].pid
    BY <1>0 DEF Activity, Phases
  <2>7. Become(p, act)
    BY <1>2
  <2> HIDE DEF act
  <2>8. proc'[p] = act
    BY <2>7 DEF Inv, TypeOK, Become
  <2>9. Registering(p)'
    BY <1>0, <2>6, <2>8 DEF Registering
  <2>10. proc' \in [Procs -> Activity] /\ AllRegistering'
    BY <1>0, <2>5, <2>6, <2>7, <2>9, BecomeKeepsRegistering
  <2> QED
    BY <1>0, <2>5, <2>10 DEF Inv, TypeOK
<1>3. CASE Refuse(p) /\ UNCHANGED agents
  BY <1>0, <1>3, RefuseKeepsInv
<1> QED
  BY <1>2, <1>3 DEF Displace

LEMMA RetryKeepsInv ==
  ASSUME Inv, NEW p \in Procs, Retry(p)
  PROVE  Inv'
<1> DEFINE row == TouchedRow(p, proc[p].explicit)
<1>0. /\ proc[p].pc = "retrying" /\ UNCHANGED <<running, starts, now>>
      /\ proc[p] \in Activity /\ Registering(p)
  BY DEF Retry, Inv, TypeOK, AllRegistering
<1>1. proc[p].explicit \in OwnNames(Owner[p]) /\ proc[p].project \in Projects
  BY <1>0 DEF Registering, Activity, OwnNames
<1>2. CASE Upsert(p, row)
  BY <1>0, <1>1, <1>2, TouchedRowType, UpsertKeepsInv
<1>3. CASE Refuse(p) /\ UNCHANGED agents
  BY <1>0, <1>3, RefuseKeepsInv
<1> QED
  BY <1>2, <1>3 DEF Retry

(* Starts hand out pids nobody had; exits and the clock take nothing back. *)
LEMMA HostKeepsInv ==
  ASSUME Inv, Tick \/ (\E s \in Sessions : Start(s) \/ Exit(s))
  PROVE  Inv'
<1>0. /\ now \in 1..MaxClock /\ now \in Nat /\ MaxClock \in Nat
      /\ running \in [Sessions -> Nat] /\ starts \in [Sessions -> Nat]
      /\ agents \in [Sessions -> Row \cup {NoRow}] /\ proc \in [Procs -> Activity]
      /\ TypeOK /\ Unique
  BY DEF Inv, TypeOK, Pids
<1>1. UNCHANGED <<agents, proc>>
  BY DEF Tick, Start, Exit
<1>2. now' \in 1..MaxClock /\ now' \in Nat /\ now <= now'
  BY <1>0 DEF Tick, Start, Exit
<1>3. /\ running' \in [Sessions -> Nat] /\ starts' \in [Sessions -> Nat]
      /\ \A s \in Sessions : starts[s] <= starts'[s]
      /\ \A s \in Sessions :
           \/ running'[s] = running[s]
           \/ running'[s] = 0
           \/ running'[s] = starts[s] + 1 /\ starts'[s] = starts[s] + 1
  <2>1. CASE Tick
    BY <1>0, <2>1 DEF Tick
  <2>2. ASSUME NEW u \in Sessions, Start(u)
        PROVE  /\ starts' = [starts EXCEPT ![u] = starts[u] + 1]
               /\ running' = [running EXCEPT ![u] = starts[u] + 1]
    BY <2>2 DEF Start
  <2>3. CASE \E u \in Sessions : Start(u)
    <3>1. PICK u \in Sessions : Start(u)
      BY <2>3
    <3>2. starts[u] \in Nat /\ starts[u] + 1 \in Nat
      BY <1>0
    <3>3. /\ starts' = [starts EXCEPT ![u] = starts[u] + 1]
          /\ running' = [running EXCEPT ![u] = starts[u] + 1]
      BY <2>2, <3>1
    <3>4. \A s \in Sessions : starts[s] \in Nat /\ starts[s] <= starts[s]
      BY <1>0
    <3> QED
      BY <1>0, <3>2, <3>3, <3>4
  <2>4. CASE \E u \in Sessions : Exit(u)
    BY <1>0, <2>4 DEF Exit
  <2> QED
    BY <2>1, <2>3, <2>4
<1>4. ASSUME NEW s \in Sessions PROVE Named(s)'
  <2>1. agents[s].pid \in Nat /\ Named(s)
    BY <1>0, BoardRows DEF Inv, AllNamed
  <2>2. /\ starts[s] \in Nat /\ starts'[s] \in Nat /\ running[s] <= starts[s]
        /\ running[s] \in Nat /\ agents[s].pid <= starts[s] /\ starts[s] <= starts'[s]
    BY <1>0, <1>3, <2>1 DEF Named
  <2>3. agents[s].pid <= starts'[s]
    BY <2>1, <2>2
  <2>4. running'[s] <= starts'[s]
    <3>1. CASE running'[s] = running[s]
      BY <2>2, <3>1
    <3>2. CASE running'[s] = 0
      BY <2>2, <3>2
    <3>3. CASE running'[s] = starts[s] + 1 /\ starts'[s] = starts[s] + 1
      BY <2>2, <3>3
    <3> QED
      BY <1>3, <3>1, <3>2, <3>3
  <2> QED
    BY <1>1, <2>1, <2>3, <2>4 DEF Named, OnBoard
<1>5. ASSUME NEW s \in Sessions, NEW row \in Row, row.pid <= starts[s], GoneSince(s, row)
      PROVE  GoneSince(s, row)'
  <2>1. row.pid \in Nat /\ row.seen \in Nat /\ Window \in Nat
    BY DEF Row, Pids, Time
  <2> QED
    BY <1>0, <1>2, <1>3, <1>5, <2>1 DEF GoneSince
<1>6. ASSUME NEW p \in Procs PROVE Registering(p)'
  <2>1. /\ Registering(p) /\ proc[p] \in Activity /\ proc'[p] = proc[p]
        /\ Owner[p] \in Sessions
    BY <1>0, <1>1 DEF Inv, AllRegistering
  <2>2. proc[p].at \in Nat /\ proc[p].pid \in Nat
    BY <2>1 DEF Activity, Time, Pids
  <2>3. proc[p].at <= now' /\ proc[p].pid <= starts'[Owner[p]]
    BY <1>0, <1>2, <1>3, <2>1, <2>2 DEF Registering
  <2>4. ASSUME proc[p].pc = "displacing"
        PROVE  /\ proc[p].holder \in Sessions /\ OnBoard(proc[p].holder)' /\ proc[p].found \in Row
               /\ proc[p].found.pid <= starts'[proc[p].holder]
               /\ GoneSince(proc[p].holder, proc[p].found)'
    <3>1. /\ proc[p].holder \in Sessions /\ OnBoard(proc[p].holder) /\ proc[p].found \in Row
          /\ proc[p].found.pid <= starts[proc[p].holder]
          /\ GoneSince(proc[p].holder, proc[p].found)
      BY <2>1, <2>4 DEF Registering
    <3>2. proc[p].found.pid \in Nat
      BY <3>1 DEF Row, Pids
    <3> DEFINE h == proc[p].holder
               row == proc[p].found
    <3>3. h' = h /\ row' = row
      BY <1>1
    <3>4. \A s \in Sessions, r \in Row :
            r.pid <= starts[s] /\ GoneSince(s, r) => GoneSince(s, r)'
      BY <1>5
    <3>5. GoneSince(h, row)'
      <4> HIDE DEF h, row
      <4>1. PICK s \in Sessions, r \in Row : s = h /\ r = row
        BY <3>1 DEF h, row
      <4>2. GoneSince(s, r)'
        BY <3>1, <3>4, <4>1 DEF h, row
      <4> QED
        BY <3>3, <4>1, <4>2 DEF GoneSince
    <3>6. row.pid <= starts'[h]
      <4>1. starts[h] \in Nat /\ starts'[h] \in Nat /\ starts[h] <= starts'[h]
        BY <1>0, <1>3, <3>1
      <4> HIDE DEF h, row
      <4>2. row.pid <= starts[h] /\ row.pid \in Nat
        BY <3>1, <3>2 DEF h, row
      <4> QED
        BY <4>1, <4>2
    <3> QED
      BY <1>1, <3>1, <3>5, <3>6 DEF OnBoard
  <2> QED
    BY <2>1, <2>3, <2>4 DEF Registering, Candidates
<1>7. Unique' /\ TypeOK'
  BY <1>0, <1>1, <1>2, <1>3 DEF TypeOK, Unique, OnBoard, Pids
<1> QED
  BY <1>4, <1>6, <1>7 DEF Inv, AllNamed, AllRegistering

LEMMA InvStep == Inv /\ [Next]_vars => Inv'
<1> SUFFICES ASSUME Inv, [Next]_vars PROVE Inv'
  OBVIOUS
<1>1. CASE UNCHANGED vars
  BY <1>1 DEF vars, Inv, TypeOK, AllNamed, Named, Unique, AllRegistering, Registering,
              OnBoard, GoneSince
<1>2. CASE Tick \/ (\E s \in Sessions : Start(s) \/ Exit(s))
  BY <1>2, HostKeepsInv
<1>3. ASSUME NEW p \in Procs, Step(p) PROVE Inv'
  BY <1>3, BeginKeepsInv, TryTouchKeepsInv, SeekHolderKeepsInv, DisplaceKeepsInv, RetryKeepsInv
     DEF Step
<1> QED
  BY <1>1, <1>2, <1>3 DEF Next

LEMMA InvHolds == Spec => []Inv
  BY InvInit, InvStep, PTL DEF Spec

-----------------------------------------------------------------------------
(* The roster stays well typed, whoever registers, exits, resumes or takes *)
(* a name over (src/identity.rs).                                          *)
THEOREM RosterTypeCorrect == Spec => []TypeOK
<1>1. Inv => TypeOK
  BY DEF Inv
<1> QED
  BY <1>1, InvHolds, PTL

(* An id, and a display name not spelled like a ref, resolve to the one    *)
(* session they belong to, whatever names the others took.                 *)
THEOREM NamesReachTheirSession == Spec => []AddressesReachOneSession
<1>1. Inv => AddressesReachOneSession
  <2> SUFFICES ASSUME Inv, NEW s \in Sessions, OnBoard(s)
               PROVE  /\ \A project \in Projects : Resolve(s, project) = {s}
                      /\ agents[s].name \notin Refs =>
                           Resolve(agents[s].name, agents[s].project) = {s}
    BY DEF AddressesReachOneSession
  <2>1. ASSUME NEW project \in Projects PROVE Resolve(s, project) = {s}
    BY DEF Resolve, ById
  <2>2. ASSUME agents[s].name \notin Refs
        PROVE  Resolve(agents[s].name, agents[s].project) = {s}
    <3>1. ById(agents[s].name) = {}
      BY <2>2 DEF ById
    <3>2. ByRef(agents[s].name, agents[s].project) = {}
      BY <2>2, PrefixesOf DEF ByRef
    <3>3. ByName(agents[s].name, agents[s].project) = {s}
      BY DEF ByName, Inv, Unique
    <3> QED
      BY <3>1, <3>2, <3>3 DEF Resolve
  <2> QED
    BY <2>1, <2>2
<1> QED
  BY <1>1, InvHolds, PTL

-----------------------------------------------------------------------------
(* A step turns no process but the one that takes it.                      *)
LEMMA OthersStay ==
  ASSUME Inv, NEW p \in Procs, Step(p), NEW q \in Procs, q # p
  PROVE  proc'[q] = proc[q]
<1>1. \E act : Become(p, act)
  BY DEF Step, Begin, TryTouch, Upsert, SeekHolder, Displace, Retry, Refuse
<1> QED
  BY <1>1 DEF Inv, TypeOK, Become

(* Whoever is refused without having asked for a name was on the board     *)
(* before: the last candidate is the session's id, which nobody else bears.*)
LEMMA RefusedAreOnBoard ==
  ASSUME Inv, NEW p \in Procs, Step(p), Refused(p), Implicit(p)
  PROVE  OnBoard(Owner[p])
<1> DEFINE s == Owner[p]
           names == Candidates(s, proc[p].project, proc[p].explicit)
           candidate == names[proc[p].rung]
           row == TouchedRow(p, candidate)
<1>0. /\ s \in Sessions /\ proc[p] \in Activity /\ Registering(p)
      /\ proc \in [Procs -> Activity] /\ proc[p].explicit = NoName
  BY DEF Inv, TypeOK, AllRegistering, Implicit
<1>1. \A act : Become(p, act) => act.pc = "refused"
  BY <1>0 DEF Become, Refused
<1>2. TryTouch(p)
  <2>1. ~SeekHolder(p) /\ ~Displace(p) /\ ~Retry(p)
    BY <1>0 DEF Registering, SeekHolder, Displace, Retry
  <2>2. ASSUME NEW project \in Projects, NEW explicit \in Chosen \cup {NoName},
               Begin(p, project, explicit)
        PROVE  FALSE
    <3> DEFINE pid == IF s \in Known THEN running[s] ELSE 0
               act == [Idle EXCEPT !.pc = "touching", !.project = project,
                                   !.explicit = explicit, !.rung = 1, !.at = now, !.pid = pid]
    <3>1. Become(p, act)
      BY <2>2 DEF Begin
    <3>2. act.pc = "touching"
      <4> HIDE DEF pid
      <4> QED
        BY DEF Idle
    <3> HIDE DEF act
    <3> QED
      BY <1>1, <3>1, <3>2
  <2> QED
    BY <2>1, <2>2 DEF Step
<1>3. /\ proc[p].pc = "touching" /\ proc[p].project \in Projects
      /\ Len(names) \in Nat \ {0} /\ proc[p].rung \in 1..Len(names)
      /\ candidate \in OwnNames(s)
  BY <1>0, <1>2, CandidateAtHand DEF Registering, TryTouch
<1>4. Held(s, row.project, row.name) /\ proc[p].rung = Len(names)
  <2>1. ~Become(p, Idle)
    BY <1>1, RestType
  <2>2. ~Upsert(p, row)
    BY <2>1 DEF Upsert
  <2>3. ~Become(p, [proc[p] EXCEPT !.rung = @ + 1])
    <3>1. [proc[p] EXCEPT !.rung = @ + 1].pc = "touching"
      BY <1>0, <1>3 DEF Activity
    <3> QED
      BY <1>1, <3>1
  <2> HIDE DEF names
  <2>4. Held(s, row.project, row.name) /\ ~(proc[p].rung < Len(names))
    BY <1>2, <2>2, <2>3 DEF TryTouch, names
  <2>5. proc[p].rung = Len(names)
    BY <1>3, <2>4
  <2> QED
    BY <2>4, <2>5
<1>5. candidate = <<proc[p].project, s>>
  BY <1>0, <1>3, <1>4, CandidatesOf
<1>6. SUFFICES ASSUME ~OnBoard(s) PROVE FALSE
  OBVIOUS
<1>7. row.name = <<proc[p].project, s>>
  <2>1. row.name = IF OnBoard(s) /\ proc[p].explicit = NoName THEN agents[s].name ELSE candidate
    BY <1>3, TouchedRowType
  <2> QED
    BY <1>5, <1>6, <2>1
<1>8. PICK t \in Sessions \ {s} : agents[t].name = <<proc[p].project, s>>
  BY <1>4, <1>7 DEF Held
<1>9. <<proc[p].project, s>> \in Projects \X Refs
  BY <1>0, <1>3
<1>10. OnBoard(t)
  BY <1>8, <1>9, BoardRows DEF Inv
<1>11. agents[t].name \in OwnNames(t)
  BY <1>10 DEF Inv, AllNamed, Named
<1> QED
  BY <1>0, <1>3, <1>8, <1>9, <1>11, DerivedNames DEF OwnNames

(* A session new to the board always gets a name, however many others      *)
(* share its short refs.                                                   *)
THEOREM NewcomersAreNamed == Spec => NewSessionsAreNamed
<1>1. Inv /\ [Next]_vars =>
        [\A p \in Procs : Refused(p) /\ Implicit(p) => OnBoard(Owner[p])]_vars
  <2> SUFFICES ASSUME Inv, [Next]_vars, NEW p \in Procs, Refused(p), Implicit(p)
               PROVE  OnBoard(Owner[p])
    OBVIOUS
  <2>1. proc' # proc
    BY DEF Refused
  <2>2. PICK q \in Procs : Step(q)
    BY <2>1 DEF Next, vars, Tick, Start, Exit
  <2>3. q = p
    BY <2>2, OthersStay DEF Refused
  <2> QED
    BY <2>2, <2>3, RefusedAreOnBoard
<1> QED
  BY <1>1, InvHolds, PTL DEF Spec, NewSessionsAreNamed

(* A row is rewritten by its own session or, to displace it, by one that   *)
(* found it gone; an upsert without an explicit name keeps the name.       *)
LEMMA ChosenNamesStay ==
  ASSUME Inv, NEW p \in Procs, Step(p), NEW s \in Sessions,
         agents[s].name \in Chosen, agents'[s].name # agents[s].name
  PROVE  \/ Owner[p] = s /\ ~Implicit(p)
         \/ proc[p].pc = "displacing" /\ proc[p].holder = s
<1>0. /\ agents \in [Sessions -> Row \cup {NoRow}] /\ proc[p] \in Activity /\ Registering(p)
      /\ Owner[p] \in Sessions /\ agents[s].name # NoName
  BY DEF Inv, TypeOK, AllRegistering
<1>1. OnBoard(s)
  BY <1>0, BoardRows DEF Inv
<1>2. ASSUME NEW project, NEW explicit, Begin(p, project, explicit) PROVE FALSE
  BY <1>2 DEF Begin
<1>3. CASE TryTouch(p)
  <2> DEFINE names == Candidates(Owner[p], proc[p].project, proc[p].explicit)
             row   == TouchedRow(p, names[proc[p].rung])
  <2>1. agents' = [agents EXCEPT ![Owner[p]] = row]
    BY <1>3 DEF TryTouch, Upsert
  <2>2. s = Owner[p] /\ row.name # agents[s].name
    BY <1>0, <2>1
  <2>3. row.name = IF OnBoard(Owner[p]) /\ proc[p].explicit = NoName
                   THEN agents[Owner[p]].name ELSE names[proc[p].rung]
    <3>1. proc[p].pc = "touching"
      BY <1>3 DEF TryTouch
    <3>2. proc[p].project \in Projects /\ names[proc[p].rung] \in OwnNames(Owner[p])
      BY <1>0, <3>1, CandidateAtHand DEF Registering
    <3> QED
      BY <3>2, TouchedRowType
  <2> HIDE DEF row
  <2> QED
    BY <1>1, <2>2, <2>3 DEF Implicit
<1>4. CASE SeekHolder(p)
  BY <1>4 DEF SeekHolder
<1>5. CASE Displace(p)
  <2>1. /\ proc[p].pc = "displacing"
        /\ agents' = [agents EXCEPT ![proc[p].holder].name =
                        DefaultName(proc[p].project, proc[p].holder)]
    BY <1>5 DEF Displace
  <2> QED
    BY <1>0, <2>1
<1>6. CASE Retry(p)
  <2>1. proc[p].explicit # NoName
    BY <1>0, <1>6 DEF Registering, Retry
  <2>2. \E row : agents' = [agents EXCEPT ![Owner[p]] = row]
    BY <1>6 DEF Retry, Upsert
  <2> QED
    BY <1>0, <2>1, <2>2 DEF Implicit
<1> QED
  BY <1>2, <1>3, <1>4, <1>5, <1>6 DEF Step

(* The upsert every command starts with never takes a chosen name away.    *)
THEOREM ChosenNamesAreKept == Spec => ChosenNamesStick
<1>1. Inv /\ [Next]_vars =>
        [\A s \in Sessions :
           (agents[s].name \in Chosen /\ agents'[s].name # agents[s].name) =>
             \E p \in Procs : \/ Owner[p] = s /\ ~Implicit(p)
                              \/ proc[p].pc = "displacing" /\ proc[p].holder = s]_vars
  <2> SUFFICES ASSUME Inv, [Next]_vars, NEW s \in Sessions, agents[s].name \in Chosen,
                      agents'[s].name # agents[s].name
               PROVE  \E p \in Procs : \/ Owner[p] = s /\ ~Implicit(p)
                                       \/ proc[p].pc = "displacing" /\ proc[p].holder = s
    OBVIOUS
  <2>1. PICK p \in Procs : Step(p)
    BY DEF Next, vars, Tick, Start, Exit
  <2> QED
    BY <2>1, ChosenNamesStay
<1> QED
  BY <1>1, InvHolds, PTL DEF Spec, ChosenNamesStick

(* A name is taken over only from a session that is gone at that moment,   *)
(* unless its row was touched since it was looked up: pids of the dead do  *)
(* not come back, and silence only grows longer.                           *)
THEOREM TheLivingAreNotDisplaced == Spec => OnlyTheGoneAreDisplaced
<1>1. Inv /\ [Next]_vars =>
        [\A p \in Procs :
           LET t == proc[p].holder IN
           ( proc[p].pc = "displacing" /\ proc'[p].pc = "retrying" /\ agents[t] = proc[p].found )
             => GoneAt(t, now)]_vars
  <2> SUFFICES ASSUME Inv, NEW p \in Procs, proc[p].pc = "displacing",
                      agents[proc[p].holder] = proc[p].found
               PROVE  GoneAt(proc[p].holder, now)
    OBVIOUS
  <2>1. GoneSince(proc[p].holder, proc[p].found)
    BY DEF Inv, AllRegistering, Registering
  <2> QED
    BY <2>1 DEF GoneSince, GoneAt
<1> QED
  BY <1>1, InvHolds, PTL DEF Spec, OnlyTheGoneAreDisplaced
=============================================================================
