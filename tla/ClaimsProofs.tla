---------------------------- MODULE ClaimsProofs ----------------------------
(***************************************************************************)
(* Theorems about Claims for every set of sessions, projects, paths and    *)
(* processes, every overlap relation, lease and number of notices.         *)
(***************************************************************************)
EXTENDS Claims, TLAPS

USE OverlapAssumption, ClaimsAssumption

-----------------------------------------------------------------------------
(* What a process holds in the middle of a command: where it is going to   *)
(* upsert and what it read, nothing to tell before it has listed, and      *)
(* nothing to record that it is not going to tell.                         *)
Working(p) ==
  /\ proc[p].pc \in {"upserting", "listing"} =>
       proc[p].project \in Projects /\ proc[p].path \in Paths /\ proc[p].at \in 1..now
  /\ proc[p].pc # "telling" => proc[p].found = {}
  /\ proc[p].unrecorded \subseteq proc[p].found
AllWorking == \A p \in Procs : Working(p)

TypeInv == TypeOK /\ AllWorking

(* A process between commands is well typed and holds nothing.             *)
LEMMA IdleType == Idle \in Activity /\ Idle.found = {} /\ Idle.unrecorded = {}
BY DEF Idle, Activity, Phases, Time

(* A row as it is listed is a claim.                                       *)
LEMMA AsClaimType ==
  ASSUME TypeOK, NEW P \in Paths, NEW a \in Agents
  PROVE  AsClaim(P, a) \in Claim
<1>1. claims[<<P, a>>] \in Row
  BY DEF TypeOK, Rows
<1>2. claims[<<P, a>>].taken \in Time
  BY <1>1 DEF Row, NoRow, Time
<1> QED
  BY <1>2 DEF AsClaim, Claim

(* Both listings are of claims.                                            *)
LEMMA ListingsType ==
  ASSUME TypeOK, NEW a, NEW project, NEW P, NEW at
  PROVE  /\ ConflictsWith(a, project, P, at) \in SUBSET Claim
         /\ MyConflicts(a, project) \in SUBSET Claim
<1>1. \A r \in Listed(project) : r[1] \in Paths /\ r[2] \in Agents
  BY DEF Listed, Rows
<1>2. ConflictsWith(a, project, P, at) \subseteq Claim
  BY <1>1, AsClaimType DEF ConflictsWith
<1>3. MyConflicts(a, project) \subseteq Claim
  BY <1>1, AsClaimType DEF MyConflicts
<1> QED
  BY <1>2, <1>3

(* Turning to something well typed, while nothing else moves but the clock,*)
(* keeps what every process holds.                                         *)
LEMMA BecomeKeepsWorking ==
  ASSUME TypeInv, NEW p \in Procs, NEW act \in Activity, Become(p, act),
         now' \in 1..MaxClock, now <= now',
         act.pc \in {"upserting", "listing"} =>
           act.project \in Projects /\ act.path \in Paths /\ act.at \in 1..now',
         act.pc # "telling" => act.found = {},
         act.unrecorded \subseteq act.found
  PROVE  proc' \in [Procs -> Activity] /\ AllWorking'
<1>1. proc' \in [Procs -> Activity] /\ proc'[p] = act
      /\ \A q \in Procs \ {p} : proc'[q] = proc[q]
  BY DEF TypeInv, TypeOK, Become
<1>2. ASSUME NEW q \in Procs PROVE Working(q)'
  <2>1. CASE q = p
    BY <1>1, <2>1 DEF Working
  <2>2. CASE q # p
    <3>1. Working(q) /\ now \in 1..MaxClock
      BY DEF TypeInv, TypeOK, AllWorking
    <3>2. proc[q].at \in 1..now => proc[q].at \in 1..now'
      BY <3>1
    <3> QED
      BY <1>1, <2>2, <3>1, <3>2 DEF Working
  <2> QED
    BY <2>1, <2>2
<1> QED
  BY <1>1, <1>2 DEF AllWorking

(* So does telling of some claims, or having none to tell of.              *)
LEMMA TellKeepsWorking ==
  ASSUME TypeInv, NEW p \in Procs, NEW source \in Sources \cup {"sweep", "none"},
         NEW conflicts \in SUBSET Claim, Tell(p, source, conflicts), now' = now
  PROVE  proc' \in [Procs -> Activity] /\ AllWorking'
<1> DEFINE unrecorded == IF source = "declared" THEN {} ELSE conflicts
           act == IF conflicts = {} THEN Idle
                  ELSE [Idle EXCEPT !.pc = "telling", !.source = source, !.found = conflicts,
                                    !.unrecorded = unrecorded]
<1>1. Become(p, act)
  BY DEF Tell
<1>2. /\ act \in Activity /\ act.unrecorded \subseteq act.found /\ act.pc \in {"idle", "telling"}
      /\ act.pc # "telling" => act.found = {}
  <2>1. CASE conflicts = {}
    BY <2>1, IdleType DEF Idle
  <2>2. CASE conflicts # {}
    <3>1. act = [pc |-> "telling", project |-> "none", path |-> "none", at |-> 0, lease |-> 0,
                 source |-> source, renewed |-> FALSE, found |-> conflicts,
                 unrecorded |-> unrecorded]
      BY <2>2 DEF Idle
    <3>2. unrecorded \in SUBSET Claim /\ unrecorded \subseteq conflicts
      OBVIOUS
    <3> HIDE DEF act, unrecorded
    <3> QED
      BY <3>1, <3>2 DEF Activity, Phases, Time
  <2> QED
    BY <2>1, <2>2
<1>3. now \in 1..MaxClock /\ now <= now'
  BY DEF TypeInv, TypeOK
<1> HIDE DEF act
<1> QED
  BY <1>1, <1>2, <1>3, BecomeKeepsWorking

(* A board without claims is well typed.                                   *)
LEMMA TypeInit == Init => TypeInv
<1> SUFFICES ASSUME Init PROVE TypeInv
  OBVIOUS
<1>1. claims \in [Rows -> Row] /\ notices \in [Agents -> [Rows -> Notice]]
  BY DEF Init, Row, Notice, Time
<1>2. proc \in [Procs -> Activity] /\ now \in 1..MaxClock
  BY IdleType DEF Init
<1>3. AllWorking
  BY DEF Init, AllWorking, Working, Idle
<1> QED
  BY <1>1, <1>2, <1>3 DEF TypeInv, TypeOK, Init

(* What a process is about to upsert is a path.                            *)
LEMMA UnderWayType ==
  ASSUME TypeInv, NEW a
  PROVE  UnderWay(a) \in SUBSET Paths
BY DEF UnderWay, TypeInv, AllWorking, Working, ProcsOf

(* An upserted row is a row, live until after the clock it was read at.    *)
LEMMA UpsertedRow ==
  ASSUME TypeInv, NEW p \in Procs, proc[p].pc = "upserting"
  PROVE  LET P == proc[p].path  a == Owner[p]  expires == proc[p].at + proc[p].lease IN
         /\ <<P, a>> \in Rows /\ expires \in Nat \ {0}
         /\ [claims[<<P, a>>] EXCEPT !.expires = expires, !.fresh = FALSE]
              \in Row \/ ~Exists(P, a)
         /\ [project |-> proc[p].project, taken |-> proc[p].at,
             expires |-> expires, fresh |-> ~proc[p].renewed] \in Row
<1> DEFINE P == proc[p].path  a == Owner[p]  expires == proc[p].at + proc[p].lease
<1>1. /\ proc[p].project \in Projects /\ P \in Paths /\ a \in Agents
      /\ proc[p].at \in 1..MaxClock /\ proc[p].lease \in Nat /\ proc[p].renewed \in BOOLEAN
  BY DEF TypeInv, TypeOK, AllWorking, Working, Activity
<1>2. expires \in Nat \ {0} /\ proc[p].at \in Time
  BY <1>1 DEF Time
<1>3. <<P, a>> \in Rows /\ claims[<<P, a>>] \in Row
  BY <1>1 DEF Rows, TypeInv, TypeOK
<1> HIDE DEF P, a, expires
<1>4. [claims[<<P, a>>] EXCEPT !.expires = expires, !.fresh = FALSE] \in Row \/ ~Exists(P, a)
  BY <1>2, <1>3 DEF Row, Exists
<1>5. [project |-> proc[p].project, taken |-> proc[p].at,
       expires |-> expires, fresh |-> ~proc[p].renewed] \in Row
  BY <1>1, <1>2 DEF Row
<1> QED
  BY <1>2, <1>3, <1>4, <1>5 DEF P, a, expires

(* Every step keeps the types and what the processes hold.                 *)
LEMMA TypeStep == TypeInv /\ [Next]_vars => TypeInv'
<1> SUFFICES ASSUME TypeInv, [Next]_vars PROVE TypeInv'
  OBVIOUS
<1>0. /\ claims \in [Rows -> Row] /\ notices \in [Agents -> [Rows -> Notice]]
      /\ now \in 1..MaxClock /\ now \in Int /\ MaxClock \in Nat \ {0}
      /\ proc \in [Procs -> Activity] /\ AllWorking
      /\ told \in [Agents -> SUBSET Claim] /\ lost \in [Agents -> SUBSET Claim]
      /\ fails \in 0..MaxFails /\ mayHold \in [Agents -> SUBSET Paths]
  BY DEF TypeInv, TypeOK
<1>1. CASE UNCHANGED vars
  BY <1>0, <1>1 DEF vars, TypeInv, TypeOK, AllWorking, Working
<1>2. CASE Tick
  <2>1. now' \in 1..MaxClock /\ \A n : n \in 1..now => n \in 1..now'
    BY <1>0, <1>2 DEF Tick
  <2> QED
    BY <1>0, <1>2, <2>1 DEF Tick, TypeInv, TypeOK, AllWorking, Working
<1>3. ASSUME NEW p \in Procs, Step(p) PROVE TypeInv'
  <2>0. proc[p] \in Activity /\ Working(p) /\ Owner[p] \in Agents
    BY <1>0 DEF AllWorking
  <2>1. ASSUME NEW source \in Sources, NEW project \in Home[Owner[p]], NEW P \in Paths,
               NEW lease \in Leases, Begin(p, source, project, P, lease)
        PROVE  TypeInv'
    <3> DEFINE renewed == Exists(P, Owner[p])
               act == [pc |-> "upserting", project |-> project, path |-> P, at |-> now,
                       lease |-> lease, source |-> source, renewed |-> renewed,
                       found |-> {}, unrecorded |-> {}]
    <3>1. Become(p, act)
      BY <2>1 DEF Begin
    <3>2. now' \in 1..MaxClock /\ now <= now' /\ now \in 1..now' /\ now \in Time
      BY <1>0, <2>1 DEF Begin, Time
    <3>3. project \in Projects /\ lease \in Nat /\ renewed \in BOOLEAN
      BY <2>0 DEF Exists
    <3>4. act \in Activity
      BY <3>2, <3>3 DEF Activity, Phases
    <3>5. proc' \in [Procs -> Activity] /\ AllWorking'
      BY <3>1, <3>2, <3>3, <3>4, BecomeKeepsWorking
    <3> QED
      BY <1>0, <2>1, <3>2, <3>5 DEF Begin, TypeInv, TypeOK
  <2>2. CASE Upsert(p)
    <3> DEFINE act == [proc[p] EXCEPT !.pc = "listing"]
    <3>1. Become(p, act) /\ proc[p].pc = "upserting" /\ now' = now
      BY <2>2 DEF Upsert
    <3>2. /\ act \in Activity /\ act.found = proc[p].found /\ act.unrecorded = proc[p].unrecorded
          /\ act.pc = "listing" /\ act.project = proc[p].project /\ act.path = proc[p].path
          /\ act.at = proc[p].at
      BY <2>0 DEF Activity, Phases
    <3> HIDE DEF act
    <3>3. proc' \in [Procs -> Activity] /\ AllWorking'
      BY <1>0, <2>0, <3>1, <3>2, BecomeKeepsWorking DEF Working
    <3>4. claims' \in [Rows -> Row]
      BY <1>0, <2>2, <3>1, UpsertedRow DEF Upsert
    <3> QED
      BY <1>0, <2>2, <3>3, <3>4 DEF Upsert, TypeInv, TypeOK
  <2>3. CASE ListConflicts(p)
    <3> DEFINE conflicts == ConflictsWith(Owner[p], proc[p].project, proc[p].path, proc[p].at)
    <3>1. /\ conflicts \in SUBSET Claim
          /\ ToReport(p, conflicts) \in SUBSET Claim
      BY ListingsType DEF ToReport, TypeInv
    <3>2. Tell(p, proc[p].source, ToReport(p, conflicts)) /\ now' = now
      BY <2>3 DEF ListConflicts
    <3>3. proc[p].source \in Sources \cup {"sweep", "none"}
      BY <2>0 DEF Activity
    <3> HIDE DEF conflicts
    <3>4. proc' \in [Procs -> Activity] /\ AllWorking'
      BY <3>1, <3>2, <3>3, TellKeepsWorking
    <3> QED
      BY <1>0, <2>3, <3>4 DEF ListConflicts, TypeInv, TypeOK
  <2>4. ASSUME NEW project \in Home[Owner[p]], Sweep(p, project)
        PROVE  TypeInv'
    <3>1. MyConflicts(Owner[p], project) \in SUBSET Claim
      BY ListingsType DEF TypeInv
    <3>2. proc' \in [Procs -> Activity] /\ AllWorking'
      BY <2>4, <3>1, TellKeepsWorking DEF Sweep
    <3> QED
      BY <1>0, <2>4, <3>2 DEF Sweep, TypeInv, TypeOK
  <2>5. ASSUME NEW c \in Claim, RecordNotice(p, c)
        PROVE  TypeInv'
    <3> DEFINE act == [proc[p] EXCEPT !.unrecorded = @ \ {c}]
               key == <<c.path, c.holder>>
    <3>1. Become(p, act) /\ proc[p].pc = "telling" /\ now' = now
      BY <2>5 DEF RecordNotice
    <3>2. /\ act \in Activity /\ act.found = proc[p].found /\ act.pc = "telling"
          /\ act.unrecorded \subseteq proc[p].unrecorded
      BY <2>0, <3>1 DEF Activity
    <3> HIDE DEF act
    <3>3. proc' \in [Procs -> Activity] /\ AllWorking'
      BY <1>0, <2>0, <3>1, <3>2, BecomeKeepsWorking DEF Working
    <3>4. key \in Rows /\ c.taken \in Time
      BY DEF Claim, Rows
    <3>5. notices[Owner[p]] \in [Rows -> Notice] /\ notices[Owner[p]][key].count \in Nat
      BY <1>0, <2>0, <3>4 DEF Notice
    <3>6. notices' \in [Agents -> [Rows -> Notice]]
      <4> DEFINE n == [taken |-> c.taken,
                       count |-> IF notices[Owner[p]][key].taken = c.taken
                                 THEN notices[Owner[p]][key].count + 1 ELSE 1]
      <4>1. n \in Notice
        BY <3>4, <3>5 DEF Notice
      <4>2. notices' = [notices EXCEPT ![Owner[p]] = [@ EXCEPT ![key] = n]]
        BY <2>5 DEF RecordNotice
      <4> HIDE DEF n, key
      <4> QED
        BY <1>0, <2>0, <3>5, <4>1, <4>2
    <3> QED
      BY <1>0, <2>5, <3>3, <3>6 DEF RecordNotice, TypeInv, TypeOK
  <2>6. CASE Emit(p)
    <3>0. Become(p, Idle) /\ now' = now /\ Idle.pc = "idle"
      BY <2>6 DEF Emit, Idle
    <3>1. proc' \in [Procs -> Activity] /\ AllWorking'
      <4>1. /\ Idle \in Activity /\ Idle.found = {} /\ Idle.unrecorded = {}
            /\ now' \in 1..MaxClock /\ now <= now'
        BY <1>0, <3>0, IdleType DEF Idle
      <4> QED
        BY <3>0, <4>1, BecomeKeepsWorking
    <3>2. proc[p].found \in SUBSET Claim
      BY <2>0 DEF Activity
    <3>3. told' \in [Agents -> SUBSET Claim]
      BY <1>0, <2>0, <2>6, <3>2 DEF Emit
    <3> QED
      BY <1>0, <2>6, <3>1, <3>3 DEF Emit, TypeInv, TypeOK
  <2>7. ASSUME NEW P \in Paths, Release(p, P)
        PROVE  TypeInv'
    <3>1. claims' \in [Rows -> Row]
      BY <1>0, <2>7 DEF Release, Row
    <3> QED
      BY <1>0, <2>7, <3>1 DEF Release, TypeInv, TypeOK, AllWorking, Working
  <2>8. CASE EndSession(p)
    <3>1. ASSUME NEW r \in Rows, Live(r[1], r[2])
          PROVE  [claims[r] EXCEPT !.expires = now] \in Row
      <4>0. PICK P \in Paths, a \in Agents : r = <<P, a>>
        BY DEF Rows
      <4>1. claims[r] \in Row /\ claims[r].expires > now
        BY <1>0, <3>1, <4>0 DEF Live
      <4>2. claims[r] # NoRow /\ now \in Nat \ {0}
        BY <1>0, <4>1 DEF NoRow
      <4> QED
        BY <4>1, <4>2 DEF Row
    <3>2. claims' \in [Rows -> Row]
      BY <1>0, <2>8, <3>1 DEF EndSession
    <3>3. mayHold' \in [Agents -> SUBSET Paths]
      BY <1>0, <2>0, <2>8, UnderWayType DEF EndSession
    <3> QED
      BY <1>0, <2>8, <3>2, <3>3 DEF EndSession, TypeInv, TypeOK, AllWorking, Working
  <2>9. CASE Fail(p)
    <3>0. /\ Become(p, Idle) /\ now' = now /\ fails < MaxFails /\ fails' = fails + 1
          /\ lost' = [lost EXCEPT ![Owner[p]] = @ \cup proc[p].found]
          /\ notices' = notices /\ told' = told /\ mayHold' = mayHold
      BY <2>9 DEF Fail
    <3>1. /\ Idle \in Activity /\ Idle.found = {} /\ Idle.unrecorded = {} /\ Idle.pc = "idle"
          /\ now' \in 1..MaxClock /\ now <= now'
      BY <1>0, <3>0, IdleType DEF Idle
    <3>2. proc' \in [Procs -> Activity] /\ AllWorking'
      BY <3>0, <3>1, BecomeKeepsWorking
    <3>3. ASSUME NEW r \in Rows, proc[p].pc = "listing", claims[r].taken = proc[p].at
          PROVE  [claims[r] EXCEPT !.fresh = FALSE] \in Row
      <4>1. claims[r] \in Row /\ proc[p].at >= 1
        BY <1>0, <2>0, <3>3 DEF Working
      <4>2. claims[r] # NoRow
        BY <3>3, <4>1 DEF NoRow
      <4> QED
        BY <4>1, <4>2 DEF Row
    <3>4. claims' \in [Rows -> Row]
      BY <1>0, <2>9, <3>3 DEF Fail
    <3>5. lost' \in [Agents -> SUBSET Claim]
      BY <1>0, <2>0, <3>0 DEF Activity
    <3>6. fails' \in 0..MaxFails
      BY <1>0, <3>0
    <3> QED
      BY <1>0, <3>0, <3>1, <3>2, <3>4, <3>5, <3>6 DEF TypeInv, TypeOK
  <2> QED
    BY <1>3, <2>1, <2>2, <2>3, <2>4, <2>5, <2>6, <2>7, <2>8, <2>9 DEF Step
<1> QED
  BY <1>1, <1>2, <1>3 DEF Next

-----------------------------------------------------------------------------
(* The board stays well typed, whatever sessions claim, extend, release,   *)
(* and are told of (src/claims.rs).                                        *)
THEOREM ClaimsTypeCorrect == Spec => []TypeOK
<1>1. Spec => []TypeInv
  BY TypeInit, TypeStep, PTL DEF Spec
<1>2. TypeInv => TypeOK
  BY DEF TypeInv
<1> QED
  BY <1>1, <1>2, PTL

-----------------------------------------------------------------------------
(* A session's live claims, and those it is about to upsert, are on paths  *)
(* it set out to take since it last ended, or was about to upsert then.    *)
Accounted(a) ==
  /\ \A P \in Paths : Live(P, a) => P \in mayHold[a]
  /\ UnderWay(a) \subseteq mayHold[a]
AllAccounted == \A a \in Agents : Accounted(a)

(* A row once lapsed stays lapsed while the clock only goes forward.       *)
LEMMA LapsedStays ==
  ASSUME TypeInv, NEW r \in Rows, claims'[r] = claims[r], now' \in Int, now <= now',
         claims'[r].expires > now'
  PROVE  claims[r].expires > now
<1>1. claims[r].expires \in Int /\ now \in Int
  BY DEF TypeInv, TypeOK, Row, NoRow
<1> QED
  BY <1>1

(* As long as nothing of a session becomes live and nothing of it sets out *)
(* to claim, its claims stay accounted for.                                *)
LEMMA AccountedStays ==
  ASSUME AllAccounted, NEW a \in Agents,
         \A P \in Paths : Live(P, a)' => Live(P, a) \/ P \in UnderWay(a),
         UnderWay(a)' \subseteq UnderWay(a), mayHold[a] \subseteq mayHold'[a]
  PROVE  Accounted(a)'
BY DEF AllAccounted, Accounted

(* A process that turns to anything but upserting adds nothing under way.  *)
LEMMA UnderWayStays ==
  ASSUME TypeInv, NEW p \in Procs, NEW act, Become(p, act), act.pc # "upserting", NEW a
  PROVE  UnderWay(a)' \subseteq UnderWay(a)
BY DEF TypeInv, TypeOK, Become, UnderWay, ProcsOf

(* A row that is as it was, or has the same deadline, is not made live.    *)
LEMMA NotRevived ==
  ASSUME TypeInv, NEW a \in Agents, NEW P \in Paths, now' \in Int, now <= now',
         claims'[<<P, a>>].expires = claims[<<P, a>>].expires, Live(P, a)'
  PROVE  Live(P, a)
<1>1. claims[<<P, a>>].expires \in Int /\ now \in Int
  BY DEF TypeInv, TypeOK, Row, NoRow, Rows
<1> QED
  BY <1>1 DEF Live

(* No step puts back a claim that a session's end lapsed, but for a hook   *)
(* that was about to upsert or began since.                                *)
LEMMA AccountedStep == TypeInv /\ AllAccounted /\ [Next]_vars => AllAccounted'
<1> SUFFICES ASSUME TypeInv, AllAccounted, [Next]_vars PROVE AllAccounted'
  OBVIOUS
<1>0. /\ claims \in [Rows -> Row] /\ now \in Int /\ now >= 1 /\ MaxClock \in Int
      /\ proc \in [Procs -> Activity] /\ mayHold \in [Agents -> SUBSET Paths]
  BY DEF TypeInv, TypeOK
<1>1. CASE UNCHANGED vars
  BY <1>1 DEF vars, AllAccounted, Accounted, UnderWay, ProcsOf, Live
<1>2. CASE Tick
  <2>1. /\ now' \in Int /\ now <= now' /\ claims' = claims /\ proc' = proc
        /\ mayHold' = mayHold
    BY <1>0, <1>2 DEF Tick
  <2>2. ASSUME NEW a \in Agents, NEW P \in Paths, Live(P, a)' PROVE Live(P, a)
    BY <2>1, <2>2, NotRevived
  <2> QED
    BY <2>1, <2>2 DEF AllAccounted, Accounted, UnderWay, ProcsOf
<1>3. ASSUME NEW p \in Procs, Step(p) PROVE AllAccounted'
  <2> DEFINE a == Owner[p]
  <2>0. a \in Agents /\ p \in ProcsOf(a)
    BY DEF ProcsOf
  <2>1. ASSUME NEW source \in Sources, NEW project \in Home[a], NEW P \in Paths,
               NEW lease \in Leases, Begin(p, source, project, P, lease)
        PROVE  AllAccounted'
    <3>1. /\ now' \in Int /\ now <= now' /\ claims' = claims
          /\ mayHold' = [mayHold EXCEPT ![a] = @ \cup {P}]
      BY <1>0, <2>1 DEF Begin
    <3>2. proc'[p].path = P /\ \A q \in Procs \ {p} : proc'[q] = proc[q]
      BY <1>0, <2>1 DEF Begin, Become
    <3>3. ASSUME NEW b \in Agents PROVE Accounted(b)'
      <4>1. ASSUME NEW Q \in Paths, Live(Q, b)' PROVE Q \in mayHold[b]
        BY <3>1, <4>1, NotRevived DEF AllAccounted, Accounted
      <4>2. UnderWay(b) \subseteq mayHold[b]
        BY DEF AllAccounted, Accounted
      <4>3. mayHold'[b] = IF b = a THEN mayHold[b] \cup {P} ELSE mayHold[b]
        BY <1>0, <3>1
      <4>4. UnderWay(b)' \subseteq UnderWay(b) \cup (IF b = a THEN {P} ELSE {})
        BY <3>2 DEF UnderWay, ProcsOf
      <4> QED
        BY <4>1, <4>2, <4>3, <4>4 DEF Accounted
    <3> QED
      BY <3>3 DEF AllAccounted
  <2>2. CASE Upsert(p)
    <3>1. now' = now /\ mayHold' = mayHold /\ proc[p].pc = "upserting"
      BY <2>2 DEF Upsert
    <3>2. ASSUME NEW b \in Agents PROVE UnderWay(b)' \subseteq UnderWay(b)
      <4> DEFINE act == [proc[p] EXCEPT !.pc = "listing"]
      <4>1. Become(p, act)
        BY <2>2 DEF Upsert
      <4>2. act.pc = "listing"
        BY <1>0 DEF Activity
      <4> HIDE DEF act
      <4> QED
        BY <4>1, <4>2, UnderWayStays
    <3>3. ASSUME NEW b \in Agents, NEW P \in Paths, Live(P, b)'
          PROVE  Live(P, b) \/ P \in UnderWay(b)
      <4>1. CASE b = a /\ P = proc[p].path
        BY <2>0, <3>1, <4>1 DEF UnderWay, ProcsOf
      <4>2. CASE ~(b = a /\ P = proc[p].path)
        <5>1. <<P, b>> \in Rows /\ claims'[<<P, b>>] = claims[<<P, b>>]
          BY <1>0, <2>2, <4>2 DEF Upsert, Rows
        <5> QED
          BY <3>1, <3>3, <5>1 DEF Live
      <4> QED
        BY <4>1, <4>2
    <3> QED
      BY <3>1, <3>2, <3>3, AccountedStays DEF AllAccounted
  <2>3. CASE \/ ListConflicts(p) \/ (\E project \in Home[a] : Sweep(p, project))
             \/ (\E c \in Claim : RecordNotice(p, c)) \/ Emit(p) \/ Fail(p)
    <3>1. now' = now /\ mayHold' = mayHold
      BY <2>3 DEF ListConflicts, Sweep, RecordNotice, Emit, Fail
    <3>2. \E act : Become(p, act) /\ act.pc # "upserting"
      <4>1. Idle.pc = "idle"
        BY DEF Idle
      <4>2. ASSUME NEW source, NEW conflicts, Tell(p, source, conflicts)
            PROVE  \E act : Become(p, act) /\ act.pc # "upserting"
        <5> DEFINE unrecorded == IF source = "declared" THEN {} ELSE conflicts
                   act == [Idle EXCEPT !.pc = "telling", !.source = source,
                                       !.found = conflicts, !.unrecorded = unrecorded]
        <5>1. Become(p, Idle) \/ Become(p, act)
          BY <4>2 DEF Tell
        <5>2. act.pc = "telling"
          <6> HIDE DEF unrecorded
          <6> QED
            BY DEF Idle
        <5> HIDE DEF act
        <5> QED
          BY <4>1, <5>1, <5>2
      <4>3. CASE ListConflicts(p)
        BY <4>2, <4>3 DEF ListConflicts
      <4>4. CASE \E project \in Home[a] : Sweep(p, project)
        BY <4>2, <4>4 DEF Sweep
      <4>5. ASSUME NEW c \in Claim, RecordNotice(p, c)
            PROVE  \E act : Become(p, act) /\ act.pc # "upserting"
        <5> DEFINE act == [proc[p] EXCEPT !.unrecorded = @ \ {c}]
        <5>1. Become(p, act) /\ proc[p].pc = "telling"
          BY <4>5 DEF RecordNotice
        <5>2. act.pc = "telling"
          BY <1>0, <5>1 DEF Activity
        <5> HIDE DEF act
        <5> QED
          BY <5>1, <5>2
      <4>6. CASE Emit(p) \/ Fail(p)
        BY <4>1, <4>6 DEF Emit, Fail
      <4> QED
        BY <2>3, <4>3, <4>4, <4>5, <4>6
    <3>3. ASSUME NEW b \in Agents, NEW P \in Paths
          PROVE  claims'[<<P, b>>].expires = claims[<<P, b>>].expires
      <4>1. <<P, b>> \in Rows /\ claims[<<P, b>>] \in Row
        BY <1>0 DEF Rows
      <4>2. [claims[<<P, b>>] EXCEPT !.fresh = FALSE].expires = claims[<<P, b>>].expires
        BY <4>1 DEF Row, NoRow
      <4>3. \/ claims'[<<P, b>>] = claims[<<P, b>>]
            \/ claims'[<<P, b>>] = [claims[<<P, b>>] EXCEPT !.fresh = FALSE]
        BY <1>0, <2>3, <4>1 DEF ListConflicts, Sweep, RecordNotice, Emit, Fail
      <4> QED
        BY <4>2, <4>3
    <3>4. ASSUME NEW b \in Agents, NEW P \in Paths, Live(P, b)' PROVE Live(P, b)
      BY <3>1, <3>3, <3>4 DEF Live
    <3>5. \A b \in Agents : UnderWay(b)' \subseteq UnderWay(b)
      BY <3>2, UnderWayStays
    <3> QED
      BY <3>1, <3>4, <3>5, AccountedStays DEF AllAccounted
  <2>4. ASSUME NEW P \in Paths, Release(p, P)
        PROVE  AllAccounted'
    <3>1. now' = now /\ mayHold' = mayHold /\ proc' = proc
      BY <2>4 DEF Release
    <3>2. \A r \in Rows : claims'[r] = claims[r] \/ claims'[r].expires = 0
      BY <1>0, <2>4 DEF Release, NoRow
    <3>3. ASSUME NEW b \in Agents, NEW Q \in Paths, Live(Q, b)' PROVE Live(Q, b)
      <4>1. <<Q, b>> \in Rows
        BY DEF Rows
      <4> QED
        BY <1>0, <3>1, <3>2, <3>3, <4>1 DEF Live
    <3>4. \A b \in Agents : UnderWay(b)' \subseteq UnderWay(b)
      BY <3>1 DEF UnderWay, ProcsOf
    <3> QED
      BY <3>1, <3>3, <3>4, AccountedStays DEF AllAccounted
  <2>5. CASE EndSession(p)
    <3>1. now' = now /\ proc' = proc
          /\ mayHold' = [mayHold EXCEPT ![a] = UnderWay(a)]
      BY <2>5 DEF EndSession
    <3>2. ASSUME NEW b \in Agents, NEW Q \in Paths
          PROVE  claims'[<<Q, b>>] = IF b = a /\ Live(Q, b)
                   THEN [claims[<<Q, b>>] EXCEPT !.expires = now] ELSE claims[<<Q, b>>]
      <4>1. <<Q, b>> \in Rows /\ <<Q, b>>[1] = Q /\ <<Q, b>>[2] = b
        BY DEF Rows
      <4> QED
        BY <1>0, <2>5, <4>1 DEF EndSession
    <3>3. ASSUME NEW Q \in Paths PROVE ~Live(Q, a)'
      <4>1. CASE Live(Q, a)
        <5>1. claims'[<<Q, a>>] = [claims[<<Q, a>>] EXCEPT !.expires = now]
          BY <2>0, <3>2, <4>1
        <5>2. claims[<<Q, a>>] \in Row
          BY <1>0, <2>0 DEF Rows
        <5>3. claims'[<<Q, a>>].expires = now
          BY <5>1, <5>2 DEF Row, NoRow
        <5> QED
          BY <1>0, <3>1, <5>3 DEF Live
      <4>2. CASE ~Live(Q, a)
        BY <2>0, <3>1, <3>2, <4>2 DEF Live
      <4> QED
        BY <4>1, <4>2
    <3>4. Accounted(a)'
      <4>1. mayHold'[a] = UnderWay(a) /\ UnderWay(a)' = UnderWay(a)
        BY <1>0, <2>0, <3>1 DEF UnderWay, ProcsOf
      <4> QED
        BY <3>3, <4>1 DEF Accounted
    <3>5. ASSUME NEW b \in Agents \ {a} PROVE Accounted(b)'
      <4>1. mayHold'[b] = mayHold[b] /\ UnderWay(b)' = UnderWay(b)
        BY <1>0, <3>1 DEF UnderWay, ProcsOf
      <4>2. ASSUME NEW Q \in Paths, Live(Q, b)' PROVE Live(Q, b)
        <5>1. claims'[<<Q, b>>] = claims[<<Q, b>>]
          BY <3>2
        <5> QED
          BY <3>1, <4>2, <5>1 DEF Live
      <4> QED
        BY <4>1, <4>2 DEF AllAccounted, Accounted
    <3> QED
      BY <3>4, <3>5 DEF AllAccounted
  <2> QED
    BY <1>3, <2>1, <2>2, <2>3, <2>4, <2>5 DEF Step
<1> QED
  BY <1>1, <1>2, <1>3 DEF Next

(* SessionEnd lapses every claim the session holds, in every project: what *)
(* is live afterwards is on a path a hook set out to take since, or had    *)
(* still to upsert at that moment (D109).                                  *)
THEOREM EndedSessionsAreClear == Spec => []EndedSessionsHoldNothing
<1>1. Init => TypeInv /\ AllAccounted
  <2> SUFFICES ASSUME Init PROVE AllAccounted
    BY TypeInit
  <2>1. ASSUME NEW P \in Paths, NEW a \in Agents PROVE ~Live(P, a)
    <3>1. <<P, a>> \in Rows
      BY DEF Rows
    <3>2. claims[<<P, a>>].expires = 0 /\ now = 1
      BY <3>1 DEF Init, NoRow
    <3> QED
      BY <3>2 DEF Live
  <2>2. \A a \in Agents : UnderWay(a) = {}
    BY DEF Init, UnderWay, ProcsOf, Idle
  <2> QED
    BY <2>1, <2>2 DEF AllAccounted, Accounted
<1>2. TypeInv /\ AllAccounted /\ [Next]_vars => (TypeInv /\ AllAccounted)'
  BY TypeStep, AccountedStep
<1>3. AllAccounted => EndedSessionsHoldNothing
  BY DEF AllAccounted, Accounted, EndedSessionsHoldNothing
<1> QED
  BY <1>1, <1>2, <1>3, PTL DEF Spec

-----------------------------------------------------------------------------
(* Session a was told of a claim, or a process of it is about to print it  *)
(* or failed before it did.                                                *)
Knows(a, c) == c \in told[a] \cup lost[a] \/ \E p \in ProcsOf(a) : c \in proc[p].found

Noticed(a, r) == [path |-> r[1], holder |-> r[2], taken |-> notices[a][r].taken]
AllKnown == \A a \in Agents, r \in Rows : notices[a][r].count > 0 => Knows(a, Noticed(a, r))

(* What a process was about to print it still is, or has.                  *)
LEMMA KnowsStays ==
  ASSUME TypeInv, NEW p \in Procs, NEW act, Become(p, act),
         \A a \in Agents : told[a] \subseteq told'[a] /\ lost[a] \subseteq lost'[a],
         proc[p].found \subseteq act.found \cup told'[Owner[p]] \cup lost'[Owner[p]],
         NEW a \in Agents, NEW c, Knows(a, c)
  PROVE  Knows(a, c)'
<1>1. proc'[p] = act /\ \A q \in Procs \ {p} : proc'[q] = proc[q]
  BY DEF TypeInv, TypeOK, Become
<1>2. CASE c \in told[a] \cup lost[a]
  BY <1>2 DEF Knows
<1>3. CASE \E q \in ProcsOf(a) : c \in proc[q].found
  <2>1. PICK q \in ProcsOf(a) : c \in proc[q].found
    BY <1>3
  <2>2. q \in Procs /\ Owner[q] = a
    BY DEF ProcsOf
  <2>3. q = p => c \in act.found \/ c \in told'[a] \cup lost'[a]
    BY <2>1, <2>2
  <2> QED
    BY <1>1, <2>1, <2>2, <2>3 DEF Knows, ProcsOf
<1> QED
  BY <1>2, <1>3 DEF Knows

(* The effect of a process's step on what it was about to print, what its  *)
(* session was told and what is on record.                                 *)
LEMMA StepKeepsFound ==
  ASSUME TypeInv, NEW p \in Procs, Step(p)
  PROVE  /\ \A a \in Agents : told[a] \subseteq told'[a] /\ lost[a] \subseteq lost'[a]
         /\ \/ UNCHANGED proc
            \/ \E act : /\ Become(p, act)
                        /\ proc[p].found \subseteq act.found \cup told'[Owner[p]] \cup lost'[Owner[p]]
         /\ \/ UNCHANGED notices
            \/ \E c \in Claim : RecordNotice(p, c)
<1>0. /\ proc \in [Procs -> Activity] /\ told \in [Agents -> SUBSET Claim]
      /\ lost \in [Agents -> SUBSET Claim] /\ Working(p)
      /\ Owner[p] \in Agents /\ proc[p] \in Activity
  BY DEF TypeInv, TypeOK, AllWorking
<1>1. ASSUME proc[p].pc # "telling", told' = told, lost' = lost, notices' = notices,
             \E act : Become(p, act)
      PROVE  /\ \A a \in Agents : told[a] \subseteq told'[a] /\ lost[a] \subseteq lost'[a]
             /\ \E act : /\ Become(p, act)
                        /\ proc[p].found \subseteq act.found \cup told'[Owner[p]] \cup lost'[Owner[p]]
             /\ UNCHANGED notices
  BY <1>0, <1>1 DEF Working
<1>2. ASSUME NEW source \in Sources, NEW project \in Home[Owner[p]], NEW P \in Paths,
             NEW lease \in Leases, Begin(p, source, project, P, lease)
      PROVE  proc[p].pc # "telling" /\ told' = told /\ lost' = lost /\ notices' = notices
             /\ \E act : Become(p, act)
  BY <1>2 DEF Begin, Starts
<1>3. ASSUME Upsert(p)
      PROVE  proc[p].pc # "telling" /\ told' = told /\ lost' = lost /\ notices' = notices
             /\ \E act : Become(p, act)
  BY <1>3 DEF Upsert
<1>4. ASSUME ListConflicts(p)
      PROVE  proc[p].pc # "telling" /\ told' = told /\ lost' = lost /\ notices' = notices
             /\ \E act : Become(p, act)
  BY <1>4 DEF ListConflicts, Tell
<1>5. ASSUME NEW project \in Home[Owner[p]], Sweep(p, project)
      PROVE  proc[p].pc # "telling" /\ told' = told /\ lost' = lost /\ notices' = notices
             /\ \E act : Become(p, act)
  BY <1>5 DEF Sweep, Starts, Tell
<1>6. ASSUME NEW c \in Claim, RecordNotice(p, c)
      PROVE  /\ \A a \in Agents : told[a] \subseteq told'[a] /\ lost[a] \subseteq lost'[a]
             /\ \E act : /\ Become(p, act)
                        /\ proc[p].found \subseteq act.found \cup told'[Owner[p]] \cup lost'[Owner[p]]
  <2> DEFINE act == [proc[p] EXCEPT !.unrecorded = @ \ {c}]
  <2>1. Become(p, act) /\ told' = told /\ lost' = lost
    BY <1>6 DEF RecordNotice
  <2>2. act.found = proc[p].found
    BY <1>0 DEF Activity
  <2> QED
    BY <2>1, <2>2
<1>7. ASSUME Emit(p)
      PROVE  /\ \A a \in Agents : told[a] \subseteq told'[a] /\ lost[a] \subseteq lost'[a]
             /\ \E act : /\ Become(p, act)
                        /\ proc[p].found \subseteq act.found \cup told'[Owner[p]] \cup lost'[Owner[p]]
             /\ UNCHANGED notices
  BY <1>0, <1>7 DEF Emit
<1>8. ASSUME (\E P \in Paths : Release(p, P)) \/ EndSession(p)
      PROVE  told' = told /\ lost' = lost /\ UNCHANGED proc /\ UNCHANGED notices
  BY <1>8 DEF Release, EndSession
<1>9. ASSUME Fail(p)
      PROVE  /\ \A a \in Agents : told[a] \subseteq told'[a] /\ lost[a] \subseteq lost'[a]
             /\ \E act : /\ Become(p, act)
                        /\ proc[p].found \subseteq act.found \cup told'[Owner[p]] \cup lost'[Owner[p]]
             /\ UNCHANGED notices
  BY <1>0, <1>9 DEF Fail
<1> QED
  BY <1>1, <1>2, <1>3, <1>4, <1>5, <1>6, <1>7, <1>8, <1>9 DEF Step

(* Whatever a session knows of it keeps knowing of.                        *)
LEMMA StepKeepsKnowing ==
  ASSUME TypeInv, NEW p \in Procs, Step(p), NEW a \in Agents, NEW c, Knows(a, c)
  PROVE  Knows(a, c)'
<1>1. CASE UNCHANGED proc
  BY <1>1, StepKeepsFound DEF Knows, ProcsOf
<1>2. CASE \E act : /\ Become(p, act)
                    /\ proc[p].found \subseteq act.found \cup told'[Owner[p]] \cup lost'[Owner[p]]
  BY <1>2, StepKeepsFound, KnowsStays
<1> QED
  BY <1>1, <1>2, StepKeepsFound

(* A notice is recorded of what is about to be printed.                    *)
LEMMA KnownStep == TypeInv /\ AllKnown /\ [Next]_vars => AllKnown'
<1> SUFFICES ASSUME TypeInv, AllKnown, [Next]_vars PROVE AllKnown'
  OBVIOUS
<1>1. CASE UNCHANGED vars \/ Tick
  BY <1>1 DEF Tick, vars, AllKnown, Noticed, Knows, ProcsOf
<1>2. ASSUME NEW p \in Procs, Step(p), UNCHANGED notices PROVE AllKnown'
  <2> SUFFICES ASSUME NEW a \in Agents, NEW r \in Rows, notices'[a][r].count > 0
               PROVE  Knows(a, Noticed(a, r))'
    BY DEF AllKnown
  <2>1. Knows(a, Noticed(a, r))
    BY <1>2 DEF AllKnown
  <2>2. Noticed(a, r)' = Noticed(a, r)
    BY <1>2 DEF Noticed
  <2> DEFINE c == Noticed(a, r)
  <2>3. Knows(a, c) /\ c' = c
    BY <2>1, <2>2
  <2> HIDE DEF c
  <2>4. \A d : Knows(a, d) => Knows(a, d)'
    BY <1>2, StepKeepsKnowing
  <2>5. \A d : d = c => (Knows(a, d)' <=> Knows(a, c)')
    BY <2>3 DEF Knows
  <2> QED
    BY <2>3, <2>4, <2>5 DEF c
<1>3. ASSUME NEW p \in Procs, NEW d \in Claim, RecordNotice(p, d) PROVE AllKnown'
  <2> DEFINE key == <<d.path, d.holder>>
             count == IF notices[Owner[p]][key].taken = d.taken
                      THEN notices[Owner[p]][key].count + 1 ELSE 1
  <2> SUFFICES ASSUME NEW a \in Agents, NEW r \in Rows, notices'[a][r].count > 0
               PROVE  Knows(a, Noticed(a, r))'
    BY DEF AllKnown
  <2>1. /\ notices \in [Agents -> [Rows -> Notice]] /\ Owner[p] \in Agents /\ key \in Rows
        /\ proc \in [Procs -> Activity] /\ d \in proc[p].found
    BY <1>3 DEF TypeInv, TypeOK, AllWorking, Working, RecordNotice, Claim, Rows
  <2>2. notices' = [notices EXCEPT ![Owner[p]] = [@ EXCEPT ![key] =
                      [taken |-> d.taken, count |-> count]]]
    BY <1>3 DEF RecordNotice
  <2>3. d \in proc'[p].found
    <3>1. proc' = [proc EXCEPT ![p] = [proc[p] EXCEPT !.unrecorded = @ \ {d}]]
      BY <1>3 DEF RecordNotice, Become
    <3>2. proc[p] \in Activity
      BY <2>1
    <3> QED
      BY <2>1, <3>1, <3>2 DEF Activity
  <2>4. Step(p)
    BY <1>3 DEF Step
  <2>5. CASE a = Owner[p] /\ r = key
    <3>1. notices'[a][r].taken = d.taken
      BY <2>1, <2>2, <2>5
    <3>2. Noticed(a, r)' = d
      BY <2>5, <3>1 DEF Noticed, Claim
    <3>3. p \in ProcsOf(a)
      BY <2>5 DEF ProcsOf
    <3> QED
      BY <2>3, <3>2, <3>3 DEF Knows, ProcsOf
  <2>6. CASE ~(a = Owner[p] /\ r = key)
    <3>1. notices'[a][r] = notices[a][r]
      BY <2>1, <2>2, <2>6
    <3>2. Knows(a, Noticed(a, r)) /\ Noticed(a, r)' = Noticed(a, r)
      BY <3>1 DEF AllKnown, Noticed
    <3> DEFINE c == Noticed(a, r)
    <3>3. Knows(a, c) /\ c' = c
      BY <3>2
    <3> HIDE DEF c
    <3>4. \A e : Knows(a, e) => Knows(a, e)'
      BY <2>4, StepKeepsKnowing
    <3>5. \A e : e = c => (Knows(a, e)' <=> Knows(a, c)')
      BY <3>3 DEF Knows
    <3> QED
      BY <3>3, <3>4, <3>5 DEF c
  <2> QED
    BY <2>5, <2>6
<1> QED
  BY <1>1, <1>2, <1>3, StepKeepsFound DEF Next

(* A recorded notice is of a claim the session was told of, is about to be *)
(* or lost with a process that failed between the record and the print:    *)
(* the notice budget is spent on nothing else (record_notices).            *)
THEOREM NoticesAreTrue == Spec => []NoticesAreOfToldClaims
<1>1. Init => TypeInv /\ AllKnown
  BY TypeInit DEF Init, AllKnown
<1>2. TypeInv /\ AllKnown /\ [Next]_vars => (TypeInv /\ AllKnown)'
  BY TypeStep, KnownStep
<1>3. AllKnown => NoticesAreOfToldClaims
  BY DEF AllKnown, Knows, Noticed, NoticesAreOfToldClaims
<1> QED
  BY <1>1, <1>2, <1>3, PTL DEF Spec

-----------------------------------------------------------------------------
(* A process of a took the row for the first time and has yet to list.     *)
Pending(P, a) ==
  \E p \in ProcsOf(a) :
    /\ proc[p].pc = "listing" /\ ~proc[p].renewed /\ proc[p].path = P
    /\ proc[p].project = claims[<<P, a>>].project
    /\ proc[p].at = claims[<<P, a>>].taken

Contact(P, a, Q, b) ==
  Collide(P, a, Q, b) /\ claims[<<P, a>>].fresh /\ claims[<<Q, b>>].fresh

(* Of two fresh claims in each other's way, one is known to the other's    *)
(* holder, or one of the holders has its listing still ahead.              *)
Met(P, a, Q, b) ==
  \/ Pending(P, a) \/ Pending(Q, b)
  \/ Knows(a, AsClaim(Q, b)) \/ Knows(b, AsClaim(P, a))
AllMet == \A a, b \in Agents, P, Q \in Paths : Contact(P, a, Q, b) => Met(P, a, Q, b)

(* The step expected: who took the row fresh and lists finds the other.    *)
LEMMA ListingMeets ==
  ASSUME TypeInv, NEW p \in Procs, ListConflicts(p),
         NEW a \in Agents, NEW b \in Agents, NEW P \in Paths, NEW Q \in Paths,
         Contact(P, a, Q, b), Owner[p] = a, proc[p].path = P, ~proc[p].renewed,
         proc[p].project = claims[<<P, a>>].project
  PROVE  Knows(a, AsClaim(Q, b))'
<1> DEFINE c == AsClaim(Q, b)
           conflicts == ConflictsWith(a, proc[p].project, P, proc[p].at)
<1>1. <<Q, b>> \in Rows /\ <<Q, b>>[1] = Q /\ <<Q, b>>[2] = b
  BY DEF Rows
<1>2. /\ claims[<<Q, b>>].project = proc[p].project /\ Live(Q, b) /\ b # a
      /\ Overlaps(Q, P)
  BY DEF Contact, Collide, Overlaps
<1>3. claims[<<Q, b>>].expires > proc[p].at
  <2>1. proc[p].at \in 1..now /\ now \in Int
    BY DEF TypeInv, TypeOK, AllWorking, Working, ListConflicts
  <2>2. claims[<<Q, b>>].expires \in Int
    BY <1>1 DEF TypeInv, TypeOK, Row, NoRow
  <2> QED
    BY <1>2, <2>1, <2>2 DEF Live
<1>4. <<Q, b>> \in Listed(proc[p].project)
  BY <1>1, <1>2 DEF Listed
<1>5. c \in conflicts
  BY <1>1, <1>2, <1>3, <1>4 DEF ConflictsWith
<1>6. ToReport(p, conflicts) = conflicts
  BY DEF ToReport
<1>7. Tell(p, proc[p].source, conflicts) /\ claims' = claims
  BY <1>6 DEF ListConflicts
<1> HIDE DEF c, conflicts
<1>8. \E act : Become(p, act) /\ act.found = conflicts
  <2> DEFINE unrecorded == IF proc[p].source = "declared" THEN {} ELSE conflicts
             act == [Idle EXCEPT !.pc = "telling", !.source = proc[p].source,
                                 !.found = conflicts, !.unrecorded = unrecorded]
  <2>1. Become(p, act)
    BY <1>5, <1>7 DEF Tell
  <2>2. act.found = conflicts
    <3> HIDE DEF unrecorded
    <3> QED
      BY DEF Idle
  <2> QED
    BY <2>1, <2>2
<1>9. proc'[p].found = conflicts
  BY <1>8 DEF TypeInv, TypeOK, Become
<1>10. c \in proc'[p].found /\ p \in ProcsOf(a)
  BY <1>5, <1>9 DEF ProcsOf
<1>11. AsClaim(Q, b)' = c
  BY <1>7 DEF c, AsClaim
<1> QED
  BY <1>10, <1>11 DEF Knows, ProcsOf

(* A listing still ahead stays ahead until the process that owes it does it.*)
LEMMA PendingStays ==
  ASSUME TypeInv, NEW p \in Procs, Step(p), NEW X \in Paths, NEW x \in Agents,
         claims'[<<X, x>>] = claims[<<X, x>>], claims[<<X, x>>].fresh, Pending(X, x)
  PROVE  \/ Pending(X, x)'
         \/ /\ ListConflicts(p) /\ Owner[p] = x /\ proc[p].path = X /\ ~proc[p].renewed
            /\ proc[p].project = claims[<<X, x>>].project
<1>1. PICK q \in ProcsOf(x) :
        /\ proc[q].pc = "listing" /\ ~proc[q].renewed /\ proc[q].path = X
        /\ proc[q].project = claims[<<X, x>>].project
        /\ proc[q].at = claims[<<X, x>>].taken
  BY DEF Pending
<1>2. UNCHANGED proc \/ \E act : Become(p, act)
  BY StepKeepsFound
<1>3. CASE q = p
  <2>0. ~Fail(p)
    <3> SUFFICES ASSUME Fail(p) PROVE FALSE
      OBVIOUS
    <3>1. /\ <<X, x>> \in Rows /\ claims[<<X, x>>] \in Row
          /\ <<X, x>> = <<proc[p].path, Owner[p]>>
      BY <1>1, <1>3 DEF TypeInv, TypeOK, Rows, ProcsOf
    <3>2. claims'[<<X, x>>] = [claims[<<X, x>>] EXCEPT !.fresh = FALSE]
      BY <1>1, <1>3, <3>1 DEF Fail
    <3>3. [claims[<<X, x>>] EXCEPT !.fresh = FALSE].fresh = FALSE
      BY <3>1 DEF Row, NoRow
    <3>4. ~claims'[<<X, x>>].fresh
      BY <3>2, <3>3
    <3> QED
      BY <3>4
  <2>1. ListConflicts(p)
    BY <1>1, <1>3, <2>0 DEF Step, Begin, Starts, Upsert, Sweep, RecordNotice, Emit, Release, EndSession
  <2> QED
    BY <1>1, <1>3, <2>1 DEF ProcsOf
<1>4. CASE q # p
  <2>1. proc'[q] = proc[q]
    BY <1>1, <1>2, <1>4 DEF TypeInv, TypeOK, Become, ProcsOf
  <2> QED
    BY <1>1, <2>1 DEF Pending, ProcsOf
<1> QED
  BY <1>3, <1>4

(* A claim listed as before is known as before.                            *)
LEMMA ClaimStaysKnown ==
  ASSUME TypeInv, NEW p \in Procs, Step(p), NEW X \in Paths, NEW x \in Agents,
         claims'[<<X, x>>] = claims[<<X, x>>], NEW y \in Agents, Knows(y, AsClaim(X, x))
  PROVE  Knows(y, AsClaim(X, x))'
<1> DEFINE c == AsClaim(X, x)
<1>1. Knows(y, c) /\ c' = c
  BY DEF AsClaim
<1> HIDE DEF c
<1>2. \A e : Knows(y, e) => Knows(y, e)'
  BY StepKeepsKnowing
<1>3. \A e : e = c => (Knows(y, e)' <=> Knows(y, c)')
  BY <1>1 DEF Knows
<1> QED
  BY <1>1, <1>2, <1>3 DEF c

(* As long as both rows stay, one holder knows or has its listing ahead.   *)
LEMMA MetStays ==
  ASSUME TypeInv, NEW p \in Procs, Step(p),
         NEW a \in Agents, NEW b \in Agents, NEW P \in Paths, NEW Q \in Paths,
         claims'[<<P, a>>] = claims[<<P, a>>], claims'[<<Q, b>>] = claims[<<Q, b>>],
         Contact(P, a, Q, b), Met(P, a, Q, b)
  PROVE  Met(P, a, Q, b)'
<1>1. /\ Contact(Q, b, P, a)
      /\ claims[<<P, a>>].fresh /\ claims[<<Q, b>>].fresh
  BY DEF Contact, Collide, Overlaps
<1>2. CASE Pending(P, a)
  BY <1>1, <1>2, PendingStays, ListingMeets DEF Met
<1>3. CASE Pending(Q, b)
  BY <1>1, <1>3, PendingStays, ListingMeets DEF Met
<1>4. CASE Knows(a, AsClaim(Q, b)) \/ Knows(b, AsClaim(P, a))
  BY <1>4, ClaimStaysKnown DEF Met
<1> QED
  BY <1>2, <1>3, <1>4 DEF Met

(* A fresh live row was there before the step, or the step inserted it and *)
(* the process that did has its listing ahead.                             *)
LEMMA FreshRows ==
  ASSUME TypeInv, NEW p \in Procs, Step(p), NEW X \in Paths, NEW x \in Agents,
         Live(X, x)', claims'[<<X, x>>].fresh
  PROVE  \/ claims'[<<X, x>>] = claims[<<X, x>>] /\ Live(X, x)
         \/ Pending(X, x)'
<1> DEFINE r == <<X, x>>
<1>0. /\ claims \in [Rows -> Row] /\ now \in 1..MaxClock /\ now \in Int /\ MaxClock \in Int
      /\ proc \in [Procs -> Activity] /\ proc[p] \in Activity
      /\ r \in Rows /\ claims[r] \in Row /\ r[1] = X /\ r[2] = x
  BY DEF TypeInv, TypeOK, Rows
<1>1. CASE Upsert(p) /\ x = Owner[p] /\ X = proc[p].path
  <2>1. ~Exists(X, x)
    <3> SUFFICES ASSUME Exists(X, x) PROVE FALSE
      OBVIOUS
    <3> DEFINE expires == proc[p].at + proc[p].lease
    <3>1. claims'[r] = [claims[r] EXCEPT !.expires = expires, !.fresh = FALSE]
      BY <1>0, <1>1 DEF Upsert
    <3>2. claims[r].fresh \in BOOLEAN /\ claims'[r].fresh = FALSE
      BY <1>0, <3>1 DEF Row, NoRow
    <3> QED
      BY <3>2
  <2>2. claims'[r] = [project |-> proc[p].project, taken |-> proc[p].at,
                      expires |-> proc[p].at + proc[p].lease, fresh |-> ~proc[p].renewed]
    BY <1>0, <1>1, <2>1 DEF Upsert
  <2>3. claims'[r].project = proc[p].project /\ claims'[r].taken = proc[p].at /\ ~proc[p].renewed
    <3> DEFINE fresh == ~proc[p].renewed
    <3> HIDE DEF fresh
    <3>1. claims'[r] = [project |-> proc[p].project, taken |-> proc[p].at,
                        expires |-> proc[p].at + proc[p].lease, fresh |-> fresh]
      BY <2>2 DEF fresh
    <3>2. claims'[r].fresh = fresh
      BY <3>1
    <3>3. fresh
      BY <3>2, Zenon
    <3>4. ~proc[p].renewed
      BY <3>3, Zenon DEF fresh
    <3> QED
      BY <3>1, <3>4
  <2>4. proc'[p] = [proc[p] EXCEPT !.pc = "listing"]
    BY <1>0, <1>1 DEF Upsert, Become
  <2>5. /\ proc'[p].pc = "listing" /\ proc'[p].path = X
        /\ proc'[p].project = proc[p].project /\ proc'[p].at = proc[p].at
        /\ proc'[p].renewed = proc[p].renewed
    BY <1>0, <1>1, <2>4 DEF Activity
  <2>6. p \in ProcsOf(x)
    BY <1>1 DEF ProcsOf
  <2> QED
    BY <2>3, <2>5, <2>6 DEF Pending, ProcsOf
<1>2. CASE Upsert(p) /\ ~(x = Owner[p] /\ X = proc[p].path)
  BY <1>0, <1>2 DEF Upsert, Live
<1>3. CASE \E P \in Paths : Release(p, P)
  <2>1. claims'[r] = claims[r] \/ claims'[r] = NoRow
    BY <1>0, <1>3 DEF Release
  <2>2. claims'[r] # NoRow /\ now' = now
    BY <1>3 DEF NoRow, Release
  <2> QED
    BY <2>1, <2>2 DEF Live
<1>4. CASE EndSession(p)
  <2>1. now' = now /\ claims'[r] = IF r[2] = Owner[p] /\ Live(r[1], Owner[p])
                                   THEN [claims[r] EXCEPT !.expires = now] ELSE claims[r]
    BY <1>0, <1>4 DEF EndSession
  <2>2. [claims[r] EXCEPT !.expires = now].expires = now
    BY <1>0 DEF Row, NoRow
  <2>3. claims'[r].expires # now
    BY <1>0, <2>1 DEF Live
  <2> QED
    BY <2>1, <2>2, <2>3 DEF Live
<1>5. CASE Fail(p)
  <2>1. claims'[r] = claims[r] \/ claims'[r] = [claims[r] EXCEPT !.fresh = FALSE]
    BY <1>0, <1>5 DEF Fail
  <2>2. [claims[r] EXCEPT !.fresh = FALSE].fresh = FALSE
    BY <1>0 DEF Row, NoRow
  <2>3. claims'[r] = claims[r] /\ now' = now
    BY <1>5, <2>1, <2>2 DEF Fail
  <2> QED
    BY <2>3 DEF Live
<1>6. CASE claims' = claims
  <2>1. now' \in Int /\ now <= now'
    <3>1. now' = now \/ now' = now + 1
      BY DEF Step, Begin, Upsert, ListConflicts, Sweep, RecordNotice, Emit, Fail,
             Release, EndSession
    <3> QED
      BY <1>0, <3>1
  <2> QED
    BY <1>0, <1>6, <2>1, LapsedStays DEF Live
<1> QED
  BY <1>1, <1>2, <1>3, <1>4, <1>5, <1>6 DEF Step, Begin, ListConflicts, Sweep, RecordNotice, Emit

(* Neither side of a contact is left without having been or being told.    *)
LEMMA MetStep == TypeInv /\ AllMet /\ [Next]_vars => AllMet'
<1> SUFFICES ASSUME TypeInv, AllMet, [Next]_vars PROVE AllMet'
  OBVIOUS
<1> SUFFICES ASSUME NEW a \in Agents, NEW b \in Agents, NEW P \in Paths, NEW Q \in Paths,
                    Contact(P, a, Q, b)'
             PROVE  Met(P, a, Q, b)'
  BY DEF AllMet
<1>1. CASE UNCHANGED vars \/ Tick
  <2>1. now' \in Int /\ now <= now' /\ claims' = claims /\ proc' = proc
        /\ told' = told /\ lost' = lost
    BY <1>1 DEF Tick, vars, TypeInv, TypeOK
  <2>2. Contact(P, a, Q, b)
    BY <2>1, LapsedStays DEF Contact, Collide, Live, Rows
  <2>3. Met(P, a, Q, b)
    BY <2>2 DEF AllMet
  <2> QED
    BY <2>1, <2>3 DEF Met, Pending, Knows, AsClaim, ProcsOf
<1>2. ASSUME NEW p \in Procs, Step(p) PROVE Met(P, a, Q, b)'
  <2>1. /\ Live(P, a)' /\ claims'[<<P, a>>].fresh
        /\ Live(Q, b)' /\ claims'[<<Q, b>>].fresh
    BY DEF Contact, Collide
  <2>2. CASE Pending(P, a)' \/ Pending(Q, b)'
    BY <2>2 DEF Met
  <2>3. CASE ~Pending(P, a)' /\ ~Pending(Q, b)'
    <3>1. /\ claims'[<<P, a>>] = claims[<<P, a>>] /\ Live(P, a)
          /\ claims'[<<Q, b>>] = claims[<<Q, b>>] /\ Live(Q, b)
      BY <1>2, <2>1, <2>3, FreshRows
    <3>2. Contact(P, a, Q, b)
      BY <3>1 DEF Contact, Collide
    <3> QED
      BY <1>2, <3>1, <3>2, MetStays DEF AllMet
  <2> QED
    BY <2>2, <2>3
<1> QED
  BY <1>1, <1>2 DEF Next

(* Two sessions that take overlapping claims at the same time can not both *)
(* miss each other, however many sessions, hooks and projects there are:   *)
(* take() upserts before it lists (src/claims.rs).                         *)
THEOREM ContactIsMade == Spec => []FirstContact
<1>1. Init => TypeInv /\ AllMet
  BY TypeInit DEF Init, AllMet, Contact, Collide, Live, NoRow, Rows
<1>2. TypeInv /\ AllMet /\ [Next]_vars => (TypeInv /\ AllMet)'
  BY TypeStep, MetStep
<1>3. TypeInv /\ AllMet => FirstContact
  <2> SUFFICES ASSUME TypeInv, AllMet, NEW a \in Agents, NEW b \in Agents,
                      NEW P \in Paths, NEW Q \in Paths,
                      Contact(P, a, Q, b), AllIdle(a), AllIdle(b)
               PROVE  \/ AsClaim(Q, b) \in told[a] \cup lost[a]
                      \/ AsClaim(P, a) \in told[b] \cup lost[b]
    BY DEF FirstContact, Contact
  <2>1. Met(P, a, Q, b)
    BY DEF AllMet
  <2>2. \A p \in ProcsOf(a) \cup ProcsOf(b) : proc[p].pc = "idle" /\ proc[p].found = {}
    BY DEF AllIdle, TypeInv, AllWorking, Working, ProcsOf
  <2> QED
    BY <2>1, <2>2 DEF Met, Pending, Knows
<1> QED
  BY <1>1, <1>2, <1>3, PTL DEF Spec
=============================================================================
