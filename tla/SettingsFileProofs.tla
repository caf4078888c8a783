------------------------- MODULE SettingsFileProofs -------------------------
(***************************************************************************)
(* Theorems about SettingsFile for every set of processes, whatever they   *)
(* want installed, and every number of attempts, commands and edits.       *)
(***************************************************************************)
EXTENDS SettingsFile, TLAPS

USE SettingsAssumption, AbsentAssumption

-----------------------------------------------------------------------------
(* A process that runs no command is well typed.                           *)
LEMMA IdleType == Idle \in Activity
BY DEF Idle, Activity, Phases, Content, Empty, Document

(* What an action may change in what a process is in the middle of.        *)
LEMMA ActivityUpdates ==
  ASSUME NEW a \in Activity, NEW pc \in Phases
  PROVE  /\ [a EXCEPT !.pc = pc] \in Activity
         /\ [a EXCEPT !.pc = pc, !.locked = TRUE] \in Activity
         /\ \A want \in SUBSET Entries, dry \in BOOLEAN :
              [a EXCEPT !.pc = pc, !.want = want, !.dry = dry] \in Activity
         /\ \A seen \in Content, plan \in Document :
              [a EXCEPT !.pc = pc, !.seen = seen, !.plan = plan] \in Activity
         /\ \A attempt \in 0..MaxAttempts - 1, seen \in Content, plan \in Document :
              [a EXCEPT !.pc = pc, !.attempt = attempt, !.seen = seen, !.plan = plan]
                \in Activity
<1>1. [a EXCEPT !.pc = pc] \in Activity
  BY DEF Activity
<1>2. [a EXCEPT !.pc = pc, !.locked = TRUE] \in Activity
  BY DEF Activity
<1>3. ASSUME NEW want \in SUBSET Entries, NEW dry \in BOOLEAN
      PROVE  [a EXCEPT !.pc = pc, !.want = want, !.dry = dry] \in Activity
  BY DEF Activity
<1>4. ASSUME NEW seen \in Content, NEW plan \in Document
      PROVE  [a EXCEPT !.pc = pc, !.seen = seen, !.plan = plan] \in Activity
  BY DEF Activity
<1>5. ASSUME NEW attempt \in 0..MaxAttempts - 1, NEW seen \in Content, NEW plan \in Document
      PROVE  [a EXCEPT !.pc = pc, !.attempt = attempt, !.seen = seen, !.plan = plan]
                \in Activity
  BY DEF Activity
<1> QED
  BY <1>1, <1>2, <1>3, <1>4, <1>5

(* Every phase an action names is a phase.                                 *)
LEMMA PhaseNames ==
  {"idle", "locking", "reading", "writing", "copying", "comparing", "renaming"} \subseteq Phases
BY DEF Phases

(* What is planned on is a document, also for a missing file.              *)
LEMMA ParsedType == \A content \in Content : Parsed(content) \in Document
BY DEF Parsed, Content, Empty, Document

(* plan_install and plan_uninstall change amb's own entries and nothing    *)
(* else, and the entries are then the ones wanted.                         *)
LEMMA PlanKeepsTheRest ==
  ASSUME NEW document \in Document, NEW want \in SUBSET Entries
  PROVE  /\ Plan(document, want) \in Document
         /\ Plan(document, want).theirs = document.theirs
         /\ Plan(document, want).parses = document.parses
         /\ Plan(document, want).ours = want
BY DEF Plan, Document

(* Witnessing a write leaves a process well typed.                         *)
LEMMA WitnessedType ==
  ASSUME TypeOK, NEW q \in Procs, NEW stray \in BOOLEAN
  PROVE  Witnessed(q, stray) \in Activity
<1>1. proc[q] \in Activity
  BY DEF TypeOK
<1> DEFINE raced  == proc[q].raced \/ proc[q].pc = "renaming"
           strays == IF stray /\ proc[q].pc # "idle" THEN proc[q].strays + 1 ELSE proc[q].strays
<1>2. strays \in Nat
  BY <1>1 DEF Activity
<1>3. raced \in BOOLEAN
  BY Zenon DEF Activity
<1>4. Witnessed(q, stray) = [proc[q] EXCEPT !.raced = raced, !.strays = strays]
  BY DEF Witnessed
<1> HIDE DEF raced, strays
<1> QED
  BY <1>1, <1>2, <1>3, <1>4 DEF Activity

(* One process turning to something else leaves proc well typed.           *)
LEMMA BecomeType ==
  ASSUME TypeOK, NEW p \in Procs, NEW activity \in Activity, Become(p, activity)
  PROVE  proc' \in [Procs -> Activity]
BY DEF TypeOK, Become

(* So does a command's end, which also leaves a lock.                      *)
LEMMA EndType ==
  ASSUME TypeOK, NEW p \in Procs, End(p)
  PROVE  /\ proc' \in [Procs -> Activity]
         /\ lock' \in Procs \cup {Nobody}
BY IdleType, BecomeType DEF End, TypeOK

(* A machine nobody ran amb on is well typed.                              *)
LEMMA TypeInit == Init => TypeOK
<1> SUFFICES ASSUME Init PROVE TypeOK
  OBVIOUS
<1>1. Absent \in Content /\ Empty \in Content
  BY DEF Content, Empty, Document
<1>2. proc \in [Procs -> Activity]
  BY IdleType DEF Init
<1> QED
  BY <1>1, <1>2 DEF Init, TypeOK

(* Every step of amb and of the host keeps the types.                      *)
LEMMA TypeStep == TypeOK /\ [Next]_vars => TypeOK'
<1> SUFFICES ASSUME TypeOK, [Next]_vars PROVE TypeOK'
  OBVIOUS
<1>0. \A p \in Procs : proc[p] \in Activity
  BY DEF TypeOK
<1>1. ASSUME NEW p \in Procs, NEW want \in Wanted, NEW dry \in BOOLEAN, Begin(p, want, dry)
      PROVE  TypeOK'
  <2>1. [Idle EXCEPT !.pc = "locking", !.want = want, !.dry = dry] \in Activity
    BY IdleType, ActivityUpdates, PhaseNames
  <2> QED
    BY <1>1, <2>1, BecomeType DEF Begin, TypeOK
<1>2. ASSUME NEW p \in Procs, LockSettings(p) \/ LockUnavailable(p) PROVE TypeOK'
  <2>1. /\ [proc[p] EXCEPT !.pc = "reading", !.locked = TRUE] \in Activity
        /\ [proc[p] EXCEPT !.pc = "reading"] \in Activity
    BY <1>0, ActivityUpdates, PhaseNames
  <2> QED
    BY <1>2, <2>1, BecomeType DEF LockSettings, LockUnavailable, TypeOK
<1>3. ASSUME NEW p \in Procs, ReadAndPlan(p) PROVE TypeOK'
  <2>1. Plan(Parsed(file), proc[p].want) \in Document
    <3>1. proc[p].want \in SUBSET Entries
      BY <1>0 DEF Activity
    <3> QED
      BY <3>1, ParsedType, PlanKeepsTheRest DEF TypeOK
  <2>2. [proc[p] EXCEPT !.pc = "writing", !.seen = file,
                        !.plan = Plan(Parsed(file), proc[p].want)] \in Activity
    BY <1>0, <2>1, ActivityUpdates, PhaseNames DEF TypeOK
  <2> QED
    BY <1>3, <2>2, BecomeType, EndType DEF ReadAndPlan, TypeOK
<1>4. ASSUME NEW p \in Procs, WriteTemporary(p) PROVE TypeOK'
  <2>1. [proc[p] EXCEPT !.pc = IF proc[p].seen = Absent THEN "comparing" ELSE "copying"]
          \in Activity
    BY <1>0, ActivityUpdates, PhaseNames
  <2> QED
    BY <1>4, <2>1, BecomeType DEF WriteTemporary, TypeOK
<1>5. ASSUME NEW p \in Procs, CopyBackup(p) PROVE TypeOK'
  <2>1. [proc[p] EXCEPT !.pc = "comparing"] \in Activity
    BY <1>0, ActivityUpdates, PhaseNames
  <2> QED
    BY <1>5, <2>1, BecomeType, EndType DEF CopyBackup, TypeOK
<1>6. ASSUME NEW p \in Procs, Compare(p) PROVE TypeOK'
  <2>1. [proc[p] EXCEPT !.pc = "renaming"] \in Activity
    BY <1>0, ActivityUpdates, PhaseNames
  <2>2. ASSUME proc[p].attempt + 1 # MaxAttempts
        PROVE  [proc[p] EXCEPT !.pc = "reading", !.attempt = @ + 1,
                               !.seen = Absent, !.plan = Empty] \in Activity
    <3>1. proc[p].attempt \in 0..MaxAttempts - 1
      BY <1>0 DEF Activity
    <3>2. proc[p].attempt + 1 \in 0..MaxAttempts - 1
      BY <2>2, <3>1
    <3>3. Absent \in Content /\ Empty \in Document
      BY DEF Content, Empty, Document
    <3> QED
      BY <1>0, <3>2, <3>3, ActivityUpdates, PhaseNames
  <2> QED
    BY <1>6, <2>1, <2>2, BecomeType, EndType DEF Compare, TypeOK
<1>7. ASSUME NEW p \in Procs, Rename(p) PROVE TypeOK'
  <2>1. proc[p].plan \in Content
    BY DEF TypeOK, Activity, Content
  <2>2. proc' \in [Procs -> Activity]
    BY <1>7, IdleType, WitnessedType DEF Rename
  <2> QED
    BY <1>7, <2>1, <2>2 DEF Rename, TypeOK
<1>8. ASSUME NEW p \in Procs, Kill(p) PROVE TypeOK'
  BY <1>8, EndType DEF Kill, TypeOK
<1>9. CASE HostReads
  <2>1. Parsed(file).ours \in SUBSET Entries
    BY ParsedType DEF TypeOK, Document
  <2> QED
    BY <1>9, <2>1 DEF HostReads, TypeOK
<1>10. ASSUME NEW content \in Content, HostWrites(content) PROVE TypeOK'
  <2>1. proc' \in [Procs -> Activity]
    BY <1>10, WitnessedType DEF HostWrites
  <2>2. edits' \in 0..MaxEdits
    BY <1>10 DEF HostWrites, TypeOK
  <2> QED
    BY <1>10, <2>1, <2>2 DEF HostWrites, TypeOK
<1>11. CASE HostEdits
  <2>1. PICK theirs \in {0, edits + 1}, parses \in BOOLEAN :
          HostWrites([theirs |-> theirs, parses |-> parses, ours |-> copy])
    BY <1>11 DEF HostEdits
  <2>2. theirs \in 0..MaxEdits
    BY <2>1 DEF HostWrites, TypeOK
  <2>3. [theirs |-> theirs, parses |-> parses, ours |-> copy] \in Content
    BY <2>2 DEF TypeOK, Content, Document
  <2> QED
    BY <1>10, <2>1, <2>3
<1>12. CASE HostRemoves
  <2>1. Absent \in Content
    BY DEF Content
  <2> QED
    BY <1>10, <1>12, <2>1 DEF HostRemoves
<1>13. CASE UNCHANGED vars
  BY <1>13 DEF vars, TypeOK
<1> QED
  BY <1>1, <1>2, <1>3, <1>4, <1>5, <1>6, <1>7, <1>8, <1>9, <1>11, <1>12, <1>13
     DEF Next, Step, Work

(* Type correctness of the settings cycle (hooks.rs apply).                *)
THEOREM SettingsTypeCorrect == Spec => []TypeOK
<1> QED
  BY TypeInit, TypeStep, PTL DEF Spec

-----------------------------------------------------------------------------
(* What a step does to the processes: one of them moves and the file is    *)
(* left alone, or somebody writes the file and everybody else witnesses it.*)

Planned(p) == proc[p].pc \in {"writing", "copying", "comparing", "renaming"}

(* When one process moves the others stay where they are.                  *)
LEMMA BecomeOthers ==
  ASSUME TypeOK, NEW p \in Procs, NEW activity, Become(p, activity)
  PROVE  /\ proc'[p] = activity
         /\ \A q \in Procs : q # p => proc'[q] = proc[q]
BY DEF Become, TypeOK

(* A command's end takes nobody else's lock away.                          *)
LEMMA EndOthers ==
  ASSUME TypeOK, NEW p \in Procs, End(p)
  PROVE  /\ proc'[p] = Idle
         /\ \A q \in Procs : q # p => proc'[q] = proc[q]
         /\ \A q \in Procs : q # p /\ lock = q => lock' = q
BY BecomeOthers DEF End

(* Where an idle process is, and that it holds nothing.                    *)
LEMMA IdleFields ==
  /\ Idle.pc = "idle" /\ Idle.locked = FALSE
BY DEF Idle

(* Witnessing a write touches history only.                                *)
LEMMA WitnessedFields ==
  ASSUME TypeOK, NEW q \in Procs, NEW stray \in BOOLEAN
  PROVE  LET w == Witnessed(q, stray) IN
         /\ w.pc = proc[q].pc /\ w.want = proc[q].want /\ w.seen = proc[q].seen
         /\ w.plan = proc[q].plan /\ w.attempt = proc[q].attempt /\ w.locked = proc[q].locked
         /\ proc[q].pc = "renaming" => w.raced
         /\ w.strays = IF stray /\ proc[q].pc # "idle" THEN proc[q].strays + 1
                       ELSE proc[q].strays
<1>1. proc[q] \in Activity
  BY DEF TypeOK
<1> QED
  BY <1>1 DEF Witnessed, Activity

-----------------------------------------------------------------------------
(* A plan is the plan of what its process saw, and what a process compared *)
(* is what is there until somebody writes.                                 *)
Sound(q) ==
  Planned(q) =>
    /\ proc[q].plan = Plan(Parsed(proc[q].seen), proc[q].want)
    /\ Parsed(proc[q].seen).parses
    /\ proc[q].pc = "renaming" /\ ~proc[q].raced => file = proc[q].seen

PlansAreOfTheSeen == \A p \in Procs : Sound(p)

(* A plan under way stays the plan of what was read, and of the file.      *)
LEMMA PlansStep == TypeOK /\ PlansAreOfTheSeen /\ [Next]_vars => PlansAreOfTheSeen'
<1> SUFFICES ASSUME TypeOK, PlansAreOfTheSeen, [Next]_vars, NEW q \in Procs
             PROVE  Sound(q)'
  BY DEF PlansAreOfTheSeen
<1>0. Sound(q) /\ proc[q] \in Activity
  BY DEF PlansAreOfTheSeen, TypeOK
<1>1. ASSUME file' = file, proc'[q] = proc[q] PROVE Sound(q)'
  BY <1>0, <1>1 DEF Sound, Planned
<1>2. ASSUME proc'[q] = Idle PROVE Sound(q)'
  BY <1>2, IdleFields DEF Sound, Planned
<1>3. ASSUME NEW stray \in BOOLEAN, proc'[q] = Witnessed(q, stray) PROVE Sound(q)'
  BY <1>0, <1>3, WitnessedFields DEF Sound, Planned
<1>4. ASSUME NEW p \in Procs, NEW want \in Wanted, NEW dry \in BOOLEAN, Begin(p, want, dry)
      PROVE  Sound(q)'
  <2>1. CASE p # q
    BY <1>1, <1>4, <2>1, BecomeOthers DEF Begin
  <2>2. CASE p = q
    <3>1. proc'[q].pc = "locking"
      BY <1>4, <2>2 DEF Begin, Become, TypeOK, Idle
    <3> QED
      BY <3>1 DEF Sound, Planned
  <2> QED
    BY <2>1, <2>2
<1>5. ASSUME NEW p \in Procs, LockSettings(p) \/ LockUnavailable(p) PROVE Sound(q)'
  <2>1. CASE p # q
    BY <1>1, <1>5, <2>1, BecomeOthers DEF LockSettings, LockUnavailable
  <2>2. CASE p = q
    <3>1. proc'[q].pc = "reading"
      <4>1. \/ Become(q, [proc[q] EXCEPT !.pc = "reading", !.locked = TRUE])
            \/ Become(q, [proc[q] EXCEPT !.pc = "reading"])
        BY <1>5, <2>2 DEF LockSettings, LockUnavailable
      <4>2. \/ proc'[q] = [proc[q] EXCEPT !.pc = "reading", !.locked = TRUE]
            \/ proc'[q] = [proc[q] EXCEPT !.pc = "reading"]
        BY <4>1 DEF Become, TypeOK
      <4>3. CASE proc'[q] = [proc[q] EXCEPT !.pc = "reading", !.locked = TRUE]
        BY <1>0, <4>3 DEF Activity
      <4>4. CASE proc'[q] = [proc[q] EXCEPT !.pc = "reading"]
        BY <1>0, <4>4 DEF Activity
      <4> QED
        BY <4>2, <4>3, <4>4
    <3> QED
      BY <3>1 DEF Sound, Planned
  <2> QED
    BY <2>1, <2>2
<1>6. ASSUME NEW p \in Procs, ReadAndPlan(p) PROVE Sound(q)'
  <2>1. CASE p # q
    BY <1>1, <1>6, <2>1, BecomeOthers, EndOthers DEF ReadAndPlan
  <2>2. CASE p = q /\ End(p)
    BY <1>2, <2>2, EndOthers
  <2>3. CASE p = q /\ ~End(p)
    <3>1. /\ Parsed(file).parses
          /\ Become(q, [proc[q] EXCEPT !.pc = "writing", !.seen = file,
                                       !.plan = Plan(Parsed(file), proc[q].want)])
      BY <1>6, <2>3 DEF ReadAndPlan
    <3>2. /\ proc'[q].pc = "writing" /\ proc'[q].seen = file /\ proc'[q].want = proc[q].want
          /\ proc'[q].plan = Plan(Parsed(file), proc[q].want)
      BY <1>0, <3>1 DEF Become, TypeOK, Activity
    <3> QED
      BY <3>1, <3>2 DEF Sound
  <2> QED
    BY <2>1, <2>2, <2>3
<1>7. ASSUME NEW p \in Procs, WriteTemporary(p) \/ CopyBackup(p) PROVE Sound(q)'
  <2>1. CASE p # q
    BY <1>1, <1>7, <2>1, BecomeOthers, EndOthers DEF WriteTemporary, CopyBackup
  <2>2. CASE p = q /\ End(p)
    BY <1>2, <2>2, EndOthers
  <2>3. CASE p = q /\ ~End(p)
    <3>1. /\ proc'[q].pc \in {"copying", "comparing"} /\ proc'[q].seen = proc[q].seen
          /\ proc'[q].want = proc[q].want /\ proc'[q].plan = proc[q].plan
          /\ Planned(q)
      BY <1>0, <1>7, <2>3 DEF WriteTemporary, CopyBackup, Become, TypeOK, Activity, Planned
    <3> QED
      BY <1>0, <3>1 DEF Sound
  <2> QED
    BY <2>1, <2>2, <2>3
<1>8. ASSUME NEW p \in Procs, Compare(p) PROVE Sound(q)'
  <2>1. CASE p # q
    BY <1>1, <1>8, <2>1, BecomeOthers, EndOthers DEF Compare
  <2>2. CASE p = q /\ End(p)
    BY <1>2, <2>2, EndOthers
  <2>3. CASE p = q /\ ~End(p) /\ file = proc[q].seen
    <3>1. Become(q, [proc[q] EXCEPT !.pc = "renaming"]) /\ Planned(q) /\ file' = file
      BY <1>8, <2>3 DEF Compare, Planned
    <3>2. /\ proc'[q].seen = proc[q].seen
          /\ proc'[q].want = proc[q].want /\ proc'[q].plan = proc[q].plan
      BY <1>0, <3>1 DEF Become, TypeOK, Activity
    <3> QED
      BY <1>0, <2>3, <3>1, <3>2 DEF Sound
  <2>4. CASE p = q /\ ~End(p) /\ file # proc[q].seen
    <3>1. proc'[q].pc = "reading"
      <4>1. Become(q, [proc[q] EXCEPT !.pc = "reading", !.attempt = @ + 1,
                                      !.seen = Absent, !.plan = Empty])
        BY <1>8, <2>4 DEF Compare
      <4> QED
        BY <1>0, <4>1 DEF Become, TypeOK, Activity
    <3> QED
      BY <3>1 DEF Sound, Planned
  <2> QED
    BY <2>1, <2>2, <2>3, <2>4
<1>9. ASSUME NEW p \in Procs, Rename(p) PROVE Sound(q)'
  BY <1>2, <1>3, <1>9 DEF Rename
<1>10. ASSUME NEW p \in Procs, Kill(p) PROVE Sound(q)'
  BY <1>1, <1>2, <1>10, EndOthers DEF Kill
<1>11. CASE HostReads
  BY <1>1, <1>11 DEF HostReads
<1>12. CASE HostEdits \/ HostRemoves
  BY <1>3, <1>12 DEF HostEdits, HostRemoves, HostWrites
<1>13. CASE UNCHANGED vars
  BY <1>1, <1>13 DEF vars
<1> QED
  BY <1>4, <1>5, <1>6, <1>7, <1>8, <1>9, <1>10, <1>11, <1>12, <1>13 DEF Next, Step, Work

(* What the host wrote survives every rename, except one that it raced in  *)
(* the last instant; a file that does not parse is not replaced either     *)
(* (hooks.rs apply and write_if_unchanged, D99).                           *)
THEOREM ForeignEditsAreKept == Spec => ForeignEditsSurvive
<1>1. Init => PlansAreOfTheSeen
  BY IdleFields DEF Init, PlansAreOfTheSeen, Sound, Planned
<1>2. TypeOK /\ PlansAreOfTheSeen =>
        \A p \in Procs : (Renames(p) /\ ~proc[p].raced) =>
          file'.theirs = Parsed(file).theirs /\ Parsed(file).parses
  <2> SUFFICES ASSUME TypeOK, PlansAreOfTheSeen, NEW p \in Procs, Renames(p), ~proc[p].raced
               PROVE  file'.theirs = Parsed(file).theirs /\ Parsed(file).parses
    OBVIOUS
  <2>1. /\ file = proc[p].seen /\ Parsed(file).parses
        /\ file' = Plan(Parsed(file), proc[p].want)
    BY DEF PlansAreOfTheSeen, Sound, Planned, Renames
  <2>2. Parsed(file) \in Document /\ proc[p].want \in SUBSET Entries
    BY ParsedType DEF TypeOK, Activity
  <2> QED
    BY <2>1, <2>2, PlanKeepsTheRest
<1>3. TypeOK /\ PlansAreOfTheSeen /\ [Next]_vars =>
        [\A p \in Procs :
           (Renames(p) /\ ~proc[p].raced) =>
             /\ file'.theirs = Parsed(file).theirs
             /\ Parsed(file).parses]_vars
  BY <1>2
<1> QED
  BY <1>1, <1>3, PlansStep, SettingsTypeCorrect, PTL DEF Spec, ForeignEditsSurvive

-----------------------------------------------------------------------------
(* Whoever locked holds the lock, and starts over only when the file is no *)
(* longer what it saw, which somebody without the lock must have brought   *)
(* about: a repetition to come is already paid for.                        *)
Holding(q) ==
  /\ proc[q].pc = "locking" => proc[q].attempt = 0
  /\ proc[q].locked =>
       /\ lock = q /\ proc[q].pc # "idle"
       /\ proc[q].attempt <= proc[q].strays
       /\ (proc[q].pc \in {"writing", "copying", "comparing"} /\ file # proc[q].seen)
            => proc[q].attempt + 1 <= proc[q].strays

HoldersAreAlone == \A p \in Procs : Holding(p)

(* A lock holder stays the only one, its retries owed to strays.           *)
LEMMA HoldersStep == TypeOK /\ HoldersAreAlone /\ [Next]_vars => HoldersAreAlone'
<1> SUFFICES ASSUME TypeOK, HoldersAreAlone, [Next]_vars, NEW q \in Procs
             PROVE  Holding(q)'
  BY DEF HoldersAreAlone
<1>0. /\ Holding(q) /\ proc[q] \in Activity
      /\ proc[q].attempt \in Nat /\ proc[q].strays \in Nat
  <2>1. proc[q] \in Activity
    BY DEF TypeOK
  <2> QED
    BY <2>1 DEF HoldersAreAlone, Activity
<1>1. ASSUME file' = file, proc'[q] = proc[q], lock = q => lock' = q PROVE Holding(q)'
  BY <1>0, <1>1 DEF Holding
<1>2. ASSUME proc'[q] = Idle PROVE Holding(q)'
  BY <1>2, IdleFields DEF Holding
<1>3. ASSUME NEW stray \in BOOLEAN, proc'[q] = Witnessed(q, stray),
             lock = q => stray /\ lock' = q
      PROVE  Holding(q)'
  <2>0. proc'[q].pc = proc[q].pc /\ proc'[q].attempt = proc[q].attempt
    BY <1>3, WitnessedFields
  <2> SUFFICES ASSUME proc'[q].locked PROVE Holding(q)'
    BY <1>0, <2>0 DEF Holding
  <2>1. proc[q].locked
    <3>1. Witnessed(q, stray).locked = proc[q].locked
      BY WitnessedFields
    <3> QED
      BY <1>3, <3>1, Zenon
  <2>2. /\ lock = q /\ proc[q].pc # "idle"
        /\ proc[q].attempt <= proc[q].strays
    BY <1>0, <2>1 DEF Holding
  <2>3. proc'[q].strays = proc[q].strays + 1
    <3>1. stray
      BY <1>3, <2>2
    <3>2. Witnessed(q, stray).strays = IF stray /\ proc[q].pc # "idle" THEN proc[q].strays + 1
                                       ELSE proc[q].strays
      BY WitnessedFields
    <3> QED
      BY <1>3, <2>2, <3>1, <3>2
  <2>4. lock' = q /\ proc'[q].pc # "idle" /\ (proc'[q].pc = "locking" => proc'[q].attempt = 0)
    BY <1>0, <1>3, <2>0, <2>2 DEF Holding
  <2>5. proc'[q].attempt <= proc'[q].strays /\ proc'[q].attempt + 1 <= proc'[q].strays
    BY <1>0, <2>0, <2>2, <2>3
  <2> QED
    BY <2>4, <2>5 DEF Holding
<1>4. ASSUME NEW p \in Procs, NEW want \in Wanted, NEW dry \in BOOLEAN, Begin(p, want, dry)
      PROVE  Holding(q)'
  <2>1. CASE p # q
    BY <1>1, <1>4, <2>1, BecomeOthers DEF Begin
  <2>2. CASE p = q
    <3>1. ~proc'[q].locked /\ proc'[q].attempt = 0
      BY <1>4, <2>2 DEF Begin, Become, TypeOK, Idle
    <3> QED
      BY <3>1 DEF Holding
  <2> QED
    BY <2>1, <2>2
<1>5. ASSUME NEW p \in Procs, LockSettings(p) PROVE Holding(q)'
  <2>1. CASE p # q
    <3>1. lock = Nobody /\ Nobody # q
      BY <1>5 DEF LockSettings
    <3> QED
      BY <1>1, <1>5, <2>1, <3>1, BecomeOthers DEF LockSettings
  <2>2. CASE p = q
    <3>1. proc'[q] = [proc[q] EXCEPT !.pc = "reading", !.locked = TRUE] /\ lock' = q
      BY <1>5, <2>2 DEF LockSettings, Become, TypeOK
    <3>2. /\ proc'[q].pc = "reading" /\ proc'[q].attempt = proc[q].attempt
          /\ proc'[q].strays = proc[q].strays
      BY <1>0, <3>1 DEF Activity
    <3>3. proc[q].attempt = 0
      BY <1>0, <1>5, <2>2 DEF LockSettings, Holding
    <3> QED
      BY <1>0, <3>1, <3>2, <3>3 DEF Holding
  <2> QED
    BY <2>1, <2>2
<1>6. ASSUME NEW p \in Procs, LockUnavailable(p) PROVE Holding(q)'
  <2>1. CASE p # q
    BY <1>1, <1>6, <2>1, BecomeOthers DEF LockUnavailable
  <2>2. CASE p = q
    <3>1. proc'[q] = [proc[q] EXCEPT !.pc = "reading"]
      BY <1>6, <2>2 DEF LockUnavailable, Become, TypeOK
    <3>2. /\ proc'[q].pc = "reading" /\ proc'[q].attempt = proc[q].attempt
          /\ proc'[q].strays = proc[q].strays /\ proc'[q].locked = proc[q].locked
      BY <1>0, <3>1 DEF Activity
    <3> QED
      BY <1>0, <1>6, <3>2 DEF LockUnavailable, Holding
  <2> QED
    BY <2>1, <2>2
<1>7. ASSUME NEW p \in Procs, ReadAndPlan(p) PROVE Holding(q)'
  <2>1. CASE p # q
    BY <1>1, <1>7, <2>1, BecomeOthers, EndOthers DEF ReadAndPlan
  <2>2. CASE p = q /\ End(p)
    BY <1>2, <2>2, EndOthers
  <2>3. CASE p = q /\ ~End(p)
    <3>1. /\ proc'[q] = [proc[q] EXCEPT !.pc = "writing", !.seen = file,
                                        !.plan = Plan(Parsed(file), proc[q].want)]
          /\ lock' = lock /\ file' = file
      BY <1>7, <2>3 DEF ReadAndPlan, Become, TypeOK
    <3>2. /\ proc'[q].pc = "writing" /\ proc'[q].attempt = proc[q].attempt
          /\ proc'[q].strays = proc[q].strays /\ proc'[q].locked = proc[q].locked
          /\ proc'[q].seen = file
      BY <1>0, <3>1 DEF Activity
    <3> QED
      BY <1>0, <3>1, <3>2 DEF Holding
  <2> QED
    BY <2>1, <2>2, <2>3
<1>8. ASSUME NEW p \in Procs, WriteTemporary(p) \/ CopyBackup(p) PROVE Holding(q)'
  <2>1. CASE p # q
    BY <1>1, <1>8, <2>1, BecomeOthers, EndOthers DEF WriteTemporary, CopyBackup
  <2>2. CASE p = q /\ End(p)
    BY <1>2, <2>2, EndOthers
  <2>3. CASE p = q /\ ~End(p)
    <3>1. /\ proc'[q].pc \in {"copying", "comparing"} /\ proc'[q].seen = proc[q].seen
          /\ proc'[q].attempt = proc[q].attempt /\ proc'[q].strays = proc[q].strays
          /\ proc'[q].locked = proc[q].locked
      BY <1>0, <1>8, <2>3 DEF WriteTemporary, CopyBackup, Become, TypeOK, Activity
    <3>2. proc[q].pc \in {"writing", "copying"} /\ lock' = lock /\ file' = file
      BY <1>8, <2>3 DEF WriteTemporary, CopyBackup
    <3> QED
      BY <1>0, <3>1, <3>2 DEF Holding
  <2> QED
    BY <2>1, <2>2, <2>3
<1>9. ASSUME NEW p \in Procs, Compare(p) PROVE Holding(q)'
  <2>1. CASE p # q
    BY <1>1, <1>9, <2>1, BecomeOthers, EndOthers DEF Compare
  <2>2. CASE p = q /\ End(p)
    BY <1>2, <2>2, EndOthers
  <2>3. CASE p = q /\ ~End(p) /\ file = proc[q].seen
    <3>1. /\ proc'[q] = [proc[q] EXCEPT !.pc = "renaming"]
          /\ proc[q].pc = "comparing" /\ lock' = lock /\ file' = file
      BY <1>9, <2>3 DEF Compare, Become, TypeOK
    <3>2. /\ proc'[q].pc = "renaming" /\ proc'[q].attempt = proc[q].attempt
          /\ proc'[q].strays = proc[q].strays /\ proc'[q].locked = proc[q].locked
      BY <1>0, <3>1 DEF Activity
    <3> QED
      BY <1>0, <3>1, <3>2 DEF Holding
  <2>4. CASE p = q /\ ~End(p) /\ file # proc[q].seen
    <3>1. /\ proc'[q] = [proc[q] EXCEPT !.pc = "reading", !.attempt = @ + 1,
                                        !.seen = Absent, !.plan = Empty]
          /\ proc[q].pc = "comparing" /\ lock' = lock /\ file' = file
      BY <1>9, <2>4 DEF Compare, Become, TypeOK
    <3>2. /\ proc'[q].pc = "reading" /\ proc'[q].attempt = proc[q].attempt + 1
          /\ proc'[q].strays = proc[q].strays /\ proc'[q].locked = proc[q].locked
      BY <1>0, <3>1 DEF Activity
    <3> QED
      BY <1>0, <2>4, <3>1, <3>2 DEF Holding
  <2> QED
    BY <2>1, <2>2, <2>3, <2>4
<1>10. ASSUME NEW p \in Procs, Rename(p) PROVE Holding(q)'
  <2>1. CASE p # q
    <3>1. proc'[q] = Witnessed(q, lock # p)
      BY <1>10, <2>1 DEF Rename
    <3>2. lock = q => lock # p /\ lock' = q
      BY <1>10, <2>1 DEF Rename
    <3> QED
      BY <1>3, <3>1, <3>2
  <2>2. CASE p = q
    BY <1>2, <1>10, <2>2 DEF Rename
  <2> QED
    BY <2>1, <2>2
<1>11. ASSUME NEW p \in Procs, Kill(p) PROVE Holding(q)'
  BY <1>1, <1>2, <1>11, EndOthers DEF Kill
<1>12. CASE HostReads
  BY <1>1, <1>12 DEF HostReads
<1>13. CASE HostEdits \/ HostRemoves
  BY <1>3, <1>13 DEF HostEdits, HostRemoves, HostWrites
<1>14. CASE UNCHANGED vars
  BY <1>1, <1>14 DEF vars
<1> QED
  BY <1>4, <1>5, <1>6, <1>7, <1>8, <1>9, <1>10, <1>11, <1>12, <1>13, <1>14 DEF Next, Step, Work

(* No amb that holds the lock is made to start over by another that holds  *)
(* it: every repetition was brought about by a write without the lock      *)
(* (hooks.rs lock_settings and apply, D99).                                *)
THEOREM LockedAmbsDoNotContend == Spec => []RetriesAreStrays
<1>1. Init => HoldersAreAlone
  BY IdleFields DEF Init, HoldersAreAlone, Holding
<1>2. TypeOK /\ HoldersAreAlone => RetriesAreStrays
  BY DEF HoldersAreAlone, Holding, RetriesAreStrays
<1> QED
  BY <1>1, <1>2, HoldersStep, SettingsTypeCorrect, PTL DEF Spec

-----------------------------------------------------------------------------
(* Of a lock holder that was not strayed upon since it last read: the file *)
(* is what it saw, and, once copied, so is the backup.                     *)
Undisturbed(q) == Planned(q) /\ proc[q].strays = proc[q].attempt
Backed(q) ==
  lock = q =>
    /\ proc[q].locked
    /\ Undisturbed(q) => file = proc[q].seen
    /\ ( Undisturbed(q) /\ proc[q].pc \in {"comparing", "renaming"}
         /\ proc[q].seen # Absent ) => backup = proc[q].seen

HoldersAreBacked == \A p \in Procs : Backed(p)

(* Every write of another disturbs the holder, and it copies what it saw.  *)
LEMMA BackedStep ==
  TypeOK /\ HoldersAreAlone /\ HoldersAreBacked /\ [Next]_vars => HoldersAreBacked'
<1> SUFFICES ASSUME TypeOK, HoldersAreAlone, HoldersAreBacked, [Next]_vars, NEW q \in Procs
             PROVE  Backed(q)'
  BY DEF HoldersAreBacked
<1>0. /\ Holding(q) /\ Backed(q) /\ proc[q] \in Activity
      /\ proc[q].attempt \in Nat /\ proc[q].strays \in Nat
  <2>1. proc[q] \in Activity
    BY DEF TypeOK
  <2> QED
    BY <2>1 DEF HoldersAreAlone, HoldersAreBacked, Activity
<1>1. ASSUME file' = file, backup' = backup \/ backup' = file,
             proc'[q] = proc[q], lock' = q => lock = q
      PROVE  Backed(q)'
  BY <1>0, <1>1 DEF Backed, Undisturbed, Planned
<1>2. ASSUME lock' # q PROVE Backed(q)'
  BY <1>2 DEF Backed
<1>3. ASSUME NEW stray \in BOOLEAN, proc'[q] = Witnessed(q, stray),
             lock' = q => lock = q /\ stray
      PROVE  Backed(q)'
  <2> SUFFICES ASSUME lock' = q PROVE proc'[q].locked /\ ~Undisturbed(q)'
    BY DEF Backed
  <2>1. lock = q /\ stray /\ proc[q].locked
    BY <1>0, <1>3 DEF Backed
  <2>2. proc[q].pc # "idle" /\ proc[q].attempt <= proc[q].strays
    BY <1>0, <2>1 DEF Holding
  <2>3. /\ Witnessed(q, stray).attempt = proc[q].attempt
        /\ Witnessed(q, stray).strays = IF stray /\ proc[q].pc # "idle"
                                        THEN proc[q].strays + 1 ELSE proc[q].strays
    BY WitnessedFields
  <2>4. proc'[q].locked
    <3>1. Witnessed(q, stray).locked = proc[q].locked
      BY WitnessedFields
    <3> QED
      BY <1>3, <2>1, <3>1, Zenon
  <2>5. proc'[q].strays = proc[q].strays + 1 /\ proc'[q].attempt = proc[q].attempt
    BY <1>3, <2>1, <2>2, <2>3
  <2>6. proc'[q].strays # proc'[q].attempt
    BY <1>0, <2>2, <2>5
  <2> QED
    BY <2>4, <2>6 DEF Undisturbed
<1>4. ASSUME NEW p \in Procs, End(p), file' = file, backup' = backup \/ backup' = file
      PROVE  Backed(q)'
  <2>1. CASE p # q
    BY <1>1, <1>4, <2>1, EndOthers DEF End
  <2>2. CASE p = q
    BY <1>2, <1>4, <2>2 DEF End
  <2> QED
    BY <2>1, <2>2
<1>5. ASSUME NEW p \in Procs, NEW want \in Wanted, NEW dry \in BOOLEAN, Begin(p, want, dry)
      PROVE  Backed(q)'
  <2>1. CASE p # q
    BY <1>1, <1>5, <2>1, BecomeOthers DEF Begin
  <2>2. CASE p = q
    <3>1. lock # q
      BY <1>0, <1>5, <2>2 DEF Begin, Backed, Holding
    <3> QED
      BY <1>2, <1>5, <3>1 DEF Begin
  <2> QED
    BY <2>1, <2>2
<1>6. ASSUME NEW p \in Procs, LockSettings(p) PROVE Backed(q)'
  <2>1. CASE p # q
    BY <1>2, <1>6, <2>1 DEF LockSettings
  <2>2. CASE p = q
    <3>1. proc'[q] = [proc[q] EXCEPT !.pc = "reading", !.locked = TRUE]
      BY <1>6, <2>2 DEF LockSettings, Become, TypeOK
    <3>2. proc'[q].pc = "reading" /\ proc'[q].locked
      BY <1>0, <3>1 DEF Activity
    <3> QED
      BY <3>2 DEF Backed, Undisturbed, Planned
  <2> QED
    BY <2>1, <2>2
<1>7. ASSUME NEW p \in Procs, LockUnavailable(p) PROVE Backed(q)'
  <2>1. CASE p # q
    BY <1>1, <1>7, <2>1, BecomeOthers DEF LockUnavailable
  <2>2. CASE p = q
    <3>1. proc'[q] = [proc[q] EXCEPT !.pc = "reading"] /\ lock' = lock
      BY <1>7, <2>2 DEF LockUnavailable, Become, TypeOK
    <3>2. proc'[q].pc = "reading" /\ proc'[q].locked = proc[q].locked
      BY <1>0, <3>1 DEF Activity
    <3> QED
      BY <1>0, <3>1, <3>2 DEF Backed, Undisturbed, Planned
  <2> QED
    BY <2>1, <2>2
<1>8. ASSUME NEW p \in Procs, ReadAndPlan(p) PROVE Backed(q)'
  <2>1. CASE End(p)
    BY <1>4, <1>8, <2>1 DEF ReadAndPlan
  <2>2. CASE ~End(p) /\ p # q
    BY <1>1, <1>8, <2>2, BecomeOthers DEF ReadAndPlan
  <2>3. CASE ~End(p) /\ p = q
    <3>1. /\ proc'[q] = [proc[q] EXCEPT !.pc = "writing", !.seen = file,
                                        !.plan = Plan(Parsed(file), proc[q].want)]
          /\ lock' = lock /\ file' = file
      BY <1>8, <2>3 DEF ReadAndPlan, Become, TypeOK
    <3>2. /\ proc'[q].pc = "writing" /\ proc'[q].seen = file
          /\ proc'[q].locked = proc[q].locked
      BY <1>0, <3>1 DEF Activity
    <3> QED
      BY <1>0, <3>1, <3>2 DEF Backed
  <2> QED
    BY <2>1, <2>2, <2>3
<1>9. ASSUME NEW p \in Procs, WriteTemporary(p) PROVE Backed(q)'
  <2>1. CASE p # q
    BY <1>1, <1>9, <2>1, BecomeOthers DEF WriteTemporary
  <2>2. CASE p = q
    <3>1. /\ proc'[q] = [proc[q] EXCEPT !.pc = IF proc[q].seen = Absent THEN "comparing"
                                               ELSE "copying"]
          /\ UNCHANGED <<file, lock>> /\ proc[q].pc = "writing"
      BY <1>9, <2>2 DEF WriteTemporary, Become, TypeOK
    <3>2. /\ proc'[q].pc = IF proc[q].seen = Absent THEN "comparing" ELSE "copying"
          /\ proc'[q].seen = proc[q].seen /\ proc'[q].locked = proc[q].locked
          /\ proc'[q].attempt = proc[q].attempt /\ proc'[q].strays = proc[q].strays
      BY <1>0, <3>1 DEF Activity
    <3> QED
      BY <1>0, <3>1, <3>2 DEF Backed, Undisturbed, Planned
  <2> QED
    BY <2>1, <2>2
<1>10. ASSUME NEW p \in Procs, CopyBackup(p) PROVE Backed(q)'
  <2>1. CASE End(p)
    BY <1>4, <1>10, <2>1 DEF CopyBackup
  <2>2. CASE ~End(p) /\ p # q
    BY <1>1, <1>10, <2>2, BecomeOthers DEF CopyBackup
  <2>3. CASE ~End(p) /\ p = q
    <3>1. /\ proc'[q] = [proc[q] EXCEPT !.pc = "comparing"]
          /\ UNCHANGED <<file, lock>> /\ proc[q].pc = "copying" /\ backup' = file
      BY <1>10, <2>3 DEF CopyBackup, Become, TypeOK
    <3>2. /\ proc'[q].pc = "comparing"
          /\ proc'[q].seen = proc[q].seen /\ proc'[q].locked = proc[q].locked
          /\ proc'[q].attempt = proc[q].attempt /\ proc'[q].strays = proc[q].strays
      BY <1>0, <3>1 DEF Activity
    <3> QED
      BY <1>0, <3>1, <3>2 DEF Backed, Undisturbed, Planned
  <2> QED
    BY <2>1, <2>2, <2>3
<1>11. ASSUME NEW p \in Procs, Compare(p) PROVE Backed(q)'
  <2>1. CASE End(p)
    BY <1>4, <1>11, <2>1 DEF Compare
  <2>2. CASE ~End(p) /\ p # q
    BY <1>1, <1>11, <2>2, BecomeOthers DEF Compare
  <2>3. CASE ~End(p) /\ p = q /\ file = proc[q].seen
    <3>1. /\ proc'[q] = [proc[q] EXCEPT !.pc = "renaming"]
          /\ UNCHANGED <<file, lock, backup>> /\ proc[q].pc = "comparing"
      BY <1>11, <2>3 DEF Compare, Become, TypeOK
    <3>2. /\ proc'[q].pc = "renaming"
          /\ proc'[q].seen = proc[q].seen /\ proc'[q].locked = proc[q].locked
          /\ proc'[q].attempt = proc[q].attempt /\ proc'[q].strays = proc[q].strays
      BY <1>0, <3>1 DEF Activity
    <3> QED
      BY <1>0, <3>1, <3>2 DEF Backed, Undisturbed, Planned
  <2>4. CASE ~End(p) /\ p = q /\ file # proc[q].seen
    <3>1. /\ proc'[q] = [proc[q] EXCEPT !.pc = "reading", !.attempt = @ + 1,
                                        !.seen = Absent, !.plan = Empty]
          /\ lock' = lock
      BY <1>11, <2>4 DEF Compare, Become, TypeOK
    <3>2. proc'[q].pc = "reading" /\ proc'[q].locked = proc[q].locked
      BY <1>0, <3>1 DEF Activity
    <3> QED
      BY <1>0, <3>1, <3>2 DEF Backed, Undisturbed, Planned
  <2> QED
    BY <2>1, <2>2, <2>3, <2>4
<1>12. ASSUME NEW p \in Procs, Rename(p) PROVE Backed(q)'
  <2>1. CASE p # q
    <3>1. proc'[q] = Witnessed(q, lock # p) /\ (lock' = q => lock = q /\ lock # p)
      BY <1>12, <2>1 DEF Rename
    <3> QED
      BY <1>3, <3>1
  <2>2. CASE p = q
    <3>1. lock' # q
      BY <1>12, <2>2 DEF Rename
    <3> QED
      BY <1>2, <3>1
  <2> QED
    BY <2>1, <2>2
<1>13. ASSUME NEW p \in Procs, Kill(p) PROVE Backed(q)'
  BY <1>4, <1>13 DEF Kill
<1>14. CASE HostReads
  BY <1>1, <1>14 DEF HostReads
<1>15. CASE HostEdits \/ HostRemoves
  BY <1>3, <1>15 DEF HostEdits, HostRemoves, HostWrites
<1>16. CASE UNCHANGED vars
  BY <1>1, <1>16 DEF vars
<1> QED
  BY <1>5, <1>6, <1>7, <1>8, <1>9, <1>10, <1>11, <1>12, <1>13, <1>14, <1>15, <1>16
     DEF Next, Step, Work

(* When a holder renames, the backup is of what it replaces, unless a      *)
(* write without the lock went unnoticed by its comparison (hooks.rs       *)
(* write_if_unchanged).                                                    *)
THEOREM BackupsAreOfTheReplaced == Spec => BackupIsOfTheReplaced
<1>1. Init => HoldersAreAlone /\ HoldersAreBacked
  BY IdleFields DEF Init, HoldersAreAlone, Holding, HoldersAreBacked, Backed
<1>2. TypeOK /\ HoldersAreAlone /\ HoldersAreBacked =>
        \A p \in Procs :
          ( Renames(p) /\ lock = p /\ proc[p].strays = proc[p].attempt /\ file # Absent )
            => backup = file
  BY DEF HoldersAreBacked, Backed, Undisturbed, Planned, Renames
<1>3. TypeOK /\ HoldersAreAlone /\ HoldersAreBacked /\ [Next]_vars =>
        [\A p \in Procs :
           ( Renames(p) /\ lock = p /\ proc[p].strays = proc[p].attempt /\ file # Absent )
             => backup = file]_vars
  BY <1>2
<1> QED
  BY <1>1, <1>3, HoldersStep, BackedStep, SettingsTypeCorrect, PTL
     DEF Spec, BackupIsOfTheReplaced
=============================================================================
