---------------------------- MODULE SettingsFile ----------------------------
(***************************************************************************)
(* `amb install` and `amb uninstall` edit the settings file of a host CLI  *)
(* (src/hooks.rs apply): take an advisory lock, then read, plan, write a   *)
(* temporary file, copy the backup, read again, compare, and rename; start *)
(* over when the comparison fails.  The host writes the same file from a   *)
(* copy it read earlier, and takes no lock.                                *)
(***************************************************************************)
EXTENDS Integers

CONSTANTS
  Procs,          \* amb processes that may be alive at the same time
  Entries,        \* hook entries amb may own in the file
  Wanted,         \* what a command may want there: {} is an uninstall
  Nobody,         \* the lock is free
  Absent,         \* there is no such file
  MaxAttempts,    \* hooks.rs MAX_RMW_ATTEMPTS
  LockMayFail,    \* may the file system lack advisory locks?
  MaxCycles,      \* bound: commands started
  MaxEdits        \* bound: foreign writes

ASSUME SettingsAssumption ==
  /\ Nobody \notin Procs
  /\ Wanted \subseteq SUBSET Entries
  /\ MaxAttempts \in Nat \ {0} /\ MaxCycles \in Nat /\ MaxEdits \in Nat
  /\ LockMayFail \in BOOLEAN

VARIABLES
  file,    \* the settings file
  backup,  \* its amb-backup sibling
  lock,    \* who holds the lock on .amb-settings.lock
  copy,    \* the hook entries in what the host last read, and writes back
  cycles,  \* how many commands were started
  edits,   \* how many times the host wrote
  proc     \* what each amb process is in the middle of

vars == <<file, backup, lock, copy, cycles, edits, proc>>

-----------------------------------------------------------------------------
\* What is not amb's is a number, another for every change the host makes; a
\* file that does not parse is one as far as a comparison of bytes goes.
Document == [theirs: 0..MaxEdits, parses: BOOLEAN, ours: SUBSET Entries]
Empty    == [theirs |-> 0, parses |-> TRUE, ours |-> {}]

ASSUME AbsentAssumption == Absent \notin Document

Content == Document \cup {Absent}

(* `strays` and `raced` are history: the writes since this command began   *)
(* that were made without the lock, and whether anybody wrote the file     *)
(* since this process compared it.                                         *)
Phases   == {"idle", "locking", "reading", "writing", "copying", "comparing", "renaming"}
Activity == [pc: Phases, want: SUBSET Entries, dry: BOOLEAN, locked: BOOLEAN,
             attempt: 0..MaxAttempts - 1, seen: Content, plan: Document,
             strays: Nat, raced: BOOLEAN]
Idle == [pc |-> "idle", want |-> {}, dry |-> FALSE, locked |-> FALSE, attempt |-> 0,
         seen |-> Absent, plan |-> Empty, strays |-> 0, raced |-> FALSE]

\* A missing file is planned on as an empty one.
Parsed(content) == IF content = Absent THEN Empty ELSE content

(* plan_install() strips amb's entries wherever they are and adds those of *)
(* this mode; plan_uninstall() only strips.  Neither touches the rest.     *)
Plan(document, want) == [document EXCEPT !.ours = want]

Noop(p) == Plan(Parsed(file), proc[p].want) = Parsed(file)

Become(p, activity) == proc' = [proc EXCEPT ![p] = activity]

\* The guard is dropped and the lock with it, also when the process dies.
EndFault(p) == Become(p, Idle) /\ UNCHANGED lock

End(p) ==
  /\ Become(p, Idle)
  /\ lock' = IF lock = p THEN Nobody ELSE lock

\* Everybody else learns, in history, that the file was written.
Witnessed(q, stray) ==
  [proc[q] EXCEPT !.raced = @ \/ proc[q].pc = "renaming",
                  !.strays = IF stray /\ proc[q].pc # "idle" THEN @ + 1 ELSE @]

-----------------------------------------------------------------------------
Init ==
  /\ file \in {Absent, Empty}
  /\ backup = Absent
  /\ lock = Nobody
  /\ copy = {}
  /\ cycles = 0 /\ edits = 0
  /\ proc = [p \in Procs |-> Idle]

Begin(p, want, dry) ==
  /\ proc[p].pc = "idle"
  /\ cycles < MaxCycles
  /\ cycles' = cycles + 1
  /\ Become(p, [Idle EXCEPT !.pc = "locking", !.want = want, !.dry = dry])
  /\ UNCHANGED <<file, backup, lock, copy, edits>>

\* Each process locks a file of its own.
LockSettingsFault(p) ==
  /\ proc[p].pc = "locking"
  /\ lock' = p
  /\ Become(p, [proc[p] EXCEPT !.pc = "reading", !.locked = TRUE])
  /\ UNCHANGED <<file, backup, copy, cycles, edits>>

\* lock_settings() blocks until the lock is free.
LockSettings(p) ==
  /\ proc[p].pc = "locking"
  /\ lock = Nobody
  /\ lock' = p
  /\ Become(p, [proc[p] EXCEPT !.pc = "reading", !.locked = TRUE])
  /\ UNCHANGED <<file, backup, copy, cycles, edits>>

\* Where there are no advisory locks the edit goes on without one.
LockUnavailable(p) ==
  /\ LockMayFail
  /\ proc[p].pc = "locking"
  /\ Become(p, [proc[p] EXCEPT !.pc = "reading"])
  /\ UNCHANGED <<file, backup, lock, copy, cycles, edits>>

\* read_raw() and the planner; a file that does not parse is an error.
ReadAndPlan(p) ==
  /\ proc[p].pc = "reading"
  /\ IF ~Parsed(file).parses \/ proc[p].dry \/ Noop(p) THEN End(p)
     ELSE /\ Become(p, [proc[p] EXCEPT !.pc = "writing", !.seen = file,
                                       !.plan = Plan(Parsed(file), proc[p].want)])
          /\ UNCHANGED lock
  /\ UNCHANGED <<file, backup, copy, cycles, edits>>

\* The temporary file is named after the process, so nobody else sees it.
WriteTemporary(p) ==
  /\ proc[p].pc = "writing"
  /\ Become(p, [proc[p] EXCEPT !.pc = IF proc[p].seen = Absent THEN "comparing" ELSE "copying"])
  /\ UNCHANGED <<file, backup, lock, copy, cycles, edits>>

\* Keeps the first backup a cycle made, of a file that is no longer there.
CopyBackupFault(p) ==
  /\ proc[p].pc = "copying"
  /\ IF file = Absent THEN End(p) /\ UNCHANGED backup
     ELSE /\ backup' = IF proc[p].attempt = 0 THEN file ELSE backup
          /\ Become(p, [proc[p] EXCEPT !.pc = "comparing"])
          /\ UNCHANGED lock
  /\ UNCHANGED <<file, copy, cycles, edits>>

\* The copy is of the file as it is by now; there may be none any more.
CopyBackup(p) ==
  /\ proc[p].pc = "copying"
  /\ IF file = Absent THEN End(p) /\ UNCHANGED backup
     ELSE /\ backup' = file
          /\ Become(p, [proc[p] EXCEPT !.pc = "comparing"])
          /\ UNCHANGED lock
  /\ UNCHANGED <<file, copy, cycles, edits>>

\* Retries the write with the plan it has, against what it sees now.
CompareFault(p) ==
  /\ proc[p].pc = "comparing"
  /\ \/ /\ file = proc[p].seen
        /\ Become(p, [proc[p] EXCEPT !.pc = "renaming"])
        /\ UNCHANGED lock
     \/ /\ file # proc[p].seen
        /\ IF proc[p].attempt + 1 = MaxAttempts THEN End(p)
           ELSE /\ Become(p, [proc[p] EXCEPT !.pc = "writing", !.seen = file,
                                             !.attempt = @ + 1])
                /\ UNCHANGED lock
  /\ UNCHANGED <<file, backup, copy, cycles, edits>>

\* One attempt too many.
CompareOnceMoreFault(p) ==
  /\ proc[p].pc = "comparing"
  /\ \/ /\ file = proc[p].seen
        /\ Become(p, [proc[p] EXCEPT !.pc = "renaming"])
        /\ UNCHANGED lock
     \/ /\ file # proc[p].seen
        /\ IF proc[p].attempt = MaxAttempts THEN End(p)
           ELSE /\ Become(p, [proc[p] EXCEPT !.pc = "reading", !.attempt = @ + 1,
                                             !.seen = Absent, !.plan = Empty])
                /\ UNCHANGED lock
  /\ UNCHANGED <<file, backup, copy, cycles, edits>>

\* The last look before the rename; a difference starts the cycle over.
Compare(p) ==
  /\ proc[p].pc = "comparing"
  /\ \/ /\ file = proc[p].seen
        /\ Become(p, [proc[p] EXCEPT !.pc = "renaming"])
        /\ UNCHANGED lock
     \/ /\ file # proc[p].seen
        /\ IF proc[p].attempt + 1 = MaxAttempts THEN End(p)
           ELSE /\ Become(p, [proc[p] EXCEPT !.pc = "reading", !.attempt = @ + 1,
                                             !.seen = Absent, !.plan = Empty])
                /\ UNCHANGED lock
  /\ UNCHANGED <<file, backup, copy, cycles, edits>>

Rename(p) ==
  /\ proc[p].pc = "renaming"
  /\ file' = proc[p].plan
  /\ proc' = [q \in Procs |-> IF q = p THEN Idle ELSE Witnessed(q, lock # p)]
  /\ lock' = IF lock = p THEN Nobody ELSE lock
  /\ UNCHANGED <<backup, copy, cycles, edits>>

Kill(p) ==
  /\ proc[p].pc # "idle"
  /\ End(p)
  /\ UNCHANGED <<file, backup, copy, cycles, edits>>

(* The host: it reads, and later writes what it read with something of its *)
(* own changed, perhaps so that it no longer parses; or removes the file.  *)
HostReads ==
  /\ copy # Parsed(file).ours
  /\ copy' = Parsed(file).ours
  /\ UNCHANGED <<file, backup, lock, cycles, edits, proc>>

HostWrites(content) ==
  /\ edits < MaxEdits
  /\ edits' = edits + 1
  /\ file' = content
  /\ proc' = [q \in Procs |-> Witnessed(q, TRUE)]
  /\ UNCHANGED <<backup, lock, copy, cycles>>

\* A setting changed to something new, or all of them back as they were at first.
HostEdits ==
  \E theirs \in {0, edits + 1}, parses \in BOOLEAN :
    HostWrites([theirs |-> theirs, parses |-> parses, ours |-> copy])
HostRemoves == file # Absent /\ HostWrites(Absent)

Work(p) ==
  ReadAndPlan(p) \/ WriteTemporary(p) \/ CopyBackup(p) \/ Compare(p) \/ Rename(p)

Step(p) ==
  \/ \E want \in Wanted, dry \in BOOLEAN : Begin(p, want, dry)
  \/ LockSettings(p)
  \/ LockUnavailable(p)
  \/ Work(p)
  \/ Kill(p)

Next ==
  \/ \E p \in Procs : Step(p)
  \/ HostReads
  \/ HostEdits
  \/ HostRemoves

Spec == Init /\ [][Next]_vars

(* A process that can go on does.  The lock is not handed out in order,    *)
(* but a process that waits for it is not passed over for ever.            *)
Fairness == \A p \in Procs : WF_vars(Work(p)) /\ SF_vars(LockSettings(p))
FairSpec == Spec /\ Fairness

-----------------------------------------------------------------------------
TypeOK ==
  /\ file \in Content /\ backup \in Content /\ copy \in SUBSET Entries
  /\ lock \in Procs \cup {Nobody}
  /\ cycles \in 0..MaxCycles /\ edits \in 0..MaxEdits
  /\ proc \in [Procs -> Activity]

Renames(p) == proc[p].pc = "renaming" /\ file' = proc[p].plan /\ proc'[p] = Idle

(* What the host wrote is never lost to amb, nor is a file amb could not   *)
(* parse replaced, unless the write fell between the last comparison and   *)
(* the rename (hooks.rs:1085-1092, D99): a stale plan is not written, and  *)
(* a retry plans anew on what it finds.                                    *)
ForeignEditsSurvive ==
  [][\A p \in Procs :
       (Renames(p) /\ ~proc[p].raced) =>
         /\ file'.theirs = Parsed(file).theirs
         /\ Parsed(file).parses]_vars

(* amb processes that hold the lock never make each other start over: an   *)
(* attempt is repeated only as often as somebody wrote without it, so      *)
(* "another process wrote first" and giving up speak of the host, or of an *)
(* amb that could not lock (hooks.rs:1080-1084, D99).                      *)
RetriesAreStrays ==
  \A p \in Procs : proc[p].locked => proc[p].attempt <= proc[p].strays

(* After a locked rename the backup is what the file held right before it, *)
(* however often the cycle started over, unless more was written without   *)
(* the lock than it started over for: then a change that was taken back    *)
(* may have been copied, which a comparison of bytes does not notice       *)
(* (hooks.rs:1183-1193 and its test the_backup_holds_the_previous_contents).*)
BackupIsOfTheReplaced ==
  [][\A p \in Procs :
       (Renames(p) /\ lock = p /\ proc[p].strays = proc[p].attempt /\ file # Absent)
         => backup = file]_vars

(* A command ends: whoever dies, fails or gives up lets go of the lock, so *)
(* nobody waits for it for ever.                                           *)
CommandsEnd == \A p \in Procs : proc[p].pc # "idle" ~> proc[p].pc = "idle"
=============================================================================
