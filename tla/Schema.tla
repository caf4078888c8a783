------------------------------- MODULE Schema -------------------------------
(***************************************************************************)
(* Opening the board (src/db.rs open_at_with): every amb process converts  *)
(* a fresh file to WAL, reads the version of the schema and, when its own  *)
(* binary expects a later one, takes the write lock, reads the version     *)
(* again and applies the rest of the ladder in one transaction.  Binaries  *)
(* of several versions open one board at once, with no common parent.      *)
(***************************************************************************)
EXTENDS Naturals, Sequences

CONSTANTS
  Procs,         \* processes that open the board, once each
  Expects,       \* SCHEMA_VERSION of the binary each of them runs
  Dirty,         \* those whose binary was built over uncommitted changes
  Forced,        \* those run with AMB_ALLOW_DIRTY_MIGRATION
  Shared,        \* is this the machine-wide board?
  Nobody,        \* the write lock is free
  Retries,       \* bound: conversions a process attempts within its budget
  FirstVersion   \* what the file may be when the first of them comes

ASSUME SchemaAssumption ==
  /\ Expects \in [Procs -> Nat]
  /\ Dirty \subseteq Procs /\ Forced \subseteq Procs
  /\ Shared \in BOOLEAN
  /\ Nobody \notin Procs
  /\ Retries \in Nat \ {0}
  /\ FirstVersion \subseteq Nat

VARIABLES
  wal,         \* is the file in WAL mode?
  version,     \* PRAGMA user_version, as committed
  applied,     \* the migrations committed, in the order they were applied
  converting,  \* processes with a shared lock that ask for the exclusive one
  writer,      \* who holds the write lock
  proc         \* how far each process is

vars == <<wal, version, applied, converting, writer, proc>>

-----------------------------------------------------------------------------
Ladder(v) == [i \in 1..v |-> i]

Refusals == {"newer", "dirty", "journal", "busy", "ladder"}
Phases   == {"idle", "journal", "convert", "version", "begin", "recheck", "ladder",
             "open", "refused", "dead"}
Opener   == [pc: Phases, found: Nat, tries: 0..Retries, staged: Seq(Nat),
             why: Refusals \cup {"none"}]
Idle == [pc |-> "idle", found |-> 0, tries |-> 0, staged |-> <<>>, why |-> "none"]

Become(p, opener) == proc' = [proc EXCEPT ![p] = opener]
Goto(p, pc)       == Become(p, [proc[p] EXCEPT !.pc = pc])
Refuse(p, why)    == Become(p, [proc[p] EXCEPT !.pc = "refused", !.why = why])

\* Dropping a transaction rolls it back and gives up the write lock.
Unlocked(p) == IF writer = p THEN Nobody ELSE writer

MayAdvanceFault(p) == TRUE

\* may_advance_shared_schema(dirty, shared, forced)
MayAdvance(p) == p \in Forced \/ ~Shared \/ p \notin Dirty

-----------------------------------------------------------------------------
Init ==
  /\ wal \in BOOLEAN
  /\ version \in FirstVersion
  /\ applied = Ladder(version)
  /\ converting = {}
  /\ writer = Nobody
  /\ proc = [p \in Procs |-> Idle]

Open(p) ==
  /\ proc[p].pc = "idle"
  /\ Goto(p, "journal")
  /\ UNCHANGED <<wal, version, applied, converting, writer>>

(* engage_wal().  The read of the mode needs no lock; the conversion needs *)
(* the file for itself, and SQLite answers BUSY at once where another      *)
(* process is asking for the same.                                         *)
ReadJournal(p) ==
  /\ proc[p].pc = "journal"
  /\ Goto(p, IF wal THEN "version" ELSE "convert")
  /\ converting' = IF wal THEN converting ELSE converting \cup {p}
  /\ UNCHANGED <<wal, version, applied, writer>>

Convert(p) ==
  /\ proc[p].pc = "convert"
  /\ converting = {p}
  /\ wal' = TRUE
  /\ converting' = {}
  /\ Goto(p, "version")
  /\ UNCHANGED <<version, applied, writer>>

\* Counts its attempts and never looks at the count.
ConvertBusyUnspentFault(p) ==
  /\ proc[p].pc = "convert"
  /\ converting # {p}
  /\ converting' = converting \ {p}
  /\ Become(p, [proc[p] EXCEPT !.pc = "journal", !.tries = @ + 1])
  /\ UNCHANGED <<wal, version, applied, writer>>

\* Tries for as long as it takes, which may be for ever.
ConvertBusyFault(p) ==
  /\ proc[p].pc = "convert"
  /\ converting # {p}
  /\ converting' = converting \ {p}
  /\ Goto(p, "journal")
  /\ UNCHANGED <<wal, version, applied, writer>>

\* Back off and start over, until budget_spent().
ConvertBusy(p) ==
  /\ proc[p].pc = "convert"
  /\ converting # {p}
  /\ converting' = converting \ {p}
  /\ LET tries == proc[p].tries + 1 IN
     IF tries = Retries THEN Refuse(p, "journal")
     ELSE Become(p, [proc[p] EXCEPT !.pc = "journal", !.tries = tries])
  /\ UNCHANGED <<wal, version, applied, writer>>

(* migrate(): the unlocked read is the fast path; check_not_newer() and    *)
(* guard_dirty_migration() follow it.                                      *)
ReadVersion(p) ==
  /\ proc[p].pc = "version"
  /\ CASE version = Expects[p] -> Goto(p, "open")
       [] version > Expects[p] -> Refuse(p, "newer")
       [] version < Expects[p] ->
            Become(p, IF MayAdvance(p) THEN [proc[p] EXCEPT !.pc = "begin", !.found = version]
                      ELSE [proc[p] EXCEPT !.pc = "refused", !.why = "dirty", !.found = version])
  /\ UNCHANGED <<wal, version, applied, converting, writer>>

\* BEGIN IMMEDIATE waits for the write lock, for busy_timeout at most.
BeginImmediate(p) ==
  /\ proc[p].pc = "begin"
  /\ writer = Nobody
  /\ writer' = p
  /\ Goto(p, "recheck")
  /\ UNCHANGED <<wal, version, applied, converting>>

BusyTimeout(p) ==
  /\ proc[p].pc = "begin"
  /\ writer # Nobody
  /\ Refuse(p, "busy")
  /\ UNCHANGED <<wal, version, applied, converting, writer>>

\* Trusts the version that was read before the lock.
RecheckFault(p) ==
  /\ proc[p].pc = "recheck"
  /\ Goto(p, "ladder")
  /\ UNCHANGED <<wal, version, applied, converting, writer>>

\* Reads it again, but only to see whether there is nothing left to do.
RecheckNewerFault(p) ==
  /\ proc[p].pc = "recheck"
  /\ IF version = Expects[p] THEN Goto(p, "open") /\ writer' = Nobody
     ELSE Become(p, [proc[p] EXCEPT !.pc = "ladder", !.found = version]) /\ UNCHANGED writer
  /\ UNCHANGED <<wal, version, applied, converting>>

\* The version is read again under the lock.
Recheck(p) ==
  /\ proc[p].pc = "recheck"
  /\ CASE version = Expects[p] -> Goto(p, "open") /\ writer' = Nobody
       [] version > Expects[p] -> Refuse(p, "newer") /\ writer' = Nobody
       [] version < Expects[p] ->
            Become(p, [proc[p] EXCEPT !.pc = "ladder", !.found = version]) /\ UNCHANGED writer
  /\ UNCHANGED <<wal, version, applied, converting>>

(* One statement of the ladder: MIGRATIONS, skipping the first `found`.  A *)
(* migration that a board already has fails on what it adds or drops.      *)
NextMigration(p) == proc[p].found + Len(proc[p].staged) + 1

Migrate(p) ==
  /\ proc[p].pc = "ladder"
  /\ NextMigration(p) <= Expects[p]
  /\ IF NextMigration(p) <= Len(applied)
     THEN Refuse(p, "ladder") /\ writer' = Nobody
     ELSE Become(p, [proc[p] EXCEPT !.staged = Append(@, NextMigration(p))]) /\ UNCHANGED writer
  /\ UNCHANGED <<wal, version, applied, converting>>

\* The stamp is part of the transaction.
Commit(p) ==
  /\ proc[p].pc = "ladder"
  /\ NextMigration(p) > Expects[p]
  /\ applied' = applied \o proc[p].staged
  /\ version' = Expects[p]
  /\ writer' = Nobody
  /\ Goto(p, "open")
  /\ UNCHANGED <<wal, converting>>

\* The host kills a hook, a terminal is closed: locks and transaction go.
Die(p) ==
  /\ proc[p].pc \notin {"idle", "open", "refused", "dead"}
  /\ Goto(p, "dead")
  /\ converting' = converting \ {p}
  /\ writer' = Unlocked(p)
  /\ UNCHANGED <<wal, version, applied>>

Proceed(p) ==
  \/ ReadJournal(p)
  \/ Convert(p)
  \/ ConvertBusy(p)
  \/ ReadVersion(p)
  \/ BeginImmediate(p)
  \/ BusyTimeout(p)
  \/ Recheck(p)
  \/ Migrate(p)
  \/ Commit(p)

Next == \E p \in Procs : Open(p) \/ Proceed(p) \/ Die(p)

Spec == Init /\ [][Next]_vars

\* A process that runs keeps running.
FairSpec == Spec /\ \A p \in Procs : WF_vars(Proceed(p))

-----------------------------------------------------------------------------
TypeOK ==
  /\ wal \in BOOLEAN
  /\ version \in Nat
  /\ applied \in Seq(Nat)
  /\ converting \in SUBSET Procs
  /\ writer \in Procs \cup {Nobody}
  /\ proc \in [Procs -> Opener]

(* The board is never half migrated, whoever dies where: the migrations it *)
(* carries are those up to the version stamped on it, each applied once    *)
(* and in order, and no older binary stamps it back (db.rs:928-941).       *)
LadderWhole == applied = Ladder(version)

(* Racing the same upgrade costs nobody the open: no process applies a     *)
(* migration another has already committed (D30, db.rs:915-927).           *)
NobodyRepeatsAMigration == \A p \in Procs : proc[p].why # "ladder"

(* A process is turned away as too old only by a version some released or  *)
(* forced binary put there, or that the board came with: a dirty build     *)
(* never strands the others on the shared board (D141, db.rs:960-979).     *)
(* And it is itself turned away only there, unforced, from a board that it *)
(* found behind its own version: one that has the version it may open.     *)
Released == {Expects[p] : p \in (Procs \ Dirty) \cup Forced}
NobodyIsStranded ==
  \A p \in Procs :
    /\ Shared /\ proc[p].why = "newer" => \E v \in FirstVersion \cup Released : v > Expects[p]
    /\ proc[p].why = "dirty" => Shared /\ p \in Dirty \ Forced /\ proc[p].found < Expects[p]

(* Every open ends, in a connection or in an error: the conversion of a    *)
(* fresh file is retried for a budget and not for ever (db.rs:1122-1156).  *)
Ended(p) == proc[p].pc \in {"open", "refused", "dead"}
EveryOpenEnds == \A p \in Procs : proc[p].pc = "journal" ~> Ended(p)
=============================================================================
