---------------------------- MODULE SchemaProofs ----------------------------
(***************************************************************************)
(* Theorems about Schema for every set of processes, of binaries and of    *)
(* versions.  Their heart: a process that read the version under the write *)
(* lock still finds it when it commits.                                    *)
(***************************************************************************)
EXTENDS Schema, SequenceTheorems, TLAPS

USE SchemaAssumption

-----------------------------------------------------------------------------
(* The migrations up to a version are as many as it says.                  *)
LEMMA LadderType ==
  ASSUME NEW v \in Nat
  PROVE  /\ Ladder(v) \in Seq(Nat) /\ Len(Ladder(v)) = v
         /\ \A i \in 1..v : Ladder(v)[i] = i
<1>1. Ladder(v) \in [1..v -> Nat] /\ \A i \in 1..v : Ladder(v)[i] = i
  BY DEF Ladder
<1>2. Ladder(v) \in Seq(Nat)
  BY <1>1, SeqDef
<1>3. Len(Ladder(v)) \in Nat /\ 1..Len(Ladder(v)) = 1..v
  BY <1>1, <1>2, LenProperties
<1>4. Len(Ladder(v)) = v
  BY <1>3
<1> QED
  BY <1>1, <1>2, <1>4

(* What is appended to a sequence follows it.                              *)
LEMMA Appended ==
  ASSUME NEW base \in Seq(Nat), NEW s \in Seq(Nat), NEW v \in Nat, Len(base) = v
  PROVE  /\ base \o s \in Seq(Nat) /\ Len(base \o s) = v + Len(s)
         /\ \A i \in 1..(v + Len(s)) : (base \o s)[i] = IF i <= v THEN base[i] ELSE s[i - v]
<1>1. Len(s) \in Nat
  BY LenProperties
<1>2. /\ base \o s \in Seq(Nat) /\ Len(base \o s) = Len(base) + Len(s)
      /\ \A i \in 1..(Len(base) + Len(s)) :
           (base \o s)[i] = IF i <= Len(base) THEN base[i] ELSE s[i - Len(base)]
  <2>1. base \o s \in Seq(Nat)
    BY ConcatProperties
  <2>2. Len(base \o s) = Len(base) + Len(s)
    BY ConcatProperties
  <2>3. \A i \in 1..(Len(base) + Len(s)) :
          (base \o s)[i] = IF i <= Len(base) THEN base[i] ELSE s[i - Len(base)]
    BY ConcatProperties
  <2> QED
    BY <2>1, <2>2, <2>3
<1> QED
  BY <1>2, Zenon

(* The next migrations in order take a whole ladder to the one further up. *)
LEMMA LadderGrows ==
  ASSUME NEW v \in Nat, NEW s \in Seq(Nat), \A i \in 1..Len(s) : s[i] = v + i
  PROVE  Ladder(v) \o s = Ladder(v + Len(s))
<1> DEFINE whole == Ladder(v) \o s
<1>1. Len(s) \in Nat /\ v + Len(s) \in Nat
  BY LenProperties
<1>2. /\ Ladder(v) \in Seq(Nat) /\ Len(Ladder(v)) = v
      /\ \A i \in 1..v : Ladder(v)[i] = i
  BY LadderType
<1>3. /\ whole \in Seq(Nat) /\ Len(whole) = v + Len(s)
      /\ \A i \in 1..(v + Len(s)) : whole[i] = IF i <= v THEN Ladder(v)[i] ELSE s[i - v]
  BY <1>1, <1>2, Appended
<1> HIDE DEF whole
<1>4. ASSUME NEW i \in 1..(v + Len(s)) PROVE whole[i] = i
  <2>1. CASE i <= v
    BY <1>1, <1>2, <1>3, <2>1
  <2>2. CASE i > v
    <3>1. i - v \in 1..Len(s)
      BY <1>1, <2>2
    <3>2. s[i - v] = v + (i - v)
      BY <3>1
    <3> QED
      BY <1>1, <1>3, <2>2, <3>2
  <2> QED
    BY <1>1, <2>1, <2>2
<1>5. /\ Ladder(v + Len(s)) \in Seq(Nat) /\ Len(Ladder(v + Len(s))) = v + Len(s)
      /\ \A i \in 1..(v + Len(s)) : Ladder(v + Len(s))[i] = i
  BY <1>1, LadderType
<1>6. whole = Ladder(v + Len(s))
  BY <1>3, <1>4, <1>5, SeqEqual
<1> QED
  BY <1>6 DEF whole

-----------------------------------------------------------------------------
(* What a process knows at each stage: who is past BEGIN IMMEDIATE holds   *)
(* the lock and was let through the guard, and who climbs the ladder       *)
(* climbs from the version that is there, one migration after the other.   *)
Climbs(p) ==
  /\ proc[p].found = version
  /\ proc[p].found + Len(proc[p].staged) <= Expects[p]
  /\ \A i \in 1..Len(proc[p].staged) : proc[p].staged[i] = proc[p].found + i

Early == {"idle", "journal", "convert", "version", "begin", "recheck"}

Careful(p) ==
  /\ proc[p].pc \in {"recheck", "ladder"} => writer = p
  /\ proc[p].pc \in {"begin", "recheck", "ladder"} => MayAdvance(p)
  /\ proc[p].pc \in Early => proc[p].staged = <<>>
  /\ proc[p].pc = "ladder" => Climbs(p)
  /\ proc[p].tries < Retries

Strands(p) ==
  /\ Shared /\ proc[p].why = "newer" => \E v \in FirstVersion \cup Released : v > Expects[p]
  /\ proc[p].why = "dirty" => ~MayAdvance(p) /\ proc[p].found < Expects[p]

AllCareful == \A p \in Procs : Careful(p) /\ Strands(p) /\ proc[p].why # "ladder"

Inv ==
  /\ TypeOK
  /\ LadderWhole
  /\ Shared => version \in FirstVersion \cup Released
  /\ AllCareful

(* What one process does leaves what another knows, unless it takes the    *)
(* lock or the version from under it.                                      *)
LEMMA OthersStayCareful ==
  ASSUME Inv, NEW p \in Procs, NEW opener, Become(p, opener),
         NEW q \in Procs, q # p,
         writer = q => writer' = q /\ version' = version
  PROVE  Careful(q)' /\ Strands(q)' /\ proc'[q].why # "ladder"
<1>1. proc'[q] = proc[q]
  BY DEF Inv, TypeOK, Become
<1>2. Careful(q) /\ Strands(q) /\ proc[q].why # "ladder"
  BY DEF Inv, AllCareful
<1>3. Careful(q)'
  BY <1>1, <1>2 DEF Careful, Climbs, MayAdvance
<1>4. Strands(q)'
  BY <1>1, <1>2 DEF Strands, MayAdvance
<1> QED
  BY <1>1, <1>2, <1>3, <1>4

(* A step of one process, that leaves the version alone, takes no lock of  *)
(* another and ends in a stage whose facts hold.                           *)
LEMMA BecomeKeepsInv ==
  ASSUME Inv, NEW p \in Procs, NEW opener \in Opener, Become(p, opener),
         wal' \in BOOLEAN, UNCHANGED <<version, applied>>, converting' \in SUBSET Procs,
         writer' = writer \/ writer' = p \/ writer' = Nobody,
         writer \notin {p, Nobody} => writer' = writer,
         writer' \in Procs \cup {Nobody},
         Careful(p)', Strands(p)', opener.why # "ladder"
  PROVE  Inv'
<1>1. proc' \in [Procs -> Opener] /\ proc'[p] = opener
  BY DEF Inv, TypeOK, Become
<1>2. ASSUME NEW q \in Procs PROVE Careful(q)' /\ Strands(q)' /\ proc'[q].why # "ladder"
  <2>1. CASE q = p
    BY <1>1, <2>1
  <2>2. CASE q # p
    <3>1. writer = q => writer' = q /\ version' = version
      BY <2>2
    <3> QED
      BY <2>2, <3>1, OthersStayCareful
  <2> QED
    BY <2>1, <2>2
<1>3. AllCareful'
  BY <1>2 DEF AllCareful
<1>4. TypeOK'
  BY <1>1 DEF Inv, TypeOK
<1> QED
  BY <1>3, <1>4 DEF Inv, LadderWhole

(* A board as it is found is at some version, and nobody has opened it yet.*)
LEMMA InvInit == Init => Inv
<1> SUFFICES ASSUME Init PROVE Inv
  OBVIOUS
<1>1. version \in Nat /\ applied \in Seq(Nat)
  BY LadderType DEF Init
<1>2. Idle \in Opener
  BY DEF Idle, Opener, Phases, Refusals
<1>3. TypeOK
  BY <1>1, <1>2 DEF Init, TypeOK
<1>4. AllCareful
  <2>1. \A p \in Procs : proc[p] = Idle
    BY DEF Init
  <2>2. /\ Idle.pc = "idle" /\ Idle.staged = <<>> /\ Idle.tries = 0 /\ Idle.why = "none"
    BY DEF Idle
  <2>3. ASSUME NEW p \in Procs PROVE Careful(p) /\ Strands(p) /\ proc[p].why # "ladder"
    <3>1. proc[p] = Idle
      BY <2>1
    <3> QED
      BY <2>2, <3>1 DEF Careful, Strands, Early
  <2> QED
    BY <2>3 DEF AllCareful
<1> QED
  BY <1>3, <1>4 DEF Init, Inv, LadderWhole

(* Every step of a process that does not write the schema.                 *)
LEMMA LookingKeepsInv ==
  ASSUME Inv, NEW p \in Procs,
         \/ Open(p) \/ ReadJournal(p) \/ Convert(p) \/ ConvertBusy(p) \/ ReadVersion(p)
         \/ BeginImmediate(p) \/ BusyTimeout(p) \/ Recheck(p) \/ Die(p)
  PROVE  Inv'
<1>0. /\ wal \in BOOLEAN /\ version \in Nat /\ converting \in SUBSET Procs
      /\ writer \in Procs \cup {Nobody} /\ proc \in [Procs -> Opener] /\ proc[p] \in Opener
      /\ Careful(p) /\ Strands(p) /\ proc[p].why # "ladder" /\ Expects[p] \in Nat
  BY DEF Inv, TypeOK, AllCareful
<1>1. \A opener : Become(p, opener) => proc'[p] = opener
  BY <1>0 DEF Become
<1>2. ASSUME NEW pc \in Phases \ {"recheck", "ladder"}, Goto(p, pc),
             pc \in Early => proc[p].pc \in Early, pc # "begin",
             wal' \in BOOLEAN, UNCHANGED <<version, applied>>, converting' \in SUBSET Procs,
             writer' \in {writer, Unlocked(p)} \/ (proc[p].pc = "recheck" /\ writer' = Nobody)
      PROVE  Inv'
  <2> DEFINE opener == [proc[p] EXCEPT !.pc = pc]
  <2>1. /\ opener \in Opener /\ opener.pc = pc /\ opener.why = proc[p].why
        /\ opener.staged = proc[p].staged /\ opener.tries = proc[p].tries
        /\ opener.found = proc[p].found
    BY <1>0 DEF Opener
  <2>2. Become(p, opener)
    BY <1>2 DEF Goto
  <2> HIDE DEF opener
  <2>3. Careful(p)' /\ Strands(p)'
    BY <1>0, <1>1, <1>2, <2>1, <2>2 DEF Careful, Strands, MayAdvance
  <2>4. /\ writer \notin {p, Nobody} => writer' = writer
        /\ writer' \in Procs \cup {Nobody}
        /\ writer' = writer \/ writer' = p \/ writer' = Nobody
    BY <1>0, <1>2 DEF Unlocked, Careful
  <2> QED
    BY <1>0, <1>2, <2>1, <2>2, <2>3, <2>4, BecomeKeepsInv
<1>3. ASSUME NEW why \in Refusals \ {"ladder", "dirty"}, Refuse(p, why),
             why = "newer" => version > Expects[p],
             UNCHANGED <<wal, version, applied>>, converting' \in SUBSET Procs,
             writer' = writer \/ (proc[p].pc = "recheck" /\ writer' = Nobody)
      PROVE  Inv'
  <2> DEFINE opener == [proc[p] EXCEPT !.pc = "refused", !.why = why]
  <2>1. /\ opener \in Opener /\ opener.pc = "refused" /\ opener.why = why
        /\ opener.tries = proc[p].tries
    BY <1>0 DEF Opener, Phases
  <2>2. Become(p, opener)
    BY <1>3 DEF Refuse
  <2> HIDE DEF opener
  <2>3. Careful(p)'
    BY <1>0, <1>1, <2>1, <2>2 DEF Careful, Early
  <2>4. Strands(p)'
    BY <1>1, <1>3, <2>1, <2>2 DEF Strands, Inv
  <2>5. writer \notin {p, Nobody} => writer' = writer
    BY <1>0, <1>3 DEF Careful
  <2>6. /\ writer' \in Procs \cup {Nobody}
        /\ writer' = writer \/ writer' = p \/ writer' = Nobody
    BY <1>0, <1>3
  <2>7. wal' \in BOOLEAN /\ opener.why # "ladder"
    BY <1>0, <1>3, <2>1
  <2> QED
    BY <1>3, <2>1, <2>2, <2>3, <2>4, <2>5, <2>6, <2>7, BecomeKeepsInv
<1>4. CASE Open(p) \/ ReadJournal(p) \/ Convert(p)
  BY <1>0, <1>2, <1>4 DEF Open, ReadJournal, Convert, Phases, Early
<1>5. CASE ConvertBusy(p)
  <2> DEFINE tries == proc[p].tries + 1
  <2>1. /\ proc[p].pc = "convert" /\ UNCHANGED <<wal, version, applied, writer>>
        /\ converting' \in SUBSET Procs
    BY <1>0, <1>5 DEF ConvertBusy
  <2>2. CASE tries = Retries
    <3>1. Refuse(p, "journal")
      BY <1>5, <2>2 DEF ConvertBusy
    <3> QED
      BY <1>3, <2>1, <3>1 DEF Refusals
  <2>3. CASE tries # Retries
    <3> DEFINE opener == [proc[p] EXCEPT !.pc = "journal", !.tries = tries]
    <3>1. Become(p, opener)
      BY <1>5, <2>3 DEF ConvertBusy
    <3>2. proc[p].tries \in 0..Retries /\ proc[p].tries < Retries
      BY <1>0 DEF Opener, Careful
    <3>3. tries \in 0..Retries /\ tries < Retries
      BY <2>3, <3>2
    <3> HIDE DEF tries
    <3>4. /\ opener \in Opener /\ opener.pc = "journal" /\ opener.why = proc[p].why
          /\ opener.staged = proc[p].staged /\ opener.tries = tries
          /\ opener.found = proc[p].found
      BY <1>0, <3>3 DEF Opener, Phases
    <3> HIDE DEF opener
    <3>5. Careful(p)' /\ Strands(p)'
      BY <1>0, <1>1, <2>1, <3>1, <3>3, <3>4 DEF Careful, Strands, Early, MayAdvance
    <3> QED
      BY <1>0, <2>1, <3>1, <3>4, <3>5, BecomeKeepsInv
  <2> QED
    BY <2>2, <2>3
<1>6. CASE ReadVersion(p)
  <2>1. /\ proc[p].pc = "version" /\ UNCHANGED <<wal, version, applied, converting, writer>>
        /\ wal' \in BOOLEAN /\ converting' \in SUBSET Procs
    BY <1>0, <1>6 DEF ReadVersion
  <2>2. CASE version = Expects[p]
    <3>0. ~(version > Expects[p]) /\ ~(version < Expects[p])
      BY <1>0, <2>2
    <3>1. Goto(p, "open")
      BY <1>6, <2>2, <3>0, Zenon DEF ReadVersion
    <3> QED
      BY <1>2, <2>1, <3>1 DEF Phases, Early
  <2>3. CASE version > Expects[p]
    <3>0. ~(version = Expects[p]) /\ ~(version < Expects[p])
      BY <1>0, <2>3
    <3>1. Refuse(p, "newer")
      BY <1>6, <2>3, <3>0, Zenon DEF ReadVersion
    <3> QED
      BY <1>3, <2>1, <2>3, <3>1 DEF Refusals
  <2>4. CASE version < Expects[p] /\ ~MayAdvance(p)
    <3> DEFINE opener == [proc[p] EXCEPT !.pc = "refused", !.why = "dirty", !.found = version]
    <3>1. Become(p, opener)
      BY <1>0, <1>6, <2>4 DEF ReadVersion
    <3>2. /\ opener \in Opener /\ opener.pc = "refused" /\ opener.why = "dirty"
          /\ opener.found = version /\ opener.tries = proc[p].tries
      BY <1>0 DEF Opener, Phases, Refusals
    <3> HIDE DEF opener
    <3>3. Careful(p)' /\ Strands(p)'
      BY <1>0, <1>1, <2>1, <2>4, <3>1, <3>2 DEF Careful, Strands, Early, MayAdvance
    <3> QED
      BY <1>0, <2>1, <3>1, <3>2, <3>3, BecomeKeepsInv
  <2>5. CASE version < Expects[p] /\ MayAdvance(p)
    <3> DEFINE opener == [proc[p] EXCEPT !.pc = "begin", !.found = version]
    <3>1. Become(p, opener)
      BY <1>0, <1>6, <2>5 DEF ReadVersion
    <3>2. /\ opener \in Opener /\ opener.pc = "begin" /\ opener.why = proc[p].why
          /\ opener.staged = proc[p].staged /\ opener.tries = proc[p].tries
      BY <1>0 DEF Opener, Phases
    <3> HIDE DEF opener
    <3>3. Careful(p)' /\ Strands(p)'
      BY <1>0, <1>1, <2>1, <2>5, <3>1, <3>2 DEF Careful, Strands, Early, MayAdvance
    <3> QED
      BY <1>0, <2>1, <3>1, <3>2, <3>3, BecomeKeepsInv
  <2> QED
    BY <1>0, <2>2, <2>3, <2>4, <2>5
<1>7. CASE BeginImmediate(p)
  <2> DEFINE opener == [proc[p] EXCEPT !.pc = "recheck"]
  <2>1. /\ proc[p].pc = "begin" /\ writer = Nobody /\ writer' = p
        /\ UNCHANGED <<wal, version, applied, converting>> /\ Become(p, opener)
    BY <1>7 DEF BeginImmediate, Goto
  <2>2. /\ opener \in Opener /\ opener.pc = "recheck" /\ opener.why = proc[p].why
        /\ opener.staged = proc[p].staged /\ opener.tries = proc[p].tries
    BY <1>0 DEF Opener, Phases
  <2> HIDE DEF opener
  <2>3. Careful(p)' /\ Strands(p)'
    BY <1>0, <1>1, <2>1, <2>2 DEF Careful, Strands, Early, MayAdvance
  <2> QED
    BY <1>0, <2>1, <2>2, <2>3, BecomeKeepsInv
<1>8. CASE BusyTimeout(p)
  BY <1>0, <1>3, <1>8 DEF BusyTimeout, Refusals
<1>9. CASE Recheck(p)
  <2>1. /\ proc[p].pc = "recheck" /\ UNCHANGED <<wal, version, applied, converting>>
        /\ wal' \in BOOLEAN /\ converting' \in SUBSET Procs /\ writer = p
    BY <1>0, <1>9 DEF Recheck, Careful
  <2>2. CASE version = Expects[p]
    <3>0. ~(version > Expects[p]) /\ ~(version < Expects[p])
      BY <1>0, <2>2
    <3>1. Goto(p, "open") /\ writer' = Nobody
      BY <1>9, <2>2, <3>0, Zenon DEF Recheck
    <3> QED
      BY <1>2, <2>1, <3>1 DEF Phases, Early
  <2>3. CASE version > Expects[p]
    <3>0. ~(version = Expects[p]) /\ ~(version < Expects[p])
      BY <1>0, <2>3
    <3>1. Refuse(p, "newer") /\ writer' = Nobody
      BY <1>9, <2>3, <3>0, Zenon DEF Recheck
    <3> QED
      BY <1>3, <2>1, <2>3, <3>1 DEF Refusals
  <2>4. CASE version < Expects[p]
    <3> DEFINE opener == [proc[p] EXCEPT !.pc = "ladder", !.found = version]
    <3>1. Become(p, opener) /\ writer' = writer
      BY <1>0, <1>9, <2>4 DEF Recheck
    <3>2. /\ opener \in Opener /\ opener.pc = "ladder" /\ opener.why = proc[p].why
          /\ opener.staged = proc[p].staged /\ opener.tries = proc[p].tries
          /\ opener.found = version
      BY <1>0 DEF Opener, Phases
    <3>3. proc[p].staged = <<>> /\ Len(<<>>) = 0
      BY <1>0, <2>1 DEF Careful, Early
    <3> HIDE DEF opener
    <3>4. Careful(p)' /\ Strands(p)'
      BY <1>0, <1>1, <2>1, <2>4, <3>1, <3>2, <3>3
         DEF Careful, Strands, Early, MayAdvance, Climbs
    <3> QED
      BY <1>0, <2>1, <3>1, <3>2, <3>4, BecomeKeepsInv
  <2> QED
    BY <1>0, <2>2, <2>3, <2>4
<1>10. CASE Die(p)
  BY <1>0, <1>2, <1>10 DEF Die, Phases, Early
<1> QED
  BY <1>4, <1>5, <1>6, <1>7, <1>8, <1>9, <1>10

(* A rung more: the next migration, never one the board already has.       *)
LEMMA MigrateKeepsInv == ASSUME Inv, NEW p \in Procs, Migrate(p) PROVE Inv'
<1> DEFINE n == NextMigration(p)
           opener == [proc[p] EXCEPT !.staged = Append(@, n)]
<1>0. /\ version \in Nat /\ writer = p /\ proc \in [Procs -> Opener] /\ proc[p] \in Opener
      /\ Careful(p) /\ Strands(p) /\ proc[p].why # "ladder" /\ Expects[p] \in Nat
      /\ proc[p].pc = "ladder" /\ n <= Expects[p]
      /\ wal \in BOOLEAN /\ converting \in SUBSET Procs
  BY DEF Inv, TypeOK, AllCareful, Careful, Migrate
<1>1. /\ proc[p].staged \in Seq(Nat) /\ Len(proc[p].staged) \in Nat
      /\ proc[p].found = version /\ n = version + Len(proc[p].staged) + 1 /\ n \in Nat
  BY <1>0 DEF Opener, Careful, Climbs, NextMigration
<1>2. Len(applied) = version
  <2>1. applied = Ladder(version)
    BY DEF Inv, LadderWhole
  <2>2. Len(Ladder(version)) = version
    BY <1>0, LadderType
  <2> QED
    BY <2>1, <2>2, Zenon
<1>3. Become(p, opener) /\ UNCHANGED <<wal, version, applied, converting, writer>>
  <2>1. ~(n <= Len(applied))
    <3>1. n > version
      BY <1>0, <1>1
    <3> HIDE DEF n
    <3> QED
      BY <1>0, <1>1, <1>2, <3>1
  <2> QED
    BY <2>1, Zenon DEF Migrate
<1>4. /\ Append(proc[p].staged, n) \in Seq(Nat)
      /\ Len(Append(proc[p].staged, n)) = Len(proc[p].staged) + 1
      /\ \A i \in 1..(Len(proc[p].staged) + 1) :
           Append(proc[p].staged, n)[i] =
             IF i <= Len(proc[p].staged) THEN proc[p].staged[i] ELSE n
  <2> DEFINE s == proc[p].staged
  <2> HIDE DEF s, n
  <2>1. s \in Seq(Nat) /\ n \in Nat
    BY <1>1 DEF s
  <2> QED
    BY <2>1, AppendProperties DEF s
<1> DEFINE staged == Append(proc[p].staged, n)
<1>5. /\ opener \in Opener /\ opener.pc = "ladder" /\ opener.why = proc[p].why
      /\ opener.staged = staged /\ opener.found = version /\ opener.tries = proc[p].tries
  <2> HIDE DEF n, staged
  <2>1. opener = [proc[p] EXCEPT !.staged = staged] /\ staged \in Seq(Nat)
    BY <1>4 DEF staged
  <2> HIDE DEF opener
  <2> QED
    BY <1>0, <1>1, <2>1 DEF Opener
<1>6. /\ version + Len(staged) <= Expects[p]
      /\ \A i \in 1..Len(staged) : staged[i] = version + i
  <2> HIDE DEF n
  <2>1. \A i \in 1..Len(proc[p].staged) : proc[p].staged[i] = version + i
    BY <1>0 DEF Careful, Climbs
  <2>2. Len(staged) = Len(proc[p].staged) + 1
    BY <1>4
  <2>3. ASSUME NEW i \in 1..(Len(proc[p].staged) + 1) PROVE staged[i] = version + i
    <3> HIDE DEF staged
    <3>1. staged[i] = IF i <= Len(proc[p].staged) THEN proc[p].staged[i] ELSE n
      BY <1>4 DEF staged
    <3>2. version \in Nat /\ Len(proc[p].staged) \in Nat
          /\ n = version + Len(proc[p].staged) + 1
      BY <1>0, <1>1
    <3>3. CASE i <= Len(proc[p].staged)
      BY <2>1, <3>1, <3>2, <3>3
    <3>4. CASE i = Len(proc[p].staged) + 1
      BY <3>1, <3>2, <3>4
    <3> QED
      BY <3>2, <3>3, <3>4
  <2> HIDE DEF staged
  <2> QED
    BY <1>0, <1>1, <2>2, <2>3
<1> HIDE DEF n, opener, staged
<1>7. proc'[p] = opener
  BY <1>0, <1>3 DEF Become
<1>8. Careful(p)'
  BY <1>0, <1>3, <1>5, <1>6, <1>7 DEF Careful, Climbs, MayAdvance, Early
<1>9. Strands(p)'
  BY <1>0, <1>1, <1>3, <1>5, <1>7 DEF Strands, MayAdvance
<1> QED
  BY <1>0, <1>3, <1>5, <1>8, <1>9, BecomeKeepsInv

(* The whole ladder and the stamp at once, on the version that was found.  *)
LEMMA CommitKeepsInv == ASSUME Inv, NEW p \in Procs, Commit(p) PROVE Inv'
<1> DEFINE opener == [proc[p] EXCEPT !.pc = "open"]
           staged == proc[p].staged
<1>0. /\ version \in Nat /\ writer = p /\ proc \in [Procs -> Opener] /\ proc[p] \in Opener
      /\ Careful(p) /\ Strands(p) /\ proc[p].why # "ladder" /\ Expects[p] \in Nat
      /\ proc[p].pc = "ladder" /\ NextMigration(p) > Expects[p]
      /\ wal \in BOOLEAN /\ converting \in SUBSET Procs
  BY DEF Inv, TypeOK, AllCareful, Careful, Commit
<1>1. /\ staged \in Seq(Nat) /\ Len(staged) \in Nat /\ version + Len(staged) = Expects[p]
      /\ \A i \in 1..Len(staged) : staged[i] = version + i
  <2>1. staged \in Seq(Nat)
    BY <1>0 DEF Opener
  <2>2. /\ proc[p].found = version /\ version + Len(staged) <= Expects[p]
        /\ version + Len(staged) + 1 > Expects[p]
        /\ \A i \in 1..Len(staged) : staged[i] = version + i
    BY <1>0 DEF Careful, Climbs, NextMigration
  <2> HIDE DEF staged
  <2>3. Len(staged) \in Nat
    BY <2>1, LenProperties
  <2>4. version + Len(staged) = Expects[p]
    <3> DEFINE len == Len(staged)
    <3>1. /\ len \in Nat /\ version \in Nat /\ Expects[p] \in Nat
          /\ version + len <= Expects[p] /\ version + len + 1 > Expects[p]
      BY <1>0, <2>2, <2>3
    <3> HIDE DEF len
    <3>2. version + len = Expects[p]
      BY <3>1
    <3> QED
      BY <3>2 DEF len
  <2> QED
    BY <2>1, <2>2, <2>3, <2>4
<1>2. /\ Become(p, opener) /\ applied' = applied \o staged /\ version' = Expects[p]
      /\ writer' = Nobody /\ UNCHANGED <<wal, converting>>
  BY DEF Commit, Goto
<1> HIDE DEF staged
<1>3. Ladder(version) \o staged = Ladder(version + Len(staged))
  BY <1>0, <1>1, LadderGrows
<1>4. applied' = Ladder(version')
  <2>1. applied = Ladder(version)
    BY DEF Inv, LadderWhole
  <2> QED
    BY <1>1, <1>2, <1>3, <2>1, Zenon
<1>5. version' \in Nat /\ applied' \in Seq(Nat)
  BY <1>0, <1>2, <1>4, LadderType
<1>6. /\ opener \in Opener /\ opener.pc = "open" /\ opener.why = proc[p].why
      /\ opener.tries = proc[p].tries
  BY <1>0 DEF Opener, Phases
<1> HIDE DEF opener
<1>7. proc' \in [Procs -> Opener] /\ proc'[p] = opener
  BY <1>0, <1>2, <1>6 DEF Become
<1>8. Careful(p)' /\ Strands(p)' /\ proc'[p].why # "ladder"
  BY <1>0, <1>6, <1>7 DEF Careful, Strands, Early
<1>9. AllCareful'
  <2>1. ASSUME NEW q \in Procs, q # p
        PROVE  Careful(q)' /\ Strands(q)' /\ proc'[q].why # "ladder"
    BY <1>0, <1>2, <2>1, OthersStayCareful
  <2> QED
    BY <1>8, <2>1 DEF AllCareful
<1>10. Shared => version' \in FirstVersion \cup Released
  BY <1>0, <1>2 DEF Careful, MayAdvance, Released
<1>11. TypeOK'
  BY <1>0, <1>2, <1>5, <1>7 DEF TypeOK
<1> QED
  BY <1>4, <1>9, <1>10, <1>11 DEF Inv, LadderWhole

LEMMA InvStep == Inv /\ [Next]_vars => Inv'
<1> SUFFICES ASSUME Inv, [Next]_vars PROVE Inv'
  OBVIOUS
<1>1. CASE UNCHANGED vars
  BY <1>1 DEF vars, Inv, TypeOK, LadderWhole, AllCareful, Careful, Climbs, Strands, MayAdvance
<1>2. ASSUME NEW p \in Procs, Open(p) \/ Proceed(p) \/ Die(p) PROVE Inv'
  BY <1>2, LookingKeepsInv, MigrateKeepsInv, CommitKeepsInv DEF Proceed
<1> QED
  BY <1>1, <1>2 DEF Next

LEMMA InvHolds == Spec => []Inv
  BY InvInit, InvStep, PTL DEF Spec

-----------------------------------------------------------------------------
(* The board, its lock and its openers stay well typed; nobody attempts a  *)
(* conversion oftener than the budget allows (db.rs engage_wal).           *)
THEOREM SchemaTypeCorrect == Spec => []TypeOK
<1>1. Inv => TypeOK
  BY DEF Inv
<1> QED
  BY <1>1, InvHolds, PTL

(* However many binaries of however many versions open the board at once,  *)
(* and wherever they die, it carries exactly the migrations up to the      *)
(* version stamped on it, each once and in order (db.rs migrate).          *)
THEOREM LadderStaysWhole == Spec => []LadderWhole
<1>1. Inv => LadderWhole
  BY DEF Inv
<1> QED
  BY <1>1, InvHolds, PTL

(* No process applies a migration that another one committed.              *)
THEOREM MigrationsAreNotRepeated == Spec => []NobodyRepeatsAMigration
<1>1. Inv => NobodyRepeatsAMigration
  BY DEF Inv, AllCareful, NobodyRepeatsAMigration
<1> QED
  BY <1>1, InvHolds, PTL

(* A binary is turned away as too old from the shared board only by a      *)
(* version it came with or a released or forced binary put there; a dirty  *)
(* one is turned away only from a board it found behind its own version.   *)
THEOREM DirtyBuildsStrandNobody == Spec => []NobodyIsStranded
<1>1. Inv => NobodyIsStranded
  BY DEF Inv, AllCareful, Strands, MayAdvance, NobodyIsStranded
<1> QED
  BY <1>1, InvHolds, PTL
=============================================================================
