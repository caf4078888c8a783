----------------------------- MODULE VaultProofs -----------------------------
(***************************************************************************)
(* Theorems about Vault for any processes, directories and bounds.         *)
(***************************************************************************)
EXTENDS Vault, WellFoundedInduction, TLAPS

-----------------------------------------------------------------------------
(* Type correctness.                                                       *)

LEMMA ConstantsFit ==
  /\ SlugLimit \in Nat /\ 1 <= SlugLimit /\ MaxWrites \in Nat /\ MaxDeaths \in Nat
  /\ Dirs \subseteq {"projects", "captures"} /\ "projects" \in Dirs
  /\ \A p \in Procs : Runs[p] \subseteq Commands /\ ("capture" \in Runs[p] => "captures" \in Dirs)
  /\ Nobody \notin Procs
BY VaultAssumption

LEMMA AbsentIsNoFile ==
  /\ Absent \notin Files /\ Absent.mtime = 0 /\ Absent.by = Nobody /\ Absent.status = "active"
  /\ NoRow \notin Rows /\ NoRow.mtime = 0
BY DEF Absent, Files, NoRow, Rows, Times

LEMMA HomeIsAPath == <<"projects", 1>> \in Paths
BY ConstantsFit DEF Paths

LEMMA PhaseNames ==
  /\ "idle" \in Phases /\ "write" \in Phases /\ "stat" \in Phases /\ "row" \in Phases
  /\ "links" \in Phases /\ "retire" \in Phases /\ "rewrite" \in Phases /\ "list" \in Phases
  /\ "scan" \in Phases /\ "read" \in Phases /\ "inject" \in Phases /\ "shown" \in Phases
BY DEF Phases

LEMMA IdleType == Idle \in Proc
<1>1. [f \in Paths |-> NoRow] \in [Paths -> Rows \cup {NoRow}]
  OBVIOUS
<1> QED
  BY <1>1, HomeIsAPath, ConstantsFit, PhaseNames DEF Idle, Proc

(* There is a free suffix that is the first.                               *)
LEMMA FreeSlugType ==
  ASSUME NEW d \in Dirs
  PROVE  FreeSlug(d) \in Paths
<1> DEFINE free == {f \in In(d) : ~Present(f)}
           taken == {f[2] : f \in free}
<1>1. CASE free = {}
  <2>1. <<d, SlugLimit + 1>> \in Paths
    BY ConstantsFit DEF Paths
  <2> QED
    BY <1>1, <2>1 DEF FreeSlug
<1>2. CASE free # {}
  <2>1. taken \in SUBSET Nat /\ taken # {}
    BY <1>2, ConstantsFit DEF In, Paths
  <2>2. PICK x \in taken : \A y \in taken : <<y, x>> \notin OpToRel(<, Nat)
    <3> HIDE DEF taken
    <3> QED
      BY <2>1, NatLessThanWellFounded, WFMin
  <2>3. \A y \in taken : ~(y < x)
    BY <2>1, <2>2 DEF OpToRel
  <2>4. \E f \in free : \A g \in free : f[2] <= g[2]
    <3>1. PICK f \in free : f[2] = x
      BY <2>2
    <3>2. ASSUME NEW g \in free PROVE f[2] <= g[2]
      <4>1. f[2] \in Nat /\ g[2] \in Nat /\ ~(g[2] < f[2])
        BY <2>1, <2>3, <3>1
      <4> QED
        BY <4>1
    <3> QED
      BY <3>2
  <2>5. FreeSlug(d) \in free
    BY <1>2, <2>4 DEF FreeSlug
  <2> QED
    BY <2>5 DEF In
<1> QED
  BY <1>1, <1>2

(* Where a process can go on from.                                         *)
LEMMA UpdatesFit ==
  ASSUME NEW l \in Proc
  PROVE  /\ \A at \in Paths, text \in Files \cup {Absent} :
              [l EXCEPT !.pc = "rewrite", !.at = at, !.text = text] \in Proc
         /\ \A at \in Paths :
              [l EXCEPT !.pc = "scan", !.at = at, !.mtime = 0, !.text = Absent] \in Proc
         /\ \A d \in Dirs, listed \in SUBSET Paths :
              [l EXCEPT !.pc = "scan", !.dir = d, !.dirs = @ \ {d}, !.todo = listed,
                        !.seen = listed] \in Proc
         /\ \A view \in [Paths -> Rows \cup {NoRow}] :
              [l EXCEPT !.view = view, !.snapshot = IF @ = "none" THEN "fresh" ELSE @] \in Proc
<1>1. ASSUME NEW at \in Paths, NEW text \in Files \cup {Absent}
      PROVE  [l EXCEPT !.pc = "rewrite", !.at = at, !.text = text] \in Proc
  BY PhaseNames DEF Proc
<1>2. ASSUME NEW at \in Paths
      PROVE  [l EXCEPT !.pc = "scan", !.at = at, !.mtime = 0, !.text = Absent] \in Proc
  <2>1. 0 \in 0..MaxWrites
    BY ConstantsFit
  <2> QED
    BY <2>1, PhaseNames DEF Proc
<1>3. ASSUME NEW d \in Dirs, NEW listed \in SUBSET Paths
      PROVE  [l EXCEPT !.pc = "scan", !.dir = d, !.dirs = @ \ {d}, !.todo = listed,
                       !.seen = listed] \in Proc
  BY PhaseNames DEF Proc
<1>4. ASSUME NEW view \in [Paths -> Rows \cup {NoRow}]
      PROVE  [l EXCEPT !.view = view, !.snapshot = IF @ = "none" THEN "fresh" ELSE @] \in Proc
  <2>1. CASE l.snapshot = "none"
    <3>1. [l EXCEPT !.view = view, !.snapshot = "fresh"] \in Proc
      BY DEF Proc
    <3> QED
      BY <2>1, <3>1
  <2>2. CASE l.snapshot # "none"
    <3>1. [l EXCEPT !.view = view, !.snapshot = @] \in Proc
      BY DEF Proc
    <3> QED
      BY <2>2, <3>1
  <2> QED
    BY <2>1, <2>2
<1> QED
  BY <1>1, <1>2, <1>3, <1>4

LEMMA PhaseFits ==
  ASSUME NEW l \in Proc, NEW pc \in Phases
  PROVE  [l EXCEPT !.pc = pc] \in Proc
BY DEF Proc

LEMMA StaleFits ==
  ASSUME NEW l \in Proc
  PROVE  [l EXCEPT !.snapshot = "stale"] \in Proc
BY DEF Proc

LEMMA RetiredFits ==
  ASSUME NEW l \in Proc, NEW f
  PROVE  [l EXCEPT !.retired = @ \ {f}] \in Proc
BY DEF Proc

LEMMA TextFits ==
  ASSUME NEW l \in Proc, NEW pc \in Phases, NEW text \in Files
  PROVE  [l EXCEPT !.pc = pc, !.text = text] \in Proc
BY DEF Proc

LEMMA MtimeFits ==
  ASSUME NEW l \in Proc, NEW pc \in Phases, NEW mtime \in 0..MaxWrites
  PROVE  [l EXCEPT !.pc = pc, !.mtime = mtime] \in Proc
BY DEF Proc

LEMMA ShownFits ==
  ASSUME NEW l \in Proc, NEW pc \in Phases, NEW shown \in SUBSET Paths
  PROVE  [l EXCEPT !.pc = pc, !.shown = shown] \in Proc
BY DEF Proc

LEMMA BeginFits ==
  ASSUME NEW l \in Proc, NEW pc \in Phases, NEW cmd \in {"session", "index"},
         NEW retired \in SUBSET Paths, NEW dirs \in SUBSET Dirs
  PROVE  [l EXCEPT !.pc = pc, !.cmd = cmd, !.retired = retired, !.dirs = dirs] \in Proc
BY DEF Proc

LEMMA BecomeType ==
  ASSUME TypeOK, NEW p \in Procs, NEW local \in Proc, Become(p, local)
  PROVE  proc' \in [Procs -> Proc]
BY DEF Become, TypeOK

LEMMA AfterCommitType ==
  ASSUME TypeOK, NEW p \in Procs, NEW local \in Proc, AfterCommit(p, local)
  PROVE  proc' \in [Procs -> Proc]
<1>1. ASSUME NEW q \in Procs PROVE [proc[q] EXCEPT !.snapshot = "stale"] \in Proc
  BY StaleFits DEF TypeOK
<1> QED
  BY <1>1 DEF AfterCommit, TypeOK

LEMMA RevivedType ==
  ASSUME NEW procs \in [Procs -> Proc], NEW f, NEW status
  PROVE  Revive(f, status, procs) \in [Procs -> Proc]
<1>1. ASSUME NEW q \in Procs PROVE [procs[q] EXCEPT !.retired = @ \ {f}] \in Proc
  BY RetiredFits
<1> QED
  BY <1>1 DEF Revive

(* What a rename leaves.                                                   *)
LEMMA RenameType ==
  ASSUME TypeOK, NEW f \in Paths, NEW file \in Files, Rename(f, file)
  PROVE  /\ clock' = clock + 1 /\ clock' \in Times /\ clock' \in 0..MaxWrites
         /\ [file EXCEPT !.mtime = clock'] \in Files
         /\ files' = [files EXCEPT ![f] = [file EXCEPT !.mtime = clock']]
         /\ files' \in [Paths -> Files \cup {Absent}]
<1>1. clock' = clock + 1 /\ clock' \in Times /\ clock' \in 0..MaxWrites
  BY ConstantsFit DEF Rename, TypeOK, Times
<1>2. [file EXCEPT !.mtime = clock'] \in Files
  BY <1>1 DEF Files
<1>3. files' = [files EXCEPT ![f] = [file EXCEPT !.mtime = clock']]
  BY <1>1 DEF Rename
<1> QED
  BY <1>1, <1>2, <1>3 DEF TypeOK

LEMMA DoneType ==
  ASSUME TypeOK, NEW p \in Procs, Done(p)
  PROVE  proc' \in [Procs -> Proc]
BY IdleType, BecomeType DEF Done

LEMMA LocalType ==
  ASSUME TypeOK, NEW p \in Procs
  PROVE  /\ proc[p] \in Proc
         /\ \A pc \in Phases : [proc[p] EXCEPT !.pc = pc] \in Proc
BY PhaseFits DEF TypeOK

(* The writers.                                                            *)
LEMMA ObserveType ==
  ASSUME TypeOK, NEW p \in Procs, Observe(p)
  PROVE  proc' \in [Procs -> Proc]
<1>0. PICK cmd \in Runs[p] \cap Writers : \E old \in Targets(cmd) :
        Become(p, [Idle EXCEPT !.pc = "write", !.old = old, !.at = FreeSlug(DirOf(cmd))])
  BY DEF Observe
<1>1. PICK old \in Targets(cmd) :
        Become(p, [Idle EXCEPT !.pc = "write", !.old = old, !.at = FreeSlug(DirOf(cmd))])
  BY <1>0
<1> DEFINE local == [Idle EXCEPT !.pc = "write", !.old = old, !.at = FreeSlug(DirOf(cmd))]
<1>2. DirOf(cmd) \in Dirs /\ old \in Paths \cup {Nobody}
  BY ConstantsFit DEF DirOf, Targets
<1>3. local \in Proc
  BY <1>2, FreeSlugType, IdleType, PhaseNames DEF Proc
<1> HIDE DEF local
<1>4. Become(p, local)
  BY <1>1 DEF local
<1> QED
  BY <1>3, <1>4, BecomeType

LEMMA WriteNoteType ==
  ASSUME TypeOK, NEW p \in Procs, WriteNote(p)
  PROVE  TypeOK'
<1> DEFINE f    == proc[p].at
           note == [note |-> clock + 1, status |-> "active", by |-> Nobody, mtime |-> clock + 1]
           procs == [proc EXCEPT ![p].pc = "stat", ![p].text = note]
<1>1. f \in Paths
  BY DEF TypeOK, Proc
<1>2. Rename(f, note) /\ proc' = Revive(f, "active", procs)
  BY DEF WriteNote
<1>3. note \in Files
  BY <1>2, ConstantsFit DEF Files, Times, Status, Rename, TypeOK
<1>4. procs \in [Procs -> Proc]
  <2>1. [proc[p] EXCEPT !.pc = "stat", !.text = note] \in Proc
    <3>1. proc[p] \in Proc
      BY DEF TypeOK
    <3> HIDE DEF note
    <3> QED
      BY <1>3, <3>1, PhaseNames, TextFits
  <2>2. procs = [proc EXCEPT ![p] = [proc[p] EXCEPT !.pc = "stat", !.text = note]]
    BY DEF TypeOK
  <2> QED
    BY <2>1, <2>2 DEF TypeOK
<1>5. proc' \in [Procs -> Proc]
  <2> HIDE DEF procs
  <2> QED
    BY <1>2, <1>4, RevivedType
<1>6. clock' \in 0..MaxWrites /\ files' \in [Paths -> Files \cup {Absent}]
  <2> HIDE DEF note
  <2> QED
    BY <1>1, <1>2, <1>3, RenameType
<1> QED
  BY <1>5, <1>6 DEF WriteNote, TypeOK, Board

LEMMA StatNoteType ==
  ASSUME TypeOK, NEW p \in Procs, StatNote(p)
  PROVE  proc' \in [Procs -> Proc]
<1> DEFINE local == [proc[p] EXCEPT !.pc = "row", !.mtime = files[proc[p].at].mtime]
<1>1. files[proc[p].at].mtime \in 0..MaxWrites
  BY AbsentIsNoFile, ConstantsFit DEF TypeOK, Proc, Files, Times
<1>2. local \in Proc
  <2>1. proc[p] \in Proc
    BY DEF TypeOK
  <2> QED
    BY <1>1, <2>1, PhaseNames, MtimeFits
<1> QED
  BY <1>2, BecomeType DEF StatNote

LEMMA UpsertRowType ==
  ASSUME TypeOK, NEW p \in Procs, UpsertRow(p), proc[p].text \in Files
  PROVE  TypeOK'
<1>1. proc' \in [Procs -> Proc]
  BY LocalType, AfterCommitType, PhaseNames DEF UpsertRow
<1>2. proc[p].at \in Paths /\ proc[p].mtime \in 0..MaxWrites
  BY DEF TypeOK, Proc
<1>3. [note |-> proc[p].text.note, status |-> proc[p].text.status, mtime |-> proc[p].mtime] \in Rows
  BY <1>2 DEF Rows, Files
<1>4. rows' \in [Paths -> Rows \cup {NoRow}]
  BY <1>3 DEF UpsertRow, TypeOK
<1>5. raced' \subseteq Paths
  BY <1>2 DEF UpsertRow, TypeOK
<1> QED
  BY <1>1, <1>4, <1>5 DEF UpsertRow, TypeOK

LEMMA RestType ==
  ASSUME TypeOK, NEW p \in Procs
  PROVE  Rest(p) \in Proc
BY LocalType, IdleType, PhaseNames DEF Rest

LEMMA UpsertLinksType ==
  ASSUME TypeOK, NEW p \in Procs, UpsertLinks(p)
  PROVE  TypeOK'
<1>1. proc[p].at \in Paths /\ proc[p].text.by \in Paths \cup {Nobody}
  BY AbsentIsNoFile DEF TypeOK, Proc, Files
<1>2. proc' \in [Procs -> Proc] /\ links' \in [Paths -> Paths \cup {Nobody}]
  <2>1. CASE links' = [links EXCEPT ![proc[p].at] = proc[p].text.by] /\ AfterCommit(p, Rest(p))
    BY <1>1, <2>1, RestType, AfterCommitType DEF TypeOK
  <2>2. CASE Done(p) /\ UNCHANGED <<links, torn>>
    BY <2>2, DoneType DEF TypeOK
  <2> QED
    BY <2>1, <2>2 DEF UpsertLinks
<1>3. raced' \subseteq Paths /\ torn' \subseteq Paths
  BY <1>1 DEF UpsertLinks, TypeOK
<1> QED
  BY <1>2, <1>3 DEF UpsertLinks, TypeOK

LEMMA ReadOldType ==
  ASSUME TypeOK, NEW p \in Procs, ReadOld(p), proc[p].old # Nobody
  PROVE  proc' \in [Procs -> Proc]
<1> DEFINE f == proc[p].old
           text == [files[f] EXCEPT !.status = "superseded", !.by = proc[p].at]
           local == [proc[p] EXCEPT !.pc = "rewrite", !.at = f, !.text = text]
<1>1. CASE Done(p)
  BY <1>1, DoneType
<1>2. CASE Indexed(f) /\ Present(f) /\ Become(p, local)
  <2>1. f \in Paths
    BY DEF TypeOK, Proc
  <2>2. text \in Files
    <3>1. files[f] \in Files /\ proc[p].at \in Paths
      BY <1>2, <2>1 DEF TypeOK, Present, Proc
    <3> QED
      BY <3>1 DEF Files, Status
  <2>3. local \in Proc
    <3>1. proc[p] \in Proc
      BY DEF TypeOK
    <3> HIDE DEF text
    <3> QED
      BY <2>1, <2>2, <3>1, UpdatesFit
  <2> HIDE DEF local
  <2> QED
    BY <1>2, <2>3, BecomeType
<1> QED
  BY <1>1, <1>2 DEF ReadOld


LEMMA RewriteOldType ==
  ASSUME TypeOK, NEW p \in Procs, RewriteOld(p), proc[p].text \in Files
  PROVE  TypeOK'
<1>1. proc[p].at \in Paths /\ clock' = clock + 1 /\ clock' \in Times
      /\ clock' \in 0..MaxWrites /\ files' \in [Paths -> Files \cup {Absent}]
  <2>1. proc[p].at \in Paths
    BY DEF TypeOK, Proc
  <2> QED
    BY <2>1, RenameType DEF RewriteOld
<1> DEFINE text == [proc[p].text EXCEPT !.mtime = clock + 1]
           local == [proc[p] EXCEPT !.pc = "stat", !.text = text]
<1>2. text \in Files
  BY <1>1 DEF Files
<1>3. local \in Proc
  <2>1. proc[p] \in Proc
    BY DEF TypeOK
  <2> HIDE DEF text
  <2> QED
    BY <1>2, <2>1, PhaseNames, TextFits
<1>4. Become(p, local)
  BY DEF RewriteOld, TypeOK, Proc
<1>5. proc' \in [Procs -> Proc]
  <2> HIDE DEF local
  <2> QED
    BY <1>3, <1>4, BecomeType
<1> QED
  BY <1>1, <1>5 DEF RewriteOld, TypeOK, Board

(* The syncs.                                                              *)
LEMMA BeginSyncType ==
  ASSUME TypeOK, NEW p \in Procs, BeginSync(p)
  PROVE  proc' \in [Procs -> Proc]
<1>1. PICK cmd \in Runs[p] \cap {"session", "index"} :
        Become(p, [Idle EXCEPT !.pc = "list", !.cmd = cmd,
                     !.retired = IF cmd = "session" THEN Retired ELSE {},
                     !.dirs = IF cmd = "session" THEN {"projects"} ELSE Dirs])
  BY DEF BeginSync
<1> DEFINE retired == IF cmd = "session" THEN Retired ELSE {}
           dirs == IF cmd = "session" THEN {"projects"} ELSE Dirs
<1>2. retired \in SUBSET Paths /\ dirs \in SUBSET Dirs
  BY ConstantsFit DEF Retired, In
<1>3. [Idle EXCEPT !.pc = "list", !.cmd = cmd, !.retired = retired, !.dirs = dirs] \in Proc
  <2> HIDE DEF retired, dirs
  <2> QED
    BY <1>2, IdleType, PhaseNames, BeginFits
<1> QED
  BY <1>1, <1>3, BecomeType

LEMMA ListFilesType ==
  ASSUME TypeOK, NEW p \in Procs, ListFiles(p)
  PROVE  proc' \in [Procs -> Proc]
<1>1. PICK d \in proc[p].dirs :
        \/ Goto(p, "inject")
        \/ LET listed == {f \in In(d) : Present(f)} IN
           Become(p, [proc[p] EXCEPT !.pc = "scan", !.dir = d, !.dirs = @ \ {d},
                        !.todo = listed, !.seen = listed])
  BY DEF ListFiles
<1>2. CASE Goto(p, "inject")
  BY <1>2, LocalType, BecomeType, PhaseNames DEF Goto
<1> DEFINE listed == {f \in In(d) : Present(f)}
           local == [proc[p] EXCEPT !.pc = "scan", !.dir = d, !.dirs = @ \ {d},
                       !.todo = listed, !.seen = listed]
<1>3. CASE Become(p, local)
  <2>1. listed \subseteq Paths /\ d \in Dirs
    BY <1>1 DEF In, TypeOK, Proc
  <2>2. local \in Proc
    <3>1. proc[p] \in Proc
      BY DEF TypeOK
    <3> HIDE DEF listed
    <3> QED
      BY <2>1, <3>1, UpdatesFit
  <2> HIDE DEF local
  <2> QED
    BY <1>3, <2>2, BecomeType
<1> QED
  BY <1>1, <1>2, <1>3

LEMMA ViewType ==
  ASSUME TypeOK, NEW p \in Procs
  PROVE  View(p) \in [Paths -> Rows \cup {NoRow}]
BY DEF View, TypeOK, Proc

LEMMA ProbeType ==
  ASSUME TypeOK, NEW p \in Procs, Probe(p)
  PROVE  proc' \in [Procs -> Proc]
<1> DEFINE Looked(f) == [Pinned(p) EXCEPT !.todo = @ \ {f}, !.view[f] = NoRow]
           Missed(f) == [Looked(f) EXCEPT !.pc = "read", !.at = f, !.mtime = files[f].mtime]
<1>1. PICK f \in proc[p].todo : Become(p, Looked(f)) \/ Become(p, Missed(f))
  BY DEF Probe
<1>2. Pinned(p) \in Proc
  <2>1. proc[p] \in Proc
    BY DEF TypeOK
  <2> QED
    BY <2>1, ViewType, UpdatesFit DEF Pinned
<1>3. f \in Paths /\ files[f].mtime \in 0..MaxWrites
  BY AbsentIsNoFile, ConstantsFit DEF TypeOK, Proc, Files, Times
<1>4. Looked(f) \in Proc
  BY <1>2, <1>3 DEF Proc
<1>5. Missed(f) \in Proc
  <2> HIDE DEF Looked
  <2> QED
    BY <1>3, <1>4, PhaseNames DEF Proc
<1> HIDE DEF Looked, Missed
<1> QED
  BY <1>1, <1>4, <1>5, BecomeType

LEMMA ScanType ==
  ASSUME TypeOK, NEW p \in Procs
  PROVE  Scan(p) \in Proc
<1>1. proc[p] \in Proc /\ Idle.at \in Paths
  BY HomeIsAPath DEF TypeOK, Idle
<1> QED
  BY <1>1, UpdatesFit DEF Scan

LEMMA ReadAndStageType ==
  ASSUME TypeOK, NEW p \in Procs, ReadAndStage(p)
  PROVE  proc' \in [Procs -> Proc] /\ writer' \in Procs \cup {Nobody}
<1> DEFINE f == proc[p].at
           s == <<f, files[f], proc[p].mtime>>
           local == [Scan(p) EXCEPT !.staged = @ \cup {s}]
<1>1. CASE Present(f) /\ writer' = p /\ Become(p, local)
  <2>1. s \in Paths \X Files \X (0..MaxWrites)
    BY <1>1 DEF TypeOK, Proc, Present
  <2>2. local \in Proc
    <3> HIDE DEF s
    <3> QED
      BY <2>1, ScanType DEF Proc
  <2> HIDE DEF local
  <2> QED
    BY <1>1, <2>2, BecomeType
<1>2. CASE Become(p, Scan(p)) /\ UNCHANGED writer
  BY <1>2, ScanType, BecomeType DEF TypeOK
<1> QED
  BY <1>1, <1>2 DEF ReadAndStage

\* What a process goes on with once its transaction is committed.
Next1(p) == [Idle EXCEPT !.cmd = proc[p].cmd, !.dirs = proc[p].dirs,
               !.retired = proc[p].retired, !.synced = TRUE,
               !.pc = IF proc[p].dirs # {} THEN "list" ELSE "inject"]
After(p) == IF proc[p].dirs = {} /\ proc[p].cmd = "index" THEN Idle ELSE Next1(p)

LEMMA AfterType ==
  ASSUME TypeOK, NEW p \in Procs
  PROVE  After(p) \in Proc
<1>1. Next1(p) \in Proc
  BY IdleType, PhaseNames DEF Next1, TypeOK, Proc
<1> QED
  BY <1>1, IdleType DEF After

(* What Commit says, statement by statement.                               *)
Committed(p) ==
  LET written == Pruned(p) \cup StagedAt(p) IN
  /\ proc[p].pc = "scan" /\ proc[p].todo = {}
  /\ written # {} => proc[p].snapshot # "stale" /\ writer \in {Nobody, p}
  /\ rows' = [f \in Paths |->
        IF f \in Pruned(p) THEN NoRow
        ELSE IF f \in StagedAt(p)
        THEN [note |-> StagedFor(p, f)[2].note, status |-> StagedFor(p, f)[2].status,
              mtime |-> StagedFor(p, f)[3]]
        ELSE rows[f]]
  /\ links' = [f \in Paths |-> IF f \in StagedAt(p) THEN StagedFor(p, f)[2].by ELSE links[f]]
  /\ IF written = {} THEN Become(p, After(p)) ELSE AfterCommit(p, After(p))
  /\ writer' = IF writer = p THEN Nobody ELSE writer
  /\ raced' = raced \ written /\ torn' = torn \ written
  /\ UNCHANGED <<files, clock, deaths, deleted>>

LEMMA CommitIs == \A p : Commit(p) => Committed(p)
BY DEF Commit, Committed, After, Next1

LEMMA StagedForIs ==
  ASSUME NEW p, NEW f \in StagedAt(p)
  PROVE  StagedFor(p, f) \in proc[p].staged /\ StagedFor(p, f)[1] = f
BY DEF StagedFor, StagedAt

LEMMA CommitType ==
  ASSUME TypeOK, NEW p \in Procs, Commit(p)
  PROVE  TypeOK'
<1>1. Committed(p)
  BY CommitIs
<1>2. proc' \in [Procs -> Proc]
  BY <1>1, AfterType, BecomeType, AfterCommitType DEF Committed
<1>3. ASSUME NEW f \in StagedAt(p)
      PROVE  /\ StagedFor(p, f)[2] \in Files
             /\ [note |-> StagedFor(p, f)[2].note, status |-> StagedFor(p, f)[2].status,
                 mtime |-> StagedFor(p, f)[3]] \in Rows
  <2>1. StagedFor(p, f) \in Paths \X Files \X (0..MaxWrites)
    BY StagedForIs DEF TypeOK, Proc
  <2> QED
    BY <2>1 DEF Files, Rows
<1>4. rows' \in [Paths -> Rows \cup {NoRow}]
  BY <1>1, <1>3 DEF Committed, TypeOK
<1>5. links' \in [Paths -> Paths \cup {Nobody}]
  BY <1>1, <1>3 DEF Committed, TypeOK, Files
<1>6. writer' \in Procs \cup {Nobody} /\ raced' \subseteq Paths /\ torn' \subseteq Paths
  BY <1>1 DEF Committed, TypeOK
<1> QED
  BY <1>1, <1>2, <1>4, <1>5, <1>6 DEF Committed, TypeOK

LEMMA InjectType ==
  ASSUME TypeOK, NEW p \in Procs, Inject(p)
  PROVE  proc' \in [Procs -> Proc]
<1> DEFINE shown == {f \in In("projects") : Indexed(f) /\ rows[f].status = "active"}
           local == [proc[p] EXCEPT !.pc = "shown", !.shown = shown]
<1>1. local \in Proc
  <2>1. shown \subseteq Paths
    BY DEF In
  <2>2. proc[p] \in Proc
    BY DEF TypeOK
  <2> HIDE DEF shown
  <2> QED
    BY <2>1, <2>2, PhaseNames, ShownFits
<1> HIDE DEF local
<1>2. Become(p, local)
  BY DEF Inject, local
<1> QED
  BY <1>1, <1>2, BecomeType

(* People.                                                                 *)
LEMMA EditType ==
  ASSUME TypeOK, Edit
  PROVE  TypeOK'
<1>1. PICK f \in Paths, status \in Status :
        /\ Present(f)
        /\ Rename(f, [files[f] EXCEPT !.status = status, !.by = Nobody])
        /\ proc' = Revive(f, status, proc)
  BY DEF Edit
<1>2. [files[f] EXCEPT !.status = status, !.by = Nobody] \in Files
  BY <1>1 DEF TypeOK, Present, Files
<1>3. clock' \in 0..MaxWrites /\ files' \in [Paths -> Files \cup {Absent}]
  BY <1>1, <1>2, RenameType
<1>4. proc' \in [Procs -> Proc]
  BY <1>1, RevivedType DEF TypeOK
<1> QED
  BY <1>3, <1>4 DEF Edit, TypeOK, Board

LEMMA DeleteType ==
  ASSUME TypeOK, Delete
  PROVE  TypeOK'
<1>1. PICK f \in Paths :
        /\ files' = [files EXCEPT ![f] = Absent]
        /\ deleted' = {g \in deleted \cup {f} : IsNamed(g)}
        /\ proc' = [p \in Procs |-> [proc[p] EXCEPT !.retired = @ \ {f}]]
  BY DEF Delete
<1>2. ASSUME NEW p \in Procs PROVE [proc[p] EXCEPT !.retired = @ \ {f}] \in Proc
  BY RetiredFits DEF TypeOK
<1>3. proc' \in [Procs -> Proc]
  BY <1>1, <1>2
<1> QED
  BY <1>1, <1>3 DEF Delete, TypeOK, Board

LEMMA DieType ==
  ASSUME TypeOK, NEW p \in Procs, Die(p)
  PROVE  TypeOK'
<1>1. proc' \in [Procs -> Proc]
  BY DoneType DEF Die
<1>2. deaths' \in 0..MaxDeaths
  BY ConstantsFit DEF Die, TypeOK
<1>3. writer' \in Procs \cup {Nobody}
  BY DEF Die, TypeOK
<1>4. torn' \subseteq Paths /\ links' \in [Paths -> Paths \cup {Nobody}]
  <2>1. CASE proc[p].pc = "links"
    BY <2>1 DEF Die, TypeOK, Proc
  <2>2. CASE proc[p].pc # "links"
    BY <2>2 DEF Die, TypeOK
  <2> QED
    BY <2>1, <2>2
<1> QED
  BY <1>1, <1>2, <1>3, <1>4 DEF Die, TypeOK


-----------------------------------------------------------------------------
(* What a step makes of each process, in terms of its fields.              *)

\* What another's step, or a person's, leaves of a process.
Left(l, m) ==
  /\ m.pc = l.pc /\ m.cmd = l.cmd /\ m.at = l.at /\ m.text = l.text /\ m.mtime = l.mtime
  /\ m.old = l.old /\ m.dirs = l.dirs /\ m.dir = l.dir /\ m.todo = l.todo /\ m.seen = l.seen
  /\ m.staged = l.staged /\ m.view = l.view /\ m.synced = l.synced /\ m.retired \subseteq l.retired
  /\ m.snapshot = l.snapshot \/ m.snapshot = "stale"

\* What a step that is no sync's leaves of what a sync keeps.
Outside(l, m) == m.staged = l.staged /\ m.view = l.view /\ m.retired \subseteq l.retired
\* A process that has just begun.
Fresh(m) ==
  m.staged = {} /\ (\A f \in Paths : m.view[f] = NoRow) /\ m.mtime = 0 /\ m.synced = FALSE

LEMMA IdleIs == Fresh(Idle) /\ Idle.pc = "idle" /\ Idle.retired = {} /\ Idle.text = Absent
BY DEF Fresh, Idle

LEMMA BecomeIs ==
  ASSUME TypeOK, NEW p \in Procs, NEW local, Become(p, local)
  PROVE  proc'[p] = local /\ \A q \in Procs \ {p} : Left(proc[q], proc'[q])
BY DEF Become, TypeOK, Left

LEMMA AfterCommitIs ==
  ASSUME TypeOK, NEW p \in Procs, NEW local, AfterCommit(p, local)
  PROVE  proc'[p] = local /\ \A q \in Procs \ {p} : Left(proc[q], proc'[q])
<1>1. ASSUME NEW l \in Proc PROVE Left(l, l) /\ Left(l, [l EXCEPT !.snapshot = "stale"])
  BY DEF Left, Proc
<1>2. \A q \in Procs \ {p} : proc'[q] \in {proc[q], [proc[q] EXCEPT !.snapshot = "stale"]}
  BY DEF AfterCommit
<1> QED
  BY <1>1, <1>2 DEF AfterCommit, TypeOK

LEMMA ReviveIs ==
  ASSUME NEW procs \in [Procs -> Proc], NEW f, NEW status, NEW q \in Procs
  PROVE  Left(procs[q], Revive(f, status, procs)[q])
         /\ Revive(f, status, procs)[q].retired \subseteq
              IF status = "active" THEN procs[q].retired \ {f} ELSE procs[q].retired
<1>1. ASSUME NEW l \in Proc
      PROVE  /\ Left(l, l) /\ Left(l, [l EXCEPT !.retired = @ \ {f}])
             /\ [l EXCEPT !.retired = @ \ {f}].retired = l.retired \ {f}
  BY DEF Left, Proc
<1> QED
  BY <1>1 DEF Revive

NewNote == [note |-> clock + 1, status |-> "active", by |-> Nobody, mtime |-> clock + 1]
Superseding(p) == [files[proc[p].old] EXCEPT !.status = "superseded", !.by = proc[p].at]

LEMMA WriteNoteIs ==
  ASSUME TypeOK, NEW p \in Procs, WriteNote(p)
  PROVE  LET l == proc[p]  m == proc'[p] IN
         /\ \A q \in Procs \ {p} : Left(proc[q], proc'[q])
         /\ m.pc = "stat" /\ m.at = l.at /\ m.old = l.old /\ m.text = NewNote /\ m.mtime = l.mtime
         /\ Outside(l, m) /\ \A q \in Procs : l.at \notin proc'[q].retired
<1> DEFINE f == proc[p].at
           local == [proc[p] EXCEPT !.pc = "stat", !.text = NewNote]
           procs == [proc EXCEPT ![p] = local]
<1>1. NewNote \in Files
  BY ConstantsFit DEF WriteNote, NewNote, Files, Times, Status, Rename, TypeOK
<1>2. proc[p] \in Proc
  BY DEF TypeOK
<1>3. local \in Proc
  BY <1>1, <1>2, PhaseNames DEF Proc
<1>4. /\ local.pc = "stat" /\ local.at = f /\ local.old = proc[p].old /\ local.text = NewNote
      /\ local.mtime = proc[p].mtime /\ Outside(proc[p], local)
  BY <1>2 DEF Proc, Outside
<1>5. procs \in [Procs -> Proc]
  <2> HIDE DEF local
  <2> QED
    BY <1>3 DEF TypeOK
<1>6. proc' = Revive(f, "active", procs)
  <2>1. procs = [proc EXCEPT ![p].pc = "stat", ![p].text = NewNote]
    BY DEF TypeOK
  <2> QED
    BY <2>1 DEF WriteNote, NewNote
<1>7. procs[p] = local /\ \A q \in Procs \ {p} : procs[q] = proc[q]
  BY DEF TypeOK
<1> HIDE DEF procs, local
<1> QED
  BY <1>4, <1>5, <1>6, <1>7, ReviveIs DEF Left, Outside

LEMMA StatNoteIs ==
  ASSUME TypeOK, NEW p \in Procs, StatNote(p)
  PROVE  LET l == proc[p]  m == proc'[p] IN
         /\ \A q \in Procs \ {p} : Left(proc[q], proc'[q])
         /\ m.pc = "row" /\ m.at = l.at /\ m.old = l.old /\ m.text = l.text
         /\ m.mtime = files[l.at].mtime /\ Outside(l, m)
<1> DEFINE local == [proc[p] EXCEPT !.pc = "row", !.mtime = files[proc[p].at].mtime]
<1>1. proc[p] \in Proc /\ Become(p, local)
  BY DEF TypeOK, StatNote
<1>2. /\ local.pc = "row" /\ local.at = proc[p].at /\ local.old = proc[p].old
      /\ local.text = proc[p].text
      /\ local.mtime = files[proc[p].at].mtime /\ Outside(proc[p], local)
  BY <1>1 DEF Proc, Outside
<1> HIDE DEF local
<1> QED
  BY <1>1, <1>2, BecomeIs

\* Everything but the phase stays.
Advances(l, m) ==
  m.at = l.at /\ m.old = l.old /\ m.text = l.text /\ m.mtime = l.mtime /\ m.cmd = l.cmd
  /\ m.dirs = l.dirs /\ m.synced = l.synced /\ Outside(l, m)

LEMMA AdvancesIs ==
  ASSUME NEW l \in Proc, NEW pc
  PROVE  [l EXCEPT !.pc = pc].pc = pc /\ Advances(l, [l EXCEPT !.pc = pc])
BY DEF Proc, Advances, Outside

LEMMA UpsertRowIs ==
  ASSUME TypeOK, NEW p \in Procs, UpsertRow(p)
  PROVE  /\ \A q \in Procs \ {p} : Left(proc[q], proc'[q])
         /\ proc'[p].pc = "links" /\ Advances(proc[p], proc'[p])
<1> DEFINE local == [proc[p] EXCEPT !.pc = "links"]
<1>1. proc[p] \in Proc /\ AfterCommit(p, local)
  BY DEF TypeOK, UpsertRow
<1>2. local.pc = "links" /\ Advances(proc[p], local)
  BY <1>1, AdvancesIs
<1> HIDE DEF local
<1> QED
  BY <1>1, <1>2, AfterCommitIs

LEMMA UpsertLinksIs ==
  ASSUME TypeOK, NEW p \in Procs, UpsertLinks(p)
  PROVE  /\ \A q \in Procs \ {p} : Left(proc[q], proc'[q])
         /\ \/ proc'[p] = Idle
            \/ /\ proc'[p].pc = "retire" /\ proc[p].old # Nobody /\ proc[p].text.by = Nobody
               /\ Advances(proc[p], proc'[p])
<1> DEFINE local == [proc[p] EXCEPT !.pc = "retire"]
<1>1. proc[p] \in Proc
  BY DEF TypeOK
<1>2. local.pc = "retire" /\ Advances(proc[p], local)
  BY <1>1, AdvancesIs
<1>3. Rest(p) = Idle \/ (Rest(p) = local /\ proc[p].old # Nobody /\ proc[p].text.by = Nobody)
  BY DEF Rest
<1>4. Become(p, Idle) \/ AfterCommit(p, Rest(p))
  BY DEF UpsertLinks, Done
<1> HIDE DEF local
<1> QED
  BY <1>2, <1>3, <1>4, BecomeIs, AfterCommitIs

LEMMA ReadOldIs ==
  ASSUME TypeOK, NEW p \in Procs, ReadOld(p)
  PROVE  LET l == proc[p]  m == proc'[p] IN
         /\ \A q \in Procs \ {p} : Left(proc[q], proc'[q])
         /\ \/ m = Idle
            \/ /\ m.pc = "rewrite" /\ m.at = l.old /\ m.old = l.old /\ m.text = Superseding(p)
               /\ Present(l.old) /\ m.mtime = l.mtime /\ Outside(l, m)
<1> DEFINE local == [proc[p] EXCEPT !.pc = "rewrite", !.at = proc[p].old, !.text = Superseding(p)]
<1>1. proc[p] \in Proc
  BY DEF TypeOK
<1>2. /\ local.pc = "rewrite" /\ local.at = proc[p].old /\ local.old = proc[p].old
      /\ local.text = Superseding(p) /\ local.mtime = proc[p].mtime /\ Outside(proc[p], local)
  BY <1>1 DEF Proc, Outside
<1>3. Become(p, Idle) \/ (Become(p, local) /\ Present(proc[p].old))
  BY DEF ReadOld, Done, Superseding
<1> HIDE DEF local
<1> QED
  BY <1>2, <1>3, BecomeIs

LEMMA RewriteOldIs ==
  ASSUME TypeOK, NEW p \in Procs, RewriteOld(p)
  PROVE  LET l == proc[p]  m == proc'[p] IN
         /\ \A q \in Procs \ {p} : Left(proc[q], proc'[q])
         /\ m.pc = "stat" /\ m.at = l.at /\ m.old = l.old /\ m.mtime = l.mtime
         /\ m.text = [l.text EXCEPT !.mtime = clock + 1] /\ Outside(l, m)
<1> DEFINE text == [proc[p].text EXCEPT !.mtime = clock + 1]
           local == [proc[p] EXCEPT !.pc = "stat", !.text = text]
<1>1. proc[p] \in Proc
  BY DEF TypeOK
<1>2. Become(p, local)
  BY <1>1 DEF RewriteOld, Proc
<1>3. /\ local.pc = "stat" /\ local.at = proc[p].at /\ local.old = proc[p].old
      /\ local.text = text /\ local.mtime = proc[p].mtime /\ Outside(proc[p], local)
  <2> HIDE DEF text
  <2> QED
    BY <1>1 DEF Proc, Outside
<1> HIDE DEF local
<1> QED
  BY <1>2, <1>3, BecomeIs

LEMMA BeginIs ==
  ASSUME TypeOK, NEW p \in Procs, Observe(p) \/ BeginSync(p)
  PROVE  LET m == proc'[p] IN
         /\ \A q \in Procs \ {p} : Left(proc[q], proc'[q])
         /\ Fresh(m)
         /\ \/ m.pc = "write" /\ m.retired = {}
            \/ m.pc = "list" /\ m.cmd = "session" /\ m.retired = Retired /\ m.dirs = {"projects"}
            \/ m.pc = "list" /\ m.retired = {}
<1>1. CASE Observe(p)
  <2>1. PICK old, at : Become(p, [Idle EXCEPT !.pc = "write", !.old = old, !.at = at])
    BY <1>1 DEF Observe
  <2> DEFINE local == [Idle EXCEPT !.pc = "write", !.old = old, !.at = at]
  <2>2. local.pc = "write" /\ local.retired = {} /\ Fresh(local)
    BY DEF Idle, Fresh
  <2> HIDE DEF local
  <2>3. Become(p, local)
    BY <2>1 DEF local
  <2> QED
    BY <2>2, <2>3, BecomeIs
<1>2. CASE BeginSync(p)
  <2>1. PICK cmd \in {"session", "index"} :
          Become(p, [Idle EXCEPT !.pc = "list", !.cmd = cmd,
                       !.retired = IF cmd = "session" THEN Retired ELSE {},
                       !.dirs = IF cmd = "session" THEN {"projects"} ELSE Dirs])
    BY <1>2 DEF BeginSync
  <2> DEFINE local == [Idle EXCEPT !.pc = "list", !.cmd = cmd,
                         !.retired = IF cmd = "session" THEN Retired ELSE {},
                         !.dirs = IF cmd = "session" THEN {"projects"} ELSE Dirs]
  <2>2. /\ local.pc = "list" /\ local.cmd = cmd /\ Fresh(local)
        /\ cmd = "session" => local.retired = Retired /\ local.dirs = {"projects"}
        /\ cmd # "session" => local.retired = {}
    BY DEF Idle, Fresh
  <2> HIDE DEF local
  <2>3. Become(p, local)
    BY <2>1 DEF local
  <2> QED
    BY <2>2, <2>3, BecomeIs
<1> QED
  BY <1>1, <1>2

LEMMA ListFilesIs ==
  ASSUME TypeOK, NEW p \in Procs, ListFiles(p)
  PROVE  LET l == proc[p]  m == proc'[p] IN
         /\ \A q \in Procs \ {p} : Left(proc[q], proc'[q])
         /\ \/ m.pc = "inject" /\ Advances(l, m)
            \/ /\ m.pc = "scan" /\ Outside(l, m) /\ m.mtime = l.mtime /\ m.cmd = l.cmd
               /\ \E d \in l.dirs :
                    /\ m.dir = d /\ m.dirs = l.dirs \ {d}
                    /\ m.todo = {f \in In(d) : Present(f)} /\ m.seen = m.todo
<1>0. PICK d \in proc[p].dirs :
        \/ Goto(p, "inject")
        \/ LET listed == {f \in In(d) : Present(f)} IN
           Become(p, [proc[p] EXCEPT !.pc = "scan", !.dir = d, !.dirs = @ \ {d},
                        !.todo = listed, !.seen = listed])
  BY DEF ListFiles
<1> DEFINE listed == {f \in In(d) : Present(f)}
           gone == [proc[p] EXCEPT !.pc = "inject"]
           local == [proc[p] EXCEPT !.pc = "scan", !.dir = d, !.dirs = @ \ {d},
                       !.todo = listed, !.seen = listed]
<1>1. proc[p] \in Proc
  BY DEF TypeOK
<1>2. gone.pc = "inject" /\ Advances(proc[p], gone)
  BY <1>1, AdvancesIs
<1>3. /\ local.pc = "scan" /\ Outside(proc[p], local) /\ local.mtime = proc[p].mtime
      /\ local.cmd = proc[p].cmd /\ local.dir = d /\ local.dirs = proc[p].dirs \ {d}
      /\ local.todo = listed /\ local.seen = listed
  <2> HIDE DEF listed
  <2> QED
    BY <1>1 DEF Proc, Outside
<1>4. Become(p, gone) \/ Become(p, local)
  BY <1>0 DEF Goto
<1> HIDE DEF gone, local
<1> QED
  BY <1>2, <1>3, <1>4, BecomeIs

\* What a probe of f leaves of the snapshot.
Probed(p, f) == [View(p) EXCEPT ![f] = NoRow]

LEMMA ProbeIs ==
  ASSUME TypeOK, NEW p \in Procs, Probe(p)
  PROVE  LET l == proc[p]  m == proc'[p] IN
         /\ \A q \in Procs \ {p} : Left(proc[q], proc'[q])
         /\ m.staged = l.staged /\ m.retired = l.retired /\ m.cmd = l.cmd
         /\ m.dir = l.dir /\ m.dirs = l.dirs /\ m.seen = l.seen
         /\ \E f \in l.todo :
              /\ m.view = Probed(p, f) /\ m.todo = l.todo \ {f}
              /\ \/ /\ m.pc = "scan" /\ m.mtime = l.mtime
                    /\ View(p)[f] # NoRow /\ View(p)[f].mtime = files[f].mtime
                 \/ m.pc = "read" /\ m.at = f /\ m.mtime = files[f].mtime
<1> DEFINE Looked(f) == [Pinned(p) EXCEPT !.todo = @ \ {f}, !.view[f] = NoRow]
           Missed(f) == [Looked(f) EXCEPT !.pc = "read", !.at = f, !.mtime = files[f].mtime]
<1>1. proc[p].pc = "scan" /\ proc[p] \in Proc
  BY DEF Probe, TypeOK
<1>2. PICK f \in proc[p].todo :
        \/ /\ Become(p, Looked(f)) /\ View(p)[f] # NoRow /\ View(p)[f].mtime = files[f].mtime
        \/ Become(p, Missed(f))
  BY DEF Probe
<1>3. /\ Pinned(p).view = View(p) /\ Pinned(p).staged = proc[p].staged /\ Pinned(p).pc = "scan"
      /\ Pinned(p).retired = proc[p].retired /\ Pinned(p).cmd = proc[p].cmd
      /\ Pinned(p).mtime = proc[p].mtime /\ Pinned(p).todo = proc[p].todo
      /\ Pinned(p).dir = proc[p].dir /\ Pinned(p).dirs = proc[p].dirs
      /\ Pinned(p).seen = proc[p].seen
  BY <1>1 DEF Pinned, Proc
<1>4. Pinned(p) \in Proc
  BY <1>1, ViewType, UpdatesFit DEF Pinned
<1>5. ASSUME NEW l \in Proc
      PROVE  LET m == [l EXCEPT !.todo = @ \ {f}, !.view[f] = NoRow] IN
             /\ m.view = [l.view EXCEPT ![f] = NoRow] /\ m.todo = l.todo \ {f}
             /\ m.staged = l.staged /\ m.pc = l.pc /\ m.retired = l.retired /\ m.cmd = l.cmd
             /\ m.mtime = l.mtime /\ m.dir = l.dir /\ m.dirs = l.dirs /\ m.seen = l.seen
             /\ m \in Proc
  <2>1. f \in Paths
    BY <1>1 DEF Proc
  <2> QED
    BY <2>1 DEF Proc
<1>6. ASSUME NEW l \in Proc, NEW mtime
      PROVE  LET m == [l EXCEPT !.pc = "read", !.at = f, !.mtime = mtime] IN
             /\ m.view = l.view /\ m.todo = l.todo
             /\ m.staged = l.staged /\ m.retired = l.retired /\ m.cmd = l.cmd
             /\ m.dir = l.dir /\ m.dirs = l.dirs /\ m.seen = l.seen
             /\ m.pc = "read" /\ m.at = f /\ m.mtime = mtime
  BY DEF Proc
<1> DEFINE looked == Looked(f)  missed == Missed(f)
<1>7. /\ looked.view = Probed(p, f) /\ looked.todo = proc[p].todo \ {f}
      /\ looked.staged = proc[p].staged /\ looked.pc = "scan" /\ looked.retired = proc[p].retired
      /\ looked.cmd = proc[p].cmd /\ looked.mtime = proc[p].mtime /\ looked.dir = proc[p].dir
      /\ looked.dirs = proc[p].dirs /\ looked.seen = proc[p].seen /\ looked \in Proc
  BY <1>3, <1>4, <1>5 DEF Probed
<1>8. /\ missed.view = looked.view /\ missed.todo = looked.todo
      /\ missed.staged = looked.staged /\ missed.retired = looked.retired
      /\ missed.cmd = looked.cmd /\ missed.dir = looked.dir /\ missed.dirs = looked.dirs
      /\ missed.seen = looked.seen /\ missed.pc = "read" /\ missed.at = f
      /\ missed.mtime = files[f].mtime
  <2> HIDE DEF Looked
  <2> QED
    BY <1>6, <1>7
<1>9. \/ /\ Become(p, looked) /\ View(p)[f] # NoRow /\ View(p)[f].mtime = files[f].mtime
      \/ Become(p, missed)
  BY <1>2
<1> HIDE DEF looked, missed, Looked, Missed
<1> QED
  BY <1>7, <1>8, <1>9, BecomeIs

LEMMA ReadAndStageIs ==
  ASSUME TypeOK, NEW p \in Procs, ReadAndStage(p)
  PROVE  LET l == proc[p]  m == proc'[p] IN
         /\ \A q \in Procs \ {p} : Left(proc[q], proc'[q])
         /\ m.pc = "scan" /\ m.view = l.view /\ m.retired = l.retired /\ m.cmd = l.cmd
         /\ m.dir = l.dir /\ m.dirs = l.dirs /\ m.seen = l.seen /\ m.todo = l.todo
         /\ m.mtime = 0
         /\ \/ /\ Present(l.at) /\ writer \in {Nobody, p} /\ writer' = p
               /\ m.staged = l.staged \cup {<<l.at, files[l.at], l.mtime>>}
            \/ ~Present(l.at) /\ m.staged = l.staged /\ writer' = writer
<1> DEFINE f == proc[p].at
           s == <<f, files[f], proc[p].mtime>>
           local == [Scan(p) EXCEPT !.staged = @ \cup {s}]
           scan == Scan(p)
<1>1. proc[p] \in Proc /\ scan \in Proc
  BY ScanType DEF TypeOK
<1>2. /\ scan.pc = "scan" /\ scan.view = proc[p].view /\ scan.retired = proc[p].retired
      /\ scan.cmd = proc[p].cmd /\ scan.dir = proc[p].dir /\ scan.dirs = proc[p].dirs
      /\ scan.seen = proc[p].seen /\ scan.todo = proc[p].todo /\ scan.mtime = 0
      /\ scan.staged = proc[p].staged
  BY <1>1 DEF Scan, Proc
<1>3. /\ local.pc = scan.pc /\ local.view = scan.view /\ local.retired = scan.retired
      /\ local.cmd = scan.cmd /\ local.dir = scan.dir /\ local.dirs = scan.dirs
      /\ local.seen = scan.seen /\ local.todo = scan.todo /\ local.mtime = scan.mtime
      /\ local.staged = scan.staged \cup {s}
  <2> HIDE DEF s
  <2> QED
    BY <1>1 DEF Proc
<1>4. \/ Present(f) /\ writer \in {Nobody, p} /\ writer' = p /\ Become(p, local)
      \/ ~Present(f) /\ writer' = writer /\ Become(p, scan)
  BY DEF ReadAndStage
<1> HIDE DEF local, scan
<1> QED
  BY <1>2, <1>3, <1>4, BecomeIs

LEMMA CommitLeaves ==
  ASSUME TypeOK, NEW p \in Procs, Commit(p)
  PROVE  LET l == proc[p]  m == proc'[p] IN
         /\ \A q \in Procs \ {p} : Left(proc[q], proc'[q])
         /\ m.staged = {} /\ (\A f \in Paths : m.view[f] = NoRow) /\ m.mtime = 0
         /\ m.old = Nobody /\ m.text = Absent
         /\ \/ m = Idle
            \/ /\ m.retired = l.retired /\ m.cmd = l.cmd /\ m.dirs = l.dirs
               /\ m.pc = IF l.dirs = {} THEN "inject" ELSE "list"
<1> DEFINE after == After(p)
<1>1. Become(p, after) \/ AfterCommit(p, after)
  BY CommitIs DEF Committed
<1>2. /\ after.staged = {} /\ (\A f \in Paths : after.view[f] = NoRow) /\ after.mtime = 0
      /\ after.old = Nobody /\ after.text = Absent
      /\ \/ after = Idle
         \/ /\ after.retired = proc[p].retired /\ after.cmd = proc[p].cmd
            /\ after.dirs = proc[p].dirs
            /\ after.pc = IF proc[p].dirs = {} THEN "inject" ELSE "list"
  BY DEF After, Next1, Idle
<1> HIDE DEF after
<1> QED
  BY <1>1, <1>2, BecomeIs, AfterCommitIs

LEMMA EndIs ==
  ASSUME TypeOK, NEW p \in Procs, Fail(p) \/ Shown(p) \/ Die(p)
  PROVE  proc'[p] = Idle /\ \A q \in Procs \ {p} : Left(proc[q], proc'[q])
BY BecomeIs DEF Fail, Shown, Die, Done

LEMMA InjectIs ==
  ASSUME TypeOK, NEW p \in Procs, Inject(p)
  PROVE  /\ \A q \in Procs \ {p} : Left(proc[q], proc'[q])
         /\ proc[p].pc = "inject" /\ proc'[p].pc = "shown" /\ Advances(proc[p], proc'[p])
         /\ proc'[p].shown =
              {f \in In("projects") : Indexed(f) /\ rows[f].status = "active"}
<1> DEFINE shown == {f \in In("projects") : Indexed(f) /\ rows[f].status = "active"}
           local == [proc[p] EXCEPT !.pc = "shown", !.shown = shown]
<1>1. proc[p] \in Proc /\ proc[p].pc = "inject" /\ Become(p, local)
  BY DEF TypeOK, Inject
<1>2. local.pc = "shown" /\ Advances(proc[p], local) /\ local.shown = shown
  <2> HIDE DEF shown
  <2> QED
    BY <1>1 DEF Proc, Advances, Outside
<1> HIDE DEF local
<1> QED
  BY <1>1, <1>2, BecomeIs

LEMMA EditIs ==
  ASSUME TypeOK, Edit
  PROVE  \E f \in Paths, status \in Status :
           /\ Present(f) /\ clock' = clock + 1 /\ clock' \in Times
           /\ files' = [files EXCEPT ![f] =
                          [[files[f] EXCEPT !.status = status, !.by = Nobody]
                             EXCEPT !.mtime = clock + 1]]
           /\ \A q \in Procs :
                /\ Left(proc[q], proc'[q])
                /\ status = "active" => f \notin proc'[q].retired
<1>1. PICK f \in Paths, status \in Status :
        /\ Present(f)
        /\ Rename(f, [files[f] EXCEPT !.status = status, !.by = Nobody])
        /\ proc' = Revive(f, status, proc)
  BY DEF Edit
<1>2. clock' = clock + 1 /\ clock' \in Times
  BY <1>1, ConstantsFit DEF Rename, TypeOK, Times
<1>3. ASSUME NEW q \in Procs
      PROVE  Left(proc[q], proc'[q]) /\ (status = "active" => f \notin proc'[q].retired)
  <2>1. proc \in [Procs -> Proc]
    BY DEF TypeOK
  <2> QED
    BY <1>1, <2>1, ReviveIs
<1> QED
  BY <1>1, <1>2, <1>3 DEF Rename

LEMMA DeleteIs ==
  ASSUME TypeOK, Delete
  PROVE  \E f \in Paths :
           /\ files' = [files EXCEPT ![f] = Absent]
           /\ deleted' = {g \in deleted \cup {f} : IsNamed(g)}
           /\ \A q \in Procs : Left(proc[q], proc'[q]) /\ f \notin proc'[q].retired
<1>1. PICK f \in Paths :
        /\ files' = [files EXCEPT ![f] = Absent]
        /\ deleted' = {g \in deleted \cup {f} : IsNamed(g)}
        /\ proc' = [p \in Procs |-> [proc[p] EXCEPT !.retired = @ \ {f}]]
  BY DEF Delete
<1>2. ASSUME NEW l \in Proc
      PROVE  /\ Left(l, [l EXCEPT !.retired = @ \ {f}])
             /\ [l EXCEPT !.retired = @ \ {f}].retired = l.retired \ {f}
  BY DEF Left, Proc
<1>3. ASSUME NEW q \in Procs
      PROVE  Left(proc[q], proc'[q]) /\ f \notin proc'[q].retired
  BY <1>1, <1>2 DEF TypeOK
<1> QED
  BY <1>1, <1>3

-----------------------------------------------------------------------------
(* Type correctness: a writer that has written knows what, and a command    *)
(* that retires knows which note.                                           *)
Sane(l) ==
  /\ l.pc \in {"stat", "row", "links", "rewrite"} => l.text \in Files
  /\ l.pc \in {"retire", "rewrite"} => l.old # Nobody
Typed == TypeOK /\ \A p \in Procs : Sane(proc[p])

LEMMA LeftSane == \A l, m : Sane(l) /\ Left(l, m) => Sane(m)
BY DEF Sane, Left

LEMMA OthersStaySane ==
  ASSUME Typed, NEW p \in Procs, \A q \in Procs \ {p} : Left(proc[q], proc'[q]), Sane(proc'[p])
  PROVE  \A q \in Procs : Sane(proc'[q])
BY LeftSane DEF Typed

LEMMA StepTyped ==
  ASSUME Typed, NEW p \in Procs, Step(p)
  PROVE  TypeOK' /\ \A q \in Procs : Sane(proc'[q])
<1>1. TypeOK /\ Sane(proc[p])
  BY DEF Typed
<1>2. CASE WriteNote(p)
  <2>1. NewNote \in Files
    BY <1>1, <1>2, ConstantsFit DEF WriteNote, NewNote, Files, Times, Status, Rename, TypeOK
  <2> QED
    BY <1>1, <1>2, <2>1, WriteNoteType, WriteNoteIs, OthersStaySane DEF Sane
<1>3. CASE StatNote(p)
  <2>1. TypeOK'
    BY <1>1, <1>3, StatNoteType DEF StatNote, TypeOK, Board
  <2> QED
    BY <1>1, <1>3, <2>1, StatNoteIs, OthersStaySane DEF Sane, StatNote
<1>4. CASE UpsertRow(p)
  <2>1. proc[p].text \in Files
    BY <1>1, <1>4 DEF Sane, UpsertRow
  <2> QED
    BY <1>1, <1>4, <2>1, UpsertRowType, UpsertRowIs, OthersStaySane DEF Sane, Advances
<1>5. CASE UpsertLinks(p)
  BY <1>1, <1>5, UpsertLinksType, UpsertLinksIs, IdleIs, OthersStaySane DEF Sane, Advances
<1>6. CASE ReadOld(p)
  <2>1. proc[p].old # Nobody
    BY <1>1, <1>6 DEF Sane, ReadOld
  <2>2. TypeOK'
    BY <1>1, <1>6, <2>1, ReadOldType DEF ReadOld, TypeOK, Board
  <2>3. Present(proc[p].old) => Superseding(p) \in Files
    <3>1. SUFFICES ASSUME Present(proc[p].old) PROVE Superseding(p) \in Files
      OBVIOUS
    <3>2. files[proc[p].old] \in Files /\ proc[p].at \in Paths
      BY <1>1, <2>1, <3>1 DEF TypeOK, Proc, Present
    <3> QED
      BY <3>2 DEF Superseding, Files, Status
  <2> QED
    BY <1>1, <1>6, <2>1, <2>2, <2>3, ReadOldIs, IdleIs, OthersStaySane DEF Sane
<1>7. CASE RewriteOld(p)
  <2>1. proc[p].text \in Files
    BY <1>1, <1>7 DEF Sane, RewriteOld
  <2>2. [proc[p].text EXCEPT !.mtime = clock + 1] \in Files
    BY <1>1, <1>7, <2>1, ConstantsFit DEF RewriteOld, Rename, Files, Times, TypeOK
  <2> QED
    BY <1>1, <1>7, <2>1, <2>2, RewriteOldType, RewriteOldIs, OthersStaySane DEF Sane
<1>8. CASE ListFiles(p)
  <2>1. TypeOK'
    BY <1>1, <1>8, ListFilesType DEF ListFiles, TypeOK, Board
  <2> QED
    BY <1>1, <1>8, <2>1, ListFilesIs, OthersStaySane DEF Sane
<1>9. CASE Probe(p)
  <2>1. TypeOK'
    BY <1>1, <1>9, ProbeType DEF Probe, TypeOK, Board
  <2> QED
    BY <1>1, <1>9, <2>1, ProbeIs, OthersStaySane DEF Sane
<1>10. CASE ReadAndStage(p)
  <2>1. TypeOK'
    BY <1>1, <1>10, ReadAndStageType DEF ReadAndStage, TypeOK, Board
  <2> QED
    BY <1>1, <1>10, <2>1, ReadAndStageIs, OthersStaySane DEF Sane
<1>11. CASE Commit(p)
  BY <1>1, <1>11, CommitType, CommitLeaves, IdleIs, OthersStaySane DEF Sane
<1>12. CASE Fail(p) \/ Shown(p)
  <2>1. TypeOK'
    BY <1>1, <1>12, DoneType DEF Fail, Shown, TypeOK, Board
  <2> QED
    BY <1>1, <1>12, <2>1, EndIs, IdleIs, OthersStaySane DEF Sane
<1>13. CASE Inject(p)
  <2>1. TypeOK'
    BY <1>1, <1>13, InjectType DEF Inject, TypeOK, Board
  <2> QED
    BY <1>1, <1>13, <2>1, InjectIs, OthersStaySane DEF Sane
<1> QED
  BY <1>2, <1>3, <1>4, <1>5, <1>6, <1>7, <1>8, <1>9, <1>10, <1>11, <1>12, <1>13 DEF Step

LEMMA TypedStep ==
  ASSUME Typed, [Next]_vars
  PROVE  Typed'
<1>1. CASE \E p \in Procs : Step(p)
  BY <1>1, StepTyped DEF Typed
<1>2. ASSUME NEW p \in Procs, Observe(p) \/ BeginSync(p) PROVE Typed'
  <2>1. TypeOK'
    BY <1>2, ObserveType, BeginSyncType DEF Typed, Observe, BeginSync, TypeOK, Board
  <2> QED
    BY <1>2, <2>1, BeginIs, OthersStaySane DEF Typed, Sane
<1>3. ASSUME NEW p \in Procs, Die(p) PROVE Typed'
  BY <1>3, DieType, EndIs, IdleIs, OthersStaySane DEF Typed, Sane
<1>4. CASE Edit
  BY <1>4, EditType, EditIs, LeftSane DEF Typed
<1>5. CASE Delete
  BY <1>5, DeleteType, DeleteIs, LeftSane DEF Typed
<1>6. CASE UNCHANGED vars
  BY <1>6 DEF vars, Board, Typed, TypeOK
<1> QED
  BY <1>1, <1>2, <1>3, <1>4, <1>5, <1>6 DEF Next

LEMMA InitTyped == Init => Typed
<1> SUFFICES ASSUME Init PROVE Typed
  OBVIOUS
<1>1. \A p \in Procs : proc[p] = Idle
  BY DEF Init
<1>2. proc \in [Procs -> Proc]
  BY IdleType DEF Init
<1>3. \A p \in Procs : Sane(proc[p])
  BY <1>1, IdleIs DEF Sane
<1>4. clock \in 0..MaxWrites /\ deaths \in 0..MaxDeaths
  BY ConstantsFit DEF Init
<1> QED
  BY <1>2, <1>3, <1>4 DEF Init, Typed, TypeOK

(* Every state keeps its shape: in particular free_slug never names a note   *)
(* past the last suffix, whatever the vault holds.                           *)
THEOREM VaultTypeCorrect == Spec => []TypeOK
<1>1. Spec => []Typed
  BY InitTyped, TypedStep, PTL DEF Spec
<1>2. Typed => TypeOK
  BY DEF Typed
<1> QED
  BY <1>1, <1>2, PTL

-----------------------------------------------------------------------------
(* What becomes of the files: one is written, and is newer than everything,  *)
(* or one goes, or none changes.                                             *)
Writes(f, file) ==
  /\ f \in Paths /\ file \in Files /\ file.mtime = clock + 1
  /\ clock' = clock + 1 /\ files' = [files EXCEPT ![f] = file]

LEMMA WriteNoteWrites ==
  ASSUME Typed, NEW p \in Procs, WriteNote(p)
  PROVE  Writes(proc[p].at, NewNote)
<1>1. proc[p].at \in Paths /\ Rename(proc[p].at, NewNote)
  BY DEF Typed, TypeOK, Proc, WriteNote, NewNote
<1>2. NewNote \in Files
  BY <1>1, ConstantsFit DEF NewNote, Files, Times, Status, Rename, Typed, TypeOK
<1>3. [NewNote EXCEPT !.mtime = clock + 1] = NewNote
  BY DEF NewNote
<1> QED
  BY <1>1, <1>2, <1>3 DEF Writes, Rename, NewNote

LEMMA RewriteOldWrites ==
  ASSUME Typed, NEW p \in Procs, RewriteOld(p)
  PROVE  LET file == [proc[p].text EXCEPT !.mtime = clock + 1]
         IN /\ Writes(proc[p].at, file)
            /\ file.by = proc[p].text.by /\ file.status = proc[p].text.status
<1>1. proc[p].at \in Paths /\ Rename(proc[p].at, proc[p].text) /\ proc[p].text \in Files
  BY DEF Typed, TypeOK, Proc, RewriteOld, Sane
<1>2. [proc[p].text EXCEPT !.mtime = clock + 1] \in Files
  BY <1>1, ConstantsFit DEF Files, Times, Rename, Typed, TypeOK
<1> QED
  BY <1>1, <1>2 DEF Writes, Rename, Files

LEMMA EditWrites ==
  ASSUME Typed, Edit
  PROVE  \E f \in Paths, file \in Files :
           /\ Present(f) /\ Writes(f, file) /\ file.by = Nobody
           /\ \A q \in Procs :
                /\ Left(proc[q], proc'[q])
                /\ file.status = "active" => f \notin proc'[q].retired
<1>0. TypeOK
  BY DEF Typed
<1>1. PICK f \in Paths, status \in Status :
        /\ Present(f) /\ clock' = clock + 1 /\ clock' \in Times
        /\ files' = [files EXCEPT ![f] =
                       [[files[f] EXCEPT !.status = status, !.by = Nobody]
                          EXCEPT !.mtime = clock + 1]]
        /\ \A q \in Procs :
             /\ Left(proc[q], proc'[q])
             /\ status = "active" => f \notin proc'[q].retired
  BY <1>0, EditIs
<1> DEFINE file == [[files[f] EXCEPT !.status = status, !.by = Nobody]
                       EXCEPT !.mtime = clock + 1]
<1>2. files[f] \in Files
  BY <1>0, <1>1 DEF TypeOK, Present
<1>3. /\ file \in Files /\ file.by = Nobody /\ file.status = status /\ file.mtime = clock + 1
  BY <1>1, <1>2 DEF Files
<1> QED
  BY <1>1, <1>3 DEF Writes

\* The steps that leave the vault alone.
Reads(p) ==
  StatNote(p) \/ UpsertRow(p) \/ UpsertLinks(p) \/ ReadOld(p) \/ ListFiles(p) \/ Probe(p)
  \/ ReadAndStage(p) \/ Commit(p) \/ Fail(p) \/ Inject(p) \/ Shown(p)
  \/ Observe(p) \/ BeginSync(p) \/ Die(p)

LEMMA ReadsLeaveFiles ==
  ASSUME NEW p \in Procs, Reads(p)
  PROVE  UNCHANGED <<files, clock, deleted>>
BY DEF Reads, StatNote, UpsertRow, UpsertLinks, ReadOld, ListFiles, Probe, ReadAndStage, Commit,
       Fail, Inject, Shown, Observe, BeginSync, Die

LEMMA StepsAre ==
  ASSUME [Next]_vars
  PROVE  \/ \E p \in Procs : WriteNote(p) \/ RewriteOld(p) \/ Reads(p)
         \/ Edit \/ Delete \/ UNCHANGED vars
BY DEF Next, Step, Reads

LEMMA WritesAdd ==
  ASSUME TypeOK, NEW f, NEW file, Writes(f, file)
  PROVE  /\ \A g \in Paths : Present(g) => Present(g)'
         /\ Present(f)' /\ files'[f] = file /\ \A g \in Paths \ {f} : files'[g] = files[g]
BY AbsentIsNoFile DEF TypeOK, Writes, Present

-----------------------------------------------------------------------------
(* Successors: the note that a command is about to name is there by the     *)
(* time it can name it.                                                     *)
Names(l, g) ==
  \/ l.pc \in {"stat", "row", "links"} /\ l.old # Nobody /\ l.text.by = Nobody /\ g = l.at
  \/ l.pc = "retire" /\ g = l.at
  \/ l.pc = "rewrite" /\ g = l.text.by
Kept(g) == Present(g) \/ g \in deleted

NamesKept == \A p \in Procs, g \in Paths : Names(proc[p], g) => Kept(g)
NotesSucceed == Typed /\ NamesKept /\ SuccessorsExist

LEMMA LeftNames == \A l, m, g : Left(l, m) /\ Names(m, g) => Names(l, g)
BY DEF Left, Names

LEMMA NamedIsNamed ==
  ASSUME Typed, NEW p \in Procs, NEW g, Names(proc[p], g)
  PROVE  IsNamed(g)
BY DEF Typed, Sane, Names, IsNamed

\* What is named, and what names it, after a step of p that deletes nothing.
LEMMA KeptAfter ==
  ASSUME NotesSucceed, NEW p \in Procs,
         \A g \in Paths : Present(g) => Present(g)', UNCHANGED deleted,
         \A q \in Procs \ {p} : Left(proc[q], proc'[q]),
         \A g \in Paths : Names(proc'[p], g) => Names(proc[p], g) \/ Kept(g)'
  PROVE  NamesKept' /\ \A g \in Paths : Kept(g) => Kept(g)'
<1>1. \A g \in Paths : Kept(g) => Kept(g)'
  BY DEF Kept
<1>2. ASSUME NEW q \in Procs, NEW g \in Paths, Names(proc'[q], g) PROVE Kept(g)'
  <2>1. CASE q = p
    BY <1>1, <1>2, <2>1 DEF NotesSucceed, NamesKept
  <2>2. CASE q # p
    BY <1>1, <1>2, <2>2, LeftNames DEF NotesSucceed, NamesKept
  <2> QED
    BY <2>1, <2>2
<1> QED
  BY <1>1, <1>2 DEF NamesKept

LEMMA SuccessorsLast ==
  ASSUME NotesSucceed,
         \A g \in Paths : files'[g].by # Nobody =>
           files'[g].by \in Paths /\ \E by \in Paths : files'[g].by = by /\ Kept(by)'
  PROVE  SuccessorsExist'
BY DEF SuccessorsExist, Kept, Present

LEMMA SuccessorsWritten ==
  ASSUME NotesSucceed, NEW f, NEW file, Writes(f, file),
         \A g \in Paths : Kept(g) => Kept(g)',
         file.by # Nobody => Kept(file.by)
  PROVE  SuccessorsExist'
<1>1. SUFFICES ASSUME NEW g \in Paths, NEW by, by = files'[g].by, by # Nobody
               PROVE  by \in Paths /\ Kept(by)'
  BY SuccessorsLast
<1>2. \A h \in Paths \ {f} : files'[h] = files[h]
  BY DEF Writes, NotesSucceed, Typed, TypeOK
<1>3. files'[f] = file /\ file \in Files
  BY DEF Writes, NotesSucceed, Typed, TypeOK
<1>4. CASE g = f
  <2>1. by \in Paths /\ Kept(by)
    BY <1>1, <1>3, <1>4 DEF Files
  <2> QED
    BY <2>1
<1>5. CASE g # f
  <2>1. by \in Paths /\ Kept(by)
    BY <1>1, <1>2, <1>5, AbsentIsNoFile
    DEF NotesSucceed, Typed, TypeOK, SuccessorsExist, Kept, Files
  <2> QED
    BY <2>1
<1> QED
  BY <1>4, <1>5

LEMMA ReadsKeepNames ==
  ASSUME NotesSucceed, NEW p \in Procs, Reads(p)
  PROVE  NamesKept' /\ SuccessorsExist'
<1>0. TypeOK /\ UNCHANGED <<files, deleted>>
  BY ReadsLeaveFiles DEF NotesSucceed, Typed
<1>1. \A q \in Procs \ {p} : Left(proc[q], proc'[q])
  BY <1>0, StatNoteIs, UpsertRowIs, UpsertLinksIs, ReadOldIs, ListFilesIs, ProbeIs, ReadAndStageIs,
     CommitLeaves, EndIs, InjectIs, BeginIs DEF Reads
<1>2. ASSUME NEW g \in Paths, Names(proc'[p], g) PROVE Names(proc[p], g)
  <2>1. CASE StatNote(p)
    BY <1>0, <1>2, <2>1, StatNoteIs DEF Names, StatNote
  <2>2. CASE UpsertRow(p)
    BY <1>0, <1>2, <2>2, UpsertRowIs DEF Names, UpsertRow, Advances
  <2>3. CASE UpsertLinks(p)
    BY <1>0, <1>2, <2>3, UpsertLinksIs, IdleIs DEF Names, UpsertLinks, Advances
  <2>4. CASE ReadOld(p)
    <3>1. CASE proc'[p] = Idle
      BY <1>2, <3>1, IdleIs DEF Names
    <3>2. CASE proc'[p].pc = "rewrite" /\ proc'[p].text = Superseding(p) /\ Present(proc[p].old)
      <4>1. proc[p].old \in Paths
        BY <1>0, <2>4 DEF ReadOld, NotesSucceed, Typed, Sane, TypeOK, Proc
      <4>2. files[proc[p].old] \in Files
        BY <1>0, <3>2, <4>1 DEF TypeOK, Present
      <4>3. Superseding(p).by = proc[p].at
        BY <4>2 DEF Superseding, Files
      <4> QED
        BY <1>2, <2>4, <3>2, <4>3 DEF Names, ReadOld
    <3> QED
      BY <1>0, <2>4, <3>1, <3>2, ReadOldIs
  <2>5. CASE ListFiles(p) \/ Probe(p) \/ ReadAndStage(p) \/ Commit(p) \/ Inject(p)
    BY <1>0, <1>2, <2>5, ListFilesIs, ProbeIs, ReadAndStageIs, CommitLeaves, InjectIs, IdleIs
    DEF Names
  <2>6. CASE Fail(p) \/ Shown(p) \/ Die(p) \/ Observe(p) \/ BeginSync(p)
    BY <1>0, <1>2, <2>6, EndIs, BeginIs, IdleIs DEF Names
  <2> QED
    BY <2>1, <2>2, <2>3, <2>4, <2>5, <2>6 DEF Reads
<1>3. \A g \in Paths : Present(g) => Present(g)'
  BY <1>0 DEF Present
<1> QED
  BY <1>0, <1>1, <1>2, <1>3, KeptAfter DEF NotesSucceed, SuccessorsExist, Present

LEMMA NotesSucceedStep ==
  ASSUME NotesSucceed, [Next]_vars
  PROVE  NotesSucceed'
<1>0. TypeOK /\ Typed /\ Typed'
  BY TypedStep DEF NotesSucceed, Typed
<1>1. ASSUME NEW p \in Procs, WriteNote(p) PROVE NamesKept' /\ SuccessorsExist'
  <2>1. Writes(proc[p].at, NewNote) /\ UNCHANGED deleted /\ NewNote.by = Nobody
    BY <1>0, <1>1, WriteNoteWrites DEF WriteNote, NewNote
  <2>2. ASSUME NEW g \in Paths, Names(proc'[p], g) PROVE Kept(g)'
    BY <1>0, <1>1, <2>1, <2>2, WriteNoteIs, WritesAdd DEF Names, Kept
  <2>3. NamesKept' /\ \A g \in Paths : Kept(g) => Kept(g)'
    BY <1>0, <1>1, <2>1, <2>2, WritesAdd, WriteNoteIs, KeptAfter
  <2> QED
    BY <2>1, <2>3, SuccessorsWritten
<1>2. ASSUME NEW p \in Procs, RewriteOld(p) PROVE NamesKept' /\ SuccessorsExist'
  <2> DEFINE file == [proc[p].text EXCEPT !.mtime = clock + 1]
  <2>1. Writes(proc[p].at, file) /\ UNCHANGED deleted /\ file.by = proc[p].text.by
    BY <1>0, <1>2, RewriteOldWrites DEF RewriteOld
  <2>2. proc'[p].pc = "stat" /\ proc'[p].at = proc[p].at /\ proc'[p].text = file
        /\ \A q \in Procs \ {p} : Left(proc[q], proc'[q])
    BY <1>0, <1>2, RewriteOldIs
  <2> HIDE DEF file
  <2>3. ASSUME NEW g \in Paths, Names(proc'[p], g) PROVE Kept(g)'
    BY <1>0, <2>1, <2>2, <2>3, WritesAdd DEF Names, Kept
  <2>4. NamesKept' /\ \A g \in Paths : Kept(g) => Kept(g)'
    BY <1>0, <2>1, <2>2, <2>3, WritesAdd, KeptAfter
  <2>5. file.by # Nobody => file.by \in Paths /\ Kept(file.by)
    <3>1. file.by # Nobody => file.by \in Paths
      BY <2>1 DEF Writes, Files
    <3> QED
      BY <1>2, <2>1, <3>1 DEF RewriteOld, NotesSucceed, NamesKept, Names
  <2> QED
    BY <2>1, <2>4, <2>5, SuccessorsWritten
<1>3. ASSUME NEW p \in Procs, Reads(p) PROVE NamesKept' /\ SuccessorsExist'
  BY <1>3, ReadsKeepNames
<1>4. CASE Edit
  <2>1. PICK f \in Paths, file \in Files :
          Writes(f, file) /\ file.by = Nobody /\ \A q \in Procs : Left(proc[q], proc'[q])
    BY <1>0, <1>4, EditWrites
  <2>2. UNCHANGED deleted
    BY <1>4 DEF Edit
  <2>3. \A g \in Paths : Kept(g) => Kept(g)'
    BY <1>0, <2>1, <2>2, WritesAdd DEF Kept
  <2>4. NamesKept'
    BY <2>1, <2>3, LeftNames DEF NotesSucceed, NamesKept
  <2>5. SuccessorsExist'
    BY <2>1, <2>3, SuccessorsWritten
  <2> QED
    BY <1>0, <2>4, <2>5 DEF NotesSucceed
<1>5. CASE Delete
  <2>1. PICK f \in Paths :
          /\ files' = [files EXCEPT ![f] = Absent]
          /\ deleted' = {g \in deleted \cup {f} : IsNamed(g)}
          /\ \A q \in Procs : Left(proc[q], proc'[q])
    BY <1>0, <1>5, DeleteIs
  <2>2. \A g \in Paths : Kept(g) /\ IsNamed(g) => Kept(g)'
    BY <1>0, <2>1 DEF Kept, Present, TypeOK
  <2>3. NamesKept'
    <3>1. SUFFICES ASSUME NEW q \in Procs, NEW g \in Paths, Names(proc'[q], g) PROVE Kept(g)'
      BY DEF NamesKept
    <3>2. Names(proc[q], g)
      BY <2>1, <3>1, LeftNames
    <3> QED
      BY <1>0, <2>2, <3>2, NamedIsNamed DEF NotesSucceed, NamesKept
  <2>4. SuccessorsExist'
    <3>1. SUFFICES ASSUME NEW g \in Paths, NEW by, by = files'[g].by, by # Nobody
                   PROVE  by \in Paths /\ Kept(by)'
      BY SuccessorsLast
    <3>2. files'[g] = files[g]
      BY <1>0, <2>1, <3>1, AbsentIsNoFile DEF TypeOK
    <3>3. by \in Paths /\ IsNamed(by) /\ Kept(by)
      BY <1>0, <3>1, <3>2, AbsentIsNoFile
      DEF TypeOK, Files, IsNamed, NotesSucceed, SuccessorsExist, Kept
    <3> QED
      BY <2>2, <3>3
  <2> QED
    BY <1>0, <2>3, <2>4 DEF NotesSucceed
<1>6. CASE UNCHANGED vars
  BY <1>0, <1>6 DEF vars, NotesSucceed, NamesKept, Kept, Present, SuccessorsExist
<1> QED
  BY <1>0, <1>1, <1>2, <1>3, <1>4, <1>5, <1>6, StepsAre DEF NotesSucceed

(* Whenever a command dies, and whatever others write, edit or delete        *)
(* meanwhile, a note that names its successor names one that is there, or    *)
(* was until somebody deleted it.                                            *)
THEOREM SuccessorsAreThere == Spec => []SuccessorsExist
<1>1. Init => NotesSucceed
  <2> SUFFICES ASSUME Init PROVE NotesSucceed
    OBVIOUS
  <2>1. \A p \in Procs : proc[p] = Idle
    BY DEF Init
  <2>2. \A f \in Paths : files[f].by = Nobody
    BY AbsentIsNoFile DEF Init
  <2>3. NamesKept
    BY <2>1, IdleIs DEF NamesKept, Names
  <2> QED
    BY <2>2, <2>3, InitTyped DEF NotesSucceed, SuccessorsExist
<1>2. NotesSucceed => SuccessorsExist
  BY DEF NotesSucceed
<1> QED
  BY <1>1, <1>2, NotesSucceedStep, PTL DEF Spec

-----------------------------------------------------------------------------
(* What carries which mtime: nothing is newer than the clock, and what a     *)
(* sync has read is what the file held, or older than what it holds now.     *)
Past(f, text) ==
  /\ text.mtime <= clock
  /\ Present(f) => text.mtime <= files[f].mtime /\ (text.mtime = files[f].mtime => text = files[f])

Fits(p) ==
  LET l == proc[p] IN
  /\ l.mtime <= clock
  /\ l.pc = "read" /\ Present(l.at) => l.mtime <= files[l.at].mtime
  /\ \A s \in l.staged : s[3] <= s[2].mtime /\ Past(s[1], s[2])
  /\ l.staged # {} => writer = p
  /\ \A f \in Paths : l.view[f].mtime <= clock

Dated ==
  /\ \A f \in Paths : files[f].mtime <= clock /\ rows[f].mtime <= clock
  /\ \A p \in Procs : Fits(p)

FilesAge ==
  /\ clock <= clock'
  /\ \A f \in Paths : \/ files'[f] = files[f]
                       \/ files'[f] = Absent
                       \/ (files'[f].mtime = clock + 1 /\ clock' = clock + 1)

LEMMA Mtimes ==
  ASSUME TypeOK
  PROVE  /\ clock \in Nat
         /\ \A f \in Paths : files[f].mtime \in Nat /\ rows[f].mtime \in Nat
         /\ \A f \in Paths : Present(f) => files[f] \in Files /\ files[f].mtime # 0
         /\ \A f \in Paths : Indexed(f) => rows[f] \in Rows
         /\ \A p \in Procs : /\ proc[p].mtime \in Nat /\ proc[p].at \in Paths
              /\ \A f \in Paths : proc[p].view[f].mtime \in Nat
              /\ \A s \in proc[p].staged :
                   s[1] \in Paths /\ s[2] \in Files /\ s[2].mtime \in Nat /\ s[3] \in Nat
<1>1. \A r \in Rows \cup {NoRow} : r.mtime \in Nat
  BY AbsentIsNoFile, ConstantsFit DEF Rows
<1>2. \A r \in Files : r.mtime \in Nat /\ r.mtime # 0
  BY ConstantsFit DEF Files, Times
<1>3. /\ clock \in Nat
      /\ \A f \in Paths : files[f] \in Files \cup {Absent} /\ rows[f] \in Rows \cup {NoRow}
  BY ConstantsFit DEF TypeOK
<1>4. ASSUME NEW p \in Procs
      PROVE  /\ proc[p].mtime \in Nat /\ proc[p].at \in Paths
             /\ \A f \in Paths : proc[p].view[f].mtime \in Nat
             /\ \A s \in proc[p].staged :
                  s[1] \in Paths /\ s[2] \in Files /\ s[2].mtime \in Nat /\ s[3] \in Nat
  <2>1. proc[p] \in Proc
    BY DEF TypeOK
  <2>2. proc[p].mtime \in Nat /\ proc[p].at \in Paths
    BY <2>1, ConstantsFit DEF Proc
  <2>3. \A f \in Paths : proc[p].view[f].mtime \in Nat
    BY <1>1, <2>1 DEF Proc
  <2>4. \A s \in proc[p].staged : s \in Paths \X Files \X (0..MaxWrites)
    BY <2>1 DEF Proc
  <2> QED
    BY <1>2, <2>2, <2>3, <2>4, ConstantsFit
<1> QED
  BY <1>1, <1>2, <1>3, <1>4, AbsentIsNoFile DEF Present, Indexed

LEMMA PastStays ==
  ASSUME TypeOK, TypeOK', FilesAge, NEW f \in Paths, NEW text \in Files, Past(f, text)
  PROVE  Past(f, text)'
<1>1. clock \in Nat /\ text.mtime \in Nat /\ clock' \in Nat
  BY Mtimes, ConstantsFit DEF Files, Times, FilesAge, TypeOK
<1> QED
  BY <1>1, Mtimes, AbsentIsNoFile DEF Past, FilesAge, Present

LEMMA FitsKept ==
  ASSUME TypeOK, TypeOK', FilesAge, NEW q \in Procs, Fits(q),
         proc'[q].staged = proc[q].staged, proc'[q].view = proc[q].view,
         proc'[q].mtime <= clock',
         proc'[q].pc = "read" =>
           proc[q].pc = "read" /\ proc'[q].at = proc[q].at /\ proc'[q].mtime = proc[q].mtime,
         writer = q => writer' = q
  PROVE  Fits(q)'
<1>1. clock \in Nat /\ clock' \in Nat /\ clock <= clock'
  BY Mtimes, ConstantsFit DEF FilesAge, TypeOK
<1>2. \A s \in proc[q].staged : s[3] <= s[2].mtime /\ Past(s[1], s[2])'
  BY Mtimes, PastStays DEF Fits
<1>3. \A f \in Paths : proc[q].view[f].mtime <= clock'
  BY <1>1, Mtimes DEF Fits
<1>4. proc[q].pc = "read" /\ files'[proc[q].at] # Absent =>
        proc[q].mtime <= files'[proc[q].at].mtime
  <2>1. SUFFICES ASSUME proc[q].pc = "read", files'[proc[q].at] # Absent
                 PROVE  proc[q].mtime <= files'[proc[q].at].mtime
    OBVIOUS
  <2>2. proc[q].at \in Paths /\ proc[q].mtime \in Nat /\ proc[q].mtime <= clock
    BY Mtimes DEF Fits
  <2>3. CASE files'[proc[q].at] = files[proc[q].at]
    BY <2>1, <2>3 DEF Fits, Present
  <2>4. CASE files'[proc[q].at].mtime = clock + 1
    BY <1>1, <2>2, <2>4
  <2> QED
    BY <2>1, <2>2, <2>3, <2>4 DEF FilesAge
<1> QED
  BY <1>2, <1>3, <1>4 DEF Fits, Present

LEMMA FreshFits ==
  ASSUME TypeOK', NEW q \in Procs, proc'[q].pc # "read", proc'[q].mtime = 0,
         proc'[q].staged = {}, \A f \in Paths : proc'[q].view[f] = NoRow
  PROVE  Fits(q)'
<1>1. clock' \in Nat
  BY ConstantsFit DEF TypeOK
<1> QED
  BY <1>1, AbsentIsNoFile DEF Fits

LEMMA LeftFits ==
  ASSUME TypeOK, TypeOK', FilesAge, NEW q \in Procs, Fits(q), Left(proc[q], proc'[q]),
         writer = q => writer' = q
  PROVE  Fits(q)'
<1>1. clock' \in Nat /\ clock <= clock'
  BY ConstantsFit DEF FilesAge, TypeOK
<1>2. proc[q].mtime <= clock'
  BY <1>1, Mtimes DEF Fits
<1> QED
  BY <1>2, FitsKept DEF Left

LEMMA WritesAge ==
  ASSUME TypeOK, NEW f, NEW file, Writes(f, file)
  PROVE  /\ FilesAge
         /\ (\A g \in Paths : files[g].mtime <= clock /\ rows[g].mtime <= clock) /\ UNCHANGED rows
              => \A g \in Paths : files'[g].mtime <= clock' /\ rows'[g].mtime <= clock'
<1>1. files'[f] = file /\ \A g \in Paths \ {f} : files'[g] = files[g]
  BY WritesAdd
<1>2. clock \in Nat /\ file.mtime = clock + 1 /\ clock' = clock + 1
  BY Mtimes DEF Writes
<1> QED
  BY <1>1, <1>2, Mtimes DEF FilesAge

LEMMA StagedForFits ==
  ASSUME TypeOK, NEW p \in Procs, NEW f \in StagedAt(p)
  PROVE  /\ StagedFor(p, f) \in proc[p].staged /\ StagedFor(p, f)[1] = f
         /\ StagedFor(p, f)[2] \in Files
BY StagedForIs, Mtimes

(* What a commit makes of a row and of its link.                             *)
LEMMA CommitWrites ==
  ASSUME TypeOK, NEW p \in Procs, Commit(p), NEW f \in Paths
  PROVE  \/ rows'[f] = NoRow
         \/ \E s \in proc[p].staged :
              /\ s[1] = f /\ links'[f] = s[2].by
              /\ rows'[f] = [note |-> s[2].note, status |-> s[2].status, mtime |-> s[3]]
         \/ /\ rows'[f] = rows[f] /\ links'[f] = links[f]
            /\ f \notin StagedAt(p)
            /\ (f \in raced' <=> f \in raced) /\ (f \in torn' <=> f \in torn)
<1>1. Committed(p)
  BY CommitIs
<1>2. CASE f \in Pruned(p)
  BY <1>1, <1>2 DEF Committed
<1>3. CASE f \notin Pruned(p) /\ f \in StagedAt(p)
  BY <1>1, <1>3, StagedForIs DEF Committed
<1>4. CASE f \notin Pruned(p) /\ f \notin StagedAt(p)
  BY <1>1, <1>4 DEF Committed
<1> QED
  BY <1>2, <1>3, <1>4

LEMMA NothingWritten ==
  ASSUME TypeOK, clock' = clock,
         \A f \in Paths : files'[f] = files[f] \/ files'[f] = Absent
  PROVE  FilesAge
<1>1. clock <= clock'
  BY Mtimes
<1> QED
  BY <1>1 DEF FilesAge

\* What p's step leaves of the others.
LEMMA OthersFit ==
  ASSUME TypeOK, TypeOK', FilesAge, Dated, NEW p \in Procs,
         writer' \in {writer, p} \/ (writer = p /\ writer' = Nobody),
         writer' = p => writer \in {Nobody, p},
         \A q \in Procs \ {p} : Left(proc[q], proc'[q])
  PROVE  \A q \in Procs \ {p} : Fits(q)'
<1>1. \A q \in Procs \ {p} : writer = q => writer' = q
  BY ConstantsFit
<1> QED
  BY <1>1, LeftFits DEF Dated

LEMMA WritersFit ==
  ASSUME Typed, Typed', Dated, NEW p \in Procs,
         WriteNote(p) \/ StatNote(p) \/ UpsertRow(p) \/ UpsertLinks(p) \/ ReadOld(p)
         \/ RewriteOld(p)
  PROVE  Dated'
<1>0. TypeOK /\ TypeOK' /\ clock \in Nat /\ clock' \in Nat
  BY Mtimes, ConstantsFit DEF Typed, TypeOK
<1>1. UNCHANGED writer
  BY DEF WriteNote, StatNote, UpsertRow, UpsertLinks, ReadOld, RewriteOld
<1>2. FilesAge
  <2>1. CASE WriteNote(p)
    BY <1>0, <2>1, WriteNoteWrites, WritesAge
  <2>2. CASE RewriteOld(p)
    BY <1>0, <2>2, RewriteOldWrites, WritesAge
  <2>3. CASE ~WriteNote(p) /\ ~RewriteOld(p)
    <3>1. UNCHANGED <<files, clock>>
      BY <2>3, ReadsLeaveFiles DEF Reads
    <3> QED
      BY <1>0, <3>1, NothingWritten
  <2> QED
    BY <2>1, <2>2, <2>3
<1>3. proc[p].mtime <= clock' /\ clock <= clock'
  BY <1>0, <1>2, Mtimes DEF FilesAge, Dated, Fits
<1>4. \A q \in Procs \ {p} : Left(proc[q], proc'[q])
  BY <1>0, WriteNoteIs, StatNoteIs, UpsertRowIs, UpsertLinksIs, ReadOldIs, RewriteOldIs
<1>5. Fits(p)'
  <2>1. CASE proc'[p] = Idle
    BY <1>0, <2>1, IdleIs, FreshFits DEF Fresh
  <2>2. CASE proc'[p] # Idle
    <3>1. Outside(proc[p], proc'[p]) /\ proc'[p].pc # "read"
          /\ \/ proc'[p].mtime = proc[p].mtime
             \/ (StatNote(p) /\ proc'[p].mtime = files[proc[p].at].mtime)
      BY <1>0, <2>2, WriteNoteIs, StatNoteIs, UpsertRowIs, UpsertLinksIs, ReadOldIs, RewriteOldIs
      DEF Advances
    <3>2. proc'[p].mtime <= clock'
      BY <1>0, <1>3, <3>1, Mtimes DEF Dated
    <3>3. Fits(p)
      BY DEF Dated
    <3> QED
      BY <1>0, <1>1, <1>2, <3>1, <3>2, <3>3, FitsKept DEF Outside
  <2> QED
    BY <2>1, <2>2
<1>6. \A f \in Paths : files'[f].mtime <= clock' /\ rows'[f].mtime <= clock'
  <2>1. CASE WriteNote(p)
    BY <1>0, <2>1, WriteNoteWrites, WritesAge DEF Dated, WriteNote, Board
  <2>2. CASE RewriteOld(p)
    BY <1>0, <2>2, RewriteOldWrites, WritesAge DEF Dated, RewriteOld, Board
  <2>3. CASE StatNote(p) \/ UpsertLinks(p) \/ ReadOld(p)
    BY <2>3 DEF Dated, StatNote, UpsertLinks, ReadOld, Board
  <2>4. CASE UpsertRow(p)
    BY <1>0, <1>3, <2>4 DEF Dated, UpsertRow, TypeOK
  <2> QED
    BY <2>1, <2>2, <2>3, <2>4
<1>7. \A q \in Procs \ {p} : Fits(q)'
  BY <1>0, <1>1, <1>2, <1>4, ConstantsFit, OthersFit
<1> QED
  BY <1>5, <1>6, <1>7 DEF Dated

LEMMA SyncsFit ==
  ASSUME Typed, Typed', Dated, NEW p \in Procs,
         ListFiles(p) \/ Probe(p) \/ ReadAndStage(p) \/ Commit(p) \/ Fail(p) \/ Inject(p)
         \/ Shown(p) \/ Observe(p) \/ BeginSync(p) \/ Die(p)
  PROVE  Dated'
<1>0. TypeOK /\ TypeOK' /\ clock \in Nat
  BY Mtimes DEF Typed
<1>1. UNCHANGED <<files, clock>>
  BY ReadsLeaveFiles DEF Reads
<1>2. FilesAge
  BY <1>0, <1>1, NothingWritten
<1>3. Fits(p) /\ \A f \in Paths : files[f].mtime <= clock /\ rows[f].mtime <= clock
  BY DEF Dated
<1>4. \A q \in Procs \ {p} : Left(proc[q], proc'[q])
  BY <1>0, ListFilesIs, ProbeIs, ReadAndStageIs, CommitLeaves, EndIs, InjectIs, BeginIs
<1>5. \/ UNCHANGED writer
      \/ ReadAndStage(p) /\ writer \in {Nobody, p} /\ writer' = p
      \/ writer = p /\ writer' = Nobody
  BY DEF ListFiles, Probe, ReadAndStage, Commit, Fail, Inject, Shown, Observe, BeginSync, Die
<1>6. \A q \in Procs \ {p} : Fits(q)'
  BY <1>0, <1>2, <1>4, <1>5, ConstantsFit, OthersFit
<1>7. Fits(p)'
  <2>1. CASE ListFiles(p) \/ Inject(p)
    <3>1. UNCHANGED writer
      BY <2>1 DEF ListFiles, Inject
    <3>2. Outside(proc[p], proc'[p]) /\ proc'[p].mtime = proc[p].mtime /\ proc'[p].pc # "read"
      BY <1>0, <2>1, ListFilesIs, InjectIs DEF Advances
    <3>3. proc'[p].mtime <= clock'
      BY <1>1, <1>3, <3>2 DEF Fits
    <3> QED
      BY <1>0, <1>2, <1>3, <3>1, <3>2, <3>3, FitsKept DEF Outside
  <2>2. CASE Probe(p)
    <3>1. UNCHANGED writer /\ proc'[p].staged = proc[p].staged
      BY <1>0, <2>2, ProbeIs DEF Probe
    <3>2. PICK f \in proc[p].todo :
            /\ proc'[p].view = Probed(p, f)
            /\ \/ proc'[p].pc = "scan" /\ proc'[p].mtime = proc[p].mtime
               \/ proc'[p].pc = "read" /\ proc'[p].at = f /\ proc'[p].mtime = files[f].mtime
      BY <1>0, <2>2, ProbeIs
    <3>3. f \in Paths
      BY <1>0 DEF TypeOK, Proc
    <3>4. \A g \in Paths : proc'[p].view[g] \in {rows[g], proc[p].view[g], NoRow}
      BY <1>0, <3>2, ViewType DEF Probed, View
    <3>5. \A g \in Paths : proc'[p].view[g].mtime <= clock
      BY <1>0, <1>3, <3>4, AbsentIsNoFile DEF Fits
    <3>6. proc'[p].mtime <= clock
          /\ (proc'[p].pc = "read" => proc'[p].mtime <= files[proc'[p].at].mtime)
      BY <1>0, <1>3, <3>2, <3>3, Mtimes DEF Fits
    <3>7. \A s \in proc[p].staged : s[3] <= s[2].mtime /\ Past(s[1], s[2])'
      BY <1>0, <1>2, <1>3, Mtimes, PastStays DEF Fits
    <3> QED
      BY <1>1, <1>3, <3>1, <3>5, <3>6, <3>7 DEF Fits
  <2>3. CASE ReadAndStage(p)
    <3>1. /\ proc'[p].pc = "scan" /\ proc'[p].view = proc[p].view /\ proc'[p].mtime = 0
          /\ \/ /\ Present(proc[p].at) /\ writer' = p
                /\ proc'[p].staged =
                     proc[p].staged \cup {<<proc[p].at, files[proc[p].at], proc[p].mtime>>}
             \/ proc'[p].staged = proc[p].staged /\ writer' = writer
      BY <1>0, <2>3, ReadAndStageIs
    <3>2. \A s \in proc[p].staged : s[3] <= s[2].mtime /\ Past(s[1], s[2])'
      BY <1>0, <1>2, <1>3, Mtimes, PastStays DEF Fits
    <3>3. proc[p].at \in Paths /\ proc[p].pc = "read"
      BY <1>0, <2>3, Mtimes DEF ReadAndStage
    <3>4. Present(proc[p].at) => proc[p].mtime <= files[proc[p].at].mtime
      BY <1>3, <3>3 DEF Fits
    <3>5. ASSUME NEW at \in Paths, Present(at), NEW file, file = files[at]
          PROVE  Past(at, file)'
      BY <1>0, <1>1, <1>3, <3>5, Mtimes DEF Past, Present
    <3>6. ASSUME NEW t \in proc'[p].staged PROVE t[3] <= t[2].mtime /\ Past(t[1], t[2])'
      <4>1. CASE t \in proc[p].staged
        BY <3>2, <4>1
      <4>2. CASE Present(proc[p].at) /\ t = <<proc[p].at, files[proc[p].at], proc[p].mtime>>
        <5>1. PICK at \in Paths : at = proc[p].at
          BY <3>3
        <5>2. PICK file : file = files[at]
          OBVIOUS
        <5>3. t[1] = at /\ t[2] = file /\ t[3] = proc[p].mtime
          BY <4>2, <5>1, <5>2
        <5>4. Past(at, file)'
          BY <3>5, <4>2, <5>1, <5>2
        <5> QED
          BY <3>4, <4>2, <5>1, <5>2, <5>3, <5>4
      <4> QED
        BY <3>1, <4>1, <4>2
    <3>7. proc'[p].staged # {} => writer' = p
      BY <1>3, <3>1 DEF Fits
    <3> QED
      BY <1>0, <1>1, <1>3, <3>1, <3>6, <3>7 DEF Fits
  <2>4. CASE Commit(p)
    <3>1. proc'[p].pc # "read"
      BY <1>0, <2>4, CommitLeaves, IdleIs
    <3> QED
      BY <1>0, <2>4, <3>1, CommitLeaves, FreshFits
  <2>5. CASE Fail(p) \/ Shown(p) \/ Die(p) \/ Observe(p) \/ BeginSync(p)
    BY <1>0, <2>5, EndIs, BeginIs, IdleIs, FreshFits DEF Fresh
  <2> QED
    BY <2>1, <2>2, <2>3, <2>4, <2>5
<1>8. \A f \in Paths : rows'[f].mtime <= clock
  <2>1. CASE Commit(p)
    <3>1. SUFFICES ASSUME NEW f \in Paths PROVE rows'[f].mtime <= clock
      OBVIOUS
    <3>2. CASE \E s \in proc[p].staged : rows'[f].mtime = s[3]
      BY <1>0, <1>3, <3>2, Mtimes DEF Fits, Past
    <3>3. CASE rows'[f] = NoRow \/ rows'[f] = rows[f]
      BY <1>0, <1>3, <3>3, AbsentIsNoFile
    <3>4. CASE \E s \in proc[p].staged :
                 rows'[f] = [note |-> s[2].note, status |-> s[2].status, mtime |-> s[3]]
      <4>1. \E s \in proc[p].staged : rows'[f].mtime = s[3]
        BY <3>4
      <4> QED
        BY <3>2, <4>1
    <3> QED
      BY <1>0, <2>1, <3>3, <3>4, CommitWrites
  <2>2. CASE ~Commit(p)
    BY <1>3, <2>2 DEF ListFiles, Probe, ReadAndStage, Fail, Inject, Shown, Observe, BeginSync, Die,
                      Board
  <2> QED
    BY <2>1, <2>2
<1> QED
  BY <1>1, <1>3, <1>6, <1>7, <1>8 DEF Dated

LEMMA DatedStep ==
  ASSUME Typed, Dated, [Next]_vars
  PROVE  Dated'
<1>0. Typed' /\ TypeOK /\ TypeOK'
  BY TypedStep DEF Typed
<1>1. ASSUME NEW p \in Procs, Observe(p) \/ BeginSync(p) \/ Step(p) \/ Die(p) PROVE Dated'
  BY <1>0, <1>1, WritersFit, SyncsFit DEF Step
<1>2. CASE Edit
  <2>1. PICK f \in Paths, file \in Files :
          Writes(f, file) /\ \A q \in Procs : Left(proc[q], proc'[q])
    BY <1>2, EditWrites
  <2>2. UNCHANGED <<rows, writer>>
    BY <1>2 DEF Edit, Board
  <2> QED
    BY <1>0, <2>1, <2>2, WritesAge, LeftFits DEF Dated
<1>3. CASE Delete
  <2>1. PICK f \in Paths : /\ files' = [files EXCEPT ![f] = Absent]
                           /\ \A q \in Procs : Left(proc[q], proc'[q])
    BY <1>0, <1>3, DeleteIs
  <2>2. UNCHANGED <<rows, writer, clock>>
    BY <1>3 DEF Delete, Board
  <2>3. FilesAge
    BY <1>0, <2>1, <2>2, NothingWritten DEF TypeOK
  <2>4. \A g \in Paths : files'[g].mtime <= clock
    BY <1>0, <2>1, <2>2, Mtimes, AbsentIsNoFile DEF TypeOK, Dated
  <2> QED
    BY <1>0, <2>1, <2>2, <2>3, <2>4, LeftFits DEF Dated
<1>4. CASE UNCHANGED vars
  BY <1>4 DEF vars, Dated, Fits, Past, Present
<1> QED
  BY <1>1, <1>2, <1>3, <1>4 DEF Next

-----------------------------------------------------------------------------
(* The mtime gate.                                                          *)
Truthful == Typed /\ Dated /\ IndexTellsTheTruth

\* What IndexTellsTheTruth says of one path.
Linking(f) == \E p \in Procs : proc[p].pc = "links" /\ proc[p].at = f
Tells(f) ==
  f \notin raced /\ Present(f) /\ Indexed(f) /\ rows[f].mtime = files[f].mtime =>
    /\ rows[f].note = files[f].note
    /\ rows[f].status = files[f].status
    /\ links[f] = files[f].by \/ f \in torn \/ Linking(f)

LEMMA TruthIs == IndexTellsTheTruth <=> \A f \in Paths : Tells(f)
BY DEF IndexTellsTheTruth, Tells, Linking

\* A file that was just written is newer than its row.
LEMMA WrittenTells ==
  ASSUME TypeOK, Dated, NEW f \in Paths, NEW file, Writes(f, file), UNCHANGED rows
  PROVE  Tells(f)'
<1>1. files'[f] = file /\ file.mtime = clock + 1
  BY WritesAdd DEF Writes
<1>2. rows'[f].mtime <= clock /\ rows'[f].mtime \in Nat /\ clock \in Nat
  BY Mtimes DEF Dated
<1>3. rows'[f].mtime # files'[f].mtime
  BY <1>1, <1>2
<1> QED
  BY <1>3 DEF Tells

LEMMA Unlinked ==
  ASSUME NEW p \in Procs, proc[p].pc # "links", NEW f, Linking(f),
         \A q \in Procs \ {p} : Left(proc[q], proc'[q])
  PROVE  Linking(f)'
BY DEF Linking, Left

LEMMA LinkedElsewhere ==
  ASSUME NEW p \in Procs, NEW f, proc[p].at # f, Linking(f),
         \A q \in Procs \ {p} : Left(proc[q], proc'[q])
  PROVE  Linking(f)'
BY DEF Linking, Left

LEMMA UpsertRowTells ==
  ASSUME Truthful, NEW p \in Procs, UpsertRow(p), NEW f \in Paths
  PROVE  Tells(f)'
<1>0. TypeOK /\ Tells(f)
  BY TruthIs DEF Truthful, Typed
<1>1. CASE f = proc[p].at
  <2>1. Linking(f)'
    BY <1>0, <1>1, UpsertRowIs DEF Linking, Advances
  <2>2. rows'[f].note = proc[p].text.note /\ rows'[f].status = proc[p].text.status
    BY <1>0, <1>1 DEF UpsertRow, TypeOK
  <2>3. f \notin raced' => files'[f] = proc[p].text
    BY <1>1 DEF UpsertRow
  <2> QED
    BY <2>1, <2>2, <2>3 DEF Tells
<1>2. CASE f # proc[p].at
  <2>1. /\ files' = files /\ links' = links /\ torn' = torn /\ rows'[f] = rows[f]
        /\ f \in raced' <=> f \in raced
    BY <1>0, <1>2 DEF UpsertRow, TypeOK
  <2>2. Linking(f) => Linking(f)'
    BY <1>0, <1>2, UpsertRowIs, LinkedElsewhere
  <2> QED
    BY <1>0, <2>1, <2>2 DEF Tells, Present, Indexed
<1> QED
  BY <1>1, <1>2

LEMMA UpsertLinksTells ==
  ASSUME Truthful, NEW p \in Procs, UpsertLinks(p), NEW f \in Paths
  PROVE  Tells(f)'
<1>0. TypeOK /\ Tells(f) /\ raced \subseteq raced' /\ files' = files /\ rows' = rows
  BY TruthIs DEF Truthful, Typed, UpsertLinks
<1>1. CASE f = proc[p].at
  <2>1. CASE links' = [links EXCEPT ![proc[p].at] = proc[p].text.by]
    <3>1. links'[f] = proc[p].text.by
      BY <1>0, <1>1, <2>1 DEF TypeOK
    <3>2. f \notin raced' /\ Indexed(f) => files[f] = proc[p].text
      BY <1>1 DEF UpsertLinks
    <3> QED
      BY <1>0, <3>1, <3>2 DEF Tells, Present, Indexed
  <2>2. CASE ~Indexed(f)
    BY <1>0, <2>2 DEF Tells, Indexed
  <2> QED
    BY <1>1, <2>1, <2>2 DEF UpsertLinks
<1>2. CASE f # proc[p].at
  <2>1. links'[f] = links[f] /\ (f \in torn' <=> f \in torn)
    BY <1>0, <1>2 DEF UpsertLinks, TypeOK
  <2>2. Linking(f) => Linking(f)'
    BY <1>0, <1>2, UpsertLinksIs, LinkedElsewhere
  <2> QED
    BY <1>0, <2>1, <2>2 DEF Tells, Present, Indexed
<1> QED
  BY <1>1, <1>2

LEMMA CommitTells ==
  ASSUME Truthful, NEW p \in Procs, Commit(p), NEW f \in Paths
  PROVE  Tells(f)'
<1>0. TypeOK /\ Tells(f) /\ files' = files /\ Fits(p)
  BY TruthIs DEF Truthful, Typed, Dated, Commit
<1>1. CASE rows'[f] = NoRow
  BY <1>1 DEF Tells, Indexed
<1>2. ASSUME NEW s \in proc[p].staged, s[1] = f, links'[f] = s[2].by,
             rows'[f] = [note |-> s[2].note, status |-> s[2].status, mtime |-> s[3]]
      PROVE  Tells(f)'
  <2>1. s[2].mtime \in Nat /\ s[3] \in Nat /\ s[3] <= s[2].mtime /\ Past(f, s[2])
    BY <1>0, <1>2, Mtimes DEF Fits
  <2>2. rows'[f].mtime = s[3] /\ rows'[f].note = s[2].note /\ rows'[f].status = s[2].status
    BY <1>2
  <2>3. Present(f) /\ files[f].mtime = s[3] => s[2] = files[f]
    BY <1>0, <2>1, Mtimes DEF Past
  <2> QED
    BY <1>0, <1>2, <2>2, <2>3 DEF Tells, Present
<1>3. CASE /\ rows'[f] = rows[f] /\ links'[f] = links[f]
           /\ (f \in raced' <=> f \in raced) /\ (f \in torn' <=> f \in torn)
  <2>1. Linking(f) => Linking(f)'
    BY <1>0, CommitLeaves, Unlinked DEF Commit
  <2> QED
    BY <1>0, <1>3, <2>1 DEF Tells, Present, Indexed
<1> QED
  BY <1>0, <1>1, <1>2, <1>3, CommitWrites

LEMMA DieTells ==
  ASSUME Truthful, NEW p \in Procs, Die(p), NEW f \in Paths
  PROVE  Tells(f)'
<1>0. TypeOK /\ Tells(f) /\ UNCHANGED <<files, rows, raced>>
  BY TruthIs DEF Truthful, Typed, Die
<1>1. CASE proc[p].pc = "links" /\ proc[p].at = f
  <2>1. f \in torn'
    BY <1>1 DEF Die
  <2> QED
    BY <1>0, <2>1 DEF Tells, Present, Indexed
<1>2. CASE proc[p].pc # "links" \/ proc[p].at # f
  <2>1. links'[f] = links[f] /\ (f \in torn' <=> f \in torn)
    BY <1>0, <1>2 DEF Die, TypeOK
  <2>2. Linking(f) => Linking(f)'
    BY <1>0, <1>2, EndIs, Unlinked, LinkedElsewhere
  <2> QED
    BY <1>0, <2>1, <2>2 DEF Tells, Present, Indexed
<1> QED
  BY <1>1, <1>2

\* The steps of a process that leave the index as it is.
LEMMA OthersTell ==
  ASSUME Truthful, NEW p \in Procs, NEW f \in Paths,
         UNCHANGED <<rows, links, raced, torn>>, files'[f] = files[f], proc[p].pc # "links",
         \A q \in Procs \ {p} : Left(proc[q], proc'[q])
  PROVE  Tells(f)'
BY TruthIs, Unlinked DEF Truthful, Tells, Present, Indexed

LEMMA TruthfulStep ==
  ASSUME Truthful, [Next]_vars
  PROVE  Truthful'
<1>0. Typed' /\ Dated' /\ TypeOK /\ Typed /\ Dated
  BY TypedStep, DatedStep DEF Truthful, Typed
<1>1. ASSUME NEW f \in Paths PROVE Tells(f)'
  <2>1. ASSUME NEW p \in Procs, UpsertRow(p) \/ UpsertLinks(p) \/ Commit(p) \/ Die(p)
        PROVE  Tells(f)'
    BY <2>1, UpsertRowTells, UpsertLinksTells, CommitTells, DieTells
  <2>2. ASSUME NEW p \in Procs, NEW g, NEW file, Writes(g, file), WriteNote(p) \/ RewriteOld(p)
        PROVE  Tells(f)'
    <3>1. UNCHANGED <<rows, links, raced, torn>> /\ proc[p].pc # "links"
      BY <2>2 DEF WriteNote, RewriteOld, Board
    <3>2. CASE f = g
      BY <1>0, <2>2, <3>1, <3>2, WrittenTells
    <3>3. CASE f # g
      <4>1. files'[f] = files[f]
        BY <1>0, <2>2, <3>3, WritesAdd
      <4>2. \A q \in Procs \ {p} : Left(proc[q], proc'[q])
        BY <1>0, <2>2, WriteNoteIs, RewriteOldIs
      <4> QED
        BY <3>1, <4>1, <4>2, OthersTell
    <3> QED
      BY <3>2, <3>3
  <2>3. ASSUME NEW p \in Procs,
               StatNote(p) \/ ReadOld(p) \/ ListFiles(p) \/ Probe(p) \/ ReadAndStage(p)
               \/ Fail(p) \/ Inject(p) \/ Shown(p) \/ Observe(p) \/ BeginSync(p)
        PROVE  Tells(f)'
    <3>1. UNCHANGED <<files, rows, links, raced, torn>> /\ proc[p].pc # "links"
      BY <2>3 DEF StatNote, ReadOld, ListFiles, Probe, ReadAndStage, Fail, Inject, Shown, Observe,
                  BeginSync, Board
    <3>2. \A q \in Procs \ {p} : Left(proc[q], proc'[q])
      BY <1>0, <2>3, StatNoteIs, ReadOldIs, ListFilesIs, ProbeIs, ReadAndStageIs, EndIs, InjectIs,
         BeginIs
    <3> QED
      BY <3>1, <3>2, OthersTell
  <2>4. CASE Edit
    <3>1. PICK g \in Paths, file \in Files :
            Writes(g, file) /\ \A q \in Procs : Left(proc[q], proc'[q])
      BY <1>0, <2>4, EditWrites
    <3>2. UNCHANGED <<rows, links, raced, torn>>
      BY <2>4 DEF Edit, Board
    <3>3. CASE f = g
      BY <1>0, <3>1, <3>2, <3>3, WrittenTells
    <3>4. CASE f # g
      <4>1. files'[f] = files[f] /\ (Linking(f) => Linking(f)')
        BY <1>0, <3>1, <3>4, WritesAdd DEF Linking, Left
      <4> QED
        BY <3>2, <4>1, TruthIs DEF Truthful, Tells, Present, Indexed
    <3> QED
      BY <3>3, <3>4
  <2>5. CASE Delete
    <3>1. PICK g \in Paths : /\ files' = [files EXCEPT ![g] = Absent]
                             /\ \A q \in Procs : Left(proc[q], proc'[q])
      BY <1>0, <2>5, DeleteIs
    <3>2. UNCHANGED <<rows, links, raced, torn>>
      BY <2>5 DEF Delete, Board
    <3>3. files'[f] \in {files[f], Absent} /\ (Linking(f) => Linking(f)')
      BY <1>0, <3>1 DEF TypeOK, Linking, Left
    <3> QED
      BY <3>2, <3>3, TruthIs DEF Truthful, Tells, Present, Indexed
  <2>6. CASE UNCHANGED vars
    BY <2>6, TruthIs DEF vars, Truthful, Tells, Present, Indexed, Linking
  <2>7. ASSUME NEW p \in Procs, WriteNote(p) \/ RewriteOld(p) PROVE Tells(f)'
    BY <1>0, <2>2, <2>7, WriteNoteWrites, RewriteOldWrites
  <2> QED
    BY <2>1, <2>3, <2>4, <2>5, <2>6, <2>7 DEF Next, Step
<1>2. IndexTellsTheTruth'
  BY <1>1 DEF IndexTellsTheTruth, Tells, Linking, Present, Indexed
<1> QED
  BY <1>0, <1>2 DEF Truthful

LEMMA InitTruthful == Init => Truthful
<1> SUFFICES ASSUME Init PROVE Truthful
  OBVIOUS
<1>1. \A p \in Procs : proc[p] = Idle
  BY DEF Init
<1>2. \A f \in Paths : ~Present(f) /\ files[f].mtime = 0 /\ rows[f].mtime = 0
  BY AbsentIsNoFile DEF Init, Present
<1>3. clock = 0
  BY DEF Init
<1>4. \A p \in Procs : Fits(p)
  BY <1>1, <1>3, IdleIs, AbsentIsNoFile DEF Fits, Fresh
<1> QED
  BY <1>2, <1>3, <1>4, InitTyped DEF Truthful, Dated, IndexTellsTheTruth

(* A row that no sync will read again says what its file says, whoever       *)
(* wrote, edited, synced, pruned, crashed or superseded meanwhile.  Excepted *)
(* are the files that changed under the command that was indexing them and,  *)
(* for the successor alone, the notes whose indexing process died between    *)
(* the row and its links (upsert(), index.rs:108-173).                       *)
THEOREM IndexIsTrue == Spec => []IndexTellsTheTruth
<1>1. Truthful => IndexTellsTheTruth
  BY DEF Truthful
<1> QED
  BY <1>1, InitTruthful, TruthfulStep, PTL DEF Spec

-----------------------------------------------------------------------------
(* Retired notes: what a sync has passed over, because the index knew its    *)
(* mtime, the index had right; and what it has staged is what the file says  *)
(* if anybody else's snapshot knows the file as it is.                       *)
Viewed(f) == \E p \in Procs : proc[p].view[f].mtime = files[f].mtime
Known(f)  == rows[f].mtime = files[f].mtime \/ Viewed(f)
Agree(f)  == f \in raced \/ ~Indexed(f) \/ rows[f].status = files[f].status

Sighted(f) ==
  /\ Present(f) /\ Viewed(f) => Agree(f)
  /\ Present(f) /\ Known(f) =>
       \A p \in Procs : \A s \in proc[p].staged : s[1] = f => s[2] = files[f]
Sights == \A f \in Paths : Sighted(f)

\* A step that looks at nothing.
Settled ==
  \A q \in Procs :
    /\ proc'[q].staged \subseteq proc[q].staged
    /\ \A f \in Paths : proc'[q].view[f] = proc[q].view[f] \/ proc'[q].view[f] = NoRow

LEMMA OthersSettle ==
  ASSUME NEW p \in Procs, \A q \in Procs \ {p} : Left(proc[q], proc'[q]),
         proc'[p].staged \subseteq proc[p].staged,
         \A f \in Paths : proc'[p].view[f] = proc[p].view[f] \/ proc'[p].view[f] = NoRow
  PROVE  Settled
BY DEF Settled, Left

LEMMA WritersSettle ==
  ASSUME TypeOK, NEW p \in Procs,
         WriteNote(p) \/ StatNote(p) \/ UpsertRow(p) \/ UpsertLinks(p) \/ ReadOld(p)
         \/ RewriteOld(p) \/ ListFiles(p) \/ Inject(p)
  PROVE  Settled
<1>1. \A q \in Procs \ {p} : Left(proc[q], proc'[q])
  BY WriteNoteIs, StatNoteIs, UpsertRowIs, UpsertLinksIs, ReadOldIs, RewriteOldIs, ListFilesIs,
     InjectIs
<1>2. proc'[p] = Idle \/ Outside(proc[p], proc'[p])
  BY WriteNoteIs, StatNoteIs, UpsertRowIs, UpsertLinksIs, ReadOldIs, RewriteOldIs, ListFilesIs,
     InjectIs DEF Advances
<1> QED
  BY <1>1, <1>2, IdleIs, OthersSettle DEF Outside, Fresh

LEMMA EndsSettle ==
  ASSUME TypeOK, NEW p \in Procs,
         Commit(p) \/ Fail(p) \/ Shown(p) \/ Die(p) \/ Observe(p) \/ BeginSync(p)
  PROVE  Settled
<1>1. /\ \A q \in Procs \ {p} : Left(proc[q], proc'[q])
      /\ proc'[p].staged = {} /\ \A f \in Paths : proc'[p].view[f] = NoRow
  BY CommitLeaves, EndIs, BeginIs, IdleIs DEF Fresh
<1> QED
  BY <1>1, OthersSettle

LEMMA SightsStay ==
  ASSUME TypeOK, NEW f \in Paths, Sighted(f), Settled,
         rows'[f] = rows[f], files'[f] = files[f], f \in raced => f \in raced'
  PROVE  Sighted(f)'
<1>1. Present(f) /\ Viewed(f)' => Viewed(f)
  BY Mtimes, AbsentIsNoFile DEF Settled, Viewed
<1>2. Present(f) /\ Known(f)' => Known(f)
  BY <1>1 DEF Known
<1>3. Agree(f) => Agree(f)'
  BY DEF Agree, Indexed
<1> QED
  BY <1>1, <1>2, <1>3 DEF Sighted, Present, Settled

\* A file that was just written is newer than what anybody knows.
LEMMA WrittenUnknown ==
  ASSUME TypeOK, Dated, NEW f \in Paths, NEW file, Writes(f, file), Settled, UNCHANGED rows
  PROVE  ~Known(f)'
<1>1. files'[f].mtime = clock + 1 /\ clock \in Nat
  BY WritesAdd, Mtimes DEF Writes
<1>2. rows'[f].mtime <= clock /\ rows'[f].mtime \in Nat
  BY Mtimes DEF Dated
<1>3. ASSUME NEW q \in Procs PROVE proc'[q].view[f].mtime <= clock /\ proc'[q].view[f].mtime \in Nat
  BY <1>1, Mtimes, AbsentIsNoFile DEF Settled, Dated, Fits
<1>4. rows'[f].mtime # files'[f].mtime
  BY <1>1, <1>2
<1>5. \A q \in Procs : proc'[q].view[f].mtime # files'[f].mtime
  BY <1>1, <1>3
<1> QED
  BY <1>4, <1>5 DEF Known, Viewed

\* What the index knows the mtime of, it has right.
LEMMA KnownAgrees ==
  ASSUME Truthful, Sights, NEW f \in Paths, Present(f), Known(f)
  PROVE  Agree(f)
BY TruthIs DEF Truthful, Sights, Sighted, Known, Agree, Tells

LEMMA ProbeSights ==
  ASSUME Truthful, Sights, NEW p \in Procs, Probe(p), NEW f \in Paths
  PROVE  Sighted(f)'
<1>0. TypeOK /\ Sighted(f) /\ UNCHANGED <<files, rows, raced>>
  BY DEF Truthful, Typed, Sights, Probe, Board
<1>1. \A q \in Procs : proc'[q].staged = proc[q].staged
  BY <1>0, ProbeIs DEF Left
<1>2. proc'[p].view[f] \in {rows[f], proc[p].view[f], NoRow}
  <2>1. PICK g \in proc[p].todo : proc'[p].view = Probed(p, g)
    BY <1>0, ProbeIs
  <2>2. g \in Paths
    BY <1>0 DEF TypeOK, Proc
  <2> QED
    BY <1>0, <2>1, <2>2, ViewType DEF Probed, View
<1>3. Present(f) /\ Viewed(f)' => Known(f)
  <2>1. \A q \in Procs \ {p} : proc'[q].view = proc[q].view
    BY <1>0, ProbeIs DEF Left
  <2> QED
    BY <1>0, <1>2, <2>1, Mtimes, AbsentIsNoFile DEF Viewed, Known
<1>4. Present(f) /\ Known(f)' => Known(f)
  BY <1>0, <1>3 DEF Known
<1> QED
  BY <1>0, <1>1, <1>3, <1>4, KnownAgrees DEF Sighted, Present, Agree, Indexed

LEMMA ReadAndStageSights ==
  ASSUME Truthful, Sights, NEW p \in Procs, ReadAndStage(p), NEW f \in Paths
  PROVE  Sighted(f)'
<1>0. TypeOK /\ Sighted(f) /\ UNCHANGED <<files, rows, raced>>
  BY DEF Truthful, Typed, Sights, ReadAndStage, Board
<1>1. \A q \in Procs : proc'[q].view = proc[q].view
  BY <1>0, ReadAndStageIs DEF Left
<1>2. (Viewed(f)' <=> Viewed(f)) /\ (Known(f)' <=> Known(f))
  BY <1>0, <1>1 DEF Viewed, Known
<1>3. ASSUME NEW q \in Procs, NEW s \in proc'[q].staged, s \notin proc[q].staged, s[1] = f
      PROVE  s[2] = files[f]
  <2>1. q = p
    BY <1>0, <1>3, ReadAndStageIs DEF Left
  <2> QED
    BY <1>0, <1>3, <2>1, ReadAndStageIs
<1> QED
  BY <1>0, <1>2, <1>3 DEF Sighted, Present, Agree, Indexed

\* Nobody has anything staged while another writes.
LEMMA OneWriter ==
  ASSUME TypeOK, Dated, NEW p \in Procs, writer \in {Nobody, p}
  PROVE  \A q \in Procs \ {p} : proc[q].staged = {}
BY ConstantsFit DEF Dated, Fits

LEMMA UpsertRowSights ==
  ASSUME Truthful, Sights, NEW p \in Procs, UpsertRow(p), NEW f \in Paths
  PROVE  Sighted(f)'
<1>0. TypeOK /\ Dated /\ Sighted(f) /\ Settled /\ UNCHANGED files
  BY WritersSettle DEF Truthful, Typed, Sights, UpsertRow
<1>1. CASE f = proc[p].at
  <2>1. \A q \in Procs : proc'[q].staged = {}
    BY <1>0, ConstantsFit DEF UpsertRow, Dated, Fits, Settled
  <2>2. Agree(f)'
    <3>1. rows'[f].status = proc[p].text.status
      BY <1>0, <1>1 DEF UpsertRow, TypeOK
    <3>2. f \notin raced' => files'[f] = proc[p].text
      BY <1>1 DEF UpsertRow
    <3> QED
      BY <3>1, <3>2 DEF Agree
  <2> QED
    BY <2>1, <2>2 DEF Sighted
<1>2. CASE f # proc[p].at
  <2>1. rows'[f] = rows[f] /\ (f \in raced => f \in raced')
    BY <1>0, <1>2 DEF UpsertRow, TypeOK
  <2> QED
    BY <1>0, <2>1, SightsStay
<1> QED
  BY <1>1, <1>2

LEMMA CommitSights ==
  ASSUME Truthful, Sights, NEW p \in Procs, Commit(p), NEW f \in Paths
  PROVE  Sighted(f)'
<1>0. TypeOK /\ Dated /\ Sighted(f) /\ Settled /\ UNCHANGED files /\ Committed(p)
  BY CommitIs, EndsSettle DEF Truthful, Typed, Sights, Commit
<1>1. CASE f \in Pruned(p) \cup StagedAt(p)
  <2>1. \A q \in Procs : proc'[q].staged = {}
    <3>1. \A q \in Procs \ {p} : proc[q].staged = {}
      BY <1>0, <1>1, OneWriter DEF Committed
    <3> QED
      BY <1>0, <3>1, CommitLeaves DEF Settled
  <2>2. ASSUME Present(f), Viewed(f)' PROVE Agree(f)'
    <3>1. Viewed(f)
      BY <1>0, <2>2, Mtimes, AbsentIsNoFile DEF Settled, Viewed
    <3>2. CASE f \in Pruned(p)
      BY <1>0, <3>2 DEF Committed, Agree, Indexed
    <3>3. CASE f \notin Pruned(p) /\ f \in StagedAt(p)
      <4>1. rows'[f].status = StagedFor(p, f)[2].status
        BY <1>0, <3>3 DEF Committed
      <4>2. StagedFor(p, f)[2] = files[f]
        BY <1>0, <2>2, <3>1, <3>3, StagedForIs DEF Sighted, Known
      <4> QED
        BY <1>0, <4>1, <4>2 DEF Agree
    <3> QED
      BY <1>1, <3>2, <3>3
  <2> QED
    BY <1>0, <2>1, <2>2 DEF Sighted, Present
<1>2. CASE f \notin Pruned(p) \cup StagedAt(p)
  <2>1. rows'[f] = rows[f] /\ (f \in raced => f \in raced')
    BY <1>0, <1>2 DEF Committed
  <2> QED
    BY <1>0, <2>1, SightsStay
<1> QED
  BY <1>1, <1>2

LEMMA SightsStep ==
  ASSUME Truthful, Sights, [Next]_vars
  PROVE  Sights'
<1>0. TypeOK /\ Typed /\ Dated
  BY DEF Truthful, Typed
<1>1. SUFFICES ASSUME NEW f \in Paths PROVE Sighted(f)'
  BY DEF Sights
<1>2. Sighted(f)
  BY DEF Sights
<1>3. ASSUME NEW p \in Procs, Probe(p) \/ ReadAndStage(p) \/ UpsertRow(p) \/ Commit(p)
      PROVE  Sighted(f)'
  BY <1>3, ProbeSights, ReadAndStageSights, UpsertRowSights, CommitSights
<1>4. ASSUME NEW g, NEW file, Writes(g, file), Settled, UNCHANGED <<rows, raced>> PROVE Sighted(f)'
  <2>1. CASE f = g
    BY <1>0, <1>4, <2>1, WrittenUnknown DEF Sighted, Known
  <2>2. CASE f # g
    BY <1>0, <1>2, <1>4, <2>2, WritesAdd, SightsStay
  <2> QED
    BY <2>1, <2>2
<1>5. ASSUME NEW p \in Procs, WriteNote(p) \/ RewriteOld(p) PROVE Sighted(f)'
  <2>1. Settled /\ UNCHANGED <<rows, raced>>
    BY <1>0, <1>5, WritersSettle DEF WriteNote, RewriteOld, Board
  <2> QED
    BY <1>0, <1>4, <1>5, <2>1, WriteNoteWrites, RewriteOldWrites
<1>6. ASSUME NEW p \in Procs,
             StatNote(p) \/ UpsertLinks(p) \/ ReadOld(p) \/ ListFiles(p) \/ Inject(p)
             \/ Fail(p) \/ Shown(p) \/ Die(p) \/ Observe(p) \/ BeginSync(p)
      PROVE  Sighted(f)'
  <2>1. Settled
    BY <1>0, <1>6, WritersSettle, EndsSettle
  <2>2. UNCHANGED <<files, rows>> /\ raced \subseteq raced'
    BY <1>6 DEF StatNote, UpsertLinks, ReadOld, ListFiles, Inject, Fail, Shown, Die, Observe,
                BeginSync, Board
  <2> QED
    BY <1>0, <1>2, <2>1, <2>2, SightsStay
<1>7. CASE Edit
  <2>1. PICK g \in Paths, file \in Files :
          Writes(g, file) /\ \A q \in Procs : Left(proc[q], proc'[q])
    BY <1>0, <1>7, EditWrites
  <2>2. Settled
    BY <2>1 DEF Settled, Left
  <2>3. UNCHANGED <<rows, raced>>
    BY <1>7 DEF Edit, Board
  <2> QED
    BY <1>4, <2>1, <2>2, <2>3
<1>8. CASE Delete
  <2>1. PICK g \in Paths : /\ files' = [files EXCEPT ![g] = Absent]
                           /\ \A q \in Procs : Left(proc[q], proc'[q])
    BY <1>0, <1>8, DeleteIs
  <2>2. Settled
    BY <2>1 DEF Settled, Left
  <2>3. UNCHANGED <<rows, raced>>
    BY <1>8 DEF Delete, Board
  <2>4. CASE f = g
    BY <1>0, <2>1, <2>4 DEF TypeOK, Sighted, Present
  <2>5. CASE f # g
    BY <1>0, <1>2, <2>1, <2>2, <2>3, <2>5, SightsStay DEF TypeOK
  <2> QED
    BY <2>4, <2>5
<1>9. CASE UNCHANGED vars
  BY <1>2, <1>9 DEF vars, Sighted, Present, Viewed, Known, Agree, Indexed
<1> QED
  BY <1>3, <1>5, <1>6, <1>7, <1>8, <1>9 DEF Next, Step

(* What a session that has just begun must not be shown.                    *)
Right(f) ==
  /\ f \in raced \/ ~Indexed(f) \/ rows[f].status = "superseded"
  /\ \A q \in Procs : \A s \in proc[q].staged : s[1] = f => s[2].status = "superseded"

Looked(l, f) ==
  \/ /\ l.pc \in {"scan", "read"} /\ f \notin l.todo /\ ~(l.pc = "read" /\ l.at = f)
     /\ \A s \in l.staged : s[1] # f
  \/ l.pc = "inject" /\ l.synced = TRUE

Old(f) == f \in In("projects") /\ Present(f) /\ files[f].status = "superseded"

\* Where a session is that must not show f.
Begun(l) ==
  /\ l.cmd = "session" /\ l.pc \in {"list", "scan", "read", "inject", "shown"}
  /\ l.pc = "list" => l.dirs = {"projects"} /\ l.synced = FALSE
  /\ l.pc \in {"scan", "read"} => l.dirs = {}

Recalls(p, f) ==
  /\ Old(f) /\ Begun(proc[p])
  /\ \A s \in proc[p].staged : s[1] = f => s[2].status = "superseded"
  /\ Looked(proc[p], f) => Right(f)
Retires ==
  /\ \A p \in Procs : proc[p].pc = "rewrite" => proc[p].text.status = "superseded"
  /\ \A p \in Procs : \A f \in proc[p].retired : Recalls(p, f)

Careful == Truthful /\ Sights /\ Retires

\* A note that a session has noted as retired stays so, as long as it is noted.
LEMMA OldStays ==
  ASSUME Careful, [Next]_vars, NEW q \in Procs, NEW f \in proc[q].retired, f \in proc'[q].retired
  PROVE  Old(f)'
<1>0. TypeOK /\ Typed /\ Old(f) /\ f \in Paths
  BY DEF Careful, Truthful, Typed, Retires, Recalls, Old, In
<1>1. CASE files'[f] = files[f]
  BY <1>0, <1>1 DEF Old, Present
<1>2. ASSUME NEW g, NEW file, Writes(g, file), f = g => file.status = "superseded" PROVE Old(f)'
  <2>1. CASE f = g
    BY <1>0, <1>2, <2>1, WritesAdd DEF Old
  <2>2. CASE f # g
    BY <1>0, <1>1, <1>2, <2>2, WritesAdd
  <2> QED
    BY <2>1, <2>2
<1>3. ASSUME NEW p \in Procs, WriteNote(p) PROVE Old(f)'
  BY <1>0, <1>2, <1>3, WriteNoteWrites, WriteNoteIs
<1>4. ASSUME NEW p \in Procs, RewriteOld(p) PROVE Old(f)'
  <2>1. proc[p].text.status = "superseded"
    BY <1>4 DEF Careful, Retires, RewriteOld
  <2> QED
    BY <1>0, <1>2, <1>4, <2>1, RewriteOldWrites
<1>5. ASSUME NEW p \in Procs, Reads(p) PROVE Old(f)'
  BY <1>1, <1>5, ReadsLeaveFiles
<1>6. CASE Edit
  <2>1. PICK g \in Paths, file \in Files :
          Writes(g, file) /\ \A p \in Procs : file.status = "active" => g \notin proc'[p].retired
    BY <1>0, <1>6, EditWrites
  <2>2. file.status \in {"active", "superseded"}
    BY DEF Files, Status
  <2> QED
    BY <1>2, <2>1, <2>2
<1>7. CASE Delete
  <2>1. PICK g \in Paths : /\ files' = [files EXCEPT ![g] = Absent]
                           /\ \A p \in Procs : g \notin proc'[p].retired
    BY <1>0, <1>7, DeleteIs
  <2> QED
    BY <1>0, <1>1, <2>1 DEF TypeOK
<1>8. CASE UNCHANGED vars
  BY <1>1, <1>8 DEF vars
<1> QED
  BY <1>3, <1>4, <1>5, <1>6, <1>7, <1>8, StepsAre

\* The index goes on to have right what it had right.
LEMMA RightStays ==
  ASSUME Careful, [Next]_vars, NEW f \in Paths, Old(f), Right(f)
  PROVE  Right(f)'
<1>0. TypeOK /\ Typed /\ Dated
  BY DEF Careful, Truthful, Typed
<1>1. ASSUME Settled, rows'[f] = rows[f], f \in raced => f \in raced' PROVE Right(f)'
  BY <1>1 DEF Right, Settled, Indexed
<1>2. ASSUME NEW p \in Procs, UpsertRow(p) PROVE Right(f)'
  <2>1. Settled
    BY <1>0, <1>2, WritersSettle
  <2>2. CASE f = proc[p].at
    <3>1. rows'[f].status = proc[p].text.status
      BY <1>0, <1>2, <2>2 DEF UpsertRow, TypeOK
    <3>2. f \notin raced' => files[f] = proc[p].text
      BY <1>2, <2>2 DEF UpsertRow
    <3> QED
      BY <2>1, <3>1, <3>2 DEF Right, Settled, Old
  <2>3. CASE f # proc[p].at
    <3>1. rows'[f] = rows[f] /\ (f \in raced => f \in raced')
      BY <1>0, <1>2, <2>3 DEF UpsertRow, TypeOK
    <3> QED
      BY <1>1, <2>1, <3>1
  <2> QED
    BY <2>2, <2>3
<1>3. ASSUME NEW p \in Procs, Commit(p) PROVE Right(f)'
  <2>1. Settled
    BY <1>0, <1>3, EndsSettle
  <2>2. CASE rows'[f] = NoRow
    BY <2>1, <2>2 DEF Right, Settled, Indexed
  <2>3. ASSUME NEW s \in proc[p].staged, s[1] = f,
               rows'[f] = [note |-> s[2].note, status |-> s[2].status, mtime |-> s[3]]
        PROVE  Right(f)'
    <3>1. rows'[f].status = s[2].status /\ s[2].status = "superseded"
      BY <2>3 DEF Right
    <3> QED
      BY <2>1, <3>1 DEF Right, Settled
  <2>4. CASE rows'[f] = rows[f] /\ (f \in raced' <=> f \in raced)
    BY <1>1, <2>1, <2>4
  <2> QED
    BY <1>0, <1>3, <2>2, <2>3, <2>4, CommitWrites
<1>4. ASSUME NEW p \in Procs, ReadAndStage(p) PROVE Right(f)'
  <2>1. UNCHANGED <<rows, raced>>
    BY <1>4 DEF ReadAndStage, Board
  <2>2. ASSUME NEW q \in Procs, NEW s \in proc'[q].staged, s \notin proc[q].staged, s[1] = f
        PROVE  s[2] = files[f]
    <3>1. q = p
      BY <1>0, <1>4, <2>2, ReadAndStageIs DEF Left
    <3> QED
      BY <1>0, <1>4, <2>2, <3>1, ReadAndStageIs
  <2> QED
    BY <2>1, <2>2 DEF Right, Indexed, Old
<1>5. ASSUME NEW p \in Procs, Probe(p) PROVE Right(f)'
  <2>1. UNCHANGED <<rows, raced>> /\ \A q \in Procs : proc'[q].staged = proc[q].staged
    BY <1>0, <1>5, ProbeIs DEF Left, Probe, Board
  <2> QED
    BY <2>1 DEF Right, Indexed
<1>6. ASSUME NEW p \in Procs,
             WriteNote(p) \/ StatNote(p) \/ UpsertLinks(p) \/ ReadOld(p) \/ RewriteOld(p)
             \/ ListFiles(p) \/ Inject(p)
             \/ Fail(p) \/ Shown(p) \/ Die(p) \/ Observe(p) \/ BeginSync(p)
      PROVE  Right(f)'
  <2>1. Settled
    BY <1>0, <1>6, WritersSettle, EndsSettle
  <2>2. UNCHANGED rows /\ raced \subseteq raced'
    BY <1>6 DEF WriteNote, StatNote, UpsertLinks, ReadOld, RewriteOld, ListFiles, Inject, Fail,
                Shown, Die, Observe, BeginSync, Board
  <2> QED
    BY <1>1, <2>1, <2>2
<1>7. CASE Edit \/ Delete
  <2>1. \A q \in Procs : Left(proc[q], proc'[q])
    BY <1>0, <1>7, EditIs, DeleteIs
  <2>2. UNCHANGED <<rows, raced>>
    BY <1>7 DEF Edit, Delete, Board
  <2> QED
    BY <1>1, <2>1, <2>2 DEF Settled, Left
<1>8. CASE UNCHANGED vars
  BY <1>8 DEF vars, Right, Indexed
<1> QED
  BY <1>2, <1>3, <1>4, <1>5, <1>6, <1>7, <1>8 DEF Next, Step

LEMMA OthersRecall ==
  ASSUME Careful, [Next]_vars, NEW q \in Procs, Left(proc[q], proc'[q]), NEW f \in proc'[q].retired
  PROVE  Recalls(q, f)'
<1>1. f \in proc[q].retired /\ Recalls(q, f) /\ Old(f) /\ f \in Paths
  BY DEF Left, Careful, Retires, Recalls, Old, In
<1>2. Old(f)' /\ (Right(f) => Right(f)')
  BY <1>1, OldStays, RightStays
<1>3. Begun(proc[q]) => Begun(proc'[q])
  BY DEF Begun, Left
<1>4. Looked(proc'[q], f) => Looked(proc[q], f)
  BY DEF Looked, Left
<1> QED
  BY <1>1, <1>2, <1>3, <1>4 DEF Recalls, Left

\* What the sync itself does about a note that the session must not show.
LEMMA ListFilesRecalls ==
  ASSUME Careful, [Next]_vars, NEW p \in Procs, ListFiles(p), NEW f \in proc'[p].retired
  PROVE  Recalls(p, f)'
<1>0. TypeOK /\ proc[p].pc = "list"
  BY DEF Careful, Truthful, Typed, ListFiles
<1>1. Outside(proc[p], proc'[p])
  BY <1>0, ListFilesIs DEF Advances
<1>2. f \in proc[p].retired /\ Recalls(p, f) /\ Old(f)'
  BY <1>1, OldStays DEF Outside, Careful, Retires
<1>3. Begun(proc[p]) /\ Old(f)
  BY <1>2 DEF Recalls
<1>4. CASE proc'[p].pc = "inject" /\ Advances(proc[p], proc'[p])
  <2>1. Begun(proc'[p])
    BY <1>0, <1>3, <1>4 DEF Begun, Advances
  <2>2. ~Looked(proc'[p], f)
    BY <1>0, <1>3, <1>4 DEF Begun, Looked, Advances
  <2> QED
    BY <1>1, <1>2, <2>1, <2>2 DEF Recalls, Outside
<1>5. ASSUME NEW d \in proc[p].dirs, proc'[p].pc = "scan", proc'[p].cmd = proc[p].cmd,
             proc'[p].dirs = proc[p].dirs \ {d},
             proc'[p].todo = {g \in In(d) : Present(g)}
      PROVE  Recalls(p, f)'
  <2>1. d = "projects" /\ proc'[p].dirs = {}
    BY <1>0, <1>3, <1>5 DEF Begun
  <2>2. Begun(proc'[p])
    BY <1>3, <1>5, <2>1 DEF Begun
  <2>3. f \in proc'[p].todo
    BY <1>3, <1>5, <2>1 DEF Old
  <2>4. ~Looked(proc'[p], f)
    BY <1>5, <2>3 DEF Looked
  <2> QED
    BY <1>1, <1>2, <2>2, <2>4 DEF Recalls, Outside
<1> QED
  BY <1>0, <1>4, <1>5, ListFilesIs

LEMMA ProbeRecalls ==
  ASSUME Careful, [Next]_vars, NEW p \in Procs, Probe(p), NEW f \in proc'[p].retired
  PROVE  Recalls(p, f)'
<1>0. TypeOK /\ Truthful /\ Sights /\ proc[p].pc = "scan"
  BY DEF Careful, Truthful, Typed, Probe
<1> DEFINE l == proc[p]  m == proc'[p]
<1>1. /\ m.staged = l.staged /\ m.retired = l.retired /\ m.cmd = l.cmd /\ m.dirs = l.dirs
  BY <1>0, ProbeIs
<1>2. f \in l.retired /\ Recalls(p, f) /\ Old(f)'
  BY <1>1, OldStays DEF Careful, Retires
<1>3. Begun(l) /\ Old(f) /\ f \in Paths
  BY <1>2 DEF Recalls, Old, In
<1>4. PICK g \in l.todo :
        /\ m.todo = l.todo \ {g}
        /\ \/ m.pc = "scan" /\ View(p)[g] # NoRow /\ View(p)[g].mtime = files[g].mtime
           \/ m.pc = "read" /\ m.at = g
  BY <1>0, ProbeIs
<1>5. Begun(m)
  BY <1>0, <1>1, <1>3, <1>4 DEF Begun
<1>6. ASSUME Looked(m, f) PROVE Right(f)
  <2>1. CASE f # g
    BY <1>0, <1>1, <1>2, <1>4, <1>6, <2>1 DEF Looked, Recalls
  <2>2. CASE f = g
    <3>1. View(p)[f].mtime = files[f].mtime
      BY <1>4, <1>6, <2>2 DEF Looked
    <3>2. Known(f)
      BY <1>3, <3>1 DEF View, Known, Viewed
    <3>3. Agree(f)
      BY <1>0, <1>3, <3>2, KnownAgrees DEF Old
    <3>4. \A q \in Procs : \A s \in proc[q].staged : s[1] = f => s[2] = files[f]
      BY <1>0, <1>3, <3>2 DEF Sights, Sighted, Old
    <3> QED
      BY <1>3, <3>3, <3>4 DEF Right, Agree, Old
  <2> QED
    BY <2>1, <2>2
<1>7. Looked(m, f) => Right(f)'
  BY <1>3, <1>6, RightStays
<1> QED
  BY <1>1, <1>2, <1>5, <1>7 DEF Recalls

LEMMA ReadAndStageRecalls ==
  ASSUME Careful, [Next]_vars, NEW p \in Procs, ReadAndStage(p), NEW f \in proc'[p].retired
  PROVE  Recalls(p, f)'
<1>0. TypeOK /\ proc[p].pc = "read"
  BY DEF Careful, Truthful, Typed, ReadAndStage
<1> DEFINE l == proc[p]  m == proc'[p]
<1>1. /\ m.pc = "scan" /\ m.retired = l.retired /\ m.cmd = l.cmd /\ m.dirs = l.dirs
      /\ m.todo = l.todo
      /\ \/ Present(l.at) /\ m.staged = l.staged \cup {<<l.at, files[l.at], l.mtime>>}
         \/ ~Present(l.at) /\ m.staged = l.staged
  BY <1>0, ReadAndStageIs
<1>2. f \in l.retired /\ Recalls(p, f) /\ Old(f)'
  BY <1>1, OldStays DEF Careful, Retires
<1>3. Begun(l) /\ Old(f) /\ f \in Paths
  BY <1>2 DEF Recalls, Old, In
<1>4. Begun(m)
  BY <1>0, <1>1, <1>3 DEF Begun
<1>5. \A s \in m.staged : s[1] = f => s[2].status = "superseded"
  BY <1>1, <1>2, <1>3 DEF Recalls, Old
<1>6. Looked(m, f) => Right(f)
  <2>1. SUFFICES ASSUME Looked(m, f) PROVE Looked(l, f)
    BY <1>2 DEF Recalls
  <2>2. f \notin l.todo /\ \A s \in m.staged : s[1] # f
    BY <1>1, <2>1 DEF Looked
  <2>3. l.at # f
    <3>1. SUFFICES ASSUME l.at = f PROVE FALSE
      OBVIOUS
    <3>2. <<l.at, files[l.at], l.mtime>> \in m.staged
      BY <1>1, <1>3, <3>1 DEF Old
    <3> QED
      BY <2>2, <3>1, <3>2
  <2> QED
    BY <1>0, <1>1, <2>2, <2>3 DEF Looked
<1>7. Looked(m, f) => Right(f)'
  BY <1>3, <1>6, RightStays
<1> QED
  BY <1>2, <1>4, <1>5, <1>7 DEF Recalls

LEMMA CommitRecalls ==
  ASSUME Careful, [Next]_vars, NEW p \in Procs, Commit(p), NEW f \in proc'[p].retired
  PROVE  Recalls(p, f)'
<1>0. TypeOK /\ Dated /\ Committed(p) /\ proc[p].pc = "scan" /\ proc[p].todo = {}
  BY CommitIs DEF Careful, Truthful, Typed, Commit
<1> DEFINE l == proc[p]  m == proc'[p]
<1>1. /\ m.retired = l.retired /\ m.cmd = l.cmd /\ m.dirs = l.dirs /\ m.staged = {}
      /\ m.pc = IF l.dirs = {} THEN "inject" ELSE "list"
  BY <1>0, CommitLeaves, IdleIs
<1>2. f \in l.retired /\ Recalls(p, f) /\ Old(f)'
  BY <1>1, OldStays DEF Careful, Retires
<1>3. Begun(l) /\ Old(f) /\ f \in Paths
  BY <1>2 DEF Recalls, Old, In
<1>4. Begun(m) /\ m.pc = "inject"
  BY <1>0, <1>1, <1>3 DEF Begun
<1>5. Right(f)'
  <2>1. CASE f \in StagedAt(p)
    <3>1. \A q \in Procs : proc'[q].staged = {}
      <4>1. \A q \in Procs \ {p} : proc[q].staged = {}
        BY <1>0, <2>1, OneWriter DEF Committed
      <4> QED
        BY <1>0, <1>1, <4>1, CommitLeaves DEF Left
    <3>2. CASE f \in Pruned(p)
      BY <1>0, <1>3, <3>1, <3>2 DEF Committed, Right, Indexed
    <3>3. CASE f \notin Pruned(p)
      <4>1. rows'[f].status = StagedFor(p, f)[2].status
        BY <1>0, <1>3, <2>1, <3>3 DEF Committed
      <4>2. StagedFor(p, f)[2].status = "superseded"
        BY <1>2, <2>1, StagedForIs DEF Recalls
      <4> QED
        BY <3>1, <4>1, <4>2 DEF Right
    <3> QED
      BY <3>2, <3>3
  <2>2. CASE f \notin StagedAt(p)
    <3>1. Looked(l, f)
      BY <1>0, <2>2 DEF Looked, StagedAt
    <3> QED
      BY <1>2, <1>3, <3>1, RightStays DEF Recalls
  <2> QED
    BY <2>1, <2>2
<1> QED
  BY <1>1, <1>2, <1>4, <1>5 DEF Recalls

LEMMA InjectRecalls ==
  ASSUME Careful, [Next]_vars, NEW p \in Procs, Inject(p), NEW f \in proc'[p].retired
  PROVE  Recalls(p, f)'
<1>0. TypeOK
  BY DEF Careful, Truthful, Typed
<1>1. proc'[p].pc = "shown" /\ Advances(proc[p], proc'[p])
  BY <1>0, InjectIs
<1>2. f \in proc[p].retired /\ Recalls(p, f) /\ Old(f)'
  BY <1>1, OldStays DEF Advances, Outside, Careful, Retires
<1>3. Begun(proc'[p]) /\ ~Looked(proc'[p], f)
  BY <1>1, <1>2 DEF Recalls, Begun, Looked, Advances
<1> QED
  BY <1>1, <1>2, <1>3 DEF Recalls, Advances, Outside

LEMMA BeginRecalls ==
  ASSUME Careful, [Next]_vars, NEW p \in Procs, Observe(p) \/ BeginSync(p),
         NEW f \in proc'[p].retired
  PROVE  Recalls(p, f)'
<1>0. TypeOK /\ UNCHANGED files
  BY DEF Careful, Truthful, Typed, Observe, BeginSync
<1>1. /\ Fresh(proc'[p]) /\ f \in Retired
      /\ proc'[p].pc = "list" /\ proc'[p].cmd = "session" /\ proc'[p].dirs = {"projects"}
  BY <1>0, BeginIs
<1>2. Old(f)'
  BY <1>0, <1>1, AbsentIsNoFile DEF Retired, Old, Present
<1>3. Begun(proc'[p]) /\ ~Looked(proc'[p], f)
  BY <1>1 DEF Begun, Looked, Fresh
<1> QED
  BY <1>1, <1>2, <1>3 DEF Recalls, Fresh

LEMMA OthersLeft ==
  ASSUME TypeOK, NEW p \in Procs, Observe(p) \/ BeginSync(p) \/ Step(p) \/ Die(p)
  PROVE  \A q \in Procs \ {p} : Left(proc[q], proc'[q])
<1>1. CASE Observe(p) \/ BeginSync(p) \/ Fail(p) \/ Shown(p) \/ Die(p)
  BY <1>1, BeginIs, EndIs
<1>2. CASE WriteNote(p) \/ StatNote(p) \/ UpsertRow(p) \/ UpsertLinks(p) \/ ReadOld(p)
           \/ RewriteOld(p)
  BY <1>2, WriteNoteIs, StatNoteIs, UpsertRowIs, UpsertLinksIs, ReadOldIs, RewriteOldIs
<1>3. CASE ListFiles(p) \/ Probe(p) \/ ReadAndStage(p) \/ Commit(p) \/ Inject(p)
  BY <1>3, ListFilesIs, ProbeIs, ReadAndStageIs, CommitLeaves, InjectIs
<1> QED
  BY <1>1, <1>2, <1>3 DEF Step

LEMMA ReadOldAlone ==
  ASSUME TypeOK, NEW p \in Procs, Observe(p) \/ BeginSync(p) \/ Step(p) \/ Die(p),
         proc'[p].pc = "rewrite"
  PROVE  ReadOld(p)
<1>1. ~Observe(p) /\ ~BeginSync(p) /\ ~Fail(p) /\ ~Shown(p) /\ ~Die(p)
  BY BeginIs, EndIs, IdleIs
<1>2. ~WriteNote(p) /\ ~StatNote(p) /\ ~UpsertRow(p) /\ ~UpsertLinks(p) /\ ~RewriteOld(p)
  BY WriteNoteIs, StatNoteIs, UpsertRowIs, UpsertLinksIs, RewriteOldIs, IdleIs
<1>3. ~ListFiles(p) /\ ~Probe(p) /\ ~ReadAndStage(p) /\ ~Commit(p) /\ ~Inject(p)
  BY ListFilesIs, ProbeIs, ReadAndStageIs, CommitLeaves, InjectIs, IdleIs
<1> QED
  BY <1>1, <1>2, <1>3 DEF Step

LEMMA RetiresStep ==
  ASSUME Careful, [Next]_vars
  PROVE  Retires'
<1>0. TypeOK /\ Typed
  BY DEF Careful, Truthful, Typed
<1>1. ASSUME NEW p \in Procs, Observe(p) \/ BeginSync(p) \/ Step(p) \/ Die(p) PROVE Retires'
  <2>1. \A q \in Procs \ {p} : Left(proc[q], proc'[q])
    BY <1>0, <1>1, OthersLeft
  <2>2. ASSUME NEW f \in proc'[p].retired PROVE Recalls(p, f)'
    <3>1. CASE WriteNote(p) \/ StatNote(p) \/ UpsertRow(p) \/ UpsertLinks(p) \/ ReadOld(p)
               \/ RewriteOld(p)
      <4>1. f \in proc[p].retired \/ proc'[p] = Idle
        BY <1>0, <2>2, <3>1, WriteNoteIs, StatNoteIs, UpsertRowIs, UpsertLinksIs, ReadOldIs,
           RewriteOldIs DEF Outside, Advances
      <4>2. Begun(proc[p])
        BY <2>2, <4>1, IdleIs DEF Careful, Retires, Recalls
      <4>3. proc[p].pc \in {"write", "stat", "row", "links", "retire", "rewrite"}
        BY <3>1 DEF WriteNote, StatNote, UpsertRow, UpsertLinks, ReadOld, RewriteOld
      <4> QED
        BY <4>2, <4>3 DEF Begun
    <3>2. CASE Fail(p) \/ Shown(p) \/ Die(p)
      BY <1>0, <2>2, <3>2, EndIs, IdleIs
    <3> QED
      BY <1>1, <2>2, <3>1, <3>2, ListFilesRecalls, ProbeRecalls, ReadAndStageRecalls, CommitRecalls,
         InjectRecalls, BeginRecalls DEF Step
  <2>3. proc'[p].pc = "rewrite" => proc'[p].text.status = "superseded"
    <3>1. SUFFICES ASSUME proc'[p].pc = "rewrite" PROVE proc'[p].text.status = "superseded"
      OBVIOUS
    <3>2. ReadOld(p)
      BY <1>0, <1>1, <3>1, ReadOldAlone
    <3>3. proc'[p].text = Superseding(p) /\ Present(proc[p].old) /\ proc[p].old \in Paths
      BY <1>0, <3>1, <3>2, ReadOldIs, IdleIs DEF Typed, Sane, ReadOld, TypeOK, Proc
    <3>4. files[proc[p].old] \in Files
      BY <1>0, <3>3 DEF TypeOK, Present
    <3> QED
      BY <3>3, <3>4 DEF Superseding, Files
  <2>4. ASSUME NEW q \in Procs \ {p}, proc'[q].pc = "rewrite"
        PROVE  proc'[q].text.status = "superseded"
    BY <2>1, <2>4 DEF Left, Careful, Retires
  <2>5. ASSUME NEW q \in Procs \ {p}, NEW f \in proc'[q].retired PROVE Recalls(q, f)'
    BY <2>1, <2>5, OthersRecall
  <2> QED
    BY <2>2, <2>3, <2>4, <2>5 DEF Retires
<1>2. CASE \A q \in Procs : Left(proc[q], proc'[q])
  BY <1>2, OthersRecall DEF Retires, Careful, Left
<1>3. CASE Edit \/ Delete
  BY <1>0, <1>2, <1>3, EditIs, DeleteIs
<1>4. CASE UNCHANGED vars
  BY <1>2, <1>4 DEF vars, Left
<1> QED
  BY <1>1, <1>3, <1>4 DEF Next

LEMMA CarefulStep ==
  ASSUME Careful, [Next]_vars
  PROVE  Careful'
BY TruthfulStep, SightsStep, RetiresStep DEF Careful

LEMMA InitCareful == Init => Careful
<1> SUFFICES ASSUME Init PROVE Careful
  OBVIOUS
<1>1. \A p \in Procs : proc[p] = Idle
  BY DEF Init
<1>2. \A f \in Paths : ~Present(f)
  BY DEF Init, Present
<1> QED
  BY <1>1, <1>2, IdleIs, InitTruthful DEF Careful, Sights, Sighted, Retires

\* What a session shows.
LEMMA ShowsNoneRetired ==
  ASSUME Careful, [Next]_vars, NEW p \in Procs,
         proc[p].pc = "inject", proc'[p].pc = "shown", proc[p].synced
  PROVE  proc'[p].shown \cap proc[p].retired \subseteq raced
<1>0. TypeOK
  BY DEF Careful, Truthful, Typed
<1>1. Inject(p)
  <2>1. ~Left(proc[p], proc'[p])
    BY DEF Left
  <2>2. ~UNCHANGED vars /\ ~Edit /\ ~Delete
    BY <1>0, <2>1, EditIs, DeleteIs DEF vars
  <2>3. PICK q \in Procs : Observe(q) \/ BeginSync(q) \/ Step(q) \/ Die(q)
    BY <2>2 DEF Next
  <2>4. p = q
    BY <1>0, <2>1, <2>3, OthersLeft
  <2> QED
    BY <1>0, <2>3, <2>4, EndIs, IdleIs
    DEF Step, Observe, BeginSync, WriteNote, StatNote, UpsertRow, UpsertLinks, ReadOld, RewriteOld,
        ListFiles, Probe, ReadAndStage, Commit
<1>2. proc'[p].shown = {f \in In("projects") : Indexed(f) /\ rows[f].status = "active"}
  BY <1>0, <1>1, InjectIs
<1>3. proc[p].synced = TRUE
  BY <1>0 DEF TypeOK, Proc
<1>4. ASSUME NEW f \in proc[p].retired
      PROVE  f \in raced \/ ~Indexed(f) \/ rows[f].status = "superseded"
  <2>1. Looked(proc[p], f)
    BY <1>3 DEF Looked
  <2> QED
    BY <2>1 DEF Careful, Retires, Recalls, Right
<1> QED
  BY <1>2, <1>4

(* A note that was retired when a session began is not among what it is      *)
(* shown once it has synced, whoever else syncs, supersedes, edits or        *)
(* crashes meanwhile, unless somebody made it active again.                  *)
THEOREM RetiredNotesStay == Spec => RetiredNotesStayRetired
<1>1. Careful /\ [Next]_vars =>
        [\A p \in Procs : proc[p].pc = "inject" /\ proc'[p].pc = "shown" /\ proc[p].synced =>
           proc'[p].shown \cap proc[p].retired \subseteq raced]_vars
  BY ShowsNoneRetired
<1> QED
  BY <1>1, InitCareful, CarefulStep, PTL DEF Spec, RetiredNotesStayRetired

=============================================================================
