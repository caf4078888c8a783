-------------------------------- MODULE Vault --------------------------------
(***************************************************************************)
(* The memory vault (src/memory/write.rs, index.rs): notes are files, which *)
(* sessions and people write, and the index on the board is a cache of     *)
(* them, keyed on each file's mtime.  Writers rename a file into place,    *)
(* stat it and upsert its row, none of it under a lock; a session start    *)
(* re-reads what changed in one deferred transaction and injects what the  *)
(* index then says.                                                        *)
(***************************************************************************)
EXTENDS Naturals, FiniteSets

CONSTANTS
  Dirs,            \* the vault's directories: observations, failure captures
  Procs,           \* processes: commands and hooks
  Runs,            \* Runs[p] \subseteq Commands: what p runs, again and again
  SlugLimit,       \* how many suffixes free_slug tries (200)
  AutoIndexLimit,  \* the largest directory a session start re-indexes
  People,          \* may people edit and delete notes?
  MaxWrites,       \* bound: files ever written
  MaxDeaths,       \* bound: processes ever killed
  Nobody           \* the write lock of the board is free; also: no note

Writers  == {"observe", "supersede", "capture"}
Commands == Writers \cup {"session", "index"}

ASSUME VaultAssumption ==
  /\ "projects" \in Dirs /\ Dirs \subseteq {"projects", "captures"}
  /\ Runs \in [Procs -> SUBSET Commands]
  /\ \A p \in Procs : "capture" \in Runs[p] => "captures" \in Dirs
  /\ SlugLimit \in Nat \ {0} /\ AutoIndexLimit \in Nat /\ MaxWrites \in Nat
  /\ MaxDeaths \in Nat
  /\ People \in BOOLEAN
  /\ Nobody \notin Procs

\* One project, one title, one day: a note is its directory and its suffix.
Paths == Dirs \X (1..SlugLimit + 1)
In(d) == {f \in Paths : f[1] = d}
Times == 1..MaxWrites

VARIABLES
  files,    \* the vault: the note at each path, if there is one
  rows,     \* table notes, by vault_path
  links,    \* table note_links: the successor of each note, as indexed
  proc,     \* how far each process is
  writer,   \* the transaction that holds the write lock, if any
  clock,    \* the mtime of the last write: no two writes share one
  deaths,   \* how many processes were killed
  deleted,  \* history: successors that people deleted
  raced,    \* history: paths whose row a command wrote when the file was no
            \* longer the one it wrote
  torn      \* history: paths whose row was written by a process that died before
            \* it had written the links

vars == <<files, rows, links, proc, writer, clock, deaths, deleted, raced, torn>>
Board == <<rows, links>>

-----------------------------------------------------------------------------
Status == {"active", "superseded"}
Absent == [note |-> 0, status |-> "active", by |-> Nobody, mtime |-> 0]
\* note says which observation it is: when it was recorded.
Files  == [note: Times, status: Status, by: Paths \cup {Nobody}, mtime: Times]
NoRow  == [note |-> 0, status |-> "active", mtime |-> 0]
Rows   == [note: Times, status: Status, mtime: 0..MaxWrites]

Present(f) == files[f] # Absent
Indexed(f) == rows[f] # NoRow

Phases == {"idle", "write", "stat", "row", "links", "retire", "rewrite",
           "list", "scan", "read", "inject", "shown"}
Proc == [pc: Phases, cmd: {"session", "index"},
         at: Paths,                    \* the file being written, or read
         text: Files \cup {Absent},    \* what it holds, or held when read
         mtime: 0..MaxWrites,          \* as it was stat'ed
         old: Paths \cup {Nobody},     \* the note to supersede
         dirs: SUBSET Dirs,            \* directories still to sync
         dir: Dirs,
         todo: SUBSET Paths,           \* listed, and not yet looked at
         seen: SUBSET Paths,           \* listed
         staged: SUBSET (Paths \X Files \X (0..MaxWrites)),  \* upserted, not committed
         snapshot: {"none", "fresh", "stale"},
         view: [Paths -> Rows \cup {NoRow}],       \* that index, where yet to be looked at
         synced: BOOLEAN,
         retired: SUBSET Paths,        \* history: retired since it began
         shown: SUBSET Paths]
Idle ==
  [pc |-> "idle", cmd |-> "index", at |-> <<"projects", 1>>, text |-> Absent, mtime |-> 0,
   old |-> Nobody, dirs |-> {}, dir |-> "projects", todo |-> {}, seen |-> {},
   staged |-> {}, snapshot |-> "none", view |-> [f \in Paths |-> NoRow], synced |-> FALSE,
   retired |-> {}, shown |-> {}]

Become(p, local) == proc' = [proc EXCEPT ![p] = local]
Goto(p, pc)      == Become(p, [proc[p] EXCEPT !.pc = pc])
Done(p)          == Become(p, Idle)

\* A commit by p: the snapshots other transactions read from are stale.
AfterCommit(p, local) ==
  proc' = [q \in Procs |->
             IF q = p THEN local
             ELSE IF proc[q].snapshot = "fresh" THEN [proc[q] EXCEPT !.snapshot = "stale"]
             ELSE proc[q]]

\* A file written at f, by p or by a person: current if it is active.
Rename(f, file) ==
  /\ clock < MaxWrites
  /\ clock' = clock + 1
  /\ files' = [files EXCEPT ![f] = [file EXCEPT !.mtime = clock + 1]]

\* The notes that a session which starts now must not be shown, until somebody
\* makes one active again.
Retired == {f \in In("projects") : files[f].status = "superseded"}
Revive(f, status, local) ==
  [q \in Procs |-> IF status = "active" THEN [local[q] EXCEPT !.retired = @ \ {f}]
                   ELSE local[q]]

-----------------------------------------------------------------------------
Init ==
  /\ files = [f \in Paths |-> Absent]
  /\ rows = [f \in Paths |-> NoRow]
  /\ links = [f \in Paths |-> Nobody]
  /\ proc = [p \in Procs |-> Idle]
  /\ writer = Nobody
  /\ clock = 0
  /\ deaths = 0
  /\ deleted = {}
  /\ raced = {} /\ torn = {}

\* One suffix too many.
FreeSlugFault(d) ==
  LET free == {f \in In(d) : ~Present(f)} IN
  IF free = {} THEN <<d, SlugLimit + 2>>
  ELSE CHOOSE f \in free : \A g \in free : f[2] <= g[2]

\* The first name that no file has, or the last one there is.
FreeSlug(d) ==
  LET free == {f \in In(d) : ~Present(f)} IN
  IF free = {} THEN <<d, SlugLimit + 1>>
  ELSE CHOOSE f \in free : \A g \in free : f[2] <= g[2]

DirOf(cmd) == IF cmd = "capture" THEN "captures" ELSE "projects"

\* The note to supersede, if the command names one.
Targets(cmd) == IF cmd = "supersede" THEN {f \in Paths : Indexed(f)} ELSE {Nobody}

\* Retires the old note first.
ObserveFault(p) ==
  /\ proc[p].pc = "idle"
  /\ \E cmd \in Runs[p] \cap Writers : \E old \in Targets(cmd) :
       Become(p, [Idle EXCEPT !.pc = IF old = Nobody THEN "write" ELSE "retire",
                    !.old = old, !.at = FreeSlug(DirOf(cmd))])
  /\ UNCHANGED <<files, Board, writer, clock, deaths, deleted, raced, torn>>

(* observe().  Everything that can fail is resolved before anything is     *)
(* written; the name of the note is one that no file has by now.  Captures *)
(* are recorded by the failure hook, and supersede none.                   *)
Observe(p) ==
  /\ proc[p].pc = "idle"
  /\ \E cmd \in Runs[p] \cap Writers : \E old \in Targets(cmd) :
       Become(p, [Idle EXCEPT !.pc = "write", !.old = old, !.at = FreeSlug(DirOf(cmd))])
  /\ UNCHANGED <<files, Board, writer, clock, deaths, deleted, raced, torn>>

(* write_private(): the rename puts the whole note there at once, whatever *)
(* is there by now.                                                        *)
WriteNote(p) ==
  /\ proc[p].pc = "write"
  /\ LET f    == proc[p].at
         note == [note |-> clock + 1, status |-> "active", by |-> Nobody, mtime |-> clock + 1]
     IN /\ Rename(f, note)
        /\ proc' = Revive(f, "active",
                     [proc EXCEPT ![p].pc = "stat", ![p].text = note])
  /\ UNCHANGED <<Board, writer, deaths, deleted, raced, torn>>

\* file_mtime(): what the path holds now, or 0.
StatNote(p) ==
  /\ proc[p].pc = "stat"
  /\ Become(p, [proc[p] EXCEPT !.pc = "row", !.mtime = files[proc[p].at].mtime])
  /\ UNCHANGED <<files, Board, writer, clock, deaths, deleted, raced, torn>>

\* upsert(), outside a transaction: each statement commits by itself.
UpsertRow(p) ==
  /\ proc[p].pc = "row"
  /\ writer = Nobody
  /\ rows' = [rows EXCEPT ![proc[p].at] =
                [note |-> proc[p].text.note, status |-> proc[p].text.status,
                 mtime |-> proc[p].mtime]]
  /\ AfterCommit(p, [proc[p] EXCEPT !.pc = "links"])
  /\ raced' = IF files[proc[p].at] = proc[p].text THEN raced \ {proc[p].at}
              ELSE raced \cup {proc[p].at}
  /\ UNCHANGED <<files, links, writer, clock, deaths, deleted, torn>>

\* What remains of the command: to retire the old note, unless this was that.
Rest(p) == IF proc[p].old # Nobody /\ proc[p].text.by = Nobody
           THEN [proc[p] EXCEPT !.pc = "retire"] ELSE Idle

\* note_paths and note_links are deleted and inserted anew.  A foreign key
\* refuses the paths of a row that was pruned meanwhile, if the note has any;
\* nothing ties a link to a row.
UpsertLinks(p) ==
  LET f == proc[p].at IN
  /\ proc[p].pc = "links"
  /\ writer = Nobody
  /\ \/ /\ links' = [links EXCEPT ![f] = proc[p].text.by]
        /\ AfterCommit(p, Rest(p))
        /\ torn' = torn \ {f}
     \/ ~Indexed(f) /\ Done(p) /\ UNCHANGED <<links, torn>>
  /\ raced' = IF Indexed(f) /\ (rows[f].mtime # proc[p].mtime \/ files[f] # proc[p].text)
              THEN raced \cup {f} ELSE raced
  /\ UNCHANGED <<files, rows, writer, clock, deaths, deleted>>

(* supersede(): the row says where the old note is, the file what it says. *)
(* A file that is gone or does not parse is passed over.                   *)
ReadOld(p) ==
  /\ proc[p].pc = "retire"
  /\ LET f == proc[p].old IN
     IF Indexed(f) /\ Present(f)
     THEN Become(p, [proc[p] EXCEPT !.pc = "rewrite", !.at = f,
                       !.text = [files[f] EXCEPT !.status = "superseded", !.by = proc[p].at]])
     ELSE Done(p)
  /\ UNCHANGED <<files, Board, writer, clock, deaths, deleted, raced, torn>>

RewriteOld(p) ==
  /\ proc[p].pc = "rewrite"
  /\ Rename(proc[p].at, proc[p].text)
  /\ Become(p, [proc[p] EXCEPT !.pc = "stat", !.text.mtime = clock + 1])
  /\ UNCHANGED <<Board, writer, deaths, deleted, raced, torn>>

-----------------------------------------------------------------------------
(* sync_dir().  A session start syncs its project's observations, and      *)
(* `amb memory index` every directory in turn.                             *)
BeginSync(p) ==
  /\ proc[p].pc = "idle"
  /\ \E cmd \in Runs[p] \cap {"session", "index"} :
       Become(p, [Idle EXCEPT !.pc = "list", !.cmd = cmd,
                    !.retired = IF cmd = "session" THEN Retired ELSE {},
                    !.dirs = IF cmd = "session" THEN {"projects"} ELSE Dirs])
  /\ UNCHANGED <<files, Board, writer, clock, deaths, deleted, raced, torn>>

\* read_dir(), before the transaction is opened.
ListFiles(p) ==
  /\ proc[p].pc = "list"
  /\ \E d \in proc[p].dirs :
       LET listed == {f \in In(d) : Present(f)} IN
       IF proc[p].cmd = "session" /\ Cardinality(listed) > AutoIndexLimit
       THEN Goto(p, "inject")
       ELSE Become(p, [proc[p] EXCEPT !.pc = "scan", !.dir = d, !.dirs = @ \ {d},
                         !.todo = listed, !.seen = listed])
  /\ UNCHANGED <<files, Board, writer, clock, deaths, deleted, raced, torn>>

\* The index as the transaction sees it: its snapshot is taken at its first read.
View(p)  == IF proc[p].snapshot = "none" THEN rows ELSE proc[p].view
Pinned(p) == [proc[p] EXCEPT !.view = View(p),
                             !.snapshot = IF @ = "none" THEN "fresh" ELSE @]

\* stat, then the probe of the index.
Probe(p) ==
  /\ proc[p].pc = "scan"
  /\ \E f \in proc[p].todo :
       LET looked == [Pinned(p) EXCEPT !.todo = @ \ {f}, !.view[f] = NoRow]
           known  == View(p)[f]
       IN Become(p, IF known # NoRow /\ known.mtime = files[f].mtime THEN looked
                    ELSE [looked EXCEPT !.pc = "read", !.at = f, !.mtime = files[f].mtime])
  /\ UNCHANGED <<files, Board, writer, clock, deaths, deleted, raced, torn>>

\* On with the next file.
Scan(p) == [proc[p] EXCEPT !.pc = "scan", !.at = Idle.at, !.mtime = 0, !.text = Absent]

\* Stats the file when it was read, as the writers do once theirs is written.
ReadAndStageFault(p) ==
  LET f == proc[p].at IN
  /\ proc[p].pc = "read"
  /\ proc[p].text = Absent => (Present(f) => proc[p].snapshot = "fresh" /\ writer \in {Nobody, p})
  /\ IF Present(f) /\ proc[p].text = Absent
     THEN /\ writer' = p
          /\ Become(p, [proc[p] EXCEPT !.text = files[f]])
     ELSE /\ UNCHANGED writer
          /\ Become(p, [Scan(p) EXCEPT !.staged =
                IF proc[p].text # Absent /\ Present(f)
                THEN @ \cup {<<f, proc[p].text, files[f].mtime>>} ELSE @])
  /\ UNCHANGED <<files, Board, clock, deaths, deleted, raced, torn>>

\* The file is read and its row upserted; the first upsert of a transaction
\* takes the write lock, which a fresh snapshot may wait for.
ReadAndStage(p) ==
  LET f == proc[p].at IN
  /\ proc[p].pc = "read"
  /\ IF Present(f)
     THEN /\ proc[p].snapshot = "fresh"
          /\ writer \in {Nobody, p}
          /\ writer' = p
          /\ Become(p, [Scan(p) EXCEPT !.staged = @ \cup {<<f, files[f], proc[p].mtime>>}])
     ELSE Become(p, Scan(p)) /\ UNCHANGED writer
  /\ UNCHANGED <<files, Board, clock, deaths, deleted, raced, torn>>

\* Nothing is pruned.
PrunedFault(p) == {}

\* Rows of the directory whose file was not listed.
Pruned(p)   == {f \in In(proc[p].dir) : View(p)[f] # NoRow /\ f \notin proc[p].seen}
StagedAt(p) == {s[1] : s \in proc[p].staged}
StagedFor(p, f) == CHOOSE s \in proc[p].staged : s[1] = f

\* Prune, and commit what was staged: rows and links at once.  The links of a
\* pruned row stay.  A transaction that wrote nothing commits, however stale.
Commit(p) ==
  LET pruned  == Pruned(p)
      written == pruned \cup StagedAt(p)
      next    == [Idle EXCEPT !.cmd = proc[p].cmd, !.dirs = proc[p].dirs,
                    !.retired = proc[p].retired, !.synced = TRUE,
                    !.pc = IF proc[p].dirs # {} THEN "list" ELSE "inject"]
      after   == IF proc[p].dirs = {} /\ proc[p].cmd = "index" THEN Idle ELSE next
  IN
  /\ proc[p].pc = "scan" /\ proc[p].todo = {}
  /\ written # {} => proc[p].snapshot # "stale" /\ writer \in {Nobody, p}
  /\ rows' = [f \in Paths |->
        IF f \in pruned THEN NoRow
        ELSE IF f \in StagedAt(p)
        THEN LET s == StagedFor(p, f)
             IN [note |-> s[2].note, status |-> s[2].status, mtime |-> s[3]]
        ELSE rows[f]]
  /\ links' = [f \in Paths |-> IF f \in StagedAt(p) THEN StagedFor(p, f)[2].by
                                ELSE links[f]]
  /\ IF written = {} THEN Become(p, after) ELSE AfterCommit(p, after)
  /\ writer' = IF writer = p THEN Nobody ELSE writer
  /\ raced' = raced \ written /\ torn' = torn \ written
  /\ UNCHANGED <<files, clock, deaths, deleted>>

(* SQLITE_BUSY_SNAPSHOT: there is something to write and somebody committed *)
(* since the first read.  A session start then says that the vault could   *)
(* not be read, and shows nothing of it.                                   *)
Fail(p) ==
  /\ proc[p].snapshot = "stale"
  /\ \/ proc[p].pc = "read" /\ Present(proc[p].at)
     \/ proc[p].pc = "scan" /\ proc[p].todo = {} /\ Pruned(p) # {}
  /\ Done(p)
  /\ UNCHANGED <<files, Board, writer, clock, deaths, deleted, raced, torn>>

\* recent_for_project() and render_session(), after the sync.
InjectFault(p) ==
  /\ proc[p].pc = "inject"
  /\ Become(p, [proc[p] EXCEPT !.pc = "shown", !.shown = {f \in In("projects") : Indexed(f)}])
  /\ UNCHANGED <<files, Board, writer, clock, deaths, deleted, raced, torn>>

Inject(p) ==
  /\ proc[p].pc = "inject"
  /\ Become(p, [proc[p] EXCEPT !.pc = "shown",
       !.shown = {f \in In("projects") : Indexed(f) /\ rows[f].status = "active"}])
  /\ UNCHANGED <<files, Board, writer, clock, deaths, deleted, raced, torn>>

Shown(p) ==
  /\ proc[p].pc = "shown"
  /\ Done(p)
  /\ UNCHANGED <<files, Board, writer, clock, deaths, deleted, raced, torn>>

-----------------------------------------------------------------------------
\* A person saves a note in their editor, or removes it.
Edit ==
  /\ People
  /\ \E f \in Paths, status \in Status :
       /\ Present(f)
       /\ Rename(f, [files[f] EXCEPT !.status = status, !.by = Nobody])
       /\ proc' = Revive(f, status, proc)
  /\ UNCHANGED <<Board, writer, deaths, deleted, raced, torn>>

\* Something says, or may yet say, that this note replaced it.
IsNamed(f) ==
  \/ \E g \in Paths : files[g].by = f
  \/ \E p \in Procs : proc[p].old # Nobody /\ f \in {proc[p].at, proc[p].text.by}

Delete ==
  /\ People
  /\ \E f \in Paths :
       /\ Present(f)
       /\ files' = [files EXCEPT ![f] = Absent]
       /\ deleted' = {g \in deleted \cup {f} : IsNamed(g)}
       /\ proc' = [p \in Procs |-> [proc[p] EXCEPT !.retired = @ \ {f}]]
  /\ UNCHANGED <<Board, writer, clock, deaths, raced, torn>>

(* The host kills a hook, a command is interrupted, or the write lock is   *)
(* not to be had within the busy timeout.  Between the row and its links   *)
(* the old links stay, or have been deleted and nothing put in their place *)
(* (upsert(), index.rs:108-173).                                           *)
Die(p) ==
  /\ deaths < MaxDeaths
  /\ deaths' = deaths + 1
  /\ proc[p].pc \notin {"idle", "shown"}
  /\ Done(p)
  /\ writer' = IF writer = p THEN Nobody ELSE writer
  /\ IF proc[p].pc = "links"
     THEN /\ torn' = torn \cup {proc[p].at}
          /\ \E left \in {links[proc[p].at], Nobody} :
               links' = [links EXCEPT ![proc[p].at] = left]
     ELSE UNCHANGED <<links, torn>>
  /\ UNCHANGED <<files, rows, clock, deleted, raced>>

Step(p) ==
  \/ WriteNote(p) \/ StatNote(p) \/ UpsertRow(p) \/ UpsertLinks(p)
  \/ ReadOld(p) \/ RewriteOld(p)
  \/ ListFiles(p) \/ Probe(p) \/ ReadAndStage(p) \/ Commit(p) \/ Fail(p)
  \/ Inject(p) \/ Shown(p)

Next ==
  \/ \E p \in Procs : Observe(p) \/ BeginSync(p) \/ Step(p) \/ Die(p)
  \/ Edit
  \/ Delete

Spec == Init /\ [][Next]_vars

\* A process that runs goes on running, and sessions are started again and again.
FairSpec ==
  /\ Spec
  /\ \A p \in Procs : WF_vars(Step(p))
  /\ \A p \in {q \in Procs : "session" \in Runs[q]} : WF_vars(BeginSync(p))

-----------------------------------------------------------------------------
\* Type invariant: in particular, no note is named past the last suffix.
TypeOK ==
  /\ files \in [Paths -> Files \cup {Absent}]
  /\ rows \in [Paths -> Rows \cup {NoRow}]
  /\ links \in [Paths -> Paths \cup {Nobody}]
  /\ proc \in [Procs -> Proc]
  /\ writer \in Procs \cup {Nobody}
  /\ clock \in 0..MaxWrites /\ deaths \in 0..MaxDeaths
  /\ deleted \subseteq Paths /\ raced \subseteq Paths /\ torn \subseteq Paths

(* The mtime gate (sync_dir, index.rs): a row that carries its file's mtime, *)
(* and that no sync will read again, says what the file says, its successor *)
(* too, whoever wrote, edited or synced the file meanwhile.  Excepted are   *)
(* the files that changed under the command that was indexing them.  Where  *)
(* a process died between the autocommitted row and its links, and nothing  *)
(* indexed the note since, the row is right and the successor may be wrong: *)
(* the row's mtime is the file's, so no sync mends it.                      *)
IndexTellsTheTruth ==
  \A f \in Paths \ raced :
    Present(f) /\ Indexed(f) /\ rows[f].mtime = files[f].mtime =>
      /\ rows[f].note = files[f].note
      /\ rows[f].status = files[f].status
      /\ \/ links[f] = files[f].by
         \/ f \in torn
         \/ \E p \in Procs : proc[p].pc = "links" /\ proc[p].at = f

(* observe() writes the new note before it retires the old one (write.rs):  *)
(* whenever it dies, a note that names its successor names one that is, or  *)
(* was until somebody deleted it.                                           *)
SuccessorsExist ==
  \A f \in Paths : files[f].by # Nobody => Present(files[f].by) \/ files[f].by \in deleted

(* A session that starts after a note was retired, and that synced the vault,  *)
(* is not shown that note as current: what it injects is the vault as it was   *)
(* when the session began, or later, whatever the index happened to hold and   *)
(* whoever synced, superseded or crashed meanwhile.  Excepted are the files    *)
(* that changed under the command that was indexing them.                      *)
RetiredNotesStayRetired ==
  [][\A p \in Procs : proc[p].pc = "inject" /\ proc'[p].pc = "shown" /\ proc[p].synced =>
       proc'[p].shown \cap proc[p].retired \subseteq raced]_vars

(* The index heals itself: once the vault is left alone, session starts bring *)
(* every observation's row to its file's mtime, with the successor the file   *)
(* names, and remove the rows without a file, after any crash, lost race or   *)
(* edit, unless the directory is larger than a session start re-indexes.      *)
(* What a death between a row and its links left stale, nothing heals.        *)
InSync(f) ==
  /\ Present(f) = Indexed(f)
  /\ Present(f) => rows[f].mtime = files[f].mtime /\ (links[f] = files[f].by \/ f \in torn)
IndexCatchesUp ==
  <>[](\/ \A f \in In("projects") : InSync(f) \/ f \in raced
       \/ Cardinality({f \in In("projects") : Present(f)}) > AutoIndexLimit)

(* free_slug() (write.rs:152): "silently overwriting the first would lose a  *)
(* note, which is the one thing this design promises never to do".           *)
NotesAreKept ==
  [][\A f \in Paths : files[f] # Absent /\ files'[f] # Absent => files'[f].note = files[f].note]_vars
=============================================================================
