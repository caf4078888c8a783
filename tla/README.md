# A TLA+ model of amb, the agent message board

`amb` is a single command-line binary. Agent sessions (Claude Code, Codex, ...)
on one machine run it, by hand or through the hooks their host fires, to send
each other mail, to announce which paths they are editing and to share notes.
There is no daemon. Everything the sessions share is one SQLite file, plus a
vault of Markdown notes and the hosts' settings files, and every command is a
short-lived operating-system process that reads, decides and writes next to any
number of others. What is hard in this program is therefore what happens
*between* two statements of one process. That is what these modules are about.

Source paths below are relative to the repository; `Dnn` are the decisions of
`docs/DECISIONS.md` that the code cites.

## Inventory

### Components

| Component | Code | State it keeps | Operations | Modelled |
|---|---|---|---|---|
| Message board | `src/messages.rs`, `src/schema.sql` | `messages` (append-only), `reads` (per reader: first offer, acknowledgement, number of offers) | send, reply, inbox, deliverable, undelivered, mark delivered, mark read (named, all), retract, watch, thread, filter, the warning about a broadcast | `Mail`, `BoardLog`, `Threads`, `Inbox`, `Nearest` |
| Delivery rendering | `src/delivery.rs` | none; computes which messages a hook's text names | render_all, the inbox windows | what is named: `Mail`; windows: `Inbox`; how the text of others is put on amb's lines: `Containment`; wording: no |
| Hook and command entry | `src/main.rs` | none of its own; the order in which the rest is called | hook_deliver (SessionStart, UserPromptSubmit, Stop, SessionEnd), post_tool_use, the memory hook, watch, one function per command | `Mail`, `Claims`, `Roster`, `Vault`, `Promotion`; what a call of a hook ends in: `HookEntry` |
| Receipts | `src/sent.rs`, `src/status.rs` | none | what became of a sender's mail, dead letters | `Receipts` |
| Claims | `src/claims.rs` | `claims` (key: path and agent), `claim_notices` | take, release, end_session, conflicts_with, my_conflicts, record_notices, overlaps | `Claims`, `PathOverlap` |
| Roster and identity | `src/identity.rs`, `resolve_recipient` in `src/messages.rs` | `agents` (key: session id; a name unique per project) | register, reclaim, is_alive, resolve an address, detect the repository | `Roster` |
| Address grammar | `src/address.rs` | none | parse a destination, parse and write a scope | `Address` |
| Settings installation | `src/hooks.rs` | the hosts' settings files, backups, a lock file | install, uninstall, plan, strip, read-plan-compare-rename | `SettingsFile`, `HookPlan` |
| Board storage and migration | `src/db.rs` | the file itself: user_version, journal mode | open, convert to WAL, migrate, refuse a newer board or a dirty binary | `Schema` |
| Memory vault and index | `src/memory/{index,write,note,id,export,query}.rs` | note files (the truth), the tables `notes`, `note_paths`, `note_links` (a cache) | observe, capture, supersede, sync, history, validate links, name, resolve, write and read a file, search, export | `Vault`, `Links`, `NoteIds`, `NoteFile` |
| Memory promotion | `src/memory/{promote,capture,config,topics}.rs` | candidates' files and rows, decisions, failure markers | derive, decline, reject, promote, expire, offer, count failures | `Promotion`; markers: `HookEntry` |
| Memory ledger and injection | `src/memory/{events,inject}.rs` | `note_events`, `searches`, `measurement_window` | inject, cite, receipt, verdict, log a search, choose what is shown | `Ledger`, `Selection`, `Measurement` |
| Memory reporting | `src/memory/{status,text,redact}.rs` | none | reports, the matcher of patterns, redaction | `Glob`, `Redaction`; reports: no |
| Doctor | `src/doctor.rs` | none | gather facts, judge them | `Doctor` |
| Vendors | `src/vendors.rs` | manifests that users drop in | load, detect, route an event | `Vendors` |
| Formats | `src/{attach,duration,error,version}.rs` | none | parsing, formatting | no: no state, no protocol |

### How they interact

* Every command first calls `identity::register`, which puts the session on the
  roster or refreshes its row. A session is addressed by its id, its short ref
  or its name; `resolve_recipient` turns the address into an id before a message
  is stored, so the message tables never hold a name.
* A hook selects mail (`messages`) and collisions (`claims`), renders them
  (`delivery`), records the offers and the notices, and prints, in that order
  (`emit`, `src/main.rs:1559-1571`). The harness may kill it at any point.
* Several processes of *one* session run side by side: PostToolUse hooks of
  parallel tool calls, the Stop hook, a blocking `amb watch`, a typed command.
* The project a process works in is the repository of its working directory *at
  that call*. One session can act in several projects.
* The memory hooks share the board's database file but none of the mail, claim or
  roster tables. A session start syncs the index with the files, injects from the
  index and writes the ledger; a derivation is judged by the ledger; a promotion
  turns a candidate of the vault into a decision, which is injected in turn.
* Any of these processes may be the first to open the board after an upgrade, and
  migrates it.

### What is hard, and what makes each part correct

* **Offers** are counted in a statement after the one that selected them:
  concurrent hooks overshoot the cap; a killed hook leaves an offer counted and
  never seen; a message may be acknowledged or retracted in between; a render cap
  must neither count what it hid nor starve it. Correct means: only addressees are
  offered mail, the cap is exceeded by at most the hooks already under way, every
  count is accounted for, settled mail is not offered again, unread mail
  arrives, and what a sender is told of its mail is true.
* **Sends** are retried by callers that do not know whether the first one
  committed. Correct means: one message per key and author, however two authors'
  keys coincide.
* **Claims** lock nothing, so correctness is about *telling*: two sessions that
  collide at the same moment must not both stay ignorant; a lasting collision
  is told to both; a departed session holds nothing that no hook of it was about to take; a
  notice is spent only on something that was shown, or lost with a process that failed; two paths overlap when a file can lie in both.
* **Names** are handed out under a unique index by a walk of candidates and, for a
  name somebody asked for, by a reclamation that judges the holder in one
  statement and renames it in another. Correct means: an address reaches one
  session, a chosen name is not lost to an ordinary command, nobody alive is
  displaced by a stale judgement of the *same* row, and nobody is locked out.
* **Settings files** are rewritten by hosts that do not take amb's lock. Correct
  means: what the host wrote is lost at most inside the two system calls the code
  admits, a file amb cannot parse is not replaced, the backup is of what was
  replaced, two locked ambs never disturb each other, and nobody waits for ever.
  The plan must leave other tools' entries alone and must know when it is no change.
* **Migration** is attempted by every live session's next hook, old binaries
  mixed with new ones. Correct means: the ladder is applied whole and once, nobody
  is turned away because he raced, a development build strands nobody.
* **The vault** is files that commands and people write, and a cache of them that
  every session start trusts. Correct means: a row that is not going to be read again
  says what its file says, a retired note does not come back, a successor that is
  named exists, no note is overwritten, and the cache heals.
* **Promotion** counts independent derivations across sessions. Correct means: none
  is lost, none that the note itself suggested is counted, a decision applies where
  its derivations were made, and what is offered was open in the index and in the files
  as far as each was read.

The hazards, each at its line and with the properties that watch it, are listed
in `PROJECT.json`.

## The modules, and what is left of the plan

Written, in the order of the plan: `BoardLog`, `Mail`, `MailProofs`, `Claims`, `ClaimsProofs`,
`Roster`, `RosterProofs`, `SettingsFile`, `SettingsFileProofs`, `Schema`, `SchemaProofs`, `PathOverlap`, `Vault`,
`VaultProofs`, `Ledger`, `Promotion`, `PromotionProofs`, `Glob`, `PathProofs`, `Receipts`,
`HookPlan`, `Links`, `Address`, `Threads`, `Selection`, `Doctor`, `Containment`, `Inbox`, `Nearest`,
`HookEntry`, `Measurement`, `NoteIds`, `NoteFile`, `Redaction`, `Vendors`.

* `Mail` implements `BoardLog` (`Mail!Board`); `Receipts` extends `Mail`; `Promotion` extends
  `Ledger`; `PathOverlap` gives `Claims` the relation it takes as the parameter `Overlap`.
* State machines: `Mail`, `Claims`, `Roster`, `SettingsFile`, `Schema`, `Vault`, `Promotion`, `Glob`.
* Pure algorithms, each checked on every small input by a named `ASSUME` of the MC
  module that instantiates it: `PathOverlap` and `HookEntry` (`MCClaims`), `HookPlan`, `Doctor` and
  `Vendors` (`MCSettingsFile`), `Links`, `NoteIds`, `NoteFile` and `Redaction` (`MCVault`), `Address`
  (`MCRoster`), `Threads`, `Inbox`, `Containment` and `Nearest` (`MCMail`), `Selection` and
  `Measurement` (`MCPromotion`). They are what the state machines take as given, or what decides
  which of their steps a process takes.

The tables of the mail, claims, roster and memory parts are disjoint, so they are not
composed into one state machine: the roster meets the others only through ids, which are
`Agents` in the others, and a session's changing project is `Home` there. Where a
process's own order of writes crosses tables (`emit` records offers, then notices,
then prints) each module models its part of that order and the failure in between is
`Fail` in `Mail`.

Every safety property and action property that a passing run checks is also a theorem. Left: the
listings and reports, and the parts named in the last section.

## What each module models

A definition whose name ends in `Fault` is a plausible bug in the definition
after it. No specification uses it; each shows that a property can fail.

### `Mail`

| TLA+ | Code |
|---|---|
| `messages`, `reads` | the two tables; an absent `reads` row is `NoRow` |
| `proc[p]` | where process `p` is between two statements, and the ids it carries |
| `shown`, `lost`, `sent` | history: what was printed, what was recorded by a process that died, which keyed sends returned |
| `Send`, `Reply` | `send` (authorial check, then one IMMEDIATE transaction: find the key or insert), `reply` |
| `Addressed`, `Unread`, `Offerable`, `OfferCap` | `select()`'s predicate, the back-off, the broadcast horizon, retraction |
| `Rendered`, `OfferSet` | `render_all`: the urgency order, `MAX_RENDERED`, foreign globals as one counted line; `watch` hands over everything |
| `Offer`, `Mark`, `Emit` | select; `mark_delivered_all`; print |
| `ListUnread`, `AckListed`, `NameIds`, `ReadNamed` | `mark_read_all` (lists outside its transaction), `mark_read_many` (one autocommit per id, stops at the first that is not there) |
| `Fail` | the host kills the process, or a write of it is refused |

A transaction or statement is one action; whatever a process does between two is
private state. `Attempts` and `delivered_at` move together, as the upsert moves
them. A send refused for its size or its arguments changes nothing and is no step.
Filters of an explicit `amb inbox`, `get` and the warnings about departed
recipients only read and are left out.

### `BoardLog`, `Receipts`, `Threads`

`BoardLog` is the board without processes, hooks or caps: `Post` appends a message, whose
retraction names an earlier message of the same author; `OfferTo` counts one more
offer of some messages the reader may see; `AckBy` acknowledges. `Mail!Board`
maps `messages` to the log, the attempts column to the counts and the read stamps
to the acknowledged sets.

`Receipts` is `gather` of `src/sent.rs` and the dead letters of `src/status.rs`, as
state functions of `Mail`: direct mail is handed over, fetched or unoffered.

`Threads` is `thread` and the thread rule of `reply`. A board is the sequence of its
messages' threads; every board of four messages is tried, with threads named by a word
and by a number.

### `Inbox`, `Nearest`, `Containment`

`Inbox` is the filter of an explicit `amb inbox` (`select`, with `LIKE` written out) and the
window of `listing`; `Nearest` the edit distance, row by row as the code keeps it, and the warning
that a broadcast reaches nobody; `Containment` how the text of others is put on amb's own lines:
quoted, cut at a line break, refused as a scope or a name that breaks the grammar of an address line.

### `Claims`, `PathOverlap`, `HookEntry`

| TLA+ | Code |
|---|---|
| `claims`, `notices` | the tables `claims` (by path and agent) and `claim_notices` |
| `Begin`, `Upsert`, `ListConflicts` | the statements of `take`, in order |
| `ToReport` | `conflicts_to_report`: an observed edit is silent on a renewal |
| `Sweep`, `MyConflicts`, `NoticeExhausted` | the turn boundary, `my_conflicts` |
| `RecordNotice`, `Emit` | `record_notices`, one upsert per claim, then print |
| `Release`, `EndSession` | `release`, `end_session` |
| `Fail` | a process dies, or a statement of it fails (SQLITE_BUSY), anywhere between its statements |
| `told`, `lost`, `mayHold`, `fresh` | history |

A claim's length is one of `Leases`. The wall clock, which the code reads
in fractions of a second, advances at each `Begin`, so no two claims are taken at one instant.
A process that fails leaves what it had committed: the row it took, and the notices it recorded of
claims it then never printed, since `record_notices` commits one row at a time before `emit`
prints. `lost` is what it had found and not printed; the properties name it where a failure is an
exception. A hook under way when its session ends may still upsert its claim: `mayHold` is the
paths of those, and of what the session set out to take since.
Overlap of two paths is the parameter `Overlap`; that the relation of the run is the
one the code computes from the two paths' spellings is `OverlapIsTheRules` in `MCClaims`.
`PathOverlap` is `normalise`, `covers` and `overlaps` on characters.

`HookEntry` is `main` and `hook_main` around the rest of a hook: every call ends in success, and what it
says and counts depends on where it stopped. A session's failures are counted in a marker, a file of its
own; a day is a sequence of calls of several sessions, and calls of one session that
overlap are interleaved step by step (`Orders`: read, empty, write, and remove).

### `Roster`, `Address`

| TLA+ | Code |
|---|---|
| `agents` | the table, one row per session id |
| `running`, `starts` | the host: which start of a session runs now; its number stands for the pid |
| `Begin`, `TryTouch` | `register`: clock and pid read once, then the candidate ladder, each try one upsert that the unique index may refuse |
| `SeekHolder`, `Displace`, `Retry` | `reclaim`: look the holder up and judge it, rename it, try once more |
| `GoneAt` | `is_alive`: `kill(pid, 0)` where a pid is known, else how long ago the session was seen |
| `Resolve` | `resolve_recipient`: exact id, then short ref, then name |

`Prefixes[s]` is the ladder of `REF_WIDTHS` for `s`, ending in `s` itself; short
refs of two sessions may agree. Pids are not reused. Nobody asks for a name that is
spelled like another session's generated full-id name (`NamesAssumption`), but
somebody may ask for a name spelled like another's id or short ref. A process
may outlive its session between `Begin` and its end. The read-back of the name that is
then displayed is left out.

`Address` is `parse`, `parse_scope` and the written forms, on sequences of characters.
`MCRoster` tries every text of up to five characters out of `@`, `#`, `/`, a blank and a
letter.

### `SettingsFile`, `HookPlan`, `Doctor`, `Vendors`

| TLA+ | Code |
|---|---|
| `file`, `backup`, `lock` | a host's settings file, its `.amb-backup` sibling, the holder of `.amb-settings.lock` |
| `copy` | external: the hook entries in what the host last read, which it writes back when it saves a setting |
| `proc[p]` | where process `p` is in `apply`, what it read (`seen`), its plan and its attempt |
| `Begin`, `LockSettings`, `LockUnavailable` | the commands; `lock_settings` blocking, and the edit without a lock where the file system has none |
| `ReadAndPlan`, `Plan`, `Noop` | `read_raw`, the parse that may fail, the planner, `is_noop`, a dry run |
| `WriteTemporary`, `CopyBackup`, `Compare`, `Rename` | `write_if_unchanged`, one system call each; a failed comparison starts the loop of `apply` over, or gives up |
| `End` | every return, and every death: the guard is dropped, the lock with it |
| `HostEdits`, `HostRemoves` | external: the host saves a setting, perhaps into something that does not parse, or the file goes away |

A document is amb's own entries, whether it parses, and the rest. The rest is a
number: a write of the host brings a new one, or takes everything back to the first, so that a
comparison of bytes may succeed although the file was written meanwhile. The host replaces its file in one step, and a file that parses is taken to hold an
object. The temporary file is named after the process and nobody else sees it, so it
is no variable. `strays` and `raced` are history: unlocked writes since the command began, and a
write since the last comparison.

`HookPlan` is the planner that `Plan` summarises: events, wrappers with their matchers,
entries, in order, and any of the lists may be something else than a list
(`Other`). `MCSettingsFile` plans every document with up to two wrappers of up to two
entries on one event beside up to one on another, for an install with and
without memory.

`Doctor` is every row of the report as a judgement of facts (a world), and `gather`, which decides
which rows there are. It shares the documents of `HookPlan`, so that a doctor can be asked about a file that an
install wrote.

`Vendors` is the loading of manifests (`Refusal` names the first thing wrong with one) and the detection of the
vendor a hook is served as, by its event and by the environment. Every pair of manifests over two ids, four
spellings of an event and four lists of variables is loaded, and every refused one.

### `Schema`

| TLA+ | Code |
|---|---|
| `wal`, `version` | the journal mode of the file, `PRAGMA user_version` |
| `applied` | what the board's schema is: the migrations committed to it, in order |
| `converting`, `writer` | who asks SQLite for the exclusive lock of a conversion, who holds the write lock |
| `ReadJournal`, `Convert`, `ConvertBusy` | `engage_wal`: the mode is read, the conversion tried, BUSY answered at once, until the budget is spent |
| `ReadVersion`, `BeginImmediate`, `BusyTimeout`, `Recheck` | `migrate`: the unlocked read, `check_not_newer`, `guard_dirty_migration`, the lock, the version once more |
| `Migrate`, `Commit` | the rest of `MIGRATIONS` and the stamp, in one transaction |
| `Die` | the process is killed: SQLite drops its locks and rolls back |

A migration that a board already has fails, as `ALTER TABLE ... ADD COLUMN` and `CREATE
TABLE` do. What a migration does to the rows is not modelled.

### `Vault`, `Links`, `NoteIds`, `NoteFile`, `Redaction`

| TLA+ | Code |
|---|---|
| `files` | the vault, a note at each path; a note is the title and day that all writers share, a directory and a suffix |
| `rows`, `links` | `notes` and `note_links` (`note_paths` is in `Promotion`, where something is decided by it) |
| `Observe`, `WriteNote`, `StatNote`, `UpsertRow`, `UpsertLinks` | `observe` and the failure capture: choose a free name, rename into place, stat, upsert; every statement commits by itself |
| `ReadOld`, `RewriteOld` | `supersede`, after the new note is indexed |
| `ListFiles`, `Probe`, `ReadAndStage`, `Commit`, `Fail` | `sync_dir`: list, one deferred transaction that stats, probes, reads and upserts file by file and prunes at its end, and SQLite's refusal to write on a stale snapshot |
| `Inject`, `Shown` | what the session start then shows |
| `Edit`, `Delete` | external: a person at an editor |
| `Die` | external: a process is killed, or the lock is not to be had; between the row and its links the old links stay, or none are left |
| `deleted`, `raced`, `torn`, `retired` | history |

The mtime is a number that no two writes share (the code's is in nanoseconds). `raced` are the
paths whose row a command wrote although the file had changed under it: the
writer stats *after* its rename, so the row then carries the new mtime with the
old text, and no later sync looks at it again. `torn` are the notes whose command died between
the autocommitted row and its links: the row is right and has the file's mtime, so no later
sync looks at it either, and the links stay as they were or missing. Of `raced` paths the properties
say nothing; of `torn` ones they say everything but the successor in `links`; see "Seen on the way".

`Links` is `history` and `validate_links` on a table of links; `MCVault` tries every
table over three notes, one of them with an id of three parts, links spelled as ids and as
bare slugs, and rows that are missing.

`NoteIds` reads a text, as its parts between slashes, as an id, and resolves it against an index. `NoteFile`
is the text of a note as lines: what is written, what is read of it, and what a person's edit of one
line does. `Redaction` is the scan of a text before it is written, on tokens that are known by how the scan
judges them.

### `Ledger`, `Promotion`, `Selection`, `Measurement`

| TLA+ | Code |
|---|---|
| `events`, `Recorded` | `note_events`, `INSERT OR IGNORE` |
| `Receipt` | `receipt`, over a window |
| `files`, `rows`, `paths`, `decisions` | a candidate's frontmatter, its row, whether `note_paths` has the note, the decisions' files |
| `Derive`, `Lock`, `Write`, `Commit` | `derive` (also as `observe --same-as`): independence is judged, then the lock, the file read, written, indexed |
| `Decree`, `Decide` | `promote --yes`, `--decline`, `--reject` |
| `PromoteDirect` | `promote_direct`: no lock, no evidence |
| `Expire`, `ReadStale`, `ExpireWrite` | `expire_candidates`, which takes no lock: the query, the file read, the file written |
| `ExpireRow`, `ClearPaths`, `RestorePaths` | the upsert outside a transaction: the row, its paths deleted, its paths put back, each committed by itself |
| `Ready`, `Rejections` | the two queries of `ready_candidates`: which candidates are ready, which are rejected |
| `ReadRejection`, `ReadReady`, `Offered` | then the files, one by one: the phrases of each rejection, the derivations of the candidate, none asked for its status |
| `torn`, `clobbered`, `gone`, `suspect` | history |
| `Near` | `near_candidates`, shown to the author of an observation |
| `Unindex`, `Reindex` | external or other commands: the observation is deleted and pruned, or restored; a candidate's row is brought up to its file |

`suspect` are, for a session that is choosing what to offer, the candidates of which the index
answered it with a row that was behind its file, and those whose file changed its status after
the query. `ready_candidates` takes one candidate at a time here: candidates do not
influence each other.

`Days` gives each session the commands it runs in a behaviour, so that one run covers four
kinds of day without every session running everything.

`Selection` is which notes each lane shows and how many it says it hides: the `LIMIT` in
SQL, then `order_and_cap`. `Firsts` is an `ORDER BY ... LIMIT` that does not say what it
does with equals. `MCPromotion` tries every choice of three notes where one is shown and two
are looked at.

`Measurement` is what is concluded: the verdict on a receipt, the window it is counted over, the counts
of the log of searches.

### `Glob`

`glob_matches`, one turn of its loop per action, with its one remembered star.
`Matches` is the reference: some cut of the path gives each element of the pattern its part.
`Patterns` of the run are all those of at most four elements with a star among them, as the loop reads
them (two stars in a row are the double one); `Files` are a few short paths of up to three segments.

## What is checked

Sizes are those of a two-worker run; each takes less than four minutes.

| Run | States | Question and answer |
|---|---|---|
| `mail_board` | 336 k | A sender, another one in a second project with the same key, and two processes of one reader that roams between the projects: the hook of an edit and the commands that acknowledge, beside a background watch and replies, any of them killed anywhere. Offers reach addressees only, the cap is overrun by at most one offer per further process, every counted offer was printed, is about to be, or died with its process, receipts add up, keyed sends are on the board once, settled mail is not offered anew, only mail a process had named is acknowledged, and all of it implements `BoardLog`. |
| `mail_arrival` | 64 k | Liveness with a render cap of one: outstanding mail is one day shown. |
| `mail_burnt_offer` | violation | `ForeignGlobalIsMentioned`, see below. |
| `claims_contact` | 456 k | Two sessions, three processes of which one may die or fail anywhere, overlapping paths, two projects, one notice per claim: no mutual ignorance, nothing held after the end but what a hook was about to take, notices only of what is told or lost in a failure, and every lasting collision is told to both unless a failure used its notices up. |
| `roster_names` | 2.0 M | Two sessions with one short ref, one whose pid is known and one judged by its age, moving between two projects, resumed, asking for a plain name and for one spelled like an id. |
| `roster_locked_out` | violation | `NobodyIsLockedOut`, see below. |
| `settings_cycle` | 126 k | Two commands of two processes, each an install, an uninstall or a dry run, killed anywhere, locked or not, and two writes of the host: the host's settings survive outside the admitted window, the backup is of what was replaced unless a write went unnoticed, locked processes do not contend, every command ends. |
| `schema_rollout` | 184 k | Binaries of three versions, one of them built over uncommitted changes, open a fresh or an old board at once and die anywhere: the ladder is whole, nobody repeats a migration, nobody is stranded, the dirty build neither strands others nor is shut out of a board that has its version, every open ends. |
| `vault` | 1.1 M | An agent records and supersedes, sessions start, a person edits and deletes, killed anywhere, also between a row and its links: the index tells the truth, successors exist, retired notes stay retired, the index catches up but for the links of a torn note. |
| `vault_lost_note` | violation | `NotesAreKept`, see below. |
| `promotion` | 1.1 M | Three sessions in three projects on four kinds of day, killed anywhere: derivations are kept and independent, decisions rest on evidence, offers are open but for what the queries missed, the receipt adds up. |
| `glob_deep_path` | violation | `MatchingFilesAreAccepted`, see below. |

### The bounds, and why they are enough

* `Mail`: two or three messages and two clock instants. The properties relate one reader and one
  message to the processes of that reader; a second message is what the render
  cap, a retraction or a listed set needs, a third what starvation needs. Two
  processes of one session are enough to overrun the cap. The cap is 2, so that it
  is reached, passed once by an offer and once by a race. `Horizon = 0` lets a
  broadcast expire at the first tick. The Stop sweep is one of `mail_arrival`'s hooks; in `mail_board`
  the hook of an edit stands for it, which selects and records in the same way.
* `Claims`: two sessions suffice for a collision, two paths for an overlap that
  is not equality of rows. The clock must reach an expiry and a re-take after it: 4
  instants against a lease of 3. One failure: a second could only spend further notices or cut
  short another take, which the properties judge one process at a time.
* `Roster`: two sessions with the same short ref need every rung of the ladder, which
  has two rungs here; three can do nothing to a name that two cannot. Two starts of
  the session whose pid is known are needed for a pid that went stale; the other's
  pid is never recorded, so a resumption of it looks the same as the first start.
* `SettingsFile`: two processes, two commands, two host writes and two attempts
  where the code has eight. Two attempts are the fewest with which a cycle is both
  repeated and given up; one host write spoils an attempt and a second one the next, or
  falls between comparison and rename; or the second takes the first back, so that the
  comparison of bytes does not notice either. One hook entry suffices, since a plan
  replaces amb's entries as a whole.
* `Schema`: four openers, so that two of one version race while an older one and a dirty
  one look on; two attempts at the conversion, one to be repeated and one to give up.
* `Vault`: three writes and one death. A note, a second one that supersedes it, and
  the rewriting of the first are three; an edit takes the place of one of them. Two suffixes, so that a
  directory may be full, and an `AutoIndexLimit` of two, so that a third note exceeds it.
  One process writes; instances in which two agents write and supersede beside the sessions, with six writes
  and two deaths, are too large to be exhausted and were only walked at random (`tlc -simulate`).
* `Promotion`: two derivations make a candidate ready (the code has three), four commands
  are two derivations, one decree and one more, one tick with a time to live of zero makes a
  candidate expire. On one of the days a session chooses what to offer, in four statements, while
  others promote, decline, reject and expire the two candidates, one of which refuses the other; on
  another the paths of an expiring candidate are missing while it is derived. Three projects are needed for two that share a topic and a third that does not.
* `MaxMsgs`, `MaxClock`, `MaxFails`, `MaxStarts`, `MaxCycles`, `MaxEdits`, `MaxWrites`, `MaxDeaths`, `MaxCommands` and `MaxTime`
  stand in guards and are the only caps on the state. When they are reached the model may stop,
  so deadlock is not checked there: the program has no state in which it must go on.
  `Vault` never stops, since sessions are started again and again, and deadlock is checked.

### Fairness

`FairSpec` in `Mail` and `Claims` assumes two things. A command that started runs to its
end: hooks do not wait for each other, a statement waits at most for SQLite's
busy timeout. `mail_arrival` kills no process; in `claims_contact` a process may fail, at most
`MaxFails` of them, instead of going on. And a session keeps
finishing turns, so its Stop hook keeps firing (`SF` on the sweep: it is disabled
while the session's one process is busy with something else, and comes back). Nobody is
obliged to send, to edit, to watch, to acknowledge or to release. A session that
never finishes another turn is shown nothing, and nothing in the code promises otherwise.

`FairSpec` in `SettingsFile` assumes that a process that can take its next step
takes it (`WF`) and that a process waiting for the lock is not passed over for ever
(`SF` on `LockSettings`; `flock` promises no order, but wakes the waiters at every release). It
does not assume that a lock is ever unavailable, so `CommandsEnd` rests on the lock
being let go of.

`FairSpec` in `Schema` is `WF` of each opener's next step: a process that waits for the write lock gets it
or times out, and one whose conversion is refused has a budget.

`FairSpec` in `Vault` is `WF` of each process's next step and of the start of sessions: the
claim is that session starts heal the index, so there must be session starts. Nothing obliges
anybody to run `amb memory index`.

### Disagreements the runs show

* **`mail_burnt_offer`.** `src/delivery.rs:593-594`: "a *new* foreign global still earns its
  own single mention". Its one offer is committed before the text is printed
  (`emit`), so a hook killed in between, or failing in `record_notices`, retires
  the message unseen.
* **`roster_locked_out`.** `docs/DESIGN.md:196-198` says a taken generated name costs "a less
  readable name and never a locked-out session". For a session that already has a
  row the upsert keeps the row's name whatever candidate is tried, so moving to a
  project where that name is taken makes every command end in NameTaken.
* **`vault_lost_note`.** `src/memory/write.rs:152-154` calls losing a note "the one thing this
  design promises never to do". `free_slug` asks whether the name is free, and the rename
  that uses it comes later: two failure hooks on one day, whose captures share a title,
  leave one note.
* **`glob_deep_path`.** `src/memory/text.rs:216-217`: "`**` spans separators; a single `*` does not".
  With `**` before `*` the loop remembers the `*` only and gives up at the next separator:
  `**/*.rs` does not match `src/memory/index.rs`.

### Seen on the way

Things met while modelling that no run is about, since no line of the repository promises
otherwise or the consequence is small.

* Settings: the backup is copied before the comparison, so an attempt that ends without
  replacing the file has still overwritten the backup of the last install
  (`src/hooks.rs:1186-1188` calls that copy "discarded"); `BackupIsOfTheReplaced` speaks of
  renames only. "The backup is of the file we are about to verify" (`src/hooks.rs:1186`) fails when a change is
  made and taken back around the copy: the bytes compare equal and the backup is of the
  change; the property says so. A document that is no object, or whose `hooks` is none, is replaced, not refused.
  A plan that is called no change may still differ in order or in empty shells; an uninstall
  drops other tools' empty matchers too. The quotes that an install puts around a path with an apostrophe are
  not undone by `unquote` (`src/hooks.rs:181-205`).
* Doctor (`HomeIsReadTwice`): run in the home directory, it reads the user's settings file twice, as the user's and as
  the project's, and reports every hook as a duplicate. `build_check` looks at the user's settings only, though the
  hooks of every scope run. The arm of `schema_check` for an older board is not reached, since the doctor's own
  opening migrates it.
* Vendors (`UnreachedVendors`, `BlankHidesTheNext`): that a hook can arrive at a vendor is judged against the
  manifests loaded before it; a later one may spell what an earlier one alone had spelled, and a vendor whose
  only variable is another's is never detected. A variable that is set to nothing hides the next in the list.
* Links (`ValidationNeeds`, `LinksAreJudgedRight`): a history looks its subject up by `scope/slug`,
  `kind/slug` or `slug`, so an id of three parts (a decision, a capture) names nothing:
  its history is always "no such note", a link to one counts as dangling, and one
  retired decision, or a link left behind by a pruned note, ends the validation of all
  links with that error. A link that a person spelled as a bare slug is not found by
  the backward walk, and a cycle longer than 64 is not reported.
* Note ids (`CandidatesShadow`): `src/memory/id.rs:117-119` says that a note of a project named `candidate`
  is still found by a search for the slug. `resolve` searches only what `parse_id` declines, so its id means
  the candidate of that slug, or nothing.
* Note files (`ListsHangOnTheirKeys`): a list whose key line is removed joins the list above or is lost. Keys that amb
  does not know, and values it cannot read, are gone with the next rewriting.
* Hooks (`RacesRestart`, `RacesMayRevive`, `CaptureOutageIsHidden`): `src/memory/capture.rs:33-36` says that overlapping
  failures of one session delay the notice "by one failure instead of resetting it". The file is emptied before it is
  written, so a reader in between starts the count from one; and a success that overlaps with a failure can be undone. A
  capture that always fails is never noticed while the session's file lane works, since each success clears the count.
* Inbox (`TermsAreLiteral`): `LIKE` folds ASCII only, so a lowered term does not find other capitals. A hook that tells of
  more mail points to `amb inbox --unread`, which lists the newest 25 and says so.
* Selection (`WindowForgetsTheLocal`, `ForceGoesBeforeScope`): `src/memory/config.rs:93` and
  `inject.rs:128` call force a tiebreak within a scope. At session start the SQL `LIMIT` ranks
  force before scope, and what it drops the later sort never sees; before a file the `LIMIT`
  keeps the newest 64 of all repositories, which can be all but the local one.
* Threads (`ThreadsMayOverlap`): a number given to `--thread` gathers the message of that id, which may
  itself be in another conversation.
* Address: a name is not trimmed before its `@`, and a project whose id holds an `@` can
  hold notes but not be written to.
* Mail: the board-wide count of mail that was never offered (`src/status.rs`) takes a row of any
  reader for an offer, and `amb read <id>` admits any id.
* Claims: an edit after one's own claim lapsed counts as a renewal and is silent, where
  `src/claims.rs:769-770` says a fresh take reports everything; the turn-boundary sweep tells it. As
  with offers, a hook that dies or fails between `record_notices` and the print has spent notices on
  what nobody saw (`lost`), against the intent of the comment at `src/main.rs:1565-1568`; with enough of
  them spent, that claim is never told (`Burnt`). An edit's hook that is still under way when its
  session ends claims its path for the departed session.
* Vault: a writer stats its file after the rename, so a write in between is indexed
  with the wrong text for good (`raced`). `upsert` is several autocommits outside a sync
  (`src/memory/index.rs:108-173`): a command that dies after the row and before the links leaves stale
  links or none for good (`torn`), since the row already has the mtime by which a sync would notice. A removed directory is never pruned by a
  session start, and `index_is_behind` compares counts only.
* Promotion: `promote_direct`, `supersede` and expiry take no lock. `ready_candidates` asks the index,
  and then reads files without asking for their status: a candidate that is promoted, rejected
  or expired in between is offered, although `src/memory/promote.rs:305` says "not declined, expired or
  promoted", and a rejection in between does not refuse. Expiry does not ask for it either: it can overwrite
  "promoted" or "rejected" with "expired", after which the phrases of the rejection refuse nothing. While it
  upserts, and for good if it dies there, the candidate has no paths in the index, so that it does not speak
  against an independent derivation. A candidate without derivations
  may be promoted and then applies everywhere; independence is judged over the paths the
  index has now, so that a pruned note no longer speaks against a derivation; the switch that
  turns derivation off does not stop `observe --same-as`; the evidence may have grown
  between the offer and `--yes`; `derive --json` compares with a constant where the offer
  reads the configuration.
* Ledger: within a window cites can exceed injections, by the cites of notes shown before the window opened
  (`Overhang`), where `src/memory/events.rs:868-870` says that joining on the session keeps "the numerator"
  from exceeding "the denominator". `ReceiptAddsUp` says it is by those and no more.

## What is proved

Each proof module is about every value of the constants, from the named assumptions of
its module alone.

`MailProofs` (finitely many processes; the three kinds of address are told apart; drafts
are sent from a project of their author; caps are positive):

* `TypeCorrect`: `Spec => []TypeOK`. `TypeOK` is inductive by itself. That
  `delivered` is set exactly when there is an attempt is part of `Row`, and the lemma
  `RowUpdates` shows that both upserts keep it.
* `OffersReachAddresseesOnly`: `Spec => []OfferedToAddressees`. Inductive together with
  `TypeOK`: it speaks of every stage of an offer (selected, recorded, printed), so
  that each stage follows from the one before. `MessagesStay` shows that no step
  changes a message already posted, hence `MayReach` is never lost.
* `BackOffHolds`: `Spec => []OffersBounded`. The counted offers alone are not inductive; `Committed`
  adds the offers selected and not yet recorded. Beginning an offer needs a count
  below the cap, and the other processes carry at most one pending offer each
  (`BeginsUnderCap`); recording moves one from pending to counted and leaves the sum
  (`CommittedStep`).
* `SettledMailStays`: `Spec => SettledMailIsLeftAlone`, an action property, from
  `TypeOK` and the same step lemma: the sum grows only through `Offer`, and
  `Offerable` excludes what is acknowledged or retracted.
* `AckedMailWasNamed`: `Spec => OnlyNamedMailIsAcked`. `BoardStep` lists the four kinds of
  steps that change a table or none (insert, record an offer, acknowledge, nothing);
  only `Acknowledges` sets the stamp, and only on ids the process holds.
* `SendsAreIdempotent`: `Spec => []KeyedSendsAreOnTheBoard`, inductive with `KeysAreScoped`: a key on
  the board carries its author, so a duplicate that `send` finds is the caller's own.
* `MailImplementsBoardLog`: `Spec => BoardSpec`. The map reads the counts and the acknowledgements
  off `reads`. That an offer recorded is one the reader may see is
  `OfferedToAddressees`, that what is acknowledged is on the board is `ListedIsPosted`; under those
  each kind of step of `BoardStep` is one of `BoardLog`'s (`InsertIsAPost`, `RecordIsAnOffer`, `AckIsAnAck`).

and for the receipts, on top of those:

* `EveryOfferIsAccountedFor`: `Spec => []OffersAccounted`: the offers counted for a reader and a message are
  those printed, those lost with their process and those that a process is still to print. With `TypeOK` it is
  inductive. `AccountsStep` goes through the actions; what a step does to the number of processes about
  to print is `PrintingAfter` and `PrintingStays`, over the cardinality of finite sets.
* `ReceiptsAreTrue`: `Spec => []SentReceiptsAddUp`. That the three states of direct mail cover it comes from
  the rows (`DirectRows`); that unoffered and fetched mail was never printed comes from the
  account: what was not counted was not shown (`UncountedIsUnseen`).

`SettingsFileProofs` (from `SettingsAssumption` and `AbsentAssumption`):

* `SettingsTypeCorrect`: `Spec => []TypeOK`, inductive by itself. That a process never
  makes more than `MaxAttempts` attempts is part of `Activity`.
* `ForeignEditsAreKept`: `Spec => ForeignEditsSurvive`, an action property. The
  invariant is `PlansAreOfTheSeen`: a plan under way is the plan of what was read,
  which parsed, and, between comparison and rename, the file is still what was
  read unless somebody raced. `PlanKeepsTheRest` says what a plan leaves alone.
* `LockedAmbsDoNotContend`: `Spec => []RetriesAreStrays`. Counting attempts is not
  inductive: an attempt is repeated one step after the write that spoilt it.
  `HoldersAreAlone` adds that a process that believes it is locked is the holder, and
  that a file which already differs from what it read has been paid for by a stray.
* `BackupsAreOfTheReplaced`: `Spec => BackupIsOfTheReplaced`. Of a holder that nobody strayed upon since it last
  read (`Undisturbed`) the file is what it saw and, once copied, so is the backup
  (`HoldersAreBacked`); that every repetition is paid for makes the count of strays tell.

`PathProofs`: `GlobIsSound`, what the matcher accepts is matched by its definition, for
every pattern and path. The invariant says that what is consumed of the
pattern matches what is consumed of the path, and so does what was consumed up to the
remembered star (`GlobStep`); `ConsumeOne` and `StarTakesOneMore` extend a cut. The converse fails
(`glob_deep_path`).

In the same module `OverlapIsACommonFile`: two paths overlap exactly when a file could lie in both.
Of two directories above one file one is above the other (`PathsAboveAFile`).

`ClaimsProofs` (from `OverlapAssumption`, that a path overlaps itself and overlap is symmetric,
and `ClaimsAssumption`):

* `ClaimsTypeCorrect`: `Spec => []TypeOK`, inductive with `AllWorking`, what a process carries at each stage.
* `EndedSessionsAreClear`: `Spec => []EndedSessionsHoldNothing`. Inductive is `AllAccounted`: what is live, and what
  a hook of the session is about to upsert, is in `mayHold`. An upsert is the only step that revives a row
  (`NotRevived`), and the end of a session keeps the paths of the upserts still to come.
* `NoticesAreTrue`: `Spec => []NoticesAreOfToldClaims`, inductive as `AllKnown`: what a notice names was printed,
  is in the hands of a process that is about to print it, or was lost with one that failed (`Knows`, kept
  by `KnowsStays`); a failure moves what its process had found from the second to the third.
* `ContactIsMade`: `Spec => []FirstContact`. The property speaks only of sessions at rest. `AllMet` speaks of all:
  of two fresh claims in each other's way, one is known to the other's holder, or was lost with a process of it,
  or one of the holders has the listing of its own upsert still ahead (`Pending`). A process that fails
  before its listing leaves a row that is not fresh. The step that matters is that listing
  (`ListingMeets`): the row it looks for is there, because the one it is in contact with was upserted.

`SchemaProofs` (from `SchemaAssumption`): `SchemaTypeCorrect`, `LadderStaysWhole`, `MigrationsAreNotRepeated` and
`DirtyBuildsStrandNobody` come from one invariant. Wholeness alone is not inductive, because a
commit stamps the version of its own climb: `Careful` adds that who is past BEGIN IMMEDIATE holds the
lock, that whoever is on the ladder climbs in order from the version that is *now* on the board, and that
a development build on a shared board was let through the guard before it took the lock, and one that
was not had read a version below its own.
`OthersStayCareful` is where the lock matters: a step of one process leaves what another knows unless it
takes the lock or the version from under it.

`RosterProofs` (from `NamesAssumption`, `PrefixesAssumption`, that the last short ref of a session is its id
and no other session's ref, and `RosterAssumption`): `RosterTypeCorrect` and

* `NamesReachTheirSession`: `Spec => []AddressesReachOneSession`, from `Unique`, the index, and `AllNamed`: a
  name is derived from the session's own refs, or chosen.
* `NewcomersAreNamed` and `ChosenNamesAreKept`, action properties: the walk of candidates ends in the
  session's id, which is derived for nobody else, so that the last rung is never refused (`DerivedNames`,
  `CandidatesOf`); and the upsert of an ordinary command keeps the name its row has.
* `TheLivingAreNotDisplaced`: `Spec => OnlyTheGoneAreDisplaced`. Between the statement that judges the holder and
  the one that renames it, `GoneSince` holds of the row as it was read: a pid once dead is never handed
  out again, and a silence only grows longer.

`VaultProofs` (from `VaultAssumption`):

* `VaultTypeCorrect`: `Spec => []TypeOK`. Inductive is `Typed`, which adds that a writer past its write knows
  what it wrote, and that who retires a note knows which (`Sane`). `free_slug` is a search over the suffixes: that
  it ends, and ends on a path there is, is `FreeSlugType`.
* `SuccessorsAreThere`: `Spec => []SuccessorsExist`. The property alone is not inductive, since the old note is
  rewritten statements after the new one was written, from what was read of it. `NamesKept`: whatever
  successor a process is yet to write into a note, or has read in one, is there or was deleted.
* `IndexIsTrue`: `Spec => []IndexTellsTheTruth`. The mtime gate works because mtimes tell the versions of a
  file apart, for what processes hold of it too. `Dated`: nothing is newer than the clock; what a sync has read carries
  the file's mtime only if it is what the file holds; who has staged rows holds the write lock.
  With that, a row that comes by the file's mtime comes by its content (`UpsertRowTells`, `CommitTells`). A death
  between the row and the links makes no `raced` path: it excepts the links, and the rest is still proved of the row.
* `RetiredNotesStay`: `Spec => RetiredNotesStayRetired`. Inductive is `Careful`, of two parts more. `Sights`: of a file
  whose mtime any snapshot has, the index has the status right, so that a sync does no harm by passing over it,
  however old its snapshot. `Retires`: a note that was retired when a session began is retired until the session
  is through, and once its sync has looked at it (`Looked`) the row says so and nobody has staged anything else (`Right`).

`PromotionProofs` (from `PromotionAssumption`):

* `PromotionTypeCorrect`: `Spec => []TypeOK`, inductive as `Typed`, which adds what each kind of command is about.
  That the lock is its holder's alone is part of it.
* `DerivationsAreKept`: `Spec => StrikesAreKept`. `HeldStrikes`: what a command under the lock has read of a
  file still is what the file shows, unless expiry wrote over it since. Each write then extends what is
  there (`StrikesStep`).
* `DerivationsAreIndependent`: `Spec => []StrikesAreIndependent`. A strike is judged before the lock is asked for and
  written later. `CleanLedger` speaks of both ends: a command that counts would add a clean strike if it
  wrote now, and whatever was shown is in the index or once left it. What is shown later is later than the
  strike (`CleanStays`).
* `OffersAreSound`: `Spec => OffersAreOpen`, an action property. `Consistent`: a row is its file's wherever
  nobody died or is at work between the two (`RowsTell`), and a rejected file has its phrases. That makes the
  answers of the queries right but for the suspects; `Chosen` carries them to the reads (`Open` of the
  candidate, `Heard` of the rejections): a file whose status stays is no suspect and loses no derivation
  (`StatusKept`), and a status that changes makes one of everybody who is choosing (`SuspectsStay`).
* `DecisionsAreSupported`: `Spec => []DecisionsRestOnEvidence`. Strikes only grow, so that what a decision rests
  on stays a prefix; `DestinationIs` is the rule of the scope, with the least index of a shared topic.
* `ReceiptsAddUp`: `Spec => []ReceiptAddsUp` (of `Ledger`). `Once`: the ledger is finite and has each note once
  per session and event. The rest is counting: the cites of a window are each of a showing in it or of the
  overhang (`CitesOverhang`, `CardinalityOfBoth`).

Only model-checked: the
pure algorithms listed under the plan, but for `PathOverlap` and the soundness of `Glob`, on the inputs named above. Liveness under
fairness (`UnreadMailIsShown`, `CommandsEnd`, `EveryOpenEnds`, `IndexCatchesUp`, `CollisionsAreTold`), ENABLED and induction over
recursive definitions are beyond the proof system and stay with TLC.

## What is not modelled

* Delivery: wording, the snapshot file (formatting).
* Settings: the temporary file that a killed process leaves behind, a host that truncates
  its file in place.
* Storage: pragmas, permissions and location checks of the database file, the
  corruption hint (I/O without state), what each migration does to the rows.
* Identity: detection of the repository root (reads files only).
* Memory: the ranking of a free-text search, the export of decisions to
  a repository (what it writes is not read back; it does not take away what was
  exported before), `--scope`, the counts per force, which tokens look like a secret (`Redaction` takes
  the judgement of a token as given).
* Reports (read only); attachments, durations, errors and the version (parsing and formatting).
