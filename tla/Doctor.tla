------------------------------- MODULE Doctor -------------------------------
(***************************************************************************)
(* What `amb doctor` makes of the world (src/doctor.rs): one row per       *)
(* question, each a pure judgement of facts that gather() has read, in the *)
(* order in which the rows are printed.  The hooks of the settings files   *)
(* are those that HookPlan plans.                                          *)
(***************************************************************************)
EXTENDS HookPlan

CONSTANTS
  Unreadable,     \* a settings file that could not be read
  Dead,           \* the banner of a binary that could not be run
  Never,          \* the time of an event that is not on the board
  Unknown,        \* the schema of a board that could not be opened
  Running,        \* the banner of this build
  SchemaVersion,  \* the schema this build knows
  FixedIn,        \* the first SQLite without the WAL-reset bug: 3.51.3
  PruneAt,        \* the size at which pruning is due
  QuietAfter      \* how many hours make a lane quiet

Row(name, health, says) == [name |-> name, health |-> health, says |-> says]
Named(rows, name) == SelectSeq(rows, LAMBDA row : row.name = name)

Worst(rows) ==
  LET has(health) == \E k \in DOMAIN rows : rows[k].health = health IN
  IF has("bad") THEN "bad" ELSE IF has("warn") THEN "warn" ELSE "ok"

-----------------------------------------------------------------------------
OurHookExes(hooks) == {<<entry[1], entry[3].exe>> : entry \in OursIn(hooks)}

\* banner: what each executable says of itself.
BuildCheck(hooks, banner) ==
  LET said == {banner[hook[2]] : hook \in OurHookExes(hooks)} IN
  CASE said = {}        -> Row("binary", "warn", "no hooks")
    [] Dead \in said    -> Row("binary", "bad", "dead")
    [] said = {Running} -> Row("binary", "ok", "this build")
    [] OTHER            -> Row("binary", "bad", "stale")

(* A command line that is registered twice on an event, in whatever file   *)
(* and under whatever matcher.                                             *)
Runs(scopes, event, entry) ==
  LET times(hooks) == IF hooks = NoHooks \/ event \notin DOMAIN hooks THEN 0
                      ELSE Len(SelectSeq(EntriesOf(event, hooks[event]), LAMBDA e : e[3] = entry))
  IN  FoldLeft(LAMBDA sum, hooks : sum + times(hooks), 0, scopes)
DuplicateHooks(scopes) ==
  {<<entry[1], entry[3]>> : entry \in
     {e \in UNION {OursIn(hooks) : hooks \in ToSet(scopes)} : Runs(scopes, e[1], e[3]) > 1}}
DuplicateCheck(scopes) ==
  IF DuplicateHooks(scopes) = {} THEN Row("hook dupes", "ok", "each once")
  ELSE Row("hook dupes", "bad", "repeated")

MemoryCheck(hooks, lanes) ==
  IF MissingLanes(hooks, lanes) = {} THEN Row("hooks", "ok", "installed")
  ELSE Row("hooks", "warn", "missing")

\* A version is a sequence of numbers; what was no number is not among them.
SqliteCheck(version) ==
  IF Len(version) # 3 THEN Row("sqlite", "warn", "no version")
  ELSE IF version[1] * 1000000 + version[2] * 1000 + version[3] < FixedIn
       THEN Row("sqlite", "bad", "old")
       ELSE Row("sqlite", "ok", "fixed")

SchemaCheck(board, exists) ==
  CASE board = Unknown /\ exists  -> Row("schema", "warn", "could not open")
    [] board = Unknown /\ ~exists -> Row("schema", "ok", "no board yet")
    [] OTHER ->
         IF board > SchemaVersion THEN Row("schema", "bad", "newer")
         ELSE IF board < SchemaVersion THEN Row("schema", "ok", "older")
         ELSE Row("schema", "ok", "agree")

IntegrityCheck(probe) ==
  CASE probe = "could not run" -> Row("integrity", "warn", probe)
    [] probe = "passed"        -> Row("integrity", "ok", probe)
    [] probe = "failed"        -> Row("integrity", "bad", probe)

SizeCheck(bytes) ==
  IF bytes >= PruneAt THEN Row("size", "warn", "prune") ELSE Row("size", "ok", "fits")

\* Times are in hours.
FreshnessCheck(name, last, now, installed) ==
  IF ~installed THEN Row(name, "warn", "not installed")
  ELSE IF last = Never THEN Row(name, "warn", "never")
  ELSE IF now - last > QuietAfter THEN Row(name, "warn", "quiet")
  ELSE Row(name, "ok", "recent")

VaultCheck(found, loose) ==
  CASE ~found              -> Row("vault", "bad", "no directory")
    [] found /\ loose > 0  -> Row("vault", "warn", "readable by others")
    [] found /\ loose = 0  -> Row("vault", "ok", "owner-only")

VendorsCheck(problems) ==
  IF problems = {} THEN Row("vendors", "ok", "available") ELSE Row("vendors", "warn", "ignored")

-----------------------------------------------------------------------------
(* gather().  The settings file of the host is one of the scopes whose     *)
(* hooks run; elsewhere are the others, and one that cannot be read is     *)
(* passed over.                                                            *)
Scopes(world) == SelectSeq(Append(world.elsewhere, world.settings), LAMBDA s : s # Unreadable)

HookRows(world, lanes) ==
  IF world.settings = Unreadable THEN <<Row("binary", "warn", "could not read")>>
  ELSE <<BuildCheck(world.settings, world.banner), DuplicateCheck(Scopes(world)),
         MemoryCheck(world.settings, lanes)>>

(* Opening the board migrates it, unless it is newer, in which case the    *)
(* refusal says what it found, or it cannot be opened at all, as on a      *)
(* volume that is not trusted.                                             *)
Opens(world) == world.exists /\ world.trusted
Board(world) ==
  CASE Opens(world) /\ world.open = "opened" -> SchemaVersion
    [] Opens(world) /\ world.open = "newer"  -> SchemaVersion + 1
    [] OTHER                                 -> Unknown
Connected(world) == Opens(world) /\ world.open = "opened"

BoardRows(world) ==
  <<Row("board", IF world.trusted THEN "ok" ELSE "bad", "location"),
    SchemaCheck(Board(world), world.exists)>>
  \o IF world.exists
     THEN <<IntegrityCheck(IF Connected(world) THEN world.probe ELSE "could not run"),
            SizeCheck(world.bytes)>>
     ELSE <<>>

(* Mail may have been delivered without hooks, so the stamp on the board   *)
(* counts as an installation.                                              *)
DeliverRows(world) ==
  IF ~Connected(world) THEN <<>>
  ELSE <<FreshnessCheck("deliver", world.delivered, world.now,
           \/ world.settings # Unreadable /\ OurHookExes(world.settings) # {}
           \/ world.delivered # Never)>>

VaultRows(world, lanes) ==
  LET on == world.settings # Unreadable /\ MissingLanes(world.settings, lanes) = {} IN
  IF world.vault = "off" THEN <<Row("vault", "ok", "memory is off")>>
  ELSE <<VaultCheck(world.vault = "found", world.loose)>>
       \o IF ~Connected(world) THEN <<>>
          ELSE <<FreshnessCheck("inject:session", world.injected, world.now, on),
                 FreshnessCheck("inject:file", world.injectedFile, world.now, on)>>

Gather(world, lanes) ==
  HookRows(world, lanes) \o <<SqliteCheck(world.sqlite)>> \o BoardRows(world)
    \o DeliverRows(world) \o <<VendorsCheck(world.problems)>> \o VaultRows(world, lanes)

-----------------------------------------------------------------------------
(* No two rows contradict each other: a board that is said not to be there *)
(* has no size and no verdict, and a lane that is said not to be installed *)
(* has delivered nothing (D141; gather, the deliver row).                  *)
RowsAgree(world, lanes) ==
  LET rows == Gather(world, lanes)
      says(name, what) == \E k \in DOMAIN rows : rows[k].name = name /\ rows[k].says = what
      none(name) == Named(rows, name) = <<>>
  IN  /\ says("schema", "no board yet") <=> none("size")
      /\ none("size") <=> none("integrity")
      /\ says("deliver", "not installed")
           => world.delivered = Never /\ (says("binary", "no hooks") \/ says("binary", "could not read"))
      /\ says("integrity", "passed") => ~says("schema", "could not open") /\ ~says("schema", "newer")
      /\ says("inject:file", "not installed")
           => says("hooks", "missing") \/ says("binary", "could not read")
      /\ ~says("schema", "older")

(* What makes every hook of a machine fail silently is never less than bad:*)
(* a board newer than the build, a hook whose binary is another build or   *)
(* does not start.                                                         *)
SilentFailuresAreBad(world, lanes) ==
  \/ Opens(world) /\ world.open = "newer"
  \/ /\ world.settings # Unreadable
     /\ \E entry \in OursIn(world.settings) : world.banner[entry[3].exe] # Running
  => Worst(Gather(world, lanes)) = "bad"

(* A quiet lane, a large board and an unreadable file are never more than  *)
(* a warning: a doctor that cries about ordinary silence is not run.       *)
SilenceIsNotBad(world, lanes) ==
  LET rows == Gather(world, lanes) IN
  \A k \in DOMAIN rows :
    rows[k].name \in {"deliver", "inject:session", "inject:file", "size", "hooks", "vendors"}
      => rows[k].health # "bad"

(* After an install with memory by a binary that runs, whatever the file   *)
(* held before, the doctor finds nothing wrong with its hooks.             *)
InstallSatisfiesTheDoctor(before, wishes, lanes, banner) ==
  LET after == Installed(before, wishes) IN
  /\ BuildCheck(after, banner).health = "ok"
  /\ DuplicateCheck(<<after>>).health = "ok"
  /\ MemoryCheck(after, lanes).health = "ok"

(* The encoding of a version orders versions as their numbers do.          *)
VersionsAreOrdered(version) ==
  SqliteCheck(version).health = "ok"
    <=> \/ version[1] > 3
        \/ version[1] = 3 /\ version[2] > 51
        \/ version[1] = 3 /\ version[2] = 51 /\ version[3] >= 3

(* In the home directory the project's settings file is the user's, which  *)
(* is read twice, and every hook of amb is reported as a repetition.       *)
HomeIsReadTwice(hooks) ==
  DuplicateHooks(<<hooks, hooks>>) = {<<entry[1], entry[3]>> : entry \in OursIn(hooks)}
=============================================================================
