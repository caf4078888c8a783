--------------------------- MODULE MCSettingsFile ---------------------------
(***************************************************************************)
(* One settings file for TLC: two amb processes beside the host, one hook  *)
(* entry to install or strip, two attempts where the code has eight.  The  *)
(* planner that SettingsFile summarises by Plan is checked on its own, on  *)
(* the documents a host may have, and so is what the doctor says of them.  *)
(***************************************************************************)
EXTENDS SettingsFile, Sequences, TLC

CONSTANTS p1, p2, turn, noHooks, other, noMatcher, unreadable, dead, never, unknown

\* install, uninstall
WantedHooks == {{turn}, {}}

-----------------------------------------------------------------------------
Planner == INSTANCE HookPlan WITH NoHooks <- noHooks, Other <- other, NoMatcher <- noMatcher

Entry(ours, memory, exe) == [ours |-> ours, memory |-> memory, exe |-> exe]
Mine       == Entry(TRUE, FALSE, "new")
MineStale  == Entry(TRUE, FALSE, "old")
MineMemory == Entry(TRUE, TRUE, "new")
Foreign    == Entry(FALSE, FALSE, "their")

Delivery   == <<"start", noMatcher, Mine>>
MemoryLane == <<"start", noMatcher, MineMemory>>
PreTool    == <<"pre", "read", MineMemory>>

\* A turn install, and one with memory; the lanes of memory.
Wishes == {<<Delivery>>, <<Delivery, MemoryLane, PreTool>>}
Lanes  == {"start", "pre"}

UpTo(S, n) == UNION {[1..k -> S] : k \in 0..n}
Wrapper(entries, matchers, n) ==
  [matcher: matchers, hooks: UpTo(entries, n)] \cup {[matcher |-> noMatcher, hooks |-> other]}

\* Much on one event beside little on the other, and the events may be absent.
OnStart(matchers, n) == Wrapper({Mine, MineStale, MineMemory, Foreign}, matchers, n)
StartLists ==
  UpTo(OnStart({noMatcher}, 2), 2) \cup UpTo(OnStart({noMatcher, "read"}, 1), 2) \cup {other}
PreLists   == UpTo(Wrapper({MineMemory, Foreign}, {noMatcher, "read"}, 1), 1) \cup {other}
Keyed(event, lists) == {<<>>} \cup {event :> list : list \in lists}
Hooks == {start @@ pre : start \in Keyed("start", StartLists), pre \in Keyed("pre", PreLists)}

ASSUME PlannerKeepsItsPromises ==
  \A hooks \in Hooks, wishes \in Wishes :
    /\ Planner!InstallIsIdempotent(hooks, wishes)
    /\ Planner!InstallLeavesTheWanted(hooks, wishes, Lanes)
    /\ Planner!OthersAreKept(hooks, wishes)
    /\ Planner!NoopsChangeNothing(hooks, wishes)
    /\ Planner!UninstallRestores(hooks, wishes)
ASSUME PlannerReplacesWhatIsNoObject ==
  \A hooks \in {noHooks, other}, wishes \in Wishes :
    /\ Planner!InstallLeavesTheWanted(hooks, wishes, Lanes)
    /\ ~Planner!NoopInstall(hooks, wishes)
    /\ Planner!Uninstalled(hooks) = hooks

-----------------------------------------------------------------------------
Diagnosis == INSTANCE Doctor WITH
  NoHooks <- noHooks, Other <- other, NoMatcher <- noMatcher,
  Unreadable <- unreadable, Dead <- dead, Never <- never, Unknown <- unknown,
  Running <- "this", SchemaVersion <- 5, FixedIn <- 3051003, PruneAt <- 2, QuietAfter <- 168

Complete == "start" :> <<[matcher |-> noMatcher, hooks |-> <<Mine, MineMemory>>]>>
            @@ "pre" :> <<[matcher |-> "read", hooks |-> <<MineMemory>>]>>
Stale    == "start" :> <<[matcher |-> noMatcher, hooks |-> <<MineStale, Foreign>>], [matcher |-> noMatcher, hooks |-> other]>>
Settings == {Complete, Stale, "start" :> <<[matcher |-> noMatcher, hooks |-> <<Foreign>>]>>,
             "start" :> <<[matcher |-> noMatcher, hooks |-> <<Mine, MineStale>>]>>,
             "start" :> other, noHooks, unreadable}
Banners  == {b \in [{"new", "old", "their"} -> {"this", "that", dead}] : b["their"] = dead}

Worlds ==
  [settings: Settings, elsewhere: {<<>>, <<Stale>>, <<unreadable>>}, banner: Banners,
   sqlite: {<<3, 51, 3>>}, trusted: BOOLEAN, exists: BOOLEAN,
   open: {"opened", "newer", "refused"}, probe: {"passed", "failed"}, bytes: {2},
   delivered: {never, 0, 1}, injected: {never}, injectedFile: {1}, now: {169},
   vault: {"off", "missing", "found"}, loose: {1}, problems: {{}}]

ASSUME TheDoctorIsConsistent ==
  \A world \in Worlds :
    /\ Diagnosis!RowsAgree(world, Lanes)
    /\ Diagnosis!SilentFailuresAreBad(world, Lanes)
    /\ Diagnosis!SilenceIsNotBad(world, Lanes)
ASSUME InstallSatisfiesTheDoctor ==
  \A hooks \in {h \in Hooks : DOMAIN h = {"start"}} \cup {noHooks, other}, banner \in Banners :
    banner["new"] = "this" =>
      Diagnosis!InstallSatisfiesTheDoctor(hooks, <<Delivery, MemoryLane, PreTool>>, Lanes, banner)
ASSUME VersionsAreOrdered ==
  \A version \in (2..4) \X {0, 50, 51, 52, 999} \X {0, 2, 3, 4, 999} :
    Diagnosis!VersionsAreOrdered(version)
ASSUME HomeIsReadTwice == \A hooks \in Settings \ {unreadable} : Diagnosis!HomeIsReadTwice(hooks)

-----------------------------------------------------------------------------
\* Two shipped vendors beside every pair of manifests and every refused one.
Events(post, failed) ==
  [session_start |-> "start", turn_end |-> "turn", tool_post |-> post, session_end |-> "end",
   tool_pre |-> "pre", tool_failed |-> failed]
Descriptor(id, env, post, failed) ==
  [id |-> id, events |-> Events(post, failed), env |-> env, tools |-> {"write"}]
Catalogue == INSTANCE Vendors WITH
  Required <- DOMAIN Events("post", never) \ {"tool_failed"}, Absent <- never, Blank <- noHooks,
  Shipped <- <<Descriptor("claude", <<"C">>, "post", "failed"),
               Descriptor("gemini", <<"G">>, "after", never)>>

Manifest(id, env, post, failed) == Descriptor(id, env, post, failed) @@ [dirs |-> TRUE]
Proper == {Manifest(id, env, post, failed) :
             id \in {"v", "w"}, env \in {<<>>, <<"V">>, <<"C">>, <<"G", "V">>},
             post \in {"post", "after", "own", "other"}, failed \in {never, "failed", "own"}}
Improper == {never} \cup
  UNION {{[m EXCEPT !.id = never], [m EXCEPT !.id = "gemini"], [m EXCEPT !.tools = {}],
          [m EXCEPT !.dirs = FALSE], [m EXCEPT !.events["tool_pre"] = never]} :
            m \in {n \in Proper : n.id = "v" /\ n.events["tool_failed"] = never}}
Directories == {<<>>} \cup {<<m>> : m \in Proper \cup Improper}
               \cup {<<m, n>> : m \in Proper, n \in Proper \cup {never}}
Environments == [{"C", "G", "V"} -> {never, noHooks, "id"}]
ASSUME HooksFindTheirVendor ==
  /\ \A v \in Proper, environment \in Environments : Catalogue!BlankHidesTheNext(v, environment)
  /\ \A files \in Directories :
       /\ Catalogue!ManifestsOnlyAdd(files)
       /\ Catalogue!OwnVariablesDecide(files, Environments)
       /\ \A environment \in Environments : Catalogue!OwnSpellingsDecide(files, environment)
       /\ Catalogue!UnreachedVendors(files, Environments)
=============================================================================
