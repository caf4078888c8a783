------------------------------ MODULE Promotion ------------------------------
(***************************************************************************)
(* Candidates, their derivations and their promotion (src/memory/promote.rs *)
(* and capture.rs), over the ledger.  A candidate is a file of the vault;  *)
(* the board has its row.  Commands that change one read it, write it and  *)
(* upsert its row under the board's write lock, taken to order them: no    *)
(* rollback undoes a file.  Expiry takes no lock.                          *)
(***************************************************************************)
EXTENDS Ledger, Sequences, SequencesExt

CONSTANTS
  Home,        \* the project each session stands in
  Topics,      \* what a repository can be, in order
  TopicsOf,    \* TopicsOf[project]: what it is
  Cands,       \* candidates
  Observation, \* an observation about the file that they are all about
  Refuses,     \* Refuses[c]: the candidates that the phrases rejecting c match
  Days,        \* what a day can be: the commands that each session runs
  Threshold,   \* derivations before a candidate is offered
  TTL,         \* how long it is offered without a new one
  MaxCommands, \* bound: commands that change a candidate
  MaxDeaths,   \* bound: commands ever killed
  Nobody       \* the write lock is free

Commands == {"hook", "derive", "observe", "cite", "promote", "direct", "decline", "reject",
             "expire", "ready", "prune"}
Projects == {Home[s] : s \in Sessions}

ASSUME PromotionAssumption ==
  /\ Notes = Cands \cup {Observation} /\ Observation \notin Cands
  /\ DOMAIN Home = Sessions
  /\ Topics \in Seq(Range(Topics)) /\ TopicsOf \in [Projects -> SUBSET Range(Topics)]
  /\ Refuses \in [Cands -> SUBSET Cands] /\ Days \subseteq [Sessions -> SUBSET Commands]
  /\ Threshold \in Nat \ {0}
  /\ {TTL, MaxTime, MaxCommands, MaxDeaths} \subseteq Nat
  /\ Nobody \notin Sessions

VARIABLES
  files,      \* the candidates' files
  rows,       \* and their rows
  paths,      \* the notes whose paths the index holds
  decisions,  \* the decisions' files
  writer,     \* the session whose command holds the write lock, if any
  day,        \* what each session runs
  proc,       \* the command of each session
  commands,   \* how many were run that change a candidate
  deaths,     \* how many were killed
  torn,       \* history: candidates whose row may not be their file's
  clobbered,  \* history: candidates that expiry wrote over a newer file of
  gone,       \* history: notes whose paths were not always in the index
  suspect     \* history: candidates of which a session that is choosing what to
              \* offer may have asked the index in vain: the row was behind the
              \* file, or the file's status has changed since

store == <<files, rows, paths, decisions, writer>>
history == <<day, commands, deaths, torn, clobbered, gone, suspect>>
vars == <<ledger, store, proc, history>>

-----------------------------------------------------------------------------
Status == {"none", "active", "promoted", "rejected", "expired"}
Strike == [by: Sessions, at: 0..MaxTime]
NoFile == [status |-> "none", created |-> 0, strikes |-> <<>>, declined |-> 0, phrases |-> FALSE]
NoRow  == [status |-> "none", count |-> 0]
RowOf(file) == [status |-> file.status, count |-> Len(file.strikes)]

Idle == [pc |-> "idle", cmd |-> "ready", c |-> Observation, at |-> 0, independent |-> FALSE,
         file |-> NoFile, unread |-> {}, refused |-> FALSE]
Locked   == {"decide", "write", "commit"}
Choosing == {"refusals", "reading"}
Become(s, local) == proc' = [proc EXCEPT ![s] = local]

Begins ==
  /\ commands < MaxCommands /\ commands' = commands + 1
  /\ UNCHANGED <<day, deaths, torn, clobbered, gone, suspect>>

Init ==
  /\ events = {} /\ now = 0
  /\ files = [c \in Cands |-> NoFile]
  /\ rows = [c \in Cands |-> NoRow]
  /\ paths = {Observation}
  /\ decisions = {}
  /\ writer = Nobody
  /\ day \in Days
  /\ proc = [s \in Sessions |-> Idle]
  /\ commands = 0 /\ deaths = 0 /\ torn = {} /\ clobbered = {} /\ gone = {}
  /\ suspect = [s \in Sessions |-> {}]

-----------------------------------------------------------------------------
\* The memory hook of a session shows the observation, in the middle of a
\* command or not.  Candidates are never injected.
Inject(s, lane) ==
  /\ "hook" \in day[s]
  /\ Observation \in paths
  /\ events' = Recorded(s, {Observation}, lane)
  /\ UNCHANGED <<now, store, proc, history>>

\* A note is cited by the observation it helped with, shown or found.
Cite(s) ==
  /\ proc[s].pc = "idle" /\ "cite" \in day[s]
  /\ Observation \in paths
  /\ events' = Recorded(s, {Observation}, "cited")
  /\ UNCHANGED <<now, store, proc, history>>

\* candidates_concerning(): the index says which are active.
Concerning == {c \in Cands \cap paths : rows[c].status = "active"}

\* near_candidates(): an observation's author is shown the candidates about
\* its files once it is written, and the ledger says so.
Near(s) ==
  /\ proc[s].pc = "near"
  /\ events' = Recorded(s, Concerning, "injected_file")
  /\ Become(s, Idle)
  /\ UNCHANGED <<now, store, history>>

\* Asks about the session start only.
IndependentFault(s) == ~\E n \in paths : Has(s, n, "injected")

\* Nothing about the file was shown to this session, as the index has it now.
Independent(s) == ~\E n \in paths : IsShown(s, n)

(* derive(), also as `observe --same-as`: whether it counts is decided        *)
(* before the lock is asked for.                                             *)
Derive(s) ==
  /\ proc[s].pc = "idle"
  /\ \E cmd \in day[s] \cap {"derive", "observe"}, c \in Cands :
       Become(s, [Idle EXCEPT !.pc = "lock", !.cmd = cmd, !.c = c, !.at = now,
                              !.independent = Independent(s)])
  /\ Begins /\ UNCHANGED <<ledger, store>>

\* promote --yes, --decline and --reject, which the person runs as they like.
Decree(s) ==
  /\ proc[s].pc = "idle"
  /\ \E cmd \in day[s] \cap {"promote", "decline", "reject"}, c \in Cands :
       Become(s, [Idle EXCEPT !.pc = "lock", !.cmd = cmd, !.c = c, !.at = now])
  /\ Begins /\ UNCHANGED <<ledger, store>>

\* Nobody waits for anybody.
LockFault(s) ==
  LET c == proc[s].c
      creates == proc[s].cmd \in {"derive", "observe"}
  IN
  /\ proc[s].pc = "lock"
  /\ writer' = s
  /\ Become(s, [proc[s] EXCEPT !.pc = IF proc[s].cmd = "promote" THEN "decide" ELSE "write",
                               !.file = files[c]])
  /\ files[c] = NoFile => creates
  /\ UNCHANGED <<ledger, files, rows, paths, decisions, history>>

\* Forgets to let go when there is no such candidate.
LockLeakFault(s) ==
  LET c == proc[s].c
      creates == proc[s].cmd \in {"derive", "observe"}
  IN
  /\ proc[s].pc = "lock"
  /\ writer = Nobody
  /\ writer' = s
  /\ Become(s, IF files[c] = NoFile /\ ~creates THEN Idle
               ELSE [proc[s] EXCEPT !.pc = IF proc[s].cmd = "promote" THEN "decide" ELSE "write",
                                    !.file = files[c]])
  /\ UNCHANGED <<ledger, files, rows, paths, decisions, history>>

(* BEGIN IMMEDIATE, and the file is read; the guard lets go of the lock on   *)
(* every return.                                                             *)
Lock(s) ==
  LET c == proc[s].c
      creates == proc[s].cmd \in {"derive", "observe"}
  IN
  /\ proc[s].pc = "lock"
  /\ writer = Nobody
  /\ IF files[c] = NoFile /\ ~creates
     THEN Become(s, Idle) /\ UNCHANGED writer
     ELSE /\ writer' = s
          /\ Become(s, [proc[s] EXCEPT !.pc = IF proc[s].cmd = "promote" THEN "decide" ELSE "write",
                                       !.file = files[c]])
  /\ UNCHANGED <<ledger, files, rows, paths, decisions, history>>

ProjectsOf(strikes) == {Home[k.by] : k \in Range(strikes)}

\* A scope is a project, a topic, or everywhere.
Scope(rung, of) == [rung |-> rung, of |-> of]

\* Which topics all these projects are in.
Shared(projects) == {i \in DOMAIN Topics : \A p \in projects : Topics[i] \in TopicsOf[p]}

\* A topic of some of the projects will do.
DestinationFault(strikes) ==
  LET projects == ProjectsOf(strikes)
      known == {i \in DOMAIN Topics : \E p \in projects : Topics[i] \in TopicsOf[p]}
  IN IF Cardinality(projects) = 1 THEN Scope("project", CHOOSE p \in projects : TRUE)
     ELSE IF known # {} THEN Scope("topic", Topics[Min(known)])
     ELSE Scope("everywhere", "@@")

\* One project, the first topic that several share, or everywhere.
Destination(strikes) ==
  LET projects == ProjectsOf(strikes) IN
  IF Cardinality(projects) = 1 THEN Scope("project", CHOOSE p \in projects : TRUE)
  ELSE IF projects # {} /\ Shared(projects) # {} THEN Scope("topic", Topics[Min(Shared(projects))])
  ELSE Scope("everywhere", "@@")

\* A decision's file is named after its scope and its candidate.
Decided(d) == {e \in decisions : e.scope # d.scope \/ e.of # d.of} \cup {d}

\* promote(): the decision takes the derivations as its evidence.
Decide(s) ==
  /\ proc[s].pc = "decide"
  /\ decisions' = Decided([of |-> proc[s].c, scope |-> Destination(proc[s].file.strikes),
                           strikes |-> proc[s].file.strikes, direct |-> FALSE])
  /\ Become(s, [proc[s] EXCEPT !.pc = "write"])
  /\ UNCHANGED <<ledger, files, rows, paths, writer, history>>

\* What the command makes of the file it read: derive_locked(), promote(),
\* decline(), reject() and expire_candidates().
Derived(s) ==
  LET file == proc[s].file IN
  [file EXCEPT !.status = IF @ = "none" THEN "active" ELSE @,
               !.created = IF file.status = "none" THEN proc[s].at ELSE @,
               !.strikes = IF proc[s].independent
                           THEN Append(@, [by |-> s, at |-> proc[s].at]) ELSE @]
Promoted(file) == [file EXCEPT !.status = "promoted"]
Declined(file) == [file EXCEPT !.declined = Len(file.strikes)]
Rejected(file) == [file EXCEPT !.status = "rejected", !.phrases = TRUE]
Expired(file)  == [file EXCEPT !.status = "expired"]

Edited(s) ==
  CASE proc[s].cmd \in {"derive", "observe"} -> Derived(s)
    [] proc[s].cmd = "promote" -> Promoted(proc[s].file)
    [] proc[s].cmd = "decline" -> Declined(proc[s].file)
    [] proc[s].cmd = "reject"  -> Rejected(proc[s].file)
    [] OTHER                   -> Expired(proc[s].file)

\* The file of a candidate is written; who is choosing may have asked before.
Rewrite(c, file) ==
  /\ files' = [files EXCEPT ![c] = file]
  /\ suspect' = [s \in Sessions |->
                   IF proc[s].pc \in Choosing /\ files[c].status # file.status
                   THEN suspect[s] \cup {c} ELSE suspect[s]]

Write(s) ==
  /\ proc[s].pc = "write"
  /\ Rewrite(proc[s].c, Edited(s))
  /\ Become(s, [proc[s] EXCEPT !.pc = "commit", !.file = Edited(s)])
  /\ UNCHANGED <<ledger, rows, paths, decisions, writer, day, commands, deaths, torn, clobbered, gone>>

\* The row, from the text that was written.
UpsertedRow(s) ==
  LET c == proc[s].c IN
  /\ rows' = [rows EXCEPT ![c] = RowOf(proc[s].file)]
  /\ torn' = IF files[c] = proc[s].file THEN torn \ {c} ELSE torn \cup {c}

Upserted(s) == UpsertedRow(s) /\ paths' = paths \cup {proc[s].c}

\* The decree is not indexed.
CommitFault(s) ==
  /\ proc[s].pc = "commit"
  /\ IF proc[s].cmd \in {"derive", "observe"} THEN Upserted(s) ELSE UNCHANGED <<rows, paths, torn>>
  /\ writer' = Nobody
  /\ Become(s, IF proc[s].cmd = "observe" THEN [Idle EXCEPT !.pc = "near"] ELSE Idle)
  /\ UNCHANGED <<ledger, files, decisions, day, commands, deaths, clobbered, gone, suspect>>

\* The row and the paths, at once; `observe` goes on to its own note.
Commit(s) ==
  /\ proc[s].pc = "commit"
  /\ Upserted(s)
  /\ writer' = Nobody
  /\ Become(s, IF proc[s].cmd = "observe" THEN [Idle EXCEPT !.pc = "near"] ELSE Idle)
  /\ UNCHANGED <<ledger, files, decisions, day, commands, deaths, clobbered, gone, suspect>>

\* promote_direct(): an assertion, with no evidence, in one write.
PromoteDirect(s) ==
  /\ proc[s].pc = "idle" /\ "direct" \in day[s]
  /\ \E c \in Cands :
       /\ files[c] # NoFile
       /\ decisions' = Decided([of |-> c, scope |-> Scope("project", Home[s]),
                                strikes |-> <<>>, direct |-> TRUE])
  /\ Begins /\ UNCHANGED <<ledger, files, rows, paths, writer, proc>>

-----------------------------------------------------------------------------
Stale(file, at) == \A k \in Range(file.strikes) : at - k.at > TTL

\* expire_candidates(), one candidate of it: the index says which are active.
Expire(s) ==
  /\ proc[s].pc = "idle" /\ "expire" \in day[s]
  /\ \E c \in Cands :
       /\ rows[c].status = "active"
       /\ Become(s, [Idle EXCEPT !.pc = "stale", !.cmd = "expire", !.c = c, !.at = now])
  /\ Begins /\ UNCHANGED <<ledger, store>>

\* The file says when it was created and last derived, whatever its status is.
ReadStale(s) ==
  LET c == proc[s].c IN
  /\ proc[s].pc = "stale"
  /\ Become(s, IF files[c] # NoFile /\ Stale(files[c], proc[s].at)
                  /\ proc[s].at - files[c].created > TTL
               THEN [proc[s] EXCEPT !.pc = "expire", !.file = files[c]] ELSE Idle)
  /\ UNCHANGED <<ledger, store, history>>

\* Written over whatever the file has become.
ExpireWrite(s) ==
  LET c == proc[s].c IN
  /\ proc[s].pc = "expire"
  /\ Rewrite(c, Edited(s))
  /\ clobbered' = IF files[c] = proc[s].file THEN clobbered ELSE clobbered \cup {c}
  /\ Become(s, [proc[s] EXCEPT !.pc = "expired", !.file = Edited(s)])
  /\ UNCHANGED <<ledger, rows, paths, decisions, writer, day, commands, deaths, torn, gone>>

\* upsert() outside a transaction: the row, the paths deleted, the paths put
\* back, each committed by itself.
ExpireRow(s) ==
  /\ proc[s].pc = "expired"
  /\ writer = Nobody
  /\ UpsertedRow(s)
  /\ Become(s, [proc[s] EXCEPT !.pc = "clear"])
  /\ UNCHANGED <<ledger, files, paths, decisions, writer, day, commands, deaths, clobbered, gone, suspect>>

ClearPaths(s) ==
  /\ proc[s].pc = "clear"
  /\ writer = Nobody
  /\ paths' = paths \ {proc[s].c}
  /\ gone' = gone \cup {proc[s].c}
  /\ Become(s, [proc[s] EXCEPT !.pc = "restore"])
  /\ UNCHANGED <<ledger, files, rows, decisions, writer, day, commands, deaths, torn, clobbered, suspect>>

RestorePaths(s) ==
  /\ proc[s].pc = "restore"
  /\ writer = Nobody
  /\ paths' = paths \cup {proc[s].c}
  /\ Become(s, Idle)
  /\ UNCHANGED <<ledger, files, rows, decisions, writer, history>>

\* A row may not say what the candidate's file does.
Unsettled(c) ==
  c \in torn \/ \E s \in Sessions : proc[s].c = c /\ proc[s].pc \in {"commit", "expired"}

(* ready_candidates(), one candidate of it: the index says which are ready, *)
(* and in a second query which are rejected; then the files are read, the   *)
(* rejected ones for their phrases, the candidate's for its derivations.    *)
(* None of it is under a lock, and no file is asked for its status.         *)
Ready(s) ==
  /\ proc[s].pc = "idle" /\ "ready" \in day[s]
  /\ \E c \in Cands :
       /\ rows[c].status = "active" /\ rows[c].count >= Threshold
       /\ Become(s, [Idle EXCEPT !.pc = "refusals", !.c = c, !.at = now])
       /\ suspect' = [suspect EXCEPT ![s] = IF Unsettled(c) THEN {c} ELSE {}]
  /\ UNCHANGED <<ledger, store, day, commands, deaths, torn, clobbered, gone>>

\* rejections().  The candidate itself was active when it was asked for.
Rejections(s) ==
  LET c == proc[s].c IN
  /\ proc[s].pc = "refusals"
  /\ Become(s, [proc[s] EXCEPT !.pc = "reading", !.unread = {r \in Cands : rows[r].status = "rejected"}])
  /\ suspect' = [suspect EXCEPT ![s] = (@ \cap {c}) \cup {r \in Cands \ {c} : Unsettled(r)}]
  /\ UNCHANGED <<ledger, store, day, commands, deaths, torn, clobbered, gone>>

\* refused_by(): a phrase on another candidate.
ReadRejection(s) ==
  /\ proc[s].pc = "reading"
  /\ \E r \in proc[s].unread :
       Become(s, [proc[s] EXCEPT !.unread = @ \ {r},
                                 !.refused = @ \/ (files[r].phrases /\ proc[s].c \in Refuses[r])])
  /\ UNCHANGED <<ledger, store, history>>

\* Refused, declined with nothing derived since, or without a derivation for
\* too long: passed over.
Offerable(s, file) ==
  /\ file # NoFile /\ ~proc[s].refused
  /\ file.declined # 0 => Len(file.strikes) > file.declined
  /\ ~Stale(file, proc[s].at)

ReadReady(s) ==
  LET c == proc[s].c IN
  /\ proc[s].pc = "reading" /\ proc[s].unread = {}
  /\ IF Offerable(s, files[c])
     THEN Become(s, [Idle EXCEPT !.pc = "offered", !.c = c, !.file = files[c]])
     ELSE Become(s, Idle)
  /\ suspect' = [suspect EXCEPT ![s] = {}]
  /\ UNCHANGED <<ledger, store, day, commands, deaths, torn, clobbered, gone>>

Offered(s) ==
  /\ proc[s].pc = "offered"
  /\ Become(s, Idle)
  /\ UNCHANGED <<ledger, store, history>>

-----------------------------------------------------------------------------
\* The observation's file is deleted, and pruned; or restored, and indexed.
Unindex(s) ==
  /\ proc[s].pc = "idle" /\ "prune" \in day[s]
  /\ paths' = IF Observation \in paths THEN paths \ {Observation} ELSE paths \cup {Observation}
  /\ gone' = gone \cup {Observation}
  /\ UNCHANGED <<ledger, files, rows, decisions, writer, proc, day, commands, deaths, torn, clobbered, suspect>>

\* `amb memory index` finds the mtime that the row does not have.
Reindex(c) ==
  /\ writer = Nobody
  /\ files[c] # NoFile /\ rows[c] # RowOf(files[c])
  /\ rows' = [rows EXCEPT ![c] = RowOf(files[c])]
  /\ paths' = paths \cup {c}
  /\ torn' = torn \ {c}
  /\ UNCHANGED <<ledger, files, decisions, writer, proc, day, commands, deaths, clobbered, gone, suspect>>

\* A command is killed: its transaction rolls back, its file stays.
Die(s) ==
  /\ proc[s].pc \notin {"idle", "offered"}
  /\ deaths < MaxDeaths /\ deaths' = deaths + 1
  /\ Become(s, Idle)
  /\ writer' = IF writer = s THEN Nobody ELSE writer
  /\ torn' = IF proc[s].pc \in {"commit", "expired"} THEN torn \cup {proc[s].c} ELSE torn
  /\ suspect' = [suspect EXCEPT ![s] = {}]
  /\ UNCHANGED <<ledger, files, rows, paths, decisions, day, commands, clobbered, gone>>

Time == Tick /\ UNCHANGED <<events, store, proc, history>>

Next ==
  \/ \E s \in Sessions :
       \/ \E lane \in Lanes : Inject(s, lane)
       \/ Cite(s) \/ Near(s) \/ Derive(s) \/ Decree(s)
       \/ Lock(s) \/ Decide(s) \/ Write(s) \/ Commit(s)
       \/ PromoteDirect(s)
       \/ Expire(s) \/ ReadStale(s) \/ ExpireWrite(s)
       \/ ExpireRow(s) \/ ClearPaths(s) \/ RestorePaths(s)
       \/ Ready(s) \/ Rejections(s) \/ ReadRejection(s) \/ ReadReady(s) \/ Offered(s)
       \/ Unindex(s) \/ Die(s)
  \/ \E c \in Cands : Reindex(c)
  \/ Time

Spec == Init /\ [][Next]_vars

-----------------------------------------------------------------------------
\* Type invariant; the write lock is held in the critical section, and there only.
TypeOK ==
  /\ events \subseteq Event /\ now \in 0..MaxTime
  /\ \A c \in Cands : files[c].status \in Status /\ files[c].strikes \in Seq(Strike)
  /\ \A c \in Cands : rows[c].status \in Status /\ rows[c].count \in Nat
  /\ paths \subseteq Notes
  /\ \A s \in Sessions : writer = s <=> proc[s].pc \in Locked
  /\ commands \in 0..MaxCommands /\ deaths \in 0..MaxDeaths
  /\ torn \cup clobbered \cup gone \subseteq Notes
  /\ \A s \in Sessions : suspect[s] \subseteq Cands

(* derive() under the vault lock (promote.rs:150): no derivation, once in the *)
(* candidate's file, is lost or changed by another command, except where      *)
(* expiry, which takes no lock, wrote an older file over it.                  *)
StrikesAreKept ==
  [][\A c \in Cands : IsPrefix(files[c].strikes, files'[c].strikes) \/ c \in clobbered']_vars

(* independent() (promote.rs:21): what was shown to a session about a file,   *)
(* in either lane and from its own candidates, keeps its later derivations    *)
(* from counting, unless the note's paths were out of the index at a time.    *)
StrikesAreIndependent ==
  \A c \in Cands : \A k \in Range(files[c].strikes) : \A e \in events :
    e.session = k.by /\ e.event \in Lanes /\ e.at < k.at => e.note \in gone

(* promote() (promote.rs:535): a decision rests on derivations that its       *)
(* candidate's file still shows, and applies where they were made: in the one *)
(* project, in a topic that is every project's, or everywhere when there is   *)
(* no such topic.                                                             *)
DecisionsRestOnEvidence ==
  \A d \in decisions : d.direct \/
    LET projects == ProjectsOf(d.strikes) IN
    /\ IsPrefix(d.strikes, files[d.of].strikes) \/ d.of \in clobbered
    /\ d.scope.rung = "project" => projects = {d.scope.of}
    /\ d.scope.rung = "topic" => \A p \in projects : d.scope.of \in TopicsOf[p]
    /\ d.scope.rung = "everywhere" =>
         Cardinality(projects) # 1 /\ (projects = {} \/ Shared(projects) = {})

(* ready_candidates() decides on the index, which every command brings up to  *)
(* its file before it ends: what is offered is an active candidate with       *)
(* derivations enough that no rejected candidate refuses, unless the row it   *)
(* asked for was behind its file, a command being at work or killed between   *)
(* the two, or the file's status changed between the query and the read:      *)
(* promoted, rejected or expired by then, it is offered all the same.         *)
OffersAreOpen ==
  [][\A s \in Sessions : proc'[s].pc = "offered" /\ proc[s].pc # "offered" =>
       LET c == proc'[s].c IN
       \/ c \in suspect[s]
       \/ /\ files[c].status = "active"
          /\ Len(files[c].strikes) >= Threshold
          /\ \A r \in Cands :
               files[r].status = "rejected" /\ c \in Refuses[r] => r \in suspect[s]]_vars
=============================================================================
