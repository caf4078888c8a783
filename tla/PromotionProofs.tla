--------------------------- MODULE PromotionProofs ---------------------------
(***************************************************************************)
(* Theorems about Promotion for any sessions, projects, candidates, days   *)
(* and bounds.                                                             *)
(***************************************************************************)
EXTENDS Promotion, SequenceTheorems, FiniteSetTheorems, WellFoundedInduction, TLAPS

-----------------------------------------------------------------------------
(* Type correctness.                                                       *)

File  == [status: Status, created: 0..MaxTime, strikes: Seq(Strike), declined: Nat,
          phrases: BOOLEAN]
Row   == [status: Status, count: Nat]
Steps == {"idle", "lock", "decide", "write", "commit", "near", "stale", "expire", "expired",
          "clear", "restore", "refusals", "reading", "offered"}
Local == [pc: Steps, cmd: Commands, c: Notes, at: 0..MaxTime, independent: BOOLEAN, file: File,
          unread: SUBSET Cands, refused: BOOLEAN]

\* What a command is about, at each of its steps.
Sane(local) ==
  /\ local.pc \notin {"idle", "near"} => local.c \in Cands
  /\ local.pc \in {"stale", "expire", "expired"} => local.cmd = "expire"

(* What TypeOK says, and the shape of what it speaks of.                   *)
Typed ==
  /\ events \subseteq Event /\ now \in 0..MaxTime
  /\ files \in [Cands -> File] /\ rows \in [Cands -> Row] /\ paths \subseteq Notes
  /\ proc \in [Sessions -> Local] /\ \A s \in Sessions : Sane(proc[s])
  /\ \A s \in Sessions : writer = s <=> proc[s].pc \in Locked
  /\ commands \in 0..MaxCommands /\ deaths \in 0..MaxDeaths
  /\ torn \cup clobbered \cup gone \subseteq Notes
  /\ suspect \in [Sessions -> SUBSET Cands]

LEMMA ConstantsFit ==
  /\ Cands \subseteq Notes /\ Observation \in Notes /\ Nobody \notin Sessions
  /\ MaxTime \in Nat /\ MaxCommands \in Nat /\ MaxDeaths \in Nat /\ Threshold \in Nat
BY PromotionAssumption

LEMMA TypedIsTypeOK == Typed => TypeOK
BY ConstantsFit DEF Typed, TypeOK, File, Row

LEMMA NoFileIsAFile == NoFile \in File /\ NoRow \in Row /\ Idle \in Local
BY ConstantsFit DEF NoFile, File, Status, NoRow, Row, Idle, Local, Steps, Commands

(* What a command makes of the file it read, command by command.           *)
LEMMA EditedIs ==
  ASSUME NEW s
  PROVE  /\ proc[s].cmd = "expire" => Edited(s) = Expired(proc[s].file)
         /\ Edited(s) \in {Derived(s), Promoted(proc[s].file), Declined(proc[s].file),
                          Rejected(proc[s].file), Expired(proc[s].file)}
<1>1. CASE proc[s].cmd \in {"derive", "observe"}
  BY <1>1 DEF Edited
<1>2. CASE proc[s].cmd = "promote"
  BY <1>2 DEF Edited
<1>3. CASE proc[s].cmd = "decline"
  BY <1>3 DEF Edited
<1>4. CASE proc[s].cmd = "reject"
  BY <1>4 DEF Edited
<1>5. CASE proc[s].cmd \notin {"derive", "observe", "promote", "decline", "reject"}
  BY <1>5 DEF Edited
<1> QED
  BY <1>1, <1>2, <1>3, <1>4, <1>5

(* What a command makes of a file is a file.                               *)
LEMMA EditedType ==
  ASSUME Typed, NEW s \in Sessions
  PROVE  Edited(s) \in File /\ RowOf(proc[s].file) \in Row
<1>1. proc[s].file \in File /\ proc[s].at \in 0..MaxTime
  BY DEF Typed, Local
<1> DEFINE f == proc[s].file
<1>2. Derived(s) \in File
  <2>1. Append(f.strikes, [by |-> s, at |-> proc[s].at]) \in Seq(Strike)
    BY <1>1 DEF File, Strike
  <2> QED
    BY <1>1, <2>1 DEF Derived, File, Status
<1>3. Promoted(f) \in File /\ Rejected(f) \in File /\ Expired(f) \in File
  BY <1>1 DEF Promoted, Rejected, Expired, File, Status
<1>4. Declined(f) \in File
  BY <1>1 DEF Declined, File
<1>5. RowOf(f) \in Row
  BY <1>1 DEF RowOf, Row, File
<1> QED
  BY <1>2, <1>3, <1>4, <1>5, EditedIs

(* A command goes on to its next step: the others stay where they are, and *)
(* the write lock is taken and let go with the critical section.           *)
LEMMA BecomeTyped ==
  ASSUME Typed, NEW s \in Sessions, NEW local \in Local, Sane(local), Become(s, local),
         \/ UNCHANGED writer /\ (local.pc \in Locked <=> proc[s].pc \in Locked)
         \/ writer = Nobody /\ writer' = s /\ local.pc \in Locked
         \/ writer = s /\ writer' = Nobody /\ local.pc \notin Locked
  PROVE  /\ proc' \in [Sessions -> Local] /\ \A t \in Sessions : Sane(proc'[t])
         /\ \A t \in Sessions : writer' = t <=> proc'[t].pc \in Locked
<1>1. /\ proc' \in [Sessions -> Local]
      /\ \A t \in Sessions : proc'[t] = IF t = s THEN local ELSE proc[t]
  BY DEF Become, Typed
<1>2. \A t \in Sessions : Sane(proc'[t])
  BY <1>1 DEF Typed
<1>3. \A t \in Sessions : writer' = t <=> proc'[t].pc \in Locked
  BY <1>1, ConstantsFit DEF Typed
<1> QED
  BY <1>1, <1>2, <1>3

(* The ledger takes what it is told of once.                               *)
LEMMA RecordedType ==
  ASSUME Typed, NEW s \in Sessions, NEW ids \in SUBSET Notes, NEW event \in Lanes \cup {"cited"}
  PROVE  Recorded(s, ids, event) \subseteq Event
BY DEF Recorded, Event, Typed

LEMMA UpsertedType ==
  ASSUME Typed, NEW s \in Sessions, proc[s].c \in Cands, Upserted(s)
  PROVE  rows' \in [Cands -> Row] /\ paths' \subseteq Notes /\ torn' \subseteq Notes
BY EditedType, ConstantsFit DEF Upserted, UpsertedRow, Typed

(* A file is written, and who is choosing is told of it.                   *)
LEMMA RewriteType ==
  ASSUME Typed, NEW c \in Cands, NEW file \in File, Rewrite(c, file)
  PROVE  files' \in [Cands -> File] /\ suspect' \in [Sessions -> SUBSET Cands]
BY DEF Typed, Rewrite

LEMMA TypedInit == Init => Typed
<1> SUFFICES ASSUME Init PROVE Typed
  OBVIOUS
<1>1. Idle.pc = "idle" /\ Sane(Idle)
  BY DEF Idle, Sane
<1> QED
  BY <1>1, NoFileIsAFile, ConstantsFit DEF Init, Typed, Locked

\* What is left of Typed once the process and the lock are settled.
Kept(s) ==
  /\ proc' \in [Sessions -> Local] /\ \A t \in Sessions : Sane(proc'[t])
  /\ \A t \in Sessions : writer' = t <=> proc'[t].pc \in Locked

LEMMA IdleType ==
  /\ Idle \in Local /\ Sane(Idle) /\ Idle.pc \notin Locked
  /\ LET near == [Idle EXCEPT !.pc = "near"]
     IN near \in Local /\ Sane(near) /\ near.pc \notin Locked
BY NoFileIsAFile DEF Idle, Sane, Locked, Local, Steps

(* The ledger, the clock and the index commands.                           *)
LEMMA OutsideTyped ==
  ASSUME Typed, NEW s \in Sessions,
         (\E lane \in Lanes : Inject(s, lane)) \/ Cite(s) \/ PromoteDirect(s) \/ Unindex(s)
  PROVE  Typed'
<1>1. ASSUME NEW lane \in Lanes, Inject(s, lane) PROVE Typed'
  <2>1. events' \subseteq Event
    BY <1>1, RecordedType, ConstantsFit DEF Inject
  <2> QED
    BY <1>1, <2>1 DEF Inject, Typed, store, history
<1>2. CASE Cite(s)
  <2>1. events' \subseteq Event
    BY <1>2, RecordedType, ConstantsFit DEF Cite
  <2> QED
    BY <1>2, <2>1 DEF Cite, Typed, store, history
<1>3. CASE PromoteDirect(s)
  BY <1>3, ConstantsFit DEF PromoteDirect, Begins, Typed, ledger
<1>4. CASE Unindex(s)
  BY <1>4, ConstantsFit DEF Unindex, Typed, ledger
<1> QED
  BY <1>1, <1>2, <1>3, <1>4

(* The bound on the commands holds, and their history does not change.     *)
LEMMA BeginsType ==
  ASSUME Typed, Begins
  PROVE  /\ commands' \in 0..MaxCommands /\ deaths' \in 0..MaxDeaths
         /\ UNCHANGED <<torn, clobbered, gone, suspect>>
BY ConstantsFit DEF Typed, Begins

(* A step from outside the critical section to outside it.                 *)
LEMMA LocalTyped ==
  ASSUME Typed, NEW s \in Sessions, NEW local \in Local, Sane(local), local.pc \notin Locked,
         Become(s, local), proc[s].pc \notin Locked, UNCHANGED writer
  PROVE  Kept(s)
BY BecomeTyped DEF Kept

(* What begins a command that takes the lock.                              *)
LEMMA BeginTyped ==
  ASSUME Typed, NEW s \in Sessions, Derive(s) \/ Decree(s)
  PROVE  Typed'
<1>1. proc[s].pc \notin Locked /\ UNCHANGED writer
  BY DEF Derive, Decree, store, Locked
<1>2. CASE Derive(s)
  <2>1. PICK cmd \in day[s] \cap {"derive", "observe"}, c \in Cands :
          Become(s, [Idle EXCEPT !.pc = "lock", !.cmd = cmd, !.c = c, !.at = now,
                                 !.independent = Independent(s)])
    BY <1>2 DEF Derive
  <2> DEFINE local == [Idle EXCEPT !.pc = "lock", !.cmd = cmd, !.c = c, !.at = now,
                                   !.independent = Independent(s)]
  <2>2. Independent(s) \in BOOLEAN /\ cmd \in Commands
    BY <2>1 DEF Independent, Commands
  <2>3. local \in Local /\ Sane(local) /\ local.pc \notin Locked
    BY <2>2, NoFileIsAFile, ConstantsFit DEF Idle, Local, Steps, Sane, Locked, Typed
  <2>4. Become(s, local)
    BY <2>1
  <2> HIDE DEF local
  <2>5. Kept(s)
    BY <1>1, <2>3, <2>4, LocalTyped
  <2> QED
    BY <1>2, <2>5, BeginsType DEF Kept, Derive, Typed, ledger, store
<1>3. CASE Decree(s)
  <2>1. PICK cmd \in day[s] \cap {"promote", "decline", "reject"}, c \in Cands :
          Become(s, [Idle EXCEPT !.pc = "lock", !.cmd = cmd, !.c = c, !.at = now])
    BY <1>3 DEF Decree
  <2> DEFINE local == [Idle EXCEPT !.pc = "lock", !.cmd = cmd, !.c = c, !.at = now]
  <2>2. cmd \in Commands
    BY <2>1 DEF Commands
  <2>3. local \in Local /\ Sane(local) /\ local.pc \notin Locked
    BY <2>2, NoFileIsAFile, ConstantsFit DEF Idle, Local, Steps, Sane, Locked, Typed
  <2>4. Become(s, local)
    BY <2>1
  <2> HIDE DEF local
  <2>5. Kept(s)
    BY <1>1, <2>3, <2>4, LocalTyped
  <2> QED
    BY <1>3, <2>5, BeginsType DEF Kept, Decree, Typed, ledger, store
<1> QED
  BY <1>2, <1>3

(* What is done under the lock.                                            *)
LEMMA LockTyped ==
  ASSUME Typed, NEW s \in Sessions, Lock(s)
  PROVE  Typed'
<1> DEFINE c == proc[s].c
           pc == IF proc[s].cmd = "promote" THEN "decide" ELSE "write"
           local == [proc[s] EXCEPT !.pc = pc, !.file = files[c]]
<1>1. proc[s] \in Local /\ c \in Cands /\ files[c] \in File /\ proc[s].pc \notin Locked
  BY DEF Typed, Sane, Lock, Locked
<1>2. local \in Local /\ Sane(local) /\ local.pc \in Locked
  BY <1>1 DEF Local, Steps, Sane, Locked
<1>3. CASE Become(s, Idle) /\ UNCHANGED writer
  <2>1. Kept(s)
    BY <1>1, <1>3, IdleType, BecomeTyped DEF Kept
  <2> QED
    BY <2>1 DEF Kept, Lock, Typed, ledger, history
<1>4. CASE writer' = s /\ Become(s, local)
  <2>1. writer = Nobody
    BY DEF Lock
  <2>2. Kept(s)
    <3> HIDE DEF local
    <3> QED
      BY <1>2, <1>4, <2>1, BecomeTyped DEF Kept
  <2> QED
    BY <2>2 DEF Kept, Lock, Typed, ledger, history
<1> QED
  BY <1>3, <1>4 DEF Lock

LEMMA LockedTyped ==
  ASSUME Typed, NEW s \in Sessions, Decide(s) \/ Write(s) \/ Commit(s)
  PROVE  Typed'
<1>1. proc[s] \in Local /\ proc[s].c \in Cands /\ proc[s].pc \in Locked /\ writer = s
  BY DEF Typed, Sane, Decide, Write, Commit, Locked
<1>2. CASE Decide(s)
  <2> DEFINE local == [proc[s] EXCEPT !.pc = "write"]
  <2>1. local \in Local /\ Sane(local) /\ local.pc \in Locked
    BY <1>1 DEF Local, Steps, Sane, Locked
  <2>2. Become(s, local) /\ UNCHANGED writer
    BY <1>2 DEF Decide
  <2> HIDE DEF local
  <2>3. Kept(s)
    BY <1>1, <2>1, <2>2, BecomeTyped DEF Kept
  <2> QED
    BY <1>2, <2>3 DEF Kept, Decide, Typed, ledger, history
<1>3. CASE Write(s)
  <2> DEFINE local == [proc[s] EXCEPT !.pc = "commit", !.file = Edited(s)]
  <2>1. local \in Local /\ Sane(local) /\ local.pc \in Locked
    BY <1>1, EditedType DEF Local, Steps, Sane, Locked
  <2>2. Become(s, local) /\ UNCHANGED writer
    BY <1>3 DEF Write
  <2> HIDE DEF local
  <2>3. Kept(s)
    BY <1>1, <2>1, <2>2, BecomeTyped DEF Kept
  <2> QED
    BY <1>1, <1>3, <2>3, EditedType, RewriteType DEF Kept, Write, Typed, ledger
<1>4. CASE Commit(s)
  <2>1. Kept(s)
    BY <1>1, <1>4, IdleType, BecomeTyped DEF Kept, Commit
  <2>2. rows' \in [Cands -> Row] /\ paths' \subseteq Notes /\ torn' \subseteq Notes
    BY <1>1, <1>4, UpsertedType DEF Commit
  <2> QED
    BY <1>4, <2>1, <2>2 DEF Kept, Commit, Typed, ledger
<1> QED
  BY <1>2, <1>3, <1>4

(* Expiry, which takes no lock.                                            *)
LEMMA ExpiryTyped ==
  ASSUME Typed, NEW s \in Sessions,
         Expire(s) \/ ReadStale(s) \/ ExpireWrite(s)
         \/ ExpireRow(s) \/ ClearPaths(s) \/ RestorePaths(s)
  PROVE  Typed'
<1>1. proc[s] \in Local /\ Sane(proc[s]) /\ proc[s].pc \notin Locked /\ UNCHANGED writer
  BY DEF Typed, Expire, ReadStale, ExpireWrite, ExpireRow, ClearPaths, RestorePaths, Locked, store
<1>2. CASE Expire(s)
  <2>1. PICK c \in Cands :
          Become(s, [Idle EXCEPT !.pc = "stale", !.cmd = "expire", !.c = c, !.at = now])
    BY <1>2 DEF Expire
  <2> DEFINE local == [Idle EXCEPT !.pc = "stale", !.cmd = "expire", !.c = c, !.at = now]
  <2>2. local \in Local /\ Sane(local) /\ local.pc \notin Locked
    BY NoFileIsAFile, ConstantsFit DEF Idle, Local, Steps, Sane, Locked, Typed, Commands
  <2>3. Become(s, local)
    BY <2>1
  <2> HIDE DEF local
  <2>4. Kept(s)
    BY <1>1, <2>2, <2>3, LocalTyped
  <2> QED
    BY <1>2, <2>4, BeginsType DEF Kept, Expire, Typed, ledger, store
<1>3. CASE ReadStale(s)
  <2> DEFINE local == [proc[s] EXCEPT !.pc = "expire", !.file = files[proc[s].c]]
  <2>1. local \in Local /\ Sane(local) /\ local.pc \notin Locked
    BY <1>1, <1>3 DEF Local, Steps, Sane, Locked, ReadStale, Typed
  <2>2. Become(s, local) \/ Become(s, Idle)
    BY <1>3 DEF ReadStale
  <2> HIDE DEF local
  <2>3. Kept(s)
    BY <1>1, <2>1, <2>2, IdleType, LocalTyped
  <2> QED
    BY <1>3, <2>3 DEF Kept, ReadStale, Typed, ledger, store, history
<1>4. CASE ExpireWrite(s)
  <2> DEFINE local == [proc[s] EXCEPT !.pc = "expired", !.file = Edited(s)]
  <2>1. local \in Local /\ Sane(local) /\ local.pc \notin Locked /\ proc[s].c \in Cands
    BY <1>1, <1>4, EditedType DEF Local, Steps, Sane, Locked, ExpireWrite
  <2>2. Become(s, local)
    BY <1>4 DEF ExpireWrite
  <2> HIDE DEF local
  <2>3. Kept(s)
    BY <1>1, <2>1, <2>2, LocalTyped
  <2> QED
    BY <1>4, <2>1, <2>3, EditedType, RewriteType, ConstantsFit DEF Kept, ExpireWrite, Typed, ledger
<1>5. CASE ExpireRow(s)
  <2> DEFINE local == [proc[s] EXCEPT !.pc = "clear"]
  <2>1. local \in Local /\ Sane(local) /\ local.pc \notin Locked
    BY <1>1, <1>5 DEF Local, Steps, Sane, Locked, ExpireRow
  <2>2. Become(s, local)
    BY <1>5 DEF ExpireRow
  <2> HIDE DEF local
  <2>3. Kept(s)
    BY <1>1, <2>1, <2>2, LocalTyped
  <2>4. rows' \in [Cands -> Row] /\ torn' \subseteq Notes
    BY <1>1, <1>5, EditedType, ConstantsFit DEF ExpireRow, UpsertedRow, Typed, Sane
  <2> QED
    BY <1>5, <2>3, <2>4 DEF Kept, ExpireRow, Typed, ledger
<1>6. CASE ClearPaths(s)
  <2> DEFINE local == [proc[s] EXCEPT !.pc = "restore"]
  <2>1. local \in Local /\ Sane(local) /\ local.pc \notin Locked /\ proc[s].c \in Notes
    BY <1>1, <1>6 DEF Local, Steps, Sane, Locked, ClearPaths
  <2>2. Become(s, local)
    BY <1>6 DEF ClearPaths
  <2> HIDE DEF local
  <2>3. Kept(s)
    BY <1>1, <2>1, <2>2, LocalTyped
  <2> QED
    BY <1>6, <2>1, <2>3 DEF Kept, ClearPaths, Typed, ledger
<1>7. CASE RestorePaths(s)
  <2>1. Kept(s)
    BY <1>1, <1>7, IdleType, LocalTyped DEF RestorePaths
  <2> QED
    BY <1>1, <1>7, <2>1 DEF Kept, RestorePaths, Typed, ledger, history, Local
<1> QED
  BY <1>2, <1>3, <1>4, <1>5, <1>6, <1>7

(* The offers, and what an author is shown, which take none either.        *)
LEMMA OffersTyped ==
  ASSUME Typed, NEW s \in Sessions,
         Ready(s) \/ Rejections(s) \/ ReadRejection(s) \/ ReadReady(s) \/ Offered(s) \/ Near(s)
  PROVE  Typed'
<1>1. proc[s] \in Local /\ Sane(proc[s]) /\ proc[s].pc \notin Locked /\ UNCHANGED writer
  BY DEF Typed, Ready, Rejections, ReadRejection, ReadReady, Offered, Near, Locked, store
<1>2. CASE Ready(s)
  <2>1. PICK c \in Cands :
          /\ Become(s, [Idle EXCEPT !.pc = "refusals", !.c = c, !.at = now])
          /\ suspect' = [suspect EXCEPT ![s] = IF Unsettled(c) THEN {c} ELSE {}]
    BY <1>2 DEF Ready
  <2> DEFINE local == [Idle EXCEPT !.pc = "refusals", !.c = c, !.at = now]
  <2>2. local \in Local /\ Sane(local) /\ local.pc \notin Locked
    BY NoFileIsAFile, ConstantsFit DEF Idle, Local, Steps, Sane, Locked, Typed, Commands
  <2>3. Become(s, local)
    BY <2>1
  <2> HIDE DEF local
  <2>4. Kept(s)
    BY <1>1, <2>2, <2>3, LocalTyped
  <2> QED
    BY <1>2, <2>1, <2>4 DEF Kept, Ready, Typed, ledger, store
<1>3. CASE Rejections(s)
  <2> DEFINE unread == {r \in Cands : rows[r].status = "rejected"}
             local == [proc[s] EXCEPT !.pc = "reading", !.unread = unread]
  <2>1. local \in Local /\ Sane(local) /\ local.pc \notin Locked
    BY <1>1, <1>3 DEF Local, Steps, Sane, Locked, Rejections
  <2>2. Become(s, local)
    BY <1>3 DEF Rejections
  <2> HIDE DEF local
  <2>3. Kept(s)
    BY <1>1, <2>1, <2>2, LocalTyped
  <2> QED
    BY <1>3, <2>3 DEF Kept, Rejections, Typed, ledger, store
<1>4. CASE ReadRejection(s)
  <2>1. PICK r \in proc[s].unread :
          Become(s, [proc[s] EXCEPT !.unread = @ \ {r},
                                    !.refused = @ \/ (files[r].phrases /\ proc[s].c \in Refuses[r])])
    BY <1>4 DEF ReadRejection
  <2> DEFINE refused == proc[s].refused \/ (files[r].phrases /\ proc[s].c \in Refuses[r])
             local == [proc[s] EXCEPT !.unread = proc[s].unread \ {r}, !.refused = refused]
  <2>2. local \in Local /\ Sane(local) /\ local.pc \notin Locked
    <3>1. refused \in BOOLEAN
      OBVIOUS
    <3> HIDE DEF refused
    <3> QED
      BY <1>1, <1>4, <3>1 DEF Local, Sane, Locked, ReadRejection
  <2>3. Become(s, local)
    BY <2>1
  <2> HIDE DEF local
  <2>4. Kept(s)
    BY <1>1, <2>2, <2>3, LocalTyped
  <2> QED
    BY <1>4, <2>4 DEF Kept, ReadRejection, Typed, ledger, store, history
<1>5. CASE ReadReady(s)
  <2> DEFINE local == [Idle EXCEPT !.pc = "offered", !.c = proc[s].c, !.file = files[proc[s].c]]
  <2>1. local \in Local /\ Sane(local) /\ local.pc \notin Locked
    BY <1>1, <1>5, NoFileIsAFile, ConstantsFit
    DEF Idle, Local, Steps, Sane, Locked, Typed, Commands, ReadReady
  <2>2. Become(s, local) \/ Become(s, Idle)
    BY <1>5 DEF ReadReady
  <2> HIDE DEF local
  <2>3. Kept(s)
    BY <1>1, <2>1, <2>2, IdleType, LocalTyped
  <2> QED
    BY <1>5, <2>3 DEF Kept, ReadReady, Typed, ledger, store
<1>6. CASE Offered(s)
  <2>1. Kept(s)
    BY <1>1, <1>6, IdleType, LocalTyped DEF Offered
  <2> QED
    BY <1>6, <2>1 DEF Kept, Offered, Typed, ledger, store, history
<1>7. CASE Near(s)
  <2>1. Kept(s)
    BY <1>1, <1>7, IdleType, LocalTyped DEF Near
  <2>2. events' \subseteq Event
    BY <1>7, RecordedType, ConstantsFit DEF Near, Concerning, Lanes
  <2> QED
    BY <1>7, <2>1, <2>2 DEF Kept, Near, Typed, store, history
<1> QED
  BY <1>2, <1>3, <1>4, <1>5, <1>6, <1>7

LEMMA DieTyped ==
  ASSUME Typed, NEW s \in Sessions, Die(s)
  PROVE  Typed'
<1>1. Kept(s)
  <2>1. CASE writer = s
    BY <2>1, IdleType, BecomeTyped DEF Kept, Die
  <2>2. CASE writer # s
    BY <2>2, IdleType, BecomeTyped DEF Kept, Die, Typed
  <2> QED
    BY <2>1, <2>2
<1>2. torn' \subseteq Notes
  BY ConstantsFit DEF Die, Typed, Sane
<1>3. suspect' \in [Sessions -> SUBSET Cands]
  BY DEF Die, Typed
<1> QED
  BY <1>1, <1>2, <1>3, ConstantsFit DEF Kept, Die, Typed, ledger

(* Every step of every command leaves the files, the rows, the ledger and  *)
(* the commands well typed, and the lock with who is in its section.       *)
LEMMA TypedStep == Typed /\ [Next]_vars => Typed'
<1> SUFFICES ASSUME Typed, [Next]_vars PROVE Typed'
  OBVIOUS
<1>1. ASSUME NEW c \in Cands, Reindex(c) PROVE Typed'
  <2>1. RowOf(files[c]) \in Row
    BY DEF Typed, RowOf, Row, File
  <2> QED
    BY <1>1, <2>1, ConstantsFit DEF Reindex, Typed, ledger
<1>2. CASE Time
  BY <1>2, ConstantsFit DEF Time, Tick, Typed, store, history
<1>3. CASE UNCHANGED vars
  BY <1>3 DEF vars, Typed, ledger, store, history
<1> QED
  BY <1>1, <1>2, <1>3, OutsideTyped, BeginTyped, LockTyped, LockedTyped, ExpiryTyped,
     OffersTyped, DieTyped
  DEF Next

LEMMA AlwaysTyped == Spec => []Typed
BY TypedInit, TypedStep, PTL DEF Spec

(* Files, rows, ledger and commands of every reachable state have their    *)
(* types; and the write lock is held by the command in the critical        *)
(* section and by nobody else, wherever commands are killed.               *)
THEOREM PromotionTypeCorrect == Spec => []TypeOK
BY AlwaysTyped, TypedIsTypeOK, PTL

-----------------------------------------------------------------------------
(* No derivation is lost.                                                  *)

LEMMA PrefixOfItself ==
  ASSUME NEW strikes \in Seq(Strike)
  PROVE  IsPrefix(strikes, strikes)
BY DEF IsPrefix

LEMMA PrefixOfLonger ==
  ASSUME NEW strikes \in Seq(Strike), NEW k \in Strike
  PROVE  IsPrefix(strikes, Append(strikes, k))
<1>1. Len(strikes) \in Nat /\ Len(Append(strikes, k)) = Len(strikes) + 1
  OBVIOUS
<1>2. SubSeq(strikes, 1, Len(strikes)) = SubSeq(Append(strikes, k), 1, Len(strikes))
  OBVIOUS
<1> QED
  BY <1>1, <1>2 DEF IsPrefix

(* A command adds its own derivation at the end, or none.                  *)
LEMMA EditedStrikes ==
  ASSUME Typed, NEW s \in Sessions
  PROVE  /\ \/ Edited(s).strikes = proc[s].file.strikes
            \/ /\ proc[s].independent
               /\ Edited(s).strikes = Append(proc[s].file.strikes, [by |-> s, at |-> proc[s].at])
         /\ proc[s].cmd = "expire" => Edited(s).strikes = proc[s].file.strikes
<1> DEFINE f == proc[s].file
<1>1. f \in File
  BY DEF Typed, Local
<1>2. \/ Derived(s).strikes = f.strikes
      \/ /\ proc[s].independent
         /\ Derived(s).strikes = Append(f.strikes, [by |-> s, at |-> proc[s].at])
  BY <1>1 DEF Derived, File
<1>3. /\ Promoted(f).strikes = f.strikes /\ Rejected(f).strikes = f.strikes
      /\ Expired(f).strikes = f.strikes
  BY <1>1 DEF Promoted, Rejected, Expired, File
<1>4. Declined(f).strikes = f.strikes
  BY <1>1 DEF Declined, File
<1> QED
  BY <1>2, <1>3, <1>4, EditedIs

(* Only the two writes change a file, and only expiry counts as clobbering. *)
LEMMA FilesStep ==
  ASSUME [Next]_vars
  PROVE  \/ UNCHANGED <<files, clobbered>>
         \/ \E s \in Sessions : Write(s) \/ ExpireWrite(s)
<1>1. ASSUME NEW s \in Sessions, (\E lane \in Lanes : Inject(s, lane)) \/ Cite(s) \/ Near(s)
      PROVE  UNCHANGED <<files, clobbered>>
  BY <1>1 DEF Inject, Cite, Near, store, history
<1>2. ASSUME NEW s \in Sessions, Derive(s) \/ Decree(s) \/ Expire(s) \/ PromoteDirect(s)
      PROVE  UNCHANGED <<files, clobbered>>
  BY <1>2 DEF Derive, Decree, Expire, PromoteDirect, Begins, store
<1>3. ASSUME NEW s \in Sessions, Lock(s) \/ Decide(s) \/ Ready(s) \/ Offered(s)
      PROVE  UNCHANGED <<files, clobbered>>
  BY <1>3 DEF Lock, Decide, Ready, Offered, store, history
<1>4. ASSUME NEW s \in Sessions, Commit(s) \/ Unindex(s) \/ Die(s)
      PROVE  UNCHANGED <<files, clobbered>>
  BY <1>4 DEF Commit, Unindex, Die
<1>7. ASSUME NEW s \in Sessions,
             ReadStale(s) \/ ExpireRow(s) \/ ClearPaths(s) \/ RestorePaths(s)
      PROVE  UNCHANGED <<files, clobbered>>
  BY <1>7 DEF ReadStale, ExpireRow, ClearPaths, RestorePaths, store, history
<1>8. ASSUME NEW s \in Sessions, Rejections(s) \/ ReadRejection(s) \/ ReadReady(s)
      PROVE  UNCHANGED <<files, clobbered>>
  BY <1>8 DEF Rejections, ReadRejection, ReadReady, store, history
<1>5. ASSUME NEW c \in Cands, Reindex(c) PROVE UNCHANGED <<files, clobbered>>
  BY <1>5 DEF Reindex
<1>6. CASE Time \/ UNCHANGED vars
  BY <1>6 DEF Time, vars, store, history
<1> QED
  BY <1>1, <1>2, <1>3, <1>4, <1>5, <1>6, <1>7, <1>8 DEF Next

(* What a command holds between its read and its write still is what the   *)
(* file shows of derivations, unless expiry wrote over a newer file.       *)
Held(t) == proc[t].pc \in {"decide", "write"}
HeldStrikes ==
  \A t \in Sessions : Held(t) =>
    proc[t].file.strikes = files[proc[t].c].strikes \/ proc[t].c \in clobbered

(* How a command gets where it is: a file is held by reading it under the  *)
(* lock, and an offer is made by ready_candidates() alone.                 *)
Elsewhere == {"idle", "lock", "commit", "near", "stale", "expire", "expired", "clear", "restore"}
Moves(t) ==
  \/ proc'[t] = proc[t]
  \/ (Ready(t) \/ Rejections(t) \/ ReadRejection(t)) /\ proc'[t].pc \in Choosing
  \/ ReadReady(t) /\ proc'[t].pc = "offered"
  \/ Held(t) /\ proc'[t].c = proc[t].c /\ proc'[t].file = proc[t].file /\ proc'[t].pc = "write"
  \/ UNCHANGED files /\ proc'[t].file = files[proc'[t].c] /\ proc'[t].pc \in {"decide", "write"}
  \/ proc'[t].pc \in Elsewhere

(* What reading a rejected file changes of a command, and what it does not. *)
LEMMA ReadRejectionIs ==
  ASSUME Typed, NEW s \in Sessions, ReadRejection(s)
  PROVE  /\ proc'[s].pc = "reading" /\ proc'[s].c = proc[s].c /\ proc'[s].file = proc[s].file
         /\ proc'[s].at = proc[s].at /\ proc'[s].independent = proc[s].independent
         /\ \E r \in proc[s].unread :
              /\ proc'[s].unread = proc[s].unread \ {r}
              /\ proc'[s].refused =
                   (proc[s].refused \/ (files[r].phrases /\ proc[s].c \in Refuses[r]))
<1>1. PICK r \in proc[s].unread :
        Become(s, [proc[s] EXCEPT !.unread = @ \ {r},
                                  !.refused = @ \/ (files[r].phrases /\ proc[s].c \in Refuses[r])])
  BY DEF ReadRejection
<1> DEFINE unread == proc[s].unread \ {r}
           refused == proc[s].refused \/ (files[r].phrases /\ proc[s].c \in Refuses[r])
           local == [proc[s] EXCEPT !.unread = unread, !.refused = refused]
<1>2. proc'[s] = local
  BY <1>1 DEF Become, Typed
<1>3. /\ local.pc = proc[s].pc /\ local.c = proc[s].c /\ local.file = proc[s].file
      /\ local.at = proc[s].at /\ local.independent = proc[s].independent
      /\ local.unread = unread /\ local.refused = refused
  <2> HIDE DEF unread, refused
  <2> QED
    BY DEF Typed, Local
<1>4. proc[s].pc = "reading"
  BY DEF ReadRejection
<1> HIDE DEF local
<1> QED
  BY <1>2, <1>3, <1>4

LEMMA MovesAfter ==
  ASSUME Typed, [Next]_vars, NEW t \in Sessions
  PROVE  Moves(t)
<1>1. ASSUME NEW s \in Sessions, NEW local, Become(s, local),
             local.pc \in Elsewhere
      PROVE  Moves(t)
  <2>1. proc'[t] = IF t = s THEN local ELSE proc[t]
    BY <1>1 DEF Become, Typed
  <2> QED
    BY <1>1, <2>1 DEF Moves
<1>2. Idle.pc \in Elsewhere /\ [Idle EXCEPT !.pc = "near"].pc \in Elsewhere
  BY DEF Idle, Elsewhere
<1>3. ASSUME NEW s \in Sessions, Near(s) \/ Offered(s) \/ RestorePaths(s) \/ Die(s) \/ Commit(s)
      PROVE  Moves(t)
  <2>1. Become(s, Idle) \/ Become(s, [Idle EXCEPT !.pc = "near"])
    BY <1>3 DEF Near, Offered, RestorePaths, Die, Commit
  <2> QED
    BY <1>1, <1>2, <2>1
<1>4. ASSUME NEW s \in Sessions, Derive(s) \/ Decree(s) \/ Expire(s)
      PROVE  Moves(t)
  <2>1. CASE Derive(s)
    <3>1. PICK cmd, c : Become(s, [Idle EXCEPT !.pc = "lock", !.cmd = cmd, !.c = c, !.at = now,
                                               !.independent = Independent(s)])
      BY <2>1 DEF Derive
    <3> DEFINE local == [Idle EXCEPT !.pc = "lock", !.cmd = cmd, !.c = c, !.at = now,
                                               !.independent = Independent(s)]
    <3>2. Become(s, local) /\ local.pc \in Elsewhere
      BY <3>1 DEF Idle, Elsewhere
    <3> HIDE DEF local
    <3> QED
      BY <1>1, <3>2
  <2>2. CASE Decree(s)
    <3>1. PICK cmd, c : Become(s, [Idle EXCEPT !.pc = "lock", !.cmd = cmd, !.c = c, !.at = now])
      BY <2>2 DEF Decree
    <3> DEFINE local == [Idle EXCEPT !.pc = "lock", !.cmd = cmd, !.c = c, !.at = now]
    <3>2. Become(s, local) /\ local.pc \in Elsewhere
      BY <3>1 DEF Idle, Elsewhere
    <3> HIDE DEF local
    <3> QED
      BY <1>1, <3>2
  <2>3. CASE Expire(s)
    <3>1. PICK c : Become(s, [Idle EXCEPT !.pc = "stale", !.cmd = "expire", !.c = c, !.at = now])
      BY <2>3 DEF Expire
    <3> DEFINE local == [Idle EXCEPT !.pc = "stale", !.cmd = "expire", !.c = c, !.at = now]
    <3>2. Become(s, local) /\ local.pc \in Elsewhere
      BY <3>1 DEF Idle, Elsewhere
    <3> HIDE DEF local
    <3> QED
      BY <1>1, <3>2
  <2> QED
    BY <1>4, <2>1, <2>2, <2>3
<1>5. ASSUME NEW s \in Sessions,
             Write(s) \/ ReadStale(s) \/ ExpireWrite(s) \/ ExpireRow(s) \/ ClearPaths(s)
      PROVE  Moves(t)
  <2>1. \/ Become(s, Idle)
        \/ \E pc \in Elsewhere : \E file : Become(s, [proc[s] EXCEPT !.pc = pc, !.file = file])
    <3>1. \A pc : [proc[s] EXCEPT !.pc = pc] = [proc[s] EXCEPT !.pc = pc, !.file = proc[s].file]
      BY DEF Typed, Local
    <3> QED
      BY <1>5, <3>1 DEF Write, ReadStale, ExpireWrite, ExpireRow, ClearPaths, Elsewhere
  <2>2. \A pc, file : [proc[s] EXCEPT !.pc = pc, !.file = file].pc = pc
    BY DEF Typed, Local
  <2> QED
    BY <1>1, <1>2, <2>1, <2>2
<1>6. ASSUME NEW s \in Sessions, Decide(s) PROVE Moves(t)
  BY <1>6 DEF Decide, Become, Typed, Local, Held, Moves
<1>7. ASSUME NEW s \in Sessions, Lock(s) PROVE Moves(t)
  <2>1. CASE Become(s, Idle)
    BY <1>1, <1>2, <2>1
  <2>2. CASE \E pc \in {"decide", "write"} :
               Become(s, [proc[s] EXCEPT !.pc = pc, !.file = files[proc[s].c]])
    BY <1>7, <2>2 DEF Lock, Become, Typed, Local, Moves
  <2> QED
    BY <1>7, <2>1, <2>2 DEF Lock
<1>8. CASE UNCHANGED proc
  BY <1>8 DEF Moves
<1>9. ASSUME NEW s \in Sessions,
             (\E lane \in Lanes : Inject(s, lane)) \/ Cite(s) \/ PromoteDirect(s) \/ Unindex(s)
      PROVE  UNCHANGED proc
  BY <1>9 DEF Inject, Cite, PromoteDirect, Unindex
<1>11. ASSUME NEW s \in Sessions, Ready(s) \/ Rejections(s) \/ ReadRejection(s) PROVE Moves(t)
  <2>1. CASE Ready(s)
    <3>1. PICK c \in Cands : Become(s, [Idle EXCEPT !.pc = "refusals", !.c = c, !.at = now])
      BY <2>1 DEF Ready
    <3> DEFINE local == [Idle EXCEPT !.pc = "refusals", !.c = c, !.at = now]
    <3>2. local.pc \in Choosing /\ Become(s, local)
      BY <3>1 DEF Idle, Choosing
    <3> HIDE DEF local
    <3> QED
      BY <2>1, <3>2 DEF Become, Typed, Moves
  <2>2. CASE Rejections(s)
    BY <2>2 DEF Rejections, Become, Typed, Local, Moves, Choosing
  <2>3. CASE ReadRejection(s)
    <3>1. \A x \in Sessions : proc'[x] = proc[x] \/ x = s
      BY <2>3 DEF ReadRejection, Become, Typed
    <3>2. proc'[s].pc = "reading"
      BY <2>3, ReadRejectionIs
    <3> QED
      BY <2>3, <3>1, <3>2 DEF Moves, Choosing
  <2> QED
    BY <1>11, <2>1, <2>2, <2>3
<1>12. ASSUME NEW s \in Sessions, ReadReady(s) PROVE Moves(t)
  <2>1. CASE Become(s, Idle)
    BY <1>1, <1>2, <2>1
  <2>2. CASE Become(s, [Idle EXCEPT !.pc = "offered", !.c = proc[s].c, !.file = files[proc[s].c]])
    BY <1>12, <2>2 DEF Become, Typed, Moves, Idle
  <2> QED
    BY <1>12, <2>1, <2>2 DEF ReadReady
<1>10. ASSUME (\E c \in Cands : Reindex(c)) \/ Time \/ UNCHANGED vars PROVE UNCHANGED proc
  BY <1>10 DEF Reindex, Time, vars
<1> QED
  BY <1>3, <1>4, <1>5, <1>6, <1>7, <1>8, <1>9, <1>10, <1>11, <1>12 DEF Next

LEMMA HeldAfter ==
  ASSUME Typed, [Next]_vars, NEW t \in Sessions, Held(t)'
  PROVE  \/ proc'[t] = proc[t]
         \/ Held(t) /\ proc'[t].c = proc[t].c /\ proc'[t].file = proc[t].file
         \/ UNCHANGED files /\ proc'[t].file = files[proc'[t].c]
BY MovesAfter DEF Moves, Held, Elsewhere, Choosing

(* The two writes keep the derivations of every file, but for what expiry  *)
(* clobbers.                                                               *)
LEMMA StrikesStep ==
  ASSUME Typed, HeldStrikes, [Next]_vars, NEW c \in Cands
  PROVE  IsPrefix(files[c].strikes, files'[c].strikes) \/ c \in clobbered'
<1>1. files[c].strikes \in Seq(Strike)
  BY DEF Typed, File
<1>2. CASE files'[c] = files[c]
  BY <1>1, <1>2, PrefixOfItself
<1>3. ASSUME NEW s \in Sessions, Write(s), proc[s].c = c
      PROVE  IsPrefix(files[c].strikes, files'[c].strikes) \/ c \in clobbered'
  <2>1. files'[c] = Edited(s) /\ UNCHANGED clobbered
    BY <1>3 DEF Write, Rewrite, Typed
  <2>2. proc[s].file.strikes = files[c].strikes \/ c \in clobbered
    BY <1>3 DEF HeldStrikes, Held, Write
  <2>3. [by |-> s, at |-> proc[s].at] \in Strike
    BY DEF Typed, Local, Strike
  <2> QED
    BY <1>1, <2>1, <2>2, <2>3, EditedStrikes, PrefixOfItself, PrefixOfLonger
<1>4. ASSUME NEW s \in Sessions, ExpireWrite(s), proc[s].c = c
      PROVE  IsPrefix(files[c].strikes, files'[c].strikes) \/ c \in clobbered'
  <2>1. files'[c] = Edited(s) /\ (files[c] = proc[s].file \/ c \in clobbered')
    BY <1>4 DEF ExpireWrite, Rewrite, Typed
  <2>2. Edited(s).strikes = proc[s].file.strikes
    BY <1>4, EditedStrikes DEF ExpireWrite, Typed, Sane
  <2> QED
    BY <1>1, <2>1, <2>2, PrefixOfItself
<1>5. ASSUME NEW s \in Sessions, Write(s) \/ ExpireWrite(s), proc[s].c # c
      PROVE  files'[c] = files[c]
  BY <1>5 DEF Write, ExpireWrite, Rewrite, Typed
<1> QED
  BY <1>2, <1>3, <1>4, <1>5, FilesStep

LEMMA HeldStep == Typed /\ HeldStrikes /\ [Next]_vars => HeldStrikes'
<1> SUFFICES ASSUME Typed, HeldStrikes, [Next]_vars, NEW t \in Sessions, Held(t)'
             PROVE  proc'[t].file.strikes = files'[proc'[t].c].strikes \/ proc'[t].c \in clobbered'
  BY DEF HeldStrikes, Held
<1> DEFINE c == proc'[t].c
<1>1. CASE UNCHANGED <<files, clobbered>>
  <2>1. CASE UNCHANGED files /\ proc'[t].file = files[c]
    BY <2>1
  <2>2. CASE Held(t) /\ c = proc[t].c /\ proc'[t].file = proc[t].file
    BY <1>1, <2>2 DEF HeldStrikes
  <2>3. CASE proc'[t] = proc[t]
    BY <1>1, <2>3 DEF HeldStrikes, Held
  <2> QED
    BY <2>1, <2>2, <2>3, HeldAfter
<1>2. ASSUME NEW s \in Sessions, Write(s) PROVE FALSE
  <2>1. s # t
    BY <1>2 DEF Write, Become, Typed, Local, Held
  <2>2. proc'[t] = proc[t] /\ proc[s].pc \in Locked
    BY <1>2, <2>1 DEF Write, Become, Typed, Locked
  <2>3. proc[t].pc \in Locked
    BY <2>2 DEF Held, Locked
  <2> QED
    BY <2>1, <2>2, <2>3 DEF Typed
<1>3. ASSUME NEW s \in Sessions, ExpireWrite(s)
      PROVE  proc'[t].file.strikes = files'[c].strikes \/ c \in clobbered'
  <2>1. s # t
    BY <1>3 DEF ExpireWrite, Become, Typed, Local, Held
  <2>2. proc'[t] = proc[t] /\ c \in Cands
    BY <1>3, <2>1 DEF ExpireWrite, Become, Typed, Sane, Held
  <2>3. proc[t].file.strikes = files[c].strikes \/ c \in clobbered
    BY <2>2 DEF HeldStrikes, Held
  <2>4. clobbered \subseteq clobbered'
    BY <1>3 DEF ExpireWrite
  <2>5. CASE proc[s].c # c
    BY <1>3, <2>2, <2>3, <2>4, <2>5 DEF ExpireWrite, Rewrite, Typed
  <2>6. CASE proc[s].c = c
    <3>1. files'[c] = Edited(s) /\ (files[c] = proc[s].file \/ c \in clobbered')
      BY <1>3, <2>2, <2>6 DEF ExpireWrite, Rewrite, Typed
    <3>2. Edited(s).strikes = proc[s].file.strikes
      BY <1>3, EditedStrikes DEF ExpireWrite, Typed, Sane
    <3> QED
      BY <2>2, <2>3, <2>4, <3>1, <3>2
  <2> QED
    BY <2>5, <2>6
<1> QED
  BY <1>1, <1>2, <1>3, FilesStep

(* No derivation once in a candidate's file is lost or changed, whatever   *)
(* other commands derive, promote and decline and wherever they are        *)
(* killed, except where expiry, which takes no lock, wrote over it.        *)
THEOREM DerivationsAreKept == Spec => StrikesAreKept
<1>1. Init => HeldStrikes
  BY DEF Init, HeldStrikes, Held, Idle
<1>2. Typed /\ HeldStrikes /\ [Next]_vars =>
        [\A c \in Cands :
           IsPrefix(files[c].strikes, files'[c].strikes) \/ c \in clobbered']_vars
  BY StrikesStep
<1> QED
  BY <1>1, <1>2, HeldStep, AlwaysTyped, PTL DEF Spec, StrikesAreKept

-----------------------------------------------------------------------------
(* No derivation counts that the note itself suggested.                    *)

(* The ledger grows, by what is in the index now; a note leaves the index  *)
(* only as `gone`; the clock does not run backwards.                       *)
Recent(x) == x.at = now /\ (x.event \in Lanes => x.note \in paths)
LedgerGrows ==
  /\ \A x \in events' : x \in events \/ Recent(x)
  /\ gone \subseteq gone' /\ paths \cup gone \subseteq paths' \cup gone'
  /\ now <= now'

LEMMA RecordedRecent ==
  ASSUME NEW s, NEW ids \in SUBSET paths, NEW lane, NEW x \in Recorded(s, ids, lane)
  PROVE  x \in events \/ Recent(x)
BY DEF Recorded, Recent

LEMMA LedgerStep ==
  ASSUME Typed, [Next]_vars
  PROVE  LedgerGrows
<1>1. now <= now
  BY ConstantsFit DEF Typed
<1>2. ASSUME NEW s \in Sessions, (\E lane \in Lanes : Inject(s, lane)) \/ Cite(s) \/ Near(s)
      PROVE  LedgerGrows
  <2>1. \E ids \in SUBSET paths, lane \in Lanes \cup {"cited"} : events' = Recorded(s, ids, lane)
    BY <1>2 DEF Inject, Cite, Near, Concerning, Lanes
  <2>2. UNCHANGED <<now, paths, gone>>
    BY <1>2 DEF Inject, Cite, Near, store, history
  <2> QED
    BY <1>1, <2>1, <2>2, RecordedRecent DEF LedgerGrows
<1>3. ASSUME UNCHANGED <<ledger, gone>>, paths \subseteq paths' PROVE LedgerGrows
  BY <1>1, <1>3 DEF ledger, LedgerGrows
<1>4. ASSUME NEW s \in Sessions, Derive(s) \/ Decree(s) \/ Expire(s) \/ PromoteDirect(s)
      PROVE  LedgerGrows
  BY <1>3, <1>4 DEF Derive, Decree, Expire, PromoteDirect, Begins, store
<1>5. ASSUME NEW s \in Sessions, Lock(s) \/ Decide(s) \/ Ready(s) \/ Offered(s) PROVE LedgerGrows
  BY <1>3, <1>5 DEF Lock, Decide, Ready, Offered, store, history
<1>12. ASSUME NEW s \in Sessions, Rejections(s) \/ ReadRejection(s) \/ ReadReady(s) \/ ReadStale(s)
       PROVE  LedgerGrows
  BY <1>3, <1>12 DEF Rejections, ReadRejection, ReadReady, ReadStale, store, history
<1>13. ASSUME NEW s \in Sessions, ExpireRow(s) \/ RestorePaths(s) PROVE LedgerGrows
  BY <1>3, <1>13 DEF ExpireRow, RestorePaths, history
<1>14. ASSUME NEW s \in Sessions, ClearPaths(s) PROVE LedgerGrows
  BY <1>1, <1>14 DEF ClearPaths, ledger, LedgerGrows
<1>6. ASSUME NEW s \in Sessions, Write(s) \/ ExpireWrite(s) \/ Die(s) PROVE LedgerGrows
  BY <1>3, <1>6 DEF Write, ExpireWrite, Die
<1>7. ASSUME NEW s \in Sessions, Commit(s) PROVE LedgerGrows
  BY <1>3, <1>7 DEF Commit, Upserted
<1>8. ASSUME NEW c \in Cands, Reindex(c) PROVE LedgerGrows
  BY <1>3, <1>8 DEF Reindex
<1>9. ASSUME NEW s \in Sessions, Unindex(s) PROVE LedgerGrows
  BY <1>1, <1>9 DEF Unindex, ledger, LedgerGrows
<1>10. CASE Time
  BY <1>10, ConstantsFit DEF Time, Tick, store, history, LedgerGrows, Typed
<1>11. CASE UNCHANGED vars
  BY <1>3, <1>11 DEF vars, store, history
<1> QED
  BY <1>2, <1>4, <1>5, <1>6, <1>7, <1>8, <1>9, <1>10, <1>11, <1>12, <1>13, <1>14 DEF Next

(* Where the file that a command holds comes from, and whether it counts.  *)
Carries(t, local) ==
  /\ \/ local.file \in {proc[t].file, NoFile, Edited(t)}
     \/ \E c \in Cands : local.file = files[c]
  /\ local.independent => \/ proc[t].independent /\ local.at = proc[t].at
                          \/ Independent(t) /\ local.at = now

LEMMA LocalAfter ==
  ASSUME Typed, [Next]_vars, NEW t \in Sessions
  PROVE  Carries(t, proc'[t])
<1>1. ASSUME NEW s \in Sessions, NEW local, Become(s, local), Carries(s, local)
      PROVE  Carries(t, proc'[t])
  <2>1. proc'[t] = IF t = s THEN local ELSE proc[t]
    BY <1>1 DEF Become, Typed
  <2> QED
    BY <1>1, <2>1 DEF Carries
<1>2. \A s : Carries(s, Idle) /\ Carries(s, [Idle EXCEPT !.pc = "near"])
  BY DEF Carries, Idle
<1>3. ASSUME NEW s \in Sessions, Near(s) \/ Offered(s) \/ RestorePaths(s) \/ Die(s) \/ Commit(s)
      PROVE  Carries(t, proc'[t])
  <2>1. Become(s, Idle) \/ Become(s, [Idle EXCEPT !.pc = "near"])
    BY <1>3 DEF Near, Offered, RestorePaths, Die, Commit
  <2> QED
    BY <1>1, <1>2, <2>1
<1>4. ASSUME NEW s \in Sessions, Derive(s) \/ Decree(s) \/ Expire(s) \/ Ready(s)
      PROVE  Carries(t, proc'[t])
  <2>1. CASE Derive(s)
    <3>1. PICK cmd, c : Become(s, [Idle EXCEPT !.pc = "lock", !.cmd = cmd, !.c = c, !.at = now,
                                               !.independent = Independent(s)])
      BY <2>1 DEF Derive
    <3> DEFINE local == [Idle EXCEPT !.pc = "lock", !.cmd = cmd, !.c = c, !.at = now,
                                               !.independent = Independent(s)]
    <3>2. Become(s, local) /\ local.file = NoFile /\ local.at = now
          /\ local.independent = Independent(s)
      BY <3>1 DEF Idle
    <3> HIDE DEF local
    <3> QED
      BY <1>1, <3>2 DEF Carries
  <2>2. CASE Decree(s)
    <3>1. PICK cmd, c : Become(s, [Idle EXCEPT !.pc = "lock", !.cmd = cmd, !.c = c, !.at = now])
      BY <2>2 DEF Decree
    <3> DEFINE local == [Idle EXCEPT !.pc = "lock", !.cmd = cmd, !.c = c, !.at = now]
    <3>2. Become(s, local) /\ local.file = NoFile /\ ~local.independent
      BY <3>1 DEF Idle
    <3> HIDE DEF local
    <3> QED
      BY <1>1, <3>2 DEF Carries
  <2>3. CASE Expire(s)
    <3>1. PICK c : Become(s, [Idle EXCEPT !.pc = "stale", !.cmd = "expire", !.c = c, !.at = now])
      BY <2>3 DEF Expire
    <3> DEFINE local == [Idle EXCEPT !.pc = "stale", !.cmd = "expire", !.c = c, !.at = now]
    <3>2. Become(s, local) /\ local.file = NoFile /\ ~local.independent
      BY <3>1 DEF Idle
    <3> HIDE DEF local
    <3> QED
      BY <1>1, <3>2 DEF Carries
  <2>4. CASE Ready(s)
    <3>1. PICK c : Become(s, [Idle EXCEPT !.pc = "refusals", !.c = c, !.at = now])
      BY <2>4 DEF Ready
    <3> DEFINE local == [Idle EXCEPT !.pc = "refusals", !.c = c, !.at = now]
    <3>2. Become(s, local) /\ local.file = NoFile /\ ~local.independent
      BY <3>1 DEF Idle
    <3> HIDE DEF local
    <3> QED
      BY <1>1, <3>2 DEF Carries
  <2> QED
    BY <1>4, <2>1, <2>2, <2>3, <2>4
<1>5. ASSUME NEW s \in Sessions, Decide(s) \/ Write(s) \/ ExpireWrite(s) \/ ExpireRow(s) \/ ClearPaths(s)
      PROVE  Carries(t, proc'[t])
  <2>1. \E pc : \E file \in {proc[s].file, Edited(s)} :
          Become(s, [proc[s] EXCEPT !.pc = pc, !.file = file])
    <3>1. \A pc : [proc[s] EXCEPT !.pc = pc] = [proc[s] EXCEPT !.pc = pc, !.file = proc[s].file]
      BY DEF Typed, Local
    <3> QED
      BY <1>5, <3>1 DEF Decide, Write, ExpireWrite, ExpireRow, ClearPaths
  <2>2. PICK pc, file :
          file \in {proc[s].file, Edited(s)} /\ Become(s, [proc[s] EXCEPT !.pc = pc, !.file = file])
    BY <2>1
  <2> DEFINE local == [proc[s] EXCEPT !.pc = pc, !.file = file]
  <2>3. local.file = file /\ local.at = proc[s].at /\ local.independent = proc[s].independent
    BY DEF Typed, Local
  <2>4. Become(s, local)
    BY <2>2
  <2> HIDE DEF local
  <2> QED
    BY <1>1, <2>2, <2>3, <2>4 DEF Carries
<1>6. ASSUME NEW s \in Sessions, Lock(s) \/ ReadStale(s) PROVE Carries(t, proc'[t])
  <2>1. CASE Become(s, Idle)
    BY <1>1, <1>2, <2>1
  <2>2. ASSUME NEW pc, Become(s, [proc[s] EXCEPT !.pc = pc, !.file = files[proc[s].c]])
        PROVE  Carries(t, proc'[t])
    <3> DEFINE local == [proc[s] EXCEPT !.pc = pc, !.file = files[proc[s].c]]
    <3>1. local.file = files[proc[s].c] /\ local.at = proc[s].at
          /\ local.independent = proc[s].independent /\ proc[s].c \in Cands
      BY <1>6 DEF Typed, Local, Sane, Lock, ReadStale
    <3>2. Become(s, local)
      BY <2>2
    <3> HIDE DEF local
    <3> QED
      BY <1>1, <3>1, <3>2 DEF Carries
  <2> QED
    BY <1>6, <2>1, <2>2 DEF Lock, ReadStale
<1>7. CASE UNCHANGED proc
  BY <1>7 DEF Carries
<1>8. ASSUME NEW s \in Sessions,
             (\E lane \in Lanes : Inject(s, lane)) \/ Cite(s) \/ PromoteDirect(s) \/ Unindex(s)
      PROVE  UNCHANGED proc
  BY <1>8 DEF Inject, Cite, PromoteDirect, Unindex
<1>9. ASSUME (\E c \in Cands : Reindex(c)) \/ Time \/ UNCHANGED vars PROVE UNCHANGED proc
  BY <1>9 DEF Reindex, Time, vars
<1>10. ASSUME NEW s \in Sessions, Rejections(s) \/ ReadRejection(s) PROVE Carries(t, proc'[t])
  <2>1. /\ proc'[s].file = proc[s].file /\ proc'[s].at = proc[s].at
        /\ proc'[s].independent = proc[s].independent
        /\ \A x \in Sessions \ {s} : proc'[x] = proc[x]
    <3>1. \A x \in Sessions \ {s} : proc'[x] = proc[x]
      BY <1>10 DEF Rejections, ReadRejection, Become, Typed
    <3>2. CASE Rejections(s)
      BY <3>1, <3>2 DEF Rejections, Become, Typed, Local
    <3> QED
      BY <1>10, <3>1, <3>2, ReadRejectionIs
  <2> QED
    BY <2>1 DEF Carries
<1>11. ASSUME NEW s \in Sessions, ReadReady(s) PROVE Carries(t, proc'[t])
  <2> DEFINE local == [Idle EXCEPT !.pc = "offered", !.c = proc[s].c, !.file = files[proc[s].c]]
  <2>1. local.file = files[proc[s].c] /\ ~local.independent /\ proc[s].c \in Cands
    BY <1>11 DEF Typed, Sane, ReadReady, Idle
  <2>2. Become(s, local) \/ Become(s, Idle)
    BY <1>11 DEF ReadReady
  <2> HIDE DEF local
  <2> QED
    BY <1>1, <1>2, <2>1, <2>2 DEF Carries
<1> QED
  BY <1>3, <1>4, <1>5, <1>6, <1>7, <1>8, <1>9, <1>10, <1>11 DEF Next

(* A derivation that nothing shown before it can have suggested.           *)
CleanStrike(k) ==
  /\ k.at \in Nat /\ k.at <= now
  /\ \A x \in events : x.session = k.by /\ x.event \in Lanes /\ x.at < k.at => x.note \in gone
Clean(strikes) == \A k \in Range(strikes) : CleanStrike(k)
StrikeOf(s, local) == [by |-> s, at |-> local.at]

(* What was shown was in the index, and is, or is gone; and every          *)
(* derivation is clean, in the files, in what commands hold of them, and   *)
(* in what a command that counts is about to add.                          *)
CleanLedger ==
  /\ \A x \in events : x.event \in Lanes => x.note \in paths \cup gone
  /\ \A c \in Cands : Clean(files[c].strikes)
  /\ \A s \in Sessions :
       /\ Clean(proc[s].file.strikes)
       /\ proc[s].independent => CleanStrike(StrikeOf(s, proc[s]))

(* Whatever is shown later does not taint an earlier derivation.           *)
LEMMA CleanStays ==
  ASSUME Typed, Typed', LedgerGrows, NEW k, CleanStrike(k)
  PROVE  CleanStrike(k)'
<1>1. now \in Nat /\ now' \in Nat
  BY ConstantsFit DEF Typed
<1>2. k.at <= now'
  BY <1>1 DEF CleanStrike, LedgerGrows
<1>3. ASSUME NEW x \in events', x.session = k.by, x.event \in Lanes, x.at < k.at
      PROVE  x.note \in gone'
  <2>1. CASE x \in events
    BY <1>3, <2>1 DEF CleanStrike, LedgerGrows
  <2>2. CASE x.at = now
    BY <1>1, <1>3, <2>2 DEF CleanStrike
  <2> QED
    BY <2>1, <2>2 DEF LedgerGrows, Recent
<1> QED
  BY <1>2, <1>3 DEF CleanStrike

(* What independent() admits is clean.                                     *)
LEMMA IndependentIsClean ==
  ASSUME Typed, CleanLedger, NEW s \in Sessions, Independent(s), NEW k,
         k.by = s, k.at = now
  PROVE  CleanStrike(k)
<1>1. now \in Nat /\ now <= now
  BY ConstantsFit DEF Typed
<1>2. ASSUME NEW x \in events, x.session = s, x.event \in Lanes PROVE x.note \in gone
  <2>1. IsShown(s, x.note)
    BY <1>2 DEF IsShown, Has
  <2>2. x.note \notin paths
    BY <2>1 DEF Independent
  <2> QED
    BY <1>2, <2>2 DEF CleanLedger
<1> QED
  BY <1>1, <1>2 DEF CleanStrike

(* A command that counts adds a clean derivation to clean ones.            *)
LEMMA EditedIsClean ==
  ASSUME Typed, CleanLedger, NEW s \in Sessions
  PROVE  Clean(Edited(s).strikes)
<1> DEFINE strikes == proc[s].file.strikes
           k == StrikeOf(s, proc[s])
<1>1. Clean(strikes) /\ strikes \in Seq(Strike) /\ (proc[s].independent => CleanStrike(k))
  BY DEF CleanLedger, Typed, Local, File
<1>2. CASE Edited(s).strikes = strikes
  BY <1>1, <1>2
<1>3. CASE proc[s].independent /\ Edited(s).strikes = Append(strikes, k)
  <2> HIDE DEF strikes, k
  <2>1. \A i \in DOMAIN Append(strikes, k) :
          \/ Append(strikes, k)[i] = k
          \/ i \in DOMAIN strikes /\ Append(strikes, k)[i] = strikes[i]
    BY <1>1
  <2> QED
    BY <1>1, <1>3, <2>1 DEF Clean, Range
<1> QED
  BY <1>2, <1>3, EditedStrikes DEF StrikeOf

LEMMA CleanStep == Typed /\ Typed' /\ CleanLedger /\ [Next]_vars => CleanLedger'
<1> SUFFICES ASSUME Typed, Typed', CleanLedger, [Next]_vars PROVE CleanLedger'
  OBVIOUS
<1>1. LedgerGrows
  BY LedgerStep
<1>2. \A x \in events' : x.event \in Lanes => x.note \in paths' \cup gone'
  BY <1>1 DEF CleanLedger, LedgerGrows, Recent
<1>3. ASSUME NEW c \in Cands, NEW k \in Range(files'[c].strikes) PROVE CleanStrike(k)'
  <2>1. files'[c] = files[c] \/ \E s \in Sessions : files'[c] = Edited(s)
    BY FilesStep DEF Write, ExpireWrite, Rewrite, Typed
  <2>2. CleanStrike(k)
    BY <1>3, <2>1, EditedIsClean DEF CleanLedger, Clean
  <2> QED
    BY <1>1, <2>2, CleanStays
<1>4. ASSUME NEW s \in Sessions, NEW k \in Range(proc'[s].file.strikes) PROVE CleanStrike(k)'
  <2>1. Clean(NoFile.strikes)
    BY DEF Clean, NoFile, Range
  <2>2. CleanStrike(k)
    BY <1>4, <2>1, LocalAfter, EditedIsClean DEF Carries, CleanLedger, Clean
  <2> QED
    BY <1>1, <2>2, CleanStays
<1>5. ASSUME NEW s \in Sessions, proc'[s].independent, NEW k, k = StrikeOf(s, proc'[s])
      PROVE  CleanStrike(k)'
  <2>1. CASE proc[s].independent /\ proc'[s].at = proc[s].at
    <3>1. k = StrikeOf(s, proc[s])
      BY <1>5, <2>1 DEF StrikeOf
    <3>2. CleanStrike(k)
      BY <2>1, <3>1 DEF CleanLedger
    <3> QED
      BY <1>1, <3>2, CleanStays
  <2>2. CASE Independent(s) /\ proc'[s].at = now
    <3>1. k.by = s /\ k.at = now
      BY <1>5, <2>2 DEF StrikeOf
    <3>2. CleanStrike(k)
      BY <2>2, <3>1, IndependentIsClean
    <3> QED
      BY <1>1, <3>2, CleanStays
  <2> QED
    BY <1>5, <2>1, <2>2, LocalAfter DEF Carries
<1>6. \A c \in Cands : Clean(files[c].strikes)'
  BY <1>3 DEF Clean
<1>7. ASSUME NEW s \in Sessions
      PROVE  /\ Clean(proc[s].file.strikes)'
             /\ proc'[s].independent => CleanStrike(StrikeOf(s, proc[s]))'
  <2>1. Clean(proc[s].file.strikes)'
    BY <1>4 DEF Clean
  <2>2. proc'[s].independent => CleanStrike(StrikeOf(s, proc[s]))'
    BY <1>5 DEF CleanStrike
  <2> QED
    BY <2>1, <2>2
<1> QED
  BY <1>2, <1>6, <1>7 DEF CleanLedger

(* A derivation that counts was not suggested by what its session had been *)
(* shown about the file, in either lane, for any sessions and interleaving *)
(* of their hooks and commands, unless the note was out of the index once. *)
THEOREM DerivationsAreIndependent == Spec => []StrikesAreIndependent
<1>1. Init => CleanLedger
  <2>1. Clean(NoFile.strikes)
    BY DEF Clean, NoFile, Range
  <2> QED
    BY <2>1 DEF Init, CleanLedger, Idle
<1>2. CleanLedger => StrikesAreIndependent
  BY DEF CleanLedger, Clean, CleanStrike, StrikesAreIndependent
<1> QED
  BY <1>1, <1>2, CleanStep, AlwaysTyped, PTL DEF Spec
-----------------------------------------------------------------------------
(* What is offered is open.                                                *)

(* A rejected file has its phrases; and between commands the row of a      *)
(* candidate is its file's.                                                *)
Phrased(file) == file.status = "rejected" => file.phrases
Consistent ==
  /\ \A c \in Cands : Unsettled(c) \/ rows[c] = RowOf(files[c])
  /\ \A c \in Cands : Phrased(files[c])
  /\ \A s \in Sessions : Phrased(proc[s].file)

LEMMA EditedIsPhrased ==
  ASSUME Typed, Consistent, NEW s \in Sessions
  PROVE  Phrased(Edited(s))
<1> DEFINE f == proc[s].file
<1>1. f \in File /\ Phrased(f)
  BY DEF Typed, Local, Consistent
<1>2. Phrased(Derived(s))
  BY <1>1 DEF Derived, File, Phrased
<1>3. Phrased(Promoted(f)) /\ Phrased(Rejected(f)) /\ Phrased(Expired(f))
  BY <1>1 DEF Promoted, Rejected, Expired, File, Phrased
<1>4. Phrased(Declined(f))
  BY <1>1 DEF Declined, File, Phrased
<1> QED
  BY <1>2, <1>3, <1>4, EditedIs

(* Who changes a row, or settles a candidate.                              *)
LEMMA RowsStep ==
  ASSUME Typed, [Next]_vars
  PROVE  \/ UNCHANGED <<rows, torn>>
         \/ UNCHANGED rows /\ \E s \in Sessions : Die(s)
         \/ \E s \in Sessions : Commit(s) \/ ExpireRow(s)
         \/ \E c \in Cands : Reindex(c)
<1>1. ASSUME NEW s \in Sessions, (\E lane \in Lanes : Inject(s, lane)) \/ Cite(s) \/ Near(s)
      PROVE  UNCHANGED <<rows, torn>>
  BY <1>1 DEF Inject, Cite, Near, store, history
<1>2. ASSUME NEW s \in Sessions, Derive(s) \/ Decree(s) \/ Expire(s) \/ PromoteDirect(s)
      PROVE  UNCHANGED <<rows, torn>>
  BY <1>2 DEF Derive, Decree, Expire, PromoteDirect, Begins, store
<1>3. ASSUME NEW s \in Sessions, Lock(s) \/ Decide(s) \/ Ready(s) \/ Offered(s)
      PROVE  UNCHANGED <<rows, torn>>
  BY <1>3 DEF Lock, Decide, Ready, Offered, store, history
<1>4. ASSUME NEW s \in Sessions, Write(s) \/ ExpireWrite(s) \/ Unindex(s)
      PROVE  UNCHANGED <<rows, torn>>
  BY <1>4 DEF Write, ExpireWrite, Unindex
<1>7. ASSUME NEW s \in Sessions,
             Rejections(s) \/ ReadRejection(s) \/ ReadReady(s) \/ ReadStale(s)
      PROVE  UNCHANGED <<rows, torn>>
  BY <1>7 DEF Rejections, ReadRejection, ReadReady, ReadStale, store, history
<1>8. ASSUME NEW s \in Sessions, ClearPaths(s) \/ RestorePaths(s) PROVE UNCHANGED <<rows, torn>>
  BY <1>8 DEF ClearPaths, RestorePaths, history
<1>5. CASE Time \/ UNCHANGED vars
  BY <1>5 DEF Time, vars, store, history
<1>6. ASSUME NEW s \in Sessions, Die(s) PROVE UNCHANGED rows
  BY <1>6 DEF Die
<1> QED
  BY <1>1, <1>2, <1>3, <1>4, <1>5, <1>6, <1>7, <1>8 DEF Next

(* A command between a file and its row leaves by writing the row or dying. *)
LEMMA BetweenStep ==
  ASSUME Typed, [Next]_vars, NEW t \in Sessions, proc[t].pc \in {"commit", "expired"}
  PROVE  proc'[t] = proc[t] \/ Commit(t) \/ ExpireRow(t) \/ Die(t)
<1>1. ASSUME NEW s \in Sessions, NEW local, Become(s, local),
             proc[s].pc \notin {"commit", "expired"}
      PROVE  proc'[t] = proc[t]
  BY <1>1 DEF Become, Typed
<1>2. ASSUME NEW s \in Sessions, Near(s) \/ Offered(s) \/ Derive(s) \/ Decree(s)
      PROVE  proc'[t] = proc[t]
  BY <1>1, <1>2 DEF Near, Offered, Derive, Decree
<1>3. ASSUME NEW s \in Sessions, Expire(s) \/ Ready(s) \/ Decide(s) \/ Write(s)
      PROVE  proc'[t] = proc[t]
  BY <1>1, <1>3 DEF Expire, Ready, Decide, Write
<1>4. ASSUME NEW s \in Sessions, ExpireWrite(s) \/ Lock(s) PROVE proc'[t] = proc[t]
  BY <1>1, <1>4 DEF ExpireWrite, Lock
<1>8. ASSUME NEW s \in Sessions, Rejections(s) \/ ReadRejection(s) \/ ReadReady(s)
      PROVE  proc'[t] = proc[t]
  BY <1>1, <1>8 DEF Rejections, ReadRejection, ReadReady
<1>9. ASSUME NEW s \in Sessions, ReadStale(s) \/ ClearPaths(s) \/ RestorePaths(s)
      PROVE  proc'[t] = proc[t]
  BY <1>1, <1>9 DEF ReadStale, ClearPaths, RestorePaths
<1>5. ASSUME NEW s \in Sessions, Commit(s) \/ ExpireRow(s) \/ Die(s), s # t
      PROVE  proc'[t] = proc[t]
  BY <1>5 DEF Commit, ExpireRow, Die, Become, Typed
<1>6. ASSUME NEW s \in Sessions,
             (\E lane \in Lanes : Inject(s, lane)) \/ Cite(s) \/ PromoteDirect(s) \/ Unindex(s)
      PROVE  UNCHANGED proc
  BY <1>6 DEF Inject, Cite, PromoteDirect, Unindex
<1>7. ASSUME (\E c \in Cands : Reindex(c)) \/ Time \/ UNCHANGED vars PROVE UNCHANGED proc
  BY <1>7 DEF Reindex, Time, vars
<1> QED
  BY <1>2, <1>3, <1>4, <1>5, <1>6, <1>7, <1>8, <1>9 DEF Next

(* A candidate stays unsettled until its row is written from its file.     *)
LEMMA UnsettledStep ==
  ASSUME Typed, [Next]_vars, NEW c \in Cands, Unsettled(c)
  PROVE  \/ Unsettled(c)'
         \/ Reindex(c)
         \/ \E s \in Sessions : (Commit(s) \/ ExpireRow(s)) /\ proc[s].c = c
<1> SUFFICES ASSUME ~Reindex(c),
                    \A s \in Sessions : Commit(s) \/ ExpireRow(s) => proc[s].c # c
             PROVE  Unsettled(c)'
  OBVIOUS
<1>1. CASE c \in torn
  <2>1. ASSUME NEW s \in Sessions, Commit(s) \/ ExpireRow(s) PROVE c \in torn'
    BY <1>1, <2>1 DEF Commit, ExpireRow, Upserted, UpsertedRow
  <2>2. ASSUME NEW d \in Cands, Reindex(d) PROVE c \in torn'
    BY <1>1, <2>2 DEF Reindex
  <2>3. ASSUME NEW s \in Sessions, Die(s) PROVE c \in torn'
    BY <1>1, <2>3 DEF Die
  <2> QED
    BY <1>1, <2>1, <2>2, <2>3, RowsStep DEF Unsettled
<1>2. CASE \E s \in Sessions : proc[s].c = c /\ proc[s].pc \in {"commit", "expired"}
  <2>1. PICK t \in Sessions : proc[t].c = c /\ proc[t].pc \in {"commit", "expired"}
    BY <1>2
  <2>2. CASE proc'[t] = proc[t]
    BY <2>1, <2>2 DEF Unsettled
  <2>3. CASE Die(t)
    BY <2>1, <2>3 DEF Die, Unsettled
  <2> QED
    BY <2>1, <2>2, <2>3, BetweenStep
<1> QED
  BY <1>1, <1>2 DEF Unsettled

(* A file that is written has its command between it and its row.          *)
LEMMA RowsTell ==
  ASSUME Typed, Consistent, [Next]_vars, NEW c \in Cands
  PROVE  (Unsettled(c) \/ rows[c] = RowOf(files[c]))'
<1>1. ASSUME NEW s \in Sessions, Write(s) \/ ExpireWrite(s), proc[s].c = c
      PROVE  Unsettled(c)'
  <2>1. PICK pc \in {"commit", "expired"} :
          Become(s, [proc[s] EXCEPT !.pc = pc, !.file = Edited(s)])
    BY <1>1 DEF Write, ExpireWrite
  <2>2. proc'[s].c = c /\ proc'[s].pc = pc
    BY <1>1, <2>1 DEF Become, Typed, Local
  <2> QED
    BY <2>1, <2>2 DEF Unsettled
<1>2. ASSUME NEW s \in Sessions, Write(s) \/ ExpireWrite(s), proc[s].c # c
      PROVE  UNCHANGED <<files[c], rows[c]>>
  BY <1>2 DEF Write, ExpireWrite, Rewrite, Typed
<1>3. ASSUME NEW s \in Sessions, Commit(s) \/ ExpireRow(s)
      PROVE  \/ (Unsettled(c) \/ rows[c] = RowOf(files[c]))'
             \/ proc[s].c # c /\ UNCHANGED <<files[c], rows[c]>>
  <2>1. UNCHANGED files /\ UpsertedRow(s)
    BY <1>3 DEF Commit, ExpireRow, Upserted
  <2>2. CASE proc[s].c = c
    <3>1. rows'[c] = RowOf(proc[s].file) /\ (files[c] = proc[s].file \/ c \in torn')
      BY <2>1, <2>2 DEF UpsertedRow, Typed
    <3> QED
      BY <2>1, <3>1 DEF Unsettled, RowOf
  <2>3. CASE proc[s].c # c
    BY <2>1, <2>3 DEF UpsertedRow, Typed
  <2> QED
    BY <2>2, <2>3
<1>4. ASSUME NEW d \in Cands, Reindex(d)
      PROVE  rows'[c] = RowOf(files'[c]) \/ (d # c /\ UNCHANGED <<files[c], rows[c]>>)
  BY <1>4 DEF Reindex, Typed, RowOf
<1>5. CASE UNCHANGED <<files[c], rows[c]>>
  <2>1. CASE rows[c] = RowOf(files[c])
    BY <1>5, <2>1 DEF RowOf
  <2>2. CASE Unsettled(c)
    <3>1. CASE Unsettled(c)'
      BY <3>1
    <3>2. CASE Reindex(c)
      BY <1>4, <3>2 DEF RowOf
    <3>3. ASSUME NEW s \in Sessions, Commit(s) \/ ExpireRow(s), proc[s].c = c
          PROVE  (Unsettled(c) \/ rows[c] = RowOf(files[c]))'
      BY <1>3, <3>3
    <3> QED
      BY <2>2, <3>1, <3>2, <3>3, UnsettledStep
  <2> QED
    BY <2>1, <2>2 DEF Consistent
<1>6. UNCHANGED files \/ \E s \in Sessions : Write(s) \/ ExpireWrite(s)
  BY FilesStep
<1>7. ASSUME NEW s \in Sessions, Write(s) \/ ExpireWrite(s) PROVE (UNCHANGED rows)
  BY <1>7 DEF Write, ExpireWrite
<1>8. ASSUME NEW s \in Sessions, Die(s) PROVE UNCHANGED files
  BY <1>8 DEF Die
<1>9. ASSUME UNCHANGED files, UNCHANGED rows PROVE UNCHANGED <<files[c], rows[c]>>
  BY <1>9
<1> QED
  BY <1>1, <1>2, <1>3, <1>4, <1>5, <1>6, <1>7, <1>8, <1>9, RowsStep

LEMMA ConsistentStep == Typed /\ Consistent /\ [Next]_vars => Consistent'
<1> SUFFICES ASSUME Typed, Consistent, [Next]_vars PROVE Consistent'
  OBVIOUS
<1>1. ASSUME NEW c \in Cands PROVE Phrased(files'[c])
  <2>1. files'[c] = files[c] \/ \E s \in Sessions : files'[c] = Edited(s)
    BY FilesStep DEF Write, ExpireWrite, Rewrite, Typed
  <2> QED
    BY <2>1, EditedIsPhrased DEF Consistent
<1>2. ASSUME NEW s \in Sessions PROVE Phrased(proc'[s].file)
  <2>1. Phrased(NoFile)
    BY DEF NoFile, Phrased
  <2> QED
    BY <2>1, LocalAfter, EditedIsPhrased DEF Carries, Consistent
<1>3. \A c \in Cands : Phrased(files[c])'
  BY <1>1 DEF Phrased
<1>4. \A s \in Sessions : Phrased(proc[s].file)'
  BY <1>2 DEF Phrased
<1> QED
  BY <1>3, <1>4, RowsTell DEF Consistent

(* Expiry alone writes a file that a command under the lock has read.      *)
HeldOrExpired ==
  \A t \in Sessions : Held(t) =>
    proc[t].file = files[proc[t].c] \/ files[proc[t].c].status = "expired"

LEMMA ExpiredIs ==
  ASSUME Typed, NEW s \in Sessions, ExpireWrite(s)
  PROVE  proc[s].c \in Cands /\ files'[proc[s].c] = Edited(s) /\ Edited(s).status = "expired"
<1>1. proc[s].cmd = "expire" /\ proc[s].c \in Cands /\ proc[s].file \in File
  BY DEF ExpireWrite, Typed, Sane, Local
<1>2. Edited(s) = Expired(proc[s].file)
  BY <1>1, EditedIs
<1> QED
  BY <1>1, <1>2 DEF ExpireWrite, Rewrite, Typed, Expired, File

LEMMA HeldOrExpiredStep == Typed /\ HeldOrExpired /\ [Next]_vars => HeldOrExpired'
<1> SUFFICES ASSUME Typed, HeldOrExpired, [Next]_vars, NEW t \in Sessions, Held(t)'
             PROVE  \/ proc'[t].file = files'[proc'[t].c]
                    \/ files'[proc'[t].c].status = "expired"
  BY DEF HeldOrExpired, Held
<1> DEFINE c == proc'[t].c
<1>1. CASE UNCHANGED files
  <2>1. CASE proc'[t].file = files[c]
    BY <1>1, <2>1
  <2>2. CASE Held(t) /\ c = proc[t].c /\ proc'[t].file = proc[t].file
    BY <1>1, <2>2 DEF HeldOrExpired
  <2>3. CASE proc'[t] = proc[t]
    BY <1>1, <2>3 DEF HeldOrExpired, Held
  <2> QED
    BY <2>1, <2>2, <2>3, HeldAfter
<1>2. ASSUME NEW s \in Sessions, Write(s) PROVE FALSE
  <2>1. s # t
    BY <1>2 DEF Write, Become, Typed, Local, Held
  <2>2. proc'[t] = proc[t] /\ proc[s].pc \in Locked
    BY <1>2, <2>1 DEF Write, Become, Typed, Locked
  <2>3. proc[t].pc \in Locked
    BY <2>2 DEF Held, Locked
  <2> QED
    BY <2>1, <2>2, <2>3 DEF Typed
<1>3. ASSUME NEW s \in Sessions, ExpireWrite(s)
      PROVE  proc'[t].file = files'[c] \/ files'[c].status = "expired"
  <2>1. s # t
    BY <1>3 DEF ExpireWrite, Become, Typed, Local, Held
  <2>2. proc'[t] = proc[t]
    BY <1>3, <2>1 DEF ExpireWrite, Become, Typed
  <2>3. proc[t].file = files[c] \/ files[c].status = "expired"
    BY <2>2 DEF HeldOrExpired, Held
  <2>4. CASE proc[s].c = c
    BY <1>3, <2>4, ExpiredIs
  <2>5. CASE proc[s].c # c
    BY <1>3, <2>2, <2>3, <2>5 DEF ExpireWrite, Rewrite, Typed
  <2> QED
    BY <2>4, <2>5
<1> QED
  BY <1>1, <1>2, <1>3, FilesStep

(* What a file may become with its status what it was: no derivation fewer. *)
LEMMA StatusKept ==
  ASSUME Typed, Typed', HeldOrExpired, [Next]_vars, NEW c \in Cands, files[c].status = "active",
         files'[c].status = "active"
  PROVE  Len(files'[c].strikes) >= Len(files[c].strikes)
<1>1. Len(files[c].strikes) \in Nat
  BY DEF Typed, File
<1>2. CASE files'[c] = files[c]
  BY <1>1, <1>2
<1>3. ASSUME NEW s \in Sessions, ExpireWrite(s), files'[c] # files[c] PROVE FALSE
  BY <1>3, ExpiredIs DEF ExpireWrite, Rewrite, Typed
<1>4. ASSUME NEW s \in Sessions, Write(s), files'[c] # files[c]
      PROVE  Len(files'[c].strikes) >= Len(files[c].strikes)
  <2>1. proc[s].c = c /\ files'[c] = Edited(s)
    BY <1>4 DEF Write, Rewrite, Typed
  <2>2. proc[s].file = files[c]
    BY <1>4, <2>1 DEF HeldOrExpired, Held, Write
  <2>3. files[c].strikes \in Seq(Strike) /\ [by |-> s, at |-> proc[s].at] \in Strike
    BY DEF Typed, File, Local, Strike
  <2>4. Len(Append(files[c].strikes, [by |-> s, at |-> proc[s].at])) = Len(files[c].strikes) + 1
    BY <2>3
  <2>5. \/ Edited(s).strikes = files[c].strikes
        \/ Edited(s).strikes = Append(files[c].strikes, [by |-> s, at |-> proc[s].at])
    BY <2>2, EditedStrikes
  <2> QED
    BY <1>1, <2>1, <2>4, <2>5
<1> QED
  BY <1>2, <1>3, <1>4, FilesStep

(* What a session that is choosing asked the index for still holds, but    *)
(* for its suspects: the candidate is active and has derivations enough,   *)
(* and who is rejected and refuses it is still to be read, or was.         *)
Open(t) ==
  LET c == proc[t].c IN
  c \in suspect[t] \/ (files[c].status = "active" /\ Len(files[c].strikes) >= Threshold)
Heard(t) ==
  \A r \in Cands : files[r].status = "rejected" /\ proc[t].c \in Refuses[r] =>
    r \in suspect[t] \/ r \in proc[t].unread \/ proc[t].refused
Chosen ==
  \A t \in Sessions :
    /\ proc[t].pc \in Choosing => Open(t)
    /\ proc[t].pc = "reading" => Heard(t)

(* Who is choosing and stays where it is keeps its suspects, and gets every *)
(* candidate whose status changes.                                          *)
LEMMA SuspectsStay ==
  ASSUME Typed, [Next]_vars, NEW t \in Sessions, proc[t].pc \in Choosing, proc'[t] = proc[t]
  PROVE  /\ suspect[t] \subseteq suspect'[t]
         /\ \A c \in Cands : files'[c].status = files[c].status \/ c \in suspect'[t]
<1>1. ASSUME UNCHANGED <<files, suspect>>
      PROVE  /\ suspect[t] \subseteq suspect'[t]
             /\ \A c \in Cands : files'[c].status = files[c].status \/ c \in suspect'[t]
  BY <1>1
<1>2. ASSUME NEW s \in Sessions, Write(s) \/ ExpireWrite(s)
      PROVE  /\ suspect[t] \subseteq suspect'[t]
             /\ \A c \in Cands : files'[c].status = files[c].status \/ c \in suspect'[t]
  <2>1. Rewrite(proc[s].c, Edited(s))
    BY <1>2 DEF Write, ExpireWrite
  <2> QED
    BY <2>1 DEF Rewrite, Typed
<1>3. ASSUME NEW s \in Sessions, Ready(s) \/ Rejections(s) \/ ReadReady(s) \/ Die(s)
      PROVE  /\ suspect[t] \subseteq suspect'[t]
             /\ \A c \in Cands : files'[c].status = files[c].status \/ c \in suspect'[t]
  <2>1. s # t
    <3>1. CASE Ready(s)
      BY <3>1 DEF Ready, Choosing
    <3>2. CASE Rejections(s)
      BY <3>2 DEF Rejections, Become, Typed, Local
    <3>3. CASE ReadReady(s) \/ Die(s)
      <4> DEFINE local == [Idle EXCEPT !.pc = "offered", !.c = proc[s].c, !.file = files[proc[s].c]]
      <4>1. local.pc \notin Choosing /\ Idle.pc \notin Choosing
        BY DEF Idle, Choosing
      <4>2. Become(s, local) \/ Become(s, Idle)
        BY <3>3 DEF ReadReady, Die
      <4> HIDE DEF local
      <4> QED
        BY <4>1, <4>2 DEF Become, Typed
    <3> QED
      BY <1>3, <3>1, <3>2, <3>3
  <2>2. UNCHANGED <<files, suspect[t]>>
    BY <1>3, <2>1 DEF Ready, Rejections, ReadReady, Die, Typed, store
  <2> QED
    BY <2>2
<1>4. ASSUME NEW s \in Sessions, (\E lane \in Lanes : Inject(s, lane)) \/ Cite(s) \/ Near(s)
      PROVE  UNCHANGED <<files, suspect>>
  BY <1>4 DEF Inject, Cite, Near, store, history
<1>5. ASSUME NEW s \in Sessions, Derive(s) \/ Decree(s) \/ Expire(s) \/ PromoteDirect(s)
      PROVE  UNCHANGED <<files, suspect>>
  BY <1>5 DEF Derive, Decree, Expire, PromoteDirect, Begins, store
<1>6. ASSUME NEW s \in Sessions, Lock(s) \/ Decide(s) \/ Commit(s) \/ Offered(s)
      PROVE  UNCHANGED <<files, suspect>>
  BY <1>6 DEF Lock, Decide, Commit, Offered, store, history
<1>7. ASSUME NEW s \in Sessions, ReadStale(s) \/ ExpireRow(s) \/ ClearPaths(s) \/ RestorePaths(s)
      PROVE  UNCHANGED <<files, suspect>>
  BY <1>7 DEF ReadStale, ExpireRow, ClearPaths, RestorePaths, store, history
<1>8. ASSUME NEW s \in Sessions, ReadRejection(s) \/ Unindex(s)
      PROVE  UNCHANGED <<files, suspect>>
  BY <1>8 DEF ReadRejection, Unindex, store, history
<1>9. ASSUME (\E c \in Cands : Reindex(c)) \/ Time \/ UNCHANGED vars
      PROVE  UNCHANGED <<files, suspect>>
  BY <1>9 DEF Reindex, Time, vars, store, history
<1> QED
  BY <1>1, <1>2, <1>3, <1>4, <1>5, <1>6, <1>7, <1>8, <1>9 DEF Next

(* The queries, and the files of the rejected read one by one.             *)
LEMMA QueryStep ==
  ASSUME Typed, Consistent, Chosen, NEW t \in Sessions,
         Ready(t) \/ Rejections(t) \/ ReadRejection(t)
  PROVE  /\ (proc[t].pc \in Choosing => Open(t))'
         /\ (proc[t].pc = "reading" => Heard(t))'
<1>1. CASE Ready(t)
  <2>1. PICK c \in Cands :
          /\ rows[c].status = "active" /\ rows[c].count >= Threshold
          /\ Become(t, [Idle EXCEPT !.pc = "refusals", !.c = c, !.at = now])
          /\ suspect' = [suspect EXCEPT ![t] = IF Unsettled(c) THEN {c} ELSE {}]
    BY <1>1 DEF Ready
  <2>2. proc'[t].c = c /\ proc'[t].pc = "refusals" /\ UNCHANGED files
    BY <1>1, <2>1 DEF Become, Typed, Idle, Ready, store
  <2>3. c \in suspect'[t] \/ rows[c] = RowOf(files[c])
    BY <2>1 DEF Consistent, Typed
  <2>4. Open(t)'
    BY <2>1, <2>2, <2>3 DEF Open, RowOf
  <2> QED
    BY <2>2, <2>4
<1>2. CASE Rejections(t)
  <2>1. /\ proc'[t].pc = "reading" /\ proc'[t].c = proc[t].c /\ UNCHANGED files
        /\ proc'[t].unread = {r \in Cands : rows[r].status = "rejected"}
    BY <1>2 DEF Rejections, Become, Typed, Local, store
  <2>2. suspect'[t] = (suspect[t] \cap {proc[t].c}) \cup {r \in Cands \ {proc[t].c} : Unsettled(r)}
    BY <1>2 DEF Rejections, Typed
  <2>3. Open(t)
    BY <1>2 DEF Chosen, Rejections, Choosing
  <2>4. Open(t)'
    BY <2>1, <2>2, <2>3 DEF Open
  <2>5. ASSUME NEW r \in Cands, files[r].status = "rejected"
        PROVE  r \in suspect'[t] \/ r \in proc'[t].unread
    <3>1. CASE r = proc[t].c
      BY <2>2, <2>3, <2>5, <3>1 DEF Open
    <3>2. CASE r # proc[t].c
      <4>1. CASE Unsettled(r)
        BY <2>2, <3>2, <4>1
      <4>2. CASE rows[r] = RowOf(files[r])
        BY <2>1, <2>5, <4>2 DEF RowOf
      <4> QED
        BY <4>1, <4>2 DEF Consistent
    <3> QED
      BY <3>1, <3>2
  <2> QED
    BY <2>1, <2>4, <2>5 DEF Heard
<1>3. CASE ReadRejection(t)
  <2>1. PICK r \in proc[t].unread :
          /\ proc'[t].unread = proc[t].unread \ {r}
          /\ proc'[t].refused =
               (proc[t].refused \/ (files[r].phrases /\ proc[t].c \in Refuses[r]))
    BY <1>3, ReadRejectionIs
  <2>2. /\ proc'[t].pc = "reading" /\ proc'[t].c = proc[t].c
        /\ UNCHANGED <<files, suspect>>
    BY <1>3, ReadRejectionIs DEF ReadRejection, store, history
  <2>3. Open(t) /\ Heard(t)
    BY <1>3 DEF Chosen, ReadRejection, Choosing
  <2>4. Open(t)'
    BY <2>2, <2>3 DEF Open
  <2>5. ASSUME NEW q \in Cands, files[q].status = "rejected", proc[t].c \in Refuses[q]
        PROVE  q \in suspect[t] \/ q \in proc'[t].unread \/ proc'[t].refused
    <3>1. files[q].phrases
      BY <2>5 DEF Consistent, Phrased
    <3> QED
      BY <2>1, <2>3, <2>5, <3>1 DEF Heard
  <2> QED
    BY <2>2, <2>4, <2>5 DEF Heard
<1> QED
  BY <1>1, <1>2, <1>3

LEMMA ChosenStep ==
  Typed /\ Typed' /\ Consistent /\ HeldOrExpired /\ Chosen /\ [Next]_vars => Chosen'
<1> SUFFICES ASSUME Typed, Typed', Consistent, HeldOrExpired, Chosen, [Next]_vars,
                    NEW t \in Sessions, proc'[t].pc \in Choosing
             PROVE  Open(t)' /\ (proc'[t].pc = "reading" => Heard(t)')
  BY DEF Chosen, Choosing
<1>1. CASE Ready(t) \/ Rejections(t) \/ ReadRejection(t)
  BY <1>1, QueryStep
<1>2. CASE proc'[t] = proc[t]
  <2>1. /\ suspect[t] \subseteq suspect'[t]
        /\ \A c \in Cands : files'[c].status = files[c].status \/ c \in suspect'[t]
    BY <1>2, SuspectsStay
  <2>2. proc[t].c \in Cands
    BY <1>2 DEF Typed, Sane, Choosing
  <2>3. Open(t)'
    <3>1. CASE proc[t].c \in suspect'[t]
      BY <1>2, <3>1 DEF Open
    <3>2. CASE proc[t].c \notin suspect'[t]
      <4> DEFINE c == proc[t].c
      <4>1. files[c].status = "active" /\ Len(files[c].strikes) >= Threshold
        BY <1>2, <2>1, <3>2 DEF Chosen, Open
      <4>2. files'[c].status = "active"
        BY <2>1, <2>2, <3>2, <4>1
      <4>3. Len(files'[c].strikes) >= Len(files[c].strikes)
        BY <2>2, <4>1, <4>2, StatusKept
      <4>4. Len(files'[c].strikes) \in Nat /\ Len(files[c].strikes) \in Nat /\ Threshold \in Nat
        BY <2>2, ConstantsFit DEF Typed, File
      <4> QED
        BY <1>2, <4>1, <4>2, <4>3, <4>4 DEF Open
    <3> QED
      BY <3>1, <3>2
  <2>4. ASSUME proc[t].pc = "reading" PROVE Heard(t)'
    BY <1>2, <2>1, <2>4 DEF Chosen, Heard
  <2> QED
    BY <1>2, <2>3, <2>4
<1>3. proc'[t].pc \notin Elsewhere \cup {"write", "decide", "offered"}
  BY DEF Choosing, Elsewhere
<1> QED
  BY <1>1, <1>2, <1>3, MovesAfter DEF Moves

(* What ready_candidates() offers is, when it reads it, an active candidate *)
(* with derivations enough that nothing rejected refuses, for any number of *)
(* commands at work between its queries and its reads, but for candidates   *)
(* whose row was behind their file, or whose status changed after it asked. *)
THEOREM OffersAreSound == Spec => OffersAreOpen
<1>1. Init => Consistent /\ HeldOrExpired /\ Chosen
  BY DEF Init, Consistent, Phrased, NoFile, NoRow, RowOf, Idle, HeldOrExpired, Held, Chosen,
         Choosing
<1>2. ASSUME Typed, Chosen, [Next]_vars,
             NEW s \in Sessions, proc'[s].pc = "offered" /\ proc[s].pc # "offered"
      PROVE  \/ proc'[s].c \in suspect[s]
             \/ /\ files[proc'[s].c].status = "active"
                /\ Len(files[proc'[s].c].strikes) >= Threshold
                /\ \A r \in Cands : files[r].status = "rejected" /\ proc'[s].c \in Refuses[r] =>
                     r \in suspect[s]
  <2>1. ReadReady(s)
    BY <1>2, MovesAfter
    DEF Moves, Held, Elsewhere, Choosing
  <2>2. proc[s].pc = "reading" /\ proc[s].unread = {}
    BY <2>1 DEF ReadReady
  <2>3. /\ Become(s, [Idle EXCEPT !.pc = "offered", !.c = proc[s].c, !.file = files[proc[s].c]])
        /\ ~proc[s].refused
    BY <1>2, <2>1 DEF ReadReady, Become, Typed, Idle, Offerable
  <2>4. proc'[s].c = proc[s].c
    <3>1. proc'[s] = [Idle EXCEPT !.pc = "offered", !.c = proc[s].c, !.file = files[proc[s].c]]
      BY <1>2, <2>3 DEF Become, Typed
    <3> QED
      BY <3>1 DEF Idle
  <2>5. Open(s) /\ Heard(s)
    BY <1>2, <2>2 DEF Chosen, Choosing
  <2> QED
    BY <2>2, <2>3, <2>4, <2>5 DEF Open, Heard
<1>3. Typed /\ Chosen /\ [Next]_vars =>
        [\A s \in Sessions : proc'[s].pc = "offered" /\ proc[s].pc # "offered" =>
           LET c == proc'[s].c IN
           \/ c \in suspect[s]
           \/ /\ files[c].status = "active"
              /\ Len(files[c].strikes) >= Threshold
              /\ \A r \in Cands :
                   files[r].status = "rejected" /\ c \in Refuses[r] => r \in suspect[s]]_vars
  BY <1>2
<1> QED
  BY <1>1, <1>3, ConsistentStep, HeldOrExpiredStep, ChosenStep, AlwaysTyped, PTL
  DEF Spec, OffersAreOpen
-----------------------------------------------------------------------------
(* A decision rests on its evidence.                                       *)

LEMMA PrefixIs ==
  ASSUME NEW s \in Seq(Strike), NEW t \in Seq(Strike)
  PROVE  IsPrefix(s, t) <=> Len(s) <= Len(t) /\ \A i \in 1..Len(s) : s[i] = t[i]
<1>1. Len(s) \in Nat /\ Len(t) \in Nat
  OBVIOUS
<1>2. ASSUME IsPrefix(s, t), NEW i \in 1..Len(s) PROVE s[i] = t[i]
  <2>1. SubSeq(s, 1, Len(s))[i] = s[i] /\ SubSeq(t, 1, Len(s))[i] = t[i]
    BY <1>1, <1>2 DEF IsPrefix
  <2> QED
    BY <1>2, <2>1 DEF IsPrefix
<1>3. ASSUME Len(s) <= Len(t), \A i \in 1..Len(s) : s[i] = t[i]
      PROVE  SubSeq(s, 1, Len(s)) = SubSeq(t, 1, Len(s))
  BY <1>1, <1>3
<1> QED
  BY <1>2, <1>3 DEF IsPrefix

LEMMA PrefixOfPrefix ==
  ASSUME NEW s \in Seq(Strike), NEW t \in Seq(Strike), NEW u \in Seq(Strike),
         IsPrefix(s, t), IsPrefix(t, u)
  PROVE  IsPrefix(s, u)
<1>1. Len(s) \in Nat /\ Len(t) \in Nat /\ Len(u) \in Nat
  OBVIOUS
<1>2. Len(s) <= Len(t) /\ Len(t) <= Len(u)
      /\ (\A i \in 1..Len(s) : s[i] = t[i]) /\ \A i \in 1..Len(t) : t[i] = u[i]
  BY PrefixIs
<1>3. Len(s) <= Len(u) /\ \A i \in 1..Len(s) : s[i] = u[i]
  BY <1>1, <1>2
<1> QED
  BY <1>3, PrefixIs

LEMMA LeastOf ==
  ASSUME NEW T \in SUBSET Nat, T # {}
  PROVE  Min(T) \in T
<1>1. PICK x \in T : \A y \in T : <<y, x>> \notin OpToRel(<, Nat)
  BY NatLessThanWellFounded, WFMin
<1>2. \A y \in T : ~(y < x)
  BY <1>1 DEF OpToRel
<1>3. \A y \in T : x <= y
  BY <1>2
<1> QED
  BY <1>3 DEF Min

LEMMA ProjectsAreFinite ==
  ASSUME NEW strikes \in Seq(Strike)
  PROVE  IsFiniteSet(ProjectsOf(strikes))
<1> DEFINE f == [i \in 1..Len(strikes) |-> Home[strikes[i].by]]
<1>1. IsFiniteSet(1..Len(strikes))
  <2>1. Len(strikes) \in Int /\ 1 \in Int
    OBVIOUS
  <2> QED
    BY <2>1, FS_Interval
<1>2. ProjectsOf(strikes) = {f[i] : i \in 1..Len(strikes)}
  BY DEF ProjectsOf, Range
<1>3. f \in Surjection(1..Len(strikes), ProjectsOf(strikes))
  <2> DEFINE T == ProjectsOf(strikes)
  <2>1. f \in [1..Len(strikes) -> T] /\ \A p \in T : \E i \in 1..Len(strikes) : f[i] = p
    BY <1>2
  <2> HIDE DEF f, T
  <2> QED
    BY <2>1 DEF Surjection, T
<1> QED
  BY <1>1, <1>3, FS_Surjection

(* Where a decision applies is what its derivations have in common.        *)
LEMMA DestinationIs ==
  ASSUME NEW strikes \in Seq(Strike), NEW scope, scope = Destination(strikes)
  PROVE  LET projects == ProjectsOf(strikes) IN
         /\ scope.rung = "project" => projects = {scope.of}
         /\ scope.rung = "topic" => \A p \in projects : scope.of \in TopicsOf[p]
         /\ scope.rung = "everywhere" =>
              Cardinality(projects) # 1 /\ (projects = {} \/ Shared(projects) = {})
<1> DEFINE projects == ProjectsOf(strikes)
           shared == Shared(projects)
<1>1. CASE Cardinality(projects) = 1
  <2>1. PICK p : projects = {p}
    BY <1>1, ProjectsAreFinite, FS_Singleton
  <2>2. scope = Scope("project", p)
    BY <1>1, <2>1 DEF Destination
  <2> QED
    BY <2>1, <2>2 DEF Scope
<1>2. CASE Cardinality(projects) # 1 /\ projects # {} /\ shared # {}
  <2>1. scope = Scope("topic", Topics[Min(shared)])
    BY <1>2 DEF Destination
  <2>2. shared \in SUBSET Nat
    BY PromotionAssumption DEF Shared
  <2>3. Min(shared) \in shared
    <3> HIDE DEF shared
    <3> QED
      BY <1>2, <2>2, LeastOf
  <2>4. \A p \in projects : Topics[Min(shared)] \in TopicsOf[p]
    BY <2>3 DEF Shared
  <2> QED
    BY <2>1, <2>4 DEF Scope
<1>3. CASE Cardinality(projects) # 1 /\ (projects = {} \/ shared = {})
  <2>1. scope = Scope("everywhere", "@@")
    BY <1>3 DEF Destination
  <2> QED
    BY <1>3, <2>1 DEF Scope
<1> QED
  BY <1>1, <1>2, <1>3

Rests(d) ==
  /\ d.of \in Cands /\ d.strikes \in Seq(Strike)
  /\ IsPrefix(d.strikes, files[d.of].strikes) \/ d.of \in clobbered
  /\ d.scope = Destination(d.strikes)
DecisionsRest == \A d \in decisions : d.direct \/ Rests(d)

LEMMA DecisionsStep ==
  ASSUME [Next]_vars
  PROVE  UNCHANGED decisions \/ \E s \in Sessions : Decide(s) \/ PromoteDirect(s)
<1>1. ASSUME NEW s \in Sessions, (\E lane \in Lanes : Inject(s, lane)) \/ Cite(s) \/ Near(s)
      PROVE  UNCHANGED decisions
  BY <1>1 DEF Inject, Cite, Near, store
<1>2. ASSUME NEW s \in Sessions, Derive(s) \/ Decree(s) \/ Expire(s) \/ Ready(s) \/ Offered(s)
      PROVE  UNCHANGED decisions
  BY <1>2 DEF Derive, Decree, Expire, Ready, Offered, store
<1>3. ASSUME NEW s \in Sessions, Lock(s) \/ Write(s) \/ Commit(s) \/ ExpireWrite(s)
      PROVE  UNCHANGED decisions
  BY <1>3 DEF Lock, Write, Commit, ExpireWrite
<1>4. ASSUME NEW s \in Sessions, ExpireRow(s) \/ Unindex(s) \/ Die(s) PROVE UNCHANGED decisions
  BY <1>4 DEF ExpireRow, Unindex, Die
<1>7. ASSUME NEW s \in Sessions,
             Rejections(s) \/ ReadRejection(s) \/ ReadReady(s) \/ ReadStale(s)
      PROVE  UNCHANGED decisions
  BY <1>7 DEF Rejections, ReadRejection, ReadReady, ReadStale, store
<1>8. ASSUME NEW s \in Sessions, ClearPaths(s) \/ RestorePaths(s) PROVE UNCHANGED decisions
  BY <1>8 DEF ClearPaths, RestorePaths
<1>5. ASSUME NEW c \in Cands, Reindex(c) PROVE UNCHANGED decisions
  BY <1>5 DEF Reindex
<1>6. CASE Time \/ UNCHANGED vars
  BY <1>6 DEF Time, vars, store
<1> QED
  BY <1>1, <1>2, <1>3, <1>4, <1>5, <1>6, <1>7, <1>8 DEF Next

LEMMA RestStep ==
  Typed /\ Typed' /\ HeldStrikes /\ DecisionsRest /\ [Next]_vars => DecisionsRest'
<1> SUFFICES ASSUME Typed, Typed', HeldStrikes, DecisionsRest, [Next]_vars,
                    NEW d \in decisions', ~d.direct
             PROVE  Rests(d)'
  BY DEF DecisionsRest, Rests
<1>1. CASE d \in decisions
  <2>1. Rests(d)
    BY <1>1 DEF DecisionsRest
  <2>2. files[d.of].strikes \in Seq(Strike) /\ files'[d.of].strikes \in Seq(Strike)
    BY <2>1 DEF Rests, Typed, File
  <2>3. clobbered \subseteq clobbered'
    BY FilesStep DEF Write, ExpireWrite
  <2>4. IsPrefix(d.strikes, files'[d.of].strikes) \/ d.of \in clobbered'
    BY <2>1, <2>2, <2>3, StrikesStep, PrefixOfPrefix DEF Rests
  <2> QED
    BY <2>1, <2>4 DEF Rests
<1>2. ASSUME NEW s \in Sessions, PromoteDirect(s), d \notin decisions PROVE FALSE
  BY <1>2 DEF PromoteDirect, Decided
<1>3. ASSUME NEW s \in Sessions, Decide(s), d \notin decisions PROVE Rests(d)'
  <2> DEFINE strikes == proc[s].file.strikes
  <2>1. d = [of |-> proc[s].c, scope |-> Destination(strikes), strikes |-> strikes,
             direct |-> FALSE]
    BY <1>3 DEF Decide, Decided
  <2>2. proc[s].c \in Cands /\ strikes \in Seq(Strike)
    BY <1>3 DEF Decide, Typed, Sane, Local, File
  <2>3. strikes = files[proc[s].c].strikes \/ proc[s].c \in clobbered
    BY <1>3 DEF HeldStrikes, Held, Decide
  <2>4. UNCHANGED <<files, clobbered>>
    BY <1>3 DEF Decide, history
  <2>5. d.of = proc[s].c /\ d.strikes = strikes /\ d.scope = Destination(strikes)
    BY <2>1
  <2>6. IsPrefix(d.strikes, files'[d.of].strikes) \/ d.of \in clobbered'
    BY <2>2, <2>3, <2>4, <2>5, PrefixOfItself
  <2> QED
    BY <2>2, <2>5, <2>6 DEF Rests
<1> QED
  BY <1>1, <1>2, <1>3, DecisionsStep

(* A decision that a person approves rests on derivations that its         *)
(* candidate's file still shows, whoever derives, rejects and promotes     *)
(* meanwhile, and applies where they were made: one project, a topic of    *)
(* all of them, or everywhere when they share none.                        *)
THEOREM DecisionsAreSupported == Spec => []DecisionsRestOnEvidence
<1>1. Init => HeldStrikes /\ DecisionsRest
  BY DEF Init, HeldStrikes, Held, Idle, DecisionsRest
<1>2. DecisionsRest => DecisionsRestOnEvidence
  <2> SUFFICES ASSUME NEW d \in decisions, Rests(d)
               PROVE  LET projects == ProjectsOf(d.strikes) IN
                      /\ IsPrefix(d.strikes, files[d.of].strikes) \/ d.of \in clobbered
                      /\ d.scope.rung = "project" => projects = {d.scope.of}
                      /\ d.scope.rung = "topic" => \A p \in projects : d.scope.of \in TopicsOf[p]
                      /\ d.scope.rung = "everywhere" =>
                           Cardinality(projects) # 1 /\ (projects = {} \/ Shared(projects) = {})
    BY DEF DecisionsRest, DecisionsRestOnEvidence
  <2> QED
    BY DestinationIs DEF Rests
<1> QED
  BY <1>1, <1>2, HeldStep, RestStep, AlwaysTyped, PTL DEF Spec

-----------------------------------------------------------------------------
(* The receipt adds up.                                                    *)

(* The ledger is finite, and has each note once per session and event.     *)
Same(x, y) == x.session = y.session /\ x.note = y.note /\ x.event = y.event
Once ==
  /\ IsFiniteSet(paths) /\ IsFiniteSet(events)
  /\ \A x, y \in events : Same(x, y) => x = y

LEMMA RecordedOnce ==
  ASSUME Typed, Once, NEW s \in Sessions, NEW ids, IsFiniteSet(ids), NEW event
  PROVE  /\ IsFiniteSet(Recorded(s, ids, event))
         /\ \A x, y \in Recorded(s, ids, event) : Same(x, y) => x = y
<1> DEFINE fresh == {m \in ids : ~Has(s, m, event)}
           At(n) == [session |-> s, note |-> n, event |-> event, at |-> now]
           added == {At(n) : n \in fresh}
           f == [n \in fresh |-> At(n)]
<1>1. IsFiniteSet(fresh)
  BY FS_Subset
<1>2. f \in Surjection(fresh, added)
  BY DEF Surjection
<1>3. IsFiniteSet(added)
  <2> HIDE DEF f, fresh, added
  <2> QED
    BY <1>1, <1>2, FS_Surjection
<1>4. Recorded(s, ids, event) = events \cup added
  BY DEF Recorded
<1>5. IsFiniteSet(events \cup added)
  <2> HIDE DEF added
  <2> QED
    BY <1>3, FS_Union DEF Once
<1>6. ASSUME NEW x \in events, NEW y \in added PROVE ~Same(x, y) /\ ~Same(y, x)
  BY DEF Same, Has
<1>7. ASSUME NEW x \in added, NEW y \in added, Same(x, y) PROVE x = y
  BY <1>7 DEF Same
<1> QED
  BY <1>4, <1>5, <1>6, <1>7 DEF Once

LEMMA OnceStep == Typed /\ Once /\ [Next]_vars => Once'
<1> SUFFICES ASSUME Typed, Once, [Next]_vars PROVE Once'
  OBVIOUS
<1>1. ASSUME NEW s \in Sessions, NEW ids, IsFiniteSet(ids), NEW event,
             events' = Recorded(s, ids, event), UNCHANGED paths
      PROVE  Once'
  BY <1>1, RecordedOnce DEF Once, Same
<1>2. ASSUME UNCHANGED events, NEW n, paths' \subseteq paths \cup {n} PROVE Once'
  <2>1. IsFiniteSet(paths \cup {n})
    BY FS_AddElement DEF Once
  <2>2. IsFiniteSet(paths')
    BY <1>2, <2>1, FS_Subset
  <2> QED
    BY <1>2, <2>2 DEF Once, Same
<1>3. IsFiniteSet({Observation}) /\ IsFiniteSet(Concerning)
  <2>1. Concerning \in SUBSET paths
    BY DEF Concerning
  <2> QED
    BY <2>1, FS_Singleton, FS_Subset DEF Once
<1>4. ASSUME NEW s \in Sessions, (\E lane \in Lanes : Inject(s, lane)) \/ Cite(s) \/ Near(s)
      PROVE  Once'
  <2>1. UNCHANGED paths
    BY <1>4 DEF Inject, Cite, Near, store
  <2>2. \E ids \in {{Observation}, Concerning}, event \in Lanes \cup {"cited"} :
          events' = Recorded(s, ids, event)
    BY <1>4 DEF Inject, Cite, Near, Lanes
  <2> QED
    BY <1>1, <1>3, <2>1, <2>2
<1>5. ASSUME NEW s \in Sessions, Derive(s) \/ Decree(s) \/ Expire(s) \/ PromoteDirect(s)
      PROVE  Once'
  BY <1>2, <1>5 DEF Derive, Decree, Expire, PromoteDirect, store, ledger
<1>6. ASSUME NEW s \in Sessions, Lock(s) \/ Decide(s) \/ Ready(s) \/ Offered(s) PROVE Once'
  BY <1>2, <1>6 DEF Lock, Decide, Ready, Offered, store, ledger
<1>7. ASSUME NEW s \in Sessions, Write(s) \/ ExpireWrite(s) \/ Die(s) PROVE Once'
  BY <1>2, <1>7 DEF Write, ExpireWrite, Die, ledger
<1>8. ASSUME NEW s \in Sessions, Commit(s) \/ ExpireRow(s) \/ Unindex(s) PROVE Once'
  BY <1>2, <1>8 DEF Commit, ExpireRow, Upserted, Unindex, ledger
<1>11. ASSUME NEW s \in Sessions,
              Rejections(s) \/ ReadRejection(s) \/ ReadReady(s) \/ ReadStale(s)
       PROVE  Once'
  BY <1>2, <1>11 DEF Rejections, ReadRejection, ReadReady, ReadStale, store, ledger
<1>12. ASSUME NEW s \in Sessions, ClearPaths(s) \/ RestorePaths(s) PROVE Once'
  BY <1>2, <1>12 DEF ClearPaths, RestorePaths, ledger
<1>9. ASSUME NEW c \in Cands, Reindex(c) PROVE Once'
  BY <1>2, <1>9 DEF Reindex, ledger
<1>10. CASE Time \/ UNCHANGED vars
  BY <1>2, <1>10 DEF Time, vars, store, ledger
<1> QED
  BY <1>4, <1>5, <1>6, <1>7, <1>8, <1>9, <1>10, <1>11, <1>12 DEF Next

LEMMA CardinalityOfBoth ==
  ASSUME NEW S, NEW T, IsFiniteSet(S), IsFiniteSet(T), S \cap T = {}
  PROVE  Cardinality(S \cup T) = Cardinality(S) + Cardinality(T)
<1>1. Cardinality(S \cup T) = Cardinality(S) + Cardinality(T) - Cardinality(S \cap T)
  BY FS_Union
<1>2. Cardinality(S \cap T) = 0 /\ Cardinality(S) \in Nat /\ Cardinality(T) \in Nat
  BY FS_EmptySet, FS_CardinalityType
<1> QED
  BY <1>1, <1>2

(* Every cite of a note shown in a lane since the window opened has that   *)
(* showing, and two cites never the same.                                  *)
LEMMA CitesAreShown ==
  ASSUME Typed, Once, NEW lane \in Lanes, NEW floor, NEW T,
         \A c \in T : /\ c \in events /\ c.event = "cited"
                      /\ \E e \in Since(lane, floor) : e.session = c.session /\ e.note = c.note
  PROVE  Cardinality(T) <= Cardinality(Since(lane, floor))
<1> DEFINE U == Since(lane, floor)
           f == [c \in T |-> CHOOSE e \in U : e.session = c.session /\ e.note = c.note]
<1>1. ASSUME NEW c \in T
      PROVE  f[c] \in U /\ f[c].session = c.session /\ f[c].note = c.note
             /\ c \in events /\ c.event = "cited"
  OBVIOUS
<1>2. ASSUME NEW c \in T, NEW d \in T, f[c] = f[d] PROVE c = d
  BY <1>1, <1>2 DEF Once, Same
<1>3. f \in Injection(T, U)
  <2>1. f \in [T -> U]
    BY <1>1
  <2> HIDE DEF f, U
  <2> QED
    BY <1>2, <2>1 DEF Injection, IsInjective
<1>4. IsFiniteSet(U)
  BY FS_Subset DEF Once, Since
<1> QED
  BY <1>3, <1>4, FS_Injection

(* The cites of a window are of notes shown in it or before it.            *)
LEMMA CitesOverhang ==
  ASSUME Typed, Once, NEW lane \in Lanes, NEW floor \in 0..now, NEW T,
         T \subseteq {c \in Since("cited", floor) : Has(c.session, c.note, lane)}
  PROVE  Cardinality(T) <= Cardinality(Since(lane, floor)) + Cardinality(Overhang(lane, floor))
<1> DEFINE late == T \ Overhang(lane, floor)
           early == T \cap Overhang(lane, floor)
<1>1. IsFiniteSet(T) /\ IsFiniteSet(Overhang(lane, floor)) /\ IsFiniteSet(Since(lane, floor))
  <2>1. T \in SUBSET events /\ Overhang(lane, floor) \in SUBSET events
        /\ Since(lane, floor) \in SUBSET events
    BY DEF Overhang, Since
  <2> QED
    BY <2>1, FS_Subset DEF Once
<1>2. IsFiniteSet(late) /\ IsFiniteSet(early)
  BY <1>1, FS_Subset
<1>3. Cardinality(T) = Cardinality(late) + Cardinality(early)
  <2>1. T = late \cup early /\ late \cap early = {}
    OBVIOUS
  <2> HIDE DEF late, early
  <2> QED
    BY <1>2, <2>1, CardinalityOfBoth
<1>4. Cardinality(late) <= Cardinality(Since(lane, floor))
  <2>1. ASSUME NEW c \in late
        PROVE  /\ c \in events /\ c.event = "cited"
               /\ \E e \in Since(lane, floor) : e.session = c.session /\ e.note = c.note
    <3>1. c \in Since("cited", floor) /\ Has(c.session, c.note, lane) /\ c \notin Overhang(lane, floor)
      OBVIOUS
    <3>2. PICK e \in events : e.session = c.session /\ e.note = c.note /\ e.event = lane
      BY <3>1 DEF Has
    <3>3. ~(e.at < floor)
      BY <3>1, <3>2 DEF Overhang
    <3>4. e.at \in Nat /\ floor \in Nat
      BY <3>2, ConstantsFit DEF Typed, Event
    <3>5. e \in Since(lane, floor)
      BY <3>2, <3>3, <3>4 DEF Since
    <3> QED
      BY <3>1, <3>2, <3>5 DEF Since
  <2> HIDE DEF late
  <2> QED
    BY <2>1, CitesAreShown
<1>5. Cardinality(early) <= Cardinality(Overhang(lane, floor))
  BY <1>1, FS_Subset
<1>6. Cardinality(late) \in Nat /\ Cardinality(early) \in Nat
      /\ Cardinality(Since(lane, floor)) \in Nat /\ Cardinality(Overhang(lane, floor)) \in Nat
  BY <1>1, <1>2, FS_CardinalityType
<1> HIDE DEF late, early
<1> QED
  BY <1>3, <1>4, <1>5, <1>6

LEMMA OnceAddsUp == Typed /\ Once => ReceiptAddsUp
<1> SUFFICES ASSUME Typed, Once PROVE ReceiptAddsUp
  OBVIOUS
<1>1. ASSUME NEW floor \in 0..now
      PROVE  LET r == Receipt(floor)
             IN Cardinality(Since("cited", floor)) = r.cited + r.cited_after_file + r.unprompted
  <2> DEFINE cites == Since("cited", floor)
             A == {c \in cites : Has(c.session, c.note, "injected")}
             B == {c \in cites : Has(c.session, c.note, "injected_file")}
             C == {c \in cites : ~IsShown(c.session, c.note)}
  <2>1. IsFiniteSet(cites)
    BY FS_Subset DEF Once, Since
  <2>2. cites = (A \cup (B \ A)) \cup C /\ A \cap (B \ A) = {} /\ (A \cup (B \ A)) \cap C = {}
    BY DEF IsShown, Lanes
  <2>3. A \in SUBSET cites /\ B \ A \in SUBSET cites /\ C \in SUBSET cites
        /\ A \cup (B \ A) \in SUBSET cites
    OBVIOUS
  <2>4. Receipt(floor).cited = Cardinality(A) /\ Receipt(floor).unprompted = Cardinality(C)
        /\ Receipt(floor).cited_after_file = Cardinality(B \ A)
    BY DEF Receipt
  <2> HIDE DEF cites, A, B, C
  <2>5. IsFiniteSet(A) /\ IsFiniteSet(B \ A) /\ IsFiniteSet(C) /\ IsFiniteSet(A \cup (B \ A))
    BY <2>1, <2>3, FS_Subset
  <2>6. Cardinality(A) \in Nat /\ Cardinality(B \ A) \in Nat /\ Cardinality(C) \in Nat
        /\ Cardinality(A \cup (B \ A)) \in Nat
    BY <2>5, FS_CardinalityType
  <2>7. Cardinality(A \cup (B \ A)) = Cardinality(A) + Cardinality(B \ A)
    BY <2>2, <2>5, CardinalityOfBoth
  <2>8. Cardinality(cites) = Cardinality(A \cup (B \ A)) + Cardinality(C)
    BY <2>2, <2>5, CardinalityOfBoth
  <2> QED
    BY <2>4, <2>6, <2>7, <2>8 DEF cites
<1>2. ASSUME NEW floor \in 0..now
      PROVE  LET r == Receipt(floor) IN
             /\ r.cited <= r.injected + Cardinality(Overhang("injected", floor))
             /\ r.cited_after_file <= r.injected_file + Cardinality(Overhang("injected_file", floor))
  BY CitesOverhang DEF Receipt, Lanes
<1> QED
  BY <1>1, <1>2 DEF ReceiptAddsUp

(* In every window each cite is counted in one place, and no lane has more *)
(* cites than notes shown but for cites of notes shown before the window,  *)
(* for any sessions, notes and order of their hooks and commands: what is  *)
(* recorded is recorded once.                                              *)
THEOREM ReceiptsAddUp == Spec => []ReceiptAddsUp
<1>1. Init => Once
  <2>1. IsFiniteSet({}) /\ IsFiniteSet({Observation})
    BY FS_EmptySet, FS_Singleton
  <2> QED
    BY <2>1 DEF Init, Once
<1> QED
  BY <1>1, OnceStep, OnceAddsUp, AlwaysTyped, PTL DEF Spec
=============================================================================
