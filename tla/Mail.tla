-------------------------------- MODULE Mail --------------------------------
(***************************************************************************)
(* The message half of the board (src/messages.rs) and the delivery paths  *)
(* of src/main.rs that sit on it.  One SQLite file is shared by unrelated  *)
(* operating-system processes; every statement or IMMEDIATE transaction is *)
(* one atomic step here, and everything a process does between two of them *)
(* (a selection it made, what it is about to print) is private state of    *)
(* that process.  A session (an "agent") may have several processes alive  *)
(* at once: the hooks its harness fires, a blocking `amb watch`, a command *)
(* it typed.                                                               *)
(***************************************************************************)
EXTENDS Integers, Sequences, FiniteSets

CONSTANTS
  Agents,              \* session ids on the roster
  Projects,            \* project names
  Everyone,            \* the address `@@`: to_agent and to_proj both NULL
  Procs,               \* processes that may be alive at the same time
  Owner,               \* Owner[p]: the session process p belongs to
  Runs,                \* Runs[p]: the commands and hooks p may be an invocation of
  Home,                \* Home[a]: the projects session a may resolve to
  Keys,                \* idempotency keys a caller may pass as --ext-id
  NoKey,               \* ext_id IS NULL
  Drafts,              \* what may be sent: [from, fromProj, to, key, urgent]
  MaxOffers,           \* messages.rs MAX_OFFERS
  ForeignGlobalOffers, \* messages.rs FOREIGN_GLOBAL_OFFERS
  MaxRendered,         \* delivery.rs MAX_RENDERED
  Horizon,             \* messages.rs BROADCAST_HORIZON, in clock units
  MaxMsgs,             \* bound: rows the messages table may reach
  MaxClock,            \* bound: the last instant of the wall clock
  MayFail              \* may a process die, or a write of it be refused?

Addresses == Agents \cup Projects \cup {Everyone}

Routes   == {"sweep", "edit", "watch"}   \* the three ways mail is offered
Commands == Routes \cup {"send", "reply", "read", "read --all"}

Draft == [from: Agents, fromProj: Projects, to: Addresses,
          key: Keys \cup {NoKey}, urgent: BOOLEAN]

ASSUME NamesAssumption ==
  /\ Agents \cap Projects = {}
  /\ Everyone \notin Agents \cup Projects
  /\ NoKey \notin Keys \cup (Agents \X Keys)

ASSUME ProcsAssumption ==
  /\ IsFiniteSet(Procs)
  /\ Owner \in [Procs -> Agents]
  /\ Runs \in [Procs -> SUBSET Commands]
  /\ Home \in [Agents -> SUBSET Projects]

ASSUME DraftsAssumption ==
  /\ Drafts \subseteq Draft
  /\ \A d \in Drafts : d.fromProj \in Home[d.from]

ASSUME BoundsAssumption ==
  /\ MaxOffers \in Nat \ {0} /\ ForeignGlobalOffers \in Nat \ {0}
  /\ MaxRendered \in Nat \ {0} /\ Horizon \in Nat
  /\ MaxMsgs \in Nat /\ MaxClock \in Nat \ {0}
  /\ MayFail \in BOOLEAN

VARIABLES
  messages, \* the messages table: message #i is messages[i]
  reads,    \* the reads table; an absent row is a row nothing has set
  now,      \* the wall clock
  proc,     \* what each process is in the middle of
  shown,    \* history: shown[a][i] counts the times a was really shown #i
  lost,     \* history: lost[a][i] counts the offers recorded and never printed
  sent      \* history: <<sender, key>> of the keyed sends that returned an id

vars == <<messages, reads, now, proc, shown, lost, sent>>

-----------------------------------------------------------------------------
(* The tables.                                                             *)

MsgIds == 1..MaxMsgs
Null   == 0                  \* a timestamp column that is NULL
Stamps == 0..MaxClock

\* `supersedes` is 0 when the column is NULL.
Message == [from: Agents, fromProj: Projects, to: Addresses,
            ext: (Agents \X Keys) \cup {NoKey}, urgent: BOOLEAN,
            supersedes: 0..MaxMsgs, ts: 1..MaxClock]

\* delivered_at is the time of the first offer, so it is set once there is one.
Row    == {r \in [delivered: Stamps, read: Stamps, attempts: Nat] :
             r.delivered = Null <=> r.attempts = 0}
NoRow  == [delivered |-> Null, read |-> Null, attempts |-> 0]

Phases   == {"idle", "marking", "printing", "acking", "reading"}
Activity == [pc: Phases, ids: SUBSET MsgIds]
Idle     == [pc |-> "idle", ids |-> {}]

Posted      == DOMAIN messages
ProcsOf(a)  == {p \in Procs : Owner[p] = a}
Retracted(i) == \E j \in Posted : messages[j].supersedes = i
Acked(a, i)  == reads[a][i].read # Null
Attempts(a, i) == reads[a][i].attempts

-----------------------------------------------------------------------------
(* select(): who a message is for, and what a delivery path may offer.     *)
(* A definition whose name ends in Fault is a plausible bug in the one that*)
(* follows it; no specification uses it.                                   *)

\* The recipient is not looked at: only the own mail is left out.
AddressedFault(a, proj, i) == messages[i].from # a

Addressed(a, proj, i) ==
  /\ messages[i].from # a
  /\ messages[i].to \in {a, proj, Everyone}

Direct(i)  == messages[i].to \in Agents
Foreign(proj, i) == messages[i].to = Everyone /\ messages[i].fromProj # proj

\* attempts <= cap where the query says attempts < cap.
OfferCapFault(cap, proj, i) == cap + 1

OfferCap(cap, proj, i) ==
  IF Foreign(proj, i) /\ ForeignGlobalOffers < cap THEN ForeignGlobalOffers ELSE cap

\* inbox(unread): never narrowed by caps, horizon or retraction.
Unread(a, proj) == {i \in Posted : Addressed(a, proj, i) /\ ~Acked(a, i)}

\* Retracted mail stays on the delivery path.
OfferableFault(a, proj, cap) ==
  {i \in Unread(a, proj) :
     /\ Attempts(a, i) < OfferCap(cap, proj, i)
     /\ Direct(i) \/ messages[i].ts >= now - Horizon}

Offerable(a, proj, cap) ==
  {i \in Unread(a, proj) :
     /\ Attempts(a, i) < OfferCap(cap, proj, i)
     /\ Direct(i) \/ messages[i].ts >= now - Horizon
     /\ ~Retracted(i)}

Deliverable(a, proj) == Offerable(a, proj, MaxOffers)
Undelivered(a, proj) == {i \in Offerable(a, proj, 1) : messages[i].urgent}

Selected(via, a, proj) ==
  IF via = "edit" THEN Undelivered(a, proj) ELSE Deliverable(a, proj)

-----------------------------------------------------------------------------
(* render_all(): which of the selected messages the text names.  A global  *)
(* from another project is one counted line and never truncated; the rest  *)
(* are ordered by urgency, then id, and cut at MaxRendered.                *)

Urgency(i) == IF Direct(i) THEN 0 ELSE IF messages[i].to = Everyone THEN 2 ELSE 1
Precedes(i, j) == Urgency(i) < Urgency(j) \/ (Urgency(i) = Urgency(j) /\ i < j)

Rendered(S, proj) ==
  LET ordered == {i \in S : ~Foreign(proj, i)}
  IN  {i \in S : \/ Foreign(proj, i)
                 \/ Cardinality({j \in ordered : Precedes(j, i)}) < MaxRendered}

\* `amb watch` hands over everything it found; a hook only what it rendered.
OfferSet(via, a, proj) ==
  IF via = "watch" THEN Selected(via, a, proj)
  ELSE Rendered(Selected(via, a, proj), proj)

-----------------------------------------------------------------------------
(* Writes to the reads table.                                              *)

FirstStamp(old) == IF old = Null THEN now ELSE old   \* COALESCE(old, now)

\* delivered_at is left out of the upsert's UPDATE.
CountOfferFault(row) == [row EXCEPT !.attempts = @ + 1]
CountOffer(row) ==
  [delivered |-> FirstStamp(row.delivered), read |-> row.read, attempts |-> row.attempts + 1]
StampRead(row)  == [row EXCEPT !.read = FirstStamp(@)]

\* Counts everything selected, also what the render cap cut off (D33).
MarkDeliveredFault(a, S) ==
  LET selected == S \cup UNION {Deliverable(a, proj) : proj \in Home[a]} IN
  reads' = [reads EXCEPT ![a] =
              [i \in MsgIds |-> IF i \in selected THEN CountOffer(reads[a][i]) ELSE reads[a][i]]]

MarkDelivered(a, S) ==
  reads' = [reads EXCEPT ![a] =
              [i \in MsgIds |-> IF i \in S THEN CountOffer(reads[a][i]) ELSE reads[a][i]]]

MarkRead(a, S) ==
  reads' = [reads EXCEPT ![a] =
              [i \in MsgIds |-> IF i \in S THEN StampRead(reads[a][i]) ELSE reads[a][i]]]

\* A history counter of reader a, one more for each message in S.
AddOne(count, a, S) ==
  [count EXCEPT ![a] = [i \in MsgIds |-> count[a][i] + IF i \in S THEN 1 ELSE 0]]

Become(p, activity) == proc' = [proc EXCEPT ![p] = activity]
Starts(p, command)  == command \in Runs[p] /\ proc[p].pc = "idle"

-----------------------------------------------------------------------------
Init ==
  /\ messages = << >>
  /\ reads = [a \in Agents |-> [i \in MsgIds |-> NoRow]]
  /\ now = 1
  /\ proc = [p \in Procs |-> Idle]
  /\ shown = [a \in Agents |-> [i \in MsgIds |-> 0]]
  /\ lost = [a \in Agents |-> [i \in MsgIds |-> 0]]
  /\ sent = {}

(* send(): bounds and the authorial check first, then one transaction that *)
(* inserts, or finds the message an earlier send with this key left.  The  *)
(* check reads a row that never changes, so it is folded into the step; a  *)
(* refused send changes nothing and is no step at all.                     *)

\* The caller's key as it came: one session's key meets another's (D22).
ScopedExtIdFault(a, key) == key

ScopedExtId(a, key) == IF key = NoKey THEN NoKey ELSE <<a, key>>

Duplicate(ext) == ext # NoKey /\ \E i \in Posted : messages[i].ext = ext

\* Anybody retracts anybody's message.
MayRetractFault(a, target) == target = 0 \/ target \in Posted

MayRetract(a, target) ==
  target = 0 \/ (target \in Posted /\ messages[target].from = a)

Insert(d, target) ==
  messages' = Append(messages,
    [from |-> d.from, fromProj |-> d.fromProj, to |-> d.to,
     ext |-> ScopedExtId(d.from, d.key), urgent |-> d.urgent,
     supersedes |-> target, ts |-> now])

Send(p, d, target) ==
  /\ Starts(p, "send")
  /\ d.from = Owner[p]
  /\ MayRetract(d.from, target)
  /\ \/ Duplicate(ScopedExtId(d.from, d.key)) /\ UNCHANGED messages
     \/ /\ ~Duplicate(ScopedExtId(d.from, d.key))
        /\ Len(messages) < MaxMsgs
        /\ Insert(d, target)
  /\ sent' = IF d.key = NoKey THEN sent ELSE sent \cup {<<d.from, d.key>>}
  /\ UNCHANGED <<reads, now, proc, shown, lost>>

\* reply(): to the original's sender, whoever that is, never with a key.
Reply(p, proj, i, urgent, target) ==
  /\ Starts(p, "reply")
  /\ i \in Posted
  /\ MayRetract(Owner[p], target)
  /\ Len(messages) < MaxMsgs
  /\ Insert([from |-> Owner[p], fromProj |-> proj, to |-> messages[i].from,
             key |-> NoKey, urgent |-> urgent], target)
  /\ UNCHANGED <<reads, now, proc, shown, lost, sent>>

(* hook_deliver(), post_tool_use() and watch(): select, then record the    *)
(* offer, then print it.  A selection that shows nothing writes nothing.   *)

Offer(p, via, proj) ==
  /\ Starts(p, via)
  /\ OfferSet(via, Owner[p], proj) # {}
  /\ Become(p, [pc |-> "marking", ids |-> OfferSet(via, Owner[p], proj)])
  /\ UNCHANGED <<messages, reads, now, shown, lost, sent>>

Mark(p) ==
  /\ proc[p].pc = "marking"
  /\ MarkDelivered(Owner[p], proc[p].ids)
  /\ Become(p, [proc[p] EXCEPT !.pc = "printing"])
  /\ UNCHANGED <<messages, now, shown, lost, sent>>

Emit(p) ==
  /\ proc[p].pc = "printing"
  /\ shown' = AddOne(shown, Owner[p], proc[p].ids)
  /\ Become(p, Idle)
  /\ UNCHANGED <<messages, reads, now, lost, sent>>

(* mark_read_all(): the unread ids are listed first, and only those are    *)
(* acknowledged.  mark_read_many(): the ids the caller typed, one          *)
(* autocommit each, stopping at the first that is not on the board.        *)

ListUnread(p, proj) ==
  /\ Starts(p, "read --all")
  /\ Unread(Owner[p], proj) # {}
  /\ Become(p, [pc |-> "acking", ids |-> Unread(Owner[p], proj)])
  /\ UNCHANGED <<messages, reads, now, shown, lost, sent>>

\* Acknowledges whatever is unread by now, as one UPDATE would.
AckListedFault(p) ==
  /\ proc[p].pc = "acking"
  /\ MarkRead(Owner[p], UNION {Unread(Owner[p], proj) : proj \in Home[Owner[p]]})
  /\ Become(p, Idle)
  /\ UNCHANGED <<messages, now, shown, lost, sent>>

AckListed(p) ==
  /\ proc[p].pc = "acking"
  /\ MarkRead(Owner[p], proc[p].ids)
  /\ Become(p, Idle)
  /\ UNCHANGED <<messages, now, shown, lost, sent>>

NameIds(p, S) ==
  /\ Starts(p, "read")
  /\ S # {}
  /\ Become(p, [pc |-> "reading", ids |-> S])
  /\ UNCHANGED <<messages, reads, now, shown, lost, sent>>

ReadNamed(p, i) ==
  /\ proc[p].pc = "reading"
  /\ i \in proc[p].ids
  /\ IF i \in Posted
     THEN /\ MarkRead(Owner[p], {i})
          /\ Become(p, IF proc[p].ids = {i} THEN Idle
                       ELSE [proc[p] EXCEPT !.ids = @ \ {i}])
     ELSE UNCHANGED reads /\ Become(p, Idle)
  /\ UNCHANGED <<messages, now, shown, lost, sent>>

(* The host kills a hook, a write meets SQLITE_BUSY or a full disk: what   *)
(* was committed stays, the rest of the process never happens.             *)

Fail(p) ==
  /\ MayFail
  /\ proc[p].pc # "idle"
  /\ lost' = IF proc[p].pc = "printing" THEN AddOne(lost, Owner[p], proc[p].ids) ELSE lost
  /\ Become(p, Idle)
  /\ UNCHANGED <<messages, reads, now, shown, sent>>

Tick ==
  /\ now < MaxClock
  /\ now' = now + 1
  /\ UNCHANGED <<messages, reads, proc, shown, lost, sent>>

Sweep(p)  == \E proj \in Home[Owner[p]] : Offer(p, "sweep", proj)
Finish(p) == Mark(p) \/ Emit(p) \/ AckListed(p) \/ \E i \in MsgIds : ReadNamed(p, i)

Step(p) ==
  \/ \E d \in Drafts, target \in 0..MaxMsgs : Send(p, d, target)
  \/ \E proj \in Home[Owner[p]], i \in MsgIds, urgent \in BOOLEAN, target \in 0..MaxMsgs :
        Reply(p, proj, i, urgent, target)
  \/ \E via \in Routes, proj \in Home[Owner[p]] : Offer(p, via, proj)
  \/ Mark(p)
  \/ Emit(p)
  \/ \E proj \in Home[Owner[p]] : ListUnread(p, proj)
  \/ AckListed(p)
  \/ \E S \in SUBSET MsgIds : NameIds(p, S)
  \/ \E i \in MsgIds : ReadNamed(p, i)
  \/ Fail(p)

Next == Tick \/ \E p \in Procs : Step(p)

Spec == Init /\ [][Next]_vars

(* A command that started runs to its end; a session keeps finishing       *)
(* turns, so its Stop hook keeps firing, though never at any given moment. *)
(* Nobody is obliged to send, edit, watch or acknowledge.                  *)
Fairness ==
  /\ \A p \in Procs : WF_vars(Finish(p))
  /\ \A a \in Agents : SF_vars(\E p \in ProcsOf(a) : Sweep(p))

FairSpec == Spec /\ Fairness

-----------------------------------------------------------------------------
(* Type invariant.                                                         *)

TypeOK ==
  /\ messages \in Seq(Message) /\ Len(messages) <= MaxMsgs
  /\ reads \in [Agents -> [MsgIds -> Row]]
  /\ now \in 1..MaxClock
  /\ proc \in [Procs -> Activity]
  /\ shown \in [Agents -> [MsgIds -> Nat]] /\ lost \in [Agents -> [MsgIds -> Nat]]
  /\ sent \in SUBSET (Agents \X Keys)

(* What is on its way to a reader: selected and not yet recorded, recorded *)
(* and not yet printed.                                                    *)
Marking(a, i)  == {p \in ProcsOf(a) : proc[p].pc = "marking" /\ i \in proc[p].ids}
Printing(a, i) == {p \in ProcsOf(a) : proc[p].pc = "printing" /\ i \in proc[p].ids}
Committed(a, i) == Attempts(a, i) + Cardinality(Marking(a, i))

\* Whether message i may ever be offered to a, whichever project a is in.
MayReach(a, i) ==
  i \in Posted /\ messages[i].from # a
               /\ messages[i].to \in {a, Everyone} \cup Home[a]

\* Message i was offered to a, or is about to be.
Touched(a, i) ==
  Attempts(a, i) > 0 \/ shown[a][i] > 0 \/ Marking(a, i) # {} \/ Printing(a, i) # {}

(* Mail is offered only to those it is for: an offer counted, in flight or *)
(* printed names a posted message of somebody else's that is addressed to  *)
(* the reader, to every project, or to a project the reader works in       *)
(* (select's 2x2 predicate, messages.rs:748-750).                          *)
OfferedToAddressees ==
  \A a \in Agents, i \in MsgIds :
    Touched(a, i) => MayReach(a, i)

(* The back-off holds whatever the interleaving: selections made before    *)
(* the others' offers were recorded can overrun MAX_OFFERS by at most one  *)
(* offer per further process of the same session (messages.rs:477, 767).   *)
OffersBounded ==
  \A a \in Agents, i \in MsgIds :
    Committed(a, i) <= MaxOffers + Cardinality(ProcsOf(a)) - 1

(* Every offer counted was printed, is about to be, or was lost with the   *)
(* process that recorded it, and nothing is printed uncounted: the count   *)
(* is of messages the text named, never of ones the render cap cut off     *)
(* (emit, main.rs:1565-1570; mark_delivered_all, messages.rs:1084-1086).   *)
OffersAccounted ==
  \A a \in Agents, i \in MsgIds :
    Attempts(a, i) = shown[a][i] + lost[a][i] + Cardinality(Printing(a, i))

(* A keyed send that returned an id has exactly one message on the board,  *)
(* and it is the caller's own: resends do not duplicate it, and another    *)
(* session's equal key does not swallow it (scoped_ext_id, D6 and D22).    *)
KeyedSendsAreOnTheBoard ==
  \A a \in Agents, k \in Keys :
    LET mine == {i \in Posted : messages[i].from = a /\ messages[i].ext = ScopedExtId(a, k)}
    IN  Cardinality(mine) = IF <<a, k>> \in sent THEN 1 ELSE 0

(* Once a reader acknowledged a message, or its sender retracted it, no    *)
(* further offer of it is even begun; what was already selected may still  *)
(* land (messages.rs:757, 786, D25 and D140).                              *)
SettledMailIsLeftAlone ==
  [][\A a \in Agents, i \in MsgIds :
       (i \in Posted /\ (Acked(a, i) \/ Retracted(i)))
          => Committed(a, i)' <= Committed(a, i)]_vars

(* Only mail a process had already named is acknowledged: what arrives     *)
(* between `read --all` listing the unread ids and its transaction stays   *)
(* unread (messages.rs:1134-1165).                                         *)
OnlyNamedMailIsAcked ==
  [][\A a \in Agents, i \in MsgIds :
       (~Acked(a, i) /\ Acked(a, i)') =>
          \E p \in ProcsOf(a) : proc[p].pc \in {"acking", "reading"} /\ i \in proc[p].ids]_vars

(* Unread mail reaches a session whose Stop hook is installed: whatever is *)
(* deliverable is one day shown, unless it is acknowledged or retracted    *)
(* first or, for a broadcast, its horizon passes; a message the render cap *)
(* hides now is offered by a later sweep (delivery.rs:676-690, D33).       *)
Outstanding(a, i) ==
  /\ i \in Posted /\ MayReach(a, i) /\ ~Acked(a, i) /\ ~Retracted(i)
  /\ Direct(i) \/ messages[i].ts >= now - Horizon
Sweeps(a) == \E p \in ProcsOf(a) : "sweep" \in Runs[p]
UnreadMailIsShown ==
  \A a \in {b \in Agents : Sweeps(b)}, i \in MsgIds :
    Outstanding(a, i) ~> (shown[a][i] > 0 \/ ~Outstanding(a, i))
(* What delivery.rs:592-594 says of a global from another project: a new   *)
(* one earns its own single mention.  It is not used up, with nothing in   *)
(* flight, before the reader saw that mention.                             *)
ForeignGlobalIsMentioned ==
  \A a \in Agents, i \in Posted :
    (/\ \A proj \in Home[a] : Foreign(proj, i)
     /\ Attempts(a, i) >= ForeignGlobalOffers
     /\ Printing(a, i) = {}) => shown[a][i] > 0

(* The processes above, whatever their interleaving and wherever they die, *)
(* keep the promise of an append-only, monotone board (BoardLog).          *)
Board == INSTANCE BoardLog WITH
  log     <- messages,
  offered <- [a \in Agents |-> [i \in MsgIds |-> Attempts(a, i)]],
  acked   <- [a \in Agents |-> {i \in MsgIds : Acked(a, i)}]

BoardSpec == Board!Spec
=============================================================================
