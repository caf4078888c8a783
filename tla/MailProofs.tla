----------------------------- MODULE MailProofs -----------------------------
(***************************************************************************)
(* Theorems about Mail for every set of sessions, projects, processes and  *)
(* drafts, and every value of the caps and bounds.                         *)
(***************************************************************************)
EXTENDS Receipts, FiniteSetTheorems, TLAPS

USE NamesAssumption, ProcsAssumption, DraftsAssumption, BoundsAssumption

-----------------------------------------------------------------------------
(* Type correctness.                                                       *)

(* The two updates of a reads row (mark_delivered_all's and mark_read's    *)
(* upserts) give a row back, whatever the clock shows.                     *)
LEMMA RowUpdates ==
  ASSUME NEW row \in Row, now \in 1..MaxClock
  PROVE  CountOffer(row) \in Row /\ StampRead(row) \in Row
<1>1. /\ row \in [delivered: Stamps, read: Stamps, attempts: Nat]
      /\ row.delivered = Null <=> row.attempts = 0
  BY DEF Row
<1>2. /\ row = [delivered |-> row.delivered, read |-> row.read, attempts |-> row.attempts]
      /\ row.delivered \in Stamps /\ row.read \in Stamps /\ row.attempts \in Nat
  BY <1>1
<1>3. \A old \in Stamps : FirstStamp(old) \in Stamps /\ FirstStamp(old) # Null
  BY DEF FirstStamp, Stamps, Null
<1>5. StampRead(row) = [delivered |-> row.delivered, read |-> FirstStamp(row.read),
                        attempts |-> row.attempts]
  BY <1>2 DEF StampRead
<1>6. CountOffer(row) \in Row
  <2>1. row.attempts + 1 \in Nat /\ row.attempts + 1 # 0
    BY <1>2
  <2>2. FirstStamp(row.delivered) \in Stamps /\ FirstStamp(row.delivered) # Null
    BY <1>2, <1>3
  <2> QED
    BY <1>2, <2>1, <2>2 DEF Row, CountOffer
<1>7. StampRead(row) \in Row
  BY <1>1, <1>2, <1>3, <1>5 DEF Row
<1> QED
  BY <1>6, <1>7

(* An absent reads row is a row nobody was offered or acknowledged.        *)
LEMMA NoRowIsARow == NoRow \in Row
BY DEF NoRow, Row, Stamps, Null

(* Both upserts of reads leave a well-typed table.                         *)
LEMMA ReadsUpdates ==
  ASSUME reads \in [Agents -> [MsgIds -> Row]], now \in 1..MaxClock,
         NEW a \in Agents, NEW S,
         MarkDelivered(a, S) \/ MarkRead(a, S)
  PROVE  reads' \in [Agents -> [MsgIds -> Row]]
<1>1. \A i \in MsgIds : CountOffer(reads[a][i]) \in Row /\ StampRead(reads[a][i]) \in Row
  BY RowUpdates
<1>2. \A i \in MsgIds : reads[a][i] \in Row
  OBVIOUS
<1>3. CASE MarkDelivered(a, S)
  <2>1. [i \in MsgIds |-> IF i \in S THEN CountOffer(reads[a][i]) ELSE reads[a][i]]
          \in [MsgIds -> Row]
    BY <1>1, <1>2
  <2> QED
    BY <1>3, <2>1 DEF MarkDelivered
<1>4. CASE MarkRead(a, S)
  <2>1. [i \in MsgIds |-> IF i \in S THEN StampRead(reads[a][i]) ELSE reads[a][i]]
          \in [MsgIds -> Row]
    BY <1>1, <1>2
  <2> QED
    BY <1>4, <2>1 DEF MarkRead
<1> QED
  BY <1>3, <1>4

(* Counting an id set keeps a history a table of counts.                   *)
LEMMA AddOneType ==
  ASSUME NEW count \in [Agents -> [MsgIds -> Nat]], NEW a \in Agents, NEW S
  PROVE  AddOne(count, a, S) \in [Agents -> [MsgIds -> Nat]]
BY DEF AddOne

(* What send() inserts is a message, at the end of the table.              *)
LEMMA InsertType ==
  ASSUME TypeOK, NEW d \in Draft, NEW target \in 0..MaxMsgs,
         Len(messages) < MaxMsgs, Insert(d, target)
  PROVE  messages' \in Seq(Message) /\ Len(messages') = Len(messages) + 1
<1> DEFINE m == [from |-> d.from, fromProj |-> d.fromProj, to |-> d.to,
                 ext |-> ScopedExtId(d.from, d.key), urgent |-> d.urgent,
                 supersedes |-> target, ts |-> now]
<1>1. ScopedExtId(d.from, d.key) \in (Agents \X Keys) \cup {NoKey}
  BY DEF ScopedExtId, Draft
<1>2. m \in Message
  BY <1>1 DEF Message, Draft, TypeOK
<1>3. messages' = Append(messages, m)
  BY DEF Insert
<1> QED
  BY <1>2, <1>3 DEF TypeOK

(* What a hook selects are ids of posted messages.                         *)
LEMMA OfferSetType ==
  ASSUME NEW via, NEW a, NEW proj, TypeOK
  PROVE  OfferSet(via, a, proj) \subseteq MsgIds /\ Unread(a, proj) \subseteq MsgIds
<1>1. Posted \subseteq MsgIds
  BY DEF Posted, MsgIds, TypeOK
<1>2. Unread(a, proj) \subseteq Posted
  BY DEF Unread
<1>3. Selected(via, a, proj) \subseteq Unread(a, proj)
  BY DEF Selected, Deliverable, Undelivered, Offerable
<1>4. OfferSet(via, a, proj) \subseteq Selected(via, a, proj)
  BY DEF OfferSet, Rendered
<1> QED
  BY <1>1, <1>2, <1>3, <1>4

(* The empty board is well typed.                                          *)
LEMMA TypeInit == Init => TypeOK
BY NoRowIsARow DEF Init, TypeOK, Activity, Idle, Phases

(* Every statement of every process keeps the board well typed.            *)
LEMMA TypeStep == TypeOK /\ [Next]_vars => TypeOK'
<1> SUFFICES ASSUME TypeOK, [Next]_vars PROVE TypeOK'
  OBVIOUS
<1> Idle \in Activity
  BY DEF Idle, Activity, Phases
<1>1. ASSUME NEW p \in Procs, NEW d \in Drafts, NEW target \in 0..MaxMsgs, Send(p, d, target)
      PROVE  TypeOK'
  <2>1. d \in Draft
    OBVIOUS
  <2>2. sent' \subseteq Agents \X Keys
    BY <1>1, <2>1 DEF Send, TypeOK, Draft
  <2>3. CASE UNCHANGED messages
    BY <1>1, <2>2, <2>3 DEF Send, TypeOK
  <2>4. CASE Len(messages) < MaxMsgs /\ Insert(d, target)
    BY <1>1, <2>1, <2>2, <2>4, InsertType DEF Send, TypeOK
  <2> QED
    BY <1>1, <2>3, <2>4 DEF Send
<1>2. ASSUME NEW p \in Procs, NEW proj \in Home[Owner[p]], NEW i \in MsgIds,
             NEW urgent \in BOOLEAN, NEW target \in 0..MaxMsgs,
             Reply(p, proj, i, urgent, target)
      PROVE  TypeOK'
  <2> DEFINE d == [from |-> Owner[p], fromProj |-> proj, to |-> messages[i].from,
                   key |-> NoKey, urgent |-> urgent]
  <2>1. messages[i] \in Message
    BY <1>2 DEF Reply, Posted, TypeOK
  <2>2. d \in Draft
    BY <2>1 DEF Draft, Message, Addresses
  <2> QED
    BY <1>2, <2>2, InsertType DEF Reply, TypeOK
<1>3. ASSUME NEW p \in Procs, NEW via \in Routes, NEW proj \in Home[Owner[p]], Offer(p, via, proj)
      PROVE  TypeOK'
  <2>1. [pc |-> "marking", ids |-> OfferSet(via, Owner[p], proj)] \in Activity
    BY OfferSetType DEF Activity, Phases
  <2> QED
    BY <1>3, <2>1 DEF Offer, Become, TypeOK
<1>4. ASSUME NEW p \in Procs, Mark(p) PROVE TypeOK'
  <2>1. [proc[p] EXCEPT !.pc = "printing"] \in Activity
    BY DEF TypeOK, Activity, Phases
  <2>2. reads' \in [Agents -> [MsgIds -> Row]]
    BY <1>4, ReadsUpdates DEF Mark, TypeOK
  <2> QED
    BY <1>4, <2>1, <2>2 DEF Mark, Become, TypeOK
<1>5. ASSUME NEW p \in Procs, Emit(p) PROVE TypeOK'
  BY <1>5, AddOneType DEF Emit, Become, TypeOK
<1>6. ASSUME NEW p \in Procs, NEW proj \in Home[Owner[p]], ListUnread(p, proj) PROVE TypeOK'
  <2>1. [pc |-> "acking", ids |-> Unread(Owner[p], proj)] \in Activity
    BY OfferSetType DEF Activity, Phases
  <2> QED
    BY <1>6, <2>1 DEF ListUnread, Become, TypeOK
<1>7. ASSUME NEW p \in Procs, AckListed(p) PROVE TypeOK'
  <2>1. reads' \in [Agents -> [MsgIds -> Row]]
    BY <1>7, ReadsUpdates DEF AckListed, TypeOK
  <2> QED
    BY <1>7, <2>1 DEF AckListed, Become, TypeOK
<1>8. ASSUME NEW p \in Procs, NEW S \in SUBSET MsgIds, NameIds(p, S) PROVE TypeOK'
  <2>1. [pc |-> "reading", ids |-> S] \in Activity
    BY DEF Activity, Phases
  <2> QED
    BY <1>8, <2>1 DEF NameIds, Become, TypeOK
<1>9. ASSUME NEW p \in Procs, NEW i \in MsgIds, ReadNamed(p, i) PROVE TypeOK'
  <2>1. [proc[p] EXCEPT !.ids = @ \ {i}] \in Activity
    BY DEF TypeOK, Activity
  <2>2. reads' \in [Agents -> [MsgIds -> Row]]
    BY <1>9, ReadsUpdates DEF ReadNamed, TypeOK
  <2>3. proc' \in [Procs -> Activity]
    BY <1>9, <2>1 DEF ReadNamed, Become, TypeOK
  <2> QED
    BY <1>9, <2>2, <2>3 DEF ReadNamed, TypeOK
<1>10. ASSUME NEW p \in Procs, Fail(p) PROVE TypeOK'
  BY <1>10, AddOneType DEF Fail, Become, TypeOK
<1>11. CASE Tick
  BY <1>11 DEF Tick, TypeOK
<1>12. CASE UNCHANGED vars
  BY <1>12 DEF vars, TypeOK
<1> QED
  BY <1>1, <1>2, <1>3, <1>4, <1>5, <1>6, <1>7, <1>8, <1>9, <1>10, <1>11, <1>12
  DEF Next, Step

(* Every table, history and process of every reachable state has its type; *)
(* in particular delivered_at is set exactly when an offer was counted.    *)
THEOREM TypeCorrect == Spec => []TypeOK
BY TypeInit, TypeStep, PTL DEF Spec

-----------------------------------------------------------------------------
(* What every step leaves alone.                                           *)

(* The log is append-only: a posted message keeps its place and its text.  *)
LEMMA MessagesStay ==
  ASSUME TypeOK, [Next]_vars, NEW i \in Posted
  PROVE  i \in Posted' /\ messages'[i] = messages[i]
<1>1. CASE UNCHANGED messages
  BY <1>1 DEF Posted
<1>2. ASSUME NEW m, messages' = Append(messages, m)
      PROVE  i \in Posted' /\ messages'[i] = messages[i]
  BY <1>2 DEF Posted, TypeOK
<1>3. UNCHANGED messages \/ \E d, target : Insert(d, target)
  <2>1. ASSUME NEW p \in Procs, Step(p)
        PROVE  UNCHANGED messages \/ \E d, target : Insert(d, target)
    <3>1. ASSUME NEW d, NEW target, Send(p, d, target)
          PROVE  UNCHANGED messages \/ \E e, t : Insert(e, t)
      BY <3>1 DEF Send
    <3>2. ASSUME NEW proj, NEW i0, NEW urgent, NEW target, Reply(p, proj, i0, urgent, target)
          PROVE  \E e, t : Insert(e, t)
      BY <3>2 DEF Reply
    <3> QED
      BY <2>1, <3>1, <3>2
      DEF Step, Offer, Mark, Emit, ListUnread, AckListed, NameIds, ReadNamed, Fail
  <2> QED
    BY <2>1 DEF Next, Tick, vars
<1>4. ASSUME NEW d, NEW target, Insert(d, target)
      PROVE  \E m : messages' = Append(messages, m)
  BY <1>4 DEF Insert
<1> QED
  BY <1>1, <1>2, <1>3, <1>4

(* The same for what it means to be an addressee.                          *)
LEMMA ReachStays ==
  ASSUME TypeOK, [Next]_vars, NEW a \in Agents, NEW i \in MsgIds, MayReach(a, i)
  PROVE  MayReach(a, i)'
BY MessagesStay DEF MayReach, Posted

(* How a process turning to something else changes what is in flight.      *)
LEMMA InFlight ==
  ASSUME TypeOK, NEW p \in Procs, NEW act, Become(p, act),
         NEW a \in Agents, NEW i \in MsgIds
  PROVE  /\ Marking(a, i)' = IF Owner[p] = a /\ act.pc = "marking" /\ i \in act.ids
                             THEN Marking(a, i) \cup {p} ELSE Marking(a, i) \ {p}
         /\ Printing(a, i)' = IF Owner[p] = a /\ act.pc = "printing" /\ i \in act.ids
                              THEN Printing(a, i) \cup {p} ELSE Printing(a, i) \ {p}
<1>1. proc'[p] = act /\ \A q \in Procs \ {p} : proc'[q] = proc[q]
  BY DEF Become, TypeOK
<1> QED
  BY <1>1 DEF Marking, Printing, ProcsOf

(* Selections of one process are a finite part of the session's processes. *)
LEMMA InFlightFinite ==
  ASSUME NEW a, NEW i
  PROVE  /\ IsFiniteSet(ProcsOf(a)) /\ IsFiniteSet(Marking(a, i)) /\ IsFiniteSet(Printing(a, i))
         /\ Cardinality(ProcsOf(a)) \in Nat
         /\ Cardinality(Marking(a, i)) \in Nat /\ Cardinality(Printing(a, i)) \in Nat
<1>1. ProcsOf(a) \subseteq Procs /\ Marking(a, i) \subseteq Procs /\ Printing(a, i) \subseteq Procs
  BY DEF ProcsOf, Marking, Printing
<1> QED
  BY <1>1, FS_Subset, FS_CardinalityType

(* What recording offers and reads does to the counts.                     *)
LEMMA AttemptsType ==
  ASSUME TypeOK, NEW a \in Agents, NEW i \in MsgIds
  PROVE  Attempts(a, i) \in Nat
BY DEF TypeOK, Row, Attempts

(* mark_delivered_all() counts one offer of each listed id, no other.      *)
LEMMA AttemptsAfterDelivery ==
  ASSUME TypeOK, NEW p \in Procs, NEW S, MarkDelivered(Owner[p], S),
         NEW a \in Agents, NEW i \in MsgIds
  PROVE  Attempts(a, i)' = Attempts(a, i) + IF a = Owner[p] /\ i \in S THEN 1 ELSE 0
<1>1. reads[a][i] \in [delivered: Stamps, read: Stamps, attempts: Nat]
  BY DEF TypeOK, Row
<1>2. CountOffer(reads[a][i]).attempts = Attempts(a, i) + 1
  BY <1>1 DEF CountOffer, Attempts
<1>3. reads'[a][i] = IF a = Owner[p] /\ i \in S THEN CountOffer(reads[a][i]) ELSE reads[a][i]
  BY DEF MarkDelivered, TypeOK
<1> QED
  BY <1>1, <1>2, <1>3, AttemptsType DEF Attempts

(* An acknowledgement counts no offer.                                     *)
LEMMA AttemptsAfterRead ==
  ASSUME TypeOK, NEW p \in Procs, NEW S, MarkRead(Owner[p], S),
         NEW a \in Agents, NEW i \in MsgIds
  PROVE  Attempts(a, i)' = Attempts(a, i)
<1>1. reads[a][i] \in [delivered: Stamps, read: Stamps, attempts: Nat]
  BY DEF TypeOK, Row
<1>2. StampRead(reads[a][i]).attempts = Attempts(a, i)
  BY <1>1 DEF StampRead, Attempts
<1> QED
  BY <1>2 DEF MarkRead, TypeOK, Attempts

(* A history gains one for each listed id of the process's session.        *)
LEMMA HistoryAfter ==
  ASSUME NEW count \in [Agents -> [MsgIds -> Nat]], NEW p \in Procs, NEW S,
         NEW a \in Agents, NEW i \in MsgIds
  PROVE  AddOne(count, Owner[p], S)[a][i]
           = count[a][i] + IF a = Owner[p] /\ i \in S THEN 1 ELSE 0
BY DEF AddOne

-----------------------------------------------------------------------------
(* Offers name addressees only.  The invariant is inductive relative to    *)
(* TypeOK because it speaks of what is in flight as well as of what was    *)
(* counted: an offer that lands now was selected some steps ago.           *)

(* select() yields mail addressed to the session only.                     *)
LEMMA SelectedAreAddressed ==
  ASSUME TypeOK, NEW a \in Agents, NEW via, NEW proj \in Home[a],
         NEW i \in OfferSet(via, a, proj)
  PROVE  MayReach(a, i)
<1>1. i \in Unread(a, proj)
  BY DEF OfferSet, Rendered, Selected, Deliverable, Undelivered, Offerable
<1> QED
  BY <1>1 DEF Unread, Addressed, MayReach

(* No step makes an offer, at any stage, to somebody else.                 *)
LEMMA AddresseesStep == TypeOK /\ OfferedToAddressees /\ [Next]_vars => OfferedToAddressees'
<1> SUFFICES ASSUME TypeOK, OfferedToAddressees, [Next]_vars,
                    NEW a \in Agents, NEW i \in MsgIds, Touched(a, i)'
             PROVE  MayReach(a, i)'
  BY DEF OfferedToAddressees
<1> SUFFICES MayReach(a, i)
  BY ReachStays
<1>1. ASSUME Touched(a, i) PROVE MayReach(a, i)
  BY <1>1 DEF OfferedToAddressees
<1>2. ASSUME NEW p \in Procs, NEW act, Become(p, act), UNCHANGED shown,
             Attempts(a, i)' = Attempts(a, i), act.pc \notin {"marking", "printing"}
      PROVE  Touched(a, i)
  BY <1>2, InFlight DEF Touched
<1>3. ASSUME NEW p \in Procs, NEW via \in Routes, NEW proj \in Home[Owner[p]], Offer(p, via, proj)
      PROVE  MayReach(a, i)
  <2> DEFINE act == [pc |-> "marking", ids |-> OfferSet(via, Owner[p], proj)]
  <2>1. Attempts(a, i)' = Attempts(a, i) /\ UNCHANGED shown /\ Become(p, act)
    BY <1>3 DEF Offer, Attempts
  <2>2. CASE Owner[p] = a /\ i \in act.ids
    BY <2>2, SelectedAreAddressed
  <2>3. CASE ~(Owner[p] = a /\ i \in act.ids)
    <3>1. Marking(a, i)' \subseteq Marking(a, i) /\ Printing(a, i)' \subseteq Printing(a, i)
      BY <2>1, <2>3, InFlight
    <3> QED
      BY <1>1, <2>1, <3>1 DEF Touched
  <2> QED
    BY <2>2, <2>3
<1>4. ASSUME NEW p \in Procs, Mark(p) PROVE Touched(a, i)
  <2> DEFINE act == [proc[p] EXCEPT !.pc = "printing"]
  <2>1. Become(p, act) /\ MarkDelivered(Owner[p], proc[p].ids) /\ UNCHANGED shown
        /\ proc[p].pc = "marking"
    BY <1>4 DEF Mark
  <2>2. act.ids = proc[p].ids /\ act.pc = "printing"
    BY DEF TypeOK, Activity
  <2>3. CASE Owner[p] = a /\ i \in proc[p].ids
    BY <2>1, <2>3 DEF Touched, Marking, ProcsOf
  <2>4. CASE ~(Owner[p] = a /\ i \in proc[p].ids)
    <3>1. Marking(a, i)' = Marking(a, i) \ {p} /\ Printing(a, i)' = Printing(a, i) \ {p}
      <4> HIDE DEF act
      <4>1. ~(Owner[p] = a /\ act.pc = "marking" /\ i \in act.ids)
            /\ ~(Owner[p] = a /\ act.pc = "printing" /\ i \in act.ids)
        BY <2>2, <2>4
      <4>2. Become(p, act)
        BY <2>1
      <4> QED
        BY <4>1, <4>2, InFlight
    <3>2. Attempts(a, i)' = Attempts(a, i)
      BY <2>1, <2>4, AttemptsAfterDelivery, AttemptsType
    <3> QED
      BY <2>1, <3>1, <3>2 DEF Touched
  <2> QED
    BY <2>3, <2>4
<1>5. ASSUME NEW p \in Procs, Emit(p) PROVE Touched(a, i)
  <2>1. Become(p, Idle) /\ UNCHANGED reads /\ proc[p].pc = "printing"
        /\ shown' = AddOne(shown, Owner[p], proc[p].ids)
    BY <1>5 DEF Emit
  <2>2. CASE Owner[p] = a /\ i \in proc[p].ids
    BY <2>1, <2>2 DEF Touched, Printing, ProcsOf
  <2>3. CASE ~(Owner[p] = a /\ i \in proc[p].ids)
    <3>1. shown'[a][i] = shown[a][i]
      <4>1. shown \in [Agents -> [MsgIds -> Nat]] /\ shown[a][i] \in Nat
        BY DEF TypeOK
      <4> QED
        BY <2>1, <2>3, <4>1, HistoryAfter
    <3>2. Marking(a, i)' \subseteq Marking(a, i) /\ Printing(a, i)' \subseteq Printing(a, i)
      BY <2>1, InFlight DEF Idle
    <3> QED
      BY <2>1, <3>1, <3>2 DEF Touched, Attempts
  <2> QED
    BY <2>2, <2>3
<1>6. ASSUME NEW p \in Procs, AckListed(p) PROVE Touched(a, i)
  <2>1. Attempts(a, i)' = Attempts(a, i)
    BY <1>6, AttemptsAfterRead DEF AckListed
  <2> QED
    BY <1>2, <1>6, <2>1 DEF AckListed, Idle
<1>7. ASSUME NEW p \in Procs, NEW j \in MsgIds, ReadNamed(p, j) PROVE Touched(a, i)
  <2>1. Attempts(a, i)' = Attempts(a, i)
    <3>1. CASE UNCHANGED reads
      BY <3>1 DEF Attempts
    <3>2. CASE MarkRead(Owner[p], {j})
      BY <3>2, AttemptsAfterRead
    <3> QED
      BY <1>7, <3>1, <3>2 DEF ReadNamed
  <2>2. PICK act : Become(p, act) /\ act \in {Idle, [proc[p] EXCEPT !.ids = @ \ {j}]}
    BY <1>7 DEF ReadNamed
  <2>3. act.pc \in {"idle", "reading"}
    <3>1. proc[p] \in Activity /\ proc[p].pc = "reading"
      BY <1>7 DEF ReadNamed, TypeOK
    <3> QED
      BY <2>2, <3>1 DEF Idle, Activity
  <2> QED
    BY <1>2, <1>7, <2>1, <2>2, <2>3 DEF ReadNamed
<1>8. ASSUME NEW p \in Procs, Fail(p) PROVE Touched(a, i)
  BY <1>2, <1>8 DEF Fail, Idle, Attempts
<1>9. ASSUME NEW p \in Procs, NEW proj, ListUnread(p, proj) PROVE Touched(a, i)
  BY <1>2, <1>9 DEF ListUnread, Attempts
<1>10. ASSUME NEW p \in Procs, NEW S, NameIds(p, S) PROVE Touched(a, i)
  BY <1>2, <1>10 DEF NameIds, Attempts
<1>11. CASE UNCHANGED <<reads, proc, shown>>
  BY <1>1, <1>11 DEF Touched, Attempts, Marking, Printing
<1>12. ASSUME NEW p \in Procs, NEW d, NEW target, Send(p, d, target)
       PROVE  UNCHANGED <<reads, proc, shown>>
  BY <1>12 DEF Send
<1>13. ASSUME NEW p \in Procs, NEW proj, NEW j, NEW urgent, NEW target,
              Reply(p, proj, j, urgent, target)
       PROVE  UNCHANGED <<reads, proc, shown>>
  BY <1>13 DEF Reply
<1>14. CASE Tick \/ UNCHANGED vars
  BY <1>11, <1>14 DEF Tick, vars
<1> QED
  BY <1>1, <1>3, <1>4, <1>5, <1>6, <1>7, <1>8, <1>9, <1>10, <1>11, <1>12, <1>13, <1>14
  DEF Next, Step

(* Whatever is counted, in flight or printed for a reader is mail for that *)
(* reader: to it, to everyone or to a project it works in, and never its   *)
(* own.                                                                    *)
THEOREM OffersReachAddresseesOnly == Spec => []OfferedToAddressees
<1>1. Init => OfferedToAddressees
  <2> SUFFICES ASSUME Init, NEW a \in Agents, NEW i \in MsgIds PROVE ~Touched(a, i)
    BY DEF OfferedToAddressees
  <2>1. reads[a][i] = NoRow /\ shown[a][i] = 0
    BY DEF Init
  <2>2. Marking(a, i) = {} /\ Printing(a, i) = {}
    BY DEF Init, Marking, Printing, ProcsOf, Idle
  <2> QED
    BY <2>1, <2>2 DEF Touched, Attempts, NoRow
<1> QED
  BY <1>1, AddresseesStep, TypeCorrect, PTL DEF Spec

-----------------------------------------------------------------------------
(* The back-off.  Committed counts an offer from the moment it is selected *)
(* until long after it was recorded, so recording moves one unit from the  *)
(* selected to the recorded and only a new selection adds one.             *)

\* A process of a begins an offer of message i: the only way Committed grows.
Begins(p, a, i) ==
  /\ p \in ProcsOf(a) /\ p \notin Marking(a, i)
  /\ \E via \in Routes, proj \in Home[a] : i \in OfferSet(via, a, proj)

(* Offers counted and offers selected add up to a number.                  *)
LEMMA CommittedType ==
  ASSUME TypeOK, NEW a \in Agents, NEW i \in MsgIds
  PROVE  Committed(a, i) \in Nat
BY AttemptsType, InFlightFinite DEF Committed

(* A process that drops its selection never adds to that sum.              *)
LEMMA MarkingShrinks ==
  ASSUME TypeOK, NEW a \in Agents, NEW i \in MsgIds, NEW p,
         Marking(a, i)' = Marking(a, i) \ {p}, Attempts(a, i)' = Attempts(a, i)
  PROVE  Committed(a, i)' <= Committed(a, i)
<1>1. Cardinality(Marking(a, i) \ {p}) <= Cardinality(Marking(a, i))
      /\ Cardinality(Marking(a, i) \ {p}) \in Nat
  BY InFlightFinite, FS_Subset, FS_CardinalityType
<1> QED
  BY <1>1, AttemptsType, InFlightFinite DEF Committed

(* The sum grows only when a hook selects, and then by one.                *)
LEMMA CommittedStep ==
  ASSUME TypeOK, [Next]_vars, NEW a \in Agents, NEW i \in MsgIds
  PROVE  \/ Committed(a, i)' <= Committed(a, i)
         \/ /\ \E p \in Procs : Begins(p, a, i)
            /\ Committed(a, i)' = Committed(a, i) + 1
<1> DEFINE Same == Committed(a, i)' <= Committed(a, i)
<1>1. ASSUME NEW p \in Procs, NEW act, Become(p, act), Attempts(a, i)' = Attempts(a, i),
             act.pc # "marking"
      PROVE  Same
  <2>1. Marking(a, i)' = Marking(a, i) \ {p}
    BY <1>1, InFlight
  <2> QED
    BY <1>1, <2>1, MarkingShrinks
<1>2. ASSUME NEW p \in Procs, NEW via \in Routes, NEW proj \in Home[Owner[p]], Offer(p, via, proj)
      PROVE  Same \/ (Begins(p, a, i) /\ Committed(a, i)' = Committed(a, i) + 1)
  <2> DEFINE act == [pc |-> "marking", ids |-> OfferSet(via, Owner[p], proj)]
  <2>1. Attempts(a, i)' = Attempts(a, i) /\ Become(p, act) /\ proc[p].pc = "idle"
    BY <1>2 DEF Offer, Attempts, Starts
  <2>2. p \notin Marking(a, i)
    BY <2>1 DEF Marking
  <2>3. CASE Owner[p] = a /\ i \in act.ids
    <3>1. Marking(a, i)' = Marking(a, i) \cup {p}
      BY <2>1, <2>3, InFlight
    <3>2. Cardinality(Marking(a, i)') = Cardinality(Marking(a, i)) + 1
      BY <2>2, <3>1, InFlightFinite, FS_AddElement
    <3>3. Begins(p, a, i)
      BY <2>2, <2>3 DEF Begins, ProcsOf
    <3> QED
      BY <2>1, <3>2, <3>3, AttemptsType, InFlightFinite DEF Committed
  <2>4. CASE ~(Owner[p] = a /\ i \in act.ids)
    <3>1. Marking(a, i)' = Marking(a, i) \ {p}
      BY <2>1, <2>4, InFlight
    <3> QED
      BY <2>1, <3>1, MarkingShrinks
  <2> QED
    BY <2>3, <2>4
<1>3. ASSUME NEW p \in Procs, Mark(p) PROVE Same
  <2>1. PICK act : act = [proc[p] EXCEPT !.pc = "printing"]
    OBVIOUS
  <2>2. Become(p, act) /\ MarkDelivered(Owner[p], proc[p].ids) /\ proc[p].pc = "marking"
    BY <1>3, <2>1 DEF Mark
  <2>3. act.pc = "printing"
    BY <2>1 DEF TypeOK, Activity
  <2>4. Marking(a, i)' = Marking(a, i) \ {p}
    BY <2>2, <2>3, InFlight
  <2>5. CASE Owner[p] = a /\ i \in proc[p].ids
    <3>1. p \in Marking(a, i)
      BY <2>2, <2>5 DEF Marking, ProcsOf
    <3>2. Cardinality(Marking(a, i)') = Cardinality(Marking(a, i)) - 1
      <4>1. IsFiniteSet(Marking(a, i))
        BY InFlightFinite
      <4>2. Cardinality(Marking(a, i) \ {p}) = Cardinality(Marking(a, i)) - 1
        BY <3>1, <4>1, FS_RemoveElement
      <4> QED
        BY <2>4, <4>2
    <3>3. Attempts(a, i)' = Attempts(a, i) + 1
      BY <2>2, <2>5, AttemptsAfterDelivery
    <3> QED
      BY <3>2, <3>3, AttemptsType, InFlightFinite DEF Committed
  <2>6. CASE ~(Owner[p] = a /\ i \in proc[p].ids)
    <3>1. Attempts(a, i)' = Attempts(a, i)
      BY <2>2, <2>6, AttemptsAfterDelivery, AttemptsType
    <3> QED
      BY <2>4, <3>1, MarkingShrinks
  <2> QED
    BY <2>5, <2>6
<1>4. ASSUME NEW p \in Procs, Emit(p) \/ Fail(p) PROVE Same
  BY <1>1, <1>4 DEF Emit, Fail, Idle, Attempts
<1>5. ASSUME NEW p \in Procs, AckListed(p) PROVE Same
  <2>1. Attempts(a, i)' = Attempts(a, i)
    BY <1>5, AttemptsAfterRead DEF AckListed
  <2> QED
    BY <1>1, <1>5, <2>1 DEF AckListed, Idle
<1>6. ASSUME NEW p \in Procs, NEW j \in MsgIds, ReadNamed(p, j) PROVE Same
  <2>1. Attempts(a, i)' = Attempts(a, i)
    <3>1. CASE UNCHANGED reads
      BY <3>1 DEF Attempts
    <3>2. CASE MarkRead(Owner[p], {j})
      BY <3>2, AttemptsAfterRead
    <3> QED
      BY <1>6, <3>1, <3>2 DEF ReadNamed
  <2>2. PICK act : Become(p, act) /\ act \in {Idle, [proc[p] EXCEPT !.ids = @ \ {j}]}
    BY <1>6 DEF ReadNamed
  <2>3. act.pc \in {"idle", "reading"}
    <3>1. proc[p] \in Activity /\ proc[p].pc = "reading"
      BY <1>6 DEF ReadNamed, TypeOK
    <3> QED
      BY <2>2, <3>1 DEF Idle, Activity
  <2> QED
    BY <1>1, <2>1, <2>2, <2>3
<1>7. ASSUME NEW p \in Procs, NEW proj, ListUnread(p, proj) PROVE Same
  BY <1>1, <1>7 DEF ListUnread, Attempts
<1>8. ASSUME NEW p \in Procs, NEW S, NameIds(p, S) PROVE Same
  BY <1>1, <1>8 DEF NameIds, Attempts
<1>9. CASE UNCHANGED <<reads, proc>>
  BY <1>9, CommittedType DEF Committed, Attempts, Marking
<1>10. ASSUME NEW p \in Procs, NEW d, NEW target, Send(p, d, target)
       PROVE  UNCHANGED <<reads, proc>>
  BY <1>10 DEF Send
<1>11. ASSUME NEW p \in Procs, NEW proj, NEW j, NEW urgent, NEW target,
              Reply(p, proj, j, urgent, target)
       PROVE  UNCHANGED <<reads, proc>>
  BY <1>11 DEF Reply
<1>12. CASE Tick \/ UNCHANGED vars
  BY <1>9, <1>12 DEF Tick, vars
<1> QED
  BY <1>2, <1>3, <1>4, <1>5, <1>6, <1>7, <1>8, <1>9, <1>10, <1>11, <1>12 DEF Next, Step

(* What a selection guarantees at the moment it is made.                   *)
LEMMA BeginsUnderCap ==
  ASSUME TypeOK, NEW a \in Agents, NEW i \in MsgIds, NEW p, Begins(p, a, i)
  PROVE  Attempts(a, i) < MaxOffers /\ ~Acked(a, i) /\ ~Retracted(i) /\ i \in Posted
<1>1. PICK via \in Routes, proj \in Home[a] : i \in OfferSet(via, a, proj)
  BY DEF Begins
<1>2. PICK cap \in {1, MaxOffers} : i \in Offerable(a, proj, cap)
  BY <1>1 DEF OfferSet, Rendered, Selected, Deliverable, Undelivered
<1>3. Attempts(a, i) < OfferCap(cap, proj, i) /\ i \in Unread(a, proj) /\ ~Retracted(i)
  BY <1>2 DEF Offerable
<1>4. OfferCap(cap, proj, i) \in Nat /\ OfferCap(cap, proj, i) <= MaxOffers
  BY <1>2 DEF OfferCap
<1> QED
  BY <1>3, <1>4, AttemptsType DEF Unread

(* No step takes the sum past the cap plus the other processes.            *)
LEMMA BoundedStep == TypeOK /\ OffersBounded /\ [Next]_vars => OffersBounded'
<1> SUFFICES ASSUME TypeOK, OffersBounded, [Next]_vars, NEW a \in Agents, NEW i \in MsgIds
             PROVE  Committed(a, i)' <= MaxOffers + Cardinality(ProcsOf(a)) - 1
  BY DEF OffersBounded, ProcsOf
<1>1. Committed(a, i) <= MaxOffers + Cardinality(ProcsOf(a)) - 1
  BY DEF OffersBounded
<1>2. Committed(a, i) \in Nat /\ Cardinality(ProcsOf(a)) \in Nat
  BY CommittedType, InFlightFinite
<1>3. ASSUME Committed(a, i)' <= Committed(a, i)
      PROVE  Committed(a, i)' <= MaxOffers + Cardinality(ProcsOf(a)) - 1
  <2>1. TypeOK'
    BY TypeStep
  <2>2. Committed(a, i)' \in Int
    <3>1. Attempts(a, i)' \in Nat
      BY <2>1 DEF TypeOK, Row, Attempts
    <3>2. Cardinality(Marking(a, i)') \in Nat
      <4>1. Marking(a, i)' \subseteq Procs
        BY DEF Marking, ProcsOf
      <4> QED
        BY <4>1, FS_Subset, FS_CardinalityType
    <3> QED
      BY <3>1, <3>2 DEF Committed
  <2> QED
    BY <1>1, <1>2, <1>3, <2>2
<1>4. ASSUME NEW p \in Procs, Begins(p, a, i), Committed(a, i)' = Committed(a, i) + 1
      PROVE  Committed(a, i)' <= MaxOffers + Cardinality(ProcsOf(a)) - 1
  <2>1. Attempts(a, i) \in Nat /\ Attempts(a, i) <= MaxOffers - 1
    BY <1>4, BeginsUnderCap, AttemptsType
  <2>2. Cardinality(Marking(a, i)) <= Cardinality(ProcsOf(a)) - 1
    <3>1. p \in ProcsOf(a) /\ Marking(a, i) \subseteq ProcsOf(a) \ {p}
      BY <1>4 DEF Begins, Marking
    <3>2. Cardinality(ProcsOf(a) \ {p}) = Cardinality(ProcsOf(a)) - 1
          /\ IsFiniteSet(ProcsOf(a) \ {p})
      BY <3>1, InFlightFinite, FS_RemoveElement
    <3> QED
      BY <3>1, <3>2, FS_Subset
  <2> QED
    BY <1>2, <1>4, <2>1, <2>2, InFlightFinite DEF Committed
<1> QED
  BY <1>3, <1>4, CommittedStep

(* Whatever the interleaving of a session's processes, a message is placed *)
(* in front of it at most MAX_OFFERS times plus once for each further      *)
(* process that had selected it before the last offer was recorded.        *)
THEOREM BackOffHolds == Spec => []OffersBounded
<1>1. Init => OffersBounded
  <2> SUFFICES ASSUME Init, NEW a \in Agents, NEW i \in MsgIds
               PROVE  Committed(a, i) <= MaxOffers + Cardinality(ProcsOf(a)) - 1
    BY DEF OffersBounded
  <2>1. Attempts(a, i) = 0
    BY DEF Init, Attempts, NoRow
  <2>2. Marking(a, i) = {}
    BY DEF Init, Marking, ProcsOf, Idle
  <2> QED
    BY <2>1, <2>2, FS_EmptySet, InFlightFinite DEF Committed
<1> QED
  BY <1>1, BoundedStep, TypeCorrect, PTL DEF Spec

(* A message acknowledged or retracted is left alone: no step ever begins  *)
(* another offer of it, for any reader and in every interleaving.          *)
THEOREM SettledMailStays == Spec => SettledMailIsLeftAlone
<1>1. TypeOK /\ [Next]_vars =>
        [\A a \in Agents, i \in MsgIds :
           (i \in Posted /\ (Acked(a, i) \/ Retracted(i)))
             => Committed(a, i)' <= Committed(a, i)]_vars
  BY CommittedStep, BeginsUnderCap
<1> QED
  BY <1>1, TypeCorrect, PTL DEF Spec, SettledMailIsLeftAlone

-----------------------------------------------------------------------------
(* Who acknowledges.                                                       *)

(* mark_read() stamps the ids it is given, and a stamp stays.              *)
LEMMA AckedAfterRead ==
  ASSUME TypeOK, NEW p \in Procs, NEW S, MarkRead(Owner[p], S),
         NEW a \in Agents, NEW i \in MsgIds
  PROVE  Acked(a, i)' <=> Acked(a, i) \/ (a = Owner[p] /\ i \in S)
<1>1. reads[a][i] \in [delivered: Stamps, read: Stamps, attempts: Nat] /\ now # Null
  BY DEF TypeOK, Row, Null
<1>2. StampRead(reads[a][i]).read = FirstStamp(reads[a][i].read)
  BY <1>1 DEF StampRead
<1>3. reads'[a][i] = IF a = Owner[p] /\ i \in S THEN StampRead(reads[a][i]) ELSE reads[a][i]
  BY DEF MarkRead, TypeOK
<1> QED
  BY <1>1, <1>2, <1>3 DEF Acked, FirstStamp

(* mark_delivered_all() leaves every acknowledgement as it is.             *)
LEMMA AckedAfterDelivery ==
  ASSUME TypeOK, NEW p \in Procs, NEW S, MarkDelivered(Owner[p], S),
         NEW a \in Agents, NEW i \in MsgIds
  PROVE  Acked(a, i)' <=> Acked(a, i)
<1>1. CountOffer(reads[a][i]).read = reads[a][i].read
  BY DEF CountOffer
<1>2. reads'[a][i] = IF a = Owner[p] /\ i \in S THEN CountOffer(reads[a][i]) ELSE reads[a][i]
  BY DEF MarkDelivered, TypeOK
<1> QED
  BY <1>1, <1>2 DEF Acked

(* Process p acknowledges the ids S, which it had named: nothing else of   *)
(* the board changes.                                                      *)
Acknowledges(p, S) ==
  /\ MarkRead(Owner[p], S)
  /\ UNCHANGED messages
  /\ \/ proc[p].pc = "acking" /\ S = proc[p].ids
     \/ proc[p].pc = "reading" /\ S \subseteq proc[p].ids \cap Posted

(* Process p records the offer it had selected.                            *)
Records(p) ==
  proc[p].pc = "marking" /\ MarkDelivered(Owner[p], proc[p].ids) /\ UNCHANGED messages

(* Message d is inserted, retracting one of its own author's at most.      *)
Inserts(d, target) ==
  MayRetract(d.from, target) /\ Insert(d, target) /\ UNCHANGED reads

(* The statements that change a table, whoever runs them.                  *)
LEMMA BoardStep ==
  ASSUME [Next]_vars
  PROVE  \/ UNCHANGED <<messages, reads>>
         \/ \E d, target : Inserts(d, target)
         \/ \E p \in Procs : Records(p)
         \/ \E p \in Procs : \E S : Acknowledges(p, S)
<1> DEFINE Goal == \/ UNCHANGED <<messages, reads>>
                   \/ \E d, target : Inserts(d, target)
                   \/ \E p \in Procs : Records(p)
                   \/ \E p \in Procs : \E S : Acknowledges(p, S)
<1>1. ASSUME NEW p \in Procs, NEW d, NEW target, Send(p, d, target) PROVE Goal
  BY <1>1 DEF Send, Inserts
<1>2. ASSUME NEW p \in Procs, NEW proj, NEW i, NEW urgent, NEW target,
             Reply(p, proj, i, urgent, target)
      PROVE  Goal
  <2> DEFINE d == [from |-> Owner[p], fromProj |-> proj, to |-> messages[i].from,
                   key |-> NoKey, urgent |-> urgent]
  <2>1. MayRetract(d.from, target) /\ Insert(d, target) /\ UNCHANGED reads
    BY <1>2 DEF Reply
  <2> QED
    BY <2>1 DEF Inserts
<1>3. ASSUME NEW p \in Procs, Mark(p) PROVE Goal
  BY <1>3 DEF Mark, Records
<1>4. ASSUME NEW p \in Procs, AckListed(p) PROVE Goal
  BY <1>4 DEF AckListed, Acknowledges
<1>5. ASSUME NEW p \in Procs, NEW i, ReadNamed(p, i) PROVE Goal
  <2>1. CASE i \in Posted
    BY <1>5, <2>1 DEF ReadNamed, Acknowledges
  <2>2. CASE i \notin Posted
    BY <1>5, <2>2 DEF ReadNamed
  <2> QED
    BY <2>1, <2>2
<1>6. ASSUME NEW p \in Procs, Step(p) PROVE Goal
  <2>1. ASSUME NEW proj, ListUnread(p, proj) PROVE UNCHANGED <<messages, reads>>
    BY <2>1, Zenon DEF ListUnread
  <2>2. ASSUME NEW via, NEW proj, Offer(p, via, proj) PROVE UNCHANGED <<messages, reads>>
    BY <2>2 DEF Offer
  <2>3. ASSUME NEW S, NameIds(p, S) PROVE UNCHANGED <<messages, reads>>
    BY <2>3 DEF NameIds
  <2> QED
    BY <1>1, <1>2, <1>3, <1>4, <1>5, <1>6, <2>1, <2>2, <2>3 DEF Step, Emit, Fail
<1> QED
  BY <1>6 DEF Next, Tick, vars

(* An acknowledgement comes only from a process of the reader that had     *)
(* named the message: what arrives after `read --all` listed stays unread. *)
THEOREM AckedMailWasNamed == Spec => OnlyNamedMailIsAcked
<1>1. ASSUME TypeOK, [Next]_vars, NEW a \in Agents, NEW i \in MsgIds, ~Acked(a, i), Acked(a, i)'
      PROVE  \E p \in ProcsOf(a) : proc[p].pc \in {"acking", "reading"} /\ i \in proc[p].ids
  <2>1. reads' # reads
    BY <1>1 DEF Acked
  <2>2. ASSUME NEW d, NEW target, Inserts(d, target) PROVE FALSE
    BY <2>1, <2>2 DEF Inserts
  <2>3. ASSUME NEW p \in Procs, Records(p) PROVE FALSE
    BY <1>1, <2>3, AckedAfterDelivery DEF Records
  <2>4. PICK p \in Procs : \E S : Acknowledges(p, S)
    BY <1>1, <2>1, <2>2, <2>3, BoardStep
  <2>5. PICK S : Acknowledges(p, S)
    BY <2>4
  <2>6. a = Owner[p] /\ i \in S
    BY <1>1, <2>5, AckedAfterRead DEF Acknowledges
  <2> QED
    BY <2>5, <2>6 DEF Acknowledges, ProcsOf
<1>2. TypeOK /\ [Next]_vars =>
        [\A a \in Agents, i \in MsgIds :
           (~Acked(a, i) /\ Acked(a, i)') =>
             \E p \in ProcsOf(a) : proc[p].pc \in {"acking", "reading"} /\ i \in proc[p].ids]_vars
  BY <1>1
<1> QED
  BY <1>2, TypeCorrect, PTL DEF Spec, OnlyNamedMailIsAcked

-----------------------------------------------------------------------------
(* Idempotent sends.                                                       *)

(* A key on the board carries the session that sent it.                    *)
KeysAreScoped ==
  \A i \in Posted : messages[i].ext # NoKey => messages[i].ext[1] = messages[i].from

(* The message of a's send with key k, as KeyedSendsAreOnTheBoard counts   *)
(* them.                                                                   *)
Mine(a, k) == {i \in Posted : messages[i].from = a /\ messages[i].ext = ScopedExtId(a, k)}

LEMMA MineIsFinite ==
  ASSUME TypeOK, NEW a, NEW k
  PROVE  IsFiniteSet(Mine(a, k)) /\ (Cardinality(Mine(a, k)) = 0 <=> Mine(a, k) = {})
<1>1. Posted = 1..Len(messages) /\ 1 \in Int /\ Len(messages) \in Int
  BY DEF Posted, TypeOK
<1>2. IsFiniteSet(Posted)
  BY <1>1, FS_Interval
<1>3. Mine(a, k) \subseteq Posted
  BY DEF Mine
<1>4. IsFiniteSet(Mine(a, k))
  BY <1>2, <1>3, FS_Subset
<1> QED
  BY <1>4, FS_EmptySet

(* Where the new row of send() and reply() is, and what it says.           *)
LEMMA AfterInsert ==
  ASSUME TypeOK, NEW d, NEW target, Insert(d, target)
  PROVE  /\ Posted' = Posted \cup {Len(messages) + 1}
         /\ Len(messages) + 1 \notin Posted
         /\ \A i \in Posted : messages'[i] = messages[i]
         /\ LET new == messages'[Len(messages) + 1] IN
               /\ new.from = d.from /\ new.ext = ScopedExtId(d.from, d.key)
               /\ new.supersedes = target
<1> DEFINE m == [from |-> d.from, fromProj |-> d.fromProj, to |-> d.to,
                 ext |-> ScopedExtId(d.from, d.key), urgent |-> d.urgent,
                 supersedes |-> target, ts |-> now]
<1>1. messages' = Append(messages, m)
  BY DEF Insert
<1>2. m.from = d.from /\ m.ext = ScopedExtId(d.from, d.key) /\ m.supersedes = target
  OBVIOUS
<1> HIDE DEF m
<1>3. /\ Len(messages') = Len(messages) + 1 /\ messages'[Len(messages) + 1] = m
      /\ \A i \in 1..Len(messages) : messages'[i] = messages[i]
      /\ DOMAIN messages = 1..Len(messages) /\ DOMAIN messages' = 1..Len(messages')
      /\ Len(messages) \in Nat
  BY <1>1 DEF TypeOK
<1> QED
  BY <1>2, <1>3 DEF Posted

(* A scoped key is NULL exactly when the caller gave none.                 *)
LEMMA ScopedKeys ==
  ASSUME NEW a \in Agents, NEW key \in Keys \cup {NoKey}
  PROVE  /\ key # NoKey => ScopedExtId(a, key) = <<a, key>> /\ <<a, key>> # NoKey
         /\ key = NoKey => ScopedExtId(a, key) = NoKey
BY DEF ScopedExtId

LEMMA ScopedStep == TypeOK /\ KeysAreScoped /\ [Next]_vars => KeysAreScoped'
<1> SUFFICES ASSUME TypeOK, KeysAreScoped, [Next]_vars PROVE KeysAreScoped'
  OBVIOUS
<1>1. CASE UNCHANGED messages
  BY <1>1 DEF KeysAreScoped, Posted
<1>2. ASSUME NEW d, NEW target, Insert(d, target) PROVE KeysAreScoped'
  <2>1. ScopedExtId(d.from, d.key) # NoKey => ScopedExtId(d.from, d.key)[1] = d.from
    BY DEF ScopedExtId
  <2> QED
    BY <1>2, <2>1, AfterInsert DEF KeysAreScoped
<1> QED
  BY <1>1, <1>2, BoardStep DEF Inserts, Records, Acknowledges

(* A send leaves one message of its key, its own or the one it found.      *)
LEMMA KeyedSend ==
  ASSUME TypeOK, KeysAreScoped, NEW p \in Procs, NEW d \in Drafts, NEW target, Send(p, d, target),
         NEW a \in Agents, NEW k \in Keys,
         Cardinality(Mine(a, k)) = IF <<a, k>> \in sent THEN 1 ELSE 0
  PROVE  Cardinality(Mine(a, k)') = IF <<a, k>> \in sent' THEN 1 ELSE 0
<1>1. /\ d.from \in Agents /\ d.key \in Keys \cup {NoKey}
      /\ ScopedExtId(a, k) = <<a, k>> /\ <<a, k>> # NoKey
  BY ScopedKeys DEF Draft
<1> DEFINE It == d.from = a /\ d.key = k
<1>2. ScopedExtId(d.from, d.key) = <<a, k>> <=> It
  BY <1>1, ScopedKeys
<1>3. <<a, k>> \in sent' <=> It \/ <<a, k>> \in sent
  BY <1>1 DEF Send
<1>4. CASE Duplicate(ScopedExtId(d.from, d.key)) /\ UNCHANGED messages
  <2>1. Mine(a, k)' = Mine(a, k)
    BY <1>4 DEF Mine, Posted
  <2>2. CASE It
    <3>1. PICK i \in Posted : messages[i].ext = <<a, k>>
      BY <1>2, <1>4, <2>2 DEF Duplicate
    <3>2. i \in Mine(a, k)
      BY <1>1, <3>1 DEF KeysAreScoped, Mine
    <3>3. <<a, k>> \in sent
      BY <3>2, MineIsFinite
    <3> QED
      BY <1>3, <2>1, <3>3
  <2> QED
    BY <1>3, <2>1, <2>2
<1>5. CASE ~Duplicate(ScopedExtId(d.from, d.key)) /\ Insert(d, target)
  <2> DEFINE n == Len(messages) + 1
  <2>1. Mine(a, k)' = Mine(a, k) \cup IF It THEN {n} ELSE {}
    BY <1>1, <1>2, <1>5, AfterInsert DEF Mine, ScopedExtId
  <2>2. CASE It
    <3>1. Mine(a, k) = {}
      BY <1>1, <1>2, <1>5, <2>2 DEF Duplicate, Mine
    <3>2. Mine(a, k)' = {n}
      BY <2>1, <2>2, <3>1
    <3> HIDE DEF n
    <3> QED
      BY <1>3, <2>2, <3>2, FS_Singleton
  <2> QED
    BY <1>3, <2>1, <2>2
<1> QED
  BY <1>4, <1>5 DEF Send

(* A reply has no key, so it is nobody's keyed send.                       *)
LEMMA KeyedReply ==
  ASSUME TypeOK, NEW p \in Procs, NEW proj, NEW i, NEW urgent, NEW target,
         Reply(p, proj, i, urgent, target), NEW a \in Agents, NEW k \in Keys
  PROVE  Mine(a, k)' = Mine(a, k)
<1> DEFINE d == [from |-> Owner[p], fromProj |-> proj, to |-> messages[i].from,
                 key |-> NoKey, urgent |-> urgent]
<1>1. Insert(d, target) /\ ScopedExtId(d.from, d.key) = NoKey
  BY DEF Reply, ScopedExtId
<1>2. ScopedExtId(a, k) = <<a, k>> /\ <<a, k>> # NoKey
  BY ScopedKeys
<1> HIDE DEF d
<1> QED
  BY <1>1, <1>2, AfterInsert DEF Mine, ScopedExtId

LEMMA KeyedStep ==
  TypeOK /\ KeysAreScoped /\ KeyedSendsAreOnTheBoard /\ [Next]_vars => KeyedSendsAreOnTheBoard'
<1> SUFFICES ASSUME TypeOK, KeysAreScoped, KeyedSendsAreOnTheBoard, [Next]_vars,
                    NEW a \in Agents, NEW k \in Keys
             PROVE  Cardinality(Mine(a, k)') = IF <<a, k>> \in sent' THEN 1 ELSE 0
  BY Zenon DEF KeyedSendsAreOnTheBoard, Mine
<1>1. Cardinality(Mine(a, k)) = IF <<a, k>> \in sent THEN 1 ELSE 0
  BY DEF KeyedSendsAreOnTheBoard, Mine
<1>2. CASE UNCHANGED <<messages, sent>>
  BY <1>1, <1>2 DEF Mine, Posted
<1>3. ASSUME NEW p \in Procs, NEW proj, NEW i, NEW urgent, NEW target,
             Reply(p, proj, i, urgent, target)
      PROVE  Mine(a, k)' = Mine(a, k) /\ UNCHANGED sent
  BY <1>3, KeyedReply DEF Reply
<1>4. ASSUME NEW p \in Procs, NEW proj, ListUnread(p, proj) PROVE UNCHANGED <<messages, sent>>
  BY <1>4, Zenon DEF ListUnread
<1>5. ASSUME NEW p \in Procs, NEW via, NEW proj, Offer(p, via, proj)
      PROVE  UNCHANGED <<messages, sent>>
  BY <1>5 DEF Offer
<1>6. ASSUME NEW p \in Procs,
             Mark(p) \/ Emit(p) \/ AckListed(p) \/ Fail(p)
               \/ (\E S : NameIds(p, S)) \/ (\E i : ReadNamed(p, i))
      PROVE  UNCHANGED <<messages, sent>>
  BY <1>6 DEF Mark, Emit, AckListed, Fail, NameIds, ReadNamed
<1>7. ASSUME NEW p \in Procs, Step(p)
      PROVE  \/ UNCHANGED <<messages, sent>>
             \/ Mine(a, k)' = Mine(a, k) /\ UNCHANGED sent
             \/ \E d \in Drafts : \E target : Send(p, d, target)
  BY <1>3, <1>4, <1>5, <1>6, <1>7 DEF Step
<1>8. \/ UNCHANGED <<messages, sent>>
      \/ Mine(a, k)' = Mine(a, k) /\ UNCHANGED sent
      \/ \E p \in Procs, d \in Drafts : \E target : Send(p, d, target)
  BY <1>7 DEF Next, Tick, vars
<1> QED
  BY <1>1, <1>2, <1>8, KeyedSend

(* A keyed send that returned an id left exactly one message on the board, *)
(* its caller's: no resend doubles it and no other session's equal key     *)
(* swallows it, for any number of sessions, keys and interleaved sends.    *)
THEOREM SendsAreIdempotent == Spec => []KeyedSendsAreOnTheBoard
<1>1. Init => KeysAreScoped /\ KeyedSendsAreOnTheBoard
  <2>1. ASSUME Init PROVE Posted = {} /\ sent = {}
    BY <2>1 DEF Init, Posted
  <2> QED
    BY <2>1, FS_EmptySet DEF KeysAreScoped, KeyedSendsAreOnTheBoard
<1> QED
  BY <1>1, ScopedStep, KeyedStep, TypeCorrect, PTL DEF Spec

-----------------------------------------------------------------------------
(* The processes implement the board.                                      *)

(* What `read --all` listed is on the board when it acknowledges.          *)
ListedIsPosted == \A p \in Procs : proc[p].pc = "acking" => proc[p].ids \subseteq Posted

LEMMA ListedStep == TypeOK /\ ListedIsPosted /\ [Next]_vars => ListedIsPosted'
<1> SUFFICES ASSUME TypeOK, ListedIsPosted, [Next]_vars, NEW q \in Procs,
                    proc'[q].pc = "acking"
             PROVE  proc'[q].ids \subseteq Posted'
  BY DEF ListedIsPosted
<1>1. Posted \subseteq Posted'
  BY MessagesStay
<1>2. CASE proc'[q] = proc[q]
  BY <1>1, <1>2 DEF ListedIsPosted
<1>3. ASSUME NEW p \in Procs, NEW act, Become(p, act)
      PROVE  proc'[q] = IF q = p THEN act ELSE proc[q]
  BY <1>3 DEF Become, TypeOK
<1>4. ASSUME NEW p \in Procs, NEW proj, ListUnread(p, proj)
      PROVE  proc'[q] = proc[q] \/ proc'[q].ids \subseteq Posted
  <2>1. Become(p, [pc |-> "acking", ids |-> Unread(Owner[p], proj)])
    BY <1>4, Zenon DEF ListUnread
  <2>2. Unread(Owner[p], proj) \subseteq Posted
    BY DEF Unread
  <2> QED
    BY <1>3, <2>1, <2>2
<1>5. ASSUME NEW p \in Procs, NEW via, NEW proj, Offer(p, via, proj) PROVE proc'[q] = proc[q]
  BY <1>3, <1>5 DEF Offer
<1>6. ASSUME NEW p \in Procs, Mark(p) PROVE proc'[q] = proc[q]
  <2>1. [proc[p] EXCEPT !.pc = "printing"].pc = "printing"
    BY DEF TypeOK, Activity
  <2> QED
    BY <1>3, <1>6, <2>1 DEF Mark
<1>7. ASSUME NEW p \in Procs, Emit(p) \/ AckListed(p) \/ Fail(p) PROVE proc'[q] = proc[q]
  BY <1>3, <1>7 DEF Emit, AckListed, Fail, Idle
<1>8. ASSUME NEW p \in Procs, NEW S, NameIds(p, S) PROVE proc'[q] = proc[q]
  BY <1>3, <1>8 DEF NameIds
<1>9. ASSUME NEW p \in Procs, NEW i, ReadNamed(p, i) PROVE proc'[q] = proc[q]
  <2>1. [proc[p] EXCEPT !.ids = @ \ {i}].pc = "reading" /\ Idle.pc = "idle"
    BY <1>9 DEF ReadNamed, TypeOK, Activity, Idle
  <2>2. Become(p, Idle) \/ Become(p, [proc[p] EXCEPT !.ids = @ \ {i}])
    BY <1>9, Zenon DEF ReadNamed
  <2>3. CASE q = p
    BY <1>3, <2>1, <2>2, <2>3
  <2>4. CASE q # p
    BY <1>3, <2>2, <2>4
  <2> QED
    BY <2>3, <2>4
<1>10. ASSUME NEW p \in Procs,
              (\E d, target : Send(p, d, target))
                \/ (\E proj, i, urgent, target : Reply(p, proj, i, urgent, target))
       PROVE  proc'[q] = proc[q]
  BY <1>10 DEF Send, Reply
<1>11. ASSUME NEW p \in Procs, Step(p)
       PROVE  proc'[q] = proc[q] \/ proc'[q].ids \subseteq Posted
  BY <1>4, <1>5, <1>6, <1>7, <1>8, <1>9, <1>10, <1>11 DEF Step
<1> QED
  BY <1>1, <1>2, <1>11 DEF Next, Tick, vars

\* The two counts that BoardLog keeps for each reader.
Counts == [a \in Agents |-> [i \in MsgIds |-> Attempts(a, i)]]
Acks   == [a \in Agents |-> {i \in MsgIds : Acked(a, i)}]

LEMMA InsertIsAPost ==
  ASSUME TypeOK, NEW d, NEW target, Inserts(d, target)
  PROVE  Board!Post
<1> DEFINE n == Len(messages) + 1
<1>1. /\ Posted = 1..Len(messages) /\ Posted' = 1..Len(messages') /\ Len(messages) \in Nat
      /\ Len(messages') = n
  <2>1. ASSUME NEW m, messages' = Append(messages, m)
        PROVE  Posted' = 1..Len(messages') /\ Len(messages') = Len(messages) + 1
    BY <2>1 DEF Posted, TypeOK
  <2> QED
    BY <2>1 DEF Inserts, Insert, Posted, TypeOK
<1>2. /\ \A i \in Posted : messages'[i] = messages[i]
      /\ messages'[n].from = d.from /\ messages'[n].supersedes = target
  BY AfterInsert DEF Inserts
<1>3. target # 0 => target \in Posted /\ messages[target].from = d.from
  BY DEF Inserts, MayRetract
<1>4. UNCHANGED <<Counts, Acks>>
  BY DEF Inserts, Counts, Acks, Attempts, Acked
<1> QED
  BY <1>1, <1>2, <1>3, <1>4 DEF Board!Post, Counts, Acks

LEMMA RecordIsAnOffer ==
  ASSUME TypeOK, OfferedToAddressees, NEW p \in Procs, Records(p)
  PROVE  Board!OfferTo(Owner[p])
<1> DEFINE S == proc[p].ids
           o == Owner[p]
<1>1. S \in SUBSET MsgIds /\ o \in Agents
  BY DEF TypeOK, Activity
<1>2. ASSUME NEW i \in S PROVE Board!MayReach(o, i)
  <2>1. p \in Marking(o, i)
    BY DEF Records, Marking, ProcsOf
  <2>2. MayReach(o, i)
    BY <1>1, <2>1 DEF OfferedToAddressees, Touched
  <2> QED
    BY <2>2 DEF MayReach, Board!MayReach, Posted, TypeOK
<1>3. ASSUME NEW a \in Agents, NEW i \in MsgIds
      PROVE  /\ Attempts(a, i)' = Attempts(a, i) + IF a = o /\ i \in S THEN 1 ELSE 0
             /\ Acked(a, i)' <=> Acked(a, i)
  BY AttemptsAfterDelivery, AckedAfterDelivery DEF Records
<1>4. Acks' = Acks
  BY <1>3 DEF Acks
<1>5. Counts' = [Counts EXCEPT ![o] =
                    [i \in MsgIds |-> Counts[o][i] + IF i \in S THEN 1 ELSE 0]]
  <2>1. ASSUME NEW a \in Agents, a # o PROVE Counts'[a] = Counts[a]
    <3>1. \A i \in MsgIds : Attempts(a, i)' = Attempts(a, i)
      BY <1>3, <2>1, AttemptsType
    <3> QED
      BY <3>1 DEF Counts
  <2>2. Counts'[o] = [i \in MsgIds |-> Counts[o][i] + IF i \in S THEN 1 ELSE 0]
    BY <1>1, <1>3 DEF Counts
  <2> QED
    BY <1>1, <2>1, <2>2 DEF Counts
<1>6. \E T \in SUBSET Board!MsgIds :
        /\ \A i \in T : Board!MayReach(o, i)
        /\ Counts' = [Counts EXCEPT ![o] =
                         [i \in Board!MsgIds |-> Counts[o][i] + IF i \in T THEN 1 ELSE 0]]
  <2>1. MsgIds = Board!MsgIds
    BY DEF MsgIds, Board!MsgIds
  <2>2. S \in SUBSET Board!MsgIds
    BY <1>1, <2>1
  <2> QED
    BY <1>2, <1>5, <2>1, <2>2
<1>7. UNCHANGED <<messages, Acks>>
  BY <1>4 DEF Records
<1> QED
  BY <1>6, <1>7, Zenon DEF Board!OfferTo, Counts, Acks

LEMMA AckIsAnAck ==
  ASSUME TypeOK, ListedIsPosted, NEW p \in Procs, NEW S, Acknowledges(p, S)
  PROVE  Board!AckBy(Owner[p])
<1> DEFINE o == Owner[p]
<1>1. /\ S \in SUBSET (1..Len(messages)) /\ o \in Agents
      /\ 1..Len(messages) \subseteq MsgIds
  BY DEF Acknowledges, ListedIsPosted, Posted, TypeOK, MsgIds
<1>2. ASSUME NEW a \in Agents, NEW i \in MsgIds
      PROVE  /\ Attempts(a, i)' = Attempts(a, i)
             /\ Acked(a, i)' <=> Acked(a, i) \/ (a = o /\ i \in S)
  BY AttemptsAfterRead, AckedAfterRead DEF Acknowledges
<1>3. Counts' = Counts
  BY <1>2 DEF Counts
<1>4. Acks' = [Acks EXCEPT ![o] = @ \cup S]
  <2>1. ASSUME NEW a \in Agents, a # o PROVE Acks'[a] = Acks[a]
    BY <1>2, <2>1 DEF Acks
  <2>2. Acks'[o] = Acks[o] \cup S
    BY <1>1, <1>2 DEF Acks
  <2> QED
    BY <1>1, <2>1, <2>2 DEF Acks
<1> QED
  BY <1>1, <1>3, <1>4 DEF Board!AckBy, Counts, Acks, Acknowledges

(* Whatever the processes do, and wherever they die, the board keeps the   *)
(* promise of BoardLog: an append-only log, offers that only grow and only *)
(* for mail the reader may see, acknowledgements that are never taken      *)
(* back.                                                                   *)
THEOREM MailImplementsBoardLog == Spec => BoardSpec
<1>1. Init => Board!Init
  <2> SUFFICES ASSUME Init PROVE Board!Init
    OBVIOUS
  <2>1. \A a \in Agents, i \in MsgIds : Attempts(a, i) = 0 /\ ~Acked(a, i)
    BY DEF Init, Attempts, Acked, NoRow
  <2> QED
    BY <2>1 DEF Init, Board!Init, Board!MsgIds, MsgIds
<1>2. TypeOK /\ OfferedToAddressees /\ ListedIsPosted /\ [Next]_vars => [Board!Next]_(Board!vars)
  <2> SUFFICES ASSUME TypeOK, OfferedToAddressees, ListedIsPosted, [Next]_vars
               PROVE  Board!Next \/ UNCHANGED Board!vars
    OBVIOUS
  <2>1. CASE UNCHANGED <<messages, reads>>
    BY <2>1 DEF Board!vars, Attempts, Acked
  <2>2. ASSUME NEW d, NEW target, Inserts(d, target) PROVE Board!Next
    BY <2>2, InsertIsAPost DEF Board!Next
  <2>3. ASSUME NEW p \in Procs, Records(p) PROVE Board!Next
    BY <2>3, RecordIsAnOffer DEF Board!Next
  <2>4. ASSUME NEW p \in Procs, NEW S, Acknowledges(p, S) PROVE Board!Next
    BY <2>4, AckIsAnAck DEF Board!Next
  <2> QED
    BY <2>1, <2>2, <2>3, <2>4, BoardStep
<1>3. Init => ListedIsPosted
  BY DEF Init, ListedIsPosted, Idle
<1>4. Spec => []ListedIsPosted
  BY <1>3, ListedStep, TypeCorrect, PTL DEF Spec
<1> QED
  BY <1>1, <1>2, <1>4, TypeCorrect, OffersReachAddresseesOnly, PTL DEF Spec, BoardSpec, Board!Spec

-----------------------------------------------------------------------------
(* That the counts the board keeps are true of what happened: every offer  *)
(* is accounted for, and with that a sender's receipt adds up.             *)

(* The counts of one message for one reader are numbers.                   *)
LEMMA CountsType ==
  ASSUME TypeOK, NEW a \in Agents, NEW i \in MsgIds
  PROVE  /\ Attempts(a, i) \in Nat /\ shown[a][i] \in Nat /\ lost[a][i] \in Nat
         /\ Cardinality(Printing(a, i)) \in Nat
BY AttemptsType, InFlightFinite DEF TypeOK

(* What is being printed after a process turned to something else.         *)
LEMMA PrintingAfter ==
  ASSUME TypeOK, NEW p \in Procs, NEW act, Become(p, act),
         NEW a \in Agents, NEW i \in MsgIds
  PROVE  LET prints == Owner[p] = a /\ act.pc = "printing" /\ i \in act.ids IN
         Cardinality(Printing(a, i)') =
           Cardinality(Printing(a, i)) - (IF p \in Printing(a, i) THEN 1 ELSE 0)
                                       + (IF prints THEN 1 ELSE 0)
<1> DEFINE prints == Owner[p] = a /\ act.pc = "printing" /\ i \in act.ids
<1>1. Printing(a, i)' = IF prints THEN (Printing(a, i) \ {p}) \cup {p} ELSE Printing(a, i) \ {p}
  BY InFlight
<1>2. IsFiniteSet(Printing(a, i)) /\ Cardinality(Printing(a, i)) \in Nat
  BY InFlightFinite
<1> HIDE DEF prints
<1> DEFINE rest == Printing(a, i) \ {p}
<1>3. /\ IsFiniteSet(rest)
      /\ Cardinality(rest) = IF p \in Printing(a, i) THEN Cardinality(Printing(a, i)) - 1
                                                     ELSE Cardinality(Printing(a, i))
  BY <1>2, FS_RemoveElement
<1>4. p \notin rest
  OBVIOUS
<1>5. Cardinality(rest \cup {p}) = Cardinality(rest) + 1
  <2> HIDE DEF rest
  <2> QED
    BY <1>3, <1>4, FS_AddElement
<1>6. Cardinality(rest) \in Nat
  BY <1>3, FS_CardinalityType
<1>7. Cardinality(Printing(a, i)') = Cardinality(rest) + (IF prints THEN 1 ELSE 0)
  BY <1>1, <1>5, <1>6
<1> QED
  BY <1>2, <1>3, <1>7 DEF prints

(* A process that neither prints nor begins to leaves the printing alone.  *)
LEMMA PrintingStays ==
  ASSUME TypeOK, NEW p \in Procs, NEW act, Become(p, act),
         proc[p].pc # "printing", act.pc # "printing",
         NEW a \in Agents, NEW i \in MsgIds
  PROVE  Cardinality(Printing(a, i)') = Cardinality(Printing(a, i))
<1>1. p \notin Printing(a, i)
  BY DEF Printing
<1> QED
  BY <1>1, PrintingAfter, InFlightFinite

-----------------------------------------------------------------------------
(* An offer is counted as it is handed to the printer, and leaves it        *)
(* printed or lost.                                                         *)
LEMMA AccountsStep == TypeOK /\ OffersAccounted /\ [Next]_vars => OffersAccounted'
<1> SUFFICES ASSUME TypeOK, OffersAccounted, [Next]_vars, NEW a \in Agents, NEW i \in MsgIds
             PROVE  Attempts(a, i)' = shown'[a][i] + lost'[a][i] + Cardinality(Printing(a, i)')
  BY DEF OffersAccounted
<1> DEFINE Goal == Attempts(a, i)' = shown'[a][i] + lost'[a][i] + Cardinality(Printing(a, i)')
<1>1. /\ Attempts(a, i) = shown[a][i] + lost[a][i] + Cardinality(Printing(a, i))
      /\ Attempts(a, i) \in Nat /\ shown[a][i] \in Nat /\ lost[a][i] \in Nat
      /\ Cardinality(Printing(a, i)) \in Nat
  BY CountsType DEF OffersAccounted
<1>2. ASSUME NEW p \in Procs, NEW act, Become(p, act), UNCHANGED <<shown, lost>>,
             Attempts(a, i)' = Attempts(a, i),
             proc[p].pc # "printing", act.pc # "printing"
      PROVE  Goal
  BY <1>1, <1>2, PrintingStays
<1>3. ASSUME NEW p \in Procs, NEW via \in Routes, NEW proj \in Home[Owner[p]], Offer(p, via, proj)
      PROVE  Goal
  <2>1. proc[p].pc # "printing" /\ UNCHANGED <<shown, lost>> /\ Attempts(a, i)' = Attempts(a, i)
    BY <1>3 DEF Offer, Starts, Attempts
  <2>2. Become(p, [pc |-> "marking", ids |-> OfferSet(via, Owner[p], proj)])
    BY <1>3 DEF Offer
  <2> QED
    BY <1>2, <2>1, <2>2
<1>4. ASSUME NEW p \in Procs, Mark(p) PROVE Goal
  <2> DEFINE act == [proc[p] EXCEPT !.pc = "printing"]
  <2>1. Become(p, act) /\ MarkDelivered(Owner[p], proc[p].ids) /\ UNCHANGED <<shown, lost>>
        /\ proc[p].pc = "marking"
    BY <1>4 DEF Mark
  <2>2. act.ids = proc[p].ids /\ act.pc = "printing"
    BY DEF TypeOK, Activity
  <2>3. Attempts(a, i)' = Attempts(a, i) + IF a = Owner[p] /\ i \in proc[p].ids THEN 1 ELSE 0
    BY <2>1, AttemptsAfterDelivery
  <2>4. p \notin Printing(a, i)
    BY <2>1 DEF Printing
  <2> HIDE DEF act
  <2>5. Cardinality(Printing(a, i)')
          = Cardinality(Printing(a, i)) + IF a = Owner[p] /\ i \in proc[p].ids THEN 1 ELSE 0
    BY <1>1, <2>1, <2>2, <2>4, PrintingAfter
  <2> QED
    BY <1>1, <2>1, <2>3, <2>5
<1>5. ASSUME NEW p \in Procs, proc[p].pc = "printing", Become(p, Idle), UNCHANGED reads,
             \/ shown' = AddOne(shown, Owner[p], proc[p].ids) /\ UNCHANGED lost
             \/ lost' = AddOne(lost, Owner[p], proc[p].ids) /\ UNCHANGED shown
      PROVE  Goal
  <2> DEFINE one == IF a = Owner[p] /\ i \in proc[p].ids THEN 1 ELSE 0
  <2>1. Attempts(a, i)' = Attempts(a, i)
    BY <1>5 DEF Attempts
  <2>2. p \in Printing(a, i) <=> (a = Owner[p] /\ i \in proc[p].ids)
    BY <1>5 DEF Printing, ProcsOf
  <2>3. Cardinality(Printing(a, i)') = Cardinality(Printing(a, i)) - one
    BY <1>1, <1>5, <2>2, PrintingAfter DEF Idle
  <2>4. shown'[a][i] + lost'[a][i] = shown[a][i] + lost[a][i] + one
    <3>1. shown \in [Agents -> [MsgIds -> Nat]] /\ lost \in [Agents -> [MsgIds -> Nat]]
      BY DEF TypeOK
    <3>2. CASE shown' = AddOne(shown, Owner[p], proc[p].ids) /\ UNCHANGED lost
      <4>1. shown'[a][i] = shown[a][i] + one
        BY <3>1, <3>2, HistoryAfter
      <4> QED
        BY <1>1, <3>2, <4>1
    <3>3. CASE lost' = AddOne(lost, Owner[p], proc[p].ids) /\ UNCHANGED shown
      <4>1. lost'[a][i] = lost[a][i] + one
        BY <3>1, <3>3, HistoryAfter
      <4> QED
        BY <1>1, <3>3, <4>1
    <3> QED
      BY <1>5, <3>2, <3>3
  <2>5. one \in {0, 1}
    OBVIOUS
  <2>6. /\ shown'[a][i] \in Int /\ lost'[a][i] \in Int
    <3>1. TypeOK'
      BY TypeStep
    <3> QED
      BY <3>1 DEF TypeOK
  <2> HIDE DEF one
  <2> QED
    BY <1>1, <2>1, <2>3, <2>4, <2>5, <2>6
<1>6. ASSUME NEW p \in Procs, Emit(p) PROVE Goal
  BY <1>5, <1>6 DEF Emit
<1>7. ASSUME NEW p \in Procs, Fail(p) PROVE Goal
  <2>1. CASE proc[p].pc = "printing"
    BY <1>5, <1>7, <2>1 DEF Fail
  <2>2. CASE proc[p].pc # "printing"
    BY <1>2, <1>7, <2>2 DEF Fail, Idle, Attempts
  <2> QED
    BY <2>1, <2>2
<1>8. ASSUME NEW p \in Procs, AckListed(p) PROVE Goal
  <2>1. Attempts(a, i)' = Attempts(a, i)
    BY <1>8, AttemptsAfterRead DEF AckListed
  <2> QED
    BY <1>2, <1>8, <2>1 DEF AckListed, Idle
<1>9. ASSUME NEW p \in Procs, NEW j \in MsgIds, ReadNamed(p, j) PROVE Goal
  <2>1. Attempts(a, i)' = Attempts(a, i)
    <3>1. CASE UNCHANGED reads
      BY <3>1 DEF Attempts
    <3>2. CASE MarkRead(Owner[p], {j})
      BY <3>2, AttemptsAfterRead
    <3> QED
      BY <1>9, <3>1, <3>2 DEF ReadNamed
  <2>2. PICK act : Become(p, act) /\ act \in {Idle, [proc[p] EXCEPT !.ids = @ \ {j}]}
    BY <1>9 DEF ReadNamed
  <2>3. act.pc \in {"idle", "reading"} /\ proc[p].pc = "reading"
    BY <1>9, <2>2 DEF ReadNamed, Idle, TypeOK, Activity
  <2> QED
    BY <1>2, <1>9, <2>1, <2>2, <2>3 DEF ReadNamed
<1>10. ASSUME NEW p \in Procs, NEW proj, ListUnread(p, proj) PROVE Goal
  BY <1>2, <1>10 DEF ListUnread, Starts, Attempts
<1>11. ASSUME NEW p \in Procs, NEW S, NameIds(p, S) PROVE Goal
  BY <1>2, <1>11 DEF NameIds, Starts, Attempts
<1>12. CASE UNCHANGED <<reads, proc, shown, lost>>
  BY <1>1, <1>12 DEF Attempts, Printing
<1>13. ASSUME NEW p \in Procs, NEW d, NEW target, Send(p, d, target)
       PROVE  Goal
  BY <1>12, <1>13 DEF Send
<1>14. ASSUME NEW p \in Procs, NEW proj, NEW j, NEW urgent, NEW target,
              Reply(p, proj, j, urgent, target)
       PROVE  Goal
  BY <1>12, <1>14 DEF Reply
<1>15. CASE Tick \/ UNCHANGED vars
  BY <1>12, <1>15 DEF Tick, vars
<1>16. ASSUME NEW p \in Procs, Step(p) PROVE Goal
  <2> HIDE DEF Goal
  <2> QED
    BY <1>3, <1>4, <1>6, <1>7, <1>8, <1>9, <1>10, <1>11, <1>13, <1>14, <1>16 DEF Step
<1> QED
  BY <1>15, <1>16 DEF Next

(* Every offer that the board counts was printed, is about to be, or was    *)
(* lost with the process that recorded it, and nothing is printed           *)
(* uncounted (mark_delivered_all, emit).                                    *)
THEOREM EveryOfferIsAccountedFor == Spec => []OffersAccounted
<1>1. Init => OffersAccounted
  <2> SUFFICES ASSUME Init, NEW a \in Agents, NEW i \in MsgIds
               PROVE  Attempts(a, i) = shown[a][i] + lost[a][i] + Cardinality(Printing(a, i))
    BY DEF OffersAccounted
  <2>1. Attempts(a, i) = 0 /\ shown[a][i] = 0 /\ lost[a][i] = 0
    BY DEF Init, Attempts, NoRow
  <2>2. Printing(a, i) = {}
    BY DEF Init, Printing, ProcsOf, Idle
  <2> QED
    BY <2>1, <2>2, FS_EmptySet
<1> QED
  BY <1>1, AccountsStep, TypeCorrect, PTL DEF Spec

-----------------------------------------------------------------------------
(* The receipt of one sender.                                              *)

(* Direct mail has a recipient on the roster, with a row of one of the     *)
(* three shapes.                                                           *)
LEMMA DirectRows ==
  ASSUME TypeOK, NEW s, NEW i \in DirectOf(s)
  PROVE  /\ messages[i].to \in Agents /\ i \in MsgIds
         /\ RecipientRow(i) \in Row
<1>1. i \in 1..Len(messages) /\ Len(messages) \in Nat /\ Len(messages) <= MaxMsgs
  BY DEF TypeOK, DirectOf, Posted
<1>2. messages[i].to \in Agents
  BY DEF DirectOf, Direct
<1> QED
  BY <1>1, <1>2 DEF TypeOK, RecipientRow, MsgIds

(* What no hook counted for the recipient, none printed either.            *)
LEMMA UncountedIsUnseen ==
  ASSUME TypeOK, OffersAccounted, NEW a \in Agents, NEW i \in MsgIds,
         reads[a][i].delivered = Null
  PROVE  shown[a][i] = 0
<1>1. reads[a][i] \in Row
  BY DEF TypeOK
<1>2. Attempts(a, i) = 0
  BY <1>1 DEF Row, Attempts
<1>3. Attempts(a, i) = shown[a][i] + lost[a][i] + Cardinality(Printing(a, i))
  BY DEF OffersAccounted
<1>4. shown[a][i] \in Nat /\ lost[a][i] \in Nat /\ Cardinality(Printing(a, i)) \in Nat
  BY CountsType
<1>5. \A x, y, z \in Nat : 0 = x + y + z => x = 0
  OBVIOUS
<1> QED
  BY <1>2, <1>3, <1>4, <1>5

LEMMA ReceiptsFollow == TypeOK /\ OffersAccounted => SentReceiptsAddUp
<1> SUFFICES ASSUME TypeOK, OffersAccounted, NEW s \in Agents
             PROVE  LET mail == DirectOf(s) IN
                    /\ Cardinality(mail) = Cardinality(Handed(mail)) + Cardinality(Fetched(mail))
                                              + Cardinality(Unoffered(mail))
                    /\ \A i \in Fetched(mail) \cup Unoffered(mail) : shown[messages[i].to][i] = 0
                    /\ Dead(s) \subseteq Offered(s)
  BY DEF SentReceiptsAddUp
<1> DEFINE mail == DirectOf(s)
           handed == Handed(mail)
           fetched == Fetched(mail)
           waiting == Unoffered(mail)
<1>1. IsFiniteSet(mail)
  <2>1. Len(messages) \in Nat /\ mail \subseteq 1..Len(messages)
    BY DEF TypeOK, DirectOf, Posted
  <2>2. IsFiniteSet(1..Len(messages))
    <3>1. 1 \in Int /\ Len(messages) \in Int
      BY <2>1
    <3> QED
      BY <3>1, FS_Interval
  <2> HIDE DEF mail
  <2> QED
    BY <2>1, <2>2, FS_Subset
<1>2. handed \subseteq mail /\ fetched \subseteq mail /\ waiting \subseteq mail
  BY DEF Handed, Fetched, Unoffered
<1>3. \A i \in mail : i \in handed \/ i \in fetched \/ i \in waiting
  <2> SUFFICES ASSUME NEW i \in mail, i \notin handed, i \notin fetched PROVE i \in waiting
    OBVIOUS
  <2>1. RecipientRow(i).delivered = Null /\ RecipientRow(i).read = Null
    BY DEF Handed, Fetched
  <2>2. RecipientRow(i) \in [delivered: Stamps, read: Stamps, attempts: Nat]
        /\ RecipientRow(i).attempts = 0
    BY <2>1, DirectRows DEF Row
  <2>3. RecipientRow(i) = NoRow
    BY <2>1, <2>2 DEF NoRow, Null
  <2> QED
    BY <2>3 DEF Unoffered
<1>4. handed \cap fetched = {} /\ handed \cap waiting = {} /\ fetched \cap waiting = {}
  <2>1. NoRow.delivered = Null /\ NoRow.read = Null
    BY DEF NoRow
  <2> QED
    BY <2>1 DEF Handed, Fetched, Unoffered
<1>5. Cardinality(mail) = Cardinality(handed) + Cardinality(fetched) + Cardinality(waiting)
  <2> HIDE DEF mail, handed, fetched, waiting
  <2>1. mail = (handed \cup fetched) \cup waiting /\ (handed \cup fetched) \cap waiting = {}
    BY <1>2, <1>3, <1>4
  <2>2. IsFiniteSet(handed) /\ IsFiniteSet(fetched) /\ IsFiniteSet(waiting)
    BY <1>1, <1>2, FS_Subset
  <2>3. /\ IsFiniteSet(handed \cup fetched)
        /\ Cardinality(handed \cup fetched) = Cardinality(handed) + Cardinality(fetched) - 0
    BY <1>4, <2>2, FS_Union, FS_EmptySet
  <2>4. Cardinality(mail) = Cardinality(handed \cup fetched) + Cardinality(waiting) - 0
    BY <2>1, <2>2, <2>3, FS_Union, FS_EmptySet
  <2>5. Cardinality(handed) \in Nat /\ Cardinality(fetched) \in Nat /\ Cardinality(waiting) \in Nat
    BY <2>2, FS_CardinalityType
  <2> QED
    BY <2>3, <2>4, <2>5
<1>6. \A i \in fetched \cup waiting : shown[messages[i].to][i] = 0
  <2> SUFFICES ASSUME NEW i \in fetched \cup waiting PROVE shown[messages[i].to][i] = 0
    OBVIOUS
  <2>1. i \in DirectOf(s) /\ RecipientRow(i).delivered = Null
    BY <1>2 DEF Fetched, Unoffered, NoRow
  <2> QED
    BY <2>1, DirectRows, UncountedIsUnseen DEF RecipientRow
<1>7. Dead(s) \subseteq Offered(s)
  <2> SUFFICES ASSUME NEW i \in Dead(s) PROVE reads[s][i].delivered # Null
    BY DEF Dead, Offered
  <2>1. i \in MsgIds /\ reads[s][i].attempts >= MaxOffers
    BY DEF Dead, Posted, TypeOK, MsgIds
  <2>2. reads[s][i] \in Row
    BY <2>1 DEF TypeOK
  <2> QED
    BY <2>1, <2>2 DEF Row
<1> QED
  BY <1>5, <1>6, <1>7

(* The three states of a sender's receipt partition its direct mail, and    *)
(* two of them are of mail that no hook has printed (sent.rs, status.rs).   *)
THEOREM ReceiptsAreTrue == Spec => []SentReceiptsAddUp
BY ReceiptsFollow, TypeCorrect, EveryOfferIsAccountedFor, PTL
=============================================================================
