------------------------------ MODULE BoardLog ------------------------------
(***************************************************************************)
(* What the board promises about mail, with no processes, hooks or caps:   *)
(* an append-only log in which a retraction names an earlier message of    *)
(* the same author, and per reader a count of offers that only grows and   *)
(* only for mail the reader may see, and an acknowledgement that, once     *)
(* given, is never taken back.  Mail implements it.                        *)
(***************************************************************************)
EXTENDS Integers, Sequences

CONSTANTS Agents, Everyone, Home, MaxMsgs

VARIABLES
  log,      \* the messages ever sent
  offered,  \* offered[a][i]: how often message i was offered to a
  acked     \* acked[a]: the ids a has acknowledged

vars == <<log, offered, acked>>

MsgIds == 1..MaxMsgs

Init ==
  /\ log = << >>
  /\ offered = [a \in Agents |-> [i \in MsgIds |-> 0]]
  /\ acked = [a \in Agents |-> {}]

\* One message is added at the end; nothing already there changes.
Post ==
  /\ Len(log') = Len(log) + 1
  /\ \A i \in 1..Len(log) : log'[i] = log[i]
  /\ LET new == log'[Len(log) + 1] IN
       new.supersedes # 0 =>
         new.supersedes \in 1..Len(log) /\ log[new.supersedes].from = new.from
  /\ UNCHANGED <<offered, acked>>

MayReach(a, i) ==
  /\ i \in 1..Len(log)
  /\ log[i].from # a
  /\ log[i].to \in {a, Everyone} \cup Home[a]

\* Some messages are put in front of one reader, each counted once.
OfferTo(a) ==
  /\ \E S \in SUBSET MsgIds :
       /\ \A i \in S : MayReach(a, i)
       /\ offered' = [offered EXCEPT ![a] =
                        [i \in MsgIds |-> offered[a][i] + IF i \in S THEN 1 ELSE 0]]
  /\ UNCHANGED <<log, acked>>

\* One reader acknowledges some of the messages on the board.
AckBy(a) ==
  /\ \E S \in SUBSET (1..Len(log)) :
       acked' = [acked EXCEPT ![a] = @ \cup S]
  /\ UNCHANGED <<log, offered>>

Next == Post \/ \E a \in Agents : OfferTo(a) \/ AckBy(a)

Spec == Init /\ [][Next]_vars
=============================================================================
