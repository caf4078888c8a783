------------------------------ MODULE Receipts ------------------------------
(***************************************************************************)
(* What the board says of itself: the receipt of one sender's mail         *)
(* (src/sent.rs) and the dead letters of the whole board (src/status.rs).  *)
(* Both are read from the tables that Mail keeps and write nothing.        *)
(***************************************************************************)
EXTENDS Mail

\* The row of a direct message's one recipient.
RecipientRow(i) == reads[messages[i].to][i]

\* sent.rs gather(): the direct mail of s, and the three states it divides into.
DirectOf(s)     == {i \in Posted : messages[i].from = s /\ Direct(i)}
Handed(mail)    == {i \in mail : RecipientRow(i).delivered # Null}

\* Whatever was acknowledged, also mail that a hook had handed over.
FetchedFault(mail) == {i \in mail : RecipientRow(i).read # Null}

Fetched(mail)   == {i \in mail : RecipientRow(i).delivered = Null /\ RecipientRow(i).read # Null}
Unoffered(mail) == {i \in mail : RecipientRow(i) = NoRow}

\* status.rs gather(): offered to a as often as mail ever is, and not acknowledged.
Dead(a)    == {i \in Posted : reads[a][i].read = Null /\ reads[a][i].attempts >= MaxOffers}
Offered(a) == {i \in Posted : reads[a][i].delivered # Null}

-----------------------------------------------------------------------------
(* A sender's receipt divides its direct mail without remainder or overlap *)
(* (sent.rs:24-34), whatever hooks, reads by id and deaths came between.   *)
(* What it calls fetched or unoffered no hook ever printed, and what the   *)
(* board calls dead it also counts as offered (status.rs:150-164).         *)
SentReceiptsAddUp ==
  \A s \in Agents :
    LET mail == DirectOf(s) IN
    /\ Cardinality(mail)
         = Cardinality(Handed(mail)) + Cardinality(Fetched(mail)) + Cardinality(Unoffered(mail))
    /\ \A i \in Fetched(mail) \cup Unoffered(mail) : shown[messages[i].to][i] = 0
    /\ Dead(s) \subseteq Offered(s)
=============================================================================
