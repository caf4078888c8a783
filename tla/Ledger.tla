------------------------------- MODULE Ledger -------------------------------
(***************************************************************************)
(* The ledger of what sessions were shown and what they cited              *)
(* (src/memory/events.rs, table note_events), and the receipt over it.     *)
(***************************************************************************)
EXTENDS Naturals, FiniteSets

CONSTANTS
  Sessions,
  Notes,
  MaxTime    \* bound: how far the clock runs

VARIABLES
  events,    \* table note_events
  now

ledger == <<events, now>>

\* A note is shown at session start, or before one of its files is opened.
Lanes == {"injected", "injected_file"}
Event == [session: Sessions, note: Notes, event: Lanes \cup {"cited"}, at: 0..MaxTime]

Has(s, n, event) == \E e \in events : e.session = s /\ e.note = n /\ e.event = event
IsShown(s, n)    == \E lane \in Lanes : Has(s, n, lane)

\* INSERT OR IGNORE: the first time counts, once per session, note and event.
Recorded(s, ids, event) ==
  events \cup {[session |-> s, note |-> n, event |-> event, at |-> now] :
                 n \in {m \in ids : ~Has(s, m, event)}}

Tick == now < MaxTime /\ now' = now + 1

-----------------------------------------------------------------------------
Since(event, floor) == {e \in events : e.event = event /\ e.at >= floor}

\* Counts a cite in both lanes when both showed the note.
ReceiptFault(floor) ==
  LET cites == Since("cited", floor)
      After(lane) == {c \in cites : Has(c.session, c.note, lane)}
  IN [injected         |-> Cardinality(Since("injected", floor)),
      injected_file    |-> Cardinality(Since("injected_file", floor)),
      cited            |-> Cardinality(After("injected")),
      cited_after_file |-> Cardinality(After("injected_file")),
      unprompted       |-> Cardinality({c \in cites : ~IsShown(c.session, c.note)}),
      sessions         |-> Cardinality({e.session : e \in {x \in events : x.at >= floor}})]

(* receipt(): the cites of a window are told apart by how their session came  *)
(* to the note, in the window or before it.                                   *)
Receipt(floor) ==
  LET cites == Since("cited", floor)
      After(lane) == {c \in cites : Has(c.session, c.note, lane)}
  IN [injected         |-> Cardinality(Since("injected", floor)),
      injected_file    |-> Cardinality(Since("injected_file", floor)),
      cited            |-> Cardinality(After("injected")),
      cited_after_file |-> Cardinality(After("injected_file") \ After("injected")),
      unprompted       |-> Cardinality({c \in cites : ~IsShown(c.session, c.note)}),
      sessions         |-> Cardinality({e.session : e \in {x \in events : x.at >= floor}})]

\* The cites of a window of notes that a lane showed before it opened.
Overhang(lane, floor) ==
  {c \in Since("cited", floor) :
     \E e \in events : e.session = c.session /\ e.note = c.note /\ e.event = lane /\ e.at < floor}

(* The receipt is arithmetic over the events (events.rs): in every window a  *)
(* cite is counted in exactly one place, and no lane has more cites than     *)
(* notes shown, but for cites of notes that it showed before the window:     *)
(* over all time, where there is no before, it has none too many.            *)
ReceiptAddsUp ==
  \A floor \in 0..now :
    LET r == Receipt(floor) IN
    /\ Cardinality(Since("cited", floor)) = r.cited + r.cited_after_file + r.unprompted
    /\ r.cited <= r.injected + Cardinality(Overhang("injected", floor))
    /\ r.cited_after_file <= r.injected_file + Cardinality(Overhang("injected_file", floor))
=============================================================================
