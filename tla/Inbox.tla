------------------------------- MODULE Inbox -------------------------------
(***************************************************************************)
(* What `amb inbox` lists of the mail a session may see (src/messages.rs   *)
(* Filter, like_contains, the clauses of select(); src/delivery.rs         *)
(* listing).  Mail is the sequence of the rows that the addressing         *)
(* predicate selects, oldest first; a row is [from, name, kind, subject,   *)
(* body, read].  Texts are sequences of characters.                        *)
(***************************************************************************)
EXTENDS Integers, SequencesExt

CONSTANTS
  AnyText, AnyOne, Escape,  \* what LIKE reads as more than a character
  Lower,        \* what Rust makes of the capitals
  AsciiLower,   \* what SQLite makes of them, which knows fewer
  Anything      \* a filter that is not given

-----------------------------------------------------------------------------
\* A term is lowered, and what LIKE would not take literally is escaped.
LikeContains(term) ==
  LET literal(c) == IF Lower[c] \in {AnyText, AnyOne, Escape} THEN <<Escape, Lower[c]>>
                    ELSE <<Lower[c]>>
  IN  <<AnyText>> \o FlattenSeq([k \in DOMAIN term |-> literal(term[k])]) \o <<AnyText>>

(* External: SQLite's LIKE with ESCAPE, on the pattern from i and the text *)
(* from j.                                                                 *)
Like(pattern, text) ==
  LET same(c, d) == AsciiLower[c] = AsciiLower[d]
      L[i \in 1..Len(pattern) + 1, j \in 1..Len(text) + 1] ==
        IF i > Len(pattern) THEN j > Len(text)
        ELSE CASE pattern[i] = AnyText -> L[i + 1, j] \/ (j <= Len(text) /\ L[i, j + 1])
               [] pattern[i] = AnyOne  -> j <= Len(text) /\ L[i + 1, j + 1]
               [] pattern[i] = Escape  ->
                    j <= Len(text) /\ same(pattern[i + 1], text[j]) /\ L[i + 2, j + 1]
               [] OTHER -> j <= Len(text) /\ same(pattern[i], text[j]) /\ L[i + 1, j + 1]
  IN  L[1, 1]

\* A filter is [from, kind, terms]: every part that is given must hold.
Matches(message, filter) ==
  /\ filter.from = Anything \/ filter.from \in {message.from, message.name}
  /\ filter.kind = Anything \/ filter.kind = message.kind
  /\ \A term \in filter.terms :
       Like(LikeContains(term), message.subject) \/ Like(LikeContains(term), message.body)

Narrows(filter) == filter.from # Anything \/ filter.kind # Anything \/ filter.terms # {}

Select(mail, unreadOnly, filter) ==
  SelectSeq(mail, LAMBDA m : (unreadOnly => ~m.read) /\ Matches(m, filter))

\* limit 0 is no limit; the newest are kept, and the unread counted before.
Listing(mail, limit) ==
  LET hidden == IF limit > 0 /\ Len(mail) > limit THEN Len(mail) - limit ELSE 0
  IN  [shown  |-> SubSeq(mail, hidden + 1, Len(mail)),
       hidden |-> hidden,
       unread |-> Len(SelectSeq(mail, LAMBDA m : ~m.read))]

-----------------------------------------------------------------------------
(* A term is found where it is written, whatever characters it holds, in   *)
(* whatever case, but for the capitals that SQLite does not know.          *)
TermsAreLiteral(term, text) ==
  Like(LikeContains(term), text)
    <=> \E start \in 0..Len(text) - Len(term) :
          \A k \in DOMAIN term : AsciiLower[text[start + k]] = AsciiLower[Lower[term[k]]]

(* The counts in the header are of everything selected and not of the      *)
(* window, and what is hidden is older than what is shown (D137).          *)
ListingsAddUp(mail, limit) ==
  LET list == Listing(mail, limit)
      unreadIn(rows) == Len(SelectSeq(rows, LAMBDA m : ~m.read))
      older == SubSeq(mail, 1, list.hidden)
  IN  /\ older \o list.shown = mail
      /\ list.unread = unreadIn(older) + unreadIn(list.shown)
      /\ list.hidden > 0 => Len(list.shown) = limit

(* Asking for more words never lists more; a filter that narrows nothing   *)
(* lists what no filter lists, and is the only one whose empty answer is   *)
(* said to be an empty inbox (describe).                                   *)
FiltersNarrow(mail, unreadOnly, filter, term) ==
  LET more == [filter EXCEPT !.terms = @ \cup {term}]
      all  == [from |-> Anything, kind |-> Anything, terms |-> {}]
  IN  /\ Select(Select(mail, unreadOnly, filter), unreadOnly, more) = Select(mail, unreadOnly, more)
      /\ ~Narrows(filter) => Select(mail, FALSE, filter) = mail
      /\ Narrows(more)
      /\ Select(mail, TRUE, filter) = Select(Select(mail, FALSE, filter), TRUE, all)
=============================================================================
