----------------------------- MODULE Redaction -----------------------------
(***************************************************************************)
(* What is taken out of a text before it is written to the vault           *)
(* (src/memory/redact.rs).  A text is a sequence of tokens; a token is     *)
(* known by how the scan judges it.                                        *)
(***************************************************************************)
EXTENDS Integers, SequencesExt

CONSTANTS
  Open, Close,      \* the tags of a private passage
  Begin, End,       \* a token of the first and of the last line of a key block
  Newline,
  Removed, Block,   \* what is written in the place of a value and of a key block
  Arms,             \* keys whose value is the next token
  Schemes,          \* words that may stand between a key and its value
  Substantial,      \* what is long and varied enough to be a value
  Cleaned           \* what a token that is judged on its own becomes

\* An opening tag without its closing one takes the rest of the text.
StripPrivate(text) ==
  LET step(state, token) ==
        IF state.inside THEN [state EXCEPT !.inside = token # Close]
        ELSE IF token = Open THEN [state EXCEPT !.inside = TRUE, !.removed = @ + 1]
        ELSE [state EXCEPT !.out = Append(@, token)]
  IN  FoldLeft(step, [out |-> <<>>, inside |-> FALSE, removed |-> 0], text)

Lines(text) ==
  LET step(lines, token) ==
        IF token = Newline THEN Append(lines, <<>>)
        ELSE Append(Front(lines), Append(Last(lines), token))
      all == FoldLeft(step, << <<>> >>, text)
  IN  IF Last(all) = <<>> THEN Front(all) ELSE all
Joined(lines) ==
  FoldLeft(LAMBDA text, line : text \o <<Newline>> \o line, Head(lines), Tail(lines))

(* Whole lines, from one that begins a key block to one that ends it.  The *)
(* line that begins it is not looked at for its end.                       *)
StripPem(text) ==
  LET step(state, line) ==
        CASE state.inside -> [state EXCEPT !.inside = End \notin ToSet(line)]
          [] ~state.inside /\ Begin \in ToSet(line) ->
               [out |-> Append(state.out, <<Block>>), inside |-> TRUE, removed |-> state.removed + 1]
          [] OTHER -> [state EXCEPT !.out = Append(@, line)]
      end == FoldLeft(step, [out |-> <<>>, inside |-> FALSE, removed |-> 0], Lines(text))
  IN  IF Begin \notin ToSet(text) THEN [out |-> text, removed |-> 0]
      ELSE [out |-> Joined(end.out), removed |-> end.removed]

RedactToken(state, token) ==
  IF token \in DOMAIN Cleaned
  THEN [state EXCEPT !.out = Append(@, Cleaned[token]), !.removed = @ + 1]
  ELSE [state EXCEPT !.out = Append(@, token)]

\* A key takes the next token with it, across line breaks, and past one scheme.
PushToken(state, token) ==
  IF token = Newline THEN [state EXCEPT !.out = Append(@, token)]
  ELSE IF ~state.armed THEN RedactToken([state EXCEPT !.armed = token \in Arms], token)
  ELSE IF token \in Schemes THEN RedactToken(state, token)
  ELSE IF token \in Substantial
       THEN [out |-> Append(state.out, Removed), removed |-> state.removed + 1, armed |-> FALSE]
       ELSE RedactToken([state EXCEPT !.armed = FALSE], token)

Redact(text) ==
  LET private == StripPrivate(text)
      pem     == StripPem(private.out)
      end     == FoldLeft(PushToken,
                          [out |-> <<>>, removed |-> private.removed + pem.removed, armed |-> FALSE],
                          pem.out)
  IN  [text |-> end.out, removed |-> end.removed]

-----------------------------------------------------------------------------
(* Whoever changes the text tells the author: a text that came out         *)
(* different has a count, and a count is one per removal (M27).            *)
ChangesAreCounted(text) ==
  LET r == Redact(text) IN
  /\ r.text # text => r.removed > 0
  /\ r.removed <= Len(text)

(* A text that was redacted is redacted: what it becomes is not changed    *)
(* again, although what replaces a value looks like one.                   *)
RedactedTextIsStable(text) == Redact(Redact(text).text).text = Redact(text).text

(* What is neither private nor in a key block is kept, in its order, but   *)
(* for the tokens that give themselves away, and for the values: what      *)
(* comes after a key, past schemes and line breaks, unless that key stands *)
(* itself where a value is expected.                                       *)
ValuesFollowKeys(text) ==
  LET kept == StripPem(StripPrivate(text).out).out
      before(j) == {i \in 1..j - 1 : kept[i] \notin Schemes \cup {Newline}}
      Expected[j \in DOMAIN kept] ==
        /\ before(j) # {}
        /\ kept[Max(before(j))] \in Arms /\ ~Expected[Max(before(j))]
      judged(j) == IF Expected[j] /\ kept[j] \in Substantial THEN Removed
                   ELSE IF kept[j] \in DOMAIN Cleaned THEN Cleaned[kept[j]] ELSE kept[j]
  IN  Redact(text).text = [j \in DOMAIN kept |-> judged(j)]
=============================================================================
