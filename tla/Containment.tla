---------------------------- MODULE Containment ----------------------------
(***************************************************************************)
(* How text that another session wrote is put on amb's own lines           *)
(* (src/delivery.rs quoted, speaker, scope_kind, quoted_block,             *)
(* preview_block).  A text is a sequence of characters, told apart by what *)
(* these functions do with them.                                           *)
(***************************************************************************)
EXTENDS Integers, SequencesExt

CONSTANTS
  Newline, Breaker,   \* the line break, and whatever else breaks a line
  Blank,
  DoubleQuote, SingleQuote,
  Bracket,            \* what neither a kind nor a project may hold
  Ellipsis, Caret,    \* amb's own marks: what was cut, what is quoted
  NoCap,
  QuotedMax, MaxKind, MaxProject

BreaksGrammar(c) == c \in {Newline, Breaker}

TrimEnd(text) ==
  LET solid == {k \in DOMAIN text : text[k] # Blank}
  IN  IF solid = {} THEN <<>> ELSE SubSeq(text, 1, Max(solid))
Trim(text) == Reverse(TrimEnd(Reverse(TrimEnd(text))))

(* One line: runs of blanks become one, what exceeds the cap becomes a     *)
(* mark.  The cap counts the blank that the trim then takes away.          *)
QuoteOne(line, char) ==
  LET c == IF BreaksGrammar(char) THEN Blank ELSE char IN
  IF line.full \/ (c = Blank /\ line.spaced) THEN line
  ELSE IF Len(line.out) >= QuotedMax
       THEN [line EXCEPT !.out = Append(@, Ellipsis), !.full = TRUE]
       ELSE [line EXCEPT !.out = Append(@, c), !.spaced = (c = Blank)]
Quoted(field) ==
  Trim(FoldLeft(QuoteOne, [out |-> <<>>, spaced |-> FALSE, full |-> FALSE], field).out)

\* The sender's name, between double quotes of amb's.
Speaker(name) ==
  [k \in DOMAIN Quoted(name) |-> IF Quoted(name)[k] = DoubleQuote THEN SingleQuote ELSE Quoted(name)[k]]

-----------------------------------------------------------------------------
(* The label in amb's brackets: a kind or a project that could break out   *)
(* of them is left out.  plain is the kind that says nothing.              *)
TameKind(kind) ==
  kind # <<>> /\ Len(kind) <= MaxKind
  /\ ToSet(kind) \cap {Newline, Breaker, Blank, DoubleQuote, SingleQuote, Bracket} = {}
TameProject(project) ==
  project # <<>> /\ Len(project) <= MaxProject
  /\ ToSet(project) \cap {Newline, Breaker, DoubleQuote, SingleQuote, Bracket} = {}

ScopeKind(scope, kind, plain, origin) ==
  [scope |-> scope,
   kind  |-> IF kind = plain \/ ~TameKind(kind) THEN <<>> ELSE kind,
   from  |-> IF scope = "global" /\ TameProject(origin) THEN origin ELSE <<>>]

-----------------------------------------------------------------------------
\* A text of several lines, each of which begins with amb's mark.
Lines(text) ==
  LET read(state, c) ==
        IF c = Newline THEN [done |-> Append(state.done, state.line), line |-> <<>>]
        ELSE [state EXCEPT !.line = Append(@, c)]
      end == FoldLeft(read, [done |-> <<>>, line |-> <<>>], text)
  IN  IF end.line = <<>> THEN end.done ELSE Append(end.done, end.line)

QuotedLine(line) ==
  LET body == TrimEnd([k \in DOMAIN line |-> IF BreaksGrammar(line[k]) THEN Blank ELSE line[k]])
  IN  IF body = <<>> THEN <<Caret>> ELSE <<Caret, Blank>> \o body
QuotedBlock(text) == [k \in DOMAIN Lines(text) |-> QuotedLine(Lines(text)[k])]

\* max is NoCap or a number of characters; what was kept back is counted.
PreviewBlock(body, max) ==
  IF max = NoCap \/ Len(body) <= max THEN [block |-> QuotedBlock(body), kept |-> 0]
  ELSE [block |-> QuotedBlock(SubSeq(body, 1, max)), kept |-> Len(body) - max]

-----------------------------------------------------------------------------
(* A field stays on its line and within its length, and has no blank       *)
(* margins; quoting what was quoted changes nothing, although the cap was  *)
(* reached and the mark appended (D60, D125).                              *)
FieldsAreContained(field) ==
  LET shown == Quoted(field) IN
  /\ \A k \in DOMAIN shown : shown[k] \notin {Newline, Breaker}
  /\ Len(shown) <= QuotedMax + 1
  /\ shown # <<>> => Head(shown) # Blank /\ Last(shown) # Blank
  /\ \A k \in 2..Len(shown) : shown[k] # Blank \/ shown[k - 1] # Blank
  /\ Quoted(shown) = shown
  /\ DoubleQuote \notin ToSet(Speaker(field))

(* A field that is short, and in order, is shown as it is.                 *)
TameFieldsAreShown(field) ==
  /\ Len(field) <= QuotedMax
  /\ \A k \in DOMAIN field : field[k] \notin {Newline, Breaker}
  /\ field # <<>> => Head(field) # Blank /\ Last(field) # Blank
  /\ \A k \in 2..Len(field) : field[k] # Blank \/ field[k - 1] # Blank
  => Quoted(field) = field

(* Every line of a block carries amb's mark, none ends in a blank, and no  *)
(* line is lost or gained: a line break that is not one of the text's own  *)
(* makes no new line (M33, D125).                                          *)
BlocksAreContained(text) ==
  LET block  == QuotedBlock(text)
      breaks == Cardinality({k \in DOMAIN text : text[k] = Newline})
  IN
  /\ Len(block) = IF text = <<>> \/ Last(text) = Newline THEN breaks ELSE breaks + 1
  /\ \A k \in DOMAIN block :
       /\ Head(block[k]) = Caret /\ Last(block[k]) # Blank
       /\ {Newline, Breaker} \cap ToSet(block[k]) = {}

(* What a preview shows and what it says it kept back make up the body.    *)
PreviewsAddUp(body, max) ==
  LET preview == PreviewBlock(body, max) IN
  /\ preview.kept > 0 <=> max # NoCap /\ Len(body) > max
  /\ preview.block = QuotedBlock(SubSeq(body, 1, Len(body) - preview.kept))

(* Nothing that could close amb's bracket is shown inside it.              *)
LabelsAreTame(scope, kind, plain, origin) ==
  LET label == ScopeKind(scope, kind, plain, origin) IN
  (ToSet(label.kind) \cup ToSet(label.from))
    \cap {Newline, Breaker, DoubleQuote, SingleQuote, Bracket} = {}
=============================================================================
