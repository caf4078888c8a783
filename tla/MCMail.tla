------------------------------- MODULE MCMail -------------------------------
(***************************************************************************)
(* Small boards for TLC.  alice and bob work in project web, carol in      *)
(* project api, so the four addressing modes of schema.sql all occur: to a *)
(* session, to web, to api, and to everyone, the last from inside and from *)
(* outside the reader's project.                                           *)
(***************************************************************************)
EXTENDS Receipts

CONSTANTS alice, bob, carol, web, api, everyone, nokey, k1, b1, b2, a1, c1, lone, retry, nothing

Note(from, proj, to, key, urgent) ==
  [from |-> from, fromProj |-> proj, to |-> to, key |-> key, urgent |-> urgent]

HomeOfAll == [a \in Agents |-> IF a = carol THEN {api} ELSE {web}]
\* bob's working directory moves between two repositories.
HomeRoaming ==
  [a \in Agents |-> IF a = bob THEN {web, api} ELSE IF a = carol THEN {api} ELSE {web}]

\* alice and carol write; bob's processes are the ones under study: the
\* hooks of his turns and edits, or a watch in the background beside the hook of
\* an edit and the commands that acknowledge.
RunsOffers == [p \in Procs |-> IF p = b1 THEN {"sweep", "edit"} ELSE {"send"}]
RunsBoard ==
  [p \in Procs |-> IF p = b1 THEN {"edit", "read --all", "read"}
                  ELSE IF p = b2 THEN {"watch", "reply"} ELSE {"send"}]

OwnerOfAll == [p \in Procs |-> IF p = a1 THEN alice ELSE IF p = c1 THEN carol ELSE bob]

\* Mail to a session, to a project and to everyone; two sessions that pick
\* the same idempotency key, and mail without one.
BoardDrafts ==
  {Note(alice, web, bob, k1, TRUE), Note(alice, web, web, nokey, FALSE),
   Note(alice, web, carol, nokey, FALSE), Note(carol, api, everyone, k1, TRUE)}

\* Mail to one reader only, for questions about that reader's offers.
ReaderDrafts ==
  {Note(alice, web, bob, nokey, FALSE), Note(alice, web, web, nokey, FALSE),
   Note(alice, web, everyone, nokey, FALSE)}

\* A global broadcast from another project: one counted line, offered once.
ForeignDrafts == {Note(carol, api, everyone, nokey, FALSE)}

\* Conversations, on all boards of four messages.
Talk == INSTANCE Threads WITH NoThread <- lone, Names <- {retry}
ASSUME ConversationsAreFound ==
  LET named  == Talk!Boards(4, {lone, retry})
      behind == Talk!Boards(4, Talk!Given(1..4))
  IN  /\ \A board \in named : Talk!ConversationsAreWhole(board)
      /\ \A board \in named \cup behind : Talk!RepliesAreFound(board)
      /\ Talk!ThreadsMayOverlap(behind)

-----------------------------------------------------------------------------
Texts(letters, n) == UNION {[1..k -> letters] : k \in 0..n}

\* What a peer wrote, on amb's lines.
Shown == INSTANCE Containment WITH
  Newline <- "nl", Breaker <- "rlo", Blank <- " ", DoubleQuote <- "dq", SingleQuote <- "sq",
  Bracket <- "]", Ellipsis <- "...", Caret <- ">", NoCap <- -1,
  QuotedMax <- 3, MaxKind <- 2, MaxProject <- 2
ASSUME PeersAreContained ==
  \A field \in Texts({"nl", "rlo", " ", "dq", "a"}, 5) :
    /\ Shown!FieldsAreContained(field)
    /\ Shown!TameFieldsAreShown(field)
    /\ Shown!BlocksAreContained(field)
    /\ \A max \in {-1, 1, 3} : Shown!PreviewsAddUp(field, max)
ASSUME LabelsAreTame ==
  \A kind, origin \in Texts({"nl", " ", "dq", "]", "a"}, 3), scope \in {"global", "project"} :
    Shown!LabelsAreTame(scope, kind, <<"a">>, origin)

\* The two capitals are one that SQLite knows and one that it does not.
Letters == {"a", "A", "e'", "E'", "%", "_", "esc"}
Asked == INSTANCE Inbox WITH
  AnyText <- "%", AnyOne <- "_", Escape <- "esc", Anything <- "anything",
  Lower      <- [c \in Letters |-> CASE c = "A" -> "a" [] c = "E'" -> "e'" [] OTHER -> c],
  AsciiLower <- [c \in Letters |-> IF c = "A" THEN "a" ELSE c]
ASSUME TermsAreLiteral ==
  \A term \in Texts(Letters, 2), text \in Texts({"a", "A", "E'", "%", "_", "esc"}, 3) :
    Asked!TermsAreLiteral(term, text)

Listed == [from: {alice, carol}, name: {"al"}, kind: {"note"}, subject: {<<"a">>}, body: {<<"%">>},
           read: BOOLEAN]
Filters == [from: {"anything", alice}, kind: {"anything", "ask"}, terms: {{}, {<<"A">>}}]
ASSUME ListingsAreHonest ==
  \A mail \in Texts(Listed, 3), limit \in 0..3, unreadOnly \in BOOLEAN, filter \in Filters :
    /\ Asked!ListingsAddUp(mail, limit)
    /\ \A term \in {<<"a">>, <<"_">>} : Asked!FiltersNarrow(mail, unreadOnly, filter, term)

\* A slip of the destination's name.
Slip == INSTANCE Nearest WITH Nothing <- nothing, Everyone <- everyone
Words == Texts({"a", "b"}, 3)
ASSUME SlipsAreNamed ==
  /\ \A a, b \in Words : Slip!DistanceCountsEdits(a, b, {"a", "b"})
  /\ \A known \in SUBSET {<<"a">>, <<"a", "b">>, <<"b", "b">>, <<"a", "b", "a">>}, typed \in Words :
       Slip!SlipsAreNamed(known, typed, {"a", "b"})

=============================================================================
