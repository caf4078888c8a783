------------------------------ MODULE Address ------------------------------
(***************************************************************************)
(* The one grammar of destinations and of memory scopes                    *)
(* (src/address.rs).  A text is a sequence of characters; "@", "#" and "/" *)
(* are the ones that the grammar reads, " " is trimmed.                    *)
(***************************************************************************)
EXTENDS Naturals, SequencesExt

Count(text, c) == Cardinality({k \in DOMAIN text : text[k] = c})

Blank(text) == \A k \in DOMAIN text : text[k] = " "
Trim(text) ==
  IF Blank(text) THEN <<>>
  ELSE LET ink == {k \in DOMAIN text : text[k] # " "}
           first == CHOOSE k \in ink : \A j \in ink : k <= j
           last  == CHOOSE k \in ink : \A j \in ink : k >= j
       IN  SubSeq(text, first, last)

Global == <<"@", "@">>
Refused == [form |-> "refused"]
Everyone == [form |-> "everyone"]

-----------------------------------------------------------------------------
\* A destination; an empty project is the sender's own.
Broadcast(project) == [form |-> "broadcast", project |-> project]
Agent(name, project) == [form |-> "agent", name |-> name, project |-> project]

\* The text on each side of the first "@".
Before(text) == SubSeq(text, 1, SelectInSeq(text, LAMBDA c : c = "@") - 1)
After(text)  == SubSeq(text, SelectInSeq(text, LAMBDA c : c = "@") + 1, Len(text))

\* An empty text, a topic, a second "@": nothing is interpreted charitably.
Misread(text) == text = <<>> \/ text[1] = "#" \/ (text # Global /\ Count(text, "@") > 1)

Parse(input) ==
  LET text == Trim(input)  name == Before(text)  project == Trim(After(text)) IN
  IF Misread(text) THEN Refused
  ELSE IF text = Global THEN Everyone
  ELSE IF ~Contains(text, "@") THEN Agent(text, <<>>)
  ELSE IF name = <<>> THEN Broadcast(project)
  ELSE IF project = <<>> THEN Refused ELSE Agent(name, project)

\* Address::project: what a message is scoped to, which is nothing for @@.
ProjectOf(address, mine) ==
  IF address = Everyone THEN <<"everywhere">>
  ELSE IF address.project = <<>> THEN mine ELSE address.project

-----------------------------------------------------------------------------
\* A place that a note applies to.
Topic(name) == [form |-> "topic", name |-> name]
Project(id) == [form |-> "project", name |-> id]

ParseScope(input) ==
  LET text == Trim(input)  rest == Tail(text) IN
  CASE text = <<>>   -> Refused
    [] text = Global -> Everyone
    [] text # <<>> /\ text[1] = "#" ->
         IF rest = <<>> \/ ToSet(rest) \cap {"#", "@", "/"} # {} THEN Refused ELSE Topic(rest)
    [] text # <<>> /\ text # Global /\ text[1] # "#" ->
         IF text[1] = "@" \/ Contains(text, "/") THEN Refused ELSE Project(text)

\* Scope::as_str, the form that is stored.
Written(scope) ==
  CASE scope = Everyone       -> Global
    [] scope.form = "topic"   -> <<"#">> \o scope.name
    [] scope.form = "project" -> scope.name

-----------------------------------------------------------------------------
(* A scope is read back from the column as the scope that was written, so  *)
(* no project's notes become a topic's or everybody's (parse_scope).       *)
ScopesRoundTrip(input) ==
  LET scope == ParseScope(input) IN
  scope # Refused => ParseScope(Written(scope)) = scope

(* A text that is both: the destination and the scope are the same place,  *)
(* or the bare word that is a session's name here and a project's there.   *)
OneGrammar(input) ==
  LET address == Parse(input)  scope == ParseScope(input) IN
  address # Refused /\ scope # Refused =>
    \/ address = Everyone /\ scope = Everyone
    \/ scope.form = "project" /\ address.form = "agent"

(* Everyone in a project that may hold notes can be written to as "@" and  *)
(* its id, unless the id holds another "@".                                *)
ProjectsAreReached(input) ==
  LET scope == ParseScope(input) IN
  (scope # Refused /\ scope.form = "project") =>
    Parse(<<"@">> \o scope.name) =
      IF Contains(scope.name, "@") THEN Refused ELSE Broadcast(scope.name)

(* Rejects rather than guesses: a text is never taken for a broadcast that *)
(* names anybody, and a name never reaches a project that was not written. *)
NobodyIsGuessed(input) ==
  LET address == Parse(input)  text == Trim(input) IN
  address # Refused =>
    /\ address.form = "broadcast" <=> text[1] = "@" /\ text # Global
    /\ ProjectOf(address, <<"mine">>) = <<"mine">> <=> text = <<"@">> \/ ~Contains(text, "@")
=============================================================================
