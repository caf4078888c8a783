------------------------------ MODULE NoteIds ------------------------------
(***************************************************************************)
(* How a note is named (src/memory/id.rs NoteId::display, parse_id,        *)
(* split_id) and how a name is resolved against the index                  *)
(* (src/memory/query.rs resolve).  A text is the sequence of its parts     *)
(* between slashes, of which some may be empty.                            *)
(***************************************************************************)
EXTENDS Integers, SequencesExt, FiniteSets

CONSTANTS
  Empty,          \* the empty part, and the scope of a candidate
  Observation, Candidate,
  Kinds,          \* all kinds
  Searchable      \* those that a bare slug may mean

Id(kind, scope, slug) == [kind |-> kind, scope |-> scope, slug |-> slug]

Display(id) ==
  CASE id.kind = Observation -> <<id.scope, id.slug>>
    [] id.kind = Candidate   -> <<Candidate, id.slug>>
    [] OTHER                 -> <<id.kind, id.scope, id.slug>>

\* The ids that a text is read as: none or one.
ParseId(text) ==
  LET parts == SelectSeq(text, LAMBDA part : part # Empty) IN
  CASE Len(parts) = 3 /\ parts[1] \in Kinds \ {Observation, Candidate} ->
         {Id(parts[1], parts[2], parts[3])}
    [] Len(parts) = 2 ->
         {IF parts[1] = Candidate THEN Id(Candidate, Empty, parts[2])
          ELSE Id(Observation, parts[1], parts[2])}
    [] OTHER -> {}

\* A qualifier is what stands before the last slash, if neither side is empty.
Qualified(text) == Len(text) > 1 /\ Last(text) # Empty /\ Front(text) # <<Empty>>
SlugOf(text)    == IF Qualified(text) THEN <<Last(text)>> ELSE text

\* The ids meant by a text: one, or none, or, ambiguously, several.
Resolve(index, text) ==
  IF ParseId(text) # {} THEN ParseId(text) \cap index
  ELSE IF Qualified(text) THEN {}
  ELSE {id \in index : id.kind \in Searchable /\ <<id.slug>> = SlugOf(text)}

-----------------------------------------------------------------------------
Shadowed(id) == id.kind = Observation /\ id.scope = Candidate

(* What is displayed is what resolves: the id of a note in the index names *)
(* it and no other, with slashes around it or not, unless its project is   *)
(* named like the one kind whose ids have two parts (D50, D81).            *)
DisplayedIdsResolve(index) ==
  \A id \in index :
    /\ ~Shadowed(id) => /\ Resolve(index, Display(id)) = {id}
                        /\ Resolve(index, <<Empty>> \o Display(id) \o <<Empty>>) = {id}
    /\ \A other \in index \ {id} :
         Display(other) = Display(id) => Shadowed(id) \/ Shadowed(other)

(* Nothing is guessed: a text that resolves to several is a bare slug that *)
(* they share, one that resolves is spelled in the id, and whatever names  *)
(* a kind or a scope resolves within it.                                   *)
NothingIsGuessed(index, text) ==
  LET parts == SelectSeq(text, LAMBDA part : part # Empty) IN
  /\ Cardinality(Resolve(index, text)) > 1 => Len(text) = 1
  /\ \A id \in Resolve(index, text) :
       /\ Last(parts) = id.slug
       /\ Len(parts) > 1 => Head(parts) \in {id.kind, id.scope}
       /\ Len(parts) = 3 => parts[2] = id.scope

(* A note of a project named like the kind of candidates is not found      *)
(* under its id: the candidate of that name is, if there is one, and else  *)
(* nothing, where id.rs:117-119 speaks of a search for the slug.           *)
CandidatesShadow(index) ==
  \A id \in index : Shadowed(id) =>
    Resolve(index, Display(id)) = index \cap {Id(Candidate, Empty, id.slug)}
=============================================================================
