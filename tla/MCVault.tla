------------------------------- MODULE MCVault -------------------------------
(* Instances of Vault: an agent that records and supersedes notes, beside    *)
(* the session starts of a host and a person at an editor; or the failure    *)
(* hooks of two sessions that capture on one day, beside a re-index.  The    *)
(* walks over the links are checked on their own, on all indexes of three    *)
(* notes, one of them a decision.                                            *)
EXTENDS Vault, Sequences, TLC

CONSTANTS agent, host, hook, older, newer, decision, noLink, noPart, nothing, illegible,
          open, close, firstLine, lastLine, newline, removed, block, key, bearer, secret, pair,
          cleanPair, word

RunsVault == agent :> {"observe", "supersede"} @@ host :> {"session"}
RunsHooks == hook :> {"capture"} @@ agent :> {"capture", "observe"} @@ host :> {"index"}

Chains == INSTANCE Links WITH Notes <- {older, newer, decision}, LongId <- {decision},
                              MaxSteps <- 3, None <- noLink

ASSUME LinksAreJudgedRight ==
  \A index \in Chains!Index :
    /\ Chains!CyclesAreFound(index)
    /\ Chains!CleanChainsEndActive(index)
    /\ Chains!BothWaysAgree(index)
    /\ Chains!ValidationNeeds(index)

\* Names of notes, in a project and in two that are named like kinds.
Names == INSTANCE NoteIds WITH Empty <- noPart, Observation <- "observation",
                               Candidate <- "candidate",
                               Kinds <- {"observation", "candidate", "decision", "capture"},
                               Searchable <- {"observation", "candidate", "decision"}
NoteIdsSome == {Names!Id(kind, scope, "slug") : kind \in {"observation", "decision", "capture"},
                                                scope \in {"project", "candidate", "decision"}}
               \cup {Names!Id("candidate", noPart, slug) : slug \in {"slug", "other"}}
Texts == UNION {[1..n -> {noPart, "project", "candidate", "decision", "slug", "other"}] : n \in 1..3}
ASSUME NotesAreNamed ==
  /\ \A index \in SUBSET NoteIdsSome :
       Names!DisplayedIdsResolve(index) /\ Names!CandidatesShadow(index)
  /\ \A one, two \in NoteIdsSome : \A text \in Texts : Names!NothingIsGuessed({one, two}, text)

\* Files: all notes with some of everything, and up to three lines of a person's.
File == INSTANCE NoteFile WITH Optional <- <<"session", "declined_at">>,
                               Forces <- {"rule", "advice"}, Advice <- "advice",
                               Nothing <- nothing, Unreadable <- {illegible}
NotesSome == [title: {"t"}, scope: {"p"}, kind: {"observation", "decision"}, slug: {"s"},
              status: {"active", "promoted"}, created: {1},
              files: {<<>>, <<"f">>, <<"f", "g">>}, cites: {<<>>, <<"c">>},
              has: [{"session", "declined_at"} -> {nothing, "a"}],
              force: {"rule", "advice"}, body: {"b"}]
Edited == {File!Key("files", nothing), File!Key("cites", nothing), File!Item("f"),
           File!Key("title", "t"), File!Key("force", "odd"), File!Key("declined_at", illegible),
           File!Line("indented", "files", "f"), File!Fence}
ByHand == UNION {{<<File!Fence, File!Key("scope", "p"), File!Key("title", "u")>> \o lines
                    \o <<File!Fence, File!Body("b")>> : lines \in [1..n -> Edited]} : n \in 0..3}
ASSUME FilesAreNotes ==
  /\ \A note \in NotesSome :
       /\ File!NotesRoundTrip(note, "name", 7)
       /\ File!EditsAreLocal(note, "name", 7, File!Key("tags", "v"))
       /\ File!ListsHangOnTheirKeys(note, "name", 7, File!Key("tags", "v"))
  /\ \A file \in ByHand : File!RewritingKeepsTheNote(file, "name", 7, 8)

\* Texts of up to four tokens.
Filter == INSTANCE Redaction WITH
            Open <- open, Close <- close, Begin <- firstLine, End <- lastLine, Newline <- newline,
            Removed <- removed, Block <- block, Arms <- {key}, Schemes <- {bearer},
            Substantial <- {secret, pair, cleanPair, removed, block},
            Cleaned <- pair :> cleanPair @@ cleanPair :> cleanPair
Tokens == {open, close, firstLine, lastLine, newline, key, bearer, secret, pair, word}
ASSUME TextsAreRedacted ==
  \A n \in 0..4 : \A text \in [1..n -> Tokens] :
    Filter!ChangesAreCounted(text) /\ Filter!RedactedTextIsStable(text) /\ Filter!ValuesFollowKeys(text)
=============================================================================
