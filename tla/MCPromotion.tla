----------------------------- MODULE MCPromotion -----------------------------
(* An instance of Promotion: sessions in three projects, of which some share *)
(* a topic and no topic is everyone's.                                       *)
EXTENDS Promotion, TLC

CONSTANTS a, b, e, idea, echo, obs, home, topic, elsewhere, everywhere,
          unopened, allTime, unknownTerms

HomeThree     == a :> "p" @@ b :> "q" @@ e :> "r"
TopicsTwo     == <<"rust", "cli">>
TopicsOfThree == "p" :> {"rust"} @@ "q" :> {"rust", "cli"} @@ "r" :> {"cli"}
RefusesOne    == idea :> {echo} @@ echo :> {}
\* Notes are shown, cited and pruned around what one session derives; what several
\* derive is promoted; it is promoted, declined, rejected or expires while one of
\* them chooses what to offer; its paths are re-indexed while it is derived.
DaysFour == {
  a :> {"hook", "observe", "cite"} @@ b :> {"prune"} @@ e :> {},
  a :> {"derive"} @@ b :> {"derive", "promote", "direct"} @@ e :> {"derive"},
  a :> {"derive", "ready"} @@ b :> {"decline", "reject", "expire"} @@ e :> {"promote"},
  a :> {"observe"} @@ b :> {"expire"} @@ e :> {"hook"}}

\* What is shown is checked on its own, on all choices of three notes where
\* one is shown and two are looked at.
Choice == INSTANCE Selection WITH Home <- home, Topic <- topic, Elsewhere <- elsewhere,
                                  Everywhere <- everywhere, MaxInjected <- 1, Window <- 2
\* Notes one newer than the other.
OfNotes(kinds) == {{[kind |-> f[k].kind, scope |-> f[k].scope, force |-> f[k].force,
                     active |-> f[k].active, about |-> f[k].about, created |-> k] : k \in 1..3}
                   : f \in [1..3 -> kinds]}
Written(kind, about) ==
  [kind: kind, scope: Choice!Scopes, force: {"rule", "advice"}, active: {TRUE}, about: about]
Unfit == {[kind |-> "candidate", scope |-> home, force |-> "rule", active |-> TRUE, about |-> "file"],
          [kind |-> "decision", scope |-> home, force |-> "rule", active |-> FALSE, about |-> "file"]}

AtStart == OfNotes(Written({"observation", "decision"}, {"other"}) \cup Unfit)
AtFile  == OfNotes(Written({"observation"}, {"file", "prefix"}) \cup Unfit)
ASSUME NotesAreChosenRight ==
  /\ \A notes \in AtStart \cup AtFile :
       /\ Choice!OnlyTheInjectableIsShown(notes)
       /\ Choice!SessionCutIsAdmitted(notes)
       /\ Choice!FileCutIsAdmitted(notes)
       /\ Choice!ForeignersYield(notes)
  /\ \E notes \in AtFile : Choice!WindowForgetsTheLocal(notes)
  /\ \E notes \in AtStart : Choice!ForceGoesBeforeScope(notes)

\* What is concluded, on receipts around the thresholds, on all sequences of
\* four --open and --reopen, and on ledgers of two searches.
Concluded == INSTANCE Measurement WITH MinSessions <- 2, MinInjected <- 3, FloorPerCent <- 10,
                                       Unopened <- unopened, AllTime <- allTime,
                                       Unknown <- unknownTerms
Receipts == [injected: {0, 1, 5, 10}, injected_file: {0, 3, 10}, cited: 0..2,
             cited_after_file: 0..1, unprompted: 0..1, sessions: 1..3]
Reopenings(n) == {[k \in 1..n |-> [at |-> k, reopen |-> again[k]]] : again \in [1..n -> BOOLEAN]}
Asks == [session: {a}, at: 1..2, origin: {"session", "probe"}, file: BOOLEAN, across: {FALSE},
         query: {<<>>, <<"one">>, <<"one", "two">>}]
Rows == {Concluded!RecordSearch(ask, found, home) :
           ask \in Asks, found \in {<<>>, <<home>>, <<elsewhere, home>>}}
BeforeTerms == {[row EXCEPT !.terms = unknownTerms] : row \in {r \in Rows : r.terms = 0}}
ASSUME LedgersAreReadRight ==
  /\ \A hooks \in {"installed", "incomplete", "unknown"} :
       /\ \A r \in Receipts : Concluded!UseNeverWithdraws(r, hooks)
       /\ Concluded!NewWindowsAreEmpty(hooks)
  /\ \A n \in 0..4 : \A asks \in Reopenings(n) : Concluded!WindowsAreDeliberate(asks, 5)
  /\ \A n \in 0..2 : \A log \in [1..n -> Rows \cup BeforeTerms] :
       Concluded!SearchesAddUp(log, 2)
=============================================================================
