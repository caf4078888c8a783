------------------------------ MODULE Vendors ------------------------------
(***************************************************************************)
(* Which host CLI a hook is served as: the manifests a user drops in       *)
(* beside the shipped descriptors, the detection by event and environment  *)
(* (src/vendors.rs), and what the event then means (src/hooks.rs).         *)
(***************************************************************************)
EXTENDS Integers, SequencesExt, FiniteSets

CONSTANTS
  Shipped,      \* the descriptors of amb, in order of precedence, the fallback first
  Required,     \* the events a vendor must spell
  Absent,       \* what is missing or empty
  Blank         \* the value of a variable that is set to nothing

Slots == Required \cup {"tool_failed"}

(* A vendor is [id, events, env, tools]; a manifest has [dirs] too, whether *)
(* it says where its settings are.  A file that cannot be read or parsed   *)
(* is Absent.                                                              *)
Spells(v, event) == event # Absent /\ \E slot \in Slots : v.events[slot] = event
SpelledBy(vendors, event) == {k \in DOMAIN vendors : Spells(vendors[k], event)}

Refusal(doc, known) ==
  CASE doc = Absent                                     -> "unreadable"
    [] OTHER ->
  CASE doc.id = Absent                                  -> "id"
    [] doc.id \in {known[k].id : k \in DOMAIN known}    -> "shadows"
    [] doc.tools = {}                                   -> "edit_tools"
    [] ~doc.dirs                                        -> "config_dir"
    [] \E slot \in Required : doc.events[slot] = Absent -> "events"
    [] doc.env = <<>> /\ \A slot \in Slots :
         doc.events[slot] # Absent => SpelledBy(known, doc.events[slot]) # {} -> "unreachable"
    [] OTHER                                            -> "none"

ParseManifest(doc) == [id |-> doc.id, events |-> doc.events, env |-> doc.env, tools |-> doc.tools]

\* files: the manifests in the order of their names.
Loaded(files) ==
  LET load(state, doc) ==
        IF Refusal(doc, state.vendors) = "none"
        THEN [state EXCEPT !.vendors = Append(@, ParseManifest(doc))]
        ELSE [state EXCEPT !.problems = Append(@, doc)]
  IN  FoldLeft(load, [vendors |-> Shipped, problems |-> <<>>], files)

-----------------------------------------------------------------------------
(* The first of a vendor's variables that is set is the one, and if that   *)
(* one is blank there is none.  environment: a value for each variable.    *)
SessionId(v, environment) ==
  LET first == SelectInSeq(v.env, LAMBDA name : environment[name] # Absent) IN
  IF first = 0 \/ environment[v.env[first]] = Blank THEN Absent ELSE environment[v.env[first]]

\* The places in vendors: of the one that alone spells an event, or 0; and by the environment.
VendorForEvent(vendors, event) ==
  IF Cardinality(SpelledBy(vendors, event)) = 1
  THEN CHOOSE k \in SpelledBy(vendors, event) : TRUE ELSE 0
Detect(vendors, environment) ==
  LET first == SelectInSeq(vendors, LAMBDA v : SessionId(v, environment) # Absent) IN
  IF first = 0 THEN 1 ELSE first
DetectForHook(vendors, event, environment) ==
  IF VendorForEvent(vendors, event) # 0 THEN VendorForEvent(vendors, event)
  ELSE Detect(vendors, environment)

DeliverAction(v, event) ==
  CASE event = v.events["tool_post"]   -> "record edit"
    [] event = v.events["session_end"] -> "lapse claims"
    [] OTHER                           -> "offer"
MemoryLane(v, event) ==
  CASE event # Absent /\ event = v.events["tool_failed"] -> "capture"
    [] event = v.events["tool_pre"]                      -> "file"
    [] OTHER                                             -> "session"

-----------------------------------------------------------------------------
(* Whatever lies in the directory, the shipped vendors are there and first,*)
(* ids are told apart, every file is a vendor or a problem, and a file     *)
(* that is refused changes nothing for the others.                         *)
ManifestsOnlyAdd(files) ==
  LET loaded  == Loaded(files)
      vendors == loaded.vendors
      refused == ToSet(loaded.problems)
  IN  /\ IsPrefix(Shipped, vendors)
      /\ \A j, k \in DOMAIN vendors : vendors[j].id = vendors[k].id => j = k
      /\ Len(vendors) + Len(loaded.problems) = Len(Shipped) + Len(files)
      /\ \A k \in DOMAIN files : files[k] \in refused =>
           \/ Loaded(RemoveAt(files, k)).vendors = vendors
           \/ \E j \in DOMAIN files \ {k} : files[j] = files[k]

(* A session whose host exports its own variable is served as that vendor  *)
(* on every one of its events, whatever else is installed (D113, D114).    *)
OwnVariablesDecide(files, environments) ==
  LET vendors == Loaded(files).vendors IN
  \A k \in DOMAIN vendors, environment \in environments :
    LET told == {j \in DOMAIN vendors : SessionId(vendors[j], environment) # Absent}
    IN  told = {k} =>
          \A slot \in Slots : vendors[k].events[slot] # Absent =>
            DetectForHook(vendors, vendors[k].events[slot], environment) = k

(* A session whose host exports nothing is served as its vendor on the     *)
(* events that this vendor alone spells, and as the fallback on the rest:  *)
(* its edits are claimed, and its failures captured, only if they are      *)
(* spelled by it alone or as the fallback spells its own.                  *)
OwnSpellingsDecide(files, environment) ==
  LET vendors == Loaded(files).vendors
      nothing == \A k \in DOMAIN vendors : SessionId(vendors[k], environment) = Absent
  IN  nothing => \A k \in DOMAIN vendors, slot \in Slots :
        LET event == vendors[k].events[slot] IN
        event # Absent =>
          LET by     == DetectForHook(vendors, event, environment)
              served == vendors[by]
              own    == SpelledBy(vendors, event) = {k}
          IN  /\ by = IF own THEN k ELSE 1
              /\ DeliverAction(served, event) = "record edit" <=>
                   (own /\ event = vendors[k].events["tool_post"]) \/ (~own /\ event = Shipped[1].events["tool_post"])
              /\ MemoryLane(served, event) = "capture" <=>
                   (own /\ event = vendors[k].events["tool_failed"]) \/ (~own /\ event = Shipped[1].events["tool_failed"])

(* A session is known by the most specific of its vendor's variables, and  *)
(* one that is set to nothing hides the id in the next.                    *)
BlankHidesTheNext(v, environment) ==
  LET set == {i \in DOMAIN v.env : environment[v.env[i]] # Absent}
      before(i) == {j \in set : j < i}
  IN  /\ SessionId(v, environment) \in {environment[v.env[i]] : i \in set} \cup {Absent}
      /\ SessionId(v, environment) # Blank
      /\ \A i \in set : before(i) = {} =>
           (SessionId(v, environment) = Absent <=> environment[v.env[i]] = Blank)

Reached(vendors, k, environments) ==
  \E slot \in Slots, environment \in environments :
    /\ vendors[k].events[slot] # Absent
    /\ DetectForHook(vendors, vendors[k].events[slot], environment) = k

(* The loader refuses a vendor that no hook can arrive at, judged against  *)
(* those loaded before it (D115).  What it lets through and no hook        *)
(* arrives at is of two kinds: one without a variable, of which a later    *)
(* manifest spells what it alone had spelled; and one whose variables are  *)
(* all another's, looked at first.                                         *)
UnreachedVendors(files, environments) ==
  LET vendors == Loaded(files).vendors IN
  \A k \in DOMAIN vendors :
    /\ Reached(SubSeq(vendors, 1, k), k, environments) \/ vendors[k].env # <<>>
    /\ ~Reached(vendors, k, environments) =>
         IF vendors[k].env = <<>>
         THEN \E j \in k + 1..Len(vendors), slot \in Slots : Spells(vendors[j], vendors[k].events[slot])
         ELSE ToSet(vendors[k].env) \subseteq UNION {ToSet(vendors[j].env) : j \in 1..k - 1}
=============================================================================
