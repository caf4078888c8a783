------------------------------ MODULE HookPlan ------------------------------
(***************************************************************************)
(* What `amb install` and `amb uninstall` make of the hooks of a settings  *)
(* file (src/hooks.rs plan_install, plan_uninstall).  The document keeps,  *)
(* for each event that is a key of it, a list of wrappers, a wrapper being *)
(* a matcher and a list of hook entries; any of the lists may hold         *)
(* something else instead, since amb did not write the file.               *)
(***************************************************************************)
EXTENDS Integers, SequencesExt

CONSTANTS
  NoHooks,   \* the document has no "hooks" key
  Other,     \* a value of another type than the one that is expected
  NoMatcher  \* a wrapper without a matcher

\* Amb's own entries are told by their command line, [ours, memory, exe].
IsOurs(entry) == entry.ours

Keeps(wrapper) == wrapper.hooks = Other \/ wrapper.hooks # <<>>

-----------------------------------------------------------------------------
\* strip_ours() on one wrapper; what holds no list is left alone.
StripWrapper(wrapper) ==
  IF wrapper.hooks = Other THEN wrapper
  ELSE [wrapper EXCEPT !.hooks = SelectSeq(@, LAMBDA e : ~IsOurs(e))]

StripList(list) ==
  IF list = Other THEN Other
  ELSE SelectSeq([k \in DOMAIN list |-> StripWrapper(list[k])], Keeps)

StripOurs(hooks) == [event \in DOMAIN hooks |-> StripList(hooks[event])]

\* The entries of one list, each with its event and its matcher.
EntriesOf(event, list) ==
  IF list = Other THEN <<>>
  ELSE FlattenSeq([k \in DOMAIN list |->
         IF list[k].hooks = Other THEN <<>>
         ELSE [h \in DOMAIN list[k].hooks |-> <<event, list[k].matcher, list[k].hooks[h]>>]])

\* What is taken out: a bag, since the same entry may be there twice.
Times(entry, hooks) ==
  IF hooks = NoHooks \/ entry[1] \notin DOMAIN hooks THEN 0
  ELSE Cardinality({k \in DOMAIN EntriesOf(entry[1], hooks[entry[1]]) :
                      EntriesOf(entry[1], hooks[entry[1]])[k] = entry})

Registered(hooks) ==
  IF hooks = NoHooks THEN {}
  ELSE UNION {ToSet(EntriesOf(event, hooks[event])) : event \in DOMAIN hooks}

-----------------------------------------------------------------------------
\* push_entry(): a wrapper of its own at the end, in place of what is no list.
PushEntry(hooks, wish) ==
  LET event   == wish[1]
      wrapper == [matcher |-> wish[2], hooks |-> <<wish[3]>>]
      list    == IF event \notin DOMAIN hooks \/ hooks[event] = Other THEN <<>>
                 ELSE hooks[event]
  IN  [e \in DOMAIN hooks \cup {event} |->
         IF e = event THEN Append(list, wrapper) ELSE hooks[e]]

Rooted(hooks) == IF hooks \in {NoHooks, Other} THEN [e \in {} |-> <<>>] ELSE hooks

\* wishes: the delivery events of the mode, then those of memory.
Installed(hooks, wishes) == FoldLeft(PushEntry, StripOurs(Rooted(hooks)), wishes)

Uninstalled(hooks) ==
  IF hooks \in {NoHooks, Other} THEN hooks
  ELSE LET stripped == StripOurs(hooks)
           kept     == {e \in DOMAIN stripped : stripped[e] # <<>>}
       IN  IF kept = {} THEN NoHooks ELSE [e \in kept |-> stripped[e]]

-----------------------------------------------------------------------------
(* An entry that is taken out and put back the same is no change: added    *)
(* and removed are what is left when such pairs are cancelled, and settle()*)
(* empties both when the document is what it was.                          *)
OursIn(hooks) == {entry \in Registered(hooks) : IsOurs(entry[3])}

NoopInstall(hooks, wishes) ==
  \/ Installed(hooks, wishes) = hooks
  \/ /\ hooks # Other
     /\ \A entry \in OursIn(hooks) \cup ToSet(wishes) :
          Times(entry, hooks) = Cardinality({k \in DOMAIN wishes : wishes[k] = entry})

NoopUninstall(hooks) == Uninstalled(hooks) = hooks \/ hooks = Other \/ OursIn(hooks) = {}

-----------------------------------------------------------------------------
\* memory_hooks(): the lanes of memory that no entry of amb serves.
MissingLanes(hooks, lanes) ==
  {event \in lanes : \A entry \in OursIn(hooks) : entry[1] # event \/ ~entry[3].memory}

\* What others registered on an event, in their order.
Theirs(hooks, event) ==
  IF hooks = NoHooks \/ event \notin DOMAIN hooks THEN <<>>
  ELSE SelectSeq(EntriesOf(event, hooks[event]), LAMBDA entry : ~IsOurs(entry[3]))

(* What one list of the document says to somebody who looks for more than  *)
(* entries: a shell that amb would drop.                                   *)
Hollow(list) == list # Other /\ (list = <<>> \/ \E k \in DOMAIN list : list[k].hooks = <<>>)

-----------------------------------------------------------------------------
(* Installing twice is installing once, and the second plan is a no-op:    *)
(* else every install would take a backup of amb's own copy (settle).      *)
InstallIsIdempotent(hooks, wishes) ==
  LET once == Installed(hooks, wishes) IN
  Installed(once, wishes) = once /\ NoopInstall(once, wishes)

(* After an install amb's entries are the wanted ones, each once, whatever *)
(* an earlier mode or path of the binary had left behind.                  *)
InstallLeavesTheWanted(hooks, wishes, lanes) ==
  LET after == Installed(hooks, wishes) IN
  /\ OursIn(after) = ToSet(wishes)
  /\ \A entry \in OursIn(after) : Times(entry, after) = 1
  /\ MissingLanes(after, lanes)
       = {event \in lanes : \A wish \in ToSet(wishes) : wish[1] # event \/ ~wish[3].memory}

(* Neither command drops, reorders or moves to another matcher an entry    *)
(* that is not amb's.                                                      *)
OthersAreKept(hooks, wishes) ==
  \A event \in DOMAIN hooks :
    /\ Theirs(Installed(hooks, wishes), event) = Theirs(hooks, event)
    /\ Theirs(Uninstalled(hooks), event) = Theirs(hooks, event)

(* A plan that is reported as no change, and so is never written, would    *)
(* run what runs already (is_noop, apply).                                 *)
NoopsChangeNothing(hooks, wishes) ==
  /\ NoopInstall(hooks, wishes) =>
       \A entry \in Registered(hooks) \cup Registered(Installed(hooks, wishes)) :
         Times(entry, hooks) = Times(entry, Installed(hooks, wishes))
  /\ NoopUninstall(hooks) => Registered(Uninstalled(hooks)) = Registered(hooks)

(* A document without empty shells and without malformed lists is what it  *)
(* was after an install and an uninstall, also when it had no hooks at all.*)
UninstallRestores(hooks, wishes) ==
  /\ OursIn(hooks) = {}
  /\ \A event \in DOMAIN hooks : hooks[event] # Other /\ ~Hollow(hooks[event])
  => Uninstalled(Installed(hooks, wishes)) = IF DOMAIN hooks = {} THEN NoHooks ELSE hooks
=============================================================================
