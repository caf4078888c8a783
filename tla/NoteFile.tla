------------------------------ MODULE NoteFile ------------------------------
(***************************************************************************)
(* The text of a note: what amb writes, and what it reads of what amb or a *)
(* person wrote (src/memory/note.rs render, split_frontmatter,             *)
(* scan_frontmatter, parse_note).  A file is a sequence of lines, a line   *)
(* is [is, key, value]: a fence, a key with a value or without one, an     *)
(* item of a list, an indented line or one without a colon.                *)
(***************************************************************************)
EXTENDS Integers, SequencesExt

CONSTANTS
  Optional,        \* keys that a note may lack, of those written after its lists
  Forces, Advice,
  Nothing,
  Unreadable       \* the values that are no value of their key

Line(is, key, value) == [is |-> is, key |-> key, value |-> value]
Fence           == Line("fence", Nothing, Nothing)
Key(key, value) == Line("key", key, value)
Item(value)     == Line("item", Nothing, value)
Body(value)     == Line("body", Nothing, value)

\* A list that is empty is not written, nor its key.
PushList(key, items) ==
  IF items = <<>> THEN <<>>
  ELSE <<Key(key, Nothing)>> \o [k \in DOMAIN items |-> Item(items[k])]

Given(note, key) == IF note.has[key] = Nothing THEN <<>> ELSE <<Key(key, note.has[key])>>

(* A note is [title, scope, kind, slug, status, created, files, cites, has,*)
(* force, body]: the other lists and the derivations are like the first    *)
(* two, has is what it has of the optional keys. The id that is written    *)
(* ends in the slug that is read back (NoteIds).                           *)
Render(note) ==
  <<Fence, Key("id", note.slug), Key("kind", note.kind), Key("scope", note.scope),
    Key("title", note.title), Key("status", note.status), Key("created", note.created)>>
  \o PushList("files", note.files) \o PushList("cites", note.cites)
  \o FlattenSeq([k \in DOMAIN Optional |-> Given(note, Optional[k])])
  \o (IF note.force = Advice THEN <<>> ELSE <<Key("force", note.force)>>)
  \o <<Fence, Body(note.body)>>

-----------------------------------------------------------------------------
\* Up to the second fence, which does not follow on the first.
Fenced(file) == Len(file) > 0 /\ file[1] = Fence /\ \E k \in 3..Len(file) : file[k] = Fence
SecondFence(file) == CHOOSE k \in 3..Len(file) : file[k] = Fence /\ \A j \in 3..k - 1 : file[j] # Fence
Header(file) == SubSeq(file, 2, SecondFence(file) - 1)

(* Items go to the first list that is named like the last key without a    *)
(* value; a key with a value ends the list, other lines do nothing.        *)
ScanFrontmatter(front) ==
  LET add(lists, key, value) ==
        LET first == CHOOSE k \in DOMAIN lists : lists[k].key = key /\ \A j \in 1..k - 1 : lists[j].key # key
        IN  [lists EXCEPT ![first].items = Append(@, value)]
      step(scan, line) ==
        CASE line.is = "item" ->
               IF scan.current = Nothing THEN scan
               ELSE [scan EXCEPT !.lists = add(@, scan.current, line.value)]
          [] line.is = "key" /\ line.value = Nothing ->
               [scan EXCEPT !.lists = Append(@, [key |-> line.key, items |-> <<>>]),
                            !.current = line.key]
          [] line.is = "key" /\ line.value # Nothing ->
               [scan EXCEPT !.scalars = Append(@, line), !.current = Nothing]
          [] OTHER -> scan
  IN  FoldLeft(step, [scalars |-> <<>>, lists |-> <<>>, current |-> Nothing], front)

(* The note of a file, or none.  A key stands for what its first line      *)
(* says; the name of the file and its time stand in for what is missing.   *)
ParseNote(file, fallbackSlug, mtime) ==
  LET scan == ScanFrontmatter(Header(file))
      get(key) == LET its == SelectSeq(scan.scalars, LAMBDA line : line.key = key)
                  IN  IF its = <<>> THEN Nothing ELSE Head(its).value
      list(key) == LET its == SelectSeq(scan.lists, LAMBDA l : l.key = key)
                   IN  IF its = <<>> THEN <<>> ELSE Head(its).items
      or(value, default) == IF value = Nothing THEN default ELSE value
      legible(key) == IF get(key) \in Unreadable THEN Nothing ELSE get(key)
      after == SubSeq(file, SecondFence(file) + 1, Len(file))
  IN  IF ~Fenced(file) \/ get("scope") = Nothing \/ get("title") = Nothing THEN {}
      ELSE {[title   |-> get("title"), scope |-> get("scope"),
             kind    |-> or(get("kind"), "observation"),
             slug    |-> or(get("id"), fallbackSlug),
             status  |-> or(get("status"), "active"),
             created |-> or(legible("created"), mtime),
             files   |-> list("files"), cites |-> list("cites"),
             has     |-> [key \in ToSet(Optional) |-> legible(key)],
             force   |-> IF get("force") \in Forces THEN get("force") ELSE Advice,
             body    |-> IF after = <<>> THEN Nothing ELSE Head(after).value]}

-----------------------------------------------------------------------------
(* What amb writes it reads back, and nothing of it rests on the name or   *)
(* the time of the file (D37: the file is the note).                       *)
NotesRoundTrip(note, fallbackSlug, mtime) ==
  ParseNote(Render(note), fallbackSlug, mtime) = {note}

(* Rewriting a file that a person edited changes nothing of what amb reads *)
(* in it, at whatever time; what was no value of its key was read as       *)
(* missing.                                                                *)
RewritingKeepsTheNote(file, slug, mtime, later) ==
  \A note \in ParseNote(file, slug, mtime) :
    /\ NotesRoundTrip(note, slug, later)
    /\ \A key \in ToSet(Optional) : note.has[key] \notin Unreadable

(* An edit of one line does what it says: without a line of a key the note *)
(* is what it was but for that key, unless there is no note without it;    *)
(* a line that is none of amb's, before the items of no list, is nothing;  *)
(* and what is written twice says what it said first.                      *)
Drop(file, k) == SubSeq(file, 1, k - 1) \o SubSeq(file, k + 1, Len(file))
EditsAreLocal(note, slug, mtime, foreign) ==
  LET file == Render(note) IN
  \A k \in 2..SecondFence(file) - 1 :
    LET line == file[k]
        read == ParseNote(Drop(file, k), slug, mtime)
        twice == ParseNote(InsertAt(file, SecondFence(file), [line EXCEPT !.value = foreign.value]),
                           slug, mtime)
    IN  /\ line.is = "key" /\ line.value # Nothing =>
             /\ line.key \in {"title", "scope"} <=> read = {}
             /\ \A other \in read :
                  other = CASE line.key = "id"      -> [note EXCEPT !.slug = slug]
                            [] line.key = "kind"    -> [note EXCEPT !.kind = "observation"]
                            [] line.key = "status"  -> [note EXCEPT !.status = "active"]
                            [] line.key = "created" -> [note EXCEPT !.created = mtime]
                            [] line.key = "force"   -> [note EXCEPT !.force = Advice]
                            [] line.key \in ToSet(Optional) -> [note EXCEPT !.has[line.key] = Nothing]
             /\ twice = {note}
        /\ line.is # "item" => ParseNote(InsertAt(file, k, foreign), slug, mtime) = {note}

(* The key of a list is more than a line: without it its items join the    *)
(* list above, or are lost if there is none; a key with a value cuts its   *)
(* items off, a line that is no key does not; a list that is taken up      *)
(* again goes on.                                                          *)
ListsHangOnTheirKeys(note, slug, mtime, foreign) ==
  LET file == Render(note)
      place(key) == CHOOSE k \in DOMAIN file : file[k] = Key(key, Nothing)
      keyless(key) == ParseNote(Drop(file, place(key)), slug, mtime)
      below(line) == ParseNote(InsertAt(file, place("files") + 1, line), slug, mtime)
      again == InsertAt(InsertAt(file, SecondFence(file), Item("more")),
                        SecondFence(file), Key("files", Nothing))
  IN  /\ note.cites # <<>> =>
           keyless("cites") =
             {[note EXCEPT !.cites = <<>>, !.files = IF @ = <<>> THEN @ ELSE @ \o note.cites]}
      /\ note.files # <<>> =>
           /\ keyless("files") = {[note EXCEPT !.files = <<>>]}
           /\ below(foreign) = {[note EXCEPT !.files = <<>>]}
           /\ below(Line("indented", "files", Nothing)) = {note}
           /\ ParseNote(again, slug, mtime) = {[note EXCEPT !.files = Append(@, "more")]}
=============================================================================
