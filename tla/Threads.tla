------------------------------ MODULE Threads ------------------------------
(***************************************************************************)
(* Which messages a conversation consists of (src/messages.rs thread,      *)
(* reply).  A message may carry the text of a thread: the id of the        *)
(* message that began it, or whatever a sender gave to --thread.  A board  *)
(* is the sequence of the messages' threads; a message's id is its place.  *)
(***************************************************************************)
EXTENDS Naturals, SequencesExt

CONSTANTS
  NoThread,   \* none: the message begins a conversation, or is one
  Names       \* texts given to --thread that are no number

\* send without and with --thread; the text may name a message, also one of
\* later.
Given(ids) == {NoThread} \cup Names \cup ids

\* get(): the root's id, as text, or the thread the message carries.
Root(board, m) == IF board[m] = NoThread THEN m ELSE board[m]

\* reply(): on the thread of what it answers.
Reply(board, m) == Append(board, Root(board, m))

\* thread(): the messages that carry the text, and the one whose id it is.
Thread(board, m) ==
  {k \in DOMAIN board : k = Root(board, m) \/ board[k] = Root(board, m)}

\* Every board that n commands make, the threads given taken from a set.
Boards(n, given) ==
  LET B[k \in 0..n] ==
        IF k = 0 THEN {<<>>}
        ELSE UNION {{Append(board, t) : t \in given} \cup {Reply(board, m) : m \in DOMAIN board}
                    : board \in B[k - 1]}
  IN  B[n]

-----------------------------------------------------------------------------
(* Asked from any of its messages, a conversation is the same messages,    *)
(* the one that began it among them, as long as no sender gives a number   *)
(* to --thread.                                                            *)
ConversationsAreWhole(board) ==
  \A m \in DOMAIN board :
    /\ m \in Thread(board, m)
    /\ \A k \in Thread(board, m) : Thread(board, k) = Thread(board, m)

(* With a number every message is still in its own conversation and in     *)
(* those of the replies to it, but the message that the number names may   *)
(* be part of another one, which does not hold the sender's.               *)
RepliesAreFound(board) ==
  \A m \in DOMAIN board :
    /\ m \in Thread(board, m)
    /\ \A k \in 1..Len(board) : Reply(board, k)[Len(board) + 1] = Root(board, m)
                                => Thread(Reply(board, k), Len(board) + 1)
                                     = Thread(board, m) \cup {Len(board) + 1}
ThreadsMayOverlap(boards) ==
  \E board \in boards : \E m, k \in DOMAIN board :
    k \in Thread(board, m) /\ Thread(board, k) # Thread(board, m)
=============================================================================
