------------------------------ MODULE Mailbox ------------------------------
(***************************************************************************)
(* What a TripleBuffer promises its two users: a mailbox that holds one    *)
(* frame.  A writer replaces the frame in the box whenever it likes, a     *)
(* reader takes the frame in the box if it has not taken it yet, and what  *)
(* the reader shows is always the whole frame it took last.                *)
(*                                                                         *)
(* Frames are numbered in the order in which the writer starts them; a     *)
(* frame consists of two halves so that a mixture of two frames is a value *)
(* different from every frame.  The initial content is frame 0.            *)
(***************************************************************************)
EXTENDS Naturals

CONSTANT MaxFrames   \* the writer starts at most this many frames

VARIABLES
  latest,   \* the number of the frame published last
  unread,   \* has `latest` been published and not been taken?
  held,     \* the number of the frame that the reader took last
  shown     \* the frame that the reader presented last

vars == <<latest, unread, held, shown>>

Frame(n) == <<n, n>>

Init ==
  /\ latest = 0
  /\ unread = FALSE
  /\ held = 0
  /\ shown = Frame(0)

\* The writer publishes a frame newer than every one published before.
Post(n) ==
  /\ n > latest
  /\ latest' = n
  /\ unread' = TRUE
  /\ UNCHANGED <<held, shown>>

\* The reader takes the frame published last.
Take ==
  /\ unread
  /\ held' = latest
  /\ unread' = FALSE
  /\ UNCHANGED <<latest, shown>>

\* The reader presents what it holds.
Show ==
  /\ shown' = Frame(held)
  /\ UNCHANGED <<latest, unread, held>>

Next == (\E n \in 1..MaxFrames : Post(n)) \/ Take \/ Show

Spec == Init /\ [][Next]_vars
=============================================================================
