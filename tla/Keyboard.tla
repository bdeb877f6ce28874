------------------------------ MODULE Keyboard ------------------------------
(***************************************************************************)
(* The keyboard as the threads see it (components/BasicInput): the main    *)
(* thread copies the operating system's state into the buffer that is not  *)
(* active and makes it active; every worker copies the active one when its *)
(* frame begins.  Nothing keeps the main thread out of a buffer that a     *)
(* worker still copies.                                                    *)
(*                                                                         *)
(* A key is the number of the poll that it was copied in; there are two,   *)
(* for a copy is not atomic.                                               *)
(***************************************************************************)
EXTENDS Naturals, FiniteSets

CONSTANT MaxPolls     \* bound on the polls; the code has none

VARIABLES
  buffers,   \* s_buffers
  active,    \* s_current
  polls,     \* the number of the poll that runs or was last
  polling,   \* the keys that it has still to copy, or none if it is over
  target,    \* the buffer it copies to
  from,      \* the buffer that the worker copies, or none between two frames
  left,      \* the keys that the worker has still to copy
  new, old,  \* m_new_buf and m_old_buf
  past,      \* history: the keys of the last frame in which no second poll began
  begun      \* history: the polls that began since the worker took its buffer

keyVars == <<buffers, active, polls, polling, target, from, left, new, old, past, begun>>
mainVars == <<buffers, active, polls, polling, target>>

Key == {"Q", "W"}
Buffer == {0, 1}
None == 2
-----------------------------------------------------------------------------
(* Plausible mistakes.                                                     *)

\* get_backup_buffer: the main thread writes to the buffer that is active.
GetActiveAsBackup == active
-----------------------------------------------------------------------------
KeyboardInit ==
  /\ buffers = [b \in Buffer |-> [k \in Key |-> 0]]
  /\ active = 0 /\ polls = 0 /\ polling = {} /\ target = None
  /\ from = None /\ left = {} /\ begun = 0
  /\ new = [k \in Key |-> 0] /\ old = [k \in Key |-> 0] /\ past = [k \in Key |-> 0]

get_backup_buffer == 1 - active

\* poll_global_state(), by the main thread for every event and frame.
BeginPoll ==
  /\ target = None /\ polls < MaxPolls
  /\ polls' = polls + 1 /\ polling' = Key /\ target' = get_backup_buffer
  /\ begun' = begun + 1
  /\ UNCHANGED <<buffers, active, from, left, new, old, past>>

PollKey(k) ==
  /\ k \in polling
  /\ buffers' = [buffers EXCEPT ![target][k] = polls]
  /\ polling' = polling \ {k}
  /\ UNCHANGED <<active, polls, target, from, left, new, old, past, begun>>

\* swap_active_buffer()
EndPoll ==
  /\ target # None /\ polling = {}
  /\ active' = get_backup_buffer /\ target' = None
  /\ UNCHANGED <<buffers, polls, polling, from, left, new, old, past, begun>>

\* advance_state(): the new keys become the old ones, and the active buffer is taken.
BeginAdvance ==
  /\ from = None
  /\ past' = IF begun <= 1 THEN new ELSE past
  /\ old' = new
  /\ from' = active /\ left' = Key /\ begun' = IF target = None THEN 0 ELSE 1
  /\ UNCHANGED <<mainVars, new>>

AdvanceKey(k) ==
  /\ k \in left
  /\ new' = [new EXCEPT ![k] = buffers[from][k]]
  /\ left' = left \ {k}
  /\ UNCHANGED <<mainVars, from, old, past, begun>>

EndAdvance ==
  /\ from # None /\ left = {}
  /\ from' = None
  /\ UNCHANGED <<mainVars, left, new, old, past, begun>>

KeyboardNext ==
  \/ BeginPoll \/ EndPoll \/ BeginAdvance \/ EndAdvance
  \/ \E k \in Key : PollKey(k) \/ AdvanceKey(k)

KeyboardSpec == KeyboardInit /\ [][KeyboardNext]_keyVars
-----------------------------------------------------------------------------
\* A worker's keys are those of one poll, and never older than those that it had: no
\* chord is seen half, and no key is released and pressed again by itself.  That holds
\* while at most one poll is under way or begins as the worker copies; a second one
\* writes to the very buffer that is copied.
KeysAreOnePoll ==
  from # None /\ left = {} /\ begun <= 1 =>
    \A k, l \in Key : new[k] = new[l] /\ new[k] >= past[k]
=============================================================================
