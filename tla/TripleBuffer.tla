---------------------------- MODULE TripleBuffer ----------------------------
(***************************************************************************)
(* The frame swapchain between an emulation worker (the one writer) and    *)
(* the host's render loop (the one reader): three buffers, two plain       *)
(* pointers and one atomic pointer whose lowest bit is a dirty tag.        *)
(* Source: include/components/TripleBuffer.hpp.                            *)
(*                                                                         *)
(* One action is one atomic access or one half of a callback's copy: the   *)
(* callbacks run without a lock, so the other thread may act between the   *)
(* halves.  All accesses to the tagged pointer are acq_rel exchanges or    *)
(* acquire loads, so a thread that sees a pointer sees what was written    *)
(* behind it before; the plain pointers are each used by one thread.       *)
(***************************************************************************)
EXTENDS Naturals

CONSTANT MaxFrames   \* bound on acquire() calls; the code has none

ASSUME MaxFramesAssumption == MaxFrames \in Nat

VARIABLES
  buffer,     \* slot -> the frame numbers of the two halves of its pixels
  work_ptr,   \* m_work_ptr: the writer's slot
  read_ptr,   \* m_read_ptr: the reader's slot
  swap_ptr,   \* m_swap_ptr: the handoff slot and its dirty tag
  acquired,   \* m_acquire_count; also the number of the frame being written
  published,  \* history: the number of the frame published last
  writer,     \* where the writer is in acquire()
  reader,     \* where the reader is in present()
  first,      \* the first half of the pixels, as the callback read it
  shown       \* history: the frame presented last, as the callback read it

writerVars == <<work_ptr, acquired, published, writer>>
readerVars == <<read_ptr, reader, first, shown>>
vars == <<buffer, swap_ptr, writerVars, readerVars>>

Slot == {"writer", "reader", "middle"}
Version == 0..MaxFrames
Pointer == [slot : Slot, dirty : BOOLEAN]

add_dirty(s) == [slot |-> s, dirty |-> TRUE]
clean(s) == [slot |-> s, dirty |-> FALSE]
sub_dirty(p) == p.slot
-----------------------------------------------------------------------------
(* Plausible mistakes: each definition here changes the one below that its *)
(* comment names, and some property of this module must fail with it.      *)

\* get_dirty: present() exchanges whether or not something was published.
get_dirty_always(p) == TRUE

\* Exchange: the reader clears the tag but stays on its old slot.
ExchangeKeepingSlot ==
  /\ reader = "exchange"
  /\ swap_ptr' = clean(sub_dirty(swap_ptr))
  /\ reader' = "first"
  /\ UNCHANGED <<buffer, writerVars, read_ptr, first, shown>>
-----------------------------------------------------------------------------
get_dirty(p) == p.dirty

Init ==
  /\ buffer = [s \in Slot |-> <<0, 0>>]
  /\ work_ptr = "writer"
  /\ read_ptr = "reader"
  /\ swap_ptr = clean("middle")
  /\ acquired = 0
  /\ published = 0
  /\ writer = "idle"
  /\ reader = "idle"
  /\ first = 0
  /\ shown = <<0, 0>>
-----------------------------------------------------------------------------
(* The writer: acquire(callable).                                          *)

\* ++m_acquire_count and the call of the callable.
AcquireBegin ==
  /\ writer = "idle"
  /\ acquired < MaxFrames
  /\ acquired' = acquired + 1
  /\ writer' = "first"
  /\ UNCHANGED <<buffer, swap_ptr, work_ptr, published, readerVars>>

\* The callable copies pixels into *m_work_ptr, in two halves.
WriteFirst ==
  /\ writer = "first"
  /\ buffer' = [buffer EXCEPT ![work_ptr][1] = acquired]
  /\ writer' = "second"
  /\ UNCHANGED <<swap_ptr, work_ptr, acquired, published, readerVars>>

WriteSecond ==
  /\ writer = "second"
  /\ buffer' = [buffer EXCEPT ![work_ptr][2] = acquired]
  /\ writer' = "publish"
  /\ UNCHANGED <<swap_ptr, work_ptr, acquired, published, readerVars>>

\* The exchange: the work slot goes out dirty, the old handoff slot comes in.
Publish ==
  /\ writer = "publish"
  /\ work_ptr' = sub_dirty(swap_ptr)
  /\ swap_ptr' = add_dirty(work_ptr)
  /\ published' = acquired
  /\ writer' = "idle"
  /\ UNCHANGED <<buffer, acquired, readerVars>>

\* The callable throws: nothing is swapped, what it wrote stays behind.
AcquireThrows ==
  /\ writer \in {"first", "second", "publish"}
  /\ writer' = "idle"
  /\ UNCHANGED <<buffer, swap_ptr, work_ptr, acquired, published, readerVars>>

-----------------------------------------------------------------------------
(* The reader: present(callable).                                          *)

\* The load sees no dirty tag: the callable gets the old slot as not dirty.
PresentClean ==
  /\ reader = "idle"
  /\ ~get_dirty(swap_ptr)
  /\ reader' = "first"
  /\ UNCHANGED <<buffer, swap_ptr, writerVars, read_ptr, first, shown>>

\* The load sees the dirty tag.  The writer may publish again before the
\* exchange that follows.
PresentDirty ==
  /\ reader = "idle"
  /\ get_dirty(swap_ptr)
  /\ reader' = "exchange"
  /\ UNCHANGED <<buffer, swap_ptr, writerVars, read_ptr, first, shown>>

Exchange ==
  /\ reader = "exchange"
  /\ read_ptr' = sub_dirty(swap_ptr)
  /\ swap_ptr' = clean(read_ptr)
  /\ reader' = "first"
  /\ UNCHANGED <<buffer, writerVars, first, shown>>

\* The callable reads *m_read_ptr, in two halves.
ReadFirst ==
  /\ reader = "first"
  /\ first' = buffer[read_ptr][1]
  /\ reader' = "second"
  /\ UNCHANGED <<buffer, swap_ptr, writerVars, read_ptr, shown>>

ReadSecond ==
  /\ reader = "second"
  /\ shown' = <<first, buffer[read_ptr][2]>>
  /\ reader' = "idle"
  /\ UNCHANGED <<buffer, swap_ptr, writerVars, read_ptr, first>>

\* The callable throws: the slot and the tag are consumed all the same.
PresentThrows ==
  /\ reader \in {"first", "second"}
  /\ reader' = "idle"
  /\ UNCHANGED <<buffer, swap_ptr, writerVars, read_ptr, first, shown>>
-----------------------------------------------------------------------------
Writer ==
  AcquireBegin \/ WriteFirst \/ WriteSecond \/ Publish \/ AcquireThrows

Reader ==
  \/ PresentClean \/ PresentDirty \/ Exchange
  \/ ReadFirst \/ ReadSecond \/ PresentThrows

Next == Writer \/ Reader

Spec == Init /\ [][Next]_vars

\* The host renders in every iteration of its loop, so the reader never stops
\* for good.  Nothing is assumed of the writer: a core may stop drawing.
FairSpec == Spec /\ WF_vars(Reader)
-----------------------------------------------------------------------------
\* The types of the variables.
TypeOK ==
  /\ buffer \in [Slot -> Version \X Version]
  /\ work_ptr \in Slot
  /\ read_ptr \in Slot
  /\ swap_ptr \in Pointer
  /\ acquired \in Version
  /\ published \in Version
  /\ writer \in {"idle", "first", "second", "publish"}
  /\ reader \in {"idle", "exchange", "first", "second"}
  /\ first \in Version
  /\ shown \in Version \X Version

\* The class comment's ownership invariant: each slot is pointed to by exactly
\* one of the three pointers, whatever the two threads are in the middle of.
Ownership ==
  /\ work_ptr # read_ptr
  /\ work_ptr # swap_ptr.slot
  /\ read_ptr # swap_ptr.slot

\* The tag says exactly whether the latest frame is still to be taken: it sits
\* complete in the handoff slot while the tag is set, and in the reader's slot
\* once it is clear.  A frame whose callable threw is never among them.
LatestWhereTagged ==
  IF swap_ptr.dirty
  THEN buffer[swap_ptr.slot] = <<published, published>>
  ELSE buffer[read_ptr] = <<published, published>>

\* What a present() callable reads belongs to one frame, however the writer's
\* exchanges and copies fall between its own reads.
NoTornFrame == shown[1] = shown[2]

\* A callable is told `dirty` only for a frame newer than the one it had: a
\* frame is never handed out as new twice, nor an older one after a newer.
DirtyMeansNewer ==
  [][reader = "exchange" /\ reader' = "first"
       => buffer[read_ptr'][1] > buffer[read_ptr][1]]_vars

\* A published frame, or one that replaced it, reaches the reader's slot.
PublishedIsTaken ==
  \A n \in 1..MaxFrames : (published >= n) ~> (buffer[read_ptr][1] >= n)

\* The mailbox that the code implements: the tag is `unread`, the reader's
\* slot is what it holds.
Box == INSTANCE Mailbox WITH
         latest <- published, unread <- swap_ptr.dirty,
         held <- buffer[read_ptr][1], shown <- shown

ImplementsMailbox == Box!Spec
=============================================================================
