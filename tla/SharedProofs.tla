---------------------------- MODULE SharedProofs ----------------------------
(***************************************************************************)
(* Proofs about what threads share: the swapchain of frames, for every     *)
(* number of frames; the keys that the main thread polls, for any keys and *)
(* any number of polls; and the ring of the log with its reader in the     *)
(* window and its flusher, for any number of threads that push and any size*)
(* of the ring.                                                            *)
(*                                                                         *)
(* Ownership and the absence of torn frames are not inductive by themselves:*)
(* IInv adds what each slot holds at each point of acquire() and present().*)
(* That a worker has the keys of one poll needs what a poll that still runs*)
(* has written, and where: KeyIInv.  The tickets, the mutex and the loop   *)
(* that raises the head are the inductive invariant of the ring, RingIInv. *)
(* ViewIInv adds what a reader has copied, FlushIInv what the flusher has; *)
(* both need that each ticket above what was read has its slot, or a push  *)
(* that will fill it.                                                      *)
(***************************************************************************)
EXTENDS TripleBuffer, Keyboard, LogFlusher, TLAPS, FiniteSetTheorems

-----------------------------------------------------------------------------
(* The swapchain                                                           *)

\* What the writer's slot holds while a frame is written into it.
WriterContent ==
  /\ published <= acquired
  /\ writer # "idle" => published < acquired
  /\ writer \in {"second", "publish"} => buffer[work_ptr][1] = acquired
  /\ writer = "publish" => buffer[work_ptr][2] = acquired

\* What the reader's slot holds, and how it compares with the latest frame.
ReaderContent ==
  /\ buffer[read_ptr][1] = buffer[read_ptr][2]
  /\ reader = "exchange" => swap_ptr.dirty
  /\ swap_ptr.dirty => buffer[read_ptr][1] < published
  /\ reader = "second" => first = buffer[read_ptr][1]
  /\ shown[1] <= buffer[read_ptr][1]

IInv ==
  /\ TypeOK /\ Ownership
  /\ WriterContent /\ ReaderContent
  /\ LatestWhereTagged /\ NoTornFrame
-----------------------------------------------------------------------------
\* The initial state satisfies every part of the inductive invariant.
LEMMA InitIInv == Init => IInv
  BY MaxFramesAssumption
  DEF Init, IInv, TypeOK, Ownership, WriterContent, ReaderContent,
      LatestWhereTagged, NoTornFrame, Slot, Version, Pointer, clean

\* Every atomic step of acquire() preserves the inductive invariant: the
\* writer touches only its own slot, and gives it away complete.
LEMMA WriterIInv == IInv /\ Writer => IInv'
<1> SUFFICES ASSUME IInv, Writer PROVE IInv'
  OBVIOUS
<1> USE MaxFramesAssumption
    DEF IInv, TypeOK, Ownership, WriterContent, ReaderContent,
        LatestWhereTagged, NoTornFrame, Slot, Version, Pointer, readerVars
<1>1. CASE AcquireBegin
  BY <1>1 DEF AcquireBegin
<1>2. CASE WriteFirst
  BY <1>2 DEF WriteFirst
<1>3. CASE WriteSecond
  BY <1>3 DEF WriteSecond
<1>4. CASE Publish
  BY <1>4 DEF Publish, add_dirty, sub_dirty
<1>5. CASE AcquireThrows
  BY <1>5 DEF AcquireThrows
<1>6. QED
  BY <1>1, <1>2, <1>3, <1>4, <1>5 DEF Writer

\* Every atomic step of present() preserves the inductive invariant: the
\* exchange brings in the latest frame, however late it comes after the load.
LEMMA ReaderIInv == IInv /\ Reader => IInv'
<1> SUFFICES ASSUME IInv, Reader PROVE IInv'
  OBVIOUS
<1> USE MaxFramesAssumption
    DEF IInv, TypeOK, Ownership, WriterContent, ReaderContent,
        LatestWhereTagged, NoTornFrame, Slot, Version, Pointer, writerVars
<1>1. CASE PresentClean
  BY <1>1 DEF PresentClean
<1>2. CASE PresentDirty
  BY <1>2 DEF PresentDirty, get_dirty
<1>3. CASE Exchange
  BY <1>3 DEF Exchange, clean, sub_dirty
<1>4. CASE ReadFirst
  BY <1>4 DEF ReadFirst
<1>5. CASE ReadSecond
  BY <1>5 DEF ReadSecond
<1>6. CASE PresentThrows
  BY <1>6 DEF PresentThrows
<1>7. QED
  BY <1>1, <1>2, <1>3, <1>4, <1>5, <1>6 DEF Reader

\* A step that changes no variable changes no part of the invariant.
LEMMA StutterIInv == IInv /\ UNCHANGED vars => IInv'
  BY DEF IInv, TypeOK, Ownership, WriterContent, ReaderContent,
         LatestWhereTagged, NoTornFrame, Slot, Version, Pointer,
         vars, writerVars, readerVars

\* The inductive invariant holds in every reachable state.
THEOREM Invariance == Spec => []IInv
<1>1. IInv /\ [Next]_vars => IInv'
  BY WriterIInv, ReaderIInv, StutterIInv DEF Next
<1>2. QED
  BY InitIInv, <1>1, PTL DEF Spec
-----------------------------------------------------------------------------
\* The three pointers and the history variables stay within their types.
THEOREM TypeCorrect == Spec => []TypeOK
<1>1. IInv => TypeOK
  BY DEF IInv
<1>2. QED
  BY Invariance, <1>1, PTL

\* The ownership invariant of the class comment: no slot is ever pointed to
\* by two of the three pointers, so the two threads never share a buffer.
THEOREM OwnershipHolds == Spec => []Ownership
<1>1. IInv => Ownership
  BY DEF IInv
<1>2. QED
  BY Invariance, <1>1, PTL

\* The tag tells exactly where the latest complete frame is.
THEOREM TagIsExact == Spec => []LatestWhereTagged
<1>1. IInv => LatestWhereTagged
  BY DEF IInv
<1>2. QED
  BY Invariance, <1>1, PTL

\* No present() callable ever reads a mixture of two frames.
THEOREM FramesAreWhole == Spec => []NoTornFrame
<1>1. IInv => NoTornFrame
  BY DEF IInv
<1>2. QED
  BY Invariance, <1>1, PTL
-----------------------------------------------------------------------------
\* A frame handed out as dirty is newer than the one handed out before it.
THEOREM DirtyIsNewer == Spec => DirtyMeansNewer
<1>1. IInv /\ [Next]_vars
        => [reader = "exchange" /\ reader' = "first"
              => buffer[read_ptr'][1] > buffer[read_ptr][1]]_vars
  <2> SUFFICES ASSUME IInv, [Next]_vars, reader = "exchange", reader' = "first"
               PROVE  buffer[read_ptr'][1] > buffer[read_ptr][1]
    OBVIOUS
  <2>1. Exchange
    BY DEF Next, Writer, Reader, AcquireBegin, WriteFirst, WriteSecond, Publish,
           AcquireThrows, PresentClean, PresentDirty, ReadFirst, ReadSecond,
           PresentThrows, vars, readerVars
  <2>2. swap_ptr.dirty /\ read_ptr' = swap_ptr.slot
    BY <2>1 DEF Exchange, sub_dirty, IInv, ReaderContent
  <2>3. buffer[read_ptr][1] < published /\ buffer[swap_ptr.slot][1] = published
    BY <2>2 DEF IInv, ReaderContent, LatestWhereTagged
  <2>4. QED
    BY <2>2, <2>3, MaxFramesAssumption
    DEF IInv, TypeOK, Slot, Version, Pointer
<1>2. QED
  BY Invariance, <1>1, PTL DEF Spec, DirtyMeansNewer
-----------------------------------------------------------------------------
\* A step of acquire() is invisible to the mailbox, or posts a newer frame.
LEMMA WriterRefines == IInv /\ Writer => [Box!Next]_(Box!vars)
<1> SUFFICES ASSUME IInv, Writer PROVE [Box!Next]_(Box!vars)
  OBVIOUS
<1> USE MaxFramesAssumption
    DEF IInv, TypeOK, Ownership, Slot, Version, Pointer, readerVars,
        Box!vars, Box!Next
<1>1. CASE AcquireBegin
  BY <1>1 DEF AcquireBegin
<1>2. CASE WriteFirst
  BY <1>2 DEF WriteFirst
<1>3. CASE WriteSecond
  BY <1>3 DEF WriteSecond
<1>4. CASE Publish
  <2>1. published' \in 1..MaxFrames /\ published' > published
    BY <1>4 DEF Publish, WriterContent
  <2>2. Box!Post(published')
    BY <1>4, <2>1 DEF Publish, add_dirty, Box!Post
  <2>3. QED
    BY <2>1, <2>2
<1>5. CASE AcquireThrows
  BY <1>5 DEF AcquireThrows
<1>6. QED
  BY <1>1, <1>2, <1>3, <1>4, <1>5 DEF Writer

\* A step of present() is invisible to the mailbox, takes the frame in it, or
\* shows the whole frame taken last.
LEMMA ReaderRefines == IInv /\ Reader => [Box!Next]_(Box!vars)
<1> SUFFICES ASSUME IInv, Reader PROVE [Box!Next]_(Box!vars)
  OBVIOUS
<1> USE MaxFramesAssumption
    DEF IInv, TypeOK, Ownership, Slot, Version, Pointer, writerVars,
        Box!vars, Box!Next
<1>1. CASE PresentClean
  BY <1>1 DEF PresentClean
<1>2. CASE PresentDirty
  BY <1>2 DEF PresentDirty
<1>3. CASE Exchange
  <2>1. Box!Take
    BY <1>3 DEF Exchange, clean, sub_dirty, ReaderContent, LatestWhereTagged, Box!Take
  <2>2. QED
    BY <2>1
<1>4. CASE ReadFirst
  BY <1>4 DEF ReadFirst
<1>5. CASE ReadSecond
  <2>1. Box!Show
    BY <1>5 DEF ReadSecond, ReaderContent, Box!Show, Box!Frame
  <2>2. QED
    BY <2>1
<1>6. CASE PresentThrows
  BY <1>6 DEF PresentThrows
<1>7. QED
  BY <1>1, <1>2, <1>3, <1>4, <1>5, <1>6 DEF Reader

\* The triple buffer implements the one-frame mailbox.
THEOREM TripleBufferIsMailbox == Spec => ImplementsMailbox
<1>1. Init => Box!Init
  BY DEF Init, Box!Init, Box!Frame, clean, Slot
<1>2. IInv /\ [Next]_vars => [Box!Next]_(Box!vars)
  <2>1. UNCHANGED vars => UNCHANGED Box!vars
    BY DEF vars, writerVars, readerVars, Box!vars
  <2>2. QED
    BY <2>1, WriterRefines, ReaderRefines DEF Next
<1>3. QED
  BY Invariance, <1>1, <1>2, PTL DEF Spec, ImplementsMailbox, Box!Spec

-----------------------------------------------------------------------------
(* The keys                                                                *)

\* The types of the keyboard's variables; polls have no bound.
KeyTypes ==
  /\ buffers \in [Buffer -> [Key -> Nat]] /\ active \in Buffer /\ polls \in Nat
  /\ polling \subseteq Key /\ target \in {0, 1, 2} /\ from \in {0, 1, 2} /\ left \subseteq Key
  /\ new \in [Key -> Nat] /\ past \in [Key -> Nat] /\ begun \in Nat

\* The poll that runs goes to the buffer that is not active, and the keys that it has
\* copied are its own; the active buffer is of one poll.
PollIsApart ==
  /\ target # None => target = 1 - active /\ \A k \in Key \ polling : buffers[target][k] = polls
  /\ target = None => polling = {}
  /\ \A k, l \in Key : buffers[active][k] = buffers[active][l]
  /\ \A b \in Buffer, k \in Key : buffers[b][k] <= polls

\* What a worker copies is of one poll until a second poll has begun.
CopyIsWhole ==
  from # None /\ begun <= 1 =>
    /\ target # None => from = active
    /\ begun = 0 => from = active /\ target = None
    /\ \A k, l \in Key : buffers[from][k] = buffers[from][l]
    /\ \A k \in Key \ left : new[k] = buffers[from][k]
    /\ \A k \in Key : past[k] <= buffers[from][k] /\ buffers[from][k] <= buffers[active][k]

\* No keys are newer than those of the active buffer, but those of a poll that runs.
ActiveIsNewest ==
  /\ \A k \in Key : past[k] <= buffers[active][k]
  /\ begun <= 1 => \A k \in Key \ left : new[k] <= buffers[active][k]
  /\ from = None => left = {}

\* The inductive invariant of the keyboard.
KeyIInv == KeyTypes /\ PollIsApart /\ CopyIsWhole /\ ActiveIsNewest

\* The keyboard begins in the invariant.
LEMMA KeyInitial == KeyboardInit => KeyIInv
  BY DEF KeyboardInit, KeyIInv, KeyTypes, PollIsApart, CopyIsWhole, ActiveIsNewest, Buffer, None

\* Each step of a poll and of a worker's copy keeps it.
LEMMA KeyStep == KeyIInv /\ [KeyboardNext]_keyVars => KeyIInv'
<1> SUFFICES ASSUME KeyIInv, [KeyboardNext]_keyVars PROVE KeyIInv'
  OBVIOUS
<1> USE DEF Buffer, None
<1>1. KeyTypes /\ PollIsApart /\ CopyIsWhole /\ ActiveIsNewest
  BY DEF KeyIInv
<1>2. CASE BeginPoll
  <2>1. /\ target = None /\ polls' = polls + 1 /\ polling' = Key /\ target' = 1 - active
        /\ begun' = begun + 1
        /\ UNCHANGED <<buffers, active, from, left, new, past>>
    BY <1>2 DEF BeginPoll, get_backup_buffer
  <2>2. KeyTypes'
    BY <1>1, <2>1 DEF KeyTypes
  <2>3. PollIsApart'
    <3>1. \A b \in Buffer, k \in Key : buffers[b][k] \in Nat /\ buffers[b][k] <= polls
      BY <1>1 DEF KeyTypes, PollIsApart
    <3>2. \A b \in Buffer, k \in Key : buffers'[b][k] <= polls'
      BY <1>1, <2>1, <3>1 DEF KeyTypes
    <3> QED
      BY <1>1, <2>1, <3>2 DEF PollIsApart, KeyTypes
  <2>4. CopyIsWhole'
    BY <1>1, <2>1 DEF CopyIsWhole, KeyTypes
  <2>5. ActiveIsNewest'
    BY <1>1, <2>1 DEF ActiveIsNewest, KeyTypes
  <2> QED
    BY <2>2, <2>3, <2>4, <2>5 DEF KeyIInv
<1>3. ASSUME NEW k \in Key, PollKey(k) PROVE KeyIInv'
  <2>1. /\ k \in polling /\ polling' = polling \ {k}
        /\ buffers' = [buffers EXCEPT ![target][k] = polls]
        /\ UNCHANGED <<active, polls, target, from, left, new, past, begun>>
    BY <1>3 DEF PollKey
  <2>2. target = 1 - active /\ active \in Buffer
    BY <1>1, <2>1 DEF PollIsApart, KeyTypes
  <2>3. /\ buffers' \in [Buffer -> [Key -> Nat]] /\ buffers'[active] = buffers[active]
        /\ buffers'[target][k] = polls
        /\ \A l \in Key \ {k} : buffers'[target][l] = buffers[target][l]
    BY <1>1, <2>1, <2>2 DEF KeyTypes
  <2>4. KeyTypes'
    BY <1>1, <2>1, <2>3 DEF KeyTypes
  <2>5. PollIsApart'
    <3>1. target' # None => /\ target' = 1 - active'
                            /\ \A l \in Key \ polling' : buffers'[target'][l] = polls'
      BY <1>1, <2>1, <2>2, <2>3 DEF PollIsApart
    <3>2. target' = None => polling' = {}
      BY <2>1, <2>2
    <3>3. \A l, m \in Key : buffers'[active'][l] = buffers'[active'][m]
      BY <1>1, <2>1, <2>3 DEF PollIsApart
    <3>4. ASSUME NEW b \in Buffer, NEW l \in Key PROVE buffers'[b][l] <= polls'
      <4>1. buffers[b][l] \in Nat /\ buffers[b][l] <= polls /\ polls \in Nat
        BY <1>1 DEF KeyTypes, PollIsApart
      <4>2. b = active \/ b = target
        BY <2>2
      <4> QED
        BY <2>1, <2>3, <4>1, <4>2
    <3> QED
      BY <3>1, <3>2, <3>3, <3>4 DEF PollIsApart
  <2>6. CopyIsWhole'
    <3> SUFFICES ASSUME from # None, begun <= 1
                 PROVE  CopyIsWhole'
      BY <2>1 DEF CopyIsWhole
    <3>1. from = active
      BY <1>1, <2>2 DEF CopyIsWhole
    <3> QED
      BY <1>1, <2>1, <2>3, <3>1 DEF CopyIsWhole
  <2>7. ActiveIsNewest'
    BY <1>1, <2>1, <2>3 DEF ActiveIsNewest
  <2> QED
    BY <2>4, <2>5, <2>6, <2>7 DEF KeyIInv
<1>4. CASE EndPoll
  <2>1. /\ target # None /\ polling = {} /\ active' = 1 - active /\ target' = None
        /\ UNCHANGED <<buffers, polls, polling, from, left, new, past, begun>>
    BY <1>4 DEF EndPoll, get_backup_buffer
  <2>2. /\ active \in Buffer /\ active' \in Buffer /\ target = active'
        /\ \A k \in Key : buffers'[active'][k] = polls
    BY <1>1, <2>1 DEF PollIsApart, KeyTypes
  <2>3. \A k \in Key : buffers[active][k] \in Nat /\ buffers[active][k] <= buffers'[active'][k]
    BY <1>1, <2>1, <2>2 DEF PollIsApart, KeyTypes
  <2>4. \A k \in Key : new[k] \in Nat /\ past[k] \in Nat /\ buffers'[active'][k] \in Nat
    BY <1>1, <2>2 DEF KeyTypes
  <2>5. KeyTypes'
    BY <1>1, <2>1, <2>2 DEF KeyTypes
  <2>6. PollIsApart'
    BY <1>1, <2>1, <2>2 DEF PollIsApart
  <2>7. CopyIsWhole'
    <3> SUFFICES ASSUME from # None, begun <= 1
                 PROVE  CopyIsWhole'
      BY <2>1 DEF CopyIsWhole
    <3>1. from = active
      BY <1>1, <2>1 DEF CopyIsWhole
    <3> QED
      BY <1>1, <2>1, <2>2, <2>3, <3>1 DEF CopyIsWhole
  <2>8. ActiveIsNewest'
    <3>1. ASSUME NEW k \in Key PROVE past[k] <= buffers'[active'][k]
      BY <1>1, <2>3, <2>4 DEF ActiveIsNewest
    <3>2. ASSUME begun <= 1, NEW k \in Key \ left PROVE new[k] <= buffers'[active'][k]
      BY <1>1, <2>3, <2>4, <3>2 DEF ActiveIsNewest
    <3> QED
      BY <1>1, <2>1, <3>1, <3>2 DEF ActiveIsNewest
  <2> QED
    BY <2>5, <2>6, <2>7, <2>8 DEF KeyIInv
<1>5. CASE BeginAdvance
  <2>1. /\ from = None /\ from' = active /\ left' = Key
        /\ past' = IF begun <= 1 THEN new ELSE past
        /\ begun' = IF target = None THEN 0 ELSE 1
        /\ UNCHANGED <<buffers, active, polls, polling, target, new>>
    BY <1>5 DEF BeginAdvance, mainVars
  <2>2. begun' \in {0, 1} /\ (begun' = 0 => target = None)
    BY <2>1
  <2>3. \A k \in Key : past'[k] <= buffers[active][k]
    BY <1>1, <2>1 DEF ActiveIsNewest
  <2>4. KeyTypes'
    BY <1>1, <2>1, <2>2 DEF KeyTypes
  <2>5. PollIsApart'
    BY <1>1, <2>1 DEF PollIsApart
  <2>6. CopyIsWhole'
    <3>1. \A k \in Key : buffers[active][k] \in Nat
      BY <1>1 DEF KeyTypes
    <3>2. \A k, l \in Key : buffers[active][k] = buffers[active][l]
      BY <1>1 DEF PollIsApart
    <3> QED
      BY <2>1, <2>2, <2>3, <3>1, <3>2 DEF CopyIsWhole
  <2>7. ActiveIsNewest'
    BY <1>1, <2>1, <2>3 DEF ActiveIsNewest, KeyTypes
  <2> QED
    BY <2>4, <2>5, <2>6, <2>7 DEF KeyIInv
<1>6. ASSUME NEW k \in Key, AdvanceKey(k) PROVE KeyIInv'
  <2>1. /\ k \in left /\ left' = left \ {k}
        /\ new' = [new EXCEPT ![k] = buffers[from][k]]
        /\ UNCHANGED <<buffers, active, polls, polling, target, from, past, begun>>
    BY <1>6 DEF AdvanceKey, mainVars
  <2>2. from # None /\ from \in Buffer
    BY <1>1, <2>1 DEF ActiveIsNewest, KeyTypes
  <2>3. new'[k] = buffers[from][k] /\ \A l \in Key \ {k} : new'[l] = new[l]
    BY <1>1, <2>1 DEF KeyTypes
  <2>4. KeyTypes'
    BY <1>1, <2>1, <2>2 DEF KeyTypes
  <2>5. PollIsApart'
    BY <1>1, <2>1 DEF PollIsApart
  <2>6. CopyIsWhole'
    BY <1>1, <2>1, <2>3 DEF CopyIsWhole
  <2>7. ActiveIsNewest'
    <3>1. begun <= 1 => buffers[from][k] <= buffers[active][k]
      BY <1>1, <2>2 DEF CopyIsWhole
    <3> QED
      BY <1>1, <2>1, <2>2, <2>3, <3>1 DEF ActiveIsNewest
  <2> QED
    BY <2>4, <2>5, <2>6, <2>7 DEF KeyIInv
<1>7. CASE EndAdvance
  <2>1. /\ left = {} /\ from' = None
        /\ UNCHANGED <<buffers, active, polls, polling, target, left, new, past, begun>>
    BY <1>7 DEF EndAdvance, mainVars
  <2> QED
    BY <1>1, <2>1 DEF KeyIInv, KeyTypes, PollIsApart, CopyIsWhole, ActiveIsNewest
<1>8. CASE UNCHANGED keyVars
  BY <1>1, <1>8 DEF keyVars, KeyIInv, KeyTypes, PollIsApart, CopyIsWhole, ActiveIsNewest
<1> QED
  BY <1>2, <1>3, <1>4, <1>5, <1>6, <1>7, <1>8 DEF KeyboardNext

\* For any keys: a worker that is not lapped has the keys of one poll, none older than before.
THEOREM KeysAreOfOnePoll == KeyboardSpec => []KeysAreOnePoll
<1>1. KeyIInv => KeysAreOnePoll
  BY DEF KeyIInv, CopyIsWhole, KeysAreOnePoll
<1> QED
  BY KeyInitial, KeyStep, <1>1, PTL DEF KeyboardSpec

-----------------------------------------------------------------------------
(* The ring                                                                *)

\* What a slot holds: the number of its source and its ticket.
Entry == [index : Nat, ticket : Nat]

\* The types of the ring's variables; tickets and sources have no bound.
RingTypes ==
  /\ counter \in Nat \ {0} /\ push_head \in Nat /\ read_head \in Nat
  /\ slots \in [0..N-1 -> Entry]
  /\ entry \in [Producers -> Entry]
  /\ expected \in [Producers -> Nat]
  /\ pc \in [Producers -> {"idle", "made", "claimed", "locked", "stored", "loaded"}]

\* A push that has a ticket and has not finished; one whose slot is still to be filled; one
\* that holds the mutex.
InFlight(p) == pc[p] \in {"claimed", "locked", "stored", "loaded"}
Pending(p)  == pc[p] \in {"claimed", "locked"}
Holds(p)    == pc[p] \in {"locked", "stored", "loaded"}

\* The mutex is held by pushes in common or by the reader alone.
GuardIsHeld ==
  /\ \A p \in Producers : p \in guard <=> Holds(p)
  /\ guard \subseteq Producers \/ guard = {"reader"}

\* A push has a ticket of its own, and no ticket that is not given out.
TicketsApart ==
  /\ \A p \in Producers : pc[p] # "idle" => entry[p].index # 0
  /\ \A p \in Producers : InFlight(p) => entry[p].ticket < push_head
  /\ \A p, q \in Producers :
       InFlight(p) /\ InFlight(q) /\ entry[p].ticket = entry[q].ticket => p = q

\* The head follows the tickets, and no turn of the loop expects more than it.
HeadFollows ==
  /\ read_head = 0 \/ read_head < push_head
  /\ \A p \in Producers : pc[p] = "loaded" => expected[p] <= read_head

\* Every ticket above the head is one of a push that is still to raise it.
NoneForgotten ==
  \A t \in 0..push_head-1 :
    t <= read_head \/ \E p \in Producers : InFlight(p) /\ entry[p].ticket = t

\* The inductive invariant of the ring, for any number of pushes.
RingIInv == RingTypes /\ GuardIsHeld /\ TicketsApart /\ HeadFollows /\ NoneForgotten

\* No more than one thread has ever pushed.
Alone == \A p, q \in Producers : entry[p] # NoEntry /\ entry[q] # NoEntry => p = q

\* Then its ticket is the newest, and the head is behind it until its slot is filled.
AloneIsNewest ==
  Alone => \A p \in Producers :
    /\ InFlight(p) => entry[p].ticket + 1 = push_head
    /\ Pending(p) => read_head = 0 \/ read_head < entry[p].ticket

\* Then a slot holds a ticket as new as the one it was filled for, or a newer one.
AloneIsFilled ==
  Alone => \A t \in 0..push_head-1 :
    \/ \E p \in Producers : Pending(p) /\ entry[p].ticket = t
    \/ slots[t % N].index # 0 /\ slots[t % N].ticket >= t

\* The empty ring satisfies its invariant.
LEMMA RingInitial == RingInit => RingIInv
<1> SUFFICES ASSUME RingInit PROVE RingIInv
  OBVIOUS
<1>1. NoEntry \in Entry
  BY DEF NoEntry, Entry
<1>2. RingTypes
  BY <1>1, RingAssumption DEF RingInit, RingTypes
<1> QED
  BY <1>2 DEF RingInit, RingIInv, GuardIsHeld, TicketsApart, HeadFollows, NoneForgotten,
              InFlight, Holds

\* A push keeps the invariant of the ring.
LEMMA PushKeepsRing ==
  ASSUME RingIInv, NEW p \in Producers, Push(p)
  PROVE  RingIInv'
<1>1. RingTypes /\ GuardIsHeld /\ TicketsApart /\ HeadFollows /\ NoneForgotten
  BY DEF RingIInv
<1>2. N \in Nat \ {0} /\ "reader" \notin Producers
  BY RingAssumption
<1>3. CASE Make(p)
  <2>1. [index |-> counter, ticket |-> 0] \in Entry
    BY <1>1 DEF RingTypes, Entry
  <2>2. RingTypes'
    BY <1>1, <1>3, <2>1 DEF Make, RingTypes
  <2>3. GuardIsHeld'
    BY <1>1, <1>3 DEF Make, GuardIsHeld, Holds, RingTypes
  <2>4. TicketsApart'
    BY <1>1, <1>3 DEF Make, TicketsApart, InFlight, RingTypes
  <2>5. HeadFollows' /\ NoneForgotten'
    BY <1>1, <1>3 DEF Make, HeadFollows, NoneForgotten, InFlight, RingTypes
  <2> QED
    BY <2>2, <2>3, <2>4, <2>5 DEF RingIInv
<1>4. CASE Claim(p)
  <2>1. [entry[p] EXCEPT !.ticket = push_head] \in Entry
    BY <1>1 DEF RingTypes, Entry
  <2>2. RingTypes'
    BY <1>1, <1>4, <2>1 DEF Claim, RingTypes
  <2>3. GuardIsHeld'
    BY <1>1, <1>4 DEF Claim, GuardIsHeld, Holds, RingTypes
  <2>4. /\ entry'[p].ticket = push_head /\ entry'[p].index = entry[p].index
        /\ \A q \in Producers \ {p} : entry'[q] = entry[q] /\ pc'[q] = pc[q]
        /\ pc'[p] = "claimed" /\ push_head' = push_head + 1 /\ read_head' = read_head
    BY <1>1, <1>4 DEF Claim, RingTypes, Entry
  <2>5. TicketsApart'
    <3>1. \A q \in Producers : pc'[q] # "idle" => entry'[q].index # 0
      BY <1>1, <1>4, <2>4 DEF Claim, TicketsApart
    <3>2. ASSUME NEW q \in Producers, InFlight(q)' PROVE entry'[q].ticket < push_head'
      <4>1. push_head \in Nat /\ entry[q].ticket \in Nat
        BY <1>1 DEF RingTypes, Entry
      <4>2. CASE q = p
        BY <2>4, <4>1, <4>2
      <4>3. CASE q # p
        BY <1>1, <2>4, <3>2, <4>1, <4>3 DEF TicketsApart, InFlight
      <4> QED
        BY <4>2, <4>3
    <3>3. ASSUME NEW q \in Producers, NEW r \in Producers,
                 InFlight(q)', InFlight(r)', entry'[q].ticket = entry'[r].ticket
          PROVE  q = r
      <4>1. ASSUME NEW o \in Producers, o # p, InFlight(o)' PROVE entry'[o].ticket < push_head
        BY <1>1, <2>4, <4>1 DEF TicketsApart, InFlight
      <4>2. push_head \in Nat
        BY <1>1 DEF RingTypes
      <4>3. CASE q = p \/ r = p
        BY <2>4, <3>3, <4>1, <4>2, <4>3
      <4>4. CASE q # p /\ r # p
        BY <1>1, <2>4, <3>3, <4>4 DEF TicketsApart, InFlight
      <4> QED
        BY <4>3, <4>4
    <3> QED
      BY <3>1, <3>2, <3>3 DEF TicketsApart
  <2>6. HeadFollows'
    BY <1>1, <1>4, <2>4 DEF Claim, HeadFollows, RingTypes
  <2>7. NoneForgotten'
    <3> SUFFICES ASSUME NEW t \in 0..push_head', t # push_head'
                 PROVE  t <= read_head' \/ \E q \in Producers : InFlight(q)' /\ entry'[q].ticket = t
      BY <1>1, <2>4 DEF NoneForgotten, RingTypes
    <3>1. CASE t = push_head
      BY <3>1, <2>4 DEF InFlight
    <3>2. CASE t # push_head
      <4>1. t \in 0..push_head-1
        BY <1>1, <2>4, <3>2 DEF RingTypes
      <4>2. t <= read_head \/ \E q \in Producers : InFlight(q) /\ entry[q].ticket = t
        BY <1>1, <4>1 DEF NoneForgotten
      <4> QED
        BY <1>4, <2>4, <4>2 DEF InFlight, Claim
    <3> QED
      BY <3>1, <3>2
  <2> QED
    BY <2>2, <2>3, <2>5, <2>6, <2>7 DEF RingIInv
<1>5. CASE Lock(p)
  <2>1. /\ pc[p] = "claimed" /\ pc'[p] = "locked" /\ \A q \in Producers \ {p} : pc'[q] = pc[q]
        /\ UNCHANGED <<counter, push_head, read_head, slots, entry, expected>>
    BY <1>1, <1>5 DEF Lock, RingTypes
  <2>2. RingTypes'
    BY <1>1, <1>5 DEF Lock, RingTypes
  <2>3. GuardIsHeld'
    BY <1>1, <1>5, <2>1 DEF Lock, GuardIsHeld, Holds
  <2>4. TicketsApart' /\ HeadFollows' /\ NoneForgotten'
    BY <1>1, <2>1 DEF TicketsApart, HeadFollows, NoneForgotten, InFlight
  <2> QED
    BY <2>2, <2>3, <2>4 DEF RingIInv
<1>6. CASE Store(p)
  <2>1. /\ pc[p] = "locked" /\ pc'[p] = "stored" /\ \A q \in Producers \ {p} : pc'[q] = pc[q]
        /\ UNCHANGED <<counter, push_head, read_head, guard, entry, expected>>
    BY <1>1, <1>6 DEF Store, RingTypes
  <2>2. RingTypes'
    BY <1>1, <1>6 DEF Store, RingTypes
  <2>3. GuardIsHeld'
    BY <1>1, <2>1 DEF GuardIsHeld, Holds
  <2>4. TicketsApart' /\ HeadFollows' /\ NoneForgotten'
    BY <1>1, <2>1 DEF TicketsApart, HeadFollows, NoneForgotten, InFlight
  <2> QED
    BY <2>2, <2>3, <2>4 DEF RingIInv
<1>7. CASE LoadHead(p)
  <2>1. /\ pc[p] = "stored" /\ pc'[p] = "loaded" /\ \A q \in Producers \ {p} : pc'[q] = pc[q]
        /\ expected'[p] = read_head
        /\ \A q \in Producers \ {p} : expected'[q] = expected[q]
        /\ UNCHANGED <<counter, push_head, read_head, guard, entry, slots>>
    BY <1>1, <1>7 DEF LoadHead, RingTypes
  <2>2. RingTypes'
    BY <1>1, <1>7 DEF LoadHead, RingTypes
  <2>3. GuardIsHeld'
    BY <1>1, <2>1 DEF GuardIsHeld, Holds
  <2>4. TicketsApart' /\ NoneForgotten'
    BY <1>1, <2>1 DEF TicketsApart, NoneForgotten, InFlight
  <2>5. HeadFollows'
    BY <1>1, <2>1 DEF HeadFollows, RingTypes
  <2> QED
    BY <2>2, <2>3, <2>4, <2>5 DEF RingIInv
<1>8. CASE RaiseHead(p)
  <2>1. CASE expected[p] < entry[p].ticket /\ read_head # expected[p]
    <3>1. /\ pc[p] = "loaded" /\ expected' = [expected EXCEPT ![p] = read_head]
          /\ UNCHANGED <<counter, push_head, read_head, guard, pc, entry, slots>>
      BY <1>8, <2>1 DEF RaiseHead
    <3>2. RingTypes'
      BY <1>1, <3>1 DEF RingTypes
    <3>3. GuardIsHeld' /\ TicketsApart' /\ NoneForgotten'
      BY <1>1, <3>1 DEF GuardIsHeld, Holds, TicketsApart, NoneForgotten, InFlight
    <3>4. HeadFollows'
      BY <1>1, <3>1 DEF HeadFollows, RingTypes
    <3> QED
      BY <3>2, <3>3, <3>4 DEF RingIInv
  <2>2. CASE ~(expected[p] < entry[p].ticket /\ read_head # expected[p])
    <3>1. /\ pc[p] = "loaded" /\ pc' = [pc EXCEPT ![p] = "idle"]
          /\ guard' = guard \ {p}
          /\ read_head' = IF expected[p] < entry[p].ticket THEN entry[p].ticket ELSE read_head
          /\ UNCHANGED <<counter, push_head, entry, slots, expected>>
      BY <1>8, <2>2 DEF RaiseHead
    <3>2. /\ pc'[p] = "idle" /\ \A q \in Producers \ {p} : pc'[q] = pc[q]
      BY <1>1, <3>1 DEF RingTypes
    <3>3. /\ read_head' \in Nat /\ read_head' >= read_head /\ read_head' >= entry[p].ticket
          /\ entry[p].ticket < push_head
          /\ read_head' = 0 \/ read_head' < push_head
      BY <1>1, <2>2, <3>1 DEF RingTypes, Entry, HeadFollows, TicketsApart, InFlight
    <3>4. RingTypes'
      BY <1>1, <3>1, <3>3 DEF RingTypes
    <3>5. GuardIsHeld'
      BY <1>1, <1>2, <3>1, <3>2 DEF GuardIsHeld, Holds
    <3>6. TicketsApart'
      BY <1>1, <3>1, <3>2 DEF TicketsApart, InFlight
    <3>7. HeadFollows'
      BY <1>1, <3>1, <3>2, <3>3 DEF HeadFollows, RingTypes
    <3>8. NoneForgotten'
      <4> SUFFICES ASSUME NEW t \in 0..push_head-1, ~(t <= read_head')
                   PROVE  \E q \in Producers : InFlight(q)' /\ entry'[q].ticket = t
        BY <3>1 DEF NoneForgotten
      <4>1. t > read_head /\ t # entry[p].ticket
        BY <1>1, <3>3 DEF RingTypes, Entry
      <4>2. PICK q \in Producers : InFlight(q) /\ entry[q].ticket = t
        BY <1>1, <4>1 DEF NoneForgotten, RingTypes
      <4> QED
        BY <3>1, <3>2, <4>1, <4>2 DEF InFlight
    <3> QED
      BY <3>4, <3>5, <3>6, <3>7, <3>8 DEF RingIInv
  <2> QED
    BY <2>1, <2>2
<1> QED
  BY <1>3, <1>4, <1>5, <1>6, <1>7, <1>8 DEF Push

\* When no push is under way the head is the newest ticket: no raise of it is lost.
LEMMA HeadIsNewest == RingIInv => HeadCatchesUp
<1> SUFFICES ASSUME RingIInv, \A p \in Producers : pc[p] \in {"idle", "made"}, push_head # 0
             PROVE  push_head = read_head + 1
  BY DEF HeadCatchesUp
<1>1. push_head - 1 \in 0..push_head-1 /\ read_head \in Nat /\ push_head \in Nat
  BY DEF RingIInv, RingTypes
<1>2. push_head - 1 <= read_head
  BY <1>1 DEF RingIInv, NoneForgotten, InFlight
<1> QED
  BY <1>1, <1>2 DEF RingIInv, HeadFollows

\* A ticket has a slot.
LEMMA TicketHasSlot == ASSUME NEW t \in Nat PROVE t % N \in 0..N-1
  BY RingAssumption

\* A push of a thread that has been alone so far and stays so: the other threads are idle.
LEMMA OthersAreIdle ==
  ASSUME RingIInv, NEW p \in Producers, Push(p), Alone'
  PROVE  Alone /\ \A q \in Producers \ {p} : pc[q] = "idle"
<1>1. RingTypes /\ TicketsApart
  BY DEF RingIInv
<1>2. entry'[p] # NoEntry /\ \A q \in Producers \ {p} : entry'[q] = entry[q]
  <2>1. CASE Make(p)
    BY <1>1, <2>1 DEF Make, RingTypes, NoEntry
  <2>2. CASE Claim(p)
    <3>1. entry[p].index # 0 /\ entry[p] \in Entry
      BY <1>1, <2>2 DEF Claim, RingTypes, TicketsApart
    <3>2. entry'[p] = [entry[p] EXCEPT !.ticket = push_head]
      BY <1>1, <2>2 DEF Claim, RingTypes
    <3>3. entry'[p].index # 0
      BY <3>1, <3>2 DEF Entry
    <3>4. NoEntry.index = 0
      BY DEF NoEntry
    <3> QED
      BY <1>1, <2>2, <3>3, <3>4 DEF Claim, RingTypes
  <2>3. CASE Lock(p) \/ Store(p) \/ LoadHead(p) \/ RaiseHead(p)
    <3>1. entry' = entry /\ pc[p] # "idle"
      BY <2>3 DEF Lock, Store, LoadHead, RaiseHead
    <3>2. entry[p].index # 0
      BY <1>1, <3>1 DEF TicketsApart
    <3> QED
      BY <3>1, <3>2 DEF NoEntry
  <2> QED
    BY <2>1, <2>2, <2>3 DEF Push
<1>3. ASSUME NEW q \in Producers \ {p} PROVE entry[q] = NoEntry
  BY <1>2 DEF Alone
<1>4. ASSUME NEW q \in Producers \ {p} PROVE pc[q] = "idle"
  BY <1>1, <1>3 DEF TicketsApart, NoEntry
<1> QED
  BY <1>3, <1>4 DEF Alone

\* A push of the only thread that pushes keeps what a reader may expect of it.
LEMMA AlonePush ==
  ASSUME RingIInv, AloneIsNewest, AloneIsFilled, NEW p \in Producers, Push(p)
  PROVE  AloneIsNewest' /\ AloneIsFilled'
<1> SUFFICES ASSUME Alone'
             PROVE  /\ \A q \in Producers :
                         /\ InFlight(q)' => entry'[q].ticket + 1 = push_head'
                         /\ Pending(q)' => read_head' = 0 \/ read_head' < entry'[q].ticket
                    /\ \A t \in 0..push_head'-1 :
                         \/ \E q \in Producers : Pending(q)' /\ entry'[q].ticket = t
                         \/ slots'[t % N].index # 0 /\ slots'[t % N].ticket >= t
  BY DEF AloneIsNewest, AloneIsFilled
<1>1. RingTypes /\ TicketsApart /\ HeadFollows /\ Alone /\ \A q \in Producers \ {p} : pc[q] = "idle"
  BY OthersAreIdle DEF RingIInv
<1>2. \A q \in Producers : InFlight(q) => entry[q].ticket + 1 = push_head
  BY <1>1 DEF AloneIsNewest
<1>3. \A q \in Producers : Pending(q) => read_head = 0 \/ read_head < entry[q].ticket
  BY <1>1 DEF AloneIsNewest
<1>4. \A t \in 0..push_head-1 :
        \/ \E q \in Producers : Pending(q) /\ entry[q].ticket = t
        \/ slots[t % N].index # 0 /\ slots[t % N].ticket >= t
  BY <1>1 DEF AloneIsFilled
<1>5. CASE Make(p)
  <2>1. /\ pc[p] = "idle" /\ pc'[p] = "made" /\ \A q \in Producers \ {p} : pc'[q] = "idle"
        /\ UNCHANGED <<push_head, read_head, slots>>
    BY <1>1, <1>5 DEF Make, RingTypes
  <2> QED
    BY <1>1, <1>4, <2>1 DEF InFlight, Pending
<1>6. CASE Claim(p)
  <2>1. /\ pc[p] = "made" /\ pc'[p] = "claimed" /\ \A q \in Producers \ {p} : pc'[q] = "idle"
        /\ entry'[p].ticket = push_head /\ push_head' = push_head + 1
        /\ UNCHANGED <<read_head, slots>>
    BY <1>1, <1>6 DEF Claim, RingTypes, Entry
  <2>2. push_head \in Nat
    BY <1>1 DEF RingTypes
  <2>3. ASSUME NEW q \in Producers, InFlight(q)' PROVE q = p
    BY <2>1, <2>3 DEF InFlight
  <2>4. \A q \in Producers : InFlight(q)' => entry'[q].ticket + 1 = push_head'
    BY <2>1, <2>3
  <2>5. \A q \in Producers : Pending(q)' => read_head' = 0 \/ read_head' < entry'[q].ticket
    BY <1>1, <2>1, <2>3 DEF HeadFollows, Pending, InFlight
  <2>6. ASSUME NEW t \in 0..push_head'-1
        PROVE  \/ \E q \in Producers : Pending(q)' /\ entry'[q].ticket = t
               \/ slots'[t % N].index # 0 /\ slots'[t % N].ticket >= t
    <3>1. CASE t = push_head
      BY <2>1, <3>1 DEF Pending
    <3>2. CASE t # push_head
      <4>1. t \in 0..push_head-1
        BY <2>1, <2>2, <3>2
      <4>2. \A q \in Producers : ~Pending(q)
        BY <1>1, <2>1 DEF Pending
      <4> QED
        BY <1>4, <2>1, <4>1, <4>2
    <3> QED
      BY <3>1, <3>2
  <2> QED
    BY <2>4, <2>5, <2>6
<1>7. CASE Lock(p)
  <2>1. /\ pc[p] = "claimed" /\ pc'[p] = "locked" /\ \A q \in Producers \ {p} : pc'[q] = "idle"
        /\ UNCHANGED <<push_head, read_head, slots, entry>>
    BY <1>1, <1>7 DEF Lock, RingTypes
  <2>2. \A q \in Producers : (InFlight(q)' <=> InFlight(q)) /\ (Pending(q)' <=> Pending(q))
    BY <1>1, <2>1 DEF InFlight, Pending
  <2> QED
    BY <1>2, <1>3, <1>4, <2>1, <2>2
<1>8. CASE Store(p)
  <2>1. /\ pc[p] = "locked" /\ pc'[p] = "stored" /\ \A q \in Producers \ {p} : pc'[q] = "idle"
        /\ slots' = [slots EXCEPT ![entry[p].ticket % N] = entry[p]]
        /\ UNCHANGED <<push_head, read_head, entry>>
    BY <1>1, <1>8 DEF Store, RingTypes
  <2>2. InFlight(p) /\ entry[p].ticket + 1 = push_head /\ entry[p].index # 0
    BY <1>1, <1>2, <2>1 DEF InFlight, TicketsApart
  <2>3. push_head \in Nat /\ entry[p].ticket \in Nat
    BY <1>1 DEF RingTypes, Entry
  <2>4. \A q \in Producers : InFlight(q)' => entry'[q].ticket + 1 = push_head'
    BY <2>1, <2>2 DEF InFlight
  <2>5. \A q \in Producers : ~Pending(q)'
    BY <2>1 DEF Pending
  <2>6. ASSUME NEW t \in 0..push_head'-1
        PROVE  slots'[t % N].index # 0 /\ slots'[t % N].ticket >= t
    <3>1. t \in 0..push_head-1 /\ t \in Nat /\ t % N \in 0..N-1
      BY <2>1, <2>3, TicketHasSlot
    <3>2. CASE t % N = entry[p].ticket % N
      <4>1. slots'[t % N] = entry[p]
        BY <1>1, <2>1, <3>1, <3>2 DEF RingTypes
      <4> QED
        BY <2>2, <2>3, <3>1, <4>1
    <3>3. CASE t % N # entry[p].ticket % N
      <4>1. slots'[t % N] = slots[t % N]
        BY <1>1, <2>1, <3>1, <3>3 DEF RingTypes
      <4>2. ~ \E q \in Producers : Pending(q) /\ entry[q].ticket = t
        BY <1>1, <2>1, <3>3 DEF Pending
      <4> QED
        BY <1>4, <3>1, <4>1, <4>2
    <3> QED
      BY <3>2, <3>3
  <2> QED
    BY <2>4, <2>5, <2>6
<1>9. CASE LoadHead(p) \/ RaiseHead(p)
  <2>1. /\ pc[p] \in {"stored", "loaded"} /\ pc'[p] \in {"loaded", "idle"}
        /\ \A q \in Producers \ {p} : pc'[q] = "idle"
        /\ UNCHANGED <<push_head, slots, entry>>
    BY <1>1, <1>9 DEF LoadHead, RaiseHead, RingTypes
  <2>2. InFlight(p)
    BY <2>1 DEF InFlight
  <2>3. \A q \in Producers : InFlight(q)' => entry'[q].ticket + 1 = push_head'
    BY <1>2, <2>1, <2>2 DEF InFlight
  <2>4. \A q \in Producers : ~Pending(q)' /\ ~Pending(q)
    BY <1>1, <2>1 DEF Pending
  <2> QED
    BY <1>4, <2>1, <2>3, <2>4
<1> QED
  BY <1>5, <1>6, <1>7, <1>8, <1>9 DEF Push

\* What a push does to what the reader depends on.
LEMMA PushMoves ==
  ASSUME RingIInv, NEW p \in Producers, Push(p)
  PROVE  /\ read_head' >= read_head /\ push_head' >= push_head
         /\ "reader" \in guard' <=> "reader" \in guard
         /\ guard = {"reader"} => slots' = slots /\ read_head' = read_head
<1>1. RingTypes /\ GuardIsHeld /\ p # "reader"
  BY RingAssumption DEF RingIInv
<1>2. CASE Make(p) \/ Claim(p) \/ LoadHead(p)
  BY <1>1, <1>2 DEF Make, Claim, LoadHead, RingTypes
<1>3. CASE Lock(p)
  BY <1>1, <1>3, RingAssumption DEF Lock, RingTypes
<1>4. CASE Store(p)
  BY <1>1, <1>4 DEF Store, RingTypes, GuardIsHeld, Holds
<1>5. CASE RaiseHead(p)
  <2>1. p \in guard
    BY <1>1, <1>5 DEF RaiseHead, GuardIsHeld, Holds
  <2>2. guard' = guard \/ guard' = guard \ {p}
    BY <1>5 DEF RaiseHead
  <2>3. read_head' = read_head
          \/ /\ read_head' = entry[p].ticket /\ expected[p] < entry[p].ticket
             /\ read_head = expected[p]
    BY <1>5 DEF RaiseHead
  <2>4. read_head' >= read_head
    BY <1>1, <2>3 DEF RingTypes, Entry
  <2>5. push_head' = push_head
    BY <1>5 DEF RaiseHead
  <2> QED
    BY <1>1, <2>1, <2>2, <2>4, <2>5 DEF RingTypes
<1> QED
  BY <1>2, <1>3, <1>4, <1>5 DEF Push

-----------------------------------------------------------------------------
(* The reader                                                              *)

\* The types of the reader's variables.
ViewTypes ==
  /\ reading \in {"idle", "waiting", "counting", "copying"} /\ safe \in BOOLEAN
  /\ count \in Nat /\ head \in Nat /\ output \in Seq(Entry)

\* The reader has the mutex for as long as a safe snapshot takes, and copies no more than it
\* counted.
ViewInOrder ==
  /\ reading \in {"waiting", "counting"} => output = <<>>
  /\ reading = "waiting" => safe
  /\ reading = "copying" => head <= read_head /\ Len(output) <= SnapSize(head, count)
  /\ "reader" \in guard <=> safe /\ reading \in {"counting", "copying"}

\* What was copied of one thread's pushes is as new as the head that was loaded.
AloneIsFresh ==
  Alone => \A i \in 1..Len(output) :
     /\ output[i].index # 0
     /\ output[i].ticket >= head - SnapSize(head, count) + i

\* The inductive invariant of the ring and a reader of it.
ViewIInv ==
  /\ RingIInv /\ AloneIsNewest /\ AloneIsFilled
  /\ ViewTypes /\ ViewInOrder /\ AloneIsFresh /\ SafeIsOneMoment

\* That at most one thread has an entry is what Alone says without counting.
LEMMA FewAreAlone ==
  Cardinality({p \in Producers : entry[p] # NoEntry}) <= 1 => Alone
<1> DEFINE S == {p \in Producers : entry[p] # NoEntry}
<1> SUFFICES ASSUME Cardinality(S) <= 1, NEW p \in Producers, NEW q \in Producers,
                    entry[p] # NoEntry, entry[q] # NoEntry, p # q
             PROVE  FALSE
  BY DEF Alone
<1>1. IsFiniteSet(S)
  BY RingAssumption, FS_Subset, S \subseteq Producers
<1>2. IsFiniteSet({p}) /\ Cardinality({p}) = 1
  BY FS_Singleton
<1>3. Cardinality({p} \cup {q}) = 2
  BY <1>2, FS_AddElement
<1>4. {p} \cup {q} \subseteq S
  OBVIOUS
<1>5. Cardinality({p} \cup {q}) <= Cardinality(S)
  BY <1>1, <1>4, FS_Subset
<1>6. Cardinality(S) \in Nat
  BY <1>1, FS_CardinalityType
<1> QED
  BY <1>3, <1>5, <1>6

\* A snapshot is no longer than what there is, and empty while there is nothing.
LEMMA SnapFits ==
  ASSUME NEW h \in Nat, NEW c \in Nat
  PROVE  SnapSize(h, c) \in 0..h+1 /\ (h = 0 => SnapSize(h, c) = 0)
  BY RingAssumption DEF SnapSize, Available

\* The ring and its reader begin in the invariant.
LEMMA ViewInitial == ViewInit => ViewIInv
<1> SUFFICES ASSUME ViewInit PROVE ViewIInv
  OBVIOUS
<1>1. RingInit /\ RingIInv
  BY RingInitial DEF ViewInit
<1>2. AloneIsNewest /\ AloneIsFilled
  BY <1>1 DEF RingInit, AloneIsNewest, AloneIsFilled, InFlight, Pending
<1>3. ViewTypes
  <2>1. safe \in BOOLEAN
    BY DEF ViewInit
  <2> QED
    BY <2>1 DEF ViewInit, ViewTypes
<1>4. ViewInOrder /\ AloneIsFresh /\ SafeIsOneMoment
  BY <1>1 DEF ViewInit, RingInit, ViewInOrder, AloneIsFresh, SafeIsOneMoment
<1> QED
  BY <1>1, <1>2, <1>3, <1>4 DEF ViewIInv

\* A step of the reader that leaves the ring alone, but for the mutex, which it gives back or
\* takes while no push holds it.
LEMMA ReaderKeepsRing ==
  ASSUME RingIInv, AloneIsNewest, AloneIsFilled,
         UNCHANGED <<counter, push_head, read_head, slots, pc, entry, expected>>,
         \/ guard' = guard
         \/ guard' = guard \ {"reader"}
         \/ guard = {} /\ guard' = {"reader"}
  PROVE  RingIInv' /\ AloneIsNewest' /\ AloneIsFilled'
<1>1. RingTypes' /\ TicketsApart' /\ HeadFollows' /\ NoneForgotten'
  BY DEF RingIInv, RingTypes, TicketsApart, HeadFollows, NoneForgotten, InFlight
<1>2. GuardIsHeld'
  BY RingAssumption DEF RingIInv, GuardIsHeld, Holds
<1>3. AloneIsNewest' /\ AloneIsFilled'
  BY DEF AloneIsNewest, AloneIsFilled, Alone, InFlight, Pending
<1> QED
  BY <1>1, <1>2, <1>3 DEF RingIInv

\* Each step of a push or of the reader keeps it.
LEMMA ViewStep == ViewIInv /\ [ViewNext]_viewVars => ViewIInv'
<1> SUFFICES ASSUME ViewIInv, [ViewNext]_viewVars PROVE ViewIInv'
  OBVIOUS
<1>1. /\ RingIInv /\ AloneIsNewest /\ AloneIsFilled
      /\ ViewTypes /\ ViewInOrder /\ AloneIsFresh /\ SafeIsOneMoment
  BY DEF ViewIInv
<1>2. RingTypes /\ GuardIsHeld
  BY <1>1 DEF RingIInv
<1>3. SnapSize(head, count) \in 0..head+1
  BY <1>1, SnapFits DEF ViewTypes
<1>4. ASSUME NEW p \in Producers, Push(p), UNCHANGED windowVars PROVE ViewIInv'
  <2>1. /\ RingIInv' /\ AloneIsNewest' /\ AloneIsFilled'
    BY <1>1, <1>4, PushKeepsRing, AlonePush
  <2>2. /\ read_head' >= read_head
        /\ "reader" \in guard' <=> "reader" \in guard
        /\ guard = {"reader"} => slots' = slots /\ read_head' = read_head
    BY <1>1, <1>4, PushMoves
  <2>3. /\ reading' = reading /\ safe' = safe /\ count' = count /\ head' = head
        /\ output' = output
    BY <1>4 DEF windowVars
  <2>4. ViewTypes'
    BY <1>1, <2>3 DEF ViewTypes
  <2>5. ViewInOrder'
    <3>1. read_head \in Nat /\ read_head' \in Nat /\ head \in Nat
      BY <1>1, <2>1 DEF RingIInv, RingTypes, ViewTypes
    <3>2. SnapSize(head', count') = SnapSize(head, count)
      BY <2>3
    <3> QED
      BY <1>1, <2>2, <2>3, <3>1, <3>2 DEF ViewInOrder
  <2>6. AloneIsFresh'
    <3>1. Alone' => Alone
      BY <1>1, <1>4, OthersAreIdle
    <3> QED
      BY <1>1, <2>3, <3>1 DEF AloneIsFresh
  <2>7. SafeIsOneMoment'
    <3>1. safe /\ reading = "copying" => guard = {"reader"}
      BY <1>1, <1>2, RingAssumption DEF ViewInOrder, GuardIsHeld
    <3> QED
      BY <1>1, <2>2, <2>3, <3>1 DEF SafeIsOneMoment
  <2> QED
    BY <2>1, <2>4, <2>5, <2>6, <2>7 DEF ViewIInv
<1>5. CASE Ask
  <2>1. /\ reading = "idle" /\ count' \in Counts /\ output' = <<>> /\ head' = head
        /\ \/ safe' = FALSE /\ reading' = "counting"
           \/ safe' = TRUE /\ reading' = "waiting"
        /\ UNCHANGED <<counter, push_head, read_head, slots, pc, entry, expected, guard>>
    BY <1>5 DEF Ask, ringVars
  <2>2. RingIInv' /\ AloneIsNewest' /\ AloneIsFilled'
    BY <1>1, <2>1, ReaderKeepsRing
  <2>3. ViewTypes'
    <3>1. count' \in Nat
      BY <2>1, RingAssumption DEF Counts
    <3>2. safe' \in BOOLEAN
      BY <2>1
    <3> QED
      BY <1>1, <2>1, <3>1, <3>2 DEF ViewTypes
  <2>4. ViewInOrder' /\ AloneIsFresh' /\ SafeIsOneMoment'
    BY <1>1, <2>1 DEF ViewInOrder, AloneIsFresh, SafeIsOneMoment
  <2> QED
    BY <2>2, <2>3, <2>4 DEF ViewIInv
<1>6. CASE SafeLock
  <2>1. /\ reading = "waiting" /\ guard = {} /\ guard' = {"reader"} /\ reading' = "counting"
        /\ UNCHANGED <<counter, push_head, read_head, slots, pc, entry, expected>>
        /\ UNCHANGED <<safe, count, head, output>>
    BY <1>6 DEF SafeLock
  <2>2. RingIInv' /\ AloneIsNewest' /\ AloneIsFilled'
    BY <1>1, <2>1, ReaderKeepsRing
  <2>3. ViewTypes' /\ ViewInOrder' /\ AloneIsFresh' /\ SafeIsOneMoment'
    BY <1>1, <2>1 DEF ViewTypes, ViewInOrder, AloneIsFresh, SafeIsOneMoment, Alone
  <2> QED
    BY <2>2, <2>3 DEF ViewIInv
<1>7. CASE LoadViewHead
  <2>1. /\ reading = "counting" /\ head' = read_head /\ reading' = "copying"
        /\ UNCHANGED <<counter, push_head, read_head, slots, pc, entry, expected, guard>>
        /\ UNCHANGED <<safe, count, output>>
    BY <1>7 DEF LoadViewHead, ringVars
  <2>2. RingIInv' /\ AloneIsNewest' /\ AloneIsFilled'
    BY <1>1, <2>1, ReaderKeepsRing
  <2>3. output' = <<>> /\ read_head \in Nat /\ count \in Nat
    BY <1>1, <1>2, <2>1 DEF ViewInOrder, RingTypes, ViewTypes
  <2>4. SnapSize(head', count') \in Nat
    BY <2>1, <2>3, SnapFits
  <2>5. ViewTypes'
    BY <1>1, <2>1, <2>3 DEF ViewTypes
  <2>6. ViewInOrder'
    <3>1. head' <= read_head' /\ Len(output') <= SnapSize(head', count')
      BY <2>1, <2>3, <2>4
    <3> QED
      BY <1>1, <2>1, <3>1 DEF ViewInOrder
  <2>7. AloneIsFresh' /\ SafeIsOneMoment'
    BY <1>1, <2>1, <2>3 DEF AloneIsFresh, SafeIsOneMoment
  <2> QED
    BY <2>2, <2>5, <2>6, <2>7 DEF ViewIInv
<1>8. CASE CopyViewed
  <2> DEFINE S == SnapSize(head, count)
             i == Len(output) + 1
  <2>1. /\ reading = "copying" /\ Len(output) < S
        /\ output' = Append(output, slots[NextTicket % N])
        /\ UNCHANGED <<counter, push_head, read_head, slots, pc, entry, expected, guard>>
        /\ UNCHANGED <<reading, safe, count, head>>
    BY <1>8 DEF CopyViewed, ringVars
  <2>2. RingIInv' /\ AloneIsNewest' /\ AloneIsFilled'
    BY <1>1, <2>1, ReaderKeepsRing
  <2>3. /\ head \in Nat /\ count \in Nat /\ read_head \in Nat /\ push_head \in Nat
        /\ output \in Seq(Entry) /\ Len(output) \in Nat
    BY <1>1, <1>2 DEF ViewTypes, RingTypes
  <2>4. NextTicket = head - S + i /\ NextTicket \in 0..head /\ S \in Nat
    BY <1>3, <2>1, <2>3 DEF NextTicket
  <2>5. /\ Len(output') = i /\ output'[i] = slots[NextTicket % N]
        /\ \A j \in 1..Len(output) : output'[j] = output[j]
        /\ SnapSize(head', count') = S
    BY <2>1, <2>3
  <2>6. slots[NextTicket % N] \in Entry
    BY <1>2, <2>4, TicketHasSlot DEF RingTypes
  <2>7. ViewTypes'
    BY <1>1, <2>1, <2>6 DEF ViewTypes
  <2>8. ViewInOrder'
    <3>1. head' <= read_head' /\ Len(output') <= SnapSize(head', count')
      BY <1>1, <2>1, <2>3, <2>4, <2>5 DEF ViewInOrder
    <3> QED
      BY <1>1, <2>1, <3>1 DEF ViewInOrder
  <2>9. AloneIsFresh'
    <3> SUFFICES ASSUME Alone', NEW j \in 1..Len(output')
                 PROVE  output'[j].index # 0 /\ output'[j].ticket >= head - S + j
      BY <2>1, <2>5 DEF AloneIsFresh
    <3>1. Alone
      BY <2>1 DEF Alone
    <3>2. CASE j \in 1..Len(output)
      BY <1>1, <2>5, <3>1, <3>2 DEF AloneIsFresh
    <3>3. CASE j = i
      <4>1. head > 0
        BY <2>1, <2>3, SnapFits
      <4>2. NextTicket <= read_head /\ read_head # 0 /\ read_head < push_head
        BY <1>1, <2>1, <2>3, <2>4, <4>1 DEF ViewInOrder, RingIInv, HeadFollows
      <4>3. NextTicket \in 0..push_head-1
        BY <2>3, <2>4, <4>2
      <4>4. ASSUME NEW p \in Producers, Pending(p) PROVE entry[p].ticket # NextTicket
        <5>1. read_head < entry[p].ticket /\ entry[p].ticket \in Nat
          BY <1>1, <1>2, <3>1, <4>2, <4>4 DEF AloneIsNewest, RingTypes, Entry
        <5> QED
          BY <2>3, <2>4, <4>2, <5>1
      <4>5. slots[NextTicket % N].index # 0 /\ slots[NextTicket % N].ticket >= NextTicket
        BY <1>1, <3>1, <4>3, <4>4 DEF AloneIsFilled
      <4> QED
        BY <2>4, <2>5, <3>3, <4>5
    <3>4. j \in 1..Len(output) \/ j = i
      BY <2>3, <2>5
    <3> QED
      BY <3>2, <3>3, <3>4
  <2>10. SafeIsOneMoment'
    <3> SUFFICES ASSUME safe, NEW j \in 1..Len(output')
                 PROVE  head = read_head /\ output'[j] = slots[(head - S + j) % N]
      BY <1>1, <2>1, <2>5 DEF SafeIsOneMoment
    <3>1. CASE j \in 1..Len(output)
      BY <1>1, <2>1, <2>5, <3>1 DEF SafeIsOneMoment
    <3>2. CASE j = i
      BY <1>1, <2>1, <2>4, <2>5, <3>2 DEF SafeIsOneMoment
    <3>3. j \in 1..Len(output) \/ j = i
      BY <2>3, <2>5
    <3> QED
      BY <3>1, <3>2, <3>3
  <2> QED
    BY <2>2, <2>7, <2>8, <2>9, <2>10 DEF ViewIInv
<1>9. CASE Return
  <2>1. /\ reading = "copying" /\ reading' = "idle" /\ guard' = guard \ {"reader"}
        /\ UNCHANGED <<counter, push_head, read_head, slots, pc, entry, expected>>
        /\ UNCHANGED <<safe, count, head, output>>
    BY <1>9 DEF Return
  <2>2. RingIInv' /\ AloneIsNewest' /\ AloneIsFilled'
    BY <1>1, <2>1, ReaderKeepsRing
  <2>3. ViewTypes' /\ ViewInOrder' /\ AloneIsFresh' /\ SafeIsOneMoment'
    BY <1>1, <2>1 DEF ViewTypes, ViewInOrder, AloneIsFresh, SafeIsOneMoment, Alone
  <2> QED
    BY <2>2, <2>3 DEF ViewIInv
<1>10. CASE UNCHANGED viewVars
  <2>1. /\ UNCHANGED <<counter, push_head, read_head, slots, pc, entry, expected, guard>>
        /\ UNCHANGED <<reading, safe, count, head, output>>
    BY <1>10 DEF viewVars, ringVars, windowVars
  <2>2. RingIInv' /\ AloneIsNewest' /\ AloneIsFilled'
    BY <1>1, <2>1, ReaderKeepsRing
  <2>3. ViewTypes' /\ ViewInOrder' /\ AloneIsFresh' /\ SafeIsOneMoment'
    BY <1>1, <2>1 DEF ViewTypes, ViewInOrder, AloneIsFresh, SafeIsOneMoment, Alone
  <2> QED
    BY <2>2, <2>3 DEF ViewIInv
<1> QED
  BY <1>4, <1>5, <1>6, <1>7, <1>8, <1>9, <1>10 DEF ViewNext, View

\* For any number of threads and any size of the ring: the head catches up with the pushes,
\* what is read of one thread's pushes is never stale, and a safe snapshot is of one moment.
THEOREM SnapshotsAreOfTheRing == ViewSpec => []SnapshotIsTheRing
<1>1. ViewIInv => SnapshotIsTheRing
  <2> SUFFICES ASSUME ViewIInv PROVE HeadCatchesUp /\ NeverStaleOfOne /\ SafeIsOneMoment
    BY DEF SnapshotIsTheRing
  <2>1. HeadCatchesUp /\ SafeIsOneMoment
    BY HeadIsNewest DEF ViewIInv
  <2>2. NeverStaleOfOne
    BY FewAreAlone DEF ViewIInv, AloneIsFresh, NeverStaleOfOne
  <2> QED
    BY <2>1, <2>2
<1> QED
  BY ViewInitial, ViewStep, <1>1, PTL DEF ViewSpec

-----------------------------------------------------------------------------
(* The flusher                                                             *)

\* The types of the flusher's variables.
FlushTypes ==
  /\ stream \in {"closed", "open", "bad"}
  /\ created \in BOOLEAN /\ raced \in BOOLEAN /\ overrun \in BOOLEAN
  /\ last_flush_pos \in Nat /\ size \in Nat /\ written \in Nat /\ starts_at \in Nat
  /\ flush \in {"idle", "counting", "copying"}
  /\ closing \in {"no", "stopping", "joined", "done"}
  /\ snapshot \in Seq(Entry) /\ file \in Seq(Entry)

\* The file begins where it was opened and ends where the flush is; what is being copied
\* ends at or before the head.
FlushInOrder ==
  /\ stream = "open" => starts_at + Len(file) = last_flush_pos + written
  /\ ~created => stream # "open" /\ file = <<>>
  /\ written <= Len(snapshot) /\ (written # 0 => Len(snapshot) = size)
  /\ Flushed <= push_head /\ Len(snapshot) <= size
  /\ flush # "copying" => size = 0
  /\ flush = "copying" => read_head > 0 /\ last_flush_pos + size <= read_head + 1

\* No slot was copied before its push had filled it, no push lapped what is not flushed.
Clean == ~raced /\ ~overrun

\* Then the slots of all tickets that are not flushed are theirs, or soon will be.
WindowIsFilled ==
  Clean =>
    /\ push_head <= Flushed + N
    /\ \A p \in Producers : Pending(p) => entry[p].ticket >= Flushed
    /\ \A t \in Flushed..push_head-1 :
         \/ \E p \in Producers : Pending(p) /\ entry[p].ticket = t
         \/ slots[t % N].index # 0 /\ slots[t % N].ticket = t

\* Then what was copied are the next tickets, in order, and all of them are filled.
CopiesAreTickets ==
  Clean => \A i \in 1..Len(snapshot) :
     snapshot[i].ticket = last_flush_pos + i - 1 /\ snapshot[i].index # 0

\* A flush that runs as the threads are joined writes all that there is.
Closes ==
  /\ closing # "no" => \A p \in Producers : pc[p] = "idle"
  /\ closing = "done" => flush = "idle"
  /\ Clean /\ closing = "joined" /\ flush = "copying" => last_flush_pos + size = push_head

\* The inductive invariant of the ring, its flusher and the file.
FlushIInv ==
  /\ RingIInv /\ FlushTypes /\ FlushInOrder /\ WindowIsFilled /\ CopiesAreTickets
  /\ Closes /\ LinesAreTickets /\ ShutdownWritesAll

\* A step of the flusher leaves the invariant of the ring alone.
LEMMA RingStutter == RingIInv /\ UNCHANGED ringVars => RingIInv'
<1> SUFFICES ASSUME RingIInv,
                    UNCHANGED <<counter, push_head, read_head, slots, guard, pc, entry, expected>>
             PROVE  RingIInv'
  BY DEF ringVars
<1>1. RingTypes' /\ GuardIsHeld' /\ TicketsApart'
  BY DEF RingIInv, RingTypes, GuardIsHeld, TicketsApart, InFlight, Holds
<1>2. HeadFollows' /\ NoneForgotten'
  BY DEF RingIInv, HeadFollows, NoneForgotten, InFlight
<1> QED
  BY <1>1, <1>2 DEF RingIInv

\* A multiple of a number is as large as the number, or not positive.
LEMMA Multiple ==
  ASSUME NEW n \in Nat \ {0}, NEW d \in Int
  PROVE  d * n \in Int /\ (d >= 1 => d * n >= n) /\ (d <= 0 => d * n <= 0)
  OBVIOUS

\* What a quotient and a remainder are.
LEMMA Quotient ==
  ASSUME NEW a \in Nat, NEW n \in Nat \ {0}
  PROVE  a \div n \in Nat /\ a % n \in Nat /\ a % n = a - (a \div n) * n
  OBVIOUS

\* The difference of two multiples.
LEMMA Minus ==
  ASSUME NEW k \in Nat, NEW l \in Nat, NEW n \in Nat
  PROVE  (l - k) * n = l * n - k * n /\ l * n \in Nat /\ k * n \in Nat
  OBVIOUS

\* Tickets less than a lap apart go to different slots.
LEMMA Apart ==
  ASSUME NEW a \in Nat, NEW b \in Nat, a < b, b < a + N
  PROVE  a % N # b % N
<1>1. N \in Nat \ {0}
  BY RingAssumption
<1> DEFINE k == a \div N
           l == b \div N
<1>2. /\ k \in Nat /\ a % N \in Nat /\ a % N = a - k * N
      /\ l \in Nat /\ b % N \in Nat /\ b % N = b - l * N
  BY <1>1, Quotient
<1> HIDE DEF k, l
<1>3. (l - k) * N = l * N - k * N /\ l * N \in Nat /\ k * N \in Nat
  BY <1>1, <1>2, Minus
<1>5. SUFFICES ASSUME a % N = b % N PROVE FALSE
  OBVIOUS
<1>6. (l - k) * N = b - a
  BY <1>2, <1>3, <1>5
<1>7. l - k \in Int /\ (l - k >= 1 \/ l - k <= 0)
  BY <1>2
<1>8. (l - k >= 1 => (l - k) * N >= N) /\ (l - k <= 0 => (l - k) * N <= 0)
  BY <1>1, <1>7, Multiple
<1> QED
  BY <1>1, <1>6, <1>7, <1>8

\* What is written goes behind what the file has.
LEMMA Joined ==
  ASSUME NEW s \in Seq(Entry), NEW t \in Seq(Entry)
  PROVE  /\ s \o t \in Seq(Entry) /\ Len(s \o t) = Len(s) + Len(t)
         /\ \A k \in 1..Len(s) : (s \o t)[k] = s[k]
         /\ \A k \in (Len(s) + 1)..(Len(s) + Len(t)) : (s \o t)[k] = t[k - Len(s)]
OBVIOUS

\* A part of what was copied.
LEMMA Part ==
  ASSUME NEW s \in Seq(Entry), NEW a \in Nat, NEW k \in a..Len(s)
  PROVE  /\ SubSeq(s, a + 1, k) \in Seq(Entry) /\ Len(SubSeq(s, a + 1, k)) = k - a
         /\ \A i \in 1..(k - a) : SubSeq(s, a + 1, k)[i] = s[a + i]
OBVIOUS

\* How much a flush asks for: what is from its position to the head, if no lap is between.
LEMMA RangeFits ==
  ASSUME NEW h \in Nat, NEW b \in Nat
  PROVE  /\ RangeSize(h, b) \in Nat
         /\ RangeSize(h, b) # 0 => h > 0 /\ b + RangeSize(h, b) <= h + 1
         /\ RangeSize(h, b) = 0 => h = 0 \/ b > h
         /\ h > 0 /\ b <= h /\ h + 1 <= b + N => b + RangeSize(h, b) = h + 1
  BY RingAssumption DEF RangeSize

\* The logger begins in the invariant.
LEMMA FlushInitial == FlusherInit => FlushIInv
<1> SUFFICES ASSUME FlusherInit PROVE FlushIInv
  OBVIOUS
<1>1. RingInit /\ RingIInv
  BY RingInitial DEF FlusherInit
<1>2. FlushTypes
  <2>1. created \in BOOLEAN /\ raced \in BOOLEAN /\ overrun \in BOOLEAN
    BY DEF FlusherInit
  <2> QED
    BY <2>1 DEF FlusherInit, FlushTypes
<1>3. Flushed = 0 /\ push_head = 0
  BY <1>1 DEF FlusherInit, RingInit, Flushed
<1>4. FlushInOrder
  BY <1>3 DEF FlusherInit, FlushInOrder
<1>5. WindowIsFilled
  BY <1>1, <1>3, RingAssumption DEF RingInit, WindowIsFilled, Pending
<1>6. CopiesAreTickets /\ Closes /\ LinesAreTickets /\ ShutdownWritesAll
  BY DEF FlusherInit, CopiesAreTickets, Closes, LinesAreTickets, ShutdownWritesAll
<1> QED
  BY <1>1, <1>2, <1>4, <1>5, <1>6 DEF FlushIInv

\* A push in a window that it does not lap.
LEMMA PushFillsWindow ==
  ASSUME RingIInv, NEW F \in Nat, F <= push_head, NEW p \in Producers, Push(p),
         push_head' <= F + N,
         \A q \in Producers : Pending(q) => entry[q].ticket >= F,
         \A t \in F..push_head-1 :
           \/ \E q \in Producers : Pending(q) /\ entry[q].ticket = t
           \/ slots[t % N].index # 0 /\ slots[t % N].ticket = t
  PROVE  /\ \A q \in Producers : Pending(q)' => entry'[q].ticket >= F
         /\ \A t \in F..push_head'-1 :
              \/ \E q \in Producers : Pending(q)' /\ entry'[q].ticket = t
              \/ slots'[t % N].index # 0 /\ slots'[t % N].ticket = t
<1>1. RingTypes /\ TicketsApart /\ push_head \in Nat
  BY DEF RingIInv, RingTypes
<1>2. CASE Make(p)
  <2>1. /\ pc[p] = "idle" /\ pc'[p] = "made" /\ \A q \in Producers \ {p} : pc'[q] = pc[q]
        /\ \A q \in Producers \ {p} : entry'[q] = entry[q]
        /\ UNCHANGED <<push_head, slots>>
    BY <1>1, <1>2 DEF Make, RingTypes
  <2>2. \A q \in Producers : /\ Pending(q)' <=> Pending(q)
                             /\ Pending(q) => entry'[q] = entry[q]
    BY <1>1, <2>1 DEF Pending
  <2> QED
    BY <2>1, <2>2
<1>3. CASE Claim(p)
  <2>1. /\ pc[p] = "made" /\ pc'[p] = "claimed" /\ \A q \in Producers \ {p} : pc'[q] = pc[q]
        /\ entry'[p].ticket = push_head /\ push_head' = push_head + 1
        /\ \A q \in Producers \ {p} : entry'[q] = entry[q]
        /\ slots' = slots
    BY <1>1, <1>3 DEF Claim, RingTypes, Entry
  <2>2. \A q \in Producers \ {p} : /\ Pending(q)' <=> Pending(q)
                                   /\ Pending(q) => entry'[q] = entry[q]
    BY <2>1 DEF Pending
  <2>3. Pending(p)' /\ ~Pending(p)
    BY <2>1 DEF Pending
  <2>4. ASSUME NEW q \in Producers, Pending(q)' PROVE entry'[q].ticket >= F
    BY <1>1, <2>1, <2>2, <2>4
  <2>5. ASSUME NEW t \in F..push_head'-1
        PROVE  \/ \E q \in Producers : Pending(q)' /\ entry'[q].ticket = t
               \/ slots'[t % N].index # 0 /\ slots'[t % N].ticket = t
    <3>1. CASE t = push_head
      BY <2>1, <2>3, <3>1
    <3>2. CASE t # push_head
      <4>1. t \in F..push_head-1
        BY <1>1, <2>1, <3>2
      <4> QED
        BY <2>1, <2>2, <2>3, <4>1
    <3> QED
      BY <3>1, <3>2
  <2> QED
    BY <2>4, <2>5
<1>4. CASE Lock(p)
  <2>1. /\ pc[p] = "claimed" /\ pc'[p] = "locked" /\ \A q \in Producers \ {p} : pc'[q] = pc[q]
        /\ UNCHANGED <<push_head, slots, entry>>
    BY <1>1, <1>4 DEF Lock, RingTypes
  <2>2. \A q \in Producers : Pending(q)' <=> Pending(q)
    BY <2>1 DEF Pending
  <2> QED
    BY <2>1, <2>2
<1>5. CASE Store(p)
  <2>1. /\ pc[p] = "locked" /\ pc'[p] = "stored" /\ \A q \in Producers \ {p} : pc'[q] = pc[q]
        /\ slots' = [slots EXCEPT ![entry[p].ticket % N] = entry[p]]
        /\ UNCHANGED <<push_head, entry>>
    BY <1>1, <1>5 DEF Store, RingTypes
  <2>2. \A q \in Producers \ {p} : Pending(q)' <=> Pending(q)
    BY <2>1 DEF Pending
  <2>3. Pending(p) /\ ~Pending(p)'
    BY <2>1 DEF Pending
  <2> DEFINE u == entry[p].ticket
  <2>4. u \in Nat /\ u >= F /\ u < push_head /\ entry[p].index # 0
    BY <1>1, <2>1, <2>3 DEF RingTypes, Entry, TicketsApart, InFlight
  <2>5. ASSUME NEW q \in Producers, Pending(q)' PROVE entry'[q].ticket >= F
    BY <2>1, <2>2, <2>3, <2>5
  <2>6. ASSUME NEW t \in F..push_head'-1
        PROVE  \/ \E q \in Producers : Pending(q)' /\ entry'[q].ticket = t
               \/ slots'[t % N].index # 0 /\ slots'[t % N].ticket = t
    <3>1. t \in F..push_head-1 /\ t \in Nat /\ t % N \in 0..N-1
      BY <2>1, TicketHasSlot
    <3>2. CASE t = u
      <4>1. slots'[t % N] = entry[p]
        BY <1>1, <2>1, <3>1, <3>2 DEF RingTypes
      <4> QED
        BY <2>4, <3>2, <4>1
    <3>3. CASE t # u
      <4>1. t < u + N /\ u < t + N
        <5>1. push_head \in Nat /\ N \in Nat /\ push_head <= F + N
          BY <1>1, <2>1, RingAssumption
        <5>2. t \in Nat /\ u \in Nat /\ t >= F /\ u >= F /\ t < push_head /\ u < push_head
          BY <2>4, <3>1, <5>1
        <5> QED
          BY <5>1, <5>2
      <4>2. t % N # u % N
        <5>1. CASE t < u
          BY <2>4, <3>1, <4>1, <5>1, Apart
        <5>2. CASE u < t
          BY <2>4, <3>1, <4>1, <5>2, Apart
        <5> QED
          BY <2>4, <3>1, <3>3, <5>1, <5>2
      <4>3. slots'[t % N] = slots[t % N]
        BY <1>1, <2>1, <3>1, <4>2 DEF RingTypes
      <4>4. CASE slots[t % N].index # 0 /\ slots[t % N].ticket = t
        BY <4>3, <4>4
      <4>5. CASE \E q \in Producers : Pending(q) /\ entry[q].ticket = t
        <5>1. PICK q \in Producers : Pending(q) /\ entry[q].ticket = t
          BY <4>5
        <5>2. q # p
          BY <3>3, <5>1
        <5> QED
          BY <2>1, <2>2, <5>1, <5>2
      <4> QED
        BY <3>1, <4>4, <4>5
    <3> QED
      BY <3>2, <3>3
  <2> QED
    BY <2>5, <2>6
<1>6. CASE LoadHead(p) \/ RaiseHead(p)
  <2>1. /\ pc[p] \in {"stored", "loaded"} /\ pc'[p] \in {"idle", "loaded"}
        /\ \A q \in Producers \ {p} : pc'[q] = pc[q]
        /\ UNCHANGED <<push_head, slots, entry>>
    BY <1>1, <1>6 DEF LoadHead, RaiseHead, RingTypes
  <2>2. \A q \in Producers : Pending(q)' <=> Pending(q)
    BY <2>1 DEF Pending
  <2> QED
    BY <2>1, <2>2
<1> QED
  BY <1>2, <1>3, <1>4, <1>5, <1>6 DEF Push

\* Each step of a push, a flush and the shutdown keeps it.
LEMMA FlushStep == FlushIInv /\ [FlusherNext]_flusherVars => FlushIInv'
<1> SUFFICES ASSUME FlushIInv, [FlusherNext]_flusherVars PROVE FlushIInv'
  OBVIOUS
<1>1. /\ RingIInv /\ FlushTypes /\ FlushInOrder /\ WindowIsFilled /\ CopiesAreTickets
      /\ Closes /\ LinesAreTickets /\ ShutdownWritesAll
  BY DEF FlushIInv
<1>2. RingTypes /\ HeadFollows /\ HeadCatchesUp
  BY <1>1, HeadIsNewest DEF RingIInv
<1>3. /\ push_head \in Nat /\ read_head \in Nat /\ last_flush_pos \in Nat /\ size \in Nat
      /\ snapshot \in Seq(Entry) /\ file \in Seq(Entry)
      /\ Len(snapshot) \in Nat /\ Len(file) \in Nat /\ Flushed \in Nat
      /\ N \in Nat \ {0} /\ written \in Nat /\ starts_at \in Nat
  BY <1>1, <1>2, RingAssumption DEF RingTypes, FlushTypes, Flushed
<1>14. /\ last_flush_pos \in Nat /\ size \in Nat /\ written \in Nat /\ starts_at \in Nat
       /\ read_head \in Nat /\ push_head \in Nat /\ Flushed \in Nat
       /\ Len(snapshot) \in Nat /\ Len(file) \in Nat
  BY <1>3
<1>4. ASSUME NEW p \in Producers, Log(p) PROVE FlushIInv'
  <2>1. /\ closing = "no" /\ Push(p)
        /\ overrun' = (overrun \/ push_head' > Flushed + N)
        /\ stream' = stream /\ created' = created /\ last_flush_pos' = last_flush_pos
        /\ flush' = flush /\ size' = size /\ snapshot' = snapshot /\ written' = written
        /\ file' = file /\ starts_at' = starts_at /\ closing' = closing /\ raced' = raced
        /\ Flushed' = Flushed
    BY <1>4 DEF Log, Flushed
  <2>2. RingIInv'
    BY <1>1, <2>1, PushKeepsRing
  <2>3. /\ read_head' >= read_head /\ push_head' >= push_head
        /\ read_head' \in Nat /\ push_head' \in Nat
    BY <1>1, <2>1, <2>2, PushMoves DEF RingIInv, RingTypes
  <2>4. overrun' \in BOOLEAN
    BY <2>1
  <2>5. FlushTypes'
    BY <1>1, <2>1, <2>4 DEF FlushTypes
  <2>6. FlushInOrder'
    <3>3. /\ Flushed <= push_head
          /\ flush = "copying" => read_head > 0 /\ last_flush_pos + size <= read_head + 1
      BY <1>1 DEF FlushInOrder
    <3>4. flush' = flush /\ last_flush_pos' = last_flush_pos /\ size' = size /\ Flushed' = Flushed
      BY <2>1
    <3>1. Flushed' <= push_head'
      BY ONLY <1>14, <2>3, <3>3, <3>4
    <3>2. flush' = "copying" => read_head' > 0 /\ last_flush_pos' + size' <= read_head' + 1
      <4>1. ASSUME NEW a \in Nat, NEW b \in Nat, NEW c \in Nat, a > 0, c <= a + 1, b >= a
            PROVE  b > 0 /\ c <= b + 1
        BY <4>1
      <4>2. last_flush_pos + size \in Nat
        BY ONLY <1>14
      <4>3. flush = "copying" => read_head' > 0 /\ last_flush_pos + size <= read_head' + 1
        BY ONLY <1>14, <2>3, <3>3, <4>1, <4>2
      <4> QED
        BY ONLY <3>4, <4>3
    <3> QED
      BY <1>1, <2>1, <3>1, <3>2 DEF FlushInOrder
  <2>7. Clean' => Clean /\ push_head' <= Flushed + N
    <3>1. Clean' => Clean /\ ~(push_head' > Flushed + N)
      BY <2>1, Zenon DEF Clean
    <3>2. ~(push_head' > Flushed + N) => push_head' <= Flushed + N
      BY <1>3, <2>3
    <3> QED
      BY <3>1, <3>2
  <2>8. WindowIsFilled'
    <3> SUFFICES ASSUME Clean'
                 PROVE  /\ push_head' <= Flushed + N
                        /\ \A q \in Producers : Pending(q)' => entry'[q].ticket >= Flushed
                        /\ \A t \in Flushed..push_head'-1 :
                             \/ \E q \in Producers : Pending(q)' /\ entry'[q].ticket = t
                             \/ slots'[t % N].index # 0 /\ slots'[t % N].ticket = t
      BY <2>1 DEF WindowIsFilled
    <3>1. /\ \A q \in Producers : Pending(q) => entry[q].ticket >= Flushed
          /\ \A t \in Flushed..push_head-1 :
               \/ \E q \in Producers : Pending(q) /\ entry[q].ticket = t
               \/ slots[t % N].index # 0 /\ slots[t % N].ticket = t
      BY <1>1, <2>7 DEF WindowIsFilled
    <3>2. Flushed <= push_head
      BY <1>1 DEF FlushInOrder
    <3> QED
      BY <1>1, <1>3, <2>1, <2>7, <3>1, <3>2, PushFillsWindow
  <2>9. CopiesAreTickets' /\ Closes' /\ LinesAreTickets' /\ ShutdownWritesAll'
    BY <1>1, <2>1, <2>7 DEF CopiesAreTickets, Closes, LinesAreTickets, ShutdownWritesAll, Clean
  <2> QED
    BY <2>2, <2>5, <2>6, <2>8, <2>9 DEF FlushIInv
<1>5. ASSUME UNCHANGED ringVars PROVE RingIInv' /\ (HeadFollows' /\ HeadCatchesUp')
  <2>1. RingIInv'
    BY <1>1, <1>5, RingStutter
  <2> QED
    BY <1>5, <1>2, <2>1 DEF RingIInv, HeadCatchesUp, ringVars
<1>6. ASSUME UNCHANGED ringVars, UNCHANGED <<last_flush_pos, snapshot, raced, overrun>>
      PROVE  Flushed' = Flushed /\ (Clean' <=> Clean) /\ WindowIsFilled' /\ CopiesAreTickets'
  <2>1. /\ Flushed' = Flushed /\ (Clean' <=> Clean)
        /\ push_head' = push_head /\ pc' = pc /\ entry' = entry /\ slots' = slots
        /\ last_flush_pos' = last_flush_pos /\ snapshot' = snapshot
    BY <1>6 DEF Flushed, Clean, ringVars
  <2>2. \A q \in Producers : Pending(q)' <=> Pending(q)
    BY <2>1 DEF Pending
  <2> QED
    BY <1>1, <2>1, <2>2 DEF WindowIsFilled, CopiesAreTickets
<1>7. CASE create_log
  <2>1. /\ UNCHANGED ringVars /\ UNCHANGED <<last_flush_pos, snapshot, raced, overrun>>
        /\ UNCHANGED <<flush, size, file, closing>>
        /\ ~created /\ created' = TRUE
        /\ \/ stream' \in {stream, "bad"} /\ written' = written /\ starts_at' = starts_at
           \/ /\ stream' = "open" /\ starts_at' = last_flush_pos + written'
              /\ written' \in 0..(IF flush = "copying" /\ Len(snapshot) = size
                                   THEN size ELSE 0)
    BY <1>7 DEF create_log
  <2>2. push_head' = push_head /\ read_head' = read_head /\ pc' = pc
    BY <2>1 DEF ringVars
  <2>3. /\ written' \in Nat /\ written' <= Len(snapshot)
        /\ written' # 0 => Len(snapshot) = size
        /\ stream' \in {"closed", "open", "bad"} /\ starts_at' \in Nat
    <3>1. /\ written <= Len(snapshot) /\ (written # 0 => Len(snapshot) = size)
          /\ stream \in {"closed", "open", "bad"}
      BY <1>1 DEF FlushTypes, FlushInOrder
    <3>2. CASE stream' \in {stream, "bad"} /\ written' = written /\ starts_at' = starts_at
      BY <1>3, <3>1, <3>2
    <3>3. CASE /\ stream' = "open" /\ starts_at' = last_flush_pos + written'
               /\ written' \in 0..(IF flush = "copying" /\ Len(snapshot) = size
                                    THEN size ELSE 0)
      <4>1. CASE flush = "copying" /\ Len(snapshot) = size
        <5>1. written' \in 0..size
          BY <3>3, <4>1
        <5>2. written' \in Nat /\ written' <= size /\ last_flush_pos + written' \in Nat
          <6>1. ASSUME NEW a \in Nat, NEW b \in Nat, NEW c \in 0..b
                PROVE  c \in Nat /\ c <= b /\ a + c \in Nat
            BY <6>1
          <6>2. last_flush_pos \in Nat /\ size \in Nat
            BY <1>14
          <6> QED
            BY ONLY <5>1, <6>1, <6>2
        <5>3. size = Len(snapshot) /\ stream' = "open" /\ starts_at' = last_flush_pos + written'
          BY <3>3, <4>1
        <5> QED
          BY ONLY <5>2, <5>3
      <4>2. CASE ~(flush = "copying" /\ Len(snapshot) = size)
        <5>1. written' \in 0..0
          BY <3>3, <4>2
        <5> QED
          BY <1>3, <3>3, <5>1
      <4> QED
        BY <4>1, <4>2
    <3> QED
      BY <2>1, <3>2, <3>3
  <2>4. file = <<>> /\ stream # "open" /\ Len(file) = 0
    BY <1>1, <2>1 DEF FlushInOrder
  <2>5. stream' = "open" => starts_at' + Len(file') = last_flush_pos' + written'
    <3>1. stream' = "open" => starts_at' = last_flush_pos + written'
      BY <2>1, <2>4
    <3>2. file' = file /\ last_flush_pos' = last_flush_pos
      BY <2>1
    <3> QED
      BY ONLY <1>14, <2>3, <2>4, <3>1, <3>2
  <2>6. FlushTypes'
    BY <1>1, <2>1, <2>3 DEF FlushTypes
  <2>7. FlushInOrder'
    BY <1>1, <1>6, <2>1, <2>2, <2>3, <2>5 DEF FlushInOrder
  <2>8. closing # "done"
    BY <1>7 DEF create_log
  <2>9. LinesAreTickets' /\ ShutdownWritesAll'
    BY <1>6, <2>1, <2>4, <2>8 DEF LinesAreTickets, ShutdownWritesAll
  <2>10. Closes'
    BY <1>1, <1>6, <2>1, <2>2 DEF Closes
  <2> QED
    BY <1>5, <1>6, <2>1, <2>6, <2>7, <2>9, <2>10 DEF FlushIInv
<1>13. CASE StartFlush
  <2>1. /\ UNCHANGED ringVars /\ UNCHANGED <<last_flush_pos, snapshot, raced, overrun>>
        /\ UNCHANGED <<stream, created, written, starts_at, size, file, closing>>
        /\ closing # "done" /\ flush = "idle" /\ flush' = "counting"
    BY <1>13 DEF StartFlush
  <2>2. push_head' = push_head /\ read_head' = read_head /\ pc' = pc
    BY <2>1 DEF ringVars
  <2>3. FlushTypes' /\ FlushInOrder'
    BY <1>1, <1>6, <2>1, <2>2 DEF FlushTypes, FlushInOrder
  <2>4. Closes' /\ LinesAreTickets' /\ ShutdownWritesAll'
    BY <1>1, <1>6, <2>1, <2>2 DEF Closes, LinesAreTickets, ShutdownWritesAll, Clean
  <2> QED
    BY <1>5, <1>6, <2>1, <2>3, <2>4 DEF FlushIInv
<1>8. CASE LoadReadHead
  <2>1. /\ flush = "counting" /\ size' = RangeSize(read_head, last_flush_pos)
        /\ \/ /\ size' = 0 /\ flush' = "idle"
              /\ closing' = IF closing = "joined" THEN "done" ELSE closing
           \/ size' # 0 /\ flush' = "copying" /\ closing' = closing
        /\ UNCHANGED ringVars /\ UNCHANGED <<last_flush_pos, snapshot, raced, overrun>>
        /\ UNCHANGED <<stream, created, written, starts_at, file>>
    BY <1>8 DEF LoadReadHead
  <2>2. push_head' = push_head /\ read_head' = read_head /\ pc' = pc
    BY <2>1 DEF ringVars
  <2>3. /\ size' \in Nat
        /\ size' # 0 => read_head > 0 /\ last_flush_pos + size' <= read_head + 1
        /\ size' = 0 => read_head = 0 \/ last_flush_pos > read_head
        /\ read_head > 0 /\ last_flush_pos <= read_head /\ read_head + 1 <= last_flush_pos + N
             => last_flush_pos + size' = read_head + 1
    BY <1>3, <2>1, RangeFits
  <2>4. Len(snapshot) = 0 /\ written = 0
    BY <1>1, <1>3, <2>1 DEF FlushInOrder, FlushTypes
  <2>5. FlushTypes'
    BY <1>1, <2>1, <2>3 DEF FlushTypes
  <2>6. FlushInOrder'
    <3>1. /\ Flushed' <= push_head'
          /\ stream' = "open" => starts_at' + Len(file') = last_flush_pos' + written'
          /\ ~created' => stream' # "open" /\ file' = <<>>
          /\ written' = 0 /\ written' <= Len(snapshot')
      BY <1>1, <1>6, <2>1, <2>2, <2>4 DEF FlushInOrder
    <3>2. Len(snapshot') <= size'
      BY <2>1, <2>3, <2>4
    <3> QED
      BY <2>1, <2>2, <2>3, <3>1, <3>2 DEF FlushInOrder
  <2>7. Flushed = last_flush_pos
    BY <1>3, <2>4 DEF Flushed
  <2>8. closing = "joined" => push_head \in {0, read_head + 1}
    BY <1>1, <1>2 DEF Closes, HeadCatchesUp
  <2>9. Clean /\ closing = "joined" /\ size' # 0 => last_flush_pos + size' = push_head
    <3> SUFFICES ASSUME Clean, closing = "joined", size' # 0
                 PROVE  last_flush_pos + size' = push_head
      OBVIOUS
    <3>1. read_head > 0 /\ last_flush_pos <= read_head
      <4>1. size' \in Nat /\ size' # 0 /\ read_head > 0 /\ last_flush_pos + size' <= read_head + 1
        BY <2>3
      <4>2. ASSUME NEW s \in Nat, s # 0, last_flush_pos + s <= read_head + 1
            PROVE  last_flush_pos <= read_head
        BY <1>3, <4>2
      <4> QED
        BY <4>1, <4>2
    <3>2. push_head = read_head + 1
      BY <1>2, <1>3, <2>8, <3>1 DEF HeadFollows
    <3>3. push_head <= last_flush_pos + N
      BY <1>1, <2>7 DEF WindowIsFilled
    <3> QED
      BY <2>3, <3>1, <3>2, <3>3
  <2>10. closing = "joined" /\ stream = "open" /\ size' = 0 /\ push_head # 1
           => starts_at + Len(file) = push_head
    <3> SUFFICES ASSUME closing = "joined", size' = 0, push_head # 1
                 PROVE  last_flush_pos = push_head
      BY <1>1, <1>3, <2>4 DEF FlushInOrder
    <3>1. last_flush_pos <= push_head
      BY <1>1, <2>7 DEF FlushInOrder
    <3> QED
      BY <1>3, <2>3, <2>8, <3>1
  <2>11. Closes'
    BY <1>1, <1>6, <2>1, <2>2, <2>9 DEF Closes
  <2>12. LinesAreTickets'
    BY <1>1, <2>1 DEF LinesAreTickets
  <2>13. ShutdownWritesAll'
    <3>1. CASE closing = "joined" /\ size' = 0
      BY <2>1, <2>2, <2>10, <3>1 DEF ShutdownWritesAll
    <3>2. CASE ~(closing = "joined" /\ size' = 0)
      BY <1>1, <2>1, <2>2, <3>2 DEF ShutdownWritesAll
    <3> QED
      BY <3>1, <3>2
  <2> QED
    BY <1>5, <1>6, <2>1, <2>5, <2>6, <2>11, <2>12, <2>13 DEF FlushIInv
<1>9. CASE CopySlot
  <2>1. /\ flush = "copying" /\ Len(snapshot) < size
        /\ snapshot' = Append(snapshot, slots[Flushed % N])
        /\ raced' = (raced \/ \E q \in Producers : Pending(q) /\ entry[q].ticket = Flushed)
        /\ UNCHANGED ringVars
        /\ UNCHANGED <<last_flush_pos, flush, size, file, closing, overrun>>
        /\ UNCHANGED <<stream, created, written, starts_at>>
    BY <1>9 DEF CopySlot, Pending
  <2>2. /\ push_head' = push_head /\ read_head' = read_head /\ pc' = pc /\ entry' = entry
        /\ slots' = slots
    BY <2>1 DEF ringVars
  <2>3. slots[Flushed % N] \in Entry
    BY <1>2, <1>3, TicketHasSlot DEF RingTypes
  <2>4. /\ snapshot' \in Seq(Entry) /\ Len(snapshot') = Len(snapshot) + 1
        /\ snapshot'[Len(snapshot) + 1] = slots[Flushed % N]
        /\ \A i \in 1..Len(snapshot) : snapshot'[i] = snapshot[i]
    BY <1>3, <2>1, <2>3
  <2>5. Flushed' = Flushed + 1
    BY <1>3, <2>1, <2>4 DEF Flushed
  <2>6. Flushed < push_head
    BY <1>1, <1>2, <1>3, <2>1 DEF FlushInOrder, HeadFollows, Flushed
  <2>7. raced' \in BOOLEAN
    BY <2>1
  <2>8. FlushTypes'
    BY <1>1, <2>1, <2>4, <2>7 DEF FlushTypes
  <2>15. written = 0
    BY <1>1, <1>3, <2>1 DEF FlushInOrder, FlushTypes
  <2>9. FlushInOrder'
    BY <1>1, <1>3, <2>1, <2>2, <2>4, <2>5, <2>6, <2>15 DEF FlushInOrder
  <2>10. Clean' => Clean /\ \A q \in Producers : ~(Pending(q) /\ entry[q].ticket = Flushed)
    BY <2>1 DEF Clean
  <2>11. \A q \in Producers : Pending(q)' <=> Pending(q)
    BY <2>2 DEF Pending
  <2>12. WindowIsFilled'
    <3> SUFFICES ASSUME Clean'
                 PROVE  /\ push_head <= Flushed + 1 + N
                        /\ \A q \in Producers : Pending(q) => entry[q].ticket >= Flushed + 1
                        /\ \A t \in (Flushed + 1)..push_head-1 :
                             \/ \E q \in Producers : Pending(q) /\ entry[q].ticket = t
                             \/ slots[t % N].index # 0 /\ slots[t % N].ticket = t
      BY <2>2, <2>5, <2>11 DEF WindowIsFilled
    <3>1. \A q \in Producers : entry[q].ticket \in Nat
      BY <1>2 DEF RingTypes, Entry
    <3>2. \A q \in Producers : Pending(q) => entry[q].ticket >= Flushed
      BY <1>1, <2>10 DEF WindowIsFilled
    <3>3. \A q \in Producers : Pending(q) => entry[q].ticket >= Flushed + 1
      BY <1>3, <2>10, <3>1, <3>2
    <3>4. push_head <= Flushed + 1 + N
      BY <1>1, <1>3, <2>10 DEF WindowIsFilled
    <3>5. (Flushed + 1)..push_head-1 \subseteq Flushed..push_head-1
      BY <1>3
    <3> QED
      BY <1>1, <2>10, <3>3, <3>4, <3>5 DEF WindowIsFilled
  <2>13. CopiesAreTickets'
    <3> SUFFICES ASSUME Clean', NEW i \in 1..(Len(snapshot) + 1)
                 PROVE  snapshot'[i].ticket = last_flush_pos + i - 1 /\ snapshot'[i].index # 0
      BY <2>1, <2>4 DEF CopiesAreTickets
    <3>1. CASE i \in 1..Len(snapshot)
      BY <1>1, <2>4, <2>10, <3>1 DEF CopiesAreTickets
    <3>2. CASE i = Len(snapshot) + 1
      <4>1. Flushed \in Flushed..push_head-1
        BY <1>3, <2>6
      <4>2. slots[Flushed % N].index # 0 /\ slots[Flushed % N].ticket = Flushed
        BY <1>1, <2>10, <4>1 DEF WindowIsFilled
      <4> QED
        BY <1>3, <2>4, <3>2, <4>2 DEF Flushed
    <3> QED
      BY <1>3, <3>1, <3>2
  <2>14. Closes' /\ LinesAreTickets' /\ ShutdownWritesAll'
    BY <1>1, <2>1, <2>2, <2>10 DEF Closes, LinesAreTickets, ShutdownWritesAll, Clean
  <2> QED
    BY <1>5, <2>1, <2>8, <2>9, <2>12, <2>13, <2>14 DEF FlushIInv
<1>10. CASE WriteFile
  <2>1. /\ flush = "copying" /\ Len(snapshot) = size
        /\ last_flush_pos' = last_flush_pos + Len(snapshot)
        /\ flush' = "idle" /\ snapshot' = <<>> /\ size' = 0 /\ written' = 0
        /\ closing' = IF closing = "joined" THEN "done" ELSE closing
        /\ UNCHANGED ringVars /\ UNCHANGED <<created, starts_at, raced, overrun>>
    BY <1>10 DEF WriteFile
  <2>2. /\ push_head' = push_head /\ read_head' = read_head /\ pc' = pc /\ entry' = entry
        /\ slots' = slots /\ Flushed' = Flushed /\ (Clean' <=> Clean)
    BY <1>3, <2>1 DEF ringVars, Flushed, Clean
  <2>11. PICK k \in Writable : /\ file' = file \o SubSeq(snapshot, written + 1, k)
                               /\ stream' = IF k = size THEN stream ELSE "bad"
    BY <1>10 DEF WriteFile
  <2> DEFINE part == SubSeq(snapshot, written + 1, k)
  <2>12. /\ written \in Nat /\ starts_at \in Nat /\ k \in written..Len(snapshot) /\ k \in Nat
         /\ stream # "open" => k = written
    BY <1>1, <1>3, <2>1, <2>11 DEF FlushTypes, FlushInOrder, Writable
  <2>13. /\ part \in Seq(Entry) /\ Len(part) = k - written
         /\ \A i \in 1..(k - written) : part[i] = snapshot[written + i]
    BY <1>3, <2>12, Part
  <2>14. file' = file \o part
    BY <2>11
  <2> HIDE DEF part
  <2>3. /\ file' \in Seq(Entry) /\ Len(file') = Len(file) + (k - written)
        /\ \A l \in 1..Len(file) : file'[l] = file[l]
        /\ \A l \in (Len(file) + 1)..(Len(file) + (k - written)) :
             file'[l] = part[l - Len(file)]
    <3>1. file \in Seq(Entry) /\ part \in Seq(Entry) /\ file' = file \o part
      BY <1>3, <2>13, <2>14
    <3>2. Len(part) = k - written
      BY <2>13
    <3>3. /\ file' \in Seq(Entry) /\ Len(file') = Len(file) + Len(part)
          /\ \A l \in 1..Len(file) : file'[l] = file[l]
          /\ \A l \in (Len(file) + 1)..(Len(file) + Len(part)) :
               file'[l] = part[l - Len(file)]
      BY ONLY <3>1, Joined
    <3> QED
      BY ONLY <3>2, <3>3
  <2>4. FlushTypes'
    BY <1>1, <1>3, <2>1, <2>3, <2>11 DEF FlushTypes
  <2>15. stream' = "open" => stream = "open" /\ k = Len(snapshot)
    BY <2>1, <2>11
  <2>16. stream' = "open" => starts_at + Len(file') = last_flush_pos'
    <3>1. stream = "open" => starts_at + Len(file) = last_flush_pos + written
      BY <1>1 DEF FlushInOrder
    <3>2. Len(file') = Len(file) + (k - written) /\ last_flush_pos' = last_flush_pos + Len(snapshot)
      BY <2>1, <2>3
    <3>3. ASSUME NEW a \in Nat, NEW b \in Nat, NEW c \in Nat, NEW d \in Nat, NEW e \in Nat,
                 a + b = c + e
          PROVE  a + (b + (d - e)) = c + d
      BY <3>3
    <3> QED
      BY ONLY <1>14, <2>12, <2>15, <3>1, <3>2, <3>3
  <2>17. ~created => stream' # "open" /\ file' = <<>>
    <3> SUFFICES ASSUME ~created PROVE stream' # "open" /\ file' = <<>>
      OBVIOUS
    <3>1. stream # "open" /\ file = <<>> /\ Len(file) = 0
      BY <1>1 DEF FlushInOrder
    <3>2. Len(file') = 0 /\ file' \in Seq(Entry)
      BY <2>3, <2>12, <3>1
    <3> QED
      BY <2>15, <3>1, <3>2
  <2>5. FlushInOrder'
    BY <1>1, <1>3, <2>1, <2>2, <2>16, <2>17 DEF FlushInOrder
  <2>6. \A q \in Producers : Pending(q)' <=> Pending(q)
    BY <2>2 DEF Pending
  <2>7. WindowIsFilled' /\ CopiesAreTickets'
    BY <1>1, <2>1, <2>2, <2>6 DEF WindowIsFilled, CopiesAreTickets
  <2>8. LinesAreTickets'
    <3> SUFFICES ASSUME Clean, NEW l \in 1..(Len(file) + (k - written))
                 PROVE  file'[l].ticket = starts_at + l - 1 /\ file'[l].index # 0
      BY <2>1, <2>2, <2>3 DEF LinesAreTickets, Clean
    <3>1. CASE l \in 1..Len(file)
      BY <1>1, <2>3, <3>1 DEF LinesAreTickets, Clean
    <3>2. CASE l \in (Len(file) + 1)..(Len(file) + (k - written))
      <4> DEFINE i == l - Len(file)
      <4>1. i \in 1..(k - written) /\ stream = "open"
        BY <1>3, <2>12, <3>2
      <4>2. written + i \in 1..Len(snapshot) /\ written + i \in Nat
        BY <1>3, <2>12, <4>1
      <4>3. /\ snapshot[written + i].ticket = last_flush_pos + (written + i) - 1
            /\ snapshot[written + i].index # 0
        BY <1>1, <4>2 DEF CopiesAreTickets
      <4>4. file'[l] = snapshot[written + i]
        BY <2>3, <2>13, <3>2, <4>1
      <4>5. starts_at + Len(file) = last_flush_pos + written
        BY <1>1, <4>1 DEF FlushInOrder
      <4>6. last_flush_pos + (written + i) - 1 = starts_at + l - 1
        BY <1>3, <2>12, <3>2, <4>5
      <4> QED
        BY <4>3, <4>4, <4>6
    <3> QED
      BY <1>3, <2>12, <3>1, <3>2
  <2>9. Closes'
    BY <1>1, <2>1, <2>2 DEF Closes
  <2>10. ShutdownWritesAll'
    <3> SUFFICES ASSUME closing' = "done", stream' = "open", Clean
                 PROVE  starts_at' + Len(file') = push_head
      BY <2>2 DEF ShutdownWritesAll, Clean
    <3>1. closing = "joined"
      BY <1>1, <2>1 DEF Closes
    <3>2. last_flush_pos + size = push_head
      BY <1>1, <2>1, <3>1 DEF Closes
    <3> QED
      BY <2>1, <2>16, <3>2
  <2> QED
    BY <1>5, <2>1, <2>4, <2>5, <2>7, <2>8, <2>9, <2>10 DEF FlushIInv
<1>11. CASE RequestStop \/ JoinFlusher
  <2>1. /\ UNCHANGED ringVars /\ UNCHANGED <<last_flush_pos, snapshot, raced, overrun>>
        /\ UNCHANGED <<stream, created, written, starts_at, flush, size, file>>
        /\ \/ /\ closing' = "stopping" /\ \A p \in Producers : pc[p] = "idle"
           \/ /\ closing = "stopping" /\ flush = "idle"
              /\ closing' = IF stream = "bad" THEN "done" ELSE "joined"
    BY <1>11 DEF RequestStop, JoinFlusher
  <2>2. push_head' = push_head /\ read_head' = read_head /\ pc' = pc
    BY <2>1 DEF ringVars
  <2>3. FlushTypes' /\ FlushInOrder'
    BY <1>1, <1>6, <2>1, <2>2 DEF FlushTypes, FlushInOrder
  <2>4. Closes' /\ LinesAreTickets' /\ ShutdownWritesAll'
    BY <1>1, <1>6, <2>1, <2>2 DEF Closes, LinesAreTickets, ShutdownWritesAll, Clean
  <2> QED
    BY <1>5, <1>6, <2>1, <2>3, <2>4 DEF FlushIInv
<1>12. CASE UNCHANGED flusherVars
  <2>1. /\ UNCHANGED ringVars /\ UNCHANGED <<last_flush_pos, snapshot, raced, overrun>>
        /\ UNCHANGED <<stream, created, written, starts_at, flush, size, file, closing>>
    BY <1>12 DEF flusherVars, fileVars
  <2>2. push_head' = push_head /\ read_head' = read_head /\ pc' = pc
    BY <2>1 DEF ringVars
  <2>3. FlushTypes' /\ FlushInOrder'
    BY <1>1, <1>6, <2>1, <2>2 DEF FlushTypes, FlushInOrder
  <2>4. Closes' /\ LinesAreTickets' /\ ShutdownWritesAll'
    BY <1>1, <1>6, <2>1, <2>2 DEF Closes, LinesAreTickets, ShutdownWritesAll, Clean
  <2> QED
    BY <1>5, <1>6, <2>1, <2>3, <2>4 DEF FlushIInv
<1> QED
  BY <1>4, <1>7, <1>8, <1>9, <1>10, <1>11, <1>12, <1>13 DEF FlusherNext, Flusher

\* For any number of threads and any size of the ring, without a lap of the ring and without
\* a flush that overtakes a push: the file is the log from where it was opened, line for line
\* until its stream fails, and the shutdown leaves none of it behind when it never did.
THEOREM TheFileIsTheLog == FlusherSpec => []FileIsTheLog
<1>1. FlushIInv => FileIsTheLog
  BY DEF FlushIInv, FileIsTheLog
<1> QED
  BY FlushInitial, FlushStep, <1>1, PTL DEF FlusherSpec
=============================================================================
