----------------------------- MODULE LogFlusher -----------------------------
(***************************************************************************)
(* The log file (services/BasicLogger.cpp): threads push entries into the  *)
(* ring, one thread flushes the ring to the file from time to time, and    *)
(* the main thread ends it all with a last flush of its own.               *)
(* A flush asks for snapshot(0, m_last_flush_pos).fast(), which copies     *)
(* slot after slot while the pushes go on.                                 *)
(*                                                                         *)
(* create_log() opens the file without a lock, maybe between two writes of *)
(* a flush.  A stream that was never opened is good until it is written    *)
(* to: a flush before create_log() loses what it flushes, and a stream     *)
(* that a write or the opening left bad is not flushed any more.           *)
(***************************************************************************)
EXTENDS SlidingRingBuffer

VARIABLES
  stream,          \* m_log_file_handle: closed (never opened), open, bad
  created,         \* has create_log() run?
  last_flush_pos,  \* m_last_flush_pos
  flush,           \* where the flush is: idle, counting, copying
  size,            \* how many entries it copies
  snapshot,        \* those it copied
  written,         \* how many of them the stream had refused as it was opened
  file,            \* the entries in the log file
  starts_at,       \* history: the ticket that was next to write as the file was opened
  closing,         \* shutdown(): no, stopping, joined, done
  raced,           \* history: was a slot copied before its push had filled it?
  overrun          \* history: did a push lap the flush?

fileVars == <<stream, created, last_flush_pos, flush, size, snapshot, written, file,
              starts_at, closing, raced, overrun>>
flusherVars == <<ringVars, fileVars>>

Flushed == last_flush_pos + Len(snapshot)

\* How many entries of the snapshot the stream can have taken or refused when it stops
\* taking them: a stream that is not open takes none, an open one all of them, or
\* fewer when the disk is full.
Writable == IF stream = "open" THEN written..size ELSE {written}
-----------------------------------------------------------------------------
(* Plausible mistakes.                                                     *)


\* WriteFile: the position follows the head, not what was copied.
WriteFileToHead ==
  /\ flush = "copying"
  /\ Len(snapshot) = size
  /\ \E k \in Writable : /\ file' = file \o SubSeq(snapshot, written + 1, k)
                         /\ stream' = IF k = size THEN stream ELSE "bad"
  /\ last_flush_pos' = read_head + 1
  /\ flush' = "idle" /\ snapshot' = <<>> /\ size' = 0 /\ written' = 0
  /\ closing' = IF closing = "joined" THEN "done" ELSE closing
  /\ UNCHANGED <<ringVars, created, starts_at, raced, overrun>>

\* JoinFlusher: the last flush is left out.
JoinFlusherOnly ==
  /\ closing = "stopping" /\ flush = "idle"
  /\ closing' = "done"
  /\ UNCHANGED <<ringVars, stream, created, last_flush_pos, flush, size, snapshot,
                 written, file, starts_at, raced, overrun>>
-----------------------------------------------------------------------------
FlusherInit ==
  /\ RingInit
  /\ stream = "closed" /\ created = FALSE
  /\ last_flush_pos = 0 /\ flush = "idle" /\ size = 0 /\ snapshot = <<>> /\ written = 0
  /\ file = <<>> /\ starts_at = 0
  /\ closing = "no"
  /\ raced = FALSE /\ overrun = FALSE

\* A thread logs.  It laps the flush when its ticket goes to a slot whose last
\* entry is not copied yet.
Log(p) ==
  /\ closing = "no"
  /\ Push(p)
  /\ overrun' = (overrun \/ push_head' > Flushed + N)
  /\ UNCHANGED <<stream, created, last_flush_pos, flush, size, snapshot, written, file,
                 starts_at, closing, raced>>

\* create_log(), once: it gives up before it comes to the stream, or fails to open it,
\* or opens it, which clears its state, maybe between two writes of a flush.
create_log ==
  /\ ~created /\ closing = "no"
  /\ created' = TRUE
  /\ \/ stream' \in {stream, "bad"} /\ UNCHANGED <<written, starts_at>>
     \/ /\ stream' = "open"
        /\ written' \in 0..(IF flush = "copying" /\ Len(snapshot) = size THEN size ELSE 0)
        /\ starts_at' = last_flush_pos + written'
  /\ UNCHANGED <<ringVars, last_flush_pos, flush, size, snapshot, file, closing,
                 raced, overrun>>

\* test_flush_size() || test_flush_time(): the clock may always say yes.  The
\* last flush, in the destructor, asks for neither.
StartFlush ==
  /\ stream # "bad" /\ flush = "idle"
  /\ closing \in {"no", "stopping", "joined"}
  /\ flush' = "counting"
  /\ UNCHANGED <<ringVars, stream, created, last_flush_pos, size, snapshot, written, file,
                 starts_at, closing, raced, overrun>>

\* How many entries there are from `begin` on under head h.
RangeSize(h, begin) ==
  IF h = 0 \/ begin > h THEN 0 ELSE IF h - begin + 1 < N THEN h - begin + 1 ELSE N

\* The snapshot loads the head.  An empty one ends the flush.
LoadReadHead ==
  /\ flush = "counting"
  /\ size' = RangeSize(read_head, last_flush_pos)
  /\ IF size' = 0
     THEN flush' = "idle" /\ closing' = IF closing = "joined" THEN "done" ELSE closing
     ELSE flush' = "copying" /\ UNCHANGED closing
  /\ UNCHANGED <<ringVars, stream, created, last_flush_pos, snapshot, written, file, starts_at,
                 raced, overrun>>

\* at_(begin + i)
CopySlot ==
  /\ flush = "copying"
  /\ Len(snapshot) < size
  /\ snapshot' = Append(snapshot, slots[Flushed % N])
  /\ raced' = (raced \/ \E p \in Producers : /\ pc[p] \in {"claimed", "locked"}
                                             /\ entry[p].ticket = Flushed)
  /\ UNCHANGED <<ringVars, stream, created, last_flush_pos, flush, size, written, file,
                 starts_at, closing, overrun>>

\* The position moves on whatever becomes of the writes.  What the last of them left in
\* the stream shows at the next flush.
WriteFile ==
  /\ flush = "copying"
  /\ Len(snapshot) = size
  /\ \E k \in Writable : /\ file' = file \o SubSeq(snapshot, written + 1, k)
                         /\ stream' = IF k = size THEN stream ELSE "bad"
  /\ last_flush_pos' = last_flush_pos + Len(snapshot)
  /\ flush' = "idle" /\ snapshot' = <<>> /\ size' = 0 /\ written' = 0
  /\ closing' = IF closing = "joined" THEN "done" ELSE closing
  /\ UNCHANGED <<ringVars, created, starts_at, raced, overrun>>

\* shutdown(): the systems are gone, so nobody else is logging any more.
RequestStop ==
  /\ closing = "no"
  /\ \A p \in Producers : pc[p] = "idle"
  /\ closing' = "stopping"
  /\ UNCHANGED <<ringVars, stream, created, last_flush_pos, flush, size, snapshot, written,
                 file, starts_at, raced, overrun>>

\* The flusher sees the stop token between two flushes.  With a bad stream the last
\* flush does nothing.
JoinFlusher ==
  /\ closing = "stopping" /\ flush = "idle"
  /\ closing' = IF stream = "bad" THEN "done" ELSE "joined"
  /\ UNCHANGED <<ringVars, stream, created, last_flush_pos, flush, size, snapshot, written,
                 file, starts_at, raced, overrun>>

Flusher == StartFlush \/ LoadReadHead \/ CopySlot \/ WriteFile

FlusherNext ==
  \/ \E p \in Producers : Log(p)
  \/ Flusher \/ create_log \/ RequestStop \/ JoinFlusher

FlusherSpec == FlusherInit /\ [][FlusherNext]_flusherVars

\* The clock of the flusher goes on, and threads finish the calls they are in.
FlusherFairness ==
  /\ WF_flusherVars(Flusher)
  /\ \A p \in Producers : WF_flusherVars(pc[p] # "idle" /\ Log(p))

FairFlusherSpec == FlusherSpec /\ FlusherFairness
-----------------------------------------------------------------------------
\* The file is the log from the ticket on that was next as the file was opened:
\* line after line is push after push, none is missing and none comes twice, as long
\* as no push was lapped by another one of a full ring or overtaken by the flush.  A
\* stream that fails cuts the file off, it leaves no gap.
LinesAreTickets ==
  ~raced /\ ~overrun
    => \A k \in 1..Len(file) : file[k].ticket = starts_at + k - 1 /\ file[k].index # 0

\* When the logger is gone and its stream never failed, the file holds every entry from
\* there on, under the same proviso and unless there was only one push: a ring with
\* one entry says that it is empty.
ShutdownWritesAll ==
  closing = "done" /\ stream = "open" /\ ~raced /\ ~overrun /\ push_head # 1
    => starts_at + Len(file) = push_head

\* The file is the log, and to its end.
FileIsTheLog == LinesAreTickets /\ ShutdownWritesAll

=============================================================================
