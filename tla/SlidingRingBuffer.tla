-------------------------- MODULE SlidingRingBuffer --------------------------
(***************************************************************************)
(* The ring of the last N log entries (components/SlidingRingBuffer.hpp)   *)
(* and the threads that push into it.  A push takes a ticket, stores its   *)
(* entry into the slot of that ticket, and raises the read head to it; the *)
(* three are separate atomic operations, so pushes overtake one another.   *)
(* An entry is the LogEntry of services/BasicLogger.cpp: its own number,   *)
(* drawn before the ticket, and, for the properties, the ticket it got.    *)
(*                                                                         *)
(* Another thread takes snapshots while they push: snapshot(count).fast()  *)
(* and snapshot(count).safe().  It loads the head once and then copies     *)
(* slot after slot, oldest first.                                          *)
(***************************************************************************)
EXTENDS Naturals, FiniteSets, Sequences

CONSTANTS
  Producers,   \* the threads that log
  N,           \* the number of slots
  MaxPush      \* bound: how many entries are made

\* Finitely many threads log, and the one that reads the ring is not one of them.
ASSUME RingAssumption ==
  /\ IsFiniteSet(Producers) /\ "reader" \notin Producers
  /\ N \in Nat \ {0} /\ MaxPush \in Nat

VARIABLES
  counter,     \* monotonic_count(): the number of the next entry
  push_head,   \* m_push_head: the next ticket
  read_head,   \* m_read_head: the largest published ticket
  slots,       \* m_buffer
  guard,       \* m_guard: who holds it, the pushes in common or a reader alone
  pc,          \* where each producer is in push()
  entry,       \* the entry that each producer carries
  expected     \* each producer's operand of the compare-exchange

ringVars == <<counter, push_head, read_head, slots, guard, pc, entry, expected>>

VARIABLES
  reading,     \* where the reader is: idle, wants the mutex, counting, copying
  safe,        \* was .safe() asked for?
  count,       \* the argument of snapshot(); 0 asks for all there is
  head,        \* the head that the snapshot loaded
  output       \* the entries copied

windowVars == <<reading, safe, count, head, output>>
viewVars == <<ringVars, windowVars>>
-----------------------------------------------------------------------------
\* clear_buffer() fills the ring with default entries; their number is 0.
NoEntry == [index |-> 0, ticket |-> 0]

\* Nobody calls snapshot() with more than a small number; the code has no limit.
Counts == 0..N

\* How many entries there are under head h, as the snapshot sees it.
Available(h) == IF h = 0 THEN 0 ELSE IF h + 1 < N THEN h + 1 ELSE N

\* How many of them a snapshot asked for c copies.
SnapSize(h, c) == IF c # 0 /\ c < Available(h) THEN c ELSE Available(h)
-----------------------------------------------------------------------------
(* Plausible mistakes.                                                     *)

\* RaiseHead: a lost race is not retried.
RaiseHeadOnce(p) ==
  /\ pc[p] = "loaded"
  /\ read_head' = IF expected[p] < entry[p].ticket /\ read_head = expected[p]
                  THEN entry[p].ticket ELSE read_head
  /\ pc' = [pc EXCEPT ![p] = "idle"]
  /\ guard' = guard \ {p}
  /\ UNCHANGED <<counter, push_head, slots, entry, expected>>

\* Lock: the pushes do not ask for the mutex.
LockSkipped(p) ==
  /\ pc[p] = "claimed"
  /\ pc' = [pc EXCEPT ![p] = "locked"]
  /\ UNCHANGED <<counter, push_head, read_head, slots, guard, entry, expected>>

\* NextTicket: the copying begins one slot late, and ends in the oldest one.
NextTicketLate == head + 2 - (SnapSize(head, count) - Len(output))
-----------------------------------------------------------------------------
RingInit ==
  /\ counter = 1 /\ push_head = 0 /\ read_head = 0
  /\ slots = [s \in 0..N-1 |-> NoEntry]
  /\ guard = {}
  /\ pc = [p \in Producers |-> "idle"]
  /\ entry = [p \in Producers |-> NoEntry]
  /\ expected = [p \in Producers |-> 0]

\* LogEntry's constructor numbers the entry.
Make(p) ==
  /\ pc[p] = "idle"
  /\ counter <= MaxPush
  /\ counter' = counter + 1
  /\ entry' = [entry EXCEPT ![p] = [index |-> counter, ticket |-> 0]]
  /\ pc' = [pc EXCEPT ![p] = "made"]
  /\ UNCHANGED <<push_head, read_head, slots, guard, expected>>

\* m_push_head.fetch_add(1)
Claim(p) ==
  /\ pc[p] = "made"
  /\ entry' = [entry EXCEPT ![p].ticket = push_head]
  /\ push_head' = push_head + 1
  /\ pc' = [pc EXCEPT ![p] = "claimed"]
  /\ UNCHANGED <<counter, read_head, slots, guard, expected>>

\* The shared lock is had while no reader holds the mutex alone.
Lock(p) ==
  /\ pc[p] = "claimed"
  /\ guard \subseteq Producers
  /\ guard' = guard \cup {p}
  /\ pc' = [pc EXCEPT ![p] = "locked"]
  /\ UNCHANGED <<counter, push_head, read_head, slots, entry, expected>>

Store(p) ==
  /\ pc[p] = "locked"
  /\ slots' = [slots EXCEPT ![entry[p].ticket % N] = entry[p]]
  /\ pc' = [pc EXCEPT ![p] = "stored"]
  /\ UNCHANGED <<counter, push_head, read_head, guard, entry, expected>>

LoadHead(p) ==
  /\ pc[p] = "stored"
  /\ expected' = [expected EXCEPT ![p] = read_head]
  /\ pc' = [pc EXCEPT ![p] = "loaded"]
  /\ UNCHANGED <<counter, push_head, read_head, slots, guard, entry>>

\* One turn of the compare-exchange loop that raises the head, and the unlock.
\* A turn that fails for no reason is a stutter.
RaiseHead(p) ==
  /\ pc[p] = "loaded"
  /\ IF expected[p] < entry[p].ticket /\ read_head # expected[p]
     THEN /\ expected' = [expected EXCEPT ![p] = read_head]
          /\ UNCHANGED <<read_head, guard, pc>>
     ELSE /\ read_head' = IF expected[p] < entry[p].ticket
                          THEN entry[p].ticket ELSE read_head
          /\ guard' = guard \ {p}
          /\ pc' = [pc EXCEPT ![p] = "idle"]
          /\ UNCHANGED expected
  /\ UNCHANGED <<counter, push_head, slots, entry>>

Push(p) ==
  Make(p) \/ Claim(p) \/ Lock(p) \/ Store(p) \/ LoadHead(p) \/ RaiseHead(p)
-----------------------------------------------------------------------------
(* Snapshots.                                                              *)

ViewInit ==
  /\ RingInit
  /\ reading = "idle" /\ safe = FALSE /\ count = 0 /\ head = 0 /\ output = <<>>

Ask ==
  /\ reading = "idle"
  /\ count' \in Counts
  /\ \/ safe' = FALSE /\ reading' = "counting"
     \/ safe' = TRUE /\ reading' = "waiting"
  /\ output' = <<>>
  /\ UNCHANGED <<ringVars, head>>

\* The scoped lock of .safe() waits for the pushes that hold the mutex.
SafeLock ==
  /\ reading = "waiting"
  /\ guard = {}
  /\ guard' = {"reader"}
  /\ reading' = "counting"
  /\ UNCHANGED <<counter, push_head, read_head, slots, pc, entry, expected,
                 safe, count, head, output>>

LoadViewHead ==
  /\ reading = "counting"
  /\ head' = read_head
  /\ reading' = "copying"
  /\ UNCHANGED <<ringVars, safe, count, output>>

\* The ticket whose slot the snapshot reads next: at_(size - 1 - i, head)
NextTicket == head + 1 - (SnapSize(head, count) - Len(output))

CopyViewed ==
  /\ reading = "copying"
  /\ Len(output) < SnapSize(head, count)
  /\ output' = Append(output, slots[NextTicket % N])
  /\ UNCHANGED <<ringVars, reading, safe, count, head>>

Return ==
  /\ reading = "copying"
  /\ Len(output) = SnapSize(head, count)
  /\ reading' = "idle"
  /\ guard' = guard \ {"reader"}
  /\ UNCHANGED <<counter, push_head, read_head, slots, pc, entry, expected,
                 safe, count, head, output>>

View == Ask \/ SafeLock \/ LoadViewHead \/ CopyViewed \/ Return

ViewNext == (\E p \in Producers : Push(p) /\ UNCHANGED windowVars) \/ View

ViewSpec == ViewInit /\ [][ViewNext]_viewVars
-----------------------------------------------------------------------------
\* The head is the newest ticket as soon as no push is in flight: the races of
\* the compare-exchange loop lose no publication.
HeadCatchesUp ==
  (\A p \in Producers : pc[p] \in {"idle", "made"})
    => push_head \in {0, read_head + 1}

\* As long as one thread alone has pushed, a snapshot holds nothing blank or older
\* than it should, however far that thread runs ahead of the copying.  With two
\* threads a push that overtakes another raises the head over a slot that is still
\* to be filled.
NeverStaleOfOne ==
  Cardinality({p \in Producers : entry[p] # NoEntry}) <= 1
    => \A i \in 1..Len(output) :
         /\ output[i].index # 0
         /\ output[i].ticket >= head - SnapSize(head, count) + i

\* A safe snapshot is the ring at one moment: what it copied so far is still
\* there, under the head that is still the newest.
SafeIsOneMoment ==
  safe /\ reading = "copying"
    => /\ head = read_head
       /\ \A i \in 1..Len(output) :
            output[i] = slots[(head - SnapSize(head, count) + i) % N]

\* The head loses no publication, and a snapshot is of the ring.
SnapshotIsTheRing == HeadCatchesUp /\ NeverStaleOfOne /\ SafeIsOneMoment
=============================================================================
