----------------------------- MODULE ReturnStack -----------------------------
(* What a program may rely on when it calls subroutines: a return goes     *)
(* back behind the last call that has not returned, of the last Size calls *)
(* at least; a return without such a call goes anywhere.                   *)
EXTENDS Naturals, Sequences

CONSTANTS
  Size,      \* the calls that are remembered
  Last       \* the last address; the one behind it is 0

VARIABLES
  pc,        \* the address of the next instruction
  calls,     \* where to go back to, the last call last
  stopped    \* has the program jumped to itself?

vars == <<pc, calls, stopped>>

Address == 0..Last
Behind(a) == IF a = Last THEN 0 ELSE a + 1

Init == pc \in Address /\ calls = <<>> /\ stopped = FALSE

Call(next) ==
  /\ ~stopped
  /\ calls' = Append(IF Len(calls) = Size THEN Tail(calls) ELSE calls, Behind(pc))
  /\ pc' = next
  /\ stopped' = (next = pc)

Return ==
  /\ ~stopped
  /\ calls # <<>>
  /\ pc' = calls[Len(calls)]
  /\ calls' = SubSeq(calls, 1, Len(calls) - 1)
  /\ UNCHANGED stopped

ReturnAnywhere ==
  /\ ~stopped
  /\ calls = <<>>
  /\ pc' \in Address
  /\ UNCHANGED <<calls, stopped>>

Jump(next) ==
  /\ ~stopped
  /\ pc' = next
  /\ stopped' = (next = pc)
  /\ UNCHANGED calls

Reset ==
  /\ pc' \in Address /\ calls' = <<>> /\ stopped' = FALSE

Next ==
  \/ \E next \in Address : Call(next) \/ Jump(next)
  \/ Return \/ ReturnAnywhere
  \/ Reset

Spec == Init /\ [][Next]_vars
=============================================================================
