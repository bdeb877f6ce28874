------------------------------ MODULE CallStack ------------------------------
(***************************************************************************)
(* The call stack of the CHIP-8 family (IFamily_CHIP8::Stack): an array of *)
(* sixteen addresses and a head that both only ever go around, without a   *)
(* test for a full or an empty stack.                                      *)
(* An instruction takes one address here, two bytes in the code; m_head is *)
(* kept to its lowest four bits, the only ones that are used, and the      *)
(* program counter to the memory's size, which the code leaves to the      *)
(* memory's mirroring.                                                     *)
(***************************************************************************)
EXTENDS Naturals, Sequences

CONSTANTS
  Size,      \* the entries of the stack (16)
  Last,      \* the last address of the memory
  Boot       \* c_sys_boot_pos

ASSUME SizeAssumption == Size \in Nat \ {0}
ASSUME AddressAssumption == Last \in Nat /\ Boot \in 0..Last

VARIABLES
  pc,        \* m_current_pc, before the instruction is fetched
  head,      \* m_stack.m_head & 0xF
  data,      \* m_stack.m_data
  stopped,   \* has a jump to itself raised Interrupt::SOUND?
  kept       \* history: the calls that have not returned and are still there

stackVars == <<pc, head, data, stopped, kept>>

Address == 0..Last
Behind(a) == IF a = Last THEN 0 ELSE a + 1
Slot == 0..(Size - 1)
Up(i) == IF i = Size - 1 THEN 0 ELSE i + 1
Down(i) == IF i = 0 THEN Size - 1 ELSE i - 1
-----------------------------------------------------------------------------
(* Plausible mistakes.                                                     *)

\* pop: the slot of the next push is read.
pop_at_head == data[head]
-----------------------------------------------------------------------------
clear == 0

\* reset_system_data() and m_stack.clear().
StackInit ==
  /\ pc = Boot /\ head = clear /\ data = [i \in Slot |-> 0]
  /\ stopped = FALSE /\ kept = 0

ResetStack ==
  /\ pc' = Boot /\ head' = clear /\ data' = [i \in Slot |-> 0]
  /\ stopped' = FALSE /\ kept' = 0

\* jump_program_to(): a jump to itself is taken for the end of the program.
jump_program_to(next) == pc' = next /\ stopped' = (next = pc)

\* 1NNN, BNNN, and every instruction that goes on or skips one.
Jump(next) ==
  /\ ~stopped
  /\ jump_program_to(next)
  /\ UNCHANGED <<head, data, kept>>

Pushed == Behind(pc)

instruction_2NNN(next) ==
  /\ ~stopped
  /\ data' = [data EXCEPT ![head] = Pushed]
  /\ head' = Up(head)
  /\ kept' = IF kept = Size THEN Size ELSE kept + 1
  /\ jump_program_to(next)

pop == data[Down(head)]

instruction_00EE ==
  /\ ~stopped
  /\ pc' = pop
  /\ head' = Down(head)
  /\ kept' = IF kept = 0 THEN 0 ELSE kept - 1
  /\ UNCHANGED <<data, stopped>>

StackNext ==
  \/ \E next \in Address : Jump(next) \/ instruction_2NNN(next)
  \/ instruction_00EE
  \/ ResetStack

StackSpec == StackInit /\ [][StackNext]_stackVars
-----------------------------------------------------------------------------
\* The types of the stack's variables.
StackTypeOK ==
  /\ pc \in Address
  /\ head \in Slot
  /\ data \in [Slot -> Address]
  /\ stopped \in BOOLEAN
  /\ kept \in 0..Size

\* The slot of the i-th remembered call, from the oldest.
Place(i) ==
  IF head + i > kept THEN head + i - kept - 1 ELSE head + i + Size - kept - 1

ReturnStack == INSTANCE ReturnStack WITH calls <- [i \in 1..kept |-> data[Place(i)]]

\* A program finds its way back from any nest of calls: the last sixteen return
\* where they came from, whatever was called, returned and overwritten before.
ImplementsReturnStack == ReturnStack!Spec
=============================================================================
