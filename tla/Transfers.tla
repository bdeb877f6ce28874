------------------------------ MODULE Transfers ------------------------------
(***************************************************************************)
(* Registers to memory and back: FN55 and FN65, which move V0 to VN, and   *)
(* 5xy2 and 5xy3, which move VX to VY.  Memory is mirrored: an address     *)
(* past its end is one at its start (ArrayOps.hpp), so I is kept to the    *)
(* bits that address memory.                                               *)
(***************************************************************************)
EXTENDS InstructionSets, Integers, Sequences

CONSTANTS
  Top,        \* the last register (15)
  Size,       \* the bytes of memory (a power of two, more than there are registers)
  Value       \* the values of a byte, with 0

VARIABLES
  i,          \* m_register_I
  v,          \* m_registers_V
  mem,        \* m_memory
  saved       \* history: the registers stored last, their values, and where

vars == <<core, i, v, mem, saved>>

Index == 0..Top
Address == 0..(Size - 1)

\* The quirks that transfers know, as the user may have set them.
Quirks == SUBSET (avail_quirks \cap {"NO_INC_I_REG", "X1_INC_I_REG"})
None == [at |-> 0, list |-> <<>>, values |-> <<>>]

\* MirroredMemory::operator[]
Mirrored(n) == n % Size
-----------------------------------------------------------------------------
Init ==
  /\ core \in Core
  /\ i = 0 /\ v = [r \in Index |-> 0] /\ mem = [a \in Address |-> 0]
  /\ saved = None

\* The instructions that set a register, and those that set I: ANNN, F000 NNNN and
\* 01NN NNNN, Fx29 and Fx30.
SetRegister(x, nn) == v' = [v EXCEPT ![x] = nn] /\ UNCHANGED <<i, mem, saved>>
SetI(n) == i' = n /\ UNCHANGED <<v, mem, saved>>

\* CHIP8E keeps I to twelve bits itself.
instruction_Fx1E(x) == i' = Mirrored(i + v[x]) /\ UNCHANGED <<v, mem, saved>>

Store(list, next) ==
  /\ mem' = [a \in Address |->
               LET k == Mirrored(a - i) + 1 IN IF k <= Len(list) THEN v[list[k]] ELSE mem[a]]
  /\ i' = Mirrored(next)
  /\ saved' = [at |-> i, list |-> list, values |-> [k \in 1..Len(list) |-> v[list[k]]]]
  /\ UNCHANGED v

Fetch(list, next) ==
  /\ v' = [r \in Index |->
             IF \E k \in 1..Len(list) : list[k] = r
             THEN LET k == CHOOSE k \in 1..Len(list) : list[k] = r IN mem[Mirrored(i + k - 1)]
             ELSE v[r]]
  /\ i' = Mirrored(next)
  /\ UNCHANGED <<mem, saved>>

UpTo(n) == [k \in 1..(n + 1) |-> k - 1]

Behind(n, quirks) ==
  CASE transfers(quirks).moves = "past" -> i + n + 1
    [] transfers(quirks).moves = "to"   -> i + n
    [] OTHER                                  -> i

instruction_FN55(n, quirks) == Store(UpTo(n), Behind(n, quirks))
instruction_FN65(n, quirks) == Fetch(UpTo(n), Behind(n, quirks))

\* 5xy2 and 5xy3: VX to VY, in the order of the two.
Range(x, y) ==
  IF x <= y THEN [k \in 1..(y - x + 1) |-> x + k - 1]
  ELSE IF transfers({}).ranges = "both" THEN [k \in 1..(x - y + 1) |-> x - k + 1] ELSE <<>>

\* CHIP8E steps I over the range, XOCHIP leaves it.
BehindRange(x, y) == IF transfers({}).ranges = "up" THEN i + Len(Range(x, y)) ELSE i

\* A plausible mistake: 5xy3 goes upwards in either order.
instruction_5xy3_upwards(x, y) ==
  /\ transfers({}).ranges # "none"
  /\ Fetch(IF x <= y THEN Range(x, y) ELSE Range(y, x), BehindRange(x, y))

instruction_5xy2(x, y) ==
  transfers({}).ranges # "none" /\ Store(Range(x, y), BehindRange(x, y))
instruction_5xy3(x, y) ==
  transfers({}).ranges # "none" /\ Fetch(Range(x, y), BehindRange(x, y))

Next ==
  /\ \/ \E x \in Index, nn \in Value : SetRegister(x, nn)
     \/ \E n \in Address : SetI(n)
     \/ \E x \in Index : instruction_Fx1E(x)
     \/ \E x, y \in Index : instruction_5xy2(x, y) \/ instruction_5xy3(x, y)
     \/ \E n \in Index, quirks \in Quirks :
          instruction_FN55(n, quirks) \/ instruction_FN65(n, quirks)
  /\ UNCHANGED core

Spec == Init /\ [][Next]_vars
-----------------------------------------------------------------------------
\* The registers that were stored last come back with the values that they had, from
\* the same I, whichever of the two pairs stores and loads them, in whichever
\* direction, and across the end of memory.
SavedIsRestored ==
  \A x, y \in Index :
    /\ i = saved.at /\ saved.list = Range(x, y)
    /\ \/ instruction_5xy3(x, y)
       \/ x = 0 /\ \E quirks \in Quirks : instruction_FN65(y, quirks)
    => \A k \in 1..Len(saved.list) : v'[saved.list[k]] = saved.values[k]
=============================================================================
