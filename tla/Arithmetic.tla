----------------------------- MODULE Arithmetic -----------------------------
(***************************************************************************)
(* The registers of a CHIP-8 core and its arithmetic: the handlers of      *)
(* 6xNN, 7xNN, CxNN and 8xy0 to 8xyE.  The last register, VF, is the flag  *)
(* of an operation and may be its operand and its target as well; each     *)
(* handler writes its target first and the flag last.                      *)
(***************************************************************************)
EXTENDS InstructionSets, Integers

CONSTANTS
  Register,   \* the sixteen registers
  VF,         \* the one that flags go to
  Base,       \* the values of a register (256)
  BitNumbers  \* its bits, the lowest is 0

ASSUME RegisterAssumption == VF \in Register
ASSUME BaseAssumption == Base \in Nat /\ Base >= 2 /\ Base % 2 = 0

VARIABLES
  v           \* m_registers_V

registerVars == <<core, v>>

Value == 0..(Base - 1)

\* The quirks that arithmetic knows, as the user may have set them.
Quirks == SUBSET (avail_quirks \cap {"RESET_VF_REG", "SHIFT_VX_REG"})

\* The conversion of a result to u8.
Cast(n) == IF n >= Base THEN n - Base ELSE IF n < 0 THEN n + Base ELSE n

Bit(n, k) == (n \div 2^k) % 2 = 1
-----------------------------------------------------------------------------
(* Plausible mistakes.                                                     *)

\* Assign: the flag first.
AssignFlagFirst(x, result, flag) ==
  v' = [v EXCEPT ![VF] = IF flag THEN 1 ELSE 0, ![x] = result]

\* NoBorrow: equal registers borrow.
NoBorrowStrict(a, b) == a > b
-----------------------------------------------------------------------------
\* A handler's two assignments, of the result to VX and then of the flag to VF.
Assign(x, result, flag) ==
  v' = [v EXCEPT ![x] = result, ![VF] = IF flag THEN 1 ELSE 0]

RegistersInit == core \in Core /\ v = [r \in Register |-> 0]

\* 6xNN and CxNN: a constant of the program, or a random number under its mask.
Load(x, nn) == v' = [v EXCEPT ![x] = nn]

\* 7xNN has no flag.
instruction_7xNN(x, nn) == v' = [v EXCEPT ![x] = Cast(v[x] + nn)]

\* 8xy0 and the bitwise operations: the flag is cleared if the core, or its quirk, says so.
Move(op, x, result, quirks) ==
  v' = IF op \in arithmetic(quirks).clears
       THEN [v EXCEPT ![x] = result, ![VF] = 0]
       ELSE [v EXCEPT ![x] = result]

instruction_8xy0(x, y, quirks) == Move("8xy0", x, v[y], quirks)

instruction_8xy1(x, y, quirks) ==
  \E result \in Value :
    /\ \A k \in BitNumbers : Bit(result, k) <=> Bit(v[x], k) \/ Bit(v[y], k)
    /\ Move("8xy1", x, result, quirks)

instruction_8xy2(x, y, quirks) ==
  \E result \in Value :
    /\ \A k \in BitNumbers : Bit(result, k) <=> Bit(v[x], k) /\ Bit(v[y], k)
    /\ Move("8xy2", x, result, quirks)

instruction_8xy3(x, y, quirks) ==
  \E result \in Value :
    /\ \A k \in BitNumbers : Bit(result, k) <=> Bit(v[x], k) # Bit(v[y], k)
    /\ Move("8xy3", x, result, quirks)

NoBorrow(a, b) == a >= b

instruction_8xy4(x, y) == Assign(x, Cast(v[x] + v[y]), v[x] + v[y] >= Base)
instruction_8xy5(x, y) == Assign(x, Cast(v[x] - v[y]), NoBorrow(v[x], v[y]))
instruction_8xy7(x, y) == Assign(x, Cast(v[y] - v[x]), NoBorrow(v[y], v[x]))

\* The register that a shift takes: a core that shifts VX in place does so after VY
\* was copied there, or was not.
Source(x, y, quirks) == IF arithmetic(quirks).inPlace THEN v[x] ELSE v[y]

instruction_8xy6(x, y, quirks) ==
  Assign(x, Source(x, y, quirks) \div 2, Source(x, y, quirks) % 2 = 1)

instruction_8xyE(x, y, quirks) ==
  Assign(x, Cast(2 * Source(x, y, quirks)), 2 * Source(x, y, quirks) >= Base)

\* Quirks are chosen anew for every instruction: the menu changes them between frames.
RegistersNext ==
  /\ \/ \E x \in Register, nn \in Value : Load(x, nn) \/ instruction_7xNN(x, nn)
     \/ \E x, y \in Register :
          \/ instruction_8xy4(x, y) \/ instruction_8xy5(x, y) \/ instruction_8xy7(x, y)
          \/ \E quirks \in Quirks :
               \/ instruction_8xy0(x, y, quirks) \/ instruction_8xy1(x, y, quirks)
               \/ instruction_8xy2(x, y, quirks) \/ instruction_8xy3(x, y, quirks)
               \/ instruction_8xy6(x, y, quirks) \/ instruction_8xyE(x, y, quirks)
  /\ UNCHANGED core

RegistersSpec == RegistersInit /\ [][RegistersNext]_registerVars
-----------------------------------------------------------------------------
\* The types of core and registers.
RegistersOK == core \in Core /\ v \in [Register -> Value]

Flag == v'[VF]
FlagTimesBase == IF v'[VF] = 1 THEN Base ELSE 0

SumIsExact(x, y) ==
  /\ Flag \in {0, 1}
  /\ IF x # VF THEN v'[x] + FlagTimesBase = v[x] + v[y]
     ELSE Flag = 1 <=> v[x] + v[y] >= Base

DifferenceIsExact(x, a, b) ==
  /\ Flag \in {0, 1}
  /\ IF x # VF THEN v'[x] + FlagTimesBase = a + Base - b ELSE Flag = 1 <=> a >= b

ShiftIsExact(x, y, quirks) ==
  LET from == IF arithmetic(quirks).inPlace THEN v[x] ELSE v[y]
  IN  /\ instruction_8xy6(x, y, quirks) =>
           /\ Flag \in {0, 1} /\ 2 * (from \div 2) + Flag = from
           /\ x # VF => 2 * v'[x] + Flag = from
      /\ instruction_8xyE(x, y, quirks) =>
           /\ Flag \in {0, 1} /\ (Flag = 1 <=> 2 * from >= Base)
           /\ x # VF => v'[x] + FlagTimesBase = 2 * from

ExactCarry ==
  \A x, y \in Register :
    /\ instruction_8xy4(x, y) => SumIsExact(x, y)
    /\ instruction_8xy5(x, y) => DifferenceIsExact(x, v[x], v[y])
    /\ instruction_8xy7(x, y) => DifferenceIsExact(x, v[y], v[x])
    /\ \A quirks \in Quirks : ShiftIsExact(x, y, quirks)

\* Nothing of a result is lost: VX and VF together are the sum, the difference with
\* its borrow, or the number that was shifted; and where VF itself is the target, it
\* is the flag alone.
CarryIsExact == [][v' # v => ExactCarry]_registerVars
=============================================================================
