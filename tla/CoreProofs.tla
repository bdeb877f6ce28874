----------------------------- MODULE CoreProofs -----------------------------
(***************************************************************************)
(* Proofs about the instructions of a core: the registers, for any number  *)
(* of them and any even number of values; and the program counter, for any *)
(* size of the memory and any program in it.                               *)
(*                                                                         *)
(* That the counter never stands inside of an instruction needs the table  *)
(* of each core, LongIsLong, and that behind every instruction there is    *)
(* another, also where the memory begins again.                            *)
(*                                                                         *)
(* The maps of pixels, of any width and height, are moved by Shift, which  *)
(* the display of SCHIP_LEGACY uses with the distances of its scrolls; its *)
(* squares survive them and the sprites that are drawn from 32 bits.  What *)
(* a sprite flips, clipped or wrapped, is its bits: of CHIP8_MODERN,       *)
(* SCHIP_MODERN, CHIP8E, CHIP8X, of XOCHIP plane by plane, of SCHIP_LEGACY *)
(* in extended mode and doubled, and of MEGACHIP in its three modes; what  *)
(* CHIP8X paints are its zones.                                            *)
(*                                                                         *)
(* Registers come back from memory of any size, and from their file.       *)
(***************************************************************************)
EXTENDS Arithmetic, Program, SchipLegacyDisplay, TLAPS, FiniteSetTheorems

-----------------------------------------------------------------------------
(* The registers                                                           *)

\* A sum or a difference of two values comes back into the range when it is converted.
LEMMA CastInRange ==
  ASSUME NEW n \in Int, n < 2 * Base, n >= 0 - Base
  PROVE  Cast(n) \in Value
<1>1. CASE n >= Base
  BY <1>1, BaseAssumption DEF Cast, Value
<1>2. CASE n < 0
  BY <1>2, BaseAssumption DEF Cast, Value
<1>3. CASE n >= 0 /\ n < Base
  BY <1>3, BaseAssumption DEF Cast, Value
<1> QED
  BY <1>1, <1>2, <1>3, BaseAssumption

\* Half of a value is a value, and its lowest bit is what halving drops.
LEMMA Half ==
  ASSUME NEW n \in Value
  PROVE  /\ n \div 2 \in Value
         /\ n % 2 \in {0, 1}
         /\ 2 * (n \div 2) + (n % 2) = n
<1>1. n \in Nat /\ n < Base
  BY BaseAssumption DEF Value
<1>2. n \div 2 \in Nat /\ n % 2 \in {0, 1} /\ 2 * (n \div 2) + (n % 2) = n
  BY <1>1
<1>3. n \div 2 =< n
  BY <1>1, <1>2
<1> QED
  BY <1>1, <1>2, <1>3, BaseAssumption DEF Value

\* A handler that writes a value and then a flag keeps the registers' type.
LEMMA AssignType ==
  ASSUME v \in [Register -> Value], NEW x \in Register, NEW result \in Value, NEW flag,
         Assign(x, result, flag)
  PROVE  v' \in [Register -> Value]
<1>1. 0 \in Value /\ 1 \in Value
  BY BaseAssumption DEF Value
<1> QED
  BY <1>1, RegisterAssumption DEF Assign

\* What Assign leaves in VX and in VF, even when they are one register.
LEMMA Assigned ==
  ASSUME v \in [Register -> Value], NEW x \in Register, NEW result, NEW flag,
         Assign(x, result, flag)
  PROVE  /\ Flag = IF flag THEN 1 ELSE 0
         /\ FlagTimesBase = IF flag THEN Base ELSE 0
         /\ x # VF => v'[x] = result
<1>1. Flag = IF flag THEN 1 ELSE 0
  BY RegisterAssumption DEF Assign, Flag
<1>2. x # VF => v'[x] = result
  BY RegisterAssumption DEF Assign
<1> QED
  BY <1>1, <1>2 DEF Flag, FlagTimesBase
-----------------------------------------------------------------------------
\* What a move puts into a register is a value.
LEMMA MoveType ==
  ASSUME v \in [Register -> Value], NEW word, NEW x \in Register, NEW result \in Value,
         NEW quirks, Move(word, x, result, quirks)
  PROVE  v' \in [Register -> Value]
<1>1. 0 \in Value
  BY BaseAssumption DEF Value
<1> QED
  BY <1>1, RegisterAssumption DEF Move

\* Where the registers begin.
LEMMA RegistersInitial == RegistersInit => RegistersOK
<1>1. 0 \in Value
  BY BaseAssumption DEF Value
<1> QED
  BY <1>1 DEF RegistersInit, RegistersOK

\* Every instruction assigns values to registers.
LEMMA RegistersStep == RegistersOK /\ [RegistersNext]_registerVars => RegistersOK'
<1> SUFFICES ASSUME RegistersOK, [RegistersNext]_registerVars PROVE RegistersOK'
  OBVIOUS
<1> USE DEF RegistersOK
<1>1. CASE UNCHANGED registerVars
  BY <1>1 DEF registerVars
<1>2. \A a, b \in Value : Cast(a + b) \in Value /\ Cast(a - b) \in Value
  <2> TAKE a, b \in Value
  <2>1. a \in Int /\ a >= 0 /\ a < Base /\ b \in Int /\ b >= 0 /\ b < Base
    BY BaseAssumption DEF Value
  <2>2. /\ a + b \in Int /\ a + b < 2 * Base /\ a + b >= 0 - Base
        /\ a - b \in Int /\ a - b < 2 * Base /\ a - b >= 0 - Base
    BY <2>1, BaseAssumption
  <2> QED
    BY <2>2, CastInRange
<1>3. ASSUME NEW x \in Register, NEW nn \in Value, Load(x, nn) \/ instruction_7xNN(x, nn)
      PROVE  v' \in [Register -> Value]
  BY <1>2, <1>3 DEF Load, instruction_7xNN
<1>4. ASSUME NEW x \in Register, NEW y \in Register,
             instruction_8xy4(x, y) \/ instruction_8xy5(x, y) \/ instruction_8xy7(x, y)
      PROVE  v' \in [Register -> Value]
  <2>1. CASE instruction_8xy4(x, y)
    <3>1. Cast(v[x] + v[y]) \in Value
      BY <1>2
    <3> QED
      BY <2>1, <3>1, AssignType DEF instruction_8xy4
  <2>2. CASE instruction_8xy5(x, y)
    <3>1. Cast(v[x] - v[y]) \in Value
      BY <1>2
    <3> QED
      BY <2>2, <3>1, AssignType DEF instruction_8xy5
  <2>3. CASE instruction_8xy7(x, y)
    <3>1. Cast(v[y] - v[x]) \in Value
      BY <1>2
    <3> QED
      BY <2>3, <3>1, AssignType DEF instruction_8xy7
  <2> QED
    BY <1>4, <2>1, <2>2, <2>3
<1>5. ASSUME NEW x \in Register, NEW y \in Register, NEW quirks \in Quirks,
             \/ instruction_8xy0(x, y, quirks) \/ instruction_8xy1(x, y, quirks)
             \/ instruction_8xy2(x, y, quirks) \/ instruction_8xy3(x, y, quirks)
      PROVE  v' \in [Register -> Value]
  <2>1. \E word, result \in {"8xy0", "8xy1", "8xy2", "8xy3"} \cup Value :
          result \in Value /\ Move(word, x, result, quirks)
    BY <1>5 DEF instruction_8xy0, instruction_8xy1, instruction_8xy2, instruction_8xy3
  <2> QED
    BY <2>1, MoveType
<1>6. ASSUME NEW x \in Register, NEW y \in Register, NEW quirks \in Quirks,
             instruction_8xy6(x, y, quirks) \/ instruction_8xyE(x, y, quirks)
      PROVE  v' \in [Register -> Value]
  <2> DEFINE from == Source(x, y, quirks)
  <2>1. from \in Value
    BY DEF Source
  <2>2. from \div 2 \in Value
    BY <2>1, Half
  <2>3. 2 * from = from + from
    BY <2>1, BaseAssumption DEF Value
  <2>4. Cast(2 * from) \in Value
    BY <1>2, <2>1, <2>3
  <2> HIDE DEF from
  <2> QED
    BY <1>6, <2>2, <2>4, AssignType DEF instruction_8xy6, instruction_8xyE, from
<1> QED
  BY <1>1, <1>3, <1>4, <1>5, <1>6 DEF RegistersNext
-----------------------------------------------------------------------------
\* Every register holds a value of its width, whatever the program computes, on every
\* core and with whatever quirks: the conversions of the results to u8 are exhaustive.
THEOREM RegistersAreTyped == RegistersSpec => []RegistersOK
  BY RegistersInitial, RegistersStep, PTL DEF RegistersSpec
-----------------------------------------------------------------------------
\* A sum is exact together with its carry.
LEMMA SumExact ==
  ASSUME RegistersOK, NEW x \in Register, NEW y \in Register, instruction_8xy4(x, y)
  PROVE  SumIsExact(x, y)
<1> DEFINE a == v[x]
           b == v[y]
<1>1. a \in Int /\ a >= 0 /\ a < Base /\ b \in Int /\ b >= 0 /\ b < Base
  BY BaseAssumption DEF RegistersOK, Value
<1>2. /\ Flag = IF a + b >= Base THEN 1 ELSE 0
      /\ FlagTimesBase = IF a + b >= Base THEN Base ELSE 0
      /\ x # VF => v'[x] = Cast(a + b)
  BY Assigned DEF RegistersOK, instruction_8xy4
<1>3. a + b >= Base => Cast(a + b) + Base = a + b
  BY <1>1, BaseAssumption DEF Cast
<1>4. ~(a + b >= Base) => Cast(a + b) + 0 = a + b
  BY <1>1, BaseAssumption DEF Cast
<1> HIDE DEF a, b
<1>5. Flag \in {0, 1} /\ (Flag = 1 <=> a + b >= Base)
  BY <1>2
<1>6. x # VF => v'[x] + FlagTimesBase = a + b
  BY <1>2, <1>3, <1>4
<1> QED
  BY <1>5, <1>6 DEF SumIsExact, a, b

\* A difference is exact together with its borrow.
LEMMA DifferenceExact ==
  ASSUME RegistersOK, NEW x \in Register, NEW a \in Value, NEW b \in Value,
         Assign(x, Cast(a - b), NoBorrow(a, b))
  PROVE  DifferenceIsExact(x, a, b)
<1>1. a \in Int /\ a >= 0 /\ a < Base /\ b \in Int /\ b >= 0 /\ b < Base
  BY BaseAssumption DEF Value
<1>2. /\ Flag = IF a >= b THEN 1 ELSE 0
      /\ FlagTimesBase = IF a >= b THEN Base ELSE 0
      /\ x # VF => v'[x] = Cast(a - b)
  BY Assigned DEF RegistersOK, NoBorrow
<1>3. a >= b => Cast(a - b) + Base = a + Base - b
  BY <1>1, BaseAssumption DEF Cast
<1>4. ~(a >= b) => Cast(a - b) + 0 = a + Base - b
  BY <1>1, BaseAssumption DEF Cast
<1>5. Flag \in {0, 1} /\ (Flag = 1 <=> a >= b)
  BY <1>2
<1>6. x # VF => v'[x] + FlagTimesBase = a + Base - b
  BY <1>2, <1>3, <1>4
<1> QED
  BY <1>5, <1>6 DEF DifferenceIsExact

\* What a shift drops is in the flag.
LEMMA ShiftExact ==
  ASSUME RegistersOK, NEW x \in Register, NEW y \in Register, NEW quirks
  PROVE  ShiftIsExact(x, y, quirks)
<1> DEFINE from == Source(x, y, quirks)
<1>1. from \in Value
  BY DEF Source, RegistersOK
<1>2. from = IF arithmetic(quirks).inPlace THEN v[x] ELSE v[y]
  BY DEF Source
<1>3. ASSUME instruction_8xy6(x, y, quirks)
      PROVE  /\ Flag \in {0, 1} /\ 2 * (from \div 2) + Flag = from
             /\ x # VF => 2 * v'[x] + Flag = from
  <2>1. Assign(x, from \div 2, from % 2 = 1)
    BY <1>3 DEF instruction_8xy6
  <2> HIDE DEF from
  <2>2. /\ Flag = IF from % 2 = 1 THEN 1 ELSE 0
        /\ x # VF => v'[x] = from \div 2
    BY <2>1, Assigned DEF RegistersOK
  <2>3. from % 2 \in {0, 1} /\ 2 * (from \div 2) + (from % 2) = from
    BY <1>1, Half
  <2>4. Flag = from % 2
    BY <2>2, <2>3
  <2> QED
    BY <2>2, <2>3, <2>4
<1>4. ASSUME instruction_8xyE(x, y, quirks)
      PROVE  /\ Flag \in {0, 1} /\ (Flag = 1 <=> 2 * from >= Base)
             /\ x # VF => v'[x] + FlagTimesBase = 2 * from
  <2>1. Assign(x, Cast(2 * from), 2 * from >= Base)
    BY <1>4 DEF instruction_8xyE
  <2> HIDE DEF from
  <2>2. /\ Flag = IF 2 * from >= Base THEN 1 ELSE 0
        /\ FlagTimesBase = IF 2 * from >= Base THEN Base ELSE 0
        /\ x # VF => v'[x] = Cast(2 * from)
    BY <2>1, Assigned DEF RegistersOK
  <2>3. from \in Int /\ from >= 0 /\ from < Base
    BY <1>1, BaseAssumption DEF Value
  <2>4. 2 * from >= Base => Cast(2 * from) + Base = 2 * from
    BY <2>3, BaseAssumption DEF Cast
  <2>5. ~(2 * from >= Base) => Cast(2 * from) + 0 = 2 * from
    BY <2>3, BaseAssumption DEF Cast
  <2>6. Flag \in {0, 1} /\ (Flag = 1 <=> 2 * from >= Base)
    BY <2>2
  <2>7. x # VF => v'[x] + FlagTimesBase = 2 * from
    BY <2>2, <2>4, <2>5
  <2> QED
    BY <2>6, <2>7
<1> HIDE DEF from
<1> QED
  BY <1>2, <1>3, <1>4 DEF ShiftIsExact

\* Nothing of a result is lost, in any step.
LEMMA StepExact == RegistersOK => ExactCarry
<1> SUFFICES ASSUME RegistersOK, NEW x \in Register, NEW y \in Register
             PROVE  /\ instruction_8xy4(x, y) => SumIsExact(x, y)
                    /\ instruction_8xy5(x, y) => DifferenceIsExact(x, v[x], v[y])
                    /\ instruction_8xy7(x, y) => DifferenceIsExact(x, v[y], v[x])
                    /\ \A quirks \in Quirks : ShiftIsExact(x, y, quirks)
  BY DEF ExactCarry
<1>1. v[x] \in Value /\ v[y] \in Value
  BY DEF RegistersOK
<1>2. instruction_8xy5(x, y) => DifferenceIsExact(x, v[x], v[y])
  BY <1>1, DifferenceExact DEF instruction_8xy5
<1>3. instruction_8xy7(x, y) => DifferenceIsExact(x, v[y], v[x])
  BY <1>1, DifferenceExact DEF instruction_8xy7
<1> QED
  BY <1>2, <1>3, SumExact, ShiftExact

\* Nothing of a result is lost: VX and VF together are the exact sum, the difference
\* with its borrow, or the shifted number, for any width of a register, for operands
\* and targets that may be VF itself, on every core and with whatever quirks.
THEOREM CarriesAreExact == RegistersSpec => CarryIsExact
<1>1. RegistersOK /\ [RegistersNext]_registerVars => [v' # v => ExactCarry]_registerVars
  BY StepExact
<1> QED
  BY <1>1, RegistersAreTyped, PTL DEF RegistersSpec, CarryIsExact

-----------------------------------------------------------------------------
(* The program counter                                                     *)

\* The types that the proof needs.
ProgramTypes == core \in Core /\ starts \subseteq Address

\* Behind an instruction there is another one, also behind the last of them.
StartsAreClosed ==
  /\ 0 \in starts
  /\ \A a \in starts : Behind(a, IF code[a] \in LongWord THEN 2 ELSE 1) \in starts

\* The inductive invariant of the program counter.
ProgramIInv == ProgramTypes /\ StartsAreClosed /\ NeverInsideLong

\* An instruction of four bytes does nothing but to take the next word: no other handler and
\* no word that is passed over is long.
LEMMA LongIsLong ==
  ASSUME core \in Core, NEW word
  PROVE  /\ "long" \in effects(word) <=> word \in LongWord
         /\ word \in LongWord => word \notin ignores /\ word \notin {"0010", "0011"}
         /\ word \in LongWord => effects(word) = {"long"}
<1> USE DEF effects, handlers, sprite, LongWord, ignores, Zeroes, FlowWords, KeyWords, TimerWords,
  PermaWords
<1>1. CASE core = "CHIP8_MODERN"
  BY <1>1 DEF CHIP8_MODERN_0, CHIP8_MODERN_1to7, CHIP8_MODERN_9toC, CHIP8_MODERN_E,
    CHIP8_MODERN_F
<1>2. CASE core = "CHIP8E"
  BY <1>2 DEF CHIP8E_0, CHIP8E_1to7, CHIP8E_9toC, CHIP8E_E,
    CHIP8E_F
<1>3. CASE core = "CHIP8X"
  BY <1>3 DEF CHIP8X_0, CHIP8X_1to7, CHIP8X_9toC, CHIP8X_E,
    CHIP8X_F
<1>4. CASE core = "SCHIP_LEGACY"
  BY <1>4 DEF SCHIP_LEGACY_0, SCHIP_LEGACY_1to7, SCHIP_LEGACY_9toC, SCHIP_LEGACY_E,
    SCHIP_LEGACY_F
<1>5. CASE core = "SCHIP_MODERN"
  BY <1>5 DEF SCHIP_MODERN_0, SCHIP_MODERN_1to7, SCHIP_MODERN_9toC, SCHIP_MODERN_E,
    SCHIP_MODERN_F
<1>6. CASE core = "XOCHIP"
  BY <1>6 DEF XOCHIP_0, XOCHIP_1to7, XOCHIP_9toC, XOCHIP_E,
    XOCHIP_F
<1>7. CASE core = "MEGACHIP"
  BY <1>7 DEF MEGACHIP_0, MEGACHIP_1to7, MEGACHIP_9toC, MEGACHIP_E,
    MEGACHIP_F
<1> QED BY <1>1, <1>2, <1>3, <1>4, <1>5, <1>6, <1>7 DEF Core

\* What lies behind an address, in one step and in two.
LEMMA Mirror ==
  ASSUME NEW a \in Address
  PROVE  /\ \A n \in {1, 2} : a + n < ProgramSize => Behind(a, n) = a + n
         /\ \A n \in {1, 2} : a + n = ProgramSize => Behind(a, n) = 0
         /\ \A n \in {1, 2} : Behind(a, 1 + n) = Behind(Behind(a, 1), n)
<1> DEFINE N == ProgramSize
<1>1. N \in Nat \ {0} /\ a \in Nat /\ a < N
  BY ProgramSizeAssumption DEF Address
<1> HIDE DEF N
<1>2. \A m \in 0..N-1 : m % N = m
  BY <1>1
<1>3. N % N = 0
  BY <1>1
<1>4. CASE a + 1 < N
  <2>1. (a + 1) % N = a + 1
    BY <1>1, <1>2, <1>4
  <2> QED BY <1>1, <1>2, <1>3, <2>1 DEF Behind, N
<1>5. CASE a + 1 = N
  <2>1. (a + 1) % N = 0
    BY <1>3, <1>5
  <2>2. \A n \in {1, 2} : (a + (1 + n)) % N = n % N
    <3>1. \A n \in {1, 2} : a + (1 + n) = n + N
      BY <1>1, <1>5
    <3>2. \A n \in {1, 2} : (n + N) % N = n % N
      BY <1>1
    <3> QED BY <3>1, <3>2
  <2> QED BY <1>1, <1>2, <1>3, <1>5, <2>1, <2>2 DEF Behind, N
<1> QED BY <1>1, <1>4, <1>5

\* Programs begin in the invariant.
LEMMA ProgramInitial == ProgramInit => ProgramIInv
<1> SUFFICES ASSUME ProgramInit PROVE ProgramIInv
  OBVIOUS
<1>1. starts \subseteq Address
  BY DEF ProgramInit
<1>2. ASSUME NEW a \in starts
      PROVE  Behind(a, IF code[a] \in LongWord THEN 2 ELSE 1) \in starts
  <2> DEFINE n == IF code[a] \in LongWord THEN 2 ELSE 1
  <2>1. a \in Address /\ n \in {1, 2} /\ 0 \in starts
    BY <1>1 DEF ProgramInit, Listing
  <2>2. a + n = ProgramSize \/ a + n \in starts
    BY DEF ProgramInit, Listing
  <2> HIDE DEF n
  <2>3. CASE a + n = ProgramSize
    BY <2>1, <2>3, Mirror DEF n
  <2>4. CASE a + n \in starts
    <3>1. a + n < ProgramSize
      <4>1. a + n \in Address
        BY <1>1, <2>4
      <4> QED BY ONLY <4>1, <2>1, ProgramSizeAssumption DEF Address
    <3> QED BY <2>1, <2>4, <3>1, Mirror DEF n
  <2> QED BY <2>2, <2>3, <2>4
<1> QED BY <1>1, <1>2 DEF ProgramInit, Listing, ProgramIInv, ProgramTypes, StartsAreClosed,
          NeverInsideLong

\* No step leaves the instructions.
LEMMA ProgramStep == ProgramIInv /\ [ProgramNext]_programVars => ProgramIInv'
<1> SUFFICES ASSUME ProgramIInv, [ProgramNext]_programVars PROVE ProgramIInv'
  OBVIOUS
<1> USE DEF ProgramIInv
<1>1. CASE UNCHANGED programVars
  BY <1>1 DEF programVars, ProgramTypes, StartsAreClosed, NeverInsideLong, Behind, LongWord
<1>2. CASE ProgramNext
  <2>1. UNCHANGED <<core, code, starts>>
    BY <1>2 DEF ProgramNext, Unknown, Ignored, GoOn, Long, Skip, Jump, Return, instruction_0010,
       instruction_0011, reset_program
  <2>2. StartsAreClosed'
    BY <2>1 DEF StartsAreClosed, Behind, LongWord
  <2>3. ASSUME ~stopped, code[pc] \notin LongWord PROVE Behind(pc, 1) \in starts
    BY <2>3 DEF StartsAreClosed, NeverInsideLong
  <2>4. NeverInsideLong'
    <3> USE DEF NeverInsideLong
    <3>1. CASE Unknown
      BY <3>1 DEF Unknown
    <3>2. CASE Ignored
      BY <3>2, <2>1, <2>3, LongIsLong DEF Ignored, ProgramTypes
    <3>3. CASE GoOn
      BY <3>3, <2>1, <2>3, LongIsLong DEF GoOn, Fetches, Does, ProgramTypes
    <3>4. CASE Long
      <4>1. code[pc] \in LongWord
        BY <3>4, LongIsLong DEF Long, Does, ProgramTypes
      <4> QED BY <3>4, <2>1, <4>1 DEF Long, Fetches, StartsAreClosed
    <3>5. CASE Skip
      <4>1. ~stopped /\ pc \in starts /\ code[pc] \notin LongWord
        <5>1. "skip" \in effects(code[pc])
          BY <3>5 DEF Skip, Does
        <5> QED BY <3>5, <5>1, LongIsLong DEF Skip, Fetches, ProgramTypes
      <4>2. Behind(pc, 1) \in starts
        BY <4>1, <2>3
      <4>3. Behind(Behind(pc, 1), Length(Behind(pc, 1))) \in starts
        BY <4>2 DEF StartsAreClosed, Length
      <4>4. Behind(pc, 1 + Length(Behind(pc, 1))) \in starts
        <5>1. pc \in Address
          BY <4>1 DEF ProgramTypes
        <5>2. Length(Behind(pc, 1)) \in {1, 2}
          BY DEF Length
        <5> QED BY ONLY <4>3, <5>1, <5>2, Mirror
      <4> QED BY <3>5, <2>1, <4>2, <4>4 DEF Skip
    <3>6. CASE Jump
      BY <3>6, <2>1 DEF Jump
    <3>7. CASE Return
      BY <3>7, <2>1 DEF Return
    <3>8. CASE instruction_0010 \/ instruction_0011
      BY <3>8, <2>1, <2>3, LongIsLong DEF instruction_0010, instruction_0011, Fetches, ProgramTypes
    <3>9. CASE reset_program
      BY <3>9, <2>1 DEF reset_program, StartsAreClosed
    <3> QED BY <1>2, <3>1, <3>2, <3>3, <3>4, <3>5, <3>6, <3>7, <3>8, <3>9 DEF ProgramNext
  <2> QED BY <2>1, <2>2, <2>4 DEF ProgramTypes, Address
<1> QED BY <1>1, <1>2

\* For any memory and any program: neither a skip nor a jump, nor a word that a mode of the
\* core does not know, leads a core into the second half of an instruction.
THEOREM OnlyInstructionsRun == ProgramSpec => []NeverInsideLong
<1>1. ProgramIInv => NeverInsideLong
  BY DEF ProgramIInv
<1> QED BY ProgramInitial, ProgramStep, <1>1, PTL DEF ProgramSpec

-----------------------------------------------------------------------------
(* Maps of pixels                                                          *)

\* What a quotient and a remainder are.
LEMMA Quotient ==
  ASSUME NEW a \in Int, NEW n \in Nat \ {0}
  PROVE  a \div n \in Int /\ a % n \in 0..(n - 1) /\ a = (a \div n) * n + (a % n)
<1>1. a \div n \in Int /\ a % n \in Int /\ 0 <= a % n /\ a % n < n
  OBVIOUS
<1>2. a % n = a - (a \div n) * n
  OBVIOUS
<1>3. (a \div n) * n \in Int
  BY <1>1
<1>4. a % n \in 0..(n - 1)
  BY <1>1
<1>5. \A p, r \in Int : r = a - p => a = p + r
  OBVIOUS
<1>6. a = (a \div n) * n + (a % n)
  BY <1>1, <1>2, <1>3, <1>5, Zenon
<1> QED BY <1>1, <1>4, <1>6, Zenon

\* A place of a row is counted in whole rows and the rest.
LEMMA Rest ==
  ASSUME NEW w \in Nat \ {0}, NEW x \in 0..(w - 1), NEW y \in Int
  PROVE  /\ Index(x, y, w) \in Int
         /\ Index(x, y, w) \div w = y /\ Index(x, y, w) % w = x
<1> DEFINE k == y * w + x
<1>1. k \in Int /\ y * w \in Int /\ x \in Int /\ 0 <= x /\ x < w
  OBVIOUS
<1>2. k \div w \in Int /\ k % w \in 0..(w - 1) /\ k = (k \div w) * w + (k % w)
  BY ONLY <1>1, w \in Nat \ {0}, Quotient
<1> DEFINE q == k \div w
           r == k % w
<1>3. q = y
  <2> HIDE DEF q, r
  <2>1. q \in Int /\ r \in Int /\ 0 <= r /\ r < w /\ y * w + x = q * w + r
    BY <1>2 DEF q, r
  <2>2. (q - y) * w = x - r
    BY <2>1
  <2>3. \A d \in Int : (d >= 1 => d * w >= w) /\ (d <= -1 => d * w <= 0 - w)
    OBVIOUS
  <2>4. q - y \in Int
    BY <2>1
  <2> QED BY ONLY <2>1, <2>2, <2>3, <2>4, <1>1
<1>4. r = x
  BY ONLY <1>1, <1>2, <1>3
<1> QED BY <1>1, <1>3, <1>4 DEF Index

\* The places of a map are those of its columns and rows, each of them once.
LEMMA Places ==
  ASSUME NEW w \in Nat \ {0}, NEW h \in Nat \ {0}
  PROVE  /\ \A x \in 0..(w - 1), y \in 0..(h - 1) : Index(x, y, w) \in Area(w, h)
         /\ \A i \in Area(w, h) : /\ i % w \in 0..(w - 1) /\ i \div w \in 0..(h - 1)
                                  /\ i = Index(i % w, i \div w, w)
<1>1. \A a, b \in Int : a <= b => a * w <= b * w
  OBVIOUS
<1>2. ASSUME NEW x \in 0..(w - 1), NEW y \in 0..(h - 1)
      PROVE  Index(x, y, w) \in Area(w, h)
  <2>1. y * w \in Int /\ 0 <= y * w /\ y * w <= (h - 1) * w
    BY <1>1
  <2>2. (h - 1) * w = w * h - w
    OBVIOUS
  <2> QED BY <2>1, <2>2 DEF Index, Area
<1>3. ASSUME NEW i \in Area(w, h)
      PROVE  /\ i % w \in 0..(w - 1) /\ i \div w \in 0..(h - 1)
             /\ i = Index(i % w, i \div w, w)
  <2>1. i \in Nat /\ i < w * h /\ i \in Int
    BY DEF Area
  <2>2. i % w \in 0..(w - 1) /\ i \div w \in Int /\ i = (i \div w) * w + (i % w)
    BY ONLY <2>1, w \in Nat \ {0}, Quotient, Zenon
  <2>3. 0 <= i \div w
    BY <2>1, <2>2
  <2>4. i \div w < h
    <3>1. \A q \in Int, r \in 0..(w - 1) : i = q * w + r => q < h
      <4>1. \A q \in Int : h <= q => h * w <= q * w
        BY <1>1
      <4> QED BY <2>1, <4>1
    <3> QED BY <2>2, <3>1, Zenon
  <2>5. \A q \in Int : 0 <= q /\ q < h => q \in 0..(h - 1)
    OBVIOUS
  <2>6. i \div w \in 0..(h - 1)
    BY <2>2, <2>3, <2>4, <2>5, Zenon
  <2> QED BY <2>2, <2>6, Zenon DEF Index
<1> QED BY <1>2, <1>3

\* Where a rotation by less than the size brings a column or a row.
Wrap(n, size) == IF n < 0 THEN n + size ELSE IF n >= size THEN n - size ELSE n

Turn(i, w, h, cols, rows) == Index(Wrap((i % w) + cols, w), Wrap((i \div w) + rows, h), w)

\* std::rotate of a row to the left.
LEMMA RowTurns ==
  ASSUME NEW w \in Nat \ {0}, NEW x \in 0..(w - 1), NEW cols \in Int, Abs(cols) < w
  PROVE  LET across == IF cols < 0 THEN Abs(cols) % w ELSE w - (Abs(cols) % w)
         IN  /\ Wrap(x + cols, w) \in 0..(w - 1)
             /\ (x + w - across) % w = Wrap(x + cols, w)
<1>1. Abs(cols) \in 0..(w - 1)
  BY DEF Abs
<1>2. \A n \in 0..(w - 1) : n % w = n
  OBVIOUS
<1>3. \A n \in 0..(w - 1) : (n + w) % w = n
  OBVIOUS
<1>4. Abs(cols) % w = Abs(cols)
  BY <1>1, <1>2
<1>5. Wrap(x + cols, w) \in 0..(w - 1)
  BY <1>1 DEF Abs, Wrap
<1>6. CASE cols < 0
  <2>1. Abs(cols) = 0 - cols
    BY <1>6 DEF Abs
  <2>2. CASE x + cols < 0
    <3>1. x + w - (Abs(cols) % w) = Wrap(x + cols, w)
      BY <1>4, <2>1, <2>2 DEF Wrap
    <3> QED BY <1>2, <1>5, <1>6, <3>1
  <2>3. CASE x + cols >= 0
    <3>1. Wrap(x + cols, w) = x + cols
      BY <1>6, <2>3 DEF Wrap
    <3>2. x + w - (Abs(cols) % w) = Wrap(x + cols, w) + w
      BY <1>4, <2>1, <3>1
    <3> QED BY <1>3, <1>5, <1>6, <3>2
  <2> QED BY <2>2, <2>3
<1>7. CASE cols >= 0
  <2>1. Abs(cols) = cols
    BY <1>7 DEF Abs
  <2>2. x + w - (w - (Abs(cols) % w)) = x + cols
    BY <1>4, <2>1
  <2>3. CASE x + cols >= w
    <3>1. x + cols = Wrap(x + cols, w) + w
      BY <1>7, <2>3 DEF Wrap
    <3> QED BY <1>3, <1>5, <1>7, <2>2, <3>1
  <2>4. CASE x + cols < w
    <3>1. x + cols = Wrap(x + cols, w)
      BY <1>7, <2>4 DEF Wrap
    <3> QED BY <1>2, <1>5, <1>7, <2>2, <3>1
  <2> QED BY <2>3, <2>4
<1> QED BY <1>5, <1>6, <1>7

\* std::rotate of the whole buffer to the left, by rows.
LEMMA BufferTurns ==
  ASSUME NEW w \in Nat \ {0}, NEW h \in Nat \ {0}, NEW x \in 0..(w - 1), NEW y \in 0..(h - 1),
         NEW rows \in Int, Abs(rows) < h
  PROVE  LET down == IF rows < 0 THEN (Abs(rows) % h) * w ELSE w * h - ((Abs(rows) % h) * w)
         IN  /\ Wrap(y + rows, h) \in 0..(h - 1)
             /\ (Index(x, y, w) + w * h - down) % (w * h) = Index(x, Wrap(y + rows, h), w)
<1> DEFINE z == Wrap(y + rows, h)
           n == w * h
           across == IF rows < 0 THEN Abs(rows) % h ELSE h - (Abs(rows) % h)
<1>1. Abs(rows) \in 0..(h - 1) /\ Abs(rows) % h = Abs(rows)
  BY DEF Abs
<1>2. z \in 0..(h - 1)
  BY RowTurns
<1>3. Index(x, z, w) \in 0..(n - 1) /\ n \in Nat \ {0}
  <2>1. Index(x, z, w) \in Area(w, h)
    BY <1>2, Places
  <2>2. n \in Nat \ {0}
    OBVIOUS
  <2> QED BY <2>1, <2>2 DEF Area
<1>4. \A a, b, c \in Int : (a + b) * c = a * c + b * c /\ (a - b) * c = a * c - b * c
  OBVIOUS
<1>5. Index(x, y, w) + n - (IF rows < 0 THEN (Abs(rows) % h) * w ELSE n - ((Abs(rows) % h) * w))
        \in {Index(x, z, w), Index(x, z, w) + n}
  <2>1. z = y + rows \/ z = y + rows + h \/ z = y + rows - h
    BY DEF Wrap
  <2>2. rows < 0 => z # y + rows - h
    BY DEF Wrap
  <2>3. rows >= 0 => z # y + rows + h
    BY DEF Wrap
  <2>4. /\ (y + rows) * w = y * w + rows * w
        /\ (y + rows + h) * w = y * w + rows * w + n
        /\ (y + rows - h) * w = y * w + rows * w - n
        /\ (0 - rows) * w = 0 - rows * w
        /\ y * w \in Int /\ rows * w \in Int /\ n \in Int
    OBVIOUS
  <2>5. Abs(rows) * w = IF rows < 0 THEN 0 - rows * w ELSE rows * w
    BY <2>4 DEF Abs
  <2>6. Index(x, z, w) = z * w + x /\ Index(x, y, w) = y * w + x
    BY DEF Index
  <2>7. z * w = y * w + rows * w \/ z * w = y * w + rows * w + n \/ z * w = y * w + rows * w - n
    BY <2>1, <2>4
  <2>8. rows < 0 => z * w = y * w + rows * w \/ z * w = y * w + rows * w + n
    BY <2>1, <2>2, <2>4
  <2>9. rows >= 0 => z * w = y * w + rows * w \/ z * w = y * w + rows * w - n
    BY <2>1, <2>3, <2>4
  <2> DEFINE p == y * w
             q == rows * w
             u == z * w
  <2>10. p \in Int /\ q \in Int /\ u \in Int
    BY <1>2
  <2> HIDE DEF z, n, p, q, u
  <2>11. CASE rows < 0
    <3>1. (Abs(rows) % h) * w = 0 - q
      BY <1>1, <2>5, <2>11 DEF q
    <3>2. u = p + q \/ u = p + q + n
      BY <2>8, <2>11 DEF p, q, u
    <3>3. p + x + n - (0 - q) = u + x + n \/ p + x + n - (0 - q) = u + x
      BY <2>10, <3>2, <2>4
    <3> QED BY <2>6, <2>11, <3>1, <3>3 DEF p, u
  <2>12. CASE rows >= 0
    <3>1. (Abs(rows) % h) * w = q
      BY <1>1, <2>5, <2>12 DEF q
    <3>2. u = p + q \/ u = p + q - n
      BY <2>9, <2>12 DEF p, q, u
    <3>3. p + x + n - (n - q) = u + x + n \/ p + x + n - (n - q) = u + x
      BY <2>10, <3>2, <2>4
    <3> QED BY <2>6, <2>12, <3>1, <3>3 DEF p, u
  <2> QED BY <2>11, <2>12
<1>6. ASSUME NEW m \in Nat \ {0} PROVE \A k \in 0..(m - 1) : k % m = k /\ (k + m) % m = k
  <2>1. \A k \in 0..(m - 1) : k % m = k
    OBVIOUS
  <2>2. \A k \in 0..(m - 1) : (k + m) % m = k
    OBVIOUS
  <2> QED BY <2>1, <2>2
<1> HIDE DEF z, n
<1>7. \A k \in 0..(n - 1) : k % n = k /\ (k + n) % n = k
  BY <1>3, <1>6
<1> QED BY <1>2, <1>3, <1>5, <1>7 DEF z, n

\* rotate() moves every place by cols and rows, around the edges.
LEMMA RotateTurns ==
  ASSUME NEW w \in Nat \ {0}, NEW h \in Nat \ {0}, NEW cols \in Int, NEW rows \in Int,
         Abs(cols) < w, Abs(rows) < h, NEW S \in SUBSET Area(w, h)
  PROVE  Rotate(S, w, h, cols, rows) = {Turn(i, w, h, cols, rows) : i \in S}
<1> DEFINE across == IF cols < 0 THEN Abs(cols) % w ELSE w - (Abs(cols) % w)
           down == IF rows < 0 THEN (Abs(rows) % h) * w ELSE w * h - ((Abs(rows) % h) * w)
           Col(i) == ((i % w) + w - across) % w
           Row(k) == (k + w * h - down) % (w * h)
<1>1. ASSUME NEW i \in S
      PROVE  Row(Index(Col(i), i \div w, w)) = Turn(i, w, h, cols, rows)
  <2>1. i % w \in 0..(w - 1) /\ i \div w \in 0..(h - 1)
    BY Places
  <2>2. Col(i) = Wrap((i % w) + cols, w) /\ Wrap((i % w) + cols, w) \in 0..(w - 1)
    BY <2>1, RowTurns
  <2> HIDE DEF Col
  <2>3. Row(Index(Col(i), i \div w, w)) = Index(Col(i), Wrap((i \div w) + rows, h), w)
    BY <2>1, <2>2, BufferTurns
  <2> QED BY <2>2, <2>3 DEF Turn
<1>2. Rotate(S, w, h, cols, rows) = {Row(k) : k \in {Index(Col(i), i \div w, w) : i \in S}}
  BY DEF Rotate
<1> HIDE DEF Col, Row
<1> QED BY <1>1, <1>2

\* What fill() leaves, in columns and rows.
LEMMA FillClears ==
  ASSUME NEW w \in Nat \ {0}, NEW h \in Nat \ {0}, NEW cols \in Int, NEW rows \in Int,
         NEW S, NEW x \in 0..(w - 1), NEW y \in 0..(h - 1)
  PROVE  Index(x, y, w) \in Fill(S, w, h, cols, rows) <=>
           /\ Index(x, y, w) \in S /\ Abs(cols) < w /\ Abs(rows) < h
           /\ IF cols < 0 THEN x < w - Abs(cols) ELSE x >= cols
           /\ IF rows < 0 THEN y < h - Abs(rows) ELSE y >= rows
<1>1. Index(x, y, w) % w = x
  BY Rest
<1>2. ASSUME NEW m \in Int PROVE Index(x, y, w) < w * m <=> y < m
  <2>1. \A a, b \in Int : a <= b => a * w <= b * w
    OBVIOUS
  <2>2. (y + 1) * w = y * w + w /\ y * w \in Int /\ m * w = w * m /\ m * w \in Int
    OBVIOUS
  <2>3. CASE y < m
    <3>1. (y + 1) * w <= m * w
      BY <2>1, <2>3
    <3> QED BY <2>2, <2>3, <3>1 DEF Index
  <2>4. CASE y >= m
    <3>1. m * w <= y * w
      BY <2>1, <2>4
    <3> QED BY <2>2, <2>4, <3>1 DEF Index
  <2> QED BY <2>3, <2>4
<1>3. Index(x, y, w) < w * (h - Abs(rows)) <=> y < h - Abs(rows)
  <2>1. h - Abs(rows) \in Int
    BY DEF Abs
  <2> QED BY <1>2, <2>1
<1>4. Index(x, y, w) >= w * rows <=> y >= rows
  <2>1. Index(x, y, w) \in Int /\ w * rows \in Int
    BY DEF Index
  <2> QED BY <1>2, <2>1
<1> QED BY <1>1, <1>3, <1>4 DEF Fill

\* shift() moves every pixel of a map by cols and rows and brings dark ones in, for every map
\* and every distance.
THEOREM ShiftMoves ==
  ASSUME NEW w \in Nat \ {0}, NEW h \in Nat \ {0}, NEW cols \in Int, NEW rows \in Int, NEW S
  PROVE  Scrolled(S, Shift(S, w, h, cols, rows), w, h, cols, rows)
<1> DEFINE inside == S \cap Area(w, h)
           R == Rotate(inside, w, h, cols, rows)
<1> SUFFICES ASSUME NEW x \in 0..(w - 1), NEW y \in 0..(h - 1)
             PROVE  Index(x, y, w) \in Shift(S, w, h, cols, rows) <=>
                      /\ x - cols \in 0..(w - 1) /\ y - rows \in 0..(h - 1)
                      /\ Index(x - cols, y - rows, w) \in S
  BY DEF Scrolled
<1>1. Index(x, y, w) \in Area(w, h)
  BY Places
<1>2. Index(x, y, w) \in Shift(S, w, h, cols, rows) <=>
        Index(x, y, w) \in Fill(R, w, h, cols, rows)
  BY <1>1 DEF Shift
<1> DEFINE Stays == /\ Abs(cols) < w /\ Abs(rows) < h
                    /\ IF cols < 0 THEN x < w - Abs(cols) ELSE x >= cols
                    /\ IF rows < 0 THEN y < h - Abs(rows) ELSE y >= rows
<1>3. Index(x, y, w) \in Fill(R, w, h, cols, rows) <=> Index(x, y, w) \in R /\ Stays
  <2> HIDE DEF R
  <2> QED BY FillClears
<1>4. Stays <=> x - cols \in 0..(w - 1) /\ y - rows \in 0..(h - 1)
  BY DEF Abs
<1>5. ASSUME Stays PROVE Index(x, y, w) \in R <=> Index(x - cols, y - rows, w) \in S
  <2>1. R = {Turn(i, w, h, cols, rows) : i \in inside}
    BY <1>5, RotateTurns
  <2>2. x - cols \in 0..(w - 1) /\ y - rows \in 0..(h - 1)
    BY <1>4, <1>5
  <2> DEFINE k == Index(x - cols, y - rows, w)
  <2>3. k \in Area(w, h) /\ k % w = x - cols /\ k \div w = y - rows
    BY <2>2, Places, Rest
  <2>4. Turn(k, w, h, cols, rows) = Index(x, y, w)
    <3>1. Wrap((k % w) + cols, w) = x /\ Wrap((k \div w) + rows, h) = y
      BY <2>3 DEF Wrap
    <3> QED BY <3>1 DEF Turn
  <2>5. ASSUME NEW i \in inside, Turn(i, w, h, cols, rows) = Index(x, y, w)
        PROVE  i = k
    <3>1. i % w \in 0..(w - 1) /\ i \div w \in 0..(h - 1) /\ i = Index(i % w, i \div w, w)
      BY Places
    <3> DEFINE a == i % w
               b == i \div w
               c == Wrap(a + cols, w)
               d == Wrap(b + rows, h)
    <3>2. c \in 0..(w - 1) /\ d \in 0..(h - 1)
      BY <1>5, <3>1, RowTurns
    <3>3. c = x /\ d = y
      <4>1. Index(c, d, w) = Index(x, y, w)
        BY <2>5 DEF Turn
      <4>2. Index(c, d, w) % w = c /\ Index(c, d, w) \div w = d
        BY <3>2, Rest
      <4>3. Index(x, y, w) % w = x /\ Index(x, y, w) \div w = y
        BY Rest
      <4> HIDE DEF c, d
      <4> QED BY ONLY <4>1, <4>2, <4>3
    <3>4. a = x - cols /\ b = y - rows
      <4> HIDE DEF a, b
      <4>1. a \in 0..(w - 1) /\ b \in 0..(h - 1)
        BY <3>1 DEF a, b
      <4>2. a = x - cols
        BY <1>5, <3>3, <4>1 DEF Wrap, Abs
      <4>3. b = y - rows
        BY <1>5, <3>3, <4>1 DEF Wrap, Abs
      <4> QED BY <4>2, <4>3
    <3> HIDE DEF a, b
    <3> QED BY <3>1, <3>4 DEF a, b
  <2>6. k \in inside <=> k \in S
    BY <2>3
  <2> HIDE DEF k, R, inside
  <2> QED BY <2>1, <2>4, <2>5, <2>6 DEF k
<1> QED BY <1>2, <1>3, <1>4, <1>5

-----------------------------------------------------------------------------
(* The display that doubles pixels                                         *)

\* The pixels of a square have one colour.
Uniform(S) ==
  \A x \in 0..((W \div 2) - 1), y \in 0..((H \div 2) - 1), dx, dy \in 0..1 :
    Index(2 * x + dx, 2 * y + dy, W) \in S <=> Index(2 * x, 2 * y, W) \in S

\* What the property says of the squares, in terms of the map.
LEMMA UniformSquares == SmallScreenIsFaked <=> (doubled => Uniform(lit))
<1> DEFINE square(x, y) == {Index(2 * x + dx, 2 * y + dy, W) : dx \in 0..1, dy \in 0..1}
<1>1. ASSUME NEW x \in 0..((W \div 2) - 1), NEW y \in 0..((H \div 2) - 1)
      PROVE  (square(x, y) \subseteq lit \/ square(x, y) \cap lit = {}) <=>
               \A dx, dy \in 0..1 :
                 Index(2 * x + dx, 2 * y + dy, W) \in lit <=> Index(2 * x, 2 * y, W) \in lit
  <2>1. 2 * x + 0 = 2 * x /\ 2 * y + 0 = 2 * y /\ 0 \in 0..1
    BY DEF Index
  <2>2. Index(2 * x, 2 * y, W) \in square(x, y)
    BY <2>1
  <2> QED BY <2>2
<1> QED BY <1>1 DEF SmallScreenIsFaked, Uniform

\* A scroll by whole squares leaves them whole.
LEMMA ScrollKeepsSquares ==
  ASSUME W % 2 = 0, H % 2 = 0, NEW S, Uniform(S),
         NEW cols \in Int, cols % 2 = 0, NEW rows \in Int, rows % 2 = 0
  PROVE  Uniform(Shift(S, W, H, cols, rows))
<1>1. W \in Nat \ {0} /\ H \in Nat \ {0}
  BY DimAssumption
<1>2. W = 2 * (W \div 2) /\ H = 2 * (H \div 2) /\ W \div 2 \in Nat /\ H \div 2 \in Nat
  BY <1>1
<1> DEFINE T == Shift(S, W, H, cols, rows)
           w == W \div 2
           h == H \div 2
           c == cols \div 2
           r == rows \div 2
<1>8. cols = 2 * c /\ rows = 2 * r /\ c \in Int /\ r \in Int
  OBVIOUS
<1> HIDE DEF w, h, c, r, T
<1>3. W = 2 * w /\ H = 2 * h /\ w \in Nat /\ h \in Nat
  BY <1>2 DEF w, h
<1>4. Scrolled(S, T, W, H, 2 * c, 2 * r)
  <2>1. Scrolled(S, T, W, H, cols, rows)
    BY <1>1, ShiftMoves DEF T
  <2> QED BY <1>8, <2>1
<1>5. ASSUME NEW x \in 0..(w - 1), NEW y \in 0..(h - 1), NEW dx \in 0..1, NEW dy \in 0..1
      PROVE  Index(2 * x + dx, 2 * y + dy, W) \in T <=>
               /\ x - c \in 0..(w - 1) /\ y - r \in 0..(h - 1)
               /\ Index(2 * (x - c), 2 * (y - r), W) \in S
  <2>1. 2 * x + dx \in 0..(W - 1) /\ 2 * y + dy \in 0..(H - 1)
    BY <1>3
  <2>2. /\ (2 * x + dx) - 2 * c = 2 * (x - c) + dx /\ (2 * y + dy) - 2 * r = 2 * (y - r) + dy
        /\ 2 * (x - c) + dx \in 0..(W - 1) <=> x - c \in 0..(w - 1)
        /\ 2 * (y - r) + dy \in 0..(H - 1) <=> y - r \in 0..(h - 1)
    BY <1>3, <1>8
  <2>3. Index(2 * x + dx, 2 * y + dy, W) \in T <=>
          /\ x - c \in 0..(w - 1) /\ y - r \in 0..(h - 1)
          /\ Index(2 * (x - c) + dx, 2 * (y - r) + dy, W) \in S
    BY <1>4, <2>1, <2>2 DEF Scrolled
  <2> QED BY <2>3 DEF Uniform, w, h
<1>6. 0 \in 0..1 /\ \A n \in Int : 2 * n + 0 = 2 * n
  OBVIOUS
<1>7. ASSUME NEW x \in 0..(w - 1), NEW y \in 0..(h - 1), NEW dx \in 0..1, NEW dy \in 0..1
      PROVE  Index(2 * x + dx, 2 * y + dy, W) \in T <=> Index(2 * x, 2 * y, W) \in T
  <2>1. Index(2 * x + 0, 2 * y + 0, W) = Index(2 * x, 2 * y, W)
    BY <1>6
  <2>2. Index(2 * x + 0, 2 * y + 0, W) \in T <=> Index(2 * x + dx, 2 * y + dy, W) \in T
    BY <1>5, <1>6
  <2> QED BY <2>1, <2>2
<1> QED BY <1>7 DEF Uniform, w, h, T

\* The places that a byte reaches in a row.
LEMMA ClipReaches ==
  ASSUME NEW cells \in SUBSET Nat, NEW xb \in Nat, NEW b \in 0..(H - 1),
         NEW x \in 0..(W - 1), NEW y \in 0..(H - 1)
  PROVE  Index(x, y, W) \in ClipColumn(cells, xb, b) <=> y = b /\ x - xb \in cells
<1>1. W \in Nat \ {0} /\ H \in Nat \ {0}
  BY DimAssumption
<1>2. ASSUME NEW c \in cells, xb + c < W, Index(xb + c, b, W) = Index(x, y, W)
      PROVE  y = b /\ x = xb + c
  <2>1. xb + c \in 0..(W - 1)
    BY <1>1, <1>2
  <2>2. /\ Index(xb + c, b, W) \div W = b /\ Index(xb + c, b, W) % W = xb + c
        /\ Index(x, y, W) \div W = y /\ Index(x, y, W) % W = x
    BY <1>1, <2>1, Rest
  <2> QED BY <1>2, <2>2
<1>3. ASSUME y = b, x - xb \in cells
      PROVE  \E c \in cells : xb + c < W /\ Index(xb + c, b, W) = Index(x, y, W)
  <2>1. xb + (x - xb) = x /\ x < W
    BY <1>1
  <2> QED BY <1>3, <2>1
<1>4. \A c \in cells : x = xb + c => x - xb = c
  BY <1>1
<1> QED BY <1>2, <1>3, <1>4 DEF ClipColumn

\* Doubling a bit and shifting it by pairs.
LEMMA DoubledBits ==
  ASSUME NEW B \in SUBSET Nat, NEW o \in Nat, NEW e \in Int, NEW d \in 0..1
  PROVE  2 * e + d \in {b + 2 * o : b \in bit_dup(B)} <=> e - o \in B
<1>1. ASSUME NEW b \in bit_dup(B), 2 * e + d = b + 2 * o PROVE e - o \in B
  <2>1. PICK a \in B : b = 2 * a \/ b = 2 * a + 1
    BY DEF bit_dup
  <2>2. a = e - o
    BY <1>1, <2>1
  <2> QED BY <2>2
<1>2. ASSUME e - o \in B PROVE \E b \in bit_dup(B) : 2 * e + d = b + 2 * o
  <2>1. 2 * (e - o) \in bit_dup(B) /\ 2 * (e - o) + 1 \in bit_dup(B)
    BY <1>2 DEF bit_dup
  <2>2. 2 * e + d = 2 * (e - o) + 2 * o \/ 2 * e + d = (2 * (e - o) + 1) + 2 * o
    OBVIOUS
  <2> QED BY <2>1, <2>2
<1> QED BY <1>1, <1>2

\* The remainder of an even number by an even one is even.
LEMMA EvenRemainder ==
  ASSUME NEW a \in Nat, NEW n \in Nat \ {0}, n % 2 = 0
  PROVE  /\ (2 * a) % n \in 0..(n - 1)
         /\ \E e \in Nat : (2 * a) % n = 2 * e
<1>1. 2 * a \in Int /\ n = 2 * (n \div 2) /\ n \div 2 \in Nat
  OBVIOUS
<1> DEFINE q == (2 * a) \div n
           h == n \div 2
           m == (2 * a) % n
<1>2. q \in Int /\ m \in 0..(n - 1) /\ 2 * a = q * n + m
  BY <1>1, Quotient
<1> HIDE DEF q, h, m
<1>3. n = 2 * h /\ h \in Nat
  BY <1>1 DEF h
<1>4. q * n = 2 * (q * h) /\ q * h \in Int
  BY <1>2, <1>3
<1>5. m = 2 * (a - q * h)
  BY <1>2, <1>4
<1>6. a - q * h \in Nat
  BY <1>2, <1>4, <1>5
<1> QED BY <1>2, <1>5, <1>6 DEF m

\* A doubled sprite changes whole squares.
LEMMA DoubledDrawKeepsSquares ==
  ASSUME W % 2 = 0, H % 2 = 0, Uniform(lit),
         NEW x \in Xs, NEW y \in Ys, NEW n \in 0..Rows, NEW i \in 0..(Len(Memory) - 1),
         i + RowsOf(n) <= Len(Memory), DrawDouble(x, y, n, i)
  PROVE  Uniform(lit')
<1> DEFINE xb == Snap((2 * x) % W, 2 * ByteW)
           yb == YBegin(y)
           rows == {r \in 0..(RowsOf(n) - 1) : yb + 2 * r + 1 < H}
           Up(r) == yb + 2 * r
           bits(r) == {b + 2 * (x % ByteW) : b \in bit_dup(Byte(i + r))}
           cells(r) == ClipColumn(bits(r), xb, Up(r))
           up(r) == ClipColumn(0..(Zone - 1), xb, Up(r))
           flipped(r) == ((lit \ cells(r)) \cup (cells(r) \ lit)) \cap up(r)
           copied(r) == flipped(r) \cup {k + W : k \in flipped(r)}
           touched(r) == up(r) \cup {k + W : k \in up(r)}
<1>1. lit' = (lit \ UNION {touched(r) : r \in rows}) \cup UNION {copied(r) : r \in rows}
  BY DEF DrawDouble
<1>2. W \in Nat \ {0} /\ H \in Nat \ {0} /\ ByteW \in Nat \ {0} /\ Rows \in Nat \ {0}
  BY DimAssumption
<1>3. x \in Nat /\ y \in Nat
  BY OriginAssumption
<1>4. PICK xe \in Nat : xb = 2 * xe
  <2>1. (2 * x) % W \in Nat /\ 2 * ByteW \in Nat \ {0}
    BY <1>2, <1>3, EvenRemainder
  <2> DEFINE a == (2 * x) % W
             q == a \div (2 * ByteW)
  <2>2. q \in Nat
    <3> HIDE DEF a
    <3>1. a \in Nat
      BY <2>1 DEF a
    <3> QED BY <2>1, <3>1
  <2>3. xb = q * (2 * ByteW)
    BY DEF Snap
  <2> HIDE DEF q
  <2>4. q * (2 * ByteW) = 2 * (q * ByteW) /\ q * ByteW \in Nat
    BY <1>2, <2>2
  <2> QED BY <2>3, <2>4
<1>5. PICK ye \in Nat : yb = 2 * ye
  BY <1>2, <1>3, EvenRemainder DEF YBegin
<1>6. x % ByteW \in Nat
  BY <1>2, <1>3
<1>7. ASSUME NEW r \in rows PROVE Byte(i + r) \in SUBSET Nat
  <2>1. i \in Nat /\ r \in Nat /\ r < RowsOf(n) /\ RowsOf(n) \in Int
    BY <1>2 DEF RowsOf
  <2>2. i + r + 1 \in 1..Len(Memory)
    BY <2>1, MemoryAssumption
  <2>3. Memory[i + r + 1] \in SUBSET (0..(ByteW - 1))
    BY <2>2, MemoryAssumption
  <2> QED BY <1>2, <2>3 DEF Byte
<1> DEFINE w == W \div 2
           h == H \div 2
           off == x % ByteW
<1> HIDE DEF xb, yb, w, h, off
<1>8. W = 2 * w /\ H = 2 * h /\ w \in Nat /\ h \in Nat /\ off \in Nat
  BY <1>2, <1>6 DEF w, h, off
<1>9. ASSUME NEW r \in rows
      PROVE  /\ r \in Nat /\ Up(r) = 2 * (ye + r) /\ ye + r \in 0..(h - 1)
             /\ Up(r) \in 0..(H - 1) /\ Up(r) + 1 \in 0..(H - 1)
  BY <1>2, <1>5, <1>8 DEF RowsOf
<1>10. ASSUME NEW r \in rows, NEW e \in Int, NEW d \in 0..1
       PROVE  /\ bits(r) \in SUBSET Nat
              /\ 2 * e + d \in bits(r) <=> e - off \in Byte(i + r)
  <2>1. 2 * e + d \in bits(r) <=> e - off \in Byte(i + r)
    BY <1>7, <1>8, DoubledBits DEF off
  <2>2. bit_dup(Byte(i + r)) \in SUBSET Nat
    <3>1. \A b \in Byte(i + r) : b \in Nat
      BY <1>7
    <3>2. \A b \in Nat : 2 * b \in Nat /\ 2 * b + 1 \in Nat
      OBVIOUS
    <3> QED BY <3>1, <3>2 DEF bit_dup
  <2> QED BY <1>8, <2>1, <2>2, SMTT(20) DEF off
<1> HIDE DEF bits, Up, rows
<1>11. ASSUME NEW r \in rows, NEW p \in 0..(W - 1), NEW q \in 0..(H - 1)
       PROVE  /\ Index(p, q, W) \in up(r) <=> q = Up(r) /\ p - xb \in 0..(Zone - 1)
              /\ Index(p, q, W) \in cells(r) <=> q = Up(r) /\ p - xb \in bits(r)
  <2>1. xb \in Nat /\ Up(r) \in 0..(H - 1) /\ bits(r) \in SUBSET Nat
    BY <1>4, <1>9, <1>10
  <2>2. 0..(Zone - 1) \in SUBSET Nat
    BY <1>2 DEF Zone
  <2>3. Index(p, q, W) \in up(r) <=> q = Up(r) /\ p - xb \in 0..(Zone - 1)
    BY ONLY <2>1, <2>2, p \in 0..(W - 1), q \in 0..(H - 1), ClipReaches
  <2>4. Index(p, q, W) \in cells(r) <=> q = Up(r) /\ p - xb \in bits(r)
    BY ONLY <2>1, p \in 0..(W - 1), q \in 0..(H - 1), ClipReaches
  <2> QED BY <2>3, <2>4
<1>12. ASSUME NEW p \in 0..(W - 1), NEW q \in 0..(H - 2)
       PROVE  Index(p, q + 1, W) = Index(p, q, W) + W /\ Index(p, q, W) \in Int
  <2>1. p \in Int /\ q \in Int
    OBVIOUS
  <2>2. (q + 1) * W = q * W + W /\ q * W \in Int
    BY <1>2, <2>1
  <2> QED BY <1>2, <2>1, <2>2 DEF Index
<1>13. ASSUME NEW r \in rows, NEW k \in up(r)
       PROVE  k \in Int /\ \E p \in 0..(W - 1) : k + W = Index(p, Up(r) + 1, W)
  <2>1. PICK c \in 0..(Zone - 1) : xb + c < W /\ k = Index(xb + c, Up(r), W)
    BY DEF ClipColumn
  <2>2. xb + c \in 0..(W - 1)
    BY <1>2, <1>4, <2>1
  <2>3. Up(r) \in 0..(H - 2)
    BY <1>2, <1>9, SMTT(20)
  <2> QED BY <1>12, <2>1, <2>2, <2>3
<1>14. ASSUME NEW X \in 0..(w - 1), NEW Y \in 0..(h - 1), NEW dx \in 0..1, NEW dy \in 0..1
       PROVE  Index(2 * X + dx, 2 * Y + dy, W) \in lit' <=> Index(2 * X, 2 * Y, W) \in lit'
  <2> DEFINE at(d, e) == Index(2 * X + d, 2 * Y + e, W)
  <2>1. \A d, e \in 0..1 : 2 * X + d \in 0..(W - 1) /\ 2 * Y + e \in 0..(H - 1)
    BY <1>8
  <2>2. at(0, 0) = Index(2 * X, 2 * Y, W) /\ 0 \in 0..1 /\ 1 \in 0..1
    OBVIOUS
  <2>3. \A d \in 0..1 : at(d, 1) = at(d, 0) + W /\ at(d, 0) \in Int
    <3>1. 2 * Y \in 0..(H - 2) /\ 2 * Y + 0 = 2 * Y
      BY <1>8
    <3> QED BY <1>12, <2>1, <3>1
  <2>4. \A d, e \in 0..1 : at(d, e) \in lit <=> at(0, 0) \in lit
    BY <2>2 DEF Uniform, w, h
  <2> HIDE DEF at
  <2>5. ASSUME NEW r \in rows, NEW d \in 0..1, NEW e \in 0..1
        PROVE  /\ at(d, e) \in up(r) <=> e = 0 /\ Y = ye + r /\ X - xe \in 0..(2 * ByteW - 1)
               /\ at(d, e) \in cells(r) <=> e = 0 /\ Y = ye + r /\ X - xe - off \in Byte(i + r)
    <3>1. /\ at(d, e) \in up(r) <=> 2 * Y + e = Up(r) /\ (2 * X + d) - xb \in 0..(Zone - 1)
          /\ at(d, e) \in cells(r) <=> 2 * Y + e = Up(r) /\ (2 * X + d) - xb \in bits(r)
      <4>1. 2 * X + d \in 0..(W - 1) /\ 2 * Y + e \in 0..(H - 1)
        BY <2>1
      <4> HIDE DEF up, cells
      <4> QED BY <1>11, <4>1 DEF at
    <3>2. 2 * Y + e = Up(r) <=> e = 0 /\ Y = ye + r
      <4>1. Up(r) = 2 * (ye + r) /\ ye + r \in Int
        BY <1>9
      <4> QED BY <4>1
    <3>3. (2 * X + d) - xb \in 0..(Zone - 1) <=> X - xe \in 0..(2 * ByteW - 1)
      BY <1>2, <1>4 DEF Zone
    <3>4. (2 * X + d) - xb = 2 * (X - xe) + d /\ X - xe \in Int
      BY <1>4
    <3>5. (2 * X + d) - xb \in bits(r) <=> X - xe - off \in Byte(i + r)
      BY <1>10, <3>4
    <3> QED BY <3>1, <3>2, <3>3, <3>5
  <2>6. ASSUME NEW r \in rows, NEW d \in 0..1, NEW k \in up(r)
        PROVE  k + W # at(d, 0) /\ (k + W = at(d, 1) <=> k = at(d, 0))
    <3>1. PICK p \in 0..(W - 1) : k + W = Index(p, Up(r) + 1, W)
      BY <1>13
    <3>2. Index(p, Up(r) + 1, W) \div W = Up(r) + 1
      <4>1. Up(r) + 1 \in Int
        BY <1>9
      <4> QED BY ONLY <1>2, <4>1, p \in 0..(W - 1), Rest
    <3>3. at(d, 0) \div W = 2 * Y
      <4>1. 2 * X + d \in 0..(W - 1) /\ 2 * Y + 0 = 2 * Y /\ 2 * Y \in Int
        BY <2>1, <2>2
      <4> QED BY ONLY <1>2, <4>1, Rest DEF at
    <3>4. Up(r) + 1 # 2 * Y
      <4>1. Up(r) = 2 * (ye + r) /\ ye + r \in Int /\ Y \in Int
        BY <1>9
      <4> QED BY ONLY <4>1
    <3>5. k + W # at(d, 0)
      BY <3>1, <3>2, <3>3, <3>4
    <3>6. k + W = at(d, 1) <=> k = at(d, 0)
      BY <1>2, <1>13, <2>3, SMTT(20)
    <3> QED BY <3>5, <3>6
  <2> HIDE DEF up, cells
  <2>7. ASSUME NEW r \in rows, NEW d \in 0..1, NEW e \in 0..1
        PROVE  /\ at(d, e) \in touched(r) <=> at(d, 0) \in up(r)
               /\ at(d, e) \in copied(r) <=> at(d, 0) \in flipped(r)
    <3>1. flipped(r) \subseteq up(r)
      OBVIOUS
    <3>2. at(d, 1) \notin up(r) /\ \A k \in up(r) : k + W # at(d, 0)
      BY <2>5, <2>6, <2>2
    <3>3. \A k \in up(r) : k + W = at(d, 1) <=> k = at(d, 0)
      BY <2>6
    <3>4. e = 0 \/ e = 1
      OBVIOUS
    <3> HIDE DEF flipped
    <3> QED BY <3>1, <3>2, <3>3, <3>4
  <2>8. ASSUME NEW r \in rows, NEW d \in 0..1, NEW e \in 0..1
        PROVE  /\ at(d, e) \in touched(r) <=> at(0, 0) \in touched(r)
               /\ at(d, e) \in copied(r) <=> at(0, 0) \in copied(r)
    <3>1. at(d, 0) \in up(r) <=> at(0, 0) \in up(r)
      BY <2>2, <2>5
    <3>2. at(d, 0) \in cells(r) <=> at(0, 0) \in cells(r)
      BY <2>2, <2>5
    <3>3. at(d, 0) \in lit <=> at(0, 0) \in lit
      BY <2>2, <2>4
    <3>4. at(d, 0) \in flipped(r) <=> at(0, 0) \in flipped(r)
      BY <3>1, <3>2, <3>3
    <3> HIDE DEF touched, copied, flipped
    <3> QED BY <2>2, <2>7, <3>1, <3>4
  <2> HIDE DEF touched, copied
  <2>9. at(dx, dy) \in lit' <=> at(0, 0) \in lit'
    BY <1>1, <2>4, <2>8
  <2> QED BY <2>2, <2>9 DEF at
<1> QED BY <1>14 DEF Uniform, w, h

\* The inductive invariant of the squares.
SquaresIInv == doubled \in BOOLEAN /\ (doubled => Uniform(lit))

\* Every step keeps the squares: draws, scrolls, and what clears the display.
LEMMA SquaresStep ==
  ASSUME W % 2 = 0, H % 2 = 0, ScrollW \in Nat, ScrollW % 2 = 0, SquaresIInv, [Next]_vars
  PROVE  SquaresIInv'
<1> USE DEF SquaresIInv
<1>0. W % 2 = 0 /\ H % 2 = 0 /\ ScrollW \in Nat /\ ScrollW % 2 = 0
  OBVIOUS
<1>1. ASSUME lit' = Blank(lit, W, H) PROVE Uniform(lit')
  <2>1. W \in Nat \ {0} /\ H \in Nat \ {0}
    BY DimAssumption
  <2>2. ASSUME NEW x \in 0..((W \div 2) - 1), NEW y \in 0..((H \div 2) - 1),
               NEW dx \in 0..1, NEW dy \in 0..1
        PROVE  Index(2 * x + dx, 2 * y + dy, W) \notin lit'
    <3>1. 2 * x + dx \in 0..(W - 1) /\ 2 * y + dy \in 0..(H - 1)
      BY <2>1
    <3>2. Index(2 * x + dx, 2 * y + dy, W) \in Area(W, H)
      BY <2>1, <3>1, Places
    <3> QED BY <1>1, <3>2 DEF Blank
  <2>3. 0 \in 0..1 /\ \A n \in Int : 2 * n + 0 = 2 * n
    OBVIOUS
  <2>4. ASSUME NEW x \in 0..((W \div 2) - 1), NEW y \in 0..((H \div 2) - 1)
        PROVE  Index(2 * x, 2 * y, W) \notin lit'
    <3>1. Index(2 * x + 0, 2 * y + 0, W) \notin lit'
      BY <2>2, <2>3
    <3>2. 2 * x + 0 = 2 * x /\ 2 * y + 0 = 2 * y
      OBVIOUS
    <3> QED BY <3>1, <3>2
  <2> QED BY <2>2, <2>4 DEF Uniform
<1>2. CASE UNCHANGED vars
  BY <1>2 DEF vars, Uniform
<1>3. CASE reset_system_data \/ instruction_00E0
  BY <1>1, <1>3 DEF reset_system_data, instruction_00E0
<1>4. ASSUME NEW n \in 1..Rows, instruction_00CN(n) PROVE SquaresIInv'
  <2>1. doubled' = (doubled /\ n % 2 = 0) /\ lit' = Shift(lit, W, H, 0, n)
    BY <1>4 DEF instruction_00CN
  <2>2. doubled' \in BOOLEAN
    BY <2>1
  <2>3. ASSUME doubled' PROVE Uniform(lit')
    <3>1. doubled /\ n % 2 = 0
      BY <2>1, <2>3
    <3>2. n \in Int /\ 0 \in Int /\ 0 % 2 = 0
      BY DimAssumption
    <3> QED BY <1>0, <2>1, <3>1, <3>2, ScrollKeepsSquares
  <2> QED BY <2>2, <2>3
<1>5. CASE instruction_00FB \/ instruction_00FC
  <2>1. /\ doubled' = doubled
        /\ lit' = Shift(lit, W, H, ScrollW, 0) \/ lit' = Shift(lit, W, H, -ScrollW, 0)
    BY <1>5 DEF instruction_00FB, instruction_00FC
  <2>2. /\ ScrollW \in Int /\ ScrollW % 2 = 0 /\ 0 \in Int /\ 0 % 2 = 0
        /\ -ScrollW \in Int /\ (-ScrollW) % 2 = 0
    BY <1>0
  <2>3. ASSUME doubled PROVE Uniform(lit')
    BY <1>0, <2>1, <2>2, <2>3, ScrollKeepsSquares
  <2> QED BY <2>1, <2>3
<1>6. CASE instruction_00FE \/ instruction_00FF
  BY <1>6 DEF instruction_00FE, instruction_00FF, Uniform
<1>7. ASSUME NEW x \in Xs, NEW y \in Ys, NEW n \in 0..Rows, NEW i \in 0..(Len(Memory) - 1),
             instruction_DxyN(x, y, n, i)
      PROVE  SquaresIInv'
  <2>1. CASE DrawSingle(x, y, n, i)
    BY <2>1 DEF DrawSingle
  <2>2. CASE i + RowsOf(n) <= Len(Memory) /\ DrawDouble(x, y, n, i)
    <3>1. doubled' = doubled
      BY <2>2 DEF DrawDouble
    <3>2. doubled => Uniform(lit')
      BY <2>2, DoubledDrawKeepsSquares
    <3> QED BY <3>1, <3>2
  <2> QED BY <1>7, <2>1, <2>2 DEF instruction_DxyN
<1> QED BY <1>2, <1>3, <1>4, <1>5, <1>6, <1>7 DEF Next

\* For any display and sprite memory, with even widths, heights and scrolls: outside of
\* extended mode every pixel of the small display is a square of four of one colour on the
\* large one, whatever is drawn, also in part beyond the edges, and however it is scrolled.
THEOREM SquaresStayUniform ==
  ASSUME W % 2 = 0, H % 2 = 0, ScrollW \in Nat, ScrollW % 2 = 0
  PROVE  Spec => []SmallScreenIsFaked
<1>1. Init => SquaresIInv
  BY DEF Init, SquaresIInv, Uniform
<1>2. SquaresIInv /\ [Next]_vars => SquaresIInv'
  BY SquaresStep
<1>3. SquaresIInv => SmallScreenIsFaked
  BY UniformSquares DEF SquaresIInv
<1> QED BY <1>1, <1>2, <1>3, PTL DEF Spec

\* For any display: every scroll of SCHIP_LEGACY, in both modes, moves all pixels by its
\* distance at once, and what comes in is dark.
THEOREM ScrollsMovePixels ==
  ASSUME ScrollW \in Nat
  PROVE  Spec => [][ScrollMovesPixels]_vars
<1>1. Next => ScrollMovesPixels
  <2> SUFFICES ASSUME Next, op'.name = "scroll" PROVE Scrolled(lit, lit', W, H, op'.cols, op'.rows)
    BY DEF ScrollMovesPixels
  <2>1. W \in Nat \ {0} /\ H \in Nat \ {0}
    BY DimAssumption
  <2>2. \E cols, rows \in Int : op' = Scroll(cols, rows) /\ lit' = Shift(lit, W, H, cols, rows)
    <3>1. 0 \in Int /\ -ScrollW \in Int /\ \A n \in 1..Rows : n \in Int
      OBVIOUS
    <3>2. ASSUME NEW x, NEW y, NEW n, NEW i, instruction_DxyN(x, y, n, i) PROVE FALSE
      <4>1. op' = Draw(x, y, n, i)
        BY <3>2 DEF instruction_DxyN, DrawSingle, DrawDouble
      <4> QED BY <4>1 DEF Draw
    <3>3. ~(reset_system_data \/ instruction_00E0 \/ instruction_00FE \/ instruction_00FF)
      BY DEF reset_system_data, instruction_00E0, instruction_00FE, instruction_00FF, Op, None
    <3>4. CASE \E n \in 1..Rows : instruction_00CN(n)
      BY <3>1, <3>4 DEF instruction_00CN
    <3>5. CASE instruction_00FB \/ instruction_00FC
      BY <3>1, <3>5 DEF instruction_00FB, instruction_00FC
    <3> QED BY <3>2, <3>3, <3>4, <3>5 DEF Next
  <2>3. PICK cols \in Int, rows \in Int :
          op' = Scroll(cols, rows) /\ lit' = Shift(lit, W, H, cols, rows)
    BY <2>2
  <2>4. op'.cols = cols /\ op'.rows = rows
    BY <2>3 DEF Scroll
  <2> QED BY <2>1, <2>3, <2>4, ShiftMoves
<1> QED BY <1>1, PTL DEF Spec

-----------------------------------------------------------------------------
(* Sprites, pixel by pixel                                                 *)

CONSTANTS
  Plane, Is       \* of XoDisplay
VARIABLES
  large,          \* the mode flag, hires
  width, height,  \* the size of the maps
  mask            \* of XoDisplay

Two == INSTANCE SchipDisplay WITH hires <- large, w <- width, h <- height
One == INSTANCE Chip8Display
Xo == INSTANCE XoDisplay WITH hires <- large, w <- width, h <- height

\* How far right of, or below, a sprite's origin a column, or a row, is.
Off(t, start, size, wrap) == IF wrap THEN (t + size - start) % size ELSE t - start

\* Adding less than the size goes around the edge once at most.
LEMMA Around ==
  ASSUME NEW size \in Nat \ {0}, NEW a \in 0..(size - 1), NEW b \in 0..size
  PROVE  (a + b) % size = (IF a + b < size THEN a + b ELSE a + b - size)
<1>1. \A m \in 0..(size - 1) : m % size = m /\ (m + size) % size = m
  OBVIOUS
<1>2. CASE a + b < size
  <2>1. a + b \in 0..(size - 1)
    BY <1>2
  <2> QED BY <1>1, <1>2, <2>1
<1>3. CASE a + b >= size
  <2>1. a + b - size \in 0..(size - 1) /\ a + b = (a + b - size) + size
    BY <1>3
  <2>2. (a + b) % size = a + b - size
    BY <1>1, <2>1
  <2> QED BY <1>3, <2>2
<1> QED BY <1>2, <1>3

LEMMA OffIs ==
  ASSUME NEW size \in Nat \ {0}, NEW start \in 0..(size - 1), NEW t \in 0..(size - 1)
  PROVE  /\ Off(t, start, size, TRUE) = (IF t < start THEN t + size - start ELSE t - start)
         /\ Off(t, start, size, FALSE) = t - start
<1>1. size - start \in 0..size /\ t + size - start = t + (size - start)
  OBVIOUS
<1>2. (t + (size - start)) % size =
        (IF t + (size - start) < size THEN t + (size - start) ELSE t + (size - start) - size)
  BY <1>1, Around
<1> QED BY <1>1, <1>2 DEF Off

\* An offset is a number.
LEMMA OffType ==
  ASSUME NEW size \in Nat \ {0}, NEW start \in 0..(size - 1), NEW t \in 0..(size - 1),
         NEW wrap \in BOOLEAN
  PROVE  Off(t, start, size, wrap) \in Int
<1>1. t + size - start \in Int /\ t - start \in Int
  OBVIOUS
<1>2. Off(t, start, size, TRUE) \in Int /\ Off(t, start, size, FALSE) \in Int
  BY <1>1, OffIs
<1>3. CASE wrap = TRUE
  BY <1>2, <1>3
<1>4. CASE wrap = FALSE
  BY <1>2, <1>4
<1> QED BY <1>3, <1>4

\* The columns of a byte's bits and the rows of a sprite, up to the edge or around it.
LEMMA Reaches ==
  ASSUME NEW size \in Nat \ {0}, NEW start \in 0..(size - 1), NEW b \in 0..(size - 1),
         NEW t \in 0..(size - 1), NEW wrap \in BOOLEAN
  PROVE  (start + b) % size = t /\ Two!BeforeEdge(start, b, size, wrap)
           <=> b = Off(t, start, size, wrap)
<1>1. \A c \in 0..size :
        (start + c) % size = (IF start + c < size THEN start + c ELSE start + c - size)
  BY Around
<1>2. CASE wrap
  <2>1. Two!BeforeEdge(start, b, size, wrap)
    BY <1>2 DEF Two!BeforeEdge
  <2>2. (start + b) % size = (IF start + b < size THEN start + b ELSE start + b - size)
    BY <1>1
  <2>3. Off(t, start, size, wrap) = (IF t < start THEN t + size - start ELSE t - start)
    BY <1>2, OffIs
  <2>4. (start + b) % size = t <=> b = (IF t < start THEN t + size - start ELSE t - start)
    BY <2>2
  <2> QED BY <2>1, <2>3, <2>4
<1>3. CASE ~wrap
  <2>1. Two!BeforeEdge(start, b, size, wrap) <=> start + b < size
    <3>1. ASSUME start + b >= size, \A c \in 0..(b - 1) : (start + c) % size # size - 1
          PROVE  FALSE
      <4> DEFINE c == size - 1 - start
      <4>1. c \in 0..(b - 1) /\ c \in 0..size /\ start + c = size - 1
        BY <3>1
      <4>2. (start + c) % size = size - 1
        BY <1>1, <4>1
      <4> QED BY <3>1, <4>1, <4>2
    <3>2. ASSUME start + b < size, NEW c \in 0..(b - 1) PROVE (start + c) % size # size - 1
      <4>1. c \in 0..size /\ start + c < size - 1
        BY <3>2
      <4> QED BY <1>1, <4>1
    <3> QED BY <1>3, <3>1, <3>2 DEF Two!BeforeEdge
  <2>2. start + b < size => (start + b) % size = start + b
    BY <1>1
  <2>3. Off(t, start, size, wrap) = t - start
    BY <1>3, OffIs
  <2>4. (start + b) % size = t /\ start + b < size <=> b = t - start
    BY <2>2
  <2> QED BY <2>1, <2>3, <2>4
<1> QED BY <1>2, <1>3

\* A map is at least two bytes wide and as high as the large sprite.
MapFits(w, h) ==
  /\ w \in Nat \ {0} /\ h \in Nat \ {0} /\ ByteW \in Nat \ {0} /\ Rows \in Nat
  /\ 2 * ByteW <= w /\ Rows <= h

\* The cells of a byte's bits, and of those of a byte a byte further to the right.
ByteCells(X, Y, data, wrap, w) ==
  {Index((X + b) % w, Y, w) : b \in {k \in data : Two!BeforeEdge(X, k, w, wrap)}}

HalfCells(X, Y, data, wrap, w) ==
  IF wrap \/ X + ByteW < w THEN ByteCells((X + ByteW) % w, Y, data, wrap, w) ELSE {}

\* Two cells are one if they are in one column and one row.
LEMMA Same ==
   ASSUME NEW w \in Nat \ {0}, NEW x \in 0..(w - 1), NEW y \in Int, NEW p \in 0..(w - 1),
          NEW q \in Int
  PROVE  Index(x, y, w) = Index(p, q, w) <=> x = p /\ y = q
<1>1. /\ Index(x, y, w) \div w = y /\ Index(x, y, w) % w = x
      /\ Index(p, q, w) \div w = q /\ Index(p, q, w) % w = p
  BY Rest
<1> QED BY <1>1

\* From a column on the map, a byte's bits and no others.
LEMMA ByteReaches ==
  ASSUME NEW w, NEW h, MapFits(w, h), NEW X \in 0..(w - 1), NEW Y \in 0..(h - 1),
         NEW wrap \in BOOLEAN, NEW data \in SUBSET (0..(ByteW - 1)),
         NEW x \in 0..(w - 1), NEW y \in 0..(h - 1)
  PROVE  Index(x, y, w) \in ByteCells(X, Y, data, wrap, w)
           <=> y = Y /\ Off(x, X, w, wrap) \in data
<1>1. w \in Nat \ {0} /\ \A b \in data : b \in 0..(w - 1)
  BY DEF MapFits
<1>2. \A b \in data : (X + b) % w \in 0..(w - 1)
  BY <1>1
<1>3. \A b \in data :
        Index(x, y, w) = Index((X + b) % w, Y, w) <=> x = (X + b) % w /\ y = Y
  BY <1>1, <1>2, Same
<1>4. \A b \in data : (X + b) % w = x /\ Two!BeforeEdge(X, b, w, wrap) <=> b = Off(x, X, w, wrap)
  BY <1>1, Reaches
<1> QED BY <1>3, <1>4 DEF ByteCells

\* A byte further to the right, from a column that may be past the edge.
LEMMA HalfReaches ==
  ASSUME NEW w, NEW h, MapFits(w, h), NEW X \in 0..(w - 1), NEW Y \in 0..(h - 1),
         NEW wrap \in BOOLEAN, NEW data \in SUBSET (0..(ByteW - 1)),
         NEW x \in 0..(w - 1), NEW y \in 0..(h - 1)
  PROVE  Index(x, y, w) \in HalfCells(X, Y, data, wrap, w)
           <=> y = Y /\ Off(x, X, w, wrap) - ByteW \in data
<1> DEFINE Z == (X + ByteW) % w
<1>1. w \in Nat \ {0} /\ ByteW \in 0..w /\ 2 * ByteW <= w
  BY DEF MapFits
<1>2. /\ Z = (IF X + ByteW < w THEN X + ByteW ELSE X + ByteW - w)
      /\ Z \in 0..(w - 1)
  <2>1. Z = (IF X + ByteW < w THEN X + ByteW ELSE X + ByteW - w)
    BY <1>1, Around
  <2> HIDE DEF Z
  <2> QED BY <1>1, <2>1
<1> HIDE DEF Z
<1>3. CASE wrap
  <2>1. HalfCells(X, Y, data, wrap, w) = ByteCells(Z, Y, data, wrap, w)
    BY <1>3 DEF HalfCells, Z
  <2>2. /\ Off(x, X, w, wrap) = (IF x < X THEN x + w - X ELSE x - X)
        /\ Off(x, Z, w, wrap) = (IF x < Z THEN x + w - Z ELSE x - Z)
    BY <1>1, <1>2, <1>3, OffIs
  <2>3. \A k \in 0..(ByteW - 1) : Off(x, Z, w, wrap) = k <=> Off(x, X, w, wrap) - ByteW = k
    BY <1>1, <1>2, <2>2
  <2>4. Off(x, Z, w, wrap) \in data <=> Off(x, X, w, wrap) - ByteW \in data
    BY <2>3
  <2> QED BY <1>2, <2>1, <2>4, ByteReaches
<1>4. CASE ~wrap
  <2>1. Off(x, X, w, wrap) = x - X /\ Off(x, Z, w, wrap) = x - Z
    <3>1. wrap = FALSE
      BY <1>4
    <3>2. Off(x, X, w, FALSE) = x - X /\ Off(x, Z, w, FALSE) = x - Z
      BY ONLY <1>1, <1>2, x \in 0..(w - 1), X \in 0..(w - 1), OffIs
    <3> QED BY ONLY <3>1, <3>2
  <2>2. CASE X + ByteW < w
    <3>1. x - Z = (x - X) - ByteW
      BY <1>1, <1>2, <2>2
    <3>2. HalfCells(X, Y, data, wrap, w) = ByteCells(Z, Y, data, wrap, w)
      BY <2>2 DEF HalfCells, Z
    <3> QED BY <1>2, <2>1, <3>1, <3>2, ByteReaches
  <2>3. CASE ~(X + ByteW < w)
    <3>1. HalfCells(X, Y, data, wrap, w) = {}
      BY <1>4, <2>3 DEF HalfCells
    <3>2. (x - X) - ByteW \notin 0..(ByteW - 1)
      BY <1>1, <2>3
    <3> QED BY <2>1, <3>1, <3>2
  <2> QED BY <2>2, <2>3
<1> QED BY <1>3, <1>4

\* The cells of the sprite that DxyN draws from i.
RowCells(pX, Y, n, i, r, wrap, w) ==
  IF n = 0 THEN ByteCells(pX, Y, Byte(i + 2 * r), wrap, w)
                \cup HalfCells(pX, Y, Byte(i + 2 * r + 1), wrap, w)
  ELSE ByteCells(pX, Y, Byte(i + r), wrap, w)

SpriteCells(pX, pY, n, i, wrap, w, h) ==
  UNION {RowCells(pX, (pY + r) % h, n, i, r, wrap, w) :
           r \in {q \in 0..(RowsOf(n) - 1) : Two!BeforeEdge(pY, q, h, wrap)}}

\* The bits of a row of a sprite, of one byte or of two.
RowBits(n, i, r) ==
  IF n = 0 THEN {k \in 0..(2 * ByteW - 1) : k % ByteW \in Byte(i + 2 * r + k \div ByteW)}
  ELSE Byte(i + r)

\* The two bytes of a row of a large sprite are its bits.
LEMMA PairOfBytes ==
  ASSUME NEW n \in 0..Rows, n = 0, NEW i \in Nat, i + BytesOf(n) <= Len(Memory),
         NEW r \in 0..(RowsOf(n) - 1), NEW k \in Int
  PROVE  k \in RowBits(n, i, r) <=> \/ k \in Byte(i + 2 * r)
                                    \/ k - ByteW \in Byte(i + 2 * r + 1)
<1>1. ByteW \in Nat \ {0} /\ Rows \in Nat
  BY DimAssumption
<1>2. \A j \in 0..(Len(Memory) - 1) : Byte(j) \in SUBSET (0..(ByteW - 1))
  BY MemoryAssumption DEF Byte
<1>3. i + 2 * r \in 0..(Len(Memory) - 1) /\ i + 2 * r + 1 \in 0..(Len(Memory) - 1)
  BY <1>1 DEF BytesOf, RowsOf
<1>4. /\ Byte(i + 2 * r) \in SUBSET (0..(ByteW - 1))
      /\ Byte(i + 2 * r + 1) \in SUBSET (0..(ByteW - 1))
  BY <1>2, <1>3
<1>5. CASE k \in 0..(ByteW - 1)
  <2>1. k % ByteW = k /\ k \div ByteW = 0
    BY <1>1, <1>5
  <2>2. i + 2 * r + k \div ByteW = i + 2 * r /\ k \in 0..(2 * ByteW - 1)
    BY <1>1, <1>3, <1>5, <2>1
  <2>3. k - ByteW \notin 0..(ByteW - 1)
    BY <1>1, <1>5
  <2> QED BY <1>4, <2>1, <2>2, <2>3 DEF RowBits
<1>6. CASE k \in ByteW..(2 * ByteW - 1)
  <2>1. k % ByteW = k - ByteW /\ k \div ByteW = 1
    BY <1>1, <1>6
  <2>2. i + 2 * r + k \div ByteW = i + 2 * r + 1 /\ k \in 0..(2 * ByteW - 1)
    BY <1>1, <1>3, <1>6, <2>1
  <2>3. k \notin 0..(ByteW - 1)
    BY <1>1, <1>6
  <2> QED BY <1>4, <2>1, <2>2, <2>3 DEF RowBits
<1>7. CASE k \notin 0..(2 * ByteW - 1)
  <2>1. k \notin 0..(ByteW - 1) /\ k - ByteW \notin 0..(ByteW - 1)
    BY <1>1, <1>7
  <2> QED BY <1>4, <1>7, <2>1 DEF RowBits
<1> QED BY <1>1, <1>5, <1>6, <1>7

\* The bits of a row, and the property's.
LEMMA BitsOfRow ==
  ASSUME NEW n \in 0..Rows, NEW i \in Nat, i + BytesOf(n) <= Len(Memory),
         NEW r \in 0..(RowsOf(n) - 1), NEW k \in Int
  PROVE  k \in RowBits(n, i, r) <=> k >= 0 /\ SpriteBit(n, i, k, r)
<1>1. ByteW \in Nat \ {0} /\ Rows \in Nat
  BY DimAssumption
<1>2. r < RowsOf(n)
  BY <1>1 DEF RowsOf
<1>3. CASE n = 0
  BY <1>1, <1>2, <1>3 DEF RowBits, SpriteBit
<1>4. CASE n # 0
  <2>1. i + r \in 0..(Len(Memory) - 1)
    BY <1>1, <1>4 DEF BytesOf, RowsOf
  <2>2. Byte(i + r) \in SUBSET (0..(ByteW - 1))
    BY <2>1, MemoryAssumption DEF Byte
  <2> QED BY <1>1, <1>2, <1>4, <2>2 DEF RowBits, SpriteBit
<1> QED BY <1>3, <1>4

\* A row of a sprite has its bits, and no others.
LEMMA RowReaches ==
  ASSUME NEW w, NEW h, MapFits(w, h), NEW pX \in 0..(w - 1), NEW Y \in 0..(h - 1),
          NEW n \in 0..Rows,
         NEW i \in Nat, i + BytesOf(n) <= Len(Memory), NEW r \in 0..(RowsOf(n) - 1),
         NEW wrap \in BOOLEAN, NEW x \in 0..(w - 1), NEW y \in 0..(h - 1)
  PROVE  Index(x, y, w) \in RowCells(pX, Y, n, i, r, wrap, w)
           <=> y = Y /\ Off(x, pX, w, wrap) \in RowBits(n, i, r)
<1>1. ByteW \in Nat \ {0} /\ Rows \in Nat
  BY DEF MapFits
<1>2. \A j \in 0..(Len(Memory) - 1) : Byte(j) \in SUBSET (0..(ByteW - 1))
  BY MemoryAssumption DEF Byte
<1>3. CASE n = 0
  <2>1. i + 2 * r \in 0..(Len(Memory) - 1) /\ i + 2 * r + 1 \in 0..(Len(Memory) - 1)
    BY <1>1, <1>3 DEF BytesOf, RowsOf
  <2>2. /\ Byte(i + 2 * r) \in SUBSET (0..(ByteW - 1))
        /\ Byte(i + 2 * r + 1) \in SUBSET (0..(ByteW - 1))
    BY <1>2, <2>1
  <2>3. Index(x, y, w) \in RowCells(pX, Y, n, i, r, wrap, w)
          <=> y = Y /\ \/ Off(x, pX, w, wrap) \in Byte(i + 2 * r)
                       \/ Off(x, pX, w, wrap) - ByteW \in Byte(i + 2 * r + 1)
    BY <1>3, <2>2, ByteReaches, HalfReaches DEF RowCells
  <2>4. \A k \in Int : k \in RowBits(n, i, r) <=>
                         \/ k \in Byte(i + 2 * r)
                         \/ k - ByteW \in Byte(i + 2 * r + 1)
    BY <1>3, PairOfBytes
  <2>5. Off(x, pX, w, wrap) \in Int
    BY OffType DEF MapFits
  <2> QED BY <2>3, <2>4, <2>5
<1>4. CASE n # 0
  <2>1. i + r \in 0..(Len(Memory) - 1)
    BY <1>1, <1>4 DEF BytesOf, RowsOf
  <2> QED BY <1>2, <1>4, <2>1, ByteReaches DEF RowCells, RowBits
<1> QED BY <1>3, <1>4

\* A sprite's cells are its bits, at their distance from its origin.
LEMMA SpriteReaches ==
  ASSUME NEW w, NEW h, MapFits(w, h), NEW pX \in 0..(w - 1), NEW pY \in 0..(h - 1),
          NEW n \in 0..Rows,
         NEW i \in Nat, i + BytesOf(n) <= Len(Memory),
         NEW wrap \in BOOLEAN, NEW x \in 0..(w - 1), NEW y \in 0..(h - 1)
  PROVE  Index(x, y, w) \in SpriteCells(pX, pY, n, i, wrap, w, h)
           <=> /\ Off(x, pX, w, wrap) >= 0 /\ Off(y, pY, h, wrap) >= 0
               /\ SpriteBit(n, i, Off(x, pX, w, wrap), Off(y, pY, h, wrap))
<1> DEFINE dx == Off(x, pX, w, wrap)
           dy == Off(y, pY, h, wrap)
<1>1. /\ w \in Nat \ {0} /\ h \in Nat \ {0} /\ ByteW \in Nat \ {0}
      /\ RowsOf(n) \in 0..h
  BY DEF MapFits, RowsOf
<1>2. dx \in Int /\ dy \in Int
  BY <1>1, OffType
<1> HIDE DEF dx, dy
<1>3. \A r \in 0..(RowsOf(n) - 1) :
        (pY + r) % h \in 0..(h - 1) /\ r \in 0..(h - 1)
  BY <1>1
<1>4. \A r \in 0..(RowsOf(n) - 1) :
        (pY + r) % h = y /\ Two!BeforeEdge(pY, r, h, wrap) <=> r = dy
  BY <1>1, <1>3, Reaches DEF dy
<1>5. \A r \in 0..(RowsOf(n) - 1) :
        Index(x, y, w) \in RowCells(pX, (pY + r) % h, n, i, r, wrap, w)
          <=> y = (pY + r) % h /\ dx \in RowBits(n, i, r)
  BY <1>3, RowReaches DEF dx
<1>6. Index(x, y, w) \in SpriteCells(pX, pY, n, i, wrap, w, h)
        <=> \E r \in 0..(RowsOf(n) - 1) :
              /\ Two!BeforeEdge(pY, r, h, wrap)
              /\ Index(x, y, w) \in RowCells(pX, (pY + r) % h, n, i, r, wrap, w)
  BY DEF SpriteCells
<1>7. Index(x, y, w) \in SpriteCells(pX, pY, n, i, wrap, w, h)
        <=> dy \in 0..(RowsOf(n) - 1) /\ dx \in RowBits(n, i, dy)
  BY <1>4, <1>5, <1>6
<1>8. dy \in 0..(RowsOf(n) - 1) =>
        (dx \in RowBits(n, i, dy) <=> dx >= 0 /\ SpriteBit(n, i, dx, dy))
  BY <1>2, BitsOfRow
<1>9. SpriteBit(n, i, dx, dy) => dy < RowsOf(n)
  BY DEF SpriteBit
<1> QED BY <1>1, <1>2, <1>7, <1>8, <1>9 DEF dx, dy

\* A sprite of a core is drawn byte by byte and row by row.
LEMMA SpritesAreEqual ==
  ASSUME NEW w, NEW h, NEW pX, NEW pY, NEW n, NEW i, NEW wrap, NEW row,
         \A r \in 0..(RowsOf(n) - 1) :
           Two!BeforeEdge(pY, r, h, wrap) =>
             row[r] = RowCells(pX, (pY + r) % h, n, i, r, wrap, w)
  PROVE  UNION {row[r] : r \in {q \in 0..(RowsOf(n) - 1) : Two!BeforeEdge(pY, q, h, wrap)}}
           = SpriteCells(pX, pY, n, i, wrap, w, h)
<1> DEFINE rows == {q \in 0..(RowsOf(n) - 1) : Two!BeforeEdge(pY, q, h, wrap)}
<1>1. \A r \in rows : row[r] = RowCells(pX, (pY + r) % h, n, i, r, wrap, w)
  OBVIOUS
<1> HIDE DEF rows
<1>2. UNION {row[r] : r \in rows}
        = UNION {RowCells(pX, (pY + r) % h, n, i, r, wrap, w) : r \in rows}
  BY <1>1
<1> QED BY <1>2 DEF rows, SpriteCells

\* draw_byte() of SCHIP_MODERN.
LEMMA TwoBytes ==
  ASSUME MapFits(width, height), NEW X \in 0..(width - 1), NEW Y, NEW data,
         NEW wrap \in BOOLEAN
  PROVE  /\ Two!draw_byte(X, Y, data, wrap) = ByteCells(X, Y, data, wrap, width)
         /\ Two!draw_byte(X + ByteW, Y, data, wrap) = HalfCells(X, Y, data, wrap, width)
<1> USE DEF Two!Index, Index
<1>1. width \in Nat \ {0} /\ ByteW \in 0..width /\ X % width = X /\ X < width
  BY DEF MapFits
<1>2. Two!StartColumn(X, wrap) = X
  BY <1>1 DEF Two!StartColumn
<1>3. Two!draw_byte(X, Y, data, wrap) = ByteCells(X, Y, data, wrap, width)
  BY <1>1, <1>2 DEF Two!draw_byte, ByteCells
<1>4. CASE wrap
  <2>1. Two!StartColumn(X + ByteW, wrap) = (X + ByteW) % width /\ (X + ByteW) % width < width
    BY <1>1, <1>4 DEF Two!StartColumn
  <2>2. Two!draw_byte(X + ByteW, Y, data, wrap)
          = ByteCells((X + ByteW) % width, Y, data, wrap, width)
    BY <2>1 DEF Two!draw_byte, ByteCells
  <2> QED BY <1>3, <1>4, <2>2 DEF HalfCells
<1>5. CASE ~wrap
  <2>1. Two!StartColumn(X + ByteW, wrap) = X + ByteW
    BY <1>5 DEF Two!StartColumn
  <2>2. CASE X + ByteW < width
    <3>1. (X + ByteW) % width = X + ByteW
      BY <1>1, <2>2
    <3>2. Two!draw_byte(X + ByteW, Y, data, wrap) = ByteCells(X + ByteW, Y, data, wrap, width)
      BY <2>1, <2>2 DEF Two!draw_byte, ByteCells
    <3> QED BY <1>3, <2>2, <3>1, <3>2 DEF HalfCells
  <2>3. CASE ~(X + ByteW < width)
    <3>1. Two!draw_byte(X + ByteW, Y, data, wrap) = {}
      BY <2>1, <2>3 DEF Two!draw_byte
    <3> QED BY <1>3, <1>5, <2>3, <3>1 DEF HalfCells
  <2> QED BY <2>2, <2>3
<1> QED BY <1>3, <1>4, <1>5

\* What the proof needs of the constants and of the map's size.
TwoSizes ==
  /\ {W, H, ByteW, Rows} \subseteq Nat \ {0} /\ W % 2 = 0 /\ H % 2 = 0
  /\ 4 * ByteW <= W /\ 2 * Rows <= H /\ ScrollW \in Nat

MapIsOfMode ==
  \/ width = W /\ height = H
  \/ width = W \div 2 /\ height = H \div 2

\* In both modes.
LEMMA MapsFit == TwoSizes /\ MapIsOfMode => MapFits(width, height)
  BY DEF TwoSizes, MapIsOfMode, MapFits

\* A map has the size of one of the modes, whatever the flag says.
LEMMA ModesKeepMaps == MapIsOfMode /\ [Two!Next]_(Two!vars) => MapIsOfMode'
<1> SUFFICES ASSUME MapIsOfMode, [Two!Next]_(Two!vars) PROVE MapIsOfMode'
  OBVIOUS
<1>1. CASE UNCHANGED Two!vars
  BY <1>1 DEF Two!vars, MapIsOfMode
<1>2. CASE Two!reset_system_data \/ Two!instruction_00FE \/ Two!instruction_00FF
  BY <1>2 DEF Two!reset_system_data, Two!instruction_00FE, Two!instruction_00FF, MapIsOfMode
<1>3. CASE Two!instruction_00E0 \/ Two!instruction_00FB \/ Two!instruction_00FC
  BY <1>3 DEF Two!instruction_00E0, Two!instruction_00FB, Two!instruction_00FC, MapIsOfMode
<1>4. ASSUME NEW n, Two!instruction_00CN(n) PROVE MapIsOfMode'
  BY <1>4 DEF Two!instruction_00CN, MapIsOfMode
<1>5. ASSUME NEW x, NEW y, NEW n, NEW i, NEW wrap, Two!instruction_DxyN(x, y, n, i, wrap)
      PROVE  MapIsOfMode'
  BY <1>5 DEF Two!instruction_DxyN, MapIsOfMode
<1> QED BY <1>1, <1>2, <1>3, <1>4, <1>5 DEF Two!Next

\* Only a sprite is drawn, only a scroll scrolls.
LEMMA DrawIs ==
  ASSUME Two!Next, op'.name = "draw"
  PROVE  \E x \in Xs, y \in Ys, n \in 0..Rows, wrap \in BOOLEAN :
           \E i \in 0..(Len(Memory) - Two!BytesOf(n)) : Two!instruction_DxyN(x, y, n, i, wrap)
<1>1. ~(Two!reset_system_data \/ Two!instruction_00E0)
  BY DEF Two!reset_system_data, Two!instruction_00E0, Two!Op, Two!None
<1>2. ~(Two!instruction_00FE \/ Two!instruction_00FF)
  BY DEF Two!instruction_00FE, Two!instruction_00FF, Two!Op
<1>3. ~(Two!instruction_00FB \/ Two!instruction_00FC)
  BY DEF Two!instruction_00FB, Two!instruction_00FC, Two!Scroll
<1>4. \A n : ~Two!instruction_00CN(n)
  BY DEF Two!instruction_00CN, Two!Scroll
<1> QED BY <1>1, <1>2, <1>3, <1>4 DEF Two!Next

\* SCHIP_MODERN scrolls by its instructions' distances.
LEMMA ScrollIs ==
  ASSUME Two!Next, op'.name = "scroll", TwoSizes
  PROVE  \E cols, rows \in Int : /\ op'.cols = cols /\ op'.rows = rows
                                 /\ lit' = Shift(lit, width, height, cols, rows)
<1> USE DEF Two!Scroll, Two!Shift, Shift, Two!Area, Area, Two!Rotate, Rotate, Two!Fill, Fill,
            Two!Index, Index, Two!Abs, Abs
<1>1. ~(Two!reset_system_data \/ Two!instruction_00E0)
  BY DEF Two!reset_system_data, Two!instruction_00E0, Two!Op, Two!None
<1>2. ~(Two!instruction_00FE \/ Two!instruction_00FF)
  BY DEF Two!instruction_00FE, Two!instruction_00FF, Two!Op
<1>3. 0 \in Int /\ ScrollW \in Int /\ -ScrollW \in Int
  BY DEF TwoSizes
<1>4. CASE Two!instruction_00FB
  BY <1>3, <1>4 DEF Two!instruction_00FB
<1>5. CASE Two!instruction_00FC
  BY <1>3, <1>5 DEF Two!instruction_00FC
<1>6. ASSUME NEW n \in 1..Rows, Two!instruction_00CN(n)
      PROVE  \E cols, rows \in Int : /\ op'.cols = cols /\ op'.rows = rows
                                     /\ lit' = Shift(lit, width, height, cols, rows)
  <2>1. n \in Int /\ n # 0
    BY DEF TwoSizes
  <2> QED BY <1>3, <1>6, <2>1 DEF Two!instruction_00CN
<1>7. ASSUME NEW x, NEW y, NEW n, NEW i, NEW wrap, Two!instruction_DxyN(x, y, n, i, wrap)
      PROVE  FALSE
  <2>1. op' = Two!Draw(x, y, n, i, wrap)
    BY <1>7 DEF Two!instruction_DxyN
  <2> QED BY <2>1 DEF Two!Draw
<1> QED BY <1>1, <1>2, <1>4, <1>5, <1>6, <1>7 DEF Two!Next

\* A sprite of SCHIP_MODERN flips the cells that are its bits.
LEMMA DrawStep ==
  ASSUME TwoSizes, MapIsOfMode, Memory \in Seq(SUBSET (0..(ByteW - 1))), Xs \cup Ys \subseteq Nat,
         Two!Next
  PROVE  Two!DrawFlipsSprite /\ Two!FlagTellsErasure
<1> SUFFICES ASSUME op'.name = "draw"
             PROVE  Two!DrawFlipsSprite /\ Two!FlagTellsErasure
  BY DEF Two!DrawFlipsSprite, Two!FlagTellsErasure
<1>1. PICK a \in Xs, b \in Ys, n \in 0..Rows, wrap \in BOOLEAN :
        \E i \in 0..(Len(Memory) - Two!BytesOf(n)) : Two!instruction_DxyN(a, b, n, i, wrap)
  BY DrawIs
<1>2. PICK i \in 0..(Len(Memory) - Two!BytesOf(n)) : Two!instruction_DxyN(a, b, n, i, wrap)
  BY <1>1
<1> DEFINE pX == a % width
           pY == b % height
           cells == SpriteCells(pX, pY, n, i, wrap, width, height)
<1>3. MapFits(width, height)
  BY MapsFit
<1>4. pX \in 0..(width - 1) /\ pY \in 0..(height - 1)
  BY <1>3 DEF MapFits
<1>5. i \in Nat /\ i + BytesOf(n) <= Len(Memory)
  BY <1>3 DEF MapFits, Two!BytesOf, BytesOf
<1>6. RowsOf(n) = Two!RowsOf(n) /\ \A k : Byte(k) = Two!Byte(k)
  BY DEF RowsOf, Two!RowsOf, Byte, Two!Byte
<1> DEFINE row == [r \in 0..(RowsOf(n) - 1) |->
                    IF n = 0
                    THEN Two!draw_byte(pX, (pY + r) % height, Byte(i + 2 * r), wrap)
                         \cup Two!draw_byte(pX + ByteW, (pY + r) % height,
                                            Byte(i + 2 * r + 1), wrap)
                    ELSE Two!draw_byte(pX, (pY + r) % height, Byte(i + r), wrap)]
           drawn == UNION {row[r] :
                           r \in {q \in 0..(RowsOf(n) - 1) : Two!BeforeEdge(pY, q, height, wrap)}}
<1>7. drawn = cells
  <2>1. \A r \in 0..(RowsOf(n) - 1) : row[r] = RowCells(pX, (pY + r) % height, n, i, r, wrap, width)
    BY <1>3, <1>4, TwoBytes DEF RowCells
  <2> HIDE DEF row
  <2> QED BY <2>1, SpritesAreEqual
<1>8. /\ lit' = (lit \ cells) \cup (cells \ lit)
      /\ vf' = IF cells \cap lit # {} THEN 1 ELSE 0
      /\ op' = Two!Draw(a, b, n, i, wrap)
  <2>1. /\ lit' = (lit \ drawn) \cup (drawn \ lit)
        /\ vf' = IF drawn \cap lit # {} THEN 1 ELSE 0
        /\ op' = Two!Draw(a, b, n, i, wrap)
    BY <1>2, <1>6 DEF Two!instruction_DxyN, Two!Collided
  <2> QED BY <1>7, <2>1
<1>9. op'.x = pX /\ op'.y = pY /\ op'.n = n /\ op'.i = i /\ op'.wrap = wrap
  BY <1>8 DEF Two!Draw
<1>10. ASSUME NEW x \in 0..(width - 1), NEW y \in 0..(height - 1)
      PROVE  Index(x, y, width) \in cells
               <=> /\ Off(x, pX, width, wrap) >= 0 /\ Off(y, pY, height, wrap) >= 0
                   /\ SpriteBit(n, i, Off(x, pX, width, wrap), Off(y, pY, height, wrap))
  BY <1>3, <1>4, <1>5, SpriteReaches
<1> HIDE DEF cells, pX, pY, drawn, row
<1>11. Two!DrawFlipsSprite
  <2>1. ASSUME NEW x \in 0..(width - 1), NEW y \in 0..(height - 1)
        PROVE  (Index(x, y, width) \in lit' <=> Index(x, y, width) \in lit)
                 <=> ~(/\ Off(x, pX, width, wrap) >= 0 /\ Off(y, pY, height, wrap) >= 0
                       /\ SpriteBit(n, i, Off(x, pX, width, wrap), Off(y, pY, height, wrap)))
    BY <1>8, <1>10
  <2> QED BY <1>9, <2>1 DEF Two!DrawFlipsSprite, Two!Drawn, Off, Two!Index, Index,
                                Two!SpriteBit, SpriteBit, Two!RowsOf, RowsOf, Two!Byte, Byte
<1>12. Two!FlagTellsErasure
  <2>1. lit \ lit' = cells \cap lit
    BY <1>8
  <2> QED BY <1>8, <2>1 DEF Two!FlagTellsErasure
<1> QED BY <1>11, <1>12

\* For any display and sprite memory, in both modes and with the quirk changing between
\* sprites: SCHIP_MODERN flips exactly the pixels of a sprite's bits, clipped or wrapped, VF
\* tells whether one of them was lit, and every scroll moves all pixels by its distance.
THEOREM SpritesFlipTheirPixels ==
  ASSUME TwoSizes
  PROVE  Two!Spec => [][/\ Two!DrawFlipsSprite
                        /\ Two!FlagTellsErasure
                        /\ Two!ScrollMovesPixels]_(Two!vars)
<1>1. Two!Init => MapIsOfMode
  BY DEF Two!Init, MapIsOfMode
<1>2. MapIsOfMode /\ [Two!Next]_(Two!vars) => MapIsOfMode'
  BY ModesKeepMaps
<1>3. MapIsOfMode /\ Two!Next =>
        Two!DrawFlipsSprite /\ Two!FlagTellsErasure /\ Two!ScrollMovesPixels
  <2> SUFFICES ASSUME MapIsOfMode, Two!Next
               PROVE  Two!DrawFlipsSprite /\ Two!FlagTellsErasure /\ Two!ScrollMovesPixels
    OBVIOUS
  <2>1. Two!DrawFlipsSprite /\ Two!FlagTellsErasure
    BY DrawStep, MemoryAssumption, OriginAssumption
  <2>2. Two!ScrollMovesPixels
    <3> SUFFICES ASSUME op'.name = "scroll"
                 PROVE  Two!Scrolled(lit, lit', width, height, op'.cols, op'.rows)
      BY DEF Two!ScrollMovesPixels
    <3>1. PICK cols \in Int, rows \in Int :
            /\ op'.cols = cols /\ op'.rows = rows
            /\ lit' = Shift(lit, width, height, cols, rows)
      BY ScrollIs
    <3>2. width \in Nat \ {0} /\ height \in Nat \ {0}
      BY MapsFit DEF MapFits
    <3>3. Scrolled(lit, lit', width, height, cols, rows)
      BY <3>1, <3>2, ShiftMoves
    <3> QED BY <3>1, <3>3 DEF Scrolled, Two!Scrolled, Index, Two!Index
  <2> QED BY <2>1, <2>2
<1> QED BY <1>1, <1>2, <1>3, PTL DEF Two!Spec

\* The small map is the beginning of the large one.
LEMMA Beginning ==
  ASSUME TwoSizes, MapIsOfMode
  PROVE  Area(W \div 2, H \div 2) \subseteq Area(width, height)
<1>1. /\ W \div 2 \in Nat /\ H \div 2 \in Nat /\ W \div 2 <= W /\ H \div 2 <= H
      /\ W \in Nat /\ H \in Nat
  BY DEF TwoSizes
<1>2. \A a, b, c, d \in Nat : a <= c /\ b <= d => a * b <= c * d
  <2> SUFFICES ASSUME NEW a \in Nat, NEW b \in Nat, NEW c \in Nat, NEW d \in Nat, a <= c, b <= d
               PROVE  a * b <= c * d
    OBVIOUS
  <2>1. a * b <= c * b
    OBVIOUS
  <2>2. c * b <= c * d
    OBVIOUS
  <2>3. a * b \in Int /\ c * b \in Int /\ c * d \in Int
    OBVIOUS
  <2> QED BY <2>1, <2>2, <2>3
<1> DEFINE small == (W \div 2) * (H \div 2)
<1>3. small <= W * H /\ small \in Int /\ W * H \in Int
  BY <1>1, <1>2
<1>4. width * height = W * H \/ width * height = small
  BY DEF MapIsOfMode
<1> HIDE DEF small
<1>5. 0..(small - 1) \subseteq 0..(width * height - 1)
  BY <1>3, <1>4
<1> QED BY <1>5 DEF small, Area

\* An erasure, a change of the mode and a reset leave the map dark.
LEMMA BlankStep ==
  ASSUME TwoSizes, MapIsOfMode, Two!BlankOnModeChange, [Two!Next]_(Two!vars)
  PROVE  Two!BlankOnModeChange'
<1> USE DEF Two!BlankOnModeChange, Two!Area, Area
<1>1. CASE UNCHANGED Two!vars
  BY <1>1 DEF Two!vars
<1>2. CASE Two!reset_system_data
  BY <1>2, Beginning DEF Two!reset_system_data, Two!Blank
<1>3. CASE Two!instruction_00FE \/ Two!instruction_00FF
  BY <1>3 DEF Two!instruction_00FE, Two!instruction_00FF, Two!Blank
<1>4. CASE Two!instruction_00E0
  BY <1>4 DEF Two!instruction_00E0, Two!Op
<1>5. CASE Two!instruction_00FB \/ Two!instruction_00FC
  BY <1>5 DEF Two!instruction_00FB, Two!instruction_00FC, Two!Scroll
<1>6. ASSUME NEW n, Two!instruction_00CN(n) PROVE Two!BlankOnModeChange'
  BY <1>6 DEF Two!instruction_00CN, Two!Scroll
<1>7. ASSUME NEW x, NEW y, NEW n, NEW i, NEW wrap, Two!instruction_DxyN(x, y, n, i, wrap)
      PROVE  Two!BlankOnModeChange'
  <2>1. op' = Two!Draw(x, y, n, i, wrap)
    BY <1>7 DEF Two!instruction_DxyN
  <2> QED BY <2>1 DEF Two!Draw
<1> QED BY <1>1, <1>2, <1>3, <1>4, <1>5, <1>6, <1>7 DEF Two!Next

\* For any display: a change of the mode and a reset leave the map dark, whatever the part of the
\* buffer that they bring into it showed before.
THEOREM ModesBeginDark ==
  ASSUME TwoSizes
  PROVE  Two!Spec => []Two!BlankOnModeChange
<1>1. Two!Init => MapIsOfMode /\ Two!BlankOnModeChange
  BY DEF Two!Init, MapIsOfMode, Two!BlankOnModeChange
<1>2. MapIsOfMode /\ Two!BlankOnModeChange /\ [Two!Next]_(Two!vars)
        => MapIsOfMode' /\ Two!BlankOnModeChange'
  BY ModesKeepMaps, BlankStep
<1> QED BY <1>1, <1>2, PTL DEF Two!Spec

\* A sprite's cells are on the map.
LEMMA SpriteInside ==
  ASSUME NEW w, NEW h, MapFits(w, h), NEW pX \in 0..(w - 1), NEW pY \in 0..(h - 1),
         NEW n \in 0..Rows, NEW i \in Nat, i + BytesOf(n) <= Len(Memory), NEW wrap \in BOOLEAN
  PROVE  SpriteCells(pX, pY, n, i, wrap, w, h) \subseteq Area(w, h)
<1>1. w \in Nat \ {0} /\ h \in Nat \ {0} /\ ByteW \in Nat \ {0} /\ Rows \in Nat
  BY DEF MapFits
<1>2. \A j \in 0..(Len(Memory) - 1) : Byte(j) \in SUBSET (0..(ByteW - 1))
  BY MemoryAssumption DEF Byte
<1>3. ASSUME NEW X \in 0..(w - 1), NEW Y \in 0..(h - 1), NEW data \in SUBSET (0..(ByteW - 1))
      PROVE  ByteCells(X, Y, data, wrap, w) \subseteq Area(w, h)
  <2>1. \A b \in data : (X + b) % w \in 0..(w - 1)
    BY <1>1
  <2> QED BY <1>1, <2>1, Places DEF ByteCells
<1>4. ASSUME NEW X \in 0..(w - 1), NEW Y \in 0..(h - 1), NEW data \in SUBSET (0..(ByteW - 1))
      PROVE  HalfCells(X, Y, data, wrap, w) \subseteq Area(w, h)
  <2>1. (X + ByteW) % w \in 0..(w - 1)
    BY <1>1
  <2> QED BY <1>3, <2>1 DEF HalfCells
<1>5. ASSUME NEW r \in 0..(RowsOf(n) - 1)
      PROVE  RowCells(pX, (pY + r) % h, n, i, r, wrap, w) \subseteq Area(w, h)
  <2>1. (pY + r) % h \in 0..(h - 1)
    BY <1>1
  <2>2. CASE n = 0
    <3>1. i + 2 * r \in 0..(Len(Memory) - 1) /\ i + 2 * r + 1 \in 0..(Len(Memory) - 1)
      BY <1>1, <2>2 DEF BytesOf, RowsOf
    <3>2. /\ Byte(i + 2 * r) \in SUBSET (0..(ByteW - 1))
          /\ Byte(i + 2 * r + 1) \in SUBSET (0..(ByteW - 1))
      BY <1>2, <3>1
    <3>3. /\ ByteCells(pX, (pY + r) % h, Byte(i + 2 * r), wrap, w) \subseteq Area(w, h)
          /\ HalfCells(pX, (pY + r) % h, Byte(i + 2 * r + 1), wrap, w) \subseteq Area(w, h)
      BY <1>3, <1>4, <2>1, <3>2
    <3> QED BY <2>2, <3>3 DEF RowCells
  <2>3. CASE n # 0
    <3>1. i + r \in 0..(Len(Memory) - 1)
      BY <1>1, <2>3 DEF BytesOf, RowsOf
    <3> QED BY <1>2, <1>3, <2>1, <2>3, <3>1 DEF RowCells
  <2> QED BY <2>2, <2>3
<1> QED BY <1>5 DEF SpriteCells

\* draw_byte() of CHIP8_MODERN, from a column on the map.
LEMMA OneBytes ==
  ASSUME MapFits(W, H), NEW X \in 0..(W - 1), NEW Y, NEW data \in SUBSET (0..(ByteW - 1)),
         NEW wrap \in BOOLEAN
  PROVE  One!draw_byte(X, Y, data, wrap) = ByteCells(X, Y, data, wrap, W)
<1> USE DEF One!Index, Index
<1>1. W \in Nat \ {0} /\ ByteW \in Nat
  BY DEF MapFits
<1>2. \A b \in Nat : One!Column(X, b) = (X + b) % W
  BY <1>1 DEF One!Column
<1>3. \A b \in data : b \in Nat /\ \A c \in 0..(b - 1) : c \in Nat
  BY <1>1
<1>4. \A b \in data : (wrap \/ \A c \in 0..(b - 1) : One!Column(X, c) # W - 1)
                        <=> Two!BeforeEdge(X, b, W, wrap)
  BY <1>2, <1>3 DEF Two!BeforeEdge
<1>5. \A b \in data : Index(One!Column(X, b), Y, W) = Index((X + b) % W, Y, W)
  BY <1>2, <1>3
<1> QED BY <1>4, <1>5 DEF One!draw_byte, ByteCells

\* A sprite of CHIP8_MODERN flips the cells that are its bits, if it begins both its halves
\* on the map.
LEMMA OneStep ==
  ASSUME One!Next
  PROVE  One!DrawFlipsSprite /\ One!FlagTellsErasure
<1> SUFFICES ASSUME op'.name = "draw", One!InColumns(op')
             PROVE  One!DrawFlipsSprite /\ One!FlagTellsErasure
  BY DEF One!DrawFlipsSprite, One!FlagTellsErasure
<1>1. ~(One!reset_system_data \/ One!instruction_00E0)
  BY DEF One!reset_system_data, One!instruction_00E0, One!None
<1>2. PICK a \in Xs, b \in Ys, n \in 0..Rows, wrap \in BOOLEAN :
        \E i \in 0..(Len(Memory) - One!BytesOf(n)) : One!instruction_DxyN(a, b, n, i, wrap)
  BY <1>1 DEF One!Next
<1>3. PICK i \in 0..(Len(Memory) - One!BytesOf(n)) : One!instruction_DxyN(a, b, n, i, wrap)
  BY <1>2
<1> DEFINE pX == a % W
           pY == b % H
           cells == SpriteCells(pX, pY, n, i, wrap, W, H)
           row == [r \in 0..(RowsOf(n) - 1) |->
                    IF n = 0
                    THEN One!draw_byte(pX, (pY + r) % H, Byte(i + 2 * r), wrap)
                         \cup One!draw_byte(pX + ByteW, (pY + r) % H, Byte(i + 2 * r + 1), wrap)
                    ELSE One!draw_byte(pX, (pY + r) % H, Byte(i + r), wrap)]
           rows == {q \in 0..(RowsOf(n) - 1) : One!RowBeforeEdge(pY, q, wrap)}
           all == UNION {row[r] : r \in rows}
<1>4. MapFits(W, H) /\ W \in Nat \ {0} /\ H \in Nat \ {0} /\ ByteW \in Nat /\ Rows \in Nat
  BY DimAssumption DEF MapFits
<1>5. pX \in 0..(W - 1) /\ pY \in 0..(H - 1)
  BY <1>4, OriginAssumption
<1>6. i \in Nat /\ i + BytesOf(n) <= Len(Memory)
  BY <1>4, MemoryAssumption DEF One!BytesOf, BytesOf
<1>7. RowsOf(n) = One!RowsOf(n) /\ \A k : Byte(k) = One!Byte(k)
  BY DEF RowsOf, One!RowsOf, Byte, One!Byte
<1>8. op' = One!Draw(a, b, n, i, wrap)
  BY <1>3 DEF One!instruction_DxyN
<1>9. op'.x = pX /\ op'.y = pY /\ op'.n = n /\ op'.i = i /\ op'.wrap = wrap
  BY <1>8 DEF One!Draw
<1>10. all = cells
  <2>1. ASSUME NEW r \in 0..(RowsOf(n) - 1)
        PROVE  row[r] = RowCells(pX, (pY + r) % H, n, i, r, wrap, W)
    <3>1. \A j \in 0..(Len(Memory) - 1) : Byte(j) \in SUBSET (0..(ByteW - 1))
      BY MemoryAssumption DEF Byte
    <3>2. CASE n = 0
      <4>1. i + 2 * r \in 0..(Len(Memory) - 1) /\ i + 2 * r + 1 \in 0..(Len(Memory) - 1)
        BY <1>4, <1>6, <3>2 DEF BytesOf, RowsOf
      <4>2. pX + ByteW \in 0..(W - 1) /\ (pX + ByteW) % W = pX + ByteW
        <5>1. pX + ByteW < W
          BY <1>9, <3>2 DEF One!InColumns
        <5>2. \A m \in 0..(W - 1) : m % W = m
          BY <1>4
        <5> HIDE DEF pX
        <5> QED BY <1>4, <1>5, <5>1, <5>2
      <4>3. /\ One!draw_byte(pX, (pY + r) % H, Byte(i + 2 * r), wrap)
                 = ByteCells(pX, (pY + r) % H, Byte(i + 2 * r), wrap, W)
            /\ One!draw_byte(pX + ByteW, (pY + r) % H, Byte(i + 2 * r + 1), wrap)
                 = ByteCells(pX + ByteW, (pY + r) % H, Byte(i + 2 * r + 1), wrap, W)
        BY <1>4, <1>5, <3>1, <4>1, <4>2, OneBytes
      <4>4. HalfCells(pX, (pY + r) % H, Byte(i + 2 * r + 1), wrap, W)
              = ByteCells(pX + ByteW, (pY + r) % H, Byte(i + 2 * r + 1), wrap, W)
        <5>1. pX + ByteW < W
          BY <1>4, <4>2
        <5> QED BY <4>2, <5>1 DEF HalfCells
      <4> QED BY <3>2, <4>3, <4>4 DEF RowCells
    <3>3. CASE n # 0
      <4>1. i + r \in 0..(Len(Memory) - 1)
        BY <1>4, <1>6, <3>3 DEF BytesOf, RowsOf
      <4> QED BY <1>4, <1>5, <3>1, <3>3, <4>1, OneBytes DEF RowCells
    <3> QED BY <3>2, <3>3
  <2>2. rows = {q \in 0..(RowsOf(n) - 1) : Two!BeforeEdge(pY, q, H, wrap)}
    BY DEF One!RowBeforeEdge, Two!BeforeEdge
  <2> HIDE DEF row, rows
  <2>3. UNION {row[r] : r \in {q \in 0..(RowsOf(n) - 1) : Two!BeforeEdge(pY, q, H, wrap)}} = cells
    BY <2>1, SpritesAreEqual
  <2> QED BY <2>2, <2>3
<1>11. cells \subseteq Area(W, H)
  BY <1>4, <1>5, <1>6, SpriteInside
<1>12. /\ lit' = (lit \ (all \cap Area(W, H))) \cup ((all \cap Area(W, H)) \ lit)
       /\ all = all \cap Area(W, H) => vf' = One!Flag((all \cap Area(W, H)) \cap lit # {})
  <2> DEFINE raw == UNION {IF n = 0
                           THEN One!draw_byte(pX, (pY + r) % H, One!Byte(i + 2 * r), wrap)
                                \cup One!draw_byte(pX + ByteW, (pY + r) % H,
                                                  One!Byte(i + 2 * r + 1), wrap)
                           ELSE One!draw_byte(pX, (pY + r) % H, One!Byte(i + r), wrap) :
                             r \in {q \in 0..(One!RowsOf(n) - 1) : One!RowBeforeEdge(pY, q, wrap)}}
             seen == raw \cap One!Area(W, H)
  <2>1. raw = all
    BY <1>7
  <2>2. /\ lit' = (lit \ seen) \cup (seen \ lit)
        /\ \E behind \in IF raw = seen THEN {FALSE} ELSE BOOLEAN :
             vf' = One!Flag(behind \/ One!Collided(seen))
    BY <1>3 DEF One!instruction_DxyN
  <2>3. seen = all \cap Area(W, H)
    BY <2>1 DEF One!Area, Area
  <2> HIDE DEF raw, seen, all
  <2>4. raw = seen => vf' = One!Flag(FALSE \/ One!Collided(seen))
    BY <2>2
  <2> QED BY <2>1, <2>2, <2>3, <2>4 DEF One!Flag, One!Collided
<1> HIDE DEF cells, all, row, rows, pX, pY
<1>13. all \cap Area(W, H) = cells /\ all = all \cap Area(W, H)
  BY <1>10, <1>11
<1>14. lit' = (lit \ cells) \cup (cells \ lit) /\ (vf' = 1 <=> cells \cap lit # {})
  BY <1>12, <1>13 DEF One!Flag
<1>15. ASSUME NEW x \in 0..(W - 1), NEW y \in 0..(H - 1)
       PROVE  (Index(x, y, W) \in lit' <=> Index(x, y, W) \in lit)
                <=> ~(/\ Off(x, pX, W, wrap) >= 0 /\ Off(y, pY, H, wrap) >= 0
                      /\ SpriteBit(n, i, Off(x, pX, W, wrap), Off(y, pY, H, wrap)))
  <2>1. Index(x, y, W) \in cells
          <=> /\ Off(x, pX, W, wrap) >= 0 /\ Off(y, pY, H, wrap) >= 0
              /\ SpriteBit(n, i, Off(x, pX, W, wrap), Off(y, pY, H, wrap))
    BY <1>4, <1>5, <1>6, SpriteReaches DEF cells
  <2> QED BY <1>14, <2>1
<1>16. lit \ lit' = cells \cap lit
  BY <1>14
<1>17. One!DrawFlipsSprite
  BY <1>9, <1>15 DEF One!DrawFlipsSprite, One!Drawn, Off, One!Index, Index, One!SpriteBit,
                     SpriteBit, One!RowsOf, RowsOf, One!Byte, Byte
<1>18. One!FlagTellsErasure
  BY <1>14, <1>16 DEF One!FlagTellsErasure
<1> QED BY <1>17, <1>18

\* For any display: a sprite of CHIP8_MODERN flips exactly the pixels of its bits, clipped at
\* the edges or wrapped around them, and VF tells whether one of them was lit; all but the large
\* sprites whose right half begins past the edge.
THEOREM OneByteSpritesFlip ==
  One!Spec => [][One!DrawFlipsSprite /\ One!FlagTellsErasure]_(One!vars)
<1>1. One!Next => One!DrawFlipsSprite /\ One!FlagTellsErasure
  BY OneStep
<1> QED BY <1>1, PTL DEF One!Spec

\* What the proof needs of XOCHIP's constants, and of its maps.
XoSizes ==
  TwoSizes /\ Plane \subseteq Nat /\ IsFiniteSet(Plane) /\ 0 \in Plane /\ Is \subseteq Nat

PlanesOfMode == MapIsOfMode /\ DOMAIN lit = Plane /\ mask \subseteq Plane

\* Every step keeps the planes, and the sizes of their maps.
LEMMA PlanesStep == XoSizes /\ PlanesOfMode /\ [Xo!Next]_(Xo!vars) => PlanesOfMode'
<1> SUFFICES ASSUME XoSizes, PlanesOfMode, [Xo!Next]_(Xo!vars) PROVE PlanesOfMode'
  OBVIOUS
<1> USE DEF PlanesOfMode, MapIsOfMode
<1>1. CASE UNCHANGED Xo!vars
  BY <1>1 DEF Xo!vars
<1>2. CASE Xo!reset_system_data
  BY <1>2 DEF Xo!reset_system_data, XoSizes
<1>3. CASE Xo!instruction_00E0
  BY <1>3 DEF Xo!instruction_00E0
<1>4. ASSUME NEW planes \in SUBSET Plane, Xo!instruction_FN01(planes) PROVE PlanesOfMode'
  BY <1>4 DEF Xo!instruction_FN01
<1>5. ASSUME NEW cols, NEW rows, Xo!Shifted(cols, rows) PROVE PlanesOfMode'
  BY <1>5 DEF Xo!Shifted, Xo!ShiftMasked
<1>6. CASE Xo!instruction_00FE \/ Xo!instruction_00FF
  BY <1>6 DEF Xo!instruction_00FE, Xo!instruction_00FF, Xo!Resized
<1>7. ASSUME NEW x, NEW y, NEW n, NEW i, NEW wrap, Xo!instruction_DxyN(x, y, n, i, wrap)
      PROVE  PlanesOfMode'
  BY <1>7 DEF Xo!instruction_DxyN
<1> QED BY <1>1, <1>2, <1>3, <1>4, <1>5, <1>6, <1>7
        DEF Xo!Next, Xo!instruction_00CN, Xo!instruction_00DN, Xo!instruction_00FB,
            Xo!instruction_00FC

\* draw_byte() of XOCHIP is that of SCHIP_MODERN.
LEMMA XoBytes ==
  ASSUME NEW X, NEW Y, NEW data, NEW wrap
  PROVE  Xo!draw_byte(X, Y, data, wrap) = Two!draw_byte(X, Y, data, wrap)
BY DEF Xo!draw_byte, Xo!Map!draw_byte, Two!draw_byte, Xo!Map!StartColumn, Two!StartColumn,
       Xo!Map!BeforeEdge, Two!BeforeEdge, Xo!Map!Index, Two!Index

\* The planes before one of the masked planes.
LEMMA PlanesBefore ==
  ASSUME XoSizes, PlanesOfMode, NEW p \in mask
  PROVE  /\ Xo!c_plane_mask(p) \in Nat /\ Xo!c_plane_mask(p) < Cardinality(mask)
         /\ Cardinality(mask) \in Nat
         /\ Cardinality({q \in mask : q <= p}) - 1 = Xo!c_plane_mask(p)
<1> DEFINE below == {q \in mask : q < p}
           upTo == {q \in mask : q <= p}
<1>1. IsFiniteSet(mask) /\ IsFiniteSet(below) /\ mask \subseteq Nat
  BY FS_Subset DEF XoSizes, PlanesOfMode
<1>2. upTo = below \cup {p} /\ p \notin below /\ upTo \subseteq mask
  <2>1. \A q \in mask : q <= p <=> q < p \/ q = p
    BY <1>1
  <2>2. ~(p < p)
    BY <1>1
  <2> QED BY <2>1, <2>2
<1>3. Cardinality(below) \in Nat /\ Cardinality(mask) \in Nat
  BY <1>1, FS_CardinalityType
<1>4. Cardinality(upTo) = Cardinality(below) + 1
  BY <1>1, <1>2, FS_AddElement
<1>5. Cardinality(upTo) <= Cardinality(mask)
  BY <1>1, <1>2, FS_Subset
<1>6. Xo!c_plane_mask(p) = Cardinality(below)
  BY DEF Xo!c_plane_mask, Xo!Cardinality, Cardinality
<1> HIDE DEF below, upTo
<1>7. Cardinality(upTo) - 1 = Cardinality(below) /\ Cardinality(below) < Cardinality(mask)
  BY <1>3, <1>4, <1>5
<1> QED BY <1>3, <1>6, <1>7 DEF upTo

\* The cells that a plane's part of a sprite flips.
XoCells(pX, pY, n, i, wrap) ==
  CASE n = 0 -> Xo!draw_double_row(pX, pY, i, wrap)
    [] n = 1 -> Xo!draw_single_row(pX, pY, i, wrap)
    [] OTHER -> Xo!draw_n_rows(pX, pY, n, i, wrap)

\* A plane's sprite has the cells of one, in the three ways that it is drawn.
LEMMA XoSprites ==
  ASSUME MapFits(width, height), NEW pX \in 0..(width - 1), NEW pY \in 0..(height - 1),
         NEW n \in 0..Rows, NEW i \in Nat, i + BytesOf(n) <= Len(Memory), NEW wrap \in BOOLEAN
  PROVE  XoCells(pX, pY, n, i, wrap) = SpriteCells(pX, pY, n, i, wrap, width, height)
<1> DEFINE row == [r \in 0..(RowsOf(n) - 1) |->
                    IF n = 0
                    THEN Xo!draw_byte(pX, (pY + r) % height, Byte(i + 2 * r), wrap)
                         \cup Xo!draw_byte(pX + ByteW, (pY + r) % height, Byte(i + 2 * r + 1), wrap)
                    ELSE Xo!draw_byte(pX, (pY + r) % height, Byte(i + r), wrap)]
           rows == {q \in 0..(RowsOf(n) - 1) : Two!BeforeEdge(pY, q, height, wrap)}
<1>1. height \in Nat \ {0} /\ Rows \in Nat /\ Rows <= height
  BY DEF MapFits
<1>2. UNION {row[r] : r \in rows} = SpriteCells(pX, pY, n, i, wrap, width, height)
  <2>1. \A r \in 0..(RowsOf(n) - 1) : row[r] = RowCells(pX, (pY + r) % height, n, i, r, wrap, width)
    BY XoBytes, TwoBytes DEF RowCells
  <2> HIDE DEF row
  <2>2. \A r \in rows : row[r] = RowCells(pX, (pY + r) % height, n, i, r, wrap, width)
    BY <2>1
  <2>3. UNION {row[r] : r \in rows}
          = UNION {RowCells(pX, (pY + r) % height, n, i, r, wrap, width) : r \in rows}
    <3> HIDE DEF rows
    <3> QED BY <2>2
  <2> QED BY <2>3 DEF SpriteCells
<1>3. Xo!Top(pY, wrap) = {r \in 0..(Rows - 1) : Two!BeforeEdge(pY, r, height, wrap)}
  BY DEF Xo!Top, Xo!Map!BeforeEdge, Two!BeforeEdge
<1>4. \A k : Xo!Byte(k) = Byte(k)
  BY DEF Xo!Byte, Byte
<1>5. CASE n = 0
  <2>1. rows = Xo!Top(pY, wrap)
    BY <1>3, <1>5 DEF RowsOf
  <2>2. UNION {row[r] : r \in rows} = Xo!draw_double_row(pX, pY, i, wrap)
    <3>1. \A r \in rows :
            row[r] = Xo!draw_byte(pX, (pY + r) % height, Xo!Byte(i + 2 * r), wrap)
                     \cup Xo!draw_byte(pX + ByteW, (pY + r) % height, Xo!Byte(i + 2 * r + 1), wrap)
      BY <1>4, <1>5
    <3> HIDE DEF row, rows
    <3> QED BY <2>1, <3>1 DEF Xo!draw_double_row
  <2>3. XoCells(pX, pY, n, i, wrap) = Xo!draw_double_row(pX, pY, i, wrap)
    BY <1>5 DEF XoCells
  <2> HIDE DEF row, rows
  <2> QED BY <1>2, <2>2, <2>3
<1>6. CASE n = 1
  <2>1. rows = {0}
    <3>1. Two!BeforeEdge(pY, 0, height, wrap) /\ RowsOf(n) - 1 = 0
      BY <1>6 DEF Two!BeforeEdge, RowsOf
    <3>2. 0..(RowsOf(n) - 1) = {0}
      BY <3>1
    <3> QED BY <3>1, <3>2
  <2>2. (pY + 0) % height = pY /\ i + 0 = i
    BY <1>1
  <2>3. 0 \in 0..(RowsOf(n) - 1)
    BY <2>1
  <2>4. row[0] = Xo!draw_single_row(pX, pY, i, wrap)
    BY <1>4, <1>6, <2>2, <2>3 DEF Xo!draw_single_row
  <2>5. UNION {row[r] : r \in rows} = row[0]
    <3> HIDE DEF row, rows
    <3> QED BY <2>1
  <2> HIDE DEF row, rows
  <2>6. XoCells(pX, pY, n, i, wrap) = Xo!draw_single_row(pX, pY, i, wrap)
    BY <1>6 DEF XoCells
  <2> QED BY <1>2, <2>4, <2>5, <2>6
<1>7. CASE n \notin {0, 1}
  <2>1. rows = {q \in Xo!Top(pY, wrap) : q < n}
    BY <1>1, <1>3, <1>7 DEF RowsOf
  <2>2. UNION {row[r] : r \in rows} = Xo!draw_n_rows(pX, pY, n, i, wrap)
    BY <1>4, <1>7, <2>1 DEF Xo!draw_n_rows
  <2> QED BY <1>2, <1>7, <2>2 DEF XoCells
<1> QED BY <1>5, <1>6, <1>7

\* Only a sprite is drawn.
LEMMA XoDrawIs ==
  ASSUME Xo!Next, op'.name = "draw"
  PROVE  \E x \in Xs, y \in Ys, n \in 0..Rows, i \in Is, wrap \in BOOLEAN :
           Xo!instruction_DxyN(x, y, n, i, wrap)
<1>1. ~(Xo!reset_system_data \/ Xo!instruction_00E0)
  BY DEF Xo!reset_system_data, Xo!instruction_00E0, Xo!Op, Xo!None
<1>2. ~(Xo!instruction_00FE \/ Xo!instruction_00FF)
  BY DEF Xo!instruction_00FE, Xo!instruction_00FF, Xo!Resized, Xo!Op
<1>3. \A cols, rows : ~Xo!Shifted(cols, rows)
  BY DEF Xo!Shifted, Xo!Scroll
<1>4. \A planes : ~Xo!instruction_FN01(planes)
  BY DEF Xo!instruction_FN01, Xo!Op
<1> QED BY <1>1, <1>2, <1>3, <1>4
        DEF Xo!Next, Xo!instruction_00CN, Xo!instruction_00DN, Xo!instruction_00FB,
            Xo!instruction_00FC

\* Each masked plane flips its own part of the sprite.
LEMMA XoDrawStep ==
  ASSUME XoSizes, PlanesOfMode, Xo!Next
  PROVE  Xo!DrawFlipsSprite /\ Xo!FlagTellsErasure
<1> SUFFICES ASSUME op'.name = "draw"
             PROVE  Xo!DrawFlipsSprite /\ Xo!FlagTellsErasure
  BY DEF Xo!DrawFlipsSprite, Xo!FlagTellsErasure
<1>1. PICK a \in Xs, b \in Ys, n \in 0..Rows, i \in Is, wrap \in BOOLEAN :
        Xo!instruction_DxyN(a, b, n, i, wrap)
  BY XoDrawIs
<1> DEFINE pX == a % width
           pY == b % height
           at(p) == i + Xo!c_plane_mask(p) * BytesOf(n)
           cells(p) == SpriteCells(pX, pY, n, at(p), wrap, width, height)
<1>2. MapFits(width, height) /\ i \in Nat /\ n \in Nat /\ Rows \in Nat
  BY MapsFit DEF XoSizes, PlanesOfMode, MapFits
<1>3. pX \in 0..(width - 1) /\ pY \in 0..(height - 1)
  BY <1>2, OriginAssumption DEF MapFits
<1>4. ASSUME NEW p \in mask
      PROVE  at(p) \in Nat /\ at(p) + BytesOf(n) <= Len(Memory)
  <2> DEFINE k == Xo!c_plane_mask(p)
             m == Cardinality(mask)
             size == BytesOf(n)
  <2>1. k \in Nat /\ m \in Nat /\ k < m /\ size \in Nat
    <3>1. k \in Nat /\ m \in Nat /\ k < m
      BY PlanesBefore
    <3>2. size \in Nat
      BY <1>2 DEF BytesOf
    <3> QED BY <3>1, <3>2
  <2>2. i + m * size <= Len(Memory)
    BY <1>1 DEF Xo!instruction_DxyN, Xo!Cardinality, Cardinality, Xo!BytesOf, BytesOf
  <2>3. Len(Memory) \in Nat
    BY MemoryAssumption
  <2> HIDE DEF k, m, size
  <2>4. k * size + size <= m * size /\ k * size \in Nat /\ m * size \in Nat
    <3>1. k * size + size = (k + 1) * size
      BY <2>1
    <3>2. (k + 1) * size <= m * size
      BY <2>1
    <3>3. k * size \in Nat /\ m * size \in Nat
      BY <2>1
    <3> QED BY <3>1, <3>2, <3>3
  <2>5. i + k * size \in Nat /\ i + k * size + size <= Len(Memory)
    BY <1>2, <2>1, <2>2, <2>3, <2>4
  <2> QED BY <2>5 DEF k, size
<1>5. /\ lit' = [p \in Plane |-> IF p \in mask
                                 THEN (lit[p] \ XoCells(pX, pY, n, at(p), wrap))
                                      \cup (XoCells(pX, pY, n, at(p), wrap) \ lit[p])
                                 ELSE lit[p]]
      /\ vf' = IF \E p \in mask : XoCells(pX, pY, n, at(p), wrap) \cap lit[p] # {} THEN 1 ELSE 0
      /\ op' = Xo!Draw(a, b, n, i, wrap)
  BY <1>1 DEF Xo!instruction_DxyN, XoCells, Xo!Before, Xo!BytesOf, BytesOf
<1>6. op'.x = pX /\ op'.y = pY /\ op'.n = n /\ op'.i = i /\ op'.wrap = wrap
  BY <1>5 DEF Xo!Draw
<1>7. \A p \in mask : XoCells(pX, pY, n, at(p), wrap) = cells(p)
  BY <1>2, <1>3, <1>4, XoSprites
<1>8. mask \subseteq Plane
  BY DEF PlanesOfMode
<1>9. ASSUME NEW p \in mask, NEW x \in 0..(width - 1), NEW y \in 0..(height - 1)
      PROVE  Index(x, y, width) \in cells(p)
               <=> /\ Off(x, pX, width, wrap) >= 0 /\ Off(y, pY, height, wrap) >= 0
                   /\ SpriteBit(n, at(p), Off(x, pX, width, wrap), Off(y, pY, height, wrap))
  BY <1>2, <1>3, <1>4, SpriteReaches
<1> HIDE DEF pX, pY, cells, at
<1>10. \A p \in Plane :
         /\ p \in mask => lit'[p] = (lit[p] \ cells(p)) \cup (cells(p) \ lit[p])
         /\ p \notin mask => lit'[p] = lit[p]
  BY <1>5, <1>7
<1>11. Xo!DrawFlipsSprite
  <2> SUFFICES ASSUME NEW p \in Plane, NEW x \in 0..(width - 1), NEW y \in 0..(height - 1)
               PROVE  (Index(x, y, width) \in lit'[p] <=> Index(x, y, width) \in lit[p])
                        <=> ~(/\ Off(x, op'.x, width, op'.wrap) >= 0
                              /\ Off(y, op'.y, height, op'.wrap) >= 0
                              /\ p \in mask
                              /\ Xo!SpriteBit(op'.n,
                                   op'.i + (Xo!Cardinality({q \in mask : q <= p}) - 1)
                                             * Xo!BytesOf(op'.n),
                                   Off(x, op'.x, width, op'.wrap), Off(y, op'.y, height, op'.wrap)))
    BY DEF Xo!DrawFlipsSprite, Xo!Drawn, Off, Xo!Index, Index
  <2>1. CASE p \in mask
    <3>1. Xo!Cardinality({q \in mask : q <= p}) = Cardinality({q \in mask : q <= p})
      BY DEF Xo!Cardinality, Cardinality
    <3>2. Xo!BytesOf(n) = BytesOf(n)
      BY DEF Xo!BytesOf, BytesOf
    <3>3. i + (Xo!Cardinality({q \in mask : q <= p}) - 1) * Xo!BytesOf(n) = at(p)
      BY <2>1, <3>1, <3>2, PlanesBefore DEF at
    <3>4. \A dx, dy : Xo!SpriteBit(n, at(p), dx, dy) <=> SpriteBit(n, at(p), dx, dy)
      BY DEF Xo!SpriteBit, SpriteBit, Xo!RowsOf, RowsOf, Xo!Byte, Byte
    <3>5. (Index(x, y, width) \in lit'[p] <=> Index(x, y, width) \in lit[p])
            <=> Index(x, y, width) \notin cells(p)
      BY <1>10, <2>1
    <3> QED BY <1>6, <1>9, <2>1, <3>3, <3>4, <3>5
  <2>2. CASE p \notin mask
    BY <1>10, <2>2
  <2> QED BY <2>1, <2>2
<1>12. Xo!FlagTellsErasure
  <2>1. \A p \in mask : lit[p] \ lit'[p] = cells(p) \cap lit[p]
    BY <1>8, <1>10
  <2>2. vf' = 1 <=> \E p \in mask : cells(p) \cap lit[p] # {}
    BY <1>5, <1>7
  <2>3. \A p \in Plane \ mask : lit[p] \ lit'[p] = {}
    BY <1>10
  <2> QED BY <1>8, <2>1, <2>2, <2>3 DEF Xo!FlagTellsErasure
<1> QED BY <1>11, <1>12

\* A scroll of the masked planes.
LEMMA XoScrollStep ==
  ASSUME XoSizes, PlanesOfMode, NEW cols \in Int, NEW rows \in Int, Xo!Shifted(cols, rows)
  PROVE  /\ \A p \in mask : Xo!Scrolled(lit[p], lit'[p], width, height, op'.cols, op'.rows)
         /\ \A xy \in (0..(W - 1)) \X (0..(H - 1)) :
              Xo!Composite'[xy] \ mask = Xo!Composite[xy] \ mask
<1>1. /\ lit' = [p \in Plane |-> IF p \in mask THEN Xo!Shift(lit[p], width, height, cols, rows)
                                 ELSE lit[p]]
      /\ op'.cols = cols /\ op'.rows = rows /\ large' = large
  BY DEF Xo!Shifted, Xo!ShiftMasked, Xo!Scroll
<1>2. \A S : Xo!Shift(S, width, height, cols, rows) = Shift(S, width, height, cols, rows)
  BY DEF Xo!Shift, Shift, Xo!Area, Area, Xo!Rotate, Rotate, Xo!Fill, Fill, Xo!Index, Index,
         Xo!Abs, Abs
<1>3. width \in Nat \ {0} /\ height \in Nat \ {0}
  BY MapsFit DEF MapFits, XoSizes, PlanesOfMode
<1>4. ASSUME NEW p \in mask
      PROVE  Xo!Scrolled(lit[p], lit'[p], width, height, op'.cols, op'.rows)
  <2>1. lit'[p] = Shift(lit[p], width, height, cols, rows)
    BY <1>1, <1>2 DEF PlanesOfMode
  <2>2. Scrolled(lit[p], lit'[p], width, height, cols, rows)
    BY <1>3, <2>1, ShiftMoves
  <2> QED BY <1>1, <2>2 DEF Scrolled, Xo!Scrolled, Index, Xo!Index
<1>5. ASSUME NEW xy \in (0..(W - 1)) \X (0..(H - 1))
      PROVE  Xo!Composite'[xy] \ mask = Xo!Composite[xy] \ mask
  <2>1. \A p \in Plane \ mask : lit'[p] = lit[p]
    BY <1>1
  <2> DEFINE idx == IF large THEN Xo!Index(xy[1], xy[2], W)
                    ELSE (xy[2] \div 2) * (W \div 2) + xy[1] \div 2
  <2>2. Xo!Composite[xy] = {p \in Plane : idx \in lit[p]}
    BY DEF Xo!Composite
  <2>3. Xo!Composite'[xy] = {p \in Plane : idx \in lit'[p]}
    BY <1>1 DEF Xo!Composite, Xo!Index
  <2> HIDE DEF idx
  <2> QED BY <2>1, <2>2, <2>3
<1> QED BY <1>4, <1>5

\* A scroll moves the masked planes, and a change of the mode leaves all dark.
LEMMA XoMoveStep ==
  ASSUME XoSizes, PlanesOfMode, Xo!Next
  PROVE  Xo!ScrollMovesPlanes
<1>1. 0 \in Int /\ ScrollW \in Int /\ -ScrollW \in Int /\ \A n \in 1..Rows : n \in Int /\ -n \in Int
  BY DEF XoSizes, TwoSizes
<1>2. CASE \E cols, rows \in Int : Xo!Shifted(cols, rows)
  <2>1. PICK cols \in Int, rows \in Int : Xo!Shifted(cols, rows)
    BY <1>2
  <2>2. op'.name = "scroll"
    BY <2>1 DEF Xo!Shifted, Xo!Scroll
  <2> QED BY <2>1, <2>2, XoScrollStep DEF Xo!ScrollMovesPlanes
<1>3. CASE Xo!reset_system_data
  <2>1. \A p \in Plane : lit'[p] = lit[p] \ Area(width, height)
    BY <1>3 DEF Xo!reset_system_data, Xo!Blank, Xo!Area, Area
  <2>2. op'.name = "none" /\ width' = W \div 2 /\ height' = H \div 2
    BY <1>3 DEF Xo!reset_system_data, Xo!None
  <2>3. Area(width', height') \subseteq Area(width, height)
    BY <2>2, Beginning DEF XoSizes, PlanesOfMode
  <2> QED BY <2>1, <2>2, <2>3 DEF Xo!ScrollMovesPlanes, Xo!Area, Area
<1>4. CASE Xo!instruction_00FE \/ Xo!instruction_00FF
  <2>1. \A p \in Plane : lit'[p] = lit[p] \ Area(width', height')
    BY <1>4 DEF Xo!instruction_00FE, Xo!instruction_00FF, Xo!Resized, Xo!Blank, Xo!Area, Area
  <2>2. op'.name \in {"00FE", "00FF"}
    BY <1>4 DEF Xo!instruction_00FE, Xo!instruction_00FF, Xo!Resized, Xo!Op
  <2> QED BY <2>1, <2>2 DEF Xo!ScrollMovesPlanes, Xo!Area, Area
<1>5. CASE op'.name \in {"00E0", "FN01", "draw"}
  BY <1>5 DEF Xo!ScrollMovesPlanes
<1>6. \/ \E cols, rows \in Int : Xo!Shifted(cols, rows)
      \/ Xo!reset_system_data \/ Xo!instruction_00FE \/ Xo!instruction_00FF
      \/ op'.name \in {"00E0", "FN01", "draw"}
  <2>1. Xo!instruction_00E0 => op'.name = "00E0"
    BY DEF Xo!instruction_00E0, Xo!Op
  <2>2. \A planes : Xo!instruction_FN01(planes) => op'.name = "FN01"
    BY DEF Xo!instruction_FN01, Xo!Op
  <2>3. ASSUME NEW x, NEW y, NEW n, NEW i, NEW wrap, Xo!instruction_DxyN(x, y, n, i, wrap)
        PROVE  op'.name = "draw"
    BY <2>3 DEF Xo!instruction_DxyN, Xo!Draw
  <2> QED BY <1>1, <2>1, <2>2, <2>3
          DEF Xo!Next, Xo!instruction_00CN, Xo!instruction_00DN, Xo!instruction_00FB,
              Xo!instruction_00FC
<1> QED BY <1>2, <1>3, <1>4, <1>5, <1>6

\* For any display, any finite number of planes and any mask: XOCHIP draws the n-th of the
\* masked planes from the n-th part of the sprite's bytes and no other plane, VF tells whether a
\* pixel of any plane was turned off, and scrolls move the masked planes only.
THEOREM PlanesAreDrawnAndMoved ==
  ASSUME XoSizes
  PROVE  Xo!Spec =>
           [][Xo!DrawFlipsSprite /\ Xo!FlagTellsErasure /\ Xo!ScrollMovesPlanes]_(Xo!vars)
<1>1. Xo!Init => PlanesOfMode
  BY DEF Xo!Init, PlanesOfMode, MapIsOfMode, XoSizes
<1>2. PlanesOfMode /\ [Xo!Next]_(Xo!vars) => PlanesOfMode'
  BY PlanesStep
<1>3. PlanesOfMode /\ Xo!Next => Xo!DrawFlipsSprite /\ Xo!FlagTellsErasure /\ Xo!ScrollMovesPlanes
  BY XoDrawStep, XoMoveStep
<1> QED BY <1>1, <1>2, <1>3, PTL DEF Xo!Spec

-----------------------------------------------------------------------------
(* Sprites and zones of CHIP8E and CHIP8X                                  *)

CONSTANTS
  Group, Colors, Extents      \* of ZoneDisplay
VARIABLES
  zone, fine, background      \* of ZoneDisplay

Zones == INSTANCE ZoneDisplay

ZonesSpec == Zones!Init /\ [][Zones!DrawNext \/ Zones!ZoneNext]_(Zones!vars)

\* A map of zones is made of whole bytes and whole groups of rows.
ZoneSizes ==
  /\ Group \in Nat \ {0} /\ Extents \subseteq Nat
  /\ W % ByteW = 0 /\ H % Group = 0

\* The cells of a sprite that is clipped at the edges.
ClippedCells(pX, pY, n, i) ==
  UNION {Zones!draw_byte(pX, pY + r, Byte(i + r)) : r \in {q \in 0..(n - 1) : pY + q < H}}

\* A clipped sprite has its bits, and no others.
LEMMA ClippedReaches ==
  ASSUME NEW pX \in 0..(W - 1), NEW pY \in 0..(H - 1), NEW n \in 0..Rows,
         NEW i \in Nat, i + n <= Len(Memory), NEW x \in 0..(W - 1), NEW y \in 0..(H - 1)
  PROVE  Index(x, y, W) \in ClippedCells(pX, pY, n, i)
           <=> y - pY \in 0..(n - 1) /\ x - pX \in Byte(i + (y - pY))
<1>1. W \in Nat \ {0} /\ H \in Nat \ {0} /\ ByteW \in Nat /\ Rows \in Nat
  BY DimAssumption
<1>2. \A r \in 0..(n - 1) : Byte(i + r) \in SUBSET (0..(ByteW - 1))
  <2>1. \A r \in 0..(n - 1) : i + r + 1 \in 1..Len(Memory)
    BY <1>1, MemoryAssumption
  <2> QED BY <2>1, MemoryAssumption DEF Byte
<1>3. \A r \in 0..(n - 1) :
        Index(x, y, W) \in Zones!draw_byte(pX, pY + r, Byte(i + r))
          <=> y = pY + r /\ x - pX \in Byte(i + r)
  <2> SUFFICES ASSUME NEW r \in 0..(n - 1)
               PROVE  Index(x, y, W) \in Zones!draw_byte(pX, pY + r, Byte(i + r))
                        <=> y = pY + r /\ x - pX \in Byte(i + r)
    OBVIOUS
  <2>0. Byte(i + r) \subseteq 0..(ByteW - 1)
    BY <1>2
  <2>1. \A b \in Byte(i + r) : b \in Nat
    BY <1>1, <2>0
  <2>2. \A b \in Byte(i + r) : pX + b < W => pX + b \in 0..(W - 1)
    BY <1>1, <2>1
  <2>3. pY + r \in Int
    BY <1>1
  <2>4. ASSUME NEW b \in Byte(i + r), pX + b < W
        PROVE  Index(x, y, W) = Zones!Index(pX + b, pY + r, W) <=> x = pX + b /\ y = pY + r
    <3>1. pX + b \in 0..(W - 1) /\ y \in Int
      BY <1>1, <2>2, <2>4
    <3>2. Index(x, y, W) = Index(pX + b, pY + r, W) <=> x = pX + b /\ y = pY + r
      BY <1>1, <2>3, <3>1, Same
    <3> QED BY <3>2 DEF Zones!Index, Index
  <2>5. Index(x, y, W) \in Zones!draw_byte(pX, pY + r, Byte(i + r))
          <=> \E b \in Byte(i + r) : pX + b < W /\ x = pX + b /\ y = pY + r
    BY <2>4 DEF Zones!draw_byte
  <2>6. \A b \in Byte(i + r) : x = pX + b <=> b = x - pX
    BY <1>1, <2>1
  <2>7. x - pX \in Byte(i + r) => pX + (x - pX) < W
    BY <1>1
  <2> QED BY <2>5, <2>6, <2>7
<1>4. Index(x, y, W) \in ClippedCells(pX, pY, n, i)
        <=> \E r \in 0..(n - 1) : pY + r < H /\ y = pY + r /\ x - pX \in Byte(i + r)
  BY <1>3 DEF ClippedCells
<1>5. \A r \in 0..(n - 1) : y = pY + r <=> r = y - pY
  BY <1>1
<1>6. pY + (y - pY) < H
  BY <1>1
<1> QED BY <1>4, <1>5, <1>6

\* Every draw of the two cores is of a clipped sprite.
LEMMA ZoneDrawStep ==
  ASSUME Zones!DrawNext \/ Zones!ZoneNext
  PROVE  Zones!DrawFlipsSprite /\ Zones!FlagTellsErasure
<1> SUFFICES ASSUME op'.name = "draw"
             PROVE  Zones!DrawFlipsSprite /\ Zones!FlagTellsErasure
  BY DEF Zones!DrawFlipsSprite, Zones!FlagTellsErasure
<1>1. ~(Zones!reset_system_data \/ Zones!instruction_00E0 \/ Zones!ZoneNext)
  <2>1. ~Zones!reset_system_data
    BY DEF Zones!reset_system_data, Zones!None
  <2>2. ~(Zones!instruction_00E0 \/ Zones!instruction_02A0)
    BY DEF Zones!instruction_00E0, Zones!instruction_02A0, Zones!Op
  <2>3. \A X, Y, dx, dy, color : ~Zones!color_lores_zone(X, Y, dx, dy, color)
    BY DEF Zones!color_lores_zone
  <2>4. \A X, Y, n, color : ~Zones!color_hires_zone(X, Y, n, color)
    BY DEF Zones!color_hires_zone
  <2> QED BY <2>1, <2>2, <2>3, <2>4 DEF Zones!ZoneNext
<1>2. PICK a \in Xs, b \in Ys, n \in 0..Rows, i \in 0..(Len(Memory) - 1) :
        Zones!instruction_DxyN(a, b, n, i)
  BY <1>1 DEF Zones!DrawNext
<1> DEFINE pX == a % W
           pY == b % H
           cells == ClippedCells(pX, pY, n, i)
<1>3. W \in Nat \ {0} /\ H \in Nat \ {0} /\ ByteW \in Nat /\ Rows \in Nat
  BY DimAssumption
<1>4. pX \in 0..(W - 1) /\ pY \in 0..(H - 1)
  BY <1>3, OriginAssumption
<1>5. i \in Nat /\ i + n <= Len(Memory)
  BY <1>2, MemoryAssumption DEF Zones!instruction_DxyN
<1>6. op'.x = pX /\ op'.y = pY /\ op'.n = n /\ op'.i = i
  BY <1>2 DEF Zones!instruction_DxyN, Zones!Draw
<1>7. lit' = (lit \ cells) \cup (cells \ lit) /\ (vf' = 1 <=> cells \cap lit # {})
  <2>1. \A k : Zones!Byte(k) = Byte(k)
    BY DEF Zones!Byte, Byte
  <2>2. cells = UNION {Zones!draw_byte(a % W, (b % H) + r, Zones!Byte(i + r)) :
                         r \in {q \in 0..(n - 1) : (b % H) + q < H}}
    BY <2>1 DEF ClippedCells
  <2> HIDE DEF cells
  <2>3. lit' = (lit \ cells) \cup (cells \ lit) /\ vf' = IF cells \cap lit # {} THEN 1 ELSE 0
    BY <1>2, <2>2 DEF Zones!instruction_DxyN
  <2> QED BY <2>3
<1> HIDE DEF cells, pX, pY
<1>8. ASSUME NEW x \in 0..(W - 1), NEW y \in 0..(H - 1)
      PROVE  (Index(x, y, W) \in lit' <=> Index(x, y, W) \in lit)
               <=> ~(/\ x - pX >= 0 /\ y - pY >= 0
                     /\ x - pX < ByteW /\ y - pY < n /\ x - pX \in Byte(i + (y - pY)))
  <2>1. Index(x, y, W) \in cells
          <=> y - pY \in 0..(n - 1) /\ x - pX \in Byte(i + (y - pY))
    BY <1>4, <1>5, ClippedReaches DEF cells
  <2>2. y - pY \in 0..(n - 1) <=> y - pY >= 0 /\ y - pY < n
    BY <1>3, <1>4
  <2>3. y - pY \in 0..(n - 1) => Byte(i + (y - pY)) \in SUBSET (0..(ByteW - 1))
    <3>1. y - pY \in 0..(n - 1) => i + (y - pY) + 1 \in 1..Len(Memory)
      BY <1>3, <1>4, <1>5, MemoryAssumption
    <3> QED BY <3>1, MemoryAssumption DEF Byte
  <2>4. y - pY \in 0..(n - 1) /\ x - pX \in Byte(i + (y - pY))
          => x - pX >= 0 /\ x - pX < ByteW
    BY <1>3, <1>4, <2>3
  <2> QED BY <1>7, <2>1, <2>2, <2>4
<1>9. lit \ lit' = cells \cap lit
  BY <1>7
<1>10. Zones!DrawFlipsSprite
  BY <1>6, <1>8 DEF Zones!DrawFlipsSprite, Zones!Drawn, Zones!Index, Index, Zones!Byte, Byte
<1>11. Zones!FlagTellsErasure
  BY <1>7, <1>9 DEF Zones!FlagTellsErasure
<1> QED BY <1>10, <1>11

\* Along a ring of k places, the d + 1 places from X on are those at a distance up to d.
LEMMA RingReaches ==
  ASSUME NEW k \in Nat \ {0}, NEW X \in 0..(k - 1), NEW c \in 0..(k - 1), NEW d \in Nat
  PROVE  (\E p \in 0..d : (X + p) % k = c) <=> (c - X) % k <= d
<1> DEFINE away == IF c < X THEN c - X + k ELSE c - X
<1>1. away \in 0..(k - 1)
  OBVIOUS
<1>2. (c - X) % k = away
  <2>1. \A m \in 0..(k - 1) : m % k = m /\ (m - k) % k = m
    OBVIOUS
  <2>2. c - X = away \/ c - X = away - k
    OBVIOUS
  <2> HIDE DEF away
  <2> QED BY <1>1, <2>1, <2>2
<1>3. \A p \in 0..k : (X + p) % k = (IF X + p < k THEN X + p ELSE X + p - k)
  BY Around
<1>4. \A p \in 0..(k - 1) : (X + p) % k = c <=> p = away
  BY <1>3
<1>5. \A p \in 0..d : p < k \/ away <= p
  BY <1>1
<1> HIDE DEF away
<1>6. ASSUME NEW p \in 0..d, (X + p) % k = c PROVE away <= d
  <2>1. CASE p < k
    BY <1>4, <1>6, <2>1
  <2>2. CASE ~(p < k)
    BY <1>1, <2>2
  <2> QED BY <2>1, <2>2
<1>7. ASSUME away <= d PROVE away \in 0..d /\ (X + away) % k = c
  BY <1>1, <1>4, <1>7
<1> QED BY <1>2, <1>6, <1>7

\* A multiple's remainder is the remainder's multiple.
LEMMA Multiples ==
  ASSUME NEW g \in Nat \ {0}, NEW k \in Nat \ {0}, NEW a \in Nat
  PROVE  (g * a) % (g * k) = g * (a % k)
<1> DEFINE q == a \div k
           r == a % k
<1>1. q \in Int /\ r \in 0..(k - 1) /\ a = q * k + r
  BY Quotient
<1> HIDE DEF q, r
<1>2. g * k \in Nat \ {0} /\ g * r \in 0..(g * k - 1)
  <2>1. \A m \in Nat \ {0} : g * m \in Nat \ {0}
    OBVIOUS
  <2>2. k - r \in Nat \ {0} /\ r \in Nat
    BY <1>1
  <2>3. g * k - g * r = g * (k - r)
    BY <1>1
  <2>4. g * r \in Nat /\ g * k \in Nat \ {0} /\ g * (k - r) \in Nat \ {0}
    BY <2>1, <2>2
  <2> QED BY <2>3, <2>4
<1>3. g * a = q * (g * k) + g * r
  BY <1>1
<1>4. Index(g * r, q, g * k) % (g * k) = g * r
  BY ONLY <1>1, <1>2, Rest
<1> QED BY <1>3, <1>4 DEF Index, r

\* The zones of CHIP8X: their number, and the zone of a pixel.
LEMMA ZonesFit ==
  ASSUME ZoneSizes, NEW x \in 0..(W - 1), NEW y \in 0..(H - 1)
  PROVE  /\ Zones!Columns \in Nat \ {0} /\ H \div Group \in Nat \ {0}
         /\ H = Group * (H \div Group)
         /\ x \div ByteW \in 0..(Zones!Columns - 1) /\ y \div Group \in 0..((H \div Group) - 1)
<1>1. \A n \in Nat \ {0}, s \in Nat \ {0} : \A p \in 0..(s - 1) :
        s % n = 0 => /\ s \div n \in Nat \ {0} /\ s = n * (s \div n)
                     /\ p \div n \in 0..((s \div n) - 1)
  <2> SUFFICES ASSUME NEW n \in Nat \ {0}, NEW s \in Nat \ {0}, NEW p \in 0..(s - 1), s % n = 0
               PROVE  /\ s \div n \in Nat \ {0} /\ s = n * (s \div n)
                      /\ p \div n \in 0..((s \div n) - 1)
    OBVIOUS
  <2> DEFINE k == s \div n
             q == p \div n
             r == p % n
  <2>1. k \in Int /\ s = k * n + 0
    BY Quotient
  <2>2. q \in Int /\ r \in 0..(n - 1) /\ p = q * n + r
    BY Quotient
  <2> HIDE DEF k, q, r
  <2>3. \A d \in Int : (d >= 1 => d * n >= n) /\ (d <= 0 => d * n <= 0)
    OBVIOUS
  <2>4. \A d \in Int : d <= -1 => d * n <= -n
    OBVIOUS
  <2>5. k >= 1
    BY <2>1, <2>3
  <2>6. q >= 0
    BY <2>2, <2>4
  <2>7. q < k
    <3>1. (q - k) * n = p - r - s
      BY <2>1, <2>2
    <3> QED BY <2>1, <2>2, <2>3, <3>1
  <2>8. s = n * k
    BY <2>1
  <2> QED BY <2>1, <2>2, <2>5, <2>6, <2>7, <2>8 DEF k, q
<1>2. W \in Nat \ {0} /\ H \in Nat \ {0} /\ ByteW \in Nat \ {0}
  BY DimAssumption
<1> QED BY <1>1, <1>2 DEF ZoneSizes, Zones!Columns

\* There is a colour for every zone.
ZonesThere == DOMAIN zone = (0..(Zones!Columns - 1)) \X (0..(H - 1))

LEMMA ZonesStay ==
  ZonesThere /\ [Zones!DrawNext \/ Zones!ZoneNext]_(Zones!vars) => ZonesThere'
<1> SUFFICES ASSUME ZonesThere, [Zones!DrawNext \/ Zones!ZoneNext]_(Zones!vars) PROVE ZonesThere'
  OBVIOUS
<1>1. CASE Zones!reset_system_data
  BY <1>1 DEF ZonesThere, Zones!reset_system_data, Zones!ResetZones
<1>2. CASE UNCHANGED zone
  BY <1>2 DEF ZonesThere
<1>3. ASSUME NEW cells, NEW color, zone' = Zones!Paint(cells, color) PROVE ZonesThere'
  BY <1>3 DEF ZonesThere, Zones!Paint
<1>4. CASE Zones!ZoneNext
  BY <1>2, <1>3, <1>4
  DEF Zones!ZoneNext, Zones!instruction_02A0, Zones!color_lores_zone, Zones!color_hires_zone
<1> QED BY <1>1, <1>2, <1>4
        DEF Zones!DrawNext, Zones!instruction_00E0, Zones!instruction_DxyN, Zones!vars

\* What is painted are the cells, with their colour.
LEMMA Painted ==
  ASSUME ZonesThere, NEW cells, NEW color, zone' = Zones!Paint(cells, color),
         NEW c \in 0..(Zones!Columns - 1), NEW r \in 0..(H - 1)
  PROVE  /\ <<c, r>> \in cells => zone'[<<c, r>>] = color
         /\ <<c, r>> \notin cells => zone'[<<c, r>>] = zone[<<c, r>>]
BY DEF ZonesThere, Zones!Paint

\* A rectangle of zones, and a column of rows.
LEMMA ZoneStep ==
  ASSUME ZoneSizes, ZonesThere, Zones!DrawNext \/ Zones!ZoneNext
  PROVE  Zones!ZoneIsPainted
<1> SUFFICES ASSUME op'.name \in {"lores", "hires"},
                    NEW x \in 0..(W - 1), NEW y \in 0..(H - 1)
             PROVE  IF Zones!InPainted(x, y, op') THEN zone'[Zones!Shown(x, y)'] = op'.color
                    ELSE fine' = fine => zone'[Zones!Shown(x, y)'] = zone[Zones!Shown(x, y)']
  BY DEF Zones!ZoneIsPainted, Zones!Pixels, Zones!Shown
<1> DEFINE C == Zones!Columns
           K == H \div Group
           c == x \div ByteW
           g == y \div Group
<1>1. ~(Zones!DrawNext \/ Zones!instruction_02A0)
  BY DEF Zones!DrawNext, Zones!reset_system_data, Zones!instruction_00E0, Zones!instruction_DxyN,
         Zones!instruction_02A0, Zones!None, Zones!Op, Zones!Draw
<1>2. W \in Nat \ {0} /\ H \in Nat \ {0} /\ ByteW \in Nat \ {0} /\ Group \in Nat \ {0}
  BY DimAssumption DEF ZoneSizes
<1>3. C \in Nat \ {0} /\ K \in Nat \ {0} /\ H = Group * K /\ c \in 0..(C - 1) /\ g \in 0..(K - 1)
  BY ZonesFit
<1>4. ASSUME NEW color \in Colors, NEW X \in 0..(C - 1), NEW Y \in 0..(K - 1),
             NEW dx \in Extents, NEW dy \in Extents,
             Zones!color_lores_zone(X, Y, dx, dy, color)
      PROVE  IF Zones!InPainted(x, y, op') THEN zone'[Zones!Shown(x, y)'] = op'.color
             ELSE zone'[Zones!Shown(x, y)'] = zone[Zones!Shown(x, y)']
  <2> DEFINE cells == Zones!LoresCells(X, Y, dx, dy)
             now == <<c, g * Group>>
  <2>1. /\ zone' = Zones!Paint(cells, color) /\ fine' = FALSE
        /\ op'.name = "lores" /\ op'.x = X /\ op'.y = Y /\ op'.dx = dx /\ op'.dy = dy
        /\ op'.color = color
    BY <1>4 DEF Zones!color_lores_zone
  <2>2. Zones!Shown(x, y)' = now
    BY <2>1 DEF Zones!Shown
  <2>3. Zones!InPainted(x, y, op') <=> (c - X) % C <= dx /\ (g - Y) % K <= dy
    BY <2>1 DEF Zones!InPainted
  <2> HIDE DEF C, K, c, g
  <2>4. dx \in Nat /\ dy \in Nat
    BY DEF ZoneSizes
  <2>5. /\ (\E p \in 0..dx : (X + p) % C = c) <=> (c - X) % C <= dx
        /\ (\E p \in 0..dy : (Y + p) % K = g) <=> (g - Y) % K <= dy
    BY <1>3, <2>4, RingReaches
  <2>6. \A p \in 0..dy : (Group * (Y + p)) % H = Group * ((Y + p) % K)
    <3>1. \A p \in 0..dy : Y + p \in Nat
      BY <1>3, <2>4
    <3> QED BY <1>2, <1>3, <3>1, Multiples
  <2>7. \A m \in Int : Group * m = g * Group <=> m = g
    <3>1. \A d \in Int : Group * d = 0 => d = 0
      BY <1>2
    <3>2. \A m \in Int : Group * m - g * Group = Group * (m - g)
      BY <1>2, <1>3
    <3>3. \A m \in Int : m - g \in Int /\ Group * m \in Int /\ g * Group \in Int
      BY <1>2, <1>3
    <3>4. ASSUME NEW m \in Int, Group * m = g * Group PROVE m = g
      <4>1. Group * (m - g) = 0
        BY <3>2, <3>3, <3>4
      <4>2. m - g = 0
        BY <3>1, <3>3, <4>1
      <4> QED BY <1>3, <4>2
    <3>5. Group * g = g * Group
      BY <1>2, <1>3
    <3> QED BY <3>4, <3>5
  <2>8. \A p \in 0..dy : (Y + p) % K \in Int
    BY <1>3, <2>4
  <2>9. now \in cells <=> Zones!InPainted(x, y, op')
    <3>1. now \in cells <=> \E p \in 0..dx, q \in 0..dy :
                              c = (X + p) % C /\ g * Group = (Group * (Y + q)) % H
      BY DEF Zones!LoresCells, C
    <3>2. \A q \in 0..dy : g * Group = (Group * (Y + q)) % H <=> (Y + q) % K = g
      BY <2>6, <2>7, <2>8
    <3> HIDE DEF cells, now
    <3> QED BY <2>3, <2>5, <3>1, <3>2
  <2>10. g * Group \in 0..(H - 1)
    <3>1. K - g \in Nat \ {0} /\ g \in Nat
      BY <1>3
    <3>2. \A m \in Nat \ {0} : Group * m \in Nat \ {0}
      BY <1>2
    <3>3. g * Group \in Nat
      BY <1>2, <3>1
    <3>4. H - g * Group = Group * (K - g)
      BY <1>2, <1>3
    <3> QED BY <1>2, <3>1, <3>2, <3>3, <3>4
  <2>11. /\ now \in cells => zone'[now] = color
         /\ now \notin cells => zone'[now] = zone[now]
    <3> HIDE DEF cells
    <3> QED BY <1>3, <2>1, <2>10, Painted DEF C
  <2> HIDE DEF now, cells
  <2> QED BY <2>1, <2>2, <2>9, <2>11
<1>5. ASSUME NEW color \in Colors, NEW X \in Xs, NEW Y \in Ys, NEW n \in 1..Rows,
             Zones!color_hires_zone(X, Y, n, color)
      PROVE  IF Zones!InPainted(x, y, op') THEN zone'[Zones!Shown(x, y)'] = op'.color
             ELSE zone'[Zones!Shown(x, y)'] = zone[Zones!Shown(x, y)']
  <2> DEFINE cells == {<<(X \div ByteW) % C, (Y + r) % H>> : r \in 0..(n - 1)}
             now == <<c, y>>
  <2>1. /\ zone' = Zones!Paint(cells, color) /\ fine' = TRUE
        /\ op'.name = "hires" /\ op'.x = X /\ op'.y = Y /\ op'.n = n /\ op'.color = color
    BY <1>5 DEF Zones!color_hires_zone
  <2>2. Zones!Shown(x, y)' = now
    BY <2>1 DEF Zones!Shown
  <2>3. Zones!InPainted(x, y, op') <=> c = (X \div ByteW) % C /\ (y - Y) % H < n
    BY <2>1 DEF Zones!InPainted
  <2> HIDE DEF C, K, c, g
  <2>4. Y \in Nat /\ n \in Nat \ {0} /\ n - 1 \in Nat
    BY <1>2, OriginAssumption, DimAssumption
  <2>5. (\E r \in 0..(n - 1) : (Y + r) % H = y) <=> (y - Y) % H <= n - 1
    <3> DEFINE Z == Y % H
               q == Y \div H
    <3>1. Z \in 0..(H - 1) /\ q \in Int /\ Y = q * H + Z
      <4>1. Y \in Int /\ H \in Nat \ {0}
        BY <1>2, <2>4
      <4> QED BY ONLY <4>1, Quotient
    <3>2. (\E r \in 0..(n - 1) : (Z + r) % H = y) <=> (y - Z) % H <= n - 1
      <4> HIDE DEF Z, q
      <4> QED BY <1>2, <2>4, <3>1, RingReaches
    <3>3. \A m \in Int : (q * H + m) % H = m % H
      <4> HIDE DEF Z, q
      <4> SUFFICES ASSUME NEW m \in Int PROVE (q * H + m) % H = m % H
        OBVIOUS
      <4> DEFINE t == m % H
                 u == m \div H
      <4>1. t \in 0..(H - 1) /\ u \in Int /\ m = u * H + t
        BY <1>2, Quotient
      <4> HIDE DEF t, u
      <4>2. q * H + m = (q + u) * H + t
        BY <1>2, <3>1, <4>1
      <4>3. Index(t, q + u, H) % H = t
        <5>1. q + u \in Int
          BY <3>1, <4>1
        <5> QED BY ONLY <1>2, <4>1, <5>1, Rest
      <4> QED BY <4>2, <4>3 DEF Index, t
    <3>4. \A r \in 0..(n - 1) : (Y + r) % H = (Z + r) % H
      <4> HIDE DEF Z, q
      <4>1. \A r \in 0..(n - 1) : Z + r \in Int /\ Y + r = q * H + (Z + r)
        BY <1>2, <2>4, <3>1
      <4> QED BY <3>3, <4>1
    <3>5. (y - Y) % H = (y - Z) % H
      <4> HIDE DEF Z, q
      <4>1. y - Y \in Int /\ y - Z = q * H + (y - Y)
        BY <1>2, <2>4, <3>1
      <4> QED BY <3>3, <4>1
    <3> HIDE DEF Z, q
    <3> QED BY <3>2, <3>4, <3>5
  <2>6. (y - Y) % H \in Int
    BY <1>2, <2>4
  <2>7. now \in cells <=> Zones!InPainted(x, y, op')
    <3>1. now \in cells <=> c = (X \div ByteW) % C /\ \E r \in 0..(n - 1) : (Y + r) % H = y
      OBVIOUS
    <3>2. (y - Y) % H <= n - 1 <=> (y - Y) % H < n
      BY <2>4, <2>6
    <3> HIDE DEF cells, now
    <3> QED BY <2>3, <2>5, <3>1, <3>2
  <2>8. /\ now \in cells => zone'[now] = color
        /\ now \notin cells => zone'[now] = zone[now]
    <3> HIDE DEF cells
    <3> QED BY <1>3, <2>1, Painted DEF C
  <2> HIDE DEF now, cells
  <2> QED BY <2>1, <2>2, <2>7, <2>8
<1> QED BY <1>1, <1>4, <1>5 DEF Zones!ZoneNext

\* For any display and any sprite memory: a sprite of CHIP8E and CHIP8X flips exactly the
\* pixels of its bits up to the edges, and VF tells whether one of them was lit.
THEOREM ClippedSpritesFlip ==
  ZonesSpec => [][Zones!DrawFlipsSprite /\ Zones!FlagTellsErasure]_(Zones!vars)
<1>1. Zones!DrawNext \/ Zones!ZoneNext => Zones!DrawFlipsSprite /\ Zones!FlagTellsErasure
  BY ZoneDrawStep
<1> QED BY <1>1, PTL DEF ZonesSpec

\* For any display of whole bytes and groups of rows: BxyN of CHIP8X gives every pixel of its
\* rectangle, around the edges, the new colour, and no other pixel as long as the kind of the
\* zones stays.
THEOREM ZonesArePainted ==
  ASSUME ZoneSizes
  PROVE  ZonesSpec => [][Zones!ZoneIsPainted]_(Zones!vars)
<1>1. Zones!Init => ZonesThere
  BY DEF Zones!Init, Zones!ResetZones, ZonesThere
<1>2. ZonesThere /\ [Zones!DrawNext \/ Zones!ZoneNext]_(Zones!vars) => ZonesThere'
  BY ZonesStay
<1>3. ZonesThere /\ (Zones!DrawNext \/ Zones!ZoneNext) => Zones!ZoneIsPainted
  BY ZoneStep
<1> QED BY <1>1, <1>2, <1>3, PTL DEF ZonesSpec

-----------------------------------------------------------------------------
(* Sprites in extended mode and doubled, of SCHIP_LEGACY                   *)

\* A column, rounded down to a byte or two, and the rest that its bits are shifted by.
LEMMA SnapIs ==
  ASSUME NEW g \in Nat \ {0}, NEW size \in Nat \ {0}, size % g = 0, NEW a \in Nat
  PROVE  /\ Snap(a % size, g) \in Nat /\ a % g \in 0..(g - 1)
         /\ Snap(a % size, g) + (a % g) = a % size
<1> DEFINE m == a % size
           q == a \div size
           k == size \div g
           d == m \div g
           e == m % g
<1>1. q \in Int /\ m \in 0..(size - 1) /\ a = q * size + m
  BY Quotient
<1>2. k \in Int /\ size = k * g
  <2>1. size \div g \in Int /\ size = (size \div g) * g + (size % g)
    BY Quotient
  <2> QED BY <2>1
<1> HIDE DEF m, q, k
<1>3. m \in Int /\ d \in Int /\ e \in 0..(g - 1) /\ m = d * g + e
  <2>1. m \in Int
    BY <1>1
  <2> QED BY <2>1, Quotient
<1>4. d \in Nat
  <2>1. m >= 0
    BY <1>1
  <2> QED BY <1>3, <2>1
<1> HIDE DEF d, e
<1>5. a = (q * k + d) * g + e
  <2>1. q * (k * g) = (q * k) * g /\ q * k \in Int
    BY <1>1, <1>2
  <2>2. a = (q * k) * g + (d * g + e)
    BY <1>1, <1>2, <1>3, <2>1
  <2>3. (q * k + d) * g = (q * k) * g + d * g
    BY <1>3, <2>1
  <2> DEFINE u == q * k
             t == u * g
             z == d * g
  <2>4. t \in Int /\ z \in Int /\ e \in Int
    BY <1>3, <2>1
  <2> QED BY <2>2, <2>3, <2>4
<1>6. a % g = e
  <2>1. Index(e, q * k + d, g) % g = e
    <3>1. q * k + d \in Int
      BY <1>1, <1>2, <1>3
    <3> QED BY <1>3, <3>1, Rest
  <2> QED BY <1>5, <2>1 DEF Index
<1>7. Snap(m, g) = d * g
  BY DEF Snap, d
<1>8. d * g \in Nat
  BY <1>4
<1> QED BY <1>3, <1>6, <1>7, <1>8 DEF m

\* A row of a sprite in extended mode reaches the places of its bits, from its own column.
LEMMA SingleReaches ==
  ASSUME W % ByteW = 0, NEW x \in Nat, NEW b \in 0..(H - 1), NEW n \in 0..Rows,
         NEW i \in Nat, i + BytesOf(n) <= Len(Memory), NEW r \in 0..(RowsOf(n) - 1),
         NEW p \in 0..(W - 1), NEW q \in 0..(H - 1)
  PROVE  Index(p, q, W) \in ClipColumn(single_bits(i, n, r, x % ByteW), Snap(x % W, ByteW), b)
           <=> q = b /\ p - (x % W) \in RowBits(n, i, r)
<1> DEFINE xb == Snap(x % W, ByteW)
           o == x % ByteW
           bits == single_bits(i, n, r, o)
           px == x % W
<1>1. W \in Nat \ {0} /\ ByteW \in Nat \ {0} /\ Rows \in Nat
  BY DimAssumption
<1>2. xb \in Nat /\ o \in Nat /\ px = xb + o
  <2>1. xb \in Nat /\ o \in 0..(ByteW - 1) /\ xb + o = px
    BY <1>1, SnapIs
  <2> HIDE DEF xb, o, px
  <2> QED BY <1>1, <2>1
<1>3. \A j \in 0..(Len(Memory) - 1) : Byte(j) \in SUBSET (0..(ByteW - 1))
  BY MemoryAssumption DEF Byte
<1> HIDE DEF xb, o, px
<1>4. bits \in SUBSET Nat /\ (p - xb \in bits <=> p - px \in RowBits(n, i, r))
  <2>1. p - xb - o = p - px /\ p - px \in Int /\ p - xb \in Int
    BY <1>1, <1>2
  <2>2. CASE n = 0
    <3>1. i + 2 * r \in 0..(Len(Memory) - 1) /\ i + 2 * r + 1 \in 0..(Len(Memory) - 1)
      BY <1>1, <2>2 DEF BytesOf, RowsOf
    <3> DEFINE A == Byte(i + 2 * r)
               B == Byte(i + 2 * r + 1)
    <3>2. A \in SUBSET (0..(ByteW - 1)) /\ B \in SUBSET (0..(ByteW - 1))
      BY <1>3, <3>1
    <3>3. bits = {c + o : c \in A} \cup {c + ByteW + o : c \in B}
      BY <2>2 DEF single_bits
    <3>4. p - px \in RowBits(n, i, r) <=> p - px \in A \/ p - px - ByteW \in B
      BY <2>1, <2>2, PairOfBytes
    <3> HIDE DEF A, B, bits
    <3>5. \A c \in A \cup B : c \in Nat
      BY <1>1, <3>2
    <3>6. \A c \in A : p - xb = c + o <=> c = p - px
      BY <1>2, <2>1, <3>5
    <3>7. \A c \in B : p - xb = c + ByteW + o <=> c = p - px - ByteW
      BY <1>1, <1>2, <2>1, <3>5
    <3>8. bits \in SUBSET Nat
      BY <1>1, <1>2, <3>3, <3>5
    <3> QED BY <3>3, <3>4, <3>6, <3>7, <3>8
  <2>3. CASE n # 0
    <3>1. i + r \in 0..(Len(Memory) - 1)
      BY <1>1, <2>3 DEF BytesOf, RowsOf
    <3> DEFINE A == Byte(i + r)
    <3>2. A \in SUBSET (0..(ByteW - 1))
      BY <1>3, <3>1
    <3>3. bits = {c + o : c \in A} /\ RowBits(n, i, r) = A
      BY <2>3 DEF single_bits, RowBits
    <3> HIDE DEF A, bits
    <3>4. \A c \in A : c \in Nat
      BY <1>1, <3>2
    <3>5. \A c \in A : p - xb = c + o <=> c = p - px
      BY <1>2, <2>1, <3>4
    <3>6. bits \in SUBSET Nat
      BY <1>2, <3>3, <3>4
    <3> QED BY <3>3, <3>5, <3>6
  <2> QED BY <2>2, <2>3
<1> HIDE DEF bits
<1>5. Index(p, q, W) \in ClipColumn(bits, xb, b) <=> q = b /\ p - xb \in bits
  BY <1>2, <1>4, ClipReaches
<1> QED BY <1>4, <1>5 DEF bits, xb, o, px

\* Two sets of rows, one moved by a distance, have as many members.
LEMMA MovedRows ==
  ASSUME NEW K \in SUBSET Int, IsFiniteSet(K), NEW E \in SUBSET Int, NEW b \in Int,
         \A q \in Int : q \in E <=> q - b \in K
  PROVE  Cardinality(E) = Cardinality(K)
<1> DEFINE f == [r \in K |-> b + r]
<1>1. \A r \in K : r \in Int /\ f[r] \in Int /\ f[r] - b = r
  OBVIOUS
<1>2. f \in [K -> E]
  BY <1>1
<1>3. \A r, s \in K : f[r] = f[s] => r = s
  BY <1>1
<1>4. \A q \in E : q - b \in K /\ f[q - b] = q
  OBVIOUS
<1> HIDE DEF f
<1>5. f \in Bijection(K, E)
  BY <1>2, <1>3, <1>4 DEF Bijection, Injection, Surjection, IsInjective
<1> QED BY <1>5, FS_Bijection DEF ExistsBijection

\* A draw in extended mode flips the bits of its sprite and counts the rows that were hit.
LEMMA SingleDraw ==
  ASSUME W % ByteW = 0, NEW x \in Xs, NEW y \in Ys, NEW n \in 0..Rows,
         NEW i \in 0..(Len(Memory) - 1), i + BytesOf(n) <= Len(Memory), DrawSingle(x, y, n, i)
  PROVE  ExtendedDrawFlipsSprite /\ FlagCountsRows
<1> DEFINE px == x % W
           yb == y % H
           rows == {r \in 0..(RowsOf(n) - 1) : yb + r < H}
           cells(r) == ClipColumn(single_bits(i, n, r, x % ByteW), Snap(x % W, ByteW), yb + r)
           all == UNION {cells(r) : r \in rows}
           hit == {r \in rows : cells(r) \cap lit # {}}
<1>1. W \in Nat \ {0} /\ H \in Nat \ {0} /\ ByteW \in Nat \ {0} /\ RowsOf(n) \in Nat
  BY DimAssumption DEF RowsOf
<1>2. x \in Nat /\ y \in Nat /\ i \in Nat
  BY OriginAssumption
<1>3. px \in 0..(W - 1) /\ yb \in 0..(H - 1)
  BY <1>1, <1>2
<1>4. /\ hires /\ lit' = (lit \ all) \cup (all \ lit) /\ vf' = Cardinality(hit)
      /\ op'.name = "draw" /\ op'.x = x /\ op'.y = y /\ op'.n = n /\ op'.i = i
  BY DEF DrawSingle, Draw, CountRows
<1>5. ASSUME NEW r \in rows
      PROVE  /\ r \in 0..(RowsOf(n) - 1) /\ r \in Int /\ yb + r \in 0..(H - 1)
             /\ \A p \in 0..(W - 1), q \in 0..(H - 1) :
                  Index(p, q, W) \in cells(r) <=> q = yb + r /\ p - px \in RowBits(n, i, r)
             /\ \A k \in cells(r) : \E p \in 0..(W - 1) : k = Index(p, yb + r, W)
  <2>1. r \in 0..(RowsOf(n) - 1) /\ r \in Int /\ yb + r \in 0..(H - 1)
    BY <1>1, <1>3
  <2>2. \A p \in 0..(W - 1), q \in 0..(H - 1) :
          Index(p, q, W) \in cells(r) <=> q = yb + r /\ p - px \in RowBits(n, i, r)
    <3> HIDE DEF yb
    <3> QED BY <1>2, <2>1, SingleReaches
  <2>3. ASSUME NEW k \in cells(r) PROVE \E p \in 0..(W - 1) : k = Index(p, yb + r, W)
    <3> DEFINE bits == single_bits(i, n, r, x % ByteW)
               xb == Snap(x % W, ByteW)
    <3>1. PICK c \in bits : xb + c < W /\ k = Index(xb + c, yb + r, W)
      BY DEF ClipColumn
    <3>2. xb \in Nat /\ x % ByteW \in Nat
      <4>1. xb \in Nat /\ x % ByteW \in 0..(ByteW - 1)
        BY <1>1, <1>2, SnapIs
      <4> HIDE DEF xb
      <4> QED BY <1>1, <1>2, <4>1
    <3>3. c \in Nat
      <4>1. \A j \in 0..(Len(Memory) - 1) : Byte(j) \in SUBSET (0..(ByteW - 1))
        BY MemoryAssumption DEF Byte
      <4> DEFINE o == x % ByteW
      <4>4. o \in Nat
        BY <3>2
      <4> HIDE DEF o
      <4>2. CASE n = 0
        <5>1. i + 2 * r \in 0..(Len(Memory) - 1) /\ i + 2 * r + 1 \in 0..(Len(Memory) - 1)
          BY <1>1, <1>2, <2>1, <4>2, SMTT(20) DEF BytesOf, RowsOf
        <5>2. \A a \in Byte(i + 2 * r) \cup Byte(i + 2 * r + 1) : a \in Nat
          BY <1>1, <4>1, <5>1
        <5>3. c \in {a + o : a \in Byte(i + 2 * r)} \cup {a + ByteW + o : a \in Byte(i + 2 * r + 1)}
          BY <4>2 DEF single_bits, o
        <5>4. \A a \in Nat : a + o \in Nat /\ a + ByteW + o \in Nat
          BY <1>1, <4>4
        <5> QED BY <5>2, <5>3, <5>4
      <4>3. CASE n # 0
        <5>1. i + r \in 0..(Len(Memory) - 1)
          BY <1>1, <1>2, <2>1, <4>3 DEF BytesOf, RowsOf
        <5>2. \A a \in Byte(i + r) : a \in Nat
          BY <1>1, <4>1, <5>1
        <5>3. c \in {a + o : a \in Byte(i + r)}
          BY <4>3 DEF single_bits, o
        <5> QED BY <4>4, <5>2, <5>3
      <4> QED BY <4>2, <4>3
    <3> HIDE DEF xb, bits
    <3>4. xb + c \in 0..(W - 1)
      BY <1>1, <3>1, <3>2, <3>3
    <3> QED BY <3>1, <3>4
  <2> QED BY <2>1, <2>2, <2>3
<1> HIDE DEF cells, px
<1>6. ASSUME NEW p \in 0..(W - 1), NEW q \in 0..(H - 1)
      PROVE  Index(p, q, W) \in all <=>
               p - px >= 0 /\ q - yb >= 0 /\ SpriteBit(n, i, p - px, q - yb)
  <2>1. p \in Int /\ q \in Int /\ px \in Int /\ yb \in Int /\ q < H
    BY <1>1, <1>3
  <2> HIDE DEF yb
  <2>2. q - yb \in rows <=> q - yb >= 0 /\ q - yb < RowsOf(n)
    BY <1>1, <2>1
  <2>3. Index(p, q, W) \in all <=> q - yb \in rows /\ p - px \in RowBits(n, i, q - yb)
    <3>1. Index(p, q, W) \in all <=>
            \E r \in rows : q = yb + r /\ p - px \in RowBits(n, i, r)
      BY <1>5
    <3>2. \A r \in rows : q = yb + r <=> r = q - yb
      BY <2>1
    <3> QED BY <3>1, <3>2
  <2>4. q - yb \in rows =>
          (p - px \in RowBits(n, i, q - yb) <=> p - px >= 0 /\ SpriteBit(n, i, p - px, q - yb))
    <3>1. q - yb \in rows => q - yb \in 0..(RowsOf(n) - 1)
      OBVIOUS
    <3>2. p - px \in Int
      BY <2>1
    <3> QED BY <1>2, <3>1, <3>2, BitsOfRow
  <2>5. SpriteBit(n, i, p - px, q - yb) => q - yb < RowsOf(n)
    BY DEF SpriteBit
  <2> QED BY <2>2, <2>3, <2>4, <2>5
<1>7. ExtendedDrawFlipsSprite
  <2> HIDE DEF all, yb
  <2>1. \A p \in 0..(W - 1), q \in 0..(H - 1) :
          (Index(p, q, W) \in lit' <=> Index(p, q, W) \in lit)
            <=> ~(p - px >= 0 /\ q - yb >= 0 /\ SpriteBit(n, i, p - px, q - yb))
    BY <1>4, <1>6
  <2> QED BY <1>4, <2>1 DEF ExtendedDrawFlipsSprite, Drawn, px, yb
<1>8. FlagCountsRows
  <2> DEFINE Erased(q) == \E p \in 0..(W - 1) : Index(p, q, W) \in lit \ lit'
             E == {q \in 0..(H - 1) : Erased(q)}
  <2>1. lit \ lit' = lit \cap all
    BY <1>4
  <2>2. ASSUME NEW q \in Int PROVE q \in E <=> q - yb \in hit
    <3>0. yb \in Int
      BY <1>3
    <3>1. ASSUME q \in E PROVE q - yb \in hit
      <4>1. PICK p \in 0..(W - 1) : Index(p, q, W) \in lit \cap all
        BY <2>1, <3>1
      <4>2. PICK r \in rows : Index(p, q, W) \in cells(r)
        BY <4>1
      <4>3. q = yb + r /\ r \in Int
        BY <1>5, <3>1, <4>2
      <4>4. r = q - yb
        <5> HIDE DEF yb
        <5> QED BY <3>0, <4>3
      <4> QED BY <4>1, <4>2, <4>4
    <3>2. ASSUME q - yb \in hit PROVE q \in E
      <4> DEFINE r == q - yb
      <4>1. r \in rows /\ yb + r = q
        <5>1. r \in rows
          BY <3>2
        <5> HIDE DEF yb
        <5> QED BY <3>0, <5>1
      <4>2. PICK k \in cells(r) : k \in lit
        BY <3>2
      <4> HIDE DEF r
      <4>3. q \in 0..(H - 1) /\ \E p \in 0..(W - 1) : k = Index(p, q, W)
        BY <1>5, <4>1, <4>2
      <4>4. k \in lit \cap all
        BY <4>1, <4>2
      <4> QED BY <2>1, <4>3, <4>4
    <3> QED BY <3>1, <3>2
  <2>3. hit \in SUBSET Int /\ E \in SUBSET Int /\ yb \in Int
    BY <1>3, <1>5
  <2>4. IsFiniteSet(hit)
    <3>1. IsFiniteSet(0..(RowsOf(n) - 1))
      BY <1>1, FS_Interval
    <3>2. hit \in SUBSET (0..(RowsOf(n) - 1))
      OBVIOUS
    <3> QED BY <3>1, <3>2, FS_Subset
  <2> HIDE DEF hit, E, yb
  <2>5. Cardinality(E) = Cardinality(hit)
    BY <2>2, <2>3, <2>4, MovedRows
  <2> QED BY <1>4, <2>5 DEF FlagCountsRows, E
<1> QED BY <1>7, <1>8

\* The bits of a doubled byte lie in its zone, in pairs from twice the sprite's column.
LEMMA DoubledReaches ==
  ASSUME W % (2 * ByteW) = 0, NEW x \in Nat, NEW B \in SUBSET (0..(ByteW - 1)),
         NEW p \in 0..(W - 1)
  PROVE  LET xb == Snap((2 * x) % W, 2 * ByteW)
             px == (2 * x) % W
             bits == {b + 2 * (x % ByteW) : b \in bit_dup(B)}
         IN  /\ xb \in Nat /\ px \in 0..(W - 1) /\ bits \in SUBSET (0..(Zone - 1))
             /\ p - xb \in bits <=>
                  p - px >= 0 /\ p - px < 2 * ByteW /\ (p - px) \div 2 \in B
<1> DEFINE xb == Snap((2 * x) % W, 2 * ByteW)
           px == (2 * x) % W
           o == x % ByteW
           bits == {b + 2 * o : b \in bit_dup(B)}
           e == (p - xb) \div 2
           d == (p - xb) % 2
<1>1. W \in Nat \ {0} /\ ByteW \in Nat \ {0} /\ 2 * ByteW \in Nat \ {0} /\ 2 * x \in Nat
  BY DimAssumption
<1>2. px \in 0..(W - 1) /\ o \in 0..(ByteW - 1)
  BY <1>1
<1>3. xb \in Nat /\ px = xb + 2 * o
  <2>1. xb \in Nat /\ xb + ((2 * x) % (2 * ByteW)) = px
    BY <1>1, SnapIs
  <2>2. (2 * x) % (2 * ByteW) = 2 * o
    <3>1. 2 \in Nat \ {0} /\ ByteW \in Nat \ {0}
      BY <1>1
    <3> QED BY ONLY <3>1, x \in Nat, Multiples DEF o
  <2> QED BY <2>1, <2>2
<1> HIDE DEF xb, px, o
<1>4. o \in Nat /\ p \in Int /\ p - xb \in Int
  BY <1>1, <1>2, <1>3
<1>5. e \in Int /\ d \in 0..1 /\ p - xb = 2 * e + d
  BY <1>4
<1> HIDE DEF e, d
<1>6. B \in SUBSET Nat
  BY <1>1
<1>7. p - xb \in bits <=> e - o \in B
  <2>1. 2 * e + d \in bits <=> e - o \in B
    BY <1>4, <1>5, <1>6, DoubledBits
  <2> HIDE DEF bits
  <2> QED BY <1>5, <2>1
<1>8. p - px = 2 * (e - o) + d /\ (p - px) \div 2 = e - o
  <2>1. p - px = 2 * (e - o) + d
    BY <1>3, <1>4, <1>5
  <2>2. \A k \in Int : (2 * k + d) \div 2 = k
    BY <1>5
  <2> QED BY <1>4, <1>5, <2>1, <2>2
<1>9. e - o \in B => p - px >= 0 /\ p - px < 2 * ByteW
  <2>1. e - o \in B => e - o >= 0 /\ e - o <= ByteW - 1
    BY <1>1, <1>4, <1>5
  <2> QED BY <1>1, <1>4, <1>5, <1>8, <2>1
<1>10. bits \in SUBSET (0..(Zone - 1))
  <2>1. \A a \in bit_dup(B) : a \in 0..(2 * ByteW - 1)
    BY <1>1 DEF bit_dup
  <2>2. \A a \in 0..(2 * ByteW - 1) : a + 2 * o \in 0..(Zone - 1)
    BY <1>1, <1>2 DEF Zone
  <2> QED BY <2>1, <2>2
<1> QED BY <1>2, <1>3, <1>7, <1>8, <1>9, <1>10 DEF xb, px, o

\* A draw without the extended mode flips pairs of pixels of the upper rows, and its flag
\* tells whether one of them was lit.
LEMMA DoubleDraw ==
  ASSUME W % (2 * ByteW) = 0, H % 2 = 0, NEW x \in Xs, NEW y \in Ys, NEW n \in 0..Rows,
         NEW i \in 0..(Len(Memory) - 1), i + RowsOf(n) <= Len(Memory), DrawDouble(x, y, n, i)
  PROVE  DoubledDrawFlipsSprite /\ FlagCountsRows
<1> DEFINE xb == Snap((2 * x) % W, 2 * ByteW)
           px == (2 * x) % W
           yb == YBegin(y)
           rows == {r \in 0..(RowsOf(n) - 1) : yb + 2 * r + 1 < H}
           Up(r) == yb + 2 * r
           bits(r) == {b + 2 * (x % ByteW) : b \in bit_dup(Byte(i + r))}
           cells(r) == ClipColumn(bits(r), xb, Up(r))
           up(r) == ClipColumn(0..(Zone - 1), xb, Up(r))
           flipped(r) == ((lit \ cells(r)) \cup (cells(r) \ lit)) \cap up(r)
           copied(r) == flipped(r) \cup {k + W : k \in flipped(r)}
           touched(r) == up(r) \cup {k + W : k \in up(r)}
           Sets(p, r) == /\ p - px >= 0 /\ p - px < 2 * ByteW
                        /\ (p - px) \div 2 \in Byte(i + r)
<1>1. /\ ~hires
      /\ lit' = (lit \ UNION {touched(r) : r \in rows}) \cup UNION {copied(r) : r \in rows}
      /\ vf' = IF \E r \in rows : cells(r) \cap lit # {} THEN 1 ELSE 0
      /\ op'.name = "draw" /\ op'.x = x /\ op'.y = y /\ op'.n = n /\ op'.i = i
  BY DEF DrawDouble, Draw
<1>2. /\ W \in Nat \ {0} /\ H \in Nat \ {0} /\ ByteW \in Nat \ {0} /\ Rows \in Nat \ {0}
      /\ RowsOf(n) \in Nat
  BY DimAssumption DEF RowsOf
<1>3. x \in Nat /\ y \in Nat /\ i \in Nat
  BY OriginAssumption
<1>4. PICK ye \in Nat : yb = 2 * ye
  BY <1>2, <1>3, EvenRemainder DEF YBegin
<1>5. PICK h \in Nat : H = 2 * h
  <2>1. H = 2 * (H \div 2) /\ H \div 2 \in Nat
    BY <1>2
  <2> QED BY <2>1
<1> HIDE DEF yb
<1>6. ASSUME NEW r \in rows
      PROVE  /\ r \in Nat /\ r < RowsOf(n) /\ Up(r) = 2 * (ye + r) /\ Up(r) \in 0..(H - 1)
             /\ Up(r) + 1 \in 0..(H - 1)
             /\ Byte(i + r) \in SUBSET (0..(ByteW - 1))
  <2>1. r \in Nat /\ r < RowsOf(n)
    BY <1>2
  <2>2. i + r + 1 \in 1..Len(Memory)
    BY <1>2, <1>3, <2>1, MemoryAssumption
  <2>3. Byte(i + r) \in SUBSET (0..(ByteW - 1))
    BY <2>2, MemoryAssumption DEF Byte
  <2>4. Up(r) = 2 * (ye + r) /\ Up(r) \in 0..(H - 1) /\ Up(r) + 1 \in 0..(H - 1)
    BY <1>2, <1>4, <2>1
  <2> QED BY <2>1, <2>3, <2>4
<1>7. ASSUME NEW r \in rows, NEW p \in 0..(W - 1)
      PROVE  /\ xb \in Nat /\ bits(r) \in SUBSET (0..(Zone - 1))
             /\ p - xb \in bits(r) <=> Sets(p, r)
  BY <1>3, <1>6, DoubledReaches
<1> HIDE DEF bits, rows, Up, px, xb
<1>8. ASSUME NEW r \in rows, NEW p \in 0..(W - 1), NEW q \in 0..(H - 1)
      PROVE  /\ Index(p, q, W) \in up(r) <=> q = Up(r) /\ p - xb \in 0..(Zone - 1)
             /\ Index(p, q, W) \in cells(r) <=> q = Up(r) /\ Sets(p, r)
             /\ Index(p, q, W) \in cells(r) => Index(p, q, W) \in up(r)
  <2>1. xb \in Nat /\ Up(r) \in 0..(H - 1) /\ bits(r) \in SUBSET (0..(Zone - 1))
    BY <1>6, <1>7
  <2>2. 0..(Zone - 1) \in SUBSET Nat /\ bits(r) \in SUBSET Nat
    BY <1>2, <2>1 DEF Zone
  <2>3. Index(p, q, W) \in up(r) <=> q = Up(r) /\ p - xb \in 0..(Zone - 1)
    BY ONLY <2>1, <2>2, p \in 0..(W - 1), q \in 0..(H - 1), ClipReaches
  <2>4. Index(p, q, W) \in cells(r) <=> q = Up(r) /\ p - xb \in bits(r)
    BY ONLY <2>1, <2>2, p \in 0..(W - 1), q \in 0..(H - 1), ClipReaches
  <2> QED BY <1>7, <2>1, <2>3, <2>4
<1>9. ASSUME NEW r \in rows, NEW C \in SUBSET (0..(Zone - 1)), NEW k \in ClipColumn(C, xb, Up(r))
      PROVE  \E p \in 0..(W - 1) : k = Index(p, Up(r), W) /\ k + W = Index(p, Up(r) + 1, W)
  <2>1. PICK c \in C : xb + c < W /\ k = Index(xb + c, Up(r), W)
    BY DEF ClipColumn
  <2>2. xb \in Nat /\ c \in Nat
    <3>1. 0 \in 0..(W - 1)
      BY <1>2
    <3> QED BY <1>7, <3>1
  <2>3. xb + c \in 0..(W - 1) /\ Up(r) \in Int
    BY <1>2, <1>6, <2>1, <2>2
  <2>4. k + W = Index(xb + c, Up(r) + 1, W)
    <3>1. (Up(r) + 1) * W = Up(r) * W + W /\ Up(r) * W \in Int
      <4>1. \A a \in Int : (a + 1) * W = a * W + W /\ a * W \in Int
        BY <1>2
      <4> QED BY <2>3, <4>1
    <3> DEFINE t == Up(r) * W
    <3>2. k = t + (xb + c) /\ Index(xb + c, Up(r) + 1, W) = (t + W) + (xb + c) /\ t \in Int
      BY <2>1, <3>1 DEF Index
    <3> HIDE DEF t
    <3> QED BY <1>2, <2>3, <3>2
  <2> QED BY <2>1, <2>3, <2>4
<1>10. ASSUME NEW r \in rows, NEW p \in 0..(W - 1), NEW q \in 0..(H - 1),
              Index(p, q, W) \in touched(r) \/ Index(p, q, W) \in copied(r)
       PROVE  q = Up(r) \/ q = Up(r) + 1
  <2>1. CASE Index(p, q, W) \in up(r)
    <3> HIDE DEF up
    <3> QED BY <1>8, <2>1
  <2>2. CASE Index(p, q, W) \notin up(r)
    <3>1. PICK k \in up(r) : Index(p, q, W) = k + W
      BY <1>10, <2>2
    <3>2. PICK a \in 0..(W - 1) : k + W = Index(a, Up(r) + 1, W)
      BY <1>9
    <3>3. Up(r) + 1 \in Int /\ q \in Int
      BY <1>6
    <3> QED BY <1>2, <3>1, <3>2, <3>3, Same
  <2> QED BY <2>1, <2>2
<1>11. ASSUME NEW p \in 0..(W - 1), NEW q \in 0..(H - 1),
              \A r \in rows : q # Up(r) /\ q # Up(r) + 1
       PROVE  Index(p, q, W) \in lit' <=> Index(p, q, W) \in lit
  <2>1. \A r \in rows : Index(p, q, W) \notin touched(r) /\ Index(p, q, W) \notin copied(r)
    BY <1>10, <1>11
  <2> HIDE DEF touched, copied
  <2> QED BY <1>1, <2>1
<1>12. ASSUME NEW r \in rows, NEW p \in 0..(W - 1)
       PROVE  (Index(p, Up(r), W) \in lit') <=> ((Index(p, Up(r), W) \in lit) # Sets(p, r))
  <2> DEFINE at == Index(p, Up(r), W)
  <2>1. Up(r) \in 0..(H - 1)
    BY <1>6
  <2>2. \A s \in rows : Up(r) # Up(s) + 1 /\ (Up(s) = Up(r) => s = r)
    <3>1. ASSUME NEW s \in rows PROVE Up(r) # Up(s) + 1 /\ (Up(s) = Up(r) => s = r)
      <4>1. s \in Nat /\ Up(s) = 2 * (ye + s) /\ r \in Nat /\ Up(r) = 2 * (ye + r)
        BY <1>6
      <4> QED BY ONLY <4>1, ye \in Nat
    <3> QED BY <3>1
  <2>3. \A s \in rows : at \in touched(s) \/ at \in copied(s) => s = r
    <3> HIDE DEF touched, copied
    <3> QED BY <1>10, <2>1, <2>2
  <2>4. at \notin {k + W : k \in up(r)}
    <3> SUFFICES ASSUME NEW k \in up(r), at = k + W PROVE FALSE
      OBVIOUS
    <3>1. PICK a \in 0..(W - 1) : k + W = Index(a, Up(r) + 1, W)
      BY <1>9
    <3>2. Up(r) \in Int /\ Up(r) + 1 \in Int /\ Up(r) # Up(r) + 1
      BY <1>6
    <3> QED BY <1>2, <3>1, <3>2, Same
  <2>5. /\ at \in touched(r) <=> at \in up(r)
        /\ at \in copied(r) <=> at \in flipped(r)
    <3>1. flipped(r) \subseteq up(r)
      OBVIOUS
    <3> HIDE DEF flipped, up
    <3> QED BY <2>4, <3>1
  <2>6. at \in lit' <=> (at \in lit /\ at \notin up(r)) \/ at \in flipped(r)
    <3> HIDE DEF touched, copied, flipped, up, at
    <3> QED BY <1>1, <2>3, <2>5
  <2>7. at \in cells(r) => at \in up(r)
    <3> HIDE DEF cells, up
    <3> QED BY <1>8, <2>1
  <2>8. at \in cells(r) <=> Sets(p, r)
    <3> HIDE DEF cells, Sets
    <3> QED BY <1>8, <2>1
  <2> HIDE DEF cells, up, Sets, at
  <2>9. at \in flipped(r) <=> at \in up(r) /\ ~(at \in lit <=> at \in cells(r))
    OBVIOUS
  <2>10. at \in lit' <=> ~(at \in lit <=> at \in cells(r))
    BY <2>6, <2>7, <2>9
  <2>11. Sets(p, r) \in BOOLEAN
    BY DEF Sets
  <2> QED BY <2>8, <2>10, <2>11 DEF at
<1>13. ASSUME NEW q \in 0..(H - 1), q % 2 = 0,
              q - yb >= 0, q - yb < 2 * RowsOf(n)
       PROVE  (q - yb) \div 2 \in rows /\ q = Up((q - yb) \div 2)
  <2>1. PICK k \in Int : q = 2 * k
    <3>1. q = 2 * (q \div 2) /\ q \div 2 \in Int
      BY <1>13
    <3> QED BY <3>1
  <2>2. (q - yb) \div 2 = k - ye
    <3>1. q - yb = 2 * (k - ye) /\ k - ye \in Int
      BY <1>4, <2>1
    <3>2. \A a \in Int : (2 * a) \div 2 = a
      OBVIOUS
    <3> QED BY <3>1, <3>2
  <2>3. k - ye \in 0..(RowsOf(n) - 1) /\ yb + 2 * (k - ye) = q /\ q + 1 < H
    BY <1>2, <1>4, <1>5, <1>13, <2>1
  <2> QED BY <2>2, <2>3 DEF rows, Up
<1>14. \A r \in rows : Up(r) % 2 = 0 /\ Up(r) - yb = 2 * r
  <2> SUFFICES ASSUME NEW r \in rows PROVE Up(r) % 2 = 0 /\ Up(r) - yb = 2 * r
    OBVIOUS
  <2>1. r \in Nat /\ Up(r) = 2 * (ye + r)
    BY <1>6
  <2>2. \A a \in Nat : (2 * a) % 2 = 0
    OBVIOUS
  <2>3. ye + r \in Nat
    BY <2>1
  <2> QED BY <1>4, <2>1, <2>2, <2>3
<1> HIDE DEF cells, Sets
<1>15. DoubledDrawFlipsSprite
  <2>1. ASSUME NEW p \in 0..(W - 1), NEW q \in 0..(H - 1)
        PROVE  LET dx == p - px
                   dy == q - yb
                   flips == (Index(p, q, W) \in lit') # (Index(p, q, W) \in lit)
               IN  IF dy >= 0 /\ dy < 2 * RowsOf(n)
                   THEN q % 2 = 0 =>
                          (flips <=> /\ dx >= 0 /\ dx < 2 * ByteW
                                     /\ dx \div 2 \in Byte(i + dy \div 2))
                   ELSE ~flips
    <3> DEFINE dy == q - yb
               flips == (Index(p, q, W) \in lit') # (Index(p, q, W) \in lit)
    <3>1. ASSUME dy >= 0, dy < 2 * RowsOf(n), q % 2 = 0 PROVE flips <=> Sets(p, dy \div 2)
      <4>1. dy \div 2 \in rows /\ q = Up(dy \div 2)
        BY <1>13, <3>1
      <4>2. (Index(p, q, W) \in lit') <=> ((Index(p, q, W) \in lit) # Sets(p, dy \div 2))
        <5> DEFINE r == dy \div 2
        <5>1. r \in rows /\ q = Up(r)
          BY <4>1
        <5> HIDE DEF r
        <5>2. (Index(p, Up(r), W) \in lit') <=> ((Index(p, Up(r), W) \in lit) # Sets(p, r))
          BY <1>12, <5>1
        <5> QED BY <5>1, <5>2 DEF r
      <4>3. Sets(p, dy \div 2) \in BOOLEAN
        BY DEF Sets
      <4> QED BY <4>2, <4>3
    <3>2. ASSUME ~(dy >= 0 /\ dy < 2 * RowsOf(n)) PROVE ~flips
      <4>1. ASSUME NEW r \in rows PROVE q # Up(r) /\ q # Up(r) + 1
        <5>1. r \in Nat /\ r < RowsOf(n) /\ Up(r) = 2 * (ye + r)
          BY <1>6
        <5> QED BY <1>2, <1>4, <3>2, <5>1
      <4> QED BY <1>11, <4>1
    <3> QED BY <3>1, <3>2 DEF Sets
  <2> QED BY <1>1, <2>1 DEF DoubledDrawFlipsSprite, px, yb, YBegin
<1>16. FlagCountsRows
  <2> DEFINE Erased(q) == \E p \in 0..(W - 1) : Index(p, q, W) \in lit \ lit'
             E == {q \in 0..(H - 1) : Erased(q)}
  <2>1. ASSUME NEW r \in rows, cells(r) \cap lit # {} PROVE \E q \in E : q % 2 = 0
    <3>1. PICK k \in cells(r) : k \in lit
      BY <2>1
    <3>2. PICK p \in 0..(W - 1) : k = Index(p, Up(r), W)
      <4>1. 0 \in 0..(W - 1)
        BY <1>2
      <4>2. bits(r) \in SUBSET (0..(Zone - 1))
        BY <1>7, <4>1
      <4> QED BY <1>9, <3>1, <4>2 DEF cells
    <3>3. Up(r) \in 0..(H - 1)
      BY <1>6
    <3>4. Sets(p, r)
      BY <1>8, <3>1, <3>2, <3>3
    <3>5. k \notin lit'
      BY <1>12, <3>1, <3>2, <3>4
    <3>6. Up(r) \in E
      BY <3>1, <3>2, <3>3, <3>5
    <3> QED BY <1>14, <3>6
  <2>2. ASSUME NEW q \in E, q % 2 = 0 PROVE \E r \in rows : cells(r) \cap lit # {}
    <3>1. PICK p \in 0..(W - 1) : Index(p, q, W) \in lit /\ Index(p, q, W) \notin lit'
      OBVIOUS
    <3>2. PICK r \in rows : q = Up(r) \/ q = Up(r) + 1
      BY <1>11, <3>1
    <3>3. q = Up(r)
      <4>1. Up(r) % 2 = 0 /\ Up(r) \in Int
        BY <1>6, <1>14
      <4> QED BY <2>2, <3>2, <4>1
    <3>4. Sets(p, r)
      BY <1>12, <3>1, <3>3
    <3>5. Index(p, q, W) \in cells(r)
      BY <1>8, <3>3, <3>4
    <3> QED BY <3>1, <3>5
  <2> QED BY <1>1, <2>1, <2>2 DEF FlagCountsRows
<1> QED BY <1>15, <1>16

\* For any display of SCHIP_LEGACY that is a multiple of two bytes wide and evenly high: a
\* sprite flips exactly the pixels of its bits in extended mode, and those of the doubled bits
\* on the upper rows without it, and VF counts the rows that were hit, or tells whether one was.
THEOREM LegacySpritesFlip ==
  ASSUME W % (2 * ByteW) = 0, H % 2 = 0
  PROVE  Spec => [][ExtendedDrawFlipsSprite /\ DoubledDrawFlipsSprite /\ FlagCountsRows]_vars
<1>1. W % ByteW = 0
  <2>1. W \in Int /\ ByteW \in Nat \ {0} /\ 2 * ByteW \in Nat \ {0}
    BY DimAssumption
  <2> DEFINE k == W \div (2 * ByteW)
  <2>2. k \in Int /\ W = k * (2 * ByteW) + (W % (2 * ByteW))
    BY <2>1, Quotient
  <2> HIDE DEF k
  <2>3. W = Index(0, 2 * k, ByteW) /\ 2 * k \in Int /\ 0 \in 0..(ByteW - 1)
    BY <2>1, <2>2 DEF Index
  <2> QED BY <2>1, <2>3, Rest
<1>2. Next => ExtendedDrawFlipsSprite /\ DoubledDrawFlipsSprite /\ FlagCountsRows
  <2> SUFFICES ASSUME Next, op'.name = "draw"
               PROVE  ExtendedDrawFlipsSprite /\ DoubledDrawFlipsSprite /\ FlagCountsRows
    BY DEF ExtendedDrawFlipsSprite, DoubledDrawFlipsSprite, FlagCountsRows
  <2>1. ~(reset_system_data \/ instruction_00E0 \/ instruction_00FE \/ instruction_00FF)
    BY DEF reset_system_data, instruction_00E0, instruction_00FE, instruction_00FF, Op, None
  <2>2. ~(instruction_00FB \/ instruction_00FC \/ \E n \in 1..Rows : instruction_00CN(n))
    BY DEF instruction_00FB, instruction_00FC, instruction_00CN, Scroll
  <2>3. PICK x \in Xs, y \in Ys, n \in 0..Rows :
          \E i \in 0..(Len(Memory) - 1) : instruction_DxyN(x, y, n, i)
    BY <2>1, <2>2 DEF Next
  <2>4. PICK i \in 0..(Len(Memory) - 1) : instruction_DxyN(x, y, n, i)
    BY <2>3
  <2>5. CASE i + BytesOf(n) <= Len(Memory) /\ DrawSingle(x, y, n, i)
    <3>1. ExtendedDrawFlipsSprite /\ FlagCountsRows
      BY <1>1, <2>5, SingleDraw
    <3>2. hires
      BY <2>5 DEF DrawSingle
    <3> QED BY <3>1, <3>2 DEF DoubledDrawFlipsSprite
  <2>6. CASE i + RowsOf(n) <= Len(Memory) /\ DrawDouble(x, y, n, i)
    <3>1. DoubledDrawFlipsSprite /\ FlagCountsRows
      BY <2>6, DoubleDraw
    <3>2. ~hires
      BY <2>6 DEF DrawDouble
    <3> QED BY <3>1, <3>2 DEF ExtendedDrawFlipsSprite
  <2> QED BY <2>4, <2>5, <2>6 DEF instruction_DxyN, BytesOf
<1> QED BY <1>2, PTL DEF Spec

-----------------------------------------------------------------------------
(* The maps and textures of MEGACHIP                                       *)

CONSTANTS
  MV, Textures      \* of MegaDisplay
VARIABLES
  mode, bg, old, hitmap, texture, frame      \* of MegaDisplay

Mega == INSTANCE MegaDisplay

\* The cells of the large maps.
Large == Area(Mega!MW, Mega!MH)

\* An even small map, and textures that are not larger than the large one.
MegaSizes ==
  /\ W % 2 = 0 /\ H % 2 = 0 /\ ScrollW \in Nat /\ Is \subseteq Nat
  /\ MV \in Nat /\ Mega!MH <= MV
  /\ \A t \in Textures : t.w \in 0..Mega!MW /\ t.h \in 0..MV

\* The large maps keep their size, and the texture is one that was set.
MapsAreWhole ==
  /\ mode \in {"LO", "HI", "MC"}
  /\ DOMAIN bg = Large /\ DOMAIN old = Large /\ DOMAIN hitmap = Large
  /\ texture \in Textures \cup {Mega!NoTexture}

\* The large maps are of some size, and the instance's cells are these.
LEMMA LargeIs ==
  /\ Mega!MW \in Nat \ {0} /\ Mega!MH \in Nat \ {0}
  /\ Mega!Area(Mega!MW, Mega!MH) = Large
  /\ DOMAIN Mega!Clear = Large
<1>1. W \in Nat \ {0} /\ H \in Nat \ {0}
  BY DimAssumption
<1>2. Mega!MW \in Nat \ {0} /\ Mega!MH \in Nat \ {0}
  BY <1>1 DEF Mega!MW, Mega!MH
<1>3. Mega!Area(Mega!MW, Mega!MH) = Large
  BY DEF Mega!Area, Area, Large
<1> QED BY <1>2, <1>3 DEF Mega!Clear

\* A draw keeps the maps' sizes, and the texture or none.
LEMMA DrawKeepsMaps ==
  ASSUME MapsAreWhole, NEW x, NEW y, NEW n, NEW i, NEW wrap,
         Mega!instruction_DxyN(x, y, n, i, wrap)
  PROVE  MapsAreWhole'
<1>1. \/ UNCHANGED <<bg, hitmap, texture>>
      \/ Mega!draw_font(x, y, n, i, wrap)
      \/ Mega!draw_texture(x, y, i, wrap)
  BY DEF Mega!instruction_DxyN, MapsAreWhole
<1>2. old' = old /\ mode' = mode
  BY DEF Mega!instruction_DxyN
<1>3. \A map, drawn : DOMAIN Mega!Over(map, drawn) = DOMAIN map
  BY DEF Mega!Over
<1>4. /\ DOMAIN bg' = DOMAIN bg /\ DOMAIN hitmap' = DOMAIN hitmap
      /\ texture' \in {texture, Mega!NoTexture}
  BY <1>1, <1>3 DEF Mega!draw_font, Mega!draw_texture
<1> QED BY <1>2, <1>4 DEF MapsAreWhole

\* Every step keeps the sizes of the large maps.
LEMMA MapsStay ==
  ASSUME MapsAreWhole, [Mega!Next]_(Mega!vars)
  PROVE  MapsAreWhole'
<1>1. CASE UNCHANGED Mega!vars
  BY <1>1 DEF Mega!vars, MapsAreWhole
<1>2. CASE Mega!reset_system_data
  BY <1>2, LargeIs DEF Mega!reset_system_data, MapsAreWhole
<1>3. ASSUME NEW m \in {"LO", "HI"}, Mega!set_display_properties(m) PROVE MapsAreWhole'
  BY <1>3 DEF Mega!set_display_properties, MapsAreWhole
<1>4. ASSUME NEW m \in {"LO", "MC"}, Mega!scrap_all_video_buffers(m) PROVE MapsAreWhole'
  BY <1>4, LargeIs DEF Mega!scrap_all_video_buffers, MapsAreWhole
<1>5. CASE Mega!instruction_00E0
  BY <1>5, LargeIs DEF Mega!instruction_00E0, Mega!flush_all_video_buffers, MapsAreWhole
<1>6. ASSUME NEW cols, NEW rows, Mega!Scrolls(cols, rows) PROVE MapsAreWhole'
  BY <1>6 DEF Mega!Scrolls, Mega!flush_all_video_buffers, Mega!ShiftColors, MapsAreWhole
<1>7. ASSUME NEW t \in Textures, Mega!SetTexture(t) PROVE MapsAreWhole'
  BY <1>7 DEF Mega!SetTexture, MapsAreWhole
<1>8. ASSUME NEW x, NEW y, NEW n, NEW i, NEW wrap, Mega!instruction_DxyN(x, y, n, i, wrap)
      PROVE  MapsAreWhole'
  BY <1>8, DrawKeepsMaps
<1>9. CASE Mega!push_video_data
  BY <1>9 DEF Mega!push_video_data, MapsAreWhole
<1> QED
  BY <1>1, <1>2, <1>3, <1>4, <1>5, <1>6, <1>7, <1>8, <1>9
  DEF Mega!Next, Mega!instruction_00BN, Mega!instruction_00CN, Mega!instruction_00FB,
      Mega!instruction_00FC

\* A picture of colours is moved as its colours are, one by one.
LEMMA ColoursMove ==
  ASSUME NEW map, DOMAIN map = Large, NEW cols \in Int, NEW rows \in Int, NEW c \in Large
  PROVE  LET x == (c % Mega!MW) - cols
             y == (c \div Mega!MW) - rows
         IN  Mega!ShiftColors(map, cols, rows)[c]
               = IF x \in 0..(Mega!MW - 1) /\ y \in 0..(Mega!MH - 1)
                 THEN map[Index(x, y, Mega!MW)] ELSE {}
<1> DEFINE w == Mega!MW
           h == Mega!MH
           x == c % w
           y == c \div w
           of(color) == {k \in DOMAIN map : map[k] = color}
           moved(color) == Shift(of(color), w, h, cols, rows)
           colors == {map[k] : k \in DOMAIN map} \ {{}}
           shown == {color \in colors : c \in moved(color)}
           In == x - cols \in 0..(w - 1) /\ y - rows \in 0..(h - 1)
           from == Index(x - cols, y - rows, w)
<1>1. w \in Nat \ {0} /\ h \in Nat \ {0}
  BY LargeIs
<1> HIDE DEF w, h
<1>2. x \in 0..(w - 1) /\ y \in 0..(h - 1) /\ c = Index(x, y, w)
  BY <1>1, Places DEF Large, w, h
<1>3. Mega!ShiftColors(map, cols, rows)[c] = UNION shown
  BY DEF Mega!ShiftColors, Mega!Shift, Shift, Mega!Area, Area, Mega!Rotate, Rotate, Mega!Fill,
         Fill, Mega!Index, Index, Mega!Abs, Abs, w, h
<1>4. ASSUME NEW color PROVE c \in moved(color) <=> In /\ from \in of(color)
  <2>1. Scrolled(of(color), moved(color), w, h, cols, rows)
    BY <1>1, ShiftMoves
  <2> HIDE DEF x, y, of, moved
  <2> QED BY <1>2, <2>1 DEF Scrolled
<1>5. CASE ~In
  <2>1. shown = {}
    BY <1>4, <1>5
  <2> QED BY <1>3, <1>5, <2>1 DEF w, h
<1>6. CASE In
  <2>1. from \in DOMAIN map
    <3> HIDE DEF x, y
    <3> QED BY <1>1, <1>6, Places DEF Large, w, h
  <2>2. \A color : c \in moved(color) <=> map[from] = color
    BY <1>4, <1>6, <2>1
  <2> HIDE DEF from, moved
  <2>3. shown = {map[from]} \ {{}}
    BY <2>1, <2>2
  <2>4. UNION shown = map[from]
    BY <2>3
  <2> QED BY <1>3, <1>6, <2>4 DEF from, w, h
<1> QED BY <1>5, <1>6

\* Every step, by the name of its instruction.
LEMMA MegaNames ==
  /\ Mega!reset_system_data => op'.name = "none"
  /\ \A m : Mega!set_display_properties(m) => op'.name = "mode"
  /\ \A m : Mega!scrap_all_video_buffers(m) => op'.name = "scrap"
  /\ Mega!instruction_00E0 => op'.name = "00E0"
  /\ \A cols, rows : Mega!Scrolls(cols, rows) =>
       op'.name = "scroll" /\ op'.cols = cols /\ op'.rows = rows
  /\ \A t : Mega!SetTexture(t) => op'.name = "set"
  /\ \A x, y, n, i, wrap : Mega!instruction_DxyN(x, y, n, i, wrap) =>
       /\ op'.name = "draw" /\ op'.x = x /\ op'.y = y /\ op'.n = n /\ op'.i = i
       /\ op'.wrap = wrap
  /\ Mega!push_video_data => op'.name = "frame"
<1>1. Mega!reset_system_data => op'.name = "none"
  BY DEF Mega!reset_system_data, Mega!None
<1>2. \A name : Mega!Op(name).name = name
  BY DEF Mega!Op
<1>3. /\ \A m : Mega!set_display_properties(m) => op'.name = "mode"
      /\ \A m : Mega!scrap_all_video_buffers(m) => op'.name = "scrap"
      /\ \A t : Mega!SetTexture(t) => op'.name = "set"
  BY <1>2 DEF Mega!set_display_properties, Mega!scrap_all_video_buffers, Mega!SetTexture
<1>4. Mega!instruction_00E0 => op'.name = "00E0"
  <2>1. Mega!instruction_00E0 => op' = Mega!Op("00E0")
    BY DEF Mega!instruction_00E0
  <2> QED BY <1>2, <2>1
<1>5. Mega!push_video_data => op'.name = "frame"
  <2>1. Mega!push_video_data => op' = Mega!Op("frame")
    BY DEF Mega!push_video_data
  <2> QED BY <1>2, <2>1
<1>6. ASSUME NEW cols, NEW rows, Mega!Scrolls(cols, rows)
      PROVE  op'.name = "scroll" /\ op'.cols = cols /\ op'.rows = rows
  <2>1. op' = Mega!Scroll(cols, rows)
    BY <1>6 DEF Mega!Scrolls
  <2> QED BY <2>1 DEF Mega!Scroll
<1>7. ASSUME NEW x, NEW y, NEW n, NEW i, NEW wrap, Mega!instruction_DxyN(x, y, n, i, wrap)
      PROVE  /\ op'.name = "draw" /\ op'.x = x /\ op'.y = y /\ op'.n = n /\ op'.i = i
             /\ op'.wrap = wrap
  <2>1. op' = Mega!Draw(x, y, n, i, wrap)
    BY <1>7 DEF Mega!instruction_DxyN
  <2> QED BY <2>1 DEF Mega!Draw
<1> QED BY <1>1, <1>3, <1>4, <1>5, <1>6, <1>7

\* MEGACHIP scrolls by its instructions' distances.
LEMMA MegaScrollIs ==
  ASSUME Mega!Next, op'.name = "scroll", ScrollW \in Nat
  PROVE  \E cols, rows \in Int :
           Mega!Scrolls(cols, rows) /\ op'.cols = cols /\ op'.rows = rows
<1>5. \/ Mega!Scrolls(ScrollW, 0) \/ Mega!Scrolls(-ScrollW, 0)
      \/ \E n \in 0..1 : Mega!Scrolls(0, n) \/ Mega!Scrolls(0, -n)
  BY MegaNames DEF Mega!Next, Mega!instruction_00BN, Mega!instruction_00CN,
     Mega!instruction_00FB, Mega!instruction_00FC
<1>6. 0 \in Int /\ -ScrollW \in Int /\ \A n \in 0..1 : n \in Int /\ -n \in Int
  OBVIOUS
<1>7. \E cols, rows \in Int : Mega!Scrolls(cols, rows)
  BY <1>5, <1>6
<1> QED BY <1>7, MegaNames

\* A scroll moves the small map, or the picture the last erasure left, by its distance.
LEMMA MegaScrollStep ==
  ASSUME MegaSizes, MapsAreWhole, Mega!Next
  PROVE  Mega!ScrollMovesPictures
<1>1. W \in Nat \ {0} /\ H \in Nat \ {0}
  BY DimAssumption
<1>2. ASSUME op'.name = "scroll", mode # "MC"
      PROVE  Mega!Scrolled(lit, lit', W, H, op'.cols, op'.rows)
  <2>1. PICK cols, rows \in Int : Mega!Scrolls(cols, rows) /\ op'.cols = cols /\ op'.rows = rows
    BY <1>2, MegaScrollIs DEF MegaSizes
  <2>2. lit' = Shift(lit, W, H, cols, rows)
    <3>1. lit' = Mega!Shift(lit, W, H, cols, rows)
      BY <1>2, <2>1 DEF Mega!Scrolls
    <3> QED BY <3>1 DEF Mega!Shift, Shift, Mega!Area, Area, Mega!Rotate, Rotate, Mega!Fill,
                        Fill, Mega!Index, Index, Mega!Abs, Abs
  <2>3. Scrolled(lit, lit', W, H, cols, rows)
    BY <1>1, <2>2, ShiftMoves
  <2> QED BY <2>1, <2>3 DEF Mega!Scrolled, Scrolled, Mega!Index, Index
<1>3. ASSUME op'.name = "scroll", mode = "MC", NEW c \in DOMAIN bg
      PROVE  LET x == (c % Mega!MW) - op'.cols
                 y == (c \div Mega!MW) - op'.rows
                 moved == IF x \in 0..(Mega!MW - 1) /\ y \in 0..(Mega!MH - 1)
                          THEN old[Mega!Index(x, y, Mega!MW)] ELSE {}
             IN  /\ old'[c] = moved
                 /\ frame'[c] = IF moved = {} THEN bg[c] ELSE moved
  <2>1. PICK cols, rows \in Int : Mega!Scrolls(cols, rows) /\ op'.cols = cols /\ op'.rows = rows
    BY <1>3, MegaScrollIs DEF MegaSizes
  <2>2. /\ old' = Mega!ShiftColors(old, cols, rows)
        /\ frame' = [k \in Large |-> IF old'[k] # {} THEN old'[k] ELSE bg[k]]
    BY <1>3, <2>1, LargeIs DEF Mega!Scrolls, Mega!flush_all_video_buffers
  <2> DEFINE x == (c % Mega!MW) - cols
             y == (c \div Mega!MW) - rows
             moved == IF x \in 0..(Mega!MW - 1) /\ y \in 0..(Mega!MH - 1)
                      THEN old[Index(x, y, Mega!MW)] ELSE {}
  <2>3. c \in Large /\ DOMAIN old = Large
    BY <1>3 DEF MapsAreWhole
  <2>4. old'[c] = moved
    BY <2>2, <2>3, ColoursMove
  <2>5. frame'[c] = IF moved = {} THEN bg[c] ELSE moved
    <3> HIDE DEF moved
    <3> QED BY <2>2, <2>3, <2>4
  <2> QED BY <2>1, <2>4, <2>5 DEF Mega!Index, Index
<1>4. ASSUME op'.name = "00E0", mode = "MC"
      PROVE  frame' = bg /\ old' = bg /\ bg' = Mega!Clear /\ hitmap' = Mega!Clear
  <2>1. Mega!instruction_00E0
    BY <1>4, MegaNames DEF Mega!Next, Mega!instruction_00BN, Mega!instruction_00CN,
       Mega!instruction_00FB, Mega!instruction_00FC
  <2> QED BY <1>4, <2>1 DEF Mega!instruction_00E0, Mega!flush_all_video_buffers
<1> QED BY <1>2, <1>3, <1>4 DEF Mega!ScrollMovesPictures

\* The places of bits in a row of the small map.
BitCells(X, b, B) == {Index(X + c, b, W) : c \in B}

\* They are on the map and in their row, if they do not reach the edge.
LEMMA RowCellsAre ==
  ASSUME NEW X \in 0..(W - 1), NEW b \in 0..(H - 1), NEW B \in SUBSET Nat, \A c \in B : X + c < W
  PROVE  /\ {Index(X, b, W) + c : c \in B} = BitCells(X, b, B)
         /\ BitCells(X, b, B) \subseteq Area(W, H)
         /\ \A p \in 0..(W - 1), q \in 0..(H - 1) :
              Index(p, q, W) \in BitCells(X, b, B) <=> q = b /\ p - X \in B
         /\ \A k \in BitCells(X, b, B) : \E p \in 0..(W - 1) : k = Index(p, b, W)
<1>1. W \in Nat \ {0} /\ H \in Nat \ {0}
  BY DimAssumption
<1>2. \A c \in B : X + c \in 0..(W - 1) /\ c \in Int
  BY <1>1
<1>3. \A c \in B : Index(X, b, W) + c = Index(X + c, b, W)
  <2>1. b * W \in Int
    BY <1>1
  <2> QED BY <1>1, <1>2, <2>1 DEF Index
<1>4. \A c \in B : Index(X + c, b, W) \in Area(W, H)
  BY <1>1, <1>2, Places
<1>5. ASSUME NEW p \in 0..(W - 1), NEW q \in 0..(H - 1)
      PROVE  Index(p, q, W) \in BitCells(X, b, B) <=> q = b /\ p - X \in B
  <2>1. \A c \in B : Index(p, q, W) = Index(X + c, b, W) <=> p = X + c /\ q = b
    <3>1. q \in Int /\ b \in Int
      OBVIOUS
    <3> QED BY <1>1, <1>2, <3>1, Same
  <2>2. \A c \in B : p = X + c <=> c = p - X
    BY <1>1, <1>2
  <2> QED BY <2>1, <2>2 DEF BitCells
<1> QED BY <1>2, <1>3, <1>4, <1>5 DEF BitCells

\* The bits of a row in the larger of the small modes.
LEMMA PairIs ==
  ASSUME NEW n \in 0..Rows, NEW i \in Nat, i + BytesOf(n) <= Len(Memory),
         NEW r \in 0..(RowsOf(n) - 1)
  PROVE  /\ Mega!Pair(n, i, r) \in SUBSET (0..((IF n = 0 THEN 2 ELSE 1) * ByteW - 1))
         /\ \A k \in Int : k \in Mega!Pair(n, i, r) <=> k >= 0 /\ SpriteBit(n, i, k, r)
<1>1. ByteW \in Nat \ {0} /\ Rows \in Nat
  BY DimAssumption
<1>2. \A j \in 0..(Len(Memory) - 1) : Byte(j) \in SUBSET (0..(ByteW - 1))
  BY MemoryAssumption DEF Byte
<1>3. CASE n = 0
  <2> DEFINE A == Byte(i + 2 * r)
             B == Byte(i + 2 * r + 1)
  <2>1. A \in SUBSET (0..(ByteW - 1)) /\ B \in SUBSET (0..(ByteW - 1))
    <3>1. i + 2 * r \in 0..(Len(Memory) - 1) /\ i + 2 * r + 1 \in 0..(Len(Memory) - 1)
      BY <1>1, <1>3 DEF BytesOf, RowsOf
    <3> QED BY <1>2, <3>1
  <2>2. Mega!Pair(n, i, r) = A \cup {ByteW + b : b \in B}
    BY <1>3 DEF Mega!Pair, Mega!Byte, Byte
  <2>3. \A k \in Int : k \in RowBits(n, i, r) <=> k \in A \/ k - ByteW \in B
    BY <1>3, PairOfBytes
  <2> HIDE DEF A, B
  <2>4. \A k \in Int : \A b \in B : k = ByteW + b <=> b = k - ByteW
    BY <1>1, <2>1
  <2>5. \A k \in Int : k \in Mega!Pair(n, i, r) <=> k \in RowBits(n, i, r)
    BY <2>2, <2>3, <2>4
  <2>6. Mega!Pair(n, i, r) \in SUBSET (0..(2 * ByteW - 1))
    <3>1. \A a \in A \cup B : a \in 0..(2 * ByteW - 1) /\ a \in Nat /\ a <= ByteW - 1
      BY <1>1, <2>1
    <3>2. \A b \in B : ByteW + b \in 0..(2 * ByteW - 1)
      BY <1>1, <3>1
    <3> QED BY <2>2, <3>1, <3>2
  <2> QED BY <1>3, <2>5, <2>6, BitsOfRow
<1>4. CASE n # 0
  <2>1. i + r \in 0..(Len(Memory) - 1)
    BY <1>1, <1>4 DEF BytesOf, RowsOf
  <2>2. Mega!Pair(n, i, r) = Byte(i + r) /\ RowBits(n, i, r) = Byte(i + r)
    BY <1>4 DEF Mega!Pair, Mega!Byte, Byte, RowBits
  <2>3. Byte(i + r) \in SUBSET (0..(ByteW - 1)) /\ 1 * ByteW = ByteW
    BY <1>1, <1>2, <2>1
  <2> QED BY <1>4, <2>2, <2>3, BitsOfRow
<1> QED BY <1>3, <1>4

\* A sprite that ends inside flips its bits and counts the rows that were hit.
LEMMA HiresStep ==
  ASSUME NEW x \in Xs, NEW y \in Ys, NEW n \in 0..Rows, NEW i \in Nat,
         i + BytesOf(n) <= Len(Memory), Mega!HiresDraw(x, y, n, i),
         (x % W) + (IF n = 0 THEN 2 ELSE 1) * ByteW <= W
  PROVE  /\ \A p \in 0..(W - 1), q \in 0..(H - 1) :
              (Index(p, q, W) \in lit' <=> Index(p, q, W) \in lit)
                <=> ~(/\ p - (x % W) >= 0 /\ q - (y % H) >= 0
                      /\ SpriteBit(n, i, p - (x % W), q - (y % H)))
         /\ vf' = Cardinality({q \in 0..(H - 1) : \E p \in 0..(W - 1) :
                                 Index(p, q, W) \in lit \ lit'})
<1> DEFINE X == x % W
           Y == y % H
           rows == {r \in 0..(RowsOf(n) - 1) : Y + r < H}
           cells(r) == BitCells(X, Y + r, Mega!Pair(n, i, r))
           all == UNION {cells(r) : r \in rows}
           hit == {r \in rows : cells(r) \cap lit # {}}
<1>1. /\ W \in Nat \ {0} /\ H \in Nat \ {0} /\ ByteW \in Nat \ {0} /\ RowsOf(n) \in Nat
      /\ IsFiniteSet({}) /\ Cardinality({}) = 0
  BY DimAssumption, FS_EmptySet DEF RowsOf
<1>2. X \in 0..(W - 1) /\ Y \in 0..(H - 1)
  BY <1>1, OriginAssumption
<1> HIDE DEF X, Y
<1>3. ASSUME NEW r \in rows
      PROVE  /\ r \in 0..(RowsOf(n) - 1) /\ r \in Int /\ Y + r \in 0..(H - 1)
             /\ \A k \in Int : k \in Mega!Pair(n, i, r) <=> k >= 0 /\ SpriteBit(n, i, k, r)
             /\ Mega!draw_single_byte(X, Y + r, Mega!Pair(n, i, r)) = cells(r)
             /\ cells(r) \subseteq Area(W, H)
             /\ \A p \in 0..(W - 1), q \in 0..(H - 1) :
                  Index(p, q, W) \in cells(r) <=> q = Y + r /\ p - X \in Mega!Pair(n, i, r)
             /\ \A k \in cells(r) : \E p \in 0..(W - 1) : k = Index(p, Y + r, W)
  <2> DEFINE B == Mega!Pair(n, i, r)
             m == (IF n = 0 THEN 2 ELSE 1) * ByteW
  <2>1. r \in 0..(RowsOf(n) - 1) /\ r \in Int /\ Y + r \in 0..(H - 1)
    BY <1>1, <1>2
  <2>2. B \in SUBSET (0..(m - 1)) /\ \A k \in Int : k \in B <=> k >= 0 /\ SpriteBit(n, i, k, r)
    BY <2>1, PairIs
  <2>3. m \in Nat /\ X + m <= W
    BY <1>1 DEF X
  <2> HIDE DEF B, m
  <2>4. B \in SUBSET Nat /\ \A c \in B : X + c < W
    BY <1>1, <1>2, <2>2, <2>3
  <2> DEFINE C == BitCells(X, Y + r, B)
  <2>5. /\ {Index(X, Y + r, W) + c : c \in B} = C
        /\ C \subseteq Area(W, H)
        /\ \A p \in 0..(W - 1), q \in 0..(H - 1) :
             Index(p, q, W) \in C <=> q = Y + r /\ p - X \in B
        /\ \A k \in C : \E p \in 0..(W - 1) : k = Index(p, Y + r, W)
    <3>1. Y + r \in 0..(H - 1)
      BY <2>1
    <3> QED BY ONLY <1>2, <2>4, <3>1, RowCellsAre
  <2>6. Mega!draw_single_byte(X, Y + r, B) = {Index(X, Y + r, W) + c : c \in B} \cap Area(W, H)
    BY DEF Mega!draw_single_byte, Mega!SingleByte, Mega!Index, Index, Mega!Area, Area
  <2>7. Mega!draw_single_byte(X, Y + r, B) = C
    <3> HIDE DEF C
    <3> QED BY <2>5, <2>6
  <2> QED BY <2>1, <2>2, <2>5, <2>7 DEF B
<1> DEFINE drawn(r) == Mega!draw_single_byte(X, Y + r, Mega!Pair(n, i, r))
           Drawers(c) == {r \in rows : c \in drawn(r)}
           before(r, c) == {q \in rows : q < r /\ c \in drawn(q)}
           Lit(r, c) == (c \in lit) # (Mega!Cardinality(before(r, c)) % 2 = 1)
<1>4. /\ lit' = {c \in Area(W, H) : (c \in lit) # (Mega!Cardinality(Drawers(c)) % 2 = 1)}
      /\ vf' = Mega!Cardinality({r \in rows : \E c \in drawn(r) : Lit(r, c)})
  BY DEF Mega!HiresDraw, Mega!Area, Area, Mega!RowsOf, RowsOf, X, Y
<1>12. \A S : Mega!Cardinality(S) = Cardinality(S)
  BY DEF Mega!Cardinality, Cardinality
<1>13. \A r \in rows : drawn(r) = cells(r)
  BY <1>3
<1> HIDE DEF drawn
<1>5. ASSUME NEW r \in rows, NEW q \in rows, NEW c \in cells(r), c \in cells(q) PROVE q = r
  <2>1. /\ \E p \in 0..(W - 1) : c = Index(p, Y + r, W)
        /\ \E p \in 0..(W - 1) : c = Index(p, Y + q, W)
    BY <1>3, <1>5
  <2>2. Y + r \in Int /\ Y + q \in Int
    BY <1>3
  <2>3. Y + r = Y + q
    BY <1>1, <2>1, <2>2, Same
  <2>4. Y \in Int /\ r \in Int /\ q \in Int
    BY <1>2, <1>3
  <2> QED BY ONLY <2>3, <2>4
<1> HIDE DEF cells, rows
<1>6. \A c : (Cardinality(Drawers(c)) % 2 = 1) <=> c \in all
  <2> SUFFICES ASSUME NEW c PROVE (Cardinality(Drawers(c)) % 2 = 1) <=> c \in all
    OBVIOUS
  <2>1. ASSUME NEW r \in rows, c \in cells(r) PROVE Cardinality(Drawers(c)) = 1
    <3>1. Drawers(c) = {r}
      BY <1>5, <1>13, <2>1
    <3> HIDE DEF Drawers
    <3> QED BY <3>1, FS_Singleton
  <2>2. ASSUME c \notin all PROVE Cardinality(Drawers(c)) = 0
    <3>1. Drawers(c) = {}
      BY <1>13, <2>2
    <3> QED BY <1>1, <3>1
  <2>3. 1 % 2 = 1 /\ ~(0 % 2 = 1)
    OBVIOUS
  <2> QED BY <2>1, <2>2, <2>3
<1>7. \A c \in Area(W, H) : c \in lit' <=> ~(c \in lit <=> c \in all)
  <2> HIDE DEF Drawers, all
  <2>1. \A c : (Mega!Cardinality(Drawers(c)) % 2 = 1) <=> c \in all
    BY <1>6, <1>12
  <2> QED BY <1>4, <2>1
<1>8. vf' = Cardinality(hit)
  <2>1. \A r \in rows : \A c \in cells(r) : before(r, c) = {}
    <3>1. \A r \in rows : ~(r < r)
      BY <1>3
    <3> QED BY <1>5, <1>13, <3>1
  <2> HIDE DEF before
  <2>2. \A r \in rows : \A c \in cells(r) : ~(Mega!Cardinality(before(r, c)) % 2 = 1)
    <3>1. ~(0 % 2 = 1)
      OBVIOUS
    <3> QED BY <1>1, <1>12, <2>1, <3>1
  <2>3. \A r \in rows : \A c \in cells(r) : Lit(r, c) <=> c \in lit
    BY <2>2
  <2> HIDE DEF Lit
  <2>4. {r \in rows : \E c \in drawn(r) : Lit(r, c)} = hit
    BY <1>13, <2>3
  <2> HIDE DEF hit
  <2> QED BY <1>4, <1>12, <2>4
<1>9. ASSUME NEW p \in 0..(W - 1), NEW q \in 0..(H - 1)
      PROVE  /\ Index(p, q, W) \in all <=> p - X >= 0 /\ q - Y >= 0 /\ SpriteBit(n, i, p - X, q - Y)
             /\ Index(p, q, W) \in Area(W, H)
  <2>1. p - X \in Int /\ q \in Int /\ Y \in Int /\ q < H
    BY <1>1, <1>2
  <2>2. q - Y \in rows <=> q - Y >= 0 /\ q - Y < RowsOf(n)
    BY <1>1, <2>1 DEF rows
  <2>3. Index(p, q, W) \in all <=> \E r \in rows : q = Y + r /\ p - X \in Mega!Pair(n, i, r)
    BY <1>3
  <2>4. \A r \in rows : q = Y + r <=> r = q - Y
    <3>1. \A r \in rows : r \in Int
      BY <1>3
    <3> QED BY <2>1, <3>1
  <2>5. q - Y \in rows =>
          (p - X \in Mega!Pair(n, i, q - Y) <=> p - X >= 0 /\ SpriteBit(n, i, p - X, q - Y))
    BY <1>3, <2>1
  <2>6. SpriteBit(n, i, p - X, q - Y) => q - Y < RowsOf(n)
    BY DEF SpriteBit
  <2> HIDE DEF all
  <2>7. Index(p, q, W) \in Area(W, H)
    BY <1>1, Places
  <2> QED BY <2>2, <2>3, <2>4, <2>5, <2>6, <2>7
<1>10. \A p \in 0..(W - 1), q \in 0..(H - 1) :
         (Index(p, q, W) \in lit' <=> Index(p, q, W) \in lit)
           <=> ~(p - X >= 0 /\ q - Y >= 0 /\ SpriteBit(n, i, p - X, q - Y))
  <2> HIDE DEF all
  <2> QED BY <1>7, <1>9
<1>11. Cardinality({q \in 0..(H - 1) : \E p \in 0..(W - 1) : Index(p, q, W) \in lit \ lit'})
         = Cardinality(hit)
  <2> DEFINE E == {q \in 0..(H - 1) : \E p \in 0..(W - 1) : Index(p, q, W) \in lit \ lit'}
  <2>1. \A p \in 0..(W - 1), q \in 0..(H - 1) :
          Index(p, q, W) \in lit \ lit' <=> Index(p, q, W) \in lit \cap all
    <3> HIDE DEF all
    <3> QED BY <1>7, <1>9
  <2>2. ASSUME NEW q \in Int PROVE q \in E <=> q - Y \in hit
    <3>0. Y \in Int
      BY <1>2
    <3>1. ASSUME q \in E PROVE q - Y \in hit
      <4>1. PICK p \in 0..(W - 1) : Index(p, q, W) \in lit \cap all
        <5> HIDE DEF all
        <5> QED BY <2>1, <3>1
      <4>2. PICK r \in rows : Index(p, q, W) \in cells(r)
        BY <4>1
      <4>3. q = Y + r /\ r \in Int
        BY <1>3, <3>1, <4>2
      <4>4. r = q - Y
        BY <3>0, <4>3
      <4> QED BY <4>1, <4>2, <4>4
    <3>2. ASSUME q - Y \in hit PROVE q \in E
      <4> DEFINE r == q - Y
      <4>1. r \in rows /\ Y + r = q
        BY <3>0, <3>2
      <4>2. PICK k \in cells(r) : k \in lit
        BY <3>2
      <4> HIDE DEF r
      <4>3. q \in 0..(H - 1) /\ \E p \in 0..(W - 1) : k = Index(p, q, W)
        BY <1>3, <4>1, <4>2
      <4>4. k \in lit \cap all
        BY <4>1, <4>2
      <4> HIDE DEF all
      <4> QED BY <2>1, <4>3, <4>4
    <3> QED BY <3>1, <3>2
  <2>3. hit \in SUBSET Int /\ E \in SUBSET Int /\ Y \in Int
    BY <1>2, <1>3
  <2>4. IsFiniteSet(hit)
    <3>1. IsFiniteSet(0..(RowsOf(n) - 1))
      BY <1>1, FS_Interval
    <3>2. hit \in SUBSET (0..(RowsOf(n) - 1))
      BY DEF rows
    <3> QED BY <3>1, <3>2, FS_Subset
  <2> HIDE DEF hit, E
  <2>5. Cardinality(E) = Cardinality(hit)
    BY <2>2, <2>3, <2>4, MovedRows
  <2> QED BY <2>5 DEF E
<1> HIDE DEF hit
<1> QED BY <1>8, <1>10, <1>11 DEF X, Y

\* A cell one row further down.
LEMMA Below ==
  ASSUME NEW p \in Int, NEW q \in Int
  PROVE  Index(p, q, W) \in Int /\ Index(p, q + 1, W) = Index(p, q, W) + W
<1>1. W \in Int
  BY DimAssumption
<1>2. q * W \in Int /\ (q + 1) * W = q * W + W
  BY <1>1
<1> DEFINE t == q * W
           u == (q + 1) * W
<1>3. t \in Int /\ u = t + W /\ Index(p, q, W) = t + p /\ Index(p, q + 1, W) = u + p
  BY <1>2 DEF Index
<1> HIDE DEF t, u
<1> QED BY <1>1, <1>3

\* A doubled byte has its bits in pairs.
Doubled(B) == {2 * b + k : b \in B, k \in 0..1}

\* A number is in a doubled byte when its half is in the byte.
LEMMA PairsOfBits ==
  ASSUME NEW B \in SUBSET (0..(ByteW - 1)), NEW e \in Int
  PROVE  /\ Doubled(B) \in SUBSET Nat
         /\ e \in Doubled(B) <=> e >= 0 /\ e < 2 * ByteW /\ e \div 2 \in B
<1>1. ByteW \in Nat \ {0} /\ \A b \in B : b \in Nat /\ b <= ByteW - 1
  BY DimAssumption
<1>2. ASSUME NEW b \in B, NEW k \in 0..1, e = 2 * b + k
      PROVE  e >= 0 /\ e < 2 * ByteW /\ e \div 2 \in B
  <2>1. b \in Nat /\ b <= ByteW - 1
    BY <1>1
  <2>2. e \div 2 = b
    BY <1>2, <2>1
  <2> QED BY <1>1, <1>2, <2>1, <2>2
<1>3. e = 2 * (e \div 2) + (e % 2) /\ e % 2 \in 0..1
  OBVIOUS
<1>4. \A b \in B, k \in 0..1 : 2 * b + k \in Nat
  BY <1>1
<1> QED BY <1>2, <1>3, <1>4 DEF Doubled

\* In the smallest mode a sprite flips its doubled bits in pairs of rows.
LEMMA LoresStep ==
  ASSUME W % 2 = 0, H % 2 = 0, NEW x \in Xs, NEW y \in Ys, NEW n \in 0..Rows, NEW i \in Nat,
         i + BytesOf(n) <= Len(Memory), Mega!LoresDraw(x, y, n, i), Mega!RowsPaired(lit)
  PROVE  /\ \A p \in 0..(W - 1), q \in 0..(H - 1) :
              LET dx == p - ((2 * x) % W)
                  dy == q - ((2 * y) % H)
              IN  (Index(p, q, W) \in lit' <=> Index(p, q, W) \in lit)
                    <=> ~(/\ dx >= 0 /\ dy >= 0
                          /\ dx < 2 * ByteW /\ dy < 2 * RowsOf(n)
                          /\ dx \div 2 \in Byte(i + dy \div 2))
         /\ Mega!RowsPaired(lit)'
         /\ vf' = 1 <=> lit \ lit' # {}
<1> DEFINE X == (2 * x) % W
           Y == (2 * y) % H
           rows == {r \in 0..(RowsOf(n) - 1) : Y + 2 * r < H}
           doubled2(r) == Doubled(Byte(i + r))
           inside(r) == {k \in doubled2(r) : X + k < W}
           upper(r) == BitCells(X, Y + 2 * r, inside(r))
           span == {c \in 0..(W - 1) : /\ X - (X % (2 * ByteW)) <= c
                                       /\ c < X - (X % (2 * ByteW)) + 4 * ByteW}
           flipped == UNION {upper(r) : r \in rows}
           up == (lit \ flipped) \cup (flipped \ lit)
           copied == {Index(c, Y + 2 * r + 1, W) : c \in span, r \in rows}
           Sets(p, r) == /\ p - X >= 0 /\ p - X < 2 * ByteW
                         /\ (p - X) \div 2 \in Byte(i + r)
           Flips(p, q) == \E r \in rows : (q = Y + 2 * r \/ q = Y + 2 * r + 1) /\ Sets(p, r)
<1>1. /\ lit' = (up \ copied) \cup {c \in copied : c - W \in up}
      /\ vf' = IF \E r \in rows : upper(r) \cap lit # {} THEN 1 ELSE 0
  <2>1. \A a, b : Mega!Index(a, b, W) = Index(a, b, W)
    BY DEF Mega!Index, Index
  <2> QED BY <2>1 DEF Mega!LoresDraw, Mega!draw_double_byte, Mega!DoubleSpan, Mega!RowsOf, RowsOf,
                      Mega!Byte, Byte, Mega!Index, Index, BitCells, Doubled
<1>2. /\ W \in Nat \ {0} /\ H \in Nat \ {0} /\ ByteW \in Nat \ {0} /\ RowsOf(n) \in Nat
  BY DimAssumption DEF RowsOf
<1>3. x \in Nat /\ y \in Nat
  BY OriginAssumption
<1>4. X \in 0..(W - 1) /\ \E e \in Nat : X = 2 * e
  BY <1>2, <1>3, EvenRemainder
<1>5. PICK ye \in Nat : Y = 2 * ye
  BY <1>2, <1>3, EvenRemainder
<1>6. PICK h \in Nat : H = 2 * h
  <2>1. H = 2 * (H \div 2) /\ H \div 2 \in Nat
    BY <1>2
  <2> QED BY <2>1
<1> HIDE DEF X, Y
<1>7. ASSUME NEW r \in rows
      PROVE  /\ r \in Nat /\ r < RowsOf(n) /\ Y + 2 * r = 2 * (ye + r)
             /\ Y + 2 * r \in 0..(H - 1) /\ Y + 2 * r + 1 \in 0..(H - 1)
             /\ Byte(i + r) \in SUBSET (0..(ByteW - 1))
  <2>1. r \in Nat /\ r < RowsOf(n)
    BY <1>2
  <2>2. i + r + 1 \in 1..Len(Memory)
    BY <1>2, <2>1, MemoryAssumption DEF BytesOf, RowsOf
  <2>3. Byte(i + r) \in SUBSET (0..(ByteW - 1))
    BY <2>2, MemoryAssumption DEF Byte
  <2>4. /\ Y + 2 * r = 2 * (ye + r) /\ Y + 2 * r \in 0..(H - 1)
        /\ Y + 2 * r + 1 \in 0..(H - 1)
    BY <1>2, <1>5, <1>6, <2>1
  <2> QED BY <2>1, <2>3, <2>4
<1>8. ASSUME NEW r \in rows
      PROVE  /\ \A p \in 0..(W - 1), q \in 0..(H - 1) :
                  Index(p, q, W) \in upper(r) <=> q = Y + 2 * r /\ Sets(p, r)
             /\ \A k \in upper(r) : \E p \in 0..(W - 1) : k = Index(p, Y + 2 * r, W)
             /\ upper(r) \subseteq Area(W, H)
  <2>1. \A e \in Int : e \in doubled2(r) <=> e >= 0 /\ e < 2 * ByteW /\ e \div 2 \in Byte(i + r)
    BY <1>7, PairsOfBits
  <2>2. doubled2(r) \in SUBSET Nat
    <3>1. 0 \in Int
      OBVIOUS
    <3> QED BY <1>7, <3>1, PairsOfBits
  <2> HIDE DEF doubled2
  <2>3. inside(r) \in SUBSET Nat /\ (\A c \in inside(r) : X + c < W) /\ Y + 2 * r \in 0..(H - 1)
    BY <1>7, <2>2
  <2>4. \A p \in 0..(W - 1) : p - X \in inside(r) <=> Sets(p, r)
    <3> SUFFICES ASSUME NEW p \in 0..(W - 1) PROVE p - X \in inside(r) <=> Sets(p, r)
      OBVIOUS
    <3>1. p - X \in Int /\ X + (p - X) < W
      BY <1>2, <1>4
    <3> QED BY <2>1, <3>1
  <2> HIDE DEF inside, Sets
  <2>5. /\ upper(r) \subseteq Area(W, H)
        /\ \A p \in 0..(W - 1), q \in 0..(H - 1) :
             Index(p, q, W) \in upper(r) <=> q = Y + 2 * r /\ p - X \in inside(r)
        /\ \A k \in upper(r) : \E p \in 0..(W - 1) : k = Index(p, Y + 2 * r, W)
    BY ONLY <1>4, <2>3, RowCellsAre
  <2> HIDE DEF upper
  <2> QED BY <2>4, <2>5
<1>9. ASSUME NEW p \in 0..(W - 1), NEW r \in rows, Sets(p, r) PROVE p \in span
  <2> DEFINE m == X % (2 * ByteW)
  <2>1. m \in 0..(2 * ByteW - 1)
    <3>1. X \in Int /\ 2 * ByteW \in Nat \ {0}
      BY <1>2, <1>4
    <3> QED BY <3>1, Quotient
  <2> HIDE DEF m
  <2>2. X - m <= p /\ p < X - m + 4 * ByteW
    BY <1>2, <1>4, <1>9, <2>1
  <2> QED BY <2>2 DEF m
<1> HIDE DEF Sets, upper, span
<1>10. ASSUME NEW p \in 0..(W - 1), NEW q \in 0..(H - 1)
       PROVE  /\ Index(p, q, W) \in flipped <=> \E r \in rows : q = Y + 2 * r /\ Sets(p, r)
              /\ Index(p, q, W) \in copied <=> p \in span /\ \E r \in rows : q = Y + 2 * r + 1
  <2>1. Index(p, q, W) \in flipped <=> \E r \in rows : q = Y + 2 * r /\ Sets(p, r)
    BY <1>8, SMTT(20)
  <2>2. \A c \in span, r \in rows :
          Index(p, q, W) = Index(c, Y + 2 * r + 1, W) <=> p = c /\ q = Y + 2 * r + 1
    <3> SUFFICES ASSUME NEW c \in span, NEW r \in rows
                 PROVE  Index(p, q, W) = Index(c, Y + 2 * r + 1, W)
                          <=> p = c /\ q = Y + 2 * r + 1
      OBVIOUS
    <3>1. c \in 0..(W - 1) /\ Y + 2 * r + 1 \in Int /\ q \in Int
      BY <1>2, <1>7 DEF span
    <3> QED BY ONLY <1>2, <3>1, p \in 0..(W - 1), Same
  <2> QED BY <2>1, <2>2
<1>11. copied \subseteq Area(W, H)
  <2>1. ASSUME NEW c \in span, NEW r \in rows PROVE Index(c, Y + 2 * r + 1, W) \in Area(W, H)
    <3>1. c \in 0..(W - 1) /\ Y + 2 * r + 1 \in 0..(H - 1)
      BY <1>7 DEF span
    <3> QED BY <1>2, <3>1, Places
  <2> QED BY <2>1
<1> HIDE DEF copied, flipped
<1>12. \A r, s \in rows : /\ Y + 2 * r # Y + 2 * s + 1
                          /\ Y + 2 * r = Y + 2 * s => r = s
  <2> SUFFICES ASSUME NEW r \in rows, NEW s \in rows
               PROVE  /\ Y + 2 * r # Y + 2 * s + 1
                      /\ Y + 2 * r = Y + 2 * s => r = s
    OBVIOUS
  <2>1. r \in Nat /\ s \in Nat /\ Y \in Int
    BY <1>5, <1>7
  <2> QED BY ONLY <2>1
<1>13. ASSUME NEW p \in 0..(W - 1), NEW r \in rows
       PROVE  /\ Index(p, Y + 2 * r + 1, W) \in lit <=> Index(p, Y + 2 * r, W) \in lit
              /\ Index(p, Y + 2 * r + 1, W) - W = Index(p, Y + 2 * r, W)
  <2> DEFINE q == Y + 2 * r
             c == Index(p, q, W)
  <2>1. q \in 0..(H - 1) /\ q \in Int /\ q = 2 * (ye + r) /\ ye + r \in Int
    BY <1>7
  <2>2. c \in Area(W, H) /\ c \div W = q
    <3> HIDE DEF q
    <3>1. c \in Area(W, H)
      BY <1>2, <2>1, Places
    <3>2. c \div W = q
      BY ONLY <1>2, <2>1, p \in 0..(W - 1), Rest
    <3> QED BY <3>1, <3>2
  <2>3. q % 2 = 0
    <3> HIDE DEF q
    <3>1. \A a \in Int : (2 * a) % 2 = 0
      OBVIOUS
    <3> QED BY <2>1, <3>1
  <2>4. c \in Int /\ Index(p, q + 1, W) = c + W
    <3> HIDE DEF q
    <3> QED BY <2>1, Below
  <2>5. c \in lit <=> c + W \in lit
    <3> HIDE DEF c, q
    <3> QED BY <2>2, <2>3 DEF Mega!RowsPaired, Mega!Area, Area
  <2> QED BY <1>2, <2>4, <2>5
<1>14. ASSUME NEW p \in 0..(W - 1), NEW q \in 0..(H - 1)
       PROVE  Index(p, q, W) \in lit' <=> ~(Index(p, q, W) \in lit <=> Flips(p, q))
  <2> DEFINE c == Index(p, q, W)
  <2>1. ASSUME NEW r \in rows, q = Y + 2 * r
        PROVE  c \in lit' <=> ~(c \in lit <=> Flips(p, q))
    <3>1. c \notin copied
      BY <1>10, <1>12, <2>1
    <3>2. c \in flipped <=> Sets(p, r)
      BY <1>10, <1>12, <2>1
    <3>3. Flips(p, q) <=> Sets(p, r)
      BY <1>12, <2>1
    <3> HIDE DEF c, Flips
    <3> QED BY <1>1, <3>1, <3>2, <3>3
  <2>2. ASSUME NEW r \in rows, q = Y + 2 * r + 1
        PROVE  c \in lit' <=> ~(c \in lit <=> Flips(p, q))
    <3> DEFINE b == Index(p, Y + 2 * r, W)
    <3>1. c \notin flipped /\ (c \in copied <=> p \in span)
      BY <1>10, <1>12, <2>2
    <3>2. b \in flipped <=> Sets(p, r)
      BY <1>7, <1>10, <1>12
    <3>3. c - W = b /\ (c \in lit <=> b \in lit)
      BY <1>13, <2>2
    <3>4. Flips(p, q) <=> Sets(p, r)
      <4>1. \A s \in rows : q = Y + 2 * s + 1 => s = r
        <5>1. \A s \in rows : q = Y + 2 * s + 1 => Y + 2 * r = Y + 2 * s
          <6>1. Y \in Int /\ r \in Int /\ \A s \in rows : s \in Int
            BY <1>5, <1>7
          <6> QED BY <2>2, <6>1
        <5> QED BY <1>12, <5>1
      <4>2. \A s \in rows : q # Y + 2 * s
        BY <1>12, <2>2
      <4> QED BY <2>2, <4>1, <4>2
    <3>5. Sets(p, r) => p \in span
      BY <1>9
    <3> HIDE DEF c, b, Flips
    <3> QED BY <1>1, <3>1, <3>2, <3>3, <3>4, <3>5
  <2>3. ASSUME \A r \in rows : q # Y + 2 * r /\ q # Y + 2 * r + 1
        PROVE  c \in lit' <=> ~(c \in lit <=> Flips(p, q))
    <3>1. c \notin copied /\ c \notin flipped /\ ~Flips(p, q)
      BY <1>10, <2>3
    <3> HIDE DEF c, Flips
    <3> QED BY <1>1, <3>1
  <2> QED BY <2>1, <2>2, <2>3
<1> QED
  <2>1. ASSUME NEW p \in 0..(W - 1), NEW q \in 0..(H - 1)
        PROVE  Flips(p, q) <=> /\ p - X >= 0 /\ q - Y >= 0
                               /\ p - X < 2 * ByteW /\ q - Y < 2 * RowsOf(n)
                               /\ (p - X) \div 2 \in Byte(i + (q - Y) \div 2)
    <3>0. q \in Int /\ Y \in Int /\ q < H
      BY <1>2, <1>5
    <3>1. \A r \in Int : q = Y + 2 * r \/ q = Y + 2 * r + 1 <=> r = (q - Y) \div 2
      <4>1. \A a, r \in Int : a = 2 * r \/ a = 2 * r + 1 <=> r = a \div 2
        OBVIOUS
      <4>2. \A r \in Int : /\ q = Y + 2 * r <=> q - Y = 2 * r
                           /\ q = Y + 2 * r + 1 <=> q - Y = 2 * r + 1
        BY <3>0
      <4> QED BY <3>0, <4>1, <4>2
    <3>2. (q - Y) \div 2 \in rows <=> q - Y >= 0 /\ q - Y < 2 * RowsOf(n)
      <4>1. PICK a \in Int : a = q - Y
        BY <3>0
      <4>2. a \div 2 \in Int /\ (a = 2 * (a \div 2) \/ a = 2 * (a \div 2) + 1)
        BY <4>1
      <4> DEFINE k == a \div 2
      <4>3. k \in Int /\ (a = 2 * k \/ a = 2 * k + 1)
        BY <4>2
      <4> HIDE DEF k
      <4>4. k \in rows <=> a >= 0 /\ a < 2 * RowsOf(n)
        BY <1>2, <1>5, <1>6, <3>0, <4>1, <4>3
      <4> QED BY <4>1, <4>4 DEF k
    <3>3. Flips(p, q) <=> (q - Y) \div 2 \in rows /\ Sets(p, (q - Y) \div 2)
      <4>1. \A r \in rows : r \in Int
        BY <1>7
      <4> HIDE DEF rows
      <4> QED BY <3>1, <4>1
    <3> QED BY <3>2, <3>3 DEF Sets
  <2>2. \A p \in 0..(W - 1), q \in 0..(H - 1) :
          (Index(p, q, W) \in lit' <=> Index(p, q, W) \in lit) <=> ~Flips(p, q)
    <3> HIDE DEF Flips
    <3> QED BY <1>14
  <2>3. Mega!RowsPaired(lit)'
    <3> SUFFICES ASSUME NEW c \in Area(W, H), (c \div W) % 2 = 0
                 PROVE  c \in lit' <=> c + W \in lit'
      BY DEF Mega!RowsPaired, Mega!Area, Area
    <3> DEFINE p == c % W
               q == c \div W
    <3>1. p \in 0..(W - 1) /\ q \in 0..(H - 1) /\ c = Index(p, q, W) /\ q % 2 = 0
      BY <1>2, Places
    <3> HIDE DEF p, q
    <3>2. PICK a \in Int : q = 2 * a
      <4>1. q = 2 * (q \div 2) /\ q \div 2 \in Int
        BY <3>1
      <4> QED BY <4>1
    <3>3. q + 1 \in 0..(H - 1)
      BY <1>6, <3>1, <3>2
    <3>4. c + W = Index(p, q + 1, W)
      <4>1. p \in Int /\ q \in Int
        BY <3>1
      <4> QED BY <3>1, <4>1, Below
    <3>5. Flips(p, q) <=> Flips(p, q + 1)
      <4>1. ASSUME NEW r \in rows
            PROVE  /\ q = Y + 2 * r \/ q = Y + 2 * r + 1 <=> q = Y + 2 * r
                   /\ q + 1 = Y + 2 * r \/ q + 1 = Y + 2 * r + 1 <=> q = Y + 2 * r
        <5>1. r \in Int
          BY <1>7
        <5> QED BY ONLY <1>5, <3>2, <5>1, a \in Int, ye \in Nat
      <4> HIDE DEF rows
      <4> QED BY <4>1
    <3>6. c \in lit <=> c + W \in lit
      BY <3>1 DEF Mega!RowsPaired, Mega!Area, Area, q
    <3> HIDE DEF Flips
    <3> QED BY <1>14, <3>1, <3>3, <3>4, <3>5, <3>6
  <2>4. (\E r \in rows : upper(r) \cap lit # {}) <=> lit \ lit' # {}
    <3>1. ASSUME NEW r \in rows, NEW k \in upper(r), k \in lit PROVE k \notin lit'
      <4>1. PICK p \in 0..(W - 1) : k = Index(p, Y + 2 * r, W)
        BY <1>8, <3>1
      <4>2. Y + 2 * r \in 0..(H - 1)
        BY <1>7
      <4>3. Sets(p, r)
        BY <1>8, <3>1, <4>1, <4>2
      <4>4. Flips(p, Y + 2 * r)
        BY <4>3
      <4> HIDE DEF Flips
      <4> QED BY <1>14, <3>1, <4>1, <4>2, <4>4
    <3>2. ASSUME NEW k \in lit, k \notin lit' PROVE \E r \in rows : upper(r) \cap lit # {}
      <4>1. k \in flipped \/ k \in copied
        BY <1>1, <3>2
      <4>2. k \in Area(W, H)
        BY <1>8, <1>11, <4>1 DEF flipped
      <4> DEFINE p == k % W
                 q == k \div W
      <4>3. p \in 0..(W - 1) /\ q \in 0..(H - 1) /\ k = Index(p, q, W)
        BY <1>2, <4>2, Places
      <4> HIDE DEF p, q
      <4>4. Flips(p, q)
        <5> HIDE DEF Flips
        <5> QED BY <1>14, <3>2, <4>3
      <4>5. PICK r \in rows : (q = Y + 2 * r \/ q = Y + 2 * r + 1) /\ Sets(p, r)
        BY <4>4
      <4>6. Index(p, Y + 2 * r, W) \in lit
        BY <1>13, <3>2, <4>3, <4>5
      <4>7. Index(p, Y + 2 * r, W) \in upper(r)
        BY <1>7, <1>8, <4>3, <4>5
      <4> QED BY <4>6, <4>7
    <3> QED BY <3>1, <3>2
  <2> HIDE DEF Flips, rows
  <2>5. vf' = 1 <=> lit \ lit' # {}
    BY <1>1, <2>4
  <2> QED BY <2>1, <2>2, <2>3, <2>5 DEF X, Y

\* Where a texture's column or row falls, and which one falls on a cell.
Falls(start, k, size, wrap) == IF wrap THEN (start + k) % size ELSE start + k
Fallen(at, start, size, wrap) == IF wrap THEN (at - start) % size ELSE at - start

\* One column or row of a texture falls on a cell, the one that Fallen gives.
LEMMA FallsOnce ==
  ASSUME NEW size \in Nat \ {0}, NEW start \in Nat, NEW at \in 0..(size - 1),
         NEW k \in 0..(size - 1), NEW wrap \in BOOLEAN
  PROVE  Falls(start, k, size, wrap) = at <=> k = Fallen(at, start, size, wrap)
<1>1. start + k \in Int /\ at - start \in Int
  OBVIOUS
<1>2. ASSUME (start + k) % size = at PROVE (at - start) % size = k
  <2> DEFINE q == (start + k) \div size
  <2>1. q \in Int /\ start + k = q * size + at
    BY <1>1, <1>2, Quotient
  <2> HIDE DEF q
  <2>2. at - start = Index(k, 0 - q, size)
    <3>1. (0 - q) * size = 0 - q * size /\ q * size \in Int
      BY <2>1
    <3> QED BY <2>1, <3>1 DEF Index
  <2>3. Index(k, 0 - q, size) % size = k
    <3>1. 0 - q \in Int
      BY <2>1
    <3> QED BY <3>1, Rest
  <2> QED BY <2>2, <2>3
<1>3. ASSUME k = (at - start) % size PROVE (start + k) % size = at
  <2> DEFINE q == (at - start) \div size
  <2>1. q \in Int /\ at - start = q * size + k
    BY <1>1, <1>3, Quotient
  <2> HIDE DEF q
  <2>2. start + k = Index(at, 0 - q, size)
    <3>1. (0 - q) * size = 0 - q * size /\ q * size \in Int
      BY <2>1
    <3> QED BY <2>1, <3>1 DEF Index
  <2>3. Index(at, 0 - q, size) % size = at
    <3>1. 0 - q \in Int
      BY <2>1
    <3> QED BY <3>1, Rest
  <2> QED BY <2>2, <2>3
<1>4. (start + k) % size = at <=> k = (at - start) % size
  BY ONLY <1>2, <1>3
<1>5. CASE wrap
  <2>1. Falls(start, k, size, wrap) = (start + k) % size
    BY <1>5, Zenon DEF Falls
  <2>2. Fallen(at, start, size, wrap) = (at - start) % size
    BY <1>5, Zenon DEF Fallen
  <2> QED BY ONLY <1>4, <2>1, <2>2
<1>6. CASE ~wrap
  BY <1>6 DEF Falls, Fallen
<1> QED BY <1>5, <1>6

\* Of a texture at most one texel falls on a cell of the large maps, and none beside them.
LEMMA TexelsAre ==
  ASSUME MegaSizes, MapsAreWhole, NEW x \in Nat, NEW y \in Nat, NEW i, NEW wrap \in BOOLEAN
  PROVE  LET dx(c) == Fallen(c % Mega!MW, x, Mega!MW, wrap)
             dy(c) == Fallen(c \div Mega!MW, y, MV, wrap)
             On(c) == dx(c) \in 0..(texture.w - 1) /\ dy(c) \in 0..(texture.h - 1)
             cells == Mega!TextureCells(x, y, i, wrap)
         IN  /\ \A cell \in cells : cell[1] \in Large
             /\ \A c \in Large, cell \in cells : cell[1] = c =>
                  On(c) /\ cell = <<c, Byte(i + dy(c) * texture.w + dx(c))>>
             /\ \A c \in Large : On(c) =>
                  <<c, Byte(i + dy(c) * texture.w + dx(c))>> \in cells
<1> DEFINE w == texture.w
           h == texture.h
           mw == Mega!MW
           mh == Mega!MH
           dx(c) == Fallen(c % mw, x, mw, wrap)
           dy(c) == Fallen(c \div mw, y, MV, wrap)
           On(c) == dx(c) \in 0..(w - 1) /\ dy(c) \in 0..(h - 1)
           column(k) == Falls(x, k, mw, wrap)
           row(k) == Falls(y, k, MV, wrap)
           texel(k, r) == Byte(i + r * w + k)
           ks == {k \in 0..(w - 1) : column(k) < mw}
           rs == {r \in 0..(h - 1) : row(r) < mh}
           cells == {<<Index(column(k), row(r), mw), texel(k, r)>> : k \in ks, r \in rs}
<1>1. cells = Mega!TextureCells(x, y, i, wrap)
  BY DEF Mega!TextureCells, Mega!Index, Index, Mega!Byte, Byte, Falls
<1>2. mw \in Nat \ {0} /\ mh \in Nat \ {0} /\ MV \in Nat \ {0} /\ mh <= MV
  BY LargeIs DEF MegaSizes
<1>3. w \in 0..mw /\ h \in 0..MV
  <2>1. CASE texture \in Textures
    BY <2>1 DEF MegaSizes
  <2>2. CASE texture = Mega!NoTexture
    BY <1>2, <2>2 DEF Mega!NoTexture
  <2> QED BY <2>1, <2>2 DEF MapsAreWhole
<1> HIDE DEF w, h, mw, mh
<1>4. ASSUME NEW k \in ks, NEW r \in rs
      PROVE  /\ column(k) \in 0..(mw - 1) /\ row(r) \in 0..(mh - 1)
             /\ k \in 0..(mw - 1) /\ r \in 0..(MV - 1)
             /\ Index(column(k), row(r), mw) \in Large
  <2>1. k \in 0..(mw - 1) /\ r \in 0..(MV - 1)
    BY <1>2, <1>3
  <2>2. column(k) \in Nat /\ row(r) \in Nat
    <3>1. x + k \in Nat /\ y + r \in Nat
      BY <2>1
    <3>2. (x + k) % mw \in Nat /\ (y + r) % MV \in Nat
      BY <1>2, <3>1
    <3> QED BY <3>1, <3>2 DEF Falls
  <2> HIDE DEF column, row
  <2>3. column(k) \in 0..(mw - 1) /\ row(r) \in 0..(mh - 1)
    BY <1>2, <2>2
  <2>4. Index(column(k), row(r), mw) \in Area(mw, mh)
    BY <1>2, <2>3, Places
  <2> QED BY <2>1, <2>3, <2>4 DEF Large, mw, mh
<1>5. ASSUME NEW c \in Large
      PROVE  /\ c % mw \in 0..(mw - 1) /\ c \div mw \in 0..(mh - 1)
             /\ c = Index(c % mw, c \div mw, mw)
  BY <1>2, Places DEF Large, mw, mh
<1>6. ASSUME NEW c \in Large, NEW k \in ks, NEW r \in rs,
             Index(column(k), row(r), mw) = c
      PROVE  k = dx(c) /\ r = dy(c)
  <2> DEFINE a == c % mw
             b == c \div mw
  <2>1. a \in 0..(mw - 1) /\ b \in 0..(mh - 1) /\ c = Index(a, b, mw)
    BY <1>5
  <2> HIDE DEF a, b
  <2>2. column(k) = a /\ row(r) = b
    <3>1. column(k) \in 0..(mw - 1) /\ row(r) \in 0..(mh - 1)
      BY <1>4
    <3> HIDE DEF column, row
    <3>2. row(r) \in Int /\ b \in Int
      BY <1>2, <2>1, <3>1
    <3> QED BY <1>2, <1>6, <2>1, <3>1, <3>2, Same
  <2>3. k \in 0..(mw - 1) /\ r \in 0..(MV - 1) /\ b \in 0..(MV - 1)
    BY <1>2, <1>4, <2>1
  <2>4. k = Fallen(a, x, mw, wrap) /\ r = Fallen(b, y, MV, wrap)
    BY <1>2, <2>1, <2>2, <2>3, FallsOnce
  <2> QED BY <2>4 DEF a, b
<1>7. ASSUME NEW c \in Large, On(c)
      PROVE  dx(c) \in ks /\ dy(c) \in rs /\ Index(column(dx(c)), row(dy(c)), mw) = c
  <2> DEFINE a == c % mw
             b == c \div mw
             k == dx(c)
             r == dy(c)
  <2>1. a \in 0..(mw - 1) /\ b \in 0..(mh - 1) /\ c = Index(a, b, mw) /\ b \in 0..(MV - 1)
    BY <1>2, <1>5
  <2>2. k \in 0..(w - 1) /\ r \in 0..(h - 1)
    BY <1>7
  <2>3. k = Fallen(a, x, mw, wrap) /\ r = Fallen(b, y, MV, wrap)
    OBVIOUS
  <2> HIDE DEF a, b, k, r
  <2>4. k \in 0..(mw - 1) /\ r \in 0..(MV - 1)
    BY <1>2, <1>3, <2>2
  <2>5. column(k) = a /\ row(r) = b
    BY <1>2, <2>1, <2>3, <2>4, FallsOnce
  <2>6. a < mw /\ b < mh
    BY <1>2, <2>1
  <2> HIDE DEF column, row
  <2>7. k \in ks /\ r \in rs /\ Index(column(k), row(r), mw) = c
    BY <2>1, <2>2, <2>5, <2>6
  <2> QED BY <2>7 DEF k, r
<1> HIDE DEF ks, rs, column, row, dx, dy
<1>8. \A cell \in cells : cell[1] \in Large
  BY <1>4
<1>9. ASSUME NEW c \in Large, NEW cell \in cells, cell[1] = c
      PROVE  On(c) /\ cell = <<c, texel(dx(c), dy(c))>>
  <2>1. PICK k \in ks, r \in rs : cell = <<Index(column(k), row(r), mw), texel(k, r)>>
    OBVIOUS
  <2>2. Index(column(k), row(r), mw) = c
    BY <1>9, <2>1
  <2>3. k = dx(c) /\ r = dy(c)
    BY <1>6, <2>2
  <2>4. k \in 0..(w - 1) /\ r \in 0..(h - 1)
    BY DEF ks, rs
  <2> HIDE DEF texel
  <2> QED BY <2>1, <2>2, <2>3, <2>4
<1>10. ASSUME NEW c \in Large, On(c) PROVE <<c, texel(dx(c), dy(c))>> \in cells
  <2> HIDE DEF On, texel
  <2> QED BY <1>7, <1>10
<1> QED BY <1>1, <1>8, <1>9, <1>10 DEF dx, dy, w, h, mw, mh

\* A texture's texels are the colours of the pixels below it, and the flag tells whether one of
\* them fell on the collision colour.
LEMMA TextureStep ==
  ASSUME MegaSizes, MapsAreWhole, NEW x \in Xs, NEW y \in Ys, NEW n, NEW i \in Nat,
         NEW wrap \in BOOLEAN,
         Mega!instruction_DxyN(x, y, n, i, wrap), Mega!IsTexture(op')
  PROVE  /\ \A c \in DOMAIN bg :
              bg'[c] = IF Mega!TexelOn(c, op') # {} THEN Mega!TexelOn(c, op') ELSE bg[c]
         /\ vf' = 1 <=> \E c \in DOMAIN hitmap :
                          Mega!TexelOn(c, op') # {} /\ hitmap[c] = texture.collide
<1> DEFINE dx(c) == Fallen(c % Mega!MW, x, Mega!MW, wrap)
           dy(c) == Fallen(c \div Mega!MW, y, MV, wrap)
           On(c) == dx(c) \in 0..(texture.w - 1) /\ dy(c) \in 0..(texture.h - 1)
           cells == Mega!TextureCells(x, y, i, wrap)
           Texel(c) == Byte(i + dy(c) * texture.w + dx(c))
           texel(c) == IF On(c) THEN Texel(c) ELSE {}
           drawn == {cell \in cells : cell[2] # {}}
<1>1. op'.x = x /\ op'.y = y /\ op'.i = i /\ op'.wrap = wrap
  BY MegaNames
<1>2. x \in Nat /\ y \in Nat
  BY OriginAssumption
<1>3. \A c : Mega!TexelOn(c, op') = texel(c)
  BY <1>1 DEF Mega!TexelOn, Fallen, Mega!Byte, Byte
<1>4. mode = "MC" /\ texture.font_pos # i /\ i + texture.w * texture.h < Len(Memory)
  BY <1>1 DEF Mega!IsTexture
<1>5. DOMAIN bg = Large /\ DOMAIN hitmap = Large
  BY DEF MapsAreWhole
<1>6. CASE ~wrap /\ y >= Mega!MH
  <2>1. vf' = 0 /\ bg' = bg
    BY <1>4, <1>6 DEF Mega!instruction_DxyN
  <2>2. \A c \in Large : texel(c) = {}
    <3> SUFFICES ASSUME NEW c \in Large PROVE ~On(c)
      OBVIOUS
    <3>1. c \div Mega!MW \in 0..(Mega!MH - 1)
      BY LargeIs, Places DEF Large
    <3>2. dy(c) = (c \div Mega!MW) - y
      BY <1>6 DEF Fallen
    <3>3. dy(c) < 0
      <4> DEFINE b == c \div Mega!MW
      <4>1. b \in 0..(Mega!MH - 1) /\ dy(c) = b - y
        BY <3>1, <3>2
      <4> HIDE DEF b, dy
      <4> QED BY <1>2, <1>6, <4>1, LargeIs
    <3> HIDE DEF dy
    <3> QED BY <3>3
  <2> HIDE DEF texel
  <2> QED BY <1>3, <1>5, <2>1, <2>2
<1>7. CASE ~(~wrap /\ y >= Mega!MH)
  <2>1. Mega!draw_texture(x, y, i, wrap)
    BY <1>4, <1>7 DEF Mega!instruction_DxyN
  <2>2. ~(i + texture.w * texture.h >= Len(Memory))
    <3>1. texture.w \in Nat /\ texture.h \in Nat /\ Len(Memory) \in Nat
      BY MemoryAssumption, LargeIs DEF MegaSizes, MapsAreWhole, Mega!NoTexture
    <3>2. texture.w * texture.h \in Nat
      BY <3>1
    <3> QED BY <1>4, <3>1, <3>2
  <2>3. /\ bg' = Mega!Over(bg, drawn)
        /\ vf' = IF \E cell \in drawn : hitmap[cell[1]] = texture.collide THEN 1 ELSE 0
    BY <2>1, <2>2 DEF Mega!draw_texture
  <2>4. /\ \A cell \in cells : cell[1] \in Large
        /\ \A c \in Large, cell \in cells : cell[1] = c => On(c) /\ cell = <<c, Texel(c)>>
        /\ \A c \in Large : On(c) => <<c, Texel(c)>> \in cells
    BY <1>2, TexelsAre
  <2> HIDE DEF On, Texel, cells
  <2>5. /\ \A cell \in drawn : cell[1] \in Large
        /\ \A c \in Large, cell \in drawn :
             cell[1] = c => cell = <<c, texel(c)>> /\ texel(c) # {}
        /\ \A c \in Large : texel(c) # {} => <<c, texel(c)>> \in drawn
    BY <2>4
  <2> HIDE DEF texel, drawn
  <2>6. ASSUME NEW c \in Large
        PROVE  bg'[c] = IF texel(c) # {} THEN texel(c) ELSE bg[c]
    <3>1. bg'[c] = IF \E cell \in drawn : cell[1] = c
                   THEN (CHOOSE cell \in drawn : cell[1] = c)[2] ELSE bg[c]
      BY <1>5, <2>3 DEF Mega!Over
    <3>2. (\E cell \in drawn : cell[1] = c) <=> texel(c) # {}
      BY <2>5
    <3>3. ASSUME texel(c) # {} PROVE (CHOOSE cell \in drawn : cell[1] = c)[2] = texel(c)
      <4> DEFINE d == CHOOSE cell \in drawn : cell[1] = c
      <4>1. \E cell \in drawn : cell[1] = c
        BY <3>2, <3>3
      <4>2. d \in drawn /\ d[1] = c
        BY <4>1
      <4> HIDE DEF d
      <4>3. d = <<c, texel(c)>>
        BY <2>5, <4>2
      <4>4. d[2] = texel(c)
        BY <4>3
      <4> QED BY <4>4 DEF d
    <3> QED BY <3>1, <3>2, <3>3
  <2>7. vf' = 1 <=> \E c \in Large : texel(c) # {} /\ hitmap[c] = texture.collide
    <3>1. ASSUME NEW cell \in drawn, hitmap[cell[1]] = texture.collide
          PROVE  \E c \in Large : texel(c) # {} /\ hitmap[c] = texture.collide
      BY <2>5, <3>1
    <3>2. ASSUME NEW c \in Large, texel(c) # {}, hitmap[c] = texture.collide
          PROVE  \E cell \in drawn : hitmap[cell[1]] = texture.collide
      <4>1. <<c, texel(c)>> \in drawn /\ <<c, texel(c)>>[1] = c
        BY <2>5, <3>2
      <4> QED BY <3>2, <4>1
    <3> QED BY <2>3, <3>1, <3>2
  <2> QED BY <1>3, <1>5, <2>6, <2>7
<1> QED BY <1>6, <1>7

\* Every draw of MEGACHIP, in its three modes.
LEMMA MegaDrawStep ==
  ASSUME MegaSizes, MapsAreWhole, Mega!Next
  PROVE  Mega!DrawFlipsSprite /\ Mega!FlagTellsErasure
<1> SUFFICES ASSUME op'.name = "draw" PROVE Mega!DrawFlipsSprite /\ Mega!FlagTellsErasure
  BY DEF Mega!DrawFlipsSprite, Mega!FlagTellsErasure, Mega!IsTexture
<1>1. PICK x \in Xs, y \in Ys, n \in 0..Rows, i \in Is, wrap \in BOOLEAN :
        Mega!instruction_DxyN(x, y, n, i, wrap)
  BY MegaNames DEF Mega!Next, Mega!instruction_00BN, Mega!instruction_00CN,
     Mega!instruction_00FB, Mega!instruction_00FC
<1>2. op'.x = x /\ op'.y = y /\ op'.n = n /\ op'.i = i /\ op'.wrap = wrap
  BY <1>1, MegaNames
<1>3. i \in Nat /\ i + BytesOf(n) <= Len(Memory) /\ W % 2 = 0 /\ H % 2 = 0
  BY <1>1 DEF Mega!instruction_DxyN, MegaSizes, Mega!BytesOf, BytesOf
<1>4. /\ mode = "HI" => Mega!HiresDraw(x, y, n, i)
      /\ mode = "LO" => Mega!LoresDraw(x, y, n, i)
  BY <1>1 DEF Mega!instruction_DxyN
<1>5. ASSUME mode = "HI", Mega!Inside(op')
      PROVE  /\ LET Sets(dx, dy) == Mega!SpriteBit(op'.n, op'.i, dx, dy)
                IN  Mega!Drawn(lit, lit', W, H, op'.x % W, op'.y % H, FALSE, Sets)
             /\ vf' = Mega!Cardinality({q \in 0..(H - 1) : \E p \in 0..(W - 1) :
                                          Mega!Index(p, q, W) \in lit \ lit'})
  <2>1. (x % W) + (IF n = 0 THEN 2 ELSE 1) * ByteW <= W
    BY <1>2, <1>5 DEF Mega!Inside
  <2>2. /\ \A p \in 0..(W - 1), q \in 0..(H - 1) :
              (Index(p, q, W) \in lit' <=> Index(p, q, W) \in lit)
                <=> ~(/\ p - (x % W) >= 0 /\ q - (y % H) >= 0
                      /\ SpriteBit(n, i, p - (x % W), q - (y % H)))
        /\ vf' = Cardinality({q \in 0..(H - 1) : \E p \in 0..(W - 1) :
                                 Index(p, q, W) \in lit \ lit'})
    BY <1>3, <1>4, <1>5, <2>1, HiresStep
  <2>3. \A S : Mega!Cardinality(S) = Cardinality(S)
    BY DEF Mega!Cardinality, Cardinality
  <2>4. vf' = Mega!Cardinality({q \in 0..(H - 1) : \E p \in 0..(W - 1) :
                                  Mega!Index(p, q, W) \in lit \ lit'})
    BY <2>2, <2>3 DEF Mega!Index, Index
  <2> QED BY <1>2, <2>2, <2>4 DEF Mega!Drawn, Mega!Index, Index, Mega!SpriteBit, SpriteBit,
                                  Mega!RowsOf, RowsOf, Mega!Byte, Byte
<1>6. ASSUME mode = "LO", Mega!RowsPaired(lit)
      PROVE  /\ LET Sets(dx, dy) == /\ dx < 2 * ByteW /\ dy < 2 * Mega!RowsOf(op'.n)
                                   /\ dx \div 2 \in Mega!Byte(op'.i + dy \div 2)
                IN  /\ Mega!Drawn(lit, lit', W, H, (2 * op'.x) % W, (2 * op'.y) % H, FALSE, Sets)
                    /\ Mega!RowsPaired(lit')
             /\ vf' = 1 <=> lit \ lit' # {}
  <2>1. /\ \A p \in 0..(W - 1), q \in 0..(H - 1) :
              LET dx == p - ((2 * x) % W)
                  dy == q - ((2 * y) % H)
              IN  (Index(p, q, W) \in lit' <=> Index(p, q, W) \in lit)
                    <=> ~(/\ dx >= 0 /\ dy >= 0
                          /\ dx < 2 * ByteW /\ dy < 2 * RowsOf(n)
                          /\ dx \div 2 \in Byte(i + dy \div 2))
        /\ Mega!RowsPaired(lit)'
        /\ vf' = 1 <=> lit \ lit' # {}
    BY <1>3, <1>4, <1>6, LoresStep
  <2>2. Mega!RowsPaired(lit')
    BY <2>1 DEF Mega!RowsPaired
  <2> QED BY <1>2, <2>1, <2>2 DEF Mega!Drawn, Mega!Index, Index, Mega!RowsOf, RowsOf,
                                  Mega!Byte, Byte
<1>7. ASSUME Mega!IsTexture(op')
      PROVE  /\ \A c \in DOMAIN bg :
                  bg'[c] = IF Mega!TexelOn(c, op') # {} THEN Mega!TexelOn(c, op') ELSE bg[c]
             /\ vf' = 1 <=> \E c \in DOMAIN hitmap :
                              Mega!TexelOn(c, op') # {} /\ hitmap[c] = texture.collide
  BY <1>1, <1>3, <1>7, TextureStep
<1>8. Mega!DrawFlipsSprite
  BY <1>5, <1>6, <1>7 DEF Mega!DrawFlipsSprite
<1>9. Mega!FlagTellsErasure
  BY <1>5, <1>6, <1>7 DEF Mega!FlagTellsErasure
<1> QED BY <1>8, <1>9

\* For any even sizes and any textures: a sprite of MEGACHIP flips exactly the pixels of its bits,
\* doubled in the smallest mode, and a texture's texels take the place of what lies below them; VF
\* tells what was hit; a scroll moves the small map, or the picture that the last erasure left.
THEOREM MegaPicturesAreTrue ==
  ASSUME MegaSizes
  PROVE  Mega!Spec => [][/\ Mega!DrawFlipsSprite /\ Mega!FlagTellsErasure
                         /\ Mega!ScrollMovesPictures]_(Mega!vars)
<1>1. Mega!Init => MapsAreWhole
  BY LargeIs DEF Mega!Init, MapsAreWhole
<1>2. MapsAreWhole /\ [Mega!Next]_(Mega!vars) => MapsAreWhole'
  BY MapsStay
<1>3. MapsAreWhole /\ Mega!Next =>
        Mega!DrawFlipsSprite /\ Mega!FlagTellsErasure /\ Mega!ScrollMovesPictures
  BY MegaDrawStep, MegaScrollStep
<1> QED BY <1>1, <1>2, <1>3, PTL DEF Mega!Spec

-----------------------------------------------------------------------------
(* Registers in memory                                                     *)

CONSTANTS
  Top,        \* the last register (15)
  Size,       \* the bytes of memory (4096, 65536 or more)
  Bytes       \* what a register and a byte of memory may be
VARIABLES
  address,    \* m_register_I
  bytes,      \* m_registers_V
  mem,        \* m_memory_bank
  saved       \* history: what was stored last

Transfer == INSTANCE Transfers WITH i <- address, v <- bytes, Value <- Bytes

\* There are fewer registers than bytes of memory.
SizesFit == Top \in Nat /\ Size \in Nat /\ Top < Size /\ Bytes \subseteq Nat /\ 0 \in Bytes

\* The types that the proof needs.
TransferTypes ==
  /\ address \in 0..(Size - 1) /\ bytes \in [0..Top -> Bytes] /\ mem \in [0..(Size - 1) -> Bytes]

\* What was stored last is still in memory: nothing else writes to it.
SavedIsThere ==
  /\ saved.at \in 0..(Size - 1) /\ Len(saved.list) \in 0..(Top + 1)
  /\ \A k \in 1..Len(saved.list) : saved.values[k] = mem[(saved.at + (k - 1)) % Size]

TransferIInv == TransferTypes /\ SavedIsThere

\* The registers that a transfer moves, each of them once.
Registers(list) ==
  /\ Len(list) \in 0..(Top + 1) /\ list \in [1..Len(list) -> 0..Top]
  /\ \A j, k \in 1..Len(list) : list[j] = list[k] => j = k

\* What 5xy2 and 5xy3 name is a list of registers, in either direction; so is V0 to VX.
LEMMA RangeIsRegisters ==
  ASSUME Top \in Nat, NEW x \in 0..Top, NEW y \in 0..Top
  PROVE  Registers(Transfer!Range(x, y)) /\ Transfer!UpTo(y) = Transfer!Range(0, y)
<1>1. ASSUME NEW n \in 0..(Top + 1), NEW list \in [1..n -> 0..Top],
             \A j, k \in 1..n : list[j] = list[k] => j = k
      PROVE  Registers(list)
  <2>1. Len(list) = n
    BY <1>1
  <2> QED BY <1>1, <2>1 DEF Registers
<1>2. ASSUME x <= y PROVE Registers(Transfer!Range(x, y))
  <2> DEFINE n == y - x + 1
             list == [k \in 1..n |-> x + k - 1]
  <2>1. n \in 0..(Top + 1) /\ list \in [1..n -> 0..Top]
    BY <1>2
  <2>2. \A j, k \in 1..n : list[j] = list[k] => j = k
    BY <2>1
  <2>3. Transfer!Range(x, y) = list
    BY <1>2 DEF Transfer!Range
  <2> HIDE DEF n, list
  <2>4. Registers(list)
    BY <1>1, <2>1, <2>2
  <2> QED BY <2>3, <2>4
<1>3. ASSUME x > y PROVE Registers(Transfer!Range(x, y))
  <2> DEFINE n == IF Transfer!transfers({}).ranges = "both" THEN x - y + 1 ELSE 0
             list == [k \in 1..n |-> x - k + 1]
  <2>1. n \in 0..(Top + 1) /\ list \in [1..n -> 0..Top]
    BY <1>3
  <2>2. \A j, k \in 1..n : list[j] = list[k] => j = k
    BY <2>1
  <2>3. Transfer!Range(x, y) = list
    <3>1. CASE Transfer!transfers({}).ranges = "both"
      BY <1>3, <3>1 DEF Transfer!Range
    <3>2. CASE Transfer!transfers({}).ranges # "both"
      <4>1. n = 0
        BY <3>2
      <4>2. list = <<>>
        BY <4>1
      <4> QED BY <1>3, <3>2, <4>2 DEF Transfer!Range
    <3> QED BY <3>1, <3>2
  <2> HIDE DEF n, list
  <2>4. Registers(list)
    BY <1>1, <2>1, <2>2
  <2> QED BY <2>3, <2>4
<1>4. Transfer!UpTo(y) = Transfer!Range(0, y)
  BY DEF Transfer!UpTo, Transfer!Range
<1> QED BY <1>2, <1>3, <1>4

\* Memory ends where it begins: a step to and fro.
LEMMA ToAndFro ==
  ASSUME NEW n \in Nat \ {0}, NEW a \in 0..(n - 1), NEW j \in 0..(n - 1)
  PROVE  (a + j) % n \in 0..(n - 1) /\ (((a + j) % n) - a) % n = j
<1>1. \A m \in 0..(n - 1) : m % n = m
  OBVIOUS
<1>2. \A m \in 0..(n - 1) : (m + n) % n = m /\ (m - n) % n = m
  OBVIOUS
<1>3. CASE a + j < n
  <2>1. (a + j) % n = a + j
    BY <1>1, <1>3
  <2>2. (a + j) - a = j /\ a + j \in 0..(n - 1)
    BY <1>3
  <2> QED BY <1>1, <2>1, <2>2
<1>4. CASE a + j >= n
  <2>1. a + j - n \in 0..(n - 1) /\ (a + j - n) + n = a + j
    BY <1>4
  <2>2. (a + j) % n = a + j - n
    BY <1>2, <2>1
  <2>3. (a + j - n) - a = j - n
    OBVIOUS
  <2> QED BY <1>2, <2>1, <2>2, <2>3
<1> QED BY <1>3, <1>4

\* A store writes each register to its own address.
LEMMA StoreStep ==
  ASSUME SizesFit, TransferIInv, NEW list, Registers(list), NEW next \in Int,
         Transfer!Store(list, next)
  PROVE  TransferIInv'
<1> USE DEF TransferIInv, TransferTypes
<1>1. Size \in Nat \ {0} /\ Top \in Nat /\ Len(list) \in 0..Size /\ Len(list) \in 0..(Top + 1)
  BY DEF SizesFit, Registers
<1>2. \A k \in 1..Len(list) : list[k] \in 0..Top /\ bytes[list[k]] \in Bytes
  BY DEF Registers
<1>3. \A n \in Int : n % Size \in 0..(Size - 1)
  BY <1>1
<1>4. address' \in 0..(Size - 1) /\ bytes' = bytes
  BY <1>3 DEF Transfer!Store, Transfer!Mirrored
<1> DEFINE at(a) == ((a - address) % Size) + 1
<1>5. mem' = [a \in 0..(Size - 1) |-> IF at(a) <= Len(list) THEN bytes[list[at(a)]] ELSE mem[a]]
  BY DEF Transfer!Store, Transfer!Mirrored, Transfer!Address
<1>6. \A a \in 0..(Size - 1) : at(a) \in 1..Size
  <2>1. \A a \in 0..(Size - 1) : a - address \in Int
    BY <1>1
  <2>2. \A a \in 0..(Size - 1) : (a - address) % Size \in 0..(Size - 1)
    BY <1>3, <2>1
  <2> QED BY <1>1, <2>2
<1>7. mem' \in [0..(Size - 1) -> Bytes]
  <2> HIDE DEF at
  <2>1. \A a \in 0..(Size - 1) : at(a) <= Len(list) => at(a) \in 1..Len(list)
    BY <1>1, <1>6
  <2> QED BY <1>2, <1>5, <2>1
<1>8. saved' = [at |-> address, list |-> list, values |-> [k \in 1..Len(list) |-> bytes[list[k]]]]
  BY DEF Transfer!Store
<1>9. ASSUME NEW k \in 1..Len(list)
      PROVE  bytes[list[k]] = mem'[(address + (k - 1)) % Size]
  <2> DEFINE a == (address + (k - 1)) % Size
  <2>1. k - 1 \in 0..(Size - 1)
    BY <1>1
  <2>2. a \in 0..(Size - 1) /\ (a - address) % Size = k - 1
    BY <1>1, <2>1, ToAndFro
  <2>3. at(a) = k
    BY <2>2
  <2> HIDE DEF a, at
  <2> QED BY <1>5, <2>2, <2>3 DEF a
<1> QED BY <1>1, <1>4, <1>7, <1>8, <1>9 DEF SavedIsThere

\* A fetch leaves memory, and takes each register from its own address.
LEMMA FetchStep ==
  ASSUME SizesFit, TransferIInv, NEW list, Registers(list), NEW next \in Int,
         Transfer!Fetch(list, next)
  PROVE  /\ TransferIInv'
         /\ \A k \in 1..Len(list) : bytes'[list[k]] = mem[(address + (k - 1)) % Size]
<1> USE DEF TransferIInv, TransferTypes
<1>1. Size \in Nat \ {0} /\ Top \in Nat /\ Len(list) \in 0..(Top + 1)
  BY DEF SizesFit, Registers
<1>2. \A n \in Int : n % Size \in 0..(Size - 1)
  BY <1>1
<1>3. address' \in 0..(Size - 1) /\ mem' = mem /\ saved' = saved
  BY <1>2 DEF Transfer!Fetch, Transfer!Mirrored
<1> DEFINE Holds(r) == \E k \in 1..Len(list) : list[k] = r
           pick(r) == CHOOSE k \in 1..Len(list) : list[k] = r
<1>4. bytes' = [r \in 0..Top |->
                 IF Holds(r) THEN mem[(address + (pick(r) - 1)) % Size] ELSE bytes[r]]
  BY DEF Transfer!Fetch, Transfer!Mirrored, Transfer!Index
<1>5. ASSUME NEW r \in 0..Top, Holds(r) PROVE pick(r) \in 1..Len(list) /\ list[pick(r)] = r
  BY <1>5
<1> HIDE DEF pick
<1>6. \A k \in 1..Len(list) : (address + (k - 1)) % Size \in 0..(Size - 1)
  <2>1. \A k \in 1..Len(list) : address + (k - 1) \in Int
    BY <1>1
  <2> QED BY <1>2, <2>1
<1>7. bytes' \in [0..Top -> Bytes]
  BY <1>4, <1>5, <1>6
<1>8. ASSUME NEW k \in 1..Len(list) PROVE bytes'[list[k]] = mem[(address + (k - 1)) % Size]
  <2>1. list[k] \in 0..Top /\ Holds(list[k])
    BY DEF Registers
  <2>2. pick(list[k]) = k
    BY <1>5, <2>1 DEF Registers
  <2> QED BY <1>4, <2>1, <2>2
<1> QED BY <1>3, <1>7, <1>8 DEF SavedIsThere

\* Where the transfers begin, and where they leave I.
LEMMA TransferInitial == SizesFit /\ Transfer!Init => TransferIInv
<1> SUFFICES ASSUME SizesFit, Transfer!Init PROVE TransferIInv
  OBVIOUS
<1>1. TransferTypes
  BY DEF SizesFit, Transfer!Init, Transfer!Index, Transfer!Address, TransferTypes
<1>2. saved.at = 0 /\ saved.list = <<>>
  BY DEF Transfer!Init, Transfer!None
<1> QED BY <1>1, <1>2 DEF SizesFit, TransferIInv, SavedIsThere

\* Where I goes behind a transfer is a number.
LEMMA Nexts ==
  ASSUME SizesFit, TransferTypes, NEW x \in 0..Top, NEW y \in 0..Top, NEW quirks
  PROVE  Transfer!Behind(x, quirks) \in Int /\ Transfer!BehindRange(x, y) \in Int
<1>1. address \in Int /\ Top \in Nat
  BY DEF SizesFit, TransferTypes
<1>2. Len(Transfer!Range(x, y)) \in Int
  BY <1>1, RangeIsRegisters DEF Registers
<1> QED BY <1>1, <1>2 DEF Transfer!Behind, Transfer!BehindRange

\* Every step keeps memory and what is known of it.
LEMMA TransferStep ==
  ASSUME SizesFit, TransferIInv, [Transfer!Next]_(Transfer!vars)
  PROVE  TransferIInv' /\ Transfer!SavedIsRestored
<1>1. Top \in Nat /\ Size \in Nat \ {0}
  BY DEF SizesFit
<1>2. \A x, y \in 0..Top : /\ Registers(Transfer!Range(x, y)) /\ Registers(Transfer!UpTo(y))
                          /\ Transfer!UpTo(y) = Transfer!Range(0, y)
  BY <1>1, RangeIsRegisters
<1>3. \A quirks : \A x, y \in 0..Top :
        Transfer!Behind(x, quirks) \in Int /\ Transfer!BehindRange(x, y) \in Int
  BY Nexts DEF TransferIInv
<1>4. TransferIInv'
  <2>1. CASE UNCHANGED Transfer!vars
    BY <2>1 DEF Transfer!vars, TransferIInv, TransferTypes, SavedIsThere
  <2>2. ASSUME NEW x \in 0..Top, NEW nn \in Bytes, Transfer!SetRegister(x, nn) PROVE TransferIInv'
    BY <2>2 DEF Transfer!SetRegister, TransferIInv, TransferTypes, SavedIsThere
  <2>3. ASSUME NEW n \in 0..(Size - 1), Transfer!SetI(n) PROVE TransferIInv'
    BY <2>3 DEF Transfer!SetI, TransferIInv, TransferTypes, SavedIsThere
  <2>4. ASSUME NEW x \in 0..Top, Transfer!instruction_Fx1E(x) PROVE TransferIInv'
    <3>1. address + bytes[x] \in Int
      <4>1. address \in Int /\ bytes[x] \in Bytes
        BY <1>1 DEF TransferIInv, TransferTypes
      <4>2. Bytes \subseteq Nat
        BY DEF SizesFit
      <4>3. bytes[x] \in Nat
        BY <4>1, <4>2
      <4> QED BY ONLY <4>1, <4>3
    <3>2. address' \in 0..(Size - 1)
      BY <1>1, <2>4, <3>1 DEF Transfer!instruction_Fx1E, Transfer!Mirrored
    <3> QED BY <2>4, <3>2 DEF Transfer!instruction_Fx1E, TransferIInv, TransferTypes, SavedIsThere
  <2>5. ASSUME NEW x \in 0..Top, NEW y \in 0..Top,
               Transfer!instruction_5xy2(x, y) \/ Transfer!instruction_5xy3(x, y)
        PROVE  TransferIInv'
    BY <1>2, <1>3, <2>5, StoreStep, FetchStep
       DEF Transfer!instruction_5xy2, Transfer!instruction_5xy3
  <2>6. ASSUME NEW n \in 0..Top, NEW quirks,
               Transfer!instruction_FN55(n, quirks) \/ Transfer!instruction_FN65(n, quirks)
        PROVE  TransferIInv'
    BY <1>2, <1>3, <2>6, StoreStep, FetchStep
       DEF Transfer!instruction_FN55, Transfer!instruction_FN65
  <2> QED BY <2>1, <2>2, <2>3, <2>4, <2>5, <2>6 DEF Transfer!Next, Transfer!Index, Transfer!Address
<1>5. Transfer!SavedIsRestored
  <2> SUFFICES ASSUME NEW x \in 0..Top, NEW y \in 0..Top,
                      address = saved.at, saved.list = Transfer!Range(x, y),
                      \/ Transfer!instruction_5xy3(x, y)
                      \/ /\ x = 0
                         /\ \E quirks \in Transfer!Quirks : Transfer!instruction_FN65(y, quirks),
                      NEW k \in 1..Len(saved.list)
               PROVE  bytes'[saved.list[k]] = saved.values[k]
    BY DEF Transfer!SavedIsRestored, Transfer!Index
  <2>1. \E next \in Int : Transfer!Fetch(saved.list, next)
    <3>1. CASE Transfer!instruction_5xy3(x, y)
      BY <1>3, <3>1 DEF Transfer!instruction_5xy3
    <3>2. CASE x = 0 /\ \E quirks \in Transfer!Quirks : Transfer!instruction_FN65(y, quirks)
      BY <1>2, <1>3, <3>2 DEF Transfer!instruction_FN65
    <3> QED BY <3>1, <3>2
  <2>2. bytes'[saved.list[k]] = mem[(address + (k - 1)) % Size]
    BY <1>2, <2>1, FetchStep
  <2>3. saved.values[k] = mem[(saved.at + (k - 1)) % Size]
    BY DEF TransferIInv, SavedIsThere
  <2> QED BY <2>2, <2>3
<1> QED BY <1>4, <1>5

\* For any number of registers and any larger memory: what was stored comes back with the
\* values that it had, to the same registers, across the end of memory and in either direction,
\* as long as I is what it was.
THEOREM StoredIsFetched ==
  ASSUME SizesFit
  PROVE  Transfer!Spec => [][Transfer!SavedIsRestored]_(Transfer!vars)
<1>1. Transfer!Init => TransferIInv
  BY TransferInitial
<1>2. TransferIInv /\ [Transfer!Next]_(Transfer!vars) =>
        TransferIInv' /\ [Transfer!SavedIsRestored]_(Transfer!vars)
  BY TransferStep
<1> QED BY <1>1, <1>2, PTL DEF Transfer!Spec

-----------------------------------------------------------------------------
(* Registers in a file                                                     *)

CONSTANTS
  System, Game, Runs, Count, Contents
VARIABLES
  game, path, files, shared, step, mixed, last, unsaved

Perma == INSTANCE PermaRegisters

\* Every system runs a program.
GamesRun == Count \in Nat /\ Runs \subseteq [System -> Game]

\* The types that the proof needs.
Labels == {"idle", "write", "set", "read", "get"}
Found == {<<>>} \cup UNION {Contents[s] : s \in System}
Steps == [at : Labels, n : 0..Count, values : Found]
PermaTypes ==
  /\ game \in [System -> Game] /\ path \subseteq System /\ mixed \subseteq System
  /\ DOMAIN files = Game /\ DOMAIN last = Game
  /\ step \in [System -> Steps]
  /\ \A s \in System : step[s].at = "idle" => step[s] = Perma!Idle
  /\ \A s \in System : step[s].at # "idle" => step[s].n \in 1..Count

Busy(s) == step[s].at # "idle"
Known(g) == last[g] # Perma!Unknown /\ g \notin unsaved

\* Systems whose instructions overlap are mixed.
OverlapsAreMixed == \A s, t \in System : s # t /\ Busy(s) /\ Busy(t) => s \in mixed

\* Of the systems of a program whose last store is known, one at most is in an instruction.
OneIsBusy ==
  \A s, t \in System : game[s] = game[t] /\ Known(game[s]) /\ Busy(s) /\ Busy(t) => s = t

\* A file that is not about to be written holds what was stored last; one that is not
\* there yet, nothing but zeroes.
FilesAreLast ==
  /\ \A g \in Game :
       Known(g) /\ (\A s \in System : game[s] = g => step[s].at # "write") =>
         \A r \in 1..Len(files[g].bytes) : files[g].bytes[r] = last[g][r]
  /\ \A g \in Game : Known(g) /\ ~files[g].there => last[g] = Perma!Zeroes

\* What is about to be written was stored last.
WritesAreLast ==
  \A s \in System :
    step[s].at = "write" /\ Known(game[s]) =>
      \A r \in 1..step[s].n : step[s].values[r] = last[game[s]][r]

\* What is about to be loaded was stored last.
LoadsAreLast ==
  \A s \in System :
    step[s].at = "get" /\ s \in path \ mixed /\ Known(game[s]) =>
      \A r \in 1..step[s].n :
        r <= Len(files[game[s]].bytes) => shared[r] = last[game[s]][r]

PermaIInv ==
  /\ PermaTypes /\ OverlapsAreMixed /\ OneIsBusy
  /\ FilesAreLast /\ WritesAreLast /\ LoadsAreLast

\* The steps of a worker: where it is then, and that the others stay.
LEMMA AtStep ==
  ASSUME PermaTypes, NEW s \in System, NEW label \in {"set", "get"},
         step[s].at # "idle", Perma!At(s, label)
  PROVE  /\ step' \in [System -> Steps] /\ step'[s].at = label
         /\ step'[s].n = step[s].n /\ step'[s].values = step[s].values
         /\ \A t \in System \ {s} : step'[t] = step[t]
         /\ \A t \in System : step'[t].at = "idle" => step'[t] = Perma!Idle
         /\ \A t \in System : step'[t].at # "idle" => step'[t].n \in 1..Count
<1>1. step \in [System -> Steps] /\ step[s] \in Steps /\ label \in Labels
  BY DEF PermaTypes, Labels
<1>2. [step[s] EXCEPT !.at = label] =
        [at |-> label, n |-> step[s].n, values |-> step[s].values]
  BY <1>1 DEF Steps
<1>3. step' = [step EXCEPT ![s] = [at |-> label, n |-> step[s].n, values |-> step[s].values]]
  BY <1>2 DEF Perma!At
<1>4. [at |-> label, n |-> step[s].n, values |-> step[s].values] \in Steps
  BY <1>1 DEF Steps
<1>5. step' \in [System -> Steps] /\ \A t \in System \ {s} : step'[t] = step[t]
  BY <1>1, <1>3, <1>4
<1>6. step'[s] = [at |-> label, n |-> step[s].n, values |-> step[s].values]
  BY <1>1, <1>3
<1>7. step[s].n \in 1..Count
  BY DEF PermaTypes
<1> QED BY <1>5, <1>6, <1>7 DEF PermaTypes

\* A worker starts an instruction, the others stay where they are.
LEMMA StartStep ==
  ASSUME GamesRun, PermaTypes, NEW s \in System, NEW label \in {"write", "set", "read", "get"},
         NEW n \in 1..Count, NEW values \in Found,
         Perma!Starts(s, label, n, values)
  PROVE  /\ step' \in [System -> Steps] /\ step'[s].at = label
         /\ step'[s].n = n /\ step'[s].values = values
         /\ \A t \in System \ {s} : step'[t] = step[t]
         /\ \A t \in System : step'[t].at = "idle" => step'[t] = Perma!Idle
         /\ \A t \in System : step'[t].at # "idle" => step'[t].n \in 1..Count
<1>1. step \in [System -> Steps] /\ label \in Labels /\ n \in 0..Count
  BY DEF PermaTypes, Labels, GamesRun
<1>2. [at |-> label, n |-> n, values |-> values] \in Steps
  BY <1>1 DEF Steps
<1>3. step' \in [System -> Steps] /\ \A t \in System \ {s} : step'[t] = step[t]
  BY <1>1, <1>2 DEF Perma!Starts
<1>4. step'[s] = [at |-> label, n |-> n, values |-> values]
  BY <1>1 DEF Perma!Starts
<1> QED BY <1>3, <1>4 DEF PermaTypes

\* A worker between two instructions.
LEMMA IdleIsStep == GamesRun => Perma!Idle \in Steps
<1> SUFFICES ASSUME GamesRun PROVE Perma!Idle \in Steps
  OBVIOUS
<1>1. 0 \in 0..Count
  BY DEF GamesRun
<1>2. "idle" \in Labels
  BY DEF Labels
<1>3. <<>> \in Found
  BY DEF Found
<1> QED BY <1>1, <1>2, <1>3 DEF Perma!Idle, Steps

\* A worker ends its instruction and is no longer mixed.
LEMMA EndStep ==
  ASSUME GamesRun, PermaTypes, NEW s \in System, Perma!Ends(s)
  PROVE  /\ step' \in [System -> Steps] /\ step'[s].at = "idle" /\ mixed' = mixed \ {s}
         /\ \A t \in System \ {s} : step'[t] = step[t]
         /\ \A t \in System : step'[t].at = "idle" => step'[t] = Perma!Idle
         /\ \A t \in System : step'[t].at # "idle" => step'[t].n \in 1..Count
<1>1. step \in [System -> Steps]
  BY DEF PermaTypes
<1>2. Perma!Idle \in Steps
  BY IdleIsStep
<1>3. step' \in [System -> Steps] /\ \A t \in System \ {s} : step'[t] = step[t]
  BY <1>1, <1>2 DEF Perma!Ends
<1>4. step'[s] = Perma!Idle /\ mixed' = mixed \ {s}
  BY <1>1 DEF Perma!Ends
<1> QED BY <1>3, <1>4 DEF PermaTypes, Perma!Idle

\* A worker that begins makes its overlaps known.
LEMMA BeginStep ==
  ASSUME PermaTypes, OverlapsAreMixed, NEW s \in System, ~Busy(s), Perma!Begins(s)
  PROVE  /\ mixed' \subseteq System /\ mixed \subseteq mixed'
         /\ \A t \in System \ {s} : Busy(t) => s \in mixed' /\ t \in mixed'
<1>1. \A t \in System \ {s} : Busy(t) => t \in Perma!Others(s)
  BY DEF Perma!Others, Perma!Idle, Busy
<1>2. Perma!Others(s) \subseteq System /\ mixed \subseteq System
  BY DEF Perma!Others, PermaTypes
<1> QED BY <1>1, <1>2 DEF Perma!Begins

\* A file from an earlier day holds zeroes.
LEMMA PermaInitial == GamesRun /\ Perma!Init => PermaIInv
<1> SUFFICES ASSUME GamesRun, Perma!Init PROVE PermaIInv
  OBVIOUS
<1>1. step = [s \in System |-> [at |-> "idle", n |-> 0, values |-> <<>>]]
  BY DEF Perma!Init, Perma!Idle
<1>2. \A s \in System : step[s].at = "idle" /\ step[s] = Perma!Idle
  BY <1>1 DEF Perma!Idle
<1>3. PermaTypes
  <2>1. step \in [System -> Steps]
    BY <1>1, IdleIsStep DEF Perma!Idle
  <2>2. DOMAIN files = Game /\ DOMAIN last = Game /\ game \in [System -> Game]
    BY DEF Perma!Init, GamesRun
  <2> QED BY <1>2, <2>1, <2>2 DEF Perma!Init, PermaTypes
<1>4. FilesAreLast
  <2> SUFFICES ASSUME NEW g \in Game
               PROVE  /\ \A r \in 1..Len(files[g].bytes) : files[g].bytes[r] = last[g][r]
                      /\ last[g] = Perma!Zeroes
    BY DEF FilesAreLast
  <2>1. last[g] = Perma!Zeroes
    BY DEF Perma!Init
  <2>2. files[g].bytes = <<>> \/ files[g].bytes = Perma!Zeroes
    BY DEF Perma!Init, Perma!NoFile, Perma!File
  <2> QED BY <2>1, <2>2
<1>5. OverlapsAreMixed /\ OneIsBusy /\ WritesAreLast /\ LoadsAreLast
  BY <1>2 DEF OverlapsAreMixed, OneIsBusy, WritesAreLast, LoadsAreLast, Busy
<1> QED BY <1>3, <1>4, <1>5 DEF PermaIInv

\* A store makes its values the last, unless another system is in an instruction.
LEMMA SetTestStep ==
  ASSUME GamesRun, PermaIInv, NEW s \in System, NEW n \in 1..Count, Perma!SetTest(s, n)
  PROVE  PermaIInv'
<1> USE DEF PermaIInv
<1>1. PICK values \in Contents[s] :
        /\ Perma!Starts(s, IF s \in path' THEN "write" ELSE "set", n, values)
        /\ last' = [last EXCEPT ![game[s]] =
                      IF Perma!Sharing(s) \/ last[game[s]] = Perma!Unknown
                      THEN Perma!Unknown ELSE Perma!Over(n, values, last[game[s]])]
  BY DEF Perma!SetTest
<1>2. /\ values \in Found
      /\ (IF s \in path' THEN "write" ELSE "set") \in {"write", "set", "read", "get"}
  BY DEF Found
<1>3. /\ step' \in [System -> Steps] /\ step'[s].at = (IF s \in path' THEN "write" ELSE "set")
      /\ step'[s].n = n /\ step'[s].values = values
      /\ \A t \in System \ {s} : step'[t] = step[t]
      /\ \A t \in System : step'[t].at = "idle" => step'[t] = Perma!Idle
      /\ \A t \in System : step'[t].at # "idle" => step'[t].n \in 1..Count
  BY <1>1, <1>2, StartStep
<1>4. ~Busy(s) /\ step[s].at = "idle"
  BY DEF Perma!SetTest, Perma!Idle, Busy
<1>5. /\ mixed' \subseteq System /\ mixed \subseteq mixed'
      /\ \A t \in System \ {s} : Busy(t) => s \in mixed' /\ t \in mixed'
  BY <1>4, BeginStep DEF Perma!SetTest
<1>6. /\ game' = game /\ files' = files /\ shared' = shared
      /\ path' \subseteq path /\ (s \in path' <=> s \in path /\ files[game[s]].there)
      /\ unsaved' = IF s \in path' THEN unsaved ELSE unsaved \cup {game[s]}
      /\ \A t \in System \ {s} : t \in path' <=> t \in path
  BY DEF Perma!SetTest
<1>7. game \in [System -> Game] /\ game[s] \in Game
  BY DEF PermaTypes
<1>8. PermaTypes'
  BY <1>1, <1>3, <1>5, <1>6 DEF PermaTypes
<1>9. /\ \A g \in Game \ {game[s]} : last'[g] = last[g]
      /\ Known(game[s])' => /\ last'[game[s]] = Perma!Over(n, values, last[game[s]])
                            /\ ~Perma!Sharing(s) /\ s \in path'
      /\ \A g \in Game : Known(g)' => Known(g)
  BY <1>1, <1>6, <1>7 DEF Known, PermaTypes
<1>10. \A t \in System \ {s} : Busy(t)' <=> Busy(t)
  BY <1>3 DEF Busy
<1>11. OverlapsAreMixed'
  BY <1>5, <1>10 DEF OverlapsAreMixed
<1>12. OneIsBusy'
  <2>1. Known(game[s])' => \A t \in System \ {s} : game[t] = game[s] => ~Busy(t)
    BY <1>9 DEF Perma!Sharing, Perma!Others, Perma!Idle, Busy
  <2> QED BY <1>6, <1>9, <1>10, <2>1, <1>7 DEF OneIsBusy
<1>13. FilesAreLast'
  <2>1. ASSUME NEW g \in Game, Known(g)', \A t \in System : game'[t] = g => step'[t].at # "write",
               NEW r \in 1..Len(files'[g].bytes)
        PROVE  files'[g].bytes[r] = last'[g][r]
    <3>1. g # game[s]
      BY <1>3, <1>6, <1>9, <2>1
    <3>2. \A t \in System : game[t] = g => step[t].at # "write"
      BY <1>3, <1>6, <2>1, <3>1
    <3> QED BY <1>6, <1>9, <2>1, <3>1, <3>2 DEF FilesAreLast
  <2>2. ASSUME NEW g \in Game, Known(g)', ~files'[g].there PROVE last'[g] = Perma!Zeroes
    BY <1>6, <1>9, <2>2 DEF FilesAreLast
  <2> QED BY <2>1, <2>2 DEF FilesAreLast
<1>14. WritesAreLast'
  <2> SUFFICES ASSUME NEW t \in System, step'[t].at = "write", Known(game[t])',
                      NEW r \in 1..step'[t].n
               PROVE  step'[t].values[r] = last'[game[t]][r]
    BY <1>6 DEF WritesAreLast
  <2>1. CASE t = s
    BY <1>3, <1>9, <2>1 DEF Perma!Over, Perma!Width, GamesRun
  <2>2. CASE t # s
    <3>1. game[t] # game[s]
      <4>1. Busy(t) /\ step[t] # Perma!Idle
        BY <1>3, <2>2 DEF Busy, Perma!Idle
      <4>2. game[t] = game[s] => Perma!Sharing(s)
        BY <2>2, <4>1 DEF Perma!Sharing, Perma!Others
      <4> QED BY <1>6, <1>9, <4>2 DEF Known
    <3>2. step'[t] = step[t] /\ game[t] \in Game
      BY <1>3, <1>7, <2>2
    <3> QED BY <1>6, <1>9, <3>1, <3>2 DEF WritesAreLast, Known
  <2> QED BY <2>1, <2>2
<1>15. LoadsAreLast'
  <2> SUFFICES ASSUME NEW t \in System, step'[t].at = "get", t \in path' \ mixed'
               PROVE  FALSE
    BY DEF LoadsAreLast
  <2>1. t # s /\ Busy(t)
    BY <1>3 DEF Busy
  <2> QED BY <1>5, <2>1
<1> QED BY <1>8, <1>11, <1>12, <1>13, <1>14, <1>15

\* The file becomes what was stored last, or nothing is known of it.
LEMMA SetFileStep ==
  ASSUME GamesRun, PermaIInv, NEW s \in System, Perma!SetFile(s)
  PROVE  PermaIInv'
<1> USE DEF PermaIInv
<1>1. step[s].at = "write" /\ Busy(s) /\ step[s].n \in 1..Count
  BY DEF Perma!SetFile, Busy, PermaTypes
<1>2. /\ step' \in [System -> Steps] /\ step'[s].at = "set"
      /\ \A t \in System \ {s} : step'[t] = step[t]
      /\ \A t \in System : step'[t].at = "idle" => step'[t] = Perma!Idle
      /\ \A t \in System : step'[t].at # "idle" => step'[t].n \in 1..Count
  BY <1>1, AtStep DEF Perma!SetFile
<1>3. /\ game' = game /\ path' = path /\ shared' = shared /\ mixed' = mixed
      /\ unsaved' = unsaved
  BY DEF Perma!SetFile
<1>4. game[s] \in Game /\ \A t \in System : game[t] \in Game
  BY DEF PermaTypes
<1>5. /\ DOMAIN files' = Game /\ DOMAIN last' = Game
      /\ \A g \in Game \ {game[s]} : files'[g] = files[g] /\ last'[g] = last[g]
      /\ Known(game[s])' =>
           /\ last'[game[s]] = last[game[s]]
           /\ files'[game[s]] = Perma!File(Perma!First(step[s].n, step[s].values))
      /\ \A g \in Game : Known(g)' => Known(g) /\ last'[g] = last[g]
  <2>1. CASE /\ files' = [files EXCEPT ![game[s]] =
                            Perma!File(Perma!First(step[s].n, step[s].values))]
             /\ UNCHANGED last
    BY <1>3, <1>4, <2>1 DEF Known, PermaTypes
  <2>2. CASE /\ files' \in {files, [files EXCEPT ![game[s]] = Perma!File(<<>>)]}
             /\ Perma!Loses(s)
    BY <1>3, <1>4, <2>2 DEF Known, PermaTypes, Perma!Loses
  <2> QED BY <2>1, <2>2 DEF Perma!SetFile
<1>6. PermaTypes'
  BY <1>2, <1>3, <1>5 DEF PermaTypes
<1>7. \A t \in System : Busy(t)' <=> Busy(t)
  BY <1>1, <1>2 DEF Busy
<1>8. OverlapsAreMixed' /\ OneIsBusy'
  BY <1>3, <1>4, <1>5, <1>7 DEF OverlapsAreMixed, OneIsBusy, Known
<1>9. FilesAreLast'
  <2>1. ASSUME NEW g \in Game, Known(g)', \A t \in System : game'[t] = g => step'[t].at # "write",
               NEW r \in 1..Len(files'[g].bytes)
        PROVE  files'[g].bytes[r] = last'[g][r]
    <3>1. CASE g = game[s]
      <4>1. /\ files'[g].bytes = Perma!First(step[s].n, step[s].values)
            /\ last'[g] = last[g] /\ Known(g)
        BY <1>3, <1>5, <2>1, <3>1 DEF Perma!File, Known
      <4>2. r \in 1..step[s].n /\ files'[g].bytes[r] = step[s].values[r]
        BY <1>1, <2>1, <4>1 DEF Perma!First, GamesRun
      <4> QED BY <1>1, <3>1, <4>1, <4>2 DEF WritesAreLast
    <3>2. CASE g # game[s]
      <4>1. \A t \in System : game[t] = g => step[t].at # "write"
        BY <1>2, <1>3, <2>1, <3>2
      <4> QED BY <1>5, <2>1, <3>2, <4>1 DEF FilesAreLast
    <3> QED BY <3>1, <3>2
  <2>2. ASSUME NEW g \in Game, Known(g)', ~files'[g].there PROVE last'[g] = Perma!Zeroes
    <3>1. g # game[s]
      BY <1>3, <1>5, <2>2 DEF Perma!File, Known
    <3> QED BY <1>5, <2>2, <3>1 DEF FilesAreLast
  <2> QED BY <2>1, <2>2 DEF FilesAreLast
<1>10. WritesAreLast'
  BY <1>2, <1>3, <1>4, <1>5 DEF WritesAreLast, Known
<1>11. LoadsAreLast'
  <2> SUFFICES ASSUME NEW t \in System, step'[t].at = "get", t \in path' \ mixed'
               PROVE  FALSE
    BY DEF LoadsAreLast
  <2>1. t # s /\ Busy(t)
    BY <1>2 DEF Busy
  <2> QED BY <1>1, <1>3, <2>1 DEF OverlapsAreMixed
<1> QED BY <1>6, <1>8, <1>9, <1>10, <1>11

\* The end of an instruction; the shared array is read by mixed systems at most.
LEMMA SetSharedStep ==
  ASSUME GamesRun, PermaIInv, NEW s \in System, Perma!SetShared(s) \/ Perma!GetShared(s)
  PROVE  PermaIInv'
<1> USE DEF PermaIInv
<1>1. Busy(s) /\ step[s].at \in {"set", "get"} /\ Perma!Ends(s)
  BY DEF Perma!SetShared, Perma!GetShared, Busy
<1>2. /\ step' \in [System -> Steps] /\ step'[s].at = "idle" /\ mixed' = mixed \ {s}
      /\ \A t \in System \ {s} : step'[t] = step[t]
      /\ \A t \in System : step'[t].at = "idle" => step'[t] = Perma!Idle
      /\ \A t \in System : step'[t].at # "idle" => step'[t].n \in 1..Count
  BY <1>1, EndStep
<1>3. /\ game' = game /\ path' = path /\ files' = files /\ last' = last
      /\ unsaved' = unsaved
  BY DEF Perma!SetShared, Perma!GetShared
<1>4. PermaTypes'
  BY <1>2, <1>3 DEF PermaTypes
<1>5. \A t \in System : Busy(t)' => Busy(t) /\ t # s
  BY <1>2 DEF Busy
<1>6. OverlapsAreMixed' /\ OneIsBusy'
  BY <1>2, <1>3, <1>5 DEF OverlapsAreMixed, OneIsBusy, Known
<1>7. FilesAreLast'
  <2>1. \A t \in System : step[t].at = "write" => step'[t].at = "write"
    BY <1>1, <1>2
  <2> QED BY <1>3, <2>1 DEF FilesAreLast, Known
<1>8. WritesAreLast'
  BY <1>2, <1>3 DEF WritesAreLast, Known
<1>9. LoadsAreLast'
  <2> SUFFICES ASSUME NEW t \in System, step'[t].at = "get", t \in path' \ mixed'
               PROVE  FALSE
    BY DEF LoadsAreLast
  <2>1. t # s /\ Busy(t)
    BY <1>2 DEF Busy
  <2> QED BY <1>1, <1>2, <2>1 DEF OverlapsAreMixed
<1> QED BY <1>4, <1>6, <1>7, <1>8, <1>9

\* A load before any store makes a file of zeroes.
LEMMA GetTestStep ==
  ASSUME GamesRun, PermaIInv, NEW s \in System, NEW n \in 1..Count, Perma!GetTest(s, n)
  PROVE  PermaIInv'
<1> USE DEF PermaIInv
<1>1. <<>> \in Found /\ (IF s \in path THEN "read" ELSE "get") \in {"write", "set", "read", "get"}
  BY DEF Found
<1>2. /\ step' \in [System -> Steps] /\ step'[s].at = (IF s \in path THEN "read" ELSE "get")
      /\ \A t \in System \ {s} : step'[t] = step[t]
      /\ \A t \in System : step'[t].at = "idle" => step'[t] = Perma!Idle
      /\ \A t \in System : step'[t].at # "idle" => step'[t].n \in 1..Count
  BY <1>1, StartStep DEF Perma!GetTest
<1>3. ~Busy(s) /\ step[s].at = "idle"
  BY DEF Perma!GetTest, Perma!Idle, Busy
<1>4. /\ mixed' \subseteq System /\ mixed \subseteq mixed'
      /\ \A t \in System \ {s} : Busy(t) => s \in mixed' /\ t \in mixed'
  BY <1>3, BeginStep DEF Perma!GetTest
<1>5. game' = game /\ shared' = shared /\ unsaved' = unsaved /\ path' = path
  BY DEF Perma!GetTest
<1>6. \A t \in System : game[t] \in Game
  BY DEF PermaTypes
<1>7. /\ DOMAIN files' = Game /\ DOMAIN last' = Game
      /\ \A g \in Game : \/ files'[g] = files[g]
                         \/ files'[g] = Perma!File(Perma!Zeroes) /\ ~files[g].there
      /\ \A g \in Game : Known(g)' => Known(g) /\ last'[g] = last[g]
      /\ Known(game[s])' => ~Perma!Sharing(s)
  <2>1. CASE files' = [files EXCEPT ![game[s]] = Perma!File(Perma!Zeroes)]
             /\ ~files[game[s]].there
    BY <1>5, <1>6, <2>1 DEF Known, PermaTypes, Perma!GetTest, Perma!LosesIfSharing, Perma!Loses
  <2>2. CASE files' = files
    BY <1>5, <1>6, <2>2 DEF Known, PermaTypes, Perma!GetTest, Perma!LosesIfSharing, Perma!Loses
  <2> QED BY <2>1, <2>2 DEF Perma!GetTest
<1>8. PermaTypes'
  BY <1>2, <1>4, <1>5, <1>7 DEF PermaTypes
<1>9. \A t \in System \ {s} : Busy(t)' <=> Busy(t)
  BY <1>2 DEF Busy
<1>10. OverlapsAreMixed'
  BY <1>4, <1>9 DEF OverlapsAreMixed
<1>11. OneIsBusy'
  <2>1. Known(game[s])' => \A t \in System \ {s} : game[t] = game[s] => ~Busy(t)
    BY <1>7 DEF Perma!Sharing, Perma!Others, Perma!Idle, Busy
  <2> QED BY <1>5, <1>6, <1>7, <1>9, <2>1 DEF OneIsBusy, Known
<1>12. FilesAreLast'
  <2>1. ASSUME NEW g \in Game, Known(g)', \A t \in System : game'[t] = g => step'[t].at # "write",
               NEW r \in 1..Len(files'[g].bytes)
        PROVE  files'[g].bytes[r] = last'[g][r]
    <3>1. \A t \in System : game[t] = g => step[t].at # "write"
      BY <1>2, <1>3, <1>5, <2>1
    <3>2. CASE files'[g] = files[g]
      BY <1>7, <2>1, <3>1, <3>2 DEF FilesAreLast
    <3>3. CASE files'[g] = Perma!File(Perma!Zeroes) /\ ~files[g].there
      BY <1>7, <2>1, <3>3 DEF FilesAreLast, Perma!File
    <3> QED BY <1>7, <3>2, <3>3
  <2>2. ASSUME NEW g \in Game, Known(g)', ~files'[g].there PROVE last'[g] = Perma!Zeroes
    BY <1>7, <2>2 DEF FilesAreLast, Perma!File
  <2> QED BY <2>1, <2>2 DEF FilesAreLast
<1>13. WritesAreLast'
  <2>1. \A t \in System : step'[t].at = "write" => t # s /\ step'[t] = step[t]
    BY <1>2
  <2> QED BY <1>5, <1>6, <1>7, <2>1 DEF WritesAreLast, Known
<1>14. LoadsAreLast'
  <2> SUFFICES ASSUME NEW t \in System, step'[t].at = "get", t \in path' \ mixed', Known(game[t])',
                      NEW r \in 1..step'[t].n, r <= Len(files'[game[t]].bytes)
               PROVE  shared[r] = last'[game[t]][r]
    BY <1>5 DEF LoadsAreLast
  <2>1. t # s /\ Busy(t)
    BY <1>2, <1>5 DEF Busy
  <2> QED BY <1>4, <2>1
<1> QED BY <1>8, <1>10, <1>11, <1>12, <1>13, <1>14

\* The shared array becomes what the file holds.
LEMMA GetFileStep ==
  ASSUME GamesRun, PermaIInv, NEW s \in System, Perma!GetFile(s)
  PROVE  PermaIInv'
<1> USE DEF PermaIInv
<1>1. step[s].at = "read" /\ Busy(s) /\ step[s].n \in 1..Count
  BY DEF Perma!GetFile, Busy, PermaTypes
<1>2. /\ step' \in [System -> Steps] /\ step'[s].at = "get" /\ step'[s].n = step[s].n
      /\ \A t \in System \ {s} : step'[t] = step[t]
      /\ \A t \in System : step'[t].at = "idle" => step'[t] = Perma!Idle
      /\ \A t \in System : step'[t].at # "idle" => step'[t].n \in 1..Count
  BY <1>1, AtStep DEF Perma!GetFile
<1>3. /\ game' = game /\ files' = files /\ mixed' = mixed /\ unsaved' = unsaved
      /\ path' \subseteq path
  BY DEF Perma!GetFile, Perma!Given
<1>4. \A t \in System : game[t] \in Game
  BY DEF PermaTypes
<1>5. /\ DOMAIN last' = Game
      /\ \A g \in Game : Known(g)' => Known(g) /\ last'[g] = last[g]
      /\ Known(game[s])' =>
           shared' = Perma!Over(step[s].n, Perma!Padded(step[s].n, files[game[s]].bytes), shared)
  <2>1. CASE /\ shared' =
                  Perma!Over(step[s].n, Perma!Padded(step[s].n, files[game[s]].bytes), shared)
             /\ UNCHANGED last
    BY <1>3, <2>1 DEF Known, PermaTypes
  <2>2. CASE Perma!Loses(s)
    BY <1>3, <1>4, <2>2 DEF Known, PermaTypes, Perma!Loses
  <2> QED BY <2>1, <2>2 DEF Perma!GetFile
<1>6. PermaTypes'
  BY <1>2, <1>3, <1>5 DEF PermaTypes
<1>7. \A t \in System : Busy(t)' <=> Busy(t)
  BY <1>1, <1>2 DEF Busy
<1>8. OverlapsAreMixed' /\ OneIsBusy'
  BY <1>3, <1>4, <1>5, <1>7 DEF OverlapsAreMixed, OneIsBusy, Known
<1>9. \A t \in System : (step'[t].at = "write" <=> step[t].at = "write") /\
                        (step[t].at = "write" => step'[t] = step[t])
  BY <1>1, <1>2
<1>10. FilesAreLast'
  BY <1>3, <1>5, <1>9 DEF FilesAreLast
<1>11. WritesAreLast'
  BY <1>3, <1>4, <1>5, <1>9 DEF WritesAreLast, Known
<1>12. LoadsAreLast'
  <2> SUFFICES ASSUME NEW t \in System, step'[t].at = "get", t \in path' \ mixed', Known(game[t])',
                      NEW r \in 1..step'[t].n, r <= Len(files'[game[t]].bytes)
               PROVE  shared'[r] = last'[game[t]][r]
    BY <1>3 DEF LoadsAreLast
  <2>1. t = s
    <3>1. t # s => Busy(t)
      BY <1>2 DEF Busy
    <3> QED BY <1>1, <1>3, <3>1 DEF OverlapsAreMixed
  <2>2. Known(game[s]) /\ last'[game[s]] = last[game[s]]
    BY <1>3, <1>4, <1>5, <2>1 DEF Known
  <2>3. \A u \in System : game[u] = game[s] => step[u].at # "write"
    BY <1>1, <2>2 DEF OneIsBusy, Busy
  <2>4. r \in 1..step[s].n /\ r \in 1..Count /\ r <= Len(files[game[s]].bytes)
    BY <1>1, <1>2, <1>3, <2>1 DEF GamesRun
  <2>5. shared'[r] = files[game[s]].bytes[r]
    <3>1. shared' = Perma!Over(step[s].n, Perma!Padded(step[s].n, files[game[s]].bytes), shared)
      BY <1>3, <1>5, <2>1 DEF Known
    <3> QED BY <2>4, <3>1 DEF Perma!Over, Perma!Padded, Perma!Width
  <2>6. files[game[s]].bytes[r] = last[game[s]][r]
    <3>1. r \in 1..Len(files[game[s]].bytes)
      BY <2>4
    <3> QED BY <1>4, <2>2, <2>3, <3>1 DEF FilesAreLast
  <2> QED BY <2>1, <2>2, <2>5, <2>6
<1> QED BY <1>6, <1>8, <1>10, <1>11, <1>12

\* When the process ends, nobody is in an instruction any more, and what the files that
\* were open hold is not known.
LEMMA TerminateStep ==
  ASSUME GamesRun, PermaIInv, NEW s \in System, Perma!Terminate(s)
  PROVE  PermaIInv'
<1> USE DEF PermaIInv
<1>1. /\ game' = game /\ unsaved' = unsaved /\ path' = System /\ mixed' = {}
      /\ step' = [t \in System |-> Perma!Idle]
  BY DEF Perma!Terminate
<1>2. Perma!Idle \in Steps /\ Perma!Idle.at = "idle"
  BY IdleIsStep DEF Perma!Idle
<1>3. /\ DOMAIN files' = Game /\ DOMAIN last' = Game
      /\ \A g \in Game : last'[g] = IF g \in Perma!Open(s) THEN Perma!Unknown ELSE last[g]
      /\ \A g \in Game \ Perma!Open(s) : files'[g] = files[g]
  BY DEF Perma!Terminate
<1>4. \A t \in System : step'[t] = Perma!Idle /\ ~Busy(t)'
  BY <1>1, <1>2 DEF Busy
<1>5. PermaTypes'
  BY <1>1, <1>2, <1>3 DEF PermaTypes
<1>6. OverlapsAreMixed' /\ OneIsBusy' /\ WritesAreLast' /\ LoadsAreLast'
  BY <1>2, <1>4 DEF OverlapsAreMixed, OneIsBusy, WritesAreLast, LoadsAreLast
<1>7. \A g \in Game :
        Known(g)' => /\ Known(g) /\ last'[g] = last[g] /\ files'[g] = files[g]
                     /\ \A t \in System : game[t] = g => step[t].at # "write"
  BY <1>1, <1>3 DEF Known, Perma!Open
<1>8. FilesAreLast'
  BY <1>7 DEF FilesAreLast
<1> QED BY <1>5, <1>6, <1>8

\* A restart gives a system its path again.
LEMMA RestartStep ==
  ASSUME GamesRun, PermaIInv, NEW s \in System, Perma!Restart(s)
  PROVE  PermaIInv'
<1> USE DEF PermaIInv
<1>1. /\ game' = game /\ files' = files /\ shared' = shared /\ step' = step /\ mixed' = mixed
      /\ last' = last /\ unsaved' = unsaved /\ path' = path \cup {s} /\ step[s].at = "idle"
  BY DEF Perma!Restart, Perma!Idle
<1>2. PermaTypes'
  BY <1>1 DEF PermaTypes
<1>3. OverlapsAreMixed' /\ OneIsBusy' /\ FilesAreLast' /\ WritesAreLast'
  BY <1>1 DEF OverlapsAreMixed, OneIsBusy, FilesAreLast, WritesAreLast, Busy, Known
<1>4. LoadsAreLast'
  BY <1>1 DEF LoadsAreLast, Known
<1> QED BY <1>2, <1>3, <1>4

\* A removed file is not what was stored last.
LEMMA RemoveFileStep ==
  ASSUME GamesRun, PermaIInv, NEW g \in Game, Perma!RemoveFile(g)
  PROVE  PermaIInv'
<1> USE DEF PermaIInv
<1>1. /\ game' = game /\ path' = path /\ shared' = shared /\ step' = step /\ mixed' = mixed
      /\ unsaved' = unsaved
  BY DEF Perma!RemoveFile
<1>2. /\ DOMAIN files' = Game /\ DOMAIN last' = Game
      /\ \A h \in Game : Known(h)' => Known(h) /\ last'[h] = last[h] /\ files'[h] = files[h]
  BY <1>1 DEF Perma!RemoveFile, PermaTypes, Known
<1>3. PermaTypes' /\ \A t \in System : game[t] \in Game
  BY <1>1, <1>2 DEF PermaTypes
<1>4. OverlapsAreMixed' /\ OneIsBusy'
  BY <1>1, <1>2, <1>3 DEF OverlapsAreMixed, OneIsBusy, Busy, Known
<1>5. FilesAreLast'
  BY <1>1, <1>2 DEF FilesAreLast
<1>6. WritesAreLast' /\ LoadsAreLast'
  BY <1>1, <1>2, <1>3 DEF WritesAreLast, LoadsAreLast, Known
<1> QED BY <1>3, <1>4, <1>5, <1>6

\* Every step keeps the files what was stored last.
LEMMA PermaStep ==
  ASSUME GamesRun, PermaIInv, [Perma!Next]_(Perma!vars)
  PROVE  PermaIInv' /\ [Perma!LoadIsLastSave]_(Perma!vars)
<1>1. PermaIInv'
  <2>1. CASE UNCHANGED Perma!vars
    BY <2>1 DEF Perma!vars, PermaIInv, PermaTypes, OverlapsAreMixed, OneIsBusy, FilesAreLast,
                WritesAreLast, LoadsAreLast, Busy, Known
  <2>2. ASSUME NEW s \in System, Perma!Worker(s) PROVE PermaIInv'
    BY <2>2, SetTestStep, SetFileStep, SetSharedStep, GetTestStep, GetFileStep, TerminateStep
       DEF Perma!Worker, Perma!Width
  <2>3. ASSUME NEW s \in System, Perma!Restart(s) PROVE PermaIInv'
    BY <2>3, RestartStep
  <2>4. ASSUME NEW g \in Game, Perma!RemoveFile(g) PROVE PermaIInv'
    BY <2>4, RemoveFileStep
  <2> QED BY <2>1, <2>2, <2>3, <2>4 DEF Perma!Next
<1>2. Perma!LoadIsLastSave
  <2> SUFFICES ASSUME NEW s \in System, game[s] \notin unsaved, Perma!GetShared(s),
                      s \in path \ mixed, last[game[s]] # Perma!Unknown,
                      NEW r \in 1..step[s].n, r <= Len(files[game[s]].bytes)
               PROVE  Perma!Loaded(s)[r] = last[game[s]][r]
    BY DEF Perma!LoadIsLastSave, Perma!LoadsLastSave
  <2>1. step[s].at = "get"
    BY DEF Perma!GetShared
  <2>2. shared[r] = last[game[s]][r]
    BY <2>1 DEF PermaIInv, LoadsAreLast, Known
  <2> QED BY <2>2 DEF Perma!Loaded, Perma!First
<1> QED BY <1>1, <1>2

\* For any systems, programs and number of registers, whatever the systems have in their
\* registers: FN85 gives what the same program stored last with FN75, even if another of its
\* systems did and other programs have used the shared array since, as long as the file is
\* there and no other instruction overlaps.
THEOREM LoadsAreOfTheirFile ==
  ASSUME GamesRun
  PROVE  Perma!Spec => [][Perma!LoadIsLastSave]_(Perma!vars)
<1>1. Perma!Init => PermaIInv
  BY PermaInitial
<1>2. PermaIInv /\ [Perma!Next]_(Perma!vars) => PermaIInv' /\ [Perma!LoadIsLastSave]_(Perma!vars)
  BY PermaStep
<1> QED BY <1>1, <1>2, PTL DEF Perma!Spec
=============================================================================
