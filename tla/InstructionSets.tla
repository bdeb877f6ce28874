--------------------------- MODULE InstructionSets ---------------------------
(***************************************************************************)
(* Which words the seven CHIP-8 cores decode, and what their handlers do.  *)
(* Each core has its own copy of every handler; the differences of a group *)
(* of handlers are a record here, which depends on the quirks that are set *)
(* in the current frame.                                                   *)
(***************************************************************************)
VARIABLE core   \* the core of a system, which it keeps

Core == {"CHIP8_MODERN", "CHIP8E", "CHIP8X", "SCHIP_LEGACY", "SCHIP_MODERN", "XOCHIP",
         "MEGACHIP"}

\* get_avail_quirks(): the quirks that the menu offers, of those that matter here.
avail_quirks ==
  CASE core = "CHIP8_MODERN" -> {"RESET_VF_REG", "SHIFT_VX_REG", "NO_INC_I_REG"}
    [] core = "SCHIP_LEGACY" -> {"X1_INC_I_REG"}
    [] core \in {"SCHIP_MODERN", "XOCHIP"} -> {"RESET_VF_REG", "SHIFT_VX_REG", "NO_INC_I_REG"}
    [] OTHER -> {}

When(quirk, quirks, ops) == IF quirk \in quirks THEN ops ELSE {}
-----------------------------------------------------------------------------
(* 8xy0 to 8xyE: the instructions after which VF is 0, and whether a shift *)
(* takes VX in place rather than VY.                                       *)

CHIP8_MODERN_arithmetic(quirks) ==
  [clears  |-> When("RESET_VF_REG", quirks, {"8xy1", "8xy2", "8xy3"}),
   inPlace |-> "SHIFT_VX_REG" \in quirks]

CHIP8E_arithmetic == [clears |-> {"8xy1", "8xy2", "8xy3"}, inPlace |-> FALSE]

CHIP8X_arithmetic == [clears |-> {}, inPlace |-> FALSE]

SCHIP_LEGACY_arithmetic == [clears |-> {}, inPlace |-> TRUE]

SCHIP_MODERN_arithmetic(quirks) ==
  [clears  |-> When("RESET_VF_REG", quirks, {"8xy0", "8xy1", "8xy2"}),
   inPlace |-> "SHIFT_VX_REG" \in quirks]

XOCHIP_arithmetic(quirks) ==
  [clears  |-> When("RESET_VF_REG", quirks, {"8xy1", "8xy2", "8xy3"}),
   inPlace |-> "SHIFT_VX_REG" \in quirks]

MEGACHIP_arithmetic == [clears |-> {}, inPlace |-> TRUE]

arithmetic(quirks) ==
  CASE core = "CHIP8_MODERN" -> CHIP8_MODERN_arithmetic(quirks)
    [] core = "CHIP8E"       -> CHIP8E_arithmetic
    [] core = "CHIP8X"       -> CHIP8X_arithmetic
    [] core = "SCHIP_LEGACY" -> SCHIP_LEGACY_arithmetic
    [] core = "SCHIP_MODERN" -> SCHIP_MODERN_arithmetic(quirks)
    [] core = "XOCHIP"       -> XOCHIP_arithmetic(quirks)
    [] OTHER                 -> MEGACHIP_arithmetic
-----------------------------------------------------------------------------
(* FN55, FN65, 5xy2 and 5xy3: how far I goes behind the last register of a *)
(* FN55 or FN65 - nowhere, to it, or past it - and which ranges of         *)
(* registers 5xy2 and 5xy3 move.                                           *)

NO_INC(quirks) == IF "NO_INC_I_REG" \in quirks THEN "nowhere" ELSE "past"

CHIP8_MODERN_transfers(quirks) == [moves |-> NO_INC(quirks), ranges |-> "none"]

\* A range that goes down is empty; I follows the range.
CHIP8E_transfers == [moves |-> "past", ranges |-> "up"]

CHIP8X_transfers == [moves |-> "past", ranges |-> "none"]

SCHIP_LEGACY_transfers(quirks) ==
  [moves |-> IF "X1_INC_I_REG" \in quirks THEN "to" ELSE "nowhere", ranges |-> "none"]

SCHIP_MODERN_transfers(quirks) == [moves |-> NO_INC(quirks), ranges |-> "none"]

\* A range goes up or down; I stays.
XOCHIP_transfers(quirks) == [moves |-> NO_INC(quirks), ranges |-> "both"]

MEGACHIP_transfers == [moves |-> "nowhere", ranges |-> "none"]

transfers(quirks) ==
  CASE core = "CHIP8_MODERN" -> CHIP8_MODERN_transfers(quirks)
    [] core = "CHIP8E"       -> CHIP8E_transfers
    [] core = "CHIP8X"       -> CHIP8X_transfers
    [] core = "SCHIP_LEGACY" -> SCHIP_LEGACY_transfers(quirks)
    [] core = "SCHIP_MODERN" -> SCHIP_MODERN_transfers(quirks)
    [] core = "XOCHIP"       -> XOCHIP_transfers(quirks)
    [] OTHER                 -> MEGACHIP_transfers
-----------------------------------------------------------------------------
(* The words that each core's instruction_loop() decodes.                  *)

\* Each loop switches on the upper half of the first byte, and what the cores decode below
\* 8 and from there on is often the same.
Shared_0to7 ==
  {"00E0", "00EE", "1NNN", "2NNN", "3xNN", "4xNN", "5xy0", "6xNN", "7xNN"}
Shared_8toF ==
  {"8xy0", "8xy1", "8xy2", "8xy3", "8xy4", "8xy5", "8xy6", "8xy7", "8xyE", "9xy0", "ANNN",
   "CxNN", "DxyN", "Ex9E", "ExA1", "Fx07", "Fx0A", "Fx15", "Fx18", "Fx1E", "Fx29", "Fx33",
   "FN55", "FN65"}

Schip_0 == {"00CN", "00FB", "00FC", "00FD", "00FE", "00FF"}
Schip_F == {"Fx30", "FN75", "FN85"}

CHIP8_MODERN_decodes_8toF == Shared_8toF \cup {"BNNN"}
CHIP8_MODERN_decodes == Shared_0to7 \cup CHIP8_MODERN_decodes_8toF

CHIP8E_decodes_8toF ==
  Shared_8toF \cup {"BBNN", "BFNN", "Fx1B", "Fx4F", "FxE3", "FxE7"}
CHIP8E_decodes ==
  Shared_0to7 \cup {"00ED", "00F2", "0151", "0188", "5xy1", "5xy2", "5xy3"}
              \cup CHIP8E_decodes_8toF

CHIP8X_decodes_8toF == Shared_8toF \cup {"BxyN", "ExF2", "ExF5", "FxF8", "FxFB"}
CHIP8X_decodes == Shared_0to7 \cup {"02A0", "5xy1"} \cup CHIP8X_decodes_8toF

SCHIP_LEGACY_decodes_8toF == Shared_8toF \cup Schip_F \cup {"BXNN"}
SCHIP_LEGACY_decodes == Shared_0to7 \cup Schip_0 \cup SCHIP_LEGACY_decodes_8toF

SCHIP_MODERN_decodes_8toF == Shared_8toF \cup Schip_F \cup {"BNNN"}
SCHIP_MODERN_decodes == Shared_0to7 \cup Schip_0 \cup SCHIP_MODERN_decodes_8toF

XOCHIP_decodes_8toF ==
  Shared_8toF \cup Schip_F \cup {"BNNN", "F000", "F002", "FN01", "Fx3A"}
XOCHIP_decodes ==
  Shared_0to7 \cup Schip_0 \cup {"00DN", "5xy2", "5xy3", "5xy4"} \cup XOCHIP_decodes_8toF

MEGACHIP_decodes_8toF == Shared_8toF \cup Schip_F \cup {"BXNN"}

\* mega: use_manual_vsync(), the mode that 0011 starts and 0010 ends.
MEGACHIP_decodes(mega) ==
  Shared_0to7 \cup MEGACHIP_decodes_8toF
    \cup {"00BN", "00CN", "00FB", "00FC", "00FD"}
    \cup IF mega
         THEN {"0010", "0700", "060N", "080N", "01NN", "02NN", "03NN", "04NN", "05NN", "09NN"}
         ELSE {"0011", "00FE", "00FF"}

decodes(mega) ==
  CASE core = "CHIP8_MODERN" -> CHIP8_MODERN_decodes
    [] core = "CHIP8E"       -> CHIP8E_decodes
    [] core = "CHIP8X"       -> CHIP8X_decodes
    [] core = "SCHIP_LEGACY" -> SCHIP_LEGACY_decodes
    [] core = "SCHIP_MODERN" -> SCHIP_MODERN_decodes
    [] core = "XOCHIP"       -> XOCHIP_decodes
    [] OTHER                 -> MEGACHIP_decodes(mega)

\* The words that it passes over, without a case for their first byte; every other word
\* is an error.
Zeroes == {"0151", "0188", "01NN", "02A0", "02NN", "03NN", "04NN", "05NN", "060N", "0700",
           "080N", "09NN"}

ignores ==
  CASE core = "MEGACHIP" -> {}
    [] core = "CHIP8E"   -> (Zeroes \ {"0151", "0188", "01NN"}) \cup {"BNNN", "BXNN", "BxyN"}
    [] core = "CHIP8X"   -> Zeroes \ {"02A0", "02NN"}
    [] OTHER             -> Zeroes

\* The word that an instruction of four bytes starts with, and that skips recognize.
LongWord ==
  CASE core = "XOCHIP" -> {"F000"} [] core = "MEGACHIP" -> {"01NN"} [] OTHER -> {}
-----------------------------------------------------------------------------
(* What the instructions of each core do to the state that a frame, a      *)
(* reset or the way through the program depends on: for every handler the  *)
(* set of its effects, in the order of the code's regions (the first digit *)
(* of the word).  A word without a case moves registers only, or has a     *)
(* module of its own: arithmetic, transfers and sprites.                   *)
(*                                                                         *)
(*   FRAME, SOUND, DELAY, INPUT   the interrupt that is triggered          *)
(*   VBLANK, SCROLL               FRAME, with the quirk AWAIT_... only     *)
(*   skip, jump, return, move     skip_instruction(), jump_program_to(),   *)
(*                                m_stack.pop(), an addition to the counter *)
(*   long                         takes the next word as well              *)
(*   voice, unique, buzzer        starts the next voice, or that voice     *)
(*   timer, memory, save, load    the delay timer, memory, permanent       *)
(*                                registers                                *)
(*   small, large                 I is set to a glyph of that font         *)
(*   any other                    the state of the core that is changed    *)

\* What the cores have in common, in a copy of each: jumps and comparisons, the key
\* tests of the first player, and the timers, fonts and transfers.
FlowWords(word) ==
  CASE word \in {"1NNN", "2NNN"}         -> {"jump"}
    [] word \in {"3xNN", "4xNN", "5xy0"} -> {"skip"}
    [] OTHER                             -> {}
KeyWords(word) == IF word \in {"Ex9E", "ExA1"} THEN {"skip"} ELSE {}
TimerWords(word) ==
  CASE word = "Fx0A"             -> {"INPUT"}
    [] word = "Fx15"             -> {"timer"}
    [] word = "Fx29"             -> {"small"}
    [] word \in {"Fx33", "FN55"} -> {"memory"}
    [] OTHER                     -> {}
PermaWords(word) ==
  CASE word = "Fx30" -> {"large"}
    [] word = "FN75" -> {"save"}
    [] word = "FN85" -> {"load"}
    [] OTHER         -> {}
-----------------------------------------------------------------------------
(* CHIP8_MODERN                                                            *)

CHIP8_MODERN_0(word) ==
  CASE word = "00E0" -> {"display", "VBLANK"} [] word = "00EE" -> {"return"} [] OTHER -> {}
CHIP8_MODERN_1to7(word) == FlowWords(word)
CHIP8_MODERN_9toC(word) ==
  CASE word = "9xy0" -> {"skip"} [] word = "BNNN" -> {"jump"} [] OTHER -> {}
CHIP8_MODERN_E(word) == KeyWords(word)
CHIP8_MODERN_F(word) == IF word = "Fx18" THEN {"voice"} ELSE TimerWords(word)
-----------------------------------------------------------------------------
(* CHIP8E                                                                  *)

CHIP8E_0(word) ==
  CASE word = "00E0" -> {"display", "FRAME"}
    [] word = "00EE" -> {"return"}
    [] word = "00ED" -> {"SOUND"}
    [] word = "0151" -> {"DELAY"}
    [] word = "0188" -> {"skip"}
    [] OTHER         -> {}
CHIP8E_1to7(word) ==
  CASE word = "5xy1" -> {"skip"} [] word = "5xy2" -> {"memory"} [] OTHER -> FlowWords(word)
CHIP8E_9toC(word) ==
  CASE word = "9xy0" -> {"skip"} [] word \in {"BBNN", "BFNN"} -> {"jump"} [] OTHER -> {}
CHIP8E_E(word) == KeyWords(word)
CHIP8E_F(word) ==
  CASE word = "Fx18"             -> {"voice"}
    [] word = "Fx1B"             -> {"move"}
    [] word = "Fx4F"             -> {"timer", "DELAY"}
    [] word \in {"FxE3", "FxE7"} -> {"FRAME"}
    [] OTHER                     -> TimerWords(word)
-----------------------------------------------------------------------------
(* CHIP8X                                                                  *)

CHIP8X_0(word) ==
  CASE word = "00E0" -> {"display", "FRAME"}
    [] word = "00EE" -> {"return"}
    [] word = "02A0" -> {"background", "tint"}
    [] OTHER         -> {}
CHIP8X_1to7(word) == FlowWords(word)
CHIP8X_9toC(word) ==
  CASE word = "9xy0" -> {"skip"} [] word = "BxyN" -> {"zones", "mask"} [] OTHER -> {}
CHIP8X_E(word) == IF word \in {"ExF2", "ExF5"} THEN {"skip"} ELSE KeyWords(word)
CHIP8X_F(word) ==
  CASE word = "Fx18" -> {"unique"}
    [] word = "FxF8" -> {"pitch"}
    [] word = "FxFB" -> {"FRAME"}
    [] OTHER         -> TimerWords(word)
-----------------------------------------------------------------------------
(* SCHIP_LEGACY                                                            *)

SCHIP_LEGACY_0(word) ==
  CASE word = "00E0"                     -> {"display", "FRAME"}
    [] word = "00EE"                     -> {"return"}
    [] word \in {"00CN", "00FB", "00FC"} -> {"display"}
    [] word = "00FD"                     -> {"SOUND"}
    [] word \in {"00FE", "00FF"}         -> {"mode", "FRAME"}
    [] OTHER                             -> {}
SCHIP_LEGACY_1to7(word) == FlowWords(word)
SCHIP_LEGACY_9toC(word) ==
  CASE word = "9xy0" -> {"skip"} [] word = "BXNN" -> {"jump"} [] OTHER -> {}
SCHIP_LEGACY_E(word) == KeyWords(word)
SCHIP_LEGACY_F(word) ==
  IF word = "Fx18" THEN {"voice"} ELSE TimerWords(word) \cup PermaWords(word)
-----------------------------------------------------------------------------
(* SCHIP_MODERN                                                            *)

SCHIP_MODERN_0(word) ==
  CASE word = "00E0"                     -> {"display", "VBLANK"}
    [] word = "00EE"                     -> {"return"}
    [] word \in {"00CN", "00FB", "00FC"} -> {"display", "SCROLL"}
    [] word = "00FD"                     -> {"SOUND"}
    [] word \in {"00FE", "00FF"}         -> {"display", "mode", "VBLANK"}
    [] OTHER                             -> {}
SCHIP_MODERN_1to7(word) == FlowWords(word)
SCHIP_MODERN_9toC(word) ==
  CASE word = "9xy0" -> {"skip"} [] word = "BNNN" -> {"jump"} [] OTHER -> {}
SCHIP_MODERN_E(word) == KeyWords(word)
SCHIP_MODERN_F(word) ==
  IF word = "Fx18" THEN {"voice"} ELSE TimerWords(word) \cup PermaWords(word)
-----------------------------------------------------------------------------
(* XOCHIP                                                                  *)

XOCHIP_0(word) ==
  CASE word = "00E0"                             -> {"display"}
    [] word = "00EE"                             -> {"return"}
    [] word \in {"00CN", "00DN", "00FB", "00FC"} -> {"display", "SCROLL"}
    [] word = "00FD"                             -> {"SOUND"}
    [] word \in {"00FE", "00FF"}                 -> {"display", "mode"}
    [] OTHER                                     -> {}
XOCHIP_1to7(word) ==
  CASE word = "5xy2" -> {"memory"} [] word = "5xy4" -> {"colors"} [] OTHER -> FlowWords(word)
XOCHIP_9toC(word) ==
  CASE word = "9xy0" -> {"skip"} [] word = "BNNN" -> {"jump"} [] OTHER -> {}
XOCHIP_E(word) == KeyWords(word)
XOCHIP_F(word) ==
  CASE word = "F000" -> {"long"}
    [] word = "F002" -> {"pattern"}
    [] word = "FN01" -> {"planes"}
    [] word = "Fx18" -> {"unique"}
    [] word = "Fx3A" -> {"pitch"}
    [] OTHER         -> TimerWords(word) \cup PermaWords(word)
-----------------------------------------------------------------------------
(* MEGACHIP                                                                *)

MEGACHIP_0(word) ==
  CASE word \in {"0010", "0011"}                 -> {"mode", "display", "FRAME"}
    [] word \in {"00BN", "00CN", "00FB", "00FC"} -> {"display"}
    [] word = "00E0"                             -> {"display", "FRAME"}
    [] word = "00EE"                             -> {"return"}
    [] word = "00FD"                             -> {"SOUND"}
    [] word \in {"00FE", "00FF"}                 -> {"mode", "FRAME"}
    [] word = "01NN"                             -> {"long"}
    [] word = "02NN"                             -> {"palette"}
    [] word \in {"03NN", "04NN", "09NN"}         -> {"texture"}
    [] word = "05NN"                             -> {"tint"}
    [] word \in {"060N", "0700"}                 -> {"track"}
    [] word = "080N"                             -> {"texture", "blend"}
    [] OTHER                                     -> {}
MEGACHIP_1to7(word) == FlowWords(word)
MEGACHIP_9toC(word) ==
  CASE word = "9xy0" -> {"skip"} [] word = "BXNN" -> {"jump"} [] OTHER -> {}
MEGACHIP_E(word) == KeyWords(word)
MEGACHIP_F(word) ==
  IF word = "Fx18" THEN {"buzzer"} ELSE TimerWords(word) \cup PermaWords(word)
-----------------------------------------------------------------------------
handlers(word) ==
  CASE core = "CHIP8_MODERN" ->
         CHIP8_MODERN_0(word) \cup CHIP8_MODERN_1to7(word) \cup CHIP8_MODERN_9toC(word)
           \cup CHIP8_MODERN_E(word) \cup CHIP8_MODERN_F(word)
    [] core = "CHIP8E" ->
         CHIP8E_0(word) \cup CHIP8E_1to7(word) \cup CHIP8E_9toC(word)
           \cup CHIP8E_E(word) \cup CHIP8E_F(word)
    [] core = "CHIP8X" ->
         CHIP8X_0(word) \cup CHIP8X_1to7(word) \cup CHIP8X_9toC(word)
           \cup CHIP8X_E(word) \cup CHIP8X_F(word)
    [] core = "SCHIP_LEGACY" ->
         SCHIP_LEGACY_0(word) \cup SCHIP_LEGACY_1to7(word) \cup SCHIP_LEGACY_9toC(word)
           \cup SCHIP_LEGACY_E(word) \cup SCHIP_LEGACY_F(word)
    [] core = "SCHIP_MODERN" ->
         SCHIP_MODERN_0(word) \cup SCHIP_MODERN_1to7(word) \cup SCHIP_MODERN_9toC(word)
           \cup SCHIP_MODERN_E(word) \cup SCHIP_MODERN_F(word)
    [] core = "XOCHIP" ->
         XOCHIP_0(word) \cup XOCHIP_1to7(word) \cup XOCHIP_9toC(word)
           \cup XOCHIP_E(word) \cup XOCHIP_F(word)
    [] OTHER ->
         MEGACHIP_0(word) \cup MEGACHIP_1to7(word) \cup MEGACHIP_9toC(word)
           \cup MEGACHIP_E(word) \cup MEGACHIP_F(word)

\* DxyN: XOCHIP goes on, CHIP8E and CHIP8X wait, the others ask the quirk.
sprite ==
  {"display"} \cup CASE core = "XOCHIP" -> {}
                     [] core \in {"CHIP8E", "CHIP8X"} -> {"FRAME"}
                     [] OTHER -> {"VBLANK"}

effects(word) == IF word = "DxyN" THEN sprite ELSE handlers(word)

\* trigger_interrupt(): the interrupts of a handler, with the quirks of the frame.
interrupts(word, quirks) ==
  (effects(word) \cap {"FRAME", "SOUND", "DELAY", "INPUT"})
    \cup IF \/ "VBLANK" \in effects(word) /\ "AWAIT_VBLANK" \in quirks
            \/ "SCROLL" \in effects(word) /\ "AWAIT_SCROLL" \in quirks
         THEN {"FRAME"} ELSE {}

\* The words of the core that have an effect of this kind.
WordsThat(effect) ==
  {word \in decodes(TRUE) \cup decodes(FALSE) : effect \in handlers(word)}
=============================================================================
