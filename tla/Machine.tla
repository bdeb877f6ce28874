------------------------------- MODULE Machine -------------------------------
(***************************************************************************)
(* The frame of a CHIP-8 core, main_system_loop(): the timers tick, an     *)
(* interrupt ends or goes on, instructions are executed until one triggers *)
(* an interrupt or the frame's number is reached, and what remains of the  *)
(* interrupt is handled.  A reset comes between two frames.                *)
(*                                                                         *)
(* Of the state that a core keeps, the model has the timers and voices,    *)
(* what the regions of memory hold, and which other parts are no longer as *)
(* a new system has them.  While the user pauses, nothing moves.           *)
(***************************************************************************)
EXTENDS InstructionSets, Naturals, Sequences

CONSTANTS
  Values,       \* what VX may be when it is the value of a timer
  Uses          \* the sorts of effects that one program of the model is made for

ASSUME ValuesAssumption == Values \subseteq Nat

VARIABLES
  program,      \* the words of the program
  memory,       \* what each region of m_memory holds
  changed,      \* the parts of the core's state that a program changed
  pointed,      \* the region that m_register_I points to
  delay,        \* m_delay_timer
  voices,       \* the timers of m_voices
  lastVoice,    \* m_last_voice_index
  interrupt,    \* m_interrupt
  working,      \* between the two halves of a frame
  ended,        \* EmuState::HALTED or FATAL
  notes         \* the last two notes that were started, newest first, and what they have left

machineVars == <<core, program, memory, changed, pointed, delay, voices, lastVoice, interrupt,
          working, ended, notes>>

UNIQUE == 0
BUZZER == 3
COUNT == 4
Voice == 0..(COUNT - 1)

Region == {"small", "large", "letters", "file", "rest"}
Changes == {"display", "mode", "background", "tint", "zones", "mask", "pitch", "pattern",
            "planes", "colors", "palette", "texture", "track", "blend"}
-----------------------------------------------------------------------------
(* Memory and state of a new system, and of one that was reset.            *)

\* copy_font_data_to(): 80 bytes are the small font, 180 the large digits as well, 240
\* the large letters.
copy_font_data_to(contents, size) ==
  [r \in Region |->
     IF \/ r = "small"
        \/ r = "large" /\ size >= 180
        \/ r = "letters" /\ size >= 240
     THEN "font" ELSE contents[r]]

copy_file_image_to(contents) == [contents EXCEPT !["file"] = "file"]

Load(contents, size) == copy_font_data_to(copy_file_image_to(contents), size)

Filled(with) == [r \in Region |-> with]

CHIP8_MODERN_initialize == Load(Filled("zero"), 80)
CHIP8E_initialize == Load(Filled("random"), 80)
CHIP8X_initialize == Load(Filled("random"), 80)
SCHIP_LEGACY_initialize == Load(Filled("random"), 180)
SCHIP_MODERN_initialize == Load(Filled("zero"), 240)
XOCHIP_initialize == Load(Filled("zero"), 240)
MEGACHIP_initialize == Load(Filled("zero"), 180)

initialize_system(c) ==
  CASE c = "CHIP8_MODERN" -> CHIP8_MODERN_initialize
    [] c = "CHIP8E"       -> CHIP8E_initialize
    [] c = "CHIP8X"       -> CHIP8X_initialize
    [] c = "SCHIP_LEGACY" -> SCHIP_LEGACY_initialize
    [] c = "SCHIP_MODERN" -> SCHIP_MODERN_initialize
    [] c = "XOCHIP"       -> XOCHIP_initialize
    [] OTHER              -> MEGACHIP_initialize

-----------------------------------------------------------------------------
(* A plausible mistake.                                                    *)

\* MEGACHIP_reset: the buffers are cleared, the texture settings are not.
ResetWithoutTexture ==
  [memory |-> Load(Filled("zero"), 180),
   renews |-> {"display", "mode", "tint", "palette", "track", "blend"}]
-----------------------------------------------------------------------------
\* A reset: the memory afterwards, and the parts of the core that are as new.
CHIP8_MODERN_reset == [memory |-> Load(Filled("zero"), 80), renews |-> {"display"}]

CHIP8E_reset == [memory |-> Load(memory, 80), renews |-> {"display"}]

CHIP8X_reset ==
  [memory |-> Load(memory, 80), renews |-> {"display", "zones", "background", "mask"}]

SCHIP_LEGACY_reset == [memory |-> Load(memory, 180), renews |-> {"display"}]

SCHIP_MODERN_reset == [memory |-> Load(Filled("zero"), 240), renews |-> {"display"}]

XOCHIP_reset ==
  [memory |-> Load(Filled("zero"), 80),
   renews |-> {"display", "colors", "planes", "pitch", "pattern"}]

\* set_display_properties() sets the mode and the tint.
MEGACHIP_reset ==
  [memory |-> Load(Filled("zero"), 180),
   renews |-> {"display", "mode", "tint", "palette", "track", "texture", "blend"}]

reset(c) ==
  CASE c = "CHIP8_MODERN" -> CHIP8_MODERN_reset
    [] c = "CHIP8E"       -> CHIP8E_reset
    [] c = "CHIP8X"       -> CHIP8X_reset
    [] c = "SCHIP_LEGACY" -> SCHIP_LEGACY_reset
    [] c = "SCHIP_MODERN" -> SCHIP_MODERN_reset
    [] c = "XOCHIP"       -> XOCHIP_reset
    [] OTHER              -> MEGACHIP_reset
-----------------------------------------------------------------------------
(* Plausible mistakes.                                                     *)

\* next_voice: the last voice is rotated through as the buzzer would be.
NextOfTwo == (lastVoice + 1) % 2

\* XOCHIP_sound: the pattern has no voice of its own.
XOCHIP_sound_of_buzzer == [mixed |-> {BUZZER}, lights |-> {BUZZER}]

\* silent: only the first voice is asked.
FirstIsSilent(timers) == timers[0] = 0

\* handle_timer_ticks: the delay timer only runs while the program does.
TickOfVoices ==
  /\ delay' = IF delay > 0 /\ interrupt = "CLEAR" THEN delay - 1 ELSE delay
  /\ voices' = [v \in Voice |-> IF voices[v] > 0 THEN voices[v] - 1 ELSE 0]
-----------------------------------------------------------------------------
(* push_audio_data(): the voices whose waves are mixed, and those that light the border.   *)

CHIP8_MODERN_sound == [mixed |-> Voice, lights |-> Voice]
CHIP8E_sound == [mixed |-> Voice, lights |-> Voice]
CHIP8X_sound == [mixed |-> {UNIQUE, BUZZER}, lights |-> Voice]
SCHIP_LEGACY_sound == [mixed |-> Voice, lights |-> Voice]
SCHIP_MODERN_sound == [mixed |-> Voice, lights |-> Voice]
XOCHIP_sound == [mixed |-> {UNIQUE, BUZZER}, lights |-> {BUZZER}]

\* The large mode has the track on the unique voice.
MEGACHIP_sound(large) ==
  IF large THEN [mixed |-> {UNIQUE, BUZZER}, lights |-> {BUZZER}]
  ELSE [mixed |-> Voice, lights |-> Voice]

\* In each of the core's modes.
sounds(c) ==
  CASE c = "CHIP8_MODERN" -> {CHIP8_MODERN_sound}
    [] c = "CHIP8E"       -> {CHIP8E_sound}
    [] c = "CHIP8X"       -> {CHIP8X_sound}
    [] c = "SCHIP_LEGACY" -> {SCHIP_LEGACY_sound}
    [] c = "SCHIP_MODERN" -> {SCHIP_MODERN_sound}
    [] c = "XOCHIP"       -> {XOCHIP_sound}
    [] OTHER              -> {MEGACHIP_sound(large) : large \in BOOLEAN}
-----------------------------------------------------------------------------
\* A program uses the instructions with one sort of effects.
MachineInit ==
  /\ core \in Core
  /\ \E use \in Uses : program = UNION {WordsThat(effect) : effect \in use}
  /\ memory = initialize_system(core)
  /\ changed = {} /\ pointed = "small" /\ delay = 0 /\ voices = [v \in Voice |-> 0] /\ lastVoice = 0
  /\ interrupt = "CLEAR" /\ working = FALSE /\ ended = "no" /\ notes = <<>>

\* perform_instance_reset(), which also takes the system out of NOT_RUNNING.
perform_instance_reset ==
  /\ ~working
  /\ memory' = reset(core).memory
  /\ changed' = changed \ reset(core).renews
  /\ pointed' = "small" /\ delay' = 0 /\ voices' = [v \in Voice |-> 0] /\ lastVoice' = 0
  /\ interrupt' = "CLEAR" /\ ended' = "no" /\ notes' = <<>>
  /\ UNCHANGED <<core, program, working>>

handle_timer_ticks ==
  /\ delay' = IF delay > 0 THEN delay - 1 ELSE 0
  /\ voices' = [v \in Voice |-> IF voices[v] > 0 THEN voices[v] - 1 ELSE 0]

silent(timers) == \A v \in Voice : timers[v] = 0

\* The interrupt as the ticks of this frame leave the timers.
handle_pre_work_interrupts ==
  interrupt' =
    CASE interrupt = "FRAME"             -> "CLEAR"
      [] interrupt = "SOUND" /\ silent(voices') -> "WAIT1"
      [] interrupt = "DELAY" /\ delay' = 0 -> "CLEAR"
      [] OTHER                           -> interrupt

\* The notes of the ghost tick as the voices do.
Later(note) == [note EXCEPT !.left = IF @ > 0 THEN @ - 1 ELSE 0]

BeginWork ==
  /\ ~working /\ ended = "no"
  /\ handle_timer_ticks
  /\ handle_pre_work_interrupts
  /\ working' = TRUE
  /\ notes' = [n \in DOMAIN notes |-> Later(notes[n])]
  /\ UNCHANGED <<core, program, memory, changed, pointed, lastVoice, ended>>

\* A value of 1 counts as 2: a voice that ends at the next tick would not be heard.
Duration(value) == value + (IF value = 1 THEN 1 ELSE 0)

next_voice == (lastVoice + 1) % (COUNT - 1)

start_voice_at(v, duration) == voices' = [voices EXCEPT ![v] = duration]

Noted(v, duration) ==
  LET note == [voice |-> v, left |-> duration]
  IN  notes' = IF notes = <<>> THEN <<note>> ELSE <<note, notes[1]>>

\* Fx18: the next of three voices where a core has them, else the voice of its own.
start_voice(word, value) ==
  IF "voice" \in effects(word)
  THEN /\ start_voice_at(lastVoice, Duration(value))
       /\ IF value = 0 THEN UNCHANGED <<lastVoice, notes>>
          ELSE lastVoice' = next_voice /\ Noted(lastVoice, Duration(value))
  ELSE LET own == IF "buzzer" \in effects(word) THEN BUZZER ELSE UNIQUE IN
       /\ start_voice_at(own, Duration(value))
       /\ notes' = <<[voice |-> own, left |-> Duration(value)]>>
       /\ UNCHANGED lastVoice

\* Any instruction: the interrupt it triggers, the timer it sets, what it changes.
Execute(word) ==
  /\ working /\ interrupt = "CLEAR"
  /\ word \in program
  /\ \E value \in Values, quirks \in SUBSET {"AWAIT_VBLANK", "AWAIT_SCROLL"} :
       /\ interrupt' \in
            IF interrupts(word, quirks) # {} THEN interrupts(word, quirks)
            ELSE {"CLEAR"} \cup
                 IF "jump" \in effects(word) THEN {"SOUND"} ELSE {}   \* to itself
       /\ delay' = IF "timer" \in effects(word) THEN value ELSE delay
       /\ IF effects(word) \cap {"voice", "unique", "buzzer"} # {}
          THEN start_voice(word, value)
          ELSE UNCHANGED <<voices, lastVoice, notes>>
  /\ changed' = changed \cup (effects(word) \cap Changes)
  /\ memory' \in
       {memory} \cup IF "memory" \in effects(word)
                     THEN {[memory EXCEPT ![r] = "used"] : r \in {"large", "rest"}} ELSE {}
  /\ pointed' = CASE word = "Fx29" -> "small" [] word = "Fx30" -> "large" [] OTHER -> pointed
  /\ UNCHANGED <<core, program, working, ended>>

\* instruction_error()
ExecuteUnknown ==
  /\ working /\ interrupt = "CLEAR"
  /\ interrupt' = "ERROR"
  /\ UNCHANGED <<core, program, memory, changed, pointed, delay, voices, lastVoice,
                 working, ended, notes>>

\* handle_post_work_interrupts(): a key press ends INPUT with a beep of two frames.
EndWork ==
  /\ working /\ working' = FALSE
  /\ \/ /\ interrupt = "INPUT"
        /\ interrupt' = "CLEAR" /\ start_voice_at(BUZZER, 2)
        /\ UNCHANGED ended
     \/ /\ interrupt' = IF interrupt = "WAIT1" THEN "FINAL" ELSE interrupt
        /\ ended' = CASE interrupt = "ERROR" -> "FATAL" [] interrupt = "FINAL" -> "HALTED"
                      [] OTHER -> "no"
        /\ UNCHANGED voices
  /\ UNCHANGED <<core, program, memory, changed, pointed, delay, lastVoice, notes>>

MachineNext ==
  \/ perform_instance_reset
  \/ BeginWork \/ EndWork
  \/ \E word \in program : Execute(word)
  \/ ExecuteUnknown

\* The worker's frames go on: the user does not pause for ever.
MachineSpec ==
  /\ MachineInit /\ [][MachineNext]_machineVars
  /\ WF_machineVars(BeginWork) /\ WF_machineVars(EndWork)
-----------------------------------------------------------------------------
\* What each core's reset does not renew: the display mode where the program is loaded
\* in the mode of the last, the tint and pitch of CHIP8X, memory that is random at first,
\* and the large font of XOCHIP.
Kept ==
  CASE core \in {"SCHIP_LEGACY", "SCHIP_MODERN", "XOCHIP"} -> {"mode"}
    [] core = "CHIP8X" -> {"tint", "pitch"}
    [] OTHER -> {}

NotReloaded ==
  CASE core \in {"CHIP8E", "CHIP8X"} -> {"large", "letters", "rest"}
    [] core = "SCHIP_LEGACY" -> {"letters", "rest"}
    [] core = "XOCHIP" -> {"large", "letters"}
    [] OTHER -> {}

\* A reset forgets the program's last run: every part that an instruction of the core
\* can change is as in a new system, but for Kept and NotReloaded.
ResetRenews ==
  perform_instance_reset =>
    /\ changed' \subseteq Kept
    /\ \A r \in Region \ NotReloaded : memory'[r] = initialize_system(core)[r]

\* start_voice(): the last two notes of Fx18 sound to their end, whatever Fx18 and Fx0A do
\* in the meantime - with a value of 0 as well, which silences the oldest of three.
\* MEGACHIP plays its notes on the buzzer, where the beep of a key cuts one short.
TwoNotesPlay ==
  core # "MEGACHIP" => \A n \in DOMAIN notes : voices[notes[n].voice] = notes[n].left

\* A note is on a voice that the core mixes, in whichever mode it is, and lights the border:
\* only XOCHIP leaves it dark, for the pattern that Fx18 plays is not the buzzer.
SoundIsHeard ==
  \A v \in Voice : voices[v] > 0 =>
    \A sound \in sounds(core) :
      v \in sound.mixed /\ (v \in sound.lights \/ (core = "XOCHIP" /\ v = UNIQUE))

\* A program that has ended is halted in silence, with no voice left to sound on.
HaltsInSilence == interrupt \in {"WAIT1", "FINAL"} => \A v \in Voice : voices[v] = 0

\* A note sounds to its end on a voice that is heard, and a program does not end before.
NotesPlay == TwoNotesPlay /\ SoundIsHeard /\ HaltsInSilence

\* Interrupt: SOUND waits "for sound timer to decay", DELAY "for delay timer to decay":
\* a program that ends is halted, one that waits for its timer goes on.
WaitsEnd ==
  /\ interrupt = "SOUND" ~> (ended = "HALTED" \/ interrupt = "CLEAR")
  /\ interrupt = "DELAY" ~> interrupt # "DELAY"

\* "FX30 - set I to 10-byte hex sprite from VX": with a digit in VX, I points to that
\* glyph, unless the program wrote there.
PointsToSprite ==
  pointed' = "large" /\ pointed # "large" => memory["large"] \in {"font", "used"}
=============================================================================
