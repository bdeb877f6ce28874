----------------------------- MODULE QuirkFlags -----------------------------
(***************************************************************************)
(* The quirk flags of a SCHIP_LEGACY system: a plain byte that the program *)
(* changes on the worker thread, with the mode that 00FE and 00FF set, and *)
(* the quirks menu changes on the main thread.  Neither change is atomic:  *)
(* each one reads the byte, then stores it.  The instructions test a copy  *)
(* that the worker takes at the start of every frame.                      *)
(* A reset, a pause and the other instructions change none of this.        *)
(***************************************************************************)
EXTENDS Naturals

VARIABLES
  flags,        \* m_quirk_flags, the set of its bits
  cached,       \* m_cached_quirk_flags
  hires,        \* the extended mode, Trait.use_hires_screen
  interrupted,  \* is Interrupt::FRAME pending?
  worker,       \* where the worker is: between frames, in a program, or storing
  read,         \* the byte that the worker read
  menu,         \* is the menu idle or storing?
  menuRead,     \* the byte that the menu read
  asked,        \* history: has the user asked for the quirk of the menu?
  alone,        \* history: has every change been stored before the next was read?
  drawn         \* history: sprites drawn in this frame out of extended mode, up to 2

ofWorker == <<hires, interrupted, worker, read>>
ofMenu == <<menu, menuRead, asked>>
quirkVars == <<flags, cached, ofWorker, ofMenu, alone, drawn>>

Bits == {"RESET_VF_REG", "JUMP_WITH_VX", "SHIFT_VX_REG", "NO_INC_I_REG",
         "X1_INC_I_REG", "AWAIT_VBLANK", "AWAIT_SCROLL", "WRAP_SPRITES"}

\* The only quirk in the menu of this core.
get_avail_quirks == {"X1_INC_I_REG"}
-----------------------------------------------------------------------------
(* Plausible mistakes.                                                     *)

\* xor_quirk: a click can only set the quirk.
xor_quirk_or(byte, flag) == byte \cup {flag}

\* StoreMode: the program goes on with the copy of the old mode.
StoreModeAndGoOn ==
  /\ worker = "store"
  /\ flags' = IF hires THEN read \ {"AWAIT_VBLANK"} ELSE read \cup {"AWAIT_VBLANK"}
  /\ worker' = "run"
  /\ UNCHANGED <<cached, hires, interrupted, read, ofMenu, alone, drawn>>
-----------------------------------------------------------------------------
add_quirk(byte, flag) == byte \cup {flag}
sub_quirk(byte, flag) == byte \ {flag}
xor_quirk(byte, flag) == IF flag \in byte THEN byte \ {flag} ELSE byte \cup {flag}
has_quirk(flag) == flag \in cached

\* initialize_system()
QuirkInit ==
  /\ flags = {"AWAIT_VBLANK"} /\ cached = {}
  /\ hires = FALSE /\ interrupted = FALSE
  /\ worker = "frame" /\ read = {}
  /\ menu = "idle" /\ menuRead = {} /\ asked = FALSE
  /\ alone = TRUE /\ drawn = 0

\* main_system_loop(): the copy, and the end of a FRAME interrupt.
CopyFlags ==
  /\ worker = "frame"
  /\ cached' = flags
  /\ interrupted' = FALSE /\ drawn' = 0
  /\ worker' = "run"
  /\ UNCHANGED <<flags, hires, read, ofMenu, alone>>

instruction_DxyN ==
  /\ worker = "run" /\ ~interrupted
  /\ drawn' = IF hires \/ drawn = 2 THEN drawn ELSE drawn + 1
  /\ interrupted' = has_quirk("AWAIT_VBLANK")
  /\ UNCHANGED <<flags, cached, hires, worker, read, ofMenu, alone>>

\* 00FE and 00FF: the mode is set, the byte is read ...
ReadForMode(mode) ==
  /\ worker = "run" /\ ~interrupted
  /\ hires' = mode
  /\ read' = flags
  /\ worker' = "store"
  /\ alone' = (alone /\ menu = "idle")
  /\ UNCHANGED <<flags, cached, interrupted, ofMenu, drawn>>

\* ... and stored, and the program has to wait for the next frame.
StoreMode ==
  /\ worker = "store"
  /\ flags' = IF hires THEN sub_quirk(read, "AWAIT_VBLANK") ELSE add_quirk(read, "AWAIT_VBLANK")
  /\ interrupted' = TRUE
  /\ worker' = "run"
  /\ UNCHANGED <<cached, hires, read, ofMenu, alone, drawn>>

\* The cycles of the frame are used up, or the program waits for the next one.
EndProgram ==
  /\ worker = "run"
  /\ worker' = "frame"
  /\ UNCHANGED <<flags, cached, hires, interrupted, read, ofMenu, alone, drawn>>

\* A click in the quirks menu.
ReadForMenu ==
  /\ menu = "idle"
  /\ menuRead' = flags
  /\ menu' = "store"
  /\ alone' = (alone /\ worker # "store")
  /\ UNCHANGED <<flags, cached, ofWorker, asked, drawn>>

StoreMenu ==
  /\ menu = "store"
  /\ \E quirk \in get_avail_quirks : flags' = xor_quirk(menuRead, quirk)
  /\ menu' = "idle"
  /\ asked' = ~asked
  /\ UNCHANGED <<cached, ofWorker, menuRead, alone, drawn>>

QuirkNext ==
  \/ CopyFlags \/ EndProgram
  \/ instruction_DxyN
  \/ \E mode \in BOOLEAN : ReadForMode(mode)
  \/ StoreMode
  \/ ReadForMenu \/ StoreMenu

QuirkSpec == QuirkInit /\ [][QuirkNext]_quirkVars
-----------------------------------------------------------------------------

\* Without a lost change the byte is what the program's mode and the user's clicks
\* make of it: neither thread ever undoes the other's quirk.  And the copy is as good
\* as the byte: a change of mode within a frame takes effect before the next sprite,
\* since it ends the frame.
NoChangeLost ==
  alone =>
    /\ worker # "store" => ("AWAIT_VBLANK" \in flags <=> ~hires)
    /\ "X1_INC_I_REG" \in flags <=> asked
    /\ drawn <= 1
=============================================================================
