------------------------------- MODULE Program -------------------------------
(***************************************************************************)
(* How a CHIP-8 core finds its way through a program: fetching, skipping,  *)
(* jumping, and the instructions of four bytes, whose second half is data. *)
(* An address is one word, two bytes in the code.  The interrupts that only *)
(* delay the next instruction are left out.                                *)
(***************************************************************************)
EXTENDS InstructionSets, Naturals

CONSTANTS
  Words,         \* the words that programs are made of here
  ProgramSize    \* the words of memory, after which it is mirrored

ASSUME ProgramSizeAssumption == ProgramSize \in Nat \ {0}

VARIABLES
  code,      \* m_memory
  starts,    \* history: the addresses at which the program's author put an instruction
  mega,      \* use_manual_vsync() of MEGACHIP
  pc,        \* m_current_pc
  stopped    \* Interrupt::ERROR, or SOUND at the end of the program

programVars == <<core, code, starts, mega, pc, stopped>>

Address == 0..(ProgramSize - 1)

Behind(a, words) == (a + words) % ProgramSize
-----------------------------------------------------------------------------
(* Plausible mistakes.                                                     *)

\* Length: as in the cores without long instructions.
LengthOfWord(a) == 1
-----------------------------------------------------------------------------
\* skip_instruction(): how many words the next instruction has.
Length(a) == IF code[a] \in LongWord THEN 2 ELSE 1

\* One instruction after another from the first one on, the last of which fits into memory.
Listing(s) ==
  LET next(a) == a + IF code[a] \in LongWord THEN 2 ELSE 1
  IN  /\ 0 \in s
      /\ \A a \in s : a = 0 \/ \E b \in s : next(b) = a
      /\ \A a \in s : next(a) = ProgramSize \/ next(a) \in s

\* Any program.
ProgramInit ==
  /\ core \in Core
  /\ code \in [Address -> Words]
  /\ starts \in SUBSET Address /\ Listing(starts)
  /\ mega = FALSE /\ pc = 0 /\ stopped = FALSE

\* A reset loads the program again.
reset_program ==
  /\ mega' = FALSE /\ pc' = 0 /\ stopped' = FALSE
  /\ UNCHANGED <<core, code, starts>>

Fetches == ~stopped /\ code[pc] \in decodes(mega)

Does(effect) == effect \in effects(code[pc])

\* instruction_error()
Unknown ==
  /\ ~stopped /\ code[pc] \notin decodes(mega) \cup ignores
  /\ stopped' = TRUE
  /\ pc' = Behind(pc, 1)
  /\ UNCHANGED <<core, code, starts, mega>>

Ignored ==
  /\ ~stopped /\ code[pc] \in ignores
  /\ pc' = Behind(pc, 1)
  /\ UNCHANGED <<core, code, starts, mega, stopped>>

\* Every other instruction goes on, but for 00FD, and 00ED of CHIP8E.
GoOn ==
  /\ Fetches /\ code[pc] \notin {"0010", "0011"}
  /\ ~Does("skip") /\ ~Does("jump") /\ ~Does("return") /\ ~Does("move") /\ ~Does("long")
  /\ pc' = Behind(pc, 1)
  /\ stopped' = Does("SOUND")
  /\ UNCHANGED <<core, code, starts, mega>>

\* F000 NNNN of XOCHIP and 01NN NNNN of MEGACHIP take the next word as well.
Long ==
  /\ Fetches /\ Does("long")
  /\ pc' = Behind(pc, 2)
  /\ UNCHANGED <<core, code, starts, mega, stopped>>

Skip ==
  /\ Fetches /\ Does("skip")
  /\ \E taken \in IF code[pc] = "0188" THEN {TRUE} ELSE BOOLEAN :
       pc' = Behind(pc, IF taken THEN 1 + Length(Behind(pc, 1)) ELSE 1)
  /\ UNCHANGED <<core, code, starts, mega, stopped>>

\* jump_program_to(): wherever the program's author meant; a jump to itself is its end.
Jump ==
  /\ Fetches /\ Does("jump")
  /\ pc' \in starts
  /\ stopped' = (pc' = pc)
  /\ UNCHANGED <<core, code, starts, mega>>

\* A return, and Fx1B of CHIP8E.
Return ==
  /\ Fetches /\ (Does("return") \/ Does("move"))
  /\ pc' \in starts
  /\ UNCHANGED <<core, code, starts, mega, stopped>>

instruction_0011 ==
  /\ Fetches /\ code[pc] = "0011"
  /\ mega' = TRUE /\ pc' = Behind(pc, 1)
  /\ UNCHANGED <<core, code, starts, stopped>>

instruction_0010 ==
  /\ Fetches /\ code[pc] = "0010"
  /\ mega' = FALSE /\ pc' = Behind(pc, 1)
  /\ UNCHANGED <<core, code, starts, stopped>>

ProgramNext ==
  \/ Unknown \/ Ignored \/ GoOn \/ Long \/ Skip \/ Jump \/ Return
  \/ instruction_0010 \/ instruction_0011
  \/ reset_program

ProgramSpec == ProgramInit /\ [][ProgramNext]_programVars
-----------------------------------------------------------------------------
\* A program that jumps only to instructions never executes the second half of one,
\* whatever it skips and in whichever mode.
NeverInsideLong == ~stopped => pc \in starts
=============================================================================
