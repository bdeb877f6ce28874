------------------------------ MODULE MCFamily ------------------------------
(***************************************************************************)
(* The keypad, the call stack, the quirk flags, the frame and the editor   *)
(* of the memory of one CHIP-8 system, and the BytePusher core.  They      *)
(* share no state and no condition (the editor's memory is its own), so an *)
(* interleaving of two of them shows nothing that an execution of each     *)
(* does not: an execution moves one of them, and the states add up instead *)
(* of multiplying.                                                         *)
(*                                                                         *)
(* Three keys, where a held key repeats after three frames, then after     *)
(* two; a stack of three entries in a memory of four addresses; timers of  *)
(* up to two frames, in programs that time and sound or that change the    *)
(* core's other state.  The editor has three bytes of two digits in rows   *)
(* of one or two: the last row may be short, and the field out of view;    *)
(* one of the bytes is changed in an execution, to an odd value.           *)
(* BytePusher has bytes of one bit, eight bytes of memory, and every       *)
(* program of five or eight of them.                                       *)
(***************************************************************************)
EXTENDS Keypad, CallStack, QuirkFlags, Machine

CONSTANTS
  EditorSize, EditorRadix, Typable, Longest, PreviewSize, c_max_addr,
                                                              \* of MemoryEditor
  Radix, Levels, cpf, Lengths, MaxFrames                      \* of BytePusher

VARIABLES
  part,         \* the part that moves
  bytes, columns, const, editing, preview, acquire, marked, scroll, text, focus, selected,
  apart, known, entered, \* the variables of MemoryEditor
  image, cells, shown, heard, pressed
                \* the variables of BytePusher

Editor == INSTANCE MemoryEditor
  WITH Size <- EditorSize, Radix <- EditorRadix, memory <- bytes

Pusher == INSTANCE BytePusher

MCKeys == {1, 2, 3}
MCValues == 0..2
MCUses ==
  {{"FRAME", "VBLANK", "SOUND", "INPUT", "DELAY", "timer", "voice", "unique", "buzzer"},
   {"memory", "large", "display", "mode", "background", "tint", "zones", "mask", "pitch",
    "pattern", "planes", "colors", "palette", "texture", "track", "blend"}}

editorVars == <<bytes, columns, const, editing, preview, acquire, marked, scroll, text,
                focus, selected, apart, known, entered>>
pusherVars == <<image, cells, shown, heard, pressed>>
allVars == <<part, vars, stackVars, quirkVars, machineVars, editorVars, pusherVars>>

FamilyInit ==
  /\ part \in {"keypad", "stack", "quirks", "frame", "editor", "pusher"}
  /\ Init /\ StackInit /\ QuirkInit /\ MachineInit /\ Editor!EditorInit /\ Pusher!PusherInit
  /\ part # "frame" => core = "XOCHIP" /\ "Fx18" \in program
  /\ part # "pusher" => image = <<0, 0, 0, 0, 0>>

KeypadStep(A) ==
  /\ part = "keypad" /\ A
  /\ UNCHANGED <<part, stackVars, quirkVars, machineVars, editorVars, pusherVars>>
CoreStep(A) ==
  /\ part = "frame" /\ A
  /\ UNCHANGED <<part, vars, stackVars, quirkVars, editorVars, pusherVars>>

FamilyNext ==
  \/ KeypadStep(Next)
  \/ /\ part = "stack" /\ StackNext
     /\ UNCHANGED <<part, vars, quirkVars, machineVars, editorVars, pusherVars>>
  \/ /\ part = "quirks" /\ QuirkNext
     /\ UNCHANGED <<part, vars, stackVars, machineVars, editorVars, pusherVars>>
  \/ CoreStep(MachineNext)
  \/ /\ part = "editor" /\ Editor!EditorNext
     /\ Cardinality({a \in DOMAIN bytes : bytes'[a] # a}) <= 1
     /\ \A a \in DOMAIN bytes : bytes'[a] # a => bytes'[a] % 2 = 1
     /\ UNCHANGED <<part, vars, stackVars, quirkVars, machineVars, pusherVars>>
  \/ /\ part = "pusher" /\ Pusher!PusherNext
     /\ UNCHANGED <<part, vars, stackVars, quirkVars, machineVars, editorVars>>

\* The worker's frames go on; nobody has to press a key or to reset.
FamilySpec ==
  /\ FamilyInit /\ [][FamilyNext]_allVars
  /\ WF_allVars(KeypadStep(Frame))
  /\ WF_allVars(CoreStep(BeginWork)) /\ WF_allVars(CoreStep(EndWork))
-----------------------------------------------------------------------------
\* A reset forgets the last run of the program: see Machine and BytePusher.
ResetForgets ==
  [][/\ part = "frame" => ResetRenews
     /\ part = "pusher" => Pusher!FramesReplay]_allVars

\* The view shows the memory, and the editor writes what was entered where it was entered: see
\* MemoryEditor.
EditorIsTrue ==
  [][UNCHANGED <<bytes, columns, preview, marked, scroll, focus>>
       \/ Editor!ViewIsMemory']_allVars /\ Editor!OnlyEnteredIsWritten

\* The comment on the refresh of the field: see MemoryEditor.
FieldShowsMemory == Editor!FieldShowsMemory

\* "FX30 - set I to 10-byte hex sprite from VX": see Machine.
HexSpriteIsThere == [][part = "frame" => PointsToSprite]_allVars
=============================================================================
