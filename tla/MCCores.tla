------------------------------ MODULE MCCores -------------------------------
(***************************************************************************)
(* What a CHIP-8 core executes: its display, its arithmetic, its transfers *)
(* to memory, its way through a program, and the permanent registers.  A   *)
(* system has the core it was made for, and keeps it.  The parts share no  *)
(* condition, so an execution moves one of them and the states add up      *)
(* instead of multiplying.                                                 *)
(*                                                                         *)
(* Displays: screens of eight by four pixels, sixteen by four for          *)
(* SCHIP_LEGACY, with bytes of two bits and sprites of one or two rows.    *)
(* The rest: three registers of two bits, four bytes and four words of     *)
(* memory, and two systems with one program or with two.                   *)
(***************************************************************************)
EXTENDS SchipLegacyDisplay, Arithmetic, Program

CONSTANTS s1, s2, g1, g2

VARIABLES
  part,                                             \* the part that moves
  pixels, w, h,                                     \* lit and the size of other displays
  planes, mask,                                     \* of XoDisplay
  zone, fine, background,                           \* of ZoneDisplay
  mode, bg, old, hitmap, texture, frame,            \* of MegaDisplay
  i, bytes, mem, saved,                             \* of Transfers
  game, path, files, shared, step, mixed, last, unsaved   \* of PermaRegisters

MCMemory == <<{0, 1}, {0}, {1}, {0, 1}>>
MCXs == {1, 2, 15}
MCYs == {0, 1, 3}

Width == W \div 2
Sprites == <<{0, 1}, {0}, {1}, {}, {0, 1}>>

Modern == INSTANCE Chip8Display
  WITH W <- Width, Memory <- Sprites, lit <- pixels, Xs <- {3, 6, 7, 8}, Ys <- {0, 3, 4}

Schip == INSTANCE SchipDisplay
  WITH W <- Width, ScrollW <- 1, Memory <- Sprites, lit <- pixels, Xs <- {1, 7}, Ys <- {1, 3}

ASSUME SchipAssumption == Schip!HalfSizes

Xo == INSTANCE XoDisplay
  WITH W <- Width, ScrollW <- 1, lit <- planes, Plane <- {0, 1}, Xs <- {7}, Ys <- {3},
       Is <- {0}, Memory <- <<{0, 1}, {1}, {0}, {0, 1}, {}, {1}, {0}, {1}>>

Zones == INSTANCE ZoneDisplay
  WITH W <- Width, Memory <- Sprites, lit <- pixels, Group <- 2, Colors <- {2, 5},
       Extents <- {0, 1}, MaxOps <- 2, Xs <- {7, 10}, Ys <- {1, 3}

\* The large maps are eight by six pixels here, and rows wrap at eight.
Mega == INSTANCE MegaDisplay
  WITH W <- 4, H <- 2, ScrollW <- 1, lit <- pixels, MV <- 8, MaxOps <- 4, Is <- {0, 2}, Xs <- {1, 7}, Ys <- {5, 6},
       Textures <- {[w |-> 3, h |-> 1, collide |-> {0}, font_pos |-> 5],
                    [w |-> 1, h |-> 4, collide |-> {0, 1}, font_pos |-> 5]},
       Memory <- <<{0, 1}, {1}, {0}, {}, {0, 1}, {1}>>

MCRegister == 0..2
MCBits == 0..1

Transfer == INSTANCE Transfers WITH v <- bytes, Top <- 2, Size <- 4, Value <- {0, 1}

MCWords == {"3xNN", "1NNN", "00EE", "F000", "01NN", "0011", "0010", "00FD"}

Perma == INSTANCE PermaRegisters
  WITH System <- {s1, s2}, Game <- {g1, g2}, Count <- 2,
       Contents <- [s \in {s1, s2} |-> IF s = s1 THEN {<<1, 1>>} ELSE {<<2, 2>>}],
       Runs <- {[s \in {s1, s2} |-> g1], [s \in {s1, s2} |-> IF s = s1 THEN g1 ELSE g2]}

xoVars == <<planes, mask>>
zoneVars == <<zone, fine, background>>
megaVars == <<mode, bg, old, hitmap, texture, frame>>
legacyVars == <<lit, vblank, doubled>>
displayVars == <<hires, vf, op, pixels, w, h, legacyVars, xoVars, zoneVars, megaVars>>
transferVars == <<i, bytes, mem, saved>>
flowVars == <<code, starts, mega, pc, stopped>>
permaVars == <<game, path, files, shared, step, mixed, last, unsaved>>
allVars == <<part, core, v, displayVars, transferVars, flowVars, permaVars>>

\* A part that does not move has one initial state.
CoresInit ==
  /\ part \in {"display", "arithmetic", "transfers", "program", "permaregs"}
  /\ core \in IF part = "permaregs" THEN {"XOCHIP"}
              ELSE Core
  /\ Init /\ Modern!Init /\ Schip!Init
  /\ Xo!Init /\ Zones!Init /\ Mega!Init
  /\ RegistersInit /\ Transfer!Init
  /\ IF part = "program" THEN ProgramInit
     ELSE code = <<>> /\ starts = {0} /\ mega = FALSE /\ pc = 0 /\ stopped = FALSE
  /\ Perma!Init
  /\ part # "permaregs" => game[s2] = g2 /\ files[g1] = files[g2] /\ files[g1].there

DisplayNext ==
  \/ core = "CHIP8_MODERN" /\ Modern!Next
     /\ UNCHANGED <<hires, w, h, legacyVars, xoVars, zoneVars, megaVars>>
  \/ core = "SCHIP_MODERN" /\ Schip!Next /\ UNCHANGED <<legacyVars, xoVars, zoneVars, megaVars>>
  \/ core = "SCHIP_LEGACY" /\ Next /\ UNCHANGED <<pixels, w, h, xoVars, zoneVars, megaVars>>
  \/ core = "XOCHIP" /\ Xo!Next /\ UNCHANGED <<pixels, legacyVars, zoneVars, megaVars>>
  \/ core \in {"CHIP8E", "CHIP8X"} /\ (Zones!DrawNext \/ (core = "CHIP8X" /\ Zones!ZoneNext))
     /\ UNCHANGED <<hires, w, h, legacyVars, xoVars, megaVars>>
  \/ core = "MEGACHIP" /\ Mega!Next
     /\ UNCHANGED <<hires, w, h, legacyVars, xoVars, zoneVars>>

CoresNext ==
  /\ \/ /\ part = "display" /\ DisplayNext
        /\ UNCHANGED <<v, transferVars, flowVars, permaVars>>
     \/ /\ part = "arithmetic" /\ RegistersNext
        /\ UNCHANGED <<displayVars, transferVars, flowVars, permaVars>>
     \/ /\ part = "transfers" /\ Transfer!Next
        /\ UNCHANGED <<displayVars, v, flowVars, permaVars>>
     \/ /\ part = "program" /\ ProgramNext
        /\ UNCHANGED <<displayVars, v, transferVars, permaVars>>
     \/ /\ part = "permaregs" /\ Perma!Next
        /\ UNCHANGED <<displayVars, v, transferVars, flowVars>>
  /\ UNCHANGED <<part, core>>

CoresSpec == CoresInit /\ [][CoresNext]_allVars
-----------------------------------------------------------------------------
\* Every core draws a sprite as its own pixels and no others; one that SCHIP_LEGACY
\* doubles shows twice as large, and changes nothing beside and below it.
PixelsAreSprite ==
  [][part = "display" =>
     CASE core = "CHIP8_MODERN" -> Modern!DrawFlipsSprite
       [] core = "SCHIP_MODERN" -> Schip!DrawFlipsSprite
       [] core = "SCHIP_LEGACY" -> ExtendedDrawFlipsSprite /\ DoubledDrawFlipsSprite
       [] core = "XOCHIP" -> Xo!DrawFlipsSprite
       [] core \in {"CHIP8E", "CHIP8X"} -> Zones!DrawFlipsSprite
       [] core = "MEGACHIP" -> Mega!DrawFlipsSprite]_allVars

\* VF is what the sprite's collision is defined as: a flag, or a number of rows.
FlagIsCollision ==
  [][part = "display" =>
     CASE core = "CHIP8_MODERN" -> Modern!FlagTellsErasure
       [] core = "SCHIP_MODERN" -> Schip!FlagTellsErasure
       [] core = "SCHIP_LEGACY" -> FlagCountsRows
       [] core = "XOCHIP" -> Xo!FlagTellsErasure
       [] core \in {"CHIP8E", "CHIP8X"} -> Zones!FlagTellsErasure
       [] core = "MEGACHIP" -> Mega!FlagTellsErasure]_allVars

\* A draw is what its instruction says, its pixels and its flag; and BxyN gives the pixels
\* of its zones, and no others, their colour.
DrawIsSprite ==
  /\ PixelsAreSprite /\ FlagIsCollision
  /\ [][part = "display" /\ core = "CHIP8X" => Zones!ZoneIsPainted]_allVars

\* A scroll moves every pixel by its distance and brings dark ones in; a change of the
\* mode leaves the map dark, whatever the buffer held.
ScrollMoves ==
  [][part = "display" =>
     CASE core = "SCHIP_MODERN" -> Schip!ScrollMovesPixels /\ Schip!BlankOnModeChange'
       [] core = "SCHIP_LEGACY" -> ScrollMovesPixels
       [] core = "XOCHIP" -> Xo!ScrollMovesPlanes
       [] core = "MEGACHIP" -> Mega!ScrollMovesPictures
       [] OTHER -> TRUE]_allVars

\* Map2D.hpp: "operator() row out of bounds" must not happen: see MegaDisplay.
DigitStaysOnMap == [][part = "display" /\ core = "MEGACHIP" => Mega!DigitStaysOnMap]_allVars

\* Map2D.hpp: "operator() index out of bounds" must not happen: see SchipDisplay.
FrameStaysInBounds == core = "SCHIP_MODERN" => Schip!FrameInBounds

\* Registers come back from memory as they were stored, and the permanent ones as they were
\* stored last: see Transfers and PermaRegisters.
SavedIsRestored ==
  /\ [][part = "transfers" => Transfer!SavedIsRestored]_allVars
  /\ [][part = "permaregs" => Perma!LoadIsLastSave]_allVars
=============================================================================
