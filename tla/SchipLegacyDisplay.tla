------------------------- MODULE SchipLegacyDisplay -------------------------
(***************************************************************************)
(* The display of the SCHIP_LEGACY core: always 128 by 64 pixels.  Without *)
(* the extended mode DxyN doubles every pixel of a sprite: it flips the    *)
(* upper of two rows, in a zone of four bytes, and copies the zone to the  *)
(* lower row.  VF is a flag then, and a number of rows in extended mode.   *)
(* A byte shifted into a zone is the set of the columns it reaches.  The   *)
(* zones need a width that is a multiple of two bytes, and an even height. *)
(***************************************************************************)
EXTENDS Screen, FiniteSets

CONSTANTS
  ScrollW,     \* the columns of a sideways scroll (4)
  MaxOps       \* bound on the instructions between two erasures; the code has none

VARIABLES
  hires,    \* the extended mode, Trait.use_hires_screen
  vblank,   \* the quirk AWAIT_VBLANK: does a sprite wait for the next frame?
  doubled   \* history: has nothing but doubled sprites and even scrolls changed
            \* the screen since it was erased?

vars == <<hires, vblank, lit, vf, op, doubled>>

Draw(x, y, n, i) ==
  [name |-> "draw", x |-> x, y |-> y, n |-> n, i |-> i,
   ops |-> op.ops + 1, draws |-> op.draws + 1]

Snap(x, zone) == (x \div zone) * zone
-----------------------------------------------------------------------------
(* Plausible mistakes.                                                     *)

\* bit_dup: a bit is moved to its doubled place, not doubled.
bit_dup_spread(data) == {2 * b : b \in data}

\* Zone: the zone is as wide as the doubled byte alone.
ZoneOfByte == 2 * ByteW

\* CountRows: the rows drawn, not the rows that collide.
CountRowsDrawn(hits, rows) == Cardinality(rows)
-----------------------------------------------------------------------------
Init ==
  /\ hires = FALSE /\ vblank = TRUE /\ lit = {} /\ vf = 0 /\ op = None /\ doubled = TRUE

\* The reset of the core and of the registers: neither the mode nor the quirk.
reset_system_data ==
  /\ lit' = Blank(lit, W, H) /\ vf' = 0 /\ op' = None /\ doubled' = TRUE
  /\ UNCHANGED <<hires, vblank>>

instruction_00E0 ==
  /\ lit' = Blank(lit, W, H)
  /\ op' = [None EXCEPT !.name = "00E0"]
  /\ doubled' = TRUE
  /\ UNCHANGED <<hires, vblank, vf>>

instruction_00CN(n) ==
  /\ op.ops < MaxOps
  /\ lit' = Shift(lit, W, H, 0, n)
  /\ op' = Scroll(0, n)
  /\ doubled' = (doubled /\ n % 2 = 0)
  /\ UNCHANGED <<hires, vblank, vf>>

instruction_00FB ==
  /\ op.ops < MaxOps
  /\ lit' = Shift(lit, W, H, ScrollW, 0)
  /\ op' = Scroll(ScrollW, 0)
  /\ UNCHANGED <<hires, vblank, vf, doubled>>

instruction_00FC ==
  /\ op.ops < MaxOps
  /\ lit' = Shift(lit, W, H, -ScrollW, 0)
  /\ op' = Scroll(-ScrollW, 0)
  /\ UNCHANGED <<hires, vblank, vf, doubled>>

instruction_00FE ==
  /\ op.ops < MaxOps
  /\ hires' = FALSE /\ vblank' = TRUE
  /\ op' = Op("00FE")
  /\ UNCHANGED <<lit, vf, doubled>>

instruction_00FF ==
  /\ op.ops < MaxOps
  /\ hires' = TRUE /\ vblank' = FALSE
  /\ op' = Op("00FF")
  /\ UNCHANGED <<lit, vf, doubled>>

\* The columns of a zone that are on the screen, as indices of row y.
ClipColumn(cells, x_begin, y) ==
  {Index(x_begin + c, y, W) : c \in {k \in cells : x_begin + k < W}}

CountRows(hits, rows) == Cardinality(hits)

\* A large sprite has two bytes in a row, which begin in the zone at its offset.
single_bits(i, n, r, offset) ==
  IF n = 0
  THEN {b + offset : b \in Byte(i + 2 * r)} \cup {b + ByteW + offset : b \in Byte(i + 2 * r + 1)}
  ELSE {b + offset : b \in Byte(i + r)}

\* draw_single_byte() for every row: the pixels that are flipped.
DrawSingle(x, y, n, i) ==
  LET x_begin == Snap(x % W, ByteW)
      y_begin == y % H
      rows == {r \in 0..(RowsOf(n) - 1) : y_begin + r < H}
      cells(r) == ClipColumn(single_bits(i, n, r, x % ByteW), x_begin, y_begin + r)
      all == UNION {cells(r) : r \in rows}
  IN  /\ op.ops < MaxOps /\ op.draws < MaxDraws
      /\ hires
      /\ lit' = (lit \ all) \cup (all \ lit)
      /\ vf' = CountRows({r \in rows : cells(r) \cap lit # {}}, rows)
      /\ op' = Draw(x, y, n, i)
      /\ doubled' = FALSE
      /\ UNCHANGED <<hires, vblank>>

bit_dup(data) == {2 * b : b \in data} \cup {2 * b + 1 : b \in data}

Zone == 4 * ByteW

YBegin(y) == (2 * y) % H

\* draw_double_byte() for every row: the upper row is flipped, then copied.
DrawDouble(x, y, n, i) ==
  LET x_begin == Snap((2 * x) % W, 2 * ByteW)
      y_begin == YBegin(y)
      rows == {r \in 0..(RowsOf(n) - 1) : y_begin + 2 * r + 1 < H}
      Up(r) == y_begin + 2 * r
      bits(r) == {b + 2 * (x % ByteW) : b \in bit_dup(Byte(i + r))}
      cells(r) == ClipColumn(bits(r), x_begin, Up(r))
      up(r) == ClipColumn(0..(Zone - 1), x_begin, Up(r))
      flipped(r) == ((lit \ cells(r)) \cup (cells(r) \ lit)) \cap up(r)
      copied(r) == flipped(r) \cup {k + W : k \in flipped(r)}
      touched(r) == up(r) \cup {k + W : k \in up(r)}
  IN  /\ op.ops < MaxOps /\ op.draws < MaxDraws
      /\ ~hires
      /\ lit' = (lit \ UNION {touched(r) : r \in rows}) \cup UNION {copied(r) : r \in rows}
      /\ vf' = IF \E r \in rows : cells(r) \cap lit # {} THEN 1 ELSE 0
      /\ op' = Draw(x, y, n, i)
      /\ UNCHANGED <<hires, vblank, doubled>>

\* The sprite's bytes lie in the memory that is modelled.
instruction_DxyN(x, y, n, i) ==
  \/ i + (IF n = 0 THEN 2 * Rows ELSE n) <= Len(Memory) /\ DrawSingle(x, y, n, i)
  \/ i + RowsOf(n) <= Len(Memory) /\ DrawDouble(x, y, n, i)

Next ==
  \/ reset_system_data
  \/ instruction_00E0
  \/ \E n \in 1..Rows : instruction_00CN(n)
  \/ instruction_00FB \/ instruction_00FC
  \/ instruction_00FE \/ instruction_00FF
  \/ \E x \in Xs, y \in Ys, n \in 0..Rows, i \in 0..(Len(Memory) - 1) :
       instruction_DxyN(x, y, n, i)

Spec == Init /\ [][Next]_vars
-----------------------------------------------------------------------------
\* "Faking a 64 x 32 screen to the observer": without extended mode and odd scrolls
\* every pixel of the small screen is a uniform square of four.
SmallScreenIsFaked ==
  doubled =>
    \A x \in 0..(W \div 2 - 1), y \in 0..(H \div 2 - 1) :
      LET square == {Index(2 * x + dx, 2 * y + dy, W) : dx \in 0..1, dy \in 0..1}
      IN  square \subseteq lit \/ square \cap lit = {}

\* In extended mode a sprite flips exactly its own pixels and drops the others.
ExtendedDrawFlipsSprite ==
  op'.name = "draw" /\ hires =>
    LET Bit(dx, dy) == SpriteBit(op'.n, op'.i, dx, dy)
    IN  Drawn(lit, lit', W, H, op'.x % W, op'.y % H, FALSE, Bit)

\* Without it the upper rows show the doubled sprite, which begins at twice its
\* column, and no pixel outside the zone and the sprite's rows changes.
DoubledDrawFlipsSprite ==
  op'.name = "draw" /\ ~hires =>
    \A x \in 0..(W - 1), y \in 0..(H - 1) :
      LET dx == x - ((2 * op'.x) % W)
          dy == y - ((2 * op'.y) % H)
          flips == (Index(x, y, W) \in lit') # (Index(x, y, W) \in lit)
      IN  IF dy >= 0 /\ dy < 2 * RowsOf(op'.n)
          THEN y % 2 = 0 =>
                 (flips <=> /\ dx >= 0 /\ dx < 2 * ByteW
                            /\ dx \div 2 \in Byte(op'.i + dy \div 2))
          ELSE ~flips

\* VF is the number of the sprite's rows that turned a lit pixel off in extended
\* mode, and tells whether an upper row did otherwise.
FlagCountsRows ==
  op'.name = "draw" =>
    LET Erased(y) == \E x \in 0..(W - 1) : Index(x, y, W) \in lit \ lit'
        rows == {y \in 0..(H - 1) : Erased(y)}
    IN  IF hires THEN vf' = Cardinality(rows)
        ELSE vf' = (IF \E y \in rows : y % 2 = 0 THEN 1 ELSE 0)

\* A scroll moves every pixel by its distance and brings dark ones in.
ScrollMovesPixels ==
  op'.name = "scroll" => Scrolled(lit, lit', W, H, op'.cols, op'.rows)
=============================================================================
