---------------------------- MODULE SchipDisplay ----------------------------
(***************************************************************************)
(* The display of the SCHIP_MODERN core: a map of 64 by 32 pixels, or of   *)
(* 128 by 64 after 00FF, over one buffer; scrolls, sprites that are        *)
(* clipped or wrapped, and the reset.  A frame is put together from the    *)
(* map by the mode flag, which the resizes of the map must follow.         *)
(***************************************************************************)
EXTENDS Screen

CONSTANTS
  ScrollW,     \* the columns of a sideways scroll (4)
  MaxOps       \* bound on the instructions between two resets; the code has none

\* Half of the large screen is a screen.
HalfSizes ==
  /\ ScrollW \in Nat \ {0} /\ W % 2 = 0 /\ H % 2 = 0
  /\ 4 * ByteW <= W /\ 2 * Rows <= H

VARIABLES
  hires,    \* the mode flag, Trait.use_hires_screen
  w, h      \* the size of m_display_map

vars == <<hires, w, h, lit, vf, op>>

Draw(x, y, n, i, wrap) ==
  [name |-> "draw", x |-> x % w, y |-> y % h, n |-> n, i |-> i, wrap |-> wrap,
   ops |-> op.ops + 1, draws |-> op.draws + 1]
-----------------------------------------------------------------------------
(* Plausible mistakes.                                                     *)

\* StartColumn: a byte that begins past the right edge is wrapped unasked.
StartColumnMasked(X, wrap) == X % w

\* instruction_00FB: the map is rotated, not shifted.
instruction_00FB_rotating ==
  /\ op.ops < MaxOps
  /\ lit' = (lit \ Area(w, h)) \cup Rotate(lit \cap Area(w, h), w, h, ScrollW, 0)
  /\ op' = Scroll(ScrollW, 0)
  /\ UNCHANGED <<hires, w, h, vf>>

\* instruction_00FF: the map is cleared before it grows.
instruction_00FF_early ==
  /\ op.ops < MaxOps
  /\ hires' = TRUE
  /\ w' = W /\ h' = H
  /\ lit' = Blank(lit, w, h)
  /\ op' = Op("00FF")
  /\ UNCHANGED vf
-----------------------------------------------------------------------------
Init ==
  /\ hires = FALSE /\ w = W \div 2 /\ h = H \div 2
  /\ lit = {} /\ vf = 0 /\ op = None

\* The reset of the core and of the registers; the mode flag is not touched.
reset_system_data ==
  /\ w' = W \div 2 /\ h' = H \div 2
  /\ lit' = Blank(lit, w, h)
  /\ vf' = 0
  /\ op' = None
  /\ UNCHANGED hires

instruction_00E0 ==
  /\ op.ops < MaxOps
  /\ lit' = Blank(lit, w, h)
  /\ op' = Op("00E0")
  /\ UNCHANGED <<hires, w, h, vf>>

\* 00C0 is not decoded.
instruction_00CN(n) ==
  /\ op.ops < MaxOps
  /\ lit' = IF n = 0 THEN lit ELSE Shift(lit, w, h, 0, n)
  /\ op' = Scroll(0, n)
  /\ UNCHANGED <<hires, w, h, vf>>

instruction_00FB ==
  /\ op.ops < MaxOps
  /\ lit' = Shift(lit, w, h, ScrollW, 0)
  /\ op' = Scroll(ScrollW, 0)
  /\ UNCHANGED <<hires, w, h, vf>>

instruction_00FC ==
  /\ op.ops < MaxOps
  /\ lit' = Shift(lit, w, h, -ScrollW, 0)
  /\ op' = Scroll(-ScrollW, 0)
  /\ UNCHANGED <<hires, w, h, vf>>

instruction_00FE ==
  /\ op.ops < MaxOps
  /\ hires' = FALSE
  /\ w' = W \div 2 /\ h' = H \div 2
  /\ lit' = Blank(lit, w', h')
  /\ op' = Op("00FE")
  /\ UNCHANGED vf

instruction_00FF ==
  /\ op.ops < MaxOps
  /\ hires' = TRUE
  /\ w' = W /\ h' = H
  /\ lit' = Blank(lit, w', h')
  /\ op' = Op("00FF")
  /\ UNCHANGED vf

StartColumn(X, wrap) == IF wrap THEN X % w ELSE X

\* The loops stop at the last column, or row, unless sprites wrap.
BeforeEdge(start, b, size, wrap) ==
  wrap \/ \A c \in 0..(b - 1) : (start + c) % size # size - 1

\* draw_byte(): the pixels that it flips.
draw_byte(X, Y, data, wrap) ==
  LET x == StartColumn(X, wrap)
      bits == IF x < w THEN {b \in data : BeforeEdge(x, b, w, wrap)} ELSE {}
  IN  {Index((x + b) % w, Y, w) : b \in bits}

Collided(cells) == cells \cap lit # {}

\* The quirk is free for every sprite: the menu changes it while programs run.
instruction_DxyN(x, y, n, i, wrap) ==
  LET pX == x % w
      pY == y % h
      rows == {r \in 0..(RowsOf(n) - 1) : BeforeEdge(pY, r, h, wrap)}
      Row(r) ==
        IF n = 0
        THEN draw_byte(pX, (pY + r) % h, Byte(i + 2 * r), wrap)
             \cup draw_byte(pX + ByteW, (pY + r) % h, Byte(i + 2 * r + 1), wrap)
        ELSE draw_byte(pX, (pY + r) % h, Byte(i + r), wrap)
      cells == UNION {Row(r) : r \in rows}
  IN  /\ op.ops < MaxOps /\ op.draws < MaxDraws
      /\ lit' = (lit \ cells) \cup (cells \ lit)
      /\ vf' = IF Collided(cells) THEN 1 ELSE 0
      /\ op' = Draw(x, y, n, i, wrap)
      /\ UNCHANGED <<hires, w, h>>

Next ==
  \/ reset_system_data
  \/ instruction_00E0
  \/ \E n \in 1..Rows : instruction_00CN(n)
  \/ instruction_00FB \/ instruction_00FC
  \/ instruction_00FE \/ instruction_00FF
  \/ \E x \in Xs, y \in Ys, n \in 0..Rows, wrap \in BOOLEAN :
       \E i \in 0..(Len(Memory) - BytesOf(n)) : instruction_DxyN(x, y, n, i, wrap)

Spec == Init /\ [][Next]_vars
-----------------------------------------------------------------------------
\* A change of the mode and a reset leave the map dark, whatever the part of the
\* buffer that they bring into it showed before.
BlankOnModeChange == op.name \in {"00FE", "00FF", "none"} => lit \cap Area(w, h) = {}

\* A sprite flips exactly its own pixels: the ones it has past the edges are
\* dropped, or come in on the other side with the wrap quirk.
DrawFlipsSprite ==
  op'.name = "draw" =>
    LET Bit(dx, dy) == SpriteBit(op'.n, op'.i, dx, dy)
    IN  Drawn(lit, lit', w, h, op'.x, op'.y, op'.wrap, Bit)

\* VF tells whether the sprite turned a lit pixel off.
FlagTellsErasure == op'.name = "draw" => (vf' = 1 <=> lit \ lit' # {})

\* A scroll moves every pixel by its distance and brings dark ones in.
ScrollMovesPixels ==
  op'.name = "scroll" => Scrolled(lit, lit', w, h, op'.cols, op'.rows)

\* push_video_data() reads the whole map by index in the large mode and quarters
\* the coordinates otherwise.  Map2D.hpp: "operator() index out of bounds" must not
\* happen.
FrameInBounds == IF hires THEN W * H <= w * h ELSE W \div 2 <= w /\ H \div 2 <= h
=============================================================================
