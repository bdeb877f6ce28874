----------------------------- MODULE ZoneDisplay -----------------------------
(***************************************************************************)
(* The displays of the CHIP8E and CHIP8X cores, which clip every sprite at *)
(* the edges and draw nothing for N = 0, and the coloured zones of CHIP8X: *)
(* a map of colours with one column for every byte of a row of pixels, and *)
(* a mask that shows all rows of it or one in every four.                  *)
(***************************************************************************)
EXTENDS Screen

CONSTANTS
  Group,       \* the rows of pixels of a zone that BxyN with N = 0 paints (4)
  Colors,      \* the indices into c_fore_colors
  Extents,     \* the high halves of VX and VX+1 that are tried
  MaxOps       \* bound on the instructions between two resets; the code has none

VARIABLES
  zone,        \* m_colored_map: a colour for every column of bytes and every row
  fine,        \* m_color_pixel_mask is 0xFF: every row shows its own colour
  background   \* m_background_color

vars == <<lit, vf, op, zone, fine, background>>

Columns == W \div ByteW

\* c_fore_colors[2], what the reset gives the first zone; the others are transparent.
First == 2
Clear == -1

Draw(x, y, n, i) ==
  [name |-> "draw", x |-> x % W, y |-> y % H, n |-> n, i |-> i,
   ops |-> op.ops + 1, draws |-> op.draws + 1]
-----------------------------------------------------------------------------
(* Plausible mistakes.                                                     *)


\* color_lores_zone: the last row and the last column are left out.
LoresCellsShort(X, Y, dx, dy) ==
  {<<(X + pX) % Columns, (Group * (Y + pY)) % H>> : pX \in 0..(dx - 1), pY \in 0..(dy - 1)}
-----------------------------------------------------------------------------
ResetZones ==
  [cell \in (0..(Columns - 1)) \X (0..(H - 1)) |-> IF cell = <<0, 0>> THEN First ELSE Clear]

Init ==
  /\ lit = {} /\ vf = 0 /\ op = None
  /\ zone = ResetZones /\ fine = FALSE /\ background = 0

reset_system_data ==
  /\ lit' = {} /\ vf' = 0 /\ op' = None
  /\ zone' = ResetZones /\ fine' = FALSE /\ background' = 0

instruction_00E0 ==
  /\ op.ops < MaxOps
  /\ lit' = {} /\ op' = Op("00E0")
  /\ UNCHANGED <<vf, zone, fine, background>>

\* draw_byte(): the pixels that it flips, up to the last column.
draw_byte(X, Y, data) == {Index(X + b, Y, W) : b \in {k \in data : X + k < W}}

instruction_DxyN(x, y, n, i) ==
  LET cells == UNION {draw_byte(x % W, (y % H) + r, Byte(i + r)) :
                        r \in {q \in 0..(n - 1) : (y % H) + q < H}}
  IN  /\ op.ops < MaxOps /\ op.draws < MaxDraws /\ i + n <= Len(Memory)
      /\ lit' = (lit \ cells) \cup (cells \ lit)
      /\ vf' = IF cells \cap lit # {} THEN 1 ELSE 0
      /\ op' = Draw(x, y, n, i)
      /\ UNCHANGED <<zone, fine, background>>

\* 02A0: the next of the four background colours.
instruction_02A0 ==
  /\ op.ops < MaxOps
  /\ background' = (background + 1) % 4
  /\ op' = Op("02A0")
  /\ UNCHANGED <<lit, vf, zone, fine>>

\* The cells of the zones from (X, Y) to dx columns and dy zones further, around the
\* edges: a zone's colour is kept in its first row.
LoresCells(X, Y, dx, dy) ==
  {<<(X + pX) % Columns, (Group * (Y + pY)) % H>> : pX \in 0..dx, pY \in 0..dy}

Paint(cells, color) == [c \in DOMAIN zone |-> IF c \in cells THEN color ELSE zone[c]]

\* BxyN with N = 0: VX holds X and dx, VX+1 holds Y and dy.
color_lores_zone(X, Y, dx, dy, color) ==
  /\ op.ops < MaxOps
  /\ zone' = Paint(LoresCells(X, Y, dx, dy), color)
  /\ fine' = FALSE
  /\ op' = [name |-> "lores", x |-> X, y |-> Y, dx |-> dx, dy |-> dy, color |-> color,
            ops |-> op.ops + 1, draws |-> op.draws]
  /\ UNCHANGED <<lit, vf, background>>

\* BxyN otherwise: one column of bytes, N rows of pixels.
color_hires_zone(X, Y, n, color) ==
  /\ op.ops < MaxOps
  /\ zone' = Paint({<<(X \div ByteW) % Columns, (Y + r) % H>> : r \in 0..(n - 1)}, color)
  /\ fine' = TRUE
  /\ op' = [name |-> "hires", x |-> X, y |-> Y, n |-> n, color |-> color,
            ops |-> op.ops + 1, draws |-> op.draws]
  /\ UNCHANGED <<lit, vf, background>>

DrawNext ==
  \/ reset_system_data
  \/ instruction_00E0
  \/ \E x \in Xs, y \in Ys, n \in 0..Rows, i \in 0..(Len(Memory) - 1) :
       instruction_DxyN(x, y, n, i)

ZoneNext ==
  \/ instruction_02A0
  \/ \E color \in Colors :
       \/ \E X \in 0..(Columns - 1), Y \in 0..((H \div Group) - 1), dx, dy \in Extents :
            color_lores_zone(X, Y, dx, dy, color)
       \/ \E X \in Xs, Y \in Ys, n \in 1..Rows :
            color_hires_zone(X, Y, n, color)
-----------------------------------------------------------------------------
\* push_video_data(): the zone that colours a pixel, if the pixel is lit.
Shown(x, y) == <<x \div ByteW, IF fine THEN y ELSE (y \div Group) * Group>>

Pixels == (0..(W - 1)) \X (0..(H - 1))

\* What is drawn for N > 0 are the sprite's own pixels, clipped at the edges.
DrawFlipsSprite ==
  op'.name = "draw" =>
    LET Bit(dx, dy) == dx < ByteW /\ dy < op'.n /\ dx \in Byte(op'.i + dy)
    IN  Drawn(lit, lit', W, H, op'.x, op'.y, FALSE, Bit)

FlagTellsErasure == op'.name = "draw" => (vf' = 1 <=> lit \ lit' # {})

\* The pixel lies in the rectangle that was painted last, around the edges.
InPainted(x, y, o) ==
  LET across == (x \div ByteW - o.x) % Columns
  IN  IF o.name = "hires"
      THEN x \div ByteW = (o.x \div ByteW) % Columns /\ (y - o.y) % H < o.n
      ELSE across <= o.dx /\ (y \div Group - o.y) % (H \div Group) <= o.dy

\* After BxyN every pixel of the rectangle has the new colour; the colour of a pixel
\* outside changes only if the kind of the zones does.
ZoneIsPainted ==
  op'.name \in {"lores", "hires"} =>
    \A xy \in Pixels :
      LET now == Shown(xy[1], xy[2])'
      IN  IF InPainted(xy[1], xy[2], op') THEN zone'[now] = op'.color
          ELSE fine' = fine => zone'[now] = zone[now]
=============================================================================
