----------------------------- MODULE MegaDisplay -----------------------------
(***************************************************************************)
(* The display of the MEGACHIP core.  In its two small modes it is a map   *)
(* of 128 by 64 pixels, the smallest one drawn into with doubled pixels.   *)
(* In the large mode, of 256 by 192, textures are composited onto a        *)
(* background, with a second map that tells which colour was drawn where;  *)
(* an erasure shows the background and keeps it as the old picture, which  *)
(* a scroll moves and shows above what has been drawn since.               *)
(*                                                                         *)
(* A colour is the byte of its index, {} the transparent one; every other  *)
(* colour is opaque and the blend modes are left out, so a composited      *)
(* pixel has the colour drawn last.                                        *)
(***************************************************************************)
EXTENDS Screen, FiniteSets

CONSTANTS
  ScrollW,     \* the columns of a sideways scroll (4)
  MV,          \* what row numbers of the large mode wrap at: 256, of which 192 show
  Textures,    \* the settings of m_texture that are tried
  Is,          \* the values of I that are tried
  MaxOps       \* bound on the instructions between two resets; the code has none

\* The large maps have twice the columns of the small one, and three times its rows.
MW == 2 * W
MH == 3 * H

VARIABLES
  mode,       \* Trait.use_manual_vsync ("MC"), or use_hires_screen ("HI", "LO")
  bg,         \* m_background_map
  old,        \* m_old_render_map
  hitmap,     \* m_collision_map
  texture,    \* m_texture
  frame       \* the picture that the last instruction gave to the swapchain

vars == <<mode, lit, bg, old, hitmap, texture, frame, vf, op>>

Clear == [c \in Area(MW, MH) |-> {}]
NoFrame == <<>>
Light == {ByteW}
Dark == {ByteW + 1}
m_font_colors(row) == {ByteW + 2 + row}
NoTexture == [w |-> 0, h |-> 0, collide |-> 0..(ByteW - 1), font_pos |-> 0]

Draw(x, y, n, i, wrap) ==
  [name |-> "draw", x |-> x, y |-> y, n |-> n, i |-> i, wrap |-> wrap,
   ops |-> op.ops + 1, draws |-> op.draws + 1]
-----------------------------------------------------------------------------
(* Plausible mistakes.                                                     *)

\* SingleByte: the byte begins at its column, which is rounded to bytes, too.
SingleByteRounded(x, y, data) ==
  {Index(x - (x % ByteW), y, W) + b : b \in data}

\* flush_all_video_buffers: the old picture is not replaced.
FlushedWithoutOld(by_blending, and_advance) ==
  /\ frame' = IF by_blending THEN [c \in Area(MW, MH) |-> IF old'[c] # {} THEN old'[c] ELSE bg[c]]
              ELSE bg
  /\ old' = old
  /\ bg' = IF and_advance THEN Clear ELSE bg
  /\ hitmap' = IF and_advance THEN Clear ELSE hitmap
-----------------------------------------------------------------------------
Init ==
  /\ mode = "LO" /\ lit = {} /\ bg = Clear /\ old = Clear /\ hitmap = Clear
  /\ texture = NoTexture /\ frame = NoFrame /\ vf = 0 /\ op = None

reset_system_data ==
  /\ mode' = "LO" /\ lit' = {} /\ bg' = Clear /\ old' = Clear /\ hitmap' = Clear
  /\ texture' = NoTexture /\ frame' = NoFrame /\ vf' = 0 /\ op' = None

\* 00FE, 00FF: nothing is cleared.
set_display_properties(m) ==
  /\ op.ops < MaxOps
  /\ mode' = m
  /\ op' = Op("mode")
  /\ frame' = NoFrame
  /\ UNCHANGED <<lit, bg, old, hitmap, texture, vf>>

\* 0010, 0011.
scrap_all_video_buffers(m) ==
  /\ op.ops < MaxOps
  /\ mode' = m
  /\ bg' = Clear /\ old' = Clear /\ hitmap' = Clear
  /\ texture' = IF m = "MC" THEN NoTexture ELSE texture
  /\ op' = Op("scrap")
  /\ frame' = NoFrame
  /\ UNCHANGED <<lit, vf>>

flush_all_video_buffers(by_blending, and_advance) ==
  /\ frame' = IF by_blending THEN [c \in Area(MW, MH) |-> IF old'[c] # {} THEN old'[c] ELSE bg[c]]
              ELSE bg
  /\ and_advance => old' = bg
  /\ bg' = IF and_advance THEN Clear ELSE bg
  /\ hitmap' = IF and_advance THEN Clear ELSE hitmap

instruction_00E0 ==
  /\ op.ops < MaxOps
  /\ IF mode = "MC"
     THEN flush_all_video_buffers(FALSE, TRUE) /\ UNCHANGED lit
     ELSE lit' = {} /\ frame' = NoFrame /\ UNCHANGED <<bg, old, hitmap>>
  /\ op' = Op("00E0")
  /\ UNCHANGED <<mode, texture, vf>>

ShiftColors(map, cols, rows) ==
  LET moved(color) == Shift({c \in DOMAIN map : map[c] = color}, MW, MH, cols, rows)
      colors == {map[c] : c \in DOMAIN map} \ {{}}
  IN  [c \in DOMAIN map |-> UNION {color \in colors : c \in moved(color)}]

\* 00BN, 00CN, 00FB, 00FC.
Scrolls(cols, rows) ==
  /\ op.ops < MaxOps
  /\ IF mode = "MC"
     THEN /\ old' = ShiftColors(old, cols, rows)
          /\ flush_all_video_buffers(TRUE, FALSE)
          /\ UNCHANGED lit
     ELSE /\ lit' = Shift(lit, W, H, cols, rows)
          /\ frame' = NoFrame /\ UNCHANGED <<bg, old, hitmap>>
  /\ op' = Scroll(cols, rows)
  /\ UNCHANGED <<mode, texture, vf>>

instruction_00BN(n) == Scrolls(0, -n)
instruction_00CN(n) == Scrolls(0, n)
instruction_00FB == Scrolls(ScrollW, 0)
instruction_00FC == Scrolls(-ScrollW, 0)

\* 03NN, 04NN and 09NN, and the address of the digit that Fx29 and Fx30 point I to.
SetTexture(t) ==
  /\ op.ops < MaxOps
  /\ texture' = t
  /\ op' = Op("set")
  /\ frame' = NoFrame
  /\ UNCHANGED <<mode, lit, bg, old, hitmap, vf>>

\* draw_single_byte(): the byte is shifted within the bytes that it may reach.  A
\* bit past the edge is found in the row below, or behind the last one.
SingleByte(x, y, data) == {Index(x, y, W) + b : b \in data}
draw_single_byte(x, y, data) == SingleByte(x, y, data) \cap Area(W, H)

Pair(n, i, r) ==
  IF n = 0 THEN Byte(i + 2 * r) \cup {ByteW + b : b \in Byte(i + 2 * r + 1)} ELSE Byte(i + r)

\* draw_double_byte(): the upper row is flipped, the lower one becomes its copy over
\* four bytes.
draw_double_byte(x, y, data) ==
  {Index(x + b, y, W) : b \in {k \in data : x + k < W}}
DoubleSpan(x) == {c \in 0..(W - 1) : x - (x % (2 * ByteW)) <= c /\ c < x - (x % (2 * ByteW)) + 4 * ByteW}

HiresDraw(x, y, n, i) ==
  LET X == x % W
      Y == y % H
      rows == {r \in 0..(RowsOf(n) - 1) : Y + r < H}
      cells(r) == draw_single_byte(X, Y + r, Pair(n, i, r))
      flips(r, c) == c \in cells(r)
      lit1 == {c \in Area(W, H) : (c \in lit) # (Cardinality({r \in rows : flips(r, c)}) % 2 = 1)}
  IN  /\ lit' = lit1
      /\ vf' = Cardinality({r \in rows : \E c \in cells(r) :
                 (c \in lit) # (Cardinality({q \in rows : q < r /\ flips(q, c)}) % 2 = 1)})

\* N = 0 stands for sixteen rows of one byte here.
LoresDraw(x, y, n, i) ==
  LET X == (2 * x) % W
      Y == (2 * y) % H
      rows == {r \in 0..(RowsOf(n) - 1) : Y + 2 * r < H}
      doubled(r) == {2 * b + k : b \in Byte(i + r), k \in 0..1}
      upper(r) == draw_double_byte(X, Y + 2 * r, doubled(r))
      flipped == UNION {upper(r) : r \in rows}
      up == (lit \ flipped) \cup (flipped \ lit)
      copied == {Index(c, Y + 2 * r + 1, W) : c \in DoubleSpan(X), r \in rows}
  IN  /\ lit' = (up \ copied) \cup {c \in copied : c - W \in up}
      /\ vf' = IF \E r \in rows : upper(r) \cap lit # {} THEN 1 ELSE 0

\* draw_texture(): the cells of the maps and the texels that fall on them.
TextureCells(x, y, i, wrap) ==
  LET column(c) == IF wrap THEN (x + c) % MW ELSE x + c
      row(r) == IF wrap THEN (y + r) % MV ELSE y + r
  IN  {<<Index(column(c), row(r), MW), Byte(i + r * texture.w + c)>> :
         c \in {k \in 0..(texture.w - 1) : column(k) < MW},
         r \in {k \in 0..(texture.h - 1) : row(k) < MH}}

Over(map, drawn) ==
  [c \in DOMAIN map |-> IF \E cell \in drawn : cell[1] = c
                        THEN (CHOOSE cell \in drawn : cell[1] = c)[2] ELSE map[c]]

draw_texture(x, y, i, wrap) ==
  LET drawn == {cell \in TextureCells(x, y, i, wrap) : cell[2] # {}}
  IN  IF i + texture.w * texture.h >= Len(Memory)
      THEN texture' = NoTexture /\ vf' = 0 /\ UNCHANGED <<bg, hitmap>>
      ELSE /\ bg' = Over(bg, drawn) /\ hitmap' = Over(hitmap, drawn)
           /\ vf' = IF \E cell \in drawn : hitmap[cell[1]] = texture.collide THEN 1 ELSE 0
           /\ UNCHANGED texture

\* A digit, in the colours of its rows.  Wrapped rows that do not show end it; rows
\* that are clipped are clipped at the last row number, not at the last row, and
\* what is drawn behind the maps is left out.
FontCells(x, y, n, i, wrap) ==
  UNION {{<<Index((x + b) % MW, (y + r) % MV, MW), m_font_colors(r)>> :
            b \in {k \in Byte(i + r) : wrap \/ x + k < MW}} :
         r \in {q \in 0..(n - 1) :
                 IF wrap THEN \A p \in 0..q : (y + p) % MV < MH ELSE y + q < MV}}

draw_font(x, y, n, i, wrap) ==
  /\ bg' = Over(bg, FontCells(x, y, n, i, wrap))
  /\ vf' = 0
  /\ UNCHANGED <<hitmap, texture>>

instruction_DxyN(x, y, n, i, wrap) ==
  /\ op.ops < MaxOps /\ op.draws < MaxDraws
  /\ i + BytesOf(n) <= Len(Memory)
  /\ CASE mode = "HI" -> HiresDraw(x, y, n, i) /\ UNCHANGED <<bg, hitmap, texture>>
       [] mode = "LO" -> LoresDraw(x, y, n, i) /\ UNCHANGED <<bg, hitmap, texture>>
       [] mode = "MC" ->
            /\ UNCHANGED lit
            /\ IF ~wrap /\ y >= MH THEN vf' = 0 /\ UNCHANGED <<bg, hitmap, texture>>
               ELSE IF texture.font_pos = i THEN draw_font(x, y, n, i, wrap)
               ELSE draw_texture(x, y, i, wrap)
  /\ op' = Draw(x, y, n, i, wrap)
  /\ frame' = NoFrame
  /\ UNCHANGED <<mode, old>>

\* push_video_data(): the small map is drawn onto the background, every pixel as
\* four; in the large mode only a wait for a key shows the background.
push_video_data ==
  /\ op.ops < MaxOps
  /\ IF mode = "MC" THEN UNCHANGED bg
     ELSE bg' = [c \in DOMAIN bg |->
                   IF c \div MW < 2 * H
                   THEN IF Index((c % MW) \div 2, (c \div MW) \div 2, W) \in lit THEN Light ELSE Dark
                   ELSE bg[c]]
  /\ frame' = bg'
  /\ op' = Op("frame")
  /\ UNCHANGED <<mode, lit, old, hitmap, texture, vf>>

Next ==
  \/ reset_system_data
  \/ \E m \in {"LO", "HI"} : set_display_properties(m)
  \/ \E m \in {"LO", "MC"} : scrap_all_video_buffers(m)
  \/ instruction_00E0
  \/ \E n \in 0..1 : instruction_00BN(n) \/ instruction_00CN(n)
  \/ instruction_00FB \/ instruction_00FC
  \/ \E t \in Textures : SetTexture(t)
  \/ \E x \in Xs, y \in Ys, n \in 0..Rows, i \in Is, wrap \in BOOLEAN :
       instruction_DxyN(x, y, n, i, wrap)
  \/ push_video_data

Spec == Init /\ [][Next]_vars
-----------------------------------------------------------------------------
\* The rows of the small map are pairs of equal rows.
RowsPaired(map) == \A c \in Area(W, H) : (c \div W) % 2 = 0 => (c \in map <=> c + W \in map)

\* The sprite ends before the last column.
Inside(o) == (o.x % W) + (IF o.n = 0 THEN 2 ELSE 1) * ByteW <= W

\* The texel of the current texture that falls on a cell, {} for none.
TexelOn(c, o) ==
  LET dx == IF o.wrap THEN ((c % MW) - o.x) % MW ELSE (c % MW) - o.x
      dy == IF o.wrap THEN ((c \div MW) - o.y) % MV ELSE (c \div MW) - o.y
  IN  IF dx \in 0..(texture.w - 1) /\ dy \in 0..(texture.h - 1)
      THEN Byte(o.i + dy * texture.w + dx) ELSE {}

IsTexture(o) ==
  o.name = "draw" /\ mode = "MC" /\ texture.font_pos # o.i
  /\ o.i + texture.w * texture.h < Len(Memory)

\* A sprite flips its own pixels, clipped at the edges: in the large of the two small
\* modes if it ends inside, in the other one as squares of four pixels if the map is
\* made of such.  A texture's texels are the colours of the pixels below it.
DrawFlipsSprite ==
  /\ op'.name = "draw" /\ mode = "HI" /\ Inside(op') =>
       LET Bit(dx, dy) == SpriteBit(op'.n, op'.i, dx, dy)
       IN  Drawn(lit, lit', W, H, op'.x % W, op'.y % H, FALSE, Bit)
  /\ op'.name = "draw" /\ mode = "LO" /\ RowsPaired(lit) =>
       LET Bit(dx, dy) == /\ dx < 2 * ByteW /\ dy < 2 * RowsOf(op'.n)
                          /\ dx \div 2 \in Byte(op'.i + dy \div 2)
       IN  /\ Drawn(lit, lit', W, H, (2 * op'.x) % W, (2 * op'.y) % H, FALSE, Bit)
           /\ RowsPaired(lit')
  /\ IsTexture(op') =>
       \A c \in DOMAIN bg :
         bg'[c] = IF TexelOn(c, op') # {} THEN TexelOn(c, op') ELSE bg[c]

\* VF counts the rows that turned a pixel off in the one small mode and tells whether
\* there is one in the other; for a texture it tells whether a texel fell on a texel
\* of the collision colour, the one drawn last there since the last erasure.
FlagTellsErasure ==
  /\ op'.name = "draw" /\ mode = "HI" /\ Inside(op') =>
       vf' = Cardinality({y \in 0..(H - 1) : \E x \in 0..(W - 1) :
                            Index(x, y, W) \in lit \ lit'})
  /\ op'.name = "draw" /\ mode = "LO" /\ RowsPaired(lit) =>
       (vf' = 1 <=> lit \ lit' # {})
  /\ IsTexture(op') =>
       (vf' = 1 <=> \E c \in DOMAIN hitmap :
                      TexelOn(c, op') # {} /\ hitmap[c] = texture.collide)

\* A scroll moves the small map, or the old picture beneath which the frame shows
\* what has been drawn since; an erasure of the large mode shows the picture once
\* and makes it the old one.
ScrollMovesPictures ==
  /\ op'.name = "scroll" /\ mode # "MC" =>
       Scrolled(lit, lit', W, H, op'.cols, op'.rows)
  /\ op'.name = "scroll" /\ mode = "MC" =>
       \A c \in DOMAIN bg :
         LET x == (c % MW) - op'.cols
             y == (c \div MW) - op'.rows
             moved == IF x \in 0..(MW - 1) /\ y \in 0..(MH - 1) THEN old[Index(x, y, MW)] ELSE {}
         IN  /\ old'[c] = moved
             /\ frame'[c] = IF moved = {} THEN bg[c] ELSE moved
  /\ op'.name = "00E0" /\ mode = "MC" =>
       frame' = bg /\ old' = bg /\ bg' = Clear /\ hitmap' = Clear

\* Map2D.hpp: "operator() row out of bounds" must not happen: the rows of a digit
\* that is not wrapped stay on the map.
DigitStaysOnMap ==
  op'.name = "draw" /\ mode = "MC" /\ texture.font_pos = op'.i /\ op'.y < MH =>
    \A cell \in FontCells(op'.x, op'.y, op'.n, op'.i, op'.wrap) : cell[1] \in Area(MW, MH)
=============================================================================
