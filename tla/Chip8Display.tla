---------------------------- MODULE Chip8Display ----------------------------
(***************************************************************************)
(* The display of the CHIP8_MODERN core: 64 by 32 pixels, sprites that are *)
(* clipped or wrapped by a quirk.  draw_byte() masks every column but the  *)
(* first, and DxyN with N = 0 starts the right half of a large sprite at a *)
(* column that is not masked: the map's operator() takes it for a pixel of *)
(* the row below, and in the last row for a byte behind the buffer.        *)
(***************************************************************************)
EXTENDS Screen

vars == <<lit, vf, op>>

Draw(x, y, n, i, wrap) ==
  [name |-> "draw", x |-> x % W, y |-> y % H, n |-> n, i |-> i, wrap |-> wrap,
   ops |-> op.ops + 1, draws |-> op.draws + 1]
-----------------------------------------------------------------------------
(* Plausible mistakes.                                                     *)

\* Column: no column is masked.
ColumnRaw(X, b) == X + b

-----------------------------------------------------------------------------
Init == lit = {} /\ vf = 0 /\ op = None

\* reset_system_data() and the clearing of the registers.
reset_system_data ==
  /\ lit' = Blank(lit, W, H) /\ vf' = 0 /\ op' = None

instruction_00E0 ==
  /\ lit' = Blank(lit, W, H)
  /\ op' = None
  /\ UNCHANGED vf

Column(X, b) == IF b = 0 THEN X ELSE (X + b) % W

\* draw_byte(): the pixels that it flips, up to the last column unless sprites wrap.
draw_byte(X, Y, data, wrap) ==
  {Index(Column(X, b), Y, W) :
     b \in {k \in data : wrap \/ \A c \in 0..(k - 1) : Column(X, c) # W - 1}}

RowBeforeEdge(pY, r, wrap) == wrap \/ \A q \in 0..(r - 1) : (pY + q) % H # H - 1

Collided(cells) == cells \cap lit # {}

Flag(hit) == IF hit THEN 1 ELSE 0

\* Bytes behind the buffer are flipped, too: whether one of them "was lit" is open.
instruction_DxyN(x, y, n, i, wrap) ==
  LET pX == x % W
      pY == y % H
      rows == {r \in 0..(RowsOf(n) - 1) : RowBeforeEdge(pY, r, wrap)}
      Row(r) ==
        IF n = 0
        THEN draw_byte(pX, (pY + r) % H, Byte(i + 2 * r), wrap)
             \cup draw_byte(pX + ByteW, (pY + r) % H, Byte(i + 2 * r + 1), wrap)
        ELSE draw_byte(pX, (pY + r) % H, Byte(i + r), wrap)
      all == UNION {Row(r) : r \in rows}
      cells == all \cap Area(W, H)
  IN  /\ op.draws < MaxDraws
      /\ lit' = (lit \ cells) \cup (cells \ lit)
      /\ \E behind \in IF all = cells THEN {FALSE} ELSE BOOLEAN :
           vf' = Flag(behind \/ Collided(cells))
      /\ op' = Draw(x, y, n, i, wrap)

Next ==
  \/ reset_system_data
  \/ instruction_00E0
  \/ \E x \in Xs, y \in Ys, n \in 0..Rows, wrap \in BOOLEAN :
       \E i \in 0..(Len(Memory) - BytesOf(n)) : instruction_DxyN(x, y, n, i, wrap)

Spec == Init /\ [][Next]_vars
-----------------------------------------------------------------------------
\* The columns at which the halves of the sprite begin.
InColumns(s) == IF s.n = 0 THEN s.x + ByteW < W ELSE TRUE

\* A sprite flips exactly its own pixels, dropped or wrapped at the edges; all but
\* the large ones whose right half begins past the edge.
DrawFlipsSprite ==
  op'.name = "draw" /\ InColumns(op') =>
    LET Bit(dx, dy) == SpriteBit(op'.n, op'.i, dx, dy)
    IN  Drawn(lit, lit', W, H, op'.x, op'.y, op'.wrap, Bit)

\* VF tells whether the sprite turned a lit pixel off.
FlagTellsErasure ==
  op'.name = "draw" /\ InColumns(op') => (vf' = 1 <=> lit \ lit' # {})
=============================================================================
