------------------------------- MODULE Screen -------------------------------
(***************************************************************************)
(* What the displays of the CHIP-8 cores share: a buffer of pixels and the *)
(* movements of a two-dimensional view of it (Map2D.hpp), the flag         *)
(* register, and sprites of one to fifteen bytes, or of sixteen rows of    *)
(* two bytes for N = 0.                                                    *)
(* A display is the set of the buffer's indices whose pixel is lit (0x8);  *)
(* the colours that a pixel fades through after it went dark are left out. *)
(* A byte is the set of its bits that are set, 0 the most significant.     *)
(***************************************************************************)
EXTENDS Integers, Sequences

Abs(n) == IF n < 0 THEN -n ELSE n

\* operator()(col, row) of a map of width w.
Index(x, y, w) == y * w + x
Area(w, h) == 0..(w * h - 1)

\* rotate(): std::rotate of every row by cols, and of the whole buffer by rows.
\* A rotation to the left by m moves the element at m to the front.
Rotate(lit, w, h, cols, rows) ==
  LET Left(i, m, size) == (i + size - m) % size
      across == IF cols < 0 THEN Abs(cols) % w ELSE w - (Abs(cols) % w)
      down   == IF rows < 0 THEN (Abs(rows) % h) * w ELSE w * h - ((Abs(rows) % h) * w)
      inRow  == {Index(Left(i % w, across, w), i \div w, w) : i \in lit}
  IN  {Left(i, down, w * h) : i \in inRow}

\* fill(cols, rows): what a rotation carried around the edges goes dark.
Fill(lit, w, h, cols, rows) ==
  {i \in lit :
     /\ Abs(cols) < w /\ Abs(rows) < h
     /\ IF cols < 0 THEN i % w < w - Abs(cols) ELSE i % w >= cols
     /\ IF rows < 0 THEN i < w * (h - Abs(rows)) ELSE i >= w * rows}

\* shift(): the part of the buffer outside the map's area stays as it is.
Shift(lit, w, h, cols, rows) ==
  LET inside == lit \cap Area(w, h)
  IN  (lit \ inside) \cup Fill(Rotate(inside, w, h, cols, rows), w, h, cols, rows)

\* fill()
Blank(lit, w, h) == lit \ Area(w, h)
-----------------------------------------------------------------------------
(* What the movements and the sprites should do, pixel by pixel.           *)

\* The pixel of a scrolled display is the one that was (cols, rows) before it.
Scrolled(before, after, w, h, cols, rows) ==
  \A x \in 0..(w - 1), y \in 0..(h - 1) :
    Index(x, y, w) \in after <=>
      /\ x - cols \in 0..(w - 1) /\ y - rows \in 0..(h - 1)
      /\ Index(x - cols, y - rows, w) \in before

\* Drawing flips the pixels of the sprite's bits and no others: the pixel that
\* lies dx to the right of and dy below the sprite's origin, around the edges if
\* sprites wrap, flips if Bit(dx, dy).
Drawn(before, after, w, h, px, py, wrap, Bit(_, _)) ==
  \A x \in 0..(w - 1), y \in 0..(h - 1) :
    LET dx == IF wrap THEN (x + w - px) % w ELSE x - px
        dy == IF wrap THEN (y + h - py) % h ELSE y - py
    IN  (Index(x, y, w) \in after <=> Index(x, y, w) \in before)
          <=> ~(dx >= 0 /\ dy >= 0 /\ Bit(dx, dy))
-----------------------------------------------------------------------------
CONSTANTS
  W, H,        \* the large screen (64 by 32, or 128 by 64)
  ByteW,       \* the bits of a byte (8)
  Rows,        \* the rows of the large sprite (16)
  Memory,      \* the bytes that sprites are drawn from
  Xs, Ys,      \* the values of VX and VY that are tried
  MaxDraws     \* bound on the sprites after an erasure; the code has none

ASSUME DimAssumption ==
  {W, H, ByteW, Rows} \subseteq Nat \ {0} /\ 2 * ByteW <= W /\ Rows <= H
ASSUME MemoryAssumption == Memory \in Seq(SUBSET (0..(ByteW - 1)))
ASSUME OriginAssumption == Xs \cup Ys \subseteq Nat

VARIABLES
  lit,      \* m_display_buffer
  vf,       \* VF
  op        \* history: the instruction executed last, and how many there were

None == [name |-> "none", ops |-> 0, draws |-> 0]
Op(name) == [name |-> name, ops |-> op.ops + 1, draws |-> op.draws]
Scroll(cols, rows) ==
  [name |-> "scroll", cols |-> cols, rows |-> rows, ops |-> op.ops + 1, draws |-> op.draws]

Byte(i) == Memory[i + 1]
RowsOf(n) == IF n = 0 THEN Rows ELSE n
BytesOf(n) == IF n = 0 THEN 2 * Rows ELSE n
-----------------------------------------------------------------------------
\* Is the pixel (dx, dy) of the sprite set that DxyN takes from i?
SpriteBit(n, i, dx, dy) ==
  /\ dy < RowsOf(n)
  /\ IF n = 0
     THEN dx < 2 * ByteW /\ dx % ByteW \in Byte(i + 2 * dy + dx \div ByteW)
     ELSE dx < ByteW /\ dx \in Byte(i + dy)
=============================================================================
