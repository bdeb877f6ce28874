------------------------------ MODULE XoDisplay ------------------------------
(***************************************************************************)
(* The display of the XOCHIP core: planes of one bit, each a map of 64 by  *)
(* 32 pixels or, after 00FF, of 128 by 64, and a mask of the planes that   *)
(* erasures, scrolls and sprites act on.  A sprite has a set of bytes for  *)
(* each masked plane, one after the other.  A frame puts the planes        *)
(* together to an index into the palette.                                  *)
(***************************************************************************)
EXTENDS Screen, FiniteSets

CONSTANTS
  ScrollW,     \* the columns of a sideways scroll (4)
  MaxOps,      \* bound on the instructions between two resets; the code has none
  Plane,       \* 0..3
  Is           \* the values of I that are tried

VARIABLES
  hires,    \* the mode flag, Trait.use_hires_screen
  w, h,     \* the size of the maps
  mask      \* m_plane_mask, as the set of its planes

\* lit is a function from planes here.
vars == <<hires, w, h, lit, mask, vf, op>>

Map == INSTANCE SchipDisplay WITH lit <- UNION {lit[p] : p \in Plane}

Draw(x, y, n, i, wrap) ==
  [name |-> "draw", x |-> x % w, y |-> y % h, n |-> n, i |-> i, wrap |-> wrap,
   ops |-> op.ops + 1, draws |-> op.draws + 1]
-----------------------------------------------------------------------------
(* Plausible mistakes.                                                     *)

\* Before: the next plane's bytes follow one row, however many rows there are.
BeforeRow(p, n) == Cardinality({q \in mask : q < p})

\* Scrolled: all planes are scrolled.
ShiftAll(cols, rows) == [p \in Plane |-> Shift(lit[p], w, h, cols, rows)]
-----------------------------------------------------------------------------
Init ==
  /\ hires = FALSE /\ w = W \div 2 /\ h = H \div 2
  /\ lit = [p \in Plane |-> {}] /\ mask = {0} /\ vf = 0 /\ op = None

\* The reset of the core and of the registers; the mode flag is not touched.
reset_system_data ==
  /\ lit' = [p \in Plane |-> Blank(lit[p], w, h)]
  /\ w' = W \div 2 /\ h' = H \div 2
  /\ mask' = {0} /\ vf' = 0
  /\ op' = None
  /\ UNCHANGED hires

instruction_FN01(planes) ==
  /\ op.ops < MaxOps
  /\ mask' = planes
  /\ op' = Op("FN01")
  /\ UNCHANGED <<hires, w, h, lit, vf>>

instruction_00E0 ==
  /\ op.ops < MaxOps
  /\ lit' = [p \in Plane |-> IF p \in mask THEN Blank(lit[p], w, h) ELSE lit[p]]
  /\ op' = Op("00E0")
  /\ UNCHANGED <<hires, w, h, mask, vf>>

ShiftMasked(cols, rows) ==
  [p \in Plane |-> IF p \in mask THEN Shift(lit[p], w, h, cols, rows) ELSE lit[p]]

Shifted(cols, rows) ==
  /\ op.ops < MaxOps
  /\ lit' = ShiftMasked(cols, rows)
  /\ op' = Scroll(cols, rows)
  /\ UNCHANGED <<hires, w, h, mask, vf>>

\* 00C0 and 00D0 move nothing.
instruction_00CN(n) == Shifted(0, n)
instruction_00DN(n) == Shifted(0, -n)
instruction_00FB == Shifted(ScrollW, 0)
instruction_00FC == Shifted(-ScrollW, 0)

Resized(large, name) ==
  /\ op.ops < MaxOps
  /\ hires' = large
  /\ w' = (IF large THEN W ELSE W \div 2) /\ h' = (IF large THEN H ELSE H \div 2)
  /\ lit' = [p \in Plane |-> Blank(lit[p], w', h')]
  /\ op' = Op(name)
  /\ UNCHANGED <<mask, vf>>

instruction_00FE == Resized(FALSE, "00FE")
instruction_00FF == Resized(TRUE, "00FF")

\* The cells that draw_byte() flips; a plane's byte is clipped or wrapped like that
\* of the other core with two modes.
draw_byte(X, Y, data, wrap) == Map!draw_byte(X, Y, data, wrap)

\* The masked planes before p.
c_plane_mask(p) == Cardinality({q \in mask : q < p})

\* The sprite's bytes that come before those of plane p.
Before(p, n) == c_plane_mask(p) * BytesOf(n)

Top(y, wrap) == {r \in 0..(Rows - 1) : Map!BeforeEdge(y, r, h, wrap)}

\* DxyN with N = 1, N = 0 and any other N, in one plane.
draw_single_row(X, Y, i, wrap) == draw_byte(X, Y, Byte(i), wrap)

draw_double_row(X, Y, i, wrap) ==
  UNION {draw_byte(X, (Y + r) % h, Byte(i + 2 * r), wrap)
         \cup draw_byte(X + ByteW, (Y + r) % h, Byte(i + 2 * r + 1), wrap) : r \in Top(Y, wrap)}

draw_n_rows(X, Y, n, i, wrap) ==
  UNION {draw_byte(X, (Y + r) % h, Byte(i + r), wrap) :
           r \in {q \in Top(Y, wrap) : q < n}}

instruction_DxyN(x, y, n, i, wrap) ==
  LET pX == x % w
      pY == y % h
      cells(p) ==
        LET I == i + Before(p, n)
        IN  CASE n = 0 -> draw_double_row(pX, pY, I, wrap)
              [] n = 1 -> draw_single_row(pX, pY, I, wrap)
              [] OTHER -> draw_n_rows(pX, pY, n, I, wrap)
  IN  /\ op.ops < MaxOps /\ op.draws < MaxDraws
      /\ i + Cardinality(mask) * BytesOf(n) <= Len(Memory)
      /\ lit' = [p \in Plane |-> IF p \in mask
                                 THEN (lit[p] \ cells(p)) \cup (cells(p) \ lit[p])
                                 ELSE lit[p]]
      /\ vf' = IF \E p \in mask : cells(p) \cap lit[p] # {} THEN 1 ELSE 0
      /\ op' = Draw(x, y, n, i, wrap)
      /\ UNCHANGED <<hires, w, h, mask>>

Next ==
  \/ reset_system_data
  \/ \E planes \in SUBSET Plane : instruction_FN01(planes)
  \/ instruction_00E0
  \/ \E n \in 1..Rows : instruction_00CN(n) \/ instruction_00DN(n)
  \/ instruction_00FB \/ instruction_00FC
  \/ instruction_00FE \/ instruction_00FF
  \/ \E x \in Xs, y \in Ys, n \in 0..Rows, i \in Is, wrap \in BOOLEAN :
       instruction_DxyN(x, y, n, i, wrap)

Spec == Init /\ [][Next]_vars
-----------------------------------------------------------------------------
\* push_video_data(): the index into the palette of every pixel of the large screen.
Composite ==
  [xy \in (0..(W - 1)) \X (0..(H - 1)) |->
     LET idx == IF hires THEN Index(xy[1], xy[2], W)
                ELSE (xy[2] \div 2) * (W \div 2) + xy[1] \div 2
     IN  {p \in Plane : idx \in lit[p]}]

\* The n-th of the masked planes is drawn from the n-th part of the sprite's bytes,
\* and no other plane changes.
DrawFlipsSprite ==
  op'.name = "draw" =>
    \A p \in Plane :
      LET part == Cardinality({q \in mask : q <= p}) - 1
          Bit(dx, dy) == /\ p \in mask
                         /\ SpriteBit(op'.n, op'.i + part * BytesOf(op'.n), dx, dy)
      IN  Drawn(lit[p], lit'[p], w, h, op'.x, op'.y, op'.wrap, Bit)

\* VF tells whether the sprite turned a pixel off in some plane.
FlagTellsErasure ==
  op'.name = "draw" => (vf' = 1 <=> \E p \in Plane : lit[p] \ lit'[p] # {})

\* A scroll moves the masked planes, and what a frame shows of the others stays.
ScrollMovesPlanes ==
  /\ op'.name = "scroll" =>
       /\ \A p \in mask : Scrolled(lit[p], lit'[p], w, h, op'.cols, op'.rows)
       /\ \A xy \in (0..(W - 1)) \X (0..(H - 1)) :
            Composite'[xy] \ mask = Composite[xy] \ mask
  /\ op'.name \in {"00FE", "00FF", "none"} =>
       \A p \in Plane : lit'[p] \cap Area(w', h') = {}
=============================================================================
