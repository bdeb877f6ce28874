---------------------------- MODULE MemoryEditor ----------------------------
(***************************************************************************)
(* The memory viewer of a system (frontend/MemoryEditor): a table of the   *)
(* bytes, one of which is edited as a text of two digits.                  *)
(*                                                                         *)
(* A frame draws the rows that are in view and reacts to what the user did *)
(* since the last one: a key, the mouse or an address to go to.  The text  *)
(* field, the keyboard's focus and the choice of the rows are the work of  *)
(* the ImGui library: a field that asks for the focus in one frame has it  *)
(* in the next, with all its text selected, and loses it to any click but  *)
(* one into itself; the row of the field with the focus is drawn, in a     *)
(* range of its own, though it is scrolled out of view.  In a frame the    *)
(* user may make any text of the one in the field and leave the cursor or  *)
(* a selection anywhere in it: type, erase, paste, cut and undo, press     *)
(* Home, End and the arrows, click and drag.  Only what an undo may bring  *)
(* back from before the field had the focus is left out.                   *)
(*                                                                         *)
(* The view is one row high.  Values are written in base Radix (256 in the *)
(* code) and a byte has two digits.                                        *)
(***************************************************************************)
EXTENDS Integers, Sequences, SequencesExt, FiniteSets

CONSTANTS Size,      \* memory_size
          Radix,     \* the values that a byte has: a square
          Typable,   \* the digits that the user types or pastes
          Longest,   \* the digits that a field may hold (31 in the code)
          PreviewSize,  \* the bytes of the value that is shown below the table
          c_max_addr    \* no address: more than any that is one

VARIABLES
  memory,     \* memory_data
  columns,    \* settings.column_count
  const,      \* settings.toggle_const_view, of the last frame
  editing,    \* data_editing_address
  preview,    \* data_preview_address
  acquire,    \* acquire_edit_focus
  marked,     \* highlight_min, highlight_max
  scroll,     \* the row that is in view
  text,       \* cell_input_buffer, the text of the field
  focus,      \* the address whose field has the keyboard, in the next frame
  selected,   \* the text of the field is selected as a whole
  apart,      \* history: since the field has the keyboard a frame drew two ranges
  known,      \* history: the digits that the byte has had since its field got the keyboard,
              \*   and those that came into the field
  entered     \* history: the text that the last frame wrote to the memory

editorVars == <<memory, columns, const, editing, preview, acquire, marked, scroll, text,
                focus, selected, apart, known, entered>>

Addr == 0 .. Size - 1
Base == CHOOSE b \in 2 .. Radix : b * b = Radix
ToByte(digits) ==
  LET value[k \in 0 .. Len(digits)] == IF k = 0 THEN 0 ELSE value[k - 1] * Base + digits[k]
  IN  value[Len(digits)]
Digits(byte) == <<byte \div Base, byte % Base>>
Unmarked == <<c_max_addr, c_max_addr>>
-----------------------------------------------------------------------------
(* The value under the cursor, in the segment below the table.             *)

\* read_bytes(): what lies behind the memory's end is left 0.
read_bytes(n, addr) ==
  [k \in 1 .. n |-> IF addr + k - 1 < Size THEN memory[addr + k - 1] ELSE 0]

\* endian_aware_copy(), on a machine that is little-endian.
endian_aware_copy(bytes, big) == IF big THEN Reverse(bytes) ELSE bytes

\* What a byte is worth behind k others.
Place(k) == LET worth[j \in 0 .. k] == IF j = 0 THEN 1 ELSE worth[j - 1] * Radix IN worth[k]

\* load_value(): the machine reads its bytes from the lowest up.
load_value(bytes, big) ==
  LET own == endian_aware_copy(bytes, big)
      value[k \in 0 .. Len(own)] ==
        IF k = 0 THEN 0 ELSE value[k - 1] + own[k] * Place(k - 1)
  IN  value[Len(own)]
-----------------------------------------------------------------------------
(* Plausible mistakes.                                                     *)

\* cursor_at_end: one digit is taken for two.
cursor_at_1(field) == field.place >= 1

\* RowCache: the byte is looked up by its address, though the rows above are not there.
RowCacheOfAddress(cache, row, n) ==
  LET k == (row * columns) + n IN IF k \in DOMAIN cache THEN cache[k] ELSE 0
-----------------------------------------------------------------------------
(* The table.                                                              *)

Row(a) == a \div columns

\* The clipper: the row in view and the row of the field that has the focus, in order.
Clipped ==
  IF focus = c_max_addr \/ Row(focus) = scroll THEN <<scroll>>
  ELSE IF Row(focus) < scroll THEN <<Row(focus), scroll>> ELSE <<scroll, Row(focus)>>

\* read_cache: filled once in a frame, with the first range.
read_cache(drawn) == read_bytes(columns, Head(drawn) * columns)

\* A cell's byte: every range begins at the cache's begin.
RowCache(cache, row, n) == cache[n + 1]

CellByte(drawn, a) == RowCache(read_cache(drawn), Row(a), a % columns)

\* get_highlight_type(), without what a caller of the widget may add.
get_highlight_type(a) ==
  {kind \in {"follow", "preview"} :
     IF kind = "follow" THEN marked[2] # c_max_addr /\ a \in marked[1] .. marked[2] - 1
     ELSE preview # c_max_addr /\ a \in preview .. preview + PreviewSize - 1}

\* The highlighting is handed on from each cell that is drawn to the next.
Highlight(drawn, a) ==
  IF Len(drawn) = 2 /\ a = drawn[2] * columns
  THEN get_highlight_type((drawn[1] + 1) * columns) ELSE get_highlight_type(a)

RowCells(row) == {a \in Addr : Row(a) = row}

\* The cell that is edited, and whether the frame meets its field: a click on the characters
\* of an earlier row sends the editor elsewhere before.
Edited == IF editing >= Size THEN c_max_addr ELSE editing
Met(mouse) ==
  /\ Edited # c_max_addr /\ Row(Edited) \in Range(Clipped)
  /\ mouse.on = "ascii" => Row(Edited) <= scroll

\* Where an arrow sends the editor from the next frame on, if it stays in the memory.
Arrows ==
  IF Edited = c_max_addr THEN {}
  ELSE {Edited - columns, Edited + columns, Edited - 1, Edited + 1} \cap Addr

\* The field has the keyboard from before, or gets it by a click.
Kept(mouse, readonly) ==
  /\ Met(mouse) /\ focus = Edited /\ const = readonly /\ mouse.on \in {"nothing", "field"}
Begun(mouse, readonly) == Met(mouse) /\ mouse.on = "field" /\ ~Kept(mouse, readonly)

\* What the user makes of the text.
Texts(readonly) ==
  {text} \cup IF readonly THEN {}
               ELSE SeqOf(Range(text) \cup known \cup Typable, Longest)

\* InputText() with its callback: place is cursor_pos, which a selection leaves at -1; a
\* cursor before the second digit is as good as none, and one behind it as one at the end.
\* A text that is selected as a whole is read from the memory again; an empty one, as the
\* library has or has not forgotten the last selection.
Fields(mouse, readonly) ==
  LET reread == [text |-> Digits(CellByte(Clipped, Edited)), selected |-> TRUE, place |-> -1]
  IN  IF Kept(mouse, readonly)
      THEN {reread} \cup
           UNION {[text : {t}, selected : {FALSE}, place : {-1, Len(t)}] : t \in Texts(readonly)}
      ELSE {reread}

cursor_at_end(field) == field.place >= 2

\* The mouse: nothing, a click on a cell's byte, which may be the field, or beside all of
\* them, and the button over the characters of the row, which is as long for the last row.
Nothing == [on |-> "nothing", at |-> c_max_addr]
Mouse ==
  {Nothing, [on |-> "void", at |-> c_max_addr]}
    \cup {[on |-> IF a = editing THEN "field" ELSE "cell", at |-> a] : a \in RowCells(scroll)}
    \cup {[on |-> "ascii", at |-> (scroll * columns) + n] : n \in 0 .. columns - 1}
-----------------------------------------------------------------------------
EditorInit ==
  /\ memory = [a \in Addr |-> a % Radix]
  /\ columns = 2 /\ const = FALSE /\ scroll = 0
  /\ editing = c_max_addr /\ preview = c_max_addr /\ acquire = FALSE /\ marked = Unmarked
  /\ text = <<>> /\ focus = c_max_addr /\ selected = FALSE
  /\ apart = FALSE /\ known = {} /\ entered = <<>>

\* The edited cell in a frame: whether its field has the keyboard, and whether it keeps it.
Cell(field, enter, mouse, readonly) ==
  LET early == mouse.on = "cell" /\ Met(mouse) /\ mouse.at < Edited
      wanted == acquire \/ early
      has == Kept(mouse, readonly) \/ Begun(mouse, readonly)
  IN  [at |-> Edited, met |-> Met(mouse), early |-> early, asks |-> Met(mouse) /\ wanted,
       has |-> has, stays |-> has /\ ~enter, dropped |-> Met(mouse) /\ ~wanted /\ ~has,
       field |-> field]

\* The field after a frame; what it held is not looked at again when it has lost the
\* keyboard.
Drawn(cell, mouse, readonly) ==
  /\ const' = readonly
  /\ focus' = IF cell.asks \/ cell.stays THEN cell.at ELSE c_max_addr
  /\ text' = CASE cell.stays              -> cell.field.text
               [] ~cell.stays /\ cell.asks -> Digits(CellByte(Clipped, cell.at))
               [] OTHER                    -> <<>>
  /\ selected' = IF cell.stays THEN cell.field.selected ELSE cell.asks
  /\ apart' = (Len(Clipped) = 2 \/ (apart /\ focus' = focus))
  /\ known' =
       IF ~cell.has /\ ~cell.asks THEN {}
       ELSE Range(Digits(memory[cell.at])) \cup
            (IF Kept(mouse, readonly) THEN known ELSE {}) \cup
            (IF cell.field.selected THEN {} ELSE Range(cell.field.text) \ Range(text))

\* render_memory_editor() after the table: the byte is written and the cursor goes on, or
\* to where an arrow, the mouse or the user's address sends it.
Reaction(cell, moved, mouse, go, readonly) ==
  LET next1 == CASE cell.dropped -> c_max_addr [] cell.early -> mouse.at [] OTHER -> moved
      advance == cell.has /\ cursor_at_end(cell.field) /\ next1 = c_max_addr
      ascii == mouse.on = "ascii"
      next == IF mouse.on = "cell" THEN mouse.at ELSE next1
      here == IF ascii THEN mouse.at ELSE IF cell.dropped THEN c_max_addr ELSE cell.at
      forward == advance /\ here + 1 < Size
  IN  /\ memory' = IF advance /\ ~readonly /\ ToByte(cell.field.text) < Radix
                   THEN [memory EXCEPT ![cell.at] = ToByte(cell.field.text)] ELSE memory
      /\ editing' = CASE go < Size -> go
                      [] go >= Size /\ forward -> here + 1
                      [] go >= Size /\ ~forward /\ next # c_max_addr -> next
                      [] OTHER -> here
      /\ preview' = IF go < Size \/ forward \/ next # c_max_addr \/ ascii THEN editing'
                    ELSE IF preview >= Size THEN c_max_addr ELSE preview
      /\ acquire' = \/ go < Size \/ forward \/ next # c_max_addr \/ ascii
                    \/ ~cell.met /\ acquire

\* A frame.  The keyboard is in the table's field or in the one of the address to go to;
\* can_system_work() makes the view one to be looked at, and then the table follows the
\* machine's program counter.  Nobody presses Enter in a frame in which the field asks for
\* the keyboard.
Frame(moved, enter, mouse, go, pc, readonly) ==
  /\ go # c_max_addr => mouse = Nothing /\ focus = c_max_addr
  /\ pc # c_max_addr => readonly
  /\ enter => ~acquire
  /\ \E field \in Fields(mouse, readonly) :
       LET cell == Cell(field, enter, mouse, readonly)
       IN  /\ Drawn(cell, mouse, readonly)
           /\ Reaction(cell, moved, mouse, go, readonly)
           /\ entered' = IF memory' # memory THEN field.text ELSE <<>>
  /\ marked' = CASE go # c_max_addr -> Unmarked
                 [] go = c_max_addr /\ pc # c_max_addr -> <<pc, pc + 2>>
                 [] OTHER -> marked
  /\ scroll' = CASE go < Size -> Row(go)
                 [] go >= Size /\ pc < Size -> Row(pc)
                 [] OTHER -> scroll
  /\ UNCHANGED columns

\* The mouse wheel.
Scroll(row) ==
  /\ row \in 0 .. Row(Size - 1) /\ row # scroll
  /\ scroll' = row
  /\ UNCHANGED <<memory, columns, const, editing, preview, acquire, marked, text, focus,
                 selected, apart, known, entered>>

\* The slider of the options popup.
SetColumns(n) ==
  /\ n # columns /\ focus = c_max_addr
  /\ columns' = n /\ scroll' = 0
  /\ UNCHANGED <<memory, const, editing, preview, acquire, marked, text, focus, selected,
                 apart, known, entered>>

EditorNext ==
  \/ \E moved \in {c_max_addr} \cup Arrows, enter, readonly \in BOOLEAN :
       /\ enter => moved = c_max_addr
       /\ Frame(moved, enter, Nothing, c_max_addr, c_max_addr, readonly)
  \/ \E mouse \in Mouse, go \in {c_max_addr, 1, Size}, pc \in {c_max_addr, 1},
        readonly \in BOOLEAN :
          Frame(c_max_addr, FALSE, mouse, go, pc, readonly)
  \/ \E row \in 0 .. Size : Scroll(row)
  \/ \E n \in {1, 2} : SetColumns(n)
-----------------------------------------------------------------------------
\* Memory is only changed while the machine stands still, in the cell that has the
\* keyboard, to what its field shows: two digits or more, which the byte has had since its
\* field got the keyboard or which the user entered there; unless the field was out of view
\* meanwhile.
OnlyEnteredIsWritten ==
  [][memory' # memory /\ ~apart /\ ~apart' =>
       /\ ~const' /\ Len(entered') >= 2 /\ Range(entered') \subseteq known'
       /\ \A a \in Addr : memory'[a] # memory[a] =>
            a = focus /\ memory'[a] = ToByte(entered')]_editorVars

\* The number that n bytes are, the first of which counts most or least.
ValueAt(addr, n, big) ==
  LET byte(k) == IF addr + k < Size THEN memory[addr + k] ELSE 0
      sum[k \in 0 .. n] ==
        IF k = 0 THEN 0
        ELSE sum[k - 1] + byte(k - 1) * Place(IF big THEN n - k ELSE k - 1)
  IN  sum[n]

\* The cells in view have their own bytes and marks, at least while the cell with the
\* keyboard is one of them; and the value below the table is the one that the machine
\* would read there in the chosen order.
ViewIsMemory ==
  /\ Len(Clipped) = 1 => \A a \in RowCells(scroll) :
       /\ CellByte(Clipped, a) = memory[a]
       /\ Highlight(Clipped, a) = get_highlight_type(a)
  /\ preview # c_max_addr => \A n \in 1 .. PreviewSize, big \in BOOLEAN :
       load_value(read_bytes(n, preview), big) = ValueAt(preview, n, big)

\* "When not editing a byte, always refresh its InputText content pulled from underlying
\* memory data" (the comment in the callback of the text field).
FieldShowsMemory ==
  focus # c_max_addr /\ selected => text = Digits(memory[focus])
=============================================================================
