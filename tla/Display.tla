------------------------------- MODULE Display -------------------------------
(***************************************************************************)
(* The display of a system: a record of staged settings that the machine's *)
(* thread and the user's menu both edit, frames that carry a copy of it    *)
(* through the swapchain, and the textures that the main thread draws with *)
(* (components/DisplayDevice.cpp, FramePacket.hpp, utilities/AtomicBox.hpp *)
(* and the push functions of the cores, MEGACHIP's most of all).           *)
(*                                                                         *)
(* An edit copies the whole record, changes the copy and stores it; what   *)
(* was stored meanwhile is overwritten.  The swapchain is the mailbox that *)
(* TripleBuffer is shown to implement.  Of the record there are the        *)
(* viewport, which the machine sets with its mode, the colour of the       *)
(* border, which it sets in each frame, and one setting of the user: the   *)
(* minimum zoom.                                                           *)
(*                                                                         *)
(* A frame of the small modes is pushed behind the edit of the border.  In *)
(* the mega mode that is so only while the machine waits for a key: else   *)
(* the program pushes the frames, as it erases or scrolls its picture, and *)
(* they have the border of the frame before.                               *)
(***************************************************************************)
EXTENDS Integers

CONSTANTS
  NoEdit,    \* there is no copy of the record
  Areas      \* the sizes of the window's free area, <<width, height>>

VARIABLES
  staging,      \* m_staging_data
  mine,         \* the machine's copy, while it edits
  users,        \* the menu's copy, while it edits
  worker,       \* where the machine's thread is in its frame
  mode,         \* "small" or "mega": the resolution of the pixels, use_manual_vsync()
  waiting,      \* does the machine wait for a key?  m_interrupt == Interrupt::INPUT
  sounding,     \* does a voice sound?
  paused,       \* ANY_PAUSE
  box,          \* the newest frame of the swapchain
  dirty,        \* is it still to be taken?
  held,         \* the frame of the reader
  stream,       \* m_stream_texture: the pixels in it
  drawn,        \* what was drawn last: a frame's pixels, laid out by its settings
  wanted,       \* history: the zoom that the user chose last, or NoEdit if an edit of the
                \* machine was under way that may take it back
  overlapped    \* history: was the viewport set last while the user's edit was under way?

displayVars == <<staging, mine, users, worker, mode, waiting, sounding, paused, box, dirty,
                 held, stream, drawn, wanted, overlapped>>
machineVars == <<mine, worker, mode, waiting>>
screenVars == <<dirty, held, stream, drawn>>

Modes == {"small", "mega"}
Zooms == 1..2

\* get_base_frame(): the two modes use all of its width.
BaseFrame == [w |-> 4, h |-> 3]

Least(a, b) == IF a < b THEN a ELSE b
Most(a, b) == IF a > b THEN a ELSE b
Clamp(x, lo, hi) == Most(lo, Least(x, hi))

\* Metadata::set_viewport: inside the base frame, and never empty.
set_viewport(w, h, x, y) ==
  LET px == Clamp(x, 0, BaseFrame.w - 1)  py == Clamp(y, 0, BaseFrame.h - 1)
  IN  [x |-> px, y |-> py, w |-> Clamp(w, 1, BaseFrame.w - px), h |-> Clamp(h, 1, BaseFrame.h - py)]

Viewport == [m \in Modes |->
  IF m = "mega" THEN set_viewport(4, 3, 0, 0) ELSE set_viewport(4, 2, 0, 0)]

Record == [view : {Viewport[m] : m \in Modes}, border : {"default", "voice"}, zoom : Zooms]

ASSUME NoEditAssumption == NoEdit \notin Record \cup Zooms
ASSUME AreasAssumption == Areas \subseteq Nat \X Nat

Blank == "blank"

\* Of the settings of the user a frame has a copy, too; DrawnIsOneFrame is about all of them.
Frame == [pixels |-> mode, metadata |-> [view |-> staging.view, border |-> staging.border]]
-----------------------------------------------------------------------------
(* Plausible mistakes.                                                     *)

\* LayoutOf: what is staged, as in debug mode.
LayoutStaged(frame) == [view |-> staging.view, border |-> staging.border]

\* Room: the margins are taken off without the border.
RoomOfBorder(look) == IF look.borderless THEN 0 ELSE 2 * ((look.width + 1) \div 2)

\* TargetZoom: the ratio is rounded up.
ZoomRoundedUp(base, look) == Most((base[1] + base[2] - 1) \div base[2], look.zoom)

\* set_border_color_if: a silent machine leaves the border as it is.
set_border_only_if(copy) == [copy EXCEPT !.border = IF sounding' THEN "voice" ELSE @]

\* StagedOf: the machine starts from the settings of its newest frame.
StagedOfFrame == [staging EXCEPT !.view = box.metadata.view, !.border = box.metadata.border]
-----------------------------------------------------------------------------
\* The constructors, and the first edit of initialize_system() and set_display_properties().
Init ==
  /\ staging = [view |-> Viewport["small"], border |-> "default", zoom |-> 1]
  /\ mine = NoEdit /\ users = NoEdit
  /\ worker = "start" /\ mode = "small" /\ waiting = FALSE
  /\ sounding = FALSE /\ paused = FALSE
  /\ box = [Frame EXCEPT !.pixels = Blank] /\ dirty = FALSE /\ held = box
  /\ stream = Blank /\ drawn = NoEdit
  /\ wanted = 1 /\ overlapped = FALSE

\* AtomicBox::edit, its first half: make_shared of the record as it is.
StagedOf == staging

\* The instructions of a frame are carried out unless the machine waits for a key.
Executing == worker \in {"start", "run"} /\ ~waiting /\ ~paused

\* set_display_properties(): an instruction changes the mode.
ChangeMode ==
  /\ Executing
  /\ mode' \in Modes \ {mode}
  /\ mine' = [StagedOf EXCEPT !.view = Viewport[mode']]
  /\ worker' = "mode"
  /\ UNCHANGED <<staging, users, waiting, sounding, paused, box, screenVars, wanted, overlapped>>

\* AtomicBox::edit, its second half: m_ptr.store(dup).  The instruction that changed the mode
\* was the last one of its frame (Interrupt::FRAME).
Store ==
  /\ worker \in {"mode", "border"}
  /\ staging' = mine
  /\ mine' = NoEdit
  /\ worker' = IF worker = "mode" THEN "ended" ELSE "video"
  /\ overlapped' = IF worker = "mode" THEN users # NoEdit ELSE overlapped
  /\ UNCHANGED <<users, mode, waiting, sounding, paused, box, screenVars, wanted>>

\* flush_all_video_buffers(): swapchain().acquire(), by the settings that are staged now.
Flushed == box' = Frame /\ dirty' = TRUE

\* An instruction of the mega mode pushes the frame: 00E0, the last one of its frame too, or
\* a scroll, which is not.
FlushByProgram ==
  /\ Executing /\ mode = "mega"
  /\ Flushed
  /\ worker' \in {"run", "ended"}
  /\ UNCHANGED <<staging, mine, users, mode, waiting, sounding, paused, held, stream,
                 drawn, wanted, overlapped>>

set_border_color_if(copy) == [copy EXCEPT !.border = IF sounding' THEN "voice" ELSE "default"]

\* The instructions of a frame are done: they may have started or ended a sound and, unless an
\* interrupt ended them, begun a wait.  A wait may be over, and that is heard.
FrameIsDone ==
  /\ sounding' \in BOOLEAN
  /\ waiting' \in IF worker = "ended" THEN {FALSE} ELSE BOOLEAN
  /\ waiting /\ ~waiting' => sounding'

\* And then push_audio_data(): no edit while the system is paused, and then no video either.
push_audio_data ==
  /\ worker \in {"start", "run", "ended"}
  /\ IF paused
     THEN UNCHANGED <<mine, worker, waiting, sounding>>
     ELSE FrameIsDone /\ worker' = "border" /\ mine' = set_border_color_if(StagedOf)
  /\ UNCHANGED <<staging, users, mode, paused, box, screenVars, wanted, overlapped>>

\* push_video_data(): of the mega mode only while the machine waits.
push_video_data ==
  /\ worker = "video"
  /\ IF mode = "mega" /\ ~waiting THEN UNCHANGED <<box, dirty>> ELSE Flushed
  /\ worker' = "start"
  /\ UNCHANGED <<staging, mine, users, mode, waiting, sounding, paused, held, stream,
                 drawn, wanted, overlapped>>

\* render_settings_menu(): the record is copied, the user moves a slider or not, and
\* the copy is stored.
OpenSettings ==
  /\ users = NoEdit
  /\ users' \in {[staging EXCEPT !.zoom = z] : z \in Zooms}
  /\ UNCHANGED <<staging, machineVars, sounding, paused, box, screenVars, wanted, overlapped>>

CloseSettings ==
  /\ users # NoEdit
  /\ staging' = users
  /\ users' = NoEdit
  /\ wanted' = IF users.zoom = staging.zoom THEN wanted
               ELSE IF mine # NoEdit THEN NoEdit ELSE users.zoom
  /\ UNCHANGED <<machineVars, sounding, paused, box, screenVars, overlapped>>

\* The user pauses between two frames: late pauses are the matter of SystemEmu.
Pause ==
  /\ worker = "start" /\ users = NoEdit
  /\ paused' = ~paused
  /\ UNCHANGED <<staging, machineVars, users, sounding, box, screenVars, wanted, overlapped>>
-----------------------------------------------------------------------------
LayoutOf(frame) == frame.metadata

\* The border's two sides: 2 * ((border_width + 1) / 2), and none if borderless.
Sides(look) == IF look.borderless THEN 0 ELSE 2 * ((look.width + 1) \div 2)

\* What is taken off the free area: the border, and the margins with the border in them.
Room(look) == 2 * Sides(look)

\* The viewport as it is turned.
Turned(view, look) == IF look.rotated THEN <<view.h, view.w>> ELSE <<view.w, view.h>>

\* DisplayLayout: base_ratio is the smaller of two fractions.
BaseRatio(meta, look) ==
  LET size == Turned(meta.view, look)
      across == <<look.area[1] - Room(look), size[1]>>
      down == <<look.area[2] - Room(look), size[2]>>
  IN  IF across[1] * down[2] < down[1] * across[2] THEN across ELSE down

\* texture_region: a whole multiple of the viewport, or all the room there is.
TextureRegion(meta, look) ==
  LET base == BaseRatio(meta, look)
      size == Turned(meta.view, look)
      times(n, d) == <<(size[1] * n) \div d, (size[2] * n) \div d>>
  IN  IF base[1] < look.zoom * base[2] THEN times(look.zoom, 1)
      ELSE IF look.integer THEN times(base[1] \div base[2], 1)
      ELSE times(base[1], base[2])

TargetZoom(base, look) == Most(base[1] \div base[2], look.zoom)

\* render_texture_region(): the viewport is scaled up by a whole number into a texture of its
\* own; the part of it that shows the viewport is then stretched over the region.
TargetTexture(meta, look) ==
  LET size == Turned(meta.view, look)
      zoom == TargetZoom(BaseRatio(meta, look), look)
  IN  [size |-> <<size[1] * zoom, size[2] * zoom>>,
       from |-> <<meta.view.x, meta.view.y>>,
       to |-> <<meta.view.x + meta.view.w, meta.view.y + meta.view.h>>]

\* render_display(): a child window that cannot be seen is left alone.  The stream
\* texture is written only if the frame is new.
render_display ==
  /\ users = NoEdit
  /\ held' = IF dirty THEN box ELSE held
  /\ dirty' = FALSE
  /\ stream' = IF dirty THEN box.pixels ELSE stream
  /\ drawn' = [meta |-> LayoutOf(held'), pixels |-> stream']
  /\ UNCHANGED <<staging, machineVars, users, sounding, paused, box, wanted, overlapped>>

Worker == ChangeMode \/ Store \/ FlushByProgram \/ push_audio_data \/ push_video_data

Next == Worker \/ OpenSettings \/ CloseSettings \/ Pause \/ render_display

DisplaySpec == Init /\ [][Next]_displayVars
-----------------------------------------------------------------------------
\* The record loses an edit only to one that was under way at the same time: else the
\* viewport is that of the machine's mode, in the record and in every frame, and the
\* zoom is the user's last choice.  The documented loss is the one of
\* AtomicBox::edit, "last-write-wins".
OnlyOverlapsAreLost ==
  /\ worker # "mode" /\ ~overlapped => staging.view = Viewport[mode]
  /\ wanted # NoEdit => staging.zoom = wanted

Looks == [area : Areas, zoom : Zooms, width : {0, 3}, rotated : BOOLEAN, integer : BOOLEAN,
          borderless : BOOLEAN]

\* However the user turns and scales it, a viewport lies in the free area beside its border
\* unless the minimum zoom makes it larger, and is in whole pixels if that is asked for.
\* The texture it is drawn with is never larger and lacks less than a pixel of it: the
\* second scaling is the only one that blurs, and whole pixels stay sharp.
Fits(view) ==
  \A look \in Looks :
    LET meta == [view |-> view]
        region == TextureRegion(meta, look)
        size == Turned(view, look)
        target == TargetTexture(meta, look)
    IN  /\ \A d \in 1..2 :
             /\ target.size[d] <= region[d] /\ region[d] < target.size[d] + size[d]
             /\ look.integer => target.size = region
        /\ target.to[1] <= BaseFrame.w /\ target.to[2] <= BaseFrame.h
        /\ \/ region = <<size[1] * look.zoom, size[2] * look.zoom>>
           \/ \A d \in 1..2 : region[d] + 2 * Sides(look) <= look.area[d]
        /\ look.integer =>
             \E k \in 1..(look.area[1] + look.zoom) : region = <<k * size[1], k * size[2]>>

FittingViews == {view \in {Viewport[m] : m \in Modes} : Fits(view)}

\* What is drawn is one frame: its pixels in the viewport that travelled with them, which
\* fits in the window.
DrawnIsOneFrame ==
  [][drawn' # drawn =>
       /\ drawn'.pixels = held'.pixels /\ drawn'.meta = held'.metadata
       /\ drawn'.meta.view \in FittingViews]_displayVars

\* Do frames keep coming?  The machine pushes one in each of its frames, or the program does
\* now and then.
FramesCome == <>[](mode = "small" \/ waiting) \/ []<>dirty

\* However the edits of the menu overwrote it, the border is the sound's colour in the
\* frames that are shown, once the sound stays as it is and the menu is closed for good,
\* as long as frames come: those of the mega mode, too, though they are a frame late.
BorderCatchesUp ==
  \A on \in BOOLEAN :
    <>[](sounding = on /\ users = NoEdit /\ ~paused) /\ FramesCome
      => <>[](held.metadata.border = (IF on THEN "voice" ELSE "default"))
=============================================================================
