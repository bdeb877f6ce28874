---------------------------- MODULE DeviceProofs ----------------------------
(***************************************************************************)
(* Proofs about what leaves the program: the frames on the display, their  *)
(* pace, the sound of them and their colours, for any areas of the window, *)
(* any periods, any frequencies and any bytes; and what outlives it, the   *)
(* volume, the files, the place of the window and the home directory.      *)
(*                                                                         *)
(* A viewport that fits, an account of samples and a product of bytes are  *)
(* arithmetic: the lemmas say what the divisions of the code lose, and that*)
(* it is never too much.                                                   *)
(***************************************************************************)
EXTENDS Display, FrameLimiter, Audio, Colours, Settings, TLAPS, FiniteSetTheorems

-----------------------------------------------------------------------------
(* The display                                                             *)

\* One side of a viewport, scaled by a fraction that the room allows.
LEMMA Scaled ==
  ASSUME NEW s \in 2..4, NEW d \in 2..4, NEW n \in Int, NEW room \in Int, NEW z \in Zooms,
         n * s <= room * d, n >= z * d
  PROVE  /\ n \div d \in Int /\ (s * n) \div d \in Int
         /\ z <= n \div d
         /\ s * (n \div d) <= (s * n) \div d
         /\ (s * n) \div d < s * (n \div d) + s
         /\ (s * n) \div d <= room
<1> USE DEF Zooms
<1>1. CASE d = 2
  BY <1>1, SMTT(60)
<1>2. CASE d = 3
  BY <1>2, SMTT(60)
<1>3. CASE d = 4
  BY <1>3, SMTT(60)
<1> QED
  BY <1>1, <1>2, <1>3

\* A side that does not fit at a zoom is smaller than the zoom when it is divided.
LEMMA Small ==
  ASSUME NEW d \in 2..4, NEW n \in Int, NEW z \in Zooms, n < z * d
  PROVE  n \div d \in Int /\ n \div d < z
<1>1. CASE d = 2
  BY <1>1, SMTT(60) DEF Zooms
<1>2. CASE d = 3
  BY <1>2, SMTT(60) DEF Zooms
<1>3. CASE d = 4
  BY <1>3, SMTT(60) DEF Zooms
<1> QED
  BY <1>1, <1>2, <1>3

\* The viewports of the modes have a side of four, one of two or three, and no offset.
LEMMA ViewportsAreSized ==
  ASSUME NEW m \in Modes
  PROVE  /\ Viewport[m].w = 4 /\ Viewport[m].h \in 2..3
         /\ Viewport[m].x = 0 /\ Viewport[m].y = 0
  BY SMTT(30) DEF Modes, Viewport, set_viewport, Clamp, Most, Least, BaseFrame

\* The ratio is the smaller of two.
LEMMA BaseIsLeast ==
  ASSUME NEW view, view.w = 4, view.h \in 2..3, NEW look \in Looks
  PROVE  LET meta == [view |-> view]
             base == BaseRatio(meta, look)
             size == Turned(view, look)
         IN  /\ size[1] \in 2..4 /\ size[2] \in 2..4
             /\ base[1] \in Int /\ base[2] \in 2..4
             /\ \A i \in 1..2 : base[1] * size[i] <= (look.area[i] - Room(look)) * base[2]
<1> DEFINE meta == [view |-> view]
           base == BaseRatio(meta, look)
           size == Turned(view, look)
           a1 == look.area[1] - Room(look)
           a2 == look.area[2] - Room(look)
<1>1. size[1] \in 2..4 /\ size[2] \in 2..4
  BY DEF Turned
<1>2. a1 \in Int /\ a2 \in Int
  <2>1. look.area \in Nat \X Nat /\ look.width \in {0, 3}
    BY AreasAssumption DEF Looks
  <2>2. Room(look) \in {0, 8}
    BY <2>1 DEF Room, Sides
  <2> QED
    BY <2>1, <2>2
<1>3. base = IF a1 * size[2] < a2 * size[1] THEN <<a1, size[1]>> ELSE <<a2, size[2]>>
  BY DEF BaseRatio
<1> HIDE DEF base, size, a1, a2
<1>4. CASE a1 * size[2] < a2 * size[1]
  <2>1. base[1] = a1 /\ base[2] = size[1]
    BY <1>3, <1>4
  <2>2. base[1] * size[1] <= a1 * base[2] /\ base[1] * size[2] <= a2 * base[2]
    BY <2>1, <1>1, <1>2, <1>4
  <2> QED
    BY <1>1, <1>2, <2>1, <2>2 DEF a1, a2, base, size
<1>5. CASE ~(a1 * size[2] < a2 * size[1])
  <2>1. base[1] = a2 /\ base[2] = size[2]
    BY <1>3, <1>5
  <2>2. a1 * size[2] \in Int /\ a2 * size[1] \in Int
    BY <1>1, <1>2
  <2>3. base[1] * size[1] <= a1 * base[2] /\ base[1] * size[2] <= a2 * base[2]
    BY <2>1, <2>2, <1>1, <1>2, <1>5
  <2> QED
    BY <1>1, <1>2, <2>1, <2>3 DEF a1, a2, base, size
<1> QED
  BY <1>4, <1>5

\* Every viewport that a mode asks for fits into the area, for every look that the user sets.
THEOREM ViewsFit == ASSUME NEW m \in Modes PROVE Viewport[m] \in FittingViews
<1> DEFINE view == Viewport[m]
<1>0. view.w = 4 /\ view.h \in 2..3 /\ view.x = 0 /\ view.y = 0
  BY ViewportsAreSized
<1> SUFFICES Fits(view)
  BY DEF FittingViews
<1> HIDE DEF view
<1> SUFFICES ASSUME NEW look \in Looks
             PROVE LET meta == [view |-> view]
                       region == TextureRegion(meta, look)
                       size == Turned(view, look)
                       texture == TargetTexture(meta, look)
                   IN  /\ \A d \in 1..2 :
                            /\ texture.size[d] <= region[d] /\ region[d] < texture.size[d] + size[d]
                            /\ look.integer => texture.size = region
                       /\ texture.to[1] <= BaseFrame.w /\ texture.to[2] <= BaseFrame.h
                       /\ \/ region = <<size[1] * look.zoom, size[2] * look.zoom>>
                          \/ \A d \in 1..2 : region[d] + 2 * Sides(look) <= look.area[d]
                       /\ look.integer =>
                            \E k \in 1..(look.area[1] + look.zoom) :
                              region = <<k * size[1], k * size[2]>>
  BY DEF Fits
<1> DEFINE meta == [view |-> view]
           region == TextureRegion(meta, look)
           size == Turned(view, look)
           texture == TargetTexture(meta, look)
           base == BaseRatio(meta, look)
           z == look.zoom
           q == base[1] \div base[2]
<1>1. /\ size[1] \in 2..4 /\ size[2] \in 2..4
      /\ base[1] \in Int /\ base[2] \in 2..4
      /\ \A i \in 1..2 : base[1] * size[i] <= (look.area[i] - Room(look)) * base[2]
  BY <1>0, BaseIsLeast
<1>2. z \in Zooms /\ look.area[1] \in Nat /\ look.area[2] \in Nat /\ look.integer \in BOOLEAN
  BY AreasAssumption DEF Looks
<1>3. Room(look) \in {0, 8} /\ Room(look) = 2 * Sides(look)
  <2>1. look.width \in {0, 3}
    BY DEF Looks
  <2> QED
    BY <2>1 DEF Room, Sides
<1>4. texture.to[1] <= BaseFrame.w /\ texture.to[2] <= BaseFrame.h
  BY <1>0 DEF TargetTexture, BaseFrame
<1>5. texture.size = <<size[1] * Most(q, z), size[2] * Most(q, z)>>
  BY DEF TargetTexture, TargetZoom
<1>6. region = IF base[1] < z * base[2]
               THEN <<(size[1] * z) \div 1, (size[2] * z) \div 1>>
               ELSE IF look.integer
                    THEN <<(size[1] * q) \div 1, (size[2] * q) \div 1>>
                    ELSE <<(size[1] * base[1]) \div base[2], (size[2] * base[1]) \div base[2]>>
  BY DEF TextureRegion
<1>7. meta.view = view
  OBVIOUS
<1> HIDE DEF meta, region, size, texture, base, z, q
<1>8. CASE base[1] < z * base[2]
  <2>1. q \in Int /\ q < z
    BY <1>1, <1>2, <1>8, Small DEF q
  <2>2. Most(q, z) = z
    BY <2>1, <1>2 DEF Most, Zooms
  <2>3. region = <<size[1] * z, size[2] * z>> /\ texture.size = region
    BY <1>1, <1>2, <1>5, <1>6, <1>8, <2>2 DEF Zooms
  <2>4. z \in 1..(look.area[1] + look.zoom) /\ region = <<z * size[1], z * size[2]>>
    BY <2>3, <1>1, <1>2 DEF z, Zooms
  <2>5. \A d \in 1..2 : texture.size[d] <= region[d] /\ region[d] < texture.size[d] + size[d]
    BY <2>3, <1>1, <1>2 DEF Zooms
  <2> QED
    BY <1>4, <2>3, <2>4, <2>5 DEF meta, region, size, texture, z
<1>9. CASE ~(base[1] < z * base[2])
  <2>1. base[1] >= z * base[2]
    BY <1>1, <1>2, <1>9 DEF Zooms
  <2>2. \A i \in 1..2 :
          /\ q \in Int /\ (size[i] * base[1]) \div base[2] \in Int
          /\ z <= q
          /\ size[i] * q <= (size[i] * base[1]) \div base[2]
          /\ (size[i] * base[1]) \div base[2] < size[i] * q + size[i]
          /\ (size[i] * base[1]) \div base[2] <= look.area[i] - Room(look)
    <3> SUFFICES ASSUME NEW i \in 1..2
                 PROVE  /\ q \in Int /\ (size[i] * base[1]) \div base[2] \in Int
                        /\ z <= q
                        /\ size[i] * q <= (size[i] * base[1]) \div base[2]
                        /\ (size[i] * base[1]) \div base[2] < size[i] * q + size[i]
                        /\ (size[i] * base[1]) \div base[2] <= look.area[i] - Room(look)
      OBVIOUS
    <3>1. size[i] \in 2..4 /\ look.area[i] - Room(look) \in Int
      BY <1>1, <1>2, <1>3
    <3>2. base[1] * size[i] <= (look.area[i] - Room(look)) * base[2]
      BY <1>1
    <3> HIDE DEF q
    <3> QED
      BY <1>1, <1>2, <2>1, <3>1, <3>2, Scaled DEF q
  <2>3. Most(q, z) = q
    BY <2>2, <1>2 DEF Most, Zooms
  <2>4. texture.size = <<size[1] * q, size[2] * q>>
    BY <1>5, <2>3
  <2>5. CASE look.integer
    <3>1. region = <<size[1] * q, size[2] * q>>
      BY <1>6, <1>9, <2>5, <2>2, <1>1
    <3>2. q \in 1..(look.area[1] + look.zoom)
      BY <1>1, <1>2, <1>3, <2>2 DEF z, Zooms
    <3>3. \A d \in 1..2 : region[d] + 2 * Sides(look) <= look.area[d]
      BY <1>1, <1>2, <1>3, <2>2, <3>1
    <3>4. \A d \in 1..2 : texture.size[d] <= region[d] /\ region[d] < texture.size[d] + size[d]
      BY <2>4, <3>1, <2>2, <1>1
    <3>5. texture.size = region /\ region = <<q * size[1], q * size[2]>>
      BY <2>4, <3>1, <2>2, <1>1
    <3> QED
      BY <1>4, <3>2, <3>3, <3>4, <3>5 DEF meta, region, size, texture, z
  <2>6. CASE ~look.integer
    <3>1. region = <<(size[1] * base[1]) \div base[2], (size[2] * base[1]) \div base[2]>>
      BY <1>6, <1>9, <2>6
    <3>2. \A d \in 1..2 : texture.size[d] <= region[d] /\ region[d] < texture.size[d] + size[d]
      BY <2>2, <2>4, <3>1
    <3>3. \A d \in 1..2 : region[d] + 2 * Sides(look) <= look.area[d]
      BY <2>2, <3>1, <1>2, <1>3
    <3> QED
      BY <1>4, <2>6, <3>2, <3>3 DEF meta, region, size, texture, z
  <2> QED
    BY <1>2, <2>5, <2>6
<1> QED
  BY <1>8, <1>9

\* The types of the variables that the proof needs.
DisplayTypes ==
  /\ staging \in Record /\ mine \in Record \cup {NoEdit} /\ users \in Record \cup {NoEdit}
  /\ worker \in {"start", "run", "mode", "ended", "border", "video"} /\ mode \in Modes
  /\ sounding \in BOOLEAN /\ paused \in BOOLEAN /\ overlapped \in BOOLEAN
  /\ wanted \in Zooms \cup {NoEdit}
  /\ mine # NoEdit <=> worker \in {"mode", "border"}

\* Without an overlap what the worker and the user have copied is of the mode that is on.
CopiesAreCurrent ==
  /\ worker = "mode" => mine.view = Viewport[mode]
  /\ worker = "border" /\ ~overlapped => mine.view = Viewport[mode]
  /\ worker # "mode" /\ ~overlapped /\ users # NoEdit => users.view = Viewport[mode]
  /\ mine # NoEdit /\ wanted # NoEdit => mine.zoom = wanted

\* The inductive invariant of the two edits of the record.
DisplayIInv == DisplayTypes /\ CopiesAreCurrent /\ OnlyOverlapsAreLost

\* An edit of one field of the record leaves the others alone.
LEMMA EditedRecord ==
  ASSUME NEW r \in Record
  PROVE  /\ \A m \in Modes : [r EXCEPT !.view = Viewport[m]] \in Record
         /\ \A m \in Modes : [r EXCEPT !.view = Viewport[m]].view = Viewport[m]
         /\ \A m \in Modes : [r EXCEPT !.view = Viewport[m]].zoom = r.zoom
         /\ \A b \in {"default", "voice"} : [r EXCEPT !.border = b] \in Record
         /\ \A b \in {"default", "voice"} : [r EXCEPT !.border = b].view = r.view
         /\ \A b \in {"default", "voice"} : [r EXCEPT !.border = b].zoom = r.zoom
         /\ \A z \in Zooms : [r EXCEPT !.zoom = z] \in Record
         /\ \A z \in Zooms : [r EXCEPT !.zoom = z].view = r.view
<1> DEFINE V == {Viewport[m] : m \in Modes}
<1>1. \A m \in Modes : Viewport[m] \in V
  OBVIOUS
<1> HIDE DEF V
<1>2. Record = [view : V, border : {"default", "voice"}, zoom : Zooms]
  BY DEF Record, V
<1> QED
  BY <1>1, <1>2

\* Each step of the worker and of the settings keeps it.
LEMMA DisplayStep == DisplayIInv /\ [Next]_displayVars => DisplayIInv'
<1> SUFFICES ASSUME DisplayIInv, [Next]_displayVars PROVE DisplayIInv'
  OBVIOUS
<1> USE NoEditAssumption
    DEF DisplayIInv, DisplayTypes, CopiesAreCurrent, OnlyOverlapsAreLost, machineVars, screenVars
<1>1. CASE ChangeMode
  <2>1. mode' \in Modes /\ mine' = [staging EXCEPT !.view = Viewport[mode']]
    BY <1>1 DEF ChangeMode, StagedOf
  <2>2. mine' \in Record /\ mine'.view = Viewport[mode'] /\ mine'.zoom = staging.zoom
    BY <2>1, EditedRecord
  <2> QED
    BY <1>1, <2>1, <2>2 DEF ChangeMode, Executing
<1>2. CASE Store
  BY <1>2 DEF Store
<1>3. CASE push_audio_data
  <2>1. CASE paused
    BY <1>3, <2>1 DEF push_audio_data
  <2>2. CASE ~paused
    <3>1. PICK b \in {"default", "voice"} : mine' = [staging EXCEPT !.border = b]
      BY <1>3, <2>2 DEF push_audio_data, StagedOf, set_border_color_if
    <3>2. mine' \in Record /\ mine'.view = staging.view /\ mine'.zoom = staging.zoom
      BY <3>1, EditedRecord
    <3> QED
      BY <1>3, <2>2, <3>2 DEF push_audio_data, FrameIsDone
  <2> QED
    BY <2>1, <2>2
<1>4. CASE push_video_data
  BY <1>4 DEF push_video_data
<1>5. CASE OpenSettings
  <2>1. PICK z \in Zooms : users' = [staging EXCEPT !.zoom = z]
    BY <1>5 DEF OpenSettings
  <2>2. users' \in Record /\ users'.view = staging.view
    BY <2>1, EditedRecord
  <2> QED
    BY <1>5, <2>2 DEF OpenSettings
<1>6. CASE CloseSettings
  BY <1>6 DEF CloseSettings, Record
<1>7. CASE Pause
  BY <1>7 DEF Pause
<1>8. CASE render_display
  BY <1>8 DEF render_display
<1>9. CASE FlushByProgram
  BY <1>9 DEF FlushByProgram, Executing
<1>10. CASE UNCHANGED displayVars
  BY <1>10 DEF displayVars
<1> QED
  BY <1>1, <1>2, <1>3, <1>4, <1>5, <1>6, <1>7, <1>8, <1>9, <1>10 DEF Next, Worker

\* The display begins in the invariant.
LEMMA DisplayInitial == Init => DisplayIInv
<1> SUFFICES ASSUME Init PROVE DisplayIInv
  OBVIOUS
<1>1. staging \in Record /\ staging.view = Viewport["small"] /\ staging.zoom = 1
  BY DEF Init, Record, Modes, Zooms
<1>2. sounding \in BOOLEAN /\ paused \in BOOLEAN /\ overlapped \in BOOLEAN
  BY DEF Init
<1> QED
  BY <1>1, <1>2
  DEF Init, DisplayIInv, DisplayTypes, CopiesAreCurrent, OnlyOverlapsAreLost, Modes, Zooms

\* The viewport of the record is lost only to an edit that overlaps with the machine's, and the
\* user's last zoom never.
THEOREM EditsOverlap == DisplaySpec => []OnlyOverlapsAreLost
<1>1. DisplayIInv => OnlyOverlapsAreLost
  BY DEF DisplayIInv
<1> QED
  BY DisplayInitial, <1>1, DisplayStep, PTL DEF DisplaySpec

\* The viewports that modes ask for.
Views == {Viewport[m] : m \in Modes}

\* The pixels and the record of a frame travel together.
FramesInv ==
  /\ stream = held.pixels
  /\ held.metadata.view \in Views /\ box.metadata.view \in Views

\* What is drawn are pixels and a record of one frame, in a viewport that fits.
THEOREM FramesAreDrawnWhole == DisplaySpec => DrawnIsOneFrame
<1>1. Init => FramesInv
  BY DEF Init, FramesInv, Frame, Views, Modes
<1>2. DisplayIInv /\ FramesInv /\ [Next]_displayVars => FramesInv'
  <2> SUFFICES ASSUME DisplayIInv, FramesInv, [Next]_displayVars PROVE FramesInv'
    OBVIOUS
  <2> USE DEF FramesInv
  <2>1. CASE UNCHANGED <<box, held, stream>>
    BY <2>1
  <2>2. CASE Flushed /\ UNCHANGED <<held, stream>>
    <3>1. staging.view \in Views
      BY DEF DisplayIInv, DisplayTypes, Record, Views
    <3>2. box' = Frame /\ Frame.metadata.view = staging.view
      BY <2>2 DEF Flushed, Frame
    <3> QED
      BY <2>2, <3>1, <3>2
  <2>3. CASE render_display
    BY <2>3 DEF render_display
  <2> QED
    BY <2>1, <2>2, <2>3 DEF Next, Worker, ChangeMode, Store, FlushByProgram, push_audio_data,
      push_video_data, OpenSettings, CloseSettings, Pause, screenVars, displayVars
<1>3. FramesInv /\ FramesInv' /\ [Next]_displayVars =>
        (drawn' # drawn =>
           /\ drawn'.pixels = held'.pixels /\ drawn'.meta = held'.metadata
           /\ drawn'.meta.view \in FittingViews)
  <2> SUFFICES ASSUME FramesInv', [Next]_displayVars, drawn' # drawn
               PROVE /\ drawn'.pixels = held'.pixels /\ drawn'.meta = held'.metadata
                     /\ drawn'.meta.view \in FittingViews
    OBVIOUS
  <2>1. render_display
    BY DEF Next, Worker, ChangeMode, Store, FlushByProgram, push_audio_data, push_video_data,
      OpenSettings, CloseSettings, Pause, screenVars, displayVars
  <2>2. drawn' = [meta |-> held'.metadata, pixels |-> stream']
    BY <2>1 DEF render_display, LayoutOf
  <2>3. held'.metadata.view \in FittingViews
    BY ViewsFit DEF FramesInv, Views
  <2> QED
    BY <2>2, <2>3 DEF FramesInv
<1> QED
  BY <1>1, <1>2, <1>3, DisplayInitial, DisplayStep, PTL DEF DisplaySpec, DrawnIsOneFrame

-----------------------------------------------------------------------------
(* The frame limiter                                                       *)

\* The types of the limiter's variables, and that its origin is no time to come.
PaceTypes ==
  /\ now \in Nat /\ origin \in Nat /\ accrued \in Nat /\ due \in Nat /\ frames \in Nat
  /\ completed \in BOOLEAN /\ initial \in BOOLEAN /\ skips \in BOOLEAN /\ prompt \in BOOLEAN
  /\ period \in Periods /\ since \in {"work", "sleep", "yield"}
  /\ origin <= now /\ now <= MaxTime

\* Before the first question nothing is carried over; the first pass is the first question.
FreshIsEmpty ==
  /\ ~completed => accrued = 0 /\ frames = 0 /\ since = "work"
  /\ initial => ~completed

\* A worker that waits has been told so at this time, and one that sleeps and was never lazy
\* was told to do so at a distance.
WaitsForDue ==
  since # "work" =>
    /\ completed /\ accrued + now - origin < period
    /\ since = "sleep" /\ prompt => accrued + now - origin + Threshold <= period

\* The inductive invariant of the limiter.
PaceIInv == PaceTypes /\ FreshIsEmpty /\ WaitsForDue /\ FramesKeepTime

\* What a quotient and a remainder are, and when a quotient is positive.
LEMMA DivMod ==
  ASSUME NEW e \in Nat, NEW p \in Nat \ {0}
  PROVE  /\ e \div p \in Nat /\ e % p \in Nat
         /\ e % p = e - (e \div p) * p
         /\ e >= p => e \div p >= 1
  OBVIOUS

\* Multiples of a period add up.
LEMMA SumOfPeriods ==
  ASSUME NEW k \in Nat, NEW j \in Nat, NEW p \in Nat
  PROVE  k * p + j * p = (k + j) * p
  OBVIOUS

\* No period takes no time.
LEMMA NoPeriod == ASSUME NEW p \in Nat PROVE 0 * p = 0
  OBVIOUS

\* There are no more periods than ticks.
LEMMA Bounded == ASSUME NEW k \in Nat, NEW p \in Nat \ {0} PROVE k <= k * p /\ k * p \in Nat
  OBVIOUS

\* The limiter begins in the invariant.
LEMMA PaceInitial == PaceInit => PaceIInv
<1> SUFFICES ASSUME PaceInit PROVE PaceIInv
  OBVIOUS
<1>1. PaceTypes
  <2>1. completed \in BOOLEAN /\ initial \in BOOLEAN /\ skips \in BOOLEAN /\ prompt \in BOOLEAN
    BY DEF PaceInit
  <2> QED
    BY <2>1, PaceAssumption DEF PaceInit, PaceTypes
<1> QED
  BY <1>1 DEF PaceInit, PaceIInv, FreshIsEmpty, WaitsForDue, FramesKeepTime

\* How far the period's beginning is from a moment at which a frame was due.
LEMMA InTime ==
  ASSUME PaceIInv, completed
  PROVE  \E k \in Nat : origin - accrued = due + k * period /\ k >= frames /\ (~skips => k = frames)
  BY DEF PaceIInv, FramesKeepTime

\* The bound of FramesKeepTime is none: there are no more periods than ticks.
LEMMA FewPeriods ==
  ASSUME NEW o \in Nat, NEW a \in Nat, NEW d \in Nat, NEW k \in Nat, NEW p \in Nat \ {0},
         o <= MaxTime, o - a = d + k * p
  PROVE  k \in 0..MaxTime
  BY Bounded, PaceAssumption

\* A question keeps it, and what it answers is due.
LEMMA AskStep ==
  ASSUME PaceIInv, is_frame_ready
  PROVE  PaceIInv' /\ FramesAreOnTime
<1> USE PaceAssumption
<1>0. PICK away \in Away, lazy \in BOOLEAN :
        LET time == now + away
            start == IF completed THEN origin ELSE time
        IN  /\ time <= MaxTime
            /\ now' = time /\ completed' = TRUE /\ UNCHANGED skips
            /\ InitialPass(time, start) \/ Pass(time, start) \/ NotYet(time, start, lazy)
  BY DEF is_frame_ready
<1> DEFINE time == now + away
           start == IF completed THEN origin ELSE time
           elapsed == accrued + time - start
<1>1. /\ now' = time /\ completed' = TRUE /\ skips' = skips /\ time <= MaxTime
      /\ InitialPass(time, start) \/ Pass(time, start) \/ NotYet(time, start, lazy)
  BY <1>0
<1>2. away \in Nat
  BY DEF Away, PaceIInv, PaceTypes
<1>3. /\ now \in Nat /\ origin \in Nat /\ accrued \in Nat /\ due \in Nat /\ frames \in Nat
      /\ completed \in BOOLEAN /\ initial \in BOOLEAN /\ skips \in BOOLEAN /\ prompt \in BOOLEAN
      /\ period \in Nat \ {0} /\ period \in Periods /\ since \in {"work", "sleep", "yield"}
      /\ origin <= now /\ now <= MaxTime
  BY DEF PaceIInv, PaceTypes
<1>4. time \in Nat /\ start \in Nat /\ start <= time /\ elapsed \in Nat /\ time >= now
  BY <1>2, <1>3
<1>5. completed' \in BOOLEAN /\ skips' \in BOOLEAN
  BY <1>1, <1>3
<1>6. ~completed => accrued = 0 /\ frames = 0 /\ elapsed = 0 /\ since = "work"
  BY <1>3, <1>4 DEF PaceIInv, FreshIsEmpty
<1> HIDE DEF time, start, elapsed
<1>7. CASE InitialPass(time, start)
  <2>1. ~completed /\ accrued = 0 /\ since = "work"
    BY <1>7, <1>3 DEF InitialPass, PaceIInv, FreshIsEmpty
  <2>2. /\ initial' \in BOOLEAN /\ prompt' \in BOOLEAN /\ initial' = FALSE /\ origin' = start
        /\ since' = "work" /\ due' = start /\ frames' = 0 /\ period' = period /\ accrued' = accrued
    BY <1>7 DEF InitialPass
  <2>3. FramesKeepTime'
    <3>1. origin' - accrued' = due' + 0 * period' /\ 0 >= frames' /\ 0 = frames' /\ 0 \in 0..MaxTime
      BY <1>3, <1>4, <2>1, <2>2
    <3> QED
      BY <3>1 DEF FramesKeepTime
  <2>4. PaceTypes'
    BY <1>1, <1>3, <1>4, <1>5, <2>2 DEF PaceTypes
  <2>5. FreshIsEmpty' /\ WaitsForDue'
    BY <1>1, <2>2 DEF FreshIsEmpty, WaitsForDue
  <2> QED
    BY <2>1, <2>3, <2>4, <2>5 DEF PaceIInv, FramesAreOnTime
<1>8. CASE Pass(time, start)
  <2>1. /\ ~initial /\ elapsed >= period /\ accrued' = Carried(elapsed) /\ origin' = time
        /\ since' = "work" /\ frames' = frames + 1 /\ initial' = initial /\ period' = period
        /\ due' = due /\ prompt' \in BOOLEAN
    BY <1>8 DEF Pass, elapsed
  <2>2. completed
    BY <1>3, <1>6, <2>1
  <2>3. start = origin
    BY <2>2 DEF start
  <2>4. PICK k \in Nat : /\ origin - accrued = due + k * period
                         /\ k >= frames /\ (~skips => k = frames)
    BY <2>2, InTime
  <2>5. k * period \in Nat
    BY <1>3, Bounded
  <2>6. \E j \in Nat : /\ Carried(elapsed) = elapsed - j * period /\ j * period \in Nat
                       /\ Carried(elapsed) \in Nat /\ j >= 1 /\ (~skips => j = 1)
    <3>1. CASE skips
      <4>1. /\ Carried(elapsed) = elapsed - (elapsed \div period) * period
            /\ Carried(elapsed) \in Nat /\ elapsed \div period \in Nat /\ elapsed \div period >= 1
        BY <1>3, <1>4, <2>1, <3>1, DivMod DEF Carried
      <4> QED
        BY <1>3, <3>1, <4>1, Bounded
    <3>2. CASE ~skips
      <4>1. /\ Carried(elapsed) = elapsed - 1 * period
            /\ Carried(elapsed) \in Nat /\ 1 * period \in Nat
        BY <1>3, <1>4, <2>1, <3>2 DEF Carried
      <4> QED
        BY <4>1
    <3> QED
      BY <3>1, <3>2
  <2>7. PICK j \in Nat : /\ Carried(elapsed) = elapsed - j * period /\ j * period \in Nat
                         /\ Carried(elapsed) \in Nat /\ j >= 1 /\ (~skips => j = 1)
    BY <2>6
  <2>8. origin' - accrued' = due' + (k + j) * period'
    <3>1. elapsed = accrued + time - origin
      BY <2>3 DEF elapsed
    <3>2. origin' - accrued' = origin - accrued + j * period
      BY <1>3, <1>4, <2>1, <2>7, <3>1
    <3>3. k * period + j * period = (k + j) * period
      <4>1. k \in Nat /\ j \in Nat /\ period \in Nat
        BY <1>3
      <4> QED
        BY <4>1, SumOfPeriods
    <3> QED
      BY <1>3, <2>1, <2>4, <2>5, <2>7, <3>2, <3>3
  <2>9. k + j >= frames' /\ (~skips' => k + j = frames')
    BY <1>1, <1>3, <2>1, <2>4, <2>7
  <2>10. PaceTypes'
    BY <1>1, <1>3, <1>4, <1>5, <2>1, <2>7 DEF PaceTypes
  <2>11. FramesKeepTime'
    <3>1. k + j \in 0..MaxTime
      BY <1>1, <1>3, <1>4, <2>1, <2>7, <2>8, FewPeriods
    <3> QED
      BY <2>8, <2>9, <3>1 DEF FramesKeepTime
  <2>12. FreshIsEmpty' /\ WaitsForDue'
    BY <1>1, <2>1 DEF FreshIsEmpty, WaitsForDue
  <2>13. FramesAreOnTime
    <3> SUFFICES ASSUME prompt, since = "sleep" => now' - now < Threshold, since # "work"
                 PROVE  now' = origin - accrued + period
      BY DEF FramesAreOnTime
    <3>1. elapsed = accrued + time - origin /\ accrued + now - origin < period
      BY <2>3 DEF elapsed, PaceIInv, WaitsForDue
    <3>2. since # "sleep"
      BY <1>1, <1>3, <1>4, <2>1, <3>1 DEF PaceIInv, WaitsForDue
    <3>3. away \in 0..1
      BY <1>3, <3>2 DEF Away
    <3> QED
      BY <1>1, <1>3, <2>1, <3>1, <3>3 DEF time
  <2> QED
    BY <2>10, <2>11, <2>12, <2>13 DEF PaceIInv
<1>9. CASE NotYet(time, start, lazy)
  <2>1. /\ ~initial /\ elapsed < period /\ origin' = start
        /\ since' = IF Sleeps(lazy, period - elapsed) THEN "sleep" ELSE "yield"
        /\ due' = IF completed THEN due ELSE start
        /\ prompt' = (prompt /\ ~lazy /\ (since = "sleep" => time - now < Threshold))
        /\ initial' = initial /\ period' = period /\ accrued' = accrued /\ frames' = frames
    BY <1>9 DEF NotYet, elapsed
  <2>2. prompt' \in BOOLEAN /\ since' \in {"sleep", "yield"} /\ due' \in Nat
    BY <2>1, <1>3, <1>4
  <2>3. PaceTypes'
    BY <1>1, <1>3, <1>4, <1>5, <2>1, <2>2 DEF PaceTypes
  <2>4. FreshIsEmpty'
    BY <1>1, <2>1 DEF FreshIsEmpty
  <2>5. WaitsForDue'
    <3>1. accrued' + now' - origin' = elapsed
      BY <1>1, <2>1 DEF elapsed
    <3>2. since' = "sleep" /\ prompt' => elapsed + Threshold <= period
      BY <1>3, <1>4, <2>1 DEF Sleeps
    <3> QED
      BY <1>1, <2>1, <3>1, <3>2 DEF WaitsForDue
  <2>6. FramesKeepTime'
    <3>1. CASE completed
      <4>1. start = origin
        BY <3>1 DEF start
      <4>2. PICK k \in 0..MaxTime :
              origin - accrued = due + k * period /\ k >= frames /\ (~skips => k = frames)
        BY <3>1 DEF PaceIInv, FramesKeepTime
      <4> QED
        BY <1>1, <2>1, <3>1, <4>1, <4>2 DEF FramesKeepTime
    <3>2. CASE ~completed
      <4>1. /\ origin' - accrued' = due' + 0 * period'
            /\ 0 >= frames' /\ 0 = frames' /\ 0 \in 0..MaxTime
        BY <1>3, <1>4, <1>6, <2>1, <3>2
      <4> QED
        BY <4>1 DEF FramesKeepTime
    <3> QED
      BY <3>1, <3>2
  <2>7. FramesAreOnTime
    BY <1>3, <2>1 DEF FramesAreOnTime
  <2> QED
    BY <2>3, <2>4, <2>5, <2>6, <2>7 DEF PaceIInv
<1> QED
  BY <1>1, <1>7, <1>8, <1>9

\* Each step of the worker's loop keeps it.
LEMMA PaceStep == PaceIInv /\ [PaceNext]_paceVars => PaceIInv' /\ [FramesAreOnTime]_paceVars
<1> SUFFICES ASSUME PaceIInv, [PaceNext]_paceVars PROVE PaceIInv' /\ [FramesAreOnTime]_paceVars
  OBVIOUS
<1>1. CASE is_frame_ready
  BY <1>1, AskStep
<1>2. CASE set_limiter_props
  <2>1. /\ since = "work" /\ completed /\ period' \in Periods
        /\ due' = origin - accrued /\ frames' = 0
        /\ UNCHANGED <<now, completed, initial, skips, accrued, origin, since, prompt>>
    BY <1>2 DEF set_limiter_props
  <2>2. PICK k \in Nat : origin - accrued = due + k * period
    BY <2>1, InTime
  <2>3. due' \in Nat
    BY <2>1, <2>2, Bounded, PaceAssumption DEF PaceIInv, PaceTypes
  <2>4. PaceTypes'
    BY <2>1, <2>3 DEF PaceIInv, PaceTypes
  <2>5. FreshIsEmpty' /\ WaitsForDue'
    BY <2>1 DEF PaceIInv, FreshIsEmpty, WaitsForDue
  <2>6. FramesKeepTime'
    <3>1. period' \in Nat
      BY <2>4, PaceAssumption DEF PaceTypes
    <3>2. MaxTime \in Nat
      BY PaceAssumption
    <3>3. origin \in Nat /\ accrued \in Int
      BY DEF PaceIInv, PaceTypes
    <3>4. 0 * period' = 0
      BY <3>1, NoPeriod
    <3>5. origin' - accrued' = due' + 0 * period'
      BY <2>1, <3>3, <3>4
    <3>6. 0 \in 0..MaxTime /\ 0 >= frames' /\ 0 = frames'
      BY <2>1, <3>2
    <3> QED
      BY <3>5, <3>6 DEF FramesKeepTime
  <2>7. FramesAreOnTime
    BY <2>1 DEF FramesAreOnTime
  <2> QED
    BY <2>4, <2>5, <2>6, <2>7 DEF PaceIInv
<1>3. CASE UNCHANGED paceVars
  BY <1>3 DEF paceVars, PaceIInv, PaceTypes, FreshIsEmpty, WaitsForDue, FramesKeepTime
<1> QED
  BY <1>1, <1>2, <1>3 DEF PaceNext

\* For any periods: frames begin a whole number of periods after one another, none before it
\* is due, and a worker that asks in time begins its frame in the very tick.
THEOREM FramesComeOnTime == PaceSpec => FramesAreSteady
<1>1. PaceIInv' /\ [FramesAreOnTime]_paceVars => [FramesKeepTime' /\ FramesAreOnTime]_paceVars
  BY DEF PaceIInv
<1> QED
  BY PaceInitial, PaceStep, <1>1, PTL DEF PaceSpec, FramesAreSteady

-----------------------------------------------------------------------------
(* The sound                                                               *)

\* A quotient and a remainder are what was divided.
LEMMA Divided ==
  ASSUME NEW a \in Nat, NEW n \in Nat \ {0}
  PROVE  /\ a \div n \in Nat /\ a % n \in 0..n-1
         /\ (a \div n) * n + (a % n) = a
<1>1. a \div n \in Nat /\ a % n \in 0..n-1 /\ a % n = a - (a \div n) * n
  OBVIOUS
<1>2. (a \div n) * n \in Nat
  BY <1>1
<1> QED
  BY <1>1, <1>2

\* A larger number has larger multiples.
LEMMA Grows == ASSUME NEW a \in Nat, NEW b \in Nat, NEW c \in Nat, a <= b
               PROVE  a * c <= b * c /\ a * c \in Nat /\ b * c \in Nat
  OBVIOUS

\* A common factor cancels.
LEMMA Cancels == ASSUME NEW a \in Nat, NEW b \in Nat, NEW n \in Nat \ {0}, a * n <= b * n
                 PROVE  a <= b
  OBVIOUS

\* So it does between numbers that differ.
LEMMA CancelsStrictly == ASSUME NEW a \in Nat, NEW b \in Nat, NEW n \in Nat \ {0}, a * n < b * n
                         PROVE  a < b
  OBVIOUS

\* Products regroup.
LEMMA Regroup == ASSUME NEW a \in Nat, NEW b \in Nat, NEW c \in Nat
                 PROVE  /\ (a * b) * c = a * (b * c) /\ (a * b) * c = (a * c) * b
                        /\ a * b \in Nat
  OBVIOUS

\* Products spread over sums.
LEMMA Spread == ASSUME NEW a \in Nat, NEW b \in Nat, NEW c \in Nat
                PROVE  (a + b) * c = a * c + b * c /\ a * (b + c) = a * b + a * c
  OBVIOUS

\* One frame more in the account: what is played of it, x of S units, and the z units of t
\* that are counted, of which n are samples.
LEMMA Booked ==
  ASSUME NEW e \in Nat, NEW a \in Nat, NEW s \in Nat, NEW p \in Nat, NEW S \in Nat,
         NEW t \in Nat, NEW n \in Nat, NEW b \in Nat, NEW x \in Nat, NEW z \in Nat,
         (e * S + a) * t <= p * S, p * S <= (e * S + a + s) * t,
         n * S + b = a + z, z * t <= x * S, x * S <= (z + 1) * t
  PROVE  /\ ((e + n) * S + b) * t <= (p + x) * S
         /\ (p + x) * S <= ((e + n) * S + b + (s + 1)) * t
<1>1. PICK A \in Nat : A = e * S + a
  OBVIOUS
<1>2. (e + n) * S + b = A + z
  <2>1. (e + n) * S = e * S + n * S /\ e * S \in Nat /\ n * S \in Nat
    BY Spread
  <2> QED
    BY <1>1, <2>1
<1>3. A * t <= p * S /\ p * S <= (A + s) * t
  BY <1>1
<1>4. /\ (A + z) * t = A * t + z * t /\ (p + x) * S = p * S + x * S
      /\ (A + z + (s + 1)) * t = (A + s) * t + (z + 1) * t
  BY <1>1, Spread
<1>5. /\ A * t \in Nat /\ z * t \in Nat /\ p * S \in Nat /\ x * S \in Nat
      /\ (A + s) * t \in Nat /\ (z + 1) * t \in Nat
  BY <1>1, Regroup
<1>6. (A + z) * t <= (p + x) * S
  BY <1>3, <1>4, <1>5
<1>7. (p + x) * S <= (A + z + (s + 1)) * t
  BY <1>3, <1>4, <1>5
<1> QED
  BY <1>2, <1>6, <1>7

\* A quotient is as large as its multiples allow.
LEMMA AtLeast == ASSUME NEW a \in Nat, NEW n \in Nat \ {0}, NEW k \in Nat, k * n <= a
                 PROVE  a \div n >= k
<1> DEFINE q == a \div n
<1>1. q \in Nat /\ a % n \in 0..n-1 /\ q * n + (a % n) = a
  BY Divided
<1> HIDE DEF q
<1>2. (q + 1) * n = q * n + n
  BY <1>1
<1>3. k * n < (q + 1) * n
  BY <1>1, <1>2
<1>4. k < q + 1
  BY <1>1, <1>3, CancelsStrictly
<1> QED
  BY <1>1, <1>4 DEF q

\* What the account of the accumulator means for the samples of s frames.
LEMMA SamplesAreInTime ==
  ASSUME NEW e \in Nat, NEW a \in Nat, NEW s \in Nat, NEW p \in Nat,
         NEW S \in Nat \ {0}, NEW t \in Nat \ {0},
         a < S, (e * S + a) * t <= p * S, p * S <= (e * S + a + s) * t
  PROVE  e * t <= p /\ p < (e + 1) * t + (s * t) \div S + 1
<1> DEFINE d == (s * t) \div S
           u == (s * t) % S
<1>1. d \in Nat /\ u \in Nat /\ u < S /\ d * S + u = s * t
  <2>1. s * t \in Nat
    BY Regroup
  <2>2. d \in Nat /\ u \in 0..S-1 /\ d * S + u = s * t
    BY <2>1, Divided
  <2> QED
    BY <2>2
<1> HIDE DEF d, u
<1>2. (e * t) * S = (e * S) * t /\ e * t \in Nat /\ e * S \in Nat
  BY Regroup
<1>3. (e * S + a) * t = (e * S) * t + a * t /\ a * t \in Nat /\ (e * S) * t \in Nat
  BY <1>2, Spread, Regroup
<1>4. e * t <= p
  <2>1. (e * t) * S <= p * S
    BY <1>2, <1>3
  <2> QED
    BY <1>2, <2>1, Cancels
<1>5. p < (e + 1) * t + d + 1
  <2>1. (e * S + a + s) * t = (e * S) * t + a * t + s * t /\ s * t \in Nat
    <3>1. (e * S + a + s) * t = (e * S + a) * t + s * t
      BY <1>2, Spread
    <3> QED
      BY <1>3, <3>1, Regroup
  <2>2. a * t < S * t
    OBVIOUS
  <2>3. ((e + 1) * t + d + 1) * S = (e * t) * S + t * S + d * S + S
    BY <1>1, <1>2
  <2>4. t * S = S * t /\ t * S \in Nat /\ (e * t) * S \in Nat /\ d * S \in Nat
    BY <1>1, <1>2
  <2>5. p * S < ((e + 1) * t + d + 1) * S
    BY <1>1, <1>2, <1>3, <2>1, <2>2, <2>3, <2>4
  <2>6. (e + 1) * t + d + 1 \in Nat
    BY <1>1
  <2> QED
    BY <2>5, <2>6, CancelsStrictly
<1> QED
  BY <1>4, <1>5 DEF d

\* A fade is over in its frame.
LEMMA FadeIsShort ==
  ASSUME NEW n \in Nat \ {0}
  PROVE  calc_fade_step(n) \in Nat \ {0} /\ calc_fade_step(n) * n >= 100
<1> DEFINE q == 200 \div n
           step == calc_fade_step(n)
<1>1. q \in Nat /\ 200 % n \in 0..n-1 /\ q * n + (200 % n) = 200
  BY Divided
<1>2. step \in Nat \ {0} /\ step >= 1 /\ step >= q
  BY <1>1 DEF calc_fade_step, Higher
<1> HIDE DEF q, step
<1>3. CASE n >= 100
  <2>1. 1 * n <= step * n
    BY <1>2, Grows
  <2> QED
    BY <1>2, <1>3, <2>1 DEF step
<1>4. CASE n < 100
  <2>1. q * n <= step * n
    BY <1>1, <1>2, Grows
  <2>2. q * n >= 100
    BY <1>1, <1>4
  <2> QED
    BY <1>1, <1>2, <2>1, <2>2 DEF step
<1> QED
  BY <1>3, <1>4

\* The frame rates that a system has.
Paces == {base_rate * m : m \in Multipliers}

\* The types of the variables that the proof needs.
AudioTypes ==
  /\ freq \in Freqs \cup {0} /\ base_rate \in Rates
  /\ multiplier \in Multipliers /\ ratio \in Multipliers
  /\ rate \in Paces /\ target \in Paces \cup {0}
  /\ accumulator \in 0..Scale-1 /\ span \in Nat /\ emitted \in Nat
  /\ played \in Nat /\ apart \in BOOLEAN
  /\ timer \in [old : 0..MaxTimer, new : 0..MaxTimer] /\ struck \in 0..2

\* No fraction of a sample is lost between two frames, and of the accumulator's unit less
\* than one in each frame.
AccountHolds ==
  freq # 0 /\ target # 0 =>
    /\ (emitted * Scale + accumulator) * target <= played * Scale
    /\ played * Scale <= (emitted * Scale + accumulator + span) * target
    /\ ~apart => \E m \in Multipliers : target = base_rate * m /\ played = span * freq * m

\* A voice that was set at most once since the frame began goes on from where it was, and
\* one that was not set neither begins nor ends.
LevelIsTimers ==
  freq # 0 /\ struck <= 1 =>
    /\ level = IF timer.old > 0 THEN 100 ELSE 0
    /\ struck = 0 => (timer.old > 0 <=> timer.new > 0)

\* The inductive invariant of the sound.
AudioIInv == AudioTypes /\ AccountHolds /\ LevelIsTimers

\* The sound begins in the invariant.
LEMMA AudioInitial == AudioInit => AudioIInv
<1> SUFFICES ASSUME AudioInit PROVE AudioIInv
  OBVIOUS
<1>1. timer \in [old : 0..MaxTimer, new : 0..MaxTimer] /\ timer.old = 0 /\ timer.new = 0
  BY AudioAssumption DEF AudioInit
<1>2. AudioTypes
  <2>1. 0 \in 0..Scale-1 /\ 0 \in 0..2 /\ 0 \in Nat
    BY AudioAssumption
  <2>2. rate \in Paces
    BY DEF AudioInit, Paces
  <2> QED
    BY <1>1, <2>1, <2>2 DEF AudioInit, AudioTypes
<1>3. AccountHolds
  BY DEF AudioInit, AccountHolds
<1>4. LevelIsTimers
  BY <1>1 DEF AudioInit, LevelIsTimers
<1> QED
  BY <1>2, <1>3, <1>4 DEF AudioIInv

\* What is known of the numbers of a device that plays.
LEMMA SoundNumbers ==
  ASSUME AudioTypes, freq # 0, NEW q \in Multipliers
  PROVE  /\ freq \in Nat \ {0} /\ rate \in Nat \ {0} /\ Scale \in Nat \ {0} /\ q \in Nat \ {0}
         /\ base_rate \in Nat \ {0} /\ accumulator \in Nat /\ accumulator < Scale
         /\ freq * q \in Nat /\ freq * q >= rate
         /\ target # 0 => target \in Nat \ {0}
<1>1. /\ freq \in Freqs /\ freq \in Nat \ {0} /\ base_rate \in Rates /\ base_rate \in Nat \ {0}
      /\ Scale \in Nat \ {0} /\ q \in Nat \ {0} /\ accumulator \in Nat /\ accumulator < Scale
  BY AudioAssumption DEF AudioTypes
<1>2. \A m \in Multipliers : base_rate * m \in Nat \ {0} /\ freq * q >= base_rate * m
  BY <1>1, AudioAssumption
<1>3. rate \in Nat \ {0} /\ freq * q >= rate
  BY <1>2 DEF AudioTypes, Paces
<1>4. target # 0 => target \in Nat \ {0}
  BY <1>2 DEF AudioTypes, Paces
<1>5. freq * q \in Nat
  BY <1>1, Regroup
<1> QED
  BY <1>1, <1>3, <1>4, <1>5

\* A frame of a device that plays has a sample at least.
LEMMA FramesHaveSamples ==
  ASSUME AudioTypes, freq # 0, NEW q \in Multipliers
  PROVE  /\ Accumulated(q) \in Nat /\ SampleCount(q) \in Nat \ {0}
         /\ SampleCount(q) = Accumulated(q) \div Scale
         /\ Accumulated(q) = (IF rate = target THEN accumulator ELSE 0)
                               + (freq * q * Scale) \div rate
<1>1. PICK x \in Nat : x = freq * q /\ x >= rate
  BY SoundNumbers
<1>2. rate \in Nat \ {0} /\ Scale \in Nat \ {0} /\ accumulator \in Nat
  BY SoundNumbers
<1>3. PICK z \in Nat : z = (x * Scale) \div rate /\ z >= Scale
  <2>1. x * Scale \in Nat /\ Scale * rate <= x * Scale
    <3>1. rate * Scale <= x * Scale /\ x * Scale \in Nat
      BY <1>1, <1>2, Grows
    <3> QED
      BY <1>2, <3>1
  <2> QED
    BY <1>2, <2>1, AtLeast, Divided
<1>4. Accumulated(q) = (IF rate = target THEN accumulator ELSE 0) + z
  BY <1>1, <1>3 DEF Accumulated
<1>5. Accumulated(q) \in Nat /\ Accumulated(q) >= 1 * Scale
  BY <1>2, <1>3, <1>4
<1>6. Accumulated(q) \div Scale \in Nat /\ Accumulated(q) \div Scale >= 1
  BY <1>2, <1>5, AtLeast, Divided
<1> QED
  BY <1>1, <1>3, <1>4, <1>5, <1>6 DEF SampleCount

\* Counting the samples of a frame keeps the account.
LEMMA CountKeepsAccount ==
  ASSUME AudioTypes, AccountHolds, NEW q \in Multipliers, Count(q),
         freq' = freq, base_rate' = base_rate
  PROVE  /\ accumulator' \in 0..Scale-1 /\ span' \in Nat /\ emitted' \in Nat
         /\ played' \in Nat /\ apart' \in BOOLEAN /\ target' \in Paces \cup {0}
         /\ AccountHolds'
<1>1. CASE freq = 0
  <2>1. UNCHANGED <<target, accumulator, span, emitted, played, apart>>
    BY <1>1 DEF Count, countVars
  <2> QED
    BY <1>1, <2>1 DEF AudioTypes, AccountHolds
<1>2. CASE freq # 0
  <2>1. /\ freq \in Nat \ {0} /\ rate \in Nat \ {0} /\ Scale \in Nat \ {0} /\ q \in Nat \ {0}
        /\ base_rate \in Nat \ {0} /\ accumulator \in Nat
    BY <1>2, SoundNumbers
  <2>2. PICK x \in Nat : x = freq * q
    BY <1>2, SoundNumbers
  <2>3. PICK z \in Nat : /\ z = (x * Scale) \div rate
                         /\ z * rate <= x * Scale /\ x * Scale <= (z + 1) * rate
    <3>1. x * Scale \in Nat
      BY <2>1, Regroup
    <3>2. PICK z \in Nat, r \in 0..rate-1 : z = (x * Scale) \div rate /\ z * rate + r = x * Scale
      BY <2>1, <3>1, Divided
    <3>3. (z + 1) * rate = z * rate + rate /\ z * rate \in Nat
      BY <2>1, Regroup
    <3> QED
      BY <2>1, <3>1, <3>2, <3>3
  <2>4. PICK e \in Nat, a \in Nat, s \in Nat, p \in Nat :
          /\ e = (IF rate = target THEN emitted ELSE 0)
          /\ a = (IF rate = target THEN accumulator ELSE 0)
          /\ s = (IF rate = target THEN span ELSE 0)
          /\ p = (IF rate = target THEN played ELSE 0)
    <3> DEFINE So(count) == IF rate = target THEN count ELSE 0
    <3>1. emitted \in Nat /\ accumulator \in Nat /\ span \in Nat /\ played \in Nat
      BY <2>1 DEF AudioTypes
    <3> So(emitted) \in Nat /\ So(accumulator) \in Nat /\ So(span) \in Nat /\ So(played) \in Nat
      BY ONLY <3>1
    <3> WITNESS So(emitted) \in Nat, So(accumulator) \in Nat, So(span) \in Nat, So(played) \in Nat
    <3> QED
      OBVIOUS
  <2>5. (e * Scale + a) * rate <= p * Scale /\ p * Scale <= (e * Scale + a + s) * rate
    <3>1. CASE rate = target
      BY <1>2, <2>1, <2>4, <3>1 DEF AccountHolds
    <3>2. CASE rate # target
      <4>1. e = 0 /\ a = 0 /\ s = 0 /\ p = 0
        BY <2>4, <3>2
      <4> QED
        BY <2>1, <4>1
    <3> QED
      BY <3>1, <3>2
  <2>6. Accumulated(q) \in Nat /\ Accumulated(q) = a + z
    BY <1>2, <2>2, <2>3, <2>4, FramesHaveSamples
  <2>7. PICK n \in Nat : /\ n = Accumulated(q) \div Scale
                         /\ Accumulated(q) % Scale \in 0..Scale-1
                         /\ n * Scale + (Accumulated(q) % Scale) = Accumulated(q)
    BY <2>1, <2>6, Divided
  <2>8. /\ target' = rate /\ accumulator' = Accumulated(q) % Scale
        /\ accumulator' \in 0..Scale-1
        /\ span' = s + 1 /\ emitted' = e + n /\ played' = p + x
        /\ n * Scale + accumulator' = a + z
        /\ apart' = (rate # base_rate * q \/ (rate = target /\ apart))
    <3>1. span' = s + 1
      BY <1>2, <2>4 DEF Count
    <3>2. emitted' = e + n
      BY <1>2, <2>4, <2>7, FramesHaveSamples DEF Count
    <3>3. played' = p + x
      BY <1>2, <2>2, <2>4 DEF Count
    <3> QED
      BY <1>2, <2>6, <2>7, <3>1, <3>2, <3>3 DEF Count, Kept
  <2>9. PICK b \in Nat : b = accumulator'
    BY <2>1, <2>8
  <2>10. /\ ((e + n) * Scale + b) * rate <= (p + x) * Scale
         /\ (p + x) * Scale <= ((e + n) * Scale + b + (s + 1)) * rate
    <3>1. PICK S \in Nat, t \in Nat : S = Scale /\ t = rate
      BY <2>1
    <3>2. /\ (e * S + a) * t <= p * S /\ p * S <= (e * S + a + s) * t
          /\ n * S + b = a + z /\ z * t <= x * S /\ x * S <= (z + 1) * t
      BY <2>3, <2>5, <2>8, <2>9, <3>1
    <3>3. /\ ((e + n) * S + b) * t <= (p + x) * S
          /\ (p + x) * S <= ((e + n) * S + b + (s + 1)) * t
      BY ONLY q \in Multipliers, e \in Nat, a \in Nat, s \in Nat, p \in Nat, S \in Nat,
              t \in Nat, n \in Nat, b \in Nat, x \in Nat, z \in Nat, <3>2, Booked
    <3> QED
      BY <3>1, <3>3
  <2>11. ASSUME ~apart'
         PROVE  \E m \in Multipliers : target' = base_rate * m /\ played' = span' * freq * m
    <3>1. rate = base_rate * q /\ (rate = target => ~apart)
      BY <2>8, <2>11
    <3>2. p = s * freq * q
      <4>1. CASE rate = target
        <5>1. PICK m \in Multipliers : target = base_rate * m /\ played = span * freq * m
          BY <1>2, <2>1, <3>1, <4>1 DEF AccountHolds
        <5>2. m \in Nat /\ base_rate * m = base_rate * q
          BY <3>1, <4>1, <5>1, AudioAssumption
        <5>3. m = q
          BY <2>1, <5>2
        <5> QED
          BY <2>4, <4>1, <5>1, <5>3
      <4>2. CASE rate # target
        <5>1. s = 0 /\ p = 0
          BY <2>4, <4>2
        <5> QED
          BY <2>1, <5>1
      <4> QED
        BY <4>1, <4>2
    <3>3. (s + 1) * freq * q = s * freq * q + x
      <4>1. (s + 1) * freq = s * freq + freq /\ s * freq \in Nat
        BY <2>1
      <4>2. (s * freq + freq) * q = (s * freq) * q + freq * q
        BY <2>1, <4>1, Spread
      <4> QED
        BY <2>2, <4>1, <4>2
    <3>4. target' = base_rate * q /\ played' = span' * freq * q
      BY <2>8, <3>1, <3>2, <3>3
    <3> QED
      BY <3>4
  <2>12. AccountHolds'
    <3>1. /\ (emitted' * Scale + accumulator') * target' <= played' * Scale
          /\ played' * Scale <= (emitted' * Scale + accumulator' + span') * target'
      BY <2>8, <2>9, <2>10
    <3> QED
      BY <2>11, <3>1 DEF AccountHolds
  <2>13. target' \in Paces \cup {0}
    BY <2>8 DEF AudioTypes
  <2> QED
    BY <2>1, <2>8, <2>12, <2>13 DEF AudioTypes
<1> QED
  BY <1>1, <1>2

\* The account is what keeps the samples in time.
LEMMA AccountIsTime == AudioTypes /\ AccountHolds => SamplesKeepTime
<1> SUFFICES ASSUME AudioTypes, AccountHolds, freq # 0, target # 0
             PROVE  /\ emitted * target <= played
                    /\ played < (emitted + 1) * target + (span * target) \div Scale + 1
                    /\ ~apart => \E m \in Multipliers : /\ target = base_rate * m
                                                       /\ played = span * freq * m
  BY DEF SamplesKeepTime
<1>1. /\ target \in Nat \ {0} /\ Scale \in Nat \ {0} /\ accumulator \in Nat
      /\ accumulator < Scale /\ span \in Nat /\ emitted \in Nat /\ played \in Nat
  BY SoundNumbers DEF AudioTypes
<1>2. /\ (emitted * Scale + accumulator) * target <= played * Scale
      /\ played * Scale <= (emitted * Scale + accumulator + span) * target
      /\ ~apart => \E m \in Multipliers : target = base_rate * m /\ played = span * freq * m
  BY DEF AccountHolds
<1> QED
  BY <1>1, <1>2, SamplesAreInTime

\* A voice comes to its level within a frame.
LEMMA LastSample ==
  ASSUME AudioTypes, NEW n \in Nat \ {0}
  PROVE  Level(n - 1, calc_fade_step(n)) = IF timer.new > 0 THEN 100 ELSE 0
<1> DEFINE step == calc_fade_step(n)
<1>1. PICK m \in Nat : m = step * n /\ m >= 100
  <2>1. step \in Nat \ {0} /\ step * n >= 100
    BY FadeIsShort
  <2>2. step * n \in Nat
    BY <2>1, Regroup
  <2> QED
    BY <2>1, <2>2
<1>2. (n - 1) + 1 = n /\ timer.new \in Nat /\ timer.old \in Nat
  BY DEF AudioTypes
<1> HIDE DEF step
<1>3. Lower(step * n, 100) = 100 /\ Higher(100 - step * n, 0) = 0
  BY <1>1 DEF Lower, Higher
<1>4. Level(n - 1, step) = IF timer.new > 0 THEN 100 ELSE 0
  BY <1>2, <1>3 DEF Level, intro, outro
<1> QED
  BY <1>4 DEF step

\* A voice whose level is that of its timer begins within a step of it.
LEMMA FirstSample ==
  ASSUME AudioTypes, LevelIsTimers, freq # 0, struck <= 1, NEW step \in Nat \ {0}
  PROVE  LET gap == Level(0, step) - level
         IN  Higher(0, (IF gap < 0 THEN -gap ELSE gap) - step) = 0
<1>1. timer.new \in Nat /\ timer.old \in Nat /\ level = (IF timer.old > 0 THEN 100 ELSE 0)
  BY DEF AudioTypes, LevelIsTimers
<1>2. step * (0 + 1) = step
  OBVIOUS
<1>3. CASE intro
  <2>1. level = 0 /\ Level(0, step) = Lower(step, 100)
    BY <1>1, <1>2, <1>3 DEF Level, intro
  <2> QED
    BY <2>1 DEF Lower, Higher
<1>4. CASE ~intro /\ outro
  <2>1. level = 100 /\ Level(0, step) = Higher(100 - step, 0)
    BY <1>1, <1>2, <1>4 DEF Level, outro
  <2> QED
    BY <2>1 DEF Higher
<1>5. CASE ~intro /\ ~outro
  <2>1. Level(0, step) = level /\ level \in Nat
    BY <1>1, <1>5 DEF Level, intro, outro
  <2> QED
    BY <2>1 DEF Higher
<1> QED
  BY <1>3, <1>4, <1>5

\* What an instruction sets is a timer, whose old value is what was new.
LEMMA SetIsTimer ==
  ASSUME AudioTypes, NEW duration \in 0..MaxTimer
  PROVE  /\ set(timer, duration) \in [old : 0..MaxTimer, new : 0..MaxTimer]
         /\ set(timer, duration).old = timer.new /\ set(timer, duration).new = duration
BY DEF AudioTypes, set

\* The end of a frame leaves the level where the timer says it is, and it began without a
\* jump.
LEMMA EndKeepsLevel ==
  ASSUME AudioTypes, LevelIsTimers, EndFrame
  PROVE  /\ timer' \in [old : 0..MaxTimer, new : 0..MaxTimer] /\ struck' \in 0..2
         /\ LevelIsTimers' /\ FadesMeet
<1>1. timer.new \in 0..MaxTimer /\ timer.new \in Nat
  BY AudioAssumption DEF AudioTypes
<1>2. PICK d \in 0..MaxTimer : d = Higher(timer.new - 1, 0) /\ timer' = set(timer, d)
  <2>1. Higher(timer.new - 1, 0) \in 0..MaxTimer
    BY <1>1, AudioAssumption DEF Higher
  <2> QED
    BY <2>1 DEF EndFrame, dec
<1>3. /\ timer' \in [old : 0..MaxTimer, new : 0..MaxTimer]
      /\ timer'.old = timer.new /\ timer'.new = d
  BY <1>2, SetIsTimer
<1>4. PICK q \in Multipliers : MixFrame(q) /\ Voice(SampleCount(q))
  BY DEF EndFrame
<1>10. struck' = (IF timer.new = 1 THEN 1 ELSE 0) /\ freq' = freq
  BY <1>4 DEF EndFrame, MixFrame
<1>5. struck' \in 0..2
  BY <1>10
<1>6. CASE freq = 0
  BY <1>3, <1>5, <1>6, <1>10 DEF LevelIsTimers, FadesMeet
<1>7. CASE freq # 0
  <2>1. PICK n \in Nat \ {0} : n = SampleCount(q)
    BY <1>7, FramesHaveSamples
  <2>2. /\ level' = Level(n - 1, calc_fade_step(n))
        /\ jump' = LET gap == Level(0, calc_fade_step(n)) - level
                   IN  Higher(0, (IF gap < 0 THEN -gap ELSE gap) - calc_fade_step(n))
    BY <1>4, <2>1 DEF Voice
  <2>3. level' = IF timer'.old > 0 THEN 100 ELSE 0
    BY <1>3, <2>1, <2>2, LastSample
  <2>4. struck' = 0 => (timer'.old > 0 <=> timer'.new > 0)
    BY <1>1, <1>2, <1>3, <1>10 DEF Higher
  <2>5. LevelIsTimers'
    BY <2>3, <2>4 DEF LevelIsTimers
  <2>6. calc_fade_step(n) \in Nat \ {0}
    BY <2>1, FadeIsShort
  <2>7. FadesMeet
    <3>1. CASE struck <= 1
      BY <1>7, <2>2, <2>6, <3>1, FirstSample DEF FadesMeet
    <3>2. CASE ~(struck <= 1)
      BY <3>2 DEF FadesMeet
    <3> QED
      BY <3>1, <3>2
  <2> QED
    BY <1>3, <1>5, <2>5, <2>7
<1> QED
  BY <1>6, <1>7

\* Each step of the instructions, of the user and of the frames keeps the invariant.
LEMMA AudioStep ==
  ASSUME AudioIInv, [AudioNext]_audioVars
  PROVE  AudioIInv' /\ FadesMeet
<1> USE DEF AudioIInv
<1>1. FadesMeet
  BY EndKeepsLevel DEF FadesMeet
<1>2. ASSUME NEW duration \in 0..MaxTimer, start_voice_at(duration)
      PROVE  AudioIInv'
  <2>1. /\ UNCHANGED <<freq, base_rate, multiplier, rate, ratio, target, accumulator, span, emitted,
                       played, apart, level, jump>>
        /\ timer' = set(timer, duration) /\ struck' = Lower(struck + 1, 2)
    BY <1>2 DEF start_voice_at, countVars, paceOfSound
  <2>2. /\ timer' \in [old : 0..MaxTimer, new : 0..MaxTimer]
        /\ timer'.old = timer.new /\ timer'.new = duration /\ timer.new \in Nat
        /\ timer.old \in Nat
    BY <2>1, SetIsTimer, AudioAssumption DEF AudioTypes
  <2>3. struck' \in 0..2 /\ struck' # 0 /\ (struck' <= 1 => struck = 0)
    BY <2>1 DEF Lower, AudioTypes
  <2>4. AudioTypes'
    BY <2>1, <2>2, <2>3 DEF AudioTypes, Paces
  <2>5. AccountHolds'
    BY <2>1 DEF AccountHolds
  <2>6. LevelIsTimers'
    BY <2>1, <2>2, <2>3 DEF LevelIsTimers
  <2> QED
    BY <2>4, <2>5, <2>6
<1>3. ASSUME UNCHANGED <<freq, base_rate, multiplier, rate, ratio, target, accumulator, span,
                         emitted, played, apart, timer, struck, level>>
      PROVE  AudioIInv'
  BY <1>3 DEF AudioTypes, AccountHolds, LevelIsTimers, Paces
<1>4. ASSUME NEW size \in Sizes, NEW loop \in BOOLEAN, start_audio_track(size, loop)
      PROVE  AudioIInv'
  BY <1>3, <1>4 DEF start_audio_track, countVars, paceOfSound
<1>5. ASSUME StopTrack PROVE AudioIInv'
  BY <1>3, <1>5 DEF StopTrack, countVars, paceOfSound
<1>6. ASSUME set_spec PROVE AudioIInv'
  <2>1. /\ UNCHANGED <<base_rate, multiplier, rate, ratio, target, timer, struck, level>>
        /\ freq # 0 /\ freq' \in Freqs \cup {0} /\ accumulator' = 0 /\ span' = 0 /\ emitted' = 0
        /\ played' = 0 /\ apart' = FALSE
    BY <1>6 DEF set_spec, paceOfSound
  <2>2. AudioTypes'
    <3>1. Paces' = Paces
      BY <2>1 DEF Paces
    <3>2. 0 \in 0..Scale-1 /\ 0 \in Nat
      BY AudioAssumption
    <3> QED
      BY <2>1, <3>1, <3>2 DEF AudioTypes
  <2>3. AccountHolds'
    <3>1. ASSUME freq' # 0, target' # 0
          PROVE  /\ (emitted' * Scale + accumulator') * target' = 0
                 /\ played' * Scale = 0
                 /\ (emitted' * Scale + accumulator' + span') * target' = 0
                 /\ \E m \in Multipliers : target' = base_rate' * m /\ played' = span' * freq' * m
      <4>1. PICK m \in Multipliers : target' = base_rate' * m
        BY <2>1, <3>1 DEF AudioTypes, Paces
      <4>2. /\ freq' \in Nat /\ Scale \in Nat /\ m \in Nat
        BY <2>1, <3>1, AudioAssumption
      <4>3. target' \in Nat
        <5>1. target # 0 /\ freq # 0 /\ target' = target
          BY <2>1, <3>1
        <5>2. target \in Nat
          BY <5>1, SoundNumbers
        <5> QED
          BY <5>1, <5>2
      <4>4. /\ (0 * Scale + 0) * target' = 0 /\ 0 * Scale = 0
            /\ (0 * Scale + 0 + 0) * target' = 0 /\ 0 * freq' * m = 0
        <5>1. 0 * Scale = 0 /\ 0 * freq' = 0 /\ 0 * m = 0 /\ 0 * target' = 0
          <6>1. \A a \in Nat : 0 * a = 0
            OBVIOUS
          <6> QED
            BY ONLY <4>2, <4>3, <6>1
        <5>2. 0 * Scale + 0 = 0 /\ 0 * Scale + 0 + 0 = 0
          BY <5>1
        <5> QED
          BY <5>1, <5>2
      <4> QED
        BY <2>1, <4>1, <4>4
    <3> QED
      BY <3>1 DEF AccountHolds
  <2>4. LevelIsTimers'
    BY <2>1 DEF LevelIsTimers
  <2> QED
    BY <2>2, <2>3, <2>4
<1>7. ASSUME ChangeMultiplier PROVE AudioIInv'
  BY <1>7 DEF ChangeMultiplier, countVars, AudioTypes, AccountHolds, LevelIsTimers, Paces
<1>8. ASSUME NEW q \in Multipliers, MixFrame(q)
      PROVE  /\ UNCHANGED <<freq, base_rate, multiplier>> /\ ratio' \in Multipliers
             /\ rate' \in Paces' /\ target' \in (Paces \cup {0})'
             /\ accumulator' \in 0..Scale-1 /\ span' \in Nat /\ emitted' \in Nat
             /\ played' \in Nat /\ apart' \in BOOLEAN /\ AccountHolds'
  <2>1. /\ Count(q) /\ UNCHANGED <<freq, base_rate, multiplier>> /\ ratio' = q
        /\ rate' = base_rate * multiplier
    BY <1>8 DEF MixFrame
  <2>2. /\ accumulator' \in 0..Scale-1 /\ span' \in Nat /\ emitted' \in Nat
        /\ played' \in Nat /\ apart' \in BOOLEAN /\ target' \in Paces \cup {0}
        /\ AccountHolds'
    BY <2>1, CountKeepsAccount
  <2>3. Paces' = Paces /\ rate' \in Paces
    BY <2>1 DEF AudioTypes, Paces
  <2> QED
    BY <2>1, <2>2, <2>3
<1>9. ASSUME EndFrame PROVE AudioIInv'
  <2>1. PICK q \in Multipliers : MixFrame(q)
    BY <1>9 DEF EndFrame
  <2>2. /\ timer' \in [old : 0..MaxTimer, new : 0..MaxTimer] /\ struck' \in 0..2
        /\ LevelIsTimers'
    BY <1>9, EndKeepsLevel
  <2> QED
    BY <1>8, <2>1, <2>2 DEF AudioTypes
<1>11. ASSUME PausedFrame PROVE AudioIInv'
  <2>1. PICK q \in Multipliers : MixFrame(q)
    BY <1>11 DEF PausedFrame
  <2>2. UNCHANGED <<timer, struck, level>>
    BY <1>11 DEF PausedFrame
  <2> QED
    BY <1>8, <2>1, <2>2 DEF AudioTypes, LevelIsTimers
<1>10. ASSUME UNCHANGED audioVars PROVE AudioIInv'
  BY <1>3, <1>10 DEF audioVars
<1> QED
  BY <1>1, <1>2, <1>4, <1>5, <1>6, <1>7, <1>9, <1>10, <1>11 DEF AudioNext

\* For any frequencies, rates, multipliers and units of the accumulator: the samples never
\* drift from what the stream plays in the frames, and a voice that is set once in a frame
\* fades without a click.
THEOREM SoundKeepsTime == AudioSpec => SoundIsSteady
<1>1. AudioIInv /\ [AudioNext]_audioVars => AudioIInv'
  BY AudioStep
<1>2. AudioIInv => SamplesKeepTime
  BY AccountIsTime DEF AudioIInv
<1>3. AudioIInv /\ SamplesKeepTime' /\ [AudioNext]_audioVars
      => [SamplesKeepTime' /\ FadesMeet]_audioVars
  BY AudioStep
<1> QED
  BY <1>1, <1>2, <1>3, AudioInitial, PTL DEF AudioSpec, SoundIsSteady

-----------------------------------------------------------------------------
(* The colours                                                             *)

\* A product of two bytes is a number that no later fact needs to take apart.
LEMMA Product ==
  ASSUME NEW x \in Byte, NEW y \in Byte
  PROVE  /\ x * y \in Int /\ 0 <= x * y /\ x * y <= 65025
         /\ x * (257 * y) = 257 * (x * y)
         /\ x * y <= 255 * x /\ x * y <= 255 * y
<1>1. x \in Nat /\ y \in Nat /\ 0 <= x /\ x <= 255 /\ 0 <= y /\ y <= 255
  BY DEF Byte
<1>2. x * y >= 0 /\ x * (255 - y) >= 0 /\ (255 - x) * y >= 0
  BY ONLY <1>1, SMTT(30)
<1>3. x * (255 - y) = 255 * x - x * y /\ (255 - x) * y = 255 * y - x * y
  BY ONLY <1>1, SMTT(30)
<1>4. x * y \in Int
  BY <1>1
<1>5. x * (257 * y) = 257 * (x * y)
  BY ONLY <1>1, SMTT(30)
<1> QED BY ONLY <1>1, <1>2, <1>3, <1>4, <1>5

\* The division by a power of two, of a number that a product of bytes reaches.
LEMMA Shifted ==
  ASSUME NEW n \in Nat, n <= 16744321
  PROVE  /\ n \div 65536 \in Int
         /\ 65536 * (n \div 65536) <= n /\ n < 65536 * (n \div 65536) + 65536
OBVIOUS

\* What the shift leaves is the product, rounded to the nearest.
LEMMA Rounded ==
  ASSUME NEW p \in Int, NEW q \in Int, 0 <= p, p <= 65025,
         65536 * q <= 257 * p + 32896, 257 * p + 32896 < 65536 * q + 65536
  PROVE  /\ 0 <= q /\ q <= 255 /\ q % 256 = q
         /\ 255 * q - p <= 127 /\ p - 255 * q <= 127
<1>1. 0 <= q /\ q <= 255
  OBVIOUS
<1>2. q % 256 = q
  BY ONLY <1>1, q \in Int
<1> QED BY <1>1, <1>2

\* The multiplication of bytes without a division.
LEMMA MulRounds ==
  ASSUME NEW x \in Byte, NEW y \in Byte
  PROVE  /\ fixed_mul8(x, y) \in Int /\ 0 <= fixed_mul8(x, y) /\ fixed_mul8(x, y) <= 255
         /\ 255 * fixed_mul8(x, y) - x * y <= 127
         /\ x * y - 255 * fixed_mul8(x, y) <= 127
<1> DEFINE p == x * y
           n == 257 * p + 32896
           q == n \div 65536
<1>1. p \in Int /\ 0 <= p /\ p <= 65025 /\ x * (257 * y) = 257 * p
  BY Product
<1>2. fixed_mul8(x, y) = q % 256
  BY <1>1 DEF fixed_mul8
<1> HIDE DEF p
<1>3. n \in Nat /\ n <= 16744321
  BY <1>1
<1> HIDE DEF n
<1>4. q \in Int /\ 65536 * q <= n /\ n < 65536 * q + 65536
  BY <1>3, Shifted
<1> HIDE DEF q
<1>5. 0 <= q /\ q <= 255 /\ q % 256 = q /\ 255 * q - p <= 127 /\ p - 255 * q <= 127
  <2>1. 65536 * q <= 257 * p + 32896 /\ 257 * p + 32896 < 65536 * q + 65536
    BY <1>4 DEF n
  <2> QED BY ONLY <1>1, <1>4, <2>1, Rounded
<1> QED BY <1>2, <1>4, <1>5 DEF p

\* The bytes as numbers.
LEMMA Bytes == \A x : x \in Byte <=> x \in Int /\ 0 <= x /\ x <= 255
BY DEF Byte

\* It is monotone, and not above its factors.
LEMMA MulMonotone ==
  ASSUME NEW x \in Byte, NEW y \in Byte, NEW w \in Byte, x <= y
  PROVE  fixed_mul8(x, w) <= fixed_mul8(y, w)
<1> DEFINE p == x * w
           q == y * w
           m == fixed_mul8(x, w)
           n == fixed_mul8(y, w)
<1>1. p \in Int /\ q \in Int
  BY Product
<1>2. p <= q
  <2>1. x \in Int /\ y \in Int /\ w \in Int /\ 0 <= y - x /\ 0 <= w
    BY DEF Byte
  <2>2. (y - x) * w >= 0 /\ (y - x) * w = y * w - x * w
    BY ONLY <2>1, SMTT(30)
  <2> QED BY ONLY <1>1, <2>2
<1>3. /\ m \in Int /\ 255 * m - p <= 127 /\ p - 255 * m <= 127
      /\ n \in Int /\ 255 * n - q <= 127 /\ q - 255 * n <= 127
  BY MulRounds
<1> HIDE DEF p, q, m, n
<1>4. m <= n
  BY ONLY <1>1, <1>2, <1>3
<1> QED BY <1>4 DEF m, n

LEMMA MulLessens ==
  ASSUME NEW x \in Byte, NEW y \in Byte
  PROVE  fixed_mul8(x, y) <= x /\ fixed_mul8(x, y) <= y
<1> DEFINE p == x * y
           m == fixed_mul8(x, y)
<1>1. p \in Int /\ p <= 255 * x /\ p <= 255 * y /\ x \in Int /\ y \in Int
  BY Product, Bytes
<1>2. m \in Int /\ 255 * m - p <= 127
  BY MulRounds
<1> HIDE DEF p, m
<1>3. m <= x /\ m <= y
  BY ONLY <1>1, <1>2
<1> QED BY <1>3 DEF m

\* A weight and its complement share a value without a loss.
LEMMA MulComplement ==
  ASSUME NEW x \in Byte, NEW w \in Byte
  PROVE  /\ 255 - w \in Byte
         /\ fixed_mul8(x, 255 - w) = x - fixed_mul8(x, w)
<1> DEFINE p == x * w
           r == x * (255 - w)
           m == fixed_mul8(x, w)
           n == fixed_mul8(x, 255 - w)
<1>1. 255 - w \in Byte /\ x \in Int /\ w \in Int
  BY DEF Byte
<1>2. r = 255 * x - p
  BY ONLY <1>1, SMTT(30)
<1>3. p \in Int /\ r \in Int
  BY <1>1, Product
<1>4. /\ m \in Int /\ 255 * m - p <= 127 /\ p - 255 * m <= 127
      /\ n \in Int /\ 255 * n - r <= 127 /\ r - 255 * n <= 127
  BY <1>1, MulRounds
<1> HIDE DEF p, r, m, n
<1>5. n = x - m
  BY ONLY <1>1, <1>2, <1>3, <1>4
<1> QED BY <1>1, <1>5 DEF m, n

\* What is weighted lies between what is mixed.
LEMMA LerpBetween ==
  ASSUME NEW x \in Byte, NEW y \in Byte, NEW w \in Byte
  PROVE  fixed_lerp8(x, y, w) \in Byte /\ Between(x, fixed_lerp8(x, y, w), y)
<1> DEFINE m == fixed_mul8(x, w)
           n == fixed_mul8(y, w)
           s == (x - m) + n
<1>1. /\ 255 - w \in Byte
      /\ fixed_mul8(x, 255 - w) = x - m /\ fixed_mul8(y, 255 - w) = y - n
  BY MulComplement
<1>2. /\ m \in Int /\ 0 <= m /\ n \in Int /\ 0 <= n
      /\ 0 <= x - m /\ 0 <= y - n
  BY <1>1, MulRounds
<1>3. (x <= y => m <= n /\ x - m <= y - n) /\ (y <= x => n <= m /\ y - n <= x - m)
  BY <1>1, MulMonotone
<1>4. x \in Int /\ x <= 255 /\ y \in Int /\ y <= 255
  BY Bytes
<1>5. fixed_lerp8(x, y, w) = s % 256
  BY <1>1 DEF fixed_lerp8, MAX
<1> HIDE DEF m, n
<1>6. s \in Int /\ 0 <= s /\ s <= 255 /\ Between(x, s, y)
  BY ONLY <1>2, <1>3, <1>4 DEF Between
<1> HIDE DEF s
<1>7. s % 256 = s
  BY ONLY <1>6
<1> QED BY <1>5, <1>6, <1>7, Bytes

\* A quotient of numbers that are not negative.
LEMMA Divides ==
  ASSUME NEW a \in Int, NEW n \in Int, 0 <= a, 0 < n
  PROVE  /\ a \div n \in Int /\ 0 <= a \div n
         /\ n * (a \div n) <= a /\ a < n * (a \div n) + n
OBVIOUS

\* A dodge divides by what the source leaves of the byte: it is not below what it dodges.
LEMMA DodgeLightens ==
  ASSUME NEW s \in Int, NEW d \in Int, 0 <= s, s < 255, 0 <= d, d <= 255
  PROVE  (d * 255) \div (255 - s) \in Int /\ d <= (d * 255) \div (255 - s)
<1> DEFINE n == 255 - s
           q == (d * 255) \div n
<1>1. n \in Int /\ 0 < n /\ n <= 255
  OBVIOUS
<1>2. q \in Int /\ d * 255 < n * q + n /\ 0 <= q
  <2>1. d * 255 \in Int /\ 0 <= d * 255
    OBVIOUS
  <2> HIDE DEF n
  <2> QED BY ONLY <1>1, <2>1, Divides
<1> HIDE DEF n, q
<1>3. d <= q
  <2> SUFFICES ASSUME q + 1 <= d PROVE FALSE
    BY <1>2
  <2>1. n * (q + 1) <= n * d
    <3>1. 0 <= n * (d - (q + 1)) /\ n * (d - (q + 1)) = n * d - n * (q + 1)
      BY <1>1, <1>2, SMTT(30)
    <3> QED BY <1>1, <1>2, <3>1
  <2>2. n * (q + 1) = n * q + n
    BY <1>1, <1>2, SMTT(30)
  <2>3. n * d <= d * 255
    <3>1. 0 <= (255 - n) * d /\ (255 - n) * d = d * 255 - n * d
      BY <1>1, SMTT(30)
    <3> QED BY <1>1, <3>1
  <2> QED BY ONLY <1>1, <1>2, <2>1, <2>2, <2>3
<1> QED BY <1>2, <1>3 DEF n, q

\* A burn divides what is above the complement of the source by the source: it is not above
\* what it burns.
LEMMA BurnDarkens ==
  ASSUME NEW s \in Int, NEW d \in Int, 0 < s, s <= 255, 0 <= d, d <= 255,
         NEW g \in Int, 0 <= g, g = s + d - 255 \/ g = 0
  PROVE  (g * 255) \div s \in Int /\ 0 <= (g * 255) \div s /\ (g * 255) \div s <= d
<1> DEFINE q == (g * 255) \div s
<1>1. q \in Int /\ 0 <= q /\ s * q <= g * 255
  <2>1. g * 255 \in Int /\ 0 <= g * 255
    OBVIOUS
  <2> QED BY ONLY <2>1, s \in Int, 0 < s, Divides
<1>2. g * 255 <= s * d
  <2>1. CASE g = 0
    <3>1. 0 <= s * d
      BY SMTT(30)
    <3> QED BY <2>1, <3>1
  <2>2. CASE g = s + d - 255
    <3>1. 0 <= (255 - s) * (255 - d) /\ (255 - s) * (255 - d) = 65025 - 255 * s - 255 * d + s * d
      BY SMTT(30)
    <3> QED BY <2>2, <3>1
  <2> QED BY <2>1, <2>2
<1> HIDE DEF q
<1>3. q <= d
  <2> SUFFICES ASSUME d + 1 <= q PROVE FALSE
    BY <1>1
  <2>1. 0 <= s * (q - (d + 1)) /\ s * (q - (d + 1)) = s * q - (s * d + s)
    BY <1>1, SMTT(30)
  <2> QED BY <1>1, <1>2, <2>1
<1> QED BY <1>1, <1>3 DEF q

\* A conversion to a byte.
LEMMA Wrapped == ASSUME NEW n \in Int PROVE n % 256 \in Byte
BY DEF Byte

\* Glow and Reflect.
LEMMA GlowIsByte == ASSUME NEW s \in Byte, NEW d \in Byte PROVE Glow(s, d) \in Byte
<1> DEFINE a == fixed_mul8(s, d) * 255
           n == 255 - d
<1>1. CASE d = 255
  BY <1>1 DEF Glow, MAX, Byte
<1>2. CASE d # 255
  <2>1. a \in Int /\ 0 <= a
    BY MulRounds
  <2>2. n \in Int /\ 0 < n /\ x8(d) = n
    BY <1>2 DEF x8, Byte, MAX
  <2>3. Glow(s, d) = IF a \div n < 255 THEN a \div n ELSE 255
    BY <1>2, <2>2 DEF Glow, Lesser, MAX
  <2> HIDE DEF a, n
  <2>4. a \div n \in Int /\ 0 <= a \div n
    BY <2>1, <2>2, Divides
  <2> QED BY <2>3, <2>4, Bytes
<1> QED BY <1>1, <1>2

\* A mode makes a byte of two; those that lighten are not below the pixel that is drawn over,
\* and those that darken not above it.
LEMMA ModesDoAsNamed ==
  ASSUME NEW how \in BlendMode, NEW s \in Byte, NEW d \in Byte
  PROVE  /\ Impl(how, s, d) \in Byte
         /\ how \in Lightening => Impl(how, s, d) >= d
         /\ how \in Darkening => Impl(how, s, d) <= d
<1>1. s \in Int /\ 0 <= s /\ s <= 255 /\ d \in Int /\ 0 <= d /\ d <= 255
  BY Bytes
<1>2. \A x \in Byte : x8(x) = 255 - x /\ 255 - x \in Byte
  BY DEF x8, Byte, MAX
<1>3. \A x \in Int : x8(x) \in Byte
  BY DEF x8, Byte, MAX
<1> DEFINE v == Impl(how, s, d)
<1>4. CASE how \in {"None", "Lighten", "LinearDodge", "Darken", "LinearBurn"}
  <2>1. /\ Lesser(s, d) \in Byte /\ Lesser(s, d) <= d
        /\ Greater(s, d) \in Byte /\ Greater(s, d) >= d
        /\ Lesser(s + d, 255) \in Byte /\ Lesser(s + d, 255) >= d
        /\ Greater(s + d - 255, 0) \in Byte /\ Greater(s + d - 255, 0) <= d
    BY <1>1, Bytes DEF Lesser, Greater
  <2>2. CASE how = "None"
    BY <2>2 DEF Impl, Lightening, Darkening
  <2>3. CASE how = "Lighten"
    BY <2>1, <2>3 DEF Impl, Darkening
  <2>4. CASE how = "LinearDodge"
    BY <2>1, <2>4 DEF Impl, Darkening, MAX
  <2>5. CASE how = "Darken"
    BY <2>1, <2>5 DEF Impl, Lightening
  <2>6. CASE how = "LinearBurn"
    BY <2>1, <2>6 DEF Impl, Lightening, MAX
  <2> QED BY <1>4, <2>2, <2>3, <2>4, <2>5, <2>6
<1>5. CASE how \in {"Average", "Difference", "Negation"}
  <2>1. (s + d + 1) \div 2 \in Byte
    BY <1>1, Bytes
  <2>2. Magnitude(s - d) \in Byte /\ Magnitude(255 - (s + d)) \in Int
    BY <1>1, Bytes DEF Magnitude
  <2> QED BY <1>3, <1>5, <2>1, <2>2 DEF Impl, Lightening, Darkening, MAX
<1>6. CASE how = "Screen"
  <2> DEFINE m == fixed_mul8(255 - s, 255 - d)
  <2>1. v = x8(m)
    BY <1>2, <1>6 DEF Impl
  <2>2. m \in Byte /\ m <= 255 - d
    <3>1. 255 - s \in Byte /\ 255 - d \in Byte
      BY <1>2
    <3> QED BY <3>1, MulRounds, MulLessens, Bytes
  <2> HIDE DEF m
  <2>3. v = 255 - m /\ v \in Byte
    BY <1>2, <2>1, <2>2
  <2>4. 255 - m >= d
    BY ONLY <1>1, <2>2, Bytes
  <2> QED BY <1>6, <2>3, <2>4 DEF Darkening
<1>7. CASE how = "ColorDodge"
  <2>1. CASE s = 255
    BY <1>1, <1>7, <2>1, Bytes DEF Impl, MAX, Darkening
  <2>2. CASE s # 255
    <3> DEFINE q == (d * 255) \div (255 - s)
    <3>1. v = IF q < 255 THEN q ELSE 255
      BY <1>2, <1>7, <2>2 DEF Impl, Lesser, MAX
    <3>2. q \in Int /\ d <= q
      BY <1>1, <2>2, DodgeLightens
    <3> HIDE DEF q, v
    <3>3. v \in Int /\ 0 <= v /\ v <= 255 /\ v >= d
      BY ONLY <1>1, <3>1, <3>2
    <3> QED BY <1>7, <3>3, Bytes DEF v, Darkening
  <2> QED BY <2>1, <2>2
<1>8. CASE how = "Multiply"
  <2>1. v = fixed_mul8(s, d)
    BY <1>8 DEF Impl
  <2>2. fixed_mul8(s, d) \in Byte /\ fixed_mul8(s, d) <= d
    BY MulRounds, MulLessens, Bytes
  <2> QED BY <1>8, <2>1, <2>2 DEF Lightening
<1>9. CASE how = "ColorBurn"
  <2>1. CASE s = 0
    BY <1>1, <1>9, <2>1, Bytes DEF Impl, Lightening
  <2>2. CASE s # 0
    <3> DEFINE g == Greater(s + d - 255, 0)
               q == (g * 255) \div s
    <3>1. v = q
      BY <1>9, <2>2 DEF Impl, MAX
    <3>2. g \in Int /\ 0 <= g /\ (g = s + d - 255 \/ g = 0)
      BY <1>1 DEF Greater
    <3> HIDE DEF g
    <3>3. q \in Int /\ 0 <= q /\ q <= d
      BY <1>1, <2>2, <3>2, BurnDarkens
    <3> HIDE DEF q
    <3>4. q \in Byte
      BY ONLY <1>1, <3>3, Bytes
    <3> QED BY <1>9, <3>1, <3>3, <3>4 DEF Lightening
  <2> QED BY <2>1, <2>2
<1>10. CASE how = "Overlay"
  <2>1. (fixed_mul8(s, d) * 2) % 256 \in Byte
    <3>1. fixed_mul8(s, d) * 2 \in Int
      BY MulRounds
    <3> QED BY <3>1, Wrapped
  <2>2. x8(fixed_mul8(x8(s), x8(d)) * 2) \in Byte
    <3>1. fixed_mul8(255 - s, 255 - d) \in Int
      BY <1>2, MulRounds
    <3> QED BY <1>2, <1>3, <3>1
  <2>3. v \in Byte
    BY <1>10, <2>1, <2>2 DEF Impl
  <2> QED BY <1>10, <2>3 DEF Lightening, Darkening
<1>11. CASE how \in {"Glow", "Reflect"}
  BY <1>11, GlowIsByte DEF Impl, Lightening, Darkening
<1> QED BY <1>4, <1>5, <1>6, <1>7, <1>8, <1>9, <1>10, <1>11 DEF BlendMode, Lightening, Darkening

\* What is blended by weight lies between what is drawn and what it is drawn over; two that
\* are opaque leave an opaque pixel.
LEMMA WeightedBetween ==
  ASSUME NEW src, NEW dst, NEW w \in Byte,
         src.c \in Byte, src.a \in Byte, dst.c \in Byte, dst.a \in Byte
  PROVE  /\ Between(dst.c, weighted_alpha_blend(src, dst, w).c, src.c)
         /\ Between(dst.a, weighted_alpha_blend(src, dst, w).a, src.a)
         /\ weighted_alpha_blend(src, dst, w).c \in Byte
         /\ weighted_alpha_blend(src, dst, w).a \in Byte
<1>1. \A x, y \in Byte : Between(x, y, y) /\ Between(x, x, y)
  BY Bytes DEF Between
<1>2. CASE w = Opaque_A
  BY <1>1, <1>2 DEF weighted_alpha_blend
<1>3. CASE w = Transparent_A
  BY <1>1, <1>3 DEF weighted_alpha_blend, Opaque_A, Transparent_A
<1>4. CASE w # Opaque_A /\ w # Transparent_A
  BY <1>4, LerpBetween DEF weighted_alpha_blend
<1> QED BY <1>2, <1>3, <1>4

\* One mix.
LEMMA MixStep == Mix => MixIsBetween'
<1> SUFFICES ASSUME Mix PROVE MixIsBetween'
  OBVIOUS
<1>1. PICK shade \in Levels : paper' = [c |-> shade, a |-> Opaque_A]
  BY DEF Mix
<1>2. paper'.c \in Byte /\ paper'.a = Opaque_A /\ Opaque_A \in Byte
  <2>1. shade \in Byte
    BY LevelsAssumption
  <2>2. Opaque_A \in Byte
    BY DEF Opaque_A, Byte
  <2> QED BY ONLY <1>1, <2>1, <2>2
<1>3. \A src \in Ink : src.c \in Byte /\ src.a \in Byte
  BY LevelsAssumption DEF Ink
<1>4. ASSUME NEW how \in BlendMode, NEW src \in Ink, NEW w \in Weights, Composite(how, src, w)
      PROVE  MixIsBetween'
  <2>1. w \in Byte
    BY LevelsAssumption
  <2>2. blend' = how /\ ink' = src /\ weight' = w /\ mixed' = composite_blend(how, src, paper', w)
    BY <1>4 DEF Composite
  <2>3. how \notin {"new", "pixel", "premul", "alpha"}
    BY DEF BlendMode, Lightening, Darkening
  <2> DEFINE layer == channel_blend(how, src, paper')
             v == Impl(how, src.c, paper'.c)
  <2>4. v \in Byte /\ (how \in Lightening => v >= paper'.c) /\ (how \in Darkening => v <= paper'.c)
    BY <1>2, <1>3, ModesDoAsNamed
  <2>5. layer.c = v /\ layer.a = Opaque_A
    BY DEF channel_blend
  <2>6. mixed'.a = Opaque_A /\ mixed'.c \in Byte /\ Between(paper'.c, mixed'.c, v)
    <3>1. CASE fixed_mul8(src.a, w) = 0
      <4>1. mixed' = paper'
        BY <2>2, <3>1 DEF composite_blend
      <4>2. Between(paper'.c, paper'.c, v)
        BY ONLY <1>2, <2>4, Bytes DEF Between
      <4> QED BY <1>2, <4>1, <4>2
    <3>2. CASE fixed_mul8(src.a, w) # 0
      <4>1. mixed' = weighted_alpha_blend(layer, paper', fixed_mul8(src.a, w))
        BY <2>2, <3>2 DEF composite_blend
      <4>2. fixed_mul8(src.a, w) \in Byte
        BY <1>3, <2>1, MulRounds, Bytes
      <4> HIDE DEF layer, v
      <4>3. /\ Between(paper'.c, mixed'.c, layer.c) /\ Between(paper'.a, mixed'.a, layer.a)
            /\ mixed'.c \in Byte /\ mixed'.a \in Byte
        <5>1. layer.c \in Byte /\ layer.a \in Byte /\ paper'.c \in Byte /\ paper'.a \in Byte
          BY <1>2, <2>4, <2>5
        <5> QED BY ONLY <4>1, <4>2, <5>1, WeightedBetween
      <4>4. \A x \in Byte : Between(Opaque_A, x, Opaque_A) => x = Opaque_A
        BY Bytes DEF Between, Opaque_A
      <4> QED BY <1>2, <2>5, <4>3, <4>4
    <3> QED BY <3>1, <3>2
  <2> HIDE DEF v
  <2>7. (how \in Lightening => mixed'.c >= paper'.c) /\ (how \in Darkening => mixed'.c <= paper'.c)
    <3>1. paper'.c \in Int /\ mixed'.c \in Int /\ v \in Int
      BY <1>2, <2>4, <2>6, Bytes
    <3> QED BY ONLY <2>4, <2>6, <3>1 DEF Between
  <2> QED BY <2>2, <2>3, <2>6, <2>7 DEF MixIsBetween, v
<1>5. ASSUME NEW src \in Ink, Flush(src) PROVE MixIsBetween'
  <2>1. blend' = "alpha" /\ ink' = src /\ mixed' = weighted_alpha_blend(src, paper', src.a)
    BY <1>5 DEF Flush, alpha_blend
  <2>2. Between(paper'.c, mixed'.c, ink'.c)
    BY <1>2, <1>3, <2>1, WeightedBetween
  <2> QED BY <2>1, <2>2 DEF MixIsBetween
<1>6. ASSUME NEW w \in Byte, Fade(w) PROVE MixIsBetween'
  <2>1. blend' = "premul" /\ weight' = w /\ mixed'.c = fixed_mul8(paper'.c, w)
    BY <1>6 DEF Fade, premul
  <2> DEFINE m == fixed_mul8(paper'.c, w)
             p == paper'.c * w
  <2>2. m \in Int /\ 255 * m - p <= 127 /\ p - 255 * m <= 127
    BY <1>2, MulRounds
  <2>3. p \in Int
    BY <1>2, Product
  <2>4. Magnitude(MAX * mixed'.c - paper'.c * weight') = Magnitude(255 * m - p)
    BY <2>1 DEF MAX
  <2> HIDE DEF m, p
  <2>5. Magnitude(255 * m - p) <= 127
    BY ONLY <2>2, <2>3 DEF Magnitude
  <2> QED BY <2>1, <2>4, <2>5 DEF MixIsBetween
<1> QED BY <1>4, <1>5, <1>6 DEF Mix

\* How long a pixel is dark is in its low bits; where it does not fade, it has none.
PixelTypes ==
  /\ pixel \in 0..15 /\ dark \in 0..4 /\ trails \in BOOLEAN /\ on \in BOOLEAN
  /\ shows \in {"CHIP8_MODERN", "CHIP8E", "CHIP8X", "SCHIP_LEGACY", "SCHIP_MODERN", "MEGACHIP"}
  /\ on <=> pixel >= 8

LowBits == IF pixel >= 8 THEN pixel - 8 ELSE pixel

\* MEGACHIP has no trails, and without them only CHIP8_MODERN changes a pixel that it shows.
Lasting == shows = "MEGACHIP" \/ (shows # "CHIP8_MODERN" /\ ~trails)

DarkIsInPixel ==
  /\ dark = 1 => LowBits <= 3
  /\ dark = 2 => LowBits <= 1
  /\ dark >= 3 => LowBits = 0
  /\ Lasting => LowBits = 0

\* The inductive invariant of the colours.
ColorIInv == PixelTypes /\ DarkIsInPixel /\ PixelFades /\ MixIsBetween

\* A frame of the cores whose pixels fade, and of the others.
LEMMA Pushed ==
  ASSUME PixelTypes
  PROVE  /\ push(pixel).left = IF Lasting THEN pixel ELSE Faded(pixel)
         /\ trails => push(pixel).shown = Weighted(pixel)
         /\ ~trails => \/ push(pixel).shown = Full(pixel >= 8)
                       \/ shows = "CHIP8X" /\ push(pixel).shown = Full(pixel # 0)
<1> USE DEF PixelTypes, push, Lasting
<1>1. CASE shows = "CHIP8_MODERN"
  BY <1>1 DEF CHIP8_MODERN_push
<1>2. CASE shows = "CHIP8E"
  BY <1>2 DEF CHIP8E_push
<1>3. CASE shows = "CHIP8X"
  BY <1>3 DEF CHIP8X_push
<1>4. CASE shows = "SCHIP_LEGACY"
  BY <1>4 DEF SCHIP_LEGACY_push
<1>5. CASE shows = "SCHIP_MODERN"
  BY <1>5 DEF SCHIP_MODERN_push
<1>6. CASE shows = "MEGACHIP"
  BY <1>6 DEF MEGACHIP_push
<1> QED BY <1>1, <1>2, <1>3, <1>4, <1>5, <1>6

\* The bits of a pixel after a frame that fades it, and the strength that each has.
LEMMA FadedPixel ==
  ASSUME NEW p \in 0..15
  PROVE  /\ Faded(p) \in 0..15
         /\ p >= 8 => Faded(p) >= 8 /\ Weighted(p) = 255
         /\ p < 8 => Faded(p) <= 3 /\ Weighted(p) \in {0, 55, 103, 231}
         /\ p <= 3 => Faded(p) <= 1 /\ Weighted(p) <= 103
         /\ p <= 1 => Faded(p) = 0 /\ Weighted(p) <= 55
         /\ p = 0 => Weighted(p) = 0
<1>1. c_bit_weight[p] = CASE p = 1 -> 55 [] p \in 2..3 -> 103 [] p \in 4..7 -> 231 [] OTHER -> 255
  BY DEF c_bit_weight, MAX
<1>2. Weighted(p) = IF p = 0 THEN 0 ELSE IF p >= 8 THEN 255 ELSE IF p = 1 THEN 55
                    ELSE IF p <= 3 THEN 103 ELSE 231
  BY <1>1 DEF Weighted
<1> QED BY <1>2 DEF Faded

\* The pixel of a frame.
LEMMA PushStep == ColorIInv /\ PushPixel /\ UNCHANGED <<trails, shows>> =>
                    PixelTypes' /\ DarkIsInPixel' /\ PixelFades'
<1> SUFFICES ASSUME ColorIInv, PushPixel, UNCHANGED <<trails, shows>>
             PROVE  PixelTypes' /\ DarkIsInPixel' /\ PixelFades'
  OBVIOUS
<1> USE DEF ColorIInv
<1>1. /\ bright' = push(pixel).shown /\ pixel' = push(pixel).left
      /\ dark' = (IF on THEN 0 ELSE Lesser(dark + 1, 4)) /\ on' = on
  BY DEF PushPixel
<1>2. /\ pixel \in 0..15 /\ dark \in 0..4 /\ (on <=> pixel >= 8)
      /\ trails' = trails /\ shows' = shows /\ trails \in BOOLEAN
  BY DEF PixelTypes
<1>3. /\ Faded(pixel) \in 0..15
      /\ pixel >= 8 => Faded(pixel) >= 8 /\ Weighted(pixel) = 255
      /\ pixel < 8 => Faded(pixel) <= 3 /\ Weighted(pixel) \in {0, 55, 103, 231}
      /\ pixel <= 3 => Faded(pixel) <= 1 /\ Weighted(pixel) <= 103
      /\ pixel <= 1 => Faded(pixel) = 0 /\ Weighted(pixel) <= 55
      /\ pixel = 0 => Weighted(pixel) = 0
  BY <1>2, FadedPixel
<1>4. dark' \in 0..4 /\ (on <=> dark' = 0) /\ (~on => dark' = IF dark < 4 THEN dark + 1 ELSE 4)
  BY <1>1, <1>2 DEF Lesser
<1>5. ~on => LowBits = pixel
  BY <1>2 DEF LowBits
<1>6. ~on /\ dark' = 2 => pixel <= 3
  BY <1>2, <1>4, <1>5 DEF DarkIsInPixel
<1>7. ~on /\ dark' = 3 => pixel <= 1
  BY <1>2, <1>4, <1>5 DEF DarkIsInPixel
<1>8. ~on /\ dark' = 4 => pixel = 0
  BY <1>2, <1>4, <1>5 DEF DarkIsInPixel
<1>9. ASSUME pixel' = Faded(pixel), ~Lasting PROVE PixelTypes' /\ DarkIsInPixel'
  <2>1. pixel' \in 0..15 /\ (on' <=> pixel' >= 8)
    BY <1>1, <1>2, <1>3, <1>9
  <2>2. PixelTypes'
    BY <1>1, <1>2, <1>4, <2>1 DEF PixelTypes
  <2>3. dark' \in 1..4 => LowBits' = pixel'
    BY <1>1, <1>4, <2>1 DEF LowBits
  <2>4. /\ dark' = 1 => LowBits' <= 3
        /\ dark' = 2 => LowBits' <= 1
        /\ dark' >= 3 => LowBits' = 0
    BY <1>2, <1>3, <1>4, <1>6, <1>7, <1>8, <1>9, <2>3
  <2>5. ~Lasting'
    BY <1>2, <1>9 DEF Lasting
  <2> QED BY <2>2, <2>4, <2>5 DEF DarkIsInPixel
<1>10. ASSUME pixel' = pixel, Lasting PROVE PixelTypes' /\ DarkIsInPixel'
  <2>1. PixelTypes'
    BY <1>1, <1>2, <1>4, <1>10 DEF PixelTypes
  <2>2. LowBits' = 0
    BY <1>10 DEF DarkIsInPixel, LowBits
  <2> QED BY <1>4, <2>1, <2>2 DEF DarkIsInPixel
<1>11. PixelFades'
  <2>1. CASE on
    <3>1. dark' = 0 /\ pixel >= 8 /\ pixel # 0
      BY <1>2, <1>4, <2>1
    <3>2. bright' = MAX
      BY <1>1, <1>2, <1>3, <3>1, Pushed DEF Full, MAX
    <3> QED BY <3>1, <3>2 DEF PixelFades
  <2>2. CASE ~on /\ trails
    <3>1. bright' = Weighted(pixel) /\ pixel < 8
      BY <1>1, <1>2, <2>2, Pushed
    <3>2. bright' \in {0, 55, 103, 231}
      BY <1>2, <1>3, <3>1
    <3>3. CASE dark' = 1
      <4>1. bright' * dark' <= 255 /\ dark' # 0 /\ ~(dark' > 3)
        <5>1. \A b \in {0, 55, 103, 231}, d \in {1} : b * d <= 255 /\ d # 0 /\ ~(d > 3)
          OBVIOUS
        <5> QED BY ONLY <3>2, <3>3, <5>1
      <4>2. trails'
        BY <1>2, <2>2
      <4> QED BY <4>1, <4>2 DEF PixelFades, MAX
    <3>4. CASE dark' = 2
      BY <1>2, <1>3, <1>6, <2>2, <3>1, <3>2, <3>4 DEF PixelFades, MAX
    <3>5. CASE dark' = 3
      BY <1>2, <1>3, <1>7, <2>2, <3>1, <3>2, <3>5 DEF PixelFades, MAX
    <3>6. CASE dark' = 4
      BY <1>2, <1>3, <1>8, <2>2, <3>1, <3>2, <3>6 DEF PixelFades, MAX
    <3> QED BY <1>4, <2>2, <3>3, <3>4, <3>5, <3>6
  <2>3. CASE ~on /\ ~trails
    <3>1. bright' = 0
      <4>1. CASE bright' = Full(pixel >= 8)
        BY <1>2, <2>3, <4>1 DEF Full
      <4>2. CASE shows = "CHIP8X" /\ bright' = Full(pixel # 0)
        <5>1. pixel = 0
          BY <1>5, <2>3, <4>2 DEF DarkIsInPixel, Lasting
        <5> QED BY <4>2, <5>1 DEF Full
      <4> QED BY <1>1, <2>3, <4>1, <4>2, Pushed
    <3>2. dark' # 0 /\ bright' * dark' <= 255
      <4>1. dark' \in 0..4 /\ dark' # 0
        BY <1>4, <2>3
      <4>2. \A d \in 0..4 : 0 * d <= 255
        OBVIOUS
      <4> QED BY ONLY <3>1, <4>1, <4>2
    <3> QED BY <3>1, <3>2 DEF PixelFades, MAX
  <2> QED BY <1>2, <2>1, <2>2, <2>3
<1> QED BY <1>1, <1>9, <1>10, <1>11, Pushed

\* A sprite and a scroll change the lit bit.
LEMMA LitStep ==
  ASSUME ColorIInv, Flip \/ Erase, UNCHANGED <<trails, shows>>
  PROVE  PixelTypes' /\ DarkIsInPixel' /\ PixelFades'
<1> USE DEF ColorIInv
<1>1. pixel \in 0..15 /\ (on <=> pixel >= 8) /\ on \in BOOLEAN
  BY DEF PixelTypes
<1>2. bright' = bright /\ dark' = dark /\ trails' = trails /\ shows' = shows
  BY DEF Flip, Erase
<1>3. /\ pixel' \in 0..15 /\ (on' <=> pixel' >= 8)
      /\ LowBits' = LowBits \/ LowBits' = 0
  <2>1. CASE Flip
    <3>1. pixel' = (IF pixel >= 8 THEN pixel - 8 ELSE pixel + 8) /\ on' = ~on
      BY <2>1 DEF Flip
    <3>2. pixel' \in 0..15 /\ (pixel' >= 8 <=> ~(pixel >= 8)) /\ LowBits' = LowBits
      BY <1>1, <3>1 DEF LowBits
    <3> QED BY <1>1, <3>1, <3>2
  <2>2. CASE Erase
    BY <2>2 DEF Erase, LowBits
  <2> QED BY <2>1, <2>2
<1>4. on' \in BOOLEAN
  BY DEF Flip, Erase
<1>5. PixelTypes'
  BY <1>2, <1>3, <1>4 DEF PixelTypes
<1>6. DarkIsInPixel'
  BY <1>2, <1>3 DEF DarkIsInPixel, Lasting
<1> QED BY <1>2, <1>5, <1>6 DEF PixelFades

\* The colours begin in the invariant, and no step disturbs it.
LEMMA ColorInitial == ColorInit => ColorIInv
<1> SUFFICES ASSUME ColorInit PROVE ColorIInv
  OBVIOUS
<1>1. pixel = 0 /\ bright = 0 /\ on = FALSE /\ dark = 4 /\ trails \in BOOLEAN
  BY DEF ColorInit
<1>2. pixel \in 0..15 /\ dark \in 0..4 /\ ~(pixel >= 8) /\ LowBits = 0
  BY <1>1 DEF LowBits
<1>3. PixelTypes
  BY <1>1, <1>2 DEF ColorInit, PixelTypes
<1>4. DarkIsInPixel /\ PixelFades
  <2>1. bright * dark <= 255 /\ dark # 0 /\ ~(dark = 1) /\ ~(dark = 2)
    BY ONLY <1>1
  <2>2. DarkIsInPixel
    BY <1>2, <2>1 DEF DarkIsInPixel
  <2>3. PixelFades
    BY <1>1, <2>1 DEF PixelFades, MAX
  <2> QED BY <2>2, <2>3
<1>5. MixIsBetween
  BY DEF ColorInit, MixIsBetween
<1> QED BY <1>3, <1>4, <1>5 DEF ColorIInv

LEMMA ColorStep == ColorIInv /\ [ColorNext]_colorVars => ColorIInv'
<1> SUFFICES ASSUME ColorIInv, [ColorNext]_colorVars PROVE ColorIInv'
  OBVIOUS
<1>1. CASE UNCHANGED colorVars
  BY <1>1 DEF colorVars, ColorIInv, PixelTypes, DarkIsInPixel, Lasting, LowBits,
     PixelFades, MixIsBetween
<1>2. CASE Mix
  <2>1. MixIsBetween'
    BY <1>2, MixStep
  <2>2. UNCHANGED pixelVars
    BY <1>2 DEF Mix
  <2> QED BY <2>1, <2>2 DEF pixelVars, ColorIInv, PixelTypes, DarkIsInPixel, Lasting, LowBits,
         PixelFades
<1>3. CASE PixelNext
  <2>1. blend' = "pixel" /\ UNCHANGED <<trails, shows>>
    BY <1>3 DEF PixelNext
  <2>2. PixelTypes' /\ DarkIsInPixel' /\ PixelFades'
    BY <1>3, <2>1, PushStep, LitStep DEF PixelNext
  <2> QED BY <2>1, <2>2 DEF ColorIInv, MixIsBetween
<1> QED BY <1>1, <1>2, <1>3 DEF ColorNext

\* For any levels and weights: no mix of two pixels leaves the range between them, the modes
\* do as they are named, and a pixel of any core that goes dark fades.
THEOREM MixesAreBetween == ColorSpec => []MixesStayBetween
<1>1. ColorIInv => MixesStayBetween
  BY DEF ColorIInv, MixesStayBetween
<1> QED BY ColorInitial, ColorStep, <1>1, PTL DEF ColorSpec
-----------------------------------------------------------------------------
(* The settings                                                            *)

LEMMA MaxOfTwo ==
  ASSUME NEW a \in Int, NEW b \in Int PROVE Max({a, b}) = IF a >= b THEN a ELSE b
<1>1. CASE a >= b
  BY <1>1 DEF Max
<1>2. CASE b >= a
  BY <1>2 DEF Max
<1> QED
  BY <1>1, <1>2

LEMMA MinOfTwo ==
  ASSUME NEW a \in Int, NEW b \in Int PROVE Min({a, b}) = IF a <= b THEN a ELSE b
<1>1. CASE a <= b
  BY <1>1 DEF Min
<1>2. CASE b <= a
  BY <1>2 DEF Min
<1> QED
  BY <1>1, <1>2

\* A list from which something is dropped is shorter.
LEMMA FilteredShorter ==
  ASSUME NEW T, NEW s \in Seq(T), NEW S
  PROVE  /\ Len(Filtered(s, S)) <= Len(s)
         /\ \A k \in 1..Len(s) : s[k] \notin S => Len(Filtered(s, S)) < Len(s)
<1> DEFINE t == Filtered(s, S)
<1>1. PICK e : Picks(e, t, s, S, Len(s))
  BY FilteredPlaces
<1>2. t \in Seq(T) /\ Len(t) \in Nat /\ Len(s) \in Nat
  BY FilteredPlaces, LenProperties
<1> HIDE DEF t
<1>3. Len(t) <= Len(s)
  <2>1. CASE Len(t) = 0
    BY <1>2, <2>1
  <2>2. CASE Len(t) # 0
    <3>1. Len(t) \in 1..Len(t) /\ Len(t) <= e[Len(t)] /\ e[Len(t)] \in 1..Len(s)
      BY <1>1, <1>2, <2>2 DEF Picks
    <3> QED
      BY <1>2, <3>1
  <2> QED
    BY <2>1, <2>2
<1>4. ASSUME NEW k \in 1..Len(s), s[k] \notin S PROVE Len(t) < Len(s)
  <2> DEFINE R == (1..Len(s)) \ {k}
  <2>0. \A n \in Nat : IsFiniteSet(1..n) /\ Cardinality(1..n) = n
    <3> TAKE n \in Nat
    <3>1. 1 \in Int /\ n \in Int
      OBVIOUS
    <3>2. IsFiniteSet(1..n) /\ Cardinality(1..n) = IF 1 > n THEN 0 ELSE n - 1 + 1
      BY <3>1, FS_Interval
    <3> QED
      BY <3>2
  <2>1. IsFiniteSet(1..Len(s)) /\ Cardinality(1..Len(s)) = Len(s)
    BY <1>2, <2>0
  <2>2. IsFiniteSet(R) /\ Cardinality(R) = Len(s) - 1
    BY <2>1, FS_RemoveElement
  <2>3. Cardinality(1..Len(t)) = Len(t)
    BY <1>2, <2>0
  <2>4. e \in [1..Len(t) -> R]
    BY <1>1, <1>4 DEF Picks
  <2>5. \A i, j \in 1..Len(t) : e[i] = e[j] => i = j
    <3> SUFFICES ASSUME NEW i \in 1..Len(t), NEW j \in 1..Len(t), e[i] = e[j], i # j
                 PROVE  FALSE
      OBVIOUS
    <3>1. e[i] \in Int /\ e[j] \in Int /\ i \in Int /\ j \in Int
      BY <1>1, <1>2 DEF Picks
    <3>2. i < j => e[i] < e[j]
      BY <1>1 DEF Picks
    <3>3. j < i => e[j] < e[i]
      BY <1>1 DEF Picks
    <3> QED
      BY <3>1, <3>2, <3>3
  <2>6. e \in Injection(1..Len(t), R)
    BY <2>4, <2>5 DEF Injection, IsInjective
  <2>7. Len(t) <= Len(s) - 1
    BY <2>2, <2>3, <2>6, FS_Injection
  <2> QED
    BY <1>2, <2>7
<1> QED
  BY <1>3, <1>4 DEF t

\* A list with one more member at its begin.
LEMMA PrependPlaces ==
  ASSUME NEW T, NEW s \in Seq(T), NEW f \in T
  PROVE  /\ <<f>> \o s \in Seq(T) /\ Len(<<f>> \o s) = Len(s) + 1
         /\ (<<f>> \o s)[1] = f
         /\ \A i \in 2..Len(s)+1 : (<<f>> \o s)[i] = s[i-1]
         /\ Distinct(s) /\ ~Contains(s, f) => Distinct(<<f>> \o s)
<1> DEFINE t == <<f>> \o s
<1>1. <<f>> \in Seq(T) /\ Len(<<f>>) = 1 /\ <<f>>[1] = f
  OBVIOUS
<1>2. Len(s) \in Nat
  BY LenProperties
<1>3. /\ t \in Seq(T) /\ Len(t) = 1 + Len(s)
      /\ \A i \in 1..1+Len(s) : t[i] = IF i <= 1 THEN <<f>>[i] ELSE s[i-1]
  BY <1>1, <1>2, ConcatProperties
<1>4. t[1] = f /\ \A i \in 2..Len(s)+1 : t[i] = s[i-1]
  BY <1>1, <1>2, <1>3
<1> HIDE DEF t
<1>5. ASSUME Distinct(s), ~Contains(s, f) PROVE Distinct(t)
  <2>1. \A i \in 2..Len(s)+1 : i-1 \in 1..Len(s) /\ t[i] = s[i-1] /\ t[i] # f
    BY <1>2, <1>4, <1>5 DEF Contains
  <2>2. \A i \in 1..Len(t) : i = 1 \/ i \in 2..Len(s)+1
    BY <1>2, <1>3
  <2> SUFFICES ASSUME NEW i \in 1..Len(t), NEW j \in 1..Len(t), i # j
               PROVE  t[i] # t[j]
    BY DEF Distinct
  <2>3. CASE i = 1
    BY <1>4, <2>1, <2>2, <2>3
  <2>4. CASE j = 1
    BY <1>4, <2>1, <2>2, <2>4
  <2>5. CASE i # 1 /\ j # 1
    <3>1. i-1 \in 1..Len(s) /\ j-1 \in 1..Len(s) /\ i-1 # j-1
      BY <2>1, <2>2, <2>5
    <3>2. s[i-1] # s[j-1]
      BY <1>5, <3>1 DEF Distinct
    <3> QED
      BY <2>1, <2>2, <2>5, <3>2
  <2> QED
    BY <2>3, <2>4, <2>5
<1> QED
  BY <1>2, <1>3, <1>4, <1>5 DEF t
-----------------------------------------------------------------------------
\* The lists that the service may have.
MruFiles == {m \in Seq(Files) : Len(m) <= s_mru_limit}

LEMMA EraseKeeps ==
  ASSUME NEW m \in MruFiles, NEW f \in Files
  PROVE  /\ EraseFile(m, f) \in MruFiles /\ ~Contains(EraseFile(m, f), f)
         /\ Distinct(m) => Distinct(EraseFile(m, f))
         /\ Contains(m, f) => Len(EraseFile(m, f)) < Len(m)
<1> DEFINE t == Filtered(m, Files \ {f})
<1>1. m \in Seq(Files) /\ Len(m) \in Nat /\ Len(m) <= s_mru_limit
  BY LenProperties DEF MruFiles
<1>2. t \in Seq(Files) /\ ~Contains(t, f)
  BY <1>1, FilteredMembers
<1>3. Len(t) \in Nat /\ Len(t) <= Len(m)
  BY <1>1, <1>2, FilteredShorter, LenProperties
<1>4. \A k \in 1..Len(m) : m[k] \notin Files \ {f} => Len(t) < Len(m)
  BY <1>1, FilteredShorter
<1>5. Distinct(m) => Distinct(t)
  BY <1>1, FilteredDistinct
<1>6. t \in MruFiles
  BY <1>1, <1>2, <1>3, LimitAssumption DEF MruFiles
<1>7. Contains(m, f) => Len(t) < Len(m)
  BY <1>4 DEF Contains
<1> QED
  BY <1>2, <1>5, <1>6, <1>7 DEF EraseFile

LEMMA InsertKeeps ==
  ASSUME NEW m \in MruFiles, NEW f \in Files
  PROVE  /\ Insert(m, f) \in MruFiles
         /\ Distinct(m) => Distinct(Insert(m, f))
         /\ ~Contains(m, f) /\ Len(m) < s_mru_limit => Insert(m, f) = <<f>> \o m
<1>1. m \in Seq(Files) /\ Len(m) \in Nat /\ Len(m) <= s_mru_limit /\ s_mru_limit \in Nat
  BY LenProperties, LimitAssumption DEF MruFiles
<1>2. CASE Contains(m, f)
  <2> DEFINE t == EraseFile(m, f)
  <2>1. t \in Seq(Files) /\ ~Contains(t, f) /\ (Distinct(m) => Distinct(t)) /\ Len(t) < Len(m)
    BY <1>2, EraseKeeps DEF MruFiles
  <2>2. Len(t) \in Nat
    BY <2>1, LenProperties
  <2> HIDE DEF t
  <2>3. /\ <<f>> \o t \in Seq(Files) /\ Len(<<f>> \o t) = Len(t) + 1
        /\ Distinct(m) => Distinct(<<f>> \o t)
    BY <2>1, PrependPlaces
  <2>4. Insert(m, f) = <<f>> \o t
    BY <1>2 DEF Insert, t
  <2> QED
    BY <1>1, <1>2, <2>1, <2>2, <2>3, <2>4 DEF MruFiles
<1>3. CASE ~Contains(m, f)
  <2> DEFINE t == <<f>> \o m
  <2> DEFINE n == Min({s_mru_limit, Len(m) + 1})
  <2>1. /\ t \in Seq(Files) /\ Len(t) = Len(m) + 1 /\ (Distinct(m) => Distinct(t))
    BY <1>1, <1>3, PrependPlaces
  <2>2. n = IF s_mru_limit <= Len(m) + 1 THEN s_mru_limit ELSE Len(m) + 1
    BY <1>1, MinOfTwo
  <2>3. n \in Nat /\ n <= s_mru_limit /\ n <= Len(m) + 1 /\ 1 <= n
    BY <1>1, <2>2, LimitAssumption
  <2>4. Insert(m, f) = SubSeq(t, 1, n)
    BY <1>3 DEF Insert
  <2> HIDE DEF t, n
  <2>5. /\ SubSeq(t, 1, n) \in Seq(Files) /\ Len(SubSeq(t, 1, n)) = n
        /\ \A i \in 1..n : SubSeq(t, 1, n)[i] = t[i]
    BY <2>1, <2>3, <1>1, SubSeqProperties
  <2>6. Distinct(m) => Distinct(SubSeq(t, 1, n))
    BY <2>1, <2>3, <2>5, <1>1 DEF Distinct
  <2>7. Len(m) < s_mru_limit => n = Len(t)
    BY <1>1, <2>1, <2>2
  <2>8. Len(m) < s_mru_limit => SubSeq(t, 1, n) = t
    BY <2>1, <2>5, <2>7, SeqEqual
  <2> QED
    BY <2>3, <2>4, <2>5, <2>6, <2>8, <1>1 DEF MruFiles, t
<1> QED
  BY <1>2, <1>3
-----------------------------------------------------------------------------
InsertedBack(g, entries, k) ==
  IF k = 0 THEN <<>>
  ELSE LET f == entries[(Len(entries) - k) + 1]
       IN  IF f = NoFile THEN g[k - 1] ELSE Insert(g[k - 1], f)

\* The recursive function of Restored exists, and has a list of files without repetition at
\* every place.
LEMMA RestoredFunction ==
  ASSUME NEW s \in Seq(Files \cup {NoFile})
  PROVE  \E g \in [0..Len(s) -> MruFiles] :
           /\ \A k \in 0..Len(s) : g[k] = InsertedBack(g, s, k) /\ Distinct(g[k])
           /\ Restored(s) = g[Len(s)]
<1> DEFINE Good == {m \in MruFiles : Distinct(m)}
<1> DEFINE P(n, g) == g = [k \in 0..n |-> InsertedBack(g, s, k)]
<1> DEFINE H == {n \in Nat : n <= Len(s) => \E g \in [0..n -> Good] : P(n, g)}
<1>0. <<>> \in Good /\ Len(s) \in Nat
  <2>1. <<>> \in Seq(Files) /\ Len(<<>>) = 0 /\ s_mru_limit \in Nat
    BY EmptySeq, LimitAssumption
  <2> QED
    BY <2>1, LenProperties DEF MruFiles, Distinct
<1>1. 0 \in H
  <2> DEFINE g == [k \in 0..0 |-> <<>>]
  <2>1. g \in [0..0 -> Good]
    BY <1>0
  <2>2. \A k \in 0..0 : g[k] = InsertedBack(g, s, k)
    BY DEF InsertedBack
  <2>3. P(0, g)
    BY <2>2
  <2> QED
    BY <2>1, <2>3
<1>2. ASSUME NEW n \in Nat, n \in H PROVE n+1 \in H
  <2>1. SUFFICES ASSUME n+1 <= Len(s)
                 PROVE  \E g \in [0..n+1 -> Good] : P(n+1, g)
    OBVIOUS
  <2>2. PICK f \in [0..n -> Good] : P(n, f)
    BY <1>2, <2>1
  <2> DEFINE x == s[(Len(s) - (n+1)) + 1]
  <2> DEFINE v == IF x = NoFile THEN f[n] ELSE Insert(f[n], x)
  <2> DEFINE g == [k \in 0..n+1 |-> IF k = n+1 THEN v ELSE f[k]]
  <2>3. v \in Good
    <3>1. n \in 0..n /\ f[n] \in Good
      BY <2>2
    <3>2. (Len(s) - (n+1)) + 1 \in 1..Len(s)
      BY <2>1, <1>0
    <3>3. x \in Files \cup {NoFile}
      BY <3>2, ElementOfSeq
    <3> HIDE DEF x
    <3> QED
      BY <3>1, <3>3, InsertKeeps
  <2>4. g \in [0..n+1 -> Good]
    BY <2>2, <2>3
  <2>5. \A k \in 0..n+1 : g[k] = InsertedBack(g, s, k)
    <3> TAKE k \in 0..n+1
    <3>1. CASE k = n+1
      <4>1. g[k-1] = f[n] /\ k # 0 /\ g[k] = v
        BY <3>1
      <4> QED
        BY <3>1, <4>1 DEF InsertedBack
    <3>2. CASE k # n+1
      <4>1. k \in 0..n /\ g[k] = f[k]
        BY <3>2
      <4>2. f = [j \in 0..n |-> InsertedBack(f, s, j)]
        BY <2>2
      <4>3. f[k] = InsertedBack(f, s, k)
        BY <4>1, <4>2
      <4>4. k # 0 => g[k-1] = f[k-1]
        BY <4>1
      <4> QED
        BY <4>1, <4>3, <4>4 DEF InsertedBack
    <3> QED
      BY <3>1, <3>2
  <2>6. P(n+1, g)
    BY <2>5
  <2> QED
    BY <2>4, <2>6
<1> HIDE DEF P
<1>3. Nat \subseteq H
  BY <1>1, <1>2, NatInSet
<1>4. \E g : P(Len(s), g)
  BY <1>0, <1>3
<1> DEFINE f == CHOOSE g : P(Len(s), g)
<1>5. P(Len(s), f)
  BY <1>4
<1>6. Restored(s) = f[Len(s)]
  BY DEF Restored, P, InsertedBack
<1> HIDE DEF f
<1>7. \A k \in 0..Len(s) : f[k] = InsertedBack(f, s, k)
  BY <1>5 DEF P
<1> DEFINE J == {n \in Nat : n <= Len(s) => f[n] \in Good}
<1>8. 0 \in J
  BY <1>0, <1>7 DEF InsertedBack
<1>9. ASSUME NEW n \in Nat, n \in J PROVE n+1 \in J
  <2>1. SUFFICES ASSUME n+1 <= Len(s) PROVE f[n+1] \in Good
    OBVIOUS
  <2>2. f[n] \in Good
    BY <1>9, <2>1, <1>0
  <2> DEFINE x == s[(Len(s) - (n+1)) + 1]
  <2>3. (Len(s) - (n+1)) + 1 \in 1..Len(s)
    BY <2>1, <1>0
  <2>4. x \in Files \cup {NoFile}
    BY <2>3, ElementOfSeq
  <2>5. n+1 \in 0..Len(s) /\ n+1 # 0 /\ (n+1)-1 = n
    BY <2>1, <1>0
  <2>6. f[n+1] = IF x = NoFile THEN f[n] ELSE Insert(f[n], x)
    BY <1>7, <2>5 DEF InsertedBack
  <2> HIDE DEF x
  <2> QED
    BY <2>2, <2>4, <2>6, InsertKeeps
<1>10. Nat \subseteq J
  BY <1>8, <1>9, NatInSet
<1>11. \A k \in 0..Len(s) : f[k] \in Good
  BY <1>10, <1>0
<1>12. f \in [0..Len(s) -> MruFiles]
  <2>1. f = [k \in 0..Len(s) |-> InsertedBack(f, s, k)]
    BY <1>5 DEF P
  <2>2. f = [k \in 0..Len(s) |-> f[k]]
    BY <2>1
  <2> QED
    BY <1>11, <2>2
<1> QED
  BY <1>6, <1>7, <1>11, <1>12
-----------------------------------------------------------------------------
\* The array of a list, and what becomes of an array that is read.
LEMMA ArrayIs ==
  ASSUME NEW m \in MruFiles
  PROVE  /\ export_mru(m) \in Seq(Files \cup {NoFile}) /\ Len(export_mru(m)) = s_mru_limit
         /\ \A k \in 1..s_mru_limit :
              export_mru(m)[k] = IF k <= Len(m) THEN m[k] ELSE NoFile
         /\ GetArray(export_mru(m)) = export_mru(m)
<1> DEFINE e == export_mru(m)
           L == s_mru_limit
<1>1. m \in Seq(Files) /\ Len(m) \in Nat /\ Len(m) <= L /\ L \in Nat
  BY LenProperties, LimitAssumption DEF MruFiles
<1>2. e = [k \in 1..L |-> IF k <= Len(m) THEN m[k] ELSE NoFile]
  BY DEF export_mru
<1>3. \A k \in 1..L : k <= Len(m) => m[k] \in Files
  BY <1>1, ElementOfSeq
<1> HIDE DEF e
<1>4. e \in [1..L -> Files \cup {NoFile}]
  BY <1>2, <1>3
<1>5. e \in Seq(Files \cup {NoFile}) /\ Len(e) = L
  BY <1>1, <1>4
<1>6. Min({L, Len(e)}) = L
  BY <1>1, <1>5, MinOfTwo
<1>7. SubSeq(e, 1, L) = e
  BY <1>5, SubSeqFull
<1>8. GetArray(e) = export_mru(e)
  BY <1>6, <1>7 DEF GetArray
<1>9. export_mru(e) = [k \in 1..L |-> IF k <= L THEN e[k] ELSE NoFile]
  BY <1>5 DEF export_mru
<1>10. export_mru(e) = e
  BY <1>1, <1>4, <1>9
<1> QED
  BY <1>2, <1>5, <1>8, <1>10 DEF e

\* What a user may write there becomes the array of a list, too.
LEMMA ReadIsArray ==
  ASSUME NEW s \in Seq(Files)
  PROVE  \E m \in MruFiles : GetArray(s) = export_mru(m)
<1> DEFINE n == Min({s_mru_limit, Len(s)})
<1>1. Len(s) \in Nat /\ s_mru_limit \in Nat
  BY LenProperties, LimitAssumption
<1>2. n = IF s_mru_limit <= Len(s) THEN s_mru_limit ELSE Len(s)
  BY <1>1, MinOfTwo
<1>3. n \in Nat /\ n <= s_mru_limit /\ n <= Len(s)
  BY <1>1, <1>2
<1>4. GetArray(s) = export_mru(SubSeq(s, 1, n))
  BY DEF GetArray
<1> HIDE DEF n
<1>5. \A i \in 1..n : s[i] \in Files
  BY <1>1, <1>3, ElementOfSeq
<1>6. SubSeq(s, 1, n) \in Seq(Files) /\ Len(SubSeq(s, 1, n)) = (IF 1 <= n THEN n-1+1 ELSE 0)
  BY <1>3, <1>5, SubSeqProperties
<1>7. SubSeq(s, 1, n) \in MruFiles
  BY <1>1, <1>3, <1>6 DEF MruFiles
<1> QED
  BY <1>4, <1>7

\* A list comes back from its array as it was.
LEMMA ArrayIsRestored ==
  ASSUME NEW m \in MruFiles, Distinct(m)
  PROVE  Restored(export_mru(m)) = m
<1> DEFINE e == export_mru(m)
           L == s_mru_limit
           c == Len(m)
<1>1. m \in Seq(Files) /\ c \in Nat /\ c <= L /\ L \in Nat
  BY LenProperties, LimitAssumption DEF MruFiles
<1>2. /\ e \in Seq(Files \cup {NoFile}) /\ Len(e) = L
      /\ \A k \in 1..L : e[k] = IF k <= c THEN m[k] ELSE NoFile
  BY ArrayIs
<1> HIDE DEF e
<1>3. PICK g \in [0..L -> MruFiles] :
        /\ \A k \in 0..L : g[k] = InsertedBack(g, e, k)
        /\ Restored(e) = g[L]
  BY <1>2, RestoredFunction
<1> DEFINE d(k) == IF k <= L - c THEN 0 ELSE k - (L - c)
<1> DEFINE Q(k) == Len(g[k]) = d(k) /\ \A i \in 1..d(k) : g[k][i] = m[(L - k) + i]
<1> DEFINE H == {k \in Nat : k <= L => Q(k)}
<1>4. 0 \in H
  <2>1. g[0] = <<>>
    BY <1>1, <1>3 DEF InsertedBack
  <2>2. d(0) = 0
    BY <1>1
  <2>3. Len(g[0]) = 0
    BY <2>1
  <2> QED
    BY <2>2, <2>3
<1>5. ASSUME NEW k \in Nat, k \in H PROVE k+1 \in H
  <2>1. SUFFICES ASSUME k+1 <= L PROVE Q(k+1)
    OBVIOUS
  <2>2. Q(k) /\ g[k] \in MruFiles
    BY <1>1, <1>3, <1>5, <2>1
  <2>3. k+1 \in 0..L /\ k+1 # 0 /\ (k+1)-1 = k /\ (Len(e)-(k+1))+1 = L-k /\ L-k \in 1..L
    BY <1>1, <1>2, <2>1
  <2>4. g[k+1] = IF e[L-k] = NoFile THEN g[k] ELSE Insert(g[k], e[L-k])
    BY <1>3, <2>3 DEF InsertedBack
  <2>5. CASE L-k > c
    <3>1. e[L-k] = NoFile
      BY <1>1, <1>2, <2>3, <2>5
    <3>2. d(k) = 0 /\ d(k+1) = 0
      BY <1>1, <2>5
    <3> QED
      BY <2>2, <2>4, <3>1, <3>2
  <2>6. CASE L-k <= c
    <3> DEFINE f == m[L-k]
    <3>1. L-k \in 1..c /\ f \in Files
      BY <1>1, <2>3, <2>6, ElementOfSeq
    <3>2. e[L-k] = f /\ f # NoFile
      BY <1>2, <2>3, <2>6, <3>1, FilesAssumption
    <3>3. d(k) = k-(L-c) /\ d(k+1) = d(k)+1 /\ d(k) < L /\ d(k) \in Nat
      BY <1>1, <2>6, <2>1
    <3>4. \A i \in 1..d(k) : g[k][i] = m[(L-k)+i] /\ (L-k)+i \in 1..c /\ (L-k)+i # L-k
      BY <1>1, <2>2, <2>3, <3>3
    <3>5. ~Contains(g[k], f)
      BY <2>2, <3>1, <3>4 DEF Contains, Distinct
    <3> HIDE DEF f, d
    <3>6. g[k+1] = <<f>> \o g[k]
      BY <2>2, <2>4, <3>1, <3>2, <3>3, <3>5, InsertKeeps
    <3>7. g[k] \in Seq(Files) /\ Len(g[k]) = d(k)
      BY <2>2 DEF MruFiles
    <3>8. /\ Len(g[k+1]) = d(k)+1 /\ g[k+1][1] = f
          /\ \A i \in 2..d(k)+1 : g[k+1][i] = g[k][i-1]
      BY <3>1, <3>6, <3>7, PrependPlaces
    <3>9. ASSUME NEW i \in 1..d(k)+1 PROVE g[k+1][i] = m[(L-(k+1))+i]
      <4>1. CASE i = 1
        <5>1. (L-(k+1))+i = L-k
          BY <1>1, <4>1
        <5> QED
          BY <3>8, <4>1, <5>1 DEF f
      <4>2. CASE i # 1
        <5>1. i \in 2..d(k)+1 /\ i-1 \in 1..d(k) /\ (L-k)+(i-1) = (L-(k+1))+i
          BY <1>1, <3>3, <4>2
        <5>2. g[k+1][i] = g[k][i-1]
          BY <3>8, <5>1
        <5>3. g[k][i-1] = m[(L-k)+(i-1)]
          BY <3>4, <5>1
        <5> QED
          BY <5>1, <5>2, <5>3
      <4> QED
        BY <4>1, <4>2
    <3> QED
      BY <3>3, <3>8, <3>9
  <2> QED
    BY <1>1, <2>3, <2>5, <2>6
<1>6. L \in H
  BY <1>1, <1>4, <1>5, NatInSet
<1>7. d(L) = c /\ \A i \in 1..c : (L-L)+i = i
  BY <1>1
<1>8. Len(g[L]) = c /\ \A i \in 1..c : g[L][i] = m[i]
  BY <1>1, <1>6, <1>7
<1>9. g[L] \in Seq(Files)
  BY <1>1, <1>3 DEF MruFiles
<1>10. g[L] = m
  BY <1>1, <1>8, <1>9, SeqEqual
<1> QED
  BY <1>3, <1>10 DEF e

\* If the files of an array are different, so is its list.
LEMMA ArrayIsDistinct ==
  ASSUME NEW m \in MruFiles, IsInjective(Filtered(export_mru(m), Files))
  PROVE  Distinct(m)
<1> DEFINE e == export_mru(m)
           t == Filtered(e, Files)
<1>1. m \in Seq(Files) /\ Len(m) \in Nat /\ Len(m) <= s_mru_limit /\ s_mru_limit \in Nat
  BY LenProperties, LimitAssumption DEF MruFiles
<1>2. /\ e \in Seq(Files \cup {NoFile}) /\ Len(e) = s_mru_limit
      /\ \A k \in 1..s_mru_limit : e[k] = IF k <= Len(m) THEN m[k] ELSE NoFile
  BY ArrayIs
<1> HIDE DEF e
<1>3. t \in Seq(Files \cup {NoFile}) /\ \E p : Picks(p, t, e, Files, Len(e))
  BY <1>2, FilteredPlaces
<1>4. IsInjective(t)
  BY DEF e
<1> HIDE DEF t
<1>5. PICK p : Picks(p, t, e, Files, Len(e))
  BY <1>3
<1>6. DOMAIN t = 1..Len(t)
  BY <1>3, LenProperties
<1> SUFFICES ASSUME NEW i \in 1..Len(m), NEW j \in 1..Len(m), m[i] = m[j]
             PROVE  i = j
  BY DEF Distinct
<1>7. /\ i \in 1..Len(e) /\ j \in 1..Len(e) /\ e[i] = m[i] /\ e[j] = m[j]
      /\ m[i] \in Files /\ m[j] \in Files
  BY <1>1, <1>2, ElementOfSeq
<1>8. PICK a \in 1..Len(t) : p[a] = i
  BY <1>5, <1>7 DEF Picks
<1>9. PICK b \in 1..Len(t) : p[b] = j
  BY <1>5, <1>7 DEF Picks
<1>10. t[a] = t[b]
  BY <1>5, <1>7, <1>8, <1>9 DEF Picks
<1>11. a = b
  BY <1>4, <1>6, <1>10 DEF IsInjective
<1> QED
  BY <1>8, <1>9, <1>11

-----------------------------------------------------------------------------
\* Where a window may be.
Rects == [x : Int, y : Int, w : Int, h : Int]

LEMMA RectsAre ==
  /\ defaults \in Rects /\ defaults.w = 2 /\ defaults.h = 2
  /\ minimum.w = 3 /\ minimum.h = 3
  /\ deco.up = 1 /\ deco.lt = 0 /\ deco.dn = 0 /\ deco.rt = 0
  /\ Left \in Rects /\ Left.x = 0 /\ Left.y = 0 /\ Left.w = 5 /\ Left.h = 5
  /\ Right \in Rects /\ Right.x = 5 /\ Right.y = 1 /\ Right.w = 4 /\ Right.h = 6
  /\ Places \subseteq Rects
BY DEF defaults, minimum, deco, Left, Right, Places, Rect, Rects

\* The displays that can be used are at most two, and each is the left or the right one.
LEMMA UsableAre ==
  ASSUME NEW ds \in Setups
  PROVE  /\ \E n \in 0..2 : Usable(ds) \in [1..n -> {Left, Right}]
         /\ \A i \in DOMAIN ds : i \in Int
<1> DEFINE M == [bounds : {Left, Right}, usable : BOOLEAN, primary : BOOLEAN]
<1>1. ds \in Seq(M) /\ Len(ds) \in Nat /\ Len(ds) <= 2
  <2>1. Monitors(Left) \subseteq M /\ Monitors(Right) \subseteq M
    BY DEF Monitors
  <2> HIDE DEF M
  <2>2. CASE ds = <<>>
    BY <2>2
  <2>3. ASSUME NEW m \in Monitors(Left), ds = <<m>>
        PROVE  ds \in Seq(M) /\ Len(ds) \in Nat /\ Len(ds) <= 2
    BY <2>1, <2>3
  <2>4. ASSUME NEW l \in Monitors(Left), NEW r \in Monitors(Right), ds = <<l, r>>
        PROVE  ds \in Seq(M) /\ Len(ds) \in Nat /\ Len(ds) <= 2
    BY <2>1, <2>4
  <2>5. \/ ds = <<>>
        \/ \E m \in Monitors(Left) : ds = <<m>>
        \/ \E l \in Monitors(Left), r \in Monitors(Right) : ds = <<l, r>>
    BY DEF Setups
  <2> QED
    BY <2>2, <2>3, <2>4, <2>5
<1> DEFINE t == Filtered(ds, {d \in Range(ds) : d.usable})
<1>2. t \in Seq(M)
  BY <1>1, FilteredMembers
<1>3. Len(t) <= Len(ds)
  BY <1>1, FilteredShorter
<1>4. Usable(ds) = [i \in DOMAIN t |-> t[i].bounds]
  BY DEF Usable
<1> HIDE DEF t
<1>5. Len(t) \in Nat /\ DOMAIN t = 1..Len(t) /\ \A i \in 1..Len(t) : t[i] \in M
  BY <1>2, LenProperties, ElementOfSeq
<1>6. Len(t) \in 0..2
  BY <1>1, <1>3, <1>5
<1>7. \A i \in 1..Len(t) : t[i].bounds \in {Left, Right}
  BY <1>5
<1>8. Usable(ds) \in [1..Len(t) -> {Left, Right}]
  BY <1>4, <1>5, <1>7
<1>9. DOMAIN ds = 1..Len(ds)
  BY <1>1, LenProperties
<1>10. \E n \in 0..2 : Usable(ds) \in [1..n -> {Left, Right}]
  BY <1>6, <1>8
<1>11. \A i \in DOMAIN ds : i \in Int
  BY <1>1, <1>9
<1> QED
  BY <1>10, <1>11

\* One of one or two is the first that is best.
LEMMA FirstBestIs ==
  ASSUME NEW n \in 1..2, NEW f \in [1..n -> Int]
  PROVE  FirstBest(f) \in 1..n /\ \A j \in 1..n : f[FirstBest(f)] >= f[j]
<1> DEFINE S == {i \in 1..n : \A j \in 1..n : f[i] >= f[j]}
<1>1. \E i \in S : TRUE
  <2>1. CASE n = 1
    BY <2>1
  <2>2. CASE n = 2
    <3>1. f[1] \in Int /\ f[2] \in Int
      BY <2>2
    <3>2. ASSUME f[1] >= f[2] PROVE 1 \in S
      BY <2>2, <3>1, <3>2
    <3>3. ASSUME f[2] >= f[1] PROVE 2 \in S
      BY <2>2, <3>1, <3>3
    <3>4. f[1] >= f[2] \/ f[2] >= f[1]
      BY <3>1
    <3> HIDE DEF S
    <3> QED
      BY <3>2, <3>3, <3>4
  <2> QED
    BY <2>1, <2>2
<1>2. \E i \in S : \A j \in S : i <= j
  <2>1. S \subseteq {1, 2}
    OBVIOUS
  <2> HIDE DEF S
  <2>2. CASE 1 \in S
    BY <2>1, <2>2
  <2>3. CASE 1 \notin S
    <3>1. \A i \in S : i = 2
      BY <2>1, <2>3
    <3> QED
      BY <1>1, <3>1
  <2> QED
    BY <2>2, <2>3
<1>3. FirstBest(f) = Min(S)
  BY DEF FirstBest
<1>4. Min(S) \in S
  <2> HIDE DEF S
  <2> QED
    BY <1>2 DEF Min
<1> QED
  BY <1>3, <1>4

LEMMA OverlapType ==
  ASSUME NEW r \in Rects, NEW b \in {Left, Right}
  PROVE  Overlap(r, b) \in Nat /\ Distance(r, b) \in Int
<1>1. b \in Rects
  BY RectsAre
<1>2. /\ r.x \in Int /\ r.y \in Int /\ r.w \in Int /\ r.h \in Int
      /\ b.x \in Int /\ b.y \in Int /\ b.w \in Int /\ b.h \in Int
  BY <1>1 DEF Rects
<1>3. \A p, q \in Int : Max({p, q}) \in Int /\ Min({p, q}) \in Int /\ Max({0, p}) \in Nat
  <2> TAKE p, q \in Int
  <2>1. Max({p, q}) = (IF p >= q THEN p ELSE q) /\ Min({p, q}) = (IF p <= q THEN p ELSE q)
    BY MaxOfTwo, MinOfTwo
  <2>2. Max({0, p}) = (IF 0 >= p THEN 0 ELSE p)
    BY MaxOfTwo
  <2> QED
    BY <2>1, <2>2
<1>4. \A p, q \in Nat : p * q \in Nat
  OBVIOUS
<1>5. \A p \in Int : p * p \in Int /\ p \div 2 \in Int
  OBVIOUS
<1> DEFINE w == Min({r.x + r.w, b.x + b.w}) - Max({r.x, b.x})
           h == Min({r.y + r.h, b.y + b.h}) - Max({r.y, b.y})
<1>6. Overlap(r, b) \in Nat
  <2>1. w \in Int /\ h \in Int
    <3>1. /\ r.x + r.w \in Int /\ b.x + b.w \in Int
          /\ r.y + r.h \in Int /\ b.y + b.h \in Int
      BY <1>2
    <3>2. /\ Min({r.x + r.w, b.x + b.w}) \in Int /\ Max({r.x, b.x}) \in Int
          /\ Min({r.y + r.h, b.y + b.h}) \in Int /\ Max({r.y, b.y}) \in Int
      BY <1>2, <1>3, <3>1
    <3> QED
      BY <3>2
  <2>2. Overlap(r, b) = Max({0, w}) * Max({0, h})
    BY DEF Overlap
  <2> HIDE DEF w, h
  <2> QED
    BY <1>3, <1>4, <2>1, <2>2
<1>7. Distance(r, b) \in Int
  BY <1>2, <1>5 DEF Distance
<1> QED
  BY <1>6, <1>7

\* A window that lies on one display overlaps it, and not the other.
LEMMA InsideOverlaps ==
  ASSUME NEW r \in Rects, r.w >= 3, r.h >= 3, NEW b \in {Left, Right}, NEW t \in {Left, Right},
         Inside(r, b), t # b
  PROVE  Overlap(r, b) > 0 /\ Overlap(r, t) = 0
<1>1. /\ r.x \in Int /\ r.y \in Int /\ r.w \in Int /\ r.h \in Int
      /\ b.x \in Int /\ b.y \in Int /\ b.w \in Int /\ b.h \in Int
      /\ t.x \in Int /\ t.y \in Int /\ t.w \in Int /\ t.h \in Int
  BY RectsAre DEF Rects
<1>2. /\ r.x >= b.x /\ r.x + r.w <= b.x + b.w
      /\ r.y - 1 >= b.y /\ r.y + r.h <= b.y + b.h
  BY <1>1, RectsAre DEF Inside
<1> DEFINE w(q) == Min({r.x + r.w, q.x + q.w}) - Max({r.x, q.x})
           h(q) == Min({r.y + r.h, q.y + q.h}) - Max({r.y, q.y})
<1>3. w(b) = r.w /\ h(b) = r.h
  <2>1. Min({r.x + r.w, b.x + b.w}) = r.x + r.w /\ Min({r.y + r.h, b.y + b.h}) = r.y + r.h
    BY <1>1, <1>2, MinOfTwo
  <2>2. Max({r.x, b.x}) = r.x /\ Max({r.y, b.y}) = r.y
    BY <1>1, <1>2, MaxOfTwo
  <2> QED
    BY <1>1, <2>1, <2>2
<1>4. Max({0, w(b)}) = r.w /\ Max({0, h(b)}) = r.h
  <2>1. Max({0, r.w}) = r.w /\ Max({0, r.h}) = r.h
    BY <1>1, MaxOfTwo
  <2> QED
    BY <1>3, <2>1
<1>5. w(t) <= 0 /\ w(t) \in Int /\ h(t) \in Int
  <2>1. Min({r.x + r.w, t.x + t.w}) = IF r.x + r.w <= t.x + t.w THEN r.x + r.w ELSE t.x + t.w
    BY <1>1, MinOfTwo
  <2>2. Max({r.x, t.x}) = IF r.x >= t.x THEN r.x ELSE t.x
    BY <1>1, MaxOfTwo
  <2>3. Min({r.y + r.h, t.y + t.h}) \in Int /\ Max({r.y, t.y}) \in Int
    BY <1>1, MinOfTwo, MaxOfTwo
  <2>4. \/ b.x = 0 /\ b.w = 5 /\ t.x = 5 /\ t.w = 4
        \/ b.x = 5 /\ b.w = 4 /\ t.x = 0 /\ t.w = 5
    BY RectsAre
  <2> QED
    BY <1>1, <1>2, <2>1, <2>2, <2>3, <2>4
<1>6. \A p \in Int : Max({0, p}) \in Int /\ (p <= 0 => Max({0, p}) = 0)
  BY MaxOfTwo
<1>7. Max({0, w(t)}) = 0 /\ Max({0, h(t)}) \in Int
  <2> HIDE DEF w, h
  <2> QED
    BY <1>5, <1>6
<1>8. \A p \in Int : 0 * p = 0
  OBVIOUS
<1>9. \A p, q \in Int : p >= 3 /\ q >= 3 => p * q > 0
  OBVIOUS
<1>10. Overlap(r, b) = r.w * r.h
  BY <1>4 DEF Overlap
<1>11. Overlap(r, t) = 0 * Max({0, h(t)})
  BY <1>7 DEF Overlap
<1> QED
  BY <1>1, <1>7, <1>8, <1>9, <1>10, <1>11

-----------------------------------------------------------------------------
LEMMA FieldsAre ==
  ASSUME NEW r \in Rects
  PROVE  r.x \in Int /\ r.y \in Int /\ r.w \in Int /\ r.h \in Int
BY DEF Rects

\* A window with the size of a display at most is on it when it was moved.
LEMMA ClampedIs ==
  ASSUME NEW r \in Rects, NEW t \in {Left, Right}
  PROVE  /\ Clamped(r, t) \in Rects
         /\ r.w <= t.w /\ r.h <= t.h - 1 => Inside(Clamped(r, t), t)
         /\ Clamped(r, t).w = r.w /\ Clamped(r, t).h = r.h
         /\ Inside(r, t) => Clamped(r, t) = r
<1> DEFINE a == Max({t.x + deco.lt, Min({r.x, t.x + t.w - deco.rt - r.w})})
           b == Max({t.y + deco.up, Min({r.y, t.y + t.h - deco.dn - r.h})})
<1>1. /\ r.x \in Int /\ r.y \in Int /\ r.w \in Int /\ r.h \in Int
      /\ t.x \in Int /\ t.y \in Int /\ t.w \in Int /\ t.h \in Int
  BY RectsAre, FieldsAre
<1>2. Clamped(r, t) = [r EXCEPT !.x = a, !.y = b]
  BY DEF Clamped, Rects
<1>3. /\ a = IF t.x >= (IF r.x <= t.x + t.w - r.w THEN r.x ELSE t.x + t.w - r.w)
             THEN t.x ELSE (IF r.x <= t.x + t.w - r.w THEN r.x ELSE t.x + t.w - r.w)
      /\ b = IF t.y + 1 >= (IF r.y <= t.y + t.h - r.h THEN r.y ELSE t.y + t.h - r.h)
             THEN t.y + 1 ELSE (IF r.y <= t.y + t.h - r.h THEN r.y ELSE t.y + t.h - r.h)
  <2>1. /\ t.x + deco.lt = t.x /\ t.x + t.w - deco.rt - r.w = t.x + t.w - r.w
        /\ t.y + deco.up = t.y + 1 /\ t.y + t.h - deco.dn - r.h = t.y + t.h - r.h
    BY <1>1, RectsAre
  <2>2. /\ t.x + t.w - r.w \in Int /\ t.y + t.h - r.h \in Int /\ t.y + 1 \in Int
    BY <1>1
  <2>3. /\ Min({r.x, t.x + t.w - r.w})
             = (IF r.x <= t.x + t.w - r.w THEN r.x ELSE t.x + t.w - r.w)
        /\ Min({r.y, t.y + t.h - r.h})
             = (IF r.y <= t.y + t.h - r.h THEN r.y ELSE t.y + t.h - r.h)
    BY <1>1, <2>2, MinOfTwo
  <2>4. /\ a = Max({t.x, Min({r.x, t.x + t.w - r.w})})
        /\ b = Max({t.y + 1, Min({r.y, t.y + t.h - r.h})})
    BY <2>1
  <2>5. Min({r.x, t.x + t.w - r.w}) \in Int /\ Min({r.y, t.y + t.h - r.h}) \in Int
    BY <1>1, <2>2, <2>3
  <2> HIDE DEF a, b
  <2>6. /\ a = (IF t.x >= Min({r.x, t.x + t.w - r.w}) THEN t.x
                ELSE Min({r.x, t.x + t.w - r.w}))
        /\ b = (IF t.y + 1 >= Min({r.y, t.y + t.h - r.h}) THEN t.y + 1
                ELSE Min({r.y, t.y + t.h - r.h}))
    BY <1>1, <2>2, <2>4, <2>5, MaxOfTwo
  <2> QED
    BY <2>3, <2>6
<1> HIDE DEF a, b
<1>4. a \in Int /\ b \in Int
  BY <1>1, <1>3
<1>5. /\ Clamped(r, t) \in Rects /\ Clamped(r, t).x = a /\ Clamped(r, t).y = b
      /\ Clamped(r, t).w = r.w /\ Clamped(r, t).h = r.h
  BY <1>2, <1>4 DEF Rects
<1>6. r.w <= t.w /\ r.h <= t.h - 1 => Inside(Clamped(r, t), t)
  <2> SUFFICES ASSUME r.w <= t.w, r.h <= t.h - 1
               PROVE  Inside(Clamped(r, t), t)
    OBVIOUS
  <2>1. a >= t.x /\ a + r.w <= t.x + t.w
    BY <1>1, <1>3
  <2>2. b >= t.y + 1 /\ b + r.h <= t.y + t.h
    BY <1>1, <1>3
  <2> QED
    BY <1>1, <1>4, <1>5, <2>1, <2>2, RectsAre DEF Inside
<1>7. Inside(r, t) => a = r.x /\ b = r.y
  BY <1>1, <1>3, RectsAre DEF Inside
<1>8. Inside(r, t) => Clamped(r, t) = r
  BY <1>2, <1>7 DEF Rects
<1> QED
  BY <1>5, <1>6, <1>8

LEMMA CentredIs ==
  ASSUME NEW r \in Rects, NEW t \in {Left, Right}
  PROVE  /\ Centred(r, t) \in Rects
         /\ r.w <= t.w /\ r.h <= t.h - 1 => Inside(Centred(r, t), t)
         /\ Centred(r, t).w = r.w /\ Centred(r, t).h = r.h
<1> DEFINE a == t.x + ((t.w - deco.lt - deco.rt - r.w) \div 2) + deco.lt
           b == t.y + ((t.h - deco.up - deco.dn - r.h) \div 2) + deco.up
<1>1. /\ r.x \in Int /\ r.y \in Int /\ r.w \in Int /\ r.h \in Int
      /\ t.x \in Int /\ t.y \in Int /\ t.w \in Int /\ t.h \in Int
  BY RectsAre, FieldsAre
<1>2. Centred(r, t) = [r EXCEPT !.x = a, !.y = b]
  BY DEF Centred, Rects
<1>3. a = t.x + ((t.w - r.w) \div 2) /\ b = t.y + ((t.h - 1 - r.h) \div 2) + 1
  BY <1>1, RectsAre
<1> HIDE DEF a, b
<1>4. a \in Int /\ b \in Int
  BY <1>1, <1>3
<1>5. /\ Centred(r, t) \in Rects /\ Centred(r, t).x = a /\ Centred(r, t).y = b
      /\ Centred(r, t).w = r.w /\ Centred(r, t).h = r.h
  BY <1>2, <1>4 DEF Rects
<1>6. \A n \in Int : n >= 0 => n \div 2 >= 0 /\ n \div 2 <= n /\ n \div 2 \in Int
  OBVIOUS
<1>7. r.w <= t.w => t.x <= a /\ a + r.w <= t.x + t.w
  BY <1>1, <1>3, <1>6
<1>8. r.h <= t.h - 1 => t.y + 1 <= b /\ b + r.h <= t.y + t.h
  BY <1>1, <1>3, <1>6
<1> QED
  BY <1>1, <1>4, <1>5, <1>7, <1>8, RectsAre DEF Inside

\* What the file has of a window that was left, or of none.
Windows == {x \in [first_run : BOOLEAN, rect : Rects] : x.first_run => x.rect = defaults}

\* The display that is chosen for a window that was left is the one that it overlaps most.
LEMMA BestIs ==
  ASSUME NEW r \in Rects, NEW ds \in Setups, Usable(ds) # <<>>
  PROVE  /\ BestDisplay(r, ds, FALSE) \in DOMAIN Usable(ds)
         /\ \A i, j \in DOMAIN Usable(ds) :
              i = BestDisplay(r, ds, FALSE) /\ Overlap(r, Usable(ds)[j]) > 0 =>
                Overlap(r, Usable(ds)[i]) >= Overlap(r, Usable(ds)[j])
<1> DEFINE u == Usable(ds)
<1>1. PICK n \in 0..2 : u \in [1..n -> {Left, Right}]
  BY UsableAre
<1>2. n \in 1..2
  <2>1. n # 0
    <3>1. ASSUME n = 0 PROVE u = <<>>
      BY <1>1, <3>1
    <3> QED
      BY <3>1
  <2> QED
    BY <2>1
<1> DEFINE f == [i \in 1..n |-> Overlap(r, u[i])]
           g == [i \in 1..n |-> -Distance(r, u[i])]
<1> HIDE DEF u
<1>3. DOMAIN u = 1..n
  BY <1>1
<1>4. \A i \in 1..n : Overlap(r, u[i]) \in Int /\ -Distance(r, u[i]) \in Int
  BY <1>1, OverlapType
<1>5. f \in [1..n -> Int] /\ g \in [1..n -> Int]
  BY <1>4
<1>6. BestDisplay(r, ds, FALSE) =
        IF \E i \in 1..n : Overlap(r, u[i]) > 0 THEN FirstBest(f) ELSE FirstBest(g)
  BY <1>3 DEF BestDisplay, u
<1>7. \A i \in 1..n : f[i] = Overlap(r, u[i])
  OBVIOUS
<1> HIDE DEF f, g
<1>8. FirstBest(f) \in 1..n /\ FirstBest(g) \in 1..n /\ \A j \in 1..n : f[FirstBest(f)] >= f[j]
  BY <1>2, <1>5, FirstBestIs
<1> QED
  BY <1>3, <1>6, <1>7, <1>8 DEF u

\* Every place that a window is given is a place; and one that is large enough, and was left,
\* lies on a display, and is as it was if it lay on one before.
LEMMA PlacedIs ==
  ASSUME NEW v \in Windows, NEW ds \in Setups, NEW p \in Placed(v, ds)
  PROVE  /\ p \in Rects
         /\ Usable(ds) # <<>> /\ v.rect.w >= minimum.w /\ v.rect.h >= minimum.h =>
              /\ \E b \in Range(Usable(ds)) : Inside(p, b)
              /\ (\E b \in Range(Usable(ds)) : Inside(v.rect, b)) => p = v.rect
<1> DEFINE u == Usable(ds)
           first == v.first_run
           large == [v.rect EXCEPT !.w = Max({v.rect.w, defaults.w}),
                                   !.h = Max({v.rect.h, defaults.h})]
           best == BestDisplay(large, ds, first)
           t == u[best]
           small == [large EXCEPT !.w = Min({large.w, t.w - deco.lt - deco.rt}),
                                  !.h = Min({large.h, t.h - deco.up - deco.dn})]
<1>1. PICK n \in 0..2 : u \in [1..n -> {Left, Right}]
  BY UsableAre
<1>2. v.rect \in Rects /\ first \in BOOLEAN /\ (first => v.rect = defaults)
  BY DEF Windows
<1>3. PICK r \in Normalized(v.rect, ds, first) :
        p = [r EXCEPT !.w = Max({r.w, minimum.w}), !.h = Max({r.h, minimum.h})]
  BY DEF Placed
<1>4. r \in IF u = <<>> THEN {defaults}
            ELSE IF best \notin DOMAIN u THEN Places
            ELSE IF ~first /\ Overlap(large, t) > 0 THEN {Clamped(small, t)}
            ELSE {Centred(small, t)}
  BY <1>3 DEF Normalized
<1> HIDE DEF u, first
<1>5. /\ large \in Rects /\ large.x = v.rect.x /\ large.y = v.rect.y
      /\ v.rect.w >= 3 /\ v.rect.h >= 3 => large = v.rect
  <2> DEFINE a == Max({v.rect.w, defaults.w})
             b == Max({v.rect.h, defaults.h})
  <2>1. a = (IF v.rect.w >= 2 THEN v.rect.w ELSE 2) /\ v.rect.w \in Int
    BY <1>2, MaxOfTwo, RectsAre, FieldsAre
  <2>2. b = (IF v.rect.h >= 2 THEN v.rect.h ELSE 2) /\ v.rect.h \in Int
    BY <1>2, MaxOfTwo, RectsAre, FieldsAre
  <2>3. large = [v.rect EXCEPT !.w = a, !.h = b]
    OBVIOUS
  <2> HIDE DEF a, b, large
  <2>4. a \in Int /\ b \in Int
    BY <2>1, <2>2
  <2>5. v.rect.w >= 3 /\ v.rect.h >= 3 => a = v.rect.w /\ b = v.rect.h
    BY <2>1, <2>2
  <2> QED
    BY <1>2, <2>3, <2>4, <2>5 DEF Rects
<1> HIDE DEF large
<1>6. ASSUME best \in DOMAIN u
      PROVE  /\ t \in {Left, Right} /\ small \in Rects
             /\ small.x = large.x /\ small.y = large.y
             /\ small.w = (IF large.w <= t.w THEN large.w ELSE t.w)
             /\ small.h = (IF large.h <= t.h - 1 THEN large.h ELSE t.h - 1)
  <2>1. t \in {Left, Right}
    BY <1>1, <1>6
  <2>2. t \in Rects /\ t.w \in Int /\ t.h \in Int /\ large.w \in Int /\ large.h \in Int
    BY <1>5, <2>1, RectsAre, FieldsAre
  <2>3. t.w - deco.lt - deco.rt = t.w /\ t.h - deco.up - deco.dn = t.h - 1 /\ t.h - 1 \in Int
    BY <2>2, RectsAre
  <2>4. Min({large.w, t.w}) = (IF large.w <= t.w THEN large.w ELSE t.w)
    BY <2>2, MinOfTwo
  <2>5. Min({large.h, t.h - 1}) = (IF large.h <= t.h - 1 THEN large.h ELSE t.h - 1)
    BY <2>2, <2>3, MinOfTwo
  <2> HIDE DEF t
  <2> QED
    BY <1>5, <2>1, <2>2, <2>3, <2>4, <2>5 DEF Rects
<1> HIDE DEF small
<1>7. r \in Rects
  <2>1. CASE u = <<>>
    BY <1>4, <2>1, RectsAre
  <2>2. CASE u # <<>> /\ best \notin DOMAIN u
    BY <1>4, <2>2, RectsAre
  <2>3. CASE u # <<>> /\ best \in DOMAIN u
    <3>1. r = Clamped(small, t) \/ r = Centred(small, t)
      BY <1>4, <2>3
    <3>2. small \in Rects /\ t \in {Left, Right}
      BY <1>6, <2>3
    <3> QED
      BY <3>1, <3>2, ClampedIs, CentredIs
  <2> QED
    BY <2>1, <2>2, <2>3
<1>8. /\ p \in Rects /\ p.x = r.x /\ p.y = r.y
      /\ r.w >= 3 /\ r.h >= 3 => p = r
  <2> DEFINE a == Max({r.w, minimum.w})
             b == Max({r.h, minimum.h})
  <2>1. a = (IF r.w >= 3 THEN r.w ELSE 3) /\ r.w \in Int
    BY <1>7, MaxOfTwo, RectsAre, FieldsAre
  <2>2. b = (IF r.h >= 3 THEN r.h ELSE 3) /\ r.h \in Int
    BY <1>7, MaxOfTwo, RectsAre, FieldsAre
  <2>3. p = [r EXCEPT !.w = a, !.h = b]
    BY <1>3
  <2> HIDE DEF a, b
  <2>4. a \in Int /\ b \in Int
    BY <2>1, <2>2
  <2>5. r.w >= 3 /\ r.h >= 3 => a = r.w /\ b = r.h
    BY <2>1, <2>2
  <2> QED
    BY <1>7, <2>3, <2>4, <2>5 DEF Rects
<1>9. ASSUME u # <<>>, v.rect.w >= 3, v.rect.h >= 3
      PROVE  /\ \E b \in Range(u) : Inside(p, b)
             /\ (\E b \in Range(u) : Inside(v.rect, b)) => p = v.rect
  <2>1. first = FALSE /\ large = v.rect
    BY <1>2, <1>5, <1>9, RectsAre
  <2>2. best = BestDisplay(v.rect, ds, FALSE)
    BY <2>1
  <2> HIDE DEF best
  <2>3. /\ best \in DOMAIN u
        /\ \A j \in DOMAIN u :
             Overlap(v.rect, u[j]) > 0 => Overlap(v.rect, u[best]) >= Overlap(v.rect, u[j])
    BY <1>2, <1>9, <2>2, BestIs DEF u
  <2>4. /\ t \in {Left, Right} /\ small \in Rects
        /\ small.x = v.rect.x /\ small.y = v.rect.y
        /\ small.w = (IF v.rect.w <= t.w THEN v.rect.w ELSE t.w)
        /\ small.h = (IF v.rect.h <= t.h - 1 THEN v.rect.h ELSE t.h - 1)
    BY <1>6, <2>1, <2>3
  <2>5. /\ v.rect.w \in Int /\ v.rect.h \in Int /\ t.w \in Int /\ t.h \in Int
        /\ t.w >= 4 /\ t.h >= 5
    BY <1>2, <2>4, RectsAre, FieldsAre
  <2>6. small.w <= t.w /\ small.h <= t.h - 1 /\ small.w >= 3 /\ small.h >= 3
    BY <1>9, <2>4, <2>5
  <2>7. r = IF Overlap(v.rect, t) > 0 THEN Clamped(small, t) ELSE Centred(small, t)
    BY <1>4, <1>9, <2>1, <2>3
  <2>8. Inside(r, t) /\ r.w = small.w /\ r.h = small.h
    BY <2>4, <2>6, <2>7, ClampedIs, CentredIs
  <2>9. p = r
    BY <1>8, <2>6, <2>8
  <2>10. t \in Range(u)
    BY <2>3 DEF Range
  <2>11. ASSUME NEW b \in Range(u), Inside(v.rect, b) PROVE p = v.rect
    <3>1. PICK j \in DOMAIN u : u[j] = b
      BY <2>11 DEF Range
    <3>2. b \in {Left, Right}
      BY <1>1, <3>1
    <3>3. b = t
      <4> SUFFICES ASSUME b # t PROVE FALSE
        OBVIOUS
      <4>1. Overlap(v.rect, b) > 0 /\ Overlap(v.rect, t) = 0
        BY <1>2, <1>9, <2>4, <2>11, <3>2, InsideOverlaps
      <4>2. Overlap(v.rect, t) >= Overlap(v.rect, b)
        BY <2>3, <3>1, <4>1
      <4> QED
        BY <1>2, <3>2, <4>1, <4>2, OverlapType
    <3>4. v.rect.w <= t.w /\ v.rect.h <= t.h - 1
      <4>1. /\ v.rect.x \in Int /\ v.rect.y \in Int /\ t.x \in Int /\ t.y \in Int
        BY <1>2, <2>4, RectsAre, FieldsAre
      <4> QED
        BY <2>5, <2>11, <3>3, <4>1, RectsAre DEF Inside
    <3>5. small = v.rect
      BY <1>2, <2>4, <3>4 DEF Rects
    <3>6. Overlap(v.rect, t) > 0
      <4>1. \E o \in {Left, Right} : o # t
        BY <3>2, RectsAre
      <4> QED
        BY <1>2, <1>9, <2>11, <3>2, <3>3, <4>1, InsideOverlaps
    <3> QED
      BY <2>7, <2>9, <2>11, <2>4, <3>3, <3>5, <3>6, ClampedIs
  <2> QED
    BY <2>8, <2>9, <2>10, <2>11
<1> QED
  BY <1>8, <1>9, RectsAre DEF u

-----------------------------------------------------------------------------
\* What the file may have for a key.
IsValue(x) ==
  /\ which = "volume" => x \in Nat
  /\ which = "mru" => \E m \in MruFiles : GetArray(x) = export_mru(m)
  /\ which = "window" => x \in Windows

\* What the services may have.
IsTaken(x) ==
  /\ which = "volume" => x \in 0..MaxVolume
  /\ which = "mru" => x \in MruFiles
  /\ which = "window" => x \in Rects

\* The file has nothing, or a value.
FileIsValue == file = <<>> \/ \E x : file = <<x>> /\ IsValue(x)

\* What the next start finds is allowed.
NextIsAllowed == up # "writing" =>
  update_map_from_config(parse_app_config_file(TRUE)) \in allowed

\* So is what it finds after a crash while the file is written.
TornIsAllowed == up = "writing" =>
  /\ IsValue(table) /\ update_map_from_config(table) = table
  /\ table \in allowed /\ Default \in allowed
  /\ which = "window" => ~table.first_run
  /\ Remains(table) \subseteq allowed

SettingsIInv ==
  /\ which \in {"volume", "mru", "window", "home"} /\ up \in {"off", "running", "writing"}
  /\ fresh \in BOOLEAN /\ (fresh => up = "running")
  /\ up = "running" => IsTaken(value)
  /\ which = "home" => displays \in Homes
  /\ FileIsValue /\ NextIsAllowed /\ TornIsAllowed /\ SettingsSurvive

\* What there is when the file has nothing.
LEMMA DefaultIs ==
  ASSUME which \in {"volume", "mru", "window", "home"}
  PROVE  IsValue(Default) /\ update_map_from_config(Default) = Default
<1>1. CASE which = "volume"
  BY <1>1, VolumeAssumption DEF Default, IsValue, update_map_from_config
<1>2. CASE which = "mru"
  <2>1. <<>> \in MruFiles
    BY EmptySeq, LimitAssumption DEF MruFiles
  <2>2. GetArray(export_mru(<<>>)) = export_mru(<<>>)
    BY <2>1, ArrayIs
  <2> QED
    BY <1>2, <2>1, <2>2 DEF Default, IsValue, update_map_from_config
<1>3. CASE which = "window"
  BY <1>3, RectsAre DEF Default, IsValue, update_map_from_config, Windows
<1>4. CASE which = "home"
  BY <1>4 DEF IsValue, update_map_from_config
<1> QED
  BY <1>1, <1>2, <1>3, <1>4

\* What is written when the application quits.
LEMMA ExportedIs ==
  ASSUME which \in {"volume", "mru", "window", "home"}, IsTaken(value)
  PROVE  IsValue(Exported) /\ update_map_from_config(Exported) = Exported
<1>1. CASE which = "volume"
  BY <1>1, VolumeAssumption DEF Exported, ExportedVolume, IsTaken, IsValue, update_map_from_config
<1>2. CASE which = "mru"
  <2>1. value \in MruFiles
    BY <1>2 DEF IsTaken
  <2>2. GetArray(export_mru(value)) = export_mru(value)
    BY <2>1, ArrayIs
  <2> QED
    BY <1>2, <2>1, <2>2 DEF Exported, IsValue, update_map_from_config
<1>3. CASE which = "window"
  BY <1>3 DEF Exported, ExportedWindow, IsTaken, IsValue, update_map_from_config, Windows
<1>4. CASE which = "home"
  BY <1>4 DEF IsValue, update_map_from_config
<1> QED
  BY <1>1, <1>2, <1>3, <1>4

\* A number that was cut is a number, and a place of which numbers were cut is a place.
LEMMA CutIs ==
  ASSUME NEW n \in Int PROVE Cut(n) \subseteq Int
<1>1. Min({0, n}) \in Int /\ Max({0, n}) \in Int
  BY MinOfTwo, MaxOfTwo
<1> QED
  BY <1>1 DEF Cut

LEMMA CutRectIs ==
  ASSUME NEW r \in Rects PROVE CutRect(r) \subseteq Rects
<1>1. /\ Cut(r.x) \subseteq Int /\ Cut(r.y) \subseteq Int
      /\ Cut(r.h) \subseteq Int /\ Cut(r.w) \subseteq Int
  BY FieldsAre, CutIs
<1>2. defaults \in Rects /\ defaults.w \in Int /\ r.x \in Int
  BY RectsAre, FieldsAre
<1>3. \A n \in Int : /\ [defaults EXCEPT !.x = n] \in Rects
                     /\ [defaults EXCEPT !.x = r.x, !.y = n] \in Rects
                     /\ [r EXCEPT !.w = defaults.w, !.h = n] \in Rects
                     /\ [r EXCEPT !.w = n] \in Rects
  BY <1>2 DEF Rects
<1> QED
  BY <1>1, <1>2, <1>3 DEF CutRect

\* What is left of a value is a value.
LEMMA RemainsAre ==
  ASSUME which \in {"volume", "mru", "window", "home"}, NEW x, IsValue(x),
         which = "window" => ~x.first_run, NEW v \in Remains(x)
  PROVE  IsValue(v) /\ (v = x \/ update_map_from_config(v) = v)
<1>1. CASE which = "volume"
  <2>1. x \in Nat /\ v \in CutVolume(x) /\ MaxVolume \in Nat
    BY <1>1, VolumeAssumption DEF IsValue, Remains
  <2>2. v \in Nat
    <3>1. CASE x = MaxVolume
      BY <2>1, <3>1 DEF CutVolume
    <3>2. CASE x # MaxVolume
      <4>1. v \in 0..x \/ v = MaxVolume + 1
        BY <2>1, <3>2 DEF CutVolume
      <4> QED
        BY <2>1, <4>1
    <3> QED
      BY <3>1, <3>2
  <2> QED
    BY <1>1, <2>2 DEF IsValue, update_map_from_config
<1>2. CASE which = "window"
  <2>1. x \in Windows /\ ~x.first_run
    BY <1>2 DEF IsValue
  <2>2. x.rect \in Rects
    BY <2>1 DEF Windows
  <2>3. PICK r \in CutRect(x.rect) : v = [x EXCEPT !.rect = r]
    BY <1>2 DEF Remains
  <2>4. r \in Rects
    BY <2>2, CutRectIs
  <2>5. v \in Windows
    BY <2>1, <2>3, <2>4 DEF Windows
  <2> QED
    BY <1>2, <2>5 DEF IsValue, update_map_from_config
<1>3. CASE which \in {"mru", "home"}
  BY <1>3 DEF Remains
<1> QED
  BY <1>1, <1>2, <1>3

\* What is taken of a value that was read.
LEMMA TakenVolumeIs ==
  ASSUME NEW n \in Nat
  PROVE  /\ TakenVolume(n) \in 0..MaxVolume
         /\ TakenVolume(n) = IF n > MaxVolume THEN MaxVolume ELSE n
<1>1. MaxVolume \in Nat
  BY VolumeAssumption
<1>2. Min({MaxVolume, n}) = IF MaxVolume <= n THEN MaxVolume ELSE n
  BY <1>1, MinOfTwo
<1>3. Min({MaxVolume, n}) \in Nat
  BY <1>1, <1>2
<1>4. Max({0, Min({MaxVolume, n})}) = Min({MaxVolume, n})
  <2>1. \A k \in Nat : Max({0, k}) = k
    <3> TAKE k \in Nat
    <3>1. Max({0, k}) = IF 0 >= k THEN 0 ELSE k
      BY MaxOfTwo
    <3> QED
      BY <3>1
  <2> QED
    BY <1>3, <2>1
<1> QED
  BY <1>1, <1>2, <1>4 DEF TakenVolume

LEMMA TakenFilesIs ==
  ASSUME NEW m \in MruFiles
  PROVE  LET taken == Restored(export_mru(m))
         IN  /\ taken \in MruFiles /\ IsInjective(taken) /\ Len(taken) <= s_mru_limit
             /\ IsInjective(Filtered(export_mru(m), Files)) =>
                  export_mru(taken) = export_mru(m)
<1> DEFINE e == export_mru(m)
           taken == Restored(e)
<1>1. e \in Seq(Files \cup {NoFile}) /\ Len(e) = s_mru_limit
  BY ArrayIs
<1>2. IsInjective(Filtered(e, Files)) => taken = m
  BY ArrayIsDistinct, ArrayIsRestored
<1> HIDE DEF e
<1>3. taken \in MruFiles /\ Distinct(taken)
  BY <1>1, RestoredFunction, LimitAssumption
<1> HIDE DEF taken
<1>4. taken \in Seq(Files) /\ Len(taken) <= s_mru_limit
  BY <1>3 DEF MruFiles
<1>5. DOMAIN taken = 1..Len(taken)
  BY <1>4, LenProperties
<1>6. IsInjective(taken)
  BY <1>3, <1>5 DEF Distinct, IsInjective
<1> QED
  BY <1>2, <1>3, <1>4, <1>6 DEF e, taken

LEMMA HomeIs ==
  ASSUME NEW h \in Homes
  PROVE  LET d == set_home_path(h)
         IN  /\ d = "" \/ h.is[d] = "open"
             /\ h.named => d \in {"", "named"}
             /\ h.portable /\ ~h.named => d \in {"", "base"}
<1> DEFINE tried == IF h.named THEN <<"named">> ELSE IF h.portable THEN <<"base">>
                    ELSE IF h.marked THEN <<"base", "home">> ELSE <<"home">>
           good == Filtered(tried, {d \in Range(tried) : is_writable_directory(h, d)})
           D == {"named", "base", "home"}
<1>1. tried \in Seq(D)
  <2>1. /\ <<"named">> \in Seq(D) /\ <<"base">> \in Seq(D)
        /\ <<"base", "home">> \in Seq(D) /\ <<"home">> \in Seq(D)
    OBVIOUS
  <2> QED
    BY <2>1
<1>2. /\ h.named => \A d : Contains(tried, d) => d = "named"
      /\ h.portable /\ ~h.named => \A d : Contains(tried, d) => d = "base"
  BY DEF Contains
<1>3. set_home_path(h) = IF good = <<>> THEN "" ELSE good[1]
  BY DEF set_home_path
<1> HIDE DEF tried
<1>4. /\ good \in Seq(D)
      /\ \A d : Contains(good, d) => Contains(tried, d) /\ is_writable_directory(h, d)
  BY <1>1, FilteredMembers
<1> HIDE DEF good
<1>5. CASE good = <<>>
  BY <1>3, <1>5
<1>6. CASE good # <<>>
  <2>1. 1 \in 1..Len(good)
    BY <1>4, <1>6, EmptySeq, LenProperties
  <2>2. Contains(good, good[1])
    BY <2>1 DEF Contains
  <2>3. h.is[good[1]] = "open"
    BY <1>4, <2>2 DEF is_writable_directory
  <2>4. Contains(tried, good[1])
    BY <1>4, <2>2
  <2>5. h.named => good[1] = "named"
    BY <1>2, <2>4
  <2>6. h.portable /\ ~h.named => good[1] = "base"
    BY <1>2, <2>4
  <2>7. set_home_path(h) = good[1]
    BY <1>3, <1>6
  <2> QED
    BY <2>3, <2>5, <2>6, <2>7
<1> QED
  BY <1>5, <1>6

-----------------------------------------------------------------------------
LEMMA InitSettings == SettingsInit => SettingsIInv
<1> SUFFICES ASSUME SettingsInit PROVE SettingsIInv
  OBVIOUS
<1>1. /\ which \in {"volume", "mru", "window", "home"} /\ up = "off" /\ file = <<>>
      /\ fresh = FALSE /\ allowed = {Default} /\ (which = "home" => displays \in Homes)
  BY DEF SettingsInit
<1>2. FileIsValue /\ TornIsAllowed
  BY <1>1 DEF FileIsValue, TornIsAllowed
<1>3. NextIsAllowed
  BY <1>1, DefaultIs DEF NextIsAllowed, parse_app_config_file
<1>4. SettingsSurvive
  BY <1>1 DEF SettingsSurvive, WindowOnOneDisplay
<1> QED
  BY <1>1, <1>2, <1>3, <1>4 DEF SettingsIInv

\* The application starts, and may not be able to read the file.
LEMMA StartKeepsSettings ==
  ASSUME SettingsIInv, NEW readable \in BOOLEAN, Start(readable)
  PROVE  SettingsIInv'
<1>1. /\ up = "off" /\ up' = "running" /\ fresh' = readable
      /\ table' = parse_app_config_file(readable) /\ asked' = update_map_from_config(table')
      /\ displays' \in (IF which = "window" THEN Setups ELSE {displays})
      /\ value' \in Taken(asked', displays')
      /\ which' = which /\ file' = file /\ allowed' = allowed
  BY DEF Start
<1>2. which \in {"volume", "mru", "window", "home"} /\ (which = "home" => displays \in Homes)
  BY DEF SettingsIInv
<1>3. IsValue(table')
  <2>1. CASE table' = Default
    BY <1>2, <2>1, DefaultIs
  <2>2. CASE table' # Default
    <3>1. table' = file[1] /\ file # <<>>
      BY <1>1, <2>2 DEF parse_app_config_file
    <3>2. PICK x : file = <<x>> /\ IsValue(x)
      BY <3>1 DEF SettingsIInv, FileIsValue
    <3>3. table' = x
      BY <3>1, <3>2
    <3> QED
      BY <3>2, <3>3
  <2> QED
    BY <2>1, <2>2
<1>4. readable => asked' \in allowed
  <2> SUFFICES ASSUME readable PROVE asked' \in allowed
    OBVIOUS
  <2>1. table' = parse_app_config_file(TRUE)
    BY <1>1 DEF parse_app_config_file
  <2> QED
    BY <1>1, <2>1 DEF SettingsIInv, NextIsAllowed
<1>5. ASSUME which = "volume" PROVE IsTaken(value)' /\ SettingsSurvive'
  <2>1. asked' = table' /\ table' \in Nat
    BY <1>1, <1>3, <1>5 DEF update_map_from_config, IsValue
  <2>2. value' = TakenVolume(asked')
    BY <1>1, <1>5 DEF Taken
  <2>3. IsTaken(value)'
    BY <1>1, <1>5, <2>1, <2>2, TakenVolumeIs DEF IsTaken
  <2>4. SettingsSurvive'
    BY <1>1, <1>4, <1>5, <2>1, <2>2, TakenVolumeIs DEF SettingsSurvive, WindowOnOneDisplay
  <2> QED
    BY <2>3, <2>4
<1>6. ASSUME which = "mru" PROVE IsTaken(value)' /\ SettingsSurvive'
  <2>1. PICK m \in MruFiles : asked' = export_mru(m)
    BY <1>1, <1>3, <1>6 DEF update_map_from_config, IsValue
  <2>2. value' = Restored(asked')
    BY <1>1, <1>6 DEF Taken
  <2>3. /\ value' \in MruFiles /\ IsInjective(value') /\ Len(value') <= s_mru_limit
        /\ IsInjective(Filtered(asked', Files)) => export_mru(value') = asked'
    BY <2>1, <2>2, TakenFilesIs
  <2>4. IsTaken(value)'
    BY <1>1, <1>6, <2>3 DEF IsTaken
  <2>5. SettingsSurvive'
    BY <1>1, <1>4, <1>6, <2>3 DEF SettingsSurvive, WindowOnOneDisplay
  <2> QED
    BY <2>4, <2>5
<1>7. ASSUME which = "window" PROVE IsTaken(value)' /\ SettingsSurvive'
  <2>1. asked' \in Windows /\ displays' \in Setups
    BY <1>1, <1>3, <1>7 DEF update_map_from_config, IsValue
  <2>2. value' \in Placed(asked', displays')
    BY <1>1, <1>7 DEF Taken
  <2>3. /\ value' \in Rects
        /\ Usable(displays') # <<>> /\ asked'.rect.w >= minimum.w /\ asked'.rect.h >= minimum.h =>
              /\ \E b \in Range(Usable(displays')) : Inside(value', b)
              /\ (\E b \in Range(Usable(displays')) : Inside(asked'.rect, b)) =>
                   value' = asked'.rect
    BY <2>1, <2>2, PlacedIs
  <2>4. IsTaken(value)'
    BY <1>1, <1>7, <2>3 DEF IsTaken
  <2>5. SettingsSurvive'
    BY <1>1, <1>4, <1>7, <2>3 DEF SettingsSurvive, WindowOnOneDisplay
  <2> QED
    BY <2>4, <2>5
<1>8. ASSUME which = "home" PROVE IsTaken(value)' /\ SettingsSurvive'
  <2>1. displays' = displays /\ displays \in Homes
    BY <1>1, <1>2, <1>8
  <2>2. value' = set_home_path(displays')
    BY <1>1, <1>8 DEF Taken
  <2>3. IsTaken(value)'
    BY <1>1, <1>8 DEF IsTaken
  <2>4. SettingsSurvive'
    BY <1>1, <1>4, <1>8, <2>1, <2>2, HomeIs DEF SettingsSurvive, WindowOnOneDisplay
  <2> QED
    BY <2>3, <2>4
<1>9. IsTaken(value)' /\ SettingsSurvive'
  BY <1>2, <1>5, <1>6, <1>7, <1>8
<1>10. FileIsValue'
  BY <1>1 DEF SettingsIInv, FileIsValue, IsValue
<1>11. NextIsAllowed' /\ TornIsAllowed'
  BY <1>1 DEF SettingsIInv, NextIsAllowed, TornIsAllowed, parse_app_config_file, Default,
     update_map_from_config
<1>12. which' = "home" => displays' \in Homes
  BY <1>1, <1>2
<1> QED
  BY <1>1, <1>2, <1>9, <1>10, <1>11, <1>12 DEF SettingsIInv

\* The values that the user makes.
LEMMA ChangeKeepsSettings ==
  ASSUME SettingsIInv, Change PROVE SettingsIInv'
<1>1. /\ up = "running" /\ fresh' = FALSE
      /\ UNCHANGED <<which, up, file, table, asked, displays, allowed>>
  BY DEF Change
<1>2. which \in {"volume", "mru", "window", "home"} /\ which # "home" /\ IsTaken(value)
  BY <1>1 DEF SettingsIInv, Change
<1>3. ASSUME which = "volume" PROVE IsTaken(value)'
  <2>1. PICK by \in {-1, 1} : value' = Max({0, Min({MaxVolume, value + by})})
    BY <1>3 DEF Change
  <2>2. value \in 0..MaxVolume /\ MaxVolume \in Nat /\ value + by \in Int
    BY <1>2, <1>3, VolumeAssumption DEF IsTaken
  <2>3. Min({MaxVolume, value + by}) = IF MaxVolume <= value + by THEN MaxVolume ELSE value + by
    BY <2>2, MinOfTwo
  <2>4. Min({MaxVolume, value + by}) \in Int /\ Min({MaxVolume, value + by}) <= MaxVolume
    BY <2>2, <2>3
  <2>5. \A k \in Int : k <= MaxVolume => Max({0, k}) \in 0..MaxVolume
    <3> SUFFICES ASSUME NEW k \in Int, k <= MaxVolume PROVE Max({0, k}) \in 0..MaxVolume
      OBVIOUS
    <3>1. Max({0, k}) = IF 0 >= k THEN 0 ELSE k
      BY MaxOfTwo
    <3> QED
      BY <2>2, <3>1
  <2>6. value' \in 0..MaxVolume
    BY <2>1, <2>4, <2>5
  <2> QED
    BY <1>1, <1>3, <2>6 DEF IsTaken
<1>4. ASSUME which = "mru" PROVE IsTaken(value)'
  <2>1. PICK f \in Files : value' = Insert(value, f) \/ value' = EraseFile(value, f)
    BY <1>4 DEF Change
  <2>2. value \in MruFiles
    BY <1>2, <1>4 DEF IsTaken
  <2>3. value' \in MruFiles
    BY <2>1, <2>2, InsertKeeps, EraseKeeps
  <2> QED
    BY <1>1, <1>4, <2>3 DEF IsTaken
<1>5. ASSUME which = "window" PROVE IsTaken(value)'
  <2>1. value' \in Places
    BY <1>5 DEF Change
  <2> QED
    BY <1>1, <1>5, <2>1, RectsAre DEF IsTaken
<1>6. IsTaken(value)'
  BY <1>2, <1>3, <1>4, <1>5
<1>7. FileIsValue' /\ NextIsAllowed' /\ TornIsAllowed'
  BY <1>1 DEF SettingsIInv, FileIsValue, IsValue, NextIsAllowed, TornIsAllowed,
     parse_app_config_file, Default, update_map_from_config
<1>8. SettingsSurvive'
  BY <1>1 DEF SettingsSurvive, WindowOnOneDisplay
<1> QED
  BY <1>1, <1>6, <1>7, <1>8 DEF SettingsIInv

\* The application quits and begins to write, or it cannot.
LEMMA BeginKeepsSettings ==
  ASSUME SettingsIInv, BeginWrite PROVE SettingsIInv'
<1>1. which \in {"volume", "mru", "window", "home"} /\ up = "running" /\ IsTaken(value)
  BY DEF SettingsIInv, BeginWrite
<1>2. CASE /\ up' = "writing" /\ file' = <<>>
           /\ allowed' = {Default, Exported} \cup Remains(Exported)
           /\ table' = Exported /\ fresh' = FALSE
           /\ UNCHANGED <<which, value, asked, displays>>
  <2>1. FileIsValue' /\ NextIsAllowed'
    BY <1>2 DEF FileIsValue, NextIsAllowed
  <2>2. IsValue(Exported) /\ update_map_from_config(Exported) = Exported
    BY <1>1, ExportedIs
  <2>3. TornIsAllowed'
    <3> DEFINE x == Exported
    <3>1. /\ table' = x /\ which' = which /\ IsValue(x) /\ update_map_from_config(x) = x
          /\ x \in allowed' /\ Default \in allowed' /\ Remains(x) \subseteq allowed'
      BY <1>2, <2>2
    <3>2. which = "window" => ~x.first_run
      BY DEF Exported, ExportedWindow
    <3> HIDE DEF x
    <3>3. IsValue(table)' /\ update_map_from_config(table)' = table' /\ Default' = Default
      BY <3>1 DEF IsValue, update_map_from_config, Default
    <3>4. Remains(table)' = Remains(x)
      BY <3>1 DEF Remains
    <3> QED
      BY <3>1, <3>2, <3>3, <3>4 DEF TornIsAllowed
  <2>4. SettingsSurvive'
    BY <1>2 DEF SettingsSurvive, WindowOnOneDisplay
  <2> QED
    BY <1>1, <1>2, <2>1, <2>3, <2>4 DEF SettingsIInv
<1>3. CASE Ended /\ UNCHANGED <<which, file, allowed>>
  <2>1. /\ up' = "off" /\ fresh' = FALSE /\ (which = "home" => displays' = displays)
        /\ UNCHANGED <<which, file, allowed>>
    BY <1>3 DEF Ended
  <2>2. FileIsValue' /\ NextIsAllowed' /\ TornIsAllowed'
    BY <1>1, <2>1 DEF SettingsIInv, FileIsValue, IsValue, NextIsAllowed, TornIsAllowed,
       parse_app_config_file, Default, update_map_from_config
  <2>3. SettingsSurvive'
    BY <2>1 DEF SettingsSurvive, WindowOnOneDisplay
  <2> QED
    BY <1>1, <2>1, <2>2, <2>3 DEF SettingsIInv
<1> QED
  BY <1>2, <1>3 DEF BeginWrite

\* The file is written to its end.
LEMMA EndKeepsSettings ==
  ASSUME SettingsIInv, EndWrite PROVE SettingsIInv'
<1>1. /\ up = "writing" /\ file' = <<table>> /\ allowed' = {table} /\ which' = which
      /\ up' = "off" /\ fresh' = FALSE /\ (which = "home" => displays' = displays)
  BY DEF EndWrite, Ended
<1>2. IsValue(table) /\ update_map_from_config(table) = table
  BY <1>1 DEF SettingsIInv, TornIsAllowed
<1>3. FileIsValue'
  BY <1>1, <1>2 DEF FileIsValue, IsValue
<1>4. NextIsAllowed'
  <2>1. file'[1] = table /\ file' # <<>>
    BY <1>1
  <2> QED
    BY <1>1, <1>2, <2>1 DEF NextIsAllowed, parse_app_config_file, update_map_from_config
<1>5. TornIsAllowed' /\ SettingsSurvive'
  BY <1>1 DEF TornIsAllowed, SettingsSurvive, WindowOnOneDisplay
<1> QED
  BY <1>1, <1>3, <1>4, <1>5 DEF SettingsIInv

\* The application is gone, also in the middle of the writing.
LEMMA CrashKeepsSettings ==
  ASSUME SettingsIInv, Crash PROVE SettingsIInv'
<1>1. /\ which \in {"volume", "mru", "window", "home"} /\ UNCHANGED <<which, allowed>>
      /\ up' = "off" /\ fresh' = FALSE /\ (which = "home" => displays' = displays)
      /\ up \in {"running", "writing"}
  BY DEF SettingsIInv, Crash, Ended
<1>2. TornIsAllowed' /\ SettingsSurvive'
  BY <1>1 DEF TornIsAllowed, SettingsSurvive, WindowOnOneDisplay
<1>3. FileIsValue' /\ NextIsAllowed'
  <2>1. CASE up = "running"
    <3>1. file' = file
      BY <2>1 DEF Crash
    <3>2. FileIsValue'
      BY <1>1, <3>1 DEF SettingsIInv, FileIsValue, IsValue
    <3>3. NextIsAllowed'
      BY <1>1, <2>1, <3>1 DEF SettingsIInv, NextIsAllowed, parse_app_config_file, Default,
         update_map_from_config
    <3> QED
      BY <3>2, <3>3
  <2>2. CASE up = "writing"
    <3>1. /\ IsValue(table) /\ update_map_from_config(table) = table
          /\ table \in allowed /\ Default \in allowed /\ Remains(table) \subseteq allowed
          /\ which = "window" => ~table.first_run
      BY <2>2 DEF SettingsIInv, TornIsAllowed
    <3>2. file' \in Torn
      BY <2>2 DEF Crash
    <3>3. CASE file' = <<>>
      <4>1. FileIsValue'
        BY <3>3 DEF FileIsValue
      <4>2. update_map_from_config(Default) = Default
        BY <1>1, DefaultIs
      <4>3. NextIsAllowed'
        BY <1>1, <3>1, <3>3, <4>2 DEF NextIsAllowed, parse_app_config_file, Default,
           update_map_from_config
      <4> QED
        BY <4>1, <4>3
    <3>4. ASSUME NEW x, file' = <<x>>, IsValue(x), update_map_from_config(x) \in allowed
          PROVE  FileIsValue' /\ NextIsAllowed'
      <4>1. file' # <<>> /\ file'[1] = x
        BY <3>4
      <4> QED
        BY <1>1, <3>4, <4>1 DEF FileIsValue, IsValue, NextIsAllowed, parse_app_config_file,
           update_map_from_config
    <3>5. CASE \E v \in Remains(table) : file' = <<v>>
      <4>1. PICK v \in Remains(table) : file' = <<v>>
        BY <3>5
      <4>2. IsValue(v) /\ (v = table \/ update_map_from_config(v) = v)
        BY <1>1, <3>1, RemainsAre
      <4>3. update_map_from_config(v) \in allowed
        BY <3>1, <4>2
      <4> QED
        BY <3>4, <4>1, <4>2, <4>3
    <3> QED
      BY <3>2, <3>3, <3>5 DEF Torn
  <2> QED
    BY <1>1, <2>1, <2>2
<1> QED
  BY <1>1, <1>2, <1>3 DEF SettingsIInv

\* A list with each of the files is a list of files.
LEMMA AllFiles == SetToSeq(Files) \in Seq(Files)
<1> DEFINE n == Cardinality(Files)
<1>1. \E k \in Nat : ExistsBijection(1..k, Files)
  BY FilesAssumption, FS_NatBijection
<1>2. n \in Nat /\ ExistsBijection(1..n, Files)
  BY <1>1, FS_CountingElements
<1>3. \E f \in [1..n -> Files] : IsInjective(f)
  BY <1>2 DEF ExistsBijection, Bijection, Injection
<1>4. SetToSeq(Files) \in [1..n -> Files]
  BY <1>3 DEF SetToSeq
<1> QED
  BY <1>2, <1>4

\* The user writes the file.
LEMMA EditKeepsSettings ==
  ASSUME SettingsIInv, EditFile PROVE SettingsIInv'
<1>1. PICK v \in Edits :
        /\ up = "off" /\ file' = <<v>>
        /\ allowed' = {IF which = "mru" THEN GetArray(v) ELSE v}
        /\ UNCHANGED <<which, up, table, value, asked, displays, fresh>>
  BY DEF EditFile
<1>2. which \in {"volume", "mru", "window", "home"} /\ fresh = FALSE
  BY <1>1 DEF SettingsIInv
<1>3. IsValue(v)
  <2>1. CASE which = "volume"
    BY <1>1, <2>1, VolumeAssumption DEF Edits, IsValue
  <2>2. CASE which = "mru"
    <3>1. v \in {<<f, f>> : f \in Files} \cup {SetToSeq(Files)}
      BY <1>1, <2>2 DEF Edits
    <3>2. \A f \in Files : <<f, f>> \in Seq(Files)
      OBVIOUS
    <3>3. v \in Seq(Files)
      BY <3>1, <3>2, AllFiles
    <3> QED
      BY <2>2, <3>3, ReadIsArray DEF IsValue
  <2>3. CASE which \in {"window", "home"}
    BY <1>1, <2>3 DEF Edits
  <2> QED
    BY <1>2, <2>1, <2>2, <2>3
<1>4. FileIsValue'
  BY <1>1, <1>3 DEF FileIsValue, IsValue
<1>5. NextIsAllowed'
  <2>1. file' # <<>> /\ file'[1] = v
    BY <1>1
  <2> QED
    BY <1>1, <2>1 DEF NextIsAllowed, parse_app_config_file, update_map_from_config
<1>6. TornIsAllowed' /\ SettingsSurvive'
  BY <1>1, <1>2 DEF TornIsAllowed, SettingsSurvive, WindowOnOneDisplay
<1> QED
  BY <1>1, <1>2, <1>4, <1>5, <1>6 DEF SettingsIInv

LEMMA StepSettings == SettingsIInv /\ [SettingsNext]_settingsVars => SettingsIInv'
<1> SUFFICES ASSUME SettingsIInv, [SettingsNext]_settingsVars PROVE SettingsIInv'
  OBVIOUS
<1>1. CASE UNCHANGED settingsVars
  <2>1. UNCHANGED <<which, up, file, table, value, asked, displays, allowed, fresh>>
    BY <1>1 DEF settingsVars
  <2>2. FileIsValue' /\ IsTaken(value)' = IsTaken(value)
    BY <2>1 DEF SettingsIInv, FileIsValue, IsValue, IsTaken
  <2>3. NextIsAllowed'
    BY <2>1 DEF SettingsIInv, NextIsAllowed, parse_app_config_file, Default,
       update_map_from_config
  <2>6. Remains(table)' = Remains(table)
    BY <2>1 DEF Remains
  <2>4. TornIsAllowed'
    BY <2>1, <2>6 DEF SettingsIInv, TornIsAllowed, IsValue, Default, update_map_from_config
  <2>5. SettingsSurvive'
    BY <2>1 DEF SettingsIInv, SettingsSurvive, WindowOnOneDisplay
  <2> QED
    BY <2>1, <2>2, <2>3, <2>4, <2>5 DEF SettingsIInv
<1>2. CASE \E readable \in BOOLEAN : Start(readable)
  BY <1>2, StartKeepsSettings
<1> QED
  BY <1>1, <1>2, ChangeKeepsSettings, BeginKeepsSettings, EndKeepsSettings,
     CrashKeepsSettings, EditKeepsSettings DEF SettingsNext

\* What one session leaves the next one finds, whatever display is gone between them, and after
\* a crash while it was written the default or numbers that were cut:
\* the volume, the files, the window and the home directory of ApplicationHost.cpp.
THEOREM SettingsAreKept == SettingsSpec => []SettingsSurvive
<1>1. SettingsIInv => SettingsSurvive
  BY DEF SettingsIInv
<1> QED
  BY <1>1, InitSettings, StepSettings, PTL DEF SettingsSpec
=============================================================================
