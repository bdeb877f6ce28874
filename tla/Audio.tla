-------------------------------- MODULE Audio --------------------------------
(***************************************************************************)
(* The sound of one frame after another (components/AudioDevice.cpp,       *)
(* Voice.hpp, the mixer of systems/chip8/IFamily_CHIP8 and the track of    *)
(* cores/MEGACHIP.cpp): how many samples a frame gets, how loud a voice    *)
(* is in its first and last one, and where a track is.                     *)
(*                                                                         *)
(* The user's multiplier speeds up the frames and the stream alike: both   *)
(* are in the unit of the multiplier.  The framerate is cached as a frame  *)
(* begins, the stream gets its ratio as the frame is mixed; meanwhile the  *)
(* user may have moved the slider.                                         *)
(*                                                                         *)
(* Samples are not computed.  A level is in percent; the position in a     *)
(* track is in samples of the device, as if the track had its rate.        *)
(***************************************************************************)
EXTENDS Integers

CONSTANTS
  Freqs,        \* the device's frequencies, in samples per second
  Rates,        \* the frame rates of systems
  Multipliers,  \* the values of the user's multiplier
  Scale,        \* c_scale_factor: the unit of the accumulator, 2^24 in the code
  Sizes,        \* the sizes of tracks
  MaxTimer,     \* bound: the largest duration of a note, 255 in the code
  MaxSpan       \* bound: the frames over which samples are counted

\* A device plays no fewer samples than the system makes frames, wherever the slider is
\* moved between the two reads of it.
ASSUME AudioAssumption ==
  /\ Freqs \subseteq Nat \ {0} /\ Rates \subseteq Nat \ {0} /\ Scale \in Nat \ {0}
  /\ Multipliers \subseteq Nat \ {0} /\ MaxTimer \in Nat
  /\ \A f \in Freqs, b \in Rates, m, n \in Multipliers : f * m >= b * n

VARIABLES
  freq,         \* m_freq; 0 if there is no device
  base_rate,    \* m_base_system_framerate
  multiplier,   \* m_framerate_multiplier
  rate,         \* m_cached_real_framerate
  ratio,        \* m_freq_ratio: how fast the stream plays what it is given
  target,       \* m_target_framerate
  accumulator,  \* m_accumulator
  span,         \* history: the frames since the accumulator was cleared last
  emitted,      \* history: the samples since then
  played,       \* history: what the stream plays in their time, in `target'ths of a sample
  apart,        \* history: had the ratio and the rate of one of them other multipliers?
  timer,        \* AudioTimer: its old and its new value
  struck,       \* how often the instructions of this frame have set the timer
  level,        \* history: the level of the voice's last sample
  jump,         \* history: how far the level jumped as this frame began, or 0
  track,        \* TrackData: its size, 0 if there is none, and whether it loops
  head          \* the phase of the track's voice

audioVars == <<freq, base_rate, multiplier, rate, ratio, target, accumulator, span,
               emitted, played, apart, timer, struck, level, jump, track, head>>
countVars == <<target, accumulator, span, emitted, played, apart>>
paceOfSound == <<base_rate, multiplier, rate, ratio>>

NoTrack == [size |-> 0, loop |-> FALSE]

Lower(a, b) == IF a < b THEN a ELSE b
Higher(a, b) == IF a > b THEN a ELSE b
-----------------------------------------------------------------------------
(* Plausible mistakes.                                                     *)

\* Kept: the fraction of a sample is dropped.
KeptNothing(acc) == 0

\* Accumulated: the samples are those of the device, whatever the stream's ratio.
AccumulatedOfDevice(q) ==
  (IF rate = target THEN accumulator ELSE 0) + (freq * Scale) \div rate

\* dec: the old value stays behind.
dec_new(t) == [t EXCEPT !.new = Higher(@ - 1, 0)]

\* calc_fade_step: the fade takes the whole default time, however short the frame.
calc_default_step(count) == 1
-----------------------------------------------------------------------------
AudioInit ==
  /\ freq \in Freqs /\ base_rate \in Rates
  /\ multiplier \in Multipliers /\ ratio = multiplier /\ rate = base_rate * multiplier
  /\ target = 0 /\ accumulator = 0 /\ span = 0 /\ emitted = 0 /\ played = 0 /\ apart = FALSE
  /\ timer = [old |-> 0, new |-> 0] /\ struck = 0 /\ level = 0 /\ jump = 0
  /\ track = NoTrack /\ head = 0

set(t, duration) == [old |-> t.new, new |-> duration]
dec(t) == set(t, Higher(t.new - 1, 0))

\* start_voice_at(): an instruction sets the timer.
start_voice_at(duration) ==
  /\ timer' = set(timer, duration)
  /\ struck' = Lower(struck + 1, 2)
  /\ UNCHANGED <<freq, paceOfSound, countVars, level, jump, track, head>>

\* 060N: a track that does not fit into the memory is none.
start_audio_track(size, loop) ==
  /\ freq # 0
  /\ track' = [size |-> size, loop |-> loop] /\ head' = 0
  /\ UNCHANGED <<freq, paceOfSound, countVars, timer, struck, level, jump>>

\* 0700
StopTrack ==
  /\ track' = NoTrack
  /\ UNCHANGED <<freq, paceOfSound, countVars, timer, struck, level, jump, head>>

\* set_spec(): a new frequency clears the accumulator; if it fails the device is lost.
set_spec ==
  /\ freq # 0
  /\ freq' \in (Freqs \ {freq}) \cup {0}
  /\ accumulator' = 0 /\ span' = 0 /\ emitted' = 0 /\ played' = 0 /\ apart' = FALSE
  /\ UNCHANGED <<paceOfSound, target, timer, struck, level, jump, track, head>>

\* The main thread's slider: before the frame has cached its rate, or later.
ChangeMultiplier ==
  /\ multiplier' \in Multipliers \ {multiplier}
  /\ rate' \in {rate, base_rate * multiplier'}
  /\ UNCHANGED <<freq, base_rate, ratio, countVars, timer, struck, level, jump, track, head>>

Kept(acc) == acc % Scale

\* next_frame_sample_count(): the accumulator first forgets another frame rate.
Accumulated(q) == (IF rate = target THEN accumulator ELSE 0) + (freq * q * Scale) \div rate
SampleCount(q) == IF freq = 0 THEN 0 ELSE Accumulated(q) \div Scale

Count(q) ==
  IF freq = 0 THEN UNCHANGED countVars
  ELSE /\ target' = rate
       /\ accumulator' = Kept(Accumulated(q))
       /\ span' = IF rate = target THEN span + 1 ELSE 1
       /\ emitted' = (IF rate = target THEN emitted ELSE 0) + SampleCount(q)
       /\ played' = (IF rate = target THEN played ELSE 0) + freq * q
       /\ apart' = (rate # base_rate * q \/ (rate = target /\ apart))

\* In percent, per sample: the default or twice what fits into the frame.
calc_fade_step(count) == Higher(1, 200 \div count)

intro == timer.new > 0 /\ timer.old = 0
outro == timer.new = 0 /\ timer.old > 0

\* FadeEnvelope::calculate, for the sample of number i.
Level(i, step) ==
  IF intro THEN Lower(step * (i + 1), 100)
  ELSE IF outro THEN Higher(100 - step * (i + 1), 0)
  ELSE IF timer.new > 0 THEN 100 ELSE 0

\* make_pulse_wave(): the voice is heard from the first sample to the last.
Voice(count) ==
  IF count = 0 THEN UNCHANGED <<level, jump>>
  ELSE LET step == calc_fade_step(count)
           gap == Level(0, step) - level
       IN  /\ level' = Level(count - 1, step)
           /\ jump' = Higher(0, (IF gap < 0 THEN -gap ELSE gap) - step)

\* make_stream_wave(): a track that is not repeated ends at the first sample behind it;
\* the phase goes on by the whole frame and wraps.
Track(count) ==
  IF count = 0 \/ track.size = 0 THEN UNCHANGED <<track, head>>
  ELSE IF ~track.loop /\ \E i \in 0..(count - 1) : head + i >= track.size
       THEN track' = NoTrack /\ UNCHANGED head
       ELSE head' = (head + count) % track.size /\ UNCHANGED track

\* A stream that is asked for another ratio has it or keeps its own; without a device none
\* is asked for.
set_freq_ratio(q) == q \in {multiplier, ratio} /\ (freq = 0 => q = ratio)

\* mix_audio_data(): the stream gets the multiplier that is there now, and samples for the
\* rate that the frame began with.  The next frame caches its own.
MixFrame(q) ==
  /\ span < MaxSpan \/ freq = 0 \/ rate # target
  /\ set_freq_ratio(q) /\ ratio' = q
  /\ Count(q)
  /\ rate' = base_rate * multiplier
  /\ UNCHANGED <<freq, base_rate, multiplier>>

\* Both kinds of voices are made in it, and the next frame begins with the tick of the
\* timers: handle_timer_ticks().
EndFrame ==
  /\ \E q \in Multipliers : MixFrame(q) /\ Voice(SampleCount(q)) /\ Track(SampleCount(q))
  /\ timer' = dec(timer)
  /\ struck' = IF timer.new = 1 THEN 1 ELSE 0

\* A frame in which the system is paused: silence, and the timers stand still.
PausedFrame ==
  /\ \E q \in Multipliers : MixFrame(q)
  /\ UNCHANGED <<timer, struck, level, jump, track, head>>

AudioNext ==
  \/ \E duration \in 0..MaxTimer : start_voice_at(duration)
  \/ \E size \in Sizes, loop \in BOOLEAN : start_audio_track(size, loop)
  \/ StopTrack \/ set_spec \/ ChangeMultiplier \/ EndFrame \/ PausedFrame

AudioSpec == AudioInit /\ [][AudioNext]_audioVars
-----------------------------------------------------------------------------
\* The stream gets its samples as fast as it plays them: over any number of frames of one
\* rate, whatever its ratio was in each of them, it is within one sample, and the rounding of
\* the accumulator's unit, of what it plays in that time.  And unless the slider was moved
\* amid one of these frames, that is `freq' samples in `base_rate' frames, whatever the
\* multiplier: a faster program has its sound faster, and as many samples in a frame.
SamplesKeepTime ==
  freq # 0 /\ target # 0 =>
    /\ emitted * target <= played
    /\ played < (emitted + 1) * target + (span * target) \div Scale + 1
    /\ ~apart => \E m \in Multipliers : target = base_rate * m /\ played = span * freq * m

\* A voice that is set at most once in a frame, and not as it ends, never clicks: its
\* level begins where that of the last frame ended, give or take a step of the fade.
FadesMeet == EndFrame /\ struck <= 1 /\ freq # 0 => jump' = 0

\* The sound neither drifts nor clicks.
SoundIsSteady == [][SamplesKeepTime' /\ FadesMeet]_audioVars

\* MEGACHIP.hpp says of 060N that the sound is repeated if N is 0: any other goes on to
\* its end.
OneShotGoesOn ==
  [][EndFrame /\ freq # 0 /\ track.size # 0 /\ ~track.loop /\ track' = track
       => head' >= head]_audioVars
=============================================================================
