---------------------------- MODULE FrameLimiter ----------------------------
(***************************************************************************)
(* The limiter that a system's worker asks, over and over, whether its     *)
(* next frame may begin.  Between two questions it sleeps or yields; how   *)
(* long that takes is the operating system's affair, and how long a frame  *)
(* takes the program's.  Time is counted in ticks.                         *)
(***************************************************************************)
EXTENDS Integers

CONSTANTS
  Periods,    \* the periods of the frame rates that are set
  Millis,     \* the sleep that is asked for (1 ms)
  Threshold,  \* c_spin_threshold (2.3 ms): most sleeps take less
  Grace,      \* by how much a frame may be late and not be missed (0.05 ms)
  MaxSleep,   \* bound on a sleep
  MaxWork,    \* bound on the time that a frame takes
  MaxTime     \* bound on the time; the code has none

ASSUME PaceAssumption ==
  /\ Periods \subseteq Nat \ {0}
  /\ {Millis, Threshold, Grace, MaxSleep, MaxWork, MaxTime} \subseteq Nat

VARIABLES
  now,            \* current_time()
  completed,      \* m_new_init_completed
  initial,        \* m_force_initial_pass
  skips,          \* m_force_skip_periods
  missed,         \* m_missed_last_period
  period,         \* m_target_time_period
  accrued,        \* m_time_yield_accrued
  origin,         \* m_last_period_origin
  since,          \* what the worker does since it asked last
  due,            \* history: a moment at which a frame was due
  frames,         \* history: the frames since then
  prompt          \* history: since the last frame, the worker asked in time, was not lazy
                  \* and did not oversleep

paceVars ==
  <<now, completed, initial, skips, missed, period, accrued, origin, since, due, frames,
    prompt>>

\* The constructor; the program's systems begin with a pass and skip periods.
PaceInit ==
  /\ now = 0 /\ origin = 0 /\ accrued = 0
  /\ completed = FALSE /\ missed = FALSE
  /\ initial \in BOOLEAN /\ skips \in BOOLEAN /\ period \in Periods
  /\ since = "work" /\ due = 0 /\ frames = 0 /\ prompt = TRUE

\* How long the worker may have been away.
Away == CASE since = "work"  -> 0..MaxWork
          [] since = "sleep" -> Millis..MaxSleep
          [] OTHER           -> 0..1      \* a yield
-----------------------------------------------------------------------------
\* Plausible mistake: a frame's period begins when the frame does.
CarriedNothing(elapsed) == 0

\* What is carried over into the next period: when periods are skipped, what is gone of the
\* last one; else all that the frames are behind.
Carried(elapsed) == IF skips THEN elapsed % period ELSE elapsed - period

\* has_target_period_elapsed() at a time, for a limiter whose period began at start.
InitialPass(time, start) ==
  /\ initial
  /\ initial' = FALSE /\ origin' = start /\ since' = "work"
  /\ due' = start /\ frames' = 0 /\ prompt' = TRUE
  /\ UNCHANGED <<missed, period, accrued>>

Pass(time, start) ==
  LET elapsed == accrued + time - start
  IN  /\ ~initial /\ elapsed >= period
      /\ missed' = IF skips THEN elapsed >= period + Grace ELSE missed
      /\ accrued' = Carried(elapsed)
      /\ origin' = time /\ since' = "work" /\ frames' = frames + 1 /\ prompt' = TRUE
      /\ UNCHANGED <<initial, period, due>>

\* Plausible mistake: sleeps right up to the frame.
SleepsLate(lazy, left) == (lazy /\ period >= Threshold) \/ left >= Millis

\* is_frame_ready(): a lazy worker sleeps at any distance from its frame, if frames are not
\* too short for that.
Sleeps(lazy, left) == (lazy /\ period >= Threshold) \/ left >= Threshold

NotYet(time, start, lazy) ==
  LET elapsed == accrued + time - start
  IN  /\ ~initial /\ elapsed < period
      /\ origin' = start
      /\ since' = IF Sleeps(lazy, period - elapsed) THEN "sleep" ELSE "yield"
      /\ due' = IF completed THEN due ELSE start
      /\ prompt' = (prompt /\ ~lazy /\ (since = "sleep" => time - now < Threshold))
      /\ UNCHANGED <<initial, missed, period, accrued, frames>>

\* The limiter's first period begins with the first question.
is_frame_ready ==
  \E away \in Away, lazy \in BOOLEAN :
    LET time  == now + away
        start == IF completed THEN origin ELSE time
    IN  /\ time <= MaxTime
        /\ now' = time /\ completed' = TRUE /\ UNCHANGED skips
        /\ InitialPass(time, start) \/ Pass(time, start) \/ NotYet(time, start, lazy)

\* set_limiter_props(framerate), in every frame, of a framerate that the user changes.
set_limiter_props ==
  /\ since = "work" /\ completed
  /\ period' \in Periods \ {period}
  /\ due' = origin - accrued /\ frames' = 0
  /\ UNCHANGED <<now, completed, initial, skips, missed, accrued, origin, since, prompt>>

PaceNext == is_frame_ready \/ set_limiter_props

PaceSpec == PaceInit /\ [][PaceNext]_paceVars
-----------------------------------------------------------------------------
\* Frames do not drift, whenever the worker asks: every period begins a whole number of
\* periods after a frame was due, and without skipping, in as many periods as there were
\* frames.  No frame is let through before it is due.
FramesKeepTime ==
  completed =>
    \E k \in 0..MaxTime :
      /\ origin - accrued = due + k * period /\ k >= frames
      /\ ~skips => k = frames

\* A worker that asks in time, is not lazy and does not oversleep begins its frame in the
\* tick in which it is due: sleeping never costs it a frame.
FramesAreOnTime ==
  (frames' = frames + 1 /\ prompt /\ (since = "sleep" => now' - now < Threshold)
     /\ since # "work")
    => now' = origin - accrued + period

\* The frames neither drift nor stutter.
FramesAreSteady == [][FramesKeepTime' /\ FramesAreOnTime]_paceVars
=============================================================================
