------------------------------ MODULE SystemEmu ------------------------------
(***************************************************************************)
(* One emulated system: its worker thread, the host's main thread, and the *)
(* byte of EmuState flags that both change with atomic read-modify-writes. *)
(* The machine that the worker advances is a CHIP-8 family core, reduced   *)
(* to its interrupt state and its timers: a cycle loop may trigger any     *)
(* interrupt that an instruction triggers and set the timers to anything.  *)
(* Sources: systems/ISystemEmu.{hpp,cpp}, ISystemEmu_GUI.cpp,              *)
(* systems/chip8/IFamily_CHIP8.{hpp,cpp}, frontend/ApplicationHost.cpp.    *)
(*                                                                         *)
(* One worker action is the code between two accesses to the flags.        *)
(***************************************************************************)
EXTENDS Naturals

CONSTANTS
  MaxTimer,    \* largest value of a timer register; 255 in the code
  MaxElapsed   \* m_elapsed_frames saturates here; the code counts in a u32

ASSUME TimerAssumption == MaxTimer \in Nat /\ MaxTimer >= 2
ASSUME ElapsedAssumption == MaxElapsed \in Nat /\ MaxElapsed >= 1

VARIABLES
  flags,       \* m_system_state, the set of its bits
  cached,      \* m_cached_system_state: the worker's copy for this frame
  worker,      \* where the worker is in its loop
  interrupt,   \* m_interrupt
  delay,       \* m_delay_timer
  sound,       \* the largest of the voices' timers
  elapsed,     \* m_elapsed_frames
  host,        \* where the main thread is with this system
  stopping,    \* the stop token of the worker
  background,  \* is the system out of focus, or the main window minimized?
  hidden,      \* history: what the host's last frame made of `background`
  wantPaused,  \* history: did the user's last accepted command ask for a pause?
  late         \* history: frames emulated since the pause was set

machine == <<interrupt, delay, sound, elapsed>>
hostVars == <<host, stopping, background, hidden, wantPaused>>
vars == <<flags, cached, worker, machine, hostVars, late>>

Flag == {"HIDDEN", "PAUSED", "HALTED", "FATAL", "RESET"}

ANY_STOP_without_fatal == {"HALTED", "RESET"}
NOT_RUNNING == {"HIDDEN", "PAUSED", "HALTED", "FATAL", "RESET"}
CANNOT_PAUSE == {"HIDDEN", "HALTED", "FATAL", "RESET"}
ANY_PAUSE == {"HIDDEN", "PAUSED", "RESET"}
ANY_STOP == {"HALTED", "FATAL", "RESET"}

Interrupt ==
  {"CLEAR", "FRAME", "SOUND", "DELAY", "INPUT", "WAIT1", "FINAL", "ERROR"}
Timer == 0..MaxTimer

Has(state, mask) == \E f \in mask : f \in state
-----------------------------------------------------------------------------
(* Plausible mistakes: each definition here changes the one below that its *)
(* comment names, and some property of this module must fail with it.      *)

\* ResetPending: a stopped system is taken to have nothing to reset.
ResetPendingUnlessStopped == "RESET" \in flags /\ ~Has(cached, ANY_STOP)

\* Decay: timers do not tick.
DecayNever(t) == t

\* PerformReset: reset_family_data() forgets the interrupt.
PerformResetKeepingInterrupt ==
  /\ worker = "reset"
  /\ worker' = "clear"
  /\ delay' = 0 /\ sound' = 0 /\ elapsed' = 0
  /\ UNCHANGED <<flags, cached, interrupt, hostVars, late>>

\* ClearFlags: only the reset request itself is withdrawn.
ClearOnlyReset ==
  /\ worker = "clear"
  /\ flags' = flags \ {"RESET"}
  /\ worker' = "cache"
  /\ UNCHANGED <<cached, machine, hostVars, late>>

\* CacheFlags: a stopped system goes back to the top of the loop, past the
\* test of the stop token.
CacheFlagsLooping ==
  /\ worker = "cache"
  /\ cached' = flags
  /\ worker' = IF Has(flags, ANY_STOP) THEN "gate" ELSE "frame"
  /\ UNCHANGED <<flags, machine, hostVars, late>>

\* CacheFlags: only the stop flags are refreshed every frame.
CacheFlagsOfStops ==
  /\ worker = "cache"
  /\ cached' = (cached \ ANY_STOP) \cup (flags \cap ANY_STOP)
  /\ worker' = IF Has(flags, ANY_STOP) THEN "stop" ELSE "frame"
  /\ UNCHANGED <<flags, machine, hostVars, late>>

\* RaiseStop: an illegal instruction is not reported.
RaiseStopOnlyFinal(i) == IF i = "FINAL" THEN {"HALTED"} ELSE {}

\* HostFrame: the flag is changed only when the host's view changes.
HostFrameOnChange ==
  /\ host = "running"
  /\ background # hidden
  /\ hidden' = background
  /\ flags' = IF background THEN flags \cup {"HIDDEN"} ELSE flags \ {"HIDDEN"}
  /\ UNCHANGED <<cached, worker, machine, host, stopping, background,
                 wantPaused, late>>
-----------------------------------------------------------------------------
Init ==
  /\ flags = {} /\ cached = {}
  /\ worker = "gate"
  /\ interrupt = "CLEAR" /\ delay = 0 /\ sound = 0 /\ elapsed = 0
  /\ host = "running" /\ stopping = FALSE
  /\ background = FALSE /\ hidden = FALSE
  /\ wantPaused = FALSE /\ late = 0
-----------------------------------------------------------------------------
(* The worker's loop.                                                      *)

ResetPending == "RESET" \in flags

\* The pacer lets a frame through; the reset request is looked for.
BeginFrame ==
  /\ worker = "gate"
  /\ worker' = IF ResetPending THEN "reset" ELSE "cache"
  /\ UNCHANGED <<flags, cached, machine, hostVars, late>>

\* The pacer lets no frame through.  All that such a pass can do is to see
\* the stop token; passes that do not are stuttering.
SkipFrame ==
  /\ worker = "gate"
  /\ stopping
  /\ worker' = "stop"
  /\ UNCHANGED <<flags, cached, machine, hostVars, late>>

\* perform_instance_reset(): the frame counters, the family's data and the
\* core's data.
PerformReset ==
  /\ worker = "reset"
  /\ worker' = "clear"
  /\ interrupt' = "CLEAR" /\ delay' = 0 /\ sound' = 0 /\ elapsed' = 0
  /\ UNCHANGED <<flags, cached, hostVars, late>>

\* sub_system_state(NOT_RUNNING): whoever set the flags.
ClearFlags ==
  /\ worker = "clear"
  /\ flags' = flags \ NOT_RUNNING
  /\ worker' = "cache"
  /\ UNCHANGED <<cached, machine, hostVars, late>>

\* The worker's copy of the flags; a stopped system skips the frame.
CacheFlags ==
  /\ worker = "cache"
  /\ cached' = flags
  /\ worker' = IF Has(flags, ANY_STOP) THEN "stop" ELSE "frame"
  /\ UNCHANGED <<flags, machine, hostVars, late>>

\* main_system_loop() of a paused system pushes audio and nothing else.
PausedFrame ==
  /\ worker = "frame"
  /\ Has(cached, ANY_PAUSE)
  /\ worker' = "count"
  /\ UNCHANGED <<flags, cached, machine, hostVars, late>>

\* handle_timer_ticks() for one timer.
Decay(t) == IF t = 0 THEN 0 ELSE t - 1

\* handle_pre_work_interrupts(), after the timers have ticked.
PreWork(i, d, s) ==
  CASE i = "FRAME" -> "CLEAR"
    [] i = "SOUND" /\ s = 0 -> "WAIT1"
    [] i = "DELAY" /\ d = 0 -> "CLEAR"
    [] OTHER -> i

\* What execute_cycle_loop() can leave behind: nothing happens under an
\* interrupt, and an instruction that triggers one is the last of the loop.
Triggered == {"CLEAR", "FRAME", "SOUND", "DELAY", "INPUT", "ERROR"}

\* main_system_loop() up to the post-work interrupts.
RunFrame ==
  /\ worker = "frame"
  /\ ~Has(cached, ANY_PAUSE)
  /\ worker' = "post"
  /\ LET d == Decay(delay)
         s == Decay(sound)
         i == PreWork(interrupt, d, s)
     IN IF i = "CLEAR"
        THEN interrupt' \in Triggered /\ delay' \in Timer /\ sound' \in Timer
        ELSE interrupt' = i /\ delay' = d /\ sound' = s
  /\ late' = IF "PAUSED" \in flags THEN late + 1 ELSE late
  /\ UNCHANGED <<flags, cached, elapsed, hostVars>>

\* The flag that handle_post_work_interrupts() raises.
RaiseStop(i) ==
  CASE i = "ERROR" -> {"FATAL"}
    [] i = "FINAL" -> {"HALTED"}
    [] OTHER -> {}

\* handle_post_work_interrupts(), with a key caught or not.  A caught key
\* starts the buzzer for two frames.
PostWork ==
  /\ worker = "post"
  /\ worker' = "count"
  /\ flags' = flags \cup RaiseStop(interrupt)
  /\ \/ interrupt = "INPUT"
        /\ interrupt' = "CLEAR"
        /\ sound' \in {t \in Timer : t = 2 \/ (t > 2 /\ t <= sound)}
     \/ interrupt = "WAIT1" /\ interrupt' = "FINAL" /\ UNCHANGED sound
     \/ interrupt # "WAIT1" /\ UNCHANGED <<interrupt, sound>>
  /\ UNCHANGED <<cached, delay, elapsed, hostVars, late>>

\* A frame that was neither paused nor stopped is counted.
CountFrame ==
  /\ worker = "count"
  /\ elapsed' = IF Has(cached, NOT_RUNNING) \/ elapsed = MaxElapsed
                THEN elapsed ELSE elapsed + 1
  /\ worker' = "stop"
  /\ UNCHANGED <<flags, cached, interrupt, delay, sound, hostVars, late>>

\* The condition of the loop.
TestStop ==
  /\ worker = "stop"
  /\ worker' = IF stopping THEN "done" ELSE "gate"
  /\ UNCHANGED <<flags, cached, machine, hostVars, late>>

Worker ==
  \/ BeginFrame \/ SkipFrame \/ PerformReset \/ ClearFlags \/ CacheFlags
  \/ PausedFrame \/ RunFrame \/ PostWork \/ CountFrame \/ TestStop
-----------------------------------------------------------------------------
(* The main thread.                                                        *)

\* Focus moves to or from this system, or the window is minimized/restored.
MoveFocus ==
  /\ host = "running"
  /\ background' = ~background
  /\ UNCHANGED <<flags, cached, worker, machine, host, stopping, hidden,
                 wantPaused, late>>

\* The flag pass of process_client_frame(), every frame of the host.
HostFrame ==
  /\ host = "running"
  /\ hidden' = background
  /\ flags' = IF background THEN flags \cup {"HIDDEN"} ELSE flags \ {"HIDDEN"}
  /\ UNCHANGED <<cached, worker, machine, host, stopping, background,
                 wantPaused, late>>

\* try_pause_system() and the menu's Pause: the test comes before the toggle,
\* and the worker may stop the system in between.
TestPause ==
  /\ host = "running"
  /\ ~Has(flags, CANNOT_PAUSE)
  /\ host' = "pausing"
  /\ UNCHANGED <<flags, cached, worker, machine, stopping, background, hidden,
                 wantPaused, late>>

TogglePause ==
  /\ host = "pausing"
  /\ host' = "running"
  /\ IF "PAUSED" \in flags
     THEN flags' = flags \ {"PAUSED"} /\ wantPaused' = FALSE
     ELSE flags' = flags \cup {"PAUSED"} /\ wantPaused' = TRUE
  /\ late' = 0
  /\ UNCHANGED <<cached, worker, machine, stopping, background, hidden>>

\* request_instance_reset(), by hotkey or menu; it also ends a pause.
RequestReset ==
  /\ host = "running"
  /\ flags' = flags \cup {"RESET"}
  /\ wantPaused' = FALSE
  /\ UNCHANGED <<cached, worker, machine, host, stopping, background, hidden,
                 late>>

\* stop_worker(), from the deleter of the instance.
RequestStop ==
  /\ host = "running"
  /\ host' = "joining"
  /\ stopping' = TRUE
  /\ UNCHANGED <<flags, cached, worker, machine, background, hidden,
                 wantPaused, late>>

Join ==
  /\ host = "joining"
  /\ worker = "done"
  /\ host' = "gone"
  /\ UNCHANGED <<flags, cached, worker, machine, stopping, background, hidden,
                 wantPaused, late>>

Host ==
  \/ MoveFocus \/ HostFrame \/ TestPause \/ TogglePause
  \/ RequestReset \/ RequestStop \/ Join

Next == Worker \/ Host

Spec == Init /\ [][Next]_vars

\* The operating system runs the worker, the host keeps rendering frames and
\* finishes the call that it is in.  Nothing is assumed of the user.
Fairness ==
  WF_vars(Worker) /\ WF_vars(HostFrame) /\ WF_vars(TogglePause) /\ WF_vars(Join)

FairSpec == Spec /\ Fairness
-----------------------------------------------------------------------------
\* The types of the variables.
TypeOK ==
  /\ flags \subseteq Flag /\ cached \subseteq Flag
  /\ worker \in {"gate", "reset", "clear", "cache", "frame", "post", "count",
                 "stop", "done"}
  /\ interrupt \in Interrupt
  /\ delay \in Timer /\ sound \in Timer
  /\ elapsed \in 0..MaxElapsed
  /\ host \in {"running", "pausing", "joining", "gone"}
  /\ stopping \in BOOLEAN /\ background \in BOOLEAN /\ hidden \in BOOLEAN
  /\ wantPaused \in BOOLEAN
  /\ late \in Nat

\* The pause flag is what the user last asked for, whatever the worker and the
\* host's tests and toggles interleave to, except while a reset is pending.
PauseMatchesUser ==
  "RESET" \notin flags => ("PAUSED" \in flags <=> wantPaused)

\* A system says that it stopped exactly when its machine did: between frames
\* an illegal instruction is always reported, and a reported stop has its cause.
StopMatchesMachine ==
  /\ worker \in {"gate", "cache", "stop", "done"}
       => ("FATAL" \in flags <=> interrupt = "ERROR")
  /\ worker # "clear" /\ "HALTED" \in flags => interrupt = "FINAL"

\* What the flags say between frames is what the user asked for and what became of the
\* machine.
FlagsMatch == PauseMatchesUser /\ StopMatchesMachine

\* After a pause at most the frame in flight is still emulated.
LateFrames == "PAUSED" \in flags => late <= 1

\* A machine that stopped does not move until it is reset.
StoppedMachineRests ==
  [][Has(flags, {"HALTED", "FATAL"}) /\ worker \notin {"reset", "clear"}
       => UNCHANGED <<interrupt, delay, sound>>]_vars

\* A reset request is withdrawn only when the machine is as new.
ResetIsFresh ==
  [][ResetPending /\ "RESET" \notin flags'
       => interrupt = "CLEAR" /\ delay = 0 /\ sound = 0 /\ elapsed = 0]_vars

\* Every reset request is honoured, unless the system is closed before.
ResetHonoured == ("RESET" \in flags) ~> ("RESET" \notin flags \/ stopping)

\* Every end is reached: the join of a worker does not wait for ever; a system left in the
\* background stops emulating, although a reset that it had pending clears the flag that
\* hides it; and a program that ends by itself is reported as halted once its sound
\* decayed, if it is not reset before and is left running in the end.
ExitCompletes ==
  /\ (host = "joining") ~> (host = "gone")
  /\ <>[](background /\ "RESET" \notin flags /\ host = "running") => <>[](worker # "post")
  /\ <>[](flags \cap {"HIDDEN", "PAUSED", "RESET"} = {} /\ ~stopping)
       => ((interrupt = "SOUND") ~> ("HALTED" \in flags \/ worker = "clear"))
=============================================================================
