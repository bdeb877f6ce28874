--------------------------- MODULE FrontendProofs ---------------------------
(***************************************************************************)
(* Proofs about a system's worker and the host of many, for every timer    *)
(* width and every frame count; about the dialog that stages a file, for   *)
(* any files; about the hooks of windows and menus, for any hooks; and     *)
(* about the list of cores that the dialog offers, for any cores.          *)
(*                                                                         *)
(* The flags of a system are changed by two threads, so what each knows of *)
(* them between two of its own steps has to be part of the inductive       *)
(* invariant: only the host sets RESET, only the worker sets HALTED and    *)
(* FATAL, and the worker alone, in one place, clears what both have set.   *)
(* The host and the hooks keep lists from which members are erased; Lists  *)
(* says what that leaves of them.                                          *)
(***************************************************************************)
EXTENDS SystemEmu, ApplicationHost, Staging, UserInterface, Loading, FiniteSetTheorems, TLAPS

\* A request stays until the worker withdraws it; the host sets none while it
\* is between the test and the toggle of a pause, and a request ends a pause.
ResetOwnership ==
  /\ worker \in {"reset", "clear"} => "RESET" \in flags
  /\ host = "pausing" => "RESET" \notin flags
  /\ "RESET" \in flags => ~wantPaused

\* The machine is as new once it was reset, until the flags are cleared.
FreshBeforeClear ==
  worker = "clear" => interrupt = "CLEAR" /\ delay = 0 /\ sound = 0 /\ elapsed = 0

\* A frame is emulated only while no stop is reported, and a stop is reported
\* only for the machine's own state.
StopOwnership ==
  /\ worker \in {"frame", "post"} => "HALTED" \notin flags /\ "FATAL" \notin flags
  /\ worker \in {"gate", "cache", "count", "stop", "done"}
       => ("FATAL" \in flags <=> interrupt = "ERROR")
  /\ worker = "frame" => interrupt # "ERROR"
  /\ worker = "reset" /\ "FATAL" \in flags => interrupt = "ERROR"

\* A frame that started before the pause is the first one after it.
LateOwnership ==
  worker = "frame" /\ "PAUSED" \in flags /\ "PAUSED" \notin cached => late = 0

Agreement ==
  /\ PauseMatchesUser /\ StopMatchesMachine /\ LateFrames
  /\ ResetOwnership /\ FreshBeforeClear /\ StopOwnership /\ LateOwnership

IInv == TypeOK /\ Agreement
-----------------------------------------------------------------------------
\* The initial state satisfies every part of the inductive invariant.
LEMMA InitIInv == Init => IInv
<1> SUFFICES ASSUME Init PROVE IInv
  OBVIOUS
<1>1. TypeOK
  <2>1. stopping \in BOOLEAN /\ background \in BOOLEAN /\ hidden \in BOOLEAN
        /\ wantPaused \in BOOLEAN
    BY Zenon DEF Init
  <2>2. delay \in Timer /\ sound \in Timer /\ elapsed \in 0..MaxElapsed
        /\ late \in Nat
    BY TimerAssumption, ElapsedAssumption DEF Init, Timer
  <2>3. QED
    BY <2>1, <2>2 DEF Init, TypeOK, Flag, Interrupt
<1>2. PauseMatchesUser
  BY Zenon DEF Init, PauseMatchesUser
<1>3. StopMatchesMachine /\ LateFrames
  BY DEF Init, StopMatchesMachine, LateFrames
<1>4. ResetOwnership /\ FreshBeforeClear /\ StopOwnership /\ LateOwnership
  BY DEF Init, ResetOwnership, FreshBeforeClear, StopOwnership, LateOwnership
<1>5. QED
  BY <1>1, <1>2, <1>3, <1>4 DEF IInv, Agreement

\* Timers stay within their range as they tick.
LEMMA DecayType == \A t \in Timer : Decay(t) \in Timer
  BY TimerAssumption DEF Decay, Timer

\* The types are preserved by every step of the worker's loop.
LEMMA WorkerType == TypeOK /\ Worker => TypeOK'
<1> SUFFICES ASSUME TypeOK, Worker PROVE TypeOK'
  OBVIOUS
<1> USE DEF TypeOK, machine, hostVars
<1>1. CASE BeginFrame
  BY <1>1 DEF BeginFrame
<1>2. CASE SkipFrame
  BY <1>2 DEF SkipFrame
<1>3. CASE PerformReset
  BY <1>3, TimerAssumption, ElapsedAssumption DEF PerformReset, Interrupt, Timer
<1>4. CASE ClearFlags
  BY <1>4 DEF ClearFlags
<1>5. CASE CacheFlags
  BY <1>5 DEF CacheFlags
<1>6. CASE PausedFrame
  BY <1>6 DEF PausedFrame
<1>7. CASE RunFrame
  <2>1. interrupt' \in Interrupt /\ delay' \in Timer /\ sound' \in Timer
    BY <1>7, DecayType DEF RunFrame, PreWork, Interrupt, Triggered
  <2>2. late' \in Nat
    BY <1>7 DEF RunFrame
  <2>3. QED
    BY <1>7, <2>1, <2>2 DEF RunFrame
<1>8. CASE PostWork
  <2>1. interrupt' \in Interrupt /\ sound' \in Timer
    BY <1>8 DEF PostWork, Interrupt
  <2>2. flags' \subseteq Flag
    BY <1>8 DEF PostWork, RaiseStop, Flag
  <2>3. QED
    BY <1>8, <2>1, <2>2 DEF PostWork
<1>9. CASE CountFrame
  <2>1. elapsed' \in 0..MaxElapsed
    BY <1>9, ElapsedAssumption DEF CountFrame
  <2>2. QED
    BY <1>9, <2>1 DEF CountFrame
<1>10. CASE TestStop
  BY <1>10 DEF TestStop
<1>11. QED
  BY <1>1, <1>2, <1>3, <1>4, <1>5, <1>6, <1>7, <1>8, <1>9, <1>10 DEF Worker

\* Every step of the worker's loop preserves the agreement of the threads.
LEMMA WorkerAgreement == TypeOK /\ Agreement /\ Worker => Agreement'
<1> SUFFICES ASSUME TypeOK, Agreement, Worker PROVE Agreement'
  OBVIOUS
<1> USE DEF Agreement, PauseMatchesUser, StopMatchesMachine, LateFrames,
            ResetOwnership, FreshBeforeClear, StopOwnership, LateOwnership,
            machine, hostVars
<1>1. CASE BeginFrame
  BY <1>1 DEF BeginFrame, ResetPending
<1>2. CASE SkipFrame
  BY <1>2 DEF SkipFrame
<1>3. CASE PerformReset
  BY <1>3 DEF PerformReset
<1>4. CASE ClearFlags
  BY <1>4 DEF ClearFlags, NOT_RUNNING
<1>5. CASE CacheFlags
  <2>1. worker = "cache" /\ cached' = flags /\ worker' \in {"stop", "frame"}
        /\ UNCHANGED <<flags, machine, hostVars, late>>
    BY <1>5 DEF CacheFlags
  <2>2. worker' = "frame" => "HALTED" \notin flags /\ "FATAL" \notin flags
    BY <1>5 DEF CacheFlags, Has, ANY_STOP
  <2>3. QED
    BY <2>1, <2>2
<1>6. CASE PausedFrame
  BY <1>6 DEF PausedFrame
<1>7. CASE RunFrame
  <2>1. worker = "frame" /\ worker' = "post"
        /\ UNCHANGED <<flags, cached, elapsed, hostVars>>
    BY <1>7 DEF RunFrame
  <2>2. "PAUSED" \notin cached
    BY <1>7 DEF RunFrame, Has, ANY_PAUSE
  <2>3. "PAUSED" \in flags => late' <= 1
    BY <1>7, <2>2 DEF RunFrame
  <2>4. QED
    BY <2>1, <2>3
<1>8. CASE PostWork
  <2>1. worker = "post" /\ worker' = "count"
        /\ flags' = flags \cup RaiseStop(interrupt)
        /\ UNCHANGED <<cached, delay, elapsed, hostVars, late>>
    BY <1>8 DEF PostWork
  <2>2. (interrupt' = "ERROR" <=> interrupt = "ERROR")
        /\ (interrupt = "FINAL" => interrupt' = "FINAL")
    BY <1>8 DEF PostWork
  <2>3. RaiseStop(interrupt) \subseteq {"FATAL", "HALTED"}
        /\ ("FATAL" \in RaiseStop(interrupt) <=> interrupt = "ERROR")
        /\ ("HALTED" \in RaiseStop(interrupt) <=> interrupt = "FINAL")
    BY DEF RaiseStop
  <2>4. QED
    BY <2>1, <2>2, <2>3
<1>9. CASE CountFrame
  BY <1>9 DEF CountFrame
<1>10. CASE TestStop
  BY <1>10 DEF TestStop
<1>11. QED
  BY <1>1, <1>2, <1>3, <1>4, <1>5, <1>6, <1>7, <1>8, <1>9, <1>10 DEF Worker

\* The types are preserved by every step of the main thread.
LEMMA HostType == TypeOK /\ Host => TypeOK'
<1> SUFFICES ASSUME TypeOK, Host PROVE TypeOK'
  OBVIOUS
<1> USE DEF TypeOK, Flag, machine
<1>1. CASE MoveFocus
  BY <1>1 DEF MoveFocus
<1>2. CASE HostFrame
  BY <1>2 DEF HostFrame
<1>3. CASE TestPause
  BY <1>3 DEF TestPause
<1>4. CASE TogglePause
  <2>1. flags' \subseteq Flag /\ wantPaused' \in BOOLEAN
    BY <1>4 DEF TogglePause
  <2>2. QED
    BY <1>4, <2>1 DEF TogglePause
<1>5. CASE RequestReset
  BY <1>5 DEF RequestReset
<1>6. CASE RequestStop
  BY <1>6 DEF RequestStop
<1>7. CASE Join
  BY <1>7 DEF Join
<1>8. QED
  BY <1>1, <1>2, <1>3, <1>4, <1>5, <1>6, <1>7 DEF Host

\* Every step of the main thread preserves the agreement of the threads.
LEMMA HostAgreement == Agreement /\ Host => Agreement'
<1> SUFFICES ASSUME Agreement, Host PROVE Agreement'
  OBVIOUS
<1> USE DEF Agreement, PauseMatchesUser, StopMatchesMachine, LateFrames,
            ResetOwnership, FreshBeforeClear, StopOwnership, LateOwnership,
            machine
<1>1. CASE MoveFocus
  BY <1>1 DEF MoveFocus
<1>2. CASE HostFrame
  BY <1>2 DEF HostFrame
<1>3. CASE TestPause
  BY <1>3 DEF TestPause, Has, CANNOT_PAUSE
<1>4. CASE TogglePause
  <2>1. host = "pausing" /\ host' = "running" /\ late' = 0
        /\ UNCHANGED <<cached, worker, machine>>
    BY <1>4 DEF TogglePause
  <2>2. \A f \in {"HALTED", "FATAL", "RESET"} : f \in flags' <=> f \in flags
    BY <1>4 DEF TogglePause
  <2>3. PauseMatchesUser'
    BY <1>4 DEF TogglePause
  <2>4. QED
    BY <2>1, <2>2, <2>3
<1>5. CASE RequestReset
  BY <1>5 DEF RequestReset
<1>6. CASE RequestStop
  BY <1>6 DEF RequestStop
<1>7. CASE Join
  BY <1>7 DEF Join
<1>8. QED
  BY <1>1, <1>2, <1>3, <1>4, <1>5, <1>6, <1>7 DEF Host

\* A step that changes no variable changes no part of the invariant.
LEMMA StutterIInv == IInv /\ UNCHANGED vars => IInv'
  BY DEF IInv, Agreement, TypeOK, PauseMatchesUser, StopMatchesMachine,
         LateFrames, ResetOwnership, FreshBeforeClear, StopOwnership,
         LateOwnership, vars, machine, hostVars

\* The inductive invariant holds in every reachable state.
THEOREM Invariance == Spec => []IInv
<1>1. IInv /\ [Next]_vars => IInv'
  BY WorkerType, WorkerAgreement, HostType, HostAgreement, StutterIInv
  DEF Next, IInv
<1>2. QED
  BY InitIInv, <1>1, PTL DEF Spec

\* The flags, the machine and the threads stay within their types.
THEOREM TypeCorrect == Spec => []TypeOK
<1>1. IInv => TypeOK
  BY DEF IInv
<1>2. QED
  BY Invariance, <1>1, PTL

\* The pause flag is what the user last asked for.
THEOREM PauseIsUsers == Spec => []PauseMatchesUser
<1>1. IInv => PauseMatchesUser
  BY DEF IInv, Agreement
<1>2. QED
  BY Invariance, <1>1, PTL

\* The stop flags agree with the machine between frames.
THEOREM StopsAgree == Spec => []StopMatchesMachine
<1>1. IInv => StopMatchesMachine
  BY DEF IInv, Agreement
<1>2. QED
  BY Invariance, <1>1, PTL

\* The flags match the user's wish and the machine's end.
THEOREM FlagsAgree == Spec => []FlagsMatch
<1>1. IInv => FlagsMatch
  BY DEF IInv, Agreement, FlagsMatch
<1>2. QED
  BY Invariance, <1>1, PTL

\* At most the frame in flight is emulated after a pause.
THEOREM PauseIsPrompt == Spec => []LateFrames
<1>1. IInv => LateFrames
  BY DEF IInv, Agreement
<1>2. QED
  BY Invariance, <1>1, PTL
-----------------------------------------------------------------------------
\* A stopped machine does not move until its reset.
THEOREM StoppedRests == Spec => StoppedMachineRests
<1>1. IInv /\ [Next]_vars
        => [Has(flags, {"HALTED", "FATAL"}) /\ worker \notin {"reset", "clear"}
              => UNCHANGED <<interrupt, delay, sound>>]_vars
  <2> SUFFICES ASSUME IInv, Next, Has(flags, {"HALTED", "FATAL"}),
                      worker \notin {"reset", "clear"}
               PROVE  UNCHANGED <<interrupt, delay, sound>>
    OBVIOUS
  <2>1. worker \notin {"frame", "post"}
    BY DEF IInv, Agreement, StopOwnership, Has
  <2>2. CASE Worker
    BY <2>1, <2>2 DEF Worker, BeginFrame, SkipFrame, PerformReset, ClearFlags,
       CacheFlags, PausedFrame, RunFrame, PostWork, CountFrame, TestStop, machine
  <2>3. CASE Host
    BY <2>3 DEF Host, MoveFocus, HostFrame, TestPause, TogglePause,
       RequestReset, RequestStop, Join, machine
  <2>4. QED
    BY <2>2, <2>3 DEF Next
<1>2. QED
  BY Invariance, <1>1, PTL DEF Spec, StoppedMachineRests

\* A reset request is withdrawn only from a fresh machine.
THEOREM ResetsAreFresh == Spec => ResetIsFresh
<1>1. IInv /\ [Next]_vars
        => [ResetPending /\ "RESET" \notin flags'
              => interrupt = "CLEAR" /\ delay = 0 /\ sound = 0 /\ elapsed = 0]_vars
  <2> SUFFICES ASSUME IInv, Next, "RESET" \in flags, "RESET" \notin flags'
               PROVE  interrupt = "CLEAR" /\ delay = 0 /\ sound = 0 /\ elapsed = 0
    BY DEF ResetPending
  <2>1. CASE Worker
    <3>1. ClearFlags
      BY <2>1 DEF Worker, BeginFrame, SkipFrame, PerformReset, CacheFlags,
         PausedFrame, RunFrame, PostWork, CountFrame, TestStop
    <3>2. QED
      BY <3>1 DEF ClearFlags, IInv, Agreement, FreshBeforeClear
  <2>2. CASE Host
    BY <2>2 DEF Host, MoveFocus, HostFrame, TestPause, TogglePause,
       RequestReset, RequestStop, Join
  <2>3. QED
    BY <2>1, <2>2 DEF Next
<1>2. QED
  BY Invariance, <1>1, PTL DEF Spec, ResetIsFresh

-----------------------------------------------------------------------------
(* The dialog                                                              *)

\* The invariant is inductive as it stands: every step of the dialog, of the hashing thread
\* and of the staging keeps it.
LEMMA StagingStep == DialogIsOfItsFile /\ [StagingNext]_stagingVars => DialogIsOfItsFile'
<1> SUFFICES ASSUME DialogIsOfItsFile, [StagingNext]_stagingVars PROVE DialogIsOfItsFile'
  OBVIOUS
<1>1. ClosedLeavesNothing /\ DialogIsOfStagedFile /\ InstanceHashIsItsFile
  BY DEF DialogIsOfItsFile
<1>2. CASE (\E f \in Files : Load(f)) \/ Reject
  <2>1. /\ replaced' = modal /\ modal' = modal /\ sha1_hash' = sha1_hash /\ instances' = instances
        /\ thread' = thread
    BY <1>2 DEF Load, Reject, widget
  <2>2. ClosedLeavesNothing' /\ InstanceHashIsItsFile'
    BY <1>1, <2>1 DEF ClosedLeavesNothing, InstanceHashIsItsFile, running
  <2>3. DialogIsOfStagedFile'
    BY <2>1 DEF DialogIsOfStagedFile
  <2> QED
    BY <2>2, <2>3 DEF DialogIsOfItsFile
<1>3. CASE OpenModal
  <2>1. /\ ~modal /\ modal' = TRUE /\ listed' = file_image /\ file_image' = file_image
        /\ sha1_hash' = sha1_hash /\ instances' = instances
        /\ thread' = IF running THEN thread ELSE "none"
    BY <1>3 DEF OpenModal, staging
  <2>2. sha1_hash' = NoFile /\ ~running'
    BY <1>1, <2>1 DEF ClosedLeavesNothing, running
  <2> QED
    BY <1>1, <2>1, <2>2
       DEF DialogIsOfItsFile, ClosedLeavesNothing, DialogIsOfStagedFile, InstanceHashIsItsFile
<1>4. CASE Calculate
  <2>1. /\ modal /\ modal' = modal /\ data' = file_image /\ replaced' = replaced
        /\ UNCHANGED <<file_image, sha1_hash, listed, instances>>
    BY <1>4 DEF Calculate, Rendered, staging
  <2> QED
    BY <1>1, <2>1
       DEF DialogIsOfItsFile, ClosedLeavesNothing, DialogIsOfStagedFile, InstanceHashIsItsFile
<1>5. CASE Cancel \/ Joined \/ Dismiss \/ SeeStop \/ LeaveThread \/ UNCHANGED stagingVars
  <2>1. /\ UNCHANGED <<file_image, sha1_hash, modal, listed, data, instances, replaced>>
        /\ thread' = thread \/ ~running' \/ (running /\ running')
    BY <1>5 DEF Cancel, Joined, Dismiss, SeeStop, LeaveThread, staging, stagingVars, widget, running
  <2>2. running' => running
    BY <2>1 DEF running
  <2> QED
    BY <1>1, <2>1, <2>2
       DEF DialogIsOfItsFile, ClosedLeavesNothing, DialogIsOfStagedFile, InstanceHashIsItsFile
<1>6. CASE NewInstance
  <2>1. /\ modal /\ ~running /\ file_image # NoFile /\ file_image' = NoFile
        /\ UNCHANGED <<sha1_hash, modal, listed, thread, data, replaced>>
        /\ instances' = instances \cup
             {[file |-> file_image, hash |-> calc_file_image_sha1, replaced |-> replaced]}
    BY <1>6 DEF NewInstance, Rendered
  <2>2. ~replaced => calc_file_image_sha1 = file_image
    BY <1>1, <2>1 DEF DialogIsOfStagedFile, calc_file_image_sha1
  <2>3. InstanceHashIsItsFile'
    BY <1>1, <2>1, <2>2 DEF InstanceHashIsItsFile
  <2>4. ClosedLeavesNothing' /\ DialogIsOfStagedFile'
    BY <1>1, <2>1 DEF ClosedLeavesNothing, DialogIsOfStagedFile, running
  <2> QED
    BY <2>3, <2>4 DEF DialogIsOfItsFile
<1>7. CASE Close
  <2>1. /\ thread' = "none" /\ sha1_hash' = NoFile /\ modal' = FALSE /\ instances' = instances
    BY <1>7 DEF Close
  <2> QED
    BY <1>1, <2>1
       DEF DialogIsOfItsFile, ClosedLeavesNothing, DialogIsOfStagedFile, InstanceHashIsItsFile,
           running
<1>8. CASE FinishHash
  <2>1. /\ running /\ sha1_hash' = data
        /\ UNCHANGED <<file_image, modal, listed, data, instances, replaced>>
    BY <1>8 DEF FinishHash, running
  <2>2. modal
    BY <1>1, <2>1 DEF ClosedLeavesNothing
  <2> QED
    BY <1>1, <2>1, <2>2
       DEF DialogIsOfItsFile, ClosedLeavesNothing, DialogIsOfStagedFile, InstanceHashIsItsFile
<1> QED
  BY <1>2, <1>3, <1>4, <1>5, <1>6, <1>7, <1>8 DEF StagingNext, Hasher

\* For any files: the dialog, its hash and the instances that it makes are of one file.
THEOREM DialogsAreOfTheirFile == StagingSpec => []DialogIsOfItsFile
<1>1. StagingInit => DialogIsOfItsFile
  BY DEF StagingInit, DialogIsOfItsFile, ClosedLeavesNothing, DialogIsOfStagedFile,
         InstanceHashIsItsFile, running
<1> QED
  BY <1>1, StagingStep, PTL DEF StagingSpec
-----------------------------------------------------------------------------
(* The systems of the host                                                 *)

\* What is a member of what; no id is given twice.
HostTypes ==
  /\ nextId \in Nat /\ focus_mru \in Seq(Id) /\ systems \subseteq Id /\ concealed \subseteq Id
  /\ \A id \in systems \cup concealed : id < nextId

HostIInv == HostTypes /\ MruIsSystems /\ OnlyFrontRuns

\* The agreement of list and map, in terms of the list's members.
LEMMA MruMembers ==
  ASSUME NEW s \in Seq(Id), NEW S
  PROVE  /\ (S = {s[i] : i \in DOMAIN s}) <=> (\A x : x \in S <=> Contains(s, x))
         /\ (\A i, j \in DOMAIN s : i # j => s[i] # s[j]) <=> Distinct(s)
<1>1. DOMAIN s = 1..Len(s)
  BY LenProperties
<1> QED
  BY <1>1 DEF Contains, Distinct

\* What is before another in a list without some members was so in the list.
LEMMA FilteredBefore ==
  ASSUME NEW s \in Seq(Id), NEW S, NEW x, NEW y, Before(Filtered(s, S), x, y)
  PROVE  Before(s, x, y)
<1> DEFINE t == Filtered(s, S)
<1>1. t \in Seq(Id) /\ DOMAIN t = 1..Len(t) /\ DOMAIN s = 1..Len(s)
  BY FilteredMembers, LenProperties
<1>2. PICK i, j \in DOMAIN t : i < j /\ t[i] = x /\ t[j] = y
  BY DEF Before
<1>3. PICK k, m \in 1..Len(s) : k < m /\ s[k] = t[i] /\ s[m] = t[j]
  <2>1. i \in 1..Len(t) /\ j \in 1..Len(t) /\ i < j
    BY <1>1, <1>2
  <2>2. \E k, m \in 1..Len(s) :
          /\ i <= k /\ j <= m /\ k < m
          /\ s[k] = Filtered(s, S)[i] /\ s[m] = Filtered(s, S)[j]
    BY <2>1, FilteredOrder
  <2> QED
    BY <2>2
<1> HIDE DEF t
<1> QED
  BY <1>1, <1>2, <1>3 DEF Before

\* What is inserted comes to the front, and the others keep their order.
LEMMA InsertPlaces ==
  ASSUME NEW s \in Seq(Id), NEW id \in Id, Distinct(s)
  PROVE  /\ Insert(s, id) \in Seq(Id) /\ Distinct(Insert(s, id))
         /\ Insert(s, id) # <<>> /\ Head(Insert(s, id)) = id
         /\ \A x : Contains(Insert(s, id), x) <=> x = id \/ Contains(s, x)
         /\ \A x, y : Before(Insert(s, id), x, y) /\ x # id => Before(s, x, y)
<1> DEFINE t == Filtered(s, Id \ {id})
           u == <<id>> \o t
<1>1. t \in Seq(Id) /\ Distinct(t) /\ \A x : Contains(t, x) <=> Contains(s, x) /\ x \in Id \ {id}
  BY FilteredMembers, FilteredDistinct
<1>2. <<id>> \in Seq(Id) /\ Len(<<id>>) = 1 /\ <<id>>[1] = id
  OBVIOUS
<1>3. Distinct(<<id>>) /\ \A x : Contains(<<id>>, x) <=> x = id
  BY <1>2 DEF Distinct, Contains
<1>4. Insert(s, id) = u
  BY DEF Insert, Erase
<1>5. \A x, y : Before(t, x, y) => Before(s, x, y)
  BY FilteredBefore
<1> HIDE DEF t, u
<1>6. /\ u \in Seq(Id) /\ Distinct(u)
      /\ \A x : Contains(u, x) <=> Contains(<<id>>, x) \/ Contains(t, x)
  <2>1. \A x \in Id : ~(Contains(<<id>>, x) /\ Contains(t, x))
    BY <1>1, <1>3
  <2> DEFINE one == <<id>>
  <2>2. one \in Seq(Id) /\ Distinct(one) /\ \A x \in Id : ~(Contains(one, x) /\ Contains(t, x))
    BY <1>2, <1>3, <2>1
  <2> HIDE DEF one
  <2>3. /\ one \o t \in Seq(Id) /\ Distinct(one \o t)
        /\ \A x : Contains(one \o t, x) <=> Contains(one, x) \/ Contains(t, x)
    BY <1>1, <2>2, MergedPlaces
  <2> QED
    BY <2>3 DEF one, u
<1>7. /\ Len(u) = 1 + Len(t)
      /\ \A i \in 1..1+Len(t) : u[i] = IF i <= 1 THEN id ELSE t[i-1]
  BY <1>1, <1>2, ConcatProperties DEF u
<1>8. Len(t) \in Nat /\ DOMAIN t = 1..Len(t) /\ DOMAIN u = 1..Len(u)
  BY <1>1, <1>6, LenProperties
<1>9. \A x : Contains(s, x) => x \in Id
  BY ElementOfSeq DEF Contains
<1>10. u # <<>> /\ Head(u) = id
  <2>1. Len(u) >= 1 /\ u[1] = id
    BY <1>7, <1>8
  <2> QED
    BY <1>6, <2>1
<1>11. ASSUME NEW x, NEW y, Before(u, x, y), x # id PROVE Before(s, x, y)
  <2>1. PICK i, j \in DOMAIN u : i < j /\ u[i] = x /\ u[j] = y
    BY <1>11 DEF Before
  <2>2. i # 1
    BY <1>7, <1>8, <1>11, <2>1
  <2>3. i-1 \in DOMAIN t /\ j-1 \in DOMAIN t /\ i-1 < j-1
    BY <1>7, <1>8, <2>1, <2>2
  <2>4. t[i-1] = x /\ t[j-1] = y
    BY <1>7, <1>8, <2>1, <2>2
  <2>5. Before(t, x, y)
    BY <2>3, <2>4 DEF Before
  <2> QED
    BY <1>5, <2>5
<1> QED
  BY <1>1, <1>3, <1>4, <1>6, <1>9, <1>10, <1>11

\* A list that does not change keeps its order, and one that only loses members.
LEMMA OrderOfSame == focus_mru' = focus_mru => OrderKept
  BY DEF OrderKept

LEMMA OrderOfFiltered ==
  ASSUME focus_mru \in Seq(Id), NEW S, focus_mru' = Filtered(focus_mru, S)
  PROVE  OrderKept
<1>1. \A x, y \in Id : Before(focus_mru', x, y) => Before(focus_mru, x, y)
  BY FilteredBefore
<1> QED
  BY <1>1 DEF OrderKept

\* The host starts without a system.
LEMMA InitHost == HostInit => HostIInv
<1> SUFFICES ASSUME HostInit PROVE HostIInv
  OBVIOUS
<1>1. <<>> \in Seq(Id) /\ DOMAIN <<>> = {}
  OBVIOUS
<1> QED
  BY <1>1 DEF HostInit, HostIInv, HostTypes, MruIsSystems, OnlyFrontRuns

HostKept == HostIInv' /\ OrderKept

\* A window is closed or focused, a reset is asked for or done, and the frame goes on.
LEMMA QuietHost ==
  ASSUME HostIInv, UNCHANGED <<nextId, systems, focus_mru>>, phase' # "quit" => phase # "quit",
         concealed' \subseteq concealed, systems \ concealed' \subseteq mayRun',
         phase' = "render" => phase = "render" /\ minimized' = minimized
  PROVE  HostKept
<1> USE DEF HostIInv
<1>1. HostTypes'
  BY DEF HostTypes
<1>2. MruIsSystems'
  BY DEF MruIsSystems
<1>3. OnlyFrontRuns'
  BY DEF OnlyFrontRuns, InFront, First
<1>4. OrderKept
  BY OrderOfSame
<1> QED
  BY <1>1, <1>2, <1>3, <1>4 DEF HostKept

\* The first member of a list is one of them.
LEMMA FirstMember ==
  ASSUME NEW s \in Seq(Id), NEW id \in First(s)
  PROVE  id \in Id /\ Contains(s, id) /\ s # <<>> /\ id = Head(s)
<1>1. s # <<>> /\ id = Head(s)
  BY DEF First
<1>2. Len(s) \in Nat \ {0}
  BY <1>1, EmptySeq
<1>3. Head(s) = s[1] /\ 1 \in 1..Len(s)
  BY <1>1, <1>2
<1> QED
  BY <1>1, <1>3, ElementOfSeq DEF Contains

\* The list loses the systems that the map loses, and nothing is known of them any more.
LEMMA DropKept ==
  ASSUME HostIInv, NEW S, phase # "quit", phase' \notin {"quit", "render"}, nextId' = nextId,
         focus_mru' = Filtered(focus_mru, S), systems' = systems \cap S,
         concealed' \subseteq concealed, systems' \ concealed' \subseteq mayRun'
  PROVE  HostKept
<1> USE DEF HostIInv, HostTypes
<1> DEFINE t == Filtered(focus_mru, S)
<1>1. t \in Seq(Id) /\ \A x : Contains(t, x) <=> Contains(focus_mru, x) /\ x \in S
  BY FilteredMembers
<1>2. (\A x : x \in systems <=> Contains(focus_mru, x)) /\ Distinct(focus_mru)
  BY MruMembers DEF MruIsSystems
<1>3. Distinct(t)
  BY <1>2, FilteredDistinct
<1>4. \A x : x \in systems' <=> Contains(t, x)
  BY <1>1, <1>2
<1> HIDE DEF t
<1>5. systems' = {t[i] : i \in DOMAIN t} /\ \A i, j \in DOMAIN t : i # j => t[i] # t[j]
  BY <1>1, <1>3, <1>4, MruMembers
<1>6. MruIsSystems'
  BY <1>5 DEF MruIsSystems, t
<1>7. HostTypes'
  BY <1>1 DEF t
<1>8. OnlyFrontRuns'
  BY DEF OnlyFrontRuns
<1>9. OrderKept
  BY OrderOfFiltered
<1> QED
  BY <1>6, <1>7, <1>8, <1>9 DEF HostKept

\* The keys of the main window: nothing, the system in front is unloaded, or reset.
LEMMA HotkeysKept == HostIInv /\ Hotkeys => HostKept
<1> SUFFICES ASSUME HostIInv, Hotkeys PROVE HostKept
  OBVIOUS
<1>1. phase = "hotkeys" /\ phase' = "flags" /\ nextId' = nextId
  BY DEF Hotkeys
<1>2. CASE UNCHANGED <<systems, focus_mru, concealed, mayRun>>
  <2>1. systems \ concealed' \subseteq mayRun'
    BY <1>1, <1>2 DEF HostIInv, OnlyFrontRuns
  <2> QED
    BY <1>1, <1>2, <2>1, QuietHost
<1>3. CASE focus_mru # <<>> /\ Unload /\ Forget(InFront)
  <2> DEFINE f == Head(focus_mru)
  <2>1. InFront = {f} /\ f \in Id
    BY <1>3, FirstMember DEF InFront, First, HostIInv, HostTypes
  <2>2. focus_mru' = Filtered(focus_mru, Id \ {f})
    BY <1>3 DEF Unload, Erase
  <2>3. systems' = systems \cap (Id \ {f})
    BY <1>3, <2>1 DEF Unload, HostIInv, HostTypes
  <2>4. concealed' = concealed \ {f} /\ mayRun' = mayRun \ {f}
    BY <1>3, <2>1 DEF Forget
  <2>5. systems' \ concealed' \subseteq mayRun'
    BY <1>1, <2>3, <2>4 DEF HostIInv, OnlyFrontRuns
  <2> QED
    BY <1>1, <2>2, <2>3, <2>4, <2>5, DropKept
<1> QED
  BY <1>2, <1>3 DEF Hotkeys, windowVars, flagVars

\* The flag pass: the system in front is shown, and it alone.
LEMMA SetFlagsKept == HostIInv /\ SetFlags => HostKept
<1> SUFFICES ASSUME HostIInv, SetFlags PROVE HostKept
  OBVIOUS
<1> USE DEF HostIInv
<1>1. /\ phase = "flags" /\ phase' = "render" /\ concealed' = (concealed \cup systems) \ Shown
      /\ mayRun' = Shown
      /\ UNCHANGED <<nextId, systems, focus_mru, minimized>>
  BY DEF SetFlags
<1>2. HostTypes'
  BY <1>1 DEF HostTypes
<1>3. MruIsSystems'
  BY <1>1 DEF MruIsSystems
<1>4. InFront' = InFront
  BY <1>1 DEF InFront, First
<1>5. OnlyFrontRuns'
  BY <1>1, <1>4 DEF OnlyFrontRuns, Shown
<1>6. OrderKept
  BY <1>1, OrderOfSame
<1> QED
  BY <1>2, <1>3, <1>5, <1>6 DEF HostKept

\* A new system comes to the front of the list, beside or instead of the one that is there.
LEMMA NewSystemKept == HostIInv /\ NewSystem => HostKept
<1> SUFFICES ASSUME HostIInv, NewSystem PROVE HostKept
  OBVIOUS
<1> USE DEF HostIInv, HostTypes
<1>1. PICK gone \in {{}, InFront} :
        /\ systems' = (systems \ gone) \cup {nextId}
        /\ focus_mru' = Insert(Filtered(focus_mru, Id \ gone), nextId)
        /\ concealed' = concealed \ gone /\ mayRun' = (mayRun \ gone) \cup {nextId}
  BY DEF NewSystem
<1>2. /\ phase = "render" /\ phase' = "render" /\ minimized' = minimized
      /\ nextId \in Id /\ nextId' = nextId + 1
  BY DEF NewSystem
<1> DEFINE t == Filtered(focus_mru, Id \ gone)
           u == Insert(t, nextId)
<1>3. t \in Seq(Id) /\ \A x : Contains(t, x) <=> Contains(focus_mru, x) /\ x \in Id \ gone
  BY FilteredMembers
<1>4. (\A x : x \in systems <=> Contains(focus_mru, x)) /\ Distinct(focus_mru)
  BY <1>2, MruMembers DEF MruIsSystems
<1>5. Distinct(t) /\ \A x, y : Before(t, x, y) => Before(focus_mru, x, y)
  BY <1>4, FilteredDistinct, FilteredBefore
<1> HIDE DEF t
<1>6. /\ u \in Seq(Id) /\ Distinct(u) /\ u # <<>> /\ Head(u) = nextId
      /\ \A x : Contains(u, x) <=> x = nextId \/ Contains(t, x)
      /\ \A x, y : Before(u, x, y) /\ x # nextId => Before(t, x, y)
  BY <1>2, <1>3, <1>5, InsertPlaces
<1>7. focus_mru' = u
  BY <1>1 DEF t
<1> HIDE DEF u
<1>8. \A x : x \in systems' <=> Contains(u, x)
  BY <1>1, <1>3, <1>4, <1>6
<1>9. MruIsSystems'
  <2>1. systems' = {u[i] : i \in DOMAIN u} /\ \A i, j \in DOMAIN u : i # j => u[i] # u[j]
    BY <1>6, <1>8, MruMembers
  <2> QED
    BY <1>7, <2>1 DEF MruIsSystems
<1>10. HostTypes'
  <2>1. \A id \in systems' \cup concealed' : id < nextId'
    BY <1>1, <1>2 DEF Id
  <2>2. nextId' \in Nat
    BY <1>2
  <2>3. systems' \subseteq Id /\ concealed' \subseteq Id
    BY <1>1, <1>2
  <2> QED
    BY <1>6, <1>7, <2>1, <2>2, <2>3
<1>11. OnlyFrontRuns'
  <2>1. InFront' = {nextId}
    BY <1>6, <1>7 DEF InFront, First
  <2>2. nextId \notin concealed'
    BY <1>1, <1>2 DEF Id
  <2>3. systems' \ concealed' \subseteq mayRun'
    BY <1>1, <1>2 DEF OnlyFrontRuns
  <2> QED
    BY <2>1, <2>2, <2>3 DEF OnlyFrontRuns
<1>12. OrderKept
  BY <1>5, <1>6, <1>7 DEF OrderKept
<1> QED
  BY <1>9, <1>10, <1>11, <1>12 DEF HostKept

\* The systems whose windows were closed go from the list and from the map.
LEMMA PruneKept == HostIInv /\ PruneSystems => HostKept
<1> SUFFICES ASSUME HostIInv, PruneSystems PROVE HostKept
  OBVIOUS
<1>1. /\ phase = "prune" /\ phase' = "focus" /\ nextId' = nextId
      /\ systems' = systems \cap visible /\ focus_mru' = Filtered(focus_mru, visible)
      /\ concealed' = concealed \ (systems \ visible) /\ mayRun' = mayRun \ (systems \ visible)
  BY DEF PruneSystems, Forget
<1>2. systems' \ concealed' \subseteq mayRun'
  BY <1>1 DEF HostIInv, OnlyFrontRuns
<1> QED
  BY <1>1, <1>2, DropKept

\* The system that has the focus comes to the front, and the others keep their order.
LEMMA FindFocusedKept == HostIInv /\ FindFocused => HostKept
<1> SUFFICES ASSUME HostIInv, FindFocused PROVE HostKept
  OBVIOUS
<1> USE DEF HostIInv, HostTypes
<1>1. /\ phase = "focus" /\ phase' = "hotkeys"
      /\ UNCHANGED <<nextId, systems, concealed, mayRun>>
  BY DEF FindFocused, flagVars
<1>2. CASE focus_mru' = focus_mru
  <2>1. systems \ concealed' \subseteq mayRun'
    BY <1>1 DEF OnlyFrontRuns
  <2> QED
    BY <1>1, <1>2, <2>1, QuietHost
<1>3. ASSUME NEW id \in Winner, focus_mru' = Insert(focus_mru, id) PROVE HostKept
  <2> DEFINE u == Insert(focus_mru, id)
             w == Filtered(focus_mru, focused \ InFront)
  <2>1. (\A x : x \in systems <=> Contains(focus_mru, x)) /\ Distinct(focus_mru)
    BY <1>1, MruMembers DEF MruIsSystems
  <2>2. id \in Id /\ Contains(focus_mru, id)
    <3>1. w \in Seq(Id) /\ \A x : Contains(w, x) => Contains(focus_mru, x)
      BY FilteredMembers
    <3>2. id \in First(w)
      BY <1>3 DEF Winner
    <3> HIDE DEF w
    <3> QED
      BY <3>1, <3>2, FirstMember
  <2>3. /\ u \in Seq(Id) /\ Distinct(u) /\ Head(u) = id
        /\ \A x : Contains(u, x) <=> x = id \/ Contains(focus_mru, x)
        /\ \A x, y : Before(u, x, y) /\ x # id => Before(focus_mru, x, y)
    BY <2>1, <2>2, InsertPlaces
  <2> HIDE DEF u
  <2>4. focus_mru' = u
    BY <1>3 DEF u
  <2>5. MruIsSystems'
    <3>1. \A x : x \in systems <=> Contains(u, x)
      BY <2>1, <2>2, <2>3
    <3>2. systems = {u[i] : i \in DOMAIN u} /\ \A i, j \in DOMAIN u : i # j => u[i] # u[j]
      BY <2>3, <3>1, MruMembers
    <3> QED
      BY <1>1, <2>4, <3>2 DEF MruIsSystems
  <2>6. HostTypes'
    BY <1>1, <2>3, <2>4
  <2>7. OnlyFrontRuns'
    BY <1>1 DEF OnlyFrontRuns
  <2>8. OrderKept
    BY <2>3, <2>4 DEF OrderKept
  <2> QED
    BY <2>5, <2>6, <2>7, <2>8 DEF HostKept
<1> QED
  BY <1>2, <1>3 DEF FindFocused

\* The host ends: it has no systems any more.
LEMMA QuitKept == HostIInv /\ Quit => HostKept
<1> SUFFICES ASSUME HostIInv, Quit PROVE HostKept
  OBVIOUS
<1> USE DEF HostIInv
<1>1. /\ phase' = "quit" /\ systems' = {} /\ concealed' \subseteq concealed
      /\ UNCHANGED <<nextId, focus_mru>>
  BY DEF Quit, Forget
<1>2. HostTypes'
  BY <1>1 DEF HostTypes
<1>3. MruIsSystems' /\ OnlyFrontRuns'
  BY <1>1 DEF MruIsSystems, OnlyFrontRuns
<1>4. OrderKept
  BY <1>1, OrderOfSame
<1> QED
  BY <1>2, <1>3, <1>4 DEF HostKept

\* Every step preserves the inductive invariant and the order of the list.
LEMMA StepHost == HostIInv /\ [HostNext]_deskVars => HostKept
<1> SUFFICES ASSUME HostIInv, [HostNext]_deskVars PROVE HostKept
  OBVIOUS
<1>1. phase # "quit" => systems \ concealed \subseteq mayRun
  BY DEF HostIInv, OnlyFrontRuns
<1>2. CASE UNCHANGED deskVars
  <2>1. UNCHANGED <<phase, nextId, systems, focus_mru, concealed, mayRun, minimized>>
    BY <1>2 DEF deskVars, flagVars
  <2>2. HostTypes' /\ MruIsSystems' /\ OnlyFrontRuns'
    BY <2>1 DEF HostIInv, HostTypes, MruIsSystems, OnlyFrontRuns, InFront, First
  <2> QED
    BY <2>1, <2>2, OrderOfSame DEF HostKept, HostIInv
<1>3. CASE Minimize
  BY <1>1, <1>3, QuietHost DEF Minimize, flagVars
<1>4. CASE EndRender
  BY <1>1, <1>4, QuietHost DEF EndRender, flagVars
<1>5. ASSUME NEW id \in Id, CloseViewport(id) \/ FocusViewport(id) \/ MenuReset(id)
      PROVE  HostKept
  <2>1. /\ phase = "render" /\ phase' = phase /\ minimized' = minimized
        /\ UNCHANGED <<nextId, systems, focus_mru, concealed, mayRun>>
    BY <1>5 DEF CloseViewport, FocusViewport, MenuReset, flagVars
  <2> QED
    BY <1>1, <2>1, QuietHost
<1>6. ASSUME NEW id \in Id, FinishReset(id) PROVE HostKept
  <2>1. /\ phase' = phase /\ minimized' = minimized /\ concealed' = concealed \ {id}
        /\ mayRun' = mayRun \cup {id} /\ id \in systems
        /\ UNCHANGED <<nextId, systems, focus_mru>>
    BY <1>6 DEF FinishReset
  <2>2. CASE phase = "quit"
    <3>1. HostTypes' /\ MruIsSystems' /\ OnlyFrontRuns'
      BY <2>1, <2>2 DEF HostIInv, HostTypes, MruIsSystems, OnlyFrontRuns
    <3> QED
      BY <2>1, <3>1, OrderOfSame DEF HostKept, HostIInv
  <2>3. CASE phase # "quit"
    BY <1>1, <2>1, <2>3, QuietHost
  <2> QED
    BY <2>2, <2>3
<1> QED
  BY <1>2, <1>3, <1>4, <1>5, <1>6, HotkeysKept, SetFlagsKept, NewSystemKept, PruneKept,
     FindFocusedKept, QuitKept DEF HostNext

\* After every step of the host the list of the last used systems and the map of all
\* systems agree, nothing runs in the background, and the systems behind the front keep
\* their order: SimpleMRU and ApplicationHost.cpp.
THEOREM HostSafety == HostSpec => HostKeepsOrder
<1>1. HostInit => HostIInv
  BY InitHost
<1>2. HostIInv /\ [HostNext]_deskVars => HostIInv'
  BY StepHost DEF HostKept
<1>3. HostIInv /\ [HostNext]_deskVars => [MruIsSystems' /\ OnlyFrontRuns' /\ OrderKept]_deskVars
  BY StepHost DEF HostKept, HostIInv
<1> QED
  BY <1>1, <1>2, <1>3, PTL DEF HostSpec, HostKeepsOrder
-----------------------------------------------------------------------------
(* The hooks of the windows and menus                                      *)

\* What is a member of what.
HookTypes ==
  /\ kind \in {"windows", "menus"} /\ stage \in {"idle", "pass", "run", "merge"}
  /\ hooks \in Seq(Hook) /\ overflow \in Seq(Hook) /\ offset \in Nat
  /\ born \subseteq Hook /\ alive \subseteq born /\ early \subseteq alive
  /\ ran \in [Hook -> {0, 1}] /\ opened \in BOOLEAN

\* A hook has one place, in the registry or in the overflow, and one that lives has it.
HookPlaces ==
  /\ Distinct(hooks) /\ Distinct(overflow)
  /\ \A h \in Hook : ~(Contains(hooks, h) /\ Contains(overflow, h))
  /\ \A h \in Hook : Contains(hooks, h) \/ Contains(overflow, h) => h \in born
  /\ \A h \in alive : Contains(hooks, h) \/ Contains(overflow, h)

\* What is behind the offset, or still in the overflow, has not run in this frame.
HooksToCome ==
  /\ \A h \in Hook : h \notin born => ran[h] = 0
  /\ stage # "idle" =>
       /\ \A k \in 1..Len(hooks) : k > offset => ran[hooks[k]] = 0
       /\ \A k \in 1..Len(overflow) : ran[overflow[k]] = 0

\* The windows before the offset have run, and a pass ends at the end of the registry.
WindowsDone ==
  kind = "windows" =>
    /\ offset <= Len(hooks)
    /\ stage # "idle" => \A k \in 1..Len(hooks) : k <= offset => ran[hooks[k]] = 1
    /\ stage = "merge" => offset = Len(hooks)

\* A hook that was there when the frame began, and lives, has run or is behind the
\* offset; when the first pass is over it has run.
EarlyDone ==
  opened =>
    /\ stage # "idle" =>
         \A h \in early : ran[h] = 1 \/ \E k \in 1..Len(hooks) : k > offset /\ hooks[k] = h
    /\ stage = "pass" => offset = 0 \/ \A h \in early : ran[h] = 1
    /\ stage = "merge" => \A h \in early : ran[h] = 1

HookIInv ==
  /\ HookTypes /\ HookPlaces /\ (stage = "idle" => offset = 0)
  /\ HooksToCome /\ WindowsDone /\ EarlyDone
-----------------------------------------------------------------------------
\* Initially no hook is registered.
LEMMA InitHooks == HooksInit => HookIInv
<1> SUFFICES ASSUME HooksInit PROVE HookIInv
  OBVIOUS
<1>1. <<>> \in Seq(Hook) /\ Len(<<>>) = 0
  BY EmptySeq
<1>2. opened \in BOOLEAN
  BY DEF HooksInit
<1>3. HookTypes
  BY <1>1, <1>2 DEF HooksInit, HookTypes
<1> QED
  BY <1>1, <1>3 DEF HooksInit, HookIInv, HookPlaces, HooksToCome, WindowsDone, EarlyDone,
                    Distinct, Contains

\* A hook that is registered is new.
LEMMA RegisterHooks ==
  ASSUME HookIInv, NEW x \in Hook, Register(x) PROVE HookIInv'
<1> USE DEF HookIInv, HookTypes
<1>1. /\ kind' = kind /\ offset' = offset /\ stage' = stage /\ early' = early /\ ran' = ran
      /\ opened' = opened /\ alive' = alive \cup {x} /\ born' = born \cup {x} /\ x \notin born
  BY DEF Register
<1>2. \/ stage = "idle" /\ hooks' = Append(hooks, x) /\ overflow' = overflow
      \/ overflow' = Append(overflow, x) /\ hooks' = hooks
  BY DEF Register
<1>3. ~Contains(hooks, x) /\ ~Contains(overflow, x)
  BY <1>1 DEF HookPlaces
<1>4. /\ Append(hooks, x) \in Seq(Hook) /\ Distinct(Append(hooks, x))
      /\ \A y : Contains(Append(hooks, x), y) <=> Contains(hooks, y) \/ y = x
  BY <1>3, AppendPlaces DEF HookPlaces
<1>5. /\ Append(overflow, x) \in Seq(Hook) /\ Distinct(Append(overflow, x))
      /\ \A y : Contains(Append(overflow, x), y) <=> Contains(overflow, y) \/ y = x
  BY <1>3, AppendPlaces DEF HookPlaces
<1>6. HookTypes'
  BY <1>1, <1>2, <1>4, <1>5
<1>7. HookPlaces'
  <2>1. CASE hooks' = Append(hooks, x) /\ overflow' = overflow
    BY <1>1, <1>3, <1>4, <2>1 DEF HookPlaces
  <2>2. CASE overflow' = Append(overflow, x) /\ hooks' = hooks
    BY <1>1, <1>3, <1>5, <2>2 DEF HookPlaces
  <2> QED
    BY <1>2, <2>1, <2>2
<1>8. HooksToCome'
  <2>1. CASE stage = "idle"
    BY <1>1, <2>1 DEF HooksToCome
  <2>2. CASE stage # "idle"
    <3>1. overflow' = Append(overflow, x) /\ hooks' = hooks
      BY <1>2, <2>2
    <3>2. \A k \in 1..Len(overflow') : ran[overflow'[k]] = 0
      <4>1. /\ Len(overflow') = Len(overflow)+1 /\ overflow'[Len(overflow)+1] = x
            /\ \A k \in 1..Len(overflow) : overflow'[k] = overflow[k]
        BY <3>1, AppendProperties
      <4>2. \A k \in 1..Len(overflow') : k # Len(overflow)+1 => k \in 1..Len(overflow)
        BY <4>1, LenProperties
      <4>3. ran[x] = 0
        BY <1>1 DEF HooksToCome
      <4> QED
        BY <2>2, <4>1, <4>2, <4>3 DEF HooksToCome
    <3> QED
      BY <1>1, <2>2, <3>1, <3>2 DEF HooksToCome
  <2> QED
    BY <2>1, <2>2
<1>9. WindowsDone'
  <2>1. CASE stage = "idle"
    <3>1. Len(hooks') \in Nat
      BY <1>6, LenProperties
    <3> QED
      BY <1>1, <2>1, <3>1 DEF WindowsDone
  <2>2. CASE stage # "idle"
    BY <1>1, <1>2, <2>2 DEF WindowsDone
  <2> QED
    BY <2>1, <2>2
<1>10. EarlyDone'
  <2>1. CASE stage = "idle"
    BY <1>1, <2>1 DEF EarlyDone
  <2>2. CASE stage # "idle"
    BY <1>1, <1>2, <2>2 DEF EarlyDone
  <2> QED
    BY <2>1, <2>2
<1> QED
  BY <1>1, <1>6, <1>7, <1>8, <1>9, <1>10

\* A hook that is released keeps its place until it is erased.
LEMMA ReleaseHooks ==
  ASSUME HookIInv, NEW x \in Hook, Release(x) PROVE HookIInv'
<1> USE DEF HookIInv, HookTypes, Release
<1>1. HookTypes'
  OBVIOUS
<1>2. HookPlaces'
  BY DEF HookPlaces
<1>3. HooksToCome'
  BY DEF HooksToCome
<1>4. WindowsDone'
  BY DEF WindowsDone
<1>5. EarlyDone'
  BY DEF EarlyDone
<1> QED
  BY <1>1, <1>2, <1>3, <1>4, <1>5

\* A frame begins with no hook run; the menus have merged what was registered between.
LEMMA BeginKeepsHooks ==
  ASSUME HookIInv, BeginHooks PROVE HookIInv'
<1> USE DEF HookIInv, HookTypes
<1>1. /\ stage = "idle" /\ stage' = "pass" /\ kind' = kind /\ offset' = offset /\ offset = 0
      /\ alive' = alive /\ born' = born /\ ran' = [h \in Hook |-> 0] /\ opened' = TRUE
      /\ early' = Range(hooks') \cap alive
  BY DEF BeginHooks
<1>2. \/ hooks' = hooks \o overflow /\ overflow' = <<>>
      \/ hooks' = hooks /\ overflow' = overflow
  BY DEF BeginHooks, Merged
<1>3. /\ hooks \o overflow \in Seq(Hook) /\ Distinct(hooks \o overflow)
      /\ \A y : Contains(hooks \o overflow, y) <=> Contains(hooks, y) \/ Contains(overflow, y)
  BY MergedPlaces DEF HookPlaces
<1>4. <<>> \in Seq(Hook) /\ Len(<<>>) = 0
  BY EmptySeq
<1>5. HookTypes'
  BY <1>1, <1>2, <1>3, <1>4
<1>6. HookPlaces'
  <2>1. CASE hooks' = hooks \o overflow /\ overflow' = <<>>
    <3>1. Distinct(<<>>) /\ \A y : ~Contains(<<>>, y)
      BY <1>4 DEF Distinct, Contains
    <3> QED
      BY <1>1, <1>3, <2>1, <3>1 DEF HookPlaces
  <2>2. CASE hooks' = hooks /\ overflow' = overflow
    BY <1>1, <2>2 DEF HookPlaces
  <2> QED
    BY <1>2, <2>1, <2>2
<1>7. hooks' \in Seq(Hook) /\ overflow' \in Seq(Hook) /\ Len(hooks') \in Nat
  BY <1>5, LenProperties
<1>8. /\ \A k \in 1..Len(hooks') : hooks'[k] \in Hook
      /\ \A k \in 1..Len(overflow') : overflow'[k] \in Hook
  BY <1>7, ElementOfSeq
<1>9. HooksToCome'
  BY <1>1, <1>8 DEF HooksToCome
<1>10. WindowsDone'
  BY <1>1, <1>7 DEF WindowsDone
<1>11. EarlyDone'
  <2>1. \A h \in early' : \E k \in 1..Len(hooks') : k > offset' /\ hooks'[k] = h
    <3>1. \A h \in Range(hooks') : \E k \in 1..Len(hooks') : hooks'[k] = h
      BY <1>7, RangeEquality
    <3> QED
      BY <1>1, <1>7, <3>1
  <2> QED
    BY <1>1, <2>1 DEF EarlyDone
<1> QED
  BY <1>1, <1>5, <1>6, <1>9, <1>10, <1>11

\* The menus are cleaned without a look at the offset: what is still to run stays behind
\* it, or runs not at all, but by then no hook that was there first is still to run.
LEMMA BeginPassKeepsHooks ==
  ASSUME HookIInv, BeginPass PROVE HookIInv'
<1> USE DEF HookIInv, HookTypes
<1>1. /\ stage = "pass" /\ stage' \in {"run", "merge"} /\ kind' = kind /\ offset' = offset
      /\ overflow' = overflow /\ alive' = alive /\ born' = born /\ early' = early /\ ran' = ran
  BY DEF BeginPass
<1>2. CASE kind = "windows"
  <2>1. stage' = "run" /\ hooks' = hooks /\ opened' = opened
    BY <1>2 DEF BeginPass
  <2>2. HookTypes' /\ HookPlaces' /\ HooksToCome'
    BY <1>1, <2>1 DEF HookPlaces, HooksToCome
  <2>3. WindowsDone' /\ EarlyDone'
    BY <1>1, <2>1 DEF WindowsDone, EarlyDone
  <2> QED
    BY <1>1, <2>1, <2>2, <2>3
<1>3. CASE kind = "menus"
  <2> DEFINE b == Filtered(hooks, alive)
  <2>1. /\ hooks' = b
        /\ \/ stage' = "run" /\ opened' = opened
           \/ stage' = "merge" /\ opened' = FALSE
    BY <1>3 DEF BeginPass
  <2>2. b \in Seq(Hook) /\ \A y : Contains(b, y) <=> Contains(hooks, y) /\ y \in alive
    BY FilteredMembers
  <2>3. Distinct(b)
    BY FilteredDistinct DEF HookPlaces
  <2>4. \A k \in 1..Len(b) : \E m \in 1..Len(hooks) : k <= m /\ hooks[m] = b[k]
    BY FilteredPlace
  <2> HIDE DEF b
  <2>5. HookTypes'
    BY <1>1, <2>1, <2>2
  <2>6. HookPlaces'
    BY <1>1, <2>1, <2>2, <2>3 DEF HookPlaces
  <2>7. HooksToCome'
    <3>1. ASSUME NEW k \in 1..Len(b), k > offset PROVE ran[b[k]] = 0
      <4>1. PICK m \in 1..Len(hooks) : k <= m /\ hooks[m] = b[k]
        BY <2>4
      <4>2. m > offset
        BY <3>1, <4>1, <2>2, LenProperties
      <4> QED
        BY <1>1, <4>1, <4>2 DEF HooksToCome
    <3> QED
      BY <1>1, <2>1, <3>1 DEF HooksToCome
  <2>8. WindowsDone'
    BY <1>1, <1>3 DEF WindowsDone
  <2>9. EarlyDone'
    <3>1. SUFFICES ASSUME stage' = "run", opened' = opened, opened = TRUE PROVE EarlyDone'
      BY <1>1, <2>1 DEF EarlyDone
    <3>2. CASE \A h \in early : ran[h] = 1
      BY <1>1, <3>1, <3>2 DEF EarlyDone
    <3>3. CASE offset = 0
      <4>1. ASSUME NEW h \in early PROVE ran[h] = 1 \/ \E k \in 1..Len(b) : k > offset /\ b[k] = h
        <5>1. CASE ran[h] = 1
          BY <5>1
        <5>2. CASE Contains(hooks, h)
          <6>1. Contains(b, h)
            BY <2>2, <5>2
          <6>2. Len(b) \in Nat
            BY <2>2, LenProperties
          <6> QED
            BY <3>3, <6>1, <6>2 DEF Contains
        <5> QED
          BY <1>1, <3>1, <5>1, <5>2 DEF EarlyDone, Contains
      <4> QED
        BY <1>1, <2>1, <3>1, <4>1 DEF EarlyDone
    <3> QED
      BY <1>1, <3>1, <3>2, <3>3 DEF EarlyDone
  <2> QED
    BY <1>1, <2>5, <2>6, <2>7, <2>8, <2>9
<1> QED
  BY <1>2, <1>3

\* The hook at the offset runs, or is erased, and the next one takes its place.
LEMMA InvokeKeepsHooks ==
  ASSUME HookIInv, Invoke PROVE HookIInv'
<1> USE DEF HookIInv, HookTypes
<1> DEFINE h == hooks[offset + 1]
<1>1. /\ stage = "run" /\ stage' = stage /\ offset < Len(hooks) /\ kind' = kind
      /\ overflow' = overflow /\ alive' = alive /\ born' = born /\ early' = early
      /\ opened' = opened
  BY DEF Invoke
<1>2. Len(hooks) \in Nat /\ offset+1 \in 1..Len(hooks)
  BY <1>1, LenProperties
<1>3. h \in Hook /\ Contains(hooks, h) /\ ran[h] = 0
  BY <1>1, <1>2, ElementOfSeq DEF Contains, HooksToCome
<1>4. CASE h \in alive
  <2>1. ran' = [ran EXCEPT ![h] = ran[h] + 1] /\ offset' = offset+1 /\ hooks' = hooks
    BY <1>4 DEF Invoke
  <2>2. ran'[h] = 1 /\ \A y \in Hook : y # h => ran'[y] = ran[y]
    BY <1>3, <2>1
  <2>3. HookTypes'
    BY <1>1, <1>3, <2>1
  <2>4. HookPlaces'
    BY <1>1, <2>1 DEF HookPlaces
  <2>5. \A k \in 1..Len(hooks) : k # offset+1 => hooks[k] # h
    BY <1>2 DEF HookPlaces, Distinct
  <2>6. \A k \in 1..Len(hooks) : hooks[k] \in Hook
    BY ElementOfSeq
  <2>7. \A k \in 1..Len(overflow) : overflow[k] \in Hook /\ overflow[k] # h
    BY <1>3, ElementOfSeq DEF HookPlaces, Contains
  <2> HIDE DEF h
  <2>8. HooksToCome'
    <3>1. \A y \in Hook : y \notin born => ran'[y] = 0
      BY <1>3, <2>2 DEF HooksToCome, HookPlaces
    <3>2. \A k \in 1..Len(hooks) : k > offset+1 => ran'[hooks[k]] = 0
      BY <1>1, <1>2, <2>2, <2>5, <2>6 DEF HooksToCome
    <3>3. \A k \in 1..Len(overflow) : ran'[overflow[k]] = 0
      BY <1>1, <2>2, <2>7 DEF HooksToCome
    <3> QED
      BY <1>1, <2>1, <3>1, <3>2, <3>3 DEF HooksToCome
  <2>9. WindowsDone'
    <3>1. kind = "windows" => \A k \in 1..Len(hooks) : k <= offset+1 => ran'[hooks[k]] = 1
      <4> SUFFICES ASSUME kind = "windows", NEW k \in 1..Len(hooks), k <= offset+1
                   PROVE  ran'[hooks[k]] = 1
        OBVIOUS
      <4>1. CASE k = offset+1
        BY <2>2, <4>1 DEF h
      <4>2. CASE k # offset+1
        <5>1. k <= offset
          BY <4>2
        <5>2. ran[hooks[k]] = 1
          BY <1>1, <5>1 DEF WindowsDone
        <5>3. ran'[hooks[k]] = ran[hooks[k]]
          BY <2>2, <2>5, <2>6, <4>2
        <5> QED
          BY <5>2, <5>3
      <4> QED
        BY <4>1, <4>2
    <3> QED
      BY <1>1, <1>2, <2>1, <3>1 DEF WindowsDone
  <2>10. EarlyDone'
    <3> SUFFICES ASSUME opened = TRUE, NEW y \in early
                 PROVE  ran'[y] = 1 \/ \E k \in 1..Len(hooks) : k > offset+1 /\ hooks[k] = y
      BY <1>1, <2>1 DEF EarlyDone
    <3>1. CASE y = h
      BY <2>2, <3>1
    <3>2. CASE y # h
      <4>1. ran'[y] = ran[y]
        BY <2>2, <3>2
      <4>2. ran[y] = 1 \/ \E k \in 1..Len(hooks) : k > offset /\ hooks[k] = y
        BY <1>1 DEF EarlyDone
      <4>3. \A k \in 1..Len(hooks) : k > offset /\ hooks[k] = y => k > offset+1
        BY <1>2, <3>2 DEF h
      <4> QED
        BY <4>1, <4>2, <4>3
    <3> QED
      BY <3>1, <3>2
  <2> QED
    BY <1>1, <2>1, <2>3, <2>4, <2>8, <2>9, <2>10
<1>5. CASE h \notin alive
  <2> DEFINE b == RemoveAt(hooks, offset + 1)
  <2>1. ran' = ran /\ offset' = offset /\ hooks' = b
    BY <1>5 DEF Invoke, Erased
  <2>2. /\ b \in Seq(Hook) /\ Len(b) = Len(hooks) - 1
        /\ \A i \in 1..Len(hooks)-1 : b[i] = IF i < offset+1 THEN hooks[i] ELSE hooks[i+1]
    BY <1>2, RemoveAtPlaces
  <2> HIDE DEF b
  <2>3. /\ \A i \in 1..Len(b) : i <= offset => i \in 1..Len(hooks) /\ b[i] = hooks[i]
        /\ \A i \in 1..Len(b) : i > offset => i+1 \in 1..Len(hooks) /\ b[i] = hooks[i+1]
    BY <1>2, <2>2
  <2>4. Distinct(b)
    <3> SUFFICES ASSUME NEW i \in 1..Len(b), NEW j \in 1..Len(b), i # j PROVE b[i] # b[j]
      BY DEF Distinct
    <3>1. CASE i <= offset /\ j <= offset
      BY <2>3, <3>1 DEF HookPlaces, Distinct
    <3>2. CASE i <= offset /\ j > offset
      <4>1. i # j+1
        BY <3>2
      <4> QED
        BY <2>3, <3>2, <4>1 DEF HookPlaces, Distinct
    <3>3. CASE i > offset /\ j <= offset
      <4>1. i+1 # j
        BY <3>3
      <4> QED
        BY <2>3, <3>3, <4>1 DEF HookPlaces, Distinct
    <3>4. CASE i > offset /\ j > offset
      <4>1. i+1 # j+1
        OBVIOUS
      <4> QED
        BY <2>3, <3>4, <4>1 DEF HookPlaces, Distinct
    <3> QED
      BY <3>1, <3>2, <3>3, <3>4
  <2>5. \A y : Contains(b, y) => Contains(hooks, y)
    BY <2>3 DEF Contains
  <2>6. ASSUME NEW k \in 1..Len(hooks), k # offset+1
        PROVE  /\ k <= offset => k \in 1..Len(b) /\ b[k] = hooks[k]
               /\ k > offset => k-1 \in 1..Len(b) /\ k-1 > offset /\ b[k-1] = hooks[k]
    <3>1. k <= offset => k \in 1..Len(b) /\ b[k] = hooks[k]
      BY <1>2, <2>2, <2>6
    <3>2. k > offset => k-1 \in 1..Len(b) /\ k-1 > offset /\ (k-1)+1 = k
      BY <1>2, <2>2, <2>6
    <3> QED
      BY <2>3, <3>1, <3>2
  <2>7. \A y : Contains(hooks, y) /\ y # h => Contains(b, y)
    BY <1>2, <2>6 DEF Contains
  <2>8. HookTypes'
    BY <1>1, <2>1, <2>2
  <2>9. HookPlaces'
    BY <1>1, <1>5, <2>1, <2>4, <2>5, <2>7 DEF HookPlaces
  <2>10. HooksToCome'
    <3>1. ASSUME NEW k \in 1..Len(b), k > offset PROVE ran[b[k]] = 0
      <4>1. k+1 \in 1..Len(hooks) /\ b[k] = hooks[k+1]
        BY <2>3, <3>1
      <4>2. k+1 > offset
        BY <2>2, <3>1, LenProperties
      <4> QED
        BY <1>1, <4>1, <4>2 DEF HooksToCome
    <3> QED
      BY <1>1, <2>1, <3>1 DEF HooksToCome
  <2>11. WindowsDone'
    <3>1. kind = "windows" => \A k \in 1..Len(b) : k <= offset => ran[b[k]] = 1
      BY <1>1, <2>3 DEF WindowsDone
    <3>2. offset <= Len(b)
      BY <1>1, <1>2, <2>2
    <3> QED
      BY <1>1, <2>1, <3>1, <3>2 DEF WindowsDone
  <2>12. EarlyDone'
    <3> SUFFICES ASSUME opened = TRUE, NEW y \in early
                 PROVE  ran[y] = 1 \/ \E k \in 1..Len(b) : k > offset /\ b[k] = y
      BY <1>1, <2>1 DEF EarlyDone
    <3>1. ran[y] = 1 \/ \E k \in 1..Len(hooks) : k > offset /\ hooks[k] = y
      BY <1>1 DEF EarlyDone
    <3>2. ASSUME NEW k \in 1..Len(hooks), k > offset, hooks[k] = y
          PROVE  \E m \in 1..Len(b) : m > offset /\ b[m] = y
      <4>1. k # offset+1
        BY <1>5, <3>2
      <4> QED
        BY <2>6, <3>2, <4>1
    <3> QED
      BY <3>1, <3>2
  <2> QED
    BY <1>1, <2>1, <2>8, <2>9, <2>10, <2>11, <2>12
<1> QED
  BY <1>4, <1>5

\* A pass that is at the end of the registry has left nothing behind the offset.
LEMMA EndPassKeepsHooks ==
  ASSUME HookIInv, EndPass PROVE HookIInv'
<1> USE DEF HookIInv, HookTypes
<1>1. /\ stage = "run" /\ stage' = "merge" /\ offset >= Len(hooks)
      /\ UNCHANGED <<kind, hooks, overflow, offset, alive, born, early, ran, opened>>
  BY DEF EndPass
<1>2. Len(hooks) \in Nat
  BY LenProperties
<1>3. HookTypes' /\ HookPlaces' /\ HooksToCome'
  BY <1>1 DEF HookPlaces, HooksToCome
<1>4. WindowsDone'
  BY <1>1, <1>2 DEF WindowsDone
<1>5. EarlyDone'
  <2>1. opened = TRUE => \A h \in early : ran[h] = 1
    <3>1. \A k \in 1..Len(hooks) : ~(k > offset)
      BY <1>1, <1>2
    <3> QED
      BY <1>1, <3>1 DEF EarlyDone
  <2> QED
    BY <1>1, <2>1 DEF EarlyDone
<1> QED
  BY <1>1, <1>3, <1>4, <1>5

\* What was registered meanwhile comes behind all that is in the registry.
LEMMA MergeKeepsHooks ==
  ASSUME HookIInv, MergeAndRepeat PROVE HookIInv'
<1> USE DEF HookIInv, HookTypes
<1> DEFINE b == hooks \o overflow
<1>1. /\ stage = "merge" /\ stage' = "pass" /\ hooks' = b /\ overflow' = <<>>
      /\ UNCHANGED <<kind, offset, alive, born, early, ran, opened>>
  BY DEF MergeAndRepeat, Merged
<1>2. /\ b \in Seq(Hook) /\ Distinct(b)
      /\ \A y : Contains(b, y) <=> Contains(hooks, y) \/ Contains(overflow, y)
  BY MergedPlaces DEF HookPlaces
<1>3. /\ Len(b) = Len(hooks) + Len(overflow)
      /\ \A i \in 1..Len(hooks)+Len(overflow) :
           b[i] = IF i <= Len(hooks) THEN hooks[i] ELSE overflow[i-Len(hooks)]
  BY ConcatProperties
<1>4. Len(hooks) \in Nat /\ Len(overflow) \in Nat
  BY LenProperties
<1>5. <<>> \in Seq(Hook) /\ Len(<<>>) = 0
  BY EmptySeq
<1>6. Distinct(<<>>) /\ \A y : ~Contains(<<>>, y)
  BY <1>5 DEF Distinct, Contains
<1> HIDE DEF b
<1>7. HookTypes' /\ HookPlaces'
  BY <1>1, <1>2, <1>5, <1>6 DEF HookPlaces
<1>8. \A i \in 1..Len(b) :
        \/ i \in 1..Len(hooks) /\ b[i] = hooks[i]
        \/ i > Len(hooks) /\ i-Len(hooks) \in 1..Len(overflow) /\ b[i] = overflow[i-Len(hooks)]
  BY <1>3, <1>4
<1>9. HooksToCome'
  <2>1. ASSUME NEW i \in 1..Len(b), i > offset PROVE ran[b[i]] = 0
    BY <1>1, <1>8, <2>1 DEF HooksToCome
  <2> QED
    BY <1>1, <1>5, <2>1 DEF HooksToCome
<1>10. WindowsDone'
  <2>1. kind = "windows" => offset = Len(hooks) /\ offset <= Len(b)
    BY <1>1, <1>3, <1>4 DEF WindowsDone
  <2>2. kind = "windows" => \A i \in 1..Len(b) : i <= offset => ran[b[i]] = 1
    BY <1>1, <1>4, <1>8, <2>1 DEF WindowsDone
  <2> QED
    BY <1>1, <2>1, <2>2 DEF WindowsDone
<1>11. EarlyDone'
  BY <1>1 DEF EarlyDone
<1> QED
  BY <1>1, <1>7, <1>9, <1>10, <1>11

\* Between two frames nothing has to have run.
LEMMA EndKeepsHooks ==
  ASSUME HookIInv, EndHooks PROVE HookIInv'
<1> USE DEF HookIInv, HookTypes, EndHooks
<1>1. HookTypes' /\ HookPlaces' /\ HooksToCome'
  BY DEF HookPlaces, HooksToCome
<1>2. WindowsDone'
  <2>1. Len(hooks) \in Nat
    BY LenProperties
  <2> QED
    BY <2>1 DEF WindowsDone
<1>3. EarlyDone'
  BY DEF EarlyDone
<1> QED
  BY <1>1, <1>2, <1>3

\* Every step preserves the inductive invariant.
LEMMA StepHooks == HookIInv /\ [HooksNext]_hookVars => HookIInv'
<1> SUFFICES ASSUME HookIInv, [HooksNext]_hookVars PROVE HookIInv'
  OBVIOUS
<1>1. CASE UNCHANGED hookVars
  BY <1>1 DEF hookVars, HookIInv, HookTypes, HookPlaces, HooksToCome, WindowsDone, EarlyDone
<1>2. CASE \E h \in Hook : Register(h) \/ Release(h)
  BY <1>2, RegisterHooks, ReleaseHooks
<1>3. CASE MainNext
  BY <1>3, BeginKeepsHooks, BeginPassKeepsHooks, InvokeKeepsHooks, EndPassKeepsHooks,
     MergeKeepsHooks, EndKeepsHooks DEF MainNext
<1> QED
  BY <1>1, <1>2, <1>3 DEF HooksNext

\* What the hooks' registry promises follows from the inductive invariant.
LEMMA HooksSafe == HookIInv => HooksRunOnce
<1> SUFFICES ASSUME HookIInv PROVE HooksRunOnce
  OBVIOUS
<1> USE DEF HookIInv, HookTypes
<1>1. Len(hooks) \in Nat /\ hooks \in Seq(Hook)
  BY LenProperties
<1>2. \A h \in Hook : ran[h] <= 1
  <2>1. \A h \in Hook : ran[h] \in {0, 1}
    OBVIOUS
  <2> QED
    BY <2>1
<1>3. stage = "merge" /\ opened => \A h \in early : ran[h] = 1
  BY DEF EarlyDone
<1>4. stage = "merge" /\ overflow = <<>> /\ kind = "windows" =>
        \A h \in Range(hooks) \cap alive : ran[h] = 1
  <2>1. \A h \in Range(hooks) : \E k \in 1..Len(hooks) : hooks[k] = h
    BY <1>1, RangeEquality
  <2> QED
    BY <1>1, <2>1 DEF WindowsDone
<1>5. NoHookLost
  <2> DEFINE all == hooks \o overflow
  <2>1. /\ all \in Seq(Hook) /\ Distinct(all)
        /\ \A y : Contains(all, y) <=> Contains(hooks, y) \/ Contains(overflow, y)
    BY MergedPlaces DEF HookPlaces
  <2> HIDE DEF all
  <2>2. DOMAIN all = 1..Len(all)
    BY <2>1, LenProperties
  <2>3. ASSUME NEW h \in alive PROVE Cardinality({k \in DOMAIN all : all[k] = h}) = 1
    <3>1. PICK k \in 1..Len(all) : all[k] = h
      BY <2>1 DEF HookPlaces, Contains
    <3>2. {m \in DOMAIN all : all[m] = h} = {k}
      BY <2>1, <2>2, <3>1 DEF Distinct
    <3> QED
      BY <3>2, FS_Singleton
  <2> QED
    BY <2>3 DEF NoHookLost, all
<1> QED
  BY <1>2, <1>3, <1>4, <1>5 DEF HooksRunOnce

\* No hook of a window or a menu runs twice in a frame, none that was there when the frame
\* began and lives is passed over, and none that lives is lost: UserInterface.cpp.
THEOREM HookSafety == HooksSpec => []HooksRunOnce
<1>1. HooksInit => HookIInv
  BY InitHooks
<1>2. HookIInv /\ [HooksNext]_hookVars => HookIInv'
  BY StepHooks
<1>3. HookIInv => HooksRunOnce
  BY HooksSafe
<1> QED
  BY <1>1, <1>2, <1>3, PTL DEF HooksSpec
-----------------------------------------------------------------------------
(* The list of candidates                                                  *)

\* The cores are in the order of their keys.
InOrder(s) == \A i, j \in 1..Len(s) : i < j => Precedes(s[i], s[j])

\* No two cores of the registry have the same key.
KeysApart(r) == \A i, j \in 1..Len(r) : i # j => Key(r[i]) # Key(r[j])

LEMMA KeyIs ==
  ASSUME NEW c \in Cores, NEW d \in Cores
  PROVE  Key(c) = Key(d) <=> c.family = d.family /\ c.name = d.name
BY DEF Key

\* Of two cores with different keys one precedes the other.
LEMMA PrecedesIsOrder ==
  ASSUME NEW c \in Cores, NEW d \in Cores
  PROVE  /\ Precedes(c, d) => ~Precedes(d, c) /\ Key(c) # Key(d)
         /\ Key(c) # Key(d) => Precedes(c, d) \/ Precedes(d, c)
         /\ \A e \in Cores : Precedes(c, d) /\ Precedes(d, e) => Precedes(c, e)
<1>1. /\ c.family \in Int /\ c.name \in Int /\ d.family \in Int /\ d.name \in Int
      /\ \A e \in Cores : e.family \in Int /\ e.name \in Int
  BY CoresAssumption
<1> QED
  BY <1>1, KeyIs DEF Precedes

\* A list of cores with different keys can be put in order: a core is inserted in front of
\* the first one that it precedes.
LEMMA OrderExists ==
  ASSUME NEW r \in Seq(Cores), KeysApart(r)
  PROVE  \E p \in [1..Len(r) -> 1..Len(r)] :
           \A i, j \in 1..Len(r) : i < j => Precedes(r[p[i]], r[p[j]])
<1> DEFINE Orders(p, n) ==
             /\ p \in [1..n -> 1..n]
             /\ \A i, j \in 1..n : i < j => Precedes(r[p[i]], r[p[j]])
<1> DEFINE H == {n \in Nat : n <= Len(r) => \E p : Orders(p, n)}
<1>1. 0 \in H
  <2>1. Orders([i \in 1..0 |-> 1], 0)
    OBVIOUS
  <2> QED
    BY <2>1
<1>2. ASSUME NEW n \in Nat, n \in H PROVE n+1 \in H
  <2>1. SUFFICES ASSUME n+1 <= Len(r) PROVE \E p : Orders(p, n+1)
    OBVIOUS
  <2>2. Len(r) \in Nat
    BY LenProperties
  <2>3. PICK p : Orders(p, n)
    BY <1>2, <2>1, <2>2
  <2> DEFINE c == r[n+1]
  <2>4. c \in Cores /\ \A i \in 1..n : p[i] \in 1..n /\ r[p[i]] \in Cores
    BY <2>1, <2>2, <2>3, ElementOfSeq
  <2>5. \A i \in 1..n : Precedes(c, r[p[i]]) \/ Precedes(r[p[i]], c)
    <3> TAKE i \in 1..n
    <3>1. p[i] \in 1..Len(r) /\ n+1 \in 1..Len(r) /\ p[i] # n+1
      BY <2>1, <2>2, <2>4
    <3>2. Key(r[p[i]]) # Key(c)
      BY <3>1 DEF KeysApart
    <3> QED
      BY <2>4, <3>2, PrecedesIsOrder
  <2> HIDE DEF c
  <2> DEFINE Fits(k, m) == /\ k \in 1..m+1
                           /\ \A i \in 1..m : i < k => Precedes(r[p[i]], c)
                           /\ \A i \in 1..m : i >= k => Precedes(c, r[p[i]])
  <2>6. PICK k : Fits(k, n)
    <3> DEFINE G == {m \in Nat : m <= n => \E k : Fits(k, m)}
    <3>1. 0 \in G
      <4>1. Fits(1, 0)
        OBVIOUS
      <4> QED
        BY <4>1
    <3>2. ASSUME NEW m \in Nat, m \in G PROVE m+1 \in G
      <4>1. SUFFICES ASSUME m+1 <= n PROVE \E k : Fits(k, m+1)
        OBVIOUS
      <4>2. PICK k : Fits(k, m)
        BY <3>2, <4>1
      <4>3. CASE Precedes(c, r[p[m+1]])
        <5>1. Fits(k, m+1)
          BY <4>2, <4>3
        <5> QED
          BY <5>1
      <4>4. CASE Precedes(r[p[m+1]], c)
        <5>1. \A i \in 1..m+1 : Precedes(r[p[i]], c)
          <6> TAKE i \in 1..m+1
          <6>1. i < m+1 => Precedes(r[p[i]], r[p[m+1]])
            BY <2>3, <4>1
          <6>2. r[p[i]] \in Cores /\ r[p[m+1]] \in Cores
            BY <2>4, <4>1
          <6> QED
            BY <2>4, <4>4, <6>1, <6>2, PrecedesIsOrder
        <5>2. Fits(m+2, m+1)
          BY <5>1
        <5> QED
          BY <5>2
      <4> QED
        BY <2>5, <4>1, <4>3, <4>4
    <3> HIDE DEF G
    <3>3. n \in G
      BY <3>1, <3>2, NatInSet
    <3> QED
      BY <3>3 DEF G
  <2> DEFINE q == [i \in 1..n+1 |-> IF i < k THEN p[i] ELSE IF i = k THEN n+1 ELSE p[i-1]]
  <2>7. q \in [1..n+1 -> 1..n+1]
    BY <2>4, <2>6
  <2>8. ASSUME NEW i \in 1..n+1, NEW j \in 1..n+1, i < j
        PROVE  Precedes(r[q[i]], r[q[j]])
    <3>1. CASE i < k /\ j < k
      BY <2>3, <2>6, <2>8, <3>1
    <3>2. CASE i < k /\ j = k
      BY <2>6, <2>8, <3>2 DEF c
    <3>3. CASE i < k /\ j > k
      <4>1. q[i] = p[i] /\ q[j] = p[j-1] /\ i < j-1 /\ i \in 1..n /\ j-1 \in 1..n
        BY <2>6, <2>8, <3>3
      <4> QED
        BY <2>3, <4>1
    <3>4. CASE i = k
      <4>1. q[i] = n+1 /\ q[j] = p[j-1] /\ j-1 \in 1..n /\ ~(j-1 < k)
        BY <2>8, <3>4
      <4> QED
        BY <2>6, <4>1 DEF c
    <3>5. CASE i > k
      <4>1. q[i] = p[i-1] /\ q[j] = p[j-1] /\ i-1 < j-1 /\ i-1 \in 1..n /\ j-1 \in 1..n
        BY <2>6, <2>8, <3>5
      <4> QED
        BY <2>3, <4>1
    <3> QED
      BY <2>6, <3>1, <3>2, <3>3, <3>4, <3>5
  <2> HIDE DEF q
  <2>9. Orders(q, n+1)
    BY <2>7, <2>8
  <2> QED
    BY <2>9
<1>3. Len(r) \in H
  <2> HIDE DEF H
  <2> QED
    BY <1>1, <1>2, NatInSet, LenProperties
<1> QED
  BY <1>3

\* The list of the cores in their order has the cores of the registry.
LEMMA SpanIsInOrder ==
  ASSUME registry \in Seq(Cores), KeysApart(registry)
  PROVE  /\ candidate_core_span \in Seq(Cores)
         /\ Len(candidate_core_span) = Len(registry)
         /\ InOrder(candidate_core_span)
         /\ \A i \in 1..Len(registry) : \E j \in 1..Len(registry) :
              candidate_core_span[j] = registry[i]
         /\ \A j \in 1..Len(registry) : \E i \in 1..Len(registry) :
              candidate_core_span[j] = registry[i]
<1> DEFINE n == Len(registry)
           places == DOMAIN registry
           Orders(p) == \A i, j \in places : i < j => Precedes(registry[p[i]], registry[p[j]])
           sorted == CHOOSE p \in [places -> places] : Orders(p)
<1>1. n \in Nat /\ places = 1..n /\ \A i \in 1..n : registry[i] \in Cores
  BY LenProperties, ElementOfSeq
<1>2. \E p \in [places -> places] : Orders(p)
  BY <1>1, OrderExists
<1>3. sorted \in [1..n -> 1..n] /\ Orders(sorted)
  BY <1>1, <1>2
<1>4. candidate_core_span = [i \in 1..n |-> registry[sorted[i]]]
  BY <1>1 DEF candidate_core_span
<1> HIDE DEF sorted
<1>5. /\ candidate_core_span \in Seq(Cores) /\ Len(candidate_core_span) = n
  <2>1. \A i \in 1..n : registry[sorted[i]] \in Cores
    BY <1>1, <1>3
  <2> QED
    BY <1>1, <1>4, <2>1, IsASeq
<1>6. InOrder(candidate_core_span)
  BY <1>1, <1>3, <1>4, <1>5 DEF InOrder
<1>7. \A i \in 1..n : \E j \in 1..n : sorted[j] = i
  <2>1. IsInjective(sorted)
    <3> SUFFICES ASSUME NEW i \in 1..n, NEW j \in 1..n, sorted[i] = sorted[j] PROVE i = j
      BY <1>3 DEF IsInjective
    <3>1. registry[sorted[i]] \in Cores
      BY <1>1, <1>3
    <3>2. ~Precedes(registry[sorted[i]], registry[sorted[i]])
      BY <3>1, PrecedesIsOrder
    <3>3. ~(i < j) /\ ~(j < i)
      BY <1>1, <1>3, <3>2
    <3> QED
      BY <1>1, <3>3
  <2>2. sorted \in Injection(1..n, 1..n)
    BY <1>3, <2>1 DEF Injection
  <2>3. IsFiniteSet(1..n)
    BY <1>1, FS_Interval
  <2>4. sorted \in Surjection(1..n, 1..n)
    BY <2>2, <2>3, FS_Injection
  <2> QED
    BY <2>4 DEF Surjection
<1> QED
  BY <1>1, <1>3, <1>4, <1>5, <1>6, <1>7

\* The step of Groups.
GroupedAt(g, s, k) == IF k = 0 THEN <<>> ELSE Grouped(g[k-1], s[k])

LEMMA GroupsFunction ==
  ASSUME NEW s \in Seq(Cores)
  PROVE  \E g : /\ \A k \in 0..Len(s) : g[k] = GroupedAt(g, s, k)
                /\ Groups(s) = g[Len(s)]
<1> DEFINE P(n, g) == g = [k \in 0..n |-> GroupedAt(g, s, k)]
<1> DEFINE H == {n \in Nat : \E g : P(n, g)}
<1>1. 0 \in H
  <2> DEFINE g == [k \in 0..0 |-> <<>>]
  <2>1. \A k \in 0..0 : g[k] = GroupedAt(g, s, k)
    BY DEF GroupedAt
  <2>2. P(0, g)
    BY <2>1
  <2> QED
    BY <2>2
<1>2. ASSUME NEW n \in Nat, n \in H PROVE n+1 \in H
  <2>1. PICK f : P(n, f)
    BY <1>2
  <2> DEFINE v == Grouped(f[n], s[n+1])
  <2> DEFINE g == [k \in 0..n+1 |-> IF k = n+1 THEN v ELSE f[k]]
  <2>2. \A k \in 0..n+1 : g[k] = GroupedAt(g, s, k)
    <3> TAKE k \in 0..n+1
    <3>1. CASE k = n+1
      <4>1. g[k-1] = f[n] /\ k # 0 /\ g[k] = v
        BY <3>1
      <4> QED
        BY <3>1, <4>1 DEF GroupedAt
    <3>2. CASE k # n+1
      <4>1. k \in 0..n /\ g[k] = f[k]
        BY <3>2
      <4>2. f[k] = GroupedAt(f, s, k)
        BY <2>1, <4>1
      <4>3. k # 0 => g[k-1] = f[k-1]
        BY <4>1
      <4> QED
        BY <4>1, <4>2, <4>3 DEF GroupedAt
    <3> QED
      BY <3>1, <3>2
  <2>3. P(n+1, g)
    BY <2>2
  <2> HIDE DEF P, g
  <2> QED
    BY <2>3
<1> HIDE DEF P
<1>3. Len(s) \in H
  <2> HIDE DEF H
  <2> QED
    BY <1>1, <1>2, NatInSet, LenProperties
<1> DEFINE f == CHOOSE g : P(Len(s), g)
<1>4. P(Len(s), f)
  BY <1>3
<1>5. Groups(s) = f[Len(s)]
  BY DEF Groups, P, GroupedAt
<1> HIDE DEF f
<1>6. \A k \in 0..Len(s) : f[k] = GroupedAt(f, s, k)
  BY <1>4 DEF P
<1> QED
  BY <1>5, <1>6

\* The groups have the first n cores of s; a group is a family, and the families, and in
\* each of them the names, are in order.
GroupsOf(gs, s, n) ==
  /\ gs \in Seq(Seq(Cores))
  /\ \A g \in 1..Len(gs) : Len(gs[g]) >= 1
  /\ \A g \in 1..Len(gs) : \A i \in 1..Len(gs[g]) : \E k \in 1..n : gs[g][i] = s[k]
  /\ \A k \in 1..n : \E g \in 1..Len(gs) : \E i \in 1..Len(gs[g]) : gs[g][i] = s[k]
  /\ \A g \in 1..Len(gs) : \A i, j \in 1..Len(gs[g]) :
       gs[g][i].family = gs[g][j].family /\ (i < j => gs[g][i].name < gs[g][j].name)
  /\ \A g, h \in 1..Len(gs) : g < h =>
       \A i \in 1..Len(gs[g]), j \in 1..Len(gs[h]) : gs[g][i].family < gs[h][j].family

\* u is gs with c in the place i of group g, behind all others.
GetsLast(u, gs, c, g, i) ==
  /\ u \in Seq(Seq(Cores)) /\ g \in 1..Len(u) /\ i \in 1..Len(u[g]) /\ u[g][i] = c
  /\ \A h \in 1..Len(u) : \A j \in 1..Len(u[h]) :
       ~(h = g /\ j = i) =>
          /\ h \in 1..Len(gs) /\ j \in 1..Len(gs[h]) /\ u[h][j] = gs[h][j]
          /\ h < g \/ (h = g /\ j < i)
  /\ \A h \in 1..Len(gs) : \A j \in 1..Len(gs[h]) :
       h \in 1..Len(u) /\ j \in 1..Len(u[h]) /\ u[h][j] = gs[h][j]
  /\ \A h \in 1..Len(u) : Len(u[h]) >= 1

LEMMA GroupedPlaces ==
  ASSUME NEW gs \in Seq(Seq(Cores)), NEW c \in Cores, \A g \in 1..Len(gs) : Len(gs[g]) >= 1
  PROVE  IF gs # <<>> /\ gs[Len(gs)][1].family = c.family
         THEN GetsLast(Grouped(gs, c), gs, c, Len(gs), Len(gs[Len(gs)]) + 1)
         ELSE GetsLast(Grouped(gs, c), gs, c, Len(gs) + 1, 1)
<1> DEFINE n == Len(gs)
           u == Grouped(gs, c)
<1>1. n \in Nat /\ \A g \in 1..n : gs[g] \in Seq(Cores) /\ Len(gs[g]) \in Nat
  BY LenProperties, ElementOfSeq
<1>2. CASE gs # <<>> /\ gs[n][1].family = c.family
  <2> DEFINE m == Len(gs[n])
             last == Append(gs[n], c)
  <2>1. n \in 1..n
    BY <1>1, <1>2, EmptySeq
  <2>2. gs[n] \in Seq(Cores) /\ m \in Nat
    BY <1>1, <2>1
  <2>3. /\ last \in Seq(Cores) /\ Len(last) = m+1 /\ last[m+1] = c
        /\ \A i \in 1..m : last[i] = gs[n][i]
    BY <2>2, AppendProperties
  <2>4. u = [gs EXCEPT ![n] = last]
    BY <1>2 DEF Grouped
  <2> HIDE DEF last, u
  <2>5. /\ u \in Seq(Seq(Cores)) /\ Len(u) = n
        /\ \A g \in 1..n : u[g] = IF g = n THEN last ELSE gs[g]
    BY <2>1, <2>3, <2>4, ExceptSeq
  <2> HIDE DEF n
  <2>6. /\ n \in 1..Len(u) /\ m+1 \in 1..Len(u[n]) /\ u[n][m+1] = c
    BY <2>1, <2>2, <2>3, <2>5
  <2>7. ASSUME NEW h \in 1..Len(u), NEW j \in 1..Len(u[h]), ~(h = n /\ j = m+1)
        PROVE  /\ h \in 1..n /\ j \in 1..Len(gs[h]) /\ u[h][j] = gs[h][j]
               /\ h < n \/ (h = n /\ j < m+1)
    <3>1. h \in 1..n /\ h \in Nat
      BY <2>5
    <3>2. CASE h = n
      <4>1. j \in 1..m+1 /\ j # m+1 /\ u[h][j] = last[j]
        BY <2>3, <2>5, <2>7, <3>1, <3>2
      <4>2. j \in 1..m /\ j < m+1
        BY <2>2, <4>1
      <4> QED
        BY <2>3, <3>1, <3>2, <4>1, <4>2
    <3>3. CASE h # n
      <4>1. u[h] = gs[h] /\ h < n
        BY <1>1, <2>5, <3>1, <3>3
      <4> QED
        BY <3>1, <4>1
    <3> QED
      BY <3>2, <3>3
  <2>8. ASSUME NEW h \in 1..n, NEW j \in 1..Len(gs[h])
        PROVE  h \in 1..Len(u) /\ j \in 1..Len(u[h]) /\ u[h][j] = gs[h][j]
    <3>1. h \in 1..Len(u)
      BY <2>5
    <3>2. CASE h = n
      <4>1. j \in 1..m /\ u[h] = last
        BY <2>5, <3>1, <3>2
      <4>2. j \in 1..m+1
        BY <2>2, <4>1
      <4> QED
        BY <2>3, <3>1, <3>2, <4>1, <4>2
    <3>3. CASE h # n
      <4>1. u[h] = gs[h]
        BY <2>5, <3>1, <3>3
      <4> QED
        BY <3>1, <4>1
    <3> QED
      BY <3>2, <3>3
  <2>9. ASSUME NEW h \in 1..Len(u) PROVE Len(u[h]) >= 1
    <3>1. CASE h = n
      <4>1. u[h] = last
        BY <2>5, <3>1
      <4> QED
        BY <2>2, <2>3, <4>1
    <3>2. CASE h # n
      <4>1. u[h] = gs[h] /\ h \in 1..n
        BY <2>5, <3>2
      <4> QED
        BY <4>1 DEF n
    <3> QED
      BY <3>1, <3>2
  <2>10. GetsLast(u, gs, c, n, m+1)
    BY <2>5, <2>6, <2>7, <2>8, <2>9 DEF GetsLast, n
  <2> QED
    BY <1>2, <2>10 DEF u, n
<1>3. CASE ~(gs # <<>> /\ gs[n][1].family = c.family)
  <2>1. /\ <<c>> \in Seq(Cores) /\ Len(<<c>>) = 1 /\ <<c>>[1] = c
    OBVIOUS
  <2>2. u = Append(gs, <<c>>)
    BY <1>3 DEF Grouped
  <2> DEFINE one == <<c>>
  <2> HIDE DEF u, one
  <2>3. /\ u \in Seq(Seq(Cores)) /\ Len(u) = n+1 /\ u[n+1] = one
        /\ \A g \in 1..n : u[g] = gs[g]
    BY <2>1, <2>2, AppendProperties DEF one
  <2>4. one \in Seq(Cores) /\ Len(one) = 1 /\ one[1] = c
    BY <2>1 DEF one
  <2> HIDE DEF n
  <2>5. ASSUME NEW h \in 1..Len(u), NEW j \in 1..Len(u[h]), ~(h = n+1 /\ j = 1)
        PROVE  /\ h \in 1..n /\ j \in 1..Len(gs[h]) /\ u[h][j] = gs[h][j]
               /\ h < n+1
    <3>1. h \in 1..n+1
      BY <2>3
    <3>2. h # n+1
      <4> SUFFICES ASSUME h = n+1 PROVE j = 1
        BY <2>5
      <4> QED
        BY <2>3, <2>4
    <3>3. h \in 1..n /\ h < n+1
      BY <1>1, <3>1, <3>2
    <3> QED
      BY <2>3, <3>3
  <2>6. ASSUME NEW h \in 1..n, NEW j \in 1..Len(gs[h])
        PROVE  h \in 1..Len(u) /\ j \in 1..Len(u[h]) /\ u[h][j] = gs[h][j]
    BY <1>1, <2>3
  <2>7. ASSUME NEW h \in 1..Len(u) PROVE Len(u[h]) >= 1
    <3>1. CASE h = n+1
      <4>1. u[h] = one
        BY <2>3, <3>1
      <4>2. Len(u[h]) = 1
        BY <2>4, <4>1, Zenon
      <4> QED
        BY <4>2
    <3>2. CASE h # n+1
      <4>1. h \in 1..n
        BY <1>1, <2>3, <3>2
      <4>2. u[h] = gs[h]
        BY <2>3, <4>1
      <4> QED
        BY <4>1, <4>2 DEF n
    <3> QED
      BY <3>1, <3>2
  <2>8. n+1 \in 1..Len(u) /\ 1 \in 1..Len(u[n+1]) /\ u[n+1][1] = c
    BY <1>1, <2>3, <2>4
  <2>9. GetsLast(u, gs, c, n+1, 1)
    BY <2>3, <2>5, <2>6, <2>7, <2>8 DEF GetsLast, n
  <2> QED
    BY <1>3, <2>9 DEF u, n
<1> QED
  BY <1>2, <1>3

LEMMA GroupedKeeps ==
  ASSUME NEW s \in Seq(Cores), InOrder(s), NEW n \in Nat, n+1 <= Len(s),
         NEW gs, GroupsOf(gs, s, n)
  PROVE  GroupsOf(Grouped(gs, s[n+1]), s, n+1)
<1> DEFINE c == s[n+1]
           u == Grouped(gs, c)
           m == Len(gs)
<1>1. n+1 \in 1..Len(s) /\ c \in Cores /\ \A k \in 1..n : s[k] \in Cores /\ Precedes(s[k], c)
  <2>1. Len(s) \in Nat
    BY LenProperties
  <2> QED
    BY <2>1, ElementOfSeq DEF InOrder
<1>2. /\ gs \in Seq(Seq(Cores)) /\ m \in Nat
      /\ \A g \in 1..m : gs[g] \in Seq(Cores) /\ Len(gs[g]) \in Nat /\ Len(gs[g]) >= 1
  BY LenProperties, ElementOfSeq DEF GroupsOf
<1>3. /\ c.family \in Int /\ c.name \in Int
      /\ \A g \in 1..m : \A i \in 1..Len(gs[g]) :
           gs[g][i].family \in Int /\ gs[g][i].name \in Int /\ Precedes(gs[g][i], c)
  <2>1. \A g \in 1..m : \A i \in 1..Len(gs[g]) : gs[g][i] \in Cores /\ Precedes(gs[g][i], c)
    BY <1>1 DEF GroupsOf
  <2> QED
    BY <1>1, <2>1, CoresAssumption
<1> HIDE DEF c
<1>4. PICK G, I :
        /\ GetsLast(u, gs, c, G, I)
        /\ \A g \in 1..m : \A i \in 1..Len(gs[g]) :
             \/ gs[g][i].family < c.family /\ g < G
             \/ gs[g][i].family = c.family /\ g = G /\ gs[g][i].name < c.name /\ i < I
  <2>1. CASE gs # <<>> /\ gs[m][1].family = c.family
    <3>1. GetsLast(u, gs, c, m, Len(gs[m]) + 1)
      BY <1>1, <1>2, <2>1, GroupedPlaces DEF c
    <3>0. m >= 1
      BY <1>2, <2>1, EmptySeq
    <3>2. m \in 1..m /\ 1 \in 1..Len(gs[m])
      BY <1>2, <3>0
    <3>3. ASSUME NEW g \in 1..m, NEW i \in 1..Len(gs[g])
          PROVE  \/ gs[g][i].family < c.family /\ g < m
                 \/ gs[g][i].family = c.family /\ g = m /\ gs[g][i].name < c.name
                    /\ i < Len(gs[m]) + 1
      <4>1. CASE g = m
        <5>1. gs[g][i].family = c.family
          BY <2>1, <3>2, <4>1 DEF GroupsOf
        <5> QED
          BY <1>2, <1>3, <4>1, <5>1 DEF Precedes
      <4>2. CASE g # m
        <5>1. g < m
          BY <1>2, <4>2
        <5>2. gs[g][i].family < gs[m][1].family
          BY <3>2, <5>1 DEF GroupsOf
        <5> QED
          BY <2>1, <5>1, <5>2
      <4> QED
        BY <4>1, <4>2
    <3> QED
      BY <3>1, <3>3
  <2>2. CASE ~(gs # <<>> /\ gs[m][1].family = c.family)
    <3>1. GetsLast(u, gs, c, m+1, 1)
      BY <1>1, <1>2, <2>2, GroupedPlaces DEF c
    <3>2. ASSUME NEW g \in 1..m, NEW i \in 1..Len(gs[g])
          PROVE  gs[g][i].family < c.family /\ g < m+1
      <4>1. gs # <<>> /\ m \in 1..m /\ 1 \in 1..Len(gs[m])
        BY <1>2, EmptySeq
      <4>2. gs[m][1].family # c.family
        BY <2>2, <4>1
      <4>3. gs[m][1].family < c.family
        BY <1>3, <4>1, <4>2 DEF Precedes
      <4>4. CASE g = m
        <5>1. gs[g][i].family = gs[m][1].family
          BY <4>1, <4>4 DEF GroupsOf
        <5> QED
          BY <1>2, <4>3, <4>4, <5>1
      <4>5. CASE g # m
        <5>1. g < m
          BY <1>2, <4>5
        <5>2. gs[g][i].family < gs[m][1].family
          BY <4>1, <5>1 DEF GroupsOf
        <5>3. /\ gs[g][i].family \in Int /\ gs[m][1].family \in Int /\ c.family \in Int
              /\ g \in Int
          <6>1. gs[g][i].family \in Int /\ c.family \in Int
            BY <1>3
          <6>2. gs[m][1].family \in Int
            BY <1>3, <4>1
          <6>3. g \in Int
            BY <1>2
          <6> QED
            BY <6>1, <6>2, <6>3
        <5>4. gs[g][i].family < c.family
          BY <4>3, <5>2, <5>3
        <5> QED
          BY <1>2, <5>1, <5>3, <5>4
      <4> QED
        BY <4>4, <4>5
    <3> QED
      BY <3>1, <3>2
  <2> QED
    BY <2>1, <2>2
<1> HIDE DEF u, m
<1>5. \A h \in 1..Len(u) : \A j \in 1..Len(u[h]) :
        \/ h = G /\ j = I /\ u[h][j] = c
        \/ /\ h \in 1..m /\ j \in 1..Len(gs[h]) /\ u[h][j] = gs[h][j]
           /\ ~(h = G /\ j = I)
           /\ \/ u[h][j].family < c.family /\ h < G
              \/ u[h][j].family = c.family /\ h = G /\ u[h][j].name < c.name /\ j < I
  <2> SUFFICES ASSUME NEW h \in 1..Len(u), NEW j \in 1..Len(u[h]), ~(h = G /\ j = I)
               PROVE  /\ h \in 1..m /\ j \in 1..Len(gs[h]) /\ u[h][j] = gs[h][j]
                      /\ \/ u[h][j].family < c.family /\ h < G
                         \/ /\ u[h][j].family = c.family /\ h = G
                            /\ u[h][j].name < c.name /\ j < I
    BY <1>4 DEF GetsLast
  <2>1. h \in 1..m /\ j \in 1..Len(gs[h]) /\ u[h][j] = gs[h][j]
    BY <1>4 DEF GetsLast, m
  <2> QED
    BY <1>4, <2>1
<1>6. /\ u \in Seq(Seq(Cores)) /\ G \in 1..Len(u) /\ I \in 1..Len(u[G]) /\ u[G][I] = c
      /\ \A h \in 1..Len(u) : Len(u[h]) >= 1
  BY <1>4 DEF GetsLast
<1>7. Len(u) \in Nat /\ \A h \in 1..Len(u) : Len(u[h]) \in Nat
  BY <1>6, LenProperties, ElementOfSeq
<1>8. \A g \in 1..Len(u) : \A i \in 1..Len(u[g]) : \E k \in 1..n+1 : u[g][i] = s[k]
  <2> SUFFICES ASSUME NEW g \in 1..Len(u), NEW i \in 1..Len(u[g])
               PROVE  \E k \in 1..n+1 : u[g][i] = s[k]
    OBVIOUS
  <2>1. CASE u[g][i] = c
    BY <2>1 DEF c
  <2>2. CASE g \in 1..m /\ i \in 1..Len(gs[g]) /\ u[g][i] = gs[g][i]
    <3>1. PICK k \in 1..n : gs[g][i] = s[k]
      BY <2>2 DEF GroupsOf, m
    <3> QED
      BY <2>2, <3>1
  <2> QED
    BY <1>5, <2>1, <2>2
<1>9. \A k \in 1..n+1 : \E g \in 1..Len(u) : \E i \in 1..Len(u[g]) : u[g][i] = s[k]
  <2> TAKE k \in 1..n+1
  <2>1. CASE k = n+1
    BY <1>6, <2>1 DEF c
  <2>2. CASE k # n+1
    <3>0. k \in 1..n
      BY <2>2
    <3>1. PICK g \in 1..m : \E i \in 1..Len(gs[g]) : gs[g][i] = s[k]
      BY <3>0 DEF GroupsOf, m
    <3>2. PICK i \in 1..Len(gs[g]) : gs[g][i] = s[k]
      BY <3>1
    <3> QED
      BY <1>4, <3>2 DEF GetsLast, m
  <2> QED
    BY <2>1, <2>2
<1>10. \A g \in 1..Len(u) : \A i, j \in 1..Len(u[g]) :
         u[g][i].family = u[g][j].family /\ (i < j => u[g][i].name < u[g][j].name)
  <2> SUFFICES ASSUME NEW g \in 1..Len(u), NEW i \in 1..Len(u[g]), NEW j \in 1..Len(u[g])
               PROVE  u[g][i].family = u[g][j].family /\ (i < j => u[g][i].name < u[g][j].name)
    OBVIOUS
  <2>1. i \in Nat /\ j \in Nat /\ I \in Nat
    BY <1>6, <1>7
  <2>2. CASE g # G
    <3>1. /\ g \in 1..m /\ i \in 1..Len(gs[g]) /\ j \in 1..Len(gs[g])
          /\ u[g][i] = gs[g][i] /\ u[g][j] = gs[g][j]
      BY <1>5, <2>2
    <3>2. /\ gs[g][i].family = gs[g][j].family
          /\ i < j => gs[g][i].name < gs[g][j].name
      BY <3>1 DEF GroupsOf, m
    <3> QED
      BY <3>1, <3>2
  <2>3. CASE g = G /\ i # I /\ j # I
    <3>1. /\ g \in 1..m /\ i \in 1..Len(gs[g]) /\ j \in 1..Len(gs[g])
          /\ u[g][i] = gs[g][i] /\ u[g][j] = gs[g][j]
      BY <1>5, <2>3
    <3>2. /\ gs[g][i].family = gs[g][j].family
          /\ i < j => gs[g][i].name < gs[g][j].name
      BY <3>1 DEF GroupsOf, m
    <3> QED
      BY <3>1, <3>2
  <2>4. CASE g = G /\ (i = I \/ j = I)
    BY <1>5, <1>6, <2>1, <2>4
  <2> QED
    BY <2>2, <2>3, <2>4
<1>11. ASSUME NEW g \in 1..Len(u), NEW h \in 1..Len(u), g < h,
              NEW i \in 1..Len(u[g]), NEW j \in 1..Len(u[h])
       PROVE  u[g][i].family < u[h][j].family
  <2>1. g \in Nat /\ h \in Nat /\ G \in Nat
    BY <1>6, <1>7
  <2>2. ~(g = G /\ i = I)
    <3> SUFFICES ASSUME g = G PROVE FALSE
      OBVIOUS
    <3>1. h # G /\ ~(h < G)
      BY <1>11, <2>1
    <3> QED
      BY <1>5, <3>1
  <2>3. /\ g \in 1..m /\ i \in 1..Len(gs[g]) /\ u[g][i] = gs[g][i]
    BY <1>5, <2>2
  <2>4. CASE h = G /\ j = I
    BY <1>5, <1>6, <1>11, <2>1, <2>2, <2>4
  <2>5. CASE ~(h = G /\ j = I)
    <3>1. /\ h \in 1..m /\ j \in 1..Len(gs[h]) /\ u[h][j] = gs[h][j]
      BY <1>5, <2>5
    <3> QED
      BY <1>11, <2>3, <3>1 DEF GroupsOf, m
  <2> QED
    BY <2>4, <2>5
<1> QED
  BY <1>6, <1>8, <1>9, <1>10, <1>11 DEF GroupsOf, c, u

LEMMA GroupsAre ==
  ASSUME NEW s \in Seq(Cores), InOrder(s)
  PROVE  GroupsOf(Groups(s), s, Len(s))
<1>1. PICK g : /\ \A k \in 0..Len(s) : g[k] = GroupedAt(g, s, k)
               /\ Groups(s) = g[Len(s)]
  BY GroupsFunction
<1>2. Len(s) \in Nat
  BY LenProperties
<1> DEFINE H == {n \in Nat : n <= Len(s) => GroupsOf(g[n], s, n)}
<1>3. 0 \in H
  <2>1. g[0] = <<>>
    BY <1>1, <1>2 DEF GroupedAt
  <2>2. <<>> \in Seq(Seq(Cores)) /\ Len(<<>>) = 0
    BY EmptySeq
  <2>3. GroupsOf(<<>>, s, 0)
    BY <2>2 DEF GroupsOf
  <2> QED
    BY <2>1, <2>3
<1>4. ASSUME NEW n \in Nat, n \in H PROVE n+1 \in H
  <2>1. SUFFICES ASSUME n+1 <= Len(s) PROVE GroupsOf(g[n+1], s, n+1)
    OBVIOUS
  <2>2. GroupsOf(g[n], s, n)
    BY <1>2, <1>4, <2>1
  <2>3. g[n+1] = Grouped(g[n], s[n+1])
    BY <1>1, <1>2, <2>1 DEF GroupedAt
  <2> QED
    BY <2>1, <2>2, <2>3, GroupedKeeps
<1>5. Len(s) \in H
  <2> HIDE DEF H
  <2> QED
    BY <1>2, <1>3, <1>4, NatInSet
<1> QED
  BY <1>1, <1>5

\* What is dropped here is kept there.
LEMMA PartitionPlaces ==
  ASSUME NEW cs \in Seq(Cores), NEW f
  PROVE  LET P == Partition(cs, f)
         IN  /\ P \in Seq(Cores)
             /\ \A i \in 1..Len(cs) : \E j \in 1..Len(P) : P[j] = cs[i]
             /\ \A j \in 1..Len(P) : \E i \in 1..Len(cs) : P[j] = cs[i]
             /\ \A i, j \in 1..Len(P) : i < j =>
                  \/ eligible(P[i], f) /\ ~eligible(P[j], f)
                  \/ /\ eligible(P[i], f) <=> eligible(P[j], f)
                     /\ \E k, m \in 1..Len(cs) : k < m /\ cs[k] = P[i] /\ cs[m] = P[j]
<1> DEFINE front == {c \in Range(cs) : eligible(c, f)}
           a == Filtered(cs, front)
           b == Filtered(cs, Range(cs) \ front)
           P == Partition(cs, f)
<1>1. /\ Len(cs) \in Nat /\ DOMAIN cs = 1..Len(cs)
      /\ \A x : Contains(cs, x) <=> x \in Range(cs)
  <2>1. Len(cs) \in Nat /\ DOMAIN cs = 1..Len(cs)
    BY LenProperties
  <2> QED
    BY <2>1 DEF Contains, Range
<1>2. /\ a \in Seq(Cores) /\ b \in Seq(Cores)
      /\ \A x : Contains(a, x) <=> Contains(cs, x) /\ eligible(x, f)
      /\ \A x : Contains(b, x) <=> Contains(cs, x) /\ ~eligible(x, f)
  <2>1. /\ a \in Seq(Cores) /\ b \in Seq(Cores)
        /\ \A x : Contains(a, x) <=> Contains(cs, x) /\ x \in front
        /\ \A x : Contains(b, x) <=> Contains(cs, x) /\ x \in Range(cs) \ front
    BY FilteredMembers
  <2>2. \A x : Contains(cs, x) => (x \in front <=> eligible(x, f))
    BY <1>1
  <2>3. \A x : Contains(cs, x) => (x \in Range(cs) \ front <=> ~eligible(x, f))
    BY <1>1
  <2> HIDE DEF front
  <2> QED
    BY <2>1, <2>2, <2>3
<1>3. /\ \A i, j \in 1..Len(a) : i < j =>
           \E k, m \in 1..Len(cs) : k < m /\ cs[k] = a[i] /\ cs[m] = a[j]
      /\ \A i, j \in 1..Len(b) : i < j =>
           \E k, m \in 1..Len(cs) : k < m /\ cs[k] = b[i] /\ cs[m] = b[j]
  <2>1. ASSUME NEW S, NEW i \in 1..Len(Filtered(cs, S)), NEW j \in 1..Len(Filtered(cs, S)), i < j
        PROVE  \E k, m \in 1..Len(cs) :
                 k < m /\ cs[k] = Filtered(cs, S)[i] /\ cs[m] = Filtered(cs, S)[j]
    BY <2>1, FilteredOrder
  <2> HIDE DEF front
  <2> QED
    BY <2>1
<1>4. P = a \o b
  BY DEF Partition
<1> HIDE DEF front, a, b, P
<1> DEFINE la == Len(a)
           lb == Len(b)
<1>5. la \in Nat /\ lb \in Nat
  BY <1>2, LenProperties
<1>6. /\ P \in Seq(Cores) /\ Len(P) = la + lb
      /\ \A i \in 1..la+lb : P[i] = IF i <= la THEN a[i] ELSE b[i-la]
  BY <1>2, <1>4, ConcatProperties
<1>7. \A i \in 1..la : P[i] = a[i] /\ Contains(cs, P[i]) /\ eligible(P[i], f)
  <2> TAKE i \in 1..la
  <2>1. P[i] = a[i]
    BY <1>5, <1>6
  <2>2. Contains(a, a[i])
    BY DEF Contains
  <2> QED
    BY <1>2, <2>1, <2>2
<1>8. \A i \in 1..lb : P[la+i] = b[i] /\ Contains(cs, P[la+i]) /\ ~eligible(P[la+i], f)
  <2> TAKE i \in 1..lb
  <2>1. P[la+i] = b[i]
    <3>1. la+i \in 1..la+lb /\ ~(la+i <= la) /\ (la+i)-la = i
      BY <1>5
    <3> QED
      BY <1>6, <3>1
  <2>2. Contains(b, b[i])
    BY DEF Contains
  <2> QED
    BY <1>2, <2>1, <2>2
<1>9. \A j \in 1..la+lb : j \in 1..la \/ \E i \in 1..lb : j = la+i
  <2> TAKE j \in 1..la+lb
  <2>1. CASE j <= la
    BY <1>5, <2>1
  <2>2. CASE ~(j <= la)
    <3>1. j-la \in 1..lb /\ j = la+(j-la)
      BY <1>5, <2>2
    <3> QED
      BY <3>1
  <2> QED
    BY <2>1, <2>2
<1>10. \A i \in 1..Len(cs) : \E j \in 1..Len(P) : P[j] = cs[i]
  <2> TAKE i \in 1..Len(cs)
  <2>1. Contains(cs, cs[i])
    BY DEF Contains
  <2>2. CASE eligible(cs[i], f)
    <3>1. Contains(a, cs[i])
      BY <1>2, <2>1, <2>2
    <3>2. PICK j \in 1..la : a[j] = cs[i]
      BY <3>1 DEF Contains
    <3>3. j \in 1..la+lb /\ P[j] = cs[i]
      BY <1>5, <1>7, <3>2
    <3> QED
      BY <1>6, <3>3
  <2>3. CASE ~eligible(cs[i], f)
    <3>1. Contains(b, cs[i])
      BY <1>2, <2>1, <2>3
    <3>2. PICK j \in 1..lb : b[j] = cs[i]
      BY <3>1 DEF Contains
    <3>3. la+j \in 1..la+lb /\ P[la+j] = cs[i]
      BY <1>5, <1>8, <3>2
    <3> QED
      BY <1>6, <3>3
  <2> QED
    BY <2>2, <2>3
<1>11. \A j \in 1..Len(P) : \E i \in 1..Len(cs) : P[j] = cs[i]
  <2> TAKE j \in 1..Len(P)
  <2>1. j \in 1..la \/ \E i \in 1..lb : j = la+i
    BY <1>6, <1>9
  <2>2. Contains(cs, P[j])
    BY <1>7, <1>8, <2>1
  <2> QED
    BY <2>2 DEF Contains
<1>12. ASSUME NEW i \in 1..Len(P), NEW j \in 1..Len(P), i < j
       PROVE  \/ eligible(P[i], f) /\ ~eligible(P[j], f)
              \/ /\ eligible(P[i], f) <=> eligible(P[j], f)
                 /\ \E k, m \in 1..Len(cs) : k < m /\ cs[k] = P[i] /\ cs[m] = P[j]
  <2>1. CASE i \in 1..la /\ j \in 1..la
    <3>1. \E k, m \in 1..Len(cs) : k < m /\ cs[k] = a[i] /\ cs[m] = a[j]
      BY <1>3, <1>12, <2>1
    <3>2. P[i] = a[i] /\ P[j] = a[j] /\ eligible(P[i], f) /\ eligible(P[j], f)
      BY <1>7, <2>1
    <3> QED
      BY <3>1, <3>2
  <2>2. CASE i \in 1..la /\ \E m \in 1..lb : j = la+m
    BY <1>7, <1>8, <2>2
  <2>3. CASE \E k \in 1..lb : i = la+k
    <3>1. PICK k \in 1..lb : i = la+k
      BY <2>3
    <3>0. j \in 1..la+lb /\ ~(j \in 1..la)
      BY <1>5, <1>6, <1>12, <3>1
    <3>2. PICK m \in 1..lb : j = la+m
      BY <1>9, <3>0
    <3>3. k < m
      BY <1>5, <1>12, <3>1, <3>2
    <3>4. P[i] = b[k] /\ P[j] = b[m] /\ ~eligible(P[i], f) /\ ~eligible(P[j], f)
      BY <1>8, <3>1, <3>2
    <3> QED
      BY <1>3, <3>3, <3>4
  <2> QED
    BY <1>6, <1>9, <2>1, <2>2, <2>3
<1> QED
  BY <1>6, <1>10, <1>11, <1>12 DEF P

\* What the list of a file has, in which places.
LEMMA ListedPlaces ==
  ASSUME registry \in Seq(Cores), KeysApart(registry), NEW f
  PROVE  LET fs == Listed(f)
         IN  /\ fs \in Seq(Seq(Cores))
             /\ \A k \in 1..Len(registry) : \E g \in 1..Len(fs) : \E i \in 1..Len(fs[g]) :
                  fs[g][i] = registry[k]
             /\ \A g \in 1..Len(fs) : \A i \in 1..Len(fs[g]) : \E k \in 1..Len(registry) :
                  fs[g][i] = registry[k]
             /\ \A g, h \in 1..Len(fs) : g < h =>
                  \A i \in 1..Len(fs[g]), j \in 1..Len(fs[h]) : fs[g][i].family < fs[h][j].family
             /\ \A g \in 1..Len(fs) : \A i, j \in 1..Len(fs[g]) :
                  i < j => /\ Key(fs[g][i]) # Key(fs[g][j])
                           /\ IF eligible(fs[g][i], f) <=> eligible(fs[g][j], f)
                              THEN fs[g][i].name < fs[g][j].name ELSE eligible(fs[g][i], f)
<1> DEFINE s == candidate_core_span
           gs == Groups(s)
           fs == Listed(f)
           r == registry
<1>1. /\ s \in Seq(Cores) /\ Len(s) = Len(r) /\ InOrder(s)
      /\ \A i \in 1..Len(r) : \E j \in 1..Len(r) : s[j] = r[i]
      /\ \A j \in 1..Len(r) : \E i \in 1..Len(r) : s[j] = r[i]
  BY SpanIsInOrder
<1> HIDE DEF s
<1>2. GroupsOf(gs, s, Len(r))
  BY <1>1, GroupsAre
<1>3. fs = [g \in DOMAIN gs |-> Partition(gs[g], f)]
  BY DEF Listed, s
<1> HIDE DEF gs, fs
<1>4. /\ Len(gs) \in Nat /\ DOMAIN gs = 1..Len(gs)
      /\ \A g \in 1..Len(gs) : gs[g] \in Seq(Cores) /\ Len(gs[g]) \in Nat
      /\ \A g \in 1..Len(gs) : \A i \in 1..Len(gs[g]) : gs[g][i] \in Cores
  <2>1. gs \in Seq(Seq(Cores))
    BY <1>2 DEF GroupsOf
  <2> QED
    BY <2>1, LenProperties, ElementOfSeq
<1>5. /\ fs \in Seq(Seq(Cores)) /\ Len(fs) = Len(gs)
      /\ \A g \in 1..Len(gs) : fs[g] = Partition(gs[g], f)
  <2>1. \A g \in 1..Len(gs) : Partition(gs[g], f) \in Seq(Cores)
    BY <1>4, PartitionPlaces
  <2>2. fs = [g \in 1..Len(gs) |-> Partition(gs[g], f)]
    BY <1>3, <1>4
  <2> QED
    BY <1>4, <2>1, <2>2, IsASeq
<1>6. ASSUME NEW g \in 1..Len(gs)
      PROVE  /\ \A i \in 1..Len(gs[g]) : \E j \in 1..Len(fs[g]) : fs[g][j] = gs[g][i]
             /\ \A j \in 1..Len(fs[g]) : \E i \in 1..Len(gs[g]) : fs[g][j] = gs[g][i]
             /\ \A i, j \in 1..Len(fs[g]) : i < j =>
                  \/ eligible(fs[g][i], f) /\ ~eligible(fs[g][j], f)
                  \/ /\ eligible(fs[g][i], f) <=> eligible(fs[g][j], f)
                     /\ \E k, m \in 1..Len(gs[g]) : /\ k < m
                                                    /\ gs[g][k] = fs[g][i]
                                                    /\ gs[g][m] = fs[g][j]
  <2> DEFINE cs == gs[g]
             P == Partition(cs, f)
  <2>1. cs \in Seq(Cores) /\ fs[g] = P
    BY <1>4, <1>5
  <2> HIDE DEF cs
  <2>2. /\ \A i \in 1..Len(cs) : \E j \in 1..Len(P) : P[j] = cs[i]
        /\ \A j \in 1..Len(P) : \E i \in 1..Len(cs) : P[j] = cs[i]
        /\ \A i, j \in 1..Len(P) : i < j =>
             \/ eligible(P[i], f) /\ ~eligible(P[j], f)
             \/ /\ eligible(P[i], f) <=> eligible(P[j], f)
                /\ \E k, m \in 1..Len(cs) : k < m /\ cs[k] = P[i] /\ cs[m] = P[j]
    BY <2>1, PartitionPlaces
  <2> HIDE DEF P
  <2> QED
    BY <2>1, <2>2 DEF cs
<1>7. ASSUME NEW k \in 1..Len(r)
      PROVE  \E g \in 1..Len(fs) : \E i \in 1..Len(fs[g]) : fs[g][i] = r[k]
  <2>1. PICK j \in 1..Len(r) : s[j] = r[k]
    BY <1>1
  <2>2. PICK g \in 1..Len(gs) : \E i \in 1..Len(gs[g]) : gs[g][i] = s[j]
    BY <1>2 DEF GroupsOf
  <2>3. PICK i \in 1..Len(gs[g]) : gs[g][i] = s[j]
    BY <2>2
  <2>4. PICK m \in 1..Len(fs[g]) : fs[g][m] = gs[g][i]
    BY <1>6
  <2>5. g \in 1..Len(fs) /\ fs[g][m] = r[k]
    BY <1>5, <2>1, <2>3, <2>4
  <2> QED
    BY <2>5
<1>8. ASSUME NEW g \in 1..Len(fs), NEW i \in 1..Len(fs[g])
      PROVE  \E k \in 1..Len(r) : fs[g][i] = r[k]
  <2>1. g \in 1..Len(gs)
    BY <1>5
  <2>2. PICK j \in 1..Len(gs[g]) : fs[g][i] = gs[g][j]
    BY <1>6, <2>1
  <2>3. PICK k \in 1..Len(r) : gs[g][j] = s[k]
    BY <1>2, <2>1 DEF GroupsOf
  <2>4. PICK m \in 1..Len(r) : s[k] = r[m]
    BY <1>1
  <2>5. fs[g][i] = r[m]
    BY <2>2, <2>3, <2>4
  <2> QED
    BY <2>5
<1>9. ASSUME NEW g \in 1..Len(fs), NEW h \in 1..Len(fs), g < h,
             NEW i \in 1..Len(fs[g]), NEW j \in 1..Len(fs[h])
      PROVE  fs[g][i].family < fs[h][j].family
  <2>1. g \in 1..Len(gs) /\ h \in 1..Len(gs)
    BY <1>5
  <2>2. PICK k \in 1..Len(gs[g]) : fs[g][i] = gs[g][k]
    BY <1>6, <2>1
  <2>3. PICK m \in 1..Len(gs[h]) : fs[h][j] = gs[h][m]
    BY <1>6, <2>1
  <2>4. gs[g][k].family < gs[h][m].family
    BY <1>2, <1>9, <2>1 DEF GroupsOf
  <2> QED
    BY <2>2, <2>3, <2>4
<1>10. ASSUME NEW g \in 1..Len(fs), NEW i \in 1..Len(fs[g]), NEW j \in 1..Len(fs[g]), i < j
       PROVE  /\ Key(fs[g][i]) # Key(fs[g][j])
              /\ IF eligible(fs[g][i], f) <=> eligible(fs[g][j], f)
                 THEN fs[g][i].name < fs[g][j].name ELSE eligible(fs[g][i], f)
  <2>1. g \in 1..Len(gs)
    BY <1>5
  <2>2. CASE eligible(fs[g][i], f) /\ ~eligible(fs[g][j], f)
    <3>1. PICK k \in 1..Len(gs[g]), m \in 1..Len(gs[g]) :
            fs[g][i] = gs[g][k] /\ fs[g][j] = gs[g][m]
      BY <1>6, <2>1
    <3>2. k # m
      BY <2>2, <3>1
    <3>3. /\ gs[g][k] \in Cores /\ gs[g][m] \in Cores
          /\ gs[g][k].name \in Int /\ gs[g][m].name \in Int
          /\ k \in Nat /\ m \in Nat
      BY <1>4, <2>1, CoresAssumption
    <3>4. /\ k < m => gs[g][k].name < gs[g][m].name
          /\ m < k => gs[g][m].name < gs[g][k].name
      BY <1>2, <2>1 DEF GroupsOf
    <3>5. gs[g][k].name # gs[g][m].name
      BY <3>2, <3>3, <3>4
    <3>6. Key(gs[g][k]) # Key(gs[g][m])
      BY <3>3, <3>5, KeyIs
    <3> QED
      BY <2>2, <3>1, <3>6
  <2>3. CASE /\ eligible(fs[g][i], f) <=> eligible(fs[g][j], f)
             /\ \E k, m \in 1..Len(gs[g]) : /\ k < m
                                            /\ gs[g][k] = fs[g][i]
                                            /\ gs[g][m] = fs[g][j]
    <3>1. PICK k \in 1..Len(gs[g]), m \in 1..Len(gs[g]) :
            k < m /\ gs[g][k] = fs[g][i] /\ gs[g][m] = fs[g][j]
      BY <2>3
    <3>2. gs[g][k].name < gs[g][m].name
      BY <1>2, <2>1, <3>1 DEF GroupsOf
    <3>3. /\ gs[g][k] \in Cores /\ gs[g][m] \in Cores
          /\ gs[g][k].name \in Int /\ gs[g][m].name \in Int
      BY <1>4, <2>1, CoresAssumption
    <3>4. Key(gs[g][k]) # Key(gs[g][m])
      BY <3>2, <3>3, KeyIs
    <3> QED
      BY <2>3, <3>1, <3>2, <3>4
  <2> QED
    BY <1>6, <1>10, <2>1, <2>2, <2>3
<1> QED
  BY <1>5, <1>7, <1>8, <1>9, <1>10 DEF fs

\* The list of the open dialog is complete.
LEMMA CompleteIs ==
  ASSUME registry \in Seq(Cores), KeysApart(registry),
         {Key(c) : c \in Cores} = {Key(registry[i]) : i \in DOMAIN registry},
         families = Listed(listOf), best_match = BestMatch(families, listOf)
  PROVE  ListIsComplete
<1> DEFINE r == registry
           n == Len(r)
           fs == families
           f == listOf
           P == Places(fs)
           all == {r[i] : i \in DOMAIN r}
           keys == {Key(c) : c \in Cores}
           Fits(c) == eligible(c, f) /\ f.extension \in c.known
           matching == {c \in all : Fits(c)}
           matches == {p \in P : Fits(CandidateAt(p))}
<1> DEFINE Good(L) ==
             /\ L \in Seq(Seq(Cores))
             /\ \A k \in 1..n : \E g \in 1..Len(L) : \E i \in 1..Len(L[g]) : L[g][i] = r[k]
             /\ \A g \in 1..Len(L) : \A i \in 1..Len(L[g]) : \E k \in 1..n : L[g][i] = r[k]
             /\ \A g, h \in 1..Len(L) : g < h =>
                  \A i \in 1..Len(L[g]), j \in 1..Len(L[h]) : L[g][i].family < L[h][j].family
             /\ \A g \in 1..Len(L) : \A i, j \in 1..Len(L[g]) :
                  i < j => /\ Key(L[g][i]) # Key(L[g][j])
                           /\ IF eligible(L[g][i], f) <=> eligible(L[g][j], f)
                              THEN L[g][i].name < L[g][j].name ELSE eligible(L[g][i], f)
<1>1. Good(fs)
  <2>1. Good(Listed(f))
    BY ListedPlaces
  <2> HIDE DEF Good
  <2> QED
    BY <2>1
<1>2. /\ n \in Nat /\ DOMAIN r = 1..n /\ \A k \in 1..n : r[k] \in Cores
      /\ Len(fs) \in Nat /\ DOMAIN fs = 1..Len(fs)
      /\ \A g \in 1..Len(fs) : /\ Len(fs[g]) \in Nat /\ DOMAIN fs[g] = 1..Len(fs[g])
                               /\ \A i \in 1..Len(fs[g]) : fs[g][i] \in Cores
  BY <1>1, LenProperties, ElementOfSeq
<1>3. /\ \A p \in P : \E g \in 1..Len(fs) : \E i \in 1..Len(fs[g]) : p = <<g, i>>
      /\ \A g \in 1..Len(fs) : \A i \in 1..Len(fs[g]) : <<g, i>> \in P
  BY <1>2 DEF Places
<1>4. \A g, i : CandidateAt(<<g, i>>) = fs[g][i]
  BY DEF CandidateAt
<1>5. /\ \A p \in P : CandidateAt(p) \in Cores /\ \E k \in 1..n : CandidateAt(p) = r[k]
      /\ \A k \in 1..n : \E p \in P : CandidateAt(p) = r[k]
  <2>1. ASSUME NEW p \in P
        PROVE  CandidateAt(p) \in Cores /\ \E k \in 1..n : CandidateAt(p) = r[k]
    <3>1. PICK g \in 1..Len(fs) : \E i \in 1..Len(fs[g]) : p = <<g, i>>
      BY <1>3
    <3>2. PICK i \in 1..Len(fs[g]) : p = <<g, i>>
      BY <3>1
    <3>3. CandidateAt(p) = fs[g][i]
      BY <1>4, <3>2
    <3>4. fs[g][i] \in Cores /\ \E k \in 1..n : fs[g][i] = r[k]
      BY <1>1, <1>2
    <3> QED
      BY <3>3, <3>4
  <2>2. ASSUME NEW k \in 1..n PROVE \E p \in P : CandidateAt(p) = r[k]
    <3>1. PICK g \in 1..Len(fs) : \E i \in 1..Len(fs[g]) : fs[g][i] = r[k]
      BY <1>1
    <3>2. PICK i \in 1..Len(fs[g]) : fs[g][i] = r[k]
      BY <3>1
    <3>3. <<g, i>> \in P /\ CandidateAt(<<g, i>>) = r[k]
      BY <1>3, <1>4, <3>2
    <3> QED
      BY <3>3
  <2> QED
    BY <2>1, <2>2
<1>6. \A p, q \in P :
        LET c == CandidateAt(p)
            d == CandidateAt(q)
        IN  /\ p[1] < q[1] => c.family < d.family
            /\ p[1] = q[1] /\ p[2] < q[2] =>
                 IF eligible(c, f) = eligible(d, f) THEN c.name < d.name ELSE eligible(c, f)
  <2> SUFFICES ASSUME NEW p \in P, NEW q \in P
               PROVE  /\ p[1] < q[1] => CandidateAt(p).family < CandidateAt(q).family
                      /\ p[1] = q[1] /\ p[2] < q[2] =>
                           IF eligible(CandidateAt(p), f) = eligible(CandidateAt(q), f)
                           THEN CandidateAt(p).name < CandidateAt(q).name
                           ELSE eligible(CandidateAt(p), f)
    OBVIOUS
  <2>1. PICK g \in 1..Len(fs) : \E i \in 1..Len(fs[g]) : p = <<g, i>>
    BY <1>3
  <2>2. PICK i \in 1..Len(fs[g]) : p = <<g, i>>
    BY <2>1
  <2>3. PICK h \in 1..Len(fs) : \E i2 \in 1..Len(fs[h]) : q = <<h, i2>>
    BY <1>3
  <2>4. PICK j \in 1..Len(fs[h]) : q = <<h, j>>
    BY <2>3
  <2>5. /\ p[1] = g /\ p[2] = i /\ q[1] = h /\ q[2] = j
        /\ CandidateAt(p) = fs[g][i] /\ CandidateAt(q) = fs[h][j]
    BY <1>4, <2>2, <2>4
  <2>6. \A c : eligible(c, f) \in BOOLEAN
    BY DEF eligible
  <2>7. g < h => fs[g][i].family < fs[h][j].family
    BY <1>1
  <2>8. ASSUME g = h, i < j
        PROVE  IF eligible(fs[g][i], f) = eligible(fs[h][j], f)
               THEN fs[g][i].name < fs[h][j].name ELSE eligible(fs[g][i], f)
    <3>1. IF eligible(fs[g][i], f) <=> eligible(fs[h][j], f)
          THEN fs[g][i].name < fs[h][j].name ELSE eligible(fs[g][i], f)
      BY <1>1, <2>8
    <3> QED
      BY <2>6, <3>1
  <2> QED
    BY <2>5, <2>7, <2>8
<1>7. \A p, q \in P : p # q => Key(CandidateAt(p)) # Key(CandidateAt(q))
  <2> SUFFICES ASSUME NEW p \in P, NEW q \in P, p # q
               PROVE  Key(CandidateAt(p)) # Key(CandidateAt(q))
    OBVIOUS
  <2>1. PICK g \in 1..Len(fs) : \E i \in 1..Len(fs[g]) : p = <<g, i>>
    BY <1>3
  <2>2. PICK i \in 1..Len(fs[g]) : p = <<g, i>>
    BY <2>1
  <2>3. PICK h \in 1..Len(fs) : \E i2 \in 1..Len(fs[h]) : q = <<h, i2>>
    BY <1>3
  <2>4. PICK j \in 1..Len(fs[h]) : q = <<h, j>>
    BY <2>3
  <2>5. CandidateAt(p) = fs[g][i] /\ CandidateAt(q) = fs[h][j]
    BY <1>4, <2>2, <2>4
  <2>6. /\ g \in Nat /\ h \in Nat /\ i \in Nat /\ j \in Nat
        /\ fs[g][i] \in Cores /\ fs[h][j] \in Cores
    BY <1>2
  <2>7. fs[g][i].family \in Int /\ fs[h][j].family \in Int
    BY <2>6, CoresAssumption
  <2>8. CASE g < h
    <3>1. fs[g][i].family < fs[h][j].family
      BY <1>1, <2>8
    <3> QED
      BY <2>5, <2>6, <2>7, <3>1, KeyIs
  <2>9. CASE h < g
    <3>1. fs[h][j].family < fs[g][i].family
      BY <1>1, <2>9
    <3> QED
      BY <2>5, <2>6, <2>7, <3>1, KeyIs
  <2>10. CASE g = h
    <3>1. i # j
      BY <2>2, <2>4, <2>10
    <3>2. i < j \/ j < i
      BY <2>6, <3>1
    <3>3. Key(fs[g][i]) # Key(fs[h][j])
      BY <1>1, <2>10, <3>2
    <3> QED
      BY <2>5, <3>3
  <2> QED
    BY <2>6, <2>8, <2>9, <2>10
<1> HIDE DEF P
<1>8. {CandidateAt(p) : p \in P} = all
  <2> HIDE DEF CandidateAt
  <2> QED
    BY <1>2, <1>5
<1>9. IsFiniteSet(1..n)
  <2>1. n \in Int /\ 1 \in Int
    BY <1>2
  <2> QED
    BY <2>1, FS_Interval
<1>10. IsFiniteSet(P) /\ Cardinality(P) = Cardinality(1..n)
  <2> DEFINE b == [k \in 1..n |-> CHOOSE p \in P : CandidateAt(p) = r[k]]
  <2>1. \A k \in 1..n : b[k] \in P /\ CandidateAt(b[k]) = r[k]
    BY <1>5
  <2>2. b \in [1..n -> P]
    BY <2>1
  <2> HIDE DEF b
  <2>3. \A k, m \in 1..n : b[k] = b[m] => k = m
    BY <2>1 DEF KeysApart
  <2>4. ASSUME NEW p \in P PROVE \E k \in 1..n : b[k] = p
    <3>1. PICK k \in 1..n : CandidateAt(p) = r[k]
      BY <1>5
    <3>2. b[k] = p
      BY <1>7, <2>1, <3>1
    <3> QED
      BY <3>2
  <2>5. b \in Bijection(1..n, P)
    BY <2>2, <2>3, <2>4 DEF Bijection, Injection, Surjection, IsInjective
  <2> QED
    BY <1>9, <2>5, FS_Bijection DEF ExistsBijection
<1>11. Cardinality(keys) = Cardinality(1..n)
  <2> DEFINE b == [k \in 1..n |-> Key(r[k])]
  <2>1. keys = {Key(r[k]) : k \in 1..n}
    BY <1>2
  <2>2. b \in [1..n -> keys] /\ \A t \in keys : \E k \in 1..n : b[k] = t
    BY <2>1
  <2>3. \A k, m \in 1..n : b[k] = b[m] => k = m
    BY DEF KeysApart
  <2> HIDE DEF keys, b
  <2>4. b \in Bijection(1..n, keys)
    BY <2>2, <2>3 DEF Bijection, Injection, Surjection, IsInjective
  <2> QED
    BY <1>9, <2>4, FS_Bijection DEF ExistsBijection
<1>12. IsFiniteSet(all)
  <2> DEFINE b == [k \in 1..n |-> r[k]]
  <2>1. b \in [1..n -> all] /\ \A t \in all : \E k \in 1..n : b[k] = t
    BY <1>2
  <2>2. \A k, m \in 1..n : b[k] = b[m] => k = m
    BY DEF KeysApart
  <2> HIDE DEF all, b
  <2>3. b \in Bijection(1..n, all)
    BY <2>1, <2>2 DEF Bijection, Injection, Surjection, IsInjective
  <2> QED
    BY <1>9, <2>3, FS_Bijection DEF ExistsBijection
<1>13. IsFiniteSet(matches) /\ IsFiniteSet(matching)
  <2>1. matches \subseteq P /\ matching \subseteq all
    OBVIOUS
  <2> HIDE DEF matches, matching, all
  <2> QED
    BY <1>10, <1>12, <2>1, FS_Subset
<1>14. best_match = IF Cardinality(matches) = 1 THEN CHOOSE p \in matches : TRUE ELSE NoPlace
  BY DEF BestMatch, CandidateAt, P
<1>15. IF best_match = NoPlace THEN Cardinality(matching) # 1
                               ELSE matching = {CandidateAt(best_match)}
  <2>1. matching = {CandidateAt(p) : p \in matches}
    <3>1. ASSUME NEW c \in matching PROVE \E p \in matches : c = CandidateAt(p)
      <4>1. PICK p \in P : c = CandidateAt(p)
        BY <1>8
      <4> QED
        BY <4>1
    <3>2. ASSUME NEW p \in matches PROVE CandidateAt(p) \in matching
      BY <1>8
    <3> HIDE DEF matching, matches
    <3> QED
      BY <3>1, <3>2
  <2>2. \A p, q \in matches : CandidateAt(p) = CandidateAt(q) => p = q
    BY <1>7
  <2>3. NoPlace \notin matches
    <3>1. ASSUME NoPlace \in P PROVE FALSE
      <4>1. PICK g \in 1..Len(fs) : \E i \in 1..Len(fs[g]) : NoPlace = <<g, i>>
        BY <1>3, <3>1
      <4> QED
        BY <4>1 DEF NoPlace
    <3> QED
      BY <3>1
  <2> HIDE DEF matching, matches
  <2>4. CASE Cardinality(matches) = 1
    <3>1. PICK x : matches = {x}
      BY <1>13, <2>4, FS_Singleton
    <3>2. best_match = x
      BY <1>14, <2>4, <3>1
    <3>3. matching = {CandidateAt(x)}
      BY <2>1, <3>1
    <3> QED
      BY <2>3, <3>1, <3>2, <3>3
  <2>5. CASE Cardinality(matches) # 1
    <3>1. ASSUME Cardinality(matching) = 1 PROVE FALSE
      <4>1. PICK c : matching = {c}
        BY <1>13, <3>1, FS_Singleton
      <4>2. PICK p \in matches : c = CandidateAt(p)
        BY <2>1, <4>1
      <4>3. \A q \in matches : q = p
        BY <2>1, <2>2, <4>1, <4>2
      <4>4. matches = {p}
        BY <4>2, <4>3
      <4> QED
        BY <1>13, <2>5, <4>4, FS_Singleton
    <3> QED
      BY <1>14, <2>5, <3>1
  <2> QED
    BY <2>4, <2>5
<1> QED
  BY <1>6, <1>8, <1>10, <1>11, <1>15 DEF ListIsComplete, P

-----------------------------------------------------------------------------
\* The registry is complete when the main thread starts, and the open dialog has the list
\* that it was opened with.
LoadingIInv ==
  /\ registry \in Seq(Cores) /\ KeysApart(registry)
  /\ at # "static" => {Key(c) : c \in Cores} = {Key(registry[i]) : i \in DOMAIN registry}
  /\ offered =>
       at # "static" /\ families = Listed(listOf) /\ best_match = BestMatch(families, listOf)
  /\ BestMatchIsExpanded

LEMMA LoadingInitial == LoadingInit => LoadingIInv
<1> SUFFICES ASSUME LoadingInit PROVE LoadingIInv
  OBVIOUS
<1>1. registry \in Seq(Cores) /\ Len(registry) = 0
  BY EmptySeq DEF LoadingInit
<1> QED
  BY <1>1 DEF LoadingInit, LoadingIInv, KeysApart, BestMatchIsExpanded

LEMMA RegisterStep ==
  ASSUME LoadingIInv, NEW c \in Cores, register_new_system_core(c)
  PROVE  LoadingIInv'
<1>1. /\ registry \in Seq(Cores) /\ KeysApart(registry) /\ at = "static" /\ at' = at
      /\ \A i \in 1..Len(registry) : Key(registry[i]) # Key(c)
      /\ registry' = Append(registry, c)
      /\ ~offered /\ offered' = offered
  BY LenProperties DEF LoadingIInv, register_new_system_core
<1>2. /\ registry' \in Seq(Cores) /\ Len(registry') = Len(registry) + 1
      /\ registry'[Len(registry) + 1] = c
      /\ \A i \in 1..Len(registry) : registry'[i] = registry[i]
      /\ Len(registry) \in Nat
  BY <1>1, AppendProperties, LenProperties
<1>3. KeysApart(registry')
  <2> SUFFICES ASSUME NEW i \in 1..Len(registry'), NEW j \in 1..Len(registry'), i # j
               PROVE  Key(registry'[i]) # Key(registry'[j])
    BY DEF KeysApart
  <2>1. CASE i = Len(registry) + 1
    <3>1. j \in 1..Len(registry)
      BY <1>2, <2>1
    <3> QED
      BY <1>1, <1>2, <2>1, <3>1
  <2>2. CASE j = Len(registry) + 1
    <3>1. i \in 1..Len(registry)
      BY <1>2, <2>2
    <3> QED
      BY <1>1, <1>2, <2>2, <3>1
  <2>3. CASE i # Len(registry) + 1 /\ j # Len(registry) + 1
    <3>1. i \in 1..Len(registry) /\ j \in 1..Len(registry)
      BY <1>2, <2>3
    <3> QED
      BY <1>1, <1>2, <3>1 DEF KeysApart
  <2> QED
    BY <2>1, <2>2, <2>3
<1> QED
  BY <1>1, <1>2, <1>3 DEF LoadingIInv, BestMatchIsExpanded

\* No step but OpenDialog changes the list, and none but OpenDialog opens it.
LEMMA ListStays ==
  ASSUME LoadingIInv, UNCHANGED <<registry, list>>, offered' => offered,
         at # "static" <=> at' # "static", BestMatchIsExpanded'
  PROVE  LoadingIInv'
<1>1. /\ registry' = registry /\ listOf' = listOf /\ families' = families
      /\ best_match' = best_match
  BY DEF list
<1>2. Listed(listOf)' = Listed(listOf)
  BY <1>1 DEF Listed, candidate_core_span
<1>3. BestMatch(families, listOf)' = BestMatch(families, listOf)
  BY <1>1
<1> QED
  BY <1>1, <1>2, <1>3 DEF LoadingIInv

LEMMA LoadingStep == LoadingIInv /\ [LoadingNext]_loadingVars => LoadingIInv'
<1> SUFFICES ASSUME LoadingIInv, [LoadingNext]_loadingVars PROVE LoadingIInv'
  OBVIOUS
<1>1. BestMatchIsExpanded
  BY DEF LoadingIInv
<1>2. CASE UNCHANGED loadingVars
  <2>1. UNCHANGED <<registry, list, choice, offered, popup, at>>
    BY <1>2 DEF loadingVars
  <2>2. BestMatchIsExpanded'
    BY <1>1, <2>1 DEF BestMatchIsExpanded, Expanded, choice, list
  <2> QED
    BY <2>1, <2>2, ListStays
<1>3. CASE \E core \in Cores : register_new_system_core(core)
  BY <1>3, RegisterStep
<1>4. CASE Main
  <2>1. /\ at' = "events" /\ ~offered /\ ~offered' /\ registry' = registry
        /\ {Key(c) : c \in Cores} = {Key(registry[i]) : i \in DOMAIN registry}
    BY <1>4 DEF Main, LoadingIInv
  <2> QED
    BY <2>1 DEF LoadingIInv, BestMatchIsExpanded
<1>5. CASE OpenDialog
  <2>1. /\ at' = at /\ at # "static" /\ registry' = registry /\ listOf' = staged
        /\ families' = Listed(staged) /\ best_match' = BestMatch(families', staged)
        /\ pending' = best_match'
    BY <1>5 DEF OpenDialog
  <2>2. Listed(listOf)' = Listed(staged)
    <3>1. candidate_core_span' = candidate_core_span
      BY <2>1 DEF candidate_core_span
    <3> QED
      BY <2>1, <3>1 DEF Listed
  <2>3. BestMatch(families, listOf)' = BestMatch(families', staged)
    BY <2>1
  <2>4. BestMatchIsExpanded'
    BY <2>1 DEF BestMatchIsExpanded, Expanded
  <2> QED
    BY <2>1, <2>2, <2>3, <2>4 DEF LoadingIInv
<1>6. CASE \E f \in Images :
        append_pending_file_drops(f) \/ set_open_file_dialog_result(f) \/ OpenRecent(f)
  <2>1. /\ UNCHANGED <<registry, list, choice, offered, popup>>
        /\ at # "static" <=> at' # "static"
    BY <1>6 DEF append_pending_file_drops, set_open_file_dialog_result, OpenRecent
  <2>2. BestMatchIsExpanded'
    BY <1>1, <2>1 DEF BestMatchIsExpanded, Expanded, choice, list
  <2> QED
    BY <2>1, <2>2, ListStays
<1>7. CASE Requested \/ NoDialog \/ LostDialog
  <2>1. /\ UNCHANGED <<registry, list, choice, offered>>
        /\ at # "static" <=> at' # "static"
    BY <1>7 DEF Requested, NoDialog, LostDialog
  <2>2. popup' => popup
    BY <1>7, Zenon DEF Requested, NoDialog, LostDialog
  <2>3. BestMatchIsExpanded'
    BY <1>1, <2>1, <2>2 DEF BestMatchIsExpanded, Expanded, choice, list
  <2> QED
    BY <2>1, <2>3, ListStays
<1>8. CASE ShowDialog
  <2>1. /\ UNCHANGED <<registry, list, offered, popup>> /\ chosen' = Expanded
        /\ at # "static" /\ at' # "static"
        /\ (pending' = NoPlace /\ clicked' = clicked) \/ clicked' = TRUE
    BY <1>8 DEF ShowDialog, Submitted
  <2>2. BestMatchIsExpanded'
    BY <1>1, <2>1 DEF BestMatchIsExpanded, Expanded, list
  <2> QED
    BY <2>1, <2>2, ListStays
<1>9. CASE CloseDialog
  <2>1. /\ UNCHANGED <<registry, list>> /\ ~offered' /\ at # "static" /\ at' # "static"
    BY <1>9 DEF CloseDialog, Submitted
  <2>2. BestMatchIsExpanded'
    BY <2>1 DEF BestMatchIsExpanded
  <2> QED
    BY <2>1, <2>2, ListStays
<1> QED
  BY <1>2, <1>3, <1>4, <1>5, <1>6, <1>7, <1>8, <1>9 DEF LoadingNext

\* The dialog offers for a file all cores, in order, and expands the one that knows it, in
\* whatever order their static objects were constructed: refresh_candidates().
THEOREM DialogIsComplete == LoadingSpec => []DialogOffersCores
<1>1. LoadingIInv => DialogOffersCores
  <2> SUFFICES ASSUME LoadingIInv PROVE ListIsComplete
    BY DEF LoadingIInv, DialogOffersCores
  <2>1. CASE offered
    BY <2>1, CompleteIs DEF LoadingIInv
  <2>2. CASE ~offered
    BY <2>2 DEF ListIsComplete
  <2> QED
    BY <2>1, <2>2
<1> QED
  BY <1>1, LoadingInitial, LoadingStep, PTL DEF LoadingSpec
=============================================================================
