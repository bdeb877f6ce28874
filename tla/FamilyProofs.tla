---------------------------- MODULE FamilyProofs ----------------------------
(***************************************************************************)
(* Proofs about the parts that every core of the CHIP-8 family has: the    *)
(* quirks and the byte that a frame copies them into; the keypad, for any  *)
(* set of keys and any repeat spans; the call stack, for every size; and   *)
(* the frame with its timers, its notes and its resets, for any program of *)
(* any of the seven cores.  And about the two parts that share nothing     *)
(* with them: BytePusher's frames, and the memory editor.                  *)
(*                                                                         *)
(* What the instructions of a core do is a lemma about its table,          *)
(* EffectsOfCores, and it says which of three kinds of core it is: those   *)
(* that rotate through three voices, those that have a voice for a pattern,*)
(* and MEGACHIP.  The invariant MachineIInv says of each kind which voices *)
(* its last notes have.                                                    *)
(*                                                                         *)
(* What BytePusher replays and what the editor reads are recursive         *)
(* functions.  That there are such functions, and what they have at each   *)
(* place, is shown by induction with NatInSet of Lists.                    *)
(***************************************************************************)
EXTENDS MCFamily, SequenceTheorems, TLAPS

List == INSTANCE Lists

-----------------------------------------------------------------------------
(* The quirks                                                              *)

\* The types of the variables that the proof needs.
QuirkTypes ==
  /\ hires \in BOOLEAN /\ interrupted \in BOOLEAN /\ asked \in BOOLEAN /\ alone \in BOOLEAN
  /\ worker \in {"frame", "run", "store"} /\ menu \in {"idle", "store"}
  /\ drawn \in 0..2

\* Without an overlap a byte that was read is still the one that is stored over, and up
\* to the first interrupt of a frame the copy is of the mode that the program is in.
ReadsAreCurrent ==
  alone =>
    /\ worker = "store" => menu = "idle" /\ read = flags
    /\ menu = "store" => menuRead = flags
    /\ worker = "run" /\ ~interrupted =>
         drawn = 0 /\ ("AWAIT_VBLANK" \in cached <=> ~hires)
    /\ worker = "store" => drawn = 0

\* The inductive invariant of the two bytes of flags.
QuirkIInv == QuirkTypes /\ ReadsAreCurrent /\ NoChangeLost

\* Each step of the worker and of the menu keeps it.
LEMMA QuirkStep == QuirkIInv /\ [QuirkNext]_quirkVars => QuirkIInv'
<1> SUFFICES ASSUME QuirkIInv, [QuirkNext]_quirkVars PROVE QuirkIInv'
  OBVIOUS
<1> USE DEF QuirkIInv, QuirkTypes, ReadsAreCurrent, NoChangeLost
<1>1. CASE CopyFlags
  <2> interrupted' \in BOOLEAN
    BY <1>1 DEF CopyFlags
  <2>1. QuirkTypes'
    BY <1>1 DEF CopyFlags, ofMenu
  <2>2. alone' => alone /\ worker = "frame" /\ worker' = "run" /\ cached' = flags
    BY <1>1 DEF CopyFlags
  <2>3. ReadsAreCurrent'
    BY <1>1, <2>2 DEF CopyFlags, ofMenu
  <2>4. NoChangeLost'
    BY <1>1 DEF CopyFlags, ofMenu
  <2> QED
    BY <2>1, <2>3, <2>4
<1>2. CASE EndProgram
  BY <1>2 DEF EndProgram, ofMenu
<1>3. CASE instruction_DxyN
  BY <1>3 DEF instruction_DxyN, ofMenu, has_quirk
<1>4. CASE \E mode \in BOOLEAN : ReadForMode(mode)
  BY <1>4 DEF ReadForMode, ofMenu
<1>5. CASE StoreMode
  BY <1>5 DEF StoreMode, ofMenu, add_quirk, sub_quirk
<1>6. CASE ReadForMenu
  BY <1>6 DEF ReadForMenu, ofWorker
<1>7. CASE StoreMenu
  BY <1>7 DEF StoreMenu, ofWorker, xor_quirk, get_avail_quirks
<1>8. CASE UNCHANGED quirkVars
  BY <1>8 DEF quirkVars, ofWorker, ofMenu
<1> QED
  BY <1>1, <1>2, <1>3, <1>4, <1>5, <1>6, <1>7, <1>8 DEF QuirkNext

\* Without an overlap neither the user's quirk nor that of the program's mode is ever lost, and
\* a change of mode is in force at the next sprite.
THEOREM NoQuirkIsLost == QuirkSpec => []NoChangeLost
<1>1. QuirkInit => QuirkIInv
  <2> SUFFICES ASSUME QuirkInit PROVE QuirkIInv
    OBVIOUS
  <2>1. /\ hires \in BOOLEAN /\ interrupted \in BOOLEAN
        /\ asked \in BOOLEAN /\ alone \in BOOLEAN
    BY DEF QuirkInit
  <2>2. QuirkTypes /\ ReadsAreCurrent /\ NoChangeLost
    BY <2>1 DEF QuirkInit, QuirkTypes, ReadsAreCurrent, NoChangeLost
  <2> QED
    BY <2>2 DEF QuirkIInv
<1>2. QuirkIInv => NoChangeLost
  BY DEF QuirkIInv
<1> QED
  BY <1>1, <1>2, QuirkStep, PTL DEF QuirkSpec

-----------------------------------------------------------------------------
(* The keypad                                                              *)

\* What makes the invariants inductive: the repeating key is one that was given
\* and never released, and its frames since then are the counter's; what a press
\* is compared with, from an update to the catch, is the frame before.
History ==
  /\ \A k \in Keys : since[k] # NoKey => k \in hide
  /\ \A k \in loop : since[k] = age /\ span >= RepeatSpan
  /\ step # "update" => last = before /\ loop \subseteq last

KeypadIInv == TypeOK /\ HiddenKeysAreDown /\ History

USE NoKeyAssumption, SpanAssumption DEF NoKeyAssumption, SpanAssumption

\* The key that is given is one of those offered.
LEMMA LowestIsMember ==
  ASSUME NEW S \in SUBSET Keys, S # {}
  PROVE  Lowest(S) \in S
  BY KeyAssumption DEF KeyAssumption, Lowest

\* The saturating counter stays in range and never falls.
LEMMA TickType ==
  ASSUME NEW n \in 0..FirstSpan
  PROVE  Tick(n) \in 0..FirstSpan /\ Tick(n) >= n
  BY DEF Tick

\* Among pressed keys there is always one to give.
LEMMA ValidKeys ==
  ASSUME KeypadIInv, step = "post", Pressed # {}
  PROVE  /\ Valid(Pressed) # {}
         /\ Valid(Pressed) \subseteq Pressed
         /\ Pressed \subseteq this
  BY DEF KeypadIInv, HiddenKeysAreDown, History, Valid, Pressed, Older

\* The initial state satisfies the inductive invariant.
LEMMA KeypadInitial == Init => KeypadIInv
<1> SUFFICES ASSUME Init PROVE KeypadIInv
  OBVIOUS
<1>1. 0 \in 0..FirstSpan
  OBVIOUS
<1>2. TypeOK
  BY <1>1 DEF Init, TypeOK
<1>3. HiddenKeysAreDown /\ History
  BY DEF Init, HiddenKeysAreDown, History
<1> QED
  BY <1>2, <1>3 DEF KeypadIInv

\* Every step of a frame and the reset keep it.
LEMMA KeypadKeeps == KeypadIInv /\ [Next]_vars => KeypadIInv'
<1> SUFFICES ASSUME KeypadIInv, [Next]_vars PROVE KeypadIInv'
  OBVIOUS
<1> USE DEF KeypadIInv, TypeOK, HiddenKeysAreDown, History
<1>1. ASSUME NEW down \in SUBSET Keys, Update(down) PROVE KeypadIInv'
  BY <1>1 DEF Update, Changed
<1>2. CASE Run
  BY <1>2 DEF Run, fields
<1>3. CASE RunNothing
  BY <1>3 DEF RunNothing, fields
<1>4. CASE NotWaiting
  BY <1>4, TickType DEF NotWaiting, EndFrame
<1>5. CASE CatchNothing
  <2>1. last' \in SUBSET Keys
    BY <1>5 DEF CatchNothing, Older
  <2> QED
    BY <1>5, <2>1, TickType DEF CatchNothing, EndFrame
<1>6. CASE CatchKey
  <2> DEFINE valid == Valid(Pressed)
             key == Lowest(valid)
  <2>1. /\ valid \subseteq this /\ valid \subseteq Keys /\ valid # {}
        /\ key \in valid
    BY <1>6, ValidKeys, LowestIsMember DEF CatchKey
  <2>2. last' \in SUBSET Keys
    BY <1>6 DEF CatchKey, Older
  <2>3. hide' = hide \cup valid /\ loop' = {key} /\ reg' = key
    BY <1>6 DEF CatchKey, Hidden
  <2>4. span' \in {RepeatSpan, FirstSpan} /\ span' >= RepeatSpan
    BY <1>6 DEF CatchKey, Span
  <2>5. /\ age' = Tick(0) /\ waiting' = FALSE
        /\ step' = "update" /\ this' = this /\ before' = before
        /\ since' = [k \in Keys |-> IF k = key THEN Tick(0)
                                    ELSE IF since[k] = NoKey THEN NoKey ELSE Tick(since[k])]
    BY <1>6 DEF CatchKey, EndFrame
  <2> HIDE DEF valid, key
  <2>6. TypeOK'
    <3>1. Tick(0) \in 0..FirstSpan
      BY TickType
    <3>2. since' \in [Keys -> (0..FirstSpan) \cup {NoKey}]
      BY <2>5, <3>1, TickType
    <3> QED
      BY <2>1, <2>2, <2>3, <2>4, <2>5, <3>1, <3>2
  <2>7. HiddenKeysAreDown'
    BY <2>1, <2>3, <2>5
  <2>8. History'
    BY <2>1, <2>3, <2>4, <2>5
  <2> QED
    BY <2>6, <2>7, <2>8
<1>7. CASE Reset
  <2>1. 0 \in 0..FirstSpan
    OBVIOUS
  <2>2. TypeOK'
    BY <1>7, <2>1 DEF Reset
  <2>3. (HiddenKeysAreDown /\ History)'
    BY <1>7 DEF Reset
  <2> QED
    BY <2>2, <2>3
<1>8. CASE UNCHANGED vars
  BY <1>8 DEF vars, fields
<1> HIDE DEF KeypadIInv, TypeOK, HiddenKeysAreDown, History
<1> QED
  BY <1>1, <1>2, <1>3, <1>4, <1>5, <1>6, <1>7, <1>8 DEF Next, Frame

\* The inductive invariant holds in every reachable state.
THEOREM KeypadInvariance == Spec => []KeypadIInv
  BY KeypadInitial, KeypadKeeps, PTL DEF Spec

\* The state of the keypad is well typed in every execution.
THEOREM KeypadIsTyped == Spec => []TypeOK
<1>1. KeypadIInv => TypeOK
  BY DEF KeypadIInv
<1> QED
  BY <1>1, KeypadInvariance, PTL

\* Only keys that are down are hidden, and only a hidden key repeats.
THEOREM HiddenAreDown == Spec => []HiddenKeysAreDown
<1>1. KeypadIInv => HiddenKeysAreDown
  BY DEF KeypadIInv
<1> QED
  BY <1>1, KeypadInvariance, PTL

\* A key given by Fx0A is not reported by the key tests while it is held.
THEOREM GivenIsHidden == Spec => []GivenKeyIsHidden
<1>1. KeypadIInv => GivenKeyIsHidden
  BY DEF KeypadIInv, History, GivenKeyIsHidden, is_key_held
<1> QED
  BY <1>1, KeypadInvariance, PTL

\* Fx0A gives a fresh key, or repeats one after at least the repeat span.
THEOREM FreshOrRepeats == Spec => KeyIsFreshOrRepeats
<1>1. ASSUME KeypadIInv, CatchKey
      PROVE  \/ reg' \in this \ before
             \/ since[reg'] # NoKey /\ since[reg'] >= RepeatSpan
  <2> DEFINE valid == Valid(Pressed)
  <2>1. valid # {} /\ valid \subseteq Pressed /\ valid \subseteq Keys
    BY <1>1, ValidKeys DEF CatchKey, KeypadIInv, TypeOK
  <2>2. reg' \in Pressed
    BY <1>1, <2>1, LowestIsMember DEF CatchKey
  <2>3. last = before
    BY <1>1 DEF CatchKey, KeypadIInv, History
  <2>4. CASE reg' \notin before
    BY <2>2, <2>4 DEF Pressed
  <2>5. CASE reg' \in before
    <3>1. Expired /\ reg' \in loop
      BY <2>2, <2>3, <2>5 DEF Pressed, Older
    <3>2. since[reg'] = age /\ age >= span /\ span >= RepeatSpan
      BY <1>1, <3>1 DEF Expired, KeypadIInv, History
    <3> QED
      BY <1>1, <3>2 DEF KeypadIInv, TypeOK
  <2> QED
    BY <2>4, <2>5
<1>2. KeypadIInv /\ [Next]_vars =>
        [CatchKey => \/ reg' \in this \ before
                     \/ since[reg'] # NoKey /\ since[reg'] >= RepeatSpan]_vars
  BY <1>1
<1> QED
  BY <1>2, KeypadInvariance, PTL DEF Spec, KeyIsFreshOrRepeats

\* A program that waits takes a key that went down, at once and before the one
\* that repeats.
THEOREM NewIsGiven == Spec => NewKeyIsGiven
<1> DEFINE Claim ==
      step = "post" /\ step' = "update" /\ waiting /\ this \ before # {}
        => ~waiting' /\ reg' \in this \ before
<1>1. ASSUME KeypadIInv, Next, step = "post", step' = "update", waiting, this \ before # {}
      PROVE  ~waiting' /\ reg' \in this \ before
  <2> DEFINE valid == Valid(Pressed)
  <2>1. last = before /\ loop \subseteq last
    BY <1>1 DEF KeypadIInv, History
  <2>2. this \ before \subseteq Pressed \ loop
    BY <2>1 DEF Pressed, Older
  <2>3. CatchKey
    BY <1>1, <2>2 DEF Next, Frame, Update, Run, RunNothing, NotWaiting, CatchNothing, Reset
  <2>4. valid = Pressed \ loop /\ valid # {} /\ valid \in SUBSET Keys
    BY <1>1, <2>2 DEF Valid, Pressed, KeypadIInv, TypeOK
  <2>5. ~waiting' /\ reg' \in Pressed \ loop
    BY <2>3, <2>4, LowestIsMember DEF CatchKey
  <2>6. (Pressed \ loop) \cap before = {}
    BY <2>1 DEF Pressed, Older
  <2>7. Pressed \subseteq this
    BY DEF Pressed
  <2> QED
    BY <2>5, <2>6, <2>7
<1>2. KeypadIInv /\ [Next]_vars =>
        [step = "post" /\ step' = "update" /\ waiting /\ this \ before # {}
           => ~waiting' /\ reg' \in this \ before]_vars
  BY <1>1
<1> QED
  BY <1>2, KeypadInvariance, PTL DEF Spec, NewKeyIsGiven

\* The wait for a key ends with the right one.
THEOREM WaitGetsRightKey == Spec => WaitGetsItsKey
  BY FreshOrRepeats, NewIsGiven DEF WaitGetsItsKey

-----------------------------------------------------------------------------
(* The call stack                                                          *)

USE SizeAssumption, AddressAssumption DEF SizeAssumption, AddressAssumption

\* The stack that the slots stand for.
mapped == [i \in 1..kept |-> data[Place(i)]]

\* The values that a reset assigns are in range.
LEMMA ZeroFits == 0 \in Address /\ 0 \in Slot /\ [i \in Slot |-> 0] \in [Slot -> Address]
<1>1. 0 \in Address /\ 0 \in Slot
  BY DEF Address, Slot
<1> QED
  BY <1>1

\* The initial state is well typed.
LEMMA StackInitial == StackInit => StackTypeOK
<1> SUFFICES ASSUME StackInit PROVE StackTypeOK
  OBVIOUS
<1>1. pc \in Address /\ head \in Slot /\ data \in [Slot -> Address]
  BY ZeroFits DEF StackInit, clear, Address
<1>2. stopped \in BOOLEAN
  BY DEF StackInit
<1>3. kept = 0
  BY DEF StackInit
<1>4. kept \in 0..Size
  BY <1>3
<1> QED
  BY <1>1, <1>2, <1>4 DEF StackTypeOK

\* Every instruction and the reset keep the types.
LEMMA StackStep == StackTypeOK /\ [StackNext]_stackVars => StackTypeOK'
<1> SUFFICES ASSUME StackTypeOK, [StackNext]_stackVars PROVE StackTypeOK'
  OBVIOUS
<1> USE DEF StackTypeOK, Address, Slot
<1>1. ASSUME NEW next \in Address, Jump(next) PROVE StackTypeOK'
  BY <1>1 DEF Jump, jump_program_to
<1>2. ASSUME NEW next \in Address, instruction_2NNN(next) PROVE StackTypeOK'
  BY <1>2 DEF instruction_2NNN, jump_program_to, Pushed, Behind, Up
<1>3. CASE instruction_00EE
  BY <1>3 DEF instruction_00EE, pop, Down
<1>4. CASE ResetStack
  <2>1. (pc \in Address /\ head \in Slot /\ data \in [Slot -> Address])'
    BY <1>4, ZeroFits DEF ResetStack, clear
  <2>2. stopped' \in BOOLEAN
    BY <1>4 DEF ResetStack
  <2>3. kept' = 0
    BY <1>4 DEF ResetStack
  <2>4. kept' \in 0..Size
    BY <2>3
  <2> QED
    BY <2>1, <2>2, <2>4
<1>5. CASE UNCHANGED stackVars
  BY <1>5 DEF stackVars
<1> HIDE DEF StackTypeOK, Address, Slot
<1> QED
  BY <1>1, <1>2, <1>3, <1>4, <1>5 DEF StackNext

\* The call stack is well typed in every execution.
THEOREM StackIsTyped == StackSpec => []StackTypeOK
  BY StackInitial, StackStep, PTL DEF StackSpec

\* The place of a remembered call, going around the array from the head.
LEMMA PlaceArithmetic ==
  ASSUME NEW h \in Slot, NEW k \in 0..Size, NEW i \in 1..k
  PROVE  (IF h + i > k THEN h + i - k - 1 ELSE h + i + Size - k - 1) \in Slot
  BY DEF Slot

\* Every remembered call has its slot.
LEMMA PlaceInSlot ==
  ASSUME StackTypeOK, NEW i \in 1..kept
  PROVE  Place(i) \in Slot
  BY PlaceArithmetic DEF StackTypeOK, Place

\* The sequence that the refinement maps the stack to.
LEMMA MappedType ==
  ASSUME StackTypeOK
  PROVE  mapped \in Seq(Address) /\ Len(mapped) = kept
<1>1. \A i \in 1..kept : data[Place(i)] \in Address
  BY PlaceInSlot DEF StackTypeOK
<1>2. kept \in Nat
  BY DEF StackTypeOK
<1> QED
  BY <1>1, <1>2 DEF mapped

\* A call appends behind the last return address, and drops the oldest one of a
\* stack that is full.
LEMMA CallStep ==
  ASSUME StackTypeOK, StackTypeOK', NEW next \in Address, instruction_2NNN(next)
  PROVE  mapped' = Append(IF Len(mapped) = Size THEN Tail(mapped) ELSE mapped, Behind(pc))
<1> DEFINE rest == IF Len(mapped) = Size THEN Tail(mapped) ELSE mapped
           appended == Append(rest, Behind(pc))
<1>1. mapped \in Seq(Address) /\ Len(mapped) = kept
  BY MappedType
<1>2. kept \in 0..Size /\ head \in Slot /\ data \in [Slot -> Address]
  BY DEF StackTypeOK
<1>3. Behind(pc) \in Address
  BY DEF StackTypeOK, Address, Behind
<1>4. /\ head' = Up(head)
      /\ kept' = IF kept = Size THEN Size ELSE kept + 1
      /\ data' = [data EXCEPT ![head] = Behind(pc)]
  BY DEF instruction_2NNN, Pushed
<1>5. rest \in Seq(Address) /\ Len(rest) = kept' - 1
  BY <1>1, <1>2, <1>4
<1>6. /\ appended \in Seq(Address) /\ Len(appended) = kept'
      /\ \A i \in 1..(kept' - 1) : appended[i] = rest[i]
      /\ appended[kept'] = Behind(pc)
  <2>1. kept' \in Nat /\ kept' - 1 \in Nat
    BY <1>2, <1>4
  <2> HIDE DEF rest
  <2>2. Len(rest) = kept' - 1
    BY <1>5
  <2>3. Len(rest) + 1 = kept'
    <3>1. \A k \in Nat : (k - 1) + 1 = k
      OBVIOUS
    <3>2. (kept' - 1) + 1 = kept'
      BY <2>1, <3>1
    <3> QED
      BY <2>2, <3>2
  <2>4. /\ appended \in Seq(Address) /\ Len(appended) = Len(rest) + 1
        /\ \A i \in 1..Len(rest) : appended[i] = rest[i]
        /\ appended[Len(rest) + 1] = Behind(pc)
    BY <1>3, <1>5, AppendProperties
  <2> HIDE DEF appended
  <2> QED
    BY <2>2, <2>3, <2>4
<1>7. \A i \in 1..(kept' - 1) : rest[i] = mapped[IF kept = Size THEN i + 1 ELSE i]
  BY <1>1, <1>2, <1>4
<1>8. mapped' \in Seq(Address) /\ Len(mapped') = kept'
  <2>1. ASSUME NEW i \in 1..kept' PROVE data'[Place(i)'] \in Address
    <3>1. head' \in Slot /\ kept' \in 0..Size
      BY DEF StackTypeOK
    <3>2. data' \in [Slot -> Address]
      BY DEF StackTypeOK
    <3>3. Place(i)' \in Slot
      BY <3>1, PlaceArithmetic DEF Place
    <3> QED
      BY <3>2, <3>3
  <2> QED
    BY <2>1, <1>2, <1>4 DEF mapped
<1>9. ASSUME NEW i \in 1..kept' PROVE mapped'[i] = appended[i]
  <2>1. mapped'[i] = data'[Place(i)']
    BY DEF mapped
  <2>2. CASE i = kept'
    <3>1. Place(i)' = head
      BY <2>2, <1>2, <1>4 DEF Place, Up, Slot
    <3> QED
      BY <2>1, <2>2, <3>1, <1>2, <1>4, <1>6
  <2>3. CASE i # kept'
    <3> DEFINE k == IF kept = Size THEN i + 1 ELSE i
    <3>1. k \in 1..kept
      BY <2>3, <1>2, <1>4
    <3>2. Place(i)' = Place(k) /\ Place(k) # head /\ Place(k) \in Slot
      BY <2>3, <3>1, <1>2, <1>4 DEF Place, Up, Slot
    <3>3. data'[Place(i)'] = data[Place(k)]
      BY <3>2, <1>2, <1>4
    <3>4. mapped[k] = data[Place(k)]
      BY <3>1 DEF mapped
    <3>5. i \in 1..(kept' - 1)
      BY <2>3, <1>2, <1>4
    <3> QED
      BY <2>1, <3>3, <3>4, <3>5, <1>6, <1>7
  <2> QED
    BY <2>2, <2>3
<1> HIDE DEF appended
<1> QED
  BY <1>6, <1>8, <1>9, SeqEqual DEF appended

\* A return takes the last return address.
LEMMA ReturnStep ==
  ASSUME StackTypeOK, StackTypeOK', instruction_00EE, kept # 0
  PROVE  /\ mapped # <<>> /\ pc' = mapped[Len(mapped)]
         /\ mapped' = SubSeq(mapped, 1, Len(mapped) - 1)
<1>1. mapped \in Seq(Address) /\ Len(mapped) = kept
  BY MappedType
<1>2. kept \in 1..Size /\ head \in Slot
  BY DEF StackTypeOK
<1>3. data' = data /\ head' = Down(head) /\ kept' = kept - 1 /\ pc' = data[Down(head)]
  BY DEF instruction_00EE, pop
<1>4. mapped[kept] = data[Down(head)]
  <2>1. Place(kept) = Down(head)
    BY <1>2 DEF Place, Down, Slot
  <2> QED
    BY <1>2, <2>1 DEF mapped
<1>5. \A i \in 1..kept' : Place(i)' = Place(i)
  BY <1>2, <1>3 DEF Place, Down, Slot
<1>6. mapped' = [i \in 1..(kept - 1) |-> data[Place(i)]]
  BY <1>3, <1>5 DEF mapped
<1>7. SubSeq(mapped, 1, kept - 1) = [i \in 1..(kept - 1) |-> data[Place(i)]]
  BY <1>1, <1>2 DEF mapped
<1> QED
  BY <1>1, <1>2, <1>3, <1>4, <1>6, <1>7

\* The call stack implements the bounded stack of return addresses.
THEOREM CallStackIsReturnStack == StackSpec => ImplementsReturnStack
<1> USE DEF ReturnStack!Address, Address
<1>1. StackInit => ReturnStack!Init
  <2> SUFFICES ASSUME StackInit PROVE mapped = <<>>
    BY DEF StackInit, ReturnStack!Init, mapped
  <2> QED
    BY DEF StackInit, mapped
<1>2. StackTypeOK /\ StackTypeOK' /\ [StackNext]_stackVars => [ReturnStack!Next]_(ReturnStack!vars)
  <2> SUFFICES ASSUME StackTypeOK, StackTypeOK', [StackNext]_stackVars
               PROVE  [ReturnStack!Next]_(ReturnStack!vars)
    OBVIOUS
  <2>1. ASSUME NEW next \in Address, Jump(next) PROVE ReturnStack!Jump(next)
    BY <2>1 DEF Jump, jump_program_to, ReturnStack!Jump, Place
  <2>2. ASSUME NEW next \in Address, instruction_2NNN(next) PROVE ReturnStack!Call(next)
    <3>1. Behind(pc) = ReturnStack!Behind(pc)
      BY DEF Behind, ReturnStack!Behind
    <3> QED
      BY <2>2, <3>1, CallStep DEF instruction_2NNN, jump_program_to, ReturnStack!Call, mapped
  <2>3. ASSUME instruction_00EE, kept # 0 PROVE ReturnStack!Return
    BY <2>3, ReturnStep DEF instruction_00EE, ReturnStack!Return, mapped
  <2>4. ASSUME instruction_00EE, kept = 0 PROVE ReturnStack!ReturnAnywhere
    <3>1. mapped = <<>> /\ mapped' = <<>>
      BY <2>4 DEF instruction_00EE, mapped
    <3>2. pc' \in Address
      BY DEF StackTypeOK
    <3> QED
      BY <2>4, <3>1, <3>2 DEF instruction_00EE, ReturnStack!ReturnAnywhere, mapped
  <2>5. ASSUME ResetStack PROVE ReturnStack!Reset
    <3>1. mapped' = <<>>
      BY <2>5 DEF ResetStack, mapped
    <3>2. pc' \in Address
      BY DEF StackTypeOK
    <3> QED
      BY <2>5, <3>1, <3>2 DEF ResetStack, ReturnStack!Reset, mapped
  <2>6. CASE UNCHANGED stackVars
    BY <2>6 DEF stackVars, ReturnStack!vars, Place
  <2> QED
    BY <2>1, <2>2, <2>3, <2>4, <2>5, <2>6 DEF StackNext, ReturnStack!Next
<1> QED
  BY <1>1, <1>2, StackIsTyped, PTL DEF StackSpec, ReturnStack!Spec, ImplementsReturnStack

-----------------------------------------------------------------------------
(* The frame                                                               *)

\* The parts of its state that a core has instructions for.
CanChange ==
  CASE core \in {"CHIP8_MODERN", "CHIP8E"} -> {"display"}
    [] core \in {"SCHIP_LEGACY", "SCHIP_MODERN"} -> {"display", "mode"}
    [] core = "CHIP8X" -> {"display", "background", "tint", "zones", "mask", "pitch"}
    [] core = "XOCHIP" -> {"display", "mode", "colors", "planes", "pattern", "pitch"}
    [] OTHER -> {"display", "mode", "palette", "texture", "tint", "track", "blend"}

\* The cores that rotate through three voices, and those with a voice for the pattern.
Rotating == {"CHIP8_MODERN", "CHIP8E", "SCHIP_LEGACY", "SCHIP_MODERN"}
Patterned == {"CHIP8X", "XOCHIP"}

\* The types that the proof needs.
Contents == {"zero", "random", "font", "file", "used"}
Note == [voice : Voice, left : Nat]
MachineTypes ==
  /\ core \in Core
  /\ memory \in [Region -> Contents] /\ changed \subseteq CanChange
  /\ voices \in [Voice -> Nat] /\ lastVoice \in {0, 1, 2}
  /\ notes \in [DOMAIN notes -> Note] /\ DOMAIN notes \in {{}, {1}, {1, 2}}

\* The voices of the last notes are those before the next one, the pattern's or the buzzer's.
NotesHaveVoices ==
  \A n \in DOMAIN notes :
    /\ core \in Rotating =>
         \/ n = 1 /\ lastVoice = (notes[n].voice + 1) % 3
         \/ n = 2 /\ lastVoice = (notes[n].voice + 2) % 3
    /\ core \in Rotating => notes[n].voice # BUZZER
    /\ core \in Patterned => n = 1 /\ notes[n].voice = UNIQUE

\* A core that has one voice leaves the others silent.
OthersAreSilent ==
  /\ core \in Patterned => voices[1] = 0 /\ voices[2] = 0
  /\ core = "MEGACHIP" => voices[0] = 0 /\ voices[1] = 0 /\ voices[2] = 0

\* The inductive invariant of the frame.
MachineIInv == MachineTypes /\ NotesHaveVoices /\ OthersAreSilent /\ TwoNotesPlay /\ HaltsInSilence

\* What the instructions of a core change, and the voices that they start.
LEMMA EffectsOfCores ==
  ASSUME core \in Core, NEW word
  PROVE  /\ effects(word) \cap Changes \subseteq CanChange
         /\ "voice" \in effects(word) => core \in Rotating
         /\ "unique" \in effects(word) => core \in Patterned
         /\ "buzzer" \in effects(word) => core = "MEGACHIP"
<1> USE DEF effects, handlers, sprite, FlowWords, KeyWords, TimerWords, PermaWords, Changes,
      CanChange, Rotating, Patterned
<1>1. CASE core = "CHIP8_MODERN"
  BY <1>1 DEF CHIP8_MODERN_0, CHIP8_MODERN_1to7, CHIP8_MODERN_9toC, CHIP8_MODERN_E,
    CHIP8_MODERN_F
<1>2. CASE core = "CHIP8E"
  BY <1>2 DEF CHIP8E_0, CHIP8E_1to7, CHIP8E_9toC, CHIP8E_E,
    CHIP8E_F
<1>3. CASE core = "CHIP8X"
  BY <1>3 DEF CHIP8X_0, CHIP8X_1to7, CHIP8X_9toC, CHIP8X_E,
    CHIP8X_F
<1>4. CASE core = "SCHIP_LEGACY"
  BY <1>4 DEF SCHIP_LEGACY_0, SCHIP_LEGACY_1to7, SCHIP_LEGACY_9toC, SCHIP_LEGACY_E,
    SCHIP_LEGACY_F
<1>5. CASE core = "SCHIP_MODERN"
  BY <1>5 DEF SCHIP_MODERN_0, SCHIP_MODERN_1to7, SCHIP_MODERN_9toC, SCHIP_MODERN_E,
    SCHIP_MODERN_F
<1>6. CASE core = "XOCHIP"
  BY <1>6 DEF XOCHIP_0, XOCHIP_1to7, XOCHIP_9toC, XOCHIP_E,
    XOCHIP_F
<1>7. CASE core = "MEGACHIP"
  BY <1>7 DEF MEGACHIP_0, MEGACHIP_1to7, MEGACHIP_9toC, MEGACHIP_E,
    MEGACHIP_F
<1> QED BY <1>1, <1>2, <1>3, <1>4, <1>5, <1>6, <1>7 DEF Core

\* What the regions hold after a font and a program were copied there.
LEMMA Loaded ==
  ASSUME NEW contents \in [Region -> Contents], NEW size \in {80, 180, 240}
  PROVE  /\ Load(contents, size) \in [Region -> Contents]
         /\ Load(contents, size)["small"] = "font"
         /\ Load(contents, size)["file"] = "file"
         /\ size >= 180 => Load(contents, size)["large"] = "font"
         /\ size >= 240 => Load(contents, size)["letters"] = "font"
         /\ size < 180 => Load(contents, size)["large"] = contents["large"]
         /\ size < 240 => Load(contents, size)["letters"] = contents["letters"]
         /\ Load(contents, size)["rest"] = contents["rest"]
<1> DEFINE copied == [contents EXCEPT !["file"] = "file"]
<1>1. copied \in [Region -> Contents]
  BY DEF Contents
<1>2. /\ copied["file"] = "file"
      /\ \A r \in {"small", "large", "letters", "rest"} : copied[r] = contents[r]
  BY DEF Region
<1>3. Load(contents, size) = copy_font_data_to(copied, size)
  BY DEF Load, copy_file_image_to
<1> HIDE DEF copied
<1>4. Load(contents, size) \in [Region -> Contents]
  BY <1>1, <1>3 DEF copy_font_data_to, Contents
<1> QED BY <1>1, <1>2, <1>3, <1>4 DEF copy_font_data_to, Region

\* A memory that is filled.
LEMMA Memories ==
  ASSUME NEW with \in Contents
  PROVE  Filled(with) \in [Region -> Contents] /\ \A r \in Region : Filled(with)[r] = with
BY DEF Filled

\* A reset renews what the instructions change, and the regions of memory.
LEMMA ResetKeeps ==
  ASSUME MachineTypes
  PROVE  /\ CanChange \ reset(core).renews \subseteq Kept
         /\ \A r \in Region \ NotReloaded : reset(core).memory[r] = initialize_system(core)[r]
         /\ reset(core).memory \in [Region -> Contents]
         /\ initialize_system(core) \in [Region -> Contents]
<1>0. "zero" \in Contents /\ "random" \in Contents
  BY DEF Contents
<1>1. memory \in [Region -> Contents]
  BY DEF MachineTypes
<1>2. Filled("zero") \in [Region -> Contents] /\ Filled("random") \in [Region -> Contents]
  BY <1>0, Memories
<1>3. Filled("zero")["rest"] = "zero" /\ Filled("zero")["large"] = "zero"
      /\ Filled("zero")["letters"] = "zero"
  BY <1>0, Memories DEF Region
<1>4. CASE core = "CHIP8_MODERN"
  <2>1. reset(core) = CHIP8_MODERN_reset /\ initialize_system(core) = CHIP8_MODERN_initialize
    BY <1>4 DEF reset, initialize_system
  <2>2. CanChange \ reset(core).renews \subseteq Kept
    BY <1>4, <2>1 DEF CHIP8_MODERN_reset, CanChange, Kept
  <2>3. reset(core).memory \in [Region -> Contents]
        /\ initialize_system(core) \in [Region -> Contents]
    BY <1>1, <1>2, <2>1, Loaded DEF CHIP8_MODERN_reset, CHIP8_MODERN_initialize
  <2>4. \A r \in Region \ NotReloaded : reset(core).memory[r] = initialize_system(core)[r]
    BY <1>4, <1>1, <1>2, <1>3, <2>1, Loaded
    DEF CHIP8_MODERN_reset, CHIP8_MODERN_initialize, NotReloaded, Region
  <2> QED BY <2>2, <2>3, <2>4
<1>5. CASE core = "CHIP8E"
  <2>1. reset(core) = CHIP8E_reset /\ initialize_system(core) = CHIP8E_initialize
    BY <1>5 DEF reset, initialize_system
  <2>2. CanChange \ reset(core).renews \subseteq Kept
    BY <1>5, <2>1 DEF CHIP8E_reset, CanChange, Kept
  <2>3. reset(core).memory \in [Region -> Contents]
        /\ initialize_system(core) \in [Region -> Contents]
    BY <1>1, <1>2, <2>1, Loaded DEF CHIP8E_reset, CHIP8E_initialize
  <2>4. \A r \in Region \ NotReloaded : reset(core).memory[r] = initialize_system(core)[r]
    BY <1>5, <1>1, <1>2, <1>3, <2>1, Loaded
    DEF CHIP8E_reset, CHIP8E_initialize, NotReloaded, Region
  <2> QED BY <2>2, <2>3, <2>4
<1>6. CASE core = "CHIP8X"
  <2>1. reset(core) = CHIP8X_reset /\ initialize_system(core) = CHIP8X_initialize
    BY <1>6 DEF reset, initialize_system
  <2>2. CanChange \ reset(core).renews \subseteq Kept
    BY <1>6, <2>1 DEF CHIP8X_reset, CanChange, Kept
  <2>3. reset(core).memory \in [Region -> Contents]
        /\ initialize_system(core) \in [Region -> Contents]
    BY <1>1, <1>2, <2>1, Loaded DEF CHIP8X_reset, CHIP8X_initialize
  <2>4. \A r \in Region \ NotReloaded : reset(core).memory[r] = initialize_system(core)[r]
    BY <1>6, <1>1, <1>2, <1>3, <2>1, Loaded
    DEF CHIP8X_reset, CHIP8X_initialize, NotReloaded, Region
  <2> QED BY <2>2, <2>3, <2>4
<1>7. CASE core = "SCHIP_LEGACY"
  <2>1. reset(core) = SCHIP_LEGACY_reset /\ initialize_system(core) = SCHIP_LEGACY_initialize
    BY <1>7 DEF reset, initialize_system
  <2>2. CanChange \ reset(core).renews \subseteq Kept
    BY <1>7, <2>1 DEF SCHIP_LEGACY_reset, CanChange, Kept
  <2>3. reset(core).memory \in [Region -> Contents]
        /\ initialize_system(core) \in [Region -> Contents]
    BY <1>1, <1>2, <2>1, Loaded DEF SCHIP_LEGACY_reset, SCHIP_LEGACY_initialize
  <2>4. \A r \in Region \ NotReloaded : reset(core).memory[r] = initialize_system(core)[r]
    BY <1>7, <1>1, <1>2, <1>3, <2>1, Loaded
    DEF SCHIP_LEGACY_reset, SCHIP_LEGACY_initialize, NotReloaded, Region
  <2> QED BY <2>2, <2>3, <2>4
<1>8. CASE core = "SCHIP_MODERN"
  <2>1. reset(core) = SCHIP_MODERN_reset /\ initialize_system(core) = SCHIP_MODERN_initialize
    BY <1>8 DEF reset, initialize_system
  <2>2. CanChange \ reset(core).renews \subseteq Kept
    BY <1>8, <2>1 DEF SCHIP_MODERN_reset, CanChange, Kept
  <2>3. reset(core).memory \in [Region -> Contents]
        /\ initialize_system(core) \in [Region -> Contents]
    BY <1>1, <1>2, <2>1, Loaded DEF SCHIP_MODERN_reset, SCHIP_MODERN_initialize
  <2>4. \A r \in Region \ NotReloaded : reset(core).memory[r] = initialize_system(core)[r]
    BY <1>8, <1>1, <1>2, <1>3, <2>1, Loaded
    DEF SCHIP_MODERN_reset, SCHIP_MODERN_initialize, NotReloaded, Region
  <2> QED BY <2>2, <2>3, <2>4
<1>9. CASE core = "XOCHIP"
  <2>1. reset(core) = XOCHIP_reset /\ initialize_system(core) = XOCHIP_initialize
    BY <1>9 DEF reset, initialize_system
  <2>2. CanChange \ reset(core).renews \subseteq Kept
    BY <1>9, <2>1 DEF XOCHIP_reset, CanChange, Kept
  <2>3. reset(core).memory \in [Region -> Contents]
        /\ initialize_system(core) \in [Region -> Contents]
    BY <1>1, <1>2, <2>1, Loaded DEF XOCHIP_reset, XOCHIP_initialize
  <2>4. \A r \in Region \ NotReloaded : reset(core).memory[r] = initialize_system(core)[r]
    BY <1>9, <1>1, <1>2, <1>3, <2>1, Loaded
    DEF XOCHIP_reset, XOCHIP_initialize, NotReloaded, Region
  <2> QED BY <2>2, <2>3, <2>4
<1>10. CASE core = "MEGACHIP"
  <2>1. reset(core) = MEGACHIP_reset /\ initialize_system(core) = MEGACHIP_initialize
    BY <1>10 DEF reset, initialize_system
  <2>2. CanChange \ reset(core).renews \subseteq Kept
    BY <1>10, <2>1 DEF MEGACHIP_reset, CanChange, Kept
  <2>3. reset(core).memory \in [Region -> Contents]
        /\ initialize_system(core) \in [Region -> Contents]
    BY <1>1, <1>2, <2>1, Loaded DEF MEGACHIP_reset, MEGACHIP_initialize
  <2>4. \A r \in Region \ NotReloaded : reset(core).memory[r] = initialize_system(core)[r]
    BY <1>10, <1>1, <1>2, <1>3, <2>1, Loaded
    DEF MEGACHIP_reset, MEGACHIP_initialize, NotReloaded, Region
  <2> QED BY <2>2, <2>3, <2>4
<1> QED BY <1>4, <1>5, <1>6, <1>7, <1>8, <1>9, <1>10 DEF Core, MachineTypes

\* The cores are those with three voices, those with the pattern's, and MEGACHIP.
LEMMA KindsOfCores ==
  /\ core \in Core <=> core \in Rotating \/ core \in Patterned \/ core = "MEGACHIP"
  /\ ~(core \in Rotating /\ core \in Patterned)
  /\ "MEGACHIP" \notin Rotating /\ "MEGACHIP" \notin Patterned
BY DEF Core, Rotating, Patterned

\* The frame begins in the invariant.
LEMMA MachineInitial == MachineInit => MachineIInv
<1> SUFFICES ASSUME MachineInit PROVE MachineIInv
  OBVIOUS
<1>1. voices \in [Voice -> Nat] /\ \A v \in Voice : voices[v] = 0
  BY DEF MachineInit
<1>2. notes = <<>> /\ DOMAIN notes = {}
  BY DEF MachineInit
<1>3. memory \in [Region -> Contents]
  <2>1. "zero" \in Contents /\ "random" \in Contents
    BY DEF Contents
  <2>2. Filled("zero") \in [Region -> Contents] /\ Filled("random") \in [Region -> Contents]
    BY <2>1, Memories
  <2>3. initialize_system(core) \in [Region -> Contents]
    BY <2>2, Loaded DEF initialize_system, CHIP8_MODERN_initialize, CHIP8E_initialize,
       CHIP8X_initialize, SCHIP_LEGACY_initialize, SCHIP_MODERN_initialize, XOCHIP_initialize,
       MEGACHIP_initialize
  <2> QED BY <2>3 DEF MachineInit
<1>4. MachineTypes
  BY <1>1, <1>2, <1>3 DEF MachineInit, MachineTypes
<1>5. OthersAreSilent
  BY <1>1 DEF OthersAreSilent, Voice, COUNT
<1> QED BY <1>1, <1>2, <1>4, <1>5 DEF MachineIInv, MachineInit, NotesHaveVoices, TwoNotesPlay,
        HaltsInSilence

\* A reset keeps it.
LEMMA ResetStep == MachineIInv /\ perform_instance_reset => MachineIInv'
<1> SUFFICES ASSUME MachineIInv, perform_instance_reset PROVE MachineIInv'
  OBVIOUS
<1>1. voices' \in [Voice -> Nat] /\ \A v \in Voice : voices'[v] = 0
  BY DEF perform_instance_reset
<1>2. notes' = <<>> /\ DOMAIN notes' = {}
  BY DEF perform_instance_reset
<1>3. core' = core /\ CanChange' = CanChange
  BY DEF perform_instance_reset, CanChange
<1>4. memory' \in [Region -> Contents] /\ changed' \subseteq CanChange
  BY ResetKeeps DEF perform_instance_reset, MachineIInv, MachineTypes
<1>5. MachineTypes'
  BY <1>1, <1>2, <1>3, <1>4 DEF perform_instance_reset, MachineIInv, MachineTypes
<1>6. OthersAreSilent'
  BY <1>1 DEF OthersAreSilent, Voice, COUNT
<1> QED BY <1>1, <1>2, <1>5, <1>6 DEF MachineIInv, perform_instance_reset, NotesHaveVoices,
        TwoNotesPlay, HaltsInSilence

\* A tick takes as much of the notes as of their voices.
LEMMA BeginStep == MachineIInv /\ BeginWork => MachineIInv'
<1> SUFFICES ASSUME MachineIInv, BeginWork PROVE MachineIInv'
  OBVIOUS
<1> USE DEF MachineIInv
<1>1. UNCHANGED <<core, program, memory, changed, pointed, lastVoice, ended>>
  BY DEF BeginWork
<1>2. /\ voices' \in [Voice -> Nat]
      /\ \A v \in Voice : voices'[v] = IF voices[v] > 0 THEN voices[v] - 1 ELSE 0
  BY DEF BeginWork, handle_timer_ticks, MachineTypes
<1>3. /\ DOMAIN notes' = DOMAIN notes
      /\ \A n \in DOMAIN notes : notes'[n] = Later(notes[n])
      /\ notes' \in [DOMAIN notes' -> Note]
  <2>1. \A note \in Note : Later(note) \in Note
    BY DEF Later, Note
  <2> QED BY <2>1 DEF BeginWork, MachineTypes
<1>4. \A n \in DOMAIN notes :
        /\ notes'[n].voice = notes[n].voice
        /\ notes'[n].left = IF notes[n].left > 0 THEN notes[n].left - 1 ELSE 0
        /\ notes[n].voice \in Voice
  BY <1>3 DEF Later, Note, MachineTypes
<1>5. MachineTypes'
  BY <1>1, <1>2, <1>3 DEF MachineTypes, CanChange
<1>6. NotesHaveVoices'
  BY <1>1, <1>3, <1>4 DEF NotesHaveVoices
<1>7. OthersAreSilent'
  BY <1>1, <1>2 DEF OthersAreSilent, Voice, COUNT
<1>8. TwoNotesPlay'
  BY <1>1, <1>2, <1>3, <1>4 DEF TwoNotesPlay
<1>9. HaltsInSilence'
  <2>1. CASE interrupt' \in {"WAIT1", "FINAL"} /\ interrupt' = interrupt
    BY <2>1, <1>2 DEF HaltsInSilence, MachineTypes
  <2>2. CASE interrupt' \in {"WAIT1", "FINAL"} /\ interrupt' # interrupt
    <3>1. silent(voices')
      BY <2>2 DEF BeginWork, handle_pre_work_interrupts
    <3> QED BY <3>1 DEF silent, HaltsInSilence
  <2> QED BY <2>1, <2>2 DEF HaltsInSilence
<1> QED BY <1>5, <1>6, <1>7, <1>8, <1>9

\* The beep of a key press is on the buzzer.
LEMMA EndStep == MachineIInv /\ EndWork => MachineIInv'
<1> SUFFICES ASSUME MachineIInv, EndWork PROVE MachineIInv'
  OBVIOUS
<1> USE DEF MachineIInv
<1>1. UNCHANGED <<core, program, memory, changed, pointed, delay, lastVoice, notes>>
  BY DEF EndWork
<1>2. voices' = voices \/ (voices' = [voices EXCEPT ![BUZZER] = 2] /\ interrupt' = "CLEAR")
  BY DEF EndWork, start_voice_at
<1>3. voices' \in [Voice -> Nat] /\ \A v \in Voice \ {BUZZER} : voices'[v] = voices[v]
  BY <1>2 DEF MachineTypes, BUZZER
<1>4. MachineTypes' /\ NotesHaveVoices'
  BY <1>1, <1>3 DEF MachineTypes, CanChange, NotesHaveVoices
<1>5. OthersAreSilent'
  BY <1>1, <1>3 DEF OthersAreSilent, Voice, COUNT, BUZZER
<1>6. TwoNotesPlay'
  <2>1. ASSUME core # "MEGACHIP", NEW n \in DOMAIN notes
        PROVE  voices'[notes[n].voice] = notes[n].left
    <3>1. notes[n].voice \in Voice \ {BUZZER}
      BY <2>1, KindsOfCores DEF MachineTypes, NotesHaveVoices, Note, BUZZER, UNIQUE
    <3> QED BY <2>1, <3>1, <1>3 DEF TwoNotesPlay
  <2> QED BY <2>1, <1>1 DEF TwoNotesPlay
<1>7. HaltsInSilence'
  <2>1. CASE voices' = voices
    <3>1. interrupt' \in {"WAIT1", "FINAL"} => interrupt \in {"WAIT1", "FINAL"}
      BY DEF EndWork
    <3> QED BY <2>1, <3>1 DEF HaltsInSilence
  <2>2. CASE interrupt' = "CLEAR"
    BY <2>2 DEF HaltsInSilence
  <2> QED BY <1>2, <2>1, <2>2
<1> QED BY <1>4, <1>5, <1>6, <1>7

\* The voices follow each other in a circle.
LEMMA Circle ==
  /\ next_voice = (lastVoice + 1) % 3
  /\ \A k \in {0, 1, 2} :
       /\ (k + 1) % 3 \in {0, 1, 2} /\ (k + 1) % 3 # k
       /\ (((k + 1) % 3) + 1) % 3 = (k + 2) % 3 /\ (k + 2) % 3 # k
BY DEF next_voice, COUNT

\* The voice that a note of Fx18 is started on, and what the last notes are afterwards.
LEMMA NoteStep ==
  ASSUME MachineIInv, NEW word, NEW value \in Nat, start_voice(word, value), core' = core,
         effects(word) \cap {"voice", "unique", "buzzer"} # {}
  PROVE  /\ voices' \in [Voice -> Nat] /\ lastVoice' \in {0, 1, 2}
         /\ notes' \in [DOMAIN notes' -> Note] /\ DOMAIN notes' \in {{}, {1}, {1, 2}}
         /\ NotesHaveVoices' /\ OthersAreSilent' /\ TwoNotesPlay'
<1> DEFINE d == Duration(value)
<1> USE DEF MachineIInv
<1>1. d \in Nat /\ (value = 0 => d = 0)
  BY DEF Duration
<1>2. /\ core \in Core /\ voices \in [Voice -> Nat] /\ lastVoice \in {0, 1, 2}
      /\ notes \in [DOMAIN notes -> Note] /\ DOMAIN notes \in {{}, {1}, {1, 2}}
  BY DEF MachineTypes
<1>3. notes # <<>> => 1 \in DOMAIN notes
  BY <1>2
<1>4. 0 \in Voice /\ 1 \in Voice /\ 2 \in Voice /\ BUZZER \in Voice /\ UNIQUE \in Voice
  BY DEF Voice, COUNT, BUZZER, UNIQUE
<1> HIDE DEF d
<1>5. CASE "voice" \in effects(word)
  <2>1. core \in Rotating /\ core \notin Patterned /\ core # "MEGACHIP"
    BY <1>2, <1>5, EffectsOfCores, KindsOfCores
  <2>2. voices' = [voices EXCEPT ![lastVoice] = d]
    BY <1>5 DEF start_voice, start_voice_at, d
  <2>3. \A n \in DOMAIN notes : notes[n].voice \in {0, 1, 2} /\ notes[n].voice # lastVoice
    <3>1. ASSUME NEW n \in DOMAIN notes
          PROVE  notes[n].voice \in {0, 1, 2} /\ notes[n].voice # lastVoice
      <4>1. notes[n].voice \in {0, 1, 2}
        BY <2>1, <1>2 DEF NotesHaveVoices, Note, Voice, COUNT, BUZZER
      <4> QED BY <4>1, <2>1, Circle DEF NotesHaveVoices
    <3> QED BY <3>1
  <2>4. \A n \in DOMAIN notes : voices'[notes[n].voice] = notes[n].left
    BY <1>2, <1>4, <2>1, <2>2, <2>3 DEF TwoNotesPlay
  <2>5. OthersAreSilent'
    BY <2>1 DEF OthersAreSilent
  <2>6. CASE value = 0
    <3>1. UNCHANGED <<lastVoice, notes>>
      BY <1>5, <2>6 DEF start_voice
    <3> QED BY <1>1, <1>2, <1>4, <2>2, <2>4, <2>5, <3>1 DEF NotesHaveVoices, TwoNotesPlay
  <2>7. CASE value # 0
    <3> DEFINE note == [voice |-> lastVoice, left |-> d]
    <3>1. /\ lastVoice' = (lastVoice + 1) % 3
          /\ notes' = IF notes = <<>> THEN <<note>> ELSE <<note, notes[1]>>
      BY <1>5, <2>7, Circle DEF start_voice, Noted, d
    <3>2. /\ note \in Note /\ note.voice = lastVoice /\ note.left = d
          /\ voices'[note.voice] = note.left
      BY <1>1, <1>2, <1>4, <2>2 DEF Note
    <3> HIDE DEF note
    <3>3. voices' \in [Voice -> Nat] /\ lastVoice' \in {0, 1, 2}
      BY <1>1, <1>2, <1>4, <2>2, <3>1, Circle
    <3>4. lastVoice' = (note.voice + 1) % 3 /\ note.voice # BUZZER
      BY <1>2, <3>1, <3>2 DEF BUZZER
    <3>5. CASE notes = <<>>
      <4>1. notes' = <<note>> /\ DOMAIN notes' = {1} /\ notes'[1] = note
        BY <3>1, <3>5
      <4> QED BY <2>1, <2>5, <3>2, <3>3, <3>4, <4>1 DEF NotesHaveVoices, TwoNotesPlay
    <3>6. CASE notes # <<>>
      <4>1. notes' = <<note, notes[1]>> /\ DOMAIN notes' = {1, 2} /\ notes'[1] = note
            /\ notes'[2] = notes[1] /\ notes[1] \in Note
        BY <1>2, <1>3, <3>1, <3>6
      <4>2. lastVoice' = (notes[1].voice + 2) % 3 /\ notes[1].voice # BUZZER
        BY <1>3, <2>1, <2>3, <3>1, <3>6, Circle DEF NotesHaveVoices
      <4>3. NotesHaveVoices'
        BY <2>1, <3>4, <4>1, <4>2 DEF NotesHaveVoices
      <4>4. TwoNotesPlay'
        BY <1>3, <2>4, <3>2, <3>6, <4>1 DEF TwoNotesPlay
      <4> QED BY <2>5, <3>2, <3>3, <4>1, <4>3, <4>4
    <3> QED BY <3>5, <3>6
  <2> QED BY <2>6, <2>7
<1>6. CASE "voice" \notin effects(word)
  <2> DEFINE own == IF "buzzer" \in effects(word) THEN BUZZER ELSE UNIQUE
             note == [voice |-> own, left |-> d]
  <2>1. voices' = [voices EXCEPT ![own] = d] /\ notes' = <<note>> /\ lastVoice' = lastVoice
    BY <1>6 DEF start_voice, start_voice_at, d
  <2>2. own \in Voice /\ note \in Note /\ note.voice = own /\ note.left = d
    BY <1>1, <1>4 DEF Note
  <2>3. \/ core \in Patterned /\ own = UNIQUE
        \/ core = "MEGACHIP" /\ own = BUZZER
    <3>1. CASE "buzzer" \in effects(word)
      BY <1>2, <3>1, EffectsOfCores, KindsOfCores
    <3>2. CASE "buzzer" \notin effects(word)
      <4>1. "unique" \in effects(word)
        BY <1>6, <3>2
      <4> QED BY <1>2, <3>2, <4>1, EffectsOfCores, KindsOfCores
    <3> QED BY <3>1, <3>2
  <2> HIDE DEF own, note
  <2>4. DOMAIN notes' = {1} /\ notes'[1] = note /\ notes' \in [DOMAIN notes' -> Note]
    BY <2>1, <2>2
  <2>5. voices' \in [Voice -> Nat] /\ voices'[own] = d
        /\ \A v \in Voice \ {own} : voices'[v] = voices[v]
    BY <1>1, <1>2, <2>1, <2>2
  <2>6. core \notin Rotating
    BY <2>3, KindsOfCores
  <2>7. NotesHaveVoices'
    BY <2>2, <2>3, <2>4, <2>6, KindsOfCores DEF NotesHaveVoices
  <2>8. OthersAreSilent'
    BY <1>4, <2>3, <2>5, KindsOfCores DEF OthersAreSilent, BUZZER, UNIQUE
  <2>9. TwoNotesPlay'
    BY <2>2, <2>4, <2>5 DEF TwoNotesPlay
  <2> QED BY <1>2, <2>1, <2>4, <2>5, <2>7, <2>8, <2>9
<1> QED BY <1>5, <1>6

\* An instruction changes what its core has instructions for, and starts one note at most.
LEMMA ExecuteStep == ASSUME MachineIInv, NEW word, Execute(word) PROVE MachineIInv'
<1> USE DEF MachineIInv
<1>1. UNCHANGED <<core, program, working, ended>>
  BY DEF Execute
<1>2. PICK value \in Values :
        IF effects(word) \cap {"voice", "unique", "buzzer"} # {}
        THEN start_voice(word, value) ELSE UNCHANGED <<voices, lastVoice, notes>>
  BY DEF Execute
<1>3. value \in Nat
  BY ValuesAssumption
<1>4. /\ voices' \in [Voice -> Nat] /\ lastVoice' \in {0, 1, 2}
      /\ notes' \in [DOMAIN notes' -> Note] /\ DOMAIN notes' \in {{}, {1}, {1, 2}}
      /\ NotesHaveVoices' /\ OthersAreSilent' /\ TwoNotesPlay'
  <2>1. CASE effects(word) \cap {"voice", "unique", "buzzer"} # {}
    BY <1>1, <1>2, <1>3, <2>1, NoteStep
  <2>2. CASE effects(word) \cap {"voice", "unique", "buzzer"} = {}
    <3>1. UNCHANGED <<voices, lastVoice, notes>>
      BY <1>2, <2>2
    <3> QED BY <1>1, <3>1 DEF MachineTypes, NotesHaveVoices, OthersAreSilent, TwoNotesPlay
  <2> QED BY <2>1, <2>2
<1>5. changed' \subseteq CanChange
  BY EffectsOfCores DEF Execute, MachineTypes
<1>6. memory' \in [Region -> Contents]
  <2>1. "used" \in Contents
    BY DEF Contents
  <2>2. memory' = memory \/ \E r \in {"large", "rest"} : memory' = [memory EXCEPT ![r] = "used"]
    BY DEF Execute
  <2> QED BY <2>1, <2>2 DEF MachineTypes
<1>7. HaltsInSilence'
  <2>1. interrupt' \notin {"WAIT1", "FINAL"}
    BY DEF Execute, interrupts
  <2> QED BY <2>1 DEF HaltsInSilence
<1> QED BY <1>1, <1>4, <1>5, <1>6, <1>7 DEF MachineTypes, CanChange

\* No step disturbs the invariant.
LEMMA MachineStep == MachineIInv /\ [MachineNext]_machineVars => MachineIInv'
<1> SUFFICES ASSUME MachineIInv, [MachineNext]_machineVars PROVE MachineIInv'
  OBVIOUS
<1>1. CASE UNCHANGED machineVars
  BY <1>1 DEF machineVars, MachineIInv, MachineTypes, CanChange, NotesHaveVoices,
     OthersAreSilent, TwoNotesPlay, HaltsInSilence
<1>2. CASE ExecuteUnknown
  BY <1>2 DEF ExecuteUnknown, MachineIInv, MachineTypes, CanChange, NotesHaveVoices,
     OthersAreSilent, TwoNotesPlay, HaltsInSilence
<1>3. CASE MachineNext
  BY <1>2, <1>3, ResetStep, BeginStep, EndStep, ExecuteStep DEF MachineNext
<1> QED BY <1>1, <1>3

\* A core only starts voices that it mixes.
LEMMA StartedIsHeard == MachineIInv => SoundIsHeard
<1> SUFFICES ASSUME MachineIInv, NEW v \in Voice, voices[v] > 0, NEW sound \in sounds(core)
             PROVE  v \in sound.mixed /\ (v \in sound.lights \/ (core = "XOCHIP" /\ v = UNIQUE))
  BY DEF SoundIsHeard
<1>1. core \in Core /\ v \in {0, 1, 2, 3}
  BY DEF MachineIInv, MachineTypes, Voice, COUNT
<1>2. /\ core \in Patterned \cup {"MEGACHIP"} => v # 1 /\ v # 2
      /\ core = "MEGACHIP" => v # 0
  BY DEF MachineIInv, OthersAreSilent
<1> QED BY <1>1, <1>2 DEF Core, Patterned, sounds, CHIP8_MODERN_sound, CHIP8E_sound, CHIP8X_sound,
        SCHIP_LEGACY_sound, SCHIP_MODERN_sound, XOCHIP_sound, MEGACHIP_sound, UNIQUE, BUZZER,
        Voice, COUNT

\* On every core, with any values of timers and any program: the last notes of Fx18 sound to
\* their end, on voices that are mixed and light the border, and no program ends before.
THEOREM NotesAreHeard == MachineSpec => []NotesPlay
<1>1. MachineIInv => NotesPlay
  BY StartedIsHeard DEF MachineIInv, NotesPlay
<1> QED BY MachineInitial, MachineStep, <1>1, PTL DEF MachineSpec

-----------------------------------------------------------------------------
(* The frames of BytePusher after a reset                                  *)

\* What the memory is after n frames, by what it was after those before.
Renewed(f, n, file, keys) ==
  IF n = 0 THEN Pusher!Loaded(file) ELSE Pusher!handle_cycle_loop(f[n-1], keys[n])

\* The recursive function of Replayed exists, for any file and any keys.
LEMMA ReplayFunction ==
  ASSUME NEW file, NEW T, NEW keys \in Seq(T)
  PROVE  \E f : /\ \A n \in 0..Len(keys) : f[n] = Renewed(f, n, file, keys)
                /\ Pusher!Replayed(file, keys) = f[Len(keys)]
<1> DEFINE P(n, f) == f = [k \in 0..n |-> Renewed(f, k, file, keys)]
           H == {n \in Nat : \E f : P(n, f)}
<1>1. 0 \in H
  <2> DEFINE f == [k \in 0..0 |-> Pusher!Loaded(file)]
  <2>1. P(0, f)
    BY DEF Renewed
  <2> QED BY <2>1
<1>2. ASSUME NEW n \in Nat, n \in H PROVE n+1 \in H
  <2>1. PICK f : P(n, f)
    BY <1>2
  <2> DEFINE v == Pusher!handle_cycle_loop(f[n], keys[n+1])
             g == [k \in 0..n+1 |-> IF k = n+1 THEN v ELSE f[k]]
  <2>2. ASSUME NEW k \in 0..n+1 PROVE g[k] = Renewed(g, k, file, keys)
    <3>1. CASE k = n+1
      <4>1. g[k-1] = f[n] /\ k # 0 /\ g[k] = v
        BY <3>1
      <4> QED BY <3>1, <4>1 DEF Renewed
    <3>2. CASE k # n+1
      <4>1. k \in 0..n /\ g[k] = f[k] /\ (k # 0 => g[k-1] = f[k-1])
        BY <3>2
      <4>2. f[k] = Renewed(f, k, file, keys)
        BY <2>1, <4>1
      <4> QED BY <4>1, <4>2 DEF Renewed
    <3> QED BY <3>1, <3>2
  <2>3. g = [k \in 0..n+1 |-> g[k]]
    OBVIOUS
  <2> HIDE DEF g
  <2>4. P(n+1, g)
    BY <2>2, <2>3
  <2> QED BY <2>4
<1> HIDE DEF P
<1>3. Nat \subseteq H
  BY <1>1, <1>2, List!NatInSet
<1>4. \E f : P(Len(keys), f)
  BY <1>3, LenProperties
<1> DEFINE g == CHOOSE f : P(Len(keys), f)
<1>5. P(Len(keys), g)
  BY <1>4
<1>6. Pusher!Replayed(file, keys) = g[Len(keys)]
  BY DEF Pusher!Replayed, P, Renewed
<1>7. \A n \in 0..Len(keys) : g[n] = Renewed(g, n, file, keys)
  BY <1>5 DEF P
<1> QED BY <1>6, <1>7

\* After no frame it is as it was loaded.
LEMMA ReplayNothing == \A file : Pusher!Replayed(file, <<>>) = Pusher!Loaded(file)
<1> TAKE file
<1>1. <<>> \in Seq({}) /\ Len(<<>>) = 0
  BY EmptySeq
<1>2. PICK f : /\ \A n \in 0..Len(<<>>) : f[n] = Renewed(f, n, file, <<>>)
               /\ Pusher!Replayed(file, <<>>) = f[Len(<<>>)]
  BY <1>1, ReplayFunction
<1>3. 0 \in 0..Len(<<>>)
  BY <1>1
<1> QED BY <1>1, <1>2, <1>3 DEF Renewed

\* A frame more is a frame after what the others have left.
LEMMA ReplayAppend ==
  ASSUME NEW file, NEW T, NEW keys \in Seq(T), NEW pressing \in T
  PROVE  Pusher!Replayed(file, Append(keys, pressing)) =
           Pusher!handle_cycle_loop(Pusher!Replayed(file, keys), pressing)
<1> DEFINE more == Append(keys, pressing)
           m == Len(keys)
<1>1. /\ more \in Seq(T) /\ Len(more) = m + 1 /\ more[m + 1] = pressing
      /\ \A n \in 1..m : more[n] = keys[n]
  BY AppendProperties
<1>2. m \in Nat
  BY LenProperties
<1>3. PICK f : /\ \A n \in 0..m : f[n] = Renewed(f, n, file, keys)
               /\ Pusher!Replayed(file, keys) = f[m]
  BY ReplayFunction
<1>4. PICK g : /\ \A n \in 0..Len(more) : g[n] = Renewed(g, n, file, more)
               /\ Pusher!Replayed(file, more) = g[Len(more)]
  BY <1>1, ReplayFunction
<1> HIDE DEF more, m
<1> DEFINE H == {n \in Nat : n <= m => g[n] = f[n]}
<1>5. 0 \in H
  <2>1. 0 \in 0..m /\ 0 \in 0..Len(more)
    BY <1>1, <1>2
  <2> QED BY <1>3, <1>4, <2>1 DEF Renewed
<1>6. ASSUME NEW n \in Nat, n \in H PROVE n+1 \in H
  <2>1. SUFFICES ASSUME n+1 <= m PROVE g[n+1] = f[n+1]
    OBVIOUS
  <2>2. n+1 \in 0..m /\ n+1 \in 0..Len(more) /\ n+1 \in 1..m /\ n+1 # 0 /\ (n+1)-1 = n
    BY <1>1, <1>2, <2>1
  <2>3. g[n] = f[n] /\ more[n+1] = keys[n+1]
    <3>1. n <= m
      BY <1>2, <2>1
    <3> QED BY <1>1, <1>6, <2>2, <3>1
  <2>4. f[n+1] = Pusher!handle_cycle_loop(f[n], keys[n+1])
    BY <1>3, <2>2 DEF Renewed
  <2>5. g[n+1] = Pusher!handle_cycle_loop(g[n], more[n+1])
    BY <1>4, <2>2 DEF Renewed
  <2> QED BY <2>3, <2>4, <2>5
<1>7. g[m] = f[m]
  <2>1. Nat \subseteq H
    BY <1>5, <1>6, List!NatInSet
  <2> QED BY <1>2, <2>1
<1>8. m+1 \in 0..Len(more) /\ m+1 # 0 /\ (m+1)-1 = m
  BY <1>1, <1>2
<1>9. g[m+1] = Pusher!handle_cycle_loop(g[m], pressing)
  BY <1>1, <1>4, <1>8 DEF Renewed
<1>10. Pusher!Replayed(file, more)
         = Pusher!handle_cycle_loop(Pusher!Replayed(file, keys), pressing)
  BY <1>1, <1>3, <1>4, <1>7, <1>9
<1> QED BY <1>10 DEF more

\* What the frames replay is inductive as it stands.
PusherIInv == pressed \in Seq(Pusher!KeyStates) /\ Pusher!FramesReplay

LEMMA PusherInitial == Pusher!PusherInit => PusherIInv
<1> SUFFICES ASSUME Pusher!PusherInit PROVE PusherIInv
  OBVIOUS
<1>1. pressed = <<>> /\ cells = Pusher!Loaded(image)
  BY DEF Pusher!PusherInit
<1>2. Pusher!Replayed(image, <<>>) = Pusher!Loaded(image)
  BY ReplayNothing
<1> QED BY <1>1, <1>2 DEF PusherIInv, Pusher!FramesReplay

LEMMA PusherStep == PusherIInv /\ [Pusher!PusherNext]_(Pusher!pusherVars) => PusherIInv'
<1> SUFFICES ASSUME PusherIInv, [Pusher!PusherNext]_(Pusher!pusherVars) PROVE PusherIInv'
  OBVIOUS
<1> USE DEF PusherIInv, Pusher!FramesReplay
<1>1. CASE Pusher!PusherFrame
  <2>1. PICK keys \in Pusher!KeyStates :
          pressed' = Append(pressed, keys) /\ cells' = Pusher!handle_cycle_loop(cells, keys)
    BY <1>1 DEF Pusher!PusherFrame
  <2>2. pressed' \in Seq(Pusher!KeyStates)
    BY <2>1, AppendProperties
  <2>3. image' = image /\ heard' = Pusher!Samples(cells') /\ shown' = Pusher!Screen(cells')
    BY <1>1 DEF Pusher!PusherFrame
  <2>4. Pusher!Replayed(image, pressed')
          = Pusher!handle_cycle_loop(Pusher!Replayed(image, pressed), keys)
    BY <2>1, ReplayAppend
  <2>5. cells' = Pusher!Replayed(image', pressed')
    BY <2>1, <2>3, <2>4
  <2> QED BY <2>2, <2>3, <2>5
<1>2. CASE Pusher!PausedFrame
  BY <1>2 DEF Pusher!PausedFrame
<1>3. CASE Pusher!PusherReset
  <2>1. pressed' = <<>> /\ image' = image /\ cells' = Pusher!Loaded(image)
    BY <1>3 DEF Pusher!PusherReset, Pusher!Cleared
  <2>2. Pusher!Replayed(image, <<>>) = Pusher!Loaded(image)
    BY ReplayNothing
  <2> QED BY <2>1, <2>2
<1>4. CASE UNCHANGED Pusher!pusherVars
  BY <1>4 DEF Pusher!pusherVars
<1> QED BY <1>1, <1>2, <1>3, <1>4 DEF Pusher!PusherNext
-----------------------------------------------------------------------------
\* A reset forgets the last run, on every core.  Of a CHIP-8 core it renews, after any program,
\* every part of the state that the core has instructions for, and every region of memory, but
\* for those that Kept and NotReloaded name; what a BytePusher program does after it is what
\* it does when it was just loaded.
THEOREM ResetsForget == FamilySpec => ResetForgets
<1>1. FamilyInit => MachineIInv /\ PusherIInv
  BY MachineInitial, PusherInitial DEF FamilyInit
<1>2. MachineIInv /\ PusherIInv /\ [FamilyNext]_allVars => (MachineIInv /\ PusherIInv)'
  <2> SUFFICES ASSUME MachineIInv, PusherIInv, [FamilyNext]_allVars
               PROVE  MachineIInv' /\ PusherIInv'
    OBVIOUS
  <2>1. [MachineNext]_machineVars
    BY DEF FamilyNext, KeypadStep, CoreStep, allVars
  <2>2. [Pusher!PusherNext]_(Pusher!pusherVars)
    BY DEF FamilyNext, KeypadStep, CoreStep, allVars, pusherVars, Pusher!pusherVars
  <2> QED BY <2>1, <2>2, MachineStep, PusherStep
<1>3. MachineIInv /\ PusherIInv /\ [FamilyNext]_allVars
        => [/\ part = "frame" => ResetRenews
            /\ part = "pusher" => Pusher!FramesReplay]_allVars
  <2> SUFFICES ASSUME MachineIInv, PusherIInv, FamilyNext, part = "frame" PROVE ResetRenews
    BY DEF PusherIInv
  <2>1. MachineNext
    BY DEF FamilyNext, KeypadStep, CoreStep
  <2> QED BY <2>1, ResetKeeps DEF MachineIInv, MachineTypes, ResetRenews, perform_instance_reset
<1> QED BY <1>1, <1>2, <1>3, PTL DEF FamilySpec, ResetForgets
-----------------------------------------------------------------------------
(* The memory editor                                                       *)

\* What the sizes of the editor are: those of a memory of bytes with two digits.
EditorSizes ==
  /\ EditorSize \in Nat \ {0} /\ PreviewSize \in Nat
  /\ c_max_addr \in Nat /\ c_max_addr >= EditorSize
  /\ EditorRadix \in Nat /\ \E b \in 2 .. EditorRadix : b * b = EditorRadix
  /\ Typable \subseteq Nat /\ Longest \in Nat

EditorTypes ==
  /\ bytes \in [Editor!Addr -> Nat] /\ columns \in {1, 2}
  /\ scroll \in Nat /\ preview \in Nat /\ editing \in Nat
  /\ focus \in Editor!Addr \cup {c_max_addr}
  /\ text \in Seq(Nat) /\ known \subseteq Nat
  /\ const \in BOOLEAN /\ acquire \in BOOLEAN /\ selected \in BOOLEAN /\ apart \in BOOLEAN

\* The text of a field with the keyboard has digits that the byte had or that were entered.
TextIsKnown ==
  focus # c_max_addr /\ ~apart => Editor!Range(text) \subseteq known

EditorIInv == EditorTypes /\ TextIsKnown

\* The digits of a byte are numbers.
LEMMA DigitsAreNumbers ==
  ASSUME EditorSizes, NEW byte \in Nat
  PROVE  Editor!Digits(byte) \in Seq(Nat)
<1>1. Editor!Base \in 2 .. EditorRadix /\ EditorRadix \in Nat
  BY DEF EditorSizes, Editor!Base
<1>2. byte \div Editor!Base \in Nat /\ byte % Editor!Base \in Nat
  BY <1>1
<1> QED BY <1>2 DEF Editor!Digits

\* A cell of a row that is in view has a byte, and its own one if no other range is drawn.
LEMMA CellHasByte ==
  ASSUME EditorSizes, EditorTypes, NEW a \in Editor!Addr
  PROVE  /\ Editor!CellByte(Editor!Clipped, a) \in Nat
         /\ Len(Editor!Clipped) \in {1, 2}
         /\ Len(Editor!Clipped) = 1 => Editor!Clipped = <<scroll>>
         /\ Len(Editor!Clipped) = 1 /\ a \div columns = scroll
              => Editor!CellByte(Editor!Clipped, a) = bytes[a]
<1> DEFINE clip == Editor!Clipped
           n == (a % columns) + 1
<1>1. columns \in Nat \ {0} /\ a \in Nat /\ a < EditorSize /\ EditorSize \in Nat
  BY DEF EditorTypes, EditorSizes, Editor!Addr
<1>2. n \in 1 .. columns
  BY <1>1
<1>3. Len(clip) \in {1, 2} /\ (Len(clip) = 1 => clip = <<scroll>>) /\ Head(clip) \in Nat
  <2>1. focus # c_max_addr => focus \div columns \in Nat
    BY DEF EditorTypes, Editor!Addr
  <2> QED BY <2>1 DEF EditorTypes, Editor!Clipped, Editor!Row
<1> HIDE DEF clip
<1>4. Editor!CellByte(clip, a) = Editor!read_bytes(columns, Head(clip) * columns)[n]
  BY DEF Editor!CellByte, Editor!RowCache, Editor!read_cache
<1> DEFINE at == Head(clip) * columns + n - 1
<1>5. at \in Nat
  BY <1>1, <1>2, <1>3 DEF EditorTypes
<1>6. Editor!CellByte(clip, a) = IF at < EditorSize THEN bytes[at] ELSE 0
  BY <1>2, <1>4 DEF Editor!read_bytes
<1>7. Editor!CellByte(clip, a) \in Nat
  <2>1. at < EditorSize => at \in Editor!Addr
    BY <1>1, <1>5 DEF Editor!Addr
  <2> HIDE DEF at
  <2> QED BY <1>6, <2>1 DEF EditorTypes
<1>8. ASSUME Len(clip) = 1, a \div columns = scroll PROVE Editor!CellByte(clip, a) = bytes[a]
  <2>1. Head(clip) = scroll
    BY <1>3, <1>8
  <2>2. a = scroll * columns + (a % columns)
    BY <1>1, <1>8 DEF EditorTypes
  <2>3. at = a
    BY <1>1, <2>1, <2>2 DEF EditorTypes
  <2> QED BY <1>1, <1>6, <2>3
<1> QED BY <1>3, <1>7, <1>8 DEF clip

\* Numbers that follow from one another, by a factor and a summand for each.
Steps(f, n, b, m, w) ==
  /\ f \in [0 .. n -> Nat]
  /\ f[0] = b
  /\ \A k \in 1 .. n : f[k] = f[k - 1] * m + w[k]

LEMMA StepsExist ==
  ASSUME NEW n \in Nat, NEW b \in Nat, NEW m \in Nat, NEW w \in [1 .. n -> Nat]
  PROVE  \E f : Steps(f, n, b, m, w)
<1> DEFINE H == {i \in Nat : i <= n => \E f : Steps(f, i, b, m, w)}
<1>1. 0 \in H
  <2> DEFINE f == [k \in 0 .. 0 |-> b]
  <2>1. Steps(f, 0, b, m, w)
    BY DEF Steps
  <2> QED BY <2>1
<1>2. ASSUME NEW i \in Nat, i \in H PROVE i + 1 \in H
  <2>1. SUFFICES ASSUME i + 1 <= n PROVE \E f : Steps(f, i + 1, b, m, w)
    OBVIOUS
  <2>2. PICK f : Steps(f, i, b, m, w)
    BY <1>2, <2>1
  <2> DEFINE v == f[i] * m + w[i + 1]
             g == [k \in 0 .. i + 1 |-> IF k = i + 1 THEN v ELSE f[k]]
  <2>3. f \in [0 .. i -> Nat] /\ f[0] = b /\ \A k \in 1 .. i : f[k] = f[k - 1] * m + w[k]
    BY <2>2 DEF Steps
  <2>4. v \in Nat
    <3>1. f[i] \in Nat /\ w[i + 1] \in Nat
      BY <2>1, <2>3
    <3>2. \A x, y \in Nat : x * m + y \in Nat
      OBVIOUS
    <3> QED BY <3>1, <3>2
  <2> HIDE DEF v
  <2>5. g \in [0 .. i + 1 -> Nat]
    BY <2>3, <2>4
  <2>6. g[i + 1] = v /\ \A k \in 0 .. i : g[k] = f[k]
    OBVIOUS
  <2> HIDE DEF g
  <2>7. g[0] = b
    BY <2>3, <2>6
  <2>8. ASSUME NEW k \in 1 .. i + 1 PROVE g[k] = g[k - 1] * m + w[k]
    <3>1. CASE k = i + 1
      <4>1. g[k] = v /\ g[k - 1] = f[i] /\ w[k] = w[i + 1]
        BY <2>6, <3>1
      <4> QED BY <4>1 DEF v
    <3>2. CASE k # i + 1
      <4>1. k \in 1 .. i /\ k \in 0 .. i /\ k - 1 \in 0 .. i
        BY <3>2
      <4>2. g[k] = f[k] /\ g[k - 1] = f[k - 1]
        BY <2>6, <4>1
      <4>3. f[k] = f[k - 1] * m + w[k]
        BY <2>3, <4>1
      <4> QED BY <4>2, <4>3
    <3> QED BY <3>1, <3>2
  <2>9. Steps(g, i + 1, b, m, w)
    BY <2>5, <2>7, <2>8 DEF Steps
  <2> QED BY <2>9
<1>3. Nat \subseteq H
  <2> HIDE DEF H
  <2> QED BY <1>1, <1>2, List!NatInSet
<1> QED BY <1>3

\* The worth of a byte is a number.
LEMMA PlacesAreNumbers ==
  ASSUME EditorSizes, NEW n \in Nat
  PROVE  Editor!Place(n) \in Nat
<1> DEFINE P(f) == f = [j \in 0 .. n |-> IF j = 0 THEN 1 ELSE f[j - 1] * EditorRadix]
           w == [j \in 1 .. n |-> 0]
<1>1. EditorRadix \in Nat
  BY DEF EditorSizes
<1>2. \A x \in Nat : x * EditorRadix + 0 = x * EditorRadix /\ x * EditorRadix \in Nat
  BY <1>1
<1>3. w \in [1 .. n -> Nat] /\ \A j \in 1 .. n : w[j] = 0
  OBVIOUS
<1> HIDE DEF w
<1>4. PICK f : Steps(f, n, 1, EditorRadix, w)
  BY <1>1, <1>3, StepsExist
<1>5. P(f)
  <2>1. ASSUME NEW j \in 0 .. n
        PROVE  f[j] = IF j = 0 THEN 1 ELSE f[j - 1] * EditorRadix
    <3>1. CASE j = 0
      BY <1>4, <3>1 DEF Steps
    <3>2. CASE j # 0
      <4>1. j \in 1 .. n /\ j - 1 \in 0 .. n
        BY <3>2
      <4>2. f[j] = f[j - 1] * EditorRadix + 0 /\ f[j - 1] \in Nat
        BY <1>3, <1>4, <4>1 DEF Steps
      <4> QED BY <1>2, <3>2, <4>2
    <3> QED BY <3>1, <3>2
  <2>2. DOMAIN f = 0 .. n /\ f = [j \in 0 .. n |-> f[j]]
    BY <1>4 DEF Steps
  <2> QED BY <2>1, <2>2
<1> DEFINE g == CHOOSE x : P(x)
<1>6. P(g)
  BY <1>5
<1>7. Editor!Place(n) = g[n]
  BY DEF Editor!Place
<1> HIDE DEF g
<1> DEFINE H == {j \in Nat : j <= n => g[j] \in Nat}
<1>8. 0 \in H
  BY <1>6
<1>9. ASSUME NEW j \in Nat, j \in H PROVE j + 1 \in H
  <2>1. SUFFICES ASSUME j + 1 <= n PROVE g[j + 1] \in Nat
    OBVIOUS
  <2>2. g[j] \in Nat
    BY <1>9, <2>1
  <2>3. g[j + 1] = g[j] * EditorRadix
    BY <1>6, <2>1
  <2> QED BY <1>2, <2>2, <2>3
<1>10. Nat \subseteq H
  <2> HIDE DEF H
  <2> QED BY <1>8, <1>9, List!NatInSet
<1> QED BY <1>7, <1>10

\* The sums of n weights.
Sums(s, w, n) == s[0] = 0 /\ \A k \in 1 .. n : s[k] = s[k - 1] + w[k]

\* There are such sums, as a recursive function.
LEMMA SumsExist ==
  ASSUME NEW n \in Nat, NEW w \in [1 .. n -> Nat]
  PROVE  \E s : s = [k \in 0 .. n |-> IF k = 0 THEN 0 ELSE s[k - 1] + w[k]]
<1>1. PICK s : Steps(s, n, 0, 1, w)
  BY StepsExist
<1>2. \A k \in 0 .. n : s[k] = IF k = 0 THEN 0 ELSE s[k - 1] + w[k]
  <2> TAKE k \in 0 .. n
  <2>1. CASE k = 0
    BY <1>1, <2>1 DEF Steps
  <2>2. CASE k # 0
    <3>1. k \in 1 .. n /\ k - 1 \in 0 .. n
      BY <2>2
    <3>2. s[k - 1] \in Nat /\ s[k] = s[k - 1] * 1 + w[k]
      BY <1>1, <3>1 DEF Steps
    <3> QED BY <2>2, <3>2
  <2> QED BY <2>1, <2>2
<1>3. s = [k \in 0 .. n |-> s[k]]
  <2>1. s \in [0 .. n -> Nat]
    BY <1>1 DEF Steps
  <2> QED BY <2>1
<1>4. s = [k \in 0 .. n |-> IF k = 0 THEN 0 ELSE s[k - 1] + w[k]]
  BY <1>2, <1>3
<1> QED BY <1>4

\* Sums of numbers are numbers.
LEMMA SumsAreNumbers ==
  ASSUME NEW n \in Nat, NEW w \in [1 .. n -> Nat], NEW s, Sums(s, w, n)
  PROVE  \A k \in 0 .. n : s[k] \in Nat
<1> DEFINE H == {k \in Nat : k <= n => s[k] \in Nat}
<1>1. 0 \in H
  BY DEF Sums
<1>2. ASSUME NEW k \in Nat, k \in H PROVE k + 1 \in H
  <2>1. SUFFICES ASSUME k + 1 <= n PROVE s[k + 1] \in Nat
    OBVIOUS
  <2>2. s[k] \in Nat /\ w[k + 1] \in Nat
    BY <1>2, <2>1
  <2>3. s[k + 1] = s[k] + w[k + 1]
    BY <2>1 DEF Sums
  <2> QED BY <2>2, <2>3
<1>3. Nat \subseteq H
  <2> HIDE DEF H
  <2> QED BY <1>1, <1>2, List!NatInSet
<1> QED BY <1>3

Mirrored(u, w, n) == \A k \in 1 .. n : u[k] = w[n + 1 - k]
SameWeights(u, w, n) == (\A k \in 1 .. n : u[k] = w[k]) \/ Mirrored(u, w, n)

\* Sums of the same weights are the same, from the first to the last or the other way round.
LEMMA SumsAreSame ==
  ASSUME NEW n \in Nat, NEW w \in [1 .. n -> Nat], NEW u \in [1 .. n -> Nat],
         NEW s, NEW t, Sums(s, w, n), Sums(t, u, n), SameWeights(u, w, n)
  PROVE  s[n] = t[n]
<1>1. \A k \in 0 .. n : s[k] \in Nat /\ t[k] \in Nat
  BY SumsAreNumbers
<1>2. CASE \A k \in 1 .. n : u[k] = w[k]
  <2> DEFINE H == {k \in Nat : k <= n => s[k] = t[k]}
  <2>1. 0 \in H
    BY DEF Sums
  <2>2. ASSUME NEW k \in Nat, k \in H PROVE k + 1 \in H
    <3>1. SUFFICES ASSUME k + 1 <= n PROVE s[k + 1] = t[k + 1]
      OBVIOUS
    <3>2. k + 1 \in 1 .. n /\ (k + 1) - 1 = k /\ s[k] = t[k]
      BY <2>2, <3>1
    <3>3. s[k + 1] = s[k] + w[k + 1] /\ t[k + 1] = t[k] + u[k + 1]
      BY <3>2 DEF Sums
    <3> QED BY <1>2, <3>2, <3>3
  <2>3. Nat \subseteq H
    <3> HIDE DEF H
    <3> QED BY <2>1, <2>2, List!NatInSet
  <2> QED BY <2>3
<1>3. CASE Mirrored(u, w, n)
  <2> DEFINE H == {k \in Nat : k <= n => s[n - k] + t[k] = s[n]}
  <2>1. 0 \in H
    <3>1. n - 0 = n /\ n \in 0 .. n /\ t[0] = 0
      BY DEF Sums
    <3>2. s[n] \in Nat
      BY <1>1, <3>1
    <3> QED BY <3>1, <3>2
  <2>2. ASSUME NEW k \in Nat, k \in H PROVE k + 1 \in H
    <3>1. SUFFICES ASSUME k + 1 <= n PROVE s[n - (k + 1)] + t[k + 1] = s[n]
      OBVIOUS
    <3> DEFINE m == n - k
    <3>2. /\ m \in 1 .. n /\ m - 1 = n - (k + 1) /\ m - 1 \in 0 .. n /\ m \in 0 .. n
          /\ k + 1 \in 1 .. n /\ k \in 0 .. n /\ (k + 1) - 1 = k /\ n + 1 - (k + 1) = m
      BY <3>1
    <3>3. s[m] + t[k] = s[n]
      BY <2>2, <3>1
    <3> HIDE DEF m
    <3>4. s[m] = s[m - 1] + w[m] /\ t[k + 1] = t[k] + u[k + 1]
      BY <3>2 DEF Sums
    <3>5. u[k + 1] = w[m] /\ w[m] \in Nat
      BY <1>3, <3>2 DEF Mirrored
    <3>6. s[m - 1] \in Nat /\ t[k] \in Nat
      BY <1>1, <3>2
    <3>7. s[m - 1] + t[k + 1] = s[m] + t[k]
      BY <3>4, <3>5, <3>6
    <3> QED BY <3>2, <3>3, <3>7
  <2>3. Nat \subseteq H
    <3> HIDE DEF H
    <3> QED BY <2>1, <2>2, List!NatInSet
  <2>4. s[n - n] + t[n] = s[n] /\ n - n = 0 /\ s[0] = 0 /\ t[n] \in Nat
    <3>1. n \in H
      BY <2>3
    <3> QED BY <1>1, <3>1 DEF Sums
  <2> QED BY <2>4
<1> QED BY <1>2, <1>3 DEF SameWeights
\* The machine reads the number that the bytes are.
LEMMA ValueIsRead ==
  ASSUME EditorSizes, EditorTypes, NEW n \in Nat, NEW big \in BOOLEAN
  PROVE  Editor!load_value(Editor!read_bytes(n, preview), big) = Editor!ValueAt(preview, n, big)
<1> DEFINE loaded == Editor!read_bytes(n, preview)
           own == Editor!endian_aware_copy(loaded, big)
           byte(k) == IF preview + k < EditorSize THEN bytes[preview + k] ELSE 0
           w == [k \in 1 .. n |-> own[k] * Editor!Place(k - 1)]
           u == [k \in 1 .. n |->
                   byte(k - 1) * Editor!Place(IF big THEN n - k ELSE k - 1)]
           S(f) == f = [k \in 0 .. Len(own) |->
                          IF k = 0 THEN 0 ELSE f[k - 1] + own[k] * Editor!Place(k - 1)]
           T(f) == f = [k \in 0 .. n |->
                          IF k = 0 THEN 0
                          ELSE f[k - 1]
                                 + byte(k - 1) * Editor!Place(IF big THEN n - k ELSE k - 1)]
           s == CHOOSE f : S(f)
           t == CHOOSE f : T(f)
<1>1. Editor!load_value(loaded, big) = s[Len(own)]
  BY DEF Editor!load_value
<1>2. Editor!ValueAt(preview, n, big) = t[n]
  BY DEF Editor!ValueAt
<1>3. \A k \in 0 .. n : byte(k) \in Nat
  <2> TAKE k \in 0 .. n
  <2>1. preview + k \in Nat
    BY DEF EditorTypes
  <2>2. preview + k < EditorSize => preview + k \in Editor!Addr
    BY <2>1 DEF Editor!Addr, EditorSizes
  <2> QED BY <2>2 DEF EditorTypes
<1>4. /\ Len(own) = n
      /\ \A k \in 1 .. n : own[k] = IF big THEN byte(n - k) ELSE byte(k - 1)
  <2>1. /\ loaded \in Seq(Nat) /\ Len(loaded) = n
        /\ \A k \in 1 .. n : loaded[k] = byte(k - 1)
    <3> DEFINE q == [k \in 1 .. n |-> byte(k - 1)]
    <3>1. ASSUME NEW k \in 1 .. n
          PROVE  (IF preview + k - 1 < EditorSize THEN bytes[preview + k - 1] ELSE 0)
                   = byte(k - 1)
      <4>1. preview + k - 1 = preview + (k - 1)
        BY DEF EditorTypes
      <4> QED BY <4>1
    <3>2. loaded = q
      BY <3>1 DEF Editor!read_bytes
    <3>3. \A k \in 1 .. n : k - 1 \in 0 .. n /\ byte(k - 1) \in Nat
      <4> TAKE k \in 1 .. n
      <4>1. k - 1 \in 0 .. n
        OBVIOUS
      <4> QED BY <1>3, <4>1
    <3> HIDE DEF loaded
    <3>4. \A k \in 1 .. n : q[k] = byte(k - 1)
      OBVIOUS
    <3>5. q \in [1 .. n -> Nat]
      BY <3>3
    <3> HIDE DEF q
    <3>6. q \in Seq(Nat) /\ Len(q) = n
      BY <3>5
    <3> QED BY <3>2, <3>4, <3>6
  <2>2. CASE big
    <3>1. own = [k \in 1 .. Len(loaded) |-> loaded[(Len(loaded) - k) + 1]]
      BY <2>2 DEF Editor!endian_aware_copy, Editor!Reverse
    <3> HIDE DEF own, loaded
    <3>2. Len(own) = n
      BY <2>1, <3>1
    <3>3. ASSUME NEW k \in 1 .. n PROVE own[k] = byte(n - k)
      <4>1. (n - k) + 1 \in 1 .. n /\ ((n - k) + 1) - 1 = n - k
        OBVIOUS
      <4>2. own[k] = loaded[(n - k) + 1]
        BY <2>1, <3>1
      <4>3. loaded[(n - k) + 1] = byte(((n - k) + 1) - 1)
        BY <2>1, <4>1
      <4> QED BY <4>1, <4>2, <4>3
    <3> QED BY <2>2, <3>2, <3>3
  <2>3. CASE ~big
    <3>1. own = loaded
      BY <2>3 DEF Editor!endian_aware_copy
    <3> HIDE DEF own, loaded
    <3> QED BY <2>1, <2>3, <3>1
  <2> QED BY <2>2, <2>3
<1> HIDE DEF own, loaded
<1>5. \A k \in 0 .. n : Editor!Place(k) \in Nat
  BY PlacesAreNumbers
<1>6. \A x, y \in Nat : x * y \in Nat
  OBVIOUS
<1>7. \A k \in 1 .. n : own[k] * Editor!Place(k - 1) \in Nat
  <2> TAKE k \in 1 .. n
  <2>1. n - k \in 0 .. n /\ k - 1 \in 0 .. n
    OBVIOUS
  <2>2. byte(n - k) \in Nat /\ byte(k - 1) \in Nat /\ Editor!Place(k - 1) \in Nat
    BY <1>3, <1>5, <2>1
  <2> HIDE DEF byte
  <2> QED BY <1>4, <1>6, <2>2
<1>8. \A k \in 1 .. n : byte(k - 1) * Editor!Place(IF big THEN n - k ELSE k - 1) \in Nat
  <2> TAKE k \in 1 .. n
  <2>1. n - k \in 0 .. n /\ k - 1 \in 0 .. n
    OBVIOUS
  <2>2. byte(k - 1) \in Nat /\ Editor!Place(IF big THEN n - k ELSE k - 1) \in Nat
    BY <1>3, <1>5, <2>1
  <2> HIDE DEF byte
  <2> QED BY <1>6, <2>2
<1>9. w \in [1 .. n -> Nat] /\ \A k \in 1 .. n : w[k] = own[k] * Editor!Place(k - 1)
  BY <1>7
<1>10. /\ u \in [1 .. n -> Nat]
       /\ \A k \in 1 .. n :
            u[k] = byte(k - 1) * Editor!Place(IF big THEN n - k ELSE k - 1)
  BY <1>8
<1>11. SameWeights(u, w, n)
  <2>1. CASE big
    <3>1. ASSUME NEW k \in 1 .. n PROVE u[k] = w[n + 1 - k]
      <4>1. n + 1 - k \in 1 .. n /\ (n + 1 - k) - 1 = n - k /\ n - (n + 1 - k) = k - 1
        OBVIOUS
      <4>2. own[n + 1 - k] = byte(k - 1)
        BY <1>4, <2>1, <4>1
      <4>3. w[n + 1 - k] = own[n + 1 - k] * Editor!Place(n - k)
        BY <1>9, <4>1
      <4> HIDE DEF w, u, byte
      <4> QED BY <1>10, <2>1, <4>2, <4>3
    <3> HIDE DEF w, u
    <3> QED BY <3>1 DEF Mirrored, SameWeights
  <2>2. CASE ~big
    <3> HIDE DEF w, u, byte
    <3>1. ASSUME NEW k \in 1 .. n PROVE u[k] = w[k]
      BY <1>4, <1>9, <1>10, <2>2
    <3> QED BY <3>1 DEF SameWeights
  <2> QED BY <2>1, <2>2
<1> HIDE DEF w, u, byte
<1>12. Sums(s, w, n)
  <2>1. PICK f : f = [k \in 0 .. n |-> IF k = 0 THEN 0 ELSE f[k - 1] + w[k]]
    BY <1>9, SumsExist
  <2>2. \A k \in 0 .. n : k # 0 => w[k] = own[k] * Editor!Place(k - 1)
    BY <1>9
  <2>3. S(f)
    BY <1>4, <2>1, <2>2
  <2>4. S(s)
    BY <2>3
  <2> HIDE DEF s
  <2> QED BY <1>4, <1>9, <2>4 DEF Sums
<1>13. Sums(t, u, n)
  <2>1. PICK f : f = [k \in 0 .. n |-> IF k = 0 THEN 0 ELSE f[k - 1] + u[k]]
    BY <1>10, SumsExist
  <2>2. \A k \in 0 .. n :
          k # 0 => u[k] = byte(k - 1) * Editor!Place(IF big THEN n - k ELSE k - 1)
    BY <1>10
  <2>3. T(f)
    BY <2>1, <2>2
  <2>4. T(t)
    BY <2>3
  <2> HIDE DEF t
  <2>5. t[0] = 0
    BY <2>4
  <2>6. ASSUME NEW k \in 1 .. n PROVE t[k] = t[k - 1] + u[k]
    <3>1. k \in 0 .. n /\ k # 0
      OBVIOUS
    <3>2. t[k] = t[k - 1] + byte(k - 1) * Editor!Place(IF big THEN n - k ELSE k - 1)
      BY <2>4, <3>1
    <3> QED BY <2>2, <3>1, <3>2
  <2> QED BY <2>5, <2>6 DEF Sums
<1> HIDE DEF s, t
<1>14. s[n] = t[n]
  <2>1. w \in [1 .. n -> Nat] /\ u \in [1 .. n -> Nat]
    BY <1>9, <1>10
  <2> QED BY <1>11, <1>12, <1>13, <2>1, SumsAreSame
<1> QED BY <1>1, <1>2, <1>4, <1>14 DEF loaded

\* What the table and the segment below it show is the memory.
LEMMA ViewHolds ==
  ASSUME EditorSizes, EditorTypes PROVE Editor!ViewIsMemory
<1>1. ASSUME Len(Editor!Clipped) = 1, NEW a \in Editor!RowCells(scroll)
      PROVE  /\ Editor!CellByte(Editor!Clipped, a) = bytes[a]
             /\ Editor!Highlight(Editor!Clipped, a) = Editor!get_highlight_type(a)
  <2>1. a \in Editor!Addr /\ a \div columns = scroll
    BY DEF Editor!RowCells, Editor!Row
  <2>2. Editor!CellByte(Editor!Clipped, a) = bytes[a]
    BY <1>1, <2>1, CellHasByte
  <2>3. Editor!Highlight(Editor!Clipped, a) = Editor!get_highlight_type(a)
    BY <1>1 DEF Editor!Highlight
  <2> QED BY <2>2, <2>3
<1>2. \A n \in 1 .. PreviewSize : n \in Nat
  BY DEF EditorSizes
<1>3. \A n \in 1 .. PreviewSize, big \in BOOLEAN :
        Editor!load_value(Editor!read_bytes(n, preview), big) = Editor!ValueAt(preview, n, big)
  BY <1>2, ValueIsRead
<1> QED BY <1>1, <1>3 DEF Editor!ViewIsMemory

\* What digits are worth is a number.
LEMMA ToByteIsNumber ==
  ASSUME EditorSizes, NEW digits \in Seq(Nat)
  PROVE  Editor!ToByte(digits) \in Nat
<1> DEFINE n == Len(digits)
           B == Editor!Base
           P(f) == f = [k \in 0 .. n |-> IF k = 0 THEN 0 ELSE f[k - 1] * B + digits[k]]
<1>1. B \in Nat
  <2>1. B \in 2 .. EditorRadix /\ EditorRadix \in Nat
    BY DEF EditorSizes, Editor!Base
  <2> QED BY <2>1
<1>2. n \in Nat /\ digits \in [1 .. n -> Nat]
  OBVIOUS
<1> HIDE DEF B
<1>3. PICK f : Steps(f, n, 0, B, digits)
  BY <1>1, <1>2, StepsExist
<1>4. P(f)
  <2>1. ASSUME NEW k \in 0 .. n
        PROVE  f[k] = IF k = 0 THEN 0 ELSE f[k - 1] * B + digits[k]
    <3>1. k = 0 \/ k \in 1 .. n
      BY <1>2
    <3> QED BY <1>3, <3>1 DEF Steps
  <2>2. DOMAIN f = 0 .. n /\ f = [k \in 0 .. n |-> f[k]]
    BY <1>3 DEF Steps
  <2> QED BY <2>1, <2>2
<1> DEFINE g == CHOOSE x : P(x)
<1>5. P(g)
  BY <1>4
<1>6. Editor!ToByte(digits) = g[n]
  BY DEF Editor!ToByte, B
<1> HIDE DEF g
<1> DEFINE H == {k \in Nat : k <= n => g[k] \in Nat}
<1>7. 0 \in H
  BY <1>2, <1>5
<1>8. ASSUME NEW k \in Nat, k \in H PROVE k + 1 \in H
  <2>1. SUFFICES ASSUME k + 1 <= n PROVE g[k + 1] \in Nat
    OBVIOUS
  <2>2. g[k] \in Nat /\ digits[k + 1] \in Nat
    BY <1>2, <1>8, <2>1
  <2>3. g[k + 1] = g[k] * B + digits[k + 1]
    BY <1>2, <1>5, <2>1
  <2>4. \A x, y, z \in Nat : x * y + z \in Nat
    OBVIOUS
  <2>5. g[k] * B + digits[k + 1] \in Nat
    BY ONLY <1>1, <2>2, <2>4, Zenon
  <2> QED BY ONLY <2>3, <2>5
<1>9. Nat \subseteq H
  <2> HIDE DEF H
  <2> QED BY <1>7, <1>8, List!NatInSet
<1> QED BY <1>2, <1>6, <1>9

\* Where the mouse may be.
LEMMA MouseIsSomewhere ==
  ASSUME EditorSizes, EditorTypes, NEW mouse \in Editor!Mouse
  PROVE  mouse.at \in Nat /\ (mouse = Editor!Nothing => mouse.on = "nothing")
<1>1. CASE mouse \in {Editor!Nothing, [on |-> "void", at |-> c_max_addr]}
  BY <1>1 DEF Editor!Nothing, EditorSizes
<1>2. CASE mouse \in {[on |-> IF a = editing THEN "field" ELSE "cell", at |-> a] :
                        a \in Editor!RowCells(scroll)}
  <2>1. PICK a \in Editor!Addr : mouse = [on |-> IF a = editing THEN "field" ELSE "cell", at |-> a]
    BY <1>2 DEF Editor!RowCells
  <2>2. a \in Nat
    BY DEF Editor!Addr
  <2>3. mouse.at = a /\ mouse.on \in {"field", "cell"}
    BY <2>1
  <2> QED BY <2>2, <2>3 DEF Editor!Nothing
<1>3. CASE mouse \in {[on |-> "ascii", at |-> (scroll * columns) + n] : n \in 0 .. columns - 1}
  <2>1. PICK n \in 0 .. columns - 1 : mouse = [on |-> "ascii", at |-> (scroll * columns) + n]
    BY <1>3
  <2>2. (scroll * columns) + n \in Nat
    BY DEF EditorTypes
  <2> QED BY <2>1, <2>2 DEF Editor!Nothing
<1> QED BY <1>1, <1>2, <1>3 DEF Editor!Mouse

\* The cell whose field a frame meets.
LEMMA EditedIsMet ==
  ASSUME EditorSizes, EditorTypes, NEW mouse
  PROVE  /\ Editor!Edited \in Editor!Addr \cup {c_max_addr}
         /\ Editor!Met(mouse) =>
              /\ Editor!Edited \in Editor!Addr /\ Editor!Edited # c_max_addr
              /\ Len(Editor!Clipped) = 1 => Editor!Edited \div columns = scroll
<1>1. Editor!Edited \in Editor!Addr \cup {c_max_addr}
  BY DEF EditorSizes, EditorTypes, Editor!Addr, Editor!Edited
<1>2. Len(Editor!Clipped) = 1 => Editor!Clipped = <<scroll>>
  BY DEF Editor!Clipped
<1>3. Editor!Met(mouse) /\ Len(Editor!Clipped) = 1 => Editor!Edited \div columns = scroll
  BY <1>2 DEF Editor!Met, Editor!Range, Editor!Row
<1> QED BY <1>1, <1>3 DEF Editor!Met

\* What the field of the edited cell holds: the byte that was read there, all of it selected;
\* or, if it has the keyboard, what the user made of its text.
LEMMA FieldIsText ==
  ASSUME EditorSizes, EditorTypes, NEW mouse, NEW readonly \in BOOLEAN,
         NEW field \in Editor!Fields(mouse, readonly), Editor!Met(mouse)
  PROVE  /\ field.text \in Seq(Nat) /\ field.selected \in BOOLEAN
         /\ field.place >= 2 => ~field.selected /\ Len(field.text) >= 2
         /\ field.selected =>
              field.text = Editor!Digits(Editor!CellByte(Editor!Clipped, Editor!Edited))
         /\ ~field.selected => Editor!Kept(mouse, readonly)
<1> DEFINE byte == Editor!CellByte(Editor!Clipped, Editor!Edited)
           reread == [text |-> Editor!Digits(byte), selected |-> TRUE, place |-> -1]
<1>1. byte \in Nat
  BY CellHasByte, EditedIsMet
<1> HIDE DEF byte
<1>2. CASE field = reread
  <2>1. field.text = Editor!Digits(byte) /\ field.selected = TRUE /\ field.place = -1
    BY <1>2
  <2>2. Editor!Digits(byte) \in Seq(Nat) /\ ~(-1 >= 2)
    BY <1>1, DigitsAreNumbers
  <2> QED BY <2>1, <2>2 DEF byte
<1>3. CASE field # reread
  <2>1. /\ Editor!Kept(mouse, readonly)
        /\ field \in UNION {[text : {t}, selected : {FALSE}, place : {-1, Len(t)}] :
                              t \in Editor!Texts(readonly)}
    BY <1>3 DEF Editor!Fields, byte
  <2>2. PICK t \in Editor!Texts(readonly) :
          field \in [text : {t}, selected : {FALSE}, place : {-1, Len(t)}]
    BY <2>1
  <2>3. field.text = t /\ field.selected = FALSE /\ field.place \in {-1, Len(t)}
    BY <2>2
  <2>4. t \in Seq(Nat)
    <3>1. CASE t = text
      BY <3>1 DEF EditorTypes
    <3>2. CASE t # text
      <4> DEFINE S == Editor!Range(text) \cup known \cup Typable
      <4>1. t \in Editor!SeqOf(S, Longest)
        BY <3>2 DEF Editor!Texts
      <4>2. S \subseteq Nat
        <5>1. Editor!Range(text) \subseteq Nat
          BY DEF EditorTypes, Editor!Range
        <5>2. known \subseteq Nat /\ Typable \subseteq Nat
          BY DEF EditorTypes, EditorSizes
        <5> QED BY <5>1, <5>2
      <4> HIDE DEF S
      <4>3. t \in UNION {[1 .. m -> S] : m \in 0 .. Longest}
        BY <4>1 DEF Editor!SeqOf
      <4>4. PICK m \in 0 .. Longest : t \in [1 .. m -> S]
        BY <4>3
      <4>5. m \in Nat
        BY DEF EditorSizes
      <4>6. t \in [1 .. m -> Nat]
        BY <4>2, <4>4
      <4>7. \A i \in Nat : [1 .. i -> Nat] \subseteq Seq(Nat)
        OBVIOUS
      <4> QED BY ONLY <4>5, <4>6, <4>7
    <3> QED BY <3>1, <3>2
  <2>5. field.place >= 2 => Len(field.text) >= 2
    <3>1. ~(-1 >= 2)
      OBVIOUS
    <3> QED BY ONLY <2>3, <3>1
  <2>6. field.text \in Seq(Nat) /\ ~field.selected /\ field.selected \in BOOLEAN
    BY ONLY <2>3, <2>4
  <2> QED BY ONLY <2>1, <2>5, <2>6
<1> QED BY <1>2, <1>3

WrittenIsEntered ==
  bytes' # bytes /\ ~apart /\ ~apart' =>
    /\ ~const' /\ Len(entered') >= 2 /\ Editor!Range(entered') \subseteq known'
    /\ \A a \in Editor!Addr : bytes'[a] # bytes[a] =>
         a = focus /\ bytes'[a] = Editor!ToByte(entered')

\* A frame keeps the invariant, and writes what was entered.
LEMMA EditorFrame ==
  ASSUME EditorSizes, EditorIInv, NEW moved \in Nat, NEW enter \in BOOLEAN,
         NEW mouse \in Editor!Mouse, NEW go \in Nat, NEW at \in Nat, NEW readonly \in BOOLEAN,
         Editor!Frame(moved, enter, mouse, go, at, readonly)
  PROVE  EditorIInv' /\ WrittenIsEntered
<1>1. PICK field \in Editor!Fields(mouse, readonly) :
        LET cell == Editor!Cell(field, enter, mouse, readonly)
        IN  /\ Editor!Drawn(cell, mouse, readonly)
            /\ Editor!Reaction(cell, moved, mouse, go, readonly)
            /\ entered' = IF bytes' # bytes THEN field.text ELSE <<>>
  BY DEF Editor!Frame
<1> DEFINE e == Editor!Edited
           met == Editor!Met(mouse)
           keeps == Editor!Kept(mouse, readonly)
           cell == Editor!Cell(field, enter, mouse, readonly)
           byte == Editor!CellByte(Editor!Clipped, e)
           next1 == CASE cell.dropped -> c_max_addr [] cell.early -> mouse.at [] OTHER -> moved
           advance == cell.has /\ field.place >= 2 /\ next1 = c_max_addr
           ascii == mouse.on = "ascii"
           next == IF mouse.on = "cell" THEN mouse.at ELSE next1
           here == IF ascii THEN mouse.at ELSE IF cell.dropped THEN c_max_addr ELSE e
           forward == advance /\ here + 1 < EditorSize
           jumps == go < EditorSize \/ forward \/ next # c_max_addr \/ ascii
           written == advance /\ ~readonly /\ Editor!ToByte(field.text) < EditorRadix
<1>2. EditorTypes /\ TextIsKnown
  BY DEF EditorIInv
<1>3. /\ c_max_addr \in Nat /\ c_max_addr >= EditorSize /\ EditorSize \in Nat
      /\ c_max_addr \notin Editor!Addr
  BY DEF EditorSizes, Editor!Addr
<1>4. /\ cell.at = e /\ cell.field = field
      /\ cell.asks => met
      /\ cell.has => met
      /\ cell.stays => cell.has
      /\ keeps => cell.has /\ focus = e /\ const = readonly
  BY DEF Editor!Cell, Editor!Kept, Editor!Begun
<1>5. /\ const' = readonly
      /\ focus' = IF cell.asks \/ cell.stays THEN e ELSE c_max_addr
      /\ text' = CASE cell.stays              -> field.text
                   [] ~cell.stays /\ cell.asks -> Editor!Digits(byte)
                   [] OTHER                    -> <<>>
      /\ selected' = IF cell.stays THEN field.selected ELSE cell.asks
      /\ apart' = (Len(Editor!Clipped) = 2 \/ (apart /\ focus' = focus))
      /\ known' = IF ~cell.has /\ ~cell.asks THEN {}
                  ELSE Editor!Range(Editor!Digits(bytes[e])) \cup
                       (IF keeps THEN known ELSE {}) \cup
                       (IF field.selected THEN {}
                        ELSE Editor!Range(field.text) \ Editor!Range(text))
  BY <1>1, <1>4 DEF Editor!Drawn
<1>6. /\ bytes' = IF written THEN [bytes EXCEPT ![e] = Editor!ToByte(field.text)] ELSE bytes
      /\ editing' = CASE go < EditorSize -> go
                      [] go >= EditorSize /\ forward -> here + 1
                      [] go >= EditorSize /\ ~forward /\ next # c_max_addr -> next
                      [] OTHER -> here
      /\ preview' = IF jumps THEN editing'
                    ELSE IF preview >= EditorSize THEN c_max_addr ELSE preview
      /\ acquire' = (jumps \/ (~cell.met /\ acquire))
  <2>1. Editor!Reaction(cell, moved, mouse, go, readonly)
    BY <1>1
  <2> HIDE DEF cell, e
  <2>2. bytes' = IF written THEN [bytes EXCEPT ![e] = Editor!ToByte(field.text)] ELSE bytes
    BY <1>4, <2>1 DEF Editor!Reaction, Editor!cursor_at_end
  <2>3. editing' = CASE go < EditorSize -> go
                     [] go >= EditorSize /\ forward -> here + 1
                     [] go >= EditorSize /\ ~forward /\ next # c_max_addr -> next
                     [] OTHER -> here
    BY <1>4, <2>1 DEF Editor!Reaction, Editor!cursor_at_end
  <2>4. preview' = IF jumps THEN editing'
                   ELSE IF preview >= EditorSize THEN c_max_addr ELSE preview
    BY <1>4, <2>1 DEF Editor!Reaction, Editor!cursor_at_end
  <2>5. acquire' = (jumps \/ (~cell.met /\ acquire))
    BY <1>4, <2>1 DEF Editor!Reaction, Editor!cursor_at_end
  <2> QED BY <2>2, <2>3, <2>4, <2>5
<1>7. /\ scroll' = CASE go < EditorSize -> go \div columns
                     [] go >= EditorSize /\ at < EditorSize -> at \div columns
                     [] OTHER -> scroll
      /\ columns' = columns
  BY DEF Editor!Frame, Editor!Row
<1>8. entered' = IF bytes' # bytes THEN field.text ELSE <<>>
  BY <1>1
<1>9. /\ e \in Editor!Addr \cup {c_max_addr}
      /\ met => /\ e \in Editor!Addr /\ e # c_max_addr
                /\ Len(Editor!Clipped) = 1 => e \div columns = scroll
  BY <1>2, EditedIsMet
<1>10. met => /\ field.text \in Seq(Nat) /\ field.selected \in BOOLEAN
              /\ field.place >= 2 => ~field.selected /\ Len(field.text) >= 2
              /\ field.selected => field.text = Editor!Digits(byte)
              /\ ~field.selected => keeps
  BY <1>2, FieldIsText
<1>11. mouse.at \in Nat
  BY <1>2, MouseIsSomewhere
<1>12. /\ Len(Editor!Clipped) \in {1, 2}
       /\ met => byte \in Nat /\ bytes[e] \in Nat
                   /\ (Len(Editor!Clipped) = 1 => byte = bytes[e])
  <2>1. Len(Editor!Clipped) \in {1, 2}
    BY DEF Editor!Clipped
  <2>2. ASSUME met PROVE byte \in Nat /\ (Len(Editor!Clipped) = 1 => byte = bytes[e])
    BY <1>2, <1>9, <2>2, CellHasByte
  <2>3. met => bytes[e] \in Nat
    BY <1>2, <1>9 DEF EditorTypes
  <2> QED BY <2>1, <2>2, <2>3
<1>13. cell.met \in BOOLEAN /\ cell.asks \in BOOLEAN
  BY <1>2 DEF Editor!Cell, Editor!Met, EditorTypes
<1> HIDE DEF e, met, keeps, cell, byte
\* The digits that the field shows while it is in view.
<1>14. ~apart' /\ met /\ (keeps => ~apart) /\ (cell.has \/ cell.asks) =>
         /\ Editor!Range(field.text) \subseteq known'
         /\ Editor!Range(Editor!Digits(byte)) \subseteq known'
  <2> SUFFICES ASSUME ~apart', met, keeps => ~apart, cell.has \/ cell.asks
               PROVE  /\ Editor!Range(field.text) \subseteq known'
                      /\ Editor!Range(Editor!Digits(byte)) \subseteq known'
    OBVIOUS
  <2>1. byte = bytes[e]
    BY <1>5, <1>12
  <2>2. Editor!Range(Editor!Digits(byte)) \subseteq known'
    BY <1>5, <2>1
  <2>3. field.selected => Editor!Range(field.text) \subseteq known'
    BY <1>10, <2>2
  <2>4. ASSUME ~field.selected PROVE Editor!Range(field.text) \subseteq known'
    <3>1. keeps /\ focus # c_max_addr
      BY <1>3, <1>4, <1>9, <1>10, <2>4
    <3>2. Editor!Range(text) \subseteq known
      BY <1>2, <3>1 DEF TextIsKnown
    <3>3. known \subseteq known'
      BY <1>5, <3>1
    <3>4. Editor!Range(field.text) \ Editor!Range(text) \subseteq known'
      BY <1>5, <2>4
    <3> QED BY <3>2, <3>3, <3>4
  <2>5. field.selected \in BOOLEAN
    BY <1>10
  <2> QED BY <2>2, <2>3, <2>4, <2>5
<1>15. WrittenIsEntered
  <2> SUFFICES ASSUME bytes' # bytes, ~apart, ~apart'
               PROVE  /\ ~const' /\ Len(entered') >= 2
                      /\ Editor!Range(entered') \subseteq known'
                      /\ \A a \in Editor!Addr : bytes'[a] # bytes[a] =>
                           a = focus /\ bytes'[a] = Editor!ToByte(entered')
    BY DEF WrittenIsEntered
  <2>1. /\ cell.has /\ field.place >= 2 /\ ~readonly /\ entered' = field.text
        /\ bytes' = [bytes EXCEPT ![e] = Editor!ToByte(field.text)]
    BY <1>6, <1>8
  <2>2. met /\ keeps /\ Len(field.text) >= 2
    BY <1>4, <1>10, <2>1
  <2>3. Editor!Range(entered') \subseteq known'
    BY <1>14, <2>1, <2>2
  <2>4. ASSUME NEW a \in Editor!Addr, bytes'[a] # bytes[a]
        PROVE  a = focus /\ bytes'[a] = Editor!ToByte(entered')
    <3>1. a = e /\ bytes'[a] = Editor!ToByte(field.text)
      BY <1>2, <2>1, <2>4 DEF EditorTypes
    <3> QED BY <1>4, <2>1, <2>2, <3>1
  <2> QED BY <1>5, <2>1, <2>2, <2>3, <2>4
<1>16. TextIsKnown'
  <2> SUFFICES ASSUME focus' # c_max_addr, ~apart' PROVE Editor!Range(text') \subseteq known'
    BY DEF TextIsKnown, Editor!Range
  <2>1. (cell.asks \/ cell.stays) /\ focus' = e /\ met
    BY <1>4, <1>5
  <2>2. keeps => ~apart
    BY <1>4, <1>5, <2>1
  <2>3. text' = field.text \/ text' = Editor!Digits(byte)
    BY <1>5, <2>1
  <2>4. cell.has \/ cell.asks
    BY <1>4, <2>1
  <2> QED BY <1>14, <2>1, <2>2, <2>3, <2>4
<1>17. EditorTypes'
  <2>1. bytes' \in [Editor!Addr -> Nat]
    <3>1. written => Editor!ToByte(field.text) \in Nat
      BY <1>4, <1>10, ToByteIsNumber
    <3> HIDE DEF written
    <3> QED BY <1>2, <1>6, <3>1 DEF EditorTypes
  <2>2. next1 \in Nat /\ next \in Nat /\ here \in Nat
    BY <1>3, <1>9, <1>11 DEF Editor!Addr
  <2>3. text' \in Seq(Nat) /\ selected' \in BOOLEAN
    <3>1. met => Editor!Digits(byte) \in Seq(Nat)
      BY <1>12, DigitsAreNumbers
    <3>2. <<>> \in Seq(Nat)
      OBVIOUS
    <3> QED BY <1>4, <1>5, <1>10, <1>13, <3>1, <3>2
  <2>4. known' \subseteq Nat
    <3>1. \A s \in Seq(Nat) : Editor!Range(s) \subseteq Nat
      BY DEF Editor!Range
    <3>2. met => Editor!Range(field.text) \subseteq Nat
                   /\ Editor!Range(Editor!Digits(bytes[e])) \subseteq Nat
      BY <1>10, <1>12, <3>1, DigitsAreNumbers
    <3>3. known \subseteq Nat
      BY <1>2 DEF EditorTypes
    <3>4. CASE ~cell.has /\ ~cell.asks
      BY <1>5, <3>4
    <3>5. CASE cell.has \/ cell.asks
      BY <1>4, <1>5, <3>2, <3>3, <3>5
    <3> QED BY <3>4, <3>5
  <2> HIDE DEF next1, next, here, advance
  <2>5. editing' \in Nat
    BY <1>3, <1>6, <2>2
  <2>6. preview' \in Nat
    BY <1>2, <1>3, <1>6, <2>5 DEF EditorTypes
  <2>7. scroll' \in Nat /\ columns' \in {1, 2}
    <3>1. columns \in {1, 2} /\ scroll \in Nat
      BY <1>2 DEF EditorTypes
    <3>2. go \div columns \in Nat /\ at \div columns \in Nat
      BY <3>1
    <3> QED BY <1>3, <1>7, <3>1, <3>2
  <2>8. focus' \in Editor!Addr \cup {c_max_addr}
    BY <1>5, <1>9
  <2>9. const' \in BOOLEAN /\ acquire' \in BOOLEAN /\ apart' \in BOOLEAN
    <3>1. acquire \in BOOLEAN /\ apart \in BOOLEAN
      BY <1>2 DEF EditorTypes
    <3> HIDE DEF jumps
    <3>2. jumps \in BOOLEAN
      BY DEF jumps, forward, advance, ascii
    <3> QED BY <1>5, <1>6, <1>13, <3>1, <3>2
  <2> QED BY <2>1, <2>3, <2>4, <2>5, <2>6, <2>7, <2>8, <2>9 DEF EditorTypes, Editor!Addr
<1> QED BY <1>15, <1>16, <1>17 DEF EditorIInv

LEMMA EditorInitial == ASSUME EditorSizes PROVE Editor!EditorInit => EditorIInv
<1> SUFFICES ASSUME Editor!EditorInit PROVE EditorIInv
  OBVIOUS
<1>1. c_max_addr \in Nat /\ EditorSize \in Nat /\ EditorRadix \in Nat \ {0}
  BY DEF EditorSizes
<1>2. bytes \in [Editor!Addr -> Nat]
  <2>1. \A a \in Editor!Addr : a % EditorRadix \in Nat
    BY <1>1 DEF Editor!Addr
  <2> QED BY <2>1 DEF Editor!EditorInit
<1>3. /\ columns = 2 /\ const = FALSE /\ scroll = 0
      /\ editing = c_max_addr /\ preview = c_max_addr /\ acquire = FALSE
      /\ focus = c_max_addr /\ selected = FALSE /\ apart = FALSE
      /\ text = <<>> /\ known = {}
  BY DEF Editor!EditorInit
<1>4. <<>> \in Seq(Nat)
  OBVIOUS
<1> QED BY <1>1, <1>2, <1>3, <1>4 DEF EditorIInv, EditorTypes, TextIsKnown

\* A step of the editor keeps the invariant, and writes what was entered.
LEMMA EditorStep ==
  ASSUME EditorSizes, EditorIInv, [Editor!EditorNext]_(Editor!editorVars)
  PROVE  EditorIInv' /\ WrittenIsEntered
<1>1. c_max_addr \in Nat /\ EditorSize \in Nat /\ Editor!Nothing \in Editor!Mouse
  BY DEF EditorSizes, Editor!Mouse
<1>2. CASE \E moved \in {c_max_addr} \cup Editor!Arrows, enter \in BOOLEAN,
              readonly \in BOOLEAN :
             Editor!Frame(moved, enter, Editor!Nothing, c_max_addr, c_max_addr, readonly)
  <2>1. PICK moved \in {c_max_addr} \cup Editor!Arrows, enter \in BOOLEAN,
             readonly \in BOOLEAN :
          Editor!Frame(moved, enter, Editor!Nothing, c_max_addr, c_max_addr, readonly)
    BY <1>2
  <2>2. moved \in Nat
    BY <1>1 DEF Editor!Arrows, Editor!Addr
  <2> QED BY <1>1, <2>1, <2>2, EditorFrame
<1>3. CASE \E mouse \in Editor!Mouse, go \in {c_max_addr, 1, EditorSize},
              at \in {c_max_addr, 1}, readonly \in BOOLEAN :
             Editor!Frame(c_max_addr, FALSE, mouse, go, at, readonly)
  <2>1. PICK mouse \in Editor!Mouse, go \in {c_max_addr, 1, EditorSize},
             at \in {c_max_addr, 1}, readonly \in BOOLEAN :
          Editor!Frame(c_max_addr, FALSE, mouse, go, at, readonly)
    BY <1>3
  <2>2. go \in Nat /\ at \in Nat /\ c_max_addr \in Nat /\ FALSE \in BOOLEAN
    BY <1>1
  <2> QED BY ONLY EditorSizes, EditorIInv, <2>1, <2>2, EditorFrame
<1>4. CASE \E row \in 0 .. EditorSize : Editor!Scroll(row)
  <2>1. /\ scroll' \in Nat
        /\ UNCHANGED <<bytes, columns, const, editing, preview, acquire, marked, text, focus,
                       selected, apart, known, entered>>
    BY <1>1, <1>4 DEF Editor!Scroll
  <2> QED BY <2>1 DEF EditorIInv, EditorTypes, TextIsKnown, WrittenIsEntered, Editor!Range
<1>5. CASE \E n \in {1, 2} : Editor!SetColumns(n)
  <2>1. /\ columns' \in {1, 2} /\ scroll' = 0 /\ focus' = c_max_addr
        /\ UNCHANGED <<bytes, const, editing, preview, acquire, marked, text, focus, selected,
                       apart, known, entered>>
    BY <1>5 DEF Editor!SetColumns
  <2> QED BY <2>1 DEF EditorIInv, EditorTypes, TextIsKnown, WrittenIsEntered, Editor!Range
<1>6. CASE UNCHANGED Editor!editorVars
  <2>1. UNCHANGED <<bytes, columns, const, editing, preview, acquire, marked, scroll, text,
                    focus, selected, apart, known, entered>>
    BY <1>6 DEF Editor!editorVars
  <2> QED BY <2>1 DEF EditorIInv, EditorTypes, TextIsKnown, WrittenIsEntered, Editor!Range
<1> QED BY <1>2, <1>3, <1>4, <1>5, <1>6 DEF Editor!EditorNext

\* The editor shows what is in the memory, and reads the value under the cursor as a machine
\* of the chosen order would; and the only byte that it writes is the one whose field has the
\* keyboard, while the machine stands still, to what the field shows: two digits or more, each
\* of them one that the byte has had since the field got the keyboard or one that was entered
\* there.
THEOREM EditorIsFaithful == ASSUME EditorSizes PROVE FamilySpec => EditorIsTrue
<1>1. FamilyInit => EditorIInv
  BY EditorInitial DEF FamilyInit
<1>2. EditorIInv /\ [FamilyNext]_allVars => EditorIInv' /\ WrittenIsEntered
  <2> SUFFICES ASSUME EditorIInv, [FamilyNext]_allVars PROVE EditorIInv' /\ WrittenIsEntered
    OBVIOUS
  <2>1. [Editor!EditorNext]_(Editor!editorVars)
    BY DEF FamilyNext, KeypadStep, CoreStep, allVars, editorVars, Editor!editorVars
  <2> QED BY <2>1, EditorStep
<1>3. EditorIInv => Editor!ViewIsMemory
  BY ViewHolds DEF EditorIInv
<1>4. [FamilyNext]_allVars /\ WrittenIsEntered
        => [bytes' # bytes /\ ~apart /\ ~apart' =>
              /\ ~const' /\ Len(entered') >= 2 /\ Editor!Range(entered') \subseteq known'
              /\ \A a \in Editor!Addr : bytes'[a] # bytes[a] =>
                   a = focus /\ bytes'[a] = Editor!ToByte(entered')]_(Editor!editorVars)
  BY DEF WrittenIsEntered
<1>5. Editor!ViewIsMemory'
        => [UNCHANGED <<bytes, columns, preview, marked, scroll, focus>>
              \/ Editor!ViewIsMemory']_allVars
  OBVIOUS
<1> QED BY <1>1, <1>2, <1>3, <1>4, <1>5, PTL
        DEF FamilySpec, EditorIsTrue, Editor!OnlyEnteredIsWritten
=============================================================================
