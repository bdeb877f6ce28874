------------------------------- MODULE Keypad -------------------------------
(***************************************************************************)
(* The hexadecimal keypad of the CHIP-8 family (IFamily_CHIP8::HexInput).  *)
(* A frame of the worker updates the bit fields from the keyboard, runs    *)
(* the program, which may start to wait for a key (Fx0A), and then offers  *)
(* a waiting program a key: one that went down in this frame, or the key   *)
(* it was given last, which repeats while it is held.                      *)
(* The fields are sets of keys; the frame counter only ever matters as the *)
(* number of frames since m_tick_last, kept up to the longest span.        *)
(***************************************************************************)
EXTENDS Naturals, FiniteSets

CONSTANTS
  Keys,         \* the keys, numbered
  FirstSpan,    \* frames before a held key repeats (20 in the code)
  RepeatSpan,   \* frames between its repetitions (5 in the code)
  NoKey         \* no key, and no number of frames

ASSUME KeyAssumption ==
  /\ Keys \subseteq Nat
  /\ \A S \in SUBSET Keys : S # {} => \E k \in S : \A j \in S : k <= j
ASSUME SpanAssumption ==
  FirstSpan \in Nat /\ RepeatSpan \in Nat /\ 0 < RepeatSpan /\ RepeatSpan <= FirstSpan

ASSUME NoKeyAssumption == NoKey \notin Nat

VARIABLES
  this, last,   \* m_keys_this, m_keys_last: the keys down in this and the last frame
  hide,         \* m_keys_hide: keys that the key tests do not report
  loop,         \* m_keys_loop: the key that repeats
  span,         \* m_tick_span
  age,          \* frames since m_tick_last
  waiting,      \* is Interrupt::INPUT pending?
  reg,          \* the register that Fx0A names
  step,         \* where the frame is: update, run, post
  before,       \* history: the keys down when the frame began
  since         \* history: for a key given to the program and held ever since,
                \* the frames since it was given; NoKey for any other

fields == <<this, last, hide, loop, span, age>>
vars == <<fields, waiting, reg, step, before, since>>

Lowest(S) == CHOOSE k \in S : \A j \in S : k <= j
Changed(S, T) == (S \ T) \cup (T \ S)
Tick(n) == IF n < FirstSpan THEN n + 1 ELSE n
-----------------------------------------------------------------------------
(* Plausible mistakes.                                                     *)

\* The keys caught before are forgotten (= for |=).
HiddenOnly(valid) == valid

\* The repetition does not wait.
ExpiredAlways == TRUE

\* The repetition never comes.
ExpiredNever == FALSE

\* The repeating key is offered before one that went down.
ValidRepeating(press) ==
  IF press \cap loop # {} THEN press \cap loop ELSE press
-----------------------------------------------------------------------------
Init ==
  /\ this = {} /\ last = {} /\ hide = {} /\ loop = {} /\ span = 0 /\ age = 0
  /\ waiting = FALSE /\ reg = NoKey
  /\ step = "update" /\ before = {} /\ since = [k \in Keys |-> NoKey]

\* update(): the keyboard's keys; whatever changed is no longer hidden and no
\* longer repeats.
Update(down) ==
  /\ step = "update"
  /\ before' = this
  /\ last' = this
  /\ this' = down
  /\ hide' = hide \ Changed(this, down)
  /\ loop' = loop \cap hide'
  /\ since' = [k \in Keys |-> IF k \in down THEN since[k] ELSE NoKey]
  /\ step' = "run"
  /\ UNCHANGED <<span, age, waiting, reg>>

\* The program runs to the end of its slice, or to an Fx0A.
Run ==
  /\ step = "run"
  /\ ~waiting
  /\ waiting' \in BOOLEAN
  /\ step' = "post"
  /\ UNCHANGED <<fields, reg, before, since>>

\* A program that waits does not run.
RunNothing ==
  /\ step = "run"
  /\ waiting
  /\ step' = "post"
  /\ UNCHANGED <<fields, waiting, reg, before, since>>

Expired == age >= span

Older == IF Expired THEN last \ loop ELSE last

Pressed == this \ Older

Valid(press) == IF press \ loop # {} THEN press \ loop ELSE loop

Hidden(valid) == hide \cup valid

Span(valid) == IF valid # loop THEN FirstSpan ELSE RepeatSpan

\* What every frame ends with: the counter goes on.
EndFrame ==
  /\ step' = "update"
  /\ UNCHANGED <<this, before>>

NotWaiting ==
  /\ step = "post" /\ ~waiting
  /\ age' = Tick(age)
  /\ since' = [k \in Keys |-> IF since[k] = NoKey THEN NoKey ELSE Tick(since[k])]
  /\ EndFrame
  /\ UNCHANGED <<last, hide, loop, span, waiting, reg>>

\* catch_press() finds no key; it may have made the repeating key look new,
\* and that stays so until the next update.
CatchNothing ==
  /\ step = "post" /\ waiting
  /\ Pressed = {}
  /\ last' = Older
  /\ age' = Tick(age)
  /\ since' = [k \in Keys |-> IF since[k] = NoKey THEN NoKey ELSE Tick(since[k])]
  /\ EndFrame
  /\ UNCHANGED <<hide, loop, span, waiting, reg>>

\* catch_press() finds keys, hides them, and gives the program the lowest.
CatchKey ==
  LET valid == Valid(Pressed)
      key == Lowest(valid)
  IN  /\ step = "post" /\ waiting
      /\ Pressed # {}
      /\ last' = Older
      /\ hide' = Hidden(valid)
      /\ span' = Span(valid)
      /\ loop' = {key}
      /\ reg' = key
      /\ waiting' = FALSE
      /\ age' = Tick(0)
      /\ since' = [k \in Keys |-> IF k = key THEN Tick(0)
                                  ELSE IF since[k] = NoKey THEN NoKey ELSE Tick(since[k])]
      /\ EndFrame

\* HexInput::reset(), in a reset of the system between two frames.
Reset ==
  /\ step = "update"
  /\ this' = {} /\ last' = {} /\ hide' = {} /\ loop' = {} /\ span' = 0 /\ age' = 0
  /\ waiting' = FALSE /\ reg' = NoKey
  /\ before' = {} /\ since' = [k \in Keys |-> NoKey]
  /\ UNCHANGED step

Frame ==
  \/ \E down \in SUBSET Keys : Update(down)
  \/ Run \/ RunNothing
  \/ NotWaiting \/ CatchNothing \/ CatchKey

Next == Frame \/ Reset

Spec == Init /\ [][Next]_vars

\* The worker's frames go on; nobody has to press a key or to reset.
FairSpec == Spec /\ WF_vars(Frame)

is_key_held(k) == k \in this \ hide
-----------------------------------------------------------------------------
\* The types of the variables.
TypeOK ==
  /\ this \subseteq Keys /\ last \subseteq Keys /\ hide \subseteq Keys
  /\ loop \subseteq Keys
  /\ span \in {0, RepeatSpan, FirstSpan}
  /\ age \in 0..FirstSpan
  /\ waiting \in BOOLEAN
  /\ reg \in Keys \cup {NoKey}
  /\ step \in {"update", "run", "post"}
  /\ before \subseteq Keys
  /\ since \in [Keys -> (0..FirstSpan) \cup {NoKey}]

\* Only keys that are down are hidden, and only a hidden key repeats: a key that
\* is released is reported again the next time it goes down.
HiddenKeysAreDown == loop \subseteq hide /\ hide \subseteq this

\* A key that Fx0A gave to the program is not reported by Ex9E and ExA1 for as
\* long as it is held.
GivenKeyIsHidden == \A k \in Keys : since[k] # NoKey => ~is_key_held(k)

\* Fx0A gives a key that went down in this very frame, or one that it gave before
\* and that was held for at least the repeat span since then.
KeyIsFreshOrRepeats ==
  [][CatchKey => \/ reg' \in this \ before
                 \/ since[reg'] # NoKey /\ since[reg'] >= RepeatSpan]_vars

\* A key that went down while the program waits is never passed over for the key
\* that repeats, and the program does not go on waiting.
NewKeyIsGiven ==
  [][step = "post" /\ step' = "update" /\ waiting /\ this \ before # {}
       => ~waiting' /\ reg' \in this \ before]_vars

\* The key that ends a wait is the right one: a new key if there is any, and never one
\* that was down all along, but to repeat.
WaitGetsItsKey == KeyIsFreshOrRepeats /\ NewKeyIsGiven

\* A program that waits while the key it was given last is still held is given
\* that key again.
HeldKeyRepeats ==
  \A k \in Keys : (waiting /\ loop = {k}) ~> (~waiting \/ loop # {k})
=============================================================================
