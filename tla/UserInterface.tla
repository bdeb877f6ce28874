---------------------------- MODULE UserInterface ----------------------------
(***************************************************************************)
(* The hooks of the windows and menus (frontend/UserInterface.cpp).        *)
(*                                                                         *)
(* A hook is a callable that lives as long as its owner keeps it; the      *)
(* registry has weak references only.  The main thread runs the hooks in   *)
(* every frame and holds the registry's lock while it does: what a hook or *)
(* a worker registers meanwhile goes to the overflow and is merged when    *)
(* all hooks have run, for another pass.  try_lock may also fail for no    *)
(* reason.  The registry of the windows is one list; the one of the menus  *)
(* has a list for each menu, one of which is modelled: it is open or not,  *)
(* and it is cleaned of hooks that are gone before each pass.              *)
(***************************************************************************)
EXTENDS Lists, SequencesExt, FiniteSets

CONSTANTS Hook     \* the hooks that are ever registered

VARIABLES
  kind,       \* "windows" or "menus"
  hooks,      \* HookRegistry::buffer of the registry
  overflow,   \* the same of the overflow
  offset,     \* HookRegistry::offset
  stage,      \* where the main thread is: "idle", "pass", "run", "merge"
  alive,      \* the hooks whose owner keeps them
  born,       \* history: the hooks that were ever registered
  early,      \* history: the hooks in the registry when the frame began, that still live
  ran,        \* history: how often each hook ran in this frame
  opened      \* history: the menu was open in the first pass

hookVars == <<kind, hooks, overflow, offset, stage, alive, born, early, ran, opened>>
-----------------------------------------------------------------------------
(* Plausible mistakes.                                                     *)

\* Erased: the offset moves on although the next hook moved down.
ErasedAndNext ==
  /\ hooks' = RemoveAt(hooks, offset + 1)
  /\ offset' = offset + 1

\* Merged: the overflow is cleared before it is appended.
MergedCleared ==
  /\ overflow' = <<>>
  /\ hooks' = hooks \o overflow'
-----------------------------------------------------------------------------
HooksInit ==
  /\ kind \in {"windows", "menus"}
  /\ hooks = <<>> /\ overflow = <<>> /\ offset = 0 /\ stage = "idle"
  /\ alive = {} /\ born = {} /\ early = {} /\ ran = [h \in Hook |-> 0] /\ opened = FALSE

\* register_window_impl(), register_menu_impl(): by a hook that runs, or by any other
\* thread; try_lock succeeds only if no frame's hooks are run.
Register(h) ==
  /\ h \notin born
  /\ \/ stage = "idle" /\ hooks' = Append(hooks, h) /\ UNCHANGED overflow
     \/ overflow' = Append(overflow, h) /\ UNCHANGED hooks
  /\ alive' = alive \cup {h} /\ born' = born \cup {h}
  /\ UNCHANGED <<kind, offset, stage, early, ran, opened>>

\* The owner drops its hook.
Release(h) ==
  /\ h \in alive
  /\ alive' = alive \ {h} /\ early' = early \ {h}
  /\ UNCHANGED <<kind, hooks, overflow, offset, stage, born, ran, opened>>

Merged ==
  /\ hooks' = hooks \o overflow
  /\ overflow' = <<>>

\* invoke_registered_windows(), invoke_registered_menus(): the menus merge first.
BeginHooks ==
  /\ stage = "idle"
  /\ stage' = "pass"
  /\ IF kind = "menus" THEN Merged ELSE UNCHANGED <<hooks, overflow>>
  /\ early' = Range(hooks') \cap alive
  /\ ran' = [h \in Hook |-> 0] /\ opened' = TRUE
  /\ UNCHANGED <<kind, offset, alive, born>>

\* The menus forget the hooks that are gone, without a look at the offset, and go on
\* only if the menu is open.
BeginPass ==
  /\ stage = "pass"
  /\ IF kind = "windows"
     THEN stage' = "run" /\ UNCHANGED <<hooks, opened>>
     ELSE /\ hooks' = Filtered(hooks, alive)
          /\ \/ stage' = "run" /\ UNCHANGED opened
             \/ stage' = "merge" /\ opened' = FALSE
  /\ UNCHANGED <<kind, overflow, offset, alive, born, early, ran>>

Erased ==
  /\ hooks' = RemoveAt(hooks, offset + 1)
  /\ UNCHANGED offset

Invoke ==
  /\ stage = "run" /\ offset < Len(hooks)
  /\ LET h == hooks[offset + 1]
     IN  IF h \in alive
         THEN /\ ran' = [ran EXCEPT ![h] = @ + 1]
              /\ offset' = offset + 1
              /\ UNCHANGED hooks
         ELSE Erased /\ UNCHANGED ran
  /\ UNCHANGED <<kind, overflow, stage, alive, born, early, opened>>

EndPass ==
  /\ stage = "run" /\ offset >= Len(hooks)
  /\ stage' = "merge"
  /\ UNCHANGED <<kind, hooks, overflow, offset, alive, born, early, ran, opened>>

\* merge_overflowing_windows(), merge_overflowing_menus(): another pass if there was
\* anything to merge.
MergeAndRepeat ==
  /\ stage = "merge" /\ overflow # <<>>
  /\ Merged
  /\ stage' = "pass"
  /\ UNCHANGED <<kind, offset, alive, born, early, ran, opened>>

EndHooks ==
  /\ stage = "merge" /\ overflow = <<>>
  /\ stage' = "idle" /\ offset' = 0
  /\ UNCHANGED <<kind, hooks, overflow, alive, born, early, ran, opened>>

MainNext == BeginHooks \/ BeginPass \/ Invoke \/ EndPass \/ MergeAndRepeat \/ EndHooks

HooksNext == MainNext \/ \E h \in Hook : Register(h) \/ Release(h)

HooksSpec == HooksInit /\ [][HooksNext]_hookVars
-----------------------------------------------------------------------------
\* A hook that lives is in the registry or in the overflow, once.
NoHookLost ==
  LET all == hooks \o overflow
  IN  \A h \in alive : Cardinality({k \in DOMAIN all : all[k] = h}) = 1

\* None that lives is lost, no hook runs twice in a frame, and every hook that was there when
\* the frame began and lives to its end has run in it, if its menu was open; for the windows
\* that is so for the hooks that came during the frame, too.
HooksRunOnce ==
  /\ NoHookLost
  /\ \A h \in Hook : ran[h] <= 1
  /\ stage = "merge" /\ opened => \A h \in early : ran[h] = 1
  /\ stage = "merge" /\ overflow = <<>> /\ kind = "windows" =>
       \A h \in Range(hooks) \cap alive : ran[h] = 1

\* A window's hook that lives long enough is run.
HookRuns == \A h \in Hook :
  (kind = "windows" /\ h \in alive) ~> (ran[h] > 0 \/ h \notin alive)
=============================================================================
