--------------------------- MODULE ApplicationHost ---------------------------
(***************************************************************************)
(* The main thread and the systems that it owns: a map from id to system   *)
(* and, beside it, the list of the ids by the time of their last focus     *)
(* (frontend/ApplicationHost.{hpp,cpp}, components/SimpleMRU.hpp).  The    *)
(* two are changed in different places of a frame and must agree wherever  *)
(* the front of the list is looked up in the map.  The systems' workers    *)
(* meet the host only in the flag HIDDEN, which a reset clears.            *)
(***************************************************************************)
EXTENDS Lists, SequencesExt

CONSTANT MaxSystems   \* bound: how many systems are ever made

ASSUME SystemsAssumption == MaxSystems \in Nat \ {0}

VARIABLES
  phase,       \* where the main thread is in its frame
  nextId,      \* instance_counter
  systems,     \* the keys of m_systems
  focus_mru,   \* m_focus_mru
  visible,     \* the systems with m_is_viewport_visible
  focused,     \* the systems with m_is_viewport_focused
  concealed,   \* the systems with the flag HIDDEN
  resetting,   \* the systems with the flag RESET
  minimized,   \* s_application_minimized
  mayRun       \* history: the system in front at the last flag pass, and those
               \* that were started or finished a reset since

windowVars == <<visible, focused>>
flagVars == <<concealed, resetting>>
deskVars == <<phase, nextId, systems, focus_mru, windowVars, flagVars, minimized,
          mayRun>>

Id == 1..MaxSystems

First(list) == IF list = <<>> THEN {} ELSE {Head(list)}

InFront == First(focus_mru)
-----------------------------------------------------------------------------
(* Plausible mistakes.                                                     *)

\* Insert: the id changes places with the front.
InsertSwapping(mru, id) ==
  IF Contains(mru, id)
  THEN [i \in DOMAIN mru |-> IF i = 1 THEN id ELSE IF mru[i] = id THEN mru[1] ELSE mru[i]]
  ELSE <<id>> \o mru

\* PruneSystems: the list is left alone...
PruneMapOnly ==
  /\ phase = "prune"
  /\ phase' = "focus"
  /\ systems' = systems \cap visible
  /\ UNCHANGED <<nextId, focus_mru, windowVars, flagVars, minimized, mayRun>>
-----------------------------------------------------------------------------
HostInit ==
  /\ phase = "hotkeys"
  /\ nextId = 1
  /\ systems = {} /\ focus_mru = <<>>
  /\ visible = {} /\ focused = {}
  /\ concealed = {} /\ resetting = {}
  /\ minimized = FALSE
  /\ mayRun = {}

\* SimpleMRU::insert() and erase() of a list without a limit.
Erase(mru, id) == Filtered(mru, Id \ {id})
Insert(mru, id) == <<id>> \o Erase(mru, id)

\* unload_system_instance(): the system in front, is deleted.
Unload ==
  /\ systems' = systems \ InFront
  /\ focus_mru' = Erase(focus_mru, Head(focus_mru))

\* What a system knew of itself is deleted with it.
Forget(ids) ==
  /\ visible' = visible \ ids /\ focused' = focused \ ids
  /\ concealed' = concealed \ ids /\ resetting' = resetting \ ids /\ mayRun' = mayRun \ ids

\* Between two frames the window is minimized or restored.
Minimize ==
  /\ phase = "hotkeys"
  /\ minimized' = ~minimized
  /\ UNCHANGED <<phase, nextId, systems, focus_mru, windowVars, flagVars, mayRun>>

\* handle_main_hotkeys(): nothing of note, Shift+Escape, or F8.
Hotkeys ==
  /\ phase = "hotkeys"
  /\ phase' = "flags"
  /\ \/ UNCHANGED <<systems, focus_mru, windowVars, flagVars, mayRun>>
     \/ focus_mru # <<>> /\ Unload /\ Forget(InFront)
     \/ /\ focus_mru # <<>>
        /\ resetting' = resetting \cup InFront
        /\ UNCHANGED <<systems, focus_mru, windowVars, concealed, mayRun>>
  /\ UNCHANGED <<nextId, minimized>>

\* The system that toggle_system_runtime() shows.
Shown == IF minimized THEN {} ELSE InFront

SetFlags ==
  /\ phase = "flags"
  /\ phase' = "render"
  /\ concealed' = (concealed \cup systems) \ Shown
  /\ mayRun' = Shown
  /\ UNCHANGED <<nextId, systems, focus_mru, windowVars, resetting, minimized>>

\* What the user does to the windows while a frame is rendered: a viewport is
\* closed, or has the focus; a system is reset from its menu.
CloseViewport(id) ==
  /\ phase = "render"
  /\ id \in systems \cap visible
  /\ visible' = visible \ {id}
  /\ UNCHANGED <<phase, nextId, systems, focus_mru, focused, flagVars, minimized,
                 mayRun>>

FocusViewport(id) ==
  /\ phase = "render"
  /\ id \in systems \cap visible
  /\ focused' = focused \cup {id}
  /\ UNCHANGED <<phase, nextId, systems, focus_mru, visible, flagVars, minimized,
                 mayRun>>

MenuReset(id) ==
  /\ phase = "render"
  /\ id \in systems \cap visible
  /\ resetting' = resetting \cup {id}
  /\ UNCHANGED <<phase, nextId, systems, focus_mru, windowVars, concealed, minimized,
                 mayRun>>

\* The dialog makes a system, beside or instead of the one in front:
\* unload_system_instance(), insert_system_instance()
NewSystem ==
  /\ phase = "render"
  /\ nextId \in Id
  /\ nextId' = nextId + 1
  /\ \E gone \in {{}, InFront} :
       /\ systems' = (systems \ gone) \cup {nextId}
       /\ focus_mru' = Insert(Filtered(focus_mru, Id \ gone), nextId)
       /\ visible' = (visible \ gone) \cup {nextId}
       /\ focused' = (focused \ gone) \cup {nextId}
       /\ concealed' = concealed \ gone /\ resetting' = resetting \ gone
       /\ mayRun' = (mayRun \ gone) \cup {nextId}
  /\ UNCHANGED <<phase, minimized>>

EndRender ==
  /\ phase = "render"
  /\ phase' = "prune"
  /\ UNCHANGED <<nextId, systems, focus_mru, windowVars, flagVars, minimized, mayRun>>

\* prune_terminated_systems()
PruneSystems ==
  /\ phase = "prune"
  /\ phase' = "focus"
  /\ systems' = systems \cap visible
  /\ focus_mru' = Filtered(focus_mru, visible)
  /\ Forget(systems \ visible)
  /\ UNCHANGED <<nextId, minimized>>

\* The first of the focused systems in the list that is not its front.
Winner == First(Filtered(focus_mru, focused \ InFront))

\* find_last_focused_system() walks the list while it moves one of its items to
\* the front, and takes the focus of all of them.
FindFocused ==
  /\ phase = "focus"
  /\ phase' = "hotkeys"
  /\ IF Winner = {} THEN UNCHANGED focus_mru
     ELSE \E id \in Winner : focus_mru' = Insert(focus_mru, id)
  /\ focused' = focused \ systems
  /\ UNCHANGED <<nextId, systems, visible, flagVars, minimized, mayRun>>

\* A worker finishes a reset: sub_system_state(NOT_RUNNING)
FinishReset(id) ==
  /\ id \in systems \cap resetting
  /\ concealed' = concealed \ {id}
  /\ resetting' = resetting \ {id}
  /\ mayRun' = mayRun \cup {id}
  /\ UNCHANGED <<phase, nextId, systems, focus_mru, windowVars, minimized>>

\* quit_application(), between two frames; the list is not cleared.
Quit ==
  /\ phase = "hotkeys"
  /\ phase' = "quit"
  /\ systems' = {}
  /\ Forget(Id)
  /\ UNCHANGED <<nextId, focus_mru, minimized>>

HostNext ==
  \/ Minimize \/ Hotkeys \/ SetFlags
  \/ \E id \in Id : CloseViewport(id) \/ FocusViewport(id) \/ MenuReset(id)
  \/ NewSystem \/ EndRender \/ PruneSystems \/ FindFocused
  \/ \E id \in Id : FinishReset(id)
  \/ Quit

HostSpec == HostInit /\ [][HostNext]_deskVars
-----------------------------------------------------------------------------
\* The list holds every system once and nothing else, at every point of a frame:
\* its front can be looked up, and a system that was closed is not.
MruIsSystems ==
  phase # "quit"
    => /\ systems = {focus_mru[i] : i \in DOMAIN focus_mru}
       /\ \A i, j \in DOMAIN focus_mru : i # j => focus_mru[i] # focus_mru[j]

\* Nothing runs in the background but a system that has just been started or
\* reset, until the host's next flag pass; and the system in front does run, from the
\* flag pass to the end of the rendering, even if it came to the front as another one
\* was replaced.
OnlyFrontRuns ==
  /\ phase # "quit" => systems \ concealed \subseteq mayRun
  /\ phase = "render" /\ ~minimized => InFront \cap concealed = {}

Before(mru, x, y) == \E i, j \in DOMAIN mru : i < j /\ mru[i] = x /\ mru[j] = y

\* The list is a memory of past focus: whatever happens to the front, the systems
\* behind it keep their order, so that closing one shows the one used before.
OrderKept ==
  \A x, y \in Id :
    Before(focus_mru', x, y) /\ x # Head(focus_mru') => Before(focus_mru, x, y)

\* After every step the list and the map agree and only the system in front is
\* emulated; and no step changes the order of the systems behind it.
HostKeepsOrder == [][MruIsSystems' /\ OnlyFrontRuns' /\ OrderKept]_deskVars
=============================================================================
