------------------------------- MODULE Loading -------------------------------
(***************************************************************************)
(* Which systems are offered for a file: the registry of the cores         *)
(* (systems/CoreRegistry), the requests for a file to load                 *)
(* (frontend/ApplicationHost.cpp, components/FileImage) and the list of    *)
(* candidates in the dialog (frontend/ApplicationHost_GUI.cpp).            *)
(*                                                                         *)
(* The dialog's thread and hash are in Staging, the list of recent files   *)
(* in Settings.  A candidate is referred to by its place <<family, place>> *)
(* in the list, as the code refers to it by its address.                   *)
(*                                                                         *)
(* A name is a number, its place in the alphabet.                          *)
(***************************************************************************)
EXTENDS Lists, FiniteSets

CONSTANTS Cores,    \* records [family, name, known, limit] of all cores compiled in
          Images,   \* records [path, extension, size]
          NoImage,  \* no file: none of Images
          MaxDrops  \* files that are dropped between two frames

ASSUME CoresAssumption == \A c \in Cores : c.family \in Int /\ c.name \in Int

VARIABLES
  registry,     \* the hooks, in the order of the registrations
  drops,        \* s_pending_file_drops
  result,       \* s_open_file_result
  at,           \* the main thread: "static", "events" or "rendering"
  staged,       \* SystemStaging::file_image, NoImage if it is not valid
  offered,      \* s_render_modal_open
  popup,        \* ImGui's popup "FileImageModal" is open
  listOf,       \* the file that the list was made for
  families,     \* s_list_state.families
  best_match, chosen, pending,
  clicked       \* history: a candidate was clicked since the dialog opened

request == <<drops, result>>
choice == <<chosen, pending, clicked>>
list == <<listOf, families, best_match>>
loadingVars == <<registry, request, at, staged, offered, popup, list, choice>>

NoPlace == <<0, 0>>

\* A pointer into a list that was cleared.
Dangling == <<0, 1>>

Places(fs) == UNION {{<<g, i>> : i \in DOMAIN fs[g]} : g \in DOMAIN fs}
CandidateAt(p) == families[p[1]][p[2]]

\* validate_program() of a core of the CHIP-8 or of the BytePusher family
eligible(core, f) == f.size > 0 /\ f.size <= core.limit

Key(core) == <<core.family, core.name>>
Precedes(c, d) == c.family < d.family \/ (c.family = d.family /\ c.name < d.name)
-----------------------------------------------------------------------------
(* Plausible mistakes.                                                     *)

\* candidate_core_span: in the order of the registrations.
candidate_core_span_unsorted == registry

\* Expanded: a choice, once made, stays.
ExpandedOnce == IF chosen = NoPlace THEN pending ELSE chosen
-----------------------------------------------------------------------------
(* The registry.                                                           *)

\* register_new_system_core() of a static object; their order across the source files is
\* not defined.  A family and name that is taken is refused.
register_new_system_core(core) ==
  /\ at = "static"
  /\ \A i \in DOMAIN registry : Key(registry[i]) # Key(core)
  /\ registry' = Append(registry, core)
  /\ UNCHANGED <<request, at, staged, offered, popup, list, choice>>

Main ==
  /\ at = "static"
  /\ {Key(c) : c \in Cores} = {Key(registry[i]) : i \in DOMAIN registry}
  /\ at' = "events"
  /\ UNCHANGED <<registry, request, staged, offered, popup, list, choice>>

\* std::sort()
candidate_core_span ==
  LET places == DOMAIN registry
      sorted == CHOOSE p \in [places -> places] :
                  \A i, j \in places : i < j => Precedes(registry[p[i]], registry[p[j]])
  IN  [i \in places |-> registry[sorted[i]]]
-----------------------------------------------------------------------------
(* The list.                                                               *)

\* A family begins with each candidate that is not of the family before.
Grouped(gs, c) ==
  IF gs # <<>> /\ gs[Len(gs)][1].family = c.family
  THEN [gs EXCEPT ![Len(gs)] = Append(@, c)]
  ELSE Append(gs, <<c>>)

Groups(cores) ==
  LET groups[k \in 0..Len(cores)] ==
        IF k = 0 THEN <<>> ELSE Grouped(groups[k-1], cores[k])
  IN  groups[Len(cores)]

\* std::stable_partition(): the eligible ones first
Partition(cores, f) ==
  LET front == {c \in Range(cores) : eligible(c, f)}
  IN  Filtered(cores, front) \o Filtered(cores, Range(cores) \ front)

\* The candidate that knows the extension, if no other one does.
BestMatch(fs, f) ==
  LET matches == {p \in Places(fs) : eligible(fs[p[1]][p[2]], f)
                                      /\ f.extension \in fs[p[1]][p[2]].known}
  IN IF Cardinality(matches) = 1 THEN CHOOSE p \in matches : TRUE ELSE NoPlace

Listed(f) ==
  LET groups == Groups(candidate_core_span)
  IN [g \in DOMAIN groups |-> Partition(groups[g], f)]
-----------------------------------------------------------------------------
(* Requests.                                                               *)

\* SDL_EVENT_DROP_FILE
append_pending_file_drops(f) ==
  /\ at = "events" /\ Len(drops) < MaxDrops
  /\ drops' = Append(drops, f)
  /\ UNCHANGED <<registry, result, at, staged, offered, popup, list, choice>>

\* The system's dialog may answer on a thread of its own; a later answer takes the place
\* of one that was not fetched.
set_open_file_dialog_result(f) ==
  /\ at # "static"
  /\ result' = f
  /\ UNCHANGED <<registry, drops, at, staged, offered, popup, list, choice>>

\* load_file_from_disk(): the file that is mapped is not mapped again, one that cannot be
\* mapped takes the place of the one that is, and an empty one is dropped.
load(f) ==
  IF f = staged THEN {f} ELSE IF f.size = 0 THEN {NoImage} ELSE {f, NoImage}

\* process_client_frame(), before it renders: the answer of the dialog first, of the
\* dropped files the first one only.
Requested ==
  /\ at = "events"
  /\ at' = "rendering"
  /\ \/ /\ result # NoImage
        /\ staged' \in load(result) /\ result' = NoImage
        /\ UNCHANGED drops
     \/ /\ result = NoImage /\ drops # <<>>
        /\ staged' \in load(Head(drops)) /\ drops' = <<>>
        /\ UNCHANGED result
     \/ /\ result = NoImage /\ drops = <<>>
        /\ UNCHANGED <<staged, drops, result>>
  /\ UNCHANGED <<registry, offered, popup, list, choice>>

\* The menu "Recently opened", which the open dialog covers
OpenRecent(f) ==
  /\ at = "rendering" /\ ~popup
  /\ staged' \in load(f)
  /\ UNCHANGED <<registry, request, at, offered, popup, list, choice>>
-----------------------------------------------------------------------------
(* The dialog, in every frame.                                             *)

\* Without a file it is not submitted; ImGui may then close the popup.
NoDialog ==
  /\ at = "rendering" /\ staged = NoImage
  /\ at' = "events"
  /\ popup' \in {popup, FALSE}
  /\ UNCHANGED <<registry, request, staged, offered, list, choice>>

\* refresh_candidates(); s_chosen_system still points into the list before, which may be
\* where some candidate is now.
OpenDialog ==
  /\ at = "rendering" /\ staged # NoImage /\ ~offered
  /\ offered' = TRUE /\ popup' = TRUE
  /\ listOf' = staged
  /\ families' = Listed(staged)
  /\ best_match' = BestMatch(families', staged)
  /\ pending' = best_match'
  /\ chosen' \in IF chosen = NoPlace THEN {NoPlace} ELSE {Dangling} \cup Places(families')
  /\ clicked' = FALSE
  /\ UNCHANGED <<registry, request, at, staged>>

\* s_chosen_system of this frame
Expanded == IF pending # NoPlace THEN pending ELSE chosen

Submitted == at = "rendering" /\ staged # NoImage /\ offered /\ popup

\* The dialog is drawn and nothing is clicked, or a candidate that is not expanded.
ShowDialog ==
  /\ Submitted
  /\ at' = "events"
  /\ chosen' = Expanded
  /\ \/ pending' = NoPlace /\ UNCHANGED clicked
     \/ /\ pending' \in Places(families) \ {Expanded}
        /\ clicked' = TRUE
  /\ UNCHANGED <<registry, request, staged, offered, popup, list>>

\* With the popup lost nothing is drawn.
LostDialog ==
  /\ at = "rendering" /\ staged # NoImage /\ offered /\ ~popup
  /\ at' = "events"
  /\ UNCHANGED <<registry, request, staged, offered, popup, list, choice>>

\* "New Instance" or "Replace Instance" of the expanded candidate, eligible or not; Escape
\* and a click beside the dialog close it, too.  (If the core cannot be constructed the
\* dialog stays.)
CloseDialog ==
  /\ Submitted
  /\ at' = "events"
  /\ chosen' = Expanded /\ pending' = NoPlace
  /\ staged' = NoImage
  /\ offered' = FALSE /\ popup' = FALSE
  /\ UNCHANGED <<registry, request, list, clicked>>
-----------------------------------------------------------------------------
LoadingInit ==
  /\ registry = <<>> /\ at = "static"
  /\ drops = <<>> /\ result = NoImage
  /\ staged = NoImage /\ offered = FALSE /\ popup = FALSE
  /\ listOf = NoImage /\ families = <<>>
  /\ best_match = NoPlace /\ chosen = NoPlace /\ pending = NoPlace
  /\ clicked = FALSE

LoadingNext ==
  \/ \E core \in Cores : register_new_system_core(core)
  \/ Main
  \/ \E f \in Images :
       append_pending_file_drops(f) \/ set_open_file_dialog_result(f) \/ OpenRecent(f)
  \/ Requested \/ NoDialog \/ OpenDialog \/ ShowDialog \/ LostDialog \/ CloseDialog

LoadingSpec == LoadingInit /\ [][LoadingNext]_loadingVars
-----------------------------------------------------------------------------
\* In whatever order the cores were registered, the open dialog lists each of them once
\* (one of those that share a family and a name), the families and in a family the
\* eligible cores and then the others in the order of their names; and the best match is
\* the one eligible core that knows the extension, if there is just one.
ListIsComplete ==
  offered =>
    LET all == {registry[i] : i \in DOMAIN registry}
        matching == {c \in all : eligible(c, listOf) /\ listOf.extension \in c.known}
    IN /\ {CandidateAt(p) : p \in Places(families)} = all
       /\ Cardinality(Places(families)) = Cardinality({Key(c) : c \in Cores})
       /\ \A p, q \in Places(families) :
            LET c == CandidateAt(p)
                d == CandidateAt(q)
            IN (p[1] < q[1] => c.family < d.family)
               /\ (p[1] = q[1] /\ p[2] < q[2]
                     => IF eligible(c, listOf) = eligible(d, listOf)
                        THEN c.name < d.name ELSE eligible(c, listOf))
       /\ IF best_match = NoPlace
          THEN Cardinality(matching) # 1
          ELSE matching = {CandidateAt(best_match)}

\* The best match is expanded until the user clicks another candidate, whatever was
\* expanded in the dialog before (whose pointer is kept, and is then overwritten).
BestMatchIsExpanded ==
  offered /\ popup /\ ~clicked /\ best_match # NoPlace => Expanded = best_match

\* The dialog offers every core that was compiled in for the file that it was opened for,
\* in whatever order they were registered, and has the best match expanded.
DialogOffersCores == ListIsComplete /\ BestMatchIsExpanded
=============================================================================
