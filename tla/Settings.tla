------------------------------ MODULE Settings ------------------------------
(***************************************************************************)
(* What outlives a session: the settings file in the home directory, from  *)
(* which the volume, the list of the files that were opened last and the   *)
(* main window's place are taken when the application starts, and to which *)
(* they are written when it quits, and then only.  A crash may come at any *)
(* time, also while the file is written.                                   *)
(*                                                                         *)
(* The keys of the file do not depend on each other, so an execution looks *)
(* at one of them.  A file that is missing, unreadable or no TOML, a key   *)
(* that is missing and one whose value has another type are all the same   *)
(* to the reader of the key: the file has then nothing for it.             *)
(***************************************************************************)
EXTENDS Lists, FiniteSets, FiniteSetsExt

CONSTANTS Files,     \* the files that are opened
          NoFile,    \* the empty path
          s_mru_limit,
          MaxVolume,
          Radix      \* of the numbers in the file: ten

ASSUME FilesAssumption == IsFiniteSet(Files) /\ NoFile \notin Files
ASSUME LimitAssumption == s_mru_limit \in Nat \ {0}
ASSUME VolumeAssumption == MaxVolume \in Nat \ {0}
ASSUME RadixAssumption == Radix \in Nat \ {0, 1}

VARIABLES
  which,     \* the key: "volume", "mru", "window", or "home" for the directory itself
  up,        \* "off", "running", or "writing" in quit_application()
  file,      \* what the file has for the key: <<>> or its value
  table,     \* s_config_model: the key's value
  value,     \* the same as the running application has it
  asked,     \* the key's value when the application started
  displays,  \* the displays that SDL reports in this session, or what is known of a home
  allowed,   \* history: the values that the next start may find
  fresh      \* history: the application has just started, and could read the file

settingsVars == <<which, up, file, table, value, asked, displays, allowed, fresh>>

Rect(x, y, w, h) == [x |-> x, y |-> y, w |-> w, h |-> h]
defaults == Rect(0, 0, 2, 2)

\* SDL_SetWindowMinimumSize(): more than the default.
minimum == Rect(0, 0, 3, 3)

\* SDL_GetWindowBordersSize(): the title bar.
deco == [up |-> 1, lt |-> 0, dn |-> 0, rt |-> 0]

\* Two displays beside each other, one of them or none; a display may have no usable part.
Monitors(rect) == [bounds : {rect}, usable : BOOLEAN, primary : BOOLEAN]
Left == Rect(0, 0, 5, 5)
Right == Rect(5, 1, 4, 6)
Setups ==
  {<<>>} \cup {<<m>> : m \in {l \in Monitors(Left) : l.primary}}
    \cup {s \in Monitors(Left) \X Monitors(Right) : s[1].primary = ~s[2].primary}

\* Where the user leaves the window: on the left, across both, on the right, too large,
\* and on a display that is no longer there.
Places == {Rect(1, 1, 3, 3), Rect(4, 1, 3, 3), Rect(5, 3, 3, 4), Rect(0, 1, 11, 11),
           Rect(20, 2, 3, 4)}
-----------------------------------------------------------------------------
(* Plausible mistakes.                                                     *)

\* Restored: the list is read from its begin.
RestoredForward(entries) == Filtered(entries, Files)

\* Clamped: the decoration is forgotten.
ClampedBare(r, t) ==
  [r EXCEPT !.x = Max({t.x, Min({@, t.x + t.w - r.w})}),
            !.y = Max({t.y, Min({@, t.y + t.h - r.h})})]
-----------------------------------------------------------------------------
(* SimpleMRU and its passage through the file.                             *)

EraseFile(mru, f) == Filtered(mru, Files \ {f})

Insert(mru, f) ==
  IF Contains(mru, f) THEN <<f>> \o EraseFile(mru, f)
  ELSE SubSeq(<<f>> \o mru, 1, Min({s_mru_limit, Len(mru) + 1}))

export_mru(mru) ==
  [k \in 1 .. s_mru_limit |-> IF k <= Len(mru) THEN mru[k] ELSE NoFile]

\* TomlConfig::get(): an array of another length is cut or filled.
GetArray(entries) == export_mru(SubSeq(entries, 1, Min({s_mru_limit, Len(entries)})))

\* import_mru(): from the last entry to the first.
Restored(entries) ==
  LET restored[k \in 0 .. Len(entries)] ==
        IF k = 0 THEN <<>>
        ELSE LET f == entries[(Len(entries) - k) + 1]
             IN  IF f = NoFile THEN restored[k - 1] ELSE Insert(restored[k - 1], f)
  IN  restored[Len(entries)]
-----------------------------------------------------------------------------
(* normalize_rect_to_display()                                             *)

Overlap(r, b) ==
  LET w == Min({r.x + r.w, b.x + b.w}) - Max({r.x, b.x})
      h == Min({r.y + r.h, b.y + b.h}) - Max({r.y, b.y})
  IN  Max({0, w}) * Max({0, h})

Distance(r, b) ==
  LET dx == (r.x + (r.w \div 2)) - (b.x + (b.w \div 2))
      dy == (r.y + (r.h \div 2)) - (b.y + (b.h \div 2))
  IN  (dx * dx) + (dy * dy)

\* The first of those that are best by a measure.
FirstBest(measure) ==
  Min({i \in DOMAIN measure : \A j \in DOMAIN measure : measure[i] >= measure[j]})

Usable(ds) == LET usable == Filtered(ds, {d \in Range(ds) : d.usable})
              IN  [i \in DOMAIN usable |-> usable[i].bounds]

\* The index of the display in the list of those with bounds.  In the first run it is the
\* index of the primary one in the list of all; -1 + 1 if there is none.
BestDisplay(r, ds, first) ==
  LET bounds == Usable(ds)
  IN  IF first THEN Max({0} \cup {i \in DOMAIN ds : ds[i].primary})
      ELSE IF \E i \in DOMAIN bounds : Overlap(r, bounds[i]) > 0
      THEN FirstBest([i \in DOMAIN bounds |-> Overlap(r, bounds[i])])
      ELSE FirstBest([i \in DOMAIN bounds |-> -Distance(r, bounds[i])])

Clamped(r, t) ==
  [r EXCEPT !.x = Max({t.x + deco.lt, Min({@, t.x + t.w - deco.rt - r.w})}),
            !.y = Max({t.y + deco.up, Min({@, t.y + t.h - deco.dn - r.h})})]

Centred(r, t) ==
  [r EXCEPT !.x = t.x + ((t.w - deco.lt - deco.rt - r.w) \div 2) + deco.lt,
            !.y = t.y + ((t.h - deco.up - deco.dn - r.h) \div 2) + deco.up]

\* The set of the results: any, if the index is beyond the list.
Normalized(rect, ds, first) ==
  LET bounds == Usable(ds)
      large == [rect EXCEPT !.w = Max({@, defaults.w}), !.h = Max({@, defaults.h})]
      best == BestDisplay(large, ds, first)
      t == bounds[best]
      small == [large EXCEPT !.w = Min({@, t.w - deco.lt - deco.rt}),
                             !.h = Min({@, t.h - deco.up - deco.dn})]
  IN  IF bounds = <<>> THEN {defaults}
      ELSE IF best \notin DOMAIN bounds THEN Places
      ELSE IF ~first /\ Overlap(large, t) > 0 THEN {Clamped(small, t)}
      ELSE {Centred(small, t)}
-----------------------------------------------------------------------------
(* set_home_path(): the directory of --homedir, the one of the program, or the one that   *)
(* the system has for it.                                                                 *)

\* No directory, one that no file can be created in, one that the file cannot be removed
\* from, and one that is as it should be.
Homes == [named : BOOLEAN, portable : BOOLEAN, marked : BOOLEAN,
          is : [{"named", "base", "home"} -> {"absent", "closed", "kept", "open"}]]

\* A file is written there, and removed.
is_writable_directory(h, d) ==
  LET created == h.is[d] \in {"kept", "open"}
      removed == h.is[d] = "open"
  IN  h.is[d] # "absent" /\ created /\ removed

set_home_path(h) ==
  LET tried == IF h.named THEN <<"named">> ELSE IF h.portable THEN <<"base">>
               ELSE IF h.marked THEN <<"base", "home">> ELSE <<"home">>
      good == Filtered(tried, {d \in Range(tried) : is_writable_directory(h, d)})
  IN  IF good = <<>> THEN "" ELSE good[1]
-----------------------------------------------------------------------------
Default ==
  CASE which = "volume" -> MaxVolume - 1
    [] which = "mru"    -> export_mru(<<>>)
    [] which = "window" -> [first_run |-> TRUE, rect |-> defaults]
    [] which = "home"   -> ""

\* What a user may write to the file; the rest is as if there were nothing.
Edits ==
  CASE which = "volume" -> {MaxVolume + 1}
    [] which = "mru"    -> {<<f, f>> : f \in Files} \cup {SetToSeq(Files)}
    [] OTHER            -> {}

\* The numbers that begin with the sign and with digits of n.
Unsigned(n) == Max({n, -n})

Cut(n) ==
  {m \in Min({0, n}) .. Max({0, n}) :
     \/ m = n
     \/ m # 0 /\ \E k \in 1 .. Unsigned(n) : Unsigned(m) = Unsigned(n) \div (Radix^k)}

\* A fraction that is cut is smaller, but in front of the exponent of a very small one, which
\* is as good as 0 before; a `1` without its `.0` is an integer, which is not taken.
CutVolume(v) ==
  IF v = MaxVolume THEN {v} ELSE (0 .. v) \cup IF v = 0 THEN {MaxVolume + 1} ELSE {}

\* The tables of the file and the keys in them come in the order of the alphabet: X, Y, H, W.
CutRect(r) ==
  {defaults} \cup {[defaults EXCEPT !.x = n] : n \in Cut(r.x)}
             \cup {[defaults EXCEPT !.x = r.x, !.y = n] : n \in Cut(r.y)}
             \cup {[r EXCEPT !.w = defaults.w, !.h = n] : n \in Cut(r.h)}
             \cup {[r EXCEPT !.w = n] : n \in Cut(r.w)}

\* What a file may have for the key that was cut after the key or in its value.  FirstRun is
\* the first of the window's.  A string or an array that is cut does not parse.
Remains(v) ==
  CASE which = "volume" -> CutVolume(v)
    [] which = "window" -> {[v EXCEPT !.rect = r] : r \in CutRect(v.rect)}
    [] OTHER            -> {v}

\* What is left of a file that was not written to its end: nothing that can be parsed or
\* has the key, or so much of its value.
Torn == {<<>>} \cup {<<v>> : v \in Remains(table)}

\* The values that the constructors make of the settings.  The audio device's setter has no
\* more than the range; the window is placed, sized, and then not let below the minimum.
TakenVolume(v) == Max({0, Min({MaxVolume, v})})

Placed(v, ds) ==
  {[r EXCEPT !.w = Max({@, minimum.w}), !.h = Max({@, minimum.h})] :
     r \in Normalized(v.rect, ds, v.first_run)}

Taken(v, ds) ==
  CASE which = "volume" -> {TakenVolume(v)}
    [] which = "mru"    -> {Restored(v)}
    [] which = "window" -> Placed(v, ds)
    [] which = "home"   -> {set_home_path(ds)}

\* export_settings().  A maximized window is restored before it is asked for its place.
ExportedVolume == value
ExportedWindow == [first_run |-> FALSE, rect |-> value]

Exported ==
  CASE which = "volume" -> ExportedVolume
    [] which = "mru"    -> export_mru(value)
    [] which = "window" -> ExportedWindow
    [] which = "home"   -> value

\* Over the defaults goes what the file has of the same type, if it could be read.
parse_app_config_file(readable) == IF file = <<>> \/ ~readable THEN Default ELSE file[1]

\* What of it reaches the settings of the service.
update_map_from_config(found) == IF which = "mru" THEN GetArray(found) ELSE found

SettingsInit ==
  /\ which \in {"volume", "mru", "window", "home"}
  /\ up = "off" /\ file = <<>>
  /\ table = Default /\ asked = Default /\ value = Default
  /\ displays \in IF which = "home" THEN Homes ELSE {<<>>}   \* the directories do not change
  /\ allowed = {Default} /\ fresh = FALSE

\* init_application(): the defaults, and over them what the file has, if it can be read.
Start(readable) ==
  /\ up = "off"
  /\ table' = parse_app_config_file(readable)
  /\ asked' = update_map_from_config(table')
  /\ displays' \in IF which = "window" THEN Setups ELSE {displays}
  /\ value' \in Taken(asked', displays')
  /\ up' = "running" /\ fresh' = readable
  /\ UNCHANGED <<which, file, allowed>>

\* The values of an application go with it; the directories do not change.
Ended ==
  /\ up' = "off" /\ fresh' = FALSE
  /\ table' = Default /\ value' = Default /\ asked' = Default
  /\ displays' = IF which = "home" THEN displays ELSE <<>>

\* The user: the volume keys, a file that is opened or is gone, a window that is moved.
Change ==
  /\ up = "running" /\ which # "home"
  /\ CASE which = "volume" ->
            \E by \in {-1, 1} : value' = Max({0, Min({MaxVolume, value + by})})
       [] which = "mru" ->
            \E f \in Files : value' = Insert(value, f) \/ value' = EraseFile(value, f)
       [] which = "window" -> value' \in Places
  /\ fresh' = FALSE
  /\ UNCHANGED <<which, up, file, table, asked, displays, allowed>>

\* quit_application(): the file is emptied and then written; or it cannot be opened.
BeginWrite ==
  /\ up = "running"
  /\ \/ /\ up' = "writing" /\ file' = <<>>
        /\ allowed' = {Default, Exported} \cup Remains(Exported)
        /\ table' = Exported /\ fresh' = FALSE
        /\ UNCHANGED <<value, asked, displays>>
     \/ Ended /\ UNCHANGED <<file, allowed>>
  /\ UNCHANGED which

EndWrite ==
  /\ up = "writing"
  /\ file' = <<table>> /\ allowed' = {table}
  /\ Ended
  /\ UNCHANGED which

\* Also a disk that is full when the file is written, and what becomes of an application
\* that could not start: quit_application() is called without a host.
Crash ==
  /\ up # "off"
  /\ file' \in IF up = "writing" THEN Torn ELSE {file}
  /\ Ended
  /\ UNCHANGED <<which, allowed>>

EditFile ==
  /\ up = "off"
  /\ \E v \in Edits : file' = <<v>> /\ allowed' = {IF which = "mru" THEN GetArray(v) ELSE v}
  /\ UNCHANGED <<which, up, table, value, asked, displays, fresh>>

SettingsNext ==
  \/ \E readable \in BOOLEAN : Start(readable)
  \/ Change \/ BeginWrite \/ EndWrite \/ Crash \/ EditFile

SettingsSpec == SettingsInit /\ [][SettingsNext]_settingsVars
-----------------------------------------------------------------------------
Inside(r, b) ==
  /\ r.x - deco.lt >= b.x /\ r.x + r.w + deco.rt <= b.x + b.w
  /\ r.y - deco.up >= b.y /\ r.y + r.h + deco.dn <= b.y + b.h

\* The window comes up on one display with all its borders, wherever it was and whichever
\* displays are left, and one that was so when it was left stays where it is.  That is for
\* windows that have the minimum size: one that gets it after it was placed, as in the first
\* run, may grow over the border.
WindowOnOneDisplay ==
  fresh /\ which = "window" /\ Usable(displays) # <<>>
    /\ asked.rect.w >= minimum.w /\ asked.rect.h >= minimum.h =>
       LET bounds == Range(Usable(displays))
       IN  /\ \E b \in bounds : Inside(value, b)
           /\ (\E b \in bounds : Inside(asked.rect, b)) => value = asked.rect

\* A start finds what the last clean end left.  After an end that came while the file was
\* written it may be the default, or numbers that were cut, the last one that was written
\* and none before it, and never anything else.  It takes what it finds as it is: the
\* same volume within its range, the same files in the same order and none of them twice.
\* A directory that the user named is the home or there is none.  A window comes up on a display.
SettingsSurvive ==
  /\ fresh => asked \in allowed
  /\ fresh /\ which = "mru" =>
       /\ IsInjective(value) /\ Len(value) <= s_mru_limit
       /\ IsInjective(Filtered(asked, Files)) => export_mru(value) = asked
  /\ fresh /\ which = "volume" => value = IF asked > MaxVolume THEN MaxVolume ELSE asked
  /\ fresh /\ which = "home" =>
       /\ value = "" \/ displays.is[value] = "open"
       /\ displays.named => value \in {"", "named"}
       /\ displays.portable /\ ~displays.named => value \in {"", "base"}
  /\ WindowOnOneDisplay
=============================================================================
