--------------------------- MODULE PermaRegisters ---------------------------
(***************************************************************************)
(* The permanent registers of the SCHIP cores and their successors: FN75   *)
(* stores V0 to VN, FN85 loads them.  They live in a file of the program,  *)
(* named by its hash, and in an array that all systems of the process      *)
(* share, through which every load goes and which stands in for a file     *)
(* that is gone or cannot be read.  Two systems run in threads of their    *)
(* own; nothing orders their accesses.                                     *)
(***************************************************************************)
EXTENDS Naturals, Sequences

CONSTANTS
  System,     \* the systems that run
  Game,       \* the programs, each with its file
  Runs,       \* which programs the systems run together: functions from System to Game
  Count,      \* the registers (16)
  Contents    \* what each system may have in its registers when it stores them

VARIABLES
  game,       \* the program of each system
  path,       \* the systems with m_permaregs_path
  files,      \* the content of each program's file, or NoFile
  shared,     \* s_permaregs_V
  step,       \* where each system's worker is in FN75 or FN85, with how many registers,
              \* and which values FN75 finds in them: other instructions change them at will
  mixed,      \* history: the systems whose instruction another system's overlapped
  last,       \* history: the values that each program stored last, as long as its file
              \* did not fail, was not removed and not used by overlapping instructions
  unsaved     \* history: the programs with a store that found no file

vars == <<game, path, files, shared, step, mixed, last, unsaved>>

Width == 1..Count
NoFile == [there |-> FALSE, bytes |-> <<>>]
File(bytes) == [there |-> TRUE, bytes |-> bytes]
Unknown == <<>>
Idle == [at |-> "idle", n |-> 0, values |-> <<>>]

First(n, f) == [r \in 1..n |-> f[r]]
Over(n, new, old) == [r \in Width |-> IF r <= n THEN new[r] ELSE old[r]]
Zeroes == [r \in Width |-> 0]

\* A read past the end of the file is not an error and leaves zeroes.
Padded(n, bytes) == [r \in 1..n |-> IF r <= Len(bytes) THEN bytes[r] ELSE 0]

Others(s) == {t \in System \ {s} : step[t] # Idle}

\* s goes on; every system in an instruction at the same time as another is mixed.
At(s, label) == step' = [step EXCEPT ![s].at = label]
Starts(s, label, n, values) ==
  step' = [step EXCEPT ![s] = [at |-> label, n |-> n, values |-> values]]
Begins(s) == mixed' = IF Others(s) = {} THEN mixed ELSE mixed \cup {s} \cup Others(s)
Ends(s) == step' = [step EXCEPT ![s] = Idle] /\ mixed' = mixed \ {s}
Sharing(s) == \E t \in Others(s) : game[t] = game[s]
Loses(s) == last' = [last EXCEPT ![game[s]] = Unknown]
LosesIfSharing(s) == IF Sharing(s) THEN Loses(s) ELSE UNCHANGED last

\* A system whose file is not there has no path any more.
Given(s) == IF files[game[s]].there THEN {} ELSE {path \ {s}}
-----------------------------------------------------------------------------
(* Plausible mistakes.                                                     *)

\* GetFile: what was read is not put into the shared array.
GetFileUnused(s) ==
  /\ step[s].at = "read"
  /\ path' \in {path} \cup Given(s)
  /\ At(s, "get")
  /\ UNCHANGED <<game, files, shared, mixed, last, unsaved>>
-----------------------------------------------------------------------------
\* Every program may have a file from an earlier day, and every system has its path.
Init ==
  /\ game \in Runs
  /\ path = System
  /\ files \in [Game -> {NoFile, File(Zeroes)}]
  /\ shared = Zeroes
  /\ step = [s \in System |-> Idle]
  /\ mixed = {}
  /\ last = [g \in Game |-> Zeroes]
  /\ unsaved = {}

\* set_permaregs(): without a file, the system gives up its path.
SetTest(s, n) ==
  /\ step[s] = Idle
  /\ path' = IF files[game[s]].there THEN path ELSE path \ {s}
  /\ \E values \in Contents[s] :
       /\ Starts(s, IF s \in path' THEN "write" ELSE "set", n, values)
       /\ last' = [last EXCEPT ![game[s]] =
                    IF Sharing(s) \/ @ = Unknown THEN Unknown ELSE Over(n, values, @)]
  /\ Begins(s)
  /\ unsaved' = IF s \in path' THEN unsaved ELSE unsaved \cup {game[s]}
  /\ UNCHANGED <<game, files, shared>>

\* set_file_permaregs(): the file is created anew with X bytes, or cannot be opened, or
\* cannot be written and stays empty.
SetFile(s) ==
  /\ step[s].at = "write"
  /\ \/ /\ files' = [files EXCEPT ![game[s]] = File(First(step[s].n, step[s].values))]
        /\ UNCHANGED last
     \/ /\ files' \in {files, [files EXCEPT ![game[s]] = File(<<>>)]}
        /\ Loses(s)
  /\ At(s, "set")
  /\ UNCHANGED <<game, path, shared, mixed, unsaved>>

SetShared(s) ==
  /\ step[s].at = "set"
  /\ shared' = Over(step[s].n, step[s].values, shared)
  /\ Ends(s)
  /\ UNCHANGED <<game, path, files, last, unsaved>>

\* get_permaregs(): without a file, it makes one of zeroes.
GetTest(s, n) ==
  /\ step[s] = Idle
  /\ files' = IF s \in path /\ ~files[game[s]].there
              THEN [files EXCEPT ![game[s]] = File(Zeroes)] ELSE files
  /\ LosesIfSharing(s)
  /\ Starts(s, IF s \in path THEN "read" ELSE "get", n, <<>>)
  /\ Begins(s)
  /\ UNCHANGED <<game, path, shared, unsaved>>

\* The files that may be open for writing while s makes its own.
Open(s) == {game[s]} \cup {game[t] : t \in {u \in System : step[u].at = "write"}}

\* make_permaregs_file(): if the file cannot be created or written, the value() of the
\* error throws in a function that is noexcept, and the process ends.  The user starts
\* it again, with the same programs; a file that was open may be empty.
Terminate(s) ==
  /\ step[s] = Idle
  /\ s \in path /\ ~files[game[s]].there
  /\ \E empty \in SUBSET Open(s) :
       files' = [g \in Game |-> IF g \in empty THEN File(<<>>) ELSE files[g]]
  /\ last' = [g \in Game |-> IF g \in Open(s) THEN Unknown ELSE last[g]]
  /\ path' = System
  /\ shared' = Zeroes
  /\ step' = [t \in System |-> Idle]
  /\ mixed' = {}
  /\ UNCHANGED <<game, unsaved>>

\* get_file_permaregs(): the file is read, or cannot be.  If it is not there any more,
\* the test before it or the read itself has found that.
GetFile(s) ==
  /\ step[s].at = "read"
  /\ path' \in {path} \cup Given(s)
  /\ \/ /\ files[game[s]].there
        /\ shared' = Over(step[s].n, Padded(step[s].n, files[game[s]].bytes), shared)
        /\ UNCHANGED last
     \/ UNCHANGED shared /\ Loses(s)
  /\ At(s, "get")
  /\ UNCHANGED <<game, files, mixed, unsaved>>

\* What FN85 puts into the registers.
Loaded(s) == First(step[s].n, shared)

GetShared(s) ==
  /\ step[s].at = "get"
  /\ Ends(s)
  /\ UNCHANGED <<game, path, files, shared, last, unsaved>>

\* The system is closed and the same program started again.
Restart(s) ==
  /\ step[s] = Idle
  /\ path' = path \cup {s}
  /\ UNCHANGED <<game, files, shared, step, mixed, last, unsaved>>

\* The user removes a program's file.
RemoveFile(g) ==
  /\ files[g].there
  /\ files' = [files EXCEPT ![g] = NoFile]
  /\ last' = [last EXCEPT ![g] = Unknown]
  /\ UNCHANGED <<game, path, shared, step, mixed, unsaved>>

\* X is N + 1, and in SCHIP_LEGACY and MEGACHIP at most eight.
Worker(s) ==
  \/ \E n \in Width : SetTest(s, n) \/ GetTest(s, n)
  \/ SetFile(s) \/ SetShared(s) \/ GetFile(s) \/ GetShared(s) \/ Terminate(s)

Next == \E s \in System : Worker(s) \/ Restart(s) \/ \E g \in Game : RemoveFile(g)

Spec == Init /\ [][Next]_vars
-----------------------------------------------------------------------------
\* What the file still holds of the last store, when s ends a load of it.
LoadsLastSave(s) ==
  GetShared(s) /\ s \in path \ mixed /\ last[game[s]] # Unknown =>
    \A r \in 1..step[s].n :
      r <= Len(files[game[s]].bytes) => Loaded(s)[r] = last[game[s]][r]

\* A load gives what the same program stored last, from whichever of its systems and
\* whatever the other programs have put into the shared array, as long as no two
\* instructions overlap, the file is there, and it can be read and written.
LoadIsLastSave == \A s \in System : game[s] \notin unsaved => LoadsLastSave(s)
=============================================================================
