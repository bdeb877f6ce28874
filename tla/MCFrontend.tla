----------------------------- MODULE MCFrontend ------------------------------
(***************************************************************************)
(* The main thread: one system and its worker, the host of all systems,    *)
(* the dialog that makes one of them, and the list of cores that it        *)
(* offers.  Each looks at the main thread through what it needs and no two *)
(* have a variable in common, so an execution moves one of them.           *)
(*                                                                         *)
(* Timers up to 2, the length of the buzzer, so that a sound outlasts a    *)
(* frame; the frame counter tells "just reset" from "has run".  Three      *)
(* systems: the one in front, and two whose order behind it can be seen.   *)
(* Two files are enough to mix up a file and a hash.  Three cores in two   *)
(* families: two know the extension of the first file, one that of the     *)
(* second and fits it.                                                     *)
(***************************************************************************)
EXTENDS SystemEmu, ApplicationHost, Staging, Loading

CONSTANTS f1, f2

VARIABLE part   \* the part that moves

allVars == <<part, vars, deskVars, stagingVars, loadingVars>>

Core(family, name, known, limit) ==
  [family |-> family, name |-> name, known |-> known, limit |-> limit]
Image(path, extension, size) == [path |-> path, extension |-> extension, size |-> size]

MCCoreSet == {Core(1, 1, {"x"}, 1), Core(1, 2, {"x", "y"}, 2), Core(2, 1, {"y"}, 1)}
MCImages == {Image(f1, "x", 1), Image(f2, "y", 2)}
MCNoImage == Image(NoFile, "", 0)

FrontendInit ==
  /\ part \in {"system", "host", "dialog", "offer"}
  /\ Init /\ HostInit /\ StagingInit /\ LoadingInit

SystemStep(A) ==
  part = "system" /\ A /\ UNCHANGED <<part, deskVars, stagingVars, loadingVars>>

FrontendNext ==
  \/ SystemStep(Next)
  \/ /\ part = "host" /\ HostNext
     /\ UNCHANGED <<part, vars, stagingVars, loadingVars>>
  \/ /\ part = "dialog" /\ StagingNext
     /\ UNCHANGED <<part, vars, deskVars, loadingVars>>
  \/ /\ part = "offer" /\ LoadingNext
     /\ UNCHANGED <<part, vars, deskVars, stagingVars>>

\* The fairness of SystemEmu.
FrontendSpec ==
  /\ FrontendInit /\ [][FrontendNext]_allVars
  /\ WF_allVars(SystemStep(Worker)) /\ WF_allVars(SystemStep(HostFrame))
  /\ WF_allVars(SystemStep(TogglePause)) /\ WF_allVars(SystemStep(Join))
=============================================================================
