------------------------------ MODULE Staging -------------------------------
(***************************************************************************)
(* From a file to a system: the staged file image and its SHA1             *)
(* (systems/SystemStaging.hpp), the modal dialog that offers the systems   *)
(* for it (frontend/ApplicationHost_GUI.cpp), the thread that hashes it    *)
(* (utilities/SHA1_Helpers.hpp) and the instances made from it.            *)
(* A hash is represented by the file that it is the hash of.               *)
(***************************************************************************)
CONSTANTS
  Files,       \* the files that can be mapped
  NoFile       \* no file, no hash, no data: none of Files

ASSUME NoFileAssumption == NoFile \notin Files

VARIABLES
  file_image,  \* SystemStaging::file_image
  sha1_hash,   \* SystemStaging::sha1_hash
  modal,       \* s_render_modal_open
  listed,      \* the file that the list of systems was made for
  thread,      \* the thread of s_sha1_widget
  data,        \* the mapping that it reads
  stop,        \* its stop token
  main,        \* what the main thread waits for the thread for, if anything
  instances,   \* the systems made, each with its file and its hash
  replaced     \* history: was another file loaded while the dialog was open?

staging == <<file_image, sha1_hash>>
widget == <<thread, data, stop>>
stagingVars == <<staging, modal, listed, widget, main, instances, replaced>>

\* running(): the flag m_busy
running == thread \in {"hashing", "leaving"}
-----------------------------------------------------------------------------
(* Plausible mistakes.                                                     *)

\* Close: the thread is told to stop and not waited for.
CloseAtOnce ==
  /\ main = "closing"
  /\ file_image' = NoFile /\ sha1_hash' = NoFile
  /\ modal' = FALSE /\ replaced' = FALSE
  /\ main' = "loop"
  /\ UNCHANGED <<listed, widget, instances>>

-----------------------------------------------------------------------------
StagingInit ==
  /\ file_image = NoFile /\ sha1_hash = NoFile
  /\ modal = FALSE /\ listed = NoFile
  /\ thread = "none" /\ data = NoFile /\ stop = FALSE
  /\ main = "loop"
  /\ instances = {}
  /\ replaced = FALSE

\* load_file_from_disk() of a file that can be mapped, dropped on the window or
\* chosen in the system's dialog; the file that is staged is not loaded again.
Load(f) ==
  /\ main = "loop"
  /\ file_image # f
  /\ file_image' = f
  /\ replaced' = modal
  /\ UNCHANGED <<sha1_hash, modal, listed, widget, main, instances>>

\* ... and of one that cannot, or is empty: what was staged is gone, too.
Reject ==
  /\ main = "loop"
  /\ file_image' = NoFile
  /\ replaced' = modal
  /\ UNCHANGED <<sha1_hash, modal, listed, widget, main, instances>>

\* A staged file opens the dialog; setup() of the widget joins its thread.
OpenModal ==
  /\ main = "loop"
  /\ file_image # NoFile /\ ~modal
  /\ modal' = TRUE
  /\ listed' = file_image
  /\ thread' = IF running THEN thread ELSE "none"
  /\ stop' = running
  /\ main' = IF running THEN "setup" ELSE "loop"
  /\ UNCHANGED <<staging, data, instances, replaced>>

\* The dialog is rendered while it is open and some file is staged.
Rendered == main = "loop" /\ modal /\ file_image # NoFile

\* The button "Calculate SHA1"
Calculate ==
  /\ Rendered
  /\ sha1_hash = NoFile /\ ~running
  /\ thread' = "hashing" /\ data' = file_image /\ stop' = FALSE
  /\ UNCHANGED <<staging, modal, listed, main, instances, replaced>>

\* The button "Cancel"; reset() of the widget joins the thread.
Cancel ==
  /\ Rendered
  /\ sha1_hash = NoFile /\ running
  /\ stop' = TRUE
  /\ main' = "cancelling"
  /\ UNCHANGED <<staging, modal, listed, thread, data, instances, replaced>>

Joined ==
  /\ main \in {"setup", "cancelling"}
  /\ ~running
  /\ thread' = "none"
  /\ main' = "loop"
  /\ UNCHANGED <<staging, modal, listed, data, stop, instances, replaced>>

\* calc_file_image_sha1() of an instance whose image is the one staged before.
calc_file_image_sha1 == IF sha1_hash # NoFile THEN sha1_hash ELSE file_image

\* A button "New Instance" or "Replace Instance": the core takes the image, its
\* worker is started, and the dialog closes.
NewInstance ==
  /\ Rendered
  /\ ~running
  /\ instances' = instances \cup
       {[file |-> file_image, hash |-> calc_file_image_sha1, replaced |-> replaced]}
  /\ file_image' = NoFile
  /\ stop' = TRUE
  /\ main' = "closing"
  /\ UNCHANGED <<sha1_hash, modal, listed, thread, data, replaced>>

\* Escape, or a click beside the dialog: s_close_modal()
Dismiss ==
  /\ Rendered
  /\ stop' = TRUE
  /\ main' = "closing"
  /\ UNCHANGED <<staging, modal, listed, thread, data, instances, replaced>>

\* The rest of s_close_modal(), once the thread is joined.
Close ==
  /\ main = "closing"
  /\ ~running
  /\ thread' = "none"
  /\ file_image' = NoFile /\ sha1_hash' = NoFile
  /\ modal' = FALSE /\ replaced' = FALSE
  /\ main' = "loop"
  /\ UNCHANGED <<listed, data, stop, instances>>

\* The last step of the hash, even if a stop was asked for meanwhile: on_done()
FinishHash ==
  /\ thread = "hashing"
  /\ sha1_hash' = data
  /\ thread' = "leaving"
  /\ UNCHANGED <<file_image, modal, listed, data, stop, main, instances, replaced>>

SeeStop ==
  /\ thread = "hashing" /\ stop
  /\ thread' = "leaving"
  /\ UNCHANGED <<staging, modal, listed, data, stop, main, instances, replaced>>

LeaveThread ==
  /\ thread = "leaving"
  /\ thread' = "ended"
  /\ UNCHANGED <<staging, modal, listed, data, stop, main, instances, replaced>>

Hasher == FinishHash \/ SeeStop \/ LeaveThread

StagingNext ==
  \/ (\E f \in Files : Load(f)) \/ Reject
  \/ OpenModal \/ Calculate \/ Cancel \/ Joined
  \/ NewInstance \/ Dismiss \/ Close
  \/ Hasher

StagingSpec == StagingInit /\ [][StagingNext]_stagingVars
-----------------------------------------------------------------------------
\* A dialog that is closed leaves no thread and no hash behind, whenever it was
\* closed and whatever the thread was doing.
ClosedLeavesNothing == ~modal => ~running /\ sha1_hash = NoFile

\* What the user sees and what the thread reads belong to the staged file, as
\* long as no other file came in while the dialog was open.
DialogIsOfStagedFile ==
  modal /\ ~replaced /\ file_image # NoFile
    => /\ listed = file_image
       /\ sha1_hash \in {file_image, NoFile}
       /\ running => data = file_image

\* Under the same proviso an instance keeps its data under the hash of its own
\* file, by which it finds its savestates and permanent registers.
InstanceHashIsItsFile == \A i \in instances : ~i.replaced => i.hash = i.file

\* A closed dialog leaves nothing behind, an open one is of the staged file, and what
\* is made from it, too.
DialogIsOfItsFile == ClosedLeavesNothing /\ DialogIsOfStagedFile /\ InstanceHashIsItsFile

\* What the comment on SHA1_ThreadedWidget::start says of its data: it remains
\* valid for the duration of the thread.
DataStaysMapped == running => data = file_image
=============================================================================
