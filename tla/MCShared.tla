------------------------------- MODULE MCShared ------------------------------
(***************************************************************************)
(* What threads share without a common lock: the swapchain of the frames,  *)
(* the ring of the log with each of its two readers, the keyboard, and the *)
(* registry of the hooks.                                                  *)
(* They have no state in common, so an execution has one of them, and the  *)
(* states add up instead of multiplying.                                   *)
(*                                                                         *)
(* Five frames: more than the three slots, so that each slot is used again *)
(* while the reader may still be in an old one.  Two threads log, and a    *)
(* ring of two slots is lapped by a few entries.  Three hooks: one that is *)
(* gone between two that live.                                             *)
(***************************************************************************)
EXTENDS TripleBuffer, LogFlusher, Keyboard, UserInterface

VARIABLE part         \* the component of this execution

allVars == <<part, vars, ringVars, fileVars, windowVars, keyVars, hookVars>>

SharedInit ==
  /\ part \in {"swapchain", "flusher", "window", "keyboard", "hooks"}
  /\ Init /\ FlusherInit /\ ViewInit /\ KeyboardInit /\ HooksInit

SwapchainStep(A) ==
  /\ part = "swapchain" /\ A
  /\ UNCHANGED <<part, ringVars, fileVars, windowVars, keyVars, hookVars>>

FlusherStep(A) ==
  /\ part = "flusher" /\ A
  /\ UNCHANGED <<part, vars, windowVars, keyVars, hookVars>>

WindowStep(A) ==
  /\ part = "window" /\ A
  /\ UNCHANGED <<part, vars, fileVars, keyVars, hookVars>>

KeyboardStep(A) ==
  /\ part = "keyboard" /\ A
  /\ UNCHANGED <<part, vars, ringVars, fileVars, windowVars, hookVars>>

HooksStep(A) ==
  /\ part = "hooks" /\ A
  /\ UNCHANGED <<part, vars, ringVars, fileVars, windowVars, keyVars>>

SharedNext ==
  \/ SwapchainStep(Next)
  \/ FlusherStep(FlusherNext)
  \/ WindowStep(ViewNext)
  \/ KeyboardStep(KeyboardNext)
  \/ HooksStep(HooksNext)

\* The reader of the frames comes back in every iteration of the host's loop; the
\* clock of the flusher goes on, and threads finish the calls they are in; the main
\* thread goes on with the hooks.
SharedSpec ==
  /\ SharedInit /\ [][SharedNext]_allVars
  /\ WF_allVars(SwapchainStep(Reader))
  /\ WF_allVars(FlusherStep(Flusher))
  /\ \A p \in Producers : WF_allVars(FlusherStep(pc[p] # "idle" /\ Log(p)))
  /\ WF_allVars(HooksStep(MainNext))
=============================================================================
