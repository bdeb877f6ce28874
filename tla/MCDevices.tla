------------------------------ MODULE MCDevices ------------------------------
(***************************************************************************)
(* What leaves the program and what is computed bit by bit: the display    *)
(* device, the audio device, the frame limiter, the mixing of colours and  *)
(* the hash; and what is remembered of the window, the volume and the      *)
(* files.  They have no state in common, so an execution has one of them.  *)
(* The fields of the display's record do not depend on each other, nor do  *)
(* notes and tracks: the user moves the slider in executions in which      *)
(* nothing sounds, and a track is played in those without a note.          *)
(*                                                                         *)
(* Two areas of the window: one that is too small for the viewport, and    *)
(* one that is not.  Frequencies and rates that do not divide each other.  *)
(* Levels of colour about the ends and the middle of the byte.  Data that  *)
(* ends on both sides of the places where the padding takes a block more,  *)
(* in pieces that begin and end within blocks.  Three files of which two   *)
(* are remembered.  Frames that take longer than two periods, sleeps that  *)
(* take longer than asked for.                                             *)
(***************************************************************************)
EXTENDS Display, Audio, FrameLimiter, Colours, Settings

CONSTANTS Paths, Lengths, Pieces      \* of SHA1

VARIABLES
  part,           \* the component of this execution
  path, length, processed, sha, result, chained
                  \* those of SHA1

MCAreas == {<<3, 3>>, <<14, 11>>}

Hash == INSTANCE SHA1

hashVars == <<path, length, processed, sha, result, chained>>
deviceVars == <<part, displayVars, audioVars, colorVars, hashVars, settingsVars, paceVars>>

\* What is not part of the execution stands still in one state.
DevicesInit ==
  /\ part \in {"display", "slider", "notes", "tracks", "colours", "hash", "settings", "pace"}
  /\ Init
  /\ AudioInit
  /\ part \notin {"notes", "tracks"} =>
       /\ freq = (CHOOSE f \in Freqs : TRUE) /\ base_rate = (CHOOSE r \in Rates : TRUE)
       /\ multiplier = (CHOOSE q \in Multipliers : TRUE)
  /\ ColorInit
  /\ part # "colours" => blend = "new"
  /\ Hash!ShaInit
  /\ part # "hash" => path = (CHOOSE p \in Paths : TRUE)
  /\ PaceInit
  /\ part # "pace" => ~initial /\ skips /\ period = (CHOOSE p \in Periods : TRUE)
  /\ SettingsInit
  /\ part # "settings" => which = "volume"

DisplayStep(A) ==
  /\ part \in {"display", "slider"} /\ A
  /\ part = "display" => IF users' = NoEdit THEN TRUE ELSE users'.zoom = staging.zoom
  /\ part = "slider" => ~sounding'
  /\ UNCHANGED <<part, audioVars, colorVars, hashVars, settingsVars, paceVars>>
AudioStep(A) ==
  /\ part \in {"notes", "tracks"} /\ A
  /\ part = "notes" => track' = track
  /\ part = "tracks" => struck' = struck
  /\ UNCHANGED <<part, displayVars, colorVars, hashVars, settingsVars, paceVars>>
ColoursStep(A) ==
  /\ part = "colours" /\ A
  /\ UNCHANGED <<part, displayVars, audioVars, hashVars, settingsVars, paceVars>>
HashStep(A) ==
  /\ part = "hash" /\ A
  /\ UNCHANGED <<part, displayVars, audioVars, colorVars, settingsVars, paceVars>>
ConfigStep(A) ==
  /\ part = "settings" /\ A
  /\ UNCHANGED <<part, displayVars, audioVars, colorVars, hashVars, paceVars>>
PaceStep(A) ==
  /\ part = "pace" /\ A
  /\ UNCHANGED <<part, displayVars, audioVars, colorVars, hashVars, settingsVars>>

DevicesNext ==
  \/ DisplayStep(Next)
  \/ AudioStep(AudioNext)
  \/ ColoursStep(ColorNext)
  \/ HashStep(Hash!ShaNext)
  \/ ConfigStep(SettingsNext)
  \/ PaceStep(PaceNext)

\* The machine's thread goes on, a frame is drawn in every iteration of the host's loop,
\* and a system that has not stopped pushes audio again and again: the instructions of a
\* frame are counted (target_cpf).
DevicesSpec ==
  /\ DevicesInit /\ [][DevicesNext]_deviceVars
  /\ WF_deviceVars(DisplayStep(Worker))
  /\ SF_deviceVars(DisplayStep(push_audio_data))
  /\ WF_deviceVars(DisplayStep(render_display))
-----------------------------------------------------------------------------
\* The hash is SHA-1, however it is fed and whatever the processor has: see SHA1.
HashIsStandard == Hash!HashIsStandard

\* SHA1_Helpers.hpp: "Incrementally hashes a memory buffer using SHA1": see SHA1.
HashIsAlwaysStandard == Hash!HashIsAlwaysStandard
=============================================================================
