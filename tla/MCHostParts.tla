---------------------------- MODULE MCHostParts ----------------------------
(***************************************************************************)
(* Parts of the hosts that share no state: the transcribe command, the     *)
(* catalog of the desktop CLI's tools, a call of a workspace tool, the     *)
(* playback of the Discord voice bridge, and the speaker and the capture   *)
(* of the desktop devices.  A run is one of them, the others at rest.  In  *)
(* the catalog 64 bits are 4, a day is 6 seconds, an hour 3, a minute 2.   *)
(***************************************************************************)
EXTENDS TranscribeHost, ToolCatalog, WorkspaceTools, VoicePlayback, SpeakerPlayback, AudioCapture

\* A profile without desktop tools, and one with a single one.
MCProfiles == {{"timer", "read_file"}, {"run_command", "speaker"}}

\* Nothing, a second, the longest timer, one second more, a sum that fits 64 bits
\* and one that does not, and a product of each unit that does not.
MCTimerArgs ==
  LET duration(d, h, m, s) == [days |-> d, hours |-> h, minutes |-> m, seconds |-> s]
  IN {duration(0, 0, 0, 0), duration(0, 0, 0, 1), duration(0, 2, 1, 2), duration(0, 2, 1, 3), duration(1, 2, 1, 1),
      duration(1, 2, 1, 2), duration(3, 0, 0, 0), duration(0, 6, 0, 1), duration(0, 0, 8, 1)}

\* Directories in a directory, with an entry that leads out of it and of one of them.
MCChildren == [root |-> {"a", "b", "out"}, a |-> {"c", "d"}, b |-> {"e", "away"}, out |-> {"x"}]

VARIABLE part

partsVars == <<part, vars, catalogVars, workspaceVars, playbackVars, speakerVars, captureVars>>

PartsInit ==
  /\ part \in {"transcribe", "catalog", "workspace", "bridge", "speaker", "capture"}
  /\ Init /\ CatalogInit /\ WorkspaceInit /\ PlaybackInit /\ SpeakerInit /\ CaptureInit
  /\ part # "catalog" => savedTools = Unset
  /\ part # "workspace" => tool = "run_command" /\ wanted = 6
  /\ part # "speaker" => rate = ModelRate
  /\ part # "capture" => captureHost = "desktop"

PartsNext ==
  /\ UNCHANGED part
  /\ \/ /\ part = "transcribe" /\ Next
        /\ UNCHANGED <<catalogVars, workspaceVars, playbackVars, speakerVars, captureVars>>
     \/ /\ part = "catalog" /\ CatalogNext
        /\ UNCHANGED <<vars, workspaceVars, playbackVars, speakerVars, captureVars>>
     \/ /\ part = "workspace" /\ WorkspaceNext
        /\ UNCHANGED <<vars, catalogVars, playbackVars, speakerVars, captureVars>>
     \/ /\ part = "bridge" /\ PlaybackNext
        /\ UNCHANGED <<vars, catalogVars, workspaceVars, speakerVars, captureVars>>
     \/ /\ part = "speaker" /\ SpeakerNext
        /\ UNCHANGED <<vars, catalogVars, workspaceVars, playbackVars, captureVars>>
     \/ /\ part = "capture" /\ CaptureNext
        /\ UNCHANGED <<vars, catalogVars, workspaceVars, playbackVars, speakerVars>>

PartsFairness == Fairness /\ WorkspaceFairness /\ PlaybackFairness /\ SpeakerFairness

PartsSpec == PartsInit /\ [][PartsNext]_partsVars /\ PartsFairness
=============================================================================
