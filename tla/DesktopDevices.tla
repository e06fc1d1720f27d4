--------------------------- MODULE DesktopDevices ---------------------------
(***************************************************************************)
(* The devices of the desktop CLI and the profile they are restored from:  *)
(* the launch that resolves the profile and writes it back (main.rs,       *)
(* startup.rs), the autostart and the commands of cli/src/desktop.rs, the  *)
(* requests of desktop tools through cli/src/desktop_control.rs, the       *)
(* profile store (cli/src/profile.rs over the harness's profile.rs), and   *)
(* the capture threads of io/src/screen/capture.rs.                        *)
(*                                                                         *)
(* What a forwarded frame does to the session is the subject of CliHost.   *)
(* A frame is the capture it is from, a target the id and the interval.    *)
(***************************************************************************)
EXTENDS Naturals, FiniteSets, SequencesExt, StartupProfile

CONSTANTS
  Envs,             \* the environments a launch may meet
  Targets,          \* what a screen share may be asked for
  Invalid,          \* a share without a target, or with an interval that is not positive
  QueueCap,         \* capacity of the control channel (8 in the code)
  FrameCap,         \* capacity of the frame channel (2 in the code)
  MaxCaptures,      \* bounds of the model: captures started in a run,
  MaxLaunches,      \* runs,
  MaxSlashCommands, \* slash commands,
  MaxRequests,      \* tool calls that reach for a device
  MaxFailedSaves    \* and writes that fail

ASSUME DesktopAssumption ==
  /\ \A env \in Envs : DOMAIN env = EnvKeys
  /\ None \notin Targets \cup BOOLEAN /\ Invalid \notin Targets \cup {None}
  /\ {QueueCap, FrameCap} \subseteq Nat \ {0}
  /\ {MaxCaptures, MaxLaunches, MaxSlashCommands, MaxRequests, MaxFailedSaves} \subseteq Nat

VARIABLES
  disk,       \* the active profile in the config file: the access, mic, speaker and share
  memory,     \* the copy of the ProfileStore
  saveFailed, \* whether the last save of this run failed
  phase,      \* "ended", the device to start by itself next, or "loop"
  startup,    \* the StartupConfig: the access, and the devices to start
  desk,       \* the devices in use: mic, speaker, and the target shared or None
  captures,   \* the capture threads of this run: target, stop flag, and where it is
  frames,     \* the frame channel
  newest,     \* history: the youngest capture a frame has been forwarded of
  call,       \* per request: "idle", "sending", "waiting", "settled" (answered, or given
              \* up by its caller) or "refused" (told that no host listens)
  queue,      \* the control channel
  launches, slashCommands, failedSaves

store       == <<disk, memory, saveFailed>>
screens     == <<captures, frames, newest>>
control     == <<call, queue>>
counters    == <<launches, slashCommands, failedSaves>>
desktopVars == <<store, phase, startup, desk, screens, control, counters>>

Requests == 1..MaxRequests

Audio == {"mic", "speaker"}
AllOff == [mic |-> FALSE, speaker |-> FALSE, share |-> None]
Actions == [device : Audio, to : BOOLEAN]
           \cup [device : {"share"}, to : Targets \cup {None, Invalid}]

-----------------------------------------------------------------------------
(* The profile store.                                                      *)

\* save: the whole profile of this process replaces the file.
Saves(profile) ==
  /\ memory' = profile /\ disk' = profile /\ saveFailed' = FALSE
  /\ UNCHANGED failedSaves

\* The file is not written, or is and default-profile.json cannot be; the copy
\* has changed by then.
SaveFails(profile) ==
  /\ failedSaves < MaxFailedSaves /\ failedSaves' = failedSaves + 1
  /\ memory' = profile /\ disk' \in {disk, profile} /\ saveFailed' = TRUE

-----------------------------------------------------------------------------
(* The devices.                                                            *)

Done(after)   == [desk |-> after, ok |-> TRUE]
Failed(after) == [desk |-> after, ok |-> FALSE]

\* set_mic_enabled and set_speaker_enabled: only a start can fail.
AudioOutcomes(device, enabled) ==
  {Done([desk EXCEPT ![device] = enabled])}
    \cup IF enabled /\ ~desk[device] THEN {Failed(desk)} ELSE {}

\* set_screen_share: the running share is dropped before the next is started.
ShareOutcomes(target) ==
  CASE target = Invalid              -> {Failed(desk)}
    [] target \in {None, desk.share} -> {Done([desk EXCEPT !.share = target])}
    [] OTHER -> {Failed([desk EXCEPT !.share = None])}
                  \cup IF Len(captures) < MaxCaptures THEN {Done([desk EXCEPT !.share = target])} ELSE {}

Outcomes(action) ==
  IF action.device = "share" THEN ShareOutcomes(action.to) ELSE AudioOutcomes(action.device, action.to)

\* persist_audio_state.
AudioNoted(profile, after) == [profile EXCEPT !.mic = after.mic, !.speaker = after.speaker]

\* persist_screen_state.
ShareNoted(profile, after) == [profile EXCEPT !.share = after.share]

Noted(device, after) ==
  IF device = "share" THEN ShareNoted(memory, after) ELSE AudioNoted(memory, after)

\* The capture dropped is told to stop, the one started runs.
Share(after) ==
  LET dropped == [w \in DOMAIN captures |-> [captures[w] EXCEPT !.stopped = TRUE]]
      started == [target |-> after.share, stopped |-> FALSE, at |-> "looking"]
  IN captures' = IF after.share = desk.share THEN captures
                 ELSE dropped \o IF after.share = None THEN <<>> ELSE <<started>>

\* The program goes on with the devices it has now.
Adopt(after) ==
  /\ desk' = after /\ Share(after)
  /\ UNCHANGED <<frames, newest, startup, launches>>

\* The program ends: what it held is gone, and with it whoever waits for an answer.
EndRun ==
  /\ phase' = "ended" /\ desk' = AllOff
  /\ captures' = <<>> /\ frames' = <<>> /\ newest' = 0 /\ queue' = <<>>
  /\ call' = [r \in Requests |-> IF call[r] \in {"sending", "waiting"} THEN "settled" ELSE call[r]]
  /\ UNCHANGED <<startup, launches>>

-----------------------------------------------------------------------------
(* A run of the program.                                                   *)

\* main: what the launch resolved is written back before anything starts.
Launch(env) ==
  /\ phase = "ended" /\ launches < MaxLaunches /\ launches' = launches + 1
  /\ Resolves(env, disk.access)
  /\ LET profile == [disk EXCEPT !.access = Persisted(Access(env, disk.access))]
     IN \/ /\ Saves(profile) /\ phase' = "speaker"
           /\ startup' = [profile EXCEPT !.access = Access(env, disk.access)]
        \/ SaveFails(profile) /\ UNCHANGED <<phase, startup>>
  /\ UNCHANGED <<desk, screens, control, slashCommands>>

Following == [speaker |-> "mic", mic |-> "share", share |-> "loop"]

\* DesktopAudio::autostart and DesktopScreen::autostart: what was on is started,
\* and noted whether it did or not.
Autostart ==
  /\ phase \in Audio \cup {"share"}
  /\ IF startup[phase] \in {FALSE, None}
     THEN phase' = Following[phase] /\ UNCHANGED <<store, startup, desk, screens, control, launches, failedSaves>>
     ELSE \E outcome \in Outcomes([device |-> phase, to |-> startup[phase]]) :
            \/ /\ Saves(Noted(phase, outcome.desk))
               /\ Adopt(outcome.desk) /\ phase' = Following[phase] /\ UNCHANGED control
            \/ SaveFails(Noted(phase, outcome.desk)) /\ EndRun
  /\ UNCHANGED slashCommands

\* handle_command, and the quiet forms of /share-screen; a toggle asks for the
\* opposite of what is.  A profile that cannot be saved ends the program.
SlashCommand(action) ==
  /\ phase = "loop" /\ slashCommands < MaxSlashCommands /\ slashCommands' = slashCommands + 1
  /\ action.device = "share" \/ action.to # desk[action.device]
  /\ \E outcome \in Outcomes(action) :
       \/ Saves(Noted(action.device, outcome.desk)) /\ Adopt(outcome.desk) /\ UNCHANGED <<phase, control>>
       \/ SaveFails(Noted(action.device, outcome.desk)) /\ EndRun

\* The user quits, or the process dies.
Exit ==
  /\ phase # "ended" /\ EndRun
  /\ UNCHANGED <<store, slashCommands, failedSaves>>

-----------------------------------------------------------------------------
(* Requests of tools.                                                      *)

Ask(r) ==
  /\ phase = "loop" /\ call[r] = "idle" /\ \A earlier \in 1..(r - 1) : call[earlier] # "idle"
  /\ call' = [call EXCEPT ![r] = "sending"]
  /\ UNCHANGED <<store, phase, startup, desk, screens, queue, counters>>

Send(r) ==
  /\ call[r] = "sending" /\ Len(queue) < QueueCap
  /\ call' = [call EXCEPT ![r] = "waiting"] /\ queue' = Append(queue, r)
  /\ UNCHANGED <<store, phase, startup, desk, screens, counters>>

\* The call is cancelled; what it has sent stays in the channel.
Cancel(r) ==
  /\ call[r] \in {"sending", "waiting"}
  /\ call' = [call EXCEPT ![r] = "settled"]
  /\ UNCHANGED <<store, phase, startup, desk, screens, queue, counters>>

Reply(r, answer) == call' = IF call[r] = "waiting" THEN [call EXCEPT ![r] = answer] ELSE call

\* Mutant: the return for a profile that cannot be saved comes without an answer; the
\* request is dropped with its reply channel, and its caller is told there is no host.
RespondUnlessUnsaved(r) == Reply(r, IF saveFailed' /\ ~saveFailed THEN "refused" ELSE "settled")

\* respond: who has stopped waiting does not hear of it.
Respond(r) == Reply(r, "settled")

\* Mutant: a tool's change is not written to the profile.
NotPersisted(device, outcome) == UNCHANGED <<store, failedSaves>>

\* The profile is written when the device did as it was told, and a profile that
\* cannot be written is an answer, not the end.
PersistIfOk(device, outcome) ==
  IF outcome.ok
    THEN Saves(Noted(device, outcome.desk)) \/ SaveFails(Noted(device, outcome.desk))
    ELSE UNCHANGED <<store, failedSaves>>

\* handle_control_request; one that only looks changes nothing but its answer.
HandleRequest ==
  /\ phase = "loop" /\ queue # <<>> /\ queue' = Tail(queue)
  /\ \/ UNCHANGED <<store, startup, desk, screens, launches, failedSaves>>
     \/ \E action \in Actions : \E outcome \in Outcomes(action) :
          PersistIfOk(action.device, outcome) /\ Adopt(outcome.desk)
  /\ Respond(Head(queue))
  /\ UNCHANGED <<phase, slashCommands>>

-----------------------------------------------------------------------------
(* The capture threads and the frame channel.                              *)

MoveTo(w, place) ==
  /\ captures' = [captures EXCEPT ![w].at = place]
  /\ UNCHANGED <<store, phase, startup, desk, newest, control, counters>>

NotStopped(w) == ~captures[w].stopped

\* The head of capture_loop; a capture that fails sleeps and looks again.
Capture(w) == captures[w].at = "looking" /\ NotStopped(w) /\ MoveTo(w, "holding") /\ UNCHANGED frames

\* blocking_send waits for room.
SendFrame(w) ==
  /\ captures[w].at = "holding" /\ Len(frames) < FrameCap
  /\ frames' = Append(frames, w) /\ MoveTo(w, "looking")

Leave(w) == captures[w].at = "looking" /\ captures[w].stopped /\ MoveTo(w, "gone") /\ UNCHANGED frames

\* The screen branch of the loop and forward_frame.
ForwardFrame ==
  /\ phase = "loop" /\ frames # <<>>
  /\ frames' = Tail(frames)
  /\ newest' = IF Head(frames) > newest THEN Head(frames) ELSE newest
  /\ UNCHANGED <<store, phase, startup, desk, captures, control, counters>>

-----------------------------------------------------------------------------
EmptyProfile == [access |-> NoAccess, mic |-> FALSE, speaker |-> FALSE, share |-> None]

DesktopInit ==
  /\ disk = EmptyProfile /\ memory = EmptyProfile /\ saveFailed = FALSE
  /\ phase = "ended" /\ startup = EmptyProfile /\ desk = AllOff
  /\ captures = <<>> /\ frames = <<>> /\ newest = 0
  /\ call = [r \in Requests |-> "idle"] /\ queue = <<>>
  /\ launches = 0 /\ slashCommands = 0 /\ failedSaves = 0

Thread(w) == Capture(w) \/ SendFrame(w) \/ Leave(w)

DesktopNext ==
  \/ \E env \in Envs : Launch(env)
  \/ Autostart \/ Exit
  \/ \E action \in Actions : SlashCommand(action)
  \/ \E r \in Requests : Ask(r) \/ Send(r) \/ Cancel(r)
  \/ HandleRequest \/ ForwardFrame
  \/ \E w \in DOMAIN captures : Thread(w)

DesktopSpec == DesktopInit /\ [][DesktopNext]_desktopVars

\* The threads are scheduled, and the loop's select takes every branch that is
\* ready again and again.
DesktopFairness ==
  /\ WF_desktopVars(HandleRequest) /\ WF_desktopVars(ForwardFrame)
  /\ WF_desktopVars(\E r \in Requests : Send(r))
  /\ \A w \in 1..MaxCaptures : SF_desktopVars(w \in DOMAIN captures /\ Thread(w))

DesktopFairSpec == DesktopSpec /\ DesktopFairness
-----------------------------------------------------------------------------
(* Properties.                                                             *)

DesktopTypeOK ==
  /\ {disk.share, memory.share, desk.share} \subseteq Targets \cup {None}
  /\ {disk.mic, disk.speaker, memory.mic, memory.speaker, desk.mic, desk.speaker, saveFailed} \subseteq BOOLEAN
  /\ phase \in Audio \cup {"ended", "share", "loop"}
  /\ Len(captures) <= MaxCaptures
  /\ \A w \in DOMAIN captures :
       /\ captures[w].target \in Targets /\ captures[w].at \in {"looking", "holding", "gone"}
       /\ captures[w].stopped <=> w # Len(captures) \/ desk.share = None
  /\ frames \in Seq(DOMAIN captures) /\ Len(frames) <= FrameCap
  /\ queue \in Seq(Requests) /\ Len(queue) <= QueueCap
  /\ call \in [Requests -> {"idle", "sending", "waiting", "settled", "refused"}]
  /\ \A r \in Requests : call[r] = "waiting" => Contains(queue, r)

\* Exporting the settings for one run seeds the profile for later runs
\* (docs/cli.md, Startup precedence): a launch with an empty environment would reach
\* the same backend, with the same credentials and model, as the run under way.
SeedsLaterRuns ==
  phase # "ended" => Resolves(NoEnv, disk.access) /\ Access(NoEnv, disk.access) = startup.access

\* The profile follows the devices: unless a write has failed, a crash now would
\* restore the audio devices as they are, and a share that is running.
ProfileFollows ==
  phase = "loop" /\ ~saveFailed =>
    /\ disk.mic = desk.mic /\ disk.speaker = desk.speaker
    /\ desk.share \in {None, disk.share}

\* Of what is in the channel behind its first i frames and in hand, at most one is
\* a frame of capture w.
AtMostOneLeft(w, i) ==
  LET left == {j \in DOMAIN frames : j > i /\ frames[j] = w}
  IN  /\ \A j, k \in left : j = k
      /\ left # {} => captures[w].at # "holding"

\* Once a frame of a new share has been forwarded, at most one of a share that was
\* stopped before can still follow: the one its thread had in hand.
Stragglers == \A w \in DOMAIN captures : w < newest => AtMostOneLeft(w, 0)

\* A capture told to stop ends, whether or not anything is shared after it.
ThreadsEnd ==
  \A w \in 1..MaxCaptures :
    w \in DOMAIN captures /\ captures[w].stopped ~> w \notin DOMAIN captures \/ captures[w].at = "gone"

\* A tool that reaches for a device is answered by the host, whatever fails, unless
\* the call is cancelled or the program ends: never is it told that there is no host.
RequestsAnswered ==
  \A r \in Requests : call[r] \in {"sending", "waiting"} ~> call[r] = "settled"

\* Not met: a call that was cancelled, and so does not wait, switches no device.
CancelledSwitchesNothing ==
  [][phase' = "loop" /\ queue # <<>> /\ queue' = Tail(queue) /\ call[Head(queue)] = "settled" => UNCHANGED desk]_desktopVars

\* Not met: a crash between the start of one device and the start of the next
\* leaves in the profile what was to be started.
AutostartKeeps == phase = "mic" => disk.mic = startup.mic

\* What holds of devices, profile and captures in every state.
DesktopInv == DesktopTypeOK /\ SeedsLaterRuns /\ ProfileFollows /\ Stragglers

\* Whoever waits for the devices is released: threads told to stop, and tools that ask.
DesktopProgress == ThreadsEnd /\ RequestsAnswered
=============================================================================
