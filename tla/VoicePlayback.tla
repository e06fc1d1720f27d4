--------------------------- MODULE VoicePlayback ---------------------------
(***************************************************************************)
(* The playback path of the Discord voice bridge                           *)
(* (crates/gemini-live-discord/src/voice.rs): model audio is queued, and a *)
(* track that reads the queue is played while there is any.                *)
(*                                                                         *)
(* The event pump queues and clears audio and starts a track; the end of a *)
(* track runs a handler that may start the next one; leaving the channel   *)
(* deactivates the playback.  The voice driver reads, ends and drops the   *)
(* sources of its tracks in threads of its own.  A source clears the queue *)
(* when it is dropped, whatever track is current by then.                  *)
(***************************************************************************)
EXTENDS Naturals, SequencesExt, FiniteSets

CONSTANTS
  Pump,      \* the task of the event pump
  NoTrack,   \* no track, or nobody
  MaxChunks, \* bounds of the model: chunks of model audio
  MaxTracks  \* and tracks started

ASSUME PlaybackAssumption ==
  NoTrack \notin Nat /\ Pump \notin Nat /\ Pump # NoTrack /\ {MaxChunks, MaxTracks} \subseteq Nat

VARIABLES
  queued,     \* the chunks of PlaybackState
  playing,    \* active
  generation, \* track_generation: that of the track being started or played
  track,      \* the handle kept to stop it
  nextTrack,  \* next_track_generation
  startLock,  \* who holds start_lock
  pc,         \* per starter: "idle", "waiting", "starting" or "settling"
  mine,       \* the generation it is starting
  trackSource, \* external: what became of the source of each track
  handler,    \* per track: "none", "fired" or "done", its end handler
  pushed,     \* chunks the model has sent so far
  cleared,    \* of these, how many when the queue was last cleared
  played      \* history: the chunks read by a track

stateVars  == <<queued, playing, generation, track, nextTrack>>
starterVars == <<startLock, pc, mine>>
driverVars == <<trackSource, handler>>
historyVars == <<pushed, cleared, played>>
playbackVars == <<stateVars, starterVars, driverVars, historyVars>>

Generations == 0..(MaxTracks - 1)
Starters    == Generations \cup {Pump}
Readable    == {g \in Generations : trackSource[g] \in {"playing", "stopping"}}

\* TrackHandle::stop is a message to the driver.
Stopped(g, sources) ==
  [h \in Generations |-> IF h = g /\ sources[h] = "playing" THEN "stopping" ELSE sources[h]]

DiscardQueue == queued' = <<>>

TakeTrack == track' = NoTrack

\* stop_playback, on top of what else happens to the sources.
StopPlayback(sources) ==
  /\ DiscardQueue
  /\ generation' = NoTrack /\ TakeTrack
  /\ trackSource' = Stopped(track, sources)

-----------------------------------------------------------------------------
(* The event pump.                                                         *)

AcceptsAudio == playing

\* Mutant: a track is not looked for.
QueueOnly == UNCHANGED pc

QueueAndStart == pc' = [pc EXCEPT ![Pump] = "waiting"]

\* push_model_audio, up to the lock; it fails on a bridge that is shut down.
Push ==
  /\ pc[Pump] = "idle"
  /\ pushed < MaxChunks /\ pushed' = pushed + 1
  /\ AcceptsAudio
  /\ queued' = Append(queued, pushed')
  /\ QueueAndStart
  /\ UNCHANGED <<playing, generation, track, nextTrack, startLock, mine, driverVars, cleared, played>>

\* clear_model_audio, when the user interrupts the model.
Clear ==
  /\ pc[Pump] = "idle" /\ cleared < pushed
  /\ cleared' = pushed
  /\ StopPlayback(trackSource)
  /\ UNCHANGED <<playing, nextTrack, starterVars, handler, pushed, played>>

-----------------------------------------------------------------------------
(* ensure_playback_track.                                                  *)

MayStart == playing /\ queued # <<>> /\ generation = NoTrack

Lock(p) == pc[p] = "waiting" /\ startLock = NoTrack

NothingToStart(p) ==
  /\ Lock(p) /\ ~MayStart
  /\ pc' = [pc EXCEPT ![p] = "idle"]
  /\ UNCHANGED <<stateVars, startLock, mine, driverVars, historyVars>>

\* The generation is taken, and the source is made and parsed.
BeginStart(p) ==
  /\ Lock(p) /\ MayStart
  /\ nextTrack < MaxTracks /\ nextTrack' = nextTrack + 1
  /\ generation' = nextTrack
  /\ startLock' = p /\ mine' = [mine EXCEPT ![p] = nextTrack]
  /\ pc' = [pc EXCEPT ![p] = "starting"]
  /\ trackSource' = [trackSource EXCEPT ![nextTrack] = "built"]
  /\ UNCHANGED <<queued, playing, track, handler, historyVars>>

\* The source cannot be parsed and is dropped: clear_track_after_failed_start
\* has nothing left to do.
StartFails(p) ==
  /\ pc[p] = "starting"
  /\ StopPlayback([trackSource EXCEPT ![mine[p]] = "dropped"])
  /\ startLock' = NoTrack /\ pc' = [pc EXCEPT ![p] = "idle"]
  /\ UNCHANGED <<playing, nextTrack, mine, handler, historyVars>>

\* play_only: whatever else the call plays is stopped.
ReplacingAll(g) ==
  [h \in Generations |-> CASE h = g                 -> "playing"
                            [] h \in Readable \ {g} -> "stopping"
                            [] OTHER                -> trackSource[h]]

PlayOnly(p) ==
  /\ pc[p] = "starting"
  /\ trackSource' = ReplacingAll(mine[p])
  /\ pc' = [pc EXCEPT ![p] = "settling"]
  /\ UNCHANGED <<stateVars, startLock, mine, handler, historyVars>>

\* Whether the track just started is still the one to play.
StillWanted(p) == generation = mine[p] /\ playing /\ queued # <<>>

Settle(p) ==
  /\ pc[p] = "settling"
  /\ IF StillWanted(p)
     THEN track' = mine[p] /\ UNCHANGED <<generation, trackSource>>
     ELSE /\ generation' = (IF generation = mine[p] THEN NoTrack ELSE generation)
          /\ trackSource' = Stopped(mine[p], trackSource)
          /\ UNCHANGED track
  /\ startLock' = NoTrack /\ pc' = [pc EXCEPT ![p] = "idle"]
  /\ UNCHANGED <<queued, playing, nextTrack, mine, handler, historyVars>>

-----------------------------------------------------------------------------
(* The end of a track: PlaybackTrackEndHandler and finish_playback_track.  *)

Finish(g) ==
  /\ handler[g] = "fired" /\ handler' = [handler EXCEPT ![g] = "done"]
  /\ IF generation = g
     THEN /\ generation' = NoTrack /\ track' = NoTrack
          /\ pc' = IF playing /\ queued # <<>> THEN [pc EXCEPT ![g] = "waiting"] ELSE pc
     ELSE UNCHANGED <<generation, track, pc>>
  /\ UNCHANGED <<queued, playing, nextTrack, startLock, mine, trackSource, historyVars>>

-----------------------------------------------------------------------------
(* Shutdown, by the task that leaves the channel.                          *)

Deactivate ==
  /\ playing /\ playing' = FALSE
  /\ StopPlayback(trackSource)
  /\ UNCHANGED <<nextTrack, starterVars, handler, historyVars>>

-----------------------------------------------------------------------------
(* External: the driver.                                                   *)

\* PlaybackSource::read takes the next chunk, or says that there is none.
ReadTrack(g) ==
  /\ g \in Readable
  /\ queued # <<>>
  /\ queued' = Tail(queued) /\ played' = Append(played, Head(queued))
  /\ UNCHANGED <<playing, generation, track, nextTrack, starterVars, driverVars, pushed, cleared>>

\* A track ends when its source is dry or it was stopped.
End(g) ==
  /\ g \in Readable
  /\ queued = <<>> \/ trackSource[g] = "stopping"
  /\ trackSource' = [trackSource EXCEPT ![g] = "ended"]
  /\ handler' = [handler EXCEPT ![g] = "fired"]
  /\ UNCHANGED <<stateVars, starterVars, historyVars>>

\* The source of an ended track is dropped, before or after the handler runs.
DropSource(g) ==
  /\ trackSource[g] = "ended"
  /\ StopPlayback([trackSource EXCEPT ![g] = "dropped"])
  /\ UNCHANGED <<playing, nextTrack, starterVars, handler, historyVars>>

-----------------------------------------------------------------------------
PlaybackInit ==
  /\ queued = <<>> /\ playing = TRUE
  /\ generation = NoTrack /\ track = NoTrack /\ nextTrack = 0
  /\ startLock = NoTrack /\ pc = [p \in Starters |-> "idle"] /\ mine = [p \in Starters |-> NoTrack]
  /\ trackSource = [g \in Generations |-> "none"] /\ handler = [g \in Generations |-> "none"]
  /\ pushed = 0 /\ cleared = 0 /\ played = <<>>

Start(p)  == NothingToStart(p) \/ BeginStart(p) \/ StartFails(p) \/ PlayOnly(p) \/ Settle(p)
Driver(g) == ReadTrack(g) \/ End(g) \/ DropSource(g)

PlaybackNext ==
  \/ Push \/ Clear \/ Deactivate
  \/ \E p \in Starters : Start(p)
  \/ \E g \in Generations : Driver(g) \/ Finish(g)

PlaybackSpec == PlaybackInit /\ [][PlaybackNext]_playbackVars

\* The tasks are polled, and the driver plays, ends and drops its tracks.
PlaybackFairness ==
  /\ \A p \in Starters : WF_playbackVars(Start(p))
  /\ \A g \in Generations : WF_playbackVars(Driver(g)) /\ WF_playbackVars(Finish(g))

PlaybackFairSpec == PlaybackSpec /\ PlaybackFairness

-----------------------------------------------------------------------------
(* Properties.                                                             *)

Chunks == 1..MaxChunks

PlaybackTypeOK ==
  /\ queued \in Seq(Chunks) /\ playing \in BOOLEAN
  /\ generation \in Generations \cup {NoTrack} /\ track \in {NoTrack, generation} /\ nextTrack \in 0..MaxTracks
  /\ startLock \in Starters \cup {NoTrack}
  /\ pc \in [Starters -> {"idle", "waiting", "starting", "settling"}]
  /\ mine \in [Starters -> Generations \cup {NoTrack}]
  /\ trackSource \in [Generations -> {"none", "built", "playing", "stopping", "ended", "dropped"}]
  /\ handler \in [Generations -> {"none", "fired", "done"}]
  /\ cleared <= pushed /\ pushed <= MaxChunks

\* Once the bridge is shut down no audio is queued, and none is kept for a track.
ShutDownIsEmpty == ~playing => queued = <<>> /\ track = NoTrack

\* Audio is heard in the order the model sent it, and none of it after the user
\* has interrupted it.
PlayedInOrder ==
  [][ played' # played => /\ Last(played') > cleared
                          /\ played = <<>> \/ Last(played') > Last(played) ]_playbackVars

\* Queued audio does not wait for more: it is played, or given up.
QueueDrains == playing /\ queued # <<>> ~> queued = <<>> \/ nextTrack = MaxTracks

\* Not met: audio is given up only when the user interrupts, a track cannot be
\* started or the bridge is shut down, and a drained track takes nothing with it.
DrainLosesNothing ==
  [][ \A g \in Generations : trackSource[g] = "ended" /\ trackSource'[g] = "dropped" => queued' = queued ]_playbackVars

\* What the bridge promises of the model's audio: in order, in the end, and none
\* after the shutdown.
PlaybackContract == []PlaybackTypeOK /\ []ShutDownIsEmpty /\ PlayedInOrder /\ QueueDrains
=============================================================================
