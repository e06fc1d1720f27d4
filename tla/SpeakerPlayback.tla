-------------------------- MODULE SpeakerPlayback --------------------------
(***************************************************************************)
(* The playback path of the desktop devices                                *)
(* (crates/gemini-live-io/src/audio/speaker.rs): the host's loop queues    *)
(* model audio in a buffer and clears it when the model is interrupted,    *)
(* the device's thread plays from it.  Both take the buffer's mutex, the   *)
(* host by waiting for it, the device only if it is free: it must not      *)
(* wait, and plays silence instead.                                        *)
(*                                                                         *)
(* A sample is the number it was queued under.  What the device feeds to   *)
(* the echo canceller is left out.                                         *)
(***************************************************************************)
EXTENDS Integers, Sequences

CONSTANTS
  ModelRate,   \* MODEL_AUDIO_SAMPLE_RATE
  OutputRates, \* rates a device may run at
  Pieces,      \* how many samples a piece of model audio may hold
  Periods,     \* how many samples the device may ask for
  MaxQueued,   \* bounds of the model: samples numbered
  MaxStreams   \* and streams started

ASSUME SpeakerAssumption ==
  /\ ModelRate \in Nat \ {0} /\ OutputRates \subseteq Nat \ {0}
  /\ Pieces \subseteq Nat /\ Periods \subseteq Nat \ {0}
  /\ {MaxQueued, MaxStreams} \subseteq Nat

VARIABLES
  speaker,  \* whether there is a stream
  rate,     \* device_sample_rate
  streams,  \* streams started so far
  buffer,   \* the samples to be played
  holder,   \* of the buffer's mutex: "nobody", "host" or "device"
  job,      \* the host: "none", "push" or "clear"
  resampled, \* samples of the piece being pushed
  numbered,   \* samples numbered so far
  stale,    \* of these, how many when the last clear or the last stream ended
  heard,    \* history: the samples played
  thrown    \* history: how many were cleared

speakerVars == <<speaker, rate, streams, buffer, holder, job, resampled, numbered, stale,
                 heard, thrown>>

-----------------------------------------------------------------------------
(* The host's loop: one call at a time.                                    *)

HostIdle == job = "none"

\* push_model_pcm24k_i16, up to the mutex.
PushModelPcm ==
  /\ speaker /\ HostIdle
  /\ \E n \in Pieces :
       /\ resampled' = IF rate = ModelRate THEN n ELSE (n * rate) \div ModelRate
       /\ numbered + resampled' =< MaxQueued
  /\ job' = "push"
  /\ UNCHANGED <<speaker, rate, streams, buffer, holder, numbered, stale, heard, thrown>>

\* clear, up to the mutex.
ClearSpeaker ==
  /\ speaker /\ HostIdle /\ stale < numbered
  /\ job' = "clear"
  /\ UNCHANGED <<speaker, rate, streams, buffer, holder, resampled, numbered, stale, heard, thrown>>

\* lock: the host waits.
LockBuffer ==
  /\ ~HostIdle /\ holder = "nobody"
  /\ holder' = "host"
  /\ UNCHANGED <<speaker, rate, streams, buffer, job, resampled, numbered, stale, heard, thrown>>

FreshSamples == [i \in 1..resampled |-> numbered + i]

Unlock == job' = "none" /\ holder' = "nobody"

Extend ==
  /\ job = "push" /\ holder = "host"
  /\ buffer' = buffer \o FreshSamples /\ numbered' = numbered + resampled
  /\ Unlock /\ resampled' = 0
  /\ UNCHANGED <<speaker, rate, streams, stale, heard, thrown>>

\* Mutant: what is buffered is still played.
KeepBuffer == buffer' = buffer /\ thrown' = thrown

EmptyBuffer == buffer' = <<>> /\ thrown' = thrown + Len(buffer)

ClearBuffer ==
  /\ job = "clear" /\ holder = "host"
  /\ EmptyBuffer /\ stale' = numbered
  /\ Unlock
  /\ UNCHANGED <<speaker, rate, streams, resampled, numbered, heard>>

\* SpeakerPlayback::start, with a buffer of its own.
StartSpeaker ==
  /\ ~speaker /\ HostIdle
  /\ streams < MaxStreams /\ streams' = streams + 1
  /\ speaker' = TRUE /\ rate' \in OutputRates
  /\ UNCHANGED <<buffer, holder, job, resampled, numbered, stale, heard, thrown>>

\* The stream is dropped with its buffer, between two callbacks (external: cpal).
StopSpeaker ==
  /\ speaker /\ HostIdle /\ holder = "nobody"
  /\ speaker' = FALSE
  /\ EmptyBuffer /\ stale' = numbered
  /\ UNCHANGED <<rate, streams, holder, job, resampled, numbered, heard>>

-----------------------------------------------------------------------------
(* The device's thread.                                                    *)

\* try_lock succeeds; otherwise, and when there is nothing to play, it is silent.
TryLock == speaker /\ holder = "nobody" /\ buffer # <<>>

BeginFill ==
  /\ TryLock
  /\ holder' = "device"
  /\ UNCHANGED <<speaker, rate, streams, buffer, job, resampled, numbered, stale, heard, thrown>>

Left(n) == SubSeq(buffer, n + 1, Len(buffer))

\* fill_and_feed_aec_f32: as many samples as the buffer has, and silence.
FillAndFeedAec ==
  /\ holder = "device"
  /\ \E n \in Periods :
       LET taken == IF n < Len(buffer) THEN n ELSE Len(buffer)
       IN /\ heard' = heard \o SubSeq(buffer, 1, taken)
          /\ buffer' = Left(taken)
  /\ holder' = "nobody"
  /\ UNCHANGED <<speaker, rate, streams, job, resampled, numbered, stale, thrown>>

-----------------------------------------------------------------------------

SpeakerInit ==
  /\ speaker = FALSE /\ rate \in OutputRates /\ streams = 0
  /\ buffer = <<>> /\ holder = "nobody" /\ job = "none" /\ resampled = 0
  /\ numbered = 0 /\ stale = 0 /\ heard = <<>> /\ thrown = 0

HostCalls   == PushModelPcm \/ ClearSpeaker \/ LockBuffer \/ Extend \/ ClearBuffer \/ StartSpeaker \/ StopSpeaker
DeviceCallback == BeginFill \/ FillAndFeedAec

SpeakerNext == HostCalls \/ DeviceCallback

\* The host ends the call it is in, and the device asks again and again: it finds
\* the mutex free infinitely often, and not always when the host has it.
SpeakerFairness ==
  /\ WF_speakerVars(LockBuffer \/ Extend \/ ClearBuffer)
  /\ WF_speakerVars(FillAndFeedAec)
  /\ SF_speakerVars(BeginFill)

SpeakerSpec == SpeakerInit /\ [][SpeakerNext]_speakerVars
FairSpeakerSpec == SpeakerSpec /\ SpeakerFairness

-----------------------------------------------------------------------------
(* Properties.                                                             *)

SpeakerSamples == 0..MaxQueued

\* The state is well typed; whoever holds the mutex is in a call that took it.
SpeakerTypeOK ==
  /\ speaker \in BOOLEAN /\ rate \in OutputRates /\ streams \in 0..MaxStreams
  /\ {buffer, heard} \subseteq Seq(SpeakerSamples)
  /\ holder \in {"nobody", "host", "device"} /\ job \in {"none", "push", "clear"}
  /\ holder = "host" => job # "none"
  /\ {resampled, numbered, stale} \subseteq SpeakerSamples /\ thrown \in Nat

\* Each numbered sample is played once, waits, or was cleared, whichever of the two
\* threads comes first (clear, push_model_pcm24k_i16, fill_and_feed_aec_f32).
EachPlayedOnce ==
  /\ numbered = Len(heard) + Len(buffer) + thrown
  /\ \A i, j \in 1..Len(heard) : i < j => heard[i] < heard[j]

\* After an interruption has cleared the buffer, or the speaker was switched off and
\* on, nothing the model said before is heard any more.
NothingStaleIsHeard ==
  [][\A i \in (Len(heard) + 1)..Len(heard') : heard'[i] > stale]_speakerVars

\* Audio does not stay in the buffer: the host's pushes cannot keep the device from
\* the mutex for ever.
BufferDrains == buffer # <<>> ~> buffer = <<>>

\* What holds of the buffer in every state.
SpeakerInv == SpeakerTypeOK /\ EachPlayedOnce

\* What the speaker promises of the model's audio: each sample once, none of what
\* was cleared, and all of it in the end.
SpeakerContract == []SpeakerInv /\ NothingStaleIsHeard /\ BufferDrains
=============================================================================
