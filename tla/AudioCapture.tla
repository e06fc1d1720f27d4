---------------------------- MODULE AudioCapture ----------------------------
(***************************************************************************)
(* The capture path of the desktop devices (crates/gemini-live-io):        *)
(* audio/mic.rs, system.rs, pcm.rs, resample.rs.  A callback of the device *)
(* turns a buffer of samples into chunks of a fixed size and offers them,  *)
(* without waiting, to a bounded channel that the host's loop reads.  The  *)
(* microphone goes through the echo canceller, in frames of 10 ms; what a  *)
(* buffer holds beyond its last whole frame is dropped, and what is left   *)
(* of a chunk waits for the next buffer.                                   *)
(*                                                                         *)
(* Every stream has a callback and buffers of its own, and all streams of  *)
(* a host feed one channel.  The desktop host has a stream while its       *)
(* microphone is on; the transcribe host (transcribe/audio.rs) starts the  *)
(* stream of the other source before it drops the one it had, so that for  *)
(* a moment two callbacks offer chunks.                                    *)
(*                                                                         *)
(* A sample is the number its stream gave it when it had been converted,   *)
(* from 1 on; the values of samples and the canceller's filter are left    *)
(* out.                                                                    *)
(***************************************************************************)
EXTENDS Integers, Sequences

CONSTANTS
  AecRate,      \* AEC_SAMPLE_RATE
  Frame,        \* AEC_FRAME_SIZE
  OutRate,      \* output_sample_rate, SYSTEM_AUDIO_SAMPLE_RATE
  ChunkSamples, \* chunk_samples, SYSTEM_AUDIO_CHUNK_SAMPLES
  DeviceRates,  \* rates a device may run at
  Buffers,      \* how many samples a buffer of the device may hold
  ChannelCap,   \* capacity of the channel
  MaxSamples,   \* bounds of the model: samples a stream makes
  MaxToggles    \* and streams started

ASSUME CaptureAssumption ==
  /\ {AecRate, Frame, OutRate, ChunkSamples, ChannelCap} \subseteq Nat \ {0}
  /\ DeviceRates \subseteq Nat \ {0} /\ Buffers \subseteq Nat
  /\ {MaxSamples, MaxToggles} \subseteq Nat

VARIABLES
  captureHost,      \* "desktop" or "transcribe", which shapes what its streams make
  toggles,          \* streams started so far
  live,             \* the streams that run
  captureSource,    \* of each stream: "mic" or "system"
  made,             \* of each stream: samples converted so far
  pending,          \* of each stream: samples short of a chunk
  outbox,           \* of each stream: chunks its callback in progress has still to offer
  chan,             \* the channel to the host's loop
  received,         \* history: the chunks it has taken
  overrun           \* history, of each stream: samples of chunks a full channel has dropped

captureVars == <<captureHost, toggles, live, captureSource, made, pending, outbox, chan, received, overrun>>

CaptureStreams == 1..MaxToggles

\* The desktop host takes the microphone in the canceller's own shape; the
\* transcribe host has either source in one shape of its own.
Passthrough == captureHost = "desktop"

\* The samples of a chunk.
ChunkSize == IF Passthrough THEN Frame ELSE ChunkSamples

-----------------------------------------------------------------------------
(* The conversions.                                                        *)

\* The length linear_resample_into makes of n samples.
LinearResample(n, from, to) == IF from = to THEN n ELSE (n * to) \div from

\* The n samples that follow the first `count`.
FreshOutput(count, n) == [i \in 1..n |-> count + i]

ChunkOf(s, i) == [j \in 1..ChunkSize |-> s[(i - 1) * ChunkSize + j]]

\* drain_chunks: the whole chunks of s, in order.
DrainChunks(s) == [i \in 1..(Len(s) \div ChunkSize) |-> ChunkOf(s, i)]

\* Mutant: the front of s is left instead of its end.
RestOfFront(s) == [j \in 1..(Len(s) % ChunkSize) |-> s[j]]

\* What drain_chunks leaves.
RestOf(s) == [j \in 1..(Len(s) % ChunkSize) |-> s[Len(s) - (Len(s) % ChunkSize) + j]]

-----------------------------------------------------------------------------
(* The callback of stream w.                                               *)

\* Whole frames of the n samples of a buffer, at the canceller's rate.
Frames(n, rate) == LinearResample(n, rate, AecRate) \div Frame

\* n samples reach the end of the conversion: all of them at once.
EmitSamples(w, n) ==
  LET s == pending[w] \o FreshOutput(made[w], n) IN
  /\ n > 0 /\ made[w] + n =< MaxSamples
  /\ made' = [made EXCEPT ![w] = @ + n]
  /\ outbox' = [outbox EXCEPT ![w] = DrainChunks(s)]
  /\ pending' = [pending EXCEPT ![w] = RestOf(s)]
  /\ UNCHANGED <<captureHost, toggles, live, captureSource, chan, received, overrun>>

Callback(w, source) == w \in live /\ captureSource[w] = source /\ outbox[w] = <<>>

\* process_mic_samples: a frame the canceller refuses is left out; the frames
\* of a passthrough are its chunks.
ProcessMic(w) ==
  /\ Callback(w, "mic")
  /\ \E rate \in DeviceRates, n \in Buffers :
       \E clean \in 0..Frames(n, rate) :
         EmitSamples(w, IF Passthrough THEN clean * Frame
                        ELSE LinearResample(clean * Frame, AecRate, OutRate))

\* process_system_audio_samples.
ProcessSystem(w) ==
  /\ Callback(w, "system")
  /\ \E rate \in DeviceRates, n \in Buffers : EmitSamples(w, LinearResample(n, rate, OutRate))

ToChunk(w) == [stream |-> w, samples |-> Head(outbox[w])]

\* try_send: a chunk that finds no room is dropped.
Offer(w) ==
  \/ /\ Len(chan) < ChannelCap
     /\ chan' = Append(chan, ToChunk(w)) /\ UNCHANGED overrun
  \/ /\ Len(chan) >= ChannelCap
     /\ overrun' = [overrun EXCEPT ![w] = @ \cup {Head(outbox[w])[i] : i \in 1..ChunkSize}]
     /\ UNCHANGED chan

\* A callback that was in progress when its stream was dropped may still offer
\* what it has (external: cpal).
TrySend(w) ==
  /\ outbox[w] # <<>>
  /\ Offer(w)
  /\ outbox' = [outbox EXCEPT ![w] = Tail(@)]
  /\ UNCHANGED <<captureHost, toggles, live, captureSource, made, pending, received>>

-----------------------------------------------------------------------------
(* The hosts.                                                              *)

\* MicCapture::start and SystemAudioCapture::start.
StartStream(source) ==
  /\ toggles < MaxToggles /\ toggles' = toggles + 1
  /\ live' = live \cup {toggles'}
  /\ captureSource' = [captureSource EXCEPT ![toggles'] = source]
  /\ UNCHANGED <<captureHost, made, pending, outbox, chan, received, overrun>>

\* set_mic_enabled of the desktop host.
MicOn == Passthrough /\ live = {} /\ StartStream("mic")

DropStreams(gone) ==
  /\ live' = live \ gone
  /\ UNCHANGED <<captureHost, toggles, captureSource, made, pending, outbox, chan, received, overrun>>

MicOff == Passthrough /\ live # {} /\ DropStreams(live)

\* TranscribeAudio::start.
FirstStream == ~Passthrough /\ toggles = 0 /\ \E source \in {"mic", "system"} : StartStream(source)

\* A switch has started its stream and not yet dropped the one before.
Switching == \E w \in live : w # toggles

\* TranscribeAudio::switch: the stream of the other source first,
SwitchStream ==
  /\ ~Passthrough /\ toggles > 0 /\ ~Switching
  /\ \E source \in {"mic", "system"} \ {captureSource[toggles]} : StartStream(source)

\* and then the assignment that drops the old one.
DropOld == ~Passthrough /\ Switching /\ DropStreams(live \ {toggles})

\* next_captured: the loop is not there while it switches.
NextCaptured ==
  /\ chan # <<>> /\ ~Switching
  /\ received' = Append(received, Head(chan)) /\ chan' = Tail(chan)
  /\ UNCHANGED <<captureHost, toggles, live, captureSource, made, pending, outbox, overrun>>

-----------------------------------------------------------------------------

CaptureInit ==
  /\ captureHost \in {"desktop", "transcribe"} /\ toggles = 0 /\ live = {}
  /\ captureSource = [w \in CaptureStreams |-> "mic"]
  /\ made = [w \in CaptureStreams |-> 0]
  /\ pending = [w \in CaptureStreams |-> <<>>] /\ outbox = [w \in CaptureStreams |-> <<>>]
  /\ chan = <<>> /\ received = <<>>
  /\ overrun = [w \in CaptureStreams |-> {}]

CaptureNext ==
  \/ \E w \in CaptureStreams : ProcessMic(w) \/ ProcessSystem(w) \/ TrySend(w)
  \/ MicOn \/ MicOff \/ FirstStream \/ SwitchStream \/ DropOld \/ NextCaptured

CaptureSpec == CaptureInit /\ [][CaptureNext]_captureVars

-----------------------------------------------------------------------------
(* Properties.                                                             *)

CaptureSamples == 1..MaxSamples

CapturedChunks == [stream : CaptureStreams, samples : Seq(CaptureSamples)]

\* The state is well typed, the channel never holds more than its capacity, and
\* less than a chunk waits for the next buffer (drain_chunks, try_send).
CaptureTypeOK ==
  /\ captureHost \in {"desktop", "transcribe"}
  /\ toggles \in 0..MaxToggles /\ live \subseteq 1..toggles
  /\ captureSource \in [CaptureStreams -> {"mic", "system"}]
  /\ made \in [CaptureStreams -> 0..MaxSamples]
  /\ pending \in [CaptureStreams -> Seq(CaptureSamples)] /\ \A w \in CaptureStreams : Len(pending[w]) < ChunkSize
  /\ outbox \in [CaptureStreams -> Seq(Seq(CaptureSamples))]
  /\ chan \in Seq(CapturedChunks) /\ Len(chan) =< ChannelCap
  /\ received \in Seq(CapturedChunks)
  /\ overrun \in [CaptureStreams -> SUBSET CaptureSamples]

\* The chunks that are, or will be, heard by the host.
Heard == received \o chan

\* The chunk starts where the device's samples are cut into chunks from the first
\* on, and is whole.
WholeChunk(c) ==
  /\ Len(c) = ChunkSize
  /\ (c[1] - 1) % ChunkSize = 0
  /\ \A i \in 1..ChunkSize : c[i] = c[1] + i - 1

\* "chunk boundaries are stable across callback buffers" (pcm.rs:28-30): a chunk is
\* a run of consecutive samples of one stream, a whole number of chunks away from
\* where that stream began, however the device cut its buffers and whichever other
\* stream shares the channel.
ChunksAreStable ==
  /\ \A k \in 1..Len(Heard) : WholeChunk(Heard[k].samples)
  /\ \A w \in CaptureStreams : \A k \in 1..Len(outbox[w]) : WholeChunk(outbox[w][k])

\* All of the chunk comes before sample n.
EndsBefore(c, n) == c[ChunkSize] < n

\* What stream w has made that the host hears, and what its buffers still hold.
SamplesHeard(w) ==
  {Heard[k].samples[i] : k \in {m \in 1..Len(Heard) : Heard[m].stream = w}, i \in 1..ChunkSize}

SamplesHeld(w) ==
  {outbox[w][k][i] : k \in 1..Len(outbox[w]), i \in 1..ChunkSize} \cup {pending[w][j] : j \in 1..Len(pending[w])}

\* Whatever the channel drops, and however the chunks of two streams fall between
\* each other at a switch, those of one stream are heard in the order they were
\* captured, and before what its callback still holds.
HeardInOrder ==
  /\ \A k, m \in 1..Len(Heard) :
       k < m /\ Heard[k].stream = Heard[m].stream => EndsBefore(Heard[k].samples, Heard[m].samples[1])
  /\ \A w \in CaptureStreams :
       /\ \A k \in 1..Len(Heard) : Heard[k].stream = w => \A n \in SamplesHeld(w) : EndsBefore(Heard[k].samples, n)
       /\ \A k, m \in 1..Len(outbox[w]) : k < m => EndsBefore(outbox[w][k], outbox[w][m][1])
       /\ \A k \in 1..Len(outbox[w]), j \in 1..Len(pending[w]) : EndsBefore(outbox[w][k], pending[w][j])

\* Every sample a stream makes reaches the host, waits in the stream's buffers or
\* was in a chunk a full channel took, and then it is not heard: no buffer is
\* forgotten, and none is sent that is taken for dropped.
SamplesAccounted ==
  \A w \in CaptureStreams :
    /\ SamplesHeard(w) \cup SamplesHeld(w) \cup overrun[w] = 1..made[w]
    /\ overrun[w] \cap (SamplesHeard(w) \cup SamplesHeld(w)) = {}

\* Not met: the old stream is dropped and the new one started, "so in-flight chunks
\* from the old source drain naturally" (transcribe/audio.rs:67-69), that is, before
\* those of the new source: the new stream runs before the old one is dropped.
SourcesDoNotMix ==
  \A k, m \in 1..Len(Heard) : k < m => Heard[k].stream =< Heard[m].stream

\* What holds of samples, chunks and channel in every state.
CaptureInv == CaptureTypeOK /\ ChunksAreStable /\ HeardInOrder /\ SamplesAccounted
=============================================================================
