--------------------------- MODULE TranscribeHost ---------------------------
(***************************************************************************)
(* `gemini-live transcribe`: the event loop of one task                    *)
(* (transcribe/mod.rs), the state it renders and the lines it assembles    *)
(* (transcribe/state.rs), the capture it owns (transcribe/audio.rs) and the*)
(* settings it resolves, stages, applies and persists                      *)
(* (transcribe/startup.rs).  It talks to a core Session directly: to the   *)
(* status its runner publishes, which the loop polls once a second, and to *)
(* the broadcast of its events.                                            *)
(*                                                                         *)
(* A fragment of transcript is a number, a line a sequence of fragments,   *)
(* and a setup a model value.  The interim hypothesis, the notices and the *)
(* completions are only rendered and are left out.                         *)
(***************************************************************************)
EXTENDS Naturals, FiniteSets, SequencesExt

CONSTANTS
  Setups,       \* the transcription settings a user may stage
  FirstSetup,   \* those the profile resolves to
  Manual,       \* those of them that switch the automatic detection off
  Sources,      \* "mic" and "system"
  FirstSource,
  NotSaved,     \* nothing persisted yet
  EventCap,     \* capacity of the event broadcast (256 in the code)
  MaxFragments, \* bounds of the model: fragments heard,
  MaxCommands,  \* commands of the user
  MaxTrouble    \* and disconnections and failures

ASSUME TranscribeAssumption ==
  /\ FirstSetup \in Setups /\ Manual \subseteq Setups /\ FirstSource \in Sources /\ NotSaved \notin Setups
  /\ EventCap \in Nat \ {0}
  /\ {MaxFragments, MaxCommands, MaxTrouble} \subseteq Nat

VARIABLES
  at,         \* where the task is: "loop", "switching", "connecting" or "ended"
  status,     \* SessionStatus of the current session
  setup,      \* the settings the current session was connected with
  events,     \* its broadcast, as the cursor of the loop sees it
  lagged,     \* whether the cursor has been overtaken since it last read
  said,       \* fragments the server has sent
  shown,      \* app.connection
  line,       \* app.current_line
  activeSetup, \* app.active
  staged,     \* app.staged
  open,       \* app.manual_activity_open
  timed,      \* whether app.session_started_at is of the connection there is
  dead,       \* session_dead
  file,       \* the lines of the --output file
  missed,     \* fragments the file will never hold
  audioSource, \* the source of TranscribeAudio
  nextSource, \* the source it is being switched to
  capturing,  \* the sources whose streams run
  saved,      \* the transcribe section of the profile, or NotSaved
  unsaved,    \* whether the last attempt to persist failed
  commands, trouble

sessionVars == <<status, setup>>
inboxVars   == <<events, lagged, said>>
appVars     == <<shown, line, activeSetup, staged, open, timed, dead>>
fileVars    == <<file, missed>>
audioVars   == <<audioSource, nextSource, capturing>>
savedVars   == <<saved, unsaved>>
vars == <<at, sessionVars, inboxVars, appVars, fileVars, audioVars, savedVars, commands, trouble>>

Trouble == trouble < MaxTrouble /\ trouble' = trouble + 1

Fragments(queue) == {e[2] : e \in {f \in ToSet(queue) : f[1] = "final"}}

-----------------------------------------------------------------------------
(* External: the runner of the session, the subject of LiveSession.        *)

\* The broadcast drops its oldest event for a cursor that does not keep up.
Emit(event) ==
  IF Len(events) < EventCap
    THEN events' = Append(events, event) /\ UNCHANGED <<lagged, missed>>
    ELSE /\ events' = Append(Tail(events), event) /\ lagged' = TRUE
         /\ missed' = missed \cup Fragments(<<Head(events)>>)

HasRunner == at # "ended"

Say ==
  /\ HasRunner /\ status = "connected"
  /\ \/ said < MaxFragments /\ said' = said + 1 /\ Emit(<<"final", said'>>)
     \/ /\ said > 0 /\ (events # <<>> => Last(events)[1] = "final")
        /\ UNCHANGED said /\ Emit(<<"finished">>)
  /\ UNCHANGED <<at, sessionVars, appVars, file, audioVars, savedVars, commands, trouble>>

\* The server closes a connection, at its time limit, with a frame that is broadcast
\* as Closed although the runner reconnects; the network ends it without an event.
Disconnects ==
  /\ HasRunner /\ status = "connected" /\ Trouble
  /\ status' = "reconnecting"
  /\ Emit(<<"closed">>) \/ UNCHANGED <<events, lagged, missed>>
  /\ UNCHANGED <<at, setup, said, appVars, file, audioVars, savedVars, commands>>

\* The handshake is consumed by the runner: no event tells of a new connection.
Reconnects ==
  /\ HasRunner /\ status = "reconnecting"
  /\ status' = "connected" /\ timed' = FALSE
  /\ UNCHANGED <<at, setup, inboxVars, shown, line, activeSetup, staged, open, dead, fileVars, audioVars, savedVars,
                 commands, trouble>>

\* The runner gives up, after its last attempt to reconnect or past the deadline of a
\* GoAway: an Error tells of both, and no Closed.
GivesUp ==
  /\ HasRunner /\ status # "closed" /\ Trouble
  /\ status' = "closed"
  /\ Emit(<<"error">>)
  /\ UNCHANGED <<at, setup, said, appVars, file, audioVars, savedVars, commands>>

-----------------------------------------------------------------------------
(* Lines: state.rs and TranscriptWriter.                                   *)

\* Mutant: the line in flight is cleared without being written.
FlushForgets == /\ line' = <<>> /\ UNCHANGED <<fileVars, trouble>>

\* A line that cannot be written is reported in a notice and stays out of the file.
FlushLine ==
  /\ line' = <<>>
  /\ IF line = <<>> THEN UNCHANGED <<fileVars, trouble>>
     ELSE \/ file' = Append(file, line) /\ UNCHANGED <<missed, trouble>>
          \/ missed' = missed \cup ToSet(line) /\ Trouble /\ UNCHANGED file

\* observe_status.  The rotation is seen only if a poll falls into it, and no Closed
\* is read between that poll and the next.
Observe(polled) ==
  /\ shown' = polled
  /\ IF shown = "reconnecting" /\ polled = "connected"
       THEN timed' = TRUE /\ open' = FALSE
       ELSE UNCHANGED <<timed, open>>

\* Mutant: the status is polled only where an event has come.
PollNever == FALSE

Polls == ~dead /\ shown # status

\* The tick of every second, where the status is not what is shown.
Tick ==
  /\ at = "loop" /\ Polls
  /\ Observe(status)
  /\ UNCHANGED <<at, sessionVars, inboxVars, line, activeSetup, staged, dead, fileVars, audioVars, savedVars, commands,
                 trouble>>

\* next_observed_event and handle_server_event: a lag is only counted.
ReadLag ==
  /\ at = "loop" /\ ~dead /\ lagged
  /\ lagged' = FALSE
  /\ UNCHANGED <<at, sessionVars, events, said, appVars, fileVars, audioVars, savedVars, commands, trouble>>

ReadEvent ==
  /\ at = "loop" /\ ~dead /\ ~lagged /\ events # <<>>
  /\ events' = Tail(events)
  /\ CASE Head(events)[1] = "final"    -> line' = Append(line, Head(events)[2]) /\ UNCHANGED <<fileVars, trouble>>
       [] Head(events)[1] = "finished" -> FlushLine
       [] OTHER                        -> UNCHANGED <<line, fileVars, trouble>>
  /\ IF Head(events)[1] = "closed" THEN Observe("closed") ELSE UNCHANGED <<shown, timed, open>>
  /\ UNCHANGED <<at, sessionVars, lagged, said, activeSetup, staged, dead, audioVars, savedVars, commands>>

-----------------------------------------------------------------------------
(* The commands of the user.                                               *)

Command == at = "loop" /\ commands < MaxCommands /\ commands' = commands + 1

\* /mode, /lang, /vocab and /vad.
Stage ==
  /\ Command
  /\ \E s \in Setups \ {staged} : staged' = s
  /\ UNCHANGED <<at, sessionVars, inboxVars, shown, line, activeSetup, open, timed, dead, fileVars, audioVars,
                 savedVars, trouble>>

\* /start and /end.
ManualActivity ==
  /\ Command
  /\ activeSetup \in Manual /\ ~dead /\ status = "connected"
  /\ \E start \in BOOLEAN : open' = start
  /\ UNCHANGED <<at, sessionVars, inboxVars, shown, line, activeSetup, staged, timed, dead, fileVars, audioVars,
                 savedVars, trouble>>

Snapshot == [setup |-> activeSetup', source |-> audioSource']

\* persist: a profile that cannot be written is only logged.
Persist ==
  \/ saved' = Snapshot /\ unsaved' = FALSE /\ UNCHANGED trouble
  \/ unsaved' = TRUE /\ Trouble /\ UNCHANGED saved

\* /source: the other stream is started before the running one is dropped; one that
\* cannot be started changes nothing.
SwitchStarts ==
  /\ Command
  /\ \E s \in Sources \ {audioSource} : nextSource' = s
  /\ capturing' = {audioSource, nextSource'}
  /\ at' = "switching"
  /\ UNCHANGED <<sessionVars, inboxVars, appVars, fileVars, audioSource, savedVars, trouble>>

OnlyNext == {nextSource}

SwitchDone ==
  /\ at = "switching" /\ at' = "loop"
  /\ capturing' = OnlyNext /\ audioSource' = nextSource
  /\ UNCHANGED <<sessionVars, inboxVars, appVars, fileVars, nextSource, commands>>
  /\ Persist

ActiveKept == UNCHANGED activeSetup

\* /apply: the line in flight is flushed and the session closed, where it is
\* not dead; the loop then waits for the new connection.
ApplyStarts ==
  /\ Command
  /\ at' = "connecting"
  /\ FlushLine
  /\ ActiveKept
  /\ UNCHANGED <<sessionVars, inboxVars, shown, staged, open, timed, dead, audioVars, savedVars>>

Revived == dead' = FALSE

\* The new session comes with a new broadcast: what the old one held is lost.
ApplyConnects ==
  /\ at = "connecting" /\ at' = "loop"
  /\ status' = "connected" /\ setup' = staged
  /\ events' = <<>> /\ lagged' = FALSE /\ missed' = missed \cup Fragments(events)
  /\ Revived /\ activeSetup' = staged
  /\ shown' = "connected" /\ timed' = TRUE /\ open' = FALSE
  /\ UNCHANGED <<said, line, staged, file, audioVars, commands>>
  /\ Persist

\* What was not read of a session that is dead will not be.
ApplyFails ==
  /\ at = "connecting" /\ at' = "loop" /\ Trouble
  /\ status' = "closed" /\ dead' = TRUE /\ shown' = "closed"
  /\ events' = <<>> /\ lagged' = FALSE /\ missed' = missed \cup Fragments(events)
  /\ UNCHANGED <<setup, said, line, activeSetup, staged, open, timed, file, audioVars, savedVars, commands>>

\* The end of the loop flushes the line in flight and closes the session.
Quit ==
  /\ Command
  /\ at' = "ended"
  /\ FlushLine
  /\ UNCHANGED <<sessionVars, inboxVars, shown, activeSetup, staged, open, timed, dead, audioVars, savedVars>>

-----------------------------------------------------------------------------
Init ==
  /\ at = "loop"
  /\ status = "connected" /\ setup = FirstSetup
  /\ events = <<>> /\ lagged = FALSE /\ said = 0
  /\ shown = "connected" /\ line = <<>> /\ activeSetup = FirstSetup /\ staged = FirstSetup
  /\ open = FALSE /\ timed = TRUE /\ dead = FALSE
  /\ file = <<>> /\ missed = {}
  /\ audioSource = FirstSource /\ nextSource = FirstSource /\ capturing = {FirstSource}
  /\ saved = NotSaved /\ unsaved = FALSE
  /\ commands = 0 /\ trouble = 0

Runner == Say \/ Disconnects \/ Reconnects \/ GivesUp

ReadEvents == ReadLag \/ ReadEvent

Applies == ApplyConnects \/ ApplyFails

User == Stage \/ ManualActivity \/ SwitchStarts \/ ApplyStarts \/ Quit

Next == Runner \/ Tick \/ ReadEvents \/ SwitchDone \/ Applies \/ User

Spec == Init /\ [][Next]_vars

\* The loop polls its branches, and a connection attempt has timeouts.
Fairness == WF_vars(Tick) /\ WF_vars(ReadEvents \/ SwitchDone \/ Applies)

FairSpec == Spec /\ Fairness
-----------------------------------------------------------------------------
(* Properties.                                                             *)

Statuses == {"connected", "reconnecting", "closed"}

TypeOK ==
  /\ at \in {"loop", "switching", "connecting", "ended"}
  /\ {status, shown} \subseteq Statuses
  /\ {setup, activeSetup, staged} \subseteq Setups
  /\ Fragments(events) \cup missed \cup ToSet(line) \subseteq 1..said
  /\ Len(events) <= EventCap
  /\ {lagged, open, timed, dead, unsaved} \subseteq BOOLEAN
  /\ {audioSource, nextSource} \subseteq Sources /\ capturing \subseteq Sources
  /\ saved \in {NotSaved} \cup [setup : Setups, source : Sources]

\* Of fragments, which are numbered as they were sent.
Precedes(earlier, later) == \A f \in earlier, g \in later : f < g

Rising(fragments) == \A i, j \in DOMAIN fragments : i < j => fragments[i] < fragments[j]

InFile == UNION {ToSet(file[k]) : k \in DOMAIN file}

\* No fragment is lost, repeated or moved into another's place: whatever is
\* switched, applied or disconnected in between, each is in the file, in the line
\* in flight or still to be read, unless the broadcast overtook it, its line could
\* not be written or its session was replaced before it was read.
TranscriptComplete ==
  /\ Rising(line) /\ \A k \in DOMAIN file : Rising(file[k])
  /\ \A k, m \in DOMAIN file : k < m => Precedes(ToSet(file[k]), ToSet(file[m]))
  /\ Precedes(InFile, ToSet(line)) /\ Precedes(InFile \cup ToSet(line), Fragments(events))
  /\ \A i, j \in DOMAIN events : i < j => Precedes(Fragments(<<events[i]>>), Fragments(<<events[j]>>))
  /\ InFile \cup ToSet(line) \cup Fragments(events) \cup missed = 1..said

\* The settings shown as active, and persisted by a later switch of the source,
\* are those of the last session that was connected, also where an apply fails.
ActiveIsConnected == activeSetup = setup

\* The next run starts where this one left off: with the settings that were
\* applied, never those only staged, and the source in use.
StartsWhereLeftOff ==
  at = "loop" /\ saved # NotSaved /\ ~unsaved => saved = [setup |-> activeSetup, source |-> audioSource]

\* Only the stream of the chosen source captures, but for the moment of a switch.
CapturesChosen == at # "switching" => capturing = {audioSource}

\* What is shown of the connection comes to agree with it again and again: a session
\* that is lost is shown as closed although no Closed is broadcast, and one whose
\* Closed was only a rotation, and may be read long after, is not left shown as lost.
StatusShown == []<>(shown = status \/ at = "ended")

\* Everything the server sends is read in the end, on whichever session.
FragmentsRead == (Fragments(events) # {}) ~> (at = "ended" \/ Fragments(events) = {})

\* Not met: the line in flight at a rotation is flushed, as the source's header
\* says, and no line goes on over two connections.
RotationFlushes == [][timed' /\ ~timed => line' = <<>>]_vars

\* Not met: the "Reconnecting -> Connected transition" resets the timer and ends the
\* manual activity (state.rs:141-153): the loop misses it where no poll falls into it,
\* or where the Closed that began it is read after the poll.
RotationSeen == status = "connected" /\ shown = "connected" => timed

\* What holds of transcript, settings and source in every state.
TranscribeInv ==
  TypeOK /\ TranscriptComplete /\ ActiveIsConnected /\ StartsWhereLeftOff /\ CapturesChosen

\* The loop gets on: it reads what was sent, and shows how its connection is.
TranscribeProgress == StatusShown /\ FragmentsRead
=============================================================================
