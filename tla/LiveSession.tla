---------------------------- MODULE LiveSession ----------------------------
(***************************************************************************)
(* The session layer of crates/gemini-live/src/session.rs: any number of   *)
(* cloned Session handles, the bounded command channel they feed, the      *)
(* runner task that owns the WebSocket, and the broadcast channel on which *)
(* every handle has a cursor of its own.                                   *)
(*                                                                         *)
(* The runner is one task, so one iteration of its select! loop is one     *)
(* action.  What other tasks can observe between two of its awaits is kept *)
(* apart: leaving run_connected, the match on the disconnect reason, every *)
(* reconnect attempt, and the drop of the channel ends when the task ends. *)
(*                                                                         *)
(* A command is an input (text, audio, video, client content), a tool      *)
(* response, or the close request.  Commands are numbered in the order the *)
(* channel accepted them.                                                  *)
(***************************************************************************)
EXTENDS Naturals, Sequences, FiniteSets

CONSTANTS
  Handles,      \* identities of the clones of one Session
  QueueCap,     \* COMMAND_CHANNEL_CAPACITY
  EventCap,     \* EVENT_CHANNEL_CAPACITY
  MaxAttempts,  \* ReconnectPolicy::max_attempts = Some(MaxAttempts)
  MaxCommands,  \* bound of the model: commands the callers issue
  MaxEvents,    \* bound of the model: events after which the server is silent
  MaxEpochs     \* bound of the model: connections the server accepts

ASSUME ConstantsAssumption ==
  /\ Handles # {}
  /\ QueueCap \in Nat \ {0}
  /\ EventCap \in Nat \ {0}
  /\ MaxAttempts \in Nat
  /\ MaxCommands \in Nat
  /\ MaxEvents \in Nat
  /\ MaxEpochs \in Nat \ {0}

VARIABLES
  policy,       \* reconnect.enabled and setup.session_resumption.is_some()
  handles,      \* handle -> "unused", "live" or "dropped"
  queue,        \* the command channel
  pending,      \* Runner::pending_commands
  nextId,       \* number of the next command the channel accepts
  phase,        \* where the runner task is
  reason,       \* DisconnectReason that ended the last run_connected
  status,       \* SharedState::status
  goAway,       \* GoAwayState of the current run_connected
  attempt,      \* reconnect attempts made since the last disconnect
  epoch,        \* number of the connection the runner holds
  link,         \* whether that connection still works
  resume,       \* SharedState::resume_handle, 0 for None
  issued,       \* history: resume handles received so far
  revoked,      \* history: handles the server has declared unusable
  resumedWith,  \* history: the handle of the last handshake
  wire,         \* history: what was written, in order, and on which connection
  lost,         \* history: accepted commands that will never be written
  published,    \* events broadcast so far
  cursor,       \* handle -> index of the next event of its receiver
  joined,       \* handle -> events broadcast before it subscribed
  heard         \* handle -> the last event it observed

commandVars == <<queue, pending, nextId, wire, lost>>
runnerVars  == <<phase, reason, status, goAway, attempt>>
connVars    == <<epoch, link, resume, issued, revoked, resumedWith>>
eventVars   == <<cursor, joined, heard>>
vars == <<policy, handles, commandVars, runnerVars, connVars, published, eventVars>>

Kinds    == {"input", "tool", "close"}
Reasons  == {"GoAway", "GoAwayDeadlineExceeded", "ConnectionLost", "UserClose",
             "SendersDropped", "none"}
Events   == {"content", "resumption", "goAway", "closed", "error"}
NoHandle == 0

Command == [id : Nat, kind : Kinds]
Ids(s)  == {s[i].id : i \in DOMAIN s}
Live    == {h \in Handles : handles[h] = "live"}

-----------------------------------------------------------------------------
(* The handles: sending, closing, cloning, dropping, receiving.            *)

\* Mutant: an unbounded channel.
AcceptUnbounded(kind) ==
  /\ nextId <= MaxCommands
  /\ phase # "ended"
  /\ queue' = Append(queue, [id |-> nextId, kind |-> kind])
  /\ nextId' = nextId + 1

Accept(kind) ==
  /\ nextId <= MaxCommands
  /\ phase # "ended"
  /\ Len(queue) < QueueCap
  /\ queue' = Append(queue, [id |-> nextId, kind |-> kind])
  /\ nextId' = nextId + 1

\* Session::send_*.  A full channel suspends the caller and an ended runner
\* makes the call fail: neither changes any state.
Send(h, kind) ==
  /\ h \in Live
  /\ kind # "close"
  /\ Accept(kind)
  /\ UNCHANGED <<policy, handles, pending, wire, lost, runnerVars, connVars, published, eventVars>>

\* Session::close consumes the handle, and reports success even when nobody
\* is left to receive the request.
Close(h) ==
  /\ h \in Live
  /\ \/ Accept("close")
     \/ phase = "ended" /\ UNCHANGED <<queue, nextId>>
  /\ handles' = [handles EXCEPT ![h] = "dropped"]
  /\ UNCHANGED <<policy, pending, wire, lost, runnerVars, connVars, published, eventVars>>

\* A clone subscribes at the tail of the broadcast channel.
Clone(h, g) ==
  /\ h \in Live
  /\ handles[g] = "unused"
  /\ handles' = [handles EXCEPT ![g] = "live"]
  /\ cursor' = [cursor EXCEPT ![g] = Len(published) + 1]
  /\ joined' = [joined EXCEPT ![g] = Len(published)]
  /\ UNCHANGED <<policy, commandVars, runnerVars, connVars, published, heard>>

Drop(h) ==
  /\ h \in Live
  /\ handles' = [handles EXCEPT ![h] = "dropped"]
  /\ UNCHANGED <<policy, commandVars, runnerVars, connVars, published, eventVars>>

\* Session::next_observed_event when the cursor is not at the tail: either the
\* event, or Lagged, which moves the cursor to the oldest event still kept.
Lagging(h) == Len(published) + 1 - cursor[h] > EventCap

NextObservedEvent(h) ==
  /\ h \in Live
  /\ cursor[h] <= Len(published)
  /\ IF Lagging(h)
     THEN /\ cursor' = [cursor EXCEPT ![h] = Len(published) + 1 - EventCap]
          /\ UNCHANGED heard
     ELSE /\ cursor' = [cursor EXCEPT ![h] = @ + 1]
          /\ heard' = [heard EXCEPT ![h] = published[cursor[h]]]
  /\ UNCHANGED <<policy, handles, commandVars, runnerVars, connVars, published, joined>>

\* The broadcast channel reports its end (RecvError::Closed, turned into None)
\* only once every Sender is gone.  The runner holds one, and so does each
\* Session handle (event_tx).
EventChannelClosed == phase = "ended" /\ Live = {}

-----------------------------------------------------------------------------
(* The runner: run_connected, one select! iteration per action.            *)

\* The local go_away goes out of scope with run_connected.
Leave(r) == phase' = "leaving" /\ reason' = r /\ goAway' = "none"

\* Mutant: deferred commands are sent only once the channel is empty.
FromPendingLast == goAway = "none" /\ pending # <<>> /\ queue = <<>>

\* next_command: deferred commands come first, unless a GoAway is pending.
FromPending == goAway = "none" /\ pending # <<>>

CanSendDuringGoAway(cmd) == cmd.kind \in {"close", "tool"}

NextCommand == IF FromPending THEN Head(pending) ELSE Head(queue)
HasCommand  == FromPending \/ queue # <<>>

\* Mutant: a deferred command is read without being removed.
PeekCommand ==
  IF FromPending
  THEN UNCHANGED <<pending, queue>>
  ELSE queue' = Tail(queue) /\ UNCHANGED pending

PopCommand ==
  IF FromPending
  THEN pending' = Tail(pending) /\ UNCHANGED queue
  ELSE queue' = Tail(queue) /\ UNCHANGED pending

WritePopped ==
  /\ PopCommand
  /\ wire' = Append(wire, [id |-> NextCommand.id, kind |-> NextCommand.kind, epoch |-> epoch])

Sendable == goAway = "none" \/ CanSendDuringGoAway(NextCommand)

\* Mutant: commands are deferred at the wrong end.
DeferInFront ==
  /\ phase = "connected"
  /\ HasCommand
  /\ ~Sendable
  /\ queue' = Tail(queue)
  /\ pending' = <<NextCommand>> \o pending
  /\ UNCHANGED <<policy, handles, nextId, wire, lost, runnerVars, connVars, published, eventVars>>

DeferCommand ==
  /\ phase = "connected"
  /\ HasCommand
  /\ ~Sendable
  /\ queue' = Tail(queue)
  /\ pending' = Append(pending, NextCommand)
  /\ UNCHANGED <<policy, handles, nextId, wire, lost, runnerVars, connVars, published, eventVars>>

\* A write into a dead connection may still succeed locally.
WriteCommand ==
  /\ phase = "connected"
  /\ HasCommand
  /\ Sendable
  /\ NextCommand.kind # "close"
  /\ WritePopped
  /\ UNCHANGED <<policy, handles, nextId, lost, runnerVars, connVars, published, eventVars>>

\* conn.send_json_bytes fails: the popped command is not put back.
FailedWrite ==
  /\ phase = "connected"
  /\ link = "down"
  /\ HasCommand
  /\ Sendable
  /\ NextCommand.kind # "close"
  /\ PopCommand
  /\ lost' = lost \cup {NextCommand.id}
  /\ Leave("ConnectionLost")
  /\ UNCHANGED <<policy, handles, nextId, wire, status, attempt, connVars,
                 published, eventVars>>

\* The close request writes the close frame and ends run_connected.
TakeClose ==
  /\ phase = "connected"
  /\ HasCommand
  /\ NextCommand.kind = "close"
  /\ WritePopped
  /\ Leave("UserClose")
  /\ UNCHANGED <<policy, handles, nextId, lost, status, attempt, connVars,
                 published, eventVars>>

AllSendersDropped ==
  /\ phase = "connected"
  /\ ~HasCommand
  /\ Live = {}
  /\ Leave("SendersDropped")
  /\ UNCHANGED <<policy, handles, commandVars, status, attempt, connVars,
                 published, eventVars>>

\* wait_for_deadline: the deadline of the GoAway passes first.
GoAwayDeadline ==
  /\ phase = "connected"
  /\ goAway = "until"
  /\ published' = Append(published, "error")
  /\ Leave("GoAwayDeadlineExceeded")
  /\ UNCHANGED <<policy, handles, commandVars, status, attempt, connVars, eventVars>>

\* What a server message carries, as far as the session layer tells apart: an
\* update of the resumption state and a GoAway (with or without time_left).
Message == [update : {"none", "new", "revoke"}, goAway : {"none", "waiting", "until"}]

\* codec::into_events: resumption before GoAway; other content as one event.
IntoEvents(msg) ==
  IF msg.update = "none" /\ msg.goAway = "none"
  THEN <<"content">>
  ELSE (IF msg.update # "none" THEN <<"resumption">> ELSE <<>>)
       \o (IF msg.goAway # "none" THEN <<"goAway">> ELSE <<>>)

\* Mutant: an update that is not resumable leaves the handle in place.
UpdateKeepsHandle(update) ==
  CASE update = "revoke" -> revoked' = 1..issued /\ UNCHANGED <<resume, issued>>
    [] update = "new"    -> /\ resume' = issued + 1
                            /\ issued' = issued + 1
                            /\ UNCHANGED revoked
    [] OTHER             -> UNCHANGED <<resume, issued, revoked>>

\* update_resume_handle, applied before the events are broadcast.
UpdateResumeHandle(update) ==
  CASE update = "revoke" -> /\ resume' = NoHandle
                            /\ revoked' = 1..issued
                            /\ UNCHANGED issued
    [] update = "new"    -> /\ resume' = issued + 1
                            /\ issued' = issued + 1
                            /\ UNCHANGED revoked
    [] OTHER             -> UNCHANGED <<resume, issued, revoked>>

ReceiveMessage(msg) ==
  /\ phase = "connected"
  /\ link = "up"
  /\ Len(published) < MaxEvents
  /\ UpdateResumeHandle(msg.update)
  /\ published' = published \o IntoEvents(msg)
  /\ LET away == IF msg.goAway # "none" THEN msg.goAway ELSE goAway
     IN IF away # "none" /\ resume' # NoHandle
        THEN Leave("GoAway")
        ELSE goAway' = away /\ UNCHANGED <<phase, reason>>
  /\ UNCHANGED <<policy, handles, commandVars, status, attempt, epoch, link, resumedWith, eventVars>>

\* A close frame is broadcast, and is otherwise like a lost connection.
ReceiveClose ==
  /\ phase = "connected"
  /\ link = "up"
  /\ Len(published) < MaxEvents
  /\ link' = "down"
  /\ published' = Append(published, "closed")
  /\ Leave("ConnectionLost")
  /\ UNCHANGED <<policy, handles, commandVars, status, attempt, epoch, resume, issued,
                 revoked, resumedWith, eventVars>>

ReceiveError ==
  /\ phase = "connected"
  /\ link = "down"
  /\ Leave("ConnectionLost")
  /\ UNCHANGED <<policy, handles, commandVars, status, attempt, connVars,
                 published, eventVars>>

\* External: the transport breaks, and nothing tells the runner yet.
LinkFails ==
  /\ phase = "connected"
  /\ link = "up"
  /\ link' = "down"
  /\ UNCHANGED <<policy, handles, commandVars, runnerVars, epoch, resume, issued, revoked,
                 resumedWith, published, eventVars>>

-----------------------------------------------------------------------------
(* The runner: run and reconnect, outside run_connected.                   *)

\* Mutant: the run loop goes on after it set the status.
StopWithoutBreak == phase' = "leaving" /\ status' = "Closed"

Stop == phase' = "stopping" /\ status' = "Closed"

StopQuietly ==
  /\ phase = "leaving"
  /\ reason \in {"UserClose", "SendersDropped", "GoAwayDeadlineExceeded"}
  /\ Stop
  /\ UNCHANGED <<policy, handles, commandVars, reason, goAway, attempt, connVars,
                 published, eventVars>>

StopWithoutReconnect ==
  /\ phase = "leaving"
  /\ reason \in {"GoAway", "ConnectionLost"}
  /\ ~policy.reconnect
  /\ Stop
  /\ published' = Append(published, "closed")
  /\ UNCHANGED <<policy, handles, commandVars, reason, goAway, attempt, connVars, eventVars>>

StartReconnect ==
  /\ phase = "leaving"
  /\ reason \in {"GoAway", "ConnectionLost"}
  /\ policy.reconnect
  /\ phase' = "reconnecting"
  /\ status' = "Reconnecting"
  /\ attempt' = 0
  /\ UNCHANGED <<policy, handles, commandVars, reason, goAway, connVars, published, eventVars>>

\* reconnect refuses to continue a resumable conversation without a handle.
PossibleStateLoss == policy.resumption /\ resume = NoHandle

\* Mutant: the failed reconnect is not reported.
GiveUpSilently ==
  /\ phase = "reconnecting"
  /\ PossibleStateLoss \/ attempt = MaxAttempts
  /\ Stop
  /\ UNCHANGED <<policy, handles, commandVars, reason, goAway, attempt, connVars, published, eventVars>>

GiveUp ==
  /\ phase = "reconnecting"
  /\ PossibleStateLoss \/ attempt = MaxAttempts
  /\ Stop
  /\ published' = Append(published, "error")
  /\ UNCHANGED <<policy, handles, commandVars, reason, goAway, attempt, connVars, eventVars>>

CanAttempt == phase = "reconnecting" /\ ~PossibleStateLoss /\ attempt < MaxAttempts

\* Mutant: a failed attempt is not counted.
FailUncounted == CanAttempt /\ UNCHANGED vars

FailAttempt ==
  /\ CanAttempt
  /\ attempt' = attempt + 1
  /\ UNCHANGED <<policy, handles, commandVars, phase, reason, status, goAway, connVars,
                 published, eventVars>>

\* Connection::connect and do_handshake succeed.
Reconnected ==
  /\ CanAttempt
  /\ epoch < MaxEpochs
  /\ attempt' = 0
  /\ epoch' = epoch + 1
  /\ link' = "up"
  /\ resumedWith' = resume
  /\ reason' = "none"
  /\ phase' = "connected"
  /\ status' = "Connected"
  /\ UNCHANGED <<policy, handles, commandVars, goAway, resume, issued, revoked, published, eventVars>>

\* The runner returns: both channel ends it owns are dropped, with whatever
\* the command channel and pending_commands still held.
RunnerEnds ==
  /\ phase = "stopping"
  /\ phase' = "ended"
  /\ lost' = lost \cup Ids(queue) \cup Ids(pending)
  /\ queue' = <<>>
  /\ pending' = <<>>
  /\ UNCHANGED <<policy, handles, nextId, wire, reason, status, goAway, attempt, connVars,
                 published, eventVars>>

-----------------------------------------------------------------------------
\* Session::connect has returned: setup is complete and the runner spawned.
Init ==
  /\ policy \in [reconnect : BOOLEAN, resumption : BOOLEAN]
  /\ \E h \in Handles : handles = [g \in Handles |-> IF g = h THEN "live" ELSE "unused"]
  /\ queue = <<>> /\ pending = <<>> /\ nextId = 1
  /\ phase = "connected" /\ reason = "none" /\ status = "Connected"
  /\ goAway = "none" /\ attempt = 0
  /\ epoch = 1 /\ link = "up"
  /\ resume = NoHandle /\ issued = 0 /\ revoked = {} /\ resumedWith = NoHandle
  /\ wire = <<>> /\ lost = {}
  /\ published = <<>>
  /\ cursor = [h \in Handles |-> 1]
  /\ joined = [h \in Handles |-> 0]
  /\ heard = [h \in Handles |-> "none"]

TakeCommand == DeferCommand \/ WriteCommand \/ FailedWrite \/ TakeClose \/ AllSendersDropped

Runner == \/ TakeCommand
          \/ GoAwayDeadline
          \/ ReceiveError
          \/ StopQuietly \/ StopWithoutReconnect
          \/ StartReconnect \/ GiveUp \/ FailAttempt \/ Reconnected
          \/ RunnerEnds

Server == LinkFails \/ ReceiveClose \/ \E msg \in Message : ReceiveMessage(msg)

Caller(h) == \/ \E kind \in Kinds : Send(h, kind)
             \/ Close(h)
             \/ \E g \in Handles : Clone(h, g)
             \/ Drop(h)
             \/ NextObservedEvent(h)

Next == Runner \/ Server \/ \E h \in Handles : Caller(h)

Spec == Init /\ [][Next]_vars

\* The runner is one spawned task: it takes some step as long as it can.  The
\* consumers keep calling next_observed_event, as every host's loop does.
Fairness == WF_vars(Runner) /\ \A h \in Handles : WF_vars(NextObservedEvent(h))

FairSpec == Spec /\ Fairness

-----------------------------------------------------------------------------
(* Properties.                                                             *)

\* Type correctness; the command channel never holds more than its capacity.
TypeOK ==
  /\ policy \in [reconnect : BOOLEAN, resumption : BOOLEAN]
  /\ handles \in [Handles -> {"unused", "live", "dropped"}]
  /\ queue \in Seq(Command) /\ Len(queue) <= QueueCap
  /\ pending \in Seq(Command)
  /\ nextId \in Nat \ {0}
  /\ phase \in {"connected", "leaving", "reconnecting", "stopping", "ended"}
  /\ reason \in Reasons
  /\ status \in {"Connected", "Reconnecting", "Closed"}
  /\ goAway \in {"none", "waiting", "until"}
  /\ attempt \in 0..MaxAttempts
  /\ epoch \in Nat \ {0}
  /\ link \in {"up", "down"}
  /\ resume \in Nat /\ issued \in Nat /\ resumedWith \in Nat
  /\ revoked \in SUBSET Nat
  /\ wire \in Seq([id : Nat, kind : Kinds, epoch : Nat])
  /\ lost \in SUBSET Nat
  /\ published \in Seq(Events)
  /\ cursor \in [Handles -> Nat \ {0}]
  /\ joined \in [Handles -> Nat]
  /\ heard \in [Handles -> Events \cup {"none"}]

SameLane(a, b) == (a.kind = "input") <=> (b.kind = "input")

\* Inputs reach the server in the order the channel accepted them, and so do
\* the control commands (tool responses and the close request), across
\* deferral during GoAway and across every reconnect.
CommandOrder ==
  \A i, j \in DOMAIN wire :
    i < j /\ SameLane(wire[i], wire[j]) => wire[i].id < wire[j].id

\* Every accepted command is in the channel, deferred, written or lost, and a
\* written one is none of the others: no path through the runner forgets a
\* command or writes it twice.
Accounted ==
  /\ 1..(nextId - 1) = Ids(queue) \cup Ids(pending) \cup Ids(wire) \cup lost
  /\ Ids(wire) \cap (Ids(queue) \cup Ids(pending) \cup lost) = {}
  /\ \A i, j \in DOMAIN wire : wire[i].id = wire[j].id => i = j

\* A session configured for resumption never continues on a connection that
\* starts from nothing, or from a checkpoint the server has revoked.
ResumesFromLiveCheckpoint ==
  [][epoch' # epoch /\ policy.resumption
       => resumedWith' # NoHandle /\ resumedWith' \notin revoked]_vars

\* SessionStatus::Closed is final: nothing is written and no connection is
\* made after any handle could observe it.
ClosedIsFinal ==
  [][status = "Closed" => status' = "Closed" /\ wire' = wire /\ epoch' = epoch]_vars

\* A session that ends for another reason than its callers' wish says so: every
\* handle that was subscribed by then and keeps reading gets a Closed or Error
\* event as its last one, however far it lagged behind.
FailureIsHeard ==
  \A h \in Handles :
    (/\ phase = "ended"
     /\ reason \in {"GoAway", "GoAwayDeadlineExceeded", "ConnectionLost"}
     /\ joined[h] < Len(published)
     /\ h \in Live)
    ~> \/ cursor[h] > Len(published) /\ heard[h] \in {"closed", "error"}
       \/ h \notin Live

\* Every accepted command is written or lost for good, unless the server keeps
\* a connection it announced to close open for ever, without a deadline and
\* without a checkpoint.
EveryCommandResolved ==
  \/ <>[](phase = "connected" /\ goAway = "waiting")
  \/ \A n \in 1..MaxCommands : (n < nextId) ~> (n \in Ids(wire) \cup lost)

\* The session implements the delivery contract of CommandDelivery.
Delivery == INSTANCE CommandDelivery WITH
  waiting   <- pending \o queue,
  delivered <- [i \in DOMAIN wire |-> [id |-> wire[i].id, kind |-> wire[i].kind]],
  accepted  <- nextId - 1,
  open      <- phase \notin {"stopping", "ended"}

DeliveryContract == Delivery!Spec

\* Not met: next_event returns None once the session is permanently closed
\* (session.rs documents it so), and a handle whose runner has ended is never left waiting.
NextEventEnds ==
  phase = "ended" => \A h \in Live : cursor[h] <= Len(published) \/ EventChannelClosed

\* Not met: reconnection is transparent, commands buffer meanwhile (session.rs and
\* ADR-3), and a session that goes on has lost no command.
NothingLostWhileAlive == phase \in {"connected", "reconnecting"} => lost = {}
=============================================================================
