------------------------------ MODULE CliHost ------------------------------
(***************************************************************************)
(* The loop of the desktop CLI (crates/gemini-live-cli/src/main.rs) with   *)
(* what it keeps of the application (app.rs), its sessions (session.rs),   *)
(* its user's input (outbound.rs) and the devices it forwards.             *)
(*                                                                         *)
(* One task selects among its branches.  The body of a branch runs to its  *)
(* end and then tries to deliver a notification (pc "dispatch"); the tools *)
(* and the session go on meanwhile.  The branch of tool completions is     *)
(* different: it forwards a completion before it is selected, and another  *)
(* branch that is ready first makes the loop drop what it had in hand.     *)
(***************************************************************************)
EXTENDS FiniteSets, SequencesExt, Integers

CONSTANTS
  Calls,        \* the tool calls of the model
  Configs,      \* tool profiles with their system instruction,
  FirstConfig,  \* and the one of the profile
  Devices,      \* what the host forwards: microphone and screen
  None,         \* no session
  MaxSessions,  \* bounds of the model: sessions opened,
  MaxIncidents, \* incidents on the side of the server,
  MaxKeys       \* keys pressed

ASSUME HostAssumption ==
  /\ None \notin Nat /\ FirstConfig \in Configs /\ IsFiniteSet(Calls)
  /\ {MaxSessions, MaxIncidents, MaxKeys} \subseteq Nat

VARIABLES
  program,      \* "running", "ended" or "failed"
  pc,           \* "select" or "dispatch"
  session,      \* the installed session, or None
  opened,       \* sessions opened so far
  alive,        \* whether the installed session's runner takes commands
  congested,    \* external: its command queue is full, while it reconnects
  setup,        \* the configuration the installed session was opened with
  desired,      \* desired_setup of the runtime
  active,       \* active_tools and the active controller
  staged,       \* desired_tools
  events,       \* runtime_events
  shown,        \* connection_state
  quit,
  turn,         \* turn_in_flight
  counted,      \* tool_calls_in_flight
  replying,     \* whether app.pending holds text of the model
  draft,        \* whether the input line is not empty
  call,         \* what became of each tool call
  note,         \* a notification: "none", "queued", "delivered" or "acknowledged"
  tracked,      \* whether the active controller has it in flight
  signalled,    \* whether its queue has changed since the loop last looked
  media,        \* the devices that are on
  captured,     \* those with a chunk or a frame in their channel
  dormantClose, \* dormant_close_in_flight
  idle,         \* whether the idle deadline has passed
  incidents, keys, \* counters for the bounds
  asked, lost   \* history: the user quit; a session ended by itself

loopVars    == <<program, pc, quit>>
sessionVars == <<session, opened, alive, congested, setup, incidents>>
configVars  == <<desired, active, staged>>
turnVars    == <<turn, replying>>
callVars    == <<counted, call>>
noteVars    == <<note, tracked, signalled>>
mediaVars   == <<media, captured>>
inputVars   == <<draft, keys>>
closeVars   == <<dormantClose, idle>>
historyVars == <<asked, lost>>
vars == <<loopVars, sessionVars, configVars, events, shown, turnVars, callVars, noteVars,
          mediaVars, inputVars, closeVars, historyVars>>

Fates   == {"none", "requested", "running", "done", "void", "inHand", "answered", "failed", "cancelled",
            "dropped", "replaced"}

With(fate) == {c \in Calls : call[c] = fate}

\* Calls whose answer the model has to wait for.
Outstanding == With("running") \cup With("done") \cup With("inHand")

-----------------------------------------------------------------------------
(* The loop.                                                               *)

\* A branch is taken: the future of the completion branch is dropped, and with
\* it the completion it held.
Dropping(c) == IF call[c] = "inHand" THEN "dropped" ELSE call[c]
Dropped     == [c \in Calls |-> Dropping(c)]

Selecting == program = "running" /\ pc = "select" /\ ~quit

Fail == program' = "failed"

\* Mutant: the host stays when its session is gone.
Stay == UNCHANGED quit

StopLooping == quit' = TRUE

-----------------------------------------------------------------------------
(* Sessions.                                                               *)

Tell(kind) == events' = Append(events, kind)

\* ensure_hot on a dormant runtime; the attempts of ensure_hot are one attempt.
Connect(ok) ==
  IF ok THEN /\ opened < MaxSessions /\ UNCHANGED incidents
             /\ opened' = opened + 1 /\ session' = opened'
             /\ alive' = TRUE /\ congested' = FALSE /\ setup' = desired
             /\ events' = events \o <<"connecting", "connected">>
        ELSE /\ incidents < MaxIncidents /\ incidents' = incidents + 1
             /\ Tell("connecting")
             /\ UNCHANGED <<session, opened, alive, congested, setup>>

\* ensure_hot_session and a send: ok says whether both succeed.
Reach(ok) ==
  IF session = None
  THEN Connect(ok)
  ELSE /\ ok = alive /\ ~congested
       /\ UNCHANGED <<sessionVars, events>>

\* SessionManager::enter_dormant of a hot session.
EnterDormant ==
  /\ session' = None /\ alive' = FALSE /\ congested' = FALSE
  /\ Tell("closed")
  /\ UNCHANGED <<opened, setup, incidents>>

-----------------------------------------------------------------------------
(* Passive notifications.                                                  *)

CanDeliver == ~turn /\ counted = 0 /\ ~replying /\ ~draft /\ media = {}

\* try_dispatch_passive_notification, at the end of a branch.
DeliverNotification ==
  /\ CanDeliver /\ ~tracked /\ note = "queued"
  /\ \E ok \in BOOLEAN :
       /\ Reach(ok)
       /\ IF ok THEN /\ note' = "delivered" /\ tracked' = TRUE /\ turn' = TRUE
                     /\ idle' = FALSE
                     /\ UNCHANGED program
                ELSE Fail /\ UNCHANGED <<note, tracked, turn, idle>>

Dispatch ==
  /\ program = "running" /\ pc = "dispatch"
  /\ pc' = "select"
  /\ signalled' = FALSE
  /\ \/ DeliverNotification
     \/ /\ ~(CanDeliver /\ ~tracked /\ note = "queued")
        /\ UNCHANGED <<program, sessionVars, events, note, tracked, turn, idle>>
  /\ UNCHANGED <<quit, configVars, shown, replying, callVars, mediaVars, inputVars, dormantClose,
                 historyVars>>

\* The notification branch has nothing of its own to do.
NotificationSignal ==
  /\ Selecting /\ signalled
  /\ pc' = "dispatch"
  /\ call' = Dropped
  /\ UNCHANGED <<program, quit, sessionVars, configVars, events, shown, turnVars, counted, noteVars,
                 mediaVars, inputVars, closeVars, historyVars>>

-----------------------------------------------------------------------------
(* Keys.                                                                   *)

Key == Selecting /\ keys < MaxKeys /\ keys' = keys + 1 /\ call' = Dropped

\* A key that edits the line, or a slash command that changes nothing here.
Edit ==
  /\ Key
  /\ draft' \in BOOLEAN
  /\ pc' = "dispatch"
  /\ UNCHANGED <<program, quit, sessionVars, configVars, events, shown, turnVars, counted, noteVars,
                 mediaVars, closeVars, historyVars>>

Quit ==
  /\ Key
  /\ quit' = TRUE /\ asked' = TRUE
  /\ pc' = "dispatch"
  /\ UNCHANGED <<program, sessionVars, configVars, events, shown, turnVars, counted, noteVars, mediaVars,
                 draft, closeVars, lost>>

\* Enter: outbound::send_user_input; an error of the session ends the program.
SendUserInput ==
  /\ Key
  /\ draft /\ draft' = FALSE
  /\ \E ok \in BOOLEAN :
       /\ Reach(ok)
       /\ IF ok THEN turn' = TRUE /\ idle' = FALSE /\ pc' = "dispatch" /\ UNCHANGED program
                ELSE Fail /\ UNCHANGED <<turn, idle, pc>>
  /\ UNCHANGED <<quit, configVars, shown, replying, counted, noteVars, mediaVars, dormantClose, historyVars>>

\* /tools and /system, without apply.
Stage ==
  /\ Key
  /\ staged' \in Configs \ {staged}
  /\ draft' = FALSE
  /\ pc' = "dispatch"
  /\ UNCHANGED <<program, quit, sessionVars, desired, active, events, shown, turnVars, counted, noteVars,
                 mediaVars, closeVars, historyVars>>

\* The controller and its bridge make way for new ones: the channel of the
\* completions goes, and so does what was in flight.
ReplaceController ==
  /\ active' = staged
  /\ call' = [c \in Calls |-> IF call[c] \in {"running", "done", "void"} THEN "replaced" ELSE Dropping(c)]
  /\ tracked' = FALSE

Reconnected == idle' = FALSE

\* ManagedRuntime::apply succeeds: the receiver skips what older sessions queued.
Reconnects ==
  /\ session # None
  /\ opened < MaxSessions
  /\ opened' = opened + 1 /\ session' = opened'
  /\ alive' = TRUE /\ congested' = FALSE /\ setup' = staged
  /\ UNCHANGED incidents
  /\ events' = <<"connected">>
  /\ ReplaceController
  /\ Reconnected

\* The controller of the staged tools, which may not build (see ToolCatalog), and
\* apply_staged_setup, which changes the desired setup before it is applied.
ApplySessionConfig ==
  /\ Selecting /\ keys < MaxKeys /\ keys' = keys + 1
  /\ draft' = FALSE
  /\ staged # active
  /\ \/ /\ Fail
        /\ call' = Dropped
        /\ UNCHANGED <<desired, active, sessionVars, events, tracked, idle, pc>>
     \/ /\ desired' = staged
        /\ pc' = "dispatch"
        /\ \/ Reconnects
           \/ /\ session = None
              /\ ReplaceController
              /\ UNCHANGED <<sessionVars, events, idle>>
           \/ /\ session # None
              /\ Tell("reconnecting")
              /\ call' = Dropped
              /\ UNCHANGED <<sessionVars, active, tracked, idle>>
        /\ UNCHANGED program
  /\ UNCHANGED <<quit, staged, shown, turnVars, counted, note, signalled, mediaVars, dormantClose,
                 historyVars>>

\* /mic and /share-screen, or a request of a desktop tool; starting may fail.
ToggleDevice(d) ==
  /\ Key
  /\ media' \in IF d \in media THEN {media \ {d}} ELSE {media, media \cup {d}}
  /\ pc' = "dispatch"
  /\ UNCHANGED <<program, quit, sessionVars, configVars, events, shown, turnVars, counted, noteVars,
                 captured, draft, closeVars, historyVars>>

-----------------------------------------------------------------------------
(* Devices.                                                                *)

ForwardResets == idle' = FALSE

\* forward_captured and forward_frame: a failure is ignored.
ForwardMedia(d) ==
  /\ Selecting /\ d \in captured
  /\ captured' = captured \ {d}
  /\ \E ok \in BOOLEAN : Reach(ok)
  /\ ForwardResets
  /\ call' = Dropped
  /\ UNCHANGED <<loopVars, configVars, shown, turnVars, counted, noteVars, media, inputVars,
                 dormantClose, historyVars>>

-----------------------------------------------------------------------------
(* Runtime events.                                                         *)

Received(kind) == Selecting /\ events # <<>> /\ Head(events) = kind /\ events' = Tail(events)

\* Mutant: the close of its own making is not expected.
OwnCloseForgotten == UNCHANGED dormantClose

OwnCloseExpected == dormantClose' = TRUE

OwnClose ==
  /\ Received("closed")
  /\ dormantClose /\ dormantClose' = FALSE
  /\ call' = Dropped
  /\ UNCHANGED <<loopVars, sessionVars, configVars, shown, turnVars, counted, noteVars, mediaVars,
                 inputVars, idle, historyVars>>

\* A session that ended by itself ends the program.
Closed ==
  /\ Received("closed")
  /\ ~dormantClose
  /\ turn' = FALSE /\ counted' = 0
  /\ shown' = "closed" /\ StopLooping
  /\ idle' = FALSE /\ pc' = "dispatch"
  /\ call' = Dropped
  /\ UNCHANGED <<program, sessionVars, configVars, replying, noteVars, mediaVars, inputVars,
                 dormantClose, historyVars>>

\* Connecting, Connected, Reconnecting, AppliedResumedSession.
Lifecycle(kind) ==
  /\ Received(kind)
  /\ shown' = kind
  /\ idle' = FALSE /\ pc' = "dispatch"
  /\ call' = Dropped
  /\ UNCHANGED <<program, quit, sessionVars, configVars, turnVars, counted, noteVars, mediaVars, inputVars,
                 dormantClose, historyVars>>

\* ModelText and OutputTranscription.
ModelText ==
  /\ Received("text")
  /\ replying' = TRUE
  /\ idle' = FALSE /\ pc' = "dispatch"
  /\ call' = Dropped
  /\ UNCHANGED <<program, quit, sessionVars, configVars, shown, turn, counted, noteVars, mediaVars,
                 inputVars, dormantClose, historyVars>>

Acknowledge ==
  /\ note' = IF tracked THEN "acknowledged" ELSE note
  /\ tracked' = FALSE

TurnComplete ==
  /\ Received("turn")
  /\ Acknowledge
  /\ turn' = FALSE /\ replying' = FALSE
  /\ idle' = FALSE /\ pc' = "dispatch"
  /\ call' = Dropped
  /\ UNCHANGED <<program, quit, sessionVars, configVars, shown, counted, signalled, mediaVars, inputVars,
                 dormantClose, historyVars>>

\* Mutant: an interruption takes the calls in flight for cancelled.
CountCleared == counted' = 0

CountKept == UNCHANGED counted

Interrupted ==
  /\ Received("interrupted")
  /\ note' = IF tracked THEN "queued" ELSE note
  /\ signalled' = (signalled \/ tracked)
  /\ tracked' = FALSE
  /\ turn' = FALSE
  /\ CountKept
  /\ idle' = FALSE /\ pc' = "dispatch"
  /\ call' = Dropped
  /\ UNCHANGED <<program, quit, sessionVars, configVars, shown, replying, mediaVars, inputVars,
                 dormantClose, historyVars>>

ToolCallRequested ==
  /\ Received("call")
  /\ \E c \in With("requested") : call' = [Dropped EXCEPT ![c] = "running"]
  /\ counted' = counted + 1
  /\ idle' = FALSE /\ pc' = "dispatch"
  /\ UNCHANGED <<program, quit, sessionVars, configVars, shown, turnVars, noteVars, mediaVars, inputVars,
                 dormantClose, historyVars>>

\* The dispatch is aborted, or has just seen its execution aborted.
ToolCallCancelled ==
  /\ Received("cancel")
  /\ \/ \E c \in With("running") : call' \in {[Dropped EXCEPT ![c] = fate] : fate \in {"cancelled", "void"}}
     \/ call' = Dropped
  /\ idle' = FALSE /\ pc' = "dispatch"
  /\ UNCHANGED <<program, quit, sessionVars, configVars, shown, turnVars, counted, noteVars, mediaVars,
                 inputVars, dormantClose, historyVars>>

-----------------------------------------------------------------------------
(* Tool completions: recv_and_forward_tool_completion.                     *)

\* tool_calls_in_flight.saturating_sub(1).
CountDown == counted' = IF counted = 0 THEN 0 ELSE counted - 1

Forwarded(c, ok) ==
  /\ call' = [call EXCEPT ![c] = IF ok THEN "answered" ELSE "failed"]
  /\ CountDown
  /\ turn' = (turn \/ ok)
  /\ idle' = (idle /\ ~ok)
  /\ pc' = "dispatch"
  /\ UNCHANGED <<program, quit, configVars, shown, replying, noteVars, mediaVars, inputVars,
                 dormantClose, historyVars>>

\* The completion is forwarded as soon as it is polled.
ForwardCompletion ==
  /\ Selecting /\ With("inHand") = {}
  /\ session # None
  /\ \E c \in With("done") : \E ok \in BOOLEAN : Reach(ok) /\ Forwarded(c, ok)

\* A completion without a response.
ForwardVoid ==
  /\ Selecting /\ With("inHand") = {}
  /\ \E c \in With("void") :
       /\ call' = [call EXCEPT ![c] = "answered"]
  /\ CountDown
  /\ pc' = "dispatch"
  /\ UNCHANGED <<program, quit, sessionVars, configVars, events, shown, turnVars, noteVars, mediaVars,
                 inputVars, closeVars, historyVars>>

\* It has to wait, for a new session or for room in the command queue.
HoldCompletion ==
  /\ Selecting /\ With("inHand") = {}
  /\ \E c \in With("done") : call' = [call EXCEPT ![c] = "inHand"]
  /\ IF session = None THEN Tell("connecting") ELSE congested /\ UNCHANGED events
  /\ UNCHANGED <<loopVars, sessionVars, configVars, shown, turnVars, counted, noteVars, mediaVars, inputVars,
                 closeVars, historyVars>>

FinishForward ==
  /\ Selecting
  /\ \E c \in With("inHand") : \E ok \in BOOLEAN : Reach(ok) /\ Forwarded(c, ok)

-----------------------------------------------------------------------------
(* Idleness.                                                               *)

\* Mutant: the conditions of a delivery.
CanEnterDormantUndrafted == CanDeliver /\ ~tracked

CanEnterDormant == ~turn /\ counted = 0 /\ ~tracked /\ ~replying /\ media = {}

ShowDormant == shown' = "dormant"

IdleDeadline ==
  /\ Selecting /\ idle
  /\ idle' = FALSE
  /\ IF session # None /\ CanEnterDormant
     THEN OwnCloseExpected /\ EnterDormant /\ ShowDormant
     ELSE UNCHANGED <<dormantClose, sessionVars, events, shown>>
  /\ call' = Dropped
  /\ UNCHANGED <<loopVars, configVars, turnVars, counted, noteVars, mediaVars, inputVars, historyVars>>

\* The loop is much faster than CLI_IDLE_TIMEOUT: nothing waits when it runs out.
IdleElapses ==
  /\ Selecting /\ ~idle
  /\ events = <<>> /\ captured = {} /\ ~signalled
  /\ With("done") \cup With("void") \cup With("inHand") = {}
  /\ idle' = TRUE
  /\ UNCHANGED <<loopVars, sessionVars, configVars, events, shown, turnVars, callVars, noteVars, mediaVars,
                 inputVars, dormantClose, historyVars>>

-----------------------------------------------------------------------------
(* The end.                                                                *)

\* The loop is left: abort_all_tool_calls, and the session is closed.
Leave ==
  /\ program = "running" /\ pc = "select" /\ quit
  /\ program' = "ended"
  /\ call' = [c \in Calls |-> IF call[c] = "running" THEN "cancelled" ELSE Dropping(c)]
  /\ IF session # None THEN EnterDormant ELSE UNCHANGED <<sessionVars, events>>
  /\ UNCHANGED <<pc, quit, configVars, shown, turnVars, counted, noteVars, mediaVars, inputVars, closeVars,
                 historyVars>>

-----------------------------------------------------------------------------
(* External: the server, the devices and the background tasks.             *)

Publish(kind) ==
  /\ program = "running" /\ alive /\ ~congested
  /\ incidents < MaxIncidents /\ incidents' = incidents + 1
  /\ Tell(kind)
  /\ IF kind = "call" THEN \E c \in With("none") : call' = [call EXCEPT ![c] = "requested"]
                      ELSE UNCHANGED call
  /\ UNCHANGED <<loopVars, session, opened, alive, congested, setup, configVars, shown, turnVars, counted,
                 noteVars, mediaVars, inputVars, closeVars, historyVars>>

\* The runner ends by itself.
SessionEnds ==
  /\ program = "running" /\ alive
  /\ incidents < MaxIncidents /\ incidents' = incidents + 1
  /\ alive' = FALSE /\ congested' = FALSE
  /\ lost' = TRUE
  /\ Tell("closed")
  /\ UNCHANGED <<loopVars, session, opened, setup, configVars, shown, turnVars, callVars, noteVars, mediaVars,
                 inputVars, closeVars, asked>>

\* The session reconnects and its command queue fills, until it is connected again.
Congest ==
  /\ program = "running" /\ alive /\ ~congested
  /\ incidents < MaxIncidents /\ incidents' = incidents + 1
  /\ congested' = TRUE
  /\ UNCHANGED <<loopVars, session, opened, alive, setup, configVars, events, shown, turnVars, callVars,
                 noteVars, mediaVars, inputVars, closeVars, historyVars>>

Relieve ==
  /\ program = "running" /\ congested
  /\ congested' = FALSE
  /\ UNCHANGED <<loopVars, session, opened, alive, setup, incidents, configVars, events, shown, turnVars,
                 callVars, noteVars, mediaVars, inputVars, closeVars, historyVars>>

ToolReturns ==
  /\ program = "running"
  /\ \E c \in With("running") : call' = [call EXCEPT ![c] = "done"]
  /\ UNCHANGED <<loopVars, sessionVars, configVars, events, shown, turnVars, counted, noteVars, mediaVars,
                 inputVars, closeVars, historyVars>>

TaskNotifies ==
  /\ program = "running" /\ note = "none"
  /\ note' = "queued" /\ signalled' = TRUE
  /\ UNCHANGED <<loopVars, sessionVars, configVars, events, shown, turnVars, callVars, tracked, mediaVars,
                 inputVars, closeVars, historyVars>>

Capture(d) ==
  /\ program = "running" /\ d \in media \ captured
  /\ captured' = captured \cup {d}
  /\ UNCHANGED <<loopVars, sessionVars, configVars, events, shown, turnVars, callVars, noteVars, media,
                 inputVars, closeVars, historyVars>>

-----------------------------------------------------------------------------
Init ==
  /\ program = "running" /\ pc = "select" /\ quit = FALSE
  /\ session = None /\ opened = 0 /\ alive = FALSE /\ congested = FALSE
  /\ setup = FirstConfig /\ desired = FirstConfig /\ active = FirstConfig /\ staged = FirstConfig
  /\ events = <<>> /\ shown = "dormant"
  /\ turn = FALSE /\ replying = FALSE
  /\ counted = 0 /\ call = [c \in Calls |-> "none"]
  /\ note = "none" /\ tracked = FALSE /\ signalled = FALSE
  /\ media \in SUBSET Devices /\ captured = {}
  /\ draft = FALSE /\ keys = 0
  /\ dormantClose = FALSE /\ idle = FALSE
  /\ incidents = 0 /\ asked = FALSE /\ lost = FALSE

Keys == \/ Edit \/ Quit \/ SendUserInput \/ Stage \/ ApplySessionConfig
        \/ \E d \in Devices : ToggleDevice(d)

Receive == \/ OwnClose \/ Closed \/ ModelText \/ TurnComplete \/ Interrupted
           \/ ToolCallRequested \/ ToolCallCancelled
           \/ \E kind \in {"connecting", "connected", "reconnecting"} : Lifecycle(kind)

Forward == ForwardCompletion \/ ForwardVoid \/ FinishForward

Environment == \/ SessionEnds \/ Congest \/ Relieve \/ ToolReturns \/ TaskNotifies
               \/ \E kind \in {"text", "turn", "interrupted", "call", "cancel"} : Publish(kind)
               \/ \E d \in Devices : Capture(d)

Next == \/ Dispatch \/ NotificationSignal \/ Keys \/ Receive \/ Forward \/ HoldCompletion
        \/ \E d \in Devices : ForwardMedia(d)
        \/ IdleDeadline \/ IdleElapses \/ Leave \/ Environment

Spec == Init /\ [][Next]_vars

\* The task is polled and select! is fair to its branches; time passes.
Fairness ==
  /\ WF_vars(Relieve)
  /\ WF_vars(Dispatch) /\ WF_vars(Leave) /\ WF_vars(IdleElapses) /\ SF_vars(IdleDeadline)
  /\ SF_vars(Receive) /\ SF_vars(Forward) /\ SF_vars(NotificationSignal)
  /\ \A d \in Devices : SF_vars(ForwardMedia(d))

FairSpec == Spec /\ Fairness
-----------------------------------------------------------------------------
(* Properties.                                                             *)

TypeOK ==
  /\ program \in {"running", "ended", "failed"} /\ pc \in {"select", "dispatch"}
  /\ opened \in 0..MaxSessions /\ session \in {None, opened}
  /\ (session = None => ~alive) /\ (congested => alive)
  /\ {setup, desired, active, staged} \subseteq Configs
  /\ shown \in {"dormant", "connecting", "connected", "reconnecting", "closed"}
  /\ call \in [Calls -> Fates] /\ counted \in 0..Cardinality(Calls)
  /\ note \in {"none", "queued", "delivered", "acknowledged"} /\ (tracked => note = "delivered")
  /\ media \subseteq Devices /\ captured \subseteq Devices

\* The host goes dormant, and speaks up for a background task, only when nothing
\* would be cut off or talked over: whatever was cancelled, replaced or dropped
\* before, no tool call is unanswered and no turn is awaited.
NothingCutOff ==
  [][ \/ program' # "running" \/ quit
      \/ /\ session # None /\ session' = None => Outstanding = {} /\ ~turn /\ ~tracked
         /\ ~tracked /\ tracked' => Outstanding = {} /\ ~turn
    ]_vars

\* The Closed event of the host's own dormancy is not taken for a lost session:
\* the program only quits because the user wants it or a session ended by itself.
QuitsForAReason == quit => asked \/ lost

\* What the status bar shows, once the events are handled: a connection when
\* there is a session, and dormancy when there is none.
ShownAsItIs ==
  program = "running" /\ events = <<>> =>
    (shown = "connected" => session # None) /\ (shown = "dormant" => session = None)

\* When nothing keeps it awake for good, the host goes dormant, unless it ends.
AtRest == ~turn /\ counted = 0 /\ ~tracked /\ ~replying /\ media \cup captured = {}

GoesDormant == <>[]AtRest => <>[](session = None \/ program # "running" \/ quit)

\* The close of a session that ended by itself is acted on, when the host awaits
\* no close of its own making: the program ends, or the host replaces the session
\* or closes it.
LossEnds == (session # None /\ ~alive /\ ~dormantClose /\ "closed" \in Range(events))
              ~> (session = None \/ alive \/ program # "running")

\* Not met: a completion that the branch has received is forwarded or reported,
\* as recv_and_forward_tool_completion says.
CompletionReported == With("dropped") = {}

\* Not met: the counter of tool calls (tool_calls_in_flight) comes back to zero when
\* no call is outstanding, so that the idle policy can close the session.
CounterDrains == <>[](Outstanding = {}) => <>[](counted = 0 \/ program # "running")

\* Not met: the tools a session advertises are those its controller executes.
ToolsAsAdvertised == session # None => setup = active

\* What holds of the loop in every state: it leaves only for a reason, and shows
\* the connection as it is.
CliInv == TypeOK /\ QuitsForAReason /\ ShownAsItIs
=============================================================================
