---------------------------- MODULE DiscordVoice ----------------------------
(***************************************************************************)
(* The Discord host (crates/gemini-live-discord/src/service.rs) around its *)
(* voice bridge and its idle session: the gateway handlers that join and   *)
(* leave the channel and that forward messages, each a task of its own,    *)
(* the runtime event loop, the idle loop, and the two locks they share,    *)
(* voice_bridge and session_manager.                                       *)
(*                                                                         *)
(* The replies of text turns and the delivery of notifications are the     *)
(* subject of PassiveNotifications; here a message is a turn that keeps    *)
(* the session busy.                                                       *)
(***************************************************************************)
EXTENDS Naturals, FiniteSets, Sequences

CONSTANTS
  Moves,       \* tasks of the gateway: the owner comes or goes,
  Messages,    \* and a message is posted
  Pump,        \* the runtime event loop
  None,        \* no session, no bridge, or nobody
  MaxSessions, \* bounds of the model: sessions opened
  MaxTrouble   \* and operations that fail or sessions that end

ASSUME HostAssumption ==
  /\ Moves \cap Messages = {} /\ {Pump, None} \cap (Moves \cup Messages \cup Nat) = {} /\ Pump # None
  /\ (Moves \cup Messages) \cap Nat = {} /\ IsFiniteSet(Messages)
  /\ {MaxSessions, MaxTrouble} \subseteq Nat

VARIABLES
  running,    \* whether the Discord client runs; the host then closes
  closing,    \* close_runtime: "no", "leave", "dormant" or "closed"
  owner,      \* external: whether the owner is in the target channel
  inCall,     \* external: whether songbird has a call in it
  session,    \* the installed session, or None
  opened,     \* sessions opened so far
  alive,      \* whether its runner takes commands
  fresh,      \* whether there was activity within the idle timeout
  manager,    \* who holds session_manager
  bridgeLock, \* who holds voice_bridge
  bridge,     \* the session of the installed bridge, or None
  task,       \* what each voice task does, and where it is
  handle,     \* the session a joining task has been given
  message,    \* where the handler of each message is
  pending,    \* the length of pending_text_replies
  turn,       \* turn_in_flight
  owed,       \* external: turns the model has to end
  idleLoop,   \* where the idle loop is
  trouble     \* counter for the bound

sessionVars == <<session, opened, alive>>
voiceVars   == <<bridgeLock, bridge, task, handle, inCall>>
turnVars    == <<pending, turn, owed>>
endVars     == <<running, closing>>
vars == <<endVars, owner, sessionVars, fresh, manager, voiceVars, message, turnVars, idleLoop, trouble>>

VoiceTasks == Moves \cup {Pump}

Trouble == trouble < MaxTrouble /\ trouble' = trouble + 1

\* note_idle_state_changed: notify_waiters wakes the idle loop where it waits,
\* and is lost otherwise.
Notify == idleLoop' = IF idleLoop \in {"sleeping", "waiting"} THEN "look" ELSE idleLoop

-----------------------------------------------------------------------------
(* SessionManager::ensure_hot, under its lock.  An installed session is hot,*)
(* whether its runner lives or not.                                        *)

AlreadyHot == session # None /\ fresh' = TRUE /\ UNCHANGED <<sessionVars, trouble>>

Wakes ==
  /\ session = None
  /\ opened < MaxSessions /\ opened' = opened + 1
  /\ session' = opened' /\ alive' = TRUE /\ fresh' = TRUE
  /\ UNCHANGED trouble

WakeFails == session = None /\ Trouble /\ UNCHANGED <<sessionVars, fresh>>

EnterDormant == session' = None /\ alive' = FALSE /\ UNCHANGED opened

-----------------------------------------------------------------------------
(* voice_state_update and maybe_join_if_owner_present.                     *)

At(t, doing, pc) == task[t] = <<doing, pc>>
To(t, doing, pc) == task' = [task EXCEPT ![t] = <<doing, pc>>]
Ended(t)         == To(t, "none", "done")

OwnerMoves(t) ==
  /\ running /\ At(t, "none", "new")
  /\ owner' = ~owner
  /\ To(t, IF owner' THEN "join" ELSE "leave", "start")
  /\ UNCHANGED <<endVars, sessionVars, fresh, manager, bridgeLock, bridge, handle, inCall, message, turnVars,
                 idleLoop, trouble>>

\* guild_create, when the channels have been read anew: the owner is there already.
GuildSync(t) ==
  /\ running /\ At(t, "none", "new") /\ owner
  /\ To(t, "join", "start")
  /\ UNCHANGED <<endVars, owner, sessionVars, fresh, manager, bridgeLock, bridge, handle, inCall, message, turnVars,
                 idleLoop, trouble>>

\* join_voice keeps the slot of the bridge locked to its end.
JoinLocks(t) ==
  /\ At(t, "join", "start") /\ bridgeLock = None
  /\ IF bridge # None THEN Ended(t) /\ UNCHANGED bridgeLock
                      ELSE To(t, "join", "wake") /\ bridgeLock' = t
  /\ UNCHANGED <<endVars, owner, sessionVars, fresh, manager, bridge, handle, inCall, message, turnVars,
                 idleLoop, trouble>>

\* The bridge is that of a channel which was the target before.
JoinReplaces(t) ==
  /\ At(t, "join", "start") /\ bridgeLock = None /\ bridge # None
  /\ bridge' = None
  /\ To(t, "join", "replace") /\ bridgeLock' = t
  /\ UNCHANGED <<endVars, owner, sessionVars, fresh, manager, handle, inCall, message, turnVars, idleLoop, trouble>>

\* Its shutdown removes the call, or fails and ends the joining.
JoinShutsDown(t) ==
  /\ At(t, "join", "replace")
  /\ \/ inCall' = FALSE /\ To(t, "join", "wake") /\ UNCHANGED <<bridgeLock, trouble>>
     \/ Trouble /\ Ended(t) /\ bridgeLock' = None /\ UNCHANGED inCall
  /\ UNCHANGED <<endVars, owner, sessionVars, fresh, manager, bridge, handle, message, turnVars, idleLoop>>

JoinWakes(t) ==
  /\ At(t, "join", "wake") /\ manager = None
  /\ \/ /\ AlreadyHot \/ Wakes
        /\ handle' = [handle EXCEPT ![t] = session']
        /\ To(t, "join", "attach") /\ UNCHANGED bridgeLock
     \/ WakeFails /\ Ended(t) /\ bridgeLock' = None /\ UNCHANGED handle
  /\ UNCHANGED <<endVars, owner, manager, bridge, inCall, message, turnVars, idleLoop>>

\* VoiceBridge::attach: the call is joined, then configured, then the bridge
\* is installed.
JoinAttaches(t) ==
  /\ At(t, "join", "attach")
  /\ inCall' = TRUE
  /\ bridge' = handle[t]
  /\ bridgeLock' = None
  /\ Ended(t) /\ Notify
  /\ UNCHANGED <<endVars, owner, sessionVars, fresh, manager, handle, message, turnVars, trouble>>

\* The call cannot be joined, or not be configured once it is.
AttachFails(t) ==
  /\ At(t, "join", "attach") /\ Trouble
  /\ inCall' \in {inCall, TRUE}
  /\ bridgeLock' = None
  /\ Ended(t)
  /\ UNCHANGED <<endVars, owner, sessionVars, fresh, manager, bridge, handle, message, turnVars, idleLoop>>

\* leave_voice, which lets go of the slot before it shuts the bridge down.
LeaveTakes(t) ==
  /\ At(t, "leave", "start") /\ bridgeLock = None
  /\ bridge' = None
  /\ To(t, "leave", IF bridge # None THEN "shutdown" ELSE "forget")
  /\ UNCHANGED <<endVars, owner, sessionVars, fresh, manager, bridgeLock, handle, inCall, message, turnVars,
                 idleLoop, trouble>>

LeaveShutsDown(t) ==
  /\ At(t, "leave", "shutdown")
  /\ inCall' = FALSE
  /\ To(t, "leave", "forget")
  /\ UNCHANGED <<endVars, owner, sessionVars, fresh, manager, bridgeLock, bridge, handle, message, turnVars,
                 idleLoop, trouble>>

\* The call cannot be removed: the rest is skipped, the notification included.
ShutdownFails(t) ==
  /\ At(t, "leave", "shutdown") /\ Trouble
  /\ Ended(t)
  /\ UNCHANGED <<endVars, owner, sessionVars, fresh, manager, bridgeLock, bridge, handle, inCall, message,
                 turnVars, idleLoop>>

LeaveForgets(t) ==
  /\ At(t, "leave", "forget")
  /\ Ended(t) /\ Notify
  /\ UNCHANGED <<endVars, owner, sessionVars, fresh, manager, bridgeLock, bridge, handle, inCall, message,
                 turnVars, trouble>>

\* Mutant: the lock of the slot is still held where the error is handled.
LockHeld == bridgeLock' = Pump

LockReleased == UNCHANGED bridgeLock

\* push_model_audio fails: the event loop leaves the channel.
PushFails ==
  /\ running /\ task[Pump][2] \in {"new", "done"}
  /\ bridge # None /\ bridgeLock = None /\ Trouble
  /\ To(Pump, "leave", "start")
  /\ LockReleased
  /\ UNCHANGED <<endVars, owner, sessionVars, fresh, manager, bridge, handle, inCall, message, turnVars,
                 idleLoop>>

-----------------------------------------------------------------------------
(* send_discord_message_turn.                                              *)

MessagePosted(m) ==
  /\ running /\ message[m] = "new"
  /\ message' = [message EXCEPT ![m] = "wake"]
  /\ pending' = pending + 1 /\ turn' = TRUE /\ UNCHANGED owed
  /\ Notify
  /\ UNCHANGED <<endVars, owner, sessionVars, fresh, manager, voiceVars, trouble>>

Keep(m) == manager' = m

MessageWakes(m) ==
  /\ message[m] = "wake" /\ manager = None
  /\ \/ /\ AlreadyHot \/ Wakes
        /\ Keep(m) /\ message' = [message EXCEPT ![m] = "send"]
     \/ WakeFails /\ message' = [message EXCEPT ![m] = "failed"] /\ UNCHANGED manager
  /\ UNCHANGED <<endVars, owner, voiceVars, turnVars, idleLoop>>

LessOne == IF pending = 0 THEN 0 ELSE pending - 1

\* A text for a session that has ended fails, and its reply is taken back.
MessageSent(m) ==
  /\ message[m] = "send"
  /\ manager' = None
  /\ IF alive THEN /\ message' = [message EXCEPT ![m] = "sent"]
                   /\ owed' = owed + 1 /\ UNCHANGED <<pending, turn, idleLoop>>
              ELSE /\ message' = [message EXCEPT ![m] = "failed"]
                   /\ pending' = LessOne
                   /\ turn' = (pending' > 0) /\ Notify /\ UNCHANGED owed
  /\ UNCHANGED <<endVars, owner, sessionVars, fresh, voiceVars, trouble>>

-----------------------------------------------------------------------------
(* The runtime event loop.                                                 *)

\* Output of the model, or a transcription: record_runtime_activity.
Output ==
  /\ running /\ alive /\ ~fresh /\ manager = None
  /\ owed > 0 \/ bridge # None
  /\ fresh' = TRUE /\ Notify
  /\ UNCHANGED <<endVars, owner, sessionVars, manager, voiceVars, message, turnVars, trouble>>

ReplyEnds ==
  /\ pending' = LessOne
  /\ \/ turn' = (pending' > 0) /\ Notify /\ UNCHANGED trouble
     \/ Trouble /\ UNCHANGED <<turn, idleLoop>>
  /\ UNCHANGED <<endVars, owner, sessionVars, fresh, manager, voiceVars, message>>

\* The turn of a text ends, or is interrupted; its reply may fail to be posted.
TurnEnds == running /\ owed > 0 /\ owed' = owed - 1 /\ ReplyEnds

\* So does a turn of the owner's voice, which takes a reply of a text if there is one.
VoiceTurnEnds == running /\ bridge # None /\ alive /\ UNCHANGED owed /\ ReplyEnds

-----------------------------------------------------------------------------
(* spawn_idle_dormancy_loop.                                               *)

\* next_idle_deadline.
HasDeadline == bridge = None /\ ~turn /\ session # None

Look ==
  /\ running /\ idleLoop = "look" /\ bridgeLock = None /\ manager = None
  /\ idleLoop' = IF HasDeadline THEN "armSleep" ELSE "armWait"
  /\ UNCHANGED <<endVars, owner, sessionVars, fresh, manager, voiceVars, message, turnVars, trouble>>

\* wait_for_idle_state_change registers when it is first polled.
Arm ==
  /\ running /\ idleLoop \in {"armSleep", "armWait"}
  /\ idleLoop' = IF idleLoop = "armSleep" THEN "sleeping" ELSE "waiting"
  /\ UNCHANGED <<endVars, owner, sessionVars, fresh, manager, voiceVars, message, turnVars, trouble>>

\* The deadline of an earlier look may not be the latest.
Fire ==
  /\ running /\ idleLoop = "sleeping"
  /\ idleLoop' = "evalBridge"
  /\ UNCHANGED <<endVars, owner, sessionVars, fresh, manager, voiceVars, message, turnVars, trouble>>

NoBridge == bridge = None

\* maybe_enter_dormant_if_idle looks at the bridge, at the turn, and then decides
\* for the moment it was called.
Evaluate ==
  /\ running
  /\ \/ /\ idleLoop = "evalBridge" /\ bridgeLock = None
        /\ idleLoop' = IF NoBridge THEN "evalTurn" ELSE "look"
     \/ /\ idleLoop = "evalTurn"
        /\ idleLoop' = IF turn THEN "look" ELSE "decide"
  /\ UNCHANGED <<endVars, owner, sessionVars, fresh, manager, voiceVars, message, turnVars, trouble>>

\* Mutant: what the deadline was set for is taken for granted.
StillIdleThen == TRUE

StillIdle == ~fresh

Decide ==
  /\ running /\ idleLoop = "decide" /\ manager = None
  /\ idleLoop' = "look"
  /\ IF session # None /\ StillIdle THEN EnterDormant ELSE UNCHANGED sessionVars
  /\ UNCHANGED <<endVars, owner, fresh, manager, voiceVars, message, turnVars, trouble>>

\* The idle timeout passes; the loop has read the time when it evaluates.
IdleElapses ==
  /\ running /\ fresh /\ idleLoop \notin {"evalBridge", "evalTurn", "decide"}
  /\ fresh' = FALSE
  /\ UNCHANGED <<endVars, owner, sessionVars, manager, voiceVars, message, turnVars, idleLoop, trouble>>

-----------------------------------------------------------------------------
(* The end of the service: the loops are aborted, and close_runtime.       *)

Stop ==
  /\ running /\ running' = FALSE
  /\ closing' = "leave"
  /\ UNCHANGED <<owner, sessionVars, fresh, manager, voiceVars, message, turnVars, idleLoop, trouble>>

\* leave_voice, and the requeue of the notification in flight.
CloseLeaves ==
  /\ closing = "leave" /\ bridgeLock = None
  /\ bridge' = None
  /\ inCall' = IF bridge # None THEN FALSE ELSE inCall
  /\ closing' = "dormant"
  /\ UNCHANGED <<running, owner, sessionVars, fresh, manager, bridgeLock, task, handle, message, turnVars,
                 idleLoop, trouble>>

\* An error of leave_voice skips the rest.
CloseLeaveFails ==
  /\ closing = "leave" /\ bridgeLock = None /\ bridge # None /\ Trouble
  /\ bridge' = None
  /\ closing' = "closed"
  /\ UNCHANGED <<running, owner, sessionVars, fresh, manager, bridgeLock, task, handle, inCall, message, turnVars,
                 idleLoop>>

CloseDormant ==
  /\ closing = "dormant" /\ manager = None
  /\ closing' = "closed"
  /\ EnterDormant
  /\ turn' = FALSE
  /\ UNCHANGED <<running, owner, fresh, manager, voiceVars, message, pending, owed, idleLoop, trouble>>

-----------------------------------------------------------------------------
\* External: the runner of the session ends, which the host only logs.
SessionEnds ==
  /\ running /\ alive /\ Trouble
  /\ alive' = FALSE
  /\ owed' = 0
  /\ UNCHANGED <<endVars, owner, session, opened, fresh, manager, voiceVars, message, pending, turn, idleLoop>>

Init ==
  /\ running = TRUE /\ closing = "no"
  /\ owner = FALSE /\ inCall = FALSE
  /\ session = None /\ opened = 0 /\ alive = FALSE /\ fresh = FALSE
  /\ manager = None
  /\ bridgeLock = None /\ bridge = None
  /\ task = [t \in VoiceTasks |-> <<"none", "new">>] /\ handle = [t \in VoiceTasks |-> None]
  /\ message = [m \in Messages |-> "new"]
  /\ pending = 0 /\ turn = FALSE /\ owed = 0
  /\ idleLoop = "look" /\ trouble = 0

Voice(t) == \/ JoinLocks(t) \/ JoinReplaces(t) \/ JoinShutsDown(t) \/ JoinWakes(t) \/ JoinAttaches(t) \/ AttachFails(t)
            \/ LeaveTakes(t) \/ LeaveShutsDown(t) \/ ShutdownFails(t) \/ LeaveForgets(t)

Forward(m) == MessageWakes(m) \/ MessageSent(m)

IdleStep == Look \/ Arm \/ Fire \/ Evaluate \/ Decide

Close == CloseLeaves \/ CloseLeaveFails \/ CloseDormant

Next ==
  \/ \E t \in Moves : OwnerMoves(t) \/ GuildSync(t)
  \/ \E t \in VoiceTasks : Voice(t)
  \/ \E m \in Messages : MessagePosted(m) \/ Forward(m)
  \/ PushFails \/ Output \/ TurnEnds \/ VoiceTurnEnds \/ IdleStep \/ IdleElapses \/ Stop \/ Close \/ SessionEnds

Spec == Init /\ [][Next]_vars

\* The tasks are polled, time passes, and the locks are fair.  That the service is
\* closed down is not assumed.
FairSpec ==
  /\ Spec
  /\ \A t \in VoiceTasks : SF_vars(Voice(t))
  /\ \A m \in Messages : SF_vars(Forward(m))
  /\ WF_vars(IdleStep) /\ SF_vars(IdleElapses) /\ WF_vars(TurnEnds)
-----------------------------------------------------------------------------
(* Properties.                                                             *)

TypeOK ==
  /\ {running, owner, inCall, alive, fresh, turn} \subseteq BOOLEAN
  /\ closing \in {"no", "leave", "dormant", "closed"}
  /\ opened \in 0..MaxSessions /\ session \in {None, opened} /\ bridge \in {None} \cup 1..opened
  /\ manager \in Messages \cup {None} /\ bridgeLock \in VoiceTasks \cup {None}
  /\ \A t \in VoiceTasks : task[t] \in {<<"none", "new">>, <<"none", "done">>}
                                \cup {"join"} \X {"start", "replace", "wake", "attach"}
                                \cup {"leave"} \X {"start", "shutdown", "forget"}
  /\ message \in [Messages -> {"new", "wake", "send", "sent", "failed"}]
  /\ {pending, owed} \subseteq 0..Cardinality(Messages)
  /\ handle \in [VoiceTasks -> {None} \cup 1..opened]

\* The owner's voice goes to the installed session: while the host runs, dormancy
\* and the next wake never leave a bridge, or one being attached, with another.
BridgeOnSession ==
  running => /\ bridge \in {None, session}
             /\ \A t \in VoiceTasks : task[t] = <<"join", "attach">> => handle[t] = session

\* A message that has woken the session is sent to that session: the idle loop
\* does not close it in between.
WokenIsThere == \A m \in Messages : message[m] = "send" => session # None

\* Every handler comes to an end, whoever holds the locks it waits for.
HandlersEnd ==
  /\ \A t \in VoiceTasks : []<>(task[t][1] = "none")
  /\ \A m \in Messages : []<>(message[m] # "wake")

\* Not met: an installed bridge owns a call, as voice.rs says of a running bridge.
BridgeOwnsCall == bridge # None => inCall

\* Not met: a session that nothing uses any more is closed.
GoesDormant ==
  <>[](HasDeadline /\ running) => <>[](session = None)

\* What holds of session and bridge under every interleaving of the handlers.
DiscordInv == TypeOK /\ BridgeOnSession /\ WokenIsThere
=============================================================================
