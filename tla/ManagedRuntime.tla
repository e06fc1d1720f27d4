--------------------------- MODULE ManagedRuntime ---------------------------
(***************************************************************************)
(* The lifecycle of Live sessions above one another:                       *)
(* crates/gemini-live-runtime/src/managed.rs with runtime.rs (the active   *)
(* session, its forwarder task, the resume handle, the generation filter)  *)
(* and session_manager.rs with memory.rs (waking, dormancy, rehydration),  *)
(* driven by one of the three hosts.                                       *)
(*                                                                         *)
(* Operations take &mut self, so one runs at a time; it is seen half way   *)
(* at its awaits.  The forwarders, the sessions and the host's event loop  *)
(* interleave with it.  An aborted forwarder may go on for a while: it     *)
(* ends where it next waits, which is when it takes no more steps.         *)
(***************************************************************************)
EXTENDS Naturals, Sequences

CONSTANTS
  MaxSessions,  \* bound of the model: sessions ever connected
  MaxEvents,    \* bound of the model: events of all sessions
  MaxFailures   \* bound of the model: connection attempts that fail

ASSUME BoundsAssumption == MaxSessions \in Nat /\ MaxEvents \in Nat /\ MaxFailures \in Nat

VARIABLES
  host,        \* which host drives the runtime
  opened,      \* sessions connected so far; they are numbered
  session,     \* LiveRuntime::session, 0 for None
  generation,
  handle,      \* ManagedRuntime::resume_handle, 0 for None
  forwarder,   \* session -> state of its forwarder task
  tag,         \* session -> the generation its forwarder was spawned with
  inbox,       \* session -> events its forwarder has not received
  alive,       \* sessions whose runner has not ended
  queue,       \* QueuedRuntimeEvents on their way to the host
  hand,        \* the event a handler of Discord waits to take to the manager
  op,          \* the operation in progress and the await it has reached
  lifecycle,   \* SessionManager::lifecycle_state
  memory,      \* resumable_session, and whether it is inside its age window
  turns,       \* whether recent_turns holds any turn
  conv,        \* external: session -> conversation the server continues in it
  origin,      \* external: the conversations the issued handles belong to
  sentEvents, failures,  \* counters for the bounds
  superseded,  \* history: sessions that apply or apply_fresh replaced
  told,        \* history: conversations that were given what memory held
  unfed,       \* history: conversations whose rehydration failed
  late         \* history: an aborted forwarder stored a handle too late

runtimeVars == <<opened, session, generation, forwarder, tag>>
managerVars == <<lifecycle, memory, turns>>
serverVars  == <<inbox, alive, conv, origin, sentEvents>>
historyVars == <<superseded, told, unfed, late>>
vars == <<host, runtimeVars, handle, queue, hand, op, managerVars, serverVars, failures, historyVars>>

Sessions == 1..MaxSessions
Hosts    == {"cli", "discord", "recorder"}
Managed  == host # "recorder"    \* the recorder has no SessionManager

Event(kind, s, h) == [kind |-> kind, from |-> s, handle |-> h, gen |-> 0]
Nothing == Event("none", 0, 0)

\* What an operation awaits.  seed: should_rehydrate, read when it began.
Op(pc, mode, h, seed) == [pc |-> pc, mode |-> mode, handle |-> h, seed |-> seed]
Idle == Op("idle", "none", 0, FALSE)

\* The session the host was in last, also while it is dormant.
LastConversation == IF opened = 0 THEN 0 ELSE conv[opened]

-----------------------------------------------------------------------------
(* Pieces of the operations.                                               *)

\* cancel_task_set.
CancelTaskSet == IF session = 0 THEN forwarder
                 ELSE [forwarder EXCEPT ![session] = "aborting"]

FreshMode(seed) == IF seed THEN "seeded" ELSE "fresh"

\* connect or connect_with_setup_override, as far as driver.connect.
BeginFresh(seed) ==
  /\ handle' = 0
  /\ op' = Op("connecting", FreshMode(seed), 0, seed)

Replaces == op.mode \in {"apply", "applyFresh"}

\* Mutant: apply stores the generation it started with.
SameGeneration == generation

NextGeneration == IF Replaces THEN generation + 1 ELSE generation

\* Mutant: the forwarder is tagged with the generation read at the start.
TagBefore == generation

SpawnTag == NextGeneration

-----------------------------------------------------------------------------
(* SessionManager.                                                         *)

\* Mutant: the state is announced before the connection is there.
WakeStateEarly == "Hot"

WakeState == "Connecting"

EnsureHot ==
  /\ Managed /\ op = Idle
  /\ IF session # 0
     THEN lifecycle' = "Hot" /\ UNCHANGED <<handle, op>>
     ELSE /\ lifecycle' = WakeState
          /\ IF memory.handle # 0 /\ memory.young
             THEN op' = Op("connecting", "resume", memory.handle, turns) /\ UNCHANGED handle
             ELSE BeginFresh(turns)
  /\ UNCHANGED <<host, runtimeVars, queue, hand, memory, turns, serverVars, failures, historyVars>>

\* The CLI wakes the session inside a branch of its select! too (the forwarding
\* of a tool completion), and another branch may cut that short.
CancelWake ==
  /\ host = "cli"
  /\ op.pc = "connecting" /\ op.mode \in {"resume", "fresh", "seeded"}
  /\ op' = Idle
  /\ UNCHANGED <<host, runtimeVars, handle, queue, hand, managerVars, serverVars, failures, historyVars>>

\* rehydrate_from_memory: the send fails once the runner has ended.
Rehydrate ==
  /\ op.pc = "rehydrating"
  /\ op' = Idle
  /\ IF session \in alive
     THEN lifecycle' = "Hot" /\ told' = told \cup {conv[session]} /\ UNCHANGED unfed
     ELSE unfed' = unfed \cup {conv[session]} /\ UNCHANGED <<lifecycle, told>>
  /\ UNCHANGED <<host, runtimeVars, handle, queue, hand, memory, turns, serverVars, failures, superseded,
                 late>>

\* sync_resume_handle_from_runtime; the age counts from now.
SyncedMemory == IF handle = 0 THEN memory ELSE [handle |-> handle, young |-> TRUE]

EnterDormant ==
  /\ Managed /\ op = Idle
  /\ lifecycle # "Dormant"
  /\ IF session = 0
     THEN lifecycle' = "Dormant" /\ UNCHANGED <<memory, forwarder, session, op>>
     ELSE /\ lifecycle' = "Closing"
          /\ memory' = SyncedMemory
          /\ forwarder' = CancelTaskSet
          /\ session' = 0
          /\ op' = Op("closing", "dormant", 0, FALSE)
  /\ UNCHANGED <<host, opened, generation, tag, handle, queue, hand, turns, serverVars, failures, historyVars>>

\* The stored handle leaves its age window.
HandleAges ==
  /\ memory.young
  /\ memory' = [memory EXCEPT !.young = FALSE]
  /\ UNCHANGED <<host, runtimeVars, handle, queue, hand, op, lifecycle, turns, serverVars, failures, historyVars>>

-----------------------------------------------------------------------------
(* ManagedRuntime.                                                         *)

\* connect, by a host without a manager: the old session is closed first.
Connect ==
  /\ ~Managed /\ op = Idle
  /\ forwarder' = CancelTaskSet
  /\ session' = 0
  /\ IF session # 0
     THEN op' = Op("closing", "connect", 0, FALSE) /\ UNCHANGED handle
     ELSE BeginFresh(FALSE)
  /\ UNCHANGED <<host, opened, generation, tag, queue, hand, managerVars, serverVars, failures, historyVars>>

Close ==
  /\ ~Managed /\ op = Idle
  /\ forwarder' = CancelTaskSet
  /\ session' = 0
  /\ op' = Op("closing", "close", 0, FALSE)
  /\ UNCHANGED <<host, opened, generation, tag, handle, queue, hand, managerVars, serverVars, failures, historyVars>>

\* The close request has been accepted by the session's channel.
FinishClose ==
  /\ op.pc = "closing"
  /\ IF op.mode = "connect" THEN BeginFresh(FALSE) ELSE handle' = 0 /\ op' = Idle
  /\ lifecycle' = IF op.mode = "dormant" THEN "Dormant" ELSE lifecycle
  /\ UNCHANGED <<host, runtimeVars, queue, hand, memory, turns, serverVars, failures, historyVars>>

\* Mutant: apply goes on without a handle.
MayApplyAlways == TRUE

\* apply returns MissingResumeHandle otherwise.
MayApply == handle # 0

\* The CLI applies a setup to the session that is installed.
Apply ==
  /\ host = "cli" /\ op = Idle
  /\ session # 0
  /\ MayApply
  /\ op' = Op("connecting", "apply", handle, FALSE)
  /\ UNCHANGED <<host, runtimeVars, handle, queue, hand, managerVars, serverVars, failures, historyVars>>

\* Offered to hosts that drive the runtime themselves.
ApplyFresh ==
  /\ ~Managed /\ op = Idle
  /\ op' = Op("connecting", "applyFresh", 0, FALSE)
  /\ UNCHANGED <<host, runtimeVars, handle, queue, hand, managerVars, serverVars, failures, historyVars>>

\* driver.connect returns a session: it is installed and its forwarder spawned.
\* What apply does after that, closing the old session, changes nothing here.
ConnectSucceeds ==
  /\ op.pc = "connecting"
  /\ opened < MaxSessions
  /\ LET s == opened + 1
         c == IF op.handle # 0 THEN origin[op.handle] ELSE s
     IN /\ opened' = s /\ session' = s
        /\ forwarder' = [CancelTaskSet EXCEPT ![s] = "running"]
        /\ tag' = [tag EXCEPT ![s] = SpawnTag]
        /\ generation' = NextGeneration
        /\ alive' = alive \cup {s}
        /\ conv' = [conv EXCEPT ![s] = c]
        /\ told' = IF op.handle = 0 /\ op.mode # "seeded" /\ ~turns THEN told \cup {s} ELSE told
  /\ handle' = IF op.mode = "applyFresh" THEN 0 ELSE handle
  /\ superseded' = IF Replaces THEN superseded \cup ({session} \ {0}) ELSE superseded
  /\ IF op.mode = "seeded"
     THEN op' = [op EXCEPT !.pc = "rehydrating"] /\ lifecycle' = "Rehydrating"
     ELSE /\ op' = Idle
          /\ lifecycle' = IF op.mode \in {"resume", "fresh"} /\ Managed THEN "Hot" ELSE lifecycle
  /\ UNCHANGED <<host, queue, hand, memory, turns, inbox, origin, sentEvents, failures,
                 unfed, late>>

\* Mutant: the fallback is a fresh session without history.
FallbackBlank == FALSE

\* A failed resumption falls back to a fresh session, with history if there is any.
Fallback == op.seed

\* Mutant: the handle that failed is kept.
MemoryKept == memory

\* clear_resumable_handle.
MemoryCleared == [handle |-> 0, young |-> FALSE]

ConnectFails ==
  /\ op.pc = "connecting"
  /\ failures < MaxFailures
  /\ failures' = failures + 1
  /\ IF op.mode = "resume"
     THEN memory' = MemoryCleared /\ BeginFresh(Fallback)
     ELSE op' = Idle /\ UNCHANGED <<memory, handle>>
  /\ UNCHANGED <<host, runtimeVars, queue, hand, lifecycle, turns, serverVars, historyVars>>

-----------------------------------------------------------------------------
(* Events.                                                                 *)

\* The server: the end of a turn, standing for every event without an effect of
\* its own here; a resumption update without a resumable handle, which only a
\* host that syncs on updates tells from it; an update with one.
Publish(s) ==
  /\ s \in alive
  /\ sentEvents < MaxEvents
  /\ sentEvents' = sentEvents + 1
  /\ \/ /\ \E kind \in IF host = "discord" THEN {"turn", "update"} ELSE {"turn"} :
              inbox' = [inbox EXCEPT ![s] = Append(@, Event(kind, s, 0))]
        /\ UNCHANGED origin
     \/ /\ origin' = Append(origin, conv[s])
        /\ inbox' = [inbox EXCEPT ![s] = Append(@, Event("update", s, Len(origin) + 1))]
  /\ UNCHANGED <<host, runtimeVars, handle, queue, hand, op, managerVars, alive, conv, failures, historyVars>>

\* The runner ends: closed by this runtime, by the server or after failures.
SessionEnds(s) ==
  /\ s \in alive
  /\ sentEvents < MaxEvents
  /\ sentEvents' = sentEvents + 1
  /\ alive' = alive \ {s}
  /\ inbox' = [inbox EXCEPT ![s] = Append(@, Event("closed", s, 0))]
  /\ UNCHANGED <<host, runtimeVars, handle, queue, hand, op, managerVars, conv, origin, failures, historyVars>>

\* An aborted forwarder has a handle of a conversation that is over or, its
\* clearing being past, about to be.
TooLate(s, e) ==
  /\ e.handle # 0 /\ forwarder[s] = "aborting"
  /\ conv[s] # LastConversation \/ (op.pc = "connecting" /\ op.handle = 0)

\* One round of spawn_session_forwarder's loop.
Forward(s) ==
  /\ forwarder[s] \in {"running", "aborting"}
  /\ inbox[s] # <<>>
  /\ LET e == Head(inbox[s])
     IN /\ queue' = Append(queue, [e EXCEPT !.gen = tag[s]])
        /\ handle' = IF e.handle # 0 THEN e.handle ELSE handle
        /\ late' = (late \/ TooLate(s, e))
  /\ inbox' = [inbox EXCEPT ![s] = Tail(@)]
  /\ UNCHANGED <<host, runtimeVars, hand, op, managerVars, alive, conv, origin, sentEvents, failures,
                 superseded, told, unfed>>

Passes(e) == e.gen = generation \/ e.kind = "closed"

\* RuntimeEventReceiver::recv, one round.  The CLI and the recorder run their
\* operations and their event loop in one task, and their handlers ask nothing
\* of the manager; Discord's waits for the manager's lock.
Receive ==
  /\ queue # <<>> /\ hand = Nothing
  /\ host # "discord" => op = Idle
  /\ queue' = Tail(queue)
  /\ hand' = IF host = "discord" /\ Passes(Head(queue)) /\ Head(queue).kind # "closed"
             THEN Head(queue)
             ELSE Nothing
  /\ UNCHANGED <<host, runtimeVars, handle, op, managerVars, serverVars, failures, historyVars>>

\* record_completed_turn, or sync_resume_handle_from_runtime.
Handle ==
  /\ hand # Nothing /\ op = Idle
  /\ memory' = IF hand.kind = "update" THEN SyncedMemory ELSE memory
  /\ turns' = (turns \/ hand.kind = "turn")
  /\ hand' = Nothing
  /\ UNCHANGED <<host, runtimeVars, handle, queue, op, lifecycle, serverVars, failures, historyVars>>

-----------------------------------------------------------------------------
Init ==
  /\ host \in Hosts
  /\ opened = 0 /\ session = 0 /\ generation = 0 /\ handle = 0
  /\ forwarder = [s \in Sessions |-> "none"] /\ tag = [s \in Sessions |-> 0]
  /\ inbox = [s \in Sessions |-> <<>>] /\ alive = {}
  /\ queue = <<>> /\ hand = Nothing /\ op = Idle
  /\ lifecycle = "Dormant" /\ memory = [handle |-> 0, young |-> FALSE] /\ turns = FALSE
  /\ conv = [s \in Sessions |-> 0] /\ origin = <<>>
  /\ sentEvents = 0 /\ failures = 0
  /\ superseded = {} /\ told = {} /\ unfed = {} /\ late = FALSE

Operation == \/ EnsureHot \/ CancelWake \/ Rehydrate \/ EnterDormant
             \/ Connect \/ Close \/ FinishClose \/ Apply \/ ApplyFresh
             \/ ConnectSucceeds \/ ConnectFails

Next == \/ Operation
        \/ \E s \in Sessions : Publish(s) \/ SessionEnds(s) \/ Forward(s)
        \/ Receive \/ Handle
        \/ HandleAges

Spec == Init /\ [][Next]_vars

-----------------------------------------------------------------------------
(* Properties.                                                             *)

Events == [kind : {"turn", "update", "closed"}, from : Sessions, handle : Nat, gen : Nat]

\* Type correctness; a resumption, and nothing else, has a handle to resume from.
TypeOK ==
  /\ host \in Hosts
  /\ opened \in 0..MaxSessions /\ session \in {0, opened} /\ generation \in Nat
  /\ handle \in 0..Len(origin)
  /\ forwarder \in [Sessions -> {"none", "running", "aborting"}]
  /\ tag \in [Sessions -> Nat]
  /\ inbox \in [Sessions -> Seq(Events)] /\ queue \in Seq(Events)
  /\ alive \subseteq 1..opened
  /\ hand \in Events \cup {Nothing}
  /\ op \in [pc : {"idle", "closing", "connecting", "rehydrating"},
             mode : {"none", "dormant", "connect", "close", "resume", "fresh", "seeded", "apply",
                     "applyFresh"},
             handle : 0..Len(origin), seed : BOOLEAN]
  /\ op.mode \in {"resume", "apply"} <=> op.handle # 0
  /\ lifecycle \in {"Dormant", "Connecting", "Rehydrating", "Hot", "Closing"}
  /\ memory \in [handle : 0..Len(origin), young : BOOLEAN]
  /\ turns \in BOOLEAN /\ late \in BOOLEAN
  /\ conv \in [Sessions -> 0..MaxSessions] /\ origin \in Seq(Sessions)
  /\ sentEvents \in 0..MaxEvents /\ failures \in 0..MaxFailures
  /\ superseded \subseteq Sessions /\ told \subseteq Sessions /\ unfed \subseteq Sessions

\* The generation filter (README of the runtime): no event of a session that
\* apply replaced reaches the host, except that it ended, not even one that was
\* queued before the switch or sent by a forwarder still winding down; and no
\* event of the session that is installed is filtered out.
FilterIsExact ==
  [][queue # <<>> /\ queue' = Tail(queue) =>
       LET e == Head(queue)
       IN IF Passes(e) THEN e.kind = "closed" \/ e.from \notin superseded
                       ELSE e.from # session]_vars

\* At every await the installed session has the one forwarder that is not
\* aborted, and its events pass the filter; without a session there is none.
OneForwarder ==
  /\ \A s \in Sessions : forwarder[s] = "running" <=> s = session
  /\ session # 0 => tag[session] = generation

\* A session that is resumed, on waking or by apply, is the one the host was in
\* last: handles of an earlier conversation are never used, whether they are
\* still in memory, in the runtime, or arrive after their session was closed.
\* (An aborted forwarder that stores one after it was cleared is excepted.)
ResumesLastConversation ==
  op.handle # 0 /\ ~late => origin[op.handle] = LastConversation

\* Whatever memory holds when a session is woken has been told to the model
\* once the host may use that session, through every fallback and every later
\* resumption.  Excepted are the conversations whose rehydration failed: the
\* runner had ended, but a handle issued before may be resumed from.
ContextKept ==
  Managed /\ op = Idle /\ session # 0 => conv[session] \in told \cup unfed

\* Between operations the lifecycle state agrees with the runtime, on which the
\* idle loop relies: a dormant manager holds no session, a hot one does, and a
\* failed wake is neither.
LifecycleAgrees ==
  Managed /\ op = Idle =>
    /\ lifecycle = "Dormant" => session = 0
    /\ lifecycle = "Hot" => session # 0
    /\ lifecycle # "Closing"
=============================================================================
