# A TLA+ development of gemini-live-rs

The specifications, model-checking configurations and proofs beside the source
of `gemini-live-rs`: a Rust client of the Gemini Live WebSocket API, the
runtime and harness layers above it, and the hosts (a desktop CLI, a Discord
bot, a recorder) built on them. Paths below are relative to `src/crates/`.

Contents: [the system](#1-the-system), [what is modelled](#2-the-modules),
[what is checked](#3-the-runs), [bounds and fairness](#4-bounds-and-fairness),
[what is proved](#5-the-proofs), [divergences found](#6-where-code-and-documents-disagree),
[what is not modelled](#7-what-is-left-out), [plan](#8-plan).

## 1. The system

| Component | State | Operations | Interacts by |
|---|---|---|---|
| Session (`gemini-live/src/session.rs`) | command channel (64), `pending_commands`, status, resume handle, `GoAwayState`, broadcast channel (256) with one cursor per handle | connect, send_*, close, clone, drop, next_event; the runner's `run_connected`, `reconnect` | mpsc commands in, broadcast events out, one WebSocket |
| Codec, transport, audio (`gemini-live/src/`) | buffers | encode, decode, into_events; connect, send, recv | called by the runner |
| Managed runtime (`gemini-live-runtime/src/managed.rs`) | generation, resume handle, one forwarder task | connect, connect_resumed, apply, apply_fresh, close, send_* | reads a Session, queues tagged events to the host |
| Session manager (`session_manager.rs`, `memory.rs`) | lifecycle state, conversation snapshot | ensure_hot, enter_dormant, idle_decision, rehydrate | owns the managed runtime, called by hosts |
| Harness tools (`gemini-live-harness/src/{bridge,controller,executor}.rs`) | two maps keyed by call id, dispatch, execution and finisher tasks, a completion channel | handle_runtime_event, spawn/cancel_tool_call, recv_and_forward, the background finisher | runtime events in, tool responses out, task records on disk |
| Harness store (`store.rs`, `fs.rs`) | JSON files: tasks, results, event logs, notifications, memory, profile; the queue version | start/complete/fail/cancel/interrupt task, enqueue/deliver/acknowledge/requeue notification | called without a lock by every harness task |
| Passive notification pump (`delivery.rs`) | the notification in flight, the gate signal | spawn, dispatch_once, acknowledge, requeue, recover | store, host callbacks `can_deliver`, `deliver` |
| Discord host (`gemini-live-discord/src/service.rs`) | pending replies, `turn_in_flight`, the open reply, voice bridge, target channel | message handler, runtime event loop, notification loop, idle loop | Discord, session manager, harness |
| CLI host (`gemini-live-cli/src/{main,app,session,outbound}.rs`) | app state, tool-call counter, dormancy flags, staged configuration | one `select!` loop over terminal, runtime, bridge, devices, timers | session manager, harness, devices |
| CLI devices and start-up (`desktop.rs`, `desktop_control.rs`, `media.rs`, `profile.rs`, `startup.rs`) | device handles, the profile in memory and on disk, requests of desktop tools | launch, switch a device, handle a request, persist | capture threads, the harness's profile store |
| CLI tools (`tooling.rs`) | the enabled tools: saved, desired, active, and those of the session | specifications, call routing, staging, apply | the harness's registry and adapters |
| Transcribe command (`transcribe/`) | line in flight, file, staged and active settings, one capture | poll status, read events, switch the source, apply | a Session directly |
| Recorder (`gemini-live-recorder/src/`) | recording state, accepted submissions, deadline | keyboard, runtime events, summary timeout, submission tool | the managed runtime directly (no session manager), its own tool channel |
| Discord voice (`gemini-live-discord/src/voice.rs`) | the queue of model audio, the current track, its generation | push, clear, start and end of a track, shutdown | threads of the voice driver |
| Workspace tools (`gemini-live-tools/src/`) | child process, pipe readers; pages, the walk of a directory | run_command, read_file, list_files, set_timer | executed by the harness |
| Devices (`gemini-live-io/src/`) | sample buffers, chunks, bounded channels | capture and playback callbacks, toggles | operating system threads and the host's loop |

What is hard here, and hard to test:

* the runner takes a command out of a channel before it knows whether it can be
  written; commands are deferred across a GoAway and across reconnects; the
  session may end at any of these points;
* the resume handle is updated and revoked by server messages on several
  connections, and read by a reconnect;
* every harness task reads and writes the same files with no lock, and the
  process may die between any two writes;
* a completion, a cancellation and a timeout race for the same record;
* the pump combines two wake-up signals with different memory (a version
  counter keeps a change, `notify_waiters` does not) and a gate maintained by
  other tasks under separate locks;
* a branch of a `select!` that loses the race is dropped with what it had in
  hand, in the CLI and in Discord;
* a host closes its own session when idle, and must tell the event of that
  closing from the loss of a session, and its counters from what is really
  outstanding;
* device callbacks must not wait, and share buffers with a loop that does.

`PROJECT.json` lists these hazards one by one, at the line where each bites,
with the properties that catch it going wrong, or the reason why none does: most
often that the property which would is not met (section 6).

What makes each component correct: the session writes a command at most once,
in order, resolves every command, never continues from a wrong checkpoint, and
tells its callers when it fails; the harness answers every call, leaves no
background task running for ever, and keeps record, result and notification in
agreement; the pump delivers every notification, tracks what it delivered, and
repeats none without a reason; the runtime hands its host no event of a
replaced session; the hosts go dormant only when nothing is going on, and
recover from a lost session; the recorder gives every window its record; the
profile seeds later runs and follows the devices; samples, lines and pages
arrive once and in order.

## 2. The modules

`MC*.tla` give the constants for TLC; `MCHostParts` also puts six small modules
side by side. Definitions under a
`\* Mutant:` comment are faulty variants of the definition after them; no
specification uses them. They show that the property they are paired with in
`PROJECT.json` can fail.

### LiveSession: one session

One action per operation of a handle, and one per iteration of the runner's
`select!` loop. The runner is a single task, so nothing else of it interleaves
with an iteration; the points where other tasks can see it half way are phases:

| `phase` | code |
|---|---|
| `connected` | inside `run_connected` |
| `leaving` | `run_connected` has returned, the `match` on `DisconnectReason` has not been acted on |
| `reconnecting` | inside `reconnect`, between attempts |
| `stopping` | status set to Closed, `break` |
| `ended` | the runner task returned, its channel ends are dropped |

| Model | Code |
|---|---|
| `queue`, `Accept` | the bounded mpsc channel; a full one suspends the caller, who then has no step |
| `pending`, `FromPending`, `DeferCommand` | `pending_commands`, `next_command`, the GoAway guard of `run_connected` |
| `WriteCommand`, `FailedWrite`, `TakeClose`, `AllSendersDropped` | the arms on a command |
| `GoAwayDeadline` | `wait_for_deadline`; time is abstract, so the deadline may pass at any moment |
| `ReceiveMessage` | `process_message` with `go_away_state`, `update_resume_handle`, `into_events`, and the handoff check at the end of the loop body, in that order |
| `ReceiveClose`, `ReceiveError`, `LinkFails` | a close frame, an error of `recv`, the transport breaking unnoticed |
| `StartReconnect`, `FailAttempt`, `Reconnected`, `GiveUp` | `reconnect`, one action per attempt; `PossibleStateLoss` is its first check |
| `cursor`, `NextObservedEvent`, `Lagging` | a broadcast receiver: a cursor per handle, and Lagged when it falls `EventCap` behind |

Commands are numbers with a kind: an input, a tool response, or the close
request, all that `command_can_send_during_go_away` tells apart. Resume handles
are numbered in the order the server issued them, and an update that is not
resumable revokes all issued so far. `wire`, `lost`, `issued`, `revoked`,
`resumedWith`, `joined` and `heard` are history: no guard reads them, except
that `UpdateResumeHandle` takes the next number from `issued`.

Left out: the branch in which a message fails to serialize (the types sent
always serialize), frames that do not decode (they change nothing), messages
that `wait_setup_complete` skips during a handshake, and `max_attempts = None`,
which differs only in that `GiveUp` is never reached by counting.

### CommandDelivery: what a session promises

The abstract specification: a bag of waiting commands in order of acceptance,
of which the first of either lane (inputs; tool responses and close) may be
delivered or lost, until the session shuts and abandons the rest. `LiveSession`
implements it (`DeliveryContract`) with `waiting` as `pending \o queue`.

### HarnessTools: tool calls and their durable tasks

| Model | Code |
|---|---|
| `dispatch[c]` | the task spawned by `spawn_tool_call`, at its await or file operation |
| `exec[c]` | the execution it spawns in `execute_budgeted_host_call`, or awaits inline |
| `dispatches`, `inFlight` | `in_flight_tool_dispatches` and `in_flight_host_tools`, both keyed by `call_key`, which is `""` for every call without an id |
| `writer[c]`, `writer["host"]` | the finisher, and the host loop when it cancels or reconciles, inside `complete_task`, `fail_task`, `cancel_task` or `interrupt_task`: read and check, write, result file, notification |
| `task`, `taskBy`, `result`, `notified` | the files: status and owner of a record, its result, the notifications enqueued for it |
| `host` | the host's loop: idle, between spawn and insert, in a cancellation, or reconciling |
| `Restart` | process death at any point (a clean shutdown aborts all calls and exits, which this covers) and the reconciliation of the next process |
| `BuildController`, `AdoptController`, `DiscardController` | `ApplySessionConfig` in the CLI |

A record's status lives in one atomically replaced file, so a read or a write
of it is one step; two of them are two steps. `cancel` marks the execution as
aborting, which the execution may not notice before it is over. The step that
sets the background task id is merged with the write of the progress event
before it: no other task can tell them apart, since a cancellation in between
does exactly what one just before would. The removal of a dispatch entry and
the send of its completion are merged likewise. `host_executor.cancel`, a
best-effort hint to the tool, and `events.jsonl` are left out. The order in
which reconciliation visits records is not fixed.

Receiving a completion and sending its response (`ReceiveCompletion`,
`Forward`) are one branch of the host's `select!`. When another branch is ready
while the send waits, the future is dropped and the completion with it
(`DropForwarding`, in `OtherBranch` and in every action that is the body of
another branch).

`EveryCallAnswered` demands that the response is sent. What it excepts are the
ways in which the code gives one up, and each is named: the session refuses the
response, and it is not sent again; the completion is dropped with its branch;
the call was cancelled; the process ended; the completion comes to a controller
that has been replaced; or a later call under the same key aborted the dispatch,
which the run with its one call does not reach (two calls are too large for a
liveness check). `CompletionsAreForwarded` does not except the dropped
completion, and fails.

The history variable `orphaned` names the calls for which an I/O error left a
Running record behind, and `torn` those whose terminal update was cut short by
a crash or an error, or raced with another: the exceptions in the properties
are these and no others.

### PassiveNotifications: the pump, the store and the gate

Three tasks, each with a program counter in `at`: the pump (`delivery.rs`), a
message handler and the runtime event loop (`service.rs`). A step is what runs
between two awaits or under one lock. The shared reply queue, `turn_in_flight`,
`in_flight_notification_id` and the records are changed in different steps, as
in the code: `SyncRead`/`SyncSet` are two locks of
`sync_turn_state_after_reply_end`, and `MarkDelivered`/`RecordInFlight` two
steps of `dispatch_once`.

The two signals are kept apart. `unseen` says whether the queue version
differs from the one the pump observed: an enqueue sets it, `ReadVersion`
clears it. `signalled` is the gate's `Notify`: `SetTurnInFlight` sets it only
for a pump that is parked. `WakeFails` is the early return of `ensure_hot`,
which leaves the pending reply and the flag behind; `SendFails` removes the
last pending reply, whoever pushed it. The server's end of a turn and the start
of its handling are one step. The Closed arm of `handle_server_event` is never
reached (the forwarder turns Closed into a lifecycle event) and the `Ok` of a
delivery without a target channel needs the channel to disappear, which nothing
does; neither is modelled. `close_runtime`'s requeue of a delivered
notification has the effect of `Restart`.

`missed`, `excuses` and `stranded` are history. They state, precisely, when a
notification may wait, be repeated, or stay delivered.

### ManagedRuntime: sessions one after the other

`managed.rs`, `runtime.rs`, `session_manager.rs` and `memory.rs` in one module,
because what makes them correct lies between them: the resume handle is stored
by a forwarder, copied to memory by the manager, cleared by one and used by the
other. `host` is the program that drives them, chosen in `Init`: the CLI and
Discord through the manager, the recorder through `connect` and `close`.

| Model | Code |
|---|---|
| `op` | the operation in progress. Operations take `&mut self` (Discord: under the manager's lock), so there is one; its `pc` is the await it has reached |
| `session`, `generation`, `handle` | `LiveRuntime::session`, the generation counter, `resume_handle` |
| `forwarder[s]`, `tag[s]`, `inbox[s]` | the task spawned by `spawn_task_set`, the generation it was given, what it has not received yet. `abort` only marks it: it may go on (`Forward`) or never run again |
| `queue`, `Receive`, `Passes` | the unbounded channel to the host and `RuntimeEventReceiver::recv` |
| `EnsureHot`, `ConnectSucceeds`, `ConnectFails`, `Rehydrate` | `ensure_hot` from await to await, with the fallback from a resumption to a fresh session |
| `EnterDormant`, `FinishClose` | `enter_dormant`: the close request may have to wait for room in the session's channel |
| `Apply`, `ApplyFresh`, `Connect`, `Close` | the operations of `ManagedRuntime` that hosts call |
| `CancelWake` | the CLI's `ensure_hot` inside a branch of its `select!`, dropped half way |
| `hand`, `Handle` | a Discord handler that has an event and waits for the manager's lock |
| `memory`, `turns`, `HandleAges` | the stored handle, whether it is inside its age window, whether there are turns to rehydrate from |
| `conv`, `origin`, `Publish`, `SessionEnds` | external: what the server does. A session that is connected with a handle continues the conversation the handle was issued in |

Events are told apart as far as anybody acts on them: the end of a turn (for
all the events nobody here acts on), a resumption update, and the end of the
session. `told`, `unfed`, `superseded` and `late` are history. Left out: staged
setups, sends, and the lifecycle events the runtime itself emits, which always
pass the filter.

### CliHost: the loop of the desktop CLI

One task: `pc` is `"select"`, or `"dispatch"` for what follows every branch, the
attempt to deliver a notification. One action per branch of the `select!`:

| Model | Code |
|---|---|
| `Keys`, `Receive`, `Forward`, `HoldCompletion`, `ForwardMedia(d)`, `IdleDeadline`, `NotificationSignal` | the branches on the terminal, runtime events, tool completions, devices, the deadline, the queue of notifications |
| `Dispatch` | `dispatch_passive_notifications` at the end of the body |
| `counted`, `CountKept` | `tool_calls_in_flight`, which cancellations and dropped completions leave too high, and its resets |
| `dormantClose`, `OwnCloseExpected` | `dormant_close_in_flight`, by which the Closed event of the host's own dormancy is told from a loss |
| `desired`, `active`, `staged`, `setup` | the configuration staged by `/tools` and `/system`, the runtime's `desired_setup`, the active controller's, and the session's |
| `Environment` | tools that end, the session that ends, publishes and reconnects |

The forwarding of a completion happens before its branch is selected: a
completion in `HoldCompletion` is lost when another branch is ready first.
History: `asked`, `lost`.

### DiscordVoice: the gateway handlers and the idle loop

Each handler of the gateway is a task, which joins or leaves the voice channel
(`Voice(t)`) or forwards a message (`Forward(m)`); the event loop leaves the
channel when it cannot play, and the idle loop closes the session. `bridgeLock`
and `manager` are the two locks. Every await at which another task can run is a
step: `join_voice` locks the slot, shuts down a bridge of another channel
(`JoinReplaces`, `JoinShutsDown`), wakes the session, lets the manager go,
attaches. A handler joins because the owner came (`OwnerMoves`) or was found in
the channel when the guild was read anew (`GuildSync`). The target channel is
not a variable: a bridge that is installed may be that of another one. `Look`, `Arm`, `Fire`, `Evaluate` and `Decide` are the idle loop, which
re-creates its `Notified` on every iteration.

### Recorder: windows and summaries

One task; `pc` is the await it has reached in a body (`"dispatch"`, `"flush"`,
`"restart"`), because the session may end or publish between any two of them.
`window`, `pending` and `current` are the active window, those waiting for a
summary and the summary in flight; `buffered` is the media held back while one
is. `Tick` closes a window, `Timeout` ends a summary, `Interrupt` is Ctrl-C,
`Server` what the session publishes. The JSONL file is `log`.

### TranscribeHost: `gemini-live transcribe`

The loop polls `status` once a second (`Tick`), reads events as its cursor sees
them (`ReadEvents`, and `lagged` when the broadcast has overtaken it), switches
the source in two steps and applies staged settings by closing one session and
opening another (`Applies`). What is shown of the connection has two writers: the
poll, and the arm of `handle_server_event` on Closed, which the session also
broadcasts when the server's close frame only starts a reconnect (`Disconnects`).
The end of the session is told by an Error or by nothing (`GivesUp`).

### ToolCatalog: what the CLI's tools declare and run

`Tools` with the functions each declares (`FunctionNames`), the registry's
refusal of a repeated name (`Builds`), the routing of a call (`Route`) and the
five copies of a profile (saved, desired, active, of the next session, of the
session). `CallTimer` is `timer.rs` with its checked 64-bit arithmetic, the
widths and units being constants.

### WorkspaceTools: one call of a workspace tool

`run_command` with the process, a process it may leave behind (`heir`), two
pipes, two readers (`read_limited`), the limit and the abort by the harness;
`read_file` page by page; `list_files`, whose stack of directories is the code's.
A byte is a unit, a line a number.

### VoicePlayback, SpeakerPlayback, AudioCapture: samples

VoicePlayback is the Discord side: `Start(p)` is `ensure_playback_track` from
lock to settlement, for the event pump and for the handler of each track that
ended; the driver reads, ends and drops sources by itself (external). Speaker
and capture are the desktop side: a host call and a device callback that contend
for a mutex which the callback only tries, and callbacks that cut buffers of any
size into chunks for a bounded channel. Samples are numbers, so that order, loss
and repetition are visible. In AudioCapture every stream has a callback and
buffers of its own, and all share the channel: at a switch of the source two run
at once (`SwitchStream`, then `DropOld`), and a callback that was in progress
when its stream was dropped still offers what it has.

### StartupProfile, DesktopDevices: what is remembered

StartupProfile has the precedence of environment, profile and default as
functions over model values. DesktopDevices launches the CLI with it, starts the
devices of the profile, switches them by slash commands and by requests of
desktop tools through the control channel, saves the profile after each, and
runs the capture threads of a screen share. A save may fail, and the program
may end at any point; the next launch reads what was saved. A request whose
answer is never sent releases its caller all the same, with the error that there
is no host (`Reply`); `RequestsAnswered` tells that from an answer.

## 3. The runs

| Run | Module / cfg | Distinct states | Checks |
|---|---|---|---|
| session | MCLiveSession / LiveSession_session | 1,979,932 | `TypeOK`, `CommandOrder`, `Accounted`, `ResumesFromLiveCheckpoint`, `ClosedIsFinal`, `DeliveryContract` |
| session_handles | MCLiveSession / LiveSession_handles | 253 k | `EveryCommandResolved`, `FailureIsHeard` under fairness |
| tools_safety | MCHarnessTools / HarnessTools_safety | 1.78 M | `TasksInv` |
| tools_liveness | MCHarnessTools / HarnessTools_liveness | 54 k | `BackgroundTaskEnds`, `EveryCallAnswered` under fairness |
| notifications | MCPassiveNotifications / PassiveNotifications_delivery | 289 k | `DeliveryInv`, `AcknowledgedIsFinal`, `QueuedWaitsForAReason` under fairness |
| runtime_lifecycle | MCManagedRuntime / ManagedRuntime_lifecycle | 4.02 M | `TypeOK`, `OneForwarder`, `FilterIsExact`, `ResumesLastConversation`, `ContextKept`, `LifecycleAgrees` |
| recorder | Recorder / Recorder_windows | 571,471 | `RecorderInv`, `TurnsDoNotOverlap`, `RecorderProgress` under fairness |
| cli | CliHost / CliHost_loop | 189,088 | `CliInv`, `NothingCutOff`, `GoesDormant`, `LossEnds` under fairness |
| discord | DiscordVoice / DiscordVoice_host | 122,822 | `DiscordInv`, `HandlersEnd` under fairness |
| host_parts | MCHostParts / MCHostParts | 175,504 | `TranscribeInv`, `CatalogInv`, `WorkspaceInv`, `CaptureInv`, `TranscribeProgress`, `CallsRight`, `CommandEnds`, `PlaybackContract`, `SpeakerContract` |
| desktop | MCDesktopDevices / DesktopDevices_profile | 144,622 | `DesktopInv`, `DesktopProgress` under fairness |
| default_profile | ToolCatalog / ToolCatalog_defaults | violation | `ProfileStarts`: the default build cannot start with its default profile |

Every property states its meaning in a comment in its module. An invariant named
`...Inv` is the conjunction of the type invariant of its module and of named
parts, each with a comment of its own; `...Progress` and `...Contract` are
conjunctions of temporal properties. The most telling:

* `CommandOrder` and `Accounted` hold together across deferral, reconnect,
  failed writes and the end: a command is in exactly one place. It takes a
  GoAway, a deferral, a tool response that overtakes and a reconnect to put
  them in danger.
* `FailureIsHeard` depends on the order "set status, broadcast, drop the
  sender", on the bounded buffer keeping the newest events, and on every way
  to fail ending with an announcement.
* `TasksInv` (`RunningIsOwned`, `RecordsAgree`) meets the interleavings of
  dispatch, finisher, cancellation and crash. `RecordsAgree` needs the exception
  `torn`: the check and the write of a terminal status are not atomic, and two
  notifications for one task are possible.
* `DeliveryInv` holds although the end of a turn may overtake the bookkeeping of
  its delivery (`DeliveredIsTracked`): the notification then stays in flight
  until some later turn settles it.
* `QueuedWaitsForAReason` names the circumstances under which the pump leaves a
  notification queued.
* `FilterIsExact` states both halves of the generation filter: nothing of a
  replaced session passes, not even what its aborted forwarder sends late, and
  nothing of the installed session is dropped.
* `ResumesLastConversation` follows a handle through the forwarder, the runtime,
  memory and its age window. It excepts one history, `late`: a forwarder that
  is in the middle of storing a handle when it is aborted.
* `ContextKept` says what waking promises: the history in memory reaches the
  model through every fallback, except where a rehydration failed after its
  session was connected (`unfed`).
* `NothingCutOff` compares the CLI's counters with the calls that are really
  outstanding: the counter may be too high, and must never be too low when the
  host goes dormant or speaks up. `GoesDormant` is the other side.
* `CliInv` (`QuitsForAReason`) and `LossEnds` are the two ways to mistake a
  Closed event: as a loss when it was the host's own, and the reverse. Events
  queued before a dormancy are read after the next wake.
* `DiscordInv` (`BridgeOnSession`, `WokenIsThere`): the manager's lock is given
  up while a bridge is attached, and the idle loop may run in between; a
  bridge on another channel is shut down first, under the lock of its slot.
* `RecorderInv` (`WindowAccounted`, `MediaInOrder`) and `RecorderProgress` hold
  through timeouts, refused submissions, sessions that end inside a body, and
  Ctrl-C at any moment.
* `PlaybackContract`: audio is heard in order and none from before an interruption
  after it, however late a starter comes; `QueueDrains`: audio that is queued is
  played or cleared, and a starter is never missing. A drained track that takes
  queued audio with it counts as clearing; `DrainLosesNothing` (section 6) does not
  let it.
* `CaptureInv` (`ChunksAreStable`, `HeardInOrder`, `SamplesAccounted`): whatever
  the sizes of the buffers, and also while two callbacks feed the channel, a
  chunk is a whole, consecutive run of one stream aligned to its start, those of
  a stream come in its order, and what a full channel drops are whole chunks.
* `TranscribeProgress` (`StatusShown`): a Closed that is only a rotation, and may
  be read after the reconnect, does not leave a living session shown as lost; one
  that died without a Closed is found by the poll.
* `DesktopProgress` (`RequestsAnswered`): the host answers a tool's request through
  every failure of device and profile, unless it is cancelled or the program ends.
* `DesktopInv` (`SeedsLaterRuns`, `Stragglers`): a launch without environment
  reaches what the run before it did; after a switch of the share at most one
  frame of the old target can still come.

Deadlock checking is off: a session that ended, a process with no calls left, a
pump with an empty queue and a host whose user has quit are proper ends.

## 4. Bounds and fairness

| Constant | Value | Why it is enough |
|---|---|---|
| `Handles` | 1 in session, 2 in session_handles | a command does not record its sender, so a second caller adds no order of sends; for lagging, cloning and the end of the channel two handles are needed |
| `QueueCap`, `MaxCommands` | 2, 3; 1, 1 with two handles | the channel fills; two inputs can be deferred and a tool response overtake them |
| `EventCap`, `MaxEvents` | 1, 2; 1, 1 | two updates, or an update and a GoAway, in one or several messages. The runner's own closing event comes on top, so with capacity 1 a reader lags |
| `MaxEpochs`, `MaxAttempts` | 2, 1 | one reconnect, with everything before and after it, and one failed |
| `Calls`, `Keys` | 2 under one key; 1 | two calls only meet through a shared key, and two with different keys do not interact |
| `MaxRestarts`, `MaxRebuilds`, `MaxFaults` | 1, 0, 0 with two calls; 1, 1, 1 with one | each kind of failure at any moment, and in every combination for one call |
| `Notes`, `MaxIncidents` | 2, 2 | one notification waits while the other is in flight, with any two of: a user's message, a voice turn, an interruption, a failure, a restart |
| `MaxSessions`, `MaxEvents`, `MaxFailures` (runtime) | 3, 3, 1 | a session, one that resumes or replaces it, and a third after that; one failed attempt reaches each fallback |
| Recorder: `MaxWindows`, `MaxMedia`, `MaxEvents`, `MaxSessions`, `Attempts`, `MaxDiskFaults` | 3, 3, 3, 3, 2, 1 | a window in summary, one waiting, one open, with media in each; a session that is replaced twice, a restart whose first attempt fails, a failed append |
| CLI: `Calls`, `Configs`, `Devices`, `MaxSessions`, `MaxIncidents`, `MaxKeys` | 1, 2, 1, 2, 2, 2 | a call, a dormancy and a wake after it, a configuration staged in between, and two incidents such as a cancellation and a loss |
| Discord: `Moves`, `Messages`, `MaxSessions`, `MaxTrouble` | 2, 1, 3, 1 | the owner comes, goes or is found by a sync, and a bridge is replaced, while a message wakes the session, the idle loop runs and one operation fails; a third session after two that were closed |
| Transcribe: `EventCap`, `MaxFragments`, `MaxCommands`, `MaxTrouble` | 2, 2, 2, 2 | a broadcast that overtakes its reader, a rotation inside a line, a session that is lost after it, an apply that fails |
| Catalog: `MaxU64`, `MaxTimer`, units | 15, 10, 6/3/2 | 4 bits for 64, so that products and sums overflow; a profile with none and one with one desktop tool, two launches, two changes, a call after them |
| Workspace: `MaxOutput`, `Chunk`, `PipeCap`, `MaxWritten`, `FileLines` | 2, 2, 2, 3, 5 | the limit hit exactly, crossed inside a chunk, and passed with the buffer full; a full pipe; pages that end at, before and beyond the last line |
| Playback: `MaxChunks`, `MaxTracks` | 3, 3 | two tracks that end while audio arrives, and the one started for it |
| Speaker, capture | rates 1 to 3, `MaxQueued` 5, `MaxStreams` 2; `MaxSamples` 7 a stream, `MaxToggles` 2 | faster, equal and slower devices; two streams, after one another or at once; a buffer of less than a frame and one of more than two chunks |
| Desktop: `Envs`, `Targets`, `MaxLaunches`, `MaxCaptures`, `MaxRequests`, `MaxSlashCommands`, `MaxFailedSaves` | 4, 2, 2, 2, 2, 1, 1 | a run with each environment and a later one after it, a share switched to another target, a tool that races a command, a failed save |

`SYMMETRY` is used in tools_safety alone, over calls; the specification treats
them alike and the run has no liveness property.

Fairness. Each `WF` stands for a task the async runtime keeps polling, an `SF` for
a branch of a `select!` (which chooses at random among the branches that are
ready) or for a fair lock.

* LiveSession: the runner takes some step while it can, and each live handle
  keeps reading. The server and the network owe nothing. `EveryCommandResolved`
  excepts the connection that announced to close, gave no deadline and no
  checkpoint, and stays open: the runner then defers inputs for ever.
* HarnessTools: each spawned task, the host loop, and the tool (an inline
  budget does not end a tool, so a tool that never returns is never answered).
* PassiveNotifications: the three tasks. Nothing is assumed of the user or the
  model, so a turn may stay open for ever; `turnInFlight` is therefore among
  the reasons to wait.
* Recorder: its task and the branch of a deadline that has passed.
* CliHost: its branches, time, and a reconnect that does not last for ever
  (`Relieve`).
* DiscordVoice: the handlers and loops, tokio's fair locks, and that the model
  ends its turns. That the service is ever closed down is not assumed.
* TranscribeHost: the loop. VoicePlayback: its tasks, and that the driver plays
  and ends its tracks. SpeakerPlayback: the host ends the call it is in, and the
  device finds the mutex free infinitely often (`SF`). WorkspaceTools: the tasks
  and the timer, not the command. DesktopDevices: the loop, the senders and the
  capture threads.

In `MCHostParts` only one part moves; the others are at rest in states where the
actions that are fair are disabled, so that the assumptions bind the part alone.

## 5. The proofs

Each proof module assumes the named assumption on the constants of its module
and nothing else.

| Module | Assumption | Theorems |
|---|---|---|
| LiveSession_proofs | `ConstantsAssumption` | `TypeCorrect`, `CommandsInvariant`, `OrderPreserved`, `CommandsAccounted`, `ClosedForGood`, `ResumptionIsSound`, `ContractHolds` |
| HarnessTools_proofs | `ToolsAssumption` | `TasksAreSound` |
| PassiveNotifications_proofs | `NotesAssumption` | `NotificationsAreSound`, `AcknowledgementIsFinal` |
| ManagedRuntime_proofs | `BoundsAssumption` | `TypeCorrect`, `OneLiveForwarder`, `ExactFilter`, `LifecycleIsRight`, `ResumptionContinues`, `ContextSurvives` |
| CliHost_proofs | `HostAssumption` | `CliIsSound`, `NothingIsCutOff` |
| DiscordVoice_proofs | `HostAssumption` | `VoiceStaysOnSession` |
| Recorder_proofs | `RecorderAssumption` | `RecordingIsSound`, `TurnsAreSeparate` |
| HostParts_proofs | `CatalogAssumption`, `WorkspaceAssumption`, `PlaybackAssumption`, `SpeakerAssumption`, `CaptureAssumption`, `StartupAssumption`, `DesktopAssumption`, `TranscribeAssumption`, each for its part | `CatalogIsSound`, `EveryCallIsRight`, with `CallsRunEnabledTools` and `TimersAreExact`; `WorkspaceIsRight`; `PlaybackIsSafe`; `EachSampleOnce`, `NoStaleSample`; `CaptureIsSound`; `DesktopIsSound`; `TranscriptIsSound` |

The assumptions say that bounds and sizes are natural numbers, that model values
differ from each other, and that sets which the code can only hold finitely many
of (`Notes`, `Messages`, `Calls`) are finite.

**LiveSession** holds for every number of handles, every capacity, and every
number of commands, events and connections.

`CommandOrder` is not inductive: it says nothing of what is still to be
written. `CommandInv` adds that both queues are sorted, that whatever left the
channel is older than what it holds (`ChannelIsFifo`), and that deferred
commands are inputs, each younger than every input written
(`DeferredInputsAreOldest`). Without the last, a write from the channel while
something is deferred could reverse two inputs; with it, such a write is
possible only during a GoAway, and is then never an input. `Accounted` further
needs that a deferred command is not lost. The proof has one lemma for each
way a step can treat commands (accept, defer, write, lose, end, leave alone),
and `CommandStep` sorts the actions of `Next` into them; facts about sequences
(`TailFacts`, `IdsOfTail`, `IdsOfAppend`, `SortedTail`, `SortedAppend`) are
stated once.

`ContractHolds` is the refinement of CommandDelivery, under the mapping that the
runs check: the waiting commands are the deferred ones before those of the
channel. A pop from `pending` is then `Without(waiting, 1)`, one from the
channel `Without(waiting, Len(pending) + 1)`, and a deferral moves nothing,
because a command is deferred from the head of the channel to the end of
`pending`. The abstract delivery takes a command only when none of its lane is
before it; for one from the channel that holds because nothing is deferred, or
because it is no input while all that is deferred is.

`ClosedForGood` needs only that a Closed status means that the runner is past
its loop. `ResumptionIsSound` needs that the handle kept is one that was issued
and has not been revoked.

**HarnessTools** holds for any number of calls, keys, restarts, rebuilt
controllers and faults, in every combination; tools_safety has two calls with a
restart and neither rebuilds nor faults. `TasksInv` says nothing of an update
that is on its way, so it is not inductive. `TasksInd` adds whose update each
writer carries and when the host loop is free (`Shaped`), who may know of a
record before its call has left its budget (`StageInv`), who will end a running
record (`OwnedInv`), and what a record, its result file and its notifications
are to each other at every step of an update (`RecordInv`).

**PassiveNotifications** holds for any finite set of notifications and any number
of incidents. `NotesInd` adds that the queue holds nothing twice, who holds
which notification at each step of the pump and the loop (`HoldersInv`), that
what is delivered is tracked by a task which will settle it
(`DeliveredIsTracked`), and that the sends of a notification are paid for by
reasons, the pump being at most one ahead (`SentInv`). Most steps are quiet; the
ten that are not are told apart once (`Steps`).

**ManagedRuntime** holds for any number of sessions, of events and of failures,
and for each of the three hosts. Every property that run `runtime_lifecycle`
checks is proved.

Five invariants carry them, each inductive once the ones before it are known:

- `TypeInv` is `TypeOK` in parts, so that an action is taken through the parts
  it touches, with `InboxTraced`: an event in an inbox comes from the session
  whose inbox it is, and a handle in it has been issued. Without it the handle
  that a forwarder stores need not be one the server knows.
- `FilterInv` adds to `OneForwarder` that every event in the queue has the tag
  of its forwarder (`QueueTagged`), and that the tag of a replaced session is
  below the counter (`SupersededBefore`). `FilterIsExact` is a fact about one
  step from it: an event that passes has the current generation, which no
  replaced session has.
- `LifeInv` names the operation that can have reached each await and says
  whether there is a session there (`OperationModes`). `LifecycleAgrees` speaks
  of the time between operations only, and is not inductive without it.
- `ResumeInv` says that, as long as no aborted forwarder has stored a handle
  late, every handle that may still be used (the runtime's, the one in memory
  if it is young, the one of the operation under way) is of the last
  conversation, and that there is none while a connection is made that starts
  another (`Current`). That last part is the order of the fallbacks in
  `ensure_hot`: the handle is cleared before the fresh connection is tried.
- `ContextInv` says of every conversation there has been, and not only of the
  installed one, that it was told what memory held, is being told, or failed to
  be: a handle may lead back to it. A resumption that would fall back to a
  fresh session seeds it exactly if there are turns, and an operation that
  does not seed has none.

**CliHost** holds for any finite set of calls and any number of configurations,
devices, sessions and incidents. `CallsInv` counts: the calls in flight never
outnumber the counter that dormancy looks at, although a cancellation and a
dropped completion change the two at different moments, and the counter never
exceeds the calls that were started. `StreamInv` says that a connection which is
shown, or about to be, exists, and that a close in the queue is the one expected.
`NothingCutOff` follows from the first.

**DiscordVoice** holds for any finite set of messages and any number of moves,
sessions and incidents. What carries the proof: which step holds the lock of
the bridge's slot and the manager's mutex (`LockInv`, `ManagerInv`), that who
attaches a bridge was given a session (`GivenInv`), and `QuietInv`: if a bridge
has come since the idle loop looked for one, the session is fresh, so the loop
will not close it. `BridgeOnSession` rests on the last; a bridge that is being
replaced is out of its slot, whose lock its handler keeps. `CountInv` bounds the
replies and turns by the messages.

**Recorder** holds for any number of windows, media, events, sessions and failed
appends. `RecorderInv` says where each window is and which records it has;
`RecorderInd` adds that a window whose submission was accepted has a record and
no error yet (`AcceptedInv`), that nothing waits and nothing is held back where
the task awaits with no summary in flight (`BehindInv`), that nothing has
happened before the first session (`BeforeInv`), and that the recorder and a
living session agree on whether an activity is open (`ActivityInv`). `Turn`
sorts the actions by what they do to windows and records. `TurnsDoNotOverlap`
is a fact about one step from this invariant.

**ToolCatalog** holds for every set of built tools, every saved profile, every
width of integers, length of units and longest timer. `CatalogInv` is inductive
with the relations between the five copies of a profile (`CatalogInd`). `TimersAreExact`
shows that the checked multiplications and additions refuse exactly the sums
that are zero or exceed the longest timer, because every partial sum is at most
the sum and the longest timer fits the width.

**SpeakerPlayback** holds for every rate and every size of pieces and periods.
The invariant says that the buffer holds the newest samples in increasing order,
all after whatever was heard and, after a clear, all after `stale`. From it
`NothingStaleIsHeard` is a fact about one step of the callback.

**WorkspaceTools** holds for every size of buffers, chunks and pipes, every file
and every tree with links. `CommandInd` says that what is kept is what was read
up to the limit, and that a reader is done only when everything is read and
nobody is left to write; without it the answer's flags say nothing of what was
written. `ListInd` says that a directory that was reached is on the stack, or
its entries are listed or about to be: `ListedWhole` is the case of an empty stack.

**VoicePlayback** holds for any number of chunks and tracks. `PlaybackInd` says
that the queue is in order and younger than all that was played
(`QueueInOrder`), and that while a track is being started its starter holds the
lock and no track is kept (`OneStarts`). The second is what `PlaybackTypeOK`
lacks: a start that is not wanted any more takes back the generation, and a
handle kept from before would be left without one. That the end handler of a
track may meanwhile set its own starter waiting does not disturb it.

**AudioCapture** holds for every rate, every size of buffers, frames and chunks,
and any number of streams, however many of them run at once. `CaptureInd` is an
invariant for each stream: what waits is the run of samples just made, beginning
a whole number of chunks after the stream (`PendingIsNext`); the chunks its
callback has still to offer are the ones before that (`OutboxIsNext`) and have
been made (`OfferedIsKnown`). What the channel holds and the host has heard is
one sequence for all streams (`HeardWell`), of which a step appends at most one
chunk, that of one stream. Quotient and remainder come in as lemmas.

**DesktopDevices**, with StartupProfile, holds for every set of environments and
targets and any number of launches, commands, requests, captures and failed
saves. `DesktopInd` says that the transport saved is one a launch without
environment resolves to itself, and that file and memory differ only after a
failed save (`StoreInv`), how far the start of the devices has come (`FollowInv`),
and, for every capture, how much of it is still to come behind the frames in
the channel (`FramesInv`): from that follows that at most one frame of an
earlier share is left.

**TranscribeHost** holds for every capacity of the broadcast and any number of
fragments, commands and incidents. `TranscriptInd` is `TranscriptComplete` with
types: file, line and unread events are one increasing sequence, and with what
is accounted as missed they are all that was said. A step is taken by what it does
to that sequence: an event is sent, a fragment or another (an end of a line, a
Closed, an Error), which may push out an unread fragment; one is read, the line
is ended, or what is unread is lost.

Not proved, and why: liveness under fairness (what section 3 marks so, `TranscribeProgress`,
`CommandEnds`, `QueueDrains` in `PlaybackContract` and its counterpart in
`SpeakerContract`) is out of the prover's reach and stays with TLC. Of these two
contracts the safety parts are theorems, though not the conjunction that the run
names. Every other invariant and action property of a passing run is a theorem.

## 6. Where code and documents disagree

Run `default_profile` keeps one of them: with the features built by default, the
default profile lists `desktop_get_state` once per desktop tool among the functions
of its controller, the registry refuses the repetition, and the program ends before it has started.
`PROJECT.json` quotes the lines. `CatalogInv` shows the rest of the catalog to be
sound for what does start.

The others are definitions marked `Not met:` in their modules. No run checks
them; TLC finds each violated when it is put into the cfg named here in place of
the properties there.

| Definition | cfg | What the code does |
|---|---|---|
| `NextEventEnds` | LiveSession_session | `next_event` is documented to return None once the session is closed for good; the handle itself holds a sender, so it waits for ever |
| `NothingLostWhileAlive` | LiveSession_session | reconnection is documented as transparent; the command whose send failed is dropped |
| `CompletionsAreForwarded` | HarnessTools_liveness | receiving and forwarding a completion is documented as one operation; both hosts drop it half way when another branch of their `select!` is ready |
| `InterruptedOnlyByRestart` | HarnessTools_liveness | the owner of a task record is documented as a process; the CLI makes a second owner in the same one |
| `RecoveredFromDisk` | HarnessTools_liveness | a crash between a record and its notification is not recovered |
| `QueueWakesPump` | PassiveNotifications_delivery | an enqueue between the listing and the second read of the version wakes nobody |
| `GateFollowsReplies` | PassiveNotifications_delivery | the queue of replies is read under one lock and the flag set under another: a message in between is followed by an open gate |
| `OneRecordPerWindow`, `MediaBeforePrompt` | Recorder_windows | a window may have an accepted record and then an error; media held back reach the model after the prompt of their window |
| `CompletionReported`, `ToolsAsAdvertised` | CliHost_loop | the CLI's side of a dropped completion; tools applied while dormant, or whose apply failed, differ from those the session advertises |
| `CounterDrains` | CliHost_loop | a call whose dispatch a cancellation aborted never completes: the counter stays up, and the session does not go dormant |
| `BridgeOwnsCall` | DiscordVoice_host | a leave that has taken the old bridge removes the call of the bridge attached meanwhile |
| `GoesDormant` | DiscordVoice_host | a failed operation leaves the pending count, or the turn flag, up: the session is never idle again |
| `RotationFlushes` | MCHostParts | the header of `transcribe/mod.rs` (line 19) has the line in flight flushed on a rotation; a line goes on over two connections |
| `RotationSeen` | MCHostParts | a rotation that no poll falls into, or whose Closed is read after the poll, resets neither the timer nor the manual activity |
| `SourcesDoNotMix` | MCHostParts | the comment on `TranscribeAudio` has the old stream dropped before the new one starts; the code starts the new one first, and their chunks mix |
| `CancelledSwitchesNothing` | DesktopDevices_profile | a request whose call was cancelled stays in the channel and switches the device |
| `AutostartKeeps` | DesktopDevices_profile | each device's start writes all states to the profile: a crash in between leaves those not started yet as off |
| `DrainLosesNothing` | MCHostParts | a drained track clears the audio queued since |
| `DeclaredRuns` | MCHostParts | with one desktop tool enabled that is not the first of those built, `desktop_get_state` is declared and not handled |
| `TimeLimitHolds` | MCHostParts | a process left behind keeps the pipes open and the answer waiting |

## 7. What is left out

`PROJECT.json` lists every component with its status. Out of scope for good:
device I/O and signal processing, terminal and Discord rendering, TLS and
tokens, JSON encoding, base64, and the parsing of commands and arguments. The
Harness facade and the audio encoder keep no state of their own. The memory
tools read and write one file each. The event log of a task (`events.jsonl`)
matters to nobody but its reader. The parsing of `time_left`, where a value that
is no duration ends the runner, is listed as a hazard without a property: a
model of it would restate the code.

## 8. Plan

| Step | Modules | State |
|---|---|---|
| 1 | LiveSession, CommandDelivery, LiveSession_proofs | done |
| 2 | HarnessTools | done |
| 3 | PassiveNotifications | done |
| 4 | ManagedRuntime, ManagedRuntime_proofs | done |
| 5 | CliHost, DiscordVoice, Recorder, TranscribeHost | done |
| 6 | ToolCatalog, WorkspaceTools, VoicePlayback, SpeakerPlayback, AudioCapture, StartupProfile, DesktopDevices | done |
| 7 | theorems of the small parts (HostParts_proofs) | done |
| 8 | `CaptureInv`, `DiscordInv`, `DeliveryInv`, `RecorderInv`, `CliInv`, `DesktopInv`, `TranscribeInv` | done |
| 9 | `DeliveryContract` step by step, `TasksInv` | done |
| 10 | the safety of VoicePlayback | done |
| 11 | lemmas shared by several parts (sequences, quotients) to one place; proofs split where a leaf needs more than a second | next |
