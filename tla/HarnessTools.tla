---------------------------- MODULE HarnessTools ----------------------------
(***************************************************************************)
(* Tool calls in crates/gemini-live-harness: the host loop that owns the   *)
(* HarnessRuntimeBridge and calls the HarnessController, one dispatch task *)
(* per call, the execution it spawns for a call that may spill into the    *)
(* background, the background finisher, and the durable task records.      *)
(*                                                                         *)
(* The tasks run on a multi-threaded runtime and the store takes no lock,  *)
(* so every read and every write of a task record is a step of its own.    *)
(* The process may die between any two steps.  A host may also build a     *)
(* second controller in the same process (the CLI does so when it applies  *)
(* a new session configuration), which reconciles the store again.         *)
(***************************************************************************)
EXTENDS Naturals, FiniteSets

CONSTANTS
  Calls,        \* tool calls the model requests
  Keys,         \* values of call_key: server ids, or "" for every call without one
  NoCall,
  MaxRestarts,  \* bound of the model: times the process dies
  MaxRebuilds,  \* bound of the model: controllers built to replace another
  MaxFaults     \* bound of the model: file operations that fail

ASSUME ToolsAssumption ==
  /\ NoCall \notin Calls
  /\ "host" \notin Calls
  /\ MaxRestarts \in Nat /\ MaxRebuilds \in Nat /\ MaxFaults \in Nat

VARIABLES
  callKey,     \* call -> its key
  spills,      \* calls whose tool has can_continue_async_after_timeout
  instance,    \* runtime_owner of the active controller
  built,       \* controllers built so far, in every process
  restarts, rebuilds, faults,  \* counters for the bounds
  dispatch,    \* call -> where its dispatch task is
  madeBy,      \* call -> instance whose controller dispatched it
  exec,        \* call -> the execution of the host tool
  dispatches,  \* key -> call: HarnessController::in_flight_tool_dispatches
  inFlight,    \* key -> entry of HarnessToolRuntime::in_flight_host_tools
  task,        \* call -> status of its durable task record
  taskBy,      \* call -> instance that owns the record
  result,      \* calls whose task has a result file
  notified,    \* call -> notifications enqueued for its task
  reply,       \* call -> what became of the completion
  writer,      \* finisher or host -> its progress through a terminal update
  host,        \* the host loop
  cancelled,   \* history: calls named by a cancellation
  orphaned,    \* history: calls whose record an I/O error left running
  torn         \* history: calls whose terminal update was cut short or raced

counters == <<callKey, spills, instance, built, restarts, rebuilds>>
dispatchVars == <<dispatch, madeBy, dispatches, reply>>
recordVars == <<task, taskBy, result, notified>>
historyVars == <<cancelled, orphaned, torn>>
vars == <<counters, faults, dispatchVars, exec, inFlight, recordVars, writer, host, historyVars>>

Terminal == {"Succeeded", "Failed", "Cancelled", "Interrupted"}
Writers  == Calls \cup {"host"}
NoEntry  == [call |-> NoCall, task |-> NoCall]
Off      == [step |-> "off", call |-> NoCall, status |-> "none"]
IdleHost == [pc |-> "idle", call |-> NoCall, key |-> NoCall, stale |-> {}, next |-> 0]

\* A dispatch task works on the maps of the controller it was made by; those
\* of a replaced controller are never looked at again.
Current(c) == madeBy[c] = instance
KeyOf(c)   == callKey[c]

-----------------------------------------------------------------------------
(* The host loop: HarnessRuntimeBridge and HarnessController.              *)

\* The hosts wait for a completion and its send in one branch of a select!; when
\* another branch is ready first, that future is dropped, and what it had taken
\* from the channel goes with it.
DropForwarding == [c \in Calls |-> IF reply[c] = "sending" THEN "dropped" ELSE reply[c]]

\* spawn_tool_call starts the dispatch task before it records it.
SpawnToolCall(c) ==
  /\ host = IdleHost
  /\ dispatch[c] = "none"
  /\ dispatch' = [dispatch EXCEPT ![c] = "spawned"]
  /\ reply' = DropForwarding
  /\ madeBy' = [madeBy EXCEPT ![c] = instance]
  /\ host' = [host EXCEPT !.pc = "insert", !.call = c]
  /\ UNCHANGED <<counters, faults, dispatches, exec, inFlight, recordVars, writer, historyVars>>

\* AbortHandle::abort reaches a task that waits, not one in its last stretch.
Aborted(c) == IF c # NoCall /\ dispatch[c] \in {"spawned", "waiting"}
              THEN [dispatch EXCEPT ![c] = "aborted"]
              ELSE dispatch

InsertDispatch ==
  /\ host.pc = "insert"
  /\ dispatch' = Aborted(dispatches[KeyOf(host.call)])
  /\ dispatches' = [dispatches EXCEPT ![KeyOf(host.call)] = host.call]
  /\ host' = IdleHost
  /\ UNCHANGED <<counters, faults, madeBy, reply, exec, inFlight, recordVars, writer, historyVars>>

\* HarnessToolRuntime::cancel, as far as the terminal update of the task.
CancelToolCall(k) ==
  /\ host = IdleHost
  /\ LET named == {c \in Calls : dispatch[c] # "none" /\ KeyOf(c) = k}
         entry == inFlight[k]
     IN /\ ~ named \subseteq cancelled
        /\ cancelled' = cancelled \cup named
        /\ inFlight' = [inFlight EXCEPT ![k] = NoEntry]
        /\ exec' = IF entry.call # NoCall /\ exec[entry.call] = "running"
                   THEN [exec EXCEPT ![entry.call] = "aborting"]
                   ELSE exec
        /\ writer' = IF entry.task # NoCall
                     THEN [writer EXCEPT !["host"] =
                             [step |-> "read", call |-> entry.task, status |-> "Cancelled"]]
                     ELSE writer
  /\ host' = [host EXCEPT !.pc = "cancel", !.key = k]
  /\ reply' = DropForwarding
  /\ UNCHANGED <<counters, faults, dispatch, madeBy, dispatches, recordVars, orphaned, torn>>

\* The rest of cancel_tool_call.
DropDispatch ==
  /\ host.pc = "cancel"
  /\ writer["host"] = Off
  /\ dispatch' = Aborted(dispatches[host.key])
  /\ dispatches' = [dispatches EXCEPT ![host.key] = NoCall]
  /\ host' = IdleHost
  /\ UNCHANGED <<counters, faults, madeBy, reply, exec, inFlight, recordVars, writer, historyVars>>

\* recv_and_forward_tool_completion takes a completion...
ReceiveCompletion(c) ==
  /\ host = IdleHost
  /\ reply[c] = "queued"
  /\ \A d \in Calls : reply[d] # "sending"
  /\ reply' = [reply EXCEPT ![c] = "sending"]
  /\ UNCHANGED <<counters, faults, dispatch, madeBy, dispatches, exec, inFlight, recordVars,
                 writer, host, historyVars>>

\* ... and awaits its send, which may fail and is not repeated.
Forward(c) ==
  /\ host = IdleHost
  /\ reply[c] = "sending"
  /\ \E outcome \in {"sent", "unsent"} : reply' = [reply EXCEPT ![c] = outcome]
  /\ UNCHANGED <<counters, faults, dispatch, madeBy, dispatches, exec, inFlight, recordVars,
                 writer, host, historyVars>>

\* A branch that is no concern of the harness is ready meanwhile: any other
\* runtime event, a key, a timer, a device.
OtherBranch ==
  /\ host = IdleHost
  /\ \E c \in Calls : reply[c] = "sending"
  /\ reply' = DropForwarding
  /\ UNCHANGED <<counters, faults, dispatch, madeBy, dispatches, exec, inFlight, recordVars,
                 writer, host, historyVars>>

\* Mutant: the comparison of the owners is inverted.
StaleTasksInverted(owner) == {c \in Calls : task[c] = "Running" /\ taskBy[c] = owner}

\* interrupt_stale_running_tasks lists the records another instance owns.
StaleTasks(owner) == {c \in Calls : task[c] = "Running" /\ taskBy[c] # owner}

Unfinished(c) == dispatch[c] \in {"spawned", "waiting", "recording", "progressing"}

\* HarnessController::with_host_tools while another controller is active.
BuildController ==
  /\ host = IdleHost
  /\ rebuilds < MaxRebuilds
  /\ rebuilds' = rebuilds + 1
  /\ built' = built + 1
  /\ host' = [host EXCEPT !.pc = "rebuild", !.next = built + 1, !.stale = StaleTasks(built + 1)]
  /\ torn' = torn \cup {c \in Calls : Unfinished(c) \/ task[c] = "Running"}
  /\ reply' = DropForwarding
  /\ UNCHANGED <<callKey, spills, instance, restarts, faults, dispatch, madeBy, dispatches, exec, inFlight,
                 recordVars, writer, cancelled, orphaned>>

InterruptNext ==
  /\ host.pc \in {"start", "rebuild"}
  /\ writer["host"] = Off
  /\ \E c \in host.stale :
       /\ writer' = [writer EXCEPT !["host"] =
                       [step |-> "read", call |-> c, status |-> "Interrupted"]]
       /\ host' = [host EXCEPT !.stale = @ \ {c}]
  /\ UNCHANGED <<counters, faults, dispatchVars, exec, inFlight, recordVars, historyVars>>

\* The new controller and a new bridge take over, with empty maps and an empty
\* completion channel.
AdoptController ==
  /\ host.pc \in {"start", "rebuild"}
  /\ host.stale = {} /\ writer["host"] = Off
  /\ instance' = host.next
  /\ dispatches' = [k \in Keys |-> NoCall]
  /\ inFlight' = [k \in Keys |-> NoEntry]
  /\ reply' = [c \in Calls |-> IF reply[c] = "queued" THEN "lost" ELSE reply[c]]
  /\ host' = IdleHost
  /\ UNCHANGED <<callKey, spills, built, restarts, rebuilds, faults, dispatch, madeBy, exec,
                 recordVars, writer, historyVars>>

\* Applying the new setup failed: the old controller stays, the new one goes.
DiscardController ==
  /\ host.pc = "rebuild"
  /\ host.stale = {} /\ writer["host"] = Off
  /\ host' = IdleHost
  /\ UNCHANGED <<counters, faults, dispatchVars, exec, inFlight, recordVars, writer, historyVars>>

-----------------------------------------------------------------------------
(* The dispatch task: HarnessToolRuntime::execute_routed_call.             *)

Forgotten(c) == IF Current(c) THEN [inFlight EXCEPT ![KeyOf(c)] = NoEntry] ELSE inFlight

\* The rest of spawn_tool_call's task: the entry under its key is removed, and
\* the completion goes to the bridge, unless that bridge has been replaced.
Complete(c, answer) ==
  /\ dispatch' = [dispatch EXCEPT ![c] = "done"]
  /\ dispatches' = IF Current(c) THEN [dispatches EXCEPT ![KeyOf(c)] = NoCall] ELSE dispatches
  /\ reply' = [reply EXCEPT ![c] = IF Current(c) THEN answer ELSE "lost"]

\* A call that may spill runs in a task of its own, known to cancel by its key.
Execute(c) ==
  /\ dispatch[c] = "spawned"
  /\ dispatch' = [dispatch EXCEPT ![c] = "waiting"]
  /\ exec' = [exec EXCEPT ![c] = "running"]
  /\ inFlight' = IF c \in spills /\ Current(c)
                 THEN [inFlight EXCEPT ![KeyOf(c)] = [call |-> c, task |-> NoCall]]
                 ELSE inFlight
  /\ UNCHANGED <<counters, faults, madeBy, dispatches, reply, recordVars, writer, host, historyVars>>

\* External: the host tool returns.  An inline execution is part of the
\* dispatch task and dies with it; an abort may come too late to matter.
ExecutionEnds(c) ==
  /\ exec[c] \in {"running", "aborting"}
  /\ c \in spills \/ dispatch[c] = "waiting"
  /\ \E outcome \in {"ok", "failed"} \cup (IF exec[c] = "aborting" THEN {"cancelled"} ELSE {}) :
       exec' = [exec EXCEPT ![c] = outcome]
  /\ UNCHANGED <<counters, faults, dispatchVars, inFlight, recordVars, writer, host, historyVars>>

\* Mutant: an execution that fails is not answered.
AnswerOnlySuccess(c) == IF exec[c] = "ok" THEN "queued" ELSE "none"

\* into_runtime_response: nothing is sent for a cancelled call.
Answer(c) == IF exec[c] = "cancelled" THEN "silent" ELSE "queued"

FinishInline(c) ==
  /\ dispatch[c] = "waiting"
  /\ exec[c] \in {"ok", "failed", "cancelled"}
  /\ Complete(c, Answer(c))
  /\ inFlight' = IF c \in spills THEN Forgotten(c) ELSE inFlight
  /\ UNCHANGED <<counters, faults, madeBy, exec, recordVars, writer, host, historyVars>>

\* The inline budget ends (even if the execution just did): start_task.
ExceedBudget(c) ==
  /\ dispatch[c] = "waiting"
  /\ c \in spills
  /\ dispatch' = [dispatch EXCEPT ![c] = "recording"]
  /\ task' = [task EXCEPT ![c] = "Running"]
  /\ taskBy' = [taskBy EXCEPT ![c] = madeBy[c]]
  /\ UNCHANGED <<counters, faults, madeBy, dispatches, reply, exec, inFlight, result, notified,
                 writer, host, historyVars>>

\* record_task_progress reads the record...
ReadProgress(c) ==
  /\ dispatch[c] = "recording"
  /\ task[c] = "Running"
  /\ dispatch' = [dispatch EXCEPT ![c] = "progressing"]
  /\ UNCHANGED <<counters, faults, madeBy, dispatches, reply, exec, inFlight, recordVars,
                 writer, host, historyVars>>

\* set_background_task_id: whatever call the entry is for, if there is one.
MarkBackground(c) ==
  IF Current(c) /\ inFlight[KeyOf(c)] # NoEntry
  THEN [inFlight EXCEPT ![KeyOf(c)].task = c]
  ELSE inFlight

\* ... and writes it back, with the status it read.  The finisher is spawned
\* and the model is told that the work goes on in the background.
ContinueInBackground(c) ==
  /\ dispatch[c] = "progressing"
  /\ task' = [task EXCEPT ![c] = "Running"]
  /\ inFlight' = MarkBackground(c)
  /\ writer' = [writer EXCEPT ![c] = [step |-> "await", call |-> c, status |-> "none"]]
  /\ Complete(c, "queued")
  /\ UNCHANGED <<counters, faults, madeBy, exec, taskBy, result, notified, host, historyVars>>

\* create_background_task_record fails: the execution is aborted and the call
\* fails, and a record that was already created stays behind.
RecordFails(c) ==
  /\ dispatch[c] \in {"waiting", "recording", "progressing"}
  /\ c \in spills
  /\ \/ /\ dispatch[c] = "recording" /\ task[c] # "Running"
        /\ UNCHANGED <<faults, orphaned>>
     \/ /\ faults < MaxFaults
        /\ faults' = faults + 1
        /\ orphaned' = IF task[c] = "Running" THEN orphaned \cup {c} ELSE orphaned
  /\ inFlight' = Forgotten(c)
  /\ exec' = IF exec[c] = "running" THEN [exec EXCEPT ![c] = "aborting"] ELSE exec
  /\ Complete(c, "queued")
  /\ UNCHANGED <<counters, madeBy, recordVars, writer, host, cancelled, torn>>

-----------------------------------------------------------------------------
(* complete_task, fail_task, cancel_task and interrupt_task, which differ  *)
(* in the status they set, run by a finisher or by the host loop.          *)

After(w) == IF w = "host" THEN Off ELSE [writer[w] EXCEPT !.step = "remove"]

\* Mutant: finish_background_tool_call has nothing to do for a cancelled call.
IgnoreCancelled(c) ==
  /\ writer[c].step = "await"
  /\ exec[c] \in {"ok", "failed", "cancelled"}
  /\ writer' = [writer EXCEPT ![c] =
       IF exec[c] = "cancelled" THEN After(c)
       ELSE [@ EXCEPT !.step = "read",
                      !.status = IF exec[c] = "ok" THEN "Succeeded" ELSE "Failed"]]
  /\ UNCHANGED <<counters, faults, dispatchVars, exec, inFlight, recordVars, host, historyVars>>

\* finish_background_tool_call.
FinishBackground(c) ==
  /\ writer[c].step = "await"
  /\ exec[c] \in {"ok", "failed", "cancelled"}
  /\ writer' = [writer EXCEPT ![c].step = "read",
                              ![c].status = CASE exec[c] = "ok"     -> "Succeeded"
                                              [] exec[c] = "failed" -> "Failed"
                                              [] OTHER              -> "Cancelled"]
  /\ UNCHANGED <<counters, faults, dispatchVars, exec, inFlight, recordVars, host, historyVars>>

\* Another update of the same record has read it and not written it yet.
Raced(w) == \E v \in Writers \ {w} : writer[v].step = "write" /\ writer[v].call = writer[w].call

ReadTask(w) ==
  /\ writer[w].step = "read"
  /\ LET ended == task[writer[w].call] \in Terminal
     IN /\ writer' = [writer EXCEPT ![w] = IF ended THEN After(w) ELSE [@ EXCEPT !.step = "write"]]
        /\ torn' = IF ~ended /\ Raced(w) THEN torn \cup {writer[w].call} ELSE torn
  /\ UNCHANGED <<counters, faults, dispatchVars, exec, inFlight, recordVars, host, cancelled, orphaned>>

WriteTask(w) ==
  /\ writer[w].step = "write"
  /\ task' = [task EXCEPT ![writer[w].call] = writer[w].status]
  /\ writer' = [writer EXCEPT ![w].step = "result"]
  /\ UNCHANGED <<counters, faults, dispatchVars, exec, inFlight, taskBy, result, notified, host,
                 historyVars>>

\* write_task_result, or remove_file_if_exists for the other outcomes.
WriteResult(w) ==
  /\ writer[w].step = "result"
  /\ result' = IF writer[w].status = "Succeeded"
               THEN result \cup {writer[w].call}
               ELSE result \ {writer[w].call}
  /\ writer' = [writer EXCEPT ![w].step = "notify"]
  /\ UNCHANGED <<counters, faults, dispatchVars, exec, inFlight, task, taskBy, notified, host, historyVars>>

EnqueueNotification(w) ==
  /\ writer[w].step = "notify"
  /\ notified' = [notified EXCEPT ![writer[w].call] = @ + 1]
  /\ writer' = [writer EXCEPT ![w] = After(w)]
  /\ UNCHANGED <<counters, faults, dispatchVars, exec, inFlight, task, taskBy, result, host, historyVars>>

\* log_terminal_task_persist_error: the rest of the update is given up.  (An
\* error while a controller is built ends the process: see Restart.)
UpdateFails(w) ==
  /\ writer[w].step \in {"read", "write", "result", "notify"}
  /\ host.pc = "cancel" \/ w # "host"
  /\ faults < MaxFaults
  /\ faults' = faults + 1
  /\ LET c == writer[w].call
     IN IF writer[w].step \in {"result", "notify"}
        THEN torn' = torn \cup {c} /\ UNCHANGED orphaned
        ELSE orphaned' = orphaned \cup {c} /\ UNCHANGED torn
  /\ writer' = [writer EXCEPT ![w] = After(w)]
  /\ UNCHANGED <<counters, dispatchVars, exec, inFlight, recordVars, host, cancelled>>

\* The finisher removes whatever entry is under its key by now.
RemoveEntry(c) ==
  /\ writer[c].step = "remove"
  /\ inFlight' = Forgotten(c)
  /\ writer' = [writer EXCEPT ![c] = Off]
  /\ UNCHANGED <<counters, faults, dispatchVars, exec, recordVars, host, historyVars>>

-----------------------------------------------------------------------------
\* The process dies, or is shut down, and another one opens the same root.
Restart ==
  /\ restarts < MaxRestarts
  /\ restarts' = restarts + 1
  /\ built' = built + 1
  /\ torn' = torn \cup {writer[w].call : w \in {v \in Writers : writer[v].step \in {"result", "notify"}}}
  /\ dispatch' = [c \in Calls |-> IF dispatch[c] = "none" THEN "none" ELSE "gone"]
  /\ reply' = [c \in Calls |-> IF reply[c] \in {"queued", "sending"} THEN "lost" ELSE reply[c]]
  /\ exec' = [c \in Calls |-> "none"]
  /\ writer' = [w \in Writers |-> Off]
  /\ dispatches' = [k \in Keys |-> NoCall]
  /\ inFlight' = [k \in Keys |-> NoEntry]
  /\ host' = [IdleHost EXCEPT !.pc = "start", !.next = built + 1, !.stale = StaleTasks(built + 1)]
  /\ UNCHANGED <<callKey, spills, instance, rebuilds, faults, madeBy, recordVars, cancelled, orphaned>>

Init ==
  /\ callKey \in [Calls -> Keys] /\ spills \in SUBSET Calls
  /\ instance = 1 /\ built = 1
  /\ restarts = 0 /\ rebuilds = 0 /\ faults = 0
  /\ dispatch = [c \in Calls |-> "none"] /\ madeBy = [c \in Calls |-> 0]
  /\ exec = [c \in Calls |-> "none"]
  /\ dispatches = [k \in Keys |-> NoCall] /\ inFlight = [k \in Keys |-> NoEntry]
  /\ task = [c \in Calls |-> "none"] /\ taskBy = [c \in Calls |-> 0]
  /\ result = {} /\ notified = [c \in Calls |-> 0]
  /\ reply = [c \in Calls |-> "none"]
  /\ writer = [w \in Writers |-> Off]
  /\ host = IdleHost
  /\ cancelled = {} /\ orphaned = {} /\ torn = {}

Dispatch(c) == \/ Execute(c) \/ FinishInline(c) \/ ExceedBudget(c) \/ ReadProgress(c)
               \/ ContinueInBackground(c) \/ RecordFails(c)

Update(w) == ReadTask(w) \/ WriteTask(w) \/ WriteResult(w) \/ EnqueueNotification(w) \/ UpdateFails(w)

Finisher(c) == FinishBackground(c) \/ Update(c) \/ RemoveEntry(c)

\* What the host loop does without being asked.
HostLoop == \/ InsertDispatch \/ DropDispatch \/ \E c \in Calls : ReceiveCompletion(c) \/ Forward(c)
            \/ InterruptNext \/ AdoptController \/ DiscardController
            \/ Update("host")

Next == \/ \E c \in Calls : SpawnToolCall(c) \/ Dispatch(c) \/ ExecutionEnds(c) \/ Finisher(c)
        \/ \E k \in Keys : CancelToolCall(k)
        \/ HostLoop
        \/ OtherBranch
        \/ BuildController
        \/ Restart

Spec == Init /\ [][Next]_vars

\* Every task that is spawned is polled when it can move, the host loop keeps
\* running, and a host tool returns sooner or later.
Fairness == /\ WF_vars(HostLoop)
            /\ \A c \in Calls : /\ WF_vars(Dispatch(c))
                                /\ WF_vars(ExecutionEnds(c))
                                /\ WF_vars(Finisher(c))

FairSpec == Spec /\ Fairness

-----------------------------------------------------------------------------
(* Properties.                                                             *)

\* Type correctness; an empty slot of the in-flight map names no task.
TypeOK ==
  /\ callKey \in [Calls -> Keys] /\ spills \subseteq Calls
  /\ instance \in 1..built /\ built \in Nat \ {0}
  /\ restarts \in 0..MaxRestarts /\ rebuilds \in 0..MaxRebuilds /\ faults \in 0..MaxFaults
  /\ dispatch \in [Calls -> {"none", "spawned", "waiting", "recording", "progressing",
                             "done", "aborted", "gone"}]
  /\ madeBy \in [Calls -> 0..built] /\ taskBy \in [Calls -> 0..built]
  /\ exec \in [Calls -> {"none", "running", "aborting", "ok", "failed", "cancelled"}]
  /\ dispatches \in [Keys -> Calls \cup {NoCall}]
  /\ inFlight \in [Keys -> [call : Calls, task : Calls \cup {NoCall}] \cup {NoEntry}]
  /\ task \in [Calls -> Terminal \cup {"none", "Running"}]
  /\ result \subseteq Calls /\ notified \in [Calls -> Nat]
  /\ reply \in [Calls -> {"none", "queued", "sending", "sent", "unsent", "silent", "lost", "dropped"}]
  /\ writer \in [Writers -> [step : {"off", "await", "read", "write", "result", "notify", "remove"},
                             call : Calls \cup {NoCall},
                             status : Terminal \cup {"none"}]]
  /\ host \in [pc : {"idle", "insert", "cancel", "start", "rebuild"}, call : Calls \cup {NoCall},
               key : Keys \cup {NoCall}, stale : SUBSET Calls, next : Nat]
  /\ cancelled \subseteq Calls /\ orphaned \subseteq Calls /\ torn \subseteq Calls

BeingWritten(c) == \E w \in Writers : writer[w].call = c /\ writer[w].step \notin {"off", "await", "remove"}

\* A record that says Running has somebody who will end it: the dispatch task
\* that is still creating it, its finisher, or the reconciliation in progress.
\* Only an I/O error leaves one behind.
RunningIsOwned ==
  \A c \in Calls : task[c] = "Running" =>
    \/ dispatch[c] \in {"recording", "progressing"}
    \/ writer[c].step = "await"
    \/ BeingWritten(c)
    \/ host.pc = "start" /\ c \in host.stale
    \/ c \in orphaned

\* Once nobody is writing it, a record whose terminal update was neither cut
\* short nor raced agrees with its result file and its notifications: exactly
\* one was enqueued, and only for a task that ended.
RecordsAgree ==
  \A c \in Calls : c \notin torn /\ ~BeingWritten(c) =>
    /\ c \in result <=> task[c] = "Succeeded"
    /\ notified[c] = IF task[c] \in Terminal THEN 1 ELSE 0

\* What holds of calls and their durable records in every state.
TasksInv == TypeOK /\ RunningIsOwned /\ RecordsAgree

\* A background task ends, across cancellation, restarts and reconfiguration.
BackgroundTaskEnds ==
  \A c \in Calls : (task[c] = "Running") ~> (task[c] \in Terminal \/ c \in orphaned)

SharesKey(c) == \E d \in Calls \ {c} : callKey[d] = callKey[c]

\* The model is told of the outcome of every call it requested, whatever fails on
\* the way or spills into the background, but for these cases: the session refuses
\* the response, which is not sent again; another branch of the host's select! drops
\* the completion that was received; the call was cancelled; the process ended; its
\* controller was replaced, and the completion has nowhere to go; or a later call with
\* the same key aborted its dispatch.
EveryCallAnswered ==
  \A c \in Calls : (dispatch[c] = "spawned") ~>
    \/ reply[c] = "sent"
    \/ reply[c] \in {"unsent", "dropped"}
    \/ c \in cancelled
    \/ dispatch[c] = "gone"
    \/ reply[c] = "lost" /\ ~Current(c)
    \/ dispatch[c] = "aborted" /\ SharesKey(c)

\* Not met: the bridge forwards every completion it takes to the runtime (it
\* documents receive and forward as one operation), and drops none on the way.
CompletionsAreForwarded == \A c \in Calls : reply[c] # "dropped"

\* Not met: records are interrupted by a later process (task.rs documents it so),
\* and a task whose own process lives on is not.
InterruptedOnlyByRestart ==
  restarts = 0 => \A c \in Calls : task[c] # "Interrupted"

\* Not met: recovery needs nothing but the file system (ADR-12), and after a
\* restart has reconciled the store, every task that ended has its notification.
RecoveredFromDisk ==
  host = IdleHost /\ faults = 0 =>
    \A c \in Calls : task[c] \in Terminal /\ ~BeingWritten(c) => notified[c] > 0
=============================================================================
