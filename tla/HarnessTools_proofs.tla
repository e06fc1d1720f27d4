------------------------ MODULE HarnessTools_proofs ------------------------
(***************************************************************************)
(* TasksInv of HarnessTools, for any set of calls and keys and any number  *)
(* of restarts, rebuilds and faults.                                       *)
(*                                                                         *)
(* TasksInv says nothing of the updates that are on their way, and so is   *)
(* not inductive.  TasksInd is.  Its parts are:                            *)
(*   Shaped     the types, whose update each writer carries, and when the  *)
(*              host loop is free;                                         *)
(*   StageInv   who may know of a record before its call has left its      *)
(*              budget, and what a second controller reconciles;           *)
(*   OwnedInv   that a running record has somebody who will end it;        *)
(*   RecordInv  what a record, its result file and its notifications are   *)
(*              to each other at every step of an update.                  *)
(* Each is kept by every step, which is shown action by action.            *)
(***************************************************************************)
EXTENDS HarnessTools, TLAPS

-----------------------------------------------------------------------------
(* Type correctness.                                                       *)

\* The steps of an update that has begun.
Updating == {"read", "write", "result", "notify"}

\* Whose update each writer carries: a finisher its own, the host loop any.
WritersShaped ==
  /\ \A w \in Writers : writer[w].step \in Updating => writer[w].call \in Calls /\ writer[w].status \in Terminal
  /\ \A c \in Calls : writer[c].step # "off" => writer[c].call = c
  /\ writer["host"].step \in Updating \cup {"off"}
  /\ \A w \in Writers : writer[w].step = "off" => writer[w].call = NoCall

\* When the host loop updates records, and which controller it is building.
HostShaped ==
  /\ host.pc \in {"start", "rebuild"} => host.next \in 1..built
  /\ host.pc \in {"idle", "insert"} => writer["host"] = Off
  /\ host.pc \notin {"start", "rebuild"} => host.stale = {}

\* The types of the parts of the state.
DispatchStatus == {"none", "spawned", "waiting", "recording", "progressing", "done", "aborted", "gone"}
ExecStatus == {"none", "running", "aborting", "ok", "failed", "cancelled"}
ReplyStatus == {"none", "queued", "sending", "sent", "unsent", "silent", "lost", "dropped"}
Entry == [call : Calls, task : Calls \cup {NoCall}] \cup {NoEntry}
WriterState == [step : {"off", "await", "read", "write", "result", "notify", "remove"},
                call : Calls \cup {NoCall}, status : Terminal \cup {"none"}]
HostState == [pc : {"idle", "insert", "cancel", "start", "rebuild"}, call : Calls \cup {NoCall},
              key : Keys \cup {NoCall}, stale : SUBSET Calls, next : Nat]

\* A process that opens an empty root is well typed.
LEMMA TypeInit == Init => TypeOK
  BY ToolsAssumption DEF Init, TypeOK, IdleHost, Off, NoEntry, Terminal, Writers

\* What a dropped future leaves is a reply's status, and stale records are of calls.
LEMMA HelperTypes ==
  ASSUME TypeOK
  PROVE  /\ DropForwarding \in [Calls -> ReplyStatus]
         /\ \A owner : StaleTasks(owner) \subseteq Calls
         /\ \A c : Aborted(c) \in [Calls -> DispatchStatus]
  BY DEF TypeOK, DropForwarding, ReplyStatus, StaleTasks, Aborted, DispatchStatus

\* The status a finisher gives its task.
LEMMA FinishStatus ==
  ASSUME NEW c \in Calls, FinishBackground(c)
  PROVE  \E status \in Terminal : writer' = [writer EXCEPT ![c].step = "read", ![c].status = status]
<1> DEFINE status == CASE exec[c] = "ok"     -> "Succeeded"
                       [] exec[c] = "failed" -> "Failed"
                       [] OTHER              -> "Cancelled"
<1>1. status \in Terminal
  BY DEF Terminal
<1>2. writer' = [writer EXCEPT ![c].step = "read", ![c].status = status]
  BY DEF FinishBackground
<1> HIDE DEF status
<1>3. QED
  BY <1>1, <1>2

\* No step of a dispatch, a finisher, the host loop or a restart breaks a type.
LEMMA TypeStep == TypeOK /\ WritersShaped /\ HostShaped /\ [Next]_vars => TypeOK'
<1> SUFFICES ASSUME TypeOK, WritersShaped, HostShaped, [Next]_vars PROVE TypeOK'
  OBVIOUS
<1> USE ToolsAssumption DEF TypeOK, counters, dispatchVars, recordVars, historyVars
<1>1. ASSUME NEW c \in Calls, SpawnToolCall(c) PROVE TypeOK'
  <2>1. reply' \in [Calls -> ReplyStatus]
    BY <1>1, HelperTypes DEF SpawnToolCall
  <2>2. dispatch' \in [Calls -> DispatchStatus] /\ madeBy' \in [Calls -> 0..built] /\ host' \in HostState
    <3>1. dispatch' \in [Calls -> DispatchStatus]
      BY <1>1 DEF SpawnToolCall, DispatchStatus
    <3>2. madeBy' \in [Calls -> 0..built]
      BY <1>1 DEF SpawnToolCall
    <3>3. host' \in HostState
      BY <1>1 DEF SpawnToolCall, HostState
    <3>4. QED
      BY <3>1, <3>2, <3>3
  <2>3. UNCHANGED <<counters, faults, dispatches, exec, inFlight, recordVars, writer, historyVars>>
    BY <1>1 DEF SpawnToolCall
  <2>4. QED
    BY <2>1, <2>2, <2>3 DEF ReplyStatus, DispatchStatus, HostState
<1>2. CASE InsertDispatch
  BY <1>2 DEF InsertDispatch, Aborted, IdleHost
<1>3. ASSUME NEW k \in Keys, CancelToolCall(k) PROVE TypeOK'
  <2>1. reply' \in [Calls -> ReplyStatus]
    BY <1>3, HelperTypes DEF CancelToolCall
  <2>2. writer' \in [Writers -> WriterState]
    BY <1>3 DEF CancelToolCall, WriterState, NoEntry, Terminal, Writers
  <2>3. inFlight' \in [Keys -> Entry] /\ exec' \in [Calls -> ExecStatus] /\ cancelled' \subseteq Calls
    BY <1>3 DEF CancelToolCall, Entry, ExecStatus
  <2>4. host' \in HostState
    BY <1>3 DEF CancelToolCall, HostState
  <2>5. UNCHANGED <<counters, faults, dispatch, madeBy, dispatches, recordVars, orphaned, torn>>
    BY <1>3 DEF CancelToolCall
  <2>6. QED
    BY <2>1, <2>2, <2>3, <2>4, <2>5 DEF ReplyStatus, WriterState, Entry, ExecStatus, HostState
<1>4. CASE DropDispatch
  BY <1>4 DEF DropDispatch, Aborted, IdleHost
<1>5. ASSUME NEW c \in Calls, ReceiveCompletion(c) PROVE TypeOK'
  BY <1>5 DEF ReceiveCompletion
<1>6. ASSUME NEW c \in Calls, Forward(c) PROVE TypeOK'
  BY <1>6 DEF Forward
<1>7. CASE OtherBranch
  BY <1>7 DEF OtherBranch, DropForwarding
<1>8. CASE BuildController
  <2>1. reply' \in [Calls -> ReplyStatus]
    BY <1>8, HelperTypes DEF BuildController
  <2>2. host' \in HostState
    <3>1. StaleTasks(built + 1) \subseteq Calls /\ built + 1 \in Nat
      BY HelperTypes
    <3>2. QED
      BY <1>8, <3>1 DEF BuildController, HostState, IdleHost
  <2>3. madeBy' \in [Calls -> 0..built'] /\ taskBy' \in [Calls -> 0..built'] /\ instance' \in 1..built'
        /\ built' \in Nat \ {0}
    BY <1>8 DEF BuildController
  <2>4. rebuilds' \in 0..MaxRebuilds /\ torn' \subseteq Calls
    BY <1>8 DEF BuildController
  <2>5. UNCHANGED <<callKey, spills, restarts, faults, dispatch, dispatches, exec, inFlight, recordVars, writer, cancelled, orphaned>>
    BY <1>8 DEF BuildController
  <2>6. QED
    BY <2>1, <2>2, <2>3, <2>4, <2>5 DEF ReplyStatus, HostState
<1>9. CASE InterruptNext
  BY <1>9, SMTT(30) DEF InterruptNext, Terminal, Writers
<1>10. CASE AdoptController
  BY <1>10 DEF AdoptController, HostShaped, IdleHost, NoEntry
<1>11. CASE DiscardController
  BY <1>11 DEF DiscardController, IdleHost
<1>12. ASSUME NEW c \in Calls, Execute(c) PROVE TypeOK'
  BY <1>12 DEF Execute, Current, KeyOf
<1>13. ASSUME NEW c \in Calls, ExecutionEnds(c) PROVE TypeOK'
  BY <1>13 DEF ExecutionEnds
<1>14. ASSUME NEW c \in Calls, FinishInline(c) PROVE TypeOK'
  BY <1>14 DEF FinishInline, Complete, Forgotten, Answer, NoEntry
<1>15. ASSUME NEW c \in Calls, ExceedBudget(c) PROVE TypeOK'
  BY <1>15 DEF ExceedBudget
<1>16. ASSUME NEW c \in Calls, ReadProgress(c) PROVE TypeOK'
  BY <1>16 DEF ReadProgress
<1>17. ASSUME NEW c \in Calls, ContinueInBackground(c) PROVE TypeOK'
  BY <1>17 DEF ContinueInBackground, Complete, MarkBackground, NoEntry, KeyOf, Writers
<1>18. ASSUME NEW c \in Calls, RecordFails(c) PROVE TypeOK'
  <2>1. dispatch' \in [Calls -> DispatchStatus] /\ dispatches' \in [Keys -> Calls \cup {NoCall}]
        /\ reply' \in [Calls -> ReplyStatus]
    BY <1>18 DEF RecordFails, Complete, DispatchStatus, ReplyStatus
  <2>2. inFlight' \in [Keys -> Entry] /\ exec' \in [Calls -> ExecStatus]
    BY <1>18 DEF RecordFails, Forgotten, Entry, ExecStatus
  <2>3. faults' \in 0..MaxFaults /\ orphaned' \subseteq Calls
    BY <1>18 DEF RecordFails
  <2>4. UNCHANGED <<counters, madeBy, recordVars, writer, host, cancelled, torn>>
    BY <1>18 DEF RecordFails
  <2>5. QED
    BY <2>1, <2>2, <2>3, <2>4 DEF DispatchStatus, ReplyStatus, Entry, ExecStatus
<1>19. ASSUME NEW c \in Calls, FinishBackground(c) PROVE TypeOK'
  <2>1. PICK status \in Terminal : writer' = [writer EXCEPT ![c].step = "read", ![c].status = status]
    BY <1>19, FinishStatus
  <2>3. writer' \in [Writers -> WriterState]
    <3>1. writer[c] \in WriterState /\ c \in Writers
      BY DEF WriterState, Writers
    <3>2. [writer[c] EXCEPT !.step = "read", !.status = status] \in WriterState
      BY <3>1 DEF WriterState
    <3>3. writer' = [writer EXCEPT ![c] = [writer[c] EXCEPT !.step = "read", !.status = status]]
      BY <2>1, <3>1
    <3>4. QED
      BY <3>1, <3>2, <3>3 DEF WriterState
  <2>4. UNCHANGED <<counters, faults, dispatchVars, exec, inFlight, recordVars, host, historyVars>>
    BY <1>19 DEF FinishBackground
  <2>5. QED
    BY <2>3, <2>4 DEF WriterState
<1>20. ASSUME NEW c \in Calls, RemoveEntry(c) PROVE TypeOK'
  BY <1>20 DEF RemoveEntry, Forgotten, NoEntry, Off, Writers
<1>21. ASSUME NEW w \in Writers, Update(w) PROVE TypeOK'
  <2>1. CASE ReadTask(w)
    BY <1>21, <2>1 DEF ReadTask, After, Off, WritersShaped, Updating
  <2>2. CASE WriteTask(w)
    BY <1>21, <2>2 DEF WriteTask, WritersShaped, Updating
  <2>3. CASE WriteResult(w)
    BY <1>21, <2>3 DEF WriteResult, WritersShaped, Updating
  <2>4. CASE EnqueueNotification(w)
    BY <1>21, <2>4 DEF EnqueueNotification, After, Off, WritersShaped, Updating
  <2>5. CASE UpdateFails(w)
    BY <1>21, <2>5 DEF UpdateFails, After, Off, WritersShaped, Updating
  <2>6. QED
    BY <1>21, <2>1, <2>2, <2>3, <2>4, <2>5 DEF Update
<1>22. CASE Restart
  <2>1. host' \in HostState
    <3>1. StaleTasks(built + 1) \subseteq Calls /\ built + 1 \in Nat
      BY HelperTypes
    <3>2. QED
      BY <1>22, <3>1 DEF Restart, IdleHost, HostState
  <2>2. torn' \subseteq Calls
    BY <1>22 DEF Restart, WritersShaped, Updating
  <2>3. dispatch' \in [Calls -> DispatchStatus] /\ reply' \in [Calls -> ReplyStatus]
        /\ exec' \in [Calls -> ExecStatus]
    BY <1>22 DEF Restart, DispatchStatus, ReplyStatus, ExecStatus
  <2>4. writer' \in [Writers -> WriterState] /\ dispatches' \in [Keys -> Calls \cup {NoCall}]
        /\ inFlight' \in [Keys -> Entry]
    BY <1>22 DEF Restart, WriterState, Entry, Off
  <2>5. madeBy' \in [Calls -> 0..built'] /\ taskBy' \in [Calls -> 0..built'] /\ instance' \in 1..built'
        /\ built' \in Nat \ {0} /\ restarts' \in 0..MaxRestarts
    BY <1>22 DEF Restart
  <2>6. UNCHANGED <<callKey, spills, rebuilds, faults, task, result, notified, cancelled, orphaned>>
    BY <1>22 DEF Restart
  <2>7. QED
    BY <2>1, <2>2, <2>3, <2>4, <2>5, <2>6 DEF HostState, DispatchStatus, ReplyStatus, ExecStatus, WriterState, Entry
<1>23. CASE UNCHANGED vars
  BY <1>23 DEF vars
<1>24. QED
  BY <1>1, <1>2, <1>3, <1>4, <1>5, <1>6, <1>7, <1>8, <1>9, <1>10, <1>11, <1>12, <1>13, <1>14,
     <1>15, <1>16, <1>17, <1>18, <1>19, <1>20, <1>21, <1>22, <1>23
     DEF Next, Dispatch, Finisher, HostLoop, Writers
-----------------------------------------------------------------------------
(* Writers and the host loop.                                              *)

\* The state is well formed.
Shaped == TypeOK /\ WritersShaped /\ HostShaped

\* At first nothing is updated.
LEMMA ShapeInit == Init => WritersShaped /\ HostShaped
  BY ToolsAssumption DEF Init, WritersShaped, HostShaped, IdleHost, Off, Updating, Writers

\* The steps that touch neither the host loop nor a terminal update.
LEMMA ShapeUntouched ==
  ASSUME Shaped, UNCHANGED <<host, writer, built>>
  PROVE  WritersShaped' /\ HostShaped'
  BY DEF Shaped, WritersShaped, HostShaped

\* What a step of a terminal update does to the updates: one of them moves.
LEMMA UpdateMoves ==
  ASSUME Shaped, NEW w \in Writers, Update(w)
  PROVE  /\ WritersShaped' /\ HostShaped'
         /\ writer[w].step \in Updating /\ writer[w].call \in Calls /\ writer[w].status \in Terminal
         /\ \A v \in Writers \ {w} : writer'[v] = writer[v]
         /\ \/ writer'[w].call = writer[w].call /\ writer'[w].status = writer[w].status
            \/ w = "host" /\ writer'[w] = Off
         /\ \/ writer'[w].step \in {"remove", "off"}
            \/ ReadTask(w) /\ writer'[w].step = "write"
            \/ WriteTask(w) /\ writer'[w].step = "result"
            \/ WriteResult(w) /\ writer'[w].step = "notify"
<1> USE DEF Shaped
<1>1. writer[w].step \in Updating
  BY DEF Update, ReadTask, WriteTask, WriteResult, EnqueueNotification, UpdateFails, Updating
<1>2. writer[w].call \in Calls /\ writer[w].status \in Terminal
  BY <1>1 DEF WritersShaped
<1>3. /\ writer \in [Writers -> WriterState] /\ UNCHANGED <<host, built>>
      /\ (w = "host" => host.pc \notin {"idle", "insert"})
  BY <1>1 DEF TypeOK, WriterState, Update, ReadTask, WriteTask, WriteResult, EnqueueNotification, UpdateFails,
              HostShaped, Off, counters, Updating
<1>4. \/ writer' = [writer EXCEPT ![w] = After(w)]
      \/ ReadTask(w) /\ writer' = [writer EXCEPT ![w].step = "write"]
      \/ WriteTask(w) /\ writer' = [writer EXCEPT ![w].step = "result"]
      \/ WriteResult(w) /\ writer' = [writer EXCEPT ![w].step = "notify"]
  BY DEF Update, ReadTask, WriteTask, WriteResult, EnqueueNotification, UpdateFails
<1>5. \A v \in Writers \ {w} : writer'[v] = writer[v]
  BY <1>3, <1>4
<1>6. CASE writer' = [writer EXCEPT ![w] = After(w)]
  <2>1. CASE w = "host"
    <3>1. writer'[w] = Off
      BY <1>3, <1>6, <2>1 DEF After
    <3>2. WritersShaped' /\ HostShaped'
      BY <1>3, <1>5, <2>1, <3>1, ToolsAssumption DEF WritersShaped, HostShaped, Off, Writers, Updating
    <3>3. QED
      BY <1>1, <1>2, <1>5, <2>1, <3>1, <3>2 DEF Off
  <2>2. CASE w # "host"
    <3>1. /\ writer'[w].step = "remove" /\ writer'[w].call = writer[w].call
          /\ writer'[w].status = writer[w].status
      BY <1>3, <1>6, <2>2 DEF After, WriterState
    <3>2. WritersShaped' /\ HostShaped'
      BY <1>1, <1>3, <1>5, <2>2, <3>1 DEF WritersShaped, HostShaped, Writers, Updating
    <3>3. QED
      BY <1>1, <1>2, <1>5, <3>1, <3>2
  <2>3. QED
    BY <2>1, <2>2
<1>7. ASSUME NEW step \in Updating, writer' = [writer EXCEPT ![w].step = step]
      PROVE  /\ WritersShaped' /\ HostShaped'
             /\ writer'[w].step = step /\ writer'[w].call = writer[w].call /\ writer'[w].status = writer[w].status
  <2>1. writer'[w].step = step /\ writer'[w].call = writer[w].call /\ writer'[w].status = writer[w].status
    BY <1>3, <1>7 DEF WriterState
  <2>2. WritersShaped'
    BY <1>1, <1>2, <1>5, <2>1 DEF WritersShaped, Writers, Updating
  <2>3. HostShaped'
    BY <1>3, <1>5 DEF HostShaped, Writers
  <2>4. QED
    BY <2>1, <2>2, <2>3
<1>8. QED
  BY <1>1, <1>2, <1>4, <1>5, <1>6, <1>7 DEF Updating

\* The writers and the host loop keep their shape.
LEMMA ShapeStep == Shaped /\ [Next]_vars => WritersShaped' /\ HostShaped'
<1> SUFFICES ASSUME Shaped, [Next]_vars PROVE WritersShaped' /\ HostShaped'
  OBVIOUS
<1> USE ToolsAssumption DEF Shaped, counters, dispatchVars, recordVars, historyVars
<1> USE DEF Updating
<1>1. ASSUME NEW c \in Calls, SpawnToolCall(c) PROVE WritersShaped' /\ HostShaped'
  BY <1>1 DEF SpawnToolCall, WritersShaped, HostShaped, TypeOK, IdleHost
<1>2. CASE InsertDispatch
  BY <1>2 DEF InsertDispatch, WritersShaped, HostShaped, TypeOK, IdleHost
<1>3. ASSUME NEW k \in Keys, CancelToolCall(k) PROVE WritersShaped' /\ HostShaped'
  <2>1. writer["host"] = Off
    BY <1>3 DEF CancelToolCall, HostShaped, IdleHost
  <2>2. HostShaped'
    BY <1>3 DEF CancelToolCall, HostShaped, TypeOK, IdleHost
  <2>3. CASE inFlight[k].task = NoCall
    <3>1. writer' = writer
      BY <1>3, <2>3 DEF CancelToolCall
    <3>2. QED
      BY <2>2, <3>1 DEF WritersShaped
  <2>4. CASE inFlight[k].task # NoCall
    <3>1. inFlight[k].task \in Calls
      BY <2>4 DEF TypeOK, NoEntry
    <3>2. writer' = [writer EXCEPT !["host"] = [step |-> "read", call |-> inFlight[k].task, status |-> "Cancelled"]]
      BY <1>3, <2>4 DEF CancelToolCall
    <3>3. WritersShaped'
      BY <3>1, <3>2 DEF WritersShaped, TypeOK, Terminal, Writers
    <3>4. QED
      BY <2>2, <3>3
  <2>5. QED
    BY <2>3, <2>4
<1>4. CASE DropDispatch
  BY <1>4 DEF DropDispatch, WritersShaped, HostShaped, TypeOK, IdleHost
<1>5. ASSUME NEW c \in Calls, ReceiveCompletion(c) PROVE WritersShaped' /\ HostShaped'
  BY <1>5, ShapeUntouched DEF ReceiveCompletion
<1>6. ASSUME NEW c \in Calls, Forward(c) PROVE WritersShaped' /\ HostShaped'
  BY <1>6, ShapeUntouched DEF Forward
<1>7. CASE OtherBranch
  BY <1>7, ShapeUntouched DEF OtherBranch
<1>8. CASE BuildController
  <2>1. writer' = writer /\ built' = built + 1 /\ built \in Nat
    BY <1>8 DEF BuildController, TypeOK
  <2>2. host'.pc = "rebuild" /\ host'.next = built + 1
    BY <1>8 DEF BuildController, TypeOK, IdleHost
  <2>3. QED
    BY <2>1, <2>2 DEF WritersShaped, HostShaped
<1>9. CASE InterruptNext
  <2>1. PICK c \in host.stale :
          /\ writer' = [writer EXCEPT !["host"] = [step |-> "read", call |-> c, status |-> "Interrupted"]]
          /\ host' = [host EXCEPT !.stale = @ \ {c}]
    BY <1>9 DEF InterruptNext
  <2>2. c \in Calls /\ host.pc \in {"start", "rebuild"} /\ UNCHANGED built
    BY <1>9 DEF InterruptNext, TypeOK
  <2>3. WritersShaped'
    BY <2>1, <2>2 DEF WritersShaped, TypeOK, Terminal, Writers
  <2>4. host'.pc = host.pc /\ host'.next = host.next
    BY <2>1 DEF TypeOK
  <2>5. QED
    BY <2>2, <2>3, <2>4 DEF HostShaped
<1>10. CASE AdoptController
  BY <1>10 DEF AdoptController, WritersShaped, HostShaped, IdleHost
<1>11. CASE DiscardController
  BY <1>11 DEF DiscardController, WritersShaped, HostShaped, IdleHost
<1>12. ASSUME NEW c \in Calls, Execute(c) PROVE WritersShaped' /\ HostShaped'
  BY <1>12, ShapeUntouched DEF Execute
<1>13. ASSUME NEW c \in Calls, ExecutionEnds(c) PROVE WritersShaped' /\ HostShaped'
  BY <1>13, ShapeUntouched DEF ExecutionEnds
<1>14. ASSUME NEW c \in Calls, FinishInline(c) PROVE WritersShaped' /\ HostShaped'
  BY <1>14, ShapeUntouched DEF FinishInline
<1>15. ASSUME NEW c \in Calls, ExceedBudget(c) PROVE WritersShaped' /\ HostShaped'
  BY <1>15, ShapeUntouched DEF ExceedBudget
<1>16. ASSUME NEW c \in Calls, ReadProgress(c) PROVE WritersShaped' /\ HostShaped'
  BY <1>16, ShapeUntouched DEF ReadProgress
<1>17. ASSUME NEW c \in Calls, ContinueInBackground(c) PROVE WritersShaped' /\ HostShaped'
  BY <1>17 DEF ContinueInBackground, WritersShaped, HostShaped, TypeOK, Writers
<1>18. ASSUME NEW c \in Calls, RecordFails(c) PROVE WritersShaped' /\ HostShaped'
  BY <1>18, ShapeUntouched DEF RecordFails
<1>19. ASSUME NEW c \in Calls, FinishBackground(c) PROVE WritersShaped' /\ HostShaped'
  <2>1. PICK status \in Terminal : writer' = [writer EXCEPT ![c].step = "read", ![c].status = status]
    BY <1>19, FinishStatus DEF FinishBackground
  <2>2. c \in Writers /\ c # "host" /\ writer[c].call = c
    BY <1>19 DEF FinishBackground, WritersShaped, Writers
  <2>3. writer'[c].step = "read" /\ writer'[c].status = status /\ writer'[c].call = c
    BY <2>1, <2>2 DEF TypeOK
  <2>4. \A w \in Writers \ {c} : writer'[w] = writer[w]
    BY <2>1 DEF TypeOK
  <2>5. WritersShaped'
    BY <2>2, <2>3, <2>4 DEF WritersShaped, Writers
  <2>6. UNCHANGED <<host, built>>
    BY <1>19 DEF FinishBackground
  <2>7. QED
    BY <2>2, <2>4, <2>5, <2>6 DEF HostShaped, Writers
<1>20. ASSUME NEW c \in Calls, RemoveEntry(c) PROVE WritersShaped' /\ HostShaped'
  BY <1>20 DEF RemoveEntry, WritersShaped, HostShaped, TypeOK, Off, Writers
<1>21. ASSUME NEW w \in Writers, Update(w) PROVE WritersShaped' /\ HostShaped'
  BY <1>21, UpdateMoves
<1>22. CASE Restart
  <2>1. writer' = [w \in Writers |-> Off] /\ built' = built + 1 /\ built \in Nat
    BY <1>22 DEF Restart, TypeOK
  <2>2. host'.pc = "start" /\ host'.next = built + 1
    BY <1>22 DEF Restart, IdleHost
  <2>3. QED
    BY <2>1, <2>2 DEF WritersShaped, HostShaped, Off, Writers
<1>23. CASE UNCHANGED vars
  BY <1>23, ShapeUntouched DEF vars
<1>24. QED
  BY <1>1, <1>2, <1>3, <1>4, <1>5, <1>6, <1>7, <1>8, <1>9, <1>10, <1>11, <1>12, <1>13, <1>14,
     <1>15, <1>16, <1>17, <1>18, <1>19, <1>20, <1>21, <1>22, <1>23
     DEF Next, Dispatch, Finisher, HostLoop, Writers
-----------------------------------------------------------------------------
(* The stages of a call.                                                   *)

\* Whether some entry of the in-flight map, the list of the reconciliation or the
\* update of the host loop is for the record of a call.
Marked(c)  == \E k \in Keys : inFlight[k].task = c
Touched(c) == c \in host.stale \/ writer["host"].call = c \/ Marked(c)

\* A call that has not left its budget has no record and nobody updates one.
FreshCalls ==
  \A c \in Calls : dispatch[c] \in {"none", "spawned", "waiting"} =>
    /\ task[c] = "none" /\ writer[c].step = "off" /\ c \notin result /\ notified[c] = 0
    /\ ~Touched(c)

\* While its record is being made nobody else knows of it, but for a controller
\* that is built meanwhile.
RecordedCalls ==
  \A c \in Calls : dispatch[c] \in {"recording", "progressing"} =>
    /\ writer[c].step = "off" /\ ~Marked(c)
    /\ c \in torn \/ (task[c] = "Running" /\ ~Touched(c))

\* What a second controller of the same process reconciles counts as torn.
RebuildTears ==
  host.pc = "rebuild" => /\ host.stale \subseteq torn
                         /\ writer["host"].call # NoCall => writer["host"].call \in torn

\* Who knows of a record at each stage of its call.
StageInv == FreshCalls /\ RecordedCalls /\ RebuildTears

\* At first no call has begun.
LEMMA StageInit == Init => StageInv
  BY ToolsAssumption DEF Init, StageInv, FreshCalls, RecordedCalls, RebuildTears, Touched, Marked,
     IdleHost, Off, NoEntry, Writers

\* A finisher whose execution has ended begins its update.
LEMMA FinishMoves ==
  ASSUME Shaped, NEW c \in Calls, FinishBackground(c)
  PROVE  /\ writer'[c].step = "read" /\ writer'[c].call = c
         /\ \A w \in Writers \ {c} : writer'[w] = writer[w]
<1>1. PICK status \in Terminal : writer' = [writer EXCEPT ![c].step = "read", ![c].status = status]
  BY FinishStatus
<1>2. writer \in [Writers -> WriterState] /\ c \in Writers /\ writer[c].call = c
  BY DEF Shaped, TypeOK, WriterState, WritersShaped, FinishBackground, Writers
<1>3. QED
  BY <1>1, <1>2 DEF WriterState

\* A step of a terminal update changes the record of one call.
LEMMA UpdateTouches ==
  ASSUME Shaped, NEW w \in Writers, Update(w)
  PROVE  /\ UNCHANGED <<dispatch, inFlight, host, built>>
         /\ torn \subseteq torn' /\ orphaned \subseteq orphaned'
         /\ \A d \in Calls \ {writer[w].call} :
              task'[d] = task[d] /\ notified'[d] = notified[d] /\ (d \in result' <=> d \in result)
  BY DEF Shaped, TypeOK, Update, ReadTask, WriteTask, WriteResult, EnqueueNotification, UpdateFails,
         counters, dispatchVars, recordVars, historyVars

\* Every step keeps it: in particular an entry of the map is marked for a record
\* only when the record exists, and a controller is built only with torn ones.
LEMMA StageStep == Shaped /\ StageInv /\ [Next]_vars => StageInv'
<1> SUFFICES ASSUME Shaped, StageInv, [Next]_vars PROVE StageInv'
  OBVIOUS
<1> USE ToolsAssumption DEF Shaped, StageInv, counters, dispatchVars, recordVars, historyVars
<1> USE DEF FreshCalls, RecordedCalls, RebuildTears, Touched, Marked, TypeOK
<1>1. ASSUME NEW c \in Calls, SpawnToolCall(c) PROVE StageInv'
  BY <1>1 DEF SpawnToolCall, IdleHost
<1>2. CASE InsertDispatch
  BY <1>2 DEF InsertDispatch, IdleHost, Aborted
<1>3. ASSUME NEW k \in Keys, CancelToolCall(k) PROVE StageInv'
  BY <1>3 DEF CancelToolCall, IdleHost, NoEntry, Writers
<1>4. CASE DropDispatch
  BY <1>4 DEF DropDispatch, IdleHost, Aborted
<1>5. ASSUME NEW c \in Calls, ReceiveCompletion(c) PROVE StageInv'
  BY <1>5 DEF ReceiveCompletion
<1>6. ASSUME NEW c \in Calls, Forward(c) PROVE StageInv'
  BY <1>6 DEF Forward
<1>7. CASE OtherBranch
  BY <1>7 DEF OtherBranch
<1>8. CASE BuildController
  BY <1>8 DEF BuildController, StaleTasks, IdleHost, HostShaped, Off, Unfinished
<1>9. CASE InterruptNext
  BY <1>9 DEF InterruptNext, Writers
<1>10. CASE AdoptController
  BY <1>10 DEF AdoptController, IdleHost, NoEntry
<1>11. CASE DiscardController
  BY <1>11 DEF DiscardController, IdleHost
<1>12. ASSUME NEW c \in Calls, Execute(c) PROVE StageInv'
  BY <1>12 DEF Execute, Current, KeyOf
<1>13. ASSUME NEW c \in Calls, ExecutionEnds(c) PROVE StageInv'
  BY <1>13 DEF ExecutionEnds
<1>14. ASSUME NEW c \in Calls, FinishInline(c) PROVE StageInv'
  BY <1>14 DEF FinishInline, Complete, Forgotten, NoEntry
<1>15. ASSUME NEW c \in Calls, ExceedBudget(c) PROVE StageInv'
  BY <1>15 DEF ExceedBudget
<1>16. ASSUME NEW c \in Calls, ReadProgress(c) PROVE StageInv'
  BY <1>16 DEF ReadProgress
<1>17. ASSUME NEW c \in Calls, ContinueInBackground(c) PROVE StageInv'
  BY <1>17 DEF ContinueInBackground, Complete, MarkBackground, NoEntry, KeyOf, Writers
<1>18. ASSUME NEW c \in Calls, RecordFails(c) PROVE StageInv'
  BY <1>18 DEF RecordFails, Complete, Forgotten, NoEntry
<1>19. ASSUME NEW c \in Calls, FinishBackground(c) PROVE StageInv'
  <2>1. UNCHANGED <<dispatch, inFlight, task, result, notified, host, torn>>
    BY <1>19 DEF FinishBackground
  <2>2. writer[c].step = "await" /\ c \in Writers /\ c # "host"
    BY <1>19 DEF FinishBackground, Writers
  <2>3. \A w \in Writers \ {c} : writer'[w] = writer[w]
    BY <1>19, FinishMoves
  <2>4. writer'["host"] = writer["host"] /\ \A d \in Calls \ {c} : writer'[d] = writer[d]
    BY <2>2, <2>3 DEF Writers
  <2>5. \A d \in Calls : Touched(d)' <=> Touched(d)
    BY <2>1, <2>4
  <2>6. \A d \in Calls : Marked(d)' <=> Marked(d)
    BY <2>1
  <2>7. dispatch[c] \notin {"none", "spawned", "waiting", "recording", "progressing"}
    BY <2>2
  <2> HIDE DEF Touched, Marked
  <2>8. FreshCalls' /\ RecordedCalls'
    BY <2>1, <2>4, <2>5, <2>6, <2>7
  <2>9. RebuildTears'
    BY <2>1, <2>4
  <2>10. QED
    BY <2>8, <2>9
<1>20. ASSUME NEW c \in Calls, RemoveEntry(c) PROVE StageInv'
  BY <1>20 DEF RemoveEntry, Forgotten, NoEntry, Off, Writers
<1>21. ASSUME NEW w \in Writers, Update(w) PROVE StageInv'
  <2> DEFINE c == writer[w].call
  <2>1. /\ UNCHANGED <<dispatch, inFlight, host>> /\ torn \subseteq torn'
        /\ \A d \in Calls \ {c} : task'[d] = task[d] /\ notified'[d] = notified[d] /\ (d \in result' => d \in result)
    BY <1>21, UpdateTouches
  <2>2. c \in Calls /\ writer[w].step # "off" /\ \A v \in Writers \ {w} : writer'[v] = writer[v]
    BY <1>21, UpdateMoves DEF Updating
  <2>3. writer'["host"].call \in {writer["host"].call, NoCall}
    BY <1>21, UpdateMoves DEF Off, Writers
  <2>4. w = c \/ w = "host"
    BY <2>2 DEF WritersShaped, Writers
  <2>5. ASSUME NEW d \in Calls, writer[d].step = "off" PROVE writer'[d].step = "off"
    BY <2>2, <2>5 DEF Writers
  <2>6. Touched(c) \/ writer[c].step # "off"
    BY <2>2, <2>4
  <2>7. \A d \in Calls : Touched(d)' => Touched(d)
    BY <2>1, <2>3
  <2> HIDE DEF c, Touched
  <2>8. FreshCalls'
    BY <2>1, <2>2, <2>5, <2>6, <2>7
  <2>9. RecordedCalls'
    <3>1. ASSUME NEW d \in Calls, dispatch'[d] \in {"recording", "progressing"}
          PROVE  d \in torn' \/ (task'[d] = "Running" /\ ~Touched(d)')
      <4>1. CASE d \in torn
        BY <4>1, <2>1
      <4>2. CASE d \notin torn
        <5>1. writer[d].step = "off" /\ task[d] = "Running" /\ ~Touched(d)
          BY <2>1, <3>1, <4>2
        <5>2. d # c
          BY <5>1, <2>6
        <5>3. QED
          BY <5>1, <5>2, <2>1, <2>7
      <4>3. QED
        BY <4>1, <4>2
    <3>2. QED
      BY <2>1, <2>5, <3>1
  <2>10. RebuildTears'
    BY <2>1, <2>3
  <2>11. QED
    BY <2>8, <2>9, <2>10
<1>22. CASE Restart
  BY <1>22 DEF Restart, IdleHost, NoEntry, StaleTasks, Off, Writers
<1>23. CASE UNCHANGED vars
  BY <1>23 DEF vars
<1>24. QED
  BY <1>1, <1>2, <1>3, <1>4, <1>5, <1>6, <1>7, <1>8, <1>9, <1>10, <1>11, <1>12, <1>13, <1>14,
     <1>15, <1>16, <1>17, <1>18, <1>19, <1>20, <1>21, <1>22, <1>23
     DEF Next, Dispatch, Finisher, HostLoop, Writers
-----------------------------------------------------------------------------
(* A running record is owned.                                              *)

\* RunningIsOwned, with the two steps of an update that end it told from the others.
Ending(c) == \E w \in Writers : writer[w].call = c /\ writer[w].step \in {"read", "write"}

OwnedInv ==
  \A c \in Calls : task[c] = "Running" =>
    \/ dispatch[c] \in {"recording", "progressing"}
    \/ writer[c].step = "await"
    \/ Ending(c)
    \/ host.pc = "start" /\ c \in host.stale
    \/ c \in orphaned

\* Ownership is handed on without a gap: from the call that makes the record to
\* its finisher, and from there to the update that ends it or to a reconciliation.
LEMMA OwnedStep == Shaped /\ StageInv /\ OwnedInv /\ [Next]_vars => OwnedInv'
<1> SUFFICES ASSUME Shaped, StageInv, OwnedInv, [Next]_vars PROVE OwnedInv'
  OBVIOUS
<1> USE ToolsAssumption DEF Shaped, counters, dispatchVars, recordVars, historyVars
<1> USE DEF OwnedInv, TypeOK, Ending
<1>1. ASSUME NEW c \in Calls, SpawnToolCall(c) PROVE OwnedInv'
  BY <1>1 DEF SpawnToolCall, IdleHost
<1>2. CASE InsertDispatch
  BY <1>2 DEF InsertDispatch, IdleHost, Aborted
<1>3. ASSUME NEW k \in Keys, CancelToolCall(k) PROVE OwnedInv'
  BY <1>3 DEF CancelToolCall, IdleHost, NoEntry, Writers, HostShaped, Off
<1>4. CASE DropDispatch
  BY <1>4 DEF DropDispatch, IdleHost, Aborted
<1>5. ASSUME NEW c \in Calls, ReceiveCompletion(c) PROVE OwnedInv'
  BY <1>5 DEF ReceiveCompletion
<1>6. ASSUME NEW c \in Calls, Forward(c) PROVE OwnedInv'
  BY <1>6 DEF Forward
<1>7. CASE OtherBranch
  BY <1>7 DEF OtherBranch
<1>8. CASE BuildController
  BY <1>8 DEF BuildController, IdleHost
<1>9. CASE InterruptNext
  BY <1>9 DEF InterruptNext, Writers, Off
<1>10. CASE AdoptController
  BY <1>10 DEF AdoptController, IdleHost
<1>11. CASE DiscardController
  BY <1>11 DEF DiscardController, IdleHost
<1>12. ASSUME NEW c \in Calls, Execute(c) PROVE OwnedInv'
  BY <1>12 DEF Execute, Current, KeyOf
<1>13. ASSUME NEW c \in Calls, ExecutionEnds(c) PROVE OwnedInv'
  BY <1>13 DEF ExecutionEnds
<1>14. ASSUME NEW c \in Calls, FinishInline(c) PROVE OwnedInv'
  BY <1>14 DEF FinishInline, Complete
<1>15. ASSUME NEW c \in Calls, ExceedBudget(c) PROVE OwnedInv'
  BY <1>15 DEF ExceedBudget
<1>16. ASSUME NEW c \in Calls, ReadProgress(c) PROVE OwnedInv'
  BY <1>16 DEF ReadProgress
<1>17. ASSUME NEW c \in Calls, ContinueInBackground(c) PROVE OwnedInv'
  BY <1>17 DEF ContinueInBackground, Complete, Writers, StageInv, RecordedCalls
<1>18. ASSUME NEW c \in Calls, RecordFails(c) PROVE OwnedInv'
  BY <1>18 DEF RecordFails, Complete
<1>19. ASSUME NEW c \in Calls, FinishBackground(c) PROVE OwnedInv'
  BY <1>19, FinishMoves DEF FinishBackground, Writers
<1>20. ASSUME NEW c \in Calls, RemoveEntry(c) PROVE OwnedInv'
  BY <1>20 DEF RemoveEntry, Off, Writers
<1>21. ASSUME NEW w \in Writers, Update(w) PROVE OwnedInv'
  <2>1. CASE ReadTask(w)
    BY <1>21, <2>1, UpdateMoves DEF ReadTask, Terminal, After, Off
  <2>2. CASE WriteTask(w)
    BY <1>21, <2>2, UpdateMoves DEF WriteTask, Terminal
  <2>3. CASE WriteResult(w)
    BY <1>21, <2>3, UpdateMoves DEF WriteResult
  <2>4. CASE EnqueueNotification(w)
    BY <1>21, <2>4, UpdateMoves DEF EnqueueNotification
  <2>5. CASE UpdateFails(w)
    BY <1>21, <2>5, UpdateMoves DEF UpdateFails
  <2>6. QED
    BY <1>21, <2>1, <2>2, <2>3, <2>4, <2>5 DEF Update
<1>22. CASE Restart
  BY <1>22 DEF Restart, IdleHost, StaleTasks, Off, Writers
<1>23. CASE UNCHANGED vars
  BY <1>23 DEF vars
<1>24. QED
  BY <1>1, <1>2, <1>3, <1>4, <1>5, <1>6, <1>7, <1>8, <1>9, <1>10, <1>11, <1>12, <1>13, <1>14,
     <1>15, <1>16, <1>17, <1>18, <1>19, <1>20, <1>21, <1>22, <1>23
     DEF Next, Dispatch, Finisher, HostLoop, Writers

-----------------------------------------------------------------------------
(* A record agrees with its files.                                         *)

\* The updates of a record at given steps.
Past(c, steps) == {w \in Writers : writer[w].call = c /\ writer[w].step \in steps}

\* At most one of them is past its read.
OneUpdate(c) == \A v, w \in Past(c, {"write", "result", "notify"}) : v = w

\* A record at rest: its result file and its notifications are as its status says.
Agrees(c) == (c \in result <=> task[c] = "Succeeded") /\ notified[c] = IF task[c] \in Terminal THEN 1 ELSE 0

\* What they are to each other at every step of the one update.
SoundRecord(c) ==
  /\ OneUpdate(c)
  /\ \A w \in Past(c, {"write"}) : task[c] \notin Terminal
  /\ \A w \in Past(c, {"result", "notify"}) : task[c] = writer[w].status /\ notified[c] = 0
  /\ \A w \in Past(c, {"notify"}) : c \in result <=> task[c] = "Succeeded"
  /\ Past(c, {"result", "notify"}) = {} => Agrees(c)

\* So it is of every record but those whose update was cut short or raced.
RecordInv == \A c \in Calls : c \in torn \/ SoundRecord(c)

\* The steps past the read.
Active == {"write", "result", "notify"}

\* A step that leaves a record and the updates past their reads alone.
LEMMA SoundKept ==
  ASSUME NEW c \in Calls, SoundRecord(c),
         task'[c] = task[c], notified'[c] = notified[c], c \in result' <=> c \in result,
         \A w \in Writers : \/ writer'[w] = writer[w]
                            \/ writer[w].step \notin Active /\ writer'[w].step \notin Active
  PROVE  SoundRecord(c)'
<1>1. \A w \in Writers, steps \in SUBSET Active : w \in Past(c, steps)' <=> w \in Past(c, steps)
  BY DEF Past
<1>2. \A steps \in SUBSET Active : Past(c, steps)' = Past(c, steps)
  BY <1>1 DEF Past
<1>3. \A w \in Past(c, Active) : writer'[w] = writer[w]
  BY DEF Past
<1>4. QED
  BY <1>2, <1>3 DEF SoundRecord, OneUpdate, Agrees, Past, Active

\* Nobody is past the read of a record that is fresh, or being made and not torn.
LEMMA NobodyUpdates ==
  ASSUME Shaped, NEW c \in Calls, writer[c].step \notin Active, writer["host"].call # c
  PROVE  \A steps \in SUBSET Active : Past(c, steps) = {}
  BY DEF Past, Active, Shaped, WritersShaped, Writers

\* A step of an update leaves the record of its call sound, or torn.
LEMMA RecordUpdated ==
  ASSUME Shaped, RecordInv, NEW w \in Writers, Update(w), NEW d \in Calls, d \notin torn'
  PROVE  SoundRecord(d)'
<1> DEFINE c == writer[w].call
           others == \A v \in Writers \ {w} : writer'[v] = writer[v]
<1>b. writer \in [Writers -> WriterState] /\ task \in [Calls -> Terminal \cup {"none", "Running"}]
      /\ notified \in [Calls -> Nat] /\ result \subseteq Calls
  BY DEF Shaped, TypeOK, WriterState
<1>1. SoundRecord(d)
  BY UpdateTouches DEF RecordInv
<1>2. c \in Calls /\ writer[w].status \in Terminal /\ others
      /\ writer'[w].call \in {c, NoCall} /\ (writer'[w].call = c => writer'[w].status = writer[w].status)
  BY UpdateMoves, ToolsAssumption DEF Off
<1>3. CASE d # c
  <2>1. \A v \in Writers, steps \in SUBSET Active : v \in Past(d, steps)' <=> v \in Past(d, steps)
    BY <1>2, <1>3, ToolsAssumption DEF Past
  <2>2. \A steps \in SUBSET Active : Past(d, steps)' = Past(d, steps)
    BY <2>1 DEF Past
  <2>3. \A v \in Past(d, Active) : writer'[v] = writer[v]
    BY <1>2, <1>3 DEF Past
  <2>4. task'[d] = task[d] /\ notified'[d] = notified[d] /\ (d \in result' <=> d \in result)
    BY <1>3, UpdateTouches
  <2>5. QED
    BY <1>1, <2>2, <2>3, <2>4, ZenonT(40) DEF SoundRecord, OneUpdate, Agrees, Past, Active
<1>4. CASE d = c
  <2> USE DEF recordVars, historyVars
  <2>o. ASSUME writer[w].step \in Active
        PROVE  /\ \A v \in Writers : v \in Past(d, Active) => v = w
               /\ \A v \in Writers : v \in Past(d, Active)' => v = w
    <3>1. w \in Past(d, Active)
      BY <1>4, <2>o DEF Past
    <3>2. \A v \in Writers : v \in Past(d, Active) => v = w
      BY <1>1, <3>1 DEF SoundRecord, OneUpdate, Active
    <3>3. QED
      BY <1>2, <3>2 DEF Past
  <2>1. CASE ReadTask(w)
    <3>1. UNCHANGED recordVars /\ writer[w].step = "read"
      BY <2>1 DEF ReadTask
    <3>2. CASE task[c] \in Terminal
      <4>1. writer'[w].step \notin Active
        BY <2>1, <3>2, <1>b DEF ReadTask, After, Off, Active, WriterState
      <4>2. QED
        BY <1>1, <1>2, <3>1, <4>1, SoundKept DEF Active
    <3>3. CASE task[c] \notin Terminal
      <4>1. ~Raced(w) /\ writer'[w].step = "write"
        BY <2>1, <3>3, <1>4, <1>b DEF ReadTask, WriterState
      <4>2. Past(c, Active) = {}
        <5>1. ASSUME NEW v \in Past(c, Active) PROVE FALSE
          <6>1. v \in Writers /\ v # w /\ writer[v].call = c /\ writer[v].step \in Active
            BY <3>1 DEF Past, Active
          <6>2. writer[v].step # "write"
            BY <4>1, <6>1 DEF Raced
          <6>3. v \in Past(d, {"result", "notify"}) /\ writer[v].status \in Terminal
            BY <1>4, <6>1, <6>2 DEF Past, Active, Shaped, WritersShaped, Updating
          <6>4. QED
            BY <1>1, <1>4, <3>3, <6>3 DEF SoundRecord
        <5>2. QED
          BY <5>1
      <4>3. \A v \in Writers : v \in Past(d, Active)' => v = w
        BY <4>2, <1>2, <1>4 DEF Past
      <4>4. Past(d, {"result", "notify"}) = {}
        BY <1>4, <4>2 DEF Past, Active
      <4>5. Agrees(d)'
        BY <1>1, <3>1, <4>4 DEF SoundRecord, Agrees
      <4>7. w \notin Past(d, {"result", "notify"})'
        BY <4>1 DEF Past
      <4>8. task'[d] \notin Terminal
        BY <1>4, <3>1, <3>3
      <4>9. QED
        BY <4>3, <4>5, <4>7, <4>8 DEF SoundRecord, OneUpdate, Past, Active
    <3>4. QED
      BY <3>2, <3>3
  <2>2. CASE WriteTask(w)
    <3>1. /\ UNCHANGED <<result, notified>> /\ writer[w].step = "write" /\ writer'[w].step = "result"
          /\ task' = [task EXCEPT ![c] = writer[w].status] /\ writer'[w].status = writer[w].status
      BY <2>2, <1>b DEF WriteTask, WriterState
    <3>2. w \in Past(d, {"write"}) /\ Past(d, {"result", "notify"}) = {}
      BY <1>1, <1>4, <3>1, <2>o DEF Past, Active
    <3>3. notified[d] = 0
      BY <1>1, <3>2 DEF SoundRecord, Agrees
    <3>4. \A v \in Writers : v \in Past(d, Active)' => v = w
      BY <3>1, <2>o DEF Active
    <3>5. task'[d] = writer'[w].status /\ notified'[d] = 0
      BY <1>4, <1>b, <3>1, <3>3
    <3>6. w \in Past(d, {"result", "notify"})' /\ w \notin Past(d, {"write"})' /\ w \notin Past(d, {"notify"})'
      BY <1>2, <1>4, <3>1, UpdateMoves DEF Past, Off
    <3>7. QED
      BY <3>4, <3>5, <3>6 DEF SoundRecord, OneUpdate, Past, Active
  <2>3. CASE WriteResult(w)
    <3>1. /\ UNCHANGED <<task, notified>> /\ writer[w].step = "result" /\ writer'[w].step = "notify"
          /\ writer'[w].status = writer[w].status
          /\ d \in result' <=> writer[w].status = "Succeeded"
      BY <2>3, <1>4, <1>b DEF WriteResult, WriterState
    <3>2. w \in Past(d, {"result", "notify"})
      BY <1>4, <3>1 DEF Past
    <3>3. task[d] = writer[w].status /\ notified[d] = 0
      BY <1>1, <3>2 DEF SoundRecord
    <3>4. \A v \in Writers : v \in Past(d, Active)' => v = w
      BY <3>1, <2>o DEF Active
    <3>5. w \in Past(d, {"result", "notify"})' /\ w \notin Past(d, {"write"})'
      BY <1>2, <1>4, <3>1, UpdateMoves DEF Past, Off
    <3>6. QED
      BY <3>1, <3>3, <3>4, <3>5 DEF SoundRecord, OneUpdate, Past, Active
  <2>4. CASE EnqueueNotification(w)
    <3>1. /\ UNCHANGED <<task, result>> /\ writer[w].step = "notify" /\ writer'[w].step \notin Active
          /\ notified' = [notified EXCEPT ![c] = @ + 1]
      BY <2>4, <1>b DEF EnqueueNotification, After, Off, WriterState, Active
    <3>2. w \in Past(d, {"notify"}) /\ w \in Past(d, {"result", "notify"})
      BY <1>4, <3>1 DEF Past
    <3>3. task[d] \in Terminal /\ notified[d] = 0 /\ (d \in result <=> task[d] = "Succeeded")
      BY <1>1, <1>2, <3>2 DEF SoundRecord
    <3>4. \A v \in Writers : v \notin Past(d, Active)'
      BY <3>1, <2>o DEF Active, Past
    <3>5. Agrees(d)'
      BY <1>4, <1>b, <3>1, <3>3 DEF Agrees
    <3>6. QED
      BY <3>4, <3>5 DEF SoundRecord, OneUpdate, Past, Active
  <2>5. CASE UpdateFails(w)
    <3>1. UNCHANGED recordVars /\ writer[w].step \in {"read", "write"} /\ writer'[w].step \notin Active
      BY <2>5, <1>4, <1>b DEF UpdateFails, After, Off, WriterState, Active
    <3>2. CASE writer[w].step = "read"
      BY <1>1, <1>2, <3>1, <3>2, SoundKept DEF Active
    <3>3. CASE writer[w].step = "write"
      <4>1. w \in Past(d, {"write"}) /\ Past(d, {"result", "notify"}) = {}
        BY <1>1, <1>4, <3>3, <2>o DEF Past, Active
      <4>2. Agrees(d)'
        BY <1>1, <3>1, <4>1 DEF SoundRecord, Agrees
      <4>3. \A v \in Writers : v \notin Past(d, Active)'
        BY <3>1, <3>3, <2>o DEF Active, Past
      <4>4. QED
        BY <4>2, <4>3 DEF SoundRecord, OneUpdate, Past, Active
    <3>4. QED
      BY <3>1, <3>2, <3>3
  <2>6. QED
    BY <2>1, <2>2, <2>3, <2>4, <2>5 DEF Update
<1>5. QED
  BY <1>3, <1>4

\* Every step keeps the records sound, the update of one step by step.
LEMMA RecordStep == Shaped /\ StageInv /\ RecordInv /\ [Next]_vars => RecordInv'
<1> SUFFICES ASSUME Shaped, StageInv, RecordInv, [Next]_vars, NEW d \in Calls, d \notin torn' PROVE SoundRecord(d)'
  BY DEF RecordInv
<1> USE ToolsAssumption DEF counters, dispatchVars, recordVars, historyVars
<1>a. ASSUME UNCHANGED <<recordVars, writer, torn>> PROVE SoundRecord(d)'
  BY <1>a, SoundKept DEF RecordInv
<1>b. writer \in [Writers -> WriterState] /\ task \in [Calls -> Terminal \cup {"none", "Running"}]
      /\ notified \in [Calls -> Nat] /\ result \subseteq Calls
  BY DEF Shaped, TypeOK, WriterState
<1>1. ASSUME NEW c \in Calls, SpawnToolCall(c) PROVE SoundRecord(d)'
  BY <1>1, <1>a DEF SpawnToolCall
<1>2. CASE InsertDispatch
  BY <1>2, <1>a DEF InsertDispatch
<1>3. ASSUME NEW k \in Keys, CancelToolCall(k) PROVE SoundRecord(d)'
  <2>1. UNCHANGED <<recordVars, torn>> /\ host = IdleHost
    BY <1>3 DEF CancelToolCall
  <2>2. writer["host"] = Off
    BY <2>1 DEF Shaped, HostShaped, IdleHost
  <2>3. \A w \in Writers : writer'[w] = writer[w] \/ (w = "host" /\ writer'[w].step = "read")
    BY <1>3, <1>b DEF CancelToolCall, Writers
  <2>4. QED
    BY <2>1, <2>2, <2>3, SoundKept DEF RecordInv, Active, Off
<1>4. CASE DropDispatch
  BY <1>4, <1>a DEF DropDispatch
<1>5. ASSUME NEW c \in Calls, ReceiveCompletion(c) PROVE SoundRecord(d)'
  BY <1>5, <1>a DEF ReceiveCompletion
<1>6. ASSUME NEW c \in Calls, Forward(c) PROVE SoundRecord(d)'
  BY <1>6, <1>a DEF Forward
<1>7. CASE OtherBranch
  BY <1>7, <1>a DEF OtherBranch
<1>8. CASE BuildController
  <2>1. UNCHANGED <<recordVars, writer>> /\ torn \subseteq torn'
    BY <1>8 DEF BuildController
  <2>2. QED
    BY <2>1, SoundKept DEF RecordInv
<1>9. CASE InterruptNext
  <2>1. UNCHANGED <<recordVars, torn>> /\ writer["host"] = Off
    BY <1>9 DEF InterruptNext
  <2>2. \A w \in Writers : writer'[w] = writer[w] \/ (w = "host" /\ writer'[w].step = "read")
    BY <1>9, <1>b DEF InterruptNext, Writers
  <2>3. QED
    BY <2>1, <2>2, SoundKept DEF RecordInv, Active, Off
<1>10. CASE AdoptController
  BY <1>10, <1>a DEF AdoptController
<1>11. CASE DiscardController
  BY <1>11, <1>a DEF DiscardController
<1>12. ASSUME NEW c \in Calls, Execute(c) PROVE SoundRecord(d)'
  BY <1>12, <1>a DEF Execute
<1>13. ASSUME NEW c \in Calls, ExecutionEnds(c) PROVE SoundRecord(d)'
  BY <1>13, <1>a DEF ExecutionEnds
<1>14. ASSUME NEW c \in Calls, FinishInline(c) PROVE SoundRecord(d)'
  BY <1>14, <1>a DEF FinishInline
<1>15. ASSUME NEW c \in Calls, ExceedBudget(c) PROVE SoundRecord(d)'
  <2>1. UNCHANGED <<result, notified, writer, torn>> /\ task' = [task EXCEPT ![c] = "Running"] /\ dispatch[c] = "waiting"
    BY <1>15 DEF ExceedBudget
  <2>2. CASE d = c
    <3>1. c \notin result /\ notified[c] = 0 /\ writer[c].step = "off" /\ writer["host"].call # c
      BY <2>1 DEF StageInv, FreshCalls, Touched
    <3>2. \A steps \in SUBSET Active : Past(c, steps) = {}
      BY <3>1, NobodyUpdates DEF Active
    <3>3. \A steps \in SUBSET Active : Past(c, steps)' = {}
      BY <3>2, <2>1 DEF Past
    <3>4. task'[c] = "Running" /\ c \notin result' /\ notified'[c] = 0
      BY <2>1, <3>1, <1>b
    <3>5. QED
      BY <2>2, <3>3, <3>4 DEF SoundRecord, OneUpdate, Agrees, Active, Terminal
  <2>3. CASE d # c
    BY <2>1, <2>3, <1>b, SoundKept DEF RecordInv
  <2>4. QED
    BY <2>2, <2>3
<1>16. ASSUME NEW c \in Calls, ReadProgress(c) PROVE SoundRecord(d)'
  BY <1>16, <1>a DEF ReadProgress
<1>17. ASSUME NEW c \in Calls, ContinueInBackground(c) PROVE SoundRecord(d)'
  <2>1. /\ UNCHANGED <<result, notified, torn>> /\ task' = [task EXCEPT ![c] = "Running"]
        /\ dispatch[c] = "progressing"
        /\ writer' = [writer EXCEPT ![c] = [step |-> "await", call |-> c, status |-> "none"]]
    BY <1>17 DEF ContinueInBackground
  <2>2. writer[c].step = "off" /\ (d = c => task[c] = "Running")
    BY <2>1 DEF StageInv, RecordedCalls
  <2>3. \A w \in Writers : writer'[w] = writer[w] \/ (w = c /\ writer'[w].step = "await")
    BY <2>1, <1>b
  <2>4. task'[d] = task[d]
    BY <2>1, <2>2, <1>b
  <2>5. QED
    BY <2>1, <2>2, <2>3, <2>4, SoundKept DEF RecordInv, Active
<1>18. ASSUME NEW c \in Calls, RecordFails(c) PROVE SoundRecord(d)'
  BY <1>18, <1>a DEF RecordFails
<1>19. ASSUME NEW c \in Calls, FinishBackground(c) PROVE SoundRecord(d)'
  <2>1. UNCHANGED <<recordVars, torn>> /\ writer[c].step = "await"
    BY <1>19 DEF FinishBackground
  <2>2. QED
    BY <1>19, <2>1, FinishMoves, SoundKept DEF RecordInv, Active
<1>20. ASSUME NEW c \in Calls, RemoveEntry(c) PROVE SoundRecord(d)'
  <2>1. UNCHANGED <<recordVars, torn>> /\ writer[c].step = "remove" /\ writer' = [writer EXCEPT ![c] = Off]
    BY <1>20 DEF RemoveEntry
  <2>2. \A w \in Writers : writer'[w] = writer[w] \/ (w = c /\ writer'[w].step = "off")
    BY <2>1, <1>b DEF Off
  <2>3. QED
    BY <2>1, <2>2, SoundKept DEF RecordInv, Active
<1>21. ASSUME NEW w \in Writers, Update(w) PROVE SoundRecord(d)'
  BY <1>21, <1>b, RecordUpdated
<1>22. CASE Restart
  <2>1. UNCHANGED recordVars /\ writer' = [w \in Writers |-> Off]
    BY <1>22 DEF Restart
  <2>2. d \notin torn /\ \A w \in Writers : writer[w].step \in {"result", "notify"} => writer[w].call # d
    BY <1>22 DEF Restart
  <2>3. Past(d, {"result", "notify"}) = {} /\ \A steps \in SUBSET Active : Past(d, steps)' = {}
    BY <2>1, <2>2 DEF Past, Off, Active
  <2>4. Agrees(d)
    BY <2>2, <2>3 DEF RecordInv, SoundRecord
  <2>5. Agrees(d)'
    BY <2>1, <2>4 DEF Agrees
  <2>6. QED
    BY <2>3, <2>5 DEF SoundRecord, OneUpdate, Active
<1>23. CASE UNCHANGED vars
  BY <1>23, <1>a DEF vars
<1>24. QED
  BY <1>1, <1>2, <1>3, <1>4, <1>5, <1>6, <1>7, <1>8, <1>9, <1>10, <1>11, <1>12, <1>13, <1>14,
     <1>15, <1>16, <1>17, <1>18, <1>19, <1>20, <1>21, <1>22, <1>23
     DEF Next, Dispatch, Finisher, HostLoop, Writers

-----------------------------------------------------------------------------
(* The theorem.                                                            *)

\* The inductive invariant.
TasksInd == Shaped /\ StageInv /\ OwnedInv /\ RecordInv

\* It holds at first, ...
LEMMA TasksInit == Init => TasksInd
<1> SUFFICES ASSUME Init PROVE TasksInd
  OBVIOUS
<1>1. OwnedInv
  BY DEF Init, OwnedInv
<1>2. \A c \in Calls, steps \in SUBSET Active : Past(c, steps) = {}
  BY DEF Init, Past, Off, Active
<1>3. RecordInv
  BY <1>2 DEF Init, RecordInv, SoundRecord, OneUpdate, Agrees, Active, Terminal
<1>4. QED
  BY <1>1, <1>3, TypeInit, ShapeInit, StageInit DEF TasksInd, Shaped

\* ... is kept by every step, ...
LEMMA TasksStep == TasksInd /\ [Next]_vars => TasksInd'
  BY TypeStep, ShapeStep, StageStep, OwnedStep, RecordStep DEF TasksInd, Shaped

\* ... and implies what the runs check.
LEMMA IndGivesTasks == TasksInd => TasksInv
<1> SUFFICES ASSUME TasksInd PROVE TasksInv
  OBVIOUS
<1>1. RunningIsOwned
  BY DEF TasksInd, OwnedInv, RunningIsOwned, Ending, BeingWritten
<1>2. RecordsAgree
  BY DEF TasksInd, RecordInv, SoundRecord, Past, Agrees, RecordsAgree, BeingWritten
<1>3. QED
  BY <1>1, <1>2 DEF TasksInd, Shaped, TasksInv

\* In every state of tool.rs and task.rs, whatever is cancelled, cut short, replaced
\* or restarted: the state is well typed, a record that says Running has somebody
\* who will end it unless an I/O error left it behind, and a record nobody is
\* writing agrees with its result file and its notifications.
THEOREM TasksAreSound == Spec => []TasksInv
<1>1. Spec => []TasksInd
  BY TasksInit, TasksStep, PTL DEF Spec
<1>2. QED
  BY <1>1, IndGivesTasks, PTL
=============================================================================
