------------------------------ MODULE Recorder ------------------------------
(***************************************************************************)
(* The activity recorder (crates/gemini-live-recorder/src): fixed          *)
(* observation windows, one summary turn at a time, the media held back    *)
(* meanwhile, the restarts of its session, and the log it appends to.      *)
(*                                                                         *)
(* One task; the body of a select! branch runs to its end, but it awaits,  *)
(* and the session may end or queue events between any two of its steps.   *)
(* pc says where the task is: selecting, or at which await of a body.      *)
(***************************************************************************)
EXTENDS SequencesExt, Integers

CONSTANTS
  Attempts,     \* RUNTIME_RESTART_ATTEMPTS
  MaxWindows,   \* bounds of the model: windows, frames or chunks captured,
  MaxMedia,     \* events published by the server,
  MaxEvents,
  MaxSessions,  \* sessions connected,
  MaxDiskFaults \* and appends that fail

ASSUME RecorderAssumption ==
  /\ Attempts \in Nat \ {0}
  /\ {MaxWindows, MaxMedia, MaxEvents, MaxSessions, MaxDiskFaults} \subseteq Nat
  /\ MaxSessions > 0

VARIABLES
  pc,
  attempt,      \* the attempt of restart_runtime
  window,       \* active_window: its id, and whether it has observed media
  pending,      \* pending_summaries
  current,      \* current_summary
  buffered,     \* pending_media
  open,         \* observation_activity_open
  shuttingDown,
  log,          \* the JSONL file
  session,      \* sessions connected so far, the installed one being the last
  alive,        \* whether its runner takes commands
  events,       \* runtime_events
  activity,     \* external: whether that session has an activity open
  captured,     \* history: media captured, and of them, sent
  sent,
  skipped,      \* history: windows that ended without media at the interrupt
  published,    \* counters for the bounds
  diskFaults

windowVars  == <<window, pending, current, shuttingDown, skipped>>
mediaVars   == <<buffered, captured, sent>>
sessionVars == <<session, alive, activity, open>>
logVars     == <<log, diskFaults>>
counterVars == <<attempt, published>>
vars == <<pc, windowVars, mediaVars, sessionVars, logVars, events, counterVars>>

NoSummary == [window |-> 0, accepted |-> FALSE, session |-> 0]
Idle      == current = NoSummary
Busy      == ~Idle \/ pending # <<>>

ActiveWindow(id) == [id |-> id, media |-> FALSE]

Drained == Idle /\ pending = <<>>

\* The loop goes around once more: its check comes before the select!.
Selecting == pc = "select" /\ ~(shuttingDown /\ Drained)

Event(kind) == [kind |-> kind, from |-> session]

-----------------------------------------------------------------------------
(* The log.                                                                *)

Record(w, status) == [window |-> w, status |-> status]

\* JsonlStore::append, and where the task goes on; an I/O error ends the program.
Append1(w, status, next) ==
  \/ /\ log' = Append(log, Record(w, status))
     /\ pc' = next
     /\ UNCHANGED diskFaults
  \/ /\ diskFaults < MaxDiskFaults
     /\ diskFaults' = diskFaults + 1
     /\ pc' = "failed"
     /\ UNCHANGED log

-----------------------------------------------------------------------------
(* Windows.                                                                *)

\* rotate_window.
Rotate == window' = ActiveWindow(window.id + 1)

\* The first branch of the select!.
Interrupt ==
  /\ Selecting /\ ~shuttingDown
  /\ shuttingDown' = TRUE
  /\ Rotate
  /\ IF window.media THEN pending' = Append(pending, window.id) /\ UNCHANGED skipped
                     ELSE skipped' = skipped \cup {window.id} /\ UNCHANGED pending
  /\ pc' = "dispatch"
  /\ UNCHANGED <<current, mediaVars, sessionVars, logVars, events, counterVars>>

\* A window without media is an error record, and the session is suspect.
EmptyWindow == Append1(window.id, "error", "restart")

Tick ==
  /\ Selecting /\ ~shuttingDown
  /\ window.id < MaxWindows
  /\ Rotate
  /\ IF window.media
     THEN pending' = Append(pending, window.id) /\ pc' = "dispatch" /\ UNCHANGED logVars
     ELSE EmptyWindow /\ UNCHANGED pending
  /\ UNCHANGED <<current, shuttingDown, skipped, mediaVars, sessionVars, events, counterVars>>

-----------------------------------------------------------------------------
(* Media.                                                                  *)

\* The sends of the runtime: the session takes what it is sent until it has ended.
Sends == alive

\* send_frame and send_audio, after begin_observation_activity_if_needed; the
\* error of a session whose runner ended ends the program.
Send(rest, next) ==
  IF Sends
  THEN /\ open' = TRUE /\ activity' = (activity \/ ~open)
       /\ sent' = sent + 1
       /\ buffered' = rest
       /\ pc' = next
  ELSE /\ pc' = "failed"
       /\ UNCHANGED <<open, activity, sent, buffered>>

\* Mutant: only the first item is held back.
HoldBackFirst == Busy /\ buffered = <<>>

HoldBack == Busy

\* handle_frame and handle_audio.
Media ==
  /\ Selecting
  /\ captured < MaxMedia
  /\ captured' = captured + 1
  /\ window' = [window EXCEPT !.media = TRUE]
  /\ LET item == [n |-> captured + 1, window |-> window.id]
     IN IF HoldBack
        THEN buffered' = Append(buffered, item) /\ UNCHANGED <<pc, open, activity, sent>>
        ELSE Send(buffered, "select")
  /\ UNCHANGED <<pending, current, shuttingDown, skipped, session, alive, logVars, events, counterVars>>

AfterFlushed == "flush"

\* The last loop of flush_or_continue, one item at a time.
Flush ==
  /\ pc = "flush"
  /\ IF ~Busy /\ buffered # <<>>
     THEN Send(Tail(buffered), AfterFlushed)
     ELSE pc' = "select" /\ UNCHANGED <<open, activity, sent, buffered>>
  /\ UNCHANGED <<windowVars, captured, session, alive, logVars, events, counterVars>>

-----------------------------------------------------------------------------
(* dispatch_next_summary_if_idle.  Where only it is called (pc "dispatch") *)
(* nothing is buffered when it ends idle, so that flush_or_continue (which *)
(* begins with it) may stand for both.                                     *)

Dispatching == pc = "dispatch" /\ Idle /\ pending # <<>>

EndDispatch ==
  /\ pc = "dispatch"
  /\ ~Idle \/ pending = <<>>
  /\ pc' = "flush"
  /\ UNCHANGED <<windowVars, mediaVars, sessionVars, logVars, events, counterVars>>

\* Either send of an iteration fails: the window gets an error record.
DispatchFails ==
  /\ Dispatching
  /\ ~Sends
  /\ pending' = Tail(pending)
  /\ Append1(Head(pending), "error", "dispatch")
  /\ UNCHANGED <<window, current, shuttingDown, skipped, mediaVars, sessionVars, events, counterVars>>

\* end_observation_activity_if_open.
EndActivity ==
  /\ Dispatching
  /\ Sends /\ open
  /\ open' = FALSE /\ activity' = FALSE
  /\ UNCHANGED <<pc, windowVars, mediaVars, session, alive, logVars, events, counterVars>>

\* Mutant: the activity may still be open.
MayPromptEarly == TRUE

MayPrompt == ~open

SendPrompt ==
  /\ Dispatching
  /\ Sends /\ MayPrompt
  /\ current' = [window |-> Head(pending), accepted |-> FALSE, session |-> session]
  /\ pending' = Tail(pending)
  /\ UNCHANGED <<pc, window, shuttingDown, skipped, mediaVars, sessionVars, logVars, events, counterVars>>

-----------------------------------------------------------------------------
(* The end of a summary turn.                                              *)

\* The summary is taken from current_summary, with a record unless accepted.
TakeSummary(unrecorded, next) ==
  /\ current' = NoSummary
  /\ IF unrecorded THEN Append1(current.window, "error", next)
                   ELSE pc' = next /\ UNCHANGED logVars

\* handle_summary_timeout.
Timeout ==
  /\ Selecting /\ ~Idle
  /\ TakeSummary(~current.accepted, "restart")
  /\ UNCHANGED <<window, pending, shuttingDown, skipped, mediaVars, sessionVars, events, counterVars>>

NextEvent(kind) == Selecting /\ events # <<>> /\ Head(events).kind = kind /\ events' = Tail(events)

\* The Closed arm records an error, also when the summary was accepted.
Closed ==
  /\ NextEvent("closed")
  /\ IF Idle THEN pc' = "restart" /\ UNCHANGED <<current, logVars>> ELSE TakeSummary(TRUE, "restart")
  /\ UNCHANGED <<window, pending, shuttingDown, skipped, mediaVars, sessionVars, counterVars>>

\* Mutant: the windows that wait are left to the next tick.
AfterTurnIdle == "select"

AfterTurn == "dispatch"

\* finish_summary_turn.
TurnComplete ==
  /\ NextEvent("turn")
  /\ IF Idle THEN UNCHANGED <<pc, current, logVars>> ELSE TakeSummary(~current.accepted, AfterTurn)
  /\ UNCHANGED <<window, pending, shuttingDown, skipped, mediaVars, sessionVars, counterVars>>

-----------------------------------------------------------------------------
(* handle_tool_call.                                                       *)

MayAccept == ~current.accepted

\* send_tool_response at the end of every arm: an error ends the program.
Respond == pc' = IF Sends THEN "select" ELSE "failed"

\* What the name of a call and MinuteSummarySubmission::parse make of it.
Calls == {"submit", "refused"}

Submit ==
  /\ NextEvent("submit")
  /\ IF ~Idle /\ MayAccept
     THEN \/ /\ log' = Append(log, Record(current.window, "ok"))
             /\ current' = [current EXCEPT !.accepted = TRUE]
             /\ Respond
             /\ UNCHANGED diskFaults
          \/ /\ diskFaults < MaxDiskFaults
             /\ diskFaults' = diskFaults + 1
             /\ pc' = "failed"
             /\ UNCHANGED <<log, current>>
     ELSE Respond /\ UNCHANGED <<current, logVars>>
  /\ UNCHANGED <<window, pending, shuttingDown, skipped, mediaVars, sessionVars, counterVars>>

\* Another tool, or arguments that do not parse.
Refuse ==
  /\ NextEvent("refused")
  /\ Respond
  /\ UNCHANGED <<windowVars, mediaVars, sessionVars, logVars, counterVars>>

-----------------------------------------------------------------------------
(* restart_runtime.                                                        *)

ActivityReset == FALSE

\* The old session is closed and its forwarder aborted; what it queued stays.
RestartSucceeds ==
  /\ pc = "restart"
  /\ session < MaxSessions
  /\ session' = session + 1 /\ alive' = TRUE /\ activity' = FALSE
  /\ open' = ActivityReset
  /\ attempt' = 1
  /\ pc' = "dispatch"
  /\ UNCHANGED <<windowVars, mediaVars, logVars, events, published>>

RestartFails ==
  /\ pc = "restart"
  /\ alive' = FALSE /\ activity' = FALSE
  /\ IF attempt < Attempts THEN attempt' = attempt + 1 /\ UNCHANGED pc
                           ELSE pc' = "failed" /\ UNCHANGED attempt
  /\ UNCHANGED <<windowVars, mediaVars, session, open, logVars, events, published>>

-----------------------------------------------------------------------------
(* Start and end.                                                          *)

\* main, up to RecorderApp::new: the arguments, the monitors and the captures.
Launch ==
  /\ pc = "launch"
  /\ pc' \in {"start", "failed"}
  /\ UNCHANGED <<windowVars, mediaVars, sessionVars, logVars, events, counterVars>>

\* RecorderApp::new.
Start ==
  /\ pc = "start"
  /\ \/ /\ session' = 1 /\ alive' = TRUE
        /\ window' = ActiveWindow(1)
        /\ pc' = "select"
     \/ /\ pc' = "failed"
        /\ UNCHANGED <<session, alive, window>>
  /\ UNCHANGED <<pending, current, shuttingDown, skipped, mediaVars, activity, open, logVars, events,
                 counterVars>>

\* The close after the loop.
Finish ==
  /\ pc = "select"
  /\ shuttingDown /\ Drained
  /\ pc' = "done"
  /\ alive' = FALSE
  /\ UNCHANGED <<windowVars, mediaVars, session, activity, open, logVars, events, counterVars>>

-----------------------------------------------------------------------------
(* External: the session and the model.                                    *)

Publish(kind) ==
  /\ alive
  /\ published < MaxEvents
  /\ published' = published + 1
  /\ events' = Append(events, Event(kind))
  /\ UNCHANGED <<pc, attempt, windowVars, mediaVars, sessionVars, logVars>>

\* The runner ends, and says so.
SessionEnds ==
  /\ alive
  /\ published < MaxEvents
  /\ published' = published + 1
  /\ alive' = FALSE
  /\ events' = Append(events, Event("closed"))
  /\ UNCHANGED <<pc, attempt, windowVars, mediaVars, session, activity, open, logVars>>

-----------------------------------------------------------------------------
Init ==
  /\ pc = "launch" /\ attempt = 1
  /\ window = ActiveWindow(0) /\ pending = <<>> /\ current = NoSummary
  /\ buffered = <<>> /\ open = FALSE /\ shuttingDown = FALSE /\ log = <<>>
  /\ session = 0 /\ alive = FALSE /\ events = <<>> /\ activity = FALSE
  /\ captured = 0 /\ sent = 0 /\ skipped = {} /\ published = 0 /\ diskFaults = 0

\* What the task does by itself.
Step == \/ Launch \/ Start \/ Finish
        \/ EndDispatch \/ DispatchFails \/ EndActivity \/ SendPrompt \/ Flush
        \/ Closed \/ TurnComplete \/ Submit \/ Refuse
        \/ RestartSucceeds \/ RestartFails

Server == SessionEnds \/ \E kind \in Calls \cup {"turn"} : Publish(kind)

Next == Step \/ Timeout \/ Tick \/ Interrupt \/ Media \/ Server

Spec == Init /\ [][Next]_vars

\* The task is polled, and select! does not starve the branch of a deadline that
\* has passed.  Nothing is owed by the user, the devices or the server.
Fairness == WF_vars(Step) /\ SF_vars(Timeout)

FairSpec == Spec /\ Fairness
-----------------------------------------------------------------------------
(* Properties.                                                             *)

Summaries == [window : Nat, accepted : BOOLEAN, session : 0..session]

\* Type correctness; windows wait in order, and the active one comes after them.
TypeOK ==
  /\ pc \in {"launch", "start", "select", "dispatch", "flush", "restart", "done", "failed"}
  /\ attempt \in 1..Attempts
  /\ window \in [id : Nat, media : BOOLEAN]
  /\ pending \in Seq(1..(window.id - 1))
  /\ \A i, j \in DOMAIN pending : i < j => pending[i] < pending[j]
  /\ current \in Summaries /\ current.window < window.id + 1
  /\ buffered \in Seq([n : 1..captured, window : 1..window.id])
  /\ {open, activity, alive, shuttingDown} \subseteq BOOLEAN
  /\ session \in 0..MaxSessions
  /\ \A i \in DOMAIN log : log[i] \in [window : 1..window.id, status : {"ok", "error"}]

Recorded(w) == \E i \in DOMAIN log : log[i].window = w

\* Where a closed window can be while the recorder works.
Places(w) == { place \in {"pending", "current", "log", "skipped"} :
                 CASE place = "pending" -> Contains(pending, w)
                   [] place = "current" -> current.window = w /\ ~current.accepted
                   [] place = "log"     -> Recorded(w)
                   [] OTHER             -> w \in skipped }

\* No observation window is forgotten: through failed sends, timeouts and
\* restarts, a closed window waits, is being summarized, or has its record; only
\* one without media, cut short by the interrupt, has none.
WindowAccounted ==
  pc # "failed" => \A w \in 1..(window.id - 1) : \E place \in {"pending", "current", "log", "skipped"} :
                     Places(w) = {place}

\* A window has one record, or an accepted one followed by an error, when the
\* session closed before the turn in which it was accepted was complete.
RecordsOfAWindow ==
  \A i, j \in DOMAIN log :
    i < j /\ log[i].window = log[j].window => log[i].status = "ok" /\ log[j].status = "error"

\* Not met: one record per observation window (README.md of the repository, and main.rs).
OneRecordPerWindow == \A i, j \in DOMAIN log : log[i].window = log[j].window => i = j

\* No frame or chunk that was held back is lost, repeated or overtaken by a later
\* one, whatever happens to the summaries and the sessions meanwhile.
MediaInOrder ==
  pc # "failed" => /\ Len(buffered) = captured - sent
                   /\ \A i \in DOMAIN buffered : buffered[i].n = sent + i

\* When the task waits for the next event without a summary in flight, no window
\* waits for a prompt and no media for being flushed.
NothingLeftBehind == Selecting /\ Idle => pending = <<>> /\ buffered = <<>>

\* The manual turns: media is sent inside an activity of the installed session,
\* never while a summary is awaited, and a prompt only outside of one.
TurnsDoNotOverlap ==
  [][/\ sent' # sent => Idle /\ activity'
     /\ current' # NoSummary /\ current'.window # current.window => ~activity]_vars

\* Not met: the media of a window has been sent when its summary is asked for, as
\* the prompt says ("Observed frames sent during this window").
MediaBeforePrompt == \A i \in DOMAIN buffered : buffered[i].window # current.window

\* Every window that waits gets its record, or the program ends with an error.
WindowRecorded == \A w \in 1..MaxWindows : Contains(pending, w) ~> Recorded(w) \/ pc = "failed"

\* After the interrupt the recorder comes to an end, whatever the server does.
ShutdownEnds == shuttingDown ~> pc \in {"done", "failed"}

\* What holds of windows, records and held back media in every state.
RecorderInv == TypeOK /\ WindowAccounted /\ RecordsOfAWindow /\ MediaInOrder /\ NothingLeftBehind

\* The recorder gets on: no window waits for ever, and the interrupt ends it.
RecorderProgress == WindowRecorded /\ ShutdownEnds
=============================================================================
