------------------------ MODULE PassiveNotifications ------------------------
(***************************************************************************)
(* Durable notifications on their way to the model: the status machine of  *)
(* crates/gemini-live-harness/src/store.rs, the PassiveNotificationPump of *)
(* delivery.rs with its two wake-up signals, and the part of the Discord   *)
(* host (service.rs) that opens and closes the delivery gate: the queue of *)
(* pending replies, turn_in_flight, and the handling of the end of a turn. *)
(*                                                                         *)
(* Three tasks interleave at their awaits and locks: the pump, a message   *)
(* handler, and the runtime event loop.  The process may die at any step.  *)
(***************************************************************************)
EXTENDS Naturals, SequencesExt

CONSTANTS
  Notes,        \* notifications
  NoNote,
  MaxIncidents  \* bound of the model: messages and voice turns of the user, turns
                \* interrupted, operations that fail and restarts, all together

ASSUME NotesAssumption ==
  /\ IsFiniteSet(Notes) /\ NoNote \notin Notes
  /\ "user" \notin Notes /\ "voice" \notin Notes
  /\ MaxIncidents \in Nat

VARIABLES
  note,       \* NotificationStatus of each notification
  queue,      \* the queued ones by updated_at_ms, newest first
  unseen,     \* whether queue_version differs from the pump's observed_queue_version
  inFlightNote,   \* in_flight_notification_id
  at,         \* task -> where it is
  candidate,  \* the notification dispatch_once has listed
  signalled,  \* whether the gate signal reached the parked pump
  turnInFlight,
  replies,    \* pending_text_replies
  active,     \* whether a reply accumulator is open
  settling,   \* the notification the event loop took from inFlightNote, and how
  turns,      \* external: prompts whose turn the model has not ended
  incidents,  \* counter for the bound
  sent,       \* history: times each notification was sent to the model
  excuses,    \* history: times there was a reason to send it again
  missed,     \* history: since the pump last woke, a signal went by unseen, or a
              \* delivery or its settlement failed
  stranded    \* history: notifications whose settlement an I/O error cut short

storeVars == <<note, queue, unseen>>
pumpVars  == <<candidate, signalled>>
gateVars  == <<turnInFlight, replies, active>>
deliveryVars == <<storeVars, inFlightNote, at, pumpVars, gateVars, settling, turns, incidents,
          sent, excuses, missed, stranded>>

Tasks == {"pump", "user", "loop"}
Idle  == [id |-> NoNote, to |-> "none"]

Incident == incidents < MaxIncidents /\ incidents' = incidents + 1

Move(t, from, to) == at[t] = from /\ at' = [at EXCEPT ![t] = to]

-----------------------------------------------------------------------------
(* The store.                                                              *)

\* Where the pump has looked at the queue, or at the gate, and a change of it
\* goes by unseen: it has not read the version, or not registered, since.
QueueUnwatched == at["pump"] \notin {"gate", "list", "park", "parked"}
GateUnwatched  == at["pump"] \in {"version", "park"}

\* The others queued, in their order.
Without(n) ==
  IF n \in ToSet(queue) THEN RemoveAt(queue, CHOOSE i \in DOMAIN queue : queue[i] = n) ELSE queue

\* Every change of a record stamps it, and signals the queue.
SetStatus(n, status) ==
  /\ note' = [note EXCEPT ![n] = status]
  /\ queue' = (IF status = "queued" THEN <<n>> ELSE <<>>) \o Without(n)
  /\ unseen' = TRUE

\* enqueue_notification, by any harness event source.
Enqueue(n) ==
  /\ note[n] = "absent"
  /\ SetStatus(n, "queued")
  /\ missed' = (missed \/ QueueUnwatched)
  /\ UNCHANGED <<inFlightNote, at, pumpVars, gateVars, settling, turns, incidents, sent, excuses, stranded>>

-----------------------------------------------------------------------------
(* The gate: set_turn_in_flight and sync_turn_state_after_reply_end.       *)

\* notify_waiters wakes a pump that has registered, and nobody else.
SetTurnInFlight(value) ==
  /\ turnInFlight' = value
  /\ signalled' = (signalled \/ at["pump"] = "parked")
  /\ missed' = (missed \/ GateUnwatched)

\* The length of the reply queue is read under one lock...
SyncRead(t) ==
  /\ at[t] = "sync"
  /\ at' = [at EXCEPT ![t] = IF replies = <<>> THEN "syncFalse" ELSE "syncTrue"]
  /\ UNCHANGED <<storeVars, inFlightNote, pumpVars, gateVars, settling, turns, incidents, sent, excuses,
                 missed, stranded>>

\* ... and the flag set under another.
SyncSet(t) ==
  /\ at[t] \in {"syncTrue", "syncFalse"}
  /\ SetTurnInFlight(at[t] = "syncTrue")
  /\ at' = [at EXCEPT ![t] = IF t = "pump" THEN "version" ELSE "idle"]
  /\ UNCHANGED <<storeVars, inFlightNote, candidate, replies, active, settling, turns, incidents,
                 sent, excuses, stranded>>

-----------------------------------------------------------------------------
(* Sending a text turn: send_discord_message_turn by a message handler and *)
(* deliver_passive_notification by the pump.                               *)

Prompt(t) == IF t = "pump" THEN candidate ELSE "user"
Sent(t)   == IF t = "pump" THEN "mark" ELSE "idle"
Failed(t) == IF t = "pump" THEN "version" ELSE "idle"

ReceiveMessage ==
  /\ Incident
  /\ Move("user", "idle", "push")
  /\ UNCHANGED <<storeVars, inFlightNote, pumpVars, gateVars, settling, turns,
                 sent, excuses, missed, stranded>>

PushReply(t) ==
  /\ Move(t, "push", "flag")
  /\ replies' = Append(replies, Prompt(t))
  /\ UNCHANGED <<storeVars, inFlightNote, pumpVars, turnInFlight, active, settling, turns, incidents,
                 sent, excuses, missed, stranded>>

RaiseFlag(t) ==
  /\ Move(t, "flag", "send")
  /\ SetTurnInFlight(TRUE)
  /\ UNCHANGED <<storeVars, inFlightNote, candidate, replies, active, settling, turns, incidents,
                 sent, excuses, stranded>>

SendText(t) ==
  /\ Move(t, "send", Sent(t))
  /\ turns' = Append(turns, Prompt(t))
  /\ sent' = IF t = "pump" THEN [sent EXCEPT ![candidate] = @ + 1] ELSE sent
  /\ UNCHANGED <<storeVars, inFlightNote, pumpVars, gateVars, settling, incidents, excuses, missed, stranded>>

\* ensure_hot fails: the early return leaves the reply and the flag as they are.
WakeFails(t) ==
  /\ Incident
  /\ Move(t, "send", Failed(t))
  /\ missed' = (missed \/ t = "pump")
  /\ UNCHANGED <<storeVars, inFlightNote, pumpVars, gateVars, settling, turns,
                 sent, excuses, stranded>>

\* send_text fails: the last reply is removed, whoever pushed it.
SendFails(t) ==
  /\ Incident
  /\ Move(t, "send", "unpush")
  /\ missed' = (missed \/ t = "pump")
  /\ UNCHANGED <<storeVars, inFlightNote, pumpVars, gateVars, settling, turns,
                 sent, excuses, stranded>>

PopReply(t) ==
  /\ Move(t, "unpush", "sync")
  /\ replies' = IF replies = <<>> THEN <<>> ELSE Front(replies)
  /\ UNCHANGED <<storeVars, inFlightNote, pumpVars, turnInFlight, active, settling, turns, incidents,
                 sent, excuses, missed, stranded>>

Sender(t) == PushReply(t) \/ RaiseFlag(t) \/ SendText(t) \/ WakeFails(t) \/ SendFails(t) \/ PopReply(t)

-----------------------------------------------------------------------------
(* The pump: spawn, dispatch_once, wait_for_signal_since.                  *)

PumpUnchanged == UNCHANGED <<gateVars, settling, turns, stranded>>

\* can_deliver.  A closed gate keeps the version seen before it was checked.
CheckGate ==
  /\ at["pump"] = "gate"
  /\ at' = [at EXCEPT !["pump"] = IF turnInFlight THEN "park" ELSE "list"]
  /\ UNCHANGED <<storeVars, inFlightNote, pumpVars, incidents, sent, excuses, missed>>
  /\ PumpUnchanged

\* Mutant: the reentrancy check is missing.
ListUnguarded ==
  /\ at["pump"] = "list"
  /\ queue # <<>>
  /\ candidate' = Head(queue)
  /\ at' = [at EXCEPT !["pump"] = "push"]
  /\ UNCHANGED <<storeVars, inFlightNote, signalled, incidents, sent, excuses, missed>>
  /\ PumpUnchanged

\* One notification in flight at a time, the newest queued one first.
ListQueued ==
  /\ at["pump"] = "list"
  /\ inFlightNote = NoNote
  /\ queue # <<>>
  /\ candidate' = Head(queue)
  /\ at' = [at EXCEPT !["pump"] = "push"]
  /\ UNCHANGED <<storeVars, inFlightNote, signalled, incidents, sent, excuses, missed>>
  /\ PumpUnchanged

NothingToDispatch ==
  /\ inFlightNote # NoNote \/ queue = <<>>
  /\ Move("pump", "list", "version")
  /\ UNCHANGED <<storeVars, inFlightNote, pumpVars, incidents, sent, excuses, missed>>
  /\ PumpUnchanged

\* mark_notification_delivered.
MarkDelivered ==
  /\ Move("pump", "mark", "record")
  /\ SetStatus(candidate, "delivered")
  /\ UNCHANGED <<inFlightNote, pumpVars, incidents, sent, excuses, missed>>
  /\ PumpUnchanged

MarkFails ==
  /\ Incident
  /\ Move("pump", "mark", "version")
  /\ excuses' = [excuses EXCEPT ![candidate] = @ + 1]
  /\ missed' = TRUE
  /\ UNCHANGED <<storeVars, inFlightNote, pumpVars, sent>>
  /\ PumpUnchanged

RecordInFlight ==
  /\ Move("pump", "record", "version")
  /\ inFlightNote' = candidate
  /\ UNCHANGED <<storeVars, pumpVars, incidents, sent, excuses, missed>>
  /\ PumpUnchanged

\* The version is read again after the dispatch.
ReadVersion ==
  /\ Move("pump", "version", "park")
  /\ unseen' = FALSE
  /\ candidate' = NoNote
  /\ UNCHANGED <<note, queue, inFlightNote, signalled, incidents, sent, excuses, missed>>
  /\ PumpUnchanged

\* The gate's Notified is created: from here on its signal is not lost.
Park ==
  /\ Move("pump", "park", "parked")
  /\ signalled' = FALSE
  /\ UNCHANGED <<storeVars, inFlightNote, candidate, incidents, sent, excuses, missed>>
  /\ PumpUnchanged

\* Mutant: only the gate wakes the pump.
WakeOnGate ==
  /\ Move("pump", "parked", "gate")
  /\ signalled
  /\ unseen' = FALSE /\ signalled' = FALSE
  /\ missed' = FALSE
  /\ UNCHANGED <<note, queue, inFlightNote, candidate, incidents, sent, excuses>>
  /\ PumpUnchanged

Wake ==
  /\ Move("pump", "parked", "gate")
  /\ signalled \/ unseen
  /\ unseen' = FALSE /\ signalled' = FALSE
  /\ missed' = FALSE
  /\ UNCHANGED <<note, queue, inFlightNote, candidate, incidents, sent, excuses>>
  /\ PumpUnchanged

Pump == \/ CheckGate \/ ListQueued \/ NothingToDispatch
        \/ Sender("pump") \/ SyncRead("pump") \/ SyncSet("pump")
        \/ MarkDelivered \/ MarkFails \/ RecordInFlight
        \/ ReadVersion \/ Park \/ Wake

-----------------------------------------------------------------------------
(* The runtime event loop: handle_server_event.                            *)

\* External: the user speaks, which opens a turn the host has no reply for.
VoiceTurn ==
  /\ Incident
  /\ turns' = Append(turns, "voice")
  /\ UNCHANGED <<storeVars, inFlightNote, at, pumpVars, gateVars, settling,
                 sent, excuses, missed, stranded>>

\* ensure_active_reply, on the first output of a turn.
OpenReply ==
  /\ active' = TRUE
  /\ replies' = IF active \/ replies = <<>> THEN replies ELSE Tail(replies)

ModelOutput ==
  /\ at["loop"] = "idle"
  /\ turns # <<>> /\ ~active
  /\ OpenReply
  /\ UNCHANGED <<storeVars, inFlightNote, at, pumpVars, turnInFlight, settling, turns, incidents,
                 sent, excuses, missed, stranded>>

\* TurnComplete: the reply is opened if need be, rendered and closed.
TurnComplete ==
  /\ turns # <<>>
  /\ turns' = Tail(turns)
  /\ replies' = IF active \/ replies = <<>> THEN replies ELSE Tail(replies)
  /\ active' = FALSE
  /\ \/ /\ Move("loop", "idle", "take")
        /\ settling' = [id |-> NoNote, to |-> "acknowledged"]
        /\ UNCHANGED incidents
     \/ /\ at["loop"] = "idle"   \* send_discord_text fails: nothing else is done
        /\ Incident
        /\ UNCHANGED <<at, settling>>
  /\ UNCHANGED <<storeVars, inFlightNote, pumpVars, turnInFlight,
                 sent, excuses, missed, stranded>>

\* Interrupted: an open reply is discarded; its turn may still be completed.
Interrupted ==
  /\ Incident
  /\ turns # <<>>
  /\ turns' \in {turns, Tail(turns)}
  /\ Move("loop", "idle", "take")
  /\ settling' = [id |-> NoNote, to |-> "queued"]
  /\ active' = FALSE
  /\ UNCHANGED <<storeVars, inFlightNote, pumpVars, turnInFlight, replies,
                 sent, excuses, missed, stranded>>

TakeInFlight ==
  /\ at["loop"] = "take"
  /\ settling' = IF inFlightNote = NoNote THEN Idle ELSE [settling EXCEPT !.id = inFlightNote]
  /\ inFlightNote' = NoNote
  /\ at' = [at EXCEPT !["loop"] = IF inFlightNote = NoNote THEN "sync" ELSE "settle"]
  /\ UNCHANGED <<storeVars, pumpVars, gateVars, turns, incidents, sent, excuses, missed, stranded>>

SettledStatus == settling.to

\* acknowledge_notification and requeue_notification: a record that already has
\* the status is left alone; an acknowledged one is not queued again.
Settle ==
  /\ at["loop"] = "settle"
  /\ IF note[settling.id] \in {SettledStatus, "acknowledged"}
     THEN UNCHANGED <<storeVars, missed>>
     ELSE /\ SetStatus(settling.id, SettledStatus)
          /\ missed' = (missed \/ QueueUnwatched)
  /\ excuses' = IF settling.to = "queued" THEN [excuses EXCEPT ![settling.id] = @ + 1] ELSE excuses
  /\ at' = [at EXCEPT !["loop"] =
               IF settling.to = "queued" /\ note[settling.id] = "acknowledged" THEN "idle" ELSE "sync"]
  /\ settling' = Idle
  /\ UNCHANGED <<inFlightNote, pumpVars, gateVars, turns, incidents, sent, stranded>>

\* The record is not written, and the handler returns without syncing the gate.
SettleFails ==
  /\ Incident
  /\ Move("loop", "settle", "idle")
  /\ stranded' = stranded \cup {settling.id}
  /\ missed' = TRUE
  /\ settling' = Idle
  /\ UNCHANGED <<storeVars, inFlightNote, pumpVars, gateVars, turns,
                 sent, excuses>>

Loop == TakeInFlight \/ Settle \/ SettleFails \/ SyncRead("loop") \/ SyncSet("loop")

-----------------------------------------------------------------------------

\* Mutant: settled notifications are recovered too.
RecoverEverything(n) == IF note[n] = "absent" THEN "absent" ELSE "queued"

\* recover_orphaned_deliveries, before anything else runs.
Recovered(n) == IF note[n] = "delivered" THEN "queued" ELSE note[n]

Start ==
  /\ at' = [t \in Tasks |-> IF t = "pump" THEN "gate" ELSE "idle"]
  /\ inFlightNote' = NoNote /\ candidate' = NoNote /\ signalled' = FALSE
  /\ unseen' = FALSE /\ missed' = FALSE
  /\ turnInFlight' = FALSE /\ replies' = <<>> /\ active' = FALSE
  /\ settling' = Idle /\ turns' = <<>>

\* The process dies, or is shut down, and another one opens the same root.
HostRestart ==
  /\ Incident
  /\ Start
  /\ note' = [n \in Notes |-> Recovered(n)]
  /\ \E order \in SetToSeqs({n \in Notes : note[n] = "delivered"}) : queue' = order \o queue
  /\ excuses' = [n \in Notes |-> IF note[n] = "delivered" \/ (at["pump"] = "mark" /\ n = candidate)
                                 THEN excuses[n] + 1 ELSE excuses[n]]
  /\ stranded' = {}
  /\ UNCHANGED <<sent>>

DeliveryInit ==
  /\ note = [n \in Notes |-> "absent"] /\ queue = <<>> /\ unseen = FALSE
  /\ inFlightNote = NoNote /\ candidate = NoNote /\ signalled = FALSE
  /\ at = [t \in Tasks |-> IF t = "pump" THEN "gate" ELSE "idle"]
  /\ turnInFlight = FALSE /\ replies = <<>> /\ active = FALSE
  /\ settling = Idle /\ turns = <<>>
  /\ incidents = 0
  /\ sent = [n \in Notes |-> 0] /\ excuses = [n \in Notes |-> 0]
  /\ missed = FALSE /\ stranded = {}

User == Sender("user") \/ SyncRead("user") \/ SyncSet("user")

DeliveryNext == \/ Pump \/ User \/ Loop
        \/ \E n \in Notes : Enqueue(n)
        \/ ReceiveMessage \/ VoiceTurn
        \/ ModelOutput \/ TurnComplete \/ Interrupted
        \/ HostRestart

DeliverySpec == DeliveryInit /\ [][DeliveryNext]_deliveryVars

\* The three tasks are polled when they can move.  Nothing is assumed of the
\* user and of the model: a turn may stay open for ever.
DeliveryFairness == WF_deliveryVars(Pump) /\ WF_deliveryVars(User) /\ WF_deliveryVars(Loop)

DeliveryFairSpec == DeliverySpec /\ DeliveryFairness

-----------------------------------------------------------------------------
(* Properties.                                                             *)

\* Type correctness.
DeliveryTypeOK ==
  /\ note \in [Notes -> {"absent", "queued", "delivered", "acknowledged"}]
  /\ queue \in Seq(Notes) /\ {n \in Notes : note[n] = "queued"} = ToSet(queue)
  /\ unseen \in BOOLEAN /\ signalled \in BOOLEAN
  /\ inFlightNote \in Notes \cup {NoNote} /\ candidate \in Notes \cup {NoNote}
  /\ at \in [Tasks -> {"gate", "list", "push", "flag", "send", "unpush", "sync", "syncTrue",
                       "syncFalse", "mark", "record", "version", "park", "parked",
                       "idle", "take", "settle"}]
  /\ turnInFlight \in BOOLEAN /\ active \in BOOLEAN
  /\ replies \in Seq(Notes \cup {"user"}) /\ turns \in Seq(Notes \cup {"user", "voice"})
  /\ settling \in [id : Notes \cup {NoNote}, to : {"none", "queued", "acknowledged"}]
  /\ incidents \in 0..MaxIncidents
  /\ sent \in [Notes -> Nat] /\ excuses \in [Notes -> Nat]
  /\ missed \in BOOLEAN /\ stranded \subseteq Notes

\* A delivered notification is never forgotten: the pump is about to record
\* it, it is the one in flight, or the event loop is settling it.  Only an I/O
\* error while settling leaves one behind for the next process.
DeliveredIsTracked ==
  \A n \in Notes : note[n] = "delivered" =>
    \/ inFlightNote = n
    \/ at["pump"] = "record" /\ candidate = n
    \/ at["loop"] = "settle" /\ settling.id = n
    \/ n \in stranded

\* The model hears of a notification once, and once more only for a reason: its
\* turn was interrupted, marking it failed, or the process died before it was
\* acknowledged.
NoNeedlessRepeat == \A n \in Notes : sent[n] <= 1 + excuses[n]

\* What holds of notifications and their delivery in every state.
DeliveryInv == DeliveryTypeOK /\ DeliveredIsTracked /\ NoNeedlessRepeat

\* Acknowledged is final, and only what was sent to the model gets there.
AcknowledgedIsFinal ==
  [][\A n \in Notes :
       /\ note[n] = "acknowledged" => note'[n] = "acknowledged" /\ sent'[n] = sent[n]
       /\ note'[n] = "acknowledged" => sent[n] > 0]_deliveryVars

\* A queued notification stays undelivered for ever only while a turn is in
\* flight, while another notification is, or when a signal went by unseen, or a
\* delivery or its settlement failed, since the pump last woke.
QueuedWaitsForAReason ==
  \A n \in Notes :
    []<>(note[n] # "queued" \/ turnInFlight \/ inFlightNote # NoNote \/ missed)

\* Not met: queue mutations wake the pump immediately (runtime-sequence.md), and
\* with the gate open and nothing in flight, a queued notification does not stay so.
QueueWakesPump ==
  \A n \in Notes : []<>(note[n] # "queued" \/ turnInFlight \/ inFlightNote # NoNote)

\* Not met: the gate blocks another notification while a turn is in flight
\* (runtime-sequence.md), so while a reply is awaited and no task is at work on
\* the flag, the gate is closed.
GateFollowsReplies ==
  replies # <<>> => \/ turnInFlight
                    \/ \E t \in Tasks : at[t] \in {"flag", "unpush", "take", "settle",
                                                 "sync", "syncTrue", "syncFalse"}
=============================================================================
