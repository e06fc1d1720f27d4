----------------------- MODULE ManagedRuntime_proofs -----------------------
(***************************************************************************)
(* Theorems of ManagedRuntime, for any number of sessions, events and      *)
(* failures and for each of the three hosts: type correctness, the single  *)
(* forwarder, the generation filter, the lifecycle state, resumption and   *)
(* the history that a wake passes on.                                      *)
(*                                                                         *)
(* Five invariants, each inductive relative to the ones before it:         *)
(* TypeInv (types, and where an event in an inbox comes from), FilterInv   *)
(* (tags and generations), LifeInv (which operation can be at which await, *)
(* with or without a session), ResumeInv (what every handle is worth) and  *)
(* ContextInv (who was told the history).                                  *)
(***************************************************************************)
EXTENDS ManagedRuntime, TLAPS

-----------------------------------------------------------------------------
(* Sequences.                                                              *)

\* What is left of a queue when its head is taken.
LEMMA Taken ==
  ASSUME NEW S, NEW q \in Seq(S), q # <<>>
  PROVE  /\ Head(q) \in S /\ Head(q) = q[1] /\ 1 \in 1..Len(q)
         /\ Tail(q) \in Seq(S) /\ Len(Tail(q)) = Len(q) - 1 /\ Len(q) \in Nat
         /\ \A i \in 1..Len(Tail(q)) : i + 1 \in 1..Len(q) /\ Tail(q)[i] = q[i + 1]
  OBVIOUS

\* What is in a queue after an event was added to it.
LEMMA Added ==
  ASSUME NEW S, NEW q \in Seq(S), NEW e \in S
  PROVE  /\ Append(q, e) \in Seq(S)
         /\ Len(Append(q, e)) = Len(q) + 1 /\ Len(q) \in Nat
         /\ \A i \in 1..Len(q) : Append(q, e)[i] = q[i]
         /\ Append(q, e)[Len(q) + 1] = e
  OBVIOUS

-----------------------------------------------------------------------------
(* Type correctness.                                                       *)

\* The type invariant in parts, no action touching more than a few of them.
RuntimeTyped ==
  /\ host \in Hosts
  /\ opened \in 0..MaxSessions /\ session \in {0, opened} /\ generation \in Nat
  /\ forwarder \in [Sessions -> {"none", "running", "aborting"}]
  /\ tag \in [Sessions -> Nat]

EventsTyped ==
  /\ inbox \in [Sessions -> Seq(Events)] /\ queue \in Seq(Events)
  /\ hand \in Events \cup {Nothing}
  /\ sentEvents \in 0..MaxEvents

ServerTyped ==
  /\ alive \subseteq 1..opened
  /\ conv \in [Sessions -> 0..MaxSessions] /\ origin \in Seq(Sessions)
  /\ \A s \in 1..opened : conv[s] \in Sessions

Modes == {"none", "dormant", "connect", "close", "resume", "fresh", "seeded", "apply", "applyFresh"}

OperationTyped ==
  /\ op \in [pc : {"idle", "closing", "connecting", "rehydrating"}, mode : Modes,
             handle : 0..Len(origin), seed : BOOLEAN]
  /\ op.mode \in {"resume", "apply"} <=> op.handle # 0
  /\ op.pc = "rehydrating" => session # 0

ManagerTyped ==
  /\ handle \in 0..Len(origin)
  /\ lifecycle \in {"Dormant", "Connecting", "Rehydrating", "Hot", "Closing"}
  /\ memory \in [handle : 0..Len(origin), young : BOOLEAN]
  /\ failures \in 0..MaxFailures

FlagsTyped == turns \in BOOLEAN /\ late \in BOOLEAN

HistoryTyped ==
  /\ superseded \subseteq Sessions /\ told \subseteq Sessions /\ unfed \subseteq Sessions

\* An event that waits for a forwarder is of its session, and a handle in it was
\* issued in the conversation of that session.
InboxTraced ==
  \A s \in Sessions : \A i \in 1..Len(inbox[s]) :
    LET e == inbox[s][i]
    IN /\ e.from = s /\ s \in 1..opened
       /\ e.handle # 0 => e.handle \in 1..Len(origin) /\ origin[e.handle] = conv[s]

TypeInv ==
  /\ RuntimeTyped /\ EventsTyped /\ ServerTyped
  /\ OperationTyped /\ ManagerTyped /\ HistoryTyped /\ FlagsTyped
  /\ InboxTraced

\* A runtime that was just made is well typed.
LEMMA TypeInit == Init => TypeInv
<1> SUFFICES ASSUME Init PROVE TypeInv
  OBVIOUS
<1>1. RuntimeTyped
  BY BoundsAssumption DEF Init, RuntimeTyped
<1>2. EventsTyped
  BY BoundsAssumption DEF Init, EventsTyped
<1>3. HistoryTyped
  BY DEF Init, HistoryTyped
<1>4. ServerTyped
  BY BoundsAssumption DEF Init, ServerTyped
<1>5. OperationTyped
  BY DEF Init, OperationTyped, Idle, Op, Modes
<1>6. ManagerTyped
  <2>1. Len(origin) = 0
    BY DEF Init
  <2>2. QED
    BY <2>1, BoundsAssumption DEF Init, ManagerTyped
<1>7. FlagsTyped
  BY DEF Init, FlagsTyped
<1>8. InboxTraced
  BY DEF Init, InboxTraced
<1>9. QED
  BY <1>1, <1>2, <1>3, <1>4, <1>5, <1>6, <1>7, <1>8 DEF TypeInv

\* The parts no step of an action touches keep their types.
LEMMA Untouched ==
  ASSUME TypeInv
  PROVE  /\ UNCHANGED <<host, runtimeVars>> => RuntimeTyped'
         /\ UNCHANGED <<inbox, queue, hand, sentEvents>> => EventsTyped'
         /\ UNCHANGED <<opened, alive, conv, origin>> => ServerTyped'
         /\ UNCHANGED <<session, op, origin>> => OperationTyped'
         /\ UNCHANGED <<lifecycle, memory, handle, origin, failures>> => ManagerTyped'
         /\ UNCHANGED <<superseded, told, unfed>> => HistoryTyped'
         /\ UNCHANGED <<turns, late>> => FlagsTyped'
         /\ UNCHANGED <<opened, inbox, conv, origin>> => InboxTraced'
<1> USE DEF TypeInv
<1>1. UNCHANGED <<host, runtimeVars>> => RuntimeTyped'
  BY DEF RuntimeTyped, runtimeVars
<1>2. UNCHANGED <<inbox, queue, hand, sentEvents>> => EventsTyped'
  BY DEF EventsTyped
<1>3. UNCHANGED <<opened, alive, conv, origin>> => ServerTyped'
  BY DEF ServerTyped
<1>4. UNCHANGED <<session, op, origin>> => OperationTyped'
  BY DEF OperationTyped
<1>5. UNCHANGED <<lifecycle, memory, handle, origin, failures>> => ManagerTyped'
  BY DEF ManagerTyped
<1>6. UNCHANGED <<superseded, told, unfed>> => HistoryTyped'
  BY DEF HistoryTyped
<1>7. UNCHANGED <<turns, late>> => FlagsTyped'
  BY DEF FlagsTyped
<1>8. UNCHANGED <<opened, inbox, conv, origin>> => InboxTraced'
  BY DEF InboxTraced
<1>9. QED
  BY <1>1, <1>2, <1>3, <1>4, <1>5, <1>6, <1>7, <1>8

\* Zero, no handle, is always in the range of the handles.
LEMMA NoHandle == TypeInv => Len(origin) \in Nat /\ 0 \in 0..Len(origin)
  BY DEF TypeInv, ServerTyped

\* Any operation that is begun is well typed, if it has a handle exactly when
\* it resumes.
LEMMA OperationBegins ==
  ASSUME TypeInv, UNCHANGED origin,
         NEW pc \in {"idle", "closing", "connecting"}, NEW mode \in Modes,
         NEW h \in 0..Len(origin), NEW seed \in BOOLEAN,
         mode \in {"resume", "apply"} <=> h # 0,
         op' = Op(pc, mode, h, seed)
  PROVE  OperationTyped'
<1>1. op' \in [pc : {"idle", "closing", "connecting", "rehydrating"}, mode : Modes,
               handle : 0..Len(origin), seed : BOOLEAN]
  BY DEF Op
<1>2. op'.pc = pc /\ op'.mode = mode /\ op'.handle = h
  BY DEF Op
<1>3. QED
  BY <1>1, <1>2 DEF OperationTyped

\* So is the end of one.
LEMMA IdleTyped == TypeInv /\ UNCHANGED origin /\ op' = Idle => OperationTyped'
  BY OperationBegins, NoHandle DEF Idle, Modes

\* A fresh connection begins without a handle.
LEMMA FreshTyped ==
  ASSUME TypeInv, UNCHANGED origin, NEW seed \in BOOLEAN, BeginFresh(seed)
  PROVE  OperationTyped' /\ handle' \in 0..Len(origin)
<1>1. FreshMode(seed) \in Modes /\ FreshMode(seed) \notin {"resume", "apply"}
  BY DEF FreshMode, Modes
<1>2. QED
  BY <1>1, OperationBegins, NoHandle DEF BeginFresh

\* The operations of the runtime and the manager keep the types.
LEMMA TypeOperation ==
  ASSUME TypeInv, Operation
  PROVE  TypeInv'
<1> USE DEF TypeInv
<1>0. turns \in BOOLEAN /\ op.seed \in BOOLEAN
  BY DEF FlagsTyped, OperationTyped
<1>1. CASE EnsureHot
  <2>1. RuntimeTyped' /\ EventsTyped' /\ ServerTyped' /\ HistoryTyped' /\ FlagsTyped' /\ InboxTraced'
    BY <1>1, Untouched DEF EnsureHot, runtimeVars, managerVars, serverVars, historyVars
  <2>2. UNCHANGED origin /\ UNCHANGED session
    BY <1>1 DEF EnsureHot, serverVars, runtimeVars
  <2>3. OperationTyped' /\ handle' \in 0..Len(origin)
    <3>1. CASE session # 0
      BY <1>1, <2>2, <3>1 DEF EnsureHot, OperationTyped, ManagerTyped
    <3>2. CASE session = 0 /\ memory.handle # 0 /\ memory.young
      BY <1>0, <1>1, <2>2, <3>2, OperationBegins DEF EnsureHot, Modes, ManagerTyped
    <3>3. CASE BeginFresh(turns)
      BY <1>0, <2>2, <3>3, FreshTyped
    <3>4. QED
      BY <1>1, <3>1, <3>2, <3>3 DEF EnsureHot
  <2>4. ManagerTyped'
    BY <1>1, <2>2, <2>3 DEF EnsureHot, ManagerTyped, WakeState
  <2>5. QED
    BY <2>1, <2>3, <2>4
<1>2. CASE CancelWake
  <2>1. RuntimeTyped' /\ EventsTyped' /\ ServerTyped' /\ ManagerTyped'
         /\ HistoryTyped' /\ FlagsTyped' /\ InboxTraced'
    BY <1>2, Untouched DEF CancelWake, runtimeVars, managerVars, serverVars, historyVars
  <2>2. OperationTyped'
    BY <1>2, IdleTyped DEF CancelWake, serverVars
  <2>3. QED
    BY <2>1, <2>2
<1>3. CASE Rehydrate
  <2>1. RuntimeTyped' /\ EventsTyped' /\ ServerTyped' /\ FlagsTyped' /\ InboxTraced'
    BY <1>3, Untouched DEF Rehydrate, runtimeVars, serverVars
  <2>2. OperationTyped'
    BY <1>3, IdleTyped DEF Rehydrate, serverVars
  <2>3. ManagerTyped'
    BY <1>3 DEF Rehydrate, serverVars, ManagerTyped
  <2>4. conv[session] \in Sessions
    <3>1. session \in 1..opened
      BY <1>3 DEF Rehydrate, OperationTyped, RuntimeTyped
    <3>2. QED
      BY <3>1 DEF ServerTyped
  <2>5. HistoryTyped'
    BY <1>3, <2>4 DEF Rehydrate, HistoryTyped
  <2>6. QED
    BY <2>1, <2>2, <2>3, <2>5
<1>4. CASE EnterDormant
  <2>1. EventsTyped' /\ ServerTyped' /\ HistoryTyped' /\ FlagsTyped' /\ InboxTraced'
    BY <1>4, Untouched DEF EnterDormant, serverVars, historyVars, runtimeVars
  <2>2. RuntimeTyped'
    BY <1>4 DEF EnterDormant, CancelTaskSet, RuntimeTyped, Sessions
  <2>3. OperationTyped'
    <3>1. CASE op' = op /\ session' = session
      BY <1>4, <3>1 DEF EnterDormant, serverVars, OperationTyped
    <3>2. CASE op' = Op("closing", "dormant", 0, FALSE)
      BY <1>4, <3>2, OperationBegins, NoHandle DEF EnterDormant, serverVars, Modes
    <3>3. QED
      BY <1>4, <3>1, <3>2 DEF EnterDormant
  <2>4. ManagerTyped'
    <3>1. memory' \in [handle : 0..Len(origin), young : BOOLEAN]
      <4>1. SyncedMemory \in [handle : 0..Len(origin), young : BOOLEAN]
        BY DEF SyncedMemory, ManagerTyped
      <4>2. QED
        BY <1>4, <4>1 DEF EnterDormant, ManagerTyped
    <3>2. QED
      BY <1>4, <3>1 DEF EnterDormant, serverVars, ManagerTyped
  <2>5. QED
    BY <2>1, <2>2, <2>3, <2>4
<1>5. CASE Connect
  <2>1. EventsTyped' /\ ServerTyped' /\ HistoryTyped' /\ FlagsTyped' /\ InboxTraced'
    BY <1>5, Untouched DEF Connect, serverVars, managerVars, historyVars, runtimeVars
  <2>2. RuntimeTyped'
    BY <1>5 DEF Connect, CancelTaskSet, RuntimeTyped, Sessions
  <2>3. OperationTyped' /\ handle' \in 0..Len(origin)
    <3>1. CASE op' = Op("closing", "connect", 0, FALSE) /\ handle' = handle
      BY <1>5, <3>1, OperationBegins, NoHandle DEF Connect, serverVars, Modes, ManagerTyped
    <3>2. CASE BeginFresh(FALSE)
      BY <1>5, <3>2, FreshTyped DEF Connect, serverVars
    <3>3. QED
      BY <1>5, <3>1, <3>2 DEF Connect
  <2>4. ManagerTyped'
    BY <1>5, <2>3 DEF Connect, serverVars, managerVars, ManagerTyped
  <2>5. QED
    BY <2>1, <2>2, <2>3, <2>4
<1>6. CASE Close
  <2>1. EventsTyped' /\ ServerTyped' /\ ManagerTyped' /\ HistoryTyped' /\ FlagsTyped' /\ InboxTraced'
    BY <1>6, Untouched DEF Close, serverVars, managerVars, historyVars, runtimeVars
  <2>2. RuntimeTyped'
    BY <1>6 DEF Close, CancelTaskSet, RuntimeTyped, Sessions
  <2>3. OperationTyped'
    BY <1>6, OperationBegins, NoHandle DEF Close, serverVars, Modes
  <2>4. QED
    BY <2>1, <2>2, <2>3
<1>7. CASE FinishClose
  <2>1. RuntimeTyped' /\ EventsTyped' /\ ServerTyped' /\ HistoryTyped' /\ FlagsTyped' /\ InboxTraced'
    BY <1>7, Untouched DEF FinishClose, runtimeVars, serverVars, managerVars, historyVars
  <2>2. OperationTyped' /\ handle' \in 0..Len(origin)
    <3>1. CASE BeginFresh(FALSE)
      BY <1>7, <3>1, FreshTyped DEF FinishClose, serverVars
    <3>2. CASE handle' = 0 /\ op' = Idle
      BY <1>7, <3>2, IdleTyped, NoHandle DEF FinishClose, serverVars
    <3>3. QED
      BY <1>7, <3>1, <3>2 DEF FinishClose
  <2>3. ManagerTyped'
    BY <1>7, <2>2 DEF FinishClose, serverVars, ManagerTyped
  <2>4. QED
    BY <2>1, <2>2, <2>3
<1>8. CASE Apply
  <2>1. RuntimeTyped' /\ EventsTyped' /\ ServerTyped' /\ ManagerTyped'
         /\ HistoryTyped' /\ FlagsTyped' /\ InboxTraced'
    BY <1>8, Untouched DEF Apply, runtimeVars, serverVars, managerVars, historyVars
  <2>2. OperationTyped'
    BY <1>8, OperationBegins DEF Apply, MayApply, serverVars, Modes, ManagerTyped
  <2>3. QED
    BY <2>1, <2>2
<1>9. CASE ApplyFresh
  <2>1. RuntimeTyped' /\ EventsTyped' /\ ServerTyped' /\ ManagerTyped'
         /\ HistoryTyped' /\ FlagsTyped' /\ InboxTraced'
    BY <1>9, Untouched DEF ApplyFresh, runtimeVars, serverVars, managerVars, historyVars
  <2>2. OperationTyped'
    BY <1>9, OperationBegins, NoHandle DEF ApplyFresh, serverVars, Modes
  <2>3. QED
    BY <2>1, <2>2
<1>10. CASE ConnectSucceeds
  <2>1. EventsTyped' /\ FlagsTyped'
    BY <1>10, Untouched DEF ConnectSucceeds
  <2>2. opened + 1 \in Sessions /\ opened' = opened + 1 /\ session' = opened + 1 /\ origin' = origin
    BY <1>10, BoundsAssumption DEF ConnectSucceeds, RuntimeTyped, Sessions
  <2>3. RuntimeTyped'
    <3>1. CancelTaskSet \in [Sessions -> {"none", "running", "aborting"}]
      BY DEF CancelTaskSet, RuntimeTyped
    <3>2. NextGeneration \in Nat
      BY DEF NextGeneration, RuntimeTyped
    <3>3. QED
      BY <1>10, <2>2, <3>1, <3>2 DEF ConnectSucceeds, SpawnTag, RuntimeTyped, Sessions
  <2>4. ServerTyped'
    <3>1. PICK c \in Sessions : conv' = [conv EXCEPT ![opened + 1] = c]
      <4>1. op.handle # 0 => origin[op.handle] \in Sessions
        BY DEF OperationTyped, ServerTyped
      <4>2. QED
        BY <1>10, <2>2, <4>1 DEF ConnectSucceeds
    <3>2. alive' = alive \cup {opened + 1}
      BY <1>10 DEF ConnectSucceeds
    <3>3. QED
      BY <2>2, <3>1, <3>2 DEF ServerTyped, RuntimeTyped, Sessions
  <2>5. OperationTyped'
    <3>1. CASE op' = Idle
      BY <2>2, <3>1, IdleTyped
    <3>2. CASE op' = [op EXCEPT !.pc = "rehydrating"]
      <4>1. session' # 0
        BY <2>2 DEF Sessions
      <4>2. QED
        BY <2>2, <3>2, <4>1 DEF OperationTyped
    <3>3. QED
      BY <1>10, <3>1, <3>2 DEF ConnectSucceeds
  <2>6. ManagerTyped'
    <3>1. handle' \in 0..Len(origin)
      BY <1>10, NoHandle DEF ConnectSucceeds, ManagerTyped
    <3>2. QED
      BY <1>10, <3>1 DEF ConnectSucceeds, ManagerTyped
  <2>7. HistoryTyped'
    <3>1. superseded' \subseteq superseded \cup ({session} \ {0}) /\ told' \subseteq told \cup {opened + 1}
      BY <1>10 DEF ConnectSucceeds
    <3>2. {session} \ {0} \subseteq Sessions
      BY DEF RuntimeTyped, Sessions
    <3>3. QED
      BY <1>10, <2>2, <3>1, <3>2 DEF ConnectSucceeds, HistoryTyped
  <2>8. InboxTraced'
    <3>1. inbox' = inbox /\ \A s \in 1..opened : s \in 1..opened' /\ conv'[s] = conv[s]
      BY <1>10, <2>2 DEF ConnectSucceeds, ServerTyped, RuntimeTyped, Sessions
    <3>2. QED
      BY <2>2, <3>1 DEF InboxTraced
  <2>9. QED
    BY <2>1, <2>3, <2>4, <2>5, <2>6, <2>7, <2>8
<1>11. CASE ConnectFails
  <2>1. RuntimeTyped' /\ EventsTyped' /\ ServerTyped' /\ HistoryTyped' /\ FlagsTyped' /\ InboxTraced'
    BY <1>11, Untouched DEF ConnectFails, runtimeVars, serverVars, historyVars
  <2>2. /\ OperationTyped' /\ handle' \in 0..Len(origin)
        /\ memory' \in [handle : 0..Len(origin), young : BOOLEAN]
    <3>1. CASE memory' = MemoryCleared /\ BeginFresh(Fallback)
      BY <1>0, <1>11, <3>1, FreshTyped, NoHandle DEF ConnectFails, serverVars, Fallback, MemoryCleared
    <3>2. CASE op' = Idle /\ UNCHANGED <<memory, handle>>
      BY <1>11, <3>2, IdleTyped DEF ConnectFails, serverVars, ManagerTyped
    <3>3. QED
      BY <1>11, <3>1, <3>2 DEF ConnectFails
  <2>3. ManagerTyped'
    BY <1>11, <2>2, BoundsAssumption DEF ConnectFails, serverVars, ManagerTyped
  <2>4. QED
    BY <2>1, <2>2, <2>3
<1>12. QED
  BY <1>1, <1>2, <1>3, <1>4, <1>5, <1>6, <1>7, <1>8, <1>9, <1>10, <1>11 DEF Operation

\* An event sent to a forwarder is well typed and traced.
LEMMA SentTyped ==
  ASSUME TypeInv, NEW s \in alive, NEW e \in Events, sentEvents < MaxEvents,
         sentEvents' = sentEvents + 1, inbox' = [inbox EXCEPT ![s] = Append(@, e)],
         UNCHANGED <<queue, hand, opened, conv>>,
         e.from = s,
         e.handle # 0 => e.handle \in 1..Len(origin') /\ origin'[e.handle] = conv[s],
         \A h \in 1..Len(origin) : h \in 1..Len(origin') /\ origin'[h] = origin[h]
  PROVE  EventsTyped' /\ InboxTraced'
<1>1. s \in 1..opened /\ s \in Sessions
  BY BoundsAssumption DEF TypeInv, ServerTyped, RuntimeTyped, Sessions
<1>2. inbox[s] \in Seq(Events) /\ Append(inbox[s], e) \in Seq(Events)
  BY <1>1, Added DEF TypeInv, EventsTyped
<1>3. EventsTyped'
  BY <1>1, <1>2, BoundsAssumption DEF TypeInv, EventsTyped
<1>4. ASSUME NEW r \in Sessions, NEW i \in 1..Len(inbox'[r])
      PROVE  LET d == inbox'[r][i]
             IN /\ d.from = r /\ r \in 1..opened'
                /\ d.handle # 0 => d.handle \in 1..Len(origin') /\ origin'[d.handle] = conv'[r]
  <2>1. inbox'[r] = IF r = s THEN Append(inbox[s], e) ELSE inbox[r]
    BY <1>1 DEF TypeInv, EventsTyped
  <2>2. CASE i \in 1..Len(inbox[r]) /\ inbox'[r][i] = inbox[r][i]
    BY <2>2, SMTT(30) DEF TypeInv, InboxTraced
  <2>3. CASE r = s /\ inbox'[r][i] = e
    BY <1>1, <2>3
  <2>4. QED
    BY <1>2, <2>1, <2>2, <2>3, Added
<1>5. QED
  BY <1>3, <1>4 DEF InboxTraced

\* The server, the forwarders and the host keep the types.
LEMMA TypeEvents ==
  ASSUME TypeInv, Next, ~Operation
  PROVE  TypeInv'
<1> USE DEF TypeInv
<1>1. ASSUME NEW s \in Sessions, Publish(s) PROVE TypeInv'
  <2>1. RuntimeTyped' /\ HistoryTyped' /\ FlagsTyped'
    BY <1>1, Untouched DEF Publish, managerVars, historyVars
  <2>2. CASE origin' = origin /\ \E kind \in {"turn", "update"} :
                inbox' = [inbox EXCEPT ![s] = Append(@, Event(kind, s, 0))]
    <3>1. PICK kind \in {"turn", "update"} : inbox' = [inbox EXCEPT ![s] = Append(@, Event(kind, s, 0))]
      BY <2>2
    <3>2. Event(kind, s, 0) \in Events /\ Event(kind, s, 0).from = s /\ Event(kind, s, 0).handle = 0
      BY DEF Event, Events
    <3>3. EventsTyped' /\ InboxTraced'
      BY <1>1, <2>2, <3>1, <3>2, SentTyped DEF Publish, runtimeVars
    <3>4. ServerTyped' /\ OperationTyped' /\ ManagerTyped'
      BY <1>1, <2>2, Untouched DEF Publish, managerVars, runtimeVars
    <3>5. QED
      BY <2>1, <3>3, <3>4
  <2>3. CASE /\ origin' = Append(origin, conv[s])
             /\ inbox' = [inbox EXCEPT ![s] = Append(@, Event("update", s, Len(origin) + 1))]
    <3>1. conv[s] \in Sessions
      BY <1>1 DEF Publish, ServerTyped
    <3>2. origin' \in Seq(Sessions) /\ Len(origin') = Len(origin) + 1 /\ Len(origin) \in Nat
      BY <2>3, <3>1, Added DEF ServerTyped
    <3>3. /\ Event("update", s, Len(origin) + 1) \in Events
          /\ Event("update", s, Len(origin) + 1).from = s
          /\ Event("update", s, Len(origin) + 1).handle = Len(origin')
      BY <3>2 DEF Event, Events
    <3>4. /\ origin'[Len(origin')] = conv[s] /\ Len(origin') \in 1..Len(origin')
          /\ \A h \in 1..Len(origin) : h \in 1..Len(origin') /\ origin'[h] = origin[h]
      BY <2>3, <3>1, <3>2, Added DEF ServerTyped
    <3>5. EventsTyped' /\ InboxTraced'
      BY <1>1, <2>3, <3>3, <3>4, SentTyped DEF Publish, runtimeVars
    <3>6. ServerTyped'
      BY <1>1, <3>2 DEF Publish, ServerTyped, runtimeVars
    <3>7. 0..Len(origin) \subseteq 0..Len(origin')
      BY <3>2
    <3>8. OperationTyped'
      BY <1>1, <3>7 DEF Publish, OperationTyped, runtimeVars
    <3>9. ManagerTyped'
      BY <1>1, <3>7 DEF Publish, ManagerTyped, managerVars
    <3>10. QED
      BY <2>1, <3>5, <3>6, <3>8, <3>9
  <2>4. QED
    BY <1>1, <2>2, <2>3 DEF Publish
<1>2. ASSUME NEW s \in Sessions, SessionEnds(s) PROVE TypeInv'
  <2>1. RuntimeTyped' /\ OperationTyped' /\ ManagerTyped' /\ HistoryTyped' /\ FlagsTyped'
    BY <1>2, Untouched DEF SessionEnds, managerVars, historyVars, runtimeVars
  <2>2. /\ Event("closed", s, 0) \in Events
        /\ Event("closed", s, 0).from = s /\ Event("closed", s, 0).handle = 0
    BY DEF Event, Events
  <2>3. EventsTyped' /\ InboxTraced'
    BY <1>2, <2>2, SentTyped DEF SessionEnds, runtimeVars
  <2>4. ServerTyped'
    BY <1>2 DEF SessionEnds, ServerTyped, runtimeVars
  <2>5. QED
    BY <2>1, <2>3, <2>4
<1>3. ASSUME NEW s \in Sessions, Forward(s) PROVE TypeInv'
  <2>1. RuntimeTyped' /\ ServerTyped' /\ OperationTyped' /\ HistoryTyped'
    BY <1>3, Untouched DEF Forward, managerVars, runtimeVars
  <2>2. Head(inbox[s]) \in Events /\ Tail(inbox[s]) \in Seq(Events)
    BY <1>3, Taken DEF Forward, EventsTyped
  <2>3. EventsTyped'
    <3>1. [Head(inbox[s]) EXCEPT !.gen = tag[s]] \in Events
      BY <2>2 DEF Events, RuntimeTyped
    <3>2. queue' \in Seq(Events)
      BY <1>3, <3>1, Added DEF Forward, EventsTyped
    <3>3. QED
      BY <1>3, <2>2, <3>2 DEF Forward, EventsTyped
  <2>4. FlagsTyped'
    BY <1>3 DEF Forward, FlagsTyped, managerVars
  <2>5. ManagerTyped'
    <3>1. Head(inbox[s]).handle \in 0..Len(origin)
      <4>1. inbox[s] # <<>> /\ inbox[s] \in Seq(Events)
        BY <1>3 DEF Forward, EventsTyped
      <4>2. QED
        BY <4>1, Taken, NoHandle DEF InboxTraced
    <3>2. handle' \in 0..Len(origin)
      BY <1>3, <3>1 DEF Forward, ManagerTyped
    <3>3. QED
      BY <1>3, <3>2 DEF Forward, ManagerTyped, managerVars
  <2>6. InboxTraced'
    <3>1. inbox[s] # <<>> /\ inbox[s] \in Seq(Events) /\ inbox' = [inbox EXCEPT ![s] = Tail(@)]
      BY <1>3 DEF Forward, EventsTyped
    <3>2. UNCHANGED <<opened, conv, origin>>
      BY <1>3 DEF Forward, runtimeVars
    <3>3. \A r \in Sessions : \A i \in 1..Len(inbox'[r]) :
             \E j \in 1..Len(inbox[r]) : inbox'[r][i] = inbox[r][j]
      BY <3>1, Taken DEF EventsTyped
    <3>4. QED
      BY <3>2, <3>3 DEF InboxTraced
  <2>7. QED
    BY <2>1, <2>3, <2>4, <2>5, <2>6
<1>4. CASE Receive
  <2>1. RuntimeTyped' /\ ServerTyped' /\ OperationTyped' /\ ManagerTyped'
         /\ HistoryTyped' /\ FlagsTyped' /\ InboxTraced'
    BY <1>4, Untouched DEF Receive, managerVars, runtimeVars, serverVars, historyVars
  <2>2. Head(queue) \in Events /\ Tail(queue) \in Seq(Events)
    BY <1>4, Taken DEF Receive, EventsTyped
  <2>3. EventsTyped'
    BY <1>4, <2>2 DEF Receive, EventsTyped, serverVars
  <2>4. QED
    BY <2>1, <2>3
<1>5. CASE Handle
  <2>1. RuntimeTyped' /\ ServerTyped' /\ OperationTyped' /\ HistoryTyped' /\ InboxTraced'
    BY <1>5, Untouched DEF Handle, runtimeVars, serverVars, historyVars
  <2>2. EventsTyped'
    BY <1>5 DEF Handle, EventsTyped, serverVars
  <2>3. FlagsTyped'
    BY <1>5 DEF Handle, FlagsTyped, historyVars
  <2>4. ManagerTyped'
    <3>1. memory' \in [handle : 0..Len(origin), young : BOOLEAN]
      BY <1>5 DEF Handle, SyncedMemory, ManagerTyped
    <3>2. QED
      BY <1>5, <3>1 DEF Handle, serverVars, ManagerTyped
  <2>5. QED
    BY <2>1, <2>2, <2>3, <2>4
<1>6. CASE HandleAges
  <2>1. RuntimeTyped' /\ EventsTyped' /\ ServerTyped' /\ OperationTyped'
         /\ HistoryTyped' /\ FlagsTyped' /\ InboxTraced'
    BY <1>6, Untouched DEF HandleAges, runtimeVars, serverVars, historyVars
  <2>2. ManagerTyped'
    BY <1>6 DEF HandleAges, serverVars, ManagerTyped
  <2>3. QED
    BY <2>1, <2>2
<1>7. QED
  BY <1>1, <1>2, <1>3, <1>4, <1>5, <1>6 DEF Next

\* Every step keeps the types.
LEMMA TypeStep == TypeInv /\ [Next]_vars => TypeInv'
<1> SUFFICES ASSUME TypeInv, [Next]_vars PROVE TypeInv'
  OBVIOUS
<1>1. CASE UNCHANGED vars
  BY <1>1, Untouched DEF vars, runtimeVars, managerVars, serverVars, historyVars, TypeInv
<1>2. CASE Operation
  BY <1>2, TypeOperation
<1>3. CASE Next /\ ~Operation
  BY <1>3, TypeEvents
<1>4. QED
  BY <1>1, <1>2, <1>3

\* The type invariant with what it needs to be inductive.
LEMMA TypesAlways == Spec => []TypeInv
  BY TypeInit, TypeStep, PTL DEF Spec

\* It implies the invariant that TLC checks.
LEMMA TypesImply == TypeInv => TypeOK
<1> SUFFICES ASSUME TypeInv PROVE TypeOK
  OBVIOUS
<1>1. RuntimeTyped /\ EventsTyped /\ ServerTyped /\ HistoryTyped
  BY DEF TypeInv
<1>2. /\ op \in [pc : {"idle", "closing", "connecting", "rehydrating"},
                 mode : {"none", "dormant", "connect", "close", "resume", "fresh", "seeded", "apply",
                         "applyFresh"},
                 handle : 0..Len(origin), seed : BOOLEAN]
      /\ op.mode \in {"resume", "apply"} <=> op.handle # 0
  BY DEF TypeInv, OperationTyped, Modes
<1>3. ManagerTyped
  BY DEF TypeInv
<1>4. turns \in BOOLEAN /\ late \in BOOLEAN
  BY DEF TypeInv, FlagsTyped
<1>5. QED
  BY <1>1, <1>2, <1>3, <1>4, Zenon
     DEF TypeOK, RuntimeTyped, EventsTyped, ServerTyped, HistoryTyped, ManagerTyped

\* Type correctness: every operation of the runtime and the manager, every event
\* and every host keeps the state well typed, and only a resumption has a handle.
THEOREM TypeCorrect == Spec => []TypeOK
  BY TypesAlways, TypesImply, PTL

-----------------------------------------------------------------------------
(* The generation filter.                                                  *)

\* An event on its way to the host has the tag of its forwarder.
QueueTagged ==
  \A i \in 1..Len(queue) : /\ queue[i].from \in 1..opened
                           /\ queue[i].gen = tag[queue[i].from]

\* Only sessions that were connected have forwarders.
ForwardersOpened == \A s \in Sessions : forwarder[s] # "none" => s \in 1..opened

\* The tag of a replaced session is below the counter.
SupersededBefore ==
  \A s \in superseded : s \in 1..opened /\ s # session /\ tag[s] < generation

FilterInv == QueueTagged /\ OneForwarder /\ ForwardersOpened /\ SupersededBefore

\* No session, no event: nothing to filter.
LEMMA FilterInit == Init => FilterInv
  BY DEF Init, FilterInv, QueueTagged, OneForwarder, ForwardersOpened, SupersededBefore, Sessions

\* The steps that take the installed session away.
LEMMA FilterWithoutSession ==
  ASSUME TypeInv, FilterInv, forwarder' = CancelTaskSet, session' = 0,
         UNCHANGED <<opened, generation, tag, queue, superseded>>
  PROVE  FilterInv'
<1>1. QueueTagged'
  BY DEF FilterInv, QueueTagged
<1>2. OneForwarder'
  BY DEF FilterInv, OneForwarder, CancelTaskSet, TypeInv, RuntimeTyped, Sessions
<1>3. ForwardersOpened'
  BY DEF FilterInv, ForwardersOpened, OneForwarder, CancelTaskSet, TypeInv, RuntimeTyped, Sessions
<1>4. SupersededBefore'
  BY DEF FilterInv, SupersededBefore, TypeInv, RuntimeTyped
<1>5. QED
  BY <1>1, <1>2, <1>3, <1>4 DEF FilterInv

\* The facts about a connection that the proofs below share.
LEMMA Connected ==
  ASSUME TypeInv, ConnectSucceeds
  PROVE  /\ opened + 1 \in Sessions /\ opened' = opened + 1 /\ session' = opened + 1
         /\ opened + 1 # session /\ opened + 1 \notin 1..opened
         /\ 1..opened' = 1..opened \cup {opened + 1}
         /\ \A s \in Sessions : s # opened + 1 => conv'[s] = conv[s] /\ tag'[s] = tag[s]
         /\ conv'[opened + 1] = IF op.handle # 0 THEN origin[op.handle] ELSE opened + 1
         /\ tag'[opened + 1] = generation' /\ generation' = NextGeneration
         /\ forwarder'[opened + 1] = "running"
         /\ \A s \in Sessions : s # opened + 1 => forwarder'[s] = CancelTaskSet[s]
<1>1. opened \in Nat /\ opened + 1 \in Sessions /\ opened' = opened + 1 /\ session' = opened + 1
  BY BoundsAssumption DEF TypeInv, RuntimeTyped, ConnectSucceeds, Sessions
<1>2. CancelTaskSet \in [Sessions -> {"none", "running", "aborting"}]
  BY DEF TypeInv, RuntimeTyped, CancelTaskSet
<1>3. QED
  BY <1>1, <1>2 DEF TypeInv, RuntimeTyped, ServerTyped, ConnectSucceeds, SpawnTag

\* A session that is connected, replacing another or not, has the current
\* generation; one it replaces has an older one.
LEMMA FilterConnect ==
  ASSUME TypeInv, FilterInv, ConnectSucceeds
  PROVE  FilterInv'
<1> DEFINE new == opened + 1
<1>1. \A s \in 1..opened : s \in Sessions /\ s # new /\ s \in 1..opened' /\ tag'[s] = tag[s]
  BY Connected, BoundsAssumption DEF TypeInv, RuntimeTyped, Sessions
<1>2. queue' = queue /\ superseded' = IF Replaces THEN superseded \cup ({session} \ {0}) ELSE superseded
  BY DEF ConnectSucceeds
<1>3. QueueTagged'
  BY <1>1, <1>2 DEF FilterInv, QueueTagged
<1>4. OneForwarder'
  <2>1. \A s \in Sessions : s # new => forwarder'[s] # "running"
    BY Connected DEF FilterInv, OneForwarder, CancelTaskSet, TypeInv, RuntimeTyped, Sessions
  <2>2. QED
    BY <2>1, Connected DEF OneForwarder
<1>5. ForwardersOpened'
  <2>1. \A s \in Sessions : CancelTaskSet[s] # "none" => forwarder[s] # "none" \/ s = session
    BY DEF CancelTaskSet, TypeInv, RuntimeTyped
  <2>2. \A s \in Sessions : s = session => s \in 1..opened
    BY DEF TypeInv, RuntimeTyped, Sessions
  <2>3. QED
    BY <2>1, <2>2, Connected DEF FilterInv, ForwardersOpened
<1>6. SupersededBefore'
  <2>1. ASSUME NEW s \in superseded PROVE s \in 1..opened' /\ s # session' /\ tag'[s] < generation'
    <3>1. s \in 1..opened /\ tag[s] < generation
      BY DEF FilterInv, SupersededBefore
    <3>2. tag[s] \in Nat /\ generation \in Nat /\ generation <= generation'
      BY <1>1, <3>1, Connected DEF TypeInv, RuntimeTyped, NextGeneration
    <3>3. generation' \in Nat
      BY Connected DEF TypeInv, RuntimeTyped, NextGeneration
    <3>4. QED
      BY <1>1, <3>1, <3>2, <3>3, Connected
  <2>2. ASSUME Replaces, session # 0
        PROVE  session \in 1..opened' /\ session # session' /\ tag'[session] < generation'
    <3>1. session \in 1..opened /\ tag[session] = generation /\ generation \in Nat
      BY <2>2 DEF FilterInv, OneForwarder, TypeInv, RuntimeTyped
    <3>2. generation' = generation + 1
      BY <2>2, Connected DEF NextGeneration
    <3>3. QED
      BY <1>1, <3>1, <3>2, Connected
  <2>3. QED
    BY <1>2, <2>1, <2>2 DEF SupersededBefore
<1>7. QED
  BY <1>3, <1>4, <1>5, <1>6 DEF FilterInv

\* The other steps leave tags and generation alone; a forwarder adds its tag.
LEMMA FilterStep == TypeInv /\ FilterInv /\ [Next]_vars => FilterInv'
<1> SUFFICES ASSUME TypeInv, FilterInv, [Next]_vars PROVE FilterInv'
  OBVIOUS
<1>1. CASE UNCHANGED <<runtimeVars, queue, superseded>>
  BY <1>1 DEF FilterInv, QueueTagged, OneForwarder, ForwardersOpened, SupersededBefore, runtimeVars
<1>2. CASE EnterDormant \/ Connect \/ Close
  <2>1. CASE forwarder' = CancelTaskSet /\ session' = 0
    BY <1>2, <2>1, FilterWithoutSession DEF EnterDormant, Connect, Close, historyVars
  <2>2. CASE UNCHANGED <<forwarder, session>>
    BY <1>1, <1>2, <2>2 DEF EnterDormant, Connect, Close, historyVars, runtimeVars
  <2>3. QED
    BY <1>2, <2>1, <2>2 DEF EnterDormant, Connect, Close
<1>3. CASE ConnectSucceeds
  BY <1>3, FilterConnect
<1>4. ASSUME NEW s \in Sessions, Forward(s) PROVE FilterInv'
  <2> DEFINE e == [Head(inbox[s]) EXCEPT !.gen = tag[s]]
  <2>1. /\ Head(inbox[s]) \in Events /\ Head(inbox[s]).from = s /\ s \in 1..opened
    BY <1>4, Taken DEF Forward, TypeInv, EventsTyped, InboxTraced
  <2>2. e \in Events /\ e.from = s /\ e.gen = tag[s]
    BY <2>1 DEF Events, TypeInv, RuntimeTyped
  <2>3. queue' = Append(queue, e) /\ UNCHANGED <<runtimeVars, superseded>>
    BY <1>4 DEF Forward
  <2>4. QueueTagged'
    BY <2>1, <2>2, <2>3, Added DEF FilterInv, QueueTagged, TypeInv, EventsTyped, runtimeVars
  <2>5. QED
    BY <2>3, <2>4 DEF FilterInv, OneForwarder, ForwardersOpened, SupersededBefore, runtimeVars
<1>5. CASE Receive
  <2>1. queue # <<>> /\ queue' = Tail(queue) /\ UNCHANGED <<runtimeVars, superseded>>
    BY <1>5 DEF Receive, historyVars
  <2>2. QueueTagged'
    BY <2>1, Taken DEF FilterInv, QueueTagged, TypeInv, EventsTyped, runtimeVars
  <2>3. QED
    BY <2>1, <2>2 DEF FilterInv, OneForwarder, ForwardersOpened, SupersededBefore, runtimeVars
<1>6. CASE EnsureHot \/ CancelWake \/ Rehydrate \/ FinishClose \/ Apply \/ ApplyFresh \/ ConnectFails
  BY <1>1, <1>6 DEF EnsureHot, CancelWake, Rehydrate, FinishClose, Apply,
              ApplyFresh, ConnectFails, historyVars
<1>7. ASSUME NEW s \in Sessions, Publish(s) \/ SessionEnds(s) PROVE FilterInv'
  BY <1>1, <1>7 DEF Publish, SessionEnds, historyVars
<1>8. CASE Handle \/ HandleAges
  BY <1>1, <1>8 DEF Handle, HandleAges, historyVars
<1>9. CASE UNCHANGED vars
  BY <1>1, <1>9 DEF vars, historyVars
<1>10. QED
  BY <1>2, <1>3, <1>4, <1>5, <1>6, <1>7, <1>8, <1>9 DEF Next, Operation

\* So tags and generation always agree.
LEMMA FilterAlways == Spec => [](TypeInv /\ FilterInv)
<1>1. Init => TypeInv /\ FilterInv
  BY TypeInit, FilterInit
<1>2. TypeInv /\ FilterInv /\ [Next]_vars => TypeInv' /\ FilterInv'
  BY TypeStep, FilterStep
<1>3. QED
  BY <1>1, <1>2, PTL DEF Spec

\* What recv decides about the first event in the queue.
LEMMA FilterDecides ==
  ASSUME TypeInv, FilterInv, queue # <<>>
  PROVE  LET e == Head(queue)
         IN IF Passes(e) THEN e.kind = "closed" \/ e.from \notin superseded
                         ELSE e.from # session
<1>1. Head(queue) = queue[1] /\ 1 \in 1..Len(queue)
  BY Taken DEF TypeInv, EventsTyped
<1>2. Head(queue).from \in 1..opened /\ Head(queue).gen = tag[Head(queue).from]
  BY <1>1 DEF FilterInv, QueueTagged
<1>3. Head(queue).from \in superseded => Head(queue).gen # generation
  BY <1>2, BoundsAssumption DEF FilterInv, SupersededBefore, TypeInv, RuntimeTyped, Sessions
<1>4. Head(queue).from = session => Head(queue).gen = generation
  BY <1>2 DEF FilterInv, OneForwarder
<1>5. QED
  BY <1>3, <1>4 DEF Passes

\* At every await of connect, apply, apply_fresh, close and the manager's
\* operations, exactly the installed session has a forwarder that is not aborted.
THEOREM OneLiveForwarder == Spec => []OneForwarder
<1>1. FilterInv => OneForwarder
  BY DEF FilterInv
<1>2. QED
  BY <1>1, FilterAlways, PTL

\* RuntimeEventReceiver::recv lets no event of a session that apply replaced pass,
\* except that it ended, and drops none of the installed session.
THEOREM ExactFilter == Spec => FilterIsExact
<1>1. TypeInv /\ FilterInv =>
        [queue # <<>> /\ queue' = Tail(queue) =>
           LET e == Head(queue)
           IN IF Passes(e) THEN e.kind = "closed" \/ e.from \notin superseded
                           ELSE e.from # session]_vars
  BY FilterDecides
<1>2. QED
  BY <1>1, FilterAlways, PTL DEF FilterIsExact

-----------------------------------------------------------------------------
(* The lifecycle state.                                                    *)

\* Which operation may have reached which await, and whether there is a session.
OperationModes ==
  /\ op.pc = "idle" => op = Idle
  /\ op.pc = "closing" => /\ session = 0
                          /\ op.mode \in (IF Managed THEN {"dormant"} ELSE {"connect", "close"})
  /\ op.pc = "connecting" =>
       /\ op.mode \in (IF Managed THEN {"resume", "fresh", "seeded", "apply"} ELSE {"fresh", "applyFresh"})
       /\ op.mode \in {"resume", "fresh", "seeded"} => session = 0
       /\ op.mode = "apply" => session # 0
  /\ op.pc = "rehydrating" => Managed /\ op.mode = "seeded"

\* LifecycleAgrees, at every await.
LifecycleFollows ==
  Managed =>
    /\ lifecycle = "Dormant" => session = 0
    /\ lifecycle = "Hot" => session # 0
    /\ lifecycle = "Closing" => op.pc = "closing"

LifeInv == OperationModes /\ LifecycleFollows

\* The manager begins dormant and idle.
LEMMA LifeInit == Init => LifeInv
  BY DEF Init, LifeInv, OperationModes, LifecycleFollows, Idle, Op

\* Beginning a fresh connection, without a session.
LEMMA FreshModes ==
  ASSUME NEW seed \in BOOLEAN, BeginFresh(seed), session' = 0, host' = host, Managed \/ ~seed
  PROVE  OperationModes' /\ op'.pc = "connecting"
<1>1. op'.pc = "connecting" /\ op'.mode = FreshMode(seed)
  BY DEF BeginFresh, Op
<1>2. FreshMode(seed) = IF seed THEN "seeded" ELSE "fresh"
  BY DEF FreshMode
<1>3. QED
  BY <1>1, <1>2 DEF OperationModes, Managed

\* The end of an operation.
LEMMA IdleModes == op' = Idle => OperationModes' /\ op'.pc = "idle"
  BY DEF OperationModes, Idle, Op

\* Every operation announces the state it is in before its next await.
LEMMA LifeOperation ==
  ASSUME TypeInv, LifeInv, Operation
  PROVE  LifeInv'
<1>0. /\ turns \in BOOLEAN /\ op.seed \in BOOLEAN /\ host' = host
      /\ op \in [pc : {"idle", "closing", "connecting", "rehydrating"}, mode : Modes,
                 handle : 0..Len(origin), seed : BOOLEAN]
  BY DEF TypeInv, FlagsTyped, OperationTyped, Operation, EnsureHot, CancelWake, Rehydrate, EnterDormant,
         Connect, Close, FinishClose, Apply, ApplyFresh, ConnectSucceeds, ConnectFails
<1>m. OperationModes /\ LifecycleFollows /\ Idle.pc = "idle"
  BY DEF LifeInv, Idle, Op
<1>1. CASE EnsureHot
  <2>1. Managed /\ op = Idle /\ session' = session
    BY <1>1 DEF EnsureHot, runtimeVars
  <2>2. CASE session # 0
    BY <1>1, <1>0, <1>m, <2>1, <2>2 DEF EnsureHot, LifeInv, OperationModes, LifecycleFollows, Managed
  <2>3. CASE session = 0
    <3>1. OperationModes'
      <4>1. CASE op' = Op("connecting", "resume", memory.handle, turns)
        BY <1>0, <2>1, <2>3, <4>1 DEF OperationModes, Op, Managed
      <4>2. CASE BeginFresh(turns)
        BY <1>0, <2>1, <2>3, <4>2, FreshModes
      <4>3. QED
        BY <1>1, <2>3, <4>1, <4>2 DEF EnsureHot
    <3>2. LifecycleFollows'
      BY <1>1, <2>3 DEF EnsureHot, WakeState, LifecycleFollows
    <3>3. QED
      BY <3>1, <3>2 DEF LifeInv
  <2>4. QED
    BY <2>2, <2>3
<1>2. CASE CancelWake
  BY <1>0, <1>2, <1>m, IdleModes DEF CancelWake, LifeInv, LifecycleFollows, Managed, runtimeVars, managerVars
<1>3. CASE Rehydrate
  <2>1. session \in alive => session # 0
    BY DEF TypeInv, ServerTyped, RuntimeTyped
  <2>2. QED
    BY <1>0, <1>3, <1>m, <2>1, IdleModes DEF Rehydrate, LifeInv, LifecycleFollows, Managed, runtimeVars
<1>4. CASE EnterDormant
  <2>1. CASE session = 0
    BY <1>0, <1>4, <1>m, <2>1 DEF EnterDormant, LifeInv, LifecycleFollows, OperationModes, Managed
  <2>2. CASE session # 0
    <3>1. op'.pc = "closing" /\ op'.mode = "dormant" /\ session' = 0 /\ lifecycle' = "Closing" /\ Managed
      BY <1>4, <2>2 DEF EnterDormant, Op
    <3>2. QED
      BY <1>0, <3>1 DEF LifeInv, LifecycleFollows, OperationModes, Managed
  <2>3. QED
    BY <2>1, <2>2
<1>5. CASE Connect
  <2>1. ~Managed /\ ~Managed' /\ session' = 0
    BY <1>0, <1>5 DEF Connect, Managed
  <2>2. OperationModes'
    <3>1. CASE op' = Op("closing", "connect", 0, FALSE)
      BY <2>1, <3>1 DEF OperationModes, Op
    <3>2. CASE BeginFresh(FALSE)
      BY <1>0, <2>1, <3>2, FreshModes
    <3>3. QED
      BY <1>5, <3>1, <3>2 DEF Connect
  <2>3. QED
    BY <2>1, <2>2 DEF LifeInv, LifecycleFollows
<1>6. CASE Close
  <2>1. ~Managed' /\ session' = 0 /\ op'.pc = "closing" /\ op'.mode = "close"
    BY <1>0, <1>6 DEF Close, Managed, Op
  <2>2. QED
    BY <2>1 DEF LifeInv, LifecycleFollows, OperationModes
<1>7. CASE FinishClose
  <2>1. session = 0 /\ session' = 0 /\ op.mode \in (IF Managed THEN {"dormant"} ELSE {"connect", "close"})
    BY <1>7, <1>m DEF FinishClose, OperationModes, runtimeVars
  <2>2. OperationModes'
    <3>1. CASE op.mode = "connect"
      BY <1>0, <1>7, <2>1, <3>1, FreshModes DEF FinishClose
    <3>2. CASE op.mode # "connect"
      BY <1>7, <3>2, IdleModes DEF FinishClose
    <3>3. QED
      BY <3>1, <3>2
  <2>3. LifecycleFollows'
    BY <1>0, <1>7, <2>1 DEF FinishClose, LifecycleFollows, Managed
  <2>4. QED
    BY <2>2, <2>3 DEF LifeInv
<1>8. CASE Apply
  <2>1. /\ op'.pc = "connecting" /\ op'.mode = "apply" /\ session # 0 /\ Managed
        /\ UNCHANGED <<session, lifecycle>> /\ op = Idle
    BY <1>8 DEF Apply, Op, Managed, runtimeVars, managerVars
  <2>2. QED
    BY <1>0, <1>m, <2>1 DEF LifeInv, LifecycleFollows, OperationModes, Managed
<1>9. CASE ApplyFresh
  <2>1. op'.pc = "connecting" /\ op'.mode = "applyFresh" /\ ~Managed
    BY <1>9 DEF ApplyFresh, Op
  <2>2. QED
    BY <1>0, <2>1 DEF LifeInv, LifecycleFollows, OperationModes, Managed
<1>10. CASE ConnectSucceeds
  <2>1. /\ op.mode \in (IF Managed THEN {"resume", "fresh", "seeded", "apply"} ELSE {"fresh", "applyFresh"})
        /\ op.mode = "apply" => session # 0
        /\ op.pc = "connecting"
    BY <1>10, <1>m DEF ConnectSucceeds, OperationModes
  <2>2. session' # 0
    BY <1>10, Connected DEF Sessions
  <2>3. OperationModes'
    <3>1. CASE op.mode = "seeded"
      <4>1. op'.pc = "rehydrating" /\ op'.mode = "seeded"
        BY <1>0, <1>10, <3>1 DEF ConnectSucceeds
      <4>2. QED
        BY <1>0, <2>1, <3>1, <4>1 DEF OperationModes, Managed
    <3>2. CASE op.mode # "seeded"
      BY <1>10, <3>2, IdleModes DEF ConnectSucceeds
    <3>3. QED
      BY <3>1, <3>2
  <2>4. LifecycleFollows'
    <3>1. CASE op.mode \in {"seeded", "resume", "fresh"} /\ Managed
      BY <1>10, <2>2, <3>1 DEF ConnectSucceeds, LifecycleFollows
    <3>2. CASE op.mode = "apply" /\ Managed
      BY <1>0, <1>10, <1>m, <2>1, <2>2, <3>2 DEF ConnectSucceeds, LifecycleFollows, Managed
    <3>3. QED
      BY <1>0, <2>1, <3>1, <3>2 DEF LifecycleFollows, Managed
  <2>5. QED
    BY <2>3, <2>4 DEF LifeInv
<1>11. CASE ConnectFails
  <2>1. UNCHANGED <<session, lifecycle>> /\ op.pc = "connecting"
    BY <1>11 DEF ConnectFails, runtimeVars
  <2>2. OperationModes'
    <3>1. CASE op.mode = "resume"
      <4>1. Managed /\ session = 0 /\ BeginFresh(op.seed)
        BY <1>11, <1>m, <2>1, <3>1 DEF ConnectFails, OperationModes, Fallback
      <4>2. QED
        BY <1>0, <2>1, <4>1, FreshModes
    <3>2. CASE op.mode # "resume"
      BY <1>11, <3>2, IdleModes DEF ConnectFails
    <3>3. QED
      BY <3>1, <3>2
  <2>3. LifecycleFollows'
    BY <1>0, <1>m, <2>1 DEF LifecycleFollows, Managed
  <2>4. QED
    BY <2>2, <2>3 DEF LifeInv
<1>12. QED
  BY <1>1, <1>2, <1>3, <1>4, <1>5, <1>6, <1>7, <1>8, <1>9, <1>10, <1>11 DEF Operation

\* Nothing else touches the session or the state.
LEMMA LifeStep == TypeInv /\ LifeInv /\ [Next]_vars => LifeInv'
<1> SUFFICES ASSUME TypeInv, LifeInv, [Next]_vars PROVE LifeInv'
  OBVIOUS
<1>1. CASE UNCHANGED <<host, session, op, lifecycle>>
  BY <1>1 DEF LifeInv, OperationModes, LifecycleFollows, Managed
<1>2. CASE Operation
  BY <1>2, LifeOperation
<1>3. ASSUME NEW s \in Sessions, Publish(s) \/ SessionEnds(s) \/ Forward(s) PROVE LifeInv'
  BY <1>1, <1>3 DEF Publish, SessionEnds, Forward, runtimeVars, managerVars
<1>4. CASE Receive \/ Handle \/ HandleAges
  BY <1>1, <1>4 DEF Receive, Handle, HandleAges, runtimeVars, managerVars
<1>5. CASE UNCHANGED vars
  BY <1>1, <1>5 DEF vars, runtimeVars, managerVars
<1>6. QED
  BY <1>2, <1>3, <1>4, <1>5 DEF Next

\* So the lifecycle state always follows the runtime.
LEMMA LifeAlways == Spec => [](TypeInv /\ LifeInv)
<1>1. Init => TypeInv /\ LifeInv
  BY TypeInit, LifeInit
<1>2. TypeInv /\ LifeInv /\ [Next]_vars => TypeInv' /\ LifeInv'
  BY TypeStep, LifeStep
<1>3. QED
  BY <1>1, <1>2, PTL DEF Spec

\* Between operations a dormant manager has no session, a hot one has, and none
\* is left closing: ensure_hot, its failures and enter_dormant leave it so.
THEOREM LifecycleIsRight == Spec => []LifecycleAgrees
<1>1. LifeInv => LifecycleAgrees
  BY DEF LifeInv, LifecycleFollows, LifecycleAgrees, Idle, Op
<1>2. QED
  BY <1>1, LifeAlways, PTL

-----------------------------------------------------------------------------
(* Resumption.                                                             *)

\* What only some hosts do: the CLI and the recorder keep no turns, and the
\* recorder has no memory.
HostLimits ==
  /\ host # "discord" => ~turns /\ hand = Nothing
  /\ ~Managed => memory.handle = 0

\* True at the start.
LEMMA HostLimitsInit == Init => HostLimits
  BY DEF Init, HostLimits

\* Handlers take events only in Discord, and only the manager writes memory.
LEMMA HostLimitsStep == TypeInv /\ LifeInv /\ HostLimits /\ [Next]_vars => HostLimits'
<1> SUFFICES ASSUME TypeInv, LifeInv, HostLimits, [Next]_vars PROVE HostLimits'
  OBVIOUS
<1>1. CASE UNCHANGED <<host, turns, hand, memory>>
  BY <1>1 DEF HostLimits, Managed
<1>2. CASE EnterDormant \/ ConnectFails
  <2>1. UNCHANGED <<host, turns, hand>>
    BY <1>2 DEF EnterDormant, ConnectFails
  <2>2. ~Managed => memory' = memory
    BY <1>2 DEF EnterDormant, ConnectFails, LifeInv, OperationModes
  <2>3. QED
    BY <2>1, <2>2 DEF HostLimits, Managed
<1>3. CASE Receive
  BY <1>3 DEF Receive, HostLimits, Managed, managerVars
<1>4. CASE Handle
  <2>1. host' = host /\ host = "discord"
    BY <1>4 DEF Handle, HostLimits
  <2>2. QED
    BY <2>1 DEF HostLimits, Managed
<1>5. CASE HandleAges
  <2>1. UNCHANGED <<host, turns, hand>> /\ memory'.handle = memory.handle
    BY <1>5 DEF HandleAges, TypeInv, ManagerTyped
  <2>2. QED
    BY <2>1 DEF HostLimits, Managed
<1>6. CASE EnsureHot \/ CancelWake \/ Rehydrate \/ Connect \/ Close \/ FinishClose \/ Apply \/ ApplyFresh
           \/ ConnectSucceeds
  BY <1>1, <1>6 DEF EnsureHot, CancelWake, Rehydrate, Connect, Close, FinishClose, Apply, ApplyFresh,
                    ConnectSucceeds, managerVars
<1>7. ASSUME NEW s \in Sessions, Publish(s) \/ SessionEnds(s) \/ Forward(s) PROVE HostLimits'
  BY <1>1, <1>7 DEF Publish, SessionEnds, Forward, managerVars
<1>8. CASE UNCHANGED vars
  BY <1>1, <1>8 DEF vars, managerVars
<1>9. QED
  BY <1>2, <1>3, <1>4, <1>5, <1>6, <1>7, <1>8 DEF Next, Operation

\* The handle in memory, inside its age window.
Usable == memory.handle # 0 /\ memory.young

\* Every handle that may be used is of the last conversation, and there is none
\* while a connection is made that starts another.
Current ==
  /\ handle # 0 => origin[handle] = LastConversation
  /\ Usable => origin[memory.handle] = LastConversation
  /\ op.handle # 0 => origin[op.handle] = LastConversation
  /\ op.pc = "connecting" /\ op.mode \in {"fresh", "seeded"} => handle = 0 /\ ~Usable

\* Current holds until an aborted forwarder stores a handle too late.
ResumeInv == HostLimits /\ (~late => Current)

\* There are no handles at the start.
LEMMA CurrentInit == Init => Current
  BY DEF Init, Current, Usable, Idle, Op

\* Handles keep their conversation while no session is connected.
LEMMA SameConversation ==
  ASSUME TypeInv, UNCHANGED <<opened, conv>>,
         \A h \in 1..Len(origin) : origin'[h] = origin[h]
  PROVE  /\ LastConversation' = LastConversation
         /\ \A h \in 0..Len(origin) : h # 0 => origin'[h] = origin[h]
<1>1. LastConversation' = LastConversation
  BY DEF LastConversation
<1>2. \A h \in 0..Len(origin) : h # 0 => h \in 1..Len(origin)
  BY NoHandle
<1>3. QED
  BY <1>1, <1>2

\* Nothing changes that Current looks at, except that handles are issued.
LEMMA CurrentFrame ==
  ASSUME TypeInv, Current, UNCHANGED <<opened, conv, handle, memory, op>>,
         \A h \in 1..Len(origin) : origin'[h] = origin[h]
  PROVE  Current'
<1>1. handle \in 0..Len(origin) /\ memory.handle \in 0..Len(origin) /\ op.handle \in 0..Len(origin)
  BY DEF TypeInv, ManagerTyped, OperationTyped
<1>2. QED
  BY <1>1, SameConversation DEF Current, Usable

\* A connection is begun without a handle that could be used for it.
LEMMA CurrentFresh ==
  ASSUME TypeInv, NEW seed \in BOOLEAN, BeginFresh(seed), UNCHANGED <<opened, conv, origin>>, ~Usable'
  PROVE  Current'
<1>1. op'.handle = 0 /\ handle' = 0
  BY DEF BeginFresh, Op
<1>2. QED
  BY <1>1 DEF Current

\* Handles are cleared, in the runtime and in memory, before another conversation
\* is begun.
LEMMA CurrentOperation ==
  ASSUME TypeInv, LifeInv, HostLimits, Current, Operation
  PROVE  Current'
<1>0. /\ turns \in BOOLEAN /\ op.seed \in BOOLEAN /\ Idle.pc = "idle" /\ Idle.handle = 0
      /\ handle \in 0..Len(origin) /\ memory.handle \in 0..Len(origin) /\ op.handle \in 0..Len(origin)
      /\ op \in [pc : {"idle", "closing", "connecting", "rehydrating"}, mode : Modes,
                 handle : 0..Len(origin), seed : BOOLEAN]
  BY DEF TypeInv, FlagsTyped, OperationTyped, ManagerTyped, Idle, Op
<1>1. CASE EnsureHot
  <2>1. UNCHANGED <<opened, conv, origin, memory>> /\ LastConversation' = LastConversation
    BY <1>1, SameConversation DEF EnsureHot, runtimeVars, serverVars
  <2>2. CASE UNCHANGED <<handle, op>>
    BY <2>1, <2>2, CurrentFrame
  <2>3. CASE Usable /\ op' = Op("connecting", "resume", memory.handle, turns) /\ handle' = handle
    <3>1. op'.mode = "resume" /\ op'.handle = memory.handle
      BY <2>3 DEF Op
    <3>2. QED
      BY <2>1, <2>3, <3>1 DEF Current, Usable
  <2>4. CASE ~Usable /\ BeginFresh(turns)
    BY <1>0, <2>1, <2>4, CurrentFresh DEF Usable
  <2>5. QED
    BY <1>1, <2>2, <2>3, <2>4 DEF EnsureHot, Usable
<1>2. CASE CancelWake \/ Rehydrate
  <2>1. UNCHANGED <<opened, conv, origin, memory, handle>> /\ op' = Idle
    BY <1>2 DEF CancelWake, Rehydrate, runtimeVars, serverVars, managerVars
  <2>2. QED
    BY <1>0, <2>1, SameConversation DEF Current, Usable
<1>3. CASE EnterDormant
  <2>1. UNCHANGED <<opened, conv, origin, handle>> /\ op = Idle
    BY <1>3 DEF EnterDormant, serverVars
  <2>2. op'.handle = 0 /\ op'.pc # "connecting"
    BY <1>0, <1>3, <2>1 DEF EnterDormant, Op
  <2>3. Usable' => \/ memory'.handle = memory.handle /\ Usable
                   \/ memory'.handle = handle /\ handle # 0
    <3>1. memory' = memory \/ (memory' = SyncedMemory)
      BY <1>3 DEF EnterDormant
    <3>2. SyncedMemory = memory \/ (SyncedMemory.handle = handle /\ handle # 0)
      BY DEF SyncedMemory
    <3>3. CASE memory' = memory
      BY <3>3 DEF Usable
    <3>4. CASE memory'.handle = handle /\ handle # 0
      BY <3>4
    <3>5. QED
      BY <3>1, <3>2, <3>3, <3>4
  <2>4. QED
    BY <2>1, <2>2, <2>3, SameConversation DEF Current
<1>4. CASE Connect
  <2>1. UNCHANGED <<opened, conv, origin, memory>> /\ ~Usable'
    BY <1>4 DEF Connect, serverVars, managerVars, HostLimits, Usable
  <2>2. CASE op' = Op("closing", "connect", 0, FALSE) /\ handle' = handle
    <3>1. op'.handle = 0 /\ op'.pc = "closing"
      BY <2>2 DEF Op
    <3>2. QED
      BY <2>1, <2>2, <3>1, SameConversation DEF Current
  <2>3. CASE BeginFresh(FALSE)
    BY <2>1, <2>3, CurrentFresh
  <2>4. QED
    BY <1>4, <2>2, <2>3 DEF Connect
<1>5. CASE Close
  <2>1. UNCHANGED <<opened, conv, origin, memory, handle>> /\ op'.handle = 0 /\ op'.pc = "closing"
    BY <1>5 DEF Close, serverVars, managerVars, Op
  <2>2. QED
    BY <2>1, SameConversation DEF Current, Usable
<1>6. CASE FinishClose
  <2>1. UNCHANGED <<opened, conv, origin, memory>>
    BY <1>6 DEF FinishClose, serverVars, runtimeVars
  <2>2. CASE op.mode = "connect" /\ BeginFresh(FALSE)
    <3>1. ~Managed
      BY <1>6, <2>2 DEF FinishClose, LifeInv, OperationModes
    <3>2. ~Usable'
      BY <2>1, <3>1 DEF HostLimits, Usable
    <3>3. QED
      BY <2>1, <2>2, <3>2, CurrentFresh
  <2>3. CASE handle' = 0 /\ op' = Idle
    BY <1>0, <2>1, <2>3, SameConversation DEF Current, Usable
  <2>4. QED
    BY <1>6, <2>2, <2>3 DEF FinishClose
<1>7. CASE Apply \/ ApplyFresh
  <2>1. UNCHANGED <<opened, conv, origin, memory, handle>>
    BY <1>7 DEF Apply, ApplyFresh, serverVars, runtimeVars, managerVars
  <2>2. op'.handle \in {0, handle} /\ op'.mode \in {"apply", "applyFresh"}
    BY <1>7 DEF Apply, ApplyFresh, Op
  <2>3. QED
    BY <2>1, <2>2, SameConversation DEF Current, Usable
<1>8. CASE ConnectSucceeds
  <2>1. origin' = origin /\ memory' = memory /\ opened' # 0 /\ opened' = opened + 1
    BY <1>8, Connected DEF ConnectSucceeds, Sessions
  <2>2. LastConversation' = IF op.handle # 0 THEN origin[op.handle] ELSE opened + 1
    BY <1>8, <2>1, Connected DEF LastConversation
  <2>3. op'.pc # "connecting" /\ op'.handle \in {0, op.handle}
    BY <1>0, <1>8 DEF ConnectSucceeds
  <2>4. op.pc = "connecting" /\ (handle' = handle \/ handle' = 0) /\ (op.mode = "applyFresh" => handle' = 0)
    BY <1>8 DEF ConnectSucceeds
  <2>5. CASE op.handle # 0
    <3>1. LastConversation' = LastConversation
      BY <2>2, <2>5 DEF Current
    <3>2. QED
      BY <2>1, <2>3, <2>4, <3>1 DEF Current, Usable
  <2>6. CASE op.handle = 0
    <3>1. op.mode \in {"fresh", "seeded", "applyFresh"} /\ (op.mode = "applyFresh" => ~Managed)
      BY <2>4, <2>6 DEF TypeInv, OperationTyped, LifeInv, OperationModes
    <3>2. handle' = 0 /\ ~Usable
      BY <2>4, <3>1 DEF Current, HostLimits, Usable
    <3>3. QED
      BY <2>1, <2>3, <2>6, <3>2 DEF Current, Usable
  <2>7. QED
    BY <2>5, <2>6
<1>9. CASE ConnectFails
  <2>1. UNCHANGED <<opened, conv, origin>>
    BY <1>9 DEF ConnectFails, serverVars, runtimeVars
  <2>2. CASE memory' = MemoryCleared /\ BeginFresh(op.seed)
    <3>1. ~Usable'
      BY <2>2 DEF Usable, MemoryCleared
    <3>2. QED
      BY <1>0, <2>1, <2>2, <3>1, CurrentFresh
  <2>3. CASE op' = Idle /\ UNCHANGED <<memory, handle>>
    BY <1>0, <2>1, <2>3, SameConversation DEF Current, Usable
  <2>4. QED
    BY <1>9, <2>2, <2>3 DEF ConnectFails, Fallback
<1>10. QED
  BY <1>1, <1>2, <1>3, <1>4, <1>5, <1>6, <1>7, <1>8, <1>9 DEF Operation

\* A forwarder stores a handle of the last conversation, unless it is too late.
LEMMA CurrentForward ==
  ASSUME TypeInv, FilterInv, LifeInv, Current, NEW s \in Sessions, Forward(s),
         ~TooLate(s, Head(inbox[s]))
  PROVE  Current'
<1> DEFINE e == Head(inbox[s])
<1>1. /\ UNCHANGED <<opened, conv, origin, memory, op, session>>
      /\ handle' = IF e.handle # 0 THEN e.handle ELSE handle
      /\ forwarder[s] \in {"running", "aborting"}
      /\ inbox[s] # <<>>
  BY DEF Forward, runtimeVars, managerVars
<1>2. CASE e.handle = 0
  BY <1>1, <1>2, CurrentFrame
<1>3. CASE e.handle # 0
  <2>1. origin[e.handle] = conv[s]
    <3>1. inbox[s] \in Seq(Events)
      BY DEF TypeInv, EventsTyped
    <3>2. e = inbox[s][1] /\ 1 \in 1..Len(inbox[s])
      BY <1>1, <3>1, Taken
    <3>3. QED
      BY <1>3, <3>2 DEF TypeInv, InboxTraced
  <2>2. CASE forwarder[s] = "running"
    <3>1. s = session /\ session # 0 /\ session = opened
      BY <2>2 DEF FilterInv, OneForwarder, Sessions, TypeInv, RuntimeTyped
    <3>2. conv[s] = LastConversation
      BY <3>1 DEF LastConversation
    <3>3. op.pc = "connecting" => op.mode \notin {"fresh", "seeded"}
      BY <3>1 DEF LifeInv, OperationModes
    <3>4. QED
      BY <1>1, <1>3, <2>1, <3>2, <3>3, SameConversation DEF Current, Usable
  <2>3. CASE forwarder[s] = "aborting"
    <3>1. conv[s] = LastConversation /\ ~(op.pc = "connecting" /\ op.handle = 0)
      BY <1>3, <2>3 DEF TooLate
    <3>2. op.mode \in {"fresh", "seeded"} => op.handle = 0
      BY DEF TypeInv, OperationTyped
    <3>3. QED
      BY <1>1, <1>3, <2>1, <3>1, <3>2, SameConversation DEF Current, Usable
  <2>4. QED
    BY <1>1, <2>2, <2>3
<1>4. QED
  BY <1>2, <1>3

\* Every step keeps the handles current, one that is too late excepted.
LEMMA ResumeStep ==
  ASSUME TypeInv, FilterInv, LifeInv, ResumeInv, [Next]_vars
  PROVE  ResumeInv'
<1>1. HostLimits'
  BY HostLimitsStep DEF ResumeInv
<1> SUFFICES ASSUME ~late' PROVE Current'
  BY <1>1 DEF ResumeInv
<1>2. ~late /\ \A s \in Sessions : Forward(s) => ~TooLate(s, Head(inbox[s]))
  <2>1. ASSUME NEW s \in Sessions, Forward(s) PROVE ~late /\ ~TooLate(s, Head(inbox[s]))
    <3>1. late' = (late \/ TooLate(s, Head(inbox[s])))
      BY <2>1 DEF Forward
    <3>2. QED
      BY <3>1, Zenon
  <2>2. (\A s \in Sessions : ~Forward(s)) => late' = late
    BY DEF Next, Operation, vars, historyVars, EnsureHot, CancelWake, Rehydrate, EnterDormant, Connect,
           Close, FinishClose, Apply, ApplyFresh, ConnectSucceeds, ConnectFails, Publish, SessionEnds,
           Receive, Handle, HandleAges
  <2>3. QED
    BY <2>1, <2>2
<1>3. Current /\ HostLimits
  BY <1>2 DEF ResumeInv
<1>4. CASE Operation
  BY <1>3, <1>4, CurrentOperation
<1>5. ASSUME NEW s \in Sessions, Publish(s) PROVE Current'
  <2>1. UNCHANGED <<opened, conv, handle, memory, op>>
    BY <1>5 DEF Publish, runtimeVars, managerVars
  <2>2. \A h \in 1..Len(origin) : origin'[h] = origin[h]
    <3>1. CASE origin' = Append(origin, conv[s])
      <4>1. conv[s] \in Sessions /\ origin \in Seq(Sessions)
        BY <1>5 DEF Publish, TypeInv, ServerTyped
      <4>2. QED
        BY <3>1, <4>1, Added
    <3>2. QED
      BY <1>5, <3>1 DEF Publish
  <2>3. QED
    BY <1>3, <2>1, <2>2, CurrentFrame
<1>6. ASSUME NEW s \in Sessions, Forward(s) PROVE Current'
  BY <1>2, <1>3, <1>6, CurrentForward
<1>7. ASSUME UNCHANGED <<opened, conv, handle, memory, op, origin>> PROVE Current'
  BY <1>3, <1>7, CurrentFrame
<1>8. ASSUME NEW s \in Sessions, SessionEnds(s) PROVE Current'
  BY <1>7, <1>8 DEF SessionEnds, runtimeVars, managerVars
<1>9. CASE Receive
  BY <1>7, <1>9 DEF Receive, runtimeVars, managerVars, serverVars
<1>10. CASE Handle
  <2>1. UNCHANGED <<opened, conv, handle, op, origin>> /\ op = Idle
    BY <1>10 DEF Handle, runtimeVars, serverVars
  <2>2. Usable' => \/ memory'.handle = memory.handle /\ Usable
                   \/ memory'.handle = handle /\ handle # 0
    <3>1. memory' = memory \/ (memory' = SyncedMemory)
      BY <1>10 DEF Handle
    <3>2. SyncedMemory = memory \/ (SyncedMemory.handle = handle /\ handle # 0)
      BY DEF SyncedMemory
    <3>3. CASE memory' = memory
      BY <3>3 DEF Usable
    <3>4. CASE memory'.handle = handle /\ handle # 0
      BY <3>4
    <3>5. QED
      BY <3>1, <3>2, <3>3, <3>4
  <2>3. op.pc = "idle"
    BY <2>1 DEF Idle, Op
  <2>4. QED
    BY <1>3, <2>1, <2>2, <2>3, SameConversation DEF Current
<1>11. CASE HandleAges
  <2>1. UNCHANGED <<opened, conv, handle, op, origin>>
    BY <1>11 DEF HandleAges, runtimeVars, serverVars
  <2>2. ~Usable'
    BY <1>11 DEF HandleAges, Usable, TypeInv, ManagerTyped
  <2>3. QED
    BY <1>3, <2>1, <2>2, SameConversation DEF Current
<1>12. CASE UNCHANGED vars
  BY <1>7, <1>12 DEF vars, runtimeVars, managerVars, serverVars
<1>13. QED
  BY <1>4, <1>5, <1>6, <1>8, <1>9, <1>10, <1>11, <1>12 DEF Next

\* So they always are.
LEMMA ResumeAlways == Spec => [](TypeInv /\ FilterInv /\ LifeInv /\ ResumeInv)
<1>1. Init => TypeInv /\ FilterInv /\ LifeInv /\ ResumeInv
  BY TypeInit, FilterInit, LifeInit, HostLimitsInit, CurrentInit DEF ResumeInv
<1>2. TypeInv /\ FilterInv /\ LifeInv /\ ResumeInv /\ [Next]_vars
        => TypeInv' /\ FilterInv' /\ LifeInv' /\ ResumeInv'
  BY TypeStep, FilterStep, LifeStep, ResumeStep
<1>3. QED
  BY <1>1, <1>2, PTL DEF Spec

\* connect_resumed and apply continue the conversation the host was in last, as
\* long as no aborted forwarder stored a handle after it was cleared.
THEOREM ResumptionContinues == Spec => []ResumesLastConversation
<1>1. ResumeInv => ResumesLastConversation
  BY DEF ResumeInv, Current, ResumesLastConversation
<1>2. QED
  BY <1>1, ResumeAlways, PTL

-----------------------------------------------------------------------------
(* History.                                                                *)

\* The conversations there have been.
Known == {conv[s] : s \in 1..opened}

\* Every conversation has been told what memory held, or is being told, or its
\* rehydration failed; every handle belongs to one of them.
Informed(c) == c \in told \cup unfed \/ (op.pc = "rehydrating" /\ c = conv[session])

ContextInv ==
  /\ \A c \in Known : Informed(c)
  /\ \A h \in 1..Len(origin) : origin[h] \in Known
  /\ op.mode = "resume" => (op.seed <=> turns)
  /\ op.mode \in {"fresh", "applyFresh"} => ~turns

\* There are no conversations at the start.
LEMMA ContextInit == Init => ContextInv
  BY DEF Init, ContextInv, Known, Idle, Op

\* Once known, conversations stay informed while told and unfed only grow.
LEMMA ContextFrame ==
  ASSUME TypeInv, ContextInv, UNCHANGED <<opened, conv, origin>>,
         told \subseteq told', unfed \subseteq unfed',
         op.pc = "rehydrating" => conv[session] \in told' \cup unfed',
         op'.mode = "resume" => (op'.seed <=> turns'),
         op'.mode \in {"fresh", "applyFresh"} => ~turns'
  PROVE  ContextInv'
<1>1. Known' = Known
  BY DEF Known
<1>2. QED
  BY <1>1 DEF ContextInv, Informed

\* A fresh connection is rehydrated if there are turns.
LEMMA FreshContext ==
  ASSUME NEW seed \in BOOLEAN, BeginFresh(seed), seed <=> turns, turns' = turns
  PROVE  /\ op'.mode = "resume" => (op'.seed <=> turns')
         /\ op'.mode \in {"fresh", "applyFresh"} => ~turns'
<1>1. op'.mode = IF seed THEN "seeded" ELSE "fresh"
  BY DEF BeginFresh, FreshMode, Op
<1>2. QED
  BY <1>1

\* A session that is connected continues an informed conversation, is about to
\* be told, or begins when memory holds nothing.
LEMMA ContextConnect ==
  ASSUME TypeInv, LifeInv, HostLimits, ContextInv, ConnectSucceeds
  PROVE  ContextInv'
<1> DEFINE new == opened + 1
           Then(c) == c \in told' \cup unfed' \/ (op'.pc = "rehydrating" /\ c = conv'[session'])
<1>1. /\ new \in Sessions /\ opened' = new /\ session' = new /\ 1..opened' = 1..opened \cup {new}
      /\ conv'[new] = IF op.handle # 0 THEN origin[op.handle] ELSE new
      /\ \A s \in 1..opened : conv'[s] = conv[s]
  BY Connected, BoundsAssumption DEF TypeInv, RuntimeTyped, Sessions
<1>2. Known' = Known \cup {conv'[new]}
  BY <1>1 DEF Known
<1>3. /\ op.pc = "connecting" /\ UNCHANGED <<origin, unfed, turns>>
      /\ told' = IF op.handle = 0 /\ op.mode # "seeded" /\ ~turns THEN told \cup {new} ELSE told
      /\ IF op.mode = "seeded" THEN op' = [op EXCEPT !.pc = "rehydrating"] ELSE op' = Idle
  BY DEF ConnectSucceeds
<1>4. /\ op \in [pc : {"idle", "closing", "connecting", "rehydrating"}, mode : Modes,
                 handle : 0..Len(origin), seed : BOOLEAN]
      /\ op.mode \in {"resume", "apply"} <=> op.handle # 0
      /\ op.mode \in {"resume", "apply", "fresh", "seeded", "applyFresh"}
  BY <1>3 DEF TypeInv, OperationTyped, LifeInv, OperationModes
<1>5. \A c \in Known : Then(c)
  BY <1>3 DEF ContextInv, Informed
<1>6. Then(conv'[new])
  <2>1. CASE op.handle # 0
    <3>1. conv'[new] \in Known
      BY <1>1, <1>4, <2>1, NoHandle DEF ContextInv
    <3>2. QED
      BY <1>5, <3>1
  <2>2. CASE op.mode = "seeded"
    <3>1. op'.pc = "rehydrating"
      BY <1>3, <1>4, <2>2
    <3>2. QED
      BY <1>1, <3>1
  <2>3. CASE op.mode \in {"fresh", "applyFresh"}
    <3>1. op.handle = 0 /\ ~turns
      BY <1>4, <2>3 DEF ContextInv
    <3>2. QED
      BY <1>1, <1>3, <2>3, <3>1
  <2>4. QED
    BY <1>4, <2>1, <2>2, <2>3
<1>7. op'.mode \notin {"resume", "fresh", "applyFresh"}
  BY <1>3, <1>4 DEF Idle, Op
<1>8. \A h \in 1..Len(origin') : origin'[h] \in Known'
  BY <1>2, <1>3 DEF ContextInv
<1>9. QED
  <2>1. \A c \in Known' : Then(c)
    BY <1>2, <1>5, <1>6
  <2>2. QED
    BY <1>7, <1>8, <2>1 DEF ContextInv, Informed

\* Every operation keeps the conversations informed: should_rehydrate, read when
\* ensure_hot began, is still right when its fallback uses it.
LEMMA ContextOperation ==
  ASSUME TypeInv, LifeInv, HostLimits, ContextInv, Operation
  PROVE  ContextInv'
<1>0. turns \in BOOLEAN /\ op.seed \in BOOLEAN /\ Idle.mode = "none" /\ Idle.pc = "idle"
  BY DEF TypeInv, FlagsTyped, OperationTyped, Idle, Op
<1>1. CASE EnsureHot
  <2>1. UNCHANGED <<opened, conv, origin, told, unfed, turns>> /\ op.pc # "rehydrating"
    BY <1>0, <1>1 DEF EnsureHot, runtimeVars, serverVars, historyVars
  <2>2. CASE op' = op
    BY <2>1, <2>2, ContextFrame DEF ContextInv
  <2>3. CASE op' = Op("connecting", "resume", memory.handle, turns)
    <3>1. op'.mode = "resume" /\ op'.seed = turns
      BY <2>3 DEF Op
    <3>2. QED
      BY <2>1, <3>1, ContextFrame
  <2>4. CASE BeginFresh(turns)
    BY <1>0, <2>1, <2>4, FreshContext, ContextFrame
  <2>5. QED
    BY <1>1, <2>2, <2>3, <2>4 DEF EnsureHot
<1>2. CASE CancelWake
  <2>1. UNCHANGED <<opened, conv, origin, told, unfed>> /\ op.pc # "rehydrating" /\ op' = Idle
    BY <1>2 DEF CancelWake, runtimeVars, serverVars, historyVars
  <2>2. QED
    BY <1>0, <2>1, ContextFrame
<1>3. CASE Rehydrate
  <2>1. UNCHANGED <<opened, conv, origin>> /\ op' = Idle
    BY <1>3 DEF Rehydrate, runtimeVars, serverVars
  <2>2. told \subseteq told' /\ unfed \subseteq unfed' /\ conv[session] \in told' \cup unfed'
    BY <1>3 DEF Rehydrate
  <2>3. QED
    BY <1>0, <2>1, <2>2, ContextFrame
<1>4. CASE EnterDormant \/ Connect \/ Close \/ Apply \/ ApplyFresh
  <2>1. UNCHANGED <<opened, conv, origin, told, unfed, turns, host>> /\ op = Idle
    BY <1>4 DEF EnterDormant, Connect, Close, Apply, ApplyFresh, runtimeVars, managerVars, serverVars,
                historyVars
  <2>2. CASE op'.mode \in {"none", "dormant", "connect", "close", "apply"}
    BY <1>0, <2>1, <2>2, ContextFrame
  <2>3. CASE ~Managed /\ (BeginFresh(FALSE) \/ op'.mode = "applyFresh")
    <3>1. ~turns
      BY <2>3 DEF HostLimits, Managed
    <3>2. op'.mode \in {"fresh", "applyFresh"}
      BY <2>3 DEF BeginFresh, FreshMode, Op
    <3>3. QED
      BY <1>0, <2>1, <3>1, <3>2, ContextFrame
  <2>4. CASE EnterDormant
    BY <1>0, <2>1, <2>2, <2>4 DEF EnterDormant, Op
  <2>5. CASE Connect
    <3>1. CASE op' = Op("closing", "connect", 0, FALSE)
      BY <2>2, <3>1 DEF Op
    <3>2. QED
      BY <2>3, <2>5, <3>1 DEF Connect
  <2>6. CASE Close
    BY <2>2, <2>6 DEF Close, Op
  <2>7. CASE Apply
    BY <2>2, <2>7 DEF Apply, Op
  <2>8. CASE ApplyFresh
    BY <2>3, <2>8 DEF ApplyFresh, Op
  <2>9. QED
    BY <1>4, <2>4, <2>5, <2>6, <2>7, <2>8
<1>5. CASE FinishClose
  <2>1. UNCHANGED <<opened, conv, origin, told, unfed, turns, host>> /\ op.pc = "closing"
    BY <1>5 DEF FinishClose, runtimeVars, serverVars, historyVars
  <2>2. CASE op.mode = "connect" /\ BeginFresh(FALSE)
    <3>1. ~turns
      BY <2>1, <2>2 DEF LifeInv, OperationModes, HostLimits, Managed
    <3>2. QED
      BY <2>1, <2>2, <3>1, FreshContext, ContextFrame
  <2>3. CASE op' = Idle
    BY <1>0, <2>1, <2>3, ContextFrame
  <2>4. QED
    BY <1>5, <2>2, <2>3 DEF FinishClose
<1>6. CASE ConnectSucceeds
  BY <1>6, ContextConnect DEF HostLimits
<1>7. CASE ConnectFails
  <2>1. UNCHANGED <<opened, conv, origin, told, unfed, turns>> /\ op.pc = "connecting"
    BY <1>7 DEF ConnectFails, runtimeVars, serverVars, historyVars
  <2>2. CASE op.mode = "resume" /\ BeginFresh(op.seed)
    BY <1>0, <2>1, <2>2, FreshContext, ContextFrame DEF ContextInv
  <2>3. CASE op' = Idle
    BY <1>0, <2>1, <2>3, ContextFrame
  <2>4. QED
    BY <1>7, <2>2, <2>3 DEF ConnectFails, Fallback
<1>8. QED
  BY <1>1, <1>2, <1>3, <1>4, <1>5, <1>6, <1>7 DEF Operation

\* A turn is recorded only between operations.
LEMMA ContextStep ==
  ASSUME TypeInv, LifeInv, HostLimits, ContextInv, [Next]_vars
  PROVE  ContextInv'
<1>1. CASE Operation
  BY <1>1, ContextOperation
<1>2. ASSUME UNCHANGED <<opened, conv, origin, told, unfed, turns, op, session>> PROVE ContextInv'
  BY <1>2 DEF ContextInv, Known, Informed
<1>3. ASSUME NEW s \in Sessions, Publish(s) PROVE ContextInv'
  <2>1. UNCHANGED <<opened, conv, told, unfed, turns, op, session>>
    BY <1>3 DEF Publish, runtimeVars, managerVars, historyVars
  <2>2. conv[s] \in Known /\ conv[s] \in Sessions /\ origin \in Seq(Sessions)
    BY <1>3 DEF Publish, TypeInv, ServerTyped, Known
  <2>3. \A h \in 1..Len(origin') : origin'[h] \in Known
    <3>1. CASE origin' = origin
      BY <3>1 DEF ContextInv
    <3>2. CASE origin' = Append(origin, conv[s])
      BY <2>2, <3>2, Added DEF ContextInv
    <3>3. QED
      BY <1>3, <3>1, <3>2 DEF Publish
  <2>4. QED
    BY <2>1, <2>3 DEF ContextInv, Known, Informed
<1>4. ASSUME NEW s \in Sessions, SessionEnds(s) \/ Forward(s) PROVE ContextInv'
  BY <1>2, <1>4 DEF SessionEnds, Forward, runtimeVars, managerVars, historyVars
<1>5. CASE Receive \/ HandleAges \/ UNCHANGED vars
  BY <1>2, <1>5 DEF Receive, HandleAges, vars, runtimeVars, managerVars, serverVars, historyVars
<1>6. CASE Handle
  <2>1. UNCHANGED <<opened, conv, origin, told, unfed, op>> /\ op = Idle
    BY <1>6 DEF Handle, runtimeVars, serverVars, historyVars
  <2>2. QED
    BY <2>1, ContextFrame DEF Idle, Op
<1>7. QED
  BY <1>1, <1>3, <1>4, <1>5, <1>6 DEF Next

\* So every conversation is informed.
LEMMA ContextAlways == Spec => [](TypeInv /\ ContextInv)
<1>1. Init => TypeInv /\ LifeInv /\ HostLimits /\ ContextInv
  BY TypeInit, LifeInit, HostLimitsInit, ContextInit
<1>2. TypeInv /\ LifeInv /\ HostLimits /\ ContextInv /\ [Next]_vars
        => TypeInv' /\ LifeInv' /\ HostLimits' /\ ContextInv'
  BY TypeStep, LifeStep, HostLimitsStep, ContextStep
<1>3. QED
  BY <1>1, <1>2, PTL DEF Spec

\* When ensure_hot has returned, whether it resumed, fell back or found a session,
\* the model was told what memory held, unless a rehydration failed.
THEOREM ContextSurvives == Spec => []ContextKept
<1>1. TypeInv /\ ContextInv => ContextKept
  <2>1. SUFFICES ASSUME TypeInv, ContextInv, op = Idle, session # 0
                 PROVE  conv[session] \in told \cup unfed
    BY DEF ContextKept
  <2>2. conv[session] \in Known
    BY <2>1 DEF TypeInv, RuntimeTyped, Known
  <2>3. op.pc = "idle"
    BY <2>1 DEF Idle, Op
  <2>4. QED
    BY <2>1, <2>2, <2>3 DEF ContextInv, Informed
<1>2. QED
  BY <1>1, ContextAlways, PTL
=============================================================================
