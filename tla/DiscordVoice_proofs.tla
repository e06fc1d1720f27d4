-------------------------- MODULE DiscordVoice_proofs --------------------------
(***************************************************************************)
(* DiscordInv of DiscordVoice, for any number of comings and goings, any   *)
(* finite number of messages, and any number of sessions and failures.     *)
(*                                                                         *)
(* The inductive invariant adds who holds which lock at which step         *)
(* (LockInv, ManagerInv), that a session is there for whoever was given    *)
(* one (GivenInv), that whatever the idle loop has seen idle is either     *)
(* still idle or fresh (QuietInv), and that there are no more turns than   *)
(* messages (CountInv).                                                    *)
(***************************************************************************)
EXTENDS DiscordVoice, FiniteSetTheorems, TLAPS

\* Where a voice task may be.
TaskStates == {<<"none", "new">>, <<"none", "done">>}
                \cup {"join"} \X {"start", "replace", "wake", "attach"}
                \cup {"leave"} \X {"start", "shutdown", "forget"}

\* join_voice holds the slot of the bridge, and it has a session.
Joining(t)   == task[t] \in {<<"join", "replace">>, <<"join", "wake">>, <<"join", "attach">>}
Attaching(t) == task[t] = <<"join", "attach">>

\* TypeOK without the flags and counters; task is a function.
StateTypes ==
  /\ closing \in {"no", "leave", "dormant", "closed"}
  /\ opened \in 0..MaxSessions /\ session \in {None, opened} /\ bridge \in {None} \cup 1..opened
  /\ session # None => opened > 0
  /\ manager \in Messages \cup {None} /\ bridgeLock \in VoiceTasks \cup {None}
  /\ task \in [VoiceTasks -> TaskStates]
  /\ message \in [Messages -> {"new", "wake", "send", "sent", "failed"}]
  /\ handle \in [VoiceTasks -> {None} \cup 1..opened]

\* The flags.
FlagTypes ==
  /\ running \in BOOLEAN /\ owner \in BOOLEAN /\ inCall \in BOOLEAN
  /\ alive \in BOOLEAN /\ fresh \in BOOLEAN /\ turn \in BOOLEAN

\* The slot of the bridge is locked exactly while somebody joins.
LockInv == \A t \in VoiceTasks : Joining(t) <=> bridgeLock = t

\* The manager is locked exactly while a message is being sent.
ManagerInv == \A m \in Messages : message[m] = "send" <=> manager = m

\* Whoever attaches a bridge was given a session.
GivenInv == \A t \in VoiceTasks : Attaching(t) => handle[t] # None

\* Once the idle loop has found no bridge, one that is installed or attached
\* meanwhile has made the session fresh.
QuietInv ==
  /\ running /\ idleLoop \in {"evalTurn", "decide"}
  /\ bridge # None \/ \E t \in VoiceTasks : Attaching(t)
  => fresh

\* The host closes when it does not run any more.
StopInv == running => closing = "no"

\* Each reply that is pending, and each turn the model owes, is of a message.
Unposted == {m \in Messages : message[m] = "new"}
SentOnes == {m \in Messages : message[m] = "sent"}
CountInv ==
  /\ pending \in Nat /\ owed \in Nat
  /\ pending + Cardinality(Unposted) <= Cardinality(Messages)
  /\ owed <= Cardinality(SentOnes)

\* The inductive invariant.
DiscordInd ==
  /\ StateTypes /\ FlagTypes /\ LockInv /\ ManagerInv /\ GivenInv /\ QuietInv /\ StopInv /\ CountInv
  /\ BridgeOnSession /\ WokenIsThere

-----------------------------------------------------------------------------
(* Facts about the constants, the tasks and ensure_hot.                    *)

\* Tasks, messages, numbers and None are told apart.
LEMMA Apart ==
  /\ None \notin VoiceTasks /\ None \notin Messages /\ None \notin Nat
  /\ MaxSessions \in Nat /\ MaxTrouble \in Nat
  BY HostAssumption DEF VoiceTasks

\* The states a task moves to are some.
LEMMA TaskMoves ==
  /\ <<"none", "done">> \in TaskStates
  /\ <<"join", "start">> \in TaskStates /\ <<"join", "replace">> \in TaskStates
  /\ <<"join", "wake">> \in TaskStates
  /\ <<"join", "attach">> \in TaskStates
  /\ <<"leave", "start">> \in TaskStates /\ <<"leave", "shutdown">> \in TaskStates
  /\ <<"leave", "forget">> \in TaskStates
  BY DEF TaskStates

\* What To does.
LEMMA ToFacts ==
  ASSUME StateTypes, NEW t \in VoiceTasks, NEW doing, NEW pc, To(t, doing, pc),
         <<doing, pc>> \in TaskStates
  PROVE  /\ task' \in [VoiceTasks -> TaskStates]
         /\ task'[t] = <<doing, pc>>
         /\ \A u \in VoiceTasks : u # t => task'[u] = task[u]
  BY DEF StateTypes, To

\* After ensure_hot there is a session: the one there was, if any.
LEMMA HotFacts ==
  ASSUME StateTypes, AlreadyHot \/ Wakes
  PROVE  /\ opened' \in opened..MaxSessions /\ opened' > 0
         /\ session' = opened' /\ session' # None
         /\ session # None => session' = session
         /\ fresh' = TRUE
<1>1. CASE AlreadyHot
  BY <1>1, Apart DEF AlreadyHot, StateTypes, sessionVars
<1>2. CASE Wakes
  BY <1>2, Apart DEF Wakes, StateTypes
<1>3. QED
  BY <1>1, <1>2

-----------------------------------------------------------------------------
(* Types.                                                                  *)

\* A session that was opened stays one that was.
LEMMA OpenedGrows ==
  ASSUME StateTypes, opened' \in opened..MaxSessions
  PROVE  /\ \A s \in {None} \cup 1..opened : s \in {None} \cup 1..opened'
         /\ handle \in [VoiceTasks -> {None} \cup 1..opened']
         /\ opened' \in 0..MaxSessions
  BY Apart DEF StateTypes

\* Every step keeps the types of the states.
LEMMA StateTypesStep ==
  ASSUME StateTypes, [Next]_vars
  PROVE  StateTypes'
<1>0. opened \in 0..MaxSessions /\ bridge \in {None} \cup 1..opened /\ handle \in [VoiceTasks -> {None} \cup 1..opened]
  BY DEF StateTypes
<1>1. ASSUME UNCHANGED <<closing, sessionVars, manager, bridgeLock, bridge, task, message, handle>>
      PROVE  StateTypes'
  BY <1>1 DEF StateTypes, sessionVars
<1>2. ASSUME NEW t \in VoiceTasks, Voice(t) PROVE StateTypes'
  <2>1. CASE JoinLocks(t)
    <3>1. UNCHANGED <<closing, opened, session, bridge, manager, message, handle>>
      BY <2>1 DEF JoinLocks, sessionVars, endVars
    <3>2. bridgeLock' \in {t, bridgeLock} /\ (Ended(t) \/ To(t, "join", "wake"))
      BY <2>1 DEF JoinLocks
    <3>3. task' \in [VoiceTasks -> TaskStates]
      BY <3>2, ToFacts, TaskMoves DEF Ended
    <3>4. QED
      BY <3>1, <3>2, <3>3 DEF StateTypes
  <2>1a. CASE JoinReplaces(t)
    <3>1. task' \in [VoiceTasks -> TaskStates]
      BY <2>1a, ToFacts, TaskMoves DEF JoinReplaces
    <3>2. /\ UNCHANGED <<closing, opened, session, manager, message, handle>>
          /\ bridge' = None /\ bridgeLock' = t
      BY <2>1a DEF JoinReplaces, sessionVars, endVars
    <3>3. QED
      BY <3>1, <3>2 DEF StateTypes
  <2>1b. CASE JoinShutsDown(t)
    <3>1. task' \in [VoiceTasks -> TaskStates]
      BY <2>1b, ToFacts, TaskMoves DEF JoinShutsDown, Ended
    <3>2. /\ UNCHANGED <<closing, opened, session, manager, message, handle, bridge>>
          /\ bridgeLock' \in {bridgeLock, None}
      BY <2>1b DEF JoinShutsDown, sessionVars, endVars
    <3>3. QED
      BY <3>1, <3>2 DEF StateTypes
  <2>2. CASE JoinWakes(t)
    <3>1. UNCHANGED <<closing, manager, bridge, message>> /\ bridgeLock' \in {None, bridgeLock}
      BY <2>2 DEF JoinWakes, endVars
    <3>2. task' \in [VoiceTasks -> TaskStates]
      BY <2>2, ToFacts, TaskMoves DEF JoinWakes, Ended
    <3>3. CASE AlreadyHot \/ Wakes
      <4>1. /\ opened' \in opened..MaxSessions /\ opened' > 0 /\ session' = opened'
        BY <3>3, HotFacts
      <4>2. handle' = [handle EXCEPT ![t] = session'] \/ handle' = handle
        BY <2>2 DEF JoinWakes
      <4>3. session' \in 1..opened'
        BY <4>1, <1>0, Apart
      <4>4. handle' \in [VoiceTasks -> {None} \cup 1..opened']
        BY <4>1, <4>2, <4>3, OpenedGrows
      <4>5. bridge' \in {None} \cup 1..opened' /\ opened' \in 0..MaxSessions
        BY <1>0, <3>1, <4>1, OpenedGrows
      <4>6. QED
        BY <3>1, <3>2, <4>1, <4>4, <4>5 DEF StateTypes
    <3>4. CASE WakeFails /\ UNCHANGED handle
      BY <3>1, <3>2, <3>4 DEF WakeFails, sessionVars, StateTypes
    <3>5. QED
      BY <2>2, <3>3, <3>4 DEF JoinWakes
  <2>3. CASE JoinAttaches(t)
    <3>1. task' \in [VoiceTasks -> TaskStates]
      BY <2>3, ToFacts, TaskMoves DEF JoinAttaches, Ended
    <3>2. bridge' \in {None} \cup 1..opened
      BY <2>3 DEF JoinAttaches, StateTypes
    <3>3. UNCHANGED <<closing, opened, session, manager, message, handle>> /\ bridgeLock' = None
      BY <2>3 DEF JoinAttaches, sessionVars, endVars
    <3>4. QED
      BY <3>1, <3>2, <3>3 DEF StateTypes
  <2>4. CASE AttachFails(t)
    <3>1. task' \in [VoiceTasks -> TaskStates]
      BY <2>4, ToFacts, TaskMoves DEF AttachFails, Ended
    <3>2. /\ UNCHANGED <<closing, opened, session, manager, message, handle>>
          /\ bridge' \in {bridge, None} /\ bridgeLock' \in {bridgeLock, None}
      BY <2>4 DEF AttachFails, sessionVars, endVars
    <3>3. QED
      BY <3>1, <3>2 DEF StateTypes
  <2>5. CASE LeaveTakes(t)
    <3>1. task' \in [VoiceTasks -> TaskStates]
      BY <2>5, ToFacts, TaskMoves DEF LeaveTakes, Ended
    <3>2. /\ UNCHANGED <<closing, opened, session, manager, message, handle>>
          /\ bridge' \in {bridge, None} /\ bridgeLock' \in {bridgeLock, None}
      BY <2>5 DEF LeaveTakes, sessionVars, endVars
    <3>3. QED
      BY <3>1, <3>2 DEF StateTypes
  <2>6. CASE LeaveShutsDown(t)
    <3>1. task' \in [VoiceTasks -> TaskStates]
      BY <2>6, ToFacts, TaskMoves DEF LeaveShutsDown, Ended
    <3>2. /\ UNCHANGED <<closing, opened, session, manager, message, handle>>
          /\ bridge' \in {bridge, None} /\ bridgeLock' \in {bridgeLock, None}
      BY <2>6 DEF LeaveShutsDown, sessionVars, endVars
    <3>3. QED
      BY <3>1, <3>2 DEF StateTypes
  <2>7. CASE ShutdownFails(t)
    <3>1. task' \in [VoiceTasks -> TaskStates]
      BY <2>7, ToFacts, TaskMoves DEF ShutdownFails, Ended
    <3>2. /\ UNCHANGED <<closing, opened, session, manager, message, handle>>
          /\ bridge' \in {bridge, None} /\ bridgeLock' \in {bridgeLock, None}
      BY <2>7 DEF ShutdownFails, sessionVars, endVars
    <3>3. QED
      BY <3>1, <3>2 DEF StateTypes
  <2>8. CASE LeaveForgets(t)
    <3>1. task' \in [VoiceTasks -> TaskStates]
      BY <2>8, ToFacts, TaskMoves DEF LeaveForgets, Ended
    <3>2. /\ UNCHANGED <<closing, opened, session, manager, message, handle>>
          /\ bridge' \in {bridge, None} /\ bridgeLock' \in {bridgeLock, None}
      BY <2>8 DEF LeaveForgets, sessionVars, endVars
    <3>3. QED
      BY <3>1, <3>2 DEF StateTypes
  <2>9. QED
    BY <1>2, <2>1, <2>1a, <2>1b, <2>2, <2>3, <2>4, <2>5, <2>6, <2>7, <2>8 DEF Voice
<1>3. ASSUME NEW t \in Moves, OwnerMoves(t) \/ GuildSync(t) PROVE StateTypes'
  <2>1. UNCHANGED <<closing, opened, session, manager, message, handle, bridge, bridgeLock>>
    BY <1>3 DEF OwnerMoves, GuildSync, sessionVars, endVars
  <2>2. To(t, "join", "start") \/ To(t, "leave", "start")
    BY <1>3 DEF OwnerMoves, GuildSync
  <2>3. task' \in [VoiceTasks -> TaskStates]
    BY <2>2, ToFacts, TaskMoves DEF VoiceTasks
  <2>4. QED
    BY <2>1, <2>3 DEF StateTypes
<1>4. CASE PushFails
  <2>1. UNCHANGED <<closing, opened, session, manager, message, handle, bridge, bridgeLock>>
    BY <1>4 DEF PushFails, LockReleased, sessionVars, endVars
  <2>2. task' \in [VoiceTasks -> TaskStates]
    BY <1>4, ToFacts, TaskMoves DEF PushFails, VoiceTasks
  <2>3. QED
    BY <2>1, <2>2 DEF StateTypes
<1>5. ASSUME NEW m \in Messages, MessagePosted(m) PROVE StateTypes'
  BY <1>5 DEF MessagePosted, endVars, sessionVars, voiceVars, StateTypes
<1>6. ASSUME NEW m \in Messages, MessageWakes(m) PROVE StateTypes'
  <2>1. UNCHANGED <<closing, bridge, bridgeLock, task, handle>>
    BY <1>6 DEF MessageWakes, endVars, voiceVars
  <2>2. /\ message' \in [Messages -> {"new", "wake", "send", "sent", "failed"}]
        /\ manager' \in Messages \cup {None}
    BY <1>6 DEF MessageWakes, Keep, StateTypes
  <2>3. CASE AlreadyHot \/ Wakes
    <3>1. /\ opened' \in opened..MaxSessions /\ opened' > 0 /\ session' = opened'
      BY <2>3, HotFacts
    <3>2. bridge' \in {None} \cup 1..opened' /\ opened' \in 0..MaxSessions
          /\ handle' \in [VoiceTasks -> {None} \cup 1..opened']
      BY <1>0, <2>1, <3>1, OpenedGrows
    <3>3. QED
      BY <2>1, <2>2, <3>1, <3>2 DEF StateTypes
  <2>4. CASE WakeFails
    BY <2>1, <2>2, <2>4 DEF WakeFails, sessionVars, StateTypes
  <2>5. QED
    BY <1>6, <2>3, <2>4 DEF MessageWakes
<1>7. ASSUME NEW m \in Messages, MessageSent(m) PROVE StateTypes'
  BY <1>7 DEF MessageSent, endVars, sessionVars, voiceVars, StateTypes
<1>8. CASE Output \/ TurnEnds \/ VoiceTurnEnds \/ IdleElapses \/ Look \/ Arm \/ Fire \/ Evaluate
  BY <1>1, <1>8 DEF Output, TurnEnds, VoiceTurnEnds, ReplyEnds, IdleElapses, Look, Arm, Fire, Evaluate,
       endVars, voiceVars
<1>9. CASE Decide
  BY <1>9 DEF Decide, EnterDormant, endVars, sessionVars, voiceVars, StateTypes
<1>10. CASE Stop
  BY <1>10 DEF Stop, sessionVars, voiceVars, StateTypes
<1>11. CASE Close
  BY <1>11 DEF Close, CloseLeaves, CloseLeaveFails, CloseDormant, EnterDormant, sessionVars, voiceVars,
       StateTypes
<1>12. CASE SessionEnds
  BY <1>12 DEF SessionEnds, endVars, voiceVars, StateTypes
<1>13. CASE UNCHANGED vars
  BY <1>1, <1>13 DEF vars, endVars, voiceVars
<1>14. QED
  BY <1>2, <1>3, <1>4, <1>5, <1>6, <1>7, <1>8, <1>9, <1>10, <1>11, <1>12, <1>13
  DEF Next, Forward, IdleStep

\* Every step keeps the types of the flags.
LEMMA FlagTypesStep ==
  ASSUME FlagTypes, [Next]_vars
  PROVE  FlagTypes'
<1> USE DEF FlagTypes, endVars, sessionVars, voiceVars, turnVars
<1>1. ASSUME NEW t \in Moves, OwnerMoves(t) \/ GuildSync(t) PROVE FlagTypes'
  BY <1>1, Zenon DEF OwnerMoves, GuildSync
<1>2. ASSUME NEW t \in VoiceTasks, JoinLocks(t) PROVE FlagTypes'
  BY <1>2, Zenon DEF JoinLocks
<1>2a. ASSUME NEW t \in VoiceTasks, JoinReplaces(t) PROVE FlagTypes'
  BY <1>2a, Zenon DEF JoinReplaces
<1>2b. ASSUME NEW t \in VoiceTasks, JoinShutsDown(t) PROVE FlagTypes'
  BY <1>2b, Zenon DEF JoinShutsDown
<1>3. ASSUME NEW t \in VoiceTasks, JoinWakes(t) PROVE FlagTypes'
  BY <1>3, Zenon DEF JoinWakes, AlreadyHot, Wakes, WakeFails
<1>4. ASSUME NEW t \in VoiceTasks, JoinAttaches(t) PROVE FlagTypes'
  BY <1>4, Zenon DEF JoinAttaches
<1>5. ASSUME NEW t \in VoiceTasks, AttachFails(t) PROVE FlagTypes'
  BY <1>5, Zenon DEF AttachFails
<1>6. ASSUME NEW t \in VoiceTasks, LeaveTakes(t) PROVE FlagTypes'
  BY <1>6, Zenon DEF LeaveTakes
<1>7. ASSUME NEW t \in VoiceTasks, LeaveShutsDown(t) PROVE FlagTypes'
  BY <1>7, Zenon DEF LeaveShutsDown
<1>8. ASSUME NEW t \in VoiceTasks, ShutdownFails(t) PROVE FlagTypes'
  BY <1>8, Zenon DEF ShutdownFails
<1>9. ASSUME NEW t \in VoiceTasks, LeaveForgets(t) PROVE FlagTypes'
  BY <1>9, Zenon DEF LeaveForgets
<1>10. CASE PushFails
  BY <1>10, Zenon DEF PushFails
<1>11. ASSUME NEW m \in Messages, MessagePosted(m) PROVE FlagTypes'
  BY <1>11, Zenon DEF MessagePosted
<1>12. ASSUME NEW m \in Messages, MessageWakes(m) PROVE FlagTypes'
  BY <1>12, Zenon DEF MessageWakes, AlreadyHot, Wakes, WakeFails
<1>13. ASSUME NEW m \in Messages, MessageSent(m) PROVE FlagTypes'
  <2>1. (pending' > 0) \in BOOLEAN
    OBVIOUS
  <2>2. QED
    BY <1>13, <2>1, Zenon DEF MessageSent
<1>14. CASE Output
  BY <1>14, Zenon DEF Output
<1>15. CASE TurnEnds
  <2>1. (pending' > 0) \in BOOLEAN
    OBVIOUS
  <2>2. QED
    BY <1>15, <2>1, Zenon DEF TurnEnds, ReplyEnds
<1>16. CASE VoiceTurnEnds
  <2>1. (pending' > 0) \in BOOLEAN
    OBVIOUS
  <2>2. QED
    BY <1>16, <2>1, Zenon DEF VoiceTurnEnds, ReplyEnds
<1>17. CASE Look
  BY <1>17, Zenon DEF Look
<1>18. CASE Arm
  BY <1>18, Zenon DEF Arm
<1>19. CASE Fire
  BY <1>19, Zenon DEF Fire
<1>20. CASE Evaluate
  BY <1>20, Zenon DEF Evaluate
<1>21. CASE Decide
  BY <1>21, Zenon DEF Decide, EnterDormant
<1>22. CASE IdleElapses
  BY <1>22, Zenon DEF IdleElapses
<1>23. CASE Stop
  BY <1>23, Zenon DEF Stop
<1>24. CASE CloseLeaves
  BY <1>24, Zenon DEF CloseLeaves
<1>25. CASE CloseLeaveFails
  BY <1>25, Zenon DEF CloseLeaveFails
<1>26. CASE CloseDormant
  BY <1>26, Zenon DEF CloseDormant, EnterDormant
<1>27. CASE SessionEnds
  BY <1>27, Zenon DEF SessionEnds
<1>28. CASE UNCHANGED vars
  BY <1>28, Zenon DEF vars
<1>29. QED
  BY <1>1, <1>2, <1>2a, <1>2b, <1>3, <1>4, <1>5, <1>6, <1>7, <1>8, <1>9, <1>10, <1>11, <1>12, <1>13, <1>14, <1>15, <1>16, <1>17, <1>18, <1>19, <1>20, <1>21, <1>22, <1>23, <1>24, <1>25, <1>26, <1>27, <1>28
  DEF Next, Voice, Forward, IdleStep, Close

-----------------------------------------------------------------------------
(* The locks.                                                              *)

\* A step of a task that takes, keeps or releases the lock as its place says.
LEMMA LockMoves ==
  ASSUME StateTypes, LockInv, NEW t \in VoiceTasks, NEW doing, NEW pc, To(t, doing, pc),
         <<doing, pc>> \in TaskStates,
         IF <<doing, pc>> \in {<<"join", "replace">>, <<"join", "wake">>, <<"join", "attach">>}
         THEN bridgeLock' = t /\ bridgeLock \in {None, t}
         ELSE bridgeLock' = (IF bridgeLock = t THEN None ELSE bridgeLock)
  PROVE  LockInv'
<1> SUFFICES ASSUME NEW u \in VoiceTasks PROVE Joining(u)' <=> bridgeLock' = u
  BY DEF LockInv
<1>1. task'[t] = <<doing, pc>> /\ (u # t => task'[u] = task[u])
  BY ToFacts
<1>2. CASE u = t
  BY <1>1, <1>2, Apart DEF Joining
<1>3. CASE u # t
  <2>1. Joining(u)' <=> Joining(u)
    BY <1>1, <1>3 DEF Joining
  <2>2. Joining(u) <=> bridgeLock = u
    BY DEF LockInv
  <2>3. bridgeLock' = u <=> bridgeLock = u
    BY <1>3, Apart
  <2>4. QED
    BY <2>1, <2>2, <2>3
<1>4. QED
  BY <1>2, <1>3

\* The lock is with the task that joins, at every step.
LEMMA LockStep ==
  ASSUME StateTypes, LockInv, [Next]_vars
  PROVE  LockInv'
<1> USE TaskMoves
<1>1. ASSUME UNCHANGED <<task, bridgeLock>> PROVE LockInv'
  BY <1>1 DEF LockInv, Joining
<1>2. ASSUME NEW t \in VoiceTasks PROVE Joining(t) <=> bridgeLock = t
  BY DEF LockInv
<1>3. ASSUME NEW t \in VoiceTasks, JoinLocks(t) PROVE LockInv'
  <2>1. bridgeLock = None /\ ~Joining(t)
    BY <1>3 DEF JoinLocks, At, Joining
  <2>2. CASE Ended(t) /\ UNCHANGED bridgeLock
    BY <2>1, <2>2, LockMoves, Apart DEF Ended
  <2>3. CASE To(t, "join", "wake") /\ bridgeLock' = t
    BY <2>1, <2>3, LockMoves
  <2>4. QED
    BY <1>3, <2>2, <2>3 DEF JoinLocks
<1>3a. ASSUME NEW t \in VoiceTasks, JoinReplaces(t) PROVE LockInv'
  <2>1. bridgeLock = None /\ bridgeLock' = t /\ To(t, "join", "replace")
    BY <1>3a DEF JoinReplaces
  <2>2. QED
    BY <2>1, LockMoves
<1>3b. ASSUME NEW t \in VoiceTasks, JoinShutsDown(t) PROVE LockInv'
  <2>1. bridgeLock = t
    BY <1>2, <1>3b DEF JoinShutsDown, At, Joining
  <2>2. CASE To(t, "join", "wake") /\ UNCHANGED bridgeLock
    BY <2>1, <2>2, LockMoves
  <2>3. CASE Ended(t) /\ bridgeLock' = None
    BY <2>1, <2>3, LockMoves DEF Ended
  <2>4. QED
    BY <1>3b, <2>2, <2>3 DEF JoinShutsDown
<1>4. ASSUME NEW t \in VoiceTasks, JoinWakes(t) PROVE LockInv'
  <2>1. bridgeLock = t
    BY <1>2, <1>4 DEF JoinWakes, At, Joining
  <2>2. CASE To(t, "join", "attach") /\ UNCHANGED bridgeLock
    BY <2>1, <2>2, LockMoves
  <2>3. CASE Ended(t) /\ bridgeLock' = None
    BY <2>1, <2>3, LockMoves DEF Ended
  <2>4. QED
    BY <1>4, <2>2, <2>3 DEF JoinWakes
<1>5. ASSUME NEW t \in VoiceTasks, JoinAttaches(t) \/ AttachFails(t) PROVE LockInv'
  <2>1. bridgeLock = t
    BY <1>2, <1>5 DEF JoinAttaches, AttachFails, At, Joining
  <2>2. Ended(t) /\ bridgeLock' = None
    BY <1>5 DEF JoinAttaches, AttachFails
  <2>3. QED
    BY <2>1, <2>2, LockMoves DEF Ended
<1>6. ASSUME NEW t \in VoiceTasks, ~Joining(t), bridgeLock' = bridgeLock,
             \/ Ended(t) \/ To(t, "leave", "shutdown") \/ To(t, "leave", "forget")
             \/ To(t, "leave", "start") \/ To(t, "join", "start")
      PROVE  LockInv'
  <2>1. bridgeLock # t
    BY <1>2, <1>6
  <2>2. QED
    BY <1>6, <2>1, LockMoves DEF Ended
<1>7. ASSUME NEW t \in VoiceTasks, LeaveTakes(t) \/ LeaveShutsDown(t) \/ ShutdownFails(t) \/ LeaveForgets(t)
      PROVE  LockInv'
  <2>1. ~Joining(t) /\ bridgeLock' = bridgeLock
    BY <1>7 DEF LeaveTakes, LeaveShutsDown, ShutdownFails, LeaveForgets, At, Joining
  <2>2. Ended(t) \/ To(t, "leave", "shutdown") \/ To(t, "leave", "forget")
    BY <1>7 DEF LeaveTakes, LeaveShutsDown, ShutdownFails, LeaveForgets
  <2>3. QED
    BY <1>6, <2>1, <2>2
<1>8. ASSUME NEW t \in Moves, OwnerMoves(t) \/ GuildSync(t) PROVE LockInv'
  <2>1. t \in VoiceTasks /\ ~Joining(t) /\ bridgeLock' = bridgeLock
    BY <1>8 DEF OwnerMoves, GuildSync, At, Joining, VoiceTasks
  <2>2. To(t, "leave", "start") \/ To(t, "join", "start")
    BY <1>8 DEF OwnerMoves, GuildSync
  <2>3. QED
    BY <1>6, <2>1, <2>2
<1>9. CASE PushFails
  <2>1. Pump \in VoiceTasks
    BY DEF VoiceTasks
  <2>2. bridgeLock' = bridgeLock /\ To(Pump, "leave", "start") /\ bridgeLock # Pump
    BY <1>9, <2>1, Apart DEF PushFails, LockReleased
  <2>3. ~Joining(Pump)
    BY <1>2, <2>1, <2>2
  <2>4. QED
    BY <1>6, <2>1, <2>2, <2>3
<1>10. CASE UNCHANGED voiceVars
  BY <1>1, <1>10 DEF voiceVars
<1>11. CASE Close
  BY <1>1, <1>11 DEF Close, CloseLeaves, CloseLeaveFails, CloseDormant, voiceVars
<1>12. ASSUME NEW m \in Messages, MessagePosted(m) \/ Forward(m) PROVE UNCHANGED voiceVars
  BY <1>12 DEF MessagePosted, Forward, MessageWakes, MessageSent
<1>13. CASE Output \/ TurnEnds \/ VoiceTurnEnds \/ IdleStep \/ IdleElapses \/ Stop \/ SessionEnds
            \/ UNCHANGED vars
  BY <1>10, <1>13 DEF Output, TurnEnds, VoiceTurnEnds, ReplyEnds, IdleStep, Look, Arm, Fire, Evaluate, Decide,
       IdleElapses, Stop, SessionEnds, vars
<1>14. QED
  BY <1>3, <1>3a, <1>3b, <1>4, <1>5, <1>7, <1>8, <1>9, <1>10, <1>11, <1>12, <1>13 DEF Next, Voice

\* The manager is with the message that is being sent.
LEMMA ManagerStep ==
  ASSUME StateTypes, ManagerInv, [Next]_vars
  PROVE  ManagerInv'
<1>1. ASSUME UNCHANGED <<message, manager>> PROVE ManagerInv'
  BY <1>1 DEF ManagerInv
<1>2. ASSUME NEW m \in Messages, NEW where, message' = [message EXCEPT ![m] = where]
      PROVE  message'[m] = where /\ \A o \in Messages : o # m => message'[o] = message[o]
  BY <1>2 DEF StateTypes
<1>3. ASSUME NEW m \in Messages, MessagePosted(m) PROVE ManagerInv'
  <2>1. message[m] = "new" /\ message' = [message EXCEPT ![m] = "wake"] /\ manager' = manager
    BY <1>3 DEF MessagePosted
  <2>2. QED
    BY <1>2, <2>1 DEF ManagerInv
<1>4. ASSUME NEW m \in Messages, MessageWakes(m) PROVE ManagerInv'
  <2>1. manager = None /\ \A o \in Messages : message[o] # "send"
    BY <1>4, Apart DEF MessageWakes, ManagerInv
  <2>2. CASE manager' = m /\ message' = [message EXCEPT ![m] = "send"]
    BY <1>2, <2>1, <2>2, Apart DEF ManagerInv
  <2>3. CASE message' = [message EXCEPT ![m] = "failed"] /\ UNCHANGED manager
    BY <1>2, <2>1, <2>3, Apart DEF ManagerInv
  <2>4. QED
    BY <1>4, <2>2, <2>3 DEF MessageWakes, Keep
<1>5. ASSUME NEW m \in Messages, MessageSent(m) PROVE ManagerInv'
  <2>1. manager = m /\ manager' = None
    BY <1>5 DEF MessageSent, ManagerInv
  <2>2. message' = [message EXCEPT ![m] = "sent"] \/ message' = [message EXCEPT ![m] = "failed"]
    BY <1>5 DEF MessageSent
  <2>3. message'[m] # "send" /\ \A o \in Messages : o # m => message'[o] = message[o]
    BY <1>2, <2>2
  <2>4. QED
    BY <2>1, <2>3, Apart DEF ManagerInv
<1>6. ASSUME NEW t \in VoiceTasks, Voice(t) PROVE UNCHANGED <<message, manager>>
  BY <1>6 DEF Voice, JoinLocks, JoinReplaces, JoinShutsDown, JoinWakes, JoinAttaches, AttachFails,
       LeaveTakes, LeaveShutsDown,
       ShutdownFails, LeaveForgets
<1>7. ASSUME NEW t \in Moves, OwnerMoves(t) \/ GuildSync(t) PROVE UNCHANGED <<message, manager>>
  BY <1>7 DEF OwnerMoves, GuildSync
<1>8. CASE PushFails \/ Output \/ TurnEnds \/ VoiceTurnEnds \/ IdleStep \/ IdleElapses \/ Stop \/ Close
           \/ SessionEnds \/ UNCHANGED vars
  BY <1>1, <1>8 DEF PushFails, Output, TurnEnds, VoiceTurnEnds, ReplyEnds, IdleStep, Look, Arm, Fire, Evaluate,
       Decide, IdleElapses, Stop, Close, CloseLeaves, CloseLeaveFails, CloseDormant, SessionEnds, vars
<1>9. QED
  BY <1>1, <1>3, <1>4, <1>5, <1>6, <1>7, <1>8 DEF Next, Forward

-----------------------------------------------------------------------------
(* The bridge and the session.                                             *)

\* The host closes only once it has stopped.
LEMMA StopStep ==
  ASSUME StopInv, [Next]_vars
  PROVE  StopInv'
<1>1. ASSUME UNCHANGED endVars PROVE StopInv'
  BY <1>1 DEF StopInv, endVars
<1>2. CASE Stop
  BY <1>2 DEF Stop, StopInv
<1>3. CASE Close
  BY <1>3 DEF Close, CloseLeaves, CloseLeaveFails, CloseDormant, StopInv
<1>4. CASE UNCHANGED vars
  BY <1>1, <1>4 DEF vars
<1>5. CASE Next /\ ~Stop /\ ~Close
  BY <1>1, <1>5 DEF Next, OwnerMoves, GuildSync, Voice, JoinLocks, JoinReplaces, JoinShutsDown, JoinWakes,
       JoinAttaches, AttachFails, LeaveTakes,
       LeaveShutsDown, ShutdownFails, LeaveForgets, PushFails, MessagePosted, Forward, MessageWakes,
       MessageSent, Output, TurnEnds, VoiceTurnEnds, ReplyEnds, IdleStep, Look, Arm, Fire, Evaluate, Decide,
       IdleElapses, SessionEnds
<1>6. QED
  BY <1>2, <1>3, <1>4, <1>5

\* Only JoinWakes brings a task to the point where it attaches.
LEMMA AttachingBefore ==
  ASSUME StateTypes, [Next]_vars, NEW u \in VoiceTasks, Attaching(u)', ~JoinWakes(u)
  PROVE  Attaching(u) /\ handle'[u] = handle[u]
<1> USE DEF Attaching
<1>1. CASE UNCHANGED <<task, handle>>
  BY <1>1
<1>2. ASSUME NEW t \in VoiceTasks, NEW doing, NEW pc, To(t, doing, pc), <<doing, pc>> \in TaskStates,
             <<doing, pc>> # <<"join", "attach">>
      PROVE  Attaching(u)
  <2>1. task'[t] = <<doing, pc>> /\ (u # t => task'[u] = task[u])
    BY <1>2, ToFacts
  <2>2. QED
    BY <1>2, <2>1
<1>3. ASSUME NEW t \in VoiceTasks, Voice(t), ~JoinWakes(t)
      PROVE  Attaching(u) /\ handle'[u] = handle[u]
  <2>1. Ended(t) \/ To(t, "join", "replace") \/ To(t, "join", "wake") \/ To(t, "leave", "shutdown") \/ To(t, "leave", "forget")
    BY <1>3 DEF Voice, JoinLocks, JoinReplaces, JoinShutsDown, JoinAttaches, AttachFails, LeaveTakes,
         LeaveShutsDown, ShutdownFails,
         LeaveForgets
  <2>2. handle' = handle
    BY <1>3 DEF Voice, JoinLocks, JoinReplaces, JoinShutsDown, JoinAttaches, AttachFails, LeaveTakes,
         LeaveShutsDown, ShutdownFails,
         LeaveForgets
  <2>3. QED
    BY <1>2, <2>1, <2>2, TaskMoves DEF Ended
<1>4. ASSUME NEW t \in VoiceTasks, JoinWakes(t) PROVE Attaching(u) /\ handle'[u] = handle[u]
  <2>1. t # u
    BY <1>4
  <2>2. Ended(t) \/ To(t, "join", "attach")
    BY <1>4 DEF JoinWakes
  <2>3. task'[u] = task[u]
    BY <2>1, <2>2, ToFacts, TaskMoves DEF Ended
  <2>4. handle' = [handle EXCEPT ![t] = session'] \/ handle' = handle
    BY <1>4 DEF JoinWakes
  <2>5. QED
    BY <2>1, <2>3, <2>4 DEF StateTypes
<1>5. ASSUME NEW t \in Moves, OwnerMoves(t) \/ GuildSync(t) PROVE Attaching(u) /\ handle'[u] = handle[u]
  <2>1. t \in VoiceTasks /\ (To(t, "join", "start") \/ To(t, "leave", "start")) /\ handle' = handle
    BY <1>5 DEF OwnerMoves, GuildSync, VoiceTasks
  <2>2. QED
    BY <1>2, <2>1, TaskMoves
<1>6. CASE PushFails
  <2>1. Pump \in VoiceTasks /\ To(Pump, "leave", "start") /\ handle' = handle
    BY <1>6 DEF PushFails, VoiceTasks
  <2>2. QED
    BY <1>2, <2>1, TaskMoves
<1>7. ASSUME NEW m \in Messages, MessagePosted(m) \/ Forward(m) PROVE UNCHANGED <<task, handle>>
  BY <1>7 DEF MessagePosted, Forward, MessageWakes, MessageSent, voiceVars
<1>8. CASE Output \/ TurnEnds \/ VoiceTurnEnds \/ IdleStep \/ IdleElapses \/ Stop \/ Close \/ SessionEnds
           \/ UNCHANGED vars
  BY <1>1, <1>8 DEF Output, TurnEnds, VoiceTurnEnds, ReplyEnds, IdleStep, Look, Arm, Fire, Evaluate, Decide,
       IdleElapses, Stop, Close, CloseLeaves, CloseLeaveFails, CloseDormant, SessionEnds, vars, voiceVars
<1>9. QED
  BY <1>1, <1>3, <1>4, <1>5, <1>6, <1>7, <1>8 DEF Next

\* What JoinWakes gives, when it gives a session.
LEMMA WakesGive ==
  ASSUME StateTypes, LockInv, NEW t \in VoiceTasks, JoinWakes(t), Attaching(t)'
  PROVE  /\ AlreadyHot \/ Wakes
         /\ handle'[t] = session' /\ UNCHANGED <<bridge, endVars>>
         /\ \A u \in VoiceTasks : u # t => ~Attaching(u)'
<1>1. At(t, "join", "wake") /\ UNCHANGED <<bridge, endVars>>
  BY DEF JoinWakes
<1>2. \A u \in VoiceTasks : u # t => ~Attaching(u)
  BY <1>1, Apart DEF LockInv, Joining, Attaching, At
<1>3. CASE Ended(t)
  BY <1>3, ToFacts, TaskMoves DEF Ended, Attaching
<1>4. CASE (AlreadyHot \/ Wakes) /\ handle' = [handle EXCEPT ![t] = session'] /\ To(t, "join", "attach")
  <2>1. \A u \in VoiceTasks : u # t => task'[u] = task[u]
    BY <1>4, ToFacts, TaskMoves
  <2>2. handle'[t] = session'
    BY <1>4 DEF StateTypes
  <2>3. QED
    BY <1>1, <1>2, <1>4, <2>1, <2>2 DEF Attaching
<1>5. QED
  BY <1>3, <1>4 DEF JoinWakes

\* Whoever is to attach a bridge has been given a session.
LEMMA GivenStep ==
  ASSUME StateTypes, LockInv, GivenInv, [Next]_vars
  PROVE  GivenInv'
<1> SUFFICES ASSUME NEW u \in VoiceTasks, Attaching(u)' PROVE handle'[u] # None
  BY DEF GivenInv
<1>1. CASE JoinWakes(u)
  BY <1>1, WakesGive, HotFacts
<1>2. CASE ~JoinWakes(u)
  BY <1>2, AttachingBefore DEF GivenInv
<1>3. QED
  BY <1>1, <1>2

\* A session is closed only while nobody has the manager.
LEMMA WokenStep ==
  ASSUME StateTypes, ManagerInv, WokenIsThere, [Next]_vars
  PROVE  WokenIsThere'
<1> SUFFICES ASSUME NEW m \in Messages, message'[m] = "send" PROVE session' # None
  BY DEF WokenIsThere
<1>1. ASSUME message'[m] = message[m], session' = session \/ session' # None \/ manager = None
      PROVE  session' # None
  BY <1>1, Apart DEF WokenIsThere, ManagerInv
<1>2. ASSUME NEW o \in Messages, MessageWakes(o) PROVE session' # None
  <2>1. CASE AlreadyHot \/ Wakes
    BY <2>1, HotFacts
  <2>2. CASE WakeFails /\ message' = [message EXCEPT ![o] = "failed"]
    <3>1. o # m /\ message'[m] = message[m]
      BY <2>2 DEF StateTypes
    <3>2. QED
      BY <1>1, <2>2, <3>1 DEF WakeFails, sessionVars
  <2>3. QED
    BY <1>2, <2>1, <2>2 DEF MessageWakes
<1>3. ASSUME NEW o \in Messages, MessagePosted(o) \/ MessageSent(o) PROVE session' # None
  <2>1. /\ session' = session
        /\ \/ message' = [message EXCEPT ![o] = "wake"] \/ message' = [message EXCEPT ![o] = "sent"]
           \/ message' = [message EXCEPT ![o] = "failed"]
    BY <1>3 DEF MessagePosted, MessageSent, sessionVars
  <2>2. message'[m] = message[m]
    BY <2>1 DEF StateTypes
  <2>3. QED
    BY <1>1, <2>1, <2>2
<1>4. ASSUME NEW t \in VoiceTasks, JoinWakes(t) PROVE session' # None
  <2>1. CASE AlreadyHot \/ Wakes
    BY <2>1, HotFacts
  <2>2. CASE WakeFails
    BY <1>1, <1>4, <2>2 DEF JoinWakes, WakeFails, sessionVars
  <2>3. QED
    BY <1>4, <2>1, <2>2 DEF JoinWakes
<1>5. ASSUME NEW t \in VoiceTasks, Voice(t), ~JoinWakes(t) PROVE session' # None
  BY <1>1, <1>5 DEF Voice, JoinLocks, JoinReplaces, JoinShutsDown, JoinAttaches, AttachFails, LeaveTakes,
       LeaveShutsDown, ShutdownFails,
       LeaveForgets, sessionVars
<1>6. ASSUME NEW t \in Moves, OwnerMoves(t) \/ GuildSync(t) PROVE session' # None
  BY <1>1, <1>6 DEF OwnerMoves, GuildSync, sessionVars
<1>7. CASE PushFails \/ Output \/ TurnEnds \/ VoiceTurnEnds \/ IdleStep \/ IdleElapses \/ Stop \/ Close
           \/ SessionEnds \/ UNCHANGED vars
  BY <1>1, <1>7 DEF PushFails, Output, TurnEnds, VoiceTurnEnds, ReplyEnds, IdleStep, Look, Arm, Fire, Evaluate,
       Decide, EnterDormant, IdleElapses, Stop, Close, CloseLeaves, CloseLeaveFails, CloseDormant, SessionEnds,
       vars, sessionVars
<1>8. QED
  BY <1>2, <1>3, <1>4, <1>5, <1>6, <1>7 DEF Next, Forward

\* Steps after which less is attached, nothing installed is closed, what is fresh
\* stays so, and the idle loop is no further than before.
Calm ==
  /\ bridge' \in {None, bridge}
  /\ session = None \/ session' = session
  /\ fresh => fresh'
  /\ idleLoop' \in {"evalTurn", "decide"} => idleLoop \in {"evalTurn", "decide"}
  /\ running' => running

\* They keep what is said of the bridge.
LEMMA CalmStep ==
  ASSUME GivenInv, QuietInv, BridgeOnSession, Calm,
         \A u \in VoiceTasks : Attaching(u)' => Attaching(u) /\ handle'[u] = handle[u]
  PROVE  QuietInv' /\ BridgeOnSession'
<1>1. ASSUME running' PROVE BridgeOnSession'
  <2>1. BridgeOnSession /\ running
    BY <1>1 DEF Calm
  <2>2. bridge' \in {None, session'}
    BY <2>1 DEF BridgeOnSession, Calm
  <2>3. ASSUME NEW u \in VoiceTasks, Attaching(u)' PROVE handle'[u] = session'
    <3>1. Attaching(u) /\ handle'[u] = handle[u] /\ handle[u] # None
      BY <2>3 DEF GivenInv
    <3>2. handle[u] = session
      BY <2>1, <3>1 DEF BridgeOnSession, Attaching
    <3>3. QED
      BY <3>1, <3>2 DEF Calm
  <2>4. QED
    BY <2>2, <2>3 DEF BridgeOnSession, Attaching
<1>2. QuietInv'
  BY DEF QuietInv, Calm
<1>3. QED
  BY <1>1, <1>2 DEF BridgeOnSession

\* Dormancy and waking keep the bridge on the installed session.
LEMMA BridgeStep ==
  ASSUME StateTypes, LockInv, GivenInv, QuietInv, StopInv, BridgeOnSession, [Next]_vars
  PROVE  QuietInv' /\ BridgeOnSession'
<1>0. ASSUME \A t \in VoiceTasks : ~JoinWakes(t)
      PROVE  \A u \in VoiceTasks : Attaching(u)' => Attaching(u) /\ handle'[u] = handle[u]
  BY <1>0, AttachingBefore
<1>1. ASSUME NEW t \in VoiceTasks, JoinWakes(t) PROVE QuietInv' /\ BridgeOnSession'
  <2>1. UNCHANGED <<bridge, endVars, idleLoop>>
    BY <1>1 DEF JoinWakes
  <2>2. CASE Attaching(t)'
    <3>1. (AlreadyHot \/ Wakes) /\ handle'[t] = session' /\ \A u \in VoiceTasks : u # t => ~Attaching(u)'
      BY <1>1, <2>2, WakesGive
    <3>2. fresh' = TRUE /\ (session # None => session' = session)
      BY <3>1, HotFacts
    <3>3. running' => bridge' \in {None, session'}
      BY <2>1, <3>2 DEF BridgeOnSession, endVars
    <3>4. BridgeOnSession'
      BY <3>1, <3>3 DEF BridgeOnSession, Attaching
    <3>5. QED
      BY <3>2, <3>4 DEF QuietInv
  <2>3. CASE ~Attaching(t)'
    <3>1. \A u \in VoiceTasks : Attaching(u)' => Attaching(u) /\ handle'[u] = handle[u]
      <4>1. SUFFICES ASSUME NEW u \in VoiceTasks, Attaching(u)', ~JoinWakes(u)
                     PROVE  Attaching(u) /\ handle'[u] = handle[u]
        <5>1. ASSUME NEW u \in VoiceTasks, Attaching(u)' PROVE ~JoinWakes(u)
          <6>1. CASE u = t
            BY <2>3, <5>1, <6>1
          <6>2. CASE u # t
            <7>1. task[t] = <<"join", "wake">>
              BY <1>1 DEF JoinWakes, At
            <7>2. Joining(t)
              BY <7>1 DEF Joining
            <7>3. ~Joining(u)
              BY <6>2, <7>2, Apart DEF LockInv
            <7>4. QED
              BY <7>3 DEF JoinWakes, At, Joining
          <6>3. QED
            BY <6>1, <6>2
        <5>2. QED
          BY <5>1
      <4>2. QED
        BY <4>1, AttachingBefore
    <3>2. Calm
      <4>1. CASE AlreadyHot \/ Wakes
        BY <2>1, <4>1, HotFacts DEF Calm, endVars
      <4>2. CASE WakeFails
        BY <2>1, <4>2 DEF WakeFails, Calm, endVars, sessionVars
      <4>3. QED
        BY <1>1, <4>1, <4>2 DEF JoinWakes
    <3>3. QED
      BY <3>1, <3>2, CalmStep
  <2>4. QED
    BY <2>2, <2>3
<1>2. ASSUME NEW t \in VoiceTasks, JoinAttaches(t), \A u \in VoiceTasks : ~JoinWakes(u)
      PROVE  QuietInv' /\ BridgeOnSession'
  <2>1. /\ Attaching(t) /\ bridge' = handle[t] /\ session' = session /\ fresh' = fresh
        /\ running' = running
    BY <1>2 DEF JoinAttaches, At, Attaching, sessionVars, endVars
  <2>2. idleLoop' \in {"evalTurn", "decide"} => idleLoop \in {"evalTurn", "decide"}
    BY <1>2 DEF JoinAttaches, Notify
  <2>3. QuietInv'
    BY <2>1, <2>2 DEF QuietInv
  <2>4. BridgeOnSession'
    <3>1. ASSUME NEW u \in VoiceTasks, Attaching(u)', running' PROVE handle'[u] = session'
      BY <1>0, <1>2, <2>1, <3>1 DEF BridgeOnSession, Attaching
    <3>2. QED
      BY <2>1, <3>1 DEF BridgeOnSession, Attaching
  <2>5. QED
    BY <2>3, <2>4
<1>3. ASSUME NEW t \in VoiceTasks, Voice(t), ~JoinWakes(t), ~JoinAttaches(t) PROVE Calm
  <2> USE DEF Calm, sessionVars, endVars
  <2>1. CASE JoinLocks(t)
    BY <2>1 DEF JoinLocks
  <2>1a. CASE JoinReplaces(t)
    BY <2>1a DEF JoinReplaces
  <2>1b. CASE JoinShutsDown(t)
    BY <2>1b DEF JoinShutsDown
  <2>2. CASE AttachFails(t)
    BY <2>2 DEF AttachFails
  <2>3. CASE LeaveTakes(t)
    BY <2>3 DEF LeaveTakes
  <2>4. CASE LeaveShutsDown(t)
    BY <2>4 DEF LeaveShutsDown
  <2>5. CASE ShutdownFails(t)
    BY <2>5 DEF ShutdownFails
  <2>6. CASE LeaveForgets(t)
    BY <2>6 DEF LeaveForgets, Notify
  <2>7. QED
    BY <1>3, <2>1, <2>1a, <2>1b, <2>2, <2>3, <2>4, <2>5, <2>6 DEF Voice
<1>4. ASSUME NEW t \in Moves, OwnerMoves(t) \/ GuildSync(t) PROVE Calm
  BY <1>4 DEF OwnerMoves, GuildSync, Calm, sessionVars, endVars
<1>5. ASSUME NEW m \in Messages, MessagePosted(m) \/ MessageSent(m) PROVE Calm
  BY <1>5 DEF MessagePosted, MessageSent, Notify, Calm, sessionVars, voiceVars, endVars
<1>6. ASSUME NEW m \in Messages, MessageWakes(m) PROVE Calm
  <2>1. UNCHANGED <<bridge, running, idleLoop>>
    BY <1>6 DEF MessageWakes, voiceVars, endVars
  <2>2. CASE AlreadyHot \/ Wakes
    BY <2>1, <2>2, HotFacts DEF Calm
  <2>3. CASE WakeFails
    BY <2>1, <2>3 DEF WakeFails, Calm, sessionVars
  <2>4. QED
    BY <1>6, <2>2, <2>3 DEF MessageWakes
<1>7. CASE PushFails \/ Output \/ TurnEnds \/ VoiceTurnEnds \/ Look \/ Arm \/ Fire \/ Stop \/ SessionEnds
           \/ UNCHANGED vars
  <2>1. Calm
    BY <1>7 DEF PushFails, Output, TurnEnds, VoiceTurnEnds, ReplyEnds, Look, Arm, Fire, Stop, SessionEnds,
         Notify,
         Calm, vars, sessionVars, voiceVars, endVars
  <2>2. \A u \in VoiceTasks : Attaching(u)' => Attaching(u) /\ handle'[u] = handle[u]
    <3>1. UNCHANGED <<task, handle>> \/ PushFails
      BY <1>7 DEF Output, TurnEnds, VoiceTurnEnds, ReplyEnds, Look, Arm, Fire, Stop, SessionEnds, vars,
           voiceVars
    <3>2. CASE UNCHANGED <<task, handle>>
      BY <3>2 DEF Attaching
    <3>3. CASE PushFails
      <4>1. Pump \in VoiceTasks /\ To(Pump, "leave", "start") /\ handle' = handle
        BY <3>3 DEF PushFails, VoiceTasks
      <4>2. QED
        BY <4>1, ToFacts, TaskMoves DEF Attaching
    <3>4. QED
      BY <3>1, <3>2, <3>3
  <2>3. QED
    BY <2>1, <2>2, CalmStep
<1>8. ASSUME UNCHANGED voiceVars PROVE \A u \in VoiceTasks : Attaching(u)' => Attaching(u) /\ handle'[u] = handle[u]
  BY <1>8 DEF voiceVars, Attaching
<1>9. CASE IdleElapses
  BY <1>8, <1>9 DEF IdleElapses, QuietInv, BridgeOnSession, voiceVars, sessionVars, endVars
<1>10. CASE Evaluate
  <2>1. UNCHANGED <<voiceVars, sessionVars, endVars, fresh>>
    BY <1>10 DEF Evaluate
  <2>2. CASE idleLoop = "evalBridge" /\ bridgeLock = None /\ idleLoop' = IF NoBridge THEN "evalTurn" ELSE "look"
    <3>1. \A u \in VoiceTasks : ~Attaching(u)
      BY <2>2, Apart DEF LockInv, Joining, Attaching
    <3>2. QuietInv'
      BY <2>1, <2>2, <3>1 DEF QuietInv, NoBridge, voiceVars, Attaching
    <3>3. QED
      BY <2>1, <3>2 DEF BridgeOnSession, voiceVars, sessionVars, endVars
  <2>3. CASE idleLoop = "evalTurn"
    <3>1. Calm
      BY <2>1, <2>3 DEF Calm, voiceVars, sessionVars, endVars
    <3>2. QED
      BY <1>8, <2>1, <3>1, CalmStep
  <2>4. QED
    BY <1>10, <2>2, <2>3 DEF Evaluate
<1>11. CASE Decide
  <2>1. UNCHANGED <<voiceVars, endVars, fresh>> /\ running /\ idleLoop = "decide" /\ idleLoop' = "look"
    BY <1>11 DEF Decide
  <2>2. CASE session # None /\ StillIdle
    <3>1. bridge = None /\ \A u \in VoiceTasks : ~Attaching(u)
      BY <2>1, <2>2 DEF QuietInv, StillIdle
    <3>2. QED
      BY <2>1, <3>1 DEF QuietInv, BridgeOnSession, voiceVars, Attaching
  <2>3. CASE ~(session # None /\ StillIdle)
    <3>1. Calm
      BY <1>11, <2>1, <2>3 DEF Decide, Calm, voiceVars, sessionVars, endVars
    <3>2. QED
      BY <1>8, <2>1, <3>1, CalmStep
  <2>4. QED
    BY <2>2, <2>3
<1>12. CASE Close
  <2>1. ~running /\ running' = running
    BY <1>12 DEF Close, CloseLeaves, CloseLeaveFails, CloseDormant, StopInv
  <2>2. QED
    BY <2>1 DEF QuietInv, BridgeOnSession
<1>13. CASE \A t \in VoiceTasks : ~JoinWakes(t)
  BY <1>0, <1>2, <1>3, <1>4, <1>5, <1>6, <1>7, <1>9, <1>10, <1>11, <1>12, <1>13, CalmStep
  DEF Next, Voice, Forward, IdleStep
<1>14. QED
  BY <1>1, <1>13

-----------------------------------------------------------------------------
(* The counters.                                                           *)

\* The messages of any state are finitely many, and no more than there are.
LEMMA Counted ==
  ASSUME NEW S \in SUBSET Messages
  PROVE  /\ IsFiniteSet(S) /\ Cardinality(S) \in Nat
         /\ Cardinality(Messages) \in Nat /\ Cardinality(S) <= Cardinality(Messages)
  BY HostAssumption, FS_Subset, FS_CardinalityType

\* LessOne takes one off, but never more.
LEMMA LessOneFacts ==
  ASSUME pending \in Nat
  PROVE  LessOne \in Nat /\ LessOne <= pending
  BY DEF LessOne

\* A message adds a pending reply, and a turn the model owes, only once.
LEMMA CountStep ==
  ASSUME StateTypes, CountInv, [Next]_vars
  PROVE  CountInv'
<1>0. /\ pending \in Nat /\ owed \in Nat /\ Cardinality(Messages) \in Nat
      /\ Cardinality(Unposted) \in Nat /\ Cardinality(SentOnes) \in Nat
      /\ pending + Cardinality(Unposted) <= Cardinality(Messages)
      /\ owed <= Cardinality(SentOnes)
  <2>1. Unposted \subseteq Messages /\ SentOnes \subseteq Messages
    BY DEF Unposted, SentOnes
  <2>2. QED
    BY <2>1, Counted DEF CountInv
<1>1. ASSUME pending' \in Nat, owed' \in Nat, pending' <= pending, owed' <= owed, UNCHANGED message
      PROVE  CountInv'
  <2>1. Unposted' = Unposted /\ SentOnes' = SentOnes
    BY <1>1 DEF Unposted, SentOnes
  <2>2. QED
    BY <1>0, <1>1, <2>1 DEF CountInv
<1>2. CASE UNCHANGED <<pending, owed, message>>
  BY <1>0, <1>1, <1>2
<1>3. ASSUME NEW m \in Messages, MessagePosted(m) PROVE CountInv'
  <2>1. /\ pending' = pending + 1 /\ owed' = owed /\ message[m] = "new"
        /\ message' = [message EXCEPT ![m] = "wake"]
    BY <1>3 DEF MessagePosted
  <2>2. Unposted' = Unposted \ {m} /\ m \in Unposted /\ SentOnes' = SentOnes
    BY <2>1 DEF StateTypes, Unposted, SentOnes
  <2>3. Cardinality(Unposted \ {m}) = Cardinality(Unposted) - 1
    <3>1. IsFiniteSet(Unposted)
      BY Counted DEF Unposted
    <3>2. QED
      BY <2>2, <3>1, FS_RemoveElement
  <2>4. QED
    BY <1>0, <2>1, <2>2, <2>3 DEF CountInv
<1>4. ASSUME NEW m \in Messages, MessageWakes(m) PROVE CountInv'
  <2>1. /\ UNCHANGED <<pending, owed>> /\ message[m] = "wake"
        /\ message' = [message EXCEPT ![m] = "send"] \/ message' = [message EXCEPT ![m] = "failed"]
    BY <1>4 DEF MessageWakes, turnVars
  <2>2. Unposted' = Unposted /\ SentOnes' = SentOnes
    BY <2>1 DEF StateTypes, Unposted, SentOnes
  <2>3. QED
    BY <1>0, <2>1, <2>2 DEF CountInv
<1>5. ASSUME NEW m \in Messages, MessageSent(m) PROVE CountInv'
  <2>1. message[m] = "send"
    BY <1>5 DEF MessageSent
  <2>2. CASE alive
    <3>1. message' = [message EXCEPT ![m] = "sent"] /\ owed' = owed + 1 /\ pending' = pending
      BY <1>5, <2>2 DEF MessageSent
    <3>2. Unposted' = Unposted /\ m \notin SentOnes /\ SentOnes' = SentOnes \cup {m}
      BY <2>1, <3>1 DEF StateTypes, Unposted, SentOnes
    <3>3. Cardinality(SentOnes \cup {m}) = Cardinality(SentOnes) + 1
      <4>1. IsFiniteSet(SentOnes)
        BY Counted DEF SentOnes
      <4>2. QED
        BY <3>2, <4>1, FS_AddElement
    <3>4. QED
      BY <1>0, <3>1, <3>2, <3>3 DEF CountInv
  <2>3. CASE ~alive
    <3>1. message' = [message EXCEPT ![m] = "failed"] /\ owed' = owed /\ pending' = LessOne
      BY <1>5, <2>3 DEF MessageSent
    <3>2. Unposted' = Unposted /\ SentOnes' = SentOnes
      BY <2>1, <3>1 DEF StateTypes, Unposted, SentOnes
    <3>3. QED
      BY <1>0, <3>1, <3>2, LessOneFacts DEF CountInv
  <2>4. QED
    BY <2>2, <2>3
<1>6. CASE TurnEnds
  <2>1. owed > 0 /\ owed' = owed - 1 /\ pending' = LessOne /\ message' = message
    BY <1>6 DEF TurnEnds, ReplyEnds
  <2>2. QED
    BY <1>0, <1>1, <2>1, LessOneFacts
<1>7. CASE VoiceTurnEnds
  <2>1. owed' = owed /\ pending' = LessOne /\ message' = message
    BY <1>7 DEF VoiceTurnEnds, ReplyEnds
  <2>2. QED
    BY <1>0, <1>1, <2>1, LessOneFacts
<1>8. CASE SessionEnds
  <2>1. owed' = 0 /\ pending' = pending /\ message' = message
    BY <1>8 DEF SessionEnds
  <2>2. QED
    BY <1>0, <1>1, <2>1
<1>9. ASSUME NEW t \in VoiceTasks, Voice(t) PROVE UNCHANGED <<pending, owed, message>>
  BY <1>9 DEF Voice, JoinLocks, JoinReplaces, JoinShutsDown, JoinWakes, JoinAttaches, AttachFails,
       LeaveTakes, LeaveShutsDown,
       ShutdownFails, LeaveForgets, turnVars
<1>10. ASSUME NEW t \in Moves, OwnerMoves(t) \/ GuildSync(t) PROVE UNCHANGED <<pending, owed, message>>
  BY <1>10 DEF OwnerMoves, GuildSync, turnVars
<1>11. CASE PushFails \/ Output \/ IdleStep \/ IdleElapses \/ Stop \/ Close \/ UNCHANGED vars
  BY <1>2, <1>11 DEF PushFails, Output, IdleStep, Look, Arm, Fire, Evaluate, Decide, IdleElapses, Stop, Close,
       CloseLeaves, CloseLeaveFails, CloseDormant, vars, turnVars
<1>12. QED
  BY <1>2, <1>3, <1>4, <1>5, <1>6, <1>7, <1>8, <1>9, <1>10, <1>11 DEF Next, Forward

-----------------------------------------------------------------------------
(* The theorem.                                                            *)

\* The invariant holds initially.
LEMMA DiscordInit == Init => DiscordInd
<1> SUFFICES ASSUME Init PROVE DiscordInd
  OBVIOUS
<1> USE DEF Init
<1>1. StateTypes
  BY Apart DEF StateTypes, TaskStates
<1>2. FlagTypes
  BY DEF FlagTypes
<1>3. LockInv /\ ManagerInv /\ GivenInv /\ QuietInv /\ StopInv
  BY Apart DEF LockInv, ManagerInv, GivenInv, QuietInv, StopInv, Joining, Attaching
<1>4. BridgeOnSession /\ WokenIsThere
  BY DEF BridgeOnSession, WokenIsThere
<1>5. CountInv
  <2>1. Unposted = Messages /\ SentOnes = {}
    BY DEF Unposted, SentOnes
  <2>2. Cardinality(Messages) \in Nat /\ Cardinality({}) = 0
    BY HostAssumption, FS_CardinalityType, FS_EmptySet
  <2>3. QED
    BY <2>1, <2>2 DEF CountInv
<1>6. QED
  BY <1>1, <1>2, <1>3, <1>4, <1>5 DEF DiscordInd

\* Every step keeps it.
LEMMA DiscordStep == DiscordInd /\ [Next]_vars => DiscordInd'
<1> SUFFICES ASSUME DiscordInd, [Next]_vars PROVE DiscordInd'
  OBVIOUS
<1>1. /\ StateTypes /\ FlagTypes /\ LockInv /\ ManagerInv /\ GivenInv /\ QuietInv /\ StopInv /\ CountInv
      /\ BridgeOnSession /\ WokenIsThere
  BY DEF DiscordInd
<1>2. StateTypes' /\ FlagTypes'
  BY <1>1, StateTypesStep, FlagTypesStep
<1>3. LockInv' /\ ManagerInv' /\ StopInv' /\ CountInv'
  BY <1>1, LockStep, ManagerStep, StopStep, CountStep
<1>4. GivenInv' /\ WokenIsThere' /\ QuietInv' /\ BridgeOnSession'
  BY <1>1, GivenStep, WokenStep, BridgeStep
<1>5. QED
  BY <1>2, <1>3, <1>4 DEF DiscordInd

\* Under every interleaving of the handlers, the loops and the end: the bridge, and
\* one being attached, are on the installed session, and a message that has woken
\* a session finds it there.
THEOREM VoiceStaysOnSession == Spec => []DiscordInv
<1>1. DiscordInd => DiscordInv
  <2> SUFFICES ASSUME DiscordInd PROVE DiscordInv
    OBVIOUS
  <2>1. pending \in 0..Cardinality(Messages) /\ owed \in 0..Cardinality(Messages)
    <3>1. Unposted \subseteq Messages /\ SentOnes \subseteq Messages
      BY DEF Unposted, SentOnes
    <3>2. /\ Cardinality(Unposted) \in Nat /\ Cardinality(SentOnes) \in Nat
          /\ Cardinality(SentOnes) <= Cardinality(Messages) /\ Cardinality(Messages) \in Nat
      BY <3>1, Counted
    <3>3. QED
      BY <3>2 DEF DiscordInd, CountInv
  <2>2. {running, owner, inCall, alive, fresh, turn} \subseteq BOOLEAN
    BY DEF DiscordInd, FlagTypes
  <2>3. \A t \in VoiceTasks : task[t] \in TaskStates
    BY DEF DiscordInd, StateTypes
  <2>4. TypeOK
    BY <2>1, <2>2, <2>3 DEF TypeOK, DiscordInd, StateTypes, TaskStates
  <2>5. QED
    BY <2>4 DEF DiscordInv, DiscordInd
<1>2. QED
  BY DiscordInit, DiscordStep, <1>1, PTL DEF Spec

=============================================================================
