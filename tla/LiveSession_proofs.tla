------------------------- MODULE LiveSession_proofs -------------------------
(***************************************************************************)
(* Theorems of LiveSession, for any number of handles and any bounds: type *)
(* correctness, that no command is forgotten or written twice, that each   *)
(* lane is written in the order it was accepted, that a closed session     *)
(* stays closed, and that the session implements CommandDelivery.          *)
(*                                                                         *)
(* Only six actions touch the commands.  The others leave commandVars      *)
(* unchanged, and the strengthened invariant mentions nothing else.        *)
(***************************************************************************)
EXTENDS LiveSession, SequenceTheorems, TLAPS

-----------------------------------------------------------------------------
(* Sequences of commands.                                                  *)

\* What is left of a sequence of numbered items when its head is taken.
LEMMA TailFacts ==
  ASSUME NEW S, NEW s \in Seq(S), s # <<>>
  PROVE  /\ Head(s) \in S /\ Head(s) = s[1] /\ 1 \in DOMAIN s
         /\ Tail(s) \in Seq(S)
         /\ Len(Tail(s)) = Len(s) - 1
         /\ \A i \in DOMAIN Tail(s) : i + 1 \in DOMAIN s /\ Tail(s)[i] = s[i + 1]
  OBVIOUS

\* The items of a sequence have the type it is a sequence of.
LEMMA Items ==
  ASSUME NEW S, NEW s \in Seq(S)
  PROVE  \A i \in DOMAIN s : s[i] \in S
  OBVIOUS

\* The head is the only item that leaves.
LEMMA IdsOfTail ==
  ASSUME NEW S, NEW s \in Seq(S), s # <<>>
  PROVE  Ids(s) = {Head(s).id} \cup Ids(Tail(s))
<1>1. \A i \in DOMAIN s : s[i].id \in {Head(s).id} \cup Ids(Tail(s))
  <2>1. TAKE i \in DOMAIN s
  <2>2. CASE i = 1
    BY <2>2, TailFacts
  <2>3. CASE i # 1
    <3>1. i - 1 \in DOMAIN Tail(s) /\ Tail(s)[i - 1] = s[i]
      BY <2>1, <2>3, TailFacts
    <3>2. QED
      BY <3>1 DEF Ids
  <2>4. QED
    BY <2>2, <2>3
<1>2. Ids(Tail(s)) \subseteq Ids(s)
  BY TailFacts DEF Ids
<1>3. Head(s).id \in Ids(s)
  BY TailFacts DEF Ids
<1>4. QED
  BY <1>1, <1>2, <1>3 DEF Ids

\* An appended item is the only one that arrives.
LEMMA IdsOfAppend ==
  ASSUME NEW S, NEW s \in Seq(S), NEW e \in S
  PROVE  /\ Append(s, e) \in Seq(S)
         /\ Len(Append(s, e)) = Len(s) + 1
         /\ \A i \in DOMAIN s : i \in DOMAIN Append(s, e) /\ Append(s, e)[i] = s[i]
         /\ Len(s) + 1 \in DOMAIN Append(s, e) /\ Append(s, e)[Len(s) + 1] = e
         /\ \A i \in DOMAIN Append(s, e) : i \in DOMAIN s \/ i = Len(s) + 1
         /\ Ids(Append(s, e)) = Ids(s) \cup {e.id}
<1>1. /\ Append(s, e) \in Seq(S)
      /\ Len(Append(s, e)) = Len(s) + 1
      /\ \A i \in DOMAIN s : i \in DOMAIN Append(s, e) /\ Append(s, e)[i] = s[i]
      /\ Len(s) + 1 \in DOMAIN Append(s, e) /\ Append(s, e)[Len(s) + 1] = e
      /\ \A i \in DOMAIN Append(s, e) : i \in DOMAIN s \/ i = Len(s) + 1
  OBVIOUS
<1>2. Ids(Append(s, e)) = Ids(s) \cup {e.id}
  BY <1>1 DEF Ids
<1>3. QED
  BY <1>1, <1>2

-----------------------------------------------------------------------------
(* Type correctness.                                                       *)

\* What a server message is turned into is a sequence of events.
LEMMA IntoEventsType ==
  ASSUME NEW msg \in Message
  PROVE  IntoEvents(msg) \in Seq(Events)
  BY DEF IntoEvents, Message, Events

\* The command that is taken from the channel or from the deferred ones.
LEMMA PopType ==
  ASSUME TypeOK, HasCommand, PopCommand
  PROVE  /\ NextCommand \in Command
         /\ queue' \in Seq(Command) /\ Len(queue') <= Len(queue)
         /\ pending' \in Seq(Command)
<1>1. queue \in Seq(Command) /\ pending \in Seq(Command)
  BY DEF TypeOK
<1>2. CASE FromPending
  <2>1. pending # <<>>
    BY <1>2 DEF FromPending
  <2>2. Head(pending) \in Command /\ Tail(pending) \in Seq(Command)
    BY <1>1, <2>1, TailFacts
  <2>3. NextCommand = Head(pending) /\ pending' = Tail(pending) /\ queue' = queue
    BY <1>2 DEF PopCommand, NextCommand
  <2>4. QED
    BY <1>1, <2>2, <2>3
<1>3. CASE ~FromPending
  <2>1. queue # <<>>
    BY <1>3 DEF HasCommand
  <2>2. Head(queue) \in Command /\ Tail(queue) \in Seq(Command) /\ Len(Tail(queue)) = Len(queue) - 1
    BY <1>1, <2>1, TailFacts
  <2>3. NextCommand = Head(queue) /\ queue' = Tail(queue) /\ pending' = pending
    BY <1>3 DEF PopCommand, NextCommand
  <2>4. QED
    BY <1>1, <2>2, <2>3
<1>4. QED
  BY <1>2, <1>3

\* A session that has just connected is well typed.
LEMMA TypeInit == Init => TypeOK
<1>1. SUFFICES ASSUME Init PROVE TypeOK
  OBVIOUS
<1>2. handles \in [Handles -> {"unused", "live", "dropped"}]
  BY <1>1 DEF Init
<1>3. QED
  BY <1>1, <1>2, ConstantsAssumption DEF Init, TypeOK, Reasons, NoHandle

\* The handles: no operation of theirs breaks a type.
LEMMA TypeCaller ==
  ASSUME TypeOK, NEW h \in Handles, Caller(h)
  PROVE  TypeOK'
<1> USE DEF commandVars, runnerVars, connVars, eventVars
<1>a. ASSUME NEW kind \in Kinds, Accept(kind)
      PROVE  queue' \in Seq(Command) /\ Len(queue') <= QueueCap /\ nextId' \in Nat \ {0}
  <2>1. [id |-> nextId, kind |-> kind] \in Command
    BY DEF TypeOK, Command
  <2>2. queue \in Seq(Command) /\ Len(queue) < QueueCap
    BY <1>a DEF TypeOK, Accept
  <2>3. queue' = Append(queue, [id |-> nextId, kind |-> kind])
    BY <1>a DEF Accept
  <2>4. queue' \in Seq(Command) /\ Len(queue') = Len(queue) + 1
    BY <2>1, <2>2, <2>3, IdsOfAppend
  <2>5. QED
    BY <1>a, <2>2, <2>4, ConstantsAssumption DEF TypeOK, Accept
<1>1. ASSUME NEW kind \in Kinds, Send(h, kind) PROVE TypeOK'
  <2>1. queue' \in Seq(Command) /\ Len(queue') <= QueueCap /\ nextId' \in Nat \ {0}
    BY <1>1, <1>a DEF Send
  <2>2. UNCHANGED <<policy, handles, pending, wire, lost, runnerVars, connVars, published, eventVars>>
    BY <1>1 DEF Send
  <2>3. QED
    BY <2>1, <2>2 DEF TypeOK
<1>2. CASE Close(h)
  <2>1. queue' \in Seq(Command) /\ Len(queue') <= QueueCap /\ nextId' \in Nat \ {0}
    <3>1. CASE Accept("close")
      BY <3>1, <1>a DEF Kinds
    <3>2. CASE UNCHANGED <<queue, nextId>>
      BY <3>2 DEF TypeOK
    <3>3. QED
      BY <1>2, <3>1, <3>2 DEF Close
  <2>2. handles' \in [Handles -> {"unused", "live", "dropped"}]
    BY <1>2 DEF Close, TypeOK
  <2>3. UNCHANGED <<policy, pending, wire, lost, runnerVars, connVars, published, eventVars>>
    BY <1>2 DEF Close
  <2>4. QED
    BY <2>1, <2>2, <2>3 DEF TypeOK
<1>3. ASSUME NEW g \in Handles, Clone(h, g) PROVE TypeOK'
  BY <1>3 DEF Clone, TypeOK
<1>4. CASE Drop(h)
  BY <1>4 DEF Drop, TypeOK
<1>5. CASE NextObservedEvent(h)
  <2>1. cursor \in [Handles -> Nat \ {0}] /\ published \in Seq(Events) /\ Len(published) \in Nat
    BY DEF TypeOK
  <2>2. cursor[h] + 1 \in Nat \ {0} /\ (Lagging(h) => Len(published) + 1 - EventCap \in Nat \ {0})
    BY <2>1, ConstantsAssumption DEF Lagging
  <2>3. cursor' \in [Handles -> Nat \ {0}]
    BY <1>5, <2>1, <2>2 DEF NextObservedEvent
  <2>4. published[cursor[h]] \in Events
    BY <1>5, <2>1 DEF NextObservedEvent
  <2>5. heard' \in [Handles -> Events \cup {"none"}]
    BY <1>5, <2>4 DEF NextObservedEvent, TypeOK
  <2>6. UNCHANGED <<policy, handles, commandVars, runnerVars, connVars, published, joined>>
    BY <1>5 DEF NextObservedEvent
  <2>7. QED
    BY <2>3, <2>5, <2>6 DEF TypeOK
<1>6. QED
  BY <1>1, <1>2, <1>3, <1>4, <1>5 DEF Caller

\* The runner, taking commands.
LEMMA TypeTakeCommand ==
  ASSUME TypeOK, TakeCommand
  PROVE  TypeOK'
<1> USE DEF commandVars, runnerVars, connVars, eventVars
<1>1. CASE DeferCommand
  <2>1. queue # <<>> /\ NextCommand = Head(queue)
    BY <1>1 DEF DeferCommand, HasCommand, FromPending, Sendable, NextCommand
  <2>2. /\ NextCommand \in Command
        /\ Tail(queue) \in Seq(Command) /\ Len(Tail(queue)) = Len(queue) - 1
    BY <2>1, TailFacts DEF TypeOK
  <2>3. pending' \in Seq(Command)
    BY <1>1, <2>2, IdsOfAppend DEF DeferCommand, TypeOK
  <2>4. queue' \in Seq(Command) /\ Len(queue') <= QueueCap
    BY <1>1, <2>2, ConstantsAssumption DEF DeferCommand, TypeOK
  <2>5. QED
    BY <1>1, <2>3, <2>4 DEF DeferCommand, TypeOK
<1>a. ASSUME HasCommand, PopCommand
      PROVE  /\ queue' \in Seq(Command) /\ Len(queue') <= QueueCap
             /\ pending' \in Seq(Command)
             /\ NextCommand.id \in Nat /\ NextCommand.kind \in Kinds
  BY <1>a, PopType, ConstantsAssumption DEF TypeOK, Command
<1>b. ASSUME HasCommand, WritePopped
      PROVE  wire' \in Seq([id : Nat, kind : Kinds, epoch : Nat])
  <2>1. [id |-> NextCommand.id, kind |-> NextCommand.kind, epoch |-> epoch]
          \in [id : Nat, kind : Kinds, epoch : Nat]
    BY <1>a, <1>b DEF WritePopped, TypeOK
  <2>2. QED
    BY <1>b, <2>1, IdsOfAppend DEF WritePopped, TypeOK
<1>2. CASE WriteCommand
  BY <1>2, <1>a, <1>b DEF WriteCommand, WritePopped, TypeOK
<1>3. CASE FailedWrite
  BY <1>3, <1>a DEF FailedWrite, Leave, TypeOK, Reasons
<1>4. CASE TakeClose
  BY <1>4, <1>a, <1>b DEF TakeClose, WritePopped, Leave, TypeOK, Reasons
<1>5. CASE AllSendersDropped
  BY <1>5 DEF AllSendersDropped, Leave, TypeOK, Reasons
<1>6. QED
  BY <1>1, <1>2, <1>3, <1>4, <1>5 DEF TakeCommand

\* The runner, everything else.
LEMMA TypeRunner ==
  ASSUME TypeOK, Runner
  PROVE  TypeOK'
<1> USE DEF commandVars, runnerVars, connVars, eventVars
<1>1. CASE TakeCommand
  BY <1>1, TypeTakeCommand
<1>2. CASE GoAwayDeadline
  BY <1>2 DEF GoAwayDeadline, Leave, TypeOK, Reasons, Events
<1>3. CASE ReceiveError
  BY <1>3 DEF ReceiveError, Leave, TypeOK, Reasons
<1>4. CASE StopQuietly
  BY <1>4 DEF StopQuietly, Stop, TypeOK
<1>5. CASE StopWithoutReconnect
  BY <1>5 DEF StopWithoutReconnect, Stop, TypeOK, Events
<1>6. CASE StartReconnect
  BY <1>6, ConstantsAssumption DEF StartReconnect, TypeOK
<1>7. CASE GiveUp
  BY <1>7 DEF GiveUp, Stop, TypeOK, Events
<1>8. CASE FailAttempt
  <2>1. attempt' \in 0..MaxAttempts
    BY <1>8, ConstantsAssumption DEF FailAttempt, CanAttempt, TypeOK
  <2>2. QED
    BY <1>8, <2>1 DEF FailAttempt, TypeOK
<1>9. CASE Reconnected
  BY <1>9, ConstantsAssumption DEF Reconnected, TypeOK, Reasons
<1>10. CASE RunnerEnds
  <2>1. Ids(queue) \subseteq Nat /\ Ids(pending) \subseteq Nat
    <3>1. queue \in Seq(Command) /\ pending \in Seq(Command)
      BY DEF TypeOK
    <3>2. /\ \A i \in DOMAIN queue : queue[i] \in Command
          /\ \A i \in DOMAIN pending : pending[i] \in Command
      BY <3>1
    <3>3. \A c \in Command : c.id \in Nat
      BY DEF Command
    <3>4. QED
      BY <3>2, <3>3 DEF Ids
  <2>2. queue' = <<>> /\ pending' = <<>> /\ lost' \in SUBSET Nat
    BY <1>10, <2>1 DEF RunnerEnds, TypeOK
  <2>3. queue' \in Seq(Command) /\ Len(queue') <= QueueCap /\ pending' \in Seq(Command)
    BY <2>2, ConstantsAssumption
  <2>4. QED
    BY <1>10, <2>2, <2>3 DEF RunnerEnds, TypeOK
<1>11. QED
  BY <1>1, <1>2, <1>3, <1>4, <1>5, <1>6, <1>7, <1>8, <1>9, <1>10 DEF Runner

\* The server and the transport.
LEMMA TypeServer ==
  ASSUME TypeOK, Server
  PROVE  TypeOK'
<1> USE DEF commandVars, runnerVars, connVars, eventVars
<1>1. CASE LinkFails
  BY <1>1 DEF LinkFails, TypeOK
<1>2. CASE ReceiveClose
  BY <1>2 DEF ReceiveClose, Leave, TypeOK, Reasons, Events
<1>3. ASSUME NEW msg \in Message, ReceiveMessage(msg) PROVE TypeOK'
  <2>1. resume' \in Nat /\ issued' \in Nat /\ revoked' \in SUBSET Nat
    <3>1. UpdateResumeHandle(msg.update) /\ msg.update \in {"none", "new", "revoke"}
      BY <1>3 DEF ReceiveMessage, Message
    <3>2. CASE msg.update = "new"
      BY <3>1, <3>2 DEF UpdateResumeHandle, TypeOK
    <3>3. CASE msg.update = "revoke"
      BY <3>1, <3>3 DEF UpdateResumeHandle, TypeOK, NoHandle
    <3>4. CASE msg.update = "none"
      BY <3>1, <3>4 DEF UpdateResumeHandle, TypeOK
    <3>5. QED
      BY <3>1, <3>2, <3>3, <3>4
  <2>2. published' \in Seq(Events)
    BY <1>3, IntoEventsType DEF ReceiveMessage, TypeOK
  <2>3. /\ goAway' \in {"none", "waiting", "until"}
        /\ phase' \in {"connected", "leaving"} /\ reason' \in Reasons
    BY <1>3 DEF ReceiveMessage, Leave, TypeOK, Reasons, Message
  <2>4. QED
    BY <1>3, <2>1, <2>2, <2>3 DEF ReceiveMessage, TypeOK
<1>4. QED
  BY <1>1, <1>2, <1>3 DEF Server

\* Every value stays in its type: in particular the command channel never
\* exceeds its capacity and no run of reconnect makes more attempts than the
\* policy allows.
THEOREM TypeCorrect == Spec => []TypeOK
<1>1. TypeOK /\ [Next]_vars => TypeOK'
  <2>1. SUFFICES ASSUME TypeOK, [Next]_vars PROVE TypeOK'
    OBVIOUS
  <2>2. CASE UNCHANGED vars
    BY <2>1, <2>2 DEF vars, commandVars, runnerVars, connVars, eventVars, TypeOK
  <2>3. QED
    BY <2>1, <2>2, TypeCaller, TypeRunner, TypeServer DEF Next
<1>2. QED
  BY TypeInit, <1>1, PTL DEF Spec

-----------------------------------------------------------------------------
(* The commands: the inductive invariant.                                  *)

\* The commands of s are in the order in which they were accepted.
Sorted(s) == \A i, j \in DOMAIN s : i < j => s[i].id < s[j].id

\* The channel is a queue: what left it is older than what it holds.
ChannelIsFifo == \A m \in Ids(pending) \cup Ids(wire) \cup lost, n \in Ids(queue) : m < n

\* Only inputs are deferred, and none of the inputs written is younger.
DeferredInputsAreOldest ==
  /\ \A i \in DOMAIN pending : pending[i].kind = "input"
  /\ \A i \in DOMAIN wire, n \in Ids(pending) : wire[i].kind = "input" => wire[i].id < n

\* CommandOrder and Accounted say nothing of what is still to be written.  The
\* other conjuncts do: without them the next write could break either.
CommandInv ==
  /\ CommandOrder
  /\ Accounted
  /\ Sorted(queue)
  /\ Sorted(pending)
  /\ ChannelIsFifo
  /\ DeferredInputsAreOldest
  /\ Ids(pending) \cap lost = {}

\* The same facts about the identities alone.
LEMMA IdTypes ==
  ASSUME TypeOK
  PROVE  /\ queue \in Seq(Command) /\ pending \in Seq(Command)
         /\ wire \in Seq([id : Nat, kind : Kinds, epoch : Nat])
         /\ Ids(queue) \subseteq Nat /\ Ids(pending) \subseteq Nat /\ Ids(wire) \subseteq Nat
         /\ lost \subseteq Nat /\ nextId \in Nat \ {0} /\ epoch \in Nat
<1>1. /\ queue \in Seq(Command) /\ pending \in Seq(Command)
      /\ wire \in Seq([id : Nat, kind : Kinds, epoch : Nat])
      /\ lost \subseteq Nat /\ nextId \in Nat \ {0} /\ epoch \in Nat
  BY DEF TypeOK
<1>2. \A c \in Command : c.id \in Nat
  BY DEF Command
<1>3. Ids(queue) \subseteq Nat
  <2>1. \A i \in DOMAIN queue : queue[i] \in Command
    BY <1>1
  <2>2. QED
    BY <1>2, <2>1 DEF Ids
<1>4. Ids(pending) \subseteq Nat
  <2>1. \A i \in DOMAIN pending : pending[i] \in Command
    BY <1>1
  <2>2. QED
    BY <1>2, <2>1 DEF Ids
<1>5. Ids(wire) \subseteq Nat
  <2>1. \A i \in DOMAIN wire : wire[i] \in [id : Nat, kind : Kinds, epoch : Nat]
    BY <1>1, Items
  <2>2. \A w \in [id : Nat, kind : Kinds, epoch : Nat] : w.id \in Nat
    OBVIOUS
  <2>3. QED
    BY <2>1, <2>2 DEF Ids
<1>6. QED
  BY <1>1, <1>3, <1>4, <1>5

\* A sorted sequence without its head is sorted, and younger than the head.
LEMMA SortedTail ==
  ASSUME NEW s \in Seq(Command), s # <<>>, Sorted(s)
  PROVE  /\ Head(s) \in Command /\ Tail(s) \in Seq(Command)
         /\ Sorted(Tail(s))
         /\ \A n \in Ids(Tail(s)) : Head(s).id < n
         /\ Head(s).id \notin Ids(Tail(s))
         /\ Ids(s) = {Head(s).id} \cup Ids(Tail(s))
<1>1. /\ Head(s) \in Command /\ Head(s) = s[1] /\ 1 \in DOMAIN s
      /\ Tail(s) \in Seq(Command)
      /\ \A i \in DOMAIN Tail(s) : i + 1 \in DOMAIN s /\ Tail(s)[i] = s[i + 1]
  BY TailFacts
<1>2. \A i \in DOMAIN Tail(s) : i \in Nat /\ 1 <= i
  BY <1>1
<1>3. Sorted(Tail(s))
  <2>1. SUFFICES ASSUME NEW i \in DOMAIN Tail(s), NEW j \in DOMAIN Tail(s), i < j
                 PROVE  Tail(s)[i].id < Tail(s)[j].id
    BY DEF Sorted
  <2>2. i + 1 < j + 1
    BY <1>2, <2>1
  <2>3. s[i + 1].id < s[j + 1].id
    BY <1>1, <2>1, <2>2 DEF Sorted
  <2>4. QED
    BY <1>1, <2>3
<1>4. \A i \in DOMAIN Tail(s) : Head(s).id < Tail(s)[i].id
  <2>1. TAKE i \in DOMAIN Tail(s)
  <2>2. 1 < i + 1 /\ i + 1 \in DOMAIN s
    BY <1>1, <1>2
  <2>3. s[1].id < s[i + 1].id
    BY <1>1, <2>2 DEF Sorted
  <2>4. QED
    BY <1>1, <2>3
<1>5. \A n \in Ids(Tail(s)) : Head(s).id < n
  BY <1>4 DEF Ids
<1>6. Head(s).id \in Nat
  BY <1>1 DEF Command
<1>7. Head(s).id \notin Ids(Tail(s))
  BY <1>5, <1>6
<1>8. QED
  BY <1>1, <1>3, <1>5, <1>7, IdsOfTail

\* A younger item keeps a sequence sorted.
LEMMA SortedAppend ==
  ASSUME NEW s \in Seq(Command), Sorted(s), NEW c \in Command,
         \A n \in Ids(s) : n < c.id
  PROVE  Sorted(Append(s, c))
<1>1. /\ \A i \in DOMAIN s : Append(s, c)[i] = s[i]
      /\ Append(s, c)[Len(s) + 1] = c
      /\ \A i \in DOMAIN Append(s, c) : i \in DOMAIN s \/ i = Len(s) + 1
  BY IdsOfAppend
<1>2. \A i \in DOMAIN s : i \in Nat /\ i < Len(s) + 1
  OBVIOUS
<1>3. \A i \in DOMAIN s : s[i].id < c.id
  BY DEF Ids
<1>4. SUFFICES ASSUME NEW i \in DOMAIN Append(s, c), NEW j \in DOMAIN Append(s, c), i < j
               PROVE  Append(s, c)[i].id < Append(s, c)[j].id
  BY DEF Sorted
<1>5. i \in DOMAIN s
  BY <1>1, <1>2, <1>4
<1>6. CASE j \in DOMAIN s
  BY <1>1, <1>4, <1>5, <1>6 DEF Sorted
<1>7. CASE j = Len(s) + 1
  BY <1>1, <1>3, <1>5, <1>7
<1>8. QED
  BY <1>1, <1>6, <1>7

\* A handle's command goes to the end of the channel under a number of its own.
LEMMA AcceptKeeps ==
  ASSUME TypeOK, CommandInv, NEW kind \in Kinds, Accept(kind), UNCHANGED <<pending, wire, lost>>
  PROVE  CommandInv'
<1> DEFINE c == [id |-> nextId, kind |-> kind]
<1>1. queue \in Seq(Command) /\ nextId \in Nat \ {0} /\ c \in Command
  BY IdTypes DEF Command
<1>2. queue' = Append(queue, c) /\ nextId' = nextId + 1
  BY DEF Accept
<1>3. Ids(queue') = Ids(queue) \cup {nextId}
  BY <1>1, <1>2, IdsOfAppend
<1>4. Ids(pending)' = Ids(pending) /\ Ids(wire)' = Ids(wire) /\ Ids(queue)' = Ids(queue')
  BY DEF Ids
<1>5. \A n \in Ids(queue) \cup Ids(pending) \cup Ids(wire) \cup lost : n \in Nat /\ n < nextId
  <2>1. 1..(nextId - 1) = Ids(queue) \cup Ids(pending) \cup Ids(wire) \cup lost
    BY DEF CommandInv, Accounted
  <2>2. QED
    BY <1>1, <2>1
<1>6. CommandOrder' /\ DeferredInputsAreOldest' /\ Sorted(pending)' /\ (Ids(pending) \cap lost = {})'
  BY <1>4 DEF CommandInv, CommandOrder, DeferredInputsAreOldest, Sorted, SameLane
<1>7. Accounted'
  <2>1. 1..(nextId' - 1) = 1..(nextId - 1) \cup {nextId}
    BY <1>1, <1>2
  <2>2. nextId \notin Ids(wire)
    BY <1>1, <1>5
  <2>3. QED
    BY <1>3, <1>4, <2>1, <2>2 DEF CommandInv, Accounted
<1>8. Sorted(queue)'
  <2>1. Sorted(Append(queue, c))
    BY <1>1, <1>5, SortedAppend DEF CommandInv
  <2>2. QED
    BY <1>2, <2>1 DEF Sorted
<1>9. ChannelIsFifo'
  BY <1>3, <1>4, <1>5 DEF CommandInv, ChannelIsFifo
<1>10. QED
  BY <1>6, <1>7, <1>8, <1>9 DEF CommandInv

\* During GoAway an input moves from the channel to the deferred commands.
LEMMA DeferKeeps ==
  ASSUME TypeOK, CommandInv, DeferCommand
  PROVE  CommandInv'
<1> DEFINE c == Head(queue)
<1>1. /\ queue # <<>> /\ NextCommand = c
      /\ queue' = Tail(queue) /\ pending' = Append(pending, c)
      /\ UNCHANGED <<nextId, wire, lost>>
  BY DEF DeferCommand, HasCommand, FromPending, Sendable, NextCommand
<1>2. queue \in Seq(Command) /\ pending \in Seq(Command) /\ Sorted(queue) /\ Sorted(pending)
  BY IdTypes DEF CommandInv
<1>3. /\ c \in Command /\ Tail(queue) \in Seq(Command) /\ Sorted(Tail(queue))
      /\ \A n \in Ids(Tail(queue)) : c.id < n
      /\ c.id \notin Ids(Tail(queue))
      /\ Ids(queue) = {c.id} \cup Ids(Tail(queue))
  BY <1>1, <1>2, SortedTail
<1>4. c.kind = "input"
  <2>1. c.kind \notin {"close", "tool"}
    BY <1>1 DEF DeferCommand, Sendable, CanSendDuringGoAway
  <2>2. QED
    BY <1>3, <2>1 DEF Command, Kinds
<1>5. \A n \in Ids(pending) \cup Ids(wire) \cup lost : n < c.id
  BY <1>3 DEF CommandInv, ChannelIsFifo
<1>6. /\ Ids(Append(pending, c)) = Ids(pending) \cup {c.id}
      /\ \A i \in DOMAIN Append(pending, c) :
           \/ i \in DOMAIN pending /\ Append(pending, c)[i] = pending[i]
           \/ Append(pending, c)[i] = c
  BY <1>2, <1>3, IdsOfAppend
<1>7. /\ Ids(queue)' = Ids(Tail(queue))
      /\ Ids(pending)' = Ids(pending) \cup {c.id}
      /\ Ids(wire)' = Ids(wire)
  BY <1>1, <1>6 DEF Ids
<1>8. c.id \in Nat /\ c.id \notin Ids(wire) /\ c.id \notin lost
  BY <1>3, <1>5 DEF Command
<1>9. CommandOrder'
  BY <1>1 DEF CommandInv, CommandOrder, SameLane
<1>10. Accounted'
  BY <1>1, <1>3, <1>7, <1>8 DEF CommandInv, Accounted
<1>11. Sorted(queue)' /\ Sorted(pending)'
  <2>1. Sorted(Append(pending, c))
    BY <1>2, <1>3, <1>5, SortedAppend
  <2>2. QED
    BY <1>1, <1>3, <2>1 DEF Sorted
<1>12. ChannelIsFifo'
  BY <1>1, <1>3, <1>7 DEF CommandInv, ChannelIsFifo
<1>13. DeferredInputsAreOldest'
  <2>1. \A i \in DOMAIN pending' : pending'[i].kind = "input"
    BY <1>1, <1>4, <1>6 DEF CommandInv, DeferredInputsAreOldest
  <2>2. \A i \in DOMAIN wire : wire[i].id < c.id
    BY <1>5 DEF Ids
  <2>3. QED
    BY <1>1, <1>7, <2>1, <2>2 DEF CommandInv, DeferredInputsAreOldest
<1>14. (Ids(pending) \cap lost = {})'
  BY <1>1, <1>7, <1>8 DEF CommandInv
<1>15. QED
  BY <1>9, <1>10, <1>11, <1>12, <1>13, <1>14 DEF CommandInv

\* What next_command takes is gone from where it was and is nowhere else, no
\* command of its lane was written after it, and none of it is left before it.
LEMMA PopFacts ==
  ASSUME TypeOK, CommandInv, HasCommand, Sendable, PopCommand
  PROVE  /\ NextCommand \in Command
         /\ Ids(queue) \cup Ids(pending) = {NextCommand.id} \cup Ids(queue') \cup Ids(pending')
         /\ Ids(queue') \subseteq Ids(queue) /\ Ids(pending') \subseteq Ids(pending)
         /\ NextCommand.id \notin Ids(queue') \cup Ids(pending') \cup Ids(wire) \cup lost
         /\ Sorted(queue') /\ Sorted(pending')
         /\ \A n \in Ids(queue') : NextCommand.id < n
         /\ \A i \in DOMAIN pending' : pending'[i].kind = "input"
         /\ NextCommand.kind = "input" => \A n \in Ids(pending') : NextCommand.id < n
         /\ \A i \in DOMAIN wire : SameLane(wire[i], NextCommand) => wire[i].id < NextCommand.id
<1>1. /\ queue \in Seq(Command) /\ pending \in Seq(Command)
      /\ Sorted(queue) /\ Sorted(pending)
      /\ Ids(queue) \subseteq Nat /\ Ids(pending) \subseteq Nat
      /\ Ids(wire) \subseteq Nat /\ lost \subseteq Nat
  BY IdTypes DEF CommandInv
<1>2. CASE FromPending
  <2> DEFINE c == Head(pending)
  <2>1. /\ pending # <<>> /\ NextCommand = c /\ pending' = Tail(pending) /\ queue' = queue
    BY <1>2 DEF FromPending, NextCommand, PopCommand
  <2>2. /\ c \in Command /\ Sorted(Tail(pending))
        /\ \A n \in Ids(Tail(pending)) : c.id < n
        /\ c.id \notin Ids(Tail(pending))
        /\ Ids(pending) = {c.id} \cup Ids(Tail(pending))
    BY <1>1, <2>1, SortedTail
  <2>3. c.kind = "input" /\ \A i \in DOMAIN Tail(pending) : Tail(pending)[i].kind = "input"
    <3>1. \A i \in DOMAIN pending : pending[i].kind = "input"
      BY DEF CommandInv, DeferredInputsAreOldest
    <3>2. QED
      BY <1>1, <2>1, <3>1, TailFacts
  <2>4. \A n \in Ids(queue) : c.id < n
    BY <2>2 DEF CommandInv, ChannelIsFifo
  <2>5. c.id \notin Ids(queue) \cup Ids(wire) \cup lost
    <3>1. c.id \in Nat /\ c.id \notin Ids(queue)
      BY <1>1, <2>2, <2>4
    <3>2. c.id \notin Ids(wire) \cup lost
      BY <2>2 DEF CommandInv, Accounted
    <3>3. QED
      BY <3>1, <3>2
  <2>6. \A i \in DOMAIN wire : SameLane(wire[i], c) => wire[i].id < c.id
    BY <2>2, <2>3 DEF CommandInv, DeferredInputsAreOldest, SameLane
  <2>7. QED
    BY <1>1, <2>1, <2>2, <2>3, <2>4, <2>5, <2>6
<1>3. CASE ~FromPending
  <2> DEFINE c == Head(queue)
  <2>1. queue # <<>> /\ NextCommand = c /\ queue' = Tail(queue) /\ pending' = pending
    BY <1>3 DEF HasCommand, NextCommand, PopCommand
  <2>2. /\ c \in Command /\ Sorted(Tail(queue))
        /\ \A n \in Ids(Tail(queue)) : c.id < n
        /\ c.id \notin Ids(Tail(queue))
        /\ Ids(queue) = {c.id} \cup Ids(Tail(queue))
    BY <1>1, <2>1, SortedTail
  <2>3. \A n \in Ids(pending) \cup Ids(wire) \cup lost : n < c.id
    BY <2>2 DEF CommandInv, ChannelIsFifo
  <2>4. c.id \in Nat /\ c.id \notin Ids(pending) \cup Ids(wire) \cup lost
    BY <1>1, <2>2, <2>3
  <2>5. \A i \in DOMAIN wire : wire[i].id < c.id
    BY <2>3 DEF Ids
  <2>6. c.kind = "input" => pending = <<>>
    BY <1>3, <2>1 DEF FromPending, Sendable, CanSendDuringGoAway
  <2>7. pending = <<>> => Ids(pending) = {}
    BY DEF Ids
  <2>8. \A i \in DOMAIN pending : pending[i].kind = "input"
    BY DEF CommandInv, DeferredInputsAreOldest
  <2>9. QED
    BY <1>1, <2>1, <2>2, <2>4, <2>5, <2>6, <2>7, <2>8
<1>4. QED
  BY <1>2, <1>3

\* A command that may be sent is written.
LEMMA WriteKeeps ==
  ASSUME TypeOK, CommandInv, HasCommand, Sendable, WritePopped, UNCHANGED <<nextId, lost>>
  PROVE  CommandInv'
<1> DEFINE c == NextCommand
           w == [id |-> c.id, kind |-> c.kind, epoch |-> epoch]
<1>1. PopCommand /\ wire' = Append(wire, w)
  BY DEF WritePopped
<1>2. /\ c \in Command
      /\ Ids(queue) \cup Ids(pending) = {c.id} \cup Ids(queue') \cup Ids(pending')
      /\ Ids(queue') \subseteq Ids(queue) /\ Ids(pending') \subseteq Ids(pending)
      /\ c.id \notin Ids(queue') \cup Ids(pending') \cup Ids(wire) \cup lost
      /\ Sorted(queue') /\ Sorted(pending')
      /\ \A n \in Ids(queue') : c.id < n
      /\ \A i \in DOMAIN pending' : pending'[i].kind = "input"
      /\ c.kind = "input" => \A n \in Ids(pending') : c.id < n
      /\ \A i \in DOMAIN wire : SameLane(wire[i], c) => wire[i].id < c.id
  BY <1>1, PopFacts
<1>3. /\ w \in [id : Nat, kind : Kinds, epoch : Nat] /\ w.id = c.id /\ w.kind = c.kind
      /\ wire \in Seq([id : Nat, kind : Kinds, epoch : Nat])
  BY <1>2, IdTypes DEF Command
<1>4. /\ Len(wire) + 1 \in DOMAIN wire' /\ wire'[Len(wire) + 1] = w
      /\ \A i \in DOMAIN wire : wire'[i] = wire[i] /\ i < Len(wire) + 1
      /\ \A i \in DOMAIN wire' : i \in Nat /\ (i \in DOMAIN wire \/ i = Len(wire) + 1)
      /\ Ids(wire') = Ids(wire) \cup {c.id}
  <2>1. \A i \in DOMAIN wire : i < Len(wire) + 1
    BY <1>3
  <2> DEFINE Written == [id : Nat, kind : Kinds, epoch : Nat]
  <2>a. wire \in Seq(Written) /\ w \in Written
    BY <1>3
  <2> HIDE DEF Written, w
  <2>2. /\ Append(wire, w) \in Seq(Written)
        /\ \A i \in DOMAIN wire : Append(wire, w)[i] = wire[i]
        /\ Len(wire) + 1 \in DOMAIN Append(wire, w) /\ Append(wire, w)[Len(wire) + 1] = w
        /\ \A i \in DOMAIN Append(wire, w) : i \in DOMAIN wire \/ i = Len(wire) + 1
        /\ Ids(Append(wire, w)) = Ids(wire) \cup {w.id}
    BY <2>a, IdsOfAppend
  <2>3. \A i \in DOMAIN Append(wire, w) : i \in Nat
    BY <2>2
  <2>4. QED
    BY <1>1, <1>3, <2>1, <2>2, <2>3
<1>5. Ids(queue)' = Ids(queue') /\ Ids(pending)' = Ids(pending') /\ Ids(wire)' = Ids(wire')
  BY DEF Ids
<1>6. CommandOrder'
  <2>1. SUFFICES ASSUME NEW i \in DOMAIN wire', NEW j \in DOMAIN wire', i < j,
                        SameLane(wire'[i], wire'[j])
                 PROVE  wire'[i].id < wire'[j].id
    BY DEF CommandOrder, SameLane
  <2>2. i \in DOMAIN wire
    BY <1>3, <1>4, <2>1
  <2>3. CASE j \in DOMAIN wire
    BY <1>4, <2>1, <2>2, <2>3 DEF CommandInv, CommandOrder
  <2>4. CASE j = Len(wire) + 1
    <3>1. SameLane(wire[i], c)
      BY <1>3, <1>4, <2>1, <2>2, <2>4 DEF SameLane
    <3>2. QED
      BY <1>2, <1>3, <1>4, <2>2, <2>4, <3>1
  <2>5. QED
    BY <1>4, <2>3, <2>4
<1>7. Accounted'
  <2>1. (1..(nextId - 1) = Ids(queue) \cup Ids(pending) \cup Ids(wire) \cup lost)'
    BY <1>2, <1>4, <1>5 DEF CommandInv, Accounted
  <2>2. (Ids(wire) \cap (Ids(queue) \cup Ids(pending) \cup lost) = {})'
    BY <1>2, <1>4, <1>5 DEF CommandInv, Accounted
  <2>3. \A i, j \in DOMAIN wire' : wire'[i].id = wire'[j].id => i = j
    <3>1. \A i \in DOMAIN wire : wire[i].id # c.id
      BY <1>2 DEF Ids
    <3>2. \A i, j \in DOMAIN wire : wire[i].id = wire[j].id => i = j
      BY DEF CommandInv, Accounted
    <3>3. QED
      BY <1>3, <1>4, <3>1, <3>2
  <2>4. QED
    BY <2>1, <2>2, <2>3 DEF Accounted
<1>8. Sorted(queue)' /\ Sorted(pending)'
  BY <1>2 DEF Sorted
<1>9. ChannelIsFifo'
  BY <1>2, <1>4, <1>5 DEF CommandInv, ChannelIsFifo
<1>10. DeferredInputsAreOldest'
  <2>1. ASSUME NEW i \in DOMAIN wire', NEW n \in Ids(pending'), wire'[i].kind = "input"
        PROVE  wire'[i].id < n
    <3>1. CASE i \in DOMAIN wire
      BY <1>2, <1>4, <2>1, <3>1 DEF CommandInv, DeferredInputsAreOldest
    <3>2. CASE i = Len(wire) + 1
      BY <1>2, <1>3, <1>4, <2>1, <3>2
    <3>3. QED
      BY <1>4, <3>1, <3>2
  <2>2. QED
    BY <1>2, <1>5, <2>1 DEF DeferredInputsAreOldest
<1>11. (Ids(pending) \cap lost = {})'
  BY <1>2, <1>5 DEF CommandInv
<1>12. QED
  BY <1>6, <1>7, <1>8, <1>9, <1>10, <1>11 DEF CommandInv

\* A command whose write fails is lost, and nothing else is.
LEMMA LoseKeeps ==
  ASSUME TypeOK, CommandInv, FailedWrite
  PROVE  CommandInv'
<1> DEFINE c == NextCommand
<1>1. /\ HasCommand /\ Sendable /\ PopCommand
      /\ UNCHANGED <<nextId, wire>> /\ lost' = lost \cup {c.id}
  BY DEF FailedWrite
<1>2. /\ c \in Command
      /\ Ids(queue) \cup Ids(pending) = {c.id} \cup Ids(queue') \cup Ids(pending')
      /\ Ids(queue') \subseteq Ids(queue) /\ Ids(pending') \subseteq Ids(pending)
      /\ c.id \notin Ids(queue') \cup Ids(pending') \cup Ids(wire) \cup lost
      /\ Sorted(queue') /\ Sorted(pending')
      /\ \A n \in Ids(queue') : c.id < n
      /\ \A i \in DOMAIN pending' : pending'[i].kind = "input"
  BY <1>1, PopFacts
<1>3. Ids(queue)' = Ids(queue') /\ Ids(pending)' = Ids(pending') /\ Ids(wire)' = Ids(wire)
  BY <1>1 DEF Ids
<1>4. CommandOrder'
  BY <1>1 DEF CommandInv, CommandOrder, SameLane
<1>5. Accounted'
  BY <1>1, <1>2, <1>3 DEF CommandInv, Accounted
<1>6. Sorted(queue)' /\ Sorted(pending)'
  BY <1>2 DEF Sorted
<1>7. ChannelIsFifo'
  BY <1>1, <1>2, <1>3 DEF CommandInv, ChannelIsFifo
<1>8. DeferredInputsAreOldest'
  BY <1>1, <1>2, <1>3 DEF CommandInv, DeferredInputsAreOldest
<1>9. (Ids(pending) \cap lost = {})'
  BY <1>1, <1>2, <1>3 DEF CommandInv
<1>10. QED
  BY <1>4, <1>5, <1>6, <1>7, <1>8, <1>9 DEF CommandInv

\* The end of the runner loses all that waits.
LEMMA EndKeeps ==
  ASSUME TypeOK, CommandInv, RunnerEnds
  PROVE  CommandInv'
<1>1. /\ queue' = <<>> /\ pending' = <<>> /\ UNCHANGED <<nextId, wire>>
      /\ lost' = lost \cup Ids(queue) \cup Ids(pending)
  BY DEF RunnerEnds
<1>2. Ids(queue)' = {} /\ Ids(pending)' = {} /\ Ids(wire)' = Ids(wire)
  BY <1>1 DEF Ids
<1>3. CommandOrder'
  BY <1>1 DEF CommandInv, CommandOrder, SameLane
<1>4. Accounted'
  BY <1>1, <1>2 DEF CommandInv, Accounted
<1>5. Sorted(queue)' /\ Sorted(pending)'
  BY <1>1 DEF Sorted
<1>6. ChannelIsFifo' /\ DeferredInputsAreOldest' /\ (Ids(pending) \cap lost = {})'
  BY <1>1, <1>2 DEF ChannelIsFifo, DeferredInputsAreOldest
<1>7. QED
  BY <1>3, <1>4, <1>5, <1>6 DEF CommandInv

\* Nothing else touches the commands.
LEMMA UntouchedKeeps ==
  ASSUME CommandInv, UNCHANGED commandVars
  PROVE  CommandInv'
<1>1. UNCHANGED <<queue, pending, nextId, wire, lost>>
  BY DEF commandVars
<1>2. Ids(queue)' = Ids(queue) /\ Ids(pending)' = Ids(pending) /\ Ids(wire)' = Ids(wire)
  BY <1>1 DEF Ids
<1>3. CommandOrder' /\ Accounted' /\ Sorted(queue)' /\ Sorted(pending)'
  BY <1>1, <1>2 DEF CommandInv, CommandOrder, SameLane, Accounted, Sorted
<1>4. ChannelIsFifo' /\ DeferredInputsAreOldest' /\ (Ids(pending) \cap lost = {})'
  BY <1>1, <1>2 DEF CommandInv, ChannelIsFifo, DeferredInputsAreOldest
<1>5. QED
  BY <1>3, <1>4 DEF CommandInv

\* The commands keep their invariant through every step of the session.
LEMMA CommandStep ==
  ASSUME TypeOK, CommandInv, [Next]_vars
  PROVE  CommandInv'
<1>1. ASSUME NEW h \in Handles, Caller(h) PROVE CommandInv'
  <2>1. ASSUME NEW kind \in Kinds, Send(h, kind) PROVE CommandInv'
    BY <2>1, AcceptKeeps DEF Send
  <2>2. CASE Close(h)
    <3>1. CASE Accept("close")
      BY <2>2, <3>1, AcceptKeeps DEF Close, Kinds
    <3>2. CASE UNCHANGED <<queue, nextId>>
      BY <2>2, <3>2, UntouchedKeeps DEF Close, commandVars
    <3>3. QED
      BY <2>2, <3>1, <3>2 DEF Close
  <2>3. CASE (\E g \in Handles : Clone(h, g)) \/ Drop(h) \/ NextObservedEvent(h)
    BY <2>3, UntouchedKeeps DEF Clone, Drop, NextObservedEvent
  <2>4. QED
    BY <1>1, <2>1, <2>2, <2>3 DEF Caller
<1>2. CASE TakeCommand
  <2>1. CASE DeferCommand
    BY <2>1, DeferKeeps
  <2>2. CASE WriteCommand
    BY <2>2, WriteKeeps DEF WriteCommand
  <2>3. CASE FailedWrite
    BY <2>3, LoseKeeps
  <2>4. CASE TakeClose
    BY <2>4, WriteKeeps DEF TakeClose, Sendable, CanSendDuringGoAway
  <2>5. CASE AllSendersDropped
    BY <2>5, UntouchedKeeps DEF AllSendersDropped
  <2>6. QED
    BY <1>2, <2>1, <2>2, <2>3, <2>4, <2>5 DEF TakeCommand
<1>3. CASE RunnerEnds
  BY <1>3, EndKeeps
<1>4. CASE \/ GoAwayDeadline \/ ReceiveError \/ StopQuietly \/ StopWithoutReconnect
           \/ StartReconnect \/ GiveUp \/ FailAttempt \/ Reconnected
  BY <1>4, UntouchedKeeps
     DEF GoAwayDeadline, ReceiveError, StopQuietly, StopWithoutReconnect,
         StartReconnect, GiveUp, FailAttempt, Reconnected
<1>5. CASE Server
  BY <1>5, UntouchedKeeps DEF Server, LinkFails, ReceiveClose, ReceiveMessage
<1>6. CASE UNCHANGED vars
  BY <1>6, UntouchedKeeps DEF vars
<1>7. QED
  BY <1>1, <1>2, <1>3, <1>4, <1>5, <1>6 DEF Next, Runner

\* Before the first command there is nothing to keep.
LEMMA CommandInit == Init => CommandInv
<1>1. SUFFICES ASSUME Init PROVE CommandInv
  OBVIOUS
<1>2. queue = <<>> /\ pending = <<>> /\ wire = <<>> /\ lost = {} /\ nextId = 1
  BY <1>1 DEF Init
<1>3. Ids(queue) = {} /\ Ids(pending) = {} /\ Ids(wire) = {}
  BY <1>2 DEF Ids
<1>4. 1..(nextId - 1) = {}
  BY <1>2
<1>5. CommandOrder /\ Sorted(queue) /\ Sorted(pending)
  BY <1>2 DEF CommandOrder, Sorted
<1>6. Accounted /\ ChannelIsFifo /\ DeferredInputsAreOldest
  BY <1>2, <1>3, <1>4 DEF Accounted, ChannelIsFifo, DeferredInputsAreOldest
<1>7. QED
  BY <1>2, <1>5, <1>6 DEF CommandInv

\* The inductive invariant holds in every reachable state.
THEOREM CommandsInvariant == Spec => []CommandInv
<1>1. CommandInv /\ TypeOK /\ [Next]_vars => CommandInv'
  BY CommandStep
<1>2. QED
  BY CommandInit, TypeCorrect, <1>1, PTL DEF Spec

\* Inputs, and control commands, are written in the order in which the channel
\* accepted them, through any number of GoAways and reconnects.
THEOREM OrderPreserved == Spec => []CommandOrder
<1>1. CommandInv => CommandOrder
  BY DEF CommandInv
<1>2. QED
  BY CommandsInvariant, <1>1, PTL

\* No command is forgotten and none is written twice.
THEOREM CommandsAccounted == Spec => []Accounted
<1>1. CommandInv => Accounted
  BY DEF CommandInv
<1>2. QED
  BY CommandsInvariant, <1>1, PTL

-----------------------------------------------------------------------------
(* A closed session.                                                       *)

\* The runner has left its loop for good whenever the status says Closed.
ClosedMeansStopped == status = "Closed" => phase \in {"stopping", "ended"}

\* The status is not Closed initially.
LEMMA ClosedInit == Init => ClosedMeansStopped
  BY DEF Init, ClosedMeansStopped

\* Status and phase move together, and neither leaves the end.
LEMMA ClosedStep ==
  ASSUME ClosedMeansStopped, [Next]_vars
  PROVE  /\ ClosedMeansStopped'
         /\ status = "Closed" => status' = "Closed" /\ wire' = wire /\ epoch' = epoch
<1> USE DEF ClosedMeansStopped, commandVars, runnerVars, connVars
<1>1. ASSUME NEW h \in Handles, Caller(h)
      PROVE  UNCHANGED <<phase, status, wire, epoch>>
  BY <1>1 DEF Caller, Send, Close, Clone, Drop, NextObservedEvent
<1>2. CASE TakeCommand
  BY <1>2 DEF TakeCommand, DeferCommand, WriteCommand, FailedWrite, TakeClose,
              AllSendersDropped, Leave
<1>3. CASE GoAwayDeadline \/ ReceiveError
  BY <1>3 DEF GoAwayDeadline, ReceiveError, Leave
<1>4. CASE StopQuietly \/ StopWithoutReconnect \/ GiveUp
  BY <1>4 DEF StopQuietly, StopWithoutReconnect, GiveUp, Stop
<1>5. CASE StartReconnect \/ FailAttempt \/ Reconnected \/ RunnerEnds
  BY <1>5 DEF StartReconnect, FailAttempt, CanAttempt, Reconnected, RunnerEnds
<1>6. CASE Server
  BY <1>6 DEF Server, LinkFails, ReceiveClose, ReceiveMessage, Leave
<1>7. CASE UNCHANGED vars
  BY <1>7 DEF vars
<1>8. QED
  BY <1>1, <1>2, <1>3, <1>4, <1>5, <1>6, <1>7 DEF Next, Runner

\* Once any handle could observe SessionStatus::Closed, nothing is written and
\* no connection is made.
THEOREM ClosedForGood == Spec => ClosedIsFinal
<1>1. ClosedMeansStopped /\ [Next]_vars => ClosedMeansStopped'
  BY ClosedStep
<1>2. ClosedMeansStopped /\ [Next]_vars
      => [status = "Closed" => status' = "Closed" /\ wire' = wire /\ epoch' = epoch]_vars
  BY ClosedStep
<1>3. QED
  BY ClosedInit, <1>1, <1>2, PTL DEF Spec, ClosedIsFinal

-----------------------------------------------------------------------------
(* Resumption.                                                             *)

\* The handle that is kept is the last one received, and it was not revoked.
CheckpointInv ==
  /\ issued \in Nat
  /\ resume \in 0..issued
  /\ revoked \subseteq 1..issued
  /\ resume \notin revoked

\* No handle is kept initially.
LEMMA CheckpointInit == Init => CheckpointInv
  BY DEF Init, CheckpointInv, NoHandle

\* Only update_resume_handle changes any of this.
LEMMA CheckpointUpdate ==
  ASSUME CheckpointInv, NEW msg \in Message, UpdateResumeHandle(msg.update)
  PROVE  CheckpointInv'
<1>1. msg.update \in {"none", "new", "revoke"}
  BY DEF Message
<1>2. CASE msg.update = "new"
  <2>1. resume' = issued + 1 /\ issued' = issued + 1 /\ revoked' = revoked
    BY <1>2 DEF UpdateResumeHandle
  <2>2. QED
    BY <2>1 DEF CheckpointInv
<1>3. CASE msg.update = "revoke"
  <2>1. resume' = 0 /\ issued' = issued /\ revoked' = 1..issued
    BY <1>3 DEF UpdateResumeHandle, NoHandle
  <2>2. QED
    BY <2>1 DEF CheckpointInv
<1>4. CASE msg.update = "none"
  BY <1>4 DEF UpdateResumeHandle, CheckpointInv
<1>5. QED
  BY <1>1, <1>2, <1>3, <1>4

\* A connection is made only with the handle that is kept.
LEMMA CheckpointStep ==
  ASSUME CheckpointInv, [Next]_vars
  PROVE  /\ CheckpointInv'
         /\ epoch' # epoch /\ policy.resumption => resumedWith' # NoHandle /\ resumedWith' \notin revoked
<1> DEFINE Kept == UNCHANGED <<resume, issued, revoked>>
           Goal == epoch' # epoch /\ policy.resumption
                   => resumedWith' # NoHandle /\ resumedWith' \notin revoked
<1> USE DEF commandVars, runnerVars, connVars
<1>1. ASSUME NEW h \in Handles, Caller(h) PROVE Kept /\ Goal
  BY <1>1 DEF Caller, Send, Close, Clone, Drop, NextObservedEvent
<1>2. ASSUME TakeCommand \/ GoAwayDeadline \/ ReceiveError
      PROVE  Kept /\ Goal
  BY <1>2 DEF TakeCommand, DeferCommand, WriteCommand, FailedWrite, TakeClose,
              AllSendersDropped, GoAwayDeadline, ReceiveError
<1>3. ASSUME StopQuietly \/ StopWithoutReconnect \/ StartReconnect \/ GiveUp \/ FailAttempt \/ RunnerEnds
      PROVE  Kept /\ Goal
  BY <1>3 DEF StopQuietly, StopWithoutReconnect, StartReconnect, GiveUp, FailAttempt, RunnerEnds
<1>4. ASSUME Reconnected
      PROVE  Kept /\ Goal
  BY <1>4 DEF Reconnected, CanAttempt, PossibleStateLoss, CheckpointInv
<1>5. ASSUME LinkFails \/ ReceiveClose
      PROVE  Kept /\ Goal
  BY <1>5 DEF LinkFails, ReceiveClose
<1>6. ASSUME NEW msg \in Message, ReceiveMessage(msg) PROVE CheckpointInv' /\ Goal
  BY <1>6, CheckpointUpdate DEF ReceiveMessage
<1>7. ASSUME UNCHANGED vars PROVE Kept /\ Goal
  BY <1>7 DEF vars
<1>8. Kept => CheckpointInv'
  BY DEF CheckpointInv
<1>9. QED
  BY <1>1, <1>2, <1>3, <1>4, <1>5, <1>6, <1>7, <1>8 DEF Next, Runner, Server

\* A session configured for resumption never goes on without a checkpoint, or
\* from one the server has revoked.
THEOREM ResumptionIsSound == Spec => ResumesFromLiveCheckpoint
<1>1. CheckpointInv /\ [Next]_vars => CheckpointInv'
  BY CheckpointStep
<1>2. CheckpointInv /\ [Next]_vars
      => [epoch' # epoch /\ policy.resumption
            => resumedWith' # NoHandle /\ resumedWith' \notin revoked]_vars
  BY CheckpointStep
<1>3. QED
  BY CheckpointInit, <1>1, <1>2, PTL DEF Spec, ResumesFromLiveCheckpoint
-----------------------------------------------------------------------------
(* The refinement: the session implements CommandDelivery.  What waits     *)
(* there is what is deferred, followed by what is in the channel, so that  *)
(* deferring a command changes nothing; what is delivered is what was      *)
(* written, on whichever connection.                                       *)

\* The contract's variables, as the session has them.
Waiting   == pending \o queue
\* What has been written, as the contract sees it.
Delivered == [i \in DOMAIN wire |-> [id |-> wire[i].id, kind |-> wire[i].kind]]
Open      == phase \notin {"stopping", "ended"}

\* Taking the first item out of what comes second in a sequence, and the first
\* item of all.
LEMMA WithoutFirst ==
  ASSUME NEW S, NEW p \in Seq(S), NEW q \in Seq(S), q # <<>>
  PROVE  /\ Len(p) + 1 \in DOMAIN (p \o q) /\ (p \o q)[Len(p) + 1] = Head(q)
         /\ Delivery!Without(p \o q, Len(p) + 1) = p \o Tail(q)
<1> DEFINE s == p \o q
           n == Len(p)
           m == Len(q)
<1>1. n \in Nat /\ m \in Nat \ {0} /\ DOMAIN p = 1..n /\ DOMAIN q = 1..m
  BY LenProperties, EmptySeq
<1>2. /\ s \in Seq(S) /\ Len(s) = n + m
      /\ \A i \in 1..(n + m) : s[i] = IF i <= n THEN p[i] ELSE q[i - n]
  BY ConcatProperties
<1>3. DOMAIN s = 1..(n + m)
  BY <1>2, LenProperties
<1>t. Tail(q) \in Seq(S) /\ Len(Tail(q)) = m - 1 /\ \A i \in 1..(m - 1) : Tail(q)[i] = q[i + 1]
  BY HeadTailProperties
<1>e. \A i \in 1..(n + m) : s[i] \in S
  BY <1>2, <1>3, Items
<1> HIDE DEF s
<1>4. SubSeq(s, 1, n) = p
  <2>1. \A i \in 1..n : s[i] \in S
    BY <1>1, <1>e
  <2>2. /\ SubSeq(s, 1, n) \in Seq(S) /\ Len(SubSeq(s, 1, n)) = n
        /\ \A i \in 1..n : SubSeq(s, 1, n)[i] = s[i]
    BY <1>1, <2>1, SubSeqProperties
  <2>3. \A i \in 1..n : SubSeq(s, 1, n)[i] = p[i]
    BY <1>1, <1>2, <2>2
  <2>4. QED
    BY <2>2, <2>3, SeqEqual
<1>5. SubSeq(s, n + 2, n + m) = Tail(q)
  <2> DEFINE u == SubSeq(s, n + 2, n + m)
  <2>1. n + 2 \in Int /\ n + m \in Int /\ \A i \in (n + 2)..(n + m) : s[i] \in S
    BY <1>1, <1>e
  <2>2. /\ u \in Seq(S) /\ Len(u) = IF n + 2 <= n + m THEN (n + m) - (n + 2) + 1 ELSE 0
        /\ \A i \in 1..((n + m) - (n + 2) + 1) : u[i] = s[(n + 2) + i - 1]
    BY <2>1, SubSeqProperties
  <2> HIDE DEF u
  <2>3. Len(u) = m - 1 /\ (n + m) - (n + 2) + 1 = m - 1
    <3> HIDE DEF n, m
    <3>1. CASE m = 1
      BY <1>1, <2>2, <3>1
    <3>2. CASE m > 1
      BY <1>1, <2>2, <3>2
    <3>3. QED
      BY <1>1, <3>1, <3>2
  <2>4. ASSUME NEW i \in 1..(m - 1) PROVE u[i] = Tail(q)[i]
    <3>1. u[i] = s[n + 1 + i]
      <4> HIDE DEF n, m
      <4>1. i \in 1..((n + m) - (n + 2) + 1) /\ (n + 2) + i - 1 = n + 1 + i
        BY <1>1, <2>3
      <4>2. u[i] = s[(n + 2) + i - 1]
        BY <2>2, <4>1
      <4>3. QED
        BY <4>1, <4>2
    <3>2. n + 1 + i \in 1..(n + m) /\ ~(n + 1 + i <= n) /\ n + 1 + i - n = i + 1
      BY <1>1
    <3>3. QED
      BY <1>2, <1>t, <3>1, <3>2
  <2>5. u = Tail(q)
    BY <1>t, <2>2, <2>3, <2>4, SeqEqual
  <2>6. QED
    BY <2>5 DEF u
<1>6. Delivery!Without(s, n + 1) = SubSeq(s, 1, n) \o SubSeq(s, n + 2, n + m)
  <2>1. (n + 1) - 1 = n /\ (n + 1) + 1 = n + 2
    BY <1>1
  <2>2. Delivery!Without(s, n + 1) = SubSeq(s, 1, (n + 1) - 1) \o SubSeq(s, (n + 1) + 1, Len(s))
    BY DEF Delivery!Without
  <2>3. QED
    BY <1>2, <2>1, <2>2
<1>7. Len(p) + 1 \in 1..(n + m) /\ s[Len(p) + 1] = q[1] /\ Head(q) = q[1]
  BY <1>1, <1>2, TailFacts
<1>8. QED
  BY <1>3, <1>4, <1>5, <1>6, <1>7 DEF s

\* The head of what comes first is the head of all.
LEMMA TailOfConcat ==
  ASSUME NEW S, NEW p \in Seq(S), NEW q \in Seq(S), p # <<>>
  PROVE  Tail(p \o q) = Tail(p) \o q
<1> DEFINE s == p \o q
           n == Len(p)
           m == Len(q)
<1>1. n \in Nat \ {0} /\ m \in Nat
  BY LenProperties, EmptySeq
<1>2. /\ s \in Seq(S) /\ Len(s) = n + m
      /\ \A i \in 1..(n + m) : s[i] = IF i <= n THEN p[i] ELSE q[i - n]
  BY ConcatProperties
<1>3. Tail(p) \in Seq(S) /\ Len(Tail(p)) = n - 1 /\ \A i \in 1..(n - 1) : Tail(p)[i] = p[i + 1]
  BY HeadTailProperties
<1>4. /\ Tail(p) \o q \in Seq(S) /\ Len(Tail(p) \o q) = n - 1 + m
      /\ \A i \in 1..(n - 1 + m) : (Tail(p) \o q)[i] = IF i <= n - 1 THEN Tail(p)[i] ELSE q[i - (n - 1)]
  BY <1>3, ConcatProperties
<1> HIDE DEF s
<1>5. s # <<>>
  BY <1>1, <1>2
<1>6. Tail(s) \in Seq(S) /\ Len(Tail(s)) = n - 1 + m /\ \A i \in 1..(n - 1 + m) : Tail(s)[i] = s[i + 1]
  BY <1>1, <1>2, <1>5, HeadTailProperties
<1>7. ASSUME NEW i \in 1..(n - 1 + m) PROVE Tail(s)[i] = (Tail(p) \o q)[i]
  <2>1. Tail(s)[i] = IF i + 1 <= n THEN p[i + 1] ELSE q[(i + 1) - n]
    BY <1>1, <1>2, <1>6
  <2>2. (i + 1) - n = i - (n - 1) /\ (i + 1 <= n <=> i <= n - 1) /\ (i <= n - 1 => i \in 1..(n - 1))
    BY <1>1
  <2>3. QED
    BY <1>3, <1>4, <2>1, <2>2
<1>8. Tail(s) = Tail(p) \o q
  BY <1>4, <1>6, <1>7, SeqEqual
<1>9. QED
  BY <1>8 DEF s

\* What next_command takes is the oldest waiting command of its lane, and all
\* the others keep waiting in their order.
LEMMA PopTakesFirst ==
  ASSUME TypeOK, CommandInv, HasCommand, Sendable, PopCommand
  PROVE  \E i \in DOMAIN Waiting :
           /\ Waiting[i] = NextCommand /\ Delivery!FirstOfLane(i)
           /\ Waiting' = Delivery!Without(Waiting, i)
<1>1. /\ queue \in Seq(Command) /\ pending \in Seq(Command)
      /\ \A i \in DOMAIN pending : pending[i].kind = "input"
  BY DEF TypeOK, CommandInv, DeferredInputsAreOldest
<1>2. CASE FromPending
  <2>1. /\ pending # <<>> /\ NextCommand = Head(pending) /\ pending' = Tail(pending) /\ queue' = queue
    BY <1>2 DEF FromPending, NextCommand, PopCommand
  <2>2. Waiting \in Seq(Command) /\ Waiting # <<>> /\ Head(Waiting) = Head(pending)
    <3>1. Len(pending) \in Nat \ {0} /\ Len(queue) \in Nat
      BY <1>1, <2>1, EmptySeq, LenProperties
    <3>2. /\ Waiting \in Seq(Command) /\ Len(Waiting) = Len(pending) + Len(queue)
          /\ Waiting[1] = pending[1]
      BY <1>1, <3>1, ConcatProperties DEF Waiting
    <3>3. Waiting # <<>>
      BY <3>1, <3>2
    <3>4. QED
      BY <1>1, <2>1, <3>2, <3>3, TailFacts
  <2>3. /\ <<>> \in Seq(Command) /\ Len(<<>>) = 0 /\ <<>> \o Waiting = Waiting
        /\ <<>> \o Tail(Waiting) = Tail(Waiting)
    BY <2>2, EmptySeq, ConcatEmptySeq, HeadTailProperties
  <2>4. 1 \in DOMAIN Waiting /\ Waiting[1] = Head(Waiting) /\ Delivery!Without(Waiting, 1) = Tail(Waiting)
    <3>1. /\ Len(<<>>) + 1 \in DOMAIN (<<>> \o Waiting) /\ (<<>> \o Waiting)[Len(<<>>) + 1] = Head(Waiting)
          /\ Delivery!Without(<<>> \o Waiting, Len(<<>>) + 1) = <<>> \o Tail(Waiting)
      BY <2>2, <2>3, WithoutFirst
    <3>2. Len(<<>>) + 1 = 1
      BY <2>3
    <3>3. QED
      BY <2>3, <3>1, <3>2
  <2>5. Tail(Waiting) = Tail(pending) \o queue
    BY <1>1, <2>1, TailOfConcat DEF Waiting
  <2>6. Delivery!FirstOfLane(1)
    BY DEF Delivery!FirstOfLane
  <2>7. Waiting' = Tail(Waiting)
    BY <2>1, <2>5 DEF Waiting
  <2>8. QED
    BY <2>1, <2>2, <2>4, <2>6, <2>7
<1>3. CASE ~FromPending
  <2>1. queue # <<>> /\ NextCommand = Head(queue) /\ queue' = Tail(queue) /\ pending' = pending
    BY <1>3 DEF HasCommand, NextCommand, PopCommand
  <2> DEFINE k == Len(pending) + 1
  <2>2. k \in DOMAIN Waiting /\ Waiting[k] = NextCommand /\ Waiting' = Delivery!Without(Waiting, k)
    BY <1>1, <2>1, WithoutFirst DEF Waiting
  <2>3. ASSUME NEW j \in 1..(k - 1)
        PROVE  Delivery!Lane(Waiting[j].kind) # Delivery!Lane(Waiting[k].kind)
    <3>1. Len(pending) \in Nat /\ DOMAIN pending = 1..Len(pending) /\ j \in DOMAIN pending
      BY <1>1, LenProperties
    <3>2. Waiting[j] = pending[j]
      <4>1. j \in 1..(Len(pending) + Len(queue)) /\ j <= Len(pending)
        BY <1>1, <3>1, LenProperties
      <4>2. QED
        BY <1>1, <4>1, ConcatProperties DEF Waiting
    <3>3. pending # <<>>
      BY <3>1
    <3>4. goAway # "none"
      BY <1>3, <3>3 DEF FromPending
    <3>5. NextCommand.kind # "input"
      BY <3>4 DEF Sendable, CanSendDuringGoAway
    <3>6. QED
      BY <1>1, <2>2, <3>1, <3>2, <3>5 DEF Delivery!Lane
  <2>4. Delivery!FirstOfLane(k)
    BY <2>3 DEF Delivery!FirstOfLane, Waiting
  <2>5. QED
    BY <2>2, <2>4
<1>4. QED
  BY <1>2, <1>3

\* What is written arrives behind what was delivered.
LEMMA WriteDelivers ==
  ASSUME TypeOK, NextCommand \in Command, WritePopped
  PROVE  Delivered' = Append(Delivered, NextCommand)
<1> DEFINE Written == [id : Nat, kind : Kinds, epoch : Nat]
           w == [id |-> NextCommand.id, kind |-> NextCommand.kind, epoch |-> epoch]
           seen(x) == [id |-> x.id, kind |-> x.kind]
<1>1. wire \in Seq(Written) /\ w \in Written /\ wire' = Append(wire, w)
  BY DEF TypeOK, WritePopped, Command
<1>2. /\ Len(wire) \in Nat /\ DOMAIN wire = 1..Len(wire)
      /\ wire' \in Seq(Written) /\ DOMAIN wire' = 1..(Len(wire) + 1)
      /\ \A i \in 1..Len(wire) : wire'[i] = wire[i]
      /\ wire'[Len(wire) + 1] = w
  BY <1>1, LenProperties, AppendProperties
<1>3. /\ \A i \in 1..(Len(wire) + 1) : wire'[i] \in Written
      /\ \A x \in Written : seen(x) \in Command
  BY <1>2, Items DEF Command
<1>4. Delivered = [i \in 1..Len(wire) |-> seen(wire[i])] /\ Delivered' = [i \in 1..(Len(wire) + 1) |-> seen(wire'[i])]
  BY <1>2 DEF Delivered
<1>5. seen(w) = NextCommand
  BY DEF Command
<1> HIDE DEF w
<1>6. Delivered \in Seq(Command) /\ Len(Delivered) = Len(wire)
  BY <1>1, <1>2, <1>3, <1>4, Items
<1>7. Delivered' \in Seq(Command) /\ Len(Delivered') = Len(wire) + 1
  BY <1>2, <1>3, <1>4
<1>8. /\ Append(Delivered, NextCommand) \in Seq(Command)
      /\ Len(Append(Delivered, NextCommand)) = Len(wire) + 1
      /\ \A i \in 1..Len(wire) : Append(Delivered, NextCommand)[i] = Delivered[i]
      /\ Append(Delivered, NextCommand)[Len(wire) + 1] = NextCommand
  BY <1>6, AppendProperties
<1>9. \A i \in 1..(Len(wire) + 1) : Delivered'[i] = Append(Delivered, NextCommand)[i]
  BY <1>2, <1>4, <1>5, <1>8
<1>10. QED
  BY <1>7, <1>8, <1>9, SeqEqual

\* A step that leaves the commands alone, and does not stop the session.
LEMMA StutterDelivers ==
  ASSUME UNCHANGED <<queue, pending, nextId, wire>>, Open' = Open
  PROVE  UNCHANGED Delivery!deliveryVars
<1>1. Waiting' = Waiting /\ Delivered' = Delivered
  BY DEF Waiting, Delivered
<1>2. QED
  BY <1>1 DEF Delivery!deliveryVars, Waiting, Delivered, Open

\* A session that has just connected waits for nothing and has delivered nothing.
LEMMA DeliveryStarts == Init => Delivery!Init
<1> SUFFICES ASSUME Init PROVE Delivery!Init
  OBVIOUS
<1>1. pending \o queue = <<>>
  BY DEF Init
<1>2. Delivered = <<>>
  BY DEF Init, Delivered
<1>3. nextId - 1 = 0 /\ Open
  BY DEF Init, Open
<1>4. QED
  BY <1>1, <1>2, <1>3 DEF Delivery!Init, Delivered, Open

\* A command the channel takes waits behind all the others.
LEMMA AcceptDelivers ==
  ASSUME TypeOK, NEW kind \in Kinds, Accept(kind), UNCHANGED <<pending, wire, phase>>
  PROVE  Delivery!Accept(kind)
<1> DEFINE c == [id |-> nextId, kind |-> kind]
<1>1. /\ nextId \in Nat \ {0} /\ nextId <= MaxCommands /\ nextId' = nextId + 1
      /\ queue' = Append(queue, c) /\ c \in Command
      /\ queue \in Seq(Command) /\ pending \in Seq(Command)
  BY DEF TypeOK, Accept, Command
<1> HIDE DEF c
<1>2. Waiting' = Append(Waiting, c)
  <2>1. Append(queue, c) = queue \o <<c>> /\ <<c>> \in Seq(Command)
    BY <1>1, AppendIsConcat
  <2>2. Waiting \in Seq(Command) /\ Append(Waiting, c) = Waiting \o <<c>>
    BY <1>1, ConcatProperties, AppendIsConcat DEF Waiting
  <2>3. pending \o (queue \o <<c>>) = (pending \o queue) \o <<c>>
    BY <1>1, <2>1, ConcatAssociative
  <2>4. QED
    BY <1>1, <2>1, <2>2, <2>3 DEF Waiting
<1>3. /\ nextId - 1 < MaxCommands /\ nextId' - 1 = (nextId - 1) + 1 /\ (nextId - 1) + 1 = nextId
  BY <1>1, ConstantsAssumption
<1>4. Delivered' = Delivered /\ Open' = Open
  BY DEF Delivered, Open
<1>5. QED
  BY <1>2, <1>3, <1>4 DEF Delivery!Accept, Waiting, Delivered, Open, c

\* The runner takes a command: it is put aside, written, or lost.
LEMMA TakeDelivers ==
  ASSUME TypeOK, CommandInv, TakeCommand
  PROVE  [Delivery!Next]_Delivery!deliveryVars
<1>o. Open /\ Open'
  BY DEF TypeOK, TakeCommand, DeferCommand, WriteCommand, FailedWrite, TakeClose, AllSendersDropped,
         Leave, runnerVars, Open
<1>1. CASE DeferCommand
  <2>1. /\ queue # <<>> /\ queue' = Tail(queue) /\ pending' = Append(pending, Head(queue))
        /\ UNCHANGED <<nextId, wire>>
        /\ queue \in Seq(Command) /\ pending \in Seq(Command)
    BY <1>1 DEF DeferCommand, HasCommand, FromPending, Sendable, NextCommand, TypeOK
  <2> DEFINE c == Head(queue)
  <2>2. c \in Command /\ <<c>> \in Seq(Command) /\ Tail(queue) \in Seq(Command)
    BY <2>1, TailFacts
  <2>3. queue = <<c>> \o Tail(queue)
    BY <2>1, HeadTailAppend, HeadTailProperties
  <2>4. Append(pending, c) = pending \o <<c>>
    BY <2>1, <2>2, AppendIsConcat
  <2> HIDE DEF c
  <2>5. (pending \o <<c>>) \o Tail(queue) = pending \o (<<c>> \o Tail(queue))
    BY <2>1, <2>2, ConcatAssociative
  <2>6. Waiting' = Waiting
    BY <2>1, <2>3, <2>4, <2>5 DEF Waiting, c
  <2>7. Delivered' = Delivered /\ Open' = Open
    BY <1>o, <2>1 DEF Delivered
  <2>8. QED
    BY <2>1, <2>6, <2>7 DEF Delivery!deliveryVars, Waiting, Delivered, Open
<1>2. CASE WriteCommand \/ TakeClose
  <2>1. HasCommand /\ Sendable /\ WritePopped /\ PopCommand /\ nextId' = nextId
    BY <1>2 DEF WriteCommand, TakeClose, Sendable, CanSendDuringGoAway, WritePopped
  <2>2. PICK i \in DOMAIN Waiting :
          /\ Waiting[i] = NextCommand /\ Delivery!FirstOfLane(i)
          /\ Waiting' = Delivery!Without(Waiting, i)
    BY <2>1, PopTakesFirst
  <2>3. Delivered' = Append(Delivered, Waiting[i])
    BY <2>1, <2>2, WriteDelivers, PopFacts
  <2>4. Delivery!Deliver(i)
    BY <1>o, <2>1, <2>2, <2>3 DEF Delivery!Deliver, Waiting, Delivered, Open
  <2>5. QED
    BY <2>4 DEF Delivery!Next, Waiting
<1>3. CASE FailedWrite
  <2>1. HasCommand /\ Sendable /\ PopCommand /\ UNCHANGED <<nextId, wire>>
    BY <1>3 DEF FailedWrite
  <2>2. PICK i \in DOMAIN Waiting :
          /\ Waiting[i] = NextCommand /\ Delivery!FirstOfLane(i)
          /\ Waiting' = Delivery!Without(Waiting, i)
    BY <2>1, PopTakesFirst
  <2>3. Delivered' = Delivered
    BY <2>1 DEF Delivered
  <2>4. Delivery!Lose(i)
    BY <1>o, <2>1, <2>2, <2>3 DEF Delivery!Lose, Waiting, Delivered, Open
  <2>5. QED
    BY <2>4 DEF Delivery!Next, Waiting
<1>4. CASE AllSendersDropped
  <2>1. UNCHANGED <<queue, pending, nextId, wire>>
    BY <1>4 DEF AllSendersDropped, commandVars
  <2>2. QED
    BY <1>o, <2>1, StutterDelivers
<1>5. QED
  BY <1>1, <1>2, <1>3, <1>4 DEF TakeCommand

\* Every step of the session is a step of the contract, or none.
LEMMA DeliveryStep == TypeOK /\ CommandInv /\ [Next]_vars => [Delivery!Next]_Delivery!deliveryVars
<1> SUFFICES ASSUME TypeOK, CommandInv, [Next]_vars PROVE [Delivery!Next]_Delivery!deliveryVars
  OBVIOUS
<1>1. CASE TakeCommand
  BY <1>1, TakeDelivers
<1>2. ASSUME NEW h \in Handles, Caller(h) PROVE [Delivery!Next]_Delivery!deliveryVars
  <2>1. ASSUME NEW kind \in Kinds, Accept(kind), UNCHANGED <<pending, wire, phase>>
        PROVE  Delivery!Next
    BY <2>1, AcceptDelivers DEF Delivery!Next, Kinds
  <2>2. CASE UNCHANGED <<queue, pending, nextId, wire, phase>>
    BY <2>2, StutterDelivers DEF Open
  <2>3. ASSUME NEW kind \in Kinds, Send(h, kind) PROVE Delivery!Next
    BY <2>1, <2>3 DEF Send, runnerVars
  <2>4. CASE Close(h)
    BY <2>1, <2>2, <2>4 DEF Close, runnerVars, Kinds
  <2>5. ASSUME NEW g \in Handles, Clone(h, g) PROVE UNCHANGED <<queue, pending, nextId, wire, phase>>
    BY <2>5 DEF Clone, commandVars, runnerVars
  <2>6. CASE Drop(h) \/ NextObservedEvent(h)
    BY <2>2, <2>6 DEF Drop, NextObservedEvent, commandVars, runnerVars
  <2>7. QED
    BY <1>2, <2>2, <2>3, <2>4, <2>5, <2>6 DEF Caller
<1>3. CASE StopQuietly \/ StopWithoutReconnect \/ GiveUp
  <2>1. UNCHANGED <<queue, pending, nextId, wire>> /\ Open /\ ~Open'
    BY <1>3 DEF StopQuietly, StopWithoutReconnect, GiveUp, Stop, commandVars, Open
  <2>2. Delivery!Shut
    <3>1. Waiting' = Waiting /\ Delivered' = Delivered
      BY <2>1 DEF Waiting, Delivered
    <3>2. QED
      BY <2>1, <3>1 DEF Delivery!Shut, Waiting, Delivered, Open
  <2>3. QED
    BY <2>2 DEF Delivery!Next
<1>4. CASE RunnerEnds
  <2>1. /\ queue' = <<>> /\ pending' = <<>> /\ UNCHANGED <<nextId, wire>> /\ ~Open /\ ~Open'
    BY <1>4 DEF RunnerEnds, Open
  <2>2. Waiting' = <<>> /\ Delivered' = Delivered
    BY <2>1 DEF Waiting, Delivered
  <2>3. Delivery!Abandon
    BY <2>1, <2>2 DEF Delivery!Abandon, Waiting, Delivered, Open
  <2>4. QED
    BY <2>3 DEF Delivery!Next
<1>5. CASE UNCHANGED vars
  BY <1>5, StutterDelivers DEF vars, commandVars, runnerVars, Open
<1>6. CASE GoAwayDeadline \/ ReceiveError \/ StartReconnect \/ FailAttempt \/ Reconnected \/ LinkFails \/ ReceiveClose
  <2>1. UNCHANGED <<queue, pending, nextId, wire>>
    BY <1>6 DEF GoAwayDeadline, ReceiveError, StartReconnect, FailAttempt, Reconnected, LinkFails, ReceiveClose,
                commandVars
  <2>2. Open /\ Open'
    BY <1>6 DEF GoAwayDeadline, ReceiveError, StartReconnect, FailAttempt, CanAttempt, Reconnected, LinkFails,
                ReceiveClose, Leave, runnerVars, Open
  <2>3. QED
    BY <2>1, <2>2, StutterDelivers
<1>7. ASSUME NEW msg \in Message, ReceiveMessage(msg) PROVE UNCHANGED Delivery!deliveryVars
  <2>1. UNCHANGED <<queue, pending, nextId, wire>> /\ Open /\ Open'
    BY <1>7 DEF ReceiveMessage, Leave, commandVars, Open
  <2>2. QED
    BY <2>1, StutterDelivers
<1>8. QED
  BY <1>1, <1>2, <1>3, <1>4, <1>5, <1>6, <1>7 DEF Next, Runner, Server

\* The session implements the delivery contract, whatever happens to its
\* connections: every step of run_connected, reconnect and the handles is a step
\* of CommandDelivery or changes nothing a caller may rely on (session.rs).
THEOREM ContractHolds == Spec => DeliveryContract
<1>1. TypeOK /\ CommandInv /\ [Next]_vars => [Delivery!Next]_Delivery!deliveryVars
  BY DeliveryStep
<1>2. QED
  BY TypeCorrect, CommandsInvariant, DeliveryStarts, <1>1, PTL DEF Spec, DeliveryContract, Delivery!Spec
=============================================================================
