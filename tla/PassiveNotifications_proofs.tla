-------------------- MODULE PassiveNotifications_proofs --------------------
(***************************************************************************)
(* DeliveryInv and AcknowledgedIsFinal of PassiveNotifications, for any    *)
(* finite set of notifications and any number of incidents.                *)
(*                                                                         *)
(* The inductive invariant NotesInd adds to DeliveryInv that the queue     *)
(* holds no notification twice, who holds which notification at each step  *)
(* of the pump and the event loop (HoldersInv), and how far the count of a *)
(* notification's sends may be ahead of the reasons for them (SentInv).    *)
(* Most steps are quiet: Steps tells them from the ten that are not, and   *)
(* the rest of the proofs goes through these.                              *)
(***************************************************************************)
EXTENDS PassiveNotifications, SequenceTheorems, FiniteSetTheorems, TLAPS

-----------------------------------------------------------------------------
(* The queue: sequences in which nothing occurs twice.                     *)

\* Nothing occurs twice.
Distinct(s) == \A i, j \in DOMAIN s : s[i] = s[j] => i = j

\* What is left of a sequence when one position is taken out.
LEMMA RemoveAtFacts ==
  ASSUME NEW S, NEW s \in Seq(S), NEW i \in DOMAIN s
  PROVE  /\ RemoveAt(s, i) \in Seq(S)
         /\ Len(RemoveAt(s, i)) = Len(s) - 1
         /\ \A j \in 1..(Len(s) - 1) : RemoveAt(s, i)[j] = IF j < i THEN s[j] ELSE s[j + 1]
<1> DEFINE front == SubSeq(s, 1, i - 1)
           back  == SubSeq(s, i + 1, Len(s))
<1>1. i \in 1..Len(s) /\ Len(s) \in Nat /\ \A j \in 1..Len(s) : s[j] \in S
  BY LenProperties
<1>2. /\ front \in Seq(S) /\ Len(front) = i - 1
      /\ \A j \in 1..(i - 1) : front[j] = s[j]
  BY <1>1, SubSeqProperties
<1>3. /\ back \in Seq(S) /\ Len(back) = Len(s) - i
      /\ \A j \in 1..(Len(s) - i) : back[j] = s[i + j]
  BY <1>1, SubSeqProperties
<1>4. RemoveAt(s, i) = front \o back
  BY DEF RemoveAt
<1> HIDE DEF front, back
<1>5. /\ RemoveAt(s, i) \in Seq(S)
      /\ Len(RemoveAt(s, i)) = Len(s) - 1
      /\ \A j \in 1..(Len(s) - 1) : RemoveAt(s, i)[j] = IF j <= i - 1 THEN front[j] ELSE back[j - (i - 1)]
  <2>1. /\ front \o back \in Seq(S) /\ Len(front \o back) = Len(front) + Len(back)
        /\ \A j \in 1..(Len(front) + Len(back)) :
             (front \o back)[j] = IF j <= Len(front) THEN front[j] ELSE back[j - Len(front)]
    BY <1>2, <1>3, ConcatProperties
  <2>2. Len(front) = i - 1 /\ Len(front) + Len(back) = Len(s) - 1
    BY <1>1, <1>2, <1>3
  <2>3. QED
    BY <1>4, <2>1, <2>2
<1>6. ASSUME NEW j \in 1..(Len(s) - 1) PROVE RemoveAt(s, i)[j] = IF j < i THEN s[j] ELSE s[j + 1]
  <2>1. CASE j < i
    BY <1>1, <1>2, <1>5, <1>6, <2>1
  <2>2. CASE j >= i
    <3>1. j - (i - 1) \in 1..(Len(s) - i) /\ i + (j - (i - 1)) = j + 1
      BY <1>1, <1>6, <2>2
    <3>2. RemoveAt(s, i)[j] = back[j - (i - 1)]
      BY <1>1, <1>5, <1>6, <2>2
    <3>3. back[j - (i - 1)] = s[j + 1]
      BY <1>3, <3>1
    <3>4. QED
      BY <1>1, <1>6, <2>2, <3>2, <3>3
  <2>3. QED
    BY <1>1, <1>6, <2>1, <2>2
<1>7. QED
  BY <1>5, <1>6

\* Taking one item out of a sequence in which it occurs once.
LEMMA Removed ==
  ASSUME NEW S, NEW s \in Seq(S), Distinct(s), NEW i \in DOMAIN s
  PROVE  /\ RemoveAt(s, i) \in Seq(S) /\ Distinct(RemoveAt(s, i))
         /\ ToSet(RemoveAt(s, i)) = ToSet(s) \ {s[i]}
<1> DEFINE r == RemoveAt(s, i)
           from(j) == IF j < i THEN j ELSE j + 1
<1>1. Len(s) \in Nat /\ DOMAIN s = 1..Len(s) /\ i \in 1..Len(s)
  BY LenProperties
<1>2. r \in Seq(S) /\ DOMAIN r = 1..(Len(s) - 1)
  BY <1>1, RemoveAtFacts, LenProperties
<1>3. \A j \in DOMAIN r : r[j] = s[from(j)] /\ from(j) \in DOMAIN s /\ from(j) # i
  <2>1. TAKE j \in DOMAIN r
  <2>2. from(j) \in DOMAIN s /\ from(j) # i
    BY <1>1, <1>2, <2>1
  <2>3. r[j] = s[from(j)]
    BY <1>1, <1>2, <2>1, RemoveAtFacts
  <2>4. QED
    BY <2>2, <2>3
<1>4. \A j, k \in DOMAIN r : from(j) = from(k) => j = k
  BY <1>1, <1>2
<1>5. \A k \in DOMAIN s : k # i => \E j \in DOMAIN r : k = from(j)
  <2>1. TAKE k \in DOMAIN s
  <2>2. CASE k < i
    BY <1>1, <1>2, <2>1, <2>2
  <2>3. CASE k > i
    <3>1. k - 1 \in DOMAIN r /\ from(k - 1) = k
      BY <1>1, <1>2, <2>1, <2>3
    <3>2. QED
      BY <3>1
  <2>4. QED
    BY <1>1, <2>1, <2>2, <2>3
<1> HIDE DEF r, from
<1>6. Distinct(r)
  BY <1>3, <1>4 DEF Distinct
<1>7. ToSet(r) = ToSet(s) \ {s[i]}
  BY <1>3, <1>5 DEF Distinct, ToSet
<1>8. QED
  BY <1>2, <1>6, <1>7 DEF r

\* Putting sequences without a common item behind one another.
LEMMA Joined ==
  ASSUME NEW S, NEW s \in Seq(S), NEW t \in Seq(S), Distinct(s), Distinct(t), ToSet(s) \cap ToSet(t) = {}
  PROVE  /\ s \o t \in Seq(S) /\ Distinct(s \o t)
         /\ ToSet(s \o t) = ToSet(s) \cup ToSet(t)
<1> DEFINE u == s \o t
<1>1. /\ Len(s) \in Nat /\ DOMAIN s = 1..Len(s) /\ Len(t) \in Nat /\ DOMAIN t = 1..Len(t)
  BY LenProperties
<1>2. /\ u \in Seq(S) /\ DOMAIN u = 1..(Len(s) + Len(t))
      /\ \A i \in 1..(Len(s) + Len(t)) : u[i] = IF i <= Len(s) THEN s[i] ELSE t[i - Len(s)]
  BY <1>1, ConcatProperties, LenProperties
<1> HIDE DEF u
<1>3. \A i \in DOMAIN s : i \in DOMAIN u /\ u[i] = s[i]
  BY <1>1, <1>2
<1>4. \A i \in DOMAIN t : i + Len(s) \in DOMAIN u /\ u[i + Len(s)] = t[i]
  BY <1>1, <1>2
<1>5. \A i \in DOMAIN u : \/ i \in DOMAIN s /\ u[i] = s[i]
                          \/ i > Len(s) /\ i - Len(s) \in DOMAIN t /\ u[i] = t[i - Len(s)]
  BY <1>1, <1>2
<1>6. Distinct(u)
  <2> SUFFICES ASSUME NEW i \in DOMAIN u, NEW j \in DOMAIN u, u[i] = u[j] PROVE i = j
    BY DEF Distinct
  <2>1. CASE i \in DOMAIN s /\ j \in DOMAIN s
    BY <1>3, <2>1 DEF Distinct
  <2>2. CASE i \notin DOMAIN s /\ j \notin DOMAIN s
    <3>1. i - Len(s) = j - Len(s)
      BY <1>5, <2>2 DEF Distinct
    <3>2. QED
      BY <1>1, <1>2, <3>1
  <2>3. CASE i \in DOMAIN s /\ j \notin DOMAIN s
    BY <1>5, <2>3 DEF ToSet
  <2>4. CASE i \notin DOMAIN s /\ j \in DOMAIN s
    BY <1>5, <2>4 DEF ToSet
  <2>5. QED
    BY <2>1, <2>2, <2>3, <2>4
<1>7. ToSet(u) = ToSet(s) \cup ToSet(t)
  BY <1>3, <1>4, <1>5 DEF ToSet
<1>8. QED
  BY <1>2, <1>6, <1>7 DEF u

\* The head of a sequence is one of its items.
LEMMA HeadIsThere ==
  ASSUME NEW S, NEW s \in Seq(S), s # <<>>
  PROVE  Head(s) \in ToSet(s) /\ Head(s) \in S
  BY DEF ToSet

\* The orders in which a finite set may be listed.
LEMMA Orders ==
  ASSUME NEW S, NEW T \in SUBSET S, IsFiniteSet(T), NEW order \in SetToSeqs(T)
  PROVE  order \in Seq(S) /\ Distinct(order) /\ ToSet(order) = T
<1> DEFINE n == Cardinality(T)
<1>1. n \in Nat
  BY FS_CardinalityType
<1>2. order \in [1..n -> T] /\ \A i, j \in 1..n : i # j => order[i] # order[j]
  BY DEF SetToSeqs
<1>3. IsFiniteSet(1..n) /\ Cardinality(1..n) = n
  BY <1>1, FS_Interval
<1>4. order \in Injection(1..n, T)
  BY <1>2 DEF Injection, IsInjective
<1>5. order \in Surjection(1..n, T)
  BY <1>3, <1>4, FS_Injection
<1>6. ToSet(order) = T
  BY <1>2, <1>5 DEF Surjection, ToSet
<1>7. order \in Seq(S)
  BY <1>1, <1>2
<1>8. QED
  BY <1>2, <1>6, <1>7 DEF Distinct
-----------------------------------------------------------------------------
(* Type correctness.                                                       *)

\* The types of the parts of the state.
Statuses == {"absent", "queued", "delivered", "acknowledged"}
Places == {"gate", "list", "push", "flag", "send", "unpush", "sync", "syncTrue", "syncFalse",
           "mark", "record", "version", "park", "parked", "idle", "take", "settle"}
Prompts == Notes \cup {"user"}
Turns   == Notes \cup {"user", "voice"}
Settling == [id : Notes \cup {NoNote}, to : {"none", "queued", "acknowledged"}]

\* Where the pump has a candidate and has not let go of it.
Delivering == {"push", "flag", "send", "unpush", "sync", "syncTrue", "syncFalse", "mark", "record"}

\* The queued notifications are those in the queue, each once.
QueueOK ==
  /\ note \in [Notes -> Statuses]
  /\ queue \in Seq(Notes) /\ Distinct(queue)
  /\ {n \in Notes : note[n] = "queued"} = ToSet(queue)

\* Who holds which notification: the pump a candidate that is queued until it is
\* marked, the slot one that was delivered, the event loop the one it settles.
HoldersInv ==
  /\ at["pump"] \in Delivering =>
       /\ inFlightNote = NoNote /\ candidate \in Notes
       /\ note[candidate] = IF at["pump"] = "record" THEN "delivered" ELSE "queued"
  /\ inFlightNote # NoNote => note[inFlightNote] = "delivered"
  /\ at["loop"] \in {"take", "settle"} => settling.to \in {"queued", "acknowledged"}
  /\ at["loop"] = "settle" =>
       /\ settling.id \in Notes /\ note[settling.id] = "delivered"
       /\ settling.id # inFlightNote
       /\ ~(at["pump"] = "record" /\ candidate = settling.id)

\* What the steps of the queue rest on.
Base == DeliveryTypeOK /\ Distinct(queue) /\ HoldersInv

\* It says what QueueOK does.
LEMMA BaseQueue == Base => QueueOK
  BY DEF Base, DeliveryTypeOK, QueueOK, Statuses

\* A record that gets a status is in the queue exactly if it is queued.
LEMMA StatusSet ==
  ASSUME QueueOK, NEW n \in Notes, NEW status \in Statuses, SetStatus(n, status)
  PROVE  /\ QueueOK' /\ unseen' = TRUE
         /\ note'[n] = status /\ \A m \in Notes \ {n} : note'[m] = note[m]
<1> DEFINE rest  == Without(n)
           front == IF status = "queued" THEN <<n>> ELSE <<>>
<1>1. rest \in Seq(Notes) /\ Distinct(rest) /\ ToSet(rest) = ToSet(queue) \ {n}
  <2>1. CASE n \in ToSet(queue)
    <3>1. PICK i \in DOMAIN queue : queue[i] = n
      BY <2>1 DEF ToSet
    <3> DEFINE k == CHOOSE j \in DOMAIN queue : queue[j] = n
    <3>2. k \in DOMAIN queue /\ queue[k] = n
      BY <3>1
    <3>3. rest = RemoveAt(queue, k)
      BY <2>1 DEF Without
    <3> HIDE DEF k
    <3>4. QED
      BY <3>2, <3>3, Removed DEF QueueOK
  <2>2. CASE n \notin ToSet(queue)
    BY <2>2 DEF Without, QueueOK
  <2>3. QED
    BY <2>1, <2>2
<1>2. front \in Seq(Notes) /\ Distinct(front) /\ ToSet(front) = IF status = "queued" THEN {n} ELSE {}
  BY DEF Distinct, ToSet
<1>3. note' = [note EXCEPT ![n] = status] /\ queue' = front \o rest /\ unseen' = TRUE
  BY DEF SetStatus
<1> HIDE DEF front, rest
<1>4. queue' \in Seq(Notes) /\ Distinct(queue)' /\ ToSet(queue') = ToSet(front) \cup (ToSet(queue) \ {n})
  BY <1>1, <1>2, <1>3, Joined
<1>5. note' \in [Notes -> Statuses] /\ note'[n] = status /\ \A m \in Notes \ {n} : note'[m] = note[m]
  BY <1>3 DEF QueueOK
<1>6. {m \in Notes : note'[m] = "queued"} = ToSet(queue')
  BY <1>2, <1>4, <1>5 DEF QueueOK
<1>7. QED
  BY <1>3, <1>4, <1>5, <1>6 DEF QueueOK

\* The other sequences: what is put into them and taken from them.
LEMMA SeqTypes ==
  ASSUME NEW S, NEW s \in Seq(S)
  PROVE  /\ \A e \in S : Append(s, e) \in Seq(S)
         /\ s # <<>> => Tail(s) \in Seq(S) /\ Front(s) \in Seq(S)
<1>1. ASSUME s # <<>> PROVE Front(s) \in Seq(S)
  <2>1. Len(s) \in Nat /\ \A i \in 1..(Len(s) - 1) : s[i] \in S
    BY LenProperties
  <2>2. QED
    BY <2>1, SubSeqProperties DEF Front
<1>2. QED
  BY <1>1, AppendProperties, HeadTailProperties

\* The histories count upwards.
LEMMA Counted ==
  ASSUME NEW f \in [Notes -> Nat], NEW n
  PROVE  [f EXCEPT ![n] = @ + 1] \in [Notes -> Nat]
<1> DEFINE g == [f EXCEPT ![n] = @ + 1]
<1>1. \A m \in Notes : f[m] \in Nat
  OBVIOUS
<1>2. \A m \in Notes : g[m] = IF m = n THEN f[m] + 1 ELSE f[m]
  OBVIOUS
<1>3. g = [m \in Notes |-> g[m]]
  OBVIOUS
<1> HIDE DEF g
<1>4. \A m \in Notes : g[m] \in Nat
  BY <1>1, <1>2
<1>5. g \in [Notes -> Nat]
  BY <1>3, <1>4
<1>6. QED
  BY <1>5 DEF g

\* A restart queues what was delivered in front of what is queued.
LEMMA Recovering ==
  ASSUME Base, HostRestart
  PROVE  /\ QueueOK'
         /\ \A n \in Notes : note'[n] = Recovered(n)
<1>1. QueueOK
  BY BaseQueue
<1>2. note' = [n \in Notes |-> Recovered(n)]
  BY DEF HostRestart
<1>3. note' \in [Notes -> Statuses] /\ \A n \in Notes : note'[n] = Recovered(n)
  BY <1>1, <1>2 DEF Recovered, QueueOK, Statuses
<1> DEFINE D == {n \in Notes : note[n] = "delivered"}
<1>4. PICK order \in SetToSeqs(D) : queue' = order \o queue
  BY DEF HostRestart
<1>5. IsFiniteSet(D) /\ D \in SUBSET Notes
  BY NotesAssumption, FS_Subset
<1> HIDE DEF D
<1>6. order \in Seq(Notes) /\ Distinct(order) /\ ToSet(order) = D
  BY <1>5, Orders
<1>7. ToSet(order) \cap ToSet(queue) = {}
  BY <1>1, <1>6 DEF QueueOK, D
<1>8. queue' \in Seq(Notes) /\ Distinct(queue)' /\ ToSet(queue') = D \cup ToSet(queue)
  BY <1>1, <1>4, <1>6, <1>7, Joined DEF QueueOK
<1>9. {n \in Notes : note'[n] = "queued"} = ToSet(queue')
  BY <1>1, <1>3, <1>8 DEF QueueOK, Recovered, D
<1>10. QED
  BY <1>3, <1>8, <1>9 DEF QueueOK

\* No step breaks a type, or puts a notification into the queue twice.
LEMMA TypeStep == Base /\ [DeliveryNext]_deliveryVars => DeliveryTypeOK' /\ Distinct(queue)'
<1> DEFINE Typed == DeliveryTypeOK' /\ Distinct(queue)'
<1> SUFFICES ASSUME Base, [DeliveryNext]_deliveryVars PROVE Typed
  OBVIOUS
<1> USE NotesAssumption DEF Base, DeliveryTypeOK, storeVars, pumpVars, gateVars, PumpUnchanged, Move
<1>i. Incident => incidents' \in 0..MaxIncidents
  BY DEF Incident
<1>q. /\ QueueOK
      /\ QueueOK' => (/\ note' \in [Notes -> Statuses] /\ queue' \in Seq(Notes) /\ Distinct(queue)'
                      /\ {n \in Notes : note'[n] = "queued"} = ToSet(queue'))
  BY BaseQueue DEF QueueOK
<1>1. ASSUME NEW n \in Notes, Enqueue(n) PROVE Typed
  <2>1. QueueOK' /\ unseen' = TRUE
    BY <1>1, <1>q, StatusSet DEF Enqueue, Statuses
  <2>2. QED
    BY <1>1, <1>q, <2>1 DEF Enqueue, Statuses
<1>2. ASSUME NEW t \in Tasks, SyncRead(t) PROVE Typed
  BY <1>2 DEF SyncRead
<1>3. ASSUME NEW t \in Tasks, SyncSet(t) PROVE Typed
  BY <1>3 DEF SyncSet, SetTurnInFlight
<1>4. ASSUME NEW t \in {"pump", "user"}, Sender(t) PROVE Typed
  <2> t \in Tasks
    BY DEF Tasks
  <2>p. ASSUME at[t] \in {"push", "send"} PROVE Prompt(t) \in Prompts /\ Prompt(t) \in Turns
    BY <2>p DEF Prompt, Prompts, Turns, HoldersInv, Delivering
  <2>1. CASE PushReply(t)
    BY <1>4, <2>1, <2>p, SeqTypes DEF PushReply, Prompts
  <2>2. CASE RaiseFlag(t)
    BY <1>4, <2>2 DEF RaiseFlag, SetTurnInFlight
  <2>3. CASE SendText(t)
    <3>1. turns' \in Seq(Turns)
      BY <2>3, <2>p, SeqTypes DEF SendText, Turns
    <3>2. sent' \in [Notes -> Nat]
      BY <2>3, Counted DEF SendText
    <3>3. at' \in [Tasks -> Places]
      BY <2>3, <1>4 DEF SendText, Sent, Places
    <3>4. UNCHANGED <<storeVars, inFlightNote, pumpVars, gateVars, settling, incidents, excuses, missed, stranded>>
      BY <2>3 DEF SendText
    <3>5. QED
      BY <3>1, <3>2, <3>3, <3>4 DEF Turns, Places
  <2>4. CASE WakeFails(t)
    BY <1>4, <1>i, <2>4 DEF WakeFails, Failed
  <2>5. CASE SendFails(t)
    BY <1>4, <1>i, <2>5 DEF SendFails
  <2>6. CASE PopReply(t)
    BY <1>4, <2>6, SeqTypes DEF PopReply
  <2>7. QED
    BY <1>4, <2>1, <2>2, <2>3, <2>4, <2>5, <2>6 DEF Sender
<1>5. CASE ReceiveMessage
  <2>1. at' \in [Tasks -> Places] /\ incidents' \in 0..MaxIncidents
    BY <1>5, <1>i DEF ReceiveMessage, Places
  <2>2. QED
    BY <1>5, <2>1 DEF ReceiveMessage, Places
<1>6. CASE CheckGate
  BY <1>6, ZenonT(40) DEF CheckGate
<1>7. CASE ListQueued
  BY <1>7, HeadIsThere DEF ListQueued
<1>8. CASE NothingToDispatch
  BY <1>8, ZenonT(40) DEF NothingToDispatch
<1>9. CASE MarkDelivered
  <2>1. candidate \in Notes
    BY <1>9 DEF MarkDelivered, HoldersInv, Delivering
  <2>2. QueueOK' /\ unseen' = TRUE
    BY <1>9, <1>q, <2>1, StatusSet DEF MarkDelivered, Statuses
  <2>3. QED
    BY <1>9, <1>q, <2>2 DEF MarkDelivered, Statuses
<1>10. CASE MarkFails
  <2>1. excuses' \in [Notes -> Nat]
    BY <1>10, Counted DEF MarkFails
  <2>2. incidents' \in 0..MaxIncidents
    BY <1>10, <1>i DEF MarkFails
  <2>3. QED
    BY <1>10, <2>1, <2>2 DEF MarkFails
<1>11. CASE RecordInFlight
  BY <1>11 DEF RecordInFlight
<1>12. CASE ReadVersion
  BY <1>12 DEF ReadVersion
<1>13. CASE Park
  BY <1>13 DEF Park
<1>14. CASE Wake
  BY <1>14 DEF Wake
<1>15. CASE VoiceTurn
  <2>1. turns' \in Seq(Turns) /\ incidents' \in 0..MaxIncidents
    BY <1>15, <1>i, SeqTypes DEF VoiceTurn, Turns
  <2>2. QED
    BY <1>15, <2>1 DEF VoiceTurn, Turns
<1>16. CASE ModelOutput
  BY <1>16, SeqTypes DEF ModelOutput, OpenReply
<1>17. CASE TurnComplete
  <2>1. turns' \in Seq(Turns) /\ replies' \in Seq(Prompts)
    BY <1>17, SeqTypes DEF TurnComplete, Turns, Prompts
  <2>2. incidents' \in 0..MaxIncidents /\ at' \in [Tasks -> Places] /\ settling' \in Settling
    <3>1. incidents' \in 0..MaxIncidents
      BY <1>17, <1>i DEF TurnComplete
    <3>2. at' \in [Tasks -> Places]
      <4>1. at' = at \/ at' = [at EXCEPT !["loop"] = "take"]
        BY <1>17 DEF TurnComplete
      <4>2. QED
        BY <4>1 DEF Places
    <3>3. settling' \in Settling
      BY <1>17 DEF TurnComplete, Settling
    <3>4. QED
      BY <3>1, <3>2, <3>3
  <2>3. UNCHANGED <<storeVars, inFlightNote, pumpVars, turnInFlight, sent, excuses, missed, stranded>> /\ active' = FALSE
    BY <1>17 DEF TurnComplete
  <2>4. QED
    BY <2>1, <2>2, <2>3 DEF Turns, Prompts, Places, Settling
<1>18. CASE Interrupted
  <2>1. turns' \in Seq(Turns)
    <3>1. turns # <<>> /\ turns' \in {turns, Tail(turns)} /\ turns \in Seq(Turns)
      BY <1>18 DEF Interrupted, Turns
    <3>2. Tail(turns) \in Seq(Turns)
      BY <3>1, SeqTypes
    <3>3. QED
      BY <3>1, <3>2
  <2>2. incidents' \in 0..MaxIncidents /\ at' \in [Tasks -> Places] /\ settling' \in Settling
    BY <1>18, <1>i DEF Interrupted, Places, Settling
  <2>3. UNCHANGED <<storeVars, inFlightNote, pumpVars, turnInFlight, replies, sent, excuses, missed, stranded>> /\ active' = FALSE
    BY <1>18 DEF Interrupted
  <2>4. QED
    BY <2>1, <2>2, <2>3 DEF Turns, Places, Settling
<1>19. CASE TakeInFlight
  BY <1>19 DEF TakeInFlight, Idle
<1>20. CASE Settle
  <2>1. settling.id \in Notes /\ settling.to \in {"queued", "acknowledged"}
    BY <1>20 DEF Settle, HoldersInv
  <2>2. QueueOK' /\ unseen' \in BOOLEAN
    <3>1. CASE UNCHANGED storeVars
      BY <1>q, <3>1 DEF QueueOK
    <3>2. CASE SetStatus(settling.id, settling.to)
      <4>1. settling.to \in Statuses
        BY <2>1 DEF Statuses
      <4>2. QED
        BY <1>q, <2>1, <3>2, <4>1, StatusSet
    <3>3. QED
      BY <1>20, <3>1, <3>2 DEF Settle, SettledStatus
  <2>3. missed' \in BOOLEAN /\ settling' \in Settling
    BY <1>20 DEF Settle, Idle, Settling
  <2>4. excuses' \in [Notes -> Nat] /\ at' \in [Tasks -> Places]
    <3>1. excuses' \in [Notes -> Nat]
      BY <1>20, Counted DEF Settle
    <3>2. at' \in [Tasks -> Places]
      BY <1>20 DEF Settle, Places
    <3>3. QED
      BY <3>1, <3>2
  <2>5. UNCHANGED <<inFlightNote, pumpVars, gateVars, turns, incidents, sent, stranded>>
    BY <1>20 DEF Settle
  <2>6. QED
    BY <1>q, <2>2, <2>3, <2>4, <2>5 DEF Settling, Statuses, Places
<1>21. CASE SettleFails
  <2>1. incidents' \in 0..MaxIncidents /\ at' \in [Tasks -> Places] /\ settling' \in Settling
    BY <1>21, <1>i DEF SettleFails, Places, Settling, Idle
  <2>2. stranded' \subseteq Notes
    BY <1>21 DEF SettleFails, HoldersInv
  <2>3. UNCHANGED <<storeVars, inFlightNote, pumpVars, gateVars, turns, sent, excuses>> /\ missed' = TRUE
    BY <1>21 DEF SettleFails
  <2>4. QED
    BY <2>1, <2>2, <2>3 DEF Places, Settling
<1>22. CASE HostRestart
  <2>1. QueueOK'
    BY <1>22, Recovering
  <2>2. incidents' \in 0..MaxIncidents /\ excuses' \in [Notes -> Nat] /\ stranded' = {} /\ sent' = sent
    <3>1. excuses' \in [Notes -> Nat]
      BY <1>22 DEF HostRestart
    <3>2. QED
      BY <1>22, <1>i, <3>1 DEF HostRestart
  <2>3. at' \in [Tasks -> Places] /\ settling' \in Settling
    BY <1>22 DEF HostRestart, Start, Places, Settling, Idle
  <2>4. /\ inFlightNote' = NoNote /\ candidate' = NoNote /\ signalled' = FALSE
        /\ unseen' = FALSE /\ missed' = FALSE
        /\ turnInFlight' = FALSE /\ replies' = <<>> /\ active' = FALSE /\ turns' = <<>>
    BY <1>22 DEF HostRestart, Start
  <2>5. <<>> \in Seq(Prompts) /\ <<>> \in Seq(Turns)
    OBVIOUS
  <2>6. replies' \in Seq(Prompts) /\ turns' \in Seq(Turns)
    BY <2>4, <2>5
  <2>7. QED
    BY <1>q, <2>1, <2>2, <2>3, <2>4, <2>6 DEF Statuses, Places, Settling, Prompts, Turns
<1>23. CASE UNCHANGED deliveryVars
  BY <1>23 DEF deliveryVars
<1>24. QED
  BY <1>1, <1>2, <1>3, <1>4, <1>5, <1>6, <1>7, <1>8, <1>9, <1>10, <1>11, <1>12, <1>13, <1>14, <1>15, <1>16,
     <1>17, <1>18, <1>19, <1>20, <1>21, <1>22, <1>23 DEF DeliveryNext, Pump, User, Loop, Tasks
-----------------------------------------------------------------------------
(* Who holds which notification.                                           *)

\* A step that changes no record, takes and gives up no notification, and sends
\* none: most of what the three tasks do.
Quiet ==
  /\ UNCHANGED <<note, inFlightNote, settling, sent, excuses, stranded>>
  /\ at'["pump"] \in Delivering => at["pump"] \in Delivering /\ candidate' = candidate
  /\ \A p \in {"mark", "record"} : at'["pump"] = p <=> at["pump"] = p
  /\ at'["loop"] = "settle" <=> at["loop"] = "settle"
  /\ at'["loop"] = "take" => at["loop"] = "take"

\* The end of a turn reaches the event loop.
TurnEnds(to) ==
  /\ Move("loop", "idle", "take")
  /\ settling' = [id |-> NoNote, to |-> to]
  /\ UNCHANGED <<note, inFlightNote, candidate, sent, excuses, stranded>>

\* What a step does to notifications: nothing, or one of ten things.
LEMMA Steps ==
  ASSUME at \in [Tasks -> Places], [DeliveryNext]_deliveryVars
  PROVE  \/ Quiet \/ SendText("pump") \/ ListQueued \/ MarkDelivered \/ MarkFails \/ RecordInFlight
         \/ TakeInFlight \/ Settle \/ SettleFails \/ HostRestart
         \/ \E n \in Notes : Enqueue(n)
         \/ \E to \in {"queued", "acknowledged"} : TurnEnds(to)
<1> USE DEF storeVars, pumpVars, gateVars, PumpUnchanged, Move, Tasks
<1>1. ASSUME NEW t \in Tasks, SyncRead(t) \/ SyncSet(t) PROVE Quiet
  BY <1>1 DEF SyncRead, SyncSet, SetTurnInFlight, Quiet, Delivering
<1>2. ASSUME NEW t \in {"pump", "user"}, PushReply(t) \/ RaiseFlag(t) \/ PopReply(t) PROVE Quiet
  BY <1>2 DEF PushReply, RaiseFlag, SetTurnInFlight, PopReply, Quiet, Delivering
<1>3. ASSUME NEW t \in {"pump", "user"}, WakeFails(t) \/ SendFails(t) PROVE Quiet
  BY <1>3 DEF WakeFails, SendFails, Failed, Quiet, Delivering
<1>4. CASE SendText("user")
  BY <1>4 DEF SendText, Sent, Quiet, Delivering
<1>5. CASE ReceiveMessage \/ VoiceTurn \/ ModelOutput
  BY <1>5 DEF ReceiveMessage, VoiceTurn, ModelOutput, OpenReply, Quiet
<1>6. CASE CheckGate \/ NothingToDispatch
  BY <1>6 DEF CheckGate, NothingToDispatch, Quiet, Delivering
<1>7. CASE ReadVersion \/ Park \/ Wake
  BY <1>7 DEF ReadVersion, Park, Wake, Quiet, Delivering
<1>8. CASE TurnComplete
  <2>1. CASE Move("loop", "idle", "take") /\ settling' = [id |-> NoNote, to |-> "acknowledged"]
    BY <1>8, <2>1 DEF TurnComplete, TurnEnds
  <2>2. CASE UNCHANGED <<at, settling>>
    BY <1>8, <2>2 DEF TurnComplete, Quiet
  <2>3. QED
    BY <1>8, <2>1, <2>2 DEF TurnComplete
<1>9. CASE Interrupted
  BY <1>9 DEF Interrupted, TurnEnds
<1>10. CASE UNCHANGED deliveryVars
  BY <1>10 DEF deliveryVars, Quiet
<1> HIDE DEF storeVars, pumpVars, gateVars, PumpUnchanged, Move
<1>11. CASE Sender("pump") \/ Sender("user")
  BY <1>2, <1>3, <1>4, <1>11 DEF Sender
<1>12. QED
  BY <1>1, <1>5, <1>6, <1>7, <1>8, <1>9, <1>10, <1>11 DEF DeliveryNext, Pump, User, Loop

\* What DeliveryTypeOK says of the state these proofs look at.
LEMMA Shapes ==
  ASSUME DeliveryTypeOK
  PROVE  /\ at \in [Tasks -> Places] /\ note \in [Notes -> Statuses]
         /\ inFlightNote \in Notes \cup {NoNote} /\ candidate \in Notes \cup {NoNote}
         /\ settling \in Settling /\ stranded \subseteq Notes
         /\ sent \in [Notes -> Nat] /\ excuses \in [Notes -> Nat]
  BY DEF DeliveryTypeOK, Places, Statuses, Settling

\* What each of the ten does to the records, and to those who hold them.
LEMMA EnqueueDoes ==
  ASSUME QueueOK, NEW n \in Notes, Enqueue(n)
  PROVE  /\ note[n] = "absent" /\ note'[n] = "queued" /\ \A m \in Notes \ {n} : note'[m] = note[m]
         /\ UNCHANGED <<inFlightNote, at, candidate, settling, sent, excuses, stranded>>
<1>1. SetStatus(n, "queued") /\ "queued" \in Statuses
  BY DEF Enqueue, Statuses
<1>2. note'[n] = "queued" /\ \A m \in Notes \ {n} : note'[m] = note[m]
  BY <1>1, StatusSet
<1>3. QED
  BY <1>2 DEF Enqueue, pumpVars

\* The pump marks its candidate, which was queued until then.
LEMMA MarkDoes ==
  ASSUME Base, MarkDelivered
  PROVE  /\ candidate \in Notes /\ note[candidate] = "queued" /\ inFlightNote = NoNote
         /\ note'[candidate] = "delivered" /\ \A m \in Notes \ {candidate} : note'[m] = note[m]
         /\ at["pump"] = "mark" /\ at' = [at EXCEPT !["pump"] = "record"]
         /\ UNCHANGED <<inFlightNote, candidate, settling, sent, excuses, stranded>>
<1>1. at["pump"] = "mark" /\ at' = [at EXCEPT !["pump"] = "record"]
  BY DEF MarkDelivered, Move
<1>2. candidate \in Notes /\ note[candidate] = "queued" /\ inFlightNote = NoNote
  BY <1>1 DEF Base, HoldersInv, Delivering
<1>3. SetStatus(candidate, "delivered") /\ "delivered" \in Statuses
  BY DEF MarkDelivered, Statuses
<1>4. note'[candidate] = "delivered" /\ \A m \in Notes \ {candidate} : note'[m] = note[m]
  BY <1>2, <1>3, BaseQueue, StatusSet
<1>5. QED
  BY <1>1, <1>2, <1>4 DEF MarkDelivered, pumpVars, PumpUnchanged

\* The event loop settles the notification it took, which was delivered.
LEMMA SettleDoes ==
  ASSUME Base, Settle
  PROVE  /\ at["loop"] = "settle" /\ settling.id \in Notes /\ note[settling.id] = "delivered"
         /\ settling.to \in {"queued", "acknowledged"}
         /\ note'[settling.id] = settling.to /\ \A m \in Notes \ {settling.id} : note'[m] = note[m]
         /\ excuses' = IF settling.to = "queued" THEN [excuses EXCEPT ![settling.id] = @ + 1] ELSE excuses
         /\ at' = [at EXCEPT !["loop"] = "sync"]
         /\ UNCHANGED <<inFlightNote, candidate, sent, stranded>>
<1>1. /\ at["loop"] = "settle" /\ settling.id \in Notes /\ note[settling.id] = "delivered"
      /\ settling.to \in {"queued", "acknowledged"}
  BY DEF Settle, Base, HoldersInv
<1>2. SetStatus(settling.id, settling.to) /\ settling.to \in Statuses
  BY <1>1 DEF Settle, SettledStatus, Statuses
<1>3. note'[settling.id] = settling.to /\ \A m \in Notes \ {settling.id} : note'[m] = note[m]
  BY <1>1, <1>2, BaseQueue, StatusSet
<1>4. QED
  BY <1>1, <1>3 DEF Settle, pumpVars

\* Nobody else takes a notification that is held.
LEMMA HoldersStep == Base /\ [DeliveryNext]_deliveryVars => HoldersInv'
<1> SUFFICES ASSUME Base, [DeliveryNext]_deliveryVars PROVE HoldersInv'
  OBVIOUS
<1>s. /\ at \in [Tasks -> Places] /\ note \in [Notes -> Statuses]
      /\ inFlightNote \in Notes \cup {NoNote} /\ settling \in Settling
  BY Shapes DEF Base
<1>h. HoldersInv
  BY DEF Base
<1>q. QueueOK
  BY BaseQueue
<1> USE NotesAssumption DEF Tasks
<1>1. CASE Quiet
  BY <1>1, <1>h DEF Quiet, HoldersInv, Delivering
<1>2. CASE SendText("pump")
  <2>1. /\ at["pump"] = "send" /\ at' = [at EXCEPT !["pump"] = "mark"]
        /\ UNCHANGED <<note, inFlightNote, candidate, settling>>
    BY <1>2 DEF SendText, Move, Sent, storeVars, pumpVars
  <2>2. QED
    BY <1>s, <1>h, <2>1 DEF HoldersInv, Delivering
<1>3. CASE ListQueued
  <2>1. /\ at["pump"] = "list" /\ at' = [at EXCEPT !["pump"] = "push"]
        /\ inFlightNote = NoNote /\ queue # <<>> /\ candidate' = Head(queue)
        /\ UNCHANGED <<note, inFlightNote, settling>>
    BY <1>3 DEF ListQueued, PumpUnchanged, storeVars
  <2>2. candidate' \in Notes /\ note[candidate'] = "queued"
    BY <1>q, <2>1, HeadIsThere DEF QueueOK
  <2>3. QED
    BY <1>s, <1>h, <2>1, <2>2 DEF HoldersInv, Delivering
<1>4. CASE MarkDelivered
  BY <1>4, <1>s, <1>h, MarkDoes DEF HoldersInv, Delivering
<1>5. CASE MarkFails
  <2>1. /\ at' = [at EXCEPT !["pump"] = "version"]
        /\ UNCHANGED <<note, inFlightNote, candidate, settling>>
    BY <1>5 DEF MarkFails, Move, storeVars, pumpVars, PumpUnchanged
  <2>2. QED
    BY <1>s, <1>h, <2>1 DEF HoldersInv, Delivering
<1>6. CASE RecordInFlight
  <2>1. /\ at["pump"] = "record" /\ at' = [at EXCEPT !["pump"] = "version"] /\ inFlightNote' = candidate
        /\ UNCHANGED <<note, candidate, settling>>
    BY <1>6 DEF RecordInFlight, Move, storeVars, pumpVars, PumpUnchanged
  <2>2. QED
    BY <1>s, <1>h, <2>1 DEF HoldersInv, Delivering
<1>7. CASE TakeInFlight
  <2>1. /\ at["loop"] = "take" /\ inFlightNote' = NoNote
        /\ at' = [at EXCEPT !["loop"] = IF inFlightNote = NoNote THEN "sync" ELSE "settle"]
        /\ settling' = IF inFlightNote = NoNote THEN Idle ELSE [settling EXCEPT !.id = inFlightNote]
        /\ UNCHANGED <<note, candidate>>
    BY <1>7 DEF TakeInFlight, storeVars, pumpVars
  <2>2. CASE inFlightNote = NoNote
    BY <1>s, <1>h, <2>1, <2>2 DEF HoldersInv, Delivering
  <2>3. CASE inFlightNote # NoNote
    <3>1. settling' = [settling EXCEPT !.id = inFlightNote] /\ at'["loop"] = "settle" /\ at'["pump"] = at["pump"]
      BY <1>s, <2>1, <2>3
    <3>2. settling'.id = inFlightNote /\ settling'.to = settling.to
      BY <1>s, <3>1 DEF Settling
    <3>3. QED
      BY <1>s, <1>h, <2>1, <2>3, <3>1, <3>2 DEF HoldersInv, Delivering
  <2>4. QED
    BY <2>2, <2>3
<1>8. CASE Settle
  BY <1>8, <1>s, <1>h, SettleDoes DEF HoldersInv, Delivering
<1>9. CASE SettleFails
  <2>1. at' = [at EXCEPT !["loop"] = "idle"] /\ UNCHANGED <<note, inFlightNote, candidate>>
    BY <1>9 DEF SettleFails, Move, storeVars, pumpVars
  <2>2. QED
    BY <1>s, <1>h, <2>1 DEF HoldersInv, Delivering
<1>10. CASE HostRestart
  <2>1. inFlightNote' = NoNote /\ at'["pump"] = "gate" /\ at'["loop"] = "idle"
    BY <1>10 DEF HostRestart, Start
  <2>2. QED
    BY <2>1 DEF HoldersInv, Delivering
<1>11. ASSUME NEW n \in Notes, Enqueue(n) PROVE HoldersInv'
  BY <1>11, <1>s, <1>h, <1>q, EnqueueDoes DEF HoldersInv, Delivering
<1>12. ASSUME NEW to \in {"queued", "acknowledged"}, TurnEnds(to) PROVE HoldersInv'
  BY <1>12, <1>s, <1>h DEF TurnEnds, Move, HoldersInv, Delivering
<1>13. QED
  BY <1>s, <1>1, <1>2, <1>3, <1>4, <1>5, <1>6, <1>7, <1>8, <1>9, <1>10, <1>11, <1>12, Steps
-----------------------------------------------------------------------------
(* A delivered notification is tracked.                                    *)

\* A delivered notification is handed from the pump to the slot and from there to
\* the event loop, and at no step is it with nobody.
LEMMA TrackedStep == Base /\ DeliveredIsTracked /\ [DeliveryNext]_deliveryVars => DeliveredIsTracked'
<1> SUFFICES ASSUME Base, DeliveredIsTracked, [DeliveryNext]_deliveryVars PROVE DeliveredIsTracked'
  OBVIOUS
<1>s. /\ at \in [Tasks -> Places] /\ note \in [Notes -> Statuses]
      /\ inFlightNote \in Notes \cup {NoNote} /\ settling \in Settling
  BY Shapes DEF Base
<1>h. HoldersInv /\ QueueOK
  BY BaseQueue DEF Base
<1> USE NotesAssumption DEF Tasks
<1>1. CASE Quiet
  BY <1>1 DEF Quiet, DeliveredIsTracked, Delivering
<1>2. CASE SendText("pump")
  <2>1. at' = [at EXCEPT !["pump"] = "mark"] /\ UNCHANGED <<note, inFlightNote, candidate, settling, stranded>>
        /\ at["pump"] = "send"
    BY <1>2 DEF SendText, Move, Sent, storeVars, pumpVars
  <2>2. QED
    BY <1>s, <2>1 DEF DeliveredIsTracked
<1>3. CASE ListQueued
  <2>1. at' = [at EXCEPT !["pump"] = "push"] /\ UNCHANGED <<note, inFlightNote, settling, stranded>>
        /\ at["pump"] = "list"
    BY <1>3 DEF ListQueued, PumpUnchanged, storeVars
  <2>2. QED
    BY <1>s, <2>1 DEF DeliveredIsTracked
<1>4. CASE MarkDelivered
  BY <1>4, <1>s, MarkDoes DEF DeliveredIsTracked
<1>5. CASE MarkFails
  <2>1. at' = [at EXCEPT !["pump"] = "version"] /\ UNCHANGED <<note, inFlightNote, candidate, settling, stranded>>
        /\ at["pump"] = "mark"
    BY <1>5 DEF MarkFails, Move, storeVars, pumpVars, PumpUnchanged
  <2>2. QED
    BY <1>s, <2>1 DEF DeliveredIsTracked
<1>6. CASE RecordInFlight
  <2>1. /\ at["pump"] = "record" /\ at' = [at EXCEPT !["pump"] = "version"] /\ inFlightNote' = candidate
        /\ UNCHANGED <<note, candidate, settling, stranded>>
    BY <1>6 DEF RecordInFlight, Move, storeVars, pumpVars, PumpUnchanged
  <2>2. inFlightNote = NoNote
    BY <1>h, <2>1 DEF HoldersInv, Delivering
  <2>3. QED
    BY <1>s, <2>1, <2>2 DEF DeliveredIsTracked
<1>7. CASE TakeInFlight
  <2>1. /\ at["loop"] = "take" /\ inFlightNote' = NoNote
        /\ at' = [at EXCEPT !["loop"] = IF inFlightNote = NoNote THEN "sync" ELSE "settle"]
        /\ settling' = IF inFlightNote = NoNote THEN Idle ELSE [settling EXCEPT !.id = inFlightNote]
        /\ UNCHANGED <<note, candidate, stranded>>
    BY <1>7 DEF TakeInFlight, storeVars, pumpVars
  <2>2. CASE inFlightNote = NoNote
    BY <1>s, <2>1, <2>2 DEF DeliveredIsTracked
  <2>3. CASE inFlightNote # NoNote
    <3>1. settling' = [settling EXCEPT !.id = inFlightNote] /\ at'["loop"] = "settle" /\ at'["pump"] = at["pump"]
      BY <1>s, <2>1, <2>3
    <3>2. settling'.id = inFlightNote
      BY <1>s, <3>1 DEF Settling
    <3>3. QED
      BY <2>1, <3>1, <3>2 DEF DeliveredIsTracked
  <2>4. QED
    BY <2>2, <2>3
<1>8. CASE Settle
  <2>1. \A n \in Notes \ {settling.id} : note'[n] = note[n]
    BY <1>8, SettleDoes
  <2>2. note'[settling.id] # "delivered" /\ at' = [at EXCEPT !["loop"] = "sync"]
        /\ UNCHANGED <<inFlightNote, candidate, stranded>>
    BY <1>8, SettleDoes
  <2>3. QED
    BY <1>s, <2>1, <2>2 DEF DeliveredIsTracked
<1>9. CASE SettleFails
  <2>1. /\ at' = [at EXCEPT !["loop"] = "idle"] /\ UNCHANGED <<note, inFlightNote, candidate>>
        /\ stranded' = stranded \cup {settling.id}
    BY <1>9 DEF SettleFails, Move, storeVars, pumpVars
  <2>2. QED
    BY <1>s, <2>1 DEF DeliveredIsTracked
<1>10. CASE HostRestart
  <2>1. \A n \in Notes : note'[n] = Recovered(n)
    BY <1>10, Recovering
  <2>2. QED
    BY <2>1 DEF DeliveredIsTracked, Recovered
<1>11. ASSUME NEW n \in Notes, Enqueue(n) PROVE DeliveredIsTracked'
  <2>1. \A m \in Notes : note'[m] = "delivered" => note[m] = "delivered"
    BY <1>11, <1>h, EnqueueDoes
  <2>2. UNCHANGED <<inFlightNote, at, candidate, settling, stranded>>
    BY <1>11, <1>h, EnqueueDoes
  <2>3. QED
    BY <2>1, <2>2 DEF DeliveredIsTracked
<1>12. ASSUME NEW to \in {"queued", "acknowledged"}, TurnEnds(to) PROVE DeliveredIsTracked'
  BY <1>12, <1>s DEF TurnEnds, Move, DeliveredIsTracked
<1>13. QED
  BY <1>s, <1>1, <1>2, <1>3, <1>4, <1>5, <1>6, <1>7, <1>8, <1>9, <1>10, <1>11, <1>12, Steps

-----------------------------------------------------------------------------
(* How often a notification was sent.                                      *)

\* The pump has sent it and not yet marked it.
Marking(n) == at["pump"] = "mark" /\ candidate = n

\* A queued notification was sent no more often than there was a reason to send
\* it again; only one the pump has just sent, and one that left the queue, is one
\* ahead.  What is not queued any more was sent.
SentInv ==
  \A n \in Notes :
    /\ sent[n] <= 1 + excuses[n]
    /\ note[n] = "absent" => sent[n] = 0
    /\ note[n] = "queued" /\ ~Marking(n) => sent[n] <= excuses[n]
    /\ Marking(n) \/ note[n] \in {"delivered", "acknowledged"} => sent[n] > 0

\* Each send is paid for, and each way back to the queue is a reason.
LEMMA SentStep == Base /\ SentInv /\ [DeliveryNext]_deliveryVars => SentInv'
<1> SUFFICES ASSUME Base, SentInv, [DeliveryNext]_deliveryVars, NEW n \in Notes
             PROVE  /\ sent'[n] <= 1 + excuses'[n]
                    /\ note'[n] = "absent" => sent'[n] = 0
                    /\ note'[n] = "queued" /\ ~Marking(n)' => sent'[n] <= excuses'[n]
                    /\ Marking(n)' \/ note'[n] \in {"delivered", "acknowledged"} => sent'[n] > 0
  BY DEF SentInv
<1> DEFINE Goal == /\ sent'[n] <= 1 + excuses'[n]
                   /\ note'[n] = "absent" => sent'[n] = 0
                   /\ note'[n] = "queued" /\ ~Marking(n)' => sent'[n] <= excuses'[n]
                   /\ Marking(n)' \/ note'[n] \in {"delivered", "acknowledged"} => sent'[n] > 0
<1>s. /\ at \in [Tasks -> Places] /\ note \in [Notes -> Statuses]
      /\ sent \in [Notes -> Nat] /\ excuses \in [Notes -> Nat]
  BY Shapes DEF Base
<1>h. HoldersInv /\ QueueOK
  BY BaseQueue DEF Base
<1>n. /\ sent[n] \in Nat /\ excuses[n] \in Nat /\ note[n] \in Statuses
      /\ sent[n] <= 1 + excuses[n]
      /\ note[n] = "absent" => sent[n] = 0
      /\ note[n] = "queued" /\ ~Marking(n) => sent[n] <= excuses[n]
      /\ Marking(n) \/ note[n] \in {"delivered", "acknowledged"} => sent[n] > 0
  BY <1>s DEF SentInv
<1> USE NotesAssumption DEF Tasks
<1>1. CASE Quiet
  <2>1. UNCHANGED <<note, sent, excuses>>
    BY <1>1 DEF Quiet
  <2>2. Marking(n)' <=> Marking(n)
    BY <1>1 DEF Quiet, Marking, Delivering
  <2>3. QED
    BY <1>n, <2>1, <2>2
<1>2. CASE SendText("pump")
  <2>1. /\ at["pump"] = "send" /\ at' = [at EXCEPT !["pump"] = "mark"]
        /\ sent' = [sent EXCEPT ![candidate] = @ + 1]
        /\ UNCHANGED <<note, candidate, excuses>>
    BY <1>2 DEF SendText, Move, Sent, storeVars, pumpVars
  <2>2. candidate \in Notes /\ note[candidate] = "queued"
    BY <1>h, <2>1 DEF HoldersInv, Delivering
  <2>3. Marking(n)' <=> candidate = n
    BY <1>s, <2>1 DEF Marking
  <2>4. sent'[n] = IF candidate = n THEN sent[n] + 1 ELSE sent[n]
    BY <1>s, <2>1, <2>2
  <2>5. ~Marking(n)
    BY <2>1 DEF Marking
  <2>6. QED
    BY <1>n, <2>1, <2>2, <2>3, <2>4, <2>5
<1>3. CASE ListQueued
  <2>1. UNCHANGED <<note, sent, excuses>>
    BY <1>3 DEF ListQueued, storeVars
  <2>2. ~Marking(n) /\ ~Marking(n)'
    BY <1>s, <1>3 DEF ListQueued, Marking
  <2>3. QED
    BY <1>n, <2>1, <2>2
<1>4. CASE MarkDelivered
  <2>1. at["pump"] = "mark" /\ at'["pump"] = "record" /\ UNCHANGED <<sent, excuses>>
    BY <1>4, <1>s, MarkDoes
  <2>2. Marking(n) <=> candidate = n
    BY <2>1 DEF Marking
  <2>3. ~Marking(n)'
    BY <2>1 DEF Marking
  <2>4. note'[n] = IF candidate = n THEN "delivered" ELSE note[n]
    BY <1>4, MarkDoes
  <2>5. QED
    BY <1>n, <2>1, <2>2, <2>3, <2>4
<1>5. CASE MarkFails
  <2>1. /\ at["pump"] = "mark" /\ at' = [at EXCEPT !["pump"] = "version"]
        /\ excuses' = [excuses EXCEPT ![candidate] = @ + 1]
        /\ UNCHANGED <<note, candidate, sent>>
    BY <1>5 DEF MarkFails, Move, storeVars, pumpVars
  <2>2. ~Marking(n)' /\ (Marking(n) <=> candidate = n)
    BY <1>s, <2>1 DEF Marking
  <2>3. excuses'[n] = IF candidate = n THEN excuses[n] + 1 ELSE excuses[n]
    BY <1>s, <2>1
  <2>4. QED
    BY <1>n, <2>1, <2>2, <2>3
<1>6. CASE RecordInFlight
  <2>1. /\ at["pump"] = "record" /\ at' = [at EXCEPT !["pump"] = "version"]
        /\ UNCHANGED <<note, sent, excuses>>
    BY <1>6 DEF RecordInFlight, Move, storeVars
  <2>2. ~Marking(n) /\ ~Marking(n)'
    BY <1>s, <2>1 DEF Marking
  <2>3. QED
    BY <1>n, <2>1, <2>2
<1>7. CASE TakeInFlight
  <2>1. at'["pump"] = at["pump"] /\ UNCHANGED <<note, candidate, sent, excuses>>
    BY <1>7, <1>s DEF TakeInFlight, storeVars, pumpVars
  <2>2. Marking(n) <=> Marking(n)'
    BY <2>1 DEF Marking
  <2>3. QED
    BY <1>n, <2>1, <2>2
<1>8. CASE Settle
  <2>1. at' = [at EXCEPT !["loop"] = "sync"] /\ candidate' = candidate /\ sent' = sent
    BY <1>8, SettleDoes
  <2>2. Marking(n) <=> Marking(n)'
    BY <1>s, <2>1 DEF Marking
  <2>3. /\ note[settling.id] = "delivered" /\ settling.to \in {"queued", "acknowledged"}
        /\ note'[n] = IF n = settling.id THEN settling.to ELSE note[n]
    BY <1>8, SettleDoes
  <2>4. excuses'[n] = IF n = settling.id /\ settling.to = "queued" THEN excuses[n] + 1 ELSE excuses[n]
    <3>1. excuses' = IF settling.to = "queued" THEN [excuses EXCEPT ![settling.id] = @ + 1] ELSE excuses
      BY <1>8, SettleDoes
    <3>2. QED
      BY <1>s, <3>1
  <2>5. QED
    BY <1>n, <2>1, <2>2, <2>3, <2>4
<1>9. CASE SettleFails
  <2>1. at'["pump"] = at["pump"] /\ UNCHANGED <<note, candidate, sent, excuses>>
    BY <1>9, <1>s DEF SettleFails, Move, storeVars, pumpVars
  <2>2. Marking(n) <=> Marking(n)'
    BY <2>1 DEF Marking
  <2>3. QED
    BY <1>n, <2>1, <2>2
<1>10. CASE HostRestart
  <2>1. note'[n] = Recovered(n)
    BY <1>10, Recovering
  <2>2. ~Marking(n)' /\ sent' = sent
    BY <1>10 DEF HostRestart, Start, Marking
  <2>3. excuses'[n] = IF note[n] = "delivered" \/ Marking(n) THEN excuses[n] + 1 ELSE excuses[n]
    BY <1>10 DEF HostRestart, Marking
  <2>4. QED
    BY <1>n, <2>1, <2>2, <2>3 DEF Recovered
<1>11. ASSUME NEW m \in Notes, Enqueue(m) PROVE Goal
  <2>1. note[m] = "absent" /\ note'[n] = IF n = m THEN "queued" ELSE note[n]
    BY <1>11, <1>h, EnqueueDoes
  <2>2. UNCHANGED <<at, candidate, sent, excuses>>
    BY <1>11, <1>h, EnqueueDoes
  <2>3. Marking(n) <=> Marking(n)'
    BY <2>2 DEF Marking
  <2>4. QED
    BY <1>n, <2>1, <2>2, <2>3
<1>12. ASSUME NEW to \in {"queued", "acknowledged"}, TurnEnds(to) PROVE Goal
  <2>1. at'["pump"] = at["pump"] /\ UNCHANGED <<note, candidate, sent, excuses>>
    BY <1>12, <1>s DEF TurnEnds, Move
  <2>2. Marking(n) <=> Marking(n)'
    BY <2>1 DEF Marking
  <2>3. QED
    BY <1>n, <2>1, <2>2
<1>13. QED
  BY <1>s, <1>1, <1>2, <1>3, <1>4, <1>5, <1>6, <1>7, <1>8, <1>9, <1>10, <1>11, <1>12, Steps

-----------------------------------------------------------------------------
(* The theorems.                                                           *)

\* The inductive invariant.
NotesInd == Base /\ DeliveredIsTracked /\ SentInv

\* It holds of an empty store, ...
LEMMA NotesInit == DeliveryInit => NotesInd
<1> SUFFICES ASSUME DeliveryInit PROVE NotesInd
  OBVIOUS
<1> USE NotesAssumption DEF DeliveryInit, Idle, Tasks
<1>1. DeliveryTypeOK
  <2>1. queue \in Seq(Notes) /\ {n \in Notes : note[n] = "queued"} = ToSet(queue)
    BY DEF ToSet
  <2>2. replies \in Seq(Notes \cup {"user"}) /\ turns \in Seq(Notes \cup {"user", "voice"})
    OBVIOUS
  <2>3. /\ note \in [Notes -> Statuses] /\ at \in [Tasks -> Places] /\ settling \in Settling
        /\ sent \in [Notes -> Nat] /\ excuses \in [Notes -> Nat]
    BY DEF Statuses, Places, Settling
  <2>4. /\ unseen = FALSE /\ signalled = FALSE /\ inFlightNote = NoNote /\ candidate = NoNote
        /\ turnInFlight = FALSE /\ active = FALSE /\ missed = FALSE /\ stranded = {}
        /\ incidents \in 0..MaxIncidents
    OBVIOUS
  <2> HIDE DEF DeliveryInit, Idle, Tasks
  <2>5. queue \in Seq(Notes)
    BY <2>1
  <2>6. QED
    BY <2>1, <2>2, <2>3, <2>4, <2>5 DEF DeliveryTypeOK, Statuses, Places, Settling
<1>2. Distinct(queue)
  BY DEF Distinct
<1>3. HoldersInv
  BY DEF HoldersInv, Delivering
<1>4. DeliveredIsTracked /\ SentInv
  BY DEF DeliveredIsTracked, SentInv, Marking
<1>5. QED
  BY <1>1, <1>2, <1>3, <1>4 DEF NotesInd, Base

\* ... and every step keeps it.
LEMMA NotesStep == NotesInd /\ [DeliveryNext]_deliveryVars => NotesInd'
  BY TypeStep, HoldersStep, TrackedStep, SentStep DEF NotesInd, Base

\* In every state the notifications are well formed, a delivered one is tracked
\* by the pump, the in-flight slot or the event loop unless an I/O error cut its
\* settlement short, and none was sent to the model more often than once and
\* once more for each reason (store.rs, delivery.rs and the Discord service).
THEOREM NotificationsAreSound == DeliverySpec => []DeliveryInv
<1>1. NotesInd => DeliveryInv
  BY DEF NotesInd, Base, DeliveryInv, SentInv, NoNeedlessRepeat
<1>2. QED
  BY NotesInit, NotesStep, <1>1, PTL DEF DeliverySpec

\* What one step does to an acknowledged notification, and to one it acknowledges.
LEMMA AcknowledgedStep ==
  NotesInd /\ [DeliveryNext]_deliveryVars =>
    \A n \in Notes :
      /\ note[n] = "acknowledged" => note'[n] = "acknowledged" /\ sent'[n] = sent[n]
      /\ note'[n] = "acknowledged" => sent[n] > 0
<1> SUFFICES ASSUME NotesInd, [DeliveryNext]_deliveryVars, NEW n \in Notes
             PROVE  /\ note[n] = "acknowledged" => note'[n] = "acknowledged" /\ sent'[n] = sent[n]
                    /\ note'[n] = "acknowledged" => sent[n] > 0
  OBVIOUS
<1> DEFINE Goal == /\ note[n] = "acknowledged" => note'[n] = "acknowledged" /\ sent'[n] = sent[n]
                   /\ note'[n] = "acknowledged" => sent[n] > 0
<1>s. /\ Base /\ QueueOK /\ HoldersInv /\ at \in [Tasks -> Places] /\ sent \in [Notes -> Nat]
      /\ note[n] \in {"delivered", "acknowledged"} => sent[n] > 0
  BY Shapes, BaseQueue DEF NotesInd, Base, SentInv
<1>1. CASE UNCHANGED <<note, sent>>
  BY <1>1, <1>s
<1>2. CASE SendText("pump")
  <2>1. /\ at["pump"] = "send" /\ sent' = [sent EXCEPT ![candidate] = @ + 1] /\ note' = note
    BY <1>2 DEF SendText, Move, storeVars
  <2>2. note[candidate] = "queued"
    BY <1>s, <2>1 DEF HoldersInv, Delivering
  <2>3. QED
    BY <1>s, <2>1, <2>2
<1>3. CASE MarkDelivered
  BY <1>3, <1>s, MarkDoes
<1>4. CASE Settle
  BY <1>4, <1>s, SettleDoes
<1>5. CASE HostRestart
  <2>1. note'[n] = Recovered(n) /\ sent' = sent
    BY <1>5, <1>s, Recovering DEF HostRestart
  <2>2. QED
    BY <1>s, <2>1 DEF Recovered
<1>6. ASSUME NEW m \in Notes, Enqueue(m) PROVE Goal
  BY <1>6, <1>s, EnqueueDoes
<1>7. Quiet \/ ListQueued \/ MarkFails \/ RecordInFlight \/ TakeInFlight \/ SettleFails
      \/ (\E to \in {"queued", "acknowledged"} : TurnEnds(to)) => UNCHANGED <<note, sent>>
  BY DEF Quiet, ListQueued, MarkFails, RecordInFlight, TakeInFlight, SettleFails, TurnEnds, storeVars
<1>8. QED
  BY <1>s, <1>1, <1>2, <1>3, <1>4, <1>5, <1>6, <1>7, Steps

\* An acknowledged notification stays acknowledged and is not sent again, through
\* requeues, restarts and failures, and only one that was sent to the model gets
\* there (acknowledge_notification, requeue_notification and the recovery).
THEOREM AcknowledgementIsFinal == DeliverySpec => AcknowledgedIsFinal
<1> DEFINE Final == \A n \in Notes :
                      /\ note[n] = "acknowledged" => note'[n] = "acknowledged" /\ sent'[n] = sent[n]
                      /\ note'[n] = "acknowledged" => sent[n] > 0
<1>1. NotesInd /\ [DeliveryNext]_deliveryVars => [Final]_deliveryVars
  BY AcknowledgedStep
<1>2. QED
  BY NotesInit, NotesStep, <1>1, PTL DEF DeliverySpec, AcknowledgedIsFinal
=============================================================================
