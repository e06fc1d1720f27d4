--------------------------- MODULE CliHost_proofs ---------------------------
(***************************************************************************)
(* Theorems of CliHost, for any number of tool calls, configurations,      *)
(* devices, sessions, keys and incidents: the loop leaves only for a       *)
(* reason and shows the connection as it is, and neither dormancy nor a    *)
(* notification cuts off a tool call or a turn.                            *)
(*                                                                         *)
(* CliInd says what the loop's own counters and flags know of what they    *)
(* stand for: the calls in flight never outnumber the counter (CallsInv),  *)
(* a connection that is shown, or is to be, exists, and a close in the     *)
(* queue is the one that is expected (StreamInv).                          *)
(***************************************************************************)
EXTENDS CliHost, FiniteSetTheorems, TLAPS

-----------------------------------------------------------------------------
(* Calls and their counter.                                                *)

\* Calls that will be counted down, unless they are dropped or replaced before.
FlightFates == {"running", "done", "void", "inHand"}

InFlight == {c \in Calls : call[c] \in FlightFates}

\* Calls the loop has counted.
Started == {c \in Calls : call[c] \notin {"none", "requested"}}

CallsInv ==
  /\ call \in [Calls -> Fates] /\ counted \in Nat
  /\ counted <= Cardinality(Started)
  /\ quit \/ Cardinality(InFlight) <= counted

LEMMA Fewer ==
  ASSUME NEW A \in SUBSET Calls, NEW B \in SUBSET A
  PROVE  /\ Cardinality(A) \in Nat /\ Cardinality(B) \in Nat /\ Cardinality(B) <= Cardinality(A)
         /\ IsFiniteSet(A)
  BY HostAssumption, FS_Subset, FS_CardinalityType

\* What a loop that goes on may do to calls without counting.
Uncounted ==
  /\ counted' = counted /\ (quit => quit')
  /\ call' \in [Calls -> Fates]
  /\ \A c \in Calls : /\ call'[c] \in FlightFates => call[c] \in FlightFates
                      /\ call'[c] \in {"none", "requested"} <=> call[c] \in {"none", "requested"}

LEMMA UncountedStep == CallsInv /\ Uncounted => CallsInv'
<1> SUFFICES ASSUME CallsInv, Uncounted PROVE CallsInv'
  OBVIOUS
<1>1. Started' = Started /\ InFlight' \subseteq InFlight /\ InFlight \subseteq Calls
  BY DEF Uncounted, Started, InFlight
<1>2. Cardinality(InFlight') \in Nat /\ Cardinality(InFlight) \in Nat /\ Cardinality(InFlight') <= Cardinality(InFlight)
  BY <1>1, Fewer
<1>3. QED
  BY <1>1, <1>2 DEF CallsInv, Uncounted

\* A branch that drops what was in hand.
LEMMA DroppedIsUncounted ==
  ASSUME CallsInv, call' = Dropped, counted' = counted, quit => quit'
  PROVE  Uncounted
  BY DEF CallsInv, Dropped, Dropping, Uncounted, FlightFates, Fates

LEMMA SameIsUncounted ==
  ASSUME CallsInv, call' = call, counted' = counted, quit => quit'
  PROVE  Uncounted
  BY DEF CallsInv, Uncounted

\* A call gets a new fate that is not more in flight than the one it had.
LEMMA FateIsUncounted ==
  ASSUME CallsInv, NEW base \in [Calls -> Fates], NEW c \in Calls, NEW fate \in Fates \ {"none", "requested"},
         base \in {call, Dropped}, call[c] \in FlightFates,
         call' = [base EXCEPT ![c] = fate], counted' = counted, quit => quit'
  PROVE  Uncounted
<1>1. /\ call' \in [Calls -> Fates]
      /\ \A k \in Calls : call'[k] = IF k = c THEN fate ELSE base[k]
  OBVIOUS
<1>2. \A k \in Calls : base[k] = call[k] \/ (call[k] = "inHand" /\ base[k] = "dropped")
  BY DEF Dropped, Dropping
<1>3. QED
  BY <1>1, <1>2 DEF Uncounted, FlightFates

LEMMA DroppedTyped == CallsInv => Dropped \in [Calls -> Fates]
  BY DEF CallsInv, Dropped, Dropping, Fates

\* A call is requested of the tools, and counted.
LEMMA RequestStep == CallsInv /\ ToolCallRequested => CallsInv'
<1> SUFFICES ASSUME CallsInv, ToolCallRequested PROVE CallsInv'
  OBVIOUS
<1>1. PICK c \in With("requested") : call' = [Dropped EXCEPT ![c] = "running"]
  BY DEF ToolCallRequested
<1>2. c \in Calls /\ call[c] = "requested"
  BY DEF With
<1>3. counted' = counted + 1 /\ quit' = quit
  BY DEF ToolCallRequested
<1>4. call' \in [Calls -> Fates] /\ \A k \in Calls : call'[k] = IF k = c THEN "running" ELSE Dropping(k)
  BY <1>1, <1>2, DroppedTyped DEF Dropped, Fates
<1>5. Started' = Started \cup {c} /\ c \notin Started
  BY <1>2, <1>4 DEF Started, Dropping
<1>6. InFlight' \subseteq InFlight \cup {c} /\ InFlight \cup {c} \subseteq Calls
  BY <1>2, <1>4 DEF InFlight, Dropping, FlightFates
<1>7. IsFiniteSet(Started) /\ IsFiniteSet(InFlight) /\ Cardinality(Started) \in Nat /\ Cardinality(InFlight) \in Nat
  BY Fewer DEF Started, InFlight
<1>8. Cardinality(Started') = Cardinality(Started) + 1
  BY <1>5, <1>7, FS_AddElement
<1>9. Cardinality(InFlight \cup {c}) <= Cardinality(InFlight) + 1 /\ Cardinality(InFlight \cup {c}) \in Nat
  <2>1. Cardinality(InFlight \cup {c})
          = IF c \in InFlight THEN Cardinality(InFlight) ELSE Cardinality(InFlight) + 1
    BY <1>7, FS_AddElement
  <2>2. QED
    BY <1>7, <2>1
<1>10. Cardinality(InFlight') <= Cardinality(InFlight \cup {c}) /\ Cardinality(InFlight') \in Nat
  BY <1>6, Fewer
<1>11. QED
  BY <1>3, <1>4, <1>7, <1>8, <1>9, <1>10 DEF CallsInv

\* A call is counted down.
LEMMA DownStep ==
  ASSUME CallsInv, ~quit, NEW c \in Calls, call[c] \in FlightFates, NEW fate \in {"answered", "failed"},
         call' = [call EXCEPT ![c] = fate], CountDown
  PROVE  CallsInv'
<1>1. call' \in [Calls -> Fates] /\ \A k \in Calls : call'[k] = IF k = c THEN fate ELSE call[k]
  BY DEF CallsInv, Fates
<1>2. Started' = Started
  BY <1>1 DEF Started, FlightFates
<1>3. InFlight' = InFlight \ {c} /\ c \in InFlight
  BY <1>1 DEF InFlight, FlightFates
<1>4. IsFiniteSet(InFlight) /\ Cardinality(InFlight) \in Nat /\ Cardinality(Started) \in Nat
  BY Fewer DEF InFlight, Started
<1>5. Cardinality(InFlight') = Cardinality(InFlight) - 1
  BY <1>3, <1>4, FS_RemoveElement
<1>6. Cardinality(InFlight) > 0
  BY <1>3, <1>4, FS_EmptySet
<1>7. counted' = counted - 1 /\ counted \in Nat /\ counted > 0
  BY <1>4, <1>6 DEF CallsInv, CountDown
<1>8. QED
  BY <1>1, <1>2, <1>4, <1>5, <1>7 DEF CallsInv

\* The count is zero, so nothing is in flight.
LEMMA NoneInFlight ==
  ASSUME CallsInv, counted = 0, ~quit
  PROVE  Outstanding = {}
<1>1. IsFiniteSet(InFlight) /\ Cardinality(InFlight) \in Nat
  BY Fewer DEF InFlight
<1>2. InFlight = {}
  BY <1>1, FS_EmptySet DEF CallsInv
<1>3. QED
  BY <1>2 DEF Outstanding, With, InFlight, FlightFates

LEMMA CallsStep == CallsInv /\ [Next]_vars => CallsInv'
<1> SUFFICES ASSUME CallsInv, [Next]_vars PROVE CallsInv'
  OBVIOUS
<1>1. ASSUME NotificationSignal \/ Edit \/ Quit \/ SendUserInput \/ Stage \/ \E d \in Devices : ToggleDevice(d)
      PROVE  CallsInv'
  <2>1. call' = Dropped /\ counted' = counted /\ (quit => quit')
    BY <1>1 DEF NotificationSignal, Edit, Quit, SendUserInput, Stage, ToggleDevice, Key
  <2>2. QED
    BY <2>1, DroppedIsUncounted, UncountedStep
<1>2. ASSUME OwnClose \/ ModelText \/ TurnComplete \/ Interrupted \/ IdleDeadline
             \/ (\E d \in Devices : ForwardMedia(d))
             \/ \E kind \in {"connecting", "connected", "reconnecting"} : Lifecycle(kind)
      PROVE  CallsInv'
  <2>1. call' = Dropped /\ counted' = counted /\ (quit => quit')
    BY <1>2 DEF OwnClose, ModelText, TurnComplete, Interrupted, IdleDeadline, ForwardMedia, Lifecycle, CountKept, loopVars
  <2>2. QED
    BY <2>1, DroppedIsUncounted, UncountedStep
<1>3. ASSUME Dispatch \/ IdleElapses \/ SessionEnds \/ Congest \/ Relieve \/ TaskNotifies
             \/ (\E d \in Devices : Capture(d)) \/ UNCHANGED vars
      PROVE  CallsInv'
  <2>1. call' = call /\ counted' = counted /\ (quit => quit')
    BY <1>3 DEF Dispatch, IdleElapses, SessionEnds, Congest, Relieve, TaskNotifies, Capture, vars, callVars, loopVars
  <2>2. QED
    BY <2>1, SameIsUncounted, UncountedStep
<1>4. ASSUME NEW kind, Publish(kind) PROVE CallsInv'
  <2>1. call' = call \/ \E c \in With("none") : call' = [call EXCEPT ![c] = "requested"]
    BY <1>4 DEF Publish
  <2>2. counted' = counted /\ quit' = quit
    BY <1>4 DEF Publish, loopVars
  <2>3. Uncounted
    BY <2>1, <2>2 DEF CallsInv, Uncounted, With, Fates, FlightFates
  <2>4. QED
    BY <2>3, UncountedStep
<1>5. CASE ToolReturns
  <2>1. PICK c \in With("running") : call' = [call EXCEPT ![c] = "done"]
    BY <1>5 DEF ToolReturns
  <2>2. counted' = counted /\ quit' = quit
    BY <1>5 DEF ToolReturns, loopVars
  <2>3. c \in Calls /\ call[c] \in FlightFates /\ "done" \in Fates \ {"none", "requested"} /\ call \in [Calls -> Fates]
    BY DEF With, FlightFates, Fates, CallsInv
  <2>4. QED
    BY <2>1, <2>2, <2>3, FateIsUncounted, UncountedStep
<1>6. CASE HoldCompletion
  <2>1. PICK c \in With("done") : call' = [call EXCEPT ![c] = "inHand"]
    BY <1>6 DEF HoldCompletion
  <2>2. counted' = counted /\ quit' = quit
    BY <1>6 DEF HoldCompletion, loopVars
  <2>3. c \in Calls /\ call[c] \in FlightFates /\ "inHand" \in Fates \ {"none", "requested"} /\ call \in [Calls -> Fates]
    BY DEF With, FlightFates, Fates, CallsInv
  <2>4. QED
    BY <2>1, <2>2, <2>3, FateIsUncounted, UncountedStep
<1>7. CASE ToolCallCancelled
  <2>1. counted' = counted /\ quit' = quit
    BY <1>7 DEF ToolCallCancelled
  <2>2. CASE call' = Dropped
    BY <2>1, <2>2, DroppedIsUncounted, UncountedStep
  <2>3. CASE \E c \in With("running") : call' \in {[Dropped EXCEPT ![c] = fate] : fate \in {"cancelled", "void"}}
    <3>1. PICK c \in With("running"), fate \in {"cancelled", "void"} : call' = [Dropped EXCEPT ![c] = fate]
      BY <2>3
    <3>2. c \in Calls /\ call[c] \in FlightFates /\ fate \in Fates \ {"none", "requested"}
      BY <3>1 DEF With, FlightFates, Fates
    <3>3. QED
      BY <2>1, <3>1, <3>2, DroppedTyped, FateIsUncounted, UncountedStep
  <2>4. QED
    BY <1>7, <2>2, <2>3 DEF ToolCallCancelled
<1>8. CASE ApplySessionConfig
  <2>1. counted' = counted /\ quit' = quit
    BY <1>8 DEF ApplySessionConfig
  <2>2. call' = Dropped \/ ReplaceController
    BY <1>8 DEF ApplySessionConfig, Reconnects
  <2>3. CASE ReplaceController
    <3>1. Uncounted
      BY <2>1, <2>3 DEF ReplaceController, Dropping, CallsInv, Uncounted, FlightFates, Fates
    <3>2. QED
      BY <3>1, UncountedStep
  <2>4. QED
    BY <2>1, <2>2, <2>3, DroppedIsUncounted, UncountedStep
<1>9. CASE Leave
  <2>1. counted' = counted /\ quit' = quit
    BY <1>9 DEF Leave
  <2>2. Uncounted
    BY <1>9, <2>1 DEF Leave, Dropping, CallsInv, Uncounted, FlightFates, Fates
  <2>3. QED
    BY <2>2, UncountedStep
<1>10. CASE Closed
  <2>1. call' = Dropped /\ counted' = 0 /\ quit' = TRUE
    BY <1>10 DEF Closed, StopLooping
  <2>2. call' \in [Calls -> Fates] /\ Cardinality(Started)' \in Nat
    BY <2>1, DroppedTyped, Fewer DEF Started
  <2>3. QED
    BY <2>1, <2>2 DEF CallsInv
<1>11. CASE ToolCallRequested
  BY <1>11, RequestStep
<1>12. CASE ForwardCompletion \/ FinishForward
  <2>1. PICK c \in With("done") \cup With("inHand"), ok \in BOOLEAN : Forwarded(c, ok)
    BY <1>12 DEF ForwardCompletion, FinishForward
  <2>2. c \in Calls /\ call[c] \in FlightFates /\ ~quit
    BY <1>12 DEF With, FlightFates, ForwardCompletion, FinishForward, Selecting
  <2>3. /\ call' = [call EXCEPT ![c] = IF ok THEN "answered" ELSE "failed"] /\ CountDown
        /\ (IF ok THEN "answered" ELSE "failed") \in {"answered", "failed"}
    BY <2>1 DEF Forwarded
  <2>4. QED
    BY <2>2, <2>3, DownStep
<1>13. CASE ForwardVoid
  <2>1. PICK c \in With("void") : call' = [call EXCEPT ![c] = "answered"]
    BY <1>13 DEF ForwardVoid
  <2>2. c \in Calls /\ call[c] \in FlightFates /\ ~quit /\ CountDown
    BY <1>13 DEF With, FlightFates, ForwardVoid, Selecting
  <2>3. QED
    BY <2>1, <2>2, DownStep
<1>14. QED
  BY <1>1, <1>2, <1>3, <1>4, <1>5, <1>6, <1>7, <1>8, <1>9, <1>10, <1>11, <1>12, <1>13
     DEF Next, Keys, Receive, Forward, Environment

-----------------------------------------------------------------------------
(* Events and the connection.                                              *)

Kinds == {"connecting", "connected", "reconnecting", "closed", "text", "turn", "interrupted", "call", "cancel"}

Holds(s, kind) == \E i \in 1..Len(s) : s[i] = kind

AtMostOne(s, kind) == \A i, j \in 1..Len(s) : s[i] = kind /\ s[j] = kind => i = j

\* TypeOK, of the variables that are not counted.
SimpleTypes ==
  /\ program \in {"running", "ended", "failed"} /\ pc \in {"select", "dispatch"}
  /\ opened \in 0..MaxSessions /\ session \in {None, opened}
  /\ (session = None => ~alive) /\ (congested => alive)
  /\ {setup, desired, active, staged} \subseteq Configs
  /\ shown \in {"dormant", "connecting", "connected", "reconnecting", "closed"}
  /\ note \in {"none", "queued", "delivered", "acknowledged"} /\ (tracked => note = "delivered")
  /\ media \subseteq Devices /\ captured \subseteq Devices

\* A connection that is shown, or is in the queue, exists, and one that is not shown
\* yet is in the queue.
ShownInv ==
  program = "running" =>
    /\ session = None \/ idle => ~Holds(events, "connected")
    /\ shown = "connected" => session # None
    /\ shown = "dormant" => session = None \/ Holds(events, "connected")

\* Unless a session ended by itself, the one close in the queue is expected.
CloseInv ==
  program = "running" /\ ~lost =>
    /\ AtMostOne(events, "closed")
    /\ Holds(events, "closed") => dormantClose /\ ~idle

StreamInv == events \in Seq(Kinds) /\ ShownInv /\ CloseInv /\ QuitsForAReason

LEMMA Appended ==
  ASSUME NEW s \in Seq(Kinds), NEW e \in Kinds
  PROVE  /\ Append(s, e) \in Seq(Kinds) /\ Append(s, e) # <<>>
         /\ \A kind : Holds(Append(s, e), kind) <=> Holds(s, kind) \/ kind = e
         /\ AtMostOne(s, "closed") /\ (e = "closed" => ~Holds(s, "closed")) => AtMostOne(Append(s, e), "closed")
<1> DEFINE f == Append(s, e)
<1>1. /\ f \in Seq(Kinds) /\ Len(f) = Len(s) + 1 /\ Len(s) \in Nat /\ f[Len(s) + 1] = e
      /\ \A i \in 1..Len(s) : f[i] = s[i]
  OBVIOUS
<1> HIDE DEF f
<1>2. \A i \in 1..Len(f) : i \in 1..Len(s) \/ i = Len(s) + 1
  BY <1>1
<1>3. \A i \in 1..Len(s) : i \in 1..Len(f)
  BY <1>1
<1>4. Len(s) + 1 \in 1..Len(f) /\ f # <<>>
  BY <1>1
<1>5. \A kind : Holds(f, kind) <=> Holds(s, kind) \/ kind = e
  BY <1>1, <1>2, <1>3, <1>4 DEF Holds
<1>6. AtMostOne(s, "closed") /\ (e = "closed" => ~Holds(s, "closed")) => AtMostOne(f, "closed")
  BY <1>1, <1>2 DEF AtMostOne, Holds
<1>7. QED
  BY <1>1, <1>4, <1>5, <1>6 DEF f

LEMMA Taken ==
  ASSUME NEW s \in Seq(Kinds), s # <<>>
  PROVE  /\ Tail(s) \in Seq(Kinds) /\ Head(s) \in Kinds
         /\ \A kind : Holds(s, kind) <=> Holds(Tail(s), kind) \/ kind = Head(s)
         /\ AtMostOne(s, "closed") =>
              AtMostOne(Tail(s), "closed") /\ (Head(s) = "closed" => ~Holds(Tail(s), "closed"))
<1> DEFINE f == Tail(s)
<1>1. /\ f \in Seq(Kinds) /\ Len(f) + 1 = Len(s) /\ Len(f) \in Nat /\ Head(s) = s[1] /\ s[1] \in Kinds
      /\ \A i \in 1..Len(f) : f[i] = s[i + 1]
  OBVIOUS
<1> HIDE DEF f
<1>2. \A i \in 1..Len(s) : i = 1 \/ (i - 1 \in 1..Len(f) /\ i = (i - 1) + 1)
  BY <1>1
<1>3. \A i \in 1..Len(f) : i + 1 \in 1..Len(s) /\ i + 1 # 1
  BY <1>1
<1>4. 1 \in 1..Len(s)
  BY <1>1
<1>5. \A kind : Holds(s, kind) <=> Holds(f, kind) \/ kind = s[1]
  <2>1. TAKE kind
  <2>2. ASSUME NEW i \in 1..Len(s), s[i] = kind PROVE Holds(f, kind) \/ kind = s[1]
    <3>1. i - 1 \in 1..Len(f) => f[i - 1] = s[(i - 1) + 1]
      BY <1>1
    <3>2. QED
      BY <1>2, <2>2, <3>1 DEF Holds
  <2>3. ASSUME NEW i \in 1..Len(f), f[i] = kind PROVE Holds(s, kind)
    BY <1>1, <1>3, <2>3 DEF Holds
  <2>4. QED
    BY <1>4, <2>2, <2>3 DEF Holds
<1>6. ASSUME AtMostOne(s, "closed")
      PROVE  AtMostOne(f, "closed") /\ (s[1] = "closed" => ~Holds(f, "closed"))
  <2>1. \A i, j \in 1..Len(f) : f[i] = "closed" /\ f[j] = "closed" => i + 1 = j + 1
    BY <1>1, <1>3, <1>6 DEF AtMostOne
  <2>2. \A i \in 1..Len(f) : f[i] = "closed" => s[1] # "closed"
    BY <1>1, <1>3, <1>4, <1>6 DEF AtMostOne
  <2>3. QED
    BY <1>1, <2>1, <2>2 DEF AtMostOne, Holds
<1>7. QED
  BY <1>1, <1>5, <1>6 DEF f

\* A new session's two events.
LEMMA Connected ==
  ASSUME NEW s \in Seq(Kinds)
  PROVE  LET t == s \o <<"connecting", "connected">>
         IN  /\ t \in Seq(Kinds) /\ t # <<>> /\ Holds(t, "connected")
             /\ Holds(t, "closed") => Holds(s, "closed")
             /\ AtMostOne(s, "closed") => AtMostOne(t, "closed")
<1> DEFINE u == Append(s, "connecting")
           t == Append(u, "connected")
<1>1. s \o <<"connecting", "connected">> = t
  OBVIOUS
<1> HIDE DEF t, u
<1>2. u \in Seq(Kinds) /\ (Holds(u, "closed") => Holds(s, "closed"))
      /\ (AtMostOne(s, "closed") => AtMostOne(u, "closed"))
  BY Appended DEF u, Kinds
<1>3. /\ t \in Seq(Kinds) /\ t # <<>> /\ Holds(t, "connected")
      /\ Holds(t, "closed") => Holds(u, "closed")
      /\ AtMostOne(u, "closed") => AtMostOne(t, "closed")
  BY <1>2, Appended DEF t, Kinds
<1>4. QED
  BY <1>1, <1>2, <1>3

LEMMA FreshStream == /\ \A kind : ~Holds(<<>>, kind)
                     /\ AtMostOne(<<>>, "closed") /\ <<>> \in Seq(Kinds)
                     /\ <<"connected">> \in Seq(Kinds) /\ AtMostOne(<<"connected">>, "closed")
                     /\ Holds(<<"connected">>, "connected") /\ ~Holds(<<"connected">>, "closed")
<1>1. Len(<<>>) = 0 /\ Len(<<"connected">>) = 1 /\ <<"connected">>[1] = "connected"
  OBVIOUS
<1>2. QED
  BY <1>1 DEF Holds, AtMostOne, Kinds

\* A step that leaves the queue and the connection alone.
LEMMA QuietStep ==
  ASSUME StreamInv, UNCHANGED <<session, events, shown, dormantClose, lost>>,
         program = "running", idle' => idle \/ events = <<>>, quit' => quit \/ asked', asked => asked'
  PROVE  StreamInv'
<1>1. events' = <<>> => \A kind : ~Holds(events, kind)
  BY FreshStream
<1>2. QED
  BY <1>1 DEF StreamInv, ShownInv, CloseInv, QuitsForAReason

\* An event that is neither a connection nor a close.
LEMMA TellStep ==
  ASSUME StreamInv, NEW kind \in Kinds \ {"connected", "closed"}, Tell(kind),
         UNCHANGED <<session, shown, dormantClose, lost, quit, asked>>,
         program = "running", idle' => idle
  PROVE  StreamInv'
<1>1. /\ events' \in Seq(Kinds)
      /\ \A k \in {"connected", "closed"} : Holds(events', k) <=> Holds(events, k)
      /\ AtMostOne(events, "closed") => AtMostOne(events', "closed")
  BY Appended DEF StreamInv, Tell
<1>2. QED
  BY <1>1 DEF StreamInv, ShownInv, CloseInv, QuitsForAReason

\* A session is reached, or opened, or it fails.
LEMMA ReachStep ==
  ASSUME StreamInv, NEW ok \in BOOLEAN, Reach(ok),
         UNCHANGED <<shown, dormantClose, lost, quit, asked>>,
         program = "running", idle' => idle /\ ~ok,
         SimpleTypes
  PROVE  StreamInv'
<1>1. CASE session # None
  <2>1. session' = session /\ events' = events
    BY <1>1 DEF Reach, sessionVars
  <2>2. QED
    BY <2>1, QuietStep
<1>2. CASE session = None /\ ok
  <2>1. events' = events \o <<"connecting", "connected">> /\ session' = opened + 1
    BY <1>2 DEF Reach, Connect
  <2>2. session' # None /\ ~idle'
    BY <1>2, <2>1, HostAssumption DEF SimpleTypes
  <2>3. /\ events' \in Seq(Kinds) /\ Holds(events', "connected")
        /\ Holds(events', "closed") => Holds(events, "closed")
        /\ AtMostOne(events, "closed") => AtMostOne(events', "closed")
    BY <2>1, Connected DEF StreamInv
  <2>4. QED
    BY <2>2, <2>3 DEF StreamInv, ShownInv, CloseInv, QuitsForAReason
<1>3. CASE session = None /\ ~ok
  <2>1. Tell("connecting") /\ session' = session /\ "connecting" \in Kinds \ {"connected", "closed"}
    BY <1>3 DEF Reach, Connect, Kinds
  <2>2. QED
    BY <2>1, TellStep
<1>4. QED
  BY <1>1, <1>2, <1>3

\* The loop takes an event; one that is shown, shows what it says.
LEMMA TakeStep ==
  ASSUME StreamInv, NEW kind \in Kinds \ {"closed"}, Received(kind),
         UNCHANGED <<session, dormantClose, lost, quit, asked>>, ~idle',
         IF kind \in {"connecting", "connected", "reconnecting"} THEN shown' = kind ELSE shown' = shown
  PROVE  StreamInv'
<1>1. /\ program = "running" /\ events # <<>> /\ Head(events) = kind /\ events' = Tail(events)
      /\ events \in Seq(Kinds)
  BY DEF Received, Selecting, StreamInv
<1>2. /\ events' \in Seq(Kinds) /\ \A k : Holds(events, k) <=> Holds(events', k) \/ k = kind
      /\ AtMostOne(events, "closed") => AtMostOne(events', "closed")
  BY <1>1, Taken
<1>3. ShownInv'
  BY <1>1, <1>2 DEF StreamInv, ShownInv
<1>4. CloseInv'
  BY <1>1, <1>2 DEF StreamInv, CloseInv
<1>5. QED
  BY <1>2, <1>3, <1>4 DEF StreamInv, QuitsForAReason

\* A close: the host's own, or that of a session that ended by itself.
LEMMA CloseStep ==
  ASSUME StreamInv, OwnClose \/ Closed
  PROVE  StreamInv'
<1>1. /\ program = "running" /\ events # <<>> /\ Head(events) = "closed" /\ events' = Tail(events)
      /\ events \in Seq(Kinds) /\ UNCHANGED <<session, lost, asked>>
  BY DEF OwnClose, Closed, Received, Selecting, StreamInv, sessionVars, historyVars
<1>2. /\ events' \in Seq(Kinds) /\ \A k : Holds(events, k) <=> Holds(events', k) \/ k = "closed"
      /\ AtMostOne(events, "closed") => AtMostOne(events', "closed") /\ ~Holds(events', "closed")
  BY <1>1, Taken
<1>3. CASE OwnClose
  <2>1. shown' = shown /\ idle' = idle /\ quit' = quit
    BY <1>3 DEF OwnClose, loopVars
  <2>2. QED
    BY <1>1, <1>2, <2>1 DEF StreamInv, ShownInv, CloseInv, QuitsForAReason
<1>4. CASE Closed
  <2>1. shown' = "closed" /\ ~idle' /\ ~dormantClose /\ dormantClose' = dormantClose
    BY <1>4 DEF Closed
  <2>2. lost
    BY <1>1, <1>2, <2>1 DEF StreamInv, CloseInv
  <2>3. QED
    BY <1>1, <1>2, <2>1, <2>2 DEF StreamInv, ShownInv, CloseInv, QuitsForAReason
<1>5. QED
  BY <1>3, <1>4

LEMMA StreamStep == SimpleTypes /\ StreamInv /\ [Next]_vars => StreamInv'
<1> SUFFICES ASSUME SimpleTypes, StreamInv, [Next]_vars PROVE StreamInv'
  OBVIOUS
<1>1. ASSUME NotificationSignal \/ Edit \/ Quit \/ Stage \/ (\E d \in Devices : ToggleDevice(d))
             \/ ForwardVoid \/ Congest \/ Relieve \/ ToolReturns \/ TaskNotifies \/ IdleElapses
             \/ \E d \in Devices : Capture(d)
      PROVE  StreamInv'
  <2>1. UNCHANGED <<session, events, shown, dormantClose, lost>> /\ (quit' => quit \/ asked') /\ (asked => asked')
    BY <1>1 DEF NotificationSignal, Edit, Quit, Stage, ToggleDevice, ForwardVoid, Congest, Relieve, ToolReturns,
       TaskNotifies, IdleElapses, Capture, loopVars, sessionVars, closeVars, historyVars
  <2>2. program = "running" /\ (idle' => idle \/ events = <<>>)
    BY <1>1 DEF NotificationSignal, Edit, Quit, Stage, ToggleDevice, Key, ForwardVoid, Congest, Relieve, ToolReturns,
       TaskNotifies, IdleElapses, Capture, Selecting, closeVars
  <2>3. QED
    BY <2>1, <2>2, QuietStep
<1>2. CASE Dispatch
  <2>1. program = "running" /\ UNCHANGED <<shown, dormantClose, lost, quit, asked>>
    BY <1>2 DEF Dispatch, historyVars
  <2>2. CASE DeliverNotification
    <3>1. PICK ok \in BOOLEAN : Reach(ok) /\ (idle' => idle /\ ~ok)
      BY <2>2 DEF DeliverNotification
    <3>2. QED
      BY <2>1, <3>1, ReachStep
  <2>3. CASE ~DeliverNotification
    <3>1. UNCHANGED <<session, events, idle>>
      BY <1>2, <2>3 DEF Dispatch, sessionVars
    <3>2. QED
      BY <2>1, <3>1, QuietStep
  <2>4. QED
    BY <2>2, <2>3
<1>3. CASE SendUserInput
  <2>1. program = "running" /\ UNCHANGED <<shown, dormantClose, lost, quit, asked>>
    BY <1>3 DEF SendUserInput, Key, Selecting, historyVars
  <2>2. PICK ok \in BOOLEAN : Reach(ok) /\ (idle' => idle /\ ~ok)
    BY <1>3 DEF SendUserInput
  <2>3. QED
    BY <2>1, <2>2, ReachStep
<1>4. ASSUME NEW d \in Devices, ForwardMedia(d) PROVE StreamInv'
  <2>1. program = "running" /\ UNCHANGED <<shown, dormantClose, lost, quit, asked>> /\ ~idle'
    BY <1>4 DEF ForwardMedia, ForwardResets, Selecting, historyVars, loopVars
  <2>2. PICK ok \in BOOLEAN : Reach(ok)
    BY <1>4 DEF ForwardMedia
  <2>3. QED
    BY <2>1, <2>2, ReachStep
<1>5. CASE ForwardCompletion \/ FinishForward
  <2>1. PICK c \in Calls, ok \in BOOLEAN : Reach(ok) /\ Forwarded(c, ok)
    BY <1>5 DEF ForwardCompletion, FinishForward, With
  <2>2. program = "running"
    BY <1>5 DEF ForwardCompletion, FinishForward, Selecting
  <2>3. UNCHANGED <<shown, dormantClose, lost, quit, asked>> /\ (idle' => idle /\ ~ok)
    BY <2>1 DEF Forwarded, historyVars
  <2>4. QED
    BY <2>1, <2>2, <2>3, ReachStep
<1>6. CASE HoldCompletion
  <2>1. program = "running" /\ UNCHANGED <<session, shown, dormantClose, lost, quit, asked, idle>>
    BY <1>6 DEF HoldCompletion, Selecting, sessionVars, closeVars, historyVars, loopVars
  <2>2. "connecting" \in Kinds \ {"connected", "closed"}
    BY DEF Kinds
  <2>3. Tell("connecting") \/ events' = events
    BY <1>6 DEF HoldCompletion
  <2>4. QED
    BY <2>1, <2>2, <2>3, TellStep, QuietStep
<1>7. CASE ApplySessionConfig
  <2>1. program = "running" /\ UNCHANGED <<shown, dormantClose, lost, quit, asked>>
    BY <1>7 DEF ApplySessionConfig, Selecting, historyVars
  <2>2. "reconnecting" \in Kinds \ {"connected", "closed"}
    BY DEF Kinds
  <2>3. CASE UNCHANGED <<sessionVars, events, idle>>
    BY <2>1, <2>3, QuietStep DEF sessionVars
  <2>4. CASE Tell("reconnecting") /\ UNCHANGED <<sessionVars, idle>>
    BY <2>1, <2>2, <2>4, TellStep DEF sessionVars
  <2>5. CASE Reconnects
    <3>1. events' = <<"connected">> /\ session' = opened + 1 /\ ~idle'
      BY <2>5 DEF Reconnects, Reconnected
    <3>2. session' # None
      BY <3>1, HostAssumption DEF SimpleTypes
    <3>3. QED
      BY <2>1, <3>1, <3>2, FreshStream DEF StreamInv, ShownInv, CloseInv, QuitsForAReason
  <2>6. QED
    BY <1>7, <2>3, <2>4, <2>5 DEF ApplySessionConfig
<1>8. ASSUME ModelText \/ TurnComplete \/ Interrupted \/ ToolCallRequested \/ ToolCallCancelled
             \/ \E kind \in {"connecting", "connected", "reconnecting"} : Lifecycle(kind)
      PROVE  StreamInv'
  <2>1. /\ UNCHANGED <<session, dormantClose, lost, quit, asked>> /\ ~idle'
    BY <1>8 DEF ModelText, TurnComplete, Interrupted, ToolCallRequested, ToolCallCancelled, Lifecycle,
       sessionVars, historyVars
  <2>2. CASE ModelText \/ TurnComplete \/ Interrupted \/ ToolCallRequested \/ ToolCallCancelled
    <3>1. shown' = shown
      BY <2>2 DEF ModelText, TurnComplete, Interrupted, ToolCallRequested, ToolCallCancelled
    <3>2. PICK kind \in {"text", "turn", "interrupted", "call", "cancel"} : Received(kind)
      BY <2>2 DEF ModelText, TurnComplete, Interrupted, ToolCallRequested, ToolCallCancelled
    <3>3. kind \in Kinds \ {"closed"} /\ kind \notin {"connecting", "connected", "reconnecting"}
      BY <3>2 DEF Kinds
    <3>4. QED
      BY <2>1, <3>1, <3>2, <3>3, TakeStep
  <2>3. CASE \E kind \in {"connecting", "connected", "reconnecting"} : Lifecycle(kind)
    <3>1. PICK kind \in {"connecting", "connected", "reconnecting"} : Received(kind) /\ shown' = kind
      BY <2>3 DEF Lifecycle
    <3>2. kind \in Kinds \ {"closed"}
      BY <3>1 DEF Kinds
    <3>3. QED
      BY <2>1, <3>1, <3>2, TakeStep
  <2>4. QED
    BY <1>8, <2>2, <2>3
<1>9. CASE OwnClose \/ Closed
  BY <1>9, CloseStep
<1>10. CASE IdleDeadline
  <2>1. /\ program = "running" /\ program' = program /\ quit' = quit /\ idle /\ ~idle'
        /\ UNCHANGED <<lost, asked>>
    BY <1>10 DEF IdleDeadline, Selecting, loopVars, historyVars
  <2>2. CASE session # None /\ CanEnterDormant
    <3>1. Tell("closed") /\ session' = None /\ shown' = "dormant" /\ dormantClose' = TRUE
      BY <1>10, <2>2 DEF IdleDeadline, OwnCloseExpected, EnterDormant, ShowDormant
    <3>2. /\ events' \in Seq(Kinds) /\ (Holds(events', "connected") => Holds(events, "connected"))
          /\ AtMostOne(events, "closed") /\ ~Holds(events, "closed") => AtMostOne(events', "closed")
      BY <3>1, Appended DEF StreamInv, Tell, Kinds
    <3>3. QED
      BY <2>1, <3>1, <3>2 DEF StreamInv, ShownInv, CloseInv, QuitsForAReason
  <2>3. CASE ~(session # None /\ CanEnterDormant)
    <3>1. UNCHANGED <<session, events, shown, dormantClose>>
      BY <1>10, <2>3 DEF IdleDeadline, sessionVars
    <3>2. QED
      BY <2>1, <3>1, QuietStep
  <2>4. QED
    BY <2>2, <2>3
<1>11. CASE Leave
  <2>1. program' = "ended" /\ quit' = quit /\ asked' = asked /\ lost' = lost
    BY <1>11 DEF Leave, historyVars
  <2>2. events' \in Seq(Kinds)
    <3>1. Tell("closed") \/ events' = events
      BY <1>11 DEF Leave, EnterDormant
    <3>2. QED
      BY <3>1, Appended DEF StreamInv, Tell, Kinds
  <2>3. QED
    BY <2>1, <2>2 DEF StreamInv, ShownInv, CloseInv, QuitsForAReason
<1>12. CASE SessionEnds
  <2>1. /\ UNCHANGED <<program, quit, session, shown, idle, asked>> /\ lost' = TRUE /\ Tell("closed")
    BY <1>12 DEF SessionEnds, loopVars, closeVars
  <2>2. events' \in Seq(Kinds) /\ (Holds(events', "connected") <=> Holds(events, "connected"))
    BY <2>1, Appended DEF StreamInv, Tell, Kinds
  <2>3. QED
    BY <2>1, <2>2 DEF StreamInv, ShownInv, CloseInv, QuitsForAReason
<1>13. ASSUME NEW kind \in {"text", "turn", "interrupted", "call", "cancel"}, Publish(kind) PROVE StreamInv'
  <2>1. /\ program = "running" /\ UNCHANGED <<session, shown, dormantClose, lost, quit, asked, idle>> /\ Tell(kind)
    BY <1>13 DEF Publish, loopVars, closeVars, historyVars
  <2>2. kind \in Kinds \ {"connected", "closed"}
    BY DEF Kinds
  <2>3. QED
    BY <2>1, <2>2, TellStep
<1>14. CASE UNCHANGED vars
  BY <1>14 DEF vars, loopVars, sessionVars, closeVars, historyVars, StreamInv, ShownInv, CloseInv, QuitsForAReason
<1>15. QED
  BY <1>1, <1>2, <1>3, <1>4, <1>5, <1>6, <1>7, <1>8, <1>9, <1>10, <1>11, <1>12, <1>13, <1>14
     DEF Next, Keys, Receive, Forward, Environment

-----------------------------------------------------------------------------
(* Types.                                                                  *)

\* Reaching a session keeps it one that was opened.
LEMMA ReachTypes ==
  ASSUME SimpleTypes, NEW ok \in BOOLEAN, Reach(ok)
  PROVE  /\ opened' \in 0..MaxSessions /\ session' \in {None, opened'}
         /\ (session' = None => ~alive') /\ (congested' => alive')
         /\ setup' \in Configs
<1>1. CASE session # None
  BY <1>1 DEF Reach, SimpleTypes, sessionVars
<1>2. CASE session = None /\ ok
  BY <1>2, HostAssumption DEF Reach, Connect, SimpleTypes
<1>3. CASE session = None /\ ~ok
  BY <1>3 DEF Reach, Connect, SimpleTypes
<1>4. QED
  BY <1>1, <1>2, <1>3

\* What SimpleTypes says of the session.
SessionTypes == /\ opened \in 0..MaxSessions /\ session \in {None, opened}
                /\ (session = None => ~alive) /\ (congested => alive)
                /\ setup \in Configs

LEMMA TypesStep == SimpleTypes /\ [Next]_vars => SimpleTypes'
<1> SUFFICES ASSUME SimpleTypes, [Next]_vars PROVE SimpleTypes'
  OBVIOUS
<1>1. SessionTypes'
  <2>1. ASSUME NEW ok \in BOOLEAN, Reach(ok) PROVE SessionTypes'
    BY <2>1, ReachTypes DEF SessionTypes
  <2>2. CASE EnterDormant
    BY <2>2 DEF EnterDormant, SessionTypes, SimpleTypes
  <2>3. CASE UNCHANGED sessionVars
    BY <2>3 DEF sessionVars, SessionTypes, SimpleTypes
  <2>4. CASE Reconnects
    BY <2>4, HostAssumption DEF Reconnects, SessionTypes, SimpleTypes
  <2>5. CASE SessionEnds \/ Congest \/ Relieve
    BY <2>5 DEF SessionEnds, Congest, Relieve, SessionTypes, SimpleTypes
  <2>6. ASSUME NEW kind, Publish(kind) PROVE SessionTypes'
    BY <2>6 DEF Publish, SessionTypes, SimpleTypes
  <2>7. CASE Dispatch \/ SendUserInput \/ ForwardCompletion \/ FinishForward \/ \E d \in Devices : ForwardMedia(d)
    <3>1. UNCHANGED sessionVars \/ \E ok \in BOOLEAN : Reach(ok)
      BY <2>7 DEF Dispatch, DeliverNotification, SendUserInput, ForwardCompletion, FinishForward, ForwardMedia
    <3>2. QED
      BY <2>1, <2>3, <3>1
  <2>8. CASE IdleDeadline \/ Leave
    <3>1. EnterDormant \/ UNCHANGED sessionVars
      BY <2>8 DEF IdleDeadline, Leave
    <3>2. QED
      BY <2>2, <2>3, <3>1
  <2>9. CASE ApplySessionConfig
    <3>1. Reconnects \/ UNCHANGED sessionVars
      BY <2>9 DEF ApplySessionConfig
    <3>2. QED
      BY <2>3, <2>4, <3>1
  <2>10. CASE NotificationSignal \/ Edit \/ Quit \/ Stage \/ (\E d \in Devices : ToggleDevice(d)) \/ Receive
              \/ ForwardVoid \/ HoldCompletion \/ IdleElapses \/ ToolReturns \/ TaskNotifies
              \/ (\E d \in Devices : Capture(d)) \/ UNCHANGED vars
    <3>1. UNCHANGED sessionVars
      BY <2>10 DEF NotificationSignal, Edit, Quit, Stage, ToggleDevice, Receive, OwnClose, Closed, ModelText,
         TurnComplete, Interrupted, ToolCallRequested, ToolCallCancelled, Lifecycle, ForwardVoid, HoldCompletion,
         IdleElapses, ToolReturns, TaskNotifies, Capture, vars
    <3>2. QED
      BY <2>3, <3>1
  <2>11. QED
    BY <2>5, <2>6, <2>7, <2>8, <2>9, <2>10 DEF Next, Keys, Forward, Environment
<1>2. program' \in {"running", "ended", "failed"} /\ pc' \in {"select", "dispatch"}
  BY DEF SimpleTypes, Next, Keys, Receive, Forward, Environment, Dispatch, DeliverNotification, Fail, NotificationSignal,
     Edit, Quit, SendUserInput, Stage, ApplySessionConfig, ToggleDevice, OwnClose, Closed, Lifecycle, ModelText,
     TurnComplete, Interrupted, ToolCallRequested, ToolCallCancelled, ForwardCompletion, FinishForward, Forwarded,
     ForwardVoid, HoldCompletion, ForwardMedia, IdleDeadline, IdleElapses, Leave, Publish, SessionEnds, Congest,
     Relieve, ToolReturns, TaskNotifies, Capture, vars, loopVars
<1>3. {desired, active, staged}' \subseteq Configs
  <2>1. CASE ApplySessionConfig
    BY <2>1 DEF ApplySessionConfig, Reconnects, ReplaceController, SimpleTypes
  <2>2. CASE Stage
    BY <2>2 DEF Stage, SimpleTypes
  <2>3. CASE UNCHANGED configVars
    BY <2>3 DEF configVars, SimpleTypes
  <2>4. QED
    BY <2>1, <2>2, <2>3
    DEF Next, Keys, Receive, Forward, Environment, Dispatch, NotificationSignal,
     Edit, Quit, SendUserInput, ToggleDevice, OwnClose, Closed, Lifecycle, ModelText,
     TurnComplete, Interrupted, ToolCallRequested, ToolCallCancelled, ForwardCompletion, FinishForward, Forwarded,
     ForwardVoid, HoldCompletion, ForwardMedia, IdleDeadline, IdleElapses, Leave, Publish, SessionEnds, Congest,
     Relieve, ToolReturns, TaskNotifies, Capture, vars
<1>4. shown' \in {"dormant", "connecting", "connected", "reconnecting", "closed"}
  BY DEF SimpleTypes, Next, Keys, Receive, Forward, Environment, Dispatch, NotificationSignal,
     Edit, Quit, SendUserInput, Stage, ApplySessionConfig, ToggleDevice, OwnClose, Closed, Lifecycle, ModelText,
     TurnComplete, Interrupted, ToolCallRequested, ToolCallCancelled, ForwardCompletion, FinishForward, Forwarded,
     ForwardVoid, HoldCompletion, ForwardMedia, IdleDeadline, ShowDormant, IdleElapses, Leave, Publish, SessionEnds,
     Congest, Relieve, ToolReturns, TaskNotifies, Capture, vars
<1>5. note' \in {"none", "queued", "delivered", "acknowledged"} /\ (tracked' => note' = "delivered")
  <2>1. CASE Dispatch
    BY <2>1 DEF Dispatch, DeliverNotification, SimpleTypes
  <2>2. CASE ApplySessionConfig
    BY <2>2 DEF ApplySessionConfig, Reconnects, ReplaceController, SimpleTypes
  <2>3. CASE TurnComplete \/ Interrupted \/ TaskNotifies
    BY <2>3 DEF TurnComplete, Acknowledge, Interrupted, TaskNotifies, SimpleTypes
  <2>4. CASE UNCHANGED <<note, tracked>>
    BY <2>4 DEF SimpleTypes
  <2>5. QED
    BY <2>1, <2>2, <2>3, <2>4
    DEF Next, Keys, Receive, Forward, Environment, NotificationSignal,
     Edit, Quit, SendUserInput, Stage, ToggleDevice, OwnClose, Closed, Lifecycle, ModelText,
     ToolCallRequested, ToolCallCancelled, ForwardCompletion, FinishForward, Forwarded,
     ForwardVoid, HoldCompletion, ForwardMedia, IdleDeadline, IdleElapses, Leave, Publish, SessionEnds, Congest,
     Relieve, ToolReturns, Capture, vars, noteVars
<1>6. media' \subseteq Devices /\ captured' \subseteq Devices
  <2>1. ASSUME NEW d \in Devices, ToggleDevice(d) \/ Capture(d) \/ ForwardMedia(d)
        PROVE  media' \subseteq Devices /\ captured' \subseteq Devices
    BY <2>1 DEF ToggleDevice, Capture, ForwardMedia, SimpleTypes
  <2>2. CASE UNCHANGED mediaVars
    BY <2>2 DEF mediaVars, SimpleTypes
  <2>3. QED
    BY <2>1, <2>2
    DEF Next, Keys, Receive, Forward, Environment, Dispatch, NotificationSignal,
     Edit, Quit, SendUserInput, Stage, ApplySessionConfig, OwnClose, Closed, Lifecycle, ModelText,
     TurnComplete, Interrupted, ToolCallRequested, ToolCallCancelled, ForwardCompletion, FinishForward, Forwarded,
     ForwardVoid, HoldCompletion, IdleDeadline, IdleElapses, Leave, Publish, SessionEnds, Congest,
     Relieve, ToolReturns, TaskNotifies, vars
<1>7. QED
  BY <1>1, <1>2, <1>3, <1>4, <1>5, <1>6 DEF SimpleTypes, SessionTypes

-----------------------------------------------------------------------------
(* The theorems.                                                           *)

\* The inductive invariant.
CliInd == SimpleTypes /\ CallsInv /\ StreamInv

LEMMA CliStarts == Init => CliInd
<1> SUFFICES ASSUME Init PROVE CliInd
  OBVIOUS
<1>1. SimpleTypes
  BY HostAssumption DEF Init, SimpleTypes
<1>2. CallsInv
  <2>1. InFlight = {} /\ Started = {}
    BY DEF Init, InFlight, Started, FlightFates
  <2>2. QED
    BY <2>1, FS_EmptySet DEF Init, CallsInv, Fates
<1>3. StreamInv
  BY FreshStream DEF Init, StreamInv, ShownInv, CloseInv, QuitsForAReason
<1>4. QED
  BY <1>1, <1>2, <1>3 DEF CliInd

LEMMA CliStep == CliInd /\ [Next]_vars => CliInd'
  BY TypesStep, CallsStep, StreamStep DEF CliInd

LEMMA CliGivesInv == CliInd => CliInv
<1> SUFFICES ASSUME CliInd PROVE CliInv
  OBVIOUS
<1>1. counted \in 0..Cardinality(Calls)
  <2>1. Cardinality(Started) <= Cardinality(Calls) /\ Cardinality(Started) \in Nat /\ Cardinality(Calls) \in Nat
    BY Fewer DEF Started
  <2>2. QED
    BY <2>1 DEF CliInd, CallsInv
<1>2. TypeOK
  BY <1>1 DEF CliInd, SimpleTypes, CallsInv, TypeOK
<1>3. ShownAsItIs
  BY FreshStream DEF CliInd, StreamInv, ShownInv, ShownAsItIs
<1>4. QED
  BY <1>2, <1>3 DEF CliInd, StreamInv, CliInv

\* The loop ends only when the user quits or a session ended by itself, never for the
\* close of its own dormancy, and once its events are handled it shows the connection
\* there is.
THEOREM CliIsSound == Spec => []CliInv
<1>1. Spec => []CliInd
  BY CliStarts, CliStep, PTL DEF Spec
<1>2. QED
  BY <1>1, CliGivesInv, PTL

\* Neither dormancy nor a notification cuts off a call or a turn: no call is
\* unanswered when the counter says so, whatever was cancelled, replaced or dropped.
THEOREM NothingIsCutOff == Spec => NothingCutOff
<1>1. ASSUME CliInd, [Next]_vars
      PROVE  [ \/ program' # "running" \/ quit
               \/ /\ session # None /\ session' = None => Outstanding = {} /\ ~turn /\ ~tracked
                  /\ ~tracked /\ tracked' => Outstanding = {} /\ ~turn ]_vars
  <2>1. CASE UNCHANGED vars
    BY <2>1
  <2>2. CASE quit
    BY <2>2
  <2>3. CASE Next /\ ~quit
    <3>1. counted = 0 => Outstanding = {}
      BY <1>1, <2>3, NoneInFlight DEF CliInd
    <3>2. session # None /\ session' = None => Leave \/ (Outstanding = {} /\ ~turn /\ ~tracked)
      <4>1. ASSUME session # None, session' = None PROVE Leave \/ (IdleDeadline /\ CanEnterDormant)
        <5>1. \A ok \in BOOLEAN : ~Reach(ok)
          BY <4>1 DEF Reach, sessionVars
        <5>2. ~Reconnects
          BY <1>1, <4>1, HostAssumption DEF Reconnects, CliInd, SimpleTypes
        <5>3. session' # session
          BY <4>1
        <5>4. QED
          BY <2>3, <5>1, <5>2, <5>3
          DEF Next, Keys, Receive, Forward, Environment, Dispatch, DeliverNotification, NotificationSignal,
            Edit, Quit, SendUserInput, Stage, ApplySessionConfig, ToggleDevice, OwnClose, Closed, Lifecycle, ModelText,
            TurnComplete, Interrupted, ToolCallRequested, ToolCallCancelled, ForwardCompletion, FinishForward,
            ForwardVoid, HoldCompletion, ForwardMedia, IdleDeadline, IdleElapses, Publish, SessionEnds, Congest,
            Relieve, ToolReturns, TaskNotifies, Capture, sessionVars
      <4>2. CanEnterDormant => counted = 0 /\ ~turn /\ ~tracked
        BY DEF CanEnterDormant
      <4>3. QED
        BY <3>1, <4>1, <4>2
    <3>3. ~tracked /\ tracked' => Outstanding = {} /\ ~turn
      <4>1. ASSUME ~tracked, tracked' PROVE CanDeliver
        BY <2>3, <4>1
        DEF Next, Keys, Receive, Forward, Environment, Dispatch, DeliverNotification, NotificationSignal,
          Edit, Quit, SendUserInput, Stage, ApplySessionConfig, Reconnects, ReplaceController, ToggleDevice, OwnClose,
          Closed, Lifecycle, ModelText, TurnComplete, Acknowledge, Interrupted, ToolCallRequested, ToolCallCancelled,
          ForwardCompletion, FinishForward, Forwarded, ForwardVoid, HoldCompletion, ForwardMedia, IdleDeadline,
          IdleElapses, Leave, Publish, SessionEnds, Congest, Relieve, ToolReturns, TaskNotifies, Capture, noteVars
      <4>2. QED
        BY <3>1, <4>1 DEF CanDeliver
    <3>4. Leave => program' # "running"
      BY DEF Leave
    <3>5. QED
      BY <3>2, <3>3, <3>4
  <2>4. QED
    BY <1>1, <2>1, <2>2, <2>3
<1>2. Spec => []CliInd
  BY CliStarts, CliStep, PTL DEF Spec
<1>3. QED
  BY <1>1, <1>2, PTL DEF Spec, NothingCutOff
=============================================================================
