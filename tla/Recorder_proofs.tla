---------------------------- MODULE Recorder_proofs ----------------------------
(***************************************************************************)
(* RecorderInv and TurnsDoNotOverlap of Recorder, for any number of        *)
(* windows, media, events, sessions, restarts and failed appends.          *)
(*                                                                         *)
(* The inductive invariant RecorderInd adds to RecorderInv that a window   *)
(* whose submission was accepted has a record and no error yet             *)
(* (AcceptedInv), what is empty at each await of a body (BehindInv), that  *)
(* nothing has happened before the first session (BeforeInv), and that the *)
(* recorder and a living session agree on whether an activity is open      *)
(* (ActivityInv).  The windows are proved about through Turn, which sorts  *)
(* the actions by what they do to windows and records.                     *)
(***************************************************************************)
EXTENDS Recorder, SequenceTheorems, TLAPS

-----------------------------------------------------------------------------
(* Sequences: what is in one, and where.                                   *)

\* x occurs in s.
Has(s, x) == \E i \in DOMAIN s : s[i] = x

\* Each element is less than those after it.
Increasing(s) == \A i, j \in DOMAIN s : i < j => s[i] < s[j]

\* What Append and Tail do, position by position.
LEMMA AppendFacts ==
  ASSUME NEW S, NEW s \in Seq(S), NEW x \in S
  PROVE  /\ Append(s, x) \in Seq(S) /\ Len(Append(s, x)) = Len(s) + 1
         /\ DOMAIN s = 1..Len(s) /\ DOMAIN Append(s, x) = 1..(Len(s) + 1) /\ Len(s) \in Nat
         /\ \A i \in 1..Len(s) : Append(s, x)[i] = s[i] /\ s[i] \in S
         /\ Append(s, x)[Len(s) + 1] = x
  BY AppendProperties, LenProperties

\* The same for the rest of a sequence.
LEMMA TailFacts ==
  ASSUME NEW S, NEW s \in Seq(S), s # <<>>
  PROVE  /\ Tail(s) \in Seq(S) /\ Len(Tail(s)) = Len(s) - 1 /\ Len(s) \in Nat \ {0}
         /\ DOMAIN s = 1..Len(s) /\ DOMAIN Tail(s) = 1..(Len(s) - 1)
         /\ \A i \in 1..(Len(s) - 1) : Tail(s)[i] = s[i + 1]
         /\ \A i \in 1..Len(s) : s[i] \in S
         /\ Head(s) = s[1]
<1>1. Len(s) \in Nat \ {0} /\ Tail(s) \in Seq(S) /\ Len(Tail(s)) = Len(s) - 1 /\ Head(s) = s[1]
      /\ \A i \in 1..Len(Tail(s)) : Tail(s)[i] = s[i + 1]
  BY HeadTailProperties, EmptySeq, LenProperties
<1>2. QED
  BY <1>1, LenProperties

\* A sequence stays one over any set that has its elements.
LEMMA InSeq ==
  ASSUME NEW S, NEW T, NEW s \in Seq(S), \A i \in DOMAIN s : s[i] \in T
  PROVE  s \in Seq(T)
  BY LenProperties, IsASeq

\* Appending adds one element.
LEMMA HasAppend ==
  ASSUME NEW S, NEW s \in Seq(S), NEW x \in S, NEW y
  PROVE  Has(Append(s, x), y) <=> Has(s, y) \/ y = x
<1>1. ASSUME Has(Append(s, x), y) PROVE Has(s, y) \/ y = x
  <2>1. PICK i \in 1..(Len(s) + 1) : Append(s, x)[i] = y
    BY <1>1, AppendFacts DEF Has
  <2>2. CASE i = Len(s) + 1
    BY <2>1, <2>2, AppendFacts
  <2>3. CASE i # Len(s) + 1
    <3>1. i \in 1..Len(s)
      BY <2>3, AppendFacts
    <3>2. QED
      BY <2>1, <3>1, AppendFacts DEF Has
  <2>4. QED
    BY <2>2, <2>3
<1>2. ASSUME Has(s, y) PROVE Has(Append(s, x), y)
  <2>1. PICK i \in 1..Len(s) : s[i] = y
    BY <1>2, AppendFacts DEF Has
  <2>2. i \in 1..(Len(s) + 1)
    BY AppendFacts
  <2>3. QED
    BY <2>1, <2>2, AppendFacts DEF Has
<1>3. Has(Append(s, x), x)
  <2>1. Len(s) + 1 \in 1..(Len(s) + 1)
    BY AppendFacts
  <2>2. QED
    BY <2>1, AppendFacts DEF Has
<1>4. QED
  BY <1>1, <1>2, <1>3

\* Taking the first of an increasing sequence removes just that one.
LEMMA HasTail ==
  ASSUME NEW s \in Seq(Nat), s # <<>>, Increasing(s), NEW y
  PROVE  Has(Tail(s), y) <=> Has(s, y) /\ y # Head(s)
<1>1. ASSUME Has(Tail(s), y) PROVE Has(s, y) /\ y # Head(s)
  <2>1. PICK i \in 1..(Len(s) - 1) : Tail(s)[i] = y
    BY <1>1, TailFacts DEF Has
  <2>2. i + 1 \in 1..Len(s) /\ 1 \in 1..Len(s) /\ 1 < i + 1 /\ s[i + 1] = y
    BY <2>1, TailFacts
  <2>3. s[1] \in Nat /\ s[i + 1] \in Nat /\ DOMAIN s = 1..Len(s) /\ Head(s) = s[1]
    BY <2>2, TailFacts
  <2>4. s[1] < s[i + 1]
    BY <2>2, <2>3 DEF Increasing
  <2>5. QED
    BY <2>2, <2>3, <2>4 DEF Has
<1>2. ASSUME Has(s, y), y # Head(s) PROVE Has(Tail(s), y)
  <2>1. PICK i \in 1..Len(s) : s[i] = y
    BY <1>2, TailFacts DEF Has
  <2>2. i # 1
    BY <1>2, <2>1, TailFacts
  <2>3. i - 1 \in 1..(Len(s) - 1) /\ (i - 1) + 1 = i
    BY <2>1, <2>2, TailFacts
  <2>4. Tail(s)[i - 1] = s[(i - 1) + 1]
    BY <2>3, TailFacts
  <2>5. QED
    BY <2>1, <2>3, <2>4, TailFacts DEF Has
<1>3. QED
  BY <1>1, <1>2

\* A greater element may be appended, and the first one taken.
LEMMA IncreasingAppend ==
  ASSUME NEW s \in Seq(Nat), NEW x \in Nat, Increasing(s), \A i \in DOMAIN s : s[i] < x
  PROVE  Increasing(Append(s, x))
<1> SUFFICES ASSUME NEW i \in 1..(Len(s) + 1), NEW j \in 1..(Len(s) + 1), i < j
             PROVE  Append(s, x)[i] < Append(s, x)[j]
  BY AppendFacts DEF Increasing
<1>1. i \in 1..Len(s) /\ Append(s, x)[i] = s[i] /\ DOMAIN s = 1..Len(s)
  BY AppendFacts
<1>2. CASE j = Len(s) + 1
  BY <1>1, <1>2, AppendFacts
<1>3. CASE j # Len(s) + 1
  <2>1. j \in 1..Len(s) /\ Append(s, x)[j] = s[j]
    BY <1>3, AppendFacts
  <2>2. QED
    BY <1>1, <2>1 DEF Increasing
<1>4. QED
  BY <1>2, <1>3

\* The rest of an increasing sequence is increasing.
LEMMA IncreasingTail ==
  ASSUME NEW s \in Seq(Nat), s # <<>>, Increasing(s)
  PROVE  Increasing(Tail(s))
<1> SUFFICES ASSUME NEW i \in 1..(Len(s) - 1), NEW j \in 1..(Len(s) - 1), i < j
             PROVE  Tail(s)[i] < Tail(s)[j]
  BY TailFacts DEF Increasing
<1>1. i + 1 \in 1..Len(s) /\ j + 1 \in 1..Len(s) /\ i + 1 < j + 1 /\ DOMAIN s = 1..Len(s)
  BY TailFacts
<1>2. QED
  BY <1>1, TailFacts DEF Increasing

-----------------------------------------------------------------------------
(* The inductive invariant.                                                *)

\* The records of the log.
Entries == [window : Nat, status : {"ok", "error"}]

\* TypeOK with the variables it does not mention; only closed windows are
\* summarized, recorded or skipped.
ShapeInv ==
  /\ TypeOK
  /\ log \in Seq(Entries)
  /\ captured \in Nat /\ sent \in Nat
  /\ skipped \subseteq 1..(window.id - 1)
  /\ \A i \in DOMAIN log : log[i].window < window.id
  /\ current = NoSummary \/ current.window \in 1..(window.id - 1)

\* Nothing has happened before the first session is connected.
BeforeInv ==
  /\ pc \in {"launch", "start"} =>
       /\ window.id = 0 /\ pending = <<>> /\ current = NoSummary /\ buffered = <<>>
       /\ session = 0 /\ ~alive /\ ~open /\ ~activity
       /\ captured = 0 /\ sent = 0
  /\ pc \notin {"launch", "start", "failed"} => window.id > 0

\* The places of a closed window, and that it is in just one of them.
Awaited(w) == current.window = w /\ ~current.accepted

\* Just one of: w waits, its summary is awaited, it is recorded, it was skipped.
InOnePlace(w) ==
  \/ Has(pending, w) /\ ~Awaited(w) /\ ~Recorded(w) /\ w \notin skipped
  \/ ~Has(pending, w) /\ Awaited(w) /\ ~Recorded(w) /\ w \notin skipped
  \/ ~Has(pending, w) /\ ~Awaited(w) /\ Recorded(w) /\ w \notin skipped
  \/ ~Has(pending, w) /\ ~Awaited(w) /\ ~Recorded(w) /\ w \in skipped

\* WindowAccounted, over InOnePlace.
AccountedInv == pc # "failed" => \A w \in 1..(window.id - 1) : InOnePlace(w)

\* While the turn of an accepted submission goes on, its window has a record, and
\* no error.
AcceptedInv ==
  pc # "failed" /\ current.accepted =>
    /\ Recorded(current.window)
    /\ \A i \in DOMAIN log : log[i].window = current.window => log[i].status = "ok"

\* Without a summary in flight, no window waits at the end of a dispatch, and
\* nothing is held back when the task selects.
BehindInv ==
  /\ pc \in {"select", "flush"} /\ Idle => pending = <<>>
  /\ pc = "select" /\ Idle => buffered = <<>>

\* A living session has an activity open exactly if the recorder thinks so.
ActivityInv == alive => open = activity

\* The inductive invariant.
RecorderInd ==
  /\ ShapeInv /\ BeforeInv /\ AccountedInv /\ RecordsOfAWindow /\ AcceptedInv
  /\ MediaInOrder /\ BehindInv /\ ActivityInv

-----------------------------------------------------------------------------
(* What the actions do to windows, summaries and records.                  *)

\* Nothing, except that a window may be seen to have media.
Keeps ==
  /\ window'.id = window.id
  /\ UNCHANGED <<pending, current, skipped, log>>
  /\ pc = "failed" => pc' = "failed"

\* Start: the first window is opened, if the session could be connected.
Begins ==
  /\ pc = "start"
  /\ window' = ActiveWindow(1) /\ UNCHANGED <<pending, current, skipped, log>>

\* Interrupt and Tick: the active window is closed, and waits, is skipped or
\* recorded, unless the program fails.
Closes ==
  /\ Selecting
  /\ window' = ActiveWindow(window.id + 1)
  /\ UNCHANGED current
  /\ \/ pending' = Append(pending, window.id) /\ UNCHANGED <<skipped, log>>
     \/ skipped' = skipped \cup {window.id} /\ UNCHANGED <<pending, log>>
     \/ log' = Append(log, Record(window.id, "error")) /\ UNCHANGED <<pending, skipped>>
     \/ pc' = "failed" /\ UNCHANGED <<pending, skipped, log>>

\* DispatchFails: the first window that waits is recorded instead.
Drops ==
  /\ Dispatching
  /\ pending' = Tail(pending)
  /\ UNCHANGED <<window, current, skipped>>
  /\ \/ log' = Append(log, Record(Head(pending), "error"))
     \/ pc' = "failed" /\ UNCHANGED log

\* SendPrompt.
Asks ==
  /\ Dispatching
  /\ pending' = Tail(pending)
  /\ current' = [window |-> Head(pending), accepted |-> FALSE, session |-> session]
  /\ UNCHANGED <<window, skipped, log>>

\* A summary turn is over, with an error recorded or because it was accepted.
Ends ==
  /\ Selecting /\ ~Idle
  /\ current' = NoSummary
  /\ UNCHANGED <<window, pending, skipped>>
  /\ \/ log' = Append(log, Record(current.window, "error"))
     \/ current.accepted /\ UNCHANGED log
     \/ pc' = "failed" /\ UNCHANGED log

\* Submit, of a window that has no record yet.
Accepts ==
  /\ Selecting /\ ~Idle /\ ~current.accepted
  /\ log' = Append(log, Record(current.window, "ok"))
  /\ current' = [current EXCEPT !.accepted = TRUE]
  /\ UNCHANGED <<window, pending, skipped>>

\* What a step does to them.
Turn == Keeps \/ Begins \/ Closes \/ Drops \/ Asks \/ Ends \/ Accepts

\* Every step is one of these.
LEMMA Turns ==
  ASSUME ShapeInv, [Next]_vars
  PROVE  Turn
<1> USE DEF Turn
<1>1. CASE Launch
  BY <1>1 DEF Launch, Keeps, windowVars, logVars
<1>2. CASE Start
  BY <1>2 DEF Start, Keeps, Begins, logVars, windowVars
<1>3. CASE Finish
  BY <1>3 DEF Finish, Keeps, windowVars, logVars
<1>4. CASE EndDispatch
  BY <1>4 DEF EndDispatch, Keeps, windowVars, logVars
<1>5. CASE DispatchFails
  BY <1>5 DEF DispatchFails, Drops, Append1
<1>6. CASE EndActivity
  BY <1>6 DEF EndActivity, Dispatching, Keeps, windowVars, logVars
<1>7. CASE SendPrompt
  BY <1>7 DEF SendPrompt, Asks, logVars
<1>8. CASE Flush
  BY <1>8 DEF Flush, Keeps, windowVars, logVars
<1>9. CASE Closed
  BY <1>9 DEF Closed, NextEvent, Selecting, TakeSummary, Append1, Ends, Keeps, logVars
<1>10. CASE TurnComplete
  BY <1>10 DEF TurnComplete, NextEvent, Selecting, TakeSummary, Append1, Ends, Keeps, logVars
<1>11. CASE Submit
  BY <1>11 DEF Submit, NextEvent, Selecting, MayAccept, Accepts, Keeps, logVars
<1>12. CASE Refuse
  BY <1>12 DEF Refuse, NextEvent, Selecting, Keeps, windowVars, logVars
<1>13. CASE RestartSucceeds
  BY <1>13 DEF RestartSucceeds, Keeps, windowVars, logVars
<1>14. CASE RestartFails
  BY <1>14 DEF RestartFails, Keeps, windowVars, logVars
<1>15. CASE Timeout
  BY <1>15 DEF Timeout, Selecting, TakeSummary, Append1, Ends, Keeps, logVars
<1>16. CASE Tick
  BY <1>16 DEF Tick, Rotate, EmptyWindow, Append1, Closes, logVars
<1>17. CASE Interrupt
  BY <1>17 DEF Interrupt, Rotate, Closes, logVars
<1>18. CASE Media
  BY <1>18 DEF Media, Selecting, Keeps, logVars, ShapeInv, TypeOK
<1>19. CASE Server
  BY <1>19 DEF Server, SessionEnds, Publish, Keeps, windowVars, logVars
<1>20. CASE UNCHANGED vars
  BY <1>20 DEF vars, Keeps, windowVars, logVars
<1>21. QED
  BY <1>1, <1>2, <1>3, <1>4, <1>5, <1>6, <1>7, <1>8, <1>9, <1>10, <1>11, <1>12, <1>13, <1>14,
     <1>15, <1>16, <1>17, <1>18, <1>19, <1>20 DEF Next, Step

-----------------------------------------------------------------------------
(* Types.                                                                  *)

\* What TypeOK and ShapeInv say of the variables that are not about windows.
OtherTypes ==
  /\ pc \in {"launch", "start", "select", "dispatch", "flush", "restart", "done", "failed"}
  /\ attempt \in 1..Attempts
  /\ window \in [id : Nat, media : BOOLEAN]
  /\ buffered \in Seq([n : 1..captured, window : 1..window.id])
  /\ session \in 0..MaxSessions
  /\ captured \in Nat /\ sent \in Nat

\* What they say of the Boolean variables.
FlagTypes ==
  /\ open \in BOOLEAN /\ activity \in BOOLEAN /\ alive \in BOOLEAN
  /\ shuttingDown \in BOOLEAN

\* What they say of windows, summaries and records.
WindowTypes ==
  /\ pending \in Seq(1..(window.id - 1)) /\ Increasing(pending)
  /\ current \in Summaries
  /\ current = NoSummary \/ current.window \in 1..(window.id - 1)
  /\ log \in Seq(Entries) /\ \A i \in DOMAIN log : log[i].window \in 1..(window.id - 1)
  /\ skipped \subseteq 1..(window.id - 1)

\* ShapeInv is these three.
LEMMA ShapeParts == ShapeInv <=> OtherTypes /\ FlagTypes /\ WindowTypes
<1>1. ASSUME ShapeInv PROVE OtherTypes /\ FlagTypes /\ WindowTypes
  <2>1. ASSUME NEW i \in DOMAIN log PROVE log[i].window \in 1..(window.id - 1)
    BY <1>1, <2>1 DEF ShapeInv, TypeOK
  <2>2. QED
    BY <1>1, <2>1 DEF ShapeInv, TypeOK, OtherTypes, FlagTypes, WindowTypes, Increasing
<1>2. ASSUME OtherTypes, FlagTypes, WindowTypes PROVE ShapeInv
  <2>1. ASSUME NEW i \in DOMAIN log
        PROVE  log[i] \in [window : 1..window.id, status : {"ok", "error"}] /\ log[i].window < window.id
    <3>1. log[i] \in Entries /\ log[i].window \in 1..(window.id - 1) /\ window.id \in Nat
      BY <1>2, <2>1, LenProperties DEF OtherTypes, WindowTypes
    <3>2. QED
      BY <3>1 DEF Entries
  <2>2. current.window < window.id + 1
    BY <1>2 DEF OtherTypes, WindowTypes, NoSummary
  <2>3. QED
    BY <1>2, <2>1, <2>2 DEF ShapeInv, TypeOK, OtherTypes, FlagTypes, WindowTypes, Increasing
<1>3. QED
  BY <1>1, <1>2

\* What was held back has been captured in a window that is still known.
LEMMA BufferedGrows ==
  ASSUME NEW c \in Nat, NEW w \in Nat, NEW d \in Nat, NEW v \in Nat, c <= d, w <= v,
         NEW s \in Seq([n : 1..c, window : 1..w])
  PROVE  s \in Seq([n : 1..d, window : 1..v])
<1>1. ASSUME NEW i \in DOMAIN s PROVE s[i] \in [n : 1..d, window : 1..v]
  <2>1. s[i] \in [n : 1..c, window : 1..w]
    BY <1>1, LenProperties
  <2>2. QED
    BY <2>1
<1>2. QED
  BY <1>1, InSeq

\* Every step keeps the types of the flags.
LEMMA FlagTypesStep ==
  ASSUME FlagTypes, [Next]_vars
  PROVE  FlagTypes'
<1> USE DEF FlagTypes
<1>1. CASE Launch
  BY <1>1, Zenon DEF Launch, windowVars, sessionVars
<1>2. CASE Start
  BY <1>2, Zenon DEF Start
<1>3. CASE Finish
  BY <1>3, Zenon DEF Finish, windowVars
<1>4. CASE EndDispatch
  BY <1>4, Zenon DEF EndDispatch, windowVars, sessionVars
<1>5. CASE DispatchFails
  BY <1>5, Zenon DEF DispatchFails, sessionVars
<1>6. CASE EndActivity
  BY <1>6, Zenon DEF EndActivity, windowVars
<1>7. CASE SendPrompt
  BY <1>7, Zenon DEF SendPrompt, sessionVars
<1>8. CASE Flush
  BY <1>8, Zenon DEF Flush, Send, windowVars
<1>9. CASE Closed
  BY <1>9, Zenon DEF Closed, sessionVars
<1>10. CASE TurnComplete
  BY <1>10, Zenon DEF TurnComplete, sessionVars
<1>11. CASE Submit
  BY <1>11, Zenon DEF Submit, sessionVars
<1>12. CASE Refuse
  BY <1>12, Zenon DEF Refuse, windowVars, sessionVars
<1>13. CASE RestartSucceeds
  BY <1>13, Zenon DEF RestartSucceeds, ActivityReset, windowVars
<1>14. CASE RestartFails
  BY <1>14, Zenon DEF RestartFails, windowVars
<1>15. CASE Timeout
  BY <1>15, Zenon DEF Timeout, sessionVars
<1>16. CASE Tick
  BY <1>16, Zenon DEF Tick, sessionVars
<1>17. CASE Interrupt
  BY <1>17, Zenon DEF Interrupt, sessionVars
<1>18. CASE Media
  BY <1>18, Zenon DEF Media, Send
<1>19. CASE Server
  BY <1>19, Zenon DEF Server, SessionEnds, Publish, windowVars, sessionVars
<1>20. CASE UNCHANGED vars
  BY <1>20, Zenon DEF vars, windowVars, sessionVars
<1>21. QED
  BY <1>1, <1>2, <1>3, <1>4, <1>5, <1>6, <1>7, <1>8, <1>9, <1>10, <1>11, <1>12, <1>13, <1>14,
     <1>15, <1>16, <1>17, <1>18, <1>19, <1>20 DEF Next, Step

\* The same without the bounds.
LEMMA BufferedAnywhere ==
  ASSUME NEW c \in Nat, NEW w \in Nat, NEW s \in Seq([n : 1..c, window : 1..w])
  PROVE  s \in Seq([n : Nat, window : Nat])
<1>1. ASSUME NEW i \in DOMAIN s PROVE s[i] \in [n : Nat, window : Nat]
  <2>1. s[i] \in [n : 1..c, window : 1..w]
    BY <1>1, LenProperties
  <2>2. QED
    BY <2>1
<1>2. \A i \in DOMAIN s : s[i] \in [n : Nat, window : Nat]
  BY <1>1
<1> DEFINE T == [n : Nat, window : Nat]
           S == [n : 1..c, window : 1..w]
<1>3. s \in Seq(S) /\ \A i \in DOMAIN s : s[i] \in T
  BY <1>2
<1> HIDE DEF S, T
<1>4. s \in Seq(T)
  BY <1>3, InSeq
<1>5. QED
  BY <1>4 DEF T

\* Every step keeps the other types, and sessions are only added.
LEMMA OtherTypesStep ==
  ASSUME RecorderInd, [Next]_vars
  PROVE  OtherTypes' /\ session' >= session
<1>0. OtherTypes /\ WindowTypes /\ BeforeInv
  BY ShapeParts DEF RecorderInd
<1>a. /\ window.id \in Nat /\ captured \in Nat /\ captured <= captured
      /\ buffered \in Seq([n : 1..captured, window : 1..window.id])
  BY <1>0 DEF OtherTypes
<1>1. CASE Launch
  BY <1>0, <1>1, RecorderAssumption DEF OtherTypes, Launch, windowVars, mediaVars, sessionVars, counterVars
<1>2. CASE Start
  <2>1. CASE window' = ActiveWindow(1) /\ session' = 1 /\ pc' = "select"
    <3>1. window' \in [id : Nat, media : BOOLEAN] /\ session = 0
      BY <1>0, <1>2, <2>1 DEF Start, ActiveWindow, BeforeInv
    <3>2. buffered' \in Seq([n : 1..captured', window : 1..window'.id])
      BY <1>0, <1>2, EmptySeq DEF Start, mediaVars, BeforeInv
    <3>3. QED
      BY <1>0, <1>2, <2>1, <3>1, <3>2, RecorderAssumption
      DEF OtherTypes, Start, mediaVars, counterVars
  <2>2. CASE UNCHANGED <<session, window>> /\ pc' = "failed"
    BY <1>0, <1>2, <2>2, RecorderAssumption DEF OtherTypes, Start, mediaVars, counterVars
  <2>3. QED
    BY <1>2, <2>1, <2>2 DEF Start
<1>3. CASE Finish
  BY <1>0, <1>3, RecorderAssumption DEF OtherTypes, Finish, windowVars, mediaVars, counterVars
<1>4. CASE EndDispatch
  BY <1>0, <1>4, RecorderAssumption DEF OtherTypes, EndDispatch, windowVars, mediaVars, sessionVars, counterVars
<1>5. CASE DispatchFails
  BY <1>0, <1>5, RecorderAssumption DEF OtherTypes, DispatchFails, Append1, mediaVars, sessionVars, counterVars
<1>6. CASE EndActivity
  BY <1>0, <1>6, RecorderAssumption DEF OtherTypes, EndActivity, windowVars, mediaVars, counterVars
<1>7. CASE SendPrompt
  BY <1>0, <1>7, RecorderAssumption DEF OtherTypes, SendPrompt, mediaVars, sessionVars, counterVars
<1>8. CASE Flush
  <2>1. CASE ~Busy /\ buffered # <<>>
    <3>1. Tail(buffered) \in Seq([n : 1..captured, window : 1..window.id])
      BY <1>a, <2>1, TailFacts
    <3>2. /\ UNCHANGED <<attempt, window, session, captured>>
          /\ \/ sent' = sent + 1 /\ buffered' = Tail(buffered) /\ pc' = "flush"
             \/ pc' = "failed" /\ UNCHANGED <<sent, buffered>>
      BY <1>8, <2>1 DEF Flush, Send, AfterFlushed, windowVars, counterVars
    <3>3. sent' \in Nat /\ pc' \in {"flush", "failed"}
      BY <1>0, <3>2 DEF OtherTypes
    <3>4. buffered' \in Seq([n : 1..captured', window : 1..window'.id])
      BY <1>a, <3>1, <3>2
    <3>5. QED
      BY <1>0, <3>2, <3>3, <3>4, RecorderAssumption DEF OtherTypes
  <2>2. CASE ~(~Busy /\ buffered # <<>>)
    BY <1>0, <1>8, <2>2, RecorderAssumption DEF OtherTypes, Flush, windowVars, counterVars
  <2>3. QED
    BY <2>1, <2>2
<1>9. CASE Closed
  BY <1>0, <1>9, RecorderAssumption DEF OtherTypes, Closed, TakeSummary, Append1, mediaVars, sessionVars, counterVars
<1>10. CASE TurnComplete
  BY <1>0, <1>10, RecorderAssumption DEF OtherTypes, TurnComplete, TakeSummary, Append1, AfterTurn, mediaVars, sessionVars, counterVars
<1>11. CASE Submit
  BY <1>0, <1>11, RecorderAssumption DEF OtherTypes, Submit, Respond, mediaVars, sessionVars, counterVars
<1>12. CASE Refuse
  BY <1>0, <1>12, RecorderAssumption DEF OtherTypes, Refuse, Respond, windowVars, mediaVars, sessionVars, counterVars
<1>13. CASE RestartSucceeds
  BY <1>0, <1>13, RecorderAssumption DEF OtherTypes, RestartSucceeds, ActivityReset, windowVars, mediaVars
<1>14. CASE RestartFails
  BY <1>0, <1>14, RecorderAssumption DEF OtherTypes, RestartFails, windowVars, mediaVars
<1>15. CASE Timeout
  BY <1>0, <1>15, RecorderAssumption DEF OtherTypes, Timeout, TakeSummary, Append1, mediaVars, sessionVars, counterVars
<1>16. CASE Tick
  <2>1. window' \in [id : Nat, media : BOOLEAN] /\ window'.id \in Nat /\ window.id <= window'.id
    BY <1>0, <1>16, RecorderAssumption DEF OtherTypes, Tick, Rotate, ActiveWindow
  <2>2. buffered \in Seq([n : 1..captured, window : 1..window'.id])
    BY <1>a, <2>1, BufferedGrows, ZenonT(40)
  <2>3. QED
    BY <1>0, <1>16, <2>1, <2>2, RecorderAssumption DEF OtherTypes, Tick, EmptyWindow, Append1, mediaVars, sessionVars, counterVars
<1>17. CASE Interrupt
  <2>1. window' \in [id : Nat, media : BOOLEAN] /\ window'.id \in Nat /\ window.id <= window'.id
    BY <1>0, <1>17, RecorderAssumption DEF OtherTypes, Interrupt, Rotate, ActiveWindow
  <2>2. buffered \in Seq([n : 1..captured, window : 1..window'.id])
    BY <1>a, <2>1, BufferedGrows, ZenonT(40)
  <2>3. QED
    BY <1>0, <1>17, <2>1, <2>2, RecorderAssumption DEF OtherTypes, Interrupt, mediaVars, sessionVars, counterVars
<1>18. CASE Media
  <2> DEFINE item == [n |-> captured + 1, window |-> window.id]
  <2>1. /\ window' \in [id : Nat, media : BOOLEAN] /\ window'.id = window.id
        /\ window.id \in Nat \ {0}
        /\ captured' = captured + 1
    <3>1. window \in [id : Nat, media : BOOLEAN] /\ window' = [window EXCEPT !.media = TRUE]
      BY <1>0, <1>18 DEF Media, OtherTypes
    <3>2. window.id > 0
      BY <1>0, <1>18 DEF Media, Selecting, BeforeInv
    <3>3. window' \in [id : Nat, media : BOOLEAN] /\ window'.id = window.id
      BY <3>1
    <3>4. QED
      BY <1>a, <1>18, <3>2, <3>3 DEF Media
  <2>2. window'.id \in Nat /\ window.id <= window'.id /\ captured' \in Nat /\ captured <= captured'
    BY <1>a, <2>1
  <2>3. buffered \in Seq([n : 1..captured', window : 1..window'.id])
    BY <1>a, <2>2, BufferedGrows, Zenon
  <2>4. item \in [n : 1..captured', window : 1..window'.id]
    BY <1>a, <2>1
  <2>5. Append(buffered, item) \in Seq([n : 1..captured', window : 1..window'.id])
    BY <2>3, <2>4, AppendProperties
  <2>6. /\ UNCHANGED <<attempt, session>>
        /\ \/ buffered' = Append(buffered, item) /\ UNCHANGED <<pc, sent>>
           \/ UNCHANGED buffered /\ pc' = "select" /\ sent' = sent + 1
           \/ UNCHANGED <<buffered, sent>> /\ pc' = "failed"
    BY <1>18 DEF Media, Send, counterVars
  <2> HIDE DEF item
  <2>7. buffered' \in Seq([n : 1..captured', window : 1..window'.id])
    BY <2>3, <2>5, <2>6
  <2>8. sent' \in Nat /\ pc' \in {"select", "failed"} \cup {pc}
    BY <1>0, <2>6 DEF OtherTypes
  <2>9. QED
    BY <1>0, <2>1, <2>2, <2>6, <2>7, <2>8, RecorderAssumption DEF OtherTypes
<1>19. CASE Server
  <2>1. UNCHANGED <<pc, attempt, window, buffered, session, captured, sent>>
    BY <1>19 DEF Server, SessionEnds, Publish, windowVars, mediaVars, sessionVars
  <2>2. QED
    BY <1>0, <2>1, RecorderAssumption DEF OtherTypes
<1>20. CASE UNCHANGED vars
  BY <1>0, <1>20, RecorderAssumption DEF OtherTypes, vars, windowVars, mediaVars, sessionVars, counterVars
<1>21. QED
  BY <1>1, <1>2, <1>3, <1>4, <1>5, <1>6, <1>7, <1>8, <1>9, <1>10, <1>11, <1>12, <1>13, <1>14,
     <1>15, <1>16, <1>17, <1>18, <1>19, <1>20 DEF Next, Step

\* A record of a closed window is well formed.
LEMMA LogAppend ==
  ASSUME log \in Seq(Entries), NEW w \in Nat, NEW status \in {"ok", "error"},
         log' = Append(log, Record(w, status))
  PROVE  /\ log' \in Seq(Entries)
         /\ DOMAIN log = 1..Len(log) /\ DOMAIN log' = 1..(Len(log) + 1) /\ Len(log) \in Nat
         /\ \A i \in 1..Len(log) : log'[i] = log[i]
         /\ log'[Len(log) + 1] = Record(w, status)
<1>1. Record(w, status) \in Entries
  BY DEF Record, Entries
<1>2. QED
  BY <1>1, AppendFacts

\* Which windows have a record then.
LEMMA RecordedThen ==
  ASSUME log \in Seq(Entries), NEW w \in Nat, NEW status \in {"ok", "error"},
         log' = Append(log, Record(w, status)), NEW v
  PROVE  Recorded(v)' <=> Recorded(v) \/ v = w
<1>1. ASSUME NEW i \in DOMAIN log, log[i].window = v PROVE \E j \in DOMAIN log' : log'[j].window = v
  <2>1. i \in DOMAIN log' /\ log'[i] = log[i]
    BY <1>1, LogAppend
  <2>2. QED
    BY <1>1, <2>1
<1>2. ASSUME NEW j \in DOMAIN log', log'[j].window = v PROVE Recorded(v) \/ v = w
  <2>1. CASE j \in 1..Len(log)
    BY <1>2, <2>1, LogAppend DEF Recorded
  <2>2. CASE j = Len(log) + 1
    BY <1>2, <2>2, LogAppend DEF Record
  <2>3. QED
    BY <1>2, <2>1, <2>2, LogAppend
<1>3. \E j \in DOMAIN log' : log'[j].window = w
  <2>1. Len(log) + 1 \in DOMAIN log' /\ log'[Len(log) + 1].window = w
    BY LogAppend DEF Record
  <2>2. QED
    BY <2>1
<1>4. QED
  BY <1>1, <1>2, <1>3 DEF Recorded

\* The windows that wait, with a closed one at the end or without the first.
LEMMA PendingAppend ==
  ASSUME WindowTypes, window.id \in Nat \ {0}
  PROVE  /\ Append(pending, window.id) \in Seq(1..window.id)
         /\ Increasing(Append(pending, window.id))
         /\ \A w : Has(Append(pending, window.id), w) <=> Has(pending, w) \/ w = window.id
<1>1. pending \in Seq(1..(window.id - 1)) /\ \A i \in DOMAIN pending : pending[i] \in 1..(window.id - 1)
  BY LenProperties DEF WindowTypes
<1>2. pending \in Seq(Nat) /\ pending \in Seq(1..window.id)
  BY <1>1, InSeq
<1>3. \A i \in DOMAIN pending : pending[i] < window.id
  BY <1>1
<1>4. Increasing(Append(pending, window.id))
  BY <1>2, <1>3, IncreasingAppend DEF WindowTypes
<1>5. window.id \in 1..window.id
  OBVIOUS
<1>6. Append(pending, window.id) \in Seq(1..window.id)
  BY <1>2, <1>5, AppendProperties
<1>7. \A w : Has(Append(pending, window.id), w) <=> Has(pending, w) \/ w = window.id
  BY <1>2, <1>5, HasAppend
<1>8. QED
  BY <1>4, <1>6, <1>7

\* The first of the windows that wait, and the rest.
LEMMA PendingTail ==
  ASSUME WindowTypes, window.id \in Nat, pending # <<>>
  PROVE  /\ Head(pending) \in 1..(window.id - 1) /\ Has(pending, Head(pending))
         /\ Tail(pending) \in Seq(1..(window.id - 1))
         /\ Increasing(Tail(pending))
         /\ \A w : Has(Tail(pending), w) <=> Has(pending, w) /\ w # Head(pending)
<1>1. pending \in Seq(1..(window.id - 1)) /\ \A i \in DOMAIN pending : pending[i] \in 1..(window.id - 1)
  BY LenProperties DEF WindowTypes
<1>2. pending \in Seq(Nat)
  BY <1>1, InSeq
<1>3. Head(pending) = pending[1] /\ 1 \in DOMAIN pending /\ Tail(pending) \in Seq(1..(window.id - 1))
  BY <1>1, TailFacts
<1>4. Increasing(Tail(pending))
  BY <1>2, IncreasingTail DEF WindowTypes
<1>5. \A w : Has(Tail(pending), w) <=> Has(pending, w) /\ w # Head(pending)
  BY <1>2, HasTail DEF WindowTypes
<1>6. QED
  BY <1>1, <1>3, <1>4, <1>5 DEF Has

\* Where the windows of a summary or a record come from.
LEMMA WindowTypesStep ==
  ASSUME OtherTypes, WindowTypes, BeforeInv, Turn, OtherTypes', session' >= session
  PROVE  WindowTypes'
<1>1. /\ window.id \in Nat /\ session \in Nat /\ session' \in Nat
      /\ session' >= session /\ MaxSessions \in Nat
  BY RecorderAssumption DEF OtherTypes
<1>2. window'.id \in Nat /\ window'.id >= window.id
  BY <1>1 DEF Turn, Keeps, Begins, Closes, Drops, Asks, Ends, Accepts, ActiveWindow, BeforeInv
<1>3. ASSUME pending' = pending PROVE pending' \in Seq(1..(window'.id - 1)) /\ Increasing(pending')
  <2>1. \A i \in DOMAIN pending : pending[i] \in 1..(window'.id - 1)
    BY <1>1, <1>2, LenProperties DEF WindowTypes
  <2>2. QED
    BY <1>3, <2>1, InSeq DEF WindowTypes
<1>4. ASSUME current' = current
      PROVE  current' \in Summaries' /\ (current' = NoSummary \/ current'.window \in 1..(window'.id - 1))
  BY <1>1, <1>2, <1>4 DEF WindowTypes, Summaries
<1>5. ASSUME log' = log
      PROVE  log' \in Seq(Entries) /\ \A i \in DOMAIN log' : log'[i].window \in 1..(window'.id - 1)
  BY <1>1, <1>2, <1>5 DEF WindowTypes
<1>6. ASSUME NEW w \in 1..(window'.id - 1), NEW status \in {"ok", "error"},
             log' = Append(log, Record(w, status))
      PROVE  log' \in Seq(Entries) /\ \A i \in DOMAIN log' : log'[i].window \in 1..(window'.id - 1)
  <2>1. /\ log' \in Seq(Entries) /\ DOMAIN log = 1..Len(log) /\ Len(log) \in Nat
        /\ DOMAIN log' = 1..(Len(log) + 1)
        /\ \A i \in 1..Len(log) : log'[i] = log[i]
        /\ log'[Len(log) + 1] = Record(w, status)
    BY <1>6, LogAppend DEF WindowTypes
  <2>2. ASSUME NEW i \in 1..Len(log) PROVE log'[i].window \in 1..(window'.id - 1)
    <3>1. log[i].window \in 1..(window.id - 1)
      BY <2>1, <2>2 DEF WindowTypes
    <3>2. QED
      BY <1>1, <1>2, <2>1, <2>2, <3>1
  <2>3. log'[Len(log) + 1].window = w
    BY <2>1 DEF Record
  <2>4. QED
    BY <1>6, <2>1, <2>2, <2>3
<1>7. ASSUME skipped' = skipped PROVE skipped' \subseteq 1..(window'.id - 1)
  <2>1. \A w \in skipped : w \in 1..(window'.id - 1)
    BY <1>1, <1>2 DEF WindowTypes
  <2>2. QED
    BY <1>7, <2>1
<1>8. CASE Keeps
  BY <1>3, <1>4, <1>5, <1>7, <1>8 DEF Keeps, WindowTypes
<1>9. CASE Begins
  BY <1>3, <1>4, <1>5, <1>7, <1>9 DEF Begins, WindowTypes
<1>10. CASE Closes
  <2>1. window.id \in Nat \ {0} /\ window'.id - 1 = window.id /\ window.id \in 1..(window'.id - 1)
    BY <1>1, <1>10 DEF Closes, ActiveWindow, Selecting, BeforeInv
  <2>2. CASE pending' = Append(pending, window.id) /\ UNCHANGED <<skipped, log>>
    <3>1. pending' \in Seq(1..(window'.id - 1)) /\ Increasing(pending')
      BY <2>1, <2>2, PendingAppend
    <3>2. QED
      BY <1>4, <1>5, <1>7, <1>10, <2>2, <3>1 DEF Closes, WindowTypes
  <2>3. CASE skipped' = skipped \cup {window.id} /\ UNCHANGED <<pending, log>>
    <3>1. \A w \in skipped' : w \in 1..(window'.id - 1)
      BY <1>1, <1>2, <2>1, <2>3 DEF WindowTypes
    <3>2. QED
      BY <1>3, <1>4, <1>5, <1>10, <2>3, <3>1 DEF Closes, WindowTypes
  <2>4. CASE log' = Append(log, Record(window.id, "error")) /\ UNCHANGED <<pending, skipped>>
    BY <1>3, <1>4, <1>6, <1>7, <1>10, <2>1, <2>4 DEF Closes, WindowTypes
  <2>5. CASE pc' = "failed" /\ UNCHANGED <<pending, skipped, log>>
    BY <1>3, <1>4, <1>5, <1>7, <1>10, <2>5 DEF Closes, WindowTypes
  <2>6. QED
    BY <1>10, <2>2, <2>3, <2>4, <2>5 DEF Closes
<1>11. ASSUME Dispatching, pending' = Tail(pending), window' = window
       PROVE  /\ pending' \in Seq(1..(window'.id - 1)) /\ Increasing(pending')
              /\ Head(pending) \in 1..(window'.id - 1)
  BY <1>1, <1>11, PendingTail DEF Dispatching
<1>12. CASE Drops
  BY <1>4, <1>5, <1>6, <1>7, <1>11, <1>12 DEF Drops, WindowTypes
<1>13. CASE Asks
  <2>1. Head(pending) \in Nat /\ session \in 0..session'
    BY <1>1, <1>2, <1>11, <1>13 DEF Asks
  <2>2. current' \in Summaries' /\ current'.window = Head(pending)
    BY <1>13, <2>1 DEF Asks, Summaries
  <2>3. QED
    BY <1>5, <1>7, <1>11, <1>13, <2>2 DEF Asks, WindowTypes
<1>14. CASE Ends
  <2>1. current.window \in 1..(window'.id - 1)
    BY <1>2, <1>14 DEF Ends, Idle, WindowTypes
  <2>2. NoSummary \in Summaries'
    BY <1>1 DEF NoSummary, Summaries
  <2>3. QED
    BY <1>3, <1>5, <1>6, <1>7, <1>14, <2>1, <2>2 DEF Ends, WindowTypes
<1>15. CASE Accepts
  <2>1. current.window \in 1..(window'.id - 1)
    BY <1>2, <1>15 DEF Accepts, Idle, WindowTypes
  <2>2. current' \in Summaries' /\ current'.window = current.window
    <3>1. current \in Summaries /\ current' = [current EXCEPT !.accepted = TRUE]
      BY <1>15 DEF Accepts, WindowTypes
    <3>2. current' \in Summaries /\ current'.window = current.window
      BY <3>1 DEF Summaries
    <3>3. QED
      BY <1>1, <3>2 DEF Summaries
  <2>3. QED
    BY <1>3, <1>6, <1>7, <1>15, <2>1, <2>2 DEF Accepts, WindowTypes
<1>16. QED
  BY <1>8, <1>9, <1>10, <1>12, <1>13, <1>14, <1>15 DEF Turn

-----------------------------------------------------------------------------
(* Windows and their records.                                              *)

\* A window that was just closed is nowhere yet.
LEMMA ClosedIsNew ==
  ASSUME OtherTypes, WindowTypes, window.id > 0
  PROVE  ~Has(pending, window.id) /\ ~Awaited(window.id) /\ ~Recorded(window.id) /\ window.id \notin skipped
<1>1. window.id \in Nat /\ window.id \notin 1..(window.id - 1)
  BY DEF OtherTypes
<1>2. \A i \in DOMAIN pending : pending[i] \in 1..(window.id - 1)
  BY LenProperties DEF WindowTypes
<1>3. ~Awaited(window.id)
  BY <1>1 DEF Awaited, WindowTypes, NoSummary
<1>4. QED
  BY <1>1, <1>2, <1>3 DEF Has, Recorded, WindowTypes

\* Every step moves a window from place to place, or leaves it.
LEMMA AccountedStep ==
  ASSUME OtherTypes, WindowTypes, BeforeInv, AccountedInv, AcceptedInv, Turn
  PROVE  AccountedInv'
<1> SUFFICES ASSUME pc' # "failed", NEW w \in 1..(window'.id - 1)
             PROVE  InOnePlace(w)'
  BY DEF AccountedInv
<1>0. window.id \in Nat
  BY DEF OtherTypes
<1>1. ASSUME pc # "failed", w \in 1..(window.id - 1) PROVE InOnePlace(w)
  BY <1>1 DEF AccountedInv
<1>2. CASE Keeps
  <2>1. pc # "failed" /\ w \in 1..(window.id - 1)
    BY <1>2 DEF Keeps
  <2>2. QED
    BY <1>1, <1>2, <2>1 DEF Keeps, InOnePlace, Awaited, Recorded
<1>3. CASE Begins
  BY <1>3 DEF Begins, ActiveWindow
<1>4. CASE Closes
  <2>1. window.id > 0 /\ pc # "failed" /\ window.id \in Nat \ {0}
    BY <1>0, <1>4 DEF Closes, Selecting, BeforeInv
  <2>2. w \in 1..(window.id - 1) \/ w = window.id
    BY <1>4, <2>1 DEF Closes, ActiveWindow
  <2>3. \/ w # window.id /\ InOnePlace(w)
        \/ w = window.id /\ ~Has(pending, w) /\ ~Awaited(w) /\ ~Recorded(w) /\ w \notin skipped
    BY <1>0, <1>1, <2>1, <2>2, ClosedIsNew
  <2>4. Awaited(w)' <=> Awaited(w)
    BY <1>4 DEF Closes, Awaited
  <2>5. CASE pending' = Append(pending, window.id) /\ UNCHANGED <<skipped, log>>
    <3>1. Has(pending', w) <=> Has(pending, w) \/ w = window.id
      BY <2>1, <2>5, PendingAppend
    <3>2. (Recorded(w)' <=> Recorded(w)) /\ skipped' = skipped
      BY <2>5 DEF Recorded
    <3>3. QED
      BY <2>3, <2>4, <3>1, <3>2, Zenon DEF InOnePlace
  <2>6. CASE skipped' = skipped \cup {window.id} /\ UNCHANGED <<pending, log>>
    <3>1. (Recorded(w)' <=> Recorded(w)) /\ pending' = pending
      BY <2>6 DEF Recorded
    <3>2. w \in skipped' <=> w \in skipped \/ w = window.id
      BY <2>6
    <3>3. QED
      BY <2>3, <2>4, <3>1, <3>2, Zenon DEF InOnePlace
  <2>7. CASE log' = Append(log, Record(window.id, "error")) /\ UNCHANGED <<pending, skipped>>
    <3>1. Recorded(w)' <=> Recorded(w) \/ w = window.id
      BY <2>1, <2>7, RecordedThen DEF WindowTypes
    <3>2. QED
      BY <2>3, <2>4, <2>7, <3>1, Zenon DEF InOnePlace
  <2>8. QED
    BY <1>4, <2>5, <2>6, <2>7 DEF Closes
<1>5. ASSUME Dispatching, pending' = Tail(pending), window' = window
      PROVE  /\ InOnePlace(w) /\ Has(pending, Head(pending)) /\ Head(pending) \in Nat
             /\ Has(pending', w) <=> Has(pending, w) /\ w # Head(pending)
             /\ ~Awaited(w) /\ w # 0
  <2>1. InOnePlace(w)
    BY <1>1, <1>5 DEF Dispatching
  <2>2. w # 0 /\ ~Awaited(w)
    BY <1>0, <1>5 DEF Dispatching, Idle, NoSummary, Awaited
  <2>3. QED
    BY <1>0, <1>5, <2>1, <2>2, PendingTail DEF Dispatching
<1>6. CASE Drops
  <2>1. log' = Append(log, Record(Head(pending), "error")) /\ UNCHANGED <<current, skipped>>
    BY <1>6 DEF Drops
  <2>2. Recorded(w)' <=> Recorded(w) \/ w = Head(pending)
    BY <1>5, <1>6, <2>1, RecordedThen DEF Drops, WindowTypes
  <2>3. Awaited(w)' <=> Awaited(w)
    BY <2>1 DEF Awaited
  <2>4. /\ InOnePlace(w) /\ Has(pending, Head(pending)) /\ ~Awaited(w)
        /\ Has(pending', w) <=> Has(pending, w) /\ w # Head(pending)
    BY <1>5, <1>6 DEF Drops
  <2>5. QED
    BY <2>1, <2>2, <2>3, <2>4, Zenon DEF InOnePlace
<1>7. CASE Asks
  <2>1. /\ InOnePlace(w) /\ Has(pending, Head(pending)) /\ ~Awaited(w)
        /\ Has(pending', w) <=> Has(pending, w) /\ w # Head(pending)
    BY <1>5, <1>7 DEF Asks
  <2>2. Awaited(w)' <=> w = Head(pending)
    BY <1>7 DEF Asks, Awaited
  <2>3. (Recorded(w)' <=> Recorded(w)) /\ skipped' = skipped
    BY <1>7 DEF Asks, Recorded
  <2>4. QED
    BY <2>1, <2>2, <2>3, Zenon DEF InOnePlace
<1>8. CASE Ends
  <2>1. InOnePlace(w) /\ pc # "failed" /\ w # 0 /\ current.window \in Nat
    BY <1>0, <1>1, <1>8 DEF Ends, Selecting, Idle, WindowTypes
  <2>2. ~Awaited(w)' /\ pending' = pending /\ skipped' = skipped
    BY <1>8, <2>1 DEF Ends, Awaited, NoSummary
  <2>3. Recorded(w)' <=> Recorded(w) \/ (log' # log /\ w = current.window)
    BY <1>8, <2>1, RecordedThen DEF Ends, Recorded, WindowTypes
  <2>4. CASE Awaited(w)
    <3>1. log' = Append(log, Record(w, "error"))
      BY <1>8, <2>4 DEF Ends, Awaited
    <3>2. Recorded(w)'
      BY <1>0, <3>1, RecordedThen DEF WindowTypes
    <3>3. QED
      BY <2>1, <2>2, <2>4, <3>2, Zenon DEF InOnePlace
  <2>5. CASE ~Awaited(w)
    <3>1. w = current.window => Recorded(w)
      BY <2>1, <2>5 DEF Awaited, AcceptedInv
    <3>2. QED
      BY <2>1, <2>2, <2>3, <2>5, <3>1, Zenon DEF InOnePlace
  <2>6. QED
    BY <2>4, <2>5
<1>9. CASE Accepts
  <2>1. InOnePlace(w) /\ current.window \in Nat
    BY <1>1, <1>9 DEF Accepts, Selecting, Idle, WindowTypes
  <2>2. Recorded(w)' <=> Recorded(w) \/ w = current.window
    BY <1>9, <2>1, RecordedThen DEF Accepts, WindowTypes
  <2>3. ~Awaited(w)' /\ (Awaited(w) <=> w = current.window)
    BY <1>9 DEF Accepts, Awaited, WindowTypes, Summaries
  <2>4. pending' = pending /\ skipped' = skipped
    BY <1>9 DEF Accepts
  <2>5. QED
    BY <2>1, <2>2, <2>3, <2>4, Zenon DEF InOnePlace
<1>10. QED
  BY <1>2, <1>3, <1>4, <1>6, <1>7, <1>8, <1>9 DEF Turn

\* A record may be added for a window that has none, or an error for one that
\* was accepted.
LEMMA RecordAdded ==
  ASSUME log \in Seq(Entries), RecordsOfAWindow, NEW w \in Nat, NEW status \in {"ok", "error"},
         \A i \in DOMAIN log : log[i].window = w => log[i].status = "ok" /\ status = "error",
         log' = Append(log, Record(w, status))
  PROVE  RecordsOfAWindow'
<1> SUFFICES ASSUME NEW i \in DOMAIN log', NEW j \in DOMAIN log', i < j,
                    log'[i].window = log'[j].window
             PROVE  log'[i].status = "ok" /\ log'[j].status = "error"
  BY DEF RecordsOfAWindow
<1>1. /\ DOMAIN log = 1..Len(log) /\ DOMAIN log' = 1..(Len(log) + 1) /\ Len(log) \in Nat
      /\ \A k \in 1..Len(log) : log'[k] = log[k]
      /\ log'[Len(log) + 1] = Record(w, status)
  BY LogAppend
<1>2. i \in 1..Len(log) /\ log'[i] = log[i]
  BY <1>1
<1>3. CASE j = Len(log) + 1
  BY <1>1, <1>2, <1>3 DEF Record
<1>4. CASE j # Len(log) + 1
  <2>1. j \in 1..Len(log) /\ log'[j] = log[j]
    BY <1>1, <1>4
  <2>2. QED
    BY <1>1, <1>2, <2>1 DEF RecordsOfAWindow
<1>5. QED
  BY <1>3, <1>4

\* A window that gets a record has none, or only an accepted one.
LEMMA RecordsStep ==
  ASSUME OtherTypes, WindowTypes, BeforeInv, AccountedInv, AcceptedInv, RecordsOfAWindow, Turn
  PROVE  RecordsOfAWindow'
<1>0. window.id \in Nat /\ log \in Seq(Entries)
  BY DEF OtherTypes, WindowTypes
<1>1. CASE log' = log
  BY <1>1 DEF RecordsOfAWindow
<1>2. CASE Closes /\ log' = Append(log, Record(window.id, "error"))
  <2>1. window.id > 0
    BY <1>2 DEF Closes, Selecting, BeforeInv
  <2>2. QED
    BY <1>0, <1>2, <2>1, ClosedIsNew, RecordAdded DEF Recorded
<1>3. CASE Drops /\ log' = Append(log, Record(Head(pending), "error"))
  <2>1. Head(pending) \in 1..(window.id - 1) /\ Has(pending, Head(pending))
    BY <1>0, <1>3, PendingTail DEF Drops, Dispatching
  <2>2. ~Recorded(Head(pending)) /\ Head(pending) \in Nat
    BY <1>3, <2>1 DEF Drops, Dispatching, AccountedInv, InOnePlace
  <2>3. QED
    BY <1>0, <1>3, <2>2, RecordAdded DEF Recorded
<1>4. ASSUME Selecting, ~Idle
      PROVE  /\ current.window \in Nat
             /\ ~current.accepted => ~Recorded(current.window)
             /\ current.accepted =>
                  \A i \in DOMAIN log : log[i].window = current.window => log[i].status = "ok"
  <2>1. current.window \in 1..(window.id - 1) /\ pc # "failed"
    BY <1>4 DEF Selecting, Idle, WindowTypes
  <2>2. InOnePlace(current.window) /\ current.window \in Nat
    BY <2>1 DEF AccountedInv
  <2>3. QED
    BY <2>1, <2>2 DEF InOnePlace, Awaited, AcceptedInv
<1>5. CASE Ends /\ log' = Append(log, Record(current.window, "error"))
  BY <1>0, <1>4, <1>5, RecordAdded DEF Ends, Recorded
<1>6. CASE Accepts
  BY <1>0, <1>4, <1>6, RecordAdded DEF Accepts, Recorded
<1>7. QED
  BY <1>1, <1>2, <1>3, <1>5, <1>6 DEF Turn, Keeps, Begins, Closes, Drops, Asks, Ends

\* No error is recorded for an accepted window while its turn goes on.
LEMMA AcceptedStep ==
  ASSUME OtherTypes, WindowTypes, BeforeInv, AccountedInv, AcceptedInv, Turn
  PROVE  AcceptedInv'
<1> SUFFICES ASSUME pc' # "failed", current'.accepted
             PROVE  /\ \E i \in DOMAIN log' : log'[i].window = current'.window
                    /\ \A i \in DOMAIN log' :
                         log'[i].window = current'.window => log'[i].status = "ok"
  BY DEF AcceptedInv, Recorded
<1>1. CASE Keeps
  BY <1>1 DEF Keeps, AcceptedInv, Recorded
<1>2. CASE Begins
  BY <1>2 DEF Begins, BeforeInv, NoSummary
<1>3. CASE Closes
  <2>1. pc # "failed" /\ current' = current /\ window.id \in Nat \ {0}
    BY <1>3 DEF Closes, Selecting, BeforeInv, OtherTypes
  <2>2. /\ Recorded(current.window)
        /\ \A i \in DOMAIN log : log[i].window = current.window => log[i].status = "ok"
    BY <2>1 DEF AcceptedInv
  <2>3. CASE log' = log
    BY <2>1, <2>2, <2>3 DEF Recorded
  <2>4. CASE log' = Append(log, Record(window.id, "error"))
    <3>1. current.window # window.id
      BY <2>1, <2>2, ClosedIsNew
    <3>2. \E i \in DOMAIN log' : log'[i].window = current.window
      <4>1. \A v : Recorded(v)' <=> Recorded(v) \/ v = window.id
        BY <2>1, <2>4, RecordedThen DEF WindowTypes
      <4>2. QED
        BY <2>2, <4>1 DEF Recorded
    <3>3. /\ DOMAIN log = 1..Len(log) /\ DOMAIN log' = 1..(Len(log) + 1)
          /\ \A i \in 1..Len(log) : log'[i] = log[i]
          /\ log'[Len(log) + 1] = Record(window.id, "error") /\ Len(log) \in Nat
      BY <2>1, <2>4, LogAppend DEF WindowTypes
    <3>4. ASSUME NEW i \in DOMAIN log', log'[i].window = current.window PROVE log'[i].status = "ok"
      <4>1. i # Len(log) + 1
        BY <3>1, <3>3, <3>4 DEF Record
      <4>2. i \in 1..Len(log)
        BY <3>3, <3>4, <4>1
      <4>3. QED
        BY <2>2, <3>3, <3>4, <4>2
    <3>5. QED
      BY <2>1, <3>2, <3>4
  <2>5. QED
    BY <1>3, <2>3, <2>4 DEF Closes
<1>4. CASE Drops
  BY <1>4 DEF Drops, Dispatching, Idle, NoSummary
<1>5. CASE Asks
  BY <1>5 DEF Asks
<1>6. CASE Ends
  BY <1>6 DEF Ends, NoSummary
<1>7. CASE Accepts
  <2>1. current'.window = current.window /\ current.window \in 1..(window.id - 1) /\ pc # "failed"
    BY <1>7 DEF Accepts, Selecting, Idle, WindowTypes, Summaries
  <2>2. InOnePlace(current.window) /\ Awaited(current.window) /\ current.window \in Nat
    BY <1>7, <2>1 DEF AccountedInv, Accepts, Awaited
  <2>3. ~Recorded(current.window)
    BY <2>2 DEF InOnePlace
  <2>4. log' = Append(log, Record(current.window, "ok")) /\ log \in Seq(Entries)
    BY <1>7 DEF Accepts, WindowTypes
  <2>5. \E i \in DOMAIN log' : log'[i].window = current.window
    <3>1. \A v : Recorded(v)' <=> Recorded(v) \/ v = current.window
      BY <2>2, <2>4, RecordedThen
    <3>2. QED
      BY <3>1 DEF Recorded
  <2>6. /\ DOMAIN log = 1..Len(log) /\ DOMAIN log' = 1..(Len(log) + 1)
        /\ \A i \in 1..Len(log) : log'[i] = log[i]
        /\ log'[Len(log) + 1] = Record(current.window, "ok") /\ Len(log) \in Nat
    BY <2>2, <2>4, LogAppend
  <2>7. ASSUME NEW i \in DOMAIN log', log'[i].window = current.window PROVE log'[i].status = "ok"
    <3>1. CASE i = Len(log) + 1
      BY <2>6, <3>1 DEF Record
    <3>2. CASE i # Len(log) + 1
      <4>1. i \in 1..Len(log)
        BY <2>6, <2>7, <3>2
      <4>2. QED
        BY <2>3, <2>6, <2>7, <4>1 DEF Recorded
    <3>3. QED
      BY <3>1, <3>2
  <2>8. QED
    BY <2>1, <2>5, <2>7
<1>8. QED
  BY <1>1, <1>2, <1>3, <1>4, <1>5, <1>6, <1>7 DEF Turn

-----------------------------------------------------------------------------
(* The start, the media held back, and the activity.                       *)

\* Before the first session nothing changes but pc; after it there is a window.
LEMMA BeforeStep ==
  ASSUME OtherTypes, BeforeInv, Turn, [Next]_vars
  PROVE  BeforeInv'
<1>0. OtherTypes /\ BeforeInv /\ window.id \in Nat
  BY DEF OtherTypes
<1>1. CASE Launch
  BY <1>0, <1>1 DEF Launch, BeforeInv, windowVars, mediaVars, sessionVars
<1>2. CASE Start
  BY <1>0, <1>2 DEF Start, BeforeInv, ActiveWindow
<1>3. CASE Server
  <2>1. pc' = pc /\ window' = window /\ alive
    BY <1>3 DEF Server, Publish, SessionEnds, windowVars
  <2>2. QED
    BY <1>0, <2>1 DEF BeforeInv
<1>4. CASE UNCHANGED vars
  BY <1>0, <1>4 DEF BeforeInv, vars, windowVars, mediaVars, sessionVars
<1>5. ASSUME pc \notin {"launch", "start", "failed"}, pc' \notin {"launch", "start"}
      PROVE  BeforeInv'
  <2>1. window.id > 0
    BY <1>0, <1>5 DEF BeforeInv
  <2>2. window'.id > 0
    BY <1>0, <1>5, <2>1 DEF Turn, Keeps, Begins, Closes, Drops, Asks, Ends, Accepts, ActiveWindow
  <2>3. QED
    BY <1>5, <2>2 DEF BeforeInv
<1>6. CASE Next /\ ~Launch /\ ~Start /\ ~Server
  <2>1. pc \notin {"launch", "start", "failed"} /\ pc' \notin {"launch", "start"}
    BY <1>6 DEF Next, Step, Finish, EndDispatch, DispatchFails, EndActivity, SendPrompt, Dispatching,
         Flush, Send, AfterFlushed, Closed, TurnComplete, AfterTurn, Submit, Refuse, NextEvent,
         Selecting, Respond, RestartSucceeds, RestartFails, Timeout, TakeSummary, Tick, EmptyWindow,
         Interrupt, Media, Append1
  <2>2. QED
    BY <1>5, <2>1
<1>7. QED
  BY <1>1, <1>2, <1>3, <1>4, <1>6

\* What is held back is sent from the front, and only appended to.
LEMMA MediaStep ==
  ASSUME OtherTypes, BeforeInv, BehindInv, MediaInOrder, [Next]_vars
  PROVE  MediaInOrder'
<1>0. /\ captured \in Nat /\ sent \in Nat /\ window.id \in Nat
      /\ buffered \in Seq([n : 1..captured, window : 1..window.id])
  BY DEF OtherTypes
<1>1. CASE UNCHANGED <<captured, sent, buffered>> /\ (pc = "failed" => pc' = "failed")
  BY <1>1 DEF MediaInOrder
<1>2. CASE Flush
  <2>1. CASE ~Busy /\ buffered # <<>> /\ Sends
    <3>1. /\ Len(buffered) = captured - sent
          /\ \A i \in DOMAIN buffered : buffered[i].n = sent + i
      BY <1>2 DEF Flush, MediaInOrder
    <3>2. /\ buffered' = Tail(buffered) /\ sent' = sent + 1 /\ captured' = captured
      BY <1>2, <2>1 DEF Flush, Send
    <3>3. /\ Len(buffered') = Len(buffered) - 1 /\ Len(buffered) \in Nat \ {0}
          /\ DOMAIN buffered = 1..Len(buffered) /\ DOMAIN buffered' = 1..(Len(buffered) - 1)
          /\ \A i \in 1..(Len(buffered) - 1) : buffered'[i] = buffered[i + 1]
      BY <1>0, <2>1, <3>2, TailFacts
    <3>4. ASSUME NEW i \in DOMAIN buffered' PROVE buffered'[i].n = sent' + i
      <4>1. i \in Nat /\ i + 1 \in 1..Len(buffered) /\ buffered'[i] = buffered[i + 1]
        BY <3>3, <3>4
      <4>2. buffered[i + 1].n = sent + (i + 1)
        BY <3>1, <3>3, <4>1
      <4>3. QED
        BY <1>0, <3>2, <4>1, <4>2
    <3>5. Len(buffered') = captured' - sent'
      BY <1>0, <3>1, <3>2, <3>3
    <3>6. QED
      BY <3>4, <3>5 DEF MediaInOrder
  <2>2. CASE ~(~Busy /\ buffered # <<>> /\ Sends)
    BY <1>1, <1>2, <2>2 DEF Flush, Send
  <2>3. QED
    BY <2>1, <2>2
<1>3. CASE Media
  <2> DEFINE item == [n |-> captured + 1, window |-> window.id]
  <2>1. /\ Len(buffered) = captured - sent
        /\ \A i \in DOMAIN buffered : buffered[i].n = sent + i
        /\ captured' = captured + 1
    BY <1>3 DEF Media, Selecting, MediaInOrder
  <2>2. CASE HoldBack
    <3>1. buffered' = Append(buffered, item) /\ sent' = sent
      BY <1>3, <2>2 DEF Media
    <3>2. buffered \in Seq([n : Nat, window : Nat])
      BY <1>0, BufferedAnywhere, Zenon
    <3>3. item \in [n : Nat, window : Nat] /\ item.n = captured + 1
      BY <1>0
    <3> HIDE DEF item
    <3>4. /\ DOMAIN buffered = 1..Len(buffered) /\ DOMAIN buffered' = 1..(Len(buffered) + 1)
          /\ Len(buffered) \in Nat /\ Len(buffered') = Len(buffered) + 1
          /\ \A i \in 1..Len(buffered) : buffered'[i] = buffered[i]
          /\ buffered'[Len(buffered) + 1] = item
      BY <3>1, <3>2, <3>3, AppendFacts
    <3>5. ASSUME NEW i \in DOMAIN buffered' PROVE buffered'[i].n = sent' + i
      <4>1. CASE i = Len(buffered) + 1
        BY <1>0, <2>1, <3>1, <3>3, <3>4, <4>1
      <4>2. CASE i # Len(buffered) + 1
        <5>1. i \in 1..Len(buffered)
          BY <3>4, <3>5, <4>2
        <5>2. QED
          BY <2>1, <3>1, <3>4, <5>1
      <4>3. QED
        BY <4>1, <4>2
    <3>6. Len(buffered') = captured' - sent'
      BY <1>0, <2>1, <3>1, <3>4
    <3>7. QED
      BY <3>5, <3>6 DEF MediaInOrder
  <2>3. CASE ~HoldBack
    <3>1. buffered = <<>> /\ sent = captured
      <4>1. buffered = <<>>
        BY <1>3, <2>3 DEF Media, Selecting, HoldBack, Busy, BehindInv
      <4>2. QED
        BY <1>0, <2>1, <4>1, EmptySeq
    <3>2. buffered' = buffered /\ (pc' = "failed" \/ sent' = sent + 1)
      BY <1>3, <2>3 DEF Media, Send
    <3>3. pc' = "failed" \/ Len(buffered') = captured' - sent'
      BY <1>0, <2>1, <3>1, <3>2
    <3>4. DOMAIN buffered' = {}
      BY <3>1, <3>2
    <3>5. QED
      BY <3>3, <3>4 DEF MediaInOrder
  <2>4. QED
    BY <2>2, <2>3
<1>4. CASE Next /\ ~Flush /\ ~Media
  <2>1. UNCHANGED <<captured, sent, buffered>>
    BY <1>4 DEF Next, Step, Server, Launch, Start, Finish, EndDispatch, DispatchFails, EndActivity,
         SendPrompt, Closed, TurnComplete, Submit, Refuse, RestartSucceeds, RestartFails, Timeout,
         Tick, Interrupt, SessionEnds, Publish, mediaVars
  <2>2. pc = "failed" => pc' = "failed"
    BY <1>4 DEF Next, Step, Server, Launch, Start, Finish, EndDispatch, DispatchFails, EndActivity,
         SendPrompt, Dispatching, Closed, TurnComplete, Submit, Refuse, NextEvent, Selecting,
         RestartSucceeds, RestartFails, Timeout, Tick, Interrupt, SessionEnds, Publish
  <2>3. QED
    BY <1>1, <2>1, <2>2
<1>5. CASE UNCHANGED vars
  BY <1>1, <1>5 DEF vars, mediaVars
<1>6. QED
  BY <1>2, <1>3, <1>4, <1>5

\* Every way into select or flush leaves nothing behind.
LEMMA BehindStep ==
  ASSUME OtherTypes, BeforeInv, BehindInv, [Next]_vars
  PROVE  BehindInv'
<1> USE DEF BehindInv, Idle
<1>1. CASE Launch
  BY <1>1 DEF Launch
<1>2. CASE Start
  BY <1>2 DEF Start, BeforeInv, mediaVars
<1>3. CASE Finish
  BY <1>3 DEF Finish
<1>4. CASE EndDispatch
  BY <1>4 DEF EndDispatch, windowVars
<1>5. CASE DispatchFails
  BY <1>5 DEF DispatchFails, Append1
<1>6. CASE EndActivity
  BY <1>6 DEF EndActivity, Dispatching
<1>7. CASE SendPrompt
  BY <1>7 DEF SendPrompt, Dispatching
<1>8. CASE Flush
  BY <1>8 DEF Flush, Send, AfterFlushed, Busy, windowVars
<1>9. CASE Closed
  BY <1>9 DEF Closed, TakeSummary, Append1
<1>10. CASE TurnComplete
  BY <1>10 DEF TurnComplete, NextEvent, Selecting, TakeSummary, Append1, AfterTurn, mediaVars
<1>11. CASE Submit
  <2>1. pc = "select" /\ UNCHANGED <<pending, buffered>>
    BY <1>11 DEF Submit, NextEvent, Selecting, mediaVars
  <2>2. Idle' => Idle
    BY <1>11 DEF Submit, NoSummary
  <2>3. QED
    BY <2>1, <2>2
<1>12. CASE Refuse
  BY <1>12 DEF Refuse, NextEvent, Selecting, windowVars, mediaVars
<1>13. CASE RestartSucceeds
  BY <1>13 DEF RestartSucceeds
<1>14. CASE RestartFails
  BY <1>14 DEF RestartFails
<1>15. CASE Timeout
  BY <1>15 DEF Timeout, TakeSummary, Append1
<1>16. CASE Tick
  BY <1>16 DEF Tick, EmptyWindow, Append1
<1>17. CASE Interrupt
  BY <1>17 DEF Interrupt
<1>18. CASE Media
  BY <1>18 DEF Media, Selecting, Send, HoldBack, Busy
<1>19. CASE Server
  BY <1>19 DEF Server, SessionEnds, Publish, windowVars, mediaVars
<1>20. CASE UNCHANGED vars
  BY <1>20 DEF vars, windowVars, mediaVars
<1>21. QED
  BY <1>1, <1>2, <1>3, <1>4, <1>5, <1>6, <1>7, <1>8, <1>9, <1>10, <1>11, <1>12, <1>13, <1>14,
     <1>15, <1>16, <1>17, <1>18, <1>19, <1>20 DEF Next, Step

\* The flag and the activity change together, or the session is gone.
LEMMA ActivityStep ==
  ASSUME FlagTypes, BeforeInv, ActivityInv, [Next]_vars
  PROVE  ActivityInv'
<1> USE DEF ActivityInv
<1>1. CASE UNCHANGED <<alive, open, activity>>
  BY <1>1
<1>2. CASE alive' = FALSE
  BY <1>2
<1>3. CASE Start
  <2>1. open = FALSE /\ activity = FALSE
    BY <1>3, Zenon DEF Start, BeforeInv, FlagTypes
  <2>2. open' = open /\ activity' = activity
    BY <1>3 DEF Start
  <2>3. QED
    BY <2>1, <2>2
<1>4. CASE EndActivity
  BY <1>4 DEF EndActivity
<1>5. CASE RestartSucceeds
  BY <1>5 DEF RestartSucceeds, ActivityReset
<1>6. ASSUME Sends, open' = TRUE, activity' = (activity \/ ~open)
      PROVE  ActivityInv'
  <2>1. open = activity
    BY <1>6 DEF Sends
  <2>2. activity' = TRUE
    BY <1>6, <2>1, Zenon DEF FlagTypes
  <2>3. QED
    BY <1>6, <2>2
<1>7. CASE Flush \/ Media
  BY <1>1, <1>6, <1>7 DEF Flush, Media, Send
<1>8. CASE Next /\ ~Start /\ ~EndActivity /\ ~RestartSucceeds /\ ~Flush /\ ~Media
  BY <1>1, <1>2, <1>8 DEF Next, Step, Server, Launch, Finish, EndDispatch, DispatchFails, SendPrompt,
       Closed, TurnComplete, Submit, Refuse, RestartFails, Timeout, Tick, Interrupt, SessionEnds,
       Publish, sessionVars
<1>9. CASE UNCHANGED vars
  BY <1>1, <1>9 DEF vars, sessionVars
<1>10. QED
  BY <1>3, <1>4, <1>5, <1>7, <1>8, <1>9

-----------------------------------------------------------------------------
(* The theorems.                                                           *)

\* The invariant holds initially.
LEMMA RecorderInit == Init => RecorderInd
<1> SUFFICES ASSUME Init PROVE RecorderInd
  OBVIOUS
<1> USE DEF Init, ActiveWindow, NoSummary
<1>1. OtherTypes
  BY RecorderAssumption, EmptySeq DEF OtherTypes
<1>2. FlagTypes
  BY DEF FlagTypes
<1>3. WindowTypes
  BY EmptySeq DEF WindowTypes, Increasing, Summaries
<1>4. BeforeInv /\ AccountedInv /\ RecordsOfAWindow /\ AcceptedInv
  BY DEF BeforeInv, AccountedInv, RecordsOfAWindow, AcceptedInv
<1>5. MediaInOrder /\ BehindInv /\ ActivityInv
  BY DEF MediaInOrder, BehindInv, ActivityInv
<1>6. QED
  BY <1>1, <1>2, <1>3, <1>4, <1>5, ShapeParts DEF RecorderInd

\* Every step keeps the invariant.
LEMMA RecorderStep == RecorderInd /\ [Next]_vars => RecorderInd'
<1> SUFFICES ASSUME RecorderInd, [Next]_vars PROVE RecorderInd'
  OBVIOUS
<1>1. /\ OtherTypes /\ FlagTypes /\ WindowTypes /\ BeforeInv /\ AccountedInv /\ RecordsOfAWindow
      /\ AcceptedInv /\ MediaInOrder /\ BehindInv /\ ActivityInv
  BY ShapeParts DEF RecorderInd
<1>2. Turn
  BY Turns DEF RecorderInd
<1>3. OtherTypes' /\ session' >= session
  BY OtherTypesStep
<1>4. FlagTypes'
  BY <1>1, FlagTypesStep
<1>5. WindowTypes'
  BY <1>1, <1>2, <1>3, WindowTypesStep
<1>6. ShapeInv'
  BY <1>3, <1>4, <1>5, ShapeParts, PTL
<1>7. BeforeInv'
  BY <1>1, <1>2, BeforeStep
<1>8. AccountedInv' /\ RecordsOfAWindow' /\ AcceptedInv'
  BY <1>1, <1>2, AccountedStep, RecordsStep, AcceptedStep
<1>9. MediaInOrder' /\ BehindInv' /\ ActivityInv'
  BY <1>1, MediaStep, BehindStep, ActivityStep
<1>10. QED
  BY <1>6, <1>7, <1>8, <1>9 DEF RecorderInd

\* The places of WindowAccounted are those of InOnePlace.
LEMMA AccountedPlaces ==
  ASSUME ShapeInv, AccountedInv
  PROVE  WindowAccounted
<1> SUFFICES ASSUME pc # "failed", NEW w \in 1..(window.id - 1)
             PROVE  \E place \in {"pending", "current", "log", "skipped"} : Places(w) = {place}
  BY DEF WindowAccounted
<1>1. InOnePlace(w)
  BY DEF AccountedInv
<1>2. Contains(pending, w) <=> Has(pending, w)
  BY LenProperties DEF Contains, Has, ShapeInv, TypeOK
<1>3. /\ "pending" \in Places(w) <=> Has(pending, w)
      /\ "current" \in Places(w) <=> Awaited(w)
      /\ "log" \in Places(w) <=> Recorded(w)
      /\ "skipped" \in Places(w) <=> w \in skipped
      /\ Places(w) \subseteq {"pending", "current", "log", "skipped"}
  BY <1>2 DEF Places, Awaited
<1>4. CASE Has(pending, w)
  <2>1. Places(w) = {"pending"}
    BY <1>1, <1>3, <1>4 DEF InOnePlace
  <2>2. QED
    BY <2>1
<1>5. CASE Awaited(w)
  <2>1. Places(w) = {"current"}
    BY <1>1, <1>3, <1>5 DEF InOnePlace
  <2>2. QED
    BY <2>1
<1>6. CASE Recorded(w)
  <2>1. Places(w) = {"log"}
    BY <1>1, <1>3, <1>6 DEF InOnePlace
  <2>2. QED
    BY <2>1
<1>7. CASE w \in skipped
  <2>1. Places(w) = {"skipped"}
    BY <1>1, <1>3, <1>7 DEF InOnePlace
  <2>2. QED
    BY <2>1
<1>8. QED
  BY <1>1, <1>4, <1>5, <1>6, <1>7 DEF InOnePlace

\* The invariant holds in every state.
LEMMA RecorderIndHolds == Spec => []RecorderInd
  BY RecorderInit, RecorderStep, PTL DEF Spec

\* Through failed sends, timeouts, restarts and Ctrl-C: every closed window waits,
\* is being summarized, has its record or was skipped at the interrupt; a second
\* record is an error after an acceptance; and the media held back is whole, in order
\* and flushed before the task waits for events without a summary in flight.
THEOREM RecordingIsSound == Spec => []RecorderInv
<1>1. RecorderInd => RecorderInv
  <2> SUFFICES ASSUME RecorderInd PROVE RecorderInv
    OBVIOUS
  <2>1. TypeOK /\ WindowAccounted
    BY AccountedPlaces DEF RecorderInd, ShapeInv
  <2>2. NothingLeftBehind
    BY DEF NothingLeftBehind, RecorderInd, BehindInv, Selecting
  <2>3. QED
    BY <2>1, <2>2 DEF RecorderInv, RecorderInd
<1>2. QED
  BY RecorderIndHolds, <1>1, PTL

\* Media is sent inside an activity of the living session and never while a summary
\* is awaited; a prompt is sent only outside of one.
THEOREM TurnsAreSeparate == Spec => TurnsDoNotOverlap
<1>1. RecorderInd /\ [Next]_vars =>
        [/\ sent' # sent => Idle /\ activity'
         /\ current' # NoSummary /\ current'.window # current.window => ~activity]_vars
  <2> SUFFICES ASSUME RecorderInd, Next
               PROVE  /\ sent' # sent => Idle /\ activity'
                      /\ current' # NoSummary /\ current'.window # current.window => ~activity
    OBVIOUS
  <2>1. FlagTypes /\ BehindInv /\ ActivityInv /\ Turn
    BY ShapeParts, Turns DEF RecorderInd
  <2>2. ASSUME sent' # sent PROVE Idle /\ activity'
    <3>1. /\ Flush \/ Media
          /\ Idle
          /\ alive /\ activity' = (activity \/ ~open)
      BY <2>1, <2>2 DEF Next, Step, Server, Launch, Start, Finish, EndDispatch, DispatchFails, EndActivity,
           SendPrompt, Closed, TurnComplete, Submit, Refuse, RestartSucceeds, RestartFails, Timeout,
           Tick, Interrupt, SessionEnds, Publish, mediaVars, Flush, Media, Send, Sends, Busy, HoldBack
    <3>2. open = activity
      BY <2>1, <3>1 DEF ActivityInv
    <3>3. QED
      BY <2>1, <3>1, <3>2, Zenon DEF FlagTypes
  <2>3. ASSUME current' # NoSummary, current'.window # current.window PROVE ~activity
    <3>0. ~Submit
      <4>1. current.window = [current EXCEPT !.accepted = TRUE].window
        BY <2>1, ShapeParts DEF RecorderInd, WindowTypes, Summaries
      <4>2. QED
        BY <2>3, <4>1 DEF Submit
    <3>1. SendPrompt
      BY <2>3, <3>0 DEF Next, Step, Server, Launch, Start, Finish, EndDispatch, DispatchFails, EndActivity,
           Closed, TurnComplete, TakeSummary, Refuse, RestartSucceeds, RestartFails, Timeout,
           Tick, Interrupt, Flush, Media, SessionEnds, Publish, windowVars
    <3>2. alive /\ ~open
      BY <3>1 DEF SendPrompt, Sends, MayPrompt
    <3>3. QED
      BY <2>1, <3>2, Zenon DEF ActivityInv, FlagTypes
  <2>4. QED
    BY <2>2, <2>3
<1>2. QED
  BY RecorderIndHolds, <1>1, PTL DEF Spec, TurnsDoNotOverlap

=============================================================================
