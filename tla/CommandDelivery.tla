-------------------------- MODULE CommandDelivery --------------------------
(***************************************************************************)
(* What a caller of gemini_live::Session may rely on for the commands the  *)
(* channel accepted, whatever happens to the connections underneath: each  *)
(* one is written at most once, inputs in the order they were accepted,    *)
(* and tool responses and the close request in the order they were         *)
(* accepted.  The two lanes may overtake one another.  A command may be    *)
(* lost alone, and all that are waiting are lost when the session ends.    *)
(***************************************************************************)
EXTENDS Naturals, Sequences

CONSTANT MaxCommands  \* bound of the model: commands the callers issue

VARIABLES
  waiting,    \* accepted commands that are not resolved, oldest first
  delivered,  \* written commands, in order
  accepted,   \* number of commands accepted
  open        \* whether commands can still be written

deliveryVars == <<waiting, delivered, accepted, open>>

Lane(kind) == IF kind = "input" THEN "input" ELSE "control"

FirstOfLane(i) ==
  \A j \in 1..(i - 1) : Lane(waiting[j].kind) # Lane(waiting[i].kind)

Without(s, i) == SubSeq(s, 1, i - 1) \o SubSeq(s, i + 1, Len(s))

Init == waiting = <<>> /\ delivered = <<>> /\ accepted = 0 /\ open = TRUE

Accept(kind) ==
  /\ accepted < MaxCommands
  /\ accepted' = accepted + 1
  /\ waiting' = Append(waiting, [id |-> accepted + 1, kind |-> kind])
  /\ UNCHANGED <<delivered, open>>

Deliver(i) ==
  /\ open
  /\ FirstOfLane(i)
  /\ delivered' = Append(delivered, waiting[i])
  /\ waiting' = Without(waiting, i)
  /\ UNCHANGED <<accepted, open>>

Lose(i) ==
  /\ open
  /\ FirstOfLane(i)
  /\ waiting' = Without(waiting, i)
  /\ UNCHANGED <<delivered, accepted, open>>

Shut == open /\ open' = FALSE /\ UNCHANGED <<waiting, delivered, accepted>>

Abandon == ~open /\ waiting' = <<>> /\ UNCHANGED <<delivered, accepted, open>>

Next ==
  \/ \E kind \in {"input", "tool", "close"} : Accept(kind)
  \/ \E i \in DOMAIN waiting : Deliver(i) \/ Lose(i)
  \/ Shut
  \/ Abandon

Spec == Init /\ [][Next]_deliveryVars
=============================================================================
