------------------------------ MODULE ToolCalls ------------------------------
(***************************************************************************)
(* What the background tool manager promises the conversation: a tool call *)
(* runs in the background; when it ends, its result is delivered, with the *)
(* outcome it ended with, in the order in which calls ended, one at a time *)
(* and never twice.  Nothing here says how: no registry, no tasks, no      *)
(* cancellation, no sessions.  BackgroundTools implements it.              *)
(***************************************************************************)
EXTENDS Sequences

CONSTANTS
  Calls,     \* tool calls
  Endings,   \* how a call can end
  Nothing    \* no result

VARIABLES
  stage,      \* how far each call is
  waiting,    \* results not yet delivered, oldest first
  delivering  \* the result being delivered

Stages == {"new", "open", "ended", "delivered"}
Result == [tool : Calls, status : Endings]

promised == <<stage, waiting, delivering>>

Init ==
  /\ stage = [c \in Calls |-> "new"]
  /\ waiting = <<>>
  /\ delivering = Nothing

Start(c) ==
  /\ stage[c] = "new"
  /\ stage' = [stage EXCEPT ![c] = "open"]
  /\ UNCHANGED <<waiting, delivering>>

End(c) ==
  /\ stage[c] = "open"
  /\ stage' = [stage EXCEPT ![c] = "ended"]
  /\ \E o \in Endings : waiting' = Append(waiting, [tool |-> c, status |-> o])
  /\ UNCHANGED delivering

Deliver ==
  /\ waiting # <<>> /\ delivering = Nothing
  /\ delivering' = Head(waiting)
  /\ waiting' = Tail(waiting)
  /\ stage[Head(waiting).tool] = "ended"
  /\ stage' = [stage EXCEPT ![Head(waiting).tool] = "delivered"]

\* The delivery is over, or cut off.
Delivered ==
  /\ delivering # Nothing
  /\ delivering' = Nothing
  /\ UNCHANGED <<stage, waiting>>

Next == (\E c \in Calls : Start(c) \/ End(c)) \/ Deliver \/ Delivered

Spec == Init /\ [][Next]_promised
==============================================================================
