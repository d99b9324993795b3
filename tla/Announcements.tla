---------------------------- MODULE Announcements ----------------------------
(***************************************************************************)
(* What the timer manager promises whoever sets a timer: it expires unless *)
(* it is cancelled first; an expired timer is announced once, and no other *)
(* is; when shutdown has returned nothing happens any more.  Nothing here  *)
(* says how: no tasks, no connection, no list of those that could not be   *)
(* announced, no user turns.  Timers implements it.                        *)
(***************************************************************************)
EXTENDS Naturals

CONSTANT Alarms  \* the timers

VARIABLES
  stage,  \* what became of each timer
  told,   \* how often each was announced
  over    \* the manager was shut down

promised == <<stage, told, over>>

Init ==
  /\ stage = [a \in Alarms |-> "absent"]
  /\ told = [a \in Alarms |-> 0]
  /\ over = FALSE

\* A timer goes from one stage to another.
Turns(a, from, to) ==
  /\ ~over /\ stage[a] = from
  /\ stage' = [stage EXCEPT ![a] = to]
  /\ UNCHANGED <<told, over>>

Set(a) == Turns(a, "absent", "active")
Cancel(a) == Turns(a, "active", "cancelled")
Expire(a) == Turns(a, "active", "expired")

Announce(a) ==
  /\ ~over /\ stage[a] = "expired" /\ told[a] = 0
  /\ told' = [told EXCEPT ![a] = 1]
  /\ UNCHANGED <<stage, over>>

\* What was not announced by then never will be.
Close ==
  /\ ~over /\ over' = TRUE
  /\ UNCHANGED <<stage, told>>

Next == (\E a \in Alarms : Set(a) \/ Cancel(a) \/ Expire(a) \/ Announce(a)) \/ Close

Spec == Init /\ [][Next]_promised
==============================================================================
