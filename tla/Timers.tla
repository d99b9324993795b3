------------------------------- MODULE Timers -------------------------------
(***************************************************************************)
(* TimerManager (timers.py): the expiry task of each timer, the list of    *)
(* expired timers nobody could announce yet, which a user turn tries       *)
(* again, and shutdown at the end of the process (LocalStream.launch).     *)
(* The announcer is the realtime handler's say: it fails at once without a *)
(* connection, and at its await when the connection goes while it sends.   *)
(*                                                                         *)
(* Durations and labels are left out, and of the list its order: pending   *)
(* counts the entries of each timer.                                       *)
(***************************************************************************)
EXTENDS Naturals

CONSTANTS
  AllTimers,  \* the timers set during the run
  NoTimer,    \* not one of them
  MaxLosses   \* bound: connections lost

ASSUME NoTimerAssumption == NoTimer \notin AllTimers
ASSUME MaxLossesAssumption == MaxLosses \in Nat

VARIABLES
  status,     \* Timer.status ("absent" before set_timer)
  task,       \* the expiry task
  cancelReq,  \* a CancelledError is due at the task's next step
  tasks,      \* _tasks: the timers whose task the manager knows
  pending,    \* _pending_expired_timers
  todo,       \* entries announce_pending has still to try
  turn,       \* where announce_pending is
  current,    \* the timer it is trying
  connected,  \* the handler behind the announcer has a connection
  losses,     \* connections lost so far
  stop,       \* where the end of the process is
  announced   \* history: announcements of each timer that were sent

expiryVars == <<status, task, cancelReq, tasks>>
turnVars == <<todo, turn, current>>
appVars == <<connected, losses, stop>>
vars == <<expiryVars, pending, turnVars, appVars, announced>>

TypeOK ==
  /\ status \in [AllTimers -> {"absent", "active", "cancelled", "expired"}]
  /\ task \in [AllTimers -> {"none", "sleeping", "due", "announcing", "failing", "done"}]
  /\ cancelReq \in [AllTimers -> BOOLEAN]
  /\ tasks \in SUBSET AllTimers
  /\ pending \in [AllTimers -> Nat]
  /\ todo \in [AllTimers -> Nat]
  /\ turn \in {"none", "next", "announcing", "failing"}
  /\ current \in AllTimers \cup {NoTimer}
  /\ turn \in {"announcing", "failing"} => current \in AllTimers
  /\ connected \in BOOLEAN
  /\ losses \in Nat
  /\ stop \in {"no", "closing", "gathering", "done"}
  /\ announced \in [AllTimers -> Nat]

Init ==
  /\ status = [t \in AllTimers |-> "absent"]
  /\ task = [t \in AllTimers |-> "none"]
  /\ cancelReq = [t \in AllTimers |-> FALSE]
  /\ tasks = {}
  /\ pending = [t \in AllTimers |-> 0]
  /\ todo = [t \in AllTimers |-> 0]
  /\ turn = "none" /\ current = NoTimer
  /\ connected = FALSE /\ losses = 0 /\ stop = "no"
  /\ announced = [t \in AllTimers |-> 0]

-----------------------------------------------------------------------------
(* The tools, called while a session runs *)

SetTimer(t) ==
  /\ stop = "no"
  /\ status[t] = "absent"
  /\ status' = [status EXCEPT ![t] = "active"]
  /\ task' = [task EXCEPT ![t] = "sleeping"]
  /\ tasks' = tasks \cup {t}
  /\ UNCHANGED <<cancelReq, pending, turnVars, appVars, announced>>

\* Mutant: expired timers can be cancelled too.
CancelAnyTimer(t) ==
  /\ stop = "no"
  /\ status[t] \in {"active", "expired"}
  /\ status' = [status EXCEPT ![t] = "cancelled"]
  /\ tasks' = tasks \ {t}
  /\ cancelReq' = [cancelReq EXCEPT ![t] = (t \in tasks)]
  /\ UNCHANGED <<task, pending, turnVars, appVars, announced>>

\* Other timers than active ones are refused.
CancelTimer(t) ==
  /\ stop = "no"
  /\ status[t] = "active"
  /\ status' = [status EXCEPT ![t] = "cancelled"]
  /\ tasks' = tasks \ {t}
  /\ cancelReq' = [cancelReq EXCEPT ![t] = (t \in tasks)]
  /\ UNCHANGED <<task, pending, turnVars, appVars, announced>>

-----------------------------------------------------------------------------
(* The expiry task: _expire_after_delay *)

\* The task ends: its finally clause takes it out of _tasks.
TaskEnds(t) ==
  /\ task' = [task EXCEPT ![t] = "done"]
  /\ tasks' = tasks \ {t}

\* The sleep is over; the task runs again at a later turn of the event loop.
Elapse(t) ==
  /\ task[t] = "sleeping"
  /\ task' = [task EXCEPT ![t] = "due"]
  /\ UNCHANGED <<status, cancelReq, tasks, pending, turnVars, appVars, announced>>

\* Mutant: the timer enters the list before it is announced.
WakeListsFirst(t) ==
  /\ task[t] = "due" /\ ~cancelReq[t]
  /\ status[t] = "active"
  /\ status' = [status EXCEPT ![t] = "expired"]
  /\ pending' = [pending EXCEPT ![t] = @ + 1]
  /\ IF connected
     THEN task' = [task EXCEPT ![t] = "announcing"] /\ UNCHANGED tasks
     ELSE TaskEnds(t)
  /\ UNCHANGED <<cancelReq, turnVars, appVars, announced>>

\* The task goes on after its sleep.  Without a connection the announcer fails
\* before its first await.
Wake(t) ==
  /\ task[t] = "due" /\ ~cancelReq[t]
  /\ \/ /\ status[t] # "active"
        /\ TaskEnds(t)
        /\ UNCHANGED <<status, pending>>
     \/ /\ status[t] = "active"
        /\ status' = [status EXCEPT ![t] = "expired"]
        /\ IF connected
           THEN task' = [task EXCEPT ![t] = "announcing"] /\ UNCHANGED <<tasks, pending>>
           ELSE TaskEnds(t) /\ pending' = [pending EXCEPT ![t] = @ + 1]
  /\ UNCHANGED <<cancelReq, turnVars, appVars, announced>>

\* Mutant: a failed announcement is not kept.
AnnounceExpiryOnce(t) ==
  /\ ~cancelReq[t]
  /\ \/ /\ task[t] = "announcing"
        /\ announced' = [announced EXCEPT ![t] = @ + 1]
     \/ /\ task[t] = "failing"
        /\ UNCHANGED announced
  /\ TaskEnds(t)
  /\ UNCHANGED <<status, cancelReq, pending, turnVars, appVars>>

\* The announcement is sent, or its connection is gone.
AnnounceExpiry(t) ==
  /\ ~cancelReq[t]
  /\ \/ /\ task[t] = "announcing"
        /\ announced' = [announced EXCEPT ![t] = @ + 1]
        /\ UNCHANGED pending
     \/ /\ task[t] = "failing"
        /\ pending' = [pending EXCEPT ![t] = @ + 1]
        /\ UNCHANGED announced
  /\ TaskEnds(t)
  /\ UNCHANGED <<status, cancelReq, turnVars, appVars>>

\* A cancelled task ends at its await; an announcement may be out already.
CancelledStep(t) ==
  /\ cancelReq[t]
  /\ task[t] \in {"sleeping", "due", "announcing", "failing"}
  /\ \/ UNCHANGED announced
     \/ task[t] = "announcing" /\ announced' = [announced EXCEPT ![t] = @ + 1]
  /\ TaskEnds(t)
  /\ UNCHANGED <<status, cancelReq, pending, turnVars, appVars>>

-----------------------------------------------------------------------------
(* A user turn: announce_pending, from the receive loop *)

\* The loop goes over a copy of the list.
UserTurn ==
  /\ connected /\ stop = "no"
  /\ turn = "none"
  /\ turn' = "next"
  /\ todo' = pending
  /\ UNCHANGED <<expiryVars, pending, current, appVars, announced>>

\* Mutant: the loop goes over the list itself.
TryPendingAgain(t) ==
  /\ turn = "next"
  /\ todo[t] > 0
  /\ IF connected
     THEN turn' = "announcing" /\ current' = t
     ELSE UNCHANGED <<turn, current>>
  /\ UNCHANGED <<expiryVars, pending, todo, appVars, announced>>

TryPending(t) ==
  /\ turn = "next"
  /\ todo[t] > 0
  /\ todo' = [todo EXCEPT ![t] = @ - 1]
  /\ IF connected
     THEN turn' = "announcing" /\ current' = t
     ELSE UNCHANGED <<turn, current>>
  /\ UNCHANGED <<expiryVars, pending, appVars, announced>>

\* Mutant: an entry is removed whether it could be announced or not.
AnnouncePendingAndForget ==
  /\ turn \in {"announcing", "failing"}
  /\ pending' = [pending EXCEPT ![current] = @ - 1]
  /\ announced' = IF turn = "announcing" THEN [announced EXCEPT ![current] = @ + 1] ELSE announced
  /\ turn' = "next"
  /\ current' = NoTimer
  /\ UNCHANGED <<expiryVars, todo, appVars>>

AnnouncePending ==
  /\ \/ /\ turn = "announcing"
        /\ announced' = [announced EXCEPT ![current] = @ + 1]
        /\ pending' = [pending EXCEPT ![current] = @ - 1]
     \/ /\ turn = "failing"
        /\ UNCHANGED <<announced, pending>>
  /\ turn' = "next"
  /\ current' = NoTimer
  /\ UNCHANGED <<expiryVars, todo, appVars>>

TurnEnds ==
  /\ turn = "next"
  /\ \A t \in AllTimers : todo[t] = 0
  /\ turn' = "none"
  /\ UNCHANGED <<expiryVars, pending, todo, current, appVars, announced>>

-----------------------------------------------------------------------------
(* The connection and the end of the process *)

\* A session opens when the receive loop of the one before has ended.
Connect ==
  /\ ~connected /\ stop = "no"
  /\ turn = "none"
  /\ connected' = TRUE
  /\ UNCHANGED <<expiryVars, pending, turnVars, losses, stop, announced>>

\* What is being sent fails with its connection.
Disconnect ==
  /\ connected
  /\ stop # "no" \/ losses < MaxLosses
  /\ connected' = FALSE
  /\ losses' = losses + 1
  /\ task' = [t \in AllTimers |-> IF task[t] = "announcing" THEN "failing" ELSE task[t]]
  /\ turn' = IF turn = "announcing" THEN "failing" ELSE turn
  /\ UNCHANGED <<status, cancelReq, tasks, pending, todo, current, stop, announced>>

\* close() cancels the receive loop, in the middle of announce_pending perhaps;
\* then launch shuts the handler down, which closes the connection unless it raises.
BeginStop ==
  /\ stop = "no"
  /\ stop' = "closing"
  /\ turn' = "none" /\ current' = NoTimer
  /\ todo' = [t \in AllTimers |-> 0]
  /\ announced' \in {announced} \cup
       (IF turn = "announcing" THEN {[announced EXCEPT ![current] = @ + 1]} ELSE {})
  /\ UNCHANGED <<expiryVars, pending, connected, losses>>

\* shutdown, which launch calls whether the handler's shutdown returned or raised, over
\* an open connection perhaps: cancel the tasks the manager knows, then wait for them.
Shutdown ==
  /\ stop = "closing"
  /\ stop' = "gathering"
  /\ tasks' = {}
  /\ cancelReq' = [t \in AllTimers |-> cancelReq[t] \/ t \in tasks]
  /\ UNCHANGED <<status, task, pending, turnVars, connected, losses, announced>>

\* Mutant: shutdown does not wait for the tasks it cancelled.
ShutdownEndsAtOnce ==
  /\ stop = "gathering"
  /\ stop' = "done"
  /\ UNCHANGED <<expiryVars, pending, turnVars, connected, losses, announced>>

ShutdownEnds ==
  /\ stop = "gathering"
  /\ \A t \in AllTimers : status[t] # "cancelled" => task[t] \in {"none", "done"}
  /\ stop' = "done"
  /\ UNCHANGED <<expiryVars, pending, turnVars, connected, losses, announced>>

-----------------------------------------------------------------------------
TimerStep(t) ==
  \/ SetTimer(t) \/ CancelTimer(t)
  \/ Elapse(t) \/ Wake(t) \/ AnnounceExpiry(t) \/ CancelledStep(t)
  \/ TryPending(t)

Next ==
  \/ \E t \in AllTimers : TimerStep(t)
  \/ UserTurn \/ AnnouncePending \/ TurnEnds
  \/ Connect \/ Disconnect
  \/ BeginStop \/ Shutdown \/ ShutdownEnds

Spec == Init /\ [][Next]_vars

\* Clocks advance, the event loop runs its ready tasks, a lost session is opened
\* again, and the user speaks again.
Fairness ==
  /\ \A t \in AllTimers : /\ WF_vars(Elapse(t)) /\ WF_vars(Wake(t))
                          /\ WF_vars(AnnounceExpiry(t)) /\ WF_vars(CancelledStep(t))
                          /\ WF_vars(TryPending(t))
  /\ WF_vars(UserTurn) /\ WF_vars(AnnouncePending) /\ WF_vars(TurnEnds)
  /\ WF_vars(Connect)
  /\ WF_vars(Shutdown) /\ WF_vars(ShutdownEnds)

FairSpec == Spec /\ Fairness

-----------------------------------------------------------------------------
(* Properties *)

\* "announce them once": however expiry, user turns, lost connections and the end
\* of the process interleave, a timer is announced at most once, and one that is
\* in the list was not announced unless the process is ending.
AnnouncedAtMostOnce ==
  \A t \in AllTimers : /\ announced[t] <= 1
                       /\ stop = "no" => announced[t] + pending[t] <= 1

\* An expired timer is not forgotten: it was announced, is being announced, or is in
\* the list for the next user turn, until the process shuts down.
ExpiredIsAccountedFor ==
  \A t \in AllTimers :
    status[t] = "expired" /\ stop \in {"no", "closing"} =>
      announced[t] = 1 \/ pending[t] = 1 \/ task[t] \in {"announcing", "failing"}

\* shutdown() returns when no expiry task is left, apart from tasks of cancelled
\* timers, which only have to take their cancellation.
ShutdownLeavesNoTask ==
  stop = "done" =>
    \A t \in AllTimers :
      task[t] \in {"none", "done"} \/ (status[t] = "cancelled" /\ cancelReq[t])

\* A timer that expires is announced while the process goes on: at once, or when the
\* user speaks after the connection is back.
ExpiredIsAnnounced ==
  \A t \in AllTimers : status[t] = "expired" ~> (announced[t] = 1 \/ stop # "no")

\* The manager implements Announcements: over expired sleeps, cancellations, lost
\* connections, user turns and shutdown, each timer has one of the lives promised
\* there, and nothing is announced after shutdown() returned.
Promise == INSTANCE Announcements WITH
  Alarms <- AllTimers, stage <- status, told <- announced, over <- (stop = "done")
ImplementsAnnouncements == Promise!Spec
==============================================================================
