---------------------------- MODULE TimersProofs ----------------------------
(***************************************************************************)
(* Theorems about Timers, for any set of timers.  The inductive invariant  *)
(* relates the status of a timer to its task, and counts the announcements *)
(* made and owed: a timer whose task is not over has neither, and what     *)
(* announce_pending copied is still in the list.                           *)
(***************************************************************************)
EXTENDS Timers, TLAPS

Running == {"sleeping", "due", "announcing", "failing"}
Open == stop \in {"no", "closing"}

\* What the status of a timer says of its task.
TaskFollowsStatus ==
  \A t \in AllTimers :
    /\ status[t] = "absent" => task[t] = "none"
    /\ status[t] \in {"active", "cancelled"} => task[t] \in {"sleeping", "due", "done"}
    /\ status[t] = "expired" => task[t] \in {"announcing", "failing", "done"}

\* Which running tasks the manager can reach, and which were cancelled.
TasksAreKnown ==
  \A t \in AllTimers :
    /\ Open /\ task[t] \in Running /\ status[t] # "cancelled" => t \in tasks
    /\ Open /\ cancelReq[t] => status[t] = "cancelled"
    /\ task[t] \in Running /\ status[t] = "cancelled" => cancelReq[t]

\* Announcements made and owed.
CountsAgree ==
  \A t \in AllTimers :
    /\ announced[t] <= 1 /\ pending[t] <= 1
    /\ stop = "no" => announced[t] + pending[t] <= 1
    /\ task[t] # "done" \/ status[t] # "expired" => announced[t] = 0 /\ pending[t] = 0
    /\ Open /\ task[t] = "done" /\ status[t] = "expired" => announced[t] + pending[t] >= 1

\* What announce_pending has still to try is in the list.
TurnAgrees ==
  /\ \A t \in AllTimers : todo[t] <= pending[t]
  /\ stop # "no" => turn = "none"
  /\ turn \in {"announcing", "failing"} => todo[current] = 0 /\ pending[current] = 1

DoneHasNoTask ==
  stop = "done" =>
    \A t \in AllTimers : status[t] # "cancelled" => task[t] \in {"none", "done"}

IInv ==
  /\ TypeOK
  /\ TaskFollowsStatus
  /\ TasksAreKnown
  /\ CountsAgree
  /\ TurnAgrees
  /\ DoneHasNoTask

-----------------------------------------------------------------------------
(* Type correctness *)

LEMMA InitTypeOK == Init => TypeOK
<1> SUFFICES ASSUME Init PROVE TypeOK
  OBVIOUS
<1>1. /\ status \in [AllTimers -> {"absent", "active", "cancelled", "expired"}]
      /\ task \in [AllTimers -> {"none", "sleeping", "due", "announcing", "failing", "done"}]
      /\ cancelReq \in [AllTimers -> BOOLEAN]
  BY DEF Init
<1>2. pending \in [AllTimers -> Nat] /\ todo \in [AllTimers -> Nat] /\ announced \in [AllTimers -> Nat]
  BY DEF Init
<1> QED
  BY <1>1, <1>2 DEF Init, TypeOK

\* Every step keeps the variables in their types.  A count never goes below zero:
\* announce_pending takes from the list only what TurnAgrees finds in it.
LEMMA NextTypeOK == TypeOK /\ TurnAgrees /\ [Next]_vars => TypeOK'
<1> SUFFICES ASSUME TypeOK, TurnAgrees, [Next]_vars PROVE TypeOK'
  OBVIOUS
<1> USE DEF TypeOK, expiryVars, turnVars, appVars
<1>1. ASSUME NEW t \in AllTimers, SetTimer(t) PROVE TypeOK'
  BY <1>1 DEF SetTimer
<1>2. ASSUME NEW t \in AllTimers, CancelTimer(t) PROVE TypeOK'
  BY <1>2 DEF CancelTimer
<1>3. ASSUME NEW t \in AllTimers, Elapse(t) PROVE TypeOK'
  BY <1>3 DEF Elapse
<1>4. ASSUME NEW t \in AllTimers, Wake(t) PROVE TypeOK'
  BY <1>4 DEF Wake, TaskEnds
<1>5. ASSUME NEW t \in AllTimers, AnnounceExpiry(t) PROVE TypeOK'
  BY <1>5 DEF AnnounceExpiry, TaskEnds
<1>6. ASSUME NEW t \in AllTimers, CancelledStep(t) PROVE TypeOK'
  BY <1>6 DEF CancelledStep, TaskEnds
<1>7. ASSUME NEW t \in AllTimers, TryPending(t) PROVE TypeOK'
  BY <1>7 DEF TryPending
<1>8. CASE UserTurn
  BY <1>8 DEF UserTurn
<1>9. CASE AnnouncePending
  BY <1>9 DEF AnnouncePending, TurnAgrees
<1>10. CASE TurnEnds
  BY <1>10 DEF TurnEnds
<1>11. CASE Connect
  BY <1>11 DEF Connect
<1>12. CASE Disconnect
  <2>1. task' \in [AllTimers -> {"none", "sleeping", "due", "announcing", "failing", "done"}]
    BY <1>12 DEF Disconnect
  <2>2. turn' \in {"none", "next", "announcing", "failing"} /\ losses' \in Nat
    BY <1>12 DEF Disconnect
  <2> QED
    BY <1>12, <2>1, <2>2 DEF Disconnect
<1>13. CASE BeginStop
  BY <1>13 DEF BeginStop
<1>14. CASE Shutdown
  BY <1>14 DEF Shutdown
<1>15. CASE ShutdownEnds
  BY <1>15 DEF ShutdownEnds
<1>16. CASE UNCHANGED vars
  BY <1>16 DEF vars
<1> QED
  BY <1>1, <1>2, <1>3, <1>4, <1>5, <1>6, <1>7, <1>8, <1>9,
     <1>10, <1>11, <1>12, <1>13, <1>14, <1>15, <1>16 DEF Next, TimerStep

-----------------------------------------------------------------------------
(* The invariant *)

LEMMA InitIInv == Init => IInv
  BY InitTypeOK
  DEF Init, IInv, TaskFollowsStatus, TasksAreKnown, CountsAgree, TurnAgrees, DoneHasNoTask, Running, Open

\* Every step keeps the invariant.
LEMMA NextIInv == IInv /\ [Next]_vars => IInv'
<1> SUFFICES ASSUME IInv, [Next]_vars PROVE IInv'
  OBVIOUS
<1>0. TypeOK /\ TypeOK'
  BY NextTypeOK DEF IInv
<1> USE <1>0
<1> USE DEF IInv, TypeOK, expiryVars, turnVars, appVars, Running, Open
<1>1. ASSUME NEW t \in AllTimers, SetTimer(t) PROVE IInv'
  <2> USE <1>1 DEF SetTimer
  <2>1. TaskFollowsStatus'
    BY DEF TaskFollowsStatus
  <2>2. TasksAreKnown'
    BY DEF TasksAreKnown, TaskFollowsStatus
  <2>3. CountsAgree'
    BY DEF CountsAgree, TaskFollowsStatus, TasksAreKnown, TurnAgrees
  <2>4. TurnAgrees'
    BY DEF TurnAgrees, CountsAgree, TaskFollowsStatus
  <2>5. DoneHasNoTask'
    BY DEF DoneHasNoTask, TaskFollowsStatus, TasksAreKnown
  <2> QED
    BY <2>1, <2>2, <2>3, <2>4, <2>5
<1>2. ASSUME NEW t \in AllTimers, CancelTimer(t) PROVE IInv'
  <2> USE <1>2 DEF CancelTimer
  <2>1. TaskFollowsStatus'
    BY DEF TaskFollowsStatus
  <2>2. TasksAreKnown'
    <3>1. status'[t] = "cancelled" /\ cancelReq'[t] = (t \in tasks) /\ task' = task
      OBVIOUS
    <3>2. ASSUME NEW u \in AllTimers \ {t}
          PROVE  /\ status'[u] = status[u] /\ cancelReq'[u] = cancelReq[u]
                 /\ u \in tasks => u \in tasks'
      OBVIOUS
    <3>3. task[t] \in Running => t \in tasks
      BY DEF TasksAreKnown
    <3>4. /\ Open' /\ task'[t] \in Running /\ status'[t] # "cancelled" => t \in tasks'
          /\ Open' /\ cancelReq'[t] => status'[t] = "cancelled"
          /\ task'[t] \in Running /\ status'[t] = "cancelled" => cancelReq'[t]
      BY <3>1, <3>3
    <3>5. ASSUME NEW u \in AllTimers \ {t}
          PROVE  /\ Open' /\ task'[u] \in Running /\ status'[u] # "cancelled" => u \in tasks'
                 /\ Open' /\ cancelReq'[u] => status'[u] = "cancelled"
                 /\ task'[u] \in Running /\ status'[u] = "cancelled" => cancelReq'[u]
      BY <3>1, <3>2, <3>5 DEF TasksAreKnown
    <3> QED
      BY <3>4, <3>5 DEF TasksAreKnown
  <2>3. CountsAgree'
    BY DEF CountsAgree, TaskFollowsStatus, TasksAreKnown, TurnAgrees
  <2>4. TurnAgrees'
    BY DEF TurnAgrees, CountsAgree, TaskFollowsStatus
  <2>5. DoneHasNoTask'
    BY DEF DoneHasNoTask, TaskFollowsStatus, TasksAreKnown
  <2> QED
    BY <2>1, <2>2, <2>3, <2>4, <2>5
<1>3. ASSUME NEW t \in AllTimers, Elapse(t) PROVE IInv'
  <2> USE <1>3 DEF Elapse
  <2>1. TaskFollowsStatus'
    BY DEF TaskFollowsStatus
  <2>2. TasksAreKnown'
    BY DEF TasksAreKnown, TaskFollowsStatus
  <2>3. CountsAgree'
    BY DEF CountsAgree, TaskFollowsStatus, TasksAreKnown, TurnAgrees
  <2>4. TurnAgrees'
    BY DEF TurnAgrees, CountsAgree, TaskFollowsStatus
  <2>5. DoneHasNoTask'
    BY DEF DoneHasNoTask, TaskFollowsStatus, TasksAreKnown
  <2> QED
    BY <2>1, <2>2, <2>3, <2>4, <2>5
<1>4. ASSUME NEW t \in AllTimers, Wake(t) PROVE IInv'
  <2> USE <1>4 DEF Wake, TaskEnds
  <2>1. TaskFollowsStatus'
    BY DEF TaskFollowsStatus
  <2>2. TasksAreKnown'
    BY DEF TasksAreKnown, TaskFollowsStatus
  <2>3. CountsAgree'
    <3>1. CASE status' = status
      <4>1. task' = [task EXCEPT ![t] = "done"] /\ status[t] # "active" /\ pending' = pending
        BY <3>1
      <4> QED
        BY <4>1 DEF CountsAgree, TaskFollowsStatus
    <3>2. CASE /\ status' = [status EXCEPT ![t] = "expired"]
               /\ task' = [task EXCEPT ![t] = "announcing"]
               /\ pending' = pending
      BY <3>2 DEF CountsAgree, TaskFollowsStatus
    <3>3. CASE /\ status' = [status EXCEPT ![t] = "expired"]
               /\ task' = [task EXCEPT ![t] = "done"]
               /\ pending' = [pending EXCEPT ![t] = @ + 1]
      <4>1. pending[t] = 0 /\ announced[t] = 0 /\ pending'[t] = 1 /\ announced'[t] = 0
        BY <3>3 DEF CountsAgree
      <4> QED
        BY <3>3, <4>1 DEF CountsAgree
    <3> QED
      BY <3>1, <3>2, <3>3
  <2>4. TurnAgrees'
    BY DEF TurnAgrees, CountsAgree, TaskFollowsStatus
  <2>5. DoneHasNoTask'
    BY DEF DoneHasNoTask, TaskFollowsStatus, TasksAreKnown
  <2> QED
    BY <2>1, <2>2, <2>3, <2>4, <2>5
<1>5. ASSUME NEW t \in AllTimers, AnnounceExpiry(t) PROVE IInv'
  <2> USE <1>5 DEF AnnounceExpiry, TaskEnds
  <2>1. TaskFollowsStatus'
    BY DEF TaskFollowsStatus
  <2>2. TasksAreKnown'
    BY DEF TasksAreKnown, TaskFollowsStatus
  <2>3. CountsAgree'
    BY DEF CountsAgree, TaskFollowsStatus, TasksAreKnown, TurnAgrees
  <2>4. TurnAgrees'
    BY DEF TurnAgrees, CountsAgree, TaskFollowsStatus
  <2>5. DoneHasNoTask'
    BY DEF DoneHasNoTask, TaskFollowsStatus, TasksAreKnown
  <2> QED
    BY <2>1, <2>2, <2>3, <2>4, <2>5
<1>6. ASSUME NEW t \in AllTimers, CancelledStep(t) PROVE IInv'
  <2> USE <1>6 DEF CancelledStep, TaskEnds
  <2>1. TaskFollowsStatus'
    BY DEF TaskFollowsStatus
  <2>2. TasksAreKnown'
    BY DEF TasksAreKnown, TaskFollowsStatus
  <2>3. CountsAgree'
    BY DEF CountsAgree, TaskFollowsStatus, TasksAreKnown, TurnAgrees
  <2>4. TurnAgrees'
    BY DEF TurnAgrees, CountsAgree, TaskFollowsStatus
  <2>5. DoneHasNoTask'
    BY DEF DoneHasNoTask, TaskFollowsStatus, TasksAreKnown
  <2> QED
    BY <2>1, <2>2, <2>3, <2>4, <2>5
<1>7. ASSUME NEW t \in AllTimers, TryPending(t) PROVE IInv'
  <2> USE <1>7 DEF TryPending
  <2>1. TaskFollowsStatus'
    BY DEF TaskFollowsStatus
  <2>2. TasksAreKnown'
    BY DEF TasksAreKnown, TaskFollowsStatus
  <2>3. CountsAgree'
    BY DEF CountsAgree, TaskFollowsStatus, TasksAreKnown, TurnAgrees
  <2>4. TurnAgrees'
    <3>1. todo[t] = 1 /\ pending[t] = 1 /\ stop = "no"
      BY DEF TurnAgrees, CountsAgree
    <3>2. todo' = [todo EXCEPT ![t] = 0]
      BY <3>1
    <3> QED
      BY <3>1, <3>2 DEF TurnAgrees
  <2>5. DoneHasNoTask'
    BY DEF DoneHasNoTask, TaskFollowsStatus, TasksAreKnown
  <2> QED
    BY <2>1, <2>2, <2>3, <2>4, <2>5
<1>8. CASE UserTurn
  <2> USE <1>8 DEF UserTurn
  <2>1. TaskFollowsStatus'
    BY DEF TaskFollowsStatus
  <2>2. TasksAreKnown'
    BY DEF TasksAreKnown, TaskFollowsStatus
  <2>3. CountsAgree'
    BY DEF CountsAgree, TaskFollowsStatus, TasksAreKnown, TurnAgrees
  <2>4. TurnAgrees'
    BY DEF TurnAgrees, CountsAgree, TaskFollowsStatus
  <2>5. DoneHasNoTask'
    BY DEF DoneHasNoTask, TaskFollowsStatus, TasksAreKnown
  <2> QED
    BY <2>1, <2>2, <2>3, <2>4, <2>5
<1>9. CASE AnnouncePending
  <2> USE <1>9 DEF AnnouncePending
  <2>0. ASSUME turn = "announcing" PROVE CountsAgree' /\ TurnAgrees'
    <3>1. /\ current \in AllTimers /\ stop = "no"
          /\ pending[current] = 1 /\ announced[current] = 0 /\ todo[current] = 0
          /\ task[current] = "done" /\ status[current] = "expired"
      BY <2>0 DEF TurnAgrees, CountsAgree
    <3>2. /\ announced' = [announced EXCEPT ![current] = 1]
          /\ pending' = [pending EXCEPT ![current] = 0]
      BY <2>0, <3>1
    <3>3. CountsAgree'
      BY <3>1, <3>2 DEF CountsAgree
    <3>4. TurnAgrees'
      BY <3>1, <3>2 DEF TurnAgrees
    <3> QED
      BY <3>3, <3>4
  <2>1. TaskFollowsStatus'
    BY DEF TaskFollowsStatus
  <2>2. TasksAreKnown'
    BY DEF TasksAreKnown, TaskFollowsStatus
  <2>3. CountsAgree'
    BY <2>0 DEF CountsAgree
  <2>4. TurnAgrees'
    BY <2>0 DEF TurnAgrees
  <2>5. DoneHasNoTask'
    BY DEF DoneHasNoTask, TaskFollowsStatus, TasksAreKnown
  <2> QED
    BY <2>1, <2>2, <2>3, <2>4, <2>5
<1>10. CASE TurnEnds
  <2> USE <1>10 DEF TurnEnds
  <2>1. TaskFollowsStatus'
    BY DEF TaskFollowsStatus
  <2>2. TasksAreKnown'
    BY DEF TasksAreKnown, TaskFollowsStatus
  <2>3. CountsAgree'
    BY DEF CountsAgree, TaskFollowsStatus, TasksAreKnown, TurnAgrees
  <2>4. TurnAgrees'
    BY DEF TurnAgrees, CountsAgree, TaskFollowsStatus
  <2>5. DoneHasNoTask'
    BY DEF DoneHasNoTask, TaskFollowsStatus, TasksAreKnown
  <2> QED
    BY <2>1, <2>2, <2>3, <2>4, <2>5
<1>11. CASE Connect
  <2> USE <1>11 DEF Connect
  <2>1. TaskFollowsStatus'
    BY DEF TaskFollowsStatus
  <2>2. TasksAreKnown'
    BY DEF TasksAreKnown, TaskFollowsStatus
  <2>3. CountsAgree'
    BY DEF CountsAgree, TaskFollowsStatus, TasksAreKnown, TurnAgrees
  <2>4. TurnAgrees'
    BY DEF TurnAgrees, CountsAgree, TaskFollowsStatus
  <2>5. DoneHasNoTask'
    BY DEF DoneHasNoTask, TaskFollowsStatus, TasksAreKnown
  <2> QED
    BY <2>1, <2>2, <2>3, <2>4, <2>5
<1>12. CASE Disconnect
  <2> USE <1>12 DEF Disconnect
  <2>1. TaskFollowsStatus'
    BY DEF TaskFollowsStatus
  <2>2. TasksAreKnown'
    BY DEF TasksAreKnown, TaskFollowsStatus
  <2>3. CountsAgree'
    BY DEF CountsAgree, TaskFollowsStatus, TasksAreKnown, TurnAgrees
  <2>4. TurnAgrees'
    BY DEF TurnAgrees, CountsAgree, TaskFollowsStatus
  <2>5. DoneHasNoTask'
    BY DEF DoneHasNoTask, TaskFollowsStatus, TasksAreKnown
  <2> QED
    BY <2>1, <2>2, <2>3, <2>4, <2>5
<1>13. CASE BeginStop
  <2> USE <1>13 DEF BeginStop
  <2>1. TaskFollowsStatus'
    BY DEF TaskFollowsStatus
  <2>2. TasksAreKnown'
    BY DEF TasksAreKnown, TaskFollowsStatus
  <2>3. CountsAgree'
    BY DEF CountsAgree, TaskFollowsStatus, TasksAreKnown, TurnAgrees
  <2>4. TurnAgrees'
    BY DEF TurnAgrees, CountsAgree, TaskFollowsStatus
  <2>5. DoneHasNoTask'
    BY DEF DoneHasNoTask, TaskFollowsStatus, TasksAreKnown
  <2> QED
    BY <2>1, <2>2, <2>3, <2>4, <2>5
<1>14. CASE Shutdown
  <2> USE <1>14 DEF Shutdown
  <2>1. TaskFollowsStatus'
    BY DEF TaskFollowsStatus
  <2>2. TasksAreKnown'
    BY DEF TasksAreKnown, TaskFollowsStatus
  <2>3. CountsAgree'
    BY DEF CountsAgree, TaskFollowsStatus, TasksAreKnown, TurnAgrees
  <2>4. TurnAgrees'
    BY DEF TurnAgrees, CountsAgree, TaskFollowsStatus
  <2>5. DoneHasNoTask'
    BY DEF DoneHasNoTask, TaskFollowsStatus, TasksAreKnown
  <2> QED
    BY <2>1, <2>2, <2>3, <2>4, <2>5
<1>15. CASE ShutdownEnds
  <2> USE <1>15 DEF ShutdownEnds
  <2>1. TaskFollowsStatus'
    BY DEF TaskFollowsStatus
  <2>2. TasksAreKnown'
    BY DEF TasksAreKnown, TaskFollowsStatus
  <2>3. CountsAgree'
    BY DEF CountsAgree, TaskFollowsStatus, TasksAreKnown, TurnAgrees
  <2>4. TurnAgrees'
    BY DEF TurnAgrees, CountsAgree, TaskFollowsStatus
  <2>5. DoneHasNoTask'
    BY DEF DoneHasNoTask, TaskFollowsStatus, TasksAreKnown
  <2> QED
    BY <2>1, <2>2, <2>3, <2>4, <2>5
<1>16. CASE UNCHANGED vars
  BY <1>16
  DEF vars, TaskFollowsStatus, TasksAreKnown, CountsAgree, TurnAgrees, DoneHasNoTask
<1> QED
  BY <1>1, <1>2, <1>3, <1>4, <1>5, <1>6, <1>7, <1>8, <1>9,
     <1>10, <1>11, <1>12, <1>13, <1>14, <1>15, <1>16 DEF Next, TimerStep

LEMMA Invariance == Spec => []IInv
  BY InitIInv, NextIInv, PTL DEF Spec

\* The variables keep their types; in particular no entry of the list is removed
\* twice.
THEOREM TypeCorrect == Spec => []TypeOK
<1>1. IInv => TypeOK
  BY DEF IInv
<1> QED
  BY Invariance, <1>1, PTL

\* For any number of timers and lost connections a timer is announced at most once.
THEOREM AtMostOneAnnouncement == Spec => []AnnouncedAtMostOnce
<1>1. IInv => AnnouncedAtMostOnce
  BY DEF IInv, CountsAgree, AnnouncedAtMostOnce
<1> QED
  BY Invariance, <1>1, PTL

\* A cancelled timer is never announced, nor kept for an announcement, even when
\* the cancellation finds its sleep over already.
CancelledStaysSilent ==
  \A t \in AllTimers : status[t] = "cancelled" => announced[t] = 0 /\ pending[t] = 0

\* A cancelled timer is neither announced nor owed an announcement.
THEOREM CancelledIsSilent == Spec => []CancelledStaysSilent
<1>1. IInv => CancelledStaysSilent
  BY DEF IInv, CountsAgree, CancelledStaysSilent
<1> QED
  BY Invariance, <1>1, PTL

\* No expired timer is forgotten before the process shuts down.
THEOREM NoExpiryForgotten == Spec => []ExpiredIsAccountedFor
<1>1. IInv => ExpiredIsAccountedFor
  BY DEF IInv, TypeOK, TaskFollowsStatus, CountsAgree, ExpiredIsAccountedFor, Open
<1> QED
  BY Invariance, <1>1, PTL

\* shutdown() waits for every expiry task but those of cancelled timers.
THEOREM ShutdownIsClean == Spec => []ShutdownLeavesNoTask
<1>1. IInv => ShutdownLeavesNoTask
  BY DEF IInv, TypeOK, TaskFollowsStatus, TasksAreKnown, DoneHasNoTask, ShutdownLeavesNoTask, Running
<1> QED
  BY Invariance, <1>1, PTL

-----------------------------------------------------------------------------
(* The refinement of Announcements *)

\* Every step is one of the promised ones, or none of them is seen.
LEMMA StepImplements ==
  ASSUME IInv, [Next]_vars
  PROVE  [Promise!Next]_Promise!promised
<1> USE DEF expiryVars, turnVars, appVars
<1>0. TypeOK /\ TaskFollowsStatus /\ CountsAgree /\ TurnAgrees /\ DoneHasNoTask
  BY DEF IInv
<1>1. ASSUME NEW t \in AllTimers, SetTimer(t) \/ CancelTimer(t)
      PROVE  Promise!Next
  <2>1. Promise!Set(t) \/ Promise!Cancel(t)
    BY <1>1 DEF SetTimer, CancelTimer, Promise!Set, Promise!Cancel, Promise!Turns
  <2> QED
    BY <2>1 DEF Promise!Next
<1>2. ASSUME NEW t \in AllTimers, Wake(t)
      PROVE  [Promise!Next]_Promise!promised
  <2>1. CASE UNCHANGED status
    BY <1>2, <2>1 DEF Wake, Promise!promised
  <2>2. CASE status[t] = "active" /\ status' = [status EXCEPT ![t] = "expired"]
    <3>1. stop # "done"
      BY <1>0, <1>2, <2>2 DEF Wake, DoneHasNoTask
    <3>2. Promise!Expire(t)
      BY <1>2, <2>2, <3>1 DEF Wake, Promise!Expire, Promise!Turns
    <3> QED
      BY <3>2 DEF Promise!Next
  <2> QED
    BY <1>2, <2>1, <2>2 DEF Wake
<1>3. ASSUME NEW t \in AllTimers, AnnounceExpiry(t) \/ CancelledStep(t)
      PROVE  [Promise!Next]_Promise!promised
  <2>1. UNCHANGED <<status, stop>>
    BY <1>3 DEF AnnounceExpiry, CancelledStep
  <2>2. CASE UNCHANGED announced
    BY <2>1, <2>2 DEF Promise!promised
  <2>3. CASE task[t] = "announcing" /\ announced' = [announced EXCEPT ![t] = @ + 1]
    <3>1. status[t] = "expired" /\ announced[t] = 0
      BY <1>0, <2>3 DEF TypeOK, TaskFollowsStatus, CountsAgree
    <3>2. stop # "done"
      BY <1>0, <2>3, <3>1 DEF DoneHasNoTask
    <3>3. Promise!Announce(t)
      BY <1>0, <2>1, <2>3, <3>1, <3>2 DEF Promise!Announce, TypeOK
    <3> QED
      BY <3>3 DEF Promise!Next
  <2> QED
    BY <1>3, <2>2, <2>3 DEF AnnounceExpiry, CancelledStep
<1>4. ASSUME turn = "announcing", UNCHANGED status, stop' = "done" <=> stop = "done",
             announced' = [announced EXCEPT ![current] = @ + 1]
      PROVE  Promise!Next
  <2>1. current \in AllTimers /\ pending[current] = 1 /\ stop = "no"
    BY <1>0, <1>4 DEF TypeOK, TurnAgrees
  <2>2. status[current] = "expired" /\ announced[current] = 0
    BY <1>0, <2>1 DEF TypeOK, CountsAgree
  <2>3. Promise!Announce(current)
    BY <1>0, <1>4, <2>1, <2>2 DEF Promise!Announce, TypeOK
  <2> QED
    BY <2>1, <2>3 DEF Promise!Next
<1>5. CASE AnnouncePending
  BY <1>4, <1>5 DEF AnnouncePending, Promise!promised
<1>6. CASE BeginStop
  <2>1. UNCHANGED status /\ stop # "done" /\ stop' # "done"
    BY <1>6 DEF BeginStop
  <2>2. CASE UNCHANGED announced
    BY <2>1, <2>2 DEF Promise!promised
  <2>3. CASE turn = "announcing" /\ announced' = [announced EXCEPT ![current] = @ + 1]
    BY <1>4, <2>1, <2>3
  <2> QED
    BY <1>6, <2>2, <2>3 DEF BeginStop
<1>7. CASE ShutdownEnds
  <2>1. Promise!Close
    BY <1>7 DEF ShutdownEnds, Promise!Close
  <2> QED
    BY <2>1 DEF Promise!Next
<1>8. CASE UNCHANGED vars \/ Shutdown \/ UserTurn \/ TurnEnds \/ Connect \/ Disconnect
           \/ \E t \in AllTimers : Elapse(t) \/ TryPending(t)
  BY <1>8 DEF vars, Shutdown, UserTurn, TurnEnds, Connect, Disconnect, Elapse, TryPending, Promise!promised
<1> QED
  BY <1>1, <1>2, <1>3, <1>5, <1>6, <1>7, <1>8 DEF Next, TimerStep

\* For any set of timers the manager keeps the promise: each life of a timer is one
\* of Announcements, whatever is lost, cancelled or shut down meanwhile.
THEOREM ManagerImplementsAnnouncements == Spec => ImplementsAnnouncements
<1>1. Init => Promise!Init
  BY DEF Init, Promise!Init
<1>2. IInv /\ [Next]_vars => [Promise!Next]_Promise!promised
  BY StepImplements
<1> QED
  BY Invariance, <1>1, <1>2, PTL DEF Spec, ImplementsAnnouncements, Promise!Spec
==============================================================================
