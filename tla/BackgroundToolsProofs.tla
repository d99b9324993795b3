------------------------ MODULE BackgroundToolsProofs ------------------------
(***************************************************************************)
(* Proofs about BackgroundTools for any set of calls, any number of        *)
(* sessions, and callbacks and dispatches that may raise.                  *)
(*                                                                         *)
(* ReportedOnce and QueueMatchesRegistry are inductive only together with  *)
(* TaskMatchesStatus: Finish may count a notification from zero because a  *)
(* task that still executes belongs to an entry that is RUNNING.           *)
(***************************************************************************)
EXTENDS BackgroundTools, TLAPS

Over == Terminal \cup {"purged"}

\* The task of a call and its registry entry agree: an unfinished task belongs
\* to a RUNNING entry, and only a call whose task is over can have been handled.
TaskMatchesStatus ==
  \A t \in Tools :
    /\ task[t] = "none" <=> status[t] = "absent"
    /\ task[t] \in {"scheduled", "executing"} => status[t] = "RUNNING"
    /\ handled[t] # 0 => status[t] \in Over

IInv == TypeOK /\ TaskMatchesStatus /\ ReportedOnce /\ QueueMatchesRegistry

-----------------------------------------------------------------------------
(* Type correctness *)

LEMMA InitTypeOK == Init => TypeOK
<1> SUFFICES ASSUME Init PROVE TypeOK
  OBVIOUS
<1>1. queue \in Seq(Notification)
  BY DEF Init
<1>2. shutdownPc \in [Callers -> {"idle", "waiting", "done", "raised"}]
  BY DEF Init, Callers
<1>3. reported \in [Tools -> Nat] /\ handled \in [Tools -> Nat] /\ sessions \in Nat
  BY DEF Init
<1> QED
  BY <1>1, <1>2, <1>3 DEF Init, TypeOK, Status, TaskState

LEMMA HeadIsNotification ==
  ASSUME TypeOK, queue # <<>>
  PROVE  /\ Head(queue) \in Notification
         /\ Head(queue) = queue[1]
         /\ Tail(queue) \in Seq(Notification)
         /\ Len(Tail(queue)) = Len(queue) - 1
         /\ \A i \in DOMAIN Tail(queue) : /\ Tail(queue)[i] = queue[i + 1]
                                          /\ i \in DOMAIN queue
                                          /\ i + 1 \in DOMAIN queue
  BY DEF TypeOK

\* Every step keeps the variables in their types.
LEMMA NextTypeOK == TypeOK /\ [Next]_vars => TypeOK'
<1> SUFFICES ASSUME TypeOK, [Next]_vars PROVE TypeOK'
  OBVIOUS
<1> USE DEF TypeOK, Status, TaskState, Terminal, Callers
<1>1. ASSUME NEW t \in Tools, StartTool(t) PROVE TypeOK'
  BY <1>1 DEF StartTool, listenVars, sessionVars
<1>2. ASSUME NEW t \in Tools, FirstStep(t) PROVE TypeOK'
  BY <1>2 DEF FirstStep, listenVars, sessionVars
<1>3. ASSUME NEW t \in Tools, Finish(t) PROVE TypeOK'
  <2>1. PICK s \in Outcomes(t) : /\ status' = [status EXCEPT ![t] = s]
                                 /\ queue' = Append(queue, [tool |-> t, status |-> s])
    BY <1>3 DEF Finish
  <2>2. s \in Terminal
    BY DEF Outcomes
  <2>3. queue' \in Seq(Notification)
    BY <2>1, <2>2 DEF Notification
  <2> QED
    BY <1>3, <2>1, <2>2, <2>3 DEF Finish, listenVars, sessionVars
<1>4. ASSUME NEW t \in Tools, CancelTool(t) PROVE TypeOK'
  BY <1>4 DEF CancelTool, CancelAll, listenVars, sessionVars
<1>5. ASSUME NEW t \in Tools, Age(t) PROVE TypeOK'
  BY <1>5 DEF Age, listenVars, sessionVars
<1>6. CASE CleanupTick
  BY <1>6 DEF CleanupTick, CancelAll, listenVars, sessionVars
<1>7. CASE ListenerTake
  <2>1. Head(queue) \in Notification /\ Tail(queue) \in Seq(Notification)
    BY <1>7, HeadIsNotification DEF ListenerTake
  <2>2. Head(queue).tool \in Tools
    BY <2>1 DEF Notification
  <2> QED
    BY <1>7, <2>1, <2>2 DEF ListenerTake, callVars, sessionVars
<1>8. CASE CallbackReturns \/ CallbackRaises
  BY <1>8 DEF CallbackReturns, CallbackRaises, callVars, sessionVars
<1>9. CASE StartUp
  <2>1. /\ sessions' \in Nat /\ lifecycle' \in BOOLEAN
        /\ cleaning' \in BOOLEAN /\ receiving' \in BOOLEAN
    BY <1>9 DEF StartUp
  <2>2. shutdownPc' \in [Callers -> {"idle", "waiting", "done", "raised"}]
    BY <1>9 DEF StartUp
  <2> QED
    BY <1>9, <2>1, <2>2 DEF StartUp, callVars
<1>10. CASE SessionEnds
  BY <1>10 DEF SessionEnds, callVars, listenVars
<1>11. ASSUME NEW c \in Callers, ShutdownCancelsListener(c) PROVE TypeOK'
  <2>1. shutdownPc' \in [Callers -> {"idle", "waiting", "done", "raised"}]
    BY <1>11 DEF ShutdownCancelsListener
  <2>2. /\ listener' \in {"off", "waiting", "handling", "failed"}
        /\ handling' \in Notification \cup {NoTool}
    BY <1>11 DEF ShutdownCancelsListener
  <2>3. cleaning' = FALSE /\ UNCHANGED <<callVars, queue, handled, lifecycle, receiving, sessions>>
    BY <1>11 DEF ShutdownCancelsListener
  <2> QED
    BY <2>1, <2>2, <2>3 DEF callVars
<1>12. ASSUME NEW c \in Callers, ShutdownCancelsTools(c) PROVE TypeOK'
  <2>1. shutdownPc' \in [Callers -> {"idle", "waiting", "done", "raised"}]
    BY <1>12 DEF ShutdownCancelsTools
  <2>2. cancelReq' \in [Tools -> BOOLEAN]
    <3>1. cancelReq' = cancelReq \/ CancelAll(Tools)
      BY <1>12 DEF ShutdownCancelsTools
    <3>2. ASSUME CancelAll(Tools) PROVE cancelReq' \in [Tools -> BOOLEAN]
      BY <3>2 DEF CancelAll
    <3> QED
      BY <3>1, <3>2
  <2>3. lifecycle' \in BOOLEAN
    BY <1>12 DEF ShutdownCancelsTools
  <2>4. UNCHANGED <<status, task, old, reported, queue, listenVars, cleaning, receiving, sessions>>
    BY <1>12 DEF ShutdownCancelsTools
  <2> QED
    BY <2>1, <2>2, <2>3, <2>4 DEF listenVars
<1>13. CASE UNCHANGED vars
  BY <1>13 DEF vars
<1> QED
  BY <1>1, <1>2, <1>3, <1>4, <1>5, <1>6, <1>7, <1>8, <1>9, <1>10, <1>11, <1>12,
     <1>13
  DEF Next, CallStep

\* The variables keep their types: in particular the queue only ever holds
\* notifications of terminal statuses.
THEOREM TypeCorrect == Spec => []TypeOK
<1> QED
  BY InitTypeOK, NextTypeOK, PTL DEF Spec

-----------------------------------------------------------------------------
(* Every call is reported once, and its notification agrees with the registry *)

LEMMA InitIInv == Init => IInv
<1> SUFFICES ASSUME Init PROVE IInv
  OBVIOUS
<1>1. TypeOK
  BY InitTypeOK
<1>2. TaskMatchesStatus /\ ReportedOnce
  BY DEF Init, TaskMatchesStatus, ReportedOnce, Over, Terminal
<1>3. QueueMatchesRegistry
  BY DEF Init, QueueMatchesRegistry
<1> QED
  BY <1>1, <1>2, <1>3 DEF IInv

LEMMA QueuedAreNotifications ==
  ASSUME TypeOK, NEW i \in DOMAIN queue
  PROVE  queue[i].tool \in Tools /\ queue[i].status \in Terminal
<1>1. queue[i] \in Notification
  BY DEF TypeOK
<1> QED
  BY <1>1 DEF Notification

\* Steps that leave the notifications alone and move no entry out of the
\* statuses a notification may carry.
LEMMA QueueUndisturbed ==
  ASSUME IInv, UNCHANGED <<queue, handling, handled>>,
         status' \in [Tools -> Status],
         \A t \in Tools : status[t] \in Over => status'[t] \in {status[t], "purged"}
  PROVE  QueueMatchesRegistry'
<1>1. \A i \in DOMAIN queue : /\ queue[i].tool \in Tools
                             /\ queue[i].status \in Terminal
                             /\ status[queue[i].tool] \in {queue[i].status, "purged"}
                             /\ handled[queue[i].tool] = 0
  BY QueuedAreNotifications DEF IInv, QueueMatchesRegistry
<1>2. \A i \in DOMAIN queue : status'[queue[i].tool] \in {queue[i].status, "purged"}
  BY <1>1 DEF Over
<1>3. handling # NoTool => status'[handling.tool] \in {handling.status, "purged"}
  <2> SUFFICES ASSUME handling # NoTool
               PROVE  status'[handling.tool] \in {handling.status, "purged"}
    OBVIOUS
  <2>1. handling.tool \in Tools /\ handling.status \in Terminal
    BY DEF IInv, TypeOK, Notification
  <2> QED
    BY <2>1 DEF IInv, QueueMatchesRegistry, Over
<1> QED
  BY <1>1, <1>2, <1>3 DEF QueueMatchesRegistry, IInv

LEMMA FinishStep ==
  ASSUME IInv, NEW t \in Tools, Finish(t)
  PROVE  TaskMatchesStatus' /\ ReportedOnce' /\ QueueMatchesRegistry'
<1> USE DEF IInv, TypeOK
<1>1. PICK s \in Outcomes(t) : /\ status' = [status EXCEPT ![t] = s]
                               /\ queue' = Append(queue, [tool |-> t, status |-> s])
  BY DEF Finish
<1>2. s \in Terminal
  BY DEF Outcomes, Terminal
<1>3. status[t] = "RUNNING" /\ task' = [task EXCEPT ![t] = "done"]
      /\ reported' = [reported EXCEPT ![t] = @ + 1] /\ UNCHANGED <<handling, handled>>
  BY DEF Finish, TaskMatchesStatus, listenVars
<1>4. reported[t] = 0 /\ handled[t] = 0
  BY <1>3 DEF ReportedOnce, TaskMatchesStatus, Over, Terminal
<1>5. TaskMatchesStatus'
  BY <1>1, <1>2, <1>3 DEF TaskMatchesStatus, Over, Terminal, TaskState, Status
<1>6. ReportedOnce'
  BY <1>1, <1>2, <1>3, <1>4 DEF ReportedOnce, Terminal
<1>7. \A i \in DOMAIN queue : /\ queue[i].tool \in Tools
                             /\ queue[i].tool # t
                             /\ status[queue[i].tool] \in {queue[i].status, "purged"}
                             /\ handled[queue[i].tool] = 0
  BY <1>3, QueuedAreNotifications DEF QueueMatchesRegistry, Terminal
<1>8. handling # NoTool => /\ handling.tool \in Tools /\ handling.tool # t
                           /\ status[handling.tool] \in {handling.status, "purged"}
                           /\ handled[handling.tool] = 1
  BY <1>3 DEF QueueMatchesRegistry, Notification, Terminal
<1>9. /\ DOMAIN queue' = 1 .. Len(queue) + 1
      /\ DOMAIN queue = 1 .. Len(queue)
      /\ Len(queue) \in Nat
      /\ \A i \in DOMAIN queue : queue'[i] = queue[i]
      /\ queue'[Len(queue) + 1] = [tool |-> t, status |-> s]
  BY <1>1
<1>10. \A i \in DOMAIN queue' :
         i \in DOMAIN queue \/ (i = Len(queue) + 1 /\ queue'[i] = [tool |-> t, status |-> s])
  BY <1>9
<1>11. \A i \in DOMAIN queue' : /\ status'[queue'[i].tool] \in {queue'[i].status, "purged"}
                               /\ handled'[queue'[i].tool] = 0
  BY <1>1, <1>3, <1>4, <1>7, <1>9, <1>10
<1>12. \A i, j \in DOMAIN queue' : queue'[i].tool = queue'[j].tool => i = j
  BY <1>7, <1>9, <1>10 DEF QueueMatchesRegistry
<1>13. handling' # NoTool => /\ status'[handling'.tool] \in {handling'.status, "purged"}
                             /\ handled'[handling'.tool] = 1
  BY <1>1, <1>3, <1>8
<1> QED
  BY <1>5, <1>6, <1>11, <1>12, <1>13 DEF QueueMatchesRegistry

LEMMA ListenerTakeStep ==
  ASSUME IInv, ListenerTake
  PROVE  TaskMatchesStatus' /\ ReportedOnce' /\ QueueMatchesRegistry'
<1> USE DEF IInv
<1> DEFINE h == Head(queue)
<1>1. /\ h \in Notification /\ h = queue[1] /\ 1 \in DOMAIN queue
      /\ \A i \in DOMAIN Tail(queue) : /\ Tail(queue)[i] = queue[i + 1]
                                       /\ i \in DOMAIN queue
                                       /\ i + 1 \in DOMAIN queue
                                       /\ i + 1 # 1 /\ i \in Nat
  <2>1. queue # <<>> /\ TypeOK
    BY DEF ListenerTake
  <2> QED
    BY <2>1, HeadIsNotification DEF TypeOK
<1>2. h.tool \in Tools /\ h.status \in Terminal
  BY <1>1 DEF Notification
<1>3. /\ status[h.tool] \in {h.status, "purged"}
      /\ handled[h.tool] = 0
      /\ \A i \in DOMAIN Tail(queue) : queue[i + 1].tool # h.tool
  BY <1>1 DEF QueueMatchesRegistry
<1>4. /\ handling' = h /\ queue' = Tail(queue)
      /\ handled' = [handled EXCEPT ![h.tool] = @ + 1]
      /\ UNCHANGED <<status, task, reported>>
  BY DEF ListenerTake, callVars
<1>5. TaskMatchesStatus'
  BY <1>2, <1>3, <1>4 DEF TaskMatchesStatus, TypeOK, Over
<1>6. ReportedOnce'
  BY <1>4 DEF ReportedOnce
<1>7. \A i \in DOMAIN queue' : /\ status'[queue'[i].tool] \in {queue'[i].status, "purged"}
                              /\ handled'[queue'[i].tool] = 0
  BY <1>1, <1>3, <1>4 DEF QueueMatchesRegistry, TypeOK
<1>8. \A i, j \in DOMAIN queue' : queue'[i].tool = queue'[j].tool => i = j
  BY <1>1, <1>4 DEF QueueMatchesRegistry
<1>9. /\ status'[handling'.tool] \in {handling'.status, "purged"}
      /\ handled'[handling'.tool] = 1
  BY <1>2, <1>3, <1>4 DEF TypeOK
<1> QED
  BY <1>5, <1>6, <1>7, <1>8, <1>9 DEF QueueMatchesRegistry

LEMMA NextIInv == IInv /\ [Next]_vars => IInv'
<1> SUFFICES ASSUME IInv, [Next]_vars
             PROVE  TaskMatchesStatus' /\ ReportedOnce' /\ QueueMatchesRegistry'
  BY NextTypeOK DEF IInv
<1> USE DEF TaskMatchesStatus, ReportedOnce, Over, Terminal
<1>1. ASSUME NEW t \in Tools, StartTool(t)
      PROVE  TaskMatchesStatus' /\ ReportedOnce' /\ QueueMatchesRegistry'
  <2>1. TaskMatchesStatus' /\ ReportedOnce'
    BY <1>1 DEF StartTool, IInv, TypeOK, listenVars
  <2>2. QueueMatchesRegistry'
    BY <1>1, QueueUndisturbed DEF StartTool, IInv, TypeOK, Status, listenVars
  <2> QED
    BY <2>1, <2>2
<1>2. ASSUME NEW t \in Tools, FirstStep(t)
      PROVE  TaskMatchesStatus' /\ ReportedOnce' /\ QueueMatchesRegistry'
  <2>1. TaskMatchesStatus' /\ ReportedOnce'
    BY <1>2 DEF FirstStep, IInv, TypeOK, TaskState, listenVars
  <2>2. QueueMatchesRegistry'
    BY <1>2, QueueUndisturbed DEF FirstStep, IInv, TypeOK, listenVars
  <2> QED
    BY <2>1, <2>2
<1>3. ASSUME NEW t \in Tools, Finish(t)
      PROVE  TaskMatchesStatus' /\ ReportedOnce' /\ QueueMatchesRegistry'
  BY <1>3, FinishStep
<1>4. CASE UNCHANGED <<status, task, reported, queue, handling, handled>>
  <2>1. TaskMatchesStatus' /\ ReportedOnce'
    BY <1>4 DEF IInv
  <2>2. QueueMatchesRegistry'
    BY <1>4, QueueUndisturbed DEF IInv, TypeOK
  <2> QED
    BY <2>1, <2>2
<1>5. CASE CleanupTick
  <2>1. TaskMatchesStatus' /\ ReportedOnce'
    BY <1>5 DEF CleanupTick, IInv, TypeOK, Status, listenVars
  <2>2. QueueMatchesRegistry'
    BY <1>5, QueueUndisturbed DEF CleanupTick, IInv, TypeOK, Status, listenVars
  <2> QED
    BY <2>1, <2>2
<1>6. CASE ListenerTake
  BY <1>6, ListenerTakeStep
<1>7. CASE /\ UNCHANGED <<status, task, reported, queue, handled>>
           /\ handling' = NoTool
  BY <1>7 DEF IInv, QueueMatchesRegistry
<1>8. ASSUME NEW t \in Tools, CancelTool(t) \/ Age(t)
      PROVE  UNCHANGED <<status, task, reported, queue, handling, handled>>
  BY <1>8 DEF CancelTool, Age, listenVars
<1>9. CASE CallbackReturns \/ CallbackRaises
  BY <1>7, <1>9 DEF CallbackReturns, CallbackRaises, callVars
<1>10. CASE StartUp \/ SessionEnds
  BY <1>4, <1>10 DEF StartUp, SessionEnds, callVars, listenVars
<1>11. ASSUME NEW c \in Callers, ShutdownCancelsListener(c)
       PROVE  TaskMatchesStatus' /\ ReportedOnce' /\ QueueMatchesRegistry'
  BY <1>4, <1>7, <1>11 DEF ShutdownCancelsListener, callVars
<1>12. ASSUME NEW c \in Callers, ShutdownCancelsTools(c)
       PROVE  TaskMatchesStatus' /\ ReportedOnce' /\ QueueMatchesRegistry'
  BY <1>4, <1>12 DEF ShutdownCancelsTools, listenVars
<1>13. CASE UNCHANGED vars
  BY <1>4, <1>13 DEF vars
<1> QED
  BY <1>1, <1>2, <1>3, <1>4, <1>5, <1>6, <1>8, <1>9, <1>10, <1>11, <1>12, <1>13
  DEF Next, CallStep

LEMMA IInvHolds == Spec => []IInv
<1> QED
  BY InitIInv, NextIInv, PTL DEF Spec

\* However calls, cancellations, timeouts, purges and shutdowns interleave, a
\* call puts exactly one notification, and exactly when its entry turns terminal.
THEOREM EveryCallReportedOnce == Spec => []ReportedOnce
<1>1. IInv => ReportedOnce
  BY DEF IInv
<1> QED
  BY <1>1, IInvHolds, PTL

\* The listener is never handed a notification that disagrees with the registry,
\* nor the same call twice, callbacks that raise and sessions in between included.
THEOREM NotificationsAgree == Spec => []QueueMatchesRegistry
<1>1. IInv => QueueMatchesRegistry
  BY DEF IInv
<1> QED
  BY <1>1, IInvHolds, PTL

-----------------------------------------------------------------------------
(* Teardown stops every tool *)

\* While the receive loop runs the session has not begun its own shutdown, so
\* every call started is there for that shutdown to cancel.
TeardownInv ==
  /\ TypeOK
  /\ receiving => shutdownPc["session"] = "idle"
  /\ ShutdownStopsTools

LEMMA TeardownStep ==
  ASSUME TeardownInv, [Next]_vars
  PROVE  TeardownInv'
<1> USE DEF TeardownInv
<1>1. TypeOK'
  BY NextTypeOK
<1>2. receiving' => shutdownPc'["session"] = "idle"
  <2>1. CASE UNCHANGED <<receiving, shutdownPc>>
    BY <2>1
  <2>2. CASE StartUp \/ SessionEnds
    BY <2>2 DEF StartUp, SessionEnds, TypeOK, Callers
  <2>3. ASSUME NEW c \in Callers, ShutdownCancelsListener(c) \/ ShutdownCancelsTools(c)
        PROVE  receiving' => shutdownPc'["session"] = "idle"
    BY <2>3 DEF ShutdownCancelsListener, ShutdownCancelsTools, TypeOK, Callers
  <2> QED
    BY <2>1, <2>2, <2>3 DEF Next, CallStep, vars, StartTool, FirstStep, Finish, CancelTool, Age,
         CleanupTick, ListenerTake, CallbackReturns, CallbackRaises, sessionVars
<1>3. ShutdownStopsTools'
  <2> SUFFICES ASSUME ~receiving', shutdownPc'["session"] = "done",
                      NEW t \in Tools, status'[t] = "RUNNING",
                      task'[t] \in {"scheduled", "executing"}
               PROVE  cancelReq'[t]
    BY DEF ShutdownStopsTools, Cancellable
  <2>1. ASSUME ~receiving, shutdownPc["session"] = "done",
               status[t] = "RUNNING", task[t] \in {"scheduled", "executing"}
        PROVE  cancelReq[t]
    BY <2>1 DEF ShutdownStopsTools, Cancellable
  <2>2. ASSUME NEW u \in Tools, CallStep(u) PROVE cancelReq'[t]
    <3>1. ~receiving /\ shutdownPc["session"] = "done"
      BY <2>2 DEF CallStep, StartTool, FirstStep, Finish, CancelTool, Age, sessionVars
    <3>2. status[t] = "RUNNING" /\ task[t] \in {"scheduled", "executing"}
      BY <2>2, <3>1 DEF TypeOK, CallStep, StartTool, FirstStep, Finish, CancelTool, Age, Outcomes
    <3>3. cancelReq[t] => cancelReq'[t]
      BY <2>2 DEF CallStep, StartTool, FirstStep, Finish, CancelTool, CancelAll, Age
    <3> QED
      BY <2>1, <3>1, <3>2, <3>3
  <2>3. CASE CleanupTick
    BY <2>1, <2>3 DEF CleanupTick, CancelAll, TypeOK, Terminal, sessionVars
  <2>4. CASE ListenerTake \/ CallbackReturns \/ CallbackRaises
    BY <2>1, <2>4 DEF ListenerTake, CallbackReturns, CallbackRaises, callVars, sessionVars
  <2>5. CASE StartUp \/ SessionEnds
    BY <2>5 DEF StartUp, SessionEnds
  <2>6. ASSUME NEW c \in Callers, ShutdownCancelsListener(c) PROVE cancelReq'[t]
    BY <2>1, <2>6 DEF ShutdownCancelsListener, callVars, TypeOK, Callers
  <2>7. ASSUME NEW c \in Callers, ShutdownCancelsTools(c) PROVE cancelReq'[t]
    <3>1. CASE lifecycle /\ listener = "failed"
      <4>1. shutdownPc' = [shutdownPc EXCEPT ![c] = "raised"] /\ UNCHANGED cancelReq
        BY <2>7, <3>1 DEF ShutdownCancelsTools
      <4>2. shutdownPc["session"] = "done"
        BY <4>1 DEF TypeOK, Callers
      <4> QED
        BY <2>1, <2>7, <4>1, <4>2 DEF ShutdownCancelsTools
    <3>2. CASE ~(lifecycle /\ listener = "failed")
      BY <2>7, <3>2 DEF ShutdownCancelsTools, CancelAll, Cancellable, TypeOK
    <3> QED
      BY <3>1, <3>2
  <2>8. CASE UNCHANGED vars
    BY <2>1, <2>8 DEF vars
  <2> QED
    BY <2>2, <2>3, <2>4, <2>5, <2>6, <2>7, <2>8 DEF Next
<1> QED
  BY <1>1, <1>2, <1>3

\* When shutdown() returns at the end of a session, no tool is left running
\* uncancelled, even when the handler shuts down at the same time, calls still
\* arrive, and callbacks raise.
THEOREM TeardownStopsTools == Spec => []ShutdownStopsTools
<1>1. Init => TeardownInv
  <2> SUFFICES ASSUME Init PROVE TeardownInv
    OBVIOUS
  <2>1. TypeOK
    BY InitTypeOK
  <2> QED
    BY <2>1 DEF Init, TeardownInv, ShutdownStopsTools, Cancellable
<1>2. TeardownInv /\ [Next]_vars => TeardownInv'
  BY TeardownStep
<1>3. TeardownInv => ShutdownStopsTools
  BY DEF TeardownInv
<1> QED
  BY <1>1, <1>2, <1>3, PTL DEF Spec

-----------------------------------------------------------------------------
(* The manager implements ToolCalls *)

\* A listener that listens belongs to a session that has not begun to shut down,
\* and it is in its callback exactly while a notification is being handled.
ListenerInv ==
  /\ listener = "handling" <=> handling # NoTool
  /\ listener \in {"waiting", "handling"} =>
       /\ lifecycle /\ shutdownPc["session"] = "idle"
       /\ shutdownPc["handler"] # "waiting"

LEMMA ListenerStep ==
  ASSUME TypeOK, ListenerInv, [Next]_vars
  PROVE  ListenerInv'
<1> USE DEF ListenerInv, TypeOK, Callers
<1>1. CASE UNCHANGED <<listener, handling, lifecycle, shutdownPc>>
  BY <1>1
<1>2. CASE ListenerTake
  <2>1. handling' # NoTool
    BY <1>2, HeadIsNotification DEF ListenerTake, Notification, NoTool, Terminal
  <2> QED
    BY <1>2, <2>1 DEF ListenerTake, sessionVars
<1>3. CASE CallbackReturns \/ CallbackRaises
  BY <1>3 DEF CallbackReturns, CallbackRaises, sessionVars
<1>4. CASE StartUp
  BY <1>4 DEF StartUp
<1>5. ASSUME NEW c \in Callers, ShutdownCancelsListener(c) PROVE ListenerInv'
  <2>1. listener' \notin {"waiting", "handling"}
    BY <1>5 DEF ShutdownCancelsListener
  <2>2. handling' = NoTool
    BY <1>5 DEF ShutdownCancelsListener
  <2> QED
    BY <2>1, <2>2
<1>6. ASSUME NEW c \in Callers, ShutdownCancelsTools(c) PROVE ListenerInv'
  <2>1. listener \notin {"waiting", "handling"} /\ UNCHANGED <<listener, handling>>
    BY <1>6 DEF ShutdownCancelsTools, listenVars
  <2> QED
    BY <2>1
<1>7. CASE (\E t \in Tools : CallStep(t)) \/ CleanupTick \/ SessionEnds \/ UNCHANGED vars
  <2>1. UNCHANGED <<listener, handling, lifecycle, shutdownPc>>
    BY <1>7 DEF CallStep, StartTool, FirstStep, Finish, CancelTool, Age, CleanupTick, SessionEnds,
         vars, listenVars, sessionVars
  <2> QED
    BY <1>1, <2>1
<1> QED
  BY <1>2, <1>3, <1>4, <1>5, <1>6, <1>7 DEF Next

LEMMA ListenerHolds == Spec => []ListenerInv
<1>1. Init => ListenerInv
  BY DEF Init, ListenerInv, NoTool
<1> QED
  BY <1>1, TypeCorrect, ListenerStep, PTL DEF Spec

\* The stages of two states agree wherever the registry and the history do, up to
\* the purging of a finished call.
LEMMA SameStages ==
  ASSUME UNCHANGED handled,
         \A t \in Tools : status'[t] = status[t] \/ (status[t] \in Terminal /\ status'[t] = "purged")
  PROVE  UNCHANGED [t \in Tools |-> Stage(t)]
<1>1. \A t \in Tools : Stage(t)' = Stage(t)
  BY DEF Stage, Terminal
<1> QED
  BY <1>1

\* Each step of the manager is a step of ToolCalls, or none.
LEMMA StepImplements ==
  ASSUME IInv, ListenerInv, [Next]_vars
  PROVE  [Promise!Next]_Promise!promised
<1> DEFINE stages == [t \in Tools |-> Stage(t)]
<1> USE DEF IInv, TypeOK
<1>1. ASSUME NEW t \in Tools, StartTool(t) PROVE Promise!Start(t)
  <2>1. stages[t] = "new" /\ UNCHANGED <<queue, handling>>
    BY <1>1 DEF StartTool, Stage, listenVars
  <2>2. \A u \in Tools : Stage(u)' = IF u = t THEN "open" ELSE Stage(u)
    BY <1>1 DEF StartTool, Stage, listenVars
  <2>3. stages' = [stages EXCEPT ![t] = "open"]
    BY <2>2
  <2> QED
    BY <2>1, <2>3 DEF Promise!Start
<1>2. ASSUME NEW t \in Tools, Finish(t) PROVE Promise!End(t)
  <2>1. PICK s \in Outcomes(t) : /\ status' = [status EXCEPT ![t] = s]
                                 /\ queue' = Append(queue, [tool |-> t, status |-> s])
    BY <1>2 DEF Finish
  <2>2. s \in Terminal /\ UNCHANGED <<handling, handled>>
    BY <1>2 DEF Finish, Outcomes, Terminal, listenVars
  <2>3. status[t] = "RUNNING" /\ handled[t] = 0
    BY <1>2 DEF Finish, TaskMatchesStatus, Over, Terminal
  <2>4. \A u \in Tools : Stage(u)' = IF u = t THEN "ended" ELSE Stage(u)
    BY <2>1, <2>2, <2>3 DEF Stage, Terminal
  <2>5. stages' = [stages EXCEPT ![t] = "ended"]
    BY <2>4
  <2>6. stages[t] = "open"
    BY <2>3 DEF Stage
  <2> QED
    BY <2>1, <2>2, <2>5, <2>6 DEF Promise!End
<1>3. ASSUME ListenerTake PROVE Promise!Deliver
  <2> DEFINE h == Head(queue)
  <2>1. h \in Notification /\ h = queue[1] /\ 1 \in DOMAIN queue
    BY <1>3, HeadIsNotification DEF ListenerTake
  <2>2. h.tool \in Tools /\ h.status \in Terminal
    BY <2>1 DEF Notification
  <2>3. status[h.tool] \notin {"absent", "RUNNING"} /\ handled[h.tool] = 0
    BY <2>1, <2>2 DEF QueueMatchesRegistry, Terminal
  <2>4. /\ queue # <<>> /\ handling' = h /\ queue' = Tail(queue)
        /\ handled' = [handled EXCEPT ![h.tool] = @ + 1] /\ UNCHANGED status
    BY <1>3 DEF ListenerTake, callVars
  <2>5. handling = NoTool
    BY <1>3 DEF ListenerInv, ListenerTake
  <2>6. \A u \in Tools : Stage(u)' = IF u = h.tool THEN "delivered" ELSE Stage(u)
    BY <2>2, <2>3, <2>4 DEF Stage
  <2>7. stages' = [stages EXCEPT ![h.tool] = "delivered"]
    BY <2>2, <2>6
  <2>8. stages[h.tool] = "ended"
    BY <2>2, <2>3 DEF Stage
  <2> QED
    BY <2>4, <2>5, <2>7, <2>8 DEF Promise!Deliver
<1>4. CASE CleanupTick
  <2>1. UNCHANGED stages
    BY <1>4, SameStages DEF CleanupTick, listenVars
  <2> QED
    BY <1>4, <2>1 DEF CleanupTick, listenVars, Promise!promised
<1>5. ASSUME UNCHANGED <<status, handled, queue>>, handling' \in {handling, NoTool}
      PROVE  [Promise!Next]_Promise!promised
  <2>1. UNCHANGED stages
    BY <1>5, SameStages
  <2> QED
    BY <1>5, <2>1 DEF Promise!Next, Promise!Delivered, Promise!promised
<1>6. ASSUME NEW t \in Tools, FirstStep(t) \/ CancelTool(t) \/ Age(t)
      PROVE  UNCHANGED <<status, handled, queue, handling>>
  BY <1>6 DEF FirstStep, CancelTool, Age, listenVars
<1>7. CASE CallbackReturns \/ CallbackRaises \/ StartUp \/ SessionEnds
  BY <1>5, <1>7 DEF CallbackReturns, CallbackRaises, StartUp, SessionEnds, callVars, listenVars
<1>8. ASSUME NEW c \in Callers, ShutdownCancelsListener(c) \/ ShutdownCancelsTools(c)
      PROVE  [Promise!Next]_Promise!promised
  BY <1>5, <1>8 DEF ShutdownCancelsListener, ShutdownCancelsTools, callVars, listenVars
<1>9. CASE UNCHANGED vars
  BY <1>5, <1>9 DEF vars
<1> QED
  BY <1>1, <1>2, <1>3, <1>4, <1>5, <1>6, <1>7, <1>8, <1>9 DEF Next, CallStep, Promise!Next

\* The manager keeps its promise to the conversation for any set of calls: every
\* behaviour of it is, seen through Stage, a behaviour of ToolCalls.
THEOREM ManagerImplementsToolCalls == Spec => ImplementsToolCalls
<1>1. Init => Promise!Init
  <2> SUFFICES ASSUME Init PROVE Promise!Init
    OBVIOUS
  <2>1. \A t \in Tools : Stage(t) = "new"
    BY DEF Init, Stage
  <2>2. queue = <<>> /\ handling = NoTool
    BY DEF Init
  <2> QED
    BY <2>1, <2>2 DEF Promise!Init
<1>2. IInv /\ ListenerInv /\ [Next]_vars => [Promise!Next]_Promise!promised
  BY StepImplements
<1> QED
  BY <1>1, <1>2, IInvHolds, ListenerHolds, PTL DEF Spec, ImplementsToolCalls, Promise!Spec
==============================================================================
