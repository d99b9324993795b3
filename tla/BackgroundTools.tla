--------------------------- MODULE BackgroundTools ---------------------------
(***************************************************************************)
(* BackgroundToolManager (tools/background_tool_manager.py): the registry  *)
(* of tool calls, the asyncio task of each, the notification queue, the    *)
(* listener and cleanup tasks of a realtime session, and shutdown, which   *)
(* the session's own teardown and the handler may run at the same time.    *)
(*                                                                         *)
(* A step of this module is what the event loop runs between two           *)
(* suspension points.  A tool call's result is abstracted to the status it *)
(* gives; time is abstracted to whether the age limit of a call has passed.*)
(***************************************************************************)
EXTENDS Naturals, Sequences

CONSTANTS
  Tools,             \* tool calls; one element per BackgroundTool instance
  MaxSessions,       \* bound: realtime sessions run over one manager
  CallbackMayRaise,  \* whether the listener's callback can raise
  DispatchMayRaise   \* whether get_tools() can raise when a call is dispatched

ASSUME MaxSessionsAssumption == MaxSessions \in Nat
ASSUME MayRaiseAssumption == CallbackMayRaise \in BOOLEAN /\ DispatchMayRaise \in BOOLEAN

Terminal == {"COMPLETED", "FAILED", "CANCELLED"}
Status == {"absent", "RUNNING", "purged"} \cup Terminal
TaskState == {"none", "scheduled", "executing", "done", "dead"}
Callers == {"session", "handler"}
Notification == [tool : Tools, status : Terminal]
NoTool == [tool |-> "none", status |-> "none"]

VARIABLES
  status,      \* _tools: each call's entry ("absent" before, "purged" after)
  task,        \* BackgroundTool._task
  cancelReq,   \* a CancelledError is due at the task's next step
  old,         \* calls whose age passed the limit that applies to them
  queue,       \* _notification_queue
  listener,    \* the listener task of start_up
  handling,    \* the notification its callback is working on
  lifecycle,   \* _lifecycle_tasks is not empty
  cleaning,    \* the session's cleanup task runs
  shutdownPc,  \* where each caller of shutdown() is
  receiving,   \* the session's event loop still dispatches tool calls
  sessions,    \* sessions opened so far
  reported,    \* history: notifications put for each call
  handled      \* history: callbacks begun for each call

vars == <<status, task, cancelReq, old, queue, listener, handling, lifecycle,
          cleaning, shutdownPc, receiving, sessions, reported, handled>>

callVars == <<status, task, cancelReq, old, reported>>
listenVars == <<listener, handling, handled>>
sessionVars == <<lifecycle, cleaning, shutdownPc, receiving, sessions>>

TypeOK ==
  /\ status \in [Tools -> Status]
  /\ task \in [Tools -> TaskState]
  /\ cancelReq \in [Tools -> BOOLEAN]
  /\ old \in SUBSET Tools
  /\ queue \in Seq(Notification)
  /\ listener \in {"off", "waiting", "handling", "failed"}
  /\ handling \in Notification \cup {NoTool}
  /\ lifecycle \in BOOLEAN /\ cleaning \in BOOLEAN
  /\ shutdownPc \in [Callers -> {"idle", "waiting", "done", "raised"}]
  /\ receiving \in BOOLEAN
  /\ sessions \in Nat
  /\ reported \in [Tools -> Nat]
  /\ handled \in [Tools -> Nat]

Init ==
  /\ status = [t \in Tools |-> "absent"]
  /\ task = [t \in Tools |-> "none"]
  /\ cancelReq = [t \in Tools |-> FALSE]
  /\ old = {}
  /\ queue = <<>>
  /\ listener = "off"
  /\ handling = NoTool
  /\ lifecycle = FALSE /\ cleaning = FALSE
  /\ shutdownPc = [c \in Callers |-> IF c = "session" THEN "done" ELSE "idle"]
  /\ receiving = FALSE
  /\ sessions = 0
  /\ reported = [t \in Tools |-> 0]
  /\ handled = [t \in Tools |-> 0]

-----------------------------------------------------------------------------
(* Tool calls *)

\* start_tool: register the call and create its task.
StartTool(t) ==
  /\ receiving
  /\ status[t] = "absent"
  /\ status' = [status EXCEPT ![t] = "RUNNING"]
  /\ task' = [task EXCEPT ![t] = "scheduled"]
  /\ UNCHANGED <<cancelReq, old, reported, queue, listenVars, sessionVars>>

\* The task's first step.  A task cancelled before it never enters _run_tool;
\* an exception of get_tools(), outside the try of _dispatch_tool_call, ends it.
FirstStep(t) ==
  /\ task[t] = "scheduled"
  /\ \/ /\ ~cancelReq[t]
        /\ task' = [task EXCEPT ![t] = "executing"]
     \/ /\ cancelReq[t] \/ DispatchMayRaise
        /\ task' = [task EXCEPT ![t] = "dead"]
  /\ UNCHANGED <<status, cancelReq, old, reported, queue, listenVars, sessionVars>>

\* Mutant: a cancelled call keeps the status it had.
OutcomesWhenForgotten(t) == IF cancelReq[t] THEN {"RUNNING"} ELSE {"COMPLETED", "FAILED"}

\* What _dispatch_tool_call's result makes of the call.
Outcomes(t) == IF cancelReq[t] THEN {"CANCELLED"} ELSE {"COMPLETED", "FAILED"}

\* Mutant: the notification is put by the error path and again at the end.
FinishTwice(t) ==
  /\ task[t] = "executing"
  /\ \E s \in Outcomes(t) :
       /\ status' = [status EXCEPT ![t] = s]
       /\ queue' = queue \o <<[tool |-> t, status |-> s], [tool |-> t, status |-> s]>>
  /\ task' = [task EXCEPT ![t] = "done"]
  /\ old' = old \ {t}
  /\ reported' = [reported EXCEPT ![t] = @ + 1]
  /\ UNCHANGED <<cancelReq, listenVars, sessionVars>>

\* _run_tool after its await: record the status and queue the notification.
Finish(t) ==
  /\ task[t] = "executing"
  /\ \E s \in Outcomes(t) :
       /\ status' = [status EXCEPT ![t] = s]
       /\ queue' = Append(queue, [tool |-> t, status |-> s])
  /\ task' = [task EXCEPT ![t] = "done"]
  /\ old' = old \ {t}
  /\ reported' = [reported EXCEPT ![t] = @ + 1]
  /\ UNCHANGED <<cancelReq, listenVars, sessionVars>>

\* Calls whose task cancel() still reaches.
Cancellable == {t \in Tools : status[t] = "RUNNING" /\ task[t] \in {"scheduled", "executing"}}

CancelAll(S) == cancelReq' = [t \in Tools |-> cancelReq[t] \/ t \in S \cap Cancellable]

\* Mutant: cancel_tool records the cancellation itself.
CancelToolAtOnce(t) ==
  /\ t \in Cancellable
  /\ task[t] = "executing"
  /\ status' = [status EXCEPT ![t] = "CANCELLED"]
  /\ CancelAll({t})
  /\ UNCHANGED <<task, old, reported, queue, listenVars, sessionVars>>

\* cancel_tool: only asks the task to stop; the status is the task's to set.
\* Whoever cancels a call learned its id after the loop had run its first step.
CancelTool(t) ==
  /\ t \in Cancellable
  /\ task[t] = "executing"
  /\ CancelAll({t})
  /\ UNCHANGED <<status, task, old, reported, queue, listenVars, sessionVars>>

\* Time: the age limit that applies to a call passes, many turns of the event
\* loop after its first step.
Age(t) ==
  /\ status[t] \in Terminal \cup {"RUNNING"}
  /\ task[t] # "scheduled"
  /\ old' = old \cup {t}
  /\ UNCHANGED <<status, task, cancelReq, reported, queue, listenVars, sessionVars>>

\* Mutant: the cleanup task never calls timeout_tools.
CleanupTickWithoutTimeouts ==
  /\ cleaning
  /\ status' = [t \in Tools |-> IF t \in old /\ status[t] \in Terminal THEN "purged" ELSE status[t]]
  /\ UNCHANGED <<task, cancelReq, old, reported, queue, listenVars, sessionVars>>

\* One round of the cleanup task: cleanup_tools, then timeout_tools.
CleanupTick ==
  /\ cleaning
  /\ status' = [t \in Tools |-> IF t \in old /\ status[t] \in Terminal THEN "purged" ELSE status[t]]
  /\ CancelAll({t \in old : status[t] = "RUNNING"})
  /\ UNCHANGED <<task, old, reported, queue, listenVars, sessionVars>>

-----------------------------------------------------------------------------
(* The listener *)

\* Mutant: the listener empties the queue for one callback.
ListenerTakeAll ==
  /\ listener = "waiting"
  /\ queue # <<>>
  /\ handling' = Head(queue)
  /\ queue' = <<>>
  /\ listener' = "handling"
  /\ handled' = [handled EXCEPT ![Head(queue).tool] = @ + 1]
  /\ UNCHANGED <<callVars, sessionVars>>

\* Mutant: a LifoQueue hands out the latest notification first.
ListenerTakeLatest ==
  /\ listener = "waiting"
  /\ queue # <<>>
  /\ LET last == queue[Len(queue)]
     IN handling' = last /\ handled' = [handled EXCEPT ![last.tool] = @ + 1]
  /\ queue' = SubSeq(queue, 1, Len(queue) - 1)
  /\ listener' = "handling"
  /\ UNCHANGED <<callVars, sessionVars>>

\* The listener takes a notification and enters the callback.
ListenerTake ==
  /\ listener = "waiting"
  /\ queue # <<>>
  /\ handling' = Head(queue)
  /\ queue' = Tail(queue)
  /\ listener' = "handling"
  /\ handled' = [handled EXCEPT ![Head(queue).tool] = @ + 1]
  /\ UNCHANGED <<callVars, sessionVars>>

CallbackReturns ==
  /\ listener = "handling"
  /\ listener' = "waiting"
  /\ handling' = NoTool
  /\ UNCHANGED <<callVars, queue, handled, sessionVars>>

\* Nothing catches a callback's exception: it ends the listener task.
CallbackRaises ==
  /\ CallbackMayRaise
  /\ listener = "handling"
  /\ listener' = "failed"
  /\ handling' = NoTool
  /\ UNCHANGED <<callVars, queue, handled, sessionVars>>

-----------------------------------------------------------------------------
(* Sessions and shutdown *)

\* start_up, called once a session is connected, when the last one is torn down
\* (a connect takes network round trips, the await in shutdown two loop turns) or
\* its teardown raised: LocalStream catches that and starts up again over the same
\* manager, whose new lifecycle tasks take the place of the failed listener's.
StartUp ==
  /\ ~receiving
  /\ shutdownPc["session"] \in {"done", "raised"}
  /\ shutdownPc["handler"] # "waiting"
  /\ sessions < MaxSessions
  /\ sessions' = sessions + 1
  /\ lifecycle' = TRUE /\ cleaning' = TRUE
  /\ listener' = "waiting"
  /\ receiving' = TRUE
  /\ shutdownPc' = [shutdownPc EXCEPT !["session"] = "idle"]
  /\ UNCHANGED <<callVars, queue, handling, handled>>

\* The connection is gone: the receive loop stops; its finally clause follows.
SessionEnds ==
  /\ receiving
  /\ receiving' = FALSE
  /\ UNCHANGED <<callVars, queue, listenVars, lifecycle, cleaning, shutdownPc, sessions>>

\* shutdown up to its first await: cancel the lifecycle tasks.  A callback in
\* progress is cut off at its await and its notification is gone.
ShutdownCancelsListener(c) ==
  /\ shutdownPc[c] = "idle"
  /\ c = "session" => ~receiving
  /\ shutdownPc' = [shutdownPc EXCEPT ![c] = "waiting"]
  /\ cleaning' = FALSE
  /\ IF lifecycle /\ listener # "failed"
     THEN listener' = "off" /\ handling' = NoTool
     ELSE UNCHANGED <<listener, handling>>
  /\ UNCHANGED <<callVars, queue, handled, lifecycle, receiving, sessions>>

\* Mutant: shutdown only ends the lifecycle tasks.
ShutdownKeepsTools(c) ==
  /\ shutdownPc[c] = "waiting"
  /\ shutdownPc' = [shutdownPc EXCEPT ![c] = "done"]
  /\ lifecycle' = FALSE
  /\ UNCHANGED <<callVars, queue, listenVars, cleaning, receiving, sessions>>

\* shutdown after awaiting the lifecycle tasks: forget them and cancel every
\* registered call.  Awaiting a failed listener raises its exception instead.
ShutdownCancelsTools(c) ==
  /\ shutdownPc[c] = "waiting"
  /\ IF lifecycle /\ listener = "failed"
     THEN /\ shutdownPc' = [shutdownPc EXCEPT ![c] = "raised"]
          /\ UNCHANGED <<lifecycle, cancelReq>>
     ELSE /\ shutdownPc' = [shutdownPc EXCEPT ![c] = "done"]
          /\ lifecycle' = FALSE
          /\ CancelAll(Tools)
  /\ UNCHANGED <<status, task, old, reported, queue, listenVars, cleaning, receiving, sessions>>

-----------------------------------------------------------------------------
CallStep(t) == StartTool(t) \/ FirstStep(t) \/ Finish(t) \/ CancelTool(t) \/ Age(t)

Next ==
  \/ \E t \in Tools : CallStep(t)
  \/ CleanupTick
  \/ ListenerTake \/ CallbackReturns \/ CallbackRaises
  \/ StartUp \/ SessionEnds
  \/ \E c \in Callers : ShutdownCancelsListener(c) \/ ShutdownCancelsTools(c)

Spec == Init /\ [][Next]_vars

\* The event loop runs every ready task, clocks advance, and a cancelled tool
\* returns.  The handler's shutdown goes on to close the connection, which ends
\* the receive loop.  A tool need not finish by itself, nor a session end.
Fairness ==
  /\ \A t \in Tools : /\ WF_vars(FirstStep(t))
                      /\ WF_vars(cancelReq[t] /\ Finish(t))
                      /\ WF_vars(Age(t))
  /\ WF_vars(CleanupTick)
  /\ WF_vars(ListenerTake)
  /\ WF_vars(CallbackReturns)
  /\ WF_vars(shutdownPc["handler"] = "done" /\ SessionEnds)
  /\ WF_vars(ShutdownCancelsListener("session"))
  /\ \A c \in Callers : WF_vars(ShutdownCancelsTools(c))

FairSpec == Spec /\ Fairness

-----------------------------------------------------------------------------
(* Properties *)

Queued(t) == \E i \in DOMAIN queue : queue[i].tool = t

\* A call has put exactly one notification once its registry entry is terminal
\* (or purged after that), and none before: cancelling, timing out, purging and
\* shutting down never make a call look finished that was not reported, nor
\* report it twice.
ReportedOnce ==
  \A t \in Tools :
    reported[t] = IF status[t] \in Terminal \cup {"purged"} THEN 1 ELSE 0

\* A notification in the queue or in the callback says what the registry says of
\* its call (unless the entry was purged meanwhile), is alone in the queue, and
\* was never handed to a callback before.
QueueMatchesRegistry ==
  /\ \A i \in DOMAIN queue : /\ status[queue[i].tool] \in {queue[i].status, "purged"}
                             /\ handled[queue[i].tool] = 0
  /\ \A i, j \in DOMAIN queue : queue[i].tool = queue[j].tool => i = j
  /\ handling # NoTool => /\ status[handling.tool] \in {handling.status, "purged"}
                          /\ handled[handling.tool] = 1

\* When the receive loop has ended and the session's shutdown() has returned, every
\* tool still running is being cancelled, also when the handler's shutdown() ran
\* between its steps and when calls were started or aged meanwhile.
ShutdownStopsTools ==
  ~receiving /\ shutdownPc["session"] = "done" => \A t \in Cancellable : cancelReq[t]

\* The same whichever way shutdown() ends: it is documented to "Cancel all background
\* tasks (listener, cleanup) and running tools." (background_tool_manager.py:294).
ShutdownAlwaysStopsTools ==
  ~receiving /\ shutdownPc["session"] \in {"done", "raised"}
    => \A t \in Cancellable : cancelReq[t]

\* A tool that has begun to run ends up with a notification even if it would never
\* return by itself: it is timed out by the cleanup task, or cancelled when the
\* session is torn down (which a failed listener keeps from happening).
ExecutingIsReported ==
  \A t \in Tools : task[t] = "executing" ~> (reported[t] = 1 \/ listener = "failed")

\* A notification reaches the callback, however the tools and cancellations
\* interleave, unless the session's listener stops first.
NotificationIsHandled ==
  \A t \in Tools : Queued(t) ~> (handled[t] = 1 \/ listener \in {"off", "failed"})

-----------------------------------------------------------------------------
(* The promise to the conversation *)

\* How far a call is, as far as its result is concerned.
Stage(t) ==
  CASE status[t] = "absent" -> "new"
    [] status[t] = "RUNNING" -> "open"
    [] status[t] \notin {"absent", "RUNNING"} -> IF handled[t] = 0 THEN "ended" ELSE "delivered"

Promise == INSTANCE ToolCalls WITH
  Calls <- Tools, Endings <- Terminal, Nothing <- NoTool,
  stage <- [t \in Tools |-> Stage(t)], waiting <- queue, delivering <- handling

\* The manager implements ToolCalls: with cancellation, expiry, purging, sessions
\* that come and go and callbacks that raise, the callback still gets each result
\* at most once, in the order in which calls ended, with the status they ended with.
ImplementsToolCalls == Promise!Spec
==============================================================================
