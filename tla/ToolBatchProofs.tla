--------------------------- MODULE ToolBatchProofs ---------------------------
(***************************************************************************)
(* Theorems about ToolBatch for any calls, sessions and responses.  Its    *)
(* steps are steps of BackgroundTools, so what is proved of the manager    *)
(* holds of the composition.  That one response answers a batch needs, of  *)
(* a batch answered already, that its results are all in and that its      *)
(* response of the server is over, so that no call can join it.            *)
(***************************************************************************)
EXTENDS ToolBatch, BackgroundToolsProofs

-----------------------------------------------------------------------------
(* The composition runs the manager *)

LEMMA StepIsManagerStep == [BatchNext]_allVars => [Next]_vars
<1> SUFFICES ASSUME [BatchNext]_allVars PROVE [Next]_vars
  OBVIOUS
<1>1. CASE ManagerStep
  BY <1>1 DEF ManagerStep, Next, CallStep
<1>2. CASE ResponseCreated \/ ResponseDone \/ ForceDone \/ Transcript \/ DropResult \/ SendImage
  BY <1>2 DEF ResponseCreated, ResponseDone, ForceDone, Transcript, DropResult, SendImage
<1>3. ASSUME NEW t \in Tools, FunctionCall(t) \/ IdleCall(t) PROVE [Next]_vars
  BY <1>3 DEF FunctionCall, IdleCall, Next, CallStep
<1>4. CASE TakeResult
  BY <1>4 DEF TakeResult, Next
<1>5. CASE Begin \/ Send \/ Conclude
  <2>1. CallbackReturns \/ UNCHANGED vars
    BY <1>5 DEF Begin, Send, Conclude
  <2> QED
    BY <2>1 DEF Next
<1>6. CASE WriteFails \/ LookupFails
  <2>1. CallbackReturns \/ CallbackRaises
    BY <1>6 DEF WriteFails, LookupFails
  <2> QED
    BY <2>1 DEF Next
<1>7. CASE OpenSession \/ LoseSession
  BY <1>7 DEF OpenSession, LoseSession, Next
<1>8. ASSUME NEW c \in Callers, BeginShutdown(c) \/ EndShutdown(c) PROVE [Next]_vars
  BY <1>8 DEF BeginShutdown, EndShutdown, Next
<1>9. CASE UNCHANGED allVars
  BY <1>9 DEF allVars
<1> QED
  BY <1>1, <1>2, <1>3, <1>4, <1>5, <1>6, <1>7, <1>8, <1>9 DEF BatchNext, Callback

\* What the realtime session does with the manager is what the manager is
\* modelled to allow: every theorem about Spec holds of BatchSpec.
THEOREM SessionRunsManager == BatchSpec => Spec
<1>1. BatchInit => Init
  BY DEF BatchInit
<1> QED
  BY <1>1, StepIsManagerStep, PTL DEF BatchSpec, Spec

-----------------------------------------------------------------------------
(* Types, and a debt that is settled *)

\* The callback runs while the listener handles a notification.
CallbackAgrees == cb # "none" <=> listener = "handling"

\* A call in flight is coming, or was abandoned; a debt has one of either kind.
InFlightAccounted == \A t \in inFlight : Coming(t) \/ t \in abandoned
DebtAccounted == needs => inFlight # {} \/ abandoned # {}

BInv ==
  /\ IInv /\ ListenerInv
  /\ BatchTypeOK
  /\ CallbackAgrees
  /\ InFlightAccounted
  /\ DebtAccounted

LEMMA ManagerInv ==
  ASSUME BInv, [BatchNext]_allVars
  PROVE  IInv' /\ ListenerInv' /\ TypeOK'
<1>1. [Next]_vars
  BY StepIsManagerStep
<1>2. IInv /\ ListenerInv /\ TypeOK
  BY DEF BInv, IInv
<1>3. IInv'
  BY <1>1, <1>2, NextIInv
<1>4. ListenerInv'
  BY <1>1, <1>2, ListenerStep
<1>5. TypeOK'
  BY <1>1, <1>2, NextTypeOK
<1> QED
  BY <1>3, <1>4, <1>5

\* What is handled is a call.
LEMMA HandlesCall ==
  ASSUME BInv, listener = "handling"
  PROVE  handling.tool \in Tools
<1>1. handling \in Notification
  BY DEF BInv, ListenerInv, IInv, TypeOK
<1> QED
  BY <1>1 DEF Notification

LEMMA BInvInit == BatchInit => BInv
<1> SUFFICES ASSUME BatchInit PROVE BInv
  OBVIOUS
<1>1. IInv
  BY InitIInv DEF BatchInit
<1>2. ListenerInv /\ CallbackAgrees /\ InFlightAccounted /\ DebtAccounted
  BY DEF BatchInit, Init, ListenerInv, CallbackAgrees, InFlightAccounted, DebtAccounted, NoTool
<1>3. callBatch \in [Tools -> 0 .. MaxResponses] /\ requests \in [0 .. MaxResponses -> Nat]
      /\ responses \in 0 .. MaxResponses /\ transcripts \in 0 .. MaxTranscripts
  BY BatchBoundsAssumption DEF BatchInit
<1>4. BatchTypeOK
  BY <1>1, <1>3 DEF BatchInit, BatchTypeOK, IInv
<1> QED
  BY <1>1, <1>2, <1>4 DEF BInv

\* The steps of the session alone, of the callback, and of the manager.
LEMMA BatchTypeStep ==
  ASSUME BInv, [BatchNext]_allVars
  PROVE  BatchTypeOK'
<1>0. TypeOK'
  BY ManagerInv
<1> USE DEF BInv, BatchTypeOK
<1>1. CASE ManagerStep \/ TakeResult \/ DropResult \/ SendImage \/ UNCHANGED allVars
  BY <1>0, <1>1 DEF ManagerStep, TakeResult, DropResult, SendImage, Alone, Abandons, batchVars, serverVars,
     histVars, callHist, sessVars, allVars
<1>2. CASE ResponseCreated \/ ResponseDone \/ ForceDone \/ Transcript
  <2>1. CASE ResponseCreated
    <3>1. responses' \in 0 .. MaxResponses
      BY <2>1, BatchBoundsAssumption DEF ResponseCreated
    <3> QED
      BY <1>0, <2>1, <3>1 DEF ResponseCreated, batchVars, histVars, callHist
  <2>2. CASE ResponseDone \/ ForceDone
    BY <1>0, <2>2 DEF ResponseDone, ForceDone, SetRespDone, batchVars, serverVars, histVars, callHist
  <2>3. CASE Transcript
    <3>1. transcripts' \in 0 .. MaxTranscripts
      BY <2>3, BatchBoundsAssumption DEF Transcript
    <3> QED
      BY <1>0, <2>3, <3>1 DEF Transcript, histVars, callHist, sessVars
  <2> QED
    BY <1>2, <2>1, <2>2, <2>3
<1>3. ASSUME NEW t \in Tools, FunctionCall(t) \/ IdleCall(t) PROVE BatchTypeOK'
  BY <1>0, <1>3 DEF FunctionCall, IdleCall, batchVars, serverVars, histVars, callHist, sessVars
<1>4. CASE Begin
  BY <1>0, <1>4 DEF Begin, Abandons, batchVars, serverVars, histVars, callHist
<1>5. CASE Send
  <2>1. handling.tool \in Tools
    BY <1>5, HandlesCall DEF Send, CallbackAgrees
  <2> QED
    BY <1>0, <1>5, <2>1 DEF Send, Abandons, batchVars, serverVars, histVars, callHist
<1>6. CASE Conclude
  <2>1. handling.tool \in Tools
    BY <1>6, HandlesCall DEF Conclude, CallbackReturns
  <2>2. requests' \in [0 .. MaxResponses -> Nat]
    BY <1>6, <2>1 DEF Conclude
  <2>3. needs' \in BOOLEAN /\ inFlight' \subseteq Tools /\ resultIn' \subseteq Tools
    BY <1>6, <2>1 DEF Conclude
  <2> QED
    BY <1>0, <1>6, <2>2, <2>3 DEF Conclude, serverVars
<1>7. CASE WriteFails \/ LookupFails
  <2>1. handling.tool \in Tools
    BY <1>7, HandlesCall DEF WriteFails, LookupFails, CallbackAgrees, CallbackRaises
  <2> QED
    BY <1>0, <1>7, <2>1 DEF WriteFails, LookupFails, Abandons, batchVars, serverVars, callHist
<1>8. CASE OpenSession \/ LoseSession
  BY <1>0, <1>8 DEF OpenSession, LoseSession, batchVars, serverVars, histVars, callHist, sessVars
<1>9. ASSUME NEW c \in Callers, BeginShutdown(c) \/ EndShutdown(c) PROVE BatchTypeOK'
  BY <1>0, <1>9 DEF BeginShutdown, EndShutdown, Abandons, batchVars, serverVars, histVars, callHist
<1> QED
  BY <1>1, <1>2, <1>3, <1>4, <1>5, <1>6, <1>7, <1>8, <1>9 DEF BatchNext, Callback

LEMMA CallbackStep ==
  ASSUME BInv, [BatchNext]_allVars
  PROVE  CallbackAgrees'
<1> USE DEF BInv, CallbackAgrees
<1>1. CASE UNCHANGED <<listener, cb>>
  BY <1>1
<1>2. CASE ManagerStep \/ ResponseCreated \/ Transcript \/ LoseSession \/ UNCHANGED allVars
  <2>1. UNCHANGED <<listener, cb>>
    BY <1>2 DEF ManagerStep, FirstStep, Finish, CancelTool, Age, CleanupTick, Alone, ResponseCreated,
       Transcript, LoseSession, SessionEnds, vars, listenVars, sessVars, allVars
  <2> QED
    BY <1>1, <2>1
<1>3. ASSUME NEW t \in Tools, FunctionCall(t) \/ IdleCall(t) PROVE CallbackAgrees'
  <2>1. UNCHANGED <<listener, cb>>
    BY <1>3 DEF FunctionCall, IdleCall, StartTool, listenVars, sessVars
  <2> QED
    BY <1>1, <2>1
<1>4. CASE ResponseDone \/ ForceDone
  BY <1>4 DEF ResponseDone, ForceDone, SetRespDone, vars
<1>5. CASE TakeResult
  BY <1>5 DEF TakeResult, ListenerTake
<1>6. CASE Begin \/ Send \/ Conclude
  BY <1>6 DEF Begin, Send, Conclude, CallbackReturns, vars
<1>7. CASE DropResult \/ SendImage
  BY <1>7 DEF DropResult, SendImage, vars
<1>8. CASE WriteFails \/ LookupFails
  BY <1>8 DEF WriteFails, LookupFails, CallbackReturns, CallbackRaises
<1>9. CASE OpenSession
  BY <1>9 DEF OpenSession, StartUp, ListenerInv
<1>10. ASSUME NEW c \in Callers, BeginShutdown(c) PROVE CallbackAgrees'
  <2>1. /\ listener' = (IF lifecycle /\ listener # "failed" THEN "off" ELSE listener)
        /\ cb' = IF listener' = "off" THEN "none" ELSE cb
    BY <1>10 DEF BeginShutdown, ShutdownCancelsListener
  <2> QED
    BY <2>1
<1>11. ASSUME NEW c \in Callers, EndShutdown(c) PROVE CallbackAgrees'
  BY <1>11 DEF EndShutdown, ShutdownCancelsTools, listenVars
<1> QED
  BY <1>2, <1>3, <1>4, <1>5, <1>6, <1>7, <1>8, <1>9, <1>10, <1>11 DEF BatchNext, Callback

\* A call stays coming until its task dies or the callback it is in ends.
LEMMA ComingStep ==
  ASSUME IInv, ListenerInv, [Next]_vars, NEW t \in Tools, Coming(t)
  PROVE  \/ Coming(t)'
         \/ task[t] # "dead" /\ task'[t] = "dead"
         \/ handling # NoTool /\ handling.tool = t /\ handling' = NoTool
<1> USE DEF IInv, TypeOK
<1>1. CASE UNCHANGED <<task, queue, handling>>
  BY <1>1 DEF Coming, Queued
<1>2. ASSUME NEW u \in Tools, StartTool(u) \/ FirstStep(u)
      PROVE  Coming(t)' \/ (task[t] # "dead" /\ task'[t] = "dead")
  <2>1. /\ UNCHANGED <<queue, handling>>
        /\ \E x \in {"scheduled", "executing", "dead"} : task' = [task EXCEPT ![u] = x]
        /\ task[u] # "dead" \/ task' = [task EXCEPT ![u] = "scheduled"]
    BY <1>2 DEF StartTool, FirstStep, listenVars
  <2> QED
    BY <2>1 DEF Coming, Queued
<1>3. ASSUME NEW u \in Tools, Finish(u) PROVE Coming(t)'
  <2>1. PICK s \in Outcomes(u) : queue' = Append(queue, [tool |-> u, status |-> s])
    BY <1>3 DEF Finish
  <2>2. task' = [task EXCEPT ![u] = "done"] /\ handling' = handling
    BY <1>3 DEF Finish, listenVars
  <2>3. \A i \in DOMAIN queue : i \in DOMAIN queue' /\ queue'[i] = queue[i]
    BY <2>1
  <2>4. Len(queue) + 1 \in DOMAIN queue' /\ queue'[Len(queue) + 1].tool = u
    BY <2>1
  <2> QED
    BY <2>1, <2>2, <2>3, <2>4 DEF Coming, Queued
<1>4. CASE ListenerTake
  <2>1. /\ handling = NoTool /\ handling' = Head(queue) /\ queue' = Tail(queue)
        /\ queue # <<>> /\ task' = task
    BY <1>4 DEF ListenerTake, ListenerInv, callVars
  <2>2. Head(queue) \in Notification /\ Head(queue) = queue[1]
    BY <2>1, HeadIsNotification
  <2>3. handling' # NoTool
    BY <2>1, <2>2 DEF Notification, NoTool, Terminal
  <2>4. ASSUME Queued(t) PROVE Coming(t)'
    <3>1. PICK i \in DOMAIN queue : queue[i].tool = t
      BY <2>4 DEF Queued
    <3>2. CASE i = 1
      BY <2>1, <2>2, <2>3, <3>1, <3>2 DEF Coming
    <3>3. CASE i # 1
      <4>1. i - 1 \in DOMAIN Tail(queue) /\ Tail(queue)[i - 1] = queue[i]
        BY <2>1, <3>3
      <4> QED
        BY <2>1, <3>1, <4>1 DEF Coming, Queued
    <3> QED
      BY <3>2, <3>3
  <2> QED
    BY <2>1, <2>4 DEF Coming
<1>5. ASSUME UNCHANGED <<task, queue>>, handling' \in {handling, NoTool}
      PROVE  Coming(t)' \/ (handling # NoTool /\ handling.tool = t /\ handling' = NoTool)
  BY <1>5 DEF Coming, Queued
<1>6. CASE CallbackReturns \/ CallbackRaises
  BY <1>5, <1>6 DEF CallbackReturns, CallbackRaises, callVars
<1>7. ASSUME NEW c \in Callers, ShutdownCancelsListener(c)
      PROVE  Coming(t)' \/ (handling # NoTool /\ handling.tool = t /\ handling' = NoTool)
  BY <1>5, <1>7 DEF ShutdownCancelsListener, callVars
<1>8. ASSUME \/ \E u \in Tools : CancelTool(u) \/ Age(u)
             \/ CleanupTick \/ StartUp \/ SessionEnds \/ UNCHANGED vars
             \/ \E c \in Callers : ShutdownCancelsTools(c)
      PROVE  UNCHANGED <<task, queue, handling>>
  BY <1>8 DEF CancelTool, Age, CleanupTick, StartUp, SessionEnds, ShutdownCancelsTools, vars, callVars,
     listenVars
<1> QED
  BY <1>1, <1>2, <1>3, <1>4, <1>6, <1>7, <1>8 DEF Next, CallStep

\* The calls whose task dies, or whose callback ends, are abandoned or no longer in
\* flight, and no call joins those in flight.
Kept ==
  /\ inFlight' \subseteq inFlight /\ abandoned \subseteq abandoned'
  /\ \A t \in inFlight' : task[t] # "dead" /\ task'[t] = "dead" => t \in abandoned'
  /\ handling # NoTool /\ handling' = NoTool =>
       handling.tool \notin inFlight' \/ handling.tool \in abandoned'

LEMMA KeptStep ==
  ASSUME BInv, [BatchNext]_allVars, Kept
  PROVE  InFlightAccounted'
<1> SUFFICES ASSUME NEW t \in inFlight' PROVE Coming(t)' \/ t \in abandoned'
  BY DEF InFlightAccounted
<1>1. t \in Tools /\ t \in inFlight
  BY DEF BInv, BatchTypeOK, Kept
<1>2. CASE t \in abandoned
  BY <1>2 DEF Kept
<1>3. CASE Coming(t)
  <2>1. [Next]_vars /\ IInv /\ ListenerInv
    BY StepIsManagerStep DEF BInv
  <2> QED
    BY <1>1, <1>3, <2>1, ComingStep DEF Kept
<1> QED
  BY <1>1, <1>2, <1>3 DEF BInv, InFlightAccounted

LEMMA AccountedStep ==
  ASSUME BInv, [BatchNext]_allVars
  PROVE  InFlightAccounted' /\ DebtAccounted'
<1>1. Kept => InFlightAccounted'
  BY KeptStep
<1>2. ASSUME UNCHANGED batchVars, abandoned \subseteq abandoned' PROVE DebtAccounted'
  BY <1>2 DEF BInv, DebtAccounted, batchVars
<1>3. CASE ManagerStep
  <2>1. UNCHANGED <<batchVars, handling>> /\ Abandons({t \in Tools : task[t] # "dead" /\ task'[t] = "dead"})
    BY <1>3 DEF ManagerStep, Alone, FirstStep, Finish, CancelTool, Age, CleanupTick, listenVars
  <2>2. Kept
    BY <2>1 DEF Kept, Abandons, batchVars, BInv, BatchTypeOK
  <2>3. abandoned \subseteq abandoned'
    BY <2>1 DEF Abandons
  <2> QED
    BY <1>1, <1>2, <2>1, <2>2, <2>3
<1>4. CASE \/ ResponseCreated \/ ResponseDone \/ ForceDone \/ DropResult \/ SendImage
          \/ TakeResult \/ OpenSession \/ LoseSession \/ UNCHANGED allVars
          \/ \E c \in Callers : EndShutdown(c)
  <2>1. UNCHANGED <<batchVars, abandoned, task>>
    BY <1>4 DEF ResponseCreated, ResponseDone, ForceDone, DropResult, SendImage, TakeResult,
       ListenerTake, OpenSession, StartUp, LoseSession, SessionEnds, EndShutdown, ShutdownCancelsTools,
       allVars, vars, callVars, histVars
  <2>2. handling' = handling \/ ListenerTake
    BY <1>4 DEF ResponseCreated, ResponseDone, ForceDone, DropResult, SendImage, TakeResult,
       OpenSession, StartUp, LoseSession, SessionEnds, EndShutdown, ShutdownCancelsTools,
       allVars, vars, listenVars
  <2>3. ListenerTake => handling = NoTool
    BY DEF ListenerTake, BInv, ListenerInv
  <2>4. Kept
    BY <2>1, <2>2, <2>3 DEF Kept, batchVars
  <2> QED
    BY <1>1, <1>2, <2>1, <2>4
<1>5. CASE Begin \/ Send \/ WriteFails
  <2>1. /\ UNCHANGED <<batchVars, task>>
        /\ UNCHANGED <<handling, abandoned>> \/ Abandons({handling.tool})
    BY <1>5 DEF Begin, Send, WriteFails, CallbackReturns, CallbackRaises, vars, callVars
  <2>2. Kept /\ abandoned \subseteq abandoned'
    BY <2>1 DEF Kept, Abandons, batchVars
  <2> QED
    BY <1>1, <1>2, <2>1, <2>2
<1>6. ASSUME NEW c \in Callers, BeginShutdown(c) PROVE InFlightAccounted' /\ DebtAccounted'
  <2>1. /\ UNCHANGED <<batchVars, task>>
        /\ Abandons(IF handling' = NoTool THEN {handling.tool} ELSE {})
    BY <1>6 DEF BeginShutdown, ShutdownCancelsListener, callVars
  <2>2. Kept /\ abandoned \subseteq abandoned'
    BY <2>1 DEF Kept, Abandons, batchVars
  <2> QED
    BY <1>1, <1>2, <2>1, <2>2
<1>7. CASE Conclude \/ LookupFails
  <2>1. /\ inFlight' = inFlight \ {handling.tool} /\ task' = task
        /\ abandoned \subseteq abandoned'
    BY <1>7 DEF Conclude, LookupFails, Abandons, CallbackReturns, CallbackRaises, callVars
  <2>2. Kept
    BY <2>1 DEF Kept
  <2>3. DebtAccounted'
    <3>1. CASE Conclude
      BY <3>1 DEF Conclude, DebtAccounted
    <3>2. CASE LookupFails
      BY <3>2 DEF LookupFails, Abandons, DebtAccounted, BInv
    <3> QED
      BY <1>7, <3>1, <3>2
  <2> QED
    BY <1>1, <2>2, <2>3
<1>8. CASE Transcript
  BY <1>8 DEF Transcript, InFlightAccounted, DebtAccounted
<1>9. ASSUME NEW t \in Tools, FunctionCall(t) \/ IdleCall(t)
      PROVE  InFlightAccounted' /\ DebtAccounted'
  <2>1. /\ task' = [task EXCEPT ![t] = "scheduled"]
        /\ UNCHANGED <<queue, handling, abandoned, needs>>
        /\ inFlight \subseteq inFlight' /\ inFlight' \subseteq inFlight \cup {t}
    BY <1>9 DEF FunctionCall, IdleCall, StartTool, listenVars, batchVars, histVars
  <2>2. inFlight \subseteq Tools /\ task \in [Tools -> TaskState]
    BY DEF BInv, BatchTypeOK, TypeOK
  <2>3. ASSUME NEW u \in inFlight' PROVE Coming(u)' \/ u \in abandoned'
    <3>1. CASE u = t
      BY <2>1, <2>2, <3>1 DEF Coming
    <3>2. CASE u # t
      <4>1. Coming(u) \/ u \in abandoned
        BY <2>1, <3>2 DEF BInv, InFlightAccounted
      <4> QED
        BY <2>1, <2>2, <3>2, <4>1 DEF Coming, Queued
    <3> QED
      BY <3>1, <3>2
  <2>4. DebtAccounted'
    BY <2>1 DEF BInv, DebtAccounted
  <2> QED
    BY <2>3, <2>4 DEF InFlightAccounted
<1> QED
  BY <1>3, <1>4, <1>5, <1>6, <1>7, <1>8, <1>9 DEF BatchNext, Callback

LEMMA BInvStep == BInv /\ [BatchNext]_allVars => BInv'
<1> SUFFICES ASSUME BInv, [BatchNext]_allVars PROVE BInv'
  OBVIOUS
<1> QED
  BY ManagerInv, BatchTypeStep, CallbackStep, AccountedStep DEF BInv

\* The variables keep their types in every session.
THEOREM BatchTypeCorrect == BatchSpec => []BatchTypeOK
<1>1. BInv => BatchTypeOK
  BY DEF BInv
<1> QED
  BY <1>1, BInvInit, BInvStep, PTL DEF BatchSpec

\* A response is owed only while a call in flight can still request it, or a result
\* of the turn was lost: for any calls, user turns, expired waits, failing dispatches
\* and look-ups, raising callbacks, and sessions after a teardown that raised.
THEOREM DebtHasDebtor == BatchSpec => []OwedMeansComing
<1>1. BInv => OwedMeansComing
  BY DEF BInv, InFlightAccounted, DebtAccounted, OwedMeansComing
<1> QED
  BY <1>1, BInvInit, BInvStep, PTL DEF BatchSpec

-----------------------------------------------------------------------------
(* One response for a batch *)

\* No user turn breaks into a batch, and nobody gives up waiting.
Undisturbed == MaxTranscripts = 0 /\ MayTimeOut = FALSE

\* The server's response b is over.
IsOver(b) == b < responses \/ (b = responses /\ ~active)

\* A call of a response is in flight until its result is in.
InFlightOrIn ==
  \A t \in Tools : callBatch[t] # 0 => t \in inFlight \cup resultIn

\* A result that is in was handed to a callback, and is not in one now.
InWasHandled ==
  /\ \A t \in resultIn : handled[t] # 0
  /\ cb # "none" => handling.tool \notin resultIn

\* A callback that goes on without waiting finds the response over.
DoneMeansOver ==
  /\ active => receiving
  /\ active /\ respDone => ~connected \/ listener \notin {"waiting", "handling"}

SentWhenOver ==
  cb \in {"send", "image", "finish"} =>
    callBatch[handling.tool] = 0 \/ IsOver(callBatch[handling.tool])

BatchesBehind == \A t \in Tools : callBatch[t] <= responses

\* A response was requested only for batches that are complete.
AnsweredIsComplete ==
  \A b \in 1 .. MaxResponses : requests[b] # 0 =>
    IsOver(b) /\ \A t \in Tools : callBatch[t] = b => t \in resultIn

Answering ==
  /\ InFlightOrIn
  /\ InWasHandled
  /\ DoneMeansOver
  /\ SentWhenOver
  /\ BatchesBehind
  /\ AnsweredIsComplete

\* Steps that change nothing a batch depends on.
LEMMA AnsweringFrame ==
  ASSUME Answering, UNCHANGED <<listener, handling, handled, receiving>>,
         UNCHANGED <<batchVars, serverVars, callHist, sessVars>>
  PROVE  Answering'
BY DEF Answering, InFlightOrIn, InWasHandled, DoneMeansOver, SentWhenOver, BatchesBehind,
   AnsweredIsComplete, IsOver, batchVars, serverVars, histVars, callHist, sessVars

\* The server's responses.
LEMMA ResponsesStep ==
  ASSUME BInv, Answering, Undisturbed, ResponseCreated \/ ResponseDone \/ ForceDone \/ Transcript
  PROVE  Answering'
<1>1. CASE ResponseCreated
  <2>1. /\ receiving /\ ~active /\ active' /\ responses' = responses + 1 /\ ~respDone'
        /\ UNCHANGED <<vars, batchVars, histVars, connected, cb>>
    BY <1>1 DEF ResponseCreated
  <2>2. /\ responses \in 0 .. MaxResponses /\ callBatch \in [Tools -> 0 .. MaxResponses]
        /\ MaxResponses \in Nat
    BY BatchBoundsAssumption DEF BInv, BatchTypeOK
  <2>3. ASSUME NEW b \in 0 .. MaxResponses, IsOver(b) PROVE IsOver(b)'
    BY <2>1, <2>2, <2>3 DEF IsOver
  <2>4. SentWhenOver'
    <3>1. SUFFICES ASSUME cb \in {"send", "image", "finish"}, callBatch[handling.tool] # 0
                   PROVE  IsOver(callBatch[handling.tool])'
      BY <2>1 DEF SentWhenOver, vars, histVars, callHist
    <3>2. handling.tool \in Tools
      BY <3>1, HandlesCall DEF BInv, CallbackAgrees
    <3>3. callBatch[handling.tool] \in 0 .. MaxResponses /\ callBatch' = callBatch /\ handling' = handling
      BY <2>1, <2>2, <3>2 DEF histVars, callHist, vars
    <3>4. IsOver(callBatch[handling.tool])
      BY <3>1 DEF Answering, SentWhenOver
    <3>5. callBatch[handling.tool] < responses'
      BY <2>1, <2>2, <3>3, <3>4 DEF IsOver
    <3> QED
      BY <3>3, <3>5 DEF IsOver
  <2>5. BatchesBehind'
    BY <2>1, <2>2 DEF Answering, BatchesBehind, histVars, callHist
  <2>6. AnsweredIsComplete'
    <3> SUFFICES ASSUME NEW b \in 1 .. MaxResponses, requests[b] # 0
                 PROVE  IsOver(b)' /\ \A t \in Tools : callBatch[t] = b => t \in resultIn
      BY <2>1 DEF AnsweredIsComplete, histVars, callHist
    <3>1. IsOver(b) /\ \A t \in Tools : callBatch[t] = b => t \in resultIn
      BY DEF Answering, AnsweredIsComplete
    <3> QED
      BY <2>2, <2>3, <3>1
  <2>7. InFlightOrIn' /\ InWasHandled' /\ DoneMeansOver'
    BY <2>1 DEF Answering, InFlightOrIn, InWasHandled, DoneMeansOver, vars, batchVars, histVars, callHist
  <2> QED
    BY <2>4, <2>5, <2>6, <2>7 DEF Answering
<1>2. CASE ResponseDone
  <2>1. /\ active /\ ~active' /\ UNCHANGED <<vars, batchVars, responses, histVars, connected>>
        /\ cb' = (IF cb = "waiting" THEN "send" ELSE cb)
    BY <1>2 DEF ResponseDone, SetRespDone
  <2>2. /\ responses \in 0 .. MaxResponses /\ callBatch \in [Tools -> 0 .. MaxResponses]
        /\ MaxResponses \in Nat
    BY BatchBoundsAssumption DEF BInv, BatchTypeOK
  <2>3. ASSUME NEW b \in 0 .. MaxResponses, b <= responses PROVE IsOver(b)'
    BY <2>1, <2>2, <2>3 DEF IsOver
  <2>4. SentWhenOver'
    <3>1. SUFFICES ASSUME cb' # "none" PROVE IsOver(callBatch[handling.tool])'
      BY <2>1 DEF SentWhenOver, vars, histVars, callHist
    <3>2. handling.tool \in Tools
      BY <2>1, <3>1, HandlesCall DEF BInv, CallbackAgrees
    <3>3. callBatch[handling.tool] \in 0 .. MaxResponses /\ callBatch[handling.tool] <= responses
      BY <2>2, <3>2 DEF Answering, BatchesBehind
    <3>4. callBatch' = callBatch /\ handling' = handling /\ responses' = responses /\ ~active'
      BY <2>1 DEF histVars, callHist, vars
    <3> QED
      BY <2>2, <3>3, <3>4 DEF IsOver
  <2>5. AnsweredIsComplete'
    <3> SUFFICES ASSUME NEW b \in 1 .. MaxResponses, requests[b] # 0
                 PROVE  IsOver(b)' /\ \A t \in Tools : callBatch[t] = b => t \in resultIn
      BY <2>1 DEF AnsweredIsComplete, histVars, callHist
    <3>1. IsOver(b) /\ \A t \in Tools : callBatch[t] = b => t \in resultIn
      BY DEF Answering, AnsweredIsComplete
    <3> QED
      BY <2>1, <3>1 DEF IsOver
  <2>6. InFlightOrIn' /\ InWasHandled' /\ DoneMeansOver' /\ BatchesBehind'
    BY <2>1 DEF Answering, InFlightOrIn, InWasHandled, DoneMeansOver, BatchesBehind, vars, batchVars, histVars, callHist
  <2> QED
    BY <2>4, <2>5, <2>6 DEF Answering
<1>3. ~ForceDone
  BY DEF ForceDone, Undisturbed
<1>4. ~Transcript
  BY BatchBoundsAssumption DEF Transcript, Undisturbed, BInv, BatchTypeOK
<1> QED
  BY <1>1, <1>2, <1>3, <1>4

\* A call joins the batch of the response that runs.
LEMMA FunctionCallStep ==
  ASSUME BInv, Answering, NEW t \in Tools, FunctionCall(t)
  PROVE  Answering'
<1>1. /\ active /\ status[t] = "absent" /\ inFlight' = inFlight \cup {t}
      /\ callBatch' = [callBatch EXCEPT ![t] = responses]
      /\ UNCHANGED <<serverVars, resultIn, requests, sessVars, listener, handling, handled, receiving>>
  BY DEF FunctionCall, StartTool, listenVars, sessionVars
<1>2. callBatch \in [Tools -> 0 .. MaxResponses] /\ responses \in 0 .. MaxResponses /\ MaxResponses \in Nat
  BY BatchBoundsAssumption DEF BInv, BatchTypeOK
<1>3. cb # "none" => handling.tool \in Tools /\ handling.tool # t
  <2> SUFFICES ASSUME cb # "none" PROVE handling.tool \in Tools /\ handling.tool # t
    OBVIOUS
  <2>1. handling # NoTool /\ handling \in Notification
    BY DEF BInv, CallbackAgrees, ListenerInv, IInv, TypeOK
  <2>2. status[handling.tool] \in {handling.status, "purged"}
    BY <2>1 DEF BInv, IInv, QueueMatchesRegistry
  <2>3. status[handling.tool] # "absent" /\ handling.tool \in Tools
    BY <2>1, <2>2 DEF Notification, Terminal
  <2> QED
    BY <1>1, <2>3
<1>4. InFlightOrIn'
  BY <1>1, <1>2 DEF Answering, InFlightOrIn
<1>5. InWasHandled' /\ DoneMeansOver'
  BY <1>1 DEF Answering, InWasHandled, DoneMeansOver, serverVars, sessVars
<1>6. SentWhenOver'
  <2> SUFFICES ASSUME cb \in {"send", "image", "finish"}
               PROVE  callBatch'[handling.tool] = 0 \/ IsOver(callBatch[handling.tool])
    BY <1>1, <1>2, <1>3 DEF SentWhenOver, IsOver, serverVars, sessVars
  <2>1. callBatch'[handling.tool] = callBatch[handling.tool]
    BY <1>1, <1>2, <1>3
  <2> QED
    BY <2>1 DEF Answering, SentWhenOver
<1>7. BatchesBehind'
  BY <1>1, <1>2 DEF Answering, BatchesBehind, serverVars
<1>8. AnsweredIsComplete'
  <2> SUFFICES ASSUME NEW b \in 1 .. MaxResponses, requests[b] # 0
               PROVE  IsOver(b) /\ \A u \in Tools : callBatch'[u] = b => u \in resultIn
    BY <1>1 DEF AnsweredIsComplete, IsOver, serverVars
  <2>1. IsOver(b) /\ \A u \in Tools : callBatch[u] = b => u \in resultIn
    BY DEF Answering, AnsweredIsComplete
  <2>2. b # responses
    BY <1>1, <1>2, <2>1 DEF IsOver
  <2> QED
    BY <1>1, <1>2, <2>1, <2>2
<1> QED
  BY <1>4, <1>5, <1>6, <1>7, <1>8 DEF Answering

\* The callback takes a notification nobody has handled.
LEMMA TakeResultStep ==
  ASSUME BInv, Answering, TakeResult
  PROVE  Answering'
<1>1. /\ listener = "waiting" /\ queue # <<>> /\ handling' = Head(queue) /\ listener' = "handling"
      /\ handled' = [handled EXCEPT ![Head(queue).tool] = @ + 1]
      /\ cb' = "begin" /\ receiving' = receiving
      /\ UNCHANGED <<batchVars, serverVars, histVars, connected, respDone>>
  BY DEF TakeResult, ListenerTake, sessionVars
<1>2. TypeOK
  BY DEF BInv, IInv
<1>3. Head(queue) = queue[1] /\ 1 \in DOMAIN queue /\ Head(queue).tool \in Tools
  <2>1. Head(queue) = queue[1] /\ Head(queue) \in Notification
    BY <1>1, <1>2, HeadIsNotification
  <2>2. 1 \in DOMAIN queue
    BY <1>1, <1>2 DEF TypeOK
  <2> QED
    BY <2>1, <2>2 DEF Notification
<1>4. handled[Head(queue).tool] = 0
  BY <1>3 DEF BInv, IInv, QueueMatchesRegistry
<1>5. InWasHandled'
  <2>1. \A t \in resultIn : handled'[t] # 0
    <3> SUFFICES ASSUME NEW t \in resultIn PROVE handled'[t] # 0
      OBVIOUS
    <3>1. t \in Tools /\ handled[t] # 0
      BY DEF Answering, InWasHandled, BInv, BatchTypeOK
    <3> QED
      BY <1>1, <1>2, <1>3, <1>4, <3>1 DEF TypeOK
  <2>2. Head(queue).tool \notin resultIn
    BY <1>4 DEF Answering, InWasHandled
  <2> QED
    BY <1>1, <2>1, <2>2 DEF InWasHandled, histVars, callHist
<1>6. InFlightOrIn' /\ DoneMeansOver' /\ BatchesBehind' /\ AnsweredIsComplete'
  BY <1>1 DEF Answering, InFlightOrIn, DoneMeansOver, BatchesBehind, AnsweredIsComplete, IsOver,
     batchVars, serverVars, histVars, callHist
<1>7. SentWhenOver'
  BY <1>1 DEF SentWhenOver
<1> QED
  BY <1>5, <1>6, <1>7 DEF Answering

\* It goes on at once only if the response that asked for the call is over.
LEMMA BeginStep ==
  ASSUME BInv, Answering, Begin
  PROVE  Answering'
<1>1. cb = "begin" /\ UNCHANGED <<batchVars, serverVars, callHist, connected, respDone>>
  BY DEF Begin
<1>2. CASE CallbackReturns /\ cb' = "none"
  BY <1>1, <1>2 DEF CallbackReturns, Answering, InFlightOrIn, InWasHandled, DoneMeansOver, SentWhenOver,
     BatchesBehind, AnsweredIsComplete, IsOver, batchVars, serverVars, callHist, sessionVars
<1>3. CASE /\ connected /\ UNCHANGED vars
           /\ cb' = CASE IdleToolCall(handling.tool) -> "finish"
                      [] respDone -> "send"
                      [] OTHER -> "waiting"
  <2>1. listener = "handling" /\ handling.tool \in Tools
    BY <1>1, HandlesCall DEF BInv, CallbackAgrees
  <2>2. cb' = "waiting" \/ callBatch[handling.tool] = 0 \/ respDone
    BY <1>3 DEF IdleToolCall
  <2>3. respDone => ~active
    BY <1>3, <2>1 DEF Answering, DoneMeansOver
  <2>4. /\ callBatch[handling.tool] \in 0 .. MaxResponses /\ callBatch[handling.tool] <= responses
        /\ responses \in 0 .. MaxResponses /\ MaxResponses \in Nat
    BY <2>1, BatchBoundsAssumption DEF BInv, BatchTypeOK, Answering, BatchesBehind
  <2>5. respDone => IsOver(callBatch[handling.tool])
    BY <2>3, <2>4 DEF IsOver
  <2>6. SentWhenOver'
    BY <1>1, <1>3, <2>2, <2>5 DEF SentWhenOver, IsOver, vars, serverVars, callHist
  <2>7. InFlightOrIn' /\ DoneMeansOver' /\ BatchesBehind' /\ AnsweredIsComplete'
    BY <1>1, <1>3 DEF Answering, InFlightOrIn, DoneMeansOver, BatchesBehind, AnsweredIsComplete, IsOver,
       vars, batchVars, serverVars, callHist
  <2>8. InWasHandled'
    BY <1>1, <1>3 DEF Answering, InWasHandled, vars, callHist
  <2> QED
    BY <2>6, <2>7, <2>8 DEF Answering
<1> QED
  BY <1>2, <1>3 DEF Begin

\* Sending, and failing to.
LEMMA SendStep ==
  ASSUME BInv, Answering, Send \/ SendImage \/ WriteFails
  PROVE  Answering'
<1>1. CASE UNCHANGED vars /\ cb \in {"send", "image"} /\ cb' \in {"image", "finish"}
           /\ UNCHANGED <<batchVars, serverVars, callBatch, resultIn, requests, connected, respDone>>
  BY <1>1 DEF Answering, InFlightOrIn, InWasHandled, DoneMeansOver, SentWhenOver, BatchesBehind,
     AnsweredIsComplete, IsOver, vars, batchVars, serverVars
<1>2. CASE (CallbackReturns \/ CallbackRaises) /\ cb' = "none" /\ UNCHANGED <<batchVars, serverVars, callHist>>
  <2>1. InFlightOrIn' /\ InWasHandled' /\ SentWhenOver' /\ BatchesBehind' /\ AnsweredIsComplete'
    BY <1>2 DEF CallbackReturns, CallbackRaises, Answering, InFlightOrIn, InWasHandled, SentWhenOver,
       BatchesBehind, AnsweredIsComplete, IsOver, batchVars, serverVars, callHist
  <2>2. receiving' = receiving /\ active' = active
    BY <1>2 DEF CallbackReturns, CallbackRaises, sessionVars, serverVars
  <2>3. ~connected' \/ listener' = "failed"
    <3>1. CASE Send
      BY <1>2, <3>1 DEF Send
    <3>2. CASE WriteFails
      BY <3>2 DEF WriteFails, CallbackRaises
    <3>3. CASE SendImage
      BY <1>2, <3>3 DEF SendImage
    <3> QED
      BY <3>1, <3>2, <3>3
  <2>4. DoneMeansOver'
    BY <2>2, <2>3 DEF Answering, DoneMeansOver
  <2> QED
    BY <2>1, <2>4 DEF Answering
<1>3. CASE Send
  BY <1>1, <1>2, <1>3 DEF Send
<1>4. CASE SendImage
  BY <1>1, <1>4 DEF SendImage, histVars, callHist
<1>5. CASE WriteFails
  BY <1>2, <1>5 DEF WriteFails
<1> QED
  BY <1>3, <1>4, <1>5

\* The result is in, and may complete its batch.
LEMMA ConcludeStep ==
  ASSUME BInv, Answering, Conclude
  PROVE  /\ Answering'
         /\ \A b \in 1 .. MaxResponses : requests'[b] # requests[b] =>
              requests[b] = 0 /\ \A t \in Tools : callBatch[t] = b => t \in resultIn'
<1> DEFINE u == handling.tool
<1>1. /\ cb = "finish" /\ cb' = "none" /\ listener = "handling" /\ listener' = "waiting"
      /\ inFlight' = inFlight \ {u} /\ resultIn' = resultIn \cup {u}
      /\ UNCHANGED <<serverVars, callBatch, connected, respDone, handled, receiving>>
      /\ requests' = requests \/ (inFlight' = {} /\ requests' = [requests EXCEPT ![callBatch[u]] = @ + 1])
  BY DEF Conclude, CallbackReturns, sessionVars
<1>2. u \in Tools /\ handled[u] # 0 /\ u \notin resultIn
  <2>1. handling # NoTool
    BY <1>1 DEF BInv, ListenerInv
  <2>2. handled[u] = 1
    BY <2>1 DEF BInv, IInv, QueueMatchesRegistry
  <2> QED
    BY <1>1, <2>2, HandlesCall DEF Answering, InWasHandled
<1>3. /\ callBatch \in [Tools -> 0 .. MaxResponses] /\ requests \in [0 .. MaxResponses -> Nat]
      /\ MaxResponses \in Nat
  BY BatchBoundsAssumption DEF BInv, BatchTypeOK
<1> HIDE DEF u
<1>4. InFlightOrIn'
  BY <1>1 DEF Answering, InFlightOrIn
<1>5. InWasHandled' /\ DoneMeansOver' /\ SentWhenOver' /\ BatchesBehind'
  BY <1>1, <1>2 DEF Answering, InWasHandled, DoneMeansOver, SentWhenOver, BatchesBehind, serverVars
<1>6. ASSUME NEW b \in 1 .. MaxResponses, requests'[b] # requests[b]
      PROVE  /\ b = callBatch[u] /\ requests[b] = 0
             /\ \A t \in Tools : callBatch[t] = b => t \in resultIn'
  <2>1. b = callBatch[u] /\ inFlight' = {}
    BY <1>1, <1>3, <1>6
  <2>2. requests[b] = 0
    BY <1>2, <2>1 DEF Answering, AnsweredIsComplete
  <2>3. ASSUME NEW t \in Tools, callBatch[t] = b PROVE t \in resultIn'
    <3>1. t \in inFlight \cup resultIn
      BY <1>1, <2>3 DEF Answering, InFlightOrIn
    <3> QED
      BY <1>1, <2>1, <3>1
  <2> QED
    BY <2>1, <2>2, <2>3
<1>7. AnsweredIsComplete'
  <2> SUFFICES ASSUME NEW b \in 1 .. MaxResponses, requests'[b] # 0
               PROVE  IsOver(b) /\ \A t \in Tools : callBatch[t] = b => t \in resultIn'
    BY <1>1 DEF AnsweredIsComplete, IsOver, serverVars
  <2>1. CASE requests'[b] = requests[b]
    BY <1>1, <2>1 DEF Answering, AnsweredIsComplete
  <2>2. CASE requests'[b] # requests[b]
    <3>1. callBatch[u] = 0 \/ IsOver(callBatch[u])
      BY <1>1 DEF Answering, SentWhenOver, u
    <3> QED
      BY <1>6, <2>2, <3>1
  <2> QED
    BY <2>1, <2>2
<1> QED
  BY <1>1, <1>4, <1>5, <1>6, <1>7 DEF Answering

\* Sessions that come and go, and a look-up that ends the listener.
LEMMA SessionStep ==
  ASSUME BInv, Answering,
         \/ LookupFails \/ OpenSession \/ LoseSession
         \/ \E c \in Callers : BeginShutdown(c) \/ EndShutdown(c)
  PROVE  Answering'
<1> USE DEF Answering, InFlightOrIn, InWasHandled, DoneMeansOver, SentWhenOver, BatchesBehind,
            AnsweredIsComplete, IsOver
<1>1. CASE LookupFails
  <2>1. /\ cb = "finish" /\ cb' = "none" /\ listener = "handling" /\ listener' = "failed"
        /\ inFlight' = inFlight \ {handling.tool} /\ resultIn' = resultIn \cup {handling.tool}
        /\ UNCHANGED <<serverVars, callBatch, requests, connected, respDone, handled, receiving>>
    BY <1>1 DEF LookupFails, CallbackRaises, sessionVars
  <2>2. handled[handling.tool] # 0
    BY <2>1 DEF BInv, ListenerInv, IInv, QueueMatchesRegistry
  <2> QED
    BY <2>1, <2>2 DEF serverVars
<1>2. CASE OpenSession
  <2>1. /\ ~receiving /\ listener' = "waiting"
        /\ UNCHANGED <<handling, handled, batchVars, serverVars, histVars, respDone, cb>>
    BY <1>2 DEF OpenSession, StartUp
  <2> QED
    BY <2>1 DEF batchVars, serverVars, histVars, callHist
<1>3. CASE LoseSession
  <2>1. /\ ~active' /\ ~receiving'
        /\ UNCHANGED <<listener, handling, handled, batchVars, responses, histVars, sessVars>>
    BY <1>3 DEF LoseSession, SessionEnds, listenVars
  <2>2. \A b \in 0 .. MaxResponses : b <= responses => IsOver(b)'
    <3>1. responses \in 0 .. MaxResponses /\ MaxResponses \in Nat
      BY BatchBoundsAssumption DEF BInv, BatchTypeOK
    <3> QED
      BY <2>1, <3>1
  <2>3. SentWhenOver'
    <3> SUFFICES ASSUME cb \in {"send", "image", "finish"}
                 PROVE  IsOver(callBatch[handling.tool])'
      BY <2>1 DEF sessVars, histVars, callHist
    <3>1. handling.tool \in Tools
      BY HandlesCall DEF BInv, CallbackAgrees
    <3>2. callBatch[handling.tool] \in 0 .. MaxResponses /\ callBatch[handling.tool] <= responses
      BY <3>1 DEF BInv, BatchTypeOK
    <3>3. UNCHANGED <<callBatch, handling>>
      BY <2>1 DEF histVars, callHist
    <3> QED
      BY <2>2, <3>2, <3>3
  <2>4. AnsweredIsComplete'
    <3> SUFFICES ASSUME NEW b \in 1 .. MaxResponses, requests[b] # 0
                 PROVE  IsOver(b)' /\ \A t \in Tools : callBatch[t] = b => t \in resultIn
      BY <2>1 DEF histVars, callHist
    <3>1. IsOver(b) /\ \A t \in Tools : callBatch[t] = b => t \in resultIn
      OBVIOUS
    <3> QED
      BY <2>1, <3>1
  <2>5. InFlightOrIn' /\ InWasHandled' /\ DoneMeansOver' /\ BatchesBehind'
    BY <2>1 DEF batchVars, histVars, callHist, sessVars
  <2> QED
    BY <2>3, <2>4, <2>5
<1>4. ASSUME NEW c \in Callers, BeginShutdown(c) PROVE Answering'
  <2>1. /\ cb' = (IF listener' = "off" THEN "none" ELSE cb)
        /\ \/ listener' = "off" /\ listener # "failed" /\ handling' = NoTool
           \/ UNCHANGED <<listener, handling>> /\ (~lifecycle \/ listener = "failed")
        /\ UNCHANGED <<handled, receiving, batchVars, serverVars, callHist, connected>>
    BY <1>4 DEF BeginShutdown, ShutdownCancelsListener
  <2>2. CASE listener' = "off"
    BY <2>1, <2>2 DEF BInv, BatchTypeOK, batchVars, serverVars, histVars, callHist
  <2>3. CASE UNCHANGED <<listener, handling>> /\ (~lifecycle \/ listener = "failed") /\ listener' # "off"
    <3>1. listener \notin {"waiting", "handling"}
      BY <2>3 DEF BInv, ListenerInv
    <3> QED
      BY <2>1, <2>3, <3>1 DEF batchVars, serverVars, histVars, callHist
  <2> QED
    BY <2>1, <2>2, <2>3
<1>5. ASSUME NEW c \in Callers, EndShutdown(c) PROVE Answering'
  <2>1. /\ UNCHANGED <<listener, handling, handled, receiving, batchVars, serverVars, histVars, respDone, cb>>
        /\ connected' => connected
    BY <1>5 DEF EndShutdown, ShutdownCancelsTools, listenVars
  <2> QED
    BY <2>1 DEF batchVars, serverVars, histVars, callHist
<1> QED
  BY <1>1, <1>2, <1>3, <1>4, <1>5

LEMMA AnsweringStep ==
  ASSUME BInv, Answering, Undisturbed, [BatchNext]_allVars
  PROVE  Answering'
<1>1. CASE ManagerStep \/ UNCHANGED allVars
  <2>1. /\ UNCHANGED <<listener, handling, handled, receiving>>
        /\ UNCHANGED <<batchVars, serverVars, callHist, sessVars>>
    BY <1>1 DEF ManagerStep, FirstStep, Finish, CancelTool, Age, CleanupTick, Alone,
       listenVars, sessionVars, allVars, vars, histVars
  <2> QED
    BY <2>1, AnsweringFrame
<1>2. ASSUME NEW t \in Tools, IdleCall(t) PROVE Answering'
  <2>1. /\ UNCHANGED <<listener, handling, handled, receiving>>
        /\ UNCHANGED <<batchVars, serverVars, callHist, sessVars>>
    BY <1>2 DEF IdleCall, StartTool, listenVars, sessionVars, histVars
  <2> QED
    BY <2>1, AnsweringFrame
<1>3. ~DropResult
  BY DEF DropResult, Undisturbed
<1> QED
  BY <1>1, <1>2, <1>3, ResponsesStep, FunctionCallStep, TakeResultStep, BeginStep, SendStep,
     ConcludeStep, SessionStep
  DEF BatchNext, Callback

\* Only the end of a callback requests a response.
LEMMA OnlyConcludeRequests == [BatchNext]_allVars => Conclude \/ UNCHANGED requests
BY DEF BatchNext, ManagerStep, Alone, ResponseCreated, ResponseDone, ForceDone, Transcript, FunctionCall,
   IdleCall, Callback, TakeResult, Begin, Send, SendImage, DropResult, WriteFails, LookupFails,
   OpenSession, LoseSession, BeginShutdown, EndShutdown, allVars, histVars, callHist

LEMMA RequestStep ==
  ASSUME BInv, Answering, [BatchNext]_allVars
  PROVE  \A b \in 1 .. MaxResponses : requests'[b] # requests[b] =>
           /\ requests[b] = 0
           /\ \A t \in Tools : callBatch[t] = b => t \in resultIn'
<1>1. CASE Conclude
  BY <1>1, ConcludeStep
<1>2. CASE UNCHANGED requests
  BY <1>2
<1> QED
  BY <1>1, <1>2, OnlyConcludeRequests

LEMMA InitAnswering == BatchInit => Answering
BY BatchBoundsAssumption DEF BatchInit, Init, Answering, InFlightOrIn, InWasHandled, DoneMeansOver,
   SentWhenOver, BatchesBehind, AnsweredIsComplete

\* "Parallel tool calls in one turn: respond once every result is in": for any
\* calls, sessions, failing dispatches and raising callbacks, as long as no user
\* turn breaks into a batch and no wait expires.
THEOREM OneResponsePerBatch ==
  ASSUME Undisturbed
  PROVE  BatchSpec => RespondOnceAllIn
<1>1. BInv /\ Answering /\ [BatchNext]_allVars => Answering'
  BY AnsweringStep
<1>2. BInv /\ Answering /\ [BatchNext]_allVars =>
        [\A b \in 1 .. MaxResponses :
           requests'[b] # requests[b] =>
             /\ requests[b] = 0
             /\ \A t \in Tools : callBatch[t] = b => t \in resultIn']_allVars
  BY RequestStep
<1> QED
  BY <1>1, <1>2, BInvInit, BInvStep, InitAnswering, PTL DEF BatchSpec, RespondOnceAllIn
===============================================================================
