------------------------------ MODULE ToolBatch ------------------------------
(***************************************************************************)
(* The tool calls of a realtime session (huggingface_realtime.py) over     *)
(* BackgroundTools: the receive loop starts the calls of a response, the   *)
(* listener's callback _handle_tool_result sends each result to the model, *)
(* and one response is requested when the last result of the batch is in.  *)
(* The events of the server arrive in any order the protocol allows; in    *)
(* particular the transcript of a user turn arrives when it is ready.      *)
(***************************************************************************)
EXTENDS BackgroundTools

CONSTANTS
  QuietTools,      \* calls of tools with needs_response = False
  CameraTools,     \* calls whose result carries an image
  IdleTools,       \* calls the idle policy may start as well as the model
  MaxResponses,    \* bound: responses of the server
  MaxTranscripts,  \* bound: user transcripts
  MayTimeOut       \* whether the 30 s waits can expire

ASSUME KindsAssumption ==
  QuietTools \subseteq Tools /\ CameraTools \subseteq Tools /\ IdleTools \subseteq Tools
ASSUME BatchBoundsAssumption == MaxResponses \in Nat /\ MaxTranscripts \in Nat
ASSUME MayTimeOutAssumption == MayTimeOut \in BOOLEAN

VARIABLES
  connected,    \* self.connection is not None
  inFlight,     \* _in_flight_tool_calls
  needs,        \* _tool_batch_needs_response
  respDone,     \* _response_done_event
  cb,           \* where the callback is
  active,       \* the server runs a response
  responses,    \* responses the server has opened
  transcripts,  \* user transcripts received
  \* history
  callBatch,    \* the response that issued a call (0: none)
  sent,         \* calls whose result was sent to the model
  resultIn,     \* calls whose result is in
  requests,     \* responses requested for the calls of each response
  abandoned     \* calls in flight whose result was lost since the last user turn

batchVars == <<inFlight, needs>>
serverVars == <<active, responses, transcripts>>
callHist == <<callBatch, sent, resultIn, requests>>
histVars == <<callHist, abandoned>>
sessVars == <<connected, respDone, cb>>
allVars == <<vars, batchVars, serverVars, histVars, sessVars>>

BatchTypeOK ==
  /\ TypeOK
  /\ connected \in BOOLEAN /\ respDone \in BOOLEAN /\ active \in BOOLEAN /\ needs \in BOOLEAN
  /\ inFlight \subseteq Tools /\ sent \subseteq Tools /\ resultIn \subseteq Tools
  /\ abandoned \subseteq Tools
  /\ cb \in {"none", "begin", "waiting", "send", "image", "finish"}
  /\ responses \in 0 .. MaxResponses
  /\ transcripts \in 0 .. MaxTranscripts
  /\ callBatch \in [Tools -> 0 .. MaxResponses]
  /\ requests \in [0 .. MaxResponses -> Nat]

BatchInit ==
  /\ Init
  /\ connected = FALSE /\ respDone = TRUE /\ cb = "none"
  /\ inFlight = {} /\ needs = FALSE
  /\ active = FALSE /\ responses = 0 /\ transcripts = 0
  /\ callBatch = [t \in Tools |-> 0]
  /\ sent = {} /\ resultIn = {} /\ abandoned = {}
  /\ requests = [b \in 0 .. MaxResponses |-> 0]

\* History: the results of these calls are lost.  One that is in flight stays there
\* until the next user turn: nothing but its own callback takes it out.
Abandons(S) == abandoned' = abandoned \cup (S \cap inFlight)

-----------------------------------------------------------------------------
(* The receive loop *)

ResponseCreated ==
  /\ receiving /\ ~active
  /\ responses < MaxResponses
  /\ active' = TRUE
  /\ responses' = responses + 1
  /\ respDone' = FALSE
  /\ UNCHANGED <<vars, batchVars, transcripts, histVars, connected, cb>>

\* Setting the event lets a callback that waits for it go on.
SetRespDone == respDone' = TRUE /\ cb' = (IF cb = "waiting" THEN "send" ELSE cb)

ResponseDone ==
  /\ receiving /\ active
  /\ active' = FALSE
  /\ SetRespDone
  /\ UNCHANGED <<vars, batchVars, responses, transcripts, histVars, connected>>

\* A wait of the response sender expires: it declares the response done.
ForceDone ==
  /\ MayTimeOut /\ receiving
  /\ ~respDone
  /\ SetRespDone
  /\ UNCHANGED <<vars, batchVars, serverVars, histVars, connected>>

\* response.function_call_arguments.done of the active response.
FunctionCall(t) ==
  /\ active
  /\ StartTool(t)
  /\ inFlight' = inFlight \cup {t}
  /\ callBatch' = [callBatch EXCEPT ![t] = responses]
  /\ UNCHANGED <<needs, serverVars, sent, resultIn, requests, abandoned, sessVars>>

\* emit starts an idle tool; its result is not for the model.
IdleCall(t) ==
  /\ t \in IdleTools
  /\ connected
  /\ StartTool(t)
  /\ UNCHANGED <<batchVars, serverVars, histVars, sessVars>>

\* Mutant: the batch flag is not reset with the batch.
TranscriptKeepsNeeds ==
  /\ receiving
  /\ transcripts < MaxTranscripts
  /\ transcripts' = transcripts + 1
  /\ inFlight' = {} /\ abandoned' = {}
  /\ UNCHANGED <<vars, needs, active, responses, callHist, sessVars>>

\* input_audio_transcription.completed with a non-empty transcript.
Transcript ==
  /\ receiving
  /\ transcripts < MaxTranscripts
  /\ transcripts' = transcripts + 1
  /\ inFlight' = {} /\ abandoned' = {}
  /\ needs' = FALSE
  /\ UNCHANGED <<vars, active, responses, callHist, sessVars>>

-----------------------------------------------------------------------------
(* The callback: _handle_tool_result *)

TakeResult ==
  /\ ListenerTake
  /\ cb' = "begin"
  /\ UNCHANGED <<batchVars, serverVars, histVars, connected, respDone>>

\* is_idle_tool_call: no response asked for the call.
IdleToolCall(t) == callBatch[t] = 0

\* Mutant: a result does not wait for the response that asked for it.
BeginAtOnce ==
  /\ cb = "begin"
  /\ \/ /\ ~connected
        /\ CallbackReturns
        /\ cb' = "none"
        /\ Abandons({handling.tool})
     \/ /\ connected
        /\ cb' = IF IdleToolCall(handling.tool) THEN "finish" ELSE "send"
        /\ UNCHANGED <<vars, abandoned>>
  /\ UNCHANGED <<batchVars, serverVars, callHist, connected, respDone>>

\* Nothing is sent without a connection, and nothing of an idle call; the result
\* of another waits until the response that asked for it is done.
Begin ==
  /\ cb = "begin"
  /\ \/ /\ ~connected
        /\ CallbackReturns
        /\ cb' = "none"
        /\ Abandons({handling.tool})
     \/ /\ connected
        /\ cb' = CASE IdleToolCall(handling.tool) -> "finish"
                   [] respDone -> "send"
                   [] OTHER -> "waiting"
        /\ UNCHANGED <<vars, abandoned>>
  /\ UNCHANGED <<batchVars, serverVars, callHist, connected, respDone>>

\* The wait expires: the result is dropped, but counts as in.
DropResult ==
  /\ MayTimeOut
  /\ cb = "waiting"
  /\ cb' = "finish"
  /\ UNCHANGED <<vars, batchVars, serverVars, histVars, connected, respDone>>

\* A write fails: ConnectionClosedError forgets the connection and releases the
\* sender, any other exception (a clean close among them) ends the listener.
WriteFails ==
  /\ cb \in {"send", "image"}
  /\ cb' = "none"
  /\ Abandons({handling.tool})
  /\ \/ /\ connected
        /\ CallbackReturns
        /\ connected' = FALSE
        /\ respDone' = TRUE
     \/ /\ CallbackRaises
        /\ UNCHANGED <<connected, respDone>>
  /\ UNCHANGED <<batchVars, serverVars, callHist>>

\* The function_call_output item, then the image item of a camera result.
Send ==
  /\ cb = "send"
  /\ \/ /\ ~connected
        /\ CallbackReturns
        /\ cb' = "none"
        /\ Abandons({handling.tool})
        /\ UNCHANGED callHist
     \/ /\ connected
        /\ sent' = sent \cup {handling.tool}
        /\ cb' = IF handling.tool \in CameraTools /\ handling.status = "COMPLETED"
                 THEN "image" ELSE "finish"
        /\ UNCHANGED <<vars, callBatch, resultIn, requests, abandoned>>
  /\ UNCHANGED <<batchVars, serverVars, connected, respDone>>

SendImage ==
  /\ cb = "image"
  /\ connected
  /\ cb' = "finish"
  /\ UNCHANGED <<vars, batchVars, serverVars, histVars, connected, respDone>>

\* Errors are always voiced, and so is the result of a tool that is gone from the
\* registry meanwhile; otherwise the tool decides.
WantsResponse(n, known) ==
  /\ n.tool \in sent
  /\ n.status \in {"FAILED", "CANCELLED"} \/ ~known \/ n.tool \notin QuietTools

\* Mutant: the last result requests the response only if it wants one itself.
ConcludeLastDecides ==
  /\ cb = "finish"
  /\ CallbackReturns
  /\ cb' = "none"
  /\ inFlight' = inFlight \ {handling.tool}
  /\ resultIn' = resultIn \cup {handling.tool}
  /\ \E known \in BOOLEAN :
     LET wants == WantsResponse(handling, known)
         requested == wants /\ inFlight' = {} IN
       /\ needs' = ((needs \/ wants) /\ ~requested)
       /\ requests' = IF requested
                      THEN [requests EXCEPT ![callBatch[handling.tool]] = @ + 1]
                      ELSE requests
  /\ UNCHANGED <<serverVars, callBatch, sent, abandoned, connected, respDone>>

\* The result is in; the last one of the batch requests the response.
Conclude ==
  /\ cb = "finish"
  /\ CallbackReturns
  /\ cb' = "none"
  /\ inFlight' = inFlight \ {handling.tool}
  /\ resultIn' = resultIn \cup {handling.tool}
  /\ \E known \in BOOLEAN :
     LET owed == needs \/ WantsResponse(handling, known) IN
       /\ needs' = (owed /\ inFlight' # {})
       /\ requests' = IF owed /\ inFlight' = {}
                      THEN [requests EXCEPT ![callBatch[handling.tool]] = @ + 1]
                      ELSE requests
  /\ UNCHANGED <<serverVars, callBatch, sent, abandoned, connected, respDone>>

\* get_tools() raises when the finished tool is looked up: the result is in, but
\* nobody asks whether a response is owed.
LookupFails ==
  /\ DispatchMayRaise
  /\ cb = "finish"
  /\ CallbackRaises
  /\ cb' = "none"
  /\ inFlight' = inFlight \ {handling.tool}
  /\ resultIn' = resultIn \cup {handling.tool}
  /\ Abandons({handling.tool})
  /\ UNCHANGED <<needs, serverVars, callBatch, sent, requests, connected, respDone>>

-----------------------------------------------------------------------------
(* Sessions *)

OpenSession ==
  /\ StartUp
  /\ connected' = TRUE
  /\ UNCHANGED <<batchVars, serverVars, histVars, respDone, cb>>

LoseSession ==
  /\ SessionEnds
  /\ active' = FALSE
  /\ UNCHANGED <<batchVars, responses, transcripts, histVars, sessVars>>

\* A shutdown cuts off the callback; the handler's own first sets the event.
BeginShutdown(c) ==
  /\ ShutdownCancelsListener(c)
  /\ cb' = IF listener' = "off" THEN "none" ELSE cb
  /\ respDone' = (respDone \/ c = "handler")
  /\ Abandons(IF handling' = NoTool THEN {handling.tool} ELSE {})
  /\ UNCHANGED <<batchVars, serverVars, callHist, connected>>

EndShutdown(c) ==
  /\ ShutdownCancelsTools(c)
  /\ connected' = (connected /\ c = "handler" /\ shutdownPc'[c] = "raised")
  /\ UNCHANGED <<batchVars, serverVars, histVars, respDone, cb>>

\* Steps of the tool manager alone.  A task that ends without a notification loses
\* its call's result.
Alone ==
  /\ Abandons({t \in Tools : task[t] # "dead" /\ task'[t] = "dead"})
  /\ UNCHANGED <<batchVars, serverVars, callHist, sessVars>>

ManagerStep ==
  /\ \/ \E t \in Tools : FirstStep(t) \/ Finish(t) \/ CancelTool(t) \/ Age(t)
     \/ CleanupTick
  /\ Alone

Callback == TakeResult \/ Begin \/ Send \/ SendImage \/ Conclude

BatchNext ==
  \/ ManagerStep
  \/ ResponseCreated \/ ResponseDone \/ ForceDone \/ Transcript
  \/ \E t \in Tools : FunctionCall(t) \/ IdleCall(t)
  \/ Callback \/ DropResult \/ WriteFails \/ LookupFails
  \/ OpenSession \/ LoseSession
  \/ \E c \in Callers : BeginShutdown(c) \/ EndShutdown(c)

BatchSpec == BatchInit /\ [][BatchNext]_allVars

\* As in BackgroundTools; besides, waits expire, the server ends its responses and
\* a connection a write found closed ends the receive loop.
BatchFairness ==
  /\ \A t \in Tools : /\ WF_allVars(FirstStep(t) /\ Alone)
                      /\ WF_allVars(cancelReq[t] /\ Finish(t) /\ Alone)
                      /\ WF_allVars(Age(t) /\ Alone)
  /\ WF_allVars(CleanupTick /\ Alone)
  /\ WF_allVars(Callback)
  /\ WF_allVars(DropResult)
  /\ WF_allVars(ForceDone)
  /\ WF_allVars(ResponseDone)
  /\ WF_allVars((shutdownPc["handler"] = "done" \/ ~connected) /\ LoseSession)
  /\ WF_allVars(BeginShutdown("session"))
  /\ \A c \in Callers : WF_allVars(EndShutdown(c))

BatchFairSpec == BatchSpec /\ BatchFairness

-----------------------------------------------------------------------------
(* Properties *)

\* "Parallel tool calls in one turn: respond once every result is in, not per
\* tool." (huggingface_realtime.py:688): for the calls of one response of the
\* server at most one response is requested, and not before all results are in.
RespondOnceAllIn ==
  [][\A b \in 1 .. MaxResponses :
       requests'[b] # requests[b] =>
         /\ requests[b] = 0
         /\ \A t \in Tools : callBatch[t] = b => t \in resultIn']_allVars

\* The result of a call can still reach the end of a callback.
Coming(t) ==
  \/ task[t] \in {"scheduled", "executing"}
  \/ Queued(t)
  \/ handling # NoTool /\ handling.tool = t

\* A response is owed only while a call is in flight whose result can still request
\* it, whatever turns, cancellations, expired waits and sessions (one whose teardown
\* raised among them) do meanwhile; the only debts nobody may settle before the next
\* user turn are those of a turn that lost a result: its dispatch failed, its
\* callback was cut off, or found no connection, or raised.
OwedMeansComing == needs => abandoned # {} \/ \E t \in inFlight : Coming(t)

\* A debt is settled: the response is requested, unless the user's next turn
\* supersedes it or the session ends.
BatchIsAnswered == needs ~> (~needs \/ ~receiving)
==============================================================================
