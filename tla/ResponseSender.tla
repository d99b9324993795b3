---------------------------- MODULE ResponseSender ----------------------------
(***************************************************************************)
(* The serial response sender of HuggingFaceRealtimeHandler                *)
(* (huggingface_realtime.py): callers add an item to the conversation and  *)
(* queue a request; one worker turns requests into response.create calls;  *)
(* the receive loop tells it, through two asyncio events and a flag, what  *)
(* the server made of them.  The server runs one response at a time,       *)
(* rejects a response.create while one is active, and also opens responses *)
(* of its own when its voice detection ends a user turn.                   *)
(*                                                                         *)
(* Every request the program queues has empty arguments, so the queue is a *)
(* count.  An asyncio waiter woken by Event.set() returns even if the      *)
(* event is cleared before it runs: "woken" keeps that.                    *)
(***************************************************************************)
EXTENDS Naturals, Sequences, FiniteSets

CONSTANTS
  Items,         \* conversation items whose submission asks for a response
  MaxRetries,    \* max_retries of _response_sender_loop
  MaxUserTurns,  \* bound: responses the server opens by itself
  MaxSessions,   \* bound: sessions
  MayTimeOut,    \* whether the 30 s waits can expire
  MayFail        \* whether the connection can fail

ASSUME ItemsAssumption == "create" \notin Items
ASSUME MaxRetriesAssumption == MaxRetries \in Nat \ {0}
ASSUME BoundsAssumption == MaxUserTurns \in Nat /\ MaxSessions \in Nat \ {0}
ASSUME SwitchesAssumption == MayTimeOut \in BOOLEAN /\ MayFail \in BOOLEAN

VARIABLES
  \* the handler
  connected,   \* self.connection is not None
  pending,     \* _pending_responses: how many requests it holds
  done,        \* _response_done_event
  started,     \* _response_started_or_rejected_event
  rejected,    \* _last_response_rejected
  pc,          \* where the worker is
  woken,       \* the event the worker waits for was set since it began to
  attempts,    \* the worker's rejected attempts for its request
  \* the server and the two directions of the connection
  toServer,    \* items and "create" calls on their way
  toClient,    \* events on their way
  active,      \* the server runs a response
  heard,       \* items in the conversation that no response has covered yet
  userTurns,   \* responses the server opened by itself
  receiving,   \* the session's receive loop runs
  sessions,    \* sessions opened so far
  \* history
  answered,    \* items a response created after them covers
  lost,        \* items of conversations that ended
  fate,        \* what the server did with the worker's last response.create
  faulty       \* a wait has expired or the connection has failed

clientVars == <<connected, pending, done, started, rejected, pc, woken, attempts>>
serverVars == <<toServer, toClient, active, heard, userTurns, answered>>
sessionVars == <<receiving, sessions, lost>>
histVars == <<fate, faulty>>
vars == <<clientVars, serverVars, sessionVars, histVars>>

Events == {"created", "done", "active_response", "other_error"}
Waits == {"waitDone", "waitStarted", "waitFinal"}

TypeOK ==
  /\ connected \in BOOLEAN
  /\ pending \in Nat
  /\ done \in BOOLEAN /\ started \in BOOLEAN /\ rejected \in BOOLEAN /\ woken \in BOOLEAN
  /\ pc \in {"off", "get", "sleep"} \cup Waits
  /\ attempts \in 0 .. MaxRetries
  /\ toServer \in Seq(Items \cup {"create"})
  /\ toClient \in Seq(Events)
  /\ active \in BOOLEAN
  /\ heard \subseteq Items /\ answered \subseteq Items /\ lost \subseteq Items
  /\ userTurns \in 0 .. MaxUserTurns
  /\ receiving \in BOOLEAN
  /\ sessions \in 0 .. MaxSessions
  /\ fate \in {"none", "sent", "accepted", "rejected", "failed"}
  /\ faulty \in BOOLEAN

Init ==
  /\ connected = FALSE /\ pending = 0
  /\ done = TRUE /\ started = FALSE /\ rejected = FALSE
  /\ pc = "off" /\ woken = FALSE /\ attempts = 0
  /\ toServer = <<>> /\ toClient = <<>>
  /\ active = FALSE /\ heard = {} /\ userTurns = 0
  /\ receiving = FALSE /\ sessions = 0
  /\ answered = {} /\ lost = {} /\ fate = "none" /\ faulty = FALSE

InTransit == {i \in Items : \E k \in DOMAIN toServer : toServer[k] = i}
Submitted == InTransit \cup heard \cup answered \cup lost

-----------------------------------------------------------------------------
(* Callers: say, the startup greeting, a tool result *)

\* item.create on the connection, then _safe_response_create.
Submit(i) ==
  /\ connected
  /\ i \notin Submitted
  /\ toServer' = Append(toServer, i)
  /\ pending' = pending + 1
  /\ UNCHANGED <<connected, done, started, rejected, pc, woken, attempts, toClient, active,
                 heard, userTurns, answered, sessionVars, histVars>>

-----------------------------------------------------------------------------
(* The worker: _response_sender_loop *)

\* Wait for an event: an event already set does not suspend the worker.
WaitFor(where, event) == pc' = where /\ woken' = event

\* After a request: the loop goes on while there is a connection.
NextRequest == pc' = (IF connected THEN "get" ELSE "off") /\ woken' = FALSE

\* Mutant: the attempts of the request before are kept.
GetKeepsAttempts ==
  /\ pc = "get"
  /\ pending > 0
  /\ pending' = 0
  /\ fate' = "none"
  /\ IF connected THEN WaitFor("waitDone", done) ELSE NextRequest
  /\ UNCHANGED <<connected, done, started, rejected, attempts, serverVars, sessionVars, faulty>>

\* Take a request, and with it every other one: they are all empty.
Get ==
  /\ pc = "get"
  /\ pending > 0
  /\ pending' = 0
  /\ attempts' = 0
  /\ fate' = "none"
  /\ IF connected THEN WaitFor("waitDone", done) ELSE NextRequest
  /\ UNCHANGED <<connected, done, started, rejected, serverVars, sessionVars, faulty>>

\* No response is active any more: send response.create.  A failed send gives
\* the request up.
Send ==
  /\ pc = "waitDone"
  /\ woken
  /\ IF ~connected
     THEN NextRequest /\ UNCHANGED <<done, started, rejected, toServer, histVars>>
     ELSE /\ rejected' = FALSE
          /\ started' = FALSE
          /\ \/ /\ toServer' = Append(toServer, "create")
                /\ fate' = "sent"
                /\ WaitFor("waitStarted", FALSE)
                /\ UNCHANGED <<done, faulty>>
             \/ /\ MayFail
                /\ fate' = "failed" /\ faulty' = TRUE
                /\ done' = TRUE
                /\ NextRequest
                /\ UNCHANGED toServer
  /\ UNCHANGED <<connected, pending, attempts, toClient, active, heard, userTurns, answered,
                 sessionVars>>

\* The server's reaction, or the lack of one: retry after a rejection, give up
\* after MaxRetries of them, else wait for the end of the response.
Reaction ==
  /\ IF rejected
     THEN /\ attempts' = attempts + 1
          /\ IF attempts + 1 = MaxRetries THEN NextRequest ELSE WaitFor("sleep", FALSE)
     ELSE WaitFor("waitFinal", done) /\ UNCHANGED attempts
  /\ UNCHANGED <<connected, pending, done, started, rejected, serverVars, sessionVars, fate>>

SeeReaction == pc = "waitStarted" /\ woken /\ Reaction /\ UNCHANGED faulty

\* The retry delay is over.
Retry ==
  /\ pc = "sleep"
  /\ IF connected THEN WaitFor("waitDone", done) ELSE NextRequest
  /\ UNCHANGED <<connected, pending, done, started, rejected, attempts, serverVars, sessionVars,
                 histVars>>

\* Mutant: requests are coalesced when a response is over.
ServedDropsPending ==
  /\ pc = "waitFinal"
  /\ woken
  /\ pending' = 0
  /\ NextRequest
  /\ UNCHANGED <<connected, done, started, rejected, attempts, serverVars, sessionVars, histVars>>

\* The response is over: the request is served.
Served ==
  /\ pc = "waitFinal"
  /\ woken
  /\ NextRequest
  /\ UNCHANGED <<connected, pending, done, started, rejected, attempts, serverVars, sessionVars,
                 histVars>>

\* Mutant: the first wait has no limit.
TimeOutButFirst ==
  /\ MayTimeOut
  /\ pc \in Waits \ {"waitDone"}
  /\ ~woken
  /\ faulty' = TRUE
  /\ \/ pc = "waitStarted" /\ Reaction
     \/ /\ pc = "waitFinal"
        /\ done' = TRUE
        /\ NextRequest
        /\ UNCHANGED <<connected, pending, started, rejected, attempts, serverVars, sessionVars, fate>>

\* A wait expires.  Before and after a response the worker then declares the
\* response done; between, it goes on as if the server had reacted.
TimeOut ==
  /\ MayTimeOut
  /\ pc \in Waits
  /\ ~woken
  /\ faulty' = TRUE
  /\ \/ pc = "waitStarted" /\ Reaction
     \/ /\ pc \in {"waitDone", "waitFinal"}
        /\ done' = TRUE
        /\ IF pc = "waitDone" THEN WaitFor(pc, TRUE) ELSE NextRequest
        /\ UNCHANGED <<connected, pending, started, rejected, attempts, serverVars, sessionVars, fate>>

-----------------------------------------------------------------------------
(* The receive loop *)

\* Setting an event wakes the worker if that is the event it waits for.
Wakes(d, s) ==
  woken' = (woken \/ (d /\ pc \in {"waitDone", "waitFinal"}) \/ (s /\ pc = "waitStarted"))

\* Mutant: response.created does not clear _response_done_event.
ReceiveKeepsDone ==
  /\ receiving
  /\ toClient # <<>>
  /\ LET e == Head(toClient) IN
       /\ done' = (done \/ e = "done")
       /\ started' = TRUE
       /\ rejected' = (rejected \/ e = "active_response")
       /\ Wakes(e = "done", TRUE)
  /\ toClient' = Tail(toClient)
  /\ UNCHANGED <<connected, pending, pc, attempts, toServer, active, heard, userTurns, answered,
                 sessionVars, histVars>>

Receive ==
  /\ receiving
  /\ toClient # <<>>
  /\ LET e == Head(toClient) IN
       /\ done' = CASE e = "created" -> FALSE [] e = "done" -> TRUE [] OTHER -> done
       /\ started' = TRUE
       /\ rejected' = (rejected \/ e = "active_response")
       /\ Wakes(e = "done", TRUE)
  /\ toClient' = Tail(toClient)
  /\ UNCHANGED <<connected, pending, pc, attempts, toServer, active, heard, userTurns, answered,
                 sessionVars, histVars>>

-----------------------------------------------------------------------------
(* The server *)

\* A new response covers every item in the conversation.
OpenResponse ==
  /\ active' = TRUE
  /\ answered' = answered \cup heard
  /\ heard' = {}
  /\ toClient' = Append(toClient, "created")

ServerTakesItem ==
  /\ toServer # <<>>
  /\ Head(toServer) \in Items
  /\ toServer' = Tail(toServer)
  /\ heard' = heard \cup {Head(toServer)}
  /\ UNCHANGED <<clientVars, toClient, active, userTurns, answered, sessionVars, histVars>>

\* One active response at a time; an error other than that one is possible too.
ServerTakesCreate ==
  /\ toServer # <<>>
  /\ Head(toServer) = "create"
  /\ toServer' = Tail(toServer)
  /\ \/ /\ ~active
        /\ OpenResponse
        /\ fate' = "accepted" /\ UNCHANGED faulty
     \/ /\ active
        /\ toClient' = Append(toClient, "active_response")
        /\ fate' = "rejected" /\ UNCHANGED faulty
        /\ UNCHANGED <<active, heard, answered>>
     \/ /\ MayFail
        /\ toClient' = Append(toClient, "other_error")
        /\ fate' = "failed" /\ faulty' = TRUE
        /\ UNCHANGED <<active, heard, answered>>
  /\ UNCHANGED <<clientVars, userTurns, sessionVars>>

\* Voice detection ends a user turn: the server answers without being asked.
UserTurn ==
  /\ receiving
  /\ ~active
  /\ userTurns < MaxUserTurns
  /\ userTurns' = userTurns + 1
  /\ OpenResponse
  /\ UNCHANGED <<clientVars, toServer, sessionVars, histVars>>

ResponseEnds ==
  /\ active
  /\ active' = FALSE
  /\ toClient' = Append(toClient, "done")
  /\ UNCHANGED <<clientVars, toServer, heard, userTurns, answered, sessionVars, histVars>>

-----------------------------------------------------------------------------
(* Sessions *)

\* A session is connected and its worker started.  The events, the flag and the
\* queue are the handler's and keep what the last session left in them.
OpenSession ==
  /\ ~receiving
  /\ sessions < MaxSessions
  /\ sessions' = sessions + 1
  /\ receiving' = TRUE
  /\ connected' = TRUE
  /\ WaitFor("get", FALSE)
  /\ UNCHANGED <<pending, done, started, rejected, attempts, serverVars, lost, histVars>>

\* The handler releases the worker: its shutdown begins, or a tool result meets
\* a closed connection, which it also forgets.
Release ==
  /\ MayFail
  /\ receiving /\ connected
  /\ connected' \in BOOLEAN
  /\ done' = TRUE
  /\ Wakes(TRUE, FALSE)
  /\ faulty' = TRUE
  /\ UNCHANGED <<pending, started, rejected, pc, attempts, serverVars, sessionVars, fate>>

\* The receive loop ends: the worker is cancelled, the conversation is gone.
SessionEnds ==
  /\ MayFail
  /\ receiving
  /\ receiving' = FALSE
  /\ connected' = FALSE
  /\ pc' = "off" /\ woken' = FALSE
  /\ toServer' = <<>> /\ toClient' = <<>> /\ active' = FALSE /\ heard' = {}
  /\ lost' = lost \cup heard \cup InTransit
  /\ faulty' = TRUE
  /\ UNCHANGED <<pending, done, started, rejected, attempts, userTurns, answered, sessions, fate>>

-----------------------------------------------------------------------------
Worker == Get \/ Send \/ SeeReaction \/ Retry \/ Served
Server == ServerTakesItem \/ ServerTakesCreate \/ ResponseEnds

Next ==
  \/ \E i \in Items : Submit(i)
  \/ Worker \/ TimeOut
  \/ Receive
  \/ Server \/ UserTurn
  \/ OpenSession \/ Release \/ SessionEnds

Spec == Init /\ [][Next]_vars

\* The event loop runs its ready tasks and clocks advance.
WorkerFairness == WF_vars(Worker) /\ WF_vars(TimeOut) /\ WF_vars(Receive)

\* The server reads what it is sent and ends what it starts.
ServerFairness == WF_vars(ServerTakesItem \/ ServerTakesCreate) /\ WF_vars(ResponseEnds)

FairSpec == Spec /\ WorkerFairness /\ ServerFairness

-----------------------------------------------------------------------------
(* Properties *)

\* While no response but its own was opened and nothing failed, the worker never
\* gets a request rejected: it sends response.create only when the server is idle
\* ("Waits until no response is active", huggingface_realtime.py:491).
NeverRejected == userTurns = 0 /\ ~faulty => fate # "rejected"

\* The worker always comes back for the next request, whatever fails or expires,
\* and whichever events a lost session leaves behind.
WorkerComesBack == pc \notin {"off", "get"} ~> pc \in {"off", "get"}

\* Once every event has been received, _response_done_event says whether the
\* server runs a response ("Waits until no response is active
\* (_response_done_event)", huggingface_realtime.py:491), until something fails.
DoneTracksServer == receiving /\ toClient = <<>> /\ ~faulty => (done <=> ~active)

\* Every item is covered by a response created after it, even though requests are
\* coalesced and items keep arriving while a response runs; only a failure or a
\* response of the server's own can make the worker lose a request.
ItemsAreAnswered ==
  \A i \in Items : i \in Submitted ~> (i \in answered \/ userTurns > 0 \/ faulty)

\* "If the server rejected with active_response, retries from step 1."
\* (huggingface_realtime.py:495): the worker does not turn to the next request
\* after a rejection, short of MaxRetries of them.
RejectionIsRetried ==
  [][receiving /\ pc # "get" /\ pc' = "get" /\ fate = "rejected" => attempts' = MaxRetries]_vars
==============================================================================
