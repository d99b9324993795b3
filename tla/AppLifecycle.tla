----------------------------- MODULE AppLifecycle -----------------------------
(***************************************************************************)
(* The life of the application: main.py's run, LocalStream (console.py)    *)
(* and the ways to end both.  The main thread launches the stream, whose   *)
(* event loop keeps one handler connected (the startup loop) and moves     *)
(* audio (the streams).  Other threads reconnect it when the connection    *)
(* settings change, close it when the daemon stops the app, or put the     *)
(* robot to sleep, on the user's word or after a time without activity.    *)
(*                                                                         *)
(* A version number stands for the connection settings: wanted is what was *)
(* saved last, applied what the current session was opened with.  A        *)
(* keyboard interrupt in the main thread is left out.                      *)
(***************************************************************************)
EXTENDS Naturals

CONSTANTS
  MaxRequests,     \* bound: changes of the connection settings
  MaxAttempts,     \* max_attempts of start_up
  RequestMayRaise  \* whether the daemon's answer to a stop request can be cut off

ASSUME MaxRequestsAssumption == MaxRequests \in Nat
ASSUME MaxAttemptsAssumption == MaxAttempts \in Nat \ {0}
ASSUME RequestMayRaiseAssumption == RequestMayRaise \in BOOLEAN

Requests == 1 .. MaxRequests
Sleepers == {"tool", "idle"}          \* the voice tool, the inactivity thread
Closers == {"poll"} \cup Sleepers     \* threads that may call close()

VARIABLES
  managed,    \* app_stop_event is not None: the daemon runs the app
  main,       \* where the main thread is
  target,     \* has_hf_realtime_target()
  appStop,    \* app_stop_event
  stopEvent,  \* _stop_event
  closer,     \* where each call of close() is
  \* the event loop
  backend,    \* where the startup loop is
  attempt,    \* attempt of start_up
  cancelled,  \* a CancelledError is due at its next await
  failed,     \* the tool listener of the open session raised: so will each shutdown()
  streams,    \* the record and play tasks
  restart,    \* _restart_requested
  request,    \* where each request_backend_restart is
  wanted,     \* settings saved
  applied,    \* settings the session was opened with
  \* going to sleep
  requested,  \* go_to_sleep_requested
  sleeper,    \* where each call of go_to_sleep_and_stop_app is
  \* history
  missed,     \* the last restart found the handler connecting, or its shutdown() raised
  lost        \* the last cancellation was swallowed by a session that goes on

backendVars == <<backend, attempt, cancelled, failed, applied, lost>>
restartVars == <<restart, request, wanted, missed>>
sleepVars == <<requested, sleeper>>
stopVars == <<appStop, stopEvent, closer>>
vars == <<managed, main, target, stopVars, backendVars, streams, restartVars, sleepVars>>

\* handler.shutdown() closes the connection, if there is one, but only after it has
\* stopped the tool listener: the error of a listener that failed comes first.
HandlerShutDown == IF backend = "connected" /\ ~failed THEN "closing" ELSE backend

Finished == {"ended", "aborted"}   \* a task that returned, one that was cancelled

TypeOK ==
  /\ managed \in BOOLEAN /\ target \in BOOLEAN
  /\ main \in {"starting", "launching", "waiting", "media", "loop", "leaving", "joining",
               "cleanup", "down"}
  /\ appStop \in BOOLEAN /\ stopEvent \in BOOLEAN
  /\ closer \in [Closers -> {"no", "checking", "storing", "done"}]
  /\ backend \in {"off", "top", "rebuilding", "connecting", "connected", "closing", "broken",
                  "sleeping"} \cup Finished
  /\ attempt \in 0 .. MaxAttempts
  /\ cancelled \in BOOLEAN /\ failed \in BOOLEAN
  /\ streams \in {"none", "running", "cancelled", "failed"} \cup Finished
  /\ restart \in BOOLEAN
  /\ request \in [Requests -> {"no", "scheduled", "closing", "done"}]
  /\ wanted \in 0 .. MaxRequests /\ applied \in 0 .. MaxRequests
  /\ requested \in BOOLEAN
  /\ sleeper \in [Sleepers -> {"no", "posing", "asking", "signalling", "raised", "done"}]
  /\ missed \in BOOLEAN /\ lost \in BOOLEAN

Init ==
  /\ managed \in BOOLEAN /\ target \in BOOLEAN
  /\ main = "starting"
  /\ appStop = FALSE /\ stopEvent = FALSE
  /\ closer = [c \in Closers |-> "no"]
  /\ backend = "off" /\ attempt = 0 /\ cancelled = FALSE /\ failed = FALSE
  /\ streams = "none"
  /\ restart = FALSE /\ request = [r \in Requests |-> "no"]
  /\ wanted = 0 /\ applied = 0 /\ missed = FALSE /\ lost = FALSE
  /\ requested = FALSE /\ sleeper = [s \in Sleepers |-> "no"]

LoopRuns == main \in {"loop", "leaving", "joining"}   \* _asyncio_loop.is_running()

-----------------------------------------------------------------------------
(* The main thread: launch, then the finally clause of run *)

\* launch clears the stop event, then looks for a target.
Launch ==
  /\ main = "starting"
  /\ main' = "launching"
  /\ stopEvent' = FALSE
  /\ UNCHANGED <<managed, target, appStop, closer, backendVars, streams, restartVars, sleepVars>>

\* Without a target, one is awaited from the settings page, or the stop event; a
\* program run by hand may have no settings page, and gives up.
FindTarget ==
  /\ \/ main = "launching" /\ main' = IF target THEN "media" ELSE "waiting"
     \/ main = "launching" /\ ~target /\ ~managed /\ main' = "cleanup"
     \/ main = "waiting" /\ stopEvent /\ main' = "cleanup"
     \/ main = "waiting" /\ ~stopEvent /\ target /\ main' = "media"
  /\ UNCHANGED <<managed, target, stopVars, backendVars, streams, restartVars, sleepVars>>

\* Media are started, and the event loop with the startup loop as its first task.
RunLoop ==
  /\ main = "media"
  /\ main' = "loop"
  /\ backend' = "top"
  /\ UNCHANGED <<managed, target, stopVars, attempt, cancelled, failed, applied, lost, streams,
                 restartVars, sleepVars>>

\* A second later the audio tasks are added.
StartStreams ==
  /\ main = "loop"
  /\ streams = "none"
  /\ streams' = "running"
  /\ UNCHANGED <<managed, main, target, stopVars, backendVars, restartVars, sleepVars>>

StreamsEnd ==
  /\ \/ streams = "cancelled" /\ streams' = "aborted"
     \/ streams = "running" /\ stopEvent /\ streams' = "ended"
  /\ UNCHANGED <<managed, main, target, stopVars, backendVars, restartVars, sleepVars>>

\* Nothing in the audio loops catches an error of the recorder or of the player.
StreamsFail ==
  /\ streams = "running"
  /\ streams' = "failed"
  /\ UNCHANGED <<managed, main, target, stopVars, backendVars, restartVars, sleepVars>>

\* gather returns when every task has, or when one was cancelled or failed; the
\* handler is shut down then.
LoopEnds ==
  /\ main = "loop"
  /\ streams # "none"
  /\ \/ {"aborted", "failed"} \cap {streams, backend} # {}
     \/ {streams, backend} \subseteq Finished
  /\ main' = "leaving"
  /\ backend' = HandlerShutDown
  /\ UNCHANGED <<managed, target, stopVars, attempt, cancelled, failed, applied, lost, streams,
                 restartVars, sleepVars>>

\* asyncio.run cancels what is left ...
CancelRest ==
  /\ main = "leaving"
  /\ main' = "joining"
  /\ cancelled' = (backend \notin Finished)
  /\ UNCHANGED <<managed, target, stopVars, backend, attempt, failed, applied, lost, streams,
                 restartVars, sleepVars>>

\* ... awaits it, and joins the threads its tools run in.
Join ==
  /\ main = "joining"
  /\ backend \in Finished
  /\ sleeper["tool"] \in {"no", "raised", "done"}
  /\ main' = "cleanup"
  /\ UNCHANGED <<managed, target, stopVars, backendVars, streams, restartVars, sleepVars>>

Cleanup ==
  /\ main = "cleanup"
  /\ main' = "down"
  /\ UNCHANGED <<managed, target, stopVars, backendVars, streams, restartVars, sleepVars>>

-----------------------------------------------------------------------------
(* The startup loop *)

\* At the top: stop, rebuild the handler, wait for a target, or start it up.
Round ==
  /\ backend = "top" /\ ~cancelled
  /\ \/ stopEvent /\ backend' = "ended" /\ UNCHANGED <<attempt, applied>>
     \/ ~stopEvent /\ restart /\ backend' = "rebuilding" /\ UNCHANGED <<attempt, applied>>
     \/ ~stopEvent /\ ~restart /\ ~target /\ backend' = "sleeping" /\ UNCHANGED <<attempt, applied>>
     \/ ~stopEvent /\ ~restart /\ target /\ backend' = "connecting"
        /\ attempt' = 1 /\ applied' = wanted
  /\ UNCHANGED <<managed, main, target, stopVars, cancelled, failed, lost, streams, restartVars, sleepVars>>

\* The old handler is down: the flag is cleared and a new handler installed, or
\* the construction fails.  A restart still closing the old one has no effect left.
Rebuild ==
  /\ backend = "rebuilding" /\ ~cancelled
  /\ restart' = FALSE
  /\ \/ target /\ backend' = "connecting" /\ attempt' = 1 /\ applied' = wanted
     \/ backend' = "sleeping" /\ UNCHANGED <<attempt, applied>>
  /\ request' = [r \in Requests |-> IF request[r] = "closing" THEN "done" ELSE request[r]]
  /\ missed' = FALSE
  /\ UNCHANGED <<managed, main, target, stopVars, cancelled, failed, lost, streams, wanted, sleepVars>>

Connect ==
  /\ backend = "connecting" /\ ~cancelled
  /\ backend' \in {"connected", "sleeping"}
  /\ UNCHANGED <<managed, main, target, stopVars, attempt, cancelled, failed, applied, lost, streams,
                 restartVars, sleepVars>>

\* A tool's result that cannot be handled ends the listener, not the session.
ListenerFails ==
  /\ backend \in {"connected", "closing"}
  /\ failed' = TRUE
  /\ UNCHANGED <<managed, main, target, stopVars, backend, attempt, cancelled, applied, lost, streams,
                 restartVars, sleepVars>>

\* The server ends the session, or the network does.
SessionEnds ==
  /\ backend = "connected"
  /\ backend' \in {"closing", "broken"}
  /\ UNCHANGED <<managed, main, target, stopVars, attempt, cancelled, failed, applied, lost, streams,
                 restartVars, sleepVars>>

\* A session that ended cleanly has been taken down; the error of a failed listener
\* comes out of start_up then, as a backend that failed to start.
SessionClosed ==
  /\ backend = "closing" /\ ~cancelled
  /\ \/ failed /\ backend' = "sleeping"
     \/ ~failed /\ backend' = IF stopEvent THEN "ended" ELSE IF restart THEN "top" ELSE "sleeping"
  /\ failed' = FALSE
  /\ UNCHANGED <<managed, main, target, stopVars, attempt, cancelled, applied, lost, streams,
                 restartVars, sleepVars>>

\* Mutant: start_up that forgets its limit of attempts.
RetryAlways ==
  /\ backend = "broken" /\ ~cancelled
  /\ attempt' = attempt + 1
  /\ backend' = "connecting" /\ applied' = wanted
  /\ UNCHANGED <<managed, main, target, stopVars, cancelled, failed, lost, streams, restartVars, sleepVars>>

\* After an abrupt end start_up tries again, a limited number of times; not after
\* the error of a failed listener, which replaces that of the connection.
Retry ==
  /\ backend = "broken" /\ ~cancelled
  /\ \/ ~failed /\ attempt < MaxAttempts /\ attempt' = attempt + 1
        /\ backend' = "connecting" /\ applied' = wanted
     \/ (failed \/ attempt = MaxAttempts) /\ backend' = "sleeping" /\ UNCHANGED <<attempt, applied>>
  /\ failed' = FALSE
  /\ UNCHANGED <<managed, main, target, stopVars, cancelled, lost, streams, restartVars, sleepVars>>

\* The retry delay passes, or a restart cuts it short.
Awake ==
  /\ backend = "sleeping" /\ ~cancelled
  /\ backend' = "top"
  /\ UNCHANGED <<managed, main, target, stopVars, attempt, cancelled, failed, applied, lost, streams,
                 restartVars, sleepVars>>

\* A cancellation ends the loop, unless a failed listener's error replaces it on the
\* way out of the session, or something else that was cancelled is being awaited and
\* the CancelledError is taken for its own: the transcript task, while a session runs
\* and whenever a handler is shut down, the workers of a session that ends.
CancelHits ==
  /\ cancelled
  /\ cancelled' = FALSE
  /\ \/ /\ \/ ~(failed /\ backend = "connected") /\ backend' = "aborted"
           \/ failed /\ backend' = "sleeping"
        /\ failed' = FALSE
        /\ UNCHANGED lost
     \/ /\ backend \in {"connected", "closing", "broken", "rebuilding"}
        /\ lost' = IF backend = "closing" THEN lost ELSE main = "joining"
        /\ UNCHANGED <<backend, failed>>
  /\ UNCHANGED <<managed, main, target, stopVars, attempt, applied, streams, restartVars, sleepVars>>

-----------------------------------------------------------------------------
(* Changes of the settings *)

\* backend.config saves the settings and asks for a restart.  Until the loop
\* runs, the flag is set at once.
SaveConfig(r) ==
  /\ request[r] = "no"
  /\ wanted = r - 1
  /\ wanted' = r
  /\ target' = TRUE
  /\ request' = [request EXCEPT ![r] = IF LoopRuns THEN "scheduled" ELSE "done"]
  /\ restart' = (restart \/ ~LoopRuns)
  /\ UNCHANGED <<managed, main, stopVars, backendVars, streams, missed, sleepVars>>

RestartBegins(r) ==
  /\ request[r] = "scheduled"
  /\ LoopRuns
  /\ restart' = TRUE
  /\ request' = [request EXCEPT ![r] = "closing"]
  /\ UNCHANGED <<managed, main, target, stopVars, backendVars, streams, wanted, missed, sleepVars>>

\* Mutant: request_backend_restart that sets the flag and leaves the session alone.
RestartOnlyMarks(r) ==
  /\ request[r] = "closing"
  /\ LoopRuns
  /\ request' = [request EXCEPT ![r] = "done"]
  /\ UNCHANGED <<managed, main, target, stopVars, backendVars, streams, restart, wanted, missed, sleepVars>>

\* The handler has been shut down; an error on the way is ignored.
RestartCloses(r) ==
  /\ request[r] = "closing"
  /\ LoopRuns
  /\ request' = [request EXCEPT ![r] = "done"]
  /\ backend' = HandlerShutDown
  /\ missed' = (missed \/ backend = "connecting" \/ (backend = "connected" /\ failed))
  /\ UNCHANGED <<managed, main, target, stopVars, attempt, cancelled, failed, applied, lost, streams,
                 restart, wanted, sleepVars>>

-----------------------------------------------------------------------------
(* close() *)

\* The daemon stops the app; poll_stop_event closes the stream.
DaemonStops ==
  /\ managed /\ ~appStop
  /\ appStop' = TRUE
  /\ UNCHANGED <<managed, main, target, stopEvent, closer, backendVars, streams,
                 restartVars, sleepVars>>

PollStop ==
  /\ managed /\ appStop
  /\ closer["poll"] = "no"
  /\ closer' = [closer EXCEPT !["poll"] = "checking"]
  /\ UNCHANGED <<managed, main, target, appStop, stopEvent, backendVars, streams,
                 restartVars, sleepVars>>

\* Mutant: close() that sets the event and leaves the tasks to notice it.
CloseOnlySetsEvent(c) ==
  /\ closer[c] = "checking"
  /\ closer' = [closer EXCEPT ![c] = "done"]
  /\ stopEvent' = TRUE
  /\ UNCHANGED <<managed, main, target, appStop, backendVars, streams, restartVars, sleepVars>>

\* While the loop runs it is told to set the event and to cancel the tasks.
Close(c) ==
  /\ closer[c] = "checking"
  /\ \/ /\ LoopRuns
        /\ closer' = [closer EXCEPT ![c] = "done"]
        /\ stopEvent' = TRUE
        /\ cancelled' = (backend \notin Finished)
        /\ streams' = IF streams = "running" THEN "cancelled" ELSE streams
     \/ /\ ~LoopRuns
        /\ closer' = [closer EXCEPT ![c] = "storing"]
        /\ UNCHANGED <<stopEvent, cancelled, streams>>
  /\ UNCHANGED <<managed, main, target, appStop, backend, attempt, failed, applied, lost, restartVars, sleepVars>>

\* The event is set from the calling thread otherwise.
StoreStop(c) ==
  /\ closer[c] = "storing"
  /\ closer' = [closer EXCEPT ![c] = "done"]
  /\ stopEvent' = TRUE
  /\ UNCHANGED <<managed, main, target, appStop, backendVars, streams, restartVars, sleepVars>>

-----------------------------------------------------------------------------
(* go_to_sleep_and_stop_app *)

\* The model calls the tool in a session; the inactivity thread starts before
\* launch and gives up once the daemon has stopped the app.
MaySleep(s) ==
  \/ s = "tool" /\ backend = "connected"
  \/ s = "idle" /\ ~appStop

\* Whoever comes first moves the robot to its sleep pose; any other is refused.
SleepBegins(s) ==
  /\ sleeper[s] = "no"
  /\ MaySleep(s)
  /\ sleeper' = [sleeper EXCEPT ![s] = IF requested THEN "done" ELSE "posing"]
  /\ requested' = TRUE
  /\ UNCHANGED <<managed, main, target, stopVars, backendVars, streams, restartVars>>

\* Then the daemon is asked to stop the app, unless it did already.
SleepAsks(s) ==
  /\ sleeper[s] = "posing"
  /\ sleeper' = [sleeper EXCEPT ![s] = IF managed /\ appStop THEN "signalling" ELSE "asking"]
  /\ UNCHANGED <<managed, main, target, stopVars, backendVars, streams, restartVars, requested>>

\* A failure to connect is caught; an answer that is cut off is not.
Asked(s) ==
  /\ sleeper[s] = "asking"
  /\ \/ sleeper' = [sleeper EXCEPT ![s] = "signalling"]
     \/ RequestMayRaise /\ sleeper' = [sleeper EXCEPT ![s] = "raised"]
  /\ UNCHANGED <<managed, main, target, stopVars, backendVars, streams, restartVars, requested>>

\* Mutant: go_to_sleep that relies on the daemon to stop the app.
SleepSignalsDaemon(s) ==
  /\ sleeper[s] = "signalling"
  /\ sleeper' = [sleeper EXCEPT ![s] = "done"]
  /\ appStop' = managed
  /\ UNCHANGED <<managed, main, target, stopEvent, closer, backendVars, streams, restartVars, requested>>

\* Last, the app is stopped from here: by the stop event, or by close().
SleepSignals(s) ==
  /\ sleeper[s] = "signalling"
  /\ sleeper' = [sleeper EXCEPT ![s] = "done"]
  /\ \/ managed /\ appStop' = TRUE /\ UNCHANGED closer
     \/ ~managed /\ closer' = [closer EXCEPT ![s] = "checking"] /\ UNCHANGED appStop
  /\ UNCHANGED <<managed, main, target, stopEvent, backendVars, streams, restartVars, requested>>

-----------------------------------------------------------------------------
MainNext == Launch \/ FindTarget \/ RunLoop \/ LoopEnds \/ CancelRest \/ Join \/ Cleanup

BackendNext ==
  \/ Round \/ Rebuild \/ Connect \/ SessionClosed \/ Retry \/ Awake \/ CancelHits

Next ==
  \/ MainNext
  \/ StartStreams \/ StreamsEnd \/ StreamsFail
  \/ BackendNext \/ SessionEnds \/ ListenerFails
  \/ \E r \in Requests : SaveConfig(r) \/ RestartBegins(r) \/ RestartCloses(r)
  \/ DaemonStops \/ PollStop
  \/ \E c \in Closers : Close(c) \/ StoreStop(c)
  \/ \E s \in Sleepers : SleepBegins(s) \/ SleepAsks(s) \/ Asked(s) \/ SleepSignals(s)

Spec == Init /\ [][Next]_vars

\* Threads and tasks that can go on do; the user, the daemon and the server need
\* not act, and nothing need fail.
FairSpec ==
  /\ Spec
  /\ WF_vars(MainNext) /\ WF_vars(BackendNext)
  /\ WF_vars(StartStreams) /\ WF_vars(StreamsEnd)
  /\ \A r \in Requests : WF_vars(RestartBegins(r)) /\ WF_vars(RestartCloses(r))
  /\ WF_vars(PollStop)
  /\ \A c \in Closers : WF_vars(Close(c)) /\ WF_vars(StoreStop(c))
  /\ \A s \in Sleepers : WF_vars(SleepAsks(s)) /\ WF_vars(Asked(s)) /\ WF_vars(SleepSignals(s))

-----------------------------------------------------------------------------
(* Properties *)

\* Closing the stream while audio is moving ends the application, whatever the
\* startup loop was doing, unless the last cancellation, too, is swallowed by a
\* session that goes on (close, and its "Cancels all pending async tasks").
CloseEndsTheApp ==
  \A c \in Closers :
    closer[c] = "checking" /\ main = "loop" /\ streams = "running" ~> main = "down" \/ lost

\* Putting the robot to sleep while audio is moving ends the application, whoever
\* asked, with or without a daemon, unless the request to the daemon raises or the
\* thread that waits for the stop event was used up before the launch
\* ("Put Reachy to sleep, then stop the current app.").
SleepEndsTheApp ==
  \A s \in Sleepers :
    sleeper[s] = "posing" /\ main = "loop" /\ streams = "running" /\ closer["poll"] = "no"
      ~> main = "down" \/ lost \/ sleeper[s] = "raised"

\* A session opened with old settings gives way to one with the current settings,
\* unless the application ends, or the restart came while the handler was connecting
\* or after its tool listener had failed, whose error keeps the connection from
\* being closed (request_backend_restart).
RestartReplacesSession ==
  backend = "connected" /\ applied # wanted
    ~> applied = wanted \/ stopEvent \/ streams = "failed" \/ missed

=============================================================================
