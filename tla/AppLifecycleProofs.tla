-------------------------- MODULE AppLifecycleProofs --------------------------
(***************************************************************************)
(* Theorems about AppLifecycle, for any number of settings changes and     *)
(* attempts.  The liveness of closing and sleeping is left to TLC.         *)
(***************************************************************************)
EXTENDS AppLifecycle, TLAPS

Before == {"starting", "launching", "waiting", "media"}

StopAsked == appStop \/ requested
Left == main \notin Before \cup {"loop"}

\* The application ends only when it was asked to: by the daemon, by someone who puts
\* the robot to sleep, by an error of the audio devices, or, run by hand, because it
\* has no target to start with.  No failure of the backend, of its tool listener or
\* of a restart ends it (_run_handler_startup_loop, "Start the realtime handler and
\* keep settings UI alive after backend failures").
EndsOnlyWhenAsked ==
  Left => StopAsked \/ streams = "failed" \/ (backend = "off" /\ ~managed)

\* Only one caller moves the robot to sleep and stops the application; a second
\* one, at whatever moment it comes, is refused (go_to_sleep_requested).
OneGoesToSleep ==
  \A s, t \in Sleepers : sleeper[s] \notin {"no", "done"} /\ sleeper[t] \notin {"no", "done"} => s = t

\* The startup loop exists once the event loop was started, the audio loops not
\* before it, and only a startup loop that exists is cancelled.
LoopFirst ==
  /\ main \in Before => backend = "off" /\ streams = "none"
  /\ LoopRuns => backend # "off"
  /\ cancelled => backend # "off"

\* Whoever closes the stream was asked to, a task is cancelled only by close or by the
\* end of the event loop, and nothing returns or is cut off before one of these.
StopWasAsked == (\E c \in Closers : closer[c] # "no") \/ stopEvent => StopAsked
CancelWasAsked == cancelled => stopEvent \/ Left
EndWasStopped == backend \in Finished \/ streams \in {"cancelled"} \cup Finished => stopEvent \/ Left
Asking == StopWasAsked /\ CancelWasAsked /\ EndWasStopped /\ EndsOnlyWhenAsked

\* Whoever got past "no" has set the flag, and the others had not.
FlagFirst == \A s \in Sleepers : sleeper[s] # "no" => requested

\* The kinds of the variables, in three parts.
FlagsOK ==
  /\ managed \in BOOLEAN /\ target \in BOOLEAN /\ appStop \in BOOLEAN /\ stopEvent \in BOOLEAN
  /\ cancelled \in BOOLEAN /\ failed \in BOOLEAN /\ restart \in BOOLEAN /\ requested \in BOOLEAN
  /\ missed \in BOOLEAN /\ lost \in BOOLEAN
PlacesOK ==
  /\ main \in {"starting", "launching", "waiting", "media", "loop", "leaving", "joining", "cleanup", "down"}
  /\ closer \in [Closers -> {"no", "checking", "storing", "done"}]
  /\ backend \in {"off", "top", "rebuilding", "connecting", "connected", "closing", "broken",
                  "sleeping"} \cup Finished
  /\ streams \in {"none", "running", "cancelled", "failed"} \cup Finished
  /\ request \in [Requests -> {"no", "scheduled", "closing", "done"}]
  /\ sleeper \in [Sleepers -> {"no", "posing", "asking", "signalling", "raised", "done"}]
NumbersOK == attempt \in 0 .. MaxAttempts /\ wanted \in 0 .. MaxRequests /\ applied \in 0 .. MaxRequests

IInv == TypeOK /\ Asking /\ LoopFirst /\ FlagFirst /\ OneGoesToSleep

-----------------------------------------------------------------------------
(* The actions of each thread *)

Settings(r) == SaveConfig(r) \/ RestartBegins(r) \/ RestartCloses(r)
Stopping == DaemonStops \/ PollStop \/ \E c \in Closers : Close(c) \/ StoreStop(c)
Sleeping(s) == SleepBegins(s) \/ SleepAsks(s) \/ Asked(s) \/ SleepSignals(s)

LEMMA TypeParts == TypeOK <=> FlagsOK /\ PlacesOK /\ NumbersOK
BY DEF TypeOK, FlagsOK, PlacesOK, NumbersOK

LEMMA TypePartsNext ==
  ASSUME FlagsOK', PlacesOK', NumbersOK'
  PROVE  TypeOK'
BY DEF TypeOK, FlagsOK, PlacesOK, NumbersOK

LEMMA MainStep ==
  ASSUME IInv, MainNext
  PROVE  IInv'
<1> USE DEF MainNext, Launch, FindTarget, RunLoop, LoopEnds, HandlerShutDown, CancelRest, Join, Cleanup,
        backendVars, restartVars, sleepVars, stopVars
<1>1. TypeOK'
  <2>0. FlagsOK /\ PlacesOK /\ NumbersOK
    BY TypeParts DEF IInv
  <2>1. FlagsOK'
    BY <2>0, ZenonT(60) DEF FlagsOK
  <2>2. PlacesOK'
    BY <2>0 DEF PlacesOK, Closers, Sleepers, Finished
  <2>3. NumbersOK'
    BY <2>0 DEF NumbersOK
  <2> QED
    BY <2>1, <2>2, <2>3, TypePartsNext
<1>2. LoopFirst'
  BY DEF IInv, TypeOK, LoopFirst, LoopRuns, Before, Finished
<1>3. Asking'
  <2> USE DEF IInv, Asking, StopWasAsked, CancelWasAsked, EndWasStopped, EndsOnlyWhenAsked, LoopFirst,
          StopAsked, Left, LoopRuns, Before, Finished
  <2>1. CASE Launch \/ RunLoop
    BY <2>1
  <2>2. CASE FindTarget
    BY <2>2
  <2>3. CASE CancelRest \/ Join \/ Cleanup
    BY <2>3
  <2>4. CASE LoopEnds
    <3>1. streams = "failed" \/ StopAsked
      BY <2>4, TypeParts DEF PlacesOK
    <3> QED
      BY <2>4, <3>1
  <2> QED
    BY <2>1, <2>2, <2>3, <2>4
<1>4. FlagFirst' /\ OneGoesToSleep'
  BY DEF IInv, FlagFirst, OneGoesToSleep
<1> QED
  BY <1>1, <1>2, <1>3, <1>4 DEF IInv

LEMMA LoopStep ==
  ASSUME IInv, BackendNext \/ SessionEnds \/ ListenerFails \/ StartStreams \/ StreamsEnd \/ StreamsFail
  PROVE  IInv'
<1> USE DEF BackendNext, SessionEnds, StartStreams, StreamsEnd, Round, Rebuild, Connect, SessionClosed,
        ListenerFails, StreamsFail, Retry, Awake, CancelHits, backendVars, restartVars, sleepVars, stopVars
<1>1. TypeOK'
  <2>0. FlagsOK /\ PlacesOK /\ NumbersOK
    BY TypeParts DEF IInv
  <2>1. FlagsOK'
    <3>1. lost' = lost \/ lost' = (main = "joining")
      BY Zenon
    <3>2. lost' \in BOOLEAN
      BY <2>0, <3>1, Zenon DEF FlagsOK
    <3>3. /\ managed' \in BOOLEAN /\ target' \in BOOLEAN /\ appStop' \in BOOLEAN /\ stopEvent' \in BOOLEAN
          /\ failed' \in BOOLEAN /\ restart' \in BOOLEAN /\ requested' \in BOOLEAN /\ missed' \in BOOLEAN
          /\ cancelled' \in BOOLEAN
      BY <2>0, ZenonT(60) DEF FlagsOK
    <3> QED
      BY <3>2, <3>3, Zenon DEF FlagsOK
  <2>2. PlacesOK'
    BY <2>0 DEF PlacesOK, Closers, Sleepers, Finished
  <2>3. NumbersOK'
    BY <2>0, MaxAttemptsAssumption DEF NumbersOK
  <2> QED
    BY <2>1, <2>2, <2>3, TypePartsNext
<1>2. LoopFirst'
  BY DEF IInv, TypeOK, LoopFirst, LoopRuns, Before, Finished
<1>3. Asking'
  BY DEF IInv, TypeOK, LoopFirst, FlagFirst, Asking, StopWasAsked, CancelWasAsked, EndWasStopped, EndsOnlyWhenAsked,
     StopAsked, Left, LoopRuns, Before, Closers, Sleepers, Finished
<1>4. FlagFirst' /\ OneGoesToSleep'
  BY DEF IInv, FlagFirst, OneGoesToSleep
<1> QED
  BY <1>1, <1>2, <1>3, <1>4 DEF IInv

LEMMA SettingsStep ==
  ASSUME IInv, NEW r \in Requests, Settings(r)
  PROVE  IInv'
<1> USE DEF Settings, SaveConfig, RestartBegins, RestartCloses, HandlerShutDown, backendVars, restartVars, sleepVars, stopVars
<1>1. TypeOK'
  <2>0. FlagsOK /\ PlacesOK /\ NumbersOK
    BY TypeParts DEF IInv
  <2>1. FlagsOK'
    BY <2>0, ZenonT(60) DEF FlagsOK
  <2>2. PlacesOK'
    BY <2>0 DEF PlacesOK, Closers, Sleepers, Finished
  <2>3. NumbersOK'
    BY <2>0, MaxRequestsAssumption DEF NumbersOK, Requests
  <2> QED
    BY <2>1, <2>2, <2>3, TypePartsNext
<1>2. LoopFirst'
  BY DEF IInv, TypeOK, LoopFirst, LoopRuns, Before, Finished
<1>3. Asking'
  BY DEF IInv, TypeOK, LoopFirst, FlagFirst, Asking, StopWasAsked, CancelWasAsked, EndWasStopped, EndsOnlyWhenAsked,
     StopAsked, Left, LoopRuns, Before, Closers, Sleepers, Finished
<1>4. FlagFirst' /\ OneGoesToSleep'
  BY DEF IInv, FlagFirst, OneGoesToSleep
<1> QED
  BY <1>1, <1>2, <1>3, <1>4 DEF IInv

LEMMA StoppingStep ==
  ASSUME IInv, Stopping
  PROVE  IInv'
<1> USE DEF Stopping, DaemonStops, PollStop, Close, StoreStop, backendVars, restartVars, sleepVars, stopVars
<1>1. TypeOK'
  <2>0. FlagsOK /\ PlacesOK /\ NumbersOK
    BY TypeParts DEF IInv
  <2>1. FlagsOK'
    <3>1. cancelled' = cancelled \/ cancelled' = (backend \notin Finished)
      BY Zenon
    <3>2. cancelled' \in BOOLEAN
      BY <2>0, <3>1, Zenon DEF FlagsOK
    <3>3. /\ managed' \in BOOLEAN /\ target' \in BOOLEAN /\ appStop' \in BOOLEAN /\ stopEvent' \in BOOLEAN
          /\ failed' \in BOOLEAN /\ restart' \in BOOLEAN /\ requested' \in BOOLEAN /\ missed' \in BOOLEAN
          /\ lost' \in BOOLEAN
      BY <2>0, ZenonT(60) DEF FlagsOK
    <3> QED
      BY <3>2, <3>3, Zenon DEF FlagsOK
  <2>2. PlacesOK'
    BY <2>0 DEF PlacesOK, Closers, Sleepers, Finished
  <2>3. NumbersOK'
    BY <2>0 DEF NumbersOK
  <2> QED
    BY <2>1, <2>2, <2>3, TypePartsNext
<1>2. LoopFirst'
  BY DEF IInv, TypeOK, LoopFirst, LoopRuns, Before, Finished
<1>3. Asking'
  BY DEF IInv, TypeOK, LoopFirst, FlagFirst, Asking, StopWasAsked, CancelWasAsked, EndWasStopped, EndsOnlyWhenAsked,
     StopAsked, Left, LoopRuns, Before, Closers, Sleepers, Finished
<1>4. FlagFirst' /\ OneGoesToSleep'
  BY DEF IInv, FlagFirst, OneGoesToSleep
<1> QED
  BY <1>1, <1>2, <1>3, <1>4 DEF IInv

LEMMA SleepingStep ==
  ASSUME IInv, NEW s \in Sleepers, Sleeping(s)
  PROVE  IInv'
<1> USE DEF Sleeping, SleepBegins, SleepAsks, Asked, SleepSignals, backendVars, restartVars, stopVars
<1>1. TypeOK'
  <2>0. FlagsOK /\ PlacesOK /\ NumbersOK
    BY TypeParts DEF IInv
  <2>1. FlagsOK'
    BY <2>0, ZenonT(60) DEF FlagsOK
  <2>2. PlacesOK'
    BY <2>0 DEF PlacesOK, Closers, Sleepers, Finished
  <2>3. NumbersOK'
    BY <2>0 DEF NumbersOK
  <2> QED
    BY <2>1, <2>2, <2>3, TypePartsNext
<1>2. LoopFirst'
  BY DEF IInv, LoopFirst, LoopRuns
<1>3. Asking'
  BY DEF IInv, TypeOK, LoopFirst, FlagFirst, Asking, StopWasAsked, CancelWasAsked, EndWasStopped, EndsOnlyWhenAsked,
     StopAsked, Left, LoopRuns, Before, Closers, Sleepers, Finished
<1>4. FlagFirst'
  BY DEF IInv, TypeOK, FlagFirst
<1>5. OneGoesToSleep'
  BY DEF IInv, TypeOK, FlagFirst, OneGoesToSleep
<1> QED
  BY <1>1, <1>2, <1>3, <1>4, <1>5 DEF IInv

LEMMA InitIInv == Init => IInv
<1> SUFFICES ASSUME Init PROVE IInv
  OBVIOUS
<1>1. FlagsOK
  BY DEF Init, FlagsOK
<1>2. PlacesOK /\ NumbersOK
  BY MaxRequestsAssumption, MaxAttemptsAssumption DEF Init, PlacesOK, NumbersOK
<1>3. Asking /\ LoopFirst /\ FlagFirst /\ OneGoesToSleep
  BY DEF Init, Asking, StopWasAsked, CancelWasAsked, EndWasStopped, EndsOnlyWhenAsked, Left, Before, Finished, LoopFirst, FlagFirst, OneGoesToSleep, LoopRuns
<1> QED
  BY <1>1, <1>2, <1>3, TypeParts DEF IInv

LEMMA StepIInv == IInv /\ [Next]_vars => IInv'
<1> SUFFICES ASSUME IInv, [Next]_vars PROVE IInv'
  OBVIOUS
<1>1. CASE UNCHANGED vars
  BY <1>1 DEF IInv, TypeOK, Asking, StopWasAsked, CancelWasAsked, EndWasStopped, EndsOnlyWhenAsked, StopAsked, Left,
     LoopFirst, FlagFirst, OneGoesToSleep, LoopRuns, vars, backendVars, restartVars, sleepVars, stopVars
<1> QED
  BY <1>1, MainStep, LoopStep, SettingsStep, StoppingStep, SleepingStep DEF Next, Settings, Stopping, Sleeping

\* The flags and places of the threads keep their kinds, and start_up makes no
\* more than its limit of attempts.
THEOREM LifecycleTypes == Spec => []TypeOK
<1>1. IInv => TypeOK
  BY DEF IInv
<1> QED
  BY <1>1, InitIInv, StepIInv, PTL DEF Spec

\* Whatever fails behind it, the application goes on until it is asked to stop.
THEOREM OnlyAskingEndsTheApp == Spec => []EndsOnlyWhenAsked
<1>1. IInv => EndsOnlyWhenAsked
  BY DEF IInv, Asking
<1> QED
  BY <1>1, InitIInv, StepIInv, PTL DEF Spec

\* The sleep pose and the stop of the application have one author.
THEOREM SleepHasOneAuthor == Spec => []OneGoesToSleep
<1>1. IInv => OneGoesToSleep
  BY DEF IInv
<1> QED
  BY <1>1, InitIInv, StepIInv, PTL DEF Spec
===============================================================================
