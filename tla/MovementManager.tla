--------------------------- MODULE MovementManager ---------------------------
(***************************************************************************)
(* MovementManager (moves.py): callers of other threads post commands to a *)
(* queue; one worker thread applies them, runs the primary moves one after *)
(* the other, starts breathing when the robot is idle, and publishes what  *)
(* callers may read.  The robot's head tracker is modelled by what the     *)
(* worker tells it.                                                        *)
(*                                                                         *)
(* Poses are left out.  Of time remain three facts: the move being played  *)
(* is over, the idle delay has passed, the debounce window is open.        *)
(***************************************************************************)
EXTENDS Naturals, Sequences

CONSTANTS
  Moves,     \* primary moves queued during the run: dances, emotions, gotos
  Breathing, \* the idle BreathingMove
  NoMove,    \* None
  MaxCalls,  \* bound: calls other than queue_move
  MayFail    \* whether calls to the robot can raise

ASSUME MovesAssumption == Breathing \notin Moves /\ NoMove \notin Moves /\ Breathing # NoMove
ASSUME MaxCallsAssumption == MaxCalls \in Nat
ASSUME MayFailAssumption == MayFail \in BOOLEAN

VARIABLES
  commands,     \* _command_queue
  shared,       \* _shared_is_listening
  \* the worker
  pc,           \* where its loop is
  queue,        \* move_queue
  current,      \* state.current_move
  over,         \* its duration has passed
  breathing,    \* _breathing_active
  idle,         \* idle_inactivity_delay has passed since the last activity
  listening,    \* _is_listening
  window,       \* _listening_debounce_s has not passed since the last toggle
  tracking,     \* _head_tracking
  speaking,     \* _is_speaking
  anchor,       \* _track_anchor is not None
  tracker,      \* the robot's head tracker
  failed,       \* history: a call to it has failed
  \* stop
  stopping,     \* where stop() is
  \* history
  calls,        \* calls made, other than queue_move
  called,       \* moves in the order of queue_move
  started,      \* moves in the order they were started
  discarded     \* moves discarded by clear_move_queue

moveVars == <<queue, current, over, breathing>>
listenVars == <<listening, window>>
headVars == <<tracking, speaking, anchor, tracker, failed>>
callVars == <<calls, called>>
histVars == <<started, discarded>>
vars == <<commands, shared, pc, moveVars, idle, listenVars, headVars, stopping, callVars, histVars>>

Command ==
  [op : {"queue_move"}, arg : Moves]
    \cup [op : {"clear_queue", "mark_activity"}, arg : {NoMove}]
    \cup [op : {"set_listening", "set_head_tracking", "set_speaking"}, arg : BOOLEAN]

TypeOK ==
  /\ commands \in Seq(Command)
  /\ shared \in BOOLEAN
  /\ pc \in {"top", "poll", "queue", "breathe", "exited"}
  /\ queue \in Seq(Moves \cup {Breathing})
  /\ current \in Moves \cup {Breathing, NoMove}
  /\ over \in BOOLEAN /\ breathing \in BOOLEAN /\ idle \in BOOLEAN
  /\ listening \in BOOLEAN /\ window \in BOOLEAN
  /\ tracking \in BOOLEAN /\ speaking \in BOOLEAN /\ anchor \in BOOLEAN
  /\ tracker \in {"off", "following", "paused"} /\ failed \in BOOLEAN
  /\ stopping \in {"no", "joining", "stopped"}
  /\ calls \in Nat
  /\ called \in Seq(Moves) /\ started \in Seq(Moves)
  /\ discarded \in SUBSET Moves

\* The window that opens with the manager has passed when the first session opens.
Init ==
  /\ commands = <<>> /\ shared = FALSE
  /\ pc = "top"
  /\ queue = <<>> /\ current = NoMove /\ over = FALSE /\ breathing = FALSE
  /\ idle = FALSE
  /\ listening = FALSE /\ window = FALSE
  /\ tracking = FALSE /\ speaking = FALSE /\ anchor = FALSE /\ tracker = "off" /\ failed = FALSE
  /\ stopping = "no"
  /\ calls = 0 /\ called = <<>>
  /\ started = <<>> /\ discarded = {}

Elements(s) == {s[i] : i \in DOMAIN s}

-----------------------------------------------------------------------------
(* Calls of other threads *)

Post(op, arg) == commands' = Append(commands, [op |-> op, arg |-> arg])

QueueMove(m) ==
  /\ m \notin Elements(called)
  /\ stopping # "stopped"
  /\ Post("queue_move", m)
  /\ called' = Append(called, m)
  /\ UNCHANGED <<shared, pc, moveVars, idle, listenVars, headVars, stopping, calls, histVars>>

\* clear_move_queue, set_moving_state, set_head_tracking and set_speaking post at once.
PostCall(op, arg) ==
  /\ stopping # "stopped"
  /\ calls < MaxCalls
  /\ calls' = calls + 1
  /\ Post(op, arg)
  /\ UNCHANGED <<shared, pc, moveVars, idle, listenVars, headVars, stopping, called, histVars>>

\* A call that asks for what was published last is dropped.
SetListening(b) ==
  /\ stopping # "stopped"
  /\ calls < MaxCalls
  /\ calls' = calls + 1
  /\ IF shared = b THEN UNCHANGED commands ELSE Post("set_listening", b)
  /\ UNCHANGED <<shared, pc, moveVars, idle, listenVars, headVars, stopping, called, histVars>>

-----------------------------------------------------------------------------
(* The worker applies commands: _handle_command *)

Take(op) ==
  /\ pc = "poll"
  /\ commands # <<>>
  /\ Head(commands).op = op
  /\ commands' = Tail(commands)

Arg == Head(commands).arg

\* Mutant: the whole command is queued.
QueueCommand ==
  /\ Take("queue_move")
  /\ queue' = Append(queue, Head(commands))
  /\ idle' = FALSE
  /\ UNCHANGED <<shared, pc, current, over, breathing, listenVars, headVars, stopping, callVars, histVars>>

HandleQueueMove ==
  /\ Take("queue_move")
  /\ queue' = Append(queue, Arg)
  /\ idle' = FALSE
  /\ UNCHANGED <<shared, pc, current, over, breathing, listenVars, headVars, stopping, callVars, histVars>>

\* Mutant: the breathing flag survives clear_move_queue.
ClearKeepsFlag ==
  /\ Take("clear_queue")
  /\ queue' = <<>>
  /\ current' = NoMove /\ over' = FALSE
  /\ discarded' = discarded \cup (Elements(queue) \cap Moves)
  /\ UNCHANGED <<shared, pc, breathing, idle, listenVars, headVars, stopping, callVars, started>>

HandleClear ==
  /\ Take("clear_queue")
  /\ queue' = <<>>
  /\ current' = NoMove /\ over' = FALSE
  /\ breathing' = FALSE
  /\ discarded' = discarded \cup (Elements(queue) \cap Moves)
  /\ UNCHANGED <<shared, pc, idle, listenVars, headVars, stopping, callVars, started>>

HandleActivity ==
  /\ Take("mark_activity")
  /\ idle' = FALSE
  /\ UNCHANGED <<shared, pc, moveVars, listenVars, headVars, stopping, callVars, histVars>>

\* A toggle within the debounce window is dropped; one outside opens the window
\* again, even when it changes nothing.
HandleListening ==
  /\ Take("set_listening")
  /\ window' = TRUE
  /\ IF window \/ listening = Arg
     THEN UNCHANGED <<listening, idle>>
     ELSE listening' = Arg /\ idle' = FALSE
  /\ UNCHANGED <<shared, pc, moveVars, headVars, stopping, callVars, histVars>>

\* The robot is told, or the call to it raises.
Tell(state) ==
  \/ tracker' = state /\ UNCHANGED failed
  \/ MayFail /\ failed' = TRUE /\ UNCHANGED tracker

\* Mutant: the speaking state survives a toggle of the tracking.
TrackingKeepsSpeaking ==
  /\ Take("set_head_tracking")
  /\ IF tracking = Arg
     THEN UNCHANGED headVars
     ELSE /\ tracking' = Arg
          /\ Tell(IF Arg THEN "following" ELSE "off")
          /\ UNCHANGED <<speaking, anchor>>
  /\ UNCHANGED <<shared, pc, moveVars, idle, listenVars, stopping, callVars, histVars>>

HandleTracking ==
  /\ Take("set_head_tracking")
  /\ IF tracking = Arg
     THEN UNCHANGED headVars
     ELSE /\ tracking' = Arg
          /\ anchor' = FALSE
          /\ speaking' = FALSE
          /\ Tell(IF Arg THEN "following" ELSE "off")
  /\ UNCHANGED <<shared, pc, moveVars, idle, listenVars, stopping, callVars, histVars>>

\* Mutant: the anchor is dropped only after the robot was told.
SpeakingTellsFirst ==
  /\ Take("set_speaking")
  /\ \/ /\ ~tracking \/ speaking = Arg
        /\ UNCHANGED headVars
     \/ /\ tracking /\ speaking # Arg
        /\ speaking' = Arg
        /\ \/ Arg /\ UNCHANGED <<anchor, tracker, failed>>
           \/ Arg /\ anchor' = TRUE /\ Tell("paused")
           \/ ~Arg /\ anchor' = FALSE /\ tracker' = "following" /\ UNCHANGED failed
           \/ ~Arg /\ MayFail /\ failed' = TRUE /\ UNCHANGED <<anchor, tracker>>
        /\ UNCHANGED tracking
  /\ UNCHANGED <<shared, pc, moveVars, idle, listenVars, stopping, callVars, histVars>>

\* Speech pauses the tracker and anchors the head if a face is locked.
HandleSpeaking ==
  /\ Take("set_speaking")
  /\ \/ /\ ~tracking \/ speaking = Arg
        /\ UNCHANGED headVars
     \/ /\ tracking /\ speaking # Arg
        /\ speaking' = Arg
        /\ \/ Arg /\ UNCHANGED <<anchor, tracker, failed>>
           \/ Arg /\ anchor' = TRUE /\ Tell("paused")
           \/ ~Arg /\ anchor' = FALSE /\ Tell("following")
        /\ UNCHANGED tracking
  /\ UNCHANGED <<shared, pc, moveVars, idle, listenVars, stopping, callVars, histVars>>

-----------------------------------------------------------------------------
(* The worker's loop: working_loop *)

\* The stop event is read between two ticks.
LoopTop ==
  /\ pc = "top"
  /\ pc' = IF stopping = "no" THEN "poll" ELSE "exited"
  /\ UNCHANGED <<commands, shared, moveVars, idle, listenVars, headVars, stopping, callVars, histVars>>

PollEnds ==
  /\ pc = "poll"
  /\ commands = <<>>
  /\ pc' = "queue"
  /\ UNCHANGED <<commands, shared, moveVars, idle, listenVars, headVars, stopping, callVars, histVars>>

\* Mutant: the newest move is started first.
ManageQueueFromTheEnd ==
  /\ pc = "queue"
  /\ pc' = "breathe"
  /\ IF current # NoMove /\ ~over
     THEN UNCHANGED <<moveVars, started>>
     ELSE /\ over' = FALSE
          /\ IF queue = <<>>
             THEN current' = NoMove /\ UNCHANGED <<queue, breathing, started>>
             ELSE LET last == queue[Len(queue)] IN
                    /\ current' = last
                    /\ queue' = SubSeq(queue, 1, Len(queue) - 1)
                    /\ breathing' = (last = Breathing)
                    /\ started' = IF last \in Moves THEN Append(started, last) ELSE started
  /\ UNCHANGED <<commands, shared, idle, listenVars, headVars, stopping, callVars, discarded>>

\* _manage_move_queue: without a move, or when it is over, start the next.
ManageQueue ==
  /\ pc = "queue"
  /\ pc' = "breathe"
  /\ \/ /\ current # NoMove /\ ~over
        /\ UNCHANGED <<moveVars, started>>
     \/ /\ current = NoMove \/ over
        /\ over' = FALSE
        /\ \/ /\ queue = <<>>
              /\ current' = NoMove
              /\ UNCHANGED <<queue, breathing, started>>
           \/ /\ queue # <<>>
              /\ current' = Head(queue)
              /\ queue' = Tail(queue)
              /\ breathing' = (Head(queue) = Breathing)
              /\ started' = IF Head(queue) \in Moves THEN Append(started, Head(queue)) ELSE started
  /\ UNCHANGED <<commands, shared, idle, listenVars, headVars, stopping, callVars, discarded>>

\* Mutant: breathing does not give way to a queued move.
ManageBreathingStubbornly ==
  /\ pc = "breathe"
  /\ pc' = "top"
  /\ shared' = listening
  /\ IF current = NoMove /\ queue = <<>> /\ ~listening /\ ~breathing /\ idle
     THEN queue' = <<Breathing>> /\ breathing' = TRUE /\ idle' = FALSE
     ELSE UNCHANGED <<queue, breathing, idle>>
  /\ UNCHANGED <<commands, current, over, listenVars, headVars, stopping, callVars, histVars>>

\* _manage_breathing, the pose of this tick, and _publish_shared_state.
ManageBreathing ==
  /\ pc = "breathe"
  /\ pc' = "top"
  /\ shared' = listening
  /\ LET mayStart == current = NoMove /\ queue = <<>> /\ ~listening /\ ~breathing /\ idle
     IN \/ /\ mayStart
           /\ queue' = <<Breathing>>
           /\ breathing' = TRUE
           /\ idle' = FALSE
           /\ UNCHANGED <<current, over>>
        \/ /\ mayStart /\ MayFail
           /\ UNCHANGED <<moveVars, idle>>
        \/ /\ ~mayStart
           /\ IF current = Breathing /\ queue # <<>>
              THEN current' = NoMove /\ over' = FALSE /\ breathing' = FALSE
              ELSE /\ breathing' = (breathing /\ current \in {NoMove, Breathing})
                   /\ UNCHANGED <<current, over>>
           /\ UNCHANGED <<queue, idle>>
  /\ UNCHANGED <<commands, listenVars, headVars, stopping, callVars, histVars>>

-----------------------------------------------------------------------------
(* Time *)

MoveEnds ==
  /\ current \in Moves
  /\ over' = TRUE
  /\ UNCHANGED <<commands, shared, pc, queue, current, breathing, idle, listenVars, headVars, stopping,
                 callVars, histVars>>

IdleDelayPasses ==
  /\ idle' = TRUE
  /\ UNCHANGED <<commands, shared, pc, moveVars, listenVars, headVars, stopping, callVars, histVars>>

DebouncePasses ==
  /\ window' = FALSE
  /\ UNCHANGED <<commands, shared, pc, moveVars, idle, listening, headVars, stopping, callVars, histVars>>

-----------------------------------------------------------------------------
(* stop *)

\* Post clear_queue, set the stop event, join the worker.
Stop ==
  /\ stopping = "no"
  /\ stopping' = "joining"
  /\ Post("clear_queue", NoMove)
  /\ UNCHANGED <<shared, pc, moveVars, idle, listenVars, headVars, callVars, histVars>>

\* Mutant: the head is released without waiting for the worker.
StopReturnsUnjoined ==
  /\ stopping = "joining"
  /\ stopping' = "stopped"
  /\ IF tracking THEN Tell("off") ELSE UNCHANGED <<tracker, failed>>
  /\ UNCHANGED <<commands, shared, pc, moveVars, idle, listenVars, tracking, speaking, anchor,
                 callVars, histVars>>

\* The worker is joined: release the head if it is tracked.
StopReturns ==
  /\ stopping = "joining"
  /\ pc = "exited"
  /\ stopping' = "stopped"
  /\ IF tracking THEN Tell("off") ELSE UNCHANGED <<tracker, failed>>
  /\ UNCHANGED <<commands, shared, pc, moveVars, idle, listenVars, tracking, speaking, anchor,
                 callVars, histVars>>

-----------------------------------------------------------------------------
Calls ==
  \/ \E m \in Moves : QueueMove(m)
  \/ \E op \in {"clear_queue", "mark_activity"} : PostCall(op, NoMove)
  \/ \E op \in {"set_head_tracking", "set_speaking"}, b \in BOOLEAN : PostCall(op, b)
  \/ \E b \in BOOLEAN : SetListening(b)

Handle ==
  HandleQueueMove \/ HandleClear \/ HandleActivity \/ HandleListening \/ HandleTracking \/ HandleSpeaking

Worker == Handle \/ LoopTop \/ PollEnds \/ ManageQueue \/ ManageBreathing

Next ==
  \/ Calls
  \/ Worker
  \/ MoveEnds \/ IdleDelayPasses \/ DebouncePasses
  \/ Stop \/ StopReturns

Spec == Init /\ [][Next]_vars

\* The worker thread runs, and moves end.
FairSpec == Spec /\ WF_vars(Worker) /\ WF_vars(MoveEnds)

-----------------------------------------------------------------------------
(* Properties *)

\* _breathing_active is "true when breathing move is running or queued"
\* (moves.py:223), at every point of the loop and whatever is queued or cleared: a
\* flag left behind would end idle breathing for good.
BreathingFlagAgrees ==
  breathing <=> (current = Breathing \/ Breathing \in Elements(queue))

\* Moves are started in the order they were queued, each at most once, whatever
\* breathing and clearing do in between.
MovesStartInOrder ==
  \A i, j \in DOMAIN started : i < j =>
    \E k, l \in DOMAIN called : k < l /\ called[k] = started[i] /\ called[l] = started[j]

\* A queued move is started unless it is discarded by clear_move_queue or stop().
QueuedMoveRuns ==
  \A m \in Moves : m \in Elements(called) ~>
    (m \in Elements(started) \cup discarded \/ stopping # "no")

\* The look-at anchor only holds the head while the assistant speaks and tracking is
\* on; a failing robot call never leaves it behind.
AnchorOnlyWhileSpeaking == anchor => speaking /\ tracking

\* What the manager believes of the head tracker is what the robot does, unless a
\* call to the robot failed: queued moves and the tracker never both own the head.
TrackerAgrees ==
  ~failed /\ stopping # "stopped" =>
    tracker = IF ~tracking THEN "off" ELSE IF anchor THEN "paused" ELSE "following"

\* stop() leaves the head to nobody, whatever was in the command queue.
StopReleasesHead == ~failed /\ stopping = "stopped" => tracker = "off"
==============================================================================
