------------------------ MODULE MovementManagerProofs ------------------------
(***************************************************************************)
(* Proofs about MovementManager: type correctness, the breathing flag, the *)
(* order of the moves, and who owns the robot's head.                      *)
(***************************************************************************)
EXTENDS MovementManager, TLAPS

-----------------------------------------------------------------------------
(* Sequences *)

LEMMA AppendFacts ==
  ASSUME NEW S, NEW s \in Seq(S), NEW e \in S
  PROVE  /\ Append(s, e) \in Seq(S)
         /\ DOMAIN Append(s, e) = 1 .. Len(s) + 1
         /\ \A i \in 1 .. Len(s) : Append(s, e)[i] = s[i]
         /\ Append(s, e)[Len(s) + 1] = e
         /\ Len(Append(s, e)) = Len(s) + 1
         /\ DOMAIN s = 1 .. Len(s) /\ Len(s) \in Nat
  OBVIOUS

LEMMA TailFacts ==
  ASSUME NEW S, NEW s \in Seq(S), s # <<>>
  PROVE  /\ Tail(s) \in Seq(S)
         /\ Head(s) = s[1] /\ Head(s) \in S
         /\ Len(s) \in Nat \ {0} /\ DOMAIN s = 1 .. Len(s)
         /\ DOMAIN Tail(s) = 1 .. Len(s) - 1
         /\ \A i \in 1 .. Len(s) - 1 : Tail(s)[i] = s[i + 1]
  OBVIOUS

-----------------------------------------------------------------------------
(* Type correctness *)

\* The type invariant, in two parts.
QueueTypes ==
  /\ queue \in Seq(Moves \cup {Breathing})
  /\ called \in Seq(Moves) /\ started \in Seq(Moves)
  /\ discarded \in SUBSET Moves

FlagTypes ==
  /\ shared \in BOOLEAN
  /\ pc \in {"top", "poll", "queue", "breathe", "exited"}
  /\ current \in Moves \cup {Breathing, NoMove}
  /\ over \in BOOLEAN /\ breathing \in BOOLEAN /\ idle \in BOOLEAN
  /\ listening \in BOOLEAN /\ window \in BOOLEAN
  /\ tracking \in BOOLEAN /\ speaking \in BOOLEAN /\ anchor \in BOOLEAN
  /\ tracker \in {"off", "following", "paused"} /\ failed \in BOOLEAN
  /\ stopping \in {"no", "joining", "stopped"}
  /\ calls \in Nat

LEMMA TypeParts == TypeOK <=> commands \in Seq(Command) /\ QueueTypes /\ FlagTypes
  BY DEF TypeOK, QueueTypes, FlagTypes

LEMMA InitTypeOK == Init => TypeOK
<1> SUFFICES ASSUME Init PROVE TypeOK
  OBVIOUS
<1>1. commands \in Seq(Command)
  BY DEF Init
<1>2. QueueTypes
  <2>1. /\ <<>> \in Seq(Moves \cup {Breathing})
        /\ <<>> \in Seq(Moves)
    OBVIOUS
  <2> QED
    BY <2>1 DEF Init, QueueTypes
<1>3. FlagTypes
  BY DEF Init, FlagTypes
<1> QED
  BY <1>1, <1>2, <1>3, TypeParts

\* What a posted command leaves of the type invariant.
LEMMA PostTypes ==
  ASSUME NEW op, NEW arg, [op |-> op, arg |-> arg] \in Command, commands \in Seq(Command), Post(op, arg)
  PROVE  commands' \in Seq(Command)
  BY AppendFacts DEF Post

LEMMA TakeTypes ==
  ASSUME NEW op, commands \in Seq(Command), Take(op)
  PROVE  /\ commands' \in Seq(Command)
         /\ Head(commands) \in Command
         /\ op = "queue_move" => Arg \in Moves
         /\ op \in {"set_listening", "set_head_tracking", "set_speaking"} => Arg \in BOOLEAN
<1>1. commands # <<>> /\ commands' = Tail(commands) /\ Head(commands).op = op
  BY DEF Take
<1>2. commands' \in Seq(Command) /\ Head(commands) \in Command
  BY <1>1, TailFacts
<1> QED
  BY <1>1, <1>2 DEF Command, Arg

LEMMA NextTypeOK == TypeOK /\ [Next]_vars => TypeOK'
<1> SUFFICES ASSUME TypeOK, [Next]_vars PROVE TypeOK'
  OBVIOUS
<1>0. commands \in Seq(Command) /\ QueueTypes /\ FlagTypes
  BY TypeParts
<1> USE DEF moveVars, listenVars, headVars, callVars, histVars
<1>1. ASSUME NEW m \in Moves, QueueMove(m) PROVE TypeOK'
  <2>1. commands' \in Seq(Command)
    BY <1>0, <1>1, PostTypes DEF QueueMove, Command
  <2>2. QueueTypes'
    BY <1>0, <1>1, AppendFacts DEF QueueMove, QueueTypes
  <2>3. FlagTypes'
    BY <1>0, <1>1 DEF QueueMove, FlagTypes
  <2> QED
    BY <2>1, <2>2, <2>3 DEF TypeOK, QueueTypes, FlagTypes
<1>2. ASSUME NEW op, NEW arg, [op |-> op, arg |-> arg] \in Command, PostCall(op, arg) PROVE TypeOK'
  <2>1. commands' \in Seq(Command)
    BY <1>0, <1>2, PostTypes DEF PostCall
  <2>2. QueueTypes'
    BY <1>0, <1>2 DEF PostCall, QueueTypes
  <2>3. FlagTypes'
    BY <1>0, <1>2 DEF PostCall, FlagTypes
  <2> QED
    BY <2>1, <2>2, <2>3 DEF TypeOK, QueueTypes, FlagTypes
<1>3. ASSUME NEW b \in BOOLEAN, SetListening(b) PROVE TypeOK'
  <2>1. commands' \in Seq(Command)
    BY <1>0, <1>3, PostTypes DEF SetListening, Command
  <2>2. QueueTypes'
    BY <1>0, <1>3 DEF SetListening, QueueTypes
  <2>3. FlagTypes'
    BY <1>0, <1>3 DEF SetListening, FlagTypes
  <2> QED
    BY <2>1, <2>2, <2>3 DEF TypeOK, QueueTypes, FlagTypes
<1>4. CASE HandleQueueMove
  <2>1. commands' \in Seq(Command)
    BY <1>0, <1>4, TakeTypes DEF HandleQueueMove
  <2>2. QueueTypes'
    <3>1. Arg \in Moves
      BY <1>0, <1>4, TakeTypes DEF HandleQueueMove
    <3>2. Append(queue, Arg) \in Seq(Moves \cup {Breathing})
      BY <1>0, <3>1, AppendFacts DEF QueueTypes
    <3> QED
      BY <1>0, <1>4, <3>2 DEF HandleQueueMove, QueueTypes
  <2>3. FlagTypes'
    <3>1. idle' \in BOOLEAN
      BY <1>0, <1>4 DEF HandleQueueMove, FlagTypes
    <3>2. UNCHANGED <<shared, pc, current, over, breathing, listening, window, tracking, speaking, anchor, tracker, failed, stopping, calls>>
      BY <1>4 DEF HandleQueueMove
    <3> QED
      BY <1>0, <3>1, <3>2 DEF FlagTypes
  <2> QED
    BY <2>1, <2>2, <2>3 DEF TypeOK, QueueTypes, FlagTypes
<1>5. CASE HandleClear
  <2>1. commands' \in Seq(Command)
    BY <1>0, <1>5, TakeTypes DEF HandleClear
  <2>2. QueueTypes'
    <3>1. <<>> \in Seq(Moves \cup {Breathing})
      OBVIOUS
    <3> QED
      BY <1>0, <1>5, <3>1 DEF HandleClear, QueueTypes
  <2>3. FlagTypes'
    <3>1. over' \in BOOLEAN
      BY <1>0, <1>5 DEF HandleClear, FlagTypes
    <3>2. breathing' \in BOOLEAN
      BY <1>0, <1>5 DEF HandleClear, FlagTypes
    <3>3. current' = NoMove /\ UNCHANGED <<shared, pc, idle, listening, window, tracking, speaking, anchor, tracker, failed, stopping, calls>>
      BY <1>5 DEF HandleClear
    <3> QED
      BY <1>0, <3>1, <3>2, <3>3 DEF FlagTypes
  <2> QED
    BY <2>1, <2>2, <2>3 DEF TypeOK, QueueTypes, FlagTypes
<1>6. CASE HandleActivity
  <2>1. commands' \in Seq(Command)
    BY <1>0, <1>6, TakeTypes DEF HandleActivity
  <2>2. QueueTypes'
    BY <1>0, <1>6 DEF HandleActivity, QueueTypes
  <2>3. FlagTypes'
    <3>1. idle' \in BOOLEAN
      BY <1>0, <1>6 DEF HandleActivity, FlagTypes
    <3>2. UNCHANGED <<shared, pc, current, over, breathing, listening, window, tracking, speaking, anchor, tracker, failed, stopping, calls>>
      BY <1>6 DEF HandleActivity
    <3> QED
      BY <1>0, <3>1, <3>2 DEF FlagTypes
  <2> QED
    BY <2>1, <2>2, <2>3 DEF TypeOK, QueueTypes, FlagTypes
<1>7. CASE HandleListening
  <2>1. commands' \in Seq(Command)
    BY <1>0, <1>7, TakeTypes DEF HandleListening
  <2>2. QueueTypes'
    BY <1>0, <1>7 DEF HandleListening, QueueTypes
  <2>3. FlagTypes'
    <3>1. Arg \in BOOLEAN
      BY <1>0, <1>7, TakeTypes DEF HandleListening
    <3>2. listening' \in BOOLEAN
      BY <1>0, <1>7, <3>1 DEF HandleListening, FlagTypes
    <3>3. window' \in BOOLEAN
      BY <1>0, <1>7, <3>1 DEF HandleListening, FlagTypes
    <3>4. idle' \in BOOLEAN
      BY <1>0, <1>7, <3>1 DEF HandleListening, FlagTypes
    <3>5. UNCHANGED <<shared, pc, current, over, breathing, tracking, speaking, anchor, tracker, failed, stopping, calls>>
      BY <1>7 DEF HandleListening
    <3> QED
      BY <1>0, <3>2, <3>3, <3>4, <3>5 DEF FlagTypes
  <2> QED
    BY <2>1, <2>2, <2>3 DEF TypeOK, QueueTypes, FlagTypes
<1>8. CASE HandleTracking
  <2>1. commands' \in Seq(Command)
    BY <1>0, <1>8, TakeTypes DEF HandleTracking
  <2>2. QueueTypes'
    BY <1>0, <1>8 DEF HandleTracking, QueueTypes
  <2>3. FlagTypes'
    <3>1. Arg \in BOOLEAN
      BY <1>0, <1>8, TakeTypes DEF HandleTracking
    <3>2. tracking' \in BOOLEAN
      BY <1>0, <1>8, <3>1 DEF HandleTracking, FlagTypes, Tell
    <3>3. speaking' \in BOOLEAN
      BY <1>0, <1>8, <3>1 DEF HandleTracking, FlagTypes, Tell
    <3>4. anchor' \in BOOLEAN
      BY <1>0, <1>8, <3>1 DEF HandleTracking, FlagTypes, Tell
    <3>5. tracker' \in {"off", "following", "paused"}
      BY <1>0, <1>8, <3>1 DEF HandleTracking, FlagTypes, Tell
    <3>6. failed' \in BOOLEAN
      BY <1>0, <1>8, <3>1 DEF HandleTracking, FlagTypes, Tell
    <3>7. UNCHANGED <<shared, pc, current, over, breathing, idle, listening, window, stopping, calls>>
      BY <1>8 DEF HandleTracking
    <3> QED
      BY <1>0, <3>2, <3>3, <3>4, <3>5, <3>6, <3>7 DEF FlagTypes
  <2> QED
    BY <2>1, <2>2, <2>3 DEF TypeOK, QueueTypes, FlagTypes
<1>9. CASE HandleSpeaking
  <2>1. commands' \in Seq(Command)
    BY <1>0, <1>9, TakeTypes DEF HandleSpeaking
  <2>2. QueueTypes'
    BY <1>0, <1>9 DEF HandleSpeaking, QueueTypes
  <2>3. FlagTypes'
    <3>1. Arg \in BOOLEAN
      BY <1>0, <1>9, TakeTypes DEF HandleSpeaking
    <3>2. tracking' \in BOOLEAN
      BY <1>0, <1>9, <3>1 DEF HandleSpeaking, FlagTypes, Tell
    <3>3. speaking' \in BOOLEAN
      BY <1>0, <1>9, <3>1 DEF HandleSpeaking, FlagTypes, Tell
    <3>4. anchor' \in BOOLEAN
      BY <1>0, <1>9, <3>1 DEF HandleSpeaking, FlagTypes, Tell
    <3>5. tracker' \in {"off", "following", "paused"}
      BY <1>0, <1>9, <3>1 DEF HandleSpeaking, FlagTypes, Tell
    <3>6. failed' \in BOOLEAN
      BY <1>0, <1>9, <3>1 DEF HandleSpeaking, FlagTypes, Tell
    <3>7. UNCHANGED <<shared, pc, current, over, breathing, idle, listening, window, stopping, calls>>
      BY <1>9 DEF HandleSpeaking
    <3> QED
      BY <1>0, <3>2, <3>3, <3>4, <3>5, <3>6, <3>7 DEF FlagTypes
  <2> QED
    BY <2>1, <2>2, <2>3 DEF TypeOK, QueueTypes, FlagTypes
<1>10. CASE LoopTop
  <2>1. commands' \in Seq(Command)
    BY <1>0, <1>10 DEF LoopTop
  <2>2. QueueTypes'
    BY <1>0, <1>10 DEF LoopTop, QueueTypes
  <2>3. FlagTypes'
    BY <1>0, <1>10 DEF LoopTop, FlagTypes
  <2> QED
    BY <2>1, <2>2, <2>3 DEF TypeOK, QueueTypes, FlagTypes
<1>11. CASE PollEnds
  <2>1. commands' \in Seq(Command)
    BY <1>0, <1>11 DEF PollEnds
  <2>2. QueueTypes'
    BY <1>0, <1>11 DEF PollEnds, QueueTypes
  <2>3. FlagTypes'
    BY <1>0, <1>11 DEF PollEnds, FlagTypes
  <2> QED
    BY <2>1, <2>2, <2>3 DEF TypeOK, QueueTypes, FlagTypes
<1>12. CASE ManageQueue
  <2>1. commands' \in Seq(Command)
    BY <1>0, <1>12 DEF ManageQueue
  <2>2. QueueTypes'
    <3>1. CASE queue = <<>> \/ (current # NoMove /\ ~over)
      BY <1>0, <1>12, <3>1 DEF ManageQueue, QueueTypes
    <3>2. CASE queue # <<>> /\ (current = NoMove \/ over)
      <4>1. Tail(queue) \in Seq(Moves \cup {Breathing})
        BY <1>0, <3>2, TailFacts DEF QueueTypes
      <4>2. Head(queue) \in Moves => Append(started, Head(queue)) \in Seq(Moves)
        BY <1>0, AppendFacts DEF QueueTypes
      <4>3. started' \in Seq(Moves)
        BY <1>0, <1>12, <3>2, <4>2 DEF ManageQueue, QueueTypes
      <4>4. queue' = Tail(queue) /\ called' = called /\ discarded' = discarded
        BY <1>12, <3>2 DEF ManageQueue
      <4> QED
        BY <1>0, <4>1, <4>3, <4>4 DEF QueueTypes
    <3> QED
      BY <3>1, <3>2
  <2>3. FlagTypes'
    <3>1. current' \in Moves \cup {Breathing, NoMove}
      <4>1. queue # <<>> => Head(queue) \in Moves \cup {Breathing}
        BY <1>0, TailFacts DEF QueueTypes
      <4> QED
        BY <1>0, <1>12, <4>1 DEF ManageQueue, FlagTypes
    <3>2. over' \in BOOLEAN /\ breathing' \in BOOLEAN /\ pc' = "breathe"
      BY <1>0, <1>12 DEF ManageQueue, FlagTypes
    <3> QED
      BY <1>0, <1>12, <3>1, <3>2 DEF ManageQueue, FlagTypes
  <2> QED
    BY <2>1, <2>2, <2>3 DEF TypeOK, QueueTypes, FlagTypes
<1>13. CASE ManageBreathing
  <2>1. commands' \in Seq(Command)
    BY <1>0, <1>13 DEF ManageBreathing
  <2>2. QueueTypes'
    <3>1. <<Breathing>> \in Seq(Moves \cup {Breathing})
      OBVIOUS
    <3>2. queue' \in Seq(Moves \cup {Breathing})
      BY <1>0, <1>13, <3>1 DEF ManageBreathing, QueueTypes
    <3> QED
      BY <1>0, <1>13, <3>2 DEF ManageBreathing, QueueTypes
  <2>3. FlagTypes'
    <3>1. /\ current' \in Moves \cup {Breathing, NoMove}
          /\ over' \in BOOLEAN /\ breathing' \in BOOLEAN /\ idle' \in BOOLEAN
      BY <1>0, <1>13 DEF ManageBreathing, FlagTypes
    <3> QED
      BY <1>0, <1>13, <3>1 DEF ManageBreathing, FlagTypes
  <2> QED
    BY <2>1, <2>2, <2>3 DEF TypeOK, QueueTypes, FlagTypes
<1>14. CASE MoveEnds
  <2>1. commands' \in Seq(Command)
    BY <1>0, <1>14 DEF MoveEnds
  <2>2. QueueTypes'
    BY <1>0, <1>14 DEF MoveEnds, QueueTypes
  <2>3. FlagTypes'
    BY <1>0, <1>14 DEF MoveEnds, FlagTypes
  <2> QED
    BY <2>1, <2>2, <2>3 DEF TypeOK, QueueTypes, FlagTypes
<1>15. CASE IdleDelayPasses
  <2>1. commands' \in Seq(Command)
    BY <1>0, <1>15 DEF IdleDelayPasses
  <2>2. QueueTypes'
    BY <1>0, <1>15 DEF IdleDelayPasses, QueueTypes
  <2>3. FlagTypes'
    BY <1>0, <1>15 DEF IdleDelayPasses, FlagTypes
  <2> QED
    BY <2>1, <2>2, <2>3 DEF TypeOK, QueueTypes, FlagTypes
<1>16. CASE DebouncePasses
  <2>1. commands' \in Seq(Command)
    BY <1>0, <1>16 DEF DebouncePasses
  <2>2. QueueTypes'
    BY <1>0, <1>16 DEF DebouncePasses, QueueTypes
  <2>3. FlagTypes'
    <3>1. window' \in BOOLEAN
      BY <1>0, <1>16 DEF DebouncePasses, FlagTypes
    <3>2. UNCHANGED <<shared, pc, current, over, breathing, idle, listening, tracking, speaking, anchor, tracker, failed, stopping, calls>>
      BY <1>16 DEF DebouncePasses
    <3> QED
      BY <1>0, <3>1, <3>2 DEF FlagTypes
  <2> QED
    BY <2>1, <2>2, <2>3 DEF TypeOK, QueueTypes, FlagTypes
<1>17. CASE Stop
  <2>1. commands' \in Seq(Command)
    BY <1>0, <1>17, PostTypes DEF Stop, Command
  <2>2. QueueTypes'
    BY <1>0, <1>17 DEF Stop, QueueTypes
  <2>3. FlagTypes'
    BY <1>0, <1>17 DEF Stop, FlagTypes
  <2> QED
    BY <2>1, <2>2, <2>3 DEF TypeOK, QueueTypes, FlagTypes
<1>18. CASE StopReturns
  <2>1. commands' \in Seq(Command)
    BY <1>0, <1>18 DEF StopReturns
  <2>2. QueueTypes'
    BY <1>0, <1>18 DEF StopReturns, QueueTypes
  <2>3. FlagTypes'
    <3>1. tracker' \in {"off", "following", "paused"}
      BY <1>0, <1>18 DEF StopReturns, FlagTypes, Tell
    <3>2. failed' \in BOOLEAN
      BY <1>0, <1>18 DEF StopReturns, FlagTypes, Tell
    <3>3. stopping' = "stopped" /\ UNCHANGED <<shared, pc, current, over, breathing, idle, listening, window, tracking, speaking, anchor, calls>>
      BY <1>18 DEF StopReturns
    <3> QED
      BY <1>0, <3>1, <3>2, <3>3 DEF FlagTypes
  <2> QED
    BY <2>1, <2>2, <2>3 DEF TypeOK, QueueTypes, FlagTypes
<1>19. CASE UNCHANGED vars
  BY <1>0, <1>19 DEF vars, TypeOK, QueueTypes, FlagTypes
<1>20. CASE Calls
  BY <1>1, <1>2, <1>3, <1>20 DEF Calls, Command
<1> QED
  BY <1>4, <1>5, <1>6, <1>7, <1>8, <1>9, <1>10, <1>11, <1>12, <1>13, <1>14, <1>15, <1>16,
     <1>17, <1>18, <1>19, <1>20 DEF Next, Worker, Handle

\* Every variable of the manager keeps its type (moves.py: MovementManager).
THEOREM TypeCorrect == Spec => []TypeOK
<1> QED
  BY InitTypeOK, NextTypeOK, PTL DEF Spec

-----------------------------------------------------------------------------
(* The breathing flag *)

\* A queued BreathingMove is the first in the queue, and then no move is played;
\* only a queued move can be over.
BreathingInv ==
  /\ BreathingFlagAgrees
  /\ \A i \in DOMAIN queue : queue[i] = Breathing => i = 1 /\ current = NoMove
  /\ over => current \in Moves

LEMMA InitBreathingInv == Init => BreathingInv
  BY MovesAssumption DEF Init, BreathingInv, BreathingFlagAgrees, Elements

LEMMA NextBreathingInv == TypeOK /\ BreathingInv /\ [Next]_vars => BreathingInv'
<1> SUFFICES ASSUME TypeOK, BreathingInv, [Next]_vars PROVE BreathingInv'
  OBVIOUS
<1>0. /\ queue \in Seq(Moves \cup {Breathing})
      /\ current \in Moves \cup {Breathing, NoMove}
      /\ Breathing \notin Moves /\ NoMove \notin Moves /\ Breathing # NoMove
  BY MovesAssumption DEF TypeOK
<1>1. CASE UNCHANGED moveVars
  BY <1>1 DEF moveVars, BreathingInv, BreathingFlagAgrees, Elements
<1>2. CASE HandleQueueMove
  <2>1. Arg \in Moves
    BY <1>2, TakeTypes DEF HandleQueueMove, TypeOK
  <2>2. /\ queue' = Append(queue, Arg)
        /\ current' = current /\ over' = over /\ breathing' = breathing
    BY <1>2 DEF HandleQueueMove
  <2>3. /\ DOMAIN queue' = 1 .. Len(queue) + 1 /\ DOMAIN queue = 1 .. Len(queue)
        /\ \A i \in 1 .. Len(queue) : queue'[i] = queue[i]
        /\ queue'[Len(queue) + 1] = Arg
        /\ Len(queue) \in Nat
    BY <1>0, <2>1, <2>2, AppendFacts
  <2>4. \A i \in DOMAIN queue' : queue'[i] = Breathing => i \in DOMAIN queue /\ queue[i] = Breathing
    BY <1>0, <2>1, <2>3
  <2>5. \A i \in DOMAIN queue : i \in DOMAIN queue' /\ queue'[i] = queue[i]
    BY <2>3
  <2>6. Breathing \in Elements(queue)' <=> Breathing \in Elements(queue)
    BY <2>4, <2>5 DEF Elements
  <2> QED
    BY <2>2, <2>4, <2>6 DEF BreathingInv, BreathingFlagAgrees
<1>3. CASE HandleClear
  <2>1. queue' = <<>> /\ current' = NoMove /\ over' = FALSE /\ breathing' = FALSE
    BY <1>3 DEF HandleClear
  <2> QED
    BY <1>0, <2>1 DEF BreathingInv, BreathingFlagAgrees, Elements
<1>4. CASE ManageQueue
  <2>1. CASE current # NoMove /\ ~over
    BY <1>1, <1>4, <2>1 DEF ManageQueue, moveVars
  <2>2. CASE (current = NoMove \/ over) /\ queue = <<>>
    <3>1. queue' = queue /\ current' = NoMove /\ over' = FALSE /\ breathing' = breathing
      BY <1>4, <2>2 DEF ManageQueue
    <3>2. current # Breathing /\ Breathing \notin Elements(queue)
      BY <1>0, <2>2 DEF BreathingInv, Elements
    <3> QED
      BY <1>0, <2>2, <3>1, <3>2 DEF BreathingInv, BreathingFlagAgrees, Elements
  <2>3. CASE (current = NoMove \/ over) /\ queue # <<>>
    <3>1. /\ queue' = Tail(queue) /\ current' = Head(queue)
          /\ over' = FALSE /\ breathing' = (Head(queue) = Breathing)
      BY <1>4, <2>3 DEF ManageQueue
    <3>2. /\ DOMAIN queue = 1 .. Len(queue) /\ Len(queue) \in Nat \ {0}
          /\ DOMAIN queue' = 1 .. Len(queue) - 1
          /\ \A i \in 1 .. Len(queue) - 1 : queue'[i] = queue[i + 1]
      BY <1>0, <2>3, <3>1, TailFacts
    <3>3. \A i \in DOMAIN queue' : queue'[i] # Breathing
      <4> SUFFICES ASSUME NEW i \in DOMAIN queue', queue'[i] = Breathing PROVE FALSE
        OBVIOUS
      <4>1. i + 1 \in DOMAIN queue /\ queue[i + 1] = Breathing /\ i + 1 # 1
        BY <3>2
      <4> QED
        BY <4>1 DEF BreathingInv
    <3>4. Breathing \notin Elements(queue)'
      BY <3>3 DEF Elements
    <3> QED
      BY <3>1, <3>3, <3>4 DEF BreathingInv, BreathingFlagAgrees
  <2> QED
    BY <2>1, <2>2, <2>3
<1>5. CASE ManageBreathing
  <2>1. CASE /\ current = NoMove /\ queue = <<>>
             /\ queue' = <<Breathing>> /\ breathing' = TRUE
             /\ UNCHANGED <<current, over>>
    <3>1. DOMAIN queue' = {1} /\ queue'[1] = Breathing
      BY <2>1
    <3> QED
      BY <2>1, <3>1 DEF BreathingInv, BreathingFlagAgrees, Elements
  <2>2. CASE /\ current = Breathing /\ queue # <<>>
             /\ current' = NoMove /\ over' = FALSE /\ breathing' = FALSE /\ queue' = queue
    <3>1. \A i \in DOMAIN queue : queue[i] # Breathing
      BY <1>0, <2>2 DEF BreathingInv
    <3> QED
      BY <1>0, <2>2, <3>1 DEF BreathingInv, BreathingFlagAgrees, Elements
  <2>3. CASE /\ breathing' = (breathing /\ current \in {NoMove, Breathing})
             /\ UNCHANGED <<current, over, queue>>
    <3>1. breathing => current \in {NoMove, Breathing}
      BY <1>0, <2>3 DEF BreathingInv, BreathingFlagAgrees, Elements
    <3> QED
      BY <2>3, <3>1 DEF BreathingInv, BreathingFlagAgrees, Elements
  <2> QED
    BY <1>1, <1>5, <2>1, <2>2, <2>3 DEF ManageBreathing, moveVars
<1>6. CASE MoveEnds
  BY <1>6 DEF MoveEnds, BreathingInv, BreathingFlagAgrees, Elements
<1>7. CASE Calls \/ LoopTop \/ PollEnds \/ IdleDelayPasses \/ DebouncePasses \/ Stop \/ StopReturns
  BY <1>1, <1>7 DEF Calls, QueueMove, PostCall, SetListening, LoopTop, PollEnds, IdleDelayPasses,
                    DebouncePasses, Stop, StopReturns
<1>8. CASE HandleActivity \/ HandleListening \/ HandleTracking \/ HandleSpeaking
  BY <1>1, <1>8 DEF HandleActivity, HandleListening, HandleTracking, HandleSpeaking
<1> QED
  BY <1>1, <1>2, <1>3, <1>4, <1>5, <1>6, <1>7, <1>8 DEF Next, Worker, Handle, vars

\* _breathing_active is set exactly while the BreathingMove is played or queued
\* (moves.py:223), for any set of moves and any calls.
THEOREM BreathingFlagCorrect == Spec => []BreathingFlagAgrees
<1>1. BreathingInv => BreathingFlagAgrees
  BY DEF BreathingInv
<1> QED
  BY <1>1, TypeCorrect, InitBreathingInv, NextBreathingInv, PTL DEF Spec

-----------------------------------------------------------------------------
(* The order of the moves *)

\* queue_move was called with a before it was called with b.
Before(a, b) == \E k, l \in DOMAIN called : k < l /\ called[k] = a /\ called[l] = b

Called(m) == \E k \in DOMAIN called : called[k] = m

Queues(c) == c.op = "queue_move"

\* A move is on its way through the command queue, the move queue and the worker: at
\* every place, and from place to place, the moves keep the order of the calls.
OrderInv ==
  /\ \A j \in DOMAIN queue : queue[j] \in Moves => Called(queue[j])
  /\ \A j \in DOMAIN commands : Queues(commands[j]) => Called(commands[j].arg)
  /\ \A i \in DOMAIN started : Called(started[i])
  /\ \A i, j \in DOMAIN started : i < j => Before(started[i], started[j])
  /\ \A i \in DOMAIN started, j \in DOMAIN queue :
       queue[j] \in Moves => Before(started[i], queue[j])
  /\ \A i \in DOMAIN started, j \in DOMAIN commands :
       Queues(commands[j]) => Before(started[i], commands[j].arg)
  /\ \A i, j \in DOMAIN queue :
       i < j /\ queue[i] \in Moves /\ queue[j] \in Moves => Before(queue[i], queue[j])
  /\ \A i \in DOMAIN queue, j \in DOMAIN commands :
       queue[i] \in Moves /\ Queues(commands[j]) => Before(queue[i], commands[j].arg)
  /\ \A i, j \in DOMAIN commands :
       i < j /\ Queues(commands[i]) /\ Queues(commands[j])
         => Before(commands[i].arg, commands[j].arg)

LEMMA InitOrderInv == Init => OrderInv
  BY DEF Init, OrderInv

\* The order of the calls is not lost by a call, and a new move comes last.
LEMMA BeforeGrows ==
  ASSUME NEW m \in Moves, called \in Seq(Moves), called' = Append(called, m)
  PROVE  /\ \A a, b : Before(a, b) => Before(a, b)'
         /\ \A a : Called(a) => Called(a)' /\ Before(a, m)'
         /\ Called(m)'
<1>1. /\ DOMAIN called' = 1 .. Len(called) + 1 /\ DOMAIN called = 1 .. Len(called)
      /\ \A i \in 1 .. Len(called) : called'[i] = called[i]
      /\ called'[Len(called) + 1] = m
      /\ Len(called) \in Nat
  BY AppendFacts
<1>2. ASSUME NEW a, NEW b, Before(a, b) PROVE Before(a, b)'
  <2>1. PICK k, l \in DOMAIN called : k < l /\ called[k] = a /\ called[l] = b
    BY <1>2 DEF Before
  <2>2. k \in DOMAIN called' /\ l \in DOMAIN called' /\ called'[k] = a /\ called'[l] = b
    BY <1>1, <2>1
  <2> QED
    BY <2>1, <2>2 DEF Before
<1>3. ASSUME NEW a, Called(a) PROVE Called(a)' /\ Before(a, m)'
  <2>1. PICK k \in DOMAIN called : called[k] = a
    BY <1>3 DEF Called
  <2>2. /\ k \in DOMAIN called' /\ called'[k] = a
        /\ Len(called) + 1 \in DOMAIN called' /\ k < Len(called) + 1
    BY <1>1, <2>1
  <2> QED
    BY <1>1, <2>2 DEF Before, Called
<1>4. Called(m)'
  <2>1. Len(called) + 1 \in DOMAIN called'
    BY <1>1
  <2> QED
    BY <1>1, <2>1 DEF Called
<1> QED
  BY <1>2, <1>3, <1>4

\* Nothing but queue_move changes what was called.
LEMMA BeforeStays ==
  ASSUME called' = called
  PROVE  /\ \A a, b : Before(a, b)' <=> Before(a, b)
         /\ \A a : Called(a)' <=> Called(a)
  BY DEF Before, Called

\* A command that queues no move, added to the command queue.
LEMMA PostKeepsOrder ==
  ASSUME TypeOK, OrderInv, NEW op, NEW arg, op # "queue_move",
         [op |-> op, arg |-> arg] \in Command, Post(op, arg), UNCHANGED <<queue, started, called>>
  PROVE  OrderInv'
<1> DEFINE c == [op |-> op, arg |-> arg]
<1>1. /\ DOMAIN commands' = 1 .. Len(commands) + 1 /\ DOMAIN commands = 1 .. Len(commands)
      /\ \A i \in 1 .. Len(commands) : commands'[i] = commands[i]
      /\ commands'[Len(commands) + 1] = c
      /\ Len(commands) \in Nat
  BY AppendFacts DEF Post, TypeOK
<1>2. ~Queues(c)
  BY DEF Queues
<1> HIDE DEF c
<1>3. \A j \in DOMAIN commands' :
        Queues(commands'[j]) => j \in DOMAIN commands /\ commands'[j] = commands[j]
  BY <1>1, <1>2
<1> QED
  BY <1>3, BeforeStays DEF OrderInv, Queues

\* The first command, taken from the command queue; the move queue may be cleared.
LEMMA TakeKeepsOrder ==
  ASSUME TypeOK, OrderInv, NEW op, Take(op), queue' = queue \/ queue' = <<>>,
         UNCHANGED <<started, called>>
  PROVE  OrderInv'
<1>1. /\ DOMAIN commands = 1 .. Len(commands) /\ Len(commands) \in Nat \ {0}
      /\ DOMAIN commands' = 1 .. Len(commands) - 1
      /\ \A i \in 1 .. Len(commands) - 1 : commands'[i] = commands[i + 1]
  BY TailFacts DEF Take, TypeOK
<1>2. \A j \in DOMAIN commands' : j + 1 \in DOMAIN commands /\ commands'[j] = commands[j + 1]
  BY <1>1
<1>3. \A i, j \in DOMAIN commands' : i < j => i + 1 < j + 1
  BY <1>1
<1>4. CASE queue' = queue
  BY <1>2, <1>3, <1>4, BeforeStays DEF OrderInv, Queues
<1>5. CASE queue' = <<>>
  BY <1>2, <1>3, <1>5, BeforeStays DEF OrderInv, Queues
<1> QED
  BY <1>4, <1>5

LEMMA NextOrderInv == TypeOK /\ OrderInv /\ [Next]_vars => OrderInv'
<1> SUFFICES ASSUME TypeOK, OrderInv, [Next]_vars PROVE OrderInv'
  OBVIOUS
<1>0. /\ commands \in Seq(Command) /\ called \in Seq(Moves) /\ started \in Seq(Moves)
      /\ queue \in Seq(Moves \cup {Breathing}) /\ Breathing \notin Moves
  BY MovesAssumption DEF TypeOK
<1>1. CASE UNCHANGED <<commands, queue, started, called>>
  BY <1>1, BeforeStays DEF OrderInv, Queues
<1>2. ASSUME NEW m \in Moves, QueueMove(m) PROVE OrderInv'
  <2>1. called' = Append(called, m) /\ UNCHANGED <<queue, started>>
    BY <1>2 DEF QueueMove, moveVars, histVars
  <2>2. commands' = Append(commands, [op |-> "queue_move", arg |-> m])
    BY <1>2 DEF QueueMove, Post
  <2>3. [op |-> "queue_move", arg |-> m] \in Command
    BY DEF Command
  <2>4. /\ DOMAIN commands' = 1 .. Len(commands) + 1 /\ DOMAIN commands = 1 .. Len(commands)
        /\ \A i \in 1 .. Len(commands) : commands'[i] = commands[i]
        /\ commands'[Len(commands) + 1].arg = m
        /\ Len(commands) \in Nat
    BY <1>0, <2>2, <2>3, AppendFacts
  <2>5. /\ \A a, b : Before(a, b) => Before(a, b)'
        /\ \A a : Called(a) => Called(a)' /\ Before(a, m)'
        /\ Called(m)'
    BY <1>0, <2>1, BeforeGrows
  <2>6. \A j \in DOMAIN commands' :
          \/ j \in DOMAIN commands /\ commands'[j] = commands[j]
          \/ commands'[j].arg = m /\ \A i \in DOMAIN commands' : ~(j < i)
    BY <2>4
  <2> HIDE DEF Before, Called
  <2>7. \A i, j \in DOMAIN commands' :
          i < j => i \in DOMAIN commands /\ commands'[i] = commands[i]
    BY <2>6
  <2> QED
    BY <2>1, <2>5, <2>6, <2>7 DEF OrderInv, Queues
<1>3. CASE HandleQueueMove
  <2> DEFINE m == commands[1].arg
  <2>1. /\ commands # <<>> /\ commands' = Tail(commands) /\ Queues(Head(commands))
        /\ queue' = Append(queue, Head(commands).arg)
        /\ UNCHANGED <<started, called>>
    BY <1>3 DEF HandleQueueMove, Take, Arg, Queues, histVars, callVars
  <2>2. /\ DOMAIN commands = 1 .. Len(commands) /\ Len(commands) \in Nat \ {0}
        /\ DOMAIN commands' = 1 .. Len(commands) - 1
        /\ \A i \in 1 .. Len(commands) - 1 : commands'[i] = commands[i + 1]
        /\ Head(commands) = commands[1] /\ Head(commands) \in Command
    BY <1>0, <2>1, TailFacts
  <2>3. m \in Moves /\ Queues(commands[1]) /\ 1 \in DOMAIN commands
    BY <2>1, <2>2 DEF Command, Queues
  <2>4. /\ DOMAIN queue' = 1 .. Len(queue) + 1 /\ DOMAIN queue = 1 .. Len(queue)
        /\ \A i \in 1 .. Len(queue) : queue'[i] = queue[i]
        /\ queue'[Len(queue) + 1] = m
        /\ Len(queue) \in Nat
    BY <1>0, <2>1, <2>2, <2>3, AppendFacts
  <2>5. \A j \in DOMAIN commands' :
          j + 1 \in DOMAIN commands /\ commands'[j] = commands[j + 1] /\ 1 < j + 1
    BY <2>2
  <2>6. \A i, j \in DOMAIN commands' : i < j => i + 1 < j + 1
    BY <2>2
  <2>7. \A j \in DOMAIN queue' :
          \/ j \in DOMAIN queue /\ queue'[j] = queue[j]
          \/ queue'[j] = m /\ \A i \in DOMAIN queue' : ~(j < i)
    BY <2>4
  <2>8. \A i, j \in DOMAIN queue' :
          i < j => i \in DOMAIN queue /\ queue'[i] = queue[i]
    BY <2>7
  <2>9. /\ Called(m)
        /\ \A i \in DOMAIN started : Before(started[i], m)
        /\ \A i \in DOMAIN queue : queue[i] \in Moves => Before(queue[i], m)
        /\ \A j \in DOMAIN commands : 1 < j /\ Queues(commands[j]) => Before(m, commands[j].arg)
    BY <2>3 DEF OrderInv
  <2> HIDE DEF m
  <2> QED
    BY <2>1, <2>5, <2>6, <2>7, <2>8, <2>9, BeforeStays DEF OrderInv, Queues
<1>4. CASE ManageQueue
  <2>0. UNCHANGED <<commands, called>>
    BY <1>4 DEF ManageQueue, callVars
  <2>1. CASE (current # NoMove /\ ~over) \/ queue = <<>>
    BY <1>1, <1>4, <2>0, <2>1 DEF ManageQueue, moveVars
  <2>2. CASE (current = NoMove \/ over) /\ queue # <<>>
    <3>1. /\ queue' = Tail(queue)
          /\ started' = IF Head(queue) \in Moves THEN Append(started, Head(queue)) ELSE started
      BY <1>4, <2>2 DEF ManageQueue
    <3>2. /\ DOMAIN queue = 1 .. Len(queue) /\ Len(queue) \in Nat \ {0}
          /\ DOMAIN queue' = 1 .. Len(queue) - 1
          /\ \A i \in 1 .. Len(queue) - 1 : queue'[i] = queue[i + 1]
          /\ Head(queue) = queue[1]
      BY <1>0, <2>2, <3>1, TailFacts
    <3>3. \A j \in DOMAIN queue' :
            j + 1 \in DOMAIN queue /\ queue'[j] = queue[j + 1] /\ 1 < j + 1
      BY <3>2
    <3>4. \A i, j \in DOMAIN queue' : i < j => i + 1 < j + 1
      BY <3>2
    <3>5. 1 \in DOMAIN queue
      BY <3>2
    <3>6. CASE queue[1] \notin Moves
      <4>1. started' = started
        BY <3>1, <3>2, <3>6
      <4> QED
        BY <2>0, <3>3, <3>4, <4>1, BeforeStays DEF OrderInv, Queues
    <3>7. CASE queue[1] \in Moves
      <4> DEFINE m == queue[1]
      <4>1. /\ DOMAIN started' = 1 .. Len(started) + 1 /\ DOMAIN started = 1 .. Len(started)
            /\ \A i \in 1 .. Len(started) : started'[i] = started[i]
            /\ started'[Len(started) + 1] = m
            /\ Len(started) \in Nat
        BY <1>0, <3>1, <3>2, <3>7, AppendFacts
      <4>2. \A j \in DOMAIN started' :
              \/ j \in DOMAIN started /\ started'[j] = started[j]
              \/ started'[j] = m /\ \A i \in DOMAIN started' : ~(j < i)
        BY <4>1
      <4>3. \A i, j \in DOMAIN started' :
              i < j => i \in DOMAIN started /\ started'[i] = started[i]
        BY <4>2
      <4>4. /\ Called(m)
            /\ \A i \in DOMAIN started : Before(started[i], m)
            /\ \A j \in DOMAIN queue : 1 < j /\ queue[j] \in Moves => Before(m, queue[j])
            /\ \A j \in DOMAIN commands : Queues(commands[j]) => Before(m, commands[j].arg)
        BY <3>5, <3>7 DEF OrderInv
      <4> HIDE DEF m
      <4> QED
        BY <2>0, <3>3, <3>4, <4>2, <4>3, <4>4, BeforeStays DEF OrderInv, Queues
    <3> QED
      BY <3>6, <3>7
  <2> QED
    BY <2>1, <2>2
<1>5. CASE ManageBreathing
  <2>0. UNCHANGED <<commands, called, started>>
    BY <1>5 DEF ManageBreathing, callVars, histVars
  <2>1. CASE queue' = queue
    BY <1>1, <2>0, <2>1
  <2>2. CASE queue' = <<Breathing>>
    <3>1. \A i \in DOMAIN queue' : queue'[i] \notin Moves
      BY <1>0, <2>2
    <3> QED
      BY <2>0, <3>1, BeforeStays DEF OrderInv, Queues
  <2> QED
    BY <1>5, <2>1, <2>2 DEF ManageBreathing, moveVars
<1>6. CASE HandleClear
  BY <1>6, TakeKeepsOrder DEF HandleClear, callVars
<1>7. CASE HandleActivity \/ HandleListening \/ HandleTracking \/ HandleSpeaking
  BY <1>7, TakeKeepsOrder DEF HandleActivity, HandleListening, HandleTracking, HandleSpeaking,
                              moveVars, callVars, histVars
<1>8. ASSUME NEW op, NEW arg, op # "queue_move", [op |-> op, arg |-> arg] \in Command, PostCall(op, arg)
      PROVE  OrderInv'
  BY <1>8, PostKeepsOrder DEF PostCall, moveVars, histVars
<1>9. ASSUME NEW b \in BOOLEAN, SetListening(b) PROVE OrderInv'
  <2>1. CASE shared = b
    BY <1>1, <1>9, <2>1 DEF SetListening, moveVars, histVars
  <2>2. CASE shared # b
    <3>1. [op |-> "set_listening", arg |-> b] \in Command
      BY DEF Command
    <3> QED
      BY <1>9, <2>2, <3>1, PostKeepsOrder DEF SetListening, moveVars, histVars
  <2> QED
    BY <2>1, <2>2
<1>10. CASE Stop
  <2>1. [op |-> "clear_queue", arg |-> NoMove] \in Command
    BY DEF Command
  <2> QED
    BY <1>10, <2>1, PostKeepsOrder DEF Stop, moveVars, callVars, histVars
<1>11. CASE LoopTop \/ PollEnds \/ MoveEnds \/ IdleDelayPasses \/ DebouncePasses \/ StopReturns
  BY <1>1, <1>11 DEF LoopTop, PollEnds, MoveEnds, IdleDelayPasses, DebouncePasses, StopReturns,
                     moveVars, callVars, histVars
<1>12. CASE UNCHANGED vars
  BY <1>1, <1>12 DEF vars, moveVars, callVars, histVars
<1>13. CASE Calls
  BY <1>2, <1>8, <1>9, <1>13 DEF Calls, Command
<1> QED
  BY <1>3, <1>4, <1>5, <1>6, <1>7, <1>10, <1>11, <1>12, <1>13 DEF Next, Worker, Handle

\* Moves start in the order they were queued, for any number of moves and calls
\* (moves.py: queue_move, _handle_command, _manage_move_queue).
THEOREM MovesInOrder == Spec => []MovesStartInOrder
<1>1. OrderInv => MovesStartInOrder
  BY DEF OrderInv, Before, MovesStartInOrder
<1> QED
  BY <1>1, TypeCorrect, InitOrderInv, NextOrderInv, PTL DEF Spec

-----------------------------------------------------------------------------
(* The head *)

\* Once stop() has returned nothing is handled any more.
HeadInv ==
  /\ AnchorOnlyWhileSpeaking
  /\ TrackerAgrees
  /\ StopReleasesHead
  /\ stopping = "stopped" => pc = "exited"

LEMMA InitHeadInv == Init => HeadInv
  BY DEF Init, HeadInv, AnchorOnlyWhileSpeaking, TrackerAgrees, StopReleasesHead

LEMMA NextHeadInv == TypeOK /\ HeadInv /\ [Next]_vars => HeadInv'
<1> SUFFICES ASSUME TypeOK, HeadInv, [Next]_vars PROVE HeadInv'
  OBVIOUS
<1> USE DEF HeadInv, AnchorOnlyWhileSpeaking, TrackerAgrees, StopReleasesHead
<1>1. CASE UNCHANGED <<headVars, stopping, pc>>
  BY <1>1 DEF headVars
<1>2. CASE HandleTracking
  <2>1. pc = "poll" /\ pc' = pc /\ stopping' = stopping
    BY <1>2 DEF HandleTracking, Take
  <2>2. Arg \in BOOLEAN
    BY <1>2, TakeTypes DEF HandleTracking, TypeOK
  <2>3. CASE tracking = Arg
    BY <1>1, <1>2, <2>1, <2>3 DEF HandleTracking
  <2>4. CASE tracking # Arg
    <3>1. /\ tracking' = Arg /\ anchor' = FALSE
          /\ Tell(IF Arg THEN "following" ELSE "off")
      BY <1>2, <2>4 DEF HandleTracking
    <3> QED
      BY <2>1, <2>2, <3>1 DEF Tell
  <2> QED
    BY <2>3, <2>4
<1>3. CASE HandleSpeaking
  <2>1. pc = "poll" /\ pc' = pc /\ stopping' = stopping
    BY <1>3 DEF HandleSpeaking, Take
  <2>2. Arg \in BOOLEAN
    BY <1>3, TakeTypes DEF HandleSpeaking, TypeOK
  <2>3. CASE UNCHANGED headVars
    BY <1>1, <2>1, <2>3
  <2>4. CASE Arg /\ tracking /\ tracking' = tracking /\ ~speaking /\ speaking' = Arg
             /\ UNCHANGED <<anchor, tracker, failed>>
    BY <2>1, <2>4
  <2>5. CASE Arg /\ tracking /\ tracking' = tracking /\ speaking' = Arg
             /\ anchor' = TRUE /\ Tell("paused")
    BY <2>1, <2>5 DEF Tell
  <2>6. CASE ~Arg /\ tracking /\ tracking' = tracking /\ speaking' = Arg
             /\ anchor' = FALSE /\ Tell("following")
    BY <2>1, <2>6 DEF Tell
  <2>7. speaking \in BOOLEAN
    BY DEF TypeOK
  <2> QED
    BY <1>3, <2>2, <2>3, <2>4, <2>5, <2>6, <2>7 DEF HandleSpeaking, headVars
<1>4. CASE Stop
  BY <1>4 DEF Stop, headVars
<1>5. CASE StopReturns
  <2>1. stopping = "joining" /\ stopping' = "stopped" /\ pc = "exited" /\ pc' = pc
    BY <1>5 DEF StopReturns
  <2>2. UNCHANGED <<tracking, speaking, anchor>>
    BY <1>5 DEF StopReturns
  <2>3. ~failed' => tracker' = "off"
    <3>1. CASE tracking
      BY <1>5, <3>1 DEF StopReturns, Tell
    <3>2. CASE ~tracking
      BY <1>5, <2>1, <3>2 DEF StopReturns
    <3> QED
      BY <3>1, <3>2
  <2> QED
    BY <2>1, <2>2, <2>3
<1>6. CASE LoopTop \/ PollEnds \/ ManageQueue \/ ManageBreathing
  <2>1. UNCHANGED <<headVars, stopping>> /\ pc # "exited"
    BY <1>6 DEF LoopTop, PollEnds, ManageQueue, ManageBreathing
  <2> QED
    BY <2>1 DEF headVars
<1>7. CASE Calls \/ IdleDelayPasses \/ DebouncePasses \/ MoveEnds
  BY <1>1, <1>7 DEF Calls, QueueMove, PostCall, SetListening, IdleDelayPasses, DebouncePasses, MoveEnds
<1>8. CASE HandleQueueMove \/ HandleClear \/ HandleActivity \/ HandleListening
  BY <1>1, <1>8 DEF HandleQueueMove, HandleClear, HandleActivity, HandleListening
<1>9. CASE UNCHANGED vars
  BY <1>1, <1>9 DEF vars
<1> QED
  BY <1>2, <1>3, <1>4, <1>5, <1>6, <1>7, <1>8, <1>9 DEF Next, Worker, Handle

LEMMA HeadInvCorrect == Spec => []HeadInv
  BY TypeCorrect, InitHeadInv, NextHeadInv, PTL DEF Spec

\* The anchor holds the head only while the assistant speaks and tracking is on
\* (moves.py: _handle_command, set_speaking and set_head_tracking).
THEOREM AnchorCorrect == Spec => []AnchorOnlyWhileSpeaking
<1>1. HeadInv => AnchorOnlyWhileSpeaking
  BY DEF HeadInv
<1> QED
  BY <1>1, HeadInvCorrect, PTL

\* Until a call to the robot fails, its head tracker does what the manager believes.
THEOREM TrackerCorrect == Spec => []TrackerAgrees
<1>1. HeadInv => TrackerAgrees
  BY DEF HeadInv
<1> QED
  BY <1>1, HeadInvCorrect, PTL

\* After stop() the tracker is off, whatever commands were still queued
\* (moves.py: stop).
THEOREM StopReleases == Spec => []StopReleasesHead
<1>1. HeadInv => StopReleasesHead
  BY DEF HeadInv
<1> QED
  BY <1>1, HeadInvCorrect, PTL
==============================================================================
