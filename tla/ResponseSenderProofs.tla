------------------------ MODULE ResponseSenderProofs ------------------------
(***************************************************************************)
(* Proofs about ResponseSender: type correctness, what the event says of   *)
(* the server, and that the worker never sends into a response of its own. *)
(***************************************************************************)
EXTENDS ResponseSender, SequenceTheorems, TLAPS

-----------------------------------------------------------------------------
(* Sequences *)

LEMMA AppendFacts ==
  ASSUME NEW S, NEW s \in Seq(S), NEW e \in S
  PROVE  /\ Append(s, e) \in Seq(S)
         /\ DOMAIN Append(s, e) = 1 .. Len(s) + 1
         /\ \A i \in 1 .. Len(s) : Append(s, e)[i] = s[i]
         /\ Append(s, e)[Len(s) + 1] = e
         /\ DOMAIN s = 1 .. Len(s) /\ Len(s) \in Nat
  OBVIOUS

LEMMA TailFacts ==
  ASSUME NEW S, NEW s \in Seq(S), s # <<>>
  PROVE  /\ Tail(s) \in Seq(S)
         /\ Head(s) = s[1] /\ Head(s) \in S
         /\ Len(s) \in Nat \ {0} /\ DOMAIN s = 1 .. Len(s)
         /\ DOMAIN Tail(s) = 1 .. Len(s) - 1
         /\ \A i \in 1 .. Len(s) - 1 : Tail(s)[i] = s[i + 1]
  OBVIOUS

-----------------------------------------------------------------------------
(* Type correctness *)

\* The type invariant, in parts.
Channels ==
  /\ toServer \in Seq(Items \cup {"create"})
  /\ toClient \in Seq(Events)

Flags ==
  /\ connected \in BOOLEAN /\ done \in BOOLEAN /\ started \in BOOLEAN
  /\ rejected \in BOOLEAN /\ woken \in BOOLEAN /\ active \in BOOLEAN
  /\ receiving \in BOOLEAN /\ faulty \in BOOLEAN

Counters ==
  /\ pending \in Nat
  /\ pc \in {"off", "get", "sleep"} \cup Waits
  /\ attempts \in 0 .. MaxRetries
  /\ userTurns \in 0 .. MaxUserTurns
  /\ sessions \in 0 .. MaxSessions
  /\ fate \in {"none", "sent", "accepted", "rejected", "failed"}

ItemSets == heard \subseteq Items /\ answered \subseteq Items /\ lost \subseteq Items

\* A worker that may still meet a rejection has an attempt left.
AttemptsLeft == pc \in {"waitDone", "waitStarted", "sleep"} => attempts < MaxRetries

TInv == Channels /\ Flags /\ Counters /\ ItemSets /\ AttemptsLeft

LEMMA TypeParts == TInv => TypeOK
  BY DEF TInv, TypeOK, Channels, Flags, Counters, ItemSets

LEMMA InitTInv == Init => TInv
<1> SUFFICES ASSUME Init PROVE TInv
  OBVIOUS
<1>1. Channels
  <2>1. <<>> \in Seq(Items \cup {"create"}) /\ <<>> \in Seq(Events)
    OBVIOUS
  <2> QED
    BY <2>1 DEF Init, Channels
<1>2. Flags
  BY DEF Init, Flags
<1>3. Counters
  BY MaxRetriesAssumption, BoundsAssumption DEF Init, Counters
<1>4. ItemSets /\ AttemptsLeft
  BY DEF Init, ItemSets, AttemptsLeft
<1> QED
  BY <1>1, <1>2, <1>3, <1>4 DEF TInv

\* A wait that a reaction ends: at most one more rejected attempt.
LEMMA ReactionTypes ==
  ASSUME Counters, Flags, AttemptsLeft, pc = "waitStarted", Reaction
  PROVE  /\ pc' \in {"off", "get", "sleep"} \cup Waits
         /\ attempts' \in 0 .. MaxRetries
         /\ AttemptsLeft'
         /\ woken' \in BOOLEAN
<1>1. CASE rejected
  <2>1. attempts < MaxRetries /\ attempts \in Nat /\ MaxRetries \in Nat
    BY MaxRetriesAssumption DEF Counters, AttemptsLeft
  <2>2. attempts' = attempts + 1
    BY <1>1 DEF Reaction
  <2>3. attempts + 1 # MaxRetries => attempts + 1 < MaxRetries
    BY <2>1
  <2>4. /\ pc' \in {"off", "get", "sleep"}
        /\ pc' = "sleep" => attempts + 1 # MaxRetries
    BY <1>1 DEF Reaction, NextRequest, WaitFor
  <2>5. woken' = FALSE
    BY <1>1 DEF Reaction, NextRequest, WaitFor
  <2>6. attempts' \in 0 .. MaxRetries
    BY <2>1, <2>2
  <2>7. AttemptsLeft'
    BY <2>2, <2>3, <2>4 DEF AttemptsLeft
  <2> QED
    BY <2>4, <2>5, <2>6, <2>7
<1>2. CASE ~rejected
  BY <1>2, MaxRetriesAssumption
  DEF Counters, Flags, AttemptsLeft, Reaction, NextRequest, WaitFor, Waits
<1> QED
  BY <1>1, <1>2

LEMMA NextTInv == TInv /\ [Next]_vars => TInv'
<1> SUFFICES ASSUME TInv, [Next]_vars PROVE TInv'
  OBVIOUS
<1>0. Channels /\ Flags /\ Counters /\ ItemSets /\ AttemptsLeft
  BY DEF TInv
<1> USE DEF clientVars, serverVars, sessionVars, histVars
<1>1. ASSUME NEW i \in Items, Submit(i) PROVE TInv'
  <2>1. Channels'
    BY <1>0, <1>1, AppendFacts DEF Submit, Channels
  <2>2. Flags'
    BY <1>0, <1>1 DEF Submit, Flags
  <2>3. Counters' /\ AttemptsLeft'
    BY <1>0, <1>1, MaxRetriesAssumption, BoundsAssumption DEF Submit, Counters, AttemptsLeft, Waits
  <2>4. ItemSets'
    BY <1>0, <1>1 DEF Submit, ItemSets
  <2> QED
    BY <2>1, <2>2, <2>3, <2>4 DEF TInv
<1>2. CASE Get
  <2>1. Channels'
    BY <1>0, <1>2 DEF Get, Channels, WaitFor, NextRequest
  <2>2. Flags'
    <3>1. woken' \in BOOLEAN
      BY <1>0, <1>2 DEF Get, Flags, WaitFor, NextRequest
    <3>2. UNCHANGED <<connected, done, started, rejected, active, receiving, faulty>>
      BY <1>2 DEF Get, WaitFor, NextRequest
    <3> QED
      BY <1>0, <3>1, <3>2 DEF Flags
  <2>3. Counters' /\ AttemptsLeft'
    BY <1>0, <1>2, MaxRetriesAssumption, BoundsAssumption DEF Get, Counters, AttemptsLeft, Waits, WaitFor, NextRequest
  <2>4. ItemSets'
    BY <1>0, <1>2 DEF Get, ItemSets, WaitFor, NextRequest
  <2> QED
    BY <2>1, <2>2, <2>3, <2>4 DEF TInv
<1>3. CASE Send
  <2>1. Channels'
    <3>1. Append(toServer, "create") \in Seq(Items \cup {"create"})
      BY <1>0, AppendFacts DEF Channels
    <3> QED
      BY <1>0, <1>3, <3>1 DEF Send, Channels
  <2>2. Flags'
    <3>1. rejected' \in BOOLEAN
      BY <1>0, <1>3 DEF Send, Flags, WaitFor, NextRequest
    <3>2. started' \in BOOLEAN
      BY <1>0, <1>3 DEF Send, Flags, WaitFor, NextRequest
    <3>3. woken' \in BOOLEAN
      BY <1>0, <1>3 DEF Send, Flags, WaitFor, NextRequest
    <3>4. done' \in BOOLEAN
      BY <1>0, <1>3 DEF Send, Flags, WaitFor, NextRequest
    <3>5. faulty' \in BOOLEAN
      BY <1>0, <1>3 DEF Send, Flags, WaitFor, NextRequest
    <3>6. UNCHANGED <<connected, active, receiving>>
      BY <1>3 DEF Send, WaitFor, NextRequest
    <3> QED
      BY <1>0, <3>1, <3>2, <3>3, <3>4, <3>5, <3>6 DEF Flags
  <2>3. Counters' /\ AttemptsLeft'
    BY <1>0, <1>3, MaxRetriesAssumption, BoundsAssumption DEF Send, Counters, AttemptsLeft, Waits, WaitFor, NextRequest
  <2>4. ItemSets'
    BY <1>0, <1>3 DEF Send, ItemSets, WaitFor, NextRequest
  <2> QED
    BY <2>1, <2>2, <2>3, <2>4 DEF TInv
<1>4. CASE SeeReaction
  <2>1. Channels'
    BY <1>0, <1>4 DEF SeeReaction, Channels, Reaction, WaitFor, NextRequest
  <2>2. Flags'
    <3>1. woken' \in BOOLEAN
      BY <1>0, <1>4 DEF SeeReaction, Flags, Reaction, WaitFor, NextRequest
    <3>2. UNCHANGED <<connected, done, started, rejected, active, receiving, faulty>>
      BY <1>4 DEF SeeReaction, Reaction, WaitFor, NextRequest
    <3> QED
      BY <1>0, <3>1, <3>2 DEF Flags
  <2>3. Counters' /\ AttemptsLeft'
    <3>1. pc = "waitStarted" /\ Reaction
      BY <1>4 DEF SeeReaction
    <3>2. UNCHANGED <<pending, userTurns, sessions, fate>>
      BY <3>1 DEF Reaction
    <3> QED
      BY <1>0, <3>1, <3>2, ReactionTypes DEF Counters
  <2>4. ItemSets'
    BY <1>0, <1>4 DEF SeeReaction, ItemSets, Reaction, WaitFor, NextRequest
  <2> QED
    BY <2>1, <2>2, <2>3, <2>4 DEF TInv
<1>5. CASE Retry
  <2>1. Channels'
    BY <1>0, <1>5 DEF Retry, Channels, WaitFor, NextRequest
  <2>2. Flags'
    <3>1. woken' \in BOOLEAN
      BY <1>0, <1>5 DEF Retry, Flags, WaitFor, NextRequest
    <3>2. UNCHANGED <<connected, done, started, rejected, active, receiving, faulty>>
      BY <1>5 DEF Retry, WaitFor, NextRequest
    <3> QED
      BY <1>0, <3>1, <3>2 DEF Flags
  <2>3. Counters' /\ AttemptsLeft'
    BY <1>0, <1>5, MaxRetriesAssumption, BoundsAssumption DEF Retry, Counters, AttemptsLeft, Waits, WaitFor, NextRequest
  <2>4. ItemSets'
    BY <1>0, <1>5 DEF Retry, ItemSets, WaitFor, NextRequest
  <2> QED
    BY <2>1, <2>2, <2>3, <2>4 DEF TInv
<1>6. CASE Served
  <2>1. Channels'
    BY <1>0, <1>6 DEF Served, Channels, WaitFor, NextRequest
  <2>2. Flags'
    <3>1. woken' \in BOOLEAN
      BY <1>0, <1>6 DEF Served, Flags, WaitFor, NextRequest
    <3>2. UNCHANGED <<connected, done, started, rejected, active, receiving, faulty>>
      BY <1>6 DEF Served, WaitFor, NextRequest
    <3> QED
      BY <1>0, <3>1, <3>2 DEF Flags
  <2>3. Counters' /\ AttemptsLeft'
    BY <1>0, <1>6, MaxRetriesAssumption, BoundsAssumption DEF Served, Counters, AttemptsLeft, Waits, WaitFor, NextRequest
  <2>4. ItemSets'
    BY <1>0, <1>6 DEF Served, ItemSets, WaitFor, NextRequest
  <2> QED
    BY <2>1, <2>2, <2>3, <2>4 DEF TInv
<1>7. CASE TimeOut
  <2>1. Channels'
    BY <1>0, <1>7 DEF TimeOut, Channels, Reaction, WaitFor, NextRequest
  <2>2. Flags'
    <3>1. done' \in BOOLEAN
      BY <1>0, <1>7 DEF TimeOut, Flags, Reaction, WaitFor, NextRequest
    <3>2. woken' \in BOOLEAN
      BY <1>0, <1>7 DEF TimeOut, Flags, Reaction, WaitFor, NextRequest
    <3>3. faulty' \in BOOLEAN
      BY <1>0, <1>7 DEF TimeOut, Flags, Reaction, WaitFor, NextRequest
    <3>4. UNCHANGED <<connected, started, rejected, active, receiving>>
      BY <1>7 DEF TimeOut, Reaction, WaitFor, NextRequest
    <3> QED
      BY <1>0, <3>1, <3>2, <3>3, <3>4 DEF Flags
  <2>3. Counters' /\ AttemptsLeft'
    <3>1. CASE pc = "waitStarted" /\ Reaction
      <4>1. UNCHANGED <<pending, userTurns, sessions, fate>>
        BY <3>1 DEF Reaction
      <4> QED
        BY <1>0, <3>1, <4>1, ReactionTypes DEF Counters
    <3>2. CASE pc = "waitDone" /\ pc' = pc
               /\ UNCHANGED <<pending, attempts, userTurns, sessions, fate>>
      BY <1>0, <3>2 DEF Counters, AttemptsLeft
    <3>3. CASE pc' \in {"get", "off"} /\ UNCHANGED <<pending, attempts, userTurns, sessions, fate>>
      BY <1>0, <3>3 DEF Counters, AttemptsLeft
    <3> QED
      BY <1>7, <3>1, <3>2, <3>3 DEF TimeOut, WaitFor, NextRequest
  <2>4. ItemSets'
    BY <1>0, <1>7 DEF TimeOut, ItemSets, Reaction, WaitFor, NextRequest
  <2> QED
    BY <2>1, <2>2, <2>3, <2>4 DEF TInv
<1>8. CASE Receive
  <2>1. Channels'
    BY <1>0, <1>8, TailFacts DEF Receive, Channels
  <2>2. Flags'
    <3>1. done' \in BOOLEAN
      BY <1>0, <1>8 DEF Receive, Flags, Wakes
    <3>2. started' \in BOOLEAN
      BY <1>0, <1>8 DEF Receive, Flags, Wakes
    <3>3. rejected' \in BOOLEAN
      BY <1>0, <1>8 DEF Receive, Flags, Wakes
    <3>4. woken' \in BOOLEAN
      BY <1>0, <1>8 DEF Receive, Flags, Wakes
    <3>5. UNCHANGED <<connected, active, receiving, faulty>>
      BY <1>8 DEF Receive, Wakes
    <3> QED
      BY <1>0, <3>1, <3>2, <3>3, <3>4, <3>5 DEF Flags
  <2>3. Counters' /\ AttemptsLeft'
    BY <1>0, <1>8, MaxRetriesAssumption, BoundsAssumption DEF Receive, Counters, AttemptsLeft, Waits, Wakes
  <2>4. ItemSets'
    BY <1>0, <1>8 DEF Receive, ItemSets, Wakes
  <2> QED
    BY <2>1, <2>2, <2>3, <2>4 DEF TInv
<1>9. CASE ServerTakesItem
  <2>1. Channels'
    BY <1>0, <1>9, TailFacts DEF ServerTakesItem, Channels
  <2>2. Flags'
    BY <1>0, <1>9 DEF ServerTakesItem, Flags
  <2>3. Counters' /\ AttemptsLeft'
    BY <1>0, <1>9, MaxRetriesAssumption, BoundsAssumption DEF ServerTakesItem, Counters, AttemptsLeft, Waits
  <2>4. ItemSets'
    BY <1>0, <1>9 DEF ServerTakesItem, ItemSets
  <2> QED
    BY <2>1, <2>2, <2>3, <2>4 DEF TInv
<1>10. CASE ServerTakesCreate
  <2>1. Channels'
    <3>1. \A e \in Events : Append(toClient, e) \in Seq(Events)
      BY <1>0, AppendFacts DEF Channels
    <3>2. {"created", "active_response", "other_error"} \subseteq Events
      BY DEF Events
    <3>3. toClient' \in Seq(Events)
      BY <1>10, <3>1, <3>2 DEF ServerTakesCreate, OpenResponse
    <3>4. toServer' \in Seq(Items \cup {"create"})
      BY <1>0, <1>10, TailFacts DEF ServerTakesCreate, Channels
    <3> QED
      BY <3>3, <3>4 DEF Channels
  <2>2. Flags'
    <3>1. active' \in BOOLEAN
      BY <1>0, <1>10 DEF ServerTakesCreate, Flags, OpenResponse
    <3>2. faulty' \in BOOLEAN
      BY <1>0, <1>10 DEF ServerTakesCreate, Flags, OpenResponse
    <3>3. UNCHANGED <<connected, done, started, rejected, woken, receiving>>
      BY <1>10 DEF ServerTakesCreate, OpenResponse
    <3> QED
      BY <1>0, <3>1, <3>2, <3>3 DEF Flags
  <2>3. Counters' /\ AttemptsLeft'
    BY <1>0, <1>10, MaxRetriesAssumption, BoundsAssumption DEF ServerTakesCreate, Counters, AttemptsLeft, Waits, OpenResponse
  <2>4. ItemSets'
    BY <1>0, <1>10 DEF ServerTakesCreate, ItemSets, OpenResponse
  <2> QED
    BY <2>1, <2>2, <2>3, <2>4 DEF TInv
<1>11. CASE UserTurn
  <2>1. Channels'
    <3>1. \A e \in Events : Append(toClient, e) \in Seq(Events)
      BY <1>0, AppendFacts DEF Channels
    <3>2. {"created"} \subseteq Events
      BY DEF Events
    <3> QED
      BY <1>0, <1>11, <3>1, <3>2 DEF UserTurn, OpenResponse, Channels
  <2>2. Flags'
    <3>1. active' \in BOOLEAN
      BY <1>0, <1>11 DEF UserTurn, Flags, OpenResponse
    <3>2. UNCHANGED <<connected, done, started, rejected, woken, receiving, faulty>>
      BY <1>11 DEF UserTurn, OpenResponse
    <3> QED
      BY <1>0, <3>1, <3>2 DEF Flags
  <2>3. Counters' /\ AttemptsLeft'
    BY <1>0, <1>11, MaxRetriesAssumption, BoundsAssumption DEF UserTurn, Counters, AttemptsLeft, Waits, OpenResponse
  <2>4. ItemSets'
    BY <1>0, <1>11 DEF UserTurn, ItemSets, OpenResponse
  <2> QED
    BY <2>1, <2>2, <2>3, <2>4 DEF TInv
<1>12. CASE ResponseEnds
  <2>1. Channels'
    <3>1. \A e \in Events : Append(toClient, e) \in Seq(Events)
      BY <1>0, AppendFacts DEF Channels
    <3>2. {"done"} \subseteq Events
      BY DEF Events
    <3> QED
      BY <1>0, <1>12, <3>1, <3>2 DEF ResponseEnds, Channels
  <2>2. Flags'
    <3>1. active' \in BOOLEAN
      BY <1>0, <1>12 DEF ResponseEnds, Flags
    <3>2. UNCHANGED <<connected, done, started, rejected, woken, receiving, faulty>>
      BY <1>12 DEF ResponseEnds
    <3> QED
      BY <1>0, <3>1, <3>2 DEF Flags
  <2>3. Counters' /\ AttemptsLeft'
    BY <1>0, <1>12, MaxRetriesAssumption, BoundsAssumption DEF ResponseEnds, Counters, AttemptsLeft, Waits
  <2>4. ItemSets'
    BY <1>0, <1>12 DEF ResponseEnds, ItemSets
  <2> QED
    BY <2>1, <2>2, <2>3, <2>4 DEF TInv
<1>13. CASE OpenSession
  <2>1. Channels'
    BY <1>0, <1>13 DEF OpenSession, Channels, WaitFor
  <2>2. Flags'
    <3>1. receiving' \in BOOLEAN
      BY <1>0, <1>13 DEF OpenSession, Flags, WaitFor
    <3>2. connected' \in BOOLEAN
      BY <1>0, <1>13 DEF OpenSession, Flags, WaitFor
    <3>3. woken' \in BOOLEAN
      BY <1>0, <1>13 DEF OpenSession, Flags, WaitFor
    <3>4. UNCHANGED <<done, started, rejected, active, faulty>>
      BY <1>13 DEF OpenSession, WaitFor
    <3> QED
      BY <1>0, <3>1, <3>2, <3>3, <3>4 DEF Flags
  <2>3. Counters' /\ AttemptsLeft'
    BY <1>0, <1>13, MaxRetriesAssumption, BoundsAssumption DEF OpenSession, Counters, AttemptsLeft, Waits, WaitFor
  <2>4. ItemSets'
    BY <1>0, <1>13 DEF OpenSession, ItemSets, WaitFor
  <2> QED
    BY <2>1, <2>2, <2>3, <2>4 DEF TInv
<1>14. CASE Release
  <2>1. Channels'
    BY <1>0, <1>14 DEF Release, Channels, Wakes
  <2>2. Flags'
    <3>1. connected' \in BOOLEAN
      BY <1>0, <1>14 DEF Release, Flags, Wakes
    <3>2. done' \in BOOLEAN
      BY <1>0, <1>14 DEF Release, Flags, Wakes
    <3>3. woken' \in BOOLEAN
      BY <1>0, <1>14 DEF Release, Flags, Wakes
    <3>4. faulty' \in BOOLEAN
      BY <1>0, <1>14 DEF Release, Flags, Wakes
    <3>5. UNCHANGED <<started, rejected, active, receiving>>
      BY <1>14 DEF Release, Wakes
    <3> QED
      BY <1>0, <3>1, <3>2, <3>3, <3>4, <3>5 DEF Flags
  <2>3. Counters' /\ AttemptsLeft'
    BY <1>0, <1>14, MaxRetriesAssumption, BoundsAssumption DEF Release, Counters, AttemptsLeft, Waits, Wakes
  <2>4. ItemSets'
    BY <1>0, <1>14 DEF Release, ItemSets, Wakes
  <2> QED
    BY <2>1, <2>2, <2>3, <2>4 DEF TInv
<1>15. CASE SessionEnds
  <2>1. Channels'
    <3>1. <<>> \in Seq(Items \cup {"create"}) /\ <<>> \in Seq(Events)
      OBVIOUS
    <3> QED
      BY <1>15, <3>1 DEF SessionEnds, Channels
  <2>2. Flags'
    <3>1. receiving' \in BOOLEAN
      BY <1>0, <1>15 DEF SessionEnds, Flags
    <3>2. connected' \in BOOLEAN
      BY <1>0, <1>15 DEF SessionEnds, Flags
    <3>3. woken' \in BOOLEAN
      BY <1>0, <1>15 DEF SessionEnds, Flags
    <3>4. active' \in BOOLEAN
      BY <1>0, <1>15 DEF SessionEnds, Flags
    <3>5. faulty' \in BOOLEAN
      BY <1>0, <1>15 DEF SessionEnds, Flags
    <3>6. UNCHANGED <<done, started, rejected>>
      BY <1>15 DEF SessionEnds
    <3> QED
      BY <1>0, <3>1, <3>2, <3>3, <3>4, <3>5, <3>6 DEF Flags
  <2>3. Counters' /\ AttemptsLeft'
    BY <1>0, <1>15, MaxRetriesAssumption, BoundsAssumption DEF SessionEnds, Counters, AttemptsLeft, Waits
  <2>4. ItemSets'
    BY <1>0, <1>15 DEF SessionEnds, ItemSets, InTransit
  <2> QED
    BY <2>1, <2>2, <2>3, <2>4 DEF TInv
<1>16. CASE UNCHANGED vars
  BY <1>0, <1>16 DEF vars, TInv, Channels, Flags, Counters, ItemSets, AttemptsLeft
<1> QED
  BY <1>1, <1>2, <1>3, <1>4, <1>5, <1>6, <1>7, <1>8, <1>9, <1>10, <1>11, <1>12, <1>13, <1>14,
     <1>15, <1>16 DEF Next, Worker, Server

LEMMA TInvCorrect == Spec => []TInv
  BY InitTInv, NextTInv, PTL DEF Spec

\* Every variable keeps its type; attempts never exceed max_retries
\* (huggingface_realtime.py: _response_sender_loop).
THEOREM TypeCorrect == Spec => []TypeOK
  BY TInvCorrect, TypeParts, PTL

-----------------------------------------------------------------------------
(* What _response_done_event says of the server *)

\* The events that change _response_done_event.
Verdicts == {"created", "done"}

\* With nothing on its way the event is right; otherwise the last one that is on
\* its way will make it right.
VerdictInv ==
  ~faulty =>
    /\ (\A j \in DOMAIN toClient : toClient[j] \notin Verdicts) => (done <=> ~active)
    /\ \A j \in DOMAIN toClient :
         /\ toClient[j] \in Verdicts
         /\ \A k \in DOMAIN toClient : j < k => toClient[k] \notin Verdicts
         => (toClient[j] = "done" <=> ~active)

LEMMA InitVerdictInv == Init => VerdictInv
  BY DEF Init, VerdictInv

\* The server opens or ends a response and says so.
LEMMA VerdictSent ==
  ASSUME TInv, NEW e \in Verdicts, toClient' = Append(toClient, e),
         active' \in BOOLEAN, e = "done" <=> ~active'
  PROVE  VerdictInv'
<1>1. /\ DOMAIN toClient' = 1 .. Len(toClient) + 1
      /\ toClient'[Len(toClient) + 1] = e
      /\ Len(toClient) \in Nat
  BY AppendFacts DEF TInv, Channels, Events, Verdicts
<1>2. Len(toClient) + 1 \in DOMAIN toClient'
  BY <1>1
<1>3. \A j \in DOMAIN toClient' : j # Len(toClient) + 1 => j < Len(toClient) + 1
  BY <1>1
<1> QED
  BY <1>1, <1>2, <1>3 DEF VerdictInv

\* The server sends an event that says nothing of a response.
LEMMA OtherSent ==
  ASSUME TInv, VerdictInv, faulty' = FALSE => faulty = FALSE, faulty' \in BOOLEAN,
         NEW e \in Events \ Verdicts, toClient' = Append(toClient, e),
         active' = active, done' = done
  PROVE  VerdictInv'
<1>1. /\ DOMAIN toClient' = 1 .. Len(toClient) + 1 /\ DOMAIN toClient = 1 .. Len(toClient)
      /\ \A i \in 1 .. Len(toClient) : toClient'[i] = toClient[i]
      /\ toClient'[Len(toClient) + 1] = e
      /\ Len(toClient) \in Nat
  BY AppendFacts DEF TInv, Channels
<1>2. \A j \in DOMAIN toClient : j \in DOMAIN toClient' /\ toClient'[j] = toClient[j]
  BY <1>1
<1>3. \A j \in DOMAIN toClient' :
        toClient'[j] \in Verdicts => j \in DOMAIN toClient /\ toClient'[j] = toClient[j]
  BY <1>1
<1>4. faulty \in BOOLEAN
  BY DEF TInv, Flags
<1>5. SUFFICES ASSUME ~faulty' PROVE VerdictInv'
  BY DEF VerdictInv
<1>6. ~faulty
  BY <1>5, <1>4
<1>7. (\A j \in DOMAIN toClient' : toClient'[j] \notin Verdicts) => (done <=> ~active)
  BY <1>2, <1>6 DEF VerdictInv
<1>8. ASSUME NEW j \in DOMAIN toClient', toClient'[j] \in Verdicts,
             \A k \in DOMAIN toClient' : j < k => toClient'[k] \notin Verdicts
      PROVE  toClient'[j] = "done" <=> ~active
  <2>1. j \in DOMAIN toClient /\ toClient'[j] = toClient[j]
    BY <1>3, <1>8
  <2>2. \A k \in DOMAIN toClient : j < k => toClient[k] \notin Verdicts
    BY <1>2, <1>8
  <2> QED
    BY <1>6, <1>8, <2>1, <2>2 DEF VerdictInv
<1> QED
  BY <1>7, <1>8 DEF VerdictInv

LEMMA NextVerdictInv == TInv /\ VerdictInv /\ [Next]_vars => VerdictInv'
<1> SUFFICES ASSUME TInv, VerdictInv, [Next]_vars PROVE VerdictInv'
  OBVIOUS
<1> USE DEF clientVars, serverVars, sessionVars, histVars
<1>0. toClient \in Seq(Events) /\ done \in BOOLEAN /\ active \in BOOLEAN /\ faulty \in BOOLEAN
  BY DEF TInv, Channels, Flags
<1>1. CASE faulty' = TRUE
  BY <1>1 DEF VerdictInv
<1>2. CASE UNCHANGED <<toClient, active, done, faulty>>
  BY <1>2 DEF VerdictInv
<1>3. CASE (\E i \in Items : Submit(i)) \/ Get \/ SeeReaction \/ Retry \/ Served \/ ServerTakesItem \/ OpenSession
  BY <1>2, <1>3 DEF Submit, Get, SeeReaction, Reaction, Retry, Served, ServerTakesItem, OpenSession
<1>4. CASE Send
  BY <1>1, <1>2, <1>4 DEF Send
<1>5. CASE TimeOut \/ Release \/ SessionEnds
  BY <1>1, <1>5 DEF TimeOut, Release, SessionEnds
<1>6. CASE Receive
  <2>1. /\ toClient # <<>> /\ toClient' = Tail(toClient)
        /\ done' = CASE Head(toClient) = "created" -> FALSE
                     [] Head(toClient) = "done" -> TRUE
                     [] OTHER -> done
        /\ active' = active /\ faulty' = faulty
    BY <1>6 DEF Receive
  <2>2. /\ Head(toClient) = toClient[1]
        /\ Len(toClient) \in Nat \ {0} /\ DOMAIN toClient = 1 .. Len(toClient)
        /\ DOMAIN toClient' = 1 .. Len(toClient) - 1
        /\ \A i \in 1 .. Len(toClient) - 1 : toClient'[i] = toClient[i + 1]
    BY <1>0, <2>1, TailFacts
  <2>3. \A j \in DOMAIN toClient' : j + 1 \in DOMAIN toClient /\ toClient'[j] = toClient[j + 1]
    BY <2>2
  <2>4. \A k \in DOMAIN toClient : k = 1 \/ (k - 1 \in DOMAIN toClient' /\ toClient'[k - 1] = toClient[k])
    BY <2>2
  <2>5. SUFFICES ASSUME ~faulty PROVE VerdictInv'
    BY <2>1 DEF VerdictInv
  <2>6. ASSUME \A j \in DOMAIN toClient' : toClient'[j] \notin Verdicts
        PROVE  done' <=> ~active
    <3>1. \A k \in DOMAIN toClient : 1 < k => toClient[k] \notin Verdicts
      BY <2>2, <2>4, <2>6
    <3>2. 1 \in DOMAIN toClient
      BY <2>2
    <3>3. CASE toClient[1] \in Verdicts
      <4>1. toClient[1] = "done" <=> ~active
        BY <2>5, <3>1, <3>2, <3>3 DEF VerdictInv
      <4>2. CASE toClient[1] = "done"
        BY <2>1, <2>2, <4>1, <4>2
      <4>3. CASE toClient[1] = "created"
        BY <2>1, <2>2, <4>1, <4>3
      <4> QED
        BY <3>3, <4>2, <4>3 DEF Verdicts
    <3>4. CASE toClient[1] \notin Verdicts
      <4>1. \A k \in DOMAIN toClient : toClient[k] \notin Verdicts
        BY <2>2, <3>1, <3>4
      <4>2. done <=> ~active
        BY <2>5, <4>1 DEF VerdictInv
      <4>3. done' = done
        BY <2>1, <2>2, <3>4 DEF Verdicts
      <4> QED
        BY <4>2, <4>3
    <3> QED
      BY <3>3, <3>4
  <2>7. ASSUME NEW j \in DOMAIN toClient', toClient'[j] \in Verdicts,
               \A k \in DOMAIN toClient' : j < k => toClient'[k] \notin Verdicts
        PROVE  toClient'[j] = "done" <=> ~active
    <3>1. j + 1 \in DOMAIN toClient /\ toClient'[j] = toClient[j + 1]
      BY <2>3
    <3>2. \A k \in DOMAIN toClient : j + 1 < k => toClient[k] \notin Verdicts
      <4> SUFFICES ASSUME NEW k \in DOMAIN toClient, j + 1 < k PROVE toClient[k] \notin Verdicts
        OBVIOUS
      <4>1. k - 1 \in DOMAIN toClient' /\ toClient'[k - 1] = toClient[k] /\ j < k - 1
        BY <2>2, <2>4
      <4> QED
        BY <2>7, <4>1
    <3> QED
      BY <2>5, <2>7, <3>1, <3>2 DEF VerdictInv
  <2> QED
    BY <2>1, <2>6, <2>7 DEF VerdictInv
<1>7. CASE ServerTakesCreate
  <2>1. done' = done
    BY <1>7 DEF ServerTakesCreate
  <2>2. CASE OpenResponse
    BY <2>2, VerdictSent DEF OpenResponse, Verdicts
  <2>3. CASE toClient' = Append(toClient, "active_response") /\ faulty' = faulty /\ active' = active
    BY <1>0, <2>1, <2>3, OtherSent DEF Events, Verdicts
  <2> QED
    BY <1>1, <1>7, <2>2, <2>3 DEF ServerTakesCreate
<1>8. CASE UserTurn
  BY <1>8, VerdictSent DEF UserTurn, OpenResponse, Verdicts
<1>9. CASE ResponseEnds
  BY <1>9, VerdictSent DEF ResponseEnds, Verdicts
<1>10. CASE UNCHANGED vars
  BY <1>2, <1>10 DEF vars
<1> QED
  BY <1>3, <1>4, <1>5, <1>6, <1>7, <1>8, <1>9, <1>10 DEF Next, Worker, Server

\* With every event received, _response_done_event agrees with the server
\* (huggingface_realtime.py: the response.created and response.done branches).
THEOREM DoneIsRight == Spec => []DoneTracksServer
<1>1. VerdictInv => DoneTracksServer
  BY DEF VerdictInv, DoneTracksServer
<1> QED
  BY <1>1, TInvCorrect, InitVerdictInv, NextVerdictInv, PTL DEF Spec

-----------------------------------------------------------------------------
(* No rejection without a response of the server's own *)

NoCreate == \A k \in DOMAIN toServer : toServer[k] # "create"

OneCreate ==
  \E n \in DOMAIN toServer :
    toServer[n] = "create" /\ \A k \in DOMAIN toServer \ {n} : toServer[k] # "create"

\* Nothing is asked for and the server is idle.
Resting ==
  /\ pc \in {"off", "get", "waitDone"}
  /\ NoCreate /\ ~active /\ toClient = <<>> /\ done
  /\ pc = "waitDone" => woken

\* The worker's response.create is on its way to an idle server.
Asked ==
  /\ pc = "waitStarted"
  /\ OneCreate /\ ~active /\ toClient = <<>> /\ done /\ ~woken

\* The worker's response runs, or its end is not yet seen.
Answering ==
  /\ pc \in {"waitStarted", "waitFinal"}
  /\ NoCreate
  /\ \/ active /\ toClient = <<"created">> /\ done /\ ~woken /\ pc = "waitStarted"
     \/ active /\ toClient = <<>> /\ ~done /\ (woken <=> pc = "waitStarted")
     \/ ~active /\ toClient = <<"created", "done">> /\ done /\ ~woken /\ pc = "waitStarted"
     \/ ~active /\ toClient = <<"done">> /\ ~done /\ (woken <=> pc = "waitStarted")
     \/ ~active /\ toClient = <<>> /\ done /\ woken

\* Alone with the server, the worker goes round these three phases.
PhaseInv ==
  userTurns = 0 /\ ~faulty =>
    /\ fate # "rejected" /\ ~rejected
    /\ connected \/ pc = "off"
    /\ receiving \/ pc = "off"
    /\ Resting \/ Asked \/ Answering

LEMMA InitPhaseInv == Init => PhaseInv
  BY DEF Init, PhaseInv, Resting, NoCreate

\* An item joins or leaves the way to the server.
LEMMA ItemSent ==
  ASSUME TInv, NEW i \in Items, toServer' = Append(toServer, i)
  PROVE  /\ NoCreate => NoCreate'
         /\ OneCreate => OneCreate'
<1>1. /\ DOMAIN toServer' = 1 .. Len(toServer) + 1 /\ DOMAIN toServer = 1 .. Len(toServer)
      /\ \A j \in 1 .. Len(toServer) : toServer'[j] = toServer[j]
      /\ toServer'[Len(toServer) + 1] = i
      /\ Len(toServer) \in Nat
  BY AppendFacts DEF TInv, Channels
<1>2. \A j \in DOMAIN toServer' :
        \/ j \in DOMAIN toServer /\ toServer'[j] = toServer[j]
        \/ toServer'[j] # "create"
  BY <1>1, ItemsAssumption
<1>3. \A j \in DOMAIN toServer : j \in DOMAIN toServer' /\ toServer'[j] = toServer[j]
  BY <1>1
<1>4. NoCreate => NoCreate'
  BY <1>2 DEF NoCreate
<1>5. OneCreate => OneCreate'
  BY <1>2, <1>3 DEF OneCreate
<1> QED
  BY <1>4, <1>5

LEMMA ItemTaken ==
  ASSUME TInv, ServerTakesItem
  PROVE  /\ NoCreate => NoCreate'
         /\ OneCreate => OneCreate'
<1>1. toServer # <<>> /\ toServer' = Tail(toServer) /\ Head(toServer) \in Items
  BY DEF ServerTakesItem
<1>2. /\ Head(toServer) = toServer[1]
      /\ Len(toServer) \in Nat \ {0} /\ DOMAIN toServer = 1 .. Len(toServer)
      /\ DOMAIN toServer' = 1 .. Len(toServer) - 1
      /\ \A i \in 1 .. Len(toServer) - 1 : toServer'[i] = toServer[i + 1]
  BY <1>1, TailFacts DEF TInv, Channels
<1>3. \A j \in DOMAIN toServer' : j + 1 \in DOMAIN toServer /\ toServer'[j] = toServer[j + 1]
  BY <1>2
<1>4. NoCreate => NoCreate'
  BY <1>3 DEF NoCreate
<1>5. ASSUME OneCreate PROVE OneCreate'
  <2>1. PICK n \in DOMAIN toServer :
          toServer[n] = "create" /\ \A k \in DOMAIN toServer \ {n} : toServer[k] # "create"
    BY <1>5 DEF OneCreate
  <2>2. n # 1
    BY <1>1, <1>2, <2>1, ItemsAssumption
  <2>3. n - 1 \in DOMAIN toServer' /\ toServer'[n - 1] = "create"
    BY <1>2, <2>1, <2>2
  <2>4. \A k \in DOMAIN toServer' \ {n - 1} : k + 1 \in DOMAIN toServer \ {n}
    BY <1>2, <2>1
  <2>5. \A k \in DOMAIN toServer' \ {n - 1} : toServer'[k] # "create"
    BY <1>3, <2>1, <2>4
  <2> QED
    BY <2>3, <2>5 DEF OneCreate
<1> QED
  BY <1>4, <1>5

LEMMA CreateSent ==
  ASSUME TInv, NoCreate, toServer' = Append(toServer, "create")
  PROVE  OneCreate'
<1>1. /\ DOMAIN toServer' = 1 .. Len(toServer) + 1 /\ DOMAIN toServer = 1 .. Len(toServer)
      /\ \A j \in 1 .. Len(toServer) : toServer'[j] = toServer[j]
      /\ toServer'[Len(toServer) + 1] = "create"
      /\ Len(toServer) \in Nat
  BY AppendFacts DEF TInv, Channels
<1>2. /\ Len(toServer) + 1 \in DOMAIN toServer'
      /\ \A k \in DOMAIN toServer' \ {Len(toServer) + 1} : toServer'[k] # "create"
  BY <1>1 DEF NoCreate
<1> QED
  BY <1>1, <1>2 DEF OneCreate

LEMMA CreateTaken ==
  ASSUME TInv, toServer # <<>>, Head(toServer) = "create", toServer' = Tail(toServer)
  PROVE  ~NoCreate /\ (OneCreate => NoCreate')
<1>1. /\ Head(toServer) = toServer[1]
      /\ Len(toServer) \in Nat \ {0} /\ DOMAIN toServer = 1 .. Len(toServer)
      /\ DOMAIN toServer' = 1 .. Len(toServer) - 1
      /\ \A i \in 1 .. Len(toServer) - 1 : toServer'[i] = toServer[i + 1]
  BY TailFacts DEF TInv, Channels
<1>2. 1 \in DOMAIN toServer /\ toServer[1] = "create"
  BY <1>1
<1>3. ~NoCreate
  BY <1>2 DEF NoCreate
<1>4. ASSUME OneCreate PROVE NoCreate'
  <2>1. \A j \in DOMAIN toServer' : j + 1 \in DOMAIN toServer \ {1} /\ toServer'[j] = toServer[j + 1]
    BY <1>1
  <2>2. \A k \in DOMAIN toServer \ {1} : toServer[k] # "create"
    BY <1>2, <1>4 DEF OneCreate
  <2> QED
    BY <2>1, <2>2 DEF NoCreate
<1> QED
  BY <1>3, <1>4

LEMMA NextPhaseInv == TInv /\ PhaseInv /\ [Next]_vars => PhaseInv'
<1> SUFFICES ASSUME TInv, PhaseInv, [Next]_vars, userTurns' = 0, ~faulty' PROVE PhaseInv'
  BY DEF PhaseInv
<1> USE DEF clientVars, serverVars, sessionVars, histVars
<1>0. /\ toClient \in Seq(Events) /\ userTurns \in Nat
      /\ done \in BOOLEAN /\ active \in BOOLEAN /\ faulty \in BOOLEAN /\ woken \in BOOLEAN
      /\ rejected \in BOOLEAN /\ connected \in BOOLEAN /\ receiving \in BOOLEAN
  BY BoundsAssumption DEF TInv, Channels, Flags, Counters
<1>1. userTurns = 0 /\ ~faulty /\ ~UserTurn /\ ~TimeOut /\ ~Release /\ ~SessionEnds
  <2>1. ~UserTurn
    BY <1>0 DEF UserTurn
  <2>2. ~TimeOut /\ ~Release /\ ~SessionEnds
    BY DEF TimeOut, Release, SessionEnds
  <2>3. userTurns = 0
    BY <2>1, <2>2 DEF Next, Worker, Server, Submit, Get, Send, SeeReaction, Reaction, Retry, Served, Receive,
       ServerTakesItem, ServerTakesCreate, ResponseEnds, OpenSession, vars
  <2>4. ~faulty
    BY <2>1, <2>2 DEF Next, Worker, Server, Submit, Get, Send, SeeReaction, Reaction, Retry, Served, Receive,
       ServerTakesItem, ServerTakesCreate, OpenResponse, ResponseEnds, OpenSession, vars
  <2> QED
    BY <2>1, <2>2, <2>3, <2>4
<1>2. /\ fate # "rejected" /\ ~rejected
      /\ connected \/ pc = "off"
      /\ receiving \/ pc = "off"
      /\ Resting \/ Asked \/ Answering
  BY <1>1 DEF PhaseInv
<1>3. ASSUME NEW i \in Items, Submit(i) PROVE PhaseInv'
  <2>1. UNCHANGED <<connected, done, rejected, pc, woken, toClient, active, receiving, fate>>
        /\ toServer' = Append(toServer, i)
    BY <1>3 DEF Submit
  <2>2. (NoCreate => NoCreate') /\ (OneCreate => OneCreate')
    BY <2>1, ItemSent
  <2>3. (Resting => Resting') /\ (Asked => Asked') /\ (Answering => Answering')
    BY <2>1, <2>2 DEF Resting, Asked, Answering
  <2> QED
    BY <1>2, <2>1, <2>3 DEF PhaseInv
<1>4. CASE ServerTakesItem
  <2>1. UNCHANGED <<connected, done, rejected, pc, woken, toClient, active, receiving, fate>>
    BY <1>4 DEF ServerTakesItem
  <2>2. (NoCreate => NoCreate') /\ (OneCreate => OneCreate')
    BY <1>4, ItemTaken
  <2>3. (Resting => Resting') /\ (Asked => Asked') /\ (Answering => Answering')
    BY <2>1, <2>2 DEF Resting, Asked, Answering
  <2> QED
    BY <1>2, <2>1, <2>3 DEF PhaseInv
<1>5. CASE Get
  <2>1. /\ pc = "get" /\ connected /\ pc' = "waitDone" /\ woken' = done /\ fate' = "none"
        /\ UNCHANGED <<connected, done, rejected, toServer, toClient, active, receiving>>
    BY <1>2, <1>5 DEF Get, WaitFor
  <2>2. Resting
    BY <1>2, <2>1 DEF Asked, Answering
  <2>3. Resting'
    BY <2>1, <2>2 DEF Resting, NoCreate
  <2> QED
    BY <1>2, <2>1, <2>3 DEF PhaseInv, Resting
<1>6. CASE Send
  <2>1. pc = "waitDone" /\ connected /\ woken
    BY <1>2, <1>6 DEF Send
  <2>2. Resting
    BY <1>2, <2>1 DEF Asked, Answering
  <2>3. /\ toServer' = Append(toServer, "create") /\ fate' = "sent" /\ ~rejected'
        /\ pc' = "waitStarted" /\ ~woken' /\ done' = done
        /\ UNCHANGED <<connected, toClient, active, receiving>>
    BY <1>6, <2>1 DEF Send, WaitFor
  <2>4. OneCreate'
    BY <2>2, <2>3, CreateSent DEF Resting
  <2>5. Asked'
    BY <2>2, <2>3, <2>4 DEF Asked, Resting
  <2> QED
    BY <1>2, <2>1, <2>3, <2>5 DEF PhaseInv
<1>7. CASE SeeReaction
  <2>1. pc = "waitStarted" /\ woken
    BY <1>7 DEF SeeReaction
  <2>2. /\ pc' = "waitFinal" /\ woken' = done
        /\ UNCHANGED <<connected, done, rejected, toServer, toClient, active, receiving, fate>>
    BY <1>2, <1>7 DEF SeeReaction, Reaction, WaitFor
  <2>3. Answering
    BY <1>2, <2>1 DEF Asked, Resting
  <2>4. NoCreate'
    BY <2>2, <2>3 DEF Answering, NoCreate
  <2>5. Answering'
    BY <1>0, <2>1, <2>2, <2>3, <2>4 DEF Answering
  <2> QED
    BY <1>2, <2>1, <2>2, <2>5 DEF PhaseInv
<1>8. CASE Served
  <2>1. pc = "waitFinal" /\ woken /\ connected
    BY <1>2, <1>8 DEF Served
  <2>2. /\ pc' = "get" /\ ~woken'
        /\ UNCHANGED <<connected, done, rejected, toServer, toClient, active, receiving, fate>>
    BY <1>8, <2>1 DEF Served, NextRequest
  <2>3. NoCreate /\ ~active /\ toClient = <<>> /\ done
    BY <1>2, <2>1 DEF Asked, Resting, Answering
  <2>4. Resting'
    BY <2>2, <2>3 DEF Resting, NoCreate
  <2> QED
    BY <1>2, <2>1, <2>2, <2>4 DEF PhaseInv
<1>9. CASE Retry
  BY <1>2, <1>9 DEF Retry, Resting, Asked, Answering
<1>10. CASE Receive
  <2>1. /\ toClient # <<>> /\ toClient' = Tail(toClient)
        /\ done' = CASE Head(toClient) = "created" -> FALSE
                     [] Head(toClient) = "done" -> TRUE
                     [] OTHER -> done
        /\ rejected' = (rejected \/ Head(toClient) = "active_response")
        /\ Wakes(Head(toClient) = "done", TRUE)
        /\ UNCHANGED <<connected, pc, toServer, active, receiving, fate>>
    BY <1>10 DEF Receive
  <2>2. Answering /\ pc \in {"waitStarted", "waitFinal"} /\ NoCreate
    BY <1>2, <2>1 DEF Resting, Asked, Answering
  <2>3. NoCreate'
    BY <2>1, <2>2 DEF NoCreate
  <2>4. CASE active /\ toClient = <<"created">> /\ pc = "waitStarted"
    <3>1. Head(toClient) = "created" /\ Tail(toClient) = <<>>
      BY <2>4
    <3>2. ~done' /\ toClient' = <<>> /\ ~rejected'
      BY <1>2, <2>1, <3>1
    <3>3. woken'
      BY <2>1, <2>4 DEF Wakes
    <3> QED
      BY <1>2, <2>1, <2>2, <2>3, <2>4, <3>2, <3>3 DEF PhaseInv, Answering
  <2>5. CASE ~active /\ toClient = <<"created", "done">> /\ pc = "waitStarted"
    <3>1. Head(toClient) = "created" /\ Tail(toClient) = <<"done">>
      BY <2>5
    <3>2. ~done' /\ toClient' = <<"done">> /\ ~rejected'
      BY <1>2, <2>1, <3>1
    <3>3. woken'
      BY <2>1, <2>5 DEF Wakes
    <3> QED
      BY <1>2, <2>1, <2>2, <2>3, <2>5, <3>2, <3>3 DEF PhaseInv, Answering
  <2>6. CASE ~active /\ toClient = <<"done">>
    <3>1. Head(toClient) = "done" /\ Tail(toClient) = <<>>
      BY <2>6
    <3>2. done' /\ toClient' = <<>> /\ ~rejected'
      BY <1>2, <2>1, <3>1
    <3>3. woken'
      BY <2>1, <2>2, <3>1 DEF Wakes
    <3> QED
      BY <1>2, <2>1, <2>2, <2>3, <2>6, <3>2, <3>3 DEF PhaseInv, Answering
  <2> QED
    BY <2>1, <2>2, <2>4, <2>5, <2>6 DEF Answering
<1>11. CASE ServerTakesCreate
  <2>1. toServer # <<>> /\ Head(toServer) = "create" /\ toServer' = Tail(toServer)
        /\ UNCHANGED <<connected, done, rejected, pc, woken, receiving>>
    BY <1>11 DEF ServerTakesCreate
  <2>2. ~NoCreate /\ (OneCreate => NoCreate')
    BY <2>1, CreateTaken
  <2>3. Asked
    BY <1>2, <2>2 DEF Resting, Answering
  <2>4. NoCreate' /\ ~active /\ toClient = <<>>
    BY <2>2, <2>3 DEF Asked
  <2>5. active' = TRUE /\ toClient' = Append(toClient, "created") /\ fate' = "accepted"
    BY <1>11, <2>4 DEF ServerTakesCreate, OpenResponse
  <2>6. toClient' = <<"created">>
    BY <2>4, <2>5
  <2>7. Answering'
    BY <2>1, <2>3, <2>4, <2>5, <2>6 DEF Asked, Answering
  <2> QED
    BY <1>2, <2>1, <2>5, <2>7 DEF PhaseInv
<1>12. CASE ResponseEnds
  <2>1. /\ active /\ active' = FALSE /\ toClient' = Append(toClient, "done")
        /\ UNCHANGED <<connected, done, rejected, pc, woken, toServer, receiving, fate>>
    BY <1>12 DEF ResponseEnds
  <2>2. Answering
    BY <1>2, <2>1 DEF Resting, Asked
  <2>3. NoCreate'
    BY <2>1, <2>2 DEF Answering, NoCreate
  <2>4. CASE toClient = <<"created">> /\ done /\ ~woken /\ pc = "waitStarted"
    <3>1. Append(<<"created">>, "done") = <<"created", "done">>
      <4> DEFINE s == Append(<<"created">>, "done")
      <4>1. <<"created">> \in Seq(Verdicts) /\ "done" \in Verdicts
        BY DEF Verdicts
      <4>2. <<"created", "done">> \in Seq(Verdicts)
        BY DEF Verdicts
      <4>3. /\ s \in Seq(Verdicts) /\ Len(s) = 2
            /\ s[1] = "created" /\ s[2] = "done"
        BY <4>1, AppendFacts
      <4>4. Len(<<"created", "done">>) = 2
        OBVIOUS
      <4>5. \A i \in 1 .. 2 : i = 1 \/ i = 2
        OBVIOUS
      <4>6. \A i \in 1 .. 2 : s[i] = <<"created", "done">>[i]
        BY <4>3, <4>5
      <4> HIDE DEF s
      <4>7. s = <<"created", "done">>
        BY <4>2, <4>3, <4>4, <4>6, SeqEqual
      <4> QED
        BY <4>7 DEF s
    <3>2. toClient' = <<"created", "done">>
      BY <2>1, <2>4, <3>1
    <3> QED
      BY <1>2, <2>1, <2>3, <2>4, <3>2 DEF PhaseInv, Answering
  <2>5. CASE toClient = <<>> /\ ~done /\ (woken <=> pc = "waitStarted")
    <3>1. toClient' = <<"done">>
      BY <2>1, <2>5
    <3> QED
      BY <1>2, <2>1, <2>2, <2>3, <2>5, <3>1 DEF PhaseInv, Answering
  <2> QED
    BY <2>1, <2>2, <2>4, <2>5 DEF Answering
<1>13. CASE OpenSession
  <2>1. pc = "off"
    BY <1>2, <1>13 DEF OpenSession
  <2>2. /\ pc' = "get" /\ connected' = TRUE /\ receiving' = TRUE
        /\ UNCHANGED <<done, rejected, toServer, toClient, active, fate>>
    BY <1>13 DEF OpenSession, WaitFor
  <2>3. Resting
    BY <1>2, <2>1 DEF Asked, Answering
  <2>4. Resting'
    BY <2>2, <2>3 DEF Resting, NoCreate
  <2> QED
    BY <1>2, <2>2, <2>4 DEF PhaseInv
<1>14. CASE UNCHANGED vars
  BY <1>2, <1>14 DEF vars, PhaseInv, Resting, Asked, Answering, NoCreate, OneCreate
<1> QED
  BY <1>1, <1>3, <1>4, <1>5, <1>6, <1>7, <1>8, <1>9, <1>10, <1>11, <1>12, <1>13, <1>14
  DEF Next, Worker, Server

\* Until the server opens a response of its own or something fails, no
\* response.create meets an active response, for any number of items
\* (huggingface_realtime.py: _response_sender_loop, step 1).
THEOREM NoNeedlessRejection == Spec => []NeverRejected
<1>1. PhaseInv => NeverRejected
  BY DEF PhaseInv, NeverRejected
<1> QED
  BY <1>1, TInvCorrect, InitPhaseInv, NextPhaseInv, PTL DEF Spec
==============================================================================
