---------------------------- MODULE CalendarProofs ----------------------------
(***************************************************************************)
(* Theorems about Calendar, for any calendars, events, requests and        *)
(* bounds.  The inductive invariant says that the body a tool is about to  *)
(* write is what the event shows, up to what was edited since it was read; *)
(* that the request a tool goes on with identifies the event it holds; and *)
(* that occurrences show what their series says in the fields that are not *)
(* their own.                                                              *)
(***************************************************************************)
EXTENDS Calendar, TLAPS

\* Two versions of an event agree in a field.
Agree(shown, wanted, f) ==
  IF f = "guests" THEN wanted.guests \subseteq shown.guests ELSE shown[f] = wanted[f]

\* Occurrences show what their series says, except in the fields in kept.
Follows(db, kept) ==
  \A i \in Occurrences : \A f \in Fields : <<i, f>> \in kept \/ db[i][f] = db[Series[i]][f]

\* The calendar at hand is the one the request names.
PlaceIsNamed ==
  /\ pc \in {"listing", "insert", "lookup", "series", "write", "target", "move"} => place \in Calendars
  /\ pc = "insert" => Named(op.calendar) = {place}

\* The event at hand is the one the request identifies.
EventIsMeant ==
  /\ pc \in {"series", "write", "target", "move"} => event.id \in Events
  /\ pc = "series" => event.id \in Occurrences /\ meant = {Series[event.id]}
  /\ pc \in {"write", "target", "move"} => Identified

\* What is to be written was read of the event, which people may have edited since.
BodyCurrent ==
  pc = "write" =>
    /\ event.body.calendar = place
    /\ \A f \in Fields : f \in edited \/ event.body[f] = events[event.id][f]

IInv ==
  /\ TypeOK
  /\ OnlyWhatWasAsked
  /\ Follows(events, own) /\ Follows(people, own)
  /\ PlaceIsNamed
  /\ EventIsMeant
  /\ BodyCurrent

-----------------------------------------------------------------------------
(* Events and calendars *)

\* What people may put into a field.
Values(f) == CASE f = "calendar" -> Calendars \cup {None}
               [] f = "guests" -> SUBSET Guests
               [] OTHER -> Words

\* What Edit changes when v is put into f.
EditField(e, f, v) ==
  /\ v # events[e][f]
  /\ f = "calendar" /\ v # None => e \notin Occurrences
  /\ events' = Put(events, e, [events[e] EXCEPT ![f] = v])
  /\ people' = Put(people, e, [people[e] EXCEPT ![f] = v])
  /\ own' = own \cup Owned(e, {f})
  /\ excused' = excused \ (Reaches(e, f) \X {f})
  /\ edited' = IF pc = "write" /\ event.id \in Reaches(e, f) THEN edited \cup {f} ELSE edited

LEMMA Changed ==
  ASSUME NEW shown \in Event, NEW f \in Fields, NEW v \in Values(f)
  PROVE  /\ [shown EXCEPT ![f] = v] \in Event
         /\ [shown EXCEPT ![f] = v][f] = v
         /\ \A g \in Fields \ {f} : [shown EXCEPT ![f] = v][g] = shown[g]
<1>1. CASE f = "calendar"
  BY <1>1 DEF Event, Fields, Values
<1>2. CASE f = "guests"
  BY <1>2 DEF Event, Fields, Values
<1>3. CASE f = "title"
  BY <1>3 DEF Event, Fields, Values
<1>4. CASE f = "text"
  BY <1>4 DEF Event, Fields, Values
<1>5. CASE f = "start"
  BY <1>5 DEF Event, Fields, Values
<1>6. CASE f = "end"
  BY <1>6 DEF Event, Fields, Values
<1> QED
  BY <1>1, <1>2, <1>3, <1>4, <1>5, <1>6 DEF Fields

LEMMA ReachesEvents == \A e \in Events : \A f : Reaches(e, f) \subseteq Events
BY CalendarAssumption DEF Reaches

\* What Put writes, field by field.
LEMMA PutFacts ==
  ASSUME NEW db \in [Events -> Event], NEW e \in Events, NEW body \in Event
  PROVE  /\ Put(db, e, body) \in [Events -> Event]
         /\ \A x \in Events : \A f \in Fields :
              Put(db, e, body)[x][f] = IF x \in Reaches(e, f) THEN body[f] ELSE db[x][f]
<1> DEFINE shown(x, f) == IF x \in Reaches(e, f) THEN body[f] ELSE db[x][f]
           both(x) == [calendar |-> shown(x, "calendar"), title |-> shown(x, "title"),
                       start |-> shown(x, "start"), end |-> shown(x, "end"),
                       text |-> shown(x, "text"), guests |-> shown(x, "guests")]
<1>1. Put(db, e, body) = [x \in Events |-> both(x)]
  BY DEF Put
<1>2. ASSUME NEW x \in Events
      PROVE  /\ shown(x, "calendar") \in Calendars \cup {None} /\ shown(x, "title") \in Words
             /\ shown(x, "start") \in Words /\ shown(x, "end") \in Words
             /\ shown(x, "text") \in Words /\ shown(x, "guests") \in SUBSET Guests
  <2>1. db[x] \in Event
    OBVIOUS
  <2> QED
    BY <2>1 DEF Event
<1>3. ASSUME NEW x \in Events PROVE \A f \in Fields : both(x)[f] = shown(x, f)
  <2> HIDE DEF shown
  <2> QED
    BY DEF Fields
<1>4. ASSUME NEW x \in Events PROVE both(x) \in Event
  <2> HIDE DEF shown
  <2> QED
    BY <1>2 DEF Event
<1> HIDE DEF both
<1> QED
  BY <1>1, <1>3, <1>4

LEMMA PutField ==
  ASSUME NEW db \in [Events -> Event], NEW e \in Events, NEW body \in Event,
         NEW x \in Events, NEW f \in Fields
  PROVE  Put(db, e, body)[x][f] = IF x \in Reaches(e, f) THEN body[f] ELSE db[x][f]
BY PutFacts, Z3

\* A field that is written as it was stays what it was everywhere.
LEMMA PutSame ==
  ASSUME NEW db \in [Events -> Event], NEW e \in Events, NEW body \in Event, NEW f \in Fields,
         Follows(db, own), body[f] = db[e][f]
  PROVE  \A x \in Events : Put(db, e, body)[x][f] = db[x][f]
<1> SUFFICES ASSUME NEW x \in Events PROVE Put(db, e, body)[x][f] = db[x][f]
  OBVIOUS
<1>1. Put(db, e, body)[x][f] = IF x \in Reaches(e, f) THEN body[f] ELSE db[x][f]
  BY PutFacts
<1>2. x \in Reaches(e, f) => db[x][f] = db[e][f]
  BY DEF Reaches, Follows
<1> QED
  BY <1>1, <1>2

\* Occurrences still follow when what is changed of one becomes its own.
LEMMA PutFollows ==
  ASSUME NEW db \in [Events -> Event], NEW e \in Events, NEW body \in Event, NEW kept,
         Follows(db, own), own \subseteq kept,
         e \in Occurrences => \A f \in Fields : <<e, f>> \in kept \/ body[f] = db[e][f]
  PROVE  Follows(Put(db, e, body), kept)
<1> SUFFICES ASSUME NEW i \in Occurrences, NEW f \in Fields, <<i, f>> \notin kept
             PROVE  Put(db, e, body)[i][f] = Put(db, e, body)[Series[i]][f]
  BY DEF Follows
<1>1. i \in Events /\ Series[i] \in Events \ Occurrences
  BY CalendarAssumption
<1>2. <<i, f>> \notin own /\ db[i][f] = db[Series[i]][f]
  BY DEF Follows
<1>3. \A x \in Events : Put(db, e, body)[x][f] = IF x \in Reaches(e, f) THEN body[f] ELSE db[x][f]
  BY PutField
<1>4. Put(db, e, body)[Series[i]][f] = IF Series[i] = e THEN body[f] ELSE db[Series[i]][f]
  BY <1>1, <1>3 DEF Reaches
<1>5. CASE i = e
  BY <1>1, <1>2, <1>3, <1>4, <1>5
<1>6. CASE i # e
  <2>1. i \in Reaches(e, f) <=> Series[i] = e
    BY <1>2, <1>6 DEF Reaches
  <2> QED
    BY <1>1, <1>2, <1>3, <1>4, <2>1
<1> QED
  BY <1>5, <1>6

-----------------------------------------------------------------------------
(* Type correctness *)

LEMMA InitTypeOK == Init => TypeOK
<1> SUFFICES ASSUME Init PROVE TypeOK
  OBVIOUS
<1>1. events \in [Events -> Event] /\ people \in [Events -> Event]
  BY CalendarAssumption DEF Init
<1>2. op \in Requests
  BY CalendarAssumption DEF Init, NoOp, Requests
<1>3. event \in [id : Events \cup {None}, body : Event]
  BY CalendarAssumption DEF Init, Nothing, Event
<1>4. made \in 0..MaxRequests /\ edits \in 0..MaxEdits /\ faults \in 0..MaxFaults
  BY BoundsAssumption DEF Init
<1>5. /\ excused \in SUBSET (Events \X Fields) /\ edited \in SUBSET Fields
      /\ own \in SUBSET (Occurrences \X Fields)
      /\ pc = "idle" /\ place = None /\ meant \in SUBSET Events /\ known \in SUBSET Events
  BY DEF Init
<1> QED
  BY <1>1, <1>2, <1>3, <1>4, <1>5 DEF TypeOK

\* What the end of a request leaves.
LEMMA EndTypes ==
  ASSUME End
  PROVE  /\ pc' = "idle" /\ op' \in Requests /\ place' = None
         /\ event' \in [id : Events \cup {None}, body : Event]
         /\ meant' \in SUBSET Events /\ edited' \in SUBSET Fields
<1>1. op' \in Requests
  BY CalendarAssumption DEF End, NoOp, Requests
<1>2. event' \in [id : Events \cup {None}, body : Event]
  BY CalendarAssumption DEF End, Nothing, Event
<1> QED
  BY <1>1, <1>2 DEF End

LEMMA FaultsTypes ==
  ASSUME TypeOK, Works \/ Fault
  PROVE  faults' \in 0..MaxFaults
BY BoundsAssumption DEF TypeOK, Works, Fault

LEMMA EditTypeOK ==
  ASSUME TypeOK, NEW e \in Events, Edit(e)
  PROVE  TypeOK'
<1>0. PICK f \in Fields : \E v \in Values(f) : EditField(e, f, v)
  BY DEF Edit, EditField, Values
<1>1. PICK v \in Values(f) : EditField(e, f, v)
  BY <1>0
<1>2. events[e] \in Event /\ people[e] \in Event
  BY DEF TypeOK
<1>3. [events[e] EXCEPT ![f] = v] \in Event /\ [people[e] EXCEPT ![f] = v] \in Event
  BY <1>2, Changed
<1>4. events \in [Events -> Event] /\ people \in [Events -> Event]
  BY DEF TypeOK
<1>5. events' \in [Events -> Event] /\ people' \in [Events -> Event]
  BY <1>1, <1>3, <1>4, PutFacts DEF EditField
<1>6. own' \in SUBSET (Occurrences \X Fields)
  BY <1>1 DEF TypeOK, EditField, Owned
<1>7. excused' \in SUBSET (Events \X Fields) /\ edited' \in SUBSET Fields
  BY <1>1 DEF TypeOK, EditField
<1>8. edits' \in 0..MaxEdits
  BY BoundsAssumption DEF TypeOK, Edit
<1>9. UNCHANGED <<pc, op, place, event, meant, known, made, faults>>
  BY DEF Edit
<1> QED
  BY <1>5, <1>6, <1>7, <1>8, <1>9 DEF TypeOK

LEMMA AskTypeOK ==
  ASSUME TypeOK, NEW o \in Asked, Ask(o)
  PROVE  TypeOK'
<1>1. op' \in Requests
  BY CalendarAssumption DEF Ask
<1>2. made' \in 0..MaxRequests
  BY BoundsAssumption DEF TypeOK, Ask
<1>3. pc' = "service" /\ UNCHANGED <<service, locals, known, edits, faults>>
  BY DEF Ask
<1> QED
  BY <1>1, <1>2, <1>3 DEF TypeOK, service, locals

LEMMA ResolvedTypes == \A c : Resolved(c) \subseteq Calendars
BY CalendarAssumption DEF Resolved, Called

\* What a named calendar resolves to is the one it names.
LEMMA ResolvedIsNamed ==
  ASSUME NEW c, NEW k \in Resolved(c)
  PROVE  Named(c) = {k}
BY DEF Resolved, Named, Called

LEMMA BodyTypes ==
  ASSUME TypeOK
  PROVE  Body \in Event
<1>1. event.body \in Event
  BY DEF TypeOK
<1> QED
  BY <1>1, CalendarAssumption DEF Body, Event

LEMMA ReachedTypes ==
  ASSUME event.id \in Events, NEW fs \in SUBSET Fields
  PROVE  Reached(fs) \in SUBSET (Events \X Fields)
BY ReachesEvents DEF Reached

LEMMA UpdatesTypes ==
  ASSUME TypeOK, event.id \in Events, Updates
  PROVE  /\ events' \in [Events -> Event] /\ own' \in SUBSET (Occurrences \X Fields)
         /\ excused' \in SUBSET (Events \X Fields) /\ people' = people
<1>1. events' \in [Events -> Event]
  BY BodyTypes, PutFacts DEF Updates, TypeOK
<1>2. own' \in SUBSET (Occurrences \X Fields)
  BY DEF Updates, Owned, TypeOK
<1>3. edited \cup (IF Identified THEN Requested ELSE {}) \in SUBSET Fields
  <2>1. op.set \subseteq Fields
    BY DEF TypeOK, Requests
  <2>2. Requested \subseteq Fields
    BY <2>1 DEF Requested, Fields
  <2> QED
    BY <2>2 DEF TypeOK
<1>4. excused' \in SUBSET (Events \X Fields)
  BY <1>3, ReachedTypes DEF Updates, TypeOK
<1> QED
  BY <1>1, <1>2, <1>4 DEF Updates

LEMMA MovesTypes ==
  ASSUME TypeOK, event.id \in Events, Moves
  PROVE  /\ events' \in [Events -> Event] /\ own' = own
         /\ excused' \in SUBSET (Events \X Fields) /\ people' = people
<1>1. PICK c \in Resolved(op.target) :
        /\ events' = Put(events, event.id, [events[event.id] EXCEPT !.calendar = c])
        /\ excused' = excused \cup IF Identified /\ Named(op.target) = {c} THEN Reached({"calendar"}) ELSE {}
  BY DEF Moves
<1>2. [events[event.id] EXCEPT !.calendar = c] \in Event
  BY ResolvedTypes DEF TypeOK, Event
<1>3. events' \in [Events -> Event]
  BY <1>1, <1>2, PutFacts DEF TypeOK
<1>4. Reached({"calendar"}) \in SUBSET (Events \X Fields)
  BY ReachedTypes DEF Fields
<1>5. excused' \in SUBSET (Events \X Fields)
  BY <1>1, <1>4 DEF TypeOK
<1> QED
  BY <1>3, <1>5 DEF Moves

\* While a request runs its steps hold an event and a calendar.
LEMMA ToolTypeOK ==
  ASSUME TypeOK, EventIsMeant, Tool
  PROVE  TypeOK'
<1> USE DEF TypeOK
<1>1. CASE Service
  <2>1. Works \/ Fault
    BY <1>1 DEF Service
  <2>2. UNCHANGED <<service, known, made, edits>>
    BY <1>1 DEF Service
  <2>3. CASE End
    BY <2>1, <2>2, <2>3, EndTypes, FaultsTypes DEF service
  <2>4. CASE Goto("resolve") /\ UNCHANGED locals
    BY <2>1, <2>2, <2>4, FaultsTypes DEF service, locals, Goto
  <2> QED
    BY <1>1, <2>3, <2>4 DEF Service
<1>2. CASE Resolve
  <2>1. Works \/ Fault
    BY <1>2 DEF Resolve
  <2>2. UNCHANGED <<service, known, made, edits>>
    BY <1>2 DEF Resolve
  <2>3. CASE End
    BY <2>1, <2>2, <2>3, EndTypes, FaultsTypes DEF service
  <2>4. CASE ~End
    <3>1. place' \in Calendars /\ UNCHANGED <<op, event, meant, edited>>
      BY <1>2, <2>4, ResolvedTypes DEF Resolve, Goto
    <3>2. pc' = CASE op.kind = "list" -> "listing"
                  [] op.kind = "create" -> "insert"
                  [] op.kind = "update" -> "lookup"
      BY <1>2, <2>4 DEF Resolve, Goto
    <3>3. op.kind \in {"list", "create", "update"}
      BY DEF Requests
    <3>4. pc' \in {"listing", "insert", "lookup"}
      BY <3>2, <3>3
    <3> QED
      BY <2>1, <2>2, <3>1, <3>4, FaultsTypes DEF service
  <2> QED
    BY <2>3, <2>4
<1>3. CASE List
  <2>1. (Works \/ Fault) /\ End /\ UNCHANGED <<service, made, edits>>
    BY <1>3 DEF List
  <2>2. Series \in [Occurrences -> Events] \/ \A i \in Occurrences : Series[i] \in Events
    BY CalendarAssumption
  <2>3. known' \in SUBSET Events
    BY <1>3, <2>2 DEF List, Listed
  <2> QED
    BY <2>1, <2>3, EndTypes, FaultsTypes DEF service
<1>4. CASE Insert
  <2>1. (Works \/ Fault) /\ End /\ UNCHANGED <<own, people, known, made, edits>>
    BY <1>4 DEF Insert
  <2>2. CASE UNCHANGED <<events, excused>>
    BY <2>1, <2>2, EndTypes, FaultsTypes
  <2>3. CASE ~UNCHANGED <<events, excused>>
    <3>1. PICK e \in Events \ (Occurrences \cup AllSeries) :
            /\ events' = [events EXCEPT ![e] =
                 [calendar |-> place, title |-> Said, start |-> Said, end |-> Said, text |-> Said,
                  guests |-> IF "guests" \in op.set THEN {Invited} ELSE {}]]
            /\ excused' = excused \cup
                 {<<e, f>> : f \in IF Named(op.calendar) = {place} THEN Fields ELSE Fields \ {"calendar"}}
      BY <1>4, <2>3 DEF Insert
    <3>2. [calendar |-> place, title |-> Said, start |-> Said, end |-> Said, text |-> Said,
           guests |-> IF "guests" \in op.set THEN {Invited} ELSE {}] \in Event
      BY CalendarAssumption DEF Event
    <3>3. events' \in [Events -> Event]
      BY <3>1, <3>2
    <3>4. excused' \in SUBSET (Events \X Fields)
      BY <3>1
    <3> QED
      BY <2>1, <3>3, <3>4, EndTypes, FaultsTypes
  <2> QED
    BY <2>2, <2>3
<1>5. CASE Lookup
  <2>1. (Works \/ Fault) /\ UNCHANGED <<service, known, made, edits>>
    BY <1>5 DEF Lookup
  <2>2. CASE End
    BY <2>1, <2>2, EndTypes, FaultsTypes DEF service
  <2>3. CASE ~End
    <3>1. PICK e \in Events : event' = [id |-> e, body |-> events[e]]
      BY <1>5, <2>3 DEF Lookup, Matches, Listed
    <3>2. event' \in [id : Events \cup {None}, body : Event]
      BY <3>1
    <3>3. UNCHANGED <<op, place, edited>> /\ pc' \in {"series", "write"}
      BY <1>5, <2>3 DEF Lookup, Goto
    <3>4. \E ids \in SUBSET Events : meant' = UNION {Meaning(x) : x \in ids}
      BY <1>5, <2>3 DEF Lookup, Matches, Listed
    <3>5. \A x \in Events : Meaning(x) \subseteq Events
      BY CalendarAssumption DEF Meaning
    <3>6. meant' \in SUBSET Events
      BY <3>4, <3>5
    <3> QED
      BY <2>1, <3>2, <3>3, <3>6, FaultsTypes DEF service
  <2> QED
    BY <2>2, <2>3
<1>6. CASE ReadSeries
  <2>1. (Works \/ Fault) /\ UNCHANGED <<service, known, made, edits>>
    BY <1>6 DEF ReadSeries
  <2>2. CASE End
    BY <2>1, <2>2, EndTypes, FaultsTypes DEF service
  <2>3. CASE ~End
    <3>1. event.id \in Occurrences
      BY <1>6 DEF ReadSeries, EventIsMeant
    <3>2. Series[event.id] \in Events
      BY <3>1, CalendarAssumption
    <3>3. event' = [id |-> Series[event.id], body |-> events[Series[event.id]]]
      BY <1>6, <2>3 DEF ReadSeries
    <3>4. event' \in [id : Events \cup {None}, body : Event]
      BY <3>2, <3>3
    <3>5. UNCHANGED <<op, place, meant, edited>> /\ pc' = "write"
      BY <1>6, <2>3 DEF ReadSeries, Goto
    <3> QED
      BY <2>1, <3>4, <3>5, FaultsTypes DEF service
  <2> QED
    BY <2>2, <2>3
<1>7. CASE Write
  <2>1. (Works \/ Fault) /\ UNCHANGED <<known, made, edits>>
    BY <1>7 DEF Write
  <2>2. event.id \in Events
    BY <1>7 DEF Write, EventIsMeant
  <2>3. /\ events' \in [Events -> Event] /\ people' \in [Events -> Event]
        /\ excused' \in SUBSET (Events \X Fields) /\ own' \in SUBSET (Occurrences \X Fields)
    <3>1. Updates \/ UNCHANGED service
      BY <1>7 DEF Write
    <3>2. CASE Updates
      BY <2>2, <3>2, UpdatesTypes
    <3>3. CASE UNCHANGED service
      BY <3>3 DEF service
    <3> QED
      BY <3>1, <3>2, <3>3
  <2>4. CASE End
    BY <2>1, <2>3, <2>4, EndTypes, FaultsTypes
  <2>5. CASE ~End
    <3>1. Goto("target") /\ edited' = {} /\ UNCHANGED <<place, event, meant>>
      BY <1>7, <2>5 DEF Write
    <3> QED
      BY <2>1, <2>3, <3>1, FaultsTypes DEF Goto
  <2> QED
    BY <2>4, <2>5
<1>8. CASE Target
  <2>1. (Works \/ Fault) /\ UNCHANGED <<service, known, made, edits>>
    BY <1>8 DEF Target
  <2>2. CASE End
    BY <2>1, <2>2, EndTypes, FaultsTypes DEF service
  <2>3. CASE Goto("move") /\ UNCHANGED locals
    BY <2>1, <2>3, FaultsTypes DEF service, locals, Goto
  <2> QED
    BY <1>8, <2>2, <2>3 DEF Target
<1>9. CASE Move
  <2>1. (Works \/ Fault) /\ End /\ UNCHANGED <<known, made, edits>>
    BY <1>9 DEF Move
  <2>2. event.id \in Events
    BY <1>9 DEF Move, EventIsMeant
  <2>3. Moves \/ UNCHANGED service
    BY <1>9 DEF Move
  <2>4. CASE Moves
    BY <2>1, <2>2, <2>4, MovesTypes, EndTypes, FaultsTypes
  <2>5. CASE UNCHANGED service
    BY <2>1, <2>5, EndTypes, FaultsTypes DEF service
  <2> QED
    BY <2>3, <2>4, <2>5
<1> QED
  BY <1>1, <1>2, <1>3, <1>4, <1>5, <1>6, <1>7, <1>8, <1>9 DEF Tool

-----------------------------------------------------------------------------
(* The edits of people *)

LEMMA EditKeeps ==
  ASSUME IInv, NEW e \in Events, Edit(e)
  PROVE  IInv'
<1>1. TypeOK'
  BY EditTypeOK DEF IInv
<1>2. PICK f \in Fields : \E v \in Values(f) : EditField(e, f, v)
  BY DEF Edit, EditField, Values
<1>3. PICK v \in Values(f) : EditField(e, f, v)
  BY <1>2
<1>4. UNCHANGED <<pc, op, place, event, meant>>
  BY DEF Edit
<1> DEFINE shown == [events[e] EXCEPT ![f] = v]
           wanted == [people[e] EXCEPT ![f] = v]
<1>5. /\ events \in [Events -> Event] /\ people \in [Events -> Event]
      /\ Follows(events, own) /\ Follows(people, own)
  BY DEF IInv, TypeOK
<1>6. /\ shown \in Event /\ shown[f] = v /\ \A g \in Fields \ {f} : shown[g] = events[e][g]
      /\ wanted \in Event /\ wanted[f] = v /\ \A g \in Fields \ {f} : wanted[g] = people[e][g]
  <2>1. events[e] \in Event /\ people[e] \in Event
    BY <1>5
  <2> QED
    BY <2>1, Changed
<1>7. /\ events' = Put(events, e, shown) /\ people' = Put(people, e, wanted)
      /\ own' = own \cup Owned(e, {f})
      /\ excused' = excused \ (Reaches(e, f) \X {f})
      /\ edited' = IF pc = "write" /\ event.id \in Reaches(e, f) THEN edited \cup {f} ELSE edited
  BY <1>3 DEF EditField
<1> HIDE DEF shown, wanted
<1>8. ASSUME NEW g \in Fields \ {f}, NEW x \in Events
      PROVE  events'[x][g] = events[x][g] /\ people'[x][g] = people[x][g]
  BY <1>5, <1>6, <1>7, PutSame
<1>9. ASSUME NEW x \in Events
      PROVE  /\ events'[x][f] = IF x \in Reaches(e, f) THEN v ELSE events[x][f]
             /\ people'[x][f] = IF x \in Reaches(e, f) THEN v ELSE people[x][f]
  <2>1. shown \in Event /\ wanted \in Event /\ shown[f] = v /\ wanted[f] = v
    BY <1>6
  <2>2. events' = Put(events, e, shown) /\ people' = Put(people, e, wanted)
    BY <1>7
  <2>3. events \in [Events -> Event] /\ people \in [Events -> Event]
    BY <1>5
  <2> QED
    BY <2>1, <2>2, <2>3, PutField
<1>10. OnlyWhatWasAsked'
  <2> SUFFICES ASSUME NEW x \in Events, NEW g \in Fields, <<x, g>> \notin excused'
               PROVE  Agree(events'[x], people'[x], g)
    BY DEF OnlyWhatWasAsked, Agree
  <2>1. CASE g = f /\ x \in Reaches(e, f)
    BY <1>9, <2>1 DEF Agree
  <2>2. CASE ~(g = f /\ x \in Reaches(e, f))
    <3>1. Agree(events[x], people[x], g)
      BY <1>7, <2>2 DEF IInv, OnlyWhatWasAsked, Agree
    <3>2. events'[x][g] = events[x][g] /\ people'[x][g] = people[x][g]
      BY <1>8, <1>9, <2>2
    <3> QED
      BY <3>1, <3>2 DEF Agree
  <2> QED
    BY <2>1, <2>2
<1>11. Follows(events', own') /\ Follows(people', own')
  <2>1. own \subseteq own' /\ (e \in Occurrences => <<e, f>> \in own')
    BY <1>7 DEF Owned
  <2>2. e \in Occurrences => \A g \in Fields : /\ <<e, g>> \in own' \/ shown[g] = events[e][g]
                                               /\ <<e, g>> \in own' \/ wanted[g] = people[e][g]
    BY <1>6, <2>1
  <2>3. shown \in Event /\ events' = Put(events, e, shown)
    BY <1>6, <1>7
  <2>4. wanted \in Event /\ people' = Put(people, e, wanted)
    BY <1>6, <1>7
  <2>5. Follows(events', own')
    BY <1>5, <2>1, <2>2, <2>3, PutFollows
  <2>6. Follows(people', own')
    BY <1>5, <2>1, <2>2, <2>4, PutFollows
  <2> QED
    BY <2>5, <2>6
<1>12. BodyCurrent'
  <2> SUFFICES ASSUME pc = "write"
               PROVE  /\ event.body.calendar = place
                      /\ \A g \in Fields : g \in edited' \/ event.body[g] = events'[event.id][g]
    BY <1>4 DEF BodyCurrent
  <2>1. event.id \in Events
    BY DEF IInv, EventIsMeant
  <2>2. /\ event.body.calendar = place
        /\ \A g \in Fields : g \in edited \/ event.body[g] = events[event.id][g]
    BY DEF IInv, BodyCurrent
  <2>3. ASSUME NEW g \in Fields, g \notin edited'
        PROVE  event.body[g] = events'[event.id][g]
    BY <1>7, <1>8, <1>9, <2>1, <2>2, <2>3
  <2> QED
    BY <2>2, <2>3
<1>13. PlaceIsNamed' /\ EventIsMeant'
  BY <1>4 DEF IInv, PlaceIsNamed, EventIsMeant, Identified, SeriesById, AllSeries, Named, Called
<1> QED
  BY <1>1, <1>10, <1>11, <1>12, <1>13 DEF IInv

-----------------------------------------------------------------------------
(* The writes of the tools *)

\* What relates the events to what people made of them.
EventsAgree == OnlyWhatWasAsked /\ Follows(events, own) /\ Follows(people, own)

\* The body changes only the fields asked for, and adding guests keeps those there.
LEMMA BodyChanges ==
  ASSUME event.body \in Event, op.set \subseteq Fields \ {"calendar"}, op.add \in BOOLEAN,
         NEW f \in Fields \ Requested
  PROVE  IF f = "guests" THEN event.body.guests \subseteq Body.guests ELSE Body[f] = event.body[f]
<1>1. CASE f = "guests"
  <2>1. "guests" \in op.set => op.add
    BY <1>1 DEF Requested
  <2>2. Body.guests = IF "guests" \notin op.set THEN event.body.guests
                      ELSE IF op.add THEN event.body.guests \cup {Invited} ELSE {Invited}
    BY DEF Body, Event
  <2> QED
    BY <1>1, <2>1, <2>2
<1>2. CASE f = "calendar"
  BY <1>2 DEF Body, Event
<1>3. CASE f = "end"
  <2>1. op.set \cap {"start", "end"} = {}
    BY <1>3 DEF Requested
  <2> QED
    BY <1>3, <2>1 DEF Body, Event
<1>4. CASE f \in {"title", "start", "text"}
  <2>1. f \notin op.set
    BY <1>4 DEF Requested
  <2> QED
    BY <1>4, <2>1 DEF Body, Event
<1> QED
  BY <1>1, <1>2, <1>3, <1>4 DEF Fields

LEMMA UpdatesKeep ==
  ASSUME IInv, pc = "write", Updates
  PROVE  EventsAgree'
<1> DEFINE id == event.id
           written == edited \cup Requested
<1>1. /\ id \in Events /\ Identified /\ event.body.calendar = place
      /\ \A g \in Fields : g \in edited \/ event.body[g] = events[id][g]
  BY DEF IInv, EventIsMeant, BodyCurrent
<1>2. /\ events \in [Events -> Event] /\ Follows(events, own) /\ Follows(people, own)
      /\ event.body \in Event /\ Body \in Event
      /\ op.set \subseteq Fields \ {"calendar"} /\ op.add \in BOOLEAN
  BY BodyTypes DEF IInv, TypeOK, Requests
<1>3. /\ events' = Put(events, id, Body)
      /\ own' = own \cup Owned(id, {f \in Fields : Body[f] # events[id][f]})
      /\ excused' = excused \cup Reached(written)
      /\ people' = people
  BY <1>1 DEF Updates
<1>4. \A x \in Events : \A g \in Fields :
        events'[x][g] = IF x \in Reaches(id, g) THEN Body[g] ELSE events[x][g]
  <2>1. events \in [Events -> Event] /\ Body \in Event /\ id \in Events /\ events' = Put(events, id, Body)
    BY <1>1, <1>2, <1>3
  <2> HIDE DEF id
  <2> QED
    BY <2>1, PutField
<1>5. ASSUME NEW g \in Fields \ written
      PROVE  IF g = "guests" THEN events[id].guests \subseteq Body.guests ELSE Body[g] = events[id][g]
  <2>1. event.body[g] = events[id][g]
    BY <1>1
  <2> QED
    BY <1>2, <2>1, BodyChanges
<1>6. ASSUME NEW x \in Events, NEW g \in Fields, x \in Reaches(id, g)
      PROVE  events[x][g] = events[id][g]
  BY <1>2, <1>6 DEF Reaches, Follows
<1>7. OnlyWhatWasAsked'
  <2> SUFFICES ASSUME NEW x \in Events, NEW g \in Fields, <<x, g>> \notin excused'
               PROVE  Agree(events'[x], people[x], g)
    BY <1>3 DEF OnlyWhatWasAsked, Agree
  <2>1. Agree(events[x], people[x], g)
    BY <1>3 DEF IInv, OnlyWhatWasAsked, Agree
  <2>2. CASE x \notin Reaches(id, g)
    BY <1>4, <2>1, <2>2 DEF Agree
  <2>3. CASE x \in Reaches(id, g)
    <3>1. g \notin written
      BY <1>3, <2>3 DEF Reached
    <3>2. IF g = "guests" THEN events[id].guests \subseteq Body.guests ELSE Body[g] = events[id][g]
      BY <1>5, <3>1
    <3>3. events'[x][g] = Body[g] /\ events[x][g] = events[id][g]
      BY <1>4, <1>6, <2>3
    <3> QED
      BY <2>1, <3>2, <3>3 DEF Agree
  <2> QED
    BY <2>2, <2>3
<1>8. Follows(events', own')
  <2>1. own \subseteq own'
    BY <1>3
  <2>2. id \in Occurrences => \A g \in Fields : <<id, g>> \in own' \/ Body[g] = events[id][g]
    BY <1>3 DEF Owned
  <2> QED
    <3>1. /\ events \in [Events -> Event] /\ Body \in Event /\ id \in Events
          /\ Follows(events, own) /\ events' = Put(events, id, Body)
      BY <1>1, <1>2, <1>3
    <3> HIDE DEF id
    <3> QED
      BY <2>1, <2>2, <3>1, PutFollows
<1>9. Follows(people', own')
  BY <1>2, <1>3 DEF Follows
<1> QED
  BY <1>7, <1>8, <1>9 DEF EventsAgree

LEMMA MovesKeep ==
  ASSUME IInv, pc = "move", Moves
  PROVE  EventsAgree'
<1> DEFINE id == event.id
<1>1. id \in Events /\ Identified /\ id \notin Occurrences /\ people' = people /\ own' = own
  BY DEF IInv, EventIsMeant, Moves
<1>2. events \in [Events -> Event] /\ Follows(events, own) /\ Follows(people, own)
  BY DEF IInv, TypeOK
<1>3. PICK c \in Resolved(op.target) :
        /\ events' = Put(events, id, [events[id] EXCEPT !.calendar = c])
        /\ excused' = excused \cup IF Identified /\ Named(op.target) = {c} THEN Reached({"calendar"}) ELSE {}
  BY DEF Moves
<1>4. excused' = excused \cup (Reaches(id, "calendar") \X {"calendar"})
  BY <1>1, <1>3, ResolvedIsNamed DEF Reached
<1> DEFINE body == [events[id] EXCEPT !.calendar = c]
<1>5. body \in Event /\ \A g \in Fields \ {"calendar"} : body[g] = events[id][g]
  <2>1. c \in Calendars /\ events[id] \in Event
    BY <1>1, <1>2, ResolvedTypes
  <2> QED
    BY <2>1 DEF Event, Fields
<1>6. events' = Put(events, id, body)
  BY <1>3
<1> HIDE DEF body
<1>7. OnlyWhatWasAsked'
  <2> SUFFICES ASSUME NEW x \in Events, NEW g \in Fields, <<x, g>> \notin excused'
               PROVE  Agree(events'[x], people[x], g)
    BY <1>1 DEF OnlyWhatWasAsked, Agree
  <2>1. g = "calendar" => x \notin Reaches(id, g)
    BY <1>4
  <2>2. events'[x][g] = events[x][g]
    <3>1. CASE g = "calendar"
      BY <1>1, <1>2, <1>5, <1>6, <2>1, <3>1, PutField
    <3>2. CASE g # "calendar"
      BY <1>1, <1>2, <1>5, <1>6, <3>2, PutSame
    <3> QED
      BY <3>1, <3>2
  <2>3. Agree(events[x], people[x], g)
    BY <1>4 DEF IInv, OnlyWhatWasAsked, Agree
  <2> QED
    BY <2>2, <2>3 DEF Agree
<1>8. Follows(events', own')
  BY <1>1, <1>2, <1>5, <1>6, PutFollows
<1>9. Follows(people', own')
  BY <1>1, <1>2
<1> QED
  BY <1>7, <1>8, <1>9 DEF EventsAgree

LEMMA InsertKeeps ==
  ASSUME IInv, Insert
  PROVE  EventsAgree'
<1>1. people' = people /\ own' = own
  BY DEF Insert
<1>2. CASE UNCHANGED <<events, excused>>
  BY <1>1, <1>2 DEF EventsAgree, IInv, OnlyWhatWasAsked, Follows
<1>3. CASE ~UNCHANGED <<events, excused>>
  <2> DEFINE body == [calendar |-> place, title |-> Said, start |-> Said, end |-> Said, text |-> Said,
                      guests |-> IF "guests" \in op.set THEN {Invited} ELSE {}]
  <2>1. PICK e \in Events \ (Occurrences \cup AllSeries) :
          /\ events' = [events EXCEPT ![e] = body]
          /\ excused' = excused \cup
               {<<e, f>> : f \in IF Named(op.calendar) = {place} THEN Fields ELSE Fields \ {"calendar"}}
    BY <1>3 DEF Insert
  <2>2. Named(op.calendar) = {place}
    BY DEF Insert, IInv, PlaceIsNamed
  <2>3. excused' = excused \cup {<<e, f>> : f \in Fields}
    BY <2>1, <2>2
  <2>4. \A x \in Events \ {e} : events'[x] = events[x]
    BY <2>1 DEF IInv, TypeOK
  <2> HIDE DEF body
  <2>5. OnlyWhatWasAsked'
    <3> SUFFICES ASSUME NEW x \in Events, NEW g \in Fields, <<x, g>> \notin excused'
                 PROVE  Agree(events'[x], people[x], g)
      BY <1>1 DEF OnlyWhatWasAsked, Agree
    <3>1. x # e
      BY <2>3
    <3>2. Agree(events[x], people[x], g)
      BY <2>3 DEF IInv, OnlyWhatWasAsked, Agree
    <3> QED
      BY <2>4, <3>1, <3>2
  <2>6. ASSUME NEW i \in Occurrences
        PROVE  events'[i] = events[i] /\ events'[Series[i]] = events[Series[i]]
    <3>1. i \in Events \ {e} /\ Series[i] \in Events \ {e}
      BY CalendarAssumption DEF AllSeries
    <3> QED
      BY <2>4, <3>1
  <2>7. Follows(events', own') /\ Follows(people', own')
    BY <1>1, <2>6 DEF Follows, IInv
  <2> QED
    BY <2>5, <2>7 DEF EventsAgree
<1> QED
  BY <1>2, <1>3

-----------------------------------------------------------------------------
(* The requests *)

\* A step that leaves the service alone.
LEMMA ServiceUnchanged ==
  ASSUME IInv, UNCHANGED service
  PROVE  EventsAgree'
BY DEF service, EventsAgree, IInv, OnlyWhatWasAsked, Follows

LEMMA ToolKeepsEvents ==
  ASSUME IInv, Tool
  PROVE  EventsAgree'
<1>1. CASE UNCHANGED service
  BY <1>1, ServiceUnchanged DEF service
<1>2. CASE Insert
  BY <1>2, InsertKeeps DEF Insert
<1>3. CASE pc = "write" /\ Updates
  BY <1>3, UpdatesKeep DEF Updates
<1>4. CASE pc = "move" /\ Moves
  BY <1>4, MovesKeep DEF Moves
<1>5. Service \/ Resolve \/ List \/ Lookup \/ ReadSeries \/ Target => UNCHANGED service
  BY DEF Service, Resolve, List, Lookup, ReadSeries, Target
<1>6. Write => UNCHANGED service \/ (pc = "write" /\ Updates)
  BY DEF Write
<1>7. Move => UNCHANGED service \/ (pc = "move" /\ Moves)
  BY DEF Move
<1> QED
  BY <1>1, <1>2, <1>3, <1>4, <1>5, <1>6, <1>7 DEF Tool

\* What the steps of a request rely on.
Request == PlaceIsNamed /\ EventIsMeant /\ BodyCurrent

LEMMA EndRequest == End => Request'
BY DEF End, Request, PlaceIsNamed, EventIsMeant, BodyCurrent

LEMMA ToolKeepsRequest ==
  ASSUME IInv, Tool
  PROVE  Request'
<1> USE DEF Request
<1>1. CASE End
  BY <1>1, EndRequest
<1> SUFFICES ASSUME ~End PROVE Request'
  BY <1>1
<1>2. CASE Service
  BY <1>2 DEF Service, Goto, locals, PlaceIsNamed, EventIsMeant, BodyCurrent
<1>3. CASE Resolve
  <2>1. /\ place' \in Resolved(op.calendar) /\ op' = op
        /\ pc' = CASE op.kind = "list" -> "listing"
                   [] op.kind = "create" -> "insert"
                   [] op.kind = "update" -> "lookup"
    BY <1>3 DEF Resolve, Goto
  <2>2. pc' \in {"listing", "insert", "lookup"}
    <3>1. op.kind \in {"list", "create", "update"}
      BY DEF IInv, TypeOK, Requests
    <3> QED
      BY <2>1, <3>1
  <2>3. place' \in Calendars /\ Named(op'.calendar) = {place'}
    BY <2>1, ResolvedTypes, ResolvedIsNamed
  <2>4. PlaceIsNamed'
    BY <2>3 DEF PlaceIsNamed, Named, Called
  <2> QED
    BY <2>2, <2>4 DEF EventIsMeant, BodyCurrent
<1>4. CASE Lookup
  <2> DEFINE found == IF op.event # None THEN {op.event} \cap {e \in Events : events[e].calendar = place}
                      ELSE Matches(place, op.title)
             repeats == found \cap Occurrences # {}
  <2>1. /\ \E e \in Events : found = {e}
        /\ op.scope # "future" /\ (repeats => op.scope # None)
        /\ \E e \in found : event' = [id |-> e, body |-> events[e]]
        /\ meant' = UNION {Meaning(x) : x \in found}
        /\ pc' = (IF repeats /\ op.scope = "all" THEN "series" ELSE "write")
        /\ UNCHANGED <<op, place, edited>>
        /\ UNCHANGED <<service, known, made, edits>>
    BY <1>4 DEF Lookup, Goto
  <2>2. PICK e \in Events : found = {e} /\ event' = [id |-> e, body |-> events[e]]
    BY <2>1
  <2>3. events[e].calendar = place
    BY <2>2 DEF Matches, Listed
  <2>4. repeats <=> e \in Occurrences
    BY <2>2
  <2>5. e \in AllSeries => op.event = e
    BY <2>2 DEF Matches, Listed
  <2> HIDE DEF found
  <2>6. meant' = Meaning(e)
    BY <2>1, <2>2
  <2>7. EventIsMeant'
    <3>1. e \notin Occurrences \/ e \notin AllSeries
      BY CalendarAssumption DEF AllSeries
    <3>2. CASE repeats /\ op.scope = "all"
      BY <2>1, <2>2, <2>4, <2>6, <3>2 DEF EventIsMeant, Meaning
    <3>3. CASE ~(repeats /\ op.scope = "all")
      <4>1. meant' = {e} \/ (e \in AllSeries /\ op.event = e)
        BY <2>1, <2>4, <2>5, <2>6, <3>1, <3>3 DEF Meaning
      <4>2. Identified'
        BY <2>1, <2>2, <4>1 DEF Identified, SeriesById, AllSeries
      <4> QED
        BY <2>1, <2>2, <3>3, <4>2 DEF EventIsMeant
    <3> QED
      BY <3>2, <3>3
  <2>8. PlaceIsNamed'
    BY <1>4, <2>1 DEF PlaceIsNamed, IInv, Lookup
  <2>9. BodyCurrent'
    BY <2>1, <2>2, <2>3 DEF BodyCurrent, service
  <2> QED
    BY <2>7, <2>8, <2>9
<1>5. CASE ReadSeries
  <2> DEFINE s == Series[event.id]
  <2>1. /\ events[s].calendar = place
        /\ event' = [id |-> s, body |-> events[s]]
        /\ pc' = "write" /\ UNCHANGED <<op, place, meant, edited>>
        /\ UNCHANGED <<service, known, made, edits>>
    BY <1>5 DEF ReadSeries, Goto
  <2>2. event.id \in Occurrences /\ meant = {s} /\ place \in Calendars
    BY <1>5 DEF ReadSeries, IInv, EventIsMeant, PlaceIsNamed
  <2>3. s \in Events
    BY <2>2, CalendarAssumption
  <2> HIDE DEF s
  <2>4. PlaceIsNamed' /\ EventIsMeant'
    BY <2>1, <2>2, <2>3 DEF PlaceIsNamed, EventIsMeant, Identified
  <2>5. BodyCurrent'
    BY <2>1 DEF BodyCurrent, service
  <2> QED
    BY <2>4, <2>5
<1>6. CASE Write
  <2>1. pc = "write" /\ pc' = "target" /\ UNCHANGED <<op, place, event, meant>>
    BY <1>6 DEF Write, Goto
  <2> QED
    BY <2>1 DEF IInv, PlaceIsNamed, EventIsMeant, Identified, SeriesById, AllSeries, BodyCurrent
<1>7. CASE Target
  <2>1. pc = "target" /\ pc' = "move" /\ UNCHANGED <<op, locals>>
    BY <1>7 DEF Target, Goto
  <2> QED
    BY <2>1 DEF IInv, locals, PlaceIsNamed, EventIsMeant, Identified, SeriesById, AllSeries, BodyCurrent
<1> QED
  BY <1>2, <1>3, <1>4, <1>5, <1>6, <1>7 DEF Tool, List, Insert, Move

LEMMA AskKeeps ==
  ASSUME IInv, NEW o \in Asked, Ask(o)
  PROVE  IInv'
<1>1. TypeOK'
  BY AskTypeOK DEF IInv
<1>2. EventsAgree'
  BY ServiceUnchanged DEF Ask, service
<1>3. Request'
  BY DEF Ask, Request, PlaceIsNamed, EventIsMeant, BodyCurrent
<1> QED
  BY <1>1, <1>2, <1>3 DEF IInv, EventsAgree, Request

LEMMA ToolKeeps ==
  ASSUME IInv, Tool
  PROVE  IInv'
<1>1. TypeOK'
  BY ToolTypeOK DEF IInv
<1>2. EventsAgree'
  BY ToolKeepsEvents
<1>3. Request'
  BY ToolKeepsRequest
<1> QED
  BY <1>1, <1>2, <1>3 DEF IInv, EventsAgree, Request

LEMMA InitIInv == Init => IInv
<1> SUFFICES ASSUME Init PROVE IInv
  OBVIOUS
<1>1. TypeOK
  BY InitTypeOK
<1>2. events = Shown /\ people = Shown /\ pc = "idle"
      /\ own = {x \in Occurrences \X Fields : Shown[x[1]][x[2]] # Shown[Series[x[1]]][x[2]]}
  BY DEF Init
<1>3. OnlyWhatWasAsked
  BY <1>2 DEF OnlyWhatWasAsked
<1>4. Follows(events, own) /\ Follows(people, own)
  BY <1>2 DEF Follows
<1>5. PlaceIsNamed /\ EventIsMeant /\ BodyCurrent
  BY <1>2 DEF PlaceIsNamed, EventIsMeant, BodyCurrent
<1> QED
  BY <1>1, <1>3, <1>4, <1>5 DEF IInv

LEMMA StepIInv == IInv /\ [Next]_vars => IInv'
<1> SUFFICES ASSUME IInv, [Next]_vars PROVE IInv'
  OBVIOUS
<1>1. CASE UNCHANGED vars
  BY <1>1 DEF vars, service, locals, IInv, TypeOK, OnlyWhatWasAsked, Follows, PlaceIsNamed,
              EventIsMeant, Identified, SeriesById, AllSeries, BodyCurrent, Named, Called
<1> QED
  BY <1>1, EditKeeps, AskKeeps, ToolKeeps DEF Next

\* The variables keep their types whatever people and requests do.
THEOREM CalendarTypeCorrect == Spec => []TypeOK
<1>1. IInv => TypeOK
  BY DEF IInv
<1> QED
  BY <1>1, InitIInv, StepIInv, PTL DEF Spec

\* The calendars differ from what people made of them only in the fields a request
\* named, of the event it identifies and the occurrences that show it, or where
\* somebody's edit came between the tool's read and its write: for any calendars,
\* events and requests.  The code's two exceptions are named in Calendar: a new
\* start sets the end, and the id of a series stands for all of it.
THEOREM CalendarsKeepPeoplesEdits == Spec => []OnlyWhatWasAsked
<1>1. IInv => OnlyWhatWasAsked
  BY DEF IInv
<1> QED
  BY <1>1, InitIInv, StepIInv, PTL DEF Spec
===============================================================================
