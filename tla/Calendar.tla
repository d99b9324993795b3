------------------------------- MODULE Calendar -------------------------------
(***************************************************************************)
(* The calendar tools (google_calendar.py): finding one event, changing it *)
(* and moving it, or creating one, while people edit the same calendars in *)
(* other programs.  Each step ends with one call of the service; the tools *)
(* run on the event loop without an await, so one request runs at a time.  *)
(*                                                                         *)
(* An event is what is shown of it: its calendar (None: there is none),    *)
(* title, the times of day it starts and ends at, text (everything else    *)
(* the tools may set) and guests.  A field of an occurrence shows what the *)
(* series says until it is changed by itself.  Dates are left out: a time  *)
(* range only narrows a search.                                            *)
(***************************************************************************)
EXTENDS Naturals

CONSTANTS
  Calendars, Primary, Names, Name,  \* calendars and what they are called
  Events,        \* ids of events, created or not
  Series,        \* for the ids of occurrences, the id of their series
  Shown,         \* the events that are there at first
  Words, Said,   \* titles, times and texts; what the conversation asks for
  Guests, Invited,  \* e-mail addresses; the one the conversation asks for
  Asked,         \* requests the conversation may make: a subset of Requests
  None,
  MaxRequests, MaxEdits, MaxFaults  \* bounds

Occurrences == DOMAIN Series
Fields == {"calendar", "title", "start", "end", "text", "guests"}
Event == [calendar : Calendars \cup {None}, title : Words, start : Words, end : Words,
          text : Words, guests : SUBSET Guests]

\* set: the fields to change; add: guests are added to those there.
Requests == [kind : {"list", "create", "update"}, calendar : Calendars \cup Names \cup {None},
             target : Calendars \cup Names \cup {None}, event : Events \cup {None},
             title : Words \cup {None}, scope : {None, "this", "all", "future"},
             set : SUBSET (Fields \ {"calendar"}), add : BOOLEAN, valid : BOOLEAN]

ASSUME CalendarAssumption ==
  /\ Primary \in Calendars /\ Name \in [Calendars -> Names]
  /\ Occurrences \subseteq Events /\ \A i \in Occurrences : Series[i] \in Events \ Occurrences
  /\ Shown \in [Events -> Event]
  /\ \A i \in Occurrences : Shown[i].calendar \in {None, Shown[Series[i]].calendar}
  /\ Said \in Words /\ Invited \in Guests
  /\ Asked \subseteq Requests
  /\ None \notin Calendars \cup Names \cup Events
ASSUME BoundsAssumption == MaxRequests \in Nat /\ MaxEdits \in Nat /\ MaxFaults \in Nat

VARIABLES
  events,   \* the service's events
  own,      \* the fields of occurrences that were changed by themselves, by whomever
  people,   \* history: the events as people would have them without the robot
            \* (a field that is own follows the series in neither)
  excused,  \* history: <<event, field>> where the robot's change was asked for, or
            \* the edit of somebody else came between its read and its write
  pc, op,   \* the step the running request takes next, and what it asks
  place,    \* calendar_id, then destination
  event,    \* the id and the body of event
  meant,    \* history: the events the request may mean
  edited,   \* history: the fields of event that people edited since it was read
  known,    \* event ids the conversation has been told
  made, edits, faults  \* counters for the bounds

service == <<events, own, people, excused>>
locals == <<place, event, meant, edited>>
vars == <<service, pc, op, locals, known, made, edits, faults>>

AllSeries == {Series[i] : i \in Occurrences}
NoOp == [kind |-> "list", calendar |-> None, target |-> None, event |-> None, title |-> Said,
         scope |-> None, set |-> {}, add |-> FALSE, valid |-> FALSE]
Nothing == [id |-> None, body |-> [calendar |-> None, title |-> Said, start |-> Said, end |-> Said,
                                   text |-> Said, guests |-> {}]]

TypeOK ==
  /\ events \in [Events -> Event] /\ people \in [Events -> Event]
  /\ own \in SUBSET (Occurrences \X Fields)
  /\ excused \in SUBSET (Events \X Fields) /\ edited \in SUBSET Fields
  /\ pc \in {"idle", "service", "resolve", "listing", "lookup", "series", "write",
             "insert", "target", "move"}
  /\ op \in Requests
  /\ place \in Calendars \cup {None}
  /\ event \in [id : Events \cup {None}, body : Event]
  /\ meant \in SUBSET Events /\ known \in SUBSET Events
  /\ made \in 0..MaxRequests /\ edits \in 0..MaxEdits /\ faults \in 0..MaxFaults

Init ==
  /\ events = Shown /\ people = Shown /\ excused = {}
  /\ own = {x \in Occurrences \X Fields : Shown[x[1]][x[2]] # Shown[Series[x[1]]][x[2]]}
  /\ pc = "idle" /\ op = NoOp
  /\ place = None /\ event = Nothing /\ meant = {} /\ edited = {}
  /\ known = {}
  /\ made = 0 /\ edits = 0 /\ faults = 0

-----------------------------------------------------------------------------
(* The service and the people who use it *)

\* list with singleEvents: single events and occurrences, but no series.
Listed(c) == {e \in Events \ AllSeries : events[e].calendar = c}

Matches(c, title) == {e \in Listed(c) : events[e].title = title}

\* e and the occurrences that show what e says in field f.
Reaches(e, f) == {e} \cup {i \in Occurrences : Series[i] = e /\ <<i, f>> \notin own}

\* e shows body, and its occurrences with it.
Put(db, e, body) ==
  LET shown(x, f) == IF x \in Reaches(e, f) THEN body[f] ELSE db[x][f]
  IN [x \in Events |->
        [calendar |-> shown(x, "calendar"), title |-> shown(x, "title"), start |-> shown(x, "start"),
         end |-> shown(x, "end"), text |-> shown(x, "text"), guests |-> shown(x, "guests")]]

\* The fields of e that are its own once fs are changed.
Owned(e, fs) == IF e \in Occurrences THEN {e} \X fs ELSE {}

\* Somebody changes an event, moves it or deletes it.
Edit(e) ==
  /\ edits < MaxEdits /\ edits' = edits + 1
  /\ events[e].calendar # None
  /\ \E f \in Fields : \E v \in CASE f = "calendar" -> Calendars \cup {None}
                                 [] f = "guests" -> SUBSET Guests
                                 [] OTHER -> Words :
       /\ v # events[e][f]
       /\ f = "calendar" /\ v # None => e \notin Occurrences
       /\ events' = Put(events, e, [events[e] EXCEPT ![f] = v])
       /\ people' = Put(people, e, [people[e] EXCEPT ![f] = v])
       /\ own' = own \cup Owned(e, {f})
       /\ excused' = excused \ (Reaches(e, f) \X {f})
       /\ edited' = IF pc = "write" /\ event.id \in Reaches(e, f) THEN edited \cup {f} ELSE edited
  /\ UNCHANGED <<pc, op, place, event, meant, known, made, faults>>

-----------------------------------------------------------------------------
(* Requests *)

\* A call of the service fails, or its answer is lost.
Fault == faults < MaxFaults /\ faults' = faults + 1
Works == UNCHANGED faults

End ==
  /\ pc' = "idle" /\ op' = NoOp
  /\ place' = None /\ event' = Nothing /\ meant' = {} /\ edited' = {}
Goto(step) == pc' = step /\ UNCHANGED op

\* The conversation uses the ids it was told, or a title.
Ask(o) ==
  /\ pc = "idle" /\ made < MaxRequests
  /\ o.event \in known \cup {None}
  /\ pc' = "service" /\ op' = o /\ made' = made + 1
  /\ UNCHANGED <<service, locals, known, edits, faults>>

\* build_calendar_service; create and list have checked their dates before it.
Service ==
  /\ pc = "service"
  /\ \/ Works /\ (op.kind = "list" => op.valid) /\ Goto("resolve") /\ UNCHANGED locals
     \/ Works /\ op.kind # "update" /\ ~op.valid /\ End
     \/ Fault /\ End
  /\ UNCHANGED <<service, known, made, edits>>

\* The calendars that match what was asked: an id comes before a name.
Called(c) == IF c \in Calendars THEN {c} ELSE {k \in Calendars : Name[k] = c}

\* The calendars a request may mean.
Named(c) == IF c = None THEN {Primary} ELSE Called(c)

\* resolve_calendar_id, without the call of list_calendars: {} is its error.
Resolved(c) ==
  IF c = None THEN {Primary}
  ELSE IF \E k \in Calendars : Called(c) = {k} THEN Called(c) ELSE {}

Resolve ==
  /\ pc = "resolve"
  /\ \/ Works /\ Resolved(op.calendar) = {} /\ End
     \/ /\ Works /\ Resolved(op.calendar) # {}
        /\ place' \in Resolved(op.calendar)
        /\ Goto(CASE op.kind = "list" -> "listing"
                  [] op.kind = "create" -> "insert"
                  [] op.kind = "update" -> "lookup")
        /\ UNCHANGED <<event, meant, edited>>
     \/ Fault /\ op.calendar \notin {None, Primary} /\ End
  /\ UNCHANGED <<service, known, made, edits>>

\* list_calendar_events: ids of events, and of the series of occurrences.
List ==
  /\ pc = "listing" /\ End
  /\ \/ Works /\ known' = known \cup UNION {{e} \cup (IF e \in Occurrences THEN {Series[e]} ELSE {}) :
                                           e \in Listed(place)}
     \/ Fault /\ UNCHANGED known
  /\ UNCHANGED <<service, made, edits>>

\* events().insert; the answer may be lost after the event was made.  The
\* occurrences of a series that is made are left out.
Insert ==
  /\ pc = "insert" /\ End
  /\ \/ /\ Works \/ Fault
        /\ \E e \in Events \ (Occurrences \cup AllSeries) :
             /\ Shown[e].calendar = None /\ events[e].calendar = None
             /\ events' = [events EXCEPT ![e] =
                  [calendar |-> place, title |-> Said, start |-> Said, end |-> Said, text |-> Said,
                   guests |-> IF "guests" \in op.set THEN {Invited} ELSE {}]]
             /\ excused' = excused \cup
                  {<<e, f>> : f \in IF Named(op.calendar) = {place} THEN Fields ELSE Fields \ {"calendar"}}
     \/ Fault /\ UNCHANGED <<events, excused>>
  /\ UNCHANGED <<own, people, known, made, edits>>

-----------------------------------------------------------------------------
(* update_calendar_event *)

\* The event a request that finds e asks to change: none if it leaves open whether
\* one occurrence or the whole series is meant.
Meaning(e) ==
  IF op.scope = "all" THEN {IF e \in Occurrences THEN Series[e] ELSE e}
  ELSE IF op.scope = "future" \/ e \in AllSeries \/ (op.scope = None /\ e \in Occurrences) THEN {}
  ELSE {e}

\* The first event found for the request, and the questions about it.
Lookup ==
  LET found == IF op.event # None THEN {op.event} \cap {e \in Events : events[e].calendar = place}
               ELSE Matches(place, op.title)
      repeats == found \cap Occurrences # {}
      clear == (\E e \in Events : found = {e}) /\ op.scope # "future" /\ (repeats => op.scope # None)
  IN /\ pc = "lookup"
     /\ \/ Works /\ ~clear /\ End
        \/ /\ Works /\ clear
           /\ \E e \in found : event' = [id |-> e, body |-> events[e]]
           /\ meant' = UNION {Meaning(e) : e \in found}
           /\ Goto(IF repeats /\ op.scope = "all" THEN "series" ELSE "write")
           /\ UNCHANGED <<place, edited>>
        \/ Fault /\ End
  /\ UNCHANGED <<service, known, made, edits>>

\* Mutant: the series is written with what was read of the occurrence.
ReadSeriesId ==
  /\ pc = "series" /\ Works
  /\ event' = [event EXCEPT !.id = Series[event.id]]
  /\ Goto("write")
  /\ UNCHANGED <<service, place, meant, edited, known, made, edits>>

\* The series is read in place of its occurrence.
ReadSeries ==
  LET s == Series[event.id]
  IN /\ pc = "series"
     /\ \/ /\ Works /\ events[s].calendar = place
           /\ event' = [id |-> s, body |-> events[s]]
           /\ Goto("write")
           /\ UNCHANGED <<place, meant, edited>>
        \/ ((Works /\ events[s].calendar # place) \/ Fault) /\ End
     /\ UNCHANGED <<service, known, made, edits>>

\* event with the changes asked for; a new start sets the end as well.
Body ==
  LET changed(f, old) == IF f \in op.set THEN Said ELSE old
  IN [event.body EXCEPT
        !.title = changed("title", @), !.text = changed("text", @), !.start = changed("start", @),
        !.end = IF op.set \cap {"start", "end"} # {} THEN Said ELSE @,
        !.guests = IF "guests" \notin op.set THEN @ ELSE IF op.add THEN @ \cup {Invited} ELSE {Invited}]

\* Exception: with the id of a series the whole series is written, whatever the
\* scope is, and nobody is asked.
SeriesById == op.event = event.id /\ event.id \in AllSeries
Identified == meant = {event.id} \/ SeriesById

\* The fields the request may overwrite.  Exception: end, when it gave a start.
Requested ==
  (op.set \ (IF op.add THEN {"guests"} ELSE {})) \cup (IF "start" \in op.set THEN {"end"} ELSE {})

\* Fields fs of the event, where its occurrences show them too.
Reached(fs) == UNION {Reaches(event.id, f) \X {f} : f \in fs}

\* events().update writes the whole body, without a condition on what is there.
Updates ==
  /\ events[event.id].calendar = place
  /\ events' = Put(events, event.id, Body)
  /\ own' = own \cup Owned(event.id, {f \in Fields : Body[f] # events[event.id][f]})
  /\ excused' = excused \cup Reached(edited \cup (IF Identified THEN Requested ELSE {}))
  /\ UNCHANGED people

\* Wrong arguments are found before the call; its answer may be lost after it.
Write ==
  /\ pc = "write"
  /\ \/ Works /\ (op.valid => events[event.id].calendar # place) /\ End /\ UNCHANGED service
     \/ /\ Works /\ op.valid /\ Updates
        /\ IF op.target = None THEN End
           ELSE Goto("target") /\ edited' = {} /\ UNCHANGED <<place, event, meant>>
     \/ op.valid /\ Fault /\ End /\ (Updates \/ UNCHANGED service)
  /\ UNCHANGED <<known, made, edits>>

\* The target is resolved when the update is done already.
Target ==
  /\ pc = "target"
  /\ \/ Works /\ Resolved(op.target) \in {{}, {place}} /\ End
     \/ Works /\ Resolved(op.target) \notin {{}, {place}} /\ Goto("move") /\ UNCHANGED locals
     \/ Fault /\ op.target \notin {None, Primary} /\ End
  /\ UNCHANGED <<service, known, made, edits>>

\* events().move; the service does not move single occurrences.
Moves ==
  /\ event.id \notin Occurrences /\ events[event.id].calendar = place
  /\ \E c \in Resolved(op.target) :
       /\ events' = Put(events, event.id, [events[event.id] EXCEPT !.calendar = c])
       /\ excused' = excused \cup IF Identified /\ Named(op.target) = {c} THEN Reached({"calendar"}) ELSE {}
  /\ UNCHANGED <<own, people>>

Move ==
  /\ pc = "move" /\ End
  /\ \/ Works /\ Moves
     \/ /\ Works /\ (event.id \in Occurrences \/ events[event.id].calendar # place)
        /\ UNCHANGED service
     \/ Fault /\ (Moves \/ UNCHANGED service)
  /\ UNCHANGED <<known, made, edits>>

-----------------------------------------------------------------------------
Tool == Service \/ Resolve \/ List \/ Insert \/ Lookup \/ ReadSeries \/ Write \/ Target \/ Move

Next == (\E e \in Events : Edit(e)) \/ (\E o \in Asked : Ask(o)) \/ Tool

Spec == Init /\ [][Next]_vars

-----------------------------------------------------------------------------
(* Properties *)

\* However requests and edits of other people alternate, calls fail and answers
\* are lost, the calendars differ from what people made of them only in the fields
\* a request named, of the one event it identifies (and the occurrences that show
\* it), and where an edit came between the tool's read and its write; guests that
\* are added replace nobody.  Two exceptions are the code's: a new start sets the
\* end (Requested), and the id of a series stands for all of it (SeriesById).
OnlyWhatWasAsked ==
  \A e \in Events : \A f \in Fields :
    \/ <<e, f>> \in excused
    \/ IF f = "guests" THEN people[e].guests \subseteq events[e].guests
       ELSE events[e][f] = people[e][f]
==============================================================================
