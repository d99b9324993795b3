------------------------------ MODULE MCCalendar ------------------------------
(* A small instance of Calendar: the primary calendar and two of one name, a   *)
(* single event and a series with one occurrence of the same title, and room   *)
(* for one more.                                                               *)
EXTENDS Calendar, TLC

CONSTANTS home, work, club, single, series, monday, new, talk, said, ann, bob

MCName == (home :> "home") @@ (work :> "ours") @@ (club :> "ours")
MCSeries == monday :> series
Entry(calendar) == [calendar |-> calendar, title |-> talk, start |-> talk, end |-> talk,
                    text |-> talk, guests |-> {ann}]
MCShown == (single :> Entry(work)) @@ (series :> Entry(home)) @@ (monday :> [Entry(home) EXCEPT !.text = said])
           @@ (new :> [Entry(None) EXCEPT !.guests = {}])

Update == [NoOp EXCEPT !.kind = "update", !.valid = TRUE, !.set = {"text"}]

MCAsked ==
  {[NoOp EXCEPT !.calendar = "home", !.valid = v] : v \in BOOLEAN}
  \cup {[NoOp EXCEPT !.kind = "create", !.calendar = c, !.valid = TRUE, !.set = {"guests"}] :
          c \in {None, "ours"}}
  \cup {[Update EXCEPT !.title = talk, !.scope = s, !.set = {IF s = "this" THEN "start" ELSE "text"}] :
          s \in {None, "this", "future"}}
  \cup {[Update EXCEPT !.title = talk, !.scope = "all", !.target = club, !.valid = v] : v \in BOOLEAN}
  \cup {[Update EXCEPT !.calendar = work, !.title = talk, !.set = {"title"}, !.target = "ours"],
         [Update EXCEPT !.event = monday, !.scope = "all", !.set = {"guests"}, !.add = TRUE],
         [Update EXCEPT !.event = series, !.set = {"start", "guests"}]}
===============================================================================
