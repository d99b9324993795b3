SPECIFICATION Spec
CONSTANTS
  home = home
  work = work
  club = club
  single = single
  series = series
  monday = monday
  new = new
  talk = talk
  said = said
  ann = ann
  bob = bob
  Calendars = {home, work, club}
  Primary = home
  Names = {"home", "ours"}
  Name <- MCName
  Events = {single, series, monday, new}
  Series <- MCSeries
  Shown <- MCShown
  Words = {talk, said}
  Said = said
  Guests = {ann, bob}
  Invited = bob
  Asked <- MCAsked
  None = None
  MaxRequests = 3
  MaxEdits = 2
  MaxFaults = 1
INVARIANTS
  OnlyWhatWasAsked
CHECK_DEADLOCK FALSE
