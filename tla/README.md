# Reachy Duck: a TLA+ verification project

Reachy Duck is a voice assistant for the Reachy Mini robot. A local Python
program keeps a websocket session with a realtime speech model, runs the tools
the model calls, moves the robot, and serves a settings page. This directory
holds TLA+ modules of its concurrent core, TLC runs, and proofs checked by
TLAPS. Paths below are relative to `src/src/reachy_duck/`.

## The system

Four kinds of actors share state:

* one **asyncio event loop** (`console.py`, `LocalStream.launch`): the startup
  loop that keeps a handler connected, the receive loop of the session, the
  response sender, the tool listener and cleanup tasks, one task for each tool
  call and each timer, and the audio tasks. They interleave at their awaits
  only. Tools that block, like those of the calendar, hold all of it up;
* the **movement worker thread** (`moves.py`), fed through a command queue;
* **watcher threads** (`main.py`): the daemon's stop event, inactivity, and the
  worker thread of the go_to_sleep tool;
* the **settings server**: an event loop of its own, and threads for the legs
  of a request that touch files. Its JSON-RPC methods change settings, and post
  to the first loop what concerns the conversation.

Outside are the realtime server, which runs one response at a time and may
open one by itself when the user stops speaking, the robot and its daemon.

| Component | State | Operations | What makes it correct |
|---|---|---|---|
| Tool manager, `tools/background_tool_manager.py` | registry of calls, their tasks, notification queue, lifecycle tasks | start, run, cancel, time out, purge, listen, start_up, shutdown | each call is reported once, agreeing with the registry; teardown stops every tool |
| Response sender, `huggingface_realtime.py` 425-563 | pending queue, two events, rejected flag | queue, coalesce, send, retry, time out | every item gets a response; nothing is sent into an active response; the worker never sticks |
| Tool results, `huggingface_realtime.py` 565-696, 809-907 | calls in flight, owed response | start calls, send results, request one response per batch | one response per batch, after its last result; a response is owed only while a call can still request it, or a result was lost |
| Timers, `timers.py` | timers, expiry tasks, pending list | set, cancel, expire, announce, retry on a user turn, shutdown | announced exactly once, never after cancelling, never forgotten |
| Movement manager, `moves.py` | command queue, move queue, breathing, listening, tracking, speaking | queue, clear, toggles, tick, stop | moves in order, breathing gives way, head owned by one side, released at the end |
| Life cycle, `main.py`, `console.py`, `app_lifecycle.py` | stop events, restart flag, session, close() calls | launch, reconnect, restart, close, go to sleep | closing and sleeping end the program; new settings reach the connection |
| Registry, `tools/core_tools.py`, `tool_settings.py` | loaded tools, the profile they were loaded for | load, reload, fall back, dispatch | a failed load leaves the old tools; at rest, what is loaded is what the files say |
| Stores: `tool_space*.py`, `profile_*.py`, `personality*.py`, `startup_settings.py` | manifest of Tool Spaces, tool overrides, profile documents, startup choice, each behind its lock or loop | install, remove, save, reset, author, delete, apply, persist, roll back | a failed change restores both files; at the moment a Space is removed no profile enables a tool of it; a deleted profile does not stop the program |
| Calendar, `google_calendar.py` | none of its own; the service's events | list, find, create, update, move | only the event the request identifies changes, in the fields it named |
| Memory and notes, `memory.py`, `notes.py` | two text files | append, replace, remove | no entry is lost |
| Web and remote tools, `web/`, `mcp_client.py` | none | requests with a time limit | errors become results |
| Pure helpers: `calculator.py`, `time_context.py`, `robot_status.py`, `log_diagnostics.py`, ... | none | functions | their definitions |

How they interact: the receive loop starts tools and tells the sender what the
server does; the tool listener calls back into the handler, which queues
response requests; timers announce through the handler's `say`; tools and the
receive loop post commands to the movement manager; watchers close the stream;
routes write the stores, compare with the active profile and reload the
registry, which dispatches read.

The behaviours that are hard here: state read before an await and used after it
(the connection, the active handler), events of the server that lag behind its
state, cancellation at any await, two shutdowns at once, sessions lost in the
middle of anything while the handler keeps its state, flags mirrored between
threads, and waits that expire beside a late answer. `PROJECT.json` lists each
hazard at its line, with the properties that cover it or the reason none does.

## Modules

Each action is what the code runs between two suspension points of its actor
(an await that suspends, a lock, a queue of another thread). Wording, audio and
poses are left out; durations are reduced to "has passed" or "has not".
Definitions introduced by a comment beginning with "Mutant:" are variants with
a plausible bug, used to show that a property can fail; no specification
refers to them.

**BackgroundTools** models `BackgroundToolManager`. `status` is the registry,
`task` and `cancelReq` each asyncio task and its due CancelledError, `queue`
the notifications, `listener` and `handling` the listener and its callback,
`shutdownPc` where each of the two callers of `shutdown()` is: the session's
`finally` and the handler's own shutdown. A cancelled task that never ran its
first step ends without a report, as in asyncio. A round of the cleanup task
(`cleaning`) is `cleanup_tools` then `timeout_tools`; age is a set of calls past
their limit. A shutdown that raised has cancelled that task but left its list of
tasks; the startup loop starts the handler up again on the same manager all the
same, and so does the model.
The bound is `MaxSessions`. Left out: progress updates and getters.

**ResponseSender** models the worker, its callers, the response and error
events of the receive loop, and the server with both directions of the
connection as FIFO queues. Every request has empty arguments in this program,
so the queue is a number. `woken` keeps asyncio's rule that a waiter woken by
`set()` returns even if the event is cleared first. The actions of the server
are external: it rejects `response.create` while a response is active, and may
open one on its own (`UserTurn`).

**ToolBatch** extends BackgroundTools with the handler's side: `FunctionCall`
is the receive loop's, `TakeResult` ... `Conclude` the callback, one action for
each stretch between awaits, with the early returns for a lost connection, the
dropped result, failing writes, a failing look-up and a tool that is gone from
the registry. `abandoned` names the calls whose result was lost on one of these
ways, or with its session, and whose id stays in flight. Its session and shutdown
actions are those of BackgroundTools, conjoined with what the handler does.

**ToolCalls** is what the manager promises the conversation, without registry,
tasks, cancellation or sessions: a call runs, ends, and its result is delivered
with the status it ended with, in the order of ends, one at a time, once.
BackgroundTools implements it (`ImplementsToolCalls`): `Stage` maps a call's
registry entry, and what was put and handed on, to `stage`; the queue is
`waiting`, and the notification in the callback `delivering`.

**Timers** models `TimerManager` with the connection behind its announcer and
the end of the process in `LocalStream.launch`, which calls `shutdown` even when
the handler's own shutdown raised and left the connection open
(`huggingface_realtime.py` 993, `console.py` 807-811). `pending` counts the entries of
each timer in the pending list; `todo` is the copy a user turn goes over.

**Announcements** is what the timers promise whoever sets one, without tasks,
connection, list or turns: a timer expires unless it is cancelled first, an
expired one is announced once, and nothing happens after `shutdown` returned.
Timers implements it (`ImplementsAnnouncements`).

**MovementManager** models the queue of commands, `_handle_command`, the tick
(poll, queue, breathing and publication, in that order), and `stop`. A call to
the robot may fail (`MayFail`); `tracker` is what the robot's tracker was last
told. Left out: poses, antennas, the neutral reset, a second concurrent `stop`.

**AppLifecycle** models `launch`, the startup loop with `start_up`'s retries,
`close()` from three threads, restart requests, and `go_to_sleep_and_stop_app`
from the tool and the inactivity thread, with and without a daemon. A
cancellation may be swallowed where the code awaits a task it has cancelled and
passes over the CancelledError: in a session's clean-up, and wherever the partial
transcript is given up, in a session that runs and in a handler's shutdown. A
listener that failed (`ListenerFails`) makes the handler's shutdown raise before
it closes the connection (`HandlerShutDown`), which a restart ignores, and the end
of the session a failed start. The audio tasks fail with their device. A version
number stands for the connection settings. Left out: a keyboard interrupt.

**ToolStores** models the four files behind the tools and the registry loaded
from them. A request (`op`) runs in steps (`pc`); between two steps others run:
`resolve` to `restored` are `install_tool_space` and `remove_tool_space`, called
by the routes and the command line; `after` and `inspect` the comparison with
the active profile and the reload that follows; `known` to `clear` the routes of
`profile_tool_routes.py`, one thread leg after another; `author` to
`clearDeleted` `PersonalityOps`, which runs on the server's loop without an
await; `compare` to `writeVoice` applying a personality and changing the voice,
half of it on the conversation's loop; `load` to `build` the start and
`initialize_tools`. `locks` holds the manifest's, the tool settings' and the
registry's lock, and each loop while somebody runs on it without an await.
Any read or write may fail (`Fault`). Replaced files change in one step, as the
code writes a copy and renames it; the startup settings are written in place
and may be left unreadable. Deleting a directory may fail half way. `Crash`
ends everything but the files. `locked` stands for a build in which
`LOCKED_PROFILE` is set (`config.py` 15, "Leave as None for normal behavior").
`faultsBefore` remembers the faults up to the last start.
The command line is taken to run while the program does not: its locks are per
process, and nothing in the code protects the files from a second process.

**Calendar** models `google_calendar.py` beside people who edit the same
calendars: each step of a tool ends with one call of the service. An event has a
calendar, title, start, end, guests, and a text for all else. The service is
external: an occurrence shows in each field what its series says until it is
changed in it by itself (`own`), moves with its series and not alone, and reading
or writing what was deleted or moved away fails. A call may fail with or without
having taken effect. `Meaning` says what a request asks to change, apart from the
tool's own tests: with a scope, the occurrence or its series; with the id of a
series and no "all", or an occurrence and no scope, nothing. Where the code goes
on all the same (`SeriesById`), or writes a field nobody named (the end, when a
start was given: `Requested`), the model says so.

The `MC*` modules give the instances their names.

## Runs

| Run | What it asks | Instance |
|---|---|---|
| BackgroundTools | one report per call, handed on once; teardown stops tools; endless tools are reported; ToolCalls is implemented | 2 calls, 2 sessions, raising callbacks and dispatches |
| BackgroundTools_raise | violation: after a callback raised, `shutdown` ends before it cancels tools | the same |
| ResponseSender | items answered, no needless rejection, the event tracks the server, no stuck worker | 2 items, 2 retries, 2 responses of the server's own, 2 sessions, expired waits, failures |
| ResponseSender_rejected | violation: a rejection is not retried when another response's `created` was on its way | 1 session, no failures |
| ToolBatch_batch | one response per batch, and it comes | 2 calls (one of a camera, one of a quiet tool), 2 responses, 1 session |
| ToolBatch_faults | no response is owed without a call that can still request it, but after a lost result | 2 sessions, user turns, an idle tool, all faults |
| Timers | announced exactly once; none forgotten; clean shutdown; Announcements is implemented | 2 timers, 2 lost connections |
| MovementManager_moves | moves in order, breathing's flag, queued moves run | 2 moves, 2 other calls |
| MovementManager_head | tracker, speech anchor, release at stop | 4 calls, failing robot calls |
| AppLifecycle | closing and sleeping end the program; settings are applied | 1 change of the settings, 2 attempts, failing listeners and audio devices |
| ToolStores | failed changes leave the files; removed means disabled; loaded tools follow the files; the program starts; no request waits forever | 2 requests at once, 3 in all, 2 faults, 1 crash; 2 profiles, 2 Spaces with one alias, 1 remote and 1 own tool; locked or not |
| Calendar | nothing changes but the fields a request named, of the event it identifies | 3 requests, 2 edits of other people, 1 fault; 3 calendars, two of one name; an event, a series, an occurrence of it, room for one more |

Two calls, items, timers or moves are enough for every pairwise interleaving the
properties speak of: each property relates one or two of them, and actors share
no state but what the modules name. Two sessions let state left by one meet the
next. Two retries distinguish the last attempt from another. Of
MovementManager's calls, four in the head run allow on, speak, silence, off in
every order. In ToolStores two requests meet while a third has left the files in
a state the first ones did not; two faults make a write and its roll-back fail;
two Spaces with one alias bring about the refusal of `AliasTaken`, and a start
whose profile is gone the fallback. In Calendar one edit can fall between a read
and a write and another before or after. Deadlock is not checked: every system
here may come to rest, all calls made and all bounds reached; what must not stop
is stated as liveness.

**Fairness.** The event loop runs every ready task and clocks advance, so weak
fairness holds for every step that is enabled until taken: tasks' next steps,
expired waits, cleanup rounds, the worker thread's tick, a request's next leg
once the lock or the loop it needs is free. The server reads what
it is sent and ends its responses (ResponseSender, ToolBatch). No fairness is
assumed of users, of tools that run, of the daemon, or of the end of a session,
except where the code itself closes it. In Timers a lost session is opened again
and the user speaks again, which is what "the next user turn" relies on.

**Exceptions written into properties.** Some hold only up to a history variable,
named where it is declared: `faulty` (a wait expired or the connection failed),
MovementManager's `failed` (a robot call failed), `missed` (a restart found the
handler connecting, or its listener failed, whose error keeps the connection from
being closed), `lost` (the last cancellation was swallowed by a session that goes
on), `abandoned` (ToolBatch: a result of the turn was lost),
`stale` (ToolStores: the code leaves what is loaded although settings changed,
as when a load fails, the active personality is written anew, or the active
profile is set back while another request looks at it), `excused` (Calendar: the
change was asked for, or somebody's edit came between the tool's read and its
write, which sends the whole event without a condition). Two of Calendar's are
definitions: `SeriesById`, the whole series for any scope when its id was given,
and the end that follows a new start (`Requested`). Each names a case in
which the code gives no guarantee; the hazards say which.

## Disagreements found

1. `shutdown` documents that it cancels running tools
   (`tools/background_tool_manager.py` 294), and does not when awaiting a failed
   listener raises (299).
2. `_response_sender_loop` documents that a rejection is retried
   (`huggingface_realtime.py` 495), and does not when the `response.created` of a
   response the server opened was taken for its own (544).

Others are visible in the models and listed as hazards without property: a
restart asked for while connecting, or after the session's tool listener failed,
is applied only after that session; the id of a series is taken for all of it
without the question for the scope that `specs/google-calendar-extension.md` (10)
asks for (`google_calendar.py` 458), and a new start sets the end too (477); a
`close()` before `launch` is cleared by it (`console.py` 742); a reply cut off
in `request_stop_current_app` leaves the program running with go_to_sleep used
up (`app_lifecycle.py` 80); a voice change on one loop may write back the
startup profile that a personality applied on the other has just replaced
(`console.py` 502); an edit of a calendar event made while the tool updates it
is overwritten (`google_calendar.py` 515). The models also contain, as choices
the properties allow for: a profile deleted while it is being applied
(`personality_routes.py` 228), the two reads of the active profile in
`initialize_tools`, an edited active personality whose tools are not loaded
again, and an event created twice after its first answer was lost.

## Proofs

TLAPS checks, for every value of the constants (any set of calls or timers, any
bounds, either value of the switches):

* **BackgroundToolsProofs**: `TypeCorrect`, `EveryCallReportedOnce`,
  `NotificationsAgree`, `TeardownStopsTools`. Neither of the two middle
  properties is inductive: a second report would be possible if a terminal
  entry could still have an executing task. `TaskMatchesStatus` rules it out,
  and `IInv` joins it to the properties. A queued notification must also not
  have been handed out, which is part of `QueueMatchesRegistry` for that reason.
  `TeardownInv` strengthens `ShutdownStopsTools` with what holds while the
  teardown waits. `ManagerImplementsToolCalls` is the refinement: each action
  maps to a step of ToolCalls or to a stutter, which needs that the notification
  in the callback was handed on and not yet concluded (`ListenerInv`).
* **ToolBatchProofs**: `SessionRunsManager`: the composition's steps are the
  manager's or leave it alone, so all that is proved of the manager holds in it.
  `BatchTypeCorrect`; `DebtHasDebtor`, a debt without a lost result has a call in
  flight that runs, is queued or is being handled, from the agreement of the
  callback's place with the notification it handles and of in-flight calls with the
  registry; `OneResponsePerBatch`, under `Undisturbed` (no user turn, no expired
  wait: the cases in which the code may answer twice), where `Answering` follows
  each batch from its calls to the response.
* **ToolStoresProofs**: `StoresTypeCorrect`, which includes that the default
  profile keeps its document; `FailuresLeaveTheFiles`, `RemovedSpacesAreDisabled`.
  The argument is that of a lock holder: whoever is between its first read and
  its last write holds both stores' locks (`HoldsStores`), what it remembers is
  what the files say (`Remembers`), and the profiles it went through are disabled
  and stay so (`RemovalIsThorough`). `Confined` says what everybody else can do
  meanwhile: nothing to the two files, and to a document only delete it, which
  makes a profile unreadable and enables nothing.

  `RemovedSpacesAreDisabled` speaks of the moment the manifest is written; a request
  that listed the tools before may enable a name again later. `OnlyFaultsKeepItDown`,
  of the faults since the program was started: a start that falls back finds the
  default profile, and a pinned one its own. `SessionInv` says, besides the types, at which step each
  kind of request can be (`Onward`); that a start or a command line is alone
  while the program is not up, so that nothing is deleted under it (`Session`);
  and that a locked build never leaves its profile (`PinnedStays`).

  `LoadedFollowsTheStores` needs the most. It holds at rest; in between, what is
  loaded may be behind the files, and a change may still be taken back. The
  invariant, `ServedInv`, therefore compares `served` with the settings in force
  (`Base`, `Goes`): while the holder of the tool settings' lock may still roll
  back, those it found. It does so for the active profile and for one that an
  applied personality may set back (`Watched`), for a tool of a Space only when
  no installation is still to look for it (`Announces`), and for a profile only
  when nobody who changed it is still to reload (`Covers`): whoever disturbs the
  agreement is such a request from that step on, and stops being one when it has
  reloaded or seen that the profile is not the active one. Reading the settings
  and building the registry are two steps; what was read is still right when it
  is built, unless somebody else covers the profile (`LoaderAgrees`). The proof
  rests on who runs alone on a loop or under a lock (`RunsAlone`) and on what a
  change leaves of the other profiles (`SparesOthers`).
* **CalendarProofs**: `CalendarTypeCorrect`, `CalendarsKeepPeoplesEdits`. The
  body a tool is about to write is what the event shows, but for the fields edited
  since it was read (`BodyCurrent`), and the code changes of it what the request
  named (`BodyChanges`); the request identifies the event (`EventIsMeant`), in the
  calendar that was read (`PlaceIsNamed`); and occurrences follow their series in
  the fields that are not their own, in both histories (`Follows`), so that a write
  to a series changes them in the same fields.
* **AppLifecycleProofs**: `LifecycleTypes`, with the limit of attempts; and two
  safety properties stated in the proof module. `OnlyAskingEndsTheApp`: the event
  loop is left only when the daemon or a caller of go_to_sleep asked for it, an
  audio device failed, or a program run by hand has no target. The argument goes
  backwards: what was cut off was cancelled, what was cancelled or has returned saw
  the stop event (`CancelWasAsked`, `EndWasStopped`), and that is set by a `close()`
  that was asked for (`StopWasAsked`). `SleepHasOneAuthor` (`OneGoesToSleep`): one
  caller at most is past the refusal.
* **TimersProofs**: `TypeCorrect`, `AtMostOneAnnouncement`, `NoExpiryForgotten`,
  `ShutdownIsClean`, and `CancelledIsSilent`, stated in the proof module. The
  heart is `CountsAgree`: for each timer the announcements sent, the pending
  entries and the expiry task's state add up to one; `TurnAgrees` bounds the
  copy a user turn works on, and `TasksAreKnown` says which tasks the table
  still holds. `ManagerImplementsAnnouncements` is the refinement: with these
  facts each step that announces finds its timer expired, unannounced, and the
  manager not shut down.
* **MovementManagerProofs**: `TypeCorrect`, `BreathingFlagCorrect`,
  `MovesInOrder`, `AnchorCorrect`, `TrackerCorrect`, `StopReleases`. The flag
  needs that a queued BreathingMove is the first of the queue while no move is
  played (`BreathingInv`). For the order, `OrderInv` follows a move through the
  command queue, the move queue and the worker: at each of the three places and
  from one to the next, moves keep the order of the `queue_move` calls.
* **ResponseSenderProofs**: `TypeCorrect`, `DoneIsRight`, `NoNeedlessRejection`.
  The event agrees with the server once everything is received because the last
  `created` or `done` on its way always agrees (`VerdictInv`). `PhaseInv` lists
  the rounds of a worker that is alone with the server, resting, asked,
  answering, with what is on its way in each; a rejection fits into none.

The only assumptions are the modules' named ASSUMEs, about the types of
constants, and `Undisturbed` where it is named. Of ToolStores and Calendar they
also say that special values are not ordinary ones; of ToolStores, that the
default profile has its document at first (it is bundled), that no personality
is written under its name (`personality.py` 144 gives custom profiles a prefix),
and that the Spaces that come with the program list tools under their own alias,
as every installation does (`tool_spaces.py` 198-216, 455-475). Each proof
follows one pattern: Init implies the invariant, each action preserves each
conjunct it can disturb, and PTL combines the two.

Left to TLC: the liveness properties (fairness and ENABLED are outside the
provers). Every other property that a passing run checks, invariant, action
property or refinement, is a theorem. The invariants were checked with TLC on
the runs' instances before they were proved, `ServedInv` also by simulation with
three and four requests at once and three profiles and Spaces.

## Plan

Done: the modules above; the refinements of the tool manager and of the timers;
the composition of manager and session; stores, registry and calendar; proofs
for every component module. What is left, in order:

1. Timers composed with ResponseSender, whose queue may lose an announcement's
   request.
2. Liveness of a `close()` that comes before the event loop runs, once the code
   gives a guarantee for it.
3. Memory and notes as bounded lists; the redirect loop of `web/fetch.py`.

## Not modelled

Of the modelled components:

* Tool manager: progress updates and getters. Movement manager: poses, antennas,
  the neutral reset, a second concurrent `stop`.
* Stores: the migration of profile files older than `profile.md`
  (`profile_store.py` 132-194), the cache of remote tools and its descriptions,
  tools loaded from a user's directory, system tools added to every profile, a
  profile named by an environment variable, hidden profiles, and cleaned tool
  names that coincide (`tool_spaces.py` 460-481). Importing a tool's module is
  Python's; a failure of it is a `Fault`. The comparison in
  `PersonalityOps.apply` and the persisting that may follow are one leg of the
  server's loop (`Compare`): that another thread selects a profile between these
  two lines is left out.
* Calendar: dates and recurrences (their parsing is one flag, `valid`; a start or
  end is a time of day), occurrences of a series that is created, the page
  limit of a listing, the OAuth token file, the primary calendar under its real
  id, and the wording of errors: an update that is followed by a failing move is
  reported as an error although it took place.

Not at all:

* Audio, wording, poses and interpolation: continuous values without protocol.
* The web page's JavaScript and the wire format of JSON-RPC: no robot state.
* HTTP clients, HTML extraction, the MCP client, diagnostics, calculators and
  thin tools: sequential, one pass over their input, tested directly.
* Memory and notes: short functions on one file each, under one lock.
