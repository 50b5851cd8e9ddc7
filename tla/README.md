# StreetLab: TLA+ specifications and proofs

StreetLab is a driving simulator in three parts: a Python backend that simulates
and serves worlds over WebSockets (`streetlab-backend/`), a browser frontend that
draws them (`streetlab/src/`), and a desktop shell that starts the backend as a
sidecar (`streetlab/src-tauri/`). This directory models the parts where several
threads, tasks or connections meet, checks them with TLC on small instances, and
proves the main invariants with TLAPS for every value of the constants.

Paths below are relative to the repository. `MC*.tla` and `*.cfg` are the
instances TLC runs; `*Proofs.tla` hold theorems; `PROJECT.json` maps every
definition to the lines it models.

    tlc -workers 2 -config MCSessions.cfg MCSessions
    tlapm SessionsProofs.tla

## 1. Inventory

| Component | State | Operations | Hard because |
|---|---|---|---|
| **Hosted sessions** `server/ws_server.py` `_Sessions`, `_serve`, `_wait_in_line` | `reserved`, `waiters`, each waiter's `admitted` and `changed`, `active`, `clients["count"]` | admit, queue, release to the head of the line, leave, notify, build a world, end it | handlers interleave at every `await`; a visitor can vanish anywhere; a world may fail to build |
| **Watchdog** `_Connection.watchdog` | `last_input`, `cap_deadline`, `warned` | look once a tick; warn, close 4408 / 4409 | the event loop may be late; two limits share one notice; the line comes and goes |
| **Simulation loop** `sim/loop.py` `SimLoop` | command queue, event queue and log, executor, `_pending_scene`, `_scene_epoch`, `_latest` | drain, swap, step, record, publish; submit a build | one thread, one build worker and many readers share fields under short locks |
| **Connection** `_Connection` | `_sent_epoch`, `_event_cursor`, the pending reply | stream scenes, frames, events; apply a command with a 5 s timeout | reads two clocks of the simulation; skips frames but must not skip events |
| **Simulation** `sim/loop.py` `Simulation` | the world: ego, traffic, parameters, drive mode, scene | about twenty commands, `step` | sequential on one thread, but driven by two queues of a driver, a planner and a monitor that do not see each other |
| **Frame pipeline** `perception/{frames,pipeline,ml_source,tracker}.py` | one-deep slot and sequence gate, one worker, newest result, tracks | offer, detect, consume, reset on connect, reset on swap | event loop, worker and simulation thread share it; results arrive a world late |
| **Browser transport** `net/wsClient.ts` | socket, timer, attempt count, `halted`, queue | connect, retry, close, send; socket events | stale timers, verdicts, an impatient user |
| **Store** `store/simStore.ts` | latest frame, `locationPending` / `Progress` / `Error`, acks | reduce each message, issue commands | an answer may be lost with the connection or be another request's |
| **Capture sink** `perception/capture.py` | COCO lists, `labels.json` | write, periodic rewrite, finalize | finalize may run on another thread, or be killed |
| **Disk and model cache** `map/cache.py`, `perception/model_cache.py` | files | get, atomic put, LRU evict, sweep | several processes share the directory |
| **Geocoding, Overpass** `map/geocode.py`, `map/overpass.py` | next slot, generation, cached places | throttle, suggest (latest wins), look up, retry over mirrors | suggestions supersede one another while they wait |
| **Map building** `map/*` | none | OSM to lanes, features, scene | large and numeric, sequential |
| **Traffic, pedestrians, staged hazards** `sim/agents.py`, `events.py`, ... | agents; at an all-way stop `_waiting`, `_box_holder`, `_box_busy_at`, `_ego_waiting` | IDM step, stop and release, staging | continuous, but every car and the ego decide for themselves who goes first |
| **Planner** `plan/*` | `BehaviorFSM`: stop, dwell, waiters, `LaneChange`, cooldown; hazard filters | plan a tick; the turn signal | long protocols (stop, yield, change lane) that junctions, lane ends and the driver interrupt at any tick |
| **Attention, input** `ui/attention.ts`, `input/*` | stage, lock-out, held keys, steering ramp | escalate, slow down, release; sample and send the keys | decides on old frames, and its commands race the keys to the world |
| **Sidecar** `src-tauri/src/lib.rs` | handshake channel, PID | spawn, parse ready line, tear down | ready races timeout and exit |
| **CLI, schema, mock server, rendering, evaluation** | - | - | no protocol of their own |

How they interact. A visitor's browser transport opens a socket; in hosted mode
`_serve` takes it through the slot pool and the line and builds it a private
`SimLoop`, in local or shared mode it joins the only one. The connection streams
what the loop publishes, and hands commands to the loop's queue; the watchdog runs
beside it and ends the session, which is what frees slots for the line. Camera
frames go from the browser through the connection to the frame pipeline, whose
results the simulation thread consumes; this exists only outside hosted mode (the
command line refuses `--perception ml` with `--max-sessions`). Within the world, a
step moves the traffic, then plans, then drives: the planner runs in every drive
mode and the mode says whose steering and braking counts. The driver reaches the
mode twice, by commands through the queue and by keys through the latest-wins slot;
the attention monitor, which sees frames only, sends commands of its own.

What makes each component correct is in section 3, property by property;
`PROJECT.json` lists the hazards, each at its line, with the properties that cover
it or the reason none does.

## 2. Modules

| Module | Models | Runs | Proofs |
|---|---|---|---|
| `SlotPool` | what the hosted server promises: at most `Limit` holders, one FIFO line, a freed slot goes to its head | via `Sessions` | `SessionsProofs` |
| `Sessions` | `_Sessions` and the handlers around it | `sessions` | `SessionsProofs` |
| `Watchdog` | `_Connection.watchdog` in integer time | `watchdog`, `watchdog_notice` | `WatchdogProofs` |
| `SimLoop` | `SimLoop` and `_Connection.__init__` / `stream` / `_apply` | `loop`, `loop_live`, `loop_shared` | `SimLoopProofs` |
| `Perception` | frame slot, worker, consumption, tracker | `perception`, `perception_ghosts` | `PerceptionProofs` |
| `WsClient` | the browser transport | via `LocationSearch` | `WsClientProofs` |
| `LocationSearch` | the store's location search over `WsClient` and a server as one user sees it | `client` | `WsClientProofs` |
| `AllWayStop` | `IdmTraffic` and `BehaviorFSM` at one all-way stop | `junction` | `AllWayStopProofs` |
| `Driving` | drive modes, ladder and gears; keyboard sender; attention monitor | `drive` | `DrivingProofs` |
| `LaneChange` | the lane change of `BehaviorFSM`, the aim of `control.py`, the turn signal | `lane_change` | `LaneChangeProofs` |

`Sessions` refines `SlotPool` (`Pool == INSTANCE SlotPool WITH line <- waiters,
holders <- Holders`). `SimLoop` composes three kinds of process: thread, build
worker, connections. `Driving` composes the world, the browser's key sender and its
attention monitor over the channels between them; `AllWayStop` composes traffic and
planner, which see each other only as moving or standing cars. `LocationSearch` extends
`WsClient` and conjoins each of its actions with what the store and the server do in
it, so it runs the transport as it is (theorem `SearchRunsClient`). `Watchdog` justifies
the fairness of `Sessions`, see below.
Operators named `X_Something` above an operator `X` are deliberately broken
variants of it, used to confirm that each property notices the bug it is about; no
behaviour uses them.

### State and actions against the code

*Sessions.* Everything runs on one event loop, so an action is the code between
two awaits, and `pc` is the await a handler stands at: `sending` and `parked` in
line, `building`, `running` and `stopping` with a slot. `inbox` is what the socket
delivered and nobody has read. `Release(c)` is `_Sessions.release` with
`_notify`: the head of the line gets the slot in the same step and everybody left
is woken. `StatusFailed`, `WokenByDisconnect`, `HandlerReturns`, `BuildFailed`,
`EndSession`, `StopDone` are the ways out, with what their `finally` blocks undo. A
refused origin and a full line change nothing and have no action. Durations feed
only the ETA.

*Watchdog.* `Look` and `Close` are one iteration after the sleep; `Pass` is the
clock, held back while the watchdog is overdue by `Late`; `Input`, `LineForms` and
`LineEmpties` are the rest of the program. `warnedAt`, `uneasyAt`, `toldAt` and
`lineMovedAt` are history.

*SimLoop.* The thread's iteration is cut where another process could tell: each
command, the end of the command queue, the drained event queue, the taken scene,
the bumped epoch, the step with `_record_events`, the publication. Adopting the
taken scene is one step with taking it, since nobody sees the moment between. A
connection is cut at its awaits and at its two separate reads in `__init__`. A
world is named by the command that asked for it. Commands are of three kinds:
`load_location` (asynchronous build), `load_scenario` (swap on the thread, scene
in the reply), and one that is refused. Progress events take the path of notes and
are not modelled apart. `heard`, `told`, `shown`, `joined`, `worlds` and
`recorded` are history.

*Perception.* A frame is its page load, connection, number and world. The client
captures one frame at a time (`detectorCamera.ts` is busy until one is done), so a
socket delivers in order; after a reload the numbers restart, after a lost
connection they go on, and the predecessor socket may still hold frames.
`Arrive`/`EnsureWorker` and `Reconnect`/`ForgetLatest` are `submit_frame` and
`reset`, cut between their two locks; `Take`, `Exit`, `Detected` and
`DetectorFails` are `_work`. Each world has one object; `Observe` advances its
track as `Tracker.update` does (birth after `BirthHits`, death past `MaxMisses`),
and the detector may miss it.

*WsClient.* Each callback and method is an action. `attempt` is counted up to
`DownAfter`: beyond it only the delay changes. `strays` counts sockets that are
connecting or open with nothing referring to them.

*LocationSearch.* `pending` is `locationPending # null`, which disables the address
fields, presets and scenarios of `LeftScenarioSidebar.tsx`, so `LoadLocation` waits for
it to clear. `Unlocking` lists the messages `applyServerMessage` clears it on. The
server is abstract: what `SimLoop` and `Sessions` do in detail is a request read
(`Receive`; "simulation busy" is a refusal of something built all the same), a build
that ends (`EndBuild`), a scene or an event streamed (`Stream`), an admission that
starts with a scene (`Admit`) and a line that ignores what its visitors send
(`Ignore`, which is why commands queued during a disconnection can be lost there).
A lost connection loses what was on its way and may be the end of the server or of
the session, builds included. `unsent` remembers that the transport's own validation
refused the request. The event log is taken to be long enough (512 in the code); its
overflow is `loop`'s subject.

*AllWayStop.* A vehicle's place is a stage: away, in the waiting zone before its
line, over the line, in the box before and past the centre, gone. A tick is
`IdmTraffic.step` (every car in the order of the list, on the positions the cars
before it have already reached) and then `BehaviorFSM.step`; `turn` says who is next.
`Wait` and `Take` are `_obey` at a stop sign with `_note_waiting`, `_may_take_box`
(`BoxBusy`, `Through`, `RollingIn`, `Rivals`, `Beats`) and the holder it records;
`MustYield` is the rule of `_right_of_way` for who crosses in the box already. The ego
keeps `Tracked`, `OwnWait`, `clearSince` by itself (`EgoWaits` is the dwell, clearance
and turn of `_may_proceed`), goes back from `creep` to `stop` while it is not clear,
and drops its line `CLEARED_M` past it (`EgoCruises`). Where that is depends on the
junction: traffic sizes the box by the nearest of its stop lines (`_box_r`), so an ego
whose own line is further out by `CLEARED_M` less half a metre, as on a route that turns
there (12 m against 8.8 m, says `agents.py:784`), has dropped its line before it is in
the box. `far` tells the two kinds of junction apart and `DropsIn` is the stage. Drivers
may dawdle. Abstracted:
metres; a car that was let go moves off at its next turn; the ego brakes within a tick;
everybody goes straight over; a car standing still in the middle of the box, which
cannot happen to cars that leave it, is not counted by `Clear`; and what follows a car
stuck in the box for longer than `_BOX_HOLD_MAX_S` is not watched (`InTime`).
`restAt` is history.

*Driving.* The world's part is `SetMode`, `Ladder` with `Fresh` and `Live`, `Shift`,
`ChangeMode`, `ResetWorld`, and `Tick`, in which speed is a small integer that follows
what the mode aims at. `up` is what travels to the world in order; `Receive` applies
a command at once and leaves keys in `slot`, where the next `Tick` finds the latest:
so a command overtakes keys, as `_drain_commands` before `_take_drive_input` does.
`frame` is one frame on its way back. `Press`, `Release` and `Sample` are the events
and the timer of `driveKeys.ts` with the steering ramp; `See` is
`AttentionMonitor.update` with the reset it does when the clock goes back, counted in
frames. `Leave` and `Return` take the car off its route and back. `calm`, `unaware`
and `strays` are history. Not modelled: pause, the gamepad, the throttle that overrides
an assisted mode, emergency braking and lane keeping in Manual, a lost connection.

*LaneChange.* The FSM's record is `change`; its phases are functions of it
(`AdvanceOutbound`, `AdvancePass`, `AdvanceReturn`, `JunctionAbort`, `Turned` for
`_begin_return`, `Blended` for `_tick_blend`), and `Tick` applies the one that
`BehaviorFSM.step` would, a junction constraint taking precedence. A lead is ahead, with
its nose or its tail alongside, or gone. Whether there is a junction, how fast the car
gets and what the leads do is open in every tick; so is, for a driver who steers, where
on the carriageway the car goes. Whether the gap and the next line allow an overtake is
left open, a wider choice than the code's. `failedAgo` and `trip` are history; `trip`
also remembers a drive by hand (`ByHand`) and a lead alongside (`Beside`). The threat
layer and a route without lanes are not modelled.

Speed is `stopsIn`, the way to a standstill at `LANE_END_DECEL_MPS2`, because
`_return_runout_m` compares that with the way a ramp takes:
`min(v * 4.5, v * v / 3) + EGO_LENGTH_M`. The two are equal at 13.5 m/s, and a cell of
the route is what a car drives in a tick there, so a ramp is `Ramp` cells; a slower car
may take several ticks for a cell, a moving car always shifts one unit sideways a tick,
and a lane is as many units wide as the ramp has ticks. A car faster than that is
measured in what it drives itself, and taken not to gain speed on its way home.
`returned_m` is counted in what a car drives in a tick at 5 m/s, the speed
`LANE_CHANGE_RETURN_MAX_M` is reckoned at; a faster car has it sooner, but is given up
on only when the clock is over too, and to have driven those 40 m and stand before a
ramp's 4.5 s are over it would have to brake from 19 m/s as hard as the planner can
(4.5 m/s^2, 4.2 s).

The docstring of `_return_runout_m` (behavior.py:1365-1369) says "one return ramp [...]
or, when that is *further*, the distance to a standstill"; the code takes the nearer of
the two. Below 13.5 m/s, so in most of the city, the runout is therefore less than a
ramp, as the rest of that docstring wants it, and getting home relies on the car braking
for the corner. Nothing in `plan/` sees to that braking but the speed of the bend
itself, and below 6.75 m/s a car that does brake to a standstill is there in less time
than a ramp takes: it stands between the lanes, short of the end. The model has all
three cases, and `HomeBeforeLaneEnds` promises no more than the code does.

## 3. What the runs check

**sessions** (3 visitors, 1 slot, line of 2; 39 320 states). `SlotsConserved`: the
counter is the number of slot owners and never passes the cap. `NoIdleSlot`:
nobody waits while a slot is free. `LineSound`: everybody in line code is in the
line once or was handed a slot. `NoLostWakeup`: a sleeper knows its place or its
event is set. `WaiterServed` and
`GoneIsReleased`: everybody in line gets a session or leaves, and a visitor who is
gone gives back what it holds. `ImplementsPool`: refinement with fairness. One slot
and two places make every handover, overtaking attempt and departure happen; the
proofs cover the other sizes.

**watchdog** (`IdleS` 10, `SessionMaxS` 12, warnings 3 and 5, tick 1, lateness 1,
horizon 24; 612 000 states). `IdleClosedInTime`, `CapClosedInTime`,
`NeverUnwarned`, `NoticeHonest`. The horizon is two session lengths: the line
forms and empties early, at the cap and after it. Deadlock is not checked because
a session closes and the horizon ends.

**watchdog_notice** (violation). The documentation promises the full `time_up`
warning before a 4409 close. The idle notice comes first in the code: a user who
is idle when the cap comes near is shown `idle`, returns at the last moment, and is
closed without `time_up`.

**loop** (1 client, all three kinds, build notes, 2 commands, log of 2; 1 023 000
states). `EventsOnce`: each event reaches the client once and in order unless the
log overflows, which it does here. `LatestBuildWins`: builds are adopted in the
order of their requests.

**loop_live** (1 client, `load_location` only, 2 commands, log of 8; 124 000
states). `FrameNeverAhead`: no frame of a world before its scene. `FailureHeard`,
`BuildAnswered`, `ToldCurrent`: failures are heard, each request, its sender gone or
not, ends as a world or a failure, and every client that stays is told the world that
is simulated. The log is
larger than the number of events, so an overflow cannot excuse a lost failure; the
overflow is `loop`'s subject.

**loop_shared** (violation; 2 clients, `load_scenario`). Swaps on the thread do
not bump the epoch, though its docstring says every swap does: the client that did
not ask is never sent the new scene. `FrameNeverAhead` and `ToldCurrent` hold for
asynchronous builds only, which is why `loop_live` is restricted to them.

**perception** (4 frames, 2 connections, 1 swap, birth after 2 hits, 1 miss;
310 000 states). `FrameServed`: no frame is stranded between the worker's exit and an
arrival. `ResultsForward`:
results of one page load never go back. `GhostsDie`: after `max_misses + 1`
results of the new world in a row nothing of an old world is tracked. Four frames
give a result in flight, one in the slot and two on the way across the swap and
the reconnection. Deadlock is not checked: the captures are bounded.

**perception_ghosts** (violation). `MlPerception.reset` says it keeps the planner
from braking "for traffic that no longer exists"; a result of the old world that is
consumed after the reset brings its tracks back. `GhostsDie` is what does hold.

**client** (`LocationSearch`; queue of 2, "down" after 2, 4 commands; 94 000 states).
Of the transport: `OneSocket`, `VerdictHolds`, `FailureHonest`, `CommandsInOrder`,
`Reconnects`. Of the search: `LockHasKey`, a locked sidebar has something on its way
to unlock it (the request, its build, an answer, or the scene every connection starts
with); `SidebarUnlocks`, the search ends. Four commands overflow the queue twice, also
with the request in it. Both properties except `unsent`, and the exception is real: an
address of more than 200 characters, typed or picked as a suggestion (no field limits
it), is refused by `parseCommand` after `loadLocation` has locked the sidebar, and
stays "Building" until a reload or a lost connection. Deadlock is not checked: after
`close()` the transport stops.

**junction** (3 cars and the ego, from four arms or with two cars in one queue; dwell
2, tie 1, box timeout 3, two dithers, 60 ticks; 506 000 states). `OneCarInBox`: the car
that was let go has the box until it is out on the far side. `EgoMeetsNobody`: the ego
and a car may be let go in the same tick, and still they are never both in the box,
where the ego looks until it is in it. At a junction of the other kind (`far`) they
can be: an ego put back to a hold over its line, at rest there, moves off in the tick in
which traffic lets a car go, and drops its line in front of the box; the property leaves
those junctions out. `FirstComeFirst`: nobody is let go
before one on another arm who has stood longer by more than the tie, with no slack for
the clocks, which note a halt one to two ticks late. `EveryoneThrough`: no tie all round and no hold lasts. Three cars and the ego
are the full cross with one on everybody's right. The horizon ends no behaviour before
everybody is through, as `EveryoneThrough` itself shows.

**drive** (speeds up to 1, keys stale after 1 tick, a strike after 2 frames, one
message on its way, two of key press, request and reset, one mishap; 301 000 states).
`ModesCoherent`: reverse is Manual's alone and a speed is held exactly in the two modes
that hold one. `AskStands`: a mode asked for with the keys up is not undone by their
release tail. `TakeoverStands`: a takeover is undone only by the driver, an evasion, or
a walk-down that was decided before a frame showed it. `StruckStops`: a driver who
ignores the warnings is stopped, also when the command of the strike is refused; a stop
of one tick, under FSD too, counts as one. A command that overtakes a press still fresh
is outside `AskStands`, whose `calm` wants the keys up and heard. Two
acts are what each race needs: a press and a request, a request and a reset.

**lane_change** (one lead, a second lane on the right for 7 of 8 cells, ramp 3, car
length 4, one lag, a gain of one in `stopsIn` a tick; 327 000 states). `OffsetTold`: off
its lane the car says so, to the right side, however long it is held and whatever
interrupts it, unless the driver has steered it there. `HomeBeforeLaneEnds`: the lane is
left before it ends by a car that turned home with a ramp's length of lane left, or with
less and has braked since as `LANE_END_DECEL_MPS2` assumes (which may leave it standing
between the lanes, but short of the end). A car that had less and does not brake
(`unbraked`) goes past the end in the model as in the code, and so may one with the lead
alongside. `AimNeverJumps`: the aim moves as the ramp does through every hand-over.
`TriesApart`: a lead a change failed on is left alone. `ChangeEnds`: every change comes
to its end. With a ramp of 3 a car that has to brake drives two cells of its way to a
standstill, so braking is more than stopping at once. The car's own length, which the runout keeps in
reserve, is what absorbs the lag, the gain of speed between two looks and the tick in
which the lane's end is noticed.

### Fairness

* *Sessions*: handlers resume from their awaits; a running session of a visitor who
  left notices; `TimeUp` is weakly fair. The last is what `CapClosedInTime` of
  `Watchdog` shows: while somebody waits without a break, the session ends.
  Visitors owe nothing: no fairness on speaking, leaving or arriving, nor on
  `IdleOut`.
* *SimLoop*: thread, build worker and each connection's tasks run (weak fairness);
  `SendFrame` is strongly fair, because `stream` re-sends even an unchanged frame
  once a period, so a frame cannot be skipped for ever. Nobody has to send a
  command or to disconnect. A build returns or raises: the fetches have timeouts
  and bounded retries.
* *Perception*: the event loop finishes what it began and the worker runs.
* *WsClient*: strong fairness on a timer that opens a socket and on a socket that
  opens is the assumption that the server is there; without it `Reconnects` means
  nothing.
* *LocationSearch*: the same for the transport. The server reads, streams and ends its
  builds (weak fairness, as in `SimLoop`). Admission and the delivery of a message are
  strongly fair: a browser that comes back again and again is admitted once (hosted:
  `WaiterServed` of `Sessions`) and its connection lasts for one message. The user owes
  nothing.
* *Watchdog* needs none: its bounds are invariants over time.
* *AllWayStop*: the simulation goes on (weak fairness of `Next`); dithers are bounded.
* *Driving*: the world ticks and takes what it is sent, and a car off its route comes
  back. The browser is strongly fair, since the bound on messages may keep it from
  sending for a while. Nobody has to press or ask anything.
* *LaneChange*: the car keeps driving, though not without stops: whatever holds it up
  (a red, a queue) lets it go again.

## 4. What is proved

The theorems say of every behaviour that an invariant holds (`Spec => []Inv`), that no
step does what it may not (`Spec => [][A]_vars`) or that it implements another
specification, for every value of the constants that satisfies the module's
assumptions. The inductive invariants of the longer proofs were first checked by TLC on
small instances.

**Sessions** (`SessionsAssumption`: finite connections, `Limit` positive). The
inductive invariant is `TypeOK /\ SlotsConserved /\ NoIdleSlot /\ LineSound`:
conservation needs `NoIdleSlot` and `LineSound` to know that the head of the line
is a new owner when a slot is handed over, and `NoIdleSlot` needs the count to know
that a newcomer queues only at the cap. One step per action. On top of it,
`WakeInv` (whoever in line is not notified was last told its true place) gives
`NoLostWakeup`, `HealthInv` gives `HealthHonest`, and `SessionsRefinePool` maps the
initial states and each step to a step of `SlotPool` or a stutter. The facts about
`RemoveAt`, `Append` and `Tail` on an injective line are lemmas.

**Watchdog** (`WatchdogAssumption`, `TimelyAssumption`: the loop is never later
than a warning is long; without it a session may be closed before the warning
could be sent). The invariant relates the last notice to the clock: how long ago
the last look was, what it saw, and where `capDeadline` can lie.
`IdleAlwaysClosed`, `CapAlwaysBites`, `AlwaysWarned`, `NoticesAlwaysHonest`.

**SimLoop** (`SimLoopAssumption`; any finite set of clients, any log, any number of
commands). `TypeCorrect`. `EventsAlwaysOnce`: a client's feed, the numbers it
heard, is strictly increasing up to its cursor, and without a gap from where it
joined for as long as the log has not overflowed since. `BuildsInOrder`: `Order`
follows a request from the command queue through the executor, the worker and the
pending scene to the worlds adopted, and says at each place that it is older than
everything still behind it; taking, offering and adopting each move the oldest of
one place to the next. `RequestsNeverLost` is the safety half of `BuildAnswered`, for any
mix of commands: a location asked for is in a queue, in the worker, answered by a
failure on its way or on record, or behind a pending or adopted scene that was asked for
no earlier, since an offer replaces only older ones. `FramesFollowScenes` assumes `"load_scenario" \notin Kinds`,
without which `loop_shared` shows that the epoch does not count the swaps: with it,
`Epochs` says that it does, so a frame published at epoch `e` is of one of the first
`e + 1` worlds and a scene sent after reading epoch `e` is of the `e + 1`-st or a
later one; `Told` carries both through the two reads of `stream`. `FrameNeverAhead`
counts worlds by their position, which is sound because `Order` has them distinct.

**Perception**. The invariant adds to the accounting what the worker's place says
about `_inflight`, and to `GhostsDie` that the misses of an old track count the
fresh results. `TypeCorrect`, `FramesAlwaysAccounted`, `WorkerAlwaysComes`,
`GhostsAlwaysDie`. `ResultsOnlyForward` is `ResultsForward`, for any frames, connections
and swaps. `OrderInv` follows a page's numbers through the pipeline: newest result,
worker and slot are in order (`InOrder`), frames under way are of the present socket or
the one before it and numbered apart (`Sent`), and a frame under way comes after all the
pipeline holds, or is of the older socket and not past `lastSeq` (`Late`). The last is
the point: `reset` clears the gate on a new connection, and what the gate then lets
through has to be newer all the same.

**WsClient**. `OneSocketAlways`, `VerdictAlwaysHolds`, `FailureAlwaysHonest` from
one invariant: a timer is pending only without a socket, and none while halted.
`CommandsAlwaysInOrder` from another, `Orders`: wire and queue rise, every command on
the wire is earlier than every one in the queue, and none is later than the last sent,
so a flush and a dropped head keep the order. `TypeCorrect`.

**LocationSearch**. `SearchRunsClient`: a step of the search is a step of the transport
or leaves it alone, so the theorems above hold under store and server.
`SidebarNeverStuck` is `LockHasKey`, for any queue and any number of commands and
connections: it is inductive with `Books` (the server streams only to a socket that
was opened; what was received is on the wire), `Inv` and `Orders`; each step hands the
key on, from request to build to event to answer. `SearchTypeCorrect`.

**AllWayStop** (`StopAssumption`; any number of cars, any layout that gives the ego an
arm of its own, any clocks). `BoxIsExclusive` is `OneCarInBox`. `BoxInv` says what the
holder stands for: a car that was let go is gone or the holder (`HasBox`), no car is
past its line without having been let go (`HeldBack`), a hold that is not over has not
expired (`HoldRuns`, from the assumption `InTime` that a car leaves the box in time).
A car is let go only where `Through` holds, so the holder it replaces is gone; so two
cars in the box would be one.

`EgoNeverMeets` is `EgoMeetsNobody`. Either side looks once more than it is told: a car
that took the box moves at its next turn, so it stands still only in its zone and only
until then, unless the ego was not rolling in when it was let go (`JustLetGo`); the
traffic knows of an ego that waited from the next tick until it is past the centre
(`Noticed`); and the ego, whose line is its target until `DropsIn` (`EgoLine`), needs
`Clear` for every stage. Moving into the box with a car let go, it would have seen it
move, or have been seen to roll (`Alone`).

`FirstAlwaysFirst` is `FirstComeFirst`. One halt is noted up to three times: by the car
in the tick after it (`waiting`), by the planner at once (`waiters`), and the ego's by
traffic and planner in the tick after it (`egoWaiting`, `stoppedAt`). `ClockInv` gives
each note as the halt plus its delay, and for how long it may still be missing, by whose
turn it is. A car that takes the box compares notes that are all one tick late; the ego
compares its own late note with punctual ones, which only makes it more patient.

**Driving** (`DrivingAssumption`). `ModesAgree`: `ModesCoherent` is inductive with
`TypeOK`; the work is in `Tick`, where the ladder, an evasion, the gear and the speed
change together. `AskedModeStands` is `AskStands`, for any number of messages under way.
`KeysInv` says what the messages in `up` can still do: the last sample sent is the last
one under way, in the slot or in force (`Spoken`), and once the driver is calm no sample
under way brakes, and one that steers follows only such as steer, down to what the world
holds (`Quiet`): the release tail is no fresh press. `TakeoverAlwaysStands` is
`TakeoverStands`: a frame older than a takeover leaves the browser unaware (`Outdated`),
and the walk-downs under way when a frame told it are all that come (`Counted`, a
cardinality over the positions of `up`).

**LaneChange** (`LaneAssumption`: the ramp is shorter than the limits on its phases).
`AimIsSmooth`: the blend is a function of the phase's clock (`Ramped`), so one more
tick moves the aim by one unit, arrival keeps clock and blend, and a return starts
from the blend it finds. `TriesStayApart`: cooldown and the ticks since the failure
always add up to `Retry` (`Rests`).

`LaneAlwaysTold` is `OffsetTold`, `HomeInTime` is `HomeBeforeLaneEnds`; both rest on
`PathInv`: how far the car is from home, in each phase, given the blend and how often it
lagged (`Follows`), what a return has covered (`Way`), and how much of the lane is left
(`RoomLeft`). The last says, less what one tick may take off: out or passing, the runout
and the car's length; on the way home, for a car that relies on a ramp's length, the
ramp less what it has covered, which `Follows` ends in time; for one that relies on
braking, the way to its standstill, of which every cell it drives takes one off
(`BrakesRoom`). They need `LagAssumption`: lag and gain of speed are less than the length
`_return_runout_m` keeps in reserve, and a return is not given up on before ramp and lag
are over (`LANE_CHANGE_RETURN_MAX_M`). No bound can be one looser: with the car's length
one less or the gain one more TLC finds the car out past the end, with one more lag or
`ReturnMaxM` one less off its lane untold. At 60 Hz the code's own figures are a ramp of
270 ticks, a car's length of 20 cells, a gain of at most 2 (`_MAX_ACCEL_MPS2`) and a
`ReturnMaxM` of 480, so up to 16 ticks of lag are covered. That a car which had less than
a ramp's length brakes as assumed is not proved: it is a condition of
`HomeBeforeLaneEnds`.

**Proved, not in a run.** `HealthHonest` of `Sessions`, `FramesAccounted` and
`WorkerForFrame` of `Perception`, `NothingLost` of `SimLoopProofs`, and the type
invariants: the theorems cover every instance, so the runs spend their time on the rest.

**Only model-checked.** What holds under fairness, which is out of TLAPS's reach: the
leads-to properties and the liveness part of `ImplementsPool`. `NoLostWakeup`,
`WorkerForFrame`, `NothingLost` and `LockHasKey` are what safety says about four of them
(`WaiterServed`, `FrameServed`, `BuildAnswered`, `SidebarUnlocks`). Every invariant and every
action property of a passing run is a theorem.

## 5. Not modelled

* Shutdown of the server: the process ends, and nothing survives it.
* Pause, stepping, contact-map prewarm and `stop()` of `SimLoop`.
* A second concurrent user's frames in a shared world: the slot is documented as
  one client's.
* Map geometry, car following, MOBIL, the threat layer, the controllers and rendering:
  floating-point computation over large inputs, without a protocol TLC could explore.
* Of the planner's junction rules the signals, give-way lines, unprotected left turns
  and crossings; of an all-way stop the turns.
* The capture sink, the disk caches, the geocoder and Overpass client and the
  sidecar: see the plan. Of the store the run history, the suggestions and the mirrored
  frame fields.
* Wire validation, covered by the repository's contract tests on both sides.

## 6. Plan

1. Done: slots and line, watchdog, simulation loop, frame pipeline, browser
   transport; all-way stop, drive modes with keys and attention monitor, lane change;
   the location search over the transport.
2. Extend the model: the contact map's prewarm thread against a swap; the capture sink;
   the disk cache with two processes; rate limiter with latest-wins suggestions, and Overpass retries;
   the sidecar's handshake and teardown; signals and give-way lines of the planner;
   the parameters.
3. Abstract specifications worth stating: a latest-wins mailbox (implemented by the
   pending scene, the frame slot, the drive-input slot and the suggestions), and a
   reliable ordered event feed with overflow (implemented by the event log and the
   cursors).
4. Prove more: the invariants and refinements of the modules of 2 and 3. Of what the
   runs check now, only the properties under fairness are left.
