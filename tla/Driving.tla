------------------------------ MODULE Driving ------------------------------
(***************************************************************************)
(* Who drives.  The world (sim/loop.py) holds the mode and walks it down   *)
(* when the driver steers or brakes; the browser (input/driveKeys.ts)      *)
(* samples the keys; the attention monitor (ui/attention.ts) watches the   *)
(* frames and stops the car of a driver who does nothing.  The monitor     *)
(* decides on frames that may be old, and the world takes what it is sent  *)
(* out of order: every command before the keys, and of the keys only the   *)
(* latest.                                                                 *)
(***************************************************************************)
EXTENDS Integers, Sequences, FiniteSets

CONSTANTS
  Top,        \* bound: the fastest the car goes
  Stale,      \* STALE_INPUT_S, in ticks
  ShiftHold,  \* _SHIFT_HOLD_S, in ticks
  Prompt, Escalate, Strike,  \* ATTENTION_TIMERS, in frames
  SlowEvery,  \* SLOW_EVERY_S, in frames
  SlowBy,     \* SLOW_BY_MPS
  InFlight,   \* bound: messages on their way to the world
  Acts,       \* bound: how often the driver presses a key, asks or resets
  Mishaps     \* bound: how often the car leaves its route or evades

ASSUME DrivingAssumption ==
  /\ Top \in Nat \ {0} /\ SlowBy \in 1 .. Top
  /\ Stale \in Nat /\ ShiftHold \in Nat \ {0}
  /\ Prompt \in Nat \ {0} /\ Escalate \in Nat /\ Strike \in Nat
  /\ Prompt <= Escalate /\ Escalate <= Strike
  /\ SlowEvery \in 1 .. Strike
  /\ InFlight \in Nat \ {0} /\ Acts \in Nat /\ Mishaps \in Nat

None == -1

Modes    == {"off", "cruise", "autosteer", "fsd"}
Engaged(m) == m \in {"autosteer", "fsd"}   \* _PLANNER_STEERS = ENGAGED
Keys     == {"steer", "brake"}

Least(a, b)    == IF a < b THEN a ELSE b
Greatest(a, b) == IF a > b THEN a ELSE b

VARIABLES
  \* The world (class World, class Simulation)
  mode,      \* drive_mode
  setSpeed,  \* set_speed_mps, or None
  gear,
  shift,     \* shift_hold_s
  pressed,   \* controls: the axes past the deadband
  age,       \* of the controls, in ticks
  speed,
  onRoute,   \* route_available()
  \* On the way
  up,        \* from the browser to the world
  slot,      \* SimLoop._drive_input: {} or the latest
  frame,     \* on its way to the browser: {} or one
  anew,      \* the world was reset since the last frame
  \* The browser
  held,      \* keys down
  tapped,    \* the steering key went down since the last sample
  wheel,     \* axes.steer: 0, on its way back, or full
  sent,      \* what went out last
  stage, locked, idle, step, active,
  \* Bounds and history
  acts, mishaps,
  calm,      \* a mode was asked for with all keys up and heard, none pressed since
  unaware,   \* the car was taken over and no frame has told the browser
  strays     \* walk-downs under way when one did

world   == <<mode, setSpeed, gear, shift, pressed, age, speed>>
keys    == <<held, tapped, wheel, sent>>
monitor == <<stage, locked, idle, step, active>>
vars    == <<world, onRoute, up, slot, frame, anew, keys, monitor,
             acts, mishaps, calm, unaware, strays>>

Input  == [cmd : {"drive_input"}, axes : SUBSET Keys]
Asking == [cmd : {"set_drive_mode"}, mode : Modes, set : {None} \cup 0 .. Top,
           by : {"driver", "monitor"}]
Reset  == [cmd : {"reset"}]
Frame  == [reset : BOOLEAN, mode : Modes, set : 0 .. Top,
           speed : -1 .. Top]

TypeOK ==
  /\ mode \in Modes
  /\ setSpeed \in {None} \cup 0 .. Top
  /\ gear \in {"D", "R"}
  /\ shift \in 0 .. ShiftHold - 1
  /\ pressed \in SUBSET Keys
  /\ age \in 0 .. Stale + 1
  /\ speed \in -1 .. Top
  /\ onRoute \in BOOLEAN
  /\ up \in Seq(Input \cup Asking \cup Reset) /\ Len(up) <= InFlight
  /\ slot \in SUBSET SUBSET Keys
  /\ frame \in SUBSET Frame
  /\ anew \in BOOLEAN
  /\ held \in SUBSET Keys
  /\ tapped \in BOOLEAN
  /\ wheel \in 0 .. 2
  /\ sent \in SUBSET Keys
  /\ stage \in {"ok", "prompt", "escalated", "stopping"}
  /\ locked \in BOOLEAN
  /\ idle \in 0 .. Strike
  /\ step \in 0 .. SlowEvery
  /\ active \in BOOLEAN
  /\ acts \in SUBSET {"press", "ask", "reset"}
  /\ mishaps \in 0 .. Mishaps
  /\ calm \in BOOLEAN
  /\ unaware \in BOOLEAN
  /\ strays \in 0 .. InFlight

Init ==
  /\ mode = "fsd" /\ setSpeed = None
  /\ gear = "D" /\ shift = 0
  /\ pressed = {} /\ age = Stale + 1
  /\ speed = 0
  /\ onRoute = TRUE
  /\ up = <<>> /\ slot = {} /\ frame = {}
  /\ anew = FALSE
  /\ held = {} /\ tapped = FALSE /\ wheel = 0 /\ sent = {}
  /\ stage = "ok" /\ locked = FALSE /\ idle = 0 /\ step = 0 /\ active = FALSE
  /\ acts = {} /\ mishaps = 0
  /\ calm = FALSE /\ unaware = FALSE /\ strays = 0

-----------------------------------------------------------------------------
(* The keys. *)

Act(what) == /\ what \notin acts /\ Cardinality(acts) < Acts
             /\ acts' = acts \cup {what}
Send(m) == Len(up) < InFlight /\ up' = Append(up, m)

\* The axes as they stand, the steering ramp where it is.
Axes(down, w) == (IF "brake" \in down THEN {"brake"} ELSE {})
                 \cup (IF w > 0 THEN {"steer"} ELSE {})

\* emit: sends while any axis is live, and once more when none is.
Emit(axes) ==
  /\ sent' = axes
  /\ IF axes = {} /\ sent = {} THEN up' = up
     ELSE Send([cmd |-> "drive_input", axes |-> axes])

\* onDown.  A pedal goes out at once.
Press(k) ==
  /\ k \notin held /\ Act("press")
  /\ held' = held \cup {k}
  /\ tapped' = (tapped \/ k = "steer")
  /\ IF k = "brake" THEN Emit(Axes(held', wheel)) ELSE UNCHANGED <<up, sent>>
  /\ active' = TRUE
  /\ calm' = FALSE
  /\ UNCHANGED <<world, onRoute, slot, frame, anew, wheel, stage, locked, idle, step,
                 mishaps, unaware, strays>>

\* onUp
Release(k) ==
  /\ k \in held
  /\ held' = held \ {k}
  /\ IF k = "brake" THEN Emit(Axes(held', wheel)) ELSE UNCHANGED <<up, sent>>
  /\ active' = (active \/ (k = "brake" /\ wheel > 0))
  /\ UNCHANGED <<world, onRoute, slot, frame, anew, tapped, wheel, stage, locked, idle,
                 step, acts, mishaps, calm, unaware, strays>>

\* shapeAxes: the wheel goes over while held and takes a while to come back.
Turned == IF "steer" \in held \/ tapped THEN 2 ELSE Greatest(wheel - 1, 0)

\* The 30 Hz tick of the sender.
Sample ==
  /\ wheel' = Turned
  /\ tapped' = FALSE
  /\ Emit(Axes(held, Turned))
  /\ active' = (active \/ Axes(held, Turned) # {})
  /\ UNCHANGED <<world, onRoute, slot, frame, anew, held, stage, locked, idle, step,
                 acts, mishaps, calm, unaware, strays>>

\* Nothing of an earlier key press is still to be heard.
AtRest == /\ held = {} /\ ~tapped /\ slot = {}
          /\ \A i \in 1 .. Len(up) : up[i].cmd = "drive_input" => up[i].axes = {}

\* setDriveMode, which refuses while locked.
AskMode(m) ==
  /\ Act("ask")
  /\ locked => ~Engaged(m)
  /\ Send([cmd |-> "set_drive_mode", mode |-> m, set |-> None, by |-> "driver"])
  /\ active' = TRUE
  /\ calm' = AtRest
  /\ UNCHANGED <<world, onRoute, slot, frame, anew, keys, stage, locked, idle, step,
                 mishaps, unaware, strays>>

AskReset ==
  /\ Act("reset")
  /\ Send([cmd |-> "reset"])
  /\ active' = TRUE
  /\ calm' = FALSE
  /\ UNCHANGED <<world, onRoute, slot, frame, anew, keys, stage, locked, idle, step,
                 mishaps, unaware, strays>>

-----------------------------------------------------------------------------
(* The attention monitor, AttentionMonitor.update. *)

Walked(m)  == m.cmd = "set_drive_mode" /\ m.by = "monitor"
Walk(from) == Send([cmd |-> "set_drive_mode", mode |-> "autosteer",
                    set |-> Greatest(from - SlowBy, 0), by |-> "monitor"])

\* Bug: nothing but a reset ends the stop.
Ended_Never(f) == FALSE

\* A takeover ends the stop; any input ends what comes before it.
Ended(f) == ~Engaged(f.mode) \/ (stage # "stopping" /\ active)

\* Bug: the strike is the only try.
Slows_Once(f, waited) == FALSE

\* Every SlowEvery, from the set speed on display, until it is zero.
Slows(f, waited) == waited >= SlowEvery /\ f.set > 0

See(f) ==
  LET stays  == ~Ended(f) /\ ~f.reset
      now    == IF stays THEN Least(idle + 1, Strike) ELSE 0
      waited == Least(step + 1, SlowEvery)
  IN
  /\ f \in frame
  /\ frame' = {}
  /\ active' = FALSE
  /\ idle' = now
  /\ unaware' = (unaware /\ Engaged(f.mode))
  /\ strays' = IF Engaged(f.mode) THEN strays ELSE Cardinality({i \in 1 .. Len(up) : Walked(up[i])})
  /\ \/ /\ ~stays
        /\ stage' = "ok"
        /\ locked' = (locked /\ ~f.reset)
        /\ step' = waited
        /\ UNCHANGED up
     \/ /\ stays /\ stage # "stopping" /\ now >= Strike
        /\ stage' = "stopping"
        /\ locked' = TRUE
        /\ step' = 0
        /\ Walk(f.speed)
     \/ /\ stays /\ stage # "stopping" /\ now < Strike
        /\ stage' = IF now >= Escalate THEN "escalated"
                    ELSE IF now >= Prompt /\ stage = "ok" THEN "prompt" ELSE stage
        /\ step' = waited
        /\ UNCHANGED <<locked, up>>
     \/ /\ stays /\ stage = "stopping"
        /\ stage' = stage
        /\ IF Slows(f, waited) THEN step' = 0 /\ Walk(f.set)
                               ELSE step' = waited /\ up' = up
        /\ UNCHANGED locked
  /\ UNCHANGED <<world, onRoute, slot, anew, keys, acts, mishaps, calm>>

-----------------------------------------------------------------------------
(* The world. *)

\* _change_drive_mode
ChangeMode(m) ==
  /\ mode' = m
  /\ IF m = mode THEN UNCHANGED setSpeed
     ELSE IF m \in {"off", "fsd"} THEN setSpeed' = None
     ELSE IF setSpeed # None THEN UNCHANGED setSpeed
     ELSE setSpeed' = IF speed > 0 THEN speed ELSE Top

\* Bug: a car that rolls backward is put into drive.
Refused_Route(m) == Engaged(m) /\ ~onRoute

\* _cmd_set_drive_mode: refused off the route, and while rolling backward.
Refused(m) == (Engaged(m) /\ ~onRoute) \/ (m # "off" /\ gear = "R" /\ speed < 0)

SetMode(m, set, by) ==
  /\ IF Refused(m) THEN UNCHANGED <<mode, setSpeed, gear, shift>>
     ELSE /\ gear' = IF m = "off" THEN gear ELSE "D"
          /\ shift' = IF m = "off" \/ gear = "D" THEN shift ELSE 0
          /\ IF set # None /\ m \in {"cruise", "autosteer"}
             THEN mode' = m /\ setSpeed' = set
             ELSE ChangeMode(m)
  /\ unaware' = CASE Engaged(mode) /\ ~Engaged(mode') -> TRUE
                   [] by = "driver" /\ Engaged(mode') -> FALSE
                   [] OTHER -> unaware
  /\ UNCHANGED <<pressed, age, speed, onRoute, slot, anew, calm>>

\* _reset_dynamics, behind a reset or the load of a scene.
ResetWorld ==
  /\ mode' = "fsd" /\ setSpeed' = None
  /\ gear' = "D" /\ shift' = 0
  /\ pressed' = {} /\ age' = Stale + 1
  /\ speed' = 0
  /\ onRoute' = TRUE
  /\ anew' = TRUE
  /\ unaware' = FALSE
  /\ UNCHANGED <<slot, calm>>

\* The receive handler and _drain_commands: a command is applied before the
\* tick that follows, the keys wait for it in the slot.
Receive ==
  /\ up # <<>>
  /\ up' = Tail(up)
  /\ LET m == Head(up) IN
     /\ strays' = IF Walked(m) /\ strays > 0 THEN strays - 1 ELSE strays
     /\ \/ /\ m.cmd = "drive_input"
           /\ slot' = {m.axes}
           /\ UNCHANGED <<world, onRoute, anew, calm, unaware>>
        \/ /\ m.cmd = "set_drive_mode"
           /\ SetMode(m.mode, m.set, m.by)
        \/ /\ m.cmd = "reset"
           /\ ResetWorld
  /\ UNCHANGED <<frame, keys, monitor, acts, mishaps>>

\* live
Live == IF age <= Stale THEN pressed ELSE {}

\* Bug: a key that is down counts, pressed since or not.
Fresh_Held(axes) == axes

Fresh(axes) == axes \ Live

\* _take_drive_input and _cmd_drive_input: steering drops an engaged mode to
\* Cruise, then braking drops any mode to Manual.
Ladder(axes) ==
  LET m == IF "steer" \in Fresh(axes) /\ Engaged(mode) THEN "cruise" ELSE mode
  IN IF "brake" \in Fresh(axes) THEN "off" ELSE m

\* _shift: brake at a stop for reverse, throttle at a stop for drive.
Shift(axes, throttle) ==
  LET want == speed = 0 /\ (IF gear = "D" THEN "brake" \in axes ELSE throttle)
      full == shift + 1 >= ShiftHold
  IN /\ shift' = IF want /\ ~full THEN shift + 1 ELSE 0
     /\ gear' = IF want /\ full THEN (IF gear = "D" THEN "R" ELSE "D") ELSE gear

\* _drive and the model behind it: what the car may do in a tick.
Drives(m, axes, target) ==
  CASE m = "off" /\ gear' = "D" -> {v \in 0 .. Top : v <= speed + 1 /\ v >= speed - 1
                                      /\ ("brake" \in axes => v < speed \/ v = 0)}
    [] m = "off" /\ gear' = "R" -> IF "brake" \in axes THEN {-1} ELSE {speed, 0}
    [] OTHER -> {IF speed > target THEN speed - 1
                 ELSE IF speed < target THEN speed + 1 ELSE speed}

\* The set speed on display where none is held: what FSD aims at, or how fast
\* the car goes.
Shown(m, set, v, aim) ==
  IF set # None THEN set ELSE IF m = "fsd" THEN aim ELSE Greatest(v, -v)

\* The frame the browser gets next: state_update.
Publish(m, set, v) ==
  IF frame # {} THEN UNCHANGED <<frame, anew>>
  ELSE /\ frame' = {[reset |-> anew, mode |-> m, set |-> set, speed |-> v]}
       /\ anew' = FALSE

\* What the step depends on besides, where it does.
Throttle == IF gear = "R" THEN BOOLEAN ELSE {FALSE}
Danger   == IF mishaps < Mishaps /\ onRoute /\ speed > 0 THEN BOOLEAN ELSE {FALSE}
Aims     == IF mode = "fsd" \/ TRUE \in Danger THEN Greatest(speed - 1, 0) .. Top ELSE {0}

\* Simulation.step with the keys taken.  What FSD aims at comes down no faster
\* than the car can follow (stop_ceiling).  An evasion hands the car to FSD
\* whoever brakes.
Tick ==
  \E throttle \in Throttle, danger \in Danger, aim \in Aims :
    LET axes   == IF slot = {} THEN Live ELSE CHOOSE a \in slot : TRUE
        by     == IF slot = {} THEN mode ELSE Ladder(axes)
        evades == danger /\ by = "off" /\ gear' = "D"
        target == IF mode' = "fsd" THEN aim ELSE setSpeed'
    IN
    /\ IF by = "off" THEN Shift(axes, throttle) ELSE UNCHANGED <<gear, shift>>
    /\ ChangeMode(IF evades THEN "fsd" ELSE by)
    /\ speed' \in Drives(by, axes, target)
    /\ slot' = {}
    /\ pressed' = axes
    /\ age' = IF slot = {} THEN Least(age + 1, Stale + 1) ELSE 1
    /\ Publish(mode', Shown(mode', setSpeed', speed', aim), speed')
    /\ unaware' = IF evades THEN FALSE ELSE unaware \/ (Engaged(mode) /\ ~Engaged(by))
    /\ mishaps' = IF evades THEN mishaps + 1 ELSE mishaps
    /\ UNCHANGED <<onRoute, up, keys, monitor, acts, calm, strays>>

\* A lane change takes the car past _ROUTE_OFFSET_M.
Leave ==
  /\ onRoute /\ mishaps < Mishaps
  /\ onRoute' = FALSE
  /\ mishaps' = mishaps + 1
  /\ UNCHANGED <<world, up, slot, frame, anew, keys, monitor, acts, calm, unaware, strays>>

Return ==
  /\ ~onRoute
  /\ onRoute' = TRUE
  /\ UNCHANGED <<world, up, slot, frame, anew, keys, monitor, acts, mishaps, calm,
                 unaware, strays>>

Browser == \E f \in frame : See(f)

Driver == (\E k \in Keys : Press(k) \/ Release(k)) \/ (\E m \in Modes : AskMode(m)) \/ AskReset

Next == Driver \/ Sample \/ Browser \/ Receive \/ Tick \/ Leave \/ Return

Spec == Init /\ [][Next]_vars

\* Strong for Browser: the bound InFlight may keep it from sending for a while.
Fairness == SF_vars(Browser) /\ WF_vars(Receive) /\ WF_vars(Tick) /\ WF_vars(Return)

LiveSpec == Spec /\ Fairness
-----------------------------------------------------------------------------
(* Properties. *)

\* Reverse is Manual's alone, and a speed is held exactly in the two modes
\* that hold one, whatever the order of commands, keys and evasions.
ModesCoherent ==
  /\ gear = "R" => mode = "off"
  /\ speed < 0 => gear = "R"
  /\ (setSpeed # None) = (mode \in {"cruise", "autosteer"})

\* A mode asked for with the keys up is not undone by what the keys still
\* send while they come back: only by a key pressed since, or after the
\* world heard nothing for longer than Stale and forgot the key.
AskStands ==
  [][calm /\ calm' /\ slot # {} /\ slot' = {} /\ Engaged(mode) /\ ~Engaged(mode') => age > Stale]_vars

\* A takeover is undone only by the driver, by an evasion, or by a walk-down
\* that was decided before a frame showed the takeover.
TakeoverStands ==
  [][~Engaged(mode) /\ Engaged(mode') /\ up # <<>> /\ up' = Tail(up) /\ Walked(Head(up))
       => unaware \/ strays > 0]_vars

\* A driver who ignores the warnings is stopped, off the route or behind old
\* frames as well: the stop is given up only for a takeover or a reset.
StruckStops ==
  stage = "stopping" ~>
    \/ stage = "ok" \/ ~Engaged(mode)
    \/ speed = 0 /\ (mode = "fsd" \/ setSpeed = 0)
=============================================================================
