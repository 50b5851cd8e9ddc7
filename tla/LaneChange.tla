----------------------------- MODULE LaneChange -----------------------------
(***************************************************************************)
(* The lane change of the planner (plan/behavior.py, BehaviorFSM): out,    *)
(* past the lead, and home again, interrupted by junctions, by the end of  *)
(* the lane, by the driver's turn signal and by the driver taking the      *)
(* wheel.  The planner runs in every drive mode (Simulation._drive), so a  *)
(* change goes on while somebody else steers.                              *)
(*                                                                         *)
(* A tick is one Simulation.step seen from afar.  A moving car shifts      *)
(* sideways by at most one unit; a lane is Ramp units wide, what the aim   *)
(* point crosses in LANE_CHANGE_RAMP_S.  A cell is what a car drives in a  *)
(* tick at the speed v at which both lengths of _return_runout_m are the   *)
(* same, v * LANE_CHANGE_RAMP_S = v * v / (2 * LANE_END_DECEL_MPS2), which *)
(* is 13.5 m/s: a ramp there is Ramp cells.  A slower car may take several *)
(* ticks for a cell; a faster one is measured in what it drives itself.    *)
(***************************************************************************)
EXTENDS Integers

CONSTANTS
  Leads,       \* the vehicles that may hold the car up
  Sides,       \* where there is a second lane: +1 left, -1 right
  Road,        \* cells of the closed route
  LaneEnd,     \* the second lane exists on cells 0 .. LaneEnd - 1
  Ramp,        \* LANE_CHANGE_RAMP_S
  OutMax,      \* LANE_CHANGE_OUTBOUND_MAX_S
  PassMax,     \* LANE_CHANGE_PASS_MAX_S
  ReturnMaxS,  \* LANE_CHANGE_RETURN_MAX_S
  ReturnMaxM,  \* LANE_CHANGE_RETURN_MAX_M
  Retry,       \* LANE_CHANGE_RETRY_COOLDOWN_S
  CarLength,   \* EGO_LENGTH_M
  PassRoom,    \* the least _pass_room_m
  RequestRoom, \* LANE_CHANGE_REQUEST_ROOM_M
  StopMax,     \* bound on stopsIn
  Pickup,      \* bound: what stopsIn gains in a tick (_MAX_ACCEL_MPS2)
  Lag          \* bound: how often in a change the car fails to follow its aim

ASSUME LaneAssumption ==
  /\ Sides \subseteq {1, -1}
  /\ {Road, LaneEnd, Ramp, OutMax, PassMax, ReturnMaxS, ReturnMaxM, Retry,
      CarLength, PassRoom, RequestRoom, StopMax} \subseteq Nat \ {0}
  /\ Lag \in Nat /\ Pickup \in Nat
  /\ LaneEnd < Road
  /\ Ramp < OutMax /\ Ramp < ReturnMaxS
  /\ CarLength < PassRoom

\* What the car may fall behind its aim, or speed up between two looks at the
\* lane's end: less than the reserve of the runout (EGO_LENGTH_M in
\* _return_runout_m); and not so much that a return is given up on before the
\* car is home (the headroom of LANE_CHANGE_RETURN_MAX_S and _M).
ASSUME LagAssumption ==
  /\ Lag + Pickup + 2 <= CarLength
  /\ Ramp + Lag <= ReturnMaxM

NoLead == "none"
ASSUME NoLeadAssumption == NoLead \notin Leads

\* The gap to a lead along the route, as far as it matters.
Ahead == "ahead"
Nose  == "nose"   \* ahead by less than the clearance of _alongside
Tail  == "tail"   \* behind by less than that
Gone  == "gone"   \* _passed, or no longer detected
Gaps  == {Ahead, Nose, Tail, Gone}

VARIABLES
  pos,       \* the ego on the route, in cells
  offset,    \* how far it is to the left of its own lane, in units
  stopsIn,   \* v * v / (2 * LANE_END_DECEL_MPS2), in cells; 0 at a standstill
  gap,       \* of each lead
  slow,      \* leads ahead that _holds_us_up: near, and slow for the limit
  driver,    \* does the driver steer? (drive_mode not in _PLANNER_STEERS)
  atLine,    \* is BehaviorFSM.state not CRUISE, with no change under way?
  change,    \* BehaviorFSM.lane_change, or NoChange
  cooldown,  \* BehaviorFSM.cooldown; 0 for no entry
  lagged,    \* how often the car failed to follow in this change
  trip,      \* history: what the car's way home has rested on, see Trips
  failedAgo  \* history: ticks since a change failed on a lead; Retry for long

car  == <<pos, offset, stopsIn, lagged>>
vars == <<car, gap, slow, driver, atLine, change, cooldown, trip, failedAgo>>

NoChange == [phase |-> "none", dir |-> 0, lead |-> NoLead, requested |-> FALSE,
             elapsed |-> 0, passing |-> 0, back |-> 0, blend |-> 0, turned |-> 0]

Max2(a, b) == IF a > b THEN a ELSE b
Min2(a, b) == IF a < b THEN a ELSE b

Changes == [phase : {"none", "outbound", "passing", "returning"},
            dir : {-1, 0, 1}, lead : Leads \cup {NoLead}, requested : BOOLEAN,
            elapsed : 0 .. Max2(OutMax, ReturnMaxS), passing : 0 .. PassMax, back : 0 .. ReturnMaxM,
            blend : 0 .. Ramp, turned : 0 .. Ramp]

\* "hand": the driver has steered since the car was last home.  "beside": the
\* lead was alongside during the change.  Otherwise a return relies on a ramp's
\* length of lane, or on braking as LANE_END_DECEL_MPS2 assumes; or it relied on
\* that and has not braked.
Trips  == {"hand", "beside", "ramp", "braking", "unbraked"}
ByHand == trip = "hand"
Beside == trip = "beside"

TypeOK ==
  /\ pos \in 0 .. Road - 1
  /\ offset \in -Ramp .. Ramp
  /\ stopsIn \in 0 .. StopMax
  /\ gap \in [Leads -> Gaps]
  /\ slow \subseteq Leads
  /\ driver \in BOOLEAN
  /\ atLine \in BOOLEAN
  /\ change \in Changes
  /\ (change = NoChange) <=> (change.phase = "none")
  /\ cooldown \in [Leads -> 0 .. Retry]
  /\ lagged \in 0 .. Lag
  /\ trip \in Trips
  /\ failedAgo \in [Leads -> 0 .. Retry]

Init ==
  /\ pos = 0 /\ offset = 0 /\ stopsIn = 0
  /\ gap \in [Leads -> {Ahead, Gone}]
  /\ slow \in SUBSET {x \in Leads : gap[x] = Ahead}
  /\ driver = FALSE
  /\ atLine = FALSE
  /\ change = NoChange
  /\ cooldown = [x \in Leads |-> 0]
  /\ lagged = 0
  /\ trip = "ramp"
  /\ failedAgo = [x \in Leads |-> Retry]

Changing  == change.phase # "none"
Returning == change.phase = "returning"
Holding   == change.requested /\ change.phase = "passing"

\* LaneChange.away_lane_id: the side of the lane the aim is blended toward.
AwaySide(c) == IF c.phase = "returning" THEN -c.dir ELSE c.dir

\* Where the steering aims, in units from the home lane.
Aim(c) == AwaySide(c) * c.blend

-----------------------------------------------------------------------------
\* The road, and what the FSM asks of it.

\* LaneSet.legal_for.
LegalFor(side) == IF side \in Sides /\ pos < LaneEnd THEN LaneEnd - pos ELSE 0

Runout_Short == Min2(Ramp, stopsIn)   \* Bug: without the car's own length.

\* _return_runout_m: a ramp at the speed, or the way to a standstill, and the
\* car's own length.
Runout == Min2(Ramp, stopsIn) + CarLength

\* A trip home begun in this state: with a ramp's length of lane before it, or
\* at a speed at which the runout leaves one; or it has to brake.
Begun == IF stopsIn >= Ramp \/ LegalFor(change.dir) >= Ramp + CarLength
           THEN "ramp" ELSE "braking"

Alongside(c) == c.lead # NoLead /\ gap[c.lead] \in {Nose, Tail}

-----------------------------------------------------------------------------
\* The phases, as functions of the change as it stands.

\* Bug: the trip home starts from the far lane, wherever the car is.
Turned_Far(c) ==
  [c EXCEPT !.phase = "returning", !.dir = -c.dir, !.elapsed = 0, !.passing = 0,
            !.turned = Ramp]

\* _begin_return.  (pass_s is not read again.)
Turned(c) ==
  [c EXCEPT !.phase = "returning", !.dir = -c.dir, !.elapsed = 0, !.passing = 0,
            !.turned = c.blend]

Moved == IF stopsIn = 0 THEN 0 ELSE 1

\* One more tick of a change: elapsed_s, and returned_m on the way home, as far
\* as they are read.  LANE_CHANGE_RETURN_MAX_M is a time at 5 m/s: returned_m is
\* counted in what a car at that speed drives in a tick.
Older(c) ==
  IF c.phase = "returning"
    THEN [c EXCEPT !.elapsed = Min2(c.elapsed + 1, ReturnMaxS),
                   !.back = Min2(c.back + Moved, ReturnMaxM)]
    ELSE [c EXCEPT !.elapsed = Min2(c.elapsed + 1, OutMax)]

\* Bug: the return ends on its clock, whether or not the car has driven.
AdvanceReturn_Clock(c) ==
  IF offset = 0 \/ c.elapsed >= ReturnMaxS THEN NoChange ELSE c

\* _advance_return: home, or given up on after far and long enough.
AdvanceReturn(c) ==
  IF offset = 0 \/ (c.back >= ReturnMaxM /\ c.elapsed >= ReturnMaxS)
    THEN NoChange ELSE c

\* _advance_outbound.
Arrived(c) == offset = c.dir * Ramp
OutFailed(c) == ~Arrived(c) /\ c.elapsed >= OutMax

AdvanceOutbound(c) ==
  IF Arrived(c) THEN [c EXCEPT !.phase = "passing"]
  ELSE IF OutFailed(c) THEN Turned(c) ELSE c

\* _advance_pass.  A requested lane is held; an overtake is over when the lead
\* is gone, passed, or ahead and no longer in the way.
PassOver(c) ==
  /\ ~c.requested
  /\ \/ gap[c.lead] = Gone
     \/ gap[c.lead] \in {Ahead, Nose} /\ c.lead \notin slow
PassFailed(c) == ~c.requested /\ ~PassOver(c) /\ c.passing + 1 >= PassMax

\* Bug: a lead that keeps level is never given up on.
AdvancePass_Forever(c) ==
  LET p == [c EXCEPT !.passing = Min2(c.passing + 1, PassMax)]
  IN  IF PassOver(c) THEN Turned(p) ELSE p

AdvancePass(c) ==
  LET p == [c EXCEPT !.passing = Min2(c.passing + 1, PassMax)]
  IN  IF PassOver(c) \/ PassFailed(c) THEN Turned(p) ELSE p

LaneRunsOut(c) == LegalFor(c.dir) < Runout /\ ~Alongside(c)

\* _lane_change_step with a change under way, given its older self.
Advance(c) ==
  IF c.phase = "returning" THEN AdvanceReturn(c)
  ELSE IF LaneRunsOut(c) THEN AdvanceReturn(Turned(c))
  ELSE IF c.phase = "passing" THEN AdvancePass(c)
  ELSE AdvanceOutbound(c)

\* Bug: an entry is dropped a tick early.
Rested_Early(left) == IF left <= 2 THEN 0 ELSE left - 1

\* _tick_cooldown, which runs in every step, at a junction too.
Rested(left) == Max2(left - 1, 0)

\* The lead the step declines, if it does.
Declined(c) ==
  IF c.phase = "returning" \/ LaneRunsOut(c) THEN {}
  ELSE {x \in {c.lead} \ {NoLead} :
          IF c.phase = "passing" THEN PassFailed(c) ELSE OutFailed(c)}

\* _junction_abort: an interrupted change is turned round, not dropped.
JunctionAbort(c) ==
  AdvanceReturn(IF c.phase = "returning" THEN Older(c) ELSE Turned(c))

\* _lane_change_step without one: the overtakes it may begin.  The first legal
\* side, left before right; whether the gap and the next line allow it is open.
Overtakes ==
  LET side == IF 1 \in Sides THEN 1 ELSE -1
  IN  {[NoChange EXCEPT !.phase = "outbound", !.dir = side, !.lead = x] :
         x \in {y \in slow : /\ gap[y] = Ahead
                             /\ Rested(cooldown[y]) = 0
                             /\ LegalFor(side) >= PassRoom}}

\* _tick_blend.  The floor of the span, LANE_CHANGE_RETURN_MIN_S, is one tick.
Blended(c) ==
  [c EXCEPT !.blend = IF c.phase = "none" THEN 0
                      ELSE IF c.phase = "returning" THEN Max2(c.turned - c.elapsed, 0)
                      ELSE Min2(c.elapsed, Ramp)]

-----------------------------------------------------------------------------
\* The world of a tick.

\* Where the car may be sideways when the tick is over.  A driver stays on the
\* carriageway.
Lateral == {d * u : d \in Sides, u \in 0 .. Ramp} \cup {0}

Toward(aim) == IF aim > offset THEN offset + 1
               ELSE IF aim < offset THEN offset - 1 ELSE offset

Steered(c) ==
  IF stopsIn = 0 THEN {offset}
  ELSE IF driver THEN {o \in Lateral : o - offset \in -1 .. 1}
  ELSE {Toward(Aim(c))} \cup (IF lagged < Lag THEN {offset} ELSE {})

\* The cells a tick may take the car on.
Drive == IF stopsIn = 0 THEN {0} ELSE IF stopsIn < Ramp THEN {0, 1} ELSE {1}

\* The speed after a tick: whatever the plan, the traffic and the driver make
\* of it, gained by the planner no faster than it accelerates.
Speeds == IF driver THEN 0 .. StopMax ELSE 0 .. Min2(stopsIn + Pickup, StopMax)

\* Braking at LANE_END_DECEL_MPS2 or harder takes as much off the stopping
\* distance as the car drives.
Brakes(n) == stopsIn' <= stopsIn - n

Relied(stepped, n) ==
  LET begun == IF Returning THEN trip ELSE Begun
  IN  IF driver \/ (ByHand /\ ~(offset' = 0 /\ stepped = NoChange)) THEN "hand"
      ELSE IF stepped # NoChange /\ (Beside \/ Alongside(change)) THEN "beside"
      ELSE IF stepped.phase # "returning" THEN "ramp"
      ELSE IF begun = "braking" /\ ~Brakes(n) THEN "unbraked" ELSE begun

NextGap(g) ==
  CASE g = Ahead -> {Ahead, Nose, Gone}
    [] g = Nose  -> {Ahead, Nose, Tail}
    [] g = Tail  -> {Nose, Tail, Gone}
    [] OTHER     -> {Gone, Ahead, Tail}

\* Traffic moves; a car in the ego's own lane is never beside it.
Traffic ==
  /\ gap' \in {g \in [Leads -> Gaps] :
                 \A x \in Leads : /\ g[x] \in NextGap(gap[x])
                                  /\ offset' = 0 => g[x] \notin {Nose, Tail}}
  /\ slow' \in SUBSET {x \in Leads : gap'[x] \in {Ahead, Nose}}

\* What the FSM may make of the change, a junction ahead or not.
Stepped(line) ==
  IF ~Changing THEN {NoChange} \cup (IF line THEN {} ELSE Overtakes)
  ELSE {IF line THEN JunctionAbort(change) ELSE Advance(Older(change))}

\* BehaviorFSM.step, then the car and the traffic.
Tick ==
  \E line \in BOOLEAN, n \in Drive : \E stepped \in Stepped(line) :
    /\ atLine' = (line /\ stepped = NoChange)
    /\ change' = Blended(stepped)
    /\ LET failed == IF Changing /\ ~line THEN Declined(Older(change)) ELSE {}
       IN  /\ cooldown' = [x \in Leads |-> IF x \in failed THEN Retry
                                           ELSE Rested(cooldown[x])]
           /\ failedAgo' = [x \in Leads |-> IF x \in failed THEN 0
                                            ELSE Min2(failedAgo[x] + 1, Retry)]
    /\ offset' \in Steered(change')
    /\ pos' = (pos + n) % Road
    /\ stopsIn' \in Speeds
    /\ lagged' = IF stepped = NoChange \/ driver \/ stopsIn = 0 \/ offset' = Toward(Aim(change'))
                   THEN (IF stepped = NoChange THEN 0 ELSE lagged)
                   ELSE lagged + 1
    /\ trip' = Relied(stepped, n)
    /\ Traffic
    /\ UNCHANGED driver

\* request_lane_change, from _cmd_lane_change: the turn signal under Assist or
\* FSD.  Back toward home it turns the change round; otherwise it begins one.
SignalHome(d) ==
  /\ ~driver
  /\ change.requested /\ ~Returning /\ d = -change.dir
  /\ change' = Turned(change)
  /\ trip' = IF ByHand \/ Beside THEN trip ELSE Begun
  /\ UNCHANGED <<car, gap, slow, driver, atLine, cooldown, failedAgo>>

SignalOut(d) ==
  /\ ~driver
  /\ ~Changing /\ ~atLine
  /\ LegalFor(d) >= Runout + RequestRoom
  /\ change' = [NoChange EXCEPT !.phase = "outbound", !.dir = d, !.requested = TRUE]
  /\ UNCHANGED <<car, gap, slow, driver, atLine, cooldown, trip, failedAgo>>

\* _cmd_set_drive_mode.  The change under way is left as it is.
Takeover ==
  /\ ~driver
  /\ driver' = TRUE
  /\ trip' = "hand"
  /\ UNCHANGED <<car, gap, slow, atLine, change, cooldown, failedAgo>>

\* Only where route_available: less than a lane off the route.
Engage ==
  /\ driver
  /\ offset \in 1 - Ramp .. Ramp - 1
  /\ driver' = FALSE
  /\ UNCHANGED <<car, gap, slow, atLine, change, cooldown, trip, failedAgo>>

\* _reset_dynamics: the ego back on its lane, at rest and under FSD, and
\* BehaviorFSM.reset.
Reset ==
  /\ pos' = 0 /\ offset' = 0 /\ stopsIn' = 0
  /\ atLine' = FALSE
  /\ change' = NoChange
  /\ cooldown' = [x \in Leads |-> 0]
  /\ lagged' = 0
  /\ driver' = FALSE
  /\ trip' = "ramp"
  /\ failedAgo' = [x \in Leads |-> Retry]
  /\ gap' \in [Leads -> {Ahead, Gone}]
  /\ slow' \in SUBSET {x \in Leads : gap'[x] = Ahead}

Next ==
  \/ Tick
  \/ \E d \in {1, -1} : SignalHome(d) \/ SignalOut(d)
  \/ Takeover
  \/ Engage
  \/ Reset

Spec == Init /\ [][Next]_vars

\* The loop goes on ticking, and the car is not held for ever: signals turn
\* green and traffic moves off.
Drives   == pos' = (pos + 1) % Road
Fairness == WF_pos(Drives)
LiveSpec == Spec /\ Fairness

-----------------------------------------------------------------------------
(***************************************************************************)
(* Properties                                                              *)
(***************************************************************************)

\* A car that the planner has steered since it was last home is never off its
\* lane without saying so: a change is under way, to the side where the car
\* is, and "keep_lane" is said of the second lane only by a car that is in it
\* (_changing, _junction_abort, returned_m).  After a drive by hand this does
\* not hold: nothing tells the FSM where the driver has left the car.
OffsetTold ==
  ~ByHand =>
    /\ offset # 0 => Changing /\ offset * AwaySide(change) > 0
    /\ Holding => offset = change.dir * Ramp

\* The second lane is left before it ends, or the car is still short of its end,
\* when the trip home was begun with a ramp's length of lane (as at 13.5 m/s and
\* above _return_runout_m sees to it) or when, begun with less, it has braked
\* since as LANE_END_DECEL_MPS2 assumes (the docstring of _return_runout_m).
\* Not so with the lead alongside, which keeps the car there (LaneRunsOut).
HomeBeforeLaneEnds ==
  offset # 0 /\ pos >= LaneEnd => trip \in {"hand", "beside", "unbraked"}

\* The aim never leaves the car behind: it moves by no more than the ramp
\* does, through arrivals, interruptions and signals, or comes to where the car
\* already is (LaneChange.elapsed_s, blend_at_return).  A reset starts anew.
AimNeverJumps ==
  [][\/ Aim(change') - Aim(change) \in -1 .. 1
     \/ Aim(change') = 0 /\ (offset = 0 \/ Reset)]_vars

\* Whatever interrupts it, a change comes to its end, or to the lane the
\* driver asked for.
ChangeEnds == (Changing /\ ~Holding) ~> (~Changing \/ Holding)

\* A lead that a change has failed on is not tried again before Retry ticks are
\* over, whatever was done in between (cooldown, _lead_holding_us_up).
TriesApart ==
  [][\A x \in Leads : change'.lead = x /\ change.lead # x
                       => failedAgo[x] + 1 >= Retry]_vars
=============================================================================
