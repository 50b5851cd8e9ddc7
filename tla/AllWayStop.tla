----------------------------- MODULE AllWayStop -----------------------------
(***************************************************************************)
(* An all-way stop.  Traffic (sim/agents.py, IdmTraffic) and the planner   *)
(* of the ego (plan/behavior.py, BehaviorFSM) each keep the rule "first to *)
(* stop goes first" with clocks of their own; nothing arbitrates between   *)
(* them.                                                                   *)
(*                                                                         *)
(* A tick is one Simulation.step: every car in the order of the agents'    *)
(* list, then the ego, which sees where the cars have moved.  Where a      *)
(* vehicle is, is a stage of its way through; it moves on by at most one   *)
(* stage a tick.                                                           *)
(***************************************************************************)
EXTENDS Integers, FiniteSets

CONSTANTS
  N,            \* cars of the traffic model; the ego comes after them
  Layouts,      \* which arm each vehicle comes from: functions to 0 .. 3
  StopTie,      \* STOP_TIE_S
  StopDwell,    \* STOP_DWELL_S
  BoxTimeout,   \* BOX_TIMEOUT_S
  BoxHoldMax,   \* _BOX_HOLD_MAX_S
  LastArrival,  \* bound: everybody has come by then
  Dither,       \* bound: how often drivers dither, all together
  Horizon       \* bound: how long the junction is watched

Cars    == 1 .. N
Ego     == N + 1
Vehicle == 1 .. N + 1

ASSUME StopAssumption ==
  /\ N \in Nat \ {0}
  /\ Layouts \subseteq [Vehicle -> 0 .. 3]
  /\ \A arms \in Layouts : \A c \in Cars : arms[c] # arms[Ego]
  /\ StopTie \in Nat /\ StopDwell \in Nat \ {0}
  /\ BoxTimeout \in Nat /\ BoxHoldMax \in Nat \ {0}
  /\ LastArrival \in Nat /\ Dither \in Nat /\ Horizon \in Nat

None == -1

\* The stages of the way through.
Away   == 0   \* not yet in the waiting zone
Zone   == 1   \* WAIT_MIN_M to WAIT_MAX_M from the centre, before its line
Over   == 2   \* over its line, not yet in the box
Inside == 3   \* in the box, before its centre
Past   == 4   \* in the box, past its centre
Gone   == 5

VARIABLES
  clock,       \* IdmTraffic._elapsed and BehaviorFSM.clock_s
  turn,        \* whose move it is in this tick; 0 between ticks
  arm,
  far,         \* is CLEARED_M past the ego's line still short of the box?
  at,          \* the stage of each vehicle
  moving,      \* faster than MOVING_MPS = _STANDSTILL_MPS
  boxed,       \* who was in the box when the tick began (_next_pass)
  dither,
  \* IdmTraffic
  waiting,     \* _waiting: since when, or None
  released,    \* cars whose cleared_control_id is this line
  dwell,       \* control_dwell_s
  holder,      \* _box_holder: the car, or None
  heldSince,
  busyAt,      \* _box_busy_at, or None for never
  egoWaiting,  \* _ego_waiting, or None
  \* BehaviorFSM
  state,
  target,      \* is this line still the ego's target?
  egoDwell,    \* dwell_s
  stoppedAt,   \* stopped_at_s
  waiters,     \* waiters: since when, or None
  clearSince,  \* box_clear_since_s
  \* History
  restAt       \* when each vehicle first came to rest in the zone

road    == <<at, moving, dither, restAt>>
traffic == <<waiting, released, dwell, holder, heldSince, busyAt>>
fsm     == <<state, target, egoDwell, stoppedAt, waiters, clearSince>>
vars    == <<clock, turn, arm, far, boxed, egoWaiting, road, traffic, fsm>>

Times == 0 .. Horizon
Since == Times \cup {None}

TypeOK ==
  /\ clock \in Times
  /\ turn \in 0 .. N + 1
  /\ arm \in Layouts
  /\ far \in BOOLEAN
  /\ at \in [Vehicle -> Away .. Gone]
  /\ moving \in [Vehicle -> BOOLEAN]
  /\ boxed \subseteq Vehicle
  /\ dither \in 0 .. Dither
  /\ waiting \in [Cars -> Since]
  /\ released \subseteq Cars
  /\ dwell \in [Cars -> 0 .. StopDwell]
  /\ holder \in Cars \cup {None}
  /\ heldSince \in Times
  /\ busyAt \in Since
  /\ egoWaiting \in Since
  /\ state \in {"cruise", "approach", "stop", "creep"}
  /\ target \in BOOLEAN
  /\ egoDwell \in 0 .. StopDwell
  /\ stoppedAt \in Since
  /\ waiters \in [Cars -> Since]
  /\ clearSince \in Since
  /\ restAt \in [Vehicle -> Since]

Init ==
  /\ clock = 0
  /\ turn = 0
  /\ arm \in Layouts
  /\ far \in BOOLEAN
  /\ at = [v \in Vehicle |-> Away]
  /\ moving = [v \in Vehicle |-> TRUE]
  /\ boxed = {}
  /\ dither = 0
  /\ waiting = [c \in Cars |-> None]
  /\ released = {}
  /\ dwell = [c \in Cars |-> 0]
  /\ holder = None
  /\ heldSince = 0
  /\ busyAt = None
  /\ egoWaiting = None
  /\ state = "approach"
  /\ target = TRUE
  /\ egoDwell = 0
  /\ stoppedAt = None
  /\ waiters = [c \in Cars |-> None]
  /\ clearSince = None
  /\ restAt = [v \in Vehicle |-> None]

-----------------------------------------------------------------------------
(* The junction. *)

InBox(v)    == at[v] \in {Inside, Past}
OnRight(u, v) == arm[u] = (arm[v] + 1) % 4
Crossing(u, v) == (arm[u] - arm[v]) % 2 = 1

\* Nobody of its own approach stands before v.
Front(v) == \A u \in Vehicle : arm[u] = arm[v] /\ u < v => at[u] > Zone

Waits(v) == at[v] = Zone /\ ~moving[v]

Advance(v) ==
  /\ at' = [at EXCEPT ![v] = @ + 1]
  /\ UNCHANGED <<moving, dither, restAt>>

MoveOff(v) ==
  /\ moving' = [moving EXCEPT ![v] = TRUE]
  /\ UNCHANGED <<at, dither, restAt>>

Halt(v) ==
  /\ moving' = [moving EXCEPT ![v] = FALSE]
  /\ restAt' = [restAt EXCEPT ![v] = IF @ = None THEN clock ELSE @]
  /\ UNCHANGED <<at, dither>>

\* A driver that takes longer than it must.
Dawdle ==
  /\ dither < Dither
  /\ dither' = dither + 1
  /\ UNCHANGED <<at, moving, restAt>>

\* Somebody of its own approach is still on the way to its halt before v.
Behind(v) == \E u \in Vehicle \ released :
  arm[u] = arm[v] /\ u < v /\ at[u] <= Zone /\ (at[u] = Zone => moving[u])

\* Coming up to the zone and to a halt in it, never before the car ahead.
Approach(v) ==
  \/ at[v] = Away /\ (clock < LastArrival \/ Behind(v)) /\ UNCHANGED road
  \/ at[v] = Away /\ ~Behind(v) /\ Advance(v)
  \/ at[v] = Zone /\ ~Behind(v) /\ (Halt(v) \/ Dawdle)

-----------------------------------------------------------------------------
(* The cars. *)

\* Bug: out of the disc is through, on whichever side of it.
Through_EitherSide == holder # None => ~InBox(holder)

\* _through: out of the disc on the far side, or given up on.
Through == holder # None => at[holder] = Gone \/ clock - heldSince > BoxHoldMax

\* An ego that waited here and rolls has the box, however far from it.
RollingIn == egoWaiting # None /\ moving[Ego] /\ at[Ego] \in Zone .. Inside

BoxBusy(c) ==
  \/ \E o \in Vehicle \ {c} : InBox(o)
  \/ ~Through
  \/ RollingIn

FreeFor(t) == IF busyAt = None THEN BoxTimeout ELSE t - busyAt

\* When c came to rest, as of now.
Mine(c) == IF waiting[c] = None THEN clock ELSE waiting[c]

\* Who else waits, since when.  One queued behind c cannot go first.
Rivals(c) ==
  {<<o, waiting[o]>> : o \in {o \in Cars \ {c} :
      waiting[o] # None /\ ~(arm[o] = arm[c] /\ o > c)}}
  \cup (IF egoWaiting = None THEN {} ELSE {<<Ego, egoWaiting>>})

Beats(r, mine, me, free) ==
  \/ r[2] < mine - StopTie
  \/ r[2] <= mine + StopTie /\ free < BoxTimeout /\ OnRight(r[1], me)

\* Bug: a tie all round is left to the right-hand rule for good.
MayTake_Polite(c) ==
  ~BoxBusy(c) /\ \A r \in Rivals(c) :
     ~(\/ r[2] < Mine(c) - StopTie
       \/ r[2] <= Mine(c) + StopTie /\ OnRight(r[1], c))

\* Bug: only an empty box counts, whoever came first.
MayTake_Pushy(c) == ~BoxBusy(c)

\* _may_take_box
MayTake(c) == ~BoxBusy(c) /\ \A r \in Rivals(c) : ~Beats(r, Mine(c), c, FreeFor(clock))

Noted(c) == [waiting EXCEPT ![c] = IF Waits(c) THEN Mine(c) ELSE @]

\* At rest before the line.  The box is looked at only once the dwell is over.
AtLine(c)  == Waits(c) /\ Front(c)
Dwelt(c)   == AtLine(c) /\ dwell[c] + 1 >= StopDwell

Wait(c) ==
  /\ Waits(c) /\ c \notin released
  /\ ~(Dwelt(c) /\ MayTake(c))
  /\ waiting' = Noted(c)
  /\ dwell' = [dwell EXCEPT ![c] = IF ~AtLine(c) THEN 0 ELSE IF Dwelt(c) THEN StopDwell ELSE @ + 1]
  /\ busyAt' = IF Dwelt(c) /\ BoxBusy(c) THEN clock ELSE busyAt
  /\ holder' = IF Dwelt(c) /\ Through THEN None ELSE holder
  /\ UNCHANGED <<released, heldSince, road>>

Take(c) ==
  /\ c \notin released
  /\ Dwelt(c) /\ MayTake(c)
  /\ released' = released \cup {c}
  /\ waiting' = [waiting EXCEPT ![c] = None]
  /\ dwell' = [dwell EXCEPT ![c] = 0]
  /\ holder' = c
  /\ heldSince' = clock
  /\ UNCHANGED <<busyAt, road>>

\* _right_of_way: whoever was crossing in the box goes first.
MustYield(c) == at[c] = Over /\ \E o \in boxed : InBox(o) /\ Crossing(o, c)

Go(c) ==
  /\ c \in released
  /\ \/ ~MustYield(c) /\ ~moving[c] /\ MoveOff(c)
     \/ ~MustYield(c) /\ moving[c] /\ at[c] # Gone /\ (Advance(c) \/ Dawdle)
     \/ MustYield(c) /\ Halt(c)
     \/ at[c] = Gone /\ UNCHANGED road
  /\ UNCHANGED traffic

Come(c) ==
  /\ c \notin released /\ ~Waits(c)
  /\ Approach(c)
  /\ UNCHANGED traffic

Car(c) ==
  /\ turn = c
  /\ turn' = turn + 1
  /\ Come(c) \/ Wait(c) \/ Take(c) \/ Go(c)
  /\ UNCHANGED <<clock, arm, far, boxed, egoWaiting, fsm>>

-----------------------------------------------------------------------------
(* The ego. *)

\* Facing the junction, inside WAIT_MAX_M.
Facing(v) == at[v] \in Zone .. Inside

\* _track_waiters
Tracked ==
  [c \in Cars |->
     IF ~Facing(c) THEN None
     ELSE IF waiters[c] # None THEN waiters[c]
     ELSE IF Waits(c) THEN clock ELSE None]

\* _note_own_wait
OwnWait == IF stoppedAt = None /\ Waits(Ego) THEN clock ELSE stoppedAt

\* Bug: a car that creeps out of its line is not in the way yet.
Clear_Late(near) == \A c \in Cars : moving[c] => ~InBox(c)

\* _intersection_clear: nobody moves within JUNCTION_CLEAR_M.  A car that was
\* let go leaves a line that is nearer than that; one still coming up in the
\* zone may be near enough to count.
Clear(near) == \A c \in Cars :
  moving[c] => ~(at[c] \in Over .. Past \/ (at[c] = Zone /\ c \in released \cup near))

Nearing == {c \in Cars \ released : at[c] = Zone /\ moving[c]}

\* _my_turn
MyTurn ==
  \A c \in Cars : Tracked[c] # None =>
    ~(\/ Tracked[c] < OwnWait - StopTie
      \/ /\ Tracked[c] <= OwnWait + StopTie
         /\ clearSince = None \/ clock - clearSince < BoxTimeout
         /\ OnRight(c, Ego))

Track ==
  /\ waiters' = Tracked
  /\ stoppedAt' = OwnWait

EgoComes ==
  /\ target /\ at[Ego] \in {Away, Zone} /\ moving[Ego] /\ state # "creep"
  /\ state' = "approach"
  /\ Approach(Ego)
  /\ Track
  /\ UNCHANGED <<target, egoDwell, clearSince>>

\* At rest: the dwell, then clearance, then the turn.
EgoWaits ==
  /\ target /\ at[Ego] # Away /\ ~moving[Ego] /\ state # "creep"
  /\ egoDwell' = IF egoDwell < StopDwell THEN egoDwell + 1 ELSE egoDwell
  /\ \E near \in SUBSET Nearing :
       /\ clearSince' = IF ~Clear(near) THEN None
                        ELSE IF clearSince = None THEN clock ELSE clearSince
       /\ state' = IF Clear(near) /\ egoDwell' >= StopDwell /\ MyTurn
                   THEN "creep" ELSE "stop"
  /\ Track
  /\ UNCHANGED <<target, road>>

\* Where CLEARED_M past its line is.  The box is sized by the nearest line of
\* the junction (_box_r): a line further out than that by CLEARED_M is dropped
\* before the ego is in the box.
DropsIn == IF far THEN Over ELSE Inside

\* Released: every tick looks again, and a late crosser puts it back to a
\* hold with its dwell served.
EgoCreeps ==
  /\ target /\ state = "creep" /\ at[Ego] # Past
  /\ \E near \in SUBSET Nearing :
       \/ /\ ~Clear(near)
          /\ state' = "stop"
          /\ UNCHANGED road
       \/ /\ Clear(near)
          /\ state' = state
          /\ \/ ~moving[Ego] /\ MoveOff(Ego)
             \/ moving[Ego] /\ at[Ego] # DropsIn /\ Advance(Ego)
             \/ moving[Ego] /\ Dawdle
  /\ Track
  /\ UNCHANGED <<target, egoDwell, clearSince>>

\* Braking from the creep; it may still roll over its line.
EgoBrakes ==
  /\ target /\ state = "stop" /\ moving[Ego]
  /\ state' = "approach"
  /\ moving' = [moving EXCEPT ![Ego] = FALSE]
  /\ at' = at \/ (at[Ego] = Zone /\ at' = [at EXCEPT ![Ego] = Over])
  /\ Track
  /\ UNCHANGED <<target, egoDwell, clearSince, dither, restAt>>

\* CLEARED_M past the line the target is dropped (_cruise): nothing is
\* looked at again.
EgoCruises ==
  /\ ~target \/ at[Ego] = DropsIn
  /\ moving[Ego] /\ (state = "creep" \/ ~target)
  /\ at[Ego] # Gone
  /\ target' = FALSE
  /\ state' = "cruise"
  /\ egoDwell' = 0
  /\ stoppedAt' = None
  /\ waiters' = [c \in Cars |-> None]
  /\ clearSince' = None
  /\ Advance(Ego) \/ Dawdle

EgoGone ==
  /\ at[Ego] = Gone
  /\ UNCHANGED <<road, fsm>>

EgoMoves ==
  /\ turn = Ego
  /\ turn' = 0
  /\ EgoComes \/ EgoWaits \/ EgoCreeps \/ EgoBrakes \/ EgoCruises \/ EgoGone
  /\ UNCHANGED <<clock, arm, far, boxed, egoWaiting, traffic>>

-----------------------------------------------------------------------------
AllThrough == \A v \in Vehicle : at[v] = Gone

\* Assumed: a car that took the box leaves it within BoxHoldMax.  What comes
\* after one that is stuck longer is not watched.
InTime == holder # None /\ at[holder] # Gone => clock - heldSince < BoxHoldMax

\* _note_ego_waiting opens the tick.
EgoNoted ==
  IF egoWaiting # None THEN (IF at[Ego] >= Past THEN None ELSE egoWaiting)
  ELSE IF Waits(Ego) THEN clock + 1 ELSE None

Tick ==
  /\ turn = 0
  /\ ~AllThrough
  /\ clock < Horizon /\ InTime
  /\ clock' = clock + 1
  /\ turn' = 1
  /\ boxed' = {v \in Vehicle : InBox(v)}
  /\ egoWaiting' = EgoNoted
  /\ UNCHANGED <<arm, far, road, traffic, fsm>>

Ends == turn = 0 /\ (AllThrough \/ clock = Horizon \/ ~InTime) /\ UNCHANGED vars

Next == Tick \/ (\E c \in Cars : Car(c)) \/ EgoMoves \/ Ends

Spec == Init /\ [][Next]_vars
LiveSpec == Spec /\ WF_vars(Next)
-----------------------------------------------------------------------------
(* Properties. *)

\* Two cars of the traffic are never in the box together: the one that was
\* let go has it until it is out on the far side.
OneCarInBox == \A c, d \in Cars : InBox(c) /\ InBox(d) => c = d

\* The ego and a car may be let go in the same tick, since neither is told of
\* the other, and the ego may come to rest over its line and move off again:
\* still they are never in the box together, where the ego looks until it is in
\* the box.
EgoMeetsNobody == \A c \in Cars : InBox(c) /\ InBox(Ego) => far

\* Nobody is let go before one on another arm who has stood longer, by more
\* than the tie: though traffic notes a halt in the tick after it, and the ego
\* that of a car at once but its own one tick late, and neither reads the
\* other's notes.
LetGo(v) == IF v = Ego THEN state # "creep" /\ state' = "creep" /\ at[Ego] = Zone
            ELSE v \in released' \ released
FirstComeFirst ==
  [][\A u, v \in Vehicle :
       LetGo(v) /\ Waits(u) /\ arm[u] # arm[v] /\ u \notin released
         => restAt[u] >= restAt[v] - StopTie]_vars

\* Everybody gets through: no tie all round, no two vehicles that each think
\* the other came first, no hold that nothing ends.
EveryoneThrough == <>AllThrough
=============================================================================
