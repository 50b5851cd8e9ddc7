-------------------------- MODULE AllWayStopProofs --------------------------
(***************************************************************************)
(* Theorems about AllWayStop, for any number of cars and any arms: its     *)
(* types, that the traffic never has two cars in the box, that the ego is  *)
(* never in it with one of them where it looks until it is inside, and     *)
(* that whoever stood first goes first.                                    *)
(***************************************************************************)
EXTENDS AllWayStop, TLAPS

-----------------------------------------------------------------------------
(* The inductive invariant: whoever was let go and is not through holds the *)
(* box, and its hold has not run out.                                       *)

HeldBack == \A c \in Cars : c \notin released => at[c] <= Zone
HasBox   == \A c \in released : at[c] # Gone => holder = c
HoldRuns == holder # None /\ at[holder] # Gone => clock - heldSince <= BoxHoldMax
EgoDone  == at[Ego] = Gone => ~target

BoxInv == TypeOK /\ HeldBack /\ HasBox /\ HoldRuns /\ EgoDone

LEMMA Actors == /\ Cars \subseteq Vehicle /\ Ego \in Vehicle /\ Ego \notin Cars
                /\ Cars \subseteq Int /\ None \notin Cars
                /\ \A c \in Cars : c + 1 \in 0 .. N + 1 /\ c # 0
BY StopAssumption DEF Cars, Vehicle, Ego, None

LEMMA InitBox == Init => BoxInv
<1> SUFFICES ASSUME Init PROVE BoxInv
  OBVIOUS
<1>1. TypeOK
  BY StopAssumption DEF Init, TypeOK, Times, Since, None, Cars, Vehicle, Away, Gone
<1>2. HeldBack /\ HasBox /\ HoldRuns /\ EgoDone
  BY Actors DEF Init, HeldBack, HasBox, HoldRuns, EgoDone, Away, Zone, Gone, None
<1> QED
  BY <1>1, <1>2 DEF BoxInv

-----------------------------------------------------------------------------
(* A move of one vehicle on the road. *)

LEMMA ApproachMoves ==
  ASSUME TypeOK, NEW v \in Vehicle, Approach(v)
  PROVE  /\ at' \in [Vehicle -> Away .. Gone] /\ moving' \in [Vehicle -> BOOLEAN]
         /\ dither' \in 0 .. Dither /\ restAt' \in [Vehicle -> Since]
         /\ \A u \in Vehicle \ {v} : /\ at'[u] = at[u] /\ moving'[u] = moving[u]
                                     /\ restAt'[u] = restAt[u]
         /\ at[v] <= Zone /\ at'[v] <= Zone
<1>1. CASE at[v] = Away /\ UNCHANGED road
  BY <1>1 DEF road, TypeOK, Away, Zone
<1>2. CASE at[v] = Away /\ Advance(v)
  BY <1>2 DEF Advance, TypeOK, Away, Zone, Gone
<1>3. CASE at[v] = Zone /\ Halt(v)
  BY <1>3 DEF Halt, TypeOK, Since, Away, Zone, Gone
<1>4. CASE at[v] = Zone /\ Dawdle
  BY <1>4, StopAssumption DEF Dawdle, TypeOK, Away, Zone, Gone
<1> QED
  BY <1>1, <1>2, <1>3, <1>4 DEF Approach

LEMMA GoMoves ==
  ASSUME TypeOK, NEW c \in Cars, Go(c)
  PROVE  /\ at' \in [Vehicle -> Away .. Gone] /\ moving' \in [Vehicle -> BOOLEAN]
         /\ dither' \in 0 .. Dither /\ restAt' \in [Vehicle -> Since]
         /\ \A u \in Vehicle \ {c} : /\ at'[u] = at[u] /\ moving'[u] = moving[u]
                                     /\ restAt'[u] = restAt[u]
         /\ at'[c] = at[c] \/ (at[c] # Gone /\ at'[c] = at[c] + 1)
<1> c \in Vehicle
  BY Actors
<1>1. CASE MoveOff(c)
  BY <1>1 DEF MoveOff, TypeOK
<1>2. CASE at[c] # Gone /\ Advance(c)
  BY <1>2 DEF Advance, TypeOK, Away, Gone
<1>3. CASE at[c] # Gone /\ Dawdle
  BY <1>3, StopAssumption DEF Dawdle, TypeOK
<1>4. CASE Halt(c)
  BY <1>4 DEF Halt, TypeOK, Since
<1>5. CASE UNCHANGED road
  BY <1>5 DEF road, TypeOK
<1> QED
  BY <1>1, <1>2, <1>3, <1>4, <1>5 DEF Go

\* A hold that is through has left nobody behind in the junction.
LEMMA ThroughIsEmpty ==
  ASSUME BoxInv, Through
  PROVE  \A c \in released : at[c] = Gone
<1> SUFFICES ASSUME NEW c \in released, at[c] # Gone PROVE FALSE
  OBVIOUS
<1>1. holder = c /\ c \in Cars
  BY DEF BoxInv, HasBox, TypeOK
<1>2. holder # None /\ at[holder] # Gone
  BY <1>1, Actors
<1>3. clock - heldSince <= BoxHoldMax /\ clock - heldSince > BoxHoldMax
  BY <1>2 DEF BoxInv, HoldRuns, Through
<1> QED
  BY <1>3, StopAssumption DEF BoxInv, TypeOK, Times

-----------------------------------------------------------------------------
(* The steps. *)

LEMMA ComeKeeps ==
  ASSUME BoxInv, NEW c \in Cars, Car(c), Come(c)
  PROVE  BoxInv'
<1>1. at[c] <= Zone /\ c \notin released /\ Approach(c) /\ UNCHANGED traffic
  BY DEF Come, BoxInv, HeldBack
<1>2. /\ at' \in [Vehicle -> Away .. Gone] /\ moving' \in [Vehicle -> BOOLEAN]
      /\ dither' \in 0 .. Dither /\ restAt' \in [Vehicle -> Since]
      /\ \A u \in Vehicle \ {c} : at'[u] = at[u]
      /\ at'[c] <= Zone
  BY <1>1, ApproachMoves, Actors DEF BoxInv
<1>3. TypeOK'
  BY <1>1, <1>2, Actors DEF Car, BoxInv, TypeOK, traffic, fsm, Times, Since
<1>4. HeldBack'
  BY <1>1, <1>2, Actors DEF BoxInv, HeldBack, traffic
<1>5. HasBox'
  BY <1>1, <1>2, Actors DEF BoxInv, HasBox, traffic, TypeOK
<1>6. HoldRuns'
  <2>1. CASE holder = c
    <3>1. at[c] # Gone
      BY <1>1 DEF Zone, Gone
    <3> QED
      BY <2>1, <3>1, <1>1, Actors DEF BoxInv, HoldRuns, traffic, Car
  <2>2. CASE holder # c
    BY <2>2, <1>1, <1>2, Actors DEF BoxInv, HoldRuns, TypeOK, traffic, Car
  <2> QED
    BY <2>1, <2>2
<1>7. EgoDone'
  BY <1>2, Actors DEF BoxInv, EgoDone, Car, fsm
<1> QED
  BY <1>3, <1>4, <1>5, <1>6, <1>7 DEF BoxInv

LEMMA WaitKeeps ==
  ASSUME BoxInv, NEW c \in Cars, Car(c), Wait(c)
  PROVE  BoxInv'
<1>1. UNCHANGED <<released, heldSince, road, clock, fsm, arm, far, boxed, egoWaiting>>
  BY DEF Wait, Car
<1>2. Mine(c) \in Since
  BY DEF Mine, BoxInv, TypeOK, Since
<1>3. waiting' \in [Cars -> Since]
  BY <1>2 DEF Wait, Noted, BoxInv, TypeOK
<1>4. dwell' \in [Cars -> 0 .. StopDwell]
  <2>1. dwell[c] \in 0 .. StopDwell /\ StopDwell \in Nat
    BY StopAssumption DEF BoxInv, TypeOK
  <2>2. AtLine(c) /\ ~Dwelt(c) => dwell[c] + 1 \in 0 .. StopDwell
    BY <2>1 DEF Dwelt
  <2> QED
    BY <2>1, <2>2 DEF Wait, BoxInv, TypeOK
<1>5. TypeOK'
  BY <1>1, <1>3, <1>4, Actors DEF Wait, Car, BoxInv, TypeOK, road, fsm, Times, Since
<1>6. HasBox'
  BY <1>1, ThroughIsEmpty DEF Wait, BoxInv, HasBox, road
<1>7. HeldBack' /\ EgoDone'
  BY <1>1 DEF BoxInv, HeldBack, EgoDone, road, fsm
<1>8. HoldRuns'
  BY <1>1 DEF Wait, BoxInv, HoldRuns, road
<1> QED
  BY <1>5, <1>6, <1>7, <1>8 DEF BoxInv

LEMMA TakeKeeps ==
  ASSUME BoxInv, NEW c \in Cars, Car(c), Take(c)
  PROVE  BoxInv'
<1>1. UNCHANGED <<busyAt, road, clock, fsm, arm, far, boxed, egoWaiting>>
  BY DEF Take, Car
<1>2. \A d \in released : at[d] = Gone
  BY ThroughIsEmpty DEF Take, MayTake, BoxBusy
<1>3. TypeOK'
  BY <1>1, Actors, StopAssumption
  DEF Take, Car, BoxInv, TypeOK, road, fsm, Times, Since, None
<1>4. HasBox'
  BY <1>1, <1>2 DEF Take, HasBox, road
<1>5. HeldBack' /\ EgoDone'
  BY <1>1 DEF Take, BoxInv, HeldBack, EgoDone, road, fsm
<1>6. HoldRuns'
  BY <1>1, StopAssumption DEF Take, BoxInv, TypeOK, Times, HoldRuns, road
<1> QED
  BY <1>3, <1>4, <1>5, <1>6 DEF BoxInv

LEMMA GoKeeps ==
  ASSUME BoxInv, NEW c \in Cars, Car(c), Go(c)
  PROVE  BoxInv'
<1>1. c \in released /\ UNCHANGED traffic
  BY DEF Go
<1>2. /\ at' \in [Vehicle -> Away .. Gone] /\ moving' \in [Vehicle -> BOOLEAN]
      /\ dither' \in 0 .. Dither /\ restAt' \in [Vehicle -> Since]
      /\ \A u \in Vehicle \ {c} : at'[u] = at[u]
      /\ at'[c] = at[c] \/ (at[c] # Gone /\ at'[c] = at[c] + 1)
  BY GoMoves DEF BoxInv
<1>3. TypeOK'
  BY <1>1, <1>2, Actors DEF Car, BoxInv, TypeOK, traffic, fsm, Times, Since
<1>4. HeldBack'
  BY <1>1, <1>2, Actors DEF BoxInv, HeldBack, traffic
<1>5. HasBox'
  BY <1>1, <1>2, Actors DEF BoxInv, HasBox, traffic, TypeOK
<1>6. HoldRuns'
  BY <1>1, <1>2, Actors DEF BoxInv, HoldRuns, TypeOK, traffic, Car
<1>7. EgoDone'
  BY <1>2, Actors DEF BoxInv, EgoDone, Car, fsm
<1> QED
  BY <1>3, <1>4, <1>5, <1>6, <1>7 DEF BoxInv

\* What the ego does on the road, action by action.
LEMMA EgoOnRoad ==
  ASSUME BoxInv, EgoMoves
  PROVE  /\ at' \in [Vehicle -> Away .. Gone] /\ moving' \in [Vehicle -> BOOLEAN]
         /\ dither' \in 0 .. Dither /\ restAt' \in [Vehicle -> Since]
         /\ \A u \in Cars : /\ at'[u] = at[u] /\ moving'[u] = moving[u]
                            /\ restAt'[u] = restAt[u]
         /\ EgoDone'
<1>t. TypeOK /\ Ego \in Vehicle /\ \A u \in Cars : u \in Vehicle /\ u # Ego
  BY Actors DEF BoxInv
<1>1. CASE EgoComes
  BY <1>1, <1>t, ApproachMoves DEF EgoComes, EgoDone, Zone, Gone
<1>2. CASE EgoWaits
  BY <1>2, <1>t DEF EgoWaits, road, BoxInv, EgoDone, TypeOK
<1>3. CASE EgoCreeps
  <2>1. CASE UNCHANGED road
    BY <1>3, <2>1, <1>t DEF EgoCreeps, road, BoxInv, EgoDone, TypeOK
  <2>2. CASE MoveOff(Ego)
    BY <1>3, <2>2, <1>t DEF EgoCreeps, MoveOff, BoxInv, EgoDone, TypeOK
  <2>3. CASE at[Ego] # DropsIn /\ Advance(Ego)
    BY <1>3, <2>3, <1>t DEF EgoCreeps, Advance, BoxInv, EgoDone, TypeOK, Away, Past, Gone
  <2>4. CASE Dawdle
    BY <1>3, <2>4, <1>t, StopAssumption DEF EgoCreeps, Dawdle, BoxInv, EgoDone, TypeOK
  <2> QED
    BY <1>3, <2>1, <2>2, <2>3, <2>4 DEF EgoCreeps
<1>4. CASE EgoBrakes
  <2>1. /\ moving' = [moving EXCEPT ![Ego] = FALSE] /\ UNCHANGED <<dither, restAt>>
        /\ at' = at \/ (at[Ego] = Zone /\ at' = [at EXCEPT ![Ego] = Over])
        /\ UNCHANGED target
    BY <1>4 DEF EgoBrakes
  <2>2. moving' \in [Vehicle -> BOOLEAN] /\ \A u \in Cars : moving'[u] = moving[u]
    BY <2>1, <1>t DEF TypeOK
  <2>3. at' \in [Vehicle -> Away .. Gone] /\ (\A u \in Cars : at'[u] = at[u]) /\ EgoDone'
    BY <2>1, <1>t DEF BoxInv, EgoDone, TypeOK, Away, Zone, Over, Gone
  <2> QED
    BY <2>1, <2>2, <2>3, <1>t DEF TypeOK
<1>5. CASE EgoCruises
  <2>1. CASE Advance(Ego)
    BY <1>5, <2>1, <1>t DEF EgoCruises, Advance, EgoDone, TypeOK, Away, Gone
  <2>2. CASE Dawdle
    BY <1>5, <2>2, <1>t, StopAssumption DEF EgoCruises, Dawdle, EgoDone, TypeOK
  <2> QED
    BY <1>5, <2>1, <2>2 DEF EgoCruises
<1>6. CASE EgoGone
  BY <1>6, <1>t DEF EgoGone, road, fsm, BoxInv, EgoDone, TypeOK
<1> QED
  BY <1>1, <1>2, <1>3, <1>4, <1>5, <1>6 DEF EgoMoves

LEMMA TrackTyped ==
  ASSUME TypeOK
  PROVE  Tracked \in [Cars -> Since] /\ OwnWait \in Since
BY DEF Tracked, OwnWait, TypeOK, Since

\* What it keeps for itself.
LEMMA EgoTyped ==
  ASSUME BoxInv, EgoMoves
  PROVE  /\ state' \in {"cruise", "approach", "stop", "creep"} /\ target' \in BOOLEAN
         /\ egoDwell' \in 0 .. StopDwell /\ stoppedAt' \in Since
         /\ waiters' \in [Cars -> Since] /\ clearSince' \in Since
<1>1. TypeOK /\ Tracked \in [Cars -> Since] /\ OwnWait \in Since
  BY TrackTyped DEF BoxInv
<1>2. CASE EgoComes
  BY <1>1, <1>2 DEF EgoComes, Track, TypeOK
<1>3. CASE EgoWaits
  <2>1. egoDwell' \in 0 .. StopDwell
    BY <1>1, <1>3, StopAssumption DEF EgoWaits, TypeOK
  <2>2. clearSince' \in Since
    BY <1>1, <1>3 DEF EgoWaits, TypeOK, Since
  <2> QED
    BY <1>1, <1>3, <2>1, <2>2 DEF EgoWaits, Track, TypeOK
<1>4. CASE EgoCreeps
  BY <1>1, <1>4 DEF EgoCreeps, Track, TypeOK
<1>5. CASE EgoBrakes
  BY <1>1, <1>5 DEF EgoBrakes, Track, TypeOK
<1>6. CASE EgoCruises
  <2>1. 0 \in 0 .. StopDwell /\ None \in Since
    BY StopAssumption DEF Since
  <2> QED
    BY <1>6, <2>1 DEF EgoCruises
<1>7. CASE EgoGone
  BY <1>1, <1>7 DEF EgoGone, fsm, TypeOK
<1> QED
  BY <1>2, <1>3, <1>4, <1>5, <1>6, <1>7 DEF EgoMoves

LEMMA EgoKeeps ==
  ASSUME BoxInv, EgoMoves
  PROVE  BoxInv'
<1>1. UNCHANGED <<clock, arm, far, boxed, egoWaiting, traffic>> /\ turn' = 0
  BY DEF EgoMoves
<1>2. TypeOK'
  BY <1>1, EgoOnRoad, EgoTyped, StopAssumption DEF BoxInv, TypeOK, traffic, Times, Since
<1>3. HeldBack' /\ HasBox' /\ HoldRuns'
  BY <1>1, EgoOnRoad, Actors DEF BoxInv, TypeOK, HeldBack, HasBox, HoldRuns, traffic
<1> QED
  BY <1>2, <1>3, EgoOnRoad DEF BoxInv

LEMMA TickKeeps ==
  ASSUME BoxInv, Tick
  PROVE  BoxInv'
<1>1. UNCHANGED <<arm, far, road, traffic, fsm>>
  BY DEF Tick
<1>2. clock' \in Times /\ Times \subseteq Times' /\ egoWaiting' \in Since
  BY StopAssumption DEF Tick, EgoNoted, BoxInv, TypeOK, Times, Since
<1>3. TypeOK'
  BY <1>1, <1>2, StopAssumption DEF Tick, BoxInv, TypeOK, road, traffic, fsm, Times, Since
<1>4. HoldRuns'
  BY <1>1, StopAssumption DEF Tick, InTime, BoxInv, TypeOK, Times, HoldRuns, road, traffic
<1>5. HeldBack' /\ HasBox' /\ EgoDone'
  BY <1>1 DEF BoxInv, HeldBack, HasBox, EgoDone, road, traffic, fsm
<1> QED
  BY <1>3, <1>4, <1>5 DEF BoxInv

LEMMA BoxStep == BoxInv /\ [Next]_vars => BoxInv'
<1> SUFFICES ASSUME BoxInv, [Next]_vars PROVE BoxInv'
  OBVIOUS
<1>1. CASE Tick
  BY <1>1, TickKeeps
<1>2. CASE \E c \in Cars : Car(c)
  <2>1. PICK c \in Cars : Car(c)
    BY <1>2
  <2> QED
    BY <2>1, ComeKeeps, WaitKeeps, TakeKeeps, GoKeeps DEF Car
<1>3. CASE EgoMoves
  BY <1>3, EgoKeeps
<1>4. CASE UNCHANGED vars
  BY <1>4 DEF vars, road, traffic, fsm, BoxInv, TypeOK, HeldBack, HasBox, HoldRuns, EgoDone,
              Times, Since
<1> QED
  BY <1>1, <1>2, <1>3, <1>4 DEF Next, Ends

-----------------------------------------------------------------------------
(* The ego and the cars.  Either may be let go without the other's           *)
(* knowledge, but not without its own look at the road: a car looks when it  *)
(* is let go, the ego each time it moves up.  A car let go is moving one tick *)
(* later, and an ego that moves keeps every car from being let go, so one of *)
(* the two sees the other before both are in the box.                        *)

Holds(c) == c \in released /\ at[c] # Gone

\* The line is the ego's target until CLEARED_M past it, and no longer.
EgoLine ==
  /\ target => at[Ego] <= DropsIn
  /\ ~target => at[Ego] >= DropsIn

\* The traffic knows of an ego that waited, until it is past the centre.
Noticed ==
  /\ turn # 0 /\ Waits(Ego) => egoWaiting # None
  /\ at[Ego] \in {Over, Inside} => egoWaiting # None
  /\ target /\ state \in {"creep", "stop"} => egoWaiting # None

LetGoAtLine == \A c \in released : at[c] >= Zone

\* A car that has the box stands still only until its next turn, and the ego
\* was not rolling in when it was let go.
JustLetGo ==
  ~far => \A c \in Cars :
    Holds(c) /\ ~moving[c] => at[c] = Zone /\ (turn \notin 1 .. c => turn = 0 \/ ~RollingIn)

\* An ego in the box has it alone.
Alone == ~far /\ InBox(Ego) => \A c \in released : at[c] = Gone

MeetInv == EgoLine /\ Noticed /\ LetGoAtLine /\ JustLetGo /\ Alone

LEMMA Stages ==
  /\ Away = 0 /\ Zone = 1 /\ Over = 2 /\ Inside = 3 /\ Past = 4 /\ Gone = 5
  /\ DropsIn \in {2, 3} /\ (~far => DropsIn = 3)
BY DEF Away, Zone, Over, Inside, Past, Gone, DropsIn

LEMMA InitMeet == Init => MeetInv
<1> SUFFICES ASSUME Init PROVE MeetInv
  OBVIOUS
<1>1. at[Ego] = 0 /\ target /\ state = "approach" /\ released = {} /\ turn = 0
  BY Actors DEF Init, Away
<1> QED
  BY <1>1, Stages
  DEF MeetInv, EgoLine, Noticed, LetGoAtLine, JustLetGo, Alone, Holds, InBox, Waits

\* A car's move leaves the ego as it is.
LEMMA CarMeets ==
  ASSUME BoxInv, MeetInv, NEW c \in Cars, Car(c),
         \A u \in Vehicle \ {c} : at'[u] = at[u] /\ moving'[u] = moving[u]
  PROVE  /\ EgoLine' /\ Noticed'
         /\ at'[Ego] = at[Ego] /\ RollingIn' = RollingIn /\ InBox(Ego)' = InBox(Ego)
         /\ turn = c /\ turn' = c + 1 /\ turn # 0 /\ far' = far
         /\ \A d \in Cars \ {c} : at'[d] = at[d] /\ moving'[d] = moving[d]
<1>1. /\ at'[Ego] = at[Ego] /\ moving'[Ego] = moving[Ego]
      /\ \A d \in Cars \ {c} : at'[d] = at[d] /\ moving'[d] = moving[d]
  BY Actors
<1>2. /\ UNCHANGED <<clock, arm, far, boxed, egoWaiting, fsm>>
      /\ turn = c /\ turn' = c + 1 /\ turn # 0
  BY Actors DEF Car
<1>3. EgoLine'
  BY <1>1, <1>2 DEF MeetInv, EgoLine, DropsIn, fsm
<1>4. Noticed'
  BY <1>1, <1>2 DEF MeetInv, Noticed, Waits, fsm
<1>5. RollingIn' = RollingIn
  BY <1>1, <1>2 DEF RollingIn
<1>6. InBox(Ego)' = InBox(Ego)
  BY <1>1 DEF InBox
<1> QED
  BY <1>1, <1>2, <1>3, <1>4, <1>5, <1>6

\* For the other cars it is one turn later.
LEMMA OthersWait ==
  ASSUME BoxInv, MeetInv, NEW c \in Cars, Car(c), ~far, NEW d \in Cars, d # c,
         \A u \in Vehicle \ {c} : at'[u] = at[u] /\ moving'[u] = moving[u],
         d \in released' <=> d \in released, Holds(d)', ~moving'[d]
  PROVE  at'[d] = Zone /\ (turn' \notin 1 .. d => turn' = 0 \/ ~RollingIn')
<1>1. /\ RollingIn' = RollingIn /\ turn = c /\ turn' = c + 1 /\ turn # 0
      /\ at'[d] = at[d] /\ moving'[d] = moving[d]
  BY CarMeets
<1>2. at[d] = Zone /\ (turn \notin 1 .. d => turn = 0 \/ ~RollingIn)
  BY <1>1 DEF MeetInv, JustLetGo, Holds
<1>3. turn' \notin 1 .. d => turn \notin 1 .. d
  BY <1>1, Actors
<1> QED
  BY <1>1, <1>2, <1>3

LEMMA ComeMeets ==
  ASSUME BoxInv, MeetInv, NEW c \in Cars, Car(c), Come(c)
  PROVE  MeetInv'
<1>1. at[c] <= Zone /\ c \notin released /\ Approach(c) /\ UNCHANGED traffic
  BY DEF Come, BoxInv, HeldBack
<1>2. \A u \in Vehicle \ {c} : at'[u] = at[u] /\ moving'[u] = moving[u]
  BY <1>1, ApproachMoves, Actors DEF BoxInv
<1>3. released' = released /\ released \subseteq Cars
  BY <1>1 DEF traffic, BoxInv, TypeOK
<1>4. LetGoAtLine'
  BY <1>1, <1>2, <1>3, CarMeets DEF MeetInv, LetGoAtLine, Zone
<1>5. JustLetGo'
  BY <1>1, <1>2, <1>3, OthersWait, CarMeets DEF JustLetGo, Holds
<1>6. Alone'
  BY <1>1, <1>2, <1>3, CarMeets DEF MeetInv, Alone, Gone
<1> QED
  BY <1>2, <1>4, <1>5, <1>6, CarMeets DEF MeetInv

LEMMA WaitMeets ==
  ASSUME BoxInv, MeetInv, NEW c \in Cars, Car(c), Wait(c)
  PROVE  MeetInv'
<1>1. UNCHANGED road /\ released' = released /\ c \notin released
  BY DEF Wait
<1>2. \A u \in Vehicle \ {c} : at'[u] = at[u] /\ moving'[u] = moving[u]
  BY <1>1 DEF road
<1>3. LetGoAtLine'
  BY <1>1 DEF MeetInv, LetGoAtLine, road, Zone
<1>4. JustLetGo'
  BY <1>1, <1>2, OthersWait, CarMeets DEF JustLetGo, Holds
<1>5. Alone'
  BY <1>1, <1>2, CarMeets DEF MeetInv, Alone, road, Gone
<1> QED
  BY <1>2, <1>3, <1>4, <1>5, CarMeets DEF MeetInv

\* A car is let go only while the box is empty and the ego does not roll.
LEMMA TakeMeets ==
  ASSUME BoxInv, MeetInv, NEW c \in Cars, Car(c), Take(c)
  PROVE  MeetInv'
<1>1. /\ UNCHANGED road /\ released' = released \cup {c}
      /\ at[c] = Zone /\ ~RollingIn /\ ~InBox(Ego)
  BY Actors DEF Take, Dwelt, AtLine, Waits, MayTake, BoxBusy
<1>2. \A u \in Vehicle \ {c} : at'[u] = at[u] /\ moving'[u] = moving[u]
  BY <1>1 DEF road
<1>3. LetGoAtLine'
  BY <1>1 DEF MeetInv, LetGoAtLine, road, Zone
<1>4. JustLetGo'
  <2> SUFFICES ASSUME ~far, NEW d \in Cars, Holds(d)', ~moving'[d]
               PROVE  at'[d] = Zone /\ (turn' \notin 1 .. d => turn' = 0 \/ ~RollingIn')
    BY <1>2, CarMeets DEF JustLetGo, Zone
  <2>1. CASE d = c
    BY <1>1, <1>2, <2>1, CarMeets DEF road
  <2>2. CASE d # c
    BY <1>1, <1>2, <2>2, OthersWait
  <2> QED BY <2>1, <2>2
<1>5. Alone'
  BY <1>1, <1>2, CarMeets DEF Alone
<1> QED
  BY <1>2, <1>3, <1>4, <1>5, CarMeets DEF MeetInv

\* A car that has the box yields to nobody: there is nobody in it.
LEMMA GoMeets ==
  ASSUME BoxInv, MeetInv, NEW c \in Cars, Car(c), Go(c)
  PROVE  MeetInv'
<1>1. c \in released /\ UNCHANGED traffic /\ c \in Vehicle /\ c # Ego
  BY Actors DEF Go
<1>2. /\ \A u \in Vehicle \ {c} : at'[u] = at[u] /\ moving'[u] = moving[u]
      /\ at'[c] = at[c] \/ (at[c] # Gone /\ at'[c] = at[c] + 1)
      /\ at[c] \in Away .. Gone
  BY <1>1, GoMoves DEF BoxInv, TypeOK
<1>3. released' = released /\ released \subseteq Cars
  BY <1>1 DEF traffic, BoxInv, TypeOK
<1>4. LetGoAtLine'
  BY <1>1, <1>2, <1>3, CarMeets DEF MeetInv, LetGoAtLine, Zone, Away, Gone
<1>5. Alone'
  <2> SUFFICES ASSUME ~far, InBox(Ego), NEW d \in released PROVE at'[d] = 5
    BY <1>2, <1>3, CarMeets, Stages DEF Alone
  <2>1. at[d] = 5
    BY Stages DEF MeetInv, Alone
  <2> QED
    BY <1>2, <1>3, <2>1, CarMeets, Stages
<1>6. ~far => ~MustYield(c)
  <2> SUFFICES ASSUME ~far, at[c] = Over, NEW o \in boxed, InBox(o) PROVE FALSE
    BY DEF MustYield
  <2>1. CASE o = Ego
    BY <1>1, <2>1, Stages DEF MeetInv, Alone
  <2>2. CASE o \in Cars
    <3>1. o \in released /\ at[o] # Gone /\ at[o] # Over
      BY <2>2, Stages DEF BoxInv, HeldBack, InBox
    <3>2. holder = o /\ holder = c
      BY <1>1, <3>1, Stages DEF BoxInv, HasBox
    <3> QED BY <3>1, <3>2
  <2>3. o \in Cars \cup {Ego}
    BY StopAssumption DEF BoxInv, TypeOK, Cars, Vehicle, Ego
  <2> QED BY <2>1, <2>2, <2>3
<1>7. ~far /\ Holds(c)' => moving'[c]
  <2> SUFFICES ASSUME ~far, at'[c] # Gone PROVE moving'[c]
    BY DEF Holds, Gone
  <2>1. moving \in [Vehicle -> BOOLEAN]
    BY DEF BoxInv, TypeOK
  <2>2. CASE MoveOff(c)
    BY <1>1, <2>1, <2>2 DEF MoveOff
  <2>3. CASE moving[c] /\ (Advance(c) \/ Dawdle)
    BY <1>1, <2>1, <2>3 DEF Advance, Dawdle
  <2>4. CASE at[c] = Gone /\ UNCHANGED road
    BY <2>4 DEF road
  <2> QED BY <1>6, <2>2, <2>3, <2>4 DEF Go
<1>8. JustLetGo'
  BY <1>1, <1>2, <1>3, <1>7, OthersWait, CarMeets DEF JustLetGo, Zone
<1> QED
  BY <1>2, <1>4, <1>5, <1>8, CarMeets DEF MeetInv

\* The ego looks each time it moves up, until it is in the box: a car that was
\* let go moves by then, or is still to find the ego rolling in.
LEMMA EgoMeets ==
  ASSUME BoxInv, MeetInv, EgoMoves
  PROVE  MeetInv'
<1>1. /\ UNCHANGED <<clock, arm, far, boxed, egoWaiting, traffic>>
      /\ turn = N + 1 /\ turn' = 0 /\ DropsIn' = DropsIn
  BY DEF EgoMoves, Ego, DropsIn
<1>2. /\ released' = released /\ released \subseteq Cars
      /\ \A c \in Cars : at'[c] = at[c] /\ moving'[c] = moving[c]
  BY <1>1, EgoOnRoad DEF traffic, BoxInv, TypeOK
<1>3. /\ Ego \in Vehicle /\ at \in [Vehicle -> 0 .. 5] /\ at[Ego] \in 0 .. 5
      /\ N \in Nat /\ moving \in [Vehicle -> BOOLEAN]
  BY Actors, StopAssumption, Stages DEF BoxInv, TypeOK
<1>4. LetGoAtLine'
  BY <1>2 DEF MeetInv, LetGoAtLine, Zone
<1>5. JustLetGo'
  <2> SUFFICES ASSUME ~far, NEW d \in Cars, Holds(d)', ~moving'[d] PROVE at'[d] = Zone
    BY <1>1 DEF JustLetGo, Zone
  <2> QED
    BY <1>2 DEF MeetInv, JustLetGo, Holds, Gone
<1>6. \/ at'[Ego] = at[Ego]
      \/ at[Ego] <= 1 /\ at'[Ego] <= 2 /\ at'[Ego] \in 0 .. 5
      \/ EgoCreeps /\ moving[Ego] /\ at[Ego] # DropsIn /\ at'[Ego] = at[Ego] + 1
         /\ \E near \in SUBSET Nearing : Clear(near)
      \/ EgoCruises /\ at'[Ego] = at[Ego] + 1
  <2>1. CASE EgoComes
    BY <1>3, <2>1, ApproachMoves, Stages DEF EgoComes, BoxInv
  <2>2. CASE EgoWaits \/ EgoGone
    BY <2>2 DEF EgoWaits, EgoGone, road
  <2>3. CASE EgoCreeps
    <3>1. CASE UNCHANGED road
      BY <3>1 DEF road
    <3>2. CASE MoveOff(Ego) \/ Dawdle
      BY <3>2 DEF MoveOff, Dawdle
    <3>3. CASE \E near \in SUBSET Nearing :
                 Clear(near) /\ moving[Ego] /\ at[Ego] # DropsIn /\ Advance(Ego)
      BY <1>3, <2>3, <3>3 DEF Advance
    <3> QED
      BY <2>3, <3>1, <3>2, <3>3 DEF EgoCreeps
  <2>4. CASE EgoBrakes
    BY <1>3, <2>4, Stages DEF EgoBrakes
  <2>5. CASE EgoCruises
    BY <1>3, <2>5 DEF EgoCruises, Advance, Dawdle
  <2> QED
    BY <2>1, <2>2, <2>3, <2>4, <2>5 DEF EgoMoves
<1>7. /\ EgoComes  => target /\ target' /\ at'[Ego] <= 1 /\ state' = "approach"
      /\ EgoWaits  => target /\ target' /\ at'[Ego] = at[Ego] /\ at[Ego] # 0 /\ ~moving[Ego]
      /\ EgoCreeps => target /\ target' /\ state = "creep"
      /\ EgoBrakes => target /\ target' /\ state = "stop" /\ state' = "approach"
      /\ EgoCruises => ~target' /\ (~target \/ at[Ego] = DropsIn) /\ at[Ego] # 5
      /\ EgoGone   => target' = target /\ state' = state /\ at'[Ego] = at[Ego]
      /\ EgoComes \/ EgoWaits \/ EgoCreeps \/ EgoBrakes \/ EgoCruises \/ EgoGone
  <2>1. EgoComes => at'[Ego] <= 1
    BY <1>3, ApproachMoves, Stages DEF EgoComes, BoxInv
  <2> QED
    BY <2>1, Stages DEF EgoMoves, EgoComes, EgoWaits, EgoCreeps, EgoBrakes, EgoCruises, EgoGone,
       road, fsm
<1>8. /\ target => at[Ego] <= DropsIn
      /\ ~target => at[Ego] >= DropsIn
  BY DEF MeetInv, EgoLine
<1>9. /\ target' => at'[Ego] <= DropsIn
      /\ ~target' => at'[Ego] >= DropsIn
  BY <1>3, <1>6, <1>7, <1>8, Stages
<1>10. Noticed'
  <2>1. at[Ego] \in {2, 3} => egoWaiting # None
    BY Stages DEF MeetInv, Noticed
  <2>2. target /\ state \in {"creep", "stop"} => egoWaiting # None
    BY DEF MeetInv, Noticed
  <2>3. EgoWaits => egoWaiting # None
    <3>1. EgoWaits => at[Ego] \in {1, 2, 3} /\ ~moving[Ego]
      BY <1>3, <1>7, <1>8, Stages
    <3>2. Waits(Ego) => egoWaiting # None
      BY <1>1, <1>3 DEF MeetInv, Noticed
    <3> QED
      BY <2>1, <3>1, <3>2, Stages DEF Waits
  <2>4. at'[Ego] \in {2, 3} => egoWaiting # None
    BY <1>3, <1>6, <1>7, <1>8, <2>1, <2>2, <2>3, Stages
  <2>5. target' /\ state' \in {"creep", "stop"} => egoWaiting # None
    BY <1>7, <2>2, <2>3
  <2> QED
    BY <1>1, <2>4, <2>5, Stages DEF Noticed
<1>11. ASSUME ~far, EgoCreeps, moving[Ego], at[Ego] = 2, NEW near \in SUBSET Nearing, Clear(near),
              NEW c \in released, at[c] # Gone
       PROVE  FALSE
  <2>1. c \in Cars /\ c \in Int /\ at[c] \in 1 .. 4 /\ c \notin Nearing
    BY <1>2, <1>3, <1>11, Actors, Stages DEF MeetInv, LetGoAtLine, Nearing
  <2>2. CASE moving[c]
    BY <1>11, <2>1, <2>2, Stages DEF Clear
  <2>3. CASE ~moving[c]
    <3>1. Holds(c) /\ turn \notin 1 .. c /\ turn # 0
      BY <1>1, <1>3, <1>11, <2>1 DEF Holds, Cars
    <3>2. ~RollingIn
      BY <1>11, <2>1, <2>3, <3>1 DEF MeetInv, JustLetGo
    <3>3. RollingIn
      BY <1>11, Stages DEF RollingIn, MeetInv, Noticed
    <3> QED BY <3>2, <3>3
  <2> QED BY <2>2, <2>3
<1>12. Alone'
  <2> SUFFICES ASSUME ~far, at'[Ego] \in {3, 4}, NEW c \in released, at[c] # Gone PROVE FALSE
    BY <1>1, <1>2, Stages DEF Alone, InBox, Gone
  <2>1. at[Ego] \notin {3, 4}
    BY Stages DEF MeetInv, Alone, InBox
  <2>2. EgoCreeps /\ moving[Ego] /\ at[Ego] = 2 /\ \E near \in SUBSET Nearing : Clear(near)
    BY <1>3, <1>6, <1>7, <1>8, <2>1, Stages
  <2> QED BY <1>11, <2>2
<1>13. EgoLine'
  BY <1>1, <1>9 DEF EgoLine
<1> QED
  BY <1>4, <1>5, <1>10, <1>12, <1>13 DEF MeetInv

LEMMA TickMeets ==
  ASSUME BoxInv, MeetInv, Tick
  PROVE  MeetInv'
<1>1. /\ UNCHANGED <<arm, far, road, traffic, fsm>> /\ turn = 0 /\ turn' = 1
      /\ egoWaiting' = EgoNoted
  BY DEF Tick
<1>2. at[Ego] \in 0 .. 5 /\ clock \in Nat /\ clock + 1 # None
  BY Actors, Stages, StopAssumption DEF BoxInv, TypeOK, Times, None
<1>3. /\ Waits(Ego) => egoWaiting' # None
      /\ egoWaiting # None /\ at[Ego] <= 3 => egoWaiting' # None
  BY <1>1, <1>2, Stages DEF EgoNoted, Waits
<1>4. Noticed'
  BY <1>1, <1>2, <1>3, Stages DEF MeetInv, EgoLine, Noticed, Waits, road, fsm
<1>5. JustLetGo'
  <2>1. \A d \in Cars : turn' \in 1 .. d
    BY <1>1, StopAssumption DEF Cars
  <2> QED
    BY <1>1, <2>1 DEF MeetInv, JustLetGo, Holds, road, traffic
<1>6. EgoLine' /\ LetGoAtLine' /\ Alone'
  BY <1>1 DEF MeetInv, EgoLine, LetGoAtLine, Alone, InBox, DropsIn, road, traffic, fsm
<1> QED
  BY <1>4, <1>5, <1>6 DEF MeetInv

LEMMA MeetStep == BoxInv /\ MeetInv /\ [Next]_vars => MeetInv'
<1> SUFFICES ASSUME BoxInv, MeetInv, [Next]_vars PROVE MeetInv'
  OBVIOUS
<1>1. CASE Tick
  BY <1>1, TickMeets
<1>2. CASE \E c \in Cars : Car(c)
  <2>1. PICK c \in Cars : Car(c)
    BY <1>2
  <2> QED
    BY <2>1, ComeMeets, WaitMeets, TakeMeets, GoMeets DEF Car
<1>3. CASE EgoMoves
  BY <1>3, EgoMeets
<1>4. CASE UNCHANGED vars
  <2>1. UNCHANGED <<turn, at, moving, far, egoWaiting, released, target, state>>
    BY <1>4 DEF vars, road, traffic, fsm
  <2> QED
    BY <2>1 DEF MeetInv, EgoLine, Noticed, LetGoAtLine, JustLetGo, Alone, Holds, InBox,
       Waits, RollingIn, DropsIn
<1> QED
  BY <1>1, <1>2, <1>3, <1>4 DEF Next, Ends

-----------------------------------------------------------------------------
(* The clocks.  A halt is noted up to three times: by the car itself in the *)
(* tick after it (_waiting), by the planner at once (waiters), and of the   *)
(* ego by the traffic and by itself in the tick after it (_ego_waiting,     *)
(* stopped_at_s).  Each note is the halt plus the same delay for everybody  *)
(* it is compared with.                                                     *)

\* The traffic's note of its own car.
OwnNote(c) ==
  /\ restAt[c] \in Times
  /\ waiting[c] = None => restAt[c] = IF turn \in 1 .. c THEN clock - 1 ELSE clock
  /\ waiting[c] # None => waiting[c] = restAt[c] + 1 /\ waiting[c] <= clock

\* The planner's note of it.
EgoNote(c) ==
  target => \/ waiters[c] = restAt[c]
            \/ waiters[c] = None /\ turn \in c + 1 .. N + 1 /\ restAt[c] = clock

CarClock(c) ==
  /\ Waits(c) => OwnNote(c) /\ EgoNote(c)
  /\ ~Waits(c) => restAt[c] = None /\ waiting[c] = None /\ (target => waiters[c] = None)
  /\ at[c] = Away => moving[c]

\* The traffic's note of the ego, and when it is still to be taken.
NoteOfEgo ==
  /\ egoWaiting # None => restAt[Ego] # None /\ egoWaiting = restAt[Ego] + 1
  /\ restAt[Ego] # None /\ at[Ego] <= Inside /\ egoWaiting = None =>
       turn = 0 /\ Waits(Ego) /\ restAt[Ego] = clock
  /\ Waits(Ego) => restAt[Ego] # None

\* The ego's own note.
EgoStopped ==
  target => /\ restAt[Ego] = None => stoppedAt = None
            /\ restAt[Ego] # None =>
                 \/ stoppedAt = restAt[Ego] + 1
                 \/ /\ stoppedAt = None /\ Waits(Ego)
                    /\ restAt[Ego] = IF turn = 0 THEN clock ELSE clock - 1

CarClocks == \A c \in Cars \ released : CarClock(c)
ClockInv  == CarClocks /\ NoteOfEgo /\ EgoStopped

LEMMA Numbers ==
  ASSUME BoxInv
  PROVE  /\ clock \in Nat /\ turn \in Int /\ N \in Nat /\ Ego = N + 1 /\ None = -1
         /\ StopTie \in Nat /\ Times \subseteq Nat /\ clock \in Times
         /\ \A v \in Vehicle : restAt[v] \in Int /\ restAt[v] >= -1 /\ at[v] \in 0 .. 5
         /\ \A c \in Cars : c \in 1 .. N /\ waiting[c] \in Int /\ waiters[c] \in Int
         /\ egoWaiting \in Int /\ stoppedAt \in Int
         /\ moving \in [Vehicle -> BOOLEAN] /\ restAt \in [Vehicle -> Int]
BY StopAssumption, Stages DEF BoxInv, TypeOK, Times, Since, None, Cars, Ego

LEMMA InitClock == Init => ClockInv
<1> SUFFICES ASSUME Init PROVE ClockInv
  OBVIOUS
<1>1. \A v \in Vehicle : restAt[v] = None /\ ~Waits(v) /\ moving[v]
  BY DEF Init, Waits
<1>2. \A c \in Cars : waiting[c] = None /\ waiters[c] = None
  BY DEF Init
<1>3. egoWaiting = None /\ stoppedAt = None
  BY DEF Init
<1> QED
  BY <1>1, <1>2, <1>3, Actors DEF ClockInv, CarClocks, CarClock, NoteOfEgo, EgoStopped

\* A car's move does not touch the others' notes, nor the ego's.
LEMMA CarTicks ==
  ASSUME BoxInv, ClockInv, NEW c \in Cars, Car(c),
         \A u \in Vehicle \ {c} : /\ at'[u] = at[u] /\ moving'[u] = moving[u]
                                  /\ restAt'[u] = restAt[u],
         \A d \in Cars \ {c} : waiting'[d] = waiting[d],
         released' \in {released, released \cup {c}},
         c \notin released' => CarClock(c)'
  PROVE  ClockInv'
<1>1. /\ clock' = clock /\ egoWaiting' = egoWaiting /\ target' = target
      /\ stoppedAt' = stoppedAt /\ waiters' = waiters
      /\ turn = c /\ turn' = c + 1
  BY DEF Car, fsm
<1>2. /\ at'[Ego] = at[Ego] /\ moving'[Ego] = moving[Ego] /\ restAt'[Ego] = restAt[Ego]
      /\ \A d \in Cars \ {c} : /\ at'[d] = at[d] /\ moving'[d] = moving[d]
                               /\ restAt'[d] = restAt[d]
  BY Actors
<1>3. Waits(Ego)' <=> Waits(Ego)
  BY <1>2 DEF Waits
<1>4. NoteOfEgo'
  BY <1>1, <1>2, <1>3, Numbers DEF ClockInv, NoteOfEgo
<1>5. EgoStopped'
  BY <1>1, <1>2, <1>3, Numbers DEF ClockInv, EgoStopped
<1>6. ASSUME NEW d \in Cars \ {c}, d \notin released PROVE CarClock(d)'
  <2>1. CarClock(d) /\ (Waits(d)' <=> Waits(d))
    BY <1>2, <1>6 DEF ClockInv, CarClocks, Waits
  <2>2. Waits(d) /\ OwnNote(d) => OwnNote(d)'
    BY <1>1, <1>2, Numbers DEF OwnNote, Times
  <2>3. Waits(d) /\ EgoNote(d) => EgoNote(d)'
    BY <1>1, <1>2, Numbers DEF EgoNote
  <2> QED
    BY <1>1, <1>2, <2>1, <2>2, <2>3 DEF CarClock
<1> QED
  BY <1>4, <1>5, <1>6 DEF ClockInv, CarClocks

LEMMA ComeTicks ==
  ASSUME BoxInv, ClockInv, NEW c \in Cars, Car(c), Come(c)
  PROVE  ClockInv'
<1>1. c \notin released /\ ~Waits(c) /\ Approach(c) /\ UNCHANGED traffic /\ c \in Vehicle
  BY Actors DEF Come
<1>2. \A u \in Vehicle \ {c} : at'[u] = at[u] /\ moving'[u] = moving[u] /\ restAt'[u] = restAt[u]
  BY <1>1, ApproachMoves DEF BoxInv
<1>3. restAt[c] = None /\ waiting[c] = None /\ (target => waiters[c] = None)
  BY <1>1 DEF ClockInv, CarClocks, CarClock
<1>4. turn = c /\ turn' = c + 1 /\ clock' = clock /\ target' = target /\ waiters' = waiters
      /\ waiting' = waiting
  BY <1>1 DEF Car, fsm, traffic
<1>5. \/ restAt'[c] = restAt[c] /\ ~Waits(c)'
      \/ restAt'[c] = clock /\ Waits(c)'
  <2>1. CASE UNCHANGED road \/ Dawdle
    BY <1>1, <2>1 DEF road, Dawdle, Waits
  <2>2. CASE at[c] = Away /\ Advance(c)
    <3>1. moving[c]
      BY <1>1, <2>2 DEF ClockInv, CarClocks, CarClock
    <3> QED
      BY <2>2, <3>1 DEF Advance, Waits
  <2>3. CASE at[c] = Zone /\ Halt(c)
    BY <1>1, <1>3, <2>3, Numbers, Stages DEF Halt, Waits
  <2> QED
    BY <1>1, <2>1, <2>2, <2>3 DEF Approach
<1>6. at'[c] = Away => moving'[c]
  <2>1. at[c] = Away => moving[c]
    BY <1>1 DEF ClockInv, CarClocks, CarClock
  <2> QED
    BY <1>1, <2>1, Numbers, Stages DEF Approach, Advance, Halt, Dawdle, road
<1>7. CarClock(c)'
  BY <1>3, <1>4, <1>5, <1>6, Numbers DEF CarClock, OwnNote, EgoNote, Times
<1> QED
  BY <1>1, <1>2, <1>4, <1>7, CarTicks DEF traffic

LEMMA WaitTicks ==
  ASSUME BoxInv, ClockInv, NEW c \in Cars, Car(c), Wait(c)
  PROVE  ClockInv'
<1>1. /\ Waits(c) /\ c \notin released /\ released' = released /\ UNCHANGED road
      /\ waiting' = Noted(c) /\ c \in Vehicle
  BY Actors DEF Wait
<1>2. /\ turn = c /\ turn' = c + 1 /\ clock' = clock /\ target' = target /\ waiters' = waiters
      /\ UNCHANGED <<at, moving, restAt>>
  BY <1>1 DEF Car, fsm, road
<1>3. OwnNote(c) /\ EgoNote(c) /\ (at[c] = Away => moving[c])
  BY <1>1 DEF ClockInv, CarClocks, CarClock
<1>4. waiting'[c] = Mine(c) /\ \A d \in Cars \ {c} : waiting'[d] = waiting[d]
  BY <1>1 DEF Noted, BoxInv, TypeOK
<1>5. Mine(c) = restAt[c] + 1 /\ Mine(c) <= clock /\ restAt[c] \in Times
  BY <1>2, <1>3, Numbers DEF Mine, OwnNote
<1>6. EgoNote(c)'
  BY <1>2, <1>3, <1>5, Numbers DEF EgoNote
<1>7. OwnNote(c)'
  BY <1>2, <1>4, <1>5, Numbers DEF OwnNote, Times
<1>8. CarClock(c)'
  BY <1>1, <1>2, <1>3, <1>6, <1>7 DEF CarClock, Waits
<1> QED
  BY <1>1, <1>2, <1>4, <1>8, CarTicks

LEMMA TakeTicks ==
  ASSUME BoxInv, ClockInv, NEW c \in Cars, Car(c), Take(c)
  PROVE  ClockInv'
<1>1. /\ released' = released \cup {c} /\ UNCHANGED road
      /\ \A d \in Cars \ {c} : waiting'[d] = waiting[d]
  BY DEF Take, BoxInv, TypeOK
<1> QED
  BY <1>1, CarTicks DEF road

LEMMA GoTicks ==
  ASSUME BoxInv, ClockInv, NEW c \in Cars, Car(c), Go(c)
  PROVE  ClockInv'
<1>1. c \in released /\ released' = released /\ waiting' = waiting
  BY DEF Go, traffic
<1> QED
  BY <1>1, GoMoves, CarTicks DEF BoxInv

\* What the ego makes of its own halt, and the clock that note runs on.
LEMMA EgoTicks ==
  ASSUME BoxInv, MeetInv, ClockInv, EgoMoves
  PROVE  ClockInv'
<1>1. /\ turn = N + 1 /\ turn' = 0 /\ clock' = clock /\ egoWaiting' = egoWaiting
      /\ waiting' = waiting /\ released' = released
      /\ \A c \in Cars : at'[c] = at[c] /\ moving'[c] = moving[c] /\ restAt'[c] = restAt[c]
  BY EgoOnRoad DEF EgoMoves, Ego, traffic
<1>2. Ego \in Vehicle /\ at[Ego] \in 0 .. 5 /\ restAt[Ego] \in Int /\ N \in Nat
  BY Actors, Numbers
<1>3. target' => /\ target /\ waiters' = Tracked /\ stoppedAt' = OwnWait
  <2>1. at[Ego] = Gone => ~target
    BY DEF BoxInv, EgoDone
  <2> QED
    BY <2>1 DEF EgoMoves, EgoComes, EgoWaits, EgoCreeps, EgoBrakes, EgoCruises, EgoGone, Track, fsm
<1>4. \/ /\ restAt[Ego] = None /\ restAt'[Ego] = clock /\ at'[Ego] = at[Ego] /\ Waits(Ego)'
         /\ moving[Ego]
      \/ /\ restAt'[Ego] = restAt[Ego] /\ at'[Ego] >= at[Ego]
         /\ Waits(Ego)' => Waits(Ego) \/ (moving[Ego] /\ egoWaiting # None)
         /\ restAt[Ego] # None /\ at'[Ego] <= 3 /\ Waits(Ego) => egoWaiting # None
  <2>0. Waits(Ego) => egoWaiting # None
    BY <1>1, <1>2 DEF MeetInv, Noticed
  <2>1. CASE EgoComes
    <3>1. moving[Ego] /\ Approach(Ego) /\ ~Waits(Ego)
      BY <2>1 DEF EgoComes, Waits
    <3>2. CASE UNCHANGED road \/ Dawdle
      BY <1>2, <3>1, <3>2 DEF road, Dawdle, Waits
    <3>3. CASE at[Ego] = Away /\ Advance(Ego)
      BY <1>2, <3>1, <3>3, Numbers DEF Advance, Waits
    <3>4. CASE at[Ego] = Zone /\ Halt(Ego)
      BY <1>2, <3>1, <3>4, Numbers, Stages DEF Halt, Waits, MeetInv, Noticed, ClockInv, NoteOfEgo
    <3> QED
      BY <3>1, <3>2, <3>3, <3>4 DEF Approach
  <2>2. CASE EgoWaits \/ EgoGone
    BY <1>2, <2>0, <2>2 DEF EgoWaits, EgoGone, road, Waits
  <2>3. CASE EgoCreeps
    <3>1. CASE UNCHANGED road \/ Dawdle
      BY <1>2, <2>0, <3>1 DEF road, Dawdle, Waits
    <3>2. CASE MoveOff(Ego)
      BY <1>2, <2>0, <3>2, Numbers DEF MoveOff, Waits
    <3>3. CASE moving[Ego] /\ Advance(Ego)
      BY <1>2, <2>0, <3>3, Numbers DEF Advance, Waits
    <3> QED
      BY <2>3, <3>1, <3>2, <3>3 DEF EgoCreeps
  <2>4. CASE EgoBrakes
    <3>1. egoWaiting # None /\ moving[Ego]
      BY <2>4 DEF EgoBrakes, MeetInv, Noticed
    <3>2. restAt' = restAt /\ at'[Ego] >= at[Ego]
      BY <1>2, <2>4, Numbers, Stages DEF EgoBrakes, BoxInv, TypeOK
    <3> QED
      BY <3>1, <3>2
  <2>5. CASE EgoCruises
    <3>1. moving[Ego] /\ (Advance(Ego) \/ Dawdle)
      BY <2>5 DEF EgoCruises
    <3>2. CASE Advance(Ego)
      BY <1>2, <3>1, <3>2, Numbers DEF Advance, Waits
    <3>3. CASE Dawdle
      BY <1>2, <3>1, <3>3 DEF Dawdle, Waits
    <3> QED
      BY <3>1, <3>2, <3>3
  <2> QED
    BY <2>1, <2>2, <2>3, <2>4, <2>5 DEF EgoMoves
<1>5. /\ egoWaiting # None => restAt[Ego] # None /\ egoWaiting = restAt[Ego] + 1
      /\ restAt[Ego] # None /\ at[Ego] <= Inside => egoWaiting # None
      /\ Waits(Ego) => restAt[Ego] # None
  BY <1>1, Numbers DEF ClockInv, NoteOfEgo
<1>6. NoteOfEgo'
  <2>1. at'[Ego] \in Int /\ clock # None
    BY <1>2, EgoOnRoad, Numbers, Stages
  <2>2. egoWaiting' # None => restAt'[Ego] # None /\ egoWaiting' = restAt'[Ego] + 1
    BY <1>1, <1>4, <1>5
  <2>3. restAt'[Ego] # None /\ at'[Ego] <= 3 /\ egoWaiting' = None =>
          Waits(Ego)' /\ restAt'[Ego] = clock
    BY <1>1, <1>2, <1>4, <1>5, <2>1, Stages
  <2>4. Waits(Ego)' => restAt'[Ego] # None
    BY <1>4, <1>5, <2>1
  <2> QED
    BY <1>1, <2>2, <2>3, <2>4, Stages DEF NoteOfEgo
<1>7. EgoStopped'
  <2> SUFFICES ASSUME target'
               PROVE  /\ restAt'[Ego] = None => stoppedAt' = None
                      /\ restAt'[Ego] # None =>
                           \/ stoppedAt' = restAt'[Ego] + 1
                           \/ /\ stoppedAt' = None /\ Waits(Ego)' /\ restAt'[Ego] = clock
    BY <1>1 DEF EgoStopped
  <2>1. stoppedAt' = IF stoppedAt = None /\ Waits(Ego) THEN clock ELSE stoppedAt
    BY <1>3 DEF OwnWait
  <2>2. /\ restAt[Ego] = None => stoppedAt = None
        /\ restAt[Ego] # None =>
             \/ stoppedAt = restAt[Ego] + 1
             \/ stoppedAt = None /\ Waits(Ego) /\ restAt[Ego] = clock - 1
    BY <1>1, <1>2, <1>3, Numbers DEF ClockInv, EgoStopped
  <2> QED
    <3>1. CASE restAt[Ego] = None
      BY <1>4, <1>5, <2>1, <2>2, <3>1
    <3>2. CASE restAt[Ego] # None
      <4>1. restAt'[Ego] = restAt[Ego]
        BY <1>4, <3>2
      <4> QED
        BY <1>2, <2>1, <2>2, <3>2, <4>1, Numbers
    <3> QED BY <3>1, <3>2
<1>8. ASSUME NEW c \in Cars, c \notin released PROVE CarClock(c)'
  <2>1. CarClock(c) /\ (Waits(c)' <=> Waits(c)) /\ c \in 1 .. N
    BY <1>1, <1>8, Numbers DEF ClockInv, CarClocks, Waits
  <2>2. OwnNote(c) => OwnNote(c)'
    BY <1>1, <1>2, <2>1, Numbers DEF OwnNote, Times
  <2>3. target' => waiters'[c] = IF ~Facing(c) THEN None
                                 ELSE IF waiters[c] # None THEN waiters[c]
                                 ELSE IF Waits(c) THEN clock ELSE None
    BY <1>3 DEF Tracked
  <2>4. Waits(c) /\ EgoNote(c) => EgoNote(c)'
    <3> SUFFICES ASSUME Waits(c), EgoNote(c), target' PROVE waiters'[c] = restAt[c]
      BY <1>1 DEF EgoNote
    <3>1. Facing(c)
      BY Stages DEF Waits, Facing
    <3>2. waiters[c] = restAt[c] \/ (waiters[c] = None /\ restAt[c] = clock)
      BY <1>3 DEF EgoNote
    <3>3. restAt[c] # None
      BY <2>1, Numbers DEF CarClock, OwnNote
    <3> QED
      BY <2>3, <3>1, <3>2, <3>3
  <2>5. ~Waits(c) /\ target' => (waiters[c] = None => waiters'[c] = None)
    BY <2>3
  <2> QED
    BY <1>1, <1>3, <2>1, <2>2, <2>4, <2>5 DEF CarClock
<1> QED
  BY <1>1, <1>6, <1>7, <1>8 DEF ClockInv, CarClocks

LEMMA TickTicks ==
  ASSUME BoxInv, ClockInv, Tick
  PROVE  ClockInv'
<1>1. /\ turn = 0 /\ turn' = 1 /\ clock' = clock + 1 /\ egoWaiting' = EgoNoted
      /\ UNCHANGED <<at, moving, restAt, waiting, released, target, waiters, stoppedAt>>
      /\ Times' = Times
  BY DEF Tick, road, traffic, fsm, Times
<1>2. Ego \in Vehicle /\ at[Ego] \in 0 .. 5 /\ restAt[Ego] \in Int /\ (Waits(Ego)' <=> Waits(Ego))
  BY <1>1, Actors, Numbers DEF Waits
<1>3. NoteOfEgo'
  <2>1. /\ egoWaiting # None => restAt[Ego] # None /\ egoWaiting = restAt[Ego] + 1
        /\ restAt[Ego] # None /\ at[Ego] <= 3 /\ egoWaiting = None =>
             Waits(Ego) /\ restAt[Ego] = clock
        /\ Waits(Ego) => restAt[Ego] # None /\ at[Ego] = 1
    BY Stages DEF ClockInv, NoteOfEgo, Waits
  <2>2. egoWaiting' = IF egoWaiting # None THEN (IF at[Ego] >= 4 THEN None ELSE egoWaiting)
                      ELSE IF Waits(Ego) THEN clock + 1 ELSE None
    BY <1>1, Stages DEF EgoNoted
  <2>3. egoWaiting' # None => restAt[Ego] # None /\ egoWaiting' = restAt[Ego] + 1
    BY <2>1, <2>2
  <2>4. restAt[Ego] # None /\ at[Ego] <= 3 => egoWaiting' # None
    BY <1>2, <2>1, <2>2, Numbers
  <2> QED
    BY <1>1, <1>2, <2>1, <2>3, <2>4, Stages DEF NoteOfEgo
<1>4. EgoStopped'
  BY <1>1, <1>2, Numbers DEF ClockInv, EgoStopped
<1>5. ASSUME NEW c \in Cars, c \notin released PROVE CarClock(c)'
  <2>1. CarClock(c) /\ (Waits(c)' <=> Waits(c)) /\ c \in 1 .. N
    BY <1>1, <1>5, Numbers DEF ClockInv, CarClocks, Waits
  <2>2. OwnNote(c) => OwnNote(c)'
    BY <1>1, <2>1, Numbers DEF OwnNote
  <2>3. EgoNote(c) => EgoNote(c)'
    BY <1>1, <2>1, Numbers DEF EgoNote
  <2> QED
    BY <1>1, <2>1, <2>2, <2>3 DEF CarClock
<1> QED
  BY <1>1, <1>3, <1>4, <1>5 DEF ClockInv, CarClocks

LEMMA ClockStep == BoxInv /\ MeetInv /\ ClockInv /\ [Next]_vars => ClockInv'
<1> SUFFICES ASSUME BoxInv, MeetInv, ClockInv, [Next]_vars PROVE ClockInv'
  OBVIOUS
<1>1. CASE Tick
  BY <1>1, TickTicks
<1>2. CASE \E c \in Cars : Car(c)
  <2>1. PICK c \in Cars : Car(c)
    BY <1>2
  <2> QED
    BY <2>1, ComeTicks, WaitTicks, TakeTicks, GoTicks DEF Car
<1>3. CASE EgoMoves
  BY <1>3, EgoTicks
<1>4. CASE UNCHANGED vars
  <2>1. UNCHANGED <<clock, turn, at, moving, restAt, egoWaiting, waiting, released, target,
                    waiters, stoppedAt>> /\ Times' = Times
    BY <1>4 DEF vars, road, traffic, fsm, Times
  <2>2. \A v : Waits(v)' <=> Waits(v)
    BY <2>1 DEF Waits
  <2>3. \A c \in Cars \ released : CarClock(c)'
    BY <2>1, <2>2 DEF ClockInv, CarClocks, CarClock, OwnNote, EgoNote
  <2>4. NoteOfEgo' /\ EgoStopped'
    BY <2>1, <2>2 DEF ClockInv, NoteOfEgo, EgoStopped
  <2> QED
    BY <2>1, <2>3, <2>4 DEF ClockInv, CarClocks
<1> QED
  BY <1>1, <1>2, <1>3, <1>4 DEF Next, Ends

\* A car that takes the box has stood as long as anybody, by its own notes.
LEMMA TakesInTurn ==
  ASSUME BoxInv, ClockInv, NEW v \in Cars, Car(v), Take(v),
         NEW u \in Vehicle, Waits(u), arm[u] # arm[v], u \notin released
  PROVE  restAt[u] >= restAt[v] - StopTie
<1>1. Waits(v) /\ v \notin released /\ MayTake(v) /\ turn = v /\ v \in Vehicle
  BY Actors DEF Take, Dwelt, AtLine, Car
<1>2. Mine(v) = restAt[v] + 1 /\ Mine(v) <= clock
  <2>1. OwnNote(v)
    BY <1>1 DEF ClockInv, CarClocks, CarClock
  <2> QED
    BY <1>1, <2>1, Numbers DEF OwnNote, Mine
<1>3. \A r \in Rivals(v) : ~(r[2] < Mine(v) - StopTie)
  BY <1>1 DEF MayTake, Beats
<1>4. CASE u = Ego
  <2>1. egoWaiting # None /\ egoWaiting = restAt[u] + 1
    BY <1>1, <1>4, Numbers, Stages DEF ClockInv, NoteOfEgo, Waits
  <2>2. <<Ego, egoWaiting>> \in Rivals(v)
    BY <2>1 DEF Rivals
  <2>3. ~(egoWaiting < Mine(v) - StopTie)
    BY <1>3, <2>2
  <2> QED
    BY <1>1, <1>2, <2>1, <2>3, Numbers
<1>5. CASE u \in Cars
  <2>1. OwnNote(u)
    BY <1>5 DEF ClockInv, CarClocks, CarClock
  <2>2. CASE waiting[u] = None
    <3>1. restAt[u] >= clock - 1
      BY <1>5, <2>1, <2>2, Numbers DEF OwnNote
    <3> QED
      BY <1>1, <1>2, <3>1, Numbers
  <2>3. CASE waiting[u] # None
    <3>1. <<u, waiting[u]>> \in Rivals(v)
      BY <1>5, <2>3 DEF Rivals
    <3>2. ~(waiting[u] < Mine(v) - StopTie)
      BY <1>3, <3>1
    <3>3. waiting[u] = restAt[u] + 1
      BY <2>1, <2>3 DEF OwnNote
    <3> QED
      BY <1>1, <1>2, <1>5, <3>2, <3>3, Numbers
  <2> QED BY <2>2, <2>3
<1>6. u = Ego \/ u \in Cars
  BY StopAssumption DEF Vehicle, Cars, Ego
<1> QED BY <1>4, <1>5, <1>6

\* The ego leaves its line when nobody it has seen stop was there before it.
LEMMA EgoInTurn ==
  ASSUME BoxInv, ClockInv, EgoWaits, turn = Ego, state' = "creep", at[Ego] = Zone,
         NEW u \in Cars, Waits(u), u \notin released
  PROVE  restAt[u] >= restAt[Ego] - StopTie
<1>1. target /\ Waits(Ego) /\ MyTurn /\ Ego \in Vehicle /\ u \in Vehicle
  BY Actors DEF EgoWaits, Waits
<1>2. OwnWait = restAt[Ego] + 1
  <2>1. restAt[Ego] # None
    BY <1>1 DEF ClockInv, NoteOfEgo
  <2> QED
    <3>1. \/ stoppedAt = restAt[Ego] + 1
          \/ stoppedAt = None /\ restAt[Ego] = clock - 1
      BY <1>1, <2>1, Numbers DEF ClockInv, EgoStopped
    <3>2. OwnWait = IF stoppedAt = None THEN clock ELSE stoppedAt
      BY <1>1 DEF OwnWait
    <3> QED
      BY <1>1, <2>1, <3>1, <3>2, Numbers
<1>3. Tracked[u] = restAt[u] /\ restAt[u] # None
  <2>1. EgoNote(u) /\ restAt[u] \in Nat
    BY Numbers DEF ClockInv, CarClocks, CarClock, OwnNote
  <2>2. Facing(u)
    BY Stages DEF Waits, Facing
  <2> QED
    BY <1>1, <2>1, <2>2, Numbers DEF EgoNote, Tracked
<1>4. ~(Tracked[u] < OwnWait - StopTie)
  BY <1>1, <1>3 DEF MyTurn
<1> QED
  BY <1>1, <1>2, <1>3, <1>4, Numbers

-----------------------------------------------------------------------------
(* Theorems. *)

LEMMA BoxAlways == Spec => []BoxInv
BY InitBox, BoxStep, PTL DEF Spec

\* Every variable of the junction keeps its type (loop and FSM alike).
THEOREM TypeCorrect == Spec => []TypeOK
<1>1. BoxInv => TypeOK
  BY DEF BoxInv
<1> QED
  BY <1>1, BoxAlways, PTL

\* However many cars come from whichever arms, and however long they take:
\* _may_take_box never lets a second car of the traffic into the box.
THEOREM BoxIsExclusive == Spec => []OneCarInBox
<1>1. BoxInv => OneCarInBox
  <2> SUFFICES ASSUME BoxInv, NEW c \in Cars, NEW d \in Cars, InBox(c), InBox(d) PROVE c = d
    BY DEF OneCarInBox
  <2>1. \A e \in {c, d} : e \in released /\ at[e] # Gone
    BY DEF BoxInv, HeldBack, InBox, Zone, Inside, Past, Gone
  <2> QED
    BY <2>1 DEF BoxInv, HasBox
<1> QED
  BY <1>1, BoxAlways, PTL

\* Where the ego looks until it is in the box, it is never there together with
\* a car: though each is let go by clocks of its own, and the ego may halt over
\* its line and move off again.
THEOREM EgoNeverMeets == Spec => []EgoMeetsNobody
<1>1. BoxInv /\ MeetInv => EgoMeetsNobody
  <2> SUFFICES ASSUME BoxInv, MeetInv, NEW c \in Cars, InBox(c), InBox(Ego), ~far PROVE FALSE
    BY DEF EgoMeetsNobody
  <2>1. c \in released /\ at[c] # Gone
    BY Stages DEF BoxInv, HeldBack, InBox
  <2> QED
    BY <2>1 DEF MeetInv, Alone
<1> QED
  BY <1>1, InitMeet, MeetStep, BoxAlways, PTL DEF Spec
\* Whoever comes from another arm and has stood longer, by more than the tie,
\* goes first, whatever the cars, the arms and the clocks' limits: the notes
\* that traffic and the planner take of the same halt never differ by more than
\* they do for the one they are compared with.
THEOREM FirstAlwaysFirst == Spec => FirstComeFirst
<1> DEFINE InTurn == \A u, v \in Vehicle :
             LetGo(v) /\ Waits(u) /\ arm[u] # arm[v] /\ u \notin released
               => restAt[u] >= restAt[v] - StopTie
<1>1. BoxInv /\ ClockInv /\ [Next]_vars => [InTurn]_vars
  <2> SUFFICES ASSUME BoxInv, ClockInv, Next, NEW u \in Vehicle, NEW v \in Vehicle,
                      LetGo(v), Waits(u), arm[u] # arm[v], u \notin released
               PROVE  restAt[u] >= restAt[v] - StopTie
    OBVIOUS
  <2>1. CASE v = Ego
    <3>1. state # "creep" /\ state' = "creep" /\ at[Ego] = Zone
      BY <2>1 DEF LetGo
    <3>2. EgoMoves
      BY <3>1 DEF Next, Tick, Car, Ends, vars, fsm
    <3>3. EgoWaits /\ turn = Ego
      BY <3>1, <3>2 DEF EgoMoves, EgoComes, EgoWaits, EgoCreeps, EgoBrakes, EgoCruises,
         EgoGone, fsm
    <3>4. u \in Cars
      BY <2>1, Numbers DEF Vehicle, Cars
    <3> QED
      BY <2>1, <3>1, <3>3, <3>4, EgoInTurn
  <2>2. CASE v # Ego
    <3>1. v \in released' /\ v \notin released
      BY <2>2 DEF LetGo
    <3>2. PICK c \in Cars : Car(c)
      BY <3>1 DEF Next, Tick, EgoMoves, Ends, vars, traffic
    <3>3. Take(c) /\ v = c
      BY <3>1, <3>2 DEF Car, Come, Wait, Take, Go, traffic
    <3> QED
      BY <3>2, <3>3, TakesInTurn
  <2> QED BY <2>1, <2>2
<1> QED
  BY <1>1, InitMeet, MeetStep, InitClock, ClockStep, BoxAlways, PTL DEF Spec, FirstComeFirst
=============================================================================

