---------------------------- MODULE DrivingProofs ----------------------------
(***************************************************************************)
(* Theorems about Driving, for any timers, any speeds and any number of    *)
(* messages under way: its types, that mode, gear and set speed agree, and *)
(* that a mode asked for and a takeover stand.                             *)
(***************************************************************************)
EXTENDS Driving, FiniteSetTheorems, SequenceTheorems, TLAPS

-----------------------------------------------------------------------------
(* The inductive invariant: neither part holds without the other, since the *)
(* speed a tick steers for is the set speed of a mode that holds one.       *)

DriveInv == TypeOK /\ ModesCoherent

LEMMA InitDrive == Init => DriveInv
<1> SUFFICES ASSUME Init PROVE DriveInv
  OBVIOUS
<1>1. /\ 0 \in 0 .. ShiftHold - 1 /\ Stale + 1 \in 0 .. Stale + 1 /\ 0 \in -1 .. Top
      /\ 0 \in 0 .. Strike /\ 0 \in 0 .. SlowEvery /\ 0 \in 0 .. Mishaps /\ 0 \in 0 .. InFlight
      /\ 0 <= InFlight
  BY DrivingAssumption
<1>2. up \in Seq(Input \cup Asking \cup Reset) /\ Len(up) <= InFlight
  BY <1>1 DEF Init
<1>3. mode \in Modes /\ mode \notin {"cruise", "autosteer"}
  BY DEF Init, Modes
<1>4. TypeOK
  <2>1. /\ pressed \in SUBSET Keys /\ slot \in SUBSET SUBSET Keys /\ frame \in SUBSET Frame
    <3>1. pressed \in SUBSET Keys
      BY DEF Init
    <3>2. slot \in SUBSET SUBSET Keys
      BY DEF Init
    <3>3. frame \in SUBSET Frame
      BY DEF Init
    <3> QED
      BY <3>1, <3>2, <3>3
  <2>2. held \in SUBSET Keys /\ sent \in SUBSET Keys
    BY DEF Init
  <2>4. /\ setSpeed \in {None} \cup 0 .. Top /\ gear \in {"D", "R"} /\ shift \in 0 .. ShiftHold - 1
        /\ age \in 0 .. Stale + 1 /\ speed \in -1 .. Top /\ onRoute \in BOOLEAN /\ anew \in BOOLEAN
    BY <1>1 DEF Init
  <2>5. /\ tapped \in BOOLEAN /\ wheel \in 0 .. 2
        /\ stage \in {"ok", "prompt", "escalated", "stopping"} /\ locked \in BOOLEAN
        /\ idle \in 0 .. Strike /\ step \in 0 .. SlowEvery /\ active \in BOOLEAN
    <3>1. tapped \in BOOLEAN /\ locked \in BOOLEAN /\ active \in BOOLEAN
      BY DEF Init
    <3>2. wheel \in 0 .. 2 /\ idle \in 0 .. Strike /\ step \in 0 .. SlowEvery
      BY <1>1 DEF Init
    <3>3. stage \in {"ok", "prompt", "escalated", "stopping"}
      BY DEF Init
    <3> QED
      BY <3>1, <3>2, <3>3
  <2>3. /\ acts \in SUBSET {"press", "ask", "reset"} /\ mishaps \in 0 .. Mishaps
        /\ calm \in BOOLEAN /\ unaware \in BOOLEAN /\ strays \in 0 .. InFlight
    BY <1>1 DEF Init
  <2> QED
    BY <1>2, <1>3, <2>1, <2>2, <2>3, <2>4, <2>5 DEF TypeOK
<1>5. ModesCoherent
  BY <1>3 DEF Init, ModesCoherent
<1> QED
  BY <1>4, <1>5 DEF DriveInv

-----------------------------------------------------------------------------
(* Messages. *)

LEMMA SendTyped ==
  ASSUME TypeOK, NEW m \in Input \cup Asking \cup Reset, Send(m)
  PROVE  up' \in Seq(Input \cup Asking \cup Reset) /\ Len(up') <= InFlight
BY DrivingAssumption DEF Send, TypeOK

LEMMA EmitTyped ==
  ASSUME TypeOK, NEW axes \in SUBSET Keys, Emit(axes)
  PROVE  /\ sent' \in SUBSET Keys
         /\ up' \in Seq(Input \cup Asking \cup Reset) /\ Len(up') <= InFlight
<1>1. [cmd |-> "drive_input", axes |-> axes] \in Input \cup Asking \cup Reset
  BY DEF Input
<1> QED
  BY <1>1, SendTyped DEF Emit, TypeOK

LEMMA AxesTyped ==
  ASSUME NEW down, NEW w
  PROVE  Axes(down, w) \in SUBSET Keys
BY DEF Axes, Keys

LEMMA WalkTyped ==
  ASSUME TypeOK, NEW from \in -1 .. Top, Walk(from)
  PROVE  up' \in Seq(Input \cup Asking \cup Reset) /\ Len(up') <= InFlight
<1>1. Greatest(from - SlowBy, 0) \in 0 .. Top
  BY DrivingAssumption DEF Greatest
<1>2. [cmd |-> "set_drive_mode", mode |-> "autosteer",
       set |-> Greatest(from - SlowBy, 0), by |-> "monitor"] \in Asking
  BY <1>1 DEF Asking, Modes
<1> QED
  BY <1>2, SendTyped DEF Walk

\* How many walk-downs are on their way.
LEMMA StraysTyped ==
  ASSUME TypeOK
  PROVE  Cardinality({i \in 1 .. Len(up) : Walked(up[i])}) \in 0 .. InFlight
<1> DEFINE walks == {i \in 1 .. Len(up) : Walked(up[i])}
<1>1. Len(up) \in Nat /\ Len(up) <= InFlight /\ InFlight \in Nat
  <2>1. up \in Seq(Input \cup Asking \cup Reset) /\ Len(up) <= InFlight
    BY DEF TypeOK
  <2> QED
    BY <2>1, DrivingAssumption, LenProperties
<1>2. IsFiniteSet(1 .. Len(up)) /\ Cardinality(1 .. Len(up)) = Len(up)
  <2>1. \A n \in Nat : IsFiniteSet(1 .. n) /\ Cardinality(1 .. n) = n
    <3> TAKE n \in Nat
    <3>1. 1 \in Int /\ n \in Int /\ n - 1 + 1 = n
      OBVIOUS
    <3>2. /\ IsFiniteSet(1 .. n)
          /\ Cardinality(1 .. n) = IF 1 > n THEN 0 ELSE n - 1 + 1
      BY <3>1, FS_Interval
    <3> QED
      BY <3>1, <3>2
  <2> QED
    BY <1>1, <2>1
<1>3. walks \subseteq 1 .. Len(up)
  OBVIOUS
<1>4. Cardinality(walks) <= Len(up) /\ Cardinality(walks) \in Nat
  BY <1>2, <1>3, FS_Subset, FS_CardinalityType
<1> QED
  BY <1>1, <1>4

-----------------------------------------------------------------------------
(* The browser. *)

LEMMA DriverKeeps ==
  ASSUME DriveInv, Driver \/ Sample
  PROVE  DriveInv'
<1>1. CASE \E k \in Keys : Press(k) \/ Release(k)
  <2>1. PICK k \in Keys : Press(k) \/ Release(k)
    BY <1>1
  <2>2. /\ sent' \in SUBSET Keys
        /\ up' \in Seq(Input \cup Asking \cup Reset) /\ Len(up') <= InFlight
    <3>1. TypeOK /\ sent \in SUBSET Keys
          /\ up \in Seq(Input \cup Asking \cup Reset) /\ Len(up) <= InFlight
      BY DEF DriveInv, TypeOK
    <3>2. CASE Emit(Axes(held', wheel))
      BY <3>1, <3>2, EmitTyped, AxesTyped
    <3>3. CASE UNCHANGED <<up, sent>>
      BY <3>1, <3>3
    <3> QED
      BY <2>1, <3>2, <3>3 DEF Press, Release
  <2> QED
    <3>1. /\ UNCHANGED <<world, onRoute, slot, frame, anew, wheel, stage, locked, idle, step,
                          mishaps, unaware, strays>>
          /\ held' \in SUBSET Keys /\ tapped' \in BOOLEAN /\ active' \in BOOLEAN
          /\ calm' \in BOOLEAN /\ acts' \in SUBSET {"press", "ask", "reset"}
      BY <2>1 DEF Press, Release, Act, DriveInv, TypeOK
    <3> QED
      BY <2>2, <3>1 DEF DriveInv, TypeOK, ModesCoherent, world
<1>2. CASE \E m \in Modes : AskMode(m)
  <2>1. PICK m \in Modes : AskMode(m)
    BY <1>2
  <2>2. [cmd |-> "set_drive_mode", mode |-> m, set |-> None, by |-> "driver"] \in Asking
    BY DEF Asking
  <2>3. up' \in Seq(Input \cup Asking \cup Reset) /\ Len(up') <= InFlight
    BY <2>1, <2>2, SendTyped DEF AskMode, DriveInv
  <2>4. calm' \in BOOLEAN
    BY <2>1 DEF AskMode, AtRest
  <2> QED
    BY <2>1, <2>3, <2>4 DEF AskMode, Act, DriveInv, TypeOK, ModesCoherent, world, keys
<1>3. CASE AskReset
  <2>1. [cmd |-> "reset"] \in Reset
    BY DEF Reset
  <2>2. up' \in Seq(Input \cup Asking \cup Reset) /\ Len(up') <= InFlight
    BY <1>3, <2>1, SendTyped DEF AskReset, DriveInv
  <2> QED
    BY <1>3, <2>2 DEF AskReset, Act, DriveInv, TypeOK, ModesCoherent, world, keys
<1>4. CASE Sample
  <2>1. /\ sent' \in SUBSET Keys
        /\ up' \in Seq(Input \cup Asking \cup Reset) /\ Len(up') <= InFlight
    BY <1>4, EmitTyped, AxesTyped DEF Sample, DriveInv
  <2>2. Turned \in 0 .. 2
    BY DEF Turned, Greatest, DriveInv, TypeOK
  <2> QED
    BY <1>4, <2>1, <2>2 DEF Sample, DriveInv, TypeOK, ModesCoherent, world
<1> QED
  BY <1>1, <1>2, <1>3, <1>4 DEF Driver

LEMMA BrowserKeeps ==
  ASSUME DriveInv, Browser
  PROVE  DriveInv'
<1>1. PICK f \in frame : See(f)
  BY DEF Browser
<1>2. f \in Frame /\ f.speed \in -1 .. Top /\ f.set \in -1 .. Top
  BY DrivingAssumption DEF DriveInv, TypeOK, Frame
<1>3. up' \in Seq(Input \cup Asking \cup Reset) /\ Len(up') <= InFlight
  BY <1>1, <1>2, WalkTyped DEF See, DriveInv, TypeOK
<1>4. idle' \in 0 .. Strike /\ step' \in 0 .. SlowEvery
  BY <1>1, DrivingAssumption DEF See, Least, DriveInv, TypeOK
<1>5. strays' \in 0 .. InFlight
  BY <1>1, StraysTyped DEF See, DriveInv, TypeOK
<1>6. stage' \in {"ok", "prompt", "escalated", "stopping"} /\ locked' \in BOOLEAN
  BY <1>1 DEF See, DriveInv, TypeOK
<1>7. UNCHANGED <<world, onRoute, slot, anew, keys, acts, mishaps, calm>>
      /\ frame' = {} /\ active' \in BOOLEAN /\ unaware' \in BOOLEAN
  BY <1>1 DEF See, DriveInv, TypeOK
<1> QED
  BY <1>3, <1>4, <1>5, <1>6, <1>7 DEF DriveInv, TypeOK, ModesCoherent, world, keys

-----------------------------------------------------------------------------
(* The world. *)

\* Whatever the mode becomes, the set speed goes with it.
LEMMA ChangeModeKeeps ==
  ASSUME DriveInv, NEW m \in Modes, ChangeMode(m)
  PROVE  /\ mode' = m
         /\ setSpeed' \in {None} \cup 0 .. Top
         /\ (setSpeed' # None) = (mode' \in {"cruise", "autosteer"})
BY DrivingAssumption DEF ChangeMode, DriveInv, TypeOK, ModesCoherent, Modes, None

LEMMA SetModeKeeps ==
  ASSUME DriveInv, NEW m \in Modes, NEW set \in {None} \cup 0 .. Top, NEW by, SetMode(m, set, by)
  PROVE  /\ mode' \in Modes /\ setSpeed' \in {None} \cup 0 .. Top
         /\ gear' \in {"D", "R"} /\ shift' \in 0 .. ShiftHold - 1
         /\ unaware' \in BOOLEAN
         /\ ModesCoherent'
<1>1. CASE Refused(m)
  BY <1>1 DEF SetMode, DriveInv, TypeOK, ModesCoherent
<1>2. CASE ~Refused(m)
  <2>1. /\ mode' = m /\ setSpeed' \in {None} \cup 0 .. Top
        /\ (setSpeed' # None) = (mode' \in {"cruise", "autosteer"})
    <3>1. CASE set # None /\ m \in {"cruise", "autosteer"}
      BY <1>2, <3>1 DEF SetMode
    <3>2. CASE ~(set # None /\ m \in {"cruise", "autosteer"})
      BY <1>2, <3>2, ChangeModeKeeps DEF SetMode
    <3> QED
      BY <3>1, <3>2
  <2>2. gear' \in {"D", "R"} /\ shift' \in 0 .. ShiftHold - 1
    <3>1. gear \in {"D", "R"} /\ shift \in 0 .. ShiftHold - 1
      BY DEF DriveInv, TypeOK
    <3>2. 0 \in 0 .. ShiftHold - 1
      BY DrivingAssumption
    <3> QED
      BY <1>2, <3>1, <3>2 DEF SetMode
  <2>3. gear' = "R" => mode' = "off"
    BY <1>2, <2>1 DEF SetMode
  <2>4. speed' < 0 => gear' = "R"
    BY <1>2 DEF SetMode, Refused, DriveInv, TypeOK, ModesCoherent
  <2>5. unaware' \in BOOLEAN
    BY <1>2 DEF SetMode, DriveInv, TypeOK
  <2> QED
    BY <2>1, <2>2, <2>3, <2>4, <2>5 DEF ModesCoherent
<1> QED
  BY <1>1, <1>2

LEMMA ReceiveKeeps ==
  ASSUME DriveInv, Receive
  PROVE  DriveInv'
<1> DEFINE m == Head(up)
<1>1. m \in Input \cup Asking \cup Reset
      /\ up' \in Seq(Input \cup Asking \cup Reset) /\ Len(up') <= InFlight
  BY DrivingAssumption DEF Receive, DriveInv, TypeOK
<1>2. UNCHANGED <<frame, keys, monitor, acts, mishaps>> /\ strays' \in 0 .. InFlight
  BY DrivingAssumption DEF Receive, DriveInv, TypeOK
<1>3. CASE /\ m.cmd = "drive_input" /\ slot' = {m.axes}
           /\ UNCHANGED <<world, onRoute, anew, calm, unaware>>
  <2>1. m \in Input
    BY <1>1, <1>3 DEF Input, Asking, Reset
  <2>2. slot' \in SUBSET SUBSET Keys
    BY <1>3, <2>1 DEF Input
  <2> QED
    BY <1>1, <1>2, <1>3, <2>2 DEF DriveInv, TypeOK, ModesCoherent, world, keys, monitor
<1>4. CASE m.cmd = "set_drive_mode" /\ SetMode(m.mode, m.set, m.by)
  <2>1. m \in Asking
    BY <1>1, <1>4 DEF Input, Asking, Reset
  <2>2. m.mode \in Modes /\ m.set \in {None} \cup 0 .. Top
    BY <2>1 DEF Asking
  <2>3. /\ mode' \in Modes /\ setSpeed' \in {None} \cup 0 .. Top
        /\ gear' \in {"D", "R"} /\ shift' \in 0 .. ShiftHold - 1
        /\ unaware' \in BOOLEAN /\ ModesCoherent'
    BY <1>4, <2>2, SetModeKeeps
  <2>4. UNCHANGED <<pressed, age, speed, onRoute, slot, anew, calm>>
    BY <1>4 DEF SetMode
  <2> QED
    BY <1>1, <1>2, <2>3, <2>4 DEF DriveInv, TypeOK, keys, monitor
<1>5. CASE m.cmd = "reset" /\ ResetWorld
  <2>1. /\ 0 \in 0 .. ShiftHold - 1 /\ Stale + 1 \in 0 .. Stale + 1 /\ 0 \in -1 .. Top
        /\ "fsd" \in Modes
    BY DrivingAssumption DEF Modes
  <2>2. /\ mode' \in Modes /\ setSpeed' \in {None} \cup 0 .. Top
        /\ gear' \in {"D", "R"} /\ shift' \in 0 .. ShiftHold - 1
        /\ pressed' \in SUBSET Keys /\ age' \in 0 .. Stale + 1
        /\ speed' \in -1 .. Top /\ onRoute' \in BOOLEAN /\ anew' \in BOOLEAN
        /\ unaware' \in BOOLEAN /\ UNCHANGED <<slot, calm>>
    BY <1>5, <2>1 DEF ResetWorld
  <2>3. ModesCoherent'
    BY <1>5 DEF ResetWorld, ModesCoherent
  <2> QED
    BY <1>1, <1>2, <2>2, <2>3 DEF DriveInv, TypeOK, keys, monitor
<1> QED
  BY <1>3, <1>4, <1>5 DEF Receive

LEMMA ShownIsSpeed ==
  ASSUME NEW v \in -1 .. Top
  PROVE  Greatest(v, -v) \in 0 .. Top
<1>1. v \in Int /\ -v \in Int /\ Top \in Nat \ {0} /\ -1 <= v /\ v <= Top
  BY DrivingAssumption
<1>2. CASE v > -v
  BY <1>1, <1>2 DEF Greatest
<1>3. CASE ~(v > -v)
  BY <1>1, <1>3 DEF Greatest
<1> QED
  BY <1>2, <1>3

LEMMA AimIsSpeed ==
  ASSUME NEW v \in -1 .. Top
  PROVE  Greatest(v - 1, 0) \in 0 .. Top
BY DrivingAssumption DEF Greatest

\* The parts of a tick, with what the driver's keys make of mode and gear.
LEMMA TickKeeps ==
  ASSUME DriveInv, Tick
  PROVE  DriveInv'
<1>1. PICK throttle \in Throttle, danger \in Danger, aim \in Aims :
        LET axes   == IF slot = {} THEN Live ELSE CHOOSE a \in slot : TRUE
            by     == IF slot = {} THEN mode ELSE Ladder(axes)
            evades == danger /\ by = "off" /\ gear' = "D"
            target == IF mode' = "fsd" THEN aim ELSE setSpeed'
        IN
        /\ IF by = "off" THEN Shift(axes, throttle) ELSE UNCHANGED <<gear, shift>>
        /\ ChangeMode(IF evades THEN "fsd" ELSE by)
        /\ speed' \in Drives(by, axes, target)
        /\ slot' = {}
        /\ pressed' = axes
        /\ age' = IF slot = {} THEN Least(age + 1, Stale + 1) ELSE 1
        /\ Publish(mode', Shown(mode', setSpeed', speed', aim), speed')
        /\ unaware' = IF evades THEN FALSE ELSE unaware \/ (Engaged(mode) /\ ~Engaged(by))
        /\ mishaps' = IF evades THEN mishaps + 1 ELSE mishaps
        /\ UNCHANGED <<onRoute, up, keys, monitor, acts, calm, strays>>
  BY DEF Tick
<1> DEFINE axes   == IF slot = {} THEN Live ELSE CHOOSE a \in slot : TRUE
           by     == IF slot = {} THEN mode ELSE Ladder(axes)
           evades == danger /\ by = "off" /\ gear' = "D"
           target == IF mode' = "fsd" THEN aim ELSE setSpeed'
<1>2. axes \in SUBSET Keys
  BY DEF Live, DriveInv, TypeOK
<1>3. by \in Modes /\ (mode = "off" => by = "off")
  BY DEF Ladder, Engaged, Fresh, DriveInv, TypeOK, Modes
<1>4. /\ mode' = (IF evades THEN "fsd" ELSE by)
      /\ setSpeed' \in {None} \cup 0 .. Top
      /\ (setSpeed' # None) = (mode' \in {"cruise", "autosteer"})
  BY <1>1, <1>3, ChangeModeKeeps DEF Modes
<1>5. aim \in 0 .. Top
  <2>1. speed \in -1 .. Top
    BY DEF DriveInv, TypeOK
  <2> QED
    <3>1. Greatest(speed - 1, 0) \in 0 .. Top /\ Top \in Nat
      BY <2>1, AimIsSpeed, DrivingAssumption
    <3>2. aim \in Greatest(speed - 1, 0) .. Top \/ aim \in {0}
      BY DEF Aims
    <3> QED
      BY <3>1, <3>2
<1>6. gear' \in {"D", "R"} /\ shift' \in 0 .. ShiftHold - 1
  BY <1>1, DrivingAssumption DEF Shift, DriveInv, TypeOK
<1>7. by # "off" => gear = "D" /\ gear' = "D" /\ speed \in 0 .. Top
  BY <1>1, <1>3 DEF DriveInv, TypeOK, ModesCoherent
<1>8. speed' \in -1 .. Top /\ (speed' < 0 => gear' = "R")
  <2>1. CASE by = "off" /\ gear' = "D"
    BY <1>1, <2>1, DrivingAssumption DEF Drives
  <2>2. CASE by = "off" /\ gear' = "R"
    <3>1. speed \in -1 .. Top
      BY DEF DriveInv, TypeOK
    <3>2. speed' \in {-1, speed, 0}
      BY <1>1, <2>2 DEF Drives
    <3> QED
      BY <2>2, <3>1, <3>2, DrivingAssumption
  <2>3. CASE by # "off"
    <3>1. target \in 0 .. Top
      BY <1>3, <1>4, <1>5, <2>3 DEF Modes
    <3>2. speed' = (IF speed > target THEN speed - 1
                    ELSE IF speed < target THEN speed + 1 ELSE speed)
      BY <1>1, <2>3 DEF Drives
    <3> QED
      BY <1>7, <2>3, <3>1, <3>2, DrivingAssumption
  <2> QED
    BY <1>6, <2>1, <2>2, <2>3
<1>9. gear' = "R" => mode' = "off"
  BY <1>3, <1>4, <1>7
<1>10. frame' \in SUBSET Frame /\ anew' \in BOOLEAN
  <2>1. Shown(mode', setSpeed', speed', aim) \in 0 .. Top
    <3>1. Greatest(speed', -speed') \in 0 .. Top
      BY <1>8, ShownIsSpeed
    <3> QED
      BY <1>4, <1>5, <3>1 DEF Shown
  <2>2. mode' \in Modes
    BY <1>3, <1>4 DEF Modes
  <2> QED
    <3>1. anew \in BOOLEAN /\ frame \in SUBSET Frame
      BY DEF DriveInv, TypeOK
    <3>2. [reset |-> anew, mode |-> mode', set |-> Shown(mode', setSpeed', speed', aim),
           speed |-> speed'] \in Frame
      BY <1>8, <2>1, <2>2, <3>1 DEF Frame
    <3> QED
      BY <1>1, <3>1, <3>2 DEF Publish
<1>11. mishaps' \in 0 .. Mishaps
  <2>1. danger => mishaps < Mishaps
    BY DEF Danger
  <2> QED
    BY <1>1, <2>1, DrivingAssumption DEF DriveInv, TypeOK
<1>12. age' \in 0 .. Stale + 1 /\ pressed' \in SUBSET Keys /\ slot' = {}
  BY <1>1, <1>2, DrivingAssumption DEF Least, DriveInv, TypeOK
<1>13. unaware' \in BOOLEAN
  BY <1>1 DEF DriveInv, TypeOK
<1>14. UNCHANGED <<onRoute, up, keys, monitor, acts, calm, strays>>
  BY <1>1
<1>15. mode' \in Modes
  BY <1>3, <1>4 DEF Modes
<1>16. TypeOK'
  BY <1>4, <1>6, <1>8, <1>10, <1>11, <1>12, <1>13, <1>14, <1>15
  DEF DriveInv, TypeOK, keys, monitor
<1>17. ModesCoherent'
  BY <1>4, <1>8, <1>9 DEF ModesCoherent
<1> QED
  BY <1>16, <1>17 DEF DriveInv

LEMMA RouteKeeps ==
  ASSUME DriveInv, Leave \/ Return
  PROVE  DriveInv'
<1>1. mishaps' \in 0 .. Mishaps
  <2>1. mishaps \in 0 .. Mishaps
    BY DEF DriveInv, TypeOK
  <2> QED
    BY <2>1, DrivingAssumption DEF Leave, Return
<1>2. /\ UNCHANGED <<world, up, slot, frame, anew, keys, monitor, acts, calm, unaware, strays>>
      /\ onRoute' \in BOOLEAN
  BY DEF Leave, Return
<1> QED
  BY <1>1, <1>2 DEF DriveInv, TypeOK, ModesCoherent, world, keys, monitor

LEMMA DriveStep == DriveInv /\ [Next]_vars => DriveInv'
<1> SUFFICES ASSUME DriveInv, [Next]_vars PROVE DriveInv'
  OBVIOUS
<1>1. CASE UNCHANGED vars
  BY <1>1 DEF vars, world, keys, monitor, DriveInv, TypeOK, ModesCoherent
<1> QED
  BY <1>1, DriverKeeps, BrowserKeeps, ReceiveKeeps, TickKeeps, RouteKeeps DEF Next

-----------------------------------------------------------------------------
(* What the keys still say.  The world hears the axes in the order they were *)
(* sent, so when a mode is asked for with the keys at rest, all that is yet  *)
(* to be heard is a wheel on its way back: the axes under way steer up to    *)
(* some message and are empty after it, and a world that hears "steer" again *)
(* has heard it before, unless it forgot.                                    *)

\* The samples under way.
Said == {i \in 1 .. Len(up) : up[i].cmd = "drive_input"}

\* What went out last is the last of them, or the last one heard.
Spoken ==
  /\ sent = Axes(held, wheel)
  /\ Said # {} => \E i \in Said : up[i].axes = sent /\ \A j \in Said : j <= i
  /\ Said = {} => IF slot = {} THEN pressed = sent \/ age > Stale ELSE slot = {sent}

\* The world need not take "steer" for news.
Known == "steer" \in pressed \/ age > Stale

\* All that is heard up to the i-th message steers.
Steered(i) ==
  /\ \A j \in Said : j <= i => "steer" \in up[j].axes
  /\ \A a \in slot : "steer" \in a
  /\ Known

Quiet ==
  calm =>
    /\ held = {} /\ ~tapped
    /\ \A a \in slot : "brake" \notin a /\ ("steer" \in a => Known)
    /\ \A i \in Said : "brake" \notin up[i].axes /\ ("steer" \in up[i].axes => Steered(i))
    /\ "steer" \in sent => Steered(Len(up))

KeysInv == Spoken /\ Quiet

\* The messages are a sequence; a sample has axes.
LEMMA UpIsSeq ==
  ASSUME TypeOK
  PROVE  /\ Len(up) \in Nat /\ up \in Seq(Input \cup Asking \cup Reset)
         /\ Said \subseteq 1 .. Len(up)
         /\ \A i \in 1 .. Len(up) : up[i] \in Input \cup Asking \cup Reset
  BY LenProperties, ElementOfSeq DEF TypeOK, Said

\* One more message ...
LEMMA SaidSend ==
  ASSUME TypeOK, NEW m \in Input \cup Asking \cup Reset, up' = Append(up, m)
  PROVE  /\ Len(up') = Len(up) + 1 /\ up'[Len(up) + 1] = m
         /\ \A i \in 1 .. Len(up) : up'[i] = up[i]
         /\ Said' = IF m.cmd = "drive_input" THEN Said \cup {Len(up) + 1} ELSE Said
<1>1. Len(up) \in Nat /\ up \in Seq(Input \cup Asking \cup Reset)
  BY UpIsSeq
<1>2. /\ Len(up') = Len(up) + 1 /\ up'[Len(up) + 1] = m
      /\ \A i \in 1 .. Len(up) : up'[i] = up[i]
  BY <1>1, AppendProperties
<1>3. 1 .. Len(up') = 1 .. Len(up) \cup {Len(up) + 1}
  BY <1>1, <1>2
<1>4. Len(up) + 1 \notin 1 .. Len(up)
  BY <1>1
<1>5. Said' = {i \in 1 .. Len(up') : up'[i].cmd = "drive_input"}
  BY DEF Said
<1> QED
  BY <1>2, <1>3, <1>4, <1>5 DEF Said

\* ... and one less.
LEMMA SaidTail ==
  ASSUME TypeOK, up # <<>>, up' = Tail(up)
  PROVE  /\ Len(up') = Len(up) - 1 /\ Len(up) \in Nat \ {0} /\ Head(up) = up[1]
         /\ \A i \in 1 .. Len(up') : up'[i] = up[i + 1] /\ i + 1 \in 1 .. Len(up)
         /\ \A i \in Said' : i + 1 \in Said /\ i \in Nat \ {0}
         /\ \A i \in Said : i # 1 => i - 1 \in Said' /\ up'[i - 1] = up[i]
<1>1. Len(up) \in Nat /\ up \in Seq(Input \cup Asking \cup Reset)
  BY UpIsSeq
<1>2. /\ Len(up') = Len(up) - 1 /\ Len(up) \in Nat \ {0}
      /\ \A i \in 1 .. Len(up') : up'[i] = up[i + 1]
  BY <1>1, HeadTailProperties, EmptySeq
<1>3. Head(up) = up[1]
  BY <1>1 DEF Head
<1>4. \A i \in 1 .. Len(up') : i + 1 \in 1 .. Len(up)
  BY <1>2
<1>5. Said' = {i \in 1 .. Len(up') : up'[i].cmd = "drive_input"}
  BY DEF Said
<1>6. \A i \in Said' : i + 1 \in Said /\ i \in Nat \ {0}
  BY <1>2, <1>4, <1>5 DEF Said
<1>7. ASSUME NEW i \in Said, i # 1
      PROVE  i - 1 \in Said' /\ up'[i - 1] = up[i]
  <2>1. i \in 1 .. Len(up) /\ up[i].cmd = "drive_input"
    BY <1>7 DEF Said
  <2>2. i - 1 \in 1 .. Len(up') /\ i - 1 + 1 = i
    BY <1>2, <1>7, <2>1
  <2> QED BY <1>2, <1>5, <2>1, <2>2
<1> QED
  BY <1>2, <1>3, <1>4, <1>6, <1>7

LEMMA InitKeys == Init => KeysInv
<1> SUFFICES ASSUME Init PROVE KeysInv
  OBVIOUS
<1>1. Said = {}
  BY DEF Init, Said
<1>2. Axes({}, 0) = {}
  BY DEF Axes
<1> QED
  BY <1>1, <1>2 DEF Init, KeysInv, Spoken, Quiet

\* Steps in which no message moves and the world takes nothing.
LEMMA KeysKept ==
  ASSUME KeysInv, UNCHANGED <<up, slot, pressed, age, keys, calm>>
  PROVE  KeysInv'
  BY DEF KeysInv, Spoken, Quiet, Known, Steered, Said, keys

\* Messages that are no samples change nothing of what is said.
LEMMA KeysSend ==
  ASSUME DriveInv, KeysInv, NEW m \in Asking \cup Reset, up' = Append(up, m),
         UNCHANGED <<slot, pressed, age, keys>>, calm' => calm
  PROVE  KeysInv'
<1>1. m.cmd # "drive_input"
  BY DEF Asking, Reset
<1>2. /\ Len(up') = Len(up) + 1 /\ Said' = Said
      /\ \A i \in 1 .. Len(up) : up'[i] = up[i]
  BY <1>1, SaidSend DEF DriveInv
<1>3. Said \subseteq 1 .. Len(up) /\ Len(up) \in Nat
  BY UpIsSeq DEF DriveInv
<1>4. Spoken'
  BY <1>2, <1>3 DEF KeysInv, Spoken, keys
<1>5. \A i : Steered(i) => Steered(i)'
  BY <1>2, <1>3 DEF Steered, Known
<1>6. Steered(Len(up)) => Steered(Len(up))'
  BY <1>2, <1>3 DEF Steered, Known
<1>7. Quiet'
  BY <1>2, <1>3, <1>5, <1>6 DEF KeysInv, Quiet, Known, keys, Steered
<1> QED
  BY <1>4, <1>7 DEF KeysInv

\* A sample goes out behind the others; the world has not heard it yet.
LEMMA EmitSpoken ==
  ASSUME DriveInv, Spoken, Emit(Axes(held', wheel')), UNCHANGED <<slot, pressed, age>>
  PROVE  Spoken'
<1> DEFINE axes == Axes(held', wheel')
           m == [cmd |-> "drive_input", axes |-> axes]
<1>1. sent' = axes
  BY DEF Emit
<1>2. CASE axes = {} /\ sent = {}
  <2>1. up' = up /\ sent' = sent /\ Said' = Said
    BY <1>2 DEF Emit, Said
  <2> QED BY <1>1, <2>1 DEF Spoken
<1>3. CASE ~(axes = {} /\ sent = {})
  <2>1. m \in Input \cup Asking \cup Reset
    BY AxesTyped DEF Input
  <2>2. up' = Append(up, m)
    BY <1>3 DEF Emit, Send
  <2>3. Said' = Said \cup {Len(up) + 1} /\ up'[Len(up) + 1] = m
    BY <2>1, <2>2, SaidSend DEF DriveInv
  <2>4. Said \subseteq 1 .. Len(up) /\ Len(up) \in Nat
    BY UpIsSeq DEF DriveInv
  <2>5. \A j \in Said' : j <= Len(up) + 1
    BY <2>3, <2>4
  <2> QED BY <1>1, <2>3, <2>5 DEF Spoken
<1> QED
  BY <1>2, <1>3

\* While nothing is pressed the wheel only comes back: a sample that steers
\* follows one that did.
LEMMA EmitQuiet ==
  ASSUME DriveInv, KeysInv, Emit(Axes(held', wheel')),
         UNCHANGED <<slot, pressed, age, held, calm>>,
         calm => ~tapped' /\ (wheel' > 0 => wheel > 0)
  PROVE  Quiet'
<1> SUFFICES ASSUME calm, calm' PROVE Quiet'
  BY DEF Quiet
<1> DEFINE axes == Axes(held', wheel')
           m == [cmd |-> "drive_input", axes |-> axes]
<1>0. Said \subseteq 1 .. Len(up) /\ Len(up) \in Nat
  BY UpIsSeq DEF DriveInv
<1>1. /\ held = {} /\ held' = {} /\ ~tapped'
      /\ \A a \in slot : "brake" \notin a /\ ("steer" \in a => Known)
      /\ \A i \in Said : "brake" \notin up[i].axes /\ ("steer" \in up[i].axes => Steered(i))
      /\ "steer" \in sent => Steered(Len(up))
  BY DEF KeysInv, Quiet
<1>2. /\ sent' = axes /\ "brake" \notin axes
      /\ "steer" \in axes => "steer" \in sent
  BY <1>1 DEF Emit, Axes, KeysInv, Spoken
<1>3. Known' = Known
  BY DEF Known
<1>4. CASE axes = {} /\ sent = {}
  <2>1. up' = up /\ sent' = sent /\ Said' = Said
    BY <1>4 DEF Emit, Said
  <2>2. \A i : Steered(i)' = Steered(i)
    BY <1>3, <2>1 DEF Steered
  <2>3. Steered(Len(up))' = Steered(Len(up))
    BY <1>3, <2>1 DEF Steered
  <2> QED BY <1>1, <1>3, <2>1, <2>2, <2>3 DEF Quiet
<1>5. CASE ~(axes = {} /\ sent = {})
  <2>1. m \in Input \cup Asking \cup Reset
    BY AxesTyped DEF Input
  <2>2. up' = Append(up, m)
    BY <1>5 DEF Emit, Send
  <2>3. /\ Said' = Said \cup {Len(up) + 1} /\ up'[Len(up) + 1] = m
        /\ \A i \in 1 .. Len(up) : up'[i] = up[i]
        /\ Len(up') = Len(up) + 1
    BY <2>1, <2>2, SaidSend DEF DriveInv
  <2>4. \A i \in Said : Steered(i) => Steered(i)'
    BY <1>0, <1>3, <2>3 DEF Steered
  <2>5. "steer" \in axes => /\ \A j \in Said' : "steer" \in up'[j].axes
                            /\ \A a \in slot' : "steer" \in a
                            /\ Known'
    <3> SUFFICES ASSUME "steer" \in axes
                 PROVE  /\ \A j \in Said' : "steer" \in up'[j].axes
                        /\ \A a \in slot' : "steer" \in a
                        /\ Known'
      OBVIOUS
    <3>1. Steered(Len(up))
      BY <1>1, <1>2
    <3>2. \A j \in Said : "steer" \in up[j].axes /\ j \in 1 .. Len(up)
      BY <1>0, <3>1 DEF Steered
    <3>3. up'[Len(up) + 1].axes = axes
      BY <2>3
    <3> QED BY <1>3, <2>3, <3>1, <3>2, <3>3 DEF Steered
  <2>6. "steer" \in axes => \A i : Steered(i)'
    BY <2>5 DEF Steered
  <2>7. "steer" \in sent' => Steered(Len(up))'
    BY <1>2, <2>5 DEF Steered
  <2>8. ASSUME NEW i \in Said'
        PROVE  "brake" \notin up'[i].axes /\ ("steer" \in up'[i].axes => Steered(i)')
    <3>1. CASE i \in Said
      <4>1. up'[i] = up[i]
        BY <1>0, <2>3, <3>1
      <4> QED BY <1>1, <2>4, <3>1, <4>1
    <3>2. CASE i = Len(up) + 1
      <4>1. up'[i].axes = axes
        BY <2>3, <3>2
      <4> QED BY <1>2, <2>6, <4>1
    <3> QED BY <2>3, <3>1, <3>2
  <2> QED BY <1>1, <1>3, <2>7, <2>8 DEF Quiet
<1> QED
  BY <1>4, <1>5

\* The driver and the sampler.
LEMMA KeysOfDriver ==
  ASSUME DriveInv, KeysInv, Driver \/ Sample
  PROVE  KeysInv'
<1>1. ASSUME NEW k \in Keys, Press(k) \/ Release(k)
      PROVE  KeysInv'
  <2>1. UNCHANGED <<slot, pressed, age, wheel>>
    BY <1>1 DEF Press, Release, world
  <2>2. Spoken'
    <3>1. CASE k = "brake"
      BY <1>1, <2>1, <3>1, EmitSpoken DEF Press, Release, KeysInv
    <3>2. CASE k # "brake"
      <4>1. UNCHANGED <<up, sent>> /\ k = "steer"
        BY <1>1, <3>2 DEF Press, Release, Keys
      <4>2. Axes(held', wheel) = Axes(held, wheel)
        BY <1>1, <4>1 DEF Press, Release, Axes
      <4> QED BY <2>1, <4>1, <4>2 DEF KeysInv, Spoken, Said
    <3> QED BY <3>1, <3>2
  <2>3. ~calm'
    BY <1>1 DEF Press, Release, KeysInv, Quiet
  <2> QED BY <2>2, <2>3 DEF KeysInv, Quiet
<1>2. ASSUME NEW m \in Modes, AskMode(m)
      PROVE  KeysInv'
  <2> DEFINE msg == [cmd |-> "set_drive_mode", mode |-> m, set |-> None, by |-> "driver"]
  <2>1. /\ up' = Append(up, msg) /\ calm' = AtRest /\ msg \in Asking \cup Reset
        /\ UNCHANGED <<slot, pressed, age, keys>>
    BY <1>2 DEF AskMode, Send, world, Asking
  <2>2. Said' = Said /\ \A i \in 1 .. Len(up) : up'[i] = up[i]
    BY <2>1, SaidSend DEF DriveInv
  <2>3. Said \subseteq 1 .. Len(up)
    BY UpIsSeq DEF DriveInv
  <2>4. Spoken'
    BY <2>1, <2>2, <2>3 DEF KeysInv, Spoken, keys
  <2>5. Quiet'
    <3> SUFFICES ASSUME AtRest PROVE Quiet'
      BY <2>1 DEF Quiet
    <3>1. /\ held = {} /\ ~tapped /\ slot = {}
          /\ \A i \in Said : up[i].axes = {}
      BY <2>3 DEF AtRest, Said
    <3>2. \A i \in Said' : up'[i].axes = {}
      BY <2>2, <2>3, <3>1
    <3>3. "steer" \in sent => Said = {} /\ Known
      BY <3>1 DEF KeysInv, Spoken, Known
    <3>4. "steer" \in sent' => Steered(Len(up))'
      BY <2>1, <2>2, <3>1, <3>3 DEF Steered, Known, keys
    <3>5. "steer" \in sent' => (\A i : Steered(i)')
      BY <2>1, <2>2, <3>1, <3>3 DEF Steered, Known, keys
    <3> QED BY <2>1, <3>1, <3>2, <3>4, <3>5 DEF Quiet, keys, Steered
  <2> QED BY <2>4, <2>5 DEF KeysInv
<1>3. CASE AskReset
  <2>1. [cmd |-> "reset"] \in Asking \cup Reset
    BY DEF Reset
  <2> QED BY <1>3, <2>1, KeysSend DEF AskReset, Send, world
<1>4. CASE Sample
  <2>1. /\ wheel' = Turned /\ ~tapped' /\ held' = held /\ calm' = calm
        /\ UNCHANGED <<slot, pressed, age>> /\ Emit(Axes(held', wheel'))
    BY <1>4 DEF Sample, world
  <2>2. Spoken'
    BY <2>1, EmitSpoken DEF KeysInv
  <2>3. calm => (wheel' > 0 => wheel > 0)
    <3> SUFFICES ASSUME calm, wheel' > 0 PROVE wheel > 0
      OBVIOUS
    <3>1. held = {} /\ ~tapped /\ wheel \in 0 .. 2
      BY DEF KeysInv, Quiet, DriveInv, TypeOK
    <3> QED BY <2>1, <3>1 DEF Turned, Greatest
  <2>4. Quiet'
    BY <2>1, <2>3, EmitQuiet
  <2> QED BY <2>2, <2>4 DEF KeysInv
<1> QED
  BY <1>1, <1>2, <1>3, <1>4 DEF Driver

\* The monitor's walk-downs are no samples.
LEMMA KeysOfBrowser ==
  ASSUME DriveInv, KeysInv, Browser
  PROVE  KeysInv'
<1>1. PICK f \in frame : See(f)
  BY DEF Browser
<1>2. UNCHANGED <<slot, pressed, age, keys, calm>>
  BY <1>1 DEF See, world
<1>3. CASE up' = up
  BY <1>2, <1>3, KeysKept
<1>4. ASSUME NEW from \in -1 .. Top, Walk(from)
      PROVE  KeysInv'
  <2>1. Greatest(from - SlowBy, 0) \in 0 .. Top
    BY DrivingAssumption DEF Greatest
  <2>2. [cmd |-> "set_drive_mode", mode |-> "autosteer",
         set |-> Greatest(from - SlowBy, 0), by |-> "monitor"] \in Asking \cup Reset
    BY <2>1 DEF Asking, Modes
  <2> QED BY <1>2, <1>4, <2>2, KeysSend DEF Walk, Send
<1>5. f.speed \in -1 .. Top /\ f.set \in -1 .. Top
  BY DrivingAssumption DEF DriveInv, TypeOK, Frame
<1> QED
  BY <1>1, <1>3, <1>4, <1>5 DEF See

\* The first sample under way becomes the one the world takes; a reset forgets
\* the keys, so whatever they say is taken for news after it.
LEMMA KeysOfReceive ==
  ASSUME DriveInv, KeysInv, Receive
  PROVE  KeysInv'
<1> DEFINE m == Head(up)
<1>1. up # <<>> /\ up' = Tail(up) /\ UNCHANGED keys /\ calm' = calm
  BY DEF Receive, SetMode, ResetWorld
<1>2. /\ Len(up') = Len(up) - 1 /\ Len(up) \in Nat \ {0} /\ Head(up) = up[1]
      /\ \A i \in 1 .. Len(up') : up'[i] = up[i + 1] /\ i + 1 \in 1 .. Len(up)
      /\ \A i \in Said' : i + 1 \in Said /\ i \in Nat \ {0}
      /\ \A i \in Said : i # 1 => i - 1 \in Said' /\ up'[i - 1] = up[i]
  BY <1>1, SaidTail DEF DriveInv
<1>3. Said \subseteq 1 .. Len(up) /\ Said' \subseteq 1 .. Len(up')
  BY DEF Said
<1>4. 1 \in Said <=> m.cmd = "drive_input"
  BY <1>2 DEF Said
<1>5. \/ /\ 1 \in Said /\ slot' = {up[1].axes} /\ UNCHANGED <<pressed, age>>
      \/ /\ 1 \notin Said /\ slot' = slot
         /\ UNCHANGED <<pressed, age>> \/ (pressed' = {} /\ age' = Stale + 1)
  BY <1>2, <1>4 DEF Receive, SetMode, ResetWorld, world
<1>6. Known => Known'
  BY <1>5, DrivingAssumption DEF Known
<1>7. Spoken'
  <2>1. sent' = Axes(held', wheel')
    BY <1>1 DEF KeysInv, Spoken, keys
  <2>2. CASE Said # {}
    <3>1. PICK i \in Said : up[i].axes = sent /\ \A j \in Said : j <= i
      BY <2>2 DEF KeysInv, Spoken
    <3>2. CASE i = 1
      <4>1. Said = {1}
        <5>1. ASSUME NEW j \in Said PROVE j = 1
          <6>1. j \in 1 .. Len(up) /\ j <= 1
            BY <1>3, <3>1, <3>2
          <6> QED BY <6>1
        <5> QED BY <3>2, <5>1
      <4>2. Said' = {}
        BY <1>2, <4>1
      <4> QED BY <1>1, <1>5, <2>1, <3>1, <3>2, <4>1, <4>2 DEF Spoken, keys
    <3>3. CASE i # 1
      <4>1. i - 1 \in Said' /\ up'[i - 1].axes = sent'
        BY <1>1, <1>2, <3>1, <3>3 DEF keys
      <4>2. ASSUME NEW j \in Said' PROVE j <= i - 1
        <5>1. j + 1 \in Said /\ j + 1 <= i /\ j \in Int /\ i \in Int
          BY <1>2, <1>3, <3>1
        <5> QED BY <5>1
      <4> QED BY <2>1, <4>1, <4>2 DEF Spoken
    <3> QED BY <3>2, <3>3
  <2>3. CASE Said = {}
    <3>1. Said' = {}
      BY <1>2, <2>3
    <3>2. IF slot = {} THEN pressed = sent \/ age > Stale ELSE slot = {sent}
      BY <2>3 DEF KeysInv, Spoken
    <3>3. IF slot' = {} THEN pressed' = sent' \/ age' > Stale ELSE slot' = {sent'}
      BY <1>1, <1>5, <2>3, <3>2, DrivingAssumption DEF keys
    <3> QED BY <2>1, <3>1, <3>3 DEF Spoken
  <2> QED BY <2>2, <2>3
<1>8. Quiet'
  <2> SUFFICES ASSUME calm PROVE Quiet'
    BY <1>1 DEF Quiet
  <2>1. /\ held = {} /\ ~tapped
        /\ \A a \in slot : "brake" \notin a /\ ("steer" \in a => Known)
        /\ \A i \in Said : "brake" \notin up[i].axes /\ ("steer" \in up[i].axes => Steered(i))
        /\ "steer" \in sent => Steered(Len(up))
    BY DEF KeysInv, Quiet
  <2>2. \A a \in slot' : "brake" \notin a /\ ("steer" \in a => Known')
    BY <1>5, <1>6, <2>1 DEF Steered
  <2>3. ASSUME NEW i \in Nat, Steered(i + 1)
        PROVE  Steered(i)'
    <3>1. \A j \in Said' : j <= i => "steer" \in up'[j].axes
      <4> SUFFICES ASSUME NEW j \in Said', j <= i PROVE "steer" \in up'[j].axes
        OBVIOUS
      <4>1. j + 1 \in Said /\ j + 1 <= i + 1 /\ up'[j] = up[j + 1]
        BY <1>2, <1>3
      <4> QED BY <2>3, <4>1 DEF Steered
    <3>2. \A a \in slot' : "steer" \in a
      BY <1>5, <2>3 DEF Steered
    <3> QED BY <1>6, <2>3, <3>1, <3>2 DEF Steered
  <2>4. ASSUME NEW i \in Said'
        PROVE  "brake" \notin up'[i].axes /\ ("steer" \in up'[i].axes => Steered(i)')
    <3>1. i + 1 \in Said /\ i \in Nat /\ up'[i] = up[i + 1]
      BY <1>2, <1>3
    <3> QED BY <2>1, <2>3, <3>1
  <2>5. "steer" \in sent' => Steered(Len(up))'
    <3>1. Len(up') \in Nat /\ Len(up') + 1 = Len(up)
      BY <1>2
    <3>2. ASSUME Steered(Len(up))
          PROVE  Steered(Len(up))'
      <4>1. \A j \in Said' : "steer" \in up'[j].axes
        <5> SUFFICES ASSUME NEW j \in Said' PROVE "steer" \in up'[j].axes
          OBVIOUS
        <5>1. j + 1 \in Said /\ j + 1 <= Len(up) /\ up'[j] = up[j + 1]
          BY <1>2, <1>3
        <5> QED BY <3>2, <5>1 DEF Steered
      <4>2. \A a \in slot' : "steer" \in a
        BY <1>2, <1>5, <3>2 DEF Steered
      <4> QED BY <1>6, <3>2, <4>1, <4>2 DEF Steered
    <3> QED BY <1>1, <2>1, <3>2 DEF keys
  <2> QED BY <1>1, <2>1, <2>2, <2>4, <2>5 DEF Quiet, keys
<1> QED
  BY <1>7, <1>8 DEF KeysInv

\* What a tick does with the keys and the mode.
LEMMA TickOfKeys ==
  ASSUME Tick
  PROVE  /\ slot' = {} /\ UNCHANGED <<up, keys, calm, strays>>
         /\ slot = {} => pressed' = Live /\ age' = Least(age + 1, Stale + 1)
         /\ slot # {} => pressed' \in slot /\ age' = 1
         /\ mode' = mode \/ mode' = "fsd" \/ (slot # {} /\ mode' = Ladder(pressed'))
  BY DEF Tick, ChangeMode

\* The world takes the sample, or lets what it holds grow old.
LEMMA KeysOfTick ==
  ASSUME DriveInv, KeysInv, Tick
  PROVE  KeysInv'
<1>1. /\ slot' = {} /\ UNCHANGED <<up, keys, calm>> /\ Said' = Said
      /\ slot = {} => pressed' = Live /\ age' = Least(age + 1, Stale + 1)
      /\ slot # {} => pressed' \in slot /\ age' = 1
  BY TickOfKeys DEF Said
<1>2. age \in Nat /\ Stale \in Nat
  BY DrivingAssumption DEF DriveInv, TypeOK
<1>3. slot = {} => (age > Stale => age' > Stale) /\ (age <= Stale => pressed' = pressed)
  BY <1>1, <1>2 DEF Live, Least
<1>4. Spoken'
  BY <1>1, <1>2, <1>3 DEF KeysInv, Spoken, keys
<1>5. ASSUME Known, \A a \in slot : "steer" \in a
      PROVE  Known'
  BY <1>1, <1>2, <1>3, <1>5 DEF Known
<1>6. ASSUME NEW i, Steered(i)
      PROVE  Steered(i)'
  BY <1>1, <1>5, <1>6 DEF Steered
<1>7. Steered(Len(up)) => Steered(Len(up))'
  BY <1>1, <1>5 DEF Steered
<1>8. Quiet'
  BY <1>1, <1>6, <1>7 DEF KeysInv, Quiet, keys
<1> QED
  BY <1>4, <1>8 DEF KeysInv

LEMMA KeysStep == DriveInv /\ KeysInv /\ [Next]_vars => KeysInv'
<1> SUFFICES ASSUME DriveInv, KeysInv, [Next]_vars PROVE KeysInv'
  OBVIOUS
<1>1. CASE Leave \/ Return
  BY <1>1, KeysKept DEF Leave, Return, world
<1>2. CASE UNCHANGED vars
  BY <1>2, KeysKept DEF vars, world
<1> QED
  BY <1>1, <1>2, KeysOfDriver, KeysOfBrowser, KeysOfReceive, KeysOfTick DEF Next

-----------------------------------------------------------------------------
(* The walk-downs under way.  A frame that shows a car engaged that was taken *)
(* over since finds the browser unaware; once it is aware, no more walk-downs *)
(* come, and those under way were counted when it was told.                   *)

Walks == {i \in 1 .. Len(up) : Walked(up[i])}

\* A frame older than a takeover is the one that did not tell of it.
Outdated == \A f \in frame : Engaged(f.mode) /\ ~Engaged(mode) => unaware

Counted == ~Engaged(mode) /\ ~unaware => Cardinality(Walks) <= strays

WalkInv == Outdated /\ Counted

LEMMA WalksFinite ==
  ASSUME TypeOK
  PROVE  IsFiniteSet(Walks) /\ Cardinality(Walks) \in Nat
<1>1. Len(up) \in Nat
  BY UpIsSeq
<1>2. IsFiniteSet(1 .. Len(up))
  BY <1>1, FS_Interval
<1>3. Walks \in SUBSET (1 .. Len(up))
  BY DEF Walks
<1> QED
  BY <1>2, <1>3, FS_Subset, FS_CardinalityType

\* A message handled is one walk-down less if it is one.
LEMMA WalksTail ==
  ASSUME TypeOK, up # <<>>, up' = Tail(up)
  PROVE  /\ Cardinality(Walks') \in Nat
         /\ Cardinality(Walks') <=
              IF Walked(Head(up)) THEN Cardinality(Walks) - 1 ELSE Cardinality(Walks)
<1> DEFINE rest == Walks \ {1}
           next == [i \in rest |-> i - 1]
<1>1. /\ Len(up') = Len(up) - 1 /\ Len(up) \in Nat \ {0} /\ Head(up) = up[1]
      /\ \A i \in 1 .. Len(up') : up'[i] = up[i + 1] /\ i + 1 \in 1 .. Len(up)
  BY SaidTail
<1>2. Walks' = {i \in 1 .. Len(up') : Walked(up'[i])}
  BY DEF Walks, Walked
<1>3. ASSUME NEW i \in rest PROVE i - 1 \in Walks'
  <2>1. i \in 1 .. Len(up) /\ i # 1 /\ Walked(up[i])
    BY DEF Walks
  <2>2. i - 1 \in 1 .. Len(up') /\ i - 1 + 1 = i
    BY <1>1, <2>1
  <2> QED BY <1>1, <1>2, <2>1, <2>2
<1>4. ASSUME NEW i \in Walks' PROVE i + 1 \in rest /\ next[i + 1] = i
  <2>1. i \in 1 .. Len(up') /\ Walked(up'[i])
    BY <1>2
  <2>2. i + 1 \in 1 .. Len(up) /\ Walked(up[i + 1]) /\ i + 1 # 1 /\ i + 1 - 1 = i
    BY <1>1, <2>1
  <2> QED BY <2>2 DEF Walks
<1>5. next \in Surjection(rest, Walks')
  <2>1. next \in [rest -> Walks']
    BY <1>3
  <2>2. \A i \in Walks' : \E k \in rest : next[k] = i
    BY <1>4
  <2> QED BY <2>1, <2>2 DEF Surjection
<1>6. IsFiniteSet(Walks) /\ Cardinality(Walks) \in Nat
  BY WalksFinite
<1>7. /\ IsFiniteSet(rest)
      /\ Cardinality(rest) = IF 1 \in Walks THEN Cardinality(Walks) - 1 ELSE Cardinality(Walks)
  BY <1>6, FS_RemoveElement
<1>8. Cardinality(Walks') <= Cardinality(rest) /\ Cardinality(Walks') \in Nat
  BY <1>5, <1>7, FS_Surjection, FS_CardinalityType
<1>9. 1 \in Walks <=> Walked(Head(up))
  BY <1>1 DEF Walks
<1> QED
  BY <1>7, <1>8, <1>9

\* A message that is no walk-down adds none.
LEMMA WalksSend ==
  ASSUME TypeOK, NEW m \in Input \cup Asking \cup Reset, ~Walked(m), up' = Append(up, m)
  PROVE  Walks' = Walks
<1>1. /\ Len(up') = Len(up) + 1 /\ up'[Len(up) + 1] = m
      /\ \A i \in 1 .. Len(up) : up'[i] = up[i]
  BY SaidSend
<1>2. Walks' = {i \in 1 .. Len(up') : Walked(up'[i])}
  BY DEF Walks, Walked
<1>3. Len(up) \in Nat
  BY UpIsSeq
<1>4. 1 .. Len(up') = 1 .. Len(up) \cup {Len(up) + 1}
  BY <1>1, <1>3
<1> QED
  BY <1>1, <1>2, <1>4 DEF Walks

LEMMA InitWalks == Init => WalkInv
  BY DEF Init, WalkInv, Outdated, Counted, Engaged

LEMMA WalksKept ==
  ASSUME WalkInv, UNCHANGED <<mode, frame, unaware, strays>>, Walks' = Walks
  PROVE  WalkInv'
  BY DEF WalkInv, Outdated, Counted

\* The driver sends no walk-downs.
LEMMA WalksOfDriver ==
  ASSUME DriveInv, WalkInv, Driver \/ Sample
  PROVE  WalkInv'
<1>1. UNCHANGED <<mode, frame, unaware, strays>>
  BY DEF Driver, Sample, Press, Release, AskMode, AskReset, world
<1>2. ASSUME NEW axes \in SUBSET Keys, Emit(axes) PROVE Walks' = Walks
  <2>1. [cmd |-> "drive_input", axes |-> axes] \in Input
    BY DEF Input
  <2>2. ~Walked([cmd |-> "drive_input", axes |-> axes])
    BY DEF Walked
  <2> QED BY <1>2, <2>1, <2>2, WalksSend DEF Emit, Send, DriveInv, Walks
<1>3. ASSUME NEW k \in Keys, Press(k) \/ Release(k) PROVE Walks' = Walks
  BY <1>2, <1>3, AxesTyped DEF Press, Release, Walks
<1>4. ASSUME NEW m \in Modes, AskMode(m) PROVE Walks' = Walks
  <2> DEFINE msg == [cmd |-> "set_drive_mode", mode |-> m, set |-> None, by |-> "driver"]
  <2>1. msg \in Asking /\ ~Walked(msg)
    BY DEF Asking, Walked
  <2> QED BY <1>4, <2>1, WalksSend DEF AskMode, Send, DriveInv
<1>5. CASE AskReset
  <2>1. [cmd |-> "reset"] \in Reset /\ ~Walked([cmd |-> "reset"])
    BY DEF Reset, Walked
  <2> QED BY <1>1, <1>5, <2>1, WalksSend, WalksKept DEF AskReset, Send, DriveInv
<1>6. CASE Sample
  BY <1>1, <1>2, <1>6, AxesTyped, WalksKept DEF Sample
<1> QED
  BY <1>1, <1>3, <1>4, <1>5, <1>6, WalksKept DEF Driver

\* A frame that tells of the takeover has the walk-downs under way counted; on
\* any other the browser stays unaware.
LEMMA WalksOfBrowser ==
  ASSUME DriveInv, WalkInv, Browser
  PROVE  WalkInv'
<1>1. PICK f \in frame : See(f)
  BY DEF Browser
<1>2. frame' = {} /\ mode' = mode /\ unaware' = (unaware /\ Engaged(f.mode))
  BY <1>1 DEF See, world
<1>3. CASE Engaged(f.mode)
  <2>1. ~Engaged(mode) => unaware'
    BY <1>2, <1>3 DEF WalkInv, Outdated, DriveInv, TypeOK
  <2> QED BY <1>2, <2>1 DEF WalkInv, Outdated, Counted, Engaged
<1>4. CASE ~Engaged(f.mode)
  <2>1. up' = up /\ strays' = Cardinality(Walks)
    BY <1>1, <1>4 DEF See, Ended, Walks
  <2>2. Walks' = Walks /\ Cardinality(Walks) \in Nat
    BY <2>1, WalksFinite DEF Walks, DriveInv
  <2> QED BY <1>2, <2>1, <2>2 DEF WalkInv, Outdated, Counted
<1> QED
  BY <1>3, <1>4

\* A command that takes the car over leaves the browser unaware.
LEMMA WalksOfReceive ==
  ASSUME DriveInv, WalkInv, Receive
  PROVE  WalkInv'
<1>0. TypeOK
  BY DEF DriveInv
<1>1. /\ up # <<>> /\ up' = Tail(up) /\ frame' = frame
      /\ strays' = IF Walked(Head(up)) /\ strays > 0 THEN strays - 1 ELSE strays
  BY DEF Receive
<1>2. \/ mode' = mode /\ unaware' = unaware
      \/ ~Engaged(mode') /\ Engaged(mode) /\ unaware'
      \/ ~Engaged(mode') /\ ~Engaged(mode) /\ unaware' = unaware
      \/ Engaged(mode')
  BY DEF Receive, SetMode, ResetWorld, world, Engaged
<1>3. ~Engaged(mode') /\ ~unaware' => ~Engaged(mode) /\ ~unaware
  BY <1>2
<1>4. Outdated'
  BY <1>1, <1>2 DEF WalkInv, Outdated, Engaged
<1>5. Counted'
  <2> SUFFICES ASSUME ~Engaged(mode'), ~unaware' PROVE Cardinality(Walks') <= strays'
    BY DEF Counted, Engaged
  <2>1. Cardinality(Walks) <= strays
    BY <1>3 DEF WalkInv, Counted
  <2>2. /\ Cardinality(Walks') \in Nat
        /\ Cardinality(Walks') <=
             IF Walked(Head(up)) THEN Cardinality(Walks) - 1 ELSE Cardinality(Walks)
    BY <1>0, <1>1, WalksTail
  <2>3. Cardinality(Walks) \in Nat /\ strays \in Nat
    BY <1>0, WalksFinite, DrivingAssumption DEF TypeOK
  <2> QED BY <1>1, <2>1, <2>2, <2>3
<1> QED
  BY <1>4, <1>5 DEF WalkInv

\* A tick that takes the car over leaves the browser unaware, and its frame
\* tells of it.
LEMMA WalksOfTick ==
  ASSUME DriveInv, WalkInv, Tick
  PROVE  WalkInv'
<1>1. /\ UNCHANGED <<up, strays>>
      /\ frame' = frame \/ \A f \in frame' : f.mode = mode'
      /\ Engaged(mode') \/ unaware' = (unaware \/ Engaged(mode))
  <2>1. UNCHANGED <<up, strays>>
    BY DEF Tick
  <2>2. frame' = frame \/ \A f \in frame' : f.mode = mode'
    BY DEF Tick, Publish
  <2>3. \/ mode' = "fsd"
        \/ unaware' = (unaware \/ (Engaged(mode) /\ ~Engaged(mode')))
    BY Zenon DEF Tick, ChangeMode
  <2> QED BY <2>1, <2>2, <2>3 DEF Engaged
<1>2. Walks' = Walks
  BY <1>1 DEF Walks
<1>3. CASE Engaged(mode')
  BY <1>3 DEF WalkInv, Outdated, Counted, Engaged
<1>4. CASE ~Engaged(mode') /\ unaware' = (unaware \/ Engaged(mode))
  <2>1. Outdated'
    <3>1. CASE frame' = frame
      BY <1>4, <3>1 DEF WalkInv, Outdated, Engaged
    <3>2. CASE \A f \in frame' : f.mode = mode'
      BY <1>4, <3>2 DEF Outdated, Engaged
    <3> QED BY <1>1, <3>1, <3>2
  <2>2. Counted'
    BY <1>1, <1>2, <1>4 DEF WalkInv, Counted, Engaged
  <2> QED BY <2>1, <2>2 DEF WalkInv
<1> QED
  BY <1>1, <1>3, <1>4

LEMMA WalksStep == DriveInv /\ WalkInv /\ [Next]_vars => WalkInv'
<1> SUFFICES ASSUME DriveInv, WalkInv, [Next]_vars PROVE WalkInv'
  OBVIOUS
<1>1. CASE Leave \/ Return
  BY <1>1, WalksKept DEF Leave, Return, world, Walks
<1>2. CASE UNCHANGED vars
  BY <1>2, WalksKept DEF vars, world, Walks
<1> QED
  BY <1>1, <1>2, WalksOfDriver, WalksOfBrowser, WalksOfReceive, WalksOfTick DEF Next

-----------------------------------------------------------------------------
(* Theorems. *)

LEMMA DriveAlways == Spec => []DriveInv
BY InitDrive, DriveStep, PTL DEF Spec

\* World, keys, monitor and the messages between them keep their types.
THEOREM TypeCorrect == Spec => []TypeOK
<1>1. DriveInv => TypeOK
  BY DEF DriveInv
<1> QED
  BY <1>1, DriveAlways, PTL

\* In whatever order commands, keys and evasions reach the world: only Manual
\* backs up, and a set speed is there exactly where the mode steers for one.
THEOREM ModesAgree == Spec => []ModesCoherent
<1>1. DriveInv => ModesCoherent
  BY DEF DriveInv
<1> QED
  BY <1>1, DriveAlways, PTL

\* For any delay of the keys and any number of messages: a mode asked for with
\* the keys at rest is not undone by the wheel coming back.
THEOREM AskedModeStands == Spec => AskStands
<1>1. DriveInv /\ KeysInv /\ [Next]_vars =>
        (calm /\ calm' /\ slot # {} /\ slot' = {} /\ Engaged(mode) /\ ~Engaged(mode')
           => age > Stale)
  <2> SUFFICES ASSUME DriveInv, KeysInv, [Next]_vars, calm, slot # {}, slot' = {},
                      Engaged(mode), ~Engaged(mode'), ~(age > Stale)
               PROVE  FALSE
    OBVIOUS
  <2>1. Tick
    BY DEF Next, Driver, Press, Release, AskMode, AskReset, Sample, Browser, See,
           Receive, SetMode, ResetWorld, Leave, Return, vars, world
  <2>2. pressed' \in slot /\ mode' = Ladder(pressed')
    BY <2>1, TickOfKeys DEF Engaged
  <2>3. "brake" \notin pressed' /\ ("steer" \in pressed' => "steer" \in pressed)
    BY <2>2 DEF KeysInv, Quiet, Known
  <2>4. age <= Stale
    BY DrivingAssumption DEF DriveInv, TypeOK
  <2>5. "steer" \notin Fresh(pressed') /\ "brake" \notin Fresh(pressed')
    BY <2>3, <2>4 DEF Fresh, Live
  <2>6. mode' = mode
    BY <2>2, <2>5 DEF Ladder
  <2> QED BY <2>6
<1>2. Spec => [](DriveInv /\ KeysInv)
  BY InitDrive, InitKeys, DriveAlways, KeysStep, PTL DEF Spec
<1> QED
  BY <1>1, <1>2, PTL DEF Spec, AskStands

\* However many walk-downs are under way and however old the frame they were
\* decided on: none undoes a takeover the browser had been told of.
THEOREM TakeoverAlwaysStands == Spec => TakeoverStands
<1>1. DriveInv /\ WalkInv /\ [Next]_vars =>
        (~Engaged(mode) /\ Engaged(mode') /\ up # <<>> /\ up' = Tail(up) /\ Walked(Head(up))
           => unaware \/ strays > 0)
  <2> SUFFICES ASSUME DriveInv, WalkInv, ~Engaged(mode), ~unaware, up # <<>>,
                      Walked(Head(up))
               PROVE  strays > 0
    OBVIOUS
  <2>1. Cardinality(Walks) <= strays
    BY DEF WalkInv, Counted
  <2>2. 1 \in Walks
    <3>1. Len(up) \in Nat /\ up \in Seq(Input \cup Asking \cup Reset)
      BY UpIsSeq DEF DriveInv
    <3>2. Len(up) # 0 /\ Head(up) = up[1]
      BY <3>1, EmptySeq DEF Head
    <3> QED BY <3>1, <3>2 DEF Walks
  <2>3. IsFiniteSet(Walks) /\ Cardinality(Walks) \in Nat /\ Cardinality(Walks) # 0
    BY <2>2, WalksFinite, FS_EmptySet DEF DriveInv
  <2>4. strays \in Nat
    BY DrivingAssumption DEF DriveInv, TypeOK
  <2> QED BY <2>1, <2>3, <2>4
<1>2. Spec => [](DriveInv /\ WalkInv)
  BY InitDrive, InitWalks, DriveAlways, WalksStep, PTL DEF Spec
<1> QED
  BY <1>1, <1>2, PTL DEF Spec, TakeoverStands
=============================================================================
