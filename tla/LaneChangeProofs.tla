-------------------------- MODULE LaneChangeProofs --------------------------
(***************************************************************************)
(* Theorems about LaneChange, for any timers, any road and any number of   *)
(* leads: its types, that the aim of the steering never jumps, that a lead *)
(* is left alone after a failure, that a car off its lane is said to be,   *)
(* and that it is home before the second lane ends.                        *)
(***************************************************************************)
EXTENDS LaneChange, TLAPS

-----------------------------------------------------------------------------
(* The inductive invariant.  The blend is what the phase's clock says, so   *)
(* that a hand-over between phases finds it where the next one starts; and  *)
(* the cooldown and the time since the failure are one clock read twice.    *)

Ramped(c) ==
  c.blend = IF c.phase = "none" THEN 0
            ELSE IF c.phase = "returning" THEN Max2(c.turned - c.elapsed, 0)
            ELSE Min2(c.elapsed, Ramp)

Rests == \A x \in Leads : cooldown[x] + failedAgo[x] = Retry

LaneInv == TypeOK /\ Ramped(change) /\ Rests

\* The constants as the provers want them.
LEMMA Numbers ==
  /\ Road \in Nat \ {0} /\ LaneEnd \in Nat /\ Ramp \in Nat \ {0} /\ OutMax \in Nat /\ PassMax \in Nat
  /\ ReturnMaxS \in Nat /\ ReturnMaxM \in Nat /\ Retry \in Nat \ {0} /\ Lag \in Nat
  /\ StopMax \in Nat \ {0} /\ Pickup \in Nat
  /\ Ramp < OutMax /\ Ramp < ReturnMaxS
BY LaneAssumption

LEMMA ClockBounds ==
  /\ Max2(OutMax, ReturnMaxS) \in Nat
  /\ OutMax <= Max2(OutMax, ReturnMaxS) /\ ReturnMaxS <= Max2(OutMax, ReturnMaxS)
BY Numbers DEF Max2

-----------------------------------------------------------------------------
(* What the phases make of a change, field by field. *)

\* It goes on, a tick older or not.
GoesOn(c, d) ==
  /\ d \in Changes
  /\ d.dir = c.dir /\ d.lead = c.lead /\ d.turned = c.turned /\ d.requested = c.requested
  /\ \/ d.phase = "returning" /\ c.phase = "returning" /\ d.elapsed = Min2(c.elapsed + 1, ReturnMaxS)
     \/ /\ d.phase \in {"outbound", "passing"} /\ c.phase \in {"outbound", "passing"}
        /\ d.elapsed = Min2(c.elapsed + 1, OutMax)

\* It is turned round where the aim stands.
TurnsRound(c, d) ==
  /\ d \in Changes
  /\ c.phase \in {"outbound", "passing"} /\ d.phase = "returning"
  /\ d.dir = -c.dir /\ d.lead = c.lead /\ d.turned = c.blend /\ d.elapsed = 0 /\ d.blend = c.blend

\* It is over: the car is home, or the aim has long been.
IsOver(c, d) ==
  /\ d = NoChange
  /\ offset = 0 \/ (c.phase = "returning" /\ c.elapsed + 1 >= ReturnMaxS)

LEMMA NoChangeTyped == NoChange \in Changes /\ NoChange.phase = "none" /\ NoChange.blend = 0
BY Numbers, ClockBounds DEF NoChange, Changes

LEMMA OlderGoesOn ==
  ASSUME NEW c \in Changes, c.phase # "none"
  PROVE  GoesOn(c, Older(c))
<1> USE Numbers, ClockBounds
<1>1. CASE c.phase = "returning"
  <2>1. Min2(c.elapsed + 1, ReturnMaxS) \in 0 .. Max2(OutMax, ReturnMaxS)
    BY DEF Min2, Changes
  <2>2. Min2(c.back + Moved, ReturnMaxM) \in 0 .. ReturnMaxM
    BY DEF Min2, Changes, Moved
  <2> QED
    BY <1>1, <2>1, <2>2 DEF Older, GoesOn, Changes
<1>2. CASE c.phase # "returning"
  <2>1. Min2(c.elapsed + 1, OutMax) \in 0 .. Max2(OutMax, ReturnMaxS)
    BY DEF Min2, Changes
  <2> QED
    BY <1>2, <2>1 DEF Older, GoesOn, Changes
<1> QED
  BY <1>1, <1>2

LEMMA TurnedTurnsRound ==
  ASSUME NEW c \in Changes, c.phase \in {"outbound", "passing"}
  PROVE  TurnsRound(c, Turned(c))
<1>1. -c.dir \in {-1, 0, 1} /\ 0 \in 0 .. Max2(OutMax, ReturnMaxS) /\ 0 \in 0 .. PassMax
  BY Numbers, ClockBounds DEF Changes
<1> QED
  BY <1>1 DEF Turned, TurnsRound, Changes

\* A change that went on a tick, turned round, is the change turned round.
LEMMA TurnedLater ==
  ASSUME NEW c \in Changes, NEW d, GoesOn(c, d), d.phase # "returning", d.blend = c.blend
  PROVE  TurnsRound(c, Turned(d))
BY TurnedTurnsRound DEF GoesOn, TurnsRound

LEMMA BackHome ==
  ASSUME NEW c \in Changes, NEW d, (GoesOn(c, d) /\ d.phase = "returning") \/ TurnsRound(c, d)
  PROVE  AdvanceReturn(d) = d \/ IsOver(c, AdvanceReturn(d))
<1> USE Numbers, ClockBounds
<1>1. CASE GoesOn(c, d) /\ d.phase = "returning"
  <2>1. d.elapsed = Min2(c.elapsed + 1, ReturnMaxS) /\ c.elapsed \in Nat /\ c.phase = "returning"
    BY <1>1 DEF GoesOn, Changes
  <2>2. d.elapsed >= ReturnMaxS => c.elapsed + 1 >= ReturnMaxS
    BY <2>1 DEF Min2
  <2> QED
    BY <2>1, <2>2 DEF AdvanceReturn, IsOver
<1>2. CASE TurnsRound(c, d)
  BY <1>2 DEF TurnsRound, AdvanceReturn, IsOver
<1> QED
  BY <1>1, <1>2

\* A tick drives a cell at most, and none at a standstill.
LEMMA Drives01 == Drive \subseteq {0, 1} /\ (stopsIn = 0 => Drive = {0})
BY DEF Drive

\* A step with a change under way.
LEMMA ChangeStep ==
  ASSUME TypeOK, Changing, NEW line \in BOOLEAN, NEW s \in Stepped(line)
  PROVE  GoesOn(change, s) \/ TurnsRound(change, s) \/ IsOver(change, s)
<1> DEFINE o == Older(change)
<1>1. change \in Changes /\ change.phase # "none"
  BY DEF TypeOK, Changing
<1>2. GoesOn(change, o) /\ o.blend = change.blend /\ o.phase = change.phase
  BY <1>1, OlderGoesOn DEF Older, Changes
<1>3. CASE line
  <2>1. s = AdvanceReturn(IF change.phase = "returning" THEN o ELSE Turned(change))
    BY <1>3 DEF Stepped, JunctionAbort
  <2>2. CASE change.phase = "returning"
    BY <1>1, <1>2, <2>1, <2>2, BackHome
  <2>3. CASE change.phase # "returning"
    <3>1. TurnsRound(change, Turned(change))
      BY <1>1, <2>3, TurnedTurnsRound DEF Changes
    <3> QED
      BY <1>1, <2>1, <2>3, <3>1, BackHome
  <2> QED
    BY <2>2, <2>3
<1>4. CASE ~line
  <2>1. s = Advance(o)
    BY <1>4 DEF Stepped
  <2>2. CASE o.phase = "returning"
    BY <1>1, <1>2, <2>1, <2>2, BackHome DEF Advance
  <2>3. CASE o.phase # "returning" /\ LaneRunsOut(o)
    <3>1. TurnsRound(change, Turned(o))
      BY <1>1, <1>2, <2>3, TurnedLater
    <3> QED
      BY <1>1, <2>1, <2>3, <3>1, BackHome DEF Advance
  <2>4. CASE o.phase = "passing" /\ ~LaneRunsOut(o)
    <3> DEFINE p == [o EXCEPT !.passing = Min2(o.passing + 1, PassMax)]
    <3>1. Min2(o.passing + 1, PassMax) \in 0 .. PassMax
      BY <1>2, Numbers DEF GoesOn, Changes, Min2
    <3>2. GoesOn(change, p) /\ p.blend = change.blend /\ p.phase # "returning"
      BY <1>2, <2>4, <3>1 DEF GoesOn, Changes
    <3>3. TurnsRound(change, Turned(p))
      BY <1>1, <3>2, TurnedLater
    <3>4. s = p \/ s = Turned(p)
      BY <2>1, <2>4 DEF Advance, AdvancePass
    <3> QED
      BY <3>2, <3>3, <3>4
  <2>5. CASE o.phase = "outbound" /\ ~LaneRunsOut(o)
    <3>1. s \in {[o EXCEPT !.phase = "passing"], Turned(o), o}
      BY <2>1, <2>5 DEF Advance, AdvanceOutbound
    <3>2. GoesOn(change, [o EXCEPT !.phase = "passing"])
      BY <1>2, <2>5 DEF GoesOn, Changes
    <3>3. TurnsRound(change, Turned(o))
      BY <1>1, <1>2, <2>5, TurnedLater
    <3> QED
      BY <1>2, <3>1, <3>2, <3>3
  <2> QED
    BY <1>1, <1>2, <2>2, <2>3, <2>4, <2>5 DEF Changes
<1> QED
  BY <1>3, <1>4

\* A step without one.
LEMMA FreshStep ==
  ASSUME TypeOK, ~Changing, NEW line \in BOOLEAN, NEW s \in Stepped(line)
  PROVE  \/ s = NoChange
         \/ /\ s \in Changes /\ s.phase = "outbound" /\ s.elapsed = 0
            /\ s.lead \in Leads /\ Rested(cooldown[s.lead]) = 0
<1>1. s = NoChange \/ s \in Overtakes
  BY DEF Stepped
<1>2. ASSUME s \in Overtakes
      PROVE  /\ s \in Changes /\ s.phase = "outbound" /\ s.elapsed = 0
             /\ s.lead \in Leads /\ Rested(cooldown[s.lead]) = 0
  <2>1. PICK x \in slow, side \in {1, -1} :
          /\ s = [NoChange EXCEPT !.phase = "outbound", !.dir = side, !.lead = x]
          /\ Rested(cooldown[x]) = 0
    BY <1>2 DEF Overtakes
  <2>2. x \in Leads
    BY DEF TypeOK
  <2>3. /\ s.phase = "outbound" /\ s.elapsed = 0 /\ s.lead = x
    BY <2>1 DEF NoChange
  <2>4. s \in Changes
    <3>1. side \in {-1, 0, 1} /\ x \in Leads \cup {NoLead}
      BY <2>2
    <3> QED
      BY <2>1, <3>1, NoChangeTyped DEF Changes
  <2> QED
    BY <2>1, <2>2, <2>3, <2>4
<1> QED
  BY <1>1, <1>2

-----------------------------------------------------------------------------
(* The blend of the step. *)

LEMMA BlendedFields ==
  ASSUME NEW c \in Changes
  PROVE  /\ Blended(c) \in Changes
         /\ Ramped(Blended(c))
         /\ Blended(c).phase = c.phase /\ Blended(c).dir = c.dir /\ Blended(c).lead = c.lead
         /\ Blended(c).turned = c.turned /\ Blended(c).elapsed = c.elapsed
<1> DEFINE b == IF c.phase = "none" THEN 0
                ELSE IF c.phase = "returning" THEN Max2(c.turned - c.elapsed, 0)
                ELSE Min2(c.elapsed, Ramp)
<1>1. b \in 0 .. Ramp
  BY Numbers, ClockBounds DEF Changes, Max2, Min2
<1>2. Blended(c) = [c EXCEPT !.blend = b]
  BY DEF Blended
<1> QED
  BY <1>1, <1>2 DEF Changes, Ramped

LEMMA BlendedNone == Blended(NoChange) = NoChange
<1>1. Blended(NoChange) = [NoChange EXCEPT !.blend = 0]
  BY NoChangeTyped DEF Blended
<1>2. \A c \in Changes : c.blend = 0 => [c EXCEPT !.blend = 0] = c
  BY DEF Changes
<1> QED
  BY <1>1, <1>2, NoChangeTyped

\* A step moves the aim by at most what the ramp does in a tick, or brings it
\* to where the car is.
LEMMA AimStep ==
  ASSUME LaneInv, NEW line \in BOOLEAN, NEW s \in Stepped(line)
  PROVE  \/ Aim(Blended(s)) - Aim(change) \in -1 .. 1
         \/ Aim(Blended(s)) = 0 /\ offset = 0
<1> USE Numbers, ClockBounds
<1> DEFINE b == Blended(s)
<1>1. TypeOK /\ Ramped(change) /\ change \in Changes
  BY DEF LaneInv, TypeOK
<1>2. Aim(NoChange) = 0
  BY DEF Aim, AwaySide, NoChange
<1>3. CASE ~Changing
  <2>1. change = NoChange
    BY <1>1, <1>3 DEF TypeOK, Changing
  <2>2. CASE s = NoChange
    BY <1>2, <2>1, <2>2, BlendedNone
  <2>3. CASE s # NoChange
    <3>1. s \in Changes /\ s.phase = "outbound" /\ s.elapsed = 0
      BY <1>1, <1>3, <2>3, FreshStep
    <3>2. b.blend = 0 /\ b.dir \in {-1, 0, 1} /\ b.phase = "outbound"
      BY <3>1, BlendedFields DEF Ramped, Min2, Changes
    <3>3. Aim(b) = 0
      BY <3>2 DEF Aim, AwaySide
    <3> QED
      BY <1>2, <2>1, <3>3
  <2> QED
    BY <2>2, <2>3
<1>4. CASE Changing
  <2>1. GoesOn(change, s) \/ TurnsRound(change, s) \/ IsOver(change, s)
    BY <1>1, <1>4, ChangeStep
  <2>2. ASSUME s \in Changes,
               AwaySide(b) = AwaySide(change), AwaySide(change) \in {-1, 0, 1},
               b.blend - change.blend \in -1 .. 1
        PROVE  Aim(b) - Aim(change) \in -1 .. 1
    <3>1. b.blend \in 0 .. Ramp /\ change.blend \in 0 .. Ramp
      BY <1>1, <2>2, BlendedFields DEF Changes
    <3>2. CASE AwaySide(change) = 0
      BY <2>2, <3>1, <3>2 DEF Aim
    <3>3. CASE AwaySide(change) = 1
      BY <2>2, <3>1, <3>3 DEF Aim
    <3>4. CASE AwaySide(change) = -1
      BY <2>2, <3>1, <3>4 DEF Aim
    <3> QED
      BY <2>2, <3>2, <3>3, <3>4
  <2>3. change.dir \in {-1, 0, 1} /\ AwaySide(change) \in {-1, 0, 1}
        /\ change.elapsed \in Nat /\ change.blend \in 0 .. Ramp /\ change.turned \in 0 .. Ramp
    BY <1>1, ClockBounds DEF Changes, AwaySide
  <2>4. CASE GoesOn(change, s)
    <3>1. /\ s \in Changes /\ b.dir = change.dir /\ b.turned = change.turned
          /\ b.phase = s.phase /\ b.elapsed = s.elapsed /\ Ramped(b)
      BY <2>4, BlendedFields DEF GoesOn
    <3>2. AwaySide(b) = AwaySide(change)
      BY <2>4, <3>1 DEF GoesOn, AwaySide
    <3>3. b.blend - change.blend \in -1 .. 1
      <4>1. CASE s.phase = "returning"
        <5>1. /\ b.blend = Max2(change.turned - Min2(change.elapsed + 1, ReturnMaxS), 0)
              /\ change.blend = Max2(change.turned - change.elapsed, 0)
          BY <1>1, <2>4, <3>1, <4>1 DEF GoesOn, Ramped
        <5> QED
          BY <2>3, <5>1 DEF Max2, Min2
      <4>2. CASE s.phase # "returning"
        <5>1. /\ b.blend = Min2(Min2(change.elapsed + 1, OutMax), Ramp)
              /\ change.blend = Min2(change.elapsed, Ramp)
          BY <1>1, <2>4, <3>1, <4>2 DEF GoesOn, Ramped
        <5> QED
          BY <2>3, <5>1 DEF Min2
      <4> QED
        BY <4>1, <4>2
    <3> QED
      BY <2>2, <2>3, <3>1, <3>2, <3>3
  <2>5. CASE TurnsRound(change, s)
    <3>1. /\ s \in Changes /\ b.dir = -change.dir /\ b.turned = change.blend
          /\ b.phase = "returning" /\ b.elapsed = 0 /\ Ramped(b)
      BY <2>5, BlendedFields DEF TurnsRound
    <3>2. AwaySide(b) = AwaySide(change)
      BY <2>3, <2>5, <3>1 DEF TurnsRound, AwaySide
    <3>3. b.blend = change.blend
      BY <2>3, <3>1 DEF Ramped, Max2
    <3> QED
      BY <2>2, <2>3, <3>1, <3>2, <3>3
  <2>6. CASE IsOver(change, s)
    <3>1. Aim(b) = 0
      BY <1>2, <2>6, BlendedNone DEF IsOver
    <3>2. ASSUME offset # 0 PROVE Aim(change) = 0
      <4>1. change.phase = "returning" /\ change.elapsed >= Ramp
        BY <2>3, <2>6, <3>2 DEF IsOver
      <4>2. change.blend = 0
        BY <1>1, <2>3, <4>1 DEF Ramped, Max2
      <4> QED
        BY <2>3, <4>2 DEF Aim
    <3> QED
      BY <3>1, <3>2
  <2> QED
    BY <2>1, <2>4, <2>5, <2>6
<1> QED
  BY <1>3, <1>4

-----------------------------------------------------------------------------
(* The steps of the invariant. *)

LEMMA InitLane == Init => LaneInv
<1> SUFFICES ASSUME Init PROVE LaneInv
  OBVIOUS
<1>1. TypeOK
  <2>1. /\ pos \in 0 .. Road - 1 /\ offset \in -Ramp .. Ramp /\ lagged \in 0 .. Lag
        /\ stopsIn \in 0 .. StopMax /\ driver \in BOOLEAN /\ atLine \in BOOLEAN
        /\ trip \in Trips
    <3>1. 0 \in 0 .. Road - 1 /\ 0 \in -Ramp .. Ramp /\ 0 \in 0 .. Lag /\ 0 \in 0 .. StopMax
      BY Numbers
    <3> QED
      BY <3>1 DEF Init, Trips
  <2>2. cooldown \in [Leads -> 0 .. Retry] /\ failedAgo \in [Leads -> 0 .. Retry]
    BY Numbers DEF Init
  <2>3. gap \in [Leads -> Gaps] /\ slow \subseteq Leads
    BY DEF Init, Gaps
  <2>4. change \in Changes /\ ((change = NoChange) <=> (change.phase = "none"))
    BY NoChangeTyped DEF Init
  <2> QED
    BY <2>1, <2>2, <2>3, <2>4 DEF TypeOK
<1>2. Ramped(change) /\ Rests
  BY Numbers, NoChangeTyped DEF Init, Ramped, Rests
<1> QED
  BY <1>1, <1>2 DEF LaneInv

\* What a tick makes of the change, typed.
LEMMA SteppedTyped ==
  ASSUME TypeOK, NEW line \in BOOLEAN, NEW s \in Stepped(line)
  PROVE  s \in Changes /\ (s = NoChange <=> s.phase = "none")
<1>1. CASE Changing
  <2>1. GoesOn(change, s) \/ TurnsRound(change, s) \/ IsOver(change, s)
    BY <1>1, ChangeStep
  <2> QED
    BY <2>1, NoChangeTyped DEF GoesOn, TurnsRound, IsOver
<1>2. CASE ~Changing
  BY <1>2, FreshStep, NoChangeTyped
<1> QED
  BY <1>1, <1>2

LEMMA SteeredTyped ==
  ASSUME TypeOK, NEW c \in Changes, NEW o \in Steered(c)
  PROVE  /\ o \in -Ramp .. Ramp
         /\ stopsIn # 0 /\ ~driver /\ o # Toward(Aim(c)) => lagged < Lag
<1> USE Numbers
<1>1. offset \in -Ramp .. Ramp
  BY DEF TypeOK
<1>2. Aim(c) \in -Ramp .. Ramp
  <2>1. c.blend \in 0 .. Ramp /\ AwaySide(c) \in {-1, 0, 1}
    BY DEF Changes, AwaySide
  <2>2. CASE AwaySide(c) = 0
    BY <2>1, <2>2 DEF Aim
  <2>3. CASE AwaySide(c) = 1
    BY <2>1, <2>3 DEF Aim
  <2>4. CASE AwaySide(c) = -1
    BY <2>1, <2>4 DEF Aim
  <2> QED
    BY <2>1, <2>2, <2>3, <2>4
<1>3. Toward(Aim(c)) \in -Ramp .. Ramp
  BY <1>1, <1>2 DEF Toward
<1>4. Lateral \subseteq -Ramp .. Ramp
  <2> SUFFICES ASSUME NEW d \in Sides, NEW u \in 0 .. Ramp PROVE d * u \in -Ramp .. Ramp
    BY DEF Lateral
  <2>1. d = 1 \/ d = -1
    BY LaneAssumption
  <2> QED
    BY <2>1
<1> QED
  BY <1>1, <1>3, <1>4 DEF Steered

\* A tick, with the change it makes and the cells it drives picked.
TickMakes(s, n) ==
  /\ change' = Blended(s)
  /\ offset' \in Steered(change')
  /\ pos' = (pos + n) % Road
  /\ stopsIn' \in Speeds
  /\ lagged' = IF s = NoChange \/ driver \/ stopsIn = 0 \/ offset' = Toward(Aim(change'))
                 THEN (IF s = NoChange THEN 0 ELSE lagged)
                 ELSE lagged + 1
  /\ trip' = Relied(s, n)
  /\ driver' = driver

LEMMA TickPicks ==
  ASSUME Tick
  PROVE  \E line \in BOOLEAN, n \in Drive : \E s \in Stepped(line) : TickMakes(s, n)
BY DEF Tick, TickMakes

\* What a tick makes of the history.
LEMMA TickTrip ==
  ASSUME TypeOK, NEW n \in Drive, NEW s, TickMakes(s, n)
  PROVE  /\ trip' \in Trips
         /\ ByHand' <=> driver \/ (ByHand /\ ~(offset' = 0 /\ s = NoChange))
         /\ ~ByHand' /\ ~Beside' /\ s # NoChange => ~Beside /\ ~Alongside(change)
         /\ ~ByHand' /\ ~Beside' /\ s.phase = "returning" =>
              LET begun == IF Returning THEN trip ELSE Begun
              IN  trip' = IF begun = "braking" /\ ~Brakes(n) THEN "unbraked" ELSE begun
<1>1. trip' = Relied(s, n) /\ trip \in Trips
  BY DEF TickMakes, TypeOK
<1>2. Begun \in {"ramp", "braking"}
  BY DEF Begun
<1>3. CASE driver \/ (ByHand /\ ~(offset' = 0 /\ s = NoChange))
  BY <1>1, <1>3 DEF Relied, ByHand, Trips
<1>4. CASE ~(driver \/ (ByHand /\ ~(offset' = 0 /\ s = NoChange)))
  <2>1. CASE s # NoChange /\ (Beside \/ Alongside(change))
    BY <1>1, <1>4, <2>1 DEF Relied, ByHand, Beside, Trips
  <2>2. CASE ~(s # NoChange /\ (Beside \/ Alongside(change)))
    <3>1. trip' = IF s.phase # "returning" THEN "ramp"
                  ELSE LET begun == IF Returning THEN trip ELSE Begun
                       IN  IF begun = "braking" /\ ~Brakes(n) THEN "unbraked" ELSE begun
      BY <1>1, <1>4, <2>2 DEF Relied
    <3>2. s.phase = "returning" => s # NoChange
      BY DEF NoChange
    <3>3. s.phase = "returning" => ~ByHand /\ ~Beside
      BY <1>4, <2>2, <3>2
    <3> QED
      BY <1>1, <1>2, <1>4, <2>2, <3>1, <3>3 DEF ByHand, Beside, Trips
  <2> QED
    BY <2>1, <2>2
<1> QED
  BY <1>3, <1>4

LEMMA TickKeeps ==
  ASSUME LaneInv, Tick
  PROVE  LaneInv'
<1> USE Numbers
<1>t. TypeOK
  BY DEF LaneInv
<1>1. PICK line \in BOOLEAN, n \in Drive : \E s \in Stepped(line) :
        /\ atLine' = (line /\ s = NoChange)
        /\ LET failed == IF Changing /\ ~line THEN Declined(Older(change)) ELSE {}
           IN  /\ cooldown' = [x \in Leads |-> IF x \in failed THEN Retry
                                               ELSE Rested(cooldown[x])]
               /\ failedAgo' = [x \in Leads |-> IF x \in failed THEN 0
                                                ELSE Min2(failedAgo[x] + 1, Retry)]
        /\ TickMakes(s, n)
        /\ Traffic
  BY DEF Tick, TickMakes
<1>s. PICK s \in Stepped(line) :
        /\ atLine' = (line /\ s = NoChange)
        /\ TickMakes(s, n)
  BY <1>1
<1>2. s \in Changes /\ (s = NoChange <=> s.phase = "none")
  BY <1>t, SteppedTyped
<1>3. /\ change' \in Changes /\ Ramped(change')
      /\ (change' = NoChange) <=> (change'.phase = "none")
  BY <1>s, <1>2, BlendedFields, BlendedNone, NoChangeTyped DEF TickMakes
<1>4. offset' \in -Ramp .. Ramp /\ lagged' \in 0 .. Lag
  <2>1. lagged \in 0 .. Lag /\ Lag \in Nat
    BY <1>t DEF TypeOK
  <2>2. /\ offset' \in -Ramp .. Ramp
        /\ stopsIn # 0 /\ ~driver /\ offset' # Toward(Aim(change')) => lagged < Lag
    BY <1>s, <1>3, <1>t, SteeredTyped DEF TickMakes
  <2> QED
    BY <1>s, <2>1, <2>2 DEF TickMakes
<1>5. pos' \in 0 .. Road - 1
  <2>1. pos \in 0 .. Road - 1 /\ n \in {0, 1}
    BY <1>t, Drives01 DEF TypeOK
  <2> QED
    BY <1>s, <2>1 DEF TickMakes
<1>6. gap' \in [Leads -> Gaps] /\ slow' \subseteq Leads
  BY <1>1 DEF Traffic
<1>7. /\ cooldown' \in [Leads -> 0 .. Retry] /\ failedAgo' \in [Leads -> 0 .. Retry]
      /\ Rests'
  <2>1. \A x \in Leads : /\ cooldown[x] \in 0 .. Retry /\ failedAgo[x] \in 0 .. Retry
                         /\ cooldown[x] + failedAgo[x] = Retry
    BY DEF LaneInv, TypeOK, Rests
  <2>2. \A x \in Leads : /\ Rested(cooldown[x]) \in 0 .. Retry
                         /\ Min2(failedAgo[x] + 1, Retry) \in 0 .. Retry
                         /\ Rested(cooldown[x]) + Min2(failedAgo[x] + 1, Retry) = Retry
    <3> TAKE x \in Leads
    <3>1. \A c, f \in 0 .. Retry : c + f = Retry =>
            /\ Rested(c) \in 0 .. Retry /\ Min2(f + 1, Retry) \in 0 .. Retry
            /\ Rested(c) + Min2(f + 1, Retry) = Retry
      BY DEF Rested, Max2, Min2
    <3> QED
      BY <2>1, <3>1
  <2> QED
    BY <1>1, <2>2 DEF Rests
<1>8. driver' \in BOOLEAN /\ atLine' \in BOOLEAN /\ trip' \in Trips
  <2>1. driver' \in BOOLEAN /\ atLine' \in BOOLEAN
    BY <1>s, <1>t DEF TypeOK, TickMakes
  <2> QED
    BY <1>s, <1>t, <2>1, TickTrip
<1>9. stopsIn' \in 0 .. StopMax
  <2>1. stopsIn \in 0 .. StopMax
    BY <1>t DEF TypeOK
  <2>2. Min2(stopsIn + Pickup, StopMax) \in 0 .. StopMax
    BY <2>1 DEF Min2
  <2>3. Speeds \subseteq 0 .. StopMax
    BY <2>2 DEF Speeds
  <2> QED
    BY <1>s, <2>3 DEF TickMakes
<1> QED
  BY <1>3, <1>4, <1>5, <1>6, <1>7, <1>8, <1>9 DEF LaneInv, TypeOK

LEMMA SignalKeeps ==
  ASSUME LaneInv, NEW d \in {1, -1}, SignalHome(d) \/ SignalOut(d)
  PROVE  LaneInv'
<1> USE Numbers
<1>t. TypeOK /\ change \in Changes
  BY DEF LaneInv, TypeOK
<1>1. UNCHANGED <<car, gap, slow, driver, atLine, cooldown, failedAgo>> /\ trip' \in Trips
  BY <1>t DEF SignalHome, SignalOut, Begun, TypeOK, Trips
<1>2. change' \in Changes /\ change'.phase # "none" /\ Ramped(change')
  <2>1. CASE SignalHome(d)
    <3>1. change.phase \in {"outbound", "passing"}
      BY <1>t, <2>1, NoChangeTyped DEF SignalHome, Returning, TypeOK, Changes, NoChange
    <3>2. TurnsRound(change, change')
      BY <1>t, <2>1, <3>1, TurnedTurnsRound DEF SignalHome
    <3> QED
      BY <1>t, <3>2 DEF TurnsRound, Ramped, Max2, Changes
  <2>2. CASE SignalOut(d)
    <3>1. change' = [NoChange EXCEPT !.phase = "outbound", !.dir = d, !.requested = TRUE]
      BY <2>2 DEF SignalOut
    <3>2. change' \in Changes /\ change'.phase = "outbound"
      BY <3>1, NoChangeTyped DEF Changes
    <3>3. change'.blend = 0 /\ change'.elapsed = 0
      BY <3>1 DEF NoChange
    <3> QED
      BY <3>2, <3>3 DEF Ramped, Min2
  <2> QED
    BY <2>1, <2>2
<1>3. (change' = NoChange) <=> (change'.phase = "none")
  BY <1>2, NoChangeTyped
<1> QED
  BY <1>1, <1>2, <1>3 DEF LaneInv, TypeOK, Rests, car

LEMMA RestKeeps ==
  ASSUME LaneInv, Takeover \/ Engage \/ Reset \/ UNCHANGED vars
  PROVE  LaneInv'
<1> USE Numbers
<1>1. CASE Takeover
  BY <1>1 DEF Takeover, LaneInv, TypeOK, Trips, Rests, car
<1>2. CASE Engage
  BY <1>2 DEF Engage, LaneInv, TypeOK, Rests, car
<1>3. CASE Reset
  <2>1. /\ pos' \in 0 .. Road - 1 /\ offset' \in -Ramp .. Ramp /\ lagged' \in 0 .. Lag
        /\ stopsIn' \in 0 .. StopMax /\ atLine' \in BOOLEAN /\ driver' \in BOOLEAN
        /\ trip' \in Trips
    <3>1. /\ pos' \in 0 .. Road - 1 /\ offset' \in -Ramp .. Ramp /\ lagged' \in 0 .. Lag
          /\ stopsIn' \in 0 .. StopMax
      BY <1>3 DEF Reset
    <3> QED
      BY <1>3, <3>1 DEF Reset, Trips
  <2>2. /\ cooldown' \in [Leads -> 0 .. Retry] /\ failedAgo' \in [Leads -> 0 .. Retry]
        /\ Rests'
    BY <1>3 DEF Reset, Rests
  <2>3. gap' \in [Leads -> Gaps] /\ slow' \subseteq Leads
    BY <1>3 DEF Reset, Gaps
  <2>4. change' = NoChange /\ Ramped(change') /\ change' \in Changes /\ change'.phase = "none"
    BY <1>3, NoChangeTyped DEF Reset, Ramped
  <2> QED
    BY <2>1, <2>2, <2>3, <2>4 DEF LaneInv, TypeOK
<1>4. CASE UNCHANGED vars
  BY <1>4 DEF vars, LaneInv, TypeOK, Rests, car
<1> QED
  BY <1>1, <1>2, <1>3, <1>4

LEMMA LaneStep == LaneInv /\ [Next]_vars => LaneInv'
BY TickKeeps, SignalKeeps, RestKeeps DEF Next

LEMMA LaneAlways == Spec => []LaneInv
BY InitLane, LaneStep, PTL DEF Spec

-----------------------------------------------------------------------------
(* Theorems. *)

\* The change under way, the clocks and the car keep their types.
THEOREM TypeCorrect == Spec => []TypeOK
<1>1. LaneInv => TypeOK
  BY DEF LaneInv
<1> QED
  BY <1>1, LaneAlways, PTL

\* Through every arrival, interruption, signal and failure, for any ramp: the
\* point the car steers for moves by a ramp's step, or comes to the car.
THEOREM AimIsSmooth == Spec => AimNeverJumps
<1> DEFINE A == \/ Aim(change') - Aim(change) \in -1 .. 1
                \/ Aim(change') = 0 /\ (offset = 0 \/ Reset)
<1>1. LaneInv /\ [Next]_vars => [A]_vars
  <2> SUFFICES ASSUME LaneInv, Next PROVE A
    OBVIOUS
  <2>1. TypeOK /\ change \in Changes
    BY DEF LaneInv, TypeOK
  <2>2. \A c \in Changes : Aim(c) \in Int
    <3> TAKE c \in Changes
    <3>1. AwaySide(c) \in {-1, 0, 1} /\ c.blend \in Nat
      BY Numbers DEF AwaySide, Changes
    <3> QED
      BY <3>1 DEF Aim
  <2>3. CASE Tick
    BY <2>3, AimStep DEF Tick
  <2>4. CASE Reset
    BY <2>4 DEF Reset, Aim, AwaySide, NoChange
  <2>5. CASE Takeover \/ Engage
    BY <2>1, <2>2, <2>5 DEF Takeover, Engage
  <2>6. CASE \E d \in {1, -1} : SignalHome(d) \/ SignalOut(d)
    <3>1. PICK d \in {1, -1} : SignalHome(d) \/ SignalOut(d)
      BY <2>6
    <3>2. CASE SignalHome(d)
      <4>1. change.phase \in {"outbound", "passing"}
        BY <2>1, <3>2, NoChangeTyped DEF SignalHome, Returning, TypeOK, Changes, NoChange
      <4>2. TurnsRound(change, change')
        BY <2>1, <3>2, <4>1, TurnedTurnsRound DEF SignalHome
      <4>3. AwaySide(change') = AwaySide(change) /\ change'.blend = change.blend
        BY <2>1, <4>1, <4>2 DEF TurnsRound, AwaySide, Changes
      <4> QED
        BY <2>1, <2>2, <4>3 DEF Aim
    <3>3. CASE SignalOut(d)
      <4>1. change = NoChange
        BY <2>1, <3>3 DEF SignalOut, Changing, TypeOK
      <4>2. Aim(change) = 0 /\ Aim(change') = 0
        BY <3>3, <4>1 DEF SignalOut, Aim, AwaySide, NoChange
      <4> QED
        BY <4>2
    <3> QED
      BY <3>1, <3>2, <3>3
  <2> QED
    BY <2>3, <2>4, <2>5, <2>6 DEF Next
<1> QED
  BY <1>1, LaneAlways, PTL DEF Spec, AimNeverJumps

\* However many leads, junctions and resets come in between.
THEOREM TriesStayApart == Spec => TriesApart
<1> DEFINE A == \A x \in Leads : change'.lead = x /\ change.lead # x => failedAgo[x] + 1 >= Retry
<1>1. LaneInv /\ [Next]_vars => [A]_vars
  <2> SUFFICES ASSUME LaneInv, Next, NEW x \in Leads, change'.lead = x, change.lead # x
               PROVE  failedAgo[x] + 1 >= Retry
    OBVIOUS
  <2>1. TypeOK /\ change \in Changes /\ x # NoLead
    BY NoLeadAssumption DEF LaneInv, TypeOK
  <2>2. Tick
    <3>1. ~Takeover /\ ~Engage
      BY DEF Takeover, Engage
    <3>2. ~Reset
      BY <2>1 DEF Reset, NoChange
    <3>3. ASSUME NEW d \in {1, -1}, SignalHome(d) PROVE FALSE
      BY <2>1, <3>3 DEF SignalHome, Turned, Changes
    <3>4. ASSUME NEW d \in {1, -1}, SignalOut(d) PROVE FALSE
      BY <2>1, <3>4 DEF SignalOut, NoChange
    <3> QED
      BY <3>1, <3>2, <3>3, <3>4 DEF Next
  <2>p. PICK line \in BOOLEAN, n \in Drive : \E s \in Stepped(line) : TickMakes(s, n)
    BY <2>2, TickPicks
  <2>3. PICK s \in Stepped(line) : change' = Blended(s)
    BY <2>p DEF TickMakes
  <2>4. s \in Changes /\ s.lead = x
    BY <2>1, <2>3, SteppedTyped, BlendedFields
  <2>5. ~Changing
    <3> SUFFICES ASSUME Changing PROVE FALSE
      OBVIOUS
    <3>1. GoesOn(change, s) \/ TurnsRound(change, s) \/ IsOver(change, s)
      BY <2>1, <2>3, ChangeStep
    <3> QED
      BY <2>1, <2>4, <3>1 DEF GoesOn, TurnsRound, IsOver, NoChange
  <2>6. Rested(cooldown[x]) = 0
    BY <2>1, <2>3, <2>4, <2>5, FreshStep DEF NoChange
  <2> QED
    BY <2>6, Numbers DEF LaneInv, TypeOK, Rests, Rested, Max2
<1> QED
  BY <1>1, LaneAlways, PTL DEF Spec, TriesApart

-----------------------------------------------------------------------------
(* Where the car is.  A car that the planner steers is between its lane and *)
(* its aim, or on the way back by what it has driven and failed to follow;  *)
(* and on the second lane there is room for what it still has to drive.     *)

\* How far the car is from home, to the side it has changed to.
Far == AwaySide(change) * offset

Room == LaneEnd - pos

Way ==
  /\ driver => ByHand
  /\ Changing => change.dir \in {1, -1}
  /\ change.phase \in {"outbound", "passing"} => change.back = 0
  /\ Returning /\ change.elapsed < ReturnMaxS => change.back <= change.elapsed

Follows ==
  ~ByHand =>
    /\ ~Changing => offset = 0
    /\ change.phase = "outbound" => Far \in 0 .. change.blend
    /\ change.phase = "passing" => Far = Ramp /\ change.blend = Ramp
    /\ Returning => Far \in 0 .. Max2(0, change.turned - change.back + lagged)

RoomLeft ==
  offset # 0 /\ ~ByHand /\ ~Beside =>
    /\ ~Returning => Room >= Min2(Ramp, stopsIn) + CarLength - Pickup - 1
    /\ Returning /\ trip = "ramp" => Room >= Ramp + CarLength - Pickup - 2 - change.back
    /\ Returning /\ trip = "braking" => Room >= stopsIn + CarLength - Pickup - 1

PathInv == LaneInv /\ Way /\ Follows /\ RoomLeft

LEMMA Lengths ==
  /\ CarLength \in Nat \ {0} /\ PassRoom \in Nat \ {0} /\ RequestRoom \in Nat \ {0}
  /\ LaneEnd < Road
  /\ Lag + Pickup + 2 <= CarLength /\ Ramp + Lag <= ReturnMaxM
BY LaneAssumption, LagAssumption

\* What a tick makes of the change, with what it looked at.
Stays(s) ==
  /\ GoesOn(change, s) /\ s.phase # "returning" /\ s.back = change.back
  /\ s.phase = "outbound" => change.phase = "outbound"
  /\ s.phase = "passing" => change.phase = "passing" \/ Arrived(change)
  /\ ~LaneRunsOut(change)

Turns(s) ==
  /\ TurnsRound(change, s) /\ s.back = change.back
  /\ offset # 0 \/ ~LaneRunsOut(change)

Returns(s) ==
  /\ GoesOn(change, s) /\ s.phase = "returning" /\ offset # 0
  /\ s.back = Min2(change.back + Moved, ReturnMaxM)

Ends(s) ==
  /\ s = NoChange
  /\ offset # 0 => change.phase = "returning" /\ change.back + Moved >= ReturnMaxM

\* Turned round, and home if it is there already.
LEMMA TurnEnds ==
  ASSUME NEW d, TurnsRound(change, d), d.back = change.back
  PROVE  Turns(AdvanceReturn(d)) \/ Ends(AdvanceReturn(d))
BY Numbers DEF TurnsRound, AdvanceReturn, Turns, Ends

LEMMA ReturnEnds ==
  ASSUME TypeOK, change.phase = "returning"
  PROVE  LET r == AdvanceReturn(Older(change)) IN Returns(r) \/ Ends(r)
<1> DEFINE o == Older(change)
<1>1. change \in Changes /\ GoesOn(change, o) /\ o.phase = "returning"
  BY OlderGoesOn DEF TypeOK, GoesOn
<1>2. o.back = Min2(change.back + Moved, ReturnMaxM)
  BY <1>1 DEF Older, Changes
<1>3. CASE AdvanceReturn(o) = o /\ offset # 0
  BY <1>1, <1>2, <1>3 DEF Returns
<1>4. CASE AdvanceReturn(o) = NoChange /\ (offset = 0 \/ o.back >= ReturnMaxM)
  <2>1. change.back \in Nat /\ ReturnMaxM \in Nat /\ Moved \in {0, 1}
    BY <1>1, Numbers DEF Changes, Moved
  <2>2. o.back >= ReturnMaxM => change.back + Moved >= ReturnMaxM
    BY <1>2, <2>1 DEF Min2
  <2> QED
    BY <1>4, <2>2 DEF Ends
<1> QED
  BY <1>3, <1>4 DEF AdvanceReturn

LEMMA ChangeKinds ==
  ASSUME TypeOK, Changing, NEW line \in BOOLEAN, NEW s \in Stepped(line)
  PROVE  Stays(s) \/ Turns(s) \/ Returns(s) \/ Ends(s)
<1> DEFINE o == Older(change)
<1>1. change \in Changes /\ change.phase # "none"
  BY DEF TypeOK, Changing
<1>2. /\ GoesOn(change, o) /\ o.blend = change.blend /\ o.phase = change.phase
      /\ o.lead = change.lead /\ o.dir = change.dir
  BY <1>1, OlderGoesOn DEF Older, Changes
<1>3. o.phase # "returning" => o.back = change.back
  BY <1>1 DEF Older, Changes
<1>4. LaneRunsOut(o) <=> LaneRunsOut(change)
  BY <1>2 DEF LaneRunsOut, Alongside
<1>5. CASE change.phase = "returning"
  <2>1. s = AdvanceReturn(o)
    BY <1>2, <1>5 DEF Stepped, JunctionAbort, Advance
  <2> QED
    BY <1>5, <2>1, ReturnEnds
<1>6. CASE change.phase # "returning" /\ line
  <2>1. s = AdvanceReturn(Turned(change))
    BY <1>6 DEF Stepped, JunctionAbort
  <2>2. TurnsRound(change, Turned(change)) /\ Turned(change).back = change.back
    BY <1>1, <1>6, TurnedTurnsRound DEF Changes, Turned
  <2> QED
    BY <2>1, <2>2, TurnEnds
<1>7. CASE change.phase # "returning" /\ ~line
  <2>1. s = Advance(o)
    BY <1>7 DEF Stepped
  <2>2. ASSUME NEW d, GoesOn(change, d), d.phase # "returning", d.blend = change.blend,
               d.back = change.back
        PROVE  TurnsRound(change, Turned(d)) /\ Turned(d).back = change.back
    <3>1. TurnsRound(change, Turned(d))
      BY <1>1, <2>2, TurnedLater
    <3> QED
      BY <2>2, <3>1 DEF Turned, GoesOn, Changes
  <2>3. CASE LaneRunsOut(o)
    <3>1. s = AdvanceReturn(Turned(o))
      BY <1>2, <1>7, <2>1, <2>3 DEF Advance
    <3> QED
      BY <1>2, <1>3, <1>7, <2>2, <3>1, TurnEnds
  <2>4. CASE ~LaneRunsOut(o) /\ o.phase = "passing"
    <3> DEFINE p == [o EXCEPT !.passing = Min2(o.passing + 1, PassMax)]
    <3>1. Min2(o.passing + 1, PassMax) \in 0 .. PassMax
      BY <1>2, Numbers DEF GoesOn, Changes, Min2
    <3>2. /\ GoesOn(change, p) /\ p.blend = change.blend /\ p.phase = "passing"
          /\ p.back = change.back
      BY <1>2, <1>3, <2>4, <3>1 DEF GoesOn, Changes
    <3>3. s = p \/ s = Turned(p)
      BY <1>7, <1>2, <2>1, <2>4 DEF Advance, AdvancePass
    <3>4. CASE s = p
      BY <1>2, <1>4, <2>4, <3>2, <3>4 DEF Stays
    <3>5. CASE s = Turned(p)
      BY <1>4, <2>2, <2>4, <3>2, <3>5 DEF Turns
    <3> QED
      BY <3>3, <3>4, <3>5
  <2>5. CASE ~LaneRunsOut(o) /\ o.phase = "outbound"
    <3>1. \/ s = [o EXCEPT !.phase = "passing"] /\ Arrived(o)
          \/ s = Turned(o)
          \/ s = o
      BY <1>2, <2>1, <2>5 DEF Advance, AdvanceOutbound
    <3>2. CASE s = [o EXCEPT !.phase = "passing"] /\ Arrived(o)
      <4>1. GoesOn(change, s) /\ s.phase = "passing" /\ s.back = change.back
        BY <1>2, <1>3, <2>5, <3>2 DEF GoesOn, Changes
      <4> QED
        BY <1>2, <1>4, <2>5, <3>2, <4>1 DEF Stays, Arrived
    <3>3. CASE s = Turned(o)
      BY <1>2, <1>3, <1>4, <2>2, <2>5, <3>3 DEF Turns
    <3>4. CASE s = o
      BY <1>2, <1>3, <1>4, <2>5, <3>4 DEF Stays
    <3> QED
      BY <3>1, <3>2, <3>3, <3>4
  <2> QED
    BY <1>1, <1>2, <1>7, <2>3, <2>4, <2>5 DEF Changes
<1> QED
  BY <1>5, <1>6, <1>7

\* How the car shifts in a tick, seen from its lane: toward the blend, or not.
LEMMA Sideways ==
  ASSUME TypeOK, ~driver, NEW c \in Changes, NEW w \in {1, -1}, AwaySide(c) = w,
         NEW o \in Steered(c)
  PROVE  /\ o \in Int /\ offset \in Int
         /\ stopsIn = 0 \/ o # Toward(Aim(c)) => w * o = w * offset
         /\ stopsIn # 0 /\ o # Toward(Aim(c)) => lagged < Lag
         /\ stopsIn # 0 /\ o = Toward(Aim(c)) =>
              w * o = IF c.blend > w * offset THEN w * offset + 1
                      ELSE IF c.blend < w * offset THEN w * offset - 1 ELSE w * offset
<1>1. offset \in Int /\ c.blend \in Int
  BY Numbers DEF TypeOK, Changes
<1>2. Aim(c) = w * c.blend
  BY DEF Aim
<1>3. /\ stopsIn = 0 => o = offset
      /\ stopsIn # 0 => o = Toward(Aim(c)) \/ (lagged < Lag /\ o = offset)
  BY DEF Steered
<1>4. CASE w = 1
  <2>1. Aim(c) = c.blend /\ w * o = o /\ w * offset = offset
    BY <1>1, <1>2, <1>3, <1>4 DEF Toward
  <2> QED
    BY <1>1, <1>3, <2>1 DEF Toward
<1>5. CASE w = -1
  <2>1. Aim(c) = -c.blend /\ w * o = -o /\ w * offset = -offset /\ o \in Int
    BY <1>1, <1>2, <1>3, <1>5 DEF Toward
  <2> QED
    BY <1>1, <1>3, <2>1 DEF Toward
<1> QED
  BY <1>4, <1>5

\* Blended, with the fields the path needs besides.
LEMMA BlendedBack ==
  ASSUME NEW c \in Changes
  PROVE  Blended(c).back = c.back
BY DEF Blended, Changes

LEMMA TickKeepsWay ==
  ASSUME PathInv, Tick
  PROVE  Way'
<1> USE Numbers
<1>1. PICK line \in BOOLEAN, n \in Drive : \E s \in Stepped(line) : TickMakes(s, n)
  BY TickPicks
<1>2. PICK s \in Stepped(line) : TickMakes(s, n)
  BY <1>1
<1>3. TypeOK /\ Way /\ change \in Changes
  BY DEF PathInv, LaneInv, TypeOK
<1>4. s \in Changes /\ (s = NoChange <=> s.phase = "none")
  BY <1>3, SteppedTyped
<1>5. /\ change'.phase = s.phase /\ change'.dir = s.dir /\ change'.back = s.back
      /\ change'.elapsed = s.elapsed
  BY <1>2, <1>4, BlendedFields, BlendedBack DEF TickMakes
<1>6. /\ Changing' <=> s.phase # "none"
      /\ Returning' <=> s.phase = "returning"
  BY <1>5 DEF Changing, Returning
<1>7. driver' => ByHand'
  BY <1>2, <1>3, TickTrip DEF TickMakes
<1>8. CASE ~Changing
  <2>1. s = NoChange \/ (s \in Overtakes /\ s.phase = "outbound")
    BY <1>3, <1>8, FreshStep DEF Stepped
  <2>2. s \in Overtakes => s.dir \in {1, -1} /\ s.back = 0
    BY DEF Overtakes, NoChange
  <2> QED
    BY <1>4, <1>5, <1>6, <1>7, <2>1, <2>2 DEF Way
<1>9. CASE Changing
  <2>1. change.dir \in {1, -1} /\ -change.dir \in {1, -1}
    BY <1>3, <1>9 DEF Way
  <2>2. Stays(s) \/ Turns(s) \/ Returns(s) \/ Ends(s)
    BY <1>3, <1>9, ChangeKinds
  <2>3. CASE Stays(s)
    BY <1>3, <1>5, <1>6, <1>7, <2>1, <2>3 DEF Stays, GoesOn, Way, Changes
  <2>4. CASE Turns(s)
    BY <1>3, <1>5, <1>6, <1>7, <2>1, <2>4 DEF Turns, TurnsRound, Way, Changes
  <2>5. CASE Returns(s)
    <3>1. change.phase = "returning" /\ s.elapsed = Min2(change.elapsed + 1, ReturnMaxS)
      BY <2>5 DEF Returns, GoesOn
    <3>2. change.elapsed \in Nat /\ change.back \in Nat /\ Moved \in {0, 1}
      BY <1>3, ClockBounds DEF Changes, Moved
    <3>3. s.elapsed < ReturnMaxS => s.elapsed = change.elapsed + 1 /\ change.elapsed < ReturnMaxS
      BY <3>1, <3>2 DEF Min2
    <3>4. s.back <= change.back + 1
      BY <2>5, <3>2 DEF Returns, Min2
    <3>5. s.back \in Nat
      BY <2>5, <3>2 DEF Returns, Min2
    <3>6. s.elapsed < ReturnMaxS => s.back <= s.elapsed
      BY <1>3, <3>1, <3>2, <3>3, <3>4, <3>5 DEF Way, Returning
    <3> QED
      BY <1>5, <1>6, <1>7, <2>1, <2>5, <3>6 DEF Returns, GoesOn, Way
  <2>6. CASE Ends(s)
    BY <1>4, <1>5, <1>6, <1>7, <2>6 DEF Ends, Way
  <2> QED
    BY <2>2, <2>3, <2>4, <2>5, <2>6
<1> QED
  BY <1>8, <1>9

\* The car is on its lane when the change is over.
LEMMA EndsHome ==
  ASSUME PathInv, ~ByHand, Changing, NEW n \in Drive, NEW s, Ends(s), TickMakes(s, n)
  PROVE  offset' = 0
<1> USE Numbers, Lengths
<1>1. TypeOK /\ Way /\ Follows /\ change \in Changes /\ ~driver
  BY DEF PathInv, LaneInv, TypeOK, Way
<1>2. /\ s = NoChange /\ change' = NoChange /\ offset' \in Steered(NoChange)
      /\ Aim(NoChange) = 0
  BY BlendedNone DEF Ends, TickMakes, Aim, AwaySide, NoChange
<1>3. offset \in Int /\ lagged \in 0 .. Lag
  BY <1>1 DEF TypeOK
<1>4. CASE offset = 0
  BY <1>1, <1>2, <1>3, <1>4 DEF Steered, Toward
<1>5. CASE offset # 0
  <2>1. change.phase = "returning" /\ change.back + Moved >= ReturnMaxM
    BY <1>5 DEF Ends
  <2>2. Far \in 0 .. Max2(0, change.turned - change.back + lagged)
    BY <1>1, <2>1 DEF Follows, Returning
  <2>3. change.turned \in 0 .. Ramp /\ change.back \in Nat /\ change.dir \in {1, -1}
    BY <1>1 DEF Changes, Way
  <2>4. Far = change.dir * (-offset)
    BY <1>3, <2>1, <2>3 DEF Far, AwaySide
  <2>5. Far \in Int /\ Far >= 1 /\ (Far = 1 => offset \in {1, -1})
    BY <1>3, <1>5, <2>2, <2>3, <2>4
  <2>6. Far <= change.turned - change.back + lagged
    BY <1>3, <2>2, <2>3, <2>5 DEF Max2
  <2>7. stopsIn # 0 /\ Moved = 1
    BY <1>3, <2>1, <2>3, <2>5, <2>6 DEF Moved
  <2>8. Far = 1 /\ lagged = Lag
    BY <1>3, <2>1, <2>3, <2>5, <2>6, <2>7
  <2>9. offset' = Toward(0)
    BY <1>1, <1>2, <2>7, <2>8, <1>3 DEF Steered
  <2> QED
    BY <2>5, <2>8, <2>9 DEF Toward
<1> QED
  BY <1>4, <1>5

LEMMA TickFollows ==
  ASSUME PathInv, Tick
  PROVE  Follows'
<1> USE Numbers, Lengths
<1>1. PICK line \in BOOLEAN, n \in Drive : \E s \in Stepped(line) : TickMakes(s, n)
  BY TickPicks
<1>2. PICK s \in Stepped(line) : TickMakes(s, n)
  BY <1>1
<1>3. TypeOK /\ Way /\ Follows /\ change \in Changes /\ Ramped(change)
  BY DEF PathInv, LaneInv, TypeOK
<1>4. s \in Changes /\ (s = NoChange <=> s.phase = "none")
  BY <1>3, SteppedTyped
<1>5. /\ change' \in Changes /\ Ramped(change')
      /\ change'.phase = s.phase /\ change'.dir = s.dir /\ change'.back = s.back
      /\ change'.elapsed = s.elapsed /\ change'.turned = s.turned
      /\ s = NoChange => change' = NoChange
  BY <1>2, <1>4, BlendedFields, BlendedBack, BlendedNone DEF TickMakes
<1>6. /\ Changing' <=> s.phase # "none"
      /\ Returning' <=> s.phase = "returning"
      /\ Far' = AwaySide(change') * offset'
  BY <1>5 DEF Changing, Returning, Far
<1> SUFFICES ASSUME ~ByHand'
             PROVE  /\ ~Changing' => offset' = 0
                    /\ change'.phase = "outbound" => Far' \in 0 .. change'.blend
                    /\ change'.phase = "passing" => Far' = Ramp /\ change'.blend = Ramp
                    /\ Returning' =>
                         Far' \in 0 .. Max2(0, change'.turned - change'.back + lagged')
  BY DEF Follows
<1>7. CASE ByHand
  <2>1. offset' = 0 /\ s = NoChange
    BY <1>2, <1>3, <1>7, TickTrip
  <2> QED
    BY <1>4, <1>5, <1>6, <2>1
<1>8. CASE ~ByHand /\ ~Changing
  <2>1. offset = 0 /\ ~driver
    BY <1>3, <1>8 DEF Follows, Way
  <2>2. s = NoChange \/ (s.phase = "outbound" /\ s.elapsed = 0)
    BY <1>3, <1>8, FreshStep
  <2>3. change'.blend = 0 /\ change'.blend \in Int
    BY <1>4, <1>5, <2>2 DEF Ramped, Min2
  <2>4. Aim(change') = 0
    <3>1. AwaySide(change') \in {-1, 0, 1}
      BY <1>5 DEF AwaySide, Changes
    <3> QED
      BY <2>3, <3>1 DEF Aim
  <2>5. offset' = 0
    BY <1>2, <2>1, <2>4 DEF TickMakes, Steered, Toward
  <2>6. Far' = 0
    <3>1. AwaySide(change') \in {-1, 0, 1}
      BY <1>5 DEF AwaySide, Changes
    <3> QED
      BY <1>6, <2>5, <3>1
  <2> QED
    BY <1>4, <1>5, <1>6, <2>2, <2>3, <2>5, <2>6
<1>9. CASE ~ByHand /\ Changing
  <2> DEFINE w == AwaySide(change)
             f == w * offset
             b == change'.blend
  <2>1. ~driver /\ change.dir \in {1, -1} /\ w \in {1, -1} /\ Far = f
    BY <1>3, <1>9 DEF Way, AwaySide, Far
  <2>2. /\ change.elapsed \in Nat /\ change.blend \in 0 .. Ramp /\ change.turned \in 0 .. Ramp
        /\ change.back \in Nat /\ lagged \in 0 .. Lag /\ offset \in Int /\ f \in Int
        /\ b \in 0 .. Ramp
    <3>1. /\ change.elapsed \in Nat /\ change.blend \in 0 .. Ramp /\ change.turned \in 0 .. Ramp
          /\ change.back \in Nat /\ lagged \in 0 .. Lag /\ offset \in Int /\ b \in 0 .. Ramp
      BY <1>3, <1>5, ClockBounds DEF TypeOK, Changes
    <3> QED
      BY <2>1, <3>1
  <2>3. ASSUME AwaySide(change') = w
        PROVE  /\ Far' = w * offset' /\ Far' \in Int
               /\ stopsIn = 0 \/ offset' # Toward(Aim(change')) => Far' = f
               /\ stopsIn # 0 /\ offset' = Toward(Aim(change')) =>
                    Far' = IF b > f THEN f + 1 ELSE IF b < f THEN f - 1 ELSE f
               /\ Far' \in {f, f + 1, f - 1}
               /\ b >= f => Far' <= b /\ Far' >= f
               /\ b <= f => Far' >= b /\ Far' <= f
    <3>1. offset' \in Steered(change')
      BY <1>2 DEF TickMakes
    <3>2. /\ offset' \in Int
          /\ stopsIn = 0 \/ offset' # Toward(Aim(change')) => w * offset' = f
          /\ stopsIn # 0 /\ offset' = Toward(Aim(change')) =>
               w * offset' = IF b > f THEN f + 1 ELSE IF b < f THEN f - 1 ELSE f
      BY <1>3, <1>5, <2>1, <2>3, <3>1, Sideways
    <3>3. Far' = w * offset' /\ w * offset' \in Int
      BY <1>6, <2>1, <2>3, <3>2
    <3> HIDE DEF w, f, b
    <3> QED
      BY <2>2, <3>2, <3>3
  <2>4. Stays(s) \/ Turns(s) \/ Returns(s) \/ Ends(s)
    BY <1>3, <1>9, ChangeKinds
  <2> HIDE DEF w, f, b
  <2>5. CASE Stays(s)
    <3>1. /\ AwaySide(change') = w
          /\ change'.phase = s.phase /\ s.phase \in {"outbound", "passing"}
          /\ change.phase \in {"outbound", "passing"}
      BY <1>5, <2>5 DEF Stays, GoesOn, AwaySide, w
    <3>2. b = Min2(Min2(change.elapsed + 1, OutMax), Ramp) /\ change.blend = Min2(change.elapsed, Ramp)
      BY <1>3, <1>5, <2>5, <3>1 DEF Stays, GoesOn, Ramped, b
    <3>3. change.blend <= b /\ (change.blend = Ramp => b = Ramp)
      BY <2>2, <3>2 DEF Min2
    <3>4. f \in 0 .. change.blend
      BY <1>3, <1>9, <2>1, <2>2, <3>1 DEF Follows
    <3>5. f <= b /\ Far' \in 0 .. b
      BY <2>2, <2>3, <3>1, <3>3, <3>4
    <3>6. ASSUME s.phase = "passing" PROVE f = Ramp /\ change.blend = Ramp
      <4>1. CASE change.phase = "passing"
        BY <1>3, <1>9, <2>1, <4>1 DEF Follows
      <4>2. CASE change.phase = "outbound"
        <5>1. Arrived(change)
          BY <2>5, <3>6, <4>2 DEF Stays
        <5>2. f = change.dir * (change.dir * Ramp)
          BY <4>2, <5>1 DEF Arrived, f, w, AwaySide
        <5>3. f = Ramp
          BY <2>1, <5>2
        <5> QED
          BY <2>2, <3>4, <5>3
      <4> QED
        BY <3>1, <4>1, <4>2
    <3>7. s.phase = "passing" => Far' = Ramp /\ b = Ramp
      BY <2>2, <2>3, <3>1, <3>3, <3>5, <3>6
    <3> QED
      BY <1>5, <1>6, <3>1, <3>5, <3>7 DEF b
  <2>6. CASE Turns(s)
    <3>1. /\ AwaySide(change') = w
          /\ s.phase = "returning" /\ change.phase \in {"outbound", "passing"}
          /\ change'.turned = change.blend /\ change'.elapsed = 0 /\ change'.back = 0
      BY <1>3, <1>5, <2>1, <2>6 DEF Turns, TurnsRound, AwaySide, Way, w
    <3>2. b = change.blend
      BY <1>5, <2>2, <3>1 DEF Ramped, Max2, b
    <3>3. f \in 0 .. change.blend
      BY <1>3, <1>9, <2>1, <2>2, <3>1 DEF Follows
    <3>4. Far' \in 0 .. b
      BY <2>2, <2>3, <3>1, <3>2, <3>3
    <3>5. lagged' \in Nat
      BY <1>2, <2>2 DEF TickMakes
    <3>6. Max2(0, change'.turned - change'.back + lagged') >= b
      BY <2>2, <3>1, <3>2, <3>5 DEF Max2
    <3>7. Far' \in 0 .. Max2(0, change'.turned - change'.back + lagged')
      BY <2>2, <3>1, <3>2, <3>4, <3>5, <3>6 DEF Max2
    <3> QED
      BY <1>5, <1>6, <3>1, <3>7
  <2>7. CASE Returns(s)
    <3>1. /\ AwaySide(change') = w
          /\ s.phase = "returning" /\ change.phase = "returning" /\ offset # 0
          /\ change'.turned = change.turned
          /\ change'.elapsed = Min2(change.elapsed + 1, ReturnMaxS)
          /\ change'.back = Min2(change.back + Moved, ReturnMaxM)
      BY <1>5, <2>7 DEF Returns, GoesOn, AwaySide, w
    <3>2. f \in 0 .. Max2(0, change.turned - change.back + lagged) /\ f # 0
      BY <1>3, <1>9, <2>1, <2>2, <3>1 DEF Follows, Returning, f
    <3>3. f <= change.turned - change.back + lagged /\ f >= 1
      BY <2>2, <3>2 DEF Max2
    <3>n. Moved \in {0, 1} /\ (stopsIn = 0 => Moved = 0)
      BY DEF Moved
    <3>4. change'.back = change.back + Moved
      BY <2>2, <3>1, <3>3, <3>n DEF Min2
    <3>5. b = Max2(change.turned - change'.elapsed, 0)
      BY <1>5, <3>1 DEF Ramped, b
    <3>6. b > 0 => b <= change.turned - change'.back
      <4> SUFFICES ASSUME b > 0 PROVE b <= change.turned - change'.back
        OBVIOUS
      <4>1. change'.elapsed \in Nat
        BY <2>2, <3>1 DEF Min2
      <4>2. b = change.turned - change'.elapsed /\ change'.elapsed < ReturnMaxS
        BY <2>2, <3>5, <4>1 DEF Max2
      <4>3. change'.elapsed = change.elapsed + 1 /\ change.elapsed < ReturnMaxS
        BY <2>2, <3>1, <4>2 DEF Min2
      <4>4. change.back <= change.elapsed
        BY <1>3, <3>1, <4>3 DEF Way, Returning
      <4> QED
        BY <2>2, <3>4, <3>n, <4>2, <4>3, <4>4
    <3>7. lagged' = IF stopsIn # 0 /\ offset' # Toward(Aim(change')) THEN lagged + 1 ELSE lagged
      <4>1. s # NoChange
        BY <1>4, <3>1
      <4> QED
        BY <1>2, <2>1, <4>1 DEF TickMakes
    <3>8. Far' >= 0
      BY <2>2, <2>3, <3>1, <3>3
    <3>9. Far' > 0 => Far' <= change.turned - change'.back + lagged'
      <4>1. CASE stopsIn = 0 \/ offset' # Toward(Aim(change'))
        BY <2>2, <2>3, <3>1, <3>3, <3>4, <3>7, <3>n, <4>1
      <4>2. CASE stopsIn # 0 /\ offset' = Toward(Aim(change')) /\ b < f
        BY <2>2, <2>3, <3>1, <3>3, <3>4, <3>7, <3>n, <4>2
      <4>3. CASE stopsIn # 0 /\ offset' = Toward(Aim(change')) /\ b >= f
        BY <2>2, <2>3, <3>1, <3>3, <3>4, <3>6, <3>7, <3>n, <4>3
      <4> QED
        BY <2>2, <4>1, <4>2, <4>3
    <3>10. Far' \in Int /\ change'.back \in Nat /\ lagged' \in Nat
      BY <2>2, <2>3, <3>1, <3>4, <3>7, <3>n
    <3>11. Far' \in 0 .. Max2(0, change'.turned - change'.back + lagged')
      BY <2>2, <3>1, <3>8, <3>9, <3>10 DEF Max2
    <3> QED
      BY <1>5, <1>6, <3>1, <3>11
  <2>8. CASE Ends(s)
    <3>1. offset' = 0 /\ s = NoChange
      BY <1>2, <1>9, <2>8, EndsHome DEF Ends
    <3> QED
      BY <1>4, <1>5, <1>6, <3>1
  <2> QED
    BY <2>4, <2>5, <2>6, <2>7, <2>8
<1> QED
  BY <1>7, <1>8, <1>9

\* What a trip home that begins here can rely on.
LEMMA BegunRoom ==
  ASSUME TypeOK, Room >= Min2(Ramp, stopsIn) + CarLength - Pickup - 1
  PROVE  /\ Begun = "ramp" => Room >= Ramp + CarLength - Pickup - 1
         /\ Begun = "braking" => stopsIn < Ramp /\ Room >= stopsIn + CarLength - Pickup - 1
<1> USE Numbers, Lengths
<1>1. stopsIn \in Nat /\ pos \in Nat /\ Room \in Int
  BY DEF TypeOK, Room
<1>2. LegalFor(change.dir) >= Ramp + CarLength => Room >= Ramp + CarLength
  BY <1>1 DEF LegalFor, Room
<1>3. stopsIn >= Ramp => Room >= Ramp + CarLength - Pickup - 1
  BY <1>1 DEF Min2
<1>4. stopsIn < Ramp => Room >= stopsIn + CarLength - Pickup - 1
  BY <1>1 DEF Min2
<1> QED
  BY <1>1, <1>2, <1>3, <1>4 DEF Begun

\* Braking over n cells and driving them leaves the room beyond the stop alone.
LEMMA BrakesRoom ==
  ASSUME NEW room \in Int, NEW stop \in Nat, NEW later \in Nat, NEW n \in {0, 1},
         room >= stop + CarLength - Pickup - 1, later <= stop - n
  PROVE  room - n >= later + CarLength - Pickup - 1
BY Numbers, Lengths

LEMMA TickRoom ==
  ASSUME PathInv, Tick
  PROVE  RoomLeft'
<1> USE Numbers, Lengths
<1>1. PICK line \in BOOLEAN, n \in Drive : \E s \in Stepped(line) : TickMakes(s, n)
  BY TickPicks
<1>2. PICK s \in Stepped(line) : TickMakes(s, n)
  BY <1>1
<1>3. TypeOK /\ Way /\ Follows /\ RoomLeft /\ change \in Changes
  BY DEF PathInv, LaneInv, TypeOK
<1>4. s \in Changes /\ (s = NoChange <=> s.phase = "none")
  BY <1>3, SteppedTyped
<1>5. /\ change' \in Changes /\ Ramped(change')
      /\ change'.phase = s.phase /\ change'.back = s.back
      /\ s = NoChange => change' = NoChange
      /\ Returning' <=> s.phase = "returning"
  BY <1>2, <1>4, BlendedFields, BlendedBack, BlendedNone DEF TickMakes, Returning
<1>6. Follows'
  BY TickFollows
<1> SUFFICES ASSUME offset' # 0, ~ByHand', ~Beside'
             PROVE  /\ ~Returning' => Room' >= Min2(Ramp, stopsIn') + CarLength - Pickup - 1
                    /\ Returning' /\ trip' = "ramp" =>
                         Room' >= Ramp + CarLength - Pickup - 2 - change'.back
                    /\ Returning' /\ trip' = "braking" =>
                         Room' >= stopsIn' + CarLength - Pickup - 1
  BY DEF RoomLeft
<1>7. s # NoChange
  BY <1>4, <1>5, <1>6 DEF Follows, Changing
<1>8. ~driver /\ ~ByHand /\ ~Beside /\ ~Alongside(change)
  BY <1>2, <1>3, <1>7, TickTrip
<1>9. /\ offset \in Int /\ pos \in 0 .. Road - 1 /\ lagged \in 0 .. Lag /\ stopsIn \in Nat
      /\ change.back \in Nat /\ change.turned \in 0 .. Ramp /\ change'.back \in Nat
      /\ Room \in Int
  BY <1>3, <1>5 DEF TypeOK, Changes, Room
<1>10. Changing
  <2> SUFFICES ASSUME ~Changing PROVE FALSE
    OBVIOUS
  <2>1. offset = 0
    BY <1>3, <1>8 DEF Follows
  <2>2. s.phase = "outbound" /\ s.elapsed = 0
    BY <1>3, <1>7, FreshStep
  <2>3. change'.elapsed = 0 /\ change'.phase = "outbound"
    BY <1>2, <1>4, <2>2, BlendedFields DEF TickMakes
  <2>4. change'.blend = 0
    BY <1>5, <2>3 DEF Ramped, Min2
  <2>5. Far' = 0
    BY <1>6, <2>3, <2>4 DEF Follows
  <2>6. change'.dir \in {1, -1} /\ offset' \in Int
    <3>1. Way'
      BY TickKeepsWay
    <3>2. offset' \in Int
      BY TickKeeps DEF PathInv, LaneInv, TypeOK
    <3> QED
      BY <2>3, <3>1, <3>2 DEF Way, Changing
  <2> QED
    BY <2>3, <2>5, <2>6 DEF Far, AwaySide
<1>11. Stays(s) \/ Turns(s) \/ Returns(s) \/ Ends(s)
  BY <1>3, <1>10, ChangeKinds
<1>12. n \in {0, 1} /\ (n = 1 => stopsIn # 0)
  BY Drives01
<1>13. Room >= 1 => Room' = Room - n
  BY <1>2, <1>9, <1>12 DEF TickMakes, Room
<1>14. stopsIn' \in Nat /\ stopsIn' <= stopsIn + Pickup
  BY <1>2, <1>8, <1>9 DEF TickMakes, Speeds, Min2
<1>15. ~LaneRunsOut(change) => Room >= Min2(Ramp, stopsIn) + CarLength
  BY <1>8, <1>9 DEF LaneRunsOut, LegalFor, Runout, Room, Min2
<1>16. ASSUME change.phase # "returning", offset # 0 \/ ~LaneRunsOut(change)
       PROVE  Room >= Min2(Ramp, stopsIn) + CarLength - Pickup - 1
  <2>1. CASE offset # 0
    BY <1>3, <1>8, <1>16, <2>1 DEF RoomLeft, Returning
  <2>2. CASE ~LaneRunsOut(change)
    BY <1>9, <1>15, <2>2 DEF Min2
  <2> QED
    BY <1>16, <2>1, <2>2
<1>17. s.phase = "returning" /\ trip' = "braking" => stopsIn' <= stopsIn - n
  BY <1>2, <1>3, <1>8, TickTrip DEF Brakes, Begun
<1>18. CASE Stays(s)
  <2>1. s.phase # "returning" /\ ~LaneRunsOut(change)
    BY <1>18 DEF Stays
  <2>2. Room >= Min2(Ramp, stopsIn) + CarLength
    BY <1>15, <2>1
  <2>3. Min2(Ramp, stopsIn') <= Min2(Ramp, stopsIn) + Pickup /\ Min2(Ramp, stopsIn) \in Nat
    BY <1>9, <1>14 DEF Min2
  <2>4. Room' = Room - n
    BY <1>9, <1>13, <2>2, <2>3
  <2>5. ~Returning'
    BY <1>5, <2>1
  <2>6. Min2(Ramp, stopsIn') \in Nat
    BY <1>14 DEF Min2
  <2>7. Room' >= Min2(Ramp, stopsIn') + CarLength - Pickup - 1
    BY <1>9, <1>12, <2>2, <2>3, <2>4, <2>6
  <2> QED
    BY <2>5, <2>7
<1>19. CASE Turns(s)
  <2>1. /\ s.phase = "returning" /\ change.phase \in {"outbound", "passing"}
        /\ s.back = 0
        /\ offset # 0 \/ ~LaneRunsOut(change)
    BY <1>3, <1>19 DEF Turns, TurnsRound, Way
  <2>2. Room >= Min2(Ramp, stopsIn) + CarLength - Pickup - 1
    BY <1>16, <2>1
  <2>3. Room' = Room - n
    BY <1>9, <1>13, <2>2 DEF Min2
  <2>4. /\ trip' = "ramp" => Begun = "ramp"
        /\ trip' = "braking" => Begun = "braking"
    BY <1>2, <1>3, <2>1, TickTrip DEF Returning, Begun
  <2>5. trip' = "ramp" => Room >= Ramp + CarLength - Pickup - 1
    BY <1>3, <2>2, <2>4, BegunRoom
  <2>6. trip' = "braking" => Room >= stopsIn + CarLength - Pickup - 1
    BY <1>3, <2>2, <2>4, BegunRoom
  <2>7. trip' = "ramp" => Room' >= Ramp + CarLength - Pickup - 2 - change'.back
    BY <1>5, <1>9, <1>12, <2>1, <2>3, <2>5
  <2>8. trip' = "braking" => Room' >= stopsIn' + CarLength - Pickup - 1
    <3> SUFFICES ASSUME trip' = "braking" PROVE Room' >= stopsIn' + CarLength - Pickup - 1
      OBVIOUS
    <3>1. stopsIn' <= stopsIn - n /\ Room >= stopsIn + CarLength - Pickup - 1
      BY <1>17, <2>1, <2>6
    <3> QED
      BY <1>9, <1>12, <1>14, <2>3, <3>1, BrakesRoom
  <2> QED
    BY <1>5, <2>1, <2>7, <2>8
<1>20. CASE Returns(s)
  <2>1. /\ s.phase = "returning" /\ change.phase = "returning" /\ offset # 0
        /\ s.back = Min2(change.back + Moved, ReturnMaxM)
    BY <1>20 DEF Returns, GoesOn
  <2>2. /\ trip' = "ramp" => trip = "ramp"
        /\ trip' = "braking" => trip = "braking"
    BY <1>2, <1>3, <2>1, TickTrip DEF Returning
  <2>3. CASE trip' = "ramp"
    <3>1. Room >= Ramp + CarLength - Pickup - 2 - change.back
      BY <1>3, <1>8, <2>1, <2>2, <2>3 DEF RoomLeft, Returning
    <3>2. Far \in 0 .. Max2(0, change.turned - change.back + lagged) /\ Far # 0
      BY <1>3, <1>8, <1>9, <1>10, <2>1 DEF Follows, Returning, Way, Far, AwaySide
    <3>3. change.turned - change.back + lagged >= 1
      BY <1>9, <3>2 DEF Max2
    <3>4. Moved \in {0, 1} /\ n <= Moved
      BY <1>12 DEF Moved
    <3>5. Room >= 1 /\ change.back + Moved <= ReturnMaxM
      BY <1>9, <3>1, <3>3, <3>4
    <3>6. s.back = change.back + Moved /\ Room' = Room - n
      BY <1>9, <1>13, <2>1, <3>4, <3>5 DEF Min2
    <3> QED
      BY <1>5, <1>9, <1>12, <2>1, <2>3, <3>1, <3>4, <3>6
  <2>4. CASE trip' = "braking"
    <3>1. Room >= stopsIn + CarLength - Pickup - 1
      BY <1>3, <1>8, <2>1, <2>2, <2>4 DEF RoomLeft, Returning
    <3>2. Room' = Room - n
      BY <1>9, <1>13, <3>1
    <3>3. Room' >= stopsIn' + CarLength - Pickup - 1
      <4>1. stopsIn' <= stopsIn - n
        BY <1>17, <2>1, <2>4
      <4> QED
        BY <1>9, <1>12, <1>14, <3>1, <3>2, <4>1, BrakesRoom
    <3> QED
      BY <1>5, <2>1, <2>4, <3>3
  <2> QED
    BY <1>5, <2>1, <2>3, <2>4
<1>21. CASE Ends(s)
  BY <1>7, <1>21 DEF Ends
<1> QED
  BY <1>11, <1>18, <1>19, <1>20, <1>21

LEMMA SignalKeepsPath ==
  ASSUME PathInv, NEW d \in {1, -1}, SignalHome(d) \/ SignalOut(d)
  PROVE  PathInv'
<1> USE Numbers, Lengths
<1>1. LaneInv'
  BY SignalKeeps DEF PathInv
<1>2. /\ TypeOK /\ Way /\ Follows /\ RoomLeft /\ change \in Changes
      /\ offset \in Int /\ lagged \in Nat /\ change.blend \in 0 .. Ramp /\ pos \in Int
  BY DEF PathInv, LaneInv, TypeOK, Changes
<1>3. /\ UNCHANGED <<pos, offset, lagged, stopsIn, driver>>
      /\ ByHand' = ByHand /\ Beside' = Beside
  BY DEF SignalHome, SignalOut, car, Begun, ByHand, Beside
<1>4. CASE SignalHome(d)
  <2>1. change.phase \in {"outbound", "passing"} /\ Changing /\ ~Returning
    BY <1>2, <1>4, NoChangeTyped DEF SignalHome, Returning, Changing, TypeOK, Changes, NoChange
  <2>2. TurnsRound(change, change') /\ change'.back = change.back
    <3>1. change' = Turned(change)
      BY <1>4 DEF SignalHome
    <3> QED
      BY <1>2, <2>1, <3>1, TurnedTurnsRound DEF Turned, Changes
  <2>3. /\ change'.phase = "returning" /\ Changing' /\ Returning' /\ change'.back = 0
        /\ change'.turned = change.blend /\ change'.elapsed = 0 /\ change'.dir = -change.dir
    BY <1>2, <2>1, <2>2 DEF TurnsRound, Changing, Returning, Way
  <2>4. change.dir \in {1, -1} /\ change'.dir \in {1, -1}
    BY <1>2, <2>1, <2>3 DEF Way
  <2>5. Far' = Far
    BY <1>2, <1>3, <2>1, <2>3, <2>4 DEF Far, AwaySide
  <2>6. Way'
    BY <1>2, <1>3, <2>3, <2>4 DEF Way
  <2>7. Follows'
    <3> SUFFICES ASSUME ~ByHand
                 PROVE  Far \in 0 .. Max2(0, change.blend - 0 + lagged)
      BY <1>3, <2>3, <2>5 DEF Follows
    <3>1. Far \in 0 .. change.blend
      BY <1>2, <2>1 DEF Follows
    <3> QED
      BY <1>2, <3>1 DEF Max2
  <2>8. RoomLeft'
    <3>1. Room' = Room /\ Room \in Int
      BY <1>2, <1>3 DEF Room
    <3> SUFFICES ASSUME offset # 0, ~ByHand, ~Beside
                 PROVE  /\ trip' = "ramp" => Room >= Ramp + CarLength - Pickup - 2
                        /\ trip' = "braking" => Room >= stopsIn + CarLength - Pickup - 1
      BY <1>3, <2>3, <3>1 DEF RoomLeft
    <3>2. Room >= Min2(Ramp, stopsIn) + CarLength - Pickup - 1
      BY <1>2, <2>1 DEF RoomLeft
    <3>3. trip' = Begun
      BY <1>4 DEF SignalHome
    <3> QED
      BY <1>2, <3>1, <3>2, <3>3, BegunRoom
  <2> QED
    BY <1>1, <2>6, <2>7, <2>8 DEF PathInv
<1>5. CASE SignalOut(d)
  <2>1. ~Changing /\ change' = [NoChange EXCEPT !.phase = "outbound", !.dir = d, !.requested = TRUE]
    BY <1>5 DEF SignalOut
  <2>2. /\ change'.phase = "outbound" /\ Changing' /\ ~Returning'
        /\ change'.dir = d /\ change'.back = 0 /\ change'.blend = 0
    BY <2>1 DEF NoChange, Changing, Returning
  <2>3. ~ByHand => offset = 0
    BY <1>2, <2>1 DEF Follows
  <2>4. Way'
    BY <1>2, <1>3, <2>2 DEF Way
  <2>5. Follows' /\ RoomLeft'
    <3>1. ~ByHand => Far' = 0
      BY <1>3, <2>2, <2>3 DEF Far, AwaySide
    <3> QED
      BY <1>3, <2>2, <2>3, <3>1 DEF Follows, RoomLeft
  <2> QED
    BY <1>1, <2>4, <2>5 DEF PathInv
<1> QED
  BY <1>4, <1>5

LEMMA RestKeepsPath ==
  ASSUME PathInv, Takeover \/ Engage \/ Reset \/ UNCHANGED vars
  PROVE  PathInv'
<1> USE DEF PathInv, Way, Follows, RoomLeft, Far, AwaySide, Room, Changing, Returning, ByHand, Beside
<1>1. LaneInv'
  BY RestKeeps
<1>2. CASE Takeover
  BY <1>1, <1>2 DEF Takeover, car
<1>3. CASE Engage
  BY <1>1, <1>3 DEF Engage, car
<1>4. CASE Reset
  <2>1. offset' = 0 /\ change' = NoChange /\ change'.phase = "none" /\ driver' = FALSE
    BY <1>4 DEF Reset, NoChange
  <2> QED
    BY <1>1, <2>1
<1>5. CASE UNCHANGED vars
  BY <1>1, <1>5 DEF vars, car
<1> QED
  BY <1>2, <1>3, <1>4, <1>5

LEMMA InitPath == Init => PathInv
<1> SUFFICES ASSUME Init PROVE PathInv
  OBVIOUS
<1>1. change.phase = "none" /\ offset = 0 /\ driver = FALSE
  BY DEF Init, NoChange
<1> QED
  BY <1>1, InitLane DEF PathInv, Way, Follows, RoomLeft, Changing, Returning

LEMMA PathStep == PathInv /\ [Next]_vars => PathInv'
<1> SUFFICES ASSUME PathInv, [Next]_vars PROVE PathInv'
  OBVIOUS
<1>1. CASE Tick
  BY <1>1, TickKeeps, TickKeepsWay, TickFollows, TickRoom DEF PathInv
<1> QED
  BY <1>1, SignalKeepsPath, RestKeepsPath DEF Next

LEMMA PathAlways == Spec => []PathInv
BY InitPath, PathStep, PTL DEF Spec

\* A car that the planner has steered since it was last home is never off its
\* lane without a change that says so (_advance_return, _junction_abort): for
\* any ramp and timers, if the car lags no more than LagAssumption allows.
THEOREM LaneAlwaysTold == Spec => []OffsetTold
<1>1. PathInv => OffsetTold
  <2> SUFFICES ASSUME PathInv, ~ByHand
               PROVE  /\ offset # 0 => Changing /\ offset * AwaySide(change) > 0
                      /\ Holding => offset = change.dir * Ramp
    BY DEF OffsetTold
  <2>1. TypeOK /\ Way /\ Follows /\ offset \in Int /\ change \in Changes
    BY Numbers DEF PathInv, LaneInv, TypeOK
  <2>2. ASSUME offset # 0 PROVE Changing /\ offset * AwaySide(change) > 0
    <3>1. Changing /\ change.dir \in {1, -1}
      BY <2>1, <2>2 DEF Follows, Way
    <3>2. Far >= 0
      BY <2>1, <3>1, Numbers DEF Follows, Changing, Returning, Changes
    <3>3. AwaySide(change) \in {1, -1}
      BY <3>1 DEF AwaySide
    <3> QED
      BY <2>1, <2>2, <3>1, <3>2, <3>3 DEF Far
  <2>3. ASSUME Holding PROVE offset = change.dir * Ramp
    <3>1. change.phase = "passing" /\ change.dir \in {1, -1} /\ Far = Ramp
      BY <2>1, <2>3 DEF Holding, Way, Changing, Follows
    <3> QED
      BY <2>1, <3>1, Numbers DEF Far, AwaySide
  <2> QED
    BY <2>2, <2>3
<1> QED
  BY <1>1, PathAlways, PTL

\* For any ramp, reserve, lag and pickup that LagAssumption allows: the second
\* lane is left before it ends by a car that began its trip home with a ramp's
\* length of lane left, or that has braked since as LANE_END_DECEL_MPS2 assumes
\* (_return_runout_m), wherever it was interrupted and however often it stopped.
THEOREM HomeInTime == Spec => []HomeBeforeLaneEnds
<1>1. PathInv => HomeBeforeLaneEnds
  <2> USE Numbers, Lengths
  <2> SUFFICES ASSUME PathInv, offset # 0, trip \notin {"hand", "beside", "unbraked"}
               PROVE  pos < LaneEnd
    BY DEF HomeBeforeLaneEnds, PathInv, LaneInv, TypeOK
  <2>1. /\ TypeOK /\ Way /\ Follows /\ RoomLeft /\ offset \in Int /\ change \in Changes
        /\ pos \in Int /\ lagged \in 0 .. Lag /\ stopsIn \in Nat
    BY DEF PathInv, LaneInv, TypeOK
  <2>2. /\ ~ByHand /\ ~Beside
        /\ trip \in {"ramp", "braking"}
    BY <2>1 DEF ByHand, Beside, TypeOK, Trips
  <2>3. change.back \in Nat /\ change.turned \in 0 .. Ramp
    BY <2>1 DEF Changes
  <2>4. CASE ~Returning
    BY <2>1, <2>2, <2>4 DEF RoomLeft, Room, Min2
  <2>5. CASE Returning /\ trip = "ramp"
    <3>1. Far \in 0 .. Max2(0, change.turned - change.back + lagged) /\ Far # 0
      BY <2>1, <2>2, <2>5 DEF Follows, Returning, Way, Changing, Far, AwaySide
    <3>2. change.turned - change.back + lagged >= 1
      BY <2>1, <2>3, <3>1 DEF Max2
    <3> QED
      BY <2>1, <2>2, <2>3, <2>5, <3>2 DEF RoomLeft, Room
  <2>6. CASE Returning /\ trip = "braking"
    BY <2>1, <2>2, <2>6 DEF RoomLeft, Room
  <2> QED
    BY <2>2, <2>4, <2>5, <2>6
<1> QED
  BY <1>1, PathAlways, PTL
=============================================================================
