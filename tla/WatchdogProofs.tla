--------------------------- MODULE WatchdogProofs ---------------------------
(***************************************************************************)
(* Proofs about the watchdog, for every choice of the durations.  All of   *)
(* them rest on what the last look, at lastLook, left behind.              *)
(***************************************************************************)
EXTENDS Watchdog, TLAPS

lastLook == wakeAt - Tick

\* The next look is never missed, and nothing recorded lies ahead.
Clock ==
  /\ lastLook <= now /\ now <= wakeAt + Late
  /\ lastInput <= now /\ lineMovedAt <= now
  /\ warnedAt <= now /\ uneasyAt <= now
  /\ uneasyAt = None <=> warned = "ok"

\* A look that left the session open found time left.
LeftOpen ==
  closed = "no" =>
    /\ lastLook - lastInput < IdleS
    /\ capDeadline # None => lastLook < capDeadline

\* A line seen has a deadline, set at the first look after it formed.
Deadline ==
  /\ capDeadline = None /\ waiting => lastLook <= lineMovedAt
  /\ capDeadline # None =>
       \/ capDeadline <= SessionMaxS
       \/ capDeadline <= lineMovedAt + Slip + capWarn

\* The first look inside a warning's span gave the warning.
Warned ==
  closed = "no" =>
    /\ lastLook - lastInput >= IdleS - idleWarn =>
         warned = "idle" /\ warnedAt < lastInput + IdleS - idleWarn + Slip
    /\ capDeadline # None /\ capDeadline - lastLook <= capWarn =>
         warned # "ok" /\ uneasyAt < capDeadline - capWarn + Slip

\* A notice was true at the last look.
Notices ==
  /\ warned = "idle" => lastLook - lastInput >= IdleS - idleWarn \/ lastInput >= lastLook
  /\ warned = "time_up" => waiting \/ lineMovedAt >= lastLook

Inv == TypeOK /\ Clock /\ LeftOpen /\ Deadline /\ Warned /\ Notices /\ NeverUnwarned

\* The spans of the warnings are numbers, and an idle warning starts after the
\* input it counts from.
LEMMA Spans ==
  /\ idleWarn \in Nat /\ idleWarn < IdleS
  /\ capWarn \in Nat
  /\ Slip \in Nat \ {0} /\ Slip <= idleWarn /\ Slip <= capWarn
  BY WatchdogAssumption, TimelyAssumption DEF idleWarn, capWarn, Slip, Lesser

\* The invariant holds when the session begins.
LEMMA InitInv == Init => Inv
  BY Spans, WatchdogAssumption
  DEF Init, Inv, TypeOK, Clock, LeftOpen, Deadline, Warned, Notices, NeverUnwarned,
      Time, lastLook, None, Slip

\* Whatever happens between two looks keeps it.
LEMMA OpenKeeps == Inv /\ Open => Inv'
<1> SUFFICES ASSUME Inv, Open PROVE Inv'
  OBVIOUS
<1>1. CASE Pass
  <2>1. TypeOK' /\ Clock' /\ Deadline' /\ NeverUnwarned'
    BY <1>1, Spans, WatchdogAssumption
    DEF Pass, Open, Inv, TypeOK, Time, None, lastLook, Clock, Deadline, NeverUnwarned
  <2>2. LeftOpen' /\ Warned' /\ Notices'
    BY <1>1, Spans, WatchdogAssumption
    DEF Pass, Open, Inv, TypeOK, Time, None, lastLook, Clock, LeftOpen, Warned, Notices
  <2>3. QED
    BY <2>1, <2>2 DEF Inv
<1>2. CASE Input
  <2>1. TypeOK' /\ Clock' /\ Deadline' /\ NeverUnwarned'
    BY <1>2, Spans, WatchdogAssumption
    DEF Input, Open, Inv, TypeOK, Time, None, lastLook, Clock, Deadline, NeverUnwarned
  <2>2. LeftOpen' /\ Warned' /\ Notices'
    BY <1>2, Spans, WatchdogAssumption
    DEF Input, Open, Inv, TypeOK, Time, None, lastLook, Clock, LeftOpen, Warned, Notices
  <2>3. QED
    BY <2>1, <2>2 DEF Inv
<1>3. CASE LineForms
  <2>0. TypeOK'
    BY <1>3 DEF LineForms, Inv, TypeOK
  <2>1. Clock' /\ Deadline' /\ NeverUnwarned'
    BY <1>3, Spans, WatchdogAssumption
    DEF LineForms, Inv, TypeOK, Time, None, lastLook, Clock, Deadline, NeverUnwarned
  <2>2. LeftOpen' /\ Warned' /\ Notices'
    BY <1>3, Spans, WatchdogAssumption
    DEF LineForms, Open, Inv, TypeOK, Time, None, lastLook, Clock, LeftOpen, Warned, Notices
  <2>3. QED
    BY <2>0, <2>1, <2>2 DEF Inv
<1>4. CASE LineEmpties
  <2>0. TypeOK'
    BY <1>4 DEF LineEmpties, Inv, TypeOK
  <2>1. Clock' /\ Deadline' /\ NeverUnwarned'
    BY <1>4, Spans, WatchdogAssumption
    DEF LineEmpties, Inv, TypeOK, Time, None, lastLook, Clock, Deadline, NeverUnwarned
  <2>2. LeftOpen' /\ Warned' /\ Notices'
    BY <1>4, Spans, WatchdogAssumption
    DEF LineEmpties, Open, Inv, TypeOK, Time, None, lastLook, Clock, LeftOpen, Warned, Notices
  <2>3. QED
    BY <2>0, <2>1, <2>2 DEF Inv
<1>5. QED
  BY <1>1, <1>2, <1>3, <1>4 DEF Open

\* A deadline is a time, and a new one leaves the full warning.
LEMMA DeadlineType ==
  ASSUME Inv
  PROVE  /\ NextDeadline \in Nat \cup {None}
         /\ NextDeadline # None => waiting
         /\ waiting => NextDeadline # None
         /\ NextDeadline # None /\ capDeadline # None => NextDeadline = capDeadline
         /\ NextDeadline # None /\ capDeadline = None =>
              /\ now + capWarn <= NextDeadline
              /\ NextDeadline = SessionMaxS \/ NextDeadline = now + capWarn
  BY Spans, WatchdogAssumption DEF Inv, TypeOK, Time, None, NextDeadline

\* A look that leaves the session open keeps it.
LEMMA LookKeeps == Inv /\ Look => Inv'
<1> SUFFICES ASSUME Inv, Look PROVE Inv'
  OBVIOUS
<1> DEFINE d == NextDeadline
<1>0. /\ capDeadline' = d /\ d \in Nat \cup {None}
      /\ d # None => waiting
      /\ waiting => d # None
      /\ d # None /\ capDeadline # None => d = capDeadline
      /\ d # None /\ capDeadline = None =>
           /\ now + capWarn <= d
           /\ d = SessionMaxS \/ d = now + capWarn
  BY DeadlineType DEF Look
<1>1. /\ now \in Nat /\ now <= Horizon /\ lastInput \in Nat /\ lineMovedAt \in Nat
      /\ warnedAt \in Nat /\ uneasyAt \in Nat \cup {None} /\ wakeAt \in Nat
      /\ capDeadline \in Nat \cup {None}
  BY WatchdogAssumption DEF Inv, TypeOK, Time
<1>2. /\ closed = "no" /\ closed' = "no" /\ wakeAt <= now
      /\ wakeAt' = now + Tick /\ lastLook' = now
      /\ now' = now /\ lastInput' = lastInput /\ waiting' = waiting
      /\ lineMovedAt' = lineMovedAt
  BY <1>1, WatchdogAssumption DEF Look, Awake, lastLook
<1>3. idleLeft > 0 /\ (d # None => now < d)
  BY <1>0, <1>1, WatchdogAssumption DEF Look, Within, idleLeft, None
<1>4. /\ warned' = Kind(d)
      /\ warnedAt' = IF warned' = warned THEN warnedAt ELSE now
      /\ uneasyAt' = IF warned' = "ok" THEN None
                     ELSE IF uneasyAt = None THEN now ELSE uneasyAt
      /\ toldAt' = IF warned' = "ok" THEN None
                   ELSE IF warned' = "time_up" /\ toldAt = None THEN now ELSE toldAt
  BY DEF Look
<1>5. /\ warned' = "idle" <=> IdleS - (now - lastInput) <= idleWarn
      /\ warned' = "time_up" => d # None
      /\ d # None /\ d - now <= capWarn => warned' # "ok"
      /\ warned' \in {"ok", "idle", "time_up"}
  BY <1>4 DEF Kind, Within, idleLeft
<1> HIDE DEF d
<1>a. TypeOK'
  BY <1>0, <1>1, <1>2, <1>4, <1>5, WatchdogAssumption DEF Inv, TypeOK, Time
<1>b. Clock'
  BY <1>1, <1>2, <1>4, Spans, WatchdogAssumption DEF Inv, Clock, None, Slip
<1>c. LeftOpen'
  BY <1>0, <1>1, <1>2, <1>3, WatchdogAssumption DEF LeftOpen, idleLeft
<1>d. Deadline'
  BY <1>0, <1>1, <1>2, Spans, WatchdogAssumption
  DEF Inv, Deadline, Clock, LeftOpen, None, Slip, lastLook
<1>e. Warned'
  <2>1. ASSUME now - lastInput >= IdleS - idleWarn
        PROVE  warned' = "idle" /\ warnedAt' < lastInput + IdleS - idleWarn + Slip
    BY <2>1, <1>1, <1>2, <1>4, <1>5, Spans, WatchdogAssumption
    DEF Inv, Clock, Warned, Slip, lastLook
  <2>2. ASSUME d # None, d - now <= capWarn
        PROVE  warned' # "ok" /\ uneasyAt' < d - capWarn + Slip
    BY <2>2, <1>0, <1>1, <1>2, <1>4, <1>5, Spans, WatchdogAssumption
    DEF Inv, Clock, Warned, Slip, lastLook, None
  <2>3. QED
    BY <2>1, <2>2, <1>0, <1>2 DEF Warned
<1>f. Notices'
  BY <1>0, <1>1, <1>2, <1>5, Spans, WatchdogAssumption DEF Notices
<1>g. NeverUnwarned'
  BY <1>2 DEF NeverUnwarned
<1>h. QED
  BY <1>a, <1>b, <1>c, <1>d, <1>e, <1>f, <1>g DEF Inv

\* Closing the session keeps it: the warnings were given in time.
LEMMA CloseKeeps == Inv /\ Close => Inv'
<1> SUFFICES ASSUME Inv, Close PROVE Inv'
  OBVIOUS
<1> DEFINE d == NextDeadline
<1>0. /\ capDeadline' = d /\ d \in Nat \cup {None}
      /\ d # None => waiting
      /\ waiting => d # None
      /\ d # None /\ capDeadline # None => d = capDeadline
      /\ d # None /\ capDeadline = None =>
           /\ now + capWarn <= d
           /\ d = SessionMaxS \/ d = now + capWarn
  BY DeadlineType DEF Close
<1>1. /\ now \in Nat /\ lastInput \in Nat /\ lineMovedAt \in Nat
      /\ warnedAt \in Nat /\ uneasyAt \in Nat \cup {None} /\ wakeAt \in Nat
      /\ capDeadline \in Nat \cup {None}
  BY WatchdogAssumption DEF Inv, TypeOK, Time
<1>2. /\ closed = "no"
      /\ closed' = IF now - lastInput >= IdleS THEN "idle" ELSE "time_up"
      /\ closed' = "time_up" => d # None /\ d <= now
  BY <1>0, <1>1, WatchdogAssumption DEF Close, Awake, Within, idleLeft, None
<1>3. UNCHANGED <<now, wakeAt, lastInput, waiting, warned, warnedAt, uneasyAt,
                  toldAt, lineMovedAt>>
  BY DEF Close
<1>4. lastLook' = lastLook
  BY <1>3 DEF lastLook
<1> HIDE DEF d
<1>a. TypeOK'
  BY <1>0, <1>2, <1>3 DEF Inv, TypeOK, Time
<1>b. Clock'
  BY <1>3, <1>4 DEF Inv, Clock
<1>c. LeftOpen' /\ Warned'
  BY <1>2 DEF LeftOpen, Warned
<1>d. Deadline'
  BY <1>0, <1>1, <1>3, <1>4, Spans, WatchdogAssumption
  DEF Inv, Deadline, Clock, None, Slip, lastLook
<1>e. Notices'
  BY <1>3, <1>4 DEF Inv, Notices
<1>f. NeverUnwarned'
  <2>1. CASE now - lastInput >= IdleS
    BY <2>1, <1>1, <1>2, <1>3, Spans, WatchdogAssumption
    DEF Inv, NeverUnwarned, Clock, Warned, Slip, lastLook
  <2>2. CASE ~(now - lastInput >= IdleS)
    <3>1. d # None /\ d <= now /\ closed' = "time_up"
      BY <2>2, <1>2
    <3>2. capDeadline # None /\ d = capDeadline
      BY <3>1, <1>0, <1>1, Spans
    <3>3. QED
      BY <3>1, <3>2, <1>1, <1>2, <1>3, Spans, WatchdogAssumption
      DEF Inv, NeverUnwarned, Clock, Warned, Slip, lastLook, None
  <2>3. QED
    BY <2>1, <2>2
<1>g. QED
  BY <1>a, <1>b, <1>c, <1>d, <1>e, <1>f DEF Inv

\* The invariant is inductive.
LEMMA Inductive == Spec => []Inv
<1>1. Inv /\ [Next]_vars => Inv'
  <2>1. Inv /\ UNCHANGED vars => Inv'
    BY DEF Inv, vars, TypeOK, Clock, LeftOpen, Deadline, Warned, Notices,
           NeverUnwarned, lastLook
  <2>2. QED
    BY <2>1, OpenKeeps, LookKeeps, CloseKeeps DEF Next
<1>2. QED
  BY <1>1, InitInv, PTL DEF Spec

\* The variables of Watchdog keep their types.
THEOREM TypeCorrect == Spec => []TypeOK
  BY Inductive, PTL DEF Inv

\* An idle session is closed within one look of idle_s, whatever the durations.
THEOREM IdleAlwaysClosed == Spec => []IdleClosedInTime
<1>1. Inv => IdleClosedInTime
  BY Spans, WatchdogAssumption
  DEF Inv, TypeOK, Time, Clock, LeftOpen, IdleClosedInTime, Slip, lastLook
<1>2. QED
  BY <1>1, Inductive, PTL

\* A line that stays ends the session in bounded time: at the cap, or one full
\* warning after the line was first seen.
THEOREM CapAlwaysBites == Spec => []CapClosedInTime
<1>1. Inv => CapClosedInTime
  BY Spans, WatchdogAssumption
  DEF Inv, TypeOK, Time, Clock, LeftOpen, Deadline, CapClosedInTime, Slip, lastLook, None
<1>2. QED
  BY <1>1, Inductive, PTL

\* No session is ever closed without a warning of the allotted length.
THEOREM AlwaysWarned == Spec => []NeverUnwarned
  BY Inductive, PTL DEF Inv

\* What the client was last told is true or at most one look old.
THEOREM NoticesAlwaysHonest == Spec => []NoticeHonest
<1>1. Inv => NoticeHonest
  BY Spans, WatchdogAssumption
  DEF Inv, TypeOK, Time, Clock, Warned, Notices, NoticeHonest, idleLeft, Slip, lastLook
<1>2. QED
  BY <1>1, Inductive, PTL
=============================================================================
