------------------------------ MODULE Watchdog ------------------------------
(***************************************************************************)
(* server/ws_server.py, _Connection.watchdog: the task that warns and then *)
(* closes a hosted session whose user is idle, or that is past the session *)
(* cap while somebody waits in line.                                       *)
(*                                                                         *)
(* Time is a number of units since the session began.  The task sleeps for *)
(* one Tick between two looks, and a busy event loop may resume it up to   *)
(* Late units after that; input and the line move at any time in between.  *)
(***************************************************************************)
EXTENDS Integers

CONSTANTS
  IdleS,        \* sessions.idle_s
  SessionMaxS,  \* sessions.session_max_s
  IdleWarnMax,  \* the 30 s of idle_warn
  CapWarnMax,   \* the 60 s of cap_warn
  Tick,         \* tick = min(1 s, idle_s / 10)
  Late,         \* how late the event loop may resume a sleeper
  Horizon       \* bound: how long the session is watched

\* cli.py refuses non-positive durations; a tick is at most a tenth of idle_s.
ASSUME WatchdogAssumption ==
  /\ IdleS \in Nat \ {0} /\ SessionMaxS \in Nat \ {0}
  /\ IdleWarnMax \in Nat \ {0} /\ CapWarnMax \in Nat \ {0}
  /\ Tick \in Nat \ {0} /\ 10 * Tick <= IdleS
  /\ Late \in Nat
  /\ Horizon \in Nat

Lesser(a, b) == IF a <= b THEN a ELSE b

idleWarn == Lesser(IdleWarnMax, IdleS \div 2)
capWarn  == Lesser(CapWarnMax, SessionMaxS \div 2)

\* Between two looks of the watchdog lie at most Slip units.
Slip == Tick + Late

\* The event loop is never as late as a warning is long.
ASSUME TimelyAssumption == Slip <= idleWarn /\ Slip <= capWarn

None == -1

VARIABLES
  now,
  wakeAt,       \* when asyncio.sleep(tick) is over
  lastInput,    \* last_input
  waiting,      \* sessions.waiters is not empty
  capDeadline,  \* cap_deadline, or None
  warned,       \* the last session_notice, "ok" before the first
  closed,       \* why the socket was closed, or "no"
  \* History, for the properties:
  warnedAt,     \* when the last notice was sent
  uneasyAt,     \* when `warned` last left "ok", or None
  toldAt,       \* the first "time_up" notice since then, or None
  lineMovedAt   \* when `waiting` last changed

vars == <<now, wakeAt, lastInput, waiting, capDeadline, warned, closed,
          warnedAt, uneasyAt, toldAt, lineMovedAt>>

Time == 0 .. Horizon

TypeOK ==
  /\ now \in Time
  /\ wakeAt \in Nat
  /\ lastInput \in Time
  /\ waiting \in BOOLEAN
  /\ capDeadline \in Nat \cup {None}
  /\ warned \in {"ok", "idle", "time_up"}
  /\ closed \in {"no", "idle", "time_up"}
  /\ warnedAt \in Time
  /\ uneasyAt \in Time \cup {None}
  /\ toldAt \in Time \cup {None}
  /\ lineMovedAt \in Time

Init ==
  /\ now = 0
  /\ wakeAt = Tick
  /\ lastInput = 0
  /\ waiting \in BOOLEAN
  /\ capDeadline = None
  /\ warned = "ok"
  /\ closed = "no"
  /\ warnedAt = 0
  /\ uneasyAt = None
  /\ toldAt = None
  /\ lineMovedAt = 0

-----------------------------------------------------------------------------
(* What happens around the task. *)

Pass ==
  /\ now < Horizon
  /\ now < wakeAt + Late
  /\ now' = now + 1
  /\ UNCHANGED <<wakeAt, lastInput, waiting, capDeadline, warned, closed,
                 warnedAt, uneasyAt, toldAt, lineMovedAt>>

\* receive: any inbound text counts as the user being there.
Input ==
  /\ lastInput # now
  /\ lastInput' = now
  /\ UNCHANGED <<now, wakeAt, waiting, capDeadline, warned, closed,
                 warnedAt, uneasyAt, toldAt, lineMovedAt>>

LineForms ==
  /\ ~waiting
  /\ waiting' = TRUE
  /\ lineMovedAt' = now
  /\ UNCHANGED <<now, wakeAt, lastInput, capDeadline, warned, closed,
                 warnedAt, uneasyAt, toldAt>>

LineEmpties ==
  /\ waiting
  /\ waiting' = FALSE
  /\ lineMovedAt' = now
  /\ UNCHANGED <<now, wakeAt, lastInput, capDeadline, warned, closed,
                 warnedAt, uneasyAt, toldAt>>

-----------------------------------------------------------------------------
(* One look of the watchdog. *)

\* Bug: a user is not idle while others wait: the cap will do.
idleLeft_Unwatched == IF waiting THEN IdleS ELSE IdleS - (now - lastInput)

idleLeft == IdleS - (now - lastInput)

\* Bug: the cap counts from the start of the session alone.
NextDeadline_Abrupt ==
  IF ~waiting THEN None
  ELSE IF capDeadline = None THEN SessionMaxS
  ELSE capDeadline

\* Bug: the deadline is set anew at every look.
NextDeadline_Sliding ==
  IF ~waiting THEN None
  ELSE IF SessionMaxS >= now + capWarn THEN SessionMaxS ELSE now + capWarn

\* A line that forms late still leaves the full warning; no line, no cap.
NextDeadline ==
  IF ~waiting THEN None
  ELSE IF capDeadline # None THEN capDeadline
  ELSE IF SessionMaxS >= now + capWarn THEN SessionMaxS ELSE now + capWarn

\* Is at most `left` left until the deadline d?
Within(d, left) == d # None /\ d - now <= left

\* Bug: the user's return is noticed only while no cap is pending.
Kind_Sticky(d) ==
  IF idleLeft <= idleWarn \/ warned = "idle" THEN "idle"
  ELSE IF Within(d, capWarn) THEN "time_up"
  ELSE "ok"

\* What the client should be told: being idle comes first.
Kind(d) ==
  IF idleLeft <= idleWarn THEN "idle"
  ELSE IF Within(d, capWarn) THEN "time_up"
  ELSE "ok"

Awake == closed = "no" /\ now >= wakeAt

Close ==
  /\ Awake
  /\ idleLeft <= 0 \/ Within(NextDeadline, 0)
  /\ capDeadline' = NextDeadline
  /\ closed' = IF idleLeft <= 0 THEN "idle" ELSE "time_up"
  /\ UNCHANGED <<now, wakeAt, lastInput, waiting, warned, warnedAt, uneasyAt, toldAt, lineMovedAt>>

Look ==
  /\ Awake
  /\ ~(idleLeft <= 0 \/ Within(NextDeadline, 0))
  /\ capDeadline' = NextDeadline
  /\ wakeAt' = now + Tick
  /\ warned' = Kind(NextDeadline)
  /\ warnedAt' = IF warned' = warned THEN warnedAt ELSE now
  /\ uneasyAt' = IF warned' = "ok" THEN None
                 ELSE IF uneasyAt = None THEN now ELSE uneasyAt
  /\ toldAt' = IF warned' = "ok" THEN None
               ELSE IF warned' = "time_up" /\ toldAt = None THEN now ELSE toldAt
  /\ UNCHANGED <<now, lastInput, waiting, closed, lineMovedAt>>

-----------------------------------------------------------------------------
Open == closed = "no" /\ (Pass \/ Input \/ LineForms \/ LineEmpties)

Next == Open \/ Close \/ Look

Spec == Init /\ [][Next]_vars
-----------------------------------------------------------------------------
(* Properties. *)

\* An idle session is closed, whoever waits: no input for idle_s and one more
\* look ends it.
IdleClosedInTime ==
  closed = "no" => now - lastInput < IdleS + Slip

\* While somebody waits without a break, the session ends: at the cap, or the
\* full warning after the line was first seen, whichever is later.  This is
\* what lets the line of Sessions rely on TimeUp.
CapClosedInTime ==
  closed = "no" /\ waiting =>
    \/ now < SessionMaxS + Slip
    \/ now < lineMovedAt + capWarn + 2 * Slip

\* Nobody is closed out of the blue: an idle user was told so, and a user over
\* the cap was under some warning, without a break, for as long as the code
\* allots to it, less the one look that may come late.
NeverUnwarned ==
  /\ closed = "idle" => warned = "idle" /\ now - warnedAt > idleWarn - Slip
  /\ closed = "time_up" => uneasyAt # None /\ now - uneasyAt > capWarn - Slip

\* What the client was last told is true, or became false since the last look:
\* a user back at the keyboard, or a line that emptied, sees the notice go,
\* and one who walks away sees it come.
NoticeHonest ==
  closed = "no" =>
    /\ warned = "idle" => idleLeft <= idleWarn \/ now - lastInput <= Slip
    /\ warned = "time_up" => waiting \/ now - lineMovedAt <= Slip
    /\ idleLeft <= idleWarn - Slip => warned = "idle"

\* docs/hosted-sessions.md: the cap applies "always with the full 60 s
\* session_notice{kind: time_up} warning first" (granted one look's slip).
TimeUpWarned ==
  closed = "time_up" => toldAt # None /\ now - toldAt > capWarn - Slip
=============================================================================
