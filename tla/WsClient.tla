------------------------------ MODULE WsClient ------------------------------
(***************************************************************************)
(* streetlab/src/net/wsClient.ts, createWebSocketTransport: the browser's  *)
(* end of the connection.  It reopens its socket after a close, on a       *)
(* timer that backs off; it halts on a server's verdict until the user     *)
(* asks for a retry; and it queues what is sent in between.                *)
(*                                                                         *)
(* App.tsx connects a transport once and closes it at most once.  An       *)
(* action is one callback: the browser runs them one at a time.  Commands  *)
(* are numbered as they are sent.                                          *)
(***************************************************************************)
EXTENDS Naturals, SequencesExt

CONSTANTS
  QueueLimit,   \* queueLimit
  DownAfter,    \* DOWN_AFTER_ATTEMPTS
  MaxCmd        \* bound: commands sent

ASSUME WsClientAssumption ==
  /\ QueueLimit \in Nat \ {0}
  /\ DownAfter \in Nat \ {0}
  /\ MaxCmd \in Nat

VARIABLES
  life,      \* "new" before connect(), "on", then "off" after close()
  socket,    \* the socket referred to, or "none"
  strays,    \* sockets connecting or open that nothing refers to any more
  halted,
  attempt,   \* counted up to DownAfter: beyond it only the delay grows
  timers,    \* setTimeout(open) calls outstanding
  checked,   \* protocolChecked
  queue,
  failure,   \* the last onFailure
  \* History, for the properties:
  sent,      \* commands sent so far
  wire,      \* commands handed to an open socket
  verdict    \* the server said no, and the user has not asked again

vars == <<life, socket, strays, halted, attempt, timers, checked, queue,
          failure, sent, wire, verdict>>

TypeOK ==
  /\ life \in {"new", "on", "off"}
  /\ socket \in {"none", "connecting", "open", "closing"}
  /\ strays \in Nat
  /\ halted \in BOOLEAN
  /\ attempt \in 0 .. DownAfter
  /\ timers \in 0 .. 1
  /\ checked \in BOOLEAN
  /\ queue \in Seq(1 .. MaxCmd) /\ Len(queue) <= QueueLimit
  /\ failure \in {"none", "down", "verdict"}
  /\ sent \in 0 .. MaxCmd
  /\ wire \in Seq(1 .. MaxCmd)
  /\ verdict \in BOOLEAN

\* Before connect().
Init ==
  /\ life = "new" /\ socket = "none" /\ strays = 0 /\ halted = FALSE
  /\ attempt = 0 /\ timers = 0 /\ checked = FALSE /\ queue = <<>>
  /\ failure = "none" /\ sent = 0 /\ wire = <<>> /\ verdict = FALSE

-----------------------------------------------------------------------------
\* scheduleRetry, with t timers outstanding and attempt a before it.
ScheduleRetry(t, a) ==
  /\ timers' = t + 1
  /\ attempt' = IF a < DownAfter THEN a + 1 ELSE a

\* open, from a callback that leaves t timers and the attempt at a: a new
\* socket takes the reference, or its constructor throws.
OpenSocket(t, a) ==
  \/ /\ socket' = "connecting"
     /\ strays' = IF socket \in {"connecting", "open"} THEN strays + 1 ELSE strays
     /\ checked' = FALSE
     /\ timers' = t /\ attempt' = a
  \/ /\ ScheduleRetry(t, a)
     /\ UNCHANGED <<socket, strays, checked>>

\* connect, which attach() of the store calls once.
Connect ==
  /\ life = "new"
  /\ life' = "on" /\ halted' = FALSE
  /\ OpenSocket(timers, 0)
  /\ UNCHANGED <<queue, failure, sent, wire, verdict>>

\* The timer fires; open gives up when halted.
TimerFires ==
  /\ life = "on" /\ timers > 0
  /\ IF halted
     THEN timers' = timers - 1 /\ UNCHANGED <<socket, strays, attempt, checked>>
     ELSE OpenSocket(timers - 1, attempt)
  /\ UNCHANGED <<life, halted, queue, failure, sent, wire, verdict>>

\* Bug: whatever the transport is doing.
Retry_Always ==
  /\ life = "on"
  /\ halted' = FALSE /\ failure' = "none" /\ verdict' = FALSE
  /\ OpenSocket(0, 0)
  /\ UNCHANGED <<life, queue, sent, wire>>

\* retry, the user's button: nothing while there is a socket.
Retry ==
  /\ life = "on" /\ socket = "none"
  /\ halted' = FALSE /\ failure' = "none" /\ verdict' = FALSE
  /\ OpenSocket(0, 0)
  /\ UNCHANGED <<life, queue, sent, wire>>

\* close: the timer is cleared; a socket's onclose finds nobody to tell.
Close ==
  /\ life = "on"
  /\ life' = "off" /\ timers' = 0 /\ socket' = "none"
  /\ UNCHANGED <<strays, halted, attempt, checked, queue, failure, sent, wire, verdict>>

-----------------------------------------------------------------------------
(* The socket's events. *)

\* Bug: what was queued waits for the next command.
Opened_Unflushed ==
  /\ socket = "connecting"
  /\ socket' = "open" /\ attempt' = 0 /\ failure' = "none"
  /\ UNCHANGED <<life, strays, halted, timers, checked, queue, sent, wire, verdict>>

\* Bug: the failure on display is left to the next message.
Opened_StillDown ==
  /\ socket = "connecting"
  /\ socket' = "open" /\ attempt' = 0
  /\ wire' = wire \o queue /\ queue' = <<>>
  /\ UNCHANGED <<life, strays, halted, timers, checked, failure, sent, verdict>>

\* onopen, with flushQueue.
Opened ==
  /\ socket = "connecting"
  /\ socket' = "open" /\ attempt' = 0 /\ failure' = "none"
  /\ wire' = wire \o queue /\ queue' = <<>>
  /\ UNCHANGED <<life, strays, halted, timers, checked, sent, verdict>>

\* onmessage, the first with a protocol number: a wrong one halts.
FirstMessage ==
  /\ socket = "open" /\ ~checked
  /\ checked' = TRUE
  /\ \/ UNCHANGED <<socket, halted, timers, failure, verdict>>
     \/ /\ socket' = "closing"
        /\ halted' = TRUE /\ timers' = 0 /\ failure' = "verdict" /\ verdict' = TRUE
  /\ UNCHANGED <<life, strays, attempt, queue, sent, wire>>

\* Why a socket closes: a code of ws_server.py, or anything else.
ServerSays == {"origin_rejected", "server_busy", "idle_kicked", "time_up"}

\* Bug: the session cap's code is not one of them.
Verdicts_NoCap == {"origin_rejected", "server_busy", "idle_kicked"}

\* The codes that onclose does not retry.
Verdicts == {"origin_rejected", "server_busy", "idle_kicked", "time_up"}

\* Bug: after enough failures the transport gives up.
Lost_GivesUp ==
  IF attempt + 1 >= DownAfter
  THEN failure' = "down" /\ UNCHANGED <<timers, attempt>>
  ELSE UNCHANGED failure /\ ScheduleRetry(timers, attempt)

\* onclose without a verdict: "down" from the second failure in a row.
Lost ==
  /\ failure' = IF attempt + 1 >= DownAfter THEN "down" ELSE failure
  /\ ScheduleRetry(timers, attempt)

\* onclose; the server speaks only on a socket it accepted.
Closed(code) ==
  /\ socket # "none"
  /\ code \in ServerSays => socket = "open"
  /\ socket' = "none"
  /\ IF halted THEN UNCHANGED <<halted, timers, attempt, failure>>
     ELSE IF code \in Verdicts
     THEN /\ halted' = TRUE /\ timers' = 0 /\ failure' = "verdict"
          /\ UNCHANGED attempt
     ELSE Lost /\ UNCHANGED halted
  /\ verdict' = (verdict \/ code \in ServerSays)
  /\ UNCHANGED <<life, strays, checked, queue, sent, wire>>

-----------------------------------------------------------------------------
(* send. *)

\* The queue with k at its end, without its oldest when it is full.
Queued(k) ==
  LET q == Append(queue, k) IN IF Len(q) > QueueLimit THEN Tail(q) ELSE q

\* A command goes out on an open socket; else it is queued, or dropped if it
\* is a camera_frame, suggest_address, heartbeat or drive_input.
Send ==
  /\ life = "on" /\ sent < MaxCmd
  /\ sent' = sent + 1
  /\ IF socket = "open"
     THEN wire' = Append(wire, sent + 1) /\ UNCHANGED queue
     ELSE UNCHANGED wire /\ queue' \in {queue, Queued(sent + 1)}
  /\ UNCHANGED <<life, socket, strays, halted, attempt, timers, checked, failure, verdict>>

-----------------------------------------------------------------------------
Next ==
  \/ Connect \/ TimerFires \/ Retry \/ Close
  \/ Opened \/ FirstMessage
  \/ (\E code \in ServerSays \cup {"other"} : Closed(code))
  \/ Send

\* Timers fire, a constructor does not throw for ever, and a server reached
\* again and again answers once.
Fairness == SF_vars(TimerFires /\ socket' = "connecting") /\ SF_vars(Opened)

Spec == Init /\ [][Next]_vars
FairSpec == Spec /\ Fairness
-----------------------------------------------------------------------------
(* Properties. *)

\* There is one socket or none, and a retry is pending only while there is
\* none: neither a timer nor an impatient user opens a second session.
OneSocket ==
  /\ strays = 0
  /\ timers > 0 => socket = "none"

\* After a verdict (refused, busy, idle, out of time, wrong protocol) nothing
\* reconnects before the user asks: a visitor sent away does not rejoin the
\* line on its own.
VerdictHolds == verdict => halted /\ socket \in {"none", "closing"} /\ timers = 0

\* What the user is shown is so: "down" only while there is no connection, and
\* a verdict for exactly as long as the transport is halted by one.
FailureHonest ==
  /\ failure = "down" => socket # "open" /\ ~halted
  /\ failure = "verdict" <=> halted

\* Commands reach the server in the order they were given, across reconnects,
\* and none is queued while the socket is open.
CommandsInOrder ==
  /\ \A i, j \in DOMAIN (wire \o queue) : i < j => (wire \o queue)[i] < (wire \o queue)[j]
  /\ socket = "open" => queue = <<>>

\* A transport that is neither halted nor closed finds the server again, if
\* the server is there.
Reconnects ==
  life = "on" /\ socket = "none" /\ ~halted ~> socket = "open" \/ halted \/ life = "off"
=============================================================================
