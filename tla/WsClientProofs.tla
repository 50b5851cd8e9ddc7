--------------------------- MODULE WsClientProofs ---------------------------
(***************************************************************************)
(* Proofs about WsClient, for any queue and any number of attempts: one    *)
(* socket at a time, verdicts that hold, a failure shown honestly and      *)
(* commands in order.  Then about LocationSearch: it runs that transport,  *)
(* and a locked sidebar always has something to unlock it.                 *)
(***************************************************************************)
EXTENDS LocationSearch, TLAPS

\* The types the control depends on.
Flags == halted \in BOOLEAN /\ verdict \in BOOLEAN

Control ==
  /\ life \in {"new", "on", "off"}
  /\ socket \in {"none", "connecting", "open", "closing"}
  /\ strays = 0
  /\ attempt \in Nat
  /\ timers \in 0 .. 1
  /\ failure \in {"none", "down", "verdict"}

\* What is pending fits the state: nothing outside the transport's life, and
\* no timer beside a socket or after a verdict.
Pending ==
  /\ life = "new" => ~halted /\ ~verdict
  /\ life # "on" => socket = "none" /\ timers = 0
  /\ timers > 0 => socket = "none" /\ ~halted
  /\ halted => socket \in {"none", "closing"}
  /\ socket = "closing" => halted
  /\ verdict => halted

Inv == Flags /\ Control /\ Pending /\ FailureHonest

\* The invariant holds before connect().
LEMMA InitInv == Init => Inv
<1> SUFFICES ASSUME Init PROVE Inv
  OBVIOUS
<1>0. Flags
  BY DEF Init, Flags
<1>1. Control
  BY DEF Init, Control
<1>2. Pending /\ FailureHonest
  BY DEF Init, Pending, FailureHonest
<1> QED BY <1>0, <1>1, <1>2 DEF Inv

\* A callback of the transport's own, each with what open does.
LEMMA OwnStep == Inv /\ (Connect \/ TimerFires \/ Retry \/ Close) => Inv'
<1> SUFFICES ASSUME Inv, Connect \/ TimerFires \/ Retry \/ Close PROVE Inv'
  OBVIOUS
<1> USE WsClientAssumption
<1>1. CASE Connect
  <2>0. Flags'
    BY <1>1 DEF Connect, OpenSocket, ScheduleRetry, Inv, Flags
  <2>1. Control'
    BY <1>1 DEF Connect, OpenSocket, ScheduleRetry, Inv, Control, Pending
  <2>2. Pending'
    BY <1>1 DEF Connect, OpenSocket, ScheduleRetry, Inv, Control, Pending
  <2>3. FailureHonest'
    BY <1>1 DEF Connect, OpenSocket, ScheduleRetry, Inv, Control, Pending, FailureHonest
  <2> QED BY <2>0, <2>1, <2>2, <2>3 DEF Inv
<1>2. CASE TimerFires
  <2>0. Flags'
    BY <1>2 DEF TimerFires, OpenSocket, ScheduleRetry, Inv, Flags
  <2>1. Control'
    BY <1>2 DEF TimerFires, OpenSocket, ScheduleRetry, Inv, Control, Pending
  <2>2. Pending'
    BY <1>2 DEF TimerFires, OpenSocket, ScheduleRetry, Inv, Control, Pending
  <2>3. FailureHonest'
    BY <1>2 DEF TimerFires, OpenSocket, ScheduleRetry, Inv, Control, Pending, FailureHonest
  <2> QED BY <2>0, <2>1, <2>2, <2>3 DEF Inv
<1>3. CASE Retry
  <2>0. Flags'
    BY <1>3 DEF Retry, OpenSocket, ScheduleRetry, Inv, Flags
  <2>1. Control'
    BY <1>3 DEF Retry, OpenSocket, ScheduleRetry, Inv, Control, Pending
  <2>2. Pending'
    BY <1>3 DEF Retry, OpenSocket, ScheduleRetry, Inv, Control, Pending
  <2>3. FailureHonest'
    BY <1>3 DEF Retry, OpenSocket, ScheduleRetry, Inv, Control, Pending, FailureHonest
  <2> QED BY <2>0, <2>1, <2>2, <2>3 DEF Inv
<1>4. CASE Close
  <2>0. Flags'
    BY <1>4 DEF Close, Inv, Flags
  <2>1. Control'
    BY <1>4 DEF Close, Inv, Control, Pending
  <2>2. Pending'
    BY <1>4 DEF Close, Inv, Control, Pending
  <2>3. FailureHonest'
    BY <1>4 DEF Close, Inv, Control, Pending, FailureHonest
  <2> QED BY <2>0, <2>1, <2>2, <2>3 DEF Inv
<1> QED
  BY <1>1, <1>2, <1>3, <1>4

\* An event of the socket.
LEMMA SocketStep ==
  ASSUME Inv, Opened \/ FirstMessage \/ \E code \in ServerSays \cup {"other"} : Closed(code)
  PROVE  Inv'
<1> USE WsClientAssumption
<1>1. CASE Opened
  <2>0. Flags'
    BY <1>1 DEF Opened, Inv, Flags
  <2>1. Control'
    BY <1>1 DEF Opened, Inv, Control, Pending
  <2>2. Pending'
    BY <1>1 DEF Opened, Inv, Control, Pending
  <2>3. FailureHonest'
    BY <1>1 DEF Opened, Inv, Control, Pending, FailureHonest
  <2> QED BY <2>0, <2>1, <2>2, <2>3 DEF Inv
<1>2. CASE FirstMessage
  <2>0. Flags'
    BY <1>2 DEF FirstMessage, Inv, Flags
  <2>1. Control'
    BY <1>2 DEF FirstMessage, Inv, Control, Pending
  <2>2. Pending'
    BY <1>2 DEF FirstMessage, Inv, Control, Pending
  <2>3. FailureHonest'
    BY <1>2 DEF FirstMessage, Inv, Control, Pending, FailureHonest
  <2> QED BY <2>0, <2>1, <2>2, <2>3 DEF Inv
<1>3. ASSUME NEW code \in ServerSays \cup {"other"}, Closed(code) PROVE Inv'
  <2>1. code \in ServerSays <=> code \in Verdicts
    BY DEF ServerSays, Verdicts
  <2>2. CASE halted
    <3>0. Flags'
      BY <1>3, <2>1, <2>2 DEF Closed, Inv, Flags
    <3>1. Control'
      BY <1>3, <2>1, <2>2 DEF Closed, Inv, Control, Pending
    <3>2. Pending'
      BY <1>3, <2>1, <2>2 DEF Closed, Inv, Control, Pending
    <3>3. FailureHonest'
      BY <1>3, <2>1, <2>2 DEF Closed, Inv, Control, Pending, FailureHonest
    <3> QED BY <3>0, <3>1, <3>2, <3>3 DEF Inv
  <2>3. CASE ~halted /\ code \in Verdicts
    <3>0. Flags'
      BY <1>3, <2>1, <2>3 DEF Closed, Inv, Flags
    <3>1. Control'
      BY <1>3, <2>1, <2>3 DEF Closed, Inv, Control, Pending
    <3>2. Pending'
      BY <1>3, <2>1, <2>3 DEF Closed, Inv, Control, Pending
    <3>3. FailureHonest'
      BY <1>3, <2>1, <2>3 DEF Closed, Inv, Control, Pending, FailureHonest
    <3> QED BY <3>0, <3>1, <3>2, <3>3 DEF Inv
  <2>4. CASE ~halted /\ code \notin Verdicts
    <3>0. Flags'
      BY <1>3, <2>1, <2>4 DEF Closed, Lost, ScheduleRetry, Inv, Flags
    <3>1. Control'
      BY <1>3, <2>1, <2>4 DEF Closed, Lost, ScheduleRetry, Inv, Control, Pending
    <3>2. Pending'
      BY <1>3, <2>1, <2>4 DEF Closed, Lost, ScheduleRetry, Inv, Control, Pending
    <3>3. FailureHonest'
      BY <1>3, <2>1, <2>4 DEF Closed, Lost, ScheduleRetry, Inv, Control, Pending, FailureHonest
    <3> QED BY <3>0, <3>1, <3>2, <3>3 DEF Inv
  <2> QED BY <2>2, <2>3, <2>4
<1> QED
  BY <1>1, <1>2, <1>3

\* The invariant holds in every state.
LEMMA Invariant == Spec => []Inv
<1>1. Inv /\ (Send \/ UNCHANGED vars) => Inv'
  BY DEF Inv, Flags, Control, Pending, FailureHonest, Send, vars
<1>2. Inv /\ [Next]_vars => Inv'
  BY <1>1, OwnStep, SocketStep DEF Next
<1> QED
  BY InitInv, <1>2, PTL DEF Spec

-----------------------------------------------------------------------------
\* No timer and no user ever opens a second socket beside the first.
THEOREM OneSocketAlways == Spec => []OneSocket
<1>1. Inv => OneSocket
  BY DEF Inv, Control, Pending, OneSocket
<1> QED BY Invariant, <1>1, PTL

\* A visitor sent away stays away until the user asks again.
THEOREM VerdictAlwaysHolds == Spec => []VerdictHolds
<1>1. Inv => VerdictHolds
  BY DEF Inv, Control, Pending, VerdictHolds
<1> QED BY Invariant, <1>1, PTL

\* The failure on display is the transport's.
THEOREM FailureAlwaysHonest == Spec => []FailureHonest
<1>1. Inv => FailureHonest
  BY DEF Inv
<1> QED BY Invariant, <1>1, PTL
-----------------------------------------------------------------------------
(* The commands. *)

\* Commands in the order they were given, none of them later than the last.
Rising(s) ==
  /\ s \in Seq(1 .. MaxCmd)
  /\ \A i \in 1 .. Len(s) : s[i] <= sent
  /\ \A i, j \in 1 .. Len(s) : i < j => s[i] < s[j]

\* What is queued is later than all that went out, and waits for a socket.
Orders ==
  /\ sent \in 0 .. MaxCmd
  /\ Rising(wire) /\ Rising(queue)
  /\ \A i \in 1 .. Len(wire), j \in 1 .. Len(queue) : wire[i] < queue[j]
  /\ Len(queue) <= QueueLimit
  /\ socket = "open" => queue = <<>>

Bounds == attempt \in 0 .. DownAfter /\ checked \in BOOLEAN

\* A flush of the queue behind what went out keeps the order.
LEMMA Flush ==
  ASSUME Orders
  PROVE  Rising(wire \o queue)
<1> USE DEF Orders, Rising
<1>1. wire \o queue \in Seq(1 .. MaxCmd)
  OBVIOUS
<1>2. /\ Len(wire \o queue) = Len(wire) + Len(queue)
      /\ \A i \in 1 .. Len(wire) + Len(queue) :
           (wire \o queue)[i] = IF i <= Len(wire) THEN wire[i] ELSE queue[i - Len(wire)]
  OBVIOUS
<1>3. Len(wire) \in Nat /\ Len(queue) \in Nat
  OBVIOUS
<1>4. \A i \in 1 .. Len(wire \o queue) : (wire \o queue)[i] <= sent
  BY <1>2, <1>3
<1>5. ASSUME NEW i \in 1 .. Len(wire \o queue), NEW j \in 1 .. Len(wire \o queue), i < j
      PROVE  (wire \o queue)[i] < (wire \o queue)[j]
  <2>1. CASE j <= Len(wire)
    BY <1>2, <1>3, <1>5, <2>1
  <2>2. CASE i <= Len(wire) /\ j > Len(wire)
    BY <1>2, <1>3, <1>5, <2>2
  <2>3. CASE i > Len(wire)
    BY <1>2, <1>3, <1>5, <2>3
  <2> QED BY <1>3, <2>1, <2>2, <2>3
<1> QED BY <1>1, <1>4, <1>5

\* A new command is the latest: it goes to the end of either, and a full queue
\* loses its oldest.
LEMMA SendKeeps == Orders /\ Send => Orders'
<1> SUFFICES ASSUME Orders, Send PROVE Orders'
  OBVIOUS
<1> USE WsClientAssumption
<1> DEFINE k == sent + 1
<1>0. k \in 1 .. MaxCmd /\ sent' = k /\ socket' = socket
  BY DEF Orders, Send
<1>later. /\ wire' = wire => Rising(wire)'
          /\ queue' = queue => Rising(queue)'
  <2>1. sent \in Int /\ sent' \in Int /\ sent < sent'
    BY <1>0 DEF Orders
  <2>2. ASSUME NEW s, Rising(s), NEW i \in 1 .. Len(s) PROVE s[i] <= sent'
    <3>1. s[i] \in Int /\ s[i] <= sent
      BY <2>2 DEF Rising
    <3> QED BY <2>1, <3>1
  <2>3. wire' = wire => Rising(wire)'
    BY <2>2 DEF Rising, Orders
  <2>4. queue' = queue => Rising(queue)'
    BY <2>2 DEF Rising, Orders
  <2> QED BY <2>3, <2>4
<1>1. ASSUME NEW s, Rising(s)
      PROVE  /\ Append(s, k) \in Seq(1 .. MaxCmd)
             /\ Len(Append(s, k)) = Len(s) + 1
             /\ Len(s) \in Nat
             /\ \A i \in 1 .. Len(s) : Append(s, k)[i] = s[i] /\ s[i] < k
             /\ Append(s, k)[Len(s) + 1] = k
  BY <1>0, <1>1 DEF Rising, Orders
<1>2. CASE socket = "open"
  <2>1. wire' = Append(wire, k) /\ queue' = <<>>
    BY <1>2 DEF Send, Orders
  <2>2. Rising(wire)' /\ Rising(queue)'
    BY <1>0, <1>1, <2>1 DEF Rising, Orders
  <2> QED BY <1>0, <2>1, <2>2 DEF Orders
<1>3. CASE socket # "open" /\ queue' = queue
  <2>1. wire' = wire
    BY <1>3 DEF Send
  <2>2. Rising(wire)' /\ Rising(queue)'
    BY <1>0, <1>3, <1>later, <2>1
  <2> QED BY <1>0, <1>3, <2>1, <2>2 DEF Orders
<1>4. CASE socket # "open" /\ queue' = Queued(k)
  <2> DEFINE q == Append(queue, k)
  <2>1. wire' = wire /\ queue' = IF Len(q) > QueueLimit THEN Tail(q) ELSE q
    BY <1>4 DEF Send, Queued
  <2>2. /\ q \in Seq(1 .. MaxCmd) /\ Len(q) = Len(queue) + 1 /\ Len(queue) \in Nat
        /\ \A i \in 1 .. Len(queue) : q[i] = queue[i] /\ queue[i] < k
        /\ q[Len(queue) + 1] = k
    BY <1>1 DEF Orders
  <2>3. /\ \A i \in 1 .. Len(q) : q[i] <= k
        /\ \A i, j \in 1 .. Len(q) : i < j => q[i] < q[j]
        /\ \A i \in 1 .. Len(wire), j \in 1 .. Len(q) : wire[i] < q[j]
    <3>1. \A i \in 1 .. Len(wire) : wire[i] < k
      BY <1>1 DEF Orders
    <3>2. Len(wire) \in Nat /\ \A i \in 1 .. Len(q) : q[i] \in Int
      BY <2>2 DEF Orders, Rising
    <3> HIDE DEF q, k
    <3>3. \A i \in 1 .. Len(q) : q[i] <= k
      BY <1>0, <2>2, <3>2
    <3>a. \A i, j \in 1 .. Len(queue) : i < j => queue[i] < queue[j]
      BY DEF Orders, Rising
    <3>b. \A i \in 1 .. Len(wire), j \in 1 .. Len(queue) : wire[i] < queue[j]
      BY DEF Orders
    <3>c. \A j \in 1 .. Len(q) : j \in 1 .. Len(queue) \/ j = Len(queue) + 1
      BY <2>2
    <3>4. ASSUME NEW i \in 1 .. Len(q), NEW j \in 1 .. Len(q), i < j
          PROVE  q[i] < q[j]
      <4>1. i \in 1 .. Len(queue)
        BY <2>2, <3>4
      <4>2. q[i] = queue[i] /\ queue[i] < k
        BY <2>2, <4>1
      <4>3. CASE j \in 1 .. Len(queue)
        BY <2>2, <3>a, <3>4, <4>1, <4>2, <4>3
      <4>4. CASE j = Len(queue) + 1
        BY <2>2, <4>2, <4>4
      <4> QED BY <3>c, <4>3, <4>4
    <3>5. ASSUME NEW i \in 1 .. Len(wire), NEW j \in 1 .. Len(q)
          PROVE  wire[i] < q[j]
      <4>1. CASE j \in 1 .. Len(queue)
        BY <2>2, <3>b, <4>1
      <4>2. CASE j = Len(queue) + 1
        BY <2>2, <3>1, <4>2
      <4> QED BY <3>c, <4>1, <4>2
    <3> QED BY <3>3, <3>4, <3>5
  <2>4. Rising(wire)'
    BY <1>later, <2>1
  <2>5. CASE Len(q) <= QueueLimit
    <3>1. queue' = q
      BY <2>1, <2>2, <2>5
    <3> HIDE DEF q, k
    <3> QED BY <1>0, <1>4, <2>1, <2>2, <2>3, <2>4, <2>5, <3>1 DEF Orders, Rising
  <2>6. CASE Len(q) > QueueLimit
    <3>1. queue' = Tail(q)
      BY <2>1, <2>6
    <3>2. /\ Tail(q) \in Seq(1 .. MaxCmd) /\ Len(Tail(q)) = Len(queue)
          /\ \A i \in 1 .. Len(queue) : Tail(q)[i] = q[i + 1]
      <4> HIDE DEF q
      <4> QED BY <2>2
    <3> HIDE DEF q, k
    <3>3. Rising(queue)'
      BY <1>0, <2>2, <2>3, <3>1, <3>2 DEF Rising
    <3> QED BY <1>0, <1>4, <2>1, <2>2, <2>3, <2>4, <3>1, <3>2, <3>3 DEF Orders
  <2> QED BY <2>2, <2>5, <2>6, WsClientAssumption
<1> QED BY <1>2, <1>3, <1>4 DEF Send

\* Only a command or an opened socket touches them.
LEMMA OrdersStep == Orders /\ [Next]_vars => Orders'
<1> SUFFICES ASSUME Orders, [Next]_vars PROVE Orders'
  OBVIOUS
<1>1. ASSUME UNCHANGED <<queue, wire, sent>>, socket' = "open" => socket = "open"
      PROVE  Orders'
  BY <1>1 DEF Orders, Rising
<1>2. CASE Connect \/ TimerFires \/ Retry \/ Close
  BY <1>1, <1>2 DEF Connect, TimerFires, Retry, Close, OpenSocket, ScheduleRetry
<1>3. CASE Opened
  <2>1. wire' = wire \o queue /\ queue' = <<>> /\ sent' = sent
    BY <1>3 DEF Opened
  <2>2. Rising(wire)' /\ Rising(queue)'
    BY <2>1, Flush DEF Rising
  <2> QED BY <2>1, <2>2, WsClientAssumption DEF Orders
<1>4. CASE FirstMessage
  BY <1>1, <1>4 DEF FirstMessage
<1>5. ASSUME NEW code, Closed(code) PROVE Orders'
  BY <1>1, <1>5 DEF Closed
<1>6. CASE UNCHANGED vars
  BY <1>1, <1>6 DEF vars
<1> QED BY <1>2, <1>3, <1>4, <1>5, <1>6, SendKeeps DEF Next

\* The order holds in every state.
LEMMA OrdersAlways == Spec => []Orders
<1>1. Init => Orders
  BY WsClientAssumption DEF Init, Orders, Rising
<1> QED BY <1>1, OrdersStep, PTL DEF Spec

\* The attempts are counted up to DownAfter, and the protocol check is a flag.
LEMMA BoundsAlways == Spec => []Bounds
<1> DEFINE Counted == attempt \in 0 .. DownAfter
           Flag == checked \in BOOLEAN
<1>1. Init => Counted /\ Flag
  <2>1. Init => Counted
    BY WsClientAssumption DEF Init
  <2>2. Init => Flag
    BY DEF Init
  <2> QED BY <2>1, <2>2
<1>2. Counted /\ [Next]_vars => Counted'
  BY WsClientAssumption
  DEF Next, vars, Connect, TimerFires, Retry, Close, OpenSocket, ScheduleRetry,
      Opened, FirstMessage, Closed, Lost, Send
<1>3. Flag /\ [Next]_vars => Flag'
  <2>1. Flag /\ (Connect \/ TimerFires \/ Retry) => Flag'
    BY DEF Connect, TimerFires, Retry, OpenSocket
  <2>2. Flag /\ (Close \/ Opened \/ FirstMessage \/ Send \/ UNCHANGED vars) => Flag'
    BY DEF Close, Opened, FirstMessage, Send, vars
  <2>3. Flag /\ (\E code \in ServerSays \cup {"other"} : Closed(code)) => Flag'
    BY DEF Closed
  <2> QED BY <2>1, <2>2, <2>3 DEF Next
<1> QED BY <1>1, <1>2, <1>3, PTL DEF Spec, Bounds

\* The variables of WsClient keep their types: no second timer, no stray
\* socket, and a queue within its limit.
THEOREM TypeCorrect == Spec => []TypeOK
<1>1. Inv /\ Orders /\ Bounds => TypeOK
  BY DEF Inv, Flags, Control, Orders, Rising, Bounds, TypeOK
<1> QED BY Invariant, OrdersAlways, BoundsAlways, <1>1, PTL

\* Commands go out in the order they were given, across any number of
\* reconnections and for any limit of the queue.
THEOREM CommandsAlwaysInOrder == Spec => []CommandsInOrder
<1>1. Orders => CommandsInOrder
  <2> SUFFICES ASSUME Orders PROVE CommandsInOrder
    OBVIOUS
  <2>1. Rising(wire \o queue)
    BY Flush
  <2>2. DOMAIN (wire \o queue) = 1 .. Len(wire \o queue)
    BY <2>1 DEF Rising
  <2> QED BY <2>1, <2>2 DEF CommandsInOrder, Rising, Orders
<1> QED BY OrdersAlways, <1>1, PTL
-----------------------------------------------------------------------------
(* The search over the transport. *)

\* Every step of the search is one of the transport, or leaves it alone.
LEMMA SearchSteps == [SearchNext]_allVars => [Next]_vars
<1> SUFFICES ASSUME [SearchNext]_allVars PROVE [Next]_vars
  OBVIOUS
<1>1. CASE LoadLocation \/ SendOther
  BY <1>1 DEF LoadLocation, SendOther, Next
<1>2. CASE Deliver
  BY <1>2 DEF Deliver, Next
<1>3. CASE Reopen
  BY <1>3 DEF Reopen, Next
<1>4. CASE Drop \/ Detach
  BY <1>4 DEF Drop, Detach, Next
<1>5. CASE Ignore \/ Admit \/ Receive \/ EndBuild \/ Stream
  BY <1>5 DEF Ignore, Admit, Receive, EndBuild, Stream
<1>6. CASE UNCHANGED allVars
  BY <1>6 DEF allVars
<1> QED BY <1>1, <1>2, <1>3, <1>4, <1>5, <1>6 DEF SearchNext

\* The search runs the transport: whatever holds of every behaviour of WsClient
\* holds while the store and the server use it.
THEOREM SearchRunsClient == SearchSpec => Spec
<1>1. SearchInit => Init
  BY DEF SearchInit
<1> QED BY <1>1, SearchSteps, PTL DEF SearchSpec, Spec

\* The flags of the search.
SearchFlags ==
  /\ pending \in BOOLEAN /\ unsent \in BOOLEAN /\ admitted \in BOOLEAN
  /\ swapped \in BOOLEAN /\ failed \in BOOLEAN

\* Every step keeps them.
LEMMA FlagsStep == SearchFlags /\ [SearchNext]_allVars => SearchFlags'
<1> SUFFICES ASSUME SearchFlags, [SearchNext]_allVars PROVE SearchFlags'
  OBVIOUS
<1>1. CASE LoadLocation
  BY <1>1 DEF LoadLocation, SearchFlags, server
<1>2. CASE SendOther \/ Reopen
  BY <1>2 DEF SendOther, Reopen, SearchFlags, page, server
<1>3. CASE Deliver
  BY <1>3 DEF Deliver, Applied, SearchFlags, page
<1>4. CASE Drop \/ Detach
  BY <1>4 DEF Drop, Detach, Severed, SearchFlags, page
<1>5. CASE Ignore \/ Admit \/ Receive
  BY <1>5 DEF Ignore, Admit, Receive, SearchFlags, page
<1>6. CASE EndBuild \/ Stream
  BY <1>6 DEF EndBuild, Stream, SearchFlags, page
<1>7. CASE UNCHANGED allVars
  BY <1>7 DEF allVars, SearchFlags, page, server
<1> QED BY <1>1, <1>2, <1>3, <1>4, <1>5, <1>6, <1>7 DEF SearchNext

\* The books of the search: what was received is on the wire, and the server
\* streams to a socket that was opened.
Books ==
  /\ loads \subseteq 1 .. sent
  /\ heard \in Nat /\ heard <= Len(wire)
  /\ builds \in Nat
  /\ answers \in Seq(Answer)
  /\ admitted => socket \in {"open", "closing"}

\* The page's steps.  The wire only grows, by what Orders says.
LEMMA BooksPage ==
  ASSUME Books, Inv, Orders, Orders',
         LoadLocation \/ SendOther \/ Deliver \/ Reopen \/ Drop \/ Detach
  PROVE  Books'
<1> USE DEF Books
<1>0. /\ wire \in Seq(1 .. MaxCmd) /\ wire' \in Seq(1 .. MaxCmd)
      /\ queue \in Seq(1 .. MaxCmd)
      /\ sent \in Nat
  BY DEF Orders, Rising
<1>1. CASE LoadLocation
  <2>1. UNCHANGED server
    BY <1>1 DEF LoadLocation
  <2>2. CASE Send /\ loads' = loads \cup {sent + 1}
    <3>1. sent' = sent + 1 /\ socket' = socket /\ Len(wire) <= Len(wire')
      BY <1>0, <2>2 DEF Send
    <3> QED BY <1>0, <2>1, <2>2, <3>1 DEF server
  <2>3. CASE UNCHANGED <<vars, loads>>
    BY <2>1, <2>3 DEF server, vars
  <2> QED BY <1>1, <2>2, <2>3 DEF LoadLocation
<1>2. CASE SendOther
  <2>1. sent' = sent + 1 /\ socket' = socket /\ Len(wire) <= Len(wire')
    BY <1>0, <1>2 DEF SendOther, Send
  <2> QED BY <1>0, <1>2, <2>1 DEF SendOther, server
<1>3. CASE Deliver
  <2>1. answers' \in Seq(Answer)
    BY <1>3 DEF Deliver
  <2>2. UNCHANGED <<wire, sent, loads, heard, builds, admitted>>
    BY <1>3 DEF Deliver, FirstMessage, vars
  <2>3. socket' \in {"open", "closing"}
    BY <1>3 DEF Deliver, FirstMessage, vars
  <2> QED BY <2>1, <2>2, <2>3
<1>4. CASE Reopen
  <2>1. UNCHANGED <<sent, loads, heard, builds, answers, admitted>>
    BY <1>4 DEF Reopen, server, Connect, TimerFires, Retry, Opened
  <2>2. Len(wire) <= Len(wire')
    <3>1. CASE Opened
      BY <1>0, <3>1 DEF Opened
    <3>2. CASE Connect \/ TimerFires \/ Retry
      BY <1>0, <3>2 DEF Connect, TimerFires, Retry
    <3> QED BY <1>4, <3>1, <3>2 DEF Reopen
  <2>3. ~admitted
    <3>1. socket \in {"none", "connecting"}
      BY <1>4 DEF Reopen, Connect, TimerFires, Retry, Opened, Inv, Pending, Control
    <3> QED BY <3>1
  <2> QED BY <1>0, <2>1, <2>2, <2>3
<1>5. CASE Drop \/ Detach
  <2>1. Severed /\ UNCHANGED <<sent, wire, loads>>
    BY <1>5 DEF Drop, Detach, Closed, Close
  <2> QED BY <1>0, <2>1 DEF Severed
<1> QED BY <1>1, <1>2, <1>3, <1>4, <1>5

\* The server's steps leave the transport alone.
LEMMA BooksServer ==
  ASSUME Books, Orders, Ignore \/ Admit \/ Receive \/ EndBuild \/ Stream \/ UNCHANGED allVars
  PROVE  Books'
<1> USE DEF Books
<1>0. wire \in Seq(1 .. MaxCmd)
  BY DEF Orders, Rising
<1>1. CASE Admit
  BY <1>0, <1>1 DEF Admit, vars, Answer
<1>2. CASE Receive
  <2>1. UNCHANGED <<wire, sent, socket, loads, admitted>>
    BY <1>2 DEF Receive, vars
  <2>2. heard' \in Nat /\ heard' <= Len(wire')
    BY <1>0, <1>2, <2>1 DEF Receive
  <2>3. builds' \in Nat
    BY <1>2 DEF Receive
  <2>a. answers' \in {answers, Append(answers, "accepted"), Append(answers, "refused")}
    BY <1>2 DEF Receive
  <2>4. answers' \in Seq(Answer)
    BY <2>a DEF Answer
  <2> QED BY <2>1, <2>2, <2>3, <2>4
<1>3. CASE EndBuild
  BY <1>3 DEF EndBuild, vars
<1>4. CASE Stream
  BY <1>4 DEF Stream, vars, Answer
<1>5. CASE UNCHANGED allVars
  BY <1>5 DEF allVars, vars, server
<1>6. CASE Ignore
  BY <1>0, <1>6 DEF Ignore, vars
<1> QED BY <1>1, <1>2, <1>3, <1>4, <1>5, <1>6

\* What is still to be received once the wire has grown.
Unread == \E i \in heard + 1 .. Len(wire) : wire[i] \in loads

\* The page's steps keep the key.
LEMMA KeyPage ==
  ASSUME LockHasKey, Books, Inv, Orders, Orders', SearchFlags, SearchFlags',
         LoadLocation \/ SendOther \/ Deliver \/ Reopen \/ Drop \/ Detach
  PROVE  LockHasKey'
<1>0. /\ wire \in Seq(1 .. MaxCmd) /\ wire' \in Seq(1 .. MaxCmd)
      /\ heard \in Nat /\ heard <= Len(wire) /\ answers \in Seq(Answer)
  BY DEF Orders, Rising, Books
<1>1. CASE LoadLocation
  <2>1. CASE unsent'
    BY <2>1 DEF LockHasKey
  <2>2. CASE socket # "open"
    <3>1. socket' = socket
      BY <1>1 DEF LoadLocation, Send, vars
    <3> QED BY <2>2, <3>1 DEF LockHasKey
  <2>3. CASE ~unsent' /\ socket = "open"
    <3>1. Send /\ loads' = loads \cup {sent + 1} /\ heard' = heard
      BY <1>1, <2>3 DEF LoadLocation, server
    <3>2. wire' = Append(wire, sent + 1)
      BY <2>3, <3>1 DEF Send
    <3>3. /\ Len(wire) + 1 \in heard' + 1 .. Len(wire')
          /\ wire'[Len(wire) + 1] = sent + 1
      BY <1>0, <3>1, <3>2
    <3> QED BY <3>1, <3>3 DEF LockHasKey
  <2> QED BY <2>1, <2>2, <2>3
<1>2. CASE SendOther
  <2>1. UNCHANGED <<page, server, loads, socket>>
    BY <1>2 DEF SendOther, Send
  <2>2. Unread => Unread'
    <3>1. Len(wire) <= Len(wire') /\ \A i \in 1 .. Len(wire) : wire'[i] = wire[i]
      BY <1>0, <1>2 DEF SendOther, Send
    <3> QED BY <1>0, <2>1, <3>1 DEF Unread, server
  <2> QED BY <2>1, <2>2 DEF LockHasKey, Unread, page, server
<1>3. CASE Deliver
  <2>1. answers # <<>> /\ answers' = Tail(answers)
    BY <1>3 DEF Deliver
  <2>2. UNCHANGED <<wire, loads, heard, builds, swapped, failed, admitted>>
    BY <1>3 DEF Deliver, FirstMessage, vars
  <2>3. CASE socket' # "open"
    BY <2>3 DEF LockHasKey
  <2>4. CASE socket' = "open" /\ Head(answers) \in Unlocking
    <3>1. ~pending'
      BY <1>3, <2>4 DEF Deliver, Applied
    <3> QED BY <3>1 DEF LockHasKey
  <2>5. CASE socket' = "open" /\ Head(answers) \notin Unlocking
    <3>1. UNCHANGED page /\ socket = "open"
      BY <1>3, <2>5 DEF Deliver, Applied
    <3>2. answers[1] = "accepted"
      BY <1>0, <2>1, <2>5 DEF Answer, Unlocking
    <3>3. ASSUME NEW i \in DOMAIN answers, answers[i] # "accepted"
          PROVE  \E j \in DOMAIN answers' : answers'[j] # "accepted"
      <4>1. i \in 2 .. Len(answers)
        BY <1>0, <3>2, <3>3
      <4>2. i - 1 \in DOMAIN answers' /\ answers'[i - 1] = answers[i]
        BY <1>0, <2>1, <4>1
      <4> QED BY <3>3, <4>2
    <3> QED BY <2>2, <2>5, <3>1, <3>3 DEF LockHasKey, page
  <2> QED BY <2>3, <2>4, <2>5
<1>4. CASE Reopen
  <2>1. socket \in {"none", "connecting"}
    BY <1>4 DEF Reopen, Connect, TimerFires, Retry, Opened, Inv, Pending, Control
  <2>2. ~admitted'
    BY <1>4, <2>1 DEF Reopen, Books, server
  <2> QED BY <2>2 DEF LockHasKey
<1>5. CASE Drop \/ Detach
  BY <1>5 DEF Drop, Detach, Severed, LockHasKey
<1> QED BY <1>1, <1>2, <1>3, <1>4, <1>5

\* The server's steps hand it on: a request becomes a build or an answer, a
\* build an event or a world, and these an answer.
LEMMA KeyServer ==
  ASSUME LockHasKey, Books, Orders, SearchFlags,
         Ignore \/ Admit \/ Receive \/ EndBuild \/ Stream \/ UNCHANGED allVars
  PROVE  LockHasKey'
<1>0. wire \in Seq(1 .. MaxCmd) /\ answers \in Seq(Answer) /\ builds \in Nat /\ heard \in Nat
  BY DEF Orders, Rising, Books
<1>a. ASSUME NEW m \in Answer, answers' = Append(answers, m)
      PROVE  /\ \A i \in DOMAIN answers : i \in DOMAIN answers' /\ answers'[i] = answers[i]
             /\ Len(answers) + 1 \in DOMAIN answers' /\ answers'[Len(answers) + 1] = m
  BY <1>0, <1>a
<1>1. CASE Admit
  <2>1. answers' = Append(answers, "scene")
    BY <1>1 DEF Admit
  <2> QED BY <1>a, <2>1 DEF LockHasKey, Answer
<1>2. CASE Receive
  <2>0. UNCHANGED <<vars, page, loads, admitted, swapped, failed>> /\ heard' = heard + 1
    BY <1>2 DEF Receive
  <2>1. CASE wire[heard + 1] \notin loads
    <3>1. UNCHANGED <<builds, answers>>
      BY <1>2, <2>1 DEF Receive
    <3>2. Unread => Unread'
      BY <1>0, <2>0, <2>1 DEF Unread, vars
    <3> QED BY <2>0, <3>1, <3>2 DEF LockHasKey, Unread, vars, page
  <2>2. CASE wire[heard + 1] \in loads /\ builds' = builds + 1
    BY <1>0, <2>2 DEF LockHasKey
  <2>3. CASE wire[heard + 1] \in loads /\ answers' = Append(answers, "refused")
    BY <1>a, <2>3 DEF LockHasKey, Answer
  <2> QED BY <1>2, <2>1, <2>2, <2>3 DEF Receive
<1>3. CASE EndBuild
  <2>1. CASE ~admitted'
    BY <2>1 DEF LockHasKey
  <2>2. CASE admitted'
    BY <1>3, <2>2 DEF EndBuild, LockHasKey
  <2> QED BY <2>1, <2>2
<1>4. CASE Stream
  <2>1. PICK m \in {"scene", "failed"} : answers' = Append(answers, m)
    BY <1>4 DEF Stream
  <2> QED BY <1>a, <2>1 DEF LockHasKey, Answer
<1>5. CASE UNCHANGED allVars
  BY <1>5 DEF allVars, vars, page, server, LockHasKey
<1>6. CASE Ignore
  BY <1>6 DEF Ignore, LockHasKey
<1> QED BY <1>1, <1>2, <1>3, <1>4, <1>5, <1>6

\* All of it together is inductive.
LEMMA SearchInvariant ==
  SearchSpec => [](Books /\ SearchFlags /\ LockHasKey)
<1> DEFINE All == Books /\ SearchFlags /\ LockHasKey
<1>1. SearchInit => All
  <2>1. SearchInit => Books
    BY DEF SearchInit, Init, Books
  <2>2. SearchInit => SearchFlags /\ LockHasKey
    BY DEF SearchInit, SearchFlags, LockHasKey
  <2> QED BY <2>1, <2>2
<1>2. All /\ Inv /\ Orders /\ Orders' /\ [SearchNext]_allVars => All'
  <2> SUFFICES ASSUME All, Inv, Orders, Orders', [SearchNext]_allVars PROVE All'
    OBVIOUS
  <2>1. SearchFlags'
    BY FlagsStep
  <2>2. Books'
    BY BooksPage, BooksServer DEF SearchNext
  <2>3. LockHasKey'
    BY <2>1, KeyPage, KeyServer DEF SearchNext
  <2> QED BY <2>1, <2>2, <2>3
<1> QED BY <1>1, <1>2, SearchRunsClient, Invariant, OrdersAlways, PTL DEF SearchSpec

\* The variables of LocationSearch keep their types.
THEOREM SearchTypeCorrect == SearchSpec => []SearchTypeOK
<1>1. TypeOK /\ Books /\ SearchFlags => SearchTypeOK
  BY DEF SearchTypeOK, TypeOK, Books, SearchFlags
<1> QED BY <1>1, SearchRunsClient, TypeCorrect, SearchInvariant, PTL

\* A locked sidebar always has something on its way to unlock it, unless the
\* request never left the page.
THEOREM SidebarNeverStuck == SearchSpec => []LockHasKey
  BY SearchInvariant, PTL
=============================================================================
