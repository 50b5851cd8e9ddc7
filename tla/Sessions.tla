------------------------------ MODULE Sessions ------------------------------
(***************************************************************************)
(* server/ws_server.py: the hosted mode's session slots and waiting line   *)
(* (class _Sessions), and the handler of one socket that goes through them *)
(* (_serve, _wait_in_line, _run_connection).                               *)
(*                                                                         *)
(* All of it runs on one asyncio event loop: an action is the code between *)
(* two awaits.  pc says at which await a handler stands:                   *)
(*   out       no socket                                                   *)
(*   sending   in line, await ws.send_text(queue_status)                   *)
(*   parked    in line, await asyncio.wait({recv, changed})                *)
(*   building  slot held, await to_thread(sessions.factory)                *)
(*   running   slot held, await in _run_connection                         *)
(*   stopping  slot held, await to_thread(loop.stop)                       *)
(***************************************************************************)
EXTENDS Naturals, SequencesExt

CONSTANTS
  Conn,      \* connections; one that ended may come back as a new socket
  Limit,     \* max_sessions
  QueueMax   \* queue_max

ASSUME SessionsAssumption ==
  /\ IsFiniteSet(Conn)
  /\ Limit \in Nat \ {0}
  /\ QueueMax \in Nat

VARIABLES
  reserved,  \* _Sessions.reserved
  waiters,   \* _Sessions.waiters, by connection
  admitted,  \* connections whose _Waiter.admitted is set, still in line code
  changed,   \* _Waiter.changed, the asyncio.Event
  told,      \* position in the last queue_status built for the connection
  inbox,     \* what the socket has delivered and nobody has read
  active,    \* _Sessions.active, by connection
  clients,   \* clients["count"]
  pc

vars == <<reserved, waiters, admitted, changed, told, inbox, active, clients, pc>>

InLine  == {"sending", "parked"}
Holding == {"building", "running", "stopping"}

TypeOK ==
  /\ reserved \in Nat
  /\ waiters \in Seq(Conn)
  /\ admitted \in SUBSET Conn
  /\ changed \in [Conn -> BOOLEAN]
  /\ told \in [Conn -> Nat]
  /\ inbox \in [Conn -> SUBSET {"message", "disconnect"}]
  /\ active \in SUBSET Conn
  /\ clients \in Int
  /\ pc \in [Conn -> {"out"} \cup InLine \cup Holding]

Init ==
  /\ reserved = 0
  /\ waiters = <<>>
  /\ admitted = {}
  /\ changed = [c \in Conn |-> FALSE]
  /\ told = [c \in Conn |-> 0]
  /\ inbox = [c \in Conn |-> {}]
  /\ active = {}
  /\ clients = 0
  /\ pc = [c \in Conn |-> "out"]

-----------------------------------------------------------------------------
(* _Sessions: helpers that run without an await. *)

\* Who owns a slot: a handler past the line, or a waiter handed one.
Holders == {c \in Conn : pc[c] \in Holding} \cup admitted

\* try_admit's condition.
MayAdmit == reserved < Limit /\ waiters = <<>>

\* _notify over the line w: their positions may have moved.
Notified(w) == [c \in Conn |-> changed[c] \/ c \in ToSet(w)]

\* Bug: the handed-over slot is also counted as returned.
Release_AlsoCounted(c) ==
  IF waiters # <<>>
  THEN /\ waiters' = Tail(waiters)
       /\ admitted' = (admitted \ {c}) \cup {Head(waiters)}
       /\ changed' = Notified(waiters)
       /\ reserved' = reserved - 1
  ELSE /\ reserved' = reserved - 1
       /\ admitted' = admitted \ {c}
       /\ UNCHANGED <<waiters, changed>>

\* Bug: the slot is returned and the line merely told, to race newcomers for it.
Release_ToPool(c) ==
  /\ reserved' = reserved - 1
  /\ admitted' = admitted \ {c}
  /\ changed' = Notified(waiters)
  /\ UNCHANGED waiters

\* Bug: the head is popped before the line is notified, and not told itself.
Release_Unheard(c) ==
  IF waiters # <<>>
  THEN /\ waiters' = Tail(waiters)
       /\ admitted' = (admitted \ {c}) \cup {Head(waiters)}
       /\ changed' = Notified(Tail(waiters))
       /\ UNCHANGED reserved
  ELSE /\ reserved' = reserved - 1
       /\ admitted' = admitted \ {c}
       /\ UNCHANGED <<waiters, changed>>

\* Bug: the line is served from its back (pop() for pop(0)).
Release_Last(c) ==
  IF waiters # <<>>
  THEN /\ waiters' = Front(waiters)
       /\ admitted' = (admitted \ {c}) \cup {Last(waiters)}
       /\ changed' = Notified(waiters)
       /\ UNCHANGED reserved
  ELSE /\ reserved' = reserved - 1
       /\ admitted' = admitted \ {c}
       /\ UNCHANGED <<waiters, changed>>

\* release: the slot of c goes to the head of the line, else it is returned.
\* The head's own event is set too: it is popped before the others are notified.
Release(c) ==
  IF waiters # <<>>
  THEN /\ waiters' = Tail(waiters)
       /\ admitted' = (admitted \ {c}) \cup {Head(waiters)}
       /\ changed' = Notified(waiters)
       /\ UNCHANGED reserved
  ELSE /\ reserved' = reserved - 1
       /\ admitted' = admitted \ {c}
       /\ UNCHANGED <<waiters, changed>>

\* Bug: a tab closed mid-line keeps its place.
Leave_Stays(c) ==
  IF c \in admitted
  THEN Release(c)
  ELSE UNCHANGED <<reserved, waiters, admitted, changed>>

\* leave: pass on a slot it was handed, else give up the place.
Leave(c) ==
  IF c \in admitted
  THEN Release(c)
  ELSE /\ \E i \in DOMAIN waiters :
            /\ waiters[i] = c
            /\ waiters' = RemoveAt(waiters, i)
            /\ changed' = Notified(RemoveAt(waiters, i))
       /\ UNCHANGED <<reserved, admitted>>

\* status: where c stands, counted when the message is built.
Position(c) == CHOOSE i \in DOMAIN waiters : waiters[i] = c

-----------------------------------------------------------------------------
(* The client's side of the socket. *)

\* Anything typed in line (heartbeats) is received and ignored.
ClientSpeaks(c) ==
  /\ pc[c] \in InLine
  /\ inbox[c] = {}
  /\ inbox' = [inbox EXCEPT ![c] = {"message"}]
  /\ UNCHANGED <<reserved, waiters, admitted, changed, told, active, clients, pc>>

ClientGone(c) ==
  /\ pc[c] \notin {"out", "stopping"}
  /\ "disconnect" \notin inbox[c]
  /\ inbox' = [inbox EXCEPT ![c] = @ \cup {"disconnect"}]
  /\ UNCHANGED <<reserved, waiters, admitted, changed, told, active, clients, pc>>

-----------------------------------------------------------------------------
(* _serve up to its first await after accept(). *)

\* A slot is free and nobody waits: reserve it, then build.
ConnectAdmitted(c) ==
  /\ pc[c] = "out"
  /\ MayAdmit
  /\ reserved' = reserved + 1
  /\ clients' = clients + 1
  /\ pc' = [pc EXCEPT ![c] = "building"]
  /\ UNCHANGED <<waiters, admitted, changed, told, inbox, active>>

\* No slot but a place: into the line, first queue_status on its way.
\* (With the line full the socket is closed with 4429: nothing changes.)
ConnectQueued(c) ==
  /\ pc[c] = "out"
  /\ ~MayAdmit
  /\ Len(waiters) < QueueMax
  /\ waiters' = Append(waiters, c)
  /\ changed' = [changed EXCEPT ![c] = FALSE]
  /\ told' = [told EXCEPT ![c] = Len(waiters) + 1]
  /\ pc' = [pc EXCEPT ![c] = "sending"]
  /\ UNCHANGED <<reserved, admitted, inbox, active, clients>>

-----------------------------------------------------------------------------
(* _wait_in_line. *)

StatusSent(c) ==
  /\ pc[c] = "sending"
  /\ pc' = [pc EXCEPT ![c] = "parked"]
  /\ UNCHANGED <<reserved, waiters, admitted, changed, told, inbox, active, clients>>

\* The handler of c ends without having owned a slot it used.
HandlerReturns(c) ==
  /\ pc' = [pc EXCEPT ![c] = "out"]
  /\ inbox' = [inbox EXCEPT ![c] = {}]
  /\ told' = [told EXCEPT ![c] = 0]

\* The send raises: the socket is dead.
StatusFailed(c) ==
  /\ pc[c] = "sending"
  /\ "disconnect" \in inbox[c]
  /\ Leave(c)
  /\ HandlerReturns(c)
  /\ UNCHANGED <<active, clients>>

\* recv finished with a disconnect: looked at before `admitted` is.
WokenByDisconnect(c) ==
  /\ pc[c] = "parked"
  /\ inbox[c] = {"disconnect"}
  /\ Leave(c)
  /\ HandlerReturns(c)
  /\ UNCHANGED <<active, clients>>

\* asyncio.wait returned and the socket lives.
Woken(c) ==
  /\ pc[c] = "parked"
  /\ inbox[c] # {"disconnect"}
  /\ changed[c] \/ inbox[c] # {}
  /\ inbox' = [inbox EXCEPT ![c] = @ \ {"message"}]

\* The slot is this connection's: return True, on to the build.
WokenAdmitted(c) ==
  /\ Woken(c)
  /\ c \in admitted
  /\ admitted' = admitted \ {c}
  /\ changed' = [changed EXCEPT ![c] = FALSE]
  /\ told' = [told EXCEPT ![c] = 0]
  /\ clients' = clients + 1
  /\ pc' = [pc EXCEPT ![c] = "building"]
  /\ UNCHANGED <<reserved, waiters, active>>

\* Still in line: clear the event, then say where it stands.
WokenWaiting(c) ==
  /\ Woken(c)
  /\ c \notin admitted
  /\ changed' = [changed EXCEPT ![c] = FALSE]
  /\ told' = [told EXCEPT ![c] = Position(c)]
  /\ pc' = [pc EXCEPT ![c] = "sending"]
  /\ UNCHANGED <<reserved, waiters, admitted, active, clients>>

-----------------------------------------------------------------------------
(* _serve with the slot owned. *)

BuildDone(c) ==
  /\ pc[c] = "building"
  /\ pc' = [pc EXCEPT ![c] = "running"]
  /\ active' = active \cup {c}
  /\ UNCHANGED <<reserved, waiters, admitted, changed, told, inbox, clients>>

\* The factory raises: close 1011, and the outer finally frees the slot.
BuildFailed(c) ==
  /\ pc[c] = "building"
  /\ clients' = clients - 1
  /\ Release(c)
  /\ HandlerReturns(c)
  /\ UNCHANGED active

\* _run_connection returns; the inner finally starts to stop the loop.
EndSession(c) ==
  /\ pc[c] = "running"
  /\ active' = active \ {c}
  /\ pc' = [pc EXCEPT ![c] = "stopping"]
  /\ UNCHANGED <<reserved, waiters, admitted, changed, told, inbox, clients>>

\* The session cap only bites while somebody waits.
TimeUpDue == waiters # <<>>

\* Bug: nobody reads the socket; only the cap ends a dead session.
Disconnected_Unread(c) == TimeUpDue /\ "disconnect" \in inbox[c] /\ EndSession(c)

Disconnected(c) == "disconnect" \in inbox[c] /\ EndSession(c)

\* watchdog: no input for idle_s, whoever waits.
IdleOut(c) == EndSession(c)

\* watchdog: past the cap, and somebody waits.
TimeUp(c) == TimeUpDue /\ EndSession(c)

\* loop.stop returned: only now is the slot free.
StopDone(c) ==
  /\ pc[c] = "stopping"
  /\ clients' = clients - 1
  /\ Release(c)
  /\ HandlerReturns(c)
  /\ UNCHANGED active

-----------------------------------------------------------------------------
Next ==
  \E c \in Conn :
    \/ ClientSpeaks(c) \/ ClientGone(c)
    \/ ConnectAdmitted(c) \/ ConnectQueued(c)
    \/ StatusSent(c) \/ StatusFailed(c)
    \/ WokenByDisconnect(c) \/ WokenAdmitted(c) \/ WokenWaiting(c)
    \/ BuildDone(c) \/ BuildFailed(c)
    \/ Disconnected(c) \/ IdleOut(c) \/ TimeUp(c)
    \/ StopDone(c)

\* The event loop resumes every handler whose await has finished; sends,
\* builds and stops finish or fail; a dead socket is noticed; the cap falls
\* on a session for as long as somebody waits.  Nobody has to speak, to leave
\* or to go idle.
Fairness ==
  \A c \in Conn :
    /\ WF_vars(StatusSent(c) \/ StatusFailed(c))
    /\ WF_vars(WokenByDisconnect(c) \/ WokenAdmitted(c) \/ WokenWaiting(c))
    /\ WF_vars(BuildDone(c) \/ BuildFailed(c))
    /\ WF_vars(Disconnected(c) \/ TimeUp(c))
    /\ WF_vars(StopDone(c))

Spec == Init /\ [][Next]_vars
FairSpec == Spec /\ Fairness
-----------------------------------------------------------------------------
(* Properties. *)

\* The counter that admits newcomers counts exactly those who own a slot, and
\* never passes the cap: a slot is neither leaked nor given twice, whichever
\* way a handler leaves (release, leave, _serve's two finally blocks).
SlotsConserved ==
  /\ reserved = Cardinality(Holders)
  /\ reserved <= Limit

\* Nobody waits while a slot is free: `reserved` never dips when a slot is
\* handed over, so a newcomer cannot jump the line (docstring of _Sessions).
NoIdleSlot == waiters # <<>> => reserved = Limit

\* Everybody held in line code stands in the line exactly once, or has been
\* handed a slot and popped from it, never both; the line respects queue_max.
LineSound ==
  /\ IsInjective(waiters)
  /\ Len(waiters) <= QueueMax
  /\ ToSet(waiters) \cap admitted = {}
  /\ \A c \in Conn : pc[c] \in InLine <=> c \in ToSet(waiters) \cup admitted

\* No wake-up is lost: a handler asleep in line either has its event set or
\* was last told the place it still has.  The status is built after the event
\* is cleared, so a move during the send is never missed.
NoLostWakeup ==
  \A c \in Conn :
    pc[c] = "parked" /\ ~changed[c] =>
      c \notin admitted /\ told[c] = Position(c)

\* What /health reports is never above the cap and never misses a running
\* world: `sessions` counts the worlds served, `clients` the slots in use.
HealthHonest ==
  /\ active = {c \in Conn : pc[c] = "running"}
  /\ clients = Cardinality({c \in Conn : pc[c] \in Holding})
  /\ clients <= reserved

\* Everybody in line gets a session or leaves.
WaiterServed ==
  \A c \in Conn : pc[c] \in InLine ~> pc[c] \notin InLine

\* A visitor who is gone gives its slot or its place back.
GoneIsReleased ==
  \A c \in Conn : "disconnect" \in inbox[c] ~> pc[c] = "out"

\* The sockets, events and counter implement the slot pool.
Pool == INSTANCE SlotPool WITH line <- waiters, holders <- Holders
ImplementsPool == Pool!PoolSpec
=============================================================================
