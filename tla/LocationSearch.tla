--------------------------- MODULE LocationSearch ---------------------------
(***************************************************************************)
(* The location search of the sidebar, end to end: store/simStore.ts over  *)
(* the transport of WsClient, and a server as SimLoop and Sessions show it *)
(* to one user.                                                            *)
(*                                                                         *)
(* From loadLocation on the sidebar (address fields, presets, scenarios)   *)
(* is disabled until locationPending is cleared.  The request has no id on *)
(* the wire, and it can be refused, fail, be lost with its connection, be  *)
(* pushed out of the queue, be ignored in the line for a session, or die   *)
(* with a server that restarts.                                            *)
(***************************************************************************)
EXTENDS WsClient

VARIABLES
  pending,   \* locationPending is not null
  unsent,    \* history: send refused the request that is pending
  loads,     \* the commands that are load_location
  admitted,  \* the server streams to the socket
  heard,     \* how much of `wire` the server received, or was lost
  builds,    \* builds asked for that have not ended
  swapped,   \* a world the connection was not told of yet
  failed,    \* a location_failed past the connection's event cursor
  answers    \* on their way to the page, in order

page   == <<pending, unsent>>
server == <<admitted, heard, builds, swapped, failed, answers>>

allVars == <<vars, page, loads, server>>

Answer == {"scene", "failed", "refused", "accepted"}

SearchTypeOK ==
  /\ TypeOK
  /\ pending \in BOOLEAN /\ unsent \in BOOLEAN
  /\ loads \subseteq 1 .. sent
  /\ admitted \in BOOLEAN
  /\ heard \in 0 .. Len(wire)
  /\ builds \in Nat
  /\ swapped \in BOOLEAN /\ failed \in BOOLEAN
  /\ answers \in Seq(Answer)

SearchInit ==
  /\ Init
  /\ pending = FALSE /\ unsent = FALSE /\ loads = {}
  /\ admitted = FALSE /\ heard = 0 /\ builds = 0
  /\ swapped = FALSE /\ failed = FALSE /\ answers = <<>>

-----------------------------------------------------------------------------
(* The page. *)

\* loadLocation, from a form that is disabled while one is pending: the
\* command goes out or is queued, unless the transport's parseCommand refuses
\* it (an address of more than 200 characters).
LoadLocation ==
  /\ ~pending /\ life = "on"
  /\ pending' = TRUE
  /\ \/ /\ Send
        /\ socket # "open" => queue' = Queued(sent + 1)
        /\ loads' = loads \cup {sent + 1}
        /\ unsent' = FALSE
     \/ /\ unsent' = TRUE
        /\ UNCHANGED <<vars, loads>>
  /\ UNCHANGED server

\* Any other command.
SendOther == Send /\ UNCHANGED <<page, loads, server>>

\* Bug: a refusal is an ack like any other.
Unlocking_NoRefusal == {"scene", "failed"}

\* The messages on which applyServerMessage clears locationPending.
Unlocking == {"scene", "failed", "refused"}

\* applyServerMessage.
Applied(m) ==
  IF m \in Unlocking
  THEN pending' = FALSE /\ unsent' = FALSE
  ELSE UNCHANGED page

\* onmessage; the first of a connection goes through the protocol check.
Deliver ==
  /\ socket = "open" /\ answers # <<>>
  /\ answers' = Tail(answers)
  /\ \/ checked /\ UNCHANGED vars /\ Applied(Head(answers))
     \/ FirstMessage /\ socket' = "open" /\ Applied(Head(answers))
     \/ FirstMessage /\ socket' # "open" /\ UNCHANGED page
  /\ UNCHANGED <<loads, admitted, heard, builds, swapped, failed>>

\* What opens a socket leaves page and server as they are.
Reopen == (Connect \/ TimerFires \/ Retry \/ Opened) /\ UNCHANGED <<page, loads, server>>

\* The connection ends: what was on its way is lost, in both directions, and
\* the builds too if the session or the server ends with it.
Severed ==
  /\ admitted' = FALSE /\ heard' = Len(wire)
  /\ swapped' = FALSE /\ failed' = FALSE /\ answers' = <<>>
  /\ builds' \in {builds, 0}

\* onclose: "reconnecting" leaves a pending request alone.
Drop ==
  /\ \E code \in ServerSays \cup {"other"} : Closed(code)
  /\ Severed
  /\ UNCHANGED <<page, loads>>

\* close: "closed" clears it.
Detach ==
  /\ Close
  /\ Severed
  /\ pending' = FALSE /\ unsent' = FALSE
  /\ UNCHANGED loads

-----------------------------------------------------------------------------
(* The server. *)

\* Bug: the scene is sent when the world changes only.
Admit_Silent ==
  /\ socket = "open" /\ ~admitted
  /\ admitted' = TRUE
  /\ UNCHANGED <<vars, page, loads, heard, builds, swapped, failed, answers>>

\* _run_connection sends the scene there is, then starts receive and stream.
Admit ==
  /\ socket = "open" /\ ~admitted
  /\ admitted' = TRUE
  /\ answers' = Append(answers, "scene")
  /\ UNCHANGED <<vars, page, loads, heard, builds, swapped, failed>>

\* _wait_in_line reads what a visitor sends from the line, and ignores it.
Ignore ==
  /\ socket = "open" /\ ~admitted
  /\ heard < Len(wire)
  /\ heard' = heard + 1
  /\ UNCHANGED <<vars, page, loads, admitted, builds, swapped, failed, answers>>

\* receive, up to the ack: a location is built, refused, or ("simulation
\* busy") called refused and built all the same.
Receive ==
  /\ admitted /\ heard < Len(wire)
  /\ heard' = heard + 1
  /\ IF wire[heard + 1] \notin loads THEN UNCHANGED <<builds, answers>>
     ELSE \/ builds' = builds + 1 /\ answers' = Append(answers, "accepted")
          \/ builds' \in {builds, builds + 1} /\ answers' = Append(answers, "refused")
  /\ UNCHANGED <<vars, page, loads, admitted, swapped, failed>>

\* A build ends in a world or in an event; a connection that comes later is
\* told of the world by its first scene and of the event not at all.
EndBuild ==
  /\ builds > 0
  /\ builds' = builds - 1
  /\ \/ swapped' = admitted /\ UNCHANGED failed
     \/ failed' = admitted /\ UNCHANGED swapped
  /\ UNCHANGED <<vars, page, loads, admitted, heard, answers>>

\* stream: a new scene, and the events past the cursor.
Stream ==
  /\ \/ /\ swapped /\ swapped' = FALSE /\ UNCHANGED failed
        /\ answers' = Append(answers, "scene")
     \/ /\ failed /\ failed' = FALSE /\ UNCHANGED swapped
        /\ answers' = Append(answers, "failed")
  /\ UNCHANGED <<vars, page, loads, admitted, heard, builds>>

-----------------------------------------------------------------------------
SearchNext ==
  \/ LoadLocation \/ SendOther \/ Deliver \/ Reopen \/ Drop \/ Detach
  \/ Ignore \/ Admit \/ Receive \/ EndBuild \/ Stream

\* As in WsClient; the server goes on, every build ends (its requests have
\* timeouts), and a connection that comes back again and again is once
\* admitted (WaiterServed of Sessions) and lasts until its scene is read.
SearchFairness ==
  /\ SF_allVars(Reopen /\ TimerFires /\ socket' = "connecting")
  /\ SF_allVars(Reopen /\ Opened)
  /\ SF_allVars(Admit) /\ SF_allVars(Deliver)
  /\ WF_allVars(Receive) /\ WF_allVars(EndBuild) /\ WF_allVars(Stream)

SearchSpec == SearchInit /\ [][SearchNext]_allVars
FairSearchSpec == SearchSpec /\ SearchFairness
-----------------------------------------------------------------------------
(* Properties. *)

\* A sidebar that is locked has something on its way to unlock it, whatever
\* was refused, failed, dropped, lost or restarted: the request itself, its
\* build, an answer, or the scene every connection starts with.  The one
\* exception is a request that never left the page.
LockHasKey ==
  pending =>
    \/ socket # "open" \/ ~admitted
    \/ \E i \in heard + 1 .. Len(wire) : wire[i] \in loads
    \/ builds > 0 \/ swapped \/ failed
    \/ \E i \in DOMAIN answers : answers[i] # "accepted"
    \/ unsent

\* A location search ends: the sidebar is unlocked by a world, a failure or a
\* refusal, through any number of lost connections, unless a verdict has
\* halted the transport.
SidebarUnlocks ==
  pending /\ ~unsent ~> ~pending \/ halted \/ life = "off"
=============================================================================
