------------------------------ MODULE SlotPool ------------------------------
(***************************************************************************)
(* What the hosted server promises its visitors: at most Limit of them     *)
(* hold a session, everybody else stands in one first-come-first-served    *)
(* line of at most QueueMax places, a freed slot goes straight to the head *)
(* of the line, and nobody in the line waits for ever.  Sessions           *)
(* implements this with sockets, asyncio events and a counter.             *)
(***************************************************************************)
EXTENDS Naturals, SequencesExt

CONSTANTS
  Conn,      \* the visitors' connections
  Limit,     \* sessions that may live at once
  QueueMax   \* places in the line

VARIABLES
  line,      \* who waits, in order of arrival
  holders    \* who holds a slot

poolVars == <<line, holders>>

PoolInit ==
  /\ line = <<>>
  /\ holders = {}

\* A newcomer finds a free slot and nobody ahead of it.
Enter(c) ==
  /\ c \notin holders \cup ToSet(line)
  /\ line = <<>>
  /\ Cardinality(holders) < Limit
  /\ holders' = holders \cup {c}
  /\ UNCHANGED line

\* A newcomer takes the last place of the line; every slot is in use then.
Join(c) ==
  /\ c \notin holders \cup ToSet(line)
  /\ Cardinality(holders) = Limit
  /\ Len(line) < QueueMax
  /\ line' = Append(line, c)
  /\ UNCHANGED holders

\* Somebody gives up waiting; those behind move up, in the same order.
Quit(c) ==
  /\ \E i \in DOMAIN line : line[i] = c /\ line' = RemoveAt(line, i)
  /\ UNCHANGED holders

\* A slot is given back: to the head of the line, in the same step.
Vacate(c) ==
  /\ c \in holders
  /\ IF line = <<>>
     THEN holders' = holders \ {c} /\ UNCHANGED line
     ELSE /\ holders' = (holders \ {c}) \cup {Head(line)}
          /\ line' = Tail(line)

PoolNext ==
  \E c \in Conn : Enter(c) \/ Join(c) \/ Quit(c) \/ Vacate(c)

\* While somebody waits, no holder keeps its slot for ever.
PoolFairness ==
  \A c \in Conn : WF_poolVars(line # <<>> /\ Vacate(c))

PoolSpec == PoolInit /\ [][PoolNext]_poolVars /\ PoolFairness
=============================================================================
