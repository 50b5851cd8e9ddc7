------------------------------- MODULE SimLoop -------------------------------
(***************************************************************************)
(* sim/loop.py, class SimLoop, and what server/ws_server.py reads from it: *)
(* one simulation thread, one build worker, and the connections that share *)
(* the world.                                                              *)
(*                                                                         *)
(* Three kinds of process interleave.  The thread runs _run's iteration,   *)
(* cut where another process could tell the difference (a queue, a lock, a *)
(* read of sim.scene).  The worker runs one scene build at a time.  Each   *)
(* connection runs __init__, stream and receive on the event loop; it      *)
(* reads the shared fields while the thread goes on.                       *)
(*                                                                         *)
(* A world is named by the command that asked for it; the first is 0.      *)
(***************************************************************************)
EXTENDS Integers, SequencesExt

CONSTANTS
  Conn,      \* connections of one shared world
  Kinds,     \* the commands the clients send
  Notes,     \* whether a build that succeeds may have build_notes
  MaxCmd,    \* bound: commands sent altogether
  LogMax     \* maxlen of _event_log

ASSUME SimLoopAssumption ==
  /\ IsFiniteSet(Conn)
  /\ Kinds \subseteq {"load_location", "load_scenario", "unknown_scenario"}
  /\ Notes \in BOOLEAN
  /\ MaxCmd \in Nat
  /\ LogMax \in Nat \ {0}

Cmd   == 1 .. MaxCmd
World == 0 .. MaxCmd
None  == -1

VARIABLES
  sent,      \* the kinds of the commands sent so far, in order
  commands,  \* _commands, the queue of commands
  future,    \* the Future of each command
  builds,    \* the executor's queue
  worker,    \* the build under way
  evq,       \* _events, raised off the thread
  pending,   \* _pending_scene, or None
  at,        \* where the thread is in its iteration
  scene,     \* sim.scene
  raised,    \* sim.world.events
  frame,     \* the world of the frame about to be published
  epoch,     \* _scene_epoch
  latest,    \* _latest: the world the newest frame shows, or None
  conn,      \* the connections
  \* History, for the properties:
  worlds,    \* the worlds adopted, in order
  recorded   \* every event recorded; _event_log is the last LogMax of them

vars == <<sent, commands, future, builds, worker, evq, pending, at,
          scene, raised, frame, epoch, latest, conn, worlds, recorded>>

Event == [code : {"requested", "loaded", "note", "failed"}, of : Cmd]

Connection ==
  [at        : {"off", "cursor", "scene", "live"},
   stream    : {"poll", "push", "frame"},
   sentEpoch : Nat,           \* _sent_epoch
   cursor    : Nat,           \* _event_cursor
   snapEpoch : Nat,           \* what snapshot() returned to stream
   snapFrame : World \cup {None},
   awaits    : Cmd \cup {None},    \* the command _apply waits for
   told      : World \cup {None},  \* history: the last scene_description sent
   shown     : World \cup {None},  \* history: the last frame sent
   joined    : Nat,           \* history: where its cursor started
   heard     : Seq(Nat)]      \* history: the events sent, by number

Gone ==
  [at |-> "off", stream |-> "poll", sentEpoch |-> 0, cursor |-> 0,
   snapEpoch |-> 0, snapFrame |-> None, awaits |-> None,
   told |-> None, shown |-> None, joined |-> 0, heard |-> <<>>]

Idle == [build |-> None, done |-> FALSE]

TypeOK ==
  /\ sent \in Seq(Kinds) /\ Len(sent) <= MaxCmd
  /\ commands \in Seq(Cmd)
  /\ future \in [Cmd -> {"waiting", "cancelled", "done"}]
  /\ builds \in Seq(Cmd)
  /\ worker \in [build : Cmd \cup {None}, done : BOOLEAN]
  /\ evq \in Seq(Event)
  /\ pending \in Cmd \cup {None}
  /\ at \in {"commands", "events", "swap", "bump", "step", "publish"}
  /\ scene \in World
  /\ raised \in Seq(Event)
  /\ frame \in World
  /\ epoch \in Nat
  /\ latest \in World \cup {None}
  /\ conn \in [Conn -> Connection]
  /\ worlds \in Seq(World)
  /\ recorded \in Seq(Event)

Init ==
  /\ sent = <<>> /\ commands = <<>> /\ future = [k \in Cmd |-> "waiting"]
  /\ builds = <<>> /\ worker = Idle /\ evq = <<>> /\ pending = None
  /\ at = "commands" /\ scene = 0 /\ raised = <<>> /\ frame = 0
  /\ epoch = 0 /\ latest = None
  /\ conn = [c \in Conn |-> Gone]
  /\ worlds = <<0>> /\ recorded = <<>>

Ev(code, k) == [code |-> code, of |-> k]

-----------------------------------------------------------------------------
(* The simulation thread: _run. *)

\* load_scenario adopts the preset's scene on the spot; an unknown name is
\* refused and changes nothing.
LoadScenario(k) ==
  \/ /\ sent[k] = "load_scenario"
     /\ scene' = k
     /\ worlds' = Append(worlds, k)
     /\ raised' = Append(raised, Ev("loaded", k))
     /\ UNCHANGED builds
  \/ /\ sent[k] = "unknown_scenario"
     /\ UNCHANGED <<builds, raised, scene, worlds>>

\* load_location only asks the worker for a build.
LoadLocation(k) ==
  /\ sent[k] = "load_location"
  /\ builds' = Append(builds, k)
  /\ raised' = Append(raised, Ev("requested", k))
  /\ UNCHANGED <<scene, worlds>>

\* What a command does to the simulation, on the thread.
Apply(k) == LoadScenario(k) \/ LoadLocation(k)

\* What becomes of its future: the caller may have given up on it meanwhile.
Delivered(k) == [future EXCEPT ![k] = IF @ = "waiting" THEN "done" ELSE @]

\* Bug: the result is delivered to a cancelled future too, which raises.
DrainCommand_Raises ==
  /\ at = "commands"
  /\ commands # <<>>
  /\ commands' = Tail(commands)
  /\ Apply(Head(commands))
  /\ at' = IF future[Head(commands)] = "cancelled" THEN "dead" ELSE at
  /\ future' = Delivered(Head(commands))
  /\ UNCHANGED <<sent, worker, evq, pending, frame, epoch, latest, conn, recorded>>

\* _drain_commands takes one command, applies it whoever still waits for it,
\* and delivers the outcome.
DrainCommand ==
  /\ at = "commands"
  /\ commands # <<>>
  /\ commands' = Tail(commands)
  /\ Apply(Head(commands))
  /\ future' = Delivered(Head(commands))
  /\ UNCHANGED <<sent, worker, evq, pending, at, frame, epoch, latest, conn, recorded>>

NoMoreCommands ==
  /\ at = "commands"
  /\ commands = <<>>
  /\ at' = "events"
  /\ UNCHANGED <<sent, commands, future, builds, worker, evq, pending, scene,
                 raised, frame, epoch, latest, conn, worlds, recorded>>

\* _drain_events, up to the moment it finds the queue empty.
DrainEvents ==
  /\ at = "events"
  /\ raised' = raised \o evq
  /\ evq' = <<>>
  /\ at' = "swap"
  /\ UNCHANGED <<sent, commands, future, builds, worker, pending, scene, frame,
                 epoch, latest, conn, worlds, recorded>>

\* _take_pending_scene finds nothing under the lock ...
NothingPending ==
  /\ at = "swap"
  /\ pending = None
  /\ at' = "step"
  /\ UNCHANGED <<sent, commands, future, builds, worker, evq, pending, scene,
                 raised, frame, epoch, latest, conn, worlds, recorded>>

\* ... or a scene, which it adopts outside the lock.
AdoptPending ==
  /\ at = "swap"
  /\ pending # None
  /\ pending' = None
  /\ scene' = pending
  /\ worlds' = Append(worlds, pending)
  /\ at' = "bump"
  /\ UNCHANGED <<sent, commands, future, builds, worker, evq, raised, frame,
                 epoch, latest, conn, recorded>>

BumpEpoch ==
  /\ at = "bump"
  /\ epoch' = epoch + 1
  /\ at' = "step"
  /\ UNCHANGED <<sent, commands, future, builds, worker, evq, pending, scene,
                 raised, frame, latest, conn, worlds, recorded>>

\* step and state_update take the world's events into the frame, and
\* _record_events logs them before anybody can read that frame.
StepWorld ==
  /\ at = "step"
  /\ frame' = scene
  /\ recorded' = recorded \o raised
  /\ raised' = <<>>
  /\ at' = "publish"
  /\ UNCHANGED <<sent, commands, future, builds, worker, evq, pending, scene,
                 epoch, latest, conn, worlds>>

Publish ==
  /\ at = "publish"
  /\ latest' = frame
  /\ at' = "commands"
  /\ UNCHANGED <<sent, commands, future, builds, worker, evq, pending, scene,
                 raised, frame, epoch, conn, worlds, recorded>>

Thread ==
  \/ DrainCommand \/ NoMoreCommands \/ DrainEvents
  \/ NothingPending \/ AdoptPending \/ BumpEpoch
  \/ StepWorld \/ Publish

-----------------------------------------------------------------------------
(* submit_scene's run, on the executor's only worker. *)

BuilderKeeps == UNCHANGED <<sent, commands, future, at, scene, raised,
                            frame, epoch, latest, conn, worlds, recorded>>

\* Bug: the newest request is built first.
StartBuild_Newest ==
  /\ worker = Idle
  /\ builds # <<>>
  /\ worker' = [build |-> Last(builds), done |-> FALSE]
  /\ builds' = Front(builds)
  /\ UNCHANGED <<evq, pending>>
  /\ BuilderKeeps

StartBuild ==
  /\ worker = Idle
  /\ builds # <<>>
  /\ worker' = [build |-> Head(builds), done |-> FALSE]
  /\ builds' = Tail(builds)
  /\ UNCHANGED <<evq, pending>>
  /\ BuilderKeeps

\* build raises: the failure travels as an event.
BuildFails ==
  /\ worker.build # None /\ ~worker.done
  /\ evq' = Append(evq, Ev("failed", worker.build))
  /\ worker' = Idle
  /\ UNCHANGED <<builds, pending>>
  /\ BuilderKeeps

\* build returns: its notes go out before the scene is offered.
BuildReturns ==
  /\ worker.build # None /\ ~worker.done
  /\ worker' = [worker EXCEPT !.done = TRUE]
  /\ \/ UNCHANGED evq
     \/ Notes /\ evq' = Append(evq, Ev("note", worker.build))
  /\ UNCHANGED <<builds, pending>>
  /\ BuilderKeeps

\* Latest wins: an offer nobody has taken yet is replaced.
OfferScene ==
  /\ worker.done
  /\ pending' = worker.build
  /\ worker' = Idle
  /\ UNCHANGED <<builds, evq>>
  /\ BuilderKeeps

Builder == StartBuild \/ BuildFails \/ BuildReturns \/ OfferScene

-----------------------------------------------------------------------------
(* One connection: _Connection, on the event loop. *)

LoopKeeps == UNCHANGED <<commands, builds, worker, evq, pending, at, scene,
                         raised, frame, epoch, latest, worlds, recorded>>

\* c's own fields change to r, nothing else.
Becomes(c, r) ==
  /\ conn' = [conn EXCEPT ![c] = r]
  /\ UNCHANGED <<sent, future>>
  /\ LoopKeeps

\* __init__ reads the epoch before the scene is sent ...
Connect(c) ==
  /\ conn[c].at = "off"
  /\ Becomes(c, [Gone EXCEPT !.at = "cursor", !.sentEpoch = epoch])

\* ... and starts its event cursor at the end of the log.
StartCursor(c) ==
  /\ conn[c].at = "cursor"
  /\ Becomes(c, [conn[c] EXCEPT !.at = "scene", !.cursor = Len(recorded),
                                !.joined = Len(recorded)])

\* Bug: the epoch is noted once the scene is on its way.
SendFirstScene_ThenEpoch(c) ==
  /\ conn[c].at = "scene"
  /\ \/ /\ conn[c].told = None
        /\ Becomes(c, [conn[c] EXCEPT !.told = scene])
     \/ /\ conn[c].told # None
        /\ Becomes(c, [conn[c] EXCEPT !.at = "live", !.sentEpoch = epoch])

\* _run_connection sends the scene and starts the tasks.
SendFirstScene(c) ==
  /\ conn[c].at = "scene"
  /\ Becomes(c, [conn[c] EXCEPT !.at = "live", !.told = scene])

Streaming(c, where) == conn[c].at = "live" /\ conn[c].stream = where

\* stream reads the epoch and the newest frame under one lock.
Snapshot(c) ==
  /\ Streaming(c, "poll")
  /\ Becomes(c, [conn[c] EXCEPT
                   !.stream = IF epoch # conn[c].sentEpoch THEN "push" ELSE "frame",
                   !.snapEpoch = IF epoch # conn[c].sentEpoch THEN epoch ELSE 0,
                   !.snapFrame = latest])

\* A new epoch: the scene as it is now goes out, before any frame of it.
PushScene(c) ==
  /\ Streaming(c, "push")
  /\ Becomes(c, [conn[c] EXCEPT !.stream = "frame", !.told = scene,
                                !.sentEpoch = conn[c].snapEpoch, !.snapEpoch = 0])

\* events_since: the numbers of the logged events past the cursor.
Fresh(c) ==
  LET oldest == IF Len(recorded) > LogMax THEN Len(recorded) - LogMax ELSE 0
      from   == IF conn[c].cursor > oldest THEN conn[c].cursor ELSE oldest
  IN  [i \in 1 .. Len(recorded) - from |-> from + i]

\* Bug: a frame carries only the events of the tick it was built on.
SendFrame_OwnEvents(c) ==
  /\ Streaming(c, "frame")
  /\ conn[c].snapFrame # None
  /\ Becomes(c, [conn[c] EXCEPT
                   !.stream = "poll", !.snapFrame = None, !.shown = conn[c].snapFrame,
                   !.cursor = Len(recorded),
                   !.heard = IF conn[c].cursor < Len(recorded)
                             THEN Append(@, Len(recorded)) ELSE @])

\* Bug: the frame is read anew, apart from the epoch it was paired with.
SendFrame_Newest(c) ==
  /\ Streaming(c, "frame")
  /\ latest # None
  /\ Becomes(c, [conn[c] EXCEPT
                   !.stream = "poll", !.snapFrame = None, !.shown = latest,
                   !.cursor = Len(recorded), !.heard = @ \o Fresh(c)])

\* The frame of the snapshot goes out, with every event since the cursor.
SendFrame(c) ==
  /\ Streaming(c, "frame")
  /\ conn[c].snapFrame # None
  /\ Becomes(c, [conn[c] EXCEPT
                   !.stream = "poll", !.snapFrame = None, !.shown = conn[c].snapFrame,
                   !.cursor = Len(recorded), !.heard = @ \o Fresh(c)])

\* No frame yet, or none due.
SkipFrame(c) ==
  /\ Streaming(c, "frame")
  /\ Becomes(c, [conn[c] EXCEPT !.stream = "poll", !.snapFrame = None])

\* receive hands a command to the thread and waits for its future.
Submit(c, kind) ==
  /\ conn[c].at = "live"
  /\ conn[c].awaits = None
  /\ Len(sent) < MaxCmd
  /\ sent' = Append(sent, kind)
  /\ commands' = Append(commands, Len(sent) + 1)
  /\ conn' = [conn EXCEPT ![c].awaits = Len(sent) + 1]
  /\ UNCHANGED <<future, builds, worker, evq, pending, at, scene, raised,
                 frame, epoch, latest, worlds, recorded>>

\* The verdict is there: the scene it carries, then the ack.
Reply(c) ==
  LET k == conn[c].awaits IN
  /\ k # None
  /\ future[k] = "done"
  /\ Becomes(c, [conn[c] EXCEPT
                   !.awaits = None,
                   !.told = IF sent[k] = "load_scenario" THEN k ELSE @])

\* What is left of a future whose caller gives up.
Abandoned(k) ==
  [j \in Cmd |-> IF j = k /\ future[j] = "waiting" THEN "cancelled" ELSE future[j]]

\* Five seconds without a verdict: "simulation busy".
TimeOut(c) ==
  LET k == conn[c].awaits IN
  /\ k # None
  /\ future[k] = "waiting"
  /\ future' = Abandoned(k)
  /\ conn' = [conn EXCEPT ![c].awaits = None]
  /\ UNCHANGED sent
  /\ LoopKeeps

\* The socket is gone: a send fails, or all tasks are cancelled.
Disconnect(c) ==
  /\ conn[c].at \in {"scene", "live"}
  /\ future' = Abandoned(conn[c].awaits)
  /\ conn' = [conn EXCEPT ![c] = Gone]
  /\ UNCHANGED sent
  /\ LoopKeeps

-----------------------------------------------------------------------------
Client(c) ==
  \/ Connect(c) \/ StartCursor(c) \/ SendFirstScene(c)
  \/ Snapshot(c) \/ PushScene(c) \/ SendFrame(c) \/ SkipFrame(c)
  \/ (\E kind \in Kinds : Submit(c, kind))
  \/ Reply(c) \/ TimeOut(c) \/ Disconnect(c)

Next == Thread \/ Builder \/ \E c \in Conn : Client(c)

\* The thread iterates, the worker builds, the event loop resumes its tasks,
\* and an unchanged frame is re-sent once a period.  Nobody has to connect,
\* to send a command or to leave.
Fairness ==
  /\ WF_vars(Thread)
  /\ WF_vars(Builder)
  /\ \A c \in Conn :
       /\ WF_vars(StartCursor(c) \/ SendFirstScene(c))
       /\ WF_vars(Snapshot(c) \/ PushScene(c) \/ SkipFrame(c))
       /\ SF_vars(SendFrame(c))
       /\ WF_vars(Reply(c) \/ TimeOut(c))

Spec == Init /\ [][Next]_vars
FairSpec == Spec /\ Fairness
-----------------------------------------------------------------------------
(* Properties. *)

\* When a world was adopted, counted in swaps.
Rank(w) == CHOOSE i \in DOMAIN worlds : worlds[i] = w

\* A client is never shown a world it was not told of first: the frame it was
\* last sent is not newer than the scene_description it was last sent, however
\* the swap falls between the two reads of stream or inside __init__.
FrameNeverAhead ==
  \A c \in Conn :
    conn[c].shown # None => Rank(conn[c].shown) <= Rank(conn[c].told)

\* Every event recorded since a client joined reaches it once and in order,
\* though it reads frames on its own clock and skips most of them; only an
\* overflow of the log loses any.
EventsOnce ==
  \A c \in Conn :
    LET r == conn[c] IN
    /\ \A i \in 1 .. Len(r.heard) - 1 : r.heard[i] < r.heard[i + 1]
    /\ Len(recorded) - r.joined <= LogMax =>
         r.heard = [i \in 1 .. r.cursor - r.joined |-> r.joined + i]

\* Of two builds the one asked for later wins: locations are adopted in the
\* order of their requests, never an older one over a newer.
LatestBuildWins ==
  \A i, j \in DOMAIN worlds :
    i < j /\ worlds[i] > 0 /\ sent[worlds[i]] = "load_location"
          /\ sent[worlds[j]] = "load_location"
      => worlds[i] < worlds[j]

\* A failure raised off the thread reaches every client there at the time.
FailureHeard ==
  \A c \in Conn, k \in Cmd :
    Ev("failed", k) \in ToSet(evq) /\ conn[c].at = "live"
      ~> \/ conn[c].at = "off"
         \/ \E i \in DOMAIN conn[c].heard : recorded[conn[c].heard[i]] = Ev("failed", k)

\* Every location asked for ends as a world, its own or a later request's, or
\* as a failure on record.
BuildAnswered ==
  \A k \in Cmd :
    (\E i \in DOMAIN builds : builds[i] = k)
      ~> \/ \E w \in ToSet(worlds) : w >= k
         \/ \E e \in ToSet(recorded) : e = Ev("failed", k)

\* Every client that stays is told, again and again, the world the simulation
\* is in: it is not left with an older one.
ToldCurrent ==
  \A c \in Conn :
    conn[c].at = "live" ~> conn[c].at = "off" \/ conn[c].told = scene
=============================================================================
