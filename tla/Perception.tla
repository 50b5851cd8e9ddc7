----------------------------- MODULE Perception -----------------------------
(***************************************************************************)
(* perception/frames.py, pipeline.py, ml_source.py and tracker.py: camera  *)
(* frames on their way from the socket to the planner.                     *)
(*                                                                         *)
(* Three threads share the pipeline.  The event loop offers frames to the  *)
(* one-deep slot, starts the worker and resets the pipeline when a client  *)
(* connects; the worker detects; the simulation thread consumes the newest *)
(* result and swaps scenes.  A frame is the page load it comes from, its    *)
(* number there, the connection it travels on and the world it shows.      *)
(***************************************************************************)
EXTENDS Integers, FiniteSets

CONSTANTS
  BirthHits,   \* Tracker.birth_hits
  MaxMisses,   \* Tracker.max_misses
  MaxFrames,   \* bound: frames captured altogether
  MaxConn,     \* bound: connections, one after the other, of one user
  MaxSwaps     \* bound: scene swaps

ASSUME PerceptionAssumption ==
  /\ BirthHits \in Nat \ {0} /\ MaxMisses \in Nat
  /\ MaxFrames \in Nat /\ MaxConn \in Nat \ {0} /\ MaxSwaps \in Nat

World == 0 .. MaxSwaps
Conn  == 1 .. MaxConn
Frame == [page : Conn, conn : Conn, seq : 0 .. MaxFrames - 1, scene : World]
None  == [page |-> 0, conn |-> 0, seq |-> 0, scene |-> 0]   \* no page is 0

VARIABLES
  \* the client
  client,    \* its page load, connection, next seq, and the world on its screen
  captures,  \* frames sent and not yet handled
  captured,  \* how many were captured altogether
  \* FrameSlot
  slot, lastSeq, received, dropped,
  \* PerceptionPipeline
  inflight,  \* _inflight is not None
  jobs,      \* _work calls the executor has not started
  worker,    \* where _work is: "none", "take", "exit", or the frame it detects
  latest,    \* _latest
  loopAt,    \* the event loop, inside submit_frame or reset, or "idle"
  \* the simulation thread
  scene, processed, tracks,
  \* history
  taken,     \* frames handed to the detector
  newest,    \* the last result published
  fresh      \* results of the present world consumed in a row

clientVars   == <<client, captures, captured>>
slotVars     == <<slot, lastSeq, received, dropped>>
pipelineVars == <<inflight, jobs, worker, latest, loopAt, taken, newest>>
simVars      == <<scene, processed, tracks, fresh>>
vars == <<clientVars, slotVars, pipelineVars, simVars>>

\* What the tracker knows of the one object that stands in each world.
Track  == [hits : 0 .. BirthHits, misses : 0 .. MaxMisses, published : BOOLEAN]
NoTrack == [hits |-> 0, misses |-> 0, published |-> FALSE]

TypeOK ==
  /\ client \in [page : Conn, conn : Conn, seq : 0 .. MaxFrames, scene : World]
  /\ captures \subseteq Frame
  /\ captured \in 0 .. MaxFrames
  /\ slot \in Frame \cup {None}
  /\ lastSeq \in -1 .. MaxFrames - 1
  /\ received \in Nat /\ dropped \in Nat /\ taken \in Nat
  /\ inflight \in BOOLEAN
  /\ jobs \in 0 .. 1
  /\ worker \in [at : {"none", "take", "exit", "detect"}, frame : Frame \cup {None}]
  /\ latest \in Frame \cup {None}
  /\ loopAt \in {"idle", "submit", "reset"}
  /\ scene \in World
  /\ processed \in Frame \cup {None}
  /\ tracks \in [World -> Track]
  /\ newest \in Frame \cup {None}
  /\ fresh \in Nat

At(where) == [at |-> where, frame |-> None]

Init ==
  /\ client = [page |-> 1, conn |-> 1, seq |-> 0, scene |-> 0]
  /\ captures = {} /\ captured = 0
  /\ slot = None /\ lastSeq = -1 /\ received = 0 /\ dropped = 0
  /\ inflight = FALSE /\ jobs = 0 /\ worker = At("none") /\ latest = None
  /\ loopAt = "idle"
  /\ scene = 0 /\ processed = None /\ tracks = [w \in World |-> NoTrack]
  /\ taken = 0 /\ newest = None /\ fresh = 0

-----------------------------------------------------------------------------
(* The client: Renderer.tsx captures at a fixed rate, one frame at a time,  *)
(* so a socket carries them in order.                                       *)

Capture ==
  /\ captured < MaxFrames
  /\ captured' = captured + 1
  /\ captures' = captures \cup {client}
  /\ client' = [client EXCEPT !.seq = @ + 1]
  /\ UNCHANGED <<slotVars, pipelineVars, simVars>>

\* The scene_description of a swap reaches the client.
ShowScene ==
  /\ client.scene # scene
  /\ client' = [client EXCEPT !.scene = scene]
  /\ UNCHANGED <<captures, captured, slotVars, pipelineVars, simVars>>

-----------------------------------------------------------------------------
(* The event loop. *)

\* f is the next frame of its socket.
Due(f) == f \in captures /\ \A g \in captures : g.conn = f.conn => f.seq <= g.seq

\* Bug: no sequence gate.
Arrive_Ungated(f) ==
  /\ loopAt = "idle" /\ Due(f)
  /\ captures' = captures \ {f}
  /\ slot' = f
  /\ lastSeq' = f.seq
  /\ received' = received + 1
  /\ dropped' = IF slot # None THEN dropped + 1 ELSE dropped
  /\ loopAt' = "submit"
  /\ UNCHANGED <<client, captured, inflight, jobs, worker, latest, taken,
                 newest, simVars>>

\* submit_frame: offer takes a frame with a new number, replacing one unread.
Arrive(f) ==
  /\ loopAt = "idle" /\ Due(f)
  /\ captures' = captures \ {f}
  /\ IF f.seq <= lastSeq
     THEN UNCHANGED <<slotVars, loopAt>>
     ELSE /\ slot' = f
          /\ lastSeq' = f.seq
          /\ received' = received + 1
          /\ dropped' = IF slot # None THEN dropped + 1 ELSE dropped
          /\ loopAt' = "submit"
  /\ UNCHANGED <<client, captured, inflight, jobs, worker, latest, taken,
                 newest, simVars>>

\* submit_frame, under the pipeline's lock.
EnsureWorker ==
  /\ loopAt = "submit"
  /\ loopAt' = "idle"
  /\ inflight' = TRUE
  /\ jobs' = IF inflight THEN jobs ELSE jobs + 1
  /\ UNCHANGED <<clientVars, slotVars, worker, latest, taken, newest, simVars>>

\* The user's next socket: after a page load the numbers restart, after a lost
\* connection they go on.  Its predecessor may still hold frames, one before
\* that does not: a retry waits 400 ms or more.
Join ==
  /\ client.conn < MaxConn
  /\ \A f \in captures : f.conn = client.conn
  /\ \/ client' = [client EXCEPT !.conn = @ + 1]
     \/ client' = [client EXCEPT !.conn = @ + 1, !.page = client.conn + 1, !.seq = 0]

\* A new socket: _Connection resets the pipeline, first the frame slot ...
Reconnect ==
  /\ loopAt = "idle" /\ Join
  /\ slot' = None
  /\ lastSeq' = -1
  /\ dropped' = IF slot # None THEN dropped + 1 ELSE dropped
  /\ loopAt' = "reset"
  /\ UNCHANGED <<captures, captured, received, inflight, jobs, worker, latest,
                 taken, newest, simVars>>

\* ... then the newest result.
ForgetLatest ==
  /\ loopAt = "reset"
  /\ loopAt' = "idle"
  /\ latest' = None
  /\ UNCHANGED <<clientVars, slotVars, inflight, jobs, worker, taken, newest,
                 simVars>>

-----------------------------------------------------------------------------
(* _work, on the executor's only thread. *)

StartJob ==
  /\ jobs > 0
  /\ worker = At("none")
  /\ jobs' = jobs - 1
  /\ worker' = At("take")
  /\ UNCHANGED <<clientVars, slotVars, inflight, latest, loopAt, taken, newest,
                 simVars>>

Take ==
  /\ worker = At("take")
  /\ slot' = None
  /\ worker' = IF slot = None THEN At("exit") ELSE [at |-> "detect", frame |-> slot]
  /\ taken' = IF slot = None THEN taken ELSE taken + 1
  /\ UNCHANGED <<clientVars, lastSeq, received, dropped, inflight, jobs, latest,
                 loopAt, newest, simVars>>

\* Bug: the worker gives up without looking again.
Exit_Unchecked ==
  /\ worker = At("exit")
  /\ worker' = At("none")
  /\ inflight' = FALSE
  /\ UNCHANGED <<clientVars, slotVars, jobs, latest, loopAt, taken, newest, simVars>>

\* Give up under the pipeline's lock, and only with the slot still empty.
Exit ==
  /\ worker = At("exit")
  /\ IF slot # None
     THEN worker' = At("take") /\ UNCHANGED inflight
     ELSE worker' = At("none") /\ inflight' = FALSE
  /\ UNCHANGED <<clientVars, slotVars, jobs, latest, loopAt, taken, newest, simVars>>

\* The detector answers, and the result replaces the last one.
Detected ==
  /\ worker.at = "detect"
  /\ latest' = worker.frame
  /\ newest' = worker.frame
  /\ worker' = At("take")
  /\ UNCHANGED <<clientVars, slotVars, inflight, jobs, loopAt, taken, simVars>>

\* The detector raises: the last result stays.
DetectorFails ==
  /\ worker.at = "detect"
  /\ worker' = At("take")
  /\ UNCHANGED <<clientVars, slotVars, inflight, jobs, latest, loopAt, taken,
                 newest, simVars>>

Work == StartJob \/ Take \/ Exit \/ Detected \/ DetectorFails

-----------------------------------------------------------------------------
(* The simulation thread. *)

\* Tracker.update: a track whose object is seen again.
Hit(t) ==
  LET hits == IF t.hits < BirthHits THEN t.hits + 1 ELSE t.hits
  IN  [hits |-> hits, misses |-> 0, published |-> t.published \/ hits = BirthHits]

\* Bug: a published track is never given up.
Miss_Kept(t) ==
  IF t = NoTrack \/ (~t.published /\ t.misses = MaxMisses) THEN NoTrack
  ELSE [hits |-> 0, published |-> t.published,
        misses |-> IF t.misses < MaxMisses THEN t.misses + 1 ELSE t.misses]

\* A track whose object is not seen: it coasts, up to max_misses frames.
Miss(t) ==
  IF t = NoTrack \/ t.misses = MaxMisses THEN NoTrack
  ELSE [hits |-> 0, misses |-> t.misses + 1, published |-> t.published]

\* MlPerception.observe: the tracker advances once per result.  The detector
\* may have missed the object of the world the frame shows.
Observe ==
  /\ latest \notin {None, processed}
  /\ processed' = latest
  /\ \E seen \in BOOLEAN :
       tracks' = [w \in World |->
                    IF seen /\ w = latest.scene THEN Hit(tracks[w]) ELSE Miss(tracks[w])]
  /\ fresh' = IF latest.scene = scene THEN fresh + 1 ELSE 0
  /\ UNCHANGED <<clientVars, slotVars, pipelineVars, scene>>

\* adopt_scene: _reset_dynamics resets MlPerception, not the pipeline.
Swap ==
  /\ scene < MaxSwaps
  /\ scene' = scene + 1
  /\ processed' = None
  /\ tracks' = [w \in World |-> NoTrack]
  /\ fresh' = 0
  /\ UNCHANGED <<clientVars, slotVars, pipelineVars>>

-----------------------------------------------------------------------------
Next ==
  \/ Capture \/ ShowScene
  \/ (\E f \in captures : Arrive(f)) \/ EnsureWorker
  \/ Reconnect \/ ForgetLatest
  \/ Work
  \/ Observe \/ Swap

\* The event loop finishes what it began and the worker runs; the client owes
\* nothing.
Fairness == WF_vars(EnsureWorker) /\ WF_vars(ForgetLatest) /\ WF_vars(Work)

Spec == Init /\ [][Next]_vars
FairSpec == Spec /\ Fairness
-----------------------------------------------------------------------------
(* Properties. *)

\* Every frame accepted is accounted for: handed to the detector, counted as
\* dropped, or still in the slot ("a drop is always counted").
FramesAccounted ==
  received = taken + dropped + (IF slot = None THEN 0 ELSE 1)

\* There is one worker or none, and a frame in the slot has one coming: the
\* exit of a worker and the arrival of a frame do not miss each other.
WorkerForFrame ==
  /\ jobs + (IF worker.at = "none" THEN 0 ELSE 1) = (IF inflight THEN 1 ELSE 0)
  /\ slot # None => inflight \/ loopAt = "submit"

\* A frame does not stay in the slot: the worker comes for it, or for the newer
\* one that has taken its place.
FrameServed == slot # None ~> slot = None

\* Results of one page load never go back in time, though its sockets overlap
\* and a new socket forgets the numbers seen so far.
ResultsForward ==
  [][newest' # newest /\ newest # None /\ newest'.page = newest.page
       => newest.seq < newest'.seq]_vars

\* Objects of a world that is gone do not outlive max_misses + 1 results of the
\* new one in a row: from then on the planner sees no ghosts.
GhostsDie ==
  fresh > MaxMisses => \A w \in World \ {scene} : tracks[w] = NoTrack

\* ml_source.py, MlPerception.reset: a swap forgets everything, or the planner
\* would "brake for traffic that no longer exists".
NoGhosts == \A w \in World \ {scene} : ~tracks[w].published
=============================================================================
