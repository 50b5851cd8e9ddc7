-------------------------- MODULE PerceptionProofs --------------------------
(***************************************************************************)
(* Proofs about Perception, for any tracker parameters and any bounds: the *)
(* count of frames, the worker that a frame in the slot has coming, the    *)
(* end of the ghosts a scene swap leaves behind, and the order of results. *)
(***************************************************************************)
EXTENDS Perception, TLAPS

\* A client numbers no more frames than it captured, and a page is loaded over
\* one of the connections made so far.
Numbered == client.seq <= captured /\ client.page <= client.conn

\* A track of another world has missed every result of the present one.
Fading ==
  \A w \in World \ {scene} : tracks[w] # NoTrack => fresh <= tracks[w].misses

Inv == TypeOK /\ Numbered /\ FramesAccounted /\ WorkerForFrame /\ Fading

\* No frame is the absence of one, and a frame has its fields.
LEMMA Frames ==
  /\ None \notin Frame
  /\ \A f \in Frame : /\ f.page \in Conn /\ f.conn \in Conn
                      /\ f.seq \in 0 .. MaxFrames - 1 /\ f.scene \in World
  BY DEF None, Frame, Conn

\* A track stays a track, seen or not, and what is not seen fades.
LEMMA Tracking ==
  ASSUME NEW t \in Track
  PROVE  /\ Hit(t) \in Track /\ Miss(t) \in Track
         /\ Miss(t) # NoTrack => t # NoTrack /\ Miss(t).misses = t.misses + 1
  BY PerceptionAssumption DEF Hit, Miss, Track, NoTrack

\* The invariant holds before the first client.
LEMMA InitInv == Init => Inv
<1> SUFFICES ASSUME Init PROVE Inv
  OBVIOUS
<1>1. NoTrack \in Track
  BY PerceptionAssumption DEF NoTrack, Track
<1>2. client \in [page : Conn, conn : Conn, seq : 0 .. MaxFrames, scene : World]
  BY PerceptionAssumption DEF Init, Conn, World
<1>3. TypeOK
  <2>1. worker \in [at : {"none", "take", "exit", "detect"}, frame : Frame \cup {None}]
    BY DEF Init, At
  <2>2. tracks \in [World -> Track] /\ scene \in World
    BY <1>1, PerceptionAssumption DEF Init, World
  <2>3. -1 \in -1 .. MaxFrames - 1 /\ 0 \in 0 .. MaxFrames
    BY PerceptionAssumption
  <2>4. /\ captures \subseteq Frame /\ slot \in Frame \cup {None}
        /\ latest \in Frame \cup {None} /\ processed \in Frame \cup {None}
        /\ newest \in Frame \cup {None} /\ inflight \in BOOLEAN
    BY DEF Init
  <2>5. /\ captured \in 0 .. MaxFrames /\ lastSeq \in -1 .. MaxFrames - 1
        /\ received \in Nat /\ dropped \in Nat /\ taken \in Nat /\ fresh \in Nat
        /\ jobs \in 0 .. 1 /\ loopAt \in {"idle", "submit", "reset"}
    BY <2>3 DEF Init
  <2> QED BY <1>2, <2>1, <2>2, <2>4, <2>5 DEF TypeOK
<1>4. Numbered /\ FramesAccounted /\ WorkerForFrame /\ Fading
  BY PerceptionAssumption
  DEF Init, Numbered, FramesAccounted, WorkerForFrame, Fading, At
<1> QED
  BY <1>3, <1>4 DEF Inv

\* The client changes only what it sends.
LEMMA ClientStep == Inv /\ (Capture \/ ShowScene) => Inv'
<1> SUFFICES ASSUME Inv, Capture \/ ShowScene PROVE Inv'
  OBVIOUS
<1> USE DEF slotVars, pipelineVars, simVars
<1>1. CASE Capture
  <2>1. /\ client \in Frame
        /\ client' \in [page : Conn, conn : Conn, seq : 0 .. MaxFrames, scene : World]
        /\ captured' \in 0 .. MaxFrames
        /\ Numbered'
    BY <1>1, PerceptionAssumption DEF Capture, Inv, TypeOK, Numbered, Frame
  <2>2. TypeOK'
    BY <1>1, <2>1 DEF Capture, Inv, TypeOK
  <2>3. FramesAccounted' /\ WorkerForFrame' /\ Fading'
    BY <1>1 DEF Capture, Inv, FramesAccounted, WorkerForFrame, Fading
  <2> QED BY <2>1, <2>2, <2>3 DEF Inv
<1>2. CASE ShowScene
  <2>1. /\ client' \in [page : Conn, conn : Conn, seq : 0 .. MaxFrames, scene : World]
        /\ Numbered'
    BY <1>2 DEF ShowScene, Inv, TypeOK, Numbered
  <2>2. TypeOK'
    BY <1>2, <2>1 DEF ShowScene, Inv, TypeOK
  <2>3. FramesAccounted' /\ WorkerForFrame' /\ Fading'
    BY <1>2 DEF ShowScene, Inv, FramesAccounted, WorkerForFrame, Fading
  <2> QED BY <2>1, <2>2, <2>3 DEF Inv
<1> QED
  BY <1>1, <1>2

\* The event loop fills the slot and starts the worker, or empties the slot and
\* counts what it threw away.
LEMMA LoopStep ==
  ASSUME Inv,
         (\E f \in captures : Arrive(f)) \/ EnsureWorker \/ Reconnect \/ ForgetLatest
  PROVE  Inv'
<1> USE DEF clientVars, slotVars, simVars
<1>1. ASSUME NEW f \in captures, Arrive(f) PROVE Inv'
  <2>1. f \in Frame /\ f # None
    BY Frames DEF Inv, TypeOK
  <2>2. f.seq \in 0 .. MaxFrames - 1
    BY <2>1, Frames
  <2>3. CASE f.seq <= lastSeq
    <3>1. TypeOK'
      BY <1>1, <2>3 DEF Arrive, Inv, TypeOK
    <3> QED
      BY <1>1, <2>3, <3>1
      DEF Arrive, Inv, Numbered, FramesAccounted, WorkerForFrame, Fading
  <2>4. CASE ~(f.seq <= lastSeq)
    <3>1. TypeOK'
      BY <1>1, <2>1, <2>2, <2>4 DEF Arrive, Inv, TypeOK
    <3>2. Numbered' /\ FramesAccounted' /\ Fading'
      BY <1>1, <2>1, <2>4 DEF Arrive, Inv, TypeOK, Numbered, FramesAccounted, Fading
    <3>3. WorkerForFrame'
      BY <1>1, <2>1, <2>4 DEF Arrive, Inv, WorkerForFrame
    <3> QED BY <3>1, <3>2, <3>3 DEF Inv
  <2> QED BY <2>3, <2>4
<1>2. CASE EnsureWorker
  <2>1. WorkerForFrame' /\ jobs' \in 0 .. 1
    BY <1>2 DEF EnsureWorker, Inv, TypeOK, WorkerForFrame
  <2>2. TypeOK'
    BY <1>2, <2>1 DEF EnsureWorker, Inv, TypeOK
  <2>3. Numbered' /\ FramesAccounted' /\ Fading'
    BY <1>2 DEF EnsureWorker, Inv, Numbered, FramesAccounted, Fading
  <2> QED BY <2>1, <2>2, <2>3 DEF Inv
<1>3. CASE Reconnect
  <2>1. /\ client' \in [page : Conn, conn : Conn, seq : 0 .. MaxFrames, scene : World]
        /\ Numbered'
    <3>1. /\ client.conn + 1 \in Conn /\ client.page <= client.conn + 1
          /\ client.page \in Conn /\ client.conn \in Conn
          /\ 0 \in 0 .. MaxFrames /\ captured \in Nat /\ captured' = captured
      BY <1>3, PerceptionAssumption DEF Reconnect, Join, Inv, TypeOK, Numbered, Conn
    <3>2. CASE client' = [client EXCEPT !.conn = @ + 1]
      BY <3>1, <3>2 DEF Inv, TypeOK, Numbered
    <3>3. CASE client' = [client EXCEPT !.conn = @ + 1, !.page = client.conn + 1, !.seq = 0]
      <4>1. client' \in [page : Conn, conn : Conn, seq : 0 .. MaxFrames, scene : World]
        BY <3>1, <3>3 DEF Inv, TypeOK
      <4>2. client'.seq = 0 /\ client'.page = client.conn + 1 /\ client'.conn = client.conn + 1
        BY <3>3 DEF Inv, TypeOK
      <4> QED BY <3>1, <4>1, <4>2 DEF Numbered, Conn
    <3> QED BY <1>3, <3>2, <3>3 DEF Reconnect, Join
  <2>2. TypeOK'
    BY <1>3, <2>1, PerceptionAssumption DEF Reconnect, Inv, TypeOK
  <2>3. FramesAccounted'
    BY <1>3 DEF Reconnect, Inv, TypeOK, FramesAccounted
  <2>4. WorkerForFrame' /\ Fading'
    BY <1>3 DEF Reconnect, Inv, WorkerForFrame, Fading
  <2> QED BY <2>1, <2>2, <2>3, <2>4 DEF Inv
<1>4. CASE ForgetLatest
  <2>1. TypeOK'
    BY <1>4 DEF ForgetLatest, Inv, TypeOK
  <2> QED
    BY <1>4, <2>1
    DEF ForgetLatest, Inv, Numbered, FramesAccounted, WorkerForFrame, Fading
<1> QED
  BY <1>1, <1>2, <1>3, <1>4

\* The worker leaves only with the slot empty.
LEMMA WorkStep == Inv /\ Work => Inv'
<1> SUFFICES ASSUME Inv, Work PROVE Inv'
  OBVIOUS
<1> USE DEF clientVars, slotVars, simVars
<1>1. CASE StartJob
  <2>1. TypeOK'
    BY <1>1 DEF StartJob, Inv, TypeOK, At
  <2>2. WorkerForFrame'
    BY <1>1 DEF StartJob, Inv, TypeOK, WorkerForFrame, At
  <2>3. Numbered' /\ FramesAccounted' /\ Fading'
    BY <1>1 DEF StartJob, Inv, Numbered, FramesAccounted, Fading
  <2> QED BY <2>1, <2>2, <2>3 DEF Inv
<1>2. CASE Take
  <2>a. worker' \in [at : {"none", "take", "exit", "detect"}, frame : Frame \cup {None}]
    BY <1>2 DEF Take, Inv, TypeOK, At
  <2>b. worker.at = "take" /\ worker'.at \in {"exit", "detect"}
    BY <1>2 DEF Take, At
  <2>1. TypeOK'
    <3>1. taken' \in Nat /\ slot' \in Frame \cup {None}
      BY <1>2 DEF Take, Inv, TypeOK
    <3> QED BY <1>2, <2>a, <3>1 DEF Take, Inv, TypeOK
  <2>2. WorkerForFrame'
    <3>1. slot' = None /\ jobs' = jobs /\ inflight' = inflight
      BY <1>2 DEF Take
    <3>2. (IF worker'.at = "none" THEN 0 ELSE 1) = (IF worker.at = "none" THEN 0 ELSE 1)
      BY <2>b
    <3> QED BY <3>1, <3>2 DEF Inv, WorkerForFrame
  <2>3. FramesAccounted'
    BY <1>2 DEF Take, Inv, TypeOK, FramesAccounted
  <2>4. Numbered' /\ Fading'
    BY <1>2 DEF Take, Inv, Numbered, Fading
  <2> QED BY <2>1, <2>2, <2>3, <2>4 DEF Inv
<1>3. CASE Exit
  <2>1. TypeOK'
    <3>1. inflight' \in BOOLEAN
      BY <1>3 DEF Exit, Inv, TypeOK
    <3>2. worker' \in [at : {"none", "take", "exit", "detect"}, frame : Frame \cup {None}]
      BY <1>3 DEF Exit, At
    <3> QED BY <1>3, <3>1, <3>2 DEF Exit, Inv, TypeOK
  <2>2. WorkerForFrame'
    BY <1>3 DEF Exit, Inv, TypeOK, WorkerForFrame, At
  <2>3. Numbered' /\ FramesAccounted' /\ Fading'
    BY <1>3 DEF Exit, Inv, Numbered, FramesAccounted, Fading
  <2> QED BY <2>1, <2>2, <2>3 DEF Inv
<1>4. CASE Detected \/ DetectorFails
  <2>1. TypeOK'
    BY <1>4 DEF Detected, DetectorFails, Inv, TypeOK, At
  <2>2. WorkerForFrame'
    BY <1>4 DEF Detected, DetectorFails, Inv, TypeOK, WorkerForFrame, At
  <2>3. Numbered' /\ FramesAccounted' /\ Fading'
    BY <1>4 DEF Detected, DetectorFails, Inv, Numbered, FramesAccounted, Fading
  <2> QED BY <2>1, <2>2, <2>3 DEF Inv
<1> QED
  BY <1>1, <1>2, <1>3, <1>4 DEF Work

\* A result of the present world is a miss for every track of another, and a
\* swap forgets them all.
LEMMA SimStep == Inv /\ (Observe \/ Swap) => Inv'
<1> SUFFICES ASSUME Inv, Observe \/ Swap PROVE Inv'
  OBVIOUS
<1> USE DEF clientVars, slotVars, pipelineVars
<1>1. CASE Observe
  <2>1. PICK seen \in BOOLEAN :
          tracks' = [w \in World |->
                       IF seen /\ w = latest.scene THEN Hit(tracks[w]) ELSE Miss(tracks[w])]
    BY <1>1 DEF Observe
  <2>2. \A w \in World : tracks[w] \in Track
    BY DEF Inv, TypeOK
  <2>3. tracks' \in [World -> Track]
    BY <2>1, <2>2, Tracking
  <2>4. TypeOK'
    BY <1>1, <2>3 DEF Observe, Inv, TypeOK
  <2>5. Fading'
    <3>1. SUFFICES ASSUME NEW w \in World \ {scene}, tracks'[w] # NoTrack
                   PROVE  fresh' <= tracks'[w].misses
      BY <1>1 DEF Observe, Fading
    <3>2. tracks'[w].misses \in Nat
      BY <2>3 DEF Track
    <3>3. CASE latest.scene = scene
      <4>1. tracks'[w] = Miss(tracks[w]) /\ fresh' = fresh + 1
        BY <1>1, <2>1, <3>1, <3>3 DEF Observe
      <4>2. tracks[w] # NoTrack /\ tracks'[w].misses = tracks[w].misses + 1
        BY <2>2, <3>1, <4>1, Tracking
      <4>3. fresh <= tracks[w].misses
        BY <3>1, <4>2 DEF Inv, Fading
      <4>4. fresh \in Nat /\ tracks[w].misses \in Nat
        BY <2>2, <3>1 DEF Inv, TypeOK, Track
      <4> QED BY <4>1, <4>2, <4>3, <4>4
    <3>4. CASE latest.scene # scene
      <4>1. fresh' = 0
        BY <1>1, <3>4 DEF Observe
      <4> QED BY <3>2, <4>1
    <3> QED BY <3>3, <3>4
  <2>6. Numbered' /\ FramesAccounted' /\ WorkerForFrame'
    BY <1>1 DEF Observe, Inv, Numbered, FramesAccounted, WorkerForFrame
  <2> QED BY <2>4, <2>5, <2>6 DEF Inv
<1>2. CASE Swap
  <2>1. NoTrack \in Track
    BY PerceptionAssumption DEF NoTrack, Track
  <2>2. scene' \in World
    BY <1>2, PerceptionAssumption DEF Swap, Inv, TypeOK, World
  <2>3. TypeOK'
    BY <1>2, <2>1, <2>2 DEF Swap, Inv, TypeOK
  <2>4. Fading'
    BY <1>2 DEF Swap, Fading
  <2>5. Numbered' /\ FramesAccounted' /\ WorkerForFrame'
    BY <1>2 DEF Swap, Inv, Numbered, FramesAccounted, WorkerForFrame
  <2> QED BY <2>3, <2>4, <2>5 DEF Inv
<1> QED
  BY <1>1, <1>2

\* The invariant holds in every state.
LEMMA Invariant == Spec => []Inv
<1>1. Inv /\ UNCHANGED vars => Inv'
  <2> SUFFICES ASSUME Inv, UNCHANGED vars PROVE Inv'
    OBVIOUS
  <2> USE DEF vars, clientVars, slotVars, pipelineVars, simVars
  <2>1. TypeOK'
    BY DEF Inv, TypeOK
  <2>2. Numbered' /\ FramesAccounted' /\ WorkerForFrame' /\ Fading'
    BY DEF Inv, Numbered, FramesAccounted, WorkerForFrame, Fading
  <2> QED BY <2>1, <2>2 DEF Inv
<1>2. Inv /\ [Next]_vars => Inv'
  BY <1>1, ClientStep, LoopStep, WorkStep, SimStep DEF Next
<1> QED
  BY InitInv, <1>2, PTL DEF Spec

-----------------------------------------------------------------------------
\* Every variable keeps its type; in particular no second worker is ever queued.
THEOREM TypeCorrect == Spec => []TypeOK
<1>1. Inv => TypeOK
  BY DEF Inv
<1> QED BY Invariant, <1>1, PTL

\* No frame is lost without being counted, whatever the interleaving of
\* arrivals, reconnects and the worker.
THEOREM FramesAlwaysAccounted == Spec => []FramesAccounted
<1>1. Inv => FramesAccounted
  BY DEF Inv
<1> QED BY Invariant, <1>1, PTL

\* A frame in the slot always has a worker coming, and never two.
THEOREM WorkerAlwaysComes == Spec => []WorkerForFrame
<1>1. Inv => WorkerForFrame
  BY DEF Inv
<1> QED BY Invariant, <1>1, PTL

\* Whatever the tracker's parameters, ghosts are gone after max_misses + 1
\* results of the new world.
THEOREM GhostsAlwaysDie == Spec => []GhostsDie
<1>1. Inv => GhostsDie
  <2> SUFFICES ASSUME Inv, fresh > MaxMisses, NEW w \in World \ {scene},
                      tracks[w] # NoTrack
               PROVE  FALSE
    BY DEF GhostsDie
  <2>1. fresh <= tracks[w].misses
    BY DEF Inv, Fading
  <2>2. fresh \in Nat /\ tracks[w].misses \in 0 .. MaxMisses
    BY DEF Inv, TypeOK, Track
  <2> QED BY <2>1, <2>2, PerceptionAssumption
<1> QED BY Invariant, <1>1, PTL

-----------------------------------------------------------------------------
(* The order of the results.  A page numbers its frames upwards, and they   *)
(* leave its sockets in that order; only a frame of the socket before the   *)
(* present one can come late, and lastSeq, which is reset no more before it *)
(* has been handled, refuses it.                                            *)

\* f and g are not of one page, or f was captured first.
Before(f, g) == f # None /\ f.page = g.page => f.seq < g.seq

\* The frames the pipeline holds, from the newest result to the slot.
Held == {newest, worker.frame, slot}

InOrder ==
  /\ Before(newest, worker.frame) /\ Before(newest, slot)
  /\ Before(worker.frame, slot)
  /\ slot # None => slot.seq = lastSeq

\* The client's next frame comes after every frame of its page.
Ahead == \A f \in captures \cup Held : f.page <= client.conn /\ Before(f, client)

\* Frames are on the way from the present socket and the one before it, and
\* a page does not number two alike.
Sent ==
  \A f \in captures :
    /\ f.conn \in {client.conn, client.conn - 1}
    /\ \A g \in captures : f.page = g.page /\ f # g =>
         f.seq # g.seq /\ (f.conn < g.conn => f.seq < g.seq)

\* A frame on the way comes after those the pipeline holds, or is refused.
Late ==
  \A f \in captures : \A g \in Held :
    Before(g, f) \/ (f.conn < client.conn /\ f.seq <= lastSeq)

OrderInv == InOrder /\ Ahead /\ Sent /\ Late

\* What the invariant's types say of the numbers compared.
LEMMA Numbers ==
  ASSUME Inv
  PROVE  /\ \A f \in captures : /\ f # None /\ f.page \in Nat \ {0}
                                /\ f.conn \in Nat /\ f.seq \in Nat
         /\ \A f \in Held : /\ f.page \in Nat /\ f.seq \in Nat
                            /\ f # None => f.page # None.page
         /\ client.page \in Nat \ {0} /\ client.conn \in Nat /\ client.seq \in Nat
         /\ lastSeq \in Int /\ None.page = 0 /\ client.page <= client.conn
<1>1. \A f \in Frame : /\ f # None /\ f.page \in Nat \ {0} /\ f.conn \in Nat
                       /\ f.seq \in Nat
  BY Frames, PerceptionAssumption DEF Conn
<1>2. None.page = 0 /\ None.seq = 0
  BY DEF None
<1>3. captures \subseteq Frame /\ Held \subseteq Frame \cup {None}
  BY DEF Inv, TypeOK, Held
<1>4. /\ client.page \in Nat \ {0} /\ client.conn \in Nat /\ client.seq \in Nat
      /\ lastSeq \in Int /\ client.page <= client.conn
  BY PerceptionAssumption DEF Inv, TypeOK, Numbered, Conn
<1> QED
  BY <1>1, <1>2, <1>3, <1>4

\* Nothing is held at first.
LEMMA InitOrder == Init => OrderInv
<1> SUFFICES ASSUME Init PROVE OrderInv
  OBVIOUS
<1>1. newest = None /\ slot = None /\ worker.frame = None /\ captures = {}
  BY DEF Init, At
<1>2. client.conn = 1 /\ None.page = 0
  BY DEF Init, None
<1> QED
  BY <1>1, <1>2 DEF OrderInv, InOrder, Ahead, Sent, Late, Held, Before

\* Steps that leave alone what the order is about.
LEMMA OrderKept ==
  ASSUME Inv, OrderInv,
         captures' = captures, newest' = newest, worker'.frame = worker.frame,
         slot' = slot, lastSeq' = lastSeq, client'.page = client.page,
         client'.conn = client.conn, client'.seq = client.seq
  PROVE  OrderInv'
  BY DEF OrderInv, InOrder, Ahead, Sent, Late, Held, Before

\* A frame captured comes after all of its page.
LEMMA CaptureOrder == Inv /\ OrderInv /\ Capture => OrderInv'
<1> SUFFICES ASSUME Inv, OrderInv, Capture PROVE OrderInv'
  OBVIOUS
<1>1. /\ captures' = captures \cup {client} /\ Held' = Held
      /\ newest' = newest /\ worker' = worker /\ slot' = slot /\ lastSeq' = lastSeq
      /\ client'.seq = client.seq + 1
      /\ client'.page = client.page /\ client'.conn = client.conn
  BY DEF Capture, Held, slotVars, pipelineVars, simVars, Inv, TypeOK
<1>2. /\ \A f \in captures : /\ f # None /\ f.page \in Nat \ {0}
                             /\ f.conn \in Nat /\ f.seq \in Nat
      /\ \A f \in Held : f.page \in Nat /\ f.seq \in Nat
      /\ client.page \in Nat \ {0} /\ client.conn \in Nat /\ client.seq \in Nat
      /\ client.page <= client.conn
  BY Numbers
<1>3. \A f \in captures \cup Held : f.page <= client.conn /\ Before(f, client)
  BY DEF OrderInv, Ahead
<1>4. InOrder'
  BY <1>1 DEF OrderInv, InOrder, Before
<1>5. Ahead'
  BY <1>1, <1>2, <1>3 DEF Ahead, Before
<1>6. Sent'
  <2>1. ASSUME NEW f \in captures PROVE f.conn <= client.conn
    BY <1>2 DEF OrderInv, Sent
  <2> QED BY <1>1, <1>2, <1>3, <2>1 DEF OrderInv, Sent, Before
<1>7. Late'
  BY <1>1, <1>3 DEF OrderInv, Late, Before
<1> QED
  BY <1>4, <1>5, <1>6, <1>7 DEF OrderInv

\* A frame accepted comes after all that is held; what it overtakes is of the
\* socket before.
LEMMA ArriveOrder ==
  ASSUME Inv, OrderInv, NEW f \in captures, Arrive(f)
  PROVE  OrderInv'
<1>1. /\ captures' = captures \ {f} /\ client' = client
      /\ newest' = newest /\ worker' = worker
  BY DEF Arrive, simVars
<1>2. /\ \A g \in captures : /\ g # None /\ g.page \in Nat \ {0}
                             /\ g.conn \in Nat /\ g.seq \in Nat
      /\ \A g \in Held : g.page \in Nat /\ g.seq \in Nat
      /\ client.conn \in Nat /\ lastSeq \in Int
  BY Numbers
<1>3. Sent'
  BY <1>1 DEF OrderInv, Sent
<1>4. CASE f.seq <= lastSeq
  <2>1. slot' = slot /\ lastSeq' = lastSeq /\ Held' = Held
    BY <1>1, <1>4 DEF Arrive, slotVars, Held
  <2>2. InOrder'
    BY <1>1, <2>1 DEF OrderInv, InOrder, Before
  <2>3. Ahead' /\ Late'
    BY <1>1, <2>1 DEF OrderInv, Ahead, Late, Before
  <2> QED BY <1>3, <2>2, <2>3 DEF OrderInv
<1>5. CASE f.seq > lastSeq
  <2>1. slot' = f /\ lastSeq' = f.seq
    BY <1>2, <1>5 DEF Arrive
  <2>2. Held' = {newest, worker.frame, f}
    BY <1>1, <2>1 DEF Held
  <2>3. \A g \in Held : Before(g, f)
    BY <1>2, <1>5 DEF OrderInv, Late
  <2>4. InOrder'
    BY <1>1, <2>1, <2>3 DEF OrderInv, InOrder, Held, Before
  <2>5. Ahead'
    BY <1>1, <2>2 DEF OrderInv, Ahead, Held, Before
  <2>6. ASSUME NEW h \in captures, h # f, h.page = f.page
        PROVE  f.seq < h.seq \/ (h.conn < client.conn /\ h.seq <= f.seq)
    <3>1. CASE h.conn = f.conn
      <4>1. f.seq <= h.seq
        BY <3>1 DEF Arrive, Due
      <4>2. f.seq # h.seq
        BY <2>6 DEF OrderInv, Sent
      <4> QED BY <1>2, <4>1, <4>2
    <3>2. CASE f.conn < h.conn
      BY <2>6, <3>2 DEF OrderInv, Sent
    <3>3. CASE h.conn < f.conn
      <4>1. h.seq < f.seq
        BY <2>6, <3>3 DEF OrderInv, Sent
      <4>2. f.conn <= client.conn
        BY <1>2 DEF OrderInv, Sent
      <4> QED BY <1>2, <3>3, <4>1, <4>2
    <3> QED BY <1>2, <3>1, <3>2, <3>3
  <2>7. Late'
    <3> SUFFICES ASSUME NEW h \in captures, h # f, NEW g \in Held'
                 PROVE  Before(g, h) \/ (h.conn < client.conn /\ h.seq <= f.seq)
      BY <1>1, <2>1 DEF Late, Before
    <3>1. CASE g = f
      BY <1>2, <2>6, <3>1 DEF Before
    <3>2. CASE g \in Held
      <4>1. Before(g, h) \/ (h.conn < client.conn /\ h.seq <= lastSeq)
        BY <3>2 DEF OrderInv, Late
      <4> QED BY <1>2, <1>5, <4>1
    <3> QED BY <2>2, <3>1, <3>2 DEF Held
  <2> QED BY <1>3, <2>4, <2>5, <2>7 DEF OrderInv
<1> QED
  BY <1>2, <1>4, <1>5

\* A new socket forgets the numbers; what is still on the way left the socket
\* before it in order.
LEMMA ReconnectOrder == Inv /\ OrderInv /\ Reconnect => OrderInv'
<1> SUFFICES ASSUME Inv, OrderInv, Reconnect PROVE OrderInv'
  OBVIOUS
<1>1. /\ captures' = captures /\ newest' = newest /\ worker' = worker
      /\ slot' = None /\ lastSeq' = -1
      /\ \A f \in captures : f.conn = client.conn
  BY DEF Reconnect, Join, simVars
<1>2. /\ \A f \in captures : /\ f # None /\ f.page \in Nat \ {0}
                             /\ f.conn \in Nat /\ f.seq \in Nat
      /\ \A f \in Held : /\ f.page \in Nat /\ f.seq \in Nat
                         /\ f # None => f.page # None.page
      /\ client.conn \in Nat /\ None.page = 0 /\ client.page \in Nat
  BY Numbers
<1>3. /\ client'.conn = client.conn + 1
      /\ \/ client'.page = client.page /\ client'.seq = client.seq
         \/ client'.page = client.conn + 1
  BY DEF Reconnect, Join, Inv, TypeOK
<1>4. Held' = {newest, worker.frame, None}
  BY <1>1 DEF Held
<1>5. InOrder'
  BY <1>1, <1>2 DEF OrderInv, InOrder, Held, Before
<1>6. Ahead'
  <2> SUFFICES ASSUME NEW f \in captures \cup Held'
               PROVE  f.page <= client'.conn /\ Before(f, client')
    BY <1>1 DEF Ahead, Before
  <2>1. CASE f = None
    BY <1>2, <1>3, <2>1 DEF Before
  <2>2. CASE f # None
    <3>1. f.page <= client.conn /\ Before(f, client) /\ f.page \in Nat
      BY <1>2, <1>4, <2>2 DEF OrderInv, Ahead, Held
    <3> QED BY <1>2, <1>3, <3>1 DEF Before
  <2> QED BY <2>1, <2>2
<1>7. Sent'
  BY <1>1, <1>2, <1>3 DEF OrderInv, Sent
<1>8. Late'
  <2> SUFFICES ASSUME NEW f \in captures, NEW g \in Held' PROVE Before(g, f)
    BY <1>1 DEF Late, Before
  <2>1. CASE g = None
    BY <2>1 DEF Before
  <2>2. CASE g # None
    BY <1>1, <1>2, <1>4, <2>2 DEF OrderInv, Late, Held
  <2> QED BY <2>1, <2>2
<1> QED
  BY <1>5, <1>6, <1>7, <1>8 DEF OrderInv

\* The worker's frame is the one that was in the slot, and becomes the result.
LEMMA WorkOrder == Inv /\ OrderInv /\ Work => OrderInv'
<1> SUFFICES ASSUME Inv, OrderInv, Work PROVE OrderInv'
  OBVIOUS
<1>1. captures' = captures /\ client' = client /\ lastSeq' = lastSeq
  BY DEF Work, StartJob, Take, Exit, Detected, DetectorFails, clientVars, slotVars
<1>2. /\ newest' \in Held /\ worker'.frame \in Held \cup {None}
      /\ slot' \in Held \cup {None}
  BY DEF Work, StartJob, Take, Exit, Detected, DetectorFails, At, Held, slotVars
<1>3. /\ None.page = 0 /\ client.conn \in Nat
      /\ \A f \in Held : f # None => f.page # None.page
  BY Numbers
<1>4. InOrder'
  <2>1. CASE StartJob \/ Exit
    BY <1>3, <2>1 DEF StartJob, Exit, At, slotVars, OrderInv, InOrder, Held, Before
  <2>2. CASE Take
    BY <1>3, <2>2 DEF Take, At, OrderInv, InOrder, Held, Before
  <2>3. CASE Detected \/ DetectorFails
    BY <1>3, <2>3
    DEF Detected, DetectorFails, At, slotVars, OrderInv, InOrder, Held, Before
  <2> QED BY <2>1, <2>2, <2>3 DEF Work
<1>5. Ahead'
  BY <1>1, <1>2, <1>3 DEF OrderInv, Ahead, Held, Before
<1>6. Sent'
  BY <1>1 DEF OrderInv, Sent
<1>7. Late'
  BY <1>1, <1>2 DEF OrderInv, Late, Held, Before
<1> QED
  BY <1>4, <1>5, <1>6, <1>7 DEF OrderInv

LEMMA OrderStep == Inv /\ OrderInv /\ [Next]_vars => OrderInv'
<1> SUFFICES ASSUME Inv, OrderInv, [Next]_vars PROVE OrderInv'
  OBVIOUS
<1>1. CASE ShowScene
  <2>1. /\ client'.page = client.page /\ client'.conn = client.conn
        /\ client'.seq = client.seq
    BY <1>1 DEF ShowScene, Inv, TypeOK
  <2> QED BY <1>1, <2>1, OrderKept DEF ShowScene, slotVars, pipelineVars
<1>2. CASE EnsureWorker \/ ForgetLatest
  BY <1>2, OrderKept DEF EnsureWorker, ForgetLatest, clientVars, slotVars
<1>3. CASE Observe \/ Swap
  BY <1>3, OrderKept DEF Observe, Swap, clientVars, slotVars, pipelineVars
<1>4. CASE UNCHANGED vars
  BY <1>4, OrderKept DEF vars, clientVars, slotVars, pipelineVars
<1> QED
  BY <1>1, <1>2, <1>3, <1>4, CaptureOrder, ArriveOrder, ReconnectOrder, WorkOrder
  DEF Next

\* Results of one page load never go back in time, whatever the interleaving of
\* two sockets of the page, resets, the worker and detections that fail.
THEOREM ResultsOnlyForward == Spec => ResultsForward
<1>1. Inv /\ OrderInv /\ [Next]_vars =>
        (newest' # newest /\ newest # None /\ newest'.page = newest.page
           => newest.seq < newest'.seq)
  <2> SUFFICES ASSUME Inv, OrderInv, [Next]_vars, newest' # newest, newest # None,
                      newest'.page = newest.page
               PROVE  newest.seq < newest'.seq
    OBVIOUS
  <2>1. newest' = worker.frame
    BY DEF Next, Capture, ShowScene, Arrive, EnsureWorker, Reconnect, ForgetLatest,
           Work, StartJob, Take, Exit, Detected, DetectorFails, Observe, Swap,
           vars, pipelineVars
  <2> QED BY <2>1 DEF OrderInv, InOrder, Before
<1>2. Spec => [](Inv /\ OrderInv)
  BY InitInv, InitOrder, Invariant, OrderStep, PTL DEF Spec
<1> QED
  BY <1>1, <1>2, PTL DEF Spec, ResultsForward
=============================================================================
