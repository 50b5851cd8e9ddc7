---------------------------- MODULE SimLoopProofs ----------------------------
(***************************************************************************)
(* Theorems about SimLoop: its types, the delivery of events, the order of *)
(* builds, that no request is lost, and that no frame overtakes its scene. *)
(***************************************************************************)
EXTENDS SimLoop, SequenceTheorems, TLAPS

-----------------------------------------------------------------------------
(* Types. *)

\* A connection that changes to a connection keeps the types.
LEMMA BecomesTyped ==
  ASSUME TypeOK, NEW c \in Conn, NEW r \in Connection, Becomes(c, r)
  PROVE  TypeOK'
BY DEF Becomes, LoopKeeps, TypeOK

\* A connection nobody uses is a connection.
LEMMA GoneTyped == Gone \in Connection
BY DEF Gone, Connection

\* events_since returns the numbers from its start on, without a gap.
LEMMA FreshTyped ==
  ASSUME TypeOK, NEW c \in Conn
  PROVE  /\ Fresh(c) \in Seq(Nat)
         /\ \E from \in Nat :
              /\ Fresh(c) = [i \in 1 .. Len(recorded) - from |-> from + i]
              /\ from >= conn[c].cursor
              /\ Len(recorded) - conn[c].cursor <= LogMax => from = conn[c].cursor
<1> DEFINE oldest == IF Len(recorded) > LogMax THEN Len(recorded) - LogMax ELSE 0
           start  == IF conn[c].cursor > oldest THEN conn[c].cursor ELSE oldest
<1>1. conn[c].cursor \in Nat /\ Len(recorded) \in Nat /\ LogMax \in Nat
  BY SimLoopAssumption DEF TypeOK, Connection
<1>2. start \in Nat /\ start >= conn[c].cursor
  BY <1>1
<1>3. Len(recorded) - conn[c].cursor <= LogMax => start = conn[c].cursor
  BY <1>1
<1>4. Fresh(c) = [i \in 1 .. Len(recorded) - start |-> start + i]
  BY DEF Fresh
<1>5. Fresh(c) \in Seq(Nat)
  BY <1>1, <1>2, <1>4
<1> QED
  BY <1>2, <1>3, <1>4, <1>5

LEMMA InitTyped == Init => TypeOK
BY SimLoopAssumption, GoneTyped DEF Init, TypeOK, Cmd, World, Idle, None

\* The thread and the builder keep the types.
LEMMA ThreadTyped == TypeOK /\ Thread => TypeOK'
<1> SUFFICES ASSUME TypeOK, Thread PROVE TypeOK'
  OBVIOUS
<1>1. CASE DrainCommand
  <2>1. PICK k \in Cmd : k = Head(commands) /\ Tail(commands) \in Seq(Cmd)
    BY <1>1 DEF DrainCommand, TypeOK
  <2>2. k \in World /\ \A code \in {"requested", "loaded"} : Ev(code, k) \in Event
    BY SimLoopAssumption DEF Cmd, World, Ev, Event
  <2>2a. Apply(k)
    BY <1>1, <2>1 DEF DrainCommand
  <2>2b. /\ builds' \in Seq(Cmd) /\ raised' \in Seq(Event)
         /\ scene' \in World /\ worlds' \in Seq(World)
    <3>1. CASE LoadLocation(k)
      BY <2>2, <3>1 DEF LoadLocation, TypeOK
    <3>2. CASE LoadScenario(k) /\ sent[k] = "load_scenario"
      <4>1. scene' = k /\ worlds' = Append(worlds, k) /\ builds' = builds
            /\ raised' = Append(raised, Ev("loaded", k))
        BY <3>2 DEF LoadScenario
      <4> QED
        BY <2>2, <4>1 DEF TypeOK
    <3>3. CASE LoadScenario(k) /\ sent[k] # "load_scenario"
      BY <3>3 DEF LoadScenario, TypeOK
    <3> QED
      BY <2>2a, <3>1, <3>2, <3>3 DEF Apply
  <2>3. future' \in [Cmd -> {"waiting", "cancelled", "done"}]
    BY <1>1, <2>1 DEF DrainCommand, Delivered, TypeOK
  <2> QED
    BY <1>1, <2>1, <2>2b, <2>3 DEF DrainCommand, TypeOK
<1>2. CASE NoMoreCommands
  BY <1>2 DEF NoMoreCommands, TypeOK
<1>3. CASE DrainEvents
  BY <1>3 DEF DrainEvents, TypeOK
<1>4. CASE NothingPending
  BY <1>4 DEF NothingPending, TypeOK
<1>5. CASE AdoptPending
  <2>1. pending \in World
    BY <1>5, SimLoopAssumption DEF AdoptPending, TypeOK, Cmd, World
  <2> QED
    BY <1>5, <2>1 DEF AdoptPending, TypeOK
<1>6. CASE BumpEpoch
  BY <1>6 DEF BumpEpoch, TypeOK
<1>7. CASE StepWorld
  BY <1>7 DEF StepWorld, TypeOK
<1>8. CASE Publish
  BY <1>8 DEF Publish, TypeOK
<1> QED
  BY <1>1, <1>2, <1>3, <1>4, <1>5, <1>6, <1>7, <1>8 DEF Thread

LEMMA BuilderTyped == TypeOK /\ Builder => TypeOK'
<1> SUFFICES ASSUME TypeOK, Builder PROVE TypeOK'
  OBVIOUS
<1>1. CASE StartBuild
  <2>1. Head(builds) \in Cmd /\ Tail(builds) \in Seq(Cmd)
    BY <1>1 DEF StartBuild, TypeOK
  <2> QED
    BY <1>1, <2>1 DEF StartBuild, BuilderKeeps, TypeOK
<1>2. CASE BuildFails
  <2>1. Ev("failed", worker.build) \in Event
    BY <1>2 DEF BuildFails, TypeOK, Ev, Event
  <2> QED
    BY <1>2, <2>1 DEF BuildFails, BuilderKeeps, TypeOK, Idle
<1>3. CASE BuildReturns
  <2>1. Ev("note", worker.build) \in Event
    BY <1>3 DEF BuildReturns, TypeOK, Ev, Event
  <2>2. evq' \in Seq(Event)
    <3>1. PICK e \in Event : evq' = evq \/ evq' = Append(evq, e)
      BY <1>3, <2>1 DEF BuildReturns
    <3>2. evq \in Seq(Event)
      BY DEF TypeOK
    <3> QED
      BY <3>1, <3>2
  <2>3. worker' \in [build : Cmd \cup {None}, done : BOOLEAN]
    BY <1>3 DEF BuildReturns, TypeOK
  <2> QED
    BY <1>3, <2>2, <2>3 DEF BuildReturns, BuilderKeeps, TypeOK
<1>4. CASE OfferScene
  BY <1>4 DEF OfferScene, BuilderKeeps, TypeOK, Idle
<1> QED
  BY <1>1, <1>2, <1>3, <1>4 DEF Builder

LEMMA ClientTyped ==
  ASSUME TypeOK, NEW c \in Conn, Client(c) PROVE TypeOK'
<1>0. conn[c] \in Connection
  BY DEF TypeOK
<1>a. Len(recorded) \in Nat
  BY DEF TypeOK
<1>1. CASE Connect(c)
  <2>1. [Gone EXCEPT !.at = "cursor", !.sentEpoch = epoch] \in Connection
    BY GoneTyped DEF TypeOK, Connection
  <2> QED
    BY <1>1, <2>1, BecomesTyped DEF Connect
<1>2. CASE StartCursor(c)
  <2>1. [conn[c] EXCEPT !.at = "scene", !.cursor = Len(recorded),
                        !.joined = Len(recorded)] \in Connection
    BY <1>0, <1>a DEF Connection
  <2> QED
    BY <1>2, <2>1, BecomesTyped DEF StartCursor
<1>3. CASE SendFirstScene(c)
  BY <1>0, <1>3, BecomesTyped DEF SendFirstScene, TypeOK, Connection
<1>4. CASE Snapshot(c)
  <2> DEFINE r == [conn[c] EXCEPT
                     !.stream = IF epoch # conn[c].sentEpoch THEN "push" ELSE "frame",
                     !.snapEpoch = IF epoch # conn[c].sentEpoch THEN epoch ELSE 0,
                     !.snapFrame = latest]
  <2>1. r \in Connection
    BY <1>0 DEF TypeOK, Connection
  <2> QED
    BY <1>4, <2>1, BecomesTyped DEF Snapshot
<1>5. CASE PushScene(c)
  BY <1>0, <1>5, BecomesTyped DEF PushScene, TypeOK, Connection
<1>6. CASE SendFrame(c)
  <2>1. conn[c].heard \o Fresh(c) \in Seq(Nat)
    BY <1>0, FreshTyped, ConcatProperties DEF Connection
  <2> QED
    BY <1>0, <1>a, <1>6, <2>1, BecomesTyped DEF SendFrame, Connection
<1>7. CASE SkipFrame(c)
  BY <1>0, <1>7, BecomesTyped DEF SkipFrame, TypeOK, Connection
<1>8. ASSUME NEW kind \in Kinds, Submit(c, kind) PROVE TypeOK'
  <2>1. Len(sent) + 1 \in Cmd
    BY <1>8, SimLoopAssumption DEF Submit, TypeOK, Cmd
  <2>2. [conn EXCEPT ![c].awaits = Len(sent) + 1] \in [Conn -> Connection]
    BY <1>0, <2>1 DEF TypeOK, Connection
  <2>3. sent' \in Seq(Kinds) /\ Len(sent') <= MaxCmd
    BY <1>8, SimLoopAssumption DEF Submit, TypeOK
  <2>4. commands' \in Seq(Cmd)
    BY <1>8, <2>1 DEF Submit, TypeOK
  <2> QED
    BY <1>8, <2>2, <2>3, <2>4 DEF Submit, TypeOK
<1>9. CASE Reply(c)
  <2>1. conn[c].awaits \in World
    BY <1>0, <1>9, SimLoopAssumption DEF Reply, Connection, Cmd, World
  <2> QED
    BY <1>0, <1>9, <2>1, BecomesTyped DEF Reply, Connection
<1>10. CASE TimeOut(c)
  BY <1>0, <1>10 DEF TimeOut, Abandoned, LoopKeeps, TypeOK, Connection
<1>11. CASE Disconnect(c)
  BY <1>11, GoneTyped DEF Disconnect, Abandoned, LoopKeeps, TypeOK
<1> QED
  BY <1>1, <1>2, <1>3, <1>4, <1>5, <1>6, <1>7, <1>8, <1>9, <1>10, <1>11 DEF Client

LEMMA NextTyped == TypeOK /\ [Next]_vars => TypeOK'
<1>1. TypeOK /\ UNCHANGED vars => TypeOK'
  BY DEF vars, TypeOK
<1> QED
  BY <1>1, ThreadTyped, BuilderTyped, ClientTyped DEF Next

\* The variables of the loop, its worker and its connections keep their types.
THEOREM TypeCorrect == Spec => []TypeOK
BY InitTyped, NextTyped, PTL DEF Spec
-----------------------------------------------------------------------------
(* Events. *)

\* What r has heard, of the events recorded: none past its cursor, each once
\* and in order, and all of them unless the log overflowed since it joined.
FeedOf(r, n) ==
  /\ r.joined <= r.cursor /\ r.cursor <= n
  /\ \A i \in 1 .. Len(r.heard) : r.heard[i] <= r.cursor
  /\ \A i \in 1 .. Len(r.heard) - 1 : r.heard[i] < r.heard[i + 1]
  /\ n - r.joined <= LogMax =>
       r.heard = [i \in 1 .. r.cursor - r.joined |-> r.joined + i]

\* A connection that has not started its cursor has heard nothing.
Feed ==
  \A c \in Conn :
    /\ FeedOf(conn[c], Len(recorded))
    /\ conn[c].at = "cursor" => conn[c].heard = <<>>

\* The length of a sequence whose domain is a range.
LEMMA LengthOfRange ==
  ASSUME NEW a \in Int, NEW b \in Nat, 1 .. a = 1 .. b
  PROVE  b = IF a >= 0 THEN a ELSE 0
<1>1. b > 0 => b \in 1 .. a
  OBVIOUS
<1>2. a > 0 => a \in 1 .. b
  OBVIOUS
<1> QED
  BY <1>1, <1>2

\* A connection that has heard nothing yet.
LEMMA FeedStarts ==
  ASSUME NEW n \in Nat, NEW r \in Connection,
         r.heard = <<>>, r.joined = r.cursor, r.cursor <= n
  PROVE  FeedOf(r, n)
<1>1. [i \in 1 .. r.cursor - r.joined |-> r.joined + i] = <<>>
  BY DEF Connection
<1> QED
  BY <1>1 DEF FeedOf, Connection

\* More events alone change nothing.
LEMMA FeedGrows ==
  ASSUME NEW m \in Nat, NEW n \in Nat, m <= n, NEW r \in Connection, FeedOf(r, m)
  PROVE  FeedOf(r, n)
BY SimLoopAssumption DEF FeedOf, Connection

\* Nor does a step that leaves the feed of a connection alone.
LEMMA FeedKept ==
  ASSUME NEW n \in Nat, NEW r \in Connection, FeedOf(r, n), NEW s,
         s.heard = r.heard, s.cursor = r.cursor, s.joined = r.joined
  PROVE  FeedOf(s, n)
BY DEF FeedOf

\* Catching up: the events since the cursor, as far as the log still has them.
LEMMA FeedCatchesUp ==
  ASSUME TypeOK, NEW c \in Conn, FeedOf(conn[c], Len(recorded)), NEW s,
         s.heard = conn[c].heard \o Fresh(c), s.cursor = Len(recorded),
         s.joined = conn[c].joined
  PROVE  FeedOf(s, Len(recorded))
<1> DEFINE n == Len(recorded)
           h == conn[c].heard
           j == conn[c].joined
           k == conn[c].cursor
<1>1. /\ n \in Nat /\ h \in Seq(Nat) /\ j \in Nat /\ k \in Nat
      /\ LogMax \in Nat
  BY SimLoopAssumption DEF TypeOK, Connection
<1>2. /\ j <= k /\ k <= n
      /\ \A i \in 1 .. Len(h) : h[i] <= k
      /\ \A i \in 1 .. Len(h) - 1 : h[i] < h[i + 1]
      /\ n - j <= LogMax => h = [i \in 1 .. k - j |-> j + i]
  BY DEF FeedOf
<1>3. Fresh(c) \in Seq(Nat)
  BY FreshTyped
<1>4. PICK from \in Nat :
        /\ Fresh(c) = [i \in 1 .. n - from |-> from + i]
        /\ from >= k
        /\ n - k <= LogMax => from = k
  BY FreshTyped
<1> DEFINE f == Fresh(c)
           t == h \o f
<1>5. /\ Len(f) = IF n >= from THEN n - from ELSE 0
      /\ \A i \in 1 .. Len(f) : f[i] = from + i /\ from + i <= n
  <2>1. DOMAIN f = 1 .. Len(f) /\ Len(f) \in Nat
    BY <1>3, LenProperties
  <2>2. f = [i \in 1 .. n - from |-> from + i]
    BY <1>4
  <2> HIDE DEF f, n
  <2>3. DOMAIN f = 1 .. n - from
    BY <2>2
  <2>4. Len(f) = IF n >= from THEN n - from ELSE 0
    <3>0. 1 .. n - from = 1 .. Len(f)
      BY <2>1, <2>3, Zenon
    <3>1. n - from \in Int
      BY <1>1, <1>4
    <3>2. Len(f) = IF n - from >= 0 THEN n - from ELSE 0
      BY <2>1, <3>0, <3>1, LengthOfRange
    <3> QED
      BY <1>1, <1>4, <3>2
  <2>5. ASSUME NEW i \in 1 .. Len(f) PROVE f[i] = from + i /\ from + i <= n
    <3>1. i \in 1 .. n - from
      BY <2>1, <2>3
    <3> QED
      BY <1>1, <1>4, <2>2, <3>1
  <2> QED
    BY <2>4, <2>5
<1> HIDE DEF f
<1>6. /\ t \in Seq(Nat) /\ Len(t) = Len(h) + Len(f)
      /\ \A i \in 1 .. Len(h) + Len(f) :
           t[i] = IF i <= Len(h) THEN h[i] ELSE f[i - Len(h)]
  BY <1>1, <1>3, ConcatProperties DEF f
<1> HIDE DEF t, h, j, k, n
<1>7. Len(h) \in Nat /\ Len(f) \in Nat
  BY <1>1, <1>3, <1>5
<1>8. \A i \in 1 .. Len(t) : t[i] <= n
  <2> SUFFICES ASSUME NEW i \in 1 .. Len(t) PROVE t[i] <= n
    OBVIOUS
  <2>1. CASE i <= Len(h)
    <3>1. t[i] = h[i] /\ i \in 1 .. Len(h)
      BY <1>6, <1>7, <2>1
    <3>2. h[i] <= k /\ h[i] \in Nat
      BY <1>1, <1>2, <3>1
    <3> QED
      BY <1>1, <1>2, <3>1, <3>2
  <2>2. CASE ~(i <= Len(h))
    <3>1. i \in 1 .. Len(h) + Len(f) /\ i - Len(h) \in 1 .. Len(f)
      BY <1>6, <1>7, <2>2
    <3>2. t[i] = f[i - Len(h)]
      BY <1>6, <2>2, <3>1
    <3> QED
      BY <1>5, <3>1, <3>2
  <2> QED
    BY <2>1, <2>2
<1>9. \A i \in 1 .. Len(t) - 1 : t[i] < t[i + 1]
  <2> SUFFICES ASSUME NEW i \in 1 .. Len(t) - 1 PROVE t[i] < t[i + 1]
    OBVIOUS
  <2>0. i \in 1 .. Len(h) + Len(f) /\ i + 1 \in 1 .. Len(h) + Len(f)
    BY <1>6, <1>7
  <2>1. CASE i + 1 <= Len(h)
    <3>1. i \in 1 .. Len(h) - 1 /\ i <= Len(h)
      BY <1>7, <2>1
    <3> QED
      BY <1>2, <1>6, <2>0, <2>1, <3>1
  <2>2. CASE i = Len(h)
    <3>0. /\ i \in 1 .. Len(h) /\ 1 \in 1 .. Len(f)
          /\ ~(i + 1 <= Len(h)) /\ i + 1 - Len(h) = 1
      BY <1>7, <2>0, <2>2
    <3>1. t[i] = h[i] /\ t[i + 1] = f[1]
      BY <1>6, <2>0, <3>0
    <3>2. h[i] <= k /\ h[i] \in Nat /\ f[1] = from + 1
      BY <1>1, <1>2, <1>5, <3>0
    <3> QED
      BY <1>1, <1>4, <3>1, <3>2
  <2>3. CASE i > Len(h)
    <3>0. /\ i - Len(h) \in 1 .. Len(f) /\ i + 1 - Len(h) \in 1 .. Len(f)
          /\ ~(i <= Len(h)) /\ ~(i + 1 <= Len(h))
      BY <1>7, <2>0, <2>3
    <3>1. t[i] = f[i - Len(h)]
      BY <1>6, <2>0, <3>0
    <3>1a. t[i + 1] = f[i + 1 - Len(h)]
      BY <1>6, <2>0, <3>0
    <3>2. f[i - Len(h)] = from + (i - Len(h)) /\ f[i + 1 - Len(h)] = from + (i + 1 - Len(h))
      BY <1>5, <3>0
    <3> QED
      BY <1>7, <3>1, <3>1a, <3>2
  <2> QED
    BY <1>7, <2>1, <2>2, <2>3
<1>10. ASSUME n - j <= LogMax PROVE t = [i \in 1 .. n - j |-> j + i]
  <2>1. /\ h = [i \in 1 .. k - j |-> j + i] /\ from = k
    BY <1>1, <1>2, <1>4, <1>10
  <2>2. Len(h) = k - j /\ Len(f) = n - k
    <3>1. DOMAIN h = 1 .. k - j /\ DOMAIN h = 1 .. Len(h)
      BY <1>1, <2>1
    <3> QED
      BY <1>1, <1>2, <1>5, <1>7, <2>1, <3>1
  <2>3. Len(t) = n - j /\ DOMAIN t = 1 .. n - j
    BY <1>1, <1>6, <2>2
  <2>4. ASSUME NEW i \in 1 .. n - j PROVE t[i] = j + i
    <3>1. CASE i <= Len(h)
      <4>1. t[i] = h[i] /\ i \in 1 .. k - j
        BY <1>1, <1>2, <1>6, <2>2, <3>1
      <4> QED
        BY <2>1, <4>1
    <3>2. CASE ~(i <= Len(h))
      <4>1. t[i] = f[i - Len(h)] /\ i - Len(h) \in 1 .. Len(f)
        BY <1>1, <1>2, <1>6, <2>2, <3>2
      <4> QED
        BY <1>1, <1>5, <2>1, <2>2, <4>1
    <3> QED
      BY <3>1, <3>2
  <2> QED
    BY <1>6, <2>3, <2>4
<1>11. s.heard = t /\ s.cursor = n /\ s.joined = j /\ Len(recorded) = n
  BY DEF t, f, h, j, n
<1>12. j <= n /\ n <= n
  BY <1>1, <1>2
<1> QED
  BY <1>8, <1>9, <1>10, <1>11, <1>12 DEF FeedOf

\* One connection changes.
LEMMA FeedBecomes ==
  ASSUME TypeOK, Feed, NEW c \in Conn, NEW r, FeedOf(r, Len(recorded)),
         r.at = "cursor" => r.heard = <<>>,
         conn' = [conn EXCEPT ![c] = r], UNCHANGED recorded
  PROVE  Feed'
BY DEF Feed, TypeOK

\* The simulation only records more; a connection starts at the end of the log,
\* catches up when it sends a frame, and leaves its feed alone otherwise.
LEMMA FeedStep == TypeOK /\ Feed /\ [Next]_vars => Feed'
<1> SUFFICES ASSUME TypeOK, Feed, [Next]_vars PROVE Feed'
  OBVIOUS
<1>1. CASE UNCHANGED vars
  BY <1>1 DEF vars, Feed
<1>2. CASE Builder
  BY <1>2 DEF Builder, StartBuild, BuildFails, BuildReturns, OfferScene,
              BuilderKeeps, Feed
<1>3. CASE Thread
  <2>1. UNCHANGED conn
    BY <1>3 DEF Thread, DrainCommand, NoMoreCommands, DrainEvents, NothingPending,
                AdoptPending, BumpEpoch, StepWorld, Publish
  <2>2. UNCHANGED recorded \/ recorded' = recorded \o raised
    BY <1>3 DEF Thread, DrainCommand, NoMoreCommands, DrainEvents, NothingPending,
                AdoptPending, BumpEpoch, StepWorld, Publish
  <2>3. Len(recorded) \in Nat /\ Len(recorded') \in Nat /\ Len(recorded) <= Len(recorded')
    <3>1. recorded \in Seq(Event) /\ raised \in Seq(Event)
      BY DEF TypeOK
    <3>2. /\ Len(recorded) \in Nat /\ Len(raised) \in Nat
          /\ Len(recorded \o raised) = Len(recorded) + Len(raised)
      BY <3>1, ConcatProperties, LenProperties
    <3> QED
      BY <2>2, <3>2
  <2>4. ASSUME NEW c \in Conn PROVE FeedOf(conn'[c], Len(recorded'))
    <3>1. conn[c] \in Connection /\ FeedOf(conn[c], Len(recorded))
      BY DEF TypeOK, Feed
    <3>2. FeedOf(conn[c], Len(recorded'))
      BY <2>3, <3>1, FeedGrows
    <3> QED
      BY <2>1, <3>2
  <2> QED
    BY <2>1, <2>4 DEF Feed
<1>4. ASSUME NEW c \in Conn, Client(c) PROVE Feed'
  <2> DEFINE n == Len(recorded)
  <2>1. conn[c] \in Connection /\ FeedOf(conn[c], n) /\ n \in Nat
    BY DEF TypeOK, Feed
  <2>2. UNCHANGED recorded
    BY <1>4 DEF Client, Connect, StartCursor, SendFirstScene, Snapshot, PushScene,
                SendFrame, SkipFrame, Submit, Reply, TimeOut, Disconnect, Becomes, LoopKeeps
  <2>3. FeedOf(Gone, n)
    BY <2>1, GoneTyped, FeedStarts DEF Gone
  <2>4. ASSUME NEW r, conn' = [conn EXCEPT ![c] = r], r.heard = conn[c].heard,
               r.cursor = conn[c].cursor, r.joined = conn[c].joined,
               r.at \in {conn[c].at, "live"}
        PROVE  Feed'
    <3>1. FeedOf(r, n)
      BY <2>1, <2>4, FeedKept
    <3>2. r.at = "cursor" => r.heard = <<>>
      BY <2>4 DEF Feed
    <3> QED
      BY <2>2, <2>4, <3>1, <3>2, FeedBecomes
  <2>5. CASE Connect(c)
    <3> DEFINE r == [Gone EXCEPT !.at = "cursor", !.sentEpoch = epoch]
    <3>1. /\ r.heard = <<>> /\ r.cursor = 0 /\ r.joined = 0
          /\ Gone.heard = <<>> /\ Gone.cursor = 0 /\ Gone.joined = 0
      BY DEF Gone
    <3>3. conn' = [conn EXCEPT ![c] = r]
      BY <2>5 DEF Connect, Becomes
    <3> HIDE DEF r
    <3>2. FeedOf(r, n)
      <4>1. r.heard = Gone.heard /\ r.cursor = Gone.cursor /\ r.joined = Gone.joined
        BY <3>1
      <4> HIDE DEF n
      <4> QED
        BY <2>1, <2>3, <4>1, GoneTyped, FeedKept
    <3> QED
      BY <2>2, <3>1, <3>2, <3>3, FeedBecomes
  <2>6. CASE StartCursor(c)
    <3> DEFINE r == [conn[c] EXCEPT !.at = "scene", !.cursor = n, !.joined = n]
    <3>1. /\ r.heard = <<>> /\ r.cursor = n /\ r.joined = n /\ r.at = "scene"
          /\ r \in Connection
      BY <2>1, <2>6 DEF StartCursor, Feed, Connection
    <3>3. conn' = [conn EXCEPT ![c] = r]
      BY <2>6 DEF StartCursor, Becomes
    <3>4. n \in Nat /\ n <= n
      BY <2>1
    <3> HIDE DEF r, n
    <3>2. FeedOf(r, n)
      BY <3>1, <3>4, FeedStarts
    <3> USE DEF n
    <3> QED
      BY <2>2, <3>1, <3>2, <3>3, FeedBecomes
  <2>7. CASE SendFirstScene(c) \/ Snapshot(c) \/ PushScene(c) \/ SkipFrame(c) \/ Reply(c)
    BY <2>1, <2>4, <2>7 DEF SendFirstScene, Snapshot, PushScene, SkipFrame, Reply,
                            Becomes, Connection
  <2>8. CASE SendFrame(c)
    <3> DEFINE r == [conn[c] EXCEPT
                       !.stream = "poll", !.snapFrame = None, !.shown = conn[c].snapFrame,
                       !.cursor = n, !.heard = conn[c].heard \o Fresh(c)]
    <3>1. /\ r.heard = conn[c].heard \o Fresh(c)
          /\ r.cursor = n /\ r.joined = conn[c].joined /\ r.at = "live"
      BY <2>1, <2>8 DEF SendFrame, Streaming, Connection
    <3>2. FeedOf(r, n)
      BY <2>1, <3>1, FeedCatchesUp
    <3>3. conn' = [conn EXCEPT ![c] = r]
      BY <2>8 DEF SendFrame, Becomes
    <3> QED
      BY <2>2, <3>1, <3>2, <3>3, FeedBecomes
  <2>9. ASSUME NEW kind \in Kinds, Submit(c, kind) PROVE Feed'
    <3> DEFINE r == [conn[c] EXCEPT !.awaits = Len(sent) + 1]
    <3>1. conn' = [conn EXCEPT ![c] = r]
      BY <2>9 DEF Submit
    <3> QED
      BY <2>1, <2>4, <3>1 DEF Connection
  <2>10. CASE TimeOut(c)
    <3> DEFINE r == [conn[c] EXCEPT !.awaits = None]
    <3>1. conn' = [conn EXCEPT ![c] = r]
      BY <2>10 DEF TimeOut
    <3> QED
      BY <2>1, <2>4, <3>1 DEF Connection
  <2>11. CASE Disconnect(c)
    <3>1. conn' = [conn EXCEPT ![c] = Gone]
      BY <2>11 DEF Disconnect
    <3> QED
      BY <2>2, <2>3, <3>1, FeedBecomes DEF Gone
  <2> QED
    BY <1>4, <2>5, <2>6, <2>7, <2>8, <2>9, <2>10, <2>11 DEF Client
<1> QED
  BY <1>1, <1>2, <1>3, <1>4 DEF Next

\* Every event reaches a client once and in order, and all of them unless the
\* log overflows, for any log, any clients and any mix of commands.
THEOREM EventsAlwaysOnce == Spec => []EventsOnce
<1>1. Init => Feed
  <2> SUFFICES ASSUME Init PROVE Feed
    OBVIOUS
  <2>1. Len(recorded) = 0 /\ \A c \in Conn : conn[c] = Gone
    BY DEF Init
  <2>2. FeedOf(Gone, 0)
    BY GoneTyped, FeedStarts DEF Gone
  <2> QED
    BY <2>1, <2>2 DEF Feed, Gone
<1>2. Feed => EventsOnce
  BY DEF Feed, FeedOf, EventsOnce
<1> QED
  BY <1>1, <1>2, InitTyped, NextTyped, FeedStep, PTL DEF Spec

-----------------------------------------------------------------------------
(* Builds. *)

\* The commands among s that asked for a location.
Locations(s) == {k \in 1 .. Len(s) : s[k] = "load_location"}

\* k is older than everything in q.
Ahead(k, q) == \A m \in ToSet(q) : k < m

Increasing(q) == \A i, j \in 1 .. Len(q) : i < j => q[i] < q[j]

\* From world 0 on, worlds adopted once each, those of L in the order of their
\* commands.
Adopted(q, L) ==
  /\ 1 \in 1 .. Len(q) /\ q[1] = 0
  /\ \A i, j \in 1 .. Len(q) : i < j =>
       /\ q[i] # q[j]
       /\ q[i] \in L /\ q[j] \in L => q[i] < q[j]

\* On their way from the queue of commands to a world the requests stay in the
\* order they were sent.
Order ==
  /\ Increasing(commands) /\ ToSet(commands) \subseteq 1 .. Len(sent)
  /\ Increasing(builds)
  /\ \A b \in ToSet(builds) : b \in Locations(sent) /\ Ahead(b, commands)
  /\ worker.build # None =>
       /\ worker.build \in Locations(sent)
       /\ Ahead(worker.build, commands) /\ Ahead(worker.build, builds)
  /\ pending # None =>
       /\ pending \in Locations(sent)
       /\ Ahead(pending, commands) /\ Ahead(pending, builds)
       /\ worker.build # None => pending < worker.build
  /\ \A w \in ToSet(worlds) :
       /\ w <= Len(sent) /\ Ahead(w, commands)
       /\ w \in Locations(sent) =>
            /\ Ahead(w, builds)
            /\ worker.build # None => w < worker.build
            /\ pending # None => w < pending
  /\ Adopted(worlds, Locations(sent))

\* A worker that has finished has finished a build.
DoneBuilds == worker.done => worker.build # None

\* What Append and Tail do to the elements and the order of a queue.
LEMMA Enqueued ==
  ASSUME NEW q \in Seq(Nat), NEW n \in Nat
  PROVE  /\ ToSet(Append(q, n)) = ToSet(q) \cup {n}
         /\ \A k : Ahead(k, q) /\ k < n => Ahead(k, Append(q, n))
         /\ Increasing(q) /\ (\A m \in ToSet(q) : m < n) => Increasing(Append(q, n))
<1>1. /\ Len(q) \in Nat /\ Len(Append(q, n)) = Len(q) + 1
      /\ DOMAIN q = 1 .. Len(q) /\ DOMAIN Append(q, n) = 1 .. Len(q) + 1
      /\ \A i \in 1 .. Len(q) : Append(q, n)[i] = q[i] /\ q[i] \in Nat
      /\ Append(q, n)[Len(q) + 1] = n
  OBVIOUS
<1>2. ToSet(Append(q, n)) = ToSet(q) \cup {n}
  <2>1. ToSet(Append(q, n)) \subseteq ToSet(q) \cup {n}
    <3> SUFFICES ASSUME NEW i \in 1 .. Len(q) + 1
                 PROVE  Append(q, n)[i] \in ToSet(q) \cup {n}
      BY <1>1 DEF ToSet
    <3>1. i = Len(q) + 1 \/ i \in 1 .. Len(q)
      BY <1>1
    <3> QED
      BY <1>1, <3>1 DEF ToSet
  <2>2. ToSet(q) \subseteq ToSet(Append(q, n))
    <3> SUFFICES ASSUME NEW i \in 1 .. Len(q) PROVE q[i] \in ToSet(Append(q, n))
      BY <1>1 DEF ToSet
    <3>1. i \in 1 .. Len(q) + 1 /\ Append(q, n)[i] = q[i]
      BY <1>1
    <3> QED
      BY <1>1, <3>1 DEF ToSet
  <2>3. n \in ToSet(Append(q, n))
    <3>1. Len(q) + 1 \in 1 .. Len(q) + 1
      BY <1>1
    <3> QED
      BY <1>1, <3>1 DEF ToSet
  <2> QED
    BY <2>1, <2>2, <2>3
<1>3. ASSUME Increasing(q), \A m \in ToSet(q) : m < n PROVE Increasing(Append(q, n))
  <2>1. \A i \in 1 .. Len(q) : q[i] < n
    BY <1>1, <1>3 DEF ToSet
  <2> QED
    BY <1>1, <1>3, <2>1 DEF Increasing
<1> QED
  BY <1>2, <1>3 DEF Ahead

LEMMA Dequeued ==
  ASSUME NEW q \in Seq(Nat), q # <<>>
  PROVE  /\ Head(q) \in ToSet(q) /\ Tail(q) \in Seq(Nat)
         /\ ToSet(Tail(q)) \subseteq ToSet(q)
         /\ \A k : Ahead(k, q) => Ahead(k, Tail(q))
         /\ Increasing(q) => Increasing(Tail(q)) /\ Ahead(Head(q), Tail(q))
<1>1. /\ Len(q) \in Nat \ {0} /\ Tail(q) \in Seq(Nat) /\ Len(Tail(q)) = Len(q) - 1
      /\ DOMAIN q = 1 .. Len(q) /\ DOMAIN Tail(q) = 1 .. Len(q) - 1
      /\ \A i \in 1 .. Len(q) - 1 : Tail(q)[i] = q[i + 1] /\ i + 1 \in 1 .. Len(q)
      /\ \A i \in 1 .. Len(q) : q[i] \in Nat
      /\ Head(q) = q[1] /\ 1 \in 1 .. Len(q)
  BY HeadTailProperties, EmptySeq
<1>2. ToSet(Tail(q)) \subseteq ToSet(q)
  BY <1>1 DEF ToSet
<1>3. Head(q) \in ToSet(q)
  BY <1>1 DEF ToSet
<1>4. ASSUME Increasing(q) PROVE Increasing(Tail(q)) /\ Ahead(Head(q), Tail(q))
  <2>1. \A i \in 1 .. Len(q) - 1 : Head(q) < Tail(q)[i]
    BY <1>1, <1>4 DEF Increasing
  <2>2. Ahead(Head(q), Tail(q))
    BY <1>1, <2>1 DEF Ahead, ToSet
  <2>3. Increasing(Tail(q))
    BY <1>1, <1>4 DEF Increasing
  <2> QED
    BY <2>2, <2>3
<1> QED
  BY <1>1, <1>2, <1>3, <1>4 DEF Ahead

\* A world joins those adopted: a new one, and newer than all if of L.
LEMMA AdoptedGrows ==
  ASSUME NEW q \in Seq(Nat), NEW L, NEW n \in Nat, Adopted(q, L),
         \A w \in ToSet(q) : w # n /\ (w \in L /\ n \in L => w < n)
  PROVE  Adopted(Append(q, n), L)
<1>1. /\ Len(q) \in Nat /\ Len(Append(q, n)) = Len(q) + 1
      /\ DOMAIN q = 1 .. Len(q)
      /\ \A i \in 1 .. Len(q) : Append(q, n)[i] = q[i]
      /\ Append(q, n)[Len(q) + 1] = n
  OBVIOUS
<1>2. \A i \in 1 .. Len(q) : q[i] # n /\ (q[i] \in L /\ n \in L => q[i] < n)
  BY <1>1 DEF ToSet
<1> DEFINE a == Append(q, n)
<1>3. \A i, j \in 1 .. Len(a) : i < j =>
        i \in 1 .. Len(q) /\ (j \in 1 .. Len(q) \/ j = Len(q) + 1)
  BY <1>1
<1>4. \A i, j \in 1 .. Len(a) : i < j =>
        /\ a[i] # a[j]
        /\ a[i] \in L /\ a[j] \in L => a[i] < a[j]
  <2> SUFFICES ASSUME NEW i \in 1 .. Len(a), NEW j \in 1 .. Len(a), i < j
               PROVE  /\ a[i] # a[j]
                      /\ a[i] \in L /\ a[j] \in L => a[i] < a[j]
    OBVIOUS
  <2>1. i \in 1 .. Len(q) /\ a[i] = q[i]
    BY <1>1, <1>3
  <2>2. CASE j = Len(q) + 1
    BY <1>1, <1>2, <2>1, <2>2
  <2>3. CASE j \in 1 .. Len(q)
    BY <1>1, <2>1, <2>3 DEF Adopted
  <2> QED
    BY <1>3, <2>2, <2>3
<1>5. 1 \in 1 .. Len(a) /\ a[1] = 0
  BY <1>1 DEF Adopted
<1> QED
  BY <1>4, <1>5 DEF Adopted

\* A sequence over a set is one over a larger set.
LEMMA SeqWidens ==
  ASSUME NEW S, NEW T, S \subseteq T, NEW q \in Seq(S)
  PROVE  q \in Seq(T)
<1>1. Len(q) \in Nat /\ q = [i \in 1 .. Len(q) |-> q[i]] /\ \A i \in 1 .. Len(q) : q[i] \in T
  OBVIOUS
<1>2. q \in [1 .. Len(q) -> T]
  BY <1>1
<1> QED
  BY <1>1, <1>2, SeqDef

\* Queues and commands as numbers.
LEMMA OrderTyped ==
  ASSUME TypeOK
  PROVE  /\ commands \in Seq(Nat) /\ builds \in Seq(Nat) /\ worlds \in Seq(Nat)
         /\ sent \in Seq(Kinds) /\ Len(sent) \in Nat
         /\ ToSet(commands) \subseteq Cmd /\ ToSet(builds) \subseteq Cmd
         /\ ToSet(worlds) \subseteq World
         /\ pending \in Cmd \cup {None} /\ worker.build \in Cmd \cup {None}
         /\ Cmd \subseteq Nat /\ World \subseteq Nat /\ None \notin Cmd
<1>1. Cmd \subseteq Nat /\ World \subseteq Nat /\ None \notin Cmd
  BY SimLoopAssumption DEF Cmd, World, None
<1>2. commands \in Seq(Cmd) /\ builds \in Seq(Cmd) /\ worlds \in Seq(World)
  BY DEF TypeOK
<1>3. commands \in Seq(Nat) /\ builds \in Seq(Nat) /\ worlds \in Seq(Nat)
  BY <1>1, <1>2, SeqWidens
<1>4. /\ ToSet(commands) \subseteq Cmd /\ ToSet(builds) \subseteq Cmd
      /\ ToSet(worlds) \subseteq World
  BY <1>2 DEF ToSet
<1> QED
  BY <1>1, <1>3, <1>4 DEF TypeOK

\* The thread drains the oldest command, which joins the builds at their end or
\* becomes a world on the spot.
LEMMA OrderDrain == TypeOK /\ Order /\ DrainCommand => Order'
<1> SUFFICES ASSUME TypeOK, Order, DrainCommand PROVE Order'
  OBVIOUS
<1> DEFINE k == Head(commands)
<1>1. /\ commands # <<>> /\ commands' = Tail(commands) /\ Apply(k)
      /\ UNCHANGED <<sent, worker, pending>>
  BY DEF DrainCommand
<1>2. /\ k \in ToSet(commands) /\ k \in 1 .. Len(sent) /\ k \in Nat
      /\ ToSet(commands') \subseteq ToSet(commands)
      /\ \A m : Ahead(m, commands) => Ahead(m, commands') /\ m < k
      /\ Increasing(commands') /\ Ahead(k, commands')
  BY <1>1, OrderTyped, Dequeued DEF Order, Ahead
<1> HIDE DEF k
<1>3. CASE LoadLocation(k)
  <2>1. builds' = Append(builds, k) /\ UNCHANGED worlds /\ k \in Locations(sent)
    BY <1>2, <1>3 DEF LoadLocation, Locations
  <2>2. /\ ToSet(builds') = ToSet(builds) \cup {k}
        /\ \A m : Ahead(m, builds) /\ m < k => Ahead(m, builds')
        /\ Increasing(builds')
    BY <1>2, <2>1, OrderTyped, Enqueued DEF Order
  <2> QED
    BY <1>1, <1>2, <2>1, <2>2 DEF Order
<1>4. CASE LoadScenario(k)
  <2>1. UNCHANGED builds
    BY <1>4 DEF LoadScenario
  <2>2. CASE UNCHANGED worlds
    BY <1>1, <1>2, <2>1, <2>2 DEF Order
  <2>3. CASE worlds' = Append(worlds, k) /\ k \notin Locations(sent)
    <3>1. ToSet(worlds') = ToSet(worlds) \cup {k}
      BY <1>2, <2>3, OrderTyped, Enqueued
    <3>2. \A w \in ToSet(worlds) : w # k
      BY <1>2, OrderTyped DEF Order
    <3>3. Adopted(worlds', Locations(sent))
      BY <1>2, <2>3, <3>2, OrderTyped, AdoptedGrows DEF Order
    <3>4. k <= Len(sent)
      BY <1>2, OrderTyped
    <3> QED
      BY <1>1, <1>2, <2>1, <2>3, <3>1, <3>3, <3>4 DEF Order
  <2> QED
    BY <1>4, <2>2, <2>3 DEF LoadScenario, Locations
<1> QED
  BY <1>1, <1>3, <1>4 DEF Apply

\* The pending scene, the newest of the builds that have finished, is adopted.
LEMMA OrderAdopt == TypeOK /\ Order /\ AdoptPending => Order'
<1> SUFFICES ASSUME TypeOK, Order, AdoptPending PROVE Order'
  OBVIOUS
<1>1. /\ pending # None /\ pending' = None /\ worlds' = Append(worlds, pending)
      /\ UNCHANGED <<sent, commands, builds, worker>>
  BY DEF AdoptPending
<1>2. /\ pending \in Nat /\ pending \in Locations(sent) /\ pending <= Len(sent)
      /\ Ahead(pending, commands) /\ Ahead(pending, builds)
      /\ worker.build # None => pending < worker.build
  BY <1>1, OrderTyped DEF Order, Locations
<1>3. ToSet(worlds') = ToSet(worlds) \cup {pending}
  BY <1>1, <1>2, OrderTyped, Enqueued
<1>4. \A w \in ToSet(worlds) : w # pending /\ (w \in Locations(sent) => w < pending)
  BY <1>1, <1>2, OrderTyped DEF Order
<1>5. Adopted(worlds', Locations(sent))
  BY <1>1, <1>2, <1>4, OrderTyped, AdoptedGrows DEF Order
<1> QED
  BY <1>1, <1>2, <1>3, <1>5 DEF Order

\* The worker takes the oldest build, and offers it when it has finished.
LEMMA OrderBuild ==
  TypeOK /\ Order /\ DoneBuilds /\ Builder => Order' /\ DoneBuilds'
<1> SUFFICES ASSUME TypeOK, Order, DoneBuilds, Builder PROVE Order' /\ DoneBuilds'
  OBVIOUS
<1>1. /\ worker \in [build : Cmd \cup {None}, done : BOOLEAN]
      /\ Idle.build = None /\ ~Idle.done
  BY DEF TypeOK, Idle
<1>2. CASE StartBuild
  <2> DEFINE b == Head(builds)
  <2>1. /\ builds # <<>> /\ builds' = Tail(builds) /\ worker'.build = b
        /\ worker.build = None /\ ~worker'.done
        /\ UNCHANGED <<sent, commands, pending, worlds>>
    BY <1>1, <1>2 DEF StartBuild, BuilderKeeps
  <2>2. /\ b \in ToSet(builds) /\ ToSet(builds') \subseteq ToSet(builds)
        /\ \A m : Ahead(m, builds) => Ahead(m, builds') /\ m < b
        /\ Increasing(builds') /\ Ahead(b, builds')
    BY <2>1, OrderTyped, Dequeued DEF Order, Ahead
  <2> HIDE DEF b
  <2>3. b \in Locations(sent) /\ Ahead(b, commands)
    BY <2>2 DEF Order
  <2> QED
    BY <2>1, <2>2, <2>3 DEF Order, DoneBuilds
<1>3. CASE BuildFails
  <2>1. worker' = Idle /\ UNCHANGED <<sent, commands, builds, pending, worlds>>
    BY <1>3 DEF BuildFails, BuilderKeeps
  <2> QED
    BY <1>1, <2>1 DEF Order, DoneBuilds
<1>4. CASE BuildReturns
  <2>1. /\ worker'.build = worker.build /\ worker.build # None
        /\ UNCHANGED <<sent, commands, builds, pending, worlds>>
    BY <1>1, <1>4 DEF BuildReturns, BuilderKeeps
  <2> QED
    BY <2>1 DEF Order, DoneBuilds
<1>5. CASE OfferScene
  <2>1. /\ worker' = Idle /\ worker.build # None /\ pending' = worker.build
        /\ UNCHANGED <<sent, commands, builds, worlds>>
    BY <1>5 DEF OfferScene, BuilderKeeps, DoneBuilds
  <2> QED
    BY <1>1, <2>1 DEF Order, DoneBuilds
<1> QED
  BY <1>2, <1>3, <1>4, <1>5 DEF Builder

\* A new command is younger than everything on its way.
LEMMA OrderSubmit ==
  ASSUME TypeOK, Order, NEW c \in Conn, NEW kind \in Kinds, Submit(c, kind)
  PROVE  Order'
<1> DEFINE n == Len(sent) + 1
<1>1. /\ sent' = Append(sent, kind) /\ commands' = Append(commands, n)
      /\ UNCHANGED <<builds, worker, pending, worlds>>
  BY DEF Submit
<1>2. /\ n \in Nat /\ Len(sent) \in Nat /\ Len(sent') = n
      /\ \A m \in 1 .. Len(sent) : sent'[m] = sent[m]
  BY <1>1, OrderTyped
<1>3. \A m : m \in Nat /\ m <= Len(sent) => m < n /\ m <= Len(sent')
  BY <1>2
<1>4. \A m : m \in Nat /\ m <= Len(sent) =>
        (m \in Locations(sent') <=> m \in Locations(sent))
  BY <1>2 DEF Locations
<1>5. \A m : m \in Locations(sent) => m \in Locations(sent') /\ m < n
  BY <1>2 DEF Locations
<1>6. /\ ToSet(commands') = ToSet(commands) \cup {n}
      /\ \A m : Ahead(m, commands) /\ m < n => Ahead(m, commands')
      /\ Increasing(commands') /\ ToSet(commands') \subseteq 1 .. Len(sent')
  <2>1. ToSet(commands) \subseteq 1 .. Len(sent) /\ Increasing(commands)
    BY DEF Order
  <2>2. \A m \in ToSet(commands) : m < n
    BY <1>2, <2>1
  <2> HIDE DEF n
  <2>3. /\ ToSet(commands') = ToSet(commands) \cup {n}
        /\ \A m : Ahead(m, commands) /\ m < n => Ahead(m, commands')
        /\ Increasing(commands')
    BY <1>1, <1>2, <2>1, <2>2, OrderTyped, Enqueued
  <2> USE DEF n
  <2>4. ToSet(commands') \subseteq 1 .. Len(sent')
    BY <1>2, <2>1, <2>3
  <2> QED
    BY <2>3, <2>4
<1> HIDE DEF n
<1>7. \A w \in ToSet(worlds) :
        /\ w \in Nat /\ w <= Len(sent') /\ Ahead(w, commands')
        /\ w \in Locations(sent') <=> w \in Locations(sent)
  BY <1>3, <1>4, <1>6, OrderTyped DEF Order
<1>8. Adopted(worlds', Locations(sent'))
  <2>1. \A i \in 1 .. Len(worlds) : worlds[i] \in ToSet(worlds)
    BY OrderTyped DEF ToSet
  <2>2. \A i \in 1 .. Len(worlds) :
          worlds[i] \in Locations(sent') <=> worlds[i] \in Locations(sent)
    BY <1>7, <2>1
  <2> QED
    BY <1>1, <2>2 DEF Adopted, Order
<1>9. \A b \in ToSet(builds) : b \in Locations(sent') /\ Ahead(b, commands')
  BY <1>5, <1>6 DEF Order
<1>10. worker.build # None =>
         worker.build \in Locations(sent') /\ Ahead(worker.build, commands')
  BY <1>5, <1>6 DEF Order
<1>11. pending # None => pending \in Locations(sent') /\ Ahead(pending, commands')
  BY <1>5, <1>6 DEF Order
<1> QED
  BY <1>1, <1>6, <1>7, <1>8, <1>9, <1>10, <1>11 DEF Order

\* Every step keeps the requests in order.
LEMMA OrderStep ==
  TypeOK /\ Order /\ DoneBuilds /\ [Next]_vars => Order' /\ DoneBuilds'
<1> SUFFICES ASSUME TypeOK, Order, DoneBuilds, [Next]_vars PROVE Order' /\ DoneBuilds'
  OBVIOUS
<1>1. CASE UNCHANGED <<sent, commands, builds, worker, pending, worlds>>
  BY <1>1 DEF Order, DoneBuilds
<1>2. CASE UNCHANGED vars
  BY <1>1, <1>2 DEF vars
<1>3. CASE Thread
  <2>1. CASE DrainCommand
    BY <2>1, OrderDrain DEF DrainCommand, DoneBuilds
  <2>2. CASE AdoptPending
    BY <2>2, OrderAdopt DEF AdoptPending, DoneBuilds
  <2>3. CASE \/ NoMoreCommands \/ DrainEvents \/ NothingPending
             \/ BumpEpoch \/ StepWorld \/ Publish
    BY <1>1, <2>3 DEF NoMoreCommands, DrainEvents, NothingPending, BumpEpoch,
                      StepWorld, Publish
  <2> QED
    BY <1>3, <2>1, <2>2, <2>3 DEF Thread
<1>4. CASE Builder
  BY <1>4, OrderBuild
<1>5. ASSUME NEW c \in Conn, Client(c) PROVE Order' /\ DoneBuilds'
  <2>1. ASSUME NEW kind \in Kinds, Submit(c, kind) PROVE Order' /\ DoneBuilds'
    BY <2>1, OrderSubmit DEF Submit, DoneBuilds
  <2>2. CASE \/ Connect(c) \/ StartCursor(c) \/ SendFirstScene(c) \/ Snapshot(c)
             \/ PushScene(c) \/ SendFrame(c) \/ SkipFrame(c) \/ Reply(c)
    BY <1>1, <2>2 DEF Connect, StartCursor, SendFirstScene, Snapshot, PushScene,
                      SendFrame, SkipFrame, Reply, Becomes, LoopKeeps
  <2>3. CASE TimeOut(c) \/ Disconnect(c)
    BY <1>1, <2>3 DEF TimeOut, Disconnect, LoopKeeps
  <2> QED
    BY <1>5, <2>1, <2>2, <2>3 DEF Client
<1> QED
  BY <1>2, <1>3, <1>4, <1>5 DEF Next

\* At first nothing is on its way.
LEMMA OrderStarts == Init => Order /\ DoneBuilds
<1> SUFFICES ASSUME Init PROVE Order /\ DoneBuilds
  OBVIOUS
<1>1. /\ sent = <<>> /\ commands = <<>> /\ builds = <<>> /\ pending = None
      /\ worker.build = None /\ ~worker.done /\ worlds = <<0>>
  BY DEF Init, Idle
<1>2. /\ ToSet(sent) = {} /\ Len(sent) = 0 /\ Locations(sent) = {}
      /\ Len(worlds) = 1 /\ worlds[1] = 0 /\ ToSet(worlds) = {0}
  BY <1>1 DEF ToSet, Locations
<1> QED
  BY <1>1, <1>2 DEF Order, DoneBuilds, Ahead, Increasing, Adopted, ToSet

\* Of two builds the one asked for later wins, for any mix of commands and
\* however many builds run into each other.
THEOREM BuildsInOrder == Spec => []LatestBuildWins
<1>1. TypeOK /\ Order => LatestBuildWins
  <2> SUFFICES ASSUME TypeOK, Order,
                      NEW i \in DOMAIN worlds, NEW j \in DOMAIN worlds,
                      i < j, worlds[i] > 0, sent[worlds[i]] = "load_location",
                      sent[worlds[j]] = "load_location"
               PROVE  worlds[i] < worlds[j]
    BY DEF LatestBuildWins
  <2>1. /\ i \in 1 .. Len(worlds) /\ j \in 1 .. Len(worlds)
        /\ worlds[i] \in ToSet(worlds) /\ worlds[j] \in ToSet(worlds)
    BY OrderTyped DEF ToSet
  <2>2. /\ worlds[i] \in Nat /\ worlds[i] <= Len(sent)
        /\ worlds[j] \in Nat /\ worlds[j] <= Len(sent)
    BY <2>1, OrderTyped DEF Order
  <2>3. worlds[i] \in Locations(sent)
    BY <2>2, OrderTyped DEF Locations
  <2>4. CASE worlds[j] \in Locations(sent)
    BY <2>1, <2>3, <2>4 DEF Order, Adopted
  <2>5. worlds[j] # 0
    BY <2>1 DEF Order, Adopted
  <2> QED
    BY <2>2, <2>4, <2>5, OrderTyped DEF Locations
<1> QED
  BY <1>1, OrderStarts, InitTyped, NextTyped, OrderStep, PTL DEF Spec

-----------------------------------------------------------------------------
(* No request is lost on the way.                                          *)

Failed(k) == Ev("failed", k)

\* A request is in a queue, in the worker or failed, or a scene asked for then
\* or later is pending or adopted.
Accounted(k) ==
  \/ k \in ToSet(commands) \cup ToSet(builds) \cup {worker.build}
  \/ Failed(k) \in ToSet(evq) \cup ToSet(raised) \cup ToSet(recorded)
  \/ \E w \in ToSet(worlds) \cup {pending} : w \in Locations(sent) /\ w >= k

NothingLost == \A k \in Locations(sent) : Accounted(k)

\* Every element of a queue is its head or in its tail, and joining two, or
\* one more, loses none.
LEMMA Joined ==
  ASSUME NEW S, NEW q \in Seq(S), NEW r \in Seq(S)
  PROVE  ToSet(q) \cup ToSet(r) \subseteq ToSet(q \o r)
<1>1. Len(q) \in Nat /\ Len(r) \in Nat /\ DOMAIN q = 1 .. Len(q) /\ DOMAIN r = 1 .. Len(r)
  OBVIOUS
<1>2. /\ DOMAIN (q \o r) = 1 .. Len(q) + Len(r)
      /\ \A i \in 1 .. Len(q) : i \in 1 .. Len(q) + Len(r) /\ (q \o r)[i] = q[i]
      /\ \A i \in 1 .. Len(r) : /\ Len(q) + i \in 1 .. Len(q) + Len(r)
                                /\ (q \o r)[Len(q) + i] = r[i]
  BY <1>1
<1> QED
  BY <1>1, <1>2 DEF ToSet

LEMMA Appended ==
  ASSUME NEW S, NEW q \in Seq(S), NEW x \in S
  PROVE  ToSet(q) \cup {x} \subseteq ToSet(Append(q, x))
<1>1. Len(q) \in Nat /\ DOMAIN q = 1 .. Len(q)
  OBVIOUS
<1>2. /\ DOMAIN Append(q, x) = 1 .. Len(q) + 1 /\ Append(q, x)[Len(q) + 1] = x
      /\ \A i \in 1 .. Len(q) : i \in 1 .. Len(q) + 1 /\ Append(q, x)[i] = q[i]
      /\ Len(q) + 1 \in 1 .. Len(q) + 1
  BY <1>1
<1> QED
  BY <1>1, <1>2 DEF ToSet

LEMMA Popped ==
  ASSUME NEW S, NEW q \in Seq(S), q # <<>>
  PROVE  Head(q) \in S /\ ToSet(q) \subseteq {Head(q)} \cup ToSet(Tail(q))
<1>1. /\ Len(q) \in Nat /\ Len(q) # 0 /\ DOMAIN q = 1 .. Len(q)
      /\ Head(q) = q[1] /\ Head(q) \in S /\ DOMAIN Tail(q) = 1 .. Len(q) - 1
      /\ \A i \in 1 .. Len(q) - 1 : Tail(q)[i] = q[i + 1]
  BY EmptySeq, HeadTailProperties
<1>2. ASSUME NEW i \in 1 .. Len(q), i # 1 PROVE q[i] \in ToSet(Tail(q))
  <2>1. i - 1 \in 1 .. Len(q) - 1 /\ Tail(q)[i - 1] = q[i]
    BY <1>1, <1>2
  <2> QED
    BY <1>1, <2>1 DEF ToSet
<1> QED
  BY <1>1, <1>2 DEF ToSet

\* What the thread does with a request it drains, an event or a scene.
LEMMA LostThread == TypeOK /\ Order /\ NothingLost /\ Thread => NothingLost'
<1> SUFFICES ASSUME TypeOK, Order, NothingLost, Thread, NEW k \in Locations(sent)'
             PROVE  Accounted(k)'
  BY DEF NothingLost
<1>1. sent' = sent /\ k \in Locations(sent) /\ Accounted(k) /\ worker' = worker
  BY DEF Thread, DrainCommand, NoMoreCommands, DrainEvents, NothingPending, AdoptPending,
     BumpEpoch, StepWorld, Publish, NothingLost, Locations
<1>2. /\ commands \in Seq(Cmd) /\ builds \in Seq(Cmd) /\ worlds \in Seq(World)
      /\ evq \in Seq(Event) /\ raised \in Seq(Event) /\ recorded \in Seq(Event)
      /\ Cmd \subseteq World
  BY SimLoopAssumption DEF TypeOK, Cmd, World
<1>3. CASE DrainCommand
  <2> DEFINE h == Head(commands)
  <2>1. /\ commands # <<>> /\ commands' = Tail(commands) /\ Apply(h)
        /\ UNCHANGED <<evq, pending, recorded>>
    BY <1>3 DEF DrainCommand
  <2>2. h \in Cmd /\ ToSet(commands) \subseteq {h} \cup ToSet(commands')
    BY <1>2, <2>1, Popped
  <2> HIDE DEF h
  <2>3. CASE LoadLocation(h)
    <3>1. /\ builds' = Append(builds, h) /\ raised' = Append(raised, Ev("requested", h))
          /\ UNCHANGED worlds
      BY <2>3 DEF LoadLocation
    <3>2. ToSet(builds) \cup {h} \subseteq ToSet(builds')
      BY <1>2, <2>2, <3>1, Appended
    <3>3. ToSet(raised) \subseteq ToSet(raised')
      <4>1. Ev("requested", h) \in Event
        BY <2>2 DEF Ev, Event
      <4> QED
        BY <1>2, <3>1, <4>1, Appended
    <3> QED
      BY <1>1, <2>1, <2>2, <3>1, <3>2, <3>3 DEF Accounted
  <2>4. CASE LoadScenario(h)
    <3>1. h # k
      BY <1>1, <2>4 DEF LoadScenario, Locations
    <3>2. ToSet(raised) \subseteq ToSet(raised') /\ ToSet(worlds) \subseteq ToSet(worlds')
      <4>1. CASE UNCHANGED <<raised, worlds>>
        BY <4>1
      <4>2. CASE worlds' = Append(worlds, h) /\ raised' = Append(raised, Ev("loaded", h))
        <5>1. Ev("loaded", h) \in Event /\ h \in World
          BY <1>2, <2>2 DEF Ev, Event
        <5> QED
          BY <1>2, <4>2, <5>1, Appended
      <4> QED
        BY <2>4, <4>1, <4>2 DEF LoadScenario
    <3>3. UNCHANGED builds
      BY <2>4 DEF LoadScenario
    <3> QED
      BY <1>1, <2>1, <2>2, <3>1, <3>2, <3>3 DEF Accounted
  <2> QED
    BY <2>1, <2>3, <2>4 DEF Apply
<1>4. CASE DrainEvents
  <2>1. /\ raised' = raised \o evq
        /\ UNCHANGED <<commands, builds, worlds, pending, recorded>>
    BY <1>4 DEF DrainEvents
  <2>2. ToSet(raised) \cup ToSet(evq) \subseteq ToSet(raised')
    BY <1>2, <2>1, Joined
  <2> QED
    BY <1>1, <2>1, <2>2 DEF Accounted
<1>5. CASE AdoptPending
  <2>1. /\ pending # None /\ worlds' = Append(worlds, pending)
        /\ UNCHANGED <<commands, builds, evq, raised, recorded>>
    BY <1>5 DEF AdoptPending
  <2>2. ToSet(worlds) \cup {pending} \subseteq ToSet(worlds')
    <3>1. pending \in World
      BY <1>2, <2>1 DEF TypeOK
    <3> QED
      BY <1>2, <2>1, <3>1, Appended
  <2> QED
    BY <1>1, <2>1, <2>2 DEF Accounted
<1>6. CASE StepWorld
  <2>1. /\ recorded' = recorded \o raised
        /\ UNCHANGED <<commands, builds, worlds, pending, evq>>
    BY <1>6 DEF StepWorld
  <2>2. ToSet(recorded) \cup ToSet(raised) \subseteq ToSet(recorded')
    BY <1>2, <2>1, Joined
  <2> QED
    BY <1>1, <2>1, <2>2 DEF Accounted
<1>7. CASE NoMoreCommands \/ NothingPending \/ BumpEpoch \/ Publish
  BY <1>1, <1>7 DEF NoMoreCommands, NothingPending, BumpEpoch, Publish, Accounted
<1> QED
  BY <1>3, <1>4, <1>5, <1>6, <1>7 DEF Thread

\* What the worker does with a build; an offer replaces only older ones.
LEMMA LostBuilder == TypeOK /\ Order /\ DoneBuilds /\ NothingLost /\ Builder => NothingLost'
<1> SUFFICES ASSUME TypeOK, Order, DoneBuilds, NothingLost, Builder, NEW k \in Locations(sent)'
             PROVE  Accounted(k)'
  BY DEF NothingLost
<1>1. /\ UNCHANGED <<sent, commands, raised, recorded, worlds>>
      /\ k \in Locations(sent) /\ Accounted(k) /\ k \in Nat
  BY OrderTyped DEF Builder, StartBuild, BuildFails, BuildReturns, OfferScene, BuilderKeeps,
     NothingLost, Locations
<1>2. /\ builds \in Seq(Cmd) /\ evq \in Seq(Event) /\ worker.build \in Cmd \cup {None}
      /\ worker \in [build : Cmd \cup {None}, done : BOOLEAN] /\ Idle.build = None
      /\ k # None
  BY <1>1 DEF TypeOK, Idle, None
<1>3. CASE StartBuild
  <2>1. /\ worker = Idle /\ builds # <<>> /\ builds' = Tail(builds)
        /\ worker'.build = Head(builds) /\ UNCHANGED <<evq, pending>>
    BY <1>3 DEF StartBuild
  <2>2. ToSet(builds) \subseteq {worker'.build} \cup ToSet(builds')
    BY <1>2, <2>1, Popped
  <2> QED
    BY <1>1, <1>2, <2>1, <2>2 DEF Accounted
<1>4. CASE BuildFails
  <2>1. /\ evq' = Append(evq, Failed(worker.build)) /\ worker.build \in Cmd
        /\ UNCHANGED <<builds, pending>>
    BY <1>2, <1>4 DEF BuildFails, Failed
  <2>2. ToSet(evq) \cup {Failed(worker.build)} \subseteq ToSet(evq')
    <3>1. Failed(worker.build) \in Event
      BY <2>1 DEF Failed, Ev, Event
    <3> QED
      BY <1>2, <2>1, <3>1, Appended
  <2> QED
    BY <1>1, <2>1, <2>2 DEF Accounted
<1>5. CASE BuildReturns
  <2>1. worker'.build = worker.build /\ worker.build \in Cmd /\ UNCHANGED <<builds, pending>>
    BY <1>2, <1>5 DEF BuildReturns
  <2>2. ToSet(evq) \subseteq ToSet(evq')
    <3>1. Ev("note", worker.build) \in Event
      BY <2>1 DEF Ev, Event
    <3> QED
      BY <1>2, <1>5, <3>1, Appended DEF BuildReturns
  <2> QED
    BY <1>1, <2>1, <2>2 DEF Accounted
<1>6. CASE OfferScene
  <2>1. /\ pending' = worker.build /\ worker.build # None /\ UNCHANGED <<builds, evq>>
    BY <1>6 DEF OfferScene, DoneBuilds
  <2>2. /\ worker.build \in Locations(sent) /\ worker.build \in Nat
        /\ pending # None => pending \in Nat /\ pending < worker.build
    BY <2>1, OrderTyped DEF Order
  <2>3. None \notin Locations(sent)
    BY DEF Locations, None
  <2> QED
    BY <1>1, <2>1, <2>2, <2>3 DEF Accounted
<1> QED
  BY <1>3, <1>4, <1>5, <1>6 DEF Builder

LEMMA LostClient ==
  ASSUME TypeOK, NothingLost, NEW c \in Conn, Client(c)
  PROVE  NothingLost'
<1>1. UNCHANGED <<builds, worker, evq, raised, recorded, worlds, pending>>
  BY DEF Client, Connect, StartCursor, SendFirstScene, Snapshot, PushScene, SendFrame,
     SkipFrame, Submit, Reply, TimeOut, Disconnect, Becomes, LoopKeeps
<1>2. CASE UNCHANGED <<sent, commands>>
  BY <1>1, <1>2 DEF NothingLost, Accounted, Locations
<1>3. ASSUME NEW kind \in Kinds, Submit(c, kind) PROVE NothingLost'
  <2> DEFINE n == Len(sent) + 1
  <2>1. sent' = Append(sent, kind) /\ commands' = Append(commands, n) /\ n \in Cmd
    BY <1>3, OrderTyped, SimLoopAssumption DEF Submit, Cmd
  <2>2. ToSet(commands) \cup {n} \subseteq ToSet(commands')
    BY <2>1, Appended DEF TypeOK
  <2>3. Locations(sent) \subseteq Locations(sent') /\ Locations(sent') \subseteq Locations(sent) \cup {n}
    BY <2>1, OrderTyped DEF Locations
  <2> QED
    BY <1>1, <2>2, <2>3 DEF NothingLost, Accounted
<1> QED
  BY <1>2, <1>3 DEF Client, Connect, StartCursor, SendFirstScene, Snapshot, PushScene,
     SendFrame, SkipFrame, Reply, TimeOut, Disconnect, Becomes, LoopKeeps

\* A location that was asked for is never lost, whoever still waits for it and
\* whatever was asked for since: it is queued, being built, answered by a
\* failure, or replaced by nothing older than itself (submit_scene,
\* _take_pending_scene).  What is left for BuildAnswered is that things move.
THEOREM RequestsNeverLost == Spec => []NothingLost
<1>1. Init => NothingLost
  <2> SUFFICES ASSUME sent = <<>> PROVE Locations(sent) = {}
    BY DEF Init, NothingLost
  <2> QED
    BY DEF Locations
<1>2. TypeOK /\ Order /\ DoneBuilds /\ NothingLost /\ [Next]_vars => NothingLost'
  <2>1. CASE UNCHANGED vars
    BY <2>1 DEF vars, NothingLost, Accounted, Locations
  <2> QED
    BY <2>1, LostThread, LostBuilder, LostClient DEF Next
<1> QED
  BY <1>1, <1>2, OrderStarts, InitTyped, NextTyped, OrderStep, PTL DEF Spec

-----------------------------------------------------------------------------
(* Frames and the scenes they belong to. *)

\* w is among the first n worlds of ws; w is one of them from the n-th on; v
\* is w or was adopted before it.
Placed(w, n, ws) == \E i \in 1 .. Len(ws) : i <= n /\ ws[i] = w
Since(w, n, ws) == \E i \in 1 .. Len(ws) : n <= i /\ ws[i] = w
Precedes(v, w, ws) == \E i, j \in 1 .. Len(ws) : i <= j /\ ws[i] = v /\ ws[j] = w

\* What the thread's fields say of the worlds it adopted: between two swaps
\* the epoch counts them.
Epochs ==
  /\ worlds # <<>> /\ scene = worlds[Len(worlds)]
  /\ Len(worlds) = IF at = "bump" THEN epoch + 2 ELSE epoch + 1
  /\ at = "publish" => frame = scene
  /\ latest # None => Placed(latest, epoch + 1, worlds)

\* A connection's record r, at epoch e, worlds ws and n commands: the scene it
\* was told is as new as its epoch, a frame it holds or showed is not newer.
ToldOf(r, e, ws, n) ==
  /\ r.sentEpoch <= e /\ r.snapEpoch <= e
  /\ r.awaits # None => r.awaits <= n
  /\ r.at = "live" => Since(r.told, r.sentEpoch + 1, ws)
  /\ r.at # "live" => r.shown = None
  /\ r.snapFrame # None =>
       /\ r.stream = "push" => Placed(r.snapFrame, r.snapEpoch + 1, ws)
       /\ r.stream = "frame" => Placed(r.snapFrame, r.sentEpoch + 1, ws)
  /\ r.shown # None => Precedes(r.shown, r.told, ws)

Told == \A c \in Conn : ToldOf(conn[c], epoch, worlds, Len(sent))

\* The worlds only grow, and what was said of them stays true.
LEMMA WorldsGrow ==
  ASSUME NEW ws \in Seq(World), NEW w \in World
  PROVE  LET a == Append(ws, w) IN
         /\ \A v, n : Placed(v, n, ws) => Placed(v, n, a)
         /\ \A v, n : Since(v, n, ws) => Since(v, n, a)
         /\ \A v, u : Precedes(v, u, ws) => Precedes(v, u, a)
         /\ a # <<>> /\ Len(a) = Len(ws) + 1 /\ a[Len(a)] = w
<1> DEFINE a == Append(ws, w)
<1>1. /\ Len(ws) \in Nat /\ Len(a) = Len(ws) + 1 /\ a[Len(a)] = w /\ a # <<>>
      /\ \A i \in 1 .. Len(ws) : i \in 1 .. Len(a) /\ a[i] = ws[i]
  OBVIOUS
<1> HIDE DEF a
<1>2. /\ \A v, n : Placed(v, n, ws) => Placed(v, n, a)
      /\ \A v, n : Since(v, n, ws) => Since(v, n, a)
  BY <1>1 DEF Placed, Since
<1>3. ASSUME NEW v, NEW u, Precedes(v, u, ws) PROVE Precedes(v, u, a)
  BY <1>1, <1>3 DEF Precedes
<1> USE DEF a
<1> QED
  BY <1>1, <1>2, <1>3

LEMMA ToldStays ==
  ASSUME NEW r \in Connection, NEW e \in Nat, NEW f \in Nat, e <= f,
         NEW n \in Nat, NEW m \in Nat, n <= m,
         NEW ws \in Seq(World), NEW x,
         x = ws \/ \E w \in World : x = Append(ws, w),
         ToldOf(r, e, ws, n)
  PROVE  ToldOf(r, f, x, m)
<1>1. /\ r.sentEpoch \in Nat /\ r.snapEpoch \in Nat
      /\ r.awaits # None => r.awaits \in Nat
  BY SimLoopAssumption DEF Connection, Cmd
<1>2. /\ r.sentEpoch <= f /\ r.snapEpoch <= f
      /\ r.awaits # None => r.awaits <= m
  BY <1>1 DEF ToldOf
<1>3. /\ \A v, k : Placed(v, k, ws) => Placed(v, k, x)
      /\ \A v, k : Since(v, k, ws) => Since(v, k, x)
      /\ \A v, u : Precedes(v, u, ws) => Precedes(v, u, x)
  BY WorldsGrow
<1> QED
  BY <1>2, <1>3 DEF ToldOf

\* A step that changes only one connection's record, to one that fits.
LEMMA ToldBecomes ==
  ASSUME TypeOK, Told, NEW c \in Conn, NEW r,
         conn' = [conn EXCEPT ![c] = r], Len(sent') \in Nat, Len(sent) <= Len(sent'),
         UNCHANGED <<epoch, worlds>>, ToldOf(r, epoch, worlds, Len(sent'))
  PROVE  Told'
<1>1. /\ conn \in [Conn -> Connection] /\ epoch \in Nat /\ Len(sent) \in Nat
      /\ worlds \in Seq(World) /\ 0 \in World
  BY SimLoopAssumption DEF TypeOK, World
<1>2. ASSUME NEW d \in Conn, d # c PROVE ToldOf(conn'[d], epoch', worlds', Len(sent'))
  <2>1. conn'[d] = conn[d] /\ conn[d] \in Connection
    BY <1>1, <1>2
  <2>2. ToldOf(conn[d], epoch, worlds, Len(sent))
    BY DEF Told
  <2>3. epoch <= epoch
    BY <1>1
  <2> QED
    BY <1>1, <2>1, <2>2, <2>3, ToldStays
<1>3. conn'[c] = r
  BY <1>1
<1> QED
  BY <1>2, <1>3 DEF Told

\* Without load_scenario only a swap changes the scene, and the epoch counts
\* the swaps.
LEMMA EpochsStep ==
  ASSUME "load_scenario" \notin Kinds, TypeOK, Order, Epochs, [Next]_vars
  PROVE  /\ Epochs'
         /\ epoch' \in Nat /\ epoch <= epoch'
         /\ worlds' = worlds \/ \E w \in World : worlds' = Append(worlds, w)
         /\ UNCHANGED <<epoch, worlds>> \/ UNCHANGED <<conn, sent>>
<1>1. /\ worlds \in Seq(World) /\ epoch \in Nat /\ Len(worlds) \in Nat /\ scene \in World
      /\ pending \in Cmd \cup {None} /\ Cmd \subseteq World /\ World \subseteq Nat
      /\ Len(worlds) # 0 /\ 0 \in World
  BY SimLoopAssumption, EmptySeq DEF TypeOK, Cmd, World, Epochs
<1>2. CASE UNCHANGED <<at, scene, frame, epoch, latest, worlds>>
  BY <1>1, <1>2 DEF Epochs
<1>3. CASE UNCHANGED vars
  BY <1>2, <1>3 DEF vars
<1>4. CASE DrainCommand
  <2>1. sent \in Seq(Kinds) /\ Head(commands) \in 1 .. Len(sent)
    BY <1>4, OrderTyped, Dequeued DEF DrainCommand, Order
  <2>2. sent[Head(commands)] # "load_scenario"
    BY <2>1
  <2>3. UNCHANGED <<at, scene, frame, epoch, latest, worlds>> /\ UNCHANGED <<conn, sent>>
    BY <1>4, <2>2 DEF DrainCommand, Apply, LoadLocation, LoadScenario
  <2> QED
    BY <1>2, <2>3
<1>5. CASE NoMoreCommands \/ DrainEvents \/ NothingPending
  <2>1. /\ UNCHANGED <<scene, frame, epoch, latest, worlds, conn, sent>>
        /\ at # "bump" /\ at' # "bump" /\ at' # "publish"
    BY <1>5 DEF NoMoreCommands, DrainEvents, NothingPending
  <2> QED
    BY <1>1, <2>1 DEF Epochs
<1>6. CASE AdoptPending
  <2>1. /\ pending \in World /\ worlds' = Append(worlds, pending) /\ scene' = pending
        /\ at = "swap" /\ at' = "bump" /\ UNCHANGED <<epoch, latest, conn, sent>>
    BY <1>1, <1>6 DEF AdoptPending
  <2>2. /\ worlds' # <<>> /\ Len(worlds') = Len(worlds) + 1
        /\ worlds'[Len(worlds')] = scene'
        /\ \A v, n : Placed(v, n, worlds) => Placed(v, n, worlds')
    BY <1>1, <2>1, WorldsGrow
  <2>3. Epochs'
    BY <1>1, <2>1, <2>2 DEF Epochs
  <2> QED
    BY <1>1, <2>1, <2>3
<1>7. CASE BumpEpoch
  <2>1. /\ at = "bump" /\ at' = "step" /\ epoch' = epoch + 1
        /\ UNCHANGED <<scene, frame, latest, worlds, conn, sent>>
    BY <1>7 DEF BumpEpoch
  <2>2. latest # None => Placed(latest, epoch + 2, worlds)
    BY <1>1 DEF Epochs, Placed
  <2> QED
    BY <1>1, <2>1, <2>2 DEF Epochs
<1>8. CASE StepWorld
  <2>1. /\ at = "step" /\ at' = "publish" /\ frame' = scene
        /\ UNCHANGED <<scene, epoch, latest, worlds, conn, sent>>
    BY <1>8 DEF StepWorld
  <2> QED
    BY <1>1, <2>1 DEF Epochs
<1>9. CASE Publish
  <2>1. /\ at = "publish" /\ at' = "commands" /\ latest' = frame
        /\ UNCHANGED <<scene, frame, epoch, worlds, conn, sent>>
    BY <1>9 DEF Publish
  <2>2. Placed(frame, epoch + 1, worlds)
    BY <1>1, <2>1 DEF Epochs, Placed
  <2> QED
    BY <1>1, <2>1, <2>2 DEF Epochs
<1>10. CASE Builder
  BY <1>1, <1>2, <1>10 DEF Builder, StartBuild, BuildFails, BuildReturns, OfferScene,
                           BuilderKeeps
<1>11. ASSUME NEW c \in Conn, Client(c)
       PROVE  UNCHANGED <<at, scene, frame, epoch, latest, worlds>>
  BY <1>11 DEF Client, Connect, StartCursor, SendFirstScene, Snapshot, PushScene,
               SendFrame, SkipFrame, Submit, Reply, TimeOut, Disconnect, Becomes, LoopKeeps
<1>12. UNCHANGED <<at, scene, frame, epoch, latest, worlds>> =>
         /\ epoch' \in Nat /\ epoch <= epoch' /\ UNCHANGED <<epoch, worlds>>
         /\ worlds' = worlds \/ \E w \in World : worlds' = Append(worlds, w)
  BY <1>1
<1>13. CASE UNCHANGED vars \/ DrainCommand \/ Builder
  BY <1>3, <1>4, <1>10, <1>12, <1>13, <1>2 DEF vars
<1>14. CASE Thread
  BY <1>4, <1>5, <1>6, <1>7, <1>8, <1>9, <1>14 DEF Thread
<1>15. CASE \E c \in Conn : Client(c)
  BY <1>2, <1>11, <1>12, <1>15
<1> QED
  BY <1>3, <1>12, <1>14, <1>10, <1>15 DEF Next, vars

\* The thread and the builder leave the connections alone.
LEMMA ToldKept ==
  ASSUME "load_scenario" \notin Kinds, TypeOK, Order, Epochs, Told, [Next]_vars,
         conn' = conn, sent' = sent
  PROVE  Told'
<1>1. worlds' = worlds \/ \E w \in World : worlds' = Append(worlds, w)
  BY EpochsStep
<1>2. /\ epoch \in Nat /\ epoch' \in Nat /\ epoch <= epoch' /\ Len(sent) \in Nat
      /\ Len(sent) <= Len(sent) /\ worlds \in Seq(World)
  BY EpochsStep DEF TypeOK
<1>3. ASSUME NEW c \in Conn PROVE ToldOf(conn'[c], epoch', worlds', Len(sent'))
  <2>1. conn'[c] = conn[c] /\ conn[c] \in Connection
    BY DEF TypeOK
  <2>2. ToldOf(conn[c], epoch, worlds, Len(sent))
    BY DEF Told
  <2> QED
    BY <1>1, <1>2, <2>1, <2>2, ToldStays
<1> QED
  BY <1>3 DEF Told

\* What a connection reads together stays together.
LEMMA ToldClient ==
  ASSUME "load_scenario" \notin Kinds, TypeOK, Epochs, Told, NEW c \in Conn, Client(c)
  PROVE  Told'
<1> DEFINE r == conn[c]
<1>1. /\ conn \in [Conn -> Connection] /\ r \in Connection
      /\ epoch \in Nat /\ Len(sent) \in Nat
      /\ Len(worlds) \in Nat /\ worlds \in Seq(World)
      /\ r.sentEpoch \in Nat /\ r.snapEpoch \in Nat
  BY DEF TypeOK, Connection
<1>2. ToldOf(r, epoch, worlds, Len(sent))
  BY DEF Told
<1>3. /\ Len(worlds) \in 1 .. Len(worlds) /\ worlds[Len(worlds)] = scene
      /\ epoch + 1 <= Len(worlds)
  BY <1>1, EmptySeq DEF Epochs
<1>4. ASSUME NEW n \in Nat, n <= epoch PROVE Since(scene, n + 1, worlds)
  BY <1>1, <1>3, <1>4 DEF Since
<1>a. \A s : /\ conn' = [conn EXCEPT ![c] = s] /\ UNCHANGED <<epoch, worlds>>
               /\ Len(sent') \in Nat /\ Len(sent) <= Len(sent')
               /\ ToldOf(s, epoch, worlds, Len(sent'))
               => Told'
  BY ToldBecomes
<1>b. sent' = sent => Len(sent') \in Nat /\ Len(sent) <= Len(sent')
  BY <1>1
<1>5. CASE Connect(c)
  <2> DEFINE s == [Gone EXCEPT !.at = "cursor", !.sentEpoch = epoch]
  <2>1. conn' = [conn EXCEPT ![c] = s] /\ UNCHANGED <<sent, epoch, worlds>>
    BY <1>5 DEF Connect, Becomes, LoopKeeps
  <2>2. ToldOf(s, epoch, worlds, Len(sent))
    BY <1>1 DEF ToldOf, Gone
  <2> HIDE DEF s
  <2> QED
    BY <1>1, <2>1, <2>2, <1>a, <1>b
<1>6. CASE StartCursor(c)
  <2> DEFINE s == [r EXCEPT !.at = "scene", !.cursor = Len(recorded),
                            !.joined = Len(recorded)]
  <2>1. conn' = [conn EXCEPT ![c] = s] /\ UNCHANGED <<sent, epoch, worlds>> /\ r.at = "cursor"
    BY <1>6 DEF StartCursor, Becomes, LoopKeeps
  <2>2. ToldOf(s, epoch, worlds, Len(sent))
    BY <1>1, <1>2, <2>1 DEF ToldOf, Connection
  <2> HIDE DEF s
  <2> QED
    BY <1>1, <2>1, <2>2, <1>a, <1>b
<1>7. CASE SendFirstScene(c)
  <2> DEFINE s == [r EXCEPT !.at = "live", !.told = scene]
  <2>1. conn' = [conn EXCEPT ![c] = s] /\ UNCHANGED <<sent, epoch, worlds>> /\ r.at = "scene"
    BY <1>7 DEF SendFirstScene, Becomes, LoopKeeps
  <2>2. Since(scene, r.sentEpoch + 1, worlds)
    BY <1>1, <1>2, <1>4 DEF ToldOf
  <2>3. ToldOf(s, epoch, worlds, Len(sent))
    BY <1>1, <1>2, <2>1, <2>2 DEF ToldOf, Connection
  <2> HIDE DEF s
  <2> QED
    BY <1>1, <2>1, <2>3, <1>a, <1>b
<1>8. CASE Snapshot(c)
  <2> DEFINE s == [r EXCEPT
                     !.stream = IF epoch # r.sentEpoch THEN "push" ELSE "frame",
                     !.snapEpoch = IF epoch # r.sentEpoch THEN epoch ELSE 0,
                     !.snapFrame = latest]
  <2>1. conn' = [conn EXCEPT ![c] = s] /\ UNCHANGED <<sent, epoch, worlds>>
    BY <1>8 DEF Snapshot, Becomes, LoopKeeps
  <2>2. latest # None => Placed(latest, epoch + 1, worlds)
    BY DEF Epochs
  <2>3. ToldOf(s, epoch, worlds, Len(sent))
    BY <1>1, <1>2, <2>2 DEF ToldOf, Connection
  <2> HIDE DEF s
  <2> QED
    BY <1>1, <2>1, <2>3, <1>a, <1>b
<1>9. CASE PushScene(c)
  <2> DEFINE s == [r EXCEPT !.stream = "frame", !.told = scene,
                            !.sentEpoch = r.snapEpoch, !.snapEpoch = 0]
  <2>1. /\ conn' = [conn EXCEPT ![c] = s] /\ UNCHANGED <<sent, epoch, worlds>>
        /\ r.stream = "push" /\ r.at = "live"
    BY <1>9 DEF PushScene, Streaming, Becomes, LoopKeeps
  <2>2. Since(scene, r.snapEpoch + 1, worlds)
    BY <1>1, <1>2, <1>4 DEF ToldOf
  <2>3. r.shown # None => Precedes(r.shown, scene, worlds)
    BY <1>1, <1>2, <1>3 DEF ToldOf, Precedes
  <2>4. ToldOf(s, epoch, worlds, Len(sent))
    BY <1>1, <1>2, <2>1, <2>2, <2>3 DEF ToldOf, Connection
  <2> HIDE DEF s
  <2> QED
    BY <1>1, <2>1, <2>4, <1>a, <1>b
<1>10. CASE SendFrame(c)
  <2> DEFINE s == [r EXCEPT
                     !.stream = "poll", !.snapFrame = None, !.shown = r.snapFrame,
                     !.cursor = Len(recorded), !.heard = @ \o Fresh(c)]
  <2>1. /\ conn' = [conn EXCEPT ![c] = s] /\ UNCHANGED <<sent, epoch, worlds>>
        /\ r.stream = "frame" /\ r.at = "live" /\ r.snapFrame # None
    BY <1>10 DEF SendFrame, Streaming, Becomes, LoopKeeps
  <2>2. Placed(r.snapFrame, r.sentEpoch + 1, worlds) /\ Since(r.told, r.sentEpoch + 1, worlds)
    BY <1>2, <2>1 DEF ToldOf
  <2>3. Precedes(r.snapFrame, r.told, worlds)
    BY <1>1, <2>2 DEF Placed, Since, Precedes
  <2>4. /\ s.sentEpoch = r.sentEpoch /\ s.snapEpoch = r.snapEpoch /\ s.awaits = r.awaits
        /\ s.told = r.told /\ s.at = "live" /\ s.shown = r.snapFrame /\ s.snapFrame = None
    BY <1>1, <2>1 DEF Connection
  <2> HIDE DEF s
  <2>5. ToldOf(s, epoch, worlds, Len(sent))
    BY <1>2, <2>1, <2>3, <2>4 DEF ToldOf
  <2> QED
    BY <1>1, <2>1, <2>5, <1>a, <1>b
<1>11. CASE SkipFrame(c)
  <2> DEFINE s == [r EXCEPT !.stream = "poll", !.snapFrame = None]
  <2>1. conn' = [conn EXCEPT ![c] = s] /\ UNCHANGED <<sent, epoch, worlds>>
    BY <1>11 DEF SkipFrame, Becomes, LoopKeeps
  <2>2. ToldOf(s, epoch, worlds, Len(sent))
    BY <1>1, <1>2 DEF ToldOf, Connection
  <2> HIDE DEF s
  <2> QED
    BY <1>1, <2>1, <2>2, <1>a, <1>b
<1>12. ASSUME NEW kind \in Kinds, Submit(c, kind) PROVE Told'
  <2> DEFINE s == [r EXCEPT !.awaits = Len(sent) + 1]
  <2>1. /\ conn' = [conn EXCEPT ![c] = s] /\ UNCHANGED <<epoch, worlds>>
        /\ sent' = Append(sent, kind)
    BY <1>12 DEF Submit
  <2>2. Len(sent') = Len(sent) + 1 /\ Len(sent') \in Nat /\ Len(sent) <= Len(sent')
    BY <1>1, <2>1 DEF TypeOK
  <2>3. ToldOf(s, epoch, worlds, Len(sent'))
    BY <1>1, <1>2, <2>2 DEF ToldOf, Connection
  <2> HIDE DEF s
  <2> QED
    BY <1>1, <2>1, <2>2, <2>3, <1>a, <1>b
<1>13. CASE Reply(c)
  <2> DEFINE s == [r EXCEPT !.awaits = None]
  <2>1. r.awaits \in 1 .. Len(sent) /\ sent \in Seq(Kinds)
    BY <1>1, <1>2, <1>13, SimLoopAssumption DEF Reply, ToldOf, TypeOK, Connection, Cmd
  <2>2. sent[r.awaits] # "load_scenario"
    BY <2>1
  <2>3. /\ conn' = [conn EXCEPT ![c] = [r EXCEPT !.awaits = None, !.told = r.told]]
        /\ UNCHANGED <<sent, epoch, worlds>>
    BY <1>13, <2>2 DEF Reply, Becomes, LoopKeeps
  <2>4. [r EXCEPT !.awaits = None, !.told = r.told] = s
    BY <1>1 DEF Connection
  <2>5. ToldOf(s, epoch, worlds, Len(sent))
    BY <1>1, <1>2 DEF ToldOf, Connection
  <2> HIDE DEF s
  <2> QED
    BY <1>1, <2>3, <2>4, <2>5, <1>a, <1>b
<1>14. CASE TimeOut(c)
  <2> DEFINE s == [r EXCEPT !.awaits = None]
  <2>1. conn' = [conn EXCEPT ![c] = s] /\ UNCHANGED <<sent, epoch, worlds>>
    BY <1>14 DEF TimeOut, LoopKeeps
  <2>2. ToldOf(s, epoch, worlds, Len(sent))
    BY <1>1, <1>2 DEF ToldOf, Connection
  <2> HIDE DEF s
  <2> QED
    BY <1>1, <2>1, <2>2, <1>a, <1>b
<1>15. CASE Disconnect(c)
  <2>1. conn' = [conn EXCEPT ![c] = Gone] /\ UNCHANGED <<sent, epoch, worlds>>
    BY <1>15 DEF Disconnect, LoopKeeps
  <2>2. ToldOf(Gone, epoch, worlds, Len(sent))
    BY <1>1 DEF ToldOf, Gone
  <2> QED
    BY <1>1, <2>1, <2>2, <1>a, <1>b
<1> QED
  BY <1>5, <1>6, <1>7, <1>8, <1>9, <1>10, <1>11, <1>12, <1>13, <1>14, <1>15 DEF Client

\* Where the only way to change the world is a build, a client is never shown a
\* frame of a world newer than the last it was told of: for any number of
\* clients, commands and swaps.
THEOREM FramesFollowScenes ==
  ASSUME "load_scenario" \notin Kinds
  PROVE  Spec => []FrameNeverAhead
<1>1. Init => Order /\ DoneBuilds /\ Epochs /\ Told
  <2> SUFFICES ASSUME Init PROVE Epochs /\ Told
    BY OrderStarts
  <2>1. /\ worlds = <<0>> /\ scene = 0 /\ epoch = 0 /\ at = "commands" /\ latest = None
        /\ sent = <<>> /\ \A c \in Conn : conn[c] = Gone
    BY DEF Init
  <2>2. Epochs
    BY <2>1 DEF Epochs
  <2>3. ToldOf(Gone, 0, <<0>>, 0)
    BY DEF ToldOf, Gone
  <2>4. Len(sent) = 0
    BY <2>1
  <2> QED
    BY <2>1, <2>2, <2>3, <2>4 DEF Told
<1>2. TypeOK /\ Order /\ Epochs /\ Told /\ [Next]_vars => Epochs' /\ Told'
  <2> SUFFICES ASSUME TypeOK, Order, Epochs, Told, [Next]_vars PROVE Epochs' /\ Told'
    OBVIOUS
  <2>1. Epochs'
    BY EpochsStep
  <2>2. ASSUME NEW c \in Conn, Client(c) PROVE Told'
    BY <2>2, ToldClient
  <2>3. CASE UNCHANGED vars \/ Thread \/ Builder
    <3>1. conn' = conn /\ sent' = sent
      BY <2>3 DEF vars, Thread, DrainCommand, NoMoreCommands, DrainEvents, NothingPending,
                  AdoptPending, BumpEpoch, StepWorld, Publish,
                  Builder, StartBuild, BuildFails, BuildReturns, OfferScene, BuilderKeeps
    <3> QED
      BY <2>1, <3>1, ToldKept
  <2> QED
    BY <2>1, <2>2, <2>3 DEF Next
<1>3. TypeOK /\ Order /\ Told => FrameNeverAhead
  <2> SUFFICES ASSUME TypeOK, Order, Told, NEW c \in Conn, conn[c].shown # None
               PROVE  Rank(conn[c].shown) <= Rank(conn[c].told)
    BY DEF FrameNeverAhead
  <2>1. Precedes(conn[c].shown, conn[c].told, worlds)
    BY DEF Told, ToldOf
  <2>2. PICK i, j \in 1 .. Len(worlds) :
          i <= j /\ worlds[i] = conn[c].shown /\ worlds[j] = conn[c].told
    BY <2>1 DEF Precedes
  <2>3. DOMAIN worlds = 1 .. Len(worlds) /\ Len(worlds) \in Nat
    BY OrderTyped
  <2>4. \A m, n \in 1 .. Len(worlds) : worlds[m] = worlds[n] => m = n
    <3> SUFFICES ASSUME NEW m \in 1 .. Len(worlds), NEW n \in 1 .. Len(worlds), m # n
                 PROVE  worlds[m] # worlds[n]
      OBVIOUS
    <3>1. m < n \/ n < m
      BY <2>3
    <3> QED
      BY <3>1 DEF Order, Adopted
  <2>5. Rank(conn[c].shown) = i
    BY <2>2, <2>3, <2>4 DEF Rank
  <2>6. Rank(conn[c].told) = j
    BY <2>2, <2>3, <2>4 DEF Rank
  <2> QED
    BY <2>2, <2>5, <2>6
<1> QED
  BY <1>1, <1>2, <1>3, InitTyped, NextTyped, OrderStep, PTL DEF Spec
=============================================================================
