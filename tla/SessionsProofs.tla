--------------------------- MODULE SessionsProofs ---------------------------
(***************************************************************************)
(* Proofs about Sessions, for every set of connections, every cap and      *)
(* every length of line.                                                   *)
(*                                                                         *)
(* The inductive invariant is the conjunction of the invariants the run    *)
(* checks: the counter equals the number of slot owners (SlotsConserved)   *)
(* because whoever is popped from the line owned no slot before            *)
(* (LineSound), and a slot is handed over only when somebody waits, which  *)
(* happens only when every slot is in use (NoIdleSlot).                    *)
(***************************************************************************)
EXTENDS Sessions, FiniteSetTheorems, SequenceTheorems, TLAPS

IInv == TypeOK /\ SlotsConserved /\ NoIdleSlot /\ LineSound

-----------------------------------------------------------------------------
(* Facts about the line as a sequence. *)

\* Joining at the back keeps everybody once and adds only the newcomer.
LEMMA AppendInLine ==
  ASSUME NEW S, NEW s \in Seq(S), NEW e \in S, IsInjective(s), e \notin ToSet(s)
  PROVE  /\ Append(s, e) \in Seq(S)
         /\ Len(Append(s, e)) = Len(s) + 1
         /\ IsInjective(Append(s, e))
         /\ ToSet(Append(s, e)) = ToSet(s) \cup {e}
<1> DEFINE t == Append(s, e)
<1>1. /\ t \in Seq(S)
      /\ Len(t) = Len(s) + 1
      /\ \A i \in 1..Len(s) : t[i] = s[i]
      /\ t[Len(s) + 1] = e
  BY AppendProperties
<1>2. DOMAIN s = 1..Len(s) /\ DOMAIN t = 1..(Len(s) + 1) /\ Len(s) \in Nat
  BY <1>1, LenProperties
<1>3. \A i \in 1..Len(s) : s[i] # e
  BY <1>2 DEF ToSet
<1>4. IsInjective(t)
  BY <1>1, <1>2, <1>3 DEF IsInjective
<1>5. ToSet(t) = ToSet(s) \cup {e}
  <2>1. \A x \in ToSet(t) : x \in ToSet(s) \cup {e}
    BY <1>1, <1>2 DEF ToSet
  <2>2. \A x \in ToSet(s) : x \in ToSet(t)
    BY <1>1, <1>2 DEF ToSet
  <2>3. e \in ToSet(t)
    BY <1>1, <1>2 DEF ToSet
  <2> QED BY <2>1, <2>2, <2>3
<1> QED BY <1>1, <1>4, <1>5

\* Popping the head removes exactly the head.
LEMMA TailOfLine ==
  ASSUME NEW S, NEW s \in Seq(S), s # <<>>, IsInjective(s)
  PROVE  /\ Head(s) \in S
         /\ Head(s) \in ToSet(s)
         /\ Tail(s) \in Seq(S)
         /\ Len(Tail(s)) = Len(s) - 1
         /\ IsInjective(Tail(s))
         /\ ToSet(Tail(s)) = ToSet(s) \ {Head(s)}
<1> DEFINE t == Tail(s)
<1>1. /\ Head(s) \in S
      /\ t \in Seq(S)
      /\ Len(t) = Len(s) - 1
      /\ \A i \in 1..Len(t) : t[i] = s[i + 1]
      /\ Head(s) = s[1]
      /\ Len(s) \in Nat \ {0}
  BY HeadTailProperties, EmptySeq, LenProperties
<1>2. DOMAIN s = 1..Len(s) /\ DOMAIN t = 1..(Len(s) - 1)
  BY <1>1, LenProperties
<1>3. IsInjective(t)
  BY <1>1, <1>2 DEF IsInjective
<1>4. Head(s) \in ToSet(s)
  BY <1>1, <1>2 DEF ToSet
<1>5. ToSet(t) = ToSet(s) \ {Head(s)}
  <2>1. ASSUME NEW x \in ToSet(t) PROVE x \in ToSet(s) \ {Head(s)}
    <3>1. PICK i \in 1..(Len(s) - 1) : x = t[i]
      BY <1>2 DEF ToSet
    <3>2. x = s[i + 1] /\ i + 1 \in 1..Len(s) /\ i + 1 # 1 /\ 1 \in 1..Len(s)
      BY <3>1, <1>1
    <3> QED BY <3>2, <1>1, <1>2 DEF ToSet, IsInjective
  <2>2. ASSUME NEW x \in ToSet(s) \ {Head(s)} PROVE x \in ToSet(t)
    <3>1. PICK i \in 1..Len(s) : x = s[i]
      BY <1>2 DEF ToSet
    <3>2. i # 1
      BY <3>1, <1>1
    <3>3. i - 1 \in 1..(Len(s) - 1) /\ t[i - 1] = s[i]
      BY <3>2, <1>1, <1>2
    <3> QED BY <3>1, <3>3, <1>2 DEF ToSet
  <2> QED BY <2>1, <2>2
<1> QED BY <1>1, <1>3, <1>4, <1>5

\* Leaving from place i removes exactly who stood there.
LEMMA RemovedFromLine ==
  ASSUME NEW S, NEW s \in Seq(S), NEW i \in 1..Len(s), IsInjective(s)
  PROVE  /\ RemoveAt(s, i) \in Seq(S)
         /\ Len(RemoveAt(s, i)) = Len(s) - 1
         /\ IsInjective(RemoveAt(s, i))
         /\ ToSet(RemoveAt(s, i)) = ToSet(s) \ {s[i]}
<1> DEFINE t == RemoveAt(s, i)
           a == SubSeq(s, 1, i - 1)
           b == SubSeq(s, i + 1, Len(s))
<1>1. Len(s) \in Nat /\ DOMAIN s = 1..Len(s) /\ \A j \in 1..Len(s) : s[j] \in S
  BY LenProperties, ElementOfSeq
<1>2. /\ a \in Seq(S) /\ Len(a) = i - 1
      /\ \A j \in 1..(i - 1) : a[j] = s[j]
  <2>1. 1 \in Int /\ i - 1 \in Int /\ \A j \in 1..(i - 1) : s[j] \in S
    BY <1>1
  <2>2. /\ a \in Seq(S)
        /\ Len(a) = IF 1 <= i - 1 THEN i - 1 - 1 + 1 ELSE 0
        /\ \A j \in 1..(i - 1 - 1 + 1) : a[j] = s[1 + j - 1]
    BY <2>1, SubSeqProperties
  <2> HIDE DEF a
  <2> QED BY <2>2, <1>1
<1>3. /\ b \in Seq(S) /\ Len(b) = Len(s) - i
      /\ \A j \in 1..(Len(s) - i) : b[j] = s[i + j]
  <2>1. i + 1 \in Int /\ Len(s) \in Int /\ \A j \in (i + 1)..Len(s) : s[j] \in S
    BY <1>1
  <2>2. /\ b \in Seq(S)
        /\ Len(b) = IF i + 1 <= Len(s) THEN Len(s) - (i + 1) + 1 ELSE 0
        /\ \A j \in 1..(Len(s) - (i + 1) + 1) : b[j] = s[i + 1 + j - 1]
    BY <2>1, SubSeqProperties
  <2>3. \A j \in 1..(Len(s) - i) : i + 1 + j - 1 = i + j
    BY <1>1
  <2> HIDE DEF b
  <2> QED BY <2>2, <2>3, <1>1
<1>4. t = a \o b
  BY DEF RemoveAt
<1> HIDE DEF a, b, t
<1>5. /\ t \in Seq(S)
      /\ Len(t) = Len(s) - 1
      /\ \A j \in 1..Len(t) : t[j] = IF j <= i - 1 THEN a[j] ELSE b[j - (i - 1)]
  <2>1. /\ a \o b \in Seq(S)
        /\ Len(a \o b) = Len(a) + Len(b)
        /\ \A j \in 1..(Len(a) + Len(b)) :
             (a \o b)[j] = IF j <= Len(a) THEN a[j] ELSE b[j - Len(a)]
    BY <1>2, <1>3, ConcatProperties
  <2>2. Len(a) = i - 1 /\ Len(a) + Len(b) = Len(s) - 1
    BY <1>1, <1>2, <1>3
  <2>3. t \in Seq(S) /\ Len(t) = Len(s) - 1
    BY <2>1, <2>2, <1>4
  <2>4. \A j \in 1..(Len(s) - 1) : t[j] = IF j <= i - 1 THEN a[j] ELSE b[j - (i - 1)]
    BY <2>1, <2>2, <1>4, Zenon
  <2> QED BY <2>3, <2>4
<1>6. \A j \in 1..(Len(s) - 1) : t[j] = IF j < i THEN s[j] ELSE s[j + 1]
  <2> TAKE j \in 1..(Len(s) - 1)
  <2>1. CASE j < i
    <3>1. j \in 1..(i - 1) /\ j <= i - 1
      BY <2>1, <1>1
    <3> QED BY <3>1, <2>1, <1>2, <1>5
  <2>2. CASE ~(j < i)
    <3>1. j - (i - 1) \in 1..(Len(s) - i) /\ i + (j - (i - 1)) = j + 1 /\ ~(j <= i - 1)
      BY <2>2, <1>1
    <3>2. t[j] = b[j - (i - 1)]
      BY <3>1, <1>5
    <3>3. b[j - (i - 1)] = s[i + (j - (i - 1))]
      BY <3>1, <1>3
    <3> QED BY <3>1, <3>2, <3>3, <2>2
  <2> QED BY <2>1, <2>2
<1>7. DOMAIN t = 1..(Len(s) - 1)
  BY <1>5, LenProperties
<1>8. IsInjective(t)
  <2> SUFFICES ASSUME NEW j \in 1..(Len(s) - 1), NEW k \in 1..(Len(s) - 1), t[j] = t[k]
               PROVE  j = k
    BY <1>7 DEF IsInjective
  <2> DEFINE from(m) == IF m < i THEN m ELSE m + 1
  <2>1. from(j) \in 1..Len(s) /\ from(k) \in 1..Len(s)
    BY <1>1
  <2>2. t[j] = s[from(j)] /\ t[k] = s[from(k)]
    BY <1>6
  <2>3. from(j) = from(k)
    BY <2>1, <2>2, <1>1 DEF IsInjective
  <2> QED BY <2>3
<1>9. ToSet(t) = ToSet(s) \ {s[i]}
  <2>1. ASSUME NEW x \in ToSet(t) PROVE x \in ToSet(s) \ {s[i]}
    <3>1. PICK j \in 1..(Len(s) - 1) : x = t[j]
      BY <1>7 DEF ToSet
    <3>2. \E k \in 1..Len(s) : k # i /\ x = s[k]
      <4>1. CASE j < i  BY <4>1, <3>1, <1>1, <1>6
      <4>2. CASE ~(j < i)  BY <4>2, <3>1, <1>1, <1>6
      <4> QED BY <4>1, <4>2
    <3> QED BY <3>2, <1>1 DEF ToSet, IsInjective
  <2>2. ASSUME NEW x \in ToSet(s) \ {s[i]} PROVE x \in ToSet(t)
    <3>1. PICK k \in 1..Len(s) : x = s[k] /\ k # i
      BY <1>1 DEF ToSet
    <3>2. CASE k < i
      <4>1. k \in 1..(Len(s) - 1) /\ t[k] = s[k]
        BY <3>2, <1>1, <1>6
      <4> QED BY <4>1, <3>1, <1>7 DEF ToSet
    <3>3. CASE k > i
      <4>1. k - 1 \in 1..(Len(s) - 1) /\ t[k - 1] = s[k]
        BY <3>3, <1>1, <1>6
      <4> QED BY <4>1, <3>1, <1>7 DEF ToSet
    <3> QED BY <3>1, <3>2, <3>3
  <2> QED BY <2>1, <2>2
<1> QED BY <1>5, <1>8, <1>9 DEF t

-----------------------------------------------------------------------------
(* Who owns a slot. *)

\* There are finitely many slot owners, so they can be counted.
LEMMA HoldersFinite ==
  ASSUME TypeOK
  PROVE  Holders \in SUBSET Conn /\ IsFiniteSet(Holders) /\ Cardinality(Holders) \in Nat
<1>1. Holders \in SUBSET Conn
  BY DEF Holders, TypeOK
<1> QED BY <1>1, FS_Subset, FS_CardinalityType, SessionsAssumption

\* Whoever stands in the line owns no slot, and a handler that owns one does
\* not stand in the line.
LEMMA LineOwnsNothing ==
  ASSUME TypeOK, LineSound
  PROVE  ToSet(waiters) \cap Holders = {}
BY DEF LineSound, Holders, InLine, Holding, TypeOK

\* The control state of a handler that returns.
LEMMA Returned ==
  ASSUME TypeOK, NEW c \in Conn, pc' = [pc EXCEPT ![c] = "out"]
  PROVE  /\ \A x \in Conn : pc'[x] \in Holding <=> x # c /\ pc[x] \in Holding
         /\ \A x \in Conn : pc'[x] \in InLine <=> x # c /\ pc[x] \in InLine
BY DEF TypeOK, Holding, InLine

\* release, called by a slot owner on its way out: the slot is either handed
\* to the head of the line or returned, and the invariant survives.
LEMMA ReleaseKeeps ==
  ASSUME IInv, NEW c \in Conn, c \in Holders, Release(c),
         pc' = [pc EXCEPT ![c] = "out"]
  PROVE  /\ reserved' \in Nat
         /\ waiters' \in Seq(Conn)
         /\ admitted' \in SUBSET Conn
         /\ changed' \in [Conn -> BOOLEAN]
         /\ SlotsConserved' /\ NoIdleSlot' /\ LineSound'
<1> USE DEF IInv
<1>1. TypeOK /\ LineSound /\ SlotsConserved /\ NoIdleSlot
  OBVIOUS
<1>2. /\ \A x \in Conn : pc'[x] \in Holding <=> x # c /\ pc[x] \in Holding
      /\ \A x \in Conn : pc'[x] \in InLine <=> x # c /\ pc[x] \in InLine
  BY <1>1, Returned
<1>3. c \notin ToSet(waiters)
  BY <1>1, LineOwnsNothing
<1>4. Holders \in SUBSET Conn /\ IsFiniteSet(Holders) /\ Cardinality(Holders) \in Nat
  BY <1>1, HoldersFinite
<1>5. Limit \in Nat
  BY SessionsAssumption
<1>6. /\ IsFiniteSet(Holders \ {c})
      /\ Cardinality(Holders \ {c}) = Cardinality(Holders) - 1
  BY <1>4, FS_RemoveElement
<1>7. CASE waiters # <<>>
  <2> DEFINE h == Head(waiters)
  <2>1. /\ waiters' = Tail(waiters)
        /\ admitted' = (admitted \ {c}) \cup {h}
        /\ changed' = Notified(waiters)
        /\ reserved' = reserved
    BY <1>7 DEF Release
  <2>2. /\ h \in Conn /\ h \in ToSet(waiters)
        /\ Tail(waiters) \in Seq(Conn)
        /\ Len(Tail(waiters)) = Len(waiters) - 1
        /\ IsInjective(Tail(waiters))
        /\ ToSet(Tail(waiters)) = ToSet(waiters) \ {h}
    BY <1>1, <1>7, TailOfLine DEF TypeOK, LineSound
  <2> HIDE DEF h
  <2>3. h # c /\ h \notin Holders
    BY <1>1, <1>3, <2>2, LineOwnsNothing
  <2>4. Holders' = (Holders \ {c}) \cup {h}
    BY <1>1, <1>2, <2>1, <2>3 DEF Holders, TypeOK
  <2>5. Cardinality((Holders \ {c}) \cup {h}) = Cardinality(Holders)
    <3>1. Cardinality((Holders \ {c}) \cup {h}) = Cardinality(Holders \ {c}) + 1
      BY <1>6, <2>3, FS_AddElement
    <3> QED BY <3>1, <1>4, <1>6
  <2>6. SlotsConserved'
    BY <1>1, <2>1, <2>4, <2>5 DEF SlotsConserved
  <2>7. NoIdleSlot'
    BY <1>1, <1>7, <2>1 DEF NoIdleSlot
  <2>8. LineSound'
    <3>1. Len(waiters') <= QueueMax
      BY <1>1, <2>1, <2>2, SessionsAssumption, LenProperties DEF LineSound, TypeOK
    <3>2. ToSet(waiters') \cap admitted' = {}
      BY <1>1, <2>1, <2>2 DEF LineSound
    <3>3. ASSUME NEW x \in Conn
          PROVE  pc'[x] \in InLine <=> x \in ToSet(waiters') \cup admitted'
      BY <1>1, <1>2, <1>3, <2>1, <2>2, <2>3 DEF LineSound
    <3> QED BY <2>1, <2>2, <3>1, <3>2, <3>3 DEF LineSound
  <2>9. changed' \in [Conn -> BOOLEAN]
    BY <1>1, <2>1 DEF Notified, TypeOK
  <2> QED BY <1>1, <2>1, <2>2, <2>6, <2>7, <2>8, <2>9 DEF TypeOK
<1>8. CASE waiters = <<>>
  <2>1. /\ reserved' = reserved - 1
        /\ admitted' = admitted \ {c}
        /\ waiters' = waiters /\ changed' = changed
    BY <1>8 DEF Release
  <2>2. Holders' = Holders \ {c}
    BY <1>1, <1>2, <2>1 DEF Holders, TypeOK
  <2>3. Cardinality(Holders \ {c}) \in Nat
    BY <1>6, FS_CardinalityType
  <2>4. SlotsConserved' /\ reserved' \in Nat
    BY <1>1, <1>4, <1>5, <1>6, <2>1, <2>2, <2>3 DEF SlotsConserved
  <2>5. NoIdleSlot'
    BY <1>8, <2>1 DEF NoIdleSlot
  <2>6. LineSound'
    BY <1>1, <1>2, <1>3, <2>1 DEF LineSound
  <2> QED BY <1>1, <2>1, <2>4, <2>5, <2>6 DEF TypeOK
<1> QED BY <1>7, <1>8

\* leave, called by a handler in line whose client is gone.
LEMMA LeaveKeeps ==
  ASSUME IInv, NEW c \in Conn, pc[c] \in InLine, Leave(c),
         pc' = [pc EXCEPT ![c] = "out"]
  PROVE  /\ reserved' \in Nat
         /\ waiters' \in Seq(Conn)
         /\ admitted' \in SUBSET Conn
         /\ changed' \in [Conn -> BOOLEAN]
         /\ SlotsConserved' /\ NoIdleSlot' /\ LineSound'
<1> USE DEF IInv
<1>1. CASE c \in admitted
  <2>1. c \in Holders /\ Release(c)
    BY <1>1 DEF Holders, Leave
  <2> QED BY <2>1, ReleaseKeeps
<1>2. CASE c \notin admitted
  <2>1. TypeOK /\ LineSound /\ SlotsConserved /\ NoIdleSlot
    OBVIOUS
  <2>2. PICK i \in DOMAIN waiters :
             /\ waiters[i] = c
             /\ waiters' = RemoveAt(waiters, i)
             /\ changed' = Notified(RemoveAt(waiters, i))
    BY <1>2 DEF Leave
  <2>3. reserved' = reserved /\ admitted' = admitted
    BY <1>2 DEF Leave
  <2>4. waiters \in Seq(Conn) /\ Len(waiters) \in Nat /\ i \in 1..Len(waiters)
    BY <2>1, LenProperties DEF TypeOK
  <2>5. /\ waiters' \in Seq(Conn)
        /\ Len(waiters') = Len(waiters) - 1
        /\ IsInjective(waiters')
        /\ ToSet(waiters') = ToSet(waiters) \ {c}
    BY <2>1, <2>2, <2>4, RemovedFromLine DEF LineSound
  <2>6. /\ \A x \in Conn : pc'[x] \in Holding <=> x # c /\ pc[x] \in Holding
        /\ \A x \in Conn : pc'[x] \in InLine <=> x # c /\ pc[x] \in InLine
    BY <2>1, Returned
  <2>7. Holders' = Holders
    BY <2>1, <2>3, <2>6 DEF Holders, Holding, InLine, TypeOK
  <2>8. SlotsConserved'
    BY <2>1, <2>3, <2>7 DEF SlotsConserved
  <2>9. NoIdleSlot'
    <3>1. waiters # <<>>
      BY <2>4, EmptySeq
    <3> QED BY <3>1, <2>1, <2>3 DEF NoIdleSlot
  <2>10. LineSound'
    <3>1. Len(waiters') <= QueueMax
      BY <2>1, <2>4, <2>5, SessionsAssumption DEF LineSound
    <3>2. ASSUME NEW x \in Conn
          PROVE  pc'[x] \in InLine <=> x \in ToSet(waiters') \cup admitted'
      BY <1>2, <2>1, <2>3, <2>5, <2>6 DEF LineSound
    <3>3. ToSet(waiters') \cap admitted' = {}
      BY <2>1, <2>3, <2>5 DEF LineSound
    <3> QED BY <2>5, <3>1, <3>2, <3>3 DEF LineSound
  <2>11. changed' \in [Conn -> BOOLEAN]
    BY <2>1, <2>2 DEF Notified, TypeOK
  <2> QED BY <2>1, <2>3, <2>5, <2>8, <2>9, <2>10, <2>11 DEF TypeOK
<1> QED BY <1>1, <1>2

\* A handler that moves on within the line, or within its session, changes
\* neither the slots nor the line.
LEMMA MoveKeeps ==
  ASSUME IInv, NEW c \in Conn, NEW l \in InLine \cup Holding,
         pc' = [pc EXCEPT ![c] = l],
         pc[c] \in InLine <=> l \in InLine, pc[c] \in Holding <=> l \in Holding,
         UNCHANGED <<reserved, waiters, admitted>>
  PROVE  SlotsConserved' /\ NoIdleSlot' /\ LineSound'
<1> USE DEF IInv
<1>1. /\ \A x \in Conn : pc'[x] \in Holding <=> pc[x] \in Holding
      /\ \A x \in Conn : pc'[x] \in InLine <=> pc[x] \in InLine
  BY DEF TypeOK
<1>2. Holders' = Holders
  BY <1>1 DEF Holders
<1> QED BY <1>1, <1>2 DEF SlotsConserved, NoIdleSlot, LineSound

-----------------------------------------------------------------------------
(* The invariant is inductive. *)

\* Before the first socket every slot is free and the line is empty.
LEMMA InitInv == Init => IInv
<1> SUFFICES ASSUME Init PROVE IInv
  OBVIOUS
<1>1. ToSet(waiters) = {} /\ waiters = <<>> /\ Len(waiters) = 0
  BY EmptySeq DEF Init, ToSet
<1>2. TypeOK
  BY <1>1 DEF Init, TypeOK, InLine, Holding
<1>3. Holders = {}
  BY DEF Init, Holders, Holding
<1>4. SlotsConserved
  BY <1>3, FS_EmptySet, SessionsAssumption DEF Init, SlotsConserved
<1>5. LineSound
  BY <1>1, SessionsAssumption DEF Init, LineSound, InLine, IsInjective
<1> QED BY <1>1, <1>2, <1>4, <1>5 DEF IInv, NoIdleSlot

\* Each of the handlers' steps keeps it: one case per action of Next.
LEMMA StepInv == IInv /\ [Next]_vars => IInv'
<1> SUFFICES ASSUME IInv, [Next]_vars PROVE IInv'
  OBVIOUS
<1>0. TypeOK /\ SlotsConserved /\ NoIdleSlot /\ LineSound
  BY DEF IInv
<1>1. ASSUME NEW c \in Conn, ClientSpeaks(c) PROVE IInv'
  BY <1>0, <1>1 DEF ClientSpeaks, IInv, TypeOK, SlotsConserved, NoIdleSlot, LineSound, Holders
<1>2. ASSUME NEW c \in Conn, ClientGone(c) PROVE IInv'
  BY <1>0, <1>2 DEF ClientGone, IInv, TypeOK, SlotsConserved, NoIdleSlot, LineSound, Holders
<1>3. ASSUME NEW c \in Conn, ConnectAdmitted(c) PROVE IInv'
  <2> USE <1>3 DEF ConnectAdmitted
  <2>1. TypeOK'
    BY <1>0 DEF TypeOK, Holding
  <2>2. c \notin Holders
    BY <1>0 DEF Holders, Holding, InLine, LineSound
  <2>3. Holders' = Holders \cup {c}
    BY <1>0 DEF Holders, Holding, TypeOK
  <2>4. Cardinality(Holders \cup {c}) = Cardinality(Holders) + 1
    BY <1>0, <2>2, HoldersFinite, FS_AddElement
  <2>5. SlotsConserved'
    BY <1>0, <2>3, <2>4, SessionsAssumption DEF SlotsConserved, MayAdmit, TypeOK
  <2>6. NoIdleSlot'
    BY DEF NoIdleSlot, MayAdmit
  <2>7. LineSound'
    BY <1>0 DEF LineSound, TypeOK, InLine
  <2> QED BY <2>1, <2>5, <2>6, <2>7 DEF IInv
<1>4. ASSUME NEW c \in Conn, ConnectQueued(c) PROVE IInv'
  <2> USE <1>4 DEF ConnectQueued
  <2>1. c \notin ToSet(waiters) /\ c \notin admitted
    BY <1>0 DEF LineSound, InLine
  <2>2. /\ waiters' \in Seq(Conn)
        /\ Len(waiters') = Len(waiters) + 1
        /\ IsInjective(waiters')
        /\ ToSet(waiters') = ToSet(waiters) \cup {c}
    BY <1>0, <2>1, AppendInLine DEF TypeOK, LineSound
  <2>3. Len(waiters) \in Nat
    BY <1>0, LenProperties DEF TypeOK
  <2>4. TypeOK'
    BY <1>0, <2>2, <2>3 DEF TypeOK, InLine
  <2>5. Holders' = Holders
    BY <1>0 DEF Holders, Holding, TypeOK
  <2>6. SlotsConserved'
    BY <1>0, <2>5 DEF SlotsConserved
  <2>7. NoIdleSlot'
    BY <1>0, SessionsAssumption DEF NoIdleSlot, MayAdmit, SlotsConserved, TypeOK
  <2>8. LineSound'
    <3>1. Len(waiters') <= QueueMax
      BY <2>2, <2>3, SessionsAssumption
    <3>2. ToSet(waiters') \cap admitted' = {}
      BY <1>0, <2>1, <2>2 DEF LineSound
    <3>3. ASSUME NEW x \in Conn
          PROVE  pc'[x] \in InLine <=> x \in ToSet(waiters') \cup admitted'
      BY <1>0, <2>2 DEF LineSound, InLine, TypeOK
    <3> QED BY <2>2, <3>1, <3>2, <3>3 DEF LineSound
  <2> QED BY <2>4, <2>6, <2>7, <2>8 DEF IInv
<1>5. ASSUME NEW c \in Conn, StatusSent(c) PROVE IInv'
  <2>1. TypeOK'
    BY <1>0, <1>5 DEF StatusSent, TypeOK, InLine
  <2>2. SlotsConserved' /\ NoIdleSlot' /\ LineSound'
    BY <1>5, MoveKeeps DEF StatusSent, InLine, Holding
  <2> QED BY <2>1, <2>2 DEF IInv
<1>6. ASSUME NEW c \in Conn, StatusFailed(c) PROVE IInv'
  <2>1. /\ pc[c] \in InLine /\ Leave(c) /\ pc' = [pc EXCEPT ![c] = "out"]
        /\ inbox' = [inbox EXCEPT ![c] = {}] /\ told' = [told EXCEPT ![c] = 0]
        /\ UNCHANGED <<active, clients>>
    BY <1>6 DEF StatusFailed, HandlerReturns, InLine
  <2>2. /\ reserved' \in Nat /\ waiters' \in Seq(Conn)
        /\ admitted' \in SUBSET Conn /\ changed' \in [Conn -> BOOLEAN]
        /\ SlotsConserved' /\ NoIdleSlot' /\ LineSound'
    BY <2>1, LeaveKeeps
  <2> QED BY <1>0, <2>1, <2>2 DEF IInv, TypeOK
<1>7. ASSUME NEW c \in Conn, WokenByDisconnect(c) PROVE IInv'
  <2>1. /\ pc[c] \in InLine /\ Leave(c) /\ pc' = [pc EXCEPT ![c] = "out"]
        /\ inbox' = [inbox EXCEPT ![c] = {}] /\ told' = [told EXCEPT ![c] = 0]
        /\ UNCHANGED <<active, clients>>
    BY <1>7 DEF WokenByDisconnect, HandlerReturns, InLine
  <2>2. /\ reserved' \in Nat /\ waiters' \in Seq(Conn)
        /\ admitted' \in SUBSET Conn /\ changed' \in [Conn -> BOOLEAN]
        /\ SlotsConserved' /\ NoIdleSlot' /\ LineSound'
    BY <2>1, LeaveKeeps
  <2> QED BY <1>0, <2>1, <2>2 DEF IInv, TypeOK
<1>8. ASSUME NEW c \in Conn, WokenAdmitted(c) PROVE IInv'
  <2> USE <1>8 DEF WokenAdmitted, Woken
  <2>1. TypeOK'
    BY <1>0 DEF TypeOK, Holding
  <2>2. Holders' = Holders
    BY <1>0 DEF Holders, Holding, TypeOK
  <2>3. SlotsConserved' /\ NoIdleSlot'
    BY <1>0, <2>2 DEF SlotsConserved, NoIdleSlot
  <2>4. LineSound'
    BY <1>0 DEF LineSound, InLine, TypeOK
  <2> QED BY <2>1, <2>3, <2>4 DEF IInv
<1>9. ASSUME NEW c \in Conn, WokenWaiting(c) PROVE IInv'
  <2> USE <1>9 DEF WokenWaiting, Woken
  <2>1. Position(c) \in Nat
    <3>1. c \in ToSet(waiters)
      BY <1>0 DEF LineSound, InLine
    <3>2. \E i \in DOMAIN waiters : waiters[i] = c
      BY <3>1 DEF ToSet
    <3>3. DOMAIN waiters = 1..Len(waiters) /\ Len(waiters) \in Nat
      BY <1>0, LenProperties DEF TypeOK
    <3> QED BY <3>2, <3>3 DEF Position
  <2>2. TypeOK'
    BY <1>0, <2>1 DEF TypeOK, InLine
  <2>3. SlotsConserved' /\ NoIdleSlot' /\ LineSound'
    BY MoveKeeps DEF InLine, Holding
  <2> QED BY <2>2, <2>3 DEF IInv
<1>10. ASSUME NEW c \in Conn, BuildDone(c) PROVE IInv'
  <2>1. TypeOK'
    BY <1>0, <1>10 DEF BuildDone, TypeOK, Holding
  <2>2. SlotsConserved' /\ NoIdleSlot' /\ LineSound'
    BY <1>10, MoveKeeps DEF BuildDone, InLine, Holding
  <2> QED BY <2>1, <2>2 DEF IInv
<1>11. ASSUME NEW c \in Conn, BuildFailed(c) PROVE IInv'
  <2>1. /\ c \in Holders /\ Release(c) /\ pc' = [pc EXCEPT ![c] = "out"]
        /\ inbox' = [inbox EXCEPT ![c] = {}] /\ told' = [told EXCEPT ![c] = 0]
        /\ active' = active /\ clients' = clients - 1
    BY <1>11 DEF BuildFailed, HandlerReturns, Holders, Holding
  <2>2. /\ reserved' \in Nat /\ waiters' \in Seq(Conn)
        /\ admitted' \in SUBSET Conn /\ changed' \in [Conn -> BOOLEAN]
        /\ SlotsConserved' /\ NoIdleSlot' /\ LineSound'
    BY <2>1, ReleaseKeeps
  <2>3. clients' \in Int
    BY <1>0, <2>1 DEF TypeOK
  <2>4. /\ pc' \in [Conn -> {"out"} \cup InLine \cup Holding]
        /\ inbox' \in [Conn -> SUBSET {"message", "disconnect"}]
        /\ told' \in [Conn -> Nat] /\ active' \in SUBSET Conn
    BY <1>0, <2>1 DEF TypeOK
  <2> QED BY <2>2, <2>3, <2>4 DEF IInv, TypeOK
<1>12. ASSUME NEW c \in Conn, EndSession(c) PROVE IInv'
  <2>1. TypeOK'
    BY <1>0, <1>12 DEF EndSession, TypeOK, Holding
  <2>2. SlotsConserved' /\ NoIdleSlot' /\ LineSound'
    BY <1>12, MoveKeeps DEF EndSession, InLine, Holding
  <2> QED BY <2>1, <2>2 DEF IInv
<1>13. ASSUME NEW c \in Conn, StopDone(c) PROVE IInv'
  <2>1. /\ c \in Holders /\ Release(c) /\ pc' = [pc EXCEPT ![c] = "out"]
        /\ inbox' = [inbox EXCEPT ![c] = {}] /\ told' = [told EXCEPT ![c] = 0]
        /\ active' = active /\ clients' = clients - 1
    BY <1>13 DEF StopDone, HandlerReturns, Holders, Holding
  <2>2. /\ reserved' \in Nat /\ waiters' \in Seq(Conn)
        /\ admitted' \in SUBSET Conn /\ changed' \in [Conn -> BOOLEAN]
        /\ SlotsConserved' /\ NoIdleSlot' /\ LineSound'
    BY <2>1, ReleaseKeeps
  <2>3. clients' \in Int
    BY <1>0, <2>1 DEF TypeOK
  <2>4. /\ pc' \in [Conn -> {"out"} \cup InLine \cup Holding]
        /\ inbox' \in [Conn -> SUBSET {"message", "disconnect"}]
        /\ told' \in [Conn -> Nat] /\ active' \in SUBSET Conn
    BY <1>0, <2>1 DEF TypeOK
  <2> QED BY <2>2, <2>3, <2>4 DEF IInv, TypeOK
<1>14. CASE UNCHANGED vars
  BY <1>0, <1>14 DEF vars, IInv, TypeOK, SlotsConserved, NoIdleSlot, LineSound, Holders
<1> QED
  BY <1>1, <1>2, <1>3, <1>4, <1>5, <1>6, <1>7, <1>8, <1>9, <1>10, <1>11, <1>12,
     <1>13, <1>14 DEF Next, Disconnected, IdleOut, TimeUp

\* Every variable keeps its type, and the slots and the line stay sound.
LEMMA Inductive == Spec => []IInv
BY InitInv, StepInv, PTL DEF Spec

\* Every variable of the slot and line code stays within its type.
THEOREM TypeCorrect == Spec => []TypeOK
<1>1. IInv => TypeOK
  BY DEF IInv
<1> QED BY <1>1, Inductive, PTL

\* However sockets come, fail and go, `reserved` counts exactly the slot
\* owners and never passes max_sessions.
THEOREM SlotsAlwaysConserved == Spec => []SlotsConserved
<1>1. IInv => SlotsConserved
  BY DEF IInv
<1> QED BY <1>1, Inductive, PTL

\* Nobody ever waits beside a free slot.
THEOREM NeverIdleSlot == Spec => []NoIdleSlot
<1>1. IInv => NoIdleSlot
  BY DEF IInv
<1> QED BY <1>1, Inductive, PTL

\* The line holds everybody in line code once, and never more than queue_max.
THEOREM LineAlwaysSound == Spec => []LineSound
<1>1. IInv => LineSound
  BY DEF IInv
<1> QED BY <1>1, Inductive, PTL

-----------------------------------------------------------------------------
(* Wake-ups.  The strengthening speaks of the whole line code, not only of  *)
(* handlers asleep: while a status is being sent the event is already       *)
(* cleared, and a move in that window must set it again.                    *)

WakeInv ==
  \A c \in Conn :
    pc[c] \in InLine /\ ~changed[c] =>
      /\ c \notin admitted
      /\ told[c] \in DOMAIN waiters
      /\ waiters[told[c]] = c

\* Whoever is in line code and not notified by a release already knew its
\* place before, and is no longer concerned.
LEMMA NotifiedByRelease ==
  ASSUME IInv, WakeInv, NEW c \in Conn, Release(c), waiters # <<>>
  PROVE  \A x \in Conn : pc[x] \in InLine => changed'[x]
BY DEF IInv, WakeInv, Release, Notified, LineSound, TypeOK

\* Each step keeps it that a handler asleep in line knows its place or will be
\* woken.
LEMMA WakeStep == IInv /\ WakeInv /\ [Next]_vars => WakeInv'
<1> SUFFICES ASSUME IInv, WakeInv, [Next]_vars PROVE WakeInv'
  OBVIOUS
<1>0. TypeOK /\ LineSound /\ WakeInv
  BY DEF IInv
<1>a. ASSUME NEW c \in Conn, Release(c), pc' = [pc EXCEPT ![c] = "out"],
             told' = [told EXCEPT ![c] = 0]
      PROVE  WakeInv'
  <2>1. \A x \in Conn : pc'[x] \in InLine <=> x # c /\ pc[x] \in InLine
    BY <1>0, <1>a, Returned
  <2>2. CASE waiters # <<>>
    BY <2>1, <2>2, <1>a, NotifiedByRelease DEF WakeInv
  <2>3. CASE waiters = <<>>
    <3>1. waiters' = waiters /\ changed' = changed /\ admitted' = admitted \ {c}
      BY <2>3, <1>a DEF Release
    <3>2. \A x \in Conn : x # c => told'[x] = told[x]
      BY <1>0, <1>a DEF TypeOK
    <3> QED BY <2>1, <3>1, <3>2, <1>0 DEF WakeInv
  <2> QED BY <2>2, <2>3
<1>b. ASSUME NEW c \in Conn, Leave(c), pc' = [pc EXCEPT ![c] = "out"],
             told' = [told EXCEPT ![c] = 0]
      PROVE  WakeInv'
  <2>1. CASE c \in admitted
    BY <2>1, <1>a, <1>b DEF Leave
  <2>2. CASE c \notin admitted
    <3>1. \A x \in Conn : pc'[x] \in InLine <=> x # c /\ pc[x] \in InLine
      BY <1>0, <1>b, Returned
    <3>2. PICK i \in DOMAIN waiters :
               /\ waiters[i] = c
               /\ waiters' = RemoveAt(waiters, i)
               /\ changed' = Notified(RemoveAt(waiters, i))
      BY <2>2, <1>b DEF Leave
    <3>3. admitted' = admitted
      BY <2>2, <1>b DEF Leave
    <3>4. waiters \in Seq(Conn) /\ i \in 1..Len(waiters) /\ IsInjective(waiters)
      BY <1>0, <3>2, LenProperties DEF TypeOK, LineSound
    <3>5. ToSet(RemoveAt(waiters, i)) = ToSet(waiters) \ {c}
      BY <3>2, <3>4, RemovedFromLine
    <3>6. ASSUME NEW x \in Conn, pc'[x] \in InLine PROVE changed'[x]
      <4>1. x # c /\ x \in ToSet(waiters) \cup admitted
        BY <1>0, <3>1, <3>6 DEF LineSound
      <4>2. CASE x \in admitted
        <5>1. changed[x]
          BY <1>0, <3>1, <3>6, <4>2 DEF WakeInv, TypeOK
        <5> QED BY <5>1, <3>2 DEF Notified
      <4>3. CASE x \in ToSet(waiters)
        BY <4>1, <4>3, <3>2, <3>5 DEF Notified
      <4> QED BY <4>1, <4>2, <4>3
    <3> QED BY <3>6 DEF WakeInv
  <2> QED BY <2>1, <2>2
<1>1. ASSUME NEW c \in Conn, ClientSpeaks(c) \/ ClientGone(c) PROVE WakeInv'
  BY <1>0, <1>1 DEF ClientSpeaks, ClientGone, WakeInv
<1>2. ASSUME NEW c \in Conn, ConnectAdmitted(c) PROVE WakeInv'
  BY <1>0, <1>2 DEF ConnectAdmitted, WakeInv, TypeOK, InLine
<1>3. ASSUME NEW c \in Conn, ConnectQueued(c) PROVE WakeInv'
  <2> USE <1>3 DEF ConnectQueued
  <2>1. /\ waiters' \in Seq(Conn) /\ Len(waiters') = Len(waiters) + 1
        /\ \A i \in 1..Len(waiters) : waiters'[i] = waiters[i]
        /\ waiters'[Len(waiters) + 1] = c
    BY <1>0, AppendProperties DEF TypeOK
  <2>2. /\ DOMAIN waiters = 1..Len(waiters) /\ Len(waiters) \in Nat
        /\ DOMAIN waiters' = 1..(Len(waiters) + 1)
    BY <1>0, <2>1, LenProperties DEF TypeOK
  <2>3. c \notin admitted
    BY <1>0 DEF LineSound, InLine
  <2>4. ASSUME NEW x \in Conn, pc'[x] \in InLine, ~changed'[x]
        PROVE  x \notin admitted' /\ told'[x] \in DOMAIN waiters' /\ waiters'[told'[x]] = x
    <3>1. CASE x = c
      BY <3>1, <1>0, <2>1, <2>2, <2>3 DEF TypeOK
    <3>2. CASE x # c
      <4>1. pc[x] \in InLine /\ ~changed[x] /\ told'[x] = told[x]
        BY <3>2, <2>4, <1>0 DEF TypeOK
      <4>2. x \notin admitted /\ told[x] \in 1..Len(waiters) /\ waiters[told[x]] = x
        BY <4>1, <1>0, <2>2 DEF WakeInv
      <4> QED BY <4>1, <4>2, <2>1, <2>2
    <3> QED BY <3>1, <3>2
  <2> QED BY <2>4 DEF WakeInv
<1>4. ASSUME NEW c \in Conn, StatusSent(c) PROVE WakeInv'
  BY <1>0, <1>4 DEF StatusSent, WakeInv, TypeOK, InLine
<1>5. ASSUME NEW c \in Conn, StatusFailed(c) \/ WokenByDisconnect(c) PROVE WakeInv'
  BY <1>b, <1>5 DEF StatusFailed, WokenByDisconnect, HandlerReturns
<1>6. ASSUME NEW c \in Conn, WokenAdmitted(c) PROVE WakeInv'
  BY <1>0, <1>6 DEF WokenAdmitted, Woken, WakeInv, TypeOK, InLine
<1>7. ASSUME NEW c \in Conn, WokenWaiting(c) PROVE WakeInv'
  <2> USE <1>7 DEF WokenWaiting, Woken
  <2>1. Position(c) \in DOMAIN waiters /\ waiters[Position(c)] = c
    <3>1. c \in ToSet(waiters)
      BY <1>0 DEF LineSound, InLine
    <3> QED BY <3>1 DEF ToSet, Position
  <2> QED BY <2>1, <1>0 DEF WakeInv, TypeOK, InLine
<1>8. ASSUME NEW c \in Conn, BuildDone(c) \/ EndSession(c) PROVE WakeInv'
  BY <1>0, <1>8 DEF BuildDone, EndSession, WakeInv, TypeOK, InLine
<1>9. ASSUME NEW c \in Conn, BuildFailed(c) \/ StopDone(c) PROVE WakeInv'
  BY <1>a, <1>9 DEF BuildFailed, StopDone, HandlerReturns
<1>10. CASE UNCHANGED vars
  BY <1>0, <1>10 DEF vars, WakeInv
<1> QED
  BY <1>1, <1>2, <1>3, <1>4, <1>5, <1>6, <1>7, <1>8, <1>9, <1>10
     DEF Next, Disconnected, IdleOut, TimeUp

\* A handler asleep in line has its event set, or was last told the place it
\* still has: no place change and no admission is ever slept through.
THEOREM NeverLostWakeup == Spec => []NoLostWakeup
<1>1. Init => WakeInv
  BY DEF Init, WakeInv, InLine
<1>2. IInv /\ WakeInv => NoLostWakeup
  <2> SUFFICES ASSUME IInv, WakeInv, NEW c \in Conn, pc[c] = "parked", ~changed[c]
               PROVE  c \notin admitted /\ told[c] = Position(c)
    BY DEF NoLostWakeup
  <2>1. c \notin admitted /\ told[c] \in DOMAIN waiters /\ waiters[told[c]] = c
    BY DEF WakeInv, InLine
  <2>2. Position(c) \in DOMAIN waiters /\ waiters[Position(c)] = c
    BY <2>1 DEF Position
  <2>3. told[c] = Position(c)
    BY <2>1, <2>2 DEF IInv, LineSound, IsInjective
  <2> QED BY <2>1, <2>3
<1> QED BY <1>1, <1>2, WakeStep, Inductive, PTL DEF Spec

-----------------------------------------------------------------------------
(* What /health reports. *)

HealthInv ==
  /\ active = {c \in Conn : pc[c] = "running"}
  /\ clients = Cardinality({c \in Conn : pc[c] \in Holding})

\* Each step keeps what /health reports in accord with the handlers.
LEMMA HealthStep == IInv /\ HealthInv /\ [Next]_vars => HealthInv'
<1> SUFFICES ASSUME IInv, HealthInv, [Next]_vars PROVE HealthInv'
  OBVIOUS
<1> DEFINE Busy == {c \in Conn : pc[c] \in Holding}
<1>0. TypeOK /\ IsFiniteSet(Busy)
  BY FS_Subset, SessionsAssumption DEF IInv
<1>1. ASSUME NEW c \in Conn, pc[c] \notin Holding, pc' = [pc EXCEPT ![c] = "building"],
             clients' = clients + 1, active' = active
      PROVE  HealthInv'
  <2>1. Busy' = Busy \cup {c} /\ c \notin Busy
    BY <1>0, <1>1 DEF TypeOK, Holding
  <2>2. Cardinality(Busy \cup {c}) = Cardinality(Busy) + 1
    BY <1>0, <2>1, FS_AddElement
  <2>3. active' = {x \in Conn : pc'[x] = "running"}
    BY <1>0, <1>1 DEF TypeOK, HealthInv, Holding
  <2> QED BY <1>1, <2>1, <2>2, <2>3 DEF HealthInv
<1>2. ASSUME NEW c \in Conn, pc[c] \in Holding, pc[c] # "running",
             pc' = [pc EXCEPT ![c] = "out"], clients' = clients - 1, active' = active
      PROVE  HealthInv'
  <2>1. Busy' = Busy \ {c} /\ c \in Busy
    BY <1>0, <1>2 DEF TypeOK, Holding
  <2>2. Cardinality(Busy \ {c}) = Cardinality(Busy) - 1
    BY <1>0, <2>1, FS_RemoveElement
  <2>3. active' = {x \in Conn : pc'[x] = "running"}
    BY <1>0, <1>2 DEF TypeOK, HealthInv
  <2> QED BY <1>2, <2>1, <2>2, <2>3 DEF HealthInv
<1>3. ASSUME NEW c \in Conn, NEW l \in {"out", "sending", "parked"}, pc[c] \notin Holding,
             pc' = [pc EXCEPT ![c] = l], clients' = clients, active' = active
      PROVE  HealthInv'
  <2>1. Busy' = Busy
    BY <1>0, <1>3 DEF TypeOK, Holding
  <2>2. active' = {x \in Conn : pc'[x] = "running"}
    BY <1>0, <1>3 DEF TypeOK, HealthInv, Holding
  <2> QED BY <1>3, <2>1, <2>2 DEF HealthInv
<1>4. ASSUME NEW c \in Conn, ClientSpeaks(c) \/ ClientGone(c) PROVE HealthInv'
  BY <1>4 DEF ClientSpeaks, ClientGone, HealthInv
<1>5. ASSUME NEW c \in Conn, ConnectAdmitted(c) \/ WokenAdmitted(c) PROVE HealthInv'
  BY <1>1, <1>5 DEF ConnectAdmitted, WokenAdmitted, Woken, Holding
<1>6. ASSUME NEW c \in Conn, ConnectQueued(c) \/ StatusSent(c) \/ WokenWaiting(c)
      PROVE HealthInv'
  BY <1>3, <1>6 DEF ConnectQueued, StatusSent, WokenWaiting, Woken, Holding
<1>7. ASSUME NEW c \in Conn, StatusFailed(c) \/ WokenByDisconnect(c) PROVE HealthInv'
  BY <1>3, <1>7 DEF StatusFailed, WokenByDisconnect, HandlerReturns, Holding
<1>8. ASSUME NEW c \in Conn, BuildFailed(c) \/ StopDone(c) PROVE HealthInv'
  BY <1>2, <1>8 DEF BuildFailed, StopDone, HandlerReturns, Holding
<1>9. ASSUME NEW c \in Conn, BuildDone(c) PROVE HealthInv'
  <2>1. Busy' = Busy
    BY <1>0, <1>9 DEF BuildDone, TypeOK, Holding
  <2> QED BY <1>0, <1>9, <2>1 DEF BuildDone, TypeOK, HealthInv
<1>10. ASSUME NEW c \in Conn, EndSession(c) PROVE HealthInv'
  <2>1. Busy' = Busy
    BY <1>0, <1>10 DEF EndSession, TypeOK, Holding
  <2> QED BY <1>0, <1>10, <2>1 DEF EndSession, TypeOK, HealthInv
<1>11. CASE UNCHANGED vars
  BY <1>11 DEF vars, HealthInv
<1> QED
  BY <1>4, <1>5, <1>6, <1>7, <1>8, <1>9, <1>10, <1>11
     DEF Next, Disconnected, IdleOut, TimeUp

\* /health counts exactly the running worlds and the slots in use, and never
\* more than the cap admits.
THEOREM HealthAlwaysHonest == Spec => []HealthHonest
<1>1. Init => HealthInv
  <2> SUFFICES ASSUME Init PROVE HealthInv
    OBVIOUS
  <2>1. {c \in Conn : pc[c] \in Holding} = {}
    BY DEF Init, Holding
  <2> QED BY <2>1, FS_EmptySet DEF Init, HealthInv
<1>2. IInv /\ HealthInv => HealthHonest
  <2> SUFFICES ASSUME IInv, HealthInv PROVE HealthHonest
    OBVIOUS
  <2>1. {c \in Conn : pc[c] \in Holding} \subseteq Holders /\ IsFiniteSet(Holders)
    BY HoldersFinite DEF IInv, Holders
  <2>2. Cardinality({c \in Conn : pc[c] \in Holding}) <= Cardinality(Holders)
    BY <2>1, FS_Subset
  <2> QED BY <2>2 DEF IInv, HealthInv, HealthHonest, SlotsConserved
<1> QED BY <1>1, <1>2, HealthStep, Inductive, PTL DEF Spec

-----------------------------------------------------------------------------
(* Sessions implements the slot pool, step by step. *)

\* The instance's copies of the library operators are the library's.
LEMMA PoolOperators ==
  /\ \A s : Pool!ToSet(s) = ToSet(s)
  /\ \A S : Pool!Cardinality(S) = Cardinality(S)
<1>1. \A s : Pool!ToSet(s) = ToSet(s)
  BY DEF Pool!ToSet, ToSet
<1>2. \A S : Pool!Cardinality(S) = Cardinality(S)
  BY DEF Pool!Cardinality, Cardinality
<1> QED BY <1>1, <1>2

\* A release is the pool's Vacate.
LEMMA ReleaseIsVacate ==
  ASSUME IInv, NEW c \in Conn, c \in Holders, Release(c),
         pc' = [pc EXCEPT ![c] = "out"]
  PROVE  Pool!Vacate(c)
<1>0. TypeOK /\ LineSound
  BY DEF IInv
<1>1. \A x \in Conn : pc'[x] \in Holding <=> x # c /\ pc[x] \in Holding
  BY <1>0, Returned
<1>2. CASE waiters # <<>>
  <2>1. Head(waiters) \in Conn /\ Head(waiters) \in ToSet(waiters)
    BY <1>0, <1>2, TailOfLine DEF TypeOK, LineSound
  <2>2. c \notin ToSet(waiters)
    BY <1>0, LineOwnsNothing
  <2>3. Holders' = (Holders \ {c}) \cup {Head(waiters)}
    BY <1>0, <1>1, <1>2, <2>1, <2>2 DEF Holders, Release, TypeOK
  <2> QED BY <1>2, <2>3 DEF Pool!Vacate, Release
<1>3. CASE waiters = <<>>
  <2>1. Holders' = Holders \ {c}
    BY <1>0, <1>1, <1>3 DEF Holders, Release, TypeOK
  <2> QED BY <1>3, <2>1 DEF Pool!Vacate, Release
<1> QED BY <1>2, <1>3

\* A leave is the pool's Vacate for somebody handed a slot, else its Quit.
LEMMA LeaveIsQuit ==
  ASSUME IInv, NEW c \in Conn, pc[c] \in InLine, Leave(c),
         pc' = [pc EXCEPT ![c] = "out"]
  PROVE  Pool!Quit(c) \/ Pool!Vacate(c)
<1>0. TypeOK /\ LineSound
  BY DEF IInv
<1>1. CASE c \in admitted
  BY <1>1, ReleaseIsVacate DEF Leave, Holders
<1>2. CASE c \notin admitted
  <2>1. \A x \in Conn : pc'[x] \in Holding <=> x # c /\ pc[x] \in Holding
    BY <1>0, Returned
  <2>2. Holders' = Holders
    BY <1>0, <1>2, <2>1 DEF Leave, Holders, Holding, InLine, TypeOK
  <2> QED BY <1>2, <2>2 DEF Leave, Pool!Quit, Pool!RemoveAt, RemoveAt
<1> QED BY <1>1, <1>2

\* Every step of the sockets is a step of the pool, or none.
LEMMA StepRefines == IInv /\ [Next]_vars => [Pool!PoolNext]_(Pool!poolVars)
<1> SUFFICES ASSUME IInv, [Next]_vars PROVE [Pool!PoolNext]_(Pool!poolVars)
  OBVIOUS
<1>0. TypeOK /\ SlotsConserved /\ NoIdleSlot /\ LineSound
  BY DEF IInv
<1>a. ASSUME waiters' = waiters, Holders' = Holders
      PROVE  [Pool!PoolNext]_(Pool!poolVars)
  BY <1>a DEF Pool!poolVars
<1>1. ASSUME NEW c \in Conn, ClientSpeaks(c) \/ ClientGone(c)
      PROVE  [Pool!PoolNext]_(Pool!poolVars)
  BY <1>a, <1>1 DEF ClientSpeaks, ClientGone, Holders
<1>2. ASSUME NEW c \in Conn, ConnectAdmitted(c) PROVE [Pool!PoolNext]_(Pool!poolVars)
  <2>1. c \notin Holders /\ c \notin ToSet(waiters)
    BY <1>0, <1>2 DEF ConnectAdmitted, Holders, Holding, InLine, LineSound
  <2>2. Holders' = Holders \cup {c}
    BY <1>0, <1>2 DEF ConnectAdmitted, Holders, Holding, TypeOK
  <2>3. Pool!Enter(c)
    BY <1>0, <1>2, <2>1, <2>2, PoolOperators
       DEF ConnectAdmitted, MayAdmit, SlotsConserved, Pool!Enter
  <2> QED BY <2>3 DEF Pool!PoolNext
<1>3. ASSUME NEW c \in Conn, ConnectQueued(c) PROVE [Pool!PoolNext]_(Pool!poolVars)
  <2>1. c \notin Holders /\ c \notin ToSet(waiters)
    BY <1>0, <1>3 DEF ConnectQueued, Holders, Holding, InLine, LineSound
  <2>2. Holders' = Holders
    BY <1>0, <1>3 DEF ConnectQueued, Holders, Holding, TypeOK
  <2>3. Cardinality(Holders) = Limit
    BY <1>0, <1>3, SessionsAssumption
       DEF ConnectQueued, MayAdmit, NoIdleSlot, SlotsConserved, TypeOK
  <2>4. Pool!Join(c)
    BY <1>3, <2>1, <2>2, <2>3, PoolOperators DEF ConnectQueued, Pool!Join
  <2> QED BY <2>4 DEF Pool!PoolNext
<1>4. ASSUME NEW c \in Conn, StatusSent(c) \/ WokenWaiting(c)
      PROVE  [Pool!PoolNext]_(Pool!poolVars)
  <2>1. Holders' = Holders
    BY <1>0, <1>4 DEF StatusSent, WokenWaiting, Woken, Holders, Holding, TypeOK
  <2> QED BY <1>4, <1>a, <2>1 DEF StatusSent, WokenWaiting
<1>5. ASSUME NEW c \in Conn, StatusFailed(c) \/ WokenByDisconnect(c)
      PROVE  [Pool!PoolNext]_(Pool!poolVars)
  <2>1. Pool!Quit(c) \/ Pool!Vacate(c)
    BY <1>5, LeaveIsQuit DEF StatusFailed, WokenByDisconnect, HandlerReturns, InLine
  <2> QED BY <2>1 DEF Pool!PoolNext
<1>6. ASSUME NEW c \in Conn, WokenAdmitted(c) PROVE [Pool!PoolNext]_(Pool!poolVars)
  <2>1. Holders' = Holders
    BY <1>0, <1>6 DEF WokenAdmitted, Woken, Holders, Holding, TypeOK
  <2> QED BY <1>6, <1>a, <2>1 DEF WokenAdmitted
<1>7. ASSUME NEW c \in Conn, BuildDone(c) \/ EndSession(c)
      PROVE  [Pool!PoolNext]_(Pool!poolVars)
  <2>1. Holders' = Holders
    BY <1>0, <1>7 DEF BuildDone, EndSession, Holders, Holding, TypeOK
  <2> QED BY <1>7, <1>a, <2>1 DEF BuildDone, EndSession
<1>8. ASSUME NEW c \in Conn, BuildFailed(c) \/ StopDone(c)
      PROVE  [Pool!PoolNext]_(Pool!poolVars)
  <2>1. Pool!Vacate(c)
    BY <1>8, ReleaseIsVacate DEF BuildFailed, StopDone, HandlerReturns, Holders, Holding
  <2> QED BY <2>1 DEF Pool!PoolNext
<1>9. CASE UNCHANGED vars
  BY <1>9, <1>a DEF vars, Holders
<1> QED
  BY <1>1, <1>2, <1>3, <1>4, <1>5, <1>6, <1>7, <1>8, <1>9
     DEF Next, Disconnected, IdleOut, TimeUp

\* The server is a first-come-first-served pool of max_sessions slots: its
\* first state is the pool's, and each of its steps is one of the pool's.
THEOREM SessionsRefinePool == Spec => Pool!PoolInit /\ [][Pool!PoolNext]_(Pool!poolVars)
<1>1. Init => Pool!PoolInit
  BY DEF Init, Pool!PoolInit, Holders, Holding
<1> QED BY <1>1, StepRefines, Inductive, PTL DEF Spec
=============================================================================
