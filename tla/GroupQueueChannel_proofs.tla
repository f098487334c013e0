----------------------- MODULE GroupQueueChannel_proofs -----------------------
(***************************************************************************)
(* Every receiver is owed one poison, no element is handed out twice,      *)
(* GroupQueue implements Channel, and batching keeps the order of every    *)
(* emitter, for all values of the constants.                               *)
(***************************************************************************)
EXTENDS GroupQueue_proofs, SequenceTheorems

-----------------------------------------------------------------------------
(* One poison for each receiver.                                           *)

LEMMA PoisonsFinite ==
  ASSUME NEW E, NEW q \in Seq(E)
  PROVE  IsFiniteSet(PoisonIn(q))
<1>1. DOMAIN q = 1 .. Len(q) /\ Len(q) \in Nat
  OBVIOUS
<1>2. IsFiniteSet(1 .. Len(q))
  BY <1>1, FS_Interval
<1>3. PoisonIn(q) \subseteq 1 .. Len(q)
  BY <1>1 DEF PoisonIn
<1>4. QED
  BY <1>2, <1>3, FS_Subset

LEMMA PoisonsAppend ==
  ASSUME NEW E, NEW q \in Seq(E), NEW g \in E
  PROVE  Cardinality(PoisonIn(Append(q, g)))
           = Cardinality(PoisonIn(q)) + IF g.poison THEN 1 ELSE 0
<1>1. /\ DOMAIN q = 1 .. Len(q)
      /\ Len(q) \in Nat
      /\ DOMAIN Append(q, g) = 1 .. Len(q) + 1
      /\ \A k \in 1 .. Len(q) : Append(q, g)[k] = q[k]
      /\ Append(q, g)[Len(q) + 1] = g
      /\ \A k \in 1 .. Len(q) + 1 : k \in 1 .. Len(q) \/ k = Len(q) + 1
  BY AppendToSeq
<1>2. 1 .. Len(q) \subseteq 1 .. Len(q) + 1 /\ Len(q) + 1 \in 1 .. Len(q) + 1
  BY <1>1
<1>3. Len(q) + 1 \notin PoisonIn(q)
  BY <1>1 DEF PoisonIn
<1>4. IsFiniteSet(PoisonIn(q))
  BY PoisonsFinite
<1>5. CASE g.poison
  <2>1. PoisonIn(Append(q, g)) = PoisonIn(q) \cup {Len(q) + 1}
    BY <1>1, <1>2, <1>5 DEF PoisonIn
  <2>2. QED
    BY <1>3, <1>4, <1>5, <2>1, FS_AddElement
<1>6. CASE ~ g.poison
  <2>1. PoisonIn(Append(q, g)) = PoisonIn(q)
    BY <1>1, <1>2, <1>6 DEF PoisonIn
  <2>2. Cardinality(PoisonIn(q)) \in Nat
    BY <1>4, FS_CardinalityType
  <2>3. QED
    BY <1>6, <2>1, <2>2
<1>7. QED
  BY <1>5, <1>6

(* Every element of the queue moves up one place.                          *)
LEMMA PoisonsTail ==
  ASSUME NEW E, NEW q \in Seq(E), q # <<>>
  PROVE  Cardinality(PoisonIn(q))
           = Cardinality(PoisonIn(Tail(q))) + IF Head(q).poison THEN 1 ELSE 0
<1>1. DOMAIN q = 1 .. Len(q) /\ Len(q) \in Nat /\ Len(q) >= 1
  OBVIOUS
<1>2. DOMAIN Tail(q) = 1 .. Len(q) - 1
  OBVIOUS
<1>3. Head(q) = q[1] /\ \A i \in 1 .. Len(q) - 1 : Tail(q)[i] = q[i + 1]
  OBVIOUS
<1> DEFINE T == PoisonIn(Tail(q))
           S == PoisonIn(q) \ {1}
           up == [k \in T |-> k + 1]
<1>4. Tail(q) \in Seq(E)
  OBVIOUS
<1>5. IsFiniteSet(T) /\ IsFiniteSet(PoisonIn(q))
  BY <1>4, PoisonsFinite
<1>6. up \in Bijection(T, S)
  <2>1. ASSUME NEW k \in T PROVE k + 1 \in S /\ k \in Nat
    <3>1. k \in 1 .. Len(q) - 1 /\ Tail(q)[k].poison
      BY <1>2 DEF PoisonIn
    <3>2. k + 1 \in 1 .. Len(q) /\ k + 1 # 1 /\ q[k + 1].poison
      BY <1>1, <1>3, <3>1
    <3>3. QED
      BY <1>1, <3>1, <3>2 DEF PoisonIn
  <2>2. ASSUME NEW s \in S PROVE \E k \in T : k + 1 = s
    <3>1. s \in 1 .. Len(q) /\ s # 1 /\ q[s].poison
      BY <1>1 DEF PoisonIn
    <3>2. s - 1 \in 1 .. Len(q) - 1 /\ (s - 1) + 1 = s
      BY <1>1, <3>1
    <3>3. Tail(q)[s - 1] = q[s]
      BY <1>3, <3>2
    <3>4. s - 1 \in T
      BY <1>2, <3>1, <3>2, <3>3 DEF PoisonIn
    <3>5. QED
      BY <3>2, <3>4
  <2> HIDE DEF T, S
  <2>3. up \in [T -> S]
    BY <2>1
  <2>4. \A j, k \in T : up[j] = up[k] => j = k
    BY <2>1
  <2>5. \A s \in S : \E k \in T : up[k] = s
    BY <2>2
  <2>6. QED
    BY <2>3, <2>4, <2>5 DEF Bijection, Injection, Surjection, IsInjective
<1> HIDE DEF up
<1>7. Cardinality(S) = Cardinality(T)
  BY <1>5, <1>6, FS_Bijection DEF ExistsBijection
<1>8. 1 \in PoisonIn(q) <=> Head(q).poison
  BY <1>1, <1>3 DEF PoisonIn
<1>9. Cardinality(S) = IF 1 \in PoisonIn(q) THEN Cardinality(PoisonIn(q)) - 1
                                             ELSE Cardinality(PoisonIn(q))
  BY <1>5, FS_RemoveElement
<1>10. Cardinality(PoisonIn(q)) \in Nat /\ Cardinality(T) \in Nat
  BY <1>5, FS_CardinalityType
<1> HIDE DEF S, T
<1>11. QED
  <2>1. Cardinality(PoisonIn(q)) = Cardinality(T) + IF Head(q).poison THEN 1 ELSE 0
    BY <1>7, <1>8, <1>9, <1>10
  <2>2. QED
    BY <2>1 DEF T

LEMMA PoisonedInit == Init => PoisonPerReceiver
<1> SUFFICES ASSUME Init PROVE PoisonPerReceiver
  OBVIOUS
<1>1. PoisonIn(queue) = {} /\ poisoned = {} /\ numReceivers = Cardinality(Receivers)
  BY DEF Init, PoisonIn
<1>2. Cardinality(Receivers) \in Nat /\ Cardinality({}) = 0
  BY QueueAssumption, FS_CardinalityType, FS_EmptySet
<1>3. QED
  BY <1>1, <1>2 DEF PoisonPerReceiver

LEMMA PoisonedStep ==
  TypeOK /\ PoisonPerReceiver /\ [Next]_vars => PoisonPerReceiver'
<1> SUFFICES ASSUME TypeOK, PoisonPerReceiver, [Next]_vars
             PROVE  PoisonPerReceiver'
  OBVIOUS
<1>0. /\ queue \in Seq(QueueElements)
      /\ numReceivers \in Nat
      /\ poisoned \subseteq Receivers
  BY DEF TypeOK, QueueElements
<1>1. IsFiniteSet(poisoned) /\ Cardinality(poisoned) \in Nat
  BY <1>0, QueueAssumption, FS_Subset, FS_CardinalityType
<1>2. Cardinality(PoisonIn(queue)) \in Nat
  BY <1>0, PoisonsFinite, FS_CardinalityType
<1>3. ASSUME UNCHANGED <<queue, numReceivers, poisoned>> PROVE PoisonPerReceiver'
  BY <1>3 DEF PoisonPerReceiver
<1>4. ASSUME NEW e \in Emitters, UNCHANGED <<numReceivers, poisoned>>,
             queue' = Append(queue, Group(buffer[e]))
      PROVE  PoisonPerReceiver'
  <2>1. Group(buffer[e]) \in QueueElements /\ ~ Group(buffer[e]).poison
    BY DEF TypeOK, Group, QueueElements
  <2>2. Cardinality(PoisonIn(queue')) = Cardinality(PoisonIn(queue)) + 0
    BY <1>0, <1>4, <2>1, PoisonsAppend
  <2>3. QED
    BY <1>2, <1>4, <2>2 DEF PoisonPerReceiver
<1>5. ASSUME NEW e \in Emitters, Emit(e) PROVE PoisonPerReceiver'
  <2>1. UNCHANGED <<numReceivers, poisoned>>
    BY <1>5 DEF Emit, PutInBuffer, PutFullGroup, PutInterrupted, Flush,
                FlushInterrupted, receiverVars
  <2>2. UNCHANGED queue \/ queue' = Append(queue, Group(buffer[e]))
    BY <1>5 DEF Emit, PutInBuffer, PutFullGroup, PutInterrupted, Flush,
                FlushInterrupted
  <2>3. QED
    BY <1>3, <1>4, <2>1, <2>2
<1>6. CASE PoisonReceiver
  <2>1. Poison \in QueueElements /\ Poison.poison
    BY DEF Poison, QueueElements
  <2>2. /\ queue' = Append(queue, Poison)
        /\ numReceivers' = numReceivers - 1
        /\ numReceivers # 0
        /\ poisoned' = poisoned
    BY <1>6 DEF PoisonReceiver, receiverVars
  <2>3. Cardinality(PoisonIn(queue')) = Cardinality(PoisonIn(queue)) + 1
    BY <1>0, <2>1, <2>2, PoisonsAppend
  <2>4. QED
    BY <1>0, <1>1, <1>2, <2>2, <2>3 DEF PoisonPerReceiver
<1>7. CASE PoisonInterrupted
  BY <1>3, <1>7 DEF PoisonInterrupted, receiverVars
<1>8. ASSUME NEW r \in Receivers, TakeHeld(r) PROVE PoisonPerReceiver'
  BY <1>3, <1>8 DEF TakeHeld
<1>9. ASSUME NEW r \in Receivers, TakeGroup(r) PROVE PoisonPerReceiver'
  <2>1. /\ queue # <<>> /\ queue' = Tail(queue) /\ ~ Head(queue).poison
        /\ UNCHANGED <<numReceivers, poisoned>>
    BY <1>9 DEF TakeGroup
  <2>2. Cardinality(PoisonIn(queue)) = Cardinality(PoisonIn(queue')) + 0
    BY <1>0, <2>1, PoisonsTail
  <2>3. Tail(queue) \in Seq(QueueElements)
    BY <2>1, HeadInQueue
  <2>4. Cardinality(PoisonIn(queue')) \in Nat
    BY <2>1, <2>3, PoisonsFinite, FS_CardinalityType
  <2>5. QED
    BY <2>1, <2>2, <2>4 DEF PoisonPerReceiver
<1>10. ASSUME NEW r \in Receivers, TakePoison(r) PROVE PoisonPerReceiver'
  <2>1. /\ queue # <<>> /\ queue' = Tail(queue) /\ Head(queue).poison
        /\ numReceivers' = numReceivers
        /\ r \notin poisoned
        /\ poisoned' = poisoned \cup {r}
    BY <1>10 DEF TakePoison
  <2>2. Cardinality(PoisonIn(queue)) = Cardinality(PoisonIn(queue')) + 1
    BY <1>0, <2>1, PoisonsTail
  <2>3. Tail(queue) \in Seq(QueueElements)
    BY <2>1, HeadInQueue
  <2>4. Cardinality(PoisonIn(queue')) \in Nat
    BY <2>1, <2>3, PoisonsFinite, FS_CardinalityType
  <2>5. Cardinality(poisoned') = Cardinality(poisoned) + 1
    BY <1>1, <2>1, FS_AddElement
  <2>6. QED
    BY <1>0, <1>1, <2>1, <2>2, <2>4, <2>5 DEF PoisonPerReceiver
<1>11. CASE UNCHANGED vars
  BY <1>3, <1>11 DEF vars
<1>12. QED
  BY <1>5, <1>6, <1>7, <1>8, <1>9, <1>10, <1>11
  DEF Next, Receive, PoisonReceivers, Terminating

(* poisonReceivers and the receivers keep count, even when the loop is
   interrupted and run again: no receiver is poisoned twice, none is left
   waiting without a poison to come.                                       *)
THEOREM PoisonsAddUp == Spec => []PoisonPerReceiver
<1>1. Init => TypeOK /\ PoisonPerReceiver
  BY TypeInit, PoisonedInit
<1>2. TypeOK /\ PoisonPerReceiver /\ [Next]_vars => PoisonPerReceiver'
  BY PoisonedStep
<1>3. QED
  BY <1>1, <1>2, TypeCorrect, PTL DEF Spec

-----------------------------------------------------------------------------
(* Nothing is handed out twice.                                            *)

(* An emitter buffers its own elements only, and no buffer and no group has
   an element twice.                                                       *)
OwnBuffered ==
  \A e \in Emitters : \A x \in Range(buffer[e]) : x[1] = e

NoRepeats ==
  /\ \A e \in Emitters : IsInjective(buffer[e])
  /\ \A k \in DOMAIN queue : IsInjective(queue[k].group)
  /\ \A r \in Receivers : IsInjective(held[r])

(* The parts of NothingTwice.                                              *)
PlacesApart ==
  /\ Buffered \cap (Queued \cup Held \cup Received) = {}
  /\ Queued \cap (Held \cup Received) = {}
  /\ Held \cap Received = {}

GroupsApart ==
  \A k, l \in DOMAIN queue :
    k # l => Range(queue[k].group) \cap Range(queue[l].group) = {}

Apart(f) == \A r, s \in Receivers : r # s => Range(f[r]) \cap Range(f[s]) = {}

Once ==
  /\ OwnBuffered
  /\ NoRepeats
  /\ PlacesApart
  /\ GroupsApart
  /\ Apart(held)
  /\ Apart(received)

LEMMA OnceIsNothingTwice == Once => NothingTwice
BY DEF Once, PlacesApart, GroupsApart, Apart, NothingTwice

LEMMA InjectiveAppend ==
  ASSUME NEW E, NEW s \in Seq(E), NEW x, IsInjective(s), x \notin Range(s)
  PROVE  IsInjective(Append(s, x))
<1>1. DOMAIN Append(s, x) = 1 .. Len(s) + 1 /\ DOMAIN s = 1 .. Len(s) /\ Len(s) \in Nat
  OBVIOUS
<1>2. \A i \in 1 .. Len(s) : Append(s, x)[i] = s[i]
  OBVIOUS
<1>3. Append(s, x)[Len(s) + 1] = x
  OBVIOUS
<1>4. \A i \in 1 .. Len(s) : s[i] # x
  BY <1>1 DEF Range
<1>5. \A i \in 1 .. Len(s) + 1 : i \in 1 .. Len(s) \/ i = Len(s) + 1
  BY <1>1
<1>6. QED
  BY <1>1, <1>2, <1>3, <1>4, <1>5 DEF IsInjective

LEMMA InjectiveTail ==
  ASSUME NEW E, NEW s \in Seq(E), s # <<>>, IsInjective(s)
  PROVE  IsInjective(Tail(s)) /\ Head(s) \notin Range(Tail(s))
<1>1. DOMAIN s = 1 .. Len(s) /\ Len(s) \in Nat /\ Len(s) >= 1
  OBVIOUS
<1>2. DOMAIN Tail(s) = 1 .. Len(s) - 1
  OBVIOUS
<1>3. Head(s) = s[1] /\ \A i \in 1 .. Len(s) - 1 : Tail(s)[i] = s[i + 1]
  OBVIOUS
<1>4. \A i \in 1 .. Len(s) - 1 : i + 1 \in 1 .. Len(s) /\ i + 1 # 1
  BY <1>1
<1>5. IsInjective(Tail(s))
  <2> SUFFICES ASSUME NEW i \in 1 .. Len(s) - 1, NEW j \in 1 .. Len(s) - 1,
                      Tail(s)[i] = Tail(s)[j]
               PROVE  i = j
    BY <1>2 DEF IsInjective
  <2>1. i + 1 = j + 1
    BY <1>1, <1>3, <1>4 DEF IsInjective
  <2>2. QED
    BY <2>1
<1>6. Head(s) \notin Range(Tail(s))
  <2> SUFFICES ASSUME NEW i \in 1 .. Len(s) - 1, Tail(s)[i] = Head(s)
               PROVE  FALSE
    BY <1>2 DEF Range
  <2>1. 1 \in 1 .. Len(s) /\ s[i + 1] = s[1]
    BY <1>1, <1>3
  <2>2. QED
    BY <1>1, <1>4, <2>1 DEF IsInjective
<1>7. QED
  BY <1>5, <1>6

LEMMA EmptyInjective == IsInjective(<<>>)
BY DEF IsInjective

LEMMA SingleInjective == \A x : IsInjective(<<x>>)
BY DEF IsInjective

LEMMA NextElementFresh ==
  ASSUME TypeOK, NothingLost, NEW e \in Emitters
  PROVE  /\ NextElement(e) \notin Emitted
         /\ NextElement(e) \notin Buffered \cup Queued \cup Held \cup Received
         /\ NextElement(e)[1] = e
<1>1. emitted[e] \in Nat
  BY DEF TypeOK
<1>2. NextElement(e)[1] = e /\ NextElement(e)[2] = emitted[e] + 1
  BY DEF NextElement
<1>3. ~ (emitted[e] + 1 <= emitted[e])
  BY <1>1
<1>4. NextElement(e) \notin Emitted
  BY <1>2, <1>3 DEF Emitted
<1>5. QED
  BY <1>2, <1>4 DEF NothingLost

LEMMA OnceInit == Init => Once
<1> SUFFICES ASSUME Init PROVE Once
  OBVIOUS
<1>1. /\ \A e \in Emitters : buffer[e] = <<>>
      /\ \A r \in Receivers : held[r] = <<>> /\ received[r] = <<>>
      /\ DOMAIN queue = {}
  BY DEF Init
<1>2. Buffered = {} /\ Held = {} /\ Received = {} /\ Queued = {}
  BY RangeEmpty DEF Init, Buffered, Held, Received, InBuffers, Queued, InGroups
<1>3. OwnBuffered /\ NoRepeats
  BY <1>1, RangeEmpty, EmptyInjective DEF OwnBuffered, NoRepeats
<1>4. PlacesApart /\ GroupsApart /\ Apart(held) /\ Apart(received)
  BY <1>1, <1>2, RangeEmpty DEF PlacesApart, GroupsApart, Apart
<1>5. QED
  BY <1>3, <1>4 DEF Once

(* An emitter sends its buffer and goes on with s.                         *)
LEMMA SendOnce ==
  ASSUME TypeOK, Once, NEW e \in Emitters, NEW s,
         queue' = Append(queue, Group(buffer[e])),
         buffer' = [buffer EXCEPT ![e] = s],
         UNCHANGED <<held, received>>,
         IsInjective(s),
         \A x \in Range(s) :
           x[1] = e /\ x \notin Buffered \cup Queued \cup Held \cup Received
  PROVE  Once'
<1>0. /\ buffer \in [Emitters -> Seq(Elements)]
      /\ queue \in Seq(QueueElements)
      /\ Group(buffer[e]) \in QueueElements
      /\ Group(buffer[e]).group = buffer[e]
  BY DEF TypeOK, QueueElements, Group
<1>1. /\ Buffered = Others(buffer, e) \cup Range(buffer[e])
      /\ Buffered' = Others(buffer, e) \cup Range(s)
  <2>1. Replaces(buffer', buffer, e, s)
    BY <1>0 DEF Replaces
  <2>2. QED
    BY <2>1, InBuffersReplaced DEF Buffered
<1>2. Queued' = Queued \cup Range(buffer[e])
  BY <1>0, InGroupsAppend DEF Queued
<1>3. Others(buffer, e) \cap Range(buffer[e]) = {}
  BY <1>0 DEF Others, Once, OwnBuffered
<1>4. UNCHANGED <<Held, Received>>
  BY DEF Held, Received
<1>5. PlacesApart'
  BY <1>1, <1>2, <1>3, <1>4 DEF PlacesApart, Once
<1>6. /\ DOMAIN queue = 1 .. Len(queue)
      /\ Len(queue) \in Nat
      /\ DOMAIN queue' = 1 .. Len(queue) + 1
      /\ \A k \in 1 .. Len(queue) : queue'[k] = queue[k]
      /\ queue'[Len(queue) + 1] = Group(buffer[e])
      /\ \A k \in 1 .. Len(queue) + 1 : k \in 1 .. Len(queue) \/ k = Len(queue) + 1
  BY <1>0, AppendToSeq
<1>7. GroupsApart'
  <2>1. \A k \in 1 .. Len(queue) : Range(queue[k].group) \cap Range(buffer[e]) = {}
    BY <1>1, <1>6 DEF Once, PlacesApart, Queued, InGroups
  <2>2. SUFFICES ASSUME NEW k \in DOMAIN queue', NEW l \in DOMAIN queue', k # l
                 PROVE  Range(queue'[k].group) \cap Range(queue'[l].group) = {}
    BY DEF GroupsApart
  <2>3. queue'[Len(queue) + 1].group = buffer[e]
    BY <1>0, <1>6
  <2>4. CASE k \in 1 .. Len(queue) /\ l \in 1 .. Len(queue)
    BY <1>6, <2>2, <2>4 DEF Once, GroupsApart
  <2>5. CASE k = Len(queue) + 1
    BY <1>6, <2>1, <2>2, <2>3, <2>5
  <2>6. CASE l = Len(queue) + 1
    BY <1>6, <2>1, <2>2, <2>3, <2>6
  <2>7. QED
    BY <1>6, <2>4, <2>5, <2>6
<1>8. NoRepeats'
  BY <1>0, <1>6 DEF Once, NoRepeats
<1>9. OwnBuffered'
  BY <1>0 DEF Once, OwnBuffered
<1>10. QED
  BY <1>5, <1>7, <1>8, <1>9 DEF Once, Apart

LEMMA OnceStep ==
  TypeOK /\ Shape /\ NothingLost /\ Once /\ [Next]_vars => Once'
<1> SUFFICES ASSUME TypeOK, Shape, NothingLost, Once, [Next]_vars PROVE Once'
  OBVIOUS
<1>0. /\ buffer \in [Emitters -> Seq(Elements)]
      /\ held \in [Receivers -> Seq(Elements)]
      /\ received \in [Receivers -> Seq(Elements)]
      /\ queue \in Seq(QueueElements)
  BY DEF TypeOK, QueueElements
<1>1. ASSUME NEW e \in Emitters, PutInBuffer(e) PROVE Once'
  <2> DEFINE x == NextElement(e)
  <2>1. /\ buffer' = [buffer EXCEPT ![e] = Append(buffer[e], x)]
        /\ UNCHANGED <<queue, held, received>>
    BY <1>1 DEF PutInBuffer, receiverVars
  <2>2. x[1] = e /\ x \notin Buffered \cup Queued \cup Held \cup Received
    BY NextElementFresh
  <2> HIDE DEF x
  <2>3. Range(Append(buffer[e], x)) = Range(buffer[e]) \cup {x}
    BY <1>0, RangeAppend
  <2>4. /\ Buffered = Others(buffer, e) \cup Range(buffer[e])
        /\ Buffered' = Others(buffer, e) \cup Range(Append(buffer[e], x))
    <3>1. Replaces(buffer', buffer, e, Append(buffer[e], x))
      BY <1>0, <2>1 DEF Replaces
    <3>2. QED
      BY <3>1, InBuffersReplaced DEF Buffered
  <2>5. UNCHANGED <<Queued, Held, Received>>
    BY <2>1 DEF Queued, Held, Received
  <2>6. PlacesApart'
    BY <2>2, <2>3, <2>4, <2>5 DEF Once, PlacesApart
  <2>7. IsInjective(Append(buffer[e], x))
    <3>1. x \notin Range(buffer[e]) /\ IsInjective(buffer[e])
      BY <2>2, <2>4 DEF Once, NoRepeats
    <3>2. QED
      BY <1>0, <3>1, InjectiveAppend
  <2>8. NoRepeats'
    BY <1>0, <2>1, <2>7 DEF Once, NoRepeats
  <2>9. OwnBuffered'
    BY <1>0, <2>1, <2>2, <2>3 DEF Once, OwnBuffered
  <2>10. QED
    BY <2>1, <2>6, <2>8, <2>9 DEF Once, GroupsApart, Apart
<1>2. ASSUME NEW e \in Emitters, PutFullGroup(e) PROVE Once'
  <2> DEFINE s == <<NextElement(e)>>
  <2>1. /\ queue' = Append(queue, Group(buffer[e]))
        /\ buffer' = [buffer EXCEPT ![e] = s]
        /\ UNCHANGED <<held, received>>
    BY <1>2 DEF PutFullGroup, receiverVars
  <2>2. Range(s) = {NextElement(e)} /\ IsInjective(s)
    BY RangeSingle, SingleInjective
  <2>3. \A x \in Range(s) :
          x[1] = e /\ x \notin Buffered \cup Queued \cup Held \cup Received
    BY <2>2, NextElementFresh
  <2> HIDE DEF s
  <2>4. QED
    BY <2>1, <2>2, <2>3, SendOnce
<1>3. ASSUME NEW e \in Emitters, Flush(e) PROVE Once'
  <2>1. CASE buffer[e] = <<>>
    <3>1. UNCHANGED <<buffer, queue, held, received>>
      BY <1>3, <2>1 DEF Flush, receiverVars
    <3>2. QED
      BY <3>1 DEF Once, OwnBuffered, NoRepeats, PlacesApart, GroupsApart, Apart,
                  Buffered, Queued, Held, Received
  <2>2. CASE buffer[e] # <<>>
    <3>1. /\ queue' = Append(queue, Group(buffer[e]))
          /\ buffer' = [buffer EXCEPT ![e] = <<>>]
          /\ UNCHANGED <<held, received>>
      BY <1>3, <2>2 DEF Flush, receiverVars
    <3>2. QED
      BY <3>1, SendOnce, EmptyInjective, RangeEmpty
  <2>3. QED
    BY <2>1, <2>2
<1>4. ASSUME UNCHANGED <<buffer, queue, held, received>> PROVE Once'
  BY <1>4 DEF Once, OwnBuffered, NoRepeats, PlacesApart, GroupsApart, Apart,
              Buffered, Queued, Held, Received
<1>5. ASSUME NEW e \in Emitters, PutInterrupted(e) \/ FlushInterrupted(e)
      PROVE  Once'
  BY <1>4, <1>5 DEF PutInterrupted, FlushInterrupted, emitterVars, receiverVars
<1>6. CASE PoisonInterrupted
  BY <1>4, <1>6 DEF PoisonInterrupted, emitterVars, receiverVars
<1>7. CASE PoisonReceiver
  <2>1. /\ queue' = Append(queue, Poison)
        /\ UNCHANGED <<buffer, held, received>>
    BY <1>7 DEF PoisonReceiver, emitterVars, receiverVars
  <2>2. Poison \in QueueElements /\ Poison.group = <<>>
    BY DEF Poison, QueueElements
  <2>3. UNCHANGED <<Buffered, Queued, Held, Received>>
    BY <1>0, <2>1, <2>2, InGroupsAppend, RangeEmpty
    DEF Buffered, Queued, Held, Received
  <2>4. /\ DOMAIN queue = 1 .. Len(queue)
        /\ DOMAIN queue' = 1 .. Len(queue) + 1
        /\ \A k \in 1 .. Len(queue) : queue'[k] = queue[k]
        /\ queue'[Len(queue) + 1] = Poison
        /\ \A k \in 1 .. Len(queue) + 1 : k \in 1 .. Len(queue) \/ k = Len(queue) + 1
    BY <1>0, <2>1, <2>2, AppendToSeq
  <2>5. GroupsApart'
    <3>1. SUFFICES ASSUME NEW k \in DOMAIN queue', NEW l \in DOMAIN queue', k # l
                   PROVE  Range(queue'[k].group) \cap Range(queue'[l].group) = {}
      BY DEF GroupsApart
    <3>2. CASE k \in 1 .. Len(queue) /\ l \in 1 .. Len(queue)
      BY <2>4, <3>1, <3>2 DEF Once, GroupsApart
    <3>3. CASE k = Len(queue) + 1 \/ l = Len(queue) + 1
      BY <2>2, <2>4, <3>3, RangeEmpty
    <3>4. QED
      BY <2>4, <3>2, <3>3
  <2>6. NoRepeats' /\ OwnBuffered' /\ PlacesApart'
    BY <2>1, <2>2, <2>3, <2>4, EmptyInjective
    DEF Once, NoRepeats, OwnBuffered, PlacesApart
  <2>7. QED
    BY <2>1, <2>5, <2>6 DEF Once, Apart
<1>8. ASSUME NEW r \in Receivers, TakeHeld(r) PROVE Once'
  <2> DEFINE x == Head(held[r])
             rest == Tail(held[r])
  <2>1. /\ held[r] # <<>>
        /\ held' = [held EXCEPT ![r] = rest]
        /\ received' = [received EXCEPT ![r] = Append(received[r], x)]
        /\ UNCHANGED <<buffer, queue>>
    BY <1>8 DEF TakeHeld, emitterVars
  <2>2. /\ Range(held[r]) = {x} \cup Range(rest)
        /\ IsInjective(rest) /\ x \notin Range(rest)
    BY <1>0, <2>1, RangeHeadTail, InjectiveTail DEF Once, NoRepeats
  <2> HIDE DEF x, rest
  <2>3. /\ Held = Others(held, r) \cup Range(held[r])
        /\ Held' = Others(held, r) \cup Range(rest)
    <3>1. Replaces(held', held, r, rest)
      BY <1>0, <2>1 DEF Replaces
    <3>2. QED
      BY <3>1, InBuffersReplaced DEF Held
  <2>4. Range(Append(received[r], x)) = Range(received[r]) \cup {x}
    BY <1>0, RangeAppend
  <2>5. Received' = Received \cup {x}
    <3>1. Replaces(received', received, r, Append(received[r], x))
      BY <1>0, <2>1 DEF Replaces
    <3>2. QED
      BY <2>4, <3>1, InBuffersReplaced DEF Received
  <2>6. x \notin Others(held, r)
    BY <1>0, <2>2 DEF Once, Apart, Others
  <2>7. UNCHANGED <<Buffered, Queued>>
    BY <2>1 DEF Buffered, Queued
  <2>8. PlacesApart'
    BY <2>2, <2>3, <2>5, <2>6, <2>7 DEF Once, PlacesApart
  <2>9. Apart(held)'
    BY <1>0, <2>1, <2>2 DEF Once, Apart
  <2>10. Apart(received)'
    <3>1. \A t \in Receivers : x \notin Range(received[t])
      BY <1>0, <2>2, <2>3 DEF Once, PlacesApart, Received, InBuffers
    <3>2. QED
      BY <1>0, <2>1, <2>4, <3>1 DEF Once, Apart
  <2>11. NoRepeats' /\ OwnBuffered' /\ GroupsApart'
    BY <1>0, <2>1, <2>2 DEF Once, NoRepeats, OwnBuffered, GroupsApart
  <2>12. QED
    BY <2>8, <2>9, <2>10, <2>11 DEF Once
<1>9. ASSUME NEW r \in Receivers, TakeGroup(r) PROVE Once'
  <2> DEFINE g == Head(queue).group
             x == Head(g)
             rest == Tail(g)
  <2>1. /\ queue # <<>> /\ queue' = Tail(queue) /\ ~ Head(queue).poison
        /\ held[r] = <<>>
        /\ held' = [held EXCEPT ![r] = rest]
        /\ received' = [received EXCEPT ![r] = Append(received[r], x)]
        /\ UNCHANGED buffer
    BY <1>9 DEF TakeGroup, emitterVars
  <2>2. /\ 1 \in DOMAIN queue /\ g = queue[1].group
        /\ DOMAIN queue' = 1 .. Len(queue) - 1
        /\ \A k \in DOMAIN queue' :
             k + 1 \in DOMAIN queue /\ queue'[k] = queue[k + 1]
    BY <2>1, HeadInQueue
  <2>3. g \in Seq(Elements) /\ g # <<>> /\ IsInjective(g)
    BY <2>1, <2>2, HeadInQueue DEF Shape, GroupsFilled, QueueElements, Once, NoRepeats
  <2>4. Queued = Range(g) \cup Queued'
    BY <1>0, <2>1, InGroupsTail DEF Queued
  <2>5. Range(g) \cap Queued' = {}
    <3>1. ASSUME NEW k \in DOMAIN queue'
          PROVE  Range(g) \cap Range(queue'[k].group) = {}
      <4>1. k + 1 # 1
        BY <2>2
      <4>2. QED
        BY <2>2, <4>1 DEF Once, GroupsApart
    <3>2. QED
      BY <3>1 DEF Queued, InGroups
  <2> HIDE DEF g
  <2>6. /\ Range(g) = {x} \cup Range(rest)
        /\ IsInjective(rest) /\ x \notin Range(rest)
    BY <2>3, RangeHeadTail, InjectiveTail
  <2> HIDE DEF x, rest
  <2>7. /\ Held = Others(held, r)
        /\ Held' = Others(held, r) \cup Range(rest)
    <3>1. Replaces(held', held, r, rest)
      BY <1>0, <2>1 DEF Replaces
    <3>2. /\ Held = Others(held, r) \cup Range(held[r])
          /\ Held' = Others(held, r) \cup Range(rest)
      BY <3>1, InBuffersReplaced DEF Held
    <3>3. Range(held[r]) = {}
      BY <2>1, RangeEmpty
    <3>4. QED
      BY <3>2, <3>3
  <2>8. Range(Append(received[r], x)) = Range(received[r]) \cup {x}
    BY <1>0, RangeAppend
  <2>9. Received' = Received \cup {x}
    <3>1. Replaces(received', received, r, Append(received[r], x))
      BY <1>0, <2>1 DEF Replaces
    <3>2. QED
      BY <2>8, <3>1, InBuffersReplaced DEF Received
  <2>10. UNCHANGED Buffered
    BY <2>1 DEF Buffered
  <2>11. PlacesApart'
    BY <2>4, <2>5, <2>6, <2>7, <2>9, <2>10 DEF Once, PlacesApart
  <2>12. Apart(held)'
    <3>1. \A t \in Receivers : Range(held[t]) \cap Range(rest) = {}
      BY <1>0, <2>4, <2>6 DEF Once, PlacesApart, Held, InBuffers
    <3>2. QED
      BY <1>0, <2>1, <3>1 DEF Once, Apart
  <2>13. Apart(received)'
    <3>1. \A t \in Receivers : x \notin Range(received[t])
      BY <1>0, <2>4, <2>6 DEF Once, PlacesApart, Received, InBuffers
    <3>2. QED
      BY <1>0, <2>1, <2>8, <3>1 DEF Once, Apart
  <2>14. GroupsApart'
    <3> SUFFICES ASSUME NEW k \in DOMAIN queue', NEW l \in DOMAIN queue', k # l
                 PROVE  Range(queue'[k].group) \cap Range(queue'[l].group) = {}
      BY DEF GroupsApart
    <3>1. k + 1 # l + 1
      BY <2>2
    <3>2. QED
      BY <2>2, <3>1 DEF Once, GroupsApart
  <2>15. NoRepeats' /\ OwnBuffered'
    BY <1>0, <2>1, <2>2, <2>6 DEF Once, NoRepeats, OwnBuffered
  <2>16. QED
    BY <2>11, <2>12, <2>13, <2>14, <2>15 DEF Once
<1>10. ASSUME NEW r \in Receivers, TakePoison(r) PROVE Once'
  <2>1. /\ queue # <<>> /\ queue' = Tail(queue)
        /\ UNCHANGED <<buffer, held, received>>
    BY <1>10 DEF TakePoison, emitterVars
  <2>2. /\ DOMAIN queue' = 1 .. Len(queue) - 1
        /\ \A k \in DOMAIN queue' :
             k + 1 \in DOMAIN queue /\ queue'[k] = queue[k + 1]
    BY <2>1, HeadInQueue
  <2>3. Queued' \subseteq Queued
    BY <2>2 DEF Queued, InGroups
  <2>4. UNCHANGED <<Buffered, Held, Received>>
    BY <2>1 DEF Buffered, Held, Received
  <2>5. PlacesApart'
    BY <2>3, <2>4 DEF Once, PlacesApart
  <2>6. GroupsApart'
    <3> SUFFICES ASSUME NEW k \in DOMAIN queue', NEW l \in DOMAIN queue', k # l
                 PROVE  Range(queue'[k].group) \cap Range(queue'[l].group) = {}
      BY DEF GroupsApart
    <3>1. k + 1 # l + 1
      BY <2>2
    <3>2. QED
      BY <2>2, <3>1 DEF Once, GroupsApart
  <2>7. NoRepeats' /\ OwnBuffered'
    BY <2>1, <2>2 DEF Once, NoRepeats, OwnBuffered
  <2>8. QED
    BY <2>1, <2>5, <2>6, <2>7 DEF Once, Apart
<1>11. CASE UNCHANGED vars
  BY <1>4, <1>11 DEF vars
<1>12. QED
  BY <1>1, <1>2, <1>3, <1>5, <1>6, <1>7, <1>8, <1>9, <1>10, <1>11
  DEF Next, Emit, Receive, PoisonReceivers, Terminating

LEMMA OnceInvariance == Spec => [](IInv /\ Once)
<1>1. Init => Once
  BY OnceInit
<1>2. IInv /\ Once /\ [Next]_vars => Once'
  BY OnceStep DEF IInv
<1>3. QED
  BY <1>1, <1>2, Invariance, PTL DEF Spec

(* An element is in one place at a time: no put that is repeated sends it
   twice, and no two receivers are given it.                               *)
THEOREM NeverTwice == Spec => []NothingTwice
<1>1. IInv /\ Once => NothingTwice
  BY OnceIsNothingTwice
<1>2. QED
  BY <1>1, OnceInvariance, PTL

-----------------------------------------------------------------------------
(* GroupQueue implements Channel.                                          *)

LEMMA DeliveredIsReceived ==
  ASSUME TypeOK
  PROVE  Promise!Delivered = Received
BY DEF TypeOK, Promise!Delivered, Received, InBuffers

LEMMA PromiseInit == Init => Promise!Init
<1> SUFFICES ASSUME Init PROVE Promise!Init
  OBVIOUS
<1>1. Emitted = {}
  BY LostInit, RangeEmpty
  DEF Init, NothingLost, Buffered, Held, Received, InBuffers, Queued, InGroups
<1>2. [r \in Receivers |-> Range(received[r])] = [r \in Receivers |-> {}]
  BY RangeEmpty DEF Init
<1>3. poisoned = {}
  BY DEF Init
<1>4. QED
  BY <1>1, <1>2, <1>3 DEF Promise!Init

(* An element has been accepted when put returns.                          *)
LEMMA AcceptStep ==
  ASSUME TypeOK, Shape, NothingLost, NEW e \in Emitters,
         emitted[e] < NumElements[e],
         emitted' = [emitted EXCEPT ![e] = @ + 1],
         UNCHANGED <<received, poisoned>>
  PROVE  Promise!Next
<1>1. e \notin flushed
  BY QueueAssumption DEF Shape, FlushedEmpty, TypeOK
<1>2. poisoned = {}
  BY <1>1, NoPoisonYet
<1>3. NextElement(e) \in Elements /\ NextElement(e) \notin Emitted
  BY NextElementType, NextElementFresh
<1>4. Emitted' = Emitted \cup {NextElement(e)}
  BY NextElementType DEF Emitted
<1>5. Promise!Accept(NextElement(e))
  BY <1>2, <1>3, <1>4 DEF Promise!Accept
<1>6. QED
  BY <1>3, <1>5 DEF Promise!Next

(* An element has been delivered when take returns.                        *)
LEMMA DeliverStep ==
  ASSUME TypeOK, NothingLost, NEW r \in Receivers, r \notin poisoned,
         NEW x \in Elements, x \in (Queued \cup Held) \ Received,
         received' = [received EXCEPT ![r] = Append(@, x)],
         UNCHANGED <<emitted, poisoned>>
  PROVE  Promise!Next
<1>0. received \in [Receivers -> Seq(Elements)]
  BY DEF TypeOK
<1>1. x \in Emitted \ Promise!Delivered
  BY DeliveredIsReceived DEF NothingLost
<1>2. Range(Append(received[r], x)) = Range(received[r]) \cup {x}
  BY <1>0, RangeAppend
<1> DEFINE f == [s \in Receivers |-> Range(received[s])]
           g == [s \in Receivers |-> Range(received'[s])]
<1>3. g = [f EXCEPT ![r] = @ \cup {x}]
  BY <1>0, <1>2
<1>4. UNCHANGED <<Emitted, poisoned>>
  BY DEF Emitted
<1>5. Promise!Deliver(r, x)
  BY <1>1, <1>3, <1>4 DEF Promise!Deliver
<1>6. QED
  BY <1>5 DEF Promise!Next

LEMMA StutterStep ==
  ASSUME UNCHANGED <<emitted, received, poisoned>>
  PROVE  UNCHANGED Promise!vars
BY DEF Promise!vars, Emitted

LEMMA PromiseStep ==
  IInv /\ AllDelivered' /\ Once /\ [Next]_vars => [Promise!Next]_(Promise!vars)
<1> SUFFICES ASSUME IInv, AllDelivered', Once, [Next]_vars
             PROVE  Promise!Next \/ UNCHANGED Promise!vars
  OBVIOUS
<1>0. TypeOK /\ Shape /\ NothingLost
  BY DEF IInv
<1>1. ASSUME NEW e \in Emitters, PutInBuffer(e) \/ PutFullGroup(e)
      PROVE  Promise!Next
  <2>1. /\ emitted[e] < NumElements[e]
        /\ emitted' = [emitted EXCEPT ![e] = @ + 1]
        /\ UNCHANGED <<received, poisoned>>
    BY <1>1 DEF PutInBuffer, PutFullGroup, receiverVars
  <2>2. QED
    BY <1>0, <2>1, AcceptStep
<1>2. ASSUME NEW e \in Emitters, PutInterrupted(e) \/ Flush(e) \/ FlushInterrupted(e)
      PROVE  UNCHANGED Promise!vars
  BY <1>2, StutterStep
  DEF PutInterrupted, Flush, FlushInterrupted, emitterVars, receiverVars
<1>3. ASSUME PoisonReceiver \/ PoisonInterrupted
      PROVE  UNCHANGED Promise!vars
  BY <1>3, StutterStep
  DEF PoisonReceiver, PoisonInterrupted, emitterVars, receiverVars
<1>4. ASSUME NEW r \in Receivers, TakeHeld(r) PROVE Promise!Next
  <2>1. /\ held[r] # <<>> /\ r \notin poisoned
        /\ received' = [received EXCEPT ![r] = Append(@, Head(held[r]))]
        /\ UNCHANGED <<emitted, poisoned>>
    BY <1>4 DEF TakeHeld, emitterVars
  <2>2. held[r] \in Seq(Elements) /\ held \in [Receivers -> Seq(Elements)]
    BY <1>0 DEF TypeOK
  <2>3. Head(held[r]) \in Elements /\ Head(held[r]) \in Range(held[r])
    BY <2>1, <2>2, RangeHeadTail
  <2>4. Head(held[r]) \in Held
    BY <2>2, <2>3 DEF Held, InBuffers
  <2>5. Head(held[r]) \notin Received
    BY <2>4 DEF Once, PlacesApart
  <2>6. QED
    BY <1>0, <2>1, <2>3, <2>4, <2>5, DeliverStep
<1>5. ASSUME NEW r \in Receivers, TakeGroup(r) PROVE Promise!Next
  <2> DEFINE g == Head(queue).group
  <2>1. /\ queue # <<>> /\ ~ Head(queue).poison /\ r \notin poisoned
        /\ received' = [received EXCEPT ![r] = Append(@, Head(g))]
        /\ UNCHANGED <<emitted, poisoned>>
    BY <1>5 DEF TakeGroup, emitterVars
  <2>2. g \in Seq(Elements) /\ g # <<>> /\ 1 \in DOMAIN queue /\ g = queue[1].group
    BY <1>0, <2>1, HeadInQueue DEF Shape, GroupsFilled, QueueElements
  <2>3. Range(g) \subseteq Queued
    BY <2>2 DEF Queued, InGroups
  <2> HIDE DEF g
  <2>4. Head(g) \in Elements /\ Head(g) \in Range(g)
    BY <2>2, RangeHeadTail
  <2>5. Head(g) \in Queued /\ Head(g) \notin Received
    BY <2>3, <2>4 DEF Once, PlacesApart
  <2>6. QED
    BY <1>0, <2>1, <2>4, <2>5, DeliverStep
<1>6. ASSUME NEW r \in Receivers, TakePoison(r) PROVE Promise!Next
  <2>1. /\ r \notin poisoned
        /\ poisoned' = poisoned \cup {r}
        /\ UNCHANGED <<emitted, received>>
    BY <1>6 DEF TakePoison, emitterVars
  <2>2. UNCHANGED <<Emitted, Received>>
    BY <2>1 DEF Emitted, Received
  <2>3. poisoned' = Receivers => Received = Emitted
    <3> SUFFICES ASSUME poisoned' = Receivers PROVE Received = Emitted
      OBVIOUS
    <3>1. (Received = Elements)'
      BY DEF AllDelivered
    <3>2. Emitted \subseteq Elements /\ Received \subseteq Emitted
      BY <1>0 DEF Emitted, NothingLost
    <3>3. Elements' = Elements
      BY DEF Elements
    <3>4. QED
      BY <2>2, <3>1, <3>2, <3>3
  <2>4. Promise!End(r)
    BY <1>0, <2>1, <2>2, <2>3, DeliveredIsReceived DEF Promise!End
  <2>5. QED
    BY <2>4 DEF Promise!Next
<1>7. CASE UNCHANGED vars
  BY <1>7, StutterStep DEF vars
<1>8. QED
  BY <1>1, <1>2, <1>3, <1>4, <1>5, <1>6, <1>7
  DEF Next, Emit, Receive, PoisonReceivers, Terminating

(* Emitters, groups, poison and receivers together are a channel: what is
   put is taken once, and when the last receiver is told to stop, all of
   it has been.                                                            *)
THEOREM QueueIsChannel == Spec => ImplementsChannel
<1>1. Init => Promise!Init
  BY PromiseInit
<1>2. IInv /\ AllDelivered' /\ Once /\ [Next]_vars => [Promise!Next]_(Promise!vars)
  BY PromiseStep
<1>3. QED
  BY <1>1, <1>2, OnceInvariance, AllDeliveredAtEnd, PTL
  DEF Spec, ImplementsChannel, Promise!Spec

-----------------------------------------------------------------------------
(* Batching keeps the order of every emitter: the elements of one emitter  *)
(* reach a receiver in the order in which they were put.                   *)

(* Of every emitter, the elements in S were put before those in T.         *)
Before(S, T) == \A x \in S, y \in T : x[1] = y[1] => x[2] < y[2]

(* InOrder alone is not inductive: the next group a receiver takes has to be
   later than all that it holds, so the elements move through the stages in
   order, from the emitters' buffers to the queue to the receivers.        *)
StagesOrdered ==
  /\ Before(Held \cup Received, Queued \cup Buffered)
  /\ Before(Queued, Buffered)

GroupsOrdered ==
  /\ \A k \in DOMAIN queue : Ordered(queue[k].group)
  /\ \A k, l \in DOMAIN queue :
       k < l => Before(Range(queue[k].group), Range(queue[l].group))

InStep ==
  /\ StagesOrdered
  /\ GroupsOrdered
  /\ \A e \in Emitters : Ordered(buffer[e])
  /\ \A r \in Receivers : Ordered(received[r] \o held[r])

-----------------------------------------------------------------------------
(* Ordered sequences.                                                      *)

LEMMA OrderedEmpty == Ordered(<<>>)
BY DEF Ordered

LEMMA OrderedSingle == \A x : Ordered(<<x>>)
BY DEF Ordered

LEMMA OrderedConcat ==
  ASSUME NEW E, NEW s \in Seq(E), NEW t \in Seq(E),
         Ordered(s), Ordered(t), Before(Range(s), Range(t))
  PROVE  Ordered(s \o t)
<1>1. /\ Len(s) \in Nat /\ Len(t) \in Nat
      /\ DOMAIN s = 1 .. Len(s) /\ DOMAIN t = 1 .. Len(t)
      /\ DOMAIN (s \o t) = 1 .. Len(s) + Len(t)
  OBVIOUS
<1>2. /\ \A i \in 1 .. Len(s) : (s \o t)[i] = s[i]
      /\ \A i \in Len(s) + 1 .. Len(s) + Len(t) : (s \o t)[i] = t[i - Len(s)]
  OBVIOUS
<1>3. SUFFICES ASSUME NEW i \in 1 .. Len(s) + Len(t), NEW j \in 1 .. Len(s) + Len(t),
                      i < j, (s \o t)[i][1] = (s \o t)[j][1]
               PROVE  (s \o t)[i][2] < (s \o t)[j][2]
  BY <1>1 DEF Ordered
<1>4. CASE j \in 1 .. Len(s)
  <2>1. i \in 1 .. Len(s)
    BY <1>1, <1>3, <1>4
  <2>2. QED
    BY <1>1, <1>2, <1>3, <1>4, <2>1 DEF Ordered
<1>5. CASE i \in 1 .. Len(s) /\ j \in Len(s) + 1 .. Len(s) + Len(t)
  <2>1. s[i] \in Range(s)
    BY <1>1, <1>5 DEF Range
  <2>2. j - Len(s) \in 1 .. Len(t)
    BY <1>1, <1>5
  <2>3. t[j - Len(s)] \in Range(t)
    BY <1>1, <2>2 DEF Range
  <2>4. (s \o t)[i] = s[i] /\ (s \o t)[j] = t[j - Len(s)]
    BY <1>2, <1>5
  <2>5. QED
    BY <1>3, <2>1, <2>3, <2>4 DEF Before
<1>6. CASE i \in Len(s) + 1 .. Len(s) + Len(t)
  <2>1. j \in Len(s) + 1 .. Len(s) + Len(t)
    BY <1>1, <1>3, <1>6
  <2>2. /\ i - Len(s) \in 1 .. Len(t) /\ j - Len(s) \in 1 .. Len(t)
        /\ i - Len(s) < j - Len(s)
    BY <1>1, <1>3, <1>6, <2>1
  <2>3. (s \o t)[i] = t[i - Len(s)] /\ (s \o t)[j] = t[j - Len(s)]
    BY <1>2, <1>6, <2>1
  <2>4. QED
    BY <1>1, <1>3, <2>2, <2>3 DEF Ordered
<1>7. QED
  BY <1>1, <1>3, <1>4, <1>5, <1>6

LEMMA OrderedAppend ==
  ASSUME NEW E, NEW s \in Seq(E), NEW x \in E, Ordered(s), Before(Range(s), {x})
  PROVE  Ordered(Append(s, x))
<1>1. <<x>> \in Seq(E) /\ Range(<<x>>) = {x} /\ Ordered(<<x>>)
  BY RangeSingle, OrderedSingle
<1>2. Ordered(s \o <<x>>)
  BY <1>1, OrderedConcat
<1>3. Append(s, x) = s \o <<x>>
  OBVIOUS
<1>4. QED
  BY <1>2, <1>3

(* Handing out the head moves the boundary between what has been received
   and what is held.                                                       *)
LEMMA HandOutHead ==
  ASSUME NEW E, NEW s \in Seq(E), NEW t \in Seq(E), t # <<>>
  PROVE  Append(s, Head(t)) \o Tail(t) = s \o t
<1> DEFINE u == Append(s, Head(t))
<1>1. /\ Len(s) \in Nat /\ Len(t) \in Nat /\ Len(t) >= 1
      /\ Head(t) = t[1] /\ Head(t) \in E
      /\ Tail(t) \in Seq(E) /\ Len(Tail(t)) = Len(t) - 1
      /\ \A i \in 1 .. Len(t) - 1 : Tail(t)[i] = t[i + 1]
  OBVIOUS
<1>2. /\ u \in Seq(E) /\ Len(u) = Len(s) + 1
      /\ \A i \in 1 .. Len(s) : u[i] = s[i]
      /\ u[Len(s) + 1] = t[1]
  BY <1>1
<1> HIDE DEF u
<1>3. /\ u \o Tail(t) \in Seq(E) /\ s \o t \in Seq(E)
      /\ Len(u \o Tail(t)) = Len(s) + Len(t)
      /\ Len(s \o t) = Len(s) + Len(t)
  BY <1>1, <1>2
<1>4. ASSUME NEW i \in 1 .. Len(s) + Len(t)
      PROVE  (u \o Tail(t))[i] = (s \o t)[i]
  <2>1. CASE i \in 1 .. Len(s)
    <3>1. (s \o t)[i] = s[i]
      BY <2>1
    <3>2. (u \o Tail(t))[i] = u[i]
      BY <1>1, <1>2, <2>1
    <3>3. QED
      BY <1>2, <2>1, <3>1, <3>2
  <2>2. CASE i = Len(s) + 1
    <3>1. (s \o t)[i] = t[1]
      BY <1>1, <2>2
    <3>2. (u \o Tail(t))[i] = u[Len(s) + 1]
      BY <1>1, <1>2, <2>2
    <3>3. QED
      BY <1>2, <3>1, <3>2
  <2>3. CASE i \in Len(s) + 2 .. Len(s) + Len(t)
    <3>1. (s \o t)[i] = t[i - Len(s)]
      BY <1>1, <2>3
    <3>2. (u \o Tail(t))[i] = Tail(t)[i - (Len(s) + 1)]
      BY <1>1, <1>2, <2>3
    <3>3. i - (Len(s) + 1) \in 1 .. Len(t) - 1 /\ i - (Len(s) + 1) + 1 = i - Len(s)
      BY <1>1, <2>3
    <3>4. QED
      BY <1>1, <3>1, <3>2, <3>3
  <2>4. i \in 1 .. Len(s) \/ i = Len(s) + 1 \/ i \in Len(s) + 2 .. Len(s) + Len(t)
    BY <1>1
  <2>5. QED
    BY <2>1, <2>2, <2>3, <2>4
<1>5. QED
  BY <1>3, <1>4, SeqEqual DEF u

-----------------------------------------------------------------------------
LEMMA InStepIsInOrder == InStep => InOrder
BY DEF InStep, GroupsOrdered, Before, InOrder

LEMMA InStepInit == Init => InStep
<1> SUFFICES ASSUME Init PROVE InStep
  OBVIOUS
<1>1. /\ \A e \in Emitters : buffer[e] = <<>>
      /\ \A r \in Receivers : held[r] = <<>> /\ received[r] = <<>>
      /\ DOMAIN queue = {}
  BY DEF Init
<1>2. Buffered = {} /\ Queued = {} /\ Held = {} /\ Received = {}
  BY RangeEmpty DEF Init, Buffered, Held, Received, InBuffers, Queued, InGroups
<1>3. StagesOrdered /\ GroupsOrdered
  BY <1>1, <1>2 DEF StagesOrdered, GroupsOrdered, Before
<1>4. <<>> \o <<>> = <<>>
  OBVIOUS
<1>5. QED
  BY <1>1, <1>3, <1>4, OrderedEmpty DEF InStep

(* What an emitter puts next comes after all that it has put.              *)
LEMMA NextElementLast ==
  ASSUME TypeOK, NothingLost, NEW e \in Emitters
  PROVE  Before(Buffered \cup Queued \cup Held \cup Received, {NextElement(e)})
<1>1. emitted[e] \in Nat
  BY DEF TypeOK
<1>2. NextElement(e)[1] = e /\ NextElement(e)[2] = emitted[e] + 1
  BY DEF NextElement
<1>3. ASSUME NEW x \in Emitted, x[1] = e PROVE x[2] < emitted[e] + 1
  <2>1. x \in Elements /\ x[2] <= emitted[e]
    BY <1>3 DEF Emitted
  <2>2. x[2] \in Nat
    BY <2>1, QueueAssumption DEF Elements
  <2>3. QED
    BY <1>1, <2>1, <2>2
<1>4. QED
  BY <1>2, <1>3 DEF Before, NothingLost

(* An emitter sends its buffer and goes on with s.                         *)
LEMMA SendInOrder ==
  ASSUME TypeOK, OwnBuffered, InStep, NEW e \in Emitters, NEW s,
         queue' = Append(queue, Group(buffer[e])),
         buffer' = [buffer EXCEPT ![e] = s],
         UNCHANGED <<held, received>>,
         Ordered(s),
         Before(Buffered \cup Queued \cup Held \cup Received, Range(s))
  PROVE  InStep'
<1>0. /\ buffer \in [Emitters -> Seq(Elements)]
      /\ queue \in Seq(QueueElements)
      /\ Group(buffer[e]) \in QueueElements
      /\ Group(buffer[e]).group = buffer[e]
  BY DEF TypeOK, QueueElements, Group
<1>1. /\ Buffered = Others(buffer, e) \cup Range(buffer[e])
      /\ Buffered' = Others(buffer, e) \cup Range(s)
  <2>1. Replaces(buffer', buffer, e, s)
    BY <1>0 DEF Replaces
  <2>2. QED
    BY <2>1, InBuffersReplaced DEF Buffered
<1>2. Queued' = Queued \cup Range(buffer[e])
  BY <1>0, InGroupsAppend DEF Queued
<1>3. UNCHANGED <<Held, Received>>
  BY DEF Held, Received
<1>4. Before(Range(buffer[e]), Others(buffer, e))
  BY <1>0 DEF Before, Others, OwnBuffered
<1>5. StagesOrdered'
  BY <1>1, <1>2, <1>3, <1>4 DEF InStep, StagesOrdered, Before
<1>6. /\ DOMAIN queue = 1 .. Len(queue)
      /\ Len(queue) \in Nat
      /\ DOMAIN queue' = 1 .. Len(queue) + 1
      /\ \A k \in 1 .. Len(queue) : queue'[k] = queue[k]
      /\ queue'[Len(queue) + 1] = Group(buffer[e])
      /\ \A k \in 1 .. Len(queue) + 1 : k \in 1 .. Len(queue) \/ k = Len(queue) + 1
  BY <1>0, AppendToSeq
<1>7. GroupsOrdered'
  <2>1. \A k \in 1 .. Len(queue) : Before(Range(queue[k].group), Range(buffer[e]))
    BY <1>1, <1>6 DEF InStep, StagesOrdered, Before, Queued, InGroups
  <2>2. ASSUME NEW k \in DOMAIN queue', NEW l \in DOMAIN queue', k < l
        PROVE  Before(Range(queue'[k].group), Range(queue'[l].group))
    <3>1. k \in 1 .. Len(queue)
      BY <1>6, <2>2
    <3>2. CASE l \in 1 .. Len(queue)
      BY <1>6, <2>2, <3>1, <3>2 DEF InStep, GroupsOrdered
    <3>3. CASE l = Len(queue) + 1
      BY <1>0, <1>6, <2>1, <3>1, <3>3
    <3>4. QED
      BY <1>6, <3>2, <3>3
  <2>3. \A k \in DOMAIN queue' : Ordered(queue'[k].group)
    BY <1>0, <1>6 DEF InStep, GroupsOrdered
  <2>4. QED
    BY <2>2, <2>3 DEF GroupsOrdered
<1>8. \A f \in Emitters : Ordered(buffer'[f])
  BY <1>0 DEF InStep
<1>9. QED
  BY <1>5, <1>7, <1>8 DEF InStep

(* A receiver takes the head of the queue away.                            *)
LEMMA DequeueInOrder ==
  ASSUME TypeOK, GroupsOrdered, queue # <<>>, queue' = Tail(queue)
  PROVE  GroupsOrdered' /\ Queued' \subseteq Queued
<1>1. queue \in Seq(QueueElements)
  BY DEF TypeOK, QueueElements
<1>2. /\ DOMAIN queue' = 1 .. Len(queue) - 1
      /\ \A k \in DOMAIN queue' :
           k + 1 \in DOMAIN queue /\ queue'[k] = queue[k + 1]
  BY <1>1, HeadInQueue
<1>3. ASSUME NEW k \in DOMAIN queue', NEW l \in DOMAIN queue', k < l
      PROVE  Before(Range(queue'[k].group), Range(queue'[l].group))
  <2>1. k + 1 < l + 1
    BY <1>2, <1>3
  <2>2. QED
    BY <1>2, <2>1 DEF GroupsOrdered
<1>4. \A k \in DOMAIN queue' : Ordered(queue'[k].group)
  BY <1>2 DEF GroupsOrdered
<1>5. QED
  BY <1>2, <1>3, <1>4 DEF GroupsOrdered, Queued, InGroups

LEMMA InStepStep ==
  TypeOK /\ Shape /\ NothingLost /\ OwnBuffered /\ InStep /\ [Next]_vars => InStep'
<1> SUFFICES ASSUME TypeOK, Shape, NothingLost, OwnBuffered, InStep, [Next]_vars
             PROVE  InStep'
  OBVIOUS
<1>0. /\ buffer \in [Emitters -> Seq(Elements)]
      /\ held \in [Receivers -> Seq(Elements)]
      /\ received \in [Receivers -> Seq(Elements)]
      /\ queue \in Seq(QueueElements)
  BY DEF TypeOK, QueueElements
<1>1. ASSUME NEW e \in Emitters, PutInBuffer(e) PROVE InStep'
  <2> DEFINE x == NextElement(e)
  <2>1. /\ buffer' = [buffer EXCEPT ![e] = Append(buffer[e], x)]
        /\ UNCHANGED <<queue, held, received>>
    BY <1>1 DEF PutInBuffer, receiverVars
  <2>2. x \in Elements /\ Before(Buffered \cup Queued \cup Held \cup Received, {x})
    BY <1>1, NextElementType, NextElementLast DEF PutInBuffer
  <2> HIDE DEF x
  <2>3. Range(Append(buffer[e], x)) = Range(buffer[e]) \cup {x}
    BY <1>0, RangeAppend
  <2>4. /\ Buffered = Others(buffer, e) \cup Range(buffer[e])
        /\ Buffered' = Others(buffer, e) \cup Range(Append(buffer[e], x))
    <3>1. Replaces(buffer', buffer, e, Append(buffer[e], x))
      BY <1>0, <2>1 DEF Replaces
    <3>2. QED
      BY <3>1, InBuffersReplaced DEF Buffered
  <2>5. UNCHANGED <<Queued, Held, Received>>
    BY <2>1 DEF Queued, Held, Received
  <2>6. StagesOrdered'
    BY <2>2, <2>3, <2>4, <2>5 DEF InStep, StagesOrdered, Before
  <2>7. Ordered(Append(buffer[e], x))
    <3>1. Before(Range(buffer[e]), {x}) /\ Ordered(buffer[e])
      BY <2>2, <2>4 DEF Before, InStep
    <3>2. QED
      BY <1>0, <2>2, <3>1, OrderedAppend
  <2>8. \A f \in Emitters : Ordered(buffer'[f])
    BY <1>0, <2>1, <2>7 DEF InStep
  <2>9. QED
    BY <2>1, <2>6, <2>8 DEF InStep, GroupsOrdered
<1>2. ASSUME NEW e \in Emitters, PutFullGroup(e) PROVE InStep'
  <2> DEFINE s == <<NextElement(e)>>
  <2>1. /\ queue' = Append(queue, Group(buffer[e]))
        /\ buffer' = [buffer EXCEPT ![e] = s]
        /\ UNCHANGED <<held, received>>
    BY <1>2 DEF PutFullGroup, receiverVars
  <2>2. Range(s) = {NextElement(e)} /\ Ordered(s)
    BY RangeSingle, OrderedSingle
  <2>3. Before(Buffered \cup Queued \cup Held \cup Received, Range(s))
    BY <2>2, NextElementLast
  <2> HIDE DEF s
  <2>4. QED
    BY <2>1, <2>2, <2>3, SendInOrder
<1>3. ASSUME UNCHANGED <<buffer, queue, held, received>> PROVE InStep'
  BY <1>3 DEF InStep, StagesOrdered, GroupsOrdered, Buffered, Queued, Held, Received
<1>4. ASSUME NEW e \in Emitters, Flush(e) PROVE InStep'
  <2>1. CASE buffer[e] = <<>>
    BY <1>3, <1>4, <2>1 DEF Flush, receiverVars
  <2>2. CASE buffer[e] # <<>>
    <3>1. /\ queue' = Append(queue, Group(buffer[e]))
          /\ buffer' = [buffer EXCEPT ![e] = <<>>]
          /\ UNCHANGED <<held, received>>
      BY <1>4, <2>2 DEF Flush, receiverVars
    <3>2. Before(Buffered \cup Queued \cup Held \cup Received, Range(<<>>))
      BY RangeEmpty DEF Before
    <3>3. QED
      BY <3>1, <3>2, SendInOrder, OrderedEmpty
  <2>3. QED
    BY <2>1, <2>2
<1>5. ASSUME NEW e \in Emitters, PutInterrupted(e) \/ FlushInterrupted(e)
      PROVE  InStep'
  BY <1>3, <1>5 DEF PutInterrupted, FlushInterrupted, emitterVars, receiverVars
<1>6. CASE PoisonInterrupted
  BY <1>3, <1>6 DEF PoisonInterrupted, emitterVars, receiverVars
<1>7. CASE PoisonReceiver
  <2>1. /\ queue' = Append(queue, Poison)
        /\ UNCHANGED <<buffer, held, received>>
    BY <1>7 DEF PoisonReceiver, emitterVars, receiverVars
  <2>2. Poison \in QueueElements /\ Poison.group = <<>>
    BY DEF Poison, QueueElements
  <2>3. UNCHANGED <<Buffered, Queued, Held, Received>>
    BY <1>0, <2>1, <2>2, InGroupsAppend, RangeEmpty
    DEF Buffered, Queued, Held, Received
  <2>4. /\ DOMAIN queue = 1 .. Len(queue)
        /\ Len(queue) \in Nat
        /\ DOMAIN queue' = 1 .. Len(queue) + 1
        /\ \A k \in 1 .. Len(queue) : queue'[k] = queue[k]
        /\ queue'[Len(queue) + 1] = Poison
        /\ \A k \in 1 .. Len(queue) + 1 : k \in 1 .. Len(queue) \/ k = Len(queue) + 1
    BY <1>0, <2>1, <2>2, AppendToSeq
  <2>5. ASSUME NEW k \in DOMAIN queue', NEW l \in DOMAIN queue', k < l
        PROVE  Before(Range(queue'[k].group), Range(queue'[l].group))
    <3>1. k \in 1 .. Len(queue)
      BY <2>4, <2>5
    <3>2. CASE l \in 1 .. Len(queue)
      BY <2>4, <2>5, <3>1, <3>2 DEF InStep, GroupsOrdered
    <3>3. CASE l = Len(queue) + 1
      BY <2>2, <2>4, <3>3, RangeEmpty DEF Before
    <3>4. QED
      BY <2>4, <3>2, <3>3
  <2>6. \A k \in DOMAIN queue' : Ordered(queue'[k].group)
    BY <2>2, <2>4, OrderedEmpty DEF InStep, GroupsOrdered
  <2>7. QED
    BY <2>1, <2>3, <2>5, <2>6 DEF InStep, StagesOrdered, GroupsOrdered
<1>8. ASSUME NEW r \in Receivers, TakeHeld(r) PROVE InStep'
  <2> DEFINE x == Head(held[r])
             rest == Tail(held[r])
  <2>1. /\ held[r] # <<>>
        /\ held' = [held EXCEPT ![r] = rest]
        /\ received' = [received EXCEPT ![r] = Append(received[r], x)]
        /\ UNCHANGED <<buffer, queue>>
    BY <1>8 DEF TakeHeld, emitterVars
  <2>2. Range(held[r]) = {x} \cup Range(rest)
    BY <1>0, <2>1, RangeHeadTail
  <2>3. Append(received[r], x) \o rest = received[r] \o held[r]
    BY <1>0, <2>1, HandOutHead
  <2> HIDE DEF x, rest
  <2>4. Range(Append(received[r], x)) = Range(received[r]) \cup {x}
    BY <1>0, RangeAppend
  <2>5. /\ Held = Others(held, r) \cup Range(held[r])
        /\ Held' = Others(held, r) \cup Range(rest)
    <3>1. Replaces(held', held, r, rest)
      BY <1>0, <2>1 DEF Replaces
    <3>2. QED
      BY <3>1, InBuffersReplaced DEF Held
  <2>6. /\ Received = Others(received, r) \cup Range(received[r])
        /\ Received' = Others(received, r) \cup Range(Append(received[r], x))
    <3>1. Replaces(received', received, r, Append(received[r], x))
      BY <1>0, <2>1 DEF Replaces
    <3>2. QED
      BY <3>1, InBuffersReplaced DEF Received
  <2>7. UNCHANGED <<Buffered, Queued, Held \cup Received>>
    BY <2>1, <2>2, <2>4, <2>5, <2>6 DEF Buffered, Queued
  <2>8. StagesOrdered'
    BY <2>7 DEF InStep, StagesOrdered
  <2>9. \A t \in Receivers : Ordered(received'[t] \o held'[t])
    BY <1>0, <2>1, <2>3 DEF InStep
  <2>10. QED
    BY <2>1, <2>8, <2>9 DEF InStep, GroupsOrdered
<1>9. ASSUME NEW r \in Receivers, TakeGroup(r) PROVE InStep'
  <2> DEFINE g == Head(queue).group
             x == Head(g)
             rest == Tail(g)
  <2>1. /\ queue # <<>> /\ queue' = Tail(queue) /\ ~ Head(queue).poison
        /\ held[r] = <<>>
        /\ held' = [held EXCEPT ![r] = rest]
        /\ received' = [received EXCEPT ![r] = Append(received[r], x)]
        /\ UNCHANGED buffer
    BY <1>9 DEF TakeGroup, emitterVars
  <2>2. 1 \in DOMAIN queue /\ g = queue[1].group /\ g \in Seq(Elements) /\ g # <<>>
    BY <1>0, <2>1, HeadInQueue DEF Shape, GroupsFilled, QueueElements
  <2>3. Queued = Range(g) \cup Queued'
    BY <1>0, <2>1, InGroupsTail DEF Queued
  <2>4. Before(Range(g), Queued')
    <3>1. /\ DOMAIN queue' = 1 .. Len(queue) - 1
          /\ \A k \in DOMAIN queue' :
               k + 1 \in DOMAIN queue /\ queue'[k] = queue[k + 1]
      BY <1>0, <2>1, HeadInQueue
    <3>2. ASSUME NEW k \in DOMAIN queue'
          PROVE  Before(Range(g), Range(queue'[k].group))
      <4>1. 1 < k + 1
        BY <3>1
      <4>2. QED
        BY <2>2, <3>1, <4>1 DEF InStep, GroupsOrdered
    <3>3. QED
      BY <3>2 DEF Before, Queued, InGroups
  <2>5. Ordered(g)
    BY <2>2 DEF InStep, GroupsOrdered
  <2> HIDE DEF g
  <2>6. Range(g) = {x} \cup Range(rest)
    BY <2>2, RangeHeadTail
  <2>7. Append(received[r], x) \o rest = received[r] \o g
    <3>1. received[r] \in Seq(Elements) /\ g \in Seq(Elements) /\ g # <<>>
      BY <1>0, <2>2
    <3>2. QED
      BY ONLY <3>1, HandOutHead
  <2> HIDE DEF x, rest
  <2>8. Range(Append(received[r], x)) = Range(received[r]) \cup {x}
    BY <1>0, RangeAppend
  <2>9. /\ Held = Others(held, r) \cup Range(held[r])
        /\ Held' = Others(held, r) \cup Range(rest)
    <3>1. Replaces(held', held, r, rest)
      BY <1>0, <2>1 DEF Replaces
    <3>2. QED
      BY <3>1, InBuffersReplaced DEF Held
  <2>10. /\ Received = Others(received, r) \cup Range(received[r])
         /\ Received' = Others(received, r) \cup Range(Append(received[r], x))
    <3>1. Replaces(received', received, r, Append(received[r], x))
      BY <1>0, <2>1 DEF Replaces
    <3>2. QED
      BY <3>1, InBuffersReplaced DEF Received
  <2>11. Held' \cup Received' = Held \cup Received \cup Range(g)
    BY <2>1, <2>6, <2>8, <2>9, <2>10, RangeEmpty
  <2>12. Buffered' = Buffered
    BY <2>1 DEF Buffered
  <2>13. StagesOrdered'
    BY <2>3, <2>4, <2>11, <2>12 DEF InStep, StagesOrdered, Before
  <2>14. Ordered(received[r] \o g)
    <3>1. received[r] \o held[r] = received[r]
      BY <1>0, <2>1
    <3>2. Ordered(received[r])
      BY <3>1 DEF InStep
    <3>3. Before(Range(received[r]), Range(g))
      BY <2>3, <2>10 DEF InStep, StagesOrdered, Before
    <3>4. QED
      BY <1>0, <2>2, <2>5, <3>2, <3>3, OrderedConcat
  <2>15. \A t \in Receivers : Ordered(received'[t] \o held'[t])
    BY <1>0, <2>1, <2>7, <2>14 DEF InStep
  <2>16. GroupsOrdered'
    BY <2>1, DequeueInOrder DEF InStep
  <2>17. QED
    BY <2>1, <2>13, <2>15, <2>16 DEF InStep
<1>10. ASSUME NEW r \in Receivers, TakePoison(r) PROVE InStep'
  <2>1. /\ queue # <<>> /\ queue' = Tail(queue)
        /\ UNCHANGED <<buffer, held, received>>
    BY <1>10 DEF TakePoison, emitterVars
  <2>2. GroupsOrdered' /\ Queued' \subseteq Queued
    BY <2>1, DequeueInOrder DEF InStep
  <2>3. UNCHANGED <<Buffered, Held, Received>>
    BY <2>1 DEF Buffered, Held, Received
  <2>4. StagesOrdered'
    BY <2>2, <2>3 DEF InStep, StagesOrdered, Before
  <2>5. QED
    BY <2>1, <2>2, <2>4 DEF InStep
<1>11. CASE UNCHANGED vars
  BY <1>3, <1>11 DEF vars
<1>12. QED
  BY <1>1, <1>2, <1>4, <1>5, <1>6, <1>7, <1>8, <1>9, <1>10, <1>11
  DEF Next, Emit, Receive, PoisonReceivers, Terminating

(* GroupEmitter and GroupReceiver keep the order: whatever puts were
   interrupted and repeated, what a receiver has been given and still holds
   has the elements of each emitter in the order of their puts, and the
   groups that wait in the queue continue it.                              *)
THEOREM OrderKept == Spec => []InOrder
<1>1. Init => InStep
  BY InStepInit
<1>2. IInv /\ Once /\ InStep /\ [Next]_vars => InStep'
  BY InStepStep DEF IInv, Once
<1>3. InStep => InOrder
  BY InStepIsInOrder
<1>4. QED
  BY <1>1, <1>2, <1>3, OnceInvariance, PTL DEF Spec
=============================================================================
