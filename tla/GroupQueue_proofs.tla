-------------------------- MODULE GroupQueue_proofs --------------------------
(***************************************************************************)
(* What GroupQueue guarantees for every number of emitters, receivers and  *)
(* elements, every capacity and group size, and any number of interrupts.  *)
(***************************************************************************)
EXTENDS GroupQueue, FiniteSetTheorems, TLAPS

QueueElements == [group : Seq(Elements), poison : BOOLEAN]

(* What the safety properties rest on: a group in the queue is not empty and
   poison carries no group, a thread that has flushed has put everything and
   buffers nothing, poisoning starts when all have flushed, and a poisoned
   receiver holds nothing.                                                 *)
GroupsFilled ==
  \A k \in DOMAIN queue : queue[k].poison <=> queue[k].group = <<>>

FlushedEmpty ==
  \A e \in flushed : buffer[e] = <<>> /\ emitted[e] = NumElements[e]

PoisonAfterJoin ==
  (poisoned # {} \/ \E k \in DOMAIN queue : queue[k].poison)
    => flushed = Emitters

PoisonedEmpty == \A r \in poisoned : held[r] = <<>>

Shape ==
  /\ GroupsFilled
  /\ FlushedEmpty
  /\ PoisonAfterJoin
  /\ PoisonedEmpty
  /\ PoisonLast

IInv ==
  /\ TypeOK
  /\ Shape
  /\ NothingLost

-----------------------------------------------------------------------------
(* Sequences.                                                              *)

LEMMA RangeAppend ==
  ASSUME NEW E, NEW s \in Seq(E), NEW x
  PROVE  Range(Append(s, x)) = Range(s) \cup {x}
<1>1. DOMAIN Append(s, x) = 1 .. Len(s) + 1 /\ DOMAIN s = 1 .. Len(s) /\ Len(s) \in Nat
  OBVIOUS
<1>2. \A i \in 1 .. Len(s) : Append(s, x)[i] = s[i]
  OBVIOUS
<1>3. Append(s, x)[Len(s) + 1] = x
  OBVIOUS
<1>4. QED
  BY <1>1, <1>2, <1>3 DEF Range

LEMMA RangeHeadTail ==
  ASSUME NEW E, NEW s \in Seq(E), s # <<>>
  PROVE  Range(s) = {Head(s)} \cup Range(Tail(s))
<1>1. DOMAIN s = 1 .. Len(s) /\ Len(s) \in Nat /\ Len(s) >= 1
  OBVIOUS
<1>2. DOMAIN Tail(s) = 1 .. Len(s) - 1
  OBVIOUS
<1>3. Head(s) = s[1] /\ \A i \in 1 .. Len(s) - 1 : Tail(s)[i] = s[i + 1]
  OBVIOUS
<1>4. \A i \in 1 .. Len(s) : i = 1 \/ i - 1 \in 1 .. Len(s) - 1
  BY <1>1
<1>5. Range(s) \subseteq {Head(s)} \cup Range(Tail(s))
  <2> SUFFICES ASSUME NEW i \in 1 .. Len(s)
               PROVE  s[i] \in {Head(s)} \cup Range(Tail(s))
    BY <1>1 DEF Range
  <2>1. CASE i = 1
    BY <2>1, <1>3
  <2>2. CASE i - 1 \in 1 .. Len(s) - 1
    <3>1. Tail(s)[i - 1] = s[i]
      BY <2>2, <1>3
    <3>2. QED
      BY <3>1, <2>2, <1>2 DEF Range
  <2>3. QED
    BY <2>1, <2>2, <1>4
<1>6. {Head(s)} \cup Range(Tail(s)) \subseteq Range(s)
  BY <1>1, <1>2, <1>3 DEF Range
<1>7. QED
  BY <1>5, <1>6

LEMMA RangeEmpty == Range(<<>>) = {}
BY DEF Range

LEMMA RangeSingle == \A x : Range(<<x>>) = {x}
BY DEF Range

(* Replacing the buffer of one thread leaves the other threads' elements.  *)
Others(f, t) == UNION {Range(f[u]) : u \in DOMAIN f \ {t}}

Replaces(g, f, t, s) ==
  /\ t \in DOMAIN f
  /\ DOMAIN g = DOMAIN f
  /\ g[t] = s
  /\ \A u \in DOMAIN f \ {t} : g[u] = f[u]

LEMMA InBuffersReplaced ==
  ASSUME NEW f, NEW g, NEW t, NEW s, Replaces(g, f, t, s)
  PROVE  /\ InBuffers(f) = Others(f, t) \cup Range(f[t])
         /\ InBuffers(g) = Others(f, t) \cup Range(s)
<1>1. InBuffers(f) = Others(f, t) \cup Range(f[t])
  BY DEF InBuffers, Others, Replaces
<1>2. InBuffers(g) = Others(f, t) \cup Range(s)
  BY DEF InBuffers, Others, Replaces
<1>3. QED
  BY <1>1, <1>2

LEMMA InGroupsAppend ==
  ASSUME NEW E, NEW q \in Seq(E), NEW g
  PROVE  InGroups(Append(q, g)) = InGroups(q) \cup Range(g.group)
<1>1. DOMAIN Append(q, g) = 1 .. Len(q) + 1 /\ DOMAIN q = 1 .. Len(q) /\ Len(q) \in Nat
  OBVIOUS
<1>2. /\ \A k \in 1 .. Len(q) : Append(q, g)[k] = q[k]
      /\ Append(q, g)[Len(q) + 1] = g
  OBVIOUS
<1>3. \A k \in 1 .. Len(q) + 1 : k \in 1 .. Len(q) \/ k = Len(q) + 1
  BY <1>1
<1>4. QED
  BY <1>1, <1>2, <1>3 DEF InGroups

LEMMA InGroupsTail ==
  ASSUME NEW E, NEW q \in Seq(E), q # <<>>
  PROVE  InGroups(q) = Range(Head(q).group) \cup InGroups(Tail(q))
<1>1. DOMAIN q = 1 .. Len(q) /\ Len(q) \in Nat /\ Len(q) >= 1
  OBVIOUS
<1>2. DOMAIN Tail(q) = 1 .. Len(q) - 1
  OBVIOUS
<1>3. Head(q) = q[1] /\ \A i \in 1 .. Len(q) - 1 : Tail(q)[i] = q[i + 1]
  OBVIOUS
<1>4. \A i \in 1 .. Len(q) : i = 1 \/ i - 1 \in 1 .. Len(q) - 1
  BY <1>1
<1>5. InGroups(q) \subseteq Range(Head(q).group) \cup InGroups(Tail(q))
  <2> SUFFICES ASSUME NEW k \in 1 .. Len(q), NEW x \in Range(q[k].group)
               PROVE  x \in Range(Head(q).group) \cup InGroups(Tail(q))
    BY <1>1 DEF InGroups
  <2>1. CASE k = 1
    BY <2>1, <1>3
  <2>2. CASE k - 1 \in 1 .. Len(q) - 1
    <3>1. Tail(q)[k - 1] = q[k]
      BY <2>2, <1>3
    <3>2. QED
      BY <3>1, <2>2, <1>2 DEF InGroups
  <2>3. QED
    BY <2>1, <2>2, <1>4
<1>6. Range(Head(q).group) \cup InGroups(Tail(q)) \subseteq InGroups(q)
  BY <1>1, <1>2, <1>3 DEF InGroups
<1>7. QED
  BY <1>5, <1>6

-----------------------------------------------------------------------------
(* Emitted elements.                                                       *)

LEMMA NextElementType ==
  ASSUME TypeOK, NEW e \in Emitters, emitted[e] < NumElements[e]
  PROVE  /\ NextElement(e) \in Elements
         /\ Emitted \cup {NextElement(e)}
              = {x \in Elements : x[2] <= [emitted EXCEPT ![e] = @ + 1][x[1]]}
<1> USE QueueAssumption
<1>1. emitted[e] \in Nat /\ NumElements[e] \in Nat
  BY DEF TypeOK
<1>2. NextElement(e) \in Elements
  <2>1. NextElement(e) \in {e} \X (1 .. NumElements[e])
    BY <1>1 DEF NextElement
  <2>2. QED
    BY <2>1 DEF Elements
<1> DEFINE g == [emitted EXCEPT ![e] = @ + 1]
<1>3. /\ g[e] = emitted[e] + 1
      /\ \A u \in Emitters : u # e => g[u] = emitted[u]
  BY DEF TypeOK
<1> HIDE DEF g
<1>4. ASSUME NEW x \in Elements
      PROVE  x \in Emitted \cup {NextElement(e)} <=> x[2] <= g[x[1]]
  <2>1. PICK u \in Emitters : x \in {u} \X (1 .. NumElements[u])
    BY DEF Elements
  <2>2. PICK i \in 1 .. NumElements[u] : x = <<u, i>>
    BY <2>1
  <2>3. x[1] = u /\ x[2] = i /\ i \in Nat
    BY <2>2
  <2>4. emitted[u] \in Nat
    BY DEF TypeOK
  <2>5. x \in Emitted <=> i <= emitted[u]
    BY <2>3 DEF Emitted
  <2>6. x = NextElement(e) <=> u = e /\ i = emitted[e] + 1
    BY <2>2 DEF NextElement
  <2>7. CASE u = e
    BY <2>7, <2>3, <2>4, <2>5, <2>6, <1>3
  <2>8. CASE u # e
    BY <2>8, <2>3, <2>4, <2>5, <2>6, <1>3
  <2>9. QED
    BY <2>7, <2>8
<1>5. Emitted \cup {NextElement(e)} = {x \in Elements : x[2] <= g[x[1]]}
  BY <1>2, <1>4 DEF Emitted
<1>6. QED
  BY <1>2, <1>5 DEF g

-----------------------------------------------------------------------------
(* Types.                                                                  *)

LEMMA HeadInQueue ==
  ASSUME TypeOK, queue # <<>>
  PROVE  /\ Head(queue) \in QueueElements
         /\ Tail(queue) \in Seq(QueueElements)
         /\ 1 \in DOMAIN queue
         /\ Head(queue) = queue[1]
         /\ DOMAIN Tail(queue) = 1 .. Len(queue) - 1
         /\ \A k \in DOMAIN Tail(queue) :
              k + 1 \in DOMAIN queue /\ Tail(queue)[k] = queue[k + 1]
<1> DEFINE Q == QueueElements
<1>1. queue \in Seq(Q)
  BY DEF TypeOK, QueueElements
<1> HIDE DEF Q
<1>2. /\ Head(queue) \in Q
      /\ Tail(queue) \in Seq(Q)
  BY <1>1
<1>3. QED
  BY <1>1, <1>2 DEF Q

LEMMA TypeInit == Init => TypeOK
<1> SUFFICES ASSUME Init PROVE TypeOK
  OBVIOUS
<1>1. Cardinality(Receivers) \in Nat
  BY QueueAssumption, FS_CardinalityType
<1>2. QED
  BY <1>1, QueueAssumption DEF Init, TypeOK

LEMMA TypeStep == TypeOK /\ GroupsFilled /\ [Next]_vars => TypeOK'
<1> SUFFICES ASSUME TypeOK, GroupsFilled, [Next]_vars PROVE TypeOK'
  OBVIOUS
<1> USE QueueAssumption
<1>1. ASSUME NEW e \in Emitters, PutInBuffer(e) PROVE TypeOK'
  <2>1. NextElement(e) \in Elements
    BY <1>1, NextElementType DEF PutInBuffer
  <2>2. Append(buffer[e], NextElement(e)) \in Seq(Elements)
    BY <2>1 DEF TypeOK
  <2>3. QED
    BY <1>1, <2>2 DEF PutInBuffer, TypeOK, receiverVars
<1>2. ASSUME NEW e \in Emitters, PutFullGroup(e) PROVE TypeOK'
  <2>1. NextElement(e) \in Elements
    BY <1>2, NextElementType DEF PutFullGroup
  <2>2. <<NextElement(e)>> \in Seq(Elements)
    BY <2>1
  <2>3. Group(buffer[e]) \in QueueElements
    BY DEF TypeOK, Group, QueueElements
  <2>4. queue' \in Seq(QueueElements)
    BY <1>2, <2>3 DEF PutFullGroup, TypeOK, QueueElements
  <2>5. QED
    BY <1>2, <2>2, <2>4 DEF PutFullGroup, TypeOK, receiverVars, QueueElements
<1>3. ASSUME NEW e \in Emitters, PutInterrupted(e) PROVE TypeOK'
  BY <1>3 DEF PutInterrupted, TypeOK, emitterVars, receiverVars
<1>4. ASSUME NEW e \in Emitters, Flush(e) PROVE TypeOK'
  <2>1. Group(buffer[e]) \in QueueElements
    BY DEF TypeOK, Group, QueueElements
  <2>2. queue \in Seq(QueueElements) /\ buffer \in [Emitters -> Seq(Elements)]
    BY DEF TypeOK, QueueElements
  <2>3. /\ Append(queue, Group(buffer[e])) \in Seq(QueueElements)
        /\ [buffer EXCEPT ![e] = <<>>] \in [Emitters -> Seq(Elements)]
    BY <2>1, <2>2
  <2>4. queue' \in Seq(QueueElements) /\ buffer' \in [Emitters -> Seq(Elements)]
    BY <1>4, <2>2, <2>3 DEF Flush
  <2>5. QED
    BY <1>4, <2>4 DEF Flush, TypeOK, receiverVars, QueueElements
<1>5. ASSUME NEW e \in Emitters, FlushInterrupted(e) PROVE TypeOK'
  BY <1>5 DEF FlushInterrupted, TypeOK, emitterVars, receiverVars
<1>6. CASE PoisonReceiver
  <2>1. Poison \in QueueElements
    BY DEF Poison, QueueElements
  <2>2. queue' \in Seq(QueueElements)
    BY <1>6, <2>1 DEF PoisonReceiver, TypeOK, QueueElements
  <2>3. numReceivers' \in Nat
    BY <1>6 DEF PoisonReceiver, TypeOK
  <2>4. QED
    BY <1>6, <2>2, <2>3
    DEF PoisonReceiver, TypeOK, emitterVars, receiverVars, QueueElements
<1>7. CASE PoisonInterrupted
  BY <1>7 DEF PoisonInterrupted, TypeOK, emitterVars, receiverVars
<1>8. ASSUME NEW r \in Receivers, TakeHeld(r) PROVE TypeOK'
  <2>1. /\ Append(received[r], Head(held[r])) \in Seq(Elements)
        /\ Tail(held[r]) \in Seq(Elements)
    BY <1>8 DEF TakeHeld, TypeOK
  <2>2. QED
    BY <1>8, <2>1 DEF TakeHeld, TypeOK, emitterVars
<1>9. ASSUME NEW r \in Receivers, TakeGroup(r) PROVE TypeOK'
  <2>1. Head(queue) \in QueueElements /\ Tail(queue) \in Seq(QueueElements)
    BY <1>9, HeadInQueue DEF TakeGroup, TypeOK
  <2>2. Head(queue).group # <<>>
    BY <1>9, HeadInQueue DEF TakeGroup, GroupsFilled
  <2>3. /\ Head(Head(queue).group) \in Elements
        /\ Tail(Head(queue).group) \in Seq(Elements)
    BY <2>1, <2>2 DEF QueueElements
  <2>4. Append(received[r], Head(Head(queue).group)) \in Seq(Elements)
    BY <2>3 DEF TypeOK
  <2>5. QED
    BY <1>9, <2>1, <2>3, <2>4 DEF TakeGroup, TypeOK, emitterVars, QueueElements
<1>10. ASSUME NEW r \in Receivers, TakePoison(r) PROVE TypeOK'
  <2>1. Tail(queue) \in Seq(QueueElements)
    BY <1>10, HeadInQueue DEF TakePoison
  <2>2. QED
    BY <1>10, <2>1 DEF TakePoison, TypeOK, emitterVars, QueueElements
<1>11. CASE UNCHANGED vars
  BY <1>11 DEF vars, TypeOK
<1>12. QED
  BY <1>1, <1>2, <1>3, <1>4, <1>5, <1>6, <1>7, <1>8, <1>9, <1>10, <1>11
  DEF Next, Emit, Receive, PoisonReceivers, Terminating

-----------------------------------------------------------------------------
(* The shape of the queue.                                                 *)

LEMMA AppendToSeq ==
  ASSUME NEW E, NEW q \in Seq(E), NEW g \in E
  PROVE  /\ DOMAIN q = 1 .. Len(q)
         /\ Len(q) \in Nat
         /\ DOMAIN Append(q, g) = 1 .. Len(q) + 1
         /\ \A k \in 1 .. Len(q) : Append(q, g)[k] = q[k]
         /\ Append(q, g)[Len(q) + 1] = g
         /\ \A k \in 1 .. Len(q) + 1 : k \in 1 .. Len(q) \/ k = Len(q) + 1
OBVIOUS

(* While an emitter has not flushed, no poison is in sight.                *)
LEMMA NoPoisonYet ==
  ASSUME Shape, NEW e \in Emitters, e \notin flushed
  PROVE  poisoned = {} /\ \A k \in DOMAIN queue : ~ queue[k].poison
BY DEF Shape, PoisonAfterJoin

(* Sending a non-empty buffer keeps the queue in shape.                    *)
LEMMA SendShape ==
  ASSUME TypeOK, Shape, NEW e \in Emitters, e \notin flushed,
         buffer[e] # <<>>, queue' = Append(queue, Group(buffer[e])),
         UNCHANGED poisoned
  PROVE  /\ GroupsFilled'
         /\ PoisonLast'
         /\ poisoned' = {}
         /\ \A k \in DOMAIN queue' : ~ queue'[k].poison
<1>1. queue \in Seq(QueueElements) /\ Group(buffer[e]) \in QueueElements
  BY DEF TypeOK, QueueElements, Group
<1>2. /\ DOMAIN queue = 1 .. Len(queue)
      /\ Len(queue) \in Nat
      /\ DOMAIN queue' = 1 .. Len(queue) + 1
      /\ \A k \in 1 .. Len(queue) : queue'[k] = queue[k]
      /\ queue'[Len(queue) + 1] = Group(buffer[e])
      /\ \A k \in 1 .. Len(queue) + 1 : k \in 1 .. Len(queue) \/ k = Len(queue) + 1
  BY <1>1, AppendToSeq
<1>3. poisoned = {} /\ \A k \in DOMAIN queue : ~ queue[k].poison
  BY NoPoisonYet
<1>4. ~ Group(buffer[e]).poison /\ Group(buffer[e]).group = buffer[e]
  BY DEF Group
<1>5. \A k \in DOMAIN queue' : ~ queue'[k].poison
  BY <1>2, <1>3, <1>4
<1>6. GroupsFilled'
  <2>1. SUFFICES ASSUME NEW k \in DOMAIN queue'
                 PROVE  queue'[k].group # <<>>
    BY <1>5 DEF GroupsFilled
  <2>2. CASE k \in 1 .. Len(queue)
    BY <2>2, <1>2, <1>3 DEF Shape, GroupsFilled
  <2>3. CASE k = Len(queue) + 1
    BY <2>3, <1>2, <1>4
  <2>4. QED
    BY <2>1, <2>2, <2>3, <1>2
<1>7. QED
  BY <1>3, <1>5, <1>6 DEF PoisonLast

(* Taking the head of the queue keeps it in shape.                         *)
LEMMA TakeShape ==
  ASSUME TypeOK, Shape, queue # <<>>, queue' = Tail(queue)
  PROVE  /\ GroupsFilled'
         /\ \A k, l \in DOMAIN queue' :
              k < l /\ queue'[k].poison => queue'[l].poison
         /\ Head(queue).poison => \A k \in DOMAIN queue' : queue'[k].poison
         /\ \A k \in DOMAIN queue' : queue'[k].poison => flushed = Emitters
<1>1. /\ 1 \in DOMAIN queue
      /\ Head(queue) = queue[1]
      /\ DOMAIN queue' = 1 .. Len(queue) - 1
      /\ \A k \in DOMAIN queue' :
           k + 1 \in DOMAIN queue /\ queue'[k] = queue[k + 1]
  BY HeadInQueue
<1>2. GroupsFilled'
  BY <1>1 DEF Shape, GroupsFilled
<1>3. \A k, l \in DOMAIN queue' : k < l /\ queue'[k].poison => queue'[l].poison
  <2> SUFFICES ASSUME NEW k \in DOMAIN queue', NEW l \in DOMAIN queue',
                      k < l, queue'[k].poison
               PROVE  queue'[l].poison
    OBVIOUS
  <2>1. k + 1 < l + 1
    BY <1>1
  <2>2. queue[k + 1].poison
    BY <1>1
  <2>3. QED
    BY <1>1, <2>1, <2>2 DEF Shape, PoisonLast
<1>4. ASSUME Head(queue).poison, NEW k \in DOMAIN queue' PROVE queue'[k].poison
  <2>1. 1 < k + 1
    BY <1>1, <1>4
  <2>2. QED
    BY <1>1, <1>4, <2>1 DEF Shape, PoisonLast
<1>5. \A k \in DOMAIN queue' : queue'[k].poison => flushed = Emitters
  BY <1>1 DEF Shape, PoisonAfterJoin
<1>6. QED
  BY <1>2, <1>3, <1>4, <1>5

LEMMA ShapeInit == Init => Shape
BY DEF Init, Shape, GroupsFilled, FlushedEmpty, PoisonAfterJoin,
       PoisonedEmpty, PoisonLast

LEMMA ShapeStep == TypeOK /\ Shape /\ [Next]_vars => Shape'
<1> SUFFICES ASSUME TypeOK, Shape, [Next]_vars PROVE Shape'
  OBVIOUS
<1> USE QueueAssumption
<1>0. /\ emitted \in [Emitters -> Nat]
      /\ buffer \in [Emitters -> Seq(Elements)]
      /\ held \in [Receivers -> Seq(Elements)]
      /\ flushed \subseteq Emitters
  BY DEF TypeOK
<1>1. ASSUME NEW e \in Emitters, PutInBuffer(e) PROVE Shape'
  <2>1. e \notin flushed
    BY <1>0, <1>1 DEF PutInBuffer, Shape, FlushedEmpty
  <2>2. FlushedEmpty'
    BY <1>0, <1>1, <2>1 DEF PutInBuffer, Shape, FlushedEmpty
  <2>3. QED
    BY <1>1, <2>2 DEF PutInBuffer, Shape, GroupsFilled, PoisonAfterJoin,
                      PoisonedEmpty, PoisonLast, receiverVars
<1>2. ASSUME NEW e \in Emitters, PutFullGroup(e) PROVE Shape'
  <2>1. e \notin flushed
    BY <1>0, <1>2 DEF PutFullGroup, Shape, FlushedEmpty
  <2>2. buffer[e] # <<>>
    BY <1>0, <1>2 DEF PutFullGroup, BufferFull
  <2>3. FlushedEmpty'
    BY <1>0, <1>2, <2>1 DEF PutFullGroup, Shape, FlushedEmpty
  <2>4. /\ GroupsFilled'
        /\ PoisonLast'
        /\ poisoned' = {}
        /\ \A k \in DOMAIN queue' : ~ queue'[k].poison
    BY <1>2, <2>1, <2>2, SendShape DEF PutFullGroup, receiverVars
  <2>5. QED
    BY <2>3, <2>4 DEF Shape, PoisonAfterJoin, PoisonedEmpty
<1>3. ASSUME NEW e \in Emitters, PutInterrupted(e) PROVE Shape'
  BY <1>3 DEF PutInterrupted, Shape, GroupsFilled, FlushedEmpty,
              PoisonAfterJoin, PoisonedEmpty, PoisonLast,
              emitterVars, receiverVars
<1>4. ASSUME NEW e \in Emitters, Flush(e) PROVE Shape'
  <2>1. e \notin flushed
    BY <1>4 DEF Flush
  <2>2. FlushedEmpty'
    BY <1>0, <1>4 DEF Flush, Shape, FlushedEmpty
  <2>3. CASE buffer[e] = <<>>
    <3>1. UNCHANGED <<queue, poisoned, held>>
      BY <1>4, <2>3 DEF Flush, receiverVars
    <3>2. poisoned = {} /\ \A k \in DOMAIN queue : ~ queue[k].poison
      BY <2>1, NoPoisonYet
    <3>3. QED
      BY <2>2, <3>1, <3>2 DEF Shape, GroupsFilled, PoisonAfterJoin,
                              PoisonedEmpty, PoisonLast
  <2>4. CASE buffer[e] # <<>>
    <3>1. queue' = Append(queue, Group(buffer[e])) /\ UNCHANGED poisoned
      BY <1>4, <2>4 DEF Flush, receiverVars
    <3>2. /\ GroupsFilled'
          /\ PoisonLast'
          /\ poisoned' = {}
          /\ \A k \in DOMAIN queue' : ~ queue'[k].poison
      BY <2>1, <2>4, <3>1, SendShape
    <3>3. QED
      BY <2>2, <3>2 DEF Shape, PoisonAfterJoin, PoisonedEmpty
  <2>5. QED
    BY <2>3, <2>4
<1>5. ASSUME NEW e \in Emitters, FlushInterrupted(e) PROVE Shape'
  BY <1>5 DEF FlushInterrupted, Shape, GroupsFilled, FlushedEmpty,
              PoisonAfterJoin, PoisonedEmpty, PoisonLast,
              emitterVars, receiverVars
<1>6. CASE PoisonReceiver
  <2>1. queue \in Seq(QueueElements) /\ Poison \in QueueElements
    BY DEF TypeOK, QueueElements, Poison
  <2>2. /\ DOMAIN queue = 1 .. Len(queue)
        /\ Len(queue) \in Nat
        /\ DOMAIN queue' = 1 .. Len(queue) + 1
        /\ \A k \in 1 .. Len(queue) : queue'[k] = queue[k]
        /\ queue'[Len(queue) + 1] = Poison
        /\ \A k \in 1 .. Len(queue) + 1 : k \in 1 .. Len(queue) \/ k = Len(queue) + 1
    BY <1>6, <2>1, AppendToSeq DEF PoisonReceiver
  <2>3. Poison.poison /\ Poison.group = <<>>
    BY DEF Poison
  <2>4. GroupsFilled'
    <3>1. SUFFICES ASSUME NEW k \in DOMAIN queue'
                   PROVE  queue'[k].poison <=> queue'[k].group = <<>>
      BY DEF GroupsFilled
    <3>2. CASE k \in 1 .. Len(queue)
      BY <2>2, <3>2 DEF Shape, GroupsFilled
    <3>3. CASE k = Len(queue) + 1
      BY <2>2, <2>3, <3>3
    <3>4. QED
      BY <2>2, <3>1, <3>2, <3>3
  <2>5. PoisonLast'
    <3>1. ASSUME NEW k \in DOMAIN queue', NEW l \in DOMAIN queue',
                 k < l, queue'[k].poison
          PROVE  queue'[l].poison
      <4>1. CASE l = Len(queue) + 1
        BY <2>2, <2>3, <4>1
      <4>2. CASE l \in 1 .. Len(queue)
        <5>1. k \in 1 .. Len(queue)
          BY <2>2, <3>1, <4>2
        <5>2. QED
          BY <2>2, <3>1, <4>2, <5>1 DEF Shape, PoisonLast
      <4>3. QED
        BY <2>2, <4>1, <4>2
    <3>2. ASSUME poisoned' # {}, NEW k \in DOMAIN queue'
          PROVE  queue'[k].poison
      <4>1. poisoned # {}
        BY <1>6, <3>2 DEF PoisonReceiver, receiverVars
      <4>2. QED
        BY <2>2, <2>3, <3>2, <4>1 DEF Shape, PoisonLast
    <3>3. QED
      BY <3>1, <3>2 DEF PoisonLast
  <2>6. FlushedEmpty' /\ PoisonAfterJoin' /\ PoisonedEmpty'
    BY <1>6 DEF PoisonReceiver, Shape, FlushedEmpty, PoisonAfterJoin,
                PoisonedEmpty, emitterVars, receiverVars
  <2>7. QED
    BY <2>4, <2>5, <2>6 DEF Shape
<1>7. CASE PoisonInterrupted
  BY <1>7 DEF PoisonInterrupted, Shape, GroupsFilled, FlushedEmpty,
              PoisonAfterJoin, PoisonedEmpty, PoisonLast,
              emitterVars, receiverVars
<1>8. ASSUME NEW r \in Receivers, TakeHeld(r) PROVE Shape'
  <2>1. PoisonedEmpty'
    BY <1>0, <1>8 DEF TakeHeld, Shape, PoisonedEmpty
  <2>2. QED
    BY <1>8, <2>1 DEF TakeHeld, Shape, GroupsFilled, FlushedEmpty,
                      PoisonAfterJoin, PoisonLast, emitterVars
<1>9. ASSUME NEW r \in Receivers, TakeGroup(r) PROVE Shape'
  <2>1. queue # <<>> /\ queue' = Tail(queue) /\ ~ Head(queue).poison
    BY <1>9 DEF TakeGroup
  <2>2. poisoned = {}
    BY <2>1, HeadInQueue DEF Shape, PoisonLast
  <2>3. poisoned' = {} /\ UNCHANGED <<buffer, emitted, flushed>>
    BY <1>9, <2>2 DEF TakeGroup, emitterVars
  <2>4. /\ GroupsFilled'
        /\ \A k, l \in DOMAIN queue' :
             k < l /\ queue'[k].poison => queue'[l].poison
        /\ \A k \in DOMAIN queue' : queue'[k].poison => flushed = Emitters
    BY <2>1, TakeShape
  <2>5. QED
    BY <2>3, <2>4 DEF Shape, FlushedEmpty, PoisonAfterJoin, PoisonedEmpty,
                      PoisonLast
<1>10. ASSUME NEW r \in Receivers, TakePoison(r) PROVE Shape'
  <2>1. queue # <<>> /\ queue' = Tail(queue) /\ Head(queue).poison
    BY <1>10 DEF TakePoison
  <2>2. flushed = Emitters
    BY <2>1, HeadInQueue DEF Shape, PoisonAfterJoin
  <2>3. /\ UNCHANGED <<buffer, emitted, flushed, held>>
        /\ poisoned' = poisoned \cup {r}
        /\ held[r] = <<>>
    BY <1>10 DEF TakePoison, emitterVars
  <2>4. /\ GroupsFilled'
        /\ \A k, l \in DOMAIN queue' :
             k < l /\ queue'[k].poison => queue'[l].poison
        /\ \A k \in DOMAIN queue' : queue'[k].poison
    BY <2>1, TakeShape
  <2>5. QED
    BY <2>2, <2>3, <2>4 DEF Shape, FlushedEmpty, PoisonAfterJoin,
                            PoisonedEmpty, PoisonLast
<1>11. CASE UNCHANGED vars
  BY <1>11 DEF vars, Shape, GroupsFilled, FlushedEmpty, PoisonAfterJoin,
               PoisonedEmpty, PoisonLast
<1>12. QED
  BY <1>1, <1>2, <1>3, <1>4, <1>5, <1>6, <1>7, <1>8, <1>9, <1>10, <1>11
  DEF Next, Emit, Receive, PoisonReceivers, Terminating

-----------------------------------------------------------------------------
(* Nothing is lost.                                                        *)

LEMMA LostInit == Init => NothingLost
<1> SUFFICES ASSUME Init PROVE NothingLost
  OBVIOUS
<1>1. Emitted = {}
  <2> SUFFICES ASSUME NEW x \in Elements PROVE ~ (x[2] <= emitted[x[1]])
    BY DEF Emitted
  <2>1. PICK e \in Emitters : x \in {e} \X (1 .. NumElements[e])
    BY DEF Elements
  <2>2. x[1] = e /\ x[2] \in 1 .. NumElements[e] /\ emitted[e] = 0
    BY <2>1 DEF Init
  <2>3. NumElements[e] \in Nat
    BY QueueAssumption
  <2>4. QED
    BY <2>2, <2>3
<1>2. Buffered = {} /\ Held = {} /\ Received = {}
  BY RangeEmpty DEF Init, Buffered, Held, Received, InBuffers
<1>3. Queued = {}
  BY DEF Init, Queued, InGroups
<1>4. QED
  BY <1>1, <1>2, <1>3 DEF NothingLost

(* Sending a buffer moves its elements into the queue.                     *)
LEMMA SendMoves ==
  ASSUME TypeOK, NEW e \in Emitters, NEW s,
         queue' = Append(queue, Group(buffer[e])),
         buffer' = [buffer EXCEPT ![e] = s]
  PROVE  /\ Queued' = Queued \cup Range(buffer[e])
         /\ Buffered' \cup Range(buffer[e]) = Buffered \cup Range(s)
<1>1. /\ buffer \in [Emitters -> Seq(Elements)]
      /\ queue \in Seq(QueueElements)
  BY DEF TypeOK, QueueElements
<1>2. Queued' = Queued \cup Range(Group(buffer[e]).group)
  BY <1>1, InGroupsAppend DEF Queued
<1>3. Replaces(buffer', buffer, e, s)
  BY <1>1 DEF Replaces
<1>4. /\ InBuffers(buffer) = Others(buffer, e) \cup Range(buffer[e])
      /\ InBuffers(buffer') = Others(buffer, e) \cup Range(s)
  BY <1>3, InBuffersReplaced
<1>5. QED
  BY <1>2, <1>4 DEF Buffered, Group

LEMMA LostStep == TypeOK /\ Shape /\ NothingLost /\ [Next]_vars => NothingLost'
<1> SUFFICES ASSUME TypeOK, Shape, NothingLost, [Next]_vars
             PROVE  NothingLost'
  OBVIOUS
<1>0. /\ buffer \in [Emitters -> Seq(Elements)]
      /\ held \in [Receivers -> Seq(Elements)]
      /\ received \in [Receivers -> Seq(Elements)]
      /\ queue \in Seq(QueueElements)
  BY DEF TypeOK, QueueElements
<1>1. ASSUME NEW e \in Emitters, PutInBuffer(e) PROVE NothingLost'
  <2>1. Emitted' = Emitted \cup {NextElement(e)}
    BY <1>1, NextElementType DEF PutInBuffer, Emitted
  <2>2. /\ InBuffers(buffer) = Others(buffer, e) \cup Range(buffer[e])
        /\ InBuffers(buffer')
             = Others(buffer, e) \cup Range(Append(buffer[e], NextElement(e)))
    <3>1. Replaces(buffer', buffer, e, Append(buffer[e], NextElement(e)))
      BY <1>0, <1>1 DEF PutInBuffer, Replaces
    <3>2. QED
      BY <3>1, InBuffersReplaced
  <2>3. Range(Append(buffer[e], NextElement(e)))
          = Range(buffer[e]) \cup {NextElement(e)}
    BY <1>0, RangeAppend
  <2>4. Buffered' = Buffered \cup {NextElement(e)}
    BY <2>2, <2>3 DEF Buffered
  <2>5. UNCHANGED <<Queued, Held, Received>>
    BY <1>1 DEF PutInBuffer, receiverVars, Queued, Held, Received
  <2>6. QED
    BY <2>1, <2>4, <2>5 DEF NothingLost
<1>2. ASSUME NEW e \in Emitters, PutFullGroup(e) PROVE NothingLost'
  <2>1. Emitted' = Emitted \cup {NextElement(e)}
    BY <1>2, NextElementType DEF PutFullGroup, Emitted
  <2>2. /\ queue' = Append(queue, Group(buffer[e]))
        /\ buffer' = [buffer EXCEPT ![e] = <<NextElement(e)>>]
    BY <1>2 DEF PutFullGroup
  <2>3. /\ Queued' = Queued \cup Range(buffer[e])
        /\ Buffered' \cup Range(buffer[e])
             = Buffered \cup Range(<<NextElement(e)>>)
    BY <2>2, SendMoves
  <2>4. Range(<<NextElement(e)>>) = {NextElement(e)}
    BY RangeSingle
  <2>5. UNCHANGED <<Held, Received>>
    BY <1>2 DEF PutFullGroup, receiverVars, Held, Received
  <2>6. QED
    BY <2>1, <2>3, <2>4, <2>5 DEF NothingLost
<1>3. ASSUME NEW e \in Emitters, PutInterrupted(e) PROVE NothingLost'
  BY <1>3 DEF PutInterrupted, emitterVars, receiverVars, NothingLost, Emitted,
              Buffered, Queued, Held, Received
<1>4. ASSUME NEW e \in Emitters, Flush(e) PROVE NothingLost'
  <2>1. UNCHANGED <<Emitted, Held, Received>>
    BY <1>4 DEF Flush, receiverVars, Emitted, Held, Received
  <2>2. CASE buffer[e] = <<>>
    <3>1. UNCHANGED <<queue, buffer>>
      BY <1>4, <2>2 DEF Flush
    <3>2. UNCHANGED <<Queued, Buffered>>
      BY <3>1 DEF Queued, Buffered
    <3>3. QED
      BY <2>1, <3>2 DEF NothingLost
  <2>3. CASE buffer[e] # <<>>
    <3>1. /\ queue' = Append(queue, Group(buffer[e]))
          /\ buffer' = [buffer EXCEPT ![e] = <<>>]
      BY <1>4, <2>3 DEF Flush
    <3>2. /\ Queued' = Queued \cup Range(buffer[e])
          /\ Buffered' \cup Range(buffer[e]) = Buffered \cup Range(<<>>)
      BY <3>1, SendMoves
    <3>3. QED
      BY <2>1, <3>2, RangeEmpty DEF NothingLost
  <2>4. QED
    BY <2>2, <2>3
<1>5. ASSUME NEW e \in Emitters, FlushInterrupted(e) PROVE NothingLost'
  BY <1>5 DEF FlushInterrupted, emitterVars, receiverVars, NothingLost,
              Emitted, Buffered, Queued, Held, Received
<1>6. CASE PoisonReceiver
  <2>1. Queued' = Queued \cup Range(Poison.group)
    BY <1>0, <1>6, InGroupsAppend DEF PoisonReceiver, Queued
  <2>2. Range(Poison.group) = {}
    BY RangeEmpty DEF Poison
  <2>3. UNCHANGED <<Emitted, Buffered, Held, Received>>
    BY <1>6 DEF PoisonReceiver, emitterVars, receiverVars, Emitted, Buffered,
                Held, Received
  <2>4. QED
    BY <2>1, <2>2, <2>3 DEF NothingLost
<1>7. CASE PoisonInterrupted
  BY <1>7 DEF PoisonInterrupted, emitterVars, receiverVars, NothingLost,
              Emitted, Buffered, Queued, Held, Received
<1>8. ASSUME NEW r \in Receivers, TakeHeld(r) PROVE NothingLost'
  <2>1. /\ held[r] # <<>>
        /\ held' = [held EXCEPT ![r] = Tail(held[r])]
        /\ received' = [received EXCEPT ![r] = Append(received[r], Head(held[r]))]
    BY <1>8 DEF TakeHeld
  <2>2. /\ InBuffers(held) = Others(held, r) \cup Range(held[r])
        /\ InBuffers(held') = Others(held, r) \cup Range(Tail(held[r]))
    <3>1. Replaces(held', held, r, Tail(held[r]))
      BY <1>0, <2>1 DEF Replaces
    <3>2. QED
      BY <3>1, InBuffersReplaced
  <2>3. Range(held[r]) = {Head(held[r])} \cup Range(Tail(held[r]))
    BY <1>0, <2>1, RangeHeadTail
  <2>4. /\ InBuffers(received) = Others(received, r) \cup Range(received[r])
        /\ InBuffers(received')
             = Others(received, r) \cup Range(Append(received[r], Head(held[r])))
    <3>1. Replaces(received', received, r, Append(received[r], Head(held[r])))
      BY <1>0, <2>1 DEF Replaces
    <3>2. QED
      BY <3>1, InBuffersReplaced
  <2>5. Range(Append(received[r], Head(held[r])))
          = Range(received[r]) \cup {Head(held[r])}
    BY <1>0, RangeAppend
  <2>6. UNCHANGED <<Emitted, Buffered, Queued>>
    BY <1>8 DEF TakeHeld, emitterVars, Emitted, Buffered, Queued
  <2>7. QED
    BY <2>2, <2>3, <2>4, <2>5, <2>6 DEF NothingLost, Held, Received
<1>9. ASSUME NEW r \in Receivers, TakeGroup(r) PROVE NothingLost'
  <2> DEFINE g == Head(queue).group
  <2>1. /\ queue # <<>> /\ queue' = Tail(queue) /\ ~ Head(queue).poison
        /\ held[r] = <<>>
        /\ held' = [held EXCEPT ![r] = Tail(g)]
        /\ received' = [received EXCEPT ![r] = Append(received[r], Head(g))]
    BY <1>9 DEF TakeGroup
  <2>2. g \in Seq(Elements) /\ g # <<>>
    BY <2>1, HeadInQueue DEF Shape, GroupsFilled, QueueElements
  <2>3. Queued = Range(g) \cup Queued'
    BY <1>0, <2>1, InGroupsTail DEF Queued
  <2> HIDE DEF g
  <2>4. Range(g) = {Head(g)} \cup Range(Tail(g))
    BY <2>2, RangeHeadTail
  <2>5. /\ InBuffers(held) = Others(held, r) \cup Range(held[r])
        /\ InBuffers(held') = Others(held, r) \cup Range(Tail(g))
    <3>1. Replaces(held', held, r, Tail(g))
      BY <1>0, <2>1 DEF Replaces
    <3>2. QED
      BY <3>1, InBuffersReplaced
  <2>6. /\ InBuffers(received) = Others(received, r) \cup Range(received[r])
        /\ InBuffers(received')
             = Others(received, r) \cup Range(Append(received[r], Head(g)))
    <3>1. Replaces(received', received, r, Append(received[r], Head(g)))
      BY <1>0, <2>1 DEF Replaces
    <3>2. QED
      BY <3>1, InBuffersReplaced
  <2>7. Range(Append(received[r], Head(g))) = Range(received[r]) \cup {Head(g)}
    BY <1>0, RangeAppend
  <2>8. UNCHANGED <<Emitted, Buffered>>
    BY <1>9 DEF TakeGroup, emitterVars, Emitted, Buffered
  <2>9. QED
    BY <2>1, <2>3, <2>4, <2>5, <2>6, <2>7, <2>8, RangeEmpty
    DEF NothingLost, Held, Received
<1>10. ASSUME NEW r \in Receivers, TakePoison(r) PROVE NothingLost'
  <2>1. queue # <<>> /\ queue' = Tail(queue) /\ Head(queue).poison
    BY <1>10 DEF TakePoison
  <2>2. Head(queue).group = <<>>
    BY <2>1, HeadInQueue DEF Shape, GroupsFilled
  <2>3. Queued = Range(Head(queue).group) \cup Queued'
    BY <1>0, <2>1, InGroupsTail DEF Queued
  <2>4. UNCHANGED <<Emitted, Buffered, Held, Received>>
    BY <1>10 DEF TakePoison, emitterVars, Emitted, Buffered, Held, Received
  <2>5. QED
    BY <2>2, <2>3, <2>4, RangeEmpty DEF NothingLost
<1>11. CASE UNCHANGED vars
  BY <1>11 DEF vars, NothingLost, Emitted, Buffered, Queued, Held, Received
<1>12. QED
  BY <1>1, <1>2, <1>3, <1>4, <1>5, <1>6, <1>7, <1>8, <1>9, <1>10, <1>11
  DEF Next, Emit, Receive, PoisonReceivers, Terminating

-----------------------------------------------------------------------------
(* The inductive invariant, and what follows from it.                      *)

LEMMA Invariance == Spec => []IInv
<1>1. Init => IInv
  BY TypeInit, ShapeInit, LostInit DEF IInv
<1>2. IInv /\ [Next]_vars => IInv'
  BY TypeStep, ShapeStep, LostStep DEF IInv, Shape
<1>3. QED
  BY <1>1, <1>2, PTL DEF Spec

(* The variables of emitters, queue and receivers keep their types.        *)
THEOREM TypeCorrect == Spec => []TypeOK
<1>1. IInv => TypeOK
  BY DEF IInv
<1>2. QED
  BY <1>1, Invariance, PTL

(* No element that was put is ever lost between GroupEmitter.put and
   GroupReceiver.take, whichever puts are interrupted and repeated.        *)
THEOREM NeverLost == Spec => []NothingLost
<1>1. IInv => NothingLost
  BY DEF IInv
<1>2. QED
  BY <1>1, Invariance, PTL

(* poisonReceivers never leaves a group behind a poison.                   *)
THEOREM PoisonStaysLast == Spec => []PoisonLast
<1>1. IInv => PoisonLast
  BY DEF IInv, Shape
<1>2. QED
  BY <1>1, Invariance, PTL

(* When all receivers are poisoned, they have received everything.         *)
LEMMA DeliveredAtEnd == IInv => AllDelivered
<1> SUFFICES ASSUME IInv, poisoned = Receivers PROVE Received = Elements
  BY DEF AllDelivered
<1> USE DEF IInv, Shape
<1>1. poisoned # {}
  BY QueueAssumption
<1>2. flushed = Emitters
  BY <1>1 DEF PoisonAfterJoin
<1>3. Buffered = {}
  BY <1>2, RangeEmpty DEF Buffered, InBuffers, FlushedEmpty, TypeOK
<1>4. Held = {}
  BY RangeEmpty DEF Held, InBuffers, PoisonedEmpty, TypeOK
<1>5. Queued = {}
  BY <1>1, RangeEmpty DEF Queued, InGroups, PoisonLast, GroupsFilled
<1>6. Emitted = Elements
  <2> SUFFICES ASSUME NEW x \in Elements PROVE x[2] <= emitted[x[1]]
    BY DEF Emitted
  <2>1. PICK e \in Emitters : x \in {e} \X (1 .. NumElements[e])
    BY DEF Elements
  <2>2. emitted[e] = NumElements[e] /\ NumElements[e] \in Nat
    BY <1>2, QueueAssumption DEF FlushedEmpty
  <2>3. QED
    BY <2>1, <2>2
<1>7. QED
  BY <1>3, <1>4, <1>5, <1>6 DEF NothingLost

THEOREM AllDeliveredAtEnd == Spec => []AllDelivered
BY Invariance, DeliveredAtEnd, PTL
=============================================================================
