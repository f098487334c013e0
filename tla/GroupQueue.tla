----------------------------- MODULE GroupQueue -----------------------------
(***************************************************************************)
(* util.blockingqueue: a GroupQueue between the threads of two stages of a *)
(* pipeline.  Every emitting thread owns a GroupEmitter, which gathers     *)
(* elements into groups and puts whole groups on a java.util.concurrent    *)
(* BlockingQueue; every receiving thread owns a GroupReceiver, which takes *)
(* a group and hands out its elements.  When the emitting threads have     *)
(* flushed and were joined, the main thread calls poisonReceivers.         *)
(*                                                                         *)
(* BlockingQueue.put and take are atomic and block; an interrupted put has *)
(* no effect, throws, and is called again, as IEmitter and IQueue allow.   *)
(***************************************************************************)
EXTENDS Naturals, Sequences, FiniteSets, Functions

CONSTANTS
  Emitters,        (* threads that own a GroupEmitter                       *)
  Receivers,       (* threads that own a GroupReceiver                      *)
  NumElements,     (* NumElements[e]: how many elements e will put          *)
  Capacity,        (* of the BlockingQueue, in groups; a LinkedBlockingQueue
                      is a Capacity no run fills                            *)
  MaxGroupSize,    (* GroupQueue.maxGroupSize                               *)
  MaxInterrupts    (* bound: interrupts of blocked puts in one behaviour    *)

ASSUME QueueAssumption ==
  /\ IsFiniteSet(Receivers)
  /\ Receivers # {}
  /\ NumElements \in [Emitters -> Nat]
  /\ Capacity \in Nat \ {0}
  /\ MaxGroupSize \in Nat \ {0}
  /\ MaxInterrupts \in Nat

(* The i-th element that emitter e puts.                                   *)
Elements == UNION {{e} \X (1 .. NumElements[e]) : e \in Emitters}

(* QueueElement: a group, or poison (an element holding null).             *)
Group(g) == [group |-> g, poison |-> FALSE]
Poison   == [group |-> <<>>, poison |-> TRUE]

VARIABLES
  buffer,          (* buffer[e]: GroupEmitter.buffer                        *)
  emitted,         (* emitted[e]: how many elements e has put               *)
  flushed,         (* emitters that have flushed and whose thread ended     *)
  queue,           (* the BlockingQueue of QueueElements                    *)
  numReceivers,    (* GroupQueue.numReceivers                               *)
  held,            (* held[r]: GroupReceiver.buffer                         *)
  poisoned,        (* receivers whose GroupReceiver.poisoned is set         *)
  received,        (* history: received[r] is what take() returned to r     *)
  interrupts       (* how many puts have been interrupted                   *)

emitterVars  == <<buffer, emitted, flushed>>
receiverVars == <<held, poisoned, received>>
vars == <<buffer, emitted, flushed, queue, numReceivers, held, poisoned,
          received, interrupts>>

Init ==
  /\ buffer = [e \in Emitters |-> <<>>]
  /\ emitted = [e \in Emitters |-> 0]
  /\ flushed = {}
  /\ queue = <<>>
  /\ numReceivers = Cardinality(Receivers)
  /\ held = [r \in Receivers |-> <<>>]
  /\ poisoned = {}
  /\ received = [r \in Receivers |-> <<>>]
  /\ interrupts = 0

HasRoom == Len(queue) < Capacity

-----------------------------------------------------------------------------
(* GroupEmitter.                                                           *)

NextElement(e) == <<e, emitted[e] + 1>>
BufferFull(e)  == Len(buffer[e]) = MaxGroupSize

PutInBuffer(e) ==
  /\ emitted[e] < NumElements[e]
  /\ ~ BufferFull(e)
  /\ buffer' = [buffer EXCEPT ![e] = Append(@, NextElement(e))]
  /\ emitted' = [emitted EXCEPT ![e] = @ + 1]
  /\ UNCHANGED <<flushed, queue, numReceivers, receiverVars, interrupts>>

(* Mutant: the element whose put sends the full buffer is not added to the
   new one.                                                                *)
PutFullGroupDropping(e) ==
  /\ emitted[e] < NumElements[e]
  /\ BufferFull(e)
  /\ HasRoom
  /\ queue' = Append(queue, Group(buffer[e]))
  /\ buffer' = [buffer EXCEPT ![e] = <<>>]
  /\ emitted' = [emitted EXCEPT ![e] = @ + 1]
  /\ UNCHANGED <<flushed, numReceivers, receiverVars, interrupts>>

PutFullGroup(e) ==
  /\ emitted[e] < NumElements[e]
  /\ BufferFull(e)
  /\ HasRoom
  /\ queue' = Append(queue, Group(buffer[e]))
  /\ buffer' = [buffer EXCEPT ![e] = <<NextElement(e)>>]
  /\ emitted' = [emitted EXCEPT ![e] = @ + 1]
  /\ UNCHANGED <<flushed, numReceivers, receiverVars, interrupts>>

(* Mutant: the element joins the buffer before the put that may throw.     *)
PutInterruptedAfterAdd(e) ==
  /\ emitted[e] < NumElements[e]
  /\ BufferFull(e)
  /\ interrupts < MaxInterrupts
  /\ interrupts' = interrupts + 1
  /\ buffer' = [buffer EXCEPT ![e] = Append(@, NextElement(e))]
  /\ UNCHANGED <<emitted, flushed, queue, numReceivers, receiverVars>>

(* queue.put throws: put() throws before it has changed anything, and the
   thread will put the same element again.                                 *)
PutInterrupted(e) ==
  /\ emitted[e] < NumElements[e]
  /\ BufferFull(e)
  /\ interrupts < MaxInterrupts
  /\ interrupts' = interrupts + 1
  /\ UNCHANGED <<emitterVars, queue, numReceivers, receiverVars>>

(* Mutant: the thread ends without sending what it has buffered.           *)
FlushForgotten(e) ==
  /\ emitted[e] = NumElements[e]
  /\ e \notin flushed
  /\ flushed' = flushed \cup {e}
  /\ UNCHANGED <<buffer, emitted, queue, numReceivers, receiverVars, interrupts>>

(* flush(), the last call of the thread: an empty buffer is not sent.      *)
Flush(e) ==
  /\ emitted[e] = NumElements[e]
  /\ e \notin flushed
  /\ \/ /\ buffer[e] # <<>>
        /\ HasRoom
        /\ queue' = Append(queue, Group(buffer[e]))
        /\ buffer' = [buffer EXCEPT ![e] = <<>>]
     \/ /\ buffer[e] = <<>>
        /\ UNCHANGED <<queue, buffer>>
  /\ flushed' = flushed \cup {e}
  /\ UNCHANGED <<emitted, numReceivers, receiverVars, interrupts>>

FlushInterrupted(e) ==
  /\ emitted[e] = NumElements[e]
  /\ e \notin flushed
  /\ buffer[e] # <<>>
  /\ interrupts < MaxInterrupts
  /\ interrupts' = interrupts + 1
  /\ UNCHANGED <<emitterVars, queue, numReceivers, receiverVars>>

(* GroupEmitter.needFlush(), which no program calls: whether the shared
   queue is non-empty, not whether the emitter has buffered elements.      *)
NeedFlush(e) == Len(queue) # 0

-----------------------------------------------------------------------------
(* GroupQueue.poisonReceivers, called by the main thread once it has       *)
(* joined the emitting threads.                                            *)

(* Mutant: the main thread does not join the emitting threads.             *)
PoisonReceiverUnjoined ==
  /\ numReceivers # 0
  /\ HasRoom
  /\ queue' = Append(queue, Poison)
  /\ numReceivers' = numReceivers - 1
  /\ UNCHANGED <<emitterVars, receiverVars, interrupts>>

(* Mutant: the loop runs once too often.                                   *)
PoisonReceiverOneMore ==
  /\ flushed = Emitters
  /\ numReceivers >= 0
  /\ HasRoom
  /\ queue' = Append(queue, Poison)
  /\ numReceivers' = numReceivers - 1
  /\ UNCHANGED <<emitterVars, receiverVars, interrupts>>

(* Mutant: one poison for all the receivers.                               *)
PoisonReceiverOnce ==
  /\ flushed = Emitters
  /\ numReceivers # 0
  /\ HasRoom
  /\ queue' = Append(queue, Poison)
  /\ numReceivers' = 0
  /\ UNCHANGED <<emitterVars, receiverVars, interrupts>>

PoisonReceiver ==
  /\ flushed = Emitters
  /\ numReceivers # 0
  /\ HasRoom
  /\ queue' = Append(queue, Poison)
  /\ numReceivers' = numReceivers - 1
  /\ UNCHANGED <<emitterVars, receiverVars, interrupts>>

(* Mutant: the receiver is counted off before the put that may throw.      *)
PoisonInterruptedAfterCount ==
  /\ flushed = Emitters
  /\ numReceivers # 0
  /\ interrupts < MaxInterrupts
  /\ interrupts' = interrupts + 1
  /\ numReceivers' = numReceivers - 1
  /\ UNCHANGED <<emitterVars, queue, receiverVars>>

PoisonInterrupted ==
  /\ flushed = Emitters
  /\ numReceivers # 0
  /\ interrupts < MaxInterrupts
  /\ interrupts' = interrupts + 1
  /\ UNCHANGED <<emitterVars, queue, numReceivers, receiverVars>>

-----------------------------------------------------------------------------
(* GroupReceiver.take, called in a loop until isPoisoned.                  *)

TakeHeld(r) ==
  /\ r \notin poisoned
  /\ held[r] # <<>>
  /\ received' = [received EXCEPT ![r] = Append(@, Head(held[r]))]
  /\ held' = [held EXCEPT ![r] = Tail(@)]
  /\ UNCHANGED <<emitterVars, queue, numReceivers, poisoned, interrupts>>

(* Mutant: elements are removed from the end of the group.                 *)
TakeGroupBackwards(r) ==
  /\ r \notin poisoned
  /\ held[r] = <<>>
  /\ queue # <<>>
  /\ ~ Head(queue).poison
  /\ LET g == Head(queue).group
     IN  /\ received' = [received EXCEPT ![r] = Append(@, g[Len(g)])]
         /\ held' = [held EXCEPT ![r] = SubSeq(g, 1, Len(g) - 1)]
  /\ queue' = Tail(queue)
  /\ UNCHANGED <<emitterVars, numReceivers, poisoned, interrupts>>

TakeGroup(r) ==
  /\ r \notin poisoned
  /\ held[r] = <<>>
  /\ queue # <<>>
  /\ ~ Head(queue).poison
  /\ received' = [received EXCEPT ![r] = Append(@, Head(Head(queue).group))]
  /\ held' = [held EXCEPT ![r] = Tail(Head(queue).group)]
  /\ queue' = Tail(queue)
  /\ UNCHANGED <<emitterVars, numReceivers, poisoned, interrupts>>

TakePoison(r) ==
  /\ r \notin poisoned
  /\ held[r] = <<>>
  /\ queue # <<>>
  /\ Head(queue).poison
  /\ poisoned' = poisoned \cup {r}
  /\ queue' = Tail(queue)
  /\ UNCHANGED <<emitterVars, numReceivers, held, received, interrupts>>

-----------------------------------------------------------------------------
Emit(e) ==
  \/ PutInBuffer(e) \/ PutFullGroup(e) \/ PutInterrupted(e)
  \/ Flush(e) \/ FlushInterrupted(e)

Receive(r) == TakeHeld(r) \/ TakeGroup(r) \/ TakePoison(r)

PoisonReceivers == PoisonReceiver \/ PoisonInterrupted

(* Every thread has ended.                                                 *)
Closed == poisoned = Receivers /\ numReceivers = 0

Terminating == Closed /\ UNCHANGED vars

Next ==
  \/ \E e \in Emitters : Emit(e)
  \/ PoisonReceivers
  \/ \E r \in Receivers : Receive(r)
  \/ Terminating

(* Every thread runs: the scheduler does not starve a runnable thread.     *)
Fairness ==
  /\ \A e \in Emitters : WF_vars(Emit(e))
  /\ WF_vars(PoisonReceivers)
  /\ \A r \in Receivers : WF_vars(Receive(r))

Spec == Init /\ [][Next]_vars /\ Fairness

-----------------------------------------------------------------------------
(* Where the elements are.                                                 *)

InBuffers(f) == UNION {Range(f[t]) : t \in DOMAIN f}
InGroups(q)  == UNION {Range(q[k].group) : k \in DOMAIN q}

Emitted  == {x \in Elements : x[2] <= emitted[x[1]]}
Buffered == InBuffers(buffer)
Queued   == InGroups(queue)
Held     == InBuffers(held)
Received == InBuffers(received)

PoisonIn(q) == {k \in DOMAIN q : q[k].poison}

(* The elements of one emitter appear in the order they were put.          *)
Ordered(s) ==
  \A i, j \in DOMAIN s : i < j /\ s[i][1] = s[j][1] => s[i][2] < s[j][2]

-----------------------------------------------------------------------------
(* Properties.                                                             *)

(* The types of the variables.                                             *)
TypeOK ==
  /\ buffer \in [Emitters -> Seq(Elements)]
  /\ emitted \in [Emitters -> Nat]
  /\ \A e \in Emitters : emitted[e] <= NumElements[e]
  /\ flushed \subseteq Emitters
  /\ queue \in Seq([group : Seq(Elements), poison : BOOLEAN])
  /\ numReceivers \in Nat
  /\ held \in [Receivers -> Seq(Elements)]
  /\ poisoned \subseteq Receivers
  /\ received \in [Receivers -> Seq(Elements)]
  /\ interrupts \in 0 .. MaxInterrupts

(* GroupEmitter.put/flush and GroupReceiver.take: an element that was put
   is in an emitter's buffer, in the queue, in a receiver's buffer or has
   been handed out, whatever puts were interrupted and called again.       *)
NothingLost == Emitted = Buffered \cup Queued \cup Held \cup Received

(* ... and is in one of these places only: a retried put sends no element
   a second time, and two receivers never share an element.                *)
NothingTwice ==
  /\ Buffered \cap (Queued \cup Held \cup Received) = {}
  /\ Queued \cap (Held \cup Received) = {}
  /\ Held \cap Received = {}
  /\ \A k, l \in DOMAIN queue :
       k # l => Range(queue[k].group) \cap Range(queue[l].group) = {}
  /\ \A r, s \in Receivers :
       r # s => /\ Range(held[r]) \cap Range(held[s]) = {}
                /\ Range(received[r]) \cap Range(received[s]) = {}

(* Batching keeps the order of each emitter: what a receiver has been given
   and still holds has the elements of one emitter in the order of their
   puts, and the queue holds later ones.                                   *)
InOrder ==
  /\ \A r \in Receivers : Ordered(received[r] \o held[r])
  /\ \A k, l \in DOMAIN queue : k < l =>
       \A x \in Range(queue[k].group), y \in Range(queue[l].group) :
         x[1] = y[1] => x[2] < y[2]

(* poisonReceivers is called when the emitters are done: no group is queued
   behind a poison, where no receiver would be left to take it, and no
   receiver is poisoned while a group waits.                               *)
PoisonLast ==
  /\ \A k, l \in DOMAIN queue : k < l /\ queue[k].poison => queue[l].poison
  /\ poisoned # {} => \A k \in DOMAIN queue : queue[k].poison

(* Each receiver is owed exactly one poison: poisons still to be put, poisons
   in the queue and poisoned receivers add up to the receivers.            *)
PoisonPerReceiver ==
  numReceivers + Cardinality(PoisonIn(queue)) + Cardinality(poisoned)
    = Cardinality(Receivers)

(* When every receiving thread has ended, every element of every emitter
   has been handed to one of them.                                         *)
AllDelivered == poisoned = Receivers => Received = Elements

(* The queue does what Channel promises.                                   *)
Promise == INSTANCE Channel WITH
  accepted  <- Emitted,
  delivered <- [r \in Receivers |-> Range(received[r])],
  ended     <- poisoned

ImplementsChannel == Promise!Spec

(* All the threads end: no put waits for ever on a full queue, no take on an
   empty one.                                                              *)
Closes == <>Closed
=============================================================================
