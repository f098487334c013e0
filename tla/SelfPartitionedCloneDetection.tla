-------------------- MODULE SelfPartitionedCloneDetection --------------------
(***************************************************************************)
(* detection.logic.SelfPartitionedCloneDetection: the block file is        *)
(* indexed a partition at a time.  Each partition has queues, a GTF, an    *)
(* index and threads of its own, which work as in SelfCloneDetection; its  *)
(* detectors are given the blocks of the partition first, and then all     *)
(* blocks that come after it, which main reads a second time.  The writer  *)
(* of clones serves all the partitions.                                    *)
(***************************************************************************)
EXTENDS SelfCloneDetection

CONSTANT PartitionSize   (* -p: blockgroupsize                             *)

ASSUME PartitionAssumption == PartitionSize \in Nat \ {0}

VARIABLES
  begin,           (* the blocks before this partition                      *)
  endReached,      (* the end of the file has been met                      *)
  later,           (* how far queryBlockReader has come                     *)
  laterQueue,      (* Q_detection_in: blocks after the partition            *)
  laterPoison,     (* its poisons, as inputPoison                           *)
  source,          (* source[w]: the input MultiSourceBlockInput is at      *)
  lostClones       (* history: clones a dying detector has taken along      *)

laterVars == <<later, laterQueue, laterPoison>>
partitionVars == <<begin, endReached>>

NoPoison == [left |-> Cardinality(Workers), there |-> 0]

InitPartitioned ==
  /\ file \in Files
  /\ main = "read"
  /\ fed = 0
  /\ inputQueue = {}
  /\ inputPoison = NoPoison
  /\ builder = [w \in Workers |-> Taking]
  /\ gtf = [t \in Terms |-> 0]
  /\ gtfQueue = [w \in Workers |-> {}]
  /\ indexer = [w \in Workers |-> Waiting]
  /\ prefix = [k \in 1 .. Len(file) |-> {}]
  /\ index = [t \in Terms |-> {}]
  /\ detectQueue = {}
  /\ detector = [w \in Workers |-> Waiting]
  /\ outputQueue = {}
  /\ writer = "take"
  /\ buffer = {}
  /\ written = {}
  /\ lost = {}
  /\ begin = 0
  /\ endReached = FALSE
  /\ later = 0
  /\ laterQueue = {}
  /\ laterPoison = NoPoison
  /\ source = [w \in Workers |-> "index"]
  /\ lostClones = {}

-----------------------------------------------------------------------------
(* The main thread: a partition is fed and indexed.                        *)

PartitionFull == fed - begin = PartitionSize

ReadPartition ==
  /\ ~ PartitionFull
  /\ Read
  /\ UNCHANGED <<partitionVars, laterVars, source, lostClones>>

(* Mutant: the end of the file is forgotten when a partition ends.         *)
EndPartitionAgain ==
  /\ main = "read"
  /\ PartitionFull \/ fed = Len(file)
  /\ endReached' = FALSE
  /\ main' = "poison"
  /\ UNCHANGED <<file, inputVars, gtfVars, gtfQueue, indexVars, detectQueue,
                 detector, outputQueue, outputVars, lost, begin, laterVars, source,
                 lostClones>>

(* The end of the file is noticed only by reading on: a file that fills its
   last partition is followed by an empty one.                             *)
EndPartition ==
  /\ main = "read"
  /\ PartitionFull \/ fed = Len(file)
  /\ endReached' = ~ PartitionFull
  /\ main' = "poison"
  /\ UNCHANGED <<file, inputVars, gtfVars, gtfQueue, indexVars, detectQueue,
                 detector, outputQueue, outputVars, lost, begin, laterVars, source,
                 lostClones>>

(* The detectors start, and skipBlocks moves the second reader to the end of
   the partition.                                                          *)
StartQueries ==
  /\ main = "join indexers"
  /\ Terminated(indexer)
  /\ main' = "query"
  /\ detector' = [w \in Workers |-> Taking]
  /\ source' = [w \in Workers |-> "index"]
  /\ later' = fed
  /\ UNCHANGED <<file, inputVars, gtfVars, gtfQueue, indexVars, detectQueue,
                 outputQueue, outputVars, lost, partitionVars, laterQueue,
                 laterPoison, lostClones>>

-----------------------------------------------------------------------------
(* The main thread: the blocks after the partition are queries.            *)

ReadLater ==
  /\ main = "query"
  /\ later < Len(file)
  /\ later' = later + 1
  /\ main' = "put query"
  /\ UNCHANGED <<file, inputVars, gtfVars, gtfQueue, indexVars, detectQueue,
                 detector, outputQueue, outputVars, lost, partitionVars, laterQueue,
                 laterPoison, source, lostClones>>

LaterRoom == Cardinality(laterQueue) + laterPoison.there < InputCapacity

PutLater ==
  /\ main = "put query"
  /\ LaterRoom
  /\ laterQueue' = laterQueue \cup {later}
  /\ main' = "query"
  /\ UNCHANGED <<file, inputVars, gtfVars, gtfQueue, indexVars, detectQueue,
                 detector, outputQueue, outputVars, lost, partitionVars, later,
                 laterPoison, source, lostClones>>

LaterEnd ==
  /\ main = "query"
  /\ later = Len(file)
  /\ main' = "poison queries"
  /\ UNCHANGED <<file, inputVars, gtfVars, gtfQueue, indexVars, detectQueue,
                 detector, outputQueue, outputVars, lost, partitionVars, laterVars,
                 source, lostClones>>

PoisonLater ==
  /\ main = "poison queries"
  /\ LaterRoom
  /\ laterPoison' = [left |-> laterPoison.left - 1, there |-> laterPoison.there + 1]
  /\ main' = IF laterPoison.left = 1 THEN "join detectors" ELSE main
  /\ UNCHANGED <<file, inputVars, gtfVars, gtfQueue, indexVars, detectQueue,
                 detector, outputQueue, outputVars, lost, partitionVars, later,
                 laterQueue, source, lostClones>>

QueryFails ==
  /\ main = "query"
  /\ "read" \in Faults
  /\ main' = "failed"
  /\ UNCHANGED <<file, inputVars, gtfVars, gtfQueue, indexVars, detectQueue,
                 detector, outputQueue, outputVars, lost, partitionVars, laterVars,
                 source, lostClones>>

-----------------------------------------------------------------------------
(* The main thread: from one partition to the next.                        *)

(* Mutant: the index is not a new one.                                     *)
NextPartitionSameIndex ==
  /\ main = "join detectors"
  /\ Terminated(detector)
  /\ ~ endReached
  /\ main' = "read"
  /\ begin' = fed
  /\ inputQueue' = {} /\ inputPoison' = NoPoison
  /\ builder' = [w \in Workers |-> Taking]
  /\ gtf' = [t \in Terms |-> 0]
  /\ gtfQueue' = [w \in Workers |-> {}]
  /\ indexer' = [w \in Workers |-> Waiting]
  /\ prefix' = [k \in Places |-> {}]
  /\ detectQueue' = {}
  /\ detector' = [w \in Workers |-> Waiting]
  /\ laterQueue' = {} /\ laterPoison' = NoPoison
  /\ lost' = lost \cup inputQueue \cup detectQueue \cup laterQueue
  /\ UNCHANGED <<file, fed, index, outputQueue, outputVars, endReached, later, source,
                 lostClones>>

(* What dead threads have left in the queues is gone with them.            *)
NextPartition ==
  /\ main = "join detectors"
  /\ Terminated(detector)
  /\ ~ endReached
  /\ main' = "read"
  /\ begin' = fed
  /\ inputQueue' = {} /\ inputPoison' = NoPoison
  /\ builder' = [w \in Workers |-> Taking]
  /\ gtf' = [t \in Terms |-> 0]
  /\ gtfQueue' = [w \in Workers |-> {}]
  /\ indexer' = [w \in Workers |-> Waiting]
  /\ prefix' = [k \in Places |-> {}]
  /\ index' = [t \in Terms |-> {}]
  /\ detectQueue' = {}
  /\ detector' = [w \in Workers |-> Waiting]
  /\ laterQueue' = {} /\ laterPoison' = NoPoison
  /\ lost' = lost \cup inputQueue \cup detectQueue \cup laterQueue
  /\ UNCHANGED <<file, fed, outputQueue, outputVars, endReached, later, source,
                 lostClones>>

MainPartitioned ==
  \/ ReadPartition
  \/ EndPartition
  \/ StartQueries
  \/ ReadLater \/ PutLater \/ LaterEnd \/ PoisonLater
  \/ NextPartition
  \/ /\ Put \/ PoisonInput \/ StartIndexing \/ (endReached /\ PoisonOutput) \/ Finish
     /\ UNCHANGED <<partitionVars, laterVars, source, lostClones>>

-----------------------------------------------------------------------------
(* The detectors, through MultiSourceBlockInput.                           *)

(* ObjectBlockInput: the blocks that the indexers have prefixed.           *)
DetectIndexed(w) ==
  /\ source[w] = "index"
  /\ Detect(w)
  /\ UNCHANGED <<partitionVars, laterVars, source, lostClones>>

(* The poison of the first input is not passed on.                         *)
SwitchSource(w) ==
  /\ detector[w].pc = "take"
  /\ source[w] = "index"
  /\ OnlyHeldBack(detectQueue, {v \in Others(detector, w) : source[v] = "index"})
  /\ source' = [source EXCEPT ![w] = "file"]
  /\ UNCHANGED <<file, main, inputVars, gtfVars, gtfQueue, indexVars, detectQueue,
                 detector, outputQueue, outputVars, lost, partitionVars, laterVars,
                 lostClones>>

AtLater(w) == detector[w].pc = "take" /\ source[w] = "file"

(* StringBlockInput.take: the block is read, checked, sorted by the GTF of
   this partition, which may not know its terms, and prefixed.             *)
SkipLater(w) ==
  /\ AtLater(w)
  /\ \E k \in laterQueue :
       /\ ~ Unreadable(file[k])
       /\ ~ Approved(file[k])
       /\ laterQueue' = laterQueue \ {k}
  /\ UNCHANGED <<file, main, inputVars, gtfVars, gtfQueue, indexVars, detectQueue,
                 detector, outputQueue, outputVars, lost, partitionVars, later,
                 laterPoison, source, lostClones>>

(* Mutant: the block is taken in the order of all terms by name, as if the
   GTF knew none.                                                          *)
DetectLaterUnsorted(w) ==
  /\ AtLater(w)
  /\ \E k \in laterQueue :
       LET ByName == INSTANCE Blocks WITH Rank <- TermOrder
           terms  == ByName!PrefixTerms(file[k], threshold)
       IN  /\ ~ Unreadable(file[k])
           /\ Approved(file[k])
           /\ laterQueue' = laterQueue \ {k}
           /\ detector' = [detector EXCEPT ![w] = At(k, DetectClones(k, terms))]
  /\ UNCHANGED <<file, main, inputVars, gtfVars, gtfQueue, indexVars, detectQueue,
                 outputQueue, outputVars, lost, partitionVars, later, laterPoison,
                 source, lostClones>>

DetectLater(w) ==
  /\ AtLater(w)
  /\ \E k \in laterQueue :
       LET terms == Block!PrefixTerms(file[k], threshold)
       IN  /\ ~ Unreadable(file[k])
           /\ Approved(file[k])
           /\ laterQueue' = laterQueue \ {k}
           /\ detector' = [detector EXCEPT ![w] = At(k, DetectClones(k, terms))]
  /\ UNCHANGED <<file, main, inputVars, gtfVars, gtfQueue, indexVars, detectQueue,
                 outputQueue, outputVars, lost, partitionVars, later, laterPoison,
                 source, lostClones>>

LaterDetectorEnds(w) ==
  /\ AtLater(w)
  /\ laterPoison.there > 0
  /\ OnlyHeldBack(laterQueue, {v \in Others(detector, w) : source[v] = "file"})
  /\ laterPoison' = [laterPoison EXCEPT !.there = @ - 1]
  /\ detector' = [detector EXCEPT ![w] = Ended]
  /\ UNCHANGED <<file, main, inputVars, gtfVars, gtfQueue, indexVars, detectQueue,
                 outputQueue, outputVars, lost, partitionVars, later, laterQueue,
                 source, lostClones>>

(* The exception of an unreadable block: the group being handed out is gone,
   and so are the clones in the emitter's buffer.  Whose clones the output
   queue holds is not kept: they may be any.                               *)
DetectorDies(w) ==
  /\ AtLater(w)
  /\ \E k \in laterQueue :
     \E heldBack \in SUBSET (laterQueue \ {k}), buffered \in SUBSET outputQueue :
       /\ Unreadable(file[k])
       /\ Cardinality(heldBack) < GroupSize
       /\ Cardinality(buffered) <= GroupSize
       /\ laterQueue' = laterQueue \ ({k} \cup heldBack)
       /\ outputQueue' = outputQueue \ buffered
       /\ lost' = lost \cup {k} \cup heldBack
       /\ lostClones' = lostClones \cup buffered
  /\ detector' = [detector EXCEPT ![w] = Dead]
  /\ UNCHANGED <<file, main, inputVars, gtfVars, gtfQueue, indexVars, detectQueue,
                 outputVars, partitionVars, later, laterPoison, source>>

DetectorPartitioned(w) ==
  \/ DetectIndexed(w) \/ SwitchSource(w)
  \/ SkipLater(w) \/ DetectLater(w) \/ LaterDetectorEnds(w) \/ DetectorDies(w)
  \/ /\ PutClone(w) \/ NextQuery(w)
     /\ UNCHANGED <<partitionVars, laterVars, source, lostClones>>

-----------------------------------------------------------------------------
SameRest == UNCHANGED <<partitionVars, laterVars, source, lostClones>>

(* What a partitioned run rests on: a block is a query for its own partition
   and those before it, and so must meet no index of a larger id.          *)
IdsAscend(f) == \A k, l \in DOMAIN f : k < l => f[k].id < f[l].id
=============================================================================
