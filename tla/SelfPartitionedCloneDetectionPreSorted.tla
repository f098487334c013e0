---------------- MODULE SelfPartitionedCloneDetectionPreSorted ----------------
(***************************************************************************)
(* detection.logic.SelfPartitionedCloneDetectionPreSorted: partitions of   *)
(* pre-sorted blocks.  The indexers read the partition from an unbounded   *)
(* queue as in SelfCloneDetectionPreSorted; the rest is as in              *)
(* SelfPartitionedCloneDetection, but the queries from the file are not    *)
(* sorted either.                                                          *)
(***************************************************************************)
EXTENDS SelfCloneDetectionPreSorted, SelfPartitionedCloneDetection

SameElse == UNCHANGED <<partitionVars, laterVars, source, lostClones, indexedBy>>

InitGiven ==
  /\ file \in Files
  /\ main = "read"
  /\ fed = 0
  /\ inputQueue = {}
  /\ inputPoison = NoPoison
  /\ builder = [w \in Workers |-> Ended]
  /\ gtf = [t \in Terms |-> 0]
  /\ gtfQueue = [w \in Workers |-> {}]
  /\ indexer = [w \in Workers |-> Taking]
  /\ prefix = [k \in 1 .. Len(file) |-> {}]
  /\ index = [t \in Terms |-> {}]
  /\ detectQueue = {}
  /\ detector = [w \in Workers |-> Waiting]
  /\ outputQueue = {}
  /\ writer = "take"
  /\ buffer = {}
  /\ written = {}
  /\ lost = {}
  /\ begin = 0
  /\ endReached = FALSE
  /\ later = 0
  /\ laterQueue = {}
  /\ laterPoison = NoPoison
  /\ source = [w \in Workers |-> "index"]
  /\ lostClones = {}
  /\ indexedBy = [w \in Workers |-> {}]

-----------------------------------------------------------------------------
(* The main thread: Q_indexer_in has no capacity.                          *)

PutGiven ==
  /\ main = "put"
  /\ inputQueue' = inputQueue \cup {fed}
  /\ main' = "read"
  /\ UNCHANGED <<file, fed, inputPoison, gtfVars, gtfQueue, indexVars, detectQueue,
                 detector, outputQueue, outputVars, lost>>
  /\ SameElse

PoisonGiven ==
  /\ main = "poison"
  /\ inputPoison' = [left |-> 0, there |-> Cardinality(Workers)]
  /\ main' = "join indexers"
  /\ UNCHANGED <<file, fed, inputQueue, gtfVars, gtfQueue, indexVars, detectQueue,
                 detector, outputQueue, outputVars, lost>>
  /\ SameElse

NextPartitionGiven ==
  /\ main = "join detectors"
  /\ Terminated(detector)
  /\ ~ endReached
  /\ main' = "read"
  /\ begin' = fed
  /\ inputQueue' = {} /\ inputPoison' = NoPoison
  /\ indexer' = [w \in Workers |-> Taking]
  /\ indexedBy' = [w \in Workers |-> {}]
  /\ prefix' = [k \in Places |-> {}]
  /\ index' = [t \in Terms |-> {}]
  /\ detectQueue' = {}
  /\ detector' = [w \in Workers |-> Waiting]
  /\ laterQueue' = {} /\ laterPoison' = NoPoison
  /\ lost' = lost \cup inputQueue \cup detectQueue \cup laterQueue
  /\ UNCHANGED <<file, fed, gtfVars, gtfQueue, outputQueue, outputVars, endReached,
                 later, source, lostClones>>

MainGiven ==
  \/ (ReadPartition \/ EndPartition \/ StartQueries) /\ UNCHANGED indexedBy
  \/ PutGiven \/ PoisonGiven
  \/ (ReadLater \/ PutLater \/ LaterEnd \/ PoisonLater) /\ UNCHANGED indexedBy
  \/ NextPartitionGiven
  \/ ((endReached /\ PoisonOutput) \/ Finish) /\ SameElse

-----------------------------------------------------------------------------
(* The indexers, and the detectors at the blocks after the partition.      *)

IndexerGiven(w) ==
  /\ IndexerPreSorted(w)
  /\ PutBy(w)
  /\ SameRest

(* StringBlockInput.take without a sorter.                                 *)
DetectLaterGiven(w) ==
  /\ AtLater(w)
  /\ \E k \in laterQueue :
       LET terms == Given(file[k])!PrefixTerms(file[k], threshold)
       IN  /\ ~ Unreadable(file[k])
           /\ Approved(file[k])
           /\ laterQueue' = laterQueue \ {k}
           /\ detector' = [detector EXCEPT ![w] = At(k, DetectClones(k, terms))]
  /\ UNCHANGED <<file, main, inputVars, gtfVars, gtfQueue, indexVars, detectQueue,
                 outputQueue, outputVars, lost, partitionVars, later, laterPoison,
                 source, lostClones>>

DetectorGiven(w) ==
  \/ (DetectIndexed(w) \/ SwitchSource(w)) /\ UNCHANGED indexedBy
  \/ /\ SkipLater(w) \/ DetectLaterGiven(w) \/ LaterDetectorEnds(w) \/ DetectorDies(w)
     /\ UNCHANGED indexedBy
  \/ (PutClone(w) \/ NextQuery(w)) /\ SameElse
=============================================================================
