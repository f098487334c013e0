--------------------- MODULE SelfCloneDetectionPreSorted ---------------------
(***************************************************************************)
(* detection.logic.SelfCloneDetectionPreSorted: the pipeline without the   *)
(* GTF builders.  The indexers read the blocks from the input queue while  *)
(* main still feeds it, and take the terms in the order of the file; from  *)
(* the detectors on it is the pipeline of SelfCloneDetection.              *)
(*                                                                         *)
(* The order of its terms in the file is a field of a block:               *)
(* block.order[t] is the place of t.                                       *)
(***************************************************************************)
EXTENDS SelfCloneDetection

(* The terms that a list lacks are anywhere.                               *)
ASSUME OrdersAssumption ==
  \A f \in Files : \A k \in 1 .. Len(f) : f[k].order \in [Terms -> Nat]

VARIABLE indexedBy   (* indexedBy[w]: the blocks indexer w has put in the
                        queue of the detectors                             *)

InitPreSorted ==
  /\ file \in Files
  /\ main = "read"
  /\ fed = 0
  /\ inputQueue = {}
  /\ inputPoison = [left |-> Cardinality(Workers), there |-> 0]
  /\ builder = [w \in Workers |-> Ended]
  /\ gtf = [t \in Terms |-> 0]
  /\ gtfQueue = [w \in Workers |-> {}]
  /\ indexer = [w \in Workers |-> Taking]
  /\ prefix = [k \in 1 .. Len(file) |-> {}]
  /\ index = [t \in Terms |-> {}]
  /\ detectQueue = {}
  /\ detector = [w \in Workers |-> Waiting]
  /\ outputQueue = {}
  /\ writer = "wait"
  /\ buffer = {}
  /\ written = {}
  /\ lost = {}
  /\ indexedBy = [w \in Workers |-> {}]

-----------------------------------------------------------------------------
(* Main has started the indexers before it feeds them.                     *)

PoisonIndexers ==
  /\ PoisonOne("join indexers")
  /\ UNCHANGED <<file, fed, inputQueue, gtfVars, gtfQueue, indexVars, detectQueue,
                 detector, outputQueue, outputVars, lost>>

MainPreSorted ==
  \/ Read \/ Put \/ ReadEnd \/ PoisonIndexers \/ StartDetection \/ PoisonOutput
  \/ Finish

-----------------------------------------------------------------------------
(* BlockIndexer.run without a sorter.                                      *)

Given(b) == INSTANCE Blocks WITH Rank <- b.order

SkipSmallGiven(w) ==
  /\ indexer[w].pc = "take"
  /\ \E k \in inputQueue :
       /\ ~ Unreadable(file[k])
       /\ ~ Approved(file[k])
       /\ inputQueue' = inputQueue \ {k}
  /\ UNCHANGED <<file, main, fed, inputPoison, gtfVars, gtfQueue, indexVars, detectQueue,
                 detector, outputQueue, outputVars, lost>>

Prefix(w) ==
  /\ indexer[w].pc = "take"
  /\ \E k \in inputQueue :
       /\ ~ Unreadable(file[k])
       /\ Approved(file[k])
       /\ inputQueue' = inputQueue \ {k}
       /\ prefix' = [prefix EXCEPT ![k] = Given(file[k])!PrefixTerms(file[k], threshold)]
       /\ indexer' = [indexer EXCEPT ![w] = At(k, prefix'[k])]
  /\ UNCHANGED <<file, main, fed, inputPoison, gtfVars, gtfQueue, index, detectQueue, detector,
                 outputQueue, outputVars, lost>>

IndexerEndsGiven(w) ==
  /\ indexer[w].pc = "take"
  /\ TakePoison(indexer, w)
  /\ indexer' = [indexer EXCEPT ![w] = Ended]
  /\ UNCHANGED <<file, main, fed, inputQueue, gtfVars, gtfQueue, prefix, index,
                 detectQueue, detector, outputQueue, outputVars, lost>>

(* The exception of an unreadable block: the group being handed out and the
   group being filled are gone.  The blocks of the latter are in the index
   but will not be queries.                                                *)
IndexerDies(w) ==
  /\ indexer[w].pc = "take"
  /\ \E k \in inputQueue :
     \E heldBack \in SUBSET (inputQueue \ {k}),
        buffered \in SUBSET (indexedBy[w] \cap detectQueue) :
       /\ Unreadable(file[k])
       /\ Cardinality(heldBack) < GroupSize
       /\ Cardinality(buffered) <= GroupSize
       /\ inputQueue' = inputQueue \ ({k} \cup heldBack)
       /\ detectQueue' = detectQueue \ buffered
       /\ lost' = lost \cup {k} \cup heldBack \cup buffered
  /\ indexer' = [indexer EXCEPT ![w] = Dead]
  /\ UNCHANGED <<file, main, fed, inputPoison, gtfVars, gtfQueue, prefix, index, detector,
                 outputQueue, outputVars>>

IndexerPreSorted(w) ==
  \/ SkipSmallGiven(w) \/ Prefix(w) \/ IndexTerm(w) \/ PutIndexed(w)
  \/ IndexerEndsGiven(w) \/ IndexerDies(w)

PutBy(w) ==
  indexedBy' = [indexedBy EXCEPT ![w] = @ \cup (detectQueue' \ detectQueue)]

-----------------------------------------------------------------------------
(* What a pre-sorted run promises.                                         *)

(* The blocks were sorted by one global order.                             *)
SortedAlike(f) ==
  \A k, l \in DOMAIN f : \A t, u \in TermsOf(f[k]) \cap TermsOf(f[l]) :
    f[k].order[t] < f[k].order[u] => f[l].order[t] < f[l].order[u]
=============================================================================
