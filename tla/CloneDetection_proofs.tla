------------------------- MODULE CloneDetection_proofs -------------------------
(***************************************************************************)
(* The four pipelines of cwdetect, for any files, any number of threads    *)
(* and any sizes of the queues and the partitions: while a partition is    *)
(* queried its index holds this partition, and every pipeline implements   *)
(* CloneReport.                                                            *)
(***************************************************************************)
EXTENDS CloneDetection, SelfCloneDetection_proofs

-----------------------------------------------------------------------------
(* What a step of any of the pipelines may do.  A step is one of those     *)
(* below, whichever pipeline takes it; what they leave open (how far the   *)
(* poison is, whether a thread that stops has ended or died) makes no      *)
(* difference to the properties.                                           *)

choice   == <<file, options>>
clock    == <<main, fed, begin, endReached, later>>
counting == <<inputQueue, builder, gtf, gtfQueue>>
indexing == <<indexer, prefix, index, detectQueue>>
querying == <<laterQueue, detector, source>>
cloning  == <<outputQueue, writer, Handed, lostClones>>

state == <<choice, clock, counting, indexing, querying, cloning, lost>>

Jobs(S) == Tasks \cup [pc : {"work"}, block : Places, todo : SUBSET S]

(* Some detectors have been started.                                       *)
Detecting == \E w \in Workers : detector[w].pc # "wait"

(* Main reads and puts a block of the partition ...                        *)
Reads ==
  /\ main = "read" /\ fed < Len(file)
  /\ main' = "put" /\ fed' = fed + 1
  /\ UNCHANGED <<begin, endReached, later, counting, indexing, querying, cloning, lost>>

Puts ==
  /\ main = "put"
  /\ main' = "read"
  /\ inputQueue' = inputQueue \cup {fed}
  /\ UNCHANGED <<fed, begin, endReached, later, builder, gtf, gtfQueue, indexing, querying,
                 cloning, lost>>

(* ... and a block after it.                                               *)
ReadsLater ==
  /\ options.partitioned
  /\ main = "query" /\ later < Len(file)
  /\ main' = "put query" /\ later' = later + 1
  /\ UNCHANGED <<fed, begin, endReached, counting, indexing, querying, cloning, lost>>

PutsLater ==
  /\ options.partitioned
  /\ main = "put query"
  /\ main' = "query"
  /\ laterQueue' = laterQueue \cup {later}
  /\ UNCHANGED <<fed, begin, endReached, later, counting, indexing, detector, source, cloning,
                 lost>>

(* Main poisons, joins, ends or fails.                                     *)
AdvancesTo(next) ==
  \/ /\ main = "read" /\ next = "poison"
     /\ ~ options.partitioned => fed = Len(file) /\ endReached' = endReached
     /\ endReached' => fed = Len(file)
  \/ /\ endReached' = endReached
     /\ \/ main = "poison" /\ next = "poison"
        \/ main = "poison" /\ options.presorted /\ next = "join indexers"
        \/ main = "poison" /\ ~ options.presorted /\ next = "join builders"
        \/ main = "query" /\ later = Len(file) /\ next = "poison queries"
        \/ main = "poison queries" /\ next \in {"poison queries", "join detectors"}
        \/ /\ main = "join detectors" /\ Terminated(detector) /\ next = "join writer"
           /\ options.partitioned => endReached
        \/ main = "join writer" /\ writer \in WriterOver /\ next \in {"done", "unclosed"}
        \/ main \in {"read", "query"} /\ next = "failed"

Advances ==
  /\ AdvancesTo(main')
  /\ UNCHANGED <<fed, begin, later, counting, indexing, querying, cloning, lost>>

(* Main starts the next stage, or the next partition.                      *)
StartsIndexers ==
  /\ ~ options.presorted
  /\ main = "join builders" /\ Terminated(builder)
  /\ main' = "join indexers"
  /\ indexer' = [w \in Workers |-> Taking]
  /\ UNCHANGED <<fed, begin, endReached, later, counting, prefix, index, detectQueue,
                 querying, cloning, lost>>

StartsDetectors ==
  /\ main = "join indexers" /\ Terminated(indexer)
  /\ detector' = [w \in Workers |-> Taking]
  /\ \/ /\ ~ options.partitioned
        /\ main' = "join detectors" /\ writer' = "take"
        /\ later' = later /\ source' = source
     \/ /\ options.partitioned
        /\ main' = "query" /\ writer' = writer
        /\ later' = fed /\ source' = [w \in Workers |-> "index"]
  /\ UNCHANGED <<fed, begin, endReached, counting, indexing, laterQueue, outputQueue, Handed,
                 lostClones, lost>>

StartsPartition ==
  /\ options.partitioned
  /\ main = "join detectors" /\ Terminated(detector) /\ ~ endReached
  /\ main' = "read" /\ begin' = fed
  /\ inputQueue' = {}
  /\ \/ ~ options.presorted /\ builder' = [w \in Workers |-> Taking]
     \/ options.presorted /\ builder' = builder
  /\ gtf' \in [Terms -> Nat]
  /\ \/ ~ options.presorted /\ gtfQueue' = [w \in Workers |-> {}]
     \/ options.presorted /\ gtfQueue' = gtfQueue
  /\ \/ ~ options.presorted /\ indexer' = [w \in Workers |-> Waiting]
     \/ options.presorted /\ indexer' = [w \in Workers |-> Taking]
  /\ prefix' = [k \in Places |-> {}] /\ index' = [t \in Terms |-> {}]
  /\ detectQueue' = {}
  /\ detector' = [w \in Workers |-> Waiting]
  /\ laterQueue' = {}
  /\ lost' = lost \cup inputQueue \cup detectQueue \cup laterQueue
  /\ UNCHANGED <<fed, endReached, later, source, cloning>>

MainSteps ==
  \/ Reads \/ Puts \/ ReadsLater \/ PutsLater \/ Advances
  \/ StartsIndexers \/ StartsDetectors \/ StartsPartition

(* A builder takes a block, counts a term of it, hands it on, or stops.    *)
TakesInput(w, k) ==
  /\ builder[w].pc = "take"
  /\ k \in inputQueue /\ ~ Unreadable(file[k])
  /\ inputQueue' = inputQueue \ {k}
  /\ builder' = [builder EXCEPT ![w] = At(k, TermsOf(file[k]))]
  /\ UNCHANGED <<gtf, gtfQueue, lost>>

AddsTerm(w, t) ==
  /\ builder[w].pc = "work" /\ t \in builder[w].todo
  /\ gtf' \in [Terms -> Nat]
  /\ builder' = [builder EXCEPT ![w] = At(builder[w].block, builder[w].todo \ {t})]
  /\ UNCHANGED <<inputQueue, gtfQueue, lost>>

PutsCounted(w) ==
  /\ builder[w].pc = "work"
  /\ gtfQueue' = [gtfQueue EXCEPT ![w] = gtfQueue[w] \cup {builder[w].block}]
  /\ builder' = [builder EXCEPT ![w] = Taking]
  /\ UNCHANGED <<inputQueue, gtf, lost>>

BuilderStops(w) ==
  /\ builder[w].pc = "take"
  /\ builder' \in {[builder EXCEPT ![w] = Ended], [builder EXCEPT ![w] = Dead]}
  /\ inputQueue' \subseteq inputQueue
  /\ gtfQueue' \in [Workers -> SUBSET Places]
  /\ \A v \in Workers : gtfQueue'[v] \subseteq gtfQueue[v]
  /\ lost \subseteq lost' /\ lost' \subseteq lost \cup inputQueue \cup ToIndex
  /\ inputQueue \cup ToIndex \subseteq inputQueue' \cup ToIndex' \cup lost'
  /\ gtf' = gtf

BuilderSteps(w) ==
  /\ ~ options.presorted
  /\ \/ \E k \in Places : TakesInput(w, k)
     \/ \E t \in Terms : AddsTerm(w, t)
     \/ PutsCounted(w) \/ BuilderStops(w)
  /\ UNCHANGED <<clock, indexing, querying, cloning>>

(* An indexer skips a block or takes it, in its order or by the GTF; it
   indexes it under a term, hands it on, or stops.                         *)
EarlyTerms(rank, t) == {u \in Terms : rank[u] < rank[t]}

PrefixOf(rank, block) ==
  {t \in ByName!TermsOf(block) :
     Cardinality(ByName!TokensOf(block, EarlyTerms(rank, t)))
       < ByName!PrefixLength(block, threshold)}

RankOf(k) == IF options.presorted THEN file[k].order ELSE SortRank

(* The indexers take from the input queue, or from the builders.           *)
Draws(k) ==
  \/ /\ options.presorted
     /\ k \in inputQueue /\ ~ Unreadable(file[k])
     /\ inputQueue' = inputQueue \ {k} /\ gtfQueue' = gtfQueue
  \/ /\ ~ options.presorted
     /\ k \in ToIndex
     /\ gtfQueue' = Removed(k) /\ inputQueue' = inputQueue

Skips(w, k) ==
  /\ indexer[w].pc = "take"
  /\ Draws(k) /\ ~ Approved(file[k])
  /\ UNCHANGED <<indexing, lost>>

Prefixes(w, k) ==
  /\ indexer[w].pc = "take"
  /\ Draws(k) /\ Approved(file[k])
  /\ prefix' = [prefix EXCEPT ![k] = PrefixOf(RankOf(k), file[k])]
  /\ indexer' = [indexer EXCEPT ![w] = At(k, PrefixOf(RankOf(k), file[k]))]
  /\ UNCHANGED <<index, detectQueue, lost>>

IndexesTerm(w, t) ==
  /\ indexer[w].pc = "work" /\ t \in indexer[w].todo
  /\ index' = [index EXCEPT ![t] = index[t] \cup {indexer[w].block}]
  /\ indexer' = [indexer EXCEPT ![w] = At(indexer[w].block, indexer[w].todo \ {t})]
  /\ UNCHANGED <<inputQueue, gtfQueue, prefix, detectQueue, lost>>

PutsIndexed(w) ==
  /\ indexer[w].pc = "work" /\ indexer[w].todo = {}
  /\ detectQueue' = detectQueue \cup {indexer[w].block}
  /\ indexer' = [indexer EXCEPT ![w] = Taking]
  /\ UNCHANGED <<inputQueue, gtfQueue, prefix, index, lost>>

IndexerStops(w) ==
  /\ indexer[w].pc = "take"
  /\ indexer' \in {[indexer EXCEPT ![w] = Ended], [indexer EXCEPT ![w] = Dead]}
  /\ options.presorted \/ OnlyHeldBack(ToIndex, Others(indexer, w))
  /\ inputQueue' \subseteq inputQueue /\ detectQueue' \subseteq detectQueue
  /\ lost \subseteq lost' /\ lost' \subseteq lost \cup inputQueue \cup detectQueue
  /\ inputQueue \subseteq inputQueue' \cup lost' /\ detectQueue \subseteq detectQueue' \cup lost'
  /\ UNCHANGED <<gtfQueue, prefix, index>>

IndexerSteps(w) ==
  /\ \/ \E k \in Places : Skips(w, k) \/ Prefixes(w, k)
     \/ \E t \in Terms : IndexesTerm(w, t)
     \/ PutsIndexed(w) \/ IndexerStops(w)
  /\ UNCHANGED <<clock, builder, gtf, querying, cloning>>

(* A detector takes a block of the partition or one after it; it hands on a
   clone, or is through with the block; it goes over to the later blocks, or
   stops.                                                                  *)
Queries(w, k) ==
  /\ detector[w].pc = "take"
  /\ k \in detectQueue
  /\ detectQueue' = detectQueue \ {k}
  /\ detector' = [detector EXCEPT ![w] = At(k, DetectClones(k, prefix[k]))]
  /\ UNCHANGED <<laterQueue, source, outputQueue, lostClones, lost>>

QueriesLater(w, k) ==
  /\ options.partitioned /\ AtLater(w)
  /\ k \in laterQueue /\ ~ Unreadable(file[k]) /\ Approved(file[k])
  /\ laterQueue' = laterQueue \ {k}
  /\ detector' = [detector EXCEPT ![w] = At(k, DetectClones(k, PrefixOf(RankOf(k), file[k])))]
  /\ UNCHANGED <<detectQueue, source, outputQueue, lostClones, lost>>

SkipsLater(w, k) ==
  /\ options.partitioned /\ AtLater(w)
  /\ k \in laterQueue /\ ~ Approved(file[k])
  /\ laterQueue' = laterQueue \ {k}
  /\ UNCHANGED <<detectQueue, detector, source, outputQueue, lostClones, lost>>

PutsClone(w, pair) ==
  /\ detector[w].pc = "work" /\ pair \in detector[w].todo
  /\ outputQueue' = outputQueue \cup {pair}
  /\ detector' = [detector EXCEPT ![w] = At(detector[w].block, detector[w].todo \ {pair})]
  /\ UNCHANGED <<detectQueue, laterQueue, source, lostClones, lost>>

EndsQuery(w) ==
  /\ detector[w].pc = "work" /\ detector[w].todo = {}
  /\ detector' = [detector EXCEPT ![w] = Taking]
  /\ UNCHANGED <<detectQueue, laterQueue, source, outputQueue, lostClones, lost>>

Switches(w) ==
  /\ options.partitioned
  /\ detector[w].pc = "take"
  /\ OnlyHeldBack(detectQueue, {v \in Others(detector, w) : source[v] = "index"})
  /\ source' = [source EXCEPT ![w] = "file"]
  /\ UNCHANGED <<detectQueue, detector, laterQueue, outputQueue, lostClones, lost>>

DetectorStops(w) ==
  /\ detector[w].pc = "take"
  /\ detector' \in {[detector EXCEPT ![w] = Ended], [detector EXCEPT ![w] = Dead]}
  /\ \/ ~ options.partitioned /\ OnlyHeldBack(detectQueue, Others(detector, w))
     \/ source[w] = "file"
  /\ laterQueue' \subseteq laterQueue /\ outputQueue' \subseteq outputQueue
  /\ lost \subseteq lost' /\ lost' \subseteq lost \cup laterQueue
  /\ laterQueue \subseteq laterQueue' \cup lost'
  /\ lostClones \subseteq lostClones' /\ outputQueue \subseteq outputQueue' \cup lostClones'
  /\ UNCHANGED <<detectQueue, source>>

DetectorSteps(w) ==
  /\ \/ \E k \in Places : Queries(w, k) \/ QueriesLater(w, k) \/ SkipsLater(w, k)
     \/ \E pair \in Pairs : PutsClone(w, pair)
     \/ EndsQuery(w) \/ Switches(w) \/ DetectorStops(w)
  /\ UNCHANGED <<clock, counting, indexer, prefix, index, writer, Handed>>

(* The writer is given a clone, ends or fails.                             *)
Writes(pair) ==
  /\ pair \in outputQueue
  /\ outputQueue' = outputQueue \ {pair} /\ Handed' = Handed \cup {pair}
  /\ UNCHANGED writer

WriterSteps ==
  /\ writer = "take"
  /\ \/ \E pair \in Pairs : Writes(pair)
     \/ /\ main = "join writer" /\ outputQueue = {}
        /\ writer' \in {"ended", "unflushed"} /\ UNCHANGED <<outputQueue, Handed>>
     \/ outputQueue' \subseteq outputQueue /\ writer' = "failed" /\ UNCHANGED Handed
  /\ UNCHANGED <<clock, counting, indexing, querying, lostClones, lost>>

Steps ==
  /\ \/ MainSteps
     \/ \E w \in Workers : BuilderSteps(w) \/ IndexerSteps(w) \/ DetectorSteps(w)
     \/ WriterSteps
  /\ UNCHANGED choice

(* The types of the variables.                                             *)
WellTyped ==
  /\ options \in [presorted : BOOLEAN, partitioned : BOOLEAN]
  /\ file \in Files
  /\ fed \in 0 .. Len(file) /\ begin \in 0 .. fed /\ later \in 0 .. Len(file)
  /\ inputQueue \subseteq Places /\ detectQueue \subseteq Places
  /\ laterQueue \subseteq Places /\ lost \subseteq Places
  /\ builder \in [Workers -> Jobs(Terms)] /\ indexer \in [Workers -> Jobs(Terms)]
  /\ gtf \in [Terms -> Nat]
  /\ gtfQueue \in [Workers -> SUBSET Places]
  /\ prefix \in [Places -> SUBSET Terms]
  /\ index \in [Terms -> SUBSET Places]
  /\ detector \in [Workers -> Jobs(Pairs)]
  /\ source \in [Workers -> {"index", "file"}]
  /\ outputQueue \subseteq Pairs /\ Handed \subseteq Pairs
  /\ main = "put" => begin < fed
  /\ main = "put query" => later # 0

-----------------------------------------------------------------------------
(* Every step of a pipeline is one of these.                               *)

LEMMA MainIsStep ==
  ASSUME WellTyped, MainThread
  PROVE  MainSteps /\ UNCHANGED choice
<1> USE DEF inputVars, gtfVars, indexVars, outputVars, Handed, partitionVars, laterVars,
            choice, clock, counting, indexing, querying, cloning,
            Chosen, Rest, SameElse, SameRest
<1>1. CASE Whole(Main)
  <2> USE DEF Whole
  <2>1. CASE Read
    BY <1>1, <2>1 DEF Read, Reads, MainSteps
  <2>2. CASE Put
    BY <1>1, <2>2 DEF Put, Puts, MainSteps
  <2>3. CASE ReadEnd
    <3>1. fed = Len(file) /\ AdvancesTo(main')
      BY <1>1, <2>3 DEF ReadEnd, AdvancesTo
    <3>2. QED
      BY <1>1, <2>3, <3>1 DEF ReadEnd, Advances, MainSteps
  <2>4. CASE PoisonInput
    <3>1. AdvancesTo(main')
      BY <1>1, <2>4 DEF PoisonInput, PoisonOne, AdvancesTo
    <3>2. QED
      BY <1>1, <2>4, <3>1 DEF PoisonInput, PoisonOne, Advances, MainSteps
  <2>5. CASE StartIndexing
    BY <1>1, <2>5 DEF StartIndexing, StartsIndexers, MainSteps
  <2>6. CASE StartDetection
    BY <1>1, <2>6 DEF StartDetection, StartsDetectors, MainSteps
  <2>7. CASE PoisonOutput
    <3>1. AdvancesTo(main')
      BY <1>1, <2>7 DEF PoisonOutput, AdvancesTo
    <3>2. QED
      BY <1>1, <2>7, <3>1 DEF PoisonOutput, Advances, MainSteps
  <2>8. CASE Finish
    <3>1. AdvancesTo(main')
      BY <1>1, <2>8 DEF Finish, AdvancesTo
    <3>2. QED
      BY <1>1, <2>8, <3>1 DEF Finish, Save, Advances, MainSteps
  <2>9. QED
    BY <1>1, <2>1, <2>2, <2>3, <2>4, <2>5, <2>6, <2>7, <2>8 DEF Main
<1>2. CASE WholeGiven(MainPreSorted /\ UNCHANGED indexedBy)
  <2> USE DEF WholeGiven
  <2>1. CASE Read
    BY <1>2, <2>1 DEF Read, Reads, MainSteps
  <2>2. CASE Put
    BY <1>2, <2>2 DEF Put, Puts, MainSteps
  <2>3. CASE ReadEnd
    <3>1. fed = Len(file) /\ AdvancesTo(main')
      BY <1>2, <2>3 DEF ReadEnd, AdvancesTo
    <3>2. QED
      BY <1>2, <2>3, <3>1 DEF ReadEnd, Advances, MainSteps
  <2>4. CASE PoisonIndexers
    <3>1. AdvancesTo(main')
      BY <1>2, <2>4 DEF PoisonIndexers, PoisonOne, AdvancesTo
    <3>2. QED
      BY <1>2, <2>4, <3>1 DEF PoisonIndexers, PoisonOne, Advances, MainSteps
  <2>6. CASE StartDetection
    BY <1>2, <2>6 DEF StartDetection, StartsDetectors, MainSteps
  <2>7. CASE PoisonOutput
    <3>1. AdvancesTo(main')
      BY <1>2, <2>7 DEF PoisonOutput, AdvancesTo
    <3>2. QED
      BY <1>2, <2>7, <3>1 DEF PoisonOutput, Advances, MainSteps
  <2>8. CASE Finish
    <3>1. AdvancesTo(main')
      BY <1>2, <2>8 DEF Finish, AdvancesTo
    <3>2. QED
      BY <1>2, <2>8, <3>1 DEF Finish, Save, Advances, MainSteps
  <2>9. QED
    BY <1>2, <2>1, <2>2, <2>3, <2>4, <2>6, <2>7, <2>8 DEF MainPreSorted
<1>3. ASSUME \/ ReadPartition \/ EndPartition \/ StartQueries
             \/ ReadLater \/ PutLater \/ LaterEnd \/ PoisonLater
             \/ (endReached /\ PoisonOutput) /\ SameRest
             \/ Finish /\ SameRest,
             options.partitioned, UNCHANGED options
      PROVE  MainSteps /\ UNCHANGED choice
  <2>1. CASE ReadPartition
    BY <1>3, <2>1 DEF ReadPartition, Read, Reads, MainSteps
  <2>2. CASE EndPartition
    <3>1. endReached' => fed = Len(file)
      BY <2>2 DEF EndPartition, PartitionFull
    <3>2. AdvancesTo(main')
      BY <1>3, <2>2, <3>1 DEF EndPartition, AdvancesTo
    <3>3. QED
      BY <1>3, <2>2, <3>2 DEF EndPartition, Advances, MainSteps
  <2>3. CASE StartQueries
    BY <1>3, <2>3 DEF StartQueries, StartsDetectors, MainSteps
  <2>4. CASE ReadLater
    BY <1>3, <2>4 DEF ReadLater, ReadsLater, MainSteps
  <2>5. CASE PutLater
    BY <1>3, <2>5 DEF PutLater, PutsLater, MainSteps
  <2>6. CASE LaterEnd
    <3>1. AdvancesTo(main')
      BY <1>3, <2>6 DEF LaterEnd, AdvancesTo
    <3>2. QED
      BY <1>3, <2>6, <3>1 DEF LaterEnd, Advances, MainSteps
  <2>7. CASE PoisonLater
    <3>1. AdvancesTo(main')
      BY <1>3, <2>7 DEF PoisonLater, AdvancesTo
    <3>2. QED
      BY <1>3, <2>7, <3>1 DEF PoisonLater, Advances, MainSteps
  <2>8. CASE (endReached /\ PoisonOutput) /\ SameRest
    <3>1. AdvancesTo(main')
      BY <1>3, <2>8 DEF PoisonOutput, AdvancesTo
    <3>2. QED
      BY <1>3, <2>8, <3>1 DEF PoisonOutput, Advances, MainSteps
  <2>9. CASE Finish /\ SameRest
    <3>1. AdvancesTo(main')
      BY <1>3, <2>9 DEF Finish, AdvancesTo
    <3>2. QED
      BY <1>3, <2>9, <3>1 DEF Finish, Save, Advances, MainSteps
  <2>10. QED
    BY <1>3, <2>1, <2>2, <2>3, <2>4, <2>5, <2>6, <2>7, <2>8, <2>9
<1>4. gtf \in [Terms -> Nat] /\ [t \in Terms |-> 0] \in [Terms -> Nat]
  BY DEF WellTyped
<1>5. CASE Partitions(MainPartitioned)
  <2> USE DEF Partitions
  <2>1. options.partitioned /\ ~ options.presorted /\ UNCHANGED options
    BY <1>5
  <2>2. CASE NextPartition
    <3>1. StartsPartition
      BY <1>4, <2>1, <2>2 DEF NextPartition, StartsPartition
    <3>2. QED
      BY <2>1, <2>2, <3>1 DEF NextPartition, MainSteps
  <2>3. CASE Put /\ SameRest
    BY <2>1, <2>3 DEF Put, Puts, MainSteps
  <2>4. CASE PoisonInput /\ SameRest
    <3>1. AdvancesTo(main')
      BY <2>1, <2>4 DEF PoisonInput, PoisonOne, AdvancesTo
    <3>2. QED
      BY <2>1, <2>4, <3>1 DEF PoisonInput, PoisonOne, Advances, MainSteps
  <2>5. CASE StartIndexing /\ SameRest
    BY <2>1, <2>5 DEF StartIndexing, StartsIndexers, MainSteps
  <2>6. QED
    BY <1>3, <1>5, <2>1, <2>2, <2>3, <2>4, <2>5 DEF MainPartitioned
<1>6. CASE PartitionsGiven(MainGiven)
  <2> USE DEF PartitionsGiven
  <2>1. options.partitioned /\ options.presorted /\ UNCHANGED options
    BY <1>6
  <2>2. CASE NextPartitionGiven
    <3>1. StartsPartition
      BY <1>4, <2>1, <2>2 DEF NextPartitionGiven, StartsPartition
    <3>2. QED
      BY <2>1, <2>2, <3>1 DEF NextPartitionGiven, MainSteps
  <2>3. CASE PutGiven
    BY <2>1, <2>3 DEF PutGiven, Puts, MainSteps
  <2>4. CASE PoisonGiven
    <3>1. AdvancesTo(main')
      BY <2>1, <2>4 DEF PoisonGiven, AdvancesTo
    <3>2. QED
      BY <2>1, <2>4, <3>1 DEF PoisonGiven, Advances, MainSteps
  <2>5. QED
    BY <1>3, <1>6, <2>1, <2>2, <2>3, <2>4 DEF MainGiven
<1>7. QED
  BY <1>1, <1>2, <1>5, <1>6 DEF MainThread

(* The prefixes that the pipelines compute are all PrefixOf.               *)
LEMMA PrefixBySort ==
  ASSUME NEW block
  PROVE  Block!PrefixTerms(block, threshold) = PrefixOf(SortRank, block)
  BY DEF PrefixOf, EarlyTerms, Block!PrefixTerms, Block!PrefixLength, Block!numTokens,
         Block!Before, Block!TermsOf, Block!Tokens, Block!TokensOf, Block!Cardinality,
         ByName!PrefixLength, ByName!numTokens, ByName!TermsOf, ByName!Tokens,
         ByName!TokensOf, ByName!Cardinality, Cardinality

LEMMA PrefixAsGiven ==
  ASSUME NEW block
  PROVE  Given(block)!PrefixTerms(block, threshold) = PrefixOf(block.order, block)
  BY DEF PrefixOf, EarlyTerms, Given!PrefixTerms, Given!PrefixLength, Given!numTokens,
         Given!Before, Given!TermsOf, Given!Tokens, Given!TokensOf, Given!Cardinality,
         ByName!PrefixLength, ByName!numTokens, ByName!TermsOf, ByName!Tokens,
         ByName!TokensOf, ByName!Cardinality, Cardinality

(* Where the threads of a pipeline are.                                    *)
LEMMA AllTyped ==
  ASSUME WellTyped
  PROVE  /\ ToIndex \subseteq Places
         /\ \A k : Removed(k) \in [Workers -> SUBSET Places]
         /\ \A w \in Workers :
              /\ builder[w].pc = "work" => builder[w].block \in Places /\ builder[w].todo \subseteq Terms
              /\ indexer[w].pc = "work" => indexer[w].block \in Places /\ indexer[w].todo \subseteq Terms
              /\ detector[w].pc = "work" => detector[w].block \in Places /\ detector[w].todo \subseteq Pairs
              /\ detector[w].pc # "work" => detector[w].todo = {}
<1>1. \A v \in Workers : gtfQueue[v] \subseteq Places
  BY DEF WellTyped
<1>2. ToIndex \subseteq Places
  BY <1>1 DEF ToIndex
<1>3. \A k : Removed(k) \in [Workers -> SUBSET Places]
  BY <1>1 DEF Removed
<1>4. \A w \in Workers :
        /\ builder[w].pc = "work" => builder[w].block \in Places /\ builder[w].todo \subseteq Terms
        /\ indexer[w].pc = "work" => indexer[w].block \in Places /\ indexer[w].todo \subseteq Terms
  BY DEF WellTyped, Jobs, Tasks
<1>5. \A w \in Workers :
        /\ detector[w].pc = "work" => detector[w].block \in Places /\ detector[w].todo \subseteq Pairs
        /\ detector[w].pc # "work" => detector[w].todo = {}
  BY DEF WellTyped, Jobs, Tasks
<1>6. QED
  BY <1>2, <1>3, <1>4, <1>5

LEMMA AtWork ==
  ASSUME NEW J, NEW job \in Jobs(J), job.pc = "work", NEW x
  PROVE  [job EXCEPT !.todo = @ \ {x}] = At(job.block, job.todo \ {x})
<1>1. job \in [pc : {"work"}, block : Places, todo : SUBSET J]
  BY DEF Jobs, Tasks
<1>2. QED
  BY <1>1 DEF At

LEMMA BuilderIsStep ==
  ASSUME WellTyped, NEW w \in Workers, BuilderThread(w)
  PROVE  BuilderSteps(w) /\ UNCHANGED choice
<1> USE DEF inputVars, gtfVars, indexVars, outputVars, Handed, partitionVars, laterVars,
            choice, clock, counting, indexing, querying, cloning,
            Chosen, Rest, SameElse, SameRest, Whole, Partitions
<1>1. /\ Builder(w) /\ ~ options.presorted
      /\ UNCHANGED <<options, partitionVars, laterVars, source, lostClones>>
  BY DEF BuilderThread
<1>2. builder \in [Workers -> Jobs(Terms)]
  BY DEF WellTyped
<1>3. CASE TakeInput(w)
  <2>1. \E k \in Places : TakesInput(w, k)
    BY <1>3, <1>1 DEF TakeInput, TakesInput, WellTyped
  <2>2. QED
    BY <1>1, <1>3, <2>1 DEF TakeInput, BuilderSteps
<1>4. CASE AddTerm(w)
  <2>1. PICK t \in builder[w].todo :
          /\ gtf' = [gtf EXCEPT ![t] = @ + file[builder[w].block].freq[t]]
          /\ builder' = [builder EXCEPT ![w].todo = @ \ {t}]
    BY <1>4 DEF AddTerm
  <2>2. builder[w].block \in Places /\ t \in Terms /\ builder[w].pc = "work"
    BY <1>4, AllTyped DEF AddTerm
  <2>3. file[builder[w].block].freq[t] \in Nat
    <3>1. file \in Files
      BY DEF WellTyped
    <3>2. builder[w].block \in 1 .. Len(file)
      BY <2>2 DEF Places
    <3>3. file[builder[w].block].freq \in [Terms -> Nat]
      BY <3>1, <3>2, FilesAssumption
    <3>4. QED
      BY <2>2, <3>3
  <2>4. gtf' \in [Terms -> Nat]
    <3>1. gtf \in [Terms -> Nat]
      BY DEF WellTyped
    <3>2. gtf[t] + file[builder[w].block].freq[t] \in Nat
      BY <2>2, <2>3, <3>1
    <3>3. QED
      BY <2>1, <3>1, <3>2
  <2>5. builder' = [builder EXCEPT ![w] = At(builder[w].block, builder[w].todo \ {t})]
    <3>1. builder[w] \in Jobs(Terms)
      BY <1>2
    <3>2. [builder[w] EXCEPT !.todo = @ \ {t}] = At(builder[w].block, builder[w].todo \ {t})
      BY <2>2, <3>1, AtWork
    <3>3. QED
      BY <1>2, <2>1, <3>2
  <2>6. AddsTerm(w, t)
    BY <1>4, <2>1, <2>4, <2>5 DEF AddTerm, AddsTerm
  <2>7. QED
    BY <1>1, <1>4, <2>2, <2>6 DEF AddTerm, BuilderSteps
<1>5. CASE PutCounted(w)
  BY <1>1, <1>5 DEF PutCounted, PutsCounted, BuilderSteps
<1>6. CASE BuilderEnds(w)
  <2>1. gtfQueue' = gtfQueue /\ ToIndex' = ToIndex
    BY <1>6 DEF BuilderEnds, ToIndex
  <2>2. gtfQueue' \in [Workers -> SUBSET Places]
    BY <2>1 DEF WellTyped
  <2>3. BuilderStops(w)
    BY <1>6, <2>1, <2>2 DEF BuilderEnds, BuilderStops
  <2>4. QED
    BY <1>1, <1>6, <2>3 DEF BuilderEnds, BuilderSteps
<1>7. CASE BuilderDies(w)
  <2>1. PICK k \in inputQueue, heldBack \in SUBSET inputQueue, buffered \in SUBSET gtfQueue[w] :
          /\ inputQueue' = inputQueue \ ({k} \cup heldBack)
          /\ gtfQueue' = [gtfQueue EXCEPT ![w] = @ \ buffered]
          /\ lost' = lost \cup {k} \cup heldBack \cup buffered
    BY <1>7 DEF BuilderDies
  <2>2. gtfQueue \in [Workers -> SUBSET Places]
    BY DEF WellTyped
  <2>3. /\ gtfQueue' \in [Workers -> SUBSET Places]
        /\ gtfQueue'[w] = gtfQueue[w] \ buffered
        /\ \A v \in Workers : v # w => gtfQueue'[v] = gtfQueue[v]
    BY <2>1, <2>2
  <2>4. ToIndex \subseteq ToIndex' \cup buffered
    BY <2>3 DEF ToIndex
  <2>5. buffered \subseteq ToIndex
    BY DEF ToIndex
  <2>6. /\ lost \subseteq lost' /\ lost' \subseteq lost \cup inputQueue \cup ToIndex
        /\ inputQueue \cup ToIndex \subseteq inputQueue' \cup ToIndex' \cup lost'
    BY <2>1, <2>4, <2>5
  <2>7. BuilderStops(w)
    BY <1>7, <2>1, <2>3, <2>6 DEF BuilderDies, BuilderStops
  <2>8. QED
    BY <1>1, <1>7, <2>7 DEF BuilderDies, BuilderSteps
<1>8. QED
  BY <1>1, <1>3, <1>4, <1>5, <1>6, <1>7 DEF Builder

LEMMA IndexerIsStep ==
  ASSUME WellTyped, NEW w \in Workers, IndexerThread(w)
  PROVE  IndexerSteps(w) /\ UNCHANGED choice
<1> USE DEF inputVars, gtfVars, indexVars, outputVars, Handed, partitionVars, laterVars,
            choice, clock, counting, indexing, querying, cloning,
            Chosen, Rest, SameElse, SameRest, Whole, Partitions, WholeGiven, PartitionsGiven
<1>1. /\ \/ ~ options.presorted /\ Indexer(w)
         \/ options.presorted /\ IndexerPreSorted(w)
      /\ UNCHANGED <<options, partitionVars, laterVars, source, lostClones>>
  BY DEF IndexerThread, IndexerGiven
<1>2. indexer \in [Workers -> Jobs(Terms)]
  BY DEF WellTyped
<1>3. CASE ~ options.presorted /\ SkipSmall(w)
  <2>1. PICK k \in ToIndex : ~ Approved(file[k]) /\ gtfQueue' = Removed(k)
    BY <1>3 DEF SkipSmall
  <2>2. Skips(w, k) /\ k \in Places
    BY <1>3, <2>1, AllTyped DEF SkipSmall, Skips, Draws
  <2>3. QED
    BY <1>1, <1>3, <2>2 DEF SkipSmall, IndexerSteps
<1>4. CASE ~ options.presorted /\ SortAndPrefix(w)
  <2>1. PICK k \in ToIndex :
          /\ Approved(file[k])
          /\ gtfQueue' = Removed(k)
          /\ prefix' = [prefix EXCEPT ![k] = Block!PrefixTerms(file[k], threshold)]
          /\ indexer' = [indexer EXCEPT ![w] = At(k, prefix'[k])]
    BY <1>4 DEF SortAndPrefix
  <2>2. k \in Places /\ RankOf(k) = SortRank
    BY <1>4, AllTyped DEF RankOf
  <2>3. prefix' = [prefix EXCEPT ![k] = PrefixOf(RankOf(k), file[k])]
    BY <2>1, <2>2, PrefixBySort
  <2>4. prefix'[k] = PrefixOf(RankOf(k), file[k])
    BY <2>2, <2>3 DEF WellTyped
  <2>5. Prefixes(w, k)
    BY <1>4, <2>1, <2>3, <2>4 DEF SortAndPrefix, Prefixes, Draws
  <2>6. QED
    BY <1>1, <1>4, <2>2, <2>5 DEF SortAndPrefix, IndexerSteps
<1>5. CASE options.presorted /\ SkipSmallGiven(w)
  <2>1. PICK k \in inputQueue : /\ ~ Unreadable(file[k]) /\ ~ Approved(file[k])
                                /\ inputQueue' = inputQueue \ {k}
    BY <1>5 DEF SkipSmallGiven
  <2>2. Skips(w, k) /\ k \in Places
    BY <1>5, <2>1 DEF SkipSmallGiven, Skips, Draws, WellTyped
  <2>3. QED
    BY <1>1, <1>5, <2>2 DEF SkipSmallGiven, IndexerSteps
<1>6. CASE options.presorted /\ Prefix(w)
  <2>1. PICK k \in inputQueue :
          /\ ~ Unreadable(file[k]) /\ Approved(file[k])
          /\ inputQueue' = inputQueue \ {k}
          /\ prefix' = [prefix EXCEPT ![k] = Given(file[k])!PrefixTerms(file[k], threshold)]
          /\ indexer' = [indexer EXCEPT ![w] = At(k, prefix'[k])]
    BY <1>6 DEF Prefix
  <2>2. k \in Places /\ RankOf(k) = file[k].order
    BY <1>6 DEF RankOf, WellTyped
  <2>3. prefix' = [prefix EXCEPT ![k] = PrefixOf(RankOf(k), file[k])]
    BY <2>1, <2>2, PrefixAsGiven
  <2>4. prefix'[k] = PrefixOf(RankOf(k), file[k])
    BY <2>2, <2>3 DEF WellTyped
  <2>5. Prefixes(w, k)
    BY <1>6, <2>1, <2>3, <2>4 DEF Prefix, Prefixes, Draws
  <2>6. QED
    BY <1>1, <1>6, <2>2, <2>5 DEF Prefix, IndexerSteps
<1>7. CASE IndexTerm(w)
  <2>1. PICK t \in indexer[w].todo :
          /\ index' = [index EXCEPT ![t] = @ \cup {indexer[w].block}]
          /\ indexer' = [indexer EXCEPT ![w].todo = @ \ {t}]
    BY <1>7 DEF IndexTerm
  <2>2. t \in Terms /\ indexer[w].pc = "work"
    BY <1>7, AllTyped DEF IndexTerm
  <2>3. indexer' = [indexer EXCEPT ![w] = At(indexer[w].block, indexer[w].todo \ {t})]
    <3>1. indexer[w] \in Jobs(Terms)
      BY <1>2
    <3>2. [indexer[w] EXCEPT !.todo = @ \ {t}] = At(indexer[w].block, indexer[w].todo \ {t})
      BY <2>2, <3>1, AtWork
    <3>3. QED
      BY <1>2, <2>1, <3>2
  <2>4. IndexesTerm(w, t)
    BY <1>7, <2>1, <2>2, <2>3 DEF IndexTerm, IndexesTerm
  <2>5. QED
    BY <1>1, <1>7, <2>2, <2>4 DEF IndexTerm, IndexerSteps
<1>8. CASE PutIndexed(w)
  BY <1>1, <1>8 DEF PutIndexed, PutsIndexed, IndexerSteps
<1>9. CASE ~ options.presorted /\ IndexerEnds(w)
  <2>1. IndexerStops(w)
    BY <1>9 DEF IndexerEnds, IndexerStops
  <2>2. QED
    BY <1>1, <1>9, <2>1 DEF IndexerEnds, IndexerSteps
<1>10. CASE options.presorted /\ IndexerEndsGiven(w)
  <2>1. IndexerStops(w)
    BY <1>10 DEF IndexerEndsGiven, IndexerStops
  <2>2. QED
    BY <1>1, <1>10, <2>1 DEF IndexerEndsGiven, IndexerSteps
<1>11. CASE options.presorted /\ IndexerDies(w)
  <2>1. PICK k \in inputQueue, heldBack \in SUBSET inputQueue, buffered \in SUBSET detectQueue :
          /\ inputQueue' = inputQueue \ ({k} \cup heldBack)
          /\ detectQueue' = detectQueue \ buffered
          /\ lost' = lost \cup {k} \cup heldBack \cup buffered
    BY <1>11 DEF IndexerDies
  <2>2. IndexerStops(w)
    BY <1>11, <2>1 DEF IndexerDies, IndexerStops
  <2>3. QED
    BY <1>1, <1>11, <2>2 DEF IndexerDies, IndexerSteps
<1>12. QED
  BY <1>1, <1>3, <1>4, <1>5, <1>6, <1>7, <1>8, <1>9, <1>10, <1>11 DEF Indexer, IndexerPreSorted

LEMMA DetectorIsStep ==
  ASSUME WellTyped, NEW w \in Workers, DetectorThread(w)
  PROVE  DetectorSteps(w) /\ UNCHANGED choice
<1> USE DEF inputVars, gtfVars, indexVars, outputVars, Handed, partitionVars, laterVars,
            choice, clock, counting, indexing, querying, cloning,
            Chosen, Rest, SameElse, SameRest, Whole, Partitions, WholeGiven, PartitionsGiven
<1>1. UNCHANGED options
  BY DEF DetectorThread
<1>2. \/ ~ options.partitioned /\ Detector(w) /\ SameRest
      \/ options.partitioned /\ DetectIndexed(w)
      \/ options.partitioned /\ SwitchSource(w)
      \/ options.partitioned /\ SkipLater(w)
      \/ options.partitioned /\ ~ options.presorted /\ DetectLater(w)
      \/ options.partitioned /\ options.presorted /\ DetectLaterGiven(w)
      \/ options.partitioned /\ LaterDetectorEnds(w)
      \/ options.partitioned /\ DetectorDies(w)
      \/ options.partitioned /\ PutClone(w) /\ SameRest
      \/ options.partitioned /\ NextQuery(w) /\ SameRest
  BY DEF DetectorThread, DetectorPartitioned, DetectorGiven
<1>3. detector \in [Workers -> Jobs(Pairs)]
  BY DEF WellTyped
<1>4. CASE Detect(w) /\ SameRest
  <2>1. PICK k \in detectQueue :
          /\ detectQueue' = detectQueue \ {k}
          /\ detector' = [detector EXCEPT ![w] = At(k, DetectClones(k, prefix[k]))]
    BY <1>4 DEF Detect
  <2>2. Queries(w, k) /\ k \in Places
    BY <1>4, <2>1 DEF Detect, Queries, WellTyped
  <2>3. QED
    BY <1>1, <1>4, <2>2 DEF Detect, DetectorSteps
<1>5. CASE PutClone(w) /\ SameRest
  <2>1. PICK pair \in detector[w].todo :
          /\ outputQueue' = outputQueue \cup {pair}
          /\ detector' = [detector EXCEPT ![w].todo = @ \ {pair}]
    BY <1>5 DEF PutClone
  <2>2. pair \in Pairs /\ detector[w].pc = "work"
    BY <1>5, AllTyped DEF PutClone
  <2>3. detector' = [detector EXCEPT ![w] = At(detector[w].block, detector[w].todo \ {pair})]
    <3>1. detector[w] \in Jobs(Pairs)
      BY <1>3
    <3>2. [detector[w] EXCEPT !.todo = @ \ {pair}]
            = At(detector[w].block, detector[w].todo \ {pair})
      BY <2>2, <3>1, AtWork
    <3>3. QED
      BY <1>3, <2>1, <3>2
  <2>4. PutsClone(w, pair)
    BY <1>5, <2>1, <2>2, <2>3 DEF PutClone, PutsClone
  <2>5. QED
    BY <1>1, <1>5, <2>2, <2>4 DEF PutClone, DetectorSteps
<1>6. CASE NextQuery(w) /\ SameRest
  BY <1>1, <1>6 DEF NextQuery, EndsQuery, DetectorSteps
<1>7. CASE ~ options.partitioned /\ DetectorEnds(w) /\ SameRest
  <2>1. DetectorStops(w)
    BY <1>7 DEF DetectorEnds, DetectorStops
  <2>2. QED
    BY <1>1, <1>7, <2>1 DEF DetectorEnds, DetectorSteps
<1>8. CASE options.partitioned /\ SwitchSource(w)
  BY <1>1, <1>8 DEF SwitchSource, Switches, DetectorSteps
<1>9. CASE options.partitioned /\ SkipLater(w)
  <2>1. PICK k \in laterQueue : ~ Approved(file[k]) /\ laterQueue' = laterQueue \ {k}
    BY <1>9 DEF SkipLater
  <2>2. SkipsLater(w, k) /\ k \in Places
    BY <1>9, <2>1 DEF SkipLater, SkipsLater, WellTyped
  <2>3. QED
    BY <1>1, <1>9, <2>2 DEF SkipLater, DetectorSteps
<1>10. CASE options.partitioned /\ ~ options.presorted /\ DetectLater(w)
  <2>1. PICK k \in laterQueue :
          /\ ~ Unreadable(file[k]) /\ Approved(file[k])
          /\ laterQueue' = laterQueue \ {k}
          /\ detector' = [detector EXCEPT ![w] =
                            At(k, DetectClones(k, Block!PrefixTerms(file[k], threshold)))]
    BY <1>10 DEF DetectLater
  <2>2. Block!PrefixTerms(file[k], threshold) = PrefixOf(RankOf(k), file[k])
    BY <1>10, PrefixBySort DEF RankOf
  <2>3. QueriesLater(w, k) /\ k \in Places
    BY <1>10, <2>1, <2>2 DEF DetectLater, QueriesLater, WellTyped
  <2>4. QED
    BY <1>1, <1>10, <2>3 DEF DetectLater, DetectorSteps
<1>11. CASE options.partitioned /\ options.presorted /\ DetectLaterGiven(w)
  <2>1. PICK k \in laterQueue :
          /\ ~ Unreadable(file[k]) /\ Approved(file[k])
          /\ laterQueue' = laterQueue \ {k}
          /\ detector' = [detector EXCEPT ![w] =
                       At(k, DetectClones(k, Given(file[k])!PrefixTerms(file[k], threshold)))]
    BY <1>11 DEF DetectLaterGiven
  <2>2. Given(file[k])!PrefixTerms(file[k], threshold) = PrefixOf(RankOf(k), file[k])
    BY <1>11, PrefixAsGiven DEF RankOf
  <2>3. QueriesLater(w, k) /\ k \in Places
    BY <1>11, <2>1, <2>2 DEF DetectLaterGiven, QueriesLater, WellTyped
  <2>4. QED
    BY <1>1, <1>11, <2>3 DEF DetectLaterGiven, DetectorSteps
<1>12. CASE LaterDetectorEnds(w)
  <2>1. DetectorStops(w)
    BY <1>12 DEF LaterDetectorEnds, AtLater, DetectorStops
  <2>2. QED
    BY <1>1, <1>12, <2>1 DEF LaterDetectorEnds, DetectorSteps
<1>13. CASE DetectorDies(w)
  <2>1. PICK k \in laterQueue, heldBack \in SUBSET laterQueue, buffered \in SUBSET outputQueue :
          /\ laterQueue' = laterQueue \ ({k} \cup heldBack)
          /\ outputQueue' = outputQueue \ buffered
          /\ lost' = lost \cup {k} \cup heldBack
          /\ lostClones' = lostClones \cup buffered
    BY <1>13 DEF DetectorDies
  <2>2. DetectorStops(w)
    BY <1>13, <2>1 DEF DetectorDies, AtLater, DetectorStops
  <2>3. QED
    BY <1>1, <1>13, <2>2 DEF DetectorDies, DetectorSteps
<1>14. QED
  BY <1>2, <1>4, <1>5, <1>6, <1>7, <1>8, <1>9, <1>10, <1>11, <1>12, <1>13
  DEF Detector, DetectIndexed

LEMMA WriterIsStep ==
  ASSUME WellTyped, WriterThread \/ (WriterFails /\ SameElse /\ UNCHANGED options)
  PROVE  WriterSteps /\ UNCHANGED choice
<1> USE DEF inputVars, gtfVars, indexVars, outputVars, Handed, partitionVars, laterVars,
            choice, clock, counting, indexing, querying, cloning, SameElse
<1>1. CASE WriteClone /\ SameElse /\ UNCHANGED options
  <2>1. PICK pair \in outputQueue : /\ outputQueue' = outputQueue \ {pair}
                                    /\ Handed' = Handed \cup {pair}
    BY <1>1 DEF WriteClone, Handed
  <2>2. Writes(pair) /\ pair \in Pairs
    BY <1>1, <2>1 DEF WriteClone, Writes, WellTyped
  <2>3. QED
    BY <1>1, <2>2 DEF WriteClone, WriterSteps
<1>2. CASE (WriterEnds \/ FlushFails) /\ SameElse /\ UNCHANGED options
  BY <1>2 DEF WriterEnds, FlushFails, Save, OutputClosed, WriterSteps
<1>3. CASE WriteFails /\ SameElse /\ UNCHANGED options
  BY <1>3 DEF WriteFails, Save, WriterSteps
<1>4. QED
  BY <1>1, <1>2, <1>3 DEF WriterThread, Writer, WriterFails

LEMMA IsStep == WellTyped /\ [NextDetection]_detectVars => Steps \/ UNCHANGED state
<1> SUFFICES ASSUME WellTyped, [NextDetection]_detectVars
             PROVE  Steps \/ UNCHANGED state
  OBVIOUS
<1> USE DEF inputVars, gtfVars, indexVars, outputVars, Handed, partitionVars, laterVars,
            choice, clock, counting, indexing, querying, cloning, SameElse
<1>1. CASE UNCHANGED detectVars
  BY <1>1 DEF detectVars, vars, state
<1>2. CASE ReadFails /\ SameElse /\ UNCHANGED options
  <2>1. AdvancesTo(main')
    BY <1>2 DEF ReadFails, AdvancesTo
  <2>2. QED
    BY <1>2, <2>1 DEF ReadFails, Advances, MainSteps, Steps
<1>3. CASE QueryFails /\ UNCHANGED <<indexedBy, options>>
  <2>1. AdvancesTo(main')
    BY <1>3 DEF QueryFails, AdvancesTo
  <2>2. QED
    BY <1>3, <2>1 DEF QueryFails, Advances, MainSteps, Steps
<1>10. CASE FinishFails /\ SameElse /\ UNCHANGED options
  <2>1. AdvancesTo(main')
    BY <1>10 DEF FinishFails, AdvancesTo
  <2>2. QED
    BY <1>10, <2>1 DEF FinishFails, Save, Advances, MainSteps, Steps
<1>4. CASE MainThread
  BY <1>4, MainIsStep DEF Steps
<1>5. CASE \E w \in Workers : BuilderThread(w) \/ IndexerThread(w) \/ DetectorThread(w)
  BY <1>5, BuilderIsStep, IndexerIsStep, DetectorIsStep DEF Steps
<1>6. CASE WriterThread \/ (WriterFails /\ SameElse /\ UNCHANGED options)
  BY <1>6, WriterIsStep DEF Steps
<1> HIDE DEF SameElse
<1>7. \/ UNCHANGED detectVars
      \/ MainThread
      \/ \E w \in Workers : BuilderThread(w) \/ IndexerThread(w) \/ DetectorThread(w)
      \/ WriterThread
      \/ IOFails
  BY DEF NextDetection, StepDetection, TerminatingDetection
<1>8. IOFails => \/ ReadFails /\ SameElse /\ UNCHANGED options
                 \/ FinishFails /\ SameElse /\ UNCHANGED options
                 \/ WriterFails /\ SameElse /\ UNCHANGED options
                 \/ QueryFails /\ UNCHANGED <<indexedBy, options>>
  BY DEF IOFails
<1>9. QED
  BY <1>1, <1>2, <1>3, <1>4, <1>5, <1>6, <1>7, <1>8, <1>10

-----------------------------------------------------------------------------
(* The types are kept.                                                     *)

LEMMA JobsTyped ==
  ASSUME NEW T
  PROVE  /\ Waiting \in Jobs(T) /\ Taking \in Jobs(T) /\ Ended \in Jobs(T) /\ Dead \in Jobs(T)
         /\ \A k \in Places : \A S \in SUBSET T : At(k, S) \in Jobs(T)
BY DEF Jobs, Tasks, Waiting, Taking, Ended, Dead, At

LEMMA DetectedTyped ==
  ASSUME WellTyped, NEW k \in Places, NEW T \in SUBSET Terms
  PROVE  DetectClones(k, T) \in SUBSET Pairs
<1>1. \A t \in T : index[t] \subseteq Places
  BY DEF WellTyped
<1>2. QED
  BY <1>1 DEF DetectClones, Pairs

LEMMA PrefixTyped == \A rank, block : PrefixOf(rank, block) \in SUBSET Terms
BY DEF PrefixOf, ByName!TermsOf

LEMMA TypedInit == InitDetection => WellTyped
<1> SUFFICES ASSUME InitDetection PROVE WellTyped
  OBVIOUS
<1>1. /\ options \in [presorted : BOOLEAN, partitioned : BOOLEAN]
      /\ file \in Files /\ main = "read"
      /\ fed = 0 /\ begin = 0 /\ later = 0
      /\ inputQueue = {} /\ detectQueue = {} /\ laterQueue = {} /\ lost = {}
      /\ \/ builder = [w \in Workers |-> Taking] \/ builder = [w \in Workers |-> Ended]
      /\ \/ indexer = [w \in Workers |-> Taking] \/ indexer = [w \in Workers |-> Waiting]
      /\ gtf = [t \in Terms |-> 0] /\ gtfQueue = [w \in Workers |-> {}]
      /\ prefix = [k \in Places |-> {}] /\ index = [t \in Terms |-> {}]
      /\ detector = [w \in Workers |-> Waiting]
      /\ source = [w \in Workers |-> "index"]
      /\ outputQueue = {} /\ Handed = {}
  <2>1. CASE Chosen(FALSE, FALSE) /\ Init /\ AtRest
    BY <2>1 DEF Chosen, Init, AtRest, Handed, Places
  <2>2. CASE Chosen(TRUE, FALSE) /\ InitPreSorted /\ AtRest
    BY <2>2 DEF Chosen, InitPreSorted, AtRest, Handed, Places
  <2>3. CASE Chosen(FALSE, TRUE) /\ InitPartitioned
    BY <2>3 DEF Chosen, InitPartitioned, Handed, Places
  <2>4. CASE Chosen(TRUE, TRUE) /\ InitGiven
    BY <2>4 DEF Chosen, InitGiven, Handed, Places
  <2>5. QED
    BY <2>1, <2>2, <2>3, <2>4 DEF InitDetection
<1>2. Len(file) \in Nat
  BY <1>1, FilesAssumption
<1>3. /\ builder \in [Workers -> Jobs(Terms)] /\ indexer \in [Workers -> Jobs(Terms)]
      /\ detector \in [Workers -> Jobs(Pairs)]
  BY <1>1, JobsTyped
<1>4. QED
  BY <1>1, <1>2, <1>3 DEF WellTyped

LEMMA TypedStep == WellTyped /\ (Steps \/ UNCHANGED state) => WellTyped'
<1> SUFFICES ASSUME WellTyped, Steps \/ UNCHANGED state PROVE WellTyped'
  OBVIOUS
<1> USE DEF choice, clock, counting, indexing, querying, cloning
<1>1. Len(file) \in Nat
  BY FilesAssumption DEF WellTyped
<1>2. UNCHANGED choice
  BY DEF Steps, state
<1>3. Places' = Places /\ Pairs' = Pairs
  BY <1>2 DEF Places, Pairs
<1>4. Jobs(Terms)' = Jobs(Terms) /\ Jobs(Pairs)' = Jobs(Pairs)
  BY <1>3 DEF Jobs
<1>5. fed \in 0 .. Len(file) /\ begin \in 0 .. fed /\ later \in 0 .. Len(file)
  BY DEF WellTyped
<1>6. ASSUME MainSteps PROVE WellTyped'
  <2>1. CASE Reads
    <3>1. fed' \in 0 .. Len(file)' /\ begin' \in 0 .. fed' /\ begin' < fed'
      BY <1>1, <1>2, <1>5, <2>1 DEF Reads
    <3>2. QED
      BY <1>2, <1>3, <1>4, <2>1, <3>1 DEF Reads, WellTyped
  <2>2. CASE Puts
    <3>0. fed \in Places
      <4>1. main = "put" => begin < fed
        BY DEF WellTyped
      <4>2. QED
        BY <1>1, <1>5, <2>2, <4>1 DEF Puts, Places
    <3>1. inputQueue' \subseteq Places
      BY <2>2, <3>0 DEF Puts, WellTyped
    <3>2. QED
      BY <1>2, <1>3, <1>4, <2>2, <3>1 DEF Puts, WellTyped
  <2>3. CASE ReadsLater
    <3>1. later' \in 0 .. Len(file)' /\ later' # 0
      <4>1. later < Len(file) /\ later' = later + 1 /\ Len(file)' = Len(file)
        BY <1>2, <2>3 DEF ReadsLater
      <4>2. QED
        BY <1>1, <1>5, <4>1
    <3>2. QED
      BY <1>2, <1>3, <1>4, <2>3, <3>1 DEF ReadsLater, WellTyped
  <2>4. CASE PutsLater
    <3>1. later \in Places
      <4>1. main = "put query" => later # 0
        BY DEF WellTyped
      <4>2. later # 0
        BY <2>4, <4>1 DEF PutsLater
      <4>3. QED
        BY <1>1, <1>5, <4>2 DEF Places
    <3>2. QED
      BY <1>2, <1>3, <1>4, <2>4, <3>1 DEF PutsLater, WellTyped
  <2>5. CASE Advances
    <3>1. main' \notin {"put", "put query"}
      BY <2>5 DEF Advances, AdvancesTo
    <3>2. QED
      BY <1>2, <1>3, <1>4, <2>5, <3>1 DEF Advances, WellTyped
  <2>6. CASE StartsIndexers
    <3>1. indexer' \in [Workers -> Jobs(Terms)] /\ main' \notin {"put", "put query"}
      BY <2>6, JobsTyped DEF StartsIndexers
    <3>2. QED
      BY <1>2, <1>3, <1>4, <2>6, <3>1 DEF StartsIndexers, WellTyped
  <2>7. CASE StartsDetectors
    <3>1. /\ detector' \in [Workers -> Jobs(Pairs)]
          /\ source' \in [Workers -> {"index", "file"}]
          /\ later' \in 0 .. Len(file) /\ main' \notin {"put", "put query"}
      <4>1. source \in [Workers -> {"index", "file"}]
        BY DEF WellTyped
      <4>2. QED
        BY <1>5, <2>7, <4>1, JobsTyped DEF StartsDetectors
    <3>2. QED
      BY <1>2, <1>3, <1>4, <2>7, <3>1 DEF StartsDetectors, WellTyped
  <2>8. CASE StartsPartition
    <3>0. builder \in [Workers -> Jobs(Terms)] /\ gtfQueue \in [Workers -> SUBSET Places]
      BY DEF WellTyped
    <3>1. /\ builder' \in [Workers -> Jobs(Terms)] /\ indexer' \in [Workers -> Jobs(Terms)]
          /\ detector' \in [Workers -> Jobs(Pairs)]
          /\ gtfQueue' \in [Workers -> SUBSET Places]
      <4>1. builder' \in [Workers -> Jobs(Terms)]
        BY <2>8, <3>0, JobsTyped DEF StartsPartition
      <4>2. indexer' \in [Workers -> Jobs(Terms)] /\ detector' \in [Workers -> Jobs(Pairs)]
        BY <2>8, JobsTyped DEF StartsPartition
      <4>3. gtfQueue' \in [Workers -> SUBSET Places]
        BY <2>8, <3>0 DEF StartsPartition
      <4>4. QED
        BY <4>1, <4>2, <4>3
    <3>2. begin' \in 0 .. fed' /\ main' = "read"
      <4>1. begin' = fed /\ fed' = fed /\ main' = "read"
        BY <2>8 DEF StartsPartition
      <4>2. QED
        BY <1>1, <1>5, <4>1
    <3>3. lost' \subseteq Places
      BY <2>8 DEF StartsPartition, WellTyped
    <3>4. QED
      BY <1>2, <1>3, <1>4, <2>8, <3>1, <3>2, <3>3 DEF StartsPartition, WellTyped
  <2>9. QED
    BY <1>6, <2>1, <2>2, <2>3, <2>4, <2>5, <2>6, <2>7, <2>8 DEF MainSteps
<1>7. ASSUME NEW w \in Workers, BuilderSteps(w) PROVE WellTyped'
  <2> USE DEF BuilderSteps
  <2>1. UNCHANGED <<clock, indexing, querying, cloning>>
    BY <1>7
  <2>2. ASSUME /\ inputQueue' \subseteq Places /\ lost' \subseteq Places
               /\ builder' \in [Workers -> Jobs(Terms)] /\ gtf' \in [Terms -> Nat]
               /\ gtfQueue' \in [Workers -> SUBSET Places]
        PROVE  WellTyped'
    BY <1>2, <1>3, <1>4, <2>1, <2>2 DEF WellTyped
  <2>3. builder \in [Workers -> Jobs(Terms)]
    BY DEF WellTyped
  <2>4. ASSUME NEW k \in Places, TakesInput(w, k) PROVE WellTyped'
    <3>1. TermsOf(file[k]) \in SUBSET Terms
      BY DEF TermsOf
    <3>2. builder' \in [Workers -> Jobs(Terms)]
      BY <2>3, <2>4, <3>1, JobsTyped DEF TakesInput
    <3>3. QED
      BY <2>2, <2>4, <3>2 DEF TakesInput, WellTyped
  <2>5. ASSUME NEW t \in Terms, AddsTerm(w, t) PROVE WellTyped'
    <3>1. builder[w].block \in Places /\ builder[w].todo \subseteq Terms
      BY <2>5, AllTyped DEF AddsTerm
    <3>2. builder' \in [Workers -> Jobs(Terms)]
      BY <2>3, <2>5, <3>1, JobsTyped DEF AddsTerm
    <3>3. QED
      BY <2>2, <2>5, <3>2 DEF AddsTerm, WellTyped
  <2>6. CASE PutsCounted(w)
    <3>1. builder[w].block \in Places
      BY <2>6, AllTyped DEF PutsCounted
    <3>2. builder' \in [Workers -> Jobs(Terms)]
      BY <2>3, <2>6, JobsTyped DEF PutsCounted
    <3>3. gtfQueue' \in [Workers -> SUBSET Places]
      BY <2>6, <3>1 DEF PutsCounted, WellTyped
    <3>4. QED
      BY <2>2, <2>6, <3>2, <3>3 DEF PutsCounted, WellTyped
  <2>7. CASE BuilderStops(w)
    <3>1. builder' \in [Workers -> Jobs(Terms)]
      BY <2>3, <2>7, JobsTyped DEF BuilderStops
    <3>2. lost' \subseteq Places
      BY <2>7, AllTyped DEF BuilderStops, WellTyped
    <3>3. QED
      BY <2>2, <2>7, <3>1, <3>2 DEF BuilderStops, WellTyped
  <2>8. QED
    BY <1>7, <2>4, <2>5, <2>6, <2>7
<1>8. ASSUME NEW w \in Workers, IndexerSteps(w) PROVE WellTyped'
  <2> USE DEF IndexerSteps
  <2>1. UNCHANGED <<clock, builder, gtf, querying, cloning>>
    BY <1>8
  <2>2. ASSUME /\ inputQueue' \subseteq Places /\ lost' \subseteq Places
               /\ indexer' \in [Workers -> Jobs(Terms)]
               /\ gtfQueue' \in [Workers -> SUBSET Places]
               /\ prefix' \in [Places -> SUBSET Terms] /\ index' \in [Terms -> SUBSET Places]
               /\ detectQueue' \subseteq Places
        PROVE  WellTyped'
    BY <1>2, <1>3, <1>4, <2>1, <2>2 DEF WellTyped
  <2>3. indexer \in [Workers -> Jobs(Terms)]
    BY DEF WellTyped
  <2>4. ASSUME NEW k, Draws(k)
        PROVE  inputQueue' \subseteq Places /\ gtfQueue' \in [Workers -> SUBSET Places]
    <3>1. inputQueue \subseteq Places /\ gtfQueue \in [Workers -> SUBSET Places]
      BY DEF WellTyped
    <3>2. QED
      BY <2>4, <3>1, AllTyped DEF Draws
  <2>5. ASSUME NEW k \in Places, Skips(w, k) PROVE WellTyped'
    BY <2>2, <2>4, <2>5 DEF Skips, WellTyped
  <2>6. ASSUME NEW k \in Places, Prefixes(w, k) PROVE WellTyped'
    <3>1. indexer' \in [Workers -> Jobs(Terms)]
      BY <2>3, <2>6, JobsTyped, PrefixTyped DEF Prefixes
    <3>2. prefix' \in [Places -> SUBSET Terms]
      BY <2>6, PrefixTyped DEF Prefixes, WellTyped
    <3>3. QED
      BY <2>2, <2>4, <2>6, <3>1, <3>2 DEF Prefixes, WellTyped
  <2>7. ASSUME NEW t \in Terms, IndexesTerm(w, t) PROVE WellTyped'
    <3>1. indexer[w].block \in Places /\ indexer[w].todo \subseteq Terms
      BY <2>7, AllTyped DEF IndexesTerm
    <3>2. indexer' \in [Workers -> Jobs(Terms)]
      BY <2>3, <2>7, <3>1, JobsTyped DEF IndexesTerm
    <3>3. index' \in [Terms -> SUBSET Places]
      BY <2>7, <3>1 DEF IndexesTerm, WellTyped
    <3>4. QED
      BY <2>2, <2>7, <3>2, <3>3 DEF IndexesTerm, WellTyped
  <2>8. CASE PutsIndexed(w)
    <3>1. indexer[w].block \in Places
      BY <2>8, AllTyped DEF PutsIndexed
    <3>2. indexer' \in [Workers -> Jobs(Terms)]
      BY <2>3, <2>8, JobsTyped DEF PutsIndexed
    <3>3. QED
      BY <2>2, <2>8, <3>1, <3>2 DEF PutsIndexed, WellTyped
  <2>9. CASE IndexerStops(w)
    <3>1. indexer' \in [Workers -> Jobs(Terms)]
      BY <2>3, <2>9, JobsTyped DEF IndexerStops
    <3>2. QED
      BY <2>2, <2>9, <3>1 DEF IndexerStops, WellTyped
  <2>10. QED
    BY <1>8, <2>5, <2>6, <2>7, <2>8, <2>9
<1>9. ASSUME NEW w \in Workers, DetectorSteps(w) PROVE WellTyped'
  <2> USE DEF DetectorSteps
  <2>1. UNCHANGED <<clock, counting, indexer, prefix, index, writer, Handed>>
    BY <1>9
  <2>2. ASSUME /\ detectQueue' \subseteq Places /\ laterQueue' \subseteq Places
               /\ lost' \subseteq Places
               /\ detector' \in [Workers -> Jobs(Pairs)]
               /\ source' \in [Workers -> {"index", "file"}] /\ outputQueue' \subseteq Pairs
        PROVE  WellTyped'
    BY <1>2, <1>3, <1>4, <2>1, <2>2 DEF WellTyped
  <2>3. detector \in [Workers -> Jobs(Pairs)]
    BY DEF WellTyped
  <2>4. ASSUME NEW k \in Places, Queries(w, k) PROVE WellTyped'
    <3>1. DetectClones(k, prefix[k]) \in SUBSET Pairs
      BY DetectedTyped DEF WellTyped
    <3>2. detector' \in [Workers -> Jobs(Pairs)]
      BY <2>3, <2>4, <3>1, JobsTyped DEF Queries
    <3>3. QED
      BY <2>2, <2>4, <3>2 DEF Queries, WellTyped
  <2>5. ASSUME NEW k \in Places, QueriesLater(w, k) PROVE WellTyped'
    <3>1. DetectClones(k, PrefixOf(RankOf(k), file[k])) \in SUBSET Pairs
      BY DetectedTyped, PrefixTyped
    <3>2. detector' \in [Workers -> Jobs(Pairs)]
      BY <2>3, <2>5, <3>1, JobsTyped DEF QueriesLater
    <3>3. QED
      BY <2>2, <2>5, <3>2 DEF QueriesLater, WellTyped
  <2>6. ASSUME NEW k \in Places, SkipsLater(w, k) PROVE WellTyped'
    BY <2>2, <2>6 DEF SkipsLater, WellTyped
  <2>7. ASSUME NEW pair \in Pairs, PutsClone(w, pair) PROVE WellTyped'
    <3>1. detector[w].block \in Places /\ detector[w].todo \subseteq Pairs
      BY <2>7, AllTyped DEF PutsClone
    <3>2. detector' \in [Workers -> Jobs(Pairs)]
      BY <2>3, <2>7, <3>1, JobsTyped DEF PutsClone
    <3>3. QED
      BY <2>2, <2>7, <3>2 DEF PutsClone, WellTyped
  <2>8. CASE EndsQuery(w)
    <3>1. detector' \in [Workers -> Jobs(Pairs)]
      BY <2>3, <2>8, JobsTyped DEF EndsQuery
    <3>2. QED
      BY <2>2, <2>8, <3>1 DEF EndsQuery, WellTyped
  <2>9. CASE Switches(w)
    BY <2>2, <2>9 DEF Switches, WellTyped
  <2>10. CASE DetectorStops(w)
    <3>1. detector' \in [Workers -> Jobs(Pairs)]
      BY <2>3, <2>10, JobsTyped DEF DetectorStops
    <3>2. QED
      BY <2>2, <2>10, <3>1 DEF DetectorStops, WellTyped
  <2>11. QED
    BY <1>9, <2>4, <2>5, <2>6, <2>7, <2>8, <2>9, <2>10
<1>10. CASE WriterSteps
  <2>1. outputQueue' \subseteq Pairs /\ Handed' \subseteq Pairs
    BY <1>10 DEF WriterSteps, Writes, WellTyped
  <2>2. QED
    BY <1>2, <1>3, <1>4, <1>10, <2>1 DEF WriterSteps, WellTyped
<1>11. CASE UNCHANGED state
  BY <1>2, <1>3, <1>4, <1>11 DEF state, WellTyped
<1>12. QED
  BY <1>6, <1>7, <1>8, <1>9, <1>10, <1>11 DEF Steps

-----------------------------------------------------------------------------
(* The phases of a run: who may be at work while main is where.            *)

Querying == {"query", "put query", "poison queries"}
Feeding == {"read", "put", "poison", "join builders"}
Closed == {"join writer", "done", "unclosed"}

Phases ==
  /\ main \in Querying => options.partitioned /\ fed <= later
  /\ main = "put query" => fed < later
  /\ Detecting => /\ main \notin Feeding \cup {"join indexers"}
                  /\ Terminated(indexer) /\ Terminated(builder)
  /\ main \in Querying \cup {"join detectors"} => Detecting
  /\ ~ options.presorted /\ (\E w \in Workers : indexer[w].pc # "wait") =>
       main \notin Feeding /\ Terminated(builder)
  /\ main \in Closed => Terminated(detector) /\ fed = Len(file)
  /\ writer \in {"ended", "unflushed"} => outputQueue = {} /\ main \in Closed
  /\ main \in {"done", "unclosed"} => writer \in WriterOver
  /\ writer \in {"take", "failed"} => options.partitioned \/ Detecting
  /\ options.presorted => Terminated(builder) /\ ToIndex = {}
  /\ ~ options.partitioned =>
       /\ begin = 0 /\ later = 0
       /\ source = [w \in Workers |-> "index"]
       /\ main \notin {"read", "put", "failed"} => fed = Len(file)
  /\ endReached => fed = Len(file)
  /\ options.partitioned /\ main \in {"poison queries", "join detectors"} \cup Closed =>
       later = Len(file)

LEMMA PhasesInit == InitDetection => Phases
<1> SUFFICES ASSUME InitDetection PROVE Phases
  OBVIOUS
<1> USE DEF Chosen, AtRest
<1>1. /\ main = "read" /\ begin = 0 /\ ~ endReached /\ later = 0
      /\ writer = "wait" \/ (writer = "take" /\ options.partitioned)
      /\ source = [w \in Workers |-> "index"]
      /\ detector = [w \in Workers |-> Waiting]
      /\ gtfQueue = [w \in Workers |-> {}]
      /\ \/ ~ options.presorted /\ indexer = [w \in Workers |-> Waiting]
         \/ options.presorted /\ builder = [w \in Workers |-> Ended]
  <2>1. CASE Chosen(FALSE, FALSE) /\ Init /\ AtRest
    BY <2>1 DEF Init
  <2>2. CASE Chosen(TRUE, FALSE) /\ InitPreSorted /\ AtRest
    BY <2>2 DEF InitPreSorted
  <2>3. CASE Chosen(FALSE, TRUE) /\ InitPartitioned
    BY <2>3 DEF InitPartitioned
  <2>4. CASE Chosen(TRUE, TRUE) /\ InitGiven
    BY <2>4 DEF InitGiven
  <2>5. QED
    BY <2>1, <2>2, <2>3, <2>4 DEF InitDetection
<1>2. ~ Detecting
  BY <1>1 DEF Detecting, Waiting
<1>3. options.presorted => Terminated(builder)
  BY <1>1 DEF Terminated, Ended, Waiting
<1>4. ~ options.presorted => \A w \in Workers : indexer[w].pc = "wait"
  BY <1>1 DEF Waiting
<1>5. ToIndex = {}
  BY <1>1 DEF ToIndex
<1>6. QED
  BY <1>1, <1>2, <1>3, <1>4, <1>5 DEF Phases, Querying, Closed

(* Whoever is at work has been started and has not ended.                  *)
LEMMA AtWorkThen ==
  ASSUME Phases, NEW w \in Workers
  PROVE  /\ builder[w].pc \in {"take", "work"} =>
              /\ ~ Terminated(builder) /\ ~ Detecting /\ ~ options.presorted
              /\ \A v \in Workers : indexer[v].pc = "wait"
         /\ indexer[w].pc \in {"take", "work"} =>
              /\ ~ Terminated(indexer) /\ ~ Detecting
              /\ ~ options.presorted => main \notin Feeding /\ Terminated(builder)
         /\ detector[w].pc \in {"take", "work"} =>
              /\ ~ Terminated(detector) /\ Detecting
              /\ main \notin Feeding \cup Closed \cup {"join indexers"}
              /\ Terminated(indexer) /\ Terminated(builder)
              /\ writer \notin {"ended", "unflushed"}
<1>1. /\ builder[w].pc \in {"take", "work"} => ~ Terminated(builder)
      /\ indexer[w].pc \in {"take", "work"} => ~ Terminated(indexer)
      /\ detector[w].pc \in {"take", "work"} => ~ Terminated(detector) /\ Detecting
  BY DEF Terminated, Detecting
<1>2. QED
  BY <1>1 DEF Phases

(* A detector at work does not go back to wait.                            *)
LEMMA StillDetecting ==
  ASSUME WellTyped, Phases, NEW w \in Workers, DetectorSteps(w)
  PROVE  Detecting /\ Detecting' /\ detector[w].pc \in {"take", "work"}
<1>1. detector[w].pc \in {"take", "work"}
  BY DEF DetectorSteps, Queries, QueriesLater, SkipsLater, PutsClone, EndsQuery, Switches,
         DetectorStops, AtLater
<1>2. detector \in [Workers -> Jobs(Pairs)]
  BY DEF WellTyped
<1>3. \/ detector' = detector
      \/ \E k, S : detector' = [detector EXCEPT ![w] = At(k, S)]
      \/ detector' = [detector EXCEPT ![w] = Taking]
      \/ detector' = [detector EXCEPT ![w] = Ended]
      \/ detector' = [detector EXCEPT ![w] = Dead]
  BY DEF DetectorSteps, Queries, QueriesLater, SkipsLater, PutsClone, EndsQuery, Switches,
         DetectorStops
<1>4. detector'[w].pc # "wait"
  BY <1>1, <1>2, <1>3 DEF At, Taking, Ended, Dead
<1>5. QED
  BY <1>1, <1>4 DEF Detecting

LEMMA PhasesStep == WellTyped /\ Phases /\ (Steps \/ UNCHANGED state) => Phases'
<1> SUFFICES ASSUME WellTyped, Phases, Steps \/ UNCHANGED state PROVE Phases'
  OBVIOUS
<1> USE DEF choice, clock, counting, indexing, querying, cloning
<1>1. UNCHANGED choice
  BY DEF Steps, state
<1>2. Len(file) \in Nat
  BY FilesAssumption DEF WellTyped
<1>3. fed \in 0 .. Len(file) /\ begin \in 0 .. fed /\ later \in 0 .. Len(file)
  BY DEF WellTyped
<1>4. ASSUME MainSteps PROVE Phases'
  <2>1. CASE StartsIndexers
    <3>1. Detecting' = Detecting /\ ToIndex' = ToIndex
          /\ Terminated(builder)' = Terminated(builder)
          /\ Terminated(detector)' = Terminated(detector)
      BY <2>1 DEF StartsIndexers, Detecting, ToIndex, Terminated
    <3>2. main' = "join indexers" /\ main = "join builders" /\ ~ options.presorted
          /\ Terminated(builder)
      BY <2>1 DEF StartsIndexers
    <3>3. UNCHANGED <<fed, begin, later, source, endReached, writer, outputQueue>>
      BY <2>1 DEF StartsIndexers
    <3>4. QED
      BY <1>1, <3>1, <3>2, <3>3 DEF Phases, Querying, Feeding, Closed
  <2>2. CASE StartsDetectors
    <3>1. ToIndex' = ToIndex
          /\ Terminated(builder)' = Terminated(builder)
          /\ Terminated(indexer)' = Terminated(indexer)
          /\ Terminated(indexer)
      <4>1. UNCHANGED <<builder, gtfQueue, indexer>> /\ Terminated(indexer)
        BY <2>2 DEF StartsDetectors
      <4>2. QED
        BY <4>1 DEF ToIndex, Terminated
    <3>2. Terminated(builder)
      <4>1. PICK w \in Workers : TRUE
        BY PipelineAssumption
      <4>2. indexer[w].pc # "wait"
        BY <3>1, <4>1 DEF Terminated
      <4>3. QED
        BY <4>2 DEF Phases
    <3>3. /\ main = "join indexers" /\ UNCHANGED <<fed, begin, endReached, indexer, outputQueue>>
          /\ \/ /\ ~ options.partitioned /\ main' = "join detectors" /\ UNCHANGED <<later, source>>
                /\ writer' = "take"
             \/ /\ options.partitioned /\ main' = "query" /\ later' = fed
                /\ writer' = writer
      BY <2>2 DEF StartsDetectors
    <3>4. fed <= fed
      BY <1>2, <1>3
    <3>5. Detecting'
      <4>1. PICK w \in Workers : TRUE
        BY PipelineAssumption
      <4>2. detector' = [v \in Workers |-> Taking]
        BY <2>2 DEF StartsDetectors
      <4>3. detector'[w].pc # "wait"
        BY <4>1, <4>2 DEF Taking
      <4>4. QED
        BY <4>3 DEF Detecting
    <3>6. QED
      BY <1>1, <3>1, <3>2, <3>3, <3>4, <3>5 DEF Phases, Querying, Feeding, Closed
  <2>3. CASE StartsPartition
    <3>1. ~ Detecting'
      BY <2>3 DEF StartsPartition, Detecting, Waiting
    <3>2. ~ options.presorted => \A w \in Workers : indexer'[w].pc = "wait"
      <4>1. ~ options.presorted => indexer' = [w \in Workers |-> Waiting]
        BY <2>3 DEF StartsPartition
      <4>2. QED
        BY <4>1 DEF Waiting
    <3>3. options.presorted => UNCHANGED <<builder, gtfQueue>>
      BY <2>3 DEF StartsPartition
    <3>4. options.presorted => Terminated(builder)' /\ ToIndex' = {}
      <4>1. options.presorted => Terminated(builder) /\ ToIndex = {}
        BY DEF Phases
      <4>2. options.presorted =>
              Terminated(builder)' = Terminated(builder) /\ ToIndex' = ToIndex
        BY <3>3 DEF Terminated, ToIndex
      <4>3. QED
        BY <4>1, <4>2
    <3>5. /\ main' = "read" /\ options.partitioned /\ main = "join detectors"
          /\ UNCHANGED <<fed, endReached, writer, outputQueue>>
      BY <2>3 DEF StartsPartition
    <3>6. QED
      BY <1>1, <3>1, <3>2, <3>4, <3>5 DEF Phases, Querying, Feeding, Closed
  <2>4. ASSUME UNCHANGED <<begin, counting, indexing, detector, source, cloning>>
        PROVE  /\ Detecting' = Detecting /\ ToIndex' = ToIndex
               /\ Terminated(builder)' = Terminated(builder)
               /\ Terminated(indexer)' = Terminated(indexer)
               /\ Terminated(detector)' = Terminated(detector)
    BY <2>4 DEF Detecting, ToIndex, Terminated
  <2>5. ASSUME Reads \/ Puts \/ ReadsLater \/ PutsLater
        PROVE  /\ Detecting' = Detecting /\ ToIndex' = ToIndex
               /\ Terminated(builder)' = Terminated(builder)
               /\ Terminated(indexer)' = Terminated(indexer)
               /\ Terminated(detector)' = Terminated(detector)
    BY <2>5 DEF Reads, Puts, ReadsLater, PutsLater, Detecting, ToIndex, Terminated
  <2>6. CASE Reads
    <3>1. main = "read" /\ main' = "put" /\ fed < Len(file)
          /\ UNCHANGED <<begin, later, endReached, indexer, source, writer, outputQueue>>
      BY <2>6 DEF Reads
    <3>2. ~ endReached
      BY <1>2, <1>3, <3>1 DEF Phases
    <3>3. QED
      BY <1>1, <2>5, <2>6, <3>1, <3>2 DEF Phases, Querying, Feeding, Closed
  <2>7. CASE Puts
    <3>1. main = "put" /\ main' = "read"
          /\ UNCHANGED <<fed, begin, later, endReached, indexer, source, writer, outputQueue>>
      BY <2>7 DEF Puts
    <3>2. QED
      BY <1>1, <2>5, <2>7, <3>1 DEF Phases, Querying, Feeding, Closed
  <2>8. CASE ReadsLater
    <3>1. main = "query" /\ main' = "put query" /\ later' = later + 1 /\ options.partitioned
          /\ UNCHANGED <<fed, begin, endReached, indexer, source, writer, outputQueue>>
      BY <2>8 DEF ReadsLater
    <3>2. fed < later' /\ fed <= later'
      <4>1. fed <= later
        BY <3>1 DEF Phases, Querying
      <4>2. later' = later + 1
        BY <3>1
      <4>3. QED
        BY <1>2, <1>3, <4>1, <4>2
    <3>3. main' \notin Closed \cup {"poison queries", "join detectors"}
      BY <3>1 DEF Closed
    <3>4. main \notin Feeding \cup Closed \cup {"join indexers"}
      BY <3>1 DEF Feeding, Closed
    <3>5. main' \notin Feeding \cup {"join indexers"}
      BY <3>1 DEF Feeding
    <3>6. main \in Querying
      BY <3>1 DEF Querying
    <3>7. /\ Detecting' = Detecting /\ ToIndex' = ToIndex
          /\ Terminated(builder)' = Terminated(builder)
          /\ Terminated(indexer)' = Terminated(indexer)
          /\ Terminated(detector)' = Terminated(detector)
      BY <2>5, <2>8
    <3>8. QED
      BY <1>1, <3>1, <3>2, <3>3, <3>4, <3>5, <3>6, <3>7 DEF Phases
  <2>9. CASE PutsLater
    <3>1. main = "put query" /\ main' = "query" /\ options.partitioned
          /\ UNCHANGED <<fed, begin, later, endReached, indexer, source, writer, outputQueue>>
      BY <2>9 DEF PutsLater
    <3>2. main' \notin Closed \cup {"poison queries", "join detectors"} /\ main' # "put query"
      BY <3>1 DEF Closed
    <3>3. fed <= later /\ Detecting
      BY <3>1 DEF Phases, Querying
    <3>4. /\ main \notin Closed /\ main \notin Feeding \cup {"join indexers"}
          /\ main' \notin Feeding \cup {"join indexers"}
      BY <3>1 DEF Closed, Feeding
    <3>5. /\ Detecting' = Detecting /\ ToIndex' = ToIndex
          /\ Terminated(builder)' = Terminated(builder)
          /\ Terminated(indexer)' = Terminated(indexer)
          /\ Terminated(detector)' = Terminated(detector)
      BY <2>5, <2>9
    <3>6. fed' <= later' /\ options'.partitioned /\ Detecting'
      BY <1>1, <3>1, <3>3, <3>5
    <3>7. QED
      BY <1>1, <3>1, <3>2, <3>4, <3>5, <3>6 DEF Phases
  <2>10. CASE Advances
    <3>1. UNCHANGED <<fed, begin, later, indexer, source, writer, outputQueue>>
      BY <2>10 DEF Advances
    <3>2. /\ Detecting' = Detecting /\ ToIndex' = ToIndex
          /\ Terminated(builder)' = Terminated(builder)
          /\ Terminated(indexer)' = Terminated(indexer)
          /\ Terminated(detector)' = Terminated(detector)
      BY <2>4, <2>10 DEF Advances
    <3>3. AdvancesTo(main')
      BY <2>10 DEF Advances
    <3>4. endReached' => fed = Len(file)
      BY <3>3 DEF AdvancesTo, Phases
    <3>5. main' # "put query" /\ main' \notin {"read", "put"}
          /\ (main' \in Querying => options.partitioned /\ fed <= later)
      BY <3>3 DEF AdvancesTo, Phases, Querying
    <3>6. /\ main' \in Feeding \cup {"join indexers"} => main \in Feeding
          /\ main' = "join indexers" => options.presorted
      BY <3>3 DEF AdvancesTo, Feeding
    <3>7. main' \in Closed => Terminated(detector) /\ fed = Len(file)
      BY <3>3 DEF AdvancesTo, Phases, Closed, Querying
    <3>8. main \in Closed => main' \in Closed
      BY <3>3 DEF AdvancesTo, Closed
    <3>9. ~ options.partitioned /\ main' # "failed" => fed = Len(file)
      BY <3>3 DEF AdvancesTo, Phases, Querying
    <3>10. options.partitioned /\ main' \in {"poison queries", "join detectors"} \cup Closed =>
             later = Len(file)
      BY <3>3 DEF AdvancesTo, Phases, Closed
    <3>11. main' \in Querying \cup {"join detectors"} =>
             main \in Querying \cup {"join detectors"}
      BY <3>3 DEF AdvancesTo, Querying
    <3>12. /\ main' \in Querying => options.partitioned /\ fed <= later
           /\ main' = "put query" => fed < later
      BY <3>5
    <3>13. main' \in {"done", "unclosed"} => writer' \in WriterOver
      BY <3>1, <3>3 DEF AdvancesTo
    <3>14. QED
      BY <1>1, <3>1, <3>2, <3>4, <3>5, <3>6, <3>7, <3>8, <3>9, <3>10, <3>11, <3>13 DEF Phases
  <2>11. QED
    BY <1>4, <2>1, <2>2, <2>3, <2>6, <2>7, <2>8, <2>9, <2>10 DEF MainSteps
<1>5. ASSUME NEW w \in Workers, BuilderSteps(w) PROVE Phases'
  <2>1. builder[w].pc \in {"take", "work"}
    BY <1>5 DEF BuilderSteps, TakesInput, AddsTerm, PutsCounted, BuilderStops
  <2>2. /\ ~ Detecting /\ ~ options.presorted
        /\ \A v \in Workers : indexer[v].pc = "wait"
    BY <2>1, AtWorkThen
  <2>3. UNCHANGED <<clock, indexing, querying, cloning>>
    BY <1>5 DEF BuilderSteps
  <2>4. Detecting' = Detecting /\ Terminated(detector)' = Terminated(detector)
    BY <2>3 DEF Detecting, Terminated
  <2>5. QED
    BY <1>1, <2>2, <2>3, <2>4 DEF Phases
<1>6. ASSUME NEW w \in Workers, IndexerSteps(w) PROVE Phases'
  <2>1. indexer[w].pc \in {"take", "work"}
    BY <1>6 DEF IndexerSteps, Skips, Prefixes, IndexesTerm, PutsIndexed, IndexerStops
  <2>2. ~ Detecting /\ (~ options.presorted => main \notin Feeding /\ Terminated(builder))
    BY <2>1, AtWorkThen
  <2>3. UNCHANGED <<clock, builder, gtf, querying, cloning>>
    BY <1>6 DEF IndexerSteps
  <2>4. options.presorted => gtfQueue' = gtfQueue
    BY <1>6 DEF IndexerSteps, Skips, Prefixes, IndexesTerm, PutsIndexed, IndexerStops, Draws
  <2>5. Detecting' = Detecting /\ Terminated(detector)' = Terminated(detector)
        /\ Terminated(builder)' = Terminated(builder)
        /\ (options.presorted => ToIndex' = ToIndex)
    BY <2>3, <2>4 DEF Detecting, Terminated, ToIndex
  <2>6. QED
    BY <1>1, <2>2, <2>3, <2>5 DEF Phases
<1>7. ASSUME NEW w \in Workers, DetectorSteps(w) PROVE Phases'
  <2>1. detector[w].pc \in {"take", "work"}
    BY <1>7, StillDetecting
  <2>2. /\ main \notin Feeding \cup Closed \cup {"join indexers"}
        /\ Terminated(indexer) /\ Terminated(builder)
        /\ writer \notin {"ended", "unflushed"}
    BY <2>1, AtWorkThen
  <2>3. UNCHANGED <<clock, counting, indexer, prefix, index, writer, Handed>>
    BY <1>7 DEF DetectorSteps
  <2>4. ~ options.partitioned => source' = source
    BY <1>7 DEF DetectorSteps, Queries, QueriesLater, SkipsLater, PutsClone, EndsQuery, Switches,
                DetectorStops
  <2>5. ToIndex' = ToIndex
        /\ Terminated(builder)' = Terminated(builder)
        /\ Terminated(indexer)' = Terminated(indexer)
    BY <2>3 DEF Terminated, ToIndex
  <2>6. Detecting'
    BY <1>7, StillDetecting
  <2>7. QED
    BY <1>1, <2>2, <2>3, <2>4, <2>5, <2>6 DEF Phases
<1>8. CASE WriterSteps
  <2>1. UNCHANGED <<clock, counting, indexing, querying>>
    BY <1>8 DEF WriterSteps
  <2>2. writer' \in {"ended", "unflushed"} => outputQueue' = {} /\ main \in Closed
    BY <1>8 DEF WriterSteps, Writes, Closed
  <2>3. /\ Detecting' = Detecting /\ ToIndex' = ToIndex
        /\ Terminated(builder)' = Terminated(builder)
        /\ Terminated(indexer)' = Terminated(indexer)
        /\ Terminated(detector)' = Terminated(detector)
    BY <2>1 DEF Detecting, ToIndex, Terminated
  <2>4. writer = "take" /\ main \notin {"done", "unclosed"}
    <3>1. writer = "take"
      BY <1>8 DEF WriterSteps
    <3>2. QED
      BY <3>1 DEF Phases, WriterOver
  <2>5. QED
    BY <1>1, <2>1, <2>2, <2>3, <2>4 DEF Phases, clock
<1>9. CASE UNCHANGED state
  <2>1. /\ Detecting' = Detecting /\ ToIndex' = ToIndex
        /\ Terminated(builder)' = Terminated(builder)
        /\ Terminated(indexer)' = Terminated(indexer)
        /\ Terminated(detector)' = Terminated(detector)
    BY <1>9 DEF state, Detecting, ToIndex, Terminated
  <2>2. QED
    BY <1>1, <1>9, <2>1 DEF state, Phases
<1>10. QED
  BY <1>4, <1>5, <1>6, <1>7, <1>8, <1>9 DEF Steps

-----------------------------------------------------------------------------
(* The prefix filter, for blocks that may each have an order of their own. *)

Names == INSTANCE Blocks_proofs WITH Rank <- TermOrder

LEMMA NamesAreOrdered == Names!TermsAssumption
<1>1. Cardinality(Terms) \in Nat
  BY BlocksAssumption, FS_CardinalityType
<1>2. 0 .. (Cardinality(Terms) - 1) \subseteq Nat
  BY <1>1
<1>3. TermOrder \in [Terms -> Nat]
  BY <1>2, BlocksAssumption
<1>4. QED
  BY <1>3, BlocksAssumption DEF Names!TermsAssumption, Names!IsFiniteSet, IsFiniteSet

LEMMA SameByName ==
  ASSUME NEW b
  PROVE  /\ Block!IsBlock(b) => Names!IsBlock(b)
         /\ Names!TermsOf(b) = ByName!TermsOf(b)
         /\ Names!PrefixLength(b, threshold) = ByName!PrefixLength(b, threshold)
         /\ \A E : Names!Cardinality(Names!TokensOf(b, E)) = Cardinality(ByName!TokensOf(b, E))
<1>1. Names!numTokens(b) = Block!numTokens(b)
  BY DEF Names!numTokens, Block!numTokens, Names!Cardinality, Block!Cardinality,
         Names!Tokens, Block!Tokens, Names!TokensOf, Block!TokensOf
<1>2. Block!IsBlock(b) => Names!IsBlock(b)
  BY <1>1 DEF Names!IsBlock, Block!IsBlock, Names!TermsOf, Block!TermsOf
<1>3. Names!TermsOf(b) = ByName!TermsOf(b)
  BY DEF Names!TermsOf, ByName!TermsOf
<1>4. Names!PrefixLength(b, threshold) = ByName!PrefixLength(b, threshold)
  BY DEF Names!PrefixLength, ByName!PrefixLength, Names!numTokens, ByName!numTokens,
         Names!Cardinality, ByName!Cardinality, Names!Tokens, ByName!Tokens, Names!TokensOf,
         ByName!TokensOf
<1>5. \A E : Names!Cardinality(Names!TokensOf(b, E)) = Cardinality(ByName!TokensOf(b, E))
  BY DEF Names!Cardinality, Cardinality, Names!TokensOf, ByName!TokensOf
<1>6. QED
  BY <1>2, <1>3, <1>4, <1>5

LEMMA SameThreshold ==
  /\ Names!IsThreshold(threshold)
  /\ ByName!IsPositive(threshold) => Names!IsPositive(threshold)
<1>1. Names!IsThreshold(threshold)
  BY BlocksAssumption DEF Block!IsThreshold, Names!IsThreshold
<1>2. ByName!IsPositive(threshold) => Names!IsPositive(threshold)
  BY DEF ByName!IsPositive, Names!IsPositive
<1>3. QED
  BY <1>1, <1>2

(* Of some terms, one comes first.                                         *)
LEMMA SomeTermFirst ==
  ASSUME NEW rank \in [Terms -> Nat], NEW T \in SUBSET Terms, T # {}
  PROVE  \E t \in T : T \cap EarlyTerms(rank, t) = {}
<1> DEFINE Ranks == {rank[t] : t \in T}
<1>1. Ranks \in SUBSET Nat /\ Ranks # {}
  OBVIOUS
<1>2. PICK n \in Ranks : \A m \in Ranks : <<m, n>> \notin OpToRel(<, Nat)
  BY <1>1, NatLessThanWellFounded, WFMin
<1>3. PICK t \in T : rank[t] = n
  BY <1>2
<1>4. \A u \in T : ~ (rank[u] < rank[t])
  <2>1. TAKE u \in T
  <2>2. rank[u] \in Ranks /\ rank[u] \in Nat /\ rank[t] \in Nat
    OBVIOUS
  <2>3. QED
    BY <1>2, <1>3, <2>2 DEF OpToRel
<1>5. QED
  BY <1>4 DEF EarlyTerms

LEMMA BlocksHaveTerm ==
  ASSUME NEW b, Block!IsBlock(b), NEW rank \in [Terms -> Nat]
  PROVE  PrefixOf(rank, b) # {}
<1>1. Names!IsBlock(b) /\ Names!IsThreshold(threshold)
  BY SameByName, SameThreshold
<1>2. Names!TermsOf(b) \in SUBSET Terms /\ Names!TermsOf(b) # {}
  BY <1>1 DEF Names!IsBlock, Names!TermsOf
<1>3. PICK t \in Names!TermsOf(b) : Names!TermsOf(b) \cap EarlyTerms(rank, t) = {}
  BY <1>2, SomeTermFirst
<1>4. EarlyTerms(rank, t) \in SUBSET Terms
  BY DEF EarlyTerms
<1>5. Names!Cardinality(Names!TokensOf(b, EarlyTerms(rank, t)))
        < Names!PrefixLength(b, threshold)
  BY <1>1, <1>3, <1>4, NamesAreOrdered, Names!NothingComesEarly DEF Names!NothingComesEarly
<1>6. t \in PrefixOf(rank, b)
  BY <1>3, <1>5, SameByName DEF PrefixOf
<1>7. QED
  BY <1>6

(* Clones have a prefix term in common if their orders agree on the terms
   that both have.                                                         *)
LEMMA ClonesHaveTerm ==
  ASSUME NEW b, Block!IsBlock(b), NEW c, Block!IsBlock(c),
         ByName!IsPositive(threshold), ByName!Similar(b, c, threshold),
         NEW rank \in [Terms -> Nat], NEW order \in [Terms -> Nat],
         \A t, u \in TermsOf(b) \cap TermsOf(c) : rank[t] < rank[u] => order[t] < order[u]
  PROVE  \E t \in PrefixOf(rank, b) : t \in PrefixOf(order, c)
<1> DEFINE T == Names!TermsOf(b) \cap Names!TermsOf(c)
<1>1. /\ Names!IsBlock(b) /\ Names!IsBlock(c) /\ Names!IsThreshold(threshold)
      /\ Names!IsPositive(threshold)
  BY SameByName, SameThreshold
<1>2. Names!Similar(b, c, threshold)
  BY DEF Names!Similar, ByName!Similar, Names!numShared, ByName!numShared, Names!Shared,
         ByName!Shared, Names!Larger, ByName!Larger, Names!numTokens, ByName!numTokens,
         Names!Tokens, ByName!Tokens, Names!TokensOf, ByName!TokensOf, Names!Cardinality,
         ByName!Cardinality
<1>3. /\ T # {}
      /\ \A E \in SUBSET Terms : T \cap E = {} =>
           /\ Names!Cardinality(Names!TokensOf(b, E)) < Names!PrefixLength(b, threshold)
           /\ Names!Cardinality(Names!TokensOf(c, E)) < Names!PrefixLength(c, threshold)
  BY <1>1, <1>2, NamesAreOrdered, Names!SharedComeEarly DEF Names!SharedComeEarly
<1>4. T \in SUBSET Terms /\ T = TermsOf(b) \cap TermsOf(c)
  BY DEF Names!TermsOf, TermsOf
<1> HIDE DEF T
<1>5. PICK t \in T : T \cap EarlyTerms(order, t) = {}
  BY <1>3, <1>4, SomeTermFirst
<1>6. T \cap EarlyTerms(rank, t) = {}
  BY <1>4, <1>5 DEF EarlyTerms
<1>7. EarlyTerms(order, t) \in SUBSET Terms /\ EarlyTerms(rank, t) \in SUBSET Terms
  BY DEF EarlyTerms
<1>8. /\ Names!Cardinality(Names!TokensOf(b, EarlyTerms(rank, t)))
           < Names!PrefixLength(b, threshold)
      /\ Names!Cardinality(Names!TokensOf(c, EarlyTerms(order, t)))
           < Names!PrefixLength(c, threshold)
  BY <1>3, <1>5, <1>6, <1>7
<1>9. t \in Names!TermsOf(b) /\ t \in Names!TermsOf(c)
  BY DEF T
<1>10. t \in PrefixOf(rank, b) /\ t \in PrefixOf(order, c)
  BY <1>8, <1>9, SameByName DEF PrefixOf
<1>11. QED
  BY <1>10

(* The orders of the blocks of a run.                                      *)
LEMMA RanksTyped ==
  ASSUME WellTyped, NEW k \in Places
  PROVE  /\ RankOf(k) \in [Terms -> Nat]
         /\ ~ Unreadable(file[k]) => Block!IsBlock(file[k])
<1>1. file \in Files /\ gtf \in [Terms -> Nat]
  BY DEF WellTyped
<1>2. file[k].order \in [Terms -> Nat]
  BY <1>1, OrdersAssumption DEF Places
<1>3. \A t \in Terms : SortRank[t] \in Nat
  <2>1. TAKE t \in Terms
  <2>2. gtf[t] \in Nat
    BY <1>1
  <2>3. TermOrder[t] \in Nat
    BY NamesAreOrdered DEF Names!TermsAssumption
  <2>4. PICK n \in Nat : n = Cardinality(Terms)
    BY BlocksAssumption, FS_CardinalityType
  <2>5. SortRank[t] = gtf[t] * n + TermOrder[t]
    BY <2>4 DEF SortRank
  <2>6. gtf[t] * n \in Nat
    BY <2>2, <2>4
  <2>7. QED
    BY <2>3, <2>5, <2>6
<1>4. SortRank \in [Terms -> Nat]
  BY <1>3 DEF SortRank
<1>5. ~ Unreadable(file[k]) => Block!IsBlock(file[k])
  BY <1>1, BlocksAssumption DEF Places
<1>6. QED
  BY <1>2, <1>4, <1>5 DEF RankOf

LEMMA PrefixKept ==
  ASSUME UNCHANGED <<file, options, gtf>>, NEW k
  PROVE  PrefixOf(RankOf(k), file[k])' = PrefixOf(RankOf(k), file[k])
BY DEF PrefixOf, EarlyTerms, RankOf, SortRank, ByName!PrefixLength, ByName!numTokens,
       ByName!TermsOf, ByName!Tokens, ByName!TokensOf

-----------------------------------------------------------------------------
(* The index.  What main has put of the partition is on its way into it:   *)
(* in the input queue, at a builder, counted, or with a prefix (or lost, or
   not approved); and whatever is in it is of the partition.               *)

InPartition == {k \in begin + 1 .. fed : ~ (k = fed /\ main = "put")}

InputRight ==
  /\ inputQueue \subseteq InPartition
  /\ \A k \in ToIndex : k \in InPartition /\ ~ Unreadable(file[k])
  /\ \A w \in Workers : builder[w].pc = "work" =>
       builder[w].block \in InPartition /\ ~ Unreadable(file[builder[w].block])

PrefixesRight ==
  \A k \in Places : prefix[k] # {} =>
    /\ k \in InPartition
    /\ Approved(file[k]) /\ ~ Unreadable(file[k])
    /\ options.presorted \/ Terminated(builder)
    /\ prefix[k] = PrefixOf(RankOf(k), file[k])
    /\ \A t \in prefix[k] : k \in index[t] \/ StillToIndex(k, t)

IndexRight ==
  /\ \A t \in Terms : \A k \in index[t] : prefix[k] # {}
  /\ \A w \in Workers : indexer[w].pc = "work" => prefix[indexer[w].block] # {}
  /\ \A k \in detectQueue : prefix[k] # {}

NoneMissing ==
  \A k \in InPartition :
    \/ k \in inputQueue \cup lost
    \/ WorksOn(builder, k)
    \/ k \in ToIndex
    \/ ~ Approved(file[k])
    \/ prefix[k] # {}

IndexFilled == InputRight /\ PrefixesRight /\ IndexRight /\ NoneMissing

LEMMA IndexFilledInit == InitDetection => IndexFilled
<1> SUFFICES ASSUME InitDetection PROVE IndexFilled
  OBVIOUS
<1> USE DEF Chosen, AtRest
<1>1. /\ begin = 0 /\ fed = 0 /\ main = "read"
      /\ inputQueue = {} /\ detectQueue = {} /\ gtfQueue = [w \in Workers |-> {}]
      /\ \/ builder = [w \in Workers |-> Taking] \/ builder = [w \in Workers |-> Ended]
      /\ \/ indexer = [w \in Workers |-> Taking] \/ indexer = [w \in Workers |-> Waiting]
      /\ prefix = [k \in Places |-> {}] /\ index = [t \in Terms |-> {}]
  <2>1. CASE Chosen(FALSE, FALSE) /\ Init /\ AtRest
    BY <2>1 DEF Init, Places
  <2>2. CASE Chosen(TRUE, FALSE) /\ InitPreSorted /\ AtRest
    BY <2>2 DEF InitPreSorted, Places
  <2>3. CASE Chosen(FALSE, TRUE) /\ InitPartitioned
    BY <2>3 DEF InitPartitioned, Places
  <2>4. CASE Chosen(TRUE, TRUE) /\ InitGiven
    BY <2>4 DEF InitGiven, Places
  <2>5. QED
    BY <2>1, <2>2, <2>3, <2>4 DEF InitDetection
<1>2. InPartition = {} /\ ToIndex = {}
  BY <1>1 DEF InPartition, ToIndex
<1>3. \A w \in Workers : builder[w].pc # "work" /\ indexer[w].pc # "work"
  BY <1>1 DEF Taking, Ended, Waiting
<1>4. QED
  BY <1>1, <1>2, <1>3 DEF IndexFilled, InputRight, PrefixesRight, IndexRight, NoneMissing

(* Only Put and the next partition change what the partition is.           *)
LEMMA PartitionKept ==
  ASSUME WellTyped, Steps \/ UNCHANGED state, ~ StartsPartition
  PROVE  InPartition' = InPartition \cup (IF Puts THEN {fed} ELSE {})
<1> USE DEF choice, clock, counting, indexing, querying, cloning
<1>1. Len(file) \in Nat
  BY FilesAssumption DEF WellTyped
<1>2. fed \in 0 .. Len(file) /\ begin \in 0 .. fed /\ (main = "put" => begin < fed)
  BY DEF WellTyped
<1>3. fed \in Nat /\ begin \in Nat
  BY <1>1, <1>2
<1>4. CASE Puts
  <2>1. main = "put" /\ main' = "read" /\ fed' = fed /\ begin' = begin /\ begin < fed
    BY <1>2, <1>4 DEF Puts
  <2>2. InPartition' = begin + 1 .. fed
    BY <2>1 DEF InPartition
  <2>3. InPartition = (begin + 1 .. fed) \ {fed}
    BY <2>1 DEF InPartition
  <2>4. fed \in begin + 1 .. fed
    BY <1>3, <2>1
  <2>5. QED
    BY <1>4, <2>2, <2>3, <2>4
<1>5. CASE Reads
  <2>1. main = "read" /\ main' = "put" /\ fed' = fed + 1 /\ begin' = begin /\ ~ Puts
    BY <1>5 DEF Reads, Puts
  <2>2. InPartition' = {k \in begin + 1 .. fed + 1 : k # fed + 1}
    BY <2>1 DEF InPartition
  <2>3. InPartition = begin + 1 .. fed
    BY <2>1 DEF InPartition
  <2>4. {k \in begin + 1 .. fed + 1 : k # fed + 1} = begin + 1 .. fed
    BY <1>3
  <2>5. QED
    BY <2>1, <2>2, <2>3, <2>4
<1>6. CASE ~ Puts /\ ~ Reads
  <2>1. UNCHANGED <<begin, fed>> /\ (main' = "put" <=> main = "put")
    <3>1. CASE MainSteps
      BY <1>6, <3>1 DEF MainSteps, ReadsLater, PutsLater, Advances, AdvancesTo, StartsIndexers,
                         StartsDetectors
    <3>2. CASE ~ MainSteps
      BY <3>2 DEF Steps, BuilderSteps, IndexerSteps, DetectorSteps, WriterSteps, state
    <3>3. QED
      BY <3>1, <3>2
  <2>2. QED
    BY <1>6, <2>1 DEF InPartition
<1>7. QED
  BY <1>4, <1>5, <1>6

(* A partition starts with nothing in it.                                  *)
LEMMA PartitionStarts ==
  ASSUME WellTyped, Phases, StartsPartition
  PROVE  /\ begin' = fed /\ fed' = fed /\ fed \in Nat
         /\ begin' + 1 .. fed' = {}
         /\ inputQueue' = {} /\ detectQueue' = {} /\ laterQueue' = {} /\ ToIndex' = {}
         /\ \A w \in Workers : /\ builder'[w].pc # "work" /\ indexer'[w].pc # "work"
                              /\ detector'[w].pc = "wait" /\ detector'[w].todo = {}
<1>1. Len(file) \in Nat
  BY FilesAssumption DEF WellTyped
<1>2. fed \in 0 .. Len(file)
  BY DEF WellTyped
<1>3. fed \in Nat
  BY <1>1, <1>2
<1>4. fed + 1 .. fed = {}
  BY <1>3
<1>5. ToIndex' = {}
  <2>1. options.presorted => gtfQueue' = gtfQueue /\ ToIndex = {}
    BY DEF StartsPartition, Phases
  <2>2. ~ options.presorted => gtfQueue' = [w \in Workers |-> {}]
    BY DEF StartsPartition
  <2>3. QED
    BY <2>1, <2>2 DEF ToIndex
<1>6. \A w \in Workers : builder'[w].pc # "work"
  <2>1. options.presorted => builder' = builder /\ Terminated(builder)
    BY DEF StartsPartition, Phases
  <2>2. ~ options.presorted => builder' = [w \in Workers |-> Taking]
    BY DEF StartsPartition
  <2>3. QED
    BY <2>1, <2>2 DEF Terminated, Taking
<1>7. \A w \in Workers : indexer'[w].pc # "work"
  <2>1. \/ indexer' = [w \in Workers |-> Taking] \/ indexer' = [w \in Workers |-> Waiting]
    BY DEF StartsPartition
  <2>2. QED
    BY <2>1 DEF Taking, Waiting
<1>8. \A w \in Workers : detector'[w].pc = "wait" /\ detector'[w].todo = {}
  <2>1. detector' = [w \in Workers |-> Waiting]
    BY DEF StartsPartition
  <2>2. QED
    BY <2>1 DEF Waiting
<1>9. /\ inputQueue' = {} /\ detectQueue' = {} /\ laterQueue' = {}
      /\ begin' = fed /\ fed' = fed
  BY DEF StartsPartition
<1>10. QED
  BY <1>3, <1>4, <1>5, <1>6, <1>7, <1>8, <1>9

LEMMA IndexFilledKept ==
  ASSUME IndexFilled, UNCHANGED <<choice, counting, indexer, prefix, index>>,
         InPartition' = InPartition, detectQueue' \subseteq detectQueue, lost \subseteq lost'
  PROVE  IndexFilled'
<1> USE DEF choice, counting
<1>1. ToIndex' = ToIndex /\ Places' = Places
  BY DEF ToIndex, Places
<1>2. Terminated(builder)' = Terminated(builder)
  BY DEF Terminated
<1>3. \A k : /\ WorksOn(builder, k)' = WorksOn(builder, k)
             /\ \A t : StillToIndex(k, t)' = StillToIndex(k, t)
             /\ PrefixOf(RankOf(k), file[k])' = PrefixOf(RankOf(k), file[k])
             /\ Unreadable(file[k])' = Unreadable(file[k])
             /\ Approved(file[k])' = Approved(file[k])
  BY PrefixKept DEF WorksOn, StillToIndex, Unreadable, TermsOf, Approved
<1>4. InputRight'
  BY <1>1, <1>3 DEF IndexFilled, InputRight
<1>5. PrefixesRight'
  BY <1>1, <1>2, <1>3 DEF IndexFilled, PrefixesRight
<1>6. IndexRight'
  BY DEF IndexFilled, IndexRight
<1>7. NoneMissing'
  BY <1>1, <1>3 DEF IndexFilled, NoneMissing
<1>8. QED
  BY <1>4, <1>5, <1>6, <1>7 DEF IndexFilled

LEMMA IndexFilledMain ==
  ASSUME WellTyped, Phases, IndexFilled, MainSteps, UNCHANGED choice
  PROVE  IndexFilled'
<1> USE DEF choice, clock, counting, indexing, querying, cloning
<1>1. Steps
  BY DEF Steps
<1>2. ASSUME NEW k
      PROVE  /\ Unreadable(file[k])' = Unreadable(file[k])
             /\ Approved(file[k])' = Approved(file[k])
  BY DEF Unreadable, TermsOf, Approved
<1>3. Places' = Places
  BY DEF Places
<1>4. CASE Reads \/ ReadsLater \/ PutsLater \/ Advances \/ StartsDetectors
  <2>1. ~ Puts /\ ~ StartsPartition
    BY <1>4 DEF Puts, StartsPartition, Reads, ReadsLater, PutsLater, Advances, AdvancesTo,
                StartsDetectors
  <2>2. InPartition' = InPartition
    BY <1>1, <2>1, PartitionKept
  <2>3. UNCHANGED <<counting, indexer, prefix, index, detectQueue, lost>>
    BY <1>4 DEF Reads, ReadsLater, PutsLater, Advances, StartsDetectors
  <2>4. QED
    BY <2>2, <2>3, IndexFilledKept
<1>5. CASE Puts
  <2>1. InPartition' = InPartition \cup {fed} /\ inputQueue' = inputQueue \cup {fed}
    BY <1>1, <1>5, PartitionKept DEF Puts, StartsPartition
  <2>2. UNCHANGED <<builder, gtf, gtfQueue, indexing, lost>>
    BY <1>5 DEF Puts
  <2>3. ToIndex' = ToIndex /\ Terminated(builder)' = Terminated(builder)
    BY <2>2 DEF ToIndex, Terminated
  <2>4. \A k : /\ WorksOn(builder, k)' = WorksOn(builder, k)
               /\ \A t : StillToIndex(k, t)' = StillToIndex(k, t)
               /\ PrefixOf(RankOf(k), file[k])' = PrefixOf(RankOf(k), file[k])
    BY <2>2, PrefixKept DEF WorksOn, StillToIndex
  <2>5. InputRight'
    BY <1>2, <2>1, <2>2, <2>3 DEF IndexFilled, InputRight
  <2>6. PrefixesRight'
    BY <1>2, <1>3, <2>1, <2>2, <2>3, <2>4 DEF IndexFilled, PrefixesRight
  <2>7. IndexRight'
    BY <2>2 DEF IndexFilled, IndexRight
  <2>8. NoneMissing'
    BY <1>2, <2>1, <2>2, <2>3, <2>4 DEF IndexFilled, NoneMissing
  <2>9. QED
    BY <2>5, <2>6, <2>7, <2>8 DEF IndexFilled
<1>6. CASE StartsIndexers
  <2>1. ~ Puts /\ ~ StartsPartition /\ \A w \in Workers : indexer[w].pc = "wait"
    BY <1>6 DEF Puts, StartsPartition, StartsIndexers, Phases, Feeding
  <2>2. InPartition' = InPartition
    BY <1>1, <2>1, PartitionKept
  <2>3. UNCHANGED <<counting, prefix, index, detectQueue, lost>>
    BY <1>6 DEF StartsIndexers
  <2>4. \A w \in Workers : indexer'[w].pc # "work"
    BY <1>6 DEF StartsIndexers, Taking
  <2>5. ToIndex' = ToIndex /\ Terminated(builder)' = Terminated(builder)
    BY <2>3 DEF ToIndex, Terminated
  <2>6. \A k : /\ WorksOn(builder, k)' = WorksOn(builder, k)
               /\ \A t : ~ StillToIndex(k, t)
               /\ PrefixOf(RankOf(k), file[k])' = PrefixOf(RankOf(k), file[k])
    BY <2>1, <2>3, PrefixKept DEF WorksOn, StillToIndex
  <2>7. InputRight'
    BY <1>2, <2>2, <2>3, <2>5 DEF IndexFilled, InputRight
  <2>8. PrefixesRight'
    BY <1>2, <1>3, <2>2, <2>3, <2>5, <2>6 DEF IndexFilled, PrefixesRight
  <2>9. IndexRight'
    BY <2>3, <2>4 DEF IndexFilled, IndexRight
  <2>10. NoneMissing'
    BY <1>2, <2>2, <2>3, <2>5, <2>6 DEF IndexFilled, NoneMissing
  <2>11. QED
    BY <2>7, <2>8, <2>9, <2>10 DEF IndexFilled
<1>7. CASE StartsPartition
  <2>1. InPartition' = {}
    BY <1>7, PartitionStarts DEF InPartition
  <2>2. /\ inputQueue' = {} /\ detectQueue' = {} /\ ToIndex' = {}
        /\ \A w \in Workers : builder'[w].pc # "work" /\ indexer'[w].pc # "work"
    BY <1>7, PartitionStarts
  <2>6. prefix' = [k \in Places |-> {}] /\ index' = [t \in Terms |-> {}]
    BY <1>7 DEF StartsPartition
  <2>7. InputRight'
    BY <2>1, <2>2 DEF InputRight
  <2>8. PrefixesRight'
    BY <1>3, <2>6 DEF PrefixesRight
  <2>9. IndexRight'
    BY <2>2, <2>6 DEF IndexRight
  <2>10. NoneMissing'
    BY <2>1 DEF NoneMissing
  <2>11. QED
    BY <2>7, <2>8, <2>9, <2>10 DEF IndexFilled
<1>8. QED
  BY <1>4, <1>5, <1>6, <1>7 DEF MainSteps

LEMMA IndexFilledBuilder ==
  ASSUME WellTyped, Phases, IndexFilled, NEW w \in Workers, BuilderSteps(w), UNCHANGED choice
  PROVE  IndexFilled'
<1> USE DEF choice, clock, counting, indexing, querying, cloning
<1>1. /\ UNCHANGED <<file, indexer, prefix, index, detectQueue, main>> /\ ~ options.presorted
      /\ UNCHANGED options
  BY DEF BuilderSteps
<1>2. InPartition' = InPartition
  BY DEF BuilderSteps, InPartition
<1>3. builder[w].pc \in {"take", "work"}
  BY DEF BuilderSteps, TakesInput, AddsTerm, PutsCounted, BuilderStops
<1>4. ~ Terminated(builder)
  BY <1>3, AtWorkThen
<1>5. \A k \in Places : prefix[k] = {}
  BY <1>1, <1>4 DEF IndexFilled, PrefixesRight
<1>6. Places' = Places
  BY <1>1 DEF Places
<1>7. PrefixesRight'
  BY <1>1, <1>5, <1>6 DEF PrefixesRight
<1>8. IndexRight'
  BY <1>1 DEF IndexFilled, IndexRight
<1>9. ASSUME NEW k
      PROVE  Unreadable(file[k])' = Unreadable(file[k]) /\ Approved(file[k])' = Approved(file[k])
  BY <1>1 DEF Unreadable, TermsOf, Approved
<1>10. builder \in [Workers -> Jobs(Terms)]
  BY DEF WellTyped
<1>11. ASSUME NEW k \in Places, TakesInput(w, k) PROVE InputRight' /\ NoneMissing'
  <2>1. /\ k \in inputQueue /\ ~ Unreadable(file[k]) /\ inputQueue' = inputQueue \ {k}
        /\ builder[w].pc = "take" /\ UNCHANGED <<gtfQueue, lost>>
        /\ builder' = [builder EXCEPT ![w] = At(k, TermsOf(file[k]))]
    BY <1>11 DEF TakesInput
  <2>2. ToIndex' = ToIndex
    BY <2>1 DEF ToIndex
  <2>3. /\ builder'[w].pc = "work" /\ builder'[w].block = k
        /\ \A v \in Workers \ {w} : builder'[v] = builder[v]
    BY <1>10, <2>1 DEF At
  <2>4. k \in InPartition
    BY <2>1 DEF IndexFilled, InputRight
  <2>5. InputRight'
    BY <1>2, <1>9, <2>1, <2>2, <2>3, <2>4 DEF IndexFilled, InputRight
  <2>6. \A j : WorksOn(builder, j) => WorksOn(builder, j)'
    BY <2>1, <2>3 DEF WorksOn
  <2>7. WorksOn(builder, k)'
    BY <2>3 DEF WorksOn
  <2>8. NoneMissing'
    BY <1>1, <1>2, <1>9, <2>1, <2>2, <2>6, <2>7 DEF IndexFilled, NoneMissing
  <2>9. QED
    BY <2>5, <2>8
<1>12. ASSUME NEW t \in Terms, AddsTerm(w, t) PROVE InputRight' /\ NoneMissing'
  <2>1. /\ builder[w].pc = "work" /\ UNCHANGED <<inputQueue, gtfQueue, lost>>
        /\ builder' = [builder EXCEPT ![w] = At(builder[w].block, builder[w].todo \ {t})]
    BY <1>12 DEF AddsTerm
  <2>2. ToIndex' = ToIndex
    BY <2>1 DEF ToIndex
  <2>3. \A v \in Workers : builder'[v].pc = builder[v].pc /\ builder'[v].block = builder[v].block
    BY <1>10, <2>1 DEF At
  <2>4. InputRight'
    <3>1. \A v \in Workers : builder'[v].pc = "work" =>
            builder'[v].block \in InPartition /\ ~ Unreadable(file[builder'[v].block])
      BY <2>3 DEF IndexFilled, InputRight
    <3>2. QED
      BY <1>2, <1>9, <2>1, <2>2, <3>1 DEF IndexFilled, InputRight
  <2>5. \A j : WorksOn(builder, j)' = WorksOn(builder, j)
    BY <2>3 DEF WorksOn
  <2>6. NoneMissing'
    BY <1>1, <1>2, <1>9, <2>1, <2>2, <2>5 DEF IndexFilled, NoneMissing
  <2>7. QED
    BY <2>4, <2>6
<1>13. ASSUME PutsCounted(w) PROVE InputRight' /\ NoneMissing'
  <2>1. /\ builder[w].pc = "work" /\ UNCHANGED <<inputQueue, lost>>
        /\ builder' = [builder EXCEPT ![w] = Taking]
        /\ gtfQueue' = [gtfQueue EXCEPT ![w] = gtfQueue[w] \cup {builder[w].block}]
    BY <1>13 DEF PutsCounted
  <2>2. ToIndex' = ToIndex \cup {builder[w].block}
    <3>1. gtfQueue \in [Workers -> SUBSET Places]
      BY DEF WellTyped
    <3>2. /\ gtfQueue'[w] = gtfQueue[w] \cup {builder[w].block}
          /\ \A v \in Workers \ {w} : gtfQueue'[v] = gtfQueue[v]
      BY <2>1, <3>1
    <3>3. QED
      BY <3>2 DEF ToIndex
  <2>3. /\ builder'[w].pc # "work"
        /\ \A v \in Workers \ {w} : builder'[v] = builder[v]
    BY <1>10, <2>1 DEF Taking
  <2>4. builder[w].block \in InPartition /\ ~ Unreadable(file[builder[w].block])
    BY <2>1 DEF IndexFilled, InputRight
  <2>5. InputRight'
    BY <1>2, <1>9, <2>1, <2>2, <2>3, <2>4 DEF IndexFilled, InputRight
  <2>6. \A j : WorksOn(builder, j) => WorksOn(builder, j)' \/ j = builder[w].block
    BY <2>3 DEF WorksOn
  <2>7. NoneMissing'
    BY <1>1, <1>2, <1>9, <2>1, <2>2, <2>6 DEF IndexFilled, NoneMissing
  <2>8. QED
    BY <2>5, <2>7
<1>14. ASSUME BuilderStops(w) PROVE InputRight' /\ NoneMissing'
  <2>1. /\ builder[w].pc = "take"
        /\ builder' = [builder EXCEPT ![w] = Ended] \/ builder' = [builder EXCEPT ![w] = Dead]
        /\ inputQueue' \subseteq inputQueue /\ lost \subseteq lost'
        /\ inputQueue \cup ToIndex \subseteq inputQueue' \cup ToIndex' \cup lost'
    BY <1>14 DEF BuilderStops
  <2>2. ToIndex' \subseteq ToIndex
    BY <1>14 DEF BuilderStops, ToIndex
  <2>3. /\ builder'[w].pc # "work"
        /\ \A v \in Workers \ {w} : builder'[v] = builder[v]
    BY <1>10, <2>1 DEF Ended, Dead
  <2>4. InputRight'
    BY <1>2, <1>9, <2>1, <2>2, <2>3 DEF IndexFilled, InputRight
  <2>5. \A j : WorksOn(builder, j) => WorksOn(builder, j)'
    BY <2>1, <2>3 DEF WorksOn
  <2>6. NoneMissing'
    BY <1>1, <1>2, <1>9, <2>1, <2>5 DEF IndexFilled, NoneMissing
  <2>7. QED
    BY <2>4, <2>6
<1>15. InputRight' /\ NoneMissing'
  BY <1>11, <1>12, <1>13, <1>14 DEF BuilderSteps
<1>16. QED
  BY <1>7, <1>8, <1>15 DEF IndexFilled

(* What an indexer draws is a block of the partition.                      *)
LEMMA DrawsBlock ==
  ASSUME WellTyped, IndexFilled, NEW k \in Places, Draws(k)
  PROVE  /\ k \in InPartition /\ ~ Unreadable(file[k])
         /\ inputQueue' \subseteq inputQueue /\ ToIndex' \subseteq ToIndex
         /\ inputQueue \cup ToIndex \subseteq inputQueue' \cup ToIndex' \cup {k}
         /\ ~ options.presorted => ToIndex' = ToIndex \ {k}
         /\ options.presorted => ToIndex' = ToIndex
<1>1. CASE options.presorted /\ k \in inputQueue /\ ~ Unreadable(file[k])
           /\ inputQueue' = inputQueue \ {k} /\ gtfQueue' = gtfQueue
  <2>1. ToIndex' = ToIndex
    BY <1>1 DEF ToIndex
  <2>2. QED
    BY <1>1, <2>1 DEF IndexFilled, InputRight
<1>2. CASE ~ options.presorted /\ k \in ToIndex
           /\ gtfQueue' = Removed(k) /\ inputQueue' = inputQueue
  <2>1. ToIndex' = ToIndex \ {k}
    BY <1>2 DEF ToIndex, Removed
  <2>2. QED
    BY <1>2, <2>1 DEF IndexFilled, InputRight
<1>3. QED
  BY <1>1, <1>2 DEF Draws

LEMMA IndexFilledIndexer ==
  ASSUME WellTyped, Phases, IndexFilled, NEW w \in Workers, IndexerSteps(w), UNCHANGED choice
  PROVE  IndexFilled'
<1> USE DEF choice, clock, counting, indexing, querying, cloning
<1>1. UNCHANGED <<file, options, main, begin, fed, builder, gtf>>
  BY DEF IndexerSteps
<1>2. InPartition' = InPartition /\ Places' = Places
      /\ Terminated(builder)' = Terminated(builder)
  BY <1>1 DEF InPartition, Places, Terminated
<1>3. indexer[w].pc \in {"take", "work"}
  BY DEF IndexerSteps, Skips, Prefixes, IndexesTerm, PutsIndexed, IndexerStops
<1>4. options.presorted \/ Terminated(builder)
  BY <1>3, AtWorkThen
<1>5. \A k : /\ WorksOn(builder, k)' = WorksOn(builder, k)
             /\ PrefixOf(RankOf(k), file[k])' = PrefixOf(RankOf(k), file[k])
             /\ Unreadable(file[k])' = Unreadable(file[k])
             /\ Approved(file[k])' = Approved(file[k])
  BY <1>1, PrefixKept DEF WorksOn, Unreadable, TermsOf, Approved
<1>6. indexer \in [Workers -> Jobs(Terms)]
  BY DEF WellTyped
<1>7. ASSUME NEW k \in Places, Draws(k), lost' = lost,
             prefix'[k] # {} \/ ~ Approved(file[k]),
             \A j \in Places : j # k => prefix'[j] = prefix[j]
      PROVE  InputRight' /\ NoneMissing'
  <2>1. /\ k \in InPartition /\ ~ Unreadable(file[k])
        /\ inputQueue' \subseteq inputQueue /\ ToIndex' \subseteq ToIndex
        /\ inputQueue \cup ToIndex \subseteq inputQueue' \cup ToIndex' \cup {k}
    BY <1>7, DrawsBlock
  <2>2. InputRight'
    BY <1>1, <1>2, <1>5, <2>1 DEF IndexFilled, InputRight
  <2>3. InPartition \subseteq Places
    <3>1. Len(file) \in Nat
      BY FilesAssumption DEF WellTyped
    <3>2. fed \in 0 .. Len(file) /\ begin \in 0 .. fed
      BY DEF WellTyped
    <3>3. begin + 1 .. fed \subseteq 1 .. Len(file)
      BY <3>1, <3>2
    <3>4. QED
      BY <3>3 DEF InPartition, Places
  <2>4. NoneMissing'
    BY <1>2, <1>5, <1>7, <2>1, <2>3 DEF IndexFilled, NoneMissing
  <2>5. QED
    BY <2>2, <2>4
<1>8. ASSUME NEW k \in Places, Skips(w, k) PROVE IndexFilled'
  <2>1. Draws(k) /\ ~ Approved(file[k]) /\ UNCHANGED <<indexing, lost>>
    BY <1>8 DEF Skips
  <2>2. \A j, t : StillToIndex(j, t)' = StillToIndex(j, t)
    BY <2>1 DEF StillToIndex
  <2>3. PrefixesRight'
    BY <1>1, <1>2, <1>5, <2>1, <2>2 DEF IndexFilled, PrefixesRight
  <2>4. IndexRight'
    BY <2>1 DEF IndexFilled, IndexRight
  <2>5. QED
    BY <1>7, <2>1, <2>3, <2>4 DEF IndexFilled
<1>9. ASSUME NEW k \in Places, Prefixes(w, k) PROVE IndexFilled'
  <2> DEFINE P == PrefixOf(RankOf(k), file[k])
  <2>1. /\ indexer[w].pc = "take" /\ Draws(k) /\ Approved(file[k])
        /\ prefix' = [prefix EXCEPT ![k] = P] /\ indexer' = [indexer EXCEPT ![w] = At(k, P)]
        /\ UNCHANGED <<index, detectQueue, lost>>
    BY <1>9 DEF Prefixes
  <2>2. k \in InPartition /\ ~ Unreadable(file[k])
    BY <2>1, DrawsBlock
  <2>3. P # {}
    BY <2>2, RanksTyped, BlocksHaveTerm
  <2> HIDE DEF P
  <2>4. prefix'[k] = P /\ \A j \in Places : j # k => prefix'[j] = prefix[j]
    BY <2>1 DEF WellTyped
  <2>5. /\ indexer'[w].pc = "work" /\ indexer'[w].block = k /\ indexer'[w].todo = P
        /\ \A v \in Workers \ {w} : indexer'[v] = indexer[v]
    BY <1>6, <2>1 DEF At
  <2>6. \A j, t : StillToIndex(j, t) => StillToIndex(j, t)'
    BY <2>1, <2>5 DEF StillToIndex
  <2>7. \A t \in P : StillToIndex(k, t)'
    BY <2>5 DEF StillToIndex
  <2>8. P = PrefixOf(RankOf(k), file[k])
    BY DEF P
  <2>9. PrefixesRight'
    <3>1. SUFFICES ASSUME NEW j \in Places, prefix'[j] # {}
                   PROVE  /\ j \in InPartition
                          /\ Approved(file[j]) /\ ~ Unreadable(file[j])
                          /\ prefix'[j] = PrefixOf(RankOf(j), file[j])
                          /\ \A t \in prefix'[j] : j \in index'[t] \/ StillToIndex(j, t)'
      BY <1>1, <1>2, <1>4, <1>5 DEF PrefixesRight
    <3>2. CASE j = k
      BY <2>1, <2>2, <2>4, <2>7, <2>8, <3>2
    <3>3. CASE j # k
      <4>1. prefix'[j] = prefix[j]
        BY <2>4, <3>3
      <4>2. QED
        BY <2>1, <2>6, <3>1, <4>1 DEF IndexFilled, PrefixesRight
    <3>4. QED
      BY <3>2, <3>3
  <2>10. \A j : prefix[j] # {} /\ j \in Places => prefix'[j] # {}
    BY <2>3, <2>4
  <2>11. IndexRight'
    <3>1. \A t \in Terms : \A j \in index[t] : j \in Places
      BY DEF WellTyped
    <3>2. detectQueue \subseteq Places
      BY DEF WellTyped
    <3>3. \A v \in Workers : indexer[v].pc = "work" => indexer[v].block \in Places
      BY AllTyped
    <3>4. QED
      BY <2>1, <2>3, <2>4, <2>5, <2>10, <3>1, <3>2, <3>3 DEF IndexFilled, IndexRight
  <2>12. QED
    BY <1>7, <2>1, <2>3, <2>4, <2>9, <2>11 DEF IndexFilled
<1>10. ASSUME UNCHANGED <<inputQueue, gtfQueue, prefix>>, lost' = lost
       PROVE  InputRight' /\ NoneMissing'
  <2>1. ToIndex' = ToIndex
    BY <1>10 DEF ToIndex
  <2>2. QED
    BY <1>1, <1>2, <1>5, <1>10, <2>1 DEF IndexFilled, InputRight, NoneMissing
<1>11. ASSUME NEW t \in Terms, IndexesTerm(w, t) PROVE IndexFilled'
  <2>1. /\ indexer[w].pc = "work" /\ t \in indexer[w].todo
        /\ index' = [index EXCEPT ![t] = index[t] \cup {indexer[w].block}]
        /\ indexer' = [indexer EXCEPT ![w] = At(indexer[w].block, indexer[w].todo \ {t})]
        /\ UNCHANGED <<inputQueue, gtfQueue, prefix, detectQueue, lost>>
    BY <1>11 DEF IndexesTerm
  <2>2. /\ indexer'[w].pc = "work" /\ indexer'[w].block = indexer[w].block
        /\ indexer'[w].todo = indexer[w].todo \ {t}
        /\ \A v \in Workers \ {w} : indexer'[v] = indexer[v]
    BY <1>6, <2>1 DEF At
  <2>3. \A u \in Terms : index'[u] = IF u = t THEN index[u] \cup {indexer[w].block} ELSE index[u]
    BY <2>1 DEF WellTyped
  <2>4. \A j, u : StillToIndex(j, u) => StillToIndex(j, u)' \/ (u = t /\ j = indexer[w].block)
    BY <2>2 DEF StillToIndex
  <2>5. \A j \in Places : prefix[j] \subseteq Terms
    BY DEF WellTyped
  <2>6. PrefixesRight'
    <3>1. SUFFICES ASSUME NEW j \in Places, prefix[j] # {}, NEW u \in prefix[j]
                   PROVE  j \in index'[u] \/ StillToIndex(j, u)'
      BY <1>1, <1>2, <1>5, <2>1 DEF IndexFilled, PrefixesRight
    <3>2. u \in Terms /\ (j \in index[u] \/ StillToIndex(j, u))
      BY <2>5, <3>1 DEF IndexFilled, PrefixesRight
    <3>3. CASE j \in index[u]
      BY <2>3, <3>2, <3>3
    <3>4. CASE StillToIndex(j, u)
      <4>1. StillToIndex(j, u)' \/ (u = t /\ j = indexer[w].block)
        BY <2>4, <3>4
      <4>2. u = t /\ j = indexer[w].block => j \in index'[u]
        BY <2>3, <3>2
      <4>3. QED
        BY <4>1, <4>2
    <3>5. QED
      BY <3>2, <3>3, <3>4
  <2>7. IndexRight'
    <3>1. prefix[indexer[w].block] # {}
      BY <2>1 DEF IndexFilled, IndexRight
    <3>2. \A u \in Terms : \A j \in index'[u] : prefix[j] # {}
      BY <2>3, <3>1 DEF IndexFilled, IndexRight
    <3>3. \A v \in Workers : indexer'[v].pc = "work" => prefix[indexer'[v].block] # {}
      BY <2>2, <3>1 DEF IndexFilled, IndexRight
    <3>4. prefix' = prefix /\ detectQueue' = detectQueue
      BY <2>1
    <3>5. QED
      BY <3>2, <3>3, <3>4 DEF IndexFilled, IndexRight
  <2>8. QED
    BY <1>10, <2>1, <2>6, <2>7 DEF IndexFilled
<1>12. ASSUME UNCHANGED <<prefix, index>>,
              \A v \in Workers \ {w} : indexer'[v] = indexer[v],
              indexer[w].todo = {}, indexer'[w].pc # "work"
       PROVE  PrefixesRight'
  <2>1. \A j, u : StillToIndex(j, u) => StillToIndex(j, u)'
    BY <1>12 DEF StillToIndex
  <2>2. QED
    BY <1>1, <1>2, <1>5, <1>12, <2>1 DEF IndexFilled, PrefixesRight
<1>13. CASE PutsIndexed(w)
  <2>1. /\ indexer[w].pc = "work" /\ indexer[w].todo = {}
        /\ detectQueue' = detectQueue \cup {indexer[w].block}
        /\ indexer' = [indexer EXCEPT ![w] = Taking]
        /\ UNCHANGED <<inputQueue, gtfQueue, prefix, index, lost>>
    BY <1>13 DEF PutsIndexed
  <2>2. indexer'[w].pc # "work" /\ \A v \in Workers \ {w} : indexer'[v] = indexer[v]
    BY <1>6, <2>1 DEF Taking
  <2>3. PrefixesRight'
    BY <1>12, <2>1, <2>2
  <2>4. IndexRight'
    BY <2>1, <2>2 DEF IndexFilled, IndexRight
  <2>5. QED
    BY <1>10, <2>1, <2>3, <2>4 DEF IndexFilled
<1>14. CASE IndexerStops(w)
  <2>1. /\ indexer[w].pc = "take"
        /\ indexer' = [indexer EXCEPT ![w] = Ended] \/ indexer' = [indexer EXCEPT ![w] = Dead]
        /\ inputQueue' \subseteq inputQueue /\ detectQueue' \subseteq detectQueue
        /\ lost \subseteq lost' /\ inputQueue \subseteq inputQueue' \cup lost'
        /\ UNCHANGED <<gtfQueue, prefix, index>>
    BY <1>14 DEF IndexerStops
  <2>2. indexer'[w].pc # "work" /\ \A v \in Workers \ {w} : indexer'[v] = indexer[v]
    BY <1>6, <2>1 DEF Ended, Dead
  <2>3. indexer[w].todo = {}
    BY <1>6, <2>1 DEF Jobs, Tasks
  <2>4. PrefixesRight'
    BY <1>12, <2>1, <2>2, <2>3
  <2>5. IndexRight'
    BY <2>1, <2>2 DEF IndexFilled, IndexRight
  <2>6. ToIndex' = ToIndex
    BY <2>1 DEF ToIndex
  <2>7. InputRight' /\ NoneMissing'
    BY <1>1, <1>2, <1>5, <2>1, <2>6 DEF IndexFilled, InputRight, NoneMissing
  <2>8. QED
    BY <2>4, <2>5, <2>7 DEF IndexFilled
<1>15. QED
  BY <1>8, <1>9, <1>11, <1>13, <1>14 DEF IndexerSteps

LEMMA IndexFilledStep ==
  WellTyped /\ Phases /\ IndexFilled /\ (Steps \/ UNCHANGED state) => IndexFilled'
<1> SUFFICES ASSUME WellTyped, Phases, IndexFilled, Steps \/ UNCHANGED state
             PROVE  IndexFilled'
  OBVIOUS
<1> USE DEF choice, clock, counting, indexing, querying, cloning
<1>1. UNCHANGED choice
  BY DEF Steps, state
<1>2. CASE MainSteps
  BY <1>1, <1>2, IndexFilledMain
<1>3. ASSUME NEW w \in Workers, BuilderSteps(w) PROVE IndexFilled'
  BY <1>1, <1>3, IndexFilledBuilder
<1>4. ASSUME NEW w \in Workers, IndexerSteps(w) PROVE IndexFilled'
  BY <1>1, <1>4, IndexFilledIndexer
<1>5. ASSUME NEW w \in Workers, DetectorSteps(w) PROVE IndexFilled'
  <2>1. UNCHANGED <<clock, counting, indexer, prefix, index>>
    BY <1>5 DEF DetectorSteps
  <2>2. InPartition' = InPartition
    BY <2>1 DEF InPartition
  <2>3. detectQueue' \subseteq detectQueue /\ lost \subseteq lost'
    BY <1>5 DEF DetectorSteps, Queries, QueriesLater, SkipsLater, PutsClone, EndsQuery, Switches,
                DetectorStops
  <2>4. QED
    BY <1>1, <2>1, <2>2, <2>3, IndexFilledKept
<1>6. CASE WriterSteps \/ UNCHANGED state
  <2>1. UNCHANGED <<clock, counting, indexing, lost>>
    BY <1>6 DEF WriterSteps, state
  <2>2. InPartition' = InPartition
    BY <2>1 DEF InPartition
  <2>3. QED
    BY <1>1, <2>1, <2>2, IndexFilledKept
<1>7. QED
  BY <1>2, <1>3, <1>4, <1>5, <1>6 DEF Steps

-----------------------------------------------------------------------------
(* The last indexer that ends leaves nothing to index, and the last of the
   detectors that is through with the partition no query in it.            *)

ThroughIndex(w) ==
  \/ detector[w].pc \in {"ended", "dead"}
  \/ detector[w].pc # "wait" /\ source[w] = "file"

Drawn ==
  /\ Terminated(indexer) => ToIndex = {}
  /\ (\A w \in Workers : ThroughIndex(w)) => detectQueue = {}

LEMMA DrawnInit == InitDetection => Drawn
<1> SUFFICES ASSUME InitDetection PROVE Drawn
  OBVIOUS
<1>1. detectQueue = {} /\ gtfQueue = [w \in Workers |-> {}]
  BY DEF InitDetection, Init, InitPreSorted, InitPartitioned, InitGiven
<1>2. QED
  BY <1>1 DEF Drawn, ToIndex

LEMMA FiniteQueues == WellTyped => IsFiniteSet(ToIndex) /\ IsFiniteSet(detectQueue)
<1> SUFFICES ASSUME WellTyped PROVE IsFiniteSet(ToIndex) /\ IsFiniteSet(detectQueue)
  OBVIOUS
<1>1. Len(file) \in Nat
  BY FilesAssumption DEF WellTyped
<1>2. IsFiniteSet(Places)
  BY <1>1, FS_Interval DEF Places
<1>3. ToIndex \subseteq Places /\ detectQueue \subseteq Places
  BY AllTyped DEF WellTyped
<1>4. QED
  BY <1>2, <1>3, FS_Subset

LEMMA DrawnKept ==
  ASSUME Drawn, ToIndex' \subseteq ToIndex, detectQueue' \subseteq detectQueue,
         Terminated(indexer)' => Terminated(indexer),
         \A w \in Workers : ThroughIndex(w)' => ThroughIndex(w)
  PROVE  Drawn'
<1>1. Terminated(indexer)' => ToIndex' = {}
  BY DEF Drawn
<1>2. (\A w \in Workers : ThroughIndex(w)') => detectQueue' = {}
  BY DEF Drawn
<1>3. QED
  BY <1>1, <1>2 DEF Drawn

LEMMA DrawnStep ==
  WellTyped /\ Phases /\ Phases' /\ Drawn /\ (Steps \/ UNCHANGED state) => Drawn'
<1> SUFFICES ASSUME WellTyped, Phases, Phases', Drawn, Steps \/ UNCHANGED state PROVE Drawn'
  OBVIOUS
<1> USE DEF choice, clock, counting, indexing, querying, cloning
<1>1. UNCHANGED choice
  BY DEF Steps, state
<1>2. PICK someone \in Workers : TRUE
  BY PipelineAssumption
<1>3. ASSUME UNCHANGED <<detector, source>>
      PROVE  \A w \in Workers : ThroughIndex(w)' = ThroughIndex(w)
  BY <1>3 DEF ThroughIndex
<1>4. ASSUME MainSteps PROVE Drawn'
  <2>1. CASE StartsPartition
    <3>1. ToIndex' = {} /\ detectQueue' = {}
      BY <2>1, PartitionStarts
    <3>2. QED
      BY <3>1 DEF Drawn
  <2>2. CASE StartsDetectors
    <3>1. /\ UNCHANGED <<gtfQueue, indexer>>
          /\ detector' = [w \in Workers |-> Taking]
      BY <2>2 DEF StartsDetectors
    <3>2. source' = [w \in Workers |-> "index"]
      BY <2>2 DEF StartsDetectors, Phases
    <3>3. ToIndex' = ToIndex /\ Terminated(indexer)' = Terminated(indexer)
      BY <3>1 DEF ToIndex, Terminated
    <3>4. ~ ThroughIndex(someone)'
      BY <1>2, <3>1, <3>2 DEF ThroughIndex, Taking
    <3>5. QED
      BY <1>2, <3>3, <3>4 DEF Drawn
  <2>3. CASE StartsIndexers
    <3>1. /\ indexer' = [w \in Workers |-> Taking]
          /\ UNCHANGED <<detector, source, detectQueue>>
      BY <2>3 DEF StartsIndexers
    <3>2. ~ Terminated(indexer)'
      BY <1>2, <3>1 DEF Terminated, Taking
    <3>3. QED
      BY <1>3, <3>1, <3>2 DEF Drawn
  <2>4. CASE Reads \/ Puts \/ ReadsLater \/ PutsLater \/ Advances
    <3>1. UNCHANGED <<gtfQueue, indexer, detectQueue, detector, source>>
      BY <2>4 DEF Reads, Puts, ReadsLater, PutsLater, Advances
    <3>2. ToIndex' = ToIndex /\ Terminated(indexer)' = Terminated(indexer)
      BY <3>1 DEF ToIndex, Terminated
    <3>3. QED
      BY <1>3, <3>1, <3>2, DrawnKept
  <2>5. QED
    BY <1>4, <2>1, <2>2, <2>3, <2>4 DEF MainSteps
<1>5. ASSUME NEW w \in Workers, BuilderSteps(w) PROVE Drawn'
  <2>1. builder[w].pc \in {"take", "work"}
    BY <1>5 DEF BuilderSteps, TakesInput, AddsTerm, PutsCounted, BuilderStops
  <2>2. indexer[someone].pc = "wait"
    BY <1>2, <2>1, AtWorkThen
  <2>3. UNCHANGED <<indexer, detectQueue, detector, source>>
    BY <1>5 DEF BuilderSteps
  <2>4. ~ Terminated(indexer)'
    BY <1>2, <2>2, <2>3 DEF Terminated
  <2>5. QED
    BY <1>3, <2>3, <2>4 DEF Drawn
<1>6. ASSUME NEW w \in Workers, IndexerSteps(w) PROVE Drawn'
  <2>1. indexer[w].pc \in {"take", "work"}
    BY <1>6 DEF IndexerSteps, Skips, Prefixes, IndexesTerm, PutsIndexed, IndexerStops
  <2>2. ~ Detecting
    BY <2>1, AtWorkThen
  <2>3. UNCHANGED <<detector, source>>
    BY <1>6 DEF IndexerSteps
  <2>4. ~ ThroughIndex(someone)'
    BY <1>2, <2>2, <2>3 DEF Detecting, ThroughIndex
  <2>5. indexer \in [Workers -> Jobs(Terms)]
    BY DEF WellTyped
  <2>6. ASSUME indexer'[w].pc \in {"take", "work"} PROVE Drawn'
    BY <1>2, <2>4, <2>6 DEF Drawn, Terminated
  <2>7. ASSUME IndexerStops(w) PROVE Drawn'
    <3>1. ToIndex' = ToIndex
      BY <2>7 DEF IndexerStops, ToIndex
    <3>2. \A v \in Workers \ {w} : indexer'[v] = indexer[v]
      BY <2>5, <2>7 DEF IndexerStops
    <3>3. ASSUME Terminated(indexer)' PROVE ToIndex = {}
      <4>1. CASE options.presorted
        BY <4>1 DEF Phases
      <4>2. CASE ~ options.presorted
        <5>1. Others(indexer, w) = {}
          BY <3>2, <3>3 DEF Others, Terminated
        <5>2. OnlyHeldBack(ToIndex, Others(indexer, w))
          BY <2>7, <4>2 DEF IndexerStops
        <5>3. QED
          BY <5>1, <5>2, FiniteQueues, NothingHeldBack
      <4>3. QED
        BY <4>1, <4>2
    <3>4. QED
      BY <1>2, <2>4, <3>1, <3>3 DEF Drawn
  <2>8. ASSUME NEW k \in Places, Skips(w, k) PROVE indexer'[w].pc \in {"take", "work"}
    BY <2>1, <2>8 DEF Skips
  <2>9. ASSUME NEW k \in Places, Prefixes(w, k) PROVE indexer'[w].pc \in {"take", "work"}
    BY <2>5, <2>9 DEF Prefixes, At
  <2>10. ASSUME NEW t \in Terms, IndexesTerm(w, t) PROVE indexer'[w].pc \in {"take", "work"}
    BY <2>5, <2>10 DEF IndexesTerm, At
  <2>11. ASSUME PutsIndexed(w) PROVE indexer'[w].pc \in {"take", "work"}
    BY <2>5, <2>11 DEF PutsIndexed, Taking
  <2>12. QED
    BY <1>6, <2>6, <2>7, <2>8, <2>9, <2>10, <2>11 DEF IndexerSteps
<1>7. ASSUME NEW w \in Workers, DetectorSteps(w) PROVE Drawn'
  <2>1. UNCHANGED <<gtfQueue, indexer>>
    BY <1>7 DEF DetectorSteps
  <2>2. ToIndex' = ToIndex /\ Terminated(indexer)' = Terminated(indexer)
    BY <2>1 DEF ToIndex, Terminated
  <2>3. detector \in [Workers -> Jobs(Pairs)] /\ source \in [Workers -> {"index", "file"}]
    BY DEF WellTyped
  <2>4. ASSUME source' = source, detectQueue' \subseteq detectQueue,
               \A v \in Workers \ {w} : detector'[v] = detector[v],
               detector[w].pc \in {"take", "work"}, detector'[w].pc \in {"take", "work"}
        PROVE  Drawn'
    <3>1. \A v \in Workers : ThroughIndex(v)' => ThroughIndex(v)
      BY <2>4 DEF ThroughIndex
    <3>2. QED
      BY <2>2, <2>4, <3>1, DrawnKept
  <2>5. ASSUME NEW k \in Places, Queries(w, k) \/ QueriesLater(w, k) PROVE Drawn'
    <3>1. /\ source' = source /\ detectQueue' \subseteq detectQueue
          /\ detector[w].pc = "take"
      BY <2>5 DEF Queries, QueriesLater, AtLater
    <3>2. \E S : detector' = [detector EXCEPT ![w] = At(k, S)]
      BY <2>5 DEF Queries, QueriesLater
    <3>3. detector'[w].pc = "work" /\ \A v \in Workers \ {w} : detector'[v] = detector[v]
      BY <2>3, <3>2 DEF At
    <3>4. QED
      BY <2>4, <3>1, <3>3
  <2>6. ASSUME NEW k \in Places, SkipsLater(w, k) PROVE Drawn'
    BY <2>4, <2>6 DEF SkipsLater, AtLater
  <2>7. ASSUME NEW pair \in Pairs, PutsClone(w, pair) PROVE Drawn'
    <3>1. /\ source' = source /\ detectQueue' \subseteq detectQueue
          /\ detector[w].pc = "work"
          /\ detector' = [detector EXCEPT ![w] = At(detector[w].block, detector[w].todo \ {pair})]
      BY <2>7 DEF PutsClone
    <3>2. detector'[w].pc = "work" /\ \A v \in Workers \ {w} : detector'[v] = detector[v]
      BY <2>3, <3>1 DEF At
    <3>3. QED
      BY <2>4, <3>1, <3>2
  <2>8. CASE EndsQuery(w)
    <3>1. /\ source' = source /\ detectQueue' \subseteq detectQueue
          /\ detector[w].pc = "work"
          /\ detector' = [detector EXCEPT ![w] = Taking]
      BY <2>8 DEF EndsQuery
    <3>2. detector'[w].pc = "take" /\ \A v \in Workers \ {w} : detector'[v] = detector[v]
      BY <2>3, <3>1 DEF Taking
    <3>3. QED
      BY <2>4, <3>1, <3>2
  <2>9. CASE Switches(w)
    <3>1. /\ UNCHANGED <<detectQueue, detector>>
          /\ OnlyHeldBack(detectQueue, {v \in Others(detector, w) : source[v] = "index"})
          /\ \A v \in Workers \ {w} : source'[v] = source[v]
      BY <2>3, <2>9 DEF Switches
    <3>2. ASSUME \A v \in Workers : ThroughIndex(v)' PROVE detectQueue = {}
      <4>1. {v \in Others(detector, w) : source[v] = "index"} = {}
        BY <3>1, <3>2 DEF Others, ThroughIndex
      <4>2. QED
        BY <3>1, <4>1, FiniteQueues, NothingHeldBack
    <3>3. QED
      BY <2>2, <3>1, <3>2 DEF Drawn
  <2>10. CASE DetectorStops(w)
    <3>1. /\ detector[w].pc = "take" /\ UNCHANGED <<detectQueue, source>>
          /\ \A v \in Workers \ {w} : detector'[v] = detector[v]
      BY <2>3, <2>10 DEF DetectorStops
    <3>2. CASE source[w] = "file"
      <4>1. \A v \in Workers : ThroughIndex(v)' => ThroughIndex(v)
        BY <3>1, <3>2 DEF ThroughIndex
      <4>2. QED
        BY <2>2, <3>1, <4>1, DrawnKept
    <3>3. CASE ~ options.partitioned /\ OnlyHeldBack(detectQueue, Others(detector, w))
      <4>1. \A v \in Workers : source[v] = "index"
        BY <3>3 DEF Phases
      <4>2. ASSUME \A v \in Workers : ThroughIndex(v)' PROVE detectQueue = {}
        <5>1. Others(detector, w) = {}
          BY <3>1, <4>1, <4>2 DEF Others, ThroughIndex
        <5>2. QED
          BY <3>3, <5>1, FiniteQueues, NothingHeldBack
      <4>3. QED
        BY <2>2, <3>1, <4>2 DEF Drawn
    <3>4. QED
      BY <2>10, <3>2, <3>3 DEF DetectorStops
  <2>11. QED
    BY <1>7, <2>5, <2>6, <2>7, <2>8, <2>9, <2>10 DEF DetectorSteps
<1>8. CASE WriterSteps \/ UNCHANGED state
  <2>1. UNCHANGED <<counting, indexing, querying>>
    BY <1>8 DEF WriterSteps, state
  <2>2. ToIndex' = ToIndex /\ Terminated(indexer)' = Terminated(indexer)
    BY <2>1 DEF ToIndex, Terminated
  <2>3. QED
    BY <1>3, <2>1, <2>2, DrawnKept
<1>9. QED
  BY <1>4, <1>5, <1>6, <1>7, <1>8 DEF Steps

-----------------------------------------------------------------------------
IndexInv == WellTyped /\ Phases /\ IndexFilled /\ Drawn

LEMMA IndexInvariant == SpecDetection => []IndexInv
<1>1. InitDetection => IndexInv
  BY TypedInit, PhasesInit, IndexFilledInit, DrawnInit DEF IndexInv
<1>2. IndexInv /\ [NextDetection]_detectVars => IndexInv'
  BY IsStep, TypedStep, PhasesStep, IndexFilledStep, DrawnStep DEF IndexInv
<1>3. QED
  BY <1>1, <1>2, PTL DEF SpecDetection

(* While main is beyond the indexers, what the partition is.               *)
LEMMA AllPut ==
  ASSUME Phases, Detecting
  PROVE  InPartition = begin + 1 .. fed
BY DEF Phases, InPartition, Feeding

LEMMA IndexHolds == IndexInv => IndexIsPartition
<1> SUFFICES ASSUME IndexInv, Detecting
             PROVE  /\ \A t \in Terms : index[t] \subseteq begin + 1 .. fed
                    /\ \A k \in (begin + 1 .. fed) \ (lost \cup inputQueue) :
                         Approved(file[k]) =>
                           prefix[k] # {} /\ \A t \in prefix[k] : k \in index[t]
  BY DEF IndexIsPartition, Detecting
<1> USE DEF IndexInv
<1>1. InPartition = begin + 1 .. fed
  BY AllPut
<1>2. Terminated(indexer) /\ Terminated(builder) /\ ToIndex = {}
  BY DEF Phases, Drawn
<1>3. \A t \in Terms : index[t] \subseteq Places
  BY DEF WellTyped
<1>4. \A t \in Terms : index[t] \subseteq begin + 1 .. fed
  BY <1>1, <1>3 DEF IndexFilled, IndexRight, PrefixesRight
<1>5. begin + 1 .. fed \subseteq Places
  <2>1. Len(file) \in Nat
    BY FilesAssumption DEF WellTyped
  <2>2. fed \in 0 .. Len(file) /\ begin \in 0 .. fed
    BY DEF WellTyped
  <2>3. QED
    BY <2>1, <2>2 DEF Places
<1>6. ASSUME NEW k \in (begin + 1 .. fed) \ (lost \cup inputQueue), Approved(file[k])
      PROVE  prefix[k] # {} /\ \A t \in prefix[k] : k \in index[t]
  <2>1. ~ WorksOn(builder, k) /\ \A t : ~ StillToIndex(k, t)
    BY <1>2 DEF Terminated, WorksOn, StillToIndex
  <2>2. prefix[k] # {}
    BY <1>1, <1>2, <1>6, <2>1 DEF IndexFilled, NoneMissing
  <2>3. QED
    BY <1>5, <2>1, <2>2 DEF IndexFilled, PrefixesRight
<1>7. QED
  BY <1>4, <1>6

(* Whichever pipeline runs: no detector ever looks into an index that still
   grows or holds blocks of another partition; every approved block of the
   partition that no dead thread took along is in it under all the terms of
   its prefix, by which the later blocks find it.                          *)
THEOREM IndexesPartition == SpecDetection => []IndexIsPartition
BY IndexInvariant, IndexHolds, PTL

-----------------------------------------------------------------------------
(* Where a block is: not read yet, in one queue, or with one thread; never
   in two places.                                                          *)

Unput(k)   == k > fed \/ (k = fed /\ main = "put")
Unasked(k) == Detecting => k > later \/ (k = later /\ main = "put query")

Spot(k, s, w) ==
  \/ s = "unread" /\ Unput(k) /\ Unasked(k)
  \/ s = "input" /\ k \in inputQueue
  \/ s = "builder" /\ builder[w].pc = "work" /\ builder[w].block = k
  \/ s = "counted" /\ k \in ToIndex
  \/ s = "indexer" /\ indexer[w].pc = "work" /\ indexer[w].block = k
  \/ s = "indexed" /\ k \in detectQueue
  \/ s = "later" /\ k \in laterQueue
  \/ s = "detector" /\ detector[w].pc = "work" /\ detector[w].block = k

Threads == {"builder", "indexer", "detector"}
Spots == Threads \cup {"unread", "input", "counted", "indexed", "later"}

OneSpot ==
  \A k \in Places : \A s, z \in Spots : \A v, w \in Workers :
    Spot(k, s, v) /\ Spot(k, z, w) => s = z /\ (s \in Threads => v = w)

(* The clones that go out are of the block a detector works on: no clone of
   any other block, with a block of the partition, is out yet.             *)
Outputs == outputQueue \cup Handed

Answered ==
  \A pair \in Outputs : \A s \in Spots : \A w \in Workers :
    pair[2] > begin /\ Spot(pair[1], s, w) => s = "detector"

(* A step that takes no block anywhere, and one that takes a block k.      *)
Stays ==
  \A j \in Places : \A s \in Spots : \A x \in Workers : Spot(j, s, x)' => Spot(j, s, x)

Moves(k, from, v, to, w) ==
  /\ k \in Places /\ from \in Spots \ {"detector"} /\ to \in Spots
  /\ v \in Workers /\ w \in Workers
  /\ Spot(k, from, v)
  /\ \A x \in Workers : from \notin Threads \/ x = v => ~ Spot(k, from, x)'
  /\ \A j \in Places : \A s \in Spots : \A x \in Workers : Spot(j, s, x)' =>
       Spot(j, s, x) \/ (j = k /\ s = to /\ (s \in Threads => x = w))

LEMMA SpotsStay ==
  ASSUME UNCHANGED <<file, begin>>, Stays, WellTyped, OneSpot
  PROVE  /\ OneSpot'
         /\ Answered /\ Outputs' \subseteq Outputs => Answered'
<1>1. Places' = Places
  BY DEF Places
<1>2. OneSpot'
  BY <1>1 DEF Stays, OneSpot
<1>3. ASSUME Answered, Outputs' \subseteq Outputs PROVE Answered'
  <2>1. \A pair \in Outputs : pair[1] \in Places
    BY DEF WellTyped, Pairs, Outputs
  <2>2. QED
    BY <1>3, <2>1 DEF Stays, Answered
<1>4. QED
  BY <1>2, <1>3

LEMMA SpotsMove ==
  ASSUME NEW k, NEW from, NEW v, NEW to, NEW w, Moves(k, from, v, to, w),
         UNCHANGED <<file, begin>>, WellTyped, OneSpot, Answered, Outputs' \subseteq Outputs
  PROVE  OneSpot' /\ Answered'
<1>1. Places' = Places
  BY DEF Places
<1>2. /\ k \in Places /\ from \in Spots \ {"detector"} /\ to \in Spots
      /\ v \in Workers /\ w \in Workers
      /\ Spot(k, from, v)
  BY DEF Moves
<1>3. ASSUME NEW s \in Spots, NEW x \in Workers, Spot(k, s, x)'
      PROVE  s = to /\ (s \in Threads => x = w)
  <2>1. ASSUME Spot(k, s, x) PROVE FALSE
    <3>1. s = from /\ (from \in Threads => x = v)
      BY <1>2, <2>1 DEF OneSpot
    <3>2. QED
      BY <1>3, <3>1 DEF Moves
  <2>2. QED
    BY <1>2, <1>3, <2>1 DEF Moves
<1>4. ASSUME NEW j \in Places, j # k, NEW s \in Spots, NEW x \in Workers, Spot(j, s, x)'
      PROVE  Spot(j, s, x)
  BY <1>4 DEF Moves
<1>5. OneSpot'
  <2>1. SUFFICES ASSUME NEW j \in Places, NEW s \in Spots, NEW z \in Spots,
                        NEW x \in Workers, NEW y \in Workers, Spot(j, s, x)', Spot(j, z, y)'
                 PROVE  s = z /\ (s \in Threads => x = y)
    BY <1>1 DEF OneSpot
  <2>2. CASE j = k
    BY <1>3, <2>1, <2>2
  <2>3. CASE j # k
    BY <1>4, <2>1, <2>3 DEF OneSpot
  <2>4. QED
    BY <2>2, <2>3
<1>6. Answered'
  <2>1. SUFFICES ASSUME NEW pair \in Outputs', NEW s \in Spots, NEW x \in Workers,
                        pair[2] > begin, Spot(pair[1], s, x)'
                 PROVE  s = "detector"
    BY DEF Answered
  <2>2. pair \in Outputs /\ pair[1] \in Places
    BY DEF WellTyped, Pairs, Outputs
  <2>3. CASE pair[1] = k
    BY <1>2, <2>1, <2>2, <2>3 DEF Answered
  <2>4. CASE pair[1] # k
    BY <1>4, <2>1, <2>2, <2>4 DEF Answered
  <2>5. QED
    BY <2>3, <2>4
<1>7. QED
  BY <1>5, <1>6

(* The clones that a detector has found and not yet handed on are out once
   only: they are not in the output queue or the report.                   *)
Once ==
  /\ \A w \in Workers : \A pair \in detector[w].todo :
       /\ pair[1] = detector[w].block
       /\ pair[2] \in begin + 1 .. fed
       /\ pair \notin Outputs
  /\ \A pair \in Outputs : pair[2] <= fed
  /\ Handed \cap outputQueue = {}

LEMMA NumbersTyped ==
  ASSUME WellTyped
  PROVE  /\ fed \in Nat /\ begin \in Nat /\ later \in Nat /\ begin <= fed
         /\ Places \subseteq Nat \ {0}
         /\ fed # 0 => fed \in Places
         /\ later # 0 => later \in Places
<1>1. Len(file) \in Nat
  BY FilesAssumption DEF WellTyped
<1>2. fed \in 0 .. Len(file) /\ begin \in 0 .. fed /\ later \in 0 .. Len(file)
  BY DEF WellTyped
<1>3. fed \in Nat
  BY <1>1, <1>2
<1>4. QED
  BY <1>1, <1>2, <1>3 DEF Places

LEMMA UnreadKept ==
  ASSUME UNCHANGED <<main, fed, later>>, Detecting' = Detecting, NEW j
  PROVE  Unput(j)' = Unput(j) /\ Unasked(j)' = Unasked(j)
BY DEF Unput, Unasked

LEMMA SpotsMain ==
  ASSUME WellTyped, Phases, Once, OneSpot, Answered, MainSteps, UNCHANGED choice
  PROVE  OneSpot' /\ Answered'
<1> USE DEF choice, clock, counting, indexing, querying, cloning
<1>1. /\ fed \in Nat /\ begin \in Nat /\ later \in Nat
      /\ Places \subseteq Nat
  BY NumbersTyped
<1>2. PICK someone \in Workers : TRUE
  BY PipelineAssumption
<1>3. ASSUME UNCHANGED detector PROVE Detecting' = Detecting
  BY <1>3 DEF Detecting
<1>4. ASSUME UNCHANGED gtfQueue PROVE ToIndex' = ToIndex
  BY <1>4 DEF ToIndex
<1>5. ASSUME UNCHANGED <<gtfQueue, inputQueue, builder, indexer, detectQueue, laterQueue, detector>>,
             \A j \in Places : Spot(j, "unread", someone)' => Spot(j, "unread", someone)
      PROVE  Stays
  <2>1. \A j : Spot(j, "unread", someone) <=> Unput(j) /\ Unasked(j)
    BY DEF Spot
  <2>2. \A j : Spot(j, "unread", someone)' <=> Unput(j)' /\ Unasked(j)'
    BY DEF Spot
  <2>3. ToIndex' = ToIndex
    BY <1>4, <1>5
  <2>4. SUFFICES ASSUME NEW j \in Places, NEW s \in Spots, NEW x \in Workers, Spot(j, s, x)'
                 PROVE  Spot(j, s, x)
    BY DEF Stays
  <2>5. Unput(j)' /\ Unasked(j)' => Unput(j) /\ Unasked(j)
    BY <1>5, <2>1, <2>2
  <2>6. QED
    BY <1>5, <2>3, <2>4, <2>5 DEF Spot
<1>6. CASE Reads
  <2>1. /\ main = "read" /\ main' = "put" /\ fed' = fed + 1 /\ later' = later /\ begin' = begin
        /\ UNCHANGED <<gtfQueue, inputQueue, builder, indexer, detectQueue, laterQueue, detector>>
        /\ UNCHANGED <<outputQueue, Handed>>
    BY <1>6 DEF Reads
  <2>2. ASSUME NEW j \in Places, Spot(j, "unread", someone)' PROVE Spot(j, "unread", someone)
    <3>1. j > fed
      <4>1. j > fed + 1 \/ j = fed + 1
        BY <2>1, <2>2 DEF Spot, Unput
      <4>2. QED
        BY <1>1, <4>1
    <3>2. Unasked(j)' = Unasked(j)
      BY <1>3, <2>1 DEF Unasked
    <3>3. QED
      BY <2>2, <3>1, <3>2 DEF Spot, Unput
  <2>3. Stays
    BY <1>5, <2>1, <2>2
  <2>4. QED
    BY <2>1, <2>3, SpotsStay DEF Outputs
<1>7. CASE Puts
  <2>1. /\ main = "put" /\ main' = "read" /\ UNCHANGED <<begin, fed, later>>
        /\ inputQueue' = inputQueue \cup {fed}
        /\ UNCHANGED <<gtfQueue, builder, indexer, detectQueue, laterQueue, detector>>
        /\ UNCHANGED <<outputQueue, Handed>>
    BY <1>7 DEF Puts
  <2>2. ~ Detecting /\ ~ Detecting'
    BY <1>3, <2>1 DEF Phases, Feeding
  <2>3. fed \in Places
    <3>1. begin < fed
      BY <2>1 DEF WellTyped
    <3>2. QED
      BY <1>1, <3>1, NumbersTyped
  <2>4. Spot(fed, "unread", someone)
    BY <2>1, <2>2 DEF Spot, Unput, Unasked
  <2>5. \A x \in Workers : ~ Spot(fed, "unread", x)'
    <3>1. ~ (fed > fed)
      BY <1>1
    <3>2. ~ Unput(fed)'
      BY <2>1, <3>1 DEF Unput
    <3>3. QED
      BY <3>2 DEF Spot
  <2>6. ASSUME NEW j \in Places, NEW s \in Spots, NEW x \in Workers, Spot(j, s, x)'
        PROVE  Spot(j, s, x) \/ (j = fed /\ s = "input")
    <3>1. Unput(j)' => Unput(j)
      BY <2>1 DEF Unput
    <3>2. Unasked(j)
      BY <2>2 DEF Unasked
    <3>3. ToIndex' = ToIndex
      BY <1>4, <2>1
    <3>4. QED
      BY <2>1, <2>6, <3>1, <3>2, <3>3 DEF Spot
  <2>7. "unread" \in Spots \ {"detector"} /\ "input" \in Spots /\ "input" \notin Threads
        /\ "unread" \notin Threads
    BY DEF Spots, Threads
  <2>8. Moves(fed, "unread", someone, "input", someone)
    BY <1>2, <2>3, <2>4, <2>5, <2>6, <2>7 DEF Moves
  <2>9. QED
    BY <2>1, <2>8, SpotsMove DEF Outputs
<1>8. CASE ReadsLater
  <2>1. /\ main = "query" /\ main' = "put query" /\ later' = later + 1 /\ UNCHANGED <<begin, fed>>
        /\ UNCHANGED <<gtfQueue, inputQueue, builder, indexer, detectQueue, laterQueue, detector>>
        /\ UNCHANGED <<outputQueue, Handed>>
    BY <1>8 DEF ReadsLater
  <2>2. ASSUME NEW j \in Places, Spot(j, "unread", someone)' PROVE Spot(j, "unread", someone)
    <3>1. Unput(j)
      BY <2>1, <2>2 DEF Spot, Unput
    <3>2. ASSUME Detecting PROVE j > later
      <4>1. j > later + 1 \/ j = later + 1
        BY <1>3, <2>1, <2>2, <3>2 DEF Spot, Unasked
      <4>2. QED
        BY <1>1, <4>1
    <3>3. Unasked(j)
      BY <3>2 DEF Unasked
    <3>4. QED
      BY <3>1, <3>3 DEF Spot
  <2>3. Stays
    BY <1>5, <2>1, <2>2
  <2>4. QED
    BY <2>1, <2>3, SpotsStay DEF Outputs
<1>9. CASE PutsLater
  <2>1. /\ main = "put query" /\ main' = "query" /\ UNCHANGED <<begin, fed, later>>
        /\ laterQueue' = laterQueue \cup {later}
        /\ UNCHANGED <<gtfQueue, builder, indexer, detectQueue, inputQueue, detector>>
        /\ UNCHANGED <<outputQueue, Handed>>
    BY <1>9 DEF PutsLater
  <2>2. Detecting /\ Detecting' /\ fed < later
    BY <1>3, <2>1 DEF Phases, Querying
  <2>3. later \in Places
    BY <1>1, <2>2, NumbersTyped
  <2>4. Spot(later, "unread", someone)
    <3>1. later > fed
      BY <1>1, <2>2
    <3>2. QED
      BY <2>1, <3>1 DEF Spot, Unput, Unasked
  <2>5. \A x \in Workers : ~ Spot(later, "unread", x)'
    <3>1. ~ (later > later)
      BY <1>1
    <3>2. ~ Unasked(later)'
      BY <2>1, <2>2, <3>1 DEF Unasked
    <3>3. QED
      BY <3>2 DEF Spot
  <2>6. ASSUME NEW j \in Places, NEW s \in Spots, NEW x \in Workers, Spot(j, s, x)'
        PROVE  Spot(j, s, x) \/ (j = later /\ s = "later")
    <3>1. Unput(j)' => Unput(j)
      BY <2>1 DEF Unput
    <3>2. Unasked(j)' => Unasked(j)
      BY <2>1, <2>2 DEF Unasked
    <3>3. ToIndex' = ToIndex
      BY <1>4, <2>1
    <3>4. QED
      BY <2>1, <2>6, <3>1, <3>2, <3>3 DEF Spot
  <2>7. "unread" \in Spots \ {"detector"} /\ "later" \in Spots /\ "later" \notin Threads
        /\ "unread" \notin Threads
    BY DEF Spots, Threads
  <2>8. Moves(later, "unread", someone, "later", someone)
    BY <1>2, <2>3, <2>4, <2>5, <2>6, <2>7 DEF Moves
  <2>9. QED
    BY <2>1, <2>8, SpotsMove DEF Outputs
<1>10. CASE Advances
  <2>1. /\ UNCHANGED <<begin, fed, later>>
        /\ UNCHANGED <<gtfQueue, inputQueue, builder, indexer, detectQueue, laterQueue, detector>>
        /\ UNCHANGED <<outputQueue, Handed>>
    BY <1>10 DEF Advances
  <2>2. main' \notin {"put", "put query"}
    BY <1>10 DEF Advances, AdvancesTo
  <2>3. ASSUME NEW j \in Places, Spot(j, "unread", someone)' PROVE Spot(j, "unread", someone)
    BY <1>3, <2>1, <2>2, <2>3 DEF Spot, Unput, Unasked
  <2>4. Stays
    BY <1>5, <2>1, <2>3
  <2>5. QED
    BY <2>1, <2>4, SpotsStay DEF Outputs
<1>11. CASE StartsIndexers
  <2>1. /\ UNCHANGED <<begin, fed, later>> /\ main' = "join indexers"
        /\ UNCHANGED <<gtfQueue, inputQueue, builder, detectQueue, laterQueue, detector>>
        /\ UNCHANGED <<outputQueue, Handed>>
        /\ indexer' = [w \in Workers |-> Taking]
    BY <1>11 DEF StartsIndexers
  <2>2. ASSUME NEW j \in Places, NEW s \in Spots, NEW x \in Workers, Spot(j, s, x)'
        PROVE  Spot(j, s, x)
    <3>1. Unput(j)' => Unput(j)
      BY <2>1 DEF Unput
    <3>2. Unasked(j)' => Unasked(j)
      BY <1>3, <2>1 DEF Unasked
    <3>3. ToIndex' = ToIndex
      BY <1>4, <2>1
    <3>4. indexer'[x].pc # "work"
      BY <2>1 DEF Taking
    <3>5. QED
      BY <2>1, <2>2, <3>1, <3>2, <3>3, <3>4 DEF Spot
  <2>3. QED
    BY <2>1, <2>2, SpotsStay DEF Outputs, Stays
<1>12. CASE StartsDetectors
  <2>1. /\ UNCHANGED <<begin, fed>> /\ main = "join indexers"
        /\ UNCHANGED <<gtfQueue, inputQueue, builder, indexer, detectQueue, laterQueue>>
        /\ UNCHANGED <<outputQueue, Handed>>
        /\ detector' = [w \in Workers |-> Taking]
    BY <1>12 DEF StartsDetectors
  <2>2. main' # "put"
    BY <1>12 DEF StartsDetectors
  <2>3. ~ Detecting
    BY <2>1 DEF Phases
  <2>4. ASSUME NEW j \in Places, NEW s \in Spots, NEW x \in Workers, Spot(j, s, x)'
        PROVE  Spot(j, s, x)
    <3>1. Unput(j)' => Unput(j)
      BY <2>1, <2>2 DEF Unput
    <3>2. Unasked(j)
      BY <2>3 DEF Unasked
    <3>3. ToIndex' = ToIndex
      BY <1>4, <2>1
    <3>4. detector'[x].pc # "work"
      BY <2>1 DEF Taking
    <3>5. QED
      BY <2>1, <2>4, <3>1, <3>2, <3>3, <3>4 DEF Spot
  <2>5. QED
    BY <2>1, <2>4, SpotsStay DEF Outputs, Stays
<1>13. CASE StartsPartition
  <2>1. /\ inputQueue' = {} /\ detectQueue' = {} /\ laterQueue' = {} /\ ToIndex' = {}
        /\ \A w \in Workers : /\ builder'[w].pc # "work" /\ indexer'[w].pc # "work"
                              /\ detector'[w].pc # "work"
        /\ begin' = fed
    BY <1>13, PartitionStarts
  <2>2. Outputs' = Outputs
    BY <1>13 DEF StartsPartition, Outputs
  <2>3. \A j, s, x : x \in Workers /\ Spot(j, s, x)' => s = "unread"
    BY <2>1 DEF Spot
  <2>4. "unread" \notin Threads
    BY DEF Threads
  <2>5. OneSpot'
    BY <2>3, <2>4 DEF OneSpot
  <2>6. \A pair \in Outputs : ~ (pair[2] > fed)
    <3>1. TAKE pair \in Outputs
    <3>2. pair[2] <= fed
      BY DEF Once
    <3>3. pair[2] \in Nat
      BY <1>1 DEF WellTyped, Outputs, Pairs
    <3>4. QED
      BY <1>1, <3>2, <3>3
  <2>7. Answered'
    BY <2>1, <2>2, <2>6 DEF Answered
  <2>8. QED
    BY <2>5, <2>7
<1>14. QED
  BY <1>6, <1>7, <1>8, <1>9, <1>10, <1>11, <1>12, <1>13 DEF MainSteps

(* A thread at work has a block.                                           *)
LEMMA BlockAtWork ==
  ASSUME NEW J, NEW thread \in [Workers -> Jobs(J)], NEW w \in Workers, thread[w].pc = "work"
  PROVE  thread[w].block \in Places /\ thread[w].todo \subseteq J
BY DEF Jobs, Tasks

LEMMA SpotsBuilder ==
  ASSUME WellTyped, Phases, OneSpot, Answered, UNCHANGED choice,
         NEW w \in Workers, BuilderSteps(w)
  PROVE  OneSpot' /\ Answered'
<1> USE DEF choice, clock, indexing, querying, cloning
<1>1. UNCHANGED <<main, fed, later, begin, file, indexer, detectQueue, laterQueue, detector>>
      /\ UNCHANGED <<outputQueue, Handed>>
  BY DEF BuilderSteps
<1>2. Detecting' = Detecting
  BY <1>1 DEF Detecting
<1>3. \A j : Unput(j)' = Unput(j) /\ Unasked(j)' = Unasked(j)
  BY <1>1, <1>2, UnreadKept
<1>4. Outputs' = Outputs
  BY <1>1 DEF Outputs
<1>5. builder \in [Workers -> Jobs(Terms)] /\ gtfQueue \in [Workers -> SUBSET Places]
      /\ inputQueue \subseteq Places
  BY DEF WellTyped
<1>6. "input" \in Spots \ {"detector"} /\ "builder" \in Spots \ {"detector"} /\ "counted" \in Spots
      /\ "input" \notin Threads /\ "counted" \notin Threads /\ "builder" \in Threads
  BY DEF Spots, Threads
<1>7. ASSUME NEW k \in Places, TakesInput(w, k) PROVE OneSpot' /\ Answered'
  <2>1. k \in inputQueue /\ inputQueue' = inputQueue \ {k} /\ gtfQueue' = gtfQueue
    BY <1>7 DEF TakesInput
  <2>2. builder' = [builder EXCEPT ![w] = At(k, TermsOf(file[k]))]
    BY <1>7 DEF TakesInput
  <2>3. builder'[w].block = k /\ \A x \in Workers \ {w} : builder'[x] = builder[x]
    BY <1>5, <2>2 DEF At
  <2>4. ToIndex' = ToIndex
    BY <2>1 DEF ToIndex
  <2>5. ASSUME NEW j \in Places, NEW s \in Spots, NEW x \in Workers, Spot(j, s, x)'
        PROVE  Spot(j, s, x) \/ (j = k /\ s = "builder" /\ x = w)
    BY <1>1, <1>3, <2>1, <2>3, <2>4, <2>5 DEF Spot
  <2>6. Spot(k, "input", w) /\ \A x \in Workers : ~ Spot(k, "input", x)'
    BY <2>1 DEF Spot
  <2>7. Moves(k, "input", w, "builder", w)
    BY <1>6, <2>5, <2>6 DEF Moves
  <2>8. QED
    BY <1>1, <1>4, <2>7, SpotsMove
<1>8. ASSUME NEW t \in Terms, AddsTerm(w, t) PROVE OneSpot' /\ Answered'
  <2>1. builder[w].pc = "work" /\ inputQueue' = inputQueue /\ gtfQueue' = gtfQueue
        /\ builder' = [builder EXCEPT ![w] = At(builder[w].block, builder[w].todo \ {t})]
    BY <1>8 DEF AddsTerm
  <2>2. \A x \in Workers : builder'[x].pc = builder[x].pc /\ builder'[x].block = builder[x].block
    BY <1>5, <2>1 DEF At
  <2>3. ToIndex' = ToIndex
    BY <2>1 DEF ToIndex
  <2>4. ASSUME NEW j \in Places, NEW s \in Spots, NEW x \in Workers, Spot(j, s, x)'
        PROVE  Spot(j, s, x)
    BY <1>1, <1>3, <2>1, <2>2, <2>3, <2>4 DEF Spot
  <2>5. QED
    BY <1>1, <1>4, <2>4, SpotsStay DEF Stays
<1>9. CASE PutsCounted(w)
  <2>1. builder[w].pc = "work" /\ inputQueue' = inputQueue
        /\ gtfQueue' = [gtfQueue EXCEPT ![w] = gtfQueue[w] \cup {builder[w].block}]
        /\ builder' = [builder EXCEPT ![w] = Taking]
    BY <1>9 DEF PutsCounted
  <2>2. builder[w].block \in Places
    BY <1>5, <2>1, BlockAtWork
  <2>3. PICK k \in Places : k = builder[w].block
    BY <2>2
  <2>4. builder'[w].pc = "take" /\ \A x \in Workers \ {w} : builder'[x] = builder[x]
    BY <1>5, <2>1 DEF Taking
  <2>5. \A x \in Workers : gtfQueue'[x] \subseteq gtfQueue[x] \cup {k}
    BY <1>5, <2>1, <2>3
  <2>6. ToIndex' \subseteq ToIndex \cup {k}
    BY <2>5 DEF ToIndex
  <2>7. ASSUME NEW j \in Places, NEW s \in Spots, NEW x \in Workers, Spot(j, s, x)'
        PROVE  Spot(j, s, x) \/ (j = k /\ s = "counted")
    BY <1>1, <1>3, <2>1, <2>4, <2>6, <2>7 DEF Spot
  <2>8. Spot(k, "builder", w) /\ ~ Spot(k, "builder", w)'
    BY <2>1, <2>3, <2>4 DEF Spot
  <2>9. Moves(k, "builder", w, "counted", w)
    BY <1>6, <2>7, <2>8 DEF Moves
  <2>10. QED
    BY <1>1, <1>4, <2>9, SpotsMove
<1>10. CASE BuilderStops(w)
  <2>1. builder' \in {[builder EXCEPT ![w] = Ended], [builder EXCEPT ![w] = Dead]}
        /\ inputQueue' \subseteq inputQueue
        /\ \A v \in Workers : gtfQueue'[v] \subseteq gtfQueue[v]
    BY <1>10 DEF BuilderStops
  <2>2. builder'[w].pc # "work" /\ \A x \in Workers \ {w} : builder'[x] = builder[x]
    BY <1>5, <2>1 DEF Ended, Dead
  <2>3. ToIndex' \subseteq ToIndex
    BY <2>1 DEF ToIndex
  <2>4. ASSUME NEW j \in Places, NEW s \in Spots, NEW x \in Workers, Spot(j, s, x)'
        PROVE  Spot(j, s, x)
    BY <1>1, <1>3, <2>1, <2>2, <2>3, <2>4 DEF Spot
  <2>5. QED
    BY <1>1, <1>4, <2>4, SpotsStay DEF Stays
<1>11. QED
  BY <1>7, <1>8, <1>9, <1>10 DEF BuilderSteps

LEMMA SpotsIndexer ==
  ASSUME WellTyped, Phases, IndexFilled, OneSpot, Answered, UNCHANGED choice,
         NEW w \in Workers, IndexerSteps(w)
  PROVE  OneSpot' /\ Answered'
<1> USE DEF choice, clock, querying, cloning
<1>1. UNCHANGED <<main, fed, later, begin, file, builder, laterQueue, detector>>
      /\ UNCHANGED <<outputQueue, Handed>>
  BY DEF IndexerSteps
<1>2. Detecting' = Detecting
  BY <1>1 DEF Detecting
<1>3. \A j : Unput(j)' = Unput(j) /\ Unasked(j)' = Unasked(j)
  BY <1>1, <1>2, UnreadKept
<1>4. Outputs' = Outputs
  BY <1>1 DEF Outputs
<1>5. indexer \in [Workers -> Jobs(Terms)]
  BY DEF WellTyped
<1>6. "input" \in Spots \ {"detector"} /\ "indexer" \in Spots \ {"detector"}
      /\ "counted" \in Spots \ {"detector"} /\ "indexed" \in Spots
      /\ "input" \notin Threads /\ "counted" \notin Threads /\ "indexed" \notin Threads
      /\ "indexer" \in Threads
  BY DEF Spots, Threads
<1>7. ASSUME NEW k \in Places, Skips(w, k) PROVE OneSpot' /\ Answered'
  <2>1. Draws(k) /\ UNCHANGED <<indexer, detectQueue>>
    BY <1>7 DEF Skips, indexing
  <2>2. inputQueue' \subseteq inputQueue /\ ToIndex' \subseteq ToIndex
    BY <2>1, DrawsBlock
  <2>3. Stays
    BY <1>1, <1>3, <2>1, <2>2 DEF Stays, Spot
  <2>4. QED
    BY <1>1, <1>4, <2>3, SpotsStay
<1>8. ASSUME NEW k \in Places, Prefixes(w, k) PROVE OneSpot' /\ Answered'
  <2>1. Draws(k) /\ detectQueue' = detectQueue
        /\ \E S : indexer' = [indexer EXCEPT ![w] = At(k, S)]
    BY <1>8 DEF Prefixes
  <2>2. /\ inputQueue' \subseteq inputQueue /\ ToIndex' \subseteq ToIndex
        /\ ~ options.presorted => ToIndex' = ToIndex \ {k}
    BY <2>1, DrawsBlock
  <2>3. indexer'[w].block = k /\ \A x \in Workers \ {w} : indexer'[x] = indexer[x]
    BY <1>5, <2>1 DEF At
  <2>4. ASSUME NEW j \in Places, NEW s \in Spots, NEW x \in Workers, Spot(j, s, x)'
        PROVE  Spot(j, s, x) \/ (j = k /\ s = "indexer" /\ x = w)
    BY <1>1, <1>3, <2>1, <2>2, <2>3, <2>4 DEF Spot
  <2>5. CASE options.presorted
    <3>1. k \in inputQueue /\ k \notin inputQueue'
      BY <2>1, <2>5 DEF Draws
    <3>2. Spot(k, "input", w) /\ \A x \in Workers : ~ Spot(k, "input", x)'
      BY <3>1 DEF Spot
    <3>3. Moves(k, "input", w, "indexer", w)
      BY <1>6, <2>4, <3>2 DEF Moves
    <3>4. QED
      BY <1>1, <1>4, <3>3, SpotsMove
  <2>6. CASE ~ options.presorted
    <3>1. k \in ToIndex /\ k \notin ToIndex'
      BY <2>1, <2>2, <2>6 DEF Draws
    <3>2. Spot(k, "counted", w) /\ \A x \in Workers : ~ Spot(k, "counted", x)'
      BY <3>1 DEF Spot
    <3>3. Moves(k, "counted", w, "indexer", w)
      BY <1>6, <2>4, <3>2 DEF Moves
    <3>4. QED
      BY <1>1, <1>4, <3>3, SpotsMove
  <2>7. QED
    BY <2>5, <2>6
<1>9. ASSUME NEW t \in Terms, IndexesTerm(w, t) PROVE OneSpot' /\ Answered'
  <2>1. /\ indexer[w].pc = "work" /\ UNCHANGED <<inputQueue, gtfQueue, detectQueue>>
        /\ indexer' = [indexer EXCEPT ![w] = At(indexer[w].block, indexer[w].todo \ {t})]
    BY <1>9 DEF IndexesTerm
  <2>2. \A x \in Workers : indexer'[x].pc = indexer[x].pc /\ indexer'[x].block = indexer[x].block
    BY <1>5, <2>1 DEF At
  <2>3. ToIndex' = ToIndex
    BY <2>1 DEF ToIndex
  <2>4. ASSUME NEW j \in Places, NEW s \in Spots, NEW x \in Workers, Spot(j, s, x)'
        PROVE  Spot(j, s, x)
    BY <1>1, <1>3, <2>1, <2>2, <2>3, <2>4 DEF Spot
  <2>5. QED
    BY <1>1, <1>4, <2>4, SpotsStay DEF Stays
<1>10. CASE PutsIndexed(w)
  <2>1. /\ indexer[w].pc = "work" /\ UNCHANGED <<inputQueue, gtfQueue>>
        /\ detectQueue' = detectQueue \cup {indexer[w].block}
        /\ indexer' = [indexer EXCEPT ![w] = Taking]
    BY <1>10 DEF PutsIndexed
  <2>2. indexer[w].block \in Places
    BY <1>5, <2>1, BlockAtWork
  <2>3. PICK k \in Places : k = indexer[w].block
    BY <2>2
  <2>4. indexer'[w].pc = "take" /\ \A x \in Workers \ {w} : indexer'[x] = indexer[x]
    BY <1>5, <2>1 DEF Taking
  <2>5. ToIndex' = ToIndex
    BY <2>1 DEF ToIndex
  <2>6. ASSUME NEW j \in Places, NEW s \in Spots, NEW x \in Workers, Spot(j, s, x)'
        PROVE  Spot(j, s, x) \/ (j = k /\ s = "indexed")
    BY <1>1, <1>3, <2>1, <2>3, <2>4, <2>5, <2>6 DEF Spot
  <2>7. Spot(k, "indexer", w) /\ ~ Spot(k, "indexer", w)'
    BY <2>1, <2>3, <2>4 DEF Spot
  <2>8. Moves(k, "indexer", w, "indexed", w)
    BY <1>6, <2>6, <2>7 DEF Moves
  <2>9. QED
    BY <1>1, <1>4, <2>8, SpotsMove
<1>11. CASE IndexerStops(w)
  <2>1. indexer' \in {[indexer EXCEPT ![w] = Ended], [indexer EXCEPT ![w] = Dead]}
        /\ inputQueue' \subseteq inputQueue /\ detectQueue' \subseteq detectQueue
        /\ gtfQueue' = gtfQueue
    BY <1>11 DEF IndexerStops
  <2>2. indexer'[w].pc # "work" /\ \A x \in Workers \ {w} : indexer'[x] = indexer[x]
    BY <1>5, <2>1 DEF Ended, Dead
  <2>3. ToIndex' = ToIndex
    BY <2>1 DEF ToIndex
  <2>4. ASSUME NEW j \in Places, NEW s \in Spots, NEW x \in Workers, Spot(j, s, x)'
        PROVE  Spot(j, s, x)
    BY <1>1, <1>3, <2>1, <2>2, <2>3, <2>4 DEF Spot
  <2>5. QED
    BY <1>1, <1>4, <2>4, SpotsStay DEF Stays
<1>12. QED
  BY <1>7, <1>8, <1>9, <1>10, <1>11 DEF IndexerSteps

LEMMA SpotsDetector ==
  ASSUME WellTyped, Phases, Once, OneSpot, Answered, UNCHANGED choice,
         NEW w \in Workers, DetectorSteps(w)
  PROVE  OneSpot' /\ Answered'
<1> USE DEF choice, clock, counting
<1>1. UNCHANGED <<main, fed, later, begin, file, inputQueue, builder, gtfQueue, indexer>>
      /\ Handed' = Handed
  BY DEF DetectorSteps
<1>2. Detecting' = Detecting
  <2>1. Detecting /\ Detecting'
    BY StillDetecting
  <2>2. QED
    BY <2>1 DEF Detecting
<1>3. \A j : Unput(j)' = Unput(j) /\ Unasked(j)' = Unasked(j)
  BY <1>1, <1>2, UnreadKept
<1>4. ToIndex' = ToIndex
  BY <1>1 DEF ToIndex
<1>5. detector \in [Workers -> Jobs(Pairs)]
  BY DEF WellTyped
<1>6. "indexed" \in Spots \ {"detector"} /\ "later" \in Spots \ {"detector"} /\ "detector" \in Spots
      /\ "indexed" \notin Threads /\ "later" \notin Threads /\ "detector" \in Threads
  BY DEF Spots, Threads
<1>7. ASSUME NEW k \in Places, Queries(w, k) PROVE OneSpot' /\ Answered'
  <2>1. /\ k \in detectQueue /\ detectQueue' = detectQueue \ {k}
        /\ UNCHANGED <<laterQueue, outputQueue>>
        /\ \E S : detector' = [detector EXCEPT ![w] = At(k, S)]
    BY <1>7 DEF Queries
  <2>2. detector'[w].block = k /\ \A x \in Workers \ {w} : detector'[x] = detector[x]
    BY <1>5, <2>1 DEF At
  <2>3. ASSUME NEW j \in Places, NEW s \in Spots, NEW x \in Workers, Spot(j, s, x)'
        PROVE  Spot(j, s, x) \/ (j = k /\ s = "detector" /\ x = w)
    BY <1>1, <1>3, <1>4, <2>1, <2>2, <2>3 DEF Spot
  <2>4. Spot(k, "indexed", w) /\ \A x \in Workers : ~ Spot(k, "indexed", x)'
    BY <2>1 DEF Spot
  <2>5. Moves(k, "indexed", w, "detector", w)
    BY <1>6, <2>3, <2>4 DEF Moves
  <2>6. QED
    BY <1>1, <2>1, <2>5, SpotsMove DEF Outputs
<1>8. ASSUME NEW k \in Places, QueriesLater(w, k) PROVE OneSpot' /\ Answered'
  <2>1. /\ k \in laterQueue /\ laterQueue' = laterQueue \ {k}
        /\ UNCHANGED <<detectQueue, outputQueue>>
        /\ \E S : detector' = [detector EXCEPT ![w] = At(k, S)]
    BY <1>8 DEF QueriesLater
  <2>2. detector'[w].block = k /\ \A x \in Workers \ {w} : detector'[x] = detector[x]
    BY <1>5, <2>1 DEF At
  <2>3. ASSUME NEW j \in Places, NEW s \in Spots, NEW x \in Workers, Spot(j, s, x)'
        PROVE  Spot(j, s, x) \/ (j = k /\ s = "detector" /\ x = w)
    BY <1>1, <1>3, <1>4, <2>1, <2>2, <2>3 DEF Spot
  <2>4. Spot(k, "later", w) /\ \A x \in Workers : ~ Spot(k, "later", x)'
    BY <2>1 DEF Spot
  <2>5. Moves(k, "later", w, "detector", w)
    BY <1>6, <2>3, <2>4 DEF Moves
  <2>6. QED
    BY <1>1, <2>1, <2>5, SpotsMove DEF Outputs
<1>9. ASSUME \A x \in Workers : detector'[x].pc = "work" =>
               detector[x].pc = "work" /\ detector'[x].block = detector[x].block,
             detectQueue' \subseteq detectQueue, laterQueue' \subseteq laterQueue
      PROVE  Stays
  <2>1. ASSUME NEW j \in Places, NEW s \in Spots, NEW x \in Workers, Spot(j, s, x)'
        PROVE  Spot(j, s, x)
    BY <1>1, <1>3, <1>4, <1>9, <2>1 DEF Spot
  <2>2. QED
    BY <2>1 DEF Stays
<1>10. ASSUME Stays, outputQueue' \subseteq outputQueue PROVE OneSpot' /\ Answered'
  BY <1>1, <1>10, SpotsStay DEF Outputs
<1>11. ASSUME NEW k \in Places, SkipsLater(w, k) PROVE OneSpot' /\ Answered'
  BY <1>9, <1>10, <1>11 DEF SkipsLater
<1>12. ASSUME NEW pair \in Pairs, PutsClone(w, pair) PROVE OneSpot' /\ Answered'
  <2>1. /\ UNCHANGED <<detectQueue, laterQueue>>
        /\ detector[w].pc = "work" /\ pair \in detector[w].todo
        /\ outputQueue' = outputQueue \cup {pair}
        /\ detector' = [detector EXCEPT ![w] = At(detector[w].block, detector[w].todo \ {pair})]
    BY <1>12 DEF PutsClone
  <2>2. \A x \in Workers : detector'[x].pc = detector[x].pc
                        /\ detector'[x].block = detector[x].block
    BY <1>5, <2>1 DEF At
  <2>3. Stays
    BY <1>9, <2>1, <2>2
  <2>4. OneSpot'
    BY <1>1, <2>3, SpotsStay
  <2>5. pair[1] = detector[w].block /\ pair[1] \in Places
    BY <1>12, <2>1 DEF Once, Pairs
  <2>6. Spot(pair[1], "detector", w)
    BY <2>1, <2>5 DEF Spot
  <2>7. ASSUME NEW p \in Outputs', NEW s \in Spots, NEW x \in Workers,
               p[2] > begin, Spot(p[1], s, x)'
        PROVE  s = "detector"
    <3>1. CASE p = pair
      <4>1. Spot(p[1], s, x)
        BY <2>3, <2>5, <2>7, <3>1 DEF Stays
      <4>2. QED
        BY <1>6, <2>5, <2>6, <3>1, <4>1 DEF OneSpot
    <3>2. CASE p # pair
      <4>1. p \in Outputs /\ p[1] \in Places
        BY <1>1, <2>1, <2>7, <3>2 DEF Outputs, WellTyped, Pairs
      <4>2. Spot(p[1], s, x)
        BY <2>3, <2>7, <4>1 DEF Stays
      <4>3. QED
        BY <2>7, <4>1, <4>2 DEF Answered
    <3>3. QED
      BY <3>1, <3>2
  <2>8. Answered'
    BY <1>1, <2>7 DEF Answered
  <2>9. QED
    BY <2>4, <2>8
<1>13. CASE EndsQuery(w)
  <2>1. /\ UNCHANGED <<detectQueue, laterQueue, outputQueue>>
        /\ detector' = [detector EXCEPT ![w] = Taking]
    BY <1>13 DEF EndsQuery
  <2>2. detector'[w].pc # "work" /\ \A x \in Workers \ {w} : detector'[x] = detector[x]
    BY <1>5, <2>1 DEF Taking
  <2>3. QED
    BY <1>9, <1>10, <2>1, <2>2
<1>14. CASE Switches(w)
  BY <1>9, <1>10, <1>14 DEF Switches
<1>15. CASE DetectorStops(w)
  <2>1. /\ detectQueue' = detectQueue
        /\ laterQueue' \subseteq laterQueue /\ outputQueue' \subseteq outputQueue
        /\ detector' \in {[detector EXCEPT ![w] = Ended], [detector EXCEPT ![w] = Dead]}
    BY <1>15 DEF DetectorStops
  <2>2. detector'[w].pc # "work" /\ \A x \in Workers \ {w} : detector'[x] = detector[x]
    BY <1>5, <2>1 DEF Ended, Dead
  <2>3. QED
    BY <1>9, <1>10, <2>1, <2>2
<1>16. QED
  BY <1>7, <1>8, <1>11, <1>12, <1>13, <1>14, <1>15 DEF DetectorSteps

LEMMA SpotsStep ==
  ASSUME WellTyped, Phases, IndexFilled, Once, OneSpot, Answered, Steps \/ UNCHANGED state
  PROVE  OneSpot' /\ Answered'
<1> USE DEF choice, clock, counting, indexing, querying, cloning
<1>1. UNCHANGED choice
  BY DEF Steps, state
<1>2. CASE WriterSteps \/ UNCHANGED state
  <2>1. UNCHANGED <<main, fed, later, begin, inputQueue, builder, gtfQueue, indexer, detectQueue,
                    detector, laterQueue>>
    BY <1>2 DEF WriterSteps, state
  <2>2. Detecting' = Detecting /\ ToIndex' = ToIndex
    BY <2>1 DEF Detecting, ToIndex
  <2>3. \A j : Unput(j)' = Unput(j) /\ Unasked(j)' = Unasked(j)
    BY <2>1, <2>2, UnreadKept
  <2>4. ASSUME NEW j \in Places, NEW s \in Spots, NEW x \in Workers, Spot(j, s, x)'
        PROVE  Spot(j, s, x)
    BY <2>1, <2>2, <2>3, <2>4 DEF Spot
  <2>5. Outputs' \subseteq Outputs
    BY <1>2 DEF WriterSteps, Writes, state, Outputs
  <2>6. QED
    BY <1>1, <2>1, <2>4, <2>5, SpotsStay DEF Stays
<1>3. CASE MainSteps
  BY <1>1, <1>3, SpotsMain
<1>4. ASSUME NEW w \in Workers, BuilderSteps(w) PROVE OneSpot' /\ Answered'
  BY <1>1, <1>4, SpotsBuilder
<1>5. ASSUME NEW w \in Workers, IndexerSteps(w) PROVE OneSpot' /\ Answered'
  BY <1>1, <1>5, SpotsIndexer
<1>6. ASSUME NEW w \in Workers, DetectorSteps(w) PROVE OneSpot' /\ Answered'
  BY <1>1, <1>6, SpotsDetector
<1>7. QED
  BY <1>2, <1>3, <1>4, <1>5, <1>6 DEF Steps

-----------------------------------------------------------------------------
(* What a detector finds.                                                  *)

LEMMA SameClones ==
  ASSUME NEW b, NEW c
  PROVE  Block!ClonePair(b, c, threshold) = ByName!ClonePair(b, c, threshold)
<1>1. Block!HaveCommonLine(b, c) = ByName!HaveCommonLine(b, c)
  BY DEF Block!HaveCommonLine, ByName!HaveCommonLine
<1>2. Block!Similar(b, c, threshold) = ByName!Similar(b, c, threshold)
  BY DEF Block!Similar, ByName!Similar, Block!numShared, ByName!numShared, Block!Shared,
         ByName!Shared, Block!Larger, ByName!Larger, Block!numTokens, ByName!numTokens,
         Block!Tokens, ByName!Tokens, Block!TokensOf, ByName!TokensOf, Block!Cardinality,
         ByName!Cardinality
<1>3. QED
  BY <1>1, <1>2 DEF Block!ClonePair, ByName!ClonePair

LEMMA InClonesOf ==
  ASSUME WellTyped, NEW pair
  PROVE  pair \in ClonesOf[file] <=>
           /\ pair \in Pairs
           /\ Approved(file[pair[1]]) /\ Approved(file[pair[2]])
           /\ ByName!ClonePair(file[pair[1]], file[pair[2]], threshold)
<1>1. file \in Files
  BY DEF WellTyped
<1>2. DOMAIN file = Places
  BY <1>1, FilesAssumption DEF Places
<1>3. QED
  BY <1>1, <1>2 DEF ClonesOf, Pairs

(* ... is a pair of clones, of the block and one of the partition.         *)
LEMMA FoundRight ==
  ASSUME WellTyped, Phases, IndexFilled, Detecting, NEW k \in Places, Approved(file[k]),
         NEW T \in SUBSET Terms, NEW pair \in DetectClones(k, T)
  PROVE  /\ pair[1] = k /\ pair[2] \in begin + 1 .. fed
         /\ pair \in ClonesOf[file]
<1>1. PICK t \in T : \E d \in index[t] :
        pair = <<k, d>> /\ Block!ClonePair(file[k], file[d], threshold)
  BY DEF DetectClones
<1>2. PICK d \in index[t] :
        pair = <<k, d>> /\ Block!ClonePair(file[k], file[d], threshold)
  BY <1>1
<1>3. d \in Places
  BY <1>1 DEF WellTyped
<1>4. prefix[d] # {}
  BY <1>1, <1>2 DEF IndexFilled, IndexRight
<1>5. d \in InPartition /\ Approved(file[d])
  BY <1>3, <1>4 DEF IndexFilled, PrefixesRight
<1>6. d \in begin + 1 .. fed
  BY <1>5, AllPut
<1>7. pair \in Pairs /\ pair[1] = k /\ pair[2] = d
  BY <1>2, <1>3 DEF Pairs
<1>8. ByName!ClonePair(file[k], file[d], threshold)
  BY <1>2, SameClones
<1>9. QED
  BY <1>5, <1>6, <1>7, <1>8, InClonesOf

Sound ==
  /\ \A w \in Workers : detector[w].todo \subseteq ClonesOf[file]
  /\ outputQueue \subseteq ClonesOf[file]

LEMMA IdleHasNothing ==
  ASSUME WellTyped, NEW w \in Workers, detector[w].pc # "work"
  PROVE  detector[w].todo = {}
<1>1. detector[w] \in Jobs(Pairs)
  BY DEF WellTyped
<1>2. QED
  BY <1>1 DEF Jobs, Tasks

(* Steps that find nothing and hand nothing on.                            *)
LEMMA ClonesKept ==
  ASSUME Once, Sound, UNCHANGED <<file, begin, fed>>,
         outputQueue' \subseteq outputQueue, Outputs' \subseteq Outputs,
         Handed' \cap outputQueue' = {},
         \A w \in Workers : \/ detector'[w].todo = {}
                            \/ detector'[w] = detector[w]
  PROVE  Once' /\ Sound'
<1>1. ClonesOf[file]' = ClonesOf[file]
  BY DEF ClonesOf, ByName!ClonePair
<1>2. Once'
  <2>1. \A w \in Workers : \A pair \in detector'[w].todo :
          /\ pair[1] = detector'[w].block
          /\ pair[2] \in begin + 1 .. fed
          /\ pair \notin Outputs'
    BY DEF Once
  <2>2. \A pair \in Outputs' : pair[2] <= fed
    BY DEF Once
  <2>3. QED
    BY <2>1, <2>2 DEF Once
<1>3. Sound'
  BY <1>1 DEF Sound
<1>4. QED
  BY <1>2, <1>3

LEMMA ClonesMain ==
  ASSUME WellTyped, Phases, Once, Sound, MainSteps, UNCHANGED choice
  PROVE  Once' /\ Sound'
<1> USE DEF choice, clock, counting, indexing, querying, cloning
<1>1. ClonesOf[file]' = ClonesOf[file]
  BY DEF ClonesOf
<1>2. fed \in Nat /\ begin \in Nat /\ begin <= fed
  BY NumbersTyped
<1>3. \A pair \in Outputs : pair[2] \in Nat
  BY NumbersTyped DEF WellTyped, Outputs, Pairs
<1>4. CASE Reads
  <2>1. /\ fed' = fed + 1 /\ begin' = begin
        /\ UNCHANGED <<detector, outputQueue, Handed>> /\ main = "read"
    BY <1>4 DEF Reads
  <2>2. \A w \in Workers : detector[w].todo = {}
    <3>1. ~ Detecting
      BY <2>1 DEF Phases, Feeding
    <3>2. QED
      BY <3>1, IdleHasNothing DEF Detecting
  <2>3. \A pair \in Outputs : pair[2] <= fed + 1
    <3>1. TAKE pair \in Outputs
    <3>2. pair[2] \in Nat /\ pair[2] <= fed
      BY <1>3 DEF Once
    <3>3. QED
      BY <1>2, <3>2
  <2>4. Outputs' = Outputs /\ Handed \cap outputQueue = {}
    BY <2>1 DEF Outputs, Once
  <2>5. Once'
    BY <2>1, <2>2, <2>3, <2>4 DEF Once
  <2>6. Sound'
    BY <1>1, <2>1, <2>2 DEF Sound
  <2>7. QED
    BY <2>5, <2>6
<1>5. CASE StartsPartition
  <2>1. /\ begin' = fed /\ fed' = fed
        /\ \A w \in Workers : detector'[w].todo = {}
    BY <1>5, PartitionStarts
  <2>2. UNCHANGED <<outputQueue, Handed>>
    BY <1>5 DEF StartsPartition
  <2>3. Outputs' = Outputs /\ Handed \cap outputQueue = {}
    BY <2>2 DEF Outputs, Once
  <2>4. Once'
    BY <2>1, <2>2, <2>3 DEF Once
  <2>5. Sound'
    BY <1>1, <2>1, <2>2 DEF Sound
  <2>6. QED
    BY <2>4, <2>5
<1>6. CASE Puts \/ ReadsLater \/ PutsLater \/ Advances \/ StartsIndexers \/ StartsDetectors
  <2>1. UNCHANGED <<begin, fed, outputQueue, Handed>>
    BY <1>6 DEF Puts, ReadsLater, PutsLater, Advances, StartsIndexers, StartsDetectors
  <2>2. \/ detector' = detector \/ detector' = [w \in Workers |-> Taking]
    BY <1>6 DEF Puts, ReadsLater, PutsLater, Advances, StartsIndexers, StartsDetectors
  <2>3. \A w \in Workers : detector'[w].todo = {} \/ detector'[w] = detector[w]
    BY <2>2 DEF Taking
  <2>4. Outputs' = Outputs /\ Handed \cap outputQueue = {}
    BY <2>1 DEF Outputs, Once
  <2>5. QED
    BY <2>1, <2>3, <2>4, ClonesKept
<1>7. QED
  BY <1>4, <1>5, <1>6 DEF MainSteps

LEMMA ClonesDetector ==
  ASSUME WellTyped, Phases, IndexFilled, OneSpot, Answered, Once, Sound, UNCHANGED choice,
         NEW w \in Workers, DetectorSteps(w)
  PROVE  Once' /\ Sound'
<1> USE DEF choice, clock
<1>1. UNCHANGED <<begin, fed, Handed, file>>
  BY DEF DetectorSteps
<1>2. ClonesOf[file]' = ClonesOf[file]
  BY DEF ClonesOf
<1>3. detector \in [Workers -> Jobs(Pairs)]
  BY DEF WellTyped
<1>4. Detecting
  BY StillDetecting
<1>5. begin \in Nat /\ fed \in Nat
  BY NumbersTyped
<1>6. Handed \cap outputQueue = {}
  BY DEF Once
<1>7. ASSUME NEW k \in Places, Approved(file[k]), NEW T \in SUBSET Terms,
             Spot(k, "indexed", w) \/ Spot(k, "later", w),
             detector' = [detector EXCEPT ![w] = At(k, DetectClones(k, T))],
             outputQueue' = outputQueue
      PROVE  Once' /\ Sound'
  <2>1. /\ detector'[w].block = k /\ detector'[w].todo = DetectClones(k, T)
        /\ \A x \in Workers \ {w} : detector'[x] = detector[x]
    BY <1>3, <1>7 DEF At
  <2>2. Outputs' = Outputs
    BY <1>1, <1>7 DEF Outputs
  <2>3. ASSUME NEW pair \in DetectClones(k, T)
        PROVE  /\ pair[1] = k /\ pair[2] \in begin + 1 .. fed
               /\ pair \in ClonesOf[file]
    BY <1>4, <1>7, <2>3, FoundRight
  <2>4. ASSUME NEW pair \in DetectClones(k, T) PROVE pair \notin Outputs
    <3>1. pair[2] > begin
      BY <1>5, <2>3
    <3>2. "indexed" \in Spots /\ "later" \in Spots
      BY DEF Spots
    <3>3. QED
      BY <1>7, <2>3, <3>1, <3>2 DEF Answered
  <2>5. Once'
    <3>1. ASSUME NEW v \in Workers, NEW pair \in detector'[v].todo
          PROVE  /\ pair[1] = detector'[v].block
                 /\ pair[2] \in begin + 1 .. fed
                 /\ pair \notin Outputs
      <4>1. CASE v = w
        BY <2>1, <2>3, <2>4, <3>1, <4>1
      <4>2. CASE v # w
        BY <2>1, <3>1, <4>2 DEF Once
      <4>3. QED
        BY <4>1, <4>2
    <3>2. \A pair \in Outputs : pair[2] <= fed
      BY DEF Once
    <3>3. QED
      BY <1>1, <1>6, <1>7, <2>2, <3>1, <3>2 DEF Once
  <2>6. Sound'
    <3>1. \A v \in Workers : detector'[v].todo \subseteq ClonesOf[file]
      BY <2>1, <2>3 DEF Sound
    <3>2. QED
      BY <1>2, <1>7, <3>1 DEF Sound
  <2>7. QED
    BY <2>5, <2>6
<1>8. ASSUME NEW k \in Places, Queries(w, k) PROVE Once' /\ Sound'
  <2>1. /\ k \in detectQueue /\ outputQueue' = outputQueue
        /\ detector' = [detector EXCEPT ![w] = At(k, DetectClones(k, prefix[k]))]
    BY <1>8 DEF Queries
  <2>2. prefix[k] \in SUBSET Terms
    BY DEF WellTyped
  <2>3. Approved(file[k])
    BY <2>1 DEF IndexFilled, IndexRight, PrefixesRight
  <2>4. Spot(k, "indexed", w)
    BY <2>1 DEF Spot
  <2>5. QED
    BY <1>7, <2>1, <2>2, <2>3, <2>4
<1>9. ASSUME NEW k \in Places, QueriesLater(w, k) PROVE Once' /\ Sound'
  <2>1. /\ k \in laterQueue /\ outputQueue' = outputQueue /\ Approved(file[k])
        /\ detector' =
             [detector EXCEPT ![w] = At(k, DetectClones(k, PrefixOf(RankOf(k), file[k])))]
    BY <1>9 DEF QueriesLater
  <2>2. PrefixOf(RankOf(k), file[k]) \in SUBSET Terms
    BY DEF PrefixOf, ByName!TermsOf
  <2>3. Spot(k, "later", w)
    BY <2>1 DEF Spot
  <2>4. QED
    BY <1>7, <2>1, <2>2, <2>3
<1>10. ASSUME outputQueue' \subseteq outputQueue,
              detector'[w].todo = {} \/ detector'[w] = detector[w],
              \A x \in Workers \ {w} : detector'[x] = detector[x]
       PROVE  Once' /\ Sound'
  <2>1. Outputs' \subseteq Outputs /\ Handed' \cap outputQueue' = {}
    BY <1>1, <1>6, <1>10 DEF Outputs
  <2>2. \A x \in Workers : detector'[x].todo = {} \/ detector'[x] = detector[x]
    BY <1>10
  <2>3. QED
    BY <1>1, <1>10, <2>1, <2>2, ClonesKept
<1>11. ASSUME NEW k \in Places, SkipsLater(w, k) PROVE Once' /\ Sound'
  BY <1>10, <1>11 DEF SkipsLater
<1>12. ASSUME NEW pair \in Pairs, PutsClone(w, pair) PROVE Once' /\ Sound'
  <2>1. /\ detector[w].pc = "work" /\ pair \in detector[w].todo
        /\ outputQueue' = outputQueue \cup {pair}
        /\ detector' = [detector EXCEPT ![w] = At(detector[w].block, detector[w].todo \ {pair})]
    BY <1>12 DEF PutsClone
  <2>2. /\ detector'[w].block = detector[w].block
        /\ detector'[w].todo = detector[w].todo \ {pair}
        /\ \A x \in Workers \ {w} : detector'[x] = detector[x]
    BY <1>3, <2>1 DEF At
  <2>3. Outputs' = Outputs \cup {pair}
    BY <1>1, <2>1 DEF Outputs
  <2>4. /\ pair[1] = detector[w].block /\ pair[2] \in begin + 1 .. fed
        /\ pair \notin Outputs
    BY <2>1 DEF Once
  <2>5. ASSUME NEW v \in Workers, NEW p \in detector'[v].todo
        PROVE  /\ p \in detector[v].todo /\ p # pair
               /\ detector'[v].block = detector[v].block
    <3>1. CASE v = w
      BY <2>2, <2>5, <3>1
    <3>2. CASE v # w
      <4>1. p \in detector[v].todo /\ detector'[v] = detector[v]
        BY <2>2, <2>5, <3>2
      <4>2. detector[v].pc = "work"
        BY <4>1, IdleHasNothing
      <4>3. ASSUME p = pair PROVE FALSE
        <5>1. pair[1] = detector[v].block
          BY <4>1, <4>3 DEF Once
        <5>2. Spot(pair[1], "detector", v) /\ Spot(pair[1], "detector", w)
          BY <2>1, <2>4, <4>2, <5>1 DEF Spot
        <5>3. "detector" \in Spots /\ "detector" \in Threads /\ pair[1] \in Places
          BY DEF Spots, Threads, Pairs
        <5>4. QED
          BY <3>2, <5>2, <5>3 DEF OneSpot
      <4>4. QED
        BY <4>1, <4>3
    <3>3. QED
      BY <3>1, <3>2
  <2>6. Once'
    <3>1. ASSUME NEW v \in Workers, NEW p \in detector'[v].todo
          PROVE  /\ p[1] = detector'[v].block
                 /\ p[2] \in begin + 1 .. fed
                 /\ p \notin Outputs'
      <4>1. p \in detector[v].todo /\ p # pair /\ detector'[v].block = detector[v].block
        BY <2>5, <3>1
      <4>2. p[1] = detector[v].block /\ p[2] \in begin + 1 .. fed /\ p \notin Outputs
        BY <4>1 DEF Once
      <4>3. QED
        BY <2>3, <4>1, <4>2
    <3>2. \A p \in Outputs : p[2] <= fed
      BY DEF Once
    <3>3. pair[2] <= fed
      BY <1>5, <2>4
    <3>4. \A p \in Outputs' : p[2] <= fed
      BY <2>3, <3>2, <3>3
    <3>5. Handed' \cap outputQueue' = {}
      BY <1>1, <1>6, <2>1, <2>4 DEF Outputs
    <3>6. QED
      BY <1>1, <3>1, <3>4, <3>5 DEF Once
  <2>7. Sound'
    <3>1. \A v \in Workers : detector'[v].todo \subseteq ClonesOf[file]
      BY <2>5 DEF Sound
    <3>2. QED
      BY <1>2, <2>1, <3>1 DEF Sound
  <2>8. QED
    BY <2>6, <2>7
<1>13. CASE EndsQuery(w)
  <2>1. outputQueue' = outputQueue /\ detector' = [detector EXCEPT ![w] = Taking]
    BY <1>13 DEF EndsQuery
  <2>2. detector'[w].todo = {} /\ \A x \in Workers \ {w} : detector'[x] = detector[x]
    BY <1>3, <2>1 DEF Taking
  <2>3. QED
    BY <1>10, <2>1, <2>2
<1>14. CASE Switches(w)
  BY <1>10, <1>14 DEF Switches
<1>15. CASE DetectorStops(w)
  <2>1. /\ outputQueue' \subseteq outputQueue
        /\ detector' \in {[detector EXCEPT ![w] = Ended], [detector EXCEPT ![w] = Dead]}
    BY <1>15 DEF DetectorStops
  <2>2. detector'[w].todo = {} /\ \A x \in Workers \ {w} : detector'[x] = detector[x]
    BY <1>3, <2>1 DEF Ended, Dead
  <2>3. QED
    BY <1>10, <2>1, <2>2
<1>16. QED
  BY <1>8, <1>9, <1>11, <1>12, <1>13, <1>14, <1>15 DEF DetectorSteps

LEMMA ClonesStep ==
  ASSUME WellTyped, Phases, IndexFilled, OneSpot, Answered, Once, Sound, Steps \/ UNCHANGED state
  PROVE  Once' /\ Sound'
<1> USE DEF choice, clock, counting, indexing, querying, cloning
<1>1. UNCHANGED choice
  BY DEF Steps, state
<1>2. Handed \cap outputQueue = {}
  BY DEF Once
<1>3. ASSUME UNCHANGED <<begin, fed, detector, Handed, outputQueue>> PROVE Once' /\ Sound'
  <2>1. Outputs' = Outputs
    BY <1>3 DEF Outputs
  <2>2. QED
    BY <1>1, <1>2, <1>3, <2>1, ClonesKept
<1>4. CASE UNCHANGED state
  BY <1>3, <1>4 DEF state
<1>5. CASE MainSteps
  BY <1>1, <1>5, ClonesMain
<1>6. ASSUME NEW w \in Workers, BuilderSteps(w) PROVE Once' /\ Sound'
  BY <1>3, <1>6 DEF BuilderSteps
<1>7. ASSUME NEW w \in Workers, IndexerSteps(w) PROVE Once' /\ Sound'
  BY <1>3, <1>7 DEF IndexerSteps
<1>8. ASSUME NEW w \in Workers, DetectorSteps(w) PROVE Once' /\ Sound'
  BY <1>1, <1>8, ClonesDetector
<1>9. CASE WriterSteps
  <2>1. UNCHANGED <<begin, fed, detector>>
    BY <1>9 DEF WriterSteps
  <2>2. \/ Handed' = Handed /\ outputQueue' \subseteq outputQueue
        \/ \E pair \in outputQueue :
             outputQueue' = outputQueue \ {pair} /\ Handed' = Handed \cup {pair}
    BY <1>9 DEF WriterSteps, Writes
  <2>3. /\ outputQueue' \subseteq outputQueue /\ Outputs' \subseteq Outputs
        /\ Handed' \cap outputQueue' = {}
    BY <1>2, <2>2 DEF Outputs
  <2>4. QED
    BY <1>1, <2>1, <2>3, ClonesKept
<1>10. QED
  BY <1>4, <1>5, <1>6, <1>7, <1>8, <1>9 DEF Steps

-----------------------------------------------------------------------------
(* Queries.  A block of the partition, or one after it, is on its way to a
   detector, or all the clones its query finds are out or on their way.    *)

Out   == Outputs \cup lostClones
Found == Out \cup FoundBy(detector)

(* The blocks after the partition that main has put.                       *)
AfterPartition == {k \in fed + 1 .. later : Detecting /\ ~ (k = later /\ main = "put query")}

Answer(k) ==
  /\ Detecting
  /\ ~ Unreadable(file[k])
  /\ DetectClones(k, PrefixOf(RankOf(k), file[k])) \subseteq Found

Asked ==
  \/ writer = "failed"
  \/ /\ \A k \in Places : prefix[k] # {} =>
          WorksOn(indexer, k) \/ k \in detectQueue \cup lost \/ Answer(k)
     /\ \A k \in AfterPartition :
          k \in laterQueue \cup lost \/ ~ Approved(file[k]) \/ Answer(k)

LEMMA AskedInit == InitDetection => Asked
<1> SUFFICES ASSUME InitDetection PROVE Asked
  OBVIOUS
<1>1. prefix = [k \in Places |-> {}]
  BY DEF InitDetection, Init, InitPreSorted, InitPartitioned, InitGiven, Places
<1>2. detector = [w \in Workers |-> Waiting]
  BY DEF InitDetection, Init, InitPreSorted, InitPartitioned, InitGiven
<1>3. ~ Detecting
  BY <1>2 DEF Detecting, Waiting
<1>4. QED
  BY <1>1, <1>3 DEF Asked, AfterPartition

LEMMA QueryKept ==
  ASSUME UNCHANGED <<file, options, gtf, index>>, NEW k
  PROVE  DetectClones(k, PrefixOf(RankOf(k), file[k]))'
           = DetectClones(k, PrefixOf(RankOf(k), file[k]))
<1>1. PrefixOf(RankOf(k), file[k])' = PrefixOf(RankOf(k), file[k])
  BY PrefixKept
<1>2. \A c : Block!ClonePair(file[k], file[c], threshold)'
               = Block!ClonePair(file[k], file[c], threshold)
  BY DEF Block!ClonePair, Block!HaveCommonLine, Block!Similar, Block!numShared,
         Block!Shared, Block!Larger, Block!numTokens, Block!Tokens, Block!TokensOf
<1>3. QED
  BY <1>1, <1>2 DEF DetectClones

LEMMA AnswerKept ==
  ASSUME UNCHANGED <<file, options, gtf, index>>, Detecting => Detecting', Found \subseteq Found',
         NEW k, Answer(k)
  PROVE  Answer(k)'
<1>1. DetectClones(k, PrefixOf(RankOf(k), file[k]))'
        = DetectClones(k, PrefixOf(RankOf(k), file[k]))
  BY QueryKept
<1>2. Unreadable(file[k])' = Unreadable(file[k])
  BY DEF Unreadable, TermsOf
<1>3. QED
  BY <1>1, <1>2 DEF Answer

LEMMA AskedKept ==
  ASSUME Asked, UNCHANGED <<file, options, gtf, prefix, index>>,
         writer = "failed" => writer' = "failed", lost \subseteq lost',
         Detecting => Detecting', Found \subseteq Found',
         \A k \in Places : WorksOn(indexer, k) \/ k \in detectQueue =>
           WorksOn(indexer, k)' \/ k \in detectQueue' \cup lost' \/ Answer(k)',
         \A k \in AfterPartition' : k \in AfterPartition \cup laterQueue',
         \A k \in laterQueue :
           k \in laterQueue' \cup lost' \/ ~ Approved(file[k]) \/ Answer(k)'
  PROVE  Asked'
<1>1. CASE writer = "failed"
  BY <1>1 DEF Asked
<1>2. CASE writer # "failed"
  <2>1. \A k : Answer(k) => Answer(k)'
    BY AnswerKept
  <2>2. ASSUME NEW k \in Places, prefix[k] # {}
        PROVE  WorksOn(indexer, k)' \/ k \in detectQueue' \cup lost' \/ Answer(k)'
    BY <1>2, <2>1, <2>2 DEF Asked
  <2>3. ASSUME NEW k \in AfterPartition'
        PROVE  k \in laterQueue' \cup lost' \/ ~ Approved(file[k]) \/ Answer(k)'
    <3>1. CASE k \in laterQueue'
      BY <3>1
    <3>2. CASE k \in AfterPartition
      BY <1>2, <2>1, <2>3, <3>2 DEF Asked
    <3>3. QED
      BY <2>3, <3>1, <3>2
  <2>4. Places' = Places /\ \A k : Approved(file[k])' = Approved(file[k])
    BY DEF Places, Approved
  <2>5. QED
    BY <2>2, <2>3, <2>4 DEF Asked
<1>3. QED
  BY <1>1, <1>2

LEMMA AskedMain ==
  ASSUME WellTyped, Phases, Asked, MainSteps, UNCHANGED choice
  PROVE  Asked'
<1> USE DEF choice, clock, counting, indexing, querying, cloning
<1>1. fed \in Nat /\ later \in Nat
  BY NumbersTyped
<1>2. CASE StartsPartition
  <2>1. prefix' = [k \in Places |-> {}]
    BY <1>2 DEF StartsPartition
  <2>2. ~ Detecting'
    BY <1>2, PartitionStarts DEF Detecting
  <2>3. Places' = Places
    BY DEF Places
  <2>4. QED
    BY <2>1, <2>2, <2>3 DEF Asked, AfterPartition
<1>3. ASSUME UNCHANGED <<gtf, indexing, querying, cloning, lost>>,
             \A k \in AfterPartition' : k \in AfterPartition
      PROVE  Asked'
  <2>1. Found' = Found /\ Detecting' = Detecting
    BY <1>3 DEF Found, Out, Outputs, FoundBy, Detecting
  <2>2. \A k : WorksOn(indexer, k)' = WorksOn(indexer, k)
    BY <1>3 DEF WorksOn
  <2>3. QED
    BY <1>3, <2>1, <2>2, AskedKept
<1>4. ASSUME ~ Detecting', UNCHANGED <<gtf, indexing, querying, cloning, lost>>
      PROVE  Asked'
  <2>1. AfterPartition' = {}
    BY <1>4 DEF AfterPartition
  <2>2. QED
    BY <1>3, <1>4, <2>1
<1>5. CASE Reads \/ Puts
  <2>1. UNCHANGED <<gtf, indexing, querying, cloning, lost>> /\ main \in {"read", "put"}
    BY <1>5 DEF Reads, Puts
  <2>2. ~ Detecting
    BY <2>1 DEF Phases, Feeding
  <2>3. ~ Detecting'
    BY <2>1, <2>2 DEF Detecting
  <2>4. QED
    BY <1>4, <2>1, <2>3
<1>6. CASE ReadsLater
  <2>1. /\ UNCHANGED <<gtf, indexing, querying, cloning, lost, fed>>
        /\ main = "query" /\ main' = "put query" /\ later' = later + 1
    BY <1>6 DEF ReadsLater
  <2>2. Detecting' = Detecting
    BY <2>1 DEF Detecting
  <2>3. ASSUME NEW k \in AfterPartition' PROVE k \in AfterPartition
    <3>1. k \in fed + 1 .. later + 1 /\ k # later + 1 /\ Detecting
      BY <2>1, <2>2, <2>3 DEF AfterPartition
    <3>2. k \in fed + 1 .. later
      BY <1>1, <3>1
    <3>3. QED
      BY <2>1, <3>1, <3>2 DEF AfterPartition
  <2>4. QED
    BY <1>3, <2>1, <2>3
<1>7. CASE PutsLater
  <2>1. /\ UNCHANGED <<gtf, indexing, detector, cloning, lost, fed, later>>
        /\ main = "put query" /\ main' = "query" /\ laterQueue' = laterQueue \cup {later}
    BY <1>7 DEF PutsLater
  <2>2. Found' = Found /\ Detecting' = Detecting
    BY <2>1 DEF Found, Out, Outputs, FoundBy, Detecting
  <2>3. \A k : WorksOn(indexer, k)' = WorksOn(indexer, k)
    BY <2>1 DEF WorksOn
  <2>4. \A k \in AfterPartition' : k \in AfterPartition \cup laterQueue'
    BY <2>1, <2>2 DEF AfterPartition
  <2>5. QED
    BY <2>1, <2>2, <2>3, <2>4, AskedKept
<1>8. CASE Advances
  <2>1. UNCHANGED <<gtf, indexing, querying, cloning, lost, fed, later>>
    BY <1>8 DEF Advances
  <2>2. main # "put query"
    BY <1>8 DEF Advances, AdvancesTo
  <2>3. Detecting' = Detecting
    BY <2>1 DEF Detecting
  <2>4. \A k \in AfterPartition' : k \in AfterPartition
    BY <2>1, <2>2, <2>3 DEF AfterPartition
  <2>5. QED
    BY <1>3, <2>1, <2>4
<1>9. CASE StartsIndexers
  <2>1. /\ UNCHANGED <<gtf, prefix, index, detectQueue, querying, cloning, lost>>
        /\ main = "join builders" /\ ~ options.presorted
    BY <1>9 DEF StartsIndexers
  <2>2. ~ Detecting /\ \A w \in Workers : indexer[w].pc = "wait"
    BY <2>1 DEF Phases, Feeding
  <2>3. ~ Detecting' /\ \A k : ~ WorksOn(indexer, k)
    BY <2>1, <2>2 DEF Detecting, WorksOn
  <2>4. AfterPartition' = {}
    BY <2>3 DEF AfterPartition
  <2>5. Found' = Found
    BY <2>1 DEF Found, Out, Outputs, FoundBy
  <2>6. QED
    BY <2>1, <2>2, <2>3, <2>4, <2>5, AskedKept
<1>10. CASE StartsDetectors
  <2>1. /\ UNCHANGED <<gtf, indexing, laterQueue, outputQueue, Handed, lostClones, lost, fed>>
        /\ main = "join indexers"
        /\ detector' = [w \in Workers |-> Taking]
        /\ \/ ~ options.partitioned /\ later' = later
           \/ options.partitioned /\ later' = fed /\ writer' = writer
    BY <1>10 DEF StartsDetectors
  <2>2. ~ Detecting
    BY <2>1 DEF Phases
  <2>3. writer = "failed" => writer' = "failed"
    BY <2>1, <2>2 DEF Phases
  <2>4. fed' + 1 .. later' = {}
    <3>1. later' = fed \/ later' = 0
      BY <2>1 DEF Phases
    <3>2. fed' = fed
      BY <2>1
    <3>3. QED
      BY <1>1, <3>1, <3>2
  <2>5. AfterPartition' = {}
    BY <2>4 DEF AfterPartition
  <2>6. FoundBy(detector) = {}
    BY <2>2, IdleHasNothing DEF FoundBy, Detecting
  <2>7. Found \subseteq Found'
    BY <2>1, <2>6 DEF Found, Out, Outputs
  <2>8. \A k : WorksOn(indexer, k)' = WorksOn(indexer, k)
    BY <2>1 DEF WorksOn
  <2>9. QED
    BY <2>1, <2>2, <2>3, <2>5, <2>7, <2>8, AskedKept
<1>11. QED
  BY <1>2, <1>5, <1>6, <1>7, <1>8, <1>9, <1>10 DEF MainSteps

(* Before the detectors are started, a block with a prefix is on its way to
   them.                                                                   *)
LEMMA AskedBefore ==
  ASSUME WellTyped, Phases, Asked, UNCHANGED <<file, detector, writer>>, ~ Detecting,
         (\A k \in Places : prefix[k] # {} =>
            WorksOn(indexer, k) \/ k \in detectQueue \cup lost) =>
         (\A k \in Places : prefix'[k] # {} =>
            WorksOn(indexer, k)' \/ k \in detectQueue' \cup lost')
  PROVE  Asked'
<1>1. ~ Detecting'
  BY DEF Detecting
<1>2. AfterPartition' = {} /\ Places' = Places
  BY <1>1 DEF AfterPartition, Places
<1>3. CASE writer = "failed"
  BY <1>3 DEF Asked
<1>4. CASE writer # "failed"
  <2>1. \A k \in Places : prefix[k] # {} =>
          WorksOn(indexer, k) \/ k \in detectQueue \cup lost
    BY <1>4 DEF Asked, Answer
  <2>2. QED
    BY <1>2, <2>1 DEF Asked
<1>5. QED
  BY <1>3, <1>4

LEMMA AskedIndexer ==
  ASSUME WellTyped, Phases, Asked, UNCHANGED choice, NEW w \in Workers, IndexerSteps(w)
  PROVE  Asked'
<1> USE DEF choice, querying, cloning
<1>1. UNCHANGED <<file, detector, writer>>
  BY DEF IndexerSteps
<1>2. indexer[w].pc \in {"take", "work"}
  BY DEF IndexerSteps, Skips, Prefixes, IndexesTerm, PutsIndexed, IndexerStops
<1>3. ~ Detecting
  BY <1>2, AtWorkThen
<1>4. indexer \in [Workers -> Jobs(Terms)] /\ prefix \in [Places -> SUBSET Terms]
  BY DEF WellTyped
<1>5. ASSUME \A k \in Places : prefix[k] # {} => WorksOn(indexer, k) \/ k \in detectQueue \cup lost,
             NEW k \in Places, prefix'[k] # {}
      PROVE  WorksOn(indexer, k)' \/ k \in detectQueue' \cup lost'
  <2>1. ASSUME indexer[w].pc = "take", \A x \in Workers \ {w} : indexer'[x] = indexer[x],
               WorksOn(indexer, k)
        PROVE  WorksOn(indexer, k)'
    BY <2>1 DEF WorksOn
  <2>2. ASSUME NEW j \in Places, Skips(w, j) PROVE WorksOn(indexer, k)' \/ k \in detectQueue' \cup lost'
    <3>1. UNCHANGED <<indexer, prefix, detectQueue, lost>>
      BY <2>2 DEF Skips, indexing
    <3>2. QED
      BY <1>5, <3>1 DEF WorksOn
  <2>3. ASSUME NEW j \in Places, Prefixes(w, j)
        PROVE  WorksOn(indexer, k)' \/ k \in detectQueue' \cup lost'
    <3>1. /\ indexer[w].pc = "take" /\ UNCHANGED <<detectQueue, lost>>
          /\ prefix' = [prefix EXCEPT ![j] = PrefixOf(RankOf(j), file[j])]
          /\ indexer' = [indexer EXCEPT ![w] = At(j, PrefixOf(RankOf(j), file[j]))]
      BY <2>3 DEF Prefixes
    <3>2. /\ indexer'[w].pc = "work" /\ indexer'[w].block = j
          /\ \A x \in Workers \ {w} : indexer'[x] = indexer[x]
      BY <1>4, <3>1 DEF At
    <3>3. CASE k = j
      BY <3>2, <3>3 DEF WorksOn
    <3>4. CASE k # j
      <4>1. prefix[k] # {}
        BY <1>4, <1>5, <3>1, <3>4
      <4>2. QED
        BY <1>5, <2>1, <3>1, <3>2, <4>1
    <3>5. QED
      BY <3>3, <3>4
  <2>4. ASSUME NEW t \in Terms, IndexesTerm(w, t)
        PROVE  WorksOn(indexer, k)' \/ k \in detectQueue' \cup lost'
    <3>1. /\ indexer[w].pc = "work" /\ UNCHANGED <<prefix, detectQueue, lost>>
          /\ indexer' = [indexer EXCEPT ![w] = At(indexer[w].block, indexer[w].todo \ {t})]
      BY <2>4 DEF IndexesTerm
    <3>2. \A x \in Workers : indexer'[x].pc = indexer[x].pc /\ indexer'[x].block = indexer[x].block
      BY <1>4, <3>1 DEF At
    <3>3. WorksOn(indexer, k) => WorksOn(indexer, k)'
      BY <3>2 DEF WorksOn
    <3>4. QED
      BY <1>5, <3>1, <3>3
  <2>5. ASSUME PutsIndexed(w) PROVE WorksOn(indexer, k)' \/ k \in detectQueue' \cup lost'
    <3>1. /\ UNCHANGED <<prefix, lost>>
          /\ detectQueue' = detectQueue \cup {indexer[w].block}
          /\ indexer' = [indexer EXCEPT ![w] = Taking]
      BY <2>5 DEF PutsIndexed
    <3>2. \A x \in Workers \ {w} : indexer'[x] = indexer[x]
      BY <1>4, <3>1
    <3>3. WorksOn(indexer, k) => WorksOn(indexer, k)' \/ k = indexer[w].block
      BY <3>2 DEF WorksOn
    <3>4. QED
      BY <1>5, <3>1, <3>3
  <2>6. ASSUME IndexerStops(w) PROVE WorksOn(indexer, k)' \/ k \in detectQueue' \cup lost'
    <3>1. /\ indexer[w].pc = "take" /\ prefix' = prefix
          /\ detectQueue \subseteq detectQueue' \cup lost' /\ lost \subseteq lost'
          /\ indexer' \in {[indexer EXCEPT ![w] = Ended], [indexer EXCEPT ![w] = Dead]}
      BY <2>6 DEF IndexerStops
    <3>2. \A x \in Workers \ {w} : indexer'[x] = indexer[x]
      BY <1>4, <3>1
    <3>3. QED
      BY <1>5, <2>1, <3>1, <3>2
  <2>7. QED
    BY <2>2, <2>3, <2>4, <2>5, <2>6 DEF IndexerSteps
<1>6. QED
  BY <1>1, <1>3, <1>5, AskedBefore

LEMMA AskedDetector ==
  ASSUME WellTyped, Phases, IndexFilled, Asked, UNCHANGED choice,
         NEW w \in Workers, DetectorSteps(w)
  PROVE  Asked'
<1> USE DEF choice, clock, counting
<1>1. UNCHANGED <<file, options, gtf, prefix, index, writer, indexer, main, fed, later, Handed>>
  BY DEF DetectorSteps
<1>2. Detecting /\ Detecting'
  BY StillDetecting
<1>3. \A k \in AfterPartition' : k \in AfterPartition
  BY <1>1, <1>2 DEF AfterPartition
<1>4. \A k : WorksOn(indexer, k)' = WorksOn(indexer, k)
  BY <1>1 DEF WorksOn
<1>5. detector \in [Workers -> Jobs(Pairs)]
  BY DEF WellTyped
<1>6. ASSUME \A x \in Workers \ {w} : detector'[x] = detector[x], Out \subseteq Out',
             detector[w].todo \subseteq detector'[w].todo \cup Out'
      PROVE  Found \subseteq Found'
  <2>1. \A x \in Workers : detector[x].todo \subseteq detector'[x].todo \cup Out'
    BY <1>6
  <2>2. FoundBy(detector) \subseteq FoundBy(detector)' \cup Out'
    BY <2>1 DEF FoundBy
  <2>3. QED
    BY <1>6, <2>2 DEF Found
<1>7. ASSUME Found \subseteq Found', lost \subseteq lost', detectQueue' = detectQueue,
             \A k \in laterQueue : k \in laterQueue' \cup lost' \/ ~ Approved(file[k])
      PROVE  Asked'
  BY <1>1, <1>2, <1>3, <1>4, <1>7, AskedKept
<1>8. ASSUME NEW k \in Places, ~ Unreadable(file[k]), detector[w].pc = "take",
             UNCHANGED <<outputQueue, lostClones, lost>>,
             detector' = [detector EXCEPT ![w] =
                            At(k, DetectClones(k, PrefixOf(RankOf(k), file[k])))]
      PROVE  Answer(k)' /\ Found \subseteq Found'
  <2>1. /\ detector'[w].todo = DetectClones(k, PrefixOf(RankOf(k), file[k]))
        /\ \A x \in Workers \ {w} : detector'[x] = detector[x]
    BY <1>5, <1>8 DEF At
  <2>2. detector[w].todo = {}
    BY <1>8, IdleHasNothing
  <2>3. Out' = Out
    BY <1>1, <1>8 DEF Out, Outputs
  <2>4. Found \subseteq Found'
    BY <1>6, <2>1, <2>2, <2>3
  <2>5. DetectClones(k, PrefixOf(RankOf(k), file[k])) \subseteq Found'
    BY <2>1 DEF Found, FoundBy
  <2>6. DetectClones(k, PrefixOf(RankOf(k), file[k]))'
          = DetectClones(k, PrefixOf(RankOf(k), file[k]))
    BY <1>1, QueryKept
  <2>7. Unreadable(file[k])' = Unreadable(file[k])
    BY <1>1 DEF Unreadable, TermsOf
  <2>8. Answer(k)'
    BY <1>2, <1>8, <2>5, <2>6, <2>7 DEF Answer
  <2>9. QED
    BY <2>4, <2>8
<1>9. ASSUME NEW k \in Places, Queries(w, k) PROVE Asked'
  <2>1. /\ k \in detectQueue /\ detectQueue' = detectQueue \ {k} /\ detector[w].pc = "take"
        /\ UNCHANGED <<laterQueue, outputQueue, lostClones, lost>>
        /\ detector' = [detector EXCEPT ![w] = At(k, DetectClones(k, prefix[k]))]
    BY <1>9 DEF Queries
  <2>2. prefix[k] = PrefixOf(RankOf(k), file[k]) /\ ~ Unreadable(file[k])
    BY <2>1 DEF IndexFilled, IndexRight, PrefixesRight
  <2>3. Answer(k)' /\ Found \subseteq Found'
    BY <1>8, <2>1, <2>2
  <2>4. \A j \in Places : WorksOn(indexer, j) \/ j \in detectQueue =>
          WorksOn(indexer, j)' \/ j \in detectQueue' \cup lost' \/ Answer(j)'
    BY <1>4, <2>1, <2>3
  <2>5. QED
    BY <1>1, <1>2, <1>3, <2>1, <2>3, <2>4, AskedKept
<1>10. ASSUME NEW k \in Places, QueriesLater(w, k) PROVE Asked'
  <2>1. /\ k \in laterQueue /\ laterQueue' = laterQueue \ {k} /\ detector[w].pc = "take"
        /\ UNCHANGED <<detectQueue, outputQueue, lostClones, lost>>
        /\ detector' =
             [detector EXCEPT ![w] = At(k, DetectClones(k, PrefixOf(RankOf(k), file[k])))]
        /\ ~ Unreadable(file[k])
    BY <1>10 DEF QueriesLater, AtLater
  <2>2. Answer(k)' /\ Found \subseteq Found'
    BY <1>8, <2>1
  <2>3. \A j \in laterQueue :
          j \in laterQueue' \cup lost' \/ ~ Approved(file[j]) \/ Answer(j)'
    BY <2>1, <2>2
  <2>4. QED
    BY <1>1, <1>2, <1>3, <1>4, <2>1, <2>2, <2>3, AskedKept
<1>11. ASSUME NEW k \in Places, SkipsLater(w, k) PROVE Asked'
  <2>1. /\ UNCHANGED <<detectQueue, detector, outputQueue, lostClones, lost>>
        /\ ~ Approved(file[k]) /\ laterQueue' = laterQueue \ {k}
    BY <1>11 DEF SkipsLater
  <2>2. Found' = Found
    BY <1>1, <2>1 DEF Found, Out, Outputs, FoundBy
  <2>3. QED
    BY <1>7, <2>1, <2>2
<1>12. ASSUME NEW pair \in Pairs, PutsClone(w, pair) PROVE Asked'
  <2>1. /\ UNCHANGED <<detectQueue, laterQueue, lostClones, lost>>
        /\ outputQueue' = outputQueue \cup {pair}
        /\ detector' = [detector EXCEPT ![w] = At(detector[w].block, detector[w].todo \ {pair})]
    BY <1>12 DEF PutsClone
  <2>2. detector'[w].todo = detector[w].todo \ {pair}
        /\ \A x \in Workers \ {w} : detector'[x] = detector[x]
    BY <1>5, <2>1 DEF At
  <2>3. Out' = Out \cup {pair}
    BY <1>1, <2>1 DEF Out, Outputs
  <2>4. Found \subseteq Found'
    BY <1>6, <2>2, <2>3
  <2>5. QED
    BY <1>7, <2>1, <2>4
<1>13. CASE EndsQuery(w)
  <2>1. /\ UNCHANGED <<detectQueue, laterQueue, outputQueue, lostClones, lost>>
        /\ detector' = [detector EXCEPT ![w] = Taking] /\ detector[w].todo = {}
    BY <1>13 DEF EndsQuery
  <2>2. \A x \in Workers \ {w} : detector'[x] = detector[x]
    BY <1>5, <2>1
  <2>3. Out' = Out
    BY <1>1, <2>1 DEF Out, Outputs
  <2>4. Found \subseteq Found'
    BY <1>6, <2>1, <2>2, <2>3
  <2>5. QED
    BY <1>7, <2>1, <2>4
<1>14. CASE Switches(w)
  <2>1. UNCHANGED <<detectQueue, detector, laterQueue, outputQueue, lostClones, lost>>
    BY <1>14 DEF Switches
  <2>2. Found' = Found
    BY <1>1, <2>1 DEF Found, Out, Outputs, FoundBy
  <2>3. QED
    BY <1>7, <2>1, <2>2
<1>15. CASE DetectorStops(w)
  <2>1. /\ detectQueue' = detectQueue /\ detector[w].pc = "take"
        /\ detector' \in {[detector EXCEPT ![w] = Ended], [detector EXCEPT ![w] = Dead]}
        /\ lost \subseteq lost' /\ laterQueue \subseteq laterQueue' \cup lost'
        /\ lostClones \subseteq lostClones' /\ outputQueue \subseteq outputQueue' \cup lostClones'
    BY <1>15 DEF DetectorStops
  <2>2. \A x \in Workers \ {w} : detector'[x] = detector[x]
    BY <1>5, <2>1
  <2>3. Out \subseteq Out'
    BY <1>1, <2>1 DEF Out, Outputs
  <2>4. detector[w].todo = {}
    BY <2>1, IdleHasNothing
  <2>5. Found \subseteq Found'
    BY <1>6, <2>2, <2>3, <2>4
  <2>6. QED
    BY <1>7, <2>1, <2>5
<1>16. QED
  BY <1>9, <1>10, <1>11, <1>12, <1>13, <1>14, <1>15 DEF DetectorSteps

LEMMA AskedStep ==
  ASSUME WellTyped, Phases, IndexFilled, Asked, Steps \/ UNCHANGED state
  PROVE  Asked'
<1> USE DEF choice, clock, counting, indexing, querying, cloning
<1>1. UNCHANGED choice
  BY DEF Steps, state
<1>2. CASE MainSteps
  BY <1>1, <1>2, AskedMain
<1>3. ASSUME NEW w \in Workers, BuilderSteps(w) PROVE Asked'
  <2>1. UNCHANGED <<file, detector, writer, prefix>>
    BY <1>1, <1>3 DEF BuilderSteps
  <2>2. builder[w].pc \in {"take", "work"}
    BY <1>3 DEF BuilderSteps, TakesInput, AddsTerm, PutsCounted, BuilderStops
  <2>3. ~ Detecting /\ ~ options.presorted /\ ~ Terminated(builder)
    BY <2>2, AtWorkThen
  <2>4. \A k \in Places : prefix[k] = {}
    BY <2>3 DEF IndexFilled, PrefixesRight
  <2>5. QED
    BY <2>1, <2>3, <2>4, AskedBefore
<1>4. ASSUME NEW w \in Workers, IndexerSteps(w) PROVE Asked'
  BY <1>1, <1>4, AskedIndexer
<1>5. ASSUME NEW w \in Workers, DetectorSteps(w) PROVE Asked'
  BY <1>1, <1>5, AskedDetector
<1>6. CASE WriterSteps \/ UNCHANGED state
  <2>1. UNCHANGED <<gtf, prefix, index, indexer, detectQueue, laterQueue, detector, lost, main, fed,
                    later, lostClones>>
    BY <1>6 DEF WriterSteps, state
  <2>2. Detecting' = Detecting
    BY <2>1 DEF Detecting
  <2>3. \A k \in AfterPartition' : k \in AfterPartition
    BY <2>1, <2>2 DEF AfterPartition
  <2>4. \A k : WorksOn(indexer, k)' = WorksOn(indexer, k)
    BY <2>1 DEF WorksOn
  <2>5. CASE writer' = "failed"
    BY <2>5 DEF Asked
  <2>6. CASE writer' # "failed"
    <3>1. Outputs \subseteq Outputs' /\ writer # "failed"
      BY <1>6, <2>6 DEF WriterSteps, Writes, Outputs, state
    <3>2. FoundBy(detector)' = FoundBy(detector)
      BY <2>1 DEF FoundBy
    <3>3. Found \subseteq Found'
      BY <2>1, <3>1, <3>2 DEF Found, Out
    <3>4. QED
      BY <1>1, <2>1, <2>2, <2>3, <2>4, <3>1, <3>3, AskedKept
  <2>7. QED
    BY <2>5, <2>6
<1>7. QED
  BY <1>2, <1>3, <1>4, <1>5, <1>6 DEF Steps

-----------------------------------------------------------------------------
(* When the detectors of a partition have all ended, its clones are out.   *)

LEMMA ClonesReadable ==
  ASSUME NEW b, NEW c, Block!IsBlock(c), Unreadable(b),
         ByName!IsPositive(threshold), ByName!Similar(b, c, threshold)
  PROVE  FALSE
<1>1. Names!IsBlock(c) /\ Names!IsThreshold(threshold) /\ Names!IsPositive(threshold)
  BY SameByName, SameThreshold
<1>2. Names!TermsOf(b) = {}
  BY DEF Unreadable, TermsOf, Names!TermsOf
<1>3. Names!Similar(b, c, threshold)
  BY DEF Names!Similar, ByName!Similar, Names!numShared, ByName!numShared, Names!Shared,
         ByName!Shared, Names!Larger, ByName!Larger, Names!numTokens, ByName!numTokens,
         Names!Tokens, ByName!Tokens, Names!TokensOf, ByName!TokensOf, Names!Cardinality,
         ByName!Cardinality
<1>4. QED
  BY <1>1, <1>2, <1>3, NamesAreOrdered, Names!NothingIsSimilar DEF Names!NothingIsSimilar

(* A clone with a block of the index is found by a prefix term.            *)
LEMMA FoundByTerm ==
  ASSUME WellTyped, Promised, NEW k \in Places, NEW d \in Places,
         ~ Unreadable(file[k]), ~ Unreadable(file[d]),
         ByName!ClonePair(file[k], file[d], threshold),
         \A t \in PrefixOf(RankOf(d), file[d]) : d \in index[t]
  PROVE  <<k, d>> \in DetectClones(k, PrefixOf(RankOf(k), file[k]))
<1>1. /\ RankOf(k) \in [Terms -> Nat] /\ RankOf(d) \in [Terms -> Nat]
      /\ Block!IsBlock(file[k]) /\ Block!IsBlock(file[d])
  BY RanksTyped
<1>2. ByName!IsPositive(threshold) /\ ByName!Similar(file[k], file[d], threshold)
  BY DEF Promised, ByName!ClonePair
<1>3. ASSUME NEW t \in TermsOf(file[k]) \cap TermsOf(file[d]),
             NEW u \in TermsOf(file[k]) \cap TermsOf(file[d]), RankOf(k)[t] < RankOf(k)[u]
      PROVE  RankOf(d)[t] < RankOf(d)[u]
  <2>1. CASE ~ options.presorted
    BY <1>3, <2>1 DEF RankOf
  <2>2. CASE options.presorted
    <3>1. SortedAlike(file)
      BY <2>2 DEF Promised, Sorted
    <3>2. DOMAIN file = Places
      BY FilesAssumption DEF WellTyped, Places
    <3>3. file[k].order[t] < file[k].order[u]
      BY <1>3, <2>2 DEF RankOf
    <3>4. file[d].order[t] < file[d].order[u]
      BY <1>3, <3>1, <3>2, <3>3 DEF SortedAlike
    <3>5. QED
      BY <2>2, <3>4 DEF RankOf
  <2>3. QED
    BY <2>1, <2>2
<1>4. PICK t \in PrefixOf(RankOf(k), file[k]) : t \in PrefixOf(RankOf(d), file[d])
  BY <1>1, <1>2, <1>3, ClonesHaveTerm
<1>5. d \in index[t]
  BY <1>4
<1>6. Block!ClonePair(file[k], file[d], threshold)
  BY SameClones
<1>7. QED
  BY <1>4, <1>5, <1>6 DEF DetectClones

(* No dead thread took block k along, or left it behind.                   *)
Reached(k)  == k \notin lost /\ k \notin inputQueue
Asks(k)     == Reached(k) /\ k \notin laterQueue
Reports(p)  == p \in Out
Joined      == Terminated(detector) /\ (main = "join detectors" \/ main \in Closed)

LEMMA PartitionDone ==
  ASSUME IndexInv, Asked, Joined,
         Promised, writer # "failed",
         NEW k \in Places, NEW d \in begin + 1 .. fed, <<k, d>> \in ClonesOf[file],
         Asks(k), Reached(d)
  PROVE  Reports(<<k, d>>)
<1>1. WellTyped /\ Phases /\ IndexFilled /\ Drawn
  BY DEF IndexInv
<1>2. d \in Places
  <2>1. <<k, d>> \in Pairs
    BY <1>1, InClonesOf
  <2>2. QED
    BY <2>1 DEF Pairs
<1>3. /\ Approved(file[k]) /\ Approved(file[d])
      /\ ByName!ClonePair(file[k], file[d], threshold)
  BY <1>1, InClonesOf
<1>4. /\ fed \in Nat /\ begin \in Nat /\ later \in Nat /\ begin <= fed
      /\ k \in Nat /\ d \in Nat /\ k # 0
  <2>1. Places \subseteq Nat \ {0}
    BY <1>1, NumbersTyped
  <2>2. QED
    BY <1>1, <2>1, NumbersTyped
<1>6. Detecting /\ detectQueue = {} /\ FoundBy(detector) = {}
  <2>1. \A w \in Workers : detector[w].pc \in {"ended", "dead"}
    BY DEF Joined, Terminated
  <2>2. PICK w \in Workers : TRUE
    BY PipelineAssumption
  <2>3. Detecting
    BY <2>1, <2>2 DEF Detecting
  <2>4. detectQueue = {}
    BY <1>1, <2>1 DEF Drawn, ThroughIndex
  <2>5. FoundBy(detector) = {}
    BY <1>1, <2>1, IdleHasNothing DEF FoundBy
  <2>6. QED
    BY <2>3, <2>4, <2>5
<1>7. InPartition = begin + 1 .. fed
  BY <1>1, <1>6, AllPut
<1>5. begin < d /\ d <= fed
  BY <1>4
<1>8. IndexIsPartition
  BY IndexHolds
<1>9. prefix[d] # {} /\ \A t \in prefix[d] : d \in index[t]
  <2>1. d \in (begin + 1 .. fed) \ (lost \cup inputQueue)
    BY DEF Reached
  <2>2. QED
    BY <1>3, <1>6, <1>8, <2>1 DEF IndexIsPartition, Detecting
<1>10. prefix[d] = PrefixOf(RankOf(d), file[d]) /\ ~ Unreadable(file[d])
  BY <1>1, <1>2, <1>9 DEF IndexFilled, PrefixesRight
<1>11. ~ Unreadable(file[k])
  <2>1. Block!IsBlock(file[d])
    BY <1>1, <1>2, <1>10, RanksTyped
  <2>2. ByName!Similar(file[k], file[d], threshold) /\ ByName!IsPositive(threshold)
    BY <1>3 DEF ByName!ClonePair, Promised
  <2>3. QED
    BY <2>1, <2>2, ClonesReadable
<1>12. <<k, d>> \in DetectClones(k, PrefixOf(RankOf(k), file[k]))
  BY <1>1, <1>2, <1>3, <1>9, <1>10, <1>11, FoundByTerm
<1>13. ~ (k <= begin)
  <2>1. SUFFICES ASSUME k <= begin PROVE FALSE
    OBVIOUS
  <2>2. options.partitioned
    <3>1. begin # 0
      BY <1>4, <2>1
    <3>2. QED
      BY <1>1, <3>1 DEF Phases
  <2>3. IdsAscend(file) /\ DOMAIN file = Places
    BY <1>1, <2>2, FilesAssumption DEF Promised, Ascending, WellTyped, Places
  <2>4. k < d
    BY <1>4, <1>5, <2>1
  <2>5. file[k].id < file[d].id
    BY <1>2, <2>3, <2>4 DEF IdsAscend
  <2>6. file[k].id >= file[d].id
    BY <1>3 DEF ByName!ClonePair
  <2>7. file[k].id \in Nat /\ file[d].id \in Nat
    <3>1. Block!IsBlock(file[k]) /\ Block!IsBlock(file[d])
      BY <1>1, <1>2, <1>10, <1>11, RanksTyped
    <3>2. QED
      BY <3>1 DEF Block!IsBlock
  <2>8. QED
    BY <2>5, <2>6, <2>7
<1>14. Answer(k)
  <2>1. CASE k <= fed
    <3>1. k \in (begin + 1 .. fed) \ (lost \cup inputQueue)
      BY <1>4, <1>13, <2>1 DEF Asks, Reached
    <3>2. prefix[k] # {}
      BY <1>3, <1>6, <1>8, <3>1 DEF IndexIsPartition, Detecting
    <3>3. ~ WorksOn(indexer, k)
      BY <1>1, <1>6 DEF Phases, Terminated, WorksOn
    <3>4. k \notin detectQueue \cup lost
      BY <1>6 DEF Asks, Reached
    <3>5. QED
      BY <3>2, <3>3, <3>4 DEF Asked
  <2>2. CASE ~ (k <= fed)
    <3>0. Len(file) \in Nat
      BY <1>1, FilesAssumption DEF WellTyped
    <3>1. Len(file) \in Nat /\ k <= Len(file)
      BY <3>0 DEF Places
    <3>2. fed # Len(file)
      BY <2>2, <3>1
    <3>3. options.partitioned
      BY <1>1, <3>2 DEF Phases, Closed, Joined
    <3>4. later = Len(file) /\ main # "put query"
      BY <1>1, <3>3 DEF Phases, Closed, Joined
    <3>5. k \in fed + 1 .. later
      <4>1. k <= later
        BY <3>1, <3>4
      <4>2. QED
        BY <1>4, <2>2, <4>1
    <3>6. k \in AfterPartition
      BY <1>6, <3>4, <3>5 DEF AfterPartition
    <3>7. QED
      BY <1>3, <3>6 DEF Asked, Asks, Reached
  <2>3. QED
    BY <2>1, <2>2
<1>15. QED
  BY <1>6, <1>12, <1>14 DEF Answer, Found, Reports

-----------------------------------------------------------------------------
(* The clones with the blocks of the partitions before are out, too.       *)

PastReported ==
  Promised /\ writer # "failed" =>
    \A k, d \in Places : <<k, d>> \in ClonesOf[file] /\ d <= begin =>
      Reports(<<k, d>>) \/ k \in lost \/ d \in lost

LEMMA OutKept ==
  ASSUME Phases, Steps \/ UNCHANGED state
  PROVE  /\ lost \subseteq lost' /\ lostClones \subseteq lostClones'
         /\ writer' # "failed" => writer # "failed" /\ Out \subseteq Out'
<1> USE DEF choice, clock, counting, indexing, querying, cloning
<1>1. CASE MainSteps
  <2>1. UNCHANGED <<outputQueue, Handed, lostClones>> /\ lost \subseteq lost'
    BY <1>1 DEF MainSteps, Reads, Puts, ReadsLater, PutsLater, Advances, StartsIndexers,
                StartsDetectors, StartsPartition
  <2>2. ASSUME writer' # "failed" PROVE writer # "failed"
    <3>1. CASE StartsDetectors
      <4>1. CASE options.partitioned
        BY <2>2, <3>1, <4>1 DEF StartsDetectors
      <4>2. CASE ~ options.partitioned
        <5>1. ~ Detecting
          BY <3>1 DEF StartsDetectors, Phases
        <5>2. QED
          BY <4>2, <5>1 DEF Phases
      <4>3. QED
        BY <4>1, <4>2
    <3>2. CASE ~ StartsDetectors
      <4>1. writer' = writer
        BY <1>1, <3>2 DEF MainSteps, Reads, Puts, ReadsLater, PutsLater, Advances,
                          StartsIndexers, StartsPartition
      <4>2. QED
        BY <2>2, <4>1
    <3>3. QED
      BY <3>1, <3>2
  <2>3. Out' = Out
    BY <2>1 DEF Out, Outputs
  <2>4. QED
    BY <2>1, <2>2, <2>3
<1>2. ASSUME NEW w \in Workers, BuilderSteps(w) \/ IndexerSteps(w)
      PROVE  lost \subseteq lost' /\ UNCHANGED <<outputQueue, writer, Handed, lostClones>>
  BY <1>2 DEF BuilderSteps, TakesInput, AddsTerm, PutsCounted, BuilderStops, IndexerSteps,
              Skips, Prefixes, IndexesTerm, PutsIndexed, IndexerStops
<1>3. ASSUME NEW w \in Workers, DetectorSteps(w)
      PROVE  /\ lost \subseteq lost' /\ lostClones \subseteq lostClones'
             /\ outputQueue \subseteq outputQueue' \cup lostClones'
             /\ UNCHANGED <<writer, Handed>>
  BY <1>3 DEF DetectorSteps, Queries, QueriesLater, SkipsLater, PutsClone, EndsQuery, Switches,
              DetectorStops
<1>4. ASSUME NEW w \in Workers, BuilderSteps(w) \/ IndexerSteps(w) \/ DetectorSteps(w)
      PROVE  /\ lost \subseteq lost' /\ lostClones \subseteq lostClones'
             /\ writer' # "failed" => writer # "failed" /\ Out \subseteq Out'
  <2>1. CASE BuilderSteps(w) \/ IndexerSteps(w)
    BY <1>2, <2>1 DEF Out, Outputs
  <2>2. CASE DetectorSteps(w)
    BY <1>3, <2>2 DEF Out, Outputs
  <2>3. QED
    BY <1>4, <2>1, <2>2
<1>5. CASE WriterSteps \/ UNCHANGED state
  <2>1. UNCHANGED <<lost, lostClones>>
    BY <1>5 DEF WriterSteps, state
  <2>2. writer' # "failed" => writer # "failed" /\ Outputs \subseteq Outputs'
    BY <1>5 DEF WriterSteps, Writes, Outputs, state
  <2>3. QED
    BY <2>1, <2>2 DEF Out
<1>6. QED
  BY <1>1, <1>4, <1>5 DEF Steps

LEMMA PastReportedStep ==
  ASSUME IndexInv, Asked, PastReported, Steps \/ UNCHANGED state
  PROVE  PastReported'
<1>1. WellTyped /\ Phases
  BY DEF IndexInv
<1>2. UNCHANGED <<file, options>>
  BY DEF Steps, state, choice
<1>3. /\ lost \subseteq lost'
      /\ writer' # "failed" => writer # "failed" /\ Out \subseteq Out'
  BY <1>1, OutKept
<1>4. /\ Promised' = Promised /\ ClonesOf[file]' = ClonesOf[file]
      /\ Places' = Places
  BY <1>2 DEF Promised, Sorted, SortedAlike, Ascending, IdsAscend, ClonesOf, Places
<1>5. SUFFICES ASSUME Promised, writer' # "failed",
                      NEW k \in Places, NEW d \in Places,
                      <<k, d>> \in ClonesOf[file], d <= begin'
               PROVE  <<k, d>> \in Out' \/ k \in lost' \/ d \in lost'
  BY <1>4 DEF PastReported, Reports
<1>6. ASSUME d <= begin PROVE <<k, d>> \in Out' \/ k \in lost' \/ d \in lost'
  BY <1>3, <1>5, <1>6 DEF PastReported, Reports
<1>7. CASE StartsPartition
  <2>1. /\ main = "join detectors" /\ Terminated(detector)
        /\ begin' = fed /\ lost' = lost \cup inputQueue \cup detectQueue \cup laterQueue
    BY <1>7 DEF StartsPartition
  <2>2. CASE d <= begin
    BY <1>6, <2>2
  <2>3. CASE ~ (d <= begin)
    <3>1. d \in begin + 1 .. fed
      <4>1. begin \in Nat /\ fed \in Nat /\ Places \subseteq Nat \ {0}
        BY <1>1, NumbersTyped
      <4>2. d \in Nat /\ d <= fed
        BY <1>5, <2>1, <4>1
      <4>3. QED
        BY <2>3, <4>1, <4>2
    <3>2. Joined
      BY <2>1 DEF Joined
    <3>3. Asks(k) /\ Reached(d) => Reports(<<k, d>>)
      BY <1>3, <1>5, <3>1, <3>2, PartitionDone
    <3>4. QED
      BY <1>3, <1>5, <2>1, <3>3 DEF Asks, Reached, Reports
  <2>4. QED
    BY <2>2, <2>3
<1>8. CASE ~ StartsPartition
  <2>1. begin' = begin
    BY <1>8 DEF Steps, state, MainSteps, Reads, Puts, ReadsLater, PutsLater, Advances,
                StartsIndexers, StartsDetectors, BuilderSteps, IndexerSteps, DetectorSteps,
                WriterSteps, clock
  <2>2. QED
    BY <1>5, <1>6, <2>1
<1>9. QED
  BY <1>7, <1>8

-----------------------------------------------------------------------------
(* All of it together.                                                     *)

CloneInv ==
  /\ IndexInv
  /\ OneSpot /\ Answered
  /\ Once /\ Sound
  /\ Asked /\ PastReported

LEMMA AtStart ==
  ASSUME InitDetection
  PROVE  /\ main = "read" /\ fed = 0 /\ begin = 0
         /\ inputQueue = {} /\ detectQueue = {} /\ laterQueue = {} /\ ToIndex = {}
         /\ \A w \in Workers : /\ builder[w].pc # "work" /\ indexer[w].pc # "work"
                              /\ detector[w].pc # "work" /\ detector[w].todo = {}
         /\ outputQueue = {} /\ Handed = {} /\ writer \in {"wait", "take"}
<1> USE DEF Chosen, AtRest
<1>1. /\ main = "read" /\ fed = 0 /\ begin = 0
      /\ inputQueue = {} /\ detectQueue = {} /\ laterQueue = {}
      /\ gtfQueue = [w \in Workers |-> {}]
      /\ \/ builder = [w \in Workers |-> Taking] \/ builder = [w \in Workers |-> Ended]
      /\ \/ indexer = [w \in Workers |-> Taking] \/ indexer = [w \in Workers |-> Waiting]
      /\ detector = [w \in Workers |-> Waiting]
      /\ outputQueue = {} /\ Handed = {} /\ writer \in {"wait", "take"}
  <2>1. CASE Chosen(FALSE, FALSE) /\ Init /\ AtRest
    BY <2>1 DEF Init, Handed
  <2>2. CASE Chosen(TRUE, FALSE) /\ InitPreSorted /\ AtRest
    BY <2>2 DEF InitPreSorted, Handed
  <2>3. CASE Chosen(FALSE, TRUE) /\ InitPartitioned
    BY <2>3 DEF InitPartitioned, Handed
  <2>4. CASE Chosen(TRUE, TRUE) /\ InitGiven
    BY <2>4 DEF InitGiven, Handed
  <2>5. QED
    BY <2>1, <2>2, <2>3, <2>4 DEF InitDetection
<1>2. ToIndex = {}
  BY <1>1 DEF ToIndex
<1>3. \A w \in Workers : /\ builder[w].pc # "work" /\ indexer[w].pc # "work"
                         /\ detector[w].pc # "work" /\ detector[w].todo = {}
  BY <1>1 DEF Taking, Ended, Waiting
<1>4. QED
  BY <1>1, <1>2, <1>3

LEMMA CloneInit == InitDetection => CloneInv
<1> SUFFICES ASSUME InitDetection PROVE CloneInv
  OBVIOUS
<1>1. IndexInv /\ Asked
  BY TypedInit, PhasesInit, IndexFilledInit, DrawnInit, AskedInit DEF IndexInv
<1>2. Outputs = {}
  BY AtStart DEF Outputs
<1>3. OneSpot
  <2>1. \A k : \A s \in Spots : \A w \in Workers : Spot(k, s, w) => s = "unread"
    BY AtStart DEF Spot
  <2>2. "unread" \notin Threads
    BY DEF Threads
  <2>3. QED
    BY <2>1, <2>2 DEF OneSpot
<1>4. Answered
  BY <1>2 DEF Answered
<1>5. Once /\ Sound
  BY <1>2, AtStart DEF Once, Sound
<1>6. PastReported
  <2>1. \A d \in Places : ~ (d <= begin)
    <3>1. Places \subseteq Nat \ {0} /\ begin = 0
      BY <1>1, AtStart, NumbersTyped DEF IndexInv
    <3>2. QED
      BY <3>1
  <2>2. QED
    BY <2>1 DEF PastReported
<1>7. QED
  BY <1>1, <1>3, <1>4, <1>5, <1>6 DEF CloneInv

LEMMA CloneStep == CloneInv /\ (Steps \/ UNCHANGED state) => CloneInv'
<1> SUFFICES ASSUME CloneInv, Steps \/ UNCHANGED state PROVE CloneInv'
  OBVIOUS
<1>1. /\ IndexInv /\ WellTyped /\ Phases /\ IndexFilled /\ Drawn
      /\ OneSpot /\ Answered /\ Once /\ Sound /\ Asked /\ PastReported
  BY DEF CloneInv, IndexInv
<1>2. WellTyped'
  BY <1>1, TypedStep
<1>3. Phases'
  BY <1>1, PhasesStep
<1>4. IndexFilled'
  BY <1>1, <1>3, IndexFilledStep
<1>5. Drawn'
  BY <1>1, <1>3, DrawnStep
<1>6. OneSpot' /\ Answered'
  BY <1>1, SpotsStep
<1>7. Once' /\ Sound'
  BY <1>1, ClonesStep
<1>8. Asked'
  BY <1>1, AskedStep
<1>9. PastReported'
  BY <1>1, PastReportedStep
<1>10. IndexInv'
  BY <1>2, <1>3, <1>4, <1>5 DEF IndexInv
<1>11. QED
  BY <1>6, <1>7, <1>8, <1>9, <1>10 DEF CloneInv

LEMMA CloneInvariant == SpecDetection => []CloneInv
<1>1. CloneInv /\ [NextDetection]_detectVars => CloneInv'
  BY IsStep, CloneStep DEF CloneInv, IndexInv
<1>2. QED
  BY <1>1, CloneInit, PTL DEF SpecDetection

-----------------------------------------------------------------------------
(* What has been handed to the writer is written, or in its buffer.        *)

Saves ==
  /\ written \subseteq written'
  /\ UNCHANGED <<buffer, written>> \/ writer = "take" \/ main = "join writer"
  /\ writer' = "ended" => buffer' = {} \/ (writer = "ended" /\ buffer' \subseteq buffer)

Flushed == writer = "ended" => buffer = {}

LEMMA SavesMain == MainThread \/ IOFails => Saves
<1> SUFFICES ASSUME MainThread \/ IOFails PROVE Saves
  OBVIOUS
<1> USE DEF outputVars
<1>1. ASSUME UNCHANGED <<buffer, written>>, writer' = writer \/ writer' = "take" PROVE Saves
  BY <1>1 DEF Saves
<1>2. ASSUME Finish \/ FinishFails PROVE Saves
  BY <1>2 DEF Finish, FinishFails, Save, Saves
<1>3. ASSUME WriterFails PROVE Saves
  BY <1>3 DEF WriterFails, WriteFails, FlushFails, Save, Saves
<1>4. ASSUME \/ Read \/ Put \/ ReadEnd \/ PoisonInput \/ PoisonIndexers
             \/ StartIndexing \/ StartDetection \/ PoisonOutput \/ ReadFails
      PROVE  Saves
  BY <1>1, <1>4 DEF Read, Put, ReadEnd, PoisonInput, PoisonIndexers, StartIndexing,
                    StartDetection, PoisonOutput, ReadFails
<1>5. ASSUME \/ ReadPartition \/ EndPartition \/ StartQueries
             \/ ReadLater \/ PutLater \/ LaterEnd \/ PoisonLater
             \/ NextPartition \/ NextPartitionGiven \/ QueryFails
             \/ PutGiven \/ PoisonGiven
      PROVE  Saves
  BY <1>1, <1>4, <1>5 DEF ReadPartition, EndPartition, StartQueries, ReadLater, PutLater,
                          LaterEnd, PoisonLater, NextPartition, NextPartitionGiven, QueryFails,
                          PutGiven, PoisonGiven
<1>6. Main \/ MainPreSorted => Saves
  BY <1>2, <1>4 DEF Main, MainPreSorted
<1>7. MainPartitioned \/ MainGiven => Saves
  BY <1>2, <1>4, <1>5 DEF MainPartitioned, MainGiven
<1>8. MainThread => Saves
  BY <1>6, <1>7 DEF MainThread, Whole, WholeGiven, Partitions, PartitionsGiven
<1>9. IOFails => Saves
  BY <1>2, <1>3, <1>4, <1>5 DEF IOFails
<1>10. QED
  BY <1>8, <1>9

LEMMA SavesStep == [NextDetection]_detectVars => Saves
<1> SUFFICES ASSUME [NextDetection]_detectVars PROVE Saves
  OBVIOUS
<1> USE DEF outputVars
<1>1. ASSUME UNCHANGED <<writer, buffer, written>> PROVE Saves
  BY <1>1 DEF Saves
<1>2. CASE UNCHANGED detectVars
  BY <1>1, <1>2 DEF detectVars, vars
<1>3. CASE WriterThread
  BY <1>3 DEF WriterThread, Writer, WriteClone, WriterEnds, Save, Saves
<1>4. ASSUME NEW w \in Workers, BuilderThread(w) PROVE Saves
  <2>1. Builder(w)
    BY <1>4 DEF BuilderThread, Whole, Partitions
  <2>2. QED
    BY <1>1, <2>1 DEF Builder, TakeInput, AddTerm, PutCounted, BuilderEnds, BuilderDies
<1>5. ASSUME NEW w \in Workers, IndexerThread(w) PROVE Saves
  <2>1. Indexer(w) \/ IndexerPreSorted(w)
    BY <1>5 DEF IndexerThread, Whole, WholeGiven, Partitions, PartitionsGiven, IndexerGiven
  <2>2. QED
    BY <1>1, <2>1 DEF Indexer, SkipSmall, SortAndPrefix, IndexTerm, PutIndexed, IndexerEnds,
                      IndexerPreSorted, SkipSmallGiven, Prefix, IndexerEndsGiven, IndexerDies
<1>6. ASSUME NEW w \in Workers, DetectorThread(w) PROVE Saves
  <2>1. \/ Detector(w) \/ DetectIndexed(w) \/ SwitchSource(w)
        \/ SkipLater(w) \/ DetectLater(w) \/ DetectLaterGiven(w) \/ LaterDetectorEnds(w)
        \/ DetectorDies(w) \/ PutClone(w) \/ NextQuery(w)
    BY <1>6 DEF DetectorThread, Whole, WholeGiven, Partitions, PartitionsGiven,
                DetectorPartitioned, DetectorGiven
  <2>2. QED
    BY <1>1, <2>1 DEF Detector, Detect, PutClone, NextQuery, DetectorEnds, DetectIndexed,
                      SwitchSource, SkipLater, DetectLater, DetectLaterGiven,
                      LaterDetectorEnds, DetectorDies
<1>7. QED
  BY <1>2, <1>3, <1>4, <1>5, <1>6, SavesMain
  DEF NextDetection, StepDetection, TerminatingDetection

LEMMA FlushedInvariant == SpecDetection => []Flushed
<1>1. InitDetection => Flushed
  BY AtStart DEF Flushed
<1>2. Flushed /\ [NextDetection]_detectVars => Flushed'
  BY SavesStep DEF Saves, Flushed
<1>3. QED
  BY <1>1, <1>2, PTL DEF SpecDetection

-----------------------------------------------------------------------------
(* The steps of a run are those of the promise.                            *)

LEMMA ExcusedGrows ==
  ASSUME UNCHANGED <<file, options>>, Gone \subseteq Gone', lostClones \subseteq lostClones',
         Unsaved \subseteq Unsaved'
  PROVE  /\ ClonesOf[file]' = ClonesOf[file] /\ Promised' = Promised
         /\ Excused \subseteq Excused' /\ Excused' \subseteq ClonesOf[file]
<1>1. ClonesOf[file]' = ClonesOf[file] /\ Promised' = Promised
  BY DEF ClonesOf, Promised, Sorted, SortedAlike, Ascending, IdsAscend
<1>2. Excused \subseteq Excused'
  BY <1>1 DEF Excused
<1>3. Excused' \subseteq ClonesOf[file]
  BY <1>1 DEF Excused
<1>4. QED
  BY <1>1, <1>2, <1>3

(* At the end nobody is left.                                              *)
LEMMA NobodyLeft ==
  ASSUME Phases, main = "done"
  PROVE  ~ Steps
<1>1. Terminated(detector) /\ writer \in WriterOver
  BY DEF Phases, Closed
<1>2. ~ MainSteps
  BY DEF MainSteps, Reads, Puts, ReadsLater, PutsLater, Advances, AdvancesTo, StartsIndexers,
         StartsDetectors, StartsPartition
<1>3. Detecting
  <2>1. PICK w \in Workers : TRUE
    BY PipelineAssumption
  <2>2. detector[w].pc # "wait"
    BY <1>1, <2>1 DEF Terminated
  <2>3. QED
    BY <2>2 DEF Detecting
<1>4. ASSUME NEW w \in Workers PROVE ~ BuilderSteps(w) /\ ~ IndexerSteps(w) /\ ~ DetectorSteps(w)
  <2>1. /\ builder[w].pc \notin {"take", "work"} /\ indexer[w].pc \notin {"take", "work"}
        /\ detector[w].pc \notin {"take", "work"}
    BY <1>1, <1>3, AtWorkThen
  <2>2. ~ BuilderSteps(w)
    BY <2>1 DEF BuilderSteps, TakesInput, AddsTerm, PutsCounted, BuilderStops
  <2>3. ~ IndexerSteps(w)
    BY <2>1 DEF IndexerSteps, Skips, Prefixes, IndexesTerm, PutsIndexed, IndexerStops
  <2>4. ~ DetectorSteps(w)
    BY <2>1 DEF DetectorSteps, Queries, QueriesLater, SkipsLater, PutsClone, EndsQuery,
                Switches, DetectorStops, AtLater
  <2>5. QED
    BY <2>2, <2>3, <2>4
<1>5. ~ WriterSteps
  BY <1>1 DEF WriterSteps, WriterOver
<1>6. QED
  BY <1>2, <1>4, <1>5 DEF Steps

(* A run that ends has handed to the writer all the clones that it is not
   excused: those that are not written are in its buffer.                  *)
Finished == main = "join writer" /\ writer \in {"ended", "unflushed"}

LEMMA AllHanded ==
  ASSUME CloneInv, Finished, Promised, NEW pair \in ClonesOf[file]
  PROVE  \/ pair \in Handed \cup lostClones
         \/ pair[1] \in lost \cup inputQueue \cup laterQueue
         \/ pair[2] \in lost \cup inputQueue
<1>1. WellTyped /\ Phases /\ IndexInv /\ Asked /\ PastReported
  BY DEF CloneInv, IndexInv
<1>2. pair \in Pairs
  BY <1>1, InClonesOf
<1>3. PICK k \in Places, d \in Places : pair = <<k, d>>
  BY <1>2 DEF Pairs
<1>4. <<k, d>> \in ClonesOf[file]
  BY <1>3
<1>5. fed = Len(file) /\ outputQueue = {} /\ Joined /\ writer # "failed"
  BY <1>1 DEF Finished, Phases, Closed, Joined
<1>6. begin \in Nat /\ fed \in Nat
  BY <1>1, NumbersTyped
<1>7. d \in 1 .. fed
  <2>1. Places = 1 .. fed
    BY <1>5 DEF Places
  <2>2. QED
    BY <2>1
<1>8. Asks(k) /\ Reached(d) => Reports(<<k, d>>)
  <2>1. CASE d <= begin
    BY <1>1, <1>4, <1>5, <2>1 DEF PastReported, Asks, Reached
  <2>2. CASE ~ (d <= begin)
    <3>1. d \in begin + 1 .. fed
      BY <1>6, <1>7, <2>2
    <3>2. QED
      BY <1>1, <1>4, <1>5, <3>1, PartitionDone
  <2>3. QED
    BY <2>1, <2>2
<1>9. Out = Handed \cup lostClones
  BY <1>5 DEF Out, Outputs
<1>10. pair[1] = k /\ pair[2] = d
  BY <1>3
<1>11. QED
  BY <1>3, <1>8, <1>9, <1>10 DEF Asks, Reached, Reports

LEMMA EndsReported ==
  ASSUME CloneInv, Flushed, Saves, Finished, main' = "done",
         UNCHANGED <<file, options, inputQueue, laterQueue, lost, lostClones, writer, Handed>>
  PROVE  ClonesOf[file] \subseteq written' \cup Excused'
<1>1. Gone' = lost \cup inputQueue \cup laterQueue
  BY DEF Gone
<1>2. ClonesOf[file]' = ClonesOf[file] /\ Promised' = Promised
  BY DEF ClonesOf, Promised, Sorted, SortedAlike, Ascending, IdsAscend
<1>3. Handed \subseteq written' \cup Unsaved'
  <2>1. Handed \subseteq written' \cup buffer'
    BY DEF Handed
  <2>2. CASE writer = "ended"
    <3>1. buffer' = {}
      BY <2>2 DEF Flushed, Saves
    <3>2. QED
      BY <2>1, <3>1
  <2>3. CASE writer = "unflushed"
    BY <2>1, <2>3 DEF Unsaved
  <2>4. QED
    BY <2>2, <2>3 DEF Finished
<1>4. ASSUME NEW pair \in ClonesOf[file] PROVE pair \in written' \cup Excused'
  <2>1. CASE ~ Promised
    BY <1>2, <1>4, <2>1 DEF Excused
  <2>2. CASE Promised
    <3>1. \/ pair \in Handed \cup lostClones
          \/ pair[1] \in lost \cup inputQueue \cup laterQueue
          \/ pair[2] \in lost \cup inputQueue
      BY <1>4, <2>2, AllHanded
    <3>2. \/ pair \in written' \/ pair \in Unsaved' \/ pair \in lostClones'
          \/ pair[1] \in Gone' \/ pair[2] \in Gone'
      BY <1>1, <1>3, <3>1
    <3>3. QED
      BY <1>2, <1>4, <3>2 DEF Excused
  <2>3. QED
    BY <2>1, <2>2
<1>5. QED
  BY <1>4

LEMMA PromiseInit == InitDetection => Promise!Init
<1> SUFFICES ASSUME InitDetection PROVE Promise!Init
  OBVIOUS
<1>1. written = {} /\ main = "read" /\ writer \in {"wait", "take"}
  BY AtStart DEF Handed
<1>2. QED
  BY <1>1 DEF Promise!Init, Outcome

(* The writer is handed nothing but clones.                                *)
HandsClones == Handed \subseteq ClonesOf[file]

LEMMA HandsClonesStep ==
  ASSUME Sound, HandsClones, Steps \/ UNCHANGED state
  PROVE  HandsClones'
<1> USE DEF state, clock, counting, indexing, querying, cloning
<1>1. UNCHANGED <<file, options>>
  BY DEF Steps, choice
<1>2. ClonesOf[file]' = ClonesOf[file]
  BY <1>1 DEF ClonesOf
<1>3. Handed' \subseteq Handed \cup outputQueue
  <2>1. CASE MainSteps
    BY <2>1 DEF MainSteps, Reads, Puts, ReadsLater, PutsLater, Advances, AdvancesTo,
                StartsIndexers, StartsDetectors, StartsPartition
  <2>2. ASSUME NEW w \in Workers, BuilderSteps(w) \/ IndexerSteps(w)
        PROVE  Handed' \subseteq Handed \cup outputQueue
    BY <2>2 DEF BuilderSteps, IndexerSteps
  <2>3. ASSUME NEW w \in Workers, DetectorSteps(w)
        PROVE  Handed' \subseteq Handed \cup outputQueue
    BY <2>3 DEF DetectorSteps
  <2>4. CASE WriterSteps
    BY <2>4 DEF WriterSteps, Writes
  <2>5. QED
    BY <2>1, <2>2, <2>3, <2>4 DEF Steps
<1>4. QED
  BY <1>2, <1>3 DEF Sound, HandsClones

LEMMA HandsClonesInvariant == SpecDetection => []HandsClones
<1>1. InitDetection => HandsClones
  BY AtStart DEF HandsClones
<1>2. HandsClones /\ CloneInv /\ [NextDetection]_detectVars => HandsClones'
  BY IsStep, HandsClonesStep DEF CloneInv, IndexInv
<1>3. QED
  BY <1>1, <1>2, CloneInvariant, PTL DEF SpecDetection

(* Until the end a run writes clones only and loses no excuse.             *)
LEMMA ReportGrows ==
  ASSUME CloneInv, HandsClones', Saves, Steps \/ UNCHANGED state, main # "done"
  PROVE  Promise!Grow
<1>1. UNCHANGED <<file, options>>
  BY DEF Steps, state, choice
<1>2. lost \subseteq lost' /\ lostClones \subseteq lostClones'
  BY OutKept DEF CloneInv, IndexInv
<1>3. Gone \subseteq Gone' /\ Unsaved \subseteq Unsaved'
  BY <1>2 DEF Gone, Unsaved
<1>4. /\ ClonesOf[file]' = ClonesOf[file]
      /\ Excused \subseteq Excused' /\ Excused' \subseteq ClonesOf[file]
  BY <1>1, <1>2, <1>3, ExcusedGrows
<1>5. written' \subseteq ClonesOf[file]
  BY <1>4 DEF HandsClones, Handed
<1>6. written \subseteq written'
  BY DEF Saves
<1>7. QED
  BY <1>4, <1>5, <1>6 DEF Promise!Grow

(* A failure is for good, and a run ends when main does.                   *)
LEMMA OutcomeStep ==
  ASSUME Phases, Steps \/ UNCHANGED state, main # "done"
  PROVE  /\ Outcome \in {"running", "failed"}
         /\ Outcome = "failed" => Outcome' = "failed"
         /\ main' # "done" => Outcome' \in {"running", "failed"}
         /\ main' = "done" => Outcome' \in {"ended", "failed"}
<1>1. writer = "failed" => writer' = "failed"
  BY OutKept
<1>2. main \in {"failed", "unclosed"} => main' = main
  <2>1. SUFFICES ASSUME main \in {"failed", "unclosed"} PROVE main' = main
    OBVIOUS
  <2>2. ~ MainSteps
    BY <2>1 DEF MainSteps, Reads, Puts, ReadsLater, PutsLater, Advances, AdvancesTo,
                StartsIndexers, StartsDetectors, StartsPartition
  <2>3. QED
    BY <2>2 DEF Steps, BuilderSteps, IndexerSteps, DetectorSteps, WriterSteps, state, clock
<1>3. QED
  BY <1>1, <1>2 DEF Outcome

LEMMA PromiseStep ==
  CloneInv /\ HandsClones' /\ Flushed /\ Saves /\ (Steps \/ UNCHANGED state)
    => [Promise!Next]_(Promise!reportVars)
<1> SUFFICES ASSUME CloneInv, HandsClones', Flushed, Saves, Steps \/ UNCHANGED state
             PROVE  [Promise!Next]_(Promise!reportVars)
  OBVIOUS
<1>1. Phases
  BY DEF CloneInv, IndexInv
<1>2. CASE main = "done"
  <2>1. UNCHANGED <<file, options, main, writer, inputQueue, laterQueue, lost, lostClones>>
    BY <1>1, <1>2, NobodyLeft DEF state, choice, clock, counting, querying, cloning
  <2>2. UNCHANGED <<buffer, written>>
    <3>1. writer # "take"
      BY <1>1, <1>2 DEF Phases, WriterOver
    <3>2. QED
      BY <1>2, <3>1 DEF Saves
  <2>3. Gone' = Gone /\ Outcome' = Outcome /\ Unsaved' = Unsaved
    BY <2>1, <2>2 DEF Gone, Outcome, Unsaved
  <2>4. ClonesOf[file]' = ClonesOf[file] /\ Promised' = Promised
    BY <2>1 DEF ClonesOf, Promised, Sorted, SortedAlike, Ascending, IdsAscend
  <2>5. Excused' = Excused
    BY <2>1, <2>3, <2>4 DEF Excused
  <2>6. QED
    BY <2>2, <2>3, <2>4, <2>5 DEF Promise!reportVars
<1>3. CASE main # "done"
  <2>1. Promise!Grow
    BY <1>3, ReportGrows
  <2>2. /\ Outcome \in {"running", "failed"}
        /\ Outcome = "failed" => Outcome' = "failed"
        /\ main' # "done" => Outcome' \in {"running", "failed"}
        /\ main' = "done" => Outcome' \in {"ended", "failed"}
    BY <1>1, <1>3, OutcomeStep
  <2>3. CASE Outcome' = Outcome
    BY <2>1, <2>2, <2>3 DEF Promise!Work, Promise!Next
  <2>4. CASE Outcome = "running" /\ Outcome' = "failed"
    BY <2>1, <2>4 DEF Promise!Fail, Promise!Next
  <2>5. CASE Outcome = "running" /\ Outcome' = "ended"
    <3>1. main' = "done" /\ writer' # "failed"
      BY <2>2, <2>5 DEF Outcome
    <3>2. Advances
      BY <1>3, <3>1 DEF Steps, MainSteps, Reads, Puts, ReadsLater, PutsLater, StartsIndexers,
                        StartsDetectors, StartsPartition, BuilderSteps, IndexerSteps,
                        DetectorSteps, WriterSteps, state, clock
    <3>3. /\ UNCHANGED <<inputQueue, laterQueue, lost, lostClones, writer, Handed>>
          /\ AdvancesTo("done")
      BY <3>1, <3>2 DEF Advances, counting, querying, cloning
    <3>4. Finished
      BY <3>1, <3>3 DEF AdvancesTo, Finished, WriterOver
    <3>5. UNCHANGED <<file, options>>
      BY DEF Steps, state, choice
    <3>6. ClonesOf[file] \subseteq written' \cup Excused'
      BY <3>1, <3>3, <3>4, <3>5, EndsReported
    <3>7. QED
      BY <2>1, <2>5, <3>6 DEF Promise!End, Promise!Next
  <2>6. QED
    BY <2>2, <2>3, <2>4, <2>5
<1>4. QED
  BY <1>2, <1>3

(* Whichever of the four pipelines runs, with whatever sizes and however
   its threads interleave and die: it reports clones only, and when it ends
   it has reported all of them but those of blocks that dead threads took
   along and those that were in the writer's buffer when its flush failed -
   given blocks sorted alike if it takes them as they are, and ids that
   ascend if it goes by partitions.                                        *)
THEOREM ReportsAsPromised == SpecDetection => ImplementsReport
<1>1. InitDetection => Promise!Init
  BY PromiseInit
<1>2. CloneInv /\ HandsClones' /\ Flushed /\ [NextDetection]_detectVars
        => [Promise!Next]_(Promise!reportVars)
  BY IsStep, SavesStep, PromiseStep DEF CloneInv, IndexInv
<1>3. QED
  BY <1>1, <1>2, CloneInvariant, HandsClonesInvariant, FlushedInvariant, PTL
  DEF SpecDetection, ImplementsReport, Promise!Spec

=============================================================================
