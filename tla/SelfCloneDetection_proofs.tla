---------------------- MODULE SelfCloneDetection_proofs ----------------------
(***************************************************************************)
(* Proofs about SelfCloneDetection, for any files, any number of threads   *)
(* and any sizes of the queues.                                            *)
(***************************************************************************)
EXTENDS SelfCloneDetection, FiniteSetTheorems, TLAPS

Many == Cardinality(Workers)

USE DEF Handed

LEMMA ManyWorkers == Many \in Nat /\ Many # 0
  BY PipelineAssumption, FS_CardinalityType, FS_EmptySet DEF Many

(* What main has done when it is where it is.                              *)
Progress ==
  /\ file \in Files
  /\ inputPoison.left + inputPoison.there <= Many
  /\ main \in {"read", "put"} => inputPoison.left = Many /\ inputPoison.there = 0
  /\ main = "put" => fed # 0
  /\ main = "poison" => inputPoison.left # 0

TypeInv == TypeOK /\ Progress

LEMMA TypeInit == Init => TypeInv
<1> SUFFICES ASSUME Init PROVE TypeInv
  OBVIOUS
<1>1. Many \in Nat /\ Many # 0
  BY ManyWorkers
<1>2. Len(file) \in Nat
  BY FilesAssumption DEF Init
<1>3. Waiting \in Tasks /\ Taking \in Tasks
  BY DEF Waiting, Taking, Tasks
<1>4. inputPoison \in [left : 0 .. Many, there : 0 .. Many]
  BY <1>1 DEF Init, Many
<1>5. Progress
  BY <1>1 DEF Init, Progress, Many
<1>6. TypeOK
  BY <1>2, <1>3, <1>4 DEF Init, TypeOK, Places, Pairs, Many
<1>7. QED
  BY <1>5, <1>6 DEF TypeInv

(* The file has a length, its places are finitely many, and each block on
   them counts each of its terms a natural number of times.                *)
LEMMA FileRead ==
  ASSUME TypeInv
  PROVE  /\ Len(file) \in Nat
         /\ IsFiniteSet(Places)
         /\ \A k \in Places : \A t \in Terms : file[k].freq[t] \in Nat
<1>1. file \in Files
  BY DEF TypeInv, Progress
<1>2. Len(file) \in Nat
  BY <1>1, FilesAssumption
<1>3. \A k \in 1 .. Len(file) : file[k].freq \in [Terms -> Nat]
  BY <1>1, FilesAssumption
<1>4. \A k \in 1 .. Len(file) : \A t \in Terms : file[k].freq[t] \in Nat
  BY <1>3
<1>5. IsFiniteSet(Places)
  BY <1>2, FS_Interval DEF Places
<1>6. QED
  BY <1>2, <1>4, <1>5 DEF Places

(* The threads are unchanged by main but for those that it starts.         *)
LEMMA TypeMain ==
  ASSUME TypeInv, Main \/ ReadFails \/ FinishFails
  PROVE  TypeInv'
<1> USE DEF inputVars, gtfVars, indexVars, outputVars
<1>1. Many \in Nat /\ Many # 0 /\ Len(file) \in Nat
  BY ManyWorkers, FileRead
<1>2. /\ fed \in 0 .. Len(file)
      /\ inputPoison \in [left : 0 .. Many, there : 0 .. Many]
  BY DEF TypeInv, TypeOK, Many
<1>3. Taking \in Tasks
  BY DEF Taking, Tasks
<1>4. CASE Read
  <2>1. fed' \in 0 .. Len(file) /\ fed' # 0
    BY <1>1, <1>2, <1>4 DEF Read
  <2>2. Progress'
    BY <1>4, <2>1 DEF Read, TypeInv, Progress
  <2>3. TypeOK'
    BY <1>4, <2>1 DEF Read, TypeInv, TypeOK, Places, Pairs
  <2>4. QED
    BY <2>2, <2>3 DEF TypeInv
<1>5. CASE Put
  <2>1. fed \in 1 .. Len(file)
    BY <1>1, <1>2, <1>5 DEF Put, TypeInv, Progress
  <2>2. Progress'
    BY <1>5 DEF Put, TypeInv, Progress
  <2>3. TypeOK'
    BY <1>5, <2>1 DEF Put, TypeInv, TypeOK, Places, Pairs
  <2>4. QED
    BY <2>2, <2>3 DEF TypeInv
<1>6. CASE ReadEnd
  BY <1>1, <1>2, <1>6 DEF ReadEnd, TypeInv, TypeOK, Progress, Places, Pairs
<1>7. CASE PoisonInput
  <2>1. /\ inputPoison.left \in Nat /\ inputPoison.there \in Nat
        /\ inputPoison.left # 0 /\ inputPoison.left + inputPoison.there <= Many
    <3>1. inputPoison.left \in 0 .. Many /\ inputPoison.there \in 0 .. Many
      BY <1>2
    <3>2. inputPoison.left # 0 /\ inputPoison.left + inputPoison.there <= Many
      BY <1>7 DEF PoisonInput, PoisonOne, TypeInv, Progress
    <3>3. QED
      BY <3>1, <3>2
  <2>2. /\ inputPoison'.left = inputPoison.left - 1
        /\ inputPoison'.there = inputPoison.there + 1
        /\ inputPoison' = [left |-> inputPoison.left - 1, there |-> inputPoison.there + 1]
    BY <1>7 DEF PoisonInput, PoisonOne
  <2>3. inputPoison' \in [left : 0 .. Many, there : 0 .. Many]
    BY <2>1, <2>2, <1>1
  <2>4. Progress'
    <3>1. main' \in {"poison", "join builders"} /\ UNCHANGED <<file, fed>>
      BY <1>7 DEF PoisonInput, PoisonOne
    <3>2. inputPoison'.left + inputPoison'.there <= Many
      BY <1>1, <2>1, <2>2
    <3>3. main' = "poison" => inputPoison'.left # 0
      BY <1>7, <2>1, <2>2 DEF PoisonInput, PoisonOne
    <3>4. QED
      BY <3>1, <3>2, <3>3 DEF TypeInv, Progress, Many
  <2>5. TypeOK'
    <3>1. main' \in {"poison", "join builders"}
      BY <1>7 DEF PoisonInput, PoisonOne
    <3>2. UNCHANGED <<file, fed, inputQueue, gtfVars, gtfQueue, indexVars, detectQueue,
                      detector, outputQueue, outputVars, lost>>
      BY <1>7 DEF PoisonInput
    <3>3. QED
      BY <2>3, <3>1, <3>2 DEF TypeInv, TypeOK, Places, Pairs, Many
  <2>6. QED
    BY <2>4, <2>5 DEF TypeInv
<1>8. CASE StartIndexing
  BY <1>3, <1>8 DEF StartIndexing, TypeInv, TypeOK, Progress, Places, Pairs
<1>9. CASE StartDetection
  BY <1>3, <1>9 DEF StartDetection, TypeInv, TypeOK, Progress, Places, Pairs
<1>10. CASE PoisonOutput
  BY <1>10 DEF PoisonOutput, TypeInv, TypeOK, Progress, Places, Pairs
<1>11. CASE Finish \/ FinishFails
  BY <1>11 DEF Finish, FinishFails, Save, TypeInv, TypeOK, Progress, Places, Pairs
<1>12. CASE ReadFails
  BY <1>12 DEF ReadFails, TypeInv, TypeOK, Progress, Places, Pairs
<1>13. QED
  BY <1>4, <1>5, <1>6, <1>7, <1>8, <1>9, <1>10, <1>11, <1>12 DEF Main

LEMMA TypeBuilder ==
  ASSUME TypeInv, NEW w \in Workers, Builder(w)
  PROVE  TypeInv'
<1> USE DEF inputVars, gtfVars, indexVars, outputVars
<1>1. Many \in Nat /\ Len(file) \in Nat
  BY ManyWorkers, FileRead
<1>2. Taking \in Tasks /\ Ended \in Tasks /\ Dead \in Tasks
  BY DEF Taking, Ended, Dead, Tasks
<1>3. builder[w].pc = "work" => builder[w] \in [pc : {"work"}, block : Places, todo : SUBSET Terms]
  BY DEF TypeInv, TypeOK, Tasks
<1>4. CASE TakeInput(w)
  <2>1. PICK k \in inputQueue : /\ inputQueue' = inputQueue \ {k}
                                /\ builder' = [builder EXCEPT ![w] = At(k, TermsOf(file[k]))]
    BY <1>4 DEF TakeInput
  <2>2. At(k, TermsOf(file[k])) \in [pc : {"work"}, block : Places, todo : SUBSET Terms]
    BY <2>1 DEF At, TermsOf, TypeInv, TypeOK
  <2>3. QED
    BY <1>4, <2>1, <2>2 DEF TakeInput, TypeInv, TypeOK, Progress, Places, Pairs
<1>5. CASE AddTerm(w)
  <2>1. PICK t \in builder[w].todo :
          /\ gtf' = [gtf EXCEPT ![t] = @ + file[builder[w].block].freq[t]]
          /\ builder' = [builder EXCEPT ![w].todo = @ \ {t}]
    BY <1>5 DEF AddTerm
  <2>2. builder[w].block \in Places /\ t \in Terms /\ builder[w].todo \subseteq Terms
    BY <1>3, <1>5 DEF AddTerm
  <2>3. file[builder[w].block].freq[t] \in Nat
    BY <2>2, FileRead
  <2>4. gtf' \in [Terms -> Nat]
    <3>1. gtf \in [Terms -> Nat] /\ gtf[t] + file[builder[w].block].freq[t] \in Nat
      <4>1. gtf \in [Terms -> Nat]
        BY DEF TypeInv, TypeOK
      <4>2. gtf[t] \in Nat
        BY <2>2, <4>1
      <4>3. QED
        BY <2>3, <4>1, <4>2
    <3>2. QED
      BY <2>1, <3>1
  <2>5. [builder[w] EXCEPT !.todo = @ \ {t}]
          \in [pc : {"work"}, block : Places, todo : SUBSET Terms]
    BY <1>3, <1>5 DEF AddTerm
  <2>6. builder' \in [Workers -> Tasks \cup [pc : {"work"}, block : Places, todo : SUBSET Terms]]
    BY <2>1, <2>5 DEF TypeInv, TypeOK
  <2>7. QED
    BY <1>5, <2>4, <2>6 DEF AddTerm, TypeInv, TypeOK, Progress, Places, Pairs
<1>6. CASE PutCounted(w)
  <2>1. builder[w].block \in Places
    BY <1>3, <1>6 DEF PutCounted
  <2>2. QED
    BY <1>2, <1>6, <2>1 DEF PutCounted, TypeInv, TypeOK, Progress, Places, Pairs
<1>7. CASE BuilderEnds(w)
  <2>1. /\ inputPoison.left \in 0 .. Many /\ inputPoison.there \in 0 .. Many
        /\ inputPoison \in [left : 0 .. Many, there : 0 .. Many]
    BY DEF TypeInv, TypeOK, Many
  <2>2. inputPoison.there > 0 /\ inputPoison' = [inputPoison EXCEPT !.there = @ - 1]
    BY <1>7 DEF BuilderEnds, TakePoison
  <2>3. /\ inputPoison'.left = inputPoison.left /\ inputPoison'.there = inputPoison.there - 1
        /\ inputPoison' \in [left : 0 .. Many, there : 0 .. Many]
    BY <1>1, <2>1, <2>2
  <2>4. Progress'
    BY <1>1, <1>7, <2>1, <2>2, <2>3 DEF BuilderEnds, TypeInv, Progress
  <2>5. TypeOK'
    BY <1>2, <1>7, <2>3 DEF BuilderEnds, TypeInv, TypeOK, Places, Pairs, Many
  <2>6. QED
    BY <2>4, <2>5 DEF TypeInv
<1>8. CASE BuilderDies(w)
  <2>1. PICK k \in inputQueue, heldBack \in SUBSET inputQueue, buffered \in SUBSET gtfQueue[w] :
          /\ inputQueue' = inputQueue \ ({k} \cup heldBack)
          /\ gtfQueue' = [gtfQueue EXCEPT ![w] = @ \ buffered]
          /\ lost' = lost \cup {k} \cup heldBack \cup buffered
    BY <1>8 DEF BuilderDies
  <2>2. /\ gtfQueue[w] \in SUBSET Places /\ inputQueue' \in SUBSET Places
        /\ lost' \in SUBSET Places
    BY <2>1 DEF TypeInv, TypeOK
  <2>3. gtfQueue' \in [Workers -> SUBSET Places]
    BY <2>1, <2>2 DEF TypeInv, TypeOK
  <2>4. QED
    BY <1>2, <1>8, <2>2, <2>3 DEF BuilderDies, TypeInv, TypeOK, Progress, Places, Pairs
<1>9. QED
  BY <1>4, <1>5, <1>6, <1>7, <1>8 DEF Builder

LEMMA TypeIndexer ==
  ASSUME TypeInv, NEW w \in Workers, Indexer(w)
  PROVE  TypeInv'
<1> USE DEF inputVars, gtfVars, indexVars, outputVars
<1>1. Taking \in Tasks /\ Ended \in Tasks
  BY DEF Taking, Ended, Tasks
<1>2. indexer[w].pc = "work" => indexer[w] \in [pc : {"work"}, block : Places, todo : SUBSET Terms]
  BY DEF TypeInv, TypeOK, Tasks
<1>3. \A k : Removed(k) \in [Workers -> SUBSET Places]
  BY DEF Removed, TypeInv, TypeOK
<1>4. ToIndex \subseteq Places
  <2>1. \A v \in Workers : gtfQueue[v] \subseteq Places
    BY DEF TypeInv, TypeOK
  <2>2. QED
    BY <2>1 DEF ToIndex
<1>5. CASE SkipSmall(w)
  <2>1. gtfQueue' \in [Workers -> SUBSET Places]
    BY <1>3, <1>5 DEF SkipSmall
  <2>2. UNCHANGED <<file, main, inputVars, gtfVars, indexVars, detectQueue, detector,
                    outputQueue, outputVars, lost>>
    BY <1>5 DEF SkipSmall
  <2>3. QED
    BY <2>1, <2>2 DEF TypeInv, TypeOK, Progress, Places, Pairs
<1>6. CASE SortAndPrefix(w)
  <2>1. PICK k \in ToIndex :
          /\ gtfQueue' = Removed(k)
          /\ prefix' = [prefix EXCEPT ![k] = Block!PrefixTerms(file[k], threshold)]
          /\ indexer' = [indexer EXCEPT ![w] = At(k, prefix'[k])]
    BY <1>6 DEF SortAndPrefix
  <2>2. Block!PrefixTerms(file[k], threshold) \in SUBSET Terms
    BY DEF Block!PrefixTerms, Block!TermsOf
  <2>3. prefix' \in [Places -> SUBSET Terms] /\ k \in Places
    BY <1>4, <2>1, <2>2 DEF TypeInv, TypeOK
  <2>4. At(k, prefix'[k]) \in [pc : {"work"}, block : Places, todo : SUBSET Terms]
    BY <2>3 DEF At
  <2>5. QED
    BY <1>3, <1>6, <2>1, <2>3, <2>4 DEF SortAndPrefix, TypeInv, TypeOK, Progress, Places, Pairs
<1>7. CASE IndexTerm(w)
  <2>1. PICK t \in indexer[w].todo :
          /\ index' = [index EXCEPT ![t] = @ \cup {indexer[w].block}]
          /\ indexer' = [indexer EXCEPT ![w].todo = @ \ {t}]
    BY <1>7 DEF IndexTerm
  <2>2. indexer[w].block \in Places
    BY <1>2, <1>7 DEF IndexTerm
  <2>3. index' \in [Terms -> SUBSET Places]
    BY <2>1, <2>2 DEF TypeInv, TypeOK
  <2>4. [indexer[w] EXCEPT !.todo = @ \ {t}]
          \in [pc : {"work"}, block : Places, todo : SUBSET Terms]
    BY <1>2, <1>7 DEF IndexTerm
  <2>5. QED
    BY <1>7, <2>1, <2>3, <2>4 DEF IndexTerm, TypeInv, TypeOK, Progress, Places, Pairs
<1>8. CASE PutIndexed(w)
  <2>1. indexer[w].block \in Places
    BY <1>2, <1>8 DEF PutIndexed
  <2>2. QED
    BY <1>1, <1>8, <2>1 DEF PutIndexed, TypeInv, TypeOK, Progress, Places, Pairs
<1>9. CASE IndexerEnds(w)
  BY <1>1, <1>9 DEF IndexerEnds, TypeInv, TypeOK, Progress, Places, Pairs
<1>10. QED
  BY <1>5, <1>6, <1>7, <1>8, <1>9 DEF Indexer

(* The candidates are indexed blocks, so the pairs found are of blocks.    *)
LEMMA DetectsPairs ==
  ASSUME TypeInv, NEW k \in Places
  PROVE  DetectClones(k, prefix[k]) \in SUBSET ({k} \X Places)
<1>1. prefix[k] \subseteq Terms /\ \A t \in prefix[k] : index[t] \subseteq Places
  BY DEF TypeInv, TypeOK
<1>2. UNION {index[t] : t \in prefix[k]} \subseteq Places
  BY <1>1
<1>3. QED
  BY <1>2 DEF DetectClones

LEMMA TypeDetector ==
  ASSUME TypeInv, NEW w \in Workers, Detector(w)
  PROVE  TypeInv'
<1> USE DEF inputVars, gtfVars, indexVars, outputVars
<1>1. Taking \in Tasks /\ Ended \in Tasks
  BY DEF Taking, Ended, Tasks
<1>2. detector[w].pc = "work" => detector[w] \in [pc : {"work"}, block : Places, todo : SUBSET Pairs]
  BY DEF TypeInv, TypeOK, Tasks
<1>3. CASE Detect(w)
  <2>1. PICK k \in detectQueue :
          /\ detectQueue' = detectQueue \ {k}
          /\ detector' = [detector EXCEPT ![w] = At(k, DetectClones(k, prefix[k]))]
    BY <1>3 DEF Detect
  <2>2. k \in Places
    BY DEF TypeInv, TypeOK
  <2>3. DetectClones(k, prefix[k]) \in SUBSET Pairs
    BY <2>2, DetectsPairs DEF Pairs
  <2>4. At(k, DetectClones(k, prefix[k])) \in [pc : {"work"}, block : Places, todo : SUBSET Pairs]
    BY <2>2, <2>3 DEF At
  <2>5. QED
    BY <1>3, <2>1, <2>4 DEF Detect, TypeInv, TypeOK, Progress, Places, Pairs
<1>4. CASE PutClone(w)
  <2>1. PICK pair \in detector[w].todo :
          /\ outputQueue' = outputQueue \cup {pair}
          /\ detector' = [detector EXCEPT ![w].todo = @ \ {pair}]
    BY <1>4 DEF PutClone
  <2>2. pair \in Pairs
    BY <1>2, <1>4 DEF PutClone
  <2>3. [detector[w] EXCEPT !.todo = @ \ {pair}]
          \in [pc : {"work"}, block : Places, todo : SUBSET Pairs]
    BY <1>2, <1>4 DEF PutClone
  <2>4. QED
    BY <1>4, <2>1, <2>2, <2>3 DEF PutClone, TypeInv, TypeOK, Progress, Places, Pairs
<1>5. CASE NextQuery(w)
  BY <1>1, <1>5 DEF NextQuery, TypeInv, TypeOK, Progress, Places, Pairs
<1>6. CASE DetectorEnds(w)
  BY <1>1, <1>6 DEF DetectorEnds, TypeInv, TypeOK, Progress, Places, Pairs
<1>7. QED
  BY <1>3, <1>4, <1>5, <1>6 DEF Detector

LEMMA TypeWriter ==
  ASSUME TypeInv, Writer \/ WriterFails
  PROVE  TypeInv'
<1> USE DEF inputVars, gtfVars, indexVars, outputVars
<1>1. CASE WriteClone
  <2>1. buffer' \subseteq Pairs /\ written' \subseteq Pairs /\ outputQueue' \subseteq Pairs
    BY <1>1 DEF WriteClone, TypeInv, TypeOK
  <2>2. QED
    BY <1>1, <2>1 DEF WriteClone, TypeInv, TypeOK, Progress, Places, Pairs
<1>2. CASE WriterEnds \/ WriterFails
  <2>1. /\ buffer' \subseteq Pairs /\ written' \subseteq Pairs /\ outputQueue' \subseteq Pairs
        /\ writer' \in WriterOver
    BY <1>2 DEF WriterEnds, WriterFails, FlushFails, WriteFails, Save, WriterOver, TypeInv, TypeOK
  <2>2. QED
    BY <1>2, <2>1 DEF WriterEnds, WriterFails, FlushFails, WriteFails, TypeInv, TypeOK, Progress,
                      Places, Pairs
<1>3. QED
  BY <1>1, <1>2 DEF Writer

LEMMA TypeStep == TypeInv /\ [Next]_vars => TypeInv'
<1> SUFFICES ASSUME TypeInv, [Next]_vars PROVE TypeInv'
  OBVIOUS
<1>1. CASE UNCHANGED vars
  BY <1>1 DEF vars, inputVars, TypeInv, TypeOK, Progress, Places, Pairs
<1>2. CASE Step
  BY <1>2, TypeMain, TypeBuilder, TypeIndexer, TypeDetector, TypeWriter DEF Step
<1>3. QED
  BY <1>1, <1>2 DEF Next, Terminating

LEMMA TypeInvariant == Spec => []TypeInv
  BY TypeInit, TypeStep, PTL DEF Spec

(* The variables of the pipeline keep their types.                         *)
THEOREM TypeCorrect == Spec => []TypeOK
<1>1. TypeInv => TypeOK
  BY DEF TypeInv
<1>2. QED
  BY <1>1, TypeInvariant, PTL

-----------------------------------------------------------------------------
(* Main starts a stage when all threads of the stage before have ended.    *)

BeforeIndexing  == {"read", "put", "poison", "join builders", "failed"}
BeforeDetection == BeforeIndexing \cup {"join indexers"}

Staged ==
  /\ main \in BeforeIndexing => \A w \in Workers : indexer[w].pc = "wait"
  /\ main \notin BeforeIndexing => Terminated(builder)
  /\ main \in BeforeDetection => \A w \in Workers : detector[w].pc = "wait"
  /\ main \notin BeforeDetection => Terminated(indexer)

LEMMA StagedInit == Init => Staged
  BY DEF Init, Staged, BeforeIndexing, BeforeDetection, Waiting

LEMMA StagedStep == TypeInv /\ Staged /\ [Next]_vars => Staged'
<1> SUFFICES ASSUME TypeInv, Staged, [Next]_vars PROVE Staged'
  OBVIOUS
<1> USE DEF inputVars, gtfVars, indexVars, outputVars, BeforeIndexing, BeforeDetection
<1>1. CASE UNCHANGED vars
  BY <1>1 DEF vars, Staged, Terminated
<1>2. CASE Main
  <2>1. CASE StartIndexing
    BY <2>1 DEF StartIndexing, Staged, Terminated
  <2>2. CASE StartDetection
    BY <2>2 DEF StartDetection, Staged, Terminated
  <2>3. CASE PoisonInput
    BY <2>3 DEF PoisonInput, PoisonOne, Staged, Terminated
  <2>4. CASE Read \/ Put \/ ReadEnd
    BY <2>4 DEF Read, Put, ReadEnd, Staged, Terminated
  <2>5. CASE PoisonOutput \/ Finish
    BY <2>5 DEF PoisonOutput, Finish, Staged, Terminated
  <2>6. QED
    BY <1>2, <2>1, <2>2, <2>3, <2>4, <2>5 DEF Main
<1>3. CASE ReadFails \/ FinishFails
  BY <1>3 DEF ReadFails, FinishFails, Staged, Terminated
<1>4. ASSUME NEW w \in Workers, Builder(w) PROVE Staged'
  <2>1. builder[w].pc \in {"take", "work"} /\ UNCHANGED <<main, indexer, detector>>
    BY <1>4 DEF Builder, TakeInput, AddTerm, PutCounted, BuilderEnds, BuilderDies
  <2>2. QED
    BY <2>1 DEF Staged, Terminated
<1>5. ASSUME NEW w \in Workers, Indexer(w) PROVE Staged'
  <2>1. indexer[w].pc \in {"take", "work"} /\ UNCHANGED <<main, builder, detector>>
    BY <1>5 DEF Indexer, SkipSmall, SortAndPrefix, IndexTerm, PutIndexed, IndexerEnds
  <2>2. QED
    BY <2>1 DEF Staged, Terminated
<1>6. ASSUME NEW w \in Workers, Detector(w) PROVE Staged'
  <2>1. detector[w].pc \in {"take", "work"} /\ UNCHANGED <<main, builder, indexer>>
    BY <1>6 DEF Detector, Detect, PutClone, NextQuery, DetectorEnds
  <2>2. QED
    BY <2>1 DEF Staged, Terminated
<1>7. CASE Writer \/ WriterFails
  BY <1>7 DEF Writer, WriteClone, WriterEnds, WriterFails, WriteFails, FlushFails, Save, Staged, Terminated
<1>8. QED
  BY <1>1, <1>2, <1>3, <1>4, <1>5, <1>6, <1>7 DEF Next, Step, Terminating

LEMMA StagedInvariant == Spec => []Staged
  BY StagedInit, StagedStep, TypeInvariant, PTL DEF Spec

(* Builders alone count terms, and they have ended when indexing begins.   *)
LEMMA StableStep ==
  ASSUME Staged, TypeInv, [Next]_vars, NEW v \in Workers, indexer[v].pc # "wait"
  PROVE  gtf' = gtf
<1> USE DEF inputVars, gtfVars, indexVars, outputVars
<1>1. Terminated(builder)
  BY DEF Staged
<1>2. \A w \in Workers : ~ Builder(w)
  BY <1>1 DEF Terminated, Builder, TakeInput, AddTerm, PutCounted, BuilderEnds, BuilderDies
<1>3. CASE UNCHANGED vars
  BY <1>3 DEF vars
<1>4. CASE Main \/ ReadFails \/ FinishFails
  BY <1>4 DEF Main, Read, Put, ReadEnd, PoisonInput, StartIndexing, StartDetection,
              PoisonOutput, Finish, FinishFails, Save, ReadFails
<1>5. ASSUME NEW w \in Workers, Indexer(w) PROVE gtf' = gtf
  BY <1>5 DEF Indexer, SkipSmall, SortAndPrefix, IndexTerm, PutIndexed, IndexerEnds
<1>6. ASSUME NEW w \in Workers, Detector(w) PROVE gtf' = gtf
  BY <1>6 DEF Detector, Detect, PutClone, NextQuery, DetectorEnds
<1>7. CASE Writer \/ WriterFails
  BY <1>7 DEF Writer, WriteClone, WriterEnds, WriterFails, WriteFails, FlushFails, Save
<1>8. QED
  BY <1>2, <1>3, <1>4, <1>5, <1>6, <1>7 DEF Next, Step, Terminating

(* No term frequency changes once an indexer may sort by it.               *)
THEOREM SortsByStableGTF == Spec => SortedOnStableGTF
<1>1. Staged /\ TypeInv /\ [Next]_vars
        => [(\E w \in Workers : indexer[w].pc # "wait") => gtf' = gtf]_vars
  BY StableStep
<1>2. QED
  BY <1>1, StagedInvariant, TypeInvariant, PTL DEF Spec, SortedOnStableGTF

-----------------------------------------------------------------------------
(* A block goes through the stages one after the other and is in one place
   at a time: stage[k] is how far the k-th block has come, owner[k] the
   thread that is at work on it.                                           *)

InPlace(stage, owner) ==
  /\ stage \in [Places -> 0 .. 7]
  /\ owner \in [Places -> Workers]
  /\ \A k \in Places : k > fed \/ (k = fed /\ main = "put") => stage[k] = 0
  /\ \A k \in inputQueue : stage[k] = 1
  /\ \A w \in Workers : builder[w].pc = "work" =>
       stage[builder[w].block] = 2 /\ owner[builder[w].block] = w
  /\ \A w \in Workers : \A k \in gtfQueue[w] : stage[k] = 3
  /\ \A w \in Workers : indexer[w].pc = "work" =>
       stage[indexer[w].block] = 4 /\ owner[indexer[w].block] = w
  /\ \A k \in detectQueue : stage[k] = 5
  /\ \A w \in Workers : detector[w].pc = "work" =>
       stage[detector[w].block] = 6 /\ owner[detector[w].block] = w
  /\ \A pair \in outputQueue \cup Handed : stage[pair[1]] \in {6, 7}

OnePlace == \E stage, owner : InPlace(stage, owner)

(* A detector reports pairs of the block it works on, each of them once.   *)
PairsOnce ==
  /\ \A w \in Workers : detector[w].pc = "work" =>
       \A pair \in detector[w].todo : pair[1] = detector[w].block
  /\ \A w \in Workers : detector[w].todo \cap (Handed \cup outputQueue) = {}
  /\ Handed \cap outputQueue = {}
  /\ buffer \cap written = {}

LEMMA OnePlaceInit == Init => OnePlace /\ PairsOnce
<1> SUFFICES ASSUME Init PROVE OnePlace /\ PairsOnce
  OBVIOUS
<1>1. PICK w \in Workers : TRUE
  BY PipelineAssumption
<1> DEFINE stage == [k \in Places |-> 0]
           owner == [k \in Places |-> w]
<1>2. InPlace(stage, owner)
  <2>1. stage \in [Places -> 0 .. 7] /\ owner \in [Places -> Workers]
    OBVIOUS
  <2>2. \A k \in Places : stage[k] = 0
    OBVIOUS
  <2> HIDE DEF stage, owner
  <2>3. QED
    BY <2>1, <2>2 DEF Init, InPlace, Waiting, Taking
<1>3. PairsOnce
  BY DEF Init, PairsOnce, Waiting
<1>4. QED
  BY <1>2, <1>3 DEF OnePlace

(* What has a place is a block of the file.                                *)
LEMMA AllPlaces ==
  ASSUME TypeInv
  PROVE  /\ fed \in Nat /\ fed <= Len(file) /\ Len(file) \in Nat
         /\ inputQueue \subseteq Places /\ detectQueue \subseteq Places
         /\ \A w \in Workers : gtfQueue[w] \subseteq Places
         /\ \A w \in Workers :
              /\ builder[w].pc = "work" => builder[w].block \in Places
              /\ indexer[w].pc = "work" => indexer[w].block \in Places
              /\ detector[w].pc = "work" => detector[w].block \in Places
         /\ \A pair \in outputQueue \cup Handed : pair[1] \in Places
<1>1. Len(file) \in Nat /\ fed \in 0 .. Len(file)
  BY FileRead DEF TypeInv, TypeOK
<1>2. fed \in Nat /\ fed <= Len(file)
  BY <1>1
<1>3. \A w \in Workers :
        /\ builder[w].pc = "work" => builder[w].block \in Places
        /\ indexer[w].pc = "work" => indexer[w].block \in Places
        /\ detector[w].pc = "work" => detector[w].block \in Places
  BY DEF TypeInv, TypeOK, Tasks
<1>4. \A pair \in outputQueue \cup Handed : pair[1] \in Places
  BY DEF TypeInv, TypeOK, Pairs
<1>5. /\ inputQueue \subseteq Places /\ detectQueue \subseteq Places
      /\ \A w \in Workers : gtfQueue[w] \subseteq Places
  BY DEF TypeInv, TypeOK
<1>6. QED
  BY <1>1, <1>2, <1>3, <1>4, <1>5

(* f with the value v at k.                                                *)
Moved(f, P, k, v) == [j \in P |-> IF j = k THEN v ELSE f[j]]

(* When one block moves, all that is said of the stages it was not at stays *)
(* true.                                                                   *)
LEMMA OthersStay ==
  ASSUME TypeInv, NEW stage, NEW owner, InPlace(stage, owner), NEW k \in Places,
         NEW next, NEW hands,
         \A j \in Places : j # k => next[j] = stage[j] /\ hands[j] = owner[j]
  PROVE  /\ stage[k] # 0 =>
              \A j \in Places : j > fed \/ (j = fed /\ main = "put") => next[j] = 0
         /\ stage[k] # 1 => \A j \in inputQueue : next[j] = 1
         /\ stage[k] # 2 => \A w \in Workers : builder[w].pc = "work" =>
              next[builder[w].block] = 2 /\ hands[builder[w].block] = w
         /\ stage[k] # 3 => \A w \in Workers : \A j \in gtfQueue[w] : next[j] = 3
         /\ stage[k] # 4 => \A w \in Workers : indexer[w].pc = "work" =>
              next[indexer[w].block] = 4 /\ hands[indexer[w].block] = w
         /\ stage[k] # 5 => \A j \in detectQueue : next[j] = 5
         /\ stage[k] # 6 => \A w \in Workers : detector[w].pc = "work" =>
              next[detector[w].block] = 6 /\ hands[detector[w].block] = w
         /\ stage[k] \notin {6, 7} =>
              \A pair \in outputQueue \cup Handed : next[pair[1]] \in {6, 7}
<1>1. stage[k] # 0 =>
        \A j \in Places : j > fed \/ (j = fed /\ main = "put") => next[j] = 0
  BY DEF InPlace
<1>2. /\ stage[k] # 1 => \A j \in inputQueue : next[j] = 1
      /\ stage[k] # 5 => \A j \in detectQueue : next[j] = 5
  BY AllPlaces DEF InPlace
<1>3. stage[k] # 2 => \A w \in Workers : builder[w].pc = "work" =>
        next[builder[w].block] = 2 /\ hands[builder[w].block] = w
  BY AllPlaces DEF InPlace
<1>4. stage[k] # 3 => \A w \in Workers : \A j \in gtfQueue[w] : next[j] = 3
  BY AllPlaces DEF InPlace
<1>5. stage[k] # 4 => \A w \in Workers : indexer[w].pc = "work" =>
        next[indexer[w].block] = 4 /\ hands[indexer[w].block] = w
  BY AllPlaces DEF InPlace
<1>6. stage[k] # 6 => \A w \in Workers : detector[w].pc = "work" =>
        next[detector[w].block] = 6 /\ hands[detector[w].block] = w
  BY AllPlaces DEF InPlace
<1>7. stage[k] \notin {6, 7} =>
        \A pair \in outputQueue \cup Handed : next[pair[1]] \in {6, 7}
  <2>1. \A pair \in outputQueue \cup Handed :
          pair[1] \in Places /\ stage[pair[1]] \in {6, 7}
    BY AllPlaces DEF InPlace
  <2>2. QED
    BY <2>1
<1>8. QED
  BY <1>1, <1>2, <1>3, <1>4, <1>5, <1>6, <1>7

LEMMA OnePlaceMain ==
  ASSUME TypeInv, OnePlace, PairsOnce, Main \/ ReadFails \/ FinishFails
  PROVE  OnePlace' /\ PairsOnce'
<1> USE DEF inputVars, gtfVars, indexVars, outputVars
<1>1. PICK stage, owner : InPlace(stage, owner)
  BY DEF OnePlace
<1>2. CASE Read
  <2>1. /\ fed' = fed + 1 /\ Places' = Places
        /\ UNCHANGED <<file, inputQueue, inputPoison, gtfVars, gtfQueue, indexVars,
                       detectQueue, detector, outputQueue, outputVars, lost>>
    BY <1>2 DEF Read, Places
  <2>2. \A k \in Places : k > fed + 1 \/ k = fed + 1 => stage[k] = 0
    BY <1>1, AllPlaces DEF InPlace, Places
  <2>3. InPlace(stage, owner)'
    BY <1>1, <2>1, <2>2 DEF InPlace
  <2>4. QED
    BY <2>1, <2>3 DEF PairsOnce, OnePlace
<1>3. CASE Put
  <2>1. /\ inputQueue' = inputQueue \cup {fed} /\ main' = "read" /\ Places' = Places
        /\ UNCHANGED <<file, fed, inputPoison, gtfVars, gtfQueue, indexVars, detectQueue,
                       detector, outputQueue, outputVars, lost>>
    BY <1>3 DEF Put, Places
  <2>2. fed \in Places /\ stage[fed] = 0
    BY <1>1, <1>3, AllPlaces DEF Put, InPlace, Places, TypeInv, Progress
  <2>3. PICK next : next = Moved(stage, Places, fed, 1)
    OBVIOUS
  <2>4. /\ next \in [Places -> 0 .. 7] /\ next[fed] = 1
        /\ \A j \in Places : j # fed => next[j] = stage[j]
    BY <1>1, <2>2, <2>3 DEF InPlace, Moved
  <2>5. \A j \in Places : j > fed => next[j] = 0
    BY <1>1, <2>4, AllPlaces DEF InPlace, Places
  <2>6. /\ \A v \in Workers : builder[v].pc = "work" =>
             next[builder[v].block] = 2 /\ owner[builder[v].block] = v
        /\ \A v \in Workers : \A j \in gtfQueue[v] : next[j] = 3
        /\ \A v \in Workers : indexer[v].pc = "work" =>
             next[indexer[v].block] = 4 /\ owner[indexer[v].block] = v
        /\ \A j \in detectQueue : next[j] = 5
        /\ \A v \in Workers : detector[v].pc = "work" =>
             next[detector[v].block] = 6 /\ owner[detector[v].block] = v
        /\ \A pair \in outputQueue \cup Handed : next[pair[1]] \in {6, 7}
    <3>1. \A j \in Places : j # fed => next[j] = stage[j] /\ owner[j] = owner[j]
      BY <2>4
    <3>2. QED
      BY <1>1, <2>2, <3>1, OthersStay
  <2>7. \A j \in inputQueue' : next[j] = 1
    BY <1>1, <2>1, <2>4, AllPlaces DEF InPlace
  <2>8. owner \in [Places -> Workers]
    BY <1>1 DEF InPlace
  <2>9. InPlace(next, owner)'
    BY <2>1, <2>4, <2>5, <2>6, <2>7, <2>8 DEF InPlace
  <2>10. QED
    BY <2>1, <2>9 DEF PairsOnce, OnePlace
<1>4. CASE StartIndexing
  <2>1. InPlace(stage, owner)'
    BY <1>1, <1>4 DEF StartIndexing, InPlace, Places, Taking
  <2>2. QED
    BY <1>4, <2>1 DEF StartIndexing, PairsOnce, OnePlace
<1>5. CASE StartDetection
  <2>1. InPlace(stage, owner)'
    BY <1>1, <1>5 DEF StartDetection, InPlace, Places, Taking
  <2>2. PairsOnce'
    BY <1>5 DEF StartDetection, PairsOnce, Taking
  <2>3. QED
    BY <2>1, <2>2 DEF OnePlace
<1>6. CASE ReadEnd \/ PoisonInput \/ PoisonOutput \/ Finish \/ FinishFails \/ ReadFails
  <2>1. /\ UNCHANGED <<file, fed, inputQueue, gtfVars, gtfQueue, indexVars, detectQueue,
                       detector, outputQueue, Handed>>
        /\ main' # "put"
        /\ buffer \cap written = {} => buffer' \cap written' = {}
    BY <1>6 DEF ReadEnd, PoisonInput, PoisonOne, PoisonOutput, Finish, FinishFails, Save, ReadFails
  <2>2. InPlace(stage, owner)'
    BY <1>1, <2>1 DEF InPlace, Places
  <2>3. QED
    BY <2>1, <2>2 DEF PairsOnce, OnePlace
<1>7. QED
  BY <1>2, <1>3, <1>4, <1>5, <1>6 DEF Main

LEMMA OnePlaceBuilder ==
  ASSUME TypeInv, OnePlace, PairsOnce, NEW w \in Workers, Builder(w)
  PROVE  OnePlace' /\ PairsOnce'
<1> USE DEF inputVars, gtfVars, indexVars, outputVars
<1>1. PICK stage, owner : InPlace(stage, owner)
  BY DEF OnePlace
<1>2. PairsOnce' /\ UNCHANGED <<file, main, fed, indexer, detectQueue, detector, outputQueue, Handed>>
  BY DEF Builder, TakeInput, AddTerm, PutCounted, BuilderEnds, BuilderDies, PairsOnce
<1>3. Places' = Places /\ builder \in [Workers -> Tasks \cup
                            [pc : {"work"}, block : Places, todo : SUBSET Terms]]
  BY <1>2 DEF Places, TypeInv, TypeOK
<1>4. CASE TakeInput(w)
  <2>1. PICK k \in inputQueue :
          /\ inputQueue' = inputQueue \ {k}
          /\ builder' = [builder EXCEPT ![w] = At(k, TermsOf(file[k]))]
    BY <1>4 DEF TakeInput
  <2>2. k \in Places /\ stage[k] = 1 /\ gtfQueue' = gtfQueue
    BY <1>1, <1>4, AllPlaces DEF InPlace, TakeInput
  <2>3. PICK next, hands : /\ next = Moved(stage, Places, k, 2)
                           /\ hands = Moved(owner, Places, k, w)
    OBVIOUS
  <2>4. /\ next \in [Places -> 0 .. 7] /\ next[k] = 2
        /\ \A j \in Places : j # k => next[j] = stage[j]
    BY <1>1, <2>2, <2>3 DEF InPlace, Moved
  <2>5. /\ hands \in [Places -> Workers] /\ hands[k] = w
        /\ \A j \in Places : j # k => hands[j] = owner[j]
    BY <1>1, <2>2, <2>3 DEF InPlace, Moved
  <2>6. /\ builder'[w].pc = "work" /\ builder'[w].block = k
        /\ \A v \in Workers \ {w} : builder'[v] = builder[v]
    BY <1>3, <2>1 DEF At
  <2>7. \A v \in Workers : builder'[v].pc = "work" =>
          next[builder'[v].block] = 2 /\ hands[builder'[v].block] = v
    BY <1>1, <2>2, <2>4, <2>5, <2>6, AllPlaces DEF InPlace
  <2>8. /\ \A j \in Places : j > fed \/ (j = fed /\ main = "put") => next[j] = 0
        /\ \A v \in Workers : \A j \in gtfQueue[v] : next[j] = 3
        /\ \A v \in Workers : indexer[v].pc = "work" =>
             next[indexer[v].block] = 4 /\ hands[indexer[v].block] = v
        /\ \A j \in detectQueue : next[j] = 5
        /\ \A v \in Workers : detector[v].pc = "work" =>
             next[detector[v].block] = 6 /\ hands[detector[v].block] = v
        /\ \A pair \in outputQueue \cup Handed : next[pair[1]] \in {6, 7}
    BY <1>1, <2>2, <2>4, <2>5, OthersStay
  <2>9. \A j \in inputQueue' : next[j] = 1
    BY <1>1, <2>1, <2>4, AllPlaces DEF InPlace
  <2>10. InPlace(next, hands)'
    BY <1>2, <1>3, <2>2, <2>4, <2>5, <2>7, <2>8, <2>9 DEF InPlace
  <2>11. QED
    BY <1>2, <2>10 DEF OnePlace
<1>5. CASE AddTerm(w)
  <2>1. /\ UNCHANGED <<inputQueue, gtfQueue>>
        /\ \A v \in Workers : builder'[v].pc = builder[v].pc /\ builder'[v].block = builder[v].block
    BY <1>3, <1>5 DEF AddTerm, Tasks
  <2>2. InPlace(stage, owner)'
    BY <1>1, <1>2, <1>3, <2>1 DEF InPlace
  <2>3. QED
    BY <1>2, <2>2 DEF OnePlace
<1>6. CASE PutCounted(w)
  <2> DEFINE k == builder[w].block
  <2>1. /\ inputQueue' = inputQueue
        /\ \A v \in Workers \ {w} : gtfQueue'[v] = gtfQueue[v] /\ builder'[v] = builder[v]
        /\ gtfQueue'[w] = gtfQueue[w] \cup {k} /\ builder'[w].pc = "take"
    BY <1>3, <1>6 DEF PutCounted, TypeInv, TypeOK, Taking
  <2>2. k \in Places /\ stage[k] = 2 /\ owner[k] = w
    BY <1>1, <1>6, AllPlaces DEF PutCounted, InPlace
  <2>3. PICK next : next = Moved(stage, Places, k, 3)
    OBVIOUS
  <2>4. /\ next \in [Places -> 0 .. 7] /\ next[k] = 3
        /\ \A j \in Places : j # k => next[j] = stage[j]
    BY <1>1, <2>2, <2>3 DEF InPlace, Moved
  <2>5. \A v \in Workers : builder'[v].pc = "work" =>
          next[builder'[v].block] = 2 /\ owner[builder'[v].block] = v
    BY <1>1, <2>1, <2>2, <2>4, AllPlaces DEF InPlace
  <2>6. \A v \in Workers : \A j \in gtfQueue'[v] : next[j] = 3
    BY <1>1, <2>1, <2>2, <2>4, AllPlaces DEF InPlace
  <2> HIDE DEF k
  <2>7. /\ \A j \in Places : j > fed \/ (j = fed /\ main = "put") => next[j] = 0
        /\ \A j \in inputQueue : next[j] = 1
        /\ \A v \in Workers : indexer[v].pc = "work" =>
             next[indexer[v].block] = 4 /\ owner[indexer[v].block] = v
        /\ \A j \in detectQueue : next[j] = 5
        /\ \A v \in Workers : detector[v].pc = "work" =>
             next[detector[v].block] = 6 /\ owner[detector[v].block] = v
        /\ \A pair \in outputQueue \cup Handed : next[pair[1]] \in {6, 7}
    <3>1. \A j \in Places : j # k => next[j] = stage[j] /\ owner[j] = owner[j]
      BY <2>4
    <3>2. QED
      BY <1>1, <2>2, <3>1, OthersStay
  <2>8. owner \in [Places -> Workers]
    BY <1>1 DEF InPlace
  <2>9. InPlace(next, owner)'
    BY <1>2, <1>3, <2>1, <2>4, <2>5, <2>6, <2>7, <2>8 DEF InPlace
  <2>10. QED
    BY <1>2, <2>9 DEF OnePlace
<1>7. CASE BuilderEnds(w) \/ BuilderDies(w)
  <2>1. /\ inputQueue' \subseteq inputQueue
        /\ \A v \in Workers : gtfQueue'[v] \subseteq gtfQueue[v]
        /\ \A v \in Workers : builder'[v].pc = "work" => builder'[v] = builder[v]
    <3>1. CASE BuilderEnds(w)
      BY <1>3, <3>1 DEF BuilderEnds, Ended
    <3>2. CASE BuilderDies(w)
      <4>1. PICK k \in inputQueue, heldBack \in SUBSET inputQueue, buffered \in SUBSET gtfQueue[w] :
              /\ inputQueue' = inputQueue \ ({k} \cup heldBack)
              /\ gtfQueue' = [gtfQueue EXCEPT ![w] = @ \ buffered]
        BY <3>2 DEF BuilderDies
      <4>2. \A v \in Workers : gtfQueue'[v] \subseteq gtfQueue[v]
        BY <4>1 DEF TypeInv, TypeOK
      <4>3. \A v \in Workers : builder'[v].pc = "work" => builder'[v] = builder[v]
        BY <1>3, <3>2 DEF BuilderDies, Dead
      <4>4. QED
        BY <4>1, <4>2, <4>3
    <3>3. QED
      BY <1>7, <3>1, <3>2
  <2>2. InPlace(stage, owner)'
    BY <1>1, <1>2, <1>3, <2>1 DEF InPlace
  <2>3. QED
    BY <1>2, <2>2 DEF OnePlace
<1>8. QED
  BY <1>4, <1>5, <1>6, <1>7 DEF Builder

LEMMA OnePlaceIndexer ==
  ASSUME TypeInv, OnePlace, PairsOnce, NEW w \in Workers, Indexer(w)
  PROVE  OnePlace' /\ PairsOnce'
<1> USE DEF inputVars, gtfVars, indexVars, outputVars
<1>1. PICK stage, owner : InPlace(stage, owner)
  BY DEF OnePlace
<1>2. /\ PairsOnce'
      /\ UNCHANGED <<file, main, fed, inputQueue, builder, detector, outputQueue, Handed>>
  BY DEF Indexer, SkipSmall, SortAndPrefix, IndexTerm, PutIndexed, IndexerEnds, PairsOnce
<1>3. Places' = Places /\ indexer \in [Workers -> Tasks \cup
                            [pc : {"work"}, block : Places, todo : SUBSET Terms]]
  BY <1>2 DEF Places, TypeInv, TypeOK
<1>4. CASE SkipSmall(w)
  <2>1. /\ \A v \in Workers : gtfQueue'[v] \subseteq gtfQueue[v]
        /\ UNCHANGED <<indexer, detectQueue>>
    BY <1>4 DEF SkipSmall, Removed
  <2>2. InPlace(stage, owner)'
    BY <1>1, <1>2, <1>3, <2>1 DEF InPlace
  <2>3. QED
    BY <1>2, <2>2 DEF OnePlace
<1>5. CASE SortAndPrefix(w)
  <2>1. PICK k \in ToIndex : /\ gtfQueue' = Removed(k)
                             /\ indexer' = [indexer EXCEPT ![w] = At(k, prefix'[k])]
    BY <1>5 DEF SortAndPrefix
  <2>2. PICK u \in Workers : k \in gtfQueue[u]
    BY <2>1 DEF ToIndex
  <2>3. k \in Places /\ stage[k] = 3 /\ detectQueue' = detectQueue
    BY <1>1, <1>5, <2>2, AllPlaces DEF InPlace, SortAndPrefix
  <2>4. PICK next, hands : /\ next = Moved(stage, Places, k, 4)
                           /\ hands = Moved(owner, Places, k, w)
    OBVIOUS
  <2>5. /\ next \in [Places -> 0 .. 7] /\ next[k] = 4
        /\ \A j \in Places : j # k => next[j] = stage[j]
    BY <1>1, <2>3, <2>4 DEF InPlace, Moved
  <2>6. /\ hands \in [Places -> Workers] /\ hands[k] = w
        /\ \A j \in Places : j # k => hands[j] = owner[j]
    BY <1>1, <2>3, <2>4 DEF InPlace, Moved
  <2>7. /\ indexer'[w].pc = "work" /\ indexer'[w].block = k
        /\ \A v \in Workers \ {w} : indexer'[v] = indexer[v]
    BY <1>3, <2>1 DEF At
  <2>8. \A v \in Workers : indexer'[v].pc = "work" =>
          next[indexer'[v].block] = 4 /\ hands[indexer'[v].block] = v
    BY <1>1, <2>3, <2>5, <2>6, <2>7, AllPlaces DEF InPlace
  <2>9. \A v \in Workers : \A j \in gtfQueue'[v] : next[j] = 3
    <3>1. \A v \in Workers : gtfQueue'[v] = gtfQueue[v] \ {k}
      BY <2>1 DEF Removed
    <3>2. QED
      BY <1>1, <2>5, <3>1, AllPlaces DEF InPlace
  <2>10. /\ \A j \in Places : j > fed \/ (j = fed /\ main = "put") => next[j] = 0
         /\ \A j \in inputQueue : next[j] = 1
         /\ \A v \in Workers : builder[v].pc = "work" =>
              next[builder[v].block] = 2 /\ hands[builder[v].block] = v
         /\ \A j \in detectQueue : next[j] = 5
         /\ \A v \in Workers : detector[v].pc = "work" =>
              next[detector[v].block] = 6 /\ hands[detector[v].block] = v
         /\ \A pair \in outputQueue \cup Handed : next[pair[1]] \in {6, 7}
    BY <1>1, <2>3, <2>5, <2>6, OthersStay
  <2>11. InPlace(next, hands)'
    BY <1>2, <1>3, <2>3, <2>5, <2>6, <2>8, <2>9, <2>10 DEF InPlace
  <2>12. QED
    BY <1>2, <2>11 DEF OnePlace
<1>6. CASE IndexTerm(w)
  <2>1. /\ UNCHANGED <<gtfQueue, detectQueue>>
        /\ \A v \in Workers : indexer'[v].pc = indexer[v].pc /\ indexer'[v].block = indexer[v].block
    BY <1>3, <1>6 DEF IndexTerm, Tasks
  <2>2. InPlace(stage, owner)'
    BY <1>1, <1>2, <1>3, <2>1 DEF InPlace
  <2>3. QED
    BY <1>2, <2>2 DEF OnePlace
<1>7. CASE PutIndexed(w)
  <2> DEFINE k == indexer[w].block
  <2>1. /\ gtfQueue' = gtfQueue /\ detectQueue' = detectQueue \cup {k}
        /\ \A v \in Workers \ {w} : indexer'[v] = indexer[v]
        /\ indexer'[w].pc = "take"
    BY <1>3, <1>7 DEF PutIndexed, Taking
  <2>2. k \in Places /\ stage[k] = 4 /\ owner[k] = w
    BY <1>1, <1>7, AllPlaces DEF PutIndexed, InPlace
  <2>3. PICK next : next = Moved(stage, Places, k, 5)
    OBVIOUS
  <2>4. /\ next \in [Places -> 0 .. 7] /\ next[k] = 5
        /\ \A j \in Places : j # k => next[j] = stage[j]
    BY <1>1, <2>2, <2>3 DEF InPlace, Moved
  <2>5. \A v \in Workers : indexer'[v].pc = "work" =>
          next[indexer'[v].block] = 4 /\ owner[indexer'[v].block] = v
    BY <1>1, <2>1, <2>2, <2>4, AllPlaces DEF InPlace
  <2> HIDE DEF k
  <2>6. /\ \A j \in Places : j > fed \/ (j = fed /\ main = "put") => next[j] = 0
        /\ \A j \in inputQueue : next[j] = 1
        /\ \A v \in Workers : builder[v].pc = "work" =>
             next[builder[v].block] = 2 /\ owner[builder[v].block] = v
        /\ \A v \in Workers : \A j \in gtfQueue[v] : next[j] = 3
        /\ \A j \in detectQueue : next[j] = 5
        /\ \A v \in Workers : detector[v].pc = "work" =>
             next[detector[v].block] = 6 /\ owner[detector[v].block] = v
        /\ \A pair \in outputQueue \cup Handed : next[pair[1]] \in {6, 7}
    <3>1. \A j \in Places : j # k => next[j] = stage[j] /\ owner[j] = owner[j]
      BY <2>4
    <3>2. QED
      BY <1>1, <2>2, <3>1, OthersStay
  <2>7. \A j \in detectQueue' : next[j] = 5
    BY <2>1, <2>4, <2>6
  <2>8. owner \in [Places -> Workers]
    BY <1>1 DEF InPlace
  <2>9. InPlace(next, owner)'
    BY <1>2, <1>3, <2>1, <2>4, <2>5, <2>6, <2>7, <2>8 DEF InPlace
  <2>10. QED
    BY <1>2, <2>9 DEF OnePlace
<1>8. CASE IndexerEnds(w)
  <2>1. /\ UNCHANGED <<gtfQueue, detectQueue>>
        /\ \A v \in Workers : indexer'[v].pc = "work" => indexer'[v] = indexer[v]
    BY <1>3, <1>8 DEF IndexerEnds, Ended
  <2>2. InPlace(stage, owner)'
    BY <1>1, <1>2, <1>3, <2>1 DEF InPlace
  <2>3. QED
    BY <1>2, <2>2 DEF OnePlace
<1>9. QED
  BY <1>4, <1>5, <1>6, <1>7, <1>8 DEF Indexer

LEMMA OnePlaceDetector ==
  ASSUME TypeInv, OnePlace, PairsOnce, NEW w \in Workers, Detector(w)
  PROVE  OnePlace' /\ PairsOnce'
<1> USE DEF inputVars, gtfVars, indexVars, outputVars
<1>1. PICK stage, owner : InPlace(stage, owner)
  BY DEF OnePlace
<1>2. UNCHANGED <<file, main, fed, inputQueue, builder, gtfQueue, indexer, buffer, written>>
  BY DEF Detector, Detect, PutClone, NextQuery, DetectorEnds
<1>3. Places' = Places /\ detector \in [Workers -> Tasks \cup
                            [pc : {"work"}, block : Places, todo : SUBSET Pairs]]
  BY <1>2 DEF Places, TypeInv, TypeOK
<1>4. CASE Detect(w)
  <2>1. PICK k \in detectQueue :
          /\ detectQueue' = detectQueue \ {k}
          /\ detector' = [detector EXCEPT ![w] = At(k, DetectClones(k, prefix[k]))]
    BY <1>4 DEF Detect
  <2>2. k \in Places /\ stage[k] = 5 /\ outputQueue' = outputQueue
    BY <1>1, <1>4, AllPlaces DEF InPlace, Detect
  <2>3. PICK next, hands : /\ next = Moved(stage, Places, k, 6)
                           /\ hands = Moved(owner, Places, k, w)
    OBVIOUS
  <2>4. /\ next \in [Places -> 0 .. 7] /\ next[k] = 6
        /\ \A j \in Places : j # k => next[j] = stage[j]
    BY <1>1, <2>2, <2>3 DEF InPlace, Moved
  <2>5. /\ hands \in [Places -> Workers] /\ hands[k] = w
        /\ \A j \in Places : j # k => hands[j] = owner[j]
    BY <1>1, <2>2, <2>3 DEF InPlace, Moved
  <2>6. /\ detector'[w].pc = "work" /\ detector'[w].block = k
        /\ detector'[w].todo = DetectClones(k, prefix[k])
        /\ \A v \in Workers \ {w} : detector'[v] = detector[v]
    BY <1>3, <2>1 DEF At
  <2>7. \A v \in Workers : detector'[v].pc = "work" =>
          next[detector'[v].block] = 6 /\ hands[detector'[v].block] = v
    BY <1>1, <2>2, <2>4, <2>5, <2>6, AllPlaces DEF InPlace
  <2>8. /\ \A j \in Places : j > fed \/ (j = fed /\ main = "put") => next[j] = 0
        /\ \A j \in inputQueue : next[j] = 1
        /\ \A v \in Workers : builder[v].pc = "work" =>
             next[builder[v].block] = 2 /\ hands[builder[v].block] = v
        /\ \A v \in Workers : \A j \in gtfQueue[v] : next[j] = 3
        /\ \A v \in Workers : indexer[v].pc = "work" =>
             next[indexer[v].block] = 4 /\ hands[indexer[v].block] = v
        /\ \A pair \in outputQueue \cup Handed : next[pair[1]] \in {6, 7}
    BY <1>1, <2>2, <2>4, <2>5, OthersStay
  <2>9. \A j \in detectQueue' : next[j] = 5
    BY <1>1, <2>1, <2>4, AllPlaces DEF InPlace
  <2>10. InPlace(next, hands)'
    BY <1>2, <1>3, <2>2, <2>4, <2>5, <2>7, <2>8, <2>9 DEF InPlace
  <2>11. \A pair \in DetectClones(k, prefix[k]) : pair[1] = k
    BY <2>2, DetectsPairs
  <2>12. \A pair \in outputQueue \cup Handed : pair[1] # k
    BY <1>1, <2>2 DEF InPlace
  <2>13. PairsOnce'
    BY <1>2, <2>2, <2>6, <2>11, <2>12 DEF PairsOnce
  <2>14. QED
    BY <2>10, <2>13 DEF OnePlace
<1>5. CASE PutClone(w)
  <2>1. PICK pair \in detector[w].todo :
          /\ outputQueue' = outputQueue \cup {pair}
          /\ detector' = [detector EXCEPT ![w].todo = @ \ {pair}]
    BY <1>5 DEF PutClone
  <2>2. detector[w].pc = "work" /\ detectQueue' = detectQueue
    BY <1>5 DEF PutClone
  <2>3. /\ \A v \in Workers : /\ detector'[v].pc = detector[v].pc
                               /\ detector'[v].block = detector[v].block
                               /\ detector'[v].todo \subseteq detector[v].todo
        /\ detector'[w].todo = detector[w].todo \ {pair}
    BY <1>3, <2>1 DEF Tasks
  <2>4. stage[pair[1]] = 6 /\ owner[pair[1]] = w
    BY <1>1, <2>1, <2>2 DEF InPlace, PairsOnce
  <2>5. InPlace(stage, owner)'
    BY <1>1, <1>2, <1>3, <2>1, <2>2, <2>3, <2>4 DEF InPlace
  <2>6. \A v \in Workers \ {w} : pair \notin detector[v].todo
    <3>1. \A v \in Workers : detector[v].todo # {} => detector[v].pc = "work"
      BY <1>3 DEF Tasks
    <3>2. QED
      BY <1>1, <2>4, <3>1 DEF InPlace, PairsOnce
  <2>7. pair \notin Handed
    BY <2>1 DEF PairsOnce
  <2>8. PairsOnce'
    BY <1>2, <2>1, <2>2, <2>3, <2>6, <2>7 DEF PairsOnce
  <2>9. QED
    BY <2>5, <2>8 DEF OnePlace
<1>6. CASE NextQuery(w)
  <2> DEFINE k == detector[w].block
  <2>1. /\ UNCHANGED <<detectQueue, outputQueue>>
        /\ \A v \in Workers \ {w} : detector'[v] = detector[v]
        /\ detector'[w].pc = "take" /\ detector'[w].todo = {}
    BY <1>3, <1>6 DEF NextQuery, Taking
  <2>2. InPlace(stage, owner)'
    BY <1>1, <1>2, <1>3, <2>1 DEF InPlace
  <2>3. PairsOnce'
    BY <1>2, <2>1 DEF PairsOnce
  <2>4. QED
    BY <2>2, <2>3 DEF OnePlace
<1>7. CASE DetectorEnds(w)
  <2>1. /\ UNCHANGED <<detectQueue, outputQueue>>
        /\ \A v \in Workers \ {w} : detector'[v] = detector[v]
        /\ detector'[w].pc = "ended" /\ detector'[w].todo = {}
    BY <1>3, <1>7 DEF DetectorEnds, Ended
  <2>2. InPlace(stage, owner)'
    BY <1>1, <1>2, <1>3, <2>1 DEF InPlace
  <2>3. PairsOnce'
    BY <1>2, <2>1 DEF PairsOnce
  <2>4. QED
    BY <2>2, <2>3 DEF OnePlace
<1>8. QED
  BY <1>4, <1>5, <1>6, <1>7 DEF Detector

LEMMA OnePlaceWriter ==
  ASSUME TypeInv, OnePlace, PairsOnce, Writer \/ WriterFails
  PROVE  OnePlace' /\ PairsOnce'
<1> USE DEF inputVars, gtfVars, indexVars, outputVars
<1>1. PICK stage, owner : InPlace(stage, owner)
  BY DEF OnePlace
<1>2. /\ UNCHANGED <<file, main, fed, inputQueue, builder, gtfQueue, indexer,
                     detectQueue, detector>>
      /\ Places' = Places
  BY DEF Writer, WriteClone, WriterEnds, WriterFails, WriteFails, FlushFails, Save, Places
<1>3. /\ outputQueue' \cup Handed' \subseteq outputQueue \cup Handed
      /\ PairsOnce => outputQueue' \cap Handed' = {} /\ buffer' \cap written' = {}
  BY DEF Writer, WriteClone, WriterEnds, WriterFails, WriteFails, FlushFails, Save, PairsOnce
<1>4. InPlace(stage, owner)'
  BY <1>1, <1>2, <1>3 DEF InPlace
<1>5. PairsOnce'
  BY <1>2, <1>3 DEF PairsOnce
<1>6. QED
  BY <1>4, <1>5 DEF OnePlace

LEMMA OnePlaceStep ==
  TypeInv /\ OnePlace /\ PairsOnce /\ [Next]_vars => OnePlace' /\ PairsOnce'
<1> SUFFICES ASSUME TypeInv, OnePlace, PairsOnce, [Next]_vars
             PROVE  OnePlace' /\ PairsOnce'
  OBVIOUS
<1>1. CASE UNCHANGED vars
  <2>1. PICK stage, owner : InPlace(stage, owner)
    BY DEF OnePlace
  <2>2. InPlace(stage, owner)' /\ PairsOnce'
    BY <1>1, <2>1 DEF vars, inputVars, InPlace, Places, PairsOnce
  <2>3. QED
    BY <2>2 DEF OnePlace
<1>2. CASE Step
  BY <1>2, OnePlaceMain, OnePlaceBuilder, OnePlaceIndexer, OnePlaceDetector,
     OnePlaceWriter DEF Step
<1>3. QED
  BY <1>1, <1>2 DEF Next, Terminating

LEMMA OnceEach == TypeInv /\ OnePlace /\ PairsOnce => ReportedOnce
<1> SUFFICES ASSUME TypeInv, OnePlace, PairsOnce PROVE ReportedOnce
  OBVIOUS
<1>1. PICK stage, owner : InPlace(stage, owner)
  BY DEF OnePlace
<1>2. \A w \in Workers : detector[w].todo # {} => detector[w].pc = "work"
  BY DEF TypeInv, TypeOK, Tasks
<1>3. \A w \in Workers : \A pair \in detector[w].todo : owner[pair[1]] = w
  BY <1>1, <1>2 DEF InPlace, PairsOnce
<1>4. QED
  BY <1>3 DEF ReportedOnce, PairsOnce

(* A clone is with one detector, in the output queue or in the file: no
   pair is reported by two detectors or written twice.                     *)
THEOREM ReportsOnce == Spec => []ReportedOnce
  BY OnePlaceInit, OnePlaceStep, OnceEach, TypeInvariant, PTL DEF Spec

-----------------------------------------------------------------------------
(* What the pipeline needs of Blocks.  Its order of the terms changes with
   the GTF, but is an order at any time.                                   *)

Facts == INSTANCE Blocks_proofs WITH Rank <- SortRank

(* A number has one last digit in base n.                                  *)
LEMMA DigitsUnique ==
  ASSUME NEW n \in Nat, NEW g \in Nat, NEW h \in Nat,
         NEW r \in 0 .. (n - 1), NEW s \in 0 .. (n - 1), g * n + r = h * n + s
  PROVE  r = s
<1>1. r \in Nat /\ s \in Nat /\ r < n /\ s < n
  OBVIOUS
<1>2. CASE g = h
  BY <1>1, <1>2
<1>3. CASE g < h
  <2>1. PICK d \in Nat : h = g + 1 + d
    <3>1. h - g - 1 \in Nat /\ h = g + 1 + (h - g - 1)
      BY <1>3
    <3>2. QED
      BY <3>1
  <2>2. h * n = g * n + n + d * n
    BY <2>1
  <2>3. g * n \in Nat /\ d * n \in Nat
    OBVIOUS
  <2>4. QED
    BY <1>1, <2>2, <2>3
<1>4. CASE h < g
  <2>1. PICK d \in Nat : g = h + 1 + d
    <3>1. g - h - 1 \in Nat /\ g = h + 1 + (g - h - 1)
      BY <1>4
    <3>2. QED
      BY <3>1
  <2>2. g * n = h * n + n + d * n
    BY <2>1
  <2>3. h * n \in Nat /\ d * n \in Nat
    OBVIOUS
  <2>4. QED
    BY <1>1, <2>2, <2>3
<1>5. QED
  BY <1>2, <1>3, <1>4

LEMMA SortRankOrders == TypeInv => Facts!TermsAssumption
<1> SUFFICES ASSUME TypeInv PROVE Facts!TermsAssumption
  OBVIOUS
<1> DEFINE n == Cardinality(Terms)
<1>1. n \in Nat /\ IsFiniteSet(Terms) /\ MaxTokens \in Nat
  BY BlocksAssumption, FS_CardinalityType
<1>2. \A t \in Terms : gtf[t] \in Nat /\ TermOrder[t] \in 0 .. (n - 1)
  BY BlocksAssumption DEF TypeInv, TypeOK
<1>3. \A t \in Terms : SortRank[t] = gtf[t] * n + TermOrder[t]
  BY DEF SortRank
<1>4. SortRank \in [Terms -> Nat]
  <2>1. \A t \in Terms : gtf[t] * n + TermOrder[t] \in Nat
    <3> HIDE DEF n
    <3>1. TAKE t \in Terms
    <3>2. gtf[t] * n \in Nat /\ TermOrder[t] \in Nat
      BY <1>1, <1>2
    <3>3. QED
      BY <3>2
  <2>2. QED
    BY <2>1 DEF SortRank
<1>5. ASSUME NEW t \in Terms, NEW u \in Terms, SortRank[t] = SortRank[u]
      PROVE  t = u
  <2>1. TermOrder[t] = TermOrder[u]
    <3> HIDE DEF n
    <3>1. PICK g, h \in Nat, r, s \in 0 .. (n - 1) :
            g = gtf[t] /\ h = gtf[u] /\ r = TermOrder[t] /\ s = TermOrder[u]
      BY <1>2
    <3>2. g * n + r = h * n + s
      BY <1>3, <1>5, <3>1
    <3>3. r = s
      BY <1>1, <3>2, DigitsUnique
    <3>4. QED
      BY <3>1, <3>3
  <2>2. QED
    BY <2>1, BlocksAssumption
<1>6. QED
  BY <1>1, <1>4, <1>5 DEF Facts!TermsAssumption, Facts!IsFiniteSet, IsFiniteSet

(* What the instance says of a block is what the pipeline says of it.      *)
LEMMA SameBlocks ==
  ASSUME NEW b
  PROVE  /\ Block!IsBlock(b) => Facts!IsBlock(b)
         /\ Block!IsThreshold(threshold) => Facts!IsThreshold(threshold)
         /\ Facts!PrefixTerms(b, threshold) = Block!PrefixTerms(b, threshold)
<1>1. Facts!numTokens(b) = Block!numTokens(b)
  BY DEF Facts!numTokens, Block!numTokens, Facts!Cardinality, Block!Cardinality,
         Facts!Tokens, Block!Tokens, Facts!TokensOf, Block!TokensOf
<1>2. Block!IsBlock(b) => Facts!IsBlock(b)
  BY <1>1 DEF Facts!IsBlock, Block!IsBlock, Facts!TermsOf, Block!TermsOf
<1>3. Block!IsThreshold(threshold) => Facts!IsThreshold(threshold)
  BY DEF Facts!IsThreshold, Block!IsThreshold
<1>4. Facts!PrefixTerms(b, threshold) = Block!PrefixTerms(b, threshold)
  BY <1>1 DEF Facts!PrefixTerms, Block!PrefixTerms, Facts!PrefixLength, Block!PrefixLength,
       Facts!Before, Block!Before, Facts!TermsOf, Block!TermsOf, Facts!Cardinality,
       Block!Cardinality, Facts!TokensOf, Block!TokensOf
<1>5. QED
  BY <1>2, <1>3, <1>4

LEMMA SameSimilarity ==
  ASSUME NEW b, NEW c, Block!Similar(b, c, threshold)
  PROVE  Facts!Similar(b, c, threshold)
  BY DEF Facts!Similar, Block!Similar, Facts!numShared, Block!numShared, Facts!Shared,
         Block!Shared, Facts!Larger, Block!Larger, Facts!numTokens, Block!numTokens,
         Facts!Tokens, Block!Tokens, Facts!TokensOf, Block!TokensOf, Facts!Cardinality,
         Block!Cardinality

(* A block of the file, as readDetectionBlock returns it.                  *)
LEMMA ReadBlocks ==
  ASSUME TypeInv, NEW k \in Places, ~ Unreadable(file[k])
  PROVE  Facts!IsBlock(file[k]) /\ Facts!IsThreshold(threshold)
<1>1. Block!IsBlock(file[k]) /\ Block!IsThreshold(threshold)
  BY BlocksAssumption DEF TypeInv, Progress, Places
<1>2. QED
  BY <1>1, SameBlocks

LEMMA BlocksHavePrefix ==
  ASSUME TypeInv, NEW k \in Places, ~ Unreadable(file[k])
  PROVE  Block!PrefixTerms(file[k], threshold) # {}
<1>1. Facts!PrefixTerms(file[k], threshold) # {}
  BY ReadBlocks, SortRankOrders, Facts!PrefixIsThere DEF Facts!PrefixIsThere
<1>2. QED
  BY <1>1, SameBlocks

(* Clones have a prefix term in common.                                    *)
LEMMA ClonesMeet ==
  ASSUME TypeInv, Block!IsPositive(threshold),
         NEW k \in Places, ~ Unreadable(file[k]),
         NEW d \in Places, ~ Unreadable(file[d]),
         Block!ClonePair(file[k], file[d], threshold)
  PROVE  \E t \in Block!PrefixTerms(file[k], threshold) :
           t \in Block!PrefixTerms(file[d], threshold)
<1>1. Facts!IsBlock(file[k]) /\ Facts!IsBlock(file[d]) /\ Facts!IsThreshold(threshold)
  BY ReadBlocks
<1>2. Facts!IsPositive(threshold)
  BY DEF Facts!IsPositive, Block!IsPositive
<1>3. Facts!Similar(file[k], file[d], threshold)
  BY SameSimilarity DEF Block!ClonePair
<1>4. \E t \in Facts!PrefixTerms(file[k], threshold) :
        t \in Facts!PrefixTerms(file[d], threshold)
  BY <1>1, <1>2, <1>3, SortRankOrders, Facts!FilterIsComplete DEF Facts!FilterIsComplete
<1>5. QED
  BY <1>4, SameBlocks

-----------------------------------------------------------------------------
(* No block gets lost but with a builder that dies: one that has been put
   into the first queue is in it, or at a builder, or counted and in the
   second, or has been too small, or has its prefix.                       *)

WorksOn(threads, k) == \E w \in Workers : threads[w].pc = "work" /\ threads[w].block = k

AllFed == main \notin {"read", "put", "failed"} => fed = Len(file)

(* An unreadable block kills the builder that takes it.                    *)
Readable ==
  /\ \A w \in Workers : \A k \in gtfQueue[w] : ~ Unreadable(file[k])
  /\ \A w \in Workers : builder[w].pc = "work" => ~ Unreadable(file[builder[w].block])

Handled(k) ==
  \/ k \in inputQueue \cup lost
  \/ WorksOn(builder, k)
  \/ k \in ToIndex
  \/ ~ Approved(file[k])
  \/ prefix[k] # {}

NoneForgotten ==
  \A k \in Places : k < fed \/ (k = fed /\ main # "put") => Handled(k)

Flow == AllFed /\ Readable /\ NoneForgotten

LEMMA FlowInit == Init => Flow
<1> SUFFICES ASSUME Init PROVE Flow
  OBVIOUS
<1>1. \A k \in Places : ~ (k < fed \/ k = fed)
  BY FilesAssumption DEF Init, Places
<1>2. QED
  BY <1>1 DEF Init, Flow, AllFed, Readable, NoneForgotten, Taking

LEMMA FlowMain ==
  ASSUME TypeInv, Flow, Main \/ ReadFails \/ FinishFails
  PROVE  Flow'
<1> USE DEF inputVars, gtfVars, indexVars, outputVars
<1>1. /\ UNCHANGED <<file, builder, gtfQueue, prefix, lost>>
      /\ inputQueue \subseteq inputQueue'
      /\ Places' = Places
  BY DEF Main, Read, Put, ReadEnd, PoisonInput, StartIndexing, StartDetection,
         PoisonOutput, Finish, FinishFails, Save, ReadFails, Places
<1>2. Readable'
  BY <1>1 DEF Flow, Readable
<1>3. \A k \in Places : Handled(k) => Handled(k)'
  BY <1>1 DEF Handled, WorksOn, ToIndex
<1>4. fed \in 0 .. Len(file) /\ Len(file) \in Nat
  BY FileRead DEF TypeInv, TypeOK
<1>5. CASE Read
  <2>1. main = "read" /\ main' = "put" /\ fed' = fed + 1
    BY <1>5 DEF Read
  <2>2. \A k \in Places : k < fed + 1 => k < fed \/ k = fed
    BY <1>4 DEF Places
  <2>3. NoneForgotten'
    BY <1>1, <1>3, <2>1, <2>2 DEF Flow, NoneForgotten
  <2>4. QED
    BY <1>2, <2>1, <2>3 DEF Flow, AllFed
<1>6. CASE Put
  <2>1. main = "put" /\ main' = "read" /\ fed' = fed /\ fed \in inputQueue'
    BY <1>6 DEF Put
  <2>2. fed \in Places => Handled(fed)'
    BY <2>1 DEF Handled
  <2>3. NoneForgotten'
    BY <1>1, <1>3, <2>1, <2>2 DEF Flow, NoneForgotten
  <2>4. QED
    BY <1>2, <2>1, <2>3 DEF Flow, AllFed
<1>7. CASE ReadEnd \/ ReadFails
  <2>1. main = "read" /\ main' \in {"poison", "failed"} /\ fed' = fed
    BY <1>7 DEF ReadEnd, ReadFails
  <2>2. NoneForgotten'
    BY <1>1, <1>3, <2>1 DEF Flow, NoneForgotten
  <2>3. AllFed'
    BY <1>1, <1>7 DEF ReadEnd, ReadFails, AllFed
  <2>4. QED
    BY <1>2, <2>2, <2>3 DEF Flow
<1>8. CASE PoisonInput \/ StartIndexing \/ StartDetection \/ PoisonOutput \/ Finish
             \/ FinishFails
  <2>1. /\ main \notin {"read", "put", "failed"} /\ main' \notin {"read", "put", "failed"}
        /\ fed' = fed
    BY <1>8 DEF PoisonInput, PoisonOne, StartIndexing, StartDetection, PoisonOutput, Finish,
                FinishFails
  <2>2. NoneForgotten'
    BY <1>1, <1>3, <2>1 DEF Flow, NoneForgotten
  <2>3. QED
    BY <1>1, <1>2, <2>1, <2>2 DEF Flow, AllFed
<1>9. QED
  BY <1>5, <1>6, <1>7, <1>8 DEF Main

LEMMA FlowBuilder ==
  ASSUME TypeInv, Flow, NEW w \in Workers, Builder(w)
  PROVE  Flow'
<1> USE DEF inputVars, gtfVars, indexVars, outputVars
<1>1. UNCHANGED <<file, main, fed, prefix>> /\ Places' = Places
  BY DEF Builder, TakeInput, AddTerm, PutCounted, BuilderEnds, BuilderDies, Places
<1>2. AllFed'
  BY <1>1 DEF Flow, AllFed
<1>3. builder \in [Workers -> Tasks \cup [pc : {"work"}, block : Places, todo : SUBSET Terms]]
  BY DEF TypeInv, TypeOK
<1>4. SUFFICES Readable' /\ \A k \in Places : Handled(k) => Handled(k)'
  BY <1>1, <1>2 DEF Flow, NoneForgotten
<1>5. CASE TakeInput(w)
  <2>1. PICK k \in inputQueue :
          /\ ~ Unreadable(file[k])
          /\ inputQueue' = inputQueue \ {k}
          /\ builder' = [builder EXCEPT ![w] = At(k, TermsOf(file[k]))]
    BY <1>5 DEF TakeInput
  <2>2. UNCHANGED <<gtfQueue, lost>>
    BY <1>5 DEF TakeInput
  <2>3. /\ builder[w].pc = "take" /\ builder'[w].pc = "work" /\ builder'[w].block = k
        /\ \A v \in Workers \ {w} : builder'[v] = builder[v]
    BY <1>3, <1>5, <2>1 DEF TakeInput, At
  <2>4. Readable'
    BY <1>1, <2>1, <2>2, <2>3 DEF Flow, Readable
  <2>5. \A j : WorksOn(builder, j) => WorksOn(builder, j)'
    BY <2>3 DEF WorksOn
  <2>6. WorksOn(builder, k)'
    BY <2>3 DEF WorksOn
  <2>7. QED
    BY <1>1, <2>1, <2>2, <2>4, <2>5, <2>6 DEF Handled, ToIndex
<1>6. CASE AddTerm(w)
  <2>1. /\ UNCHANGED <<inputQueue, gtfQueue, lost>>
        /\ \A v \in Workers : builder'[v].pc = builder[v].pc /\ builder'[v].block = builder[v].block
    BY <1>3, <1>6 DEF AddTerm, Tasks
  <2>2. QED
    BY <1>1, <2>1 DEF Flow, Readable, Handled, WorksOn, ToIndex
<1>7. CASE PutCounted(w)
  <2> DEFINE k == builder[w].block
  <2>1. /\ UNCHANGED <<inputQueue, lost>> /\ builder[w].pc = "work"
        /\ \A v \in Workers \ {w} : gtfQueue'[v] = gtfQueue[v] /\ builder'[v] = builder[v]
        /\ gtfQueue'[w] = gtfQueue[w] \cup {k} /\ builder'[w].pc = "take"
    BY <1>3, <1>7 DEF PutCounted, TypeInv, TypeOK, Taking
  <2>2. Readable'
    BY <1>1, <2>1 DEF Flow, Readable
  <2>3. k \in ToIndex' /\ ToIndex \subseteq ToIndex'
    BY <2>1 DEF ToIndex
  <2>4. \A j : j # k => (WorksOn(builder, j) => WorksOn(builder, j)')
    BY <2>1 DEF WorksOn
  <2> HIDE DEF k
  <2>5. QED
    BY <1>1, <2>1, <2>2, <2>3, <2>4 DEF Handled
<1>8. CASE BuilderEnds(w)
  <2>1. /\ UNCHANGED <<inputQueue, gtfQueue, lost>>
        /\ \A v \in Workers : builder'[v].pc = "work" => builder'[v] = builder[v]
        /\ \A v \in Workers : builder[v].pc = "work" => builder'[v] = builder[v]
    BY <1>3, <1>8 DEF BuilderEnds, Ended
  <2>2. QED
    BY <1>1, <2>1 DEF Flow, Readable, Handled, WorksOn, ToIndex
<1>9. CASE BuilderDies(w)
  <2>1. PICK k \in inputQueue, heldBack \in SUBSET inputQueue, buffered \in SUBSET gtfQueue[w] :
          /\ inputQueue' = inputQueue \ ({k} \cup heldBack)
          /\ gtfQueue' = [gtfQueue EXCEPT ![w] = @ \ buffered]
          /\ lost' = lost \cup {k} \cup heldBack \cup buffered
    BY <1>9 DEF BuilderDies
  <2>2. /\ \A v \in Workers \ {w} : gtfQueue'[v] = gtfQueue[v]
        /\ gtfQueue'[w] = gtfQueue[w] \ buffered
    BY <2>1 DEF TypeInv, TypeOK
  <2>3. /\ \A v \in Workers : builder'[v].pc = "work" => builder'[v] = builder[v]
        /\ \A v \in Workers : builder[v].pc = "work" => builder'[v] = builder[v]
    BY <1>3, <1>9 DEF BuilderDies, Dead
  <2>4. Readable'
    BY <1>1, <2>2, <2>3 DEF Flow, Readable
  <2>5. \A j : WorksOn(builder, j) => WorksOn(builder, j)'
    BY <2>3 DEF WorksOn
  <2>6. ToIndex \subseteq ToIndex' \cup lost'
    BY <2>1, <2>2 DEF ToIndex
  <2>7. inputQueue \cup lost \subseteq inputQueue' \cup lost'
    BY <2>1
  <2>8. QED
    BY <1>1, <2>4, <2>5, <2>6, <2>7 DEF Handled
<1>10. QED
  BY <1>5, <1>6, <1>7, <1>8, <1>9 DEF Builder

LEMMA FlowIndexer ==
  ASSUME TypeInv, Flow, NEW w \in Workers, Indexer(w)
  PROVE  Flow'
<1> USE DEF inputVars, gtfVars, indexVars, outputVars
<1>1. UNCHANGED <<file, main, fed, inputQueue, builder, lost>> /\ Places' = Places
  BY DEF Indexer, SkipSmall, SortAndPrefix, IndexTerm, PutIndexed, IndexerEnds, Places
<1>2. AllFed'
  BY <1>1 DEF Flow, AllFed
<1>3. SUFFICES Readable' /\ \A k \in Places : Handled(k) => Handled(k)'
  BY <1>1, <1>2 DEF Flow, NoneForgotten
<1>4. CASE SkipSmall(w)
  <2>1. PICK k \in ToIndex : ~ Approved(file[k]) /\ gtfQueue' = Removed(k)
    BY <1>4 DEF SkipSmall
  <2>2. prefix' = prefix /\ \A v \in Workers : gtfQueue'[v] = gtfQueue[v] \ {k}
    BY <1>4, <2>1 DEF SkipSmall, Removed
  <2>3. Readable'
    BY <1>1, <2>2 DEF Flow, Readable
  <2>4. ToIndex \subseteq ToIndex' \cup {k}
    BY <2>2 DEF ToIndex
  <2>5. QED
    BY <1>1, <2>1, <2>2, <2>3, <2>4 DEF Handled, WorksOn
<1>5. CASE SortAndPrefix(w)
  <2>1. PICK k \in ToIndex :
          /\ gtfQueue' = Removed(k)
          /\ prefix' = [prefix EXCEPT ![k] = Block!PrefixTerms(file[k], threshold)]
    BY <1>5 DEF SortAndPrefix
  <2>2. \A v \in Workers : gtfQueue'[v] = gtfQueue[v] \ {k}
    BY <2>1 DEF Removed
  <2>3. Readable'
    BY <1>1, <2>2 DEF Flow, Readable
  <2>4. k \in Places /\ ~ Unreadable(file[k])
    BY <2>1, AllPlaces DEF ToIndex, Flow, Readable
  <2>5. Block!PrefixTerms(file[k], threshold) # {}
    BY <2>4, BlocksHavePrefix
  <2>6. prefix'[k] # {} /\ \A j \in Places : j # k => prefix'[j] = prefix[j]
    BY <2>1, <2>4, <2>5 DEF TypeInv, TypeOK
  <2>7. ToIndex \subseteq ToIndex' \cup {k}
    BY <2>2 DEF ToIndex
  <2>8. QED
    BY <1>1, <2>3, <2>6, <2>7 DEF Handled, WorksOn
<1>6. CASE IndexTerm(w) \/ PutIndexed(w) \/ IndexerEnds(w)
  <2>1. UNCHANGED <<gtfQueue, prefix>>
    BY <1>6 DEF IndexTerm, PutIndexed, IndexerEnds
  <2>2. QED
    BY <1>1, <2>1 DEF Flow, Readable, Handled, WorksOn, ToIndex
<1>7. QED
  BY <1>4, <1>5, <1>6 DEF Indexer

LEMMA FlowStep == TypeInv /\ Flow /\ [Next]_vars => Flow'
<1> SUFFICES ASSUME TypeInv, Flow, [Next]_vars PROVE Flow'
  OBVIOUS
<1> USE DEF inputVars, gtfVars, indexVars, outputVars
<1>1. ASSUME UNCHANGED <<file, main, fed, inputQueue, builder, gtfQueue, prefix, lost>>
      PROVE  Flow'
  BY <1>1 DEF Flow, AllFed, Readable, NoneForgotten, Handled, WorksOn, ToIndex, Places
<1>2. CASE UNCHANGED vars
  BY <1>1, <1>2 DEF vars
<1>3. ASSUME NEW w \in Workers, Detector(w) PROVE Flow'
  BY <1>1, <1>3 DEF Detector, Detect, PutClone, NextQuery, DetectorEnds
<1>4. CASE Writer \/ WriterFails
  BY <1>1, <1>4 DEF Writer, WriteClone, WriterEnds, WriterFails, WriteFails, FlushFails, Save
<1>5. QED
  BY <1>2, <1>3, <1>4, FlowMain, FlowBuilder, FlowIndexer DEF Next, Step, Terminating

-----------------------------------------------------------------------------
(* A block that has a prefix is in the index under all of it, but for the
   terms that an indexer has still to add.                                 *)

StillToIndex(k, t) ==
  \E w \in Workers :
    indexer[w].pc = "work" /\ indexer[w].block = k /\ t \in indexer[w].todo

Prefixed ==
  \A k \in Places : prefix[k] # {} =>
    /\ main \notin BeforeIndexing
    /\ prefix[k] = Block!PrefixTerms(file[k], threshold)
    /\ \A t \in prefix[k] : k \in index[t] \/ StillToIndex(k, t)

(* The prefix terms are a matter of the block and the GTF.                 *)
LEMMA PrefixStays ==
  ASSUME UNCHANGED <<file, gtf>>, NEW k
  PROVE  Block!PrefixTerms(file[k], threshold)' = Block!PrefixTerms(file[k], threshold)
  BY DEF Block!PrefixTerms, Block!PrefixLength, Block!numTokens, Block!Before, Block!TermsOf,
         Block!Tokens, Block!TokensOf, SortRank

LEMMA PrefixedInit == Init => Prefixed
  BY DEF Init, Prefixed, Places

LEMMA PrefixedIndexer ==
  ASSUME TypeInv, Staged, Prefixed, NEW w \in Workers, Indexer(w)
  PROVE  Prefixed'
<1> USE DEF inputVars, gtfVars, indexVars, outputVars
<1>1. UNCHANGED <<file, main, gtf>> /\ Places' = Places
  BY DEF Indexer, SkipSmall, SortAndPrefix, IndexTerm, PutIndexed, IndexerEnds, Places
<1>2. \A k \in Places :
        Block!PrefixTerms(file[k], threshold)' = Block!PrefixTerms(file[k], threshold)
  BY <1>1, PrefixStays
<1>3. main \notin BeforeIndexing
  BY DEF Staged, Indexer, SkipSmall, SortAndPrefix, IndexTerm, PutIndexed, IndexerEnds
<1>4. indexer \in [Workers -> Tasks \cup [pc : {"work"}, block : Places, todo : SUBSET Terms]]
  BY DEF TypeInv, TypeOK
<1>5. CASE SkipSmall(w)
  <2>1. UNCHANGED <<indexer, prefix, index>>
    BY <1>5 DEF SkipSmall
  <2>2. QED
    BY <1>1, <1>2, <2>1 DEF Prefixed, StillToIndex
<1>6. CASE SortAndPrefix(w)
  <2>1. PICK k \in ToIndex :
          /\ prefix' = [prefix EXCEPT ![k] = Block!PrefixTerms(file[k], threshold)]
          /\ indexer' = [indexer EXCEPT ![w] = At(k, prefix'[k])]
    BY <1>6 DEF SortAndPrefix
  <2>2. k \in Places /\ index' = index /\ indexer[w].pc = "take"
    BY <1>6, AllPlaces DEF ToIndex, SortAndPrefix
  <2>3. /\ prefix'[k] = Block!PrefixTerms(file[k], threshold)
        /\ \A j \in Places : j # k => prefix'[j] = prefix[j]
    BY <2>1, <2>2 DEF TypeInv, TypeOK
  <2>4. /\ indexer'[w].pc = "work" /\ indexer'[w].block = k /\ indexer'[w].todo = prefix'[k]
        /\ \A v \in Workers \ {w} : indexer'[v] = indexer[v]
    BY <1>4, <2>1 DEF At
  <2>5. \A j, t : StillToIndex(j, t) => StillToIndex(j, t)'
    BY <2>2, <2>4 DEF StillToIndex
  <2>6. \A t \in prefix'[k] : StillToIndex(k, t)'
    BY <2>4 DEF StillToIndex
  <2>7. QED
    BY <1>1, <1>2, <1>3, <2>2, <2>3, <2>5, <2>6 DEF Prefixed
<1>7. CASE IndexTerm(w)
  <2> DEFINE k == indexer[w].block
  <2>1. PICK t \in indexer[w].todo :
          /\ index' = [index EXCEPT ![t] = @ \cup {k}]
          /\ indexer' = [indexer EXCEPT ![w].todo = @ \ {t}]
    BY <1>7 DEF IndexTerm
  <2>2. prefix' = prefix /\ indexer[w].pc = "work" /\ t \in Terms
    BY <1>4, <1>7 DEF IndexTerm, Tasks
  <2>3. k \in index'[t] /\ \A u \in Terms : index[u] \subseteq index'[u]
    BY <2>1, <2>2 DEF TypeInv, TypeOK
  <2>4. /\ \A v \in Workers : indexer'[v].pc = indexer[v].pc /\ indexer'[v].block = indexer[v].block
        /\ \A v \in Workers \ {w} : indexer'[v].todo = indexer[v].todo
        /\ indexer'[w].todo = indexer[w].todo \ {t}
    BY <1>4, <2>1, <2>2 DEF Tasks
  <2>5. \A j, u : StillToIndex(j, u) => StillToIndex(j, u)' \/ (j = k /\ u = t)
    BY <2>4 DEF StillToIndex
  <2>6. \A j \in Places : prefix[j] \subseteq Terms
    BY DEF TypeInv, TypeOK
  <2> HIDE DEF k
  <2>7. QED
    BY <1>1, <1>2, <2>2, <2>3, <2>5, <2>6 DEF Prefixed
<1>8. CASE PutIndexed(w) \/ IndexerEnds(w)
  <2>1. UNCHANGED <<prefix, index>> /\ \A v \in Workers \ {w} : indexer'[v] = indexer[v]
    BY <1>4, <1>8 DEF PutIndexed, IndexerEnds
  <2>2. indexer[w].todo = {}
    BY <1>4, <1>8 DEF PutIndexed, IndexerEnds, Tasks
  <2>3. \A j, t : StillToIndex(j, t) => StillToIndex(j, t)'
    BY <2>1, <2>2 DEF StillToIndex
  <2>4. QED
    BY <1>1, <1>2, <2>1, <2>3 DEF Prefixed
<1>9. QED
  BY <1>5, <1>6, <1>7, <1>8 DEF Indexer

LEMMA PrefixedStep == TypeInv /\ Staged /\ Prefixed /\ [Next]_vars => Prefixed'
<1> SUFFICES ASSUME TypeInv, Staged, Prefixed, [Next]_vars PROVE Prefixed'
  OBVIOUS
<1> USE DEF inputVars, gtfVars, indexVars, outputVars
<1>1. ASSUME UNCHANGED <<file, main, gtf, indexer, prefix, index>> PROVE Prefixed'
  <2>1. \A k \in Places :
          Block!PrefixTerms(file[k], threshold)' = Block!PrefixTerms(file[k], threshold)
    BY <1>1, PrefixStays
  <2>2. QED
    BY <1>1, <2>1 DEF Prefixed, StillToIndex, Places
<1>2. CASE UNCHANGED vars
  BY <1>1, <1>2 DEF vars
<1>3. CASE Main \/ ReadFails \/ FinishFails
  <2>1. UNCHANGED <<file, gtf, prefix, index>> /\ Places' = Places
    BY <1>3 DEF Main, Read, Put, ReadEnd, PoisonInput, StartIndexing, StartDetection,
                PoisonOutput, Finish, FinishFails, Save, ReadFails, Places
  <2>2. CASE main \in BeforeIndexing
    <3>1. \A k \in Places : prefix[k] = {}
      BY <2>2 DEF Prefixed
    <3>2. QED
      BY <2>1, <3>1 DEF Prefixed
  <2>3. CASE main \notin BeforeIndexing
    <3>1. main' \notin BeforeIndexing /\ indexer' = indexer
      BY <1>3, <2>3 DEF Main, Read, Put, ReadEnd, PoisonInput, PoisonOne, StartIndexing,
           StartDetection, PoisonOutput, Finish, FinishFails, Save, ReadFails, BeforeIndexing
    <3>2. \A k \in Places :
            Block!PrefixTerms(file[k], threshold)' = Block!PrefixTerms(file[k], threshold)
      BY <2>1, PrefixStays
    <3>3. QED
      BY <2>1, <3>1, <3>2 DEF Prefixed, StillToIndex
  <2>4. QED
    BY <2>2, <2>3
<1>4. ASSUME NEW w \in Workers, Builder(w) PROVE Prefixed'
  <2>1. UNCHANGED <<file, prefix>> /\ builder[w].pc \in {"take", "work"}
    BY <1>4 DEF Builder, TakeInput, AddTerm, PutCounted, BuilderEnds, BuilderDies
  <2>2. main \in BeforeIndexing
    BY <2>1 DEF Staged, Terminated
  <2>3. QED
    BY <2>1, <2>2 DEF Prefixed, Places
<1>5. ASSUME NEW w \in Workers, Detector(w) PROVE Prefixed'
  BY <1>1, <1>5 DEF Detector, Detect, PutClone, NextQuery, DetectorEnds
<1>6. CASE Writer \/ WriterFails
  BY <1>1, <1>6 DEF Writer, WriteClone, WriterEnds, WriterFails, WriteFails, FlushFails, Save
<1>7. QED
  BY <1>2, <1>3, <1>4, <1>5, <1>6, PrefixedIndexer DEF Next, Step, Terminating

-----------------------------------------------------------------------------
(* The thread of a stage that ends last leaves nothing in its queue.       *)

Emptied ==
  /\ \A w \in Workers : indexer[w].pc # "dead" /\ detector[w].pc # "dead"
  /\ Terminated(indexer) => ToIndex = {}
  /\ Terminated(detector) => detectQueue = {}

LEMMA NothingHeldBack ==
  ASSUME NEW queue, IsFiniteSet(queue), NEW others, others = {}, OnlyHeldBack(queue, others)
  PROVE  queue = {}
<1>1. Cardinality(others) = 0
  BY FS_EmptySet
<1>2. (GroupSize - 1) * 0 = 0
  BY PipelineAssumption
<1>3. Cardinality(queue) <= 0
  BY <1>1, <1>2 DEF OnlyHeldBack
<1>4. Cardinality(queue) \in Nat
  BY FS_CardinalityType
<1>5. Cardinality(queue) = 0
  BY <1>3, <1>4
<1>6. QED
  BY <1>5, FS_EmptySet

LEMMA EmptiedInit == Init => Emptied
<1>1. PICK w \in Workers : TRUE
  BY PipelineAssumption
<1>2. QED
  BY <1>1 DEF Init, Emptied, Terminated, Waiting

LEMMA EmptiedStep == TypeInv /\ Staged /\ Emptied /\ [Next]_vars => Emptied'
<1> SUFFICES ASSUME TypeInv, Staged, Emptied, [Next]_vars PROVE Emptied'
  OBVIOUS
<1> USE DEF inputVars, gtfVars, indexVars, outputVars
<1>1. PICK any \in Workers : TRUE
  BY PipelineAssumption
<1>2. \A Q \in SUBSET Places : IsFiniteSet(Q)
  <2>1. IsFiniteSet(Places)
    BY FileRead
  <2>2. QED
    BY <2>1, FS_Subset
<1>3. ToIndex \in SUBSET Places /\ detectQueue \in SUBSET Places
  BY AllPlaces DEF ToIndex
<1>4. ASSUME UNCHANGED <<gtfQueue, indexer, detectQueue, detector>> PROVE Emptied'
  BY <1>4 DEF Emptied, Terminated, ToIndex
<1>5. CASE UNCHANGED vars
  BY <1>4, <1>5 DEF vars
<1>6. CASE Main \/ ReadFails \/ FinishFails
  <2>1. CASE StartIndexing
    BY <1>1, <2>1 DEF StartIndexing, Emptied, Terminated, Taking
  <2>2. CASE StartDetection
    <3>1. UNCHANGED <<gtfQueue, indexer, detectQueue>>
          /\ \A w \in Workers : detector'[w].pc = "take"
      BY <2>2 DEF StartDetection, Taking
    <3>2. QED
      BY <1>1, <3>1 DEF Emptied, Terminated, ToIndex
  <2>3. CASE Read \/ Put \/ ReadEnd \/ PoisonInput \/ PoisonOutput \/ Finish \/ FinishFails \/ ReadFails
    BY <1>4, <2>3 DEF Read, Put, ReadEnd, PoisonInput, PoisonOutput, Finish, FinishFails, Save, ReadFails
  <2>4. QED
    BY <1>6, <2>1, <2>2, <2>3 DEF Main
<1>7. ASSUME NEW w \in Workers, Builder(w) PROVE Emptied'
  <2>1. /\ UNCHANGED <<main, indexer, detectQueue, detector>>
        /\ builder[w].pc \in {"take", "work"}
    BY <1>7 DEF Builder, TakeInput, AddTerm, PutCounted, BuilderEnds, BuilderDies
  <2>2. main \in BeforeIndexing
    BY <2>1 DEF Staged, Terminated
  <2>3. ~ Terminated(indexer)
    BY <1>1, <2>2 DEF Staged, Terminated
  <2>4. QED
    BY <2>1, <2>3 DEF Emptied, Terminated
<1>8. ASSUME NEW w \in Workers, Indexer(w) PROVE Emptied'
  <2>1. indexer[w].pc \in {"take", "work"} /\ detector' = detector
    BY <1>8 DEF Indexer, SkipSmall, SortAndPrefix, IndexTerm, PutIndexed, IndexerEnds
  <2>2. \A v \in Workers : detector[v].pc = "wait"
    BY <2>1 DEF Staged, Terminated
  <2>3. ~ Terminated(detector)'
    BY <1>1, <2>1, <2>2 DEF Terminated
  <2>4. indexer \in [Workers -> Tasks \cup [pc : {"work"}, block : Places, todo : SUBSET Terms]]
    BY DEF TypeInv, TypeOK
  <2>5. CASE SkipSmall(w) \/ SortAndPrefix(w) \/ IndexTerm(w) \/ PutIndexed(w)
    <3>1. /\ indexer'[w].pc \in {"take", "work"}
          /\ \A v \in Workers \ {w} : indexer'[v] = indexer[v]
      BY <2>1, <2>4, <2>5 DEF SkipSmall, SortAndPrefix, IndexTerm, PutIndexed, Taking, At, Tasks
    <3>2. QED
      BY <2>1, <2>3, <3>1 DEF Emptied, Terminated
  <2>6. CASE IndexerEnds(w)
    <3>1. /\ indexer'[w].pc = "ended" /\ gtfQueue' = gtfQueue
          /\ \A v \in Workers \ {w} : indexer'[v] = indexer[v]
          /\ OnlyHeldBack(ToIndex, Others(indexer, w))
      BY <2>4, <2>6 DEF IndexerEnds, Ended
    <3>2. ASSUME Terminated(indexer)' PROVE ToIndex' = {}
      <4>1. Others(indexer, w) = {}
        BY <3>1, <3>2 DEF Others, Terminated
      <4>2. ToIndex = {}
        BY <1>2, <1>3, <3>1, <4>1, NothingHeldBack
      <4>3. QED
        BY <3>1, <4>2 DEF ToIndex
    <3>3. \A v \in Workers : indexer'[v].pc # "dead" /\ detector'[v].pc # "dead"
      BY <2>1, <3>1 DEF Emptied
    <3>4. QED
      BY <2>3, <3>2, <3>3 DEF Emptied
  <2>7. QED
    BY <1>8, <2>5, <2>6 DEF Indexer
<1>9. ASSUME NEW w \in Workers, Detector(w) PROVE Emptied'
  <2>1. UNCHANGED <<gtfQueue, indexer>> /\ ToIndex' = ToIndex
    BY <1>9 DEF Detector, Detect, PutClone, NextQuery, DetectorEnds, ToIndex
  <2>2. detector \in [Workers -> Tasks \cup [pc : {"work"}, block : Places, todo : SUBSET Pairs]]
    BY DEF TypeInv, TypeOK
  <2>3. CASE Detect(w) \/ PutClone(w) \/ NextQuery(w)
    <3>1. /\ detector'[w].pc \in {"take", "work"}
          /\ \A v \in Workers \ {w} : detector'[v] = detector[v]
      BY <2>2, <2>3 DEF Detect, PutClone, NextQuery, Taking, At, Tasks
    <3>2. QED
      BY <2>1, <3>1 DEF Emptied, Terminated
  <2>4. CASE DetectorEnds(w)
    <3>1. /\ detector'[w].pc = "ended" /\ detectQueue' = detectQueue
          /\ \A v \in Workers \ {w} : detector'[v] = detector[v]
          /\ OnlyHeldBack(detectQueue, Others(detector, w))
      BY <2>2, <2>4 DEF DetectorEnds, Ended
    <3>2. ASSUME Terminated(detector)' PROVE detectQueue' = {}
      <4>1. Others(detector, w) = {}
        BY <3>1, <3>2 DEF Others, Terminated
      <4>2. QED
        BY <1>2, <1>3, <3>1, <4>1, NothingHeldBack
    <3>3. QED
      BY <2>1, <3>1, <3>2 DEF Emptied, Terminated
  <2>5. QED
    BY <1>9, <2>3, <2>4 DEF Detector
<1>10. CASE Writer \/ WriterFails
  BY <1>4, <1>10 DEF Writer, WriteClone, WriterEnds, WriterFails, WriteFails, FlushFails, Save
<1>11. QED
  BY <1>5, <1>6, <1>7, <1>8, <1>9, <1>10 DEF Next, Step, Terminating

LEMMA AtTheIndex == TypeInv /\ Staged /\ Flow /\ Prefixed /\ Emptied => IndexedBeforeDetection
<1> SUFFICES ASSUME TypeInv, Staged, Flow, Prefixed, Emptied,
                    \E w \in Workers : detector[w].pc # "wait",
                    NEW k \in Places \ (lost \cup inputQueue), Approved(file[k])
             PROVE  prefix[k] # {} /\ \A t \in prefix[k] : k \in index[t]
  BY DEF IndexedBeforeDetection
<1>1. Terminated(builder) /\ Terminated(indexer) /\ main \notin BeforeDetection
  BY DEF Staged, BeforeDetection
<1>2. ToIndex = {} /\ ~ WorksOn(builder, k)
  BY <1>1 DEF Emptied, Terminated, WorksOn
<1>3. k < fed \/ (k = fed /\ main # "put")
  <2>1. fed = Len(file) /\ main # "put"
    BY <1>1 DEF Flow, AllFed, BeforeDetection, BeforeIndexing
  <2>2. QED
    BY <2>1, AllPlaces DEF Places
<1>4. Handled(k)
  BY <1>3 DEF Flow, NoneForgotten
<1>5. prefix[k] # {}
  BY <1>2, <1>4 DEF Handled
<1>6. \A t : ~ StillToIndex(k, t)
  BY <1>1 DEF Terminated, StillToIndex
<1>7. QED
  BY <1>5, <1>6 DEF Prefixed

LEMMA FlowInvariant == Spec => [](Flow /\ Prefixed /\ Emptied)
  BY FlowInit, PrefixedInit, EmptiedInit, FlowStep, PrefixedStep, EmptiedStep,
     StagedInvariant, TypeInvariant, PTL DEF Spec

(* No query meets an index that is still growing: when the first detector
   starts, every approved block that a builder has passed on is in the
   index under all its prefix terms.                                       *)
THEOREM IndexesBeforeDetection == Spec => []IndexedBeforeDetection
  BY AtTheIndex, FlowInvariant, StagedInvariant, TypeInvariant, PTL

-----------------------------------------------------------------------------
(* A block with a prefix is with an indexer, or a query to come, or all the
   clones its query finds are on their way to the file.                    *)

FoundBy(threads) == UNION {threads[w].todo : w \in Workers}

Reported(k) ==
  /\ main \notin BeforeDetection
  /\ DetectClones(k, prefix[k]) \subseteq Handed \cup outputQueue \cup FoundBy(detector)

Queried ==
  \A k \in Places : prefix[k] # {} =>
    WorksOn(indexer, k) \/ k \in detectQueue \/ writer = "failed" \/ Reported(k)

(* The writer is poisoned when the detectors have ended, and it ends when
   the queue is empty.                                                     *)
Closing ==
  /\ main \in {"join writer", "done", "unclosed"} => Terminated(detector)
  /\ main \in BeforeDetection => writer = "wait"
  /\ writer \in {"ended", "unflushed"} =>
       outputQueue = {} /\ main \in {"join writer", "done", "unclosed"}
  /\ writer = "ended" => buffer = {}

Delivery == Queried /\ Closing

(* What a query finds does not change while index and prefixes stay.       *)
LEMMA ClonesStay ==
  ASSUME UNCHANGED <<file, prefix, index>>, NEW k
  PROVE  DetectClones(k, prefix[k])' = DetectClones(k, prefix[k])
  BY DEF DetectClones, Block!ClonePair, Block!HaveCommonLine, Block!Similar, Block!numShared,
         Block!Shared, Block!Larger, Block!numTokens, Block!Tokens, Block!TokensOf

(* What only main and the writer do to the pairs found.                    *)
LEMMA QueriedStays ==
  ASSUME Queried,
         UNCHANGED <<file, indexer, prefix, index, detectQueue, detector>>,
         main \notin BeforeDetection => main' \notin BeforeDetection,
         writer = "failed" => writer' = "failed",
         Handed \cup outputQueue \subseteq Handed' \cup outputQueue'
  PROVE  Queried'
<1>1. SUFFICES ASSUME NEW k \in Places, prefix[k] # {}
               PROVE  \/ WorksOn(indexer, k) \/ k \in detectQueue
                      \/ writer' = "failed" \/ Reported(k)'
  BY DEF Queried, Places, WorksOn
<1>2. CASE Reported(k)
  <2>1. DetectClones(k, prefix[k])' = DetectClones(k, prefix[k])
    BY ClonesStay
  <2>2. FoundBy(detector)' = FoundBy(detector)
    BY DEF FoundBy
  <2>3. QED
    BY <1>2, <2>1, <2>2 DEF Reported
<1>3. QED
  BY <1>1, <1>2 DEF Queried

LEMMA DeliveryInit == Init => Delivery
  BY DEF Init, Delivery, Queried, Closing, Places, BeforeDetection, BeforeIndexing

LEMMA DeliveryMain ==
  ASSUME TypeInv, Staged, Delivery, Main \/ ReadFails \/ FinishFails
  PROVE  Delivery'
<1> USE DEF inputVars, gtfVars, indexVars, outputVars
<1>1. UNCHANGED <<file, prefix, index, detectQueue, outputQueue, Handed>> /\ Places' = Places
  BY DEF Main, Read, Put, ReadEnd, PoisonInput, StartIndexing, StartDetection,
         PoisonOutput, Finish, FinishFails, Save, ReadFails, Places
<1>3. CASE Read \/ Put \/ ReadEnd \/ PoisonInput \/ ReadFails
  <2>1. /\ main \in BeforeDetection /\ main' \in BeforeDetection
        /\ UNCHANGED <<indexer, writer>>
    BY <1>3 DEF Read, Put, ReadEnd, PoisonInput, PoisonOne, ReadFails, BeforeDetection,
                BeforeIndexing
  <2>2. Queried'
    BY <1>1, <2>1 DEF Delivery, Queried, Reported, WorksOn
  <2>3. Closing'
    BY <2>1 DEF Delivery, Closing, BeforeDetection, BeforeIndexing
  <2>4. QED
    BY <2>2, <2>3 DEF Delivery
<1>4. CASE StartIndexing
  <2>1. main = "join builders" /\ main' = "join indexers" /\ writer' = writer
    BY <1>4 DEF StartIndexing
  <2>2. \A k : ~ WorksOn(indexer, k)
    BY <2>1 DEF Staged, WorksOn, BeforeIndexing
  <2>3. Queried'
    BY <1>1, <2>1, <2>2 DEF Delivery, Queried, Reported, BeforeDetection, BeforeIndexing
  <2>4. QED
    BY <2>1, <2>3 DEF Delivery, Closing, BeforeDetection, BeforeIndexing
<1>5. CASE StartDetection
  <2>1. /\ main = "join indexers" /\ main' = "join detectors" /\ writer' = "take"
        /\ indexer' = indexer
    BY <1>5 DEF StartDetection
  <2>2. writer = "wait"
    BY <2>1 DEF Delivery, Closing, BeforeDetection
  <2>3. Queried'
    BY <1>1, <2>1, <2>2 DEF Delivery, Queried, Reported, WorksOn, BeforeDetection
  <2>4. QED
    BY <2>1, <2>3 DEF Delivery, Closing, BeforeDetection, BeforeIndexing
<1>6. CASE PoisonOutput \/ Finish \/ FinishFails
  <2>1. /\ main \in {"join detectors", "join writer"}
        /\ main' \in {"join writer", "done", "unclosed"}
        /\ UNCHANGED <<indexer, detector, writer>> /\ buffer' \subseteq buffer
    BY <1>6 DEF PoisonOutput, Finish, FinishFails, Save
  <2>2. Terminated(detector)
    BY <1>6 DEF PoisonOutput, Finish, FinishFails, Delivery, Closing
  <2>3. Queried'
    BY <1>1, <2>1, QueriedStays DEF Delivery, BeforeDetection, BeforeIndexing
  <2>4. Closing'
    BY <1>1, <2>1, <2>2 DEF Delivery, Closing, Terminated, BeforeDetection, BeforeIndexing
  <2>5. QED
    BY <2>3, <2>4 DEF Delivery
<1>7. QED
  BY <1>3, <1>4, <1>5, <1>6 DEF Main

LEMMA DeliveryIndexer ==
  ASSUME TypeInv, Staged, Delivery, NEW w \in Workers, Indexer(w)
  PROVE  Delivery'
<1> USE DEF inputVars, gtfVars, indexVars, outputVars
<1>1. /\ UNCHANGED <<file, main, detector, outputQueue, writer, buffer, written>>
      /\ Places' = Places
      /\ indexer[w].pc \in {"take", "work"}
  BY DEF Indexer, SkipSmall, SortAndPrefix, IndexTerm, PutIndexed, IndexerEnds, Places
<1>2. main \in BeforeDetection
  BY <1>1 DEF Staged, Terminated
<1>3. Closing'
  BY <1>1 DEF Delivery, Closing, Terminated
<1>4. \A k \in Places : prefix[k] # {} => WorksOn(indexer, k) \/ k \in detectQueue
  BY <1>2 DEF Delivery, Queried, Closing, Reported
<1>5. SUFFICES \A k \in Places : prefix'[k] # {} => WorksOn(indexer, k)' \/ k \in detectQueue'
  BY <1>1, <1>3 DEF Delivery, Queried
<1>6. indexer \in [Workers -> Tasks \cup [pc : {"work"}, block : Places, todo : SUBSET Terms]]
  BY DEF TypeInv, TypeOK
<1>7. CASE SkipSmall(w)
  BY <1>4, <1>7 DEF SkipSmall, WorksOn
<1>8. CASE SortAndPrefix(w)
  <2>1. PICK k \in ToIndex :
          /\ prefix' = [prefix EXCEPT ![k] = Block!PrefixTerms(file[k], threshold)]
          /\ indexer' = [indexer EXCEPT ![w] = At(k, prefix'[k])]
    BY <1>8 DEF SortAndPrefix
  <2>2. detectQueue' = detectQueue /\ indexer[w].pc = "take"
    BY <1>8 DEF SortAndPrefix
  <2>3. /\ indexer'[w].pc = "work" /\ indexer'[w].block = k
        /\ \A v \in Workers \ {w} : indexer'[v] = indexer[v]
    BY <1>6, <2>1 DEF At
  <2>4. \A j \in Places : j # k => prefix'[j] = prefix[j]
    BY <2>1 DEF TypeInv, TypeOK
  <2>5. WorksOn(indexer, k)' /\ \A j : WorksOn(indexer, j) => WorksOn(indexer, j)'
    BY <2>2, <2>3 DEF WorksOn
  <2>6. QED
    BY <1>4, <2>2, <2>4, <2>5
<1>9. CASE IndexTerm(w)
  <2>1. /\ UNCHANGED <<prefix, detectQueue>>
        /\ \A v \in Workers : indexer'[v].pc = indexer[v].pc /\ indexer'[v].block = indexer[v].block
    BY <1>6, <1>9 DEF IndexTerm, Tasks
  <2>2. QED
    BY <1>4, <2>1 DEF WorksOn
<1>10. CASE PutIndexed(w)
  <2>1. /\ prefix' = prefix /\ detectQueue' = detectQueue \cup {indexer[w].block}
        /\ \A v \in Workers \ {w} : indexer'[v] = indexer[v]
    BY <1>6, <1>10 DEF PutIndexed
  <2>2. \A j : WorksOn(indexer, j) => WorksOn(indexer, j)' \/ j = indexer[w].block
    BY <2>1 DEF WorksOn
  <2>3. QED
    BY <1>4, <2>1, <2>2
<1>11. CASE IndexerEnds(w)
  <2>1. /\ UNCHANGED <<prefix, detectQueue>> /\ indexer[w].pc = "take"
        /\ \A v \in Workers \ {w} : indexer'[v] = indexer[v]
    BY <1>6, <1>11 DEF IndexerEnds
  <2>2. \A j : WorksOn(indexer, j) => WorksOn(indexer, j)'
    BY <2>1 DEF WorksOn
  <2>3. QED
    BY <1>4, <2>1, <2>2
<1>12. QED
  BY <1>7, <1>8, <1>9, <1>10, <1>11 DEF Indexer

LEMMA DeliveryDetector ==
  ASSUME TypeInv, Staged, Delivery, NEW w \in Workers, Detector(w)
  PROVE  Delivery'
<1> USE DEF inputVars, gtfVars, indexVars, outputVars
<1> DEFINE onTheWay == Handed \cup outputQueue \cup FoundBy(detector)
<1>1. /\ UNCHANGED <<file, main, indexer, prefix, index, writer, Handed>> /\ Places' = Places
      /\ detector[w].pc \in {"take", "work"}
  BY DEF Detector, Detect, PutClone, NextQuery, DetectorEnds, Places
<1>2. main \notin BeforeDetection
  BY <1>1 DEF Staged
<1>3. ~ Terminated(detector)
  BY <1>1 DEF Terminated
<1>4. Closing'
  BY <1>1, <1>2, <1>3 DEF Delivery, Closing
<1>5. \A k \in Places : DetectClones(k, prefix[k])' = DetectClones(k, prefix[k])
  BY <1>1, ClonesStay
<1>6. detector \in [Workers -> Tasks \cup [pc : {"work"}, block : Places, todo : SUBSET Pairs]]
  BY DEF TypeInv, TypeOK
<1>7. SUFFICES /\ onTheWay \subseteq onTheWay'
               /\ \A k \in detectQueue \ detectQueue' : DetectClones(k, prefix[k]) \subseteq onTheWay'
  BY <1>1, <1>2, <1>4, <1>5 DEF Delivery, Queried, Reported, WorksOn
<1>8. CASE Detect(w)
  <2>1. PICK k \in detectQueue :
          /\ detectQueue' = detectQueue \ {k}
          /\ detector' = [detector EXCEPT ![w] = At(k, DetectClones(k, prefix[k]))]
    BY <1>8 DEF Detect
  <2>2. /\ outputQueue' = outputQueue /\ detector[w].todo = {}
        /\ detector'[w].todo = DetectClones(k, prefix[k])
        /\ \A v \in Workers \ {w} : detector'[v] = detector[v]
    BY <1>6, <1>8, <2>1 DEF Detect, At, Tasks
  <2>3. FoundBy(detector) \subseteq FoundBy(detector')
    BY <2>2 DEF FoundBy
  <2>4. DetectClones(k, prefix[k]) \subseteq FoundBy(detector')
    BY <2>2 DEF FoundBy
  <2>5. QED
    BY <1>1, <2>1, <2>2, <2>3, <2>4
<1>9. CASE PutClone(w)
  <2>1. PICK pair \in detector[w].todo :
          /\ outputQueue' = outputQueue \cup {pair}
          /\ detector' = [detector EXCEPT ![w].todo = @ \ {pair}]
    BY <1>9 DEF PutClone
  <2>2. /\ detectQueue' = detectQueue /\ detector'[w].todo = detector[w].todo \ {pair}
        /\ \A v \in Workers \ {w} : detector'[v] = detector[v]
    BY <1>6, <1>9, <2>1 DEF PutClone, Tasks
  <2>3. FoundBy(detector) \subseteq FoundBy(detector') \cup {pair}
    BY <2>2 DEF FoundBy
  <2>4. QED
    BY <1>1, <2>1, <2>2, <2>3
<1>10. CASE NextQuery(w) \/ DetectorEnds(w)
  <2>1. /\ UNCHANGED <<detectQueue, outputQueue>> /\ detector[w].todo = {}
        /\ \A v \in Workers \ {w} : detector'[v] = detector[v]
    BY <1>6, <1>10 DEF NextQuery, DetectorEnds, Tasks
  <2>2. FoundBy(detector) \subseteq FoundBy(detector')
    BY <2>1 DEF FoundBy
  <2>3. QED
    BY <1>1, <2>1, <2>2
<1>11. QED
  BY <1>8, <1>9, <1>10 DEF Detector

LEMMA DeliveryWriter ==
  ASSUME TypeInv, Delivery, Writer \/ WriterFails
  PROVE  Delivery'
<1> USE DEF inputVars, gtfVars, indexVars, outputVars
<1>1. /\ UNCHANGED <<file, main, indexer, prefix, index, detectQueue, detector>>
      /\ Places' = Places /\ writer = "take"
  BY DEF Writer, WriteClone, WriterEnds, WriterFails, WriteFails, FlushFails, Save, Places
<1>2. main \notin BeforeDetection
  BY <1>1 DEF Delivery, Closing
<1>4. CASE WriteClone
  <2>1. Handed \cup outputQueue \subseteq Handed' \cup outputQueue' /\ writer' = writer
    BY <1>4 DEF WriteClone
  <2>2. Queried'
    BY <1>1, <2>1, QueriedStays DEF Delivery
  <2>3. QED
    BY <1>1, <2>1, <2>2 DEF Delivery, Closing, Terminated
<1>5. CASE WriterEnds \/ FlushFails
  <2>1. /\ UNCHANGED <<outputQueue, Handed>> /\ writer' \in {"ended", "unflushed"}
        /\ outputQueue = {} /\ main = "join writer"
        /\ writer' = "ended" => buffer' = {}
    BY <1>5 DEF WriterEnds, FlushFails, Save, OutputClosed
  <2>2. Queried'
    <3>1. Handed \cup outputQueue \subseteq Handed' \cup outputQueue' /\ writer # "failed"
      BY <1>1, <2>1
    <3>2. QED
      BY <1>1, <3>1, QueriedStays DEF Delivery
  <2>3. QED
    BY <1>1, <1>2, <2>1, <2>2 DEF Delivery, Closing, Terminated
<1>6. CASE WriteFails
  <2>1. writer' = "failed"
    BY <1>6 DEF WriteFails
  <2>2. QED
    BY <1>1, <1>2, <2>1 DEF Delivery, Queried, Closing, Terminated
<1>7. QED
  BY <1>4, <1>5, <1>6 DEF Writer, WriterFails

LEMMA DeliveryStep == TypeInv /\ Staged /\ Delivery /\ [Next]_vars => Delivery'
<1> SUFFICES ASSUME TypeInv, Staged, Delivery, [Next]_vars PROVE Delivery'
  OBVIOUS
<1> USE DEF inputVars, gtfVars, indexVars, outputVars
<1>1. ASSUME UNCHANGED <<file, main, indexer, prefix, index, detectQueue, detector,
                         outputQueue, writer, buffer, written>>
      PROVE  Delivery'
  <2>1. Queried'
    BY <1>1, QueriedStays DEF Delivery
  <2>2. QED
    BY <1>1, <2>1 DEF Delivery, Closing, Terminated
<1>2. CASE UNCHANGED vars
  BY <1>1, <1>2 DEF vars
<1>3. ASSUME NEW w \in Workers, Builder(w) PROVE Delivery'
  BY <1>1, <1>3 DEF Builder, TakeInput, AddTerm, PutCounted, BuilderEnds, BuilderDies
<1>4. QED
  BY <1>2, <1>3, DeliveryMain, DeliveryIndexer, DeliveryDetector, DeliveryWriter
     DEF Next, Step, Terminating

LEMMA DeliveryInvariant == Spec => []Delivery
  BY DeliveryInit, DeliveryStep, StagedInvariant, TypeInvariant, PTL DEF Spec

(* The two blocks of a pair meet in the index, under a common prefix term
   that both have been indexed under before the query.                     *)
LEMMA AllWritten ==
  TypeInv /\ Staged /\ Flow /\ Prefixed /\ Emptied /\ Delivery => AllClones
<1> SUFFICES ASSUME TypeInv, Staged, Flow, Prefixed, Emptied, Delivery,
                    main = "done", writer \in {"ended", "unflushed"},
                    Block!IsPositive(threshold),
                    NEW p \in ClonesAmong(Places \ (lost \cup inputQueue))
             PROVE  p \in Handed
  BY DEF AllClones, Delivery, Closing
<1> DEFINE K == Places \ (lost \cup inputQueue)
<1>1. /\ p[1] \in K /\ p[2] \in K /\ p = <<p[1], p[2]>>
      /\ Approved(file[p[1]]) /\ Approved(file[p[2]])
      /\ Block!ClonePair(file[p[1]], file[p[2]], threshold)
  BY DEF ClonesAmong
<1>2. Terminated(detector) /\ Terminated(indexer) /\ outputQueue = {}
  BY DEF Delivery, Closing, Staged, BeforeDetection, BeforeIndexing
<1>3. \E w \in Workers : detector[w].pc # "wait"
  BY <1>2, PipelineAssumption DEF Terminated
<1>4. /\ \A k \in K : Approved(file[k]) =>
           prefix[k] # {} /\ \A t \in prefix[k] : k \in index[t]
      /\ \A k \in Places : prefix[k] # {} =>
           prefix[k] = Block!PrefixTerms(file[k], threshold)
  BY <1>3, AtTheIndex DEF IndexedBeforeDetection, Prefixed
<1>5. ~ Unreadable(file[p[1]]) /\ ~ Unreadable(file[p[2]])
  <2>1. \A k \in Places : Block!PrefixTerms(file[k], threshold) # {} => ~ Unreadable(file[k])
    BY DEF Block!PrefixTerms, Block!TermsOf, Unreadable, TermsOf
  <2>2. QED
    BY <1>1, <1>4, <2>1
<1>6. PICK t \in prefix[p[1]] : t \in prefix[p[2]]
  <2>1. \E t \in Block!PrefixTerms(file[p[1]], threshold) :
          t \in Block!PrefixTerms(file[p[2]], threshold)
    BY <1>1, <1>5, ClonesMeet
  <2>2. QED
    BY <1>1, <1>4, <2>1
<1>7. p[2] \in index[t]
  BY <1>1, <1>4, <1>6
<1>8. p \in DetectClones(p[1], prefix[p[1]])
  BY <1>1, <1>6, <1>7 DEF DetectClones
<1>9. detectQueue = {} /\ ~ WorksOn(indexer, p[1])
  BY <1>2 DEF Emptied, WorksOn, Terminated
<1>10. DetectClones(p[1], prefix[p[1]]) \subseteq Handed \cup outputQueue \cup FoundBy(detector)
  BY <1>1, <1>4, <1>9 DEF Delivery, Queried, Reported
<1>11. FoundBy(detector) = {}
  <2>1. \A w \in Workers : detector[w].todo = {}
    BY <1>2 DEF Terminated, TypeInv, TypeOK, Tasks
  <2>2. QED
    BY <2>1 DEF FoundBy
<1>12. QED
  BY <1>2, <1>8, <1>10, <1>11

(* A run whose writer has flushed has written every pair of clones among
   the blocks that no dying builder took along; after a flush that failed,
   which the writer reports as success, only pairs are missing that were in
   its buffer.                                                             *)
THEOREM ReportsAllClones == Spec => []AllClones
  BY AllWritten, DeliveryInvariant, FlowInvariant, StagedInvariant, TypeInvariant, PTL

-----------------------------------------------------------------------------
(* The frequencies of the terms.                                           *)

(* The blocks of which a term has been added to the GTF, if no builder has
   died.                                                                   *)
Counted(t) ==
  {k \in Places :
     /\ k < fed \/ (k = fed /\ main # "put")
     /\ k \notin inputQueue
     /\ \A w \in Workers : builder[w].pc = "work" /\ builder[w].block = k =>
          t \notin builder[w].todo}

Totals ==
  lost = {} =>
    \A t \in Terms : /\ IsFiniteSet(OccurrencesIn(t, Counted(t)))
                     /\ gtf[t] = Cardinality(OccurrencesIn(t, Counted(t)))

(* The builder that ends last leaves nothing in the input queue.           *)
Drained ==
  /\ lost = {} => \A w \in Workers : builder[w].pc # "dead"
  /\ (\E w \in Workers : builder[w].pc = "ended") => main \notin {"read", "put"}
  /\ lost = {} /\ Terminated(builder) => inputQueue = {}

LEMMA TotalsInit == Init => Totals /\ Drained
<1> SUFFICES ASSUME Init PROVE Totals /\ Drained
  OBVIOUS
<1>1. \A k \in Places : ~ (k < fed \/ k = fed)
  BY FilesAssumption DEF Init, Places
<1>2. \A t \in Terms : OccurrencesIn(t, Counted(t)) = {}
  BY <1>1 DEF Counted, OccurrencesIn
<1>3. Totals
  BY <1>2, FS_EmptySet DEF Init, Totals
<1>4. \A w \in Workers : builder[w].pc = "take"
  BY DEF Init, Taking
<1>5. Drained
  BY <1>4 DEF Init, Drained, Terminated
<1>6. QED
  BY <1>3, <1>5

(* A block without the term makes no difference to its frequency.          *)
LEMMA TotalsSame ==
  ASSUME TypeInv, Totals, UNCHANGED <<file, gtf>>, lost' = {} => lost = {},
         \A t \in Terms : \A k \in Places :
           (k \in Counted(t)' <=> k \in Counted(t)) \/ file[k].freq[t] = 0
  PROVE  Totals'
<1>1. SUFFICES ASSUME lost' = {}, NEW t \in Terms
               PROVE  OccurrencesIn(t, Counted(t))' = OccurrencesIn(t, Counted(t))
  BY DEF Totals
<1>2. PICK C, D : C = Counted(t) /\ D = Counted(t)'
  OBVIOUS
<1>3. C \subseteq Places /\ D \subseteq Places
  BY <1>2 DEF Counted, Places
<1>4. \A k \in Places : (k \in D <=> k \in C) \/ {k} \X (1 .. file[k].freq[t]) = {}
  <2>1. 1 .. 0 = {}
    OBVIOUS
  <2>2. QED
    BY <1>2, <2>1
<1>5. OccurrencesIn(t, D) = OccurrencesIn(t, C)
  BY <1>3, <1>4 DEF OccurrencesIn
<1>6. OccurrencesIn(t, Counted(t))' = OccurrencesIn(t, D)
  BY <1>2 DEF OccurrencesIn
<1>7. QED
  BY <1>2, <1>5, <1>6

LEMMA TotalsMain ==
  ASSUME TypeInv, Totals, Main \/ ReadFails \/ FinishFails
  PROVE  Totals'
<1> USE DEF inputVars, gtfVars, indexVars, outputVars
<1>1. UNCHANGED <<file, builder, gtf, lost>>
  BY DEF Main, Read, Put, ReadEnd, PoisonInput, StartIndexing, StartDetection,
         PoisonOutput, Finish, FinishFails, Save, ReadFails
<1>2. fed \in Nat /\ \A k \in Places : k \in Nat
  BY AllPlaces DEF Places
<1>3. \A k \in Places : /\ k < fed' \/ (k = fed' /\ main' # "put")
                        /\ k \notin inputQueue'
                    <=> /\ k < fed \/ (k = fed /\ main # "put")
                        /\ k \notin inputQueue
  <2>1. CASE Read
    BY <1>2, <2>1 DEF Read
  <2>2. CASE Put
    BY <1>2, <2>2 DEF Put
  <2>3. CASE ReadEnd \/ PoisonInput \/ StartIndexing \/ StartDetection \/ PoisonOutput
             \/ Finish \/ FinishFails \/ ReadFails
    BY <2>3 DEF ReadEnd, PoisonInput, PoisonOne, StartIndexing, StartDetection,
                PoisonOutput, Finish, FinishFails, Save, ReadFails
  <2>4. QED
    BY <2>1, <2>2, <2>3 DEF Main
<1>4. \A t \in Terms : \A k \in Places : k \in Counted(t)' <=> k \in Counted(t)
  BY <1>1, <1>3 DEF Counted, Places
<1>5. QED
  BY <1>1, <1>4, TotalsSame

LEMMA TotalsAdd ==
  ASSUME TypeInv, OnePlace, Totals, NEW w \in Workers, AddTerm(w)
  PROVE  Totals'
<1> USE DEF inputVars, gtfVars, indexVars, outputVars
<1>1. UNCHANGED <<file, main, fed, inputQueue, lost>> /\ Places' = Places
  BY DEF AddTerm, Places
<1>2. PICK stage, owner : InPlace(stage, owner)
  BY DEF OnePlace
<1>3. PICK k, u : k = builder[w].block /\ u \in builder[w].todo
                /\ gtf' = [gtf EXCEPT ![u] = gtf[u] + file[k].freq[u]]
                /\ builder' = [builder EXCEPT ![w].todo = builder[w].todo \ {u}]
  BY DEF AddTerm
<1>4. /\ builder \in [Workers -> Tasks \cup [pc : {"work"}, block : Places, todo : SUBSET Terms]]
      /\ gtf \in [Terms -> Nat]
  BY DEF TypeInv, TypeOK
<1>5. builder[w].pc = "work"
  BY DEF AddTerm
<1>6. /\ \A v \in Workers : /\ builder'[v].pc = builder[v].pc
                            /\ builder'[v].block = builder[v].block
      /\ \A v \in Workers : v # w => builder'[v].todo = builder[v].todo
      /\ builder'[w].todo = builder[w].todo \ {u}
  BY <1>3, <1>4, <1>5 DEF Tasks
<1>7. k \in Places /\ u \in Terms
  BY <1>3, <1>4, <1>5 DEF Tasks
<1>8. \A v \in Workers : builder[v].pc = "work" /\ builder[v].block = k => v = w
  BY <1>2, <1>3, <1>5 DEF InPlace
<1>9. k \notin inputQueue /\ (k < fed \/ (k = fed /\ main # "put"))
  <2>1. stage[k] = 2
    BY <1>2, <1>3, <1>5 DEF InPlace
  <2>2. k \notin inputQueue /\ ~ (k > fed \/ (k = fed /\ main = "put"))
    BY <1>2, <1>7, <2>1 DEF InPlace
  <2>3. k \in Nat /\ fed \in Nat
    BY <1>7, AllPlaces DEF Places
  <2>4. QED
    BY <2>2, <2>3
<1>10. k \notin Counted(u) /\ Counted(u)' = Counted(u) \cup {k}
  <2>1. k \notin Counted(u)
    BY <1>3, <1>5 DEF Counted
  <2>2. k \in Counted(u)'
    BY <1>1, <1>6, <1>7, <1>8, <1>9 DEF Counted
  <2>3. \A j \in Places : j # k => (j \in Counted(u)' <=> j \in Counted(u))
    BY <1>1, <1>3, <1>6 DEF Counted
  <2>4. Counted(u) \subseteq Places /\ Counted(u)' \subseteq Places
    BY <1>1 DEF Counted
  <2>5. QED
    BY <2>1, <2>2, <2>3, <2>4
<1>11. \A t \in Terms : t # u => Counted(t)' = Counted(t)
  BY <1>1, <1>6 DEF Counted
<1>12. SUFFICES ASSUME lost = {}, NEW t \in Terms
                PROVE  /\ IsFiniteSet(OccurrencesIn(t, Counted(t))')
                       /\ gtf'[t] = Cardinality(OccurrencesIn(t, Counted(t))')
  BY <1>1 DEF Totals
<1>13. PICK C, n : C = OccurrencesIn(t, Counted(t)) /\ n = file[k].freq[u]
  OBVIOUS
<1>14. IsFiniteSet(C) /\ gtf[t] = Cardinality(C)
  BY <1>12, <1>13 DEF Totals
<1>15. CASE t # u
  <2>1. OccurrencesIn(t, Counted(t))' = C
    BY <1>1, <1>11, <1>13, <1>15 DEF OccurrencesIn
  <2>2. gtf'[t] = gtf[t]
    BY <1>3, <1>4, <1>15
  <2>3. QED
    BY <1>14, <2>1, <2>2
<1>16. CASE t = u
  <2>1. PICK D : D = {k} \X (1 .. n)
    OBVIOUS
  <2>2. OccurrencesIn(t, Counted(t))' = C \cup D
    BY <1>1, <1>10, <1>13, <1>16, <2>1 DEF OccurrencesIn
  <2>3. C \cap D = {}
    BY <1>10, <1>13, <1>16, <2>1 DEF OccurrencesIn
  <2>4. n \in Nat
    BY <1>7, <1>13, FileRead
  <2>5. IsFiniteSet(D) /\ Cardinality(D) = n
    <3>1. 1 \in Int /\ n \in Int
      BY <2>4
    <3>2. IsFiniteSet(1 .. n) /\ Cardinality(1 .. n) = IF 1 > n THEN 0 ELSE n - 1 + 1
      BY <3>1, FS_Interval
    <3>3. (IF 1 > n THEN 0 ELSE n - 1 + 1) = n
      BY <2>4
    <3>4. IsFiniteSet({k}) /\ Cardinality({k}) = 1
      BY FS_Singleton
    <3>5. IsFiniteSet({k} \X (1 .. n)) /\ Cardinality({k} \X (1 .. n)) = 1 * Cardinality(1 .. n)
      <4>1. PICK K, N : K = {k} /\ N = 1 .. n
        OBVIOUS
      <4>2. IsFiniteSet(K) /\ IsFiniteSet(N)
        BY <3>2, <3>4, <4>1
      <4>3. IsFiniteSet(K \X N) /\ Cardinality(K \X N) = Cardinality(K) * Cardinality(N)
        BY ONLY <4>2, FS_Product
      <4>4. QED
        BY <3>4, <4>1, <4>3
    <3>6. 1 * n = n
      BY <2>4
    <3>7. QED
      BY <2>1, <3>2, <3>3, <3>5, <3>6
  <2>6. IsFiniteSet(C \cup D) /\ Cardinality(C \cup D) = Cardinality(C) + n
    <3>1. C \cap D = {} /\ Cardinality(C \cap D) = 0
      BY <2>3, FS_EmptySet
    <3>2. Cardinality(C) \in Nat
      BY <1>14, FS_CardinalityType
    <3>3. IsFiniteSet(C \cup D)
            /\ Cardinality(C \cup D) = Cardinality(C) + Cardinality(D) - Cardinality(C \cap D)
      BY <1>14, <2>5, FS_Union
    <3>4. QED
      BY <2>4, <2>5, <3>1, <3>2, <3>3
  <2>7. gtf'[t] = gtf[t] + n
    BY <1>3, <1>4, <1>13, <1>16
  <2>8. QED
    BY <1>14, <2>2, <2>6, <2>7
<1>17. QED
  BY <1>15, <1>16

LEMMA TotalsBuilder ==
  ASSUME TypeInv, OnePlace, Totals, NEW w \in Workers, Builder(w)
  PROVE  Totals'
<1> USE DEF inputVars, gtfVars, indexVars, outputVars
<1>1. UNCHANGED <<file, main, fed>> /\ Places' = Places
  BY DEF Builder, TakeInput, AddTerm, PutCounted, BuilderEnds, BuilderDies, Places
<1>2. builder \in [Workers -> Tasks \cup [pc : {"work"}, block : Places, todo : SUBSET Terms]]
  BY DEF TypeInv, TypeOK
<1>3. CASE TakeInput(w)
  <2>1. PICK k \in inputQueue :
          /\ inputQueue' = inputQueue \ {k}
          /\ builder' = [builder EXCEPT ![w] = At(k, TermsOf(file[k]))]
    BY <1>3 DEF TakeInput
  <2>2. UNCHANGED <<gtf, lost>> /\ builder[w].pc = "take"
    BY <1>3 DEF TakeInput
  <2>3. /\ builder'[w].pc = "work" /\ builder'[w].block = k /\ builder'[w].todo = TermsOf(file[k])
        /\ \A v \in Workers : v # w => builder'[v] = builder[v]
    BY <1>2, <2>1 DEF At
  <2>4. ASSUME NEW t \in Terms, NEW j \in Places
        PROVE  (j \in Counted(t)' <=> j \in Counted(t)) \/ file[j].freq[t] = 0
    <3>1. CASE j # k
      BY <1>1, <2>1, <2>2, <2>3, <3>1 DEF Counted
    <3>2. CASE j = k /\ file[j].freq[t] # 0
      <4>1. t \in builder'[w].todo
        BY <2>3, <3>2 DEF TermsOf
      <4>2. j \notin Counted(t)'
        BY <2>3, <3>2, <4>1 DEF Counted
      <4>3. j \notin Counted(t)
        BY <3>2 DEF Counted
      <4>4. QED
        BY <4>2, <4>3
    <3>3. QED
      BY <3>1, <3>2
  <2>5. QED
    BY <1>1, <2>2, <2>4, TotalsSame
<1>4. CASE PutCounted(w)
  <2>1. UNCHANGED <<inputQueue, gtf, lost>> /\ builder[w].todo = {}
    BY <1>4 DEF PutCounted
  <2>2. /\ builder'[w].pc = "take"
        /\ \A v \in Workers : v # w => builder'[v] = builder[v]
    BY <1>2, <1>4 DEF PutCounted, Taking
  <2>3. \A t \in Terms : \A k \in Places : k \in Counted(t)' <=> k \in Counted(t)
    BY <1>1, <2>1, <2>2 DEF Counted
  <2>4. QED
    BY <1>1, <2>1, <2>3, TotalsSame
<1>5. CASE BuilderEnds(w)
  <2>1. UNCHANGED <<inputQueue, gtf, lost>> /\ builder[w].pc = "take"
    BY <1>5 DEF BuilderEnds
  <2>2. /\ builder'[w].pc = "ended"
        /\ \A v \in Workers : v # w => builder'[v] = builder[v]
    BY <1>2, <1>5 DEF BuilderEnds, Ended
  <2>3. \A t \in Terms : \A k \in Places : k \in Counted(t)' <=> k \in Counted(t)
    BY <1>1, <2>1, <2>2 DEF Counted
  <2>4. QED
    BY <1>1, <2>1, <2>3, TotalsSame
<1>6. CASE BuilderDies(w)
  BY <1>6 DEF BuilderDies, Totals
<1>7. QED
  BY <1>3, <1>4, <1>5, <1>6, TotalsAdd DEF Builder

LEMMA TotalsStep == TypeInv /\ OnePlace /\ Totals /\ [Next]_vars => Totals'
<1> SUFFICES ASSUME TypeInv, OnePlace, Totals, [Next]_vars PROVE Totals'
  OBVIOUS
<1> USE DEF inputVars, gtfVars, indexVars, outputVars
<1>1. ASSUME UNCHANGED <<file, main, fed, inputQueue, builder, gtf, lost>> PROVE Totals'
  BY <1>1 DEF Totals, Counted, OccurrencesIn, Places
<1>2. CASE UNCHANGED vars
  BY <1>1, <1>2 DEF vars
<1>3. ASSUME NEW w \in Workers, Indexer(w) PROVE Totals'
  BY <1>1, <1>3 DEF Indexer, SkipSmall, SortAndPrefix, IndexTerm, PutIndexed, IndexerEnds
<1>4. ASSUME NEW w \in Workers, Detector(w) PROVE Totals'
  BY <1>1, <1>4 DEF Detector, Detect, PutClone, NextQuery, DetectorEnds
<1>5. CASE Writer \/ WriterFails
  BY <1>1, <1>5 DEF Writer, WriteClone, WriterEnds, WriterFails, WriteFails, FlushFails, Save
<1>6. QED
  BY <1>2, <1>3, <1>4, <1>5, TotalsMain, TotalsBuilder DEF Next, Step, Terminating

LEMMA DrainedStep == TypeInv /\ Drained /\ [Next]_vars => Drained'
<1> SUFFICES ASSUME TypeInv, Drained, [Next]_vars PROVE Drained'
  OBVIOUS
<1> USE DEF inputVars, gtfVars, indexVars, outputVars
<1>1. ASSUME UNCHANGED <<main, inputQueue, builder, lost>> PROVE Drained'
  BY <1>1 DEF Drained, Terminated
<1>2. CASE UNCHANGED vars
  BY <1>1, <1>2 DEF vars
<1>3. CASE Main \/ ReadFails \/ FinishFails
  <2>1. UNCHANGED <<builder, lost>> /\ (main' \in {"read", "put"} => main \in {"read", "put"})
    BY <1>3 DEF Main, Read, Put, ReadEnd, PoisonInput, PoisonOne, StartIndexing, StartDetection,
                PoisonOutput, Finish, FinishFails, Save, ReadFails
  <2>2. main \notin {"read", "put"} => inputQueue' = inputQueue
    BY <1>3 DEF Main, Read, Put, ReadEnd, PoisonInput, StartIndexing, StartDetection,
                PoisonOutput, Finish, FinishFails, Save, ReadFails
  <2>3. lost = {} /\ Terminated(builder) => main \notin {"read", "put"}
    BY PipelineAssumption DEF Drained, Terminated
  <2>4. QED
    BY <2>1, <2>2, <2>3 DEF Drained, Terminated
<1>4. ASSUME NEW w \in Workers, Builder(w) PROVE Drained'
  <2>1. /\ main' = main /\ (lost' = {} => lost = {}) /\ builder[w].pc \in {"take", "work"}
        /\ inputQueue' \subseteq inputQueue
    BY <1>4 DEF Builder, TakeInput, AddTerm, PutCounted, BuilderEnds, BuilderDies
  <2>2. builder \in [Workers -> Tasks \cup [pc : {"work"}, block : Places, todo : SUBSET Terms]]
    BY DEF TypeInv, TypeOK
  <2>3. CASE TakeInput(w) \/ AddTerm(w) \/ PutCounted(w)
    <3>1. /\ builder'[w].pc \in {"take", "work"}
          /\ \A v \in Workers : v # w => builder'[v] = builder[v]
      BY <2>2, <2>3 DEF TakeInput, AddTerm, PutCounted, At, Taking, Tasks
    <3>2. QED
      BY <2>1, <3>1 DEF Drained, Terminated
  <2>4. CASE BuilderEnds(w)
    <3>1. /\ builder'[w].pc = "ended"
          /\ \A v \in Workers : v # w => builder'[v] = builder[v]
      BY <2>2, <2>4 DEF BuilderEnds, Ended
    <3>2. main \notin {"read", "put"}
      <4>1. inputPoison.there > 0
        BY <2>4 DEF BuilderEnds, TakePoison
      <4>2. main \in {"read", "put"} => inputPoison.there = 0
        BY DEF TypeInv, Progress
      <4>3. ~ (0 > 0)
        OBVIOUS
      <4>4. QED
        BY <4>1, <4>2, <4>3
    <3>3. Terminated(builder)' => inputQueue' = {}
      <4>1. SUFFICES ASSUME Terminated(builder)' PROVE inputQueue = {}
        BY <2>4 DEF BuilderEnds
      <4>2. Others(builder, w) = {}
        BY <3>1, <4>1 DEF Others, Terminated
      <4>3. OnlyHeldBack(inputQueue, Others(builder, w))
        BY <2>4 DEF BuilderEnds, TakePoison
      <4>4. IsFiniteSet(inputQueue)
        <5>1. IsFiniteSet(Places)
          BY FileRead
        <5>2. inputQueue \in SUBSET Places
          BY AllPlaces
        <5>3. QED
          BY <5>1, <5>2, FS_Subset
      <4>5. QED
        BY <4>2, <4>3, <4>4, NothingHeldBack
    <3>4. QED
      BY <2>1, <3>1, <3>2, <3>3 DEF Drained
  <2>5. CASE BuilderDies(w)
    <3>1. lost' # {} /\ builder'[w].pc = "dead"
          /\ \A v \in Workers : v # w => builder'[v] = builder[v]
      BY <2>2, <2>5 DEF BuilderDies, Dead
    <3>2. QED
      BY <2>1, <3>1 DEF Drained
  <2>6. QED
    BY <1>4, <2>3, <2>4, <2>5 DEF Builder
<1>5. ASSUME NEW w \in Workers, Indexer(w) PROVE Drained'
  BY <1>1, <1>5 DEF Indexer, SkipSmall, SortAndPrefix, IndexTerm, PutIndexed, IndexerEnds
<1>6. ASSUME NEW w \in Workers, Detector(w) PROVE Drained'
  BY <1>1, <1>6 DEF Detector, Detect, PutClone, NextQuery, DetectorEnds
<1>7. CASE Writer \/ WriterFails
  BY <1>1, <1>7 DEF Writer, WriteClone, WriterEnds, WriterFails, WriteFails, FlushFails, Save
<1>8. QED
  BY <1>2, <1>3, <1>4, <1>5, <1>6, <1>7 DEF Next, Step, Terminating

LEMMA TotalsInvariant == Spec => [](Totals /\ Drained)
<1>1. Spec => []OnePlace
  BY OnePlaceInit, OnePlaceStep, TypeInvariant, PTL DEF Spec
<1>2. QED
  BY <1>1, TotalsInit, TotalsStep, DrainedStep, TypeInvariant, PTL DEF Spec

(* When sorting begins, the frequency of every term is how many occurrences
   the file has of it: no addition of concurrent builders is lost, unless a
   builder dies.                                                           *)
THEOREM CountsEveryOccurrence == Spec => []AllCounted
<1>1. TypeInv /\ Staged /\ Flow /\ Totals /\ Drained => AllCounted
  <2>1. SUFFICES ASSUME TypeInv, Staged, Flow, Totals, Drained,
                        main = "join indexers", lost = {}, NEW t \in Terms
                 PROVE  Counted(t) = Places
    BY DEF AllCounted, Totals
  <2>2. Terminated(builder) /\ inputQueue = {}
    BY <2>1 DEF Staged, BeforeIndexing, Drained
  <2>3. fed = Len(file) /\ Len(file) \in Nat
    BY <2>1, AllPlaces DEF Flow, AllFed
  <2>4. \A k \in Places : k < fed \/ k = fed
    BY <2>3 DEF Places
  <2>5. QED
    BY <2>1, <2>2, <2>4 DEF Counted, Terminated
<1>2. QED
  BY <1>1, TotalsInvariant, FlowInvariant, StagedInvariant, TypeInvariant, PTL
=============================================================================
