------------------------- MODULE SelfCloneDetection -------------------------
(***************************************************************************)
(* detection.logic.SelfCloneDetection: the pipeline of clone detection.    *)
(* The main thread reads the block file and starts, feeds, poisons and     *)
(* joins one stage after the other: the GTF builders, the indexers, the    *)
(* detectors and the writer of clones.                                     *)
(*                                                                         *)
(* The queues between the stages are channels (GroupQueue implements       *)
(* Channel): a set of elements, taken in any order, closed by the poison   *)
(* that main sends.  A thread that dies takes along the group it is        *)
(* handing out and the group it is filling, of GroupSize elements at most. *)
(***************************************************************************)
EXTENDS Naturals, Sequences, FiniteSets, Functions

CONSTANTS
  Terms,           (* the terms of the source code                          *)
  TermOrder,       (* TermOrder[t]: place of t in String.compareTo, from 0  *)
  MaxTokens,       (* bound: how many tokens a block has at most            *)
  Files,           (* the block files there may be: sequences of blocks     *)
  threshold,       (* sim, see Blocks                                       *)
  MinLines, MaxLines, MinTokens, MaxTokensAllowed,   (* 0: no upper limit   *)
  Workers,         (* the threads of each stage                             *)
  InputCapacity,   (* elements that Q_input_gtf holds                       *)
  OutputCapacity,  (* elements that Q_detection_output holds                *)
  GroupSize,       (* of the queues                                         *)
  Faults           (* which I/O may fail: "read", "write"                   *)

ASSUME PipelineAssumption ==
  /\ IsFiniteSet(Workers) /\ Workers # {}
  /\ InputCapacity \in Nat \ {0}
  /\ OutputCapacity \in Nat \ {0}
  /\ GroupSize \in Nat \ {0}
  /\ Faults \subseteq {"read", "write"}

ASSUME FilesAssumption ==
  \A f \in Files :
    /\ Len(f) \in Nat /\ DOMAIN f = 1 .. Len(f)
    /\ \A k \in 1 .. Len(f) : f[k].freq \in [Terms -> Nat]

VARIABLES
  file,            (* the blocks of the input file, in order                *)
  main,            (* what the main thread does next                        *)
  fed,             (* how many blocks main has read                         *)
  inputQueue,      (* Q_input_gtf: blocks, by their place in the file       *)
  inputPoison,     (* its poisons: [left |-> to put, there |-> in the queue]*)
  builder,         (* the GTFBuilder threads                                *)
  gtf,             (* the global term frequencies                           *)
  gtfQueue,        (* Q_gtf_indexer, by the builder that has put the block  *)
  indexer,         (* the BlockIndexer threads                              *)
  prefix,          (* prefix[k]: prefix terms of the k-th block, {} until
                      it is sorted and prefixed                             *)
  index,           (* index[t]: the blocks indexed under t                  *)
  detectQueue,     (* Q_indexer_detection                                   *)
  detector,        (* the CloneDetection threads                            *)
  outputQueue,     (* Q_detection_output: pairs of blocks                   *)
  writer,          (* the CloneWriter thread                                *)
  buffer,          (* the pairs that its BufferedWriter holds               *)
  written,         (* the pairs in the clone file                           *)
  lost             (* history: blocks a dying builder has taken along       *)

inputVars  == <<fed, inputQueue, inputPoison>>
gtfVars    == <<builder, gtf>>
indexVars  == <<indexer, prefix, index>>
outputVars == <<writer, buffer, written>>
vars == <<file, main, inputVars, builder, gtf, gtfQueue, indexer, prefix, index,
          detectQueue, detector, outputQueue, writer, buffer, written, lost>>

(* A thread is not started, taking from its queue, at work on a block with
   something still to do for it, at its end, or killed by an exception.    *)
Waiting    == [pc |-> "wait", block |-> 0, todo |-> {}]
Taking     == [pc |-> "take", block |-> 0, todo |-> {}]
Ended      == [pc |-> "ended", block |-> 0, todo |-> {}]
Dead       == [pc |-> "dead", block |-> 0, todo |-> {}]
At(k, S)   == [pc |-> "work", block |-> k, todo |-> S]
Terminated(threads) == \A w \in Workers : threads[w].pc \in {"ended", "dead"}

(* A thread that takes poison leaves in the queue no more than the groups
   that the other threads are handing out.                                 *)
Others(threads, w) == {v \in Workers \ {w} : threads[v].pc \notin {"ended", "dead"}}
OnlyHeldBack(queue, others) ==
  Cardinality(queue) <= (GroupSize - 1) * Cardinality(others)

Init ==
  /\ file \in Files
  /\ main = "read"
  /\ fed = 0
  /\ inputQueue = {}
  /\ inputPoison = [left |-> Cardinality(Workers), there |-> 0]
  /\ builder = [w \in Workers |-> Taking]
  /\ gtf = [t \in Terms |-> 0]
  /\ gtfQueue = [w \in Workers |-> {}]
  /\ indexer = [w \in Workers |-> Waiting]
  /\ prefix = [k \in 1 .. Len(file) |-> {}]
  /\ index = [t \in Terms |-> {}]
  /\ detectQueue = {}
  /\ detector = [w \in Workers |-> Waiting]
  /\ outputQueue = {}
  /\ writer = "wait"
  /\ buffer = {}
  /\ written = {}
  /\ lost = {}

-----------------------------------------------------------------------------
(* The main thread.                                                        *)

(* Mutant: a writer that failed does not count as one that has ended.      *)
WriterSucceeded == {"ended", "unflushed"}

(* What join() waits for: the CloneWriter has returned, with the exit status
   0 if it has come to the end of run(), whether flushed or not.           *)
WriterOver == {"ended", "unflushed", "failed"}


HasRoom(queue, capacity) == Cardinality(queue) < capacity

InputRoom == Cardinality(inputQueue) + inputPoison.there < InputCapacity

(* Mutant: the loop does not notice the end of the file at once.           *)
ReadOneMore ==
  /\ main = "read"
  /\ fed <= Len(file)
  /\ fed' = fed + 1
  /\ main' = "put"
  /\ UNCHANGED <<file, inputQueue, inputPoison, gtfVars, gtfQueue, indexVars, detectQueue,
                 detector, outputQueue, outputVars, lost>>

(* nextInputBlockString.                                                   *)
Read ==
  /\ main = "read"
  /\ fed < Len(file)
  /\ fed' = fed + 1
  /\ main' = "put"
  /\ UNCHANGED <<file, inputQueue, inputPoison, gtfVars, gtfQueue, indexVars, detectQueue,
                 detector, outputQueue, outputVars, lost>>

Put ==
  /\ main = "put"
  /\ InputRoom
  /\ inputQueue' = inputQueue \cup {fed}
  /\ main' = "read"
  /\ UNCHANGED <<file, fed, inputPoison, gtfVars, gtfQueue, indexVars, detectQueue, detector,
                 outputQueue, outputVars, lost>>

(* detect throws; nobody will feed, poison or join the builders.           *)
ReadFails ==
  /\ main = "read"
  /\ "read" \in Faults
  /\ main' = "failed"
  /\ UNCHANGED <<file, inputVars, gtfVars, gtfQueue, indexVars, detectQueue,
                 detector, outputQueue, outputVars, lost>>

(* The end of the file: flush, and then poisonReceivers.                   *)
ReadEnd ==
  /\ main = "read"
  /\ fed = Len(file)
  /\ main' = "poison"
  /\ UNCHANGED <<file, inputVars, gtfVars, gtfQueue, indexVars, detectQueue,
                 detector, outputQueue, outputVars, lost>>

(* poisonReceivers: one for each thread at the other end.                  *)
PoisonOne(next) ==
  /\ main = "poison"
  /\ InputRoom
  /\ inputPoison' = [left |-> inputPoison.left - 1, there |-> inputPoison.there + 1]
  /\ main' = IF inputPoison.left = 1 THEN next ELSE main

PoisonInput ==
  /\ PoisonOne("join builders")
  /\ UNCHANGED <<file, fed, inputQueue, gtfVars, gtfQueue, indexVars, detectQueue,
                 detector, outputQueue, outputVars, lost>>

(* Mutant: the builders are not joined.                                    *)
StartIndexingUnjoined ==
  /\ main = "join builders"
  /\ main' = "join indexers"
  /\ indexer' = [w \in Workers |-> Taking]
  /\ UNCHANGED <<file, inputVars, gtfVars, gtfQueue, prefix, index, detectQueue,
                 detector, outputQueue, outputVars, lost>>

StartIndexing ==
  /\ main = "join builders"
  /\ Terminated(builder)
  /\ main' = "join indexers"
  /\ indexer' = [w \in Workers |-> Taking]
  /\ UNCHANGED <<file, inputVars, gtfVars, gtfQueue, prefix, index, detectQueue,
                 detector, outputQueue, outputVars, lost>>

(* Mutant: the indexers are not joined.                                    *)
StartDetectionUnjoined ==
  /\ main = "join indexers"
  /\ main' = "join detectors"
  /\ detector' = [w \in Workers |-> Taking]
  /\ writer' = "take"
  /\ UNCHANGED <<file, inputVars, gtfVars, gtfQueue, indexVars, detectQueue,
                 outputQueue, buffer, written, lost>>

StartDetection ==
  /\ main = "join indexers"
  /\ Terminated(indexer)
  /\ main' = "join detectors"
  /\ detector' = [w \in Workers |-> Taking]
  /\ writer' = "take"
  /\ UNCHANGED <<file, inputVars, gtfVars, gtfQueue, indexVars, detectQueue,
                 outputQueue, buffer, written, lost>>

(* Mutant: the writer is joined before it is poisoned.                     *)
PoisonOutputJoined ==
  /\ main = "join detectors"
  /\ Terminated(detector)
  /\ writer \in WriterOver
  /\ HasRoom(outputQueue, OutputCapacity)
  /\ main' = "join writer"
  /\ UNCHANGED <<file, inputVars, gtfVars, gtfQueue, indexVars, detectQueue,
                 detector, outputQueue, outputVars, lost>>

PoisonOutput ==
  /\ main = "join detectors"
  /\ Terminated(detector)
  /\ HasRoom(outputQueue, OutputCapacity)
  /\ main' = "join writer"
  /\ UNCHANGED <<file, inputVars, gtfVars, gtfQueue, indexVars, detectQueue,
                 detector, outputQueue, outputVars, lost>>

(* What the buffers have let through to the file.                          *)
Save(part) ==
  /\ written' = written \cup part
  /\ buffer' = buffer \ part

(* The exit status of the writer is not looked at.  There is only something
   left to flush() if the writer has failed to write it; the FileWriter may
   have dropped it then, and flush() and close() succeed.                  *)
Finish ==
  /\ main = "join writer"
  /\ writer \in WriterOver
  /\ main' = "done"
  /\ \E part \in SUBSET buffer : Save(part)
  /\ UNCHANGED <<file, inputVars, gtfVars, gtfQueue, indexVars, detectQueue,
                 detector, outputQueue, writer, lost>>

(* flush() or close() throws out of detect.                                *)
FinishFails ==
  /\ main = "join writer"
  /\ writer \in WriterOver
  /\ "write" \in Faults
  /\ main' = "unclosed"
  /\ \E part \in SUBSET buffer : Save(part)
  /\ UNCHANGED <<file, inputVars, gtfVars, gtfQueue, indexVars, detectQueue,
                 detector, outputQueue, writer, lost>>

Main ==
  \/ Read \/ Put \/ ReadEnd \/ PoisonInput
  \/ StartIndexing \/ StartDetection \/ PoisonOutput \/ Finish

(* Main has put the poison for the writer.                                 *)
OutputClosed == main = "join writer"

-----------------------------------------------------------------------------
(* GTFBuilder.run.                                                         *)

TermsOf(b) == {t \in Terms : b.freq[t] # 0}

(* InputBlock.readDetectionBlock throws: the last of the lines after the
   header is taken for a term even if it is empty.                         *)
Unreadable(b) == TermsOf(b) = {}

TakeInput(w) ==
  /\ builder[w].pc = "take"
  /\ \E k \in inputQueue :
       /\ ~ Unreadable(file[k])
       /\ inputQueue' = inputQueue \ {k}
       /\ builder' = [builder EXCEPT ![w] = At(k, TermsOf(file[k]))]
  /\ UNCHANGED <<file, main, fed, inputPoison, gtf, gtfQueue, indexVars, detectQueue, detector,
                 outputQueue, outputVars, lost>>

(* Mutant: get and put instead of putIfAbsent: what another builder has put
   in between, the first of this term, is lost.                            *)
AddTermUnlocked(w) ==
  /\ builder[w].pc = "work"
  /\ \E t \in builder[w].todo, others \in {TRUE, FALSE} :
       /\ others => \E v \in Workers \ {w} : builder[v].pc = "work"
       /\ gtf' = [gtf EXCEPT ![t] = (IF others THEN 0 ELSE @) + file[builder[w].block].freq[t]]
       /\ builder' = [builder EXCEPT ![w].todo = @ \ {t}]
  /\ UNCHANGED <<file, main, inputVars, gtfQueue, indexVars, detectQueue, detector,
                 outputQueue, outputVars, lost>>

(* gtf.add: putIfAbsent, or else addAndGet.  Each of them is atomic, and a
   term that is in the map stays in it, so that nothing another builder does
   between them makes a difference.                                        *)
AddTerm(w) ==
  /\ builder[w].pc = "work"
  /\ \E t \in builder[w].todo :
       /\ gtf' = [gtf EXCEPT ![t] = @ + file[builder[w].block].freq[t]]
       /\ builder' = [builder EXCEPT ![w].todo = @ \ {t}]
  /\ UNCHANGED <<file, main, inputVars, gtfQueue, indexVars, detectQueue, detector,
                 outputQueue, outputVars, lost>>

PutCounted(w) ==
  /\ builder[w].pc = "work"
  /\ builder[w].todo = {}
  /\ gtfQueue' = [gtfQueue EXCEPT ![w] = @ \cup {builder[w].block}]
  /\ builder' = [builder EXCEPT ![w] = Taking]
  /\ UNCHANGED <<file, main, inputVars, gtf, indexVars, detectQueue, detector,
                 outputQueue, outputVars, lost>>

TakePoison(threads, w) ==
  /\ inputPoison.there > 0
  /\ OnlyHeldBack(inputQueue, Others(threads, w))
  /\ inputPoison' = [inputPoison EXCEPT !.there = @ - 1]

BuilderEnds(w) ==
  /\ builder[w].pc = "take"
  /\ TakePoison(builder, w)
  /\ builder' = [builder EXCEPT ![w] = Ended]
  /\ UNCHANGED <<file, main, fed, inputQueue, gtf, gtfQueue, indexVars, detectQueue,
                 detector, outputQueue, outputVars, lost>>

(* The exception of a block that cannot be read ends the thread without
   flush(): the rest of the group it has taken and the group it has not yet
   put are gone.                                                           *)
BuilderDies(w) ==
  /\ builder[w].pc = "take"
  /\ \E k \in inputQueue :
     \E heldBack \in SUBSET (inputQueue \ {k}), buffered \in SUBSET gtfQueue[w] :
       /\ Unreadable(file[k])
       /\ Cardinality(heldBack) < GroupSize
       /\ Cardinality(buffered) <= GroupSize
       /\ inputQueue' = inputQueue \ ({k} \cup heldBack)
       /\ gtfQueue' = [gtfQueue EXCEPT ![w] = @ \ buffered]
       /\ lost' = lost \cup {k} \cup heldBack \cup buffered
  /\ builder' = [builder EXCEPT ![w] = Dead]
  /\ UNCHANGED <<file, main, fed, inputPoison, gtf, indexVars, detectQueue, detector,
                 outputQueue, outputVars>>

Builder(w) ==
  TakeInput(w) \/ AddTerm(w) \/ PutCounted(w) \/ BuilderEnds(w) \/ BuilderDies(w)

-----------------------------------------------------------------------------
(* BlockIndexer.run.                                                       *)

(* GTFTermFreqComparator: the rare terms first.                            *)
SortRank == [t \in Terms |-> gtf[t] * Cardinality(Terms) + TermOrder[t]]

Block == INSTANCE Blocks WITH Rank <- SortRank

(* cwdetect takes a sim from 0 to 1 only; a block that readDetectionBlock
   returns has a term.  The terms that are equally frequent go by name.    *)
ASSUME BlocksAssumption ==
  /\ IsFiniteSet(Terms)
  /\ TermOrder \in [Terms -> 0 .. (Cardinality(Terms) - 1)]
  /\ \A t, u \in Terms : TermOrder[t] = TermOrder[u] => t = u
  /\ MaxTokens \in Nat
  /\ Block!IsThreshold(threshold)
  /\ \A f \in Files : \A k \in 1 .. Len(f) : Unreadable(f[k]) \/ Block!IsBlock(f[k])

NoMore(limit, n) == limit = 0 \/ n <= limit

(* SizeRequirements.approve.                                               *)
Approved(b) ==
  LET lines == b.end - b.start + 1
  IN  /\ b.original >= MinTokens /\ NoMore(MaxTokensAllowed, b.original)
      /\ lines >= MinLines /\ NoMore(MaxLines, lines)

ToIndex == UNION {gtfQueue[w] : w \in Workers}
Removed(k) == [w \in Workers |-> gtfQueue[w] \ {k}]

SkipSmall(w) ==
  /\ indexer[w].pc = "take"
  /\ \E k \in ToIndex :
       /\ ~ Approved(file[k])
       /\ gtfQueue' = Removed(k)
  /\ UNCHANGED <<file, main, inputVars, gtfVars, indexVars, detectQueue, detector,
                 outputQueue, outputVars, lost>>

SortAndPrefix(w) ==
  /\ indexer[w].pc = "take"
  /\ \E k \in ToIndex :
       /\ Approved(file[k])
       /\ gtfQueue' = Removed(k)
       /\ prefix' = [prefix EXCEPT ![k] = Block!PrefixTerms(file[k], threshold)]
       /\ indexer' = [indexer EXCEPT ![w] = At(k, prefix'[k])]
  /\ UNCHANGED <<file, main, inputVars, gtfVars, index, detectQueue, detector,
                 outputQueue, outputVars, lost>>

IndexTerm(w) ==
  /\ indexer[w].pc = "work"
  /\ \E t \in indexer[w].todo :
       /\ index' = [index EXCEPT ![t] = @ \cup {indexer[w].block}]
       /\ indexer' = [indexer EXCEPT ![w].todo = @ \ {t}]
  /\ UNCHANGED <<file, main, inputVars, gtfVars, gtfQueue, prefix, detectQueue,
                 detector, outputQueue, outputVars, lost>>

PutIndexed(w) ==
  /\ indexer[w].pc = "work"
  /\ indexer[w].todo = {}
  /\ detectQueue' = detectQueue \cup {indexer[w].block}
  /\ indexer' = [indexer EXCEPT ![w] = Taking]
  /\ UNCHANGED <<file, main, inputVars, gtfVars, gtfQueue, prefix, index, detector,
                 outputQueue, outputVars, lost>>

IndexerEnds(w) ==
  /\ indexer[w].pc = "take"
  /\ OnlyHeldBack(ToIndex, Others(indexer, w))
  /\ indexer' = [indexer EXCEPT ![w] = Ended]
  /\ UNCHANGED <<file, main, inputVars, gtfVars, gtfQueue, prefix, index,
                 detectQueue, detector, outputQueue, outputVars, lost>>

Indexer(w) ==
  SkipSmall(w) \/ SortAndPrefix(w) \/ IndexTerm(w) \/ PutIndexed(w) \/ IndexerEnds(w)

-----------------------------------------------------------------------------
(* CloneDetection.run.                                                     *)

(* HeuristicCloneDetector.detectClones, as proved of it.                   *)
DetectClones(k, terms) ==
  {<<k, c>> : c \in {d \in UNION {index[t] : t \in terms} :
                       Block!ClonePair(file[k], file[d], threshold)}}

(* Mutant: the query stays in the queue.                                   *)
DetectPeeking(w) ==
  /\ detector[w].pc = "take"
  /\ \E k \in detectQueue :
       detector' = [detector EXCEPT ![w] = At(k, DetectClones(k, prefix[k]))]
  /\ UNCHANGED <<file, main, inputVars, gtfVars, gtfQueue, indexVars, detectQueue,
                 outputQueue, outputVars, lost>>

Detect(w) ==
  /\ detector[w].pc = "take"
  /\ \E k \in detectQueue :
       /\ detectQueue' = detectQueue \ {k}
       /\ detector' = [detector EXCEPT ![w] = At(k, DetectClones(k, prefix[k]))]
  /\ UNCHANGED <<file, main, inputVars, gtfVars, gtfQueue, indexVars, outputQueue,
                 outputVars, lost>>

PutClone(w) ==
  /\ detector[w].pc = "work"
  /\ HasRoom(outputQueue, OutputCapacity)
  /\ \E pair \in detector[w].todo :
       /\ outputQueue' = outputQueue \cup {pair}
       /\ detector' = [detector EXCEPT ![w].todo = @ \ {pair}]
  /\ UNCHANGED <<file, main, inputVars, gtfVars, gtfQueue, indexVars, detectQueue,
                 outputVars, lost>>

NextQuery(w) ==
  /\ detector[w].pc = "work"
  /\ detector[w].todo = {}
  /\ detector' = [detector EXCEPT ![w] = Taking]
  /\ UNCHANGED <<file, main, inputVars, gtfVars, gtfQueue, indexVars, detectQueue,
                 outputQueue, outputVars, lost>>

DetectorEnds(w) ==
  /\ detector[w].pc = "take"
  /\ OnlyHeldBack(detectQueue, Others(detector, w))
  /\ detector' = [detector EXCEPT ![w] = Ended]
  /\ UNCHANGED <<file, main, inputVars, gtfVars, gtfQueue, indexVars, detectQueue,
                 outputQueue, outputVars, lost>>

Detector(w) == Detect(w) \/ PutClone(w) \/ NextQuery(w) \/ DetectorEnds(w)

-----------------------------------------------------------------------------
(* CloneWriter.run.                                                        *)

(* The clone is kept in the buffer, or everything goes through to the file
   because the buffer is full.                                             *)
WriteClone ==
  /\ writer = "take"
  /\ \E pair \in outputQueue : \E through \in {{}, buffer \cup {pair}} :
       /\ outputQueue' = outputQueue \ {pair}
       /\ written' = written \cup through
       /\ buffer' = (buffer \cup {pair}) \ through
  /\ UNCHANGED <<file, main, inputVars, gtfVars, gtfQueue, indexVars, detectQueue,
                 detector, writer, lost>>

WriterEnds ==
  /\ writer = "take"
  /\ OutputClosed
  /\ outputQueue = {}
  /\ writer' = "ended"
  /\ Save(buffer)
  /\ UNCHANGED <<file, main, inputVars, gtfVars, gtfQueue, indexVars, detectQueue,
                 detector, outputQueue, lost>>

(* The exception of flush() is caught, but run goes on: exit status 0, and
   "Success."                                                              *)
FlushFails ==
  /\ writer = "take"
  /\ "write" \in Faults
  /\ OutputClosed
  /\ outputQueue = {}
  /\ writer' = "unflushed"
  /\ \E part \in SUBSET buffer : Save(part)
  /\ UNCHANGED <<file, main, inputVars, gtfVars, gtfQueue, indexVars, detectQueue,
                 detector, outputQueue, lost>>

(* Mutant: the thread passes for one that has written everything.          *)
WriteFailsUnnoticed ==
  /\ writer = "take"
  /\ "write" \in Faults
  /\ \E gone \in SUBSET outputQueue :
       /\ Cardinality(gone) \in 1 .. GroupSize
       /\ outputQueue' = outputQueue \ gone
  /\ writer' = "ended"
  /\ Save(buffer)
  /\ UNCHANGED <<file, main, inputVars, gtfVars, gtfQueue, indexVars, detectQueue,
                 detector, lost>>

(* run returns: the clone is gone, the rest of its group is never written,
   and nothing more is taken from the queue.                               *)
WriteFails ==
  /\ writer = "take"
  /\ "write" \in Faults
  /\ \E gone \in SUBSET outputQueue :
       /\ Cardinality(gone) \in 1 .. GroupSize
       /\ outputQueue' = outputQueue \ gone
  /\ writer' = "failed"
  /\ \E part \in SUBSET buffer : Save(part)
  /\ UNCHANGED <<file, main, inputVars, gtfVars, gtfQueue, indexVars, detectQueue,
                 detector, lost>>

Writer == WriteClone \/ WriterEnds

WriterFails == WriteFails \/ FlushFails

-----------------------------------------------------------------------------
Step ==
  \/ Main
  \/ ReadFails \/ FinishFails
  \/ \E w \in Workers : Builder(w) \/ Indexer(w) \/ Detector(w)
  \/ Writer
  \/ WriterFails

Terminating == main = "done" /\ UNCHANGED vars

Next == Step \/ Terminating

(* The scheduler starves no runnable thread.                               *)
Fairness ==
  /\ WF_vars(Main)
  /\ \A w \in Workers :
       WF_vars(Builder(w)) /\ WF_vars(Indexer(w)) /\ WF_vars(Detector(w))
  /\ WF_vars(Writer)

Spec == Init /\ [][Next]_vars /\ Fairness

-----------------------------------------------------------------------------
(* Properties.                                                             *)

Places  == 1 .. Len(file)
Pairs   == Places \X Places
Tasks   == [pc : {"wait", "take", "ended", "dead"}, block : {0}, todo : {{}}]

(* The types of the variables.                                             *)
TypeOK ==
  /\ main \in {"read", "put", "poison", "join builders", "join indexers",
               "join detectors", "join writer", "done", "failed", "unclosed"}
  /\ fed \in 0 .. Len(file)
  /\ inputQueue \subseteq Places
  /\ inputPoison \in [left : 0 .. Cardinality(Workers), there : 0 .. Cardinality(Workers)]
  /\ builder \in [Workers -> Tasks \cup [pc : {"work"}, block : Places, todo : SUBSET Terms]]
  /\ gtf \in [Terms -> Nat]
  /\ gtfQueue \in [Workers -> SUBSET Places]
  /\ indexer \in [Workers -> Tasks \cup [pc : {"work"}, block : Places, todo : SUBSET Terms]]
  /\ prefix \in [Places -> SUBSET Terms]
  /\ index \in [Terms -> SUBSET Places]
  /\ detectQueue \subseteq Places
  /\ detector \in [Workers -> Tasks \cup [pc : {"work"}, block : Places, todo : SUBSET Pairs]]
  /\ outputQueue \subseteq Pairs
  /\ writer \in {"wait", "take"} \cup WriterOver
  /\ buffer \subseteq Pairs /\ written \subseteq Pairs
  /\ lost \subseteq Places

(* GTFTermFreqComparator, "Only use on a GTF no longer being modified":
   once the first indexer may sort, no term frequency changes.             *)
SortedOnStableGTF ==
  [][(\E w \in Workers : indexer[w].pc # "wait") => gtf' = gtf]_vars

(* The builders' concurrent additions are all there when sorting begins:
   the frequency of a term is how many occurrences the file has of it.     *)
OccurrencesIn(t, K) == UNION {{k} \X (1 .. file[k].freq[t]) : k \in K}

AllCounted ==
  main = "join indexers" /\ lost = {} =>
    \A t \in Terms : gtf[t] = Cardinality(OccurrencesIn(t, Places))

(* A detector never queries an index that is still growing: every approved
   block that a builder has passed on is already in it, under all its
   prefix terms.                                                           *)
IndexedBeforeDetection ==
  (\E w \in Workers : detector[w].pc # "wait") =>
    \A k \in Places \ (lost \cup inputQueue) : Approved(file[k]) =>
      /\ prefix[k] # {}
      /\ \A t \in prefix[k] : k \in index[t]

(* The pairs a run should report, of the blocks in K.                      *)
ClonesAmong(K) ==
  LET approved == {k \in K : Approved(file[k])}
  IN  {p \in approved \X approved :
         Block!ClonePair(file[p[1]], file[p[2]], threshold)}

(* What the writer has been given.                                         *)
Handed == buffer \cup written

(* A clone that has been detected is in one place: with the detector that
   found it, in the output queue, in the writer's buffer or in the file.   *)
ReportedOnce ==
  /\ buffer \cap written = {}
  /\ Handed \cap outputQueue = {}
  /\ \A w \in Workers :
       /\ detector[w].todo \cap (Handed \cup outputQueue) = {}
       /\ \A v \in Workers \ {w} : detector[v].todo \cap detector[w].todo = {}

(* A run that comes to its end has written every pair of clones, except
   pairs with a block that a dying builder took along or that was left in
   the queue when all of them had died: a GTF with some blocks missing costs
   no other clone.  If the writer's flush() has failed, which is reported as
   success, all that is missing was in its buffer then; and nothing is
   promised of a writer that failed before.  (At a sim of 0, blocks that have
   nothing in common are not candidates.)                                  *)
AllClones ==
  main = "done" /\ Block!IsPositive(threshold) =>
    LET clones == ClonesAmong(Places \ (lost \cup inputQueue))
    IN  /\ writer = "ended" => clones \subseteq written
        /\ writer = "unflushed" => clones \subseteq Handed

(* detect returns, if all I/O succeeds and no thread dies.                 *)
NothingFails ==
  /\ main \notin {"failed", "unclosed"}
  /\ writer # "failed"
  /\ \A w \in Workers : "dead" \notin {builder[w].pc, indexer[w].pc, detector[w].pc}

Terminates == []NothingFails => <>(main = "done")

(* A run that cannot go on is one that has ended, whose reader or last
   flush failed, whose builders have all died with the input queue full, or
   whose writer died with the output queue full.                           *)
HangsOnlyAfterFault ==
  \/ ENABLED Step
  \/ main \in {"done", "failed", "unclosed"}
  \/ main \in {"put", "poison"} /\ ~ InputRoom /\ Terminated(builder)
  \/ writer = "failed" /\ ~ HasRoom(outputQueue, OutputCapacity)
=============================================================================
