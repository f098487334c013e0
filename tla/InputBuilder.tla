---------------------------- MODULE InputBuilder ----------------------------
(***************************************************************************)
(* input.logic.InputBuilder.parse: one thread finds the source files,      *)
(* gives them ids and writes the file of ids; some threads turn files into *)
(* blocks; one thread gives the blocks their ids and writes them.  The     *)
(* main thread joins and poisons one after the other.                      *)
(*                                                                         *)
(* The queues are channels, as in SelfCloneDetection.  Blocks come from an *)
(* emitter in the order they were put, so a queue of blocks is kept as one *)
(* sequence for each worker.                                               *)
(***************************************************************************)
EXTENDS Naturals, Sequences, FiniteSets, FiniteSetsExt, SequencesExt, LanguageConstants

CONSTANTS
  Listings,        (* the files there may be, in the order they are found   *)
  FromRoot,        (* TRUE: a directory, FALSE: a file with a list of paths *)
  Languages,       (* -l                                                    *)
  MinLines, MaxLines, MinTokens, MaxTokens,   (* -mil -mal -mit -mat        *)
  Workers,         (* the FileConsumer_BlockProducer threads                *)
  FileCapacity,    (* elements that file_queue holds                        *)
  BlockCapacity,   (* elements that block_queue holds                       *)
  GroupSize,       (* of the queues                                         *)
  Faults           (* which I/O may fail: "read", "write"                   *)

(* TempBlock, where left is how many terms the term processors leave, and
   InputFile with what its chain of transformations puts out.              *)
Fragments == [start : Nat, end : Nat, original : Nat, left : Nat]
Sources   == [suffix : NameEnds, output : {"ok", "failed", "garbled"},
              blocks : Seq(Fragments)]

ASSUME InputAssumption ==
  /\ IsFiniteSet(Workers) /\ Workers # {}
  /\ FromRoot \in BOOLEAN
  /\ Languages \subseteq AllLanguages
  /\ Listings \subseteq Seq(Sources)
  /\ FileCapacity \in Nat \ {0}
  /\ BlockCapacity \in Nat \ {0}
  /\ GroupSize \in Nat \ {0}
  /\ Faults \subseteq {"read", "write"}

VARIABLES
  listing,         (* the files, see MCInputBuilder                         *)
  main,            (* what the main thread does next                        *)
  producer,        (* what the FileProducer does next                       *)
  visited,         (* how many files it has come to                         *)
  fileids,         (* the file of ids: fileids[i] is the place in listing
                      of the file with the id i - 1                         *)
  fileQueue,       (* the ids in file_queue                                 *)
  filePoison,      (* poisons: [left |-> to be put, there |-> in the queue] *)
  worker,          (* the FileConsumer_BlockProducer threads                *)
  blockQueue,      (* block_queue, by the worker that has put the block     *)
  writer,          (* what the BlockConsumer_BlockWriter does next          *)
  written          (* the file of blocks: written[i] has the id i - 1       *)

producerVars == <<producer, visited, fileids>>
vars == <<listing, main, producerVars, fileQueue, filePoison, worker, blockQueue,
          writer, written>>

Taking == [pc |-> "take", todo |-> <<>>]
Ended  == [pc |-> "ended", todo |-> <<>>]
Dead   == [pc |-> "dead", todo |-> <<>>]
Terminated(w) == worker[w].pc \in {"ended", "dead"}

Init ==
  /\ listing \in Listings
  /\ main = "join producer"
  /\ producer = "next"
  /\ visited = 0
  /\ fileids = <<>>
  /\ fileQueue = {}
  /\ filePoison = [left |-> Cardinality(Workers), there |-> 0]
  /\ worker = [w \in Workers |-> Taking]
  /\ blockQueue = [w \in Workers |-> <<>>]
  /\ writer = "take"
  /\ written = <<>>

File(id) == listing[fileids[id + 1]]

-----------------------------------------------------------------------------
(* The main thread.                                                        *)

JoinProducer ==
  /\ main = "join producer"
  /\ producer \in {"ended", "failed"}
  /\ main' = "poison files"
  /\ UNCHANGED <<listing, producerVars, fileQueue, filePoison, worker, blockQueue,
                 writer, written>>

FileRoom == Cardinality(fileQueue) + filePoison.there < FileCapacity

(* Mutant: one poison for all the workers.                                 *)
PoisonFilesOnce ==
  /\ main = "poison files"
  /\ FileRoom
  /\ filePoison' = [left |-> 0, there |-> 1]
  /\ main' = "join workers"
  /\ UNCHANGED <<listing, producerVars, fileQueue, worker, blockQueue, writer, written>>

(* file_queue.poisonReceivers                                              *)
PoisonFiles ==
  /\ main = "poison files"
  /\ FileRoom
  /\ filePoison' = [left |-> filePoison.left - 1, there |-> filePoison.there + 1]
  /\ main' = IF filePoison.left = 1 THEN "join workers" ELSE main
  /\ UNCHANGED <<listing, producerVars, fileQueue, worker, blockQueue, writer, written>>

(* Mutant: one worker is not joined.                                       *)
JoinOneWorker ==
  /\ main = "join workers"
  /\ \E w \in Workers : Terminated(w)
  /\ main' = "poison blocks"
  /\ UNCHANGED <<listing, producerVars, fileQueue, filePoison, worker, blockQueue,
                 writer, written>>

JoinWorkers ==
  /\ main = "join workers"
  /\ \A w \in Workers : Terminated(w)
  /\ main' = "poison blocks"
  /\ UNCHANGED <<listing, producerVars, fileQueue, filePoison, worker, blockQueue,
                 writer, written>>

BlockRoom == MapThenSumSet(LAMBDA w : Len(blockQueue[w]), Workers) < BlockCapacity

(* block_queue.poisonReceivers: there is one receiver.                     *)
PoisonBlocks ==
  /\ main = "poison blocks"
  /\ BlockRoom
  /\ main' = "join writer"
  /\ UNCHANGED <<listing, producerVars, fileQueue, filePoison, worker, blockQueue,
                 writer, written>>

(* Mutant: a writer that failed does not count as one that has ended.      *)
WriterSucceeded == {"ended"}

(* What join() waits for.                                                  *)
WriterOver == {"ended", "failed"}

(* The exit statuses are not looked at.                                    *)
Finish ==
  /\ main = "join writer"
  /\ writer \in WriterOver
  /\ main' = "done"
  /\ UNCHANGED <<listing, producerVars, fileQueue, filePoison, worker, blockQueue,
                 writer, written>>

Main == JoinProducer \/ PoisonFiles \/ JoinWorkers \/ PoisonBlocks \/ Finish

(* The last flush of one of the two files fails: parse throws.             *)
FinishFails ==
  /\ main = "join writer"
  /\ writer \in WriterOver
  /\ "write" \in Faults
  /\ main' = "unclosed"
  /\ UNCHANGED <<listing, producerVars, fileQueue, filePoison, worker, blockQueue,
                 writer, written>>

-----------------------------------------------------------------------------
(* FileProducer_FromRoot.run and FileProducer_FromFileList.run.            *)

(* The filter of the directory walk; a list is not filtered.               *)
Accepted(f) == FromRoot => \E l \in Languages : f.suffix \in FileFilter(l)

AtFile == producer = "next" /\ visited < Len(listing)

SkipFile ==
  /\ AtFile
  /\ ~ Accepted(listing[visited + 1])
  /\ visited' = visited + 1
  /\ UNCHANGED <<listing, main, producer, fileids, fileQueue, filePoison, worker,
                 blockQueue, writer, written>>

(* The content is read, the id and the path are written.                   *)
Record ==
  /\ AtFile
  /\ Accepted(listing[visited + 1])
  /\ visited' = visited + 1
  /\ fileids' = Append(fileids, visited + 1)
  /\ producer' = "put"
  /\ UNCHANGED <<listing, main, fileQueue, filePoison, worker, blockQueue, writer,
                 written>>

(* Mutant: the id is counted up before it is given.                        *)
PutFileNextId ==
  /\ producer = "put"
  /\ FileRoom
  /\ fileQueue' = fileQueue \cup {Len(fileids)}
  /\ producer' = "next"
  /\ UNCHANGED <<listing, main, visited, fileids, filePoison, worker, blockQueue,
                 writer, written>>

PutFile ==
  /\ producer = "put"
  /\ FileRoom
  /\ fileQueue' = fileQueue \cup {Len(fileids) - 1}
  /\ producer' = "next"
  /\ UNCHANGED <<listing, main, visited, fileids, filePoison, worker, blockQueue,
                 writer, written>>

(* A path that is not valid, a file that cannot be read or an id that
   cannot be written ends the thread: the files after it are not looked at,
   and those in the emitter's buffer, the last ones put, are not flushed.  *)
ReadFails ==
  /\ AtFile
  /\ Accepted(listing[visited + 1])
  /\ "read" \in Faults
  /\ \E buffered \in 0 .. GroupSize :
       fileQueue' = {id \in fileQueue : id + buffered < Len(fileids)}
  /\ producer' = "failed"
  /\ UNCHANGED <<listing, main, visited, fileids, filePoison, worker, blockQueue,
                 writer, written>>

ProducerEnds ==
  /\ producer = "next"
  /\ visited = Len(listing)
  /\ producer' = "ended"
  /\ UNCHANGED <<listing, main, visited, fileids, fileQueue, filePoison, worker,
                 blockQueue, writer, written>>

Producer == SkipFile \/ Record \/ PutFile \/ ProducerEnds

-----------------------------------------------------------------------------
(* FileConsumer_BlockProducer.run.                                         *)

(* extractBlocks returns null: the language is not known, or the chain of
   transformations fails or puts out nothing.                              *)
Skipped(f) ==
  LET language == LanguageOf(f.suffix)
  IN  language = "unknown" \/ (language \in Languages /\ f.output = "failed")

(* An exception leaves run: there is no chain for the language, or a header
   in the output cannot be parsed, or a term processor throws.             *)
Kills(f) ==
  LET language == LanguageOf(f.suffix)
  IN  language # "unknown" /\ (language \notin Languages \/ f.output = "garbled")

(* SizeTempBlockRequirement.approve: unlike in cwdetect 0 is a limit.      *)
Approved(b) ==
  LET lines == b.end - b.start + 1
  IN  lines \in MinLines .. MaxLines /\ b.original \in MinTokens .. MaxTokens

(* The blocks of the file that are built, by their places in it.           *)
Built(f) == {j \in DOMAIN f.blocks : Approved(f.blocks[j]) /\ f.blocks[j].left # 0}

(* getBlocks: the loops over the list of blocks.                           *)
GetBlocks(f) ==
  LET upTo[n \in 0 .. Len(f.blocks)] ==
        IF n = 0 THEN <<>>
        ELSE IF n \in Built(f) THEN Append(upTo[n - 1], n) ELSE upTo[n - 1]
  IN  upTo[Len(f.blocks)]

TakeFile(w) ==
  /\ worker[w].pc = "take"
  /\ \E id \in fileQueue :
       LET f == File(id)
           output == [j \in DOMAIN GetBlocks(f) |-> [file |-> id, block |-> GetBlocks(f)[j]]]
       IN  /\ ~ Kills(f)
           /\ fileQueue' = fileQueue \ {id}
           /\ worker' = [worker EXCEPT ![w] = IF Skipped(f) THEN Taking
                                              ELSE [pc |-> "put", todo |-> output]]
  /\ UNCHANGED <<listing, main, producerVars, filePoison, blockQueue, writer, written>>

(* Mutant: a block that has been put may be put again.                     *)
PutBlockAgain(w) ==
  /\ worker[w].pc = "put"
  /\ worker[w].todo # <<>>
  /\ BlockRoom
  /\ blockQueue' = [blockQueue EXCEPT ![w] = Append(@, Head(worker[w].todo))]
  /\ worker' \in {worker, [worker EXCEPT ![w].todo = Tail(@)]}
  /\ UNCHANGED <<listing, main, producerVars, fileQueue, filePoison, writer, written>>

PutBlock(w) ==
  /\ worker[w].pc = "put"
  /\ worker[w].todo # <<>>
  /\ BlockRoom
  /\ blockQueue' = [blockQueue EXCEPT ![w] = Append(@, Head(worker[w].todo))]
  /\ worker' = [worker EXCEPT ![w].todo = Tail(@)]
  /\ UNCHANGED <<listing, main, producerVars, fileQueue, filePoison, writer, written>>

NextFile(w) ==
  /\ worker[w].pc = "put"
  /\ worker[w].todo = <<>>
  /\ worker' = [worker EXCEPT ![w] = Taking]
  /\ UNCHANGED <<listing, main, producerVars, fileQueue, filePoison, blockQueue,
                 writer, written>>

(* Mutant: the worker goes without flush().                                *)
WorkerEndsUnflushed(w) ==
  /\ worker[w].pc = "take"
  /\ filePoison.there > 0
  /\ fileQueue = {}
  /\ filePoison' = [filePoison EXCEPT !.there = @ - 1]
  /\ blockQueue' = [blockQueue EXCEPT ![w] = <<>>]
  /\ worker' = [worker EXCEPT ![w] = Ended]
  /\ UNCHANGED <<listing, main, producerVars, fileQueue, writer, written>>

(* What is left in the queue then are the groups the others hand out.      *)
HeldByOthers(w) ==
  (GroupSize - 1) * Cardinality({v \in Workers \ {w} : ~ Terminated(v)})

WorkerEnds(w) ==
  /\ worker[w].pc = "take"
  /\ filePoison.there > 0
  /\ Cardinality(fileQueue) <= HeldByOthers(w)
  /\ filePoison' = [filePoison EXCEPT !.there = @ - 1]
  /\ worker' = [worker EXCEPT ![w] = Ended]
  /\ UNCHANGED <<listing, main, producerVars, fileQueue, blockQueue, writer, written>>

(* The thread is gone with the rest of its group of files and with the
   blocks in its emitter's buffer, the last ones put.                      *)
WorkerDies(w) ==
  /\ worker[w].pc = "take"
  /\ \E id \in fileQueue :
     \E heldBack \in SUBSET (fileQueue \ {id}), buffered \in 0 .. Len(blockQueue[w]) :
       /\ Kills(File(id))
       /\ Cardinality(heldBack) < GroupSize
       /\ buffered <= GroupSize
       /\ fileQueue' = fileQueue \ ({id} \cup heldBack)
       /\ blockQueue' = [blockQueue EXCEPT
                           ![w] = SubSeq(@, 1, Len(@) - buffered)]
  /\ worker' = [worker EXCEPT ![w] = Dead]
  /\ UNCHANGED <<listing, main, producerVars, filePoison, writer, written>>

Worker(w) ==
  TakeFile(w) \/ PutBlock(w) \/ NextFile(w) \/ WorkerEnds(w) \/ WorkerDies(w)

-----------------------------------------------------------------------------
(* BlockConsumer_BlockWriter.run.                                          *)

WriteBlock ==
  /\ writer = "take"
  /\ \E w \in Workers :
       /\ blockQueue[w] # <<>>
       /\ written' = Append(written, Head(blockQueue[w]))
       /\ blockQueue' = [blockQueue EXCEPT ![w] = Tail(@)]
  /\ UNCHANGED <<listing, main, producerVars, fileQueue, filePoison, worker, writer>>

WriterEnds ==
  /\ writer = "take"
  /\ main = "join writer"
  /\ \A w \in Workers : blockQueue[w] = <<>>
  /\ writer' = "ended"
  /\ UNCHANGED <<listing, main, producerVars, fileQueue, filePoison, worker,
                 blockQueue, written>>

(* The block is gone with the rest of its group, which came from one worker;
   nothing more is taken.                                                  *)
WriteFails ==
  /\ writer = "take"
  /\ "write" \in Faults
  /\ \E w \in Workers, n \in 1 .. GroupSize :
       /\ n <= Len(blockQueue[w])
       /\ blockQueue' = [blockQueue EXCEPT ![w] = SubSeq(@, n + 1, Len(@))]
  /\ writer' = "failed"
  /\ UNCHANGED <<listing, main, producerVars, fileQueue, filePoison, worker, written>>

-----------------------------------------------------------------------------
Step ==
  \/ Main
  \/ Producer
  \/ ReadFails \/ FinishFails
  \/ \E w \in Workers : Worker(w)
  \/ WriteBlock
  \/ WriterEnds
  \/ WriteFails

Terminating == main = "done" /\ UNCHANGED vars

Next == Step \/ Terminating

(* The scheduler starves no runnable thread.                               *)
Fairness ==
  /\ WF_vars(Main)
  /\ WF_vars(Producer)
  /\ \A w \in Workers : WF_vars(Worker(w))
  /\ WF_vars(WriteBlock \/ WriterEnds)

Spec == Init /\ [][Next]_vars /\ Fairness

-----------------------------------------------------------------------------
(* Properties.                                                             *)

Ids == 0 .. Len(fileids) - 1

Outputs(id) == {[file |-> id, block |-> b] : b \in Built(File(id))}

AllOutputs == UNION {Outputs(id) : id \in Ids}

(* The types of the variables; whatever is under way has a recorded file.  *)
TypeOK ==
  /\ main \in {"join producer", "poison files", "join workers", "poison blocks",
               "join writer", "done", "unclosed"}
  /\ producer \in {"next", "put", "ended", "failed"}
  /\ visited \in 0 .. Len(listing)
  /\ fileids \in Seq(DOMAIN listing)
  /\ fileQueue \subseteq Ids
  /\ filePoison \in [left : 0 .. Cardinality(Workers), there : 0 .. Cardinality(Workers)]
  /\ worker \in [Workers -> [pc : {"take", "put", "ended", "dead"}, todo : Seq(AllOutputs)]]
  /\ blockQueue \in [Workers -> Seq(AllOutputs)]
  /\ writer \in {"take", "ended", "failed"}
  /\ written \in Seq(AllOutputs)

(* BlockConsumer_BlockWriter: the blocks of a file are written once each and
   in the order they have in the file, whoever else is writing.            *)
InSourceOrder ==
  \A i, j \in DOMAIN written :
    i < j /\ written[i].file = written[j].file =>
      written[i].block < written[j].block

(* parse: a run in which every thread came to its proper end has written all
   blocks of all files that the filter accepts.                            *)
Proper ==
  /\ main = "done"
  /\ producer = "ended"
  /\ \A w \in Workers : worker[w].pc = "ended"
  /\ writer = "ended"

Complete ==
  Proper =>
    /\ ToSet(fileids) = {i \in DOMAIN listing : Accepted(listing[i])}
    /\ \A id \in Ids : ~ Skipped(File(id)) => Outputs(id) \subseteq ToSet(written)

(* What a thread that dies can cost: a group of files and a group of blocks
   for each worker, as long as one is left, and the files that the producer
   had in its buffer when it failed.                                       *)
Deaths  == Cardinality({w \in Workers : worker[w].pc = "dead"})
Missing == {id \in Ids : ~ Skipped(File(id)) /\ ~ Outputs(id) \subseteq ToSet(written)}

LossBounded ==
  /\ main = "done"
  /\ writer = "ended"
  /\ \E w \in Workers : worker[w].pc = "ended"
  => Cardinality(Missing) <= 2 * GroupSize * Deaths
                             + (IF producer = "failed" THEN GroupSize ELSE 0)

(* parse returns if all I/O succeeds and no file kills a worker.           *)
NothingFails ==
  /\ main # "unclosed"
  /\ producer # "failed"
  /\ writer # "failed"
  /\ \A w \in Workers : worker[w].pc # "dead"

Terminates == []NothingFails => <>(main = "done")

(* A run that cannot go on is one that has ended, whose last flush has
   failed, whose workers have all died with the file queue full, or whose
   writer has died with the block queue full.                              *)
HangsOnlyAfterFault ==
  \/ ENABLED Step
  \/ main \in {"done", "unclosed"}
  \/ ~ FileRoom /\ \A w \in Workers : worker[w].pc = "dead"
  \/ ~ BlockRoom /\ writer = "failed"

(* FilePathStream.next, "@throws InvalidPathException If the path is invalid.
   Can continue.": the files after a path that is not valid are still
   found.  They are not.                                                   *)
ListGoesOn ==
  main = "done" /\ ~ FromRoot => visited = Len(listing)
=============================================================================
