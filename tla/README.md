# CloneWorks in TLA+

CloneWorks finds clones in large source code bases. `cwbuild` (package `input`) turns source
files into *blocks*, each a bag of terms; `cwdetect` (package `detection`) finds the pairs of
blocks whose terms overlap enough; `cwformat` and some small programs rewrite the report. The
two main programs are pipelines of threads that hand their work on through the queues of
`util.blockingqueue`, and most of what is hard to test in them is there: who joins whom before
what is poisoned, what happens to a full queue when a thread dies, what a thread reads that
another one still writes. The rest is arithmetic at boundaries: prefixes, thresholds and early
exits that may lose no clone.

This directory has TLA+ modules for these parts, TLC configurations that check them on small
instances, and proofs for the queue, the prefix filter, the clone detector, the four pipelines of
`cwdetect`, the pipeline of `cwbuild` and its chains of processes. Every path below
is relative to `src/src/` unless it starts with `src/`.

* [Inventory](#inventory)
* [Modules](#modules), and how their state and actions correspond to the code
* [Runs](#runs), their bounds and what they show
* [Fairness](#fairness)
* [What the checks found](#what-the-checks-found)
* [Proofs](#proofs)
* [Only model-checked](#only-model-checked), [abstractions](#abstractions), [not modelled](#not-modelled)
* [Plan](#plan)

How to run: `tlc -config GroupQueue.cfg MCGroupQueue.tla` (in general `tlc -config X.cfg MCX.tla`,
with the module and the configuration that `PROJECT.json` lists for a run), `tlapm
GroupQueue_proofs.tla`.

## Inventory

| component | state | operations | hard part | what makes it correct |
|---|---|---|---|---|
| blocking queues (`util/blockingqueue`) | an emitter's buffer, the shared queue of groups and poisons, a receiver's buffer and its `poisoned`, `numReceivers` | `put`, `flush`, `take`, `poisonReceivers`, `needFlush` | competing receivers, full queues, interrupted puts tried again, shutdown by poison | every element is handed out once and in the order of its emitter, nothing stands behind a poison, one poison for each receiver, every thread ends |
| blocks, prefixer, index, clone detector (`detection/{block,prefixer,index,detection}`) | a block's terms and their frequencies; the index from term to blocks; the counters of `isClone` | `prefix`, `addBlock`, `getBlocks`, `detectClones`, `isClone`, `doesOverlap` | off-by-one in prefix length, early exits, overlap of line ranges | exactly the pairs above the threshold that have no common line, each from one side |
| term order (`detection/{GTF,blocksorter}`) | the global term frequencies | `add`, `get`, `sort` | counted by several threads at once, read by sorters later | no count lost, and nothing sorted before the last one |
| self clone detection (`detection/logic/SelfCloneDetection`, `detection/workers`) | four stages of threads, four queues, GTF, index, the file of clones | `detect`; `run` of `GTFBuilder`, `BlockIndexer`, `CloneDetection`, `CloneWriter` | stages that overlap, threads that die of a block that cannot be read, failing I/O that is reported as success, bounded queues | every clone is reported once, and what a failed write or flush can cost is known; `detect` returns unless something failed; a hang has one of the few known causes |
| ... of pre-sorted blocks (`SelfCloneDetectionPreSorted`) | three stages | the same, no GTF | indexing while the file is being read, the order of the file taken as given | every clone of a file that is sorted alike |
| partitioned detection (`SelfPartitionedCloneDetection`, `...PreSorted`) | the place in the file, one partition in the index, a second queue with the rest of the file | the same, partition by partition; `MultiSourceBlockInput`, `StringBlockInput` | a last partition that is empty, detectors that switch queues, queries sorted by the GTF of another partition | the clones of the single index; no partition inherits from another |
| input building (`input/logic`, `input/worker`, `input/file`, `constants`) | file ids, files being parsed, blocks, the id and block files | `parse`; `run` of `FileProducer_FromRoot`, `FileProducer_FromFileList`, `FileConsumer_BlockProducer`, `BlockConsumer_BlockWriter` | files that are skipped, files that kill a worker, a producer that fails before its flush | the blocks of every accepted file, once, in order, with dense ids; a death costs a bounded number of files |
| transformations (`input/transformations`) | a chain of processes, its pipes | `run`, `validate` | the caller writes all it has before it reads; stderr is read by another thread; exit statuses | returns, with the whole output |
| configuration of cwbuild (`interfaces/InputBuilder`, `InputBuilderConfiguration`) | options, the lines of the configuration file, chains per language | `parseConfigFile`, `init`, echo | defaults, what is refused and what crashes | what starts to run can run |
| term processors (`input/termprocessors`, `input/transformations/TermProcessors`) | a fragment's terms | `process` of every class | the order of processors, empty terms, no terms | renaming that hides renaming and nothing else; no block of a fragment that has been filtered away |
| command line of cwdetect (`interfaces/CloneDetection`, `detection/util/CloneDetectionConfig`) | options | `main` | the same threads put together in four ways; what happens after an `IOException` | all four keep one promise: only clones, and all of them |
| block, id and clone files (`input/utils`, `detection/util`, `input/block/InputBlock`) | text files | write and read lines | a file that ends anywhere, because its writer was killed or could not go on | a cut costs no more than what was cut off, and two readers of the same file agree |
| clone report tools (`CloneSubtract`, `CloneMerge`, `CloneSubtractRaw`, `XMLClone`) | sets of clones | `readClones`, union and difference of reports | reports that end in the middle of a clone, reports of two builds | every whole clone is read, with its own fragments; a difference has none of the second report |
| report formatting (`cwformat`, `Convert`) | the map from ids to paths | `parseFiles`, `nextClone`, `format` | cut files; exceptions that end with status 0 | names and lines are right but where a file was cut |

The components interact like this. `cwbuild`'s main thread reads the configuration
(`InputBuilderConfiguration`), which fixes a chain of processes for each language and a list of
term processors; then `InputBuilder.parse` starts a `FileProducer`, workers and a writer, which
are joined by two `GroupQueue`s; each worker runs the chain (`TransformUtil`) and the processors
on every file it takes. The result is a file of blocks. `cwdetect`'s main thread reads it and
feeds one of four pipelines of `GroupQueue`s; their shared state is the GTF and the index, their
order is in main's `start`, `poisonReceivers` and `join` calls. `cwformat` puts the paths of the id
file into the file of clones, and the report tools compare reports; these programs share nothing
but files, and none of them tells a file that is whole from one that is not.

The hazards, each at its line and with the properties that would catch it, are in
`PROJECT.json`.

## Modules

```
Channel                      what a queue promises
  ^ implements
GroupQueue                   util.blockingqueue                       GroupQueue_proofs, GroupQueueChannel_proofs
  (as a channel in)
Blocks                       prefix, overlap, similarity              Blocks_proofs
  ^ extends                                                              ^ extends
HeuristicCloneDetector       the loop of one query                    HeuristicCloneDetector_proofs
  (as one step in)
SelfCloneDetection           the pipeline                             SelfCloneDetection_proofs
                                                                       (with an instance of Blocks_proofs)
  ^ extends        ^ extends
SelfCloneDetectionPreSorted  SelfPartitionedCloneDetection
  ^ extends both
SelfPartitionedCloneDetectionPreSorted
  ^ extends                  CloneReport     what a run of cwdetect promises
  |                            ^ implements
CloneDetection               cwdetect: the four pipelines             CloneDetection_proofs

ReportFiles                  the files between the programs, and their readers
  ^ extends
Workflow                     all programs, one after the other

LanguageConstants            suffixes and languages
  ^ extends
InputBuilder                 the threads of cwbuild                   InputBuilder_proofs
TransformUtil                one call of a chain                      TransformUtil_proofs
TermProcessors               every term processor, as an operator
  ^ extends
InputBuilderConfiguration    configuration, chains, one fragment
```

Each `MC...` module gives the constants of a module for TLC. The composition is by contract:
`GroupQueue` is checked to implement `Channel`, and the pipelines use channels (a set of
elements, taken in any order and closed by poison) for their queues; the loop of
`HeuristicCloneDetector` is proved to report exactly `ClonePair`s, and the pipelines take one
query as one step that finds the clones among the candidates of the index; `TransformUtil`
shows how a call can end, and a file of `InputBuilder` has one of these ends.

### GroupQueue, Channel

One `GroupEmitter` for each emitting thread (`buffer`), the `BlockingQueue` of groups and
poisons (`queue`, at most `Capacity` groups), one `GroupReceiver` for each receiving thread
(`held`, `poisoned`), and `numReceivers`, which `poisonReceivers` counts down. `received` is a
history. Actions: `PutInBuffer` and `PutFullGroup` are the two ways of `put`; `Flush` is the last
call of a thread; `PoisonReceiver` is one round of the loop of `poisonReceivers`, enabled once all
emitters have flushed, which is what every main thread in the repository does; `TakeHeld`,
`TakeGroup` and `TakePoison` are the three ways of `take`. `PutInterrupted`, `FlushInterrupted` and
`PoisonInterrupted` are an `InterruptedException` of a blocked call. The callers call again, but for
one: `FileConsumer_BlockProducer.run` (100) sets `success` after an interrupt as well and would drop
the block. Nothing in the repository interrupts a thread.

A `SingleQueue` is the instance with groups of one element; it differs in that nothing is
buffered, so `flush` does nothing. `Channel` is what is left when one forgets groups: an element
that was put is taken by one receiver, the emitters stop before the first receiver is told to,
and the last receiver to stop leaves nothing behind.

### Blocks, HeuristicCloneDetector

`Blocks` has no state. A block has a frequency for each term; its list is in the order of
`Rank`, which stands for what the sorter has done. A term of frequency *n* is *n* tokens, pairs of
the term and a number, so that the counters of the code become cardinalities and the sum of the
smaller frequencies becomes the cardinality of an intersection. `threshold[n]` is
`(int) Math.ceil(n * sim)`; the product is rounded, so that only monotonicity and `threshold[n] <=
n` are assumed.

`HeuristicCloneDetector` is `detectClones` with an action for each round: `CollectCandidates`
reads the prefix terms up to the first that is not one, `SkipCandidate` is the three early returns
of `isClone` (a larger id, common lines, too small), `ScanCandidate` the start of its loop, `ScanTerm` one round of it with both early exits, and `Return`.

### SelfCloneDetection

`main` names what the main thread does next (read a block, put it, poison, join a stage). A
builder, indexer or detector is a record of what it does, the block it is at and what is still to
be done with it (terms to add to the GTF, terms to index, clones to put). The terms are sorted by
`SortRank`, the GTF first and the name second, and `Blocks` comes in as an instance with that order.
An occurrence of a term is a pair, of the block it is in and its number there, so that `AllCounted`
compares a frequency of the GTF with a cardinality (`OccurrencesIn`). `lost` is a history of
blocks that a dying thread took along. Builders die of a block that cannot be read: the
exception of `readDetectionBlock` is caught by nobody, and with the thread go the group it was
handing out and the group it was filling; how many elements of each these are is left open. The
reader and the writer may fail (`Faults`); a writer that has failed takes nothing more, and after a
failed read nobody poisons anything.

`buffer` holds the clones that are still in memory, in the `FileWriter` of the report, and `written`
those in the file. A clone that is written stays in the buffer or takes everything in it to the file
(`WriteClone`). The writer's own `flush()`, behind its loop, ends in `WriterEnds` or in `FlushFails`:
`CloneWriter.run` catches the exception, sets exit status -1, and then goes on to set 0 and "Success."
(lines 43-52), so the thread ends as if all were well, with the buffer written in part. Main looks at
neither status. Its own `flush()` and `close()` may have nothing left to do then, and `detect`
returns (`Finish`), or they throw out of `detect` (`FinishFails`, after which `main = "unclosed"`). So
the model's writer ends in three ways, `"ended"`, `"unflushed"` and `"failed"`, of which the code
tells nobody apart, and `AllClones` says what each of them is worth.

### SelfCloneDetectionPreSorted, SelfPartitionedCloneDetection, SelfPartitionedCloneDetectionPreSorted

The three other pipelines share the threads of the first and so extend its module; each defines
what its `detect` does differently. `SelfCloneDetectionPreSorted` replaces builders by indexers
that read (`IndexerPreSorted`), and gives blocks an `order` of their own instead of a GTF.
`SelfPartitionedCloneDetection` adds `begin` (where the partition starts), `endReached`, `later`
(how much of the rest of the file has been read), `laterQueue` and `source[w]`, the input a
detector is taking from. `SelfPartitionedCloneDetectionPreSorted` combines both.

These three modules have initial states, the main thread and the threads that differ. They are put
together, and checked, in the next one.

### CloneDetection, CloneReport

`CloneDetection` is `main` of cwdetect: `options` says which of the four pipelines runs, and each
thread is a disjunction of its forms in the four (`Whole`, `WholeGiven`, `Partitions`,
`PartitionsGiven`; the variables a pipeline does not have rest). `OptionsAllowed` is what the
checks of the options let pass. The similarity is a number from 0 to 1 (or `NaN`, which that check
lets pass): its thresholds are monotonic and `threshold[n] <= n` (`IsThreshold` in
`BlocksAssumption`), and 0 is among them.

`CloneReport` is the promise, in four variables: what a run reports are pairs out of `clones`, the
report and the excuses only grow (`Grow`) while it is at work (`Work`) and when it fails (`Fail`), and
when it ends it has reported all of them but the `excused` ones (`End`). A run that has failed
promises no more than clones. The refinement mapping takes `written` for the report and the similar
pairs of approved blocks for `clones`. It excuses the pairs of a block that a dead thread took along
or left in a queue, those a dead detector had not flushed, those in the writer's buffer at the end of a run
whose writer could not flush (`Unsaved`), and all of them if the input is not what the promise is about
(`Promised`): blocks sorted alike for `-ps`, ids that ascend for `-p`, and a similarity above 0, since at 0
blocks that have nothing in common are similar too, and the index has no common term to find them by.

### ReportFiles, Workflow

`ReportFiles` has the files as sequences of lines, and no state: the constructor of `Clone`, which
puts a pair in order (`CloneLine`); the two ways `BlockFileReader` goes through a file (`SkipBlocks`,
`BlocksAfter`); `parseFiles` and `nextClone` of cwformat and its formatters (`NameOf`, `RowsOf`,
`Xml`); `readClones` as a fold with the locals of the method (`ReadLine`); and the constructor of
`XMLClone` as it is. Writers buffer, so what is left of a file when its writer is killed, or cannot
write any more, is a prefix (`CutShort`), with its last line cut before all its fields are there,
in its last number or path, or in the name of an element (`Cuts`): a reader can tell no more.

`Workflow` is the user's session: `cwbuild`, `cwdetect` and `cwformat` for run 1, then for run 2
with other options, then `CloneMerge`, `CloneSubtract` and `CloneSubtractRaw` of what the two have
left. Each program is one step, since they run one after the other; what it does in detail is in the
modules above, and comes in as their contract: `Cwbuild` writes all blocks in any order that
`InputBuilder` allows, `Cwdetect` all clones among the blocks that it reads in any order, by the
promise of `CloneReport`. A program may be killed at any line of its files (`Kill`); an
exception ends `cwformat` with what its buffer had let through.

### InputBuilder, LanguageConstants

`listing` is what the file system or the list has; `producer`, `visited` and `fileids` are the
`FileProducer`; each `worker` is at a file with the blocks still to put; `written` is the file of
blocks. A file has a suffix, the outcome of its chain (what `TransformUtil` may answer) and
fragments, with the number of terms that its term processors leave. What a worker does with a
file is one step, its `put`s are steps of their own; `written` includes what the `FileWriter` still
buffers, until parse flushes both files: `Finish`, or `FinishFails` if that throws. `GetBlocks` is
the loop of `getBlocks`, which answers the places in the file of the fragments that become blocks
(`Built`). `LanguageConstants` has the
filters by suffix and `getLanguage`, in particular that the two do not agree on case.

### TransformUtil

The calling thread, the `StreamGobbler` of stderr, and a chain of external processes with pipes
of `Capacity` chunks between them; a process streams or reads everything first, succeeds, fails or
breaks on a closed pipe. `bash -c "a | b"` reports the status of the last process and keeps the
read end of the first pipe open. `CannotStart` is the `IOException` of `start`, after which
`p.destroy()` in the `finally` meets a null pointer.

### TermProcessors, InputBuilderConfiguration

A term is a sequence of lexemes: operator, separator, keyword, quote, blank, digest or a name
with its humps. `Process` has a case for each class of `input/termprocessors`, `Throws` says when one
ends in an exception. `InputBuilderConfiguration` is `main` of cwbuild up to `parse`: options, one
action for each kind of line of the file, what is refused (`Refuse`), what crashes (`CrashOnLine`,
`Echo`), `BuildChains`, and then what a worker does with one fragment (`Apply`, `ApplyThrows`,
`Finish`). The oddities of the code are in the model: `-mal 0` lets nothing pass in `cwbuild` while
0 is no limit in `cwdetect`; the number of threads is not checked; a line without `=` ends in
an `ArrayIndexOutOfBoundsException` instead of the `ConfigurationException`; a file without
`termsplit` crashes in the echo. `NGram`, `Hasher` and `CombineAndHash` are refused without an argument
they can use.

## Runs

A run stands for one question; `PROJECT.json` names its configuration and its properties. Each
property of a passing run has a mutant, a definition of the model changed in the way a bug would
change the code (the `Mutant:` definitions beside the ones they replace), with which TLC finds the
property violated under the same configuration.

| run | question | properties |
|---|---|---|
| `queue` | Does a queue deliver, whatever the order and whatever is interrupted? | `NothingLost`, `NothingTwice`, `InOrder`, `PoisonLast`, `PoisonPerReceiver`; `ImplementsChannel` (refinement); `Closes` (liveness); `TypeOK` |
| `detector` | Does one query find its clones? | `NotABug` (what is behind the loop of `isClone`, which prints "Bug?", is not reached), `OnlyClones`, `AllClones`, `TypeOK` |
| `detector_jaccard` | Is the similarity the documented one? (violation) | `JaccardSimilar` |
| `detection` | Do the four stages report every clone once, on a GTF that is complete and at rest and an index that is complete, and how may they stop? | `AllCounted`, `SortedOnStableGTF`, `IndexedBeforeDetection`, `ReportedOnce`, `AllClones`, `HangsOnlyAfterFault`, `Terminates`, `TypeOK` |
| `cwdetect` | Do all four pipelines keep the same promise, whatever the options? | `ImplementsReport` (refinement of `CloneReport`), `IndexIsPartition`, `HangsOnlyAfterFaultDetection`, `Terminates` |
| `input` | Are all blocks written once, in order, and what can a bad file cost? | `InSourceOrder`, `Complete`, `LossBounded`, `HangsOnlyAfterFault`, `Terminates`, `TypeOK` |
| `input_list` | Does a list of files go on after a bad path? (violation) | `ListGoesOn` |
| `transform` | Does a call return, with all of the output? | `WholeOutput`, `Returns` |
| `transform_failure` | Is every failure of a chain reported? (violation) | `FailureReported` |
| `configuration` | Can what starts run, what kills a worker, what does renaming hide? | `ReadyToRun`, `DiesOnlyUnguarded`, `NoBlockFromNothing`, `SameIffRenamed` |
| `workflow` | What does a program that is killed cost the ones after it, and do the report tools compute unions and differences? | `DetectsWholeBlocks`, `ReportTrue`, `MergeRight`, `DifferenceRight` |
| `subtract` | Does `CloneSubtract` remove the clones of the other report? (violation) | `SubtractRemoves` |

### Bounds, and why they are enough

* `queue`: two emitters of four and three elements, two receivers, groups of two, a queue of two
  groups, two interrupts. The queue is full while a third group is to be put, a flush finds a
  full, a partial and an empty buffer, both receivers compete for groups and for poison, and both
  poisons do not fit while a group is queued. An interrupt can hit each of the three calls.
* `detector`: (1) all pairs of blocks over three terms of frequency up to two, in both id orders,
  with thresholds of 25, 50, 70 and 100 %: every order in which the two loops can run ahead of one
  another, prefixes of one token up to the whole block; (2) triples of blocks at four line
  ranges in one or two files: ranges that touch, nest, coincide and are apart.
* `detection`: five files of four to six blocks of three terms, with a block that is too small, two
  that overlap, one that cannot be read, and enough of the latter to kill all builders; two
  threads a stage; an input queue of two elements and an output queue of one, groups of two. Every
  queue is full at some time, and both faults happen at every step.
* `cwdetect`: each of the four pipelines on each of six files of three to seven blocks, in
  partitions of two: two full partitions and the empty one after them, with terms in two orders; a
  last partition that is not full, and a small block; a block in an order of its own and ids that do
  not ascend (for which no promise is made); terms that the partition's GTF does not know; blocks
  that kill all that read first; and blocks that kill all detectors with the queue of queries
  full, which takes seven blocks. Queues as in `detection`.
* `input`: directories of one to seven files and queues of two elements, with files not taken, files
  without blocks, chains that fail, and up to as many deadly files as there are workers, at the
  beginning and at the end. `input_list` has the same files as a list.
* `transform`: chains of one and two processes, streaming or not, each of which may fail at any
  step; files of up to six chunks, pipes of one. A chain of two holds five chunks
  (`Buffered`), so there are files that fit exactly and files one chunk too large; with that bound
  one larger `Returns` is violated.
* `configuration`: eight command lines, 35 configuration files with up to three term
  processors that use every modelled class, and all 400 fragments of up to three of seven terms.

* `workflow`, `subtract`: two sources with three fragments of which all are similar in the first
  run and two in the second, numbered and written in every order, as a whole and in partitions of
  two; one program of the session is killed (`MaxKills`), at every line and at every kind of place
  in it. A second kill would meet files that have been cut already: each reader is checked with
  every cut of what it reads, and with two cut reports only `readClones` has to do, which is at its
  start again after the first. `subtract` kills none.

`CHECK_DEADLOCK FALSE` stands in the configurations in which the program really may stop for
good: the hangs that the `HangsOnlyAfterFault` properties enumerate, a chain that waits for itself
(`Returns` says when it cannot), and sequential programs that end.

### What the properties say, where their names do not

* A run that hangs is not by itself a violation: the code does hang, and the properties say
  exactly when. `cwdetect` hangs after a failed read (workers wait for poison), after a failed
  write with the output queue full, and when all builders have died with the input queue full
  (a last flush that throws ends it, with all threads at their end);
  `cwbuild` when all workers have died with the file queue full, and when the writer has failed
  with the block queue full. Any other state from which nothing goes on violates
  `HangsOnlyAfterFault`.
* `AllClones` of the pipeline says that losses do not spread: a builder that dies takes blocks
  along, so that frequencies are missing from the GTF, but no pair of other blocks is lost, since
  *any* order of the terms will do as long as it is the same for all. It also says what a failed flush
  of the writer can cost, which nobody is told of: clones that were in the buffer then, and no others.
  `ImplementsReport` has the same facts for the other pipelines, and the theorem `SimilarMeetInPrefix` is why it holds.
* `ImplementsReport` needs ids that ascend in the file for `-p`, as those of `cwbuild` do; a file
  that was reordered loses pairs between partitions, by the comparison of ids in `isClone`.
* `ReportTrue` says what a user can still believe of a report if one of the programs was killed:
  `cwdetect` killed, one clone may have a wrong last line, its end line, which has been cut to a
  smaller number; `cwbuild` killed, names may be cut or `null`, and only those of ids that are not
  whole in the file of ids. Nothing is printed about it.
* `MergeRight` and `DifferenceRight` hold of reports cut anywhere: a program dies, or what it prints
  is right for the clones that are in the reports to their end. `DifferenceRight` is for builds that
  number the sources alike, without which it is false, see below.
* `DiesOnlyUnguarded` lists three reasons for a term processor to end its worker: `NGram` with a number
  below 1; a renaming or normalizing class, which looks at the first letter, behind `SplitStrings` or
  `TrimLeadingTrailingWhitespace` without `RemoveEmpty` between them; and such a class behind a
  `Joiner` that comes first, since `Joiner` makes an empty term of a fragment without terms (which
  passes if `-mit` is 0, and is handed to the first processor).
* `NoBlockFromNothing` is about a fragment that a processor has left without terms. One that has none
  to begin with does become a block if `Joiner` or `CombineAndHash` comes first.
* `SameIffRenamed`: two fragments have the same terms after the renaming processors if and only if
  one is the other with its names exchanged one for one.

## Fairness

Weak fairness for every thread (`Main`, each worker, each emitter and receiver, the writer, the
gobbler, each thread of `CloneDetection` in whichever pipeline it is) says that the JVM's scheduler does not starve a runnable thread. A thread blocked on a
full or empty queue or on `join` is not enabled and fairness asks nothing of it; the queues are
unfair locks in Java, but a thread that waits is woken when its condition holds and other
threads have finitely much to put or take. Faults, interrupts and failing processes are under no
fairness. Liveness is then conditional on what must not happen: `Terminates` assumes that no thread
dies and no I/O fails, and `Returns` that no process fails. Each process of a chain is
scheduled and none works for ever. `HeuristicCloneDetector`, `Workflow` and
`InputBuilderConfiguration` have safety properties only and need no fairness.

## What the checks found

Four statements of the repository do not hold of its code:

1. `src/manual/manual.tex:185` calls the similarity Jaccard; `HeuristicCloneDetector.isClone` (82)
   takes the threshold of the larger block and not of the union (run `detector_jaccard`).
2. `FilePathStream.java:13` says that one can continue after an invalid path;
   `FileProducer_FromFileList.run` (95) catches the exception outside of its loop, and the files in
   its buffer are lost too (`input_list`).
3. `src/cfprocessors/readme:128` says that a processor that exits with another code than 0 fails
   all code fragments of the file; `TransformUtil.run` (115) sees the status of the last process of the
   chain only (`transform_failure`).
4. The constructor of `XMLClone` (9) means to put the two fragments of a clone in order, and compares
   the first one with itself. Two builds that number the sources differently (another order of
   the directory, one more file) report clones the other way round, and the lines of
   `CloneSubtract` (19) under "Remove clones" do not remove these (`subtract`). `CloneSubtractRaw`
   compares ids of two builds as they are: its code that would translate them is commented out.

Other oddities were modelled as they are and are no disagreement with a document: the hangs above,
`-mal 0`, the unchecked number of threads, `needFlush` (it asks about the shared queue, not about
the emitter's buffer; nothing calls it), the crash in the echo, reports that
are wrong without a message after a killed program, a `cwformat` that ends with status 0 when it has
died (before it opens the report if the ids cannot be read, so that an old report stays), `-s NaN`,
which passes the check of cwdetect and makes every threshold 0, and the operators of C, of which
`=`, `<`, `>`, `/`, `%`, `^` and `|` are missing in `FilterOperators`. Four more:

* A flush of `CloneWriter` that fails is overwritten by exit status 0 and "Success." (43-52), and
  `detect` may return with clones missing (`FlushFails`, `AllClones`, `ImplementsReport`).
* `cwbuild -t 0` passes: there are no workers, no block is written, and with more files than the queue
  holds the producer waits for ever. (`InputAssumption` has one worker at least; `cwdetect` refuses a
  number below 1.)
* `CloneMerge` prints a clone twice if the two builds number the sources differently, by the same
  comparison in `XMLClone` as above. `MergeRight` compares unordered pairs and does not see it.
* `FileConsumer_BlockProducer` (100) does not retry a `put` that was interrupted, against its comment
  (90); nothing interrupts it.

## Proofs

TLAPS checks, for all values of the constants:

| theorem | says | rests on |
|---|---|---|
| `GroupQueue_proofs!TypeCorrect` | `TypeOK` | `QueueAssumption` |
| `GroupQueue_proofs!NeverLost` | `NothingLost`: every element that was put is in a buffer, in the queue, or has been handed out | the same |
| `GroupQueue_proofs!PoisonStaysLast` | `PoisonLast` | the same |
| `GroupQueue_proofs!AllDeliveredAtEnd` | when all receivers have ended, all elements have been handed out | the same |
| `GroupQueueChannel_proofs!PoisonsAddUp` | `PoisonPerReceiver` | the same |
| `...!NeverTwice` | `NothingTwice` | the same |
| `...!QueueIsChannel` | `ImplementsChannel`, the refinement that the pipelines rest on | the same |
| `GroupQueueChannel_proofs!OrderKept` | `InOrder`: a receiver gets the elements of an emitter in the order of their puts | the same |
| `Blocks_proofs!SimilarMeetInPrefix` | two blocks that share as many tokens as the larger one needs have a prefix term in common | `TermsAssumption`, `IsBlock`, `IsThreshold` |
| `...!SharedComeEarly` | the same filter for blocks that each come in an order of their own | the same |
| `HeuristicCloneDetector_proofs!TypeCorrect` | `TypeOK`; the counters of the loop never become negative | `TermsAssumption`, `InputAssumption` |
| `...!LoopCounts` | the loop invariant of `isClone` | the same |
| `...!NeverABug` | `NotABug` | the same |
| `...!ReportsOnlyClones` | `OnlyClones` | the same |
| `...!ReportsAllClones` | `AllClones` | the same |
| `SelfCloneDetection_proofs!TypeCorrect` | `TypeOK` | `PipelineAssumption`, `FilesAssumption` |
| `...!SortsByStableGTF` | `SortedOnStableGTF` | the same |
| `...!ReportsOnce` | `ReportedOnce` | the same |
| `...!CountsEveryOccurrence` | `AllCounted`: sorting begins with the frequencies of the whole file, unless a builder has died | the same, and `BlocksAssumption` |
| `...!IndexesBeforeDetection` | `IndexedBeforeDetection`: the first query meets an index of all blocks | the same |
| `...!ReportsAllClones` | `AllClones`: no pair of blocks is missed that no dying thread took along; when the writer's flush failed, what is missing was in its buffer | the same |
| `CloneDetection_proofs!IndexesPartition` | `IndexIsPartition`, of all four pipelines | the same, and `OrdersAssumption` |
| `...!ReportsAsPromised` | `ImplementsReport`: each of the four pipelines implements `CloneReport` | the same |
| `TransformUtil_proofs!TypeCorrect` | the types of the chain, its pipes and its caller | `TransformAssumption` |
| `...!KeepsWholeOutput` | `WholeOutput`: a success is the whole output | the same |
| `InputBuilder_proofs!GetBlocksLists` | the loop of `getBlocks` lists the blocks to be built, each once and in order | none |
| `...!TypeCorrect` | `TypeOK` | `InputAssumption` |
| `...!WritesInSourceOrder` | `InSourceOrder` | the same |
| `...!BoundsTheLoss` | `LossBounded`: what a death or a failed producer can cost | the same |
| `...!WritesEveryBlock` | `Complete` | the same |

**The queue.** `NothingLost` is not inductive by itself. `TakeGroup` hands out the head of a
group and keeps its tail, so a group in the queue must not be empty (`GroupsFilled`);
`Flush` marks a thread as done, so that it must then have put everything and buffer nothing
(`FlushedEmpty`); and that nothing is left at the end needs that poison comes after all flushes
(`PoisonAfterJoin`), that nothing but poison stands behind poison (`PoisonLast`), and that a
poisoned receiver holds nothing (`PoisonedEmpty`). The conjunction `IInv` is inductive. An
interrupted call changes nothing, which is what the code's order (send the full buffer, then make a
new one and add the element) buys; the mutant `PutInterruptedAfterAdd` has the other order.

That nothing is handed out *twice* needs that no buffer and no group has an element twice
(`NoRepeats`: else the head of a group could be in its tail), and that an emitter buffers its own
elements only (`OwnBuffered`: else two emitters could send the same one). A new element is fresh
since everything that is somewhere has been put (`NothingLost`) and its number is larger. Both
invariants together give the refinement: `put` returns in an `Accept`, `take` returns in a `Deliver`
of an element that is nowhere else, and poison is taken in an `End`, the last of which finds all
elements delivered by `AllDeliveredAtEnd`. Flushes, poisonings and interrupts stutter. `PoisonsAddUp`
needs no strengthening but the types: it counts poisons, which move up one place when the head of
the queue is taken (`PoisonsTail`).

`InOrder` speaks of one receiver at a time and of pairs of groups in the queue, which does not make the
next group a receiver takes later than what it has already. `StagesOrdered` does: of each emitter,
all that any receiver holds or has handed out was put before all that is queued or buffered, and
all that is queued before all that is buffered. With it `TakeGroup` appends a group that is ordered
(`GroupsOrdered`) and later to a sequence that is ordered (`OrderedConcat`), `TakeHeld` only moves
the boundary between handed out and held (`HandOutHead`), and a sent buffer is later than the queue;
between emitters nothing has to be shown, since a buffer has its owner's elements only
(`OwnBuffered`). A new element is later than all others since all of those have been put
(`NothingLost`).

**The prefix filter.** With *n* the size of the larger block and *T = threshold[n]*, the first term
*t* that two blocks share comes, in each block *b*, after tokens none of which is shared; so at
least *T* of the *numTokens(b)* tokens come at *t* or later, and fewer than `PrefixLength(b)` come
before it (`FirstSharedInPrefix`). This needs of the threshold only that it is monotonic and of the
order only that it is the same in both blocks.

**The detector.** `LoopInvariant` relates the counters to what has been passed: `shared` counts the
tokens shared among the terms before the ones in `rest`, `remaining` counts the tokens of those in `rest`. With
it a `ScanTerm` that reports has seen enough shared tokens, one that gives up can no longer get
them (`RejectedIsNoClone`, `SharedBounds`), and one that reaches the end of the loop has run into
one of the two exits before, so the code behind the loop is never reached. `NoneLost`
keeps the clones of the query in what was reported or is still to be checked; at
`CollectCandidates` it is `SimilarMeetInPrefix`. `IsPositive` excludes the threshold 0, at
which blocks that share nothing would be similar but are not candidates.

**The pipeline.** `SortedOnStableGTF` rests on `Staged`: before main has joined the builders every
indexer is waiting, and afterwards every builder has ended, by poison or by an exception. A main
thread that failed to read is before that point for good. `ReportedOnce` is not inductive: that a detector's new pairs are new needs
that its block has not been through a detector before, and so back to the reader. `OnePlace` says so
without comparing the seven places a block can be in pair by pair: there are a function `stage`, how
far each block has come, and a function `owner`, which thread works on it, that agree with every
queue and every thread (`InPlace`). Each action moves at most one block to its next stage, so the
functions after the step are those before it changed at that block. With it a pair that has been
output is of a block that is past the queue of the detectors, and two detectors' pairs differ in the
owner of their first block. `FilesAssumption` says of files only that they are sequences of blocks with frequencies:
the theorems hold of files with unreadable blocks too.

`CountsEveryOccurrence` counts what has been added so far: `Totals` says that the frequency of a term
is the number of its occurrences in the blocks that have gone through a builder, or are with one that
is done with this term. `AddTerm` adds the occurrences of one block, which are none of those counted
already since a block is with one builder only (`OnePlace`). When the builders have been joined that
is every block: the builder that ended last has left the input queue empty (`Drained`), unless some
builder died, which `AllCounted` excludes.

`IndexesBeforeDetection` is the converse of `OnePlace`: a block is not in two places, and here it
is in one at least. `Flow` says that a block which main has put is in the first queue, with a builder,
in the second queue, too small, lost with a builder, or has its prefix; `Prefixed`, that a prefix is
the one of the *final* GTF (it is taken when the GTF has come to rest) and that each of its terms is in
the index or still to be added by the indexer that has the block; `Emptied`, that the last indexer
leaves nothing behind. That last one is the arithmetic of groups: a thread that ends leaves at most
`GroupSize - 1` blocks for each thread that has not, so nothing when there is none.

`ReportsAllClones` puts the parts together. Two similar blocks have a prefix term in common by the
filter, and the index has both under it, so the query of one finds the other (`ClonesMeet`). The
filter is a theorem about any order of the terms; here the order, `SortRank`, is an expression of the GTF,
that is, of the state. So the facts come in as an instance, `Facts == INSTANCE Blocks_proofs WITH Rank <-
SortRank`, whose assumptions are themselves proved in every state of the right types (`SortRankOrders`,
by `DigitsUnique`: two terms of one rank have one frequency and one name). `Delivery` then
follows the clones from the detectors to the file: those of a block that has left the queue of queries
have been handed to the writer (`Handed`, its buffer and the file), are queued or with a detector, or the
writer has failed; the writer ends after the last detector and with an empty queue, and if its flush
succeeds with an empty buffer. `AllClones` has the condition that the threshold is positive
(`IsPositive`), as the theorem about the detector has and for the same reason.

**The four pipelines.** `CloneDetection` has the actions of four modules, and each pipeline takes its
own, but there are only two dozen things that a step can do to the index and the report. So the proof
begins with a normal form: `IsStep` shows that every step of every pipeline is one of `Steps`, which
leaves open what does not matter (how far the poison is, whether a thread that stops has ended or
died, which input an indexer draws from); everything after is proved once, for all four.

`IndexInv` is the inductive invariant of the index. `Phases` says who may be at work while main is
where; `IndexFilled`, that what main has put of the partition is on its way into the index or in it
(`NoneMissing`), and that what is in it is of this partition (`IndexRight`) and has the prefix of its
order (`PrefixesRight`: the order of the file with `-ps`, the GTF of *this* partition otherwise);
`Drawn`, that the last indexer leaves nothing behind. `IndexIsPartition` follows.

`CloneInv` adds what the report needs. `OneSpot` says that a block is in one place, and `Answered`,
that the clones that are out are of blocks whose query has begun: a block of the partition that is
taken for a query has had none before, so its clones are new (`Once`). `Answered` speaks only of pairs
with a block of the current partition (`pair[2] > begin`), as a later block is queried again in every
partition; that is also why `Once` needs to say that no pair is out with a block beyond the partition.
`Sound` says that what is out or on its way is a clone.

Completeness is `Asked`: a block with a prefix, and a block after the partition that main has put, is
on its way to a detector or lost, or all that its query finds is out or with a detector (`Answer`).
When the detectors of a partition have ended, all of that is out, and `PartitionDone` shows that it is
what the promise asks for: of a pair of clones the *second* block is the one in the index, and the
first one is in the same partition or after it, because ids ascend. Were the first one in a partition
before, its id would be smaller, and the pair would not be reported from its side. The two blocks meet
under a common prefix term by `ClonesHaveTerm`, which is the prefix filter for blocks that each come
in an order of their own: it suffices that the two orders agree on the terms that *both* blocks have.
That is weaker than what `SimilarMeetInPrefix` assumes (one order for all terms), and is what `-ps`
rests on. `PastReported` carries the result over the partitions that follow.

All of this is about what the writer has been handed. Three small facts lead from there to the file:
`Saves`, that a step takes nothing from the file and nothing out of the buffer but into it; `Flushed`,
that the buffer is empty when the writer's flush has succeeded; and `HandsClones`, that only clones are
handed over. A run that comes to its end has handed over all clones that it is not excused
(`AllHanded`), so those not in the file are in the buffer of a writer that could not flush, which
excuses them (`EndsReported`); after the end nobody is left to change anything (`NobodyLeft`). The
refinement is then: every step is a `Grow` (`ReportGrows`), main's last step an `End` if the writer has
not failed, an exception of main or of the writer a `Fail` (`OutcomeStep`), and all else is `Work`.

The proof asked for two things that the checks had not shown. The promise must exclude
a similarity of 0 (`IsPositive`, the third conjunct of `Promised`). And it must speak of blocks that
cannot be read: nothing is similar to a block without terms (`NothingIsSimilar`), so that no clone of
one is missing.

**The chain of processes.** `WholeOutput` says that a success of a chain of which nobody failed has
read as many chunks as the file has. `Conserved` has a history, `put[i]`, of what has ever been put into
each pipe; it is not a variable of the model, but each state has one. What was put into a pipe is in
it, or held by the next process, or was put into the next pipe. From this alone the equality would
follow by induction over the chain, from the first process, which has read the file to its end, to
the last; the prover has no such induction. The last conjunct of `Conserved` says it of each process
in each state instead: if it has seen the end of its input, and none before it has failed, then what
it holds and what it has put are the whole file. It is inductive, as a process sees the end when the one before
it has succeeded, so that this one had seen its own end and held nothing.

**Input building.** `GetBlocks` is a recursive function (`upTo`). Without induction, what it computes is shown by
its first wrong place: if the list were wrong at any place there would be a least one (`LeastNumber`,
from the well-foundedness of the numbers), and the list up to the place before would be right,
so that one round of the loop makes this one right too (`ListsNext`). That a function with the equations of the loop
exists at all is shown in the same way (`LoopExists`).

`InSourceOrder` needs that a file is with one worker only (`OneTaker`: it is waiting, or one worker has its
blocks) and that what is written, queued by a worker and still to be put by it are in line
(`InLine`): the blocks of one file then go from one to the next without passing one another, and
blocks of two files are not compared.

`LossBounded` is a count. `Lost` are the files of which a block is nowhere any more, and `LossCounted`
allows `2 * GroupSize` of them for each death: the file that killed the worker with the rest of
its group, and the files of the blocks in its buffer. But files that nobody takes are lost too, and
which these are shows only at the end: a worker may end while others hold groups of files that they have
taken out of the queue. So `RestCounted` counts the waiting files together with the lost ones once a worker has ended:
at most `GroupSize - 1` for each worker that lives, besides what is allowed; a worker that then dies
takes its share from one side of the sum to the other, and when all have ended nothing is left to
wait for. `WritesEveryBlock` is the case without deaths, with the fact that the producer has
recorded each file that the filter accepts (`Recorded`).

## Only model-checked

* Liveness (`Closes`, `Terminates`, `Returns`) and everything with `ENABLED`
  (`HangsOnlyAfterFault`, `HangsOnlyAfterFaultDetection`): out of the reach of the prover.
* `Workflow`: what `readClones` and the report tools compute is a fold over a file, that is, a
  recursion over data.
* What the term processors compute: `Rename`, `FlattenSeq` and the folds are recursive, and the
  prover has no induction over data. (A recursive *function* over numbers can be reasoned about by its
  first wrong place, as in `GetBlocksLists`; these are operators and folds.) With them go the
  properties of `InputBuilderConfiguration`.

## Abstractions

* *Queues of the pipelines* are channels with capacities counted in elements, where the code counts
  groups; both are full at some time and empty at another, and the properties do not tell them apart.
  A thread that takes poison leaves up to a group for each other thread, as a group in a
  receiver's buffer is no longer in the queue (`OnlyHeldBack`).
* *What a dying thread takes along* is any set of at most a group being handed out and a group
  being filled. In the partitioned pipelines the clones a dying detector had buffered may be any in
  the output queue, which is more than can happen.
* *One query is one step* in the pipelines (its clones are then put one by one): the index does not
  change meanwhile, which `IndexedBeforeDetection` shows, and the loop is `HeuristicCloneDetector`'s.
* *Additions to the GTF* are a step for each term. `putIfAbsent` and `addAndGet` are atomic each, and a
  counter that the first one has put or found stays in the map, so what another builder does between
  them changes nothing. The mutant of `AllCounted` is `get` and `put` without `putIfAbsent`: what another
  builder has put in between is gone.
* *Buffers of writers.* That of the report is a set from which everything goes to the file when it is
  full, at any time, and of which any part has gone when a flush fails. Those of `cwbuild` are not
  told from the files, since parse, which flushes them, fails with them.
* *Blocks* of the pipelines have the frequencies of three terms, and lines that matter to overlap and
  size only.
* *Files* are sequences of lines, and a line is a record of its fields with a mark for where it has
  been cut. Header lines, `#` comments and the way a number or a path is written are left out, but
  for a number that is cut, which is another, smaller number.
* *Programs* are one step each in `Workflow`: they run one after the other, and all they share is
  files. The orders in which blocks and clones are written are those that any schedule of their
  threads can produce, and some that none can: a reader may rely on none of them.
* *Chunks* stand for what a pipe of the operating system holds; a process makes one chunk of one.
* *Hash values* do not collide; the order of a `HashSet` is arbitrary but fixed.
* *Interrupts* are with `GroupQueue` only. No code of the repository interrupts a thread.

## Not modelled

* The usage texts and the echo of `cwdetect`, and its option `-idf`, which nothing
  reads after `main`.
* The formatter `xml_withsrc` of `cwformat`. It reads the sources when it formats, possibly years
  after they were parsed, and what it writes has no counterpart to check it against: the second
  source is put after an element that is already closed.
* The converters of `Convert` to the formats of other tools, which write line by line what they read
  (`mf` does not skip the `#` lines that `cwbuild` writes, and dies of the first one).
* `CloneShuffle`, `RetainUniqueLines`: filters of a file by lines, without state but a list or a set
  of lines; and `KeepInterProject`, which prints some of the clones that `readClones` returns.
* `Stemmer`: Porter's algorithm on one word; no other part looks into a word.
* Unused code: `input/txl`, the query pipelines, document frequencies that nothing reads,
  `SingleQueue` (it is an instance of `GroupQueue`, see above).
* Grammars (TXL) and shell scripts, which are external programs to the Java code: `TransformUtil` has what
  their processes can do to it.
* `src/example`. It is a copy of youtube-dl, a subject to try CloneWorks on: not part of the program,
  and never run by it, though it is most of the repository's files and, counted by lines, makes the
  repository look like one in Python. The program is the Java code under `src/src`.

## Plan

Done: queues, detector, the four pipelines and `cwdetect` that composes them, with the promise they
implement; input building, transformations, configuration; the session of all programs with its
cut files, and the report tools; the proofs above.

*Extend.* The id file is read by `cwformat` only after `cwdetect` is done, so that a second
`cwbuild` in between, into the same files, is the next thing to add to `Workflow`; then
`KeepInterProject`.
