---------------------------- MODULE CloneDetection ----------------------------
(***************************************************************************)
(* interfaces.CloneDetection: cwdetect.  Its main reads the options and    *)
(* runs one of the four pipelines; this module composes them.  A pipeline  *)
(* leaves the variables that only others have at rest.                     *)
(***************************************************************************)
EXTENDS SelfPartitionedCloneDetectionPreSorted

VARIABLE options   (* -ps and -p: [presorted |-> , partitioned |-> ]        *)

detectVars ==
  <<vars, partitionVars, laterVars, source, lostClones, indexedBy, options>>

(* What main lets pass of the other options; with anything else it prints
   the usage and exits.  0 as an upper limit is none.                      *)
OptionsAllowed ==
  /\ {MinLines, MaxLines, MinTokens, MaxTokensAllowed} \subseteq Nat
  /\ MaxLines # 0 /\ MinLines # 0 => MaxLines >= MinLines
  /\ MaxTokensAllowed # 0 /\ MinTokens # 0 => MaxTokensAllowed >= MinTokens

ASSUME OptionsAssumption == OptionsAllowed

-----------------------------------------------------------------------------
(* A step A of one of the pipelines.                                       *)

Chosen(presorted, partitioned) ==
  options = [presorted |-> presorted, partitioned |-> partitioned]

Rest == UNCHANGED <<partitionVars, laterVars, source, lostClones>>

Whole(A)             == Chosen(FALSE, FALSE) /\ A /\ Rest /\ UNCHANGED <<indexedBy, options>>
WholeGiven(A)        == Chosen(TRUE, FALSE) /\ A /\ Rest /\ UNCHANGED options
Partitions(A)        == Chosen(FALSE, TRUE) /\ A /\ UNCHANGED <<indexedBy, options>>
PartitionsGiven(A)   == Chosen(TRUE, TRUE) /\ A /\ UNCHANGED options

(* The variables that a pipeline of whole files does not have.             *)
AtRest ==
  /\ begin = 0 /\ endReached = FALSE
  /\ later = 0 /\ laterQueue = {} /\ laterPoison = NoPoison
  /\ source = [w \in Workers |-> "index"]
  /\ lostClones = {}

InitDetection ==
  \/ Chosen(FALSE, FALSE) /\ Init /\ AtRest /\ indexedBy = [w \in Workers |-> {}]
  \/ Chosen(TRUE, FALSE) /\ InitPreSorted /\ AtRest
  \/ Chosen(FALSE, TRUE) /\ InitPartitioned /\ indexedBy = [w \in Workers |-> {}]
  \/ Chosen(TRUE, TRUE) /\ InitGiven

-----------------------------------------------------------------------------
(* The threads.                                                            *)

MainThread ==
  \/ Whole(Main)
  \/ WholeGiven(MainPreSorted /\ UNCHANGED indexedBy)
  \/ Partitions(MainPartitioned)
  \/ PartitionsGiven(MainGiven)

BuilderThread(w) ==
  \/ Whole(Builder(w))
  \/ Partitions(Builder(w) /\ SameRest)

IndexerThread(w) ==
  \/ Whole(Indexer(w))
  \/ WholeGiven(IndexerPreSorted(w) /\ PutBy(w))
  \/ Partitions(Indexer(w) /\ SameRest)
  \/ PartitionsGiven(IndexerGiven(w))

DetectorThread(w) ==
  \/ Whole(Detector(w))
  \/ WholeGiven(Detector(w) /\ UNCHANGED indexedBy)
  \/ Partitions(DetectorPartitioned(w))
  \/ PartitionsGiven(DetectorGiven(w))

WriterThread == Writer /\ SameElse /\ UNCHANGED options

(* The exceptions of detect are caught in main, which prints them; those of
   the writer are caught by itself.                                        *)
IOFails ==
  \/ (ReadFails \/ FinishFails \/ WriterFails) /\ SameElse /\ UNCHANGED options
  \/ QueryFails /\ UNCHANGED <<indexedBy, options>>

-----------------------------------------------------------------------------
StepDetection ==
  \/ MainThread
  \/ \E w \in Workers : BuilderThread(w) \/ IndexerThread(w) \/ DetectorThread(w)
  \/ WriterThread
  \/ IOFails

TerminatingDetection == main = "done" /\ UNCHANGED detectVars

NextDetection == StepDetection \/ TerminatingDetection

(* The scheduler starves no runnable thread.                               *)
FairnessDetection ==
  /\ WF_detectVars(MainThread)
  /\ \A w \in Workers :
       /\ WF_detectVars(BuilderThread(w))
       /\ WF_detectVars(IndexerThread(w))
       /\ WF_detectVars(DetectorThread(w))
  /\ WF_detectVars(WriterThread)

SpecDetection == InitDetection /\ [][NextDetection]_detectVars /\ FairnessDetection

-----------------------------------------------------------------------------
(* Properties; Terminates is checked too.                                  *)

ByName == INSTANCE Blocks WITH Rank <- TermOrder

(* A pipeline needs of its file: blocks sorted alike if it does not sort
   them, and ids that ascend if it goes by partitions.  (At a sim of 0, blocks
   that have nothing in common are not candidates.)                        *)
Sorted    == {f \in Files : SortedAlike(f)}
Ascending == {f \in Files : IdsAscend(f)}

Promised ==
  /\ options.presorted => file \in Sorted
  /\ options.partitioned => file \in Ascending
  /\ ByName!IsPositive(threshold)

(* The pairs a run on f should report.                                     *)
ClonesOf ==
  [f \in Files |->
     LET approved == {k \in DOMAIN f : Approved(f[k])}
     IN  {p \in approved \X approved : ByName!ClonePair(f[p[1]], f[p[2]], threshold)}]

(* Blocks that dead threads took along, or left behind at the end.         *)
Gone == lost \cup (IF main = "done" THEN inputQueue \cup laterQueue ELSE {})

(* Clones that were in the writer's buffer when its flush() failed.        *)
Unsaved == IF main = "done" /\ writer = "unflushed" THEN buffer ELSE {}

Excused ==
  {p \in ClonesOf[file] :
     \/ ~ Promised
     \/ p[1] \in Gone \/ p[2] \in Gone
     \/ p \in lostClones \/ p \in Unsaved}

Outcome ==
  CASE main \in {"failed", "unclosed"} \/ writer = "failed" -> "failed"
    [] main = "done" /\ writer # "failed"   -> "ended"
    [] OTHER                                -> "running"

(* All four pipelines keep the promise of CloneReport: partitions and given
   orders do not change what is reported, also when blocks cannot be read or
   the clones not be flushed.                                              *)
Promise == INSTANCE CloneReport WITH
  clones <- ClonesOf[file], reported <- written, excused <- Excused, outcome <- Outcome

ImplementsReport == Promise!Spec

(* While a partition (or a file in one) is queried its index holds the
   approved blocks of this partition, of no other, and under all the terms
   of their prefixes.                                                      *)
IndexIsPartition ==
  (\E w \in Workers : detector[w].pc # "wait") =>
    /\ \A t \in Terms : index[t] \subseteq begin + 1 .. fed
    /\ \A k \in (begin + 1 .. fed) \ (lost \cup inputQueue) : Approved(file[k]) =>
         prefix[k] # {} /\ \A t \in prefix[k] : k \in index[t]

(* The threads that take what main puts on the input queue.                *)
Takers == IF options.presorted THEN indexer ELSE builder

(* A run that cannot go on is one that has ended, whose reader or last flush
   failed, whose writer died with the output queue full, or in which all the
   threads that would take from a full queue have died.                    *)
HangsOnlyAfterFaultDetection ==
  \/ ENABLED StepDetection
  \/ main \in {"done", "failed", "unclosed"}
  \/ main \in {"put", "poison"} /\ ~ InputRoom /\ Terminated(Takers)
  \/ main \in {"put query", "poison queries"} /\ ~ LaterRoom /\ Terminated(detector)
  \/ writer = "failed" /\ ~ HasRoom(outputQueue, OutputCapacity)
=============================================================================
