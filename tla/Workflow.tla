------------------------------- MODULE Workflow -------------------------------
(***************************************************************************)
(* The programs of CloneWorks as a user runs them: cwbuild, cwdetect and   *)
(* cwformat, twice over the same sources, and then the programs that       *)
(* compare the two reports.  They meet in files only.  Programs may be     *)
(* killed, as some must be (see HangsOnlyAfterFault), and what they have   *)
(* written by then is used all the same: nothing in a file tells that it   *)
(* is not whole, and cwdetect and cwformat end with status 0 whatever they *)
(* have met.                                                               *)
(*                                                                         *)
(* What cwbuild and cwdetect compute is taken from InputBuilder and        *)
(* CloneDetection: all the blocks, and all the clones among the blocks     *)
(* that are read.                                                          *)
(***************************************************************************)
EXTENDS ReportFiles

CONSTANTS
  Sources,         (* names of source files                                 *)
  FragmentsOf,     (* FragmentsOf[s]: the fragments of s, in order          *)
  SimilarIn,       (* SimilarIn[r]: sets of two fragments that are similar
                      by the options of run r                               *)
  PartitionSize,   (* of cwdetect -p                                        *)
  MaxKills         (* bound: how often a program is killed                  *)

Runs == {1, 2}

Fragments == UNION {ToSet(FragmentsOf[s]) : s \in Sources}

ASSUME WorkflowAssumption ==
  /\ \A r \in Runs : \A p \in SimilarIn[r] : p \subseteq Fragments /\ Cardinality(p) = 2
  /\ PartitionSize \in Nat \ {0} /\ MaxKills \in Nat
  /\ Sources \cup {NoName, CutName} \subseteq DOMAIN NameRank

VARIABLES
  run,          (* the run the user is in                                   *)
  program,      (* the program that is next                                 *)
  ids, blocks, clones, report,   (* the files of each run                   *)
  numbering,    (* history: numbering[r], the sources as they were numbered *)
  killed,       (* history: <<run, program>>                                *)
  merged, difference, rawDifference   (* what the programs print            *)

runFiles == <<ids, blocks, clones, report, numbering>>
results  == <<merged, difference, rawDifference>>
workVars == <<run, program, runFiles, killed, results>>

None == [died |-> FALSE, clones |-> {}]

InitWorkflow ==
  /\ run = 1
  /\ program = "cwbuild"
  /\ ids = [r \in Runs |-> <<>>]
  /\ blocks = [r \in Runs |-> <<>>]
  /\ clones = [r \in Runs |-> <<>>]
  /\ report = [r \in Runs |-> <<>>]
  /\ numbering = [r \in Runs |-> <<>>]
  /\ killed = {}
  /\ merged = None /\ difference = None /\ rawDifference = {}

Kill ==
  /\ Cardinality(killed) < MaxKills
  /\ killed' = killed \cup {<<run, program>>}

-----------------------------------------------------------------------------
(* cwbuild: sources are numbered as the file system lists them; the blocks
   of a source are in its order, those of others in between.               *)

IdOf(order, s) == CHOOSE n \in DOMAIN order : order[n] = s

Writings ==
  {w \in SetToSeqs(Fragments) :
     \A s \in Sources : SelectSeq(w, LAMBDA f : f.file = s) = FragmentsOf[s]}

IdFile(order) == <<Comment>> \o [n \in DOMAIN order |-> IdLine(n, order[n])]

BlockFile(order, writing) ==
  <<Comment>> \o
  FlattenSeq([n \in DOMAIN writing |-> BlockLines(IdOf(order, writing[n].file), writing[n])])

Build(i, b) ==
  /\ ids' = [ids EXCEPT ![run] = i]
  /\ blocks' = [blocks EXCEPT ![run] = b]
  /\ program' = "cwdetect"
  /\ UNCHANGED <<run, clones, report, results>>

Cwbuild ==
  /\ program = "cwbuild"
  /\ \E order \in SetToSeqs(Sources), writing \in Writings :
       /\ numbering' = [numbering EXCEPT ![run] = order]
       /\ \/ Build(IdFile(order), BlockFile(order, writing)) /\ UNCHANGED killed
          \/ /\ Kill
             /\ \E i \in CutShort(IdFile(order)), b \in CutShort(BlockFile(order, writing)) :
                  Build(i, b)

-----------------------------------------------------------------------------
(* cwdetect, of the whole file or in partitions, which has two readers.    *)

Compare(some, others) ==
  LET similar(b, c) == {b[2].of, c[2].of} \in SimilarIn[run]
      place(b)      == [id |-> b[1].id, start |-> b[1].start, end |-> b[1].end]
      with(k)       == SelectSeq(SubSeq(some, k + 1, Len(some)) \o others,
                                 LAMBDA c : similar(some[k], c))
      lines(k)      == [n \in DOMAIN with(k) |-> CloneLine(place(some[k]), place(with(k)[n]))]
  IN  FlattenSeq([k \in DOMAIN some |-> lines(k)])

DetectedWhole(f) == Compare(BlocksAfter(f, 0), <<>>)

DetectedPartitioned(f) ==
  LET all        == BlocksAfter(f, 0)
      from(p)    == (p - 1) * PartitionSize
      to(p)      == IF p * PartitionSize < Len(all) THEN p * PartitionSize ELSE Len(all)
      detected(p) == Compare(SubSeq(all, from(p) + 1, to(p)),
                             BlocksAfter(f, SkipBlocks(f, to(p))))
  IN  FlattenSeq([p \in 1 .. Len(all) \div PartitionSize + 1 |-> detected(p)])

(* The detectors compete for the file.                                     *)
Orders(s) == {[n \in DOMAIN s |-> s[order[n]]] : order \in SetToSeqs(DOMAIN s)}

Detect(c) ==
  /\ clones' = [clones EXCEPT ![run] = c]
  /\ program' = "cwformat"
  /\ UNCHANGED <<run, ids, blocks, report, numbering, results>>

Cwdetect ==
  /\ program = "cwdetect"
  /\ \E detected \in {DetectedWhole(blocks[run]), DetectedPartitioned(blocks[run])} :
     \E lines \in Orders(detected) :
       \/ Detect(<<Comment>> \o lines) /\ UNCHANGED killed
       \/ Kill /\ \E c \in CutShort(<<Comment>> \o lines) : Detect(c)

-----------------------------------------------------------------------------
(* cwformat: the ids are read before the report is opened, and the report is
   flushed after the last clone only.                                      *)

Formatted(f) ==
  /\ report' = [report EXCEPT ![run] = f]
  /\ IF run = 1 THEN run' = 2 /\ program' = "cwbuild"
                ELSE program' = "CloneMerge" /\ UNCHANGED run
  /\ UNCHANGED <<ids, blocks, clones, numbering, results>>

Cwformat ==
  /\ program = "cwformat"
  /\ LET xml == Xml(RowsOf(ids[run], clones[run]))
     IN  IF ~ IdsReadable(ids[run])
         THEN Formatted(<<>>) /\ UNCHANGED killed
         ELSE IF FormatDies(clones[run])
         THEN \E f \in CutShort(xml) : Formatted(f) /\ UNCHANGED killed
         ELSE \/ Formatted(xml) /\ UNCHANGED killed
              \/ Kill /\ \E f \in CutShort(xml) : Formatted(f)

-----------------------------------------------------------------------------
(* cat report1 report2 | CloneMerge; CloneSubtract report2 < report1;
   CloneSubtractRaw ids1 clones1 ids2 clones2.                             *)

Printed(s) == [died |-> s.died, clones |-> IF s.died THEN {} ELSE s.set]

CloneMerge ==
  /\ program = "CloneMerge"
  /\ merged' = Printed(ReadFile(ReadFile(Nothing, report[1], report[2] # <<>>),
                                report[2], FALSE))
  /\ program' = "CloneSubtract"
  /\ UNCHANGED <<run, runFiles, killed, difference, rawDifference>>

(* Mutant: clones are equal whose first fragments are.                     *)
RemoveClonesByFirst(input, remove) == {p \in input : \A q \in remove : p[1] # q[1]}

RemoveClones(input, remove) == input \ remove

CloneSubtract ==
  /\ program = "CloneSubtract"
  /\ LET input  == ReadFile(Nothing, report[1], FALSE)
         remove == ReadFile(Nothing, report[2], FALSE)
     IN  difference' = Printed([died |-> input.died \/ remove.died,
                                set |-> RemoveClones(input.set, remove.set)])
  /\ program' = "CloneSubtractRaw"
  /\ UNCHANGED <<run, runFiles, killed, merged, rawDifference>>

CloneSubtractRaw ==
  /\ program = "CloneSubtractRaw"
  /\ LET lines(f) == {l \in ToSet(f) : l.kind # "#"}
     IN  rawDifference' = lines(clones[1]) \ lines(clones[2])
  /\ program' = "done"
  /\ UNCHANGED <<run, runFiles, killed, merged, difference>>

StepWorkflow ==
  Cwbuild \/ Cwdetect \/ Cwformat \/ CloneMerge \/ CloneSubtract \/ CloneSubtractRaw

DoneWorkflow == program = "done" /\ UNCHANGED workVars

SpecWorkflow == InitWorkflow /\ [][StepWorkflow \/ DoneWorkflow]_workVars
-----------------------------------------------------------------------------
(* Properties.                                                             *)

Ran(r, p) == <<r, p>> \notin killed

(* Programs that run r has behind it.                                      *)
Past(r, p) ==
  LET place == [cwbuild |-> 1, cwdetect |-> 2, cwformat |-> 3]
  IN  \/ r < run
      \/ program \notin DOMAIN place
      \/ r = run /\ place[p] < place[program]

Fragment(r, b) == [file |-> numbering[r][b.id], start |-> b.start, end |-> b.end]
Pair(r, l)     == {Fragment(r, l.left), Fragment(r, l.right)}

(* The fragments whose blocks are in the file to the end.                  *)
WholeBlocks(f) ==
  {f[n].of : n \in {m \in DOMAIN f : f[m].kind = "terms" /\ m + 1 \in DOMAIN f
                                     /\ Whole(f[m + 1])}}

(* A cwdetect that ends has written every clone among the blocks that are
   whole, once and with its own lines, in partitions too: a file that stops
   within a block costs this block, and the reader that skips blocks finds
   the same ones as the one that reads them.                               *)
DetectsWholeBlocks ==
  \A r \in Runs : Past(r, "cwdetect") /\ Ran(r, "cwdetect") =>
    LET lines    == SelectSeq(clones[r], LAMBDA l : l.kind = "pair")
        expected == {p \in SimilarIn[r] : p \subseteq WholeBlocks(blocks[r])}
    IN  Len(lines) = Cardinality(expected) /\ {Pair(r, l) : l \in ToSet(lines)} = expected

(* The clones of a report, as sets of two.                                 *)
Reported(f) ==
  {{[file |-> f[n].file, start |-> f[n].start, end |-> f[n].end] : n \in {k + 1, k + 2}}
     : k \in {m \in DOMAIN f : f[m].kind = "<clone" /\ m + 3 \in DOMAIN f /\ Whole(f[m + 3])}}

(* What is wrong in a report, after whichever program was killed: the number
   of at most one clone, and names of the last id that was written and of
   those after it.                                                         *)
ReportTrue ==
  \A r \in Runs : Past(r, "cwformat") =>
    LET named    == {numbering[r][l.id] : l \in {m \in ToSet(ids[r]) : m.kind = "id" /\ Whole(m)}}
        true(p)  == p \in SimilarIn[r]
        known(p) == \A f \in p : f.file \in named
        wrong    == {p \in Reported(report[r]) : known(p) /\ ~ true(p)}
    IN  /\ Cardinality(wrong) <= IF Ran(r, "cwdetect") THEN 0 ELSE 1
        /\ \A p \in Reported(report[r]) : ~ known(p) =>
             ~ Ran(r, "cwbuild") /\ \A f \in p : f.file \in named \cup {NoName, CutName}
        /\ (\A p \in {"cwbuild", "cwdetect", "cwformat"} : Ran(r, p)) =>
             /\ Reported(report[r]) = SimilarIn[r]
             /\ Len(report[r]) = 1 + 4 * Cardinality(SimilarIn[r])

Unordered(set) == {{p[1], p[2]} : p \in set}

(* Of two reports, cut or not, CloneMerge prints all the clones they have to
   the end and no others, or nothing.                                      *)
MergeRight ==
  program \in {"CloneSubtract", "CloneSubtractRaw", "done"} /\ ~ merged.died =>
    Unordered(merged.clones) = Reported(report[1]) \cup Reported(report[2])

SameNumbers == numbering[1] = numbering[2]

(* If both runs have numbered the sources alike, the differences of their
   reports, and of the files of clones, are those of the clones.           *)
DifferenceRight ==
  program = "done" /\ SameNumbers =>
    /\ ~ difference.died =>
         Unordered(difference.clones) = Reported(report[1]) \ Reported(report[2])
    /\ killed = {} => {Pair(1, l) : l \in rawDifference} = SimilarIn[1] \ SimilarIn[2]

(* After CloneSubtract has removed the clones of a report, none of them is
   left.  It is violated: two runs may number the sources differently, so that
   a clone has its fragments in the other order, which XMLClone means to undo
   and does not.                                                           *)
SubtractRemoves ==
  program = "done" => Unordered(difference.clones) \cap Reported(report[2]) = {}
=============================================================================
