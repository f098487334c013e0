----------------------------- MODULE ReportFiles -----------------------------
(***************************************************************************)
(* The text files that the programs hand on, and how they are read: the    *)
(* ids of source files and the blocks (input.utils), the clones            *)
(* (detection.util), and the reports of cwformat, which CloneSubtract and  *)
(* its relatives read again.                                               *)
(*                                                                         *)
(* A file is a sequence of lines.  Its writer buffers, so that the file of *)
(* a program that is killed, or cannot write any more, is a prefix of the  *)
(* file it would have written: its last line may be cut.  A fragment is    *)
(* [file |-> , start |-> , end |-> ].                                      *)
(***************************************************************************)
EXTENDS Naturals, SequencesExt

CONSTANT NameRank   (* the order of the names of source files              *)

(* Where a line may be cut, as far as a reader could tell: "start" is before
   it has all its fields, "text" in the path or number that is its last
   field, "tag" in the name of an element.                                 *)
Cuts ==
  [kind \in {"#", "id", "block", "terms", ">", "pair",
             "<?xml", "<clone", "<source", "</clone>"} |->
     CASE kind \in {"#", "<?xml"}                          -> {}
       [] kind \in {"id", "pair"}                          -> {"start", "text"}
       [] kind \in {"block", "terms", ">"}                 -> {"start"}
       [] kind \in {"<clone", "</clone>"}                  -> {"tag"}
       [] kind = "<source"                                 -> {"tag", "start", "text"}]

CutShort(f) ==
  {SubSeq(f, 1, n) : n \in 0 .. Len(f)} \cup
  UNION {{Append(SubSeq(f, 1, n - 1), [f[n] EXCEPT !.cut = c]) : c \in Cuts[f[n].kind]}
           : n \in 1 .. Len(f)}

Whole(l) == l.cut = "no"

-----------------------------------------------------------------------------
(* FileIDWriter, BlockWriter, CloneFileWriter.  Headers are comments.      *)

Comment == [kind |-> "#", cut |-> "no"]

IdLine(id, path) == [kind |-> "id", id |-> id, path |-> path, cut |-> "no"]

(* A block is found similar to others by its terms, which are those of a
   fragment.                                                               *)
BlockLines(id, f) ==
  <<[kind |-> "block", id |-> id, start |-> f.start, end |-> f.end, cut |-> "no"],
    [kind |-> "terms", of |-> f, cut |-> "no"],
    [kind |-> ">", cut |-> "no"]>>

(* Mutant: a pair is put in order by exchanging the ids alone.             *)
CloneLineIds(b, c) ==
  [kind |-> "pair", cut |-> "no", left |-> [b EXCEPT !.id = IF c.id < b.id THEN c.id ELSE b.id],
   right |-> [c EXCEPT !.id = IF c.id < b.id THEN b.id ELSE c.id]]

(* The constructor of detection.detection.Clone.                           *)
CloneLine(b, c) ==
  LET inOrder ==
        \/ b.id < c.id
        \/ b.id = c.id /\ b.start < c.start
        \/ b.id = c.id /\ b.start = c.start /\ b.end <= c.end
  IN  [kind |-> "pair", cut |-> "no",
       left |-> IF inOrder THEN b ELSE c, right |-> IF inOrder THEN c ELSE b]

-----------------------------------------------------------------------------
(* BlockFileReader: a reader is at the line it has read last.              *)

Ends(f) == {n \in DOMAIN f : f[n].kind = ">" /\ Whole(f[n])}

(* The next end of a block; after the last one, the end of the file.       *)
SkipBlock(f, at) ==
  LET ends == {n \in Ends(f) : n > at}
  IN  IF ends = {} THEN Len(f) ELSE Min(ends)

(* Mutant: one block less is skipped.                                      *)
SkipBlocksBut(f, num) ==
  LET skipped[n \in 0 .. num] == IF n <= 1 THEN 0 ELSE SkipBlock(f, skipped[n - 1])
  IN  skipped[num]

SkipBlocks(f, num) ==
  LET skipped[n \in 0 .. num] == IF n = 0 THEN 0 ELSE SkipBlock(f, skipped[n - 1])
  IN  skipped[num]

(* nextInputBlockString, up to null: lines without an end are not a block. *)
BlocksAfter(f, at) ==
  LET block(a, b) == SelectSeq(SubSeq(f, a + 1, b - 1), LAMBDA l : l.kind # "#")
      ends        == SetToSortSeq({n \in Ends(f) : n > at}, <)
  IN  [k \in DOMAIN ends |-> block(IF k = 1 THEN at ELSE ends[k - 1], ends[k])]

-----------------------------------------------------------------------------
(* cwformat.                                                               *)

NoName  == "null"
CutName == "cut"
CutEnd  == 0

(* ReportReader.parseFiles ends in an exception at a line without a path.  *)
IdsReadable(ids) == \A n \in DOMAIN ids : ids[n].kind = "id" => ids[n].cut # "start"

(* The map of parseFiles, as get answers.                                  *)
NameOf(ids, id) ==
  LET lines == {l \in ToSet(ids) : l.kind = "id" /\ l.id = id}
  IN  IF lines = {} THEN NoName
      ELSE LET l == CHOOSE l \in lines : TRUE IN IF Whole(l) THEN l.path ELSE CutName

(* ReportReader.nextClone, which ends in an exception at a line without all
   of its numbers.                                                         *)
Readable(l) == l.cut # "start"

RowOf(ids, l) ==
  LET side(b) == [file |-> NameOf(ids, b.id), start |-> b.start, end |-> b.end]
  IN  <<side(l.left),
        [side(l.right) EXCEPT !.end = IF Whole(l) THEN @ ELSE CutEnd]>>

(* The rows that formatter.csv and formatter.xml write.                    *)
RowsOf(ids, clones) ==
  LET lines == SelectSeq(clones, LAMBDA l : l.kind # "#" /\ Readable(l))
  IN  [k \in DOMAIN lines |-> RowOf(ids, lines[k])]

FormatDies(clones) == \E n \in DOMAIN clones : ~ Readable(clones[n])

Xml(rows) ==
  LET source(f) ==
        [kind |-> "<source", file |-> f.file, start |-> f.start, end |-> f.end, cut |-> "no"]
      element(row) ==
        <<[kind |-> "<clone", cut |-> "no"], source(row[1]), source(row[2]),
          [kind |-> "</clone>", cut |-> "no"]>>
  IN  <<[kind |-> "<?xml", cut |-> "no"]>>
        \o FlattenSeq([k \in DOMAIN rows |-> element(rows[k])])

-----------------------------------------------------------------------------
(* CloneSubtract.readClones.                                               *)

(* XMLCodeFragment.compareTo.                                              *)
Before(f, g) ==
  \/ NameRank[f.file] < NameRank[g.file]
  \/ f.file = g.file /\ f.start < g.start
  \/ f.file = g.file /\ f.start = g.start /\ f.end < g.end

(* The constructor of XMLClone compares the first fragment with itself, and
   so exchanges the two of every clone.                                    *)
XMLClone(f1, f2) == IF Before(f1, f1) THEN <<f1, f2>> ELSE <<f2, f1>>

Nothing == [inClone |-> FALSE, inFirst |-> FALSE, f1 |-> <<>>, f2 |-> <<>>,
            set |-> {}, died |-> FALSE]

(* Mutant: a clone that is cut off is not forgotten.                       *)
OpenOnce(s) == [s EXCEPT !.inClone = TRUE, !.inFirst = s.inFirst \/ ~ s.inClone]

OpenClone(s) == [s EXCEPT !.inClone = TRUE, !.inFirst = TRUE]

(* The last line of a file runs on into the next one, so that its last number
   is none; alone it is a shorter number.                                  *)
ReadSource(s, l, runsOn) ==
  LET f == [file |-> l.file, start |-> l.start, end |-> IF Whole(l) THEN l.end ELSE CutEnd]
  IN  CASE ~ s.inClone \/ l.cut = "tag"                       -> s
        [] l.cut = "start" \/ (l.cut = "text" /\ runsOn)      -> [s EXCEPT !.died = TRUE]
        [] OTHER -> IF s.inFirst THEN [s EXCEPT !.f1 = f, !.inFirst = FALSE]
                                 ELSE [s EXCEPT !.f2 = f]

CloseClone(s) ==
  IF s.inClone THEN [s EXCEPT !.set = @ \cup {XMLClone(s.f1, s.f2)}, !.inClone = FALSE]
               ELSE s

ReadLine(s, l, runsOn) ==
  CASE s.died -> s
    [] ~ s.died /\ l.kind = "<clone" /\ Whole(l)    -> OpenClone(s)
    [] ~ s.died /\ l.kind = "<source"               -> ReadSource(s, l, runsOn)
    [] ~ s.died /\ l.kind = "</clone>" /\ Whole(l)  -> CloseClone(s)
    [] OTHER -> s

(* f is followed by another file, or is the last one.                      *)
ReadFile(s, f, another) == FoldLeft(LAMBDA t, l : ReadLine(t, l, another), s, f)
=============================================================================
