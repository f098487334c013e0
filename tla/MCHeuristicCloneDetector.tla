---------------------- MODULE MCHeuristicCloneDetector ----------------------
(* HeuristicCloneDetector on small blocks.                                 *)
EXTENDS HeuristicCloneDetector, TLC

CONSTANTS
  a, b, c,          (* terms, in this order                                 *)
  MaxFrequency,     (* of a term in a block                                 *)
  Percentages       (* sim, in percent                                      *)

ThreeTerms == {a, b, c}
ThreeRanks == (a :> 1) @@ (b :> 2) @@ (c :> 3)

(* Math.ceil(n * sim), without rounding.                                   *)
Ceilings ==
  {[n \in 0 .. MaxTokens |-> (n * p + 99) \div 100] : p \in Percentages}

At(id, file, start, end, freq) ==
  [id |-> id, file |-> file, start |-> start, end |-> end, freq |-> freq]

SomeFrequencies == [ThreeTerms -> 0 .. MaxFrequency] \ {[t \in ThreeTerms |-> 0]}

(* Two blocks of any terms in different files, both of them in the index,
   the query the later or the earlier one.                                 *)
Contents ==
  {[query |-> q, indexed |-> {q, d}] :
     q \in {At(id, 1, 1, 3, freq) : id \in {1, 3}, freq \in SomeFrequencies},
     d \in {At(2, 2, 1, 3, freq) : freq \in SomeFrequencies}}

(* Three blocks of the same few terms, one or two files, any lines.        *)
Interval == {<<1, 1>>, <<2, 4>>, <<3, 3>>, <<4, 6>>}
Some(n)  == (a :> 1) @@ (b :> n) @@ (c :> 0)
Places ==
  {[query |-> q, indexed |-> {q, d, e}] :
     q \in {At(2, 1, i[1], i[2], Some(1)) : i \in Interval},
     d \in {At(1, f, i[1], i[2], Some(1)) : f \in {1, 2}, i \in Interval},
     e \in {At(3, f, i[1], i[2], Some(2)) : f \in {1, 2}, i \in Interval}}

Everything == Contents \cup Places
=============================================================================
