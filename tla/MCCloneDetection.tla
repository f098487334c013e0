--------------------------- MODULE MCCloneDetection ---------------------------
(* CloneDetection on small files, with every choice of the options.        *)
EXTENDS CloneDetection, TLC

CONSTANTS
  a, b, c,          (* terms, in the order of their names                   *)
  Percentage        (* sim, in percent                                      *)

ThreeTerms  == {a, b, c}
ThreePlaces == (a :> 0) @@ (b :> 1) @@ (c :> 2)
Reversed    == (a :> 2) @@ (b :> 1) @@ (c :> 0)
Rotated     == (a :> 1) @@ (b :> 2) @@ (c :> 0)

Ceiling == [n \in 0 .. MaxTokens |-> (n * Percentage + 99) \div 100]

Has(m, n, o) == (a :> m) @@ (b :> n) @@ (c :> o)

(* Every block of the file is in a file of its own; order is the order of
   its terms, of which only the pre-sorted pipelines know.                 *)
Line(k, freq, order) ==
  [id |-> k, file |-> k, start |-> 1, end |-> 5, original |-> 10, freq |-> freq,
   order |-> order]

In(o, freqs) == [k \in DOMAIN freqs |-> Line(k, freqs[k], o)]

(* Two partitions and an empty one.  In the first, c is rarer than a, and b
   is not known; the blocks of the second are clones of those in it.       *)
Clones == <<Has(2, 0, 3), Has(3, 0, 0), Has(3, 0, 3), Has(3, 1, 2)>>

(* The last partition is not filled, and one block is too small.           *)
Short == [In(Rotated, <<Has(1, 1, 0), Has(1, 1, 0), Has(1, 1, 1)>>) EXCEPT ![2].end = 2]

(* The first block is in another order than the others.                    *)
Unsorted == [In(ThreePlaces, <<Has(2, 1, 0), Has(2, 1, 1), Has(1, 1, 1)>>)
               EXCEPT ![1].order = Reversed]

(* Ids that do not ascend.                                                 *)
Swapped == [In(ThreePlaces, <<Has(1, 1, 0), Has(0, 1, 1), Has(1, 1, 0)>>)
              EXCEPT ![1].id = 3, ![3].id = 1]

(* Enough blocks without terms to kill the threads that read first, or
   those that read the queries.                                            *)
KillsReaders   == In(ThreePlaces, <<Has(0, 0, 0), Has(0, 0, 0), Has(1, 1, 0), Has(1, 1, 0)>>)
KillsDetectors ==
  [In(ThreePlaces, <<Has(2, 0, 0), Has(0, 2, 0), Has(0, 0, 0), Has(0, 0, 0),
                     Has(2, 0, 0), Has(2, 0, 0), Has(2, 0, 0)>>)
     EXCEPT ![2].end = 2, ![5].end = 2, ![6].end = 2, ![7].end = 2]

AllFiles ==
  {In(Reversed, Clones), Short, Unsorted, Swapped, KillsReaders, KillsDetectors}
=============================================================================
