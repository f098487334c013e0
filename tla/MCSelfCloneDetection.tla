------------------------ MODULE MCSelfCloneDetection ------------------------
(* SelfCloneDetection on small files.                                      *)
EXTENDS SelfCloneDetection, TLC

CONSTANTS
  a, b, c,          (* terms, in the order of their names                   *)
  Percentage        (* sim, in percent                                      *)

ThreeTerms  == {a, b, c}
ThreePlaces == (a :> 0) @@ (b :> 1) @@ (c :> 2)

Ceiling == [n \in 0 .. MaxTokens |-> (n * Percentage + 99) \div 100]

Has(m, n, o) == (a :> m) @@ (b :> n) @@ (c :> o)

(* Every block of the file is in a file of its own.                        *)
Line(k, freq) ==
  [id |-> k, file |-> k, start |-> 1, end |-> 5, original |-> 10, freq |-> freq]

FileOf(freqs) == [k \in DOMAIN freqs |-> Line(k, freqs[k])]

(* The order of the terms matters: the frequent a comes last.              *)
Ordered == FileOf(<<Has(2, 1, 0), Has(2, 1, 1), Has(2, 0, 1), Has(0, 1, 1)>>)
(* One block is too short.                                                 *)
Short == [Ordered EXCEPT ![2].end = 2]
(* Two blocks overlap.                                                     *)
Overlapping == [Ordered EXCEPT ![2].file = 1, ![2].start = 3]
(* One block has lost all its terms and cannot be read.                    *)
Broken == FileOf(<<Has(1, 1, 0), Has(0, 0, 0), Has(1, 1, 0), Has(1, 1, 1)>>)
(* As many such blocks as there are builders.                              *)
Hopeless == FileOf(<<Has(0, 0, 0), Has(1, 1, 0), Has(0, 0, 0), Has(1, 1, 0),
                     Has(1, 1, 1), Has(1, 1, 0)>>)

AllFiles == {Ordered, Short, Overlapping, Broken, Hopeless}
=============================================================================
