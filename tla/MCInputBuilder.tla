--------------------------- MODULE MCInputBuilder ---------------------------
(* InputBuilder on small systems.                                          *)
EXTENDS InputBuilder

Fragment(start, end, original, left) ==
  [start |-> start, end |-> end, original |-> original, left |-> left]
Source(suffix, output, blocks) ==
  [suffix |-> suffix, output |-> output, blocks |-> blocks]

Small == Fragment(1, 2, 3, 2)
One   == <<Fragment(1, 6, 9, 4)>>
Two   == <<Fragment(1, 6, 9, 4), Fragment(8, 15, 9, 3)>>
Three == <<Fragment(1, 6, 9, 4), Fragment(3, 5, 8, 0), Fragment(9, 15, 9, 3)>>

(* Every file either has its blocks or is left out.                        *)
Good ==
  {<<Source(".java", "ok", Two), Source(".txt", "ok", Two),
     Source(".java", "ok", Three), Source(".java", "ok", <<Small>>)>>,
   <<Source(".java", "failed", <<>>), Source(".JAVA", "ok", Two),
     Source(".java", "ok", Two), Source(".java", "ok", Two)>>}

(* The filter for C takes a .C file, which is a C++ file to getLanguage.   *)
Deadly ==
  {<<Source(".c", "ok", Two), Source(".C", "ok", Two),
     Source(".c", "ok", Two), Source(".h", "ok", Two)>>,
   <<Source(".c", "ok", Two), Source(".C", "ok", Two), Source(".c", "garbled", <<>>),
     Source(".c", "ok", Two), Source(".c", "ok", Two)>>,
   <<Source(".C", "ok", Two), Source(".C", "ok", Two),
     Source(".c", "ok", Two), Source(".c", "ok", Two), Source(".c", "ok", Two)>>,
   <<Source(".C", "ok", Two)>> \o [i \in 1 .. 6 |-> Source(".c", "ok", One)]}

SomeListings == Good \cup Deadly
=============================================================================
