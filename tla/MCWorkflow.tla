------------------------------ MODULE MCWorkflow ------------------------------
(* Workflow on two source files with three fragments.                      *)
EXTENDS Workflow, TLC

SourceNames == {"A.java", "B.java"}

Ranks == ("A.java" :> 1) @@ ("B.java" :> 2) @@ (CutName :> 3) @@ (NoName :> 4)

A1 == [file |-> "A.java", start |-> 10, end |-> 20]
A2 == [file |-> "A.java", start |-> 30, end |-> 40]
B1 == [file |-> "B.java", start |-> 10, end |-> 25]

TheFragments == ("A.java" :> <<A1, A2>>) @@ ("B.java" :> <<B1>>)

(* The second run asks for more similarity.                                *)
TheSimilar == <<{{A1, B1}, {A2, B1}, {A1, A2}}, {{A2, B1}}>>
=============================================================================
