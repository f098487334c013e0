---------------------------- MODULE MCGroupQueue ----------------------------
(* GroupQueue on small instances.                                          *)
EXTENDS GroupQueue, TLC

CONSTANTS e1, e2

(* Unequal numbers: groups of two are full when the one emitter flushes, and
   not when the other does.                                                *)
TwoEmitters   == {e1, e2}
TwoNumbers    == (e1 :> 4) @@ (e2 :> 3)
=============================================================================
