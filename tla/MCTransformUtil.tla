--------------------------- MODULE MCTransformUtil ---------------------------
(* TransformUtil on chains of one and two processes.                       *)
EXTENDS TransformUtil
=============================================================================
