----------------------------- MODULE CloneReport -----------------------------
(***************************************************************************)
(* What a run of clone detection promises, whichever of the four pipelines *)
(* does it: it reports nothing but clones, takes no report back, and when  *)
(* it comes to its end it has reported all of them but those it is excused.*)
(*                                                                         *)
(* A run is excused the clones of blocks that threads took along when they *)
(* died, and those that it could not write.  A run that has failed         *)
(* promises only that what it still reports are clones.                    *)
(***************************************************************************)
VARIABLES
  clones,      (* the pairs to report: chosen by the input, never changed   *)
  reported,    (* the pairs in the report                                   *)
  excused,     (* the pairs that may be missing from it                     *)
  outcome      (* "running", "ended" or "failed"                            *)

reportVars == <<clones, reported, excused, outcome>>

Init ==
  /\ reported = {}
  /\ outcome = "running"

(* Clones are reported, or a thread dies.                                  *)
Grow ==
  /\ reported \subseteq reported' /\ reported' \subseteq clones
  /\ excused \subseteq excused' /\ excused' \subseteq clones
  /\ UNCHANGED clones

Work ==
  /\ outcome # "ended"
  /\ Grow
  /\ UNCHANGED outcome

End ==
  /\ outcome = "running"
  /\ outcome' = "ended"
  /\ Grow
  /\ clones \subseteq reported' \cup excused'

Fail ==
  /\ outcome = "running"
  /\ outcome' = "failed"
  /\ Grow

Next == Work \/ End \/ Fail

Spec == Init /\ [][Next]_reportVars
=============================================================================
