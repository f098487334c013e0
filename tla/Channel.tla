------------------------------ MODULE Channel ------------------------------
(***************************************************************************)
(* What a queue of util.blockingqueue promises to the threads at its two   *)
(* ends, with no word of groups, buffers, capacity or poison: every        *)
(* element accepted from an emitter is handed to one receiver, once; a     *)
(* receiver that was told the stream is over is handed nothing more; and   *)
(* the last receiver is told so only when nothing is left in between.      *)
(***************************************************************************)
EXTENDS FiniteSets

CONSTANTS
  Elements,     (* everything the emitters may put                          *)
  Receivers     (* the threads at the receiving end                         *)

VARIABLES
  accepted,     (* elements whose put() has returned                        *)
  delivered,    (* delivered[r]: elements take() has returned to r          *)
  ended         (* receivers whose take() has answered "poisoned"           *)

vars == <<accepted, delivered, ended>>

Delivered == UNION {delivered[r] : r \in Receivers}

Init ==
  /\ accepted = {}
  /\ delivered = [r \in Receivers |-> {}]
  /\ ended = {}

(* The emitters stop before the first receiver is told to stop.            *)
Accept(x) ==
  /\ ended = {}
  /\ x \notin accepted
  /\ accepted' = accepted \cup {x}
  /\ UNCHANGED <<delivered, ended>>

Deliver(r, x) ==
  /\ r \notin ended
  /\ x \in accepted \ Delivered
  /\ delivered' = [delivered EXCEPT ![r] = @ \cup {x}]
  /\ UNCHANGED <<accepted, ended>>

(* The last receiver to stop leaves nothing behind.                        *)
End(r) ==
  /\ r \notin ended
  /\ ended' = ended \cup {r}
  /\ ended' = Receivers => Delivered = accepted
  /\ UNCHANGED <<accepted, delivered>>

Next ==
  \/ \E x \in Elements : Accept(x)
  \/ \E r \in Receivers, x \in Elements : Deliver(r, x)
  \/ \E r \in Receivers : End(r)

Spec == Init /\ [][Next]_vars
============================================================================
