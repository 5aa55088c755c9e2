----------------------------- MODULE MCFaAccel -----------------------------
(* Small instances of FaAccel for TLC. *)
EXTENDS FaAccel, TLC

CONSTANTS fa, fb, fc

(* Each flow has a next hop of its own, so a row in the wrong place shows. *)
FlowsAsMacs == [f \in Flow |-> f]

(* Offloadable flows are interchangeable; used with invariants only. *)
Symmetry == Permutations(Offloadable)
=============================================================================
