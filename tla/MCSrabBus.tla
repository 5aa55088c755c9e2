----------------------------- MODULE MCSrabBus -----------------------------
(* Small instances of SrabBus for TLC. *)
EXTENDS SrabBus
=============================================================================
