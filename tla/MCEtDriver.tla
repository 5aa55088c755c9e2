----------------------------- MODULE MCEtDriver -----------------------------
(* EtDriver for TLC. *)
EXTENDS EtDriver
=============================================================================
