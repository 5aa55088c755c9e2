-------------------------- MODULE MCRadioWatchdog --------------------------
(* Small instances of RadioWatchdog for TLC. *)
EXTENDS RadioWatchdog
=============================================================================
