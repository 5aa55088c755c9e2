----------------------------- MODULE MCUplinks -----------------------------
(* Small instances of Uplinks for TLC. *)
EXTENDS Uplinks

CONSTANTS american, american24, gwA, gwB, dnsA, dnsB, dnsC

(* american_wwan is asked about first. *)
BothUplinks == <<american, american24>>

(* Two networks with servers of their own, one of which has two gateways.  *)
TwoNetworks ==
  [i \in {american, american24} |->
     IF i = american THEN {[gw |-> gwA, dns |-> {dnsA, dnsB}]}
                     ELSE {[gw |-> g, dns |-> {dnsC}] : g \in {gwA, gwB}}]

(* One network by both radios: the same gateway and the same server. *)
OneNetwork ==
  [i \in {american, american24} |-> {[gw |-> gwA, dns |-> {dnsA}]}]
=============================================================================
