---------------------------- MODULE MCRoboSwitch ----------------------------
(***************************************************************************)
(* Boards that between them take every branch: the FA off, bypassed and in *)
(* use, with the auxiliary core 0 or 1; the CPU behind port 5, 7 or the    *)
(* IMP; addresses missing or null; switches on the SRAB, MII and SPI.      *)
(***************************************************************************)
EXTENDS RoboSwitch

P(p, f) == [port |-> p, flag |-> f]

\* vlan1ports and vlan2ports with the CPU behind port p.
Lists(p) ==
    1 :> <<P(0, ""), P(1, "t"), P(9, ""), P(p, "*")>>
        @@ 2 :> <<P(4, ""), P(p, "u")>>

Macs(m0, m1, m2) == 0 :> m0 @@ 1 :> m1 @@ 2 :> m2

Soc(mode, macs, p) ==
    [soc |-> TRUE, bus |-> "srab", dev |-> "5301x", pins |-> FALSE,
     reset |-> FALSE, capable |-> TRUE,
     mode |-> mode, mac |-> macs, lists |-> Lists(p)]

External(bus, d) ==
    [soc |-> FALSE, bus |-> bus, dev |-> d, pins |-> TRUE,
     reset |-> FALSE, capable |-> FALSE,
     mode |-> "off", mac |-> Macs("ok", "none", "none"),
     lists |-> Lists(5) @@ 0 :> <<P(2, "")>> @@ 3 :> <<P(3, "")>>]

MCBoards ==
    {Soc("normal", Macs("ok", "none", "none"), 5),
     Soc("normal", Macs("ok", "ok", "none"), 8),
     Soc("normal", Macs("none", "ok", "none"), 7),
     Soc("bypass", Macs("ok", "none", "ok"), 5),
     Soc("off", Macs("ok", "ok", "none"), 5),
     Soc("off", Macs("null", "null", "ok"), 8),
     [Soc("normal", Macs("ok", "none", "none"), 5) EXCEPT !.reset = TRUE],
     [Soc("normal", Macs("ok", "none", "none"), 5) EXCEPT !.capable = FALSE],
     External("spi", "5325"),
     [External("spi", "5325") EXCEPT !.pins = FALSE], External("mii", "5325"),
     [External("mii", "5395") EXCEPT !.mac[1] = "ok"], External("mii", "5398"),
     External("mii", "53115"), External("mii", "53125")}

Bypassed == {b \in MCBoards : b.mode = "bypass"}
=============================================================================
