------------------------------ MODULE MCEtPort ------------------------------
(***************************************************************************)
(* Two phys of the switch, one of them outside pwrsave_phys, and the times *)
(* as short as they can be with every branch of the duty cycle reached.    *)
(* Three groups for a list of three, a phy with three rates.  The kinds of *)
(* settings do not depend on each other, so each is changed on the board   *)
(* where it matters.                                                       *)
(***************************************************************************)
EXTENDS EtPort

MCPhyCaps == {<<1000, "full">>, <<100, "full">>, <<100, "half">>}
MCSpeeds == {<<0, "half">>, <<100, "full">>, <<100, "half">>}
MCPartners ==
    {{}, {<<1000, "full">>, <<100, "full">>}, {<<100, "half">>}, {<<10, "full">>, <<100, "full">>}}
MCOps == [b \in {"robo", "none", "mii", "gmii"} |->
            IF b \in {"mii", "gmii"} THEN {"speed", "loop"}
            ELSE IF b = "none" THEN {"flags", "groups"} ELSE {}]
=============================================================================
