------------------------------- MODULE EtPort -------------------------------
(***************************************************************************)
(* The timer and the power save of EtWatchdog together with the settings   *)
(* of EtMac: et_open, et_close and the handler of the timer do their part  *)
(* in both, the ioctls in one of them, all under ET_LOCK but for the       *)
(* multicast list, which the stack hands over with bottom halves off.  A   *)
(* board has the switch whose ports the power save handles, or the MAC has *)
(* a phy of its own, or neither (boardflags and phyaddr in chipattach).    *)
(***************************************************************************)
EXTENDS EtWatchdog

CONSTANTS Group, MaxMulti, Speeds, PhyCaps, Partners, Ops, MaxMisses, LostWrites, NoGroup

VARIABLES board, eth, dev, partner, misses

Mac == INSTANCE EtMac

ASSUME SettingsAssumption ==
    /\ NoGroup \notin Group /\ MaxMulti \in Nat \ {0} /\ MaxMisses \in Nat
    /\ PhyCaps \subseteq Mac!Gig \cup Mac!Slow
    /\ Speeds \subseteq {Mac!Auto} \cup PhyCaps
    /\ Partners \subseteq SUBSET (Mac!Gig \cup Mac!Slow)
    /\ \A b \in Mac!Boards : Ops[b] \subseteq {"speed", "loop", "flags", "groups"}
    /\ LostWrites \subseteq {"reset", "force", "advertise"}

macVars == <<board, eth, dev, partner, misses>>
portVars == <<vars, macVars>>
Robo == board = "robo"

PortInit ==
    /\ Init /\ Mac!MacInit
    /\ ~Robo => ~capable /\ manual = {} /\ auto = {} /\ link = {}

PortUp == Up /\ Mac!MacOpen
PortDown == Down /\ Mac!MacClose
PortDownEnd == DownEnd /\ Mac!MacCloseEnd
PortFires == TimerFires /\ UNCHANGED macVars

\* The handler: the power save only where there is a switch.
PortTick ==
    /\ HandlerEnds /\ Mac!MacTick
    /\ IF Robo THEN Seconds ELSE UNCHANGED <<clock, saveVars>>

\* What happens on the switch; there is one on its board only.
SwitchStep ==
    /\ Robo
    /\ \E p \in Phys :
          \/ LinkChange(p)
          \/ \E mode \in {"NORMAL", "AUTO", "MANUAL", "AUTO_MANUAL"} : PowerSaveSet(mode, p)
    /\ UNCHANGED macVars

\* The ioctls of EtMac; while et_close waits for the lock it holds rtnl.
MacStep ==
    /\ \/ ~closing /\ Mac!MacIoctl
       \/ Mac!ChangeGroups
       \/ Mac!PartnerChange
    /\ UNCHANGED vars

PortNext ==
    \/ PortUp \/ PortDown \/ PortDownEnd \/ PortFires \/ PortTick
    \/ SwitchStep \/ MacStep

\* The fairness of EtWatchdog.
PortSpec ==
    /\ PortInit /\ [][PortNext]_portVars
    /\ WF_portVars(PortFires) /\ WF_portVars(PortTick) /\ WF_portVars(PortDownEnd)

-----------------------------------------------------------------------------
\* EtMac's properties of the composition.
AtMostOneUnheard == Mac!AtMostOneUnheard
GroupsHeard == Mac!GroupsHeard
DownIsOff == Mac!DownIsOff
ForcedHolds == Mac!ForcedHolds

\* A change of what the rate depends on.
Unsettled == UNCHANGED <<partner, up, eth.force>>

\* Once cables, partners and settings are left alone, the MAC comes to run at
\* the rate of the phy's link and stays there, although etc_watchdog may have
\* read the phy wrong before, and set a rate from what it read.
SpeedSettles ==
    []<><<~Unsettled>>_portVars \/ <>[](Mac!RateMatches)
=============================================================================
