------------------------------- MODULE EtMac -------------------------------
(***************************************************************************)
(* What the vendor ethernet driver makes of its settings in the MAC and    *)
(* the phy: forced speed, loopback, promiscuous mode and the multicast     *)
(* filter, through etc_ioctl and etc_watchdog (etc.c), the multicast list  *)
(* (et_linux.c) and chipinit, chipreset and the phy functions (etcgmac.c). *)
(* Each operator maps the state of driver and chip, a record, to what the  *)
(* function it is named for leaves; EtPort composes them with the timer.   *)
(* Built as on this router, for kernels from 2.6.36.                       *)
(***************************************************************************)
EXTENDS Naturals, Sequences

CONSTANTS
    Group,          \* multicast groups
    MaxMulti,       \* MAXMULTILIST
    Speeds,         \* rates ETCSPEED may be asked to force
    PhyCaps,        \* rates the phy has
    Partners,       \* sets of rates a link partner may offer; {}: no cable
    Ops,            \* Ops[b]: the kinds of settings changed on board b
    MaxMisses,      \* bound on watchdog runs that misread the phy
    LostWrites,     \* phy writes that may run out of polls
    NoGroup         \* the zeroes of an entry never written

Boards == {"robo", "none", "mii", "gmii"}

\* A rate is a speed and its duplex; ET_AUTO is none.
Auto == <<0, "half">>
Gig == {<<1000, "full">>, <<1000, "half">>}
Slow == {10, 100} \X {"full", "half"}
Slowest == <<10, "half">>

VARIABLES
    board,          \* "robo": this router's, with a switch; "none": no phy either;
                    \* "mii" and "gmii": a phy behind that interface
    up,             \* etc->up
    eth,            \* etc_info_t and what it has put into MAC, filter and phy
    dev,            \* the stack's settings: groups in their order, and flags
    partner,        \* what the link partner offers
    misses          \* watchdog runs that misread the phy so far

macVars == <<board, eth, dev, partner, misses>>

HasPhy == board \in {"mii", "gmii"}

-----------------------------------------------------------------------------
(* The MAC: etcgmac.c *)

\* gmac_reset clears half duplex and both enables; the speed stays.
GmacReset(e) ==
    [e EXCEPT !.mac = [rate |-> <<@.rate[1], "full">>, prom |-> TRUE,
                       loop |-> FALSE, on |-> FALSE]]

\* gmac_speed knows no 1000 half duplex.
GmacSpeed(e, r) == IF r = <<1000, "half">> THEN e ELSE [e EXCEPT !.mac.rate = r]

\* gmac_miiconfig: the rate of the interface to the switch, or of a MII.
MiiConfig(e) ==
    CASE board = "robo" ->
            [GmacSpeed(e, <<2500, "full">>) EXCEPT !.rate = <<2500, "full">>]
      [] board = "none" -> [e EXCEPT !.rate = <<1000, "full">>]
      [] board = "mii" /\ e.force = Auto ->
            [GmacSpeed(e, <<100, "full">>) EXCEPT !.rate = <<100, "full">>]
      [] board = "mii" /\ e.force # Auto -> GmacSpeed(e, e.force)
      [] board = "gmii" -> e

\* gmac_mf_cleanup; gmac_mf_add for what is a group, and not in the table yet:
\* an entry never written is none.
MfCleanup(e) == [e EXCEPT !.mf = {}]
MfAdd(e, gs) == [e EXCEPT !.mf = @ \cup (gs \ {NoGroup})]

GmacPromisc(e) == [e EXCEPT !.mac.prom = e.promisc]
GmacLoopback(e) == [e EXCEPT !.mac.loop = e.loopbk]
GmacEnable(e) == [e EXCEPT !.mac.on = TRUE]

\* chipreset empties the filter and leaves the MAC off, promiscuous.
ChipReset(e) == MiiConfig(GmacReset(MfCleanup(e)))

\* chipphywr may run out of polls, with nothing but a message.
PhyWr(write, lost, former, new) == IF write \in lost THEN former ELSE new

\* chipphyforce: it has no case for 1000 half duplex either, and leaves the
\* speed bits at zero.
PhyForce(e, lost) ==
    LET ctl == IF e.force = <<1000, "half">> THEN Slowest ELSE e.force
    IN  [e EXCEPT !.phy.ctl = PhyWr("force", lost, @, ctl)]

\* chipphyadvertise: the capabilities of etc->advertise, and autonegotiation
\* starts over.
PhyAdvertise(e, lost) ==
    [e EXCEPT !.needautoneg = FALSE,
              !.phy.adv = PhyWr("advertise", lost, @, e.advertise \cap PhyCaps)]

\* chipphyreset: back to autonegotiation of all the phy has.
PhyReset(e, lost) ==
    [e EXCEPT !.phy = PhyWr("reset", lost, @, [ctl |-> Auto, adv |-> PhyCaps])]

\* The groups chipinit adds to the filter.
Listed(e) == IF e.promisc \/ e.allmulti THEN {} ELSE {e.multi[i] : i \in 0..(e.n - 1)}

\* chipinit applies the settings and turns the MAC on.
ChipInit(e, lost) ==
    LET applied == GmacEnable(GmacLoopback(GmacPromisc(MfAdd(e, Listed(e)))))
    IN  CASE ~HasPhy -> applied
          [] HasPhy /\ e.force # Auto -> PhyForce(GmacSpeed(applied, e.force), lost)
          [] HasPhy /\ e.force = Auto ->
                IF e.advertise # {} /\ e.needautoneg
                   THEN PhyAdvertise(applied, lost) ELSE applied

\* Mutant: a change of speed leaves the speed bits.
DuplexUpdDuplex(e) == [e EXCEPT !.mac.rate = <<@[1], e.rate[2]>>]

\* chipduplexupd: the MAC takes over the driver's speed and duplex.
DuplexUpd(e) ==
    [e EXCEPT !.mac.rate =
        <<IF e.rate[1] \in {10, 100, 1000} THEN e.rate[1] ELSE @[1], e.rate[2]>>]

-----------------------------------------------------------------------------
(* The phy and its partner *)

\* The best rate both sides have.
Order == <<<<1000, "full">>, <<1000, "half">>, <<100, "full">>, <<100, "half">>,
           <<10, "full">>, <<10, "half">>>>
Best(common) ==
    LET usable == common \cup {Slowest}
    IN  Order[CHOOSE i \in 1..6 :
                Order[i] \in usable /\ \A j \in 1..(i - 1) : Order[j] \notin usable]

PhyLinked == partner # {} /\ (eth.phy.ctl # Auto \/ eth.phy.adv \cap partner # {})
PhyRate == IF eth.phy.ctl = Auto THEN Best(eth.phy.adv \cap partner) ELSE eth.phy.ctl

\* The registers etc_watchdog reads; one whose read fails reads all ones.
Regs == {"status", "adv", "lpa", "estatus", "adv2", "status2"}
Seen(reg, bits, bad) == IF reg \in bad THEN Slow \cup Gig ELSE bits

\* The rates common to both sides as etc_watchdog reads them: the registers
\* for 1000 only where the extended status, well read, has them.
Common(e, bad) ==
    LET adv == Seen("adv", e.phy.adv, bad)
        lpa == Seen("lpa", partner, bad)
        adv2 == Seen("adv2", e.phy.adv, bad)
        status2 == Seen("status2", partner, bad)
        giga == "estatus" \notin bad /\ <<1000, "full">> \in PhyCaps
    IN  (Slow \cap adv \cap lpa) \cup (IF giga THEN Gig \cap adv2 \cap status2 ELSE {})

\* etc_watchdog, from its test for a phy on.
Watch(e, bad) ==
    IF ~HasPhy THEN DuplexUpd([e EXCEPT !.link = TRUE, !.rate[2] = "full"])
    ELSE IF "status" \in bad THEN e
    ELSE LET now == [e EXCEPT !.link = PhyLinked]
         IN  DuplexUpd(IF e.force = Auto
                          THEN [now EXCEPT !.rate = Best(Common(e, bad))] ELSE now)

-----------------------------------------------------------------------------
(* Initial state: et_probe is over *)

\* ch_t and etc_info_t as chipattach leaves them; what the MAC's speed bits
\* were before is unknown.  A board with a reset pin for its phy asks for all
\* capabilities.
Attached(speed, pin) ==
    LET wanted == IF pin /\ HasPhy THEN Slow \cup {<<1000, "full">>} ELSE {}
    IN  ChipReset(
          [force |-> Auto, rate |-> Auto, link |-> FALSE,
           advertise |-> wanted, needautoneg |-> wanted # {},
           promisc |-> FALSE, allmulti |-> FALSE, loopbk |-> FALSE,
           multi |-> [i \in 0..(MaxMulti - 1) |-> NoGroup], n |-> 0, mf |-> {},
           mac |-> [rate |-> <<speed, "full">>, prom |-> TRUE, loop |-> FALSE, on |-> FALSE],
           phy |-> [ctl |-> Auto, adv |-> PhyCaps]])

MacInit ==
    /\ board \in Boards
    /\ \E speed \in {10, 1000}, pin \in BOOLEAN : eth = Attached(speed, pin)
    /\ dev = [groups |-> <<>>, promisc |-> FALSE, allmulti |-> FALSE]
    /\ partner \in (IF HasPhy THEN Partners ELSE {{}})
    /\ misses = 0

-----------------------------------------------------------------------------
(* Operations *)

\* Mutant: the list is copied one further behind.
CopyListLater(e, d) ==
    [e EXCEPT !.n = IF Len(d.groups) >= MaxMulti THEN 0 ELSE Len(d.groups),
              !.multi = [i \in DOMAIN @ |->
                            IF i \in 2..Len(d.groups) THEN d.groups[i - 1] ELSE @[i]]]

\* The loop of et_set_multicast_list counts before it copies: entry 0 is
\* never written.  A list that does not fit means all groups.
CopyList(e, d) ==
    [e EXCEPT !.n = IF Len(d.groups) >= MaxMulti THEN 0 ELSE Len(d.groups),
              !.multi = [i \in DOMAIN @ |->
                            IF i \in 1..Len(d.groups) THEN d.groups[i] ELSE @[i]]]

\* et_set_multicast_list for an interface that is up.
SetMulticastList(e, d) ==
    ChipInit([CopyList(e, d) EXCEPT
                !.promisc = d.promisc,
                !.allmulti = d.allmulti \/ d.promisc \/ Len(d.groups) >= MaxMulti], {})

\* et_open with et_up, and the stack that hands its list over next.
Opened(e) ==
    SetMulticastList(
        ChipInit([e EXCEPT !.promisc = dev.promisc,
                           !.allmulti = dev.allmulti \/ dev.promisc], {}), dev)
MacOpen == eth' = Opened(eth) /\ UNCHANGED <<board, dev, partner, misses>>

\* et_close, and etc_down at the end of its et_down.
MacClose ==
    /\ eth' = [eth EXCEPT !.promisc = FALSE, !.allmulti = FALSE]
    /\ UNCHANGED <<board, dev, partner, misses>>
MacCloseEnd ==
    /\ eth' = [ChipReset(eth) EXCEPT !.link = FALSE]
    /\ UNCHANGED <<board, dev, partner, misses>>

\* etc_watchdog with its phy reads, of which some may fail.
MacTick ==
    /\ \E bad \in (IF HasPhy THEN SUBSET Regs ELSE {{}}) :
          /\ bad # {} => misses < MaxMisses
          /\ misses' = IF bad = {} THEN misses ELSE misses + 1
          /\ eth' = Watch(eth, bad)
    /\ UNCHANGED <<board, dev, partner>>

\* The groups the stack has joined, and its list when it leaves the k-th.
Joined == {dev.groups[i] : i \in 1..Len(dev.groups)}
Without(list, k) == SubSeq(list, 1, k - 1) \o SubSeq(list, k + 1, Len(list))

\* The stack's groups and flags change: the driver is told, and looks only
\* when it is up.
ChangeGroups ==
    /\ "groups" \in Ops[board]
    /\ \/ \E g \in Group \ Joined : dev' = [dev EXCEPT !.groups = Append(@, g)]
       \/ \E k \in 1..Len(dev.groups) : dev' = [dev EXCEPT !.groups = Without(@, k)]
       \/ "flags" \in Ops[board] /\ dev' = [dev EXCEPT !.promisc = ~@]
       \/ "flags" \in Ops[board] /\ dev' = [dev EXCEPT !.allmulti = ~@]
    /\ eth' = IF up THEN SetMulticastList(eth, dev') ELSE eth
    /\ UNCHANGED <<board, partner, misses>>

\* ETCLOOP, whether or not the interface is up.
Loopback ==
    /\ "loop" \in Ops[board]
    /\ eth' = ChipInit([eth EXCEPT !.loopbk = ~@], {})
    /\ UNCHANGED <<board, dev, partner, misses>>

\* ETCPROMISC leaves allmulti alone.
Promisc ==
    /\ "flags" \in Ops[board]
    /\ eth' = ChipInit([eth EXCEPT !.promisc = ~@], {})
    /\ UNCHANGED <<board, dev, partner, misses>>

\* Mutant: the speed is forced, but the driver keeps the rate it had.
ForceKeepsRate(e, r) ==
    [e EXCEPT !.force = r,
              !.advertise = IF r = Auto THEN Slow \cup {<<1000, "full">>} ELSE {},
              !.needautoneg = (r = Auto)]

\* What ETCSPEED notes down: the speed is forced, or all capabilities are to
\* be advertised.
Force(e, r) ==
    [e EXCEPT !.force = r,
              !.rate = IF r = Auto THEN @ ELSE r,
              !.advertise = IF r = Auto THEN Slow \cup {<<1000, "full">>} ELSE {},
              !.needautoneg = (r = Auto)]

\* ETCSPEED, refused without a phy.  (The phy's reset, which comes between,
\* does not look at what is noted down.)
Speed(r) ==
    /\ "speed" \in Ops[board] /\ HasPhy
    /\ \E lost \in SUBSET LostWrites :
          eth' = ChipInit(PhyReset(Force(eth, r), lost), lost)
    /\ UNCHANGED <<board, dev, partner, misses>>

\* A cable is plugged or pulled, or the partner's offer changes.
PartnerChange ==
    /\ HasPhy
    /\ partner' \in Partners \ {partner}
    /\ UNCHANGED <<board, eth, dev, misses>>

\* chiprx, which filters multicast frames in software, hands up what is sent
\* to group g.
Heard(g) == eth.allmulti \/ g \in eth.mf

\* The settings made through ioctls.
MacIoctl == Loopback \/ Promisc \/ \E r \in Speeds : Speed(r)

-----------------------------------------------------------------------------
(* Properties *)

\* While the interface is up, at most one group the stack has joined goes
\* unheard: the last of its list, for want of entry 0.  Whatever is joined,
\* left and joined again, with the filter emptied by resets only, no other
\* group is lost to the software filter of chiprx.
AtMostOneUnheard == up => \A g, h \in {j \in Joined : ~Heard(j)} : g = h

\* A group the stack has joined is heard: "copy the list of multicasts into
\* our private table" (it is not, see et_multicast.cfg).
GroupsHeard == up => \A g \in Joined : Heard(g)

\* A forced speed is what MAC and phy run at as long as the interface is up,
\* through closing and opening, the watchdog and the rates it reads.
ForcedHolds == up /\ eth.force # Auto => eth.mac.rate = eth.force /\ eth.phy.ctl = eth.force

\* The MAC of an interface that is down neither sends nor receives (ETCLOOP
\* turns it on, see et_mac_down.cfg).
DownIsOff == ~up => ~eth.mac.on

\* The MAC runs at the rate of the phy's link.
RateMatches == up /\ HasPhy /\ PhyLinked => eth.mac.rate = PhyRate
=============================================================================
