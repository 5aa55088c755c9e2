----------------------------- MODULE RoboSwitch -----------------------------
(***************************************************************************)
(* How the vendor ethernet driver sets up the switch: the ethernet cores   *)
(* are probed one after the other (et_probe in et_linux.c, chipattach in   *)
(* etcgmac.c), and each probe resets, configures and enables the one       *)
(* switch they share (bcmrobo.c), before the flow accelerator (etc_fa.c)   *)
(* takes it over.  A device of an earlier core can be opened and closed    *)
(* while a later one is probed.  An access to the switch may run out of    *)
(* polls: most callers ignore that, and what a lost read leaves in the     *)
(* caller's buffer depends on the bus.                                     *)
(***************************************************************************)
EXTENDS Integers, Sequences, FiniteSets, FiniteSetsExt, SequencesExt

CONSTANTS
    Boards,     \* what the driver may find: records, see BoardsAssumption
    LastCore,   \* the cores are 0..LastCore
    LastVid     \* the VLANs are 0..LastVid, VLAN_NUMVLANS - 1

Cores == 0..LastCore
Vids == 0..LastVid
None == -1

\* soc: a BCM4707, whose own 5301x is reached through the SRAB; bus: how the
\* switch is reached; dev: the switch; pins: the pins for SPI are free; reset:
\* nvram has a robo_reset pin; capable: the FA is of a usable revision;
\* mode: ctf_fa_mode; mac: et<n>macaddr; lists: vlan<n>ports.
ASSUME BoardsAssumption ==
    /\ LastCore \in Nat
    /\ \A b \in Boards :
        /\ b.bus \in {"srab", "mii", "spi"}
        /\ b.soc <=> b.bus = "srab"
        /\ b.soc => b.dev = "5301x"
        /\ {b.pins, b.reset, b.capable} \subseteq BOOLEAN
        /\ b.mode \in {"off", "bypass", "normal"}
        /\ b.mac \in [Cores -> {"none", "null", "ok"}]
        /\ DOMAIN b.lists \subseteq Vids

ASSUME ListsAssumption ==
    \A b \in Boards : \A v \in DOMAIN b.lists :
        b.lists[v] \in Seq([port : Nat, flag : {"", "t", "u", "*"}])

VARIABLES
    board,          \* the board
    sw, vlan,       \* the switch: its registers, its VLAN tables
    lost,           \* the kind of access that was lost, or "nothing"
    found, auxUnit, \* et_found, aux_unit
    cpu, mang,      \* pdesc[].cpu, mang_mode_en
    auxDev, faDev,  \* the cores of aux_dev and fa_dev
    acc,            \* acc_mode of fa_dev
    step, dev, bad, \* the running probe: its next step, devid, ret
    unit,           \* per core the unit its device is registered as
    up,             \* the cores whose device is up
    leaving         \* the module is being removed

statics == <<found, auxUnit, cpu, mang, auxDev, faDev>>
probing == <<step, dev, bad>>
devices == <<unit, up, acc>>
switchVars == <<board, sw, vlan, lost, statics, probing, devices, leaving>>

-----------------------------------------------------------------------------
(* The switch and the access to its registers *)

Ports == 0..8

\* The bits the driver handles, by register; in PORTS and RULES they are
\* the ports whose traffic is disabled and the TCP FIN/RST filters.
Bits == [MODE |-> {"forward", "managed"}, CTRL0 |-> {"vlan"},
         MIIPO |-> {"rvmii", "up"}, IMP |-> {"rx"}, MGMT_CFG |-> {"imp0"},
         PORT5 |-> {"up"}, PORT7 |-> {"up"}, PORTS |-> Ports,
         BRCM_HDR |-> {"imp"}, OOBPAUSE |-> {"oob"}, CFP_CTL |-> {"phys"},
         RULES |-> 0..3]

PoweredOn == [r \in DOMAIN Bits |-> {}]
NoVlans == [member |-> [v \in Vids |-> {}], untag |-> [v \in Vids |-> {}],
            arl |-> [v \in Vids |-> None], ptag |-> [p \in Ports |-> 0]]

Nothing == <<"nothing", "", {}>>

\* A read over SPI that gets no RACK leaves the buffer as it happened to be,
\* which is copied all the same.
SpiUnread(r) == SUBSET Bits[r]
SpiReadFails(kind, r) == {<<kind, r, v>> : v \in SpiUnread(r)}

\* Over MII and the SRAB the buffer keeps what the caller had in it.
MiiReadFails(kind, r, bufs) == {<<kind, r, v>> : v \in bufs}
SrabReadFails(kind, r, bufs) == {<<kind, r, v>> : v \in bufs}

\* Over SPI nothing is acknowledged; over the others the register may be
\* left as it was.
SpiWriteFails(kind, r) == {}
MiiWriteFails(kind, r) == {<<kind, r, {}>>}
SrabWriteFails(kind, r) == {<<kind, r, {}>>}

ReadFails(kind, r, bufs) ==
    CASE board.bus = "spi" -> SpiReadFails(kind, r)
      [] board.bus = "mii" -> MiiReadFails(kind, r, bufs)
      [] board.bus = "srab" -> SrabReadFails(kind, r, bufs)

WriteFails(kind, r) ==
    CASE board.bus = "spi" -> SpiWriteFails(kind, r)
      [] board.bus = "mii" -> MiiWriteFails(kind, r)
      [] board.bus = "srab" -> SrabWriteFails(kind, r)

WritesFail(rs) == UNION {WriteFails("write", r) : r \in rs}
ReadsFail(rs) == UNION {ReadFails("read", r, {{}}) : r \in rs}

\* At most one access is lost; x is the one a step loses, if any.
Losable(accesses) ==
    {Nothing} \cup IF lost = "nothing" THEN accesses ELSE {}

Lose(x) == lost' = IF x = Nothing THEN lost ELSE x[1]

Lost(x, kind, r) == x[1] = kind /\ x[2] = r

Seen(s, r, x) == IF Lost(x, "read", r) THEN x[3] ELSE s[r]

Written(s, v, x) ==
    [r \in DOMAIN s |->
        IF r \in DOMAIN v /\ ~Lost(x, "write", r) THEN v[r] ELSE s[r]]

-----------------------------------------------------------------------------
(* The board's nvram *)

\* FA_ON and FA_ON_MODE_VALID.
FaOn == board.mode # "off"
FaValid == FaOn /\ board.capable

\* FA_AUX_CORE_UNIT, which is FA_FA_ENET_UNIT too: core 0 until a core with
\* a mac address set aux_unit.
AuxCore(a) == IF a = None THEN 0 ELSE a

FaCore == 2

\* Mutant: fa_set_aux_unit takes the last core with an address.
SetAuxUnitLast(c) ==
    IF board.mac[c] # "none" /\ board.capable /\ c # FaCore THEN c ELSE auxUnit

\* fa_set_aux_unit: the first core with an address, the FA core excepted.
SetAuxUnit(c) ==
    IF board.mac[c] # "none" /\ board.capable /\ auxUnit = None /\ c # FaCore
    THEN c
    ELSE auxUnit

Core2Unit(c, a) ==
    IF ~FaValid THEN c
    ELSE IF c = FaCore THEN AuxCore(a)
    ELSE IF c = AuxCore(a) THEN FaCore
    ELSE c

Unit2Core(u, a) ==
    IF u = AuxCore(a) THEN FaCore ELSE IF u = FaCore THEN AuxCore(a) ELSE u

\* In normal mode the auxiliary device has the FA device's address.
GetMacaddr(u, a) ==
    IF FaValid /\ Unit2Core(u, a) = AuxCore(a) /\ board.mode = "normal"
    THEN board.mac[AuxCore(a)]
    ELSE board.mac[u]

\* The port of the auxiliary core.
AuxPid ==
    IF ~board.soc THEN None
    ELSE IF board.mac[0] # "none" THEN 5
    ELSE IF board.mac[1] # "none" THEN 7
    ELSE None

AuxReg == IF AuxPid = 5 THEN "PORT5" ELSE "PORT7"

\* pdescsz - 1: the port that faces the CPU by default.
Imp(d) == IF d = "5325" THEN 5 ELSE 8

\* With FA on, the auxiliary port of a VLAN's list stands for the IMP port.
FaImpPort(p, d) ==
    IF board.soc /\ FaOn /\ p = AuxPid /\ p # Imp(d) THEN Imp(d) ELSE p

\* The port list of a VLAN, by position, without the ports that do not exist.
Members(v, d) ==
    LET list == board.lists[v]
    IN  [i \in {j \in DOMAIN list : list[j].port <= Imp(d)} |->
            [port |-> FaImpPort(list[i].port, d), flag |-> list[i].flag]]

Defined == DOMAIN board.lists

\* Mutant: robo_cpu_port_upd without robo_fa_imp_port_upd.
CpuPortUpdRaw(d) ==
    LET at(v) == {i \in DOMAIN Members(v, d) :
                    Members(v, d)[i].flag \in {"u", "*"}}
        with == {v \in Defined : at(v) # {}}
    IN  IF with = {} THEN {}
        ELSE {board.lists[Min(with)][Min(at(Min(with)))].port}

\* The first port marked for the CPU in the lowest VLAN that has one.
CpuPortUpd(d) ==
    LET at(v) == {i \in DOMAIN Members(v, d) :
                    Members(v, d)[i].flag \in {"u", "*"}}
        with == {v \in Defined : at(v) # {}}
    IN  IF with = {} THEN {}
        ELSE {Members(Min(with), d)[Min(at(Min(with)))].port}

-----------------------------------------------------------------------------
(* The steps of a probe *)

Core == found - 1

SwitchInit ==
    /\ board \in Boards
    /\ sw \in {PoweredOn, [PoweredOn EXCEPT !["MODE"] = Bits["MODE"]]}
    /\ vlan = NoVlans /\ lost = "nothing"
    /\ found = 0 /\ auxUnit = None /\ cpu = {} /\ mang = FALSE
    /\ auxDev = None /\ faDev = None /\ acc = "off"
    /\ step = "idle" /\ dev = "" /\ bad = FALSE
    /\ unit = [c \in Cores |-> None] /\ up = {} /\ leaving = FALSE

\* et_probe up to etc_attach, and the address chipattach insists on: the
\* next core is skipped unless nvram has an address for its unit.
ProbeStart ==
    LET c == found
        u == Core2Unit(c, auxUnit')
    IN  /\ step = "idle" /\ ~leaving /\ found <= LastCore
        /\ found' = found + 1
        /\ auxUnit' = SetAuxUnit(c)
        /\ step' = IF GetMacaddr(u, auxUnit') = "ok" THEN "attach" ELSE "idle"
        /\ bad' = FALSE
        /\ UNCHANGED <<board, sw, vlan, lost, cpu, mang, auxDev, faDev, dev,
                       devices, leaving>>

\* chipdetach of the probed core before it has an FA: only its own state.
ProbeFails == step' = "idle"

\* The device id: one that cannot be read over MII is taken for a 5325's,
\* and so is a switch that only SPI may reach.
Devid(x) == IF board.bus = "spi" \/ x # Nothing THEN "5325" ELSE board.dev

\* The SRAB must give the device id, and SPI needs four free pins.
Reachable(x) ==
    CASE board.bus = "srab" -> x = Nothing
      [] board.bus = "mii" -> TRUE
      [] board.bus = "spi" -> board.pins

\* A pin resets the switch, and a 539x is reset once it is known.
SelfReset == {"5395", "5397", "5398"}
Resets(x) == board.reset \/ Devid(x) \in SelfReset

\* bcm_robo_attach.
RoboAttach ==
    \E x \in Losable(ReadFails("id", "MODE", {{}})) :
        /\ step = "attach"
        /\ Lose(x)
        /\ dev' = Devid(x)
        /\ IF Reachable(x) THEN step' = "enable" ELSE ProbeFails
        /\ sw' = IF Resets(x) THEN PoweredOn ELSE sw
        /\ vlan' = IF Resets(x) THEN NoVlans ELSE vlan
        /\ UNCHANGED <<board, statics, bad, devices, leaving>>

\* bcm_robo_enable_device: a 5398 gets its ports 6 and 7 disabled, a 5325
\* the reverse MII mode, read back.
EnableDevice ==
    \E x \in Losable(
            (IF dev = "5325"
             THEN ReadFails("read", "MIIPO", SUBSET Bits["MIIPO"])
                    \cup WritesFail({"MIIPO"})
             ELSE {})
            \cup (IF dev = "5398" THEN WritesFail({"PORTS"}) ELSE {})) :
        LET seen == Seen(sw, "MIIPO", x)
            s == Written(sw,
                    IF dev = "5398" THEN [PORTS |-> sw["PORTS"] \cup {6, 7}]
                    ELSE IF dev = "5325" /\ "rvmii" \notin seen
                    THEN [MIIPO |-> seen \cup {"rvmii"}]
                    ELSE <<>>, x)
        IN  /\ step = "enable"
            /\ Lose(x)
            /\ sw' = s
            /\ IF dev = "5325" /\ "rvmii" \notin seen \cup s["MIIPO"]
               THEN ProbeFails
               ELSE step' = "vlan"
            /\ UNCHANGED <<board, vlan, statics, dev, bad, devices, leaving>>

\* A VLAN's entry and the port default tags, from its list and the marks m.
MemberPorts(v, d) == {e.port : e \in Range(Members(v, d))}

UntaggedPorts(v, d, m) ==
    {e.port : e \in {f \in Range(Members(v, d)) :
                        IF f.port \in m THEN f.flag = "u" ELSE f.flag # "t"}}

TaggingVids(p, d, m) ==
    {v \in Defined : \E e \in Range(Members(v, d)) :
                        e.port = p /\ (p \notin m \/ e.flag = "u")}

\* Where frames for the core's own address go: the MII port of a 5325, or
\* the VLAN's last CPU port, or port 0 if it has none.
ArlPort(v, d, m) ==
    LET cpus == {i \in DOMAIN Members(v, d) : Members(v, d)[i].port \in m}
    IN  IF d = "5325" THEN Imp(d)
        ELSE IF cpus = {} THEN 0
        ELSE Members(v, d)[Max(cpus)].port

\* The VLANs it writes: all of them, except VLAN 0 of a switch other than
\* the 5325.
SetUp(d) == IF d = "5325" THEN Vids ELSE Vids \ {0}

\* The tables after vlan_setup of every VLAN.  An undefined one loses its
\* members.  An address is 6 or 8 bytes long, which SPI refuses to write.
VlanSetup(m, x) ==
    LET kept(v) == v \notin SetUp(dev) \/ Lost(x, "vlan", v)
        listed(v) == v \in SetUp(dev) \cap Defined
        tagging(p) == TaggingVids(p, dev, m) \cap SetUp(dev)
    IN  [member |-> [v \in Vids |->
            IF kept(v) THEN vlan.member[v]
            ELSE IF listed(v) THEN MemberPorts(v, dev) ELSE {}],
         untag |-> [v \in Vids |->
            IF kept(v) THEN vlan.untag[v]
            ELSE IF listed(v) THEN UntaggedPorts(v, dev, m) ELSE {}],
         arl |-> [v \in Vids |->
            IF listed(v) /\ board.bus # "spi" THEN ArlPort(v, dev, m)
            ELSE vlan.arl[v]],
         ptag |-> [p \in Ports |->
            IF tagging(p) = {} THEN vlan.ptag[p] ELSE Max(tagging(p))]]

\* bcm_robo_config_vlan: mark the CPU port, turn VLANs on, set them up.
ConfigVlan ==
    \E x \in Losable(WritesFail({"CTRL0"})
                     \cup UNION {WriteFails("vlan", v) : v \in Defined}) :
        LET marks == IF dev = "5301x" THEN cpu \cup CpuPortUpd(dev) ELSE cpu
        IN  /\ step = "vlan"
            /\ step' = "forward"
            /\ Lose(x)
            /\ cpu' = marks
            /\ sw' = Written(sw, [CTRL0 |-> sw["CTRL0"] \cup {"vlan"}], x)
            /\ vlan' = VlanSetup({Imp(dev)} \cup
                                 IF dev = "5325" THEN {} ELSE marks, x)
            /\ UNCHANGED <<board, found, auxUnit, mang, auxDev, faDev, dev, bad,
                           devices, leaving>>

\* The first read goes to an uninitialised variable.
ModeFails ==
    ReadFails("read", "MODE", SUBSET Bits["MODE"])
        \cup ReadFails("back", "MODE", {{"forward"}})
        \cup WritesFail({"MODE"}) \cup WriteFails("clear", "MODE")

\* Mutant: every probe takes the switch out of managed mode.
UnmanagedAlways(s, seen, x) ==
    IF Lost(x, "clear", "MODE") THEN s
    ELSE [s EXCEPT !["MODE"] = seen \ {"managed"}]

\* Take the switch out of managed mode unless an earlier probe set it.
Unmanaged(s, seen, x) ==
    IF mang \/ Lost(x, "clear", "MODE") THEN s
    ELSE [s EXCEPT !["MODE"] = seen \ {"managed"}]

\* Mutant: what was read back is not looked at.
ForwardingUnchecked(seen, back) == FALSE

\* ret: forwarding was off and is not on when the mode is read back.
ForwardingFailed(seen, back) == "forward" \notin seen /\ "forward" \notin back

\* bcm_robo_enable_switch, 1: turn forwarding on, check that it is, and let
\* every port send and receive; ret remembers that the check failed.
EnableForwarding ==
    \E x \in Losable(ModeFails) :
        LET seen == Seen(sw, "MODE", x)
            s == Unmanaged(sw, seen, x)
            opened == IF dev \in {"5398", "5301x"} THEN Ports \ {8} ELSE 0..4
            spared == IF dev = "5301x" THEN {6} ELSE {}
            t == Written(s, [MODE |-> (seen \ {"managed"}) \cup {"forward"},
                             PORTS |-> sw["PORTS"] \ (opened \ spared),
                             IMP |-> {}], x)
            back == IF Lost(x, "back", "MODE") THEN x[3] ELSE t["MODE"]
        IN  /\ step = "forward"
            /\ step' = "cpu"
            /\ Lose(x)
            /\ sw' = IF "forward" \in seen THEN s ELSE t
            /\ bad' = ForwardingFailed(seen, back)
            /\ UNCHANGED <<board, vlan, statics, dev, devices, leaving>>

FirstCpu == Min((cpu \cup {8}) \ {6})

\* The IMP port as CPU port: link up, receiving, managed mode; the ports of
\* the other two ethernet cores give up their forced link.
ImpUp(x) ==
    Written(sw, [MIIPO |-> Seen(sw, "MIIPO", x) \cup {"up"},
                 IMP |-> Seen(sw, "IMP", x) \cup {"rx"},
                 MGMT_CFG |-> Seen(sw, "MGMT_CFG", x) \cup {"imp0"},
                 MODE |-> Seen(sw, "MODE", x) \cup {"managed"},
                 PORT5 |-> Seen(sw, "PORT5", x) \ {"up"},
                 PORT7 |-> Seen(sw, "PORT7", x) \ {"up"}], x)

\* bcm_robo_enable_switch, 2: force the link of the first CPU port up.
ForceCpuPort ==
    LET port == IF FirstCpu = 5 THEN "PORT5" ELSE "PORT7"
        regs == CASE dev = "5301x" /\ FirstCpu = 8 ->
                        {"MIIPO", "IMP", "MGMT_CFG", "MODE", "PORT5", "PORT7"}
                  [] dev = "5301x" /\ FirstCpu # 8 -> {port}
                  [] dev = "53125" -> {"MIIPO"}
                  [] OTHER -> {}
    IN  \E x \in Losable(ReadsFail(regs) \cup WritesFail(regs)) :
            /\ step = "cpu"
            /\ step' = "defaults"
            /\ Lose(x)
            /\ sw' = CASE dev = "5301x" /\ FirstCpu = 8 -> ImpUp(x)
                       [] dev = "5301x" /\ FirstCpu # 8 ->
                            [sw EXCEPT ![port] = IF Lost(x, "write", port)
                                                 THEN @ ELSE {"up"}]
                       [] dev = "53125" ->
                            Written(sw, [MIIPO |-> Seen(sw, "MIIPO", x)
                                                    \cup {"up"}], x)
                       [] OTHER -> sw
            /\ mang' = (mang \/ (dev = "5301x" /\ FirstCpu = 8))
            /\ UNCHANGED <<board, vlan, found, auxUnit, cpu, auxDev, faDev, dev,
                           bad, devices, leaving>>

\* bcm_robo_enable_switch, 3: no Broadcom header and no filters for now;
\* then chipattach gives up if forwarding could not be enabled.
DefaultsOff ==
    \E x \in Losable(IF dev = "5301x" THEN WritesFail({"BRCM_HDR", "CFP_CTL"})
                     ELSE {}) :
        /\ step = "defaults"
        /\ Lose(x)
        /\ sw' = IF dev = "5301x"
                 THEN Written(sw, [BRCM_HDR |-> {}, CFP_CTL |-> {}], x)
                 ELSE sw
        /\ IF bad THEN ProbeFails ELSE step' = "fa"
        /\ UNCHANGED <<board, vlan, statics, dev, bad, devices, leaving>>

-----------------------------------------------------------------------------
(* The flow accelerator takes over *)

\* The filters: each one's action and pattern written and put in place.
Filters(x) == {i \in Bits["RULES"] : ~Lost(x, "rule", i)}

AuxFails ==
    ReadsFail({AuxReg}) \cup WritesFail({AuxReg})
        \cup UNION {WriteFails("rule", i) : i \in Bits["RULES"]}

\* robo_fa_aux_init: the auxiliary port's link forced up, and the four
\* filters that copy the packets that end a connection to it.
AuxInit(s, x) ==
    IF AuxPid = None THEN s
    ELSE [Written(s, [r \in {AuxReg} |-> Seen(s, r, x) \cup {"up"}], x)
             EXCEPT !["RULES"] = @ \cup Filters(x)]

\* robo_fa_aux_enable.
AuxEnable(s, on, x) ==
    Written(s, [CFP_CTL |-> IF on THEN {"phys"} ELSE {}], x)

\* robo_fa_enable, with the header for the hash the hardware computes.
FaEnable(s, on, x) ==
    Written(s, [BRCM_HDR |-> IF on THEN {"imp"} ELSE {},
                OOBPAUSE |-> IF on THEN Seen(s, "OOBPAUSE", x) \cup {"oob"}
                             ELSE Seen(s, "OOBPAUSE", x) \ {"oob"}], x)

\* Mutant: fa_attach leaves the auxiliary port to the auxiliary core.
InitsAuxOnce(fa, aux) == aux /\ ~fa

\* Who calls robo_fa_aux_init: the auxiliary core, and the FA core after it.
InitsAux(fa, aux) == (aux /\ ~fa) \/ (fa /\ auxDev # None)

\* fa_attach: the auxiliary core prepares its port; the FA core does it
\* again, for its own probe has just undone it.  It may get no memory.
FaAttach ==
    LET fa == Core = FaCore
        aux == Core = AuxCore(auxUnit)
        inits == InitsAux(fa, aux)
    IN  \E x \in Losable(IF inits THEN AuxFails ELSE {}), got \in BOOLEAN :
            /\ step = "fa"
            /\ Lose(x)
            /\ IF board.soc /\ FaValid /\ (fa \/ aux) /\ got
               THEN /\ step' = "up"
                    /\ auxDev' = IF fa THEN auxDev ELSE Core
                    /\ faDev' = IF fa THEN Core ELSE faDev
                    /\ sw' = IF inits THEN AuxInit(sw, x) ELSE sw
               ELSE /\ step' = "register"
                    /\ UNCHANGED <<auxDev, faDev, sw>>
            /\ UNCHANGED <<board, vlan, found, auxUnit, cpu, mang, dev, bad,
                           devices, leaving>>

\* fa_enable_device: fa_up(ctf_fa_mode); bypass goes through fa_down.  If
\* the tables are not initialised in time, the FA stays as it is.
FaUp ==
    \E x \in Losable(ReadFails("read", "OOBPAUSE", SUBSET Bits["OOBPAUSE"])
                     \cup WritesFail({"BRCM_HDR", "OOBPAUSE"})),
       inTime \in BOOLEAN :
        /\ step = "up"
        /\ step' = "register"
        /\ IF Core = faDev /\ inTime
           THEN /\ Lose(x)
                /\ sw' = FaEnable(sw, board.mode = "normal", x)
                /\ acc' = board.mode
           ELSE x = Nothing /\ UNCHANGED <<lost, sw, acc>>
        /\ UNCHANGED <<board, vlan, statics, dev, bad, unit, up, leaving>>

\* The rest of et_probe: the device is registered.
RegisterDevice ==
    /\ step = "register"
    /\ step' = "idle"
    /\ unit' = [unit EXCEPT ![Core] = Core2Unit(Core, auxUnit)]
    /\ UNCHANGED <<board, sw, vlan, lost, statics, dev, bad, up, acc, leaving>>

\* chipdetach: the switch's handle is freed before fa_detach uses it to
\* turn the header off, and what that write does is anyone's guess.
Detached(c) ==
    IF c = faDev /\ acc # "bypass"
    THEN sw' \in {sw, FaEnable(sw, FALSE, Nothing)} /\ acc' = "off"
    ELSE UNCHANGED <<sw, acc>>

\* ... or a later step of et_probe fails; aux_dev and fa_dev stay set.
RegisterFails ==
    /\ step = "register"
    /\ ProbeFails
    /\ Detached(Core)
    /\ UNCHANGED <<board, vlan, lost, statics, dev, bad, unit, up, leaving>>

-----------------------------------------------------------------------------
(* The devices *)

Bound == {c \in Cores : unit[c] # None}

\* et_up: the FA device's filters go on, and its auxiliary device up.
Open(c) ==
    /\ c \in Bound \ up
    /\ IF c = faDev /\ auxDev # None
       THEN \E x \in Losable(WritesFail({"CFP_CTL"})) :
                /\ Lose(x)
                /\ sw' = AuxEnable(sw, TRUE, x)
                /\ up' = up \cup {c} \cup (Bound \cap {auxDev})
       ELSE up' = up \cup {c} /\ UNCHANGED <<sw, lost>>
    /\ UNCHANGED <<board, vlan, statics, probing, unit, acc, leaving>>

\* et_down: the filters go off with the FA device.
Close(c) ==
    /\ c \in up
    /\ up' = up \ {c}
    /\ IF c = faDev /\ auxDev # None
       THEN \E x \in Losable(WritesFail({"CFP_CTL"})) :
                /\ Lose(x)
                /\ sw' = AuxEnable(sw, FALSE, x)
       ELSE UNCHANGED <<sw, lost>>
    /\ UNCHANGED <<board, vlan, statics, probing, unit, acc, leaving>>

\* et_remove, the last device first, once et_down is through.
RemoveLast ==
    LET c == Max(Bound)
    IN  /\ step = "idle" /\ found > LastCore /\ Bound # {}
        /\ c \notin up
        /\ leaving' = TRUE
        /\ unit' = [unit EXCEPT ![c] = None]
        /\ Detached(c)
        /\ UNCHANGED <<board, vlan, lost, statics, probing, up>>

\* The module is loaded again: its variables start over, the switch does not.
Reload ==
    /\ step = "idle" /\ found > LastCore /\ Bound = {}
    /\ leaving' = FALSE
    /\ found' = 0 /\ auxUnit' = None /\ cpu' = {} /\ mang' = FALSE
    /\ auxDev' = None /\ faDev' = None /\ acc' = "off"
    /\ UNCHANGED <<board, sw, vlan, lost, probing, unit, up>>

SwitchNext ==
    \/ ProbeStart \/ RoboAttach \/ EnableDevice \/ ConfigVlan
    \/ EnableForwarding \/ ForceCpuPort \/ DefaultsOff
    \/ FaAttach \/ FaUp \/ RegisterDevice \/ RegisterFails
    \/ RemoveLast \/ Reload
    \/ \E c \in Cores : Open(c) \/ Close(c)

SwitchSpec == SwitchInit /\ [][SwitchNext]_switchVars

-----------------------------------------------------------------------------
(* Properties *)

Settled == step = "idle" /\ ~leaving

\* While no probe runs, the switch forwards for every registered device: no
\* later probe, and no lost write, turns forwarding off behind a device that
\* was attached.  A lost read can hide it, and where every probe resets the
\* switch the accesses that set it up again must all be answered.
ResetByProbes == board.reset \/ board.dev \in SelfReset

SwitchForwards ==
    Settled /\ Bound # {} /\ lost \notin {"read", "back"}
            /\ (ResetByProbes => lost = "nothing")
        => "forward" \in sw["MODE"]

\* With every access answered and the FA and its auxiliary device in
\* service, the switch serves them: header and pause signal on, auxiliary
\* port linked and all filters set, and the filters on while the FA device
\* is up - although each probe resets what the one before it set.
FaServed ==
    LET fa == {faDev, auxDev} \subseteq Bound
    IN  Settled /\ lost = "nothing" /\ fa /\ acc = "normal" =>
            /\ "imp" \in sw["BRCM_HDR"] /\ "oob" \in sw["OOBPAUSE"]
            /\ "up" \in sw[AuxReg] /\ sw["RULES"] = Bits["RULES"]
            /\ faDev \in up <=> "phys" \in sw["CFP_CTL"]

\* The register that forces the link of a port that may face the CPU.
LinkReg(p) == IF p = 5 THEN "PORT5" ELSE IF p = 7 THEN "PORT7" ELSE "MIIPO"
Linked == {p \in {5, 7, 8} : "up" \in sw[LinkReg(p)]}

\* nvram marks a port of VLAN v as the CPU's.
HasCpu(v) ==
    \E i \in DOMAIN board.lists[v] : board.lists[v][i].flag \in {"u", "*"}

\* In every VLAN that has a port for the CPU, the driver's own address leads
\* to a member port whose link is forced up.
VlansReachCpu ==
    Settled /\ lost = "nothing" /\ Bound # {} /\ board.dev = "5301x" =>
        \A v \in Defined \ {0} :
            HasCpu(v) => vlan.arl[v] \in vlan.member[v] \cap Linked

\* Two devices never answer to the same unit, though the map from cores to
\* units changes while they are probed.  (In bypass mode they can.)
UnitsDistinct ==
    board.mode # "bypass" =>
        \A c, d \in Bound : c # d => unit[c] # unit[d]

\* As etc_fa.c:1338 has it, in bypass mode only the FA device is attached.
\* It is not so when nvram has an address for unit 2.
BypassOnlyFa == board.mode = "bypass" => auxDev = None

\* Once a probe has put a forwarding switch into managed mode, only a reset
\* takes it out again: no later probe does.
ManagedKept ==
    [][(mang /\ mang' /\ sw["MODE"] = Bits["MODE"] /\ lost' = "nothing"
            /\ step # "attach")
        => "managed" \in sw'["MODE"]]_switchVars
=============================================================================
