------------------------------ MODULE Uplinks ------------------------------
(***************************************************************************)
(* v2-files/etc/hotplug.d/iface/30 to 33: what the router does when one of *)
(* its wireless uplinks comes up or goes down.  30 routes the uplink's DNS *)
(* servers through its device, 31 rebuilds the default route over all      *)
(* uplinks that are up, 32 binds the uplink's SQM queue to its device, 33  *)
(* turns on packet steering there.                                         *)
(*                                                                         *)
(* Each ubus call, and each command that changes something, is one step;   *)
(* uplinks change, and the router reboots, between any two of them.        *)
(*                                                                         *)
(* netifd, the kernel and sqm-scripts are outside the repository.  netifd  *)
(* runs the scripts for one event at a time, in order of their numbers,    *)
(* and keeps one pending event per interface, the latest.  The kernel      *)
(* drops the routes of a device that disappears.                           *)
(***************************************************************************)
EXTENDS Naturals, Sequences

CONSTANTS
  Order,      (* the uplinks in the order 31 asks for them                 *)
  Device,     (* names of network devices                                  *)
  Server,     (* DNS servers                                               *)
  Lease,      (* Lease[i]: what uplink i may be handed by DHCP             *)
  None,       (* no device, no lease, no section, no uplink                *)
  MaxChanges  (* bound: changes of uplinks, and reboots                    *)

Uplink == {Order[k] : k \in DOMAIN Order}

ASSUME UplinksConstants ==
  /\ Order \in Seq(Uplink)
  /\ Order # <<>>
  /\ \A j, k \in DOMAIN Order : Order[j] = Order[k] => j = k
  /\ None \notin Uplink \union Device \union {"ifup", "ifdown"}
  /\ \A i \in Uplink : \A l \in Lease[i] :
       l # None /\ l.gw # None /\ l.dns \subseteq Server
  /\ MaxChanges \in Nat

VARIABLES
  nic,      (* the device of each uplink's radio                           *)
  link,     (* the lease of each uplink, None while it is down             *)
  pending,  (* netifd's queued event of each uplink                        *)
  left,     (* changes still to come                                       *)
  run,      (* the script at work, with its variables                      *)
  default,  (* the next hops of the default route, {} when there is none   *)
  host,     (* the device of each DNS server's /32 route                   *)
  section,  (* /etc/config/sqm: the device each queue section is bound to  *)
  shaper,   (* the section by which sqm shapes each device                 *)
  rps       (* the devices whose rps_cpus are set                          *)

netifd == <<nic, link, left>>
routes == <<default, host>>
tuning == <<section, shaper, rps>>
vars == <<netifd, pending, run, routes, tuning>>

Gateway == UNION {{l.gw : l \in Lease[i]} : i \in Uplink}
Hop == [gw : Gateway, dev : Device]
HopOf(i) == [gw |-> link[i].gw, dev |-> nic[i]]

Up(i) == link[i] # None
Current == {HopOf(i) : i \in {j \in Uplink : Up(j)}}

(* Nothing runs; dev is DEVICE, todo the servers still to be routed, k the *)
(* uplink 31 asks about, gw its answer and got the next hops collected.    *)
Idle == [step |-> "idle", on |-> None, dev |-> None, todo |-> {}, k |-> 1,
         gw |-> None, got |-> {}]

Step == {"idle", "dnsDevice", "dnsServers", "dnsRoute", "isUp", "getGw",
         "getDev", "setDefault", "sqmDevice", "sqmBind", "sqmRestart",
         "rpsDevice", "rps"}

RunType == [step : Step, on : (Uplink \X {"ifup", "ifdown"}) \union {None},
            dev : Device \union {None}, todo : SUBSET Server,
            k : DOMAIN Order, gw : Gateway \union {None}, got : SUBSET Hop]
-----------------------------------------------------------------------------
Init ==
  /\ nic \in {n \in [Uplink -> Device] : \A i, j \in Uplink : n[i] = n[j] => i = j}
  /\ link = [i \in Uplink |-> None]
  /\ pending = [i \in Uplink |-> None]
  /\ left = MaxChanges
  /\ run = Idle
  /\ default = {}
  /\ host = [s \in Server |-> None]
  /\ section = [i \in Uplink |-> None]
  /\ shaper = [d \in Device |-> None]
  /\ rps = {}

Change == left > 0 /\ left' = left - 1

ComesUp(i) ==
  /\ Change
  /\ ~ Up(i)
  /\ \E l \in Lease[i] : link' = [link EXCEPT ![i] = l]
  /\ pending' = [pending EXCEPT ![i] = "ifup"]
  /\ UNCHANGED <<nic, run, routes, tuning>>

(* What the kernel keeps for a device goes with it. *)
Flush(d) ==
  /\ default' = {h \in default : h.dev # d}
  /\ host' = [s \in Server |-> IF host[s] = d THEN None ELSE host[s]]

(* The kernel keeps or drops the routes over a device that is down. *)
GoesDown(i) ==
  /\ Change
  /\ Up(i)
  /\ link' = [link EXCEPT ![i] = None]
  /\ pending' = [pending EXCEPT ![i] = "ifdown"]
  /\ Flush(nic[i]) \/ UNCHANGED routes
  /\ UNCHANGED <<nic, run, tuning>>

(* A reload of the driver makes the radio's device anew, mostly under      *)
(* another name: "device names are NOT stable".                            *)
Recreated(i) ==
  /\ Change
  /\ ~ Up(i)
  /\ \E d \in Device :
       /\ \A j \in Uplink \ {i} : nic[j] # d
       /\ nic' = [nic EXCEPT ![i] = d]
  /\ Flush(nic[i])
  /\ shaper' = [shaper EXCEPT ![nic[i]] = None]
  /\ rps' = rps \ {nic[i]}
  /\ UNCHANGED <<link, pending, run, section>>

(* Every device is new after a boot; only /etc/config/sqm survives. *)
Reboots ==
  /\ Change
  /\ nic' \in {n \in [Uplink -> Device] : \A i, j \in Uplink : n[i] = n[j] => i = j}
  /\ link' = [i \in Uplink |-> None]
  /\ pending' = [i \in Uplink |-> None]
  /\ run' = Idle
  /\ default' = {}
  /\ host' = [s \in Server |-> None]
  /\ shaper' = [d \in Device |-> None]
  /\ rps' = {}
  /\ UNCHANGED section
-----------------------------------------------------------------------------
(* hotplug-call for one event: 31 runs on ifup and ifdown, the others on   *)
(* ifup only.  The seeded faults: 31 forgets ifdown; an event is kept.     *)
FirstStepUpOnly(e) == IF e = "ifup" THEN "dnsDevice" ELSE "idle"
FirstStep(e) == IF e = "ifup" THEN "dnsDevice" ELSE "isUp"

BeginAgain(i) ==
  /\ run.step = "idle"
  /\ pending[i] # None
  /\ run' = [Idle EXCEPT !.step = FirstStep(pending[i]), !.on = <<i, pending[i]>>]
  /\ UNCHANGED <<netifd, pending, routes, tuning>>
Begin(i) ==
  /\ run.step = "idle"
  /\ pending[i] # None
  /\ pending' = [pending EXCEPT ![i] = None]
  /\ run' = [Idle EXCEPT !.step = FirstStep(pending[i]), !.on = <<i, pending[i]>>]
  /\ UNCHANGED <<netifd, routes, tuning>>

At(s) == run.step = s
Goto(s) == run' = [run EXCEPT !.step = s]
Asked == run.on[1]

(* l3_device in ubus status. *)
L3Device(i) == IF Up(i) THEN nic[i] ELSE None

(* 30: DEVICE, then the list of servers, then one route each. *)
DnsDevice ==
  /\ At("dnsDevice")
  /\ run' = [run EXCEPT !.step = IF Up(Asked) THEN "dnsServers" ELSE "isUp",
                        !.dev = L3Device(Asked)]
  /\ UNCHANGED <<netifd, pending, routes, tuning>>

(* The seeded fault takes one server of the list. *)
DnsListFirst(l) == {CHOOSE s \in l.dns : TRUE}
DnsList(l) == l.dns

DnsServers ==
  /\ At("dnsServers")
  /\ run' = [run EXCEPT !.step = "dnsRoute",
                        !.todo = IF Up(Asked) THEN DnsList(link[Asked]) ELSE {}]
  /\ UNCHANGED <<netifd, pending, routes, tuning>>

(* ip route replace; it is refused when the device does not exist, and may *)
(* be when it is down.                                                     *)
Exists(d) == \E i \in Uplink : nic[i] = d
Running(d) == \E i \in Uplink : nic[i] = d /\ Up(i)

DnsRoute ==
  /\ At("dnsRoute")
  /\ IF run.todo = {}
     THEN Goto("isUp") /\ UNCHANGED host
     ELSE \E s \in run.todo :
            /\ run' = [run EXCEPT !.todo = @ \ {s}]
            /\ \/ Exists(run.dev) /\ host' = [host EXCEPT ![s] = run.dev]
               \/ ~ Running(run.dev) /\ UNCHANGED host
  /\ UNCHANGED <<netifd, pending, default, tuning>>
-----------------------------------------------------------------------------
(* 31: three questions about each uplink, then the route.                  *)
NextUplink(got) ==
  run' = [run EXCEPT !.got = got,
                     !.gw = None,
                     !.step = IF run.k = Len(Order) THEN "setDefault" ELSE "isUp",
                     !.k = IF run.k = Len(Order) THEN 1 ELSE run.k + 1]

IsUp ==
  /\ At("isUp")
  /\ IF Up(Order[run.k]) THEN Goto("getGw") ELSE NextUplink(run.got)
  /\ UNCHANGED <<netifd, pending, routes, tuning>>

GetGw ==
  /\ At("getGw")
  /\ LET i == Order[run.k] IN
     run' = [run EXCEPT !.step = "getDev",
                        !.gw = IF Up(i) THEN link[i].gw ELSE None]
  /\ UNCHANGED <<netifd, pending, routes, tuning>>

GetDev ==
  /\ At("getDev")
  /\ LET dev == L3Device(Order[run.k]) IN
     NextUplink(IF run.gw # None /\ dev # None
                THEN run.got \union {[gw |-> run.gw, dev |-> dev]}
                ELSE run.got)
  /\ UNCHANGED <<netifd, pending, routes, tuning>>

(* ip route replace default, or del when nothing is up.  A next hop that   *)
(* is out of date by now may be refused.                                   *)
SetDefault ==
  /\ At("setDefault")
  /\ \/ (\A h \in run.got : Exists(h.dev)) /\ default' = run.got
     \/ ~ run.got \subseteq Current /\ UNCHANGED default
  /\ IF run.on[2] = "ifup" THEN run' = [Idle EXCEPT !.step = "sqmDevice", !.on = run.on]
                           ELSE run' = Idle
  /\ UNCHANGED <<netifd, pending, host, tuning>>
-----------------------------------------------------------------------------
(* 32: DEVICE; the section provisioned and rebound, committed; sqm         *)
(* restarted.  Every uplink is in a masq zone.                             *)
SqmDevice ==
  /\ At("sqmDevice")
  /\ run' = [run EXCEPT !.step = IF Up(Asked) THEN "sqmBind" ELSE "rpsDevice",
                        !.dev = L3Device(Asked)]
  /\ UNCHANGED <<netifd, pending, routes, tuning>>

(* The seeded fault binds a section only when it provisions it.            *)
RebindOnce(i, d) == IF section[i] = None THEN d ELSE section[i]
Rebind(i, d) == d

SqmBind ==
  /\ At("sqmBind")
  /\ section' = [section EXCEPT ![Asked] = Rebind(Asked, run.dev)]
  /\ Goto("sqmRestart")
  /\ UNCHANGED <<netifd, pending, routes, shaper, rps>>

(* sqm shapes every device a section names; when two do, one of them wins. *)
Bound(d) == {i \in Uplink : section[i] = d}
SqmRestart ==
  /\ At("sqmRestart")
  /\ shaper' \in {f \in [Device -> Uplink \union {None}] :
                    \A d \in Device : IF Exists(d) /\ Bound(d) # {}
                                      THEN f[d] \in Bound(d) ELSE f[d] = None}
  /\ Goto("rpsDevice")
  /\ UNCHANGED <<netifd, pending, routes, section, rps>>

(* 33: DEVICE once more, then rps_cpus of its queues. *)
RpsDevice ==
  /\ At("rpsDevice")
  /\ run' = IF Up(Asked) THEN [run EXCEPT !.step = "rps", !.dev = nic[Asked]]
                         ELSE Idle
  /\ UNCHANGED <<netifd, pending, routes, tuning>>

SetRps ==
  /\ At("rps")
  /\ rps' = IF Exists(run.dev) THEN rps \union {run.dev} ELSE rps
  /\ run' = Idle
  /\ UNCHANGED <<netifd, pending, routes, section, shaper>>

Script ==
  \/ \E i \in Uplink : Begin(i)
  \/ DnsDevice \/ DnsServers \/ DnsRoute
  \/ IsUp \/ GetGw \/ GetDev \/ SetDefault
  \/ SqmDevice \/ SqmBind \/ SqmRestart
  \/ RpsDevice \/ SetRps

Next ==
  \/ Script
  \/ \E i \in Uplink : ComesUp(i) \/ GoesDown(i) \/ Recreated(i)
  \/ Reboots

(* A script that runs goes on, and netifd runs the scripts it owes. *)
Spec == Init /\ [][Next]_vars /\ WF_vars(Script)
-----------------------------------------------------------------------------
TypeOK ==
  /\ nic \in [Uplink -> Device]
  /\ \A i \in Uplink : link[i] \in Lease[i] \union {None}
  /\ pending \in [Uplink -> {None, "ifup", "ifdown"}]
  /\ left \in 0..MaxChanges
  /\ run \in RunType
  /\ default \subseteq Hop
  /\ host \in [Server -> Device \union {None}]
  /\ section \in [Uplink -> Device \union {None}]
  /\ shaper \in [Device -> Uplink \union {None}]
  /\ rps \subseteq Device

Settled == run.step = "idle" /\ \A i \in Uplink : pending[i] = None

(* "reconstructs the weighted multipath route whenever either uplink's     *)
(* state changes": once the scripts are done, the default route is the     *)
(* uplinks that are up, each by its own gateway and device, although the   *)
(* answers it was built from were given at different times.                *)
DefaultInStep == Settled => default = Current

(* "routing DNS server $ns via $DEVICE": once the scripts are done, a DNS  *)
(* server handed out by an uplink that is up is reached by such an uplink. *)
DnsRouted ==
  Settled =>
    \A i \in Uplink : Up(i) =>
      \A s \in link[i].dns :
        \E j \in Uplink : Up(j) /\ s \in link[j].dns /\ host[s] = nic[j]

(* Once the scripts are done every uplink that is up has packet steering,  *)
(* and once all are up each is shaped by its own section, whatever names   *)
(* the devices had before.                                                 *)
AllUp == \A i \in Uplink : Up(i)
Tuned ==
  Settled => \A i \in Uplink : Up(i) =>
               /\ nic[i] \in rps
               /\ AllUp => shaper[nic[i]] = i

(* "rebind on every ifup": an uplink is never shaped by another uplink's   *)
(* section.                                                                *)
OwnShaper == Settled => \A i \in Uplink : Up(i) => shaper[nic[i]] = i

(* The scripts catch up: when the uplinks stop changing they finish, and   *)
(* nothing is left to be run.                                              *)
Converges == <>[]Settled
=============================================================================
