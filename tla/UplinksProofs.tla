--------------------------- MODULE UplinksProofs ---------------------------
(***************************************************************************)
(* The default route converges for any number of uplinks, devices, leases  *)
(* and changes.  The answers 31 collects are only as good as the moment    *)
(* they were given; what saves the route is that whatever makes one of     *)
(* them wrong leaves an event pending, whose own run starts over.  So the  *)
(* invariant claims nothing while an event is pending, and otherwise that  *)
(* the answers so far are the uplinks' present state.                      *)
(***************************************************************************)
EXTENDS Uplinks, TLAPS

Injective(n) == \A i, j \in Uplink : n[i] = n[j] => i = j

AnyLease == UNION {Lease[i] : i \in Uplink}

TypeInv ==
  /\ TypeOK
  /\ link \in [Uplink -> AnyLease \union {None}]
  /\ Injective(nic)
  /\ run.step # "idle" => run.on \in Uplink \X {"ifup", "ifdown"}

Environment ==
  \/ \E i \in Uplink : ComesUp(i) \/ GoesDown(i) \/ Recreated(i)
  \/ Reboots

(* What a lease and an uplink's next hop are made of. *)
LEMMA LeaseTyped ==
  ASSUME TypeOK, NEW i \in Uplink, Up(i)
  PROVE  /\ link[i] \in Lease[i]
         /\ link[i].gw \in Gateway
         /\ link[i].dns \subseteq Server
<1>1. link[i] \in Lease[i]
  BY DEF TypeOK, Up
<1>2. link[i].gw \in Gateway
  BY <1>1 DEF Gateway
<1>3. QED BY <1>1, <1>2, UplinksConstants

LEMMA OrderTyped ==
  /\ Len(Order) \in Nat \ {0}
  /\ DOMAIN Order = 1..Len(Order)
  /\ \A k \in 1..Len(Order) : Order[k] \in Uplink
BY UplinksConstants DEF Uplink

LEMMA IdleTyped == Idle \in RunType /\ Idle.step = "idle"
BY OrderTyped DEF Idle, Step, RunType

LEMMA TypeInit == Init => TypeInv
<1> SUFFICES ASSUME Init PROVE TypeInv
  OBVIOUS
<1>1. run \in RunType /\ run.step = "idle"
  BY IdleTyped DEF Init
<1>2. QED BY <1>1, UplinksConstants DEF Init, TypeInv, TypeOK, Injective

(* netifd and the kernel keep every variable in its type. *)
LEMMA TypeEnvironment == TypeInv /\ Environment => TypeInv'
<1> SUFFICES ASSUME TypeInv, Environment PROVE TypeInv'
  OBVIOUS
<1> USE DEF routes, tuning, Change, TypeInv, TypeOK, Injective
<1>1. ASSUME NEW i \in Uplink, ComesUp(i) PROVE TypeInv'
  <2>1. \A j \in Uplink : link'[j] \in Lease[j] \union {None}
    BY <1>1 DEF ComesUp
  <2>2. pending' \in [Uplink -> {None, "ifup", "ifdown"}] /\ left' \in 0..MaxChanges
    BY <1>1, UplinksConstants DEF ComesUp
  <2>3. link' \in [Uplink -> AnyLease \union {None}]
    BY <1>1 DEF ComesUp, AnyLease
  <2>4. QED BY <1>1, <2>1, <2>2, <2>3 DEF ComesUp
<1>2. ASSUME NEW i \in Uplink, GoesDown(i) PROVE TypeInv'
  <2>1. pending' \in [Uplink -> {None, "ifup", "ifdown"}] /\ left' \in 0..MaxChanges
    BY <1>2, UplinksConstants DEF GoesDown
  <2>2. default' \subseteq Hop /\ host' \in [Server -> Device \union {None}]
    BY <1>2 DEF GoesDown, Flush
  <2>3. \A j \in Uplink : link'[j] \in Lease[j] \union {None}
    BY <1>2 DEF GoesDown
  <2>4. QED BY <1>2, <2>1, <2>2, <2>3 DEF GoesDown
<1>3. ASSUME NEW i \in Uplink, Recreated(i) PROVE TypeInv'
  <2>1. nic' \in [Uplink -> Device] /\ Injective(nic)'
    BY <1>3 DEF Recreated
  <2>2. left' \in 0..MaxChanges
    BY <1>3, UplinksConstants DEF Recreated
  <2>3. default' \subseteq Hop /\ host' \in [Server -> Device \union {None}]
    BY <1>3 DEF Recreated, Flush
  <2>4. shaper' \in [Device -> Uplink \union {None}] /\ rps' \subseteq Device
    BY <1>3 DEF Recreated
  <2>5. QED BY <1>3, <2>1, <2>2, <2>3, <2>4 DEF Recreated
<1>4. CASE Reboots
  <2>1. run' \in RunType /\ run'.step = "idle"
    BY <1>4, IdleTyped DEF Reboots
  <2>2. left' \in 0..MaxChanges
    BY <1>4, UplinksConstants DEF Reboots
  <2>3. QED BY <1>4, <2>1, <2>2 DEF Reboots
<1>5. QED BY <1>1, <1>2, <1>3, <1>4 DEF Environment

(* What the script at work may become. *)
WellRun(r) ==
  /\ r \in RunType
  /\ r.step # "idle" => r.on \in Uplink \X {"ifup", "ifdown"}

(* So does each step of the scripts; none of them touches netifd's state.  *)
LEMMA TypeScript == TypeInv /\ Script => TypeInv'
<1> SUFFICES ASSUME TypeInv, Script PROVE TypeInv'
  OBVIOUS
<1> DEFINE Kept == UNCHANGED <<netifd, pending, routes, tuning>>
<1> USE DEF netifd, routes, tuning, At, Goto
<1>a. WellRun(run) /\ WellRun(Idle)
  BY IdleTyped DEF TypeInv, TypeOK, WellRun
<1>b. WellRun(run') /\ Kept => TypeInv'
  BY DEF WellRun, TypeInv, TypeOK, Injective
<1>c. run.step # "idle" => Asked \in Uplink
  BY DEF TypeInv, Asked
<1>1. ASSUME NEW i \in Uplink, Begin(i) PROVE TypeInv'
  <2>1. pending[i] \in {"ifup", "ifdown"}
    BY <1>1 DEF Begin, TypeInv, TypeOK
  <2>2. WellRun(run')
    BY <1>1, <1>a, <2>1 DEF Begin, WellRun, RunType, FirstStep, Step
  <2>3. pending' \in [Uplink -> {None, "ifup", "ifdown"}]
    BY <1>1 DEF Begin, TypeInv, TypeOK
  <2>4. QED BY <1>1, <2>2, <2>3 DEF Begin, WellRun, TypeInv, TypeOK, Injective
<1>2. CASE DnsDevice
  <2>1. L3Device(Asked) \in Device \union {None}
    BY <1>2, <1>c DEF DnsDevice, L3Device, TypeInv, TypeOK
  <2>2. WellRun(run')
    BY <1>2, <1>a, <2>1 DEF DnsDevice, WellRun, RunType, Step
  <2>3. QED BY <1>2, <1>b, <2>2 DEF DnsDevice
<1>3. CASE DnsServers
  <2>1. Up(Asked) => DnsList(link[Asked]) \subseteq Server
    BY <1>3, <1>c, LeaseTyped DEF DnsServers, DnsList, TypeInv
  <2>2. WellRun(run')
    BY <1>3, <1>a, <2>1 DEF DnsServers, WellRun, RunType, Step
  <2>3. QED BY <1>3, <1>b, <2>2 DEF DnsServers
<1>4. CASE DnsRoute
  <2>1. WellRun(run')
    BY <1>4, <1>a DEF DnsRoute, WellRun, RunType, Step
  <2>2. host' \in [Server -> Device \union {None}]
    BY <1>4, <1>a DEF DnsRoute, TypeInv, TypeOK, WellRun, RunType
  <2>3. QED BY <1>4, <2>1, <2>2 DEF DnsRoute, WellRun, TypeInv, TypeOK, Injective
<1>d. \A got \in SUBSET Hop : run.step # "idle" /\ NextUplink(got) => WellRun(run')
  <2> SUFFICES ASSUME NEW got \in SUBSET Hop, run.step # "idle", NextUplink(got)
               PROVE  WellRun(run')
    OBVIOUS
  <2>1. run \in RunType /\ run.k \in 1..Len(Order) /\ Len(Order) \in Nat
    BY <1>a, OrderTyped DEF WellRun, RunType
  <2>2. run'.k \in DOMAIN Order
    BY <2>1, OrderTyped DEF NextUplink, RunType
  <2>3. run'.step \in Step /\ run'.got = got /\ run'.gw = None /\ run'.on = run.on
    BY <2>1 DEF NextUplink, RunType, Step
  <2>4. run' = [run EXCEPT !.got = run'.got, !.gw = run'.gw, !.step = run'.step,
                           !.k = run'.k]
    BY <2>1 DEF NextUplink, RunType
  <2>5. run' \in RunType
    BY <2>1, <2>2, <2>3, <2>4 DEF RunType
  <2>6. QED BY <1>a, <2>3, <2>5 DEF WellRun
<1>5. CASE IsUp
  <2>1. WellRun(run')
    <3>1. CASE Up(Order[run.k])
      BY <1>5, <1>a, <3>1 DEF IsUp, WellRun, RunType, Step
    <3>2. CASE ~ Up(Order[run.k])
      BY <1>5, <1>a, <1>d, <3>2 DEF IsUp, WellRun, RunType
    <3>3. QED BY <3>1, <3>2
  <2>2. QED BY <1>5, <1>b, <2>1 DEF IsUp
<1>6. CASE GetGw
  <2>1. Order[run.k] \in Uplink
    BY <1>a, OrderTyped DEF WellRun, RunType
  <2>2. Up(Order[run.k]) => link[Order[run.k]].gw \in Gateway
    BY <2>1, LeaseTyped DEF TypeInv
  <2>3. WellRun(run')
    BY <1>6, <1>a, <2>2 DEF GetGw, WellRun, RunType, Step
  <2>4. QED BY <1>6, <1>b, <2>3 DEF GetGw
<1>7. CASE GetDev
  <2>1. L3Device(Order[run.k]) \in Device \union {None}
    BY <1>a, OrderTyped DEF L3Device, TypeInv, TypeOK, WellRun, RunType
  <2>2. PICK got \in SUBSET Hop : NextUplink(got)
    BY <1>7, <1>a, <2>1 DEF GetDev, WellRun, RunType, Hop
  <2>3. QED BY <1>7, <1>b, <1>d, <2>2 DEF GetDev
<1>8. CASE SetDefault
  <2>1. WellRun(run')
    <3>1. run.on \in Uplink \X {"ifup", "ifdown"}
      BY <1>8, <1>a DEF SetDefault, WellRun
    <3>2. WellRun([Idle EXCEPT !.step = "sqmDevice", !.on = run.on])
      BY <1>a, <3>1 DEF WellRun, RunType, Step
    <3>3. QED BY <1>8, <1>a, <3>2 DEF SetDefault
  <2>2. default' \subseteq Hop
    BY <1>8, <1>a DEF SetDefault, TypeInv, TypeOK, WellRun, RunType
  <2>3. QED BY <1>8, <2>1, <2>2 DEF SetDefault, WellRun, TypeInv, TypeOK, Injective
<1>9. CASE SqmDevice
  <2>1. L3Device(Asked) \in Device \union {None}
    BY <1>9, <1>c DEF SqmDevice, L3Device, TypeInv, TypeOK
  <2>2. WellRun(run')
    BY <1>9, <1>a, <2>1 DEF SqmDevice, WellRun, RunType, Step
  <2>3. QED BY <1>9, <1>b, <2>2 DEF SqmDevice
<1>10. CASE SqmBind
  <2>1. WellRun(run')
    BY <1>10, <1>a DEF SqmBind, WellRun, RunType, Step
  <2>2. section' \in [Uplink -> Device \union {None}]
    BY <1>10, <1>a DEF SqmBind, Rebind, TypeInv, TypeOK, WellRun, RunType
  <2>3. QED BY <1>10, <2>1, <2>2 DEF SqmBind, WellRun, TypeInv, TypeOK, Injective
<1>11. CASE SqmRestart
  <2>1. WellRun(run')
    BY <1>11, <1>a DEF SqmRestart, WellRun, RunType, Step
  <2>2. QED BY <1>11, <2>1 DEF SqmRestart, WellRun, TypeInv, TypeOK, Injective
<1>12. CASE RpsDevice
  <2>1. WellRun(run')
    BY <1>12, <1>a, <1>c DEF RpsDevice, WellRun, RunType, Step, TypeInv, TypeOK
  <2>2. QED BY <1>12, <1>b, <2>1 DEF RpsDevice
<1>13. CASE SetRps
  <2>1. rps' \subseteq Device
    BY <1>13, <1>a DEF SetRps, Exists, TypeInv, TypeOK, WellRun, RunType
  <2>2. QED BY <1>13, <1>a, <2>1 DEF SetRps, WellRun, TypeInv, TypeOK, Injective
<1>14. QED
  BY <1>1, <1>2, <1>3, <1>4, <1>5, <1>6, <1>7, <1>8, <1>9, <1>10, <1>11, <1>12,
     <1>13 DEF Script

LEMMA TypeStep == TypeInv /\ [Next]_vars => TypeInv'
<1>1. TypeInv /\ UNCHANGED vars => TypeInv'
  BY DEF TypeInv, TypeOK, Injective, vars, netifd, routes, tuning
<1>2. QED BY <1>1, TypeEnvironment, TypeScript DEF Next, Environment

(* The variables of Uplinks stay well typed, for any uplinks and leases.   *)
THEOREM UplinksTyped == Spec => []TypeOK
<1>1. TypeInv => TypeOK
  BY DEF TypeInv
<1>2. QED BY <1>1, TypeInit, TypeStep, PTL DEF Spec
-----------------------------------------------------------------------------
Quiescent == \A i \in Uplink : pending[i] = None

BeforeAsking == {"dnsDevice", "dnsServers", "dnsRoute"}
Asking == {"isUp", "getGw", "getDev"}
Afterwards == {"idle", "sqmDevice", "sqmBind", "sqmRestart", "rpsDevice", "rps"}

(* The next hops 31 should have collected before it asks about uplink k. *)
Expected(k) == {HopOf(Order[j]) : j \in {n \in 1..(k - 1) : Up(Order[n])}}

(* What the script at work knows is true of the uplinks as they are. *)
Answers ==
  /\ run.step \in BeforeAsking => run.k = 1 /\ run.got = {}
  /\ run.step \in Asking => run.got = Expected(run.k)
  /\ run.step \in {"getGw", "getDev"} => Up(Order[run.k])
  /\ run.step = "getDev" => run.gw = link[Order[run.k]].gw
  /\ run.step = "setDefault" => run.got = Current
  /\ run.step \in Afterwards => default = Current

RouteInv == Quiescent => Answers

LEMMA ExpectedFirst == Expected(1) = {}
BY DEF Expected

LEMMA ExpectedNext ==
  ASSUME NEW k \in 1..Len(Order)
  PROVE  Expected(k + 1) = IF Up(Order[k]) THEN Expected(k) \union {HopOf(Order[k])}
                                           ELSE Expected(k)
<1>1. k \in Nat /\ k \in 1..k /\ 1..((k + 1) - 1) = (1..(k - 1)) \union {k}
  BY OrderTyped
<1>2. QED BY <1>1 DEF Expected

LEMMA ExpectedAll == Expected(Len(Order) + 1) = Current
<1>1. (Len(Order) + 1) - 1 = Len(Order)
  BY OrderTyped
<1>2. Uplink = {Order[n] : n \in 1..Len(Order)}
  BY OrderTyped DEF Uplink
<1>3. QED BY <1>1, <1>2 DEF Expected, Current

(* What 31 expects depends on the uplinks alone. *)
LEMMA Frame ==
  ASSUME UNCHANGED netifd
  PROVE  Current' = Current /\ \A k : Expected(k)' = Expected(k)
BY DEF netifd, Current, Expected, HopOf, Up

LEMMA RouteInit == Init => RouteInv
BY DEF Init, RouteInv, Answers, Idle, BeforeAsking, Asking, Afterwards, Current, Up

(* A change either leaves an event pending or is of no account to 31. *)
LEMMA RouteEnvironment == TypeInv /\ RouteInv /\ Environment => RouteInv'
<1> SUFFICES ASSUME TypeInv, RouteInv, Environment PROVE RouteInv'
  OBVIOUS
<1>1. ASSUME NEW i \in Uplink, ComesUp(i) \/ GoesDown(i) PROVE RouteInv'
  <2>1. pending'[i] # None
    BY <1>1, UplinksConstants DEF ComesUp, GoesDown, TypeInv, TypeOK
  <2>2. QED BY <2>1 DEF RouteInv, Quiescent
<1>2. ASSUME NEW i \in Uplink, Recreated(i) PROVE RouteInv'
  <2>1. \A j \in Uplink : Up(j)' = Up(j) /\ (Up(j) => HopOf(j)' = HopOf(j) /\ j # i)
    BY <1>2 DEF Recreated, Up, HopOf, TypeInv, TypeOK
  <2>2. Current' = Current
    BY <2>1 DEF Current
  <2>3. run.k \in 1..Len(Order)
    BY OrderTyped DEF TypeInv, TypeOK, RunType
  <2>4. Expected(run.k)' = Expected(run.k)
    <3>1. \A n \in 1..(run.k - 1) : Order[n] \in Uplink
      BY <2>3, OrderTyped
    <3>2. run' = run
      BY <1>2 DEF Recreated
    <3>3. QED BY <2>1, <3>1, <3>2 DEF Expected
  <2>5. default = Current => default' = Current
    <3>1. \A h \in Current : h.dev # nic[i]
      <4>1. \A j \in Uplink : Up(j) => nic[j] # nic[i]
        BY <2>1 DEF TypeInv, Injective
      <4>2. QED BY <4>1 DEF Current, HopOf
    <3>2. default = Current => default' = default
      BY <1>2, <3>1 DEF Recreated, Flush
    <3>3. QED BY <3>2
  <2>6. Order[run.k] \in Uplink
    BY <2>3, OrderTyped
  <2>7. QED
    BY <1>2, <2>1, <2>2, <2>4, <2>5, <2>6
    DEF Recreated, RouteInv, Quiescent, Answers, HopOf
<1>3. CASE Reboots
  BY <1>3 DEF Reboots, RouteInv, Answers, Idle, BeforeAsking, Asking, Afterwards,
     Current, Up
<1>4. QED BY <1>1, <1>2, <1>3 DEF Environment

(* 31 goes on to the next uplink with what it should have by then. *)
LEMMA RouteNextUplink ==
  ASSUME TypeInv, UNCHANGED netifd, NEW got,
         got = Expected(run.k + 1), NextUplink(got)
  PROVE  Answers'
<1>1. run.k \in 1..Len(Order) /\ Len(Order) \in Nat
  BY OrderTyped DEF TypeInv, TypeOK, RunType
<1>2. CASE run.k = Len(Order)
  <2>1. run'.step = "setDefault" /\ run'.got = got
    BY <1>2 DEF NextUplink, TypeInv, TypeOK, RunType
  <2>2. run'.got = Current'
    BY <1>2, <2>1, ExpectedAll, Frame
  <2>3. QED BY <2>1, <2>2 DEF Answers, BeforeAsking, Asking, Afterwards
<1>3. CASE run.k # Len(Order)
  <2>1. run'.step = "isUp" /\ run'.got = got /\ run'.k = run.k + 1
    BY <1>3 DEF NextUplink, TypeInv, TypeOK, RunType
  <2>2. Expected(run.k)' = Expected(run.k + 1)
    BY <2>1, Frame
  <2>3. QED BY <2>1, <2>2 DEF Answers, BeforeAsking, Asking, Afterwards
<1>4. QED BY <1>2, <1>3

(* So what 31 has collected when it is done is the truth, if nothing is    *)
(* pending then.                                                           *)
LEMMA RouteScript == TypeInv /\ RouteInv /\ Script => RouteInv'
<1> SUFFICES ASSUME TypeInv, RouteInv, Script, Quiescent' PROVE Answers'
  BY DEF RouteInv
<1> USE DEF At, Goto
<1>1. run \in RunType /\ run.k \in 1..Len(Order) /\ Order[run.k] \in Uplink
  BY OrderTyped DEF TypeInv, TypeOK, RunType
<1>2. ASSUME NEW i \in Uplink, Begin(i) PROVE Answers'
  <2>1. run'.step \in {"dnsDevice", "isUp"} /\ run'.k = 1 /\ run'.got = {}
    BY <1>2, IdleTyped DEF Begin, FirstStep, Idle
  <2>2. Expected(run.k)' = {}
    BY <2>1 DEF Expected
  <2>3. QED BY <2>1, <2>2 DEF Answers, BeforeAsking, Asking, Afterwards
<1>3. ASSUME DnsDevice \/ DnsServers \/ DnsRoute PROVE Answers'
  <2>1. Quiescent /\ UNCHANGED netifd
    BY <1>3 DEF DnsDevice, DnsServers, DnsRoute, Quiescent, netifd, routes, tuning
  <2>2. run.k = 1 /\ run.got = {}
    BY <1>3, <2>1 DEF RouteInv, Answers, BeforeAsking, DnsDevice, DnsServers, DnsRoute
  <2>3. run'.step \in BeforeAsking \union {"isUp"} /\ run'.k = 1 /\ run'.got = {}
    BY <1>1, <1>3, <2>2 DEF DnsDevice, DnsServers, DnsRoute, BeforeAsking, RunType
  <2>4. Expected(run.k)' = {}
    BY <2>3 DEF Expected
  <2>5. QED BY <2>3, <2>4 DEF Answers, BeforeAsking, Asking, Afterwards
<1>4. CASE IsUp
  <2>1. Quiescent /\ UNCHANGED netifd
    BY <1>4 DEF IsUp, Quiescent, netifd
  <2>2. run.got = Expected(run.k)
    BY <1>4, <2>1 DEF IsUp, RouteInv, Answers, Asking
  <2>3. CASE Up(Order[run.k])
    <3>1. run'.step = "getGw" /\ run'.got = run.got /\ run'.k = run.k
      BY <1>1, <1>4, <2>3 DEF IsUp, RunType
    <3>2. Expected(run.k)' = Expected(run.k)
      BY <2>1, <3>1, Frame
    <3>3. Up(Order[run.k])'
      BY <2>1, <2>3, <3>1 DEF Up, netifd
    <3>4. QED BY <2>2, <3>1, <3>2, <3>3 DEF Answers, BeforeAsking, Asking, Afterwards
  <2>4. CASE ~ Up(Order[run.k])
    <3>1. NextUplink(run.got) /\ run.got = Expected(run.k + 1)
      BY <1>1, <1>4, <2>2, <2>4, ExpectedNext DEF IsUp
    <3>2. QED BY <2>1, <3>1, RouteNextUplink
  <2>5. QED BY <2>3, <2>4
<1>5. CASE GetGw
  <2>1. Quiescent /\ UNCHANGED netifd
    BY <1>5 DEF GetGw, Quiescent, netifd
  <2>2. run.got = Expected(run.k) /\ Up(Order[run.k])
    BY <1>5, <2>1 DEF GetGw, RouteInv, Answers, Asking
  <2>3. /\ run'.step = "getDev" /\ run'.got = run.got /\ run'.k = run.k
        /\ run'.gw = link[Order[run.k]].gw
    BY <1>1, <1>5, <2>2 DEF GetGw, RunType
  <2>4. Expected(run.k)' = Expected(run.k)
    BY <2>1, <2>3, Frame
  <2>5. Up(Order[run.k])' /\ run'.gw = link'[Order[run'.k]].gw
    BY <2>1, <2>2, <2>3 DEF Up, netifd
  <2>6. QED BY <2>2, <2>3, <2>4, <2>5 DEF Answers, BeforeAsking, Asking, Afterwards
<1>6. CASE GetDev
  <2>1. Quiescent /\ UNCHANGED netifd
    BY <1>6 DEF GetDev, Quiescent, netifd
  <2>2. /\ run.got = Expected(run.k) /\ Up(Order[run.k])
        /\ run.gw = link[Order[run.k]].gw
    BY <1>6, <2>1 DEF GetDev, RouteInv, Answers, Asking
  <2>3. run.gw # None /\ nic[Order[run.k]] # None
    <3>1. link[Order[run.k]] \in Lease[Order[run.k]]
      BY <1>1, <2>2, LeaseTyped DEF TypeInv
    <3>2. nic[Order[run.k]] \in Device
      BY <1>1 DEF TypeInv, TypeOK
    <3>3. QED BY <1>1, <2>2, <3>1, <3>2, UplinksConstants
  <2>4. NextUplink(Expected(run.k) \union {HopOf(Order[run.k])})
    BY <1>6, <2>2, <2>3 DEF GetDev, L3Device, HopOf
  <2>5. QED BY <1>1, <2>1, <2>2, <2>4, ExpectedNext, RouteNextUplink
<1>7. CASE SetDefault
  <2>1. Quiescent /\ UNCHANGED netifd
    BY <1>7 DEF SetDefault, Quiescent, netifd, tuning
  <2>2. run.got = Current
    BY <1>7, <2>1 DEF SetDefault, RouteInv, Answers
  <2>3. default' = Current'
    BY <1>7, <2>1, <2>2, Frame DEF SetDefault
  <2>4. run'.step \in Afterwards
    BY <1>7, IdleTyped DEF SetDefault, Afterwards, RunType
  <2>5. QED BY <2>3, <2>4 DEF Answers, BeforeAsking, Asking, Afterwards
<1>8. ASSUME SqmDevice \/ SqmBind \/ SqmRestart \/ RpsDevice \/ SetRps
      PROVE  Answers'
  <2>1. Quiescent /\ UNCHANGED netifd /\ UNCHANGED default
    BY <1>8 DEF SqmDevice, SqmBind, SqmRestart, RpsDevice, SetRps, Quiescent, netifd,
       routes
  <2>2. default = Current
    BY <1>8, <2>1 DEF SqmDevice, SqmBind, SqmRestart, RpsDevice, SetRps, RouteInv,
       Answers, Afterwards
  <2>3. run'.step \in Afterwards
    BY <1>1, <1>8, IdleTyped DEF SqmDevice, SqmBind, SqmRestart, RpsDevice, SetRps,
       RunType, Afterwards
  <2>4. default' = Current'
    BY <2>1, <2>2, Frame
  <2>5. QED BY <2>3, <2>4 DEF Answers, BeforeAsking, Asking, Afterwards
<1>9. QED
  BY <1>2, <1>3, <1>4, <1>5, <1>6, <1>7, <1>8 DEF Script

LEMMA RouteStep == TypeInv /\ RouteInv /\ [Next]_vars => RouteInv'
<1>1. RouteInv /\ UNCHANGED vars => RouteInv'
  BY DEF RouteInv, Quiescent, Answers, Expected, Current, HopOf, Up, vars, netifd,
     routes
<1>2. QED BY <1>1, RouteEnvironment, RouteScript DEF Next, Environment

(* "reconstructs the weighted multipath route whenever either uplink's     *)
(* state changes": however uplinks come, go and are renamed between the    *)
(* questions 31 asks, the default route is right once the scripts are done.*)
THEOREM DefaultConverges == Spec => []DefaultInStep
<1>1. RouteInv => DefaultInStep
  BY DEF RouteInv, DefaultInStep, Settled, Quiescent, Answers, Afterwards
<1>2. QED BY <1>1, TypeInit, TypeStep, RouteInit, RouteStep, PTL DEF Spec
-----------------------------------------------------------------------------
(* What an uplink that is up and has no event pending can count on: its    *)
(* last event was an ifup, and the scripts run for it asked for the device *)
(* and the lease it still has.                                             *)
Fresh(i) == Up(i) /\ pending[i] = None

UpOnly == {"dnsDevice", "dnsServers", "dnsRoute", "sqmDevice", "sqmBind",
           "sqmRestart", "rpsDevice", "rps"}

(* The last event of an uplink says which way it went. *)
EventsInv ==
  /\ \A i \in Uplink : pending[i] # None => (pending[i] = "ifup" <=> Up(i))
  /\ run.step # "idle" =>
       (pending[Asked] = None => (run.on[2] = "ifup" <=> Up(Asked)))
  /\ run.step \in UpOnly => run.on[2] = "ifup"

(* DEVICE is still the uplink's device when it is used. *)
DeviceInv ==
  run.step \in {"dnsServers", "dnsRoute", "sqmBind", "rps"} =>
    (Fresh(Asked) => run.dev = nic[Asked])

(* The scripts for uplink i have come to one of the steps S. *)
Busy(i, S) == run.step \in S /\ Asked = i

SectionInv ==
  \A i \in Uplink : Fresh(i) =>
    \/ section[i] = nic[i]
    \/ Busy(i, Step \ {"idle", "sqmRestart", "rpsDevice", "rps"})

SteeringInv ==
  \A i \in Uplink : Fresh(i) => nic[i] \in rps \/ Busy(i, Step \ {"idle"})

(* Once all are up, the latest restart of sqm has shaped them all. *)
ShapedInv ==
  (\A i \in Uplink : Fresh(i)) /\ run.step \in {"idle", "rpsDevice", "rps"}
    => \A i \in Uplink : shaper[nic[i]] = i

TunedInv == EventsInv /\ DeviceInv /\ SectionInv /\ SteeringInv /\ ShapedInv

LEMMA TunedInit == Init => TunedInv
<1> SUFFICES ASSUME Init PROVE TunedInv
  OBVIOUS
<1>1. run.step = "idle" /\ \A i \in Uplink : ~Fresh(i) /\ pending[i] = None
  BY IdleTyped DEF Init, Fresh, Up
<1>2. \E i \in Uplink : TRUE
  BY OrderTyped
<1>3. QED
  BY <1>1, <1>2 DEF TunedInv, EventsInv, DeviceInv, SectionInv, SteeringInv, ShapedInv,
     UpOnly

(* A change of an uplink leaves an event, or happens to one that is down;  *)
(* the others keep what they had.                                          *)
LEMMA Undisturbed ==
  ASSUME TypeInv, Environment, NEW j \in Uplink, Fresh(j)'
  PROVE  /\ Fresh(j) /\ nic'[j] = nic[j] /\ link'[j] = link[j]
         /\ UNCHANGED <<run, section>>
         /\ nic[j] \in rps => nic'[j] \in rps'
         /\ shaper'[nic[j]] = shaper[nic[j]]
         /\ \A s \in Server : host[s] = nic[j] => host'[s] = nic[j]
<1> USE DEF Fresh, Up, TypeInv, TypeOK, Injective
<1>1. ASSUME NEW i \in Uplink, ComesUp(i) PROVE i # j /\ UNCHANGED <<nic, run, routes, tuning>>
  BY <1>1, UplinksConstants DEF ComesUp
<1>2. ASSUME NEW i \in Uplink, GoesDown(i) PROVE i # j /\ UNCHANGED <<nic, run, tuning>>
  BY <1>2 DEF GoesDown
<1>3. ASSUME NEW i \in Uplink, Recreated(i)
      PROVE  i # j /\ UNCHANGED <<link, pending, run, section>>
  BY <1>3 DEF Recreated
<1>4. ASSUME NEW i \in Uplink, i # j, Flush(nic[i])
      PROVE  \A s \in Server : host[s] = nic[j] => host'[s] = nic[j]
  BY <1>4 DEF Flush
<1>5. ASSUME NEW i \in Uplink, ComesUp(i)
      PROVE  /\ Fresh(j) /\ nic'[j] = nic[j] /\ link'[j] = link[j]
             /\ UNCHANGED <<run, routes, tuning>>
  BY <1>1, <1>5 DEF ComesUp
<1>6. ASSUME NEW i \in Uplink, GoesDown(i)
      PROVE  /\ Fresh(j) /\ nic'[j] = nic[j] /\ link'[j] = link[j]
             /\ UNCHANGED <<run, tuning>>
             /\ \A s \in Server : host[s] = nic[j] => host'[s] = nic[j]
  BY <1>2, <1>4, <1>6 DEF GoesDown, routes
<1>7. ASSUME NEW i \in Uplink, Recreated(i)
      PROVE  /\ Fresh(j) /\ nic'[j] = nic[j] /\ link'[j] = link[j]
             /\ UNCHANGED <<run, section>>
             /\ nic[j] \in rps => nic'[j] \in rps'
             /\ shaper'[nic[j]] = shaper[nic[j]]
             /\ \A s \in Server : host[s] = nic[j] => host'[s] = nic[j]
  <2>1. nic'[j] = nic[j] /\ nic[i] # nic[j]
    BY <1>3, <1>7 DEF Recreated
  <2>2. \A s \in Server : host[s] = nic[j] => host'[s] = nic[j]
    BY <1>3, <1>4, <1>7 DEF Recreated
  <2>3. QED BY <1>3, <1>7, <2>1, <2>2 DEF Recreated
<1>8. CASE Reboots
  BY <1>8 DEF Reboots
<1>9. QED BY <1>5, <1>6, <1>7, <1>8 DEF Environment, routes, tuning

LEMMA EventsEnvironment == TypeInv /\ EventsInv /\ Environment => EventsInv'
<1> SUFFICES ASSUME TypeInv, EventsInv, Environment PROVE EventsInv'
  OBVIOUS
<1> USE DEF EventsInv, Up, Asked
<1>1. run.step # "idle" => Asked \in Uplink
  BY DEF TypeInv
<1>2. ASSUME NEW i \in Uplink, ComesUp(i) PROVE EventsInv'
  BY <1>1, <1>2, UplinksConstants DEF ComesUp, TypeInv, TypeOK
<1>3. ASSUME NEW i \in Uplink, GoesDown(i) PROVE EventsInv'
  BY <1>1, <1>3, UplinksConstants DEF GoesDown, TypeInv, TypeOK
<1>4. ASSUME NEW i \in Uplink, Recreated(i) PROVE EventsInv'
  BY <1>4 DEF Recreated
<1>5. CASE Reboots
  BY <1>5, IdleTyped DEF Reboots, UpOnly
<1>6. QED BY <1>2, <1>3, <1>4, <1>5 DEF Environment

LEMMA TunedEnvironment == TypeInv /\ TunedInv /\ Environment => TunedInv'
<1> SUFFICES ASSUME TypeInv, TunedInv, Environment PROVE TunedInv'
  OBVIOUS
<1>1. EventsInv'
  BY EventsEnvironment DEF TunedInv
<1>2. DeviceInv'
  <2> SUFFICES ASSUME run'.step \in {"dnsServers", "dnsRoute", "sqmBind", "rps"}, Fresh(Asked)'
               PROVE  run'.dev = (nic[Asked])'
    BY DEF DeviceInv
  <2>1. Asked' \in Uplink
    BY TypeEnvironment DEF TypeInv, Asked
  <2>2. UNCHANGED run /\ Fresh(Asked') /\ nic'[Asked'] = nic[Asked']
    <3>1. PICK j \in Uplink : j = Asked'
      BY <2>1
    <3>2. Fresh(j)'
      BY <3>1 DEF Fresh, Up
    <3>3. UNCHANGED run /\ Fresh(j) /\ nic'[j] = nic[j]
      BY <3>2, Undisturbed
    <3>4. QED BY <3>1, <3>3
  <2>3. QED BY <2>2 DEF TunedInv, DeviceInv, Asked
<1>3. SectionInv'
  BY Undisturbed DEF TunedInv, SectionInv, Busy, Asked
<1>4. SteeringInv'
  BY Undisturbed DEF TunedInv, SteeringInv, Busy, Asked
<1>5. ShapedInv'
  <2> SUFFICES ASSUME \A i \in Uplink : Fresh(i)', run'.step \in {"idle", "rpsDevice", "rps"},
                      NEW j \in Uplink
               PROVE  (shaper[nic[j]] = j)'
    BY DEF ShapedInv
  <2>1. \A i \in Uplink : Fresh(i) /\ UNCHANGED run
    BY Undisturbed
  <2>2. shaper[nic[j]] = j
    BY <2>1 DEF TunedInv, ShapedInv
  <2>3. QED BY <2>2, Undisturbed
<1>6. QED BY <1>1, <1>2, <1>3, <1>4, <1>5 DEF TunedInv

(* The servers that are still to be routed come from a lease of the uplink *)
(* the script runs for; the others are routed already.                     *)
DnsInv ==
  /\ run.step = "dnsRoute" => \A s \in run.todo : \E l \in Lease[Asked] : s \in l.dns
  /\ \A i \in Uplink : Fresh(i) => \A s \in link[i].dns :
       \/ host[s] = nic[i]
       \/ Busy(i, {"dnsDevice", "dnsServers"})
       \/ Busy(i, {"dnsRoute"}) /\ s \in run.todo

(* No server is handed out by two uplinks.                                 *)
OwnServers ==
  \A i, j \in Uplink : i # j =>
    \A l \in Lease[i], m \in Lease[j] : l.dns \intersect m.dns = {}

LEMMA DnsInit == Init => DnsInv
<1> SUFFICES ASSUME Init PROVE DnsInv
  OBVIOUS
<1>1. run.step = "idle" /\ \A i \in Uplink : ~Fresh(i)
  BY IdleTyped DEF Init, Fresh, Up
<1>2. QED BY <1>1 DEF DnsInv

LEMMA DnsEnvironment == TypeInv /\ DnsInv /\ Environment => DnsInv'
<1> SUFFICES ASSUME TypeInv, DnsInv, Environment PROVE DnsInv'
  OBVIOUS
<1>1. UNCHANGED run \/ run'.step = "idle"
  BY IdleTyped DEF Environment, ComesUp, GoesDown, Recreated, Reboots
<1>2. ASSUME NEW i \in Uplink, Fresh(i)', NEW s \in link'[i].dns
      PROVE  \/ host'[s] = nic'[i]
             \/ Busy(i, {"dnsDevice", "dnsServers"})'
             \/ Busy(i, {"dnsRoute"})' /\ s \in run'.todo
  <2>1. /\ Fresh(i) /\ nic'[i] = nic[i] /\ link'[i] = link[i] /\ UNCHANGED run
        /\ \A t \in Server : host[t] = nic[i] => host'[t] = nic[i]
    BY <1>2, Undisturbed
  <2>2. s \in Server
    BY <1>2, <2>1, LeaseTyped DEF Fresh, TypeInv
  <2>3. QED BY <1>2, <2>1, <2>2 DEF DnsInv, Busy, Asked
<1>3. QED BY <1>1, <1>2 DEF DnsInv, Asked

(* Begin takes up the last event of its uplink; nothing else was running.  *)
LEMMA TunedBegin ==
  ASSUME TypeInv, TunedInv, NEW i \in Uplink, Begin(i)
  PROVE  TunedInv' /\ (DnsInv => DnsInv')
<1>1. /\ run'.step = FirstStep(pending[i]) /\ run'.on = <<i, pending[i]>>
      /\ Asked' = i /\ run.step = "idle"
      /\ UNCHANGED <<nic, link, routes, tuning>>
      /\ pending' = [pending EXCEPT ![i] = None]
      /\ pending[i] \in {"ifup", "ifdown"}
  BY IdleTyped DEF Begin, RunType, netifd, TypeInv, TypeOK, Asked
<1>2. run'.step \in {"dnsDevice", "isUp"} /\ (pending[i] = "ifup" => run'.step = "dnsDevice")
      /\ (run'.step = "dnsDevice" => pending[i] = "ifup")
  BY <1>1 DEF FirstStep
<1>3. \A j \in Uplink \ {i} : (Fresh(j)' <=> Fresh(j)) /\ pending'[j] = pending[j]
  BY <1>1 DEF Fresh, Up, TypeInv, TypeOK
<1>4. Fresh(i)' => pending[i] = "ifup"
  BY <1>1, UplinksConstants DEF TunedInv, EventsInv, Fresh, Up
<1>5. EventsInv'
  BY <1>1, <1>2, <1>3, UplinksConstants DEF TunedInv, EventsInv, UpOnly, Up, TypeInv, TypeOK
<1>6. DeviceInv' /\ ShapedInv'
  BY <1>2 DEF DeviceInv, ShapedInv
<1>7. SectionInv' /\ SteeringInv'
  BY <1>1, <1>2, <1>3, <1>4 DEF TunedInv, SectionInv, SteeringInv, Busy, Step, tuning
<1>8. DnsInv => DnsInv'
  BY <1>1, <1>2, <1>3, <1>4 DEF DnsInv, Busy, routes
<1>9. QED BY <1>5, <1>6, <1>7, <1>8 DEF TunedInv

(* The steps that only ask and go on: none of the uplinks' state, nor what *)
(* the scripts have set, changes.                                          *)
Asks == UNCHANGED <<netifd, pending, routes, tuning>> /\ run'.on = run.on

LEMMA FreshAsking ==
  ASSUME UNCHANGED <<netifd, pending>>, run'.on = run.on
  PROVE  /\ \A i : Fresh(i)' <=> Fresh(i)
         /\ \A i : Up(i)' <=> Up(i)
         /\ Asked' = Asked /\ UNCHANGED <<nic, link>>
BY DEF Fresh, Up, Asked, netifd

LEMMA TunedDnsDevice ==
  ASSUME TypeInv, TunedInv, DnsDevice PROVE TunedInv' /\ (DnsInv => DnsInv')
<1>1. /\ Asks /\ run.step = "dnsDevice"
      /\ run'.step = IF Up(Asked) THEN "dnsServers" ELSE "isUp"
      /\ Up(Asked) => run'.dev = nic[Asked]
  BY DEF DnsDevice, At, L3Device, Asks, TypeInv, TypeOK, RunType
<1>2. /\ \A i : Fresh(i)' <=> Fresh(i)
      /\ \A i : Up(i)' <=> Up(i)
      /\ Asked' = Asked /\ UNCHANGED <<nic, link>>
  BY <1>1, FreshAsking DEF Asks
<1>3. EventsInv' /\ DeviceInv' /\ ShapedInv'
  BY <1>1, <1>2 DEF TunedInv, EventsInv, DeviceInv, ShapedInv, UpOnly, Asks, Fresh
<1>4. SectionInv' /\ SteeringInv'
  BY <1>1, <1>2 DEF TunedInv, SectionInv, SteeringInv, Busy, Step, Asks, tuning
<1>5. DnsInv => DnsInv'
  BY <1>1, <1>2 DEF DnsInv, Busy, Asks, routes, Fresh
<1>6. QED BY <1>3, <1>4, <1>5 DEF TunedInv

LEMMA TunedDnsServers ==
  ASSUME TypeInv, TunedInv, DnsServers PROVE TunedInv' /\ (DnsInv => DnsInv')
<1>1. /\ Asks /\ run.step = "dnsServers" /\ run'.step = "dnsRoute" /\ run'.dev = run.dev
      /\ run'.todo = IF Up(Asked) THEN link[Asked].dns ELSE {}
  BY DEF DnsServers, DnsList, At, Asks, TypeInv, TypeOK, RunType
<1>2. /\ \A i : Fresh(i)' <=> Fresh(i)
      /\ \A i : Up(i)' <=> Up(i)
      /\ Asked' = Asked /\ UNCHANGED <<nic, link>>
  BY <1>1, FreshAsking DEF Asks
<1>3. EventsInv' /\ DeviceInv' /\ ShapedInv'
  BY <1>1, <1>2 DEF TunedInv, EventsInv, DeviceInv, ShapedInv, UpOnly, Asks, Fresh
<1>4. SectionInv' /\ SteeringInv'
  BY <1>1, <1>2 DEF TunedInv, SectionInv, SteeringInv, Busy, Step, Asks, tuning
<1>5. Asked \in Uplink /\ (Up(Asked) => link[Asked] \in Lease[Asked])
  BY <1>1, LeaseTyped DEF TypeInv, Asked
<1>6. DnsInv => DnsInv'
  BY <1>1, <1>2, <1>5 DEF DnsInv, Busy, Asks, routes, Fresh
<1>7. QED BY <1>3, <1>4, <1>6 DEF TunedInv

(* A route over the device of an uplink that is up is not refused, and     *)
(* another uplink's servers are left alone.                                *)
LEMMA TunedDnsRoute ==
  ASSUME TypeInv, TunedInv, DnsRoute
  PROVE  TunedInv' /\ (OwnServers /\ DnsInv => DnsInv')
<1>1. /\ UNCHANGED <<netifd, pending, tuning>> /\ run'.on = run.on /\ run'.dev = run.dev
      /\ run.step = "dnsRoute" /\ run'.step \in {"dnsRoute", "isUp"}
      /\ run'.step = "isUp" => run.todo = {} /\ UNCHANGED host
  BY DEF DnsRoute, At, Goto, TypeInv, TypeOK, RunType
<1>2. /\ \A i : Fresh(i)' <=> Fresh(i)
      /\ \A i : Up(i)' <=> Up(i)
      /\ Asked' = Asked /\ UNCHANGED <<nic, link>>
  BY <1>1, FreshAsking
<1>3. EventsInv' /\ DeviceInv' /\ ShapedInv'
  BY <1>1, <1>2 DEF TunedInv, EventsInv, DeviceInv, ShapedInv, UpOnly, Fresh
<1>4. SectionInv' /\ SteeringInv'
  BY <1>1, <1>2 DEF TunedInv, SectionInv, SteeringInv, Busy, Step, tuning
<1>5. ASSUME OwnServers, DnsInv PROVE DnsInv'
  <2>1. CASE run.todo = {}
    <3>1. UNCHANGED host /\ run'.step = "isUp"
      BY <2>1 DEF DnsRoute, Goto, TypeInv, TypeOK, RunType
    <3>2. QED BY <1>1, <1>2, <1>5, <2>1, <3>1 DEF DnsInv, Busy
  <2>2. CASE run.todo # {}
    <3>1. PICK s \in run.todo :
            /\ run' = [run EXCEPT !.todo = @ \ {s}]
            /\ \/ Exists(run.dev) /\ host' = [host EXCEPT ![s] = run.dev]
               \/ ~ Running(run.dev) /\ UNCHANGED host
      BY <2>2 DEF DnsRoute
    <3>2. run'.todo = run.todo \ {s} /\ run'.step = "dnsRoute" /\ s \in Server
      BY <1>1, <3>1 DEF TypeInv, TypeOK, RunType
    <3>3. Asked \in Uplink
      BY <1>1 DEF TypeInv, Asked
    <3>4. PICK l \in Lease[Asked] : s \in l.dns
      BY <1>1, <1>5 DEF DnsInv
    <3>5. ASSUME NEW i \in Uplink, Fresh(i), NEW t \in link[i].dns
          PROVE  host'[t] = nic[i] \/ (Asked = i /\ t \in run'.todo)
      <4>1. link[i] \in Lease[i] /\ t \in Server
        BY <3>5, LeaseTyped DEF Fresh, TypeInv
      <4>2. CASE i # Asked
        <5>1. s # t
          BY <1>5, <3>3, <3>4, <3>5, <4>1, <4>2 DEF OwnServers
        <5>2. host[t] = nic[i]
          BY <1>1, <1>5, <3>5, <4>2 DEF DnsInv, Busy
        <5>3. QED BY <3>1, <4>1, <5>1, <5>2 DEF TypeInv, TypeOK
      <4>3. CASE i = Asked /\ s = t
        <5>1. run.dev = nic[i]
          BY <1>1, <3>5, <4>3 DEF TunedInv, DeviceInv
        <5>2. Running(run.dev)
          BY <3>5, <5>1 DEF Running, Fresh
        <5>3. QED BY <3>1, <3>2, <4>3, <5>1, <5>2 DEF TypeInv, TypeOK
      <4>4. CASE i = Asked /\ s # t
        <5>1. host[t] = nic[i] \/ t \in run.todo
          BY <1>1, <1>5, <3>5, <4>4 DEF DnsInv, Busy
        <5>2. QED BY <3>1, <3>2, <4>1, <4>4, <5>1 DEF TypeInv, TypeOK
      <4>5. QED BY <4>2, <4>3, <4>4
    <3>6. QED BY <1>1, <1>2, <1>5, <3>2, <3>5 DEF DnsInv, Busy
  <2>3. QED BY <2>1, <2>2
<1>6. QED BY <1>3, <1>4, <1>5 DEF TunedInv

(* 31 leaves alone what the others set. *)
LEMMA TunedAsking ==
  ASSUME TypeInv, TunedInv, IsUp \/ GetGw \/ GetDev
  PROVE  TunedInv' /\ (DnsInv => DnsInv')
<1>1. /\ Asks /\ run.step \in Asking /\ run'.step \in Asking \union {"setDefault"}
  BY DEF IsUp, GetGw, GetDev, NextUplink, At, Goto, Asks, Asking, TypeInv, TypeOK, RunType
<1>2. /\ \A i : Fresh(i)' <=> Fresh(i)
      /\ \A i : Up(i)' <=> Up(i)
      /\ Asked' = Asked /\ UNCHANGED <<nic, link>>
  BY <1>1, FreshAsking DEF Asks
<1>3. EventsInv' /\ DeviceInv' /\ ShapedInv'
  BY <1>1, <1>2
     DEF TunedInv, EventsInv, DeviceInv, ShapedInv, UpOnly, Asks, Asking, Fresh
<1>4. SectionInv' /\ SteeringInv'
  BY <1>1, <1>2 DEF TunedInv, SectionInv, SteeringInv, Busy, Step, Asks, Asking, tuning
<1>5. DnsInv => DnsInv'
  BY <1>1, <1>2 DEF DnsInv, Busy, Asks, Asking, routes, Fresh
<1>6. QED BY <1>3, <1>4, <1>5 DEF TunedInv

(* A script that stops here was called for an uplink that went down. *)
LEMMA TunedSetDefault ==
  ASSUME TypeInv, TunedInv, SetDefault
  PROVE  TunedInv' /\ (DnsInv => DnsInv')
<1>1. /\ UNCHANGED <<netifd, pending, host, tuning>> /\ run.step = "setDefault"
      /\ run.on[2] = "ifup" => run'.step = "sqmDevice" /\ run'.on = run.on
      /\ run.on[2] # "ifup" => run'.step = "idle"
  BY IdleTyped DEF SetDefault, At, RunType
<1>2. /\ \A i : Fresh(i)' <=> Fresh(i)
      /\ \A i : Up(i)' <=> Up(i)
      /\ UNCHANGED <<nic, link>>
  BY <1>1 DEF Fresh, Up, netifd
<1>3. Asked \in Uplink
  BY <1>1 DEF TypeInv, Asked
<1>4. Fresh(Asked) => run.on[2] = "ifup"
  BY <1>1, <1>3 DEF TunedInv, EventsInv, Fresh
<1>5. Fresh(Asked) => run'.step = "sqmDevice" /\ Asked' = Asked
  BY <1>1, <1>4 DEF Asked
<1>6. EventsInv' /\ DeviceInv'
  BY <1>1, <1>2 DEF TunedInv, EventsInv, DeviceInv, UpOnly, Asked
<1>7. SectionInv' /\ SteeringInv'
  BY <1>1, <1>2, <1>5 DEF TunedInv, SectionInv, SteeringInv, Busy, Step, tuning
<1>8. ShapedInv'
  BY <1>1, <1>2, <1>3, <1>5 DEF ShapedInv
<1>9. DnsInv => DnsInv'
  BY <1>1, <1>2, <1>5 DEF DnsInv, Busy
<1>10. QED BY <1>6, <1>7, <1>8, <1>9 DEF TunedInv

LEMMA TunedSqmDevice ==
  ASSUME TypeInv, TunedInv, SqmDevice
  PROVE  TunedInv' /\ (DnsInv => DnsInv')
<1>1. /\ Asks /\ run.step = "sqmDevice"
      /\ run'.step = IF Up(Asked) THEN "sqmBind" ELSE "rpsDevice"
      /\ Up(Asked) => run'.dev = nic[Asked]
  BY DEF SqmDevice, At, L3Device, Asks, TypeInv, TypeOK, RunType
<1>2. /\ \A i : Fresh(i)' <=> Fresh(i)
      /\ \A i : Up(i)' <=> Up(i)
      /\ Asked' = Asked /\ UNCHANGED <<nic, link>>
  BY <1>1, FreshAsking DEF Asks
<1>3. Asked \in Uplink
  BY <1>1 DEF TypeInv, Asked
<1>4. EventsInv' /\ DeviceInv' /\ ShapedInv'
  BY <1>1, <1>2, <1>3 DEF TunedInv, EventsInv, DeviceInv, ShapedInv, UpOnly, Asks, Fresh
<1>5. SectionInv' /\ SteeringInv'
  BY <1>1, <1>2 DEF TunedInv, SectionInv, SteeringInv, Busy, Step, Asks, Fresh, tuning
<1>6. DnsInv => DnsInv'
  BY <1>1, <1>2 DEF DnsInv, Busy, Asks, routes, Fresh
<1>7. QED BY <1>4, <1>5, <1>6 DEF TunedInv

LEMMA TunedSqmBind ==
  ASSUME TypeInv, TunedInv, SqmBind
  PROVE  TunedInv' /\ (DnsInv => DnsInv')
<1>1. /\ UNCHANGED <<netifd, pending, routes, shaper, rps>> /\ run'.on = run.on
      /\ run.step = "sqmBind" /\ run'.step = "sqmRestart" /\ run'.dev = run.dev
      /\ section' = [section EXCEPT ![Asked] = run.dev]
  BY DEF SqmBind, Rebind, At, Goto, TypeInv, TypeOK, RunType
<1>2. /\ \A i : Fresh(i)' <=> Fresh(i)
      /\ \A i : Up(i)' <=> Up(i)
      /\ Asked' = Asked /\ UNCHANGED <<nic, link>>
  BY <1>1, FreshAsking
<1>3. EventsInv' /\ DeviceInv' /\ ShapedInv'
  BY <1>1, <1>2 DEF TunedInv, EventsInv, DeviceInv, ShapedInv, UpOnly
<1>4. SteeringInv'
  BY <1>1, <1>2 DEF TunedInv, SteeringInv, Busy, Step
<1>5. ASSUME NEW i \in Uplink, Fresh(i) PROVE section'[i] = nic[i]
  <2>1. CASE i = Asked
    BY <1>1, <1>5, <2>1 DEF TunedInv, DeviceInv, TypeInv, TypeOK
  <2>2. CASE i # Asked
    BY <1>1, <1>5, <2>2 DEF TunedInv, SectionInv, Busy, TypeInv, TypeOK
  <2>3. QED BY <2>1, <2>2
<1>6. SectionInv'
  BY <1>2, <1>5 DEF SectionInv
<1>7. DnsInv => DnsInv'
  BY <1>1, <1>2 DEF DnsInv, Busy, routes
<1>8. QED BY <1>3, <1>4, <1>6, <1>7 DEF TunedInv

(* The restart that finds every section bound to its own uplink's device   *)
(* shapes each device by the one section that names it.                    *)
LEMMA TunedSqmRestart ==
  ASSUME TypeInv, TunedInv, SqmRestart
  PROVE  TunedInv' /\ (DnsInv => DnsInv')
<1>1. /\ UNCHANGED <<netifd, pending, routes, section, rps>> /\ run'.on = run.on
      /\ run.step = "sqmRestart" /\ run'.step = "rpsDevice"
  BY DEF SqmRestart, At, Goto, TypeInv, TypeOK, RunType
<1>2. /\ \A i : Fresh(i)' <=> Fresh(i)
      /\ \A i : Up(i)' <=> Up(i)
      /\ Asked' = Asked /\ UNCHANGED <<nic, link>>
  BY <1>1, FreshAsking
<1>3. EventsInv' /\ DeviceInv'
  BY <1>1, <1>2 DEF TunedInv, EventsInv, DeviceInv, UpOnly
<1>4. SectionInv' /\ SteeringInv'
  BY <1>1, <1>2 DEF TunedInv, SectionInv, SteeringInv, Busy, Step
<1>5. ASSUME \A i \in Uplink : Fresh(i), NEW i \in Uplink PROVE shaper'[nic[i]] = i
  <2>1. \A j \in Uplink : section[j] = nic[j]
    BY <1>1, <1>5 DEF TunedInv, SectionInv, Busy
  <2>2. Bound(nic[i]) = {i}
    BY <2>1 DEF Bound, TypeInv, Injective
  <2>3. nic[i] \in Device /\ Exists(nic[i])
    BY DEF Exists, TypeInv, TypeOK
  <2>4. \A d \in Device : IF Exists(d) /\ Bound(d) # {}
                          THEN shaper'[d] \in Bound(d) ELSE shaper'[d] = None
    BY DEF SqmRestart
  <2>5. QED BY <2>2, <2>3, <2>4
<1>6. ShapedInv'
  BY <1>2, <1>5 DEF ShapedInv
<1>7. DnsInv => DnsInv'
  BY <1>1, <1>2 DEF DnsInv, Busy, routes
<1>8. QED BY <1>3, <1>4, <1>6, <1>7 DEF TunedInv

LEMMA TunedRpsDevice ==
  ASSUME TypeInv, TunedInv, RpsDevice
  PROVE  TunedInv' /\ (DnsInv => DnsInv')
<1>1. /\ UNCHANGED <<netifd, pending, routes, tuning>> /\ run.step = "rpsDevice"
      /\ Up(Asked) => run'.step = "rps" /\ run'.dev = nic[Asked] /\ run'.on = run.on
      /\ ~Up(Asked) => run'.step = "idle"
  BY IdleTyped DEF RpsDevice, At, TypeInv, TypeOK, RunType
<1>2. /\ \A i : Fresh(i)' <=> Fresh(i)
      /\ \A i : Up(i)' <=> Up(i)
      /\ UNCHANGED <<nic, link>>
  BY <1>1 DEF Fresh, Up, netifd
<1>3. Up(Asked) => Asked' = Asked
  BY <1>1 DEF Asked
<1>4. EventsInv' /\ DeviceInv'
  BY <1>1, <1>2, <1>3 DEF TunedInv, EventsInv, DeviceInv, UpOnly
<1>5. SectionInv' /\ SteeringInv'
  BY <1>1, <1>2, <1>3 DEF TunedInv, SectionInv, SteeringInv, Busy, Step, Fresh, tuning
<1>6. ShapedInv'
  BY <1>1, <1>2 DEF TunedInv, ShapedInv, tuning
<1>7. DnsInv => DnsInv'
  BY <1>1, <1>2 DEF DnsInv, Busy, routes
<1>8. QED BY <1>4, <1>5, <1>6, <1>7 DEF TunedInv

LEMMA TunedSetRps ==
  ASSUME TypeInv, TunedInv, SetRps
  PROVE  TunedInv' /\ (DnsInv => DnsInv')
<1>1. /\ UNCHANGED <<netifd, pending, routes, section, shaper>> /\ run.step = "rps"
      /\ run'.step = "idle" /\ rps \subseteq rps'
      /\ Exists(run.dev) => run.dev \in rps'
  BY IdleTyped DEF SetRps, At
<1>2. /\ \A i : Fresh(i)' <=> Fresh(i)
      /\ \A i : Up(i)' <=> Up(i)
      /\ UNCHANGED <<nic, link>>
  BY <1>1 DEF Fresh, Up, netifd
<1>3. EventsInv' /\ DeviceInv'
  BY <1>1, <1>2 DEF TunedInv, EventsInv, DeviceInv, UpOnly
<1>4. SectionInv'
  BY <1>1, <1>2 DEF TunedInv, SectionInv, Busy
<1>5. ASSUME NEW i \in Uplink, Fresh(i) PROVE nic[i] \in rps'
  <2>1. CASE nic[i] \in rps
    BY <1>1, <2>1
  <2>2. CASE nic[i] \notin rps
    <3>1. Asked = i
      BY <1>5, <2>2 DEF TunedInv, SteeringInv, Busy
    <3>2. run.dev = nic[i] /\ Exists(run.dev)
      BY <1>1, <1>5, <3>1 DEF TunedInv, DeviceInv, Exists
    <3>3. QED BY <1>1, <3>2
  <2>3. QED BY <2>1, <2>2
<1>6. SteeringInv'
  BY <1>2, <1>5 DEF SteeringInv
<1>7. ShapedInv'
  BY <1>1, <1>2 DEF TunedInv, ShapedInv
<1>8. DnsInv => DnsInv'
  BY <1>1, <1>2 DEF DnsInv, Busy, routes
<1>9. QED BY <1>3, <1>4, <1>6, <1>7, <1>8 DEF TunedInv

LEMMA TunedStep ==
  TypeInv /\ TunedInv /\ [Next]_vars => TunedInv' /\ (OwnServers /\ DnsInv => DnsInv')
<1> SUFFICES ASSUME TypeInv, TunedInv, [Next]_vars
             PROVE  TunedInv' /\ (OwnServers /\ DnsInv => DnsInv')
  OBVIOUS
<1>1. CASE UNCHANGED vars
  <2>1. UNCHANGED <<netifd, pending>> /\ run' = run /\ UNCHANGED <<routes, tuning>>
    BY <1>1 DEF vars
  <2>2. /\ \A i : Fresh(i)' <=> Fresh(i)
        /\ \A i : Up(i)' <=> Up(i)
        /\ Asked' = Asked /\ UNCHANGED <<nic, link>>
    BY <2>1, FreshAsking
  <2>3. EventsInv' /\ DeviceInv' /\ ShapedInv'
    BY <2>1, <2>2 DEF TunedInv, EventsInv, DeviceInv, ShapedInv, tuning
  <2>4. SectionInv' /\ SteeringInv'
    BY <2>1, <2>2 DEF TunedInv, SectionInv, SteeringInv, Busy, tuning
  <2>5. DnsInv => DnsInv'
    BY <2>1, <2>2 DEF DnsInv, Busy, routes
  <2>6. QED BY <2>3, <2>4, <2>5 DEF TunedInv
<1>2. CASE Environment
  BY <1>2, TunedEnvironment, DnsEnvironment
<1>3. CASE Script
  BY <1>3, TunedBegin, TunedDnsDevice, TunedDnsServers, TunedDnsRoute, TunedAsking,
     TunedSetDefault, TunedSqmDevice, TunedSqmBind, TunedSqmRestart, TunedRpsDevice,
     TunedSetRps DEF Script
<1>4. QED BY <1>1, <1>2, <1>3 DEF Next, Environment

(* 32 and 33: however uplinks come, go and change their devices' names     *)
(* while the scripts run, packet steering and shaping are right once they  *)
(* are done - although each script asks for the device before it uses it,  *)
(* and a restart of sqm may shape a device by another uplink's section.    *)
THEOREM TuningConverges == Spec => []Tuned
<1>1. TunedInv => Tuned
  <2> SUFFICES ASSUME TunedInv, Settled, NEW i \in Uplink, Up(i)
               PROVE  nic[i] \in rps /\ (AllUp => shaper[nic[i]] = i)
    BY DEF Tuned
  <2>1. \A j \in Uplink : Up(j) => Fresh(j)
    BY DEF Settled, Fresh
  <2>2. nic[i] \in rps
    BY <2>1 DEF TunedInv, SteeringInv, Busy, Settled
  <2>3. AllUp => shaper[nic[i]] = i
    BY <2>1 DEF TunedInv, ShapedInv, AllUp, Settled
  <2>4. QED BY <2>2, <2>3
<1>2. TypeInv /\ TunedInv /\ [Next]_vars => TunedInv'
  BY TunedStep
<1>3. QED BY <1>1, <1>2, TypeInit, TypeStep, TunedInit, PTL DEF Spec

(* 30: a server that only one uplink hands out is routed through it once   *)
(* the scripts are done, whatever lease or device the uplink had when they *)
(* were called.  (One that two hand out can lose its route: see the run    *)
(* uplinks_shared_dns.)                                                    *)
THEOREM DnsConverges == ASSUME OwnServers PROVE Spec => []DnsRouted
<1>1. DnsInv => DnsRouted
  BY DEF DnsInv, DnsRouted, Settled, Busy, Fresh
<1>2. TypeInv /\ TunedInv /\ DnsInv /\ [Next]_vars => TunedInv' /\ DnsInv'
  BY TunedStep
<1>3. QED BY <1>1, <1>2, TypeInit, TypeStep, TunedInit, DnsInit, PTL DEF Spec

(***************************************************************************)
(* The scripts come to an end: what they have still to do shrinks with     *)
(* each of their steps, in the order of events, then of steps, then of the *)
(* servers of one list.                                                    *)
(***************************************************************************)
(* The uplinks netifd owes a run of the scripts. *)
Owed == {i \in Uplink : pending[i] # None}

(* The steps ahead of the script at work, the one that routes a list of    *)
(* servers counted once and the three questions once per uplink.           *)
StepsLeft ==
  LET asking == 3 * (Len(Order) - run.k)
  IN  CASE run.step = "idle" -> 0 [] run.step = "rps" -> 1 [] run.step = "rpsDevice" -> 2
        [] run.step = "sqmRestart" -> 3 [] run.step = "sqmBind" -> 4
        [] run.step = "sqmDevice" -> 5 [] run.step = "setDefault" -> 6
        [] run.step = "getDev" -> 7 + asking [] run.step = "getGw" -> 8 + asking
        [] run.step = "isUp" -> 9 + asking
        [] run.step = "dnsRoute" -> 7 + 3 * Len(Order)
        [] run.step = "dnsServers" -> 8 + 3 * Len(Order)
        [] OTHER -> 9 + 3 * Len(Order)

(* Every step of the scripts takes up an event, is a step ahead in its     *)
(* script, or has routed one more server; only changes of the uplinks and  *)
(* reboots, of which there are fewer left each time, add to it.            *)
ScriptsShrink ==
  IF left' = left
  THEN \/ UNCHANGED vars
       \/ Owed' \subseteq Owed /\ Owed' # Owed
       \/ UNCHANGED pending /\ StepsLeft' < StepsLeft
       \/ UNCHANGED pending /\ StepsLeft' = StepsLeft
            /\ run'.todo \subseteq run.todo /\ run'.todo # run.todo
  ELSE left' < left

LEMMA ShrinkStep == TypeInv /\ [Next]_vars => ScriptsShrink
<1> SUFFICES ASSUME TypeInv, [Next]_vars PROVE ScriptsShrink
  OBVIOUS
<1>t. /\ run \in RunType /\ run.k \in 1..Len(Order) /\ Len(Order) \in Nat
      /\ left \in Nat /\ pending \in [Uplink -> {None, "ifup", "ifdown"}]
  BY OrderTyped, UplinksConstants DEF TypeInv, TypeOK, RunType
<1> USE DEF netifd, routes, tuning, vars, At, Goto
<1>1. CASE Environment
  BY <1>1, <1>t DEF Environment, ComesUp, GoesDown, Recreated, Reboots, Change, ScriptsShrink
<1>2. ASSUME NEW i \in Uplink, Begin(i) PROVE ScriptsShrink
  <2>1. i \in Owed /\ left' = left
    BY <1>2 DEF Begin, Owed
  <2>2. Owed' = Owed \ {i}
    BY <1>2, <1>t DEF Begin, Owed
  <2>3. QED BY <2>1, <2>2 DEF ScriptsShrink
<1>3. SUFFICES ASSUME left' = left, UNCHANGED pending
               PROVE  Script /\ ~ (\E i \in Uplink : Begin(i)) =>
                        \/ StepsLeft' < StepsLeft
                        \/ /\ StepsLeft' = StepsLeft
                           /\ run'.todo \subseteq run.todo /\ run'.todo # run.todo
  <2>1. CASE UNCHANGED vars
    BY <2>1 DEF ScriptsShrink
  <2>2. CASE Script /\ ~ (\E i \in Uplink : Begin(i))
    <3>1. left' = left /\ UNCHANGED pending
      BY <2>2 DEF Script, DnsDevice, DnsServers, DnsRoute, IsUp, GetGw, GetDev, SetDefault,
         SqmDevice, SqmBind, SqmRestart, RpsDevice, SetRps
    <3>2. QED BY <1>3, <2>2, <3>1 DEF ScriptsShrink
  <2>3. QED BY <1>1, <1>2, <2>1, <2>2 DEF Next, Environment
<1>4. CASE DnsDevice
  BY <1>4, <1>t DEF DnsDevice, StepsLeft, RunType
<1>5. CASE DnsServers
  BY <1>5, <1>t DEF DnsServers, StepsLeft, RunType
<1>6. CASE DnsRoute
  BY <1>6, <1>t DEF DnsRoute, StepsLeft, RunType
<1>n. ASSUME NEW got, NextUplink(got), run.step \in {"isUp", "getDev"}
      PROVE  StepsLeft' < StepsLeft
  <2>1. CASE run.k = Len(Order)
    BY <1>n, <1>t, <2>1 DEF NextUplink, StepsLeft, RunType
  <2>2. CASE run.k # Len(Order)
    <3>1. run'.step = "isUp" /\ run'.k = run.k + 1
      BY <1>n, <1>t, <2>2 DEF NextUplink, RunType
    <3>2. StepsLeft' = 9 + 3 * (Len(Order) - (run.k + 1))
      BY <3>1 DEF StepsLeft
    <3>3. \/ StepsLeft = 7 + 3 * (Len(Order) - run.k)
          \/ StepsLeft = 9 + 3 * (Len(Order) - run.k)
      BY <1>n DEF StepsLeft
    <3> DEFINE n == Len(Order)
               k == run.k
    <3>4. n \in Nat /\ k \in Nat
      BY <1>t
    <3>5. StepsLeft' = 9 + 3 * (n - (k + 1))
      BY <3>2
    <3>6. StepsLeft = 7 + 3 * (n - k) \/ StepsLeft = 9 + 3 * (n - k)
      BY <3>3
    <3> HIDE DEF n, k
    <3>7. QED BY <3>4, <3>5, <3>6
  <2>3. QED BY <2>1, <2>2
<1>7. CASE IsUp
  <2>1. CASE Up(Order[run.k])
    BY <1>7, <1>t, <2>1 DEF IsUp, StepsLeft, RunType
  <2>2. CASE ~ Up(Order[run.k])
    BY <1>7, <1>n, <2>2 DEF IsUp
  <2>3. QED BY <2>1, <2>2
<1>8. CASE GetGw
  BY <1>8, <1>t DEF GetGw, StepsLeft, RunType
<1>9. CASE GetDev
  BY <1>9, <1>n DEF GetDev
<1>10. CASE SetDefault
  <2>1. StepsLeft = 6
    BY <1>10 DEF SetDefault, StepsLeft
  <2>2. run'.step \in {"sqmDevice", "idle"}
    <3>1. CASE run' = [Idle EXCEPT !.step = "sqmDevice", !.on = run.on]
      <4>1. "step" \in DOMAIN Idle
        BY DEF Idle
      <4>2. run'.step = "sqmDevice"
        BY <3>1, <4>1
      <4>3. QED BY <4>2
    <3>2. CASE run' = Idle
      BY <3>2 DEF Idle
    <3>3. QED BY <1>10, <3>1, <3>2 DEF SetDefault
  <2>3. StepsLeft' \in {5, 0}
    BY <2>2 DEF StepsLeft
  <2>4. QED BY <2>1, <2>3
<1>11. CASE SqmDevice
  <2>1. run.step = "sqmDevice" /\ run'.step \in {"sqmBind", "rpsDevice"}
    BY <1>11, <1>t DEF SqmDevice, RunType
  <2>2. StepsLeft = 5 /\ StepsLeft' \in {4, 2}
    BY <2>1 DEF StepsLeft
  <2>3. QED BY <2>2
<1>12. CASE SqmBind
  BY <1>12, <1>t DEF SqmBind, StepsLeft, RunType
<1>13. CASE SqmRestart
  BY <1>13, <1>t DEF SqmRestart, StepsLeft, RunType
<1>14. CASE RpsDevice \/ SetRps
  <2>1. /\ run.step \in {"rpsDevice", "rps"} /\ run'.step \in {"rps", "idle"}
        /\ run.step = "rps" => run'.step = "idle"
    <3>1. CASE RpsDevice
      <4>1. run' = [run EXCEPT !.step = "rps", !.dev = nic[Asked]] \/ run' = Idle
        BY <3>1 DEF RpsDevice
      <4>2. QED BY <1>t, <3>1, <4>1 DEF RpsDevice, Idle, RunType
    <3>2. CASE SetRps
      BY <3>2 DEF SetRps, Idle
    <3>3. QED BY <1>14, <3>1, <3>2
  <2>2. StepsLeft \in {1, 2} /\ StepsLeft' \in {0, 1} /\ (StepsLeft = 1 => StepsLeft' = 0)
    BY <2>1 DEF StepsLeft
  <2>3. QED BY <2>2
<1>15. QED
  BY <1>4, <1>5, <1>6, <1>7, <1>8, <1>9, <1>10, <1>11, <1>12, <1>13, <1>14 DEF Script

(* Between two changes of the uplinks the scripts have an end: none of     *)
(* their steps repeats another, and none leaves an event behind.           *)
THEOREM ScriptsEnd == Spec => [][ScriptsShrink]_vars
<1>1. TypeInv /\ [Next]_vars => [ScriptsShrink]_vars
  BY ShrinkStep
<1>2. QED BY <1>1, TypeInit, TypeStep, PTL DEF Spec
=============================================================================
