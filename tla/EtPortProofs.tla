---------------------------- MODULE EtPortProofs ----------------------------
(* Theorems about EtPort, for any phys, times, groups, speeds and initial  *)
(* settings, and for the part of it that EtWatchdog states on its own.     *)
EXTENDS EtPort, Sequences, TLAPS

(* What a step of the composition is to EtWatchdog: one of its steps, or   *)
(* the handler on a board without a switch, which only sees to the timer.  *)
QuietTick == HandlerEnds /\ UNCHANGED <<clock, saveVars>>

LEMMA StepOfPort == [PortNext]_portVars => [Next]_vars \/ QuietTick
<1>1. PortTick => Watchdog \/ QuietTick
  BY DEF PortTick, Watchdog, QuietTick
<1>2. SwitchStep => Next
  BY DEF SwitchStep, Next
<1>3. PortUp \/ PortDown \/ PortDownEnd \/ PortFires => Next
  BY DEF PortUp, PortDown, PortDownEnd, PortFires, Next
<1>4. Watchdog => Next
  BY DEF Next
<1>5. MacStep \/ UNCHANGED portVars => UNCHANGED vars
  BY DEF MacStep, portVars
<1> QED  BY <1>1, <1>2, <1>3, <1>4, <1>5 DEF PortNext

(* et->set says what up says, and et_down has cleared both by the time it  *)
(* gives the lock away.                                                    *)
SetFollowsUp == (set <=> up) /\ (closing => ~up)

TimerInv == SetFollowsUp /\ TimerFollowsUp

LEMMA TimerInit == Init => TimerInv
  BY DEF Init, TimerInv, SetFollowsUp, TimerFollowsUp

LEMMA TimerStep == TimerInv /\ [Next]_vars => TimerInv'
<1> SUFFICES ASSUME TimerInv, [Next]_vars PROVE TimerInv'
  OBVIOUS
<1> USE DEF TimerInv, SetFollowsUp, TimerFollowsUp
<1>1. CASE TimerFires
  BY <1>1 DEF TimerFires
<1>2. CASE Watchdog
  BY <1>2 DEF Watchdog, Seconds, HandlerEnds, Rearm
<1>3. CASE Up
  BY <1>3 DEF Up
<1>4. CASE Down
  BY <1>4 DEF Down
<1>5. CASE DownEnd
  BY <1>5 DEF DownEnd
<1>6. CASE UNCHANGED timerVars
  BY <1>6 DEF timerVars
<1>7. ASSUME NEW p \in Phys,
             LinkChange(p) \/ \E mode \in {"NORMAL", "AUTO", "MANUAL", "AUTO_MANUAL"} :
                                  PowerSaveSet(mode, p)
      PROVE  UNCHANGED timerVars
  BY <1>7 DEF LinkChange, PowerSaveSet
<1>8. UNCHANGED vars => UNCHANGED timerVars
  BY DEF vars
<1> QED  BY <1>1, <1>2, <1>3, <1>4, <1>5, <1>6, <1>7, <1>8 DEF Next

(* The types of what the power save changes. *)
SaveTyped ==
  /\ manual \subseteq Phys /\ auto \subseteq Phys /\ link \subseteq Phys
  /\ modes \in [Phys -> SUBSET {"AUTO", "MANUAL"}]

SaveInv == SaveTyped /\ OffOnlyManual

LEMMA SaveInit == Init => SaveInv
  BY DEF Init, SaveInv, SaveTyped, OffOnlyManual

(* The ioctl: what powers a phy down also enters it in the manual set, and *)
(* what takes it from the set powers it up.                                *)
LEMMA SetKeeps ==
  ASSUME SaveInv, NEW p \in Phys,
         NEW mode \in {"NORMAL", "AUTO", "MANUAL", "AUTO_MANUAL"}, PowerSaveSet(mode, p)
  PROVE  SaveInv'
<1> USE DEF SaveInv, SaveTyped
<1>1. /\ modes' \in [Phys -> SUBSET {"AUTO", "MANUAL"}]
      /\ \A q \in Phys \ {p} : modes'[q] = modes[q]
      /\ "MANUAL" \in modes'[p] => mode \in {"MANUAL", "AUTO_MANUAL"}
  <2> USE DEF PowerSaveSet, PowerSaveMode, ClearManual, ClearAuto, ModeAuto, ModeManual
  <2>1. CASE mode = "NORMAL"
    BY <2>1 DEF ModeNormal
  <2>2. CASE mode = "AUTO"
    BY <2>2
  <2>3. CASE mode = "MANUAL"
    BY <2>3
  <2>4. CASE mode = "AUTO_MANUAL"
    BY <2>4
  <2> QED  BY <2>1, <2>2, <2>3, <2>4
<1>2. /\ manual' = IF mode \in {"MANUAL", "AUTO_MANUAL"} THEN manual \cup {p}
                                                         ELSE manual \ {p}
      /\ auto' \subseteq Phys /\ link' \subseteq Phys
  BY DEF PowerSaveSet
<1> QED  BY <1>1, <1>2 DEF OffOnlyManual

(* The timer: the duty cycle powers down phys of the manual set only, and  *)
(* the auto modes power none down.                                         *)
LEMMA WatchdogKeeps == ASSUME SaveInv, Watchdog PROVE SaveInv'
<1> USE DEF SaveInv, SaveTyped
<1>1. PICK m \in {modes, ToggleWake, ToggleSleep} :
            modes' = IF age + 1 = StartTime THEN UpdateAuto(m) ELSE m
  BY DEF Watchdog, Seconds, HandlerEnds
<1>2. /\ m \in [Phys -> SUBSET {"AUTO", "MANUAL"}]
      /\ \A p \in Phys : "MANUAL" \in m[p] => p \in manual
  BY <1>1 DEF ToggleWake, ToggleSleep, Cycled, OffOnlyManual
<1>3. /\ modes' \in [Phys -> SUBSET {"AUTO", "MANUAL"}]
      /\ \A p \in Phys : "MANUAL" \in modes'[p] => "MANUAL" \in m[p]
  BY <1>1, <1>2 DEF UpdateAuto
<1> QED  BY <1>2, <1>3 DEF Watchdog, Seconds, HandlerEnds, OffOnlyManual

LEMMA SaveStep == SaveInv /\ [Next]_vars => SaveInv'
<1> SUFFICES ASSUME SaveInv, [Next]_vars PROVE SaveInv'
  OBVIOUS
<1>1. CASE UNCHANGED saveVars
  BY <1>1 DEF saveVars, SaveInv, SaveTyped, OffOnlyManual
<1>2. CASE Watchdog
  BY <1>2, WatchdogKeeps
<1>3. ASSUME NEW p \in Phys, LinkChange(p) PROVE SaveInv'
  BY <1>3 DEF LinkChange, SaveInv, SaveTyped, OffOnlyManual
<1>4. ASSUME NEW p \in Phys, NEW mode \in {"NORMAL", "AUTO", "MANUAL", "AUTO_MANUAL"},
             PowerSaveSet(mode, p)
      PROVE  SaveInv'
  BY <1>4, SetKeeps
<1>5. TimerFires \/ Up \/ Down \/ DownEnd \/ UNCHANGED vars => UNCHANGED saveVars
  BY DEF TimerFires, Up, Down, DownEnd, vars
<1> QED  BY <1>1, <1>2, <1>3, <1>4, <1>5 DEF Next

(* The clock: sleep_timer and wake_timer never drift apart. *)
ClockTyped ==
  /\ sleepIn \in Past..(FirstSleep + SleepTime)
  /\ gap \in {WakeTime, -FirstSleep, -SleepTime}
  /\ age \in 0..(StartTime + 1)
  /\ capable \in BOOLEAN

LEMMA ClockInit == Init => ClockTyped
  BY TimesAssumption DEF Init, ClockTyped, Past

LEMMA ClockStep == ClockTyped /\ [Next]_vars => ClockTyped'
<1> SUFFICES ASSUME ClockTyped, [Next]_vars PROVE ClockTyped'
  OBVIOUS
<1>1. CASE UNCHANGED <<clock, capable>>
  BY <1>1 DEF clock, ClockTyped, Past
<1>2. CASE Watchdog
  <2>1. age' \in 0..(StartTime + 1) /\ capable' \in BOOLEAN
    BY <1>2, TimesAssumption DEF Watchdog, Seconds, HandlerEnds, ClockTyped
  <2>2. PICK m \in {modes, ToggleWake, ToggleSleep} : DutyCycle(m)
    BY <1>2 DEF Watchdog, Seconds, HandlerEnds
  <2>3. sleepIn' \in Past..(FirstSleep + SleepTime)
    BY <2>2, TimesAssumption DEF DutyCycle, ClockTyped, Past, NextSleep, Restart
  <2>4. gap' \in {WakeTime, -FirstSleep, -SleepTime}
    BY <2>2 DEF DutyCycle, ClockTyped, NextSleep
  <2> QED  BY <2>1, <2>3, <2>4 DEF ClockTyped, Past
<1>3. ASSUME NEW p \in Phys,
             LinkChange(p) \/ \E mode \in {"NORMAL", "AUTO", "MANUAL", "AUTO_MANUAL"} :
                                  PowerSaveSet(mode, p)
      PROVE  UNCHANGED <<clock, capable>>
  BY <1>3 DEF LinkChange, PowerSaveSet
<1>4. TimerFires \/ Up \/ Down \/ DownEnd \/ UNCHANGED vars => UNCHANGED <<clock, capable>>
  BY DEF TimerFires, Up, Down, DownEnd, vars, saveVars
<1> QED  BY <1>1, <1>2, <1>3, <1>4 DEF Next

(* The flags stay Boolean. *)
FlagsTyped == {closing, up, set, timer, handler} \subseteq BOOLEAN

LEMMA FlagsInit == Init => FlagsTyped
  BY DEF Init, FlagsTyped

LEMMA FlagsStep == FlagsTyped /\ [Next]_vars => FlagsTyped'
<1> SUFFICES ASSUME FlagsTyped, [Next]_vars PROVE FlagsTyped'
  OBVIOUS
<1>1. CASE UNCHANGED timerVars
  BY <1>1 DEF timerVars, FlagsTyped
<1>2. CASE Watchdog
  BY <1>2 DEF Watchdog, Seconds, HandlerEnds, Rearm, FlagsTyped
<1>3. CASE TimerFires \/ Up \/ Down \/ DownEnd
  BY <1>3 DEF TimerFires, Up, Down, DownEnd, FlagsTyped
<1>4. ASSUME NEW p \in Phys,
             LinkChange(p) \/ \E mode \in {"NORMAL", "AUTO", "MANUAL", "AUTO_MANUAL"} :
                                  PowerSaveSet(mode, p)
      PROVE  UNCHANGED timerVars
  BY <1>4 DEF LinkChange, PowerSaveSet
<1>5. UNCHANGED vars => UNCHANGED timerVars
  BY DEF vars
<1> QED  BY <1>1, <1>2, <1>3, <1>4, <1>5 DEF Next

LEMMA QuietKeeps ==
  QuietTick => /\ TimerInv => TimerInv'
               /\ SaveInv => SaveInv'
               /\ ClockTyped => ClockTyped'
               /\ FlagsTyped => FlagsTyped'
<1> SUFFICES ASSUME QuietTick
             PROVE  /\ TimerInv => TimerInv'
                    /\ SaveInv => SaveInv'
                    /\ ClockTyped => ClockTyped'
                    /\ FlagsTyped => FlagsTyped'
  OBVIOUS
<1> USE DEF QuietTick
<1>1. TimerInv => TimerInv'
  BY DEF HandlerEnds, Rearm, TimerInv, SetFollowsUp, TimerFollowsUp
<1>2. SaveInv => SaveInv'
  BY DEF saveVars, SaveInv, SaveTyped, OffOnlyManual
<1>3. ClockTyped => ClockTyped'
  BY DEF clock, saveVars, ClockTyped, Past
<1>4. FlagsTyped => FlagsTyped'
  BY DEF HandlerEnds, Rearm, FlagsTyped
<1> QED  BY <1>1, <1>2, <1>3, <1>4

(* Every state is well typed, and sleep_timer and wake_timer stay within   *)
(* one sleep or wake time of each other, however often the cycle restarts. *)
THEOREM WatchdogTyped == PortSpec => []TypeOK
<1>1. FlagsTyped /\ ClockTyped /\ SaveInv => TypeOK
  BY DEF FlagsTyped, ClockTyped, SaveInv, SaveTyped, TypeOK
<1>2. PortInit => FlagsTyped /\ ClockTyped /\ SaveInv
  BY FlagsInit, ClockInit, SaveInit DEF PortInit
<1>3. FlagsTyped /\ ClockTyped /\ SaveInv /\ [PortNext]_portVars
        => FlagsTyped' /\ ClockTyped' /\ SaveInv'
  BY StepOfPort, QuietKeeps, FlagsStep, ClockStep, SaveStep
<1> QED  BY <1>1, <1>2, <1>3, PTL DEF PortSpec

LEMMA PortTimerStep == TimerInv /\ [PortNext]_portVars => TimerInv'
  BY StepOfPort, QuietKeeps, TimerStep

(* The timer of _et_watchdog, et_up and et_down lives exactly as long as   *)
(* the interface is up, wherever a handler waits for ET_LOCK.              *)
THEOREM TimerFollows == PortSpec => []TimerFollowsUp
<1>1. TimerInv => TimerFollowsUp
  BY DEF TimerInv
<1>2. PortInit => TimerInv
  BY TimerInit DEF PortInit
<1> QED  BY <1>1, <1>2, PortTimerStep, PTL DEF PortSpec

(* robo_power_save_*: no port is powered down that is not in manual mode.  *)
THEOREM OffOnlyOnRequest == PortSpec => []OffOnlyManual
<1>1. SaveInv => OffOnlyManual
  BY DEF SaveInv
<1>2. PortInit => SaveInv
  BY SaveInit DEF PortInit
<1>3. SaveInv /\ [PortNext]_portVars => SaveInv'
  BY StepOfPort, QuietKeeps, SaveStep
<1> QED  BY <1>1, <1>2, <1>3, PTL DEF PortSpec

-----------------------------------------------------------------------------
(* The settings of EtMac *)

(* The types of what driver, MAC and phy keep. *)
Rates == Nat \X {"full", "half"}
EthTypes ==
  [force : Rates, rate : Rates, link : BOOLEAN,
   advertise : SUBSET Rates, needautoneg : BOOLEAN,
   promisc : BOOLEAN, allmulti : BOOLEAN, loopbk : BOOLEAN,
   multi : [0..(MaxMulti - 1) -> Group \cup {NoGroup}], n : 0..MaxMulti, mf : SUBSET Group,
   mac : [rate : Rates, prom : BOOLEAN, loop : BOOLEAN, on : BOOLEAN],
   phy : [ctl : Rates, adv : SUBSET Rates]]
DevTypes == [groups : Seq(Group), promisc : BOOLEAN, allmulti : BOOLEAN]

LEMMA RatesOf ==
  /\ Mac!Auto \in Rates /\ Mac!Slowest \in Rates /\ Mac!Gig \subseteq Rates
  /\ Mac!Slow \subseteq Rates /\ PhyCaps \subseteq Rates /\ Speeds \subseteq Rates
  /\ \A r \in Rates : [r EXCEPT ![2] = "full"] \in Rates
<1>1. Mac!Slow \subseteq Rates
  BY DEF Mac!Slow, Rates
<1>2. Mac!Gig \subseteq Rates /\ Mac!Auto \in Rates /\ Mac!Slowest \in Rates
  BY DEF Mac!Gig, Mac!Auto, Mac!Slowest, Rates
<1>3. \A r \in Rates : [r EXCEPT ![2] = "full"] \in Rates
  BY DEF Rates
<1> QED  BY <1>1, <1>2, <1>3, SettingsAssumption

(* What is forced is what phy and, while the interface is up, MAC run at. *)
Held(e, running) ==
  /\ e.force \in {Mac!Auto} \cup Speeds
  /\ e.force # Mac!Auto => /\ Mac!HasPhy /\ e.rate = e.force /\ e.phy.ctl = e.force
                           /\ running => e.mac.rate = e.force

(* The driver lets through all groups, or all of the stack's but the last. *)
HeardIn(e, d) == e.allmulti \/ \A i \in 1..(Len(d.groups) - 1) : d.groups[i] \in e.mf

(* What an operator leaves as it was: every setting, and what is known of  *)
(* the list.                                                               *)
SameSettings(e, f) ==
  /\ f.force = e.force /\ f.promisc = e.promisc /\ f.allmulti = e.allmulti
  /\ f.multi = e.multi /\ f.n = e.n

(* gmac_reset keeps all but the MAC's bits. *)
LEMMA GmacResetKeeps ==
  ASSUME NEW e \in EthTypes
  PROVE  /\ Mac!GmacReset(e) \in EthTypes /\ SameSettings(e, Mac!GmacReset(e))
         /\ Mac!GmacReset(e).rate = e.rate /\ Mac!GmacReset(e).phy = e.phy
<1>1. <<e.mac.rate[1], "full">> \in Rates
  BY DEF EthTypes, Rates
<1> QED  BY <1>1 DEF Mac!GmacReset, EthTypes, SameSettings

(* gmac_speed changes nothing but the MAC's rate, and sets what it knows. *)
LEMMA GmacSpeedSets ==
  ASSUME NEW e \in EthTypes, NEW r \in Rates
  PROVE  /\ Mac!GmacSpeed(e, r) \in EthTypes /\ SameSettings(e, Mac!GmacSpeed(e, r))
         /\ Mac!GmacSpeed(e, r).rate = e.rate /\ Mac!GmacSpeed(e, r).phy = e.phy
         /\ Mac!GmacSpeed(e, r).mf = e.mf
         /\ r # <<1000, "half">> => Mac!GmacSpeed(e, r).mac.rate = r
  BY DEF Mac!GmacSpeed, EthTypes, SameSettings

(* gmac_miiconfig sets the driver's rate only where none can be forced, or *)
(* none is.                                                                *)
LEMMA MiiConfigKeeps ==
  ASSUME NEW e \in EthTypes, board \in Mac!Boards
  PROVE  /\ Mac!MiiConfig(e) \in EthTypes /\ SameSettings(e, Mac!MiiConfig(e))
         /\ Mac!MiiConfig(e).phy = e.phy
         /\ Mac!HasPhy /\ e.force # Mac!Auto => Mac!MiiConfig(e).rate = e.rate
<1>1. <<2500, "full">> \in Rates /\ <<1000, "full">> \in Rates /\ <<100, "full">> \in Rates
  BY DEF Rates
<1>2. e.force \in Rates
  BY DEF EthTypes
<1>3. CASE board = "robo"
  <2> DEFINE f == Mac!GmacSpeed(e, <<2500, "full">>)
  <2>1. f \in EthTypes /\ SameSettings(e, f) /\ f.phy = e.phy
    BY <1>1, GmacSpeedSets
  <2>2. Mac!MiiConfig(e) = [f EXCEPT !.rate = <<2500, "full">>] /\ ~Mac!HasPhy
    BY <1>3 DEF Mac!MiiConfig, Mac!HasPhy
  <2> HIDE DEF f
  <2> QED  BY <2>1, <2>2, <1>1 DEF EthTypes, SameSettings
<1>4. CASE board = "none"
  <2>1. Mac!MiiConfig(e) = [e EXCEPT !.rate = <<1000, "full">>] /\ ~Mac!HasPhy
    BY <1>4 DEF Mac!MiiConfig, Mac!HasPhy
  <2> QED  BY <2>1, <1>1 DEF EthTypes, SameSettings
<1>5. CASE board = "mii" /\ e.force = Mac!Auto
  <2> DEFINE f == Mac!GmacSpeed(e, <<100, "full">>)
  <2>1. f \in EthTypes /\ SameSettings(e, f) /\ f.phy = e.phy
    BY <1>1, GmacSpeedSets
  <2>2. Mac!MiiConfig(e) = [f EXCEPT !.rate = <<100, "full">>]
    BY <1>5 DEF Mac!MiiConfig
  <2> HIDE DEF f
  <2> QED  BY <2>1, <2>2, <1>1, <1>5 DEF EthTypes, SameSettings
<1>6. CASE board = "mii" /\ e.force # Mac!Auto
  BY <1>6, <1>2, GmacSpeedSets DEF Mac!MiiConfig
<1>7. CASE board = "gmii"
  BY <1>7 DEF Mac!MiiConfig, SameSettings
<1> QED  BY <1>3, <1>4, <1>5, <1>6, <1>7 DEF Mac!Boards

(* chipreset may leave a forced speed to the MAC, never to the phy, nor    *)
(* change the settings.                                                    *)
LEMMA ChipResetKeeps ==
  ASSUME NEW e \in EthTypes, board \in Mac!Boards
  PROVE  /\ Mac!ChipReset(e) \in EthTypes /\ SameSettings(e, Mac!ChipReset(e))
         /\ Held(e, FALSE) => Held(Mac!ChipReset(e), FALSE)
<1> DEFINE f == Mac!MfCleanup(e)
           g == Mac!GmacReset(f)
<1>1. f \in EthTypes /\ SameSettings(e, f) /\ f.rate = e.rate /\ f.phy = e.phy
  BY DEF Mac!MfCleanup, EthTypes, SameSettings
<1>2. g \in EthTypes /\ SameSettings(f, g) /\ g.rate = f.rate /\ g.phy = f.phy
  BY <1>1, GmacResetKeeps
<1> HIDE DEF f, g
<1>3. Mac!ChipReset(e) = Mac!MiiConfig(g)
  BY DEF Mac!ChipReset, f, g
<1>4. /\ Mac!MiiConfig(g) \in EthTypes /\ SameSettings(g, Mac!MiiConfig(g))
      /\ Mac!MiiConfig(g).phy = g.phy
      /\ Mac!HasPhy /\ g.force # Mac!Auto => Mac!MiiConfig(g).rate = g.rate
  BY <1>2, MiiConfigKeeps
<1> QED  BY <1>1, <1>2, <1>3, <1>4 DEF SameSettings, Held

(* What chipinit does before it comes to the phy: the filter only grows,   *)
(* by the listed groups, unless all groups or all frames are wanted.       *)
Applied(e) ==
  Mac!GmacEnable(Mac!GmacLoopback(Mac!GmacPromisc(Mac!MfAdd(e, Mac!Listed(e)))))

LEMMA AppliedKeeps ==
  ASSUME NEW e \in EthTypes
  PROVE  /\ Applied(e) \in EthTypes /\ SameSettings(e, Applied(e))
         /\ Applied(e).rate = e.rate /\ Applied(e).phy = e.phy
         /\ Applied(e).mac.rate = e.mac.rate /\ e.mf \subseteq Applied(e).mf
         /\ ~e.promisc /\ ~e.allmulti =>
              \A i \in 0..(e.n - 1) : e.multi[i] \in Group => e.multi[i] \in Applied(e).mf
<1> DEFINE f == Mac!MfAdd(e, Mac!Listed(e))
           g == Mac!GmacPromisc(f)
           h == Mac!GmacLoopback(g)
<1>1. Mac!Listed(e) \subseteq Group \cup {NoGroup}
  BY SettingsAssumption DEF Mac!Listed, EthTypes
<1>2. /\ f \in EthTypes /\ SameSettings(e, f) /\ f.rate = e.rate /\ f.phy = e.phy
      /\ f.mac = e.mac /\ f.mf = e.mf \cup (Mac!Listed(e) \ {NoGroup})
  BY <1>1 DEF Mac!MfAdd, EthTypes, SameSettings
<1>3. ~e.promisc /\ ~e.allmulti =>
        \A i \in 0..(e.n - 1) : e.multi[i] \in Group => e.multi[i] \in f.mf
  BY <1>2, SettingsAssumption DEF Mac!Listed
<1> HIDE DEF f
<1>4. /\ g \in EthTypes /\ SameSettings(f, g) /\ g.rate = f.rate /\ g.phy = f.phy
      /\ g.mac.rate = f.mac.rate /\ g.mf = f.mf
  BY <1>2 DEF Mac!GmacPromisc, EthTypes, SameSettings
<1> HIDE DEF g
<1>5. /\ h \in EthTypes /\ SameSettings(g, h) /\ h.rate = g.rate /\ h.phy = g.phy
      /\ h.mac.rate = g.mac.rate /\ h.mf = g.mf
  BY <1>4 DEF Mac!GmacLoopback, EthTypes, SameSettings
<1> HIDE DEF h
<1>6. /\ Mac!GmacEnable(h) \in EthTypes /\ SameSettings(h, Mac!GmacEnable(h))
      /\ Mac!GmacEnable(h).rate = h.rate /\ Mac!GmacEnable(h).phy = h.phy
      /\ Mac!GmacEnable(h).mac.rate = h.mac.rate /\ Mac!GmacEnable(h).mf = h.mf
  BY <1>5 DEF Mac!GmacEnable, EthTypes, SameSettings
<1>7. Applied(e) = Mac!GmacEnable(h)
  BY DEF Applied, f, g, h
<1> QED  BY <1>2, <1>3, <1>4, <1>5, <1>6, <1>7 DEF SameSettings

(* chipinit keeps the settings and lets the filter grow by the list.       *)
LEMMA ChipInitKeeps ==
  ASSUME NEW e \in EthTypes, NEW lost
  PROVE  /\ Mac!ChipInit(e, lost) \in EthTypes
         /\ SameSettings(e, Mac!ChipInit(e, lost))
         /\ Mac!ChipInit(e, lost).rate = e.rate
         /\ e.mf \subseteq Mac!ChipInit(e, lost).mf
         /\ ~e.promisc /\ ~e.allmulti =>
              \A i \in 0..(e.n - 1) :
                 e.multi[i] \in Group => e.multi[i] \in Mac!ChipInit(e, lost).mf
<1> DEFINE f == Applied(e)
           g == Mac!GmacSpeed(f, e.force)
           c == Mac!ChipInit(e, lost)
<1>1. /\ f \in EthTypes /\ SameSettings(e, f) /\ f.rate = e.rate /\ e.mf \subseteq f.mf
      /\ ~e.promisc /\ ~e.allmulti =>
           \A i \in 0..(e.n - 1) : e.multi[i] \in Group => e.multi[i] \in f.mf
  BY AppliedKeeps
<1>2. CASE ~Mac!HasPhy
  BY <1>1, <1>2 DEF Mac!ChipInit, Applied
<1>3. CASE Mac!HasPhy /\ e.force = Mac!Auto
  <2>1. c = IF e.advertise # {} /\ e.needautoneg THEN Mac!PhyAdvertise(f, lost) ELSE f
    BY <1>3 DEF Mac!ChipInit, Applied
  <2> HIDE DEF f
  <2>2. Mac!PhyWr("advertise", lost, f.phy.adv, f.advertise \cap PhyCaps) \in SUBSET Rates
    BY <1>1 DEF Mac!PhyWr, EthTypes
  <2>3. /\ Mac!PhyAdvertise(f, lost) \in EthTypes
        /\ SameSettings(f, Mac!PhyAdvertise(f, lost))
        /\ Mac!PhyAdvertise(f, lost).rate = f.rate
        /\ Mac!PhyAdvertise(f, lost).mf = f.mf
    BY <1>1, <2>2 DEF Mac!PhyAdvertise, EthTypes, SameSettings
  <2> QED  BY <1>1, <2>1, <2>3 DEF SameSettings
<1>4. CASE Mac!HasPhy /\ e.force # Mac!Auto
  <2>1. c = Mac!PhyForce(g, lost) /\ e.force \in Rates
    BY <1>4 DEF Mac!ChipInit, Applied, EthTypes
  <2> HIDE DEF f
  <2>2. g \in EthTypes /\ SameSettings(f, g) /\ g.rate = f.rate /\ g.mf = f.mf
    BY <1>1, <2>1, GmacSpeedSets
  <2> HIDE DEF g
  <2> DEFINE ctl == IF g.force = <<1000, "half">> THEN Mac!Slowest ELSE g.force
             r == Mac!PhyWr("force", lost, g.phy.ctl, ctl)
  <2>3. r \in Rates
    BY <2>2, RatesOf DEF Mac!PhyWr, EthTypes
  <2>4. Mac!PhyForce(g, lost) = [g EXCEPT !.phy.ctl = r]
    BY DEF Mac!PhyForce
  <2> HIDE DEF r
  <2>5. /\ Mac!PhyForce(g, lost) \in EthTypes
        /\ SameSettings(g, Mac!PhyForce(g, lost))
        /\ Mac!PhyForce(g, lost).rate = g.rate
        /\ Mac!PhyForce(g, lost).mf = g.mf
    BY <2>2, <2>3, <2>4 DEF EthTypes, SameSettings
  <2> QED  BY <1>1, <2>1, <2>2, <2>5 DEF SameSettings
<1> QED  BY <1>2, <1>3, <1>4

(* Unless the write is lost, it also puts a forced speed it knows into MAC *)
(* and phy, whatever they held.                                            *)
LEMMA ChipInitForces ==
  ASSUME NEW e \in EthTypes, NEW lost, "force" \notin lost,
         Mac!HasPhy, e.force # Mac!Auto, e.force # <<1000, "half">>
  PROVE  /\ Mac!ChipInit(e, lost).mac.rate = e.force
         /\ Mac!ChipInit(e, lost).phy.ctl = e.force
<1> DEFINE f == Applied(e)
           g == Mac!GmacSpeed(f, e.force)
<1>1. f \in EthTypes /\ SameSettings(e, f)
  BY AppliedKeeps
<1>2. e.force \in Rates
  BY DEF EthTypes
<1>3. Mac!ChipInit(e, lost) = Mac!PhyForce(g, lost)
  BY DEF Mac!ChipInit, Applied
<1> HIDE DEF f
<1>4. g \in EthTypes /\ g.force = e.force /\ g.mac.rate = e.force
  BY <1>1, <1>2, GmacSpeedSets DEF SameSettings
<1> HIDE DEF g
<1>5. Mac!PhyForce(g, lost) = [g EXCEPT !.phy.ctl = g.force]
  BY <1>4 DEF Mac!PhyForce, Mac!PhyWr
<1> QED  BY <1>3, <1>4, <1>5 DEF EthTypes

(* So chipinit makes hold what is forced.                                  *)
LEMMA ChipInitHolds ==
  ASSUME NEW e \in EthTypes, NEW lost, "force" \notin lost, <<1000, "half">> \notin Speeds,
         e.force \in {Mac!Auto} \cup Speeds,
         e.force # Mac!Auto => Mac!HasPhy /\ e.rate = e.force
  PROVE  Held(Mac!ChipInit(e, lost), TRUE)
<1>1. e.force # <<1000, "half">>
  BY DEF Mac!Auto
<1>2. CASE e.force = Mac!Auto
  BY <1>2, ChipInitKeeps DEF Held, SameSettings
<1>3. CASE e.force # Mac!Auto
  BY <1>1, <1>3, ChipInitForces, ChipInitKeeps DEF Held, SameSettings
<1> QED  BY <1>2, <1>3

(* chipduplexupd hands a forced speed on to the MAC, and keeps the rest.   *)
LEMMA DuplexUpdKeeps ==
  ASSUME NEW e \in EthTypes
  PROVE  /\ Mac!DuplexUpd(e) \in EthTypes /\ SameSettings(e, Mac!DuplexUpd(e))
         /\ Mac!DuplexUpd(e).rate = e.rate /\ Mac!DuplexUpd(e).phy = e.phy
         /\ Mac!DuplexUpd(e).mf = e.mf
         /\ e.rate \in PhyCaps => Mac!DuplexUpd(e).mac.rate = e.rate
<1> DEFINE r == <<IF e.rate[1] \in {10, 100, 1000} THEN e.rate[1] ELSE e.mac.rate[1], e.rate[2]>>
<1>1. r \in Rates
  BY DEF EthTypes, Rates
<1>2. e.rate \in PhyCaps => r = e.rate
  BY SettingsAssumption DEF Mac!Gig, Mac!Slow
<1>3. Mac!DuplexUpd(e) = [e EXCEPT !.mac.rate = r]
  BY DEF Mac!DuplexUpd
<1> HIDE DEF r
<1> QED  BY <1>1, <1>2, <1>3 DEF EthTypes, SameSettings

(* Whatever etc_watchdog reads, it puts a rate into the MAC that is not    *)
(* the forced one only while none is forced.                               *)
LEMMA BestIsRate == ASSUME NEW common PROVE Mac!Best(common) \in Rates
<1> DEFINE usable == common \cup {Mac!Slowest}
           First(i) == /\ Mac!Order[i] \in usable
                       /\ \A j \in 1..(i - 1) : Mac!Order[j] \notin usable
<1>1. \A i \in 1..6 : Mac!Order[i] \in Rates
  BY DEF Mac!Order, Rates
<1>2. Mac!Order[6] \in usable
  BY DEF Mac!Order, Mac!Slowest
<1>3. \E i \in 1..6 : First(i)
  <2> HIDE DEF usable
  <2>1. CASE Mac!Order[1] \in usable
    BY <2>1
  <2>2. CASE Mac!Order[1] \notin usable /\ Mac!Order[2] \in usable
    BY <2>2
  <2>3. CASE (\A j \in 1..2 : Mac!Order[j] \notin usable) /\ Mac!Order[3] \in usable
    BY <2>3
  <2>4. CASE (\A j \in 1..3 : Mac!Order[j] \notin usable) /\ Mac!Order[4] \in usable
    BY <2>4
  <2>5. CASE (\A j \in 1..4 : Mac!Order[j] \notin usable) /\ Mac!Order[5] \in usable
    BY <2>5
  <2>6. CASE \A j \in 1..5 : Mac!Order[j] \notin usable
    BY <1>2, <2>6
  <2> QED  BY <2>1, <2>2, <2>3, <2>4, <2>5, <2>6
<1>4. Mac!Best(common) = Mac!Order[CHOOSE i \in 1..6 : First(i)]
  BY DEF Mac!Best
<1> QED  BY <1>1, <1>3, <1>4

LEMMA WatchKeeps ==
  ASSUME NEW e \in EthTypes, NEW bad
  PROVE  /\ Mac!Watch(e, bad) \in EthTypes /\ SameSettings(e, Mac!Watch(e, bad))
         /\ Mac!Watch(e, bad).mf = e.mf
         /\ Held(e, FALSE) => Held(Mac!Watch(e, bad), FALSE)
         /\ Held(e, TRUE) => Held(Mac!Watch(e, bad), TRUE)
<1>1. CASE ~Mac!HasPhy
  <2> DEFINE r == [e.rate EXCEPT ![2] = "full"]
             f == [e EXCEPT !.link = TRUE, !.rate = r]
  <2>1. r \in Rates
    BY RatesOf DEF EthTypes
  <2>2. Mac!Watch(e, bad) = Mac!DuplexUpd(f)
    BY <1>1 DEF Mac!Watch
  <2> HIDE DEF r
  <2>3. f \in EthTypes /\ SameSettings(e, f) /\ f.phy = e.phy /\ f.mf = e.mf
    BY <2>1 DEF EthTypes, SameSettings
  <2> HIDE DEF f
  <2> QED  BY <1>1, <2>2, <2>3, DuplexUpdKeeps DEF SameSettings, Held
<1>2. CASE Mac!HasPhy /\ "status" \in bad
  BY <1>2 DEF Mac!Watch, SameSettings
<1>3. CASE Mac!HasPhy /\ "status" \notin bad
  <2> DEFINE now == [e EXCEPT !.link = Mac!PhyLinked]
             best == Mac!Best(Mac!Common(e, bad))
             f == [now EXCEPT !.rate = best]
  <2>1. Mac!PhyLinked \in BOOLEAN
    BY DEF Mac!PhyLinked
  <2>2. now \in EthTypes /\ SameSettings(e, now) /\ now.rate = e.rate
        /\ now.phy = e.phy /\ now.mf = e.mf
    BY <2>1 DEF EthTypes, SameSettings
  <2>3. best \in Rates
    BY BestIsRate
  <2>4. Mac!Watch(e, bad) = Mac!DuplexUpd(IF e.force = Mac!Auto THEN f ELSE now)
    BY <1>3 DEF Mac!Watch
  <2> HIDE DEF now, best
  <2>5. f \in EthTypes /\ SameSettings(now, f) /\ f.phy = now.phy /\ f.mf = now.mf
    BY <2>2, <2>3 DEF EthTypes, SameSettings
  <2> HIDE DEF f
  <2>6. CASE e.force = Mac!Auto
    BY <2>2, <2>4, <2>5, <2>6, DuplexUpdKeeps DEF SameSettings, Held
  <2>7. CASE e.force # Mac!Auto
    <3>1. Held(e, FALSE) \/ Held(e, TRUE) => now.rate \in PhyCaps /\ now.rate = e.force
      BY <2>2, <2>7, SettingsAssumption DEF Held
    <3>2. /\ Mac!DuplexUpd(now) \in EthTypes /\ SameSettings(now, Mac!DuplexUpd(now))
          /\ Mac!DuplexUpd(now).rate = now.rate /\ Mac!DuplexUpd(now).phy = now.phy
          /\ Mac!DuplexUpd(now).mf = now.mf
          /\ now.rate \in PhyCaps => Mac!DuplexUpd(now).mac.rate = now.rate
      BY <2>2, DuplexUpdKeeps
    <3> QED  BY <2>2, <2>4, <2>7, <3>1, <3>2 DEF SameSettings, Held
  <2> QED  BY <2>6, <2>7
<1> QED  BY <1>1, <1>2, <1>3

(* et_set_multicast_list: of a list that fits every group but the last has *)
(* its entry, whatever the entries held before.                            *)
LEMMA ListTaken ==
  ASSUME NEW e \in EthTypes, NEW d \in DevTypes
  PROVE  /\ Mac!SetMulticastList(e, d) \in EthTypes
         /\ Held(e, FALSE) /\ <<1000, "half">> \notin Speeds
              => Held(Mac!SetMulticastList(e, d), TRUE)
         /\ HeardIn(Mac!SetMulticastList(e, d), d)
<1> DEFINE f == Mac!CopyList(e, d)
           all == d.allmulti \/ d.promisc \/ Len(d.groups) >= MaxMulti
           g == [f EXCEPT !.promisc = d.promisc, !.allmulti = all]
<1>1. MaxMulti \in Nat \ {0} /\ Len(d.groups) \in Nat /\ d.groups \in Seq(Group)
  BY SettingsAssumption DEF DevTypes
<1>2. \A i \in 1..Len(d.groups) : d.groups[i] \in Group
  BY <1>1
<1>3. [i \in DOMAIN e.multi |-> IF i \in 1..Len(d.groups) THEN d.groups[i] ELSE e.multi[i]]
        \in [0..(MaxMulti - 1) -> Group \cup {NoGroup}]
  BY <1>2 DEF EthTypes
<1>4. (IF Len(d.groups) >= MaxMulti THEN 0 ELSE Len(d.groups)) \in 0..MaxMulti
  BY <1>1
<1>5. /\ f \in EthTypes /\ f.force = e.force /\ f.rate = e.rate /\ f.phy = e.phy
      /\ Len(d.groups) < MaxMulti => f.n = Len(d.groups)
      /\ \A i \in 0..(MaxMulti - 1) : i \in 1..Len(d.groups) => f.multi[i] = d.groups[i]
  <2> DEFINE list == [i \in DOMAIN e.multi |->
                        IF i \in 1..Len(d.groups) THEN d.groups[i] ELSE e.multi[i]]
             count == IF Len(d.groups) >= MaxMulti THEN 0 ELSE Len(d.groups)
  <2>1. f = [e EXCEPT !.n = count, !.multi = list]
    BY DEF Mac!CopyList
  <2>2. \A i \in 0..(MaxMulti - 1) : i \in 1..Len(d.groups) => list[i] = d.groups[i]
    BY DEF EthTypes
  <2>3. list \in [0..(MaxMulti - 1) -> Group \cup {NoGroup}] /\ count \in 0..MaxMulti
    BY <1>3, <1>4
  <2>4. Len(d.groups) < MaxMulti => count = Len(d.groups)
    BY <1>1
  <2> HIDE DEF list, count
  <2> QED  BY <2>1, <2>2, <2>3, <2>4 DEF EthTypes
<1> HIDE DEF f
<1>6. all \in BOOLEAN /\ d.promisc \in BOOLEAN
  BY DEF DevTypes
<1>7. /\ g \in EthTypes /\ g.force = e.force /\ g.rate = e.rate
      /\ g.n = f.n /\ g.multi = f.multi /\ g.promisc = d.promisc /\ (g.allmulti <=> all)
  BY <1>5, <1>6 DEF EthTypes
<1>8. Mac!SetMulticastList(e, d) = Mac!ChipInit(g, {})
  BY DEF Mac!SetMulticastList, f
<1> HIDE DEF g
<1> DEFINE c == Mac!ChipInit(g, {})
<1>9. /\ c \in EthTypes /\ SameSettings(g, c) /\ c.rate = g.rate
      /\ ~g.promisc /\ ~g.allmulti =>
           \A i \in 0..(g.n - 1) : g.multi[i] \in Group => g.multi[i] \in c.mf
  BY <1>7, ChipInitKeeps
<1>10. Held(e, FALSE) /\ <<1000, "half">> \notin Speeds => Held(c, TRUE)
  BY <1>5, <1>7, ChipInitHolds DEF Held
<1> HIDE DEF c
<1>11. HeardIn(c, d)
  <2>1. CASE all
    BY <2>1, <1>7, <1>9 DEF HeardIn, SameSettings
  <2>2. ASSUME ~all, NEW i \in 1..(Len(d.groups) - 1) PROVE d.groups[i] \in c.mf
    <3>1. ~g.promisc /\ ~g.allmulti /\ g.n = Len(d.groups)
      BY <2>2, <1>1, <1>5, <1>7
    <3>2. i \in 0..(g.n - 1) /\ g.multi[i] = d.groups[i] /\ d.groups[i] \in Group
      BY <2>2, <3>1, <1>1, <1>2, <1>5, <1>7
    <3> QED  BY <3>1, <3>2, <1>9
  <2> QED  BY <2>1, <2>2 DEF HeardIn
<1> QED  BY <1>8, <1>9, <1>10, <1>11 DEF c

(* et_open: the settings are applied, and then the list is taken.          *)
LEMMA OpenedHolds ==
  ASSUME eth \in EthTypes, dev \in DevTypes
  PROVE  /\ Mac!Opened(eth) \in EthTypes
         /\ Held(eth, FALSE) /\ <<1000, "half">> \notin Speeds => Held(Mac!Opened(eth), TRUE)
         /\ HeardIn(Mac!Opened(eth), dev)
<1> DEFINE f == [eth EXCEPT !.promisc = dev.promisc, !.allmulti = dev.allmulti \/ dev.promisc]
           c == Mac!ChipInit(f, {})
<1>1. dev.promisc \in BOOLEAN /\ (dev.allmulti \/ dev.promisc) \in BOOLEAN
  BY DEF DevTypes
<1>2. f \in EthTypes /\ f.force = eth.force /\ f.rate = eth.rate
  BY <1>1 DEF EthTypes
<1>3. Mac!Opened(eth) = Mac!SetMulticastList(c, dev)
  BY DEF Mac!Opened
<1> HIDE DEF f
<1>4. c \in EthTypes
  BY <1>2, ChipInitKeeps
<1>5. Held(eth, FALSE) /\ <<1000, "half">> \notin Speeds => Held(c, TRUE)
  BY <1>2, ChipInitHolds DEF Held
<1> HIDE DEF c
<1>6. Held(c, TRUE) => Held(c, FALSE)
  BY DEF Held
<1> QED  BY <1>3, <1>4, <1>5, <1>6, ListTaken

(* The types of the settings and, of an interface that is up, the two      *)
(* facts the operators above hand on.                                      *)
PortTyped == board \in Mac!Boards /\ eth \in EthTypes /\ dev \in DevTypes
HeardInv == up => HeardIn(eth, dev)
HeldInv == Held(eth, up)

LEMMA SettingsInit == PortInit => PortTyped /\ HeardInv /\ HeldInv
<1> SUFFICES ASSUME PortInit PROVE PortTyped /\ HeardInv /\ HeldInv
  OBVIOUS
<1>1. board \in Mac!Boards /\ dev \in DevTypes /\ ~up
  BY DEF PortInit, Mac!MacInit, Init, DevTypes
<1>2. PICK speed \in {10, 1000}, pin \in BOOLEAN : eth = Mac!Attached(speed, pin)
  BY DEF PortInit, Mac!MacInit
<1> DEFINE wanted == IF pin /\ Mac!HasPhy THEN Mac!Slow \cup {<<1000, "full">>} ELSE {}
           list == [i \in 0..(MaxMulti - 1) |-> NoGroup]
           first ==
             [force |-> Mac!Auto, rate |-> Mac!Auto, link |-> FALSE,
              advertise |-> wanted, needautoneg |-> wanted # {},
              promisc |-> FALSE, allmulti |-> FALSE, loopbk |-> FALSE,
              multi |-> list, n |-> 0, mf |-> {},
              mac |-> [rate |-> <<speed, "full">>, prom |-> TRUE, loop |-> FALSE, on |-> FALSE],
              phy |-> [ctl |-> Mac!Auto, adv |-> PhyCaps]]
<1>3. eth = Mac!ChipReset(first)
  BY <1>2 DEF Mac!Attached
<1>4. /\ wanted \in SUBSET Rates /\ (wanted # {}) \in BOOLEAN
      /\ <<speed, "full">> \in Rates /\ 0 \in 0..MaxMulti
      /\ list \in [0..(MaxMulti - 1) -> Group \cup {NoGroup}]
  BY RatesOf, SettingsAssumption DEF Rates
<1> HIDE DEF wanted, list
<1>5. first \in EthTypes /\ first.force = Mac!Auto
  BY <1>4, RatesOf DEF EthTypes
<1>6. Held(first, FALSE)
  BY <1>5 DEF Held
<1> HIDE DEF first
<1>7. eth \in EthTypes /\ Held(eth, FALSE)
  BY <1>1, <1>3, <1>5, <1>6, ChipResetKeeps
<1> QED  BY <1>1, <1>7 DEF PortTyped, HeardInv, HeldInv, Held

(* The ioctls: ETCLOOP and ETCPROMISC change a flag, ETCSPEED notes down   *)
(* the speed and resets the phy, before chipinit applies it all.           *)
LEMMA FlagsApplied ==
  ASSUME PortTyped, Mac!Loopback \/ Mac!Promisc
  PROVE  \E f \in EthTypes :
            /\ f.force = eth.force /\ f.rate = eth.rate /\ f.allmulti = eth.allmulti
            /\ f.mf = eth.mf /\ eth' = Mac!ChipInit(f, {})
            /\ UNCHANGED <<board, dev>>
<1>1. CASE Mac!Loopback
  <2> DEFINE f == [eth EXCEPT !.loopbk = ~@]
  <2>1. /\ f \in EthTypes /\ f.force = eth.force /\ f.rate = eth.rate
        /\ f.allmulti = eth.allmulti /\ f.mf = eth.mf
    BY DEF PortTyped, EthTypes
  <2>2. eth' = Mac!ChipInit(f, {}) /\ UNCHANGED <<board, dev>>
    BY <1>1 DEF Mac!Loopback
  <2> HIDE DEF f
  <2> QED  BY <2>1, <2>2
<1>2. CASE Mac!Promisc
  <2> DEFINE f == [eth EXCEPT !.promisc = ~@]
  <2>1. /\ f \in EthTypes /\ f.force = eth.force /\ f.rate = eth.rate
        /\ f.allmulti = eth.allmulti /\ f.mf = eth.mf
    BY DEF PortTyped, EthTypes
  <2>2. eth' = Mac!ChipInit(f, {}) /\ UNCHANGED <<board, dev>>
    BY <1>2 DEF Mac!Promisc
  <2> HIDE DEF f
  <2> QED  BY <2>1, <2>2
<1> QED  BY <1>1, <1>2

LEMMA SpeedApplied ==
  ASSUME PortTyped, NEW r \in Speeds, Mac!Speed(r)
  PROVE  \E f \in EthTypes, lost \in SUBSET LostWrites :
            /\ f.force = r /\ (r # Mac!Auto => f.rate = r)
            /\ f.allmulti = eth.allmulti /\ f.mf = eth.mf
            /\ Mac!HasPhy /\ eth' = Mac!ChipInit(f, lost)
            /\ UNCHANGED <<board, dev>>
<1>1. PICK lost \in SUBSET LostWrites :
        eth' = Mac!ChipInit(Mac!PhyReset(Mac!Force(eth, r), lost), lost)
  BY DEF Mac!Speed
<1> DEFINE f == Mac!Force(eth, r)
           g == Mac!PhyReset(f, lost)
<1>2. r \in Rates /\ Mac!Slow \cup {<<1000, "full">>} \in SUBSET Rates
  BY RatesOf DEF Rates
<1>3. /\ f \in EthTypes /\ f.force = r /\ (r # Mac!Auto => f.rate = r)
      /\ f.allmulti = eth.allmulti /\ f.mf = eth.mf
  <2> DEFINE rate == IF r = Mac!Auto THEN eth.rate ELSE r
             wanted == IF r = Mac!Auto THEN Mac!Slow \cup {<<1000, "full">>} ELSE {}
             again == (r = Mac!Auto)
  <2>1. f = [eth EXCEPT !.force = r, !.rate = rate, !.advertise = wanted,
                        !.needautoneg = again]
    BY DEF Mac!Force
  <2>2. /\ rate \in Rates /\ wanted \in SUBSET Rates /\ again \in BOOLEAN
        /\ r # Mac!Auto => rate = r
    BY <1>2 DEF PortTyped, EthTypes
  <2> HIDE DEF rate, wanted, again
  <2>3. eth \in EthTypes
    BY DEF PortTyped
  <2>4. f \in EthTypes
    <3> DEFINE e == [eth EXCEPT !.force = r, !.rate = rate]
    <3>1. r \in Rates /\ rate \in Rates
      BY <1>2, <2>2
    <3>2. e \in EthTypes
      BY ONLY <2>3, <3>1 DEF EthTypes
    <3>3. f = [e EXCEPT !.advertise = wanted, !.needautoneg = again]
      BY <2>1, <2>3 DEF EthTypes
    <3> HIDE DEF e, f
    <3> QED  BY <2>2, <3>2, <3>3 DEF EthTypes
  <2>5. f.force = r /\ f.rate = rate
    BY <2>1, <2>3 DEF EthTypes
  <2>6. f.allmulti = eth.allmulti
    BY <2>1, <2>3 DEF EthTypes
  <2>7. f.mf = eth.mf
    BY <2>1, <2>3 DEF EthTypes
  <2> QED  BY <2>2, <2>4, <2>5, <2>6, <2>7
<1> HIDE DEF f
<1>4. /\ g \in EthTypes /\ g.force = f.force /\ g.rate = f.rate
      /\ g.allmulti = f.allmulti /\ g.mf = f.mf
  <2> DEFINE reset == [ctl |-> Mac!Auto, adv |-> PhyCaps]
             phy == Mac!PhyWr("reset", lost, f.phy, reset)
  <2>1. g = [f EXCEPT !.phy = phy]
    BY DEF Mac!PhyReset
  <2>2. phy \in [ctl : Rates, adv : SUBSET Rates]
    BY <1>3, RatesOf DEF Mac!PhyWr, EthTypes
  <2> HIDE DEF phy
  <2> QED  BY <1>3, <2>1, <2>2 DEF EthTypes
<1>5. Mac!HasPhy /\ eth' = Mac!ChipInit(g, lost) /\ UNCHANGED <<board, dev>>
  BY <1>1 DEF Mac!Speed, f
<1> HIDE DEF g
<1> QED  BY <1>3, <1>4, <1>5

(* The stack's list: a group it has not joined yet, or one it leaves.      *)
LEMMA GroupsTyped ==
  ASSUME PortTyped, Mac!ChangeGroups
  PROVE  /\ dev' \in DevTypes /\ UNCHANGED board
         /\ eth' = IF up THEN Mac!SetMulticastList(eth, dev') ELSE eth
<1> USE DEF PortTyped, DevTypes
<1>1. ASSUME NEW g \in Group, dev' = [dev EXCEPT !.groups = Append(@, g)]
      PROVE  dev' \in DevTypes
  <2>1. Append(dev.groups, g) \in Seq(Group)
    OBVIOUS
  <2> QED  BY <1>1, <2>1
<1>2. ASSUME NEW k \in 1..Len(dev.groups), dev' = [dev EXCEPT !.groups = Mac!Without(@, k)]
      PROVE  dev' \in DevTypes
  <2>1. SubSeq(dev.groups, 1, k - 1) \in Seq(Group)
    OBVIOUS
  <2>2. SubSeq(dev.groups, k + 1, Len(dev.groups)) \in Seq(Group)
    OBVIOUS
  <2>3. Mac!Without(dev.groups, k) \in Seq(Group)
    BY <2>1, <2>2 DEF Mac!Without
  <2> QED  BY <1>2, <2>3
<1>3. ASSUME dev' = [dev EXCEPT !.promisc = ~@] \/ dev' = [dev EXCEPT !.allmulti = ~@]
      PROVE  dev' \in DevTypes
  BY <1>3
<1> QED  BY <1>1, <1>2, <1>3 DEF Mac!ChangeGroups

(* One step keeps the types and what is heard, whatever is lost, and what  *)
(* is held if no forcing write is.                                         *)
Forcible == "force" \notin LostWrites /\ <<1000, "half">> \notin Speeds

LEMMA TickKeeps ==
  ASSUME PortTyped, HeardInv, PortTick
  PROVE  PortTyped' /\ HeardInv' /\ (HeldInv => HeldInv')
<1>1. UNCHANGED <<up, board, dev>>
  BY DEF PortTick, HandlerEnds, Mac!MacTick
<1>2. PICK bad : eth' = Mac!Watch(eth, bad)
  BY DEF PortTick, Mac!MacTick
<1> DEFINE e == Mac!Watch(eth, bad)
<1>3. /\ e \in EthTypes /\ SameSettings(eth, e) /\ e.mf = eth.mf
      /\ Held(eth, FALSE) => Held(e, FALSE)
      /\ Held(eth, TRUE) => Held(e, TRUE)
  BY WatchKeeps DEF PortTyped
<1> HIDE DEF e
<1>4. HeldInv => HeldInv'
  <2>1. HeldInv => Held(eth, FALSE) /\ (up => Held(eth, TRUE))
    BY DEF HeldInv, Held
  <2>2. HeldInv => Held(e, FALSE) /\ (up => Held(e, TRUE))
    BY <1>3, <2>1
  <2>3. eth' = e
    BY <1>2 DEF e
  <2> QED  BY <1>1, <2>2, <2>3 DEF HeldInv, Held, Mac!HasPhy
<1> QED  BY <1>1, <1>2, <1>3, <1>4 DEF PortTyped, HeardInv, HeardIn, SameSettings, e

LEMMA IoctlKeeps ==
  ASSUME PortTyped, HeardInv, Mac!MacIoctl, UNCHANGED up
  PROVE  PortTyped' /\ HeardInv' /\ (Forcible /\ HeldInv => HeldInv')
<1>1. PICK f \in EthTypes, lost \in SUBSET LostWrites :
        /\ eth' = Mac!ChipInit(f, lost) /\ UNCHANGED <<board, dev>>
        /\ f.allmulti = eth.allmulti /\ f.mf = eth.mf
        /\ HeldInv => /\ f.force \in {Mac!Auto} \cup Speeds
                      /\ f.force # Mac!Auto => Mac!HasPhy /\ f.rate = f.force
  <2>1. CASE Mac!Loopback \/ Mac!Promisc
    <3>1. {} \in SUBSET LostWrites
      OBVIOUS
    <3> QED  BY <2>1, <3>1, FlagsApplied DEF HeldInv, Held
  <2>2. CASE \E r \in Speeds : Mac!Speed(r)
    BY <2>2, SpeedApplied
  <2> QED  BY <2>1, <2>2 DEF Mac!MacIoctl
<1> DEFINE e == Mac!ChipInit(f, lost)
<1>2. e \in EthTypes /\ SameSettings(f, e) /\ f.mf \subseteq e.mf
  BY ChipInitKeeps
<1>3. Forcible /\ HeldInv => Held(e, TRUE)
  BY <1>1, ChipInitHolds DEF Forcible
<1> HIDE DEF e
<1>4. eth' = e
  BY <1>1 DEF e
<1>5. Forcible /\ HeldInv => HeldInv'
  BY <1>1, <1>3, <1>4 DEF HeldInv, Held, Mac!HasPhy
<1>6. HeardInv'
  BY <1>1, <1>2, <1>4 DEF HeardInv, HeardIn, SameSettings
<1> QED  BY <1>1, <1>2, <1>4, <1>5, <1>6 DEF PortTyped

LEMMA GroupsKeep ==
  ASSUME PortTyped, HeardInv, Mac!ChangeGroups, UNCHANGED up
  PROVE  PortTyped' /\ HeardInv' /\ (Forcible /\ HeldInv => HeldInv')
<1>1. /\ dev' \in DevTypes /\ UNCHANGED board
      /\ eth' = IF up THEN Mac!SetMulticastList(eth, dev') ELSE eth
  BY GroupsTyped
<1>2. CASE ~up
  BY <1>1, <1>2 DEF PortTyped, HeardInv, HeldInv, Held, Mac!HasPhy
<1>3. CASE up
  <2> DEFINE e == Mac!SetMulticastList(eth, dev')
  <2>1. /\ e \in EthTypes /\ HeardIn(e, dev')
        /\ Held(eth, FALSE) /\ <<1000, "half">> \notin Speeds => Held(e, TRUE)
    BY <1>1, ListTaken DEF PortTyped
  <2>2. HeldInv => Held(eth, FALSE)
    BY DEF HeldInv, Held
  <2> HIDE DEF e
  <2>3. eth' = e
    BY <1>1, <1>3 DEF e
  <2>4. Forcible /\ HeldInv => HeldInv'
    BY <1>1, <1>3, <2>1, <2>2, <2>3 DEF HeldInv, Held, Forcible, Mac!HasPhy
  <2> QED  BY <1>1, <1>3, <2>1, <2>3, <2>4 DEF PortTyped, HeardInv, HeardIn
<1> QED  BY <1>2, <1>3

LEMMA OpenCloseKeeps ==
  ASSUME PortTyped, HeardInv, TimerInv, PortUp \/ PortDown \/ PortDownEnd
  PROVE  PortTyped' /\ HeardInv' /\ (Forcible /\ HeldInv => HeldInv')
<1>1. UNCHANGED <<board, dev>>
  BY DEF PortUp, PortDown, PortDownEnd, Mac!MacOpen, Mac!MacClose, Mac!MacCloseEnd
<1>2. CASE PortUp
  <2> DEFINE e == Mac!Opened(eth)
  <2>1. /\ e \in EthTypes /\ HeardIn(e, dev)
        /\ Held(eth, FALSE) /\ <<1000, "half">> \notin Speeds => Held(e, TRUE)
    BY OpenedHolds DEF PortTyped
  <2>2. HeldInv => Held(eth, FALSE)
    BY DEF HeldInv, Held
  <2> HIDE DEF e
  <2>3. eth' = e
    BY <1>2 DEF PortUp, Mac!MacOpen, e
  <2>4. Forcible /\ HeldInv => HeldInv'
    BY <1>1, <2>1, <2>2, <2>3 DEF HeldInv, Held, Forcible, Mac!HasPhy
  <2> QED  BY <1>1, <2>1, <2>3, <2>4 DEF PortTyped, HeardInv, HeardIn
<1>3. CASE PortDown
  <2> DEFINE e == [eth EXCEPT !.promisc = FALSE, !.allmulti = FALSE]
  <2>1. /\ e \in EthTypes /\ e.force = eth.force /\ e.rate = eth.rate
        /\ e.phy = eth.phy /\ e.mac = eth.mac
    BY DEF PortTyped, EthTypes
  <2> HIDE DEF e
  <2>2. eth' = e /\ ~up'
    BY <1>3 DEF PortDown, Down, Mac!MacClose, e
  <2> QED  BY <1>1, <2>1, <2>2 DEF PortTyped, HeardInv, HeldInv, Held, Mac!HasPhy
<1>4. CASE PortDownEnd
  <2> DEFINE f == Mac!ChipReset(eth)
             e == [f EXCEPT !.link = FALSE]
  <2>1. /\ f \in EthTypes /\ SameSettings(eth, f)
        /\ Held(eth, FALSE) => Held(f, FALSE)
    BY ChipResetKeeps DEF PortTyped
  <2> HIDE DEF f
  <2>2. /\ e \in EthTypes /\ e.force = f.force /\ e.rate = f.rate /\ e.phy = f.phy
    BY <2>1 DEF EthTypes
  <2> HIDE DEF e
  <2>3. eth' = e /\ ~up'
    BY <1>4 DEF PortDownEnd, DownEnd, Mac!MacCloseEnd, e, f
  <2>4. HeldInv => HeldInv'
    BY <1>1, <2>1, <2>2, <2>3 DEF HeldInv, Held, Mac!HasPhy
  <2> QED  BY <1>1, <2>2, <2>3, <2>4 DEF PortTyped, HeardInv
<1> QED  BY <1>2, <1>3, <1>4

LEMMA PortStep ==
  PortTyped /\ HeardInv /\ TimerInv /\ [PortNext]_portVars
    => PortTyped' /\ HeardInv' /\ (Forcible /\ HeldInv => HeldInv')
<1> SUFFICES ASSUME PortTyped, HeardInv, TimerInv, [PortNext]_portVars
             PROVE  PortTyped' /\ HeardInv' /\ (Forcible /\ HeldInv => HeldInv')
  OBVIOUS
<1>1. CASE PortUp \/ PortDown \/ PortDownEnd
  BY <1>1, OpenCloseKeeps
<1>2. CASE PortTick
  BY <1>2, TickKeeps
<1>3. CASE MacStep
  <2>1. UNCHANGED up
    BY <1>3 DEF MacStep, vars, timerVars
  <2>2. CASE Mac!PartnerChange
    BY <2>1, <2>2 DEF Mac!PartnerChange, PortTyped, HeardInv, HeldInv, Held, Mac!HasPhy
  <2> QED  BY <1>3, <2>1, <2>2, IoctlKeeps, GroupsKeep DEF MacStep
<1>4. CASE UNCHANGED <<up, macVars>>
  BY <1>4 DEF macVars, PortTyped, HeardInv, HeldInv, Held, Mac!HasPhy
<1>5. SwitchStep => UNCHANGED <<up, macVars>>
  BY DEF SwitchStep, LinkChange, PowerSaveSet, timerVars
<1>6. PortFires \/ UNCHANGED portVars => UNCHANGED <<up, macVars>>
  BY DEF PortFires, TimerFires, portVars, vars, timerVars
<1> QED  BY <1>1, <1>2, <1>3, <1>4, <1>5, <1>6 DEF PortNext

(* et_set_multicast_list: of the groups the stack has joined only the one  *)
(* it put last goes unheard, for a private table of any size and whatever  *)
(* was in it, whether or not the list fits.                                *)
THEOREM OnlyTheLastUnheard == PortSpec => []AtMostOneUnheard
<1>1. PortTyped /\ HeardInv => AtMostOneUnheard
  <2> SUFFICES ASSUME PortTyped, HeardInv, up PROVE AtMostOneUnheard
    BY DEF AtMostOneUnheard, Mac!AtMostOneUnheard
  <2> DEFINE last == dev.groups[Len(dev.groups)]
  <2>1. dev.groups \in Seq(Group) /\ HeardIn(eth, dev)
    BY DEF PortTyped, DevTypes, HeardInv
  <2>2. \A g \in Mac!Joined : ~Mac!Heard(g) => g = last
    BY <2>1 DEF Mac!Joined, Mac!Heard, HeardIn
  <2> QED  BY <2>2 DEF AtMostOneUnheard, Mac!AtMostOneUnheard
<1>2. PortInit => PortTyped /\ HeardInv /\ TimerInv
  BY SettingsInit, TimerInit DEF PortInit
<1> QED  BY <1>1, <1>2, PortStep, PortTimerStep, PTL DEF PortSpec

(* etc_ioctl, chipinit and etc_watchdog: a speed forced on the interface   *)
(* is what MAC and phy run at while it is up, for any speeds and partners; *)
(* writes that reset the phy or set what it advertises may be lost, only   *)
(* the one that forces the speed may not, and 1000 half duplex, for which  *)
(* the functions that set it have no case, is not forced.                  *)
THEOREM ForcedSpeedHolds == ASSUME Forcible PROVE PortSpec => []ForcedHolds
<1>1. HeldInv => ForcedHolds
  BY DEF HeldInv, Held, ForcedHolds, Mac!ForcedHolds
<1>2. PortInit => PortTyped /\ HeardInv /\ TimerInv /\ HeldInv
  BY SettingsInit, TimerInit DEF PortInit
<1>3. PortTyped /\ HeardInv /\ TimerInv /\ HeldInv /\ [PortNext]_portVars
        => PortTyped' /\ HeardInv' /\ HeldInv'
  BY PortStep
<1> QED  BY <1>1, <1>2, <1>3, PortTimerStep, PTL DEF PortSpec

(* The seconds until etc_watchdog wakes the ports of the duty cycle.  With *)
(* now past sleep_timer it first puts them to sleep at wake_timer, and     *)
(* with now past both it starts again, one second ahead.                   *)
PastWake == sleepIn + gap

SecondsToWake ==
  IF sleepIn >= 1 THEN sleepIn
  ELSE IF PastWake >= 1 THEN PastWake + SleepTime
  ELSE Restart + 1

(* A second with a port in manual mode wakes the cycle's ports or brings   *)
(* their waking nearer, and nothing but seconds moves it.                  *)
CycleAdvances ==
  /\ Seconds /\ manual # {} =>
        \/ \A p \in Cycled : "MANUAL" \notin modes'[p]
        \/ SecondsToWake' < SecondsToWake
  /\ Seconds \/ UNCHANGED SecondsToWake

(* Never further off than the initial sleep, or a wake and a sleep.        *)
WakeIsNear ==
  \/ SecondsToWake \in 1..FirstSleep
  \/ SecondsToWake \in 1..(WakeTime + SleepTime)

(* sleep_timer is ahead only as the initial time or a restart left it.     *)
InCycle == IF gap < 0 THEN sleepIn <= -gap ELSE sleepIn <= Restart

CycleInv == ClockTyped /\ InCycle

LEMMA SecondsOrStill == [PortNext]_portVars => Seconds \/ UNCHANGED clock
<1> SUFFICES ASSUME [PortNext]_portVars PROVE Seconds \/ UNCHANGED clock
  OBVIOUS
<1>1. Watchdog => Seconds
  BY DEF Watchdog
<1>2. ASSUME NEW p \in Phys,
             LinkChange(p) \/ \E mode \in {"NORMAL", "AUTO", "MANUAL", "AUTO_MANUAL"} :
                                  PowerSaveSet(mode, p)
      PROVE  UNCHANGED clock
  BY <1>2 DEF LinkChange, PowerSaveSet
<1>3. TimerFires \/ Up \/ Down \/ DownEnd \/ QuietTick \/ UNCHANGED vars => UNCHANGED clock
  BY DEF TimerFires, Up, Down, DownEnd, QuietTick, vars
<1> QED  BY <1>1, <1>2, <1>3, StepOfPort DEF Next

(* What the four cases of the duty cycle do to the two times.              *)
LEMMA SecondCounts ==
  ASSUME CycleInv, NEW m, DutyCycle(m)
  PROVE  /\ InCycle'
         /\ manual # {} => m = ToggleWake \/ SecondsToWake' < SecondsToWake
<1> USE TimesAssumption DEF CycleInv, ClockTyped, InCycle, Past, PastWake, SecondsToWake,
                            NextSleep, Restart
<1>1. CASE manual = {}
  BY <1>1 DEF DutyCycle
<1>2. CASE manual # {} /\ sleepIn - 1 = 0
  BY <1>2 DEF DutyCycle
<1>3. CASE manual # {} /\ sleepIn - 1 # 0 /\ sleepIn - 1 + gap = 0
  <2>1. sleepIn' = SleepTime /\ gap' = -SleepTime
    BY <1>3 DEF DutyCycle
  <2>2. sleepIn < 1 /\ SecondsToWake = 1 + SleepTime
    BY <1>3
  <2> QED  BY <2>1, <2>2
<1>4. CASE manual # {} /\ sleepIn - 1 < 0 /\ sleepIn - 1 + gap < 0
  <2>1. sleepIn' = 1 /\ gap' = gap
    BY <1>4 DEF DutyCycle
  <2> QED  BY <2>1, <1>4
<1>5. CASE /\ manual # {} /\ sleepIn - 1 # 0 /\ sleepIn - 1 + gap # 0
           /\ sleepIn - 1 > 0 \/ sleepIn - 1 + gap > 0
  <2>1. sleepIn' = sleepIn - 1 /\ gap' = gap
    BY <1>5 DEF DutyCycle
  <2> QED  BY <2>1, <1>5
<1> QED  BY <1>1, <1>2, <1>3, <1>4, <1>5

LEMMA SecondWakes ==
  ASSUME CycleInv, SaveInv, Seconds, manual # {}
  PROVE  \/ \A p \in Cycled : "MANUAL" \notin modes'[p]
         \/ SecondsToWake' < SecondsToWake
<1>1. PICK m \in {modes, ToggleWake, ToggleSleep} :
          /\ DutyCycle(m)
          /\ modes' = IF age + 1 = StartTime THEN UpdateAuto(m) ELSE m
  BY DEF Seconds
<1>2. CASE m = ToggleWake
  <2> SUFFICES ASSUME NEW p \in Cycled PROVE "MANUAL" \notin modes'[p]
    OBVIOUS
  <2>1. p \in Phys
    BY TimesAssumption DEF Cycled
  <2>2. "MANUAL" \notin m[p]
    BY <1>2, <2>1 DEF ToggleWake
  <2>3. "MANUAL" \notin UpdateAuto(m)[p]
    BY <2>1, <2>2 DEF UpdateAuto
  <2> QED  BY <1>1, <2>2, <2>3
<1> QED  BY <1>1, <1>2, SecondCounts

LEMMA CycleStep == CycleInv /\ SaveInv /\ [PortNext]_portVars => CycleInv' /\ CycleAdvances
<1> SUFFICES ASSUME CycleInv, SaveInv, [PortNext]_portVars PROVE CycleInv' /\ CycleAdvances
  OBVIOUS
<1>1. ClockTyped'
  BY StepOfPort, ClockStep, QuietKeeps DEF CycleInv
<1>2. CASE UNCHANGED clock
  <2>1. InCycle' /\ UNCHANGED SecondsToWake
    BY <1>2 DEF clock, CycleInv, InCycle, SecondsToWake, PastWake
  <2> QED  BY <1>1, <2>1, SecondWakes DEF CycleInv, CycleAdvances
<1>3. CASE Seconds
  <2>1. InCycle'
    BY <1>3, SecondCounts DEF Seconds
  <2> QED  BY <1>1, <1>3, <2>1, SecondWakes DEF CycleInv, CycleAdvances
<1> QED  BY <1>2, <1>3, SecondsOrStill

(* etc_watchdog: with a port in manual mode every second wakes the ports   *)
(* of the duty cycle or brings their waking nearer, which is never further *)
(* off than the initial sleep, or a wake and a sleep, wherever the times   *)
(* stood when the mode was set or cleared.                                 *)
THEOREM WokenInTime == PortSpec => []WakeIsNear /\ [][CycleAdvances]_portVars
<1>1. CycleInv => WakeIsNear
  <2> SUFFICES ASSUME CycleInv PROVE WakeIsNear
    OBVIOUS
  <2> USE TimesAssumption DEF CycleInv, ClockTyped, InCycle, Past, WakeIsNear,
                              SecondsToWake, PastWake, Restart
  <2>1. CASE gap = WakeTime
    BY <2>1
  <2>2. CASE gap = -FirstSleep
    BY <2>2
  <2>3. CASE gap = -SleepTime
    BY <2>3
  <2> QED  BY <2>1, <2>2, <2>3
<1>2. PortInit => CycleInv /\ SaveInv
  BY ClockInit, SaveInit, TimesAssumption DEF PortInit, Init, CycleInv, InCycle
<1>3. SaveInv /\ [PortNext]_portVars => SaveInv'
  BY StepOfPort, QuietKeeps, SaveStep
<1> QED  BY <1>1, <1>2, <1>3, CycleStep, PTL DEF PortSpec
=============================================================================
