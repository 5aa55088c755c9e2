----------------------------- MODULE EtWatchdog -----------------------------
(***************************************************************************)
(* The one second timer of the vendor ethernet driver (et_linux.c), how    *)
(* et_up and et_down arm and stop it, and what it drives on the switch:    *)
(* the duty cycle of the manual power save of the switch ports             *)
(* (etc_watchdog in etc.c, robo_power_save_* in bcmrobo.c) against the     *)
(* power-save ioctl.  The timer's handler and the callers of et_up and     *)
(* et_down (one at a time: rtnl) run on different CPUs under ET_LOCK;      *)
(* et_down releases it once, and the handler may wait for it at any time.  *)
(***************************************************************************)
EXTENDS Integers

CONSTANTS
    Phys,           \* the ports' phys
    PwrsavePhys,    \* pwrsave_phys, those the board lets the cycle handle
    FirstSleep,     \* PWRSAVE_SLEEP_TIME, the initial sleep_timer
    StartTime,      \* PWRSAVE_WAKE_TIME, when the auto mode is applied
    SleepTime,      \* pwrsave_sleep_time
    WakeTime        \* pwrsave_wake_time

ASSUME TimesAssumption ==
    /\ {FirstSleep, StartTime, SleepTime, WakeTime} \subseteq Nat \ {0}
    /\ StartTime < FirstSleep - 1
    /\ PwrsavePhys \subseteq Phys

VARIABLES
    closing,        \* et_down is past its ET_UNLOCK
    up,             \* etc->up
    set,            \* et->set
    timer,          \* the timer is pending
    handler,        \* the timer has expired and its handler waits for ET_LOCK
    sleepIn,        \* sleep_timer - now, not below Past
    gap,            \* wake_timer - sleep_timer
    age,            \* now, until it is past StartTime
    capable,        \* the switch has the auto power down mode
    manual,         \* pwrsave_mode_manual
    auto,           \* pwrsave_mode_auto
    modes,          \* pwrsave_mode_phys: with "MANUAL" the phy is powered down
    link            \* the ports whose link is up

timerVars == <<closing, up, set, timer, handler>>
clock == <<sleepIn, gap, age>>
saveVars == <<capable, manual, auto, modes, link>>
vars == <<timerVars, clock, saveVars>>

\* How far now is past sleep_timer is told apart only up to wake_timer.
Past == -(WakeTime + 1)

Init ==
    /\ closing = FALSE /\ up = FALSE /\ set = FALSE
    /\ timer = FALSE /\ handler = FALSE
    /\ sleepIn = FirstSleep /\ gap = -FirstSleep /\ age = 0
    /\ capable \in BOOLEAN
    /\ manual \in SUBSET Phys /\ auto \in SUBSET Phys
    /\ modes = [p \in Phys |-> {}]
    /\ link \in SUBSET Phys

-----------------------------------------------------------------------------
(* Power save: bcmrobo.c *)

PoweredDown(m) == {p \in Phys : "MANUAL" \in m[p]}

\* robo_power_save_mode_manual: a phy whose link is up is left alone.
ModeManual(m, p) == IF p \in link THEN m ELSE [m EXCEPT ![p] = @ \cup {"MANUAL"}]

\* robo_power_save_mode_auto, where the switch can.
ModeAuto(m, p) == [m EXCEPT ![p] = @ \cup {"AUTO"}]

ClearManual(m, p) == [m EXCEPT ![p] = @ \ {"MANUAL"}]
ClearAuto(m, p) == [m EXCEPT ![p] = @ \ {"AUTO"}]

\* Mutant: robo_power_save_mode_normal leaves a phy in manual mode.
ModeNormalAuto(m, p) == ClearAuto(m, p)

\* robo_power_save_mode_normal: out of auto, then out of manual.
ModeNormal(m, p) == ClearManual(ClearAuto(m, p), p)

\* robo_power_save_mode: what becomes of the phys' modes.
PowerSaveMode(mode, p) ==
    CASE mode = "NORMAL" -> ModeNormal(modes, p)
      [] mode = "AUTO" -> ModeAuto(modes, p)
      [] mode = "MANUAL" -> ModeManual(modes, p)
      [] mode = "AUTO_MANUAL" -> ModeManual(ModeAuto(modes, p), p)

\* robo_power_save_mode_set, from the ioctl: on a switch without the auto
\* mode asking for it is an error that changes nothing.
PowerSaveSet(mode, p) ==
    /\ ~closing
    /\ mode \in {"AUTO", "AUTO_MANUAL"} => capable
    /\ manual' = IF mode \in {"MANUAL", "AUTO_MANUAL"}
                    THEN manual \cup {p} ELSE manual \ {p}
    /\ auto' = IF mode \in {"AUTO", "AUTO_MANUAL"}
                  THEN auto \cup {p} ELSE auto \ {p}
    /\ modes' =
          LET m == PowerSaveMode(mode, p)
          IN  CASE mode = "AUTO" -> ClearManual(m, p)
                [] mode = "MANUAL" -> ClearAuto(m, p)
                [] OTHER -> m
    /\ link' = link \ PoweredDown(modes')
    /\ UNCHANGED <<timerVars, clock, capable>>


\* The phys robo_power_save_toggle handles.
Cycled == PwrsavePhys \cap manual

\* robo_power_save_toggle(FALSE): the cycled phys are powered up,
ToggleWake ==
    [p \in Phys |-> IF p \in Cycled THEN modes[p] \ {"MANUAL"} ELSE modes[p]]

\* robo_power_save_toggle(TRUE): and down again where there is no link.
ToggleSleep ==
    [p \in Phys |->
        IF p \in Cycled \ link THEN modes[p] \cup {"MANUAL"} ELSE modes[p]]

\* robo_power_save_mode_update: the auto mode the nvram asks for.
UpdateAuto(m) ==
    [p \in Phys |-> IF capable /\ p \in auto THEN m[p] \cup {"AUTO"} ELSE m[p]]

-----------------------------------------------------------------------------
(* The timer: et_linux.c and etc_watchdog *)

\* sleep_timer - now, when the ports go to sleep at wake_timer.
NextSleep == SleepTime

\* Mutant: now is set to sleep_timer itself, which the next second passes.
RestartLate == 0

\* sleep_timer - now, once now has passed both timers: one second to go.
Restart == 1

\* The duty cycle of etc_watchdog: the new modes, with now one more than
\* before.
DutyCycle(m) ==
    LET toSleep == sleepIn - 1
        toWake == toSleep + gap
    IN  IF manual = {}
           THEN /\ sleepIn' = IF toSleep < Past THEN Past ELSE toSleep
                /\ m = modes /\ UNCHANGED gap
           ELSE \/ /\ toSleep = 0
                   /\ sleepIn' = 0 /\ gap' = WakeTime
                   /\ m = ToggleWake
                \/ /\ toSleep # 0 /\ toWake = 0
                   /\ sleepIn' = NextSleep /\ gap' = -NextSleep
                   /\ m = ToggleSleep
                \/ /\ toSleep < 0 /\ toWake < 0
                   /\ sleepIn' = Restart
                   /\ m = modes /\ UNCHANGED gap
                \/ /\ toSleep # 0 /\ toWake # 0
                   /\ toSleep > 0 \/ toWake > 0
                   /\ sleepIn' = toSleep
                   /\ m = modes /\ UNCHANGED gap

\* The timer expires; its handler has to wait for ET_LOCK.
TimerFires ==
    /\ timer /\ ~handler
    /\ timer' = FALSE /\ handler' = TRUE
    /\ UNCHANGED <<closing, up, set, clock, saveVars>>

\* Mutant: _et_watchdog arms the timer whatever set is.
RearmAlways == TRUE

\* _et_watchdog arms the timer again unless et_down has cleared set.
Rearm == timer \/ set

\* What etc_watchdog does about the switch, now being one more than before.
Seconds ==
    /\ \E m \in {modes, ToggleWake, ToggleSleep} :
          /\ DutyCycle(m)
          /\ modes' = IF age + 1 = StartTime THEN UpdateAuto(m) ELSE m
    /\ age' = IF age > StartTime THEN age ELSE age + 1
    /\ link' = link \ PoweredDown(modes')
    /\ UNCHANGED <<capable, manual, auto>>

\* What _et_watchdog does about the timer, whether or not the interface is up.
HandlerEnds ==
    /\ handler
    /\ timer' = Rearm
    /\ handler' = FALSE
    /\ UNCHANGED <<closing, up, set>>

\* _et_watchdog with the lock: etc_watchdog, then the timer.  (What
\* etc_watchdog does about the phy of the MAC is in EtMac.)
Watchdog == Seconds /\ HandlerEnds

\* et_up.
Up ==
    /\ ~up /\ ~closing
    /\ up' = TRUE /\ set' = TRUE /\ timer' = TRUE
    /\ UNCHANGED <<closing, handler, clock, saveVars>>

\* et_down to its ET_UNLOCK, whether or not the interface is up: del_timer
\* does not wait for a handler that has started.
Down ==
    /\ ~closing
    /\ closing' = TRUE
    /\ up' = FALSE /\ set' = FALSE /\ timer' = FALSE
    /\ UNCHANGED <<handler, clock, saveVars>>

\* The rest of et_down, with the lock again: etc_down.
DownEnd ==
    /\ closing
    /\ closing' = FALSE /\ up' = FALSE
    /\ UNCHANGED <<set, timer, handler, clock, saveVars>>

\* A cable is plugged or pulled; a phy that is powered down has no link.
LinkChange(p) ==
    /\ \/ p \in link /\ link' = link \ {p}
       \/ p \notin link /\ "MANUAL" \notin modes[p] /\ link' = link \cup {p}
    /\ UNCHANGED <<timerVars, clock, capable, manual, auto, modes>>

Next ==
    \/ TimerFires \/ Watchdog \/ Up \/ Down \/ DownEnd
    \/ \E p \in Phys :
          \/ LinkChange(p)
          \/ \E mode \in {"NORMAL", "AUTO", "MANUAL", "AUTO_MANUAL"} :
                PowerSaveSet(mode, p)

\* A pending timer expires, and its handler and et_down get ET_LOCK.
Fairness == WF_vars(TimerFires) /\ WF_vars(Watchdog) /\ WF_vars(DownEnd)

Spec == Init /\ [][Next]_vars
FairSpec == Spec /\ Fairness

-----------------------------------------------------------------------------
(* Properties *)

\* Every variable has its type; sleep_timer and wake_timer stay within one
\* sleep or wake time of each other and of now.
TypeOK ==
    /\ {closing, up, set, timer, handler, capable} \subseteq BOOLEAN
    /\ sleepIn \in Past..(FirstSleep + SleepTime)
    /\ gap \in {WakeTime, -FirstSleep, -SleepTime}
    /\ age \in 0..(StartTime + 1)
    /\ manual \subseteq Phys /\ auto \subseteq Phys /\ link \subseteq Phys
    /\ modes \in [Phys -> SUBSET {"AUTO", "MANUAL"}]

\* The one second timer lives exactly as long as the interface is up, however
\* et_up, et_down and a handler that waits for the lock follow one another:
\* up, it is pending or a handler is about to run that arms it again; down,
\* it is not pending, and a handler that had expired before et_down and gets
\* the lock in or after it does not arm it.
TimerFollowsUp == (up => timer \/ handler) /\ (timer => up)

\* A phy that is powered down is one the manual mode was asked for, through
\* every change of mode that the ioctl, the duty cycle and the auto modes of
\* the nvram make: no port is left off that nobody will turn on.
OffOnlyManual == \A p \in Phys : "MANUAL" \in modes[p] => p \in manual

\* etc_watchdog always comes round to waking a port of the duty cycle, so
\* that a cable plugged into it is seen, whenever the manual mode is set or
\* cleared and wherever now is past the two timers by then.
PortsWake ==
    \A p \in PwrsavePhys : []<>(~up \/ "MANUAL" \notin modes[p])
=============================================================================
