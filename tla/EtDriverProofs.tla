--------------------------- MODULE EtDriverProofs ---------------------------
(* Theorems about EtDriver, for any controllers, sizes and thresholds. *)
EXTENDS EtDriver, TLAPS

(***************************************************************************)
(* Contexts and ET_LOCK: who is inside holds it.                           *)
(***************************************************************************)
LockInv ==
    /\ pc \in [Contexts -> Steps]
    /\ lock \in {"none", "dpc", "txt"} \cup Controllers
    /\ \A a \in {"dpc", "txt"} :
          lock = a <=> pc[a] \in {"work", "send", "end"}
    /\ \A c \in Controllers : lock = c <=> pc[c] \in {"killtx", "reset"}

LEMMA ControllerNames ==
    /\ \A c \in Controllers : c \notin {"isr", "dpc", "txt", "xmit", "none"}
    /\ {"isr", "dpc", "txt", "xmit"} \cup Controllers = Contexts
  BY SizesAssumption DEF Contexts

(* A context takes a step that changes neither its hold of the lock nor    *)
(* anything of the others.                                                 *)
LEMMA StepApart ==
  ASSUME LockInv, NEW a \in Contexts, NEW s \in Steps, pc' = [pc EXCEPT ![a] = s],
         UNCHANGED lock,
         a \in {"dpc", "txt"} => (pc[a] \in {"work", "send", "end"} <=>
                                  s \in {"work", "send", "end"}),
         a \in Controllers => (pc[a] \in {"killtx", "reset"} <=> s \in {"killtx", "reset"})
  PROVE  LockInv'
<1>1. /\ pc' \in [Contexts -> Steps] /\ pc'[a] = s
      /\ \A b \in Contexts \ {a} : pc'[b] = pc[b]
  BY DEF LockInv
<1>2. \A b \in {"dpc", "txt"} : lock' = b <=> pc'[b] \in {"work", "send", "end"}
  BY <1>1, ControllerNames DEF LockInv
<1>3. \A c \in Controllers : lock' = c <=> pc'[c] \in {"killtx", "reset"}
  BY <1>1, ControllerNames DEF LockInv
<1> QED  BY <1>1, <1>2, <1>3 DEF LockInv

(* A context takes the free lock and enters, or leaves and frees it.       *)
LEMMA Taken ==
  ASSUME LockInv, NEW a \in {"dpc", "txt"} \cup Controllers, lock = "none", lock' = a,
         NEW s \in Steps, pc' = [pc EXCEPT ![a] = s],
         IF a \in Controllers THEN s \in {"killtx", "reset"} ELSE s \in {"work", "send", "end"}
  PROVE  LockInv'
<1>1. /\ pc' \in [Contexts -> Steps] /\ pc'[a] = s
      /\ \A b \in Contexts \ {a} : pc'[b] = pc[b]
  BY ControllerNames DEF LockInv
<1>2. \A b \in {"dpc", "txt"} : lock' = b <=> pc'[b] \in {"work", "send", "end"}
  BY <1>1, ControllerNames DEF LockInv
<1>3. \A c \in Controllers : lock' = c <=> pc'[c] \in {"killtx", "reset"}
  BY <1>1, ControllerNames DEF LockInv
<1> QED  BY <1>1, <1>2, <1>3 DEF LockInv

LEMMA Left ==
  ASSUME LockInv, NEW a \in {"dpc", "txt"} \cup Controllers, lock = a, lock' = "none",
         pc' = [pc EXCEPT ![a] = "idle"]
  PROVE  LockInv'
<1>1. /\ pc' \in [Contexts -> Steps] /\ pc'[a] = "idle"
      /\ \A b \in Contexts \ {a} : pc'[b] = pc[b]
  BY ControllerNames DEF LockInv, Steps
<1>2. \A b \in {"dpc", "txt"} : lock' = b <=> pc'[b] \in {"work", "send", "end"}
  BY <1>1, ControllerNames DEF LockInv
<1>3. \A c \in Controllers : lock' = c <=> pc'[c] \in {"killtx", "reset"}
  BY <1>1, ControllerNames DEF LockInv
<1> QED  BY <1>1, <1>2, <1>3 DEF LockInv

LEMMA LockInit == Init => LockInv
  BY ControllerNames DEF Init, LockInv, Steps, Contexts

LEMMA LockStep == LockInv /\ [Next]_vars => LockInv'
<1> SUFFICES ASSUME LockInv, [Next]_vars PROVE LockInv'
  OBVIOUS
<1> USE ControllerNames DEF Steps
<1>0. CASE UNCHANGED <<lock, pc>>
  BY <1>0 DEF LockInv
<1>1. CASE Probe \/ Remove \/ Hardware
  BY <1>0, <1>1 DEF Probe, ProbeStep, ProbeDone, ProbeFail, Remove, Hardware, HwSend,
     HwReceive, HwError
<1>2. ASSUME NEW c \in Controllers, Control(c) PROVE LockInv'
  <2>0. c \in Contexts /\ c \notin {"dpc", "txt"}
    OBVIOUS
  <2>1. CASE Up(c)
    BY <1>0, <2>1 DEF Up
  <2>2. CASE Down(c)
    <3>1. pc[c] = "idle"
      BY <2>2 DEF Down, Controls
    <3> QED  BY <2>0, <2>2, <3>1, StepApart DEF Down
  <2>3. CASE KillDpc(c)
    BY <2>0, <2>3, StepApart DEF KillDpc
  <2>4. CASE Relock(c)
    BY <2>4, Taken DEF Relock
  <2>5. CASE KillTxAndFlush(c)
    BY <2>0, <2>5, StepApart DEF KillTxAndFlush
  <2>6. CASE Reset(c)
    <3>1. lock = c
      BY <2>6 DEF Reset, LockInv
    <3> QED  BY <2>6, <3>1, Left DEF Reset
  <2> QED  BY <1>2, <2>1, <2>2, <2>3, <2>4, <2>5, <2>6 DEF Control
<1>3. CASE Transmit
  BY <1>3, StepApart DEF Transmit, StartCall, StartDrop, StartQueue, StartSched
<1>4. ASSUME NEW t \in {"dpc", "txt"}, Start(t) PROVE LockInv'
  <2>1. t \in Contexts /\ t \notin Controllers
    OBVIOUS
  <2> QED  BY <1>4, <2>1, StepApart DEF Start
<1>5. ASSUME NEW t \in {"dpc", "txt"}, Send(t) PROVE LockInv'
  <2>1. t \in Contexts /\ t \notin Controllers
    OBVIOUS
  <2>2. CASE SendClear(t) \/ SendOne(t)
    BY <1>0, <2>2 DEF SendClear, SendOne
  <2>3. CASE SendEnd(t) /\ t = "dpc"
    BY <2>1, <2>3, StepApart DEF SendEnd
  <2>4. CASE SendEnd(t) /\ t = "txt"
    <3>1. lock = t
      BY <2>4 DEF SendEnd, LockInv
    <3> QED  BY <2>4, <3>1, Left DEF SendEnd
  <2> QED  BY <1>5, <2>2, <2>3, <2>4 DEF Send
<1>6. CASE TxLock
  BY <1>6, Taken DEF TxLock
<1>7. CASE Isr
  BY <1>7, StepApart DEF Isr, IsrEnter, IsrRead, IsrMask
<1>8. CASE Dpc
  <2>1. CASE DpcLock /\ net.up
    BY <2>1, Taken DEF DpcLock
  <2>2. CASE DpcLock /\ ~net.up
    BY <2>2, StepApart DEF DpcLock
  <2>3. ASSUME NEW fatal \in BOOLEAN, DpcWork(fatal) PROVE LockInv'
    BY <2>3, StepApart DEF DpcWork, AfterWork
  <2>4. CASE DpcEnd
    <3>1. lock = "dpc"
      BY <2>4 DEF DpcEnd, LockInv
    <3> QED  BY <2>4, <3>1, Left DEF DpcEnd
  <2> QED  BY <1>8, <2>1, <2>2, <2>3, <2>4 DEF Dpc
<1>9. UNCHANGED vars => UNCHANGED <<lock, pc>>
  BY DEF vars
<1> QED  BY <1>0, <1>1, <1>2, <1>3, <1>4, <1>5, <1>6, <1>7, <1>8, <1>9 DEF Next

(***************************************************************************)
(* Queue, ring, chip and device.                                           *)
(***************************************************************************)
LEMMA Sizes ==
    /\ Ring \in Nat /\ RxRing \in Nat /\ Quota \in Nat /\ Thresh \in Nat
    /\ HiWat \in Nat /\ RecThresh \in Nat
    /\ HiWat \div 2 \in Int
  BY SizesAssumption

QueueInv ==
    /\ txq \in 0..Thresh /\ txqState \in BOOLEAN
    /\ ring \in [posted : Nat, sent : Nat] /\ ring.posted + ring.sent <= Ring
    /\ frames \in 0..RecThresh

LEMMA QueueInit == Init => QueueInv
<1>1. Init => txqState \in BOOLEAN
  BY DEF Init
<1>2. Init => /\ txq \in 0..Thresh /\ frames \in 0..RecThresh
              /\ ring \in [posted : Nat, sent : Nat] /\ ring.posted + ring.sent <= Ring
  BY Sizes DEF Init
<1> QED  BY <1>1, <1>2 DEF QueueInv

(* chiptx is called with a free descriptor, and the stack queues below the *)
(* threshold.                                                              *)
LEMMA QueueStep == QueueInv /\ [Next]_vars => QueueInv'
<1> SUFFICES ASSUME QueueInv, [Next]_vars PROVE QueueInv'
  OBVIOUS
<1> USE Sizes
<1>0. CASE UNCHANGED txVars
  BY <1>0 DEF QueueInv, txVars
<1>1. CASE Probe \/ Remove \/ HwReceive \/ HwError
  BY <1>0, <1>1 DEF Probe, ProbeStep, ProbeDone, ProbeFail, Remove, HwReceive, HwError
<1>2. CASE HwSend
  <2>1. ring' \in [posted : Nat, sent : Nat] /\ ring'.posted + ring'.sent <= Ring
    BY <1>2 DEF HwSend, QueueInv
  <2> QED  BY <1>2, <2>1 DEF HwSend, QueueInv
<1>3. ASSUME NEW c \in Controllers, Control(c) PROVE QueueInv'
  <2>1. CASE Up(c) \/ Reset(c) \/ KillTxAndFlush(c)
    <3>1. txq' \in {0, txq} /\ UNCHANGED <<txqState, frames>>
      BY <2>1 DEF Up, Reset, KillTxAndFlush
    <3>2. ring' = ring \/ ring' = [posted |-> 0, sent |-> 0]
      BY <2>1 DEF Up, ChipInit, Reset, KillTxAndFlush
    <3> QED  BY <3>1, <3>2 DEF QueueInv
  <2>2. CASE Down(c) \/ KillDpc(c) \/ Relock(c)
    BY <1>0, <2>2 DEF Down, KillDpc, Relock
  <2> QED  BY <1>3, <2>1, <2>2 DEF Control
<1>4. CASE Transmit
  <2>1. CASE StartQueue
    BY <2>1 DEF StartQueue, QueueInv
  <2>2. CASE StartCall \/ StartDrop \/ StartSched
    BY <1>0, <2>2 DEF StartCall, StartDrop, StartSched
  <2> QED  BY <1>4, <2>1, <2>2 DEF Transmit
<1>5. ASSUME NEW t \in {"dpc", "txt"}, Start(t) \/ Send(t) PROVE QueueInv'
  <2>1. CASE SendOne(t)
    <3>1. frames' \in 0..RecThresh
      BY <2>1 DEF SendOne, ChipTx, QueueInv
    <3>2. ring' \in [posted : Nat, sent : Nat] /\ ring'.posted + ring'.sent <= Ring
      BY <2>1 DEF SendOne, ChipTx, TxAvail, QueueInv
    <3> QED  BY <2>1, <3>1, <3>2 DEF SendOne, QueueInv
  <2>2. CASE SendClear(t)
    BY <2>2 DEF SendClear, QueueInv
  <2>3. CASE Start(t) \/ SendEnd(t)
    BY <1>0, <2>3 DEF Start, SendEnd
  <2> QED  BY <1>5, <2>1, <2>2, <2>3 DEF Send
<1>6. CASE TxLock \/ Isr
  BY <1>0, <1>6 DEF TxLock, Isr, IsrEnter, IsrRead, IsrMask
<1>7. CASE Dpc
  <2>1. ASSUME NEW fatal \in BOOLEAN, DpcWork(fatal) PROVE QueueInv'
    <3>1. /\ ring' \in {ring, [ring EXCEPT !.sent = 0], [posted |-> 0, sent |-> 0]}
          /\ UNCHANGED <<txq, txqState, frames>>
      BY <2>1 DEF DpcWork, ChipInit, Reclaimed
    <3> QED  BY <3>1 DEF QueueInv
  <2>2. CASE DpcLock \/ DpcEnd
    BY <1>0, <2>2 DEF DpcLock, DpcEnd
  <2> QED  BY <1>7, <2>1, <2>2 DEF Dpc
<1>8. UNCHANGED vars => UNCHANGED txVars
  BY DEF vars
<1> QED  BY <1>0, <1>1, <1>2, <1>3, <1>4, <1>5, <1>6, <1>7, <1>8 DEF Next, Hardware

ChipTyped ==
    /\ rxd \in 0..RxRing /\ engine \in BOOLEAN /\ intrs \in BOOLEAN
    /\ cond \subseteq Events /\ chint \subseteq Events /\ events \subseteq Events
    /\ resched \in BOOLEAN
    /\ sched \subseteq {"dpc", "txt"}

chipVars == <<chip, dpcVars, sched>>

LEMMA ChipTypedInit == Init => ChipTyped
<1>1. Init => rxd \in 0..RxRing
  BY Sizes DEF Init
<1>2. Init => /\ engine \in BOOLEAN /\ intrs \in BOOLEAN /\ resched \in BOOLEAN
              /\ cond \subseteq Events /\ chint \subseteq Events /\ events \subseteq Events
              /\ sched \subseteq {"dpc", "txt"}
  BY DEF Init
<1> QED  BY <1>1, <1>2 DEF ChipTyped

LEMMA ChipTypedStep == ChipTyped /\ [Next]_vars => ChipTyped'
<1> SUFFICES ASSUME ChipTyped, [Next]_vars PROVE ChipTyped'
  OBVIOUS
<1> USE Sizes
<1>0. CASE UNCHANGED chipVars
  BY <1>0 DEF ChipTyped, chipVars, chip, dpcVars
<1>1. CASE Probe \/ Remove
  BY <1>0, <1>1 DEF Probe, ProbeStep, ProbeDone, ProbeFail, Remove, chipVars
<1>2. CASE Hardware
  <2>1. rxd' \in 0..RxRing
    BY <1>2 DEF Hardware, HwSend, HwReceive, HwError, ChipTyped
  <2>2. cond' \subseteq Events
    BY <1>2 DEF Hardware, HwSend, HwReceive, HwError, ChipTyped, Events
  <2>3. UNCHANGED <<engine, chint, intrs, dpcVars, sched>>
    BY <1>2 DEF Hardware, HwSend, HwReceive, HwError
  <2> QED  BY <2>1, <2>2, <2>3 DEF ChipTyped, dpcVars
<1>3. ASSUME NEW c \in Controllers, Control(c) PROVE ChipTyped'
  <2>1. CASE Up(c)
    <3>1. rxd' = rxd \/ rxd' = 0
      BY <2>1 DEF Up, ChipInit
    <3>2. engine' \in BOOLEAN /\ intrs' \in BOOLEAN
      BY <2>1 DEF Up, ChipInit, ChipTyped
    <3>3. UNCHANGED <<cond, chint, dpcVars, sched>>
      BY <2>1 DEF Up
    <3> QED  BY <3>1, <3>2, <3>3 DEF ChipTyped, dpcVars
  <2>2. CASE Down(c)
    BY <2>2 DEF Down, ChipTyped, dpcVars
  <2>3. CASE Reset(c)
    <3>1. rxd' = 0 /\ sched' = sched
      BY <2>3 DEF Reset
    <3>2. /\ engine' \in BOOLEAN /\ intrs' \in BOOLEAN /\ resched' \in BOOLEAN
          /\ cond' \subseteq Events /\ chint' \subseteq Events /\ events' \subseteq Events
      BY <2>3 DEF Reset, ChipTyped
    <3> QED  BY <3>1, <3>2 DEF ChipTyped
  <2>4. CASE KillDpc(c) \/ Relock(c) \/ KillTxAndFlush(c)
    BY <1>0, <2>4 DEF KillDpc, Relock, KillTxAndFlush, chipVars
  <2> QED  BY <1>3, <2>1, <2>2, <2>3, <2>4 DEF Control
<1>4. CASE Transmit
  BY <1>4 DEF Transmit, StartCall, StartDrop, StartQueue, StartSched, ChipTyped, chip, dpcVars
<1>5. ASSUME NEW t \in {"dpc", "txt"}, Start(t) \/ Send(t) PROVE ChipTyped'
  BY <1>5 DEF Start, Send, SendClear, SendOne, SendEnd, ChipTyped, chip, dpcVars
<1>6. CASE TxLock
  BY <1>0, <1>6 DEF TxLock, chipVars
<1>7. CASE Isr
  BY <1>7 DEF Isr, IsrEnter, IsrRead, IsrMask, NewBits, ChipTyped, chip, dpcVars
<1>8. CASE Dpc
  <2>1. ASSUME NEW fatal \in BOOLEAN, DpcWork(fatal) PROVE ChipTyped'
    <3>1. /\ chint' \subseteq chint /\ resched' \in BOOLEAN /\ UNCHANGED <<cond, events, sched>>
      BY <2>1 DEF DpcWork, RxAgain, Receives
    <3>2. rxd' = 0 \/ rxd' = RxLeft(fatal)
      BY <2>1 DEF DpcWork, ChipInit
    <3>3. rxd' \in 0..RxRing
      BY <3>2 DEF RxLeft, Receives, ChipTyped
    <3>4. engine' \in BOOLEAN /\ intrs' \in BOOLEAN
      BY <2>1 DEF DpcWork, ChipInit, ChipTyped
    <3> QED  BY <3>1, <3>3, <3>4 DEF ChipTyped
  <2>2. CASE DpcLock
    BY <2>2 DEF DpcLock, NewBits, ChipTyped, dpcVars
  <2>3. CASE DpcEnd
    BY <2>3 DEF DpcEnd, ChipTyped
  <2> QED  BY <1>8, <2>1, <2>2, <2>3 DEF Dpc
<1>9. UNCHANGED vars => UNCHANGED chipVars
  BY DEF vars, chipVars
<1> QED  BY <1>0, <1>1, <1>2, <1>3, <1>4, <1>5, <1>6, <1>7, <1>8, <1>9 DEF Next

(* The device, and what et_probe holds of it: nobody brings it up before   *)
(* et_probe is done.                                                       *)
DeviceInv ==
    /\ life \in {"probing", "live", "failed", "gone"}
    /\ held \subseteq All
    /\ net \in [up : BOOLEAN, stopped : BOOLEAN, present : BOOLEAN]
    /\ life = "probing" => ~net.up

LEMMA DeviceInit == Init => DeviceInv
  BY DEF Init, DeviceInv

LEMMA DeviceStep == QueueInv /\ DeviceInv /\ [Next]_vars => DeviceInv'
<1> SUFFICES ASSUME QueueInv, DeviceInv, [Next]_vars PROVE DeviceInv'
  OBVIOUS
<1>0. CASE UNCHANGED <<resVars, net>>
  BY <1>0 DEF DeviceInv, resVars, All, Acquired
<1>f. held \subseteq All => Freed(held) \subseteq All
  BY DEF Freed, EtcDetached, ChipDetached
<1>a. \A n \in 1..Len(Resources) : Acquired(n) \subseteq All
  <2>1. Len(Resources) \in Nat
    BY DEF Resources
  <2> QED  BY <2>1 DEF Acquired, All
<1>1. CASE Probe \/ Remove
  <2>1. held' \subseteq All
    BY <1>1, <1>a, <1>f DEF Probe, ProbeStep, ProbeDone, ProbeFail, Remove, DeviceInv
  <2> QED  BY <1>1, <2>1 DEF Probe, ProbeStep, ProbeDone, ProbeFail, Remove, DeviceInv,
              All, Acquired
<1>2. ASSUME NEW c \in Controllers, Control(c) PROVE DeviceInv'
  <2>1. CASE Up(c)
    BY <2>1 DEF Up, Controls, DeviceInv, resVars, All, Acquired
  <2>2. CASE Down(c) \/ Reset(c)
    BY <2>2 DEF Down, Reset, DeviceInv, resVars, All, Acquired
  <2>3. CASE KillDpc(c) \/ Relock(c) \/ KillTxAndFlush(c)
    BY <1>0, <2>3 DEF KillDpc, Relock, KillTxAndFlush
  <2> QED  BY <1>2, <2>1, <2>2, <2>3 DEF Control
<1>3. ASSUME NEW t \in {"dpc", "txt"}, Start(t) \/ Send(t) PROVE DeviceInv'
  <2>1. CASE SendEnd(t)
    <3>1. FlowControl = TRUE \/ FlowControl = FALSE
      <4>1. CASE net.stopped
        BY <4>1 DEF FlowControl
      <4>2. CASE ~net.stopped
        BY <4>2 DEF FlowControl
      <4> QED  BY <4>1, <4>2
    <3> QED  BY <2>1, <3>1 DEF SendEnd, DeviceInv, resVars, All, Acquired
  <2>2. CASE Start(t) \/ SendClear(t) \/ SendOne(t)
    BY <1>0, <2>2 DEF Start, SendClear, SendOne
  <2> QED  BY <1>3, <2>1, <2>2 DEF Send
<1>4. CASE Transmit \/ TxLock \/ Isr
  BY <1>0, <1>4 DEF Transmit, StartCall, StartDrop, StartQueue, StartSched, TxLock,
     Isr, IsrEnter, IsrRead, IsrMask
<1>5. CASE Dpc \/ Hardware
  BY <1>0, <1>5 DEF Dpc, DpcLock, DpcWork, DpcEnd, Hardware, HwSend, HwReceive, HwError
<1>6. UNCHANGED vars => UNCHANGED <<resVars, net>>
  BY DEF vars
<1> QED  BY <1>0, <1>1, <1>2, <1>3, <1>4, <1>5, <1>6 DEF Next

(* Every state of the driver is well typed, ET_LOCK is held by exactly the *)
(* context that is inside, and no descriptor is posted that the ring does  *)
(* not have.                                                               *)
THEOREM DriverTyped == Spec => []TypeOK
<1>1. LockInv /\ QueueInv /\ ChipTyped /\ DeviceInv => TypeOK
  BY DEF LockInv, QueueInv, ChipTyped, DeviceInv, TypeOK
<1> QED  BY <1>1, LockInit, LockStep, QueueInit, QueueStep, ChipTypedInit, ChipTypedStep,
            DeviceInit, DeviceStep, PTL DEF Spec

(***************************************************************************)
(* Interrupts                                                              *)
(***************************************************************************)
LEMMA DeafInit == Init => NotDeaf
  BY DEF Init, NotDeaf

LEMMA DeafStep == LockInv /\ DeviceInv /\ NotDeaf /\ [Next]_vars => NotDeaf'
<1> SUFFICES ASSUME LockInv, DeviceInv, NotDeaf, [Next]_vars PROVE NotDeaf'
  OBVIOUS
<1> USE ControllerNames
<1>0. CASE UNCHANGED <<life, net, intrs, sched, pc>>
  BY <1>0 DEF NotDeaf
<1>d. "dpc" \in Contexts
  OBVIOUS
<1>1. CASE Probe \/ Remove
  BY <1>1 DEF Probe, ProbeStep, ProbeDone, ProbeFail, Remove, NotDeaf, DeviceInv, chip
<1>2. ASSUME NEW c \in Controllers, Control(c) PROVE NotDeaf'
  <2>0. c # "dpc"
    OBVIOUS
  <2>1. CASE Up(c)
    <3>1. CASE net.up
      <4>1. UNCHANGED <<life, intrs, sched, pc>>
        BY <2>1, <3>1 DEF Up, resVars
      <4> QED  BY <3>1, <4>1 DEF NotDeaf
    <3>2. CASE ~net.up
      BY <2>1, <3>2 DEF Up, ChipInit, NotDeaf
    <3> QED  BY <3>1, <3>2
  <2>2. CASE Down(c) \/ Reset(c)
    BY <2>2 DEF Down, Reset, NotDeaf, DeviceInv
  <2>3. CASE KillDpc(c) \/ Relock(c) \/ KillTxAndFlush(c)
    <3>1. pc'["dpc"] = pc["dpc"] /\ UNCHANGED <<life, net, intrs, sched>>
      BY <2>0, <2>3 DEF KillDpc, Relock, KillTxAndFlush, LockInv, chip, resVars
    <3> QED  BY <3>1 DEF NotDeaf
  <2> QED  BY <1>2, <2>1, <2>2, <2>3 DEF Control
<1>3. CASE Transmit \/ TxLock
  <2>1. pc'["dpc"] = pc["dpc"] /\ UNCHANGED <<life, net, intrs>> /\ sched \subseteq sched'
    BY <1>3 DEF Transmit, StartCall, StartDrop, StartQueue, StartSched, TxLock, LockInv,
       chip, resVars
  <2> QED  BY <2>1 DEF NotDeaf
<1>4. ASSUME NEW t \in {"dpc", "txt"}, Start(t) \/ Send(t) PROVE NotDeaf'
  <2>1. CASE Start(t)
    <3>1. t = "dpc" => pc'["dpc"] = "wait"
      BY <2>1, <1>d DEF Start, LockInv
    <3>2. t = "txt" => pc'["dpc"] = pc["dpc"] /\ ("dpc" \in sched => "dpc" \in sched')
      BY <2>1 DEF Start, LockInv
    <3> QED  BY <2>1, <3>1, <3>2 DEF Start, NotDeaf, chip, resVars
  <2>2. CASE SendClear(t) \/ SendOne(t)
    BY <1>0, <2>2 DEF SendClear, SendOne, chip, resVars
  <2>3. CASE SendEnd(t)
    <3>1. t = "dpc" => pc'["dpc"] = "end"
      BY <2>3, <1>d DEF SendEnd, LockInv
    <3>2. t = "txt" => pc'["dpc"] = pc["dpc"]
      BY <2>3 DEF SendEnd, LockInv
    <3>3. net'.up = net.up
      BY <2>3 DEF SendEnd, DeviceInv
    <3> QED  BY <2>3, <3>1, <3>2, <3>3 DEF SendEnd, NotDeaf, chip, resVars
  <2> QED  BY <1>4, <2>1, <2>2, <2>3 DEF Send
<1>5. CASE Isr
  <2>1. CASE IsrMask
    BY <2>1 DEF IsrMask, NotDeaf
  <2>2. CASE IsrEnter \/ IsrRead
    <3>1. pc'["dpc"] = pc["dpc"] /\ UNCHANGED <<life, net, intrs, sched>>
      BY <2>2 DEF IsrEnter, IsrRead, LockInv, chip, resVars
    <3> QED  BY <3>1 DEF NotDeaf
  <2> QED  BY <1>5, <2>1, <2>2 DEF Isr
<1>6. CASE Dpc
  <2>1. CASE DpcLock /\ net.up
    <3>1. pc'["dpc"] = "work"
      BY <2>1, <1>d DEF DpcLock, LockInv
    <3> QED  BY <3>1 DEF NotDeaf
  <2>2. CASE DpcLock /\ ~net.up
    BY <2>2 DEF DpcLock, NotDeaf
  <2>3. ASSUME NEW fatal \in BOOLEAN, DpcWork(fatal) PROVE NotDeaf'
    <3>1. pc'["dpc"] \in {"send", "end"}
      BY <2>3, <1>d DEF DpcWork, AfterWork, LockInv
    <3> QED  BY <3>1 DEF NotDeaf
  <2>4. CASE DpcEnd
    BY <2>4 DEF DpcEnd, NotDeaf
  <2> QED  BY <1>6, <2>1, <2>2, <2>3, <2>4 DEF Dpc
<1>7. CASE Hardware
  BY <1>0, <1>7 DEF Hardware, HwSend, HwReceive, HwError, resVars
<1>8. UNCHANGED vars => UNCHANGED <<life, net, intrs, sched, pc>>
  BY DEF vars, chip, resVars
<1> QED  BY <1>0, <1>1, <1>2, <1>3, <1>4, <1>5, <1>6, <1>7, <1>8 DEF Next

(* An interface that is up with its interrupts off has a dpc run to come   *)
(* that turns them on again, whichever controls, tasklets and handlers     *)
(* cross, also where et_down overtakes a running handler.                  *)
THEOREM NeverDeaf == Spec => []NotDeaf
<1> QED  BY LockInit, LockStep, QueueInit, QueueStep, DeviceInit, DeviceStep, DeafInit, DeafStep,
            PTL DEF Spec

(***************************************************************************)
(* Probe and remove                                                        *)
(***************************************************************************)
\* How far et_probe has come, told by what it holds.
LEMMA AcquiredUpTo ==
  ASSUME NEW n \in 0..13
  PROVE  /\ "osl" \in Acquired(n) <=> n >= 1
         /\ "dev" \in Acquired(n) <=> n >= 2
         /\ "regs" \in Acquired(n) <=> n >= 3
         /\ "etc" \in Acquired(n) <=> n >= 4
         /\ "ch" \in Acquired(n) <=> n >= 5
         /\ "sih" \in Acquired(n) <=> n >= 6
         /\ "dma" \in Acquired(n) <=> n >= 7
         /\ "robo" \in Acquired(n) <=> n >= 8
         /\ "fa" \in Acquired(n) <=> n >= 9
         /\ "ctf" \in Acquired(n) <=> n >= 10
         /\ "irq" \in Acquired(n) <=> n >= 11
         /\ "list" \in Acquired(n) <=> n >= 12
         /\ "netdev" \in Acquired(n) <=> n >= 13
<1>0. \A x : x \in Acquired(n) <=> \E i \in 1..n : x = Resources[i]
  BY DEF Acquired
<1>1. "osl" \in Acquired(n) <=> n >= 1
  BY <1>0 DEF Resources
<1>2. "dev" \in Acquired(n) <=> n >= 2
  BY <1>0 DEF Resources
<1>3. "regs" \in Acquired(n) <=> n >= 3
  BY <1>0 DEF Resources
<1>4. "etc" \in Acquired(n) <=> n >= 4
  BY <1>0 DEF Resources
<1>5. "ch" \in Acquired(n) <=> n >= 5
  BY <1>0 DEF Resources
<1>6. "sih" \in Acquired(n) <=> n >= 6
  BY <1>0 DEF Resources
<1>7. "dma" \in Acquired(n) <=> n >= 7
  BY <1>0 DEF Resources
<1>8. "robo" \in Acquired(n) <=> n >= 8
  BY <1>0 DEF Resources
<1>9. "fa" \in Acquired(n) <=> n >= 9
  BY <1>0 DEF Resources
<1>10. "ctf" \in Acquired(n) <=> n >= 10
  BY <1>0 DEF Resources
<1>11. "irq" \in Acquired(n) <=> n >= 11
  BY <1>0 DEF Resources
<1>12. "list" \in Acquired(n) <=> n >= 12
  BY <1>0 DEF Resources
<1>13. "netdev" \in Acquired(n) <=> n >= 13
  BY <1>0 DEF Resources
<1> QED  BY <1>1, <1>2, <1>3, <1>4, <1>5, <1>6, <1>7, <1>8, <1>9, <1>10, <1>11, <1>12, <1>13

LEMMA AllAcquired ==
  /\ All = Acquired(13)
  /\ All = {"osl", "dev", "regs", "etc", "ch", "sih", "dma", "robo", "fa", "ctf", "irq",
            "list", "netdev"}
<1>1. Len(Resources) = 13
  BY DEF Resources
<1>2. All = Acquired(13)
  BY <1>1 DEF All
<1>3. \A x : x \in All <=> \E i \in 1..13 : x = Resources[i]
  BY <1>2 DEF Acquired
<1> QED  BY <1>2, <1>3 DEF Resources

\* While et_probe runs it holds a prefix of its resources, then all of them.
ProbeInv ==
    /\ life \in {"probing", "live", "failed", "gone"}
    /\ life = "probing" => \E n \in 0..13 : held = Acquired(n)
    /\ life = "live" => held = All
    /\ ProbeUndone

\* et_free gives back whatever et_probe holds once there is a device.
LEMMA FreeAll ==
  ASSUME NEW n \in 2..13 PROVE Freed(Acquired(n)) = {}
<1>1. Acquired(n) \subseteq All
  BY AllAcquired DEF Acquired
<1> QED  BY <1>1, AcquiredUpTo, AllAcquired DEF Freed, EtcDetached, ChipDetached

LEMMA ProbeInit == Init => ProbeInv
<1>1. Acquired(0) = {}
  BY DEF Acquired
<1> QED  BY <1>1 DEF Init, ProbeInv, ProbeUndone

LEMMA ProbeStepInv == ProbeInv /\ [Next]_vars => ProbeInv'
<1> SUFFICES ASSUME ProbeInv, [Next]_vars PROVE ProbeInv'
  OBVIOUS
<1>0. CASE UNCHANGED resVars
  BY <1>0 DEF resVars, ProbeInv, ProbeUndone
<1>1. CASE ProbeStep
  <2>1. \E n \in 1..13 : held' = Acquired(n)
    BY <1>1 DEF ProbeStep, Resources
  <2> QED  BY <1>1, <2>1 DEF ProbeStep, ProbeInv, ProbeUndone
<1>2. CASE ProbeDone
  BY <1>2 DEF ProbeDone, ProbeInv, ProbeUndone
<1>3. CASE ProbeFail
  <2>1. PICK n \in 0..13 : held = Acquired(n)
    BY <1>3 DEF ProbeFail, ProbeInv
  <2>2. CASE "dev" \notin held
    <3>1. held \subseteq {"osl"}
      BY <2>1, <2>2, AcquiredUpTo, AllAcquired DEF Acquired
    <3> QED  BY <1>3, <2>2, <3>1 DEF ProbeFail, ProbeInv, ProbeUndone
  <2>3. CASE "dev" \in held
    <3>1. n \in 2..13
      BY <2>1, <2>3, AcquiredUpTo
    <3> QED  BY <1>3, <2>1, <2>3, <3>1, FreeAll DEF ProbeFail, ProbeInv, ProbeUndone
  <2> QED  BY <2>2, <2>3
<1>4. CASE Remove
  BY <1>4, FreeAll, AllAcquired DEF Remove, ProbeInv, ProbeUndone
<1>5. CASE \E c \in Controllers : Control(c)
  BY <1>0, <1>5 DEF Control, Up, Down, KillDpc, Relock, KillTxAndFlush, Reset, resVars
<1>6. CASE Transmit \/ TxLock
  BY <1>0, <1>6 DEF Transmit, StartCall, StartDrop, StartQueue, StartSched, TxLock, resVars
<1>7. CASE \E t \in {"dpc", "txt"} : Start(t) \/ Send(t)
  BY <1>0, <1>7 DEF Start, Send, SendClear, SendOne, SendEnd, resVars
<1>8. CASE Isr \/ Dpc
  BY <1>0, <1>8 DEF Isr, IsrEnter, IsrRead, IsrMask, Dpc, DpcLock, DpcWork, DpcEnd, resVars
<1>9. CASE Hardware
  BY <1>0, <1>9 DEF Hardware, HwSend, HwReceive, HwError, resVars
<1>10. UNCHANGED vars => UNCHANGED resVars
  BY DEF vars, resVars
<1> QED  BY <1>0, <1>1, <1>2, <1>3, <1>4, <1>5, <1>6, <1>7, <1>8, <1>9, <1>10 DEF Next, Probe

\* A probe that fails at any step, and a removal, give back everything.
THEOREM ProbeLeavesNothing == Spec => []ProbeUndone
<1>1. ProbeInv => ProbeUndone
  BY DEF ProbeInv
<1> QED  BY <1>1, ProbeInit, ProbeStepInv, PTL DEF Spec

(***************************************************************************)
(* Events: none is lost between the chip, the handler and the dpc.         *)
(***************************************************************************)
\* The control paths exclude each other: the stack's and the ioctls' by the
\* rtnl lock, the power management's if there is no other.
OneAtATime == "pm" \notin Controllers \/ Controllers = {"pm"}

Active == pc["isr"] # "idle" \/ "dpc" \in sched \/ pc["dpc"] # "idle"

\* et_down has the interface to itself from the flag to the reset, and once
\* it has killed the dpc neither that nor the handler runs until et_up.
DownInv ==
    /\ \A c, d \in Controllers : pc[c] # "idle" /\ pc[d] # "idle" => c = d
    /\ \A c \in Controllers : pc[c] # "idle" => ~net.up
    /\ Active /\ ~net.up => \E c \in Controllers : pc[c] = "killdpc"

LEMMA ControlsAlone ==
  ASSUME OneAtATime, NEW c \in Controllers, Controls(c)
  PROVE  \A d \in Controllers : pc[d] = "idle"
  BY DEF OneAtATime, Controls, Rtnl

LEMMA DownInit == Init => DownInv
  BY ControllerNames DEF Init, DownInv, Active

LEMMA DownKept ==
  ASSUME DownInv, net'.up = net.up, \A c \in Controllers : pc'[c] = pc[c],
         Active' => Active \/ net.up
  PROVE  DownInv'
  BY DEF DownInv

LEMMA DownStep ==
  ASSUME OneAtATime, ~SlowIsr, LockInv, DeviceInv, DownInv, [Next]_vars
  PROVE  DownInv'
<1> USE ControllerNames
<1>0. CASE UNCHANGED <<net, pc, sched>>
  BY <1>0, DownKept DEF Active
<1>1. CASE Probe \/ Remove \/ Hardware
  BY <1>0, <1>1 DEF Probe, ProbeStep, ProbeDone, ProbeFail, Remove, Hardware, HwSend,
     HwReceive, HwError
<1>2. ASSUME NEW c \in Controllers, Control(c) PROVE DownInv'
  <2>0. pc \in [Contexts -> Steps] /\ c \notin {"isr", "dpc"}
    BY DEF LockInv
  <2>1. CASE Up(c)
    <3>1. (\A d \in Controllers : pc[d] = "idle") /\ pc' = pc
      BY <1>2, <2>1, ControlsAlone DEF Up
    <3>2. net'.up
      BY <2>1 DEF Up, DeviceInv
    <3> QED  BY <3>1, <3>2 DEF DownInv
  <2>2. CASE Down(c)
    <3>1. \A d \in Controllers : pc[d] = "idle"
      BY <1>2, <2>2, ControlsAlone DEF Down
    <3>2. ~net'.up /\ pc'[c] = "killdpc" /\ \A d \in Controllers \ {c} : pc'[d] = "idle"
      BY <2>0, <2>2, <3>1 DEF Down, DeviceInv
    <3> QED  BY <3>2 DEF DownInv
  <2>3. CASE KillDpc(c)
    <3>1. ~Active'
      BY <2>0, <2>3 DEF KillDpc, Active
    <3>2. /\ UNCHANGED net /\ pc'[c] # "idle" /\ pc[c] # "idle"
          /\ \A d \in Controllers \ {c} : pc'[d] = pc[d]
      BY <2>0, <2>3 DEF KillDpc
    <3> QED  BY <3>1, <3>2 DEF DownInv
  <2>4. CASE Relock(c) \/ KillTxAndFlush(c) \/ Reset(c)
    <3>1. pc[c] \notin {"idle", "killdpc"} /\ \A d \in Controllers \ {c} : pc'[d] = pc[d]
      BY <2>0, <2>4 DEF Relock, KillTxAndFlush, Reset
    <3>2. UNCHANGED sched /\ pc'["isr"] = pc["isr"] /\ pc'["dpc"] = pc["dpc"]
      BY <2>0, <2>4 DEF Relock, KillTxAndFlush, Reset
    <3>3. ~net.up /\ ~net'.up
      BY <2>4, <3>1 DEF Relock, KillTxAndFlush, Reset, DownInv, DeviceInv
    <3>4. ~Active
      BY <3>1, <3>3 DEF DownInv
    <3> QED  BY <3>1, <3>2, <3>3, <3>4 DEF DownInv, Active
  <2> QED  BY <1>2, <2>1, <2>2, <2>3, <2>4 DEF Control
<1>3. CASE Transmit \/ TxLock
  <2>1. /\ \A a \in Contexts \ {"xmit", "txt"} : pc'[a] = pc[a]
        /\ UNCHANGED net /\ sched' \in {sched, sched \cup {"txt"}}
    BY <1>3 DEF Transmit, StartCall, StartDrop, StartQueue, StartSched, TxLock, LockInv
  <2> QED  BY <2>1, DownKept DEF Active
<1>4. ASSUME NEW t \in {"dpc", "txt"}, Start(t) \/ Send(t) PROVE DownInv'
  <2>1. /\ \A a \in Contexts \ {t} : pc'[a] = pc[a]
        /\ sched' \in {sched, sched \ {t}} /\ (t = "dpc" => t \in sched \/ pc[t] # "idle")
    BY <1>4 DEF Start, Send, SendClear, SendOne, SendEnd, LockInv
  <2>2. net'.up = net.up
    BY <1>4 DEF Start, Send, SendClear, SendOne, SendEnd, DeviceInv
  <2> QED  BY <2>1, <2>2, DownKept DEF Active
<1>5. CASE Isr
  <2>1. /\ \A a \in Contexts \ {"isr"} : pc'[a] = pc[a]
        /\ UNCHANGED net /\ (pc["isr"] = "idle" => net.up /\ sched' = sched)
    BY <1>5 DEF Isr, IsrEnter, IsrRead, IsrMask, LockInv
  <2> QED  BY <2>1, DownKept DEF Active
<1>6. CASE Dpc
  <2>1. (\A a \in Contexts \ {"dpc"} : pc'[a] = pc[a]) /\ UNCHANGED net /\ pc["dpc"] # "idle"
    BY <1>6 DEF Dpc, DpcLock, DpcWork, DpcEnd, LockInv
  <2> QED  BY <2>1, DownKept DEF Active
<1>7. UNCHANGED vars => UNCHANGED <<net, pc, sched>>
  BY DEF vars
<1> QED  BY <1>0, <1>1, <1>2, <1>3, <1>4, <1>5, <1>6, <1>7 DEF Next

\* Handler and dpc take turns, and the dpc's events are in the persistent
\* copy until it is done with them.
TurnInv ==
    /\ intrs \/ pc["isr"] # "idle" => "dpc" \notin sched /\ pc["dpc"] = "idle"
    /\ pc["dpc"] # "idle" => "dpc" \notin sched
    /\ DpcToCome => events \subseteq chint

LEMMA TurnInit == Init => TurnInv
  BY ControllerNames DEF Init, TurnInv, DpcToCome

LEMMA TurnKept ==
  ASSUME TurnInv, UNCHANGED <<chint, intrs, events>>,
         pc'["isr"] = pc["isr"], pc'["dpc"] = pc["dpc"],
         "dpc" \in sched' <=> "dpc" \in sched
  PROVE  TurnInv'
  BY DEF TurnInv, DpcToCome

LEMMA TurnStep ==
  ASSUME OneAtATime, LockInv, ChipTyped, DownInv, TurnInv, [Next]_vars
  PROVE  TurnInv'
<1> USE ControllerNames
<1>p. pc \in [Contexts -> Steps] /\ {"isr", "dpc"} \subseteq Contexts
  BY DEF LockInv
<1>0. CASE UNCHANGED <<chint, intrs, events, pc, sched>>
  BY <1>0, TurnKept
<1>1. CASE Probe \/ Remove \/ Hardware
  BY <1>0, <1>1 DEF Probe, ProbeStep, ProbeDone, ProbeFail, Remove, Hardware, HwSend,
     HwReceive, HwError, chip, dpcVars
<1>2. ASSUME NEW c \in Controllers, Control(c) PROVE TurnInv'
  <2>1. CASE Up(c) /\ net.up
    BY <1>0, <2>1 DEF Up, dpcVars
  <2>2. CASE Up(c) /\ ~net.up
    <3>1. \A d \in Controllers : pc[d] = "idle"
      BY <1>2, <2>2, ControlsAlone DEF Up
    <3>2. ~Active
      BY <2>2, <3>1 DEF DownInv
    <3>3. UNCHANGED <<chint, events, pc, sched>>
      BY <2>2 DEF Up, dpcVars
    <3> QED  BY <3>2, <3>3 DEF Active, TurnInv, DpcToCome
  <2>3. CASE Down(c) \/ Reset(c)
    <3>1. /\ ~intrs' /\ UNCHANGED sched /\ events' \in {events, {}}
          /\ pc'["isr"] = pc["isr"] /\ pc'["dpc"] = pc["dpc"]
          /\ events' = {} \/ UNCHANGED <<events, chint>>
      BY <1>p, <2>3 DEF Down, Reset, dpcVars
    <3> QED  BY <3>1 DEF TurnInv, DpcToCome
  <2>4. CASE KillDpc(c) \/ Relock(c) \/ KillTxAndFlush(c)
    BY <1>p, <2>4, TurnKept DEF KillDpc, Relock, KillTxAndFlush, chip, dpcVars
  <2> QED  BY <1>2, <2>1, <2>2, <2>3, <2>4 DEF Control
<1>3. CASE Transmit \/ TxLock
  BY <1>p, <1>3, TurnKept DEF Transmit, StartCall, StartDrop, StartQueue, StartSched, TxLock,
     chip, dpcVars
<1>4. CASE Start("txt") \/ Send("txt")
  BY <1>p, <1>4, TurnKept DEF Start, Send, SendClear, SendOne, SendEnd, chip, dpcVars
<1>5. CASE Start("dpc")
  <2>1. /\ UNCHANGED <<chint, intrs, events>> /\ pc'["isr"] = pc["isr"] /\ pc'["dpc"] = "wait"
        /\ "dpc" \in sched /\ "dpc" \notin sched'
    BY <1>p, <1>5 DEF Start, chip, dpcVars
  <2> QED  BY <2>1 DEF TurnInv, DpcToCome
<1>6. CASE Send("dpc")
  <2>1. /\ UNCHANGED <<chint, intrs, events, sched>> /\ pc'["isr"] = pc["isr"]
        /\ pc["dpc"] = "send" /\ pc'["dpc"] \in {"send", "end"}
    BY <1>p, <1>6 DEF Send, SendClear, SendOne, SendEnd, chip, dpcVars
  <2> QED  BY <2>1 DEF TurnInv, DpcToCome
<1>7. CASE Isr
  <2>1. pc'["dpc"] = pc["dpc"] /\ (IsrEnter => intrs) /\ (~IsrEnter => pc["isr"] # "idle")
    BY <1>p, <1>7 DEF Isr, IsrEnter, IsrRead, IsrMask
  <2>2. "dpc" \notin sched /\ pc["dpc"] = "idle"
    BY <2>1 DEF TurnInv
  <2>3. CASE IsrMask
    BY <1>p, <2>1, <2>2, <2>3 DEF IsrMask, TurnInv, DpcToCome
  <2>4. CASE IsrEnter \/ IsrRead
    BY <2>1, <2>2, <2>4 DEF IsrEnter, IsrRead, TurnInv, DpcToCome
  <2> QED  BY <1>7, <2>3, <2>4 DEF Isr
<1>8. CASE Dpc
  <2>1. pc["dpc"] # "idle" /\ pc'["isr"] = pc["isr"]
    BY <1>p, <1>8 DEF Dpc, DpcLock, DpcWork, DpcEnd
  <2>2. ~intrs /\ pc["isr"] = "idle" /\ "dpc" \notin sched
    BY <2>1 DEF TurnInv
  <2>3. CASE DpcLock
    <3>1. UNCHANGED <<intrs, sched>> /\ pc["dpc"] = "wait" /\ events \subseteq chint
      BY <2>3 DEF DpcLock, TurnInv, DpcToCome
    <3>2. CASE net.up
      <4>1. pc'["dpc"] = "work" /\ events' \subseteq chint'
        <5>1. CASE resched
          BY <1>p, <2>3, <3>2, <5>1 DEF DpcLock
        <5>2. CASE ~resched
          BY <1>p, <2>3, <3>1, <3>2, <5>2 DEF DpcLock
        <5> QED  BY <5>1, <5>2
      <4> QED  BY <2>1, <2>2, <3>1, <4>1 DEF TurnInv, DpcToCome
    <3>3. CASE ~net.up
      BY <1>p, <2>1, <2>2, <2>3, <3>1, <3>3 DEF DpcLock, TurnInv, DpcToCome
    <3> QED  BY <3>2, <3>3
  <2>4. ASSUME NEW fatal \in BOOLEAN, DpcWork(fatal) PROVE TurnInv'
    <3>1. ~intrs' /\ UNCHANGED sched /\ pc'["dpc"] \in {"send", "end"}
      BY <1>p, <2>2, <2>4 DEF DpcWork, ChipInit, AfterWork
    <3> QED  BY <2>1, <2>2, <3>1 DEF TurnInv, DpcToCome
  <2>5. CASE DpcEnd
    <3>1. pc'["dpc"] = "idle" /\ events' = {} /\ (~intrs' \/ sched' = sched)
      BY <1>p, <2>2, <2>5 DEF DpcEnd
    <3> QED  BY <2>1, <2>2, <3>1 DEF TurnInv, DpcToCome
  <2> QED  BY <1>8, <2>3, <2>4, <2>5 DEF Dpc
<1>9. UNCHANGED vars => UNCHANGED <<chint, intrs, events, pc, sched>>
  BY DEF vars, chip, dpcVars
<1> QED  BY <1>0, <1>1, <1>2, <1>3, <1>4, <1>5, <1>6, <1>7, <1>8, <1>9 DEF Next

\* An event that is noticed stays so until the dpc works on it, as long as
\* the interface is up.
LEMMA NoticedKept ==
  ASSUME OneAtATime, LockInv, ChipTyped, DeviceInv, DownInv, TurnInv, Next,
         net.up, net'.up, ~(\E fatal \in BOOLEAN : DpcWork(fatal)), NEW e, Noticed(e)
  PROVE  Noticed(e)'
<1> USE ControllerNames
<1>p. pc \in [Contexts -> Steps] /\ {"isr", "dpc"} \subseteq Contexts /\ e \in DefIntMask
  BY DEF LockInv, Noticed
<1>0. ASSUME UNCHANGED <<chint, dpcVars>>, cond \subseteq cond',
             pc'["isr"] = pc["isr"], pc'["dpc"] = pc["dpc"],
             "dpc" \in sched' <=> "dpc" \in sched
      PROVE  Noticed(e)'
  BY <1>0 DEF Noticed, DpcToCome, DpcAgain, dpcVars
<1>1. CASE Probe \/ Remove \/ Hardware
  BY <1>0, <1>1 DEF Probe, ProbeStep, ProbeDone, ProbeFail, Remove, Hardware, HwSend,
     HwReceive, HwError, chip
<1>2. ASSUME NEW c \in Controllers, Control(c) PROVE Noticed(e)'
  <2>1. Up(c)
    BY <1>2 DEF Control, Down, KillDpc, Relock, KillTxAndFlush, Reset, DownInv, DeviceInv
  <2> QED  BY <1>0, <2>1 DEF Up
<1>3. CASE Transmit \/ TxLock
  BY <1>p, <1>0, <1>3 DEF Transmit, StartCall, StartDrop, StartQueue, StartSched, TxLock, chip
<1>4. CASE Start("txt") \/ Send("txt")
  BY <1>p, <1>0, <1>4 DEF Start, Send, SendClear, SendOne, SendEnd, chip
<1>5. CASE Start("dpc")
  <2>1. /\ UNCHANGED <<chint, events, resched, cond>> /\ pc'["isr"] = pc["isr"]
        /\ pc'["dpc"] = "wait"
    BY <1>p, <1>5 DEF Start, chip, dpcVars
  <2> QED  BY <1>p, <2>1 DEF Noticed, DpcToCome, DpcAgain
<1>6. CASE Send("dpc")
  <2>1. /\ UNCHANGED <<chint, events, resched, cond, sched>> /\ pc'["isr"] = pc["isr"]
        /\ pc["dpc"] = "send" /\ pc'["dpc"] \in {"send", "end"}
    BY <1>p, <1>6 DEF Send, SendClear, SendOne, SendEnd, chip, dpcVars
  <2> QED  BY <1>p, <2>1 DEF Noticed, DpcToCome, DpcAgain
<1>7. CASE Isr
  <2>1. "dpc" \notin sched /\ pc["dpc"] = "idle"
    BY <1>7 DEF Isr, IsrEnter, IsrRead, IsrMask, TurnInv
  <2>2. e \in cond \/ (pc["isr"] = "mask" /\ e \in chint)
    BY <2>1 DEF Noticed, DpcToCome, DpcAgain
  <2>3. CASE IsrMask
    BY <1>p, <2>2, <2>3 DEF IsrMask, Noticed, DpcToCome
  <2>4. CASE IsrEnter \/ IsrRead
    BY <1>p, <2>2, <2>4 DEF IsrEnter, IsrRead, Noticed, chip
  <2> QED  BY <1>7, <2>3, <2>4 DEF Isr
<1>8. CASE DpcLock \/ DpcEnd
  <2>1. pc["dpc"] # "idle" /\ pc'["isr"] = pc["isr"] /\ UNCHANGED cond
    BY <1>p, <1>8 DEF DpcLock, DpcEnd
  <2>2. pc["isr"] = "idle" /\ "dpc" \notin sched
    BY <2>1 DEF TurnInv
  <2>3. CASE DpcLock
    <3>1. /\ pc["dpc"] = "wait" /\ pc'["dpc"] = "work" /\ events \subseteq chint
          /\ IF resched THEN chint \subseteq events' ELSE events' = events
      BY <1>p, <2>3 DEF DpcLock, TurnInv, DpcToCome
    <3> QED  BY <1>p, <2>1, <2>2, <3>1 DEF Noticed, DpcToCome, DpcAgain
  <2>4. CASE DpcEnd
    <3>1. pc["dpc"] = "end" /\ UNCHANGED <<chint, resched>> /\ (resched => "dpc" \in sched')
      BY <1>p, <2>4 DEF DpcEnd
    <3> QED  BY <1>p, <2>1, <2>2, <3>1 DEF Noticed, DpcToCome, DpcAgain
  <2> QED  BY <1>8, <2>3, <2>4
<1> QED  BY <1>1, <1>2, <1>3, <1>4, <1>5, <1>6, <1>7, <1>8 DEF Next, Dpc

\* What the dpc works on is among its events, or still up in the chip.
LEMMA NoticedAtWork ==
  ASSUME LockInv, TurnInv, NEW fatal \in BOOLEAN, DpcWork(fatal), NEW e, Noticed(e)
  PROVE  /\ e \in DefIntMask /\ UNCHANGED cond
         /\ e \in cond \/ (e \in events /\ e \in chint)
         /\ pc'["dpc"] \in {"send", "end"}
<1>1. pc["dpc"] = "work" /\ UNCHANGED cond /\ pc'["dpc"] \in {"send", "end"}
  BY ControllerNames DEF DpcWork, AfterWork, LockInv
<1>2. pc["isr"] = "idle" /\ "dpc" \notin sched /\ events \subseteq chint
  BY <1>1 DEF TurnInv, DpcToCome
<1> QED  BY <1>1, <1>2 DEF Noticed, DpcAgain

\* An interface goes up by et_up only, with empty rings.
LEMMA GoingUp ==
  ASSUME DeviceInv, [Next]_vars, ~net.up, net'.up
  PROVE  \E c \in Controllers :
            /\ Up(c) /\ ring' = [posted |-> 0, sent |-> 0] /\ rxd' = 0 /\ ~net'.stopped
<1>0. ~UNCHANGED net
  OBVIOUS
<1>1. \E c \in Controllers : Control(c)
  <2>1. ~(Probe \/ Remove \/ Hardware)
    BY <1>0 DEF Probe, ProbeStep, ProbeDone, ProbeFail, Remove, Hardware, HwSend, HwReceive,
       HwError
  <2>2. ~(Transmit \/ TxLock \/ Isr \/ Dpc)
    BY <1>0 DEF Transmit, StartCall, StartDrop, StartQueue, StartSched, TxLock, Isr, IsrEnter,
       IsrRead, IsrMask, Dpc, DpcLock, DpcWork, DpcEnd
  <2>3. ~\E t \in {"dpc", "txt"} : Start(t) \/ Send(t)
    BY <1>0 DEF Start, Send, SendClear, SendOne, SendEnd, DeviceInv
  <2>4. ~UNCHANGED vars
    BY <1>0 DEF vars
  <2> QED  BY <2>1, <2>2, <2>3, <2>4 DEF Next
<1>2. PICK c \in Controllers : Control(c)
  BY <1>1
<1>3. Up(c)
  BY <1>0, <1>2 DEF Control, Down, KillDpc, Relock, KillTxAndFlush, Reset, DeviceInv
<1>4. net'.stopped = (net.stopped /\ net.up)
  BY <1>3 DEF Up, DeviceInv
<1>5. ~net'.stopped
  BY <1>4
<1>6. ring' = [posted |-> 0, sent |-> 0] /\ rxd' = 0
  BY <1>3 DEF Up, ChipInit
<1> QED  BY <1>3, <1>5, <1>6

(* Received frames. *)
FrameInv == net.up => FramesNoticed

LEMMA FrameStep ==
  ASSUME OneAtATime, LockInv, ChipTyped, DeviceInv, DownInv, TurnInv, FrameInv, [Next]_vars
  PROVE  FrameInv'
<1> USE Sizes
<1> SUFFICES ASSUME net'.up, rxd' > 0 PROVE Noticed("RX")'
  BY DEF FrameInv, FramesNoticed
<1>0. net.up
  BY GoingUp
<1>1. rxd > 0 => Noticed("RX")
  BY <1>0 DEF FrameInv, FramesNoticed
<1>2. CASE UNCHANGED vars
  BY <1>1, <1>2 DEF vars, chip, dpcVars, Noticed, DpcToCome, DpcAgain
<1>3. ASSUME NEW fatal \in BOOLEAN, DpcWork(fatal) PROVE Noticed("RX")'
  <2>1. ~fatal /\ rxd' = RxLeft(fatal)
    BY <1>3 DEF DpcWork, ChipInit
  <2>2. rxd > 0
    BY <2>1 DEF RxLeft, ChipTyped
  <2>3. CASE "RX" \in cond
    BY <1>1, <1>3, <2>2, <2>3, NoticedAtWork DEF Noticed
  <2>4. CASE "RX" \in events /\ "RX" \in chint
    <3>1. Receives(fatal)
      BY <2>4 DEF Receives
    <3>2. rxd >= Quota
      BY <2>1, <3>1, SizesAssumption DEF RxLeft, ChipTyped
    <3>3. resched' /\ RxBit(fatal) = {}
      <4>1. resched' = (Receives(fatal) /\ rxd >= Quota)
        BY <1>3 DEF DpcWork, RxAgain
      <4>2. ~(rxd < Quota)
        BY <3>2 DEF ChipTyped
      <4> QED  BY <3>1, <3>2, <4>1, <4>2 DEF RxBit
    <3>4. "RX" \in chint'
      BY <1>3, <2>4, <3>3 DEF DpcWork
    <3> QED  BY <1>1, <1>3, <2>2, <3>3, <3>4, NoticedAtWork DEF Noticed, DpcAgain
  <2> QED  BY <1>1, <1>3, <2>2, <2>3, <2>4, NoticedAtWork
<1>4. CASE HwReceive
  BY <1>4 DEF HwReceive, Noticed, DefIntMask, Events
<1>5. CASE Next /\ ~HwReceive /\ ~\E fatal \in BOOLEAN : DpcWork(fatal)
  <2>1. rxd' \in {rxd, 0}
    <3>1. CASE \E c \in Controllers : Control(c)
      BY <3>1 DEF Control, Up, Down, KillDpc, Relock, KillTxAndFlush, Reset, ChipInit, chip
    <3>2. CASE Probe \/ Remove \/ HwSend \/ HwError
      BY <3>2 DEF Probe, ProbeStep, ProbeDone, ProbeFail, Remove, HwSend, HwError, chip
    <3>3. CASE Transmit \/ TxLock \/ Isr \/ DpcLock \/ DpcEnd
      BY <3>3 DEF Transmit, StartCall, StartDrop, StartQueue, StartSched, TxLock, Isr, IsrEnter,
         IsrRead, IsrMask, DpcLock, DpcEnd, chip
    <3>4. CASE \E t \in {"dpc", "txt"} : Start(t) \/ Send(t)
      BY <3>4 DEF Start, Send, SendClear, SendOne, SendEnd, chip
    <3> QED  BY <1>5, <3>1, <3>2, <3>3, <3>4 DEF Next, Hardware, Dpc
  <2> QED  BY <1>0, <1>1, <1>5, <2>1, NoticedKept
<1> QED  BY <1>2, <1>3, <1>4, <1>5

(* Sent descriptors, with transmit interrupts. *)
SentInv == net.up => SentNoticed

LEMMA SentStep ==
  ASSUME OneAtATime, ~NoTxInt, LockInv, QueueInv, ChipTyped, DeviceInv, DownInv, TurnInv, SentInv,
         [Next]_vars
  PROVE  SentInv'
<1> SUFFICES ASSUME net'.up, ring'.sent > 0 PROVE Noticed("TX")'
  BY DEF SentInv, SentNoticed
<1>0. net.up
  BY GoingUp
<1>1. ring.sent > 0 => Noticed("TX")
  BY <1>0 DEF SentInv, SentNoticed
<1>2. CASE UNCHANGED vars
  BY <1>1, <1>2 DEF vars, txVars, chip, dpcVars, Noticed, DpcToCome, DpcAgain
<1>3. ASSUME NEW fatal \in BOOLEAN, DpcWork(fatal) PROVE Noticed("TX")'
  <2>1. ~fatal /\ "TX" \notin events /\ ring' = ring
    BY <1>3 DEF DpcWork, ChipInit, Reclaimed, QueueInv
  <2> QED  BY <1>1, <1>3, <2>1, NoticedAtWork DEF Noticed
<1>4. CASE HwSend
  BY <1>4 DEF HwSend, Noticed, DefIntMask, Events
<1>5. CASE Next /\ ~HwSend /\ ~\E fatal \in BOOLEAN : DpcWork(fatal)
  <2>1. ring'.sent \in {ring.sent, 0}
    <3>1. CASE \E c \in Controllers : Control(c)
      BY <3>1 DEF Control, Up, Down, KillDpc, Relock, KillTxAndFlush, Reset, ChipInit, txVars
    <3>2. CASE Probe \/ Remove \/ HwReceive \/ HwError
      BY <3>2 DEF Probe, ProbeStep, ProbeDone, ProbeFail, Remove, HwReceive, HwError, txVars
    <3>3. CASE Transmit \/ TxLock \/ Isr \/ DpcLock \/ DpcEnd
      BY <3>3 DEF Transmit, StartCall, StartDrop, StartQueue, StartSched, TxLock, Isr, IsrEnter,
         IsrRead, IsrMask, DpcLock, DpcEnd, txVars
    <3>4. CASE \E t \in {"dpc", "txt"} : Start(t) \/ SendClear(t) \/ SendEnd(t)
      BY <3>4 DEF Start, SendClear, SendEnd, txVars
    <3>5. CASE \E t \in {"dpc", "txt"} : SendOne(t)
      BY <3>5 DEF SendOne, ChipTx
    <3> QED  BY <1>5, <3>1, <3>2, <3>3, <3>4, <3>5 DEF Next, Send, Hardware, Dpc
  <2> QED  BY <1>0, <1>1, <1>5, <2>1, NoticedKept
<1> QED  BY <1>2, <1>3, <1>4, <1>5

(* A stopped queue. *)
StopInv == net.up => StopNoticed

LEMMA StopStep ==
  ASSUME HiWat >= 2, LockInv, QueueInv, DeviceInv, DownInv, StopInv, [Next]_vars
  PROVE  StopInv'
<1> USE ControllerNames, Sizes
<1> SUFFICES ASSUME net'.up, net'.stopped
             PROVE  txq' > 0 \/ \E t \in {"dpc", "txt"} : pc'[t] = "send"
  BY DEF StopInv, StopNoticed
<1>0. net.up
  BY GoingUp
<1>p. pc \in [Contexts -> Steps] /\ {"isr", "dpc", "txt", "xmit"} \subseteq Contexts
  BY DEF LockInv
<1>1. ASSUME net.stopped, txq > 0 => txq' > 0,
             \A t \in {"dpc", "txt"} : pc[t] = "send" => pc'[t] = "send"
      PROVE  txq' > 0 \/ \E t \in {"dpc", "txt"} : pc'[t] = "send"
  BY <1>0, <1>1 DEF StopInv, StopNoticed
<1>2. CASE Probe \/ Remove \/ Hardware \/ UNCHANGED vars
  BY <1>1, <1>2 DEF Probe, ProbeStep, ProbeDone, ProbeFail, Remove, Hardware, HwSend,
     HwReceive, HwError, txVars, vars
<1>3. ASSUME NEW c \in Controllers, Control(c)
      PROVE  txq' > 0 \/ \E t \in {"dpc", "txt"} : pc'[t] = "send"
  <2>1. Up(c)
    BY <1>0, <1>3 DEF Control, Down, KillDpc, Relock, KillTxAndFlush, Reset, DownInv, DeviceInv
  <2>2. UNCHANGED <<txq, pc>> /\ net'.stopped = (net.stopped /\ net.up)
    BY <2>1 DEF Up, DeviceInv
  <2> QED  BY <1>1, <2>2
<1>4. CASE Transmit \/ TxLock \/ Isr \/ Dpc
  <2>1. UNCHANGED net /\ txq' \in {txq, txq + 1}
    BY <1>4 DEF Transmit, StartCall, StartDrop, StartQueue, StartSched, TxLock, Isr, IsrEnter,
       IsrRead, IsrMask, Dpc, DpcLock, DpcWork, DpcEnd, txVars
  <2>2. \A t \in {"dpc", "txt"} : pc[t] = "send" => pc'[t] = "send"
    BY <1>p, <1>4 DEF Transmit, StartCall, StartDrop, StartQueue, StartSched, TxLock, Isr,
       IsrEnter, IsrRead, IsrMask, Dpc, DpcLock, DpcWork, DpcEnd
  <2>3. txq > 0 => txq' > 0
    BY <2>1 DEF QueueInv
  <2> QED  BY <1>1, <2>1, <2>2, <2>3
<1>5. ASSUME NEW t \in {"dpc", "txt"}, Start(t) \/ Send(t)
      PROVE  txq' > 0 \/ \E a \in {"dpc", "txt"} : pc'[a] = "send"
  <2>1. CASE Start(t)
    <3>1. UNCHANGED <<txq, net>> /\ \A a \in {"dpc", "txt"} : pc[a] = "send" => pc'[a] = "send"
      BY <1>p, <2>1 DEF Start, txVars
    <3> QED  BY <1>1, <3>1
  <2>2. CASE SendClear(t) \/ SendOne(t)
    BY <1>p, <2>2 DEF SendClear, SendOne
  <2>3. CASE SendEnd(t)
    <3>1. FlowControl /\ txq' = txq
      BY <2>3 DEF SendEnd, DeviceInv, txVars
    <3>2. HiWat \div 2 >= 1
      OBVIOUS
    <3> QED  BY <3>1, <3>2 DEF FlowControl, QueueInv
  <2> QED  BY <1>5, <2>1, <2>2, <2>3 DEF Send
<1> QED  BY <1>2, <1>3, <1>4, <1>5 DEF Next

(* Queued packets, when the interface is opened and closed by the stack.   *)
(* Closed, it has no packet in its queue once et_down has flushed it, for  *)
(* the stack has waited for its transmit calls.                            *)
StackInv ==
    /\ txq > 0 => txqState
    /\ net.present = net.up
    /\ ~net.up => pc["xmit"] = "idle"
    /\ ~net.up /\ pc["stack"] \notin {"killdpc", "relock", "killtx"} => txq = 0

LEMMA StackInit == Init => StackInv
  BY ControllerNames DEF Init, StackInv

LEMMA StackStep ==
  ASSUME Controllers = {"stack"}, LockInv, QueueInv, DeviceInv, DownInv, StackInv, [Next]_vars
  PROVE  StackInv'
<1> USE ControllerNames
<1>p. pc \in [Contexts -> Steps] /\ {"isr", "dpc", "txt", "xmit", "stack"} \subseteq Contexts
  BY DEF LockInv
<1>0. CASE /\ UNCHANGED <<txq, txqState>> /\ net'.present = net.present /\ net'.up = net.up
           /\ pc'["xmit"] = pc["xmit"] /\ pc'["stack"] = pc["stack"]
  BY <1>0 DEF StackInv
<1>1. CASE Probe \/ Remove \/ Hardware \/ UNCHANGED vars
  BY <1>0, <1>1 DEF Probe, ProbeStep, ProbeDone, ProbeFail, Remove, Hardware, HwSend,
     HwReceive, HwError, txVars, vars
<1>2. CASE Control("stack")
  <2>1. CASE Up("stack")
    <3>1. /\ net'.up /\ net'.present /\ UNCHANGED <<txq, txqState, pc>>
      BY <2>1 DEF Up, DeviceInv
    <3> QED  BY <3>1 DEF StackInv
  <2>2. CASE Down("stack")
    <3>1. UNCHANGED <<txq, txqState>> /\ pc'["xmit"] = "idle" /\ pc'["stack"] = "killdpc"
      BY <1>p, <2>2 DEF Down, txVars
    <3>2. net'.up = FALSE /\ net'.present = FALSE
      BY <2>2 DEF Down, DeviceInv
    <3> QED  BY <3>1, <3>2 DEF StackInv
  <2>3. CASE KillDpc("stack") \/ Relock("stack")
    <3>1. /\ UNCHANGED <<txq, txqState, net>> /\ pc'["xmit"] = pc["xmit"]
          /\ pc'["stack"] \in {"relock", "killtx"}
      BY <1>p, <2>3 DEF KillDpc, Relock, txVars
    <3> QED  BY <3>1 DEF StackInv
  <2>4. CASE KillTxAndFlush("stack")
    <3>1. txq' = 0 /\ UNCHANGED net /\ pc'["xmit"] = pc["xmit"]
      BY <1>p, <2>4 DEF KillTxAndFlush
    <3> QED  BY <3>1 DEF StackInv
  <2>5. CASE Reset("stack")
    <3>1. net.up = FALSE
      BY <2>5 DEF Reset, DownInv, DeviceInv
    <3>2. net'.up = FALSE /\ net'.present = net.present
      BY <2>5 DEF Reset, DeviceInv
    <3>3. /\ UNCHANGED <<txq, txqState>> /\ pc'["xmit"] = pc["xmit"]
          /\ pc["stack"] = "reset" /\ pc'["stack"] = "idle"
      BY <1>p, <2>5 DEF Reset
    <3> QED  BY <3>1, <3>2, <3>3 DEF StackInv
  <2> QED  BY <1>2, <2>1, <2>2, <2>3, <2>4, <2>5 DEF Control
<1>3. CASE Transmit
  <2>1. net.up /\ UNCHANGED net
    BY <1>3 DEF Transmit, StartCall, StartDrop, StartQueue, StartSched, StackInv
  <2>2. UNCHANGED <<txq, txqState>> \/ txqState'
    BY <1>3 DEF Transmit, StartCall, StartDrop, StartQueue, StartSched, txVars
  <2> QED  BY <2>1, <2>2 DEF StackInv
<1>4. CASE TxLock \/ Isr \/ Dpc
  BY <1>p, <1>0, <1>4 DEF TxLock, Isr, IsrEnter, IsrRead, IsrMask, Dpc, DpcLock, DpcWork, DpcEnd,
     txVars
<1>5. ASSUME NEW t \in {"dpc", "txt"}, Start(t) \/ Send(t) PROVE StackInv'
  <2>1. /\ pc'["xmit"] = pc["xmit"] /\ pc'["stack"] = pc["stack"]
        /\ net'.present = net.present /\ net'.up = net.up
    BY <1>p, <1>5 DEF Start, Send, SendClear, SendOne, SendEnd, DeviceInv
  <2>2. CASE Start(t) \/ SendEnd(t)
    BY <1>0, <2>1, <2>2 DEF Start, SendEnd, txVars
  <2>3. CASE SendClear(t)
    BY <2>1, <2>3 DEF SendClear, StackInv
  <2>4. CASE SendOne(t)
    BY <2>1, <2>4 DEF SendOne, StackInv
  <2> QED  BY <1>5, <2>2, <2>3, <2>4 DEF Send
<1> QED  BY <1>1, <1>2, <1>3, <1>4, <1>5 DEF Next

\* A packet in the queue of an interface that is up has a call of et_sendnext
\* to come, or a descriptor whose event will bring one.
PacketInv == net.up /\ txq > 0 => SendToCome \/ ring.posted > 0 \/ ring.sent > 0

LEMMA PacketStep ==
  ASSUME Controllers = {"stack"}, LockInv, QueueInv, DeviceInv, DownInv, StackInv, PacketInv,
         [Next]_vars
  PROVE  PacketInv'
<1> USE ControllerNames, Sizes
<1> SUFFICES ASSUME net'.up, txq' > 0
             PROVE  SendToCome' \/ ring'.posted > 0 \/ ring'.sent > 0
  BY DEF PacketInv
<1> DEFINE Goal == SendToCome' \/ ring'.posted > 0 \/ ring'.sent > 0
<1>p. pc \in [Contexts -> Steps] /\ {"isr", "dpc", "txt", "xmit"} \subseteq Contexts
  BY DEF LockInv
<1>0. net.up
  <2>1. ASSUME NEW c \in Controllers, Up(c), ~net.up PROVE FALSE
    <3>1. pc["stack"] = "idle" /\ txq' = txq
      BY <2>1 DEF Up, Controls
    <3> QED  BY <2>1, <3>1 DEF StackInv
  <2> QED  BY <2>1, GoingUp
<1>1. ASSUME txq > 0, SendToCome => SendToCome', ring' = ring PROVE Goal
  BY <1>0, <1>1 DEF PacketInv
<1>2. CASE Probe \/ Remove \/ HwReceive \/ HwError \/ UNCHANGED vars
  <2>1. UNCHANGED <<txq, pc, sched, ring>>
    BY <1>2 DEF Probe, ProbeStep, ProbeDone, ProbeFail, Remove, HwReceive, HwError, txVars, vars
  <2> QED  BY <1>1, <2>1 DEF SendToCome, DpcToCome
<1>3. CASE HwSend
  BY <1>3 DEF HwSend, QueueInv
<1>4. ASSUME NEW c \in Controllers, Control(c) PROVE Goal
  <2>1. Up(c)
    BY <1>0, <1>4 DEF Control, Down, KillDpc, Relock, KillTxAndFlush, Reset, DownInv, DeviceInv
  <2>2. UNCHANGED <<txq, pc, sched, ring>>
    BY <1>0, <2>1 DEF Up
  <2> QED  BY <1>1, <2>2 DEF SendToCome, DpcToCome
<1>5. CASE Transmit
  <2>1. CASE StartQueue
    BY <1>p, <2>1 DEF StartQueue, SendToCome
  <2>2. CASE StartSched
    BY <2>2 DEF StartSched, SendToCome
  <2>3. CASE StartCall \/ StartDrop
    <3>1. /\ UNCHANGED <<txq, sched, ring>> /\ pc["xmit"] # "sched"
          /\ \A a \in {"dpc", "txt"} : pc'[a] = pc[a]
      BY <1>p, <2>3 DEF StartCall, StartDrop, txVars
    <3> QED  BY <1>1, <3>1 DEF SendToCome, DpcToCome
  <2> QED  BY <1>5, <2>1, <2>2, <2>3 DEF Transmit
<1>6. CASE TxLock
  BY <1>p, <1>6 DEF TxLock, SendToCome
<1>7. ASSUME NEW t \in {"dpc", "txt"}, Start(t) \/ Send(t) PROVE Goal
  <2>1. CASE Start(t)
    BY <1>p, <2>1 DEF Start, SendToCome, DpcToCome
  <2>2. CASE SendClear(t)
    BY <2>2 DEF SendClear, SendToCome
  <2>3. CASE SendOne(t)
    BY <2>3 DEF SendOne, ChipTx, QueueInv
  <2>4. CASE SendEnd(t)
    <3>1. TxAvail = 0 /\ ring' = ring
      BY <2>4 DEF SendEnd, StackInv, txVars
    <3> QED  BY <3>1, SizesAssumption DEF TxAvail, QueueInv
  <2> QED  BY <1>7, <2>1, <2>2, <2>3, <2>4 DEF Send
<1>8. CASE Isr
  <2>1. /\ UNCHANGED <<txq, ring>> /\ sched \subseteq sched'
        /\ \A a \in {"dpc", "txt", "xmit"} : pc'[a] = pc[a]
    BY <1>p, <1>8 DEF Isr, IsrEnter, IsrRead, IsrMask, txVars
  <2> QED  BY <1>1, <2>1 DEF SendToCome, DpcToCome
<1>9. CASE Dpc
  <2>1. CASE DpcLock
    BY <1>0, <1>p, <2>1 DEF DpcLock, SendToCome, DpcToCome
  <2>2. ASSUME NEW fatal \in BOOLEAN, DpcWork(fatal) PROVE Goal
    BY <1>p, <2>2 DEF DpcWork, AfterWork, StackInv, SendToCome
  <2>3. CASE DpcEnd
    <3>1. /\ UNCHANGED <<txq, ring>> /\ sched \subseteq sched' /\ pc["dpc"] = "end"
          /\ \A a \in {"txt", "xmit"} : pc'[a] = pc[a]
      BY <1>p, <2>3 DEF DpcEnd, txVars
    <3> QED  BY <1>1, <3>1 DEF SendToCome, DpcToCome
  <2> QED  BY <1>9, <2>1, <2>2, <2>3 DEF Dpc
<1> QED  BY <1>2, <1>3, <1>4, <1>5, <1>6, <1>7, <1>8, <1>9 DEF Next, Hardware

(* However the handler, the dpc, the transmit tasklet and et_up and        *)
(* et_down cross, a frame in the receive ring of an interface that is up   *)
(* has its event still up in the chip or on its way to the dpc: for any    *)
(* ring and quota, if the control paths exclude each other and et_down     *)
(* does not overtake a running handler.                                    *)
THEOREM FramesNeverForgotten ==
  ASSUME OneAtATime, ~SlowIsr
  PROVE  Spec => [](net.up => FramesNoticed)
<1>1. Init => FrameInv
  BY DEF Init, FrameInv
<1>2. /\ LockInv /\ QueueInv /\ ChipTyped /\ DeviceInv /\ DownInv /\ TurnInv /\ FrameInv
      /\ [Next]_vars
      => DownInv' /\ TurnInv' /\ FrameInv'
  BY DownStep, TurnStep, FrameStep
<1>3. FrameInv <=> (net.up => FramesNoticed)
  BY DEF FrameInv
<1> QED  BY <1>1, <1>2, <1>3, LockInit, LockStep, QueueInit, QueueStep, ChipTypedInit,
            ChipTypedStep, DeviceInit, DeviceStep, DownInit, TurnInit, PTL DEF Spec

(* Nothing is left lying in an interface that is up: frames and sent       *)
(* descriptors have their event, a packet its call of et_sendnext, and a   *)
(* stopped queue its packet.  For any sizes, on an interface the stack     *)
(* opens and closes, with transmit interrupts.                             *)
THEOREM NothingLeftBehind ==
  ASSUME Controllers = {"stack"}, ~SlowIsr, ~NoTxInt, HiWat >= 2
  PROVE  Spec => []NothingForgotten
<1>0. OneAtATime
  BY DEF OneAtATime
<1>1. Init => FrameInv /\ SentInv /\ StopInv /\ PacketInv
  BY DEF Init, FrameInv, SentInv, StopInv, PacketInv
<1>2. /\ LockInv /\ QueueInv /\ ChipTyped /\ DeviceInv /\ DownInv /\ TurnInv /\ FrameInv
      /\ SentInv /\ StopInv /\ StackInv /\ PacketInv /\ [Next]_vars
      => /\ DownInv' /\ TurnInv' /\ FrameInv' /\ SentInv' /\ StopInv' /\ StackInv'
         /\ PacketInv'
  BY <1>0, DownStep, TurnStep, FrameStep, SentStep, StopStep, StackStep, PacketStep
<1>3. FrameInv /\ SentInv /\ StopInv /\ StackInv /\ PacketInv => NothingForgotten
  BY DEF FrameInv, SentInv, StopInv, StackInv, PacketInv, NothingForgotten, PacketsNoticed
<1> QED  BY <1>1, <1>2, <1>3, LockInit, LockStep, QueueInit, QueueStep, ChipTypedInit,
            ChipTypedStep, DeviceInit, DeviceStep, DownInit, TurnInit, StackInit, PTL DEF Spec
=============================================================================
