------------------------------ MODULE EtDriver ------------------------------
(***************************************************************************)
(* The vendor ethernet driver of the router's switch uplink: et_linux.c    *)
(* (contexts, locks, queues), etc.c (up and down) and the chip functions   *)
(* of etcgmac.c.  The contexts that run at once: the interrupt handler,    *)
(* the dpc tasklet, the transmit tasklet, the stack's transmit call, and   *)
(* up to three controllers: "stack" opens and closes the interface,        *)
(* "ioctl" is ETCUP and ETCDOWN, "pm" the PCI suspend, resume and remove.  *)
(* ET_LOCK is the variable lock; what the transmit-queue lock protects is  *)
(* one step.  The one second timer is in EtWatchdog.                       *)
(* Built as on this router: SMP, tasklets (not NAPI, not all-passive),     *)
(* qos off, so one transmit queue and one descriptor ring.                 *)
(***************************************************************************)
EXTENDS Integers, Sequences

CONSTANTS
    Controllers,    \* the control paths in use, of "stack", "ioctl", "pm"
    Ring,           \* usable descriptors of the transmit ring
    RxRing,         \* posted receive buffers
    Quota,          \* frames one dpc run takes before it reschedules itself
    Thresh,         \* et_txq_thresh: packets the software queue holds
    HiWat,          \* DATAHIWAT
    NoTxInt,        \* et<unit>_no_txint is set: no transmit interrupts
    RecThresh,      \* txrec_thresh, one less than a power of two
    ProbeFails,     \* whether the steps of et_probe may fail
    SlowIsr         \* whether et_down may overtake a running et_isr

ASSUME SizesAssumption ==
    /\ {Ring, RxRing, Quota, Thresh} \subseteq Nat \ {0}
    /\ HiWat \in Nat /\ RecThresh \in Nat
    /\ NoTxInt \in BOOLEAN /\ ProbeFails \in BOOLEAN /\ SlowIsr \in BOOLEAN
    /\ Controllers \subseteq {"stack", "ioctl", "pm"}

VARIABLES
    life,           \* "probing", "live", "failed" or "gone"
    held,           \* the resources et_probe has acquired, in order
    lock,           \* who holds ET_LOCK, "none" if nobody
    pc,             \* where each context is
    net,            \* [up, stopped, present]
    txq,            \* packets in the software queue
    txqState,       \* the queue's bit of txq_state
    ring,           \* [posted, sent]: unsent, and sent but not reclaimed
    frames,         \* txframes, modulo RecThresh + 1
    rxd,            \* received frames not yet taken from the receive ring
    engine,         \* the DMA engines are initialised
    cond,           \* the chip's interrupt status register
    chint,          \* ch->intstatus, the persistent copy of it
    intrs,          \* the interrupt mask: TRUE when interrupts are on
    events,         \* et->events
    resched,        \* et->resched
    sched           \* the tasklets that are scheduled

txVars == <<txq, txqState, ring, frames>>
chip == <<rxd, engine, cond, chint, intrs>>
dpcVars == <<events, resched>>
resVars == <<life, held>>
vars == <<resVars, lock, pc, net, txVars, chip, dpcVars, sched>>

-----------------------------------------------------------------------------
(* The chip: etcgmac.c *)

Events == {"RX", "TX", "ERR"}

\* ch->def_intmask as chipattach leaves it.
DefIntMask == IF NoTxInt THEN Events \ {"TX"} ELSE Events

TxAvail == Ring - ring.posted - ring.sent

\* dma_txinit, dma_rxinit and dma_rxfill of a full init: empty rings.
ChipInit(intron) ==
    /\ ring' = [posted |-> 0, sent |-> 0]
    /\ rxd' = 0
    /\ engine' = TRUE
    /\ intrs' = (intrs \/ intron)

\* chiptx posts one frame.  Without transmit interrupts it first reclaims
\* the sent ones, once every RecThresh + 1 frames.
ChipTx ==
    LET reclaim == RecThresh > 0 /\ frames = 1
    IN  /\ ring' = [posted |-> ring.posted + 1,
                    sent |-> IF reclaim THEN 0 ELSE ring.sent]
        /\ frames' = (frames + 1) % (RecThresh + 1)

\* chiptxreclaim(FALSE), called by the dpc on INTR_TX.
Reclaimed(r) == [r EXCEPT !.sent = 0]

\* The bits chipgetintrevents adds to the persistent status.
NewBits(inIsr) == cond \cap (IF inIsr /\ ~intrs THEN {} ELSE DefIntMask)

-----------------------------------------------------------------------------
(* Probe and remove *)

\* What et_probe, etc_attach and chipattach acquire, in their order.
Resources ==
    <<"osl", "dev", "regs", "etc", "ch", "sih", "dma", "robo", "fa",
      "ctf", "irq", "list", "netdev">>
\* What is held after n acquisitions, each of which is tested before the next
\* is tried, and after the last, when the tasklets are set up, the interrupt
\* is requested and the device is listed and registered.
Acquired(n) == {Resources[i] : i \in 1..n}
All == Acquired(Len(Resources))

Contexts == {"isr", "dpc", "txt", "xmit"} \cup Controllers
Steps == {"idle", "read", "mask", "wait", "work", "send", "end", "queue", "sched",
          "killdpc", "relock", "killtx", "reset"}

Init ==
    /\ life = "probing" /\ held = {}
    /\ lock = "none"
    /\ pc = [a \in Contexts |-> "idle"]
    /\ net = [up |-> FALSE, stopped |-> TRUE, present |-> FALSE]
    /\ txq = 0 /\ txqState = FALSE
    /\ ring = [posted |-> 0, sent |-> 0] /\ frames = 0
    /\ rxd = 0 /\ engine = FALSE
    /\ cond = {} /\ chint = {} /\ intrs = FALSE
    /\ events = {} /\ resched = FALSE
    /\ sched = {}

\* One step of et_probe succeeds.
ProbeStep ==
    /\ life = "probing"
    /\ \E n \in 1..Len(Resources) :
          held = Acquired(n - 1) /\ held' = Acquired(n)
    /\ UNCHANGED <<life, lock, pc, net, txVars, chip, dpcVars, sched>>

\* et_probe returns 0.
ProbeDone ==
    /\ life = "probing"
    /\ held = All
    /\ life' = "live"
    /\ UNCHANGED <<held, lock, pc, net, txVars, chip, dpcVars, sched>>

\* Mutant: chipdetach without its dma_detach loop.
ChipDetachedNoDma(r) == r \ {"robo", "fa", "sih", "ch"}

\* chipdetach, on a ch that si_attach or a later step left incomplete.
ChipDetached(r) == r \ {"robo", "fa", "dma", "sih", "ch"}

\* etc_detach: the chip only if chipattach returned one.
EtcDetached(r) == (IF "ch" \in r THEN ChipDetached(r) ELSE r) \ {"etc"}

\* et_free.
Freed(r) ==
    (IF "etc" \in r THEN EtcDetached(r) ELSE r)
        \ {"irq", "netdev", "ctf", "regs", "list", "dev", "osl"}

\* A step of et_probe fails.  Until "dev" is there the step itself undoes
\* what was done; chipattach detaches the half-built chip and etc_attach
\* then frees its own state; any later step goes to et_free.
ProbeFail ==
    /\ life = "probing" /\ ProbeFails
    /\ held # All
    /\ held' = IF "dev" \notin held THEN held \ {"osl"} ELSE Freed(held)
    /\ life' = "failed"
    /\ UNCHANGED <<lock, pc, net, txVars, chip, dpcVars, sched>>

-----------------------------------------------------------------------------
(* Control paths: et_open, et_close, et_ioctl, et_suspend, et_resume *)

\* The rtnl lock serialises the stack and the ioctls; suspend, resume and
\* remove do not take it.  Each takes ET_LOCK, which must be free.
Rtnl == Controllers \ {"pm"}
Controls(c) ==
    /\ life = "live" /\ lock = "none"
    /\ \A d \in {c} \cup (IF c = "pm" THEN {} ELSE Rtnl) : pc[d] = "idle"

\* et_up with etc_up and the full chip init: nothing if already up.
\* The stack then activates the device's queue, et_resume attaches it.
Up(c) ==
    /\ Controls(c)
    /\ IF net.up
          THEN UNCHANGED <<ring, rxd, engine, intrs>>
          ELSE ChipInit(TRUE)
    /\ net' = [net EXCEPT !.present = (@ \/ c # "ioctl"),
                          !.up = TRUE,
                          !.stopped = (@ /\ net.up)]
    /\ UNCHANGED <<resVars, lock, pc, txq, txqState, frames, cond, chint,
                   dpcVars, sched>>

\* et_down up to the window: stop the queue, flag down with interrupts off,
\* release ET_LOCK.  Before et_close the stack deactivates the queue and
\* waits for the transmit calls in progress; et_suspend only detaches the
\* device and ETCDOWN does neither.
Down(c) ==
    /\ Controls(c)
    /\ c = "stack" => pc["xmit"] = "idle"
    /\ net' = [net EXCEPT !.present = (@ /\ c = "ioctl"),
                          !.up = FALSE, !.stopped = TRUE]
    /\ intrs' = FALSE
    /\ cond' = cond \ chint
    /\ pc' = [pc EXCEPT ![c] = "killdpc"]
    /\ UNCHANGED <<resVars, lock, txVars, rxd, engine, chint, dpcVars, sched>>

\* tasklet_kill(&et->tasklet), with the lock released.  Nothing waits for a
\* handler that found the interface up before the flag went down; unless
\* SlowIsr, it is over by now, being a few register accesses long.
KillDpc(c) ==
    /\ pc[c] = "killdpc"
    /\ SlowIsr \/ pc["isr"] = "idle"
    /\ "dpc" \notin sched /\ pc["dpc"] = "idle"
    /\ pc' = [pc EXCEPT ![c] = "relock"]
    /\ UNCHANGED <<resVars, lock, net, txVars, chip, dpcVars, sched>>

Relock(c) ==
    /\ pc[c] = "relock" /\ lock = "none"
    /\ lock' = c
    /\ pc' = [pc EXCEPT ![c] = "killtx"]
    /\ UNCHANGED <<resVars, net, txVars, chip, dpcVars, sched>>

\* tasklet_kill(&et->tx_tasklet), with the lock held, and the flush.
KillTxAndFlush(c) ==
    /\ pc[c] = "killtx"
    /\ "txt" \notin sched /\ pc["txt"] = "idle"
    /\ txq' = 0
    /\ pc' = [pc EXCEPT ![c] = "reset"]
    /\ UNCHANGED <<resVars, lock, net, txqState, ring, frames, chip, dpcVars, sched>>

\* etc_down: flag down again, reset the chip, reclaim both rings, zap the
\* pending dpc bits; then release the lock.
Reset(c) ==
    /\ pc[c] = "reset"
    /\ net' = [net EXCEPT !.up = FALSE]
    /\ intrs' = FALSE
    /\ engine' = FALSE
    /\ ring' = [posted |-> 0, sent |-> 0]
    /\ rxd' = 0
    /\ cond' = cond \ chint
    /\ chint' = {}
    /\ events' = {} /\ resched' = FALSE
    /\ lock' = "none"
    /\ pc' = [pc EXCEPT ![c] = "idle"]
    /\ UNCHANGED <<resVars, txq, txqState, frames, sched>>

\* et_remove, when its et_suspend (Down and Reset of "pm") is over or found
\* the interface closed already: et_free.  free_irq waits for the handler and
\* unregister_netdev for the rtnl callers.
Remove ==
    /\ life = "live" /\ ~net.present /\ ~net.up
    /\ \A c \in Controllers \cup {"isr"} : pc[c] = "idle"
    /\ held' = Freed(held)
    /\ life' = "gone"
    /\ UNCHANGED <<lock, pc, net, txVars, chip, dpcVars, sched>>

-----------------------------------------------------------------------------
(* Transmit *)

\* The stack finds the queue running and calls et_start.
StartCall ==
    /\ life = "live" /\ pc["xmit"] = "idle"
    /\ ~net.stopped /\ net.present
    /\ pc' = [pc EXCEPT !["xmit"] = "queue"]
    /\ UNCHANGED <<resVars, lock, net, txVars, chip, dpcVars, sched>>

\* et_start drops the packet at the threshold,
StartDrop ==
    /\ pc["xmit"] = "queue" /\ txq >= Thresh
    /\ pc' = [pc EXCEPT !["xmit"] = "idle"]
    /\ UNCHANGED <<resVars, lock, net, txVars, chip, dpcVars, sched>>

\* or queues it and sets the queue's bit under the transmit-queue lock,
StartQueue ==
    /\ pc["xmit"] = "queue" /\ txq < Thresh
    /\ txq' = txq + 1 /\ txqState' = TRUE
    /\ pc' = [pc EXCEPT !["xmit"] = "sched"]
    /\ UNCHANGED <<resVars, lock, net, ring, frames, chip, dpcVars, sched>>

\* and then, with no lock, schedules the transmit tasklet.
StartSched ==
    /\ pc["xmit"] = "sched"
    /\ sched' = sched \cup {"txt"}
    /\ pc' = [pc EXCEPT !["xmit"] = "idle"]
    /\ UNCHANGED <<resVars, lock, net, txVars, chip, dpcVars>>

\* A scheduled tasklet starts and waits for ET_LOCK.
Start(t) ==
    /\ life = "live" /\ t \in sched /\ pc[t] = "idle"
    /\ sched' = sched \ {t}
    /\ pc' = [pc EXCEPT ![t] = "wait"]
    /\ UNCHANGED <<resVars, lock, net, txVars, chip, dpcVars>>

\* et_tx_tasklet: it does not ask whether the interface is up.
TxLock ==
    /\ pc["txt"] = "wait" /\ lock = "none"
    /\ lock' = "txt"
    /\ pc' = [pc EXCEPT !["txt"] = "send"]
    /\ UNCHANGED <<resVars, net, txVars, chip, dpcVars, sched>>

\* et_sendnext: clear the bit of an empty queue,
SendClear(t) ==
    /\ pc[t] = "send"
    /\ txqState /\ txq = 0
    /\ txqState' = FALSE
    /\ UNCHANGED <<resVars, lock, pc, net, txq, ring, frames, chip, dpcVars, sched>>

\* post the next packet while there is a descriptor for it,
SendOne(t) ==
    /\ pc[t] = "send"
    /\ txqState /\ txq > 0 /\ TxAvail > 0
    /\ txq' = txq - 1
    /\ ChipTx
    /\ UNCHANGED <<resVars, lock, pc, net, txqState, chip, dpcVars, sched>>

\* Mutant: et_sendnext without netif_wake_queue.
FlowControlNoWake == net.stopped \/ txq > HiWat

\* The queue is stopped above the mark and woken below half of it.
FlowControl ==
    IF net.stopped THEN txq >= HiWat \div 2 ELSE txq > HiWat

\* and leave with the flow control, the queue's bit still set if the ring
\* is full.  The tasklet releases the lock, the dpc goes on.
SendEnd(t) ==
    /\ pc[t] = "send"
    /\ ~txqState \/ (txq > 0 /\ TxAvail = 0)
    /\ net' = [net EXCEPT !.stopped = FlowControl]
    /\ pc' = [pc EXCEPT ![t] = IF t = "dpc" THEN "end" ELSE "idle"]
    /\ lock' = IF t = "dpc" THEN lock ELSE "none"
    /\ UNCHANGED <<resVars, txVars, chip, dpcVars, sched>>

-----------------------------------------------------------------------------
(* Interrupt handler and dpc *)

\* et_isr tests up, with no lock,
IsrEnter ==
    /\ life = "live" /\ pc["isr"] = "idle"
    /\ intrs /\ cond \cap DefIntMask # {}
    /\ net.up
    /\ pc' = [pc EXCEPT !["isr"] = "read"]
    /\ UNCHANGED <<resVars, lock, net, txVars, chip, dpcVars, sched>>

\* reads the events, not for us if there are no new ones,
IsrRead ==
    /\ pc["isr"] = "read"
    /\ chint' = chint \cup NewBits(TRUE)
    /\ pc' = [pc EXCEPT !["isr"] = IF NewBits(TRUE) = {} THEN "idle" ELSE "mask"]
    /\ UNCHANGED <<resVars, lock, net, txVars, rxd, engine, cond, intrs,
                   dpcVars, sched>>

\* Mutant: chipintrsoff clears the whole status register.
IsrMaskAll ==
    /\ pc["isr"] = "mask"
    /\ intrs' = FALSE
    /\ cond' = {}
    /\ events' = chint
    /\ sched' = sched \cup {"dpc"}
    /\ pc' = [pc EXCEPT !["isr"] = "idle"]
    /\ UNCHANGED <<resVars, lock, net, txVars, rxd, engine, chint, resched>>

\* turns interrupts off, clears the status bits it has, hands the events to
\* the dpc and schedules it.
IsrMask ==
    /\ pc["isr"] = "mask"
    /\ intrs' = FALSE
    /\ cond' = cond \ chint
    /\ events' = chint
    /\ sched' = sched \cup {"dpc"}
    /\ pc' = [pc EXCEPT !["isr"] = "idle"]
    /\ UNCHANGED <<resVars, lock, net, txVars, rxd, engine, chint, resched>>

\* et_dpc gets the lock; it is done at once if the interface is down, and
\* reads the events again if it rescheduled itself.
DpcLock ==
    /\ pc["dpc"] = "wait" /\ lock = "none"
    /\ IF net.up
          THEN /\ lock' = "dpc"
               /\ pc' = [pc EXCEPT !["dpc"] = "work"]
               /\ IF resched
                     THEN /\ chint' = chint \cup NewBits(FALSE)
                          /\ events' = chint'
                     ELSE UNCHANGED <<chint, events>>
               /\ resched' = FALSE
          ELSE /\ pc' = [pc EXCEPT !["dpc"] = "idle"]
               /\ UNCHANGED <<lock, chint, dpcVars>>
    /\ UNCHANGED <<resVars, net, txVars, rxd, engine, cond, intrs, sched>>

\* et_dpc takes frames on INTR_RX, and on an error that is not fatal too.
Receives(fatal) == "RX" \in events \/ ("ERR" \in events /\ ~fatal)

\* Mutant: the status bit is cleared with frames left in the ring.
RxBitAlways(fatal) == IF Receives(fatal) THEN {"RX"} ELSE {}

\* et_rxevent takes up to Quota frames, posts new buffers and sends up what it
\* took, and asks for another run if it got that many; chiprx clears its
\* status bit only at an empty ring.
RxBit(fatal) == IF Receives(fatal) /\ rxd < Quota THEN {"RX"} ELSE {}
RxLeft(fatal) ==
    IF Receives(fatal) THEN IF rxd < Quota THEN 0 ELSE rxd - Quota ELSE rxd
RxAgain(fatal) == Receives(fatal) /\ rxd >= Quota

\* Mutant: the dpc leaves the transmit queue to the tasklet.
AfterWorkEnd == "end"

\* The dpc runs the transmit queue if any of its bits is set.
AfterWork == IF txqState THEN "send" ELSE "end"

\* chiperrors: an overrun or underflow of the receiver is not fatal, any
\* other error re-initialises the chip with interrupts left off.
DpcWork(fatal) ==
    /\ pc["dpc"] = "work"
    /\ fatal => "ERR" \in events
    /\ resched' = RxAgain(fatal)
    /\ chint' = chint \ (RxBit(fatal) \cup (events \cap {"TX", "ERR"}))
    /\ IF fatal
          THEN ChipInit(FALSE)
          ELSE /\ rxd' = RxLeft(fatal)
               /\ ring' = IF "TX" \in events THEN Reclaimed(ring) ELSE ring
               /\ UNCHANGED <<engine, intrs>>
    /\ pc' = [pc EXCEPT !["dpc"] = AfterWork]
    /\ UNCHANGED <<resVars, lock, net, txq, txqState, frames, cond, events, sched>>

\* Mutant: resched is set but the tasklet is not scheduled.
DpcEndForgets ==
    /\ pc["dpc"] = "end"
    /\ events' = {}
    /\ intrs' = ~resched
    /\ lock' = "none"
    /\ pc' = [pc EXCEPT !["dpc"] = "idle"]
    /\ UNCHANGED <<resVars, net, txVars, rxd, engine, cond, chint, resched, sched>>

\* The end of et_dpc: run again, or let the chip interrupt again.
DpcEnd ==
    /\ pc["dpc"] = "end"
    /\ events' = {}
    /\ IF resched
          THEN sched' = sched \cup {"dpc"} /\ UNCHANGED intrs
          ELSE intrs' = TRUE /\ UNCHANGED sched
    /\ lock' = "none"
    /\ pc' = [pc EXCEPT !["dpc"] = "idle"]
    /\ UNCHANGED <<resVars, net, txVars, rxd, engine, cond, chint, resched>>

-----------------------------------------------------------------------------
(* The hardware, while its engines are initialised *)

HwSend ==
    /\ life = "live" /\ engine /\ ring.posted > 0
    /\ ring' = [posted |-> ring.posted - 1, sent |-> ring.sent + 1]
    /\ cond' = cond \cup {"TX"}
    /\ UNCHANGED <<resVars, lock, pc, net, txq, txqState, frames, rxd, engine,
                   chint, intrs, dpcVars, sched>>

HwReceive ==
    /\ life = "live" /\ engine /\ rxd < RxRing
    /\ rxd' = rxd + 1
    /\ cond' = cond \cup {"RX"}
    /\ UNCHANGED <<resVars, lock, pc, net, txVars, engine, chint, intrs,
                   dpcVars, sched>>

HwError ==
    /\ life = "live" /\ engine
    /\ cond' = cond \cup {"ERR"}
    /\ UNCHANGED <<resVars, lock, pc, net, txVars, rxd, engine, chint, intrs,
                   dpcVars, sched>>

-----------------------------------------------------------------------------
Probe == ProbeStep \/ ProbeDone \/ ProbeFail

Control(c) ==
    \/ Up(c) \/ Down(c) \/ KillDpc(c) \/ Relock(c)
    \/ KillTxAndFlush(c) \/ Reset(c)

Send(t) == SendClear(t) \/ SendOne(t) \/ SendEnd(t)
Transmit == StartCall \/ StartDrop \/ StartQueue \/ StartSched
Isr == IsrEnter \/ IsrRead \/ IsrMask
Dpc == DpcLock \/ (\E fatal \in BOOLEAN : DpcWork(fatal)) \/ DpcEnd
Hardware == HwSend \/ HwReceive \/ HwError

Next ==
    \/ Probe \/ Remove
    \/ \E c \in Controllers : Control(c)
    \/ Transmit
    \/ \E t \in {"dpc", "txt"} : Start(t) \/ Send(t)
    \/ TxLock \/ Isr \/ Dpc \/ Hardware

Spec == Init /\ [][Next]_vars

\* A running context goes on, a raised interrupt is taken, a scheduled
\* tasklet runs, a spinning context gets the lock, and the chip sends what
\* is posted.  Nobody has to open or close the interface, no frame has to
\* arrive, no packet has to be handed in.
Fairness ==
    /\ WF_vars(ProbeStep \/ ProbeDone)
    /\ \A c \in Controllers :
          WF_vars(KillDpc(c) \/ KillTxAndFlush(c) \/ Reset(c)) /\ SF_vars(Relock(c))
    /\ WF_vars(StartDrop \/ StartQueue \/ StartSched)
    /\ \A t \in {"dpc", "txt"} : WF_vars(Start(t)) /\ WF_vars(Send(t))
    /\ SF_vars(TxLock) /\ SF_vars(DpcLock)
    /\ WF_vars(Isr)
    /\ WF_vars((\E fatal \in BOOLEAN : DpcWork(fatal)) \/ DpcEnd)
    /\ WF_vars(HwSend)

FairSpec == Spec /\ Fairness

-----------------------------------------------------------------------------
(* Properties *)

\* Every variable has its type, ET_LOCK has at most one holder and it is the
\* context that is inside, and the descriptors in use fit the ring.
TypeOK ==
    /\ life \in {"probing", "live", "failed", "gone"}
    /\ held \subseteq All
    /\ lock \in {"none", "dpc", "txt"} \cup Controllers
    /\ pc \in [Contexts -> Steps]
    /\ \A a \in {"dpc", "txt"} :
          lock = a <=> pc[a] \in {"work", "send", "end"}
    /\ \A c \in Controllers : lock = c <=> pc[c] \in {"killtx", "reset"}
    /\ net \in [up : BOOLEAN, stopped : BOOLEAN, present : BOOLEAN]
    /\ txq \in 0..Thresh /\ txqState \in BOOLEAN
    /\ ring \in [posted : Nat, sent : Nat] /\ ring.posted + ring.sent <= Ring
    /\ frames \in 0..RecThresh
    /\ rxd \in 0..RxRing /\ engine \in BOOLEAN
    /\ cond \subseteq Events /\ chint \subseteq Events /\ events \subseteq Events
    /\ intrs \in BOOLEAN /\ resched \in BOOLEAN
    /\ sched \subseteq {"dpc", "txt"}

\* A probe that fails at any step gives back all that it had acquired
\* (the fail path of et_probe and the detach functions below it).
ProbeUndone == life \in {"failed", "gone"} => held = {}

\* While the interface is up its interrupts are off only as long as a dpc
\* run is still to come that turns them on again (et_isr, et_dpc, et_up).
NotDeaf ==
    life = "live" /\ net.up /\ ~intrs =>
        "dpc" \in sched \/ pc["dpc"] # "idle"

\* The dpc is to come and looks at events, or, rescheduled, reads them again.
DpcToCome == "dpc" \in sched \/ pc["dpc"] \in {"wait", "work"}
DpcAgain == resched /\ ("dpc" \in sched \/ pc["dpc"] \in {"wait", "send", "end"})

\* What raised event e is not lost: the bit is up in the chip, or on its way
\* from the handler to the dpc.
Noticed(e) ==
    /\ e \in DefIntMask
    /\ \/ e \in cond
       \/ pc["isr"] = "mask" /\ e \in chint
       \/ DpcToCome /\ e \in events
       \/ DpcAgain /\ e \in chint

\* Somebody is to run et_sendnext.
SendToCome ==
    \/ pc["xmit"] = "sched" \/ "txt" \in sched \/ pc["txt"] \in {"wait", "send"}
    \/ DpcToCome \/ pc["dpc"] = "send"

FramesNoticed == rxd > 0 => Noticed("RX")
SentNoticed == ring.sent > 0 => Noticed("TX")
PacketsNoticed ==
    txq > 0 => txqState /\ (SendToCome \/ ring.posted > 0 \/ ring.sent > 0)
StopNoticed == net.stopped => txq > 0 \/ \E t \in {"dpc", "txt"} : pc[t] = "send"

\* Nothing is left lying in an interface that is up: a frame in the receive
\* ring and a sent descriptor have an event that is still to be handled,
\* a queued packet has a call of et_sendnext to come or a descriptor whose
\* event will cause one, and a stopped queue has a packet to be woken by.
NothingForgotten ==
    life = "live" /\ net.up =>
        FramesNoticed /\ SentNoticed /\ PacketsNoticed /\ StopNoticed

\* Received frames do not wait for ever in the ring of an interface that
\* stays up: no interrupt is lost between et_isr, et_dpc and the chip.
FramesTaken == []<>(~net.up \/ rxd = 0) \/ []<><<rxd' < rxd>>_vars

\* Queued packets do not wait for ever either, also after the descriptor
\* ring was full (et_sendnext, chiptxreclaim, et_dpc).
PacketsMove == []<>(~net.up \/ txq = 0) \/ []<><<txq' < txq>>_vars

\* A queue that flow control stopped is started again.
QueueWoken == []<>(~net.up \/ ~net.stopped)

\* et_down clears up "to prevent the ISR to scheduling any work items"
\* (et_linux.c): the handler schedules the dpc only while up is set.
IsrQuietWhenDown == [][IsrMask => net.up]_vars

\* "Now that all background activity ceased, it should be safe to proceed
\* with shutdown" (et_down): the shutdown gets there.
DownReturns ==
    \A c \in Controllers : (pc[c] = "killdpc") ~> (pc[c] = "idle")

=============================================================================
