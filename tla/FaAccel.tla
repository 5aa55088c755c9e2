------------------------------ MODULE FaAccel ------------------------------
(***************************************************************************)
(* hwoffload-research/fa-probe/fa_accel.c: the driver that turns the       *)
(* kernel's flow table REPLACE and DESTROY calls into rows of the flow     *)
(* accelerator's next-hop (NH) and NAPT-flow (NF) tables.                  *)
(*                                                                         *)
(* The tables are reached through one shared window: CONTROL (the WAR777   *)
(* queue threshold), MEM_ACC_CTL (which operation, table and index) and    *)
(* M_ACCDATA.  Every access is three stages that another CPU can fall      *)
(* between: select, transfer, end.  fa_flows_lock covers the slot array    *)
(* and none of this.                                                       *)
(*                                                                         *)
(* The kernel's flow table is outside the repository.  It hands each flow  *)
(* to every bound device's callback under one cookie, works on one flow at *)
(* a time per flow, on several flows at once on several CPUs (Concurrent), *)
(* and changes the set of bound devices only between such calls.           *)
(***************************************************************************)
EXTENDS Naturals

CONSTANTS
  Flow,        (* flow cookies: one per direction of a connection          *)
  NoFlow,      (* a slot that is not in_use                                *)
  Offloadable, (* the flows whose rule passes the IPv4, TCP and MAC checks *)
  Mac,         (* next-hop addresses                                       *)
  NextHop,     (* NextHop[f]: the destination address decoded for flow f   *)
  MaxSlots,    (* FA_MAX_LIVE_FLOWS                                        *)
  Devices,     (* how many devices the flow table can bind                 *)
  MaxLoads,    (* bound: how often the module is loaded                    *)
  Concurrent,  (* may the callbacks of two flows overlap?                  *)
  Faults       (* what else may happen: "busy"   a poll runs out,          *)
               (*                       "unload" rmmod with flows open,    *)
               (*                       "rebind" a device leaves meanwhile *)

ASSUME FaConstants ==
  /\ NoFlow \notin Flow
  /\ Offloadable \subseteq Flow
  /\ NextHop \in [Flow -> Mac]
  /\ MaxSlots \in Nat
  /\ Devices \in Nat
  /\ MaxLoads \in Nat
  /\ Concurrent \in BOOLEAN

VARIABLES
  mod,     (* "out", or loaded with live=0 ("log") or live=1 ("live")      *)
  loads,   (* loads so far, for MaxLoads                                   *)
  bound,   (* how many devices carry our flow_block callback               *)
  phase,   (* the flow table's view of each flow                           *)
  job,     (* the callback that runs for each flow, with its locals        *)
  slots,   (* fa_flows: the cookie in each slot, NoFlow when free          *)
  hwq,     (* CONTROL's queue threshold: "low" while WAR777 is on          *)
  ctl,     (* MEM_ACC_CTL                                                  *)
  acc,     (* M_ACCDATA                                                    *)
  hw       (* the tables' rows                                             *)

vars == <<mod, loads, bound, phase, job, slots, hwq, ctl, acc, hw>>

Slot == 1..MaxSlots
Index == 0..MaxSlots

Table == {"NH", "NF"}

Blank == [kind |-> "blank"]
NhRow(f) == [kind |-> "NH", mac |-> NextHop[f]]
NfRow(f, s, v) == [kind |-> "NF", flow |-> f, nh |-> s, valid |-> v]

NhRows == [kind : {"NH"}, mac : Mac]
NfRows == [kind : {"NF"}, flow : Flow, nh : Slot, valid : BOOLEAN]
Row == {Blank} \union NhRows \union NfRows

Ctl == [op : {"RD", "WR"}, tab : Table, idx : Index]

WriteStep == {"nhW", "nfW", "dW"}
ReadStep == {"nhR", "nfR", "dR"}
AccessStep == WriteStep \union ReadStep
Step == AccessStep \union {"call", "free"}

(* The access each step of a callback makes. *)
TableOf(st) == IF st \in {"nhW", "nhR"} THEN "NH" ELSE "NF"
OpOf(st) == IF st \in ReadStep THEN "RD" ELSE "WR"

Rest == [todo |-> 0, step |-> "call", stage |-> "select", slot |-> 0,
         idle |-> TRUE, row |-> Blank]

JobType == [todo : 0..Devices, step : Step, stage : {"select", "xfer", "end"},
            slot : Index, idle : BOOLEAN, row : Row]

Working(f) == phase[f] \in {"adding", "deleting"}
Quiet == \A f \in Flow : ~ Working(f)
AllClosed == \A f \in Flow : phase[f] = "closed"
-----------------------------------------------------------------------------
Init ==
  /\ mod = "out"
  /\ loads = 0
  /\ bound = 0
  /\ phase = [f \in Flow |-> "closed"]
  /\ job = [f \in Flow |-> Rest]
  /\ slots = [s \in Slot |-> NoFlow]
  /\ hwq = "def"
  /\ ctl = [op |-> "WR", tab |-> "NF", idx |-> 0]
  /\ acc = Blank
  /\ hw = [t \in Table |-> [i \in Index |-> Blank]]

(* fa_accel_init: the slot array is static, hence zero in a fresh module.  *)
Load(m) ==
  /\ mod = "out"
  /\ loads < MaxLoads
  /\ mod' = m
  /\ loads' = loads + 1
  /\ slots' = [s \in Slot |-> NoFlow]
  /\ UNCHANGED <<bound, phase, job, hwq, ctl, acc, hw>>

(* fa_accel_exit: unregistering detaches the callbacks; then the slots are *)
(* emptied and the tables are deliberately left as they are.               *)
Unload ==
  /\ mod # "out"
  /\ Quiet
  /\ "unload" \in Faults \/ AllClosed
  /\ mod' = "out"
  /\ bound' = 0
  /\ slots' = [s \in Slot |-> NoFlow]
  /\ UNCHANGED <<loads, phase, job, hwq, ctl, acc, hw>>

(* fa_indr_setup_cb: one callback per device, same function and cookies.   *)
Bind ==
  /\ mod # "out"
  /\ Quiet
  /\ bound < Devices
  /\ bound' = bound + 1
  /\ UNCHANGED <<mod, loads, phase, job, slots, hwq, ctl, acc, hw>>

Unbind ==
  /\ Quiet
  /\ bound > 0
  /\ "rebind" \in Faults \/ AllClosed
  /\ bound' = bound - 1
  /\ UNCHANGED <<mod, loads, phase, job, slots, hwq, ctl, acc, hw>>
-----------------------------------------------------------------------------
(* The flow table begins, and ends, calling every bound device for a flow. *)
Start(f, from, to) ==
  /\ phase[f] = from
  /\ Concurrent \/ Quiet
  /\ phase' = [phase EXCEPT ![f] = to]
  /\ job' = [job EXCEPT ![f] = [Rest EXCEPT !.todo = bound]]
  /\ UNCHANGED <<mod, loads, bound, slots, hwq, ctl, acc, hw>>

StartAdd(f) == Start(f, "closed", "adding")
StartDel(f) == Start(f, "open", "deleting")

Finish(f) ==
  /\ Working(f)
  /\ job[f].step = "call"
  /\ job[f].todo = 0
  /\ phase' = [phase EXCEPT ![f] = IF @ = "adding" THEN "open" ELSE "closed"]
  /\ UNCHANGED <<mod, loads, bound, job, slots, hwq, ctl, acc, hw>>

(* A callback for the next device is due. *)
Due(f, ph) ==
  /\ phase[f] = ph
  /\ job[f].step = "call"
  /\ job[f].todo > 0

(* One callback returns without having touched the hardware. *)
Skip(f) ==
  /\ job' = [job EXCEPT ![f].todo = @ - 1]
  /\ UNCHANGED <<mod, loads, bound, phase, slots, hwq, ctl, acc, hw>>

(* Enter the register work of a callback on slot s. *)
Enter(f, s, st) ==
  job' = [job EXCEPT ![f].todo = @ - 1, ![f].step = st,
                     ![f].stage = "select", ![f].slot = s]

Accepts(f) == mod = "live" /\ f \in Offloadable

(* Seeded fault: alloc takes a slot without looking at its in_use.         *)
FirstFreeUnchecked(s) == \A t \in Slot : t < s => slots[t] # NoFlow

(* fa_flow_alloc: the first slot that is not in_use. *)
FirstFree(s) ==
  /\ slots[s] = NoFlow
  /\ \A t \in Slot : t < s => slots[t] # NoFlow

(* Seeded faults: find takes any slot in use; find stops one slot short.   *)
FirstOfAnyCookie(f, s) ==
  slots[s] # NoFlow /\ \A t \in Slot : t < s => slots[t] = NoFlow
FirstOfShort(f, s) == s < MaxSlots /\ slots[s] = f

(* fa_flow_find: the first slot in_use with this cookie. *)
FirstOf(f, s) ==
  /\ slots[s] = f
  /\ \A t \in Slot : t < s => slots[t] # f

ReplaceSkip(f) ==
  /\ Due(f, "adding")
  /\ Accepts(f) => \A s \in Slot : ~ FirstFree(s)
  /\ Skip(f)

Replace(f) ==
  /\ Due(f, "adding")
  /\ Accepts(f)
  /\ \E s \in Slot :
       /\ FirstFree(s)
       /\ slots' = [slots EXCEPT ![s] = f]
       /\ Enter(f, s, "nhW")
  /\ UNCHANGED <<mod, loads, bound, phase, hwq, ctl, acc, hw>>

DestroySkip(f) ==
  /\ Due(f, "deleting")
  /\ mod = "live" => \A s \in Slot : ~ FirstOf(f, s)
  /\ Skip(f)

Destroy(f) ==
  /\ Due(f, "deleting")
  /\ mod = "live"
  /\ \E s \in Slot : FirstOf(f, s) /\ Enter(f, s, "dR")
  /\ UNCHANGED <<mod, loads, bound, phase, slots, hwq, ctl, acc, hw>>
-----------------------------------------------------------------------------
(* fa_macc_read and fa_macc_write, in three stages. *)
At(f, stage) == job[f].step \in AccessStep /\ job[f].stage = stage

(* Seeded fault: rows numbered from 0.                                     *)
SelectFrom0(f) ==
  /\ At(f, "select")
  /\ hwq' = "low"
  /\ ctl' = [op  |-> OpOf(job[f].step), tab |-> TableOf(job[f].step),
             idx |-> job[f].slot - 1]
  /\ job' = [job EXCEPT ![f].stage = "xfer"]
  /\ UNCHANGED <<mod, loads, bound, phase, slots, acc, hw>>

(* war777_on and the write of MEM_ACC_CTL. *)
Select(f) ==
  /\ At(f, "select")
  /\ hwq' = "low"
  /\ ctl' = [op  |-> OpOf(job[f].step), tab |-> TableOf(job[f].step),
             idx |-> job[f].slot]
  /\ job' = [job EXCEPT ![f].stage = "xfer"]
  /\ UNCHANGED <<mod, loads, bound, phase, slots, acc, hw>>

(* What a write step puts into M_ACCDATA: fa_set_nh_entry's row, then      *)
(* fa_prep_napt_ipv4_row's; for a destroy, the row read with the valid bit *)
(* cleared.                                                                *)
RowToWrite(f) ==
  CASE job[f].step = "nhW" -> NhRow(f)
    [] job[f].step = "nfW" -> NfRow(f, job[f].slot, TRUE)
    [] OTHER -> job[f].row

(* The engine performs whatever MEM_ACC_CTL now selects, and the poll of   *)
(* the BUSY bit ends: done, or out of polls with the access done or not.   *)
Transfer(f) ==
  /\ At(f, "xfer")
  /\ \E done, idle \in BOOLEAN :
       /\ idle => done
       /\ idle \/ "busy" \in Faults
       /\ job' = [job EXCEPT ![f].stage = "end", ![f].idle = idle]
       /\ IF job[f].step \in WriteStep
          THEN /\ acc' = RowToWrite(f)
               /\ hw' = IF done /\ ctl.op = "WR"
                        THEN [hw EXCEPT ![ctl.tab][ctl.idx] = RowToWrite(f)]
                        ELSE hw
          ELSE /\ acc' = IF done /\ ctl.op = "RD" THEN hw[ctl.tab][ctl.idx]
                                                  ELSE acc
               /\ UNCHANGED hw
  /\ UNCHANGED <<mod, loads, bound, phase, slots, hwq, ctl>>

(* Seeded fault: the valid bit stays set. *)
InvalidateNothing(r) == r

(* The valid bit of a row, cleared (nf_row[6] &= ~(1 << 20)). *)
Invalidate(r) == IF r.kind = "NF" THEN [r EXCEPT !.valid = FALSE] ELSE r

(* What an access has to show: the poll ended, and a row read back is the  *)
(* row that was written.  The seeded fault ignores the poll.               *)
ReadBackOk(f) ==
  CASE job[f].step = "nhR" -> acc = NhRow(f)
    [] job[f].step = "nfR" -> acc = NfRow(f, job[f].slot, TRUE)
    [] OTHER -> TRUE
PassedUnpolled(f) == ReadBackOk(f)
Passed(f) == job[f].idle /\ ReadBackOk(f)

(* The steps in order: nh_row and nf_row each written and read back, then  *)
(* acceptance ("call"); or the NF row read, cleared, and the slot freed.   *)
After(st) ==
  CASE st = "nhW" -> "nhR" [] st = "nhR" -> "nfW" [] st = "nfW" -> "nfR"
    [] st = "nfR" -> "call" [] st = "dR" -> "dW" [] OTHER -> "free"

(* The && chain of fa_flow_replace_live and the branch of                  *)
(* fa_flow_destroy_live.  The seeded fault retries a failed access.        *)
NextStepRetry(f) ==
  IF Passed(f) THEN After(job[f].step) ELSE job[f].step
NextStep(f) ==
  IF Passed(f) THEN After(job[f].step) ELSE "free"

(* A read clears MEM_ACC_CTL, which then selects a write of NF row 0; both *)
(* end with war777_off.                                                    *)
End(f) ==
  /\ At(f, "end")
  /\ hwq' = "def"
  /\ ctl' = IF job[f].step \in ReadStep
            THEN [op |-> "WR", tab |-> "NF", idx |-> 0] ELSE ctl
  /\ LET next == NextStep(f) IN
     job' = [job EXCEPT
               ![f].step  = next,
               ![f].stage = "select",
               ![f].idle  = TRUE,
               ![f].slot  = IF next = "call" THEN 0 ELSE @,
               ![f].row   = IF next = "dW" THEN Invalidate(acc) ELSE Blank]
  /\ UNCHANGED <<mod, loads, bound, phase, slots, acc, hw>>

(* fa_flow_free: after a failed replace, and at the end of every destroy.  *)
Free(f) ==
  /\ job[f].step = "free"
  /\ slots' = [slots EXCEPT ![job[f].slot] = NoFlow]
  /\ job' = [job EXCEPT ![f].step = "call", ![f].slot = 0]
  /\ UNCHANGED <<mod, loads, bound, phase, hwq, ctl, acc, hw>>
-----------------------------------------------------------------------------
(* What the kernel thread that runs a flow's callbacks does next. *)
Work(f) ==
  \/ ReplaceSkip(f) \/ Replace(f)
  \/ DestroySkip(f) \/ Destroy(f)
  \/ Select(f) \/ Transfer(f) \/ End(f) \/ Free(f)
  \/ Finish(f)

Next ==
  \/ Load("log") \/ Load("live")
  \/ Unload
  \/ Bind
  \/ Unbind
  \/ \E f \in Flow : StartAdd(f) \/ StartDel(f) \/ Work(f)

Spec == Init /\ [][Next]_vars

(* A running work item keeps running; nothing makes flows come or go.      *)
FairSpec == Spec /\ \A f \in Flow : WF_vars(Work(f))
-----------------------------------------------------------------------------
TypeOK ==
  /\ mod \in {"out", "log", "live"}
  /\ loads \in 0..MaxLoads
  /\ bound \in 0..Devices
  /\ phase \in [Flow -> {"closed", "adding", "open", "deleting"}]
  /\ job \in [Flow -> JobType]
  /\ slots \in [Slot -> Flow \union {NoFlow}]
  /\ hwq \in {"def", "low"}
  /\ ctl \in Ctl
  /\ acc \in Row
  /\ hw \in [Table -> [Index -> Row]]

(* However the callbacks of different flows interleave, a callback that    *)
(* works on a slot owns it: alloc and find return a slot whose cookie is   *)
(* its own, and no other callback frees or reuses it before fa_flow_free.  *)
SlotOwnership ==
  \A f \in Flow : job[f].slot # 0 => slots[job[f].slot] = f

(* A slot in use never passes straight to another cookie; only the         *)
(* callback working on it, or the unload, gives it up.                     *)
HandedBack ==
  \A s \in Slot :
    slots[s] \in Flow /\ slots'[s] # slots[s] =>
      /\ slots'[s] = NoFlow
      /\ job[slots[s]].slot = s \/ mod' = "out"
SlotHandover == [][HandedBack]_vars

(* The thread behind a REPLACE or DESTROY always gets through its devices: *)
(* the polls of wait_macc_idle are bounded and a failure is final.         *)
WorkEnds ==
  \A f \in Flow : /\ phase[f] = "adding" ~> phase[f] = "open"
                  /\ phase[f] = "deleting" ~> phase[f] = "closed"

(* "written+verified ... accepting offload": the rows of an accepted flow  *)
(* hold exactly its next hop and its tuple until its DESTROY takes them up *)
(* again, whatever other flows are added, rejected or removed meanwhile.   *)
AcceptedIntact ==
  \A s \in Slot : LET f == slots[s] IN
    f # NoFlow /\ job[f].slot # s =>
      /\ hw["NH"][s] = NhRow(f)
      /\ hw["NF"][s] = NfRow(f, s, TRUE)

(* "Index 0 is left alone": no row 0 is ever written, although every read  *)
(* leaves MEM_ACC_CTL selecting a write to it.                             *)
Index0Untouched == \A t \in Table : hw[t][0] = Blank

(* WAR777: the queue threshold is zero for the whole of every access.      *)
WarHeld ==
  \A f \in Flow : job[f].step \in AccessStep /\ job[f].stage # "select"
                    => hwq = "low"

(* The two disciplines by which the driver's accesses do no harm beyond    *)
(* their row: reads and time-outs in any order never turn into a write of  *)
(* row 0, and no access runs with the threshold another one restored.      *)
RegistersGuarded == Index0Untouched /\ WarHeld

(* The rows by which the hardware can forward a packet of flow f, and the  *)
(* next-hop rows they lead to.                                             *)
LiveRows(f) ==
  {i \in Index : LET r == hw["NF"][i] IN r.kind = "NF" /\ r.flow = f /\ r.valid}
ForwardsTo(f) == {hw["NH"][hw["NF"][i].nh] : i \in LiveRows(f)}

(* The hardware never sends a flow's packets to another flow's next hop.   *)
NoMisforward == \A f \in Flow : ForwardsTo(f) \subseteq {NhRow(f)}

(* The unload path's premise: a flow that closed normally has gone through *)
(* DESTROY, so only open flows still hold slots.                           *)
ClosedHoldsNoSlot ==
  \A s \in Slot : slots[s] \in Flow => phase[slots[s]] # "closed"

(* A flow the driver holds no slot for stays in software: no row forwards  *)
(* it.                                                                     *)
SoftwareOnly ==
  \A f \in Flow : (\A s \in Slot : slots[s] # f) => LiveRows(f) = {}
-----------------------------------------------------------------------------
(* Forwarding as its user sees it: every flow goes to its own next hop,    *)
(* from some point of its addition to some point of its removal.           *)
HF == INSTANCE HardwareForwarding WITH
        Target <- [f \in Flow |-> NhRow(f)],
        fwd    <- [f \in Flow |-> ForwardsTo(f)]

(* With one callback at a time and no faults the driver keeps that promise *)
(* whatever the number of devices and however full the table: in           *)
(* particular a flow reported closed has no row left.                      *)
ImplementsForwarding == HF!AbsSpec
=============================================================================
