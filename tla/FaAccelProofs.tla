--------------------------- MODULE FaAccelProofs ---------------------------
(* What holds of FaAccel for any number of flows, slots, devices, loads.   *)
EXTENDS FaAccel, FiniteSetTheorems, WellFoundedInduction, TLAPS

(* A callback has a slot exactly while it does register work or is about   *)
(* to free it, only work items have callbacks, and only a live module has  *)
(* register work under way.                                                *)
JobShape ==
  \A f \in Flow :
    /\ job[f].step = "call" => job[f].slot = 0
    /\ job[f].step # "call" => /\ job[f].slot \in Slot
                               /\ Working(f)
                               /\ mod = "live"

(* Only a live module has slots in use. *)
EmptyUnlessLive == mod # "live" => \A s \in Slot : slots[s] = NoFlow

(* Enough to make the ownership of slots inductive, overlap or not.        *)
OwnInv == TypeOK /\ JobShape /\ SlotOwnership /\ EmptyUnlessLive

LEMMA RowFacts ==
  /\ Blank \in Row
  /\ \A f \in Flow : NhRow(f) \in Row
  /\ \A f \in Flow, s \in Slot, v \in BOOLEAN : NfRow(f, s, v) \in Row
  /\ \A r \in Row : Invalidate(r) \in Row
<1>1. Blank \in Row
  BY DEF Row
<1>2. \A f \in Flow : NhRow(f) \in Row
  BY FaConstants DEF Row, NhRow, NhRows
<1>3. \A f \in Flow, s \in Slot, v \in BOOLEAN : NfRow(f, s, v) \in Row
  BY DEF Row, NfRow, NfRows
<1>4. ASSUME NEW r \in Row PROVE Invalidate(r) \in Row
  <2>1. CASE r.kind = "NF"
    <3>1. r \in NfRows
      BY <2>1 DEF Row, Blank, NhRows
    <3>2. QED BY <2>1, <3>1 DEF Row, Invalidate, NfRows
  <2>2. CASE r.kind # "NF"
    BY <2>2 DEF Invalidate
  <2>3. QED BY <2>1, <2>2
<1>5. QED BY <1>1, <1>2, <1>3, <1>4

LEMMA OwnInit == Init => OwnInv
<1> SUFFICES ASSUME Init PROVE OwnInv
  OBVIOUS
<1> USE DEF Init, Rest
<1>1. TypeOK
  BY RowFacts, FaConstants DEF TypeOK, JobType, Step, AccessStep, Index, Ctl, Table
<1>2. JobShape /\ SlotOwnership /\ EmptyUnlessLive
  BY DEF JobShape, SlotOwnership, EmptyUnlessLive
<1>3. QED BY <1>1, <1>2 DEF OwnInv

LEMMA OwnLoad == ASSUME NEW m \in {"log", "live"}, OwnInv, Load(m) PROVE OwnInv'
<1> USE DEF OwnInv, Load
<1>1. TypeOK'
  BY FaConstants DEF TypeOK
<1>2. \A f \in Flow : job[f].step = "call"
  BY DEF JobShape
<1>3. JobShape' /\ SlotOwnership' /\ EmptyUnlessLive'
  BY <1>2 DEF EmptyUnlessLive, JobShape, SlotOwnership, Working
<1>4. QED BY <1>1, <1>3

LEMMA OwnUnload == ASSUME OwnInv, Unload PROVE OwnInv'
<1> USE DEF OwnInv, Unload
<1>1. TypeOK'
  BY FaConstants DEF TypeOK
<1>2. \A f \in Flow : job[f].step = "call"
  BY DEF JobShape, Quiet
<1>3. JobShape' /\ SlotOwnership' /\ EmptyUnlessLive'
  BY <1>2 DEF EmptyUnlessLive, JobShape, SlotOwnership, Working
<1>4. QED BY <1>1, <1>3

LEMMA OwnBinding == ASSUME OwnInv, Bind \/ Unbind PROVE OwnInv'
<1>1. TypeOK'
  BY FaConstants DEF OwnInv, Bind, Unbind, TypeOK
<1>2. JobShape' /\ SlotOwnership' /\ EmptyUnlessLive'
  BY DEF EmptyUnlessLive, OwnInv, Bind, Unbind, JobShape, SlotOwnership, Working
<1>3. QED BY <1>1, <1>2 DEF OwnInv

LEMMA OwnStart ==
  ASSUME NEW f \in Flow, OwnInv, StartAdd(f) \/ StartDel(f) PROVE OwnInv'
<1> USE DEF OwnInv, StartAdd, StartDel, Start, Rest
<1> DEFINE fresh == [Rest EXCEPT !.todo = bound]
<1>1. TypeOK'
  <2>1. Blank \in Row /\ 0 \in Index
    BY RowFacts, FaConstants DEF Index
  <2>2. fresh \in JobType
    BY <2>1 DEF TypeOK, JobType, Step
  <2>3. job' = [job EXCEPT ![f] = fresh]
    OBVIOUS
  <2> HIDE DEF fresh
  <2>4. job' \in [Flow -> JobType]
    BY <2>2, <2>3 DEF TypeOK
  <2>5. phase' \in [Flow -> {"closed", "adding", "open", "deleting"}]
    BY DEF TypeOK
  <2>6. QED BY <2>4, <2>5 DEF TypeOK
<1>2. JobShape'
  BY DEF JobShape, Working, TypeOK
<1>3. SlotOwnership' /\ EmptyUnlessLive'
  BY DEF EmptyUnlessLive, SlotOwnership, TypeOK
<1>4. QED BY <1>1, <1>2, <1>3

LEMMA OwnFinish == ASSUME NEW f \in Flow, OwnInv, Finish(f) PROVE OwnInv'
<1> USE DEF OwnInv, Finish
<1>1. TypeOK'
  BY DEF TypeOK
<1>2. JobShape' /\ SlotOwnership' /\ EmptyUnlessLive'
  BY DEF EmptyUnlessLive, JobShape, Working, TypeOK, SlotOwnership
<1>3. QED BY <1>1, <1>2

LEMMA OwnSkip ==
  ASSUME NEW f \in Flow, OwnInv, ReplaceSkip(f) \/ DestroySkip(f) PROVE OwnInv'
<1> USE DEF OwnInv, ReplaceSkip, DestroySkip, Due, Skip
<1>1. TypeOK'
  <2>1. job[f].todo - 1 \in 0..Devices
    BY FaConstants DEF TypeOK, JobType
  <2>2. [job[f] EXCEPT !.todo = job[f].todo - 1] \in JobType
    BY <2>1 DEF TypeOK, JobType
  <2>3. QED BY <2>2 DEF TypeOK
<1>2. JobShape' /\ SlotOwnership' /\ EmptyUnlessLive'
  BY DEF EmptyUnlessLive, JobShape, Working, TypeOK, SlotOwnership, JobType
<1>3. QED BY <1>1, <1>2

(* A replace takes a slot nobody owns. *)
LEMMA OwnReplace == ASSUME NEW f \in Flow, OwnInv, Replace(f) PROVE OwnInv'
<1> USE DEF OwnInv, Replace, Due, Accepts, FirstFree, Enter
<1>1. PICK s \in Slot : /\ slots[s] = NoFlow
                        /\ slots' = [slots EXCEPT ![s] = f]
                        /\ Enter(f, s, "nhW")
  OBVIOUS
<1>2. TypeOK'
  <2> DEFINE next == [job[f] EXCEPT !.todo = job[f].todo - 1, !.step = "nhW",
                                    !.stage = "select", !.slot = s]
  <2>1. job'[f] \in JobType
    <3>1. job[f].todo - 1 \in 0..Devices /\ "nhW" \in Step /\ s \in Index
      BY FaConstants DEF TypeOK, JobType, Step, AccessStep, WriteStep, Index, Slot
    <3>2. next \in JobType
      BY <3>1 DEF TypeOK, JobType
    <3>3. job'[f] = next
      BY <1>1 DEF TypeOK
    <3>4. QED BY <3>2, <3>3
  <2>2. job' \in [Flow -> JobType]
    BY <1>1, <2>1 DEF TypeOK
  <2>3. QED BY <1>1, <2>2 DEF TypeOK
<1>3. JobShape'
  BY <1>1 DEF JobShape, Working, TypeOK, JobType, Slot
<1>4. SlotOwnership' /\ EmptyUnlessLive'
  BY <1>1, FaConstants DEF EmptyUnlessLive, SlotOwnership, TypeOK, JobType, Index, Slot
<1>5. QED BY <1>2, <1>3, <1>4

LEMMA OwnDestroy == ASSUME NEW f \in Flow, OwnInv, Destroy(f) PROVE OwnInv'
<1> USE DEF OwnInv, Destroy, Due, FirstOf, Enter
<1>1. PICK s \in Slot : slots[s] = f /\ Enter(f, s, "dR")
  OBVIOUS
<1>2. TypeOK'
  <2> DEFINE next == [job[f] EXCEPT !.todo = job[f].todo - 1, !.step = "dR",
                                    !.stage = "select", !.slot = s]
  <2>1. job'[f] \in JobType
    <3>1. job[f].todo - 1 \in 0..Devices /\ "dR" \in Step /\ s \in Index
      BY FaConstants DEF TypeOK, JobType, Step, AccessStep, ReadStep, Index, Slot
    <3>2. next \in JobType
      BY <3>1 DEF TypeOK, JobType
    <3>3. job'[f] = next
      BY <1>1 DEF TypeOK
    <3>4. QED BY <3>2, <3>3
  <2>2. job' \in [Flow -> JobType]
    BY <1>1, <2>1 DEF TypeOK
  <2>3. QED BY <1>1, <2>2 DEF TypeOK
<1>3. JobShape' /\ SlotOwnership' /\ EmptyUnlessLive'
  BY <1>1 DEF EmptyUnlessLive, JobShape, Working, TypeOK, JobType, Slot, SlotOwnership
<1>4. QED BY <1>2, <1>3

LEMMA OwnSelect == ASSUME NEW f \in Flow, OwnInv, Select(f) PROVE OwnInv'
<1> USE DEF OwnInv, Select, At
<1>1. TypeOK'
  BY DEF TypeOK, JobType, Ctl, OpOf, TableOf, Table
<1>2. JobShape' /\ SlotOwnership' /\ EmptyUnlessLive'
  BY DEF EmptyUnlessLive, JobShape, Working, TypeOK, JobType, SlotOwnership
<1>3. QED BY <1>1, <1>2

LEMMA WrittenRow ==
  ASSUME NEW f \in Flow, OwnInv, job[f].step \in AccessStep
  PROVE  RowToWrite(f) \in Row
BY RowFacts DEF OwnInv, TypeOK, JobType, JobShape, RowToWrite, AccessStep,
   WriteStep, ReadStep

LEMMA OwnTransfer == ASSUME NEW f \in Flow, OwnInv, Transfer(f) PROVE OwnInv'
<1> USE DEF OwnInv, Transfer, At
<1>1. RowToWrite(f) \in Row
  BY WrittenRow
<1>2. acc' \in Row /\ hw' \in [Table -> [Index -> Row]]
  <2>1. ctl.tab \in Table /\ ctl.idx \in Index /\ hw[ctl.tab][ctl.idx] \in Row
    BY DEF TypeOK, Ctl
  <2>2. [hw EXCEPT ![ctl.tab][ctl.idx] = RowToWrite(f)] \in [Table -> [Index -> Row]]
    BY <1>1, <2>1 DEF TypeOK
  <2>3. QED BY <1>1, <2>1, <2>2 DEF TypeOK
<1>3. job' \in [Flow -> JobType]
  <2>1. PICK idle \in BOOLEAN :
          job' = [job EXCEPT ![f].stage = "end", ![f].idle = idle]
    OBVIOUS
  <2>2. [job[f] EXCEPT !.stage = "end", !.idle = idle] \in JobType
    BY DEF TypeOK, JobType
  <2>3. QED BY <2>1, <2>2 DEF TypeOK
<1>4. TypeOK'
  BY <1>2, <1>3 DEF TypeOK
<1>5. JobShape' /\ SlotOwnership' /\ EmptyUnlessLive'
  BY DEF EmptyUnlessLive, JobShape, Working, TypeOK, JobType, SlotOwnership
<1>6. QED BY <1>4, <1>5

LEMMA NextStepFacts ==
  ASSUME NEW f \in Flow
  PROVE  /\ NextStep(f) \in Step
         /\ NextStep(f) = "call" => job[f].step = "nfR" /\ Passed(f)
BY DEF NextStep, After, Step, AccessStep, WriteStep, ReadStep

LEMMA OwnEnd == ASSUME NEW f \in Flow, OwnInv, End(f) PROVE OwnInv'
<1> USE DEF OwnInv, End, At
<1> DEFINE next == NextStep(f)
<1>1. next \in Step
  BY NextStepFacts
<1>2. job'[f] = [job[f] EXCEPT !.step = next, !.stage = "select", !.idle = TRUE,
                   !.slot = IF next = "call" THEN 0 ELSE job[f].slot,
                   !.row = IF next = "dW" THEN Invalidate(acc) ELSE Blank]
  BY DEF TypeOK, JobType
<1>3. \A g \in Flow : g # f => job'[g] = job[g]
  BY DEF TypeOK
<1>4. Invalidate(acc) \in Row /\ Blank \in Row
  BY RowFacts DEF TypeOK
<1> HIDE DEF next
<1>5. job' \in [Flow -> JobType]
  <2>1. job'[f] \in JobType
    BY <1>1, <1>2, <1>4 DEF TypeOK, JobType, Index
  <2>2. QED BY <2>1 DEF TypeOK
<1>6. ctl' \in Ctl
  BY FaConstants DEF TypeOK, Ctl, Table, Index
<1>7. TypeOK'
  BY <1>5, <1>6 DEF TypeOK
<1>8. job[f].step # "call"
  BY DEF AccessStep, WriteStep, ReadStep
<1>9. JobShape' /\ SlotOwnership' /\ EmptyUnlessLive'
  BY <1>2, <1>3, <1>8 DEF EmptyUnlessLive, JobShape, Working, TypeOK, JobType, SlotOwnership
<1>10. QED BY <1>7, <1>9

(* A slot is freed by its owner, and no other callback works on it. *)
LEMMA OwnFree == ASSUME NEW f \in Flow, OwnInv, Free(f) PROVE OwnInv'
<1> USE DEF OwnInv, Free
<1>1. TypeOK'
  <2>1. job'[f] \in JobType
    <3>1. "call" \in Step /\ 0 \in Index
      BY FaConstants DEF Step, Index
    <3>2. [job[f] EXCEPT !.step = "call", !.slot = 0] \in JobType
      BY <3>1 DEF TypeOK, JobType
    <3>3. QED BY <3>2 DEF TypeOK
  <2>2. job' \in [Flow -> JobType]
    BY <2>1 DEF TypeOK
  <2>3. slots' \in [Slot -> Flow \union {NoFlow}]
    BY DEF TypeOK
  <2>4. QED BY <2>2, <2>3 DEF TypeOK
<1>2. JobShape'
  BY DEF JobShape, Working, TypeOK, JobType
<1>3. SlotOwnership' /\ EmptyUnlessLive'
  BY FaConstants DEF EmptyUnlessLive, JobShape, SlotOwnership, TypeOK, JobType
<1>4. QED BY <1>1, <1>2, <1>3

LEMMA OwnStep == OwnInv /\ [Next]_vars => OwnInv'
<1> SUFFICES ASSUME OwnInv, [Next]_vars PROVE OwnInv'
  OBVIOUS
<1>1. CASE Load("log") \/ Load("live")
  BY <1>1, OwnLoad
<1>2. CASE Unload
  BY <1>2, OwnUnload
<1>3. CASE Bind \/ Unbind
  BY <1>3, OwnBinding
<1>4. ASSUME NEW f \in Flow, StartAdd(f) \/ StartDel(f) PROVE OwnInv'
  BY <1>4, OwnStart
<1>5. ASSUME NEW f \in Flow, Work(f) PROVE OwnInv'
  BY <1>5, OwnSkip, OwnReplace, OwnDestroy, OwnSelect, OwnTransfer, OwnEnd,
     OwnFree, OwnFinish DEF Work
<1>6. CASE UNCHANGED vars
  BY <1>6 DEF vars, OwnInv, TypeOK, JobShape, Working, SlotOwnership,
     EmptyUnlessLive
<1>7. QED BY <1>1, <1>2, <1>3, <1>4, <1>5, <1>6 DEF Next

(* Every state of every instance is well typed. *)
THEOREM TypeCorrect == Spec => []TypeOK
<1>1. Spec => []OwnInv
  BY OwnInit, OwnStep, PTL DEF Spec
<1>2. OwnInv => TypeOK
  BY DEF OwnInv
<1>3. QED BY <1>1, <1>2, PTL

(* fa_flows_lock is enough for the slot array: with any number of          *)
(* overlapping callbacks, each owns the slot it works on.                  *)
THEOREM SlotsOwned == Spec => []SlotOwnership
<1>1. Spec => []OwnInv
  BY OwnInit, OwnStep, PTL DEF Spec
<1>2. OwnInv => SlotOwnership
  BY DEF OwnInv
<1>3. QED BY <1>1, <1>2, PTL

(* A slot leaves its owner only through the owner's own fa_flow_free, or   *)
(* the unload.                                                             *)
THEOREM SlotsHandedBack == Spec => SlotHandover
<1>1. OwnInv /\ [Next]_vars => [HandedBack]_vars
  <2> SUFFICES ASSUME OwnInv, Next PROVE HandedBack
    OBVIOUS
  <2> USE DEF OwnInv, HandedBack
  <2>1. CASE Load("log") \/ Load("live")
    BY <2>1, FaConstants DEF Load, EmptyUnlessLive
  <2>2. CASE Unload
    BY <2>2 DEF Unload
  <2>3. CASE Bind \/ Unbind
    BY <2>3 DEF Bind, Unbind
  <2>4. ASSUME NEW f \in Flow, StartAdd(f) \/ StartDel(f) PROVE HandedBack
    BY <2>4 DEF StartAdd, StartDel, Start
  <2>5. ASSUME NEW f \in Flow, Replace(f) PROVE HandedBack
    BY <2>5, FaConstants DEF Replace, FirstFree, TypeOK
  <2>6. ASSUME NEW f \in Flow, Free(f) PROVE HandedBack
    BY <2>6, FaConstants DEF Free, TypeOK, JobShape, SlotOwnership, Slot
  <2>7. ASSUME NEW f \in Flow, Work(f), ~ Replace(f), ~ Free(f) PROVE HandedBack
    BY <2>7 DEF Work, ReplaceSkip, DestroySkip, Skip, Destroy, Select, Transfer,
       End, Finish
  <2>8. QED BY <2>1, <2>2, <2>3, <2>4, <2>5, <2>6, <2>7 DEF Next
<1>2. Spec => []OwnInv
  BY OwnInit, OwnStep, PTL DEF Spec
<1>3. QED BY <1>1, <1>2, PTL DEF Spec, SlotHandover
-----------------------------------------------------------------------------
(* One callback at a time: what holds between the registers and the worker *)
(* that uses them, and what a row that has been verified is.               *)
InAccess(f) == job[f].step \in AccessStep /\ job[f].stage # "select"

OneWorker == \A f, g \in Flow : Working(f) /\ Working(g) => f = g

CtlSelected ==
  \A f \in Flow : InAccess(f) =>
    ctl = [op |-> OpOf(job[f].step), tab |-> TableOf(job[f].step),
           idx |-> job[f].slot]

ReadFaithful ==
  \A f \in Flow :
    InAccess(f) /\ job[f].stage = "end" /\ job[f].step \in ReadStep /\ job[f].idle
      => acc = hw[TableOf(job[f].step)][job[f].slot]

NhVerified ==
  \A f \in Flow :
    job[f].step \in {"nfW", "nfR"} => hw["NH"][job[f].slot] = NhRow(f)

SerialInv ==
  /\ OwnInv
  /\ OneWorker /\ CtlSelected /\ ReadFaithful /\ NhVerified
  /\ AcceptedIntact /\ Index0Untouched /\ WarHeld

LEMMA SerialInit == Init => SerialInv
<1> SUFFICES ASSUME Init PROVE SerialInv
  OBVIOUS
<1>1. OwnInv
  BY OwnInit
<1>2. \A f \in Flow : ~ Working(f) /\ job[f] = Rest
  BY DEF Init, Working
<1>3. OneWorker /\ CtlSelected /\ ReadFaithful /\ NhVerified /\ WarHeld
  BY <1>2 DEF OneWorker, CtlSelected, ReadFaithful, NhVerified, WarHeld, InAccess,
     Rest, AccessStep, WriteStep, ReadStep
<1>4. AcceptedIntact /\ Index0Untouched
  BY FaConstants DEF Init, AcceptedIntact, Index0Untouched, Index
<1>5. QED BY <1>1, <1>3, <1>4 DEF SerialInv

(* Loading, unloading and (un)binding leave the registers alone; only      *)
(* slots are emptied.                                                      *)
LEMMA SerialModule ==
  ASSUME SerialInv, Load("log") \/ Load("live") \/ Unload \/ Bind \/ Unbind
  PROVE  SerialInv'
<1>1. OwnInv'
  BY OwnLoad, OwnUnload, OwnBinding DEF SerialInv
<1>2. /\ UNCHANGED <<phase, job, hwq, ctl, acc, hw>>
      /\ \A s \in Slot : slots'[s] \in {slots[s], NoFlow}
  BY DEF Load, Unload, Bind, Unbind
<1>3. (OneWorker /\ CtlSelected /\ ReadFaithful /\ NhVerified /\ WarHeld
         /\ Index0Untouched)'
  BY <1>2 DEF SerialInv, OneWorker, CtlSelected, ReadFaithful, NhVerified, WarHeld,
     InAccess, Working, Index0Untouched
<1>4. AcceptedIntact'
  BY <1>2, FaConstants DEF SerialInv, AcceptedIntact
<1>5. QED BY <1>1, <1>3, <1>4 DEF SerialInv

(* Outside accesses nothing touches the rows; a job may start (with no     *)
(* slot), finish, skip a device, or take up a slot it owns.                *)
LEMMA SerialStart ==
  ASSUME NEW f \in Flow, ~ Concurrent, SerialInv, StartAdd(f) \/ StartDel(f)
  PROVE  SerialInv'
<1> USE DEF SerialInv, StartAdd, StartDel, Start
<1>1. OwnInv'
  BY OwnStart
<1>2. Quiet /\ \A g \in Flow : job[g].slot = 0 /\ job[g].step = "call"
  BY DEF Quiet, OwnInv, JobShape
<1>3. \A g \in Flow : job'[g].slot = 0 /\ job'[g].step = "call"
  BY <1>2 DEF OwnInv, TypeOK, Rest
<1>4. OneWorker'
  BY <1>2 DEF OneWorker, Quiet, Working, OwnInv, TypeOK
<1>5. (CtlSelected /\ ReadFaithful /\ NhVerified /\ WarHeld)'
  BY <1>3 DEF CtlSelected, ReadFaithful, NhVerified, WarHeld, InAccess,
     AccessStep, WriteStep, ReadStep
<1>6. slots' = slots /\ hw' = hw /\ Index0Untouched'
  BY DEF Index0Untouched
<1>7. \A s \in Slot : slots[s] # NoFlow => job[slots[s]].slot # s
  BY <1>2, FaConstants DEF Slot, OwnInv, TypeOK
<1>8. AcceptedIntact'
  BY <1>6, <1>7 DEF AcceptedIntact, NhRow, NfRow
<1>9. QED BY <1>1, <1>4, <1>5, <1>6, <1>8

(* Everyone but the one worker rests. *)
LEMMA OthersRest ==
  ASSUME NEW f \in Flow, SerialInv, Working(f)
  PROVE  \A g \in Flow : g # f => /\ ~ Working(g)
                                  /\ job[g].step = "call"
                                  /\ job[g].slot = 0
BY DEF SerialInv, OneWorker, OwnInv, JobShape

LEMMA EnteredSlot ==
  ASSUME NEW f \in Flow, NEW s \in Slot, NEW st, job \in [Flow -> JobType],
         Enter(f, s, st)
  PROVE  job'[f].slot = s
BY DEF Enter, JobType

(* Between two accesses the worker may finish, skip a device, or take a    *)
(* slot: the rows stay, and the slot taken is exempt until it is verified. *)
LEMMA SerialBetween ==
  ASSUME NEW f \in Flow, SerialInv,
         Finish(f) \/ ReplaceSkip(f) \/ DestroySkip(f) \/ Replace(f) \/ Destroy(f)
  PROVE  SerialInv'
<1> USE DEF Finish, ReplaceSkip, DestroySkip, Replace, Destroy, Due, Skip
<1>1. OwnInv'
  BY OwnFinish, OwnSkip, OwnReplace, OwnDestroy DEF SerialInv
<1>2. /\ Working(f) /\ job[f].step = "call"
      /\ UNCHANGED <<hwq, ctl, acc, hw>>
  BY DEF Working
<1>3. \A g \in Flow : g # f =>
        job'[g] = job[g] /\ job[g].step = "call" /\ job[g].slot = 0
  BY <1>2, OthersRest DEF SerialInv, OwnInv, TypeOK, Enter
<1>4. /\ job'[f].step \in {"call", "nhW", "dR"}
      /\ job'[f].step # "call" => job'[f].stage = "select"
  BY <1>2 DEF SerialInv, OwnInv, TypeOK, JobType, Enter
<1>5. OneWorker'
  BY <1>2, OthersRest DEF SerialInv, OneWorker, Working, OwnInv, TypeOK
<1>6. (CtlSelected /\ ReadFaithful /\ NhVerified /\ WarHeld)'
  BY <1>3, <1>4 DEF CtlSelected, ReadFaithful, NhVerified, WarHeld, InAccess,
     AccessStep, WriteStep, ReadStep
<1>7. Index0Untouched'
  BY <1>2 DEF SerialInv, Index0Untouched
<1>8. AcceptedIntact'
  <2> SUFFICES ASSUME NEW s \in Slot, slots'[s] # NoFlow, job'[slots'[s]].slot # s
               PROVE  /\ hw["NH"][s] = NhRow(slots'[s])
                      /\ hw["NF"][s] = NfRow(slots'[s], s, TRUE)
    BY <1>2 DEF AcceptedIntact
  <2>1. slots'[s] = slots[s]
    <3>1. CASE Replace(f)
      <4>1. PICK t \in Slot : /\ slots' = [slots EXCEPT ![t] = f]
                              /\ Enter(f, t, "nhW")
        BY <3>1
      <4>2. job'[f].slot = t
        BY <4>1, EnteredSlot DEF SerialInv, OwnInv, TypeOK
      <4>3. s # t
        BY <4>1, <4>2 DEF SerialInv, OwnInv, TypeOK
      <4>4. QED BY <4>1, <4>3 DEF SerialInv, OwnInv, TypeOK
    <3>2. CASE ~ Replace(f)
      BY <3>2
    <3>3. QED BY <3>1, <3>2
  <2>2. slots[s] \in Flow
    BY <2>1 DEF SerialInv, OwnInv, TypeOK
  <2>3. job[slots[s]].slot # s
    BY <1>2, <1>3, <2>1, <2>2 DEF SerialInv, OwnInv, JobShape, Slot
  <2>4. QED BY <2>1, <2>3 DEF SerialInv, AcceptedIntact
<1>9. QED BY <1>1, <1>5, <1>6, <1>7, <1>8 DEF SerialInv

LEMMA SerialSelect == ASSUME NEW f \in Flow, SerialInv, Select(f) PROVE SerialInv'
<1> USE DEF Select, At
<1>1. OwnInv'
  BY OwnSelect DEF SerialInv
<1>2. Working(f)
  BY DEF SerialInv, OwnInv, JobShape, AccessStep, WriteStep, ReadStep
<1>3. \A g \in Flow : g # f =>
        job'[g] = job[g] /\ job[g].step = "call" /\ job[g].slot = 0
  BY <1>2, OthersRest DEF SerialInv, OwnInv, TypeOK
<1>4. job'[f] = [job[f] EXCEPT !.stage = "xfer"]
  BY DEF SerialInv, OwnInv, TypeOK
<1>5. OneWorker'
  BY DEF SerialInv, OneWorker, Working
<1>6. (CtlSelected /\ ReadFaithful /\ WarHeld)'
  BY <1>3, <1>4 DEF CtlSelected, ReadFaithful, WarHeld, InAccess, AccessStep,
     WriteStep, ReadStep, SerialInv, OwnInv, TypeOK, JobType
<1>7. \A g \in Flow : job'[g].step = job[g].step /\ job'[g].slot = job[g].slot
  BY <1>3, <1>4 DEF SerialInv, OwnInv, TypeOK, JobType
<1>8. (NhVerified /\ Index0Untouched /\ AcceptedIntact)'
  BY <1>7 DEF SerialInv, OwnInv, TypeOK, NhVerified, Index0Untouched, AcceptedIntact
<1>9. QED BY <1>1, <1>5, <1>6, <1>8 DEF SerialInv

(* The one place where a row changes: it is the worker's own slot's row,   *)
(* in the table of its step.                                               *)
LEMMA SerialTransfer == ASSUME NEW f \in Flow, SerialInv, Transfer(f) PROVE SerialInv'
<1> USE DEF Transfer, At
<1> DEFINE k == job[f].slot
           st == job[f].step
<1>1. OwnInv'
  BY OwnTransfer DEF SerialInv
<1>2. /\ Working(f) /\ k \in Slot /\ slots[k] = f /\ st \in AccessStep
      /\ ctl = [op |-> OpOf(st), tab |-> TableOf(st), idx |-> k]
  BY DEF SerialInv, OwnInv, JobShape, SlotOwnership, CtlSelected, InAccess,
     AccessStep, WriteStep, ReadStep, Slot
<1>3. PICK idle \in BOOLEAN :
        /\ job' = [job EXCEPT ![f].stage = "end", ![f].idle = idle]
        /\ st \in ReadStep /\ idle => acc' = hw[TableOf(st)][k] /\ hw' = hw
  BY <1>2 DEF OpOf, AccessStep, WriteStep, ReadStep
<1>4. \A g \in Flow : g # f =>
        job'[g] = job[g] /\ job[g].step = "call" /\ job[g].slot = 0
  BY <1>2, OthersRest DEF SerialInv, OwnInv, TypeOK
<1>5. job'[f] = [job[f] EXCEPT !.stage = "end", !.idle = idle]
  BY <1>3 DEF SerialInv, OwnInv, TypeOK
<1>6. \A g \in Flow : job'[g].step = job[g].step /\ job'[g].slot = job[g].slot
  BY <1>4, <1>5 DEF SerialInv, OwnInv, TypeOK, JobType
<1>7. hw' = hw \/ /\ st \in WriteStep
                  /\ hw' = [hw EXCEPT ![TableOf(st)][k] = RowToWrite(f)]
  BY <1>2 DEF AccessStep, WriteStep, ReadStep
<1>8. \A t \in Table, i \in Index : i # k => hw'[t][i] = hw[t][i]
  BY <1>7 DEF SerialInv, OwnInv, TypeOK
<1>9. OneWorker'
  BY DEF SerialInv, OneWorker, Working
<1>10. (CtlSelected /\ WarHeld)'
  BY <1>2, <1>4, <1>6 DEF SerialInv, OwnInv, CtlSelected, WarHeld, InAccess, AccessStep,
     WriteStep, ReadStep, TypeOK, JobType
<1>11. ReadFaithful'
  BY <1>3, <1>4, <1>5, <1>6 DEF ReadFaithful, InAccess, AccessStep, WriteStep,
     ReadStep, SerialInv, OwnInv, TypeOK, JobType
<1>12. NhVerified'
  <2> SUFFICES ASSUME st \in {"nfW", "nfR"} PROVE hw'["NH"][k] = NhRow(f)
    BY <1>4, <1>6 DEF NhVerified
  <2>1. TableOf(st) = "NF" /\ hw["NH"][k] = NhRow(f)
    BY DEF TableOf, SerialInv, NhVerified
  <2>2. hw'["NH"] = hw["NH"]
    BY <1>7, <2>1 DEF SerialInv, OwnInv, TypeOK, Table
  <2>3. QED BY <2>1, <2>2
<1>13. Index0Untouched'
  <2>1. 0 \in Index /\ 0 # k
    BY <1>2, FaConstants DEF Slot, Index
  <2>2. QED BY <1>8, <2>1 DEF SerialInv, Index0Untouched
<1>14. AcceptedIntact'
  <2> SUFFICES ASSUME NEW s \in Slot, slots[s] # NoFlow, job'[slots[s]].slot # s
               PROVE  /\ hw'["NH"][s] = NhRow(slots[s])
                      /\ hw'["NF"][s] = NfRow(slots[s], s, TRUE)
    BY DEF AcceptedIntact
  <2>1. slots[s] \in Flow
    BY DEF SerialInv, OwnInv, TypeOK
  <2>2. job[slots[s]].slot # s
    BY <1>6, <2>1
  <2>3. s # k
    BY <1>2, <2>2
  <2>4. s \in Index
    BY DEF Index, Slot
  <2>5. hw'["NH"][s] = hw["NH"][s] /\ hw'["NF"][s] = hw["NF"][s]
    BY <1>8, <2>3, <2>4 DEF Table
  <2>6. QED BY <2>2, <2>5 DEF SerialInv, AcceptedIntact
<1>15. QED BY <1>1, <1>9, <1>10, <1>11, <1>12, <1>13, <1>14 DEF SerialInv

(* An access ends: the && chain moves on only past what was verified, and  *)
(* acceptance is the end of the read-back of the NF row.                   *)
LEMMA SerialEnd == ASSUME NEW f \in Flow, SerialInv, End(f) PROVE SerialInv'
<1> USE DEF End, At
<1> DEFINE k == job[f].slot
           st == job[f].step
<1>1. OwnInv'
  BY OwnEnd DEF SerialInv
<1>2. Working(f) /\ k \in Slot /\ slots[k] = f /\ st \in AccessStep
  BY DEF SerialInv, OwnInv, JobShape, SlotOwnership, AccessStep, WriteStep,
     ReadStep, Slot
<1>3. \A g \in Flow : g # f =>
        job'[g] = job[g] /\ job[g].step = "call" /\ job[g].slot = 0
  BY <1>2, OthersRest DEF SerialInv, OwnInv, TypeOK
<1>4. /\ job'[f].step = NextStep(f) /\ job'[f].stage = "select"
      /\ job'[f].slot = IF NextStep(f) = "call" THEN 0 ELSE k
  BY DEF SerialInv, OwnInv, TypeOK, JobType
<1>5. OneWorker'
  BY DEF SerialInv, OneWorker, Working
<1>6. (CtlSelected /\ ReadFaithful /\ WarHeld)'
  BY <1>3, <1>4 DEF CtlSelected, ReadFaithful, WarHeld, InAccess, AccessStep,
     WriteStep, ReadStep
<1>7. Passed(f) /\ st = "nhR" => hw["NH"][k] = NhRow(f)
  BY DEF Passed, ReadBackOk, SerialInv, ReadFaithful, InAccess, AccessStep,
     ReadStep, TableOf
<1>8. Passed(f) /\ st = "nfR" => hw["NF"][k] = NfRow(f, k, TRUE)
  BY DEF Passed, ReadBackOk, SerialInv, ReadFaithful, InAccess, AccessStep,
     ReadStep, TableOf
<1>9. NhVerified'
  <2> SUFFICES ASSUME NextStep(f) \in {"nfW", "nfR"} PROVE hw["NH"][k] = NhRow(f)
    BY <1>3, <1>4 DEF NhVerified
  <2>1. Passed(f) /\ st \in {"nhR", "nfW"}
    BY DEF NextStep, After
  <2>2. QED BY <1>7, <2>1 DEF SerialInv, NhVerified
<1>10. Index0Untouched'
  BY DEF SerialInv, Index0Untouched
<1>11. AcceptedIntact'
  <2> SUFFICES ASSUME NEW s \in Slot, slots[s] # NoFlow, job'[slots[s]].slot # s
               PROVE  /\ hw["NH"][s] = NhRow(slots[s])
                      /\ hw["NF"][s] = NfRow(slots[s], s, TRUE)
    BY DEF AcceptedIntact
  <2>1. slots[s] \in Flow
    BY DEF SerialInv, OwnInv, TypeOK
  <2>2. CASE s # k
    BY <1>2, <1>3, <2>1, <2>2 DEF SerialInv, AcceptedIntact, Slot
  <2>3. CASE s = k
    <3>1. NextStep(f) = "call"
      BY <1>2, <1>4, <2>3
    <3>2. st = "nfR" /\ Passed(f)
      BY <3>1, NextStepFacts
    <3>3. QED BY <1>2, <1>8, <2>3, <3>2 DEF SerialInv, NhVerified
  <2>4. QED BY <2>2, <2>3
<1>12. QED BY <1>1, <1>5, <1>6, <1>9, <1>10, <1>11 DEF SerialInv

LEMMA SerialFree == ASSUME NEW f \in Flow, SerialInv, Free(f) PROVE SerialInv'
<1> USE DEF Free
<1>1. OwnInv'
  BY OwnFree DEF SerialInv
<1>2. Working(f) /\ job[f].slot \in Slot /\ slots[job[f].slot] = f
  BY DEF SerialInv, OwnInv, JobShape, SlotOwnership, Slot
<1>3. \A g \in Flow : g # f =>
        job'[g] = job[g] /\ job[g].step = "call" /\ job[g].slot = 0
  BY <1>2, OthersRest DEF SerialInv, OwnInv, TypeOK
<1>4. job'[f].step = "call" /\ job'[f].slot = 0
  BY DEF SerialInv, OwnInv, TypeOK, JobType
<1>5. OneWorker'
  BY DEF SerialInv, OneWorker, Working
<1>6. (CtlSelected /\ ReadFaithful /\ NhVerified /\ WarHeld /\ Index0Untouched)'
  BY <1>3, <1>4 DEF CtlSelected, ReadFaithful, NhVerified, WarHeld, InAccess,
     AccessStep, WriteStep, ReadStep, SerialInv, Index0Untouched
<1>7. AcceptedIntact'
  <2> SUFFICES ASSUME NEW s \in Slot, slots'[s] # NoFlow, job'[slots'[s]].slot # s
               PROVE  /\ hw["NH"][s] = NhRow(slots'[s])
                      /\ hw["NF"][s] = NfRow(slots'[s], s, TRUE)
    BY DEF AcceptedIntact
  <2>1. s # job[f].slot /\ slots'[s] = slots[s] /\ slots[s] \in Flow
    BY <1>2 DEF SerialInv, OwnInv, TypeOK
  <2>2. job[slots[s]].slot # s
    BY <1>3, <2>1 DEF Slot
  <2>3. QED BY <2>1, <2>2 DEF SerialInv, AcceptedIntact
<1>8. QED BY <1>1, <1>5, <1>6, <1>7 DEF SerialInv

LEMMA SerialStep == ASSUME ~ Concurrent PROVE SerialInv /\ [Next]_vars => SerialInv'
<1> SUFFICES ASSUME SerialInv, [Next]_vars PROVE SerialInv'
  OBVIOUS
<1>1. CASE Load("log") \/ Load("live") \/ Unload \/ Bind \/ Unbind
  BY <1>1, SerialModule
<1>2. ASSUME NEW f \in Flow, StartAdd(f) \/ StartDel(f) PROVE SerialInv'
  BY <1>2, SerialStart
<1>3. ASSUME NEW f \in Flow, Work(f) PROVE SerialInv'
  BY <1>3, SerialBetween, SerialSelect, SerialTransfer, SerialEnd, SerialFree
     DEF Work
<1>4. CASE UNCHANGED vars
  <2>1. OwnInv'
    BY <1>4, OwnStep DEF SerialInv
  <2>2. (OneWorker /\ CtlSelected /\ ReadFaithful /\ NhVerified)'
    BY <1>4 DEF vars, SerialInv, OneWorker, CtlSelected, ReadFaithful, NhVerified,
       Working, InAccess
  <2>3. (AcceptedIntact /\ Index0Untouched /\ WarHeld)'
    BY <1>4 DEF vars, SerialInv, AcceptedIntact, Index0Untouched, WarHeld
  <2>4. QED BY <2>1, <2>2, <2>3 DEF SerialInv
<1>5. QED BY <1>1, <1>2, <1>3, <1>4 DEF Next

(* "written+verified ... accepting offload": as long as callbacks do not   *)
(* overlap, the rows of every accepted flow stay exactly as accepted,      *)
(* through timeouts, full tables, unloads and devices coming and going.    *)
THEOREM AcceptedRowsIntact == ASSUME ~ Concurrent PROVE Spec => []AcceptedIntact
<1>1. Spec => []SerialInv
  BY SerialInit, SerialStep, PTL DEF Spec
<1>2. SerialInv => AcceptedIntact
  BY DEF SerialInv
<1>3. QED BY <1>1, <1>2, PTL

(* Row 0 is never written, and WAR777 covers every access, under the same  *)
(* assumption.                                                             *)
THEOREM RegisterDiscipline ==
  ASSUME ~ Concurrent PROVE Spec => []RegistersGuarded
<1>1. Spec => []SerialInv
  BY SerialInit, SerialStep, PTL DEF Spec
<1>2. SerialInv => RegistersGuarded
  BY DEF SerialInv, RegistersGuarded
<1>3. QED BY <1>1, <1>2, PTL
-----------------------------------------------------------------------------
(* Every DESTROY takes up a slot of its flow, and every REPLACE at most    *)
(* one, so that a flow's slots never outnumber the callbacks yet to come.  *)
Held(f) == {s \in Slot : slots[s] = f}
InCall(f) == IF job[f].step = "call" THEN 0 ELSE 1

CountedFor(f) ==
  /\ job[f].step \in {"nhW", "nhR", "nfW", "nfR"} => phase[f] = "adding"
  /\ job[f].step \in {"dR", "dW"} => phase[f] = "deleting"
  /\ phase[f] = "closed" => Held(f) = {}
  /\ phase[f] = "adding" => Cardinality(Held(f)) + job[f].todo <= bound
  /\ phase[f] = "open" => Cardinality(Held(f)) <= bound
  /\ phase[f] = "deleting" => Cardinality(Held(f)) <= job[f].todo + InCall(f)

CountInv == OwnInv /\ \A f \in Flow : CountedFor(f)

(* A set of naturals that has a member has a least one. *)
LEMMA Least ==
  ASSUME NEW T \in SUBSET Nat, T # {}
  PROVE  \E x \in T : \A y \in T : ~ (y < x)
<1>1. IsWellFoundedOn(OpToRel(<, Nat), Nat)
  BY NatLessThanWellFounded
<1>2. \E x \in T : \A y \in T : ~ (<<y, x>> \in OpToRel(<, Nat))
  BY <1>1, WFMin, Zenon
<1>3. \A x, y \in Nat : y < x => <<y, x>> \in OpToRel(<, Nat)
  BY DEF OpToRel
<1>4. QED BY <1>2, <1>3, Zenon

(* fa_flow_find finds a slot of the flow if it has one. *)
LEMMA Found ==
  ASSUME NEW f \in Flow, Held(f) # {}
  PROVE  \E s \in Slot : FirstOf(f, s)
<1>1. Held(f) \in SUBSET Nat
  BY DEF Held, Slot
<1>2. PICK s \in Held(f) : \A t \in Held(f) : ~ (t < s)
  BY <1>1, Least
<1>3. QED BY <1>2 DEF Held, FirstOf

LEMMA HeldFinite ==
  ASSUME NEW f \in Flow
  PROVE  /\ IsFiniteSet(Held(f)) /\ Cardinality(Held(f)) \in Nat
         /\ Cardinality(Held(f)) = 0 <=> Held(f) = {}
<1>1. IsFiniteSet(Slot)
  BY FaConstants, FS_Interval DEF Slot
<1>2. IsFiniteSet(Held(f))
  BY <1>1, FS_Subset DEF Held
<1>3. QED BY <1>2, FS_CardinalityType, FS_EmptySet

LEMMA CountInit == Init => CountInv
<1> SUFFICES ASSUME Init PROVE CountInv
  OBVIOUS
<1>1. OwnInv
  BY OwnInit
<1>2. ASSUME NEW f \in Flow PROVE CountedFor(f)
  <2>1. phase[f] = "closed" /\ job[f].step = "call"
    BY DEF Init, Rest
  <2>2. Held(f) = {}
    BY FaConstants DEF Init, Held
  <2>3. QED BY <2>1, <2>2 DEF CountedFor
<1>3. QED BY <1>1, <1>2 DEF CountInv

(* What is counted of a flow depends on its own job, phase and slots. *)
LEMMA CountedSame ==
  ASSUME NEW f \in Flow, CountedFor(f), job'[f] = job[f], phase'[f] = phase[f],
         bound' = bound, Held(f)' = Held(f)
  PROVE  CountedFor(f)'
BY DEF CountedFor, InCall

LEMMA CountModule ==
  ASSUME "rebind" \notin Faults, CountInv,
         Load("log") \/ Load("live") \/ Unload \/ Bind \/ Unbind
  PROVE  CountInv'
<1> USE DEF CountInv
<1>1. OwnInv'
  BY OwnLoad, OwnUnload, OwnBinding
<1>2. UNCHANGED <<phase, job>>
  BY DEF Load, Unload, Bind, Unbind
<1>3. ASSUME NEW f \in Flow PROVE CountedFor(f)'
  <2>1. /\ Cardinality(Held(f)) \in Nat /\ bound \in Nat /\ job[f].todo \in Nat
        /\ Cardinality(Held(f)) = 0 <=> Held(f) = {}
    BY HeldFinite, FaConstants DEF OwnInv, TypeOK, JobType
  <2>2. phase[f] \in {"closed", "adding", "open", "deleting"} /\ CountedFor(f)
    BY DEF OwnInv, TypeOK
  <2>3. CASE Load("log") \/ Load("live")
    <3>1. Held(f)' = {} /\ Held(f) = {} /\ bound' = bound
      BY <2>3, FaConstants DEF Load, Held, OwnInv, EmptyUnlessLive
    <3>2. QED BY <1>2, <2>2, <3>1, CountedSame
  <2>4. CASE Unload
    <3>1. Held(f)' = {} /\ bound' = 0 /\ phase[f] \in {"closed", "open"}
      BY <2>2, <2>4, FaConstants DEF Unload, Held, Quiet, Working
    <3>2. Cardinality(Held(f)') = 0
      BY <3>1, FS_EmptySet
    <3>3. QED BY <1>2, <2>2, <3>1, <3>2 DEF CountedFor
  <2>5. CASE Bind
    <3>1. Held(f)' = Held(f) /\ bound' = bound + 1 /\ phase[f] \in {"closed", "open"}
      BY <2>2, <2>5 DEF Bind, Held, Quiet, Working
    <3>2. QED BY <1>2, <2>1, <2>2, <3>1 DEF CountedFor
  <2>6. CASE Unbind
    <3>1. Held(f)' = Held(f) /\ phase[f] = "closed"
      BY <2>6 DEF Unbind, Held, AllClosed
    <3>2. QED BY <1>2, <2>2, <3>1 DEF CountedFor
  <2>7. QED BY <2>3, <2>4, <2>5, <2>6
<1>4. QED BY <1>1, <1>3

LEMMA CountStart ==
  ASSUME CountInv, NEW f \in Flow, StartAdd(f) \/ StartDel(f)
  PROVE  CountInv'
<1> USE DEF CountInv, StartAdd, StartDel, Start
<1>1. OwnInv'
  BY OwnStart
<1>2. \A g \in Flow : Held(g)' = Held(g)
  BY DEF Held
<1>3. ASSUME NEW g \in Flow, g # f PROVE CountedFor(g)'
  <2>1. job'[g] = job[g] /\ phase'[g] = phase[g] /\ bound' = bound
    BY <1>3 DEF OwnInv, TypeOK
  <2>2. QED BY <1>2, <2>1, CountedSame
<1>4. CountedFor(f)'
  <2>1. /\ job'[f].todo = bound /\ job'[f].step = "call" /\ bound' = bound
        /\ \/ phase[f] = "closed" /\ phase'[f] = "adding"
           \/ phase[f] = "open" /\ phase'[f] = "deleting"
    BY DEF OwnInv, TypeOK, Rest
  <2>2. Cardinality(Held(f)) \in Nat /\ bound \in Nat
        /\ (Cardinality(Held(f)) = 0 <=> Held(f) = {})
    BY HeldFinite, FaConstants DEF OwnInv, TypeOK
  <2>3. QED BY <1>2, <2>1, <2>2 DEF CountedFor, InCall
<1>5. QED BY <1>1, <1>3, <1>4

LEMMA CountSkip ==
  ASSUME CountInv, NEW f \in Flow, Finish(f) \/ ReplaceSkip(f) \/ DestroySkip(f)
  PROVE  CountInv'
<1> USE DEF CountInv
<1>1. OwnInv'
  BY OwnFinish, OwnSkip
<1>2. \A g \in Flow : Held(g)' = Held(g)
  BY DEF Held, Finish, ReplaceSkip, DestroySkip, Skip
<1>3. ASSUME NEW g \in Flow, g # f PROVE CountedFor(g)'
  <2>1. job'[g] = job[g] /\ phase'[g] = phase[g] /\ bound' = bound
    BY <1>3 DEF OwnInv, TypeOK, Finish, ReplaceSkip, DestroySkip, Skip
  <2>2. QED BY <1>2, <2>1, CountedSame
<1>4. CountedFor(f)'
  <2>1. /\ Cardinality(Held(f)) \in Nat /\ bound \in Nat /\ job[f].todo \in Nat
        /\ Cardinality(Held(f)) = 0 <=> Held(f) = {}
    BY HeldFinite, FaConstants DEF OwnInv, TypeOK, JobType
  <2>2. CASE Finish(f)
    <3>1. /\ job' = job /\ bound' = bound /\ job[f].step = "call" /\ job[f].todo = 0
          /\ \/ phase[f] = "adding" /\ phase'[f] = "open"
             \/ phase[f] = "deleting" /\ phase'[f] = "closed"
      BY <2>2 DEF Finish, Working, OwnInv, TypeOK
    <3>2. QED BY <1>2, <2>1, <3>1 DEF CountedFor, InCall
  <2>3. CASE ReplaceSkip(f) \/ DestroySkip(f)
    <3>1. /\ job'[f].step = "call" /\ job[f].step = "call" /\ job[f].todo > 0
          /\ job'[f].todo = job[f].todo - 1 /\ bound' = bound /\ phase' = phase
          /\ \/ phase[f] = "adding"
             \/ phase[f] = "deleting" /\ DestroySkip(f)
      BY <2>3 DEF ReplaceSkip, DestroySkip, Skip, Due, OwnInv, TypeOK, JobType
    <3>2. DestroySkip(f) => Held(f) = {}
      <4>1. ASSUME DestroySkip(f), mod = "live" PROVE Held(f) = {}
        BY <4>1, Found DEF DestroySkip
      <4>2. ASSUME mod # "live" PROVE Held(f) = {}
        BY <4>2, FaConstants DEF OwnInv, EmptyUnlessLive, Held
      <4>3. QED BY <4>1, <4>2
    <3>3. QED BY <1>2, <2>1, <3>1, <3>2 DEF CountedFor, InCall
  <2>4. QED BY <2>2, <2>3
<1>5. QED BY <1>1, <1>3, <1>4

(* A callback begins its work: a slot more, and a callback less to come.   *)
LEMMA CountEnter ==
  ASSUME CountInv, NEW f \in Flow, Replace(f) \/ Destroy(f)
  PROVE  CountInv'
<1> USE DEF CountInv
<1>1. OwnInv'
  BY OwnReplace, OwnDestroy
<1>2. PICK s \in Slot, st \in {"nhW", "dR"} :
        /\ Enter(f, s, st) /\ UNCHANGED <<phase, bound>>
        /\ job[f].step = "call" /\ job[f].todo > 0
        /\ \/ /\ st = "nhW" /\ phase[f] = "adding" /\ slots[s] = NoFlow
              /\ slots' = [slots EXCEPT ![s] = f]
           \/ st = "dR" /\ phase[f] = "deleting" /\ slots' = slots
  BY DEF Replace, Destroy, Due, FirstFree
<1>3. ASSUME NEW g \in Flow, g # f PROVE CountedFor(g)'
  <2>1. job'[g] = job[g] /\ phase'[g] = phase[g] /\ bound' = bound
    BY <1>2, <1>3 DEF OwnInv, TypeOK, Enter
  <2>2. Held(g)' = Held(g)
    BY <1>2, <1>3, FaConstants DEF Held, OwnInv, TypeOK
  <2>3. QED BY <2>1, <2>2, CountedSame
<1>4. CountedFor(f)'
  <2>1. /\ job'[f].step = st /\ job'[f].todo = job[f].todo - 1
        /\ phase'[f] = phase[f] /\ bound' = bound
    BY <1>2 DEF Enter, OwnInv, TypeOK, JobType
  <2>2. job[f].todo \in Nat /\ bound \in Nat
    BY FaConstants DEF OwnInv, TypeOK, JobType
  <2>3. CASE st = "dR"
    <3>1. Held(f)' = Held(f) /\ phase[f] = "deleting"
      BY <1>2, <2>3 DEF Held
    <3>2. Cardinality(Held(f)) \in Nat
      BY HeldFinite
    <3>3. QED BY <1>2, <2>1, <2>2, <2>3, <3>1, <3>2 DEF CountedFor, InCall
  <2>4. CASE st = "nhW"
    <3>1. Held(f)' = Held(f) \union {s} /\ s \notin Held(f) /\ phase[f] = "adding"
      BY <1>2, <2>4, FaConstants DEF Held, OwnInv, TypeOK
    <3>2. Cardinality(Held(f)') = Cardinality(Held(f)) + 1
      BY <3>1, HeldFinite, FS_AddElement
    <3>3. Cardinality(Held(f)) \in Nat
      BY HeldFinite
    <3>4. QED BY <1>2, <2>1, <2>2, <2>4, <3>1, <3>2, <3>3 DEF CountedFor, InCall
  <2>5. QED BY <2>3, <2>4
<1>5. QED BY <1>1, <1>3, <1>4

LEMMA CountAccess ==
  ASSUME CountInv, NEW f \in Flow, Select(f) \/ Transfer(f) \/ End(f)
  PROVE  CountInv'
<1> USE DEF CountInv
<1>1. OwnInv'
  BY OwnSelect, OwnTransfer, OwnEnd
<1>2. \A g \in Flow : Held(g)' = Held(g)
  BY DEF Held, Select, Transfer, End
<1>3. ASSUME NEW g \in Flow, g # f PROVE CountedFor(g)'
  <2>1. job'[g] = job[g] /\ phase'[g] = phase[g] /\ bound' = bound
    BY <1>3 DEF OwnInv, TypeOK, Select, Transfer, End
  <2>2. QED BY <1>2, <2>1, CountedSame
<1>4. CountedFor(f)'
  <2>1. /\ job[f].step \in AccessStep /\ UNCHANGED <<phase, bound>>
        /\ job'[f].todo = job[f].todo
        /\ job'[f].step = job[f].step \/ job'[f].step = NextStep(f)
    BY DEF Select, Transfer, End, At, OwnInv, TypeOK, JobType
  <2>2. \/ job'[f].step = job[f].step
        \/ job'[f].step = "free"
        \/ job[f].step = "nhW" /\ job'[f].step = "nhR"
        \/ job[f].step = "nhR" /\ job'[f].step = "nfW"
        \/ job[f].step = "nfW" /\ job'[f].step = "nfR"
        \/ job[f].step = "nfR" /\ job'[f].step = "call"
        \/ job[f].step = "dR" /\ job'[f].step = "dW"
    BY <2>1 DEF NextStep, After, AccessStep, WriteStep, ReadStep
  <2>3. job[f].step # "call"
    BY <2>1 DEF AccessStep, WriteStep, ReadStep
  <2>4. QED BY <1>2, <2>1, <2>2, <2>3 DEF CountedFor, InCall
<1>5. QED BY <1>1, <1>3, <1>4

LEMMA CountFree ==
  ASSUME CountInv, NEW f \in Flow, Free(f)
  PROVE  CountInv'
<1> USE DEF CountInv, Free
<1> DEFINE k == job[f].slot
<1>1. OwnInv'
  BY OwnFree
<1>2. k \in Slot /\ slots[k] = f /\ Working(f)
  BY DEF OwnInv, JobShape, SlotOwnership, Slot
<1>3. ASSUME NEW g \in Flow, g # f PROVE CountedFor(g)'
  <2>1. job'[g] = job[g] /\ phase'[g] = phase[g] /\ bound' = bound
    BY <1>3 DEF OwnInv, TypeOK
  <2>2. Held(g)' = Held(g)
    BY <1>2, <1>3, FaConstants DEF Held, OwnInv, TypeOK
  <2>3. QED BY <2>1, <2>2, CountedSame
<1>4. CountedFor(f)'
  <2>1. /\ job[f].step = "free" /\ job'[f].step = "call" /\ job'[f].todo = job[f].todo
        /\ phase'[f] = phase[f] /\ bound' = bound /\ phase[f] \in {"adding", "deleting"}
    BY <1>2 DEF Working, OwnInv, TypeOK, JobType
  <2>2. job[f].todo \in Nat /\ bound \in Nat
    BY FaConstants DEF OwnInv, TypeOK, JobType
  <2>3. Held(f)' = Held(f) \ {k} /\ k \in Held(f)
    BY <1>2, FaConstants DEF Held, OwnInv, TypeOK
  <2>4. Cardinality(Held(f)') = Cardinality(Held(f)) - 1
    BY <2>3, HeldFinite, FS_RemoveElement
  <2>5. Cardinality(Held(f)) \in Nat
    BY HeldFinite
  <2>6. QED BY <2>1, <2>2, <2>4, <2>5 DEF CountedFor, InCall
<1>5. QED BY <1>1, <1>3, <1>4

LEMMA CountStep ==
  ASSUME "rebind" \notin Faults PROVE CountInv /\ [Next]_vars => CountInv'
<1> SUFFICES ASSUME CountInv, [Next]_vars PROVE CountInv'
  OBVIOUS
<1>1. CASE Load("log") \/ Load("live") \/ Unload \/ Bind \/ Unbind
  BY <1>1, CountModule
<1>2. ASSUME NEW f \in Flow, StartAdd(f) \/ StartDel(f) PROVE CountInv'
  BY <1>2, CountStart
<1>3. ASSUME NEW f \in Flow, Work(f) PROVE CountInv'
  BY <1>3, CountSkip, CountEnter, CountAccess, CountFree DEF Work
<1>4. CASE UNCHANGED vars
  <2>1. OwnInv'
    BY <1>4, OwnStep DEF CountInv
  <2>2. ASSUME NEW f \in Flow PROVE CountedFor(f)'
    <3>1. job' = job /\ phase' = phase /\ bound' = bound /\ Held(f)' = Held(f)
      BY <1>4 DEF vars, Held
    <3>2. QED BY <3>1, CountedSame DEF CountInv
  <2>3. QED BY <2>1, <2>2 DEF CountInv
<1>5. QED BY <1>1, <1>2, <1>3, <1>4 DEF Next

(* A flow that closed holds no slot, so that unloading afterwards strands  *)
(* no row of it: however the callbacks overlap, whichever polls run out,   *)
(* and with the module unloaded under open flows.  Only a device that      *)
(* leaves while a flow is open takes that flow's DESTROY with it.          *)
THEOREM ClosedFlowsHoldNothing ==
  ASSUME "rebind" \notin Faults PROVE Spec => []ClosedHoldsNoSlot
<1>1. CountInv /\ [Next]_vars => CountInv'
  BY CountStep
<1>2. CountInv => ClosedHoldsNoSlot
  BY DEF CountInv, CountedFor, ClosedHoldsNoSlot, Held
<1>3. QED BY <1>1, <1>2, CountInit, PTL DEF Spec
-----------------------------------------------------------------------------
(* One callback at a time and no faults: what the rows of a callback at    *)
(* work are, step by step, and whose every valid row is.                   *)
Calm == ~ Concurrent /\ Faults = {}

Forwards(r) == r.kind = "NF" /\ r.valid
NfAt(f) == hw["NF"][job[f].slot]
NhAt(f) == hw["NH"][job[f].slot]
Over(f) == job[f].stage = "end"

CalmJob(f) ==
  /\ job[f].step \in AccessStep /\ Over(f) => job[f].idle
  /\ job[f].step = "nhR" \/ (job[f].step = "nhW" /\ Over(f)) => NhAt(f) = NhRow(f)
  /\ job[f].step = "nfR" \/ (job[f].step = "nfW" /\ Over(f)) =>
       NfAt(f) = NfRow(f, job[f].slot, TRUE)
  /\ job[f].step = "dW" => ~ Forwards(job[f].row)
  /\ job[f].step = "free" \/ (job[f].step = "dW" /\ Over(f)) => ~ Forwards(NfAt(f))
  /\ job[f].step = "free" => phase[f] = "deleting"

LiveOwned ==
  \A i \in Index : LET r == hw["NF"][i] IN
    Forwards(r) => /\ i \in Slot /\ slots[i] = r.flow
                   /\ r.nh = i /\ hw["NH"][i] = NhRow(r.flow)

CalmInv == SerialInv /\ CountInv /\ (\A f \in Flow : CalmJob(f)) /\ LiveOwned

LEMMA CalmInit == Init => CalmInv
<1> SUFFICES ASSUME Init PROVE CalmInv
  OBVIOUS
<1>1. SerialInv /\ CountInv
  BY SerialInit, CountInit
<1>2. \A f \in Flow : CalmJob(f)
  BY DEF Init, Rest, CalmJob, AccessStep, WriteStep, ReadStep
<1>3. LiveOwned
  BY DEF Init, LiveOwned, Forwards, Blank, Table
<1>4. QED BY <1>1, <1>2, <1>3 DEF CalmInv

LEMMA CalmJobSame ==
  ASSUME NEW f \in Flow, CalmJob(f), job'[f] = job[f], phase'[f] = phase[f], hw' = hw
  PROVE  CalmJob(f)'
BY DEF CalmJob, Over, NhAt, NfAt

(* Steps that leave the rows, and the jobs at work on them, alone.         *)
LEMMA CalmAside ==
  ASSUME CalmInv, UNCHANGED hw,
         \A f \in Flow : CalmJob(f)',
         \A s \in Slot : Forwards(hw["NF"][s]) => slots'[s] = slots[s]
  PROVE  (\A f \in Flow : CalmJob(f)') /\ LiveOwned'
BY DEF CalmInv, LiveOwned

LEMMA CalmModule ==
  ASSUME CalmInv, Load("log") \/ Load("live") \/ Unload \/ Bind \/ Unbind, Calm
  PROVE  (\A f \in Flow : CalmJob(f)') /\ LiveOwned'
<1>1. UNCHANGED <<phase, job, hw>>
  BY DEF Load, Unload, Bind, Unbind
<1>2. \A f \in Flow : CalmJob(f)'
  BY <1>1 DEF CalmInv, CalmJob, Over, NhAt, NfAt
<1>3. ASSUME NEW s \in Slot PROVE slots'[s] = slots[s]
  <2>1. CASE Load("log") \/ Load("live")
    BY <2>1 DEF Load, CalmInv, CountInv, OwnInv, EmptyUnlessLive
  <2>2. CASE Unload
    <3>1. \A f \in Flow : Held(f) = {}
      BY <2>2 DEF Unload, Calm, AllClosed, CalmInv, CountInv, CountedFor
    <3>2. slots[s] = NoFlow
      BY <3>1 DEF Held, CalmInv, CountInv, OwnInv, TypeOK
    <3>3. QED BY <2>2, <3>2 DEF Unload
  <2>3. CASE Bind \/ Unbind
    BY <2>3 DEF Bind, Unbind
  <2>4. QED BY <2>1, <2>2, <2>3
<1>4. QED BY <1>1, <1>2, <1>3, CalmAside

(* A callback is taken up, or passed over, with its register work ahead.   *)
LEMMA CalmBegins ==
  ASSUME CalmInv, NEW f \in Flow,
         StartAdd(f) \/ StartDel(f) \/ Finish(f) \/ ReplaceSkip(f) \/ DestroySkip(f)
           \/ Replace(f) \/ Destroy(f)
  PROVE  (\A g \in Flow : CalmJob(g)') /\ LiveOwned'
<1>1. UNCHANGED hw
  BY DEF StartAdd, StartDel, Start, Finish, ReplaceSkip, DestroySkip, Skip, Replace, Destroy
<1>2. /\ \A g \in Flow : g # f => job'[g] = job[g] /\ phase'[g] = phase[g]
      /\ job'[f].step \in {"call", "nhW", "dR"}
      /\ job'[f].step # "call" => job'[f].stage = "select"
  <2>1. CASE StartAdd(f) \/ StartDel(f)
    BY <2>1 DEF StartAdd, StartDel, Start, Rest, CalmInv, CountInv, OwnInv, TypeOK
  <2>2. CASE Finish(f) \/ ReplaceSkip(f) \/ DestroySkip(f)
    BY <2>2 DEF Finish, ReplaceSkip, DestroySkip, Due, Skip, CalmInv, CountInv, OwnInv, TypeOK,
                JobType
  <2>3. CASE Replace(f) \/ Destroy(f)
    BY <2>3 DEF Replace, Destroy, Enter, CalmInv, CountInv, OwnInv, TypeOK, JobType
  <2>4. QED BY <2>1, <2>2, <2>3
<1>3. ASSUME NEW g \in Flow PROVE CalmJob(g)'
  <2>1. CASE g # f
    BY <1>1, <1>2, <2>1, CalmJobSame DEF CalmInv
  <2>2. CASE g = f
    BY <1>2, <2>2 DEF CalmJob, Over, AccessStep, WriteStep, ReadStep
  <2>3. QED BY <2>1, <2>2
<1>4. ASSUME NEW s \in Slot, Forwards(hw["NF"][s]) PROVE slots'[s] = slots[s]
  <2>1. s \in Index
    BY DEF Slot, Index
  <2>2. hw["NF"][s] \in Row
    BY <2>1 DEF CalmInv, CountInv, OwnInv, TypeOK, Table
  <2>3. hw["NF"][s].flow \in Flow
    BY <1>4, <2>2 DEF Forwards, Row, Blank, NhRows, NfRows
  <2>4. slots[s] # NoFlow
    BY <1>4, <2>1, <2>3, FaConstants DEF CalmInv, LiveOwned
  <2>5. QED BY <2>4 DEF StartAdd, StartDel, Start, Finish, ReplaceSkip, DestroySkip, Skip,
                        Replace, Destroy, FirstFree, CalmInv, CountInv, OwnInv, TypeOK
<1>5. QED BY <1>1, <1>3, <1>4, CalmAside

LEMMA CalmSelect ==
  ASSUME CalmInv, NEW f \in Flow, Select(f)
  PROVE  (\A g \in Flow : CalmJob(g)') /\ LiveOwned'
<1>1. UNCHANGED <<hw, slots, phase>>
  BY DEF Select
<1>2. /\ \A g \in Flow : g # f => job'[g] = job[g]
      /\ job'[f].step = job[f].step /\ job'[f].stage = "xfer"
      /\ job'[f].slot = job[f].slot /\ job'[f].row = job[f].row
  BY DEF Select, CalmInv, CountInv, OwnInv, TypeOK, JobType
<1>3. ASSUME NEW g \in Flow PROVE CalmJob(g)'
  <2>1. CASE g # f
    BY <1>1, <1>2, <2>1, CalmJobSame DEF CalmInv
  <2>2. CASE g = f
    <3>1. CalmJob(f) /\ NhAt(f)' = NhAt(f) /\ NfAt(f)' = NfAt(f)
      BY <1>1, <1>2 DEF CalmInv, NhAt, NfAt
    <3>2. QED BY <1>1, <1>2, <2>2, <3>1 DEF CalmJob, Over
  <2>3. QED BY <2>1, <2>2
<1>4. QED BY <1>1, <1>3, CalmAside

(* Without faults a transfer does what its step says. *)
LEMMA CalmTransferred ==
  ASSUME CalmInv, Calm, NEW f \in Flow, Transfer(f)
  PROVE  /\ Working(f) /\ job[f].slot \in Slot /\ slots[job[f].slot] = f
         /\ job[f].step \in AccessStep
         /\ \A g \in Flow : g # f => job'[g] = job[g] /\ job[g].step = "call"
         /\ job'[f].step = job[f].step /\ job'[f].stage = "end" /\ job'[f].idle
         /\ job'[f].slot = job[f].slot /\ job'[f].row = job[f].row
         /\ hw' = IF job[f].step \in WriteStep
                  THEN [hw EXCEPT ![TableOf(job[f].step)][job[f].slot] = RowToWrite(f)]
                  ELSE hw
<1> USE DEF Transfer, At
<1> DEFINE k == job[f].slot
           st == job[f].step
<1>1. /\ Working(f) /\ k \in Slot /\ slots[k] = f /\ st \in AccessStep
      /\ ctl = [op |-> OpOf(st), tab |-> TableOf(st), idx |-> k]
  BY DEF CalmInv, SerialInv, OwnInv, JobShape, SlotOwnership, CtlSelected, InAccess,
     AccessStep, WriteStep, ReadStep, Slot
<1>2. /\ job' = [job EXCEPT ![f].stage = "end", ![f].idle = TRUE]
      /\ st \in WriteStep => hw' = IF ctl.op = "WR"
                                   THEN [hw EXCEPT ![ctl.tab][ctl.idx] = RowToWrite(f)]
                                   ELSE hw
      /\ st \notin WriteStep => hw' = hw
  BY DEF Calm
<1>3. st \in WriteStep => OpOf(st) = "WR"
  BY DEF OpOf, WriteStep, ReadStep
<1>4. /\ job'[f].step = st /\ job'[f].stage = "end" /\ job'[f].idle
      /\ job'[f].slot = k /\ job'[f].row = job[f].row
      /\ \A g \in Flow : g # f => job'[g] = job[g]
  BY <1>2 DEF CalmInv, CountInv, OwnInv, TypeOK, JobType
<1>5. \A g \in Flow : g # f => job[g].step = "call"
  BY <1>1, OthersRest DEF CalmInv, SerialInv
<1>6. hw' = IF st \in WriteStep THEN [hw EXCEPT ![TableOf(st)][k] = RowToWrite(f)] ELSE hw
  BY <1>1, <1>2, <1>3
<1>7. QED BY <1>1, <1>4, <1>5, <1>6

LEMMA CalmTransfer ==
  ASSUME CalmInv, Calm, NEW f \in Flow, Transfer(f)
  PROVE  (\A g \in Flow : CalmJob(g)') /\ LiveOwned'
<1> DEFINE k == job[f].slot
           st == job[f].step
<1>1. /\ k \in Slot /\ slots[k] = f /\ st \in AccessStep /\ k \in Index
      /\ \A g \in Flow : g # f => job'[g] = job[g] /\ job[g].step = "call"
      /\ job'[f].step = st /\ job'[f].stage = "end" /\ job'[f].idle
      /\ job'[f].slot = k /\ job'[f].row = job[f].row
      /\ UNCHANGED <<slots, phase>>
  <2>1. UNCHANGED <<slots, phase>>
    BY DEF Transfer
  <2>2. \A i \in Slot : i \in Index
    BY DEF Slot, Index
  <2>3. QED BY <2>1, <2>2, CalmTransferred
<1>2. hw' = IF st \in WriteStep THEN [hw EXCEPT ![TableOf(st)][k] = RowToWrite(f)] ELSE hw
  BY CalmTransferred
<1>3. hw \in [Table -> [Index -> Row]]
  BY DEF CalmInv, CountInv, OwnInv, TypeOK
<1>4. \A t \in Table, i \in Index : i # k => hw'[t][i] = hw[t][i]
  BY <1>2, <1>3
<1>5. /\ hw'["NH"][k] = IF st = "nhW" THEN NhRow(f) ELSE hw["NH"][k]
      /\ hw'["NF"][k] = IF st = "nfW" THEN NfRow(f, k, TRUE)
                        ELSE IF st = "dW" THEN job[f].row ELSE hw["NF"][k]
  BY <1>1, <1>2, <1>3 DEF TableOf, RowToWrite, WriteStep, ReadStep, AccessStep, Table
<1>6. CalmJob(f) /\ (st = "nfW" => hw["NH"][k] = NhRow(f))
  BY DEF CalmInv, SerialInv, NhVerified
<1>7. ASSUME NEW g \in Flow PROVE CalmJob(g)'
  <2>1. CASE g = f
    <3>1. NhAt(f)' = hw'["NH"][k] /\ NfAt(f)' = hw'["NF"][k]
      BY <1>1 DEF NhAt, NfAt
    <3>2. QED BY <1>1, <1>5, <1>6, <2>1, <3>1 DEF CalmJob, Over, NhAt, NfAt, AccessStep,
                                                    WriteStep, ReadStep
  <2>2. CASE g # f
    BY <1>1, <2>2 DEF CalmJob, AccessStep, WriteStep, ReadStep
  <2>3. QED BY <2>1, <2>2
<1>8. ASSUME NEW i \in Index, Forwards(hw'["NF"][i])
      PROVE  /\ i \in Slot /\ slots[i] = hw'["NF"][i].flow
             /\ hw'["NF"][i].nh = i /\ hw'["NH"][i] = NhRow(hw'["NF"][i].flow)
  <2>1. CASE i # k
    <3>1. hw'["NF"][i] = hw["NF"][i] /\ hw'["NH"][i] = hw["NH"][i]
      BY <1>4, <2>1 DEF Table
    <3>2. QED BY <1>8, <3>1 DEF CalmInv, LiveOwned
  <2>2. CASE i = k /\ st = "nfW"
    BY <1>1, <1>5, <1>6, <2>2 DEF NfRow
  <2>3. CASE i = k /\ st # "nfW"
    <3>1. hw'["NF"][k] = hw["NF"][k]
      BY <1>5, <1>6, <1>8, <2>3 DEF CalmJob
    <3>2. /\ slots[k] = hw["NF"][k].flow /\ hw["NF"][k].nh = k
          /\ hw["NH"][k] = NhRow(hw["NF"][k].flow)
      BY <1>8, <2>3, <3>1 DEF CalmInv, LiveOwned
    <3>3. QED BY <1>1, <1>5, <2>3, <3>1, <3>2
  <2>4. QED BY <2>1, <2>2, <2>3
<1>9. LiveOwned'
  BY <1>1, <1>8 DEF LiveOwned
<1>10. QED BY <1>7, <1>9

(* Without faults every access passes, and the callback goes on in order.  *)
LEMMA CalmEnd ==
  ASSUME CalmInv, NEW f \in Flow, End(f)
  PROVE  (\A g \in Flow : CalmJob(g)') /\ LiveOwned'
<1> DEFINE k == job[f].slot
           st == job[f].step
<1>1. st \in AccessStep /\ Over(f) /\ UNCHANGED <<hw, slots, phase>> /\ CalmJob(f)
  BY DEF End, At, Over, CalmInv
<1>2. st \in ReadStep => acc = hw[TableOf(st)][k]
  BY <1>1 DEF CalmInv, SerialInv, ReadFaithful, InAccess, CalmJob, Over
<1>3. Passed(f)
  <2>1. CASE st = "nhR"
    BY <1>1, <1>2, <2>1 DEF Passed, ReadBackOk, CalmJob, NhAt, TableOf, ReadStep
  <2>2. CASE st = "nfR"
    BY <1>1, <1>2, <2>2 DEF Passed, ReadBackOk, CalmJob, NfAt, TableOf, ReadStep
  <2>3. CASE st \notin {"nhR", "nfR"}
    BY <1>1, <2>3 DEF Passed, ReadBackOk, CalmJob
  <2>4. QED BY <2>1, <2>2, <2>3
<1>4. /\ \A g \in Flow : g # f => job'[g] = job[g]
      /\ job'[f].step = After(st) /\ job'[f].stage = "select"
      /\ job'[f].slot = IF After(st) = "call" THEN 0 ELSE k
      /\ job'[f].row = IF After(st) = "dW" THEN Invalidate(acc) ELSE Blank
  BY <1>3 DEF End, NextStep, CalmInv, CountInv, OwnInv, TypeOK, JobType
<1>5. ~ Forwards(Invalidate(acc)) /\ ~ Forwards(Blank)
  BY DEF CalmInv, CountInv, OwnInv, TypeOK, Row, Blank, NhRows, NfRows, Forwards, Invalidate
<1>6. ASSUME NEW g \in Flow PROVE CalmJob(g)'
  <2>1. CASE g # f
    BY <1>1, <1>4, <2>1, CalmJobSame DEF CalmInv
  <2>2. CASE g = f
    <3>1. After(st) # "call" => NhAt(f)' = NhAt(f) /\ NfAt(f)' = NfAt(f)
      BY <1>1, <1>4 DEF NhAt, NfAt
    <3>2. After(st) = "free" => st = "dW" /\ phase[f] = "deleting"
      BY <1>1 DEF After, AccessStep, WriteStep, ReadStep, CalmInv, CountInv, CountedFor
    <3>3. /\ After(st) = "nhR" => st = "nhW"
          /\ After(st) = "nfR" => st = "nfW"
      BY <1>1 DEF After, AccessStep, WriteStep, ReadStep
    <3>4. CASE After(st) = "call"
      BY <1>4, <2>2, <3>4 DEF CalmJob, AccessStep, WriteStep, ReadStep
    <3>5. CASE After(st) # "call"
      BY <1>1, <1>4, <1>5, <2>2, <3>1, <3>2, <3>3, <3>5 DEF CalmJob, Over
    <3>6. QED BY <3>4, <3>5
  <2>3. QED BY <2>1, <2>2
<1>7. QED BY <1>1, <1>6, CalmAside

LEMMA CalmFree ==
  ASSUME CalmInv, NEW f \in Flow, Free(f)
  PROVE  (\A g \in Flow : CalmJob(g)') /\ LiveOwned'
<1>1. job[f].step = "free" /\ UNCHANGED <<hw, phase>> /\ ~ Forwards(NfAt(f))
  BY DEF Free, CalmInv, CalmJob
<1>2. /\ \A g \in Flow : g # f => job'[g] = job[g]
      /\ job'[f].step = "call"
      /\ \A s \in Slot : s # job[f].slot => slots'[s] = slots[s]
  BY DEF Free, CalmInv, CountInv, OwnInv, TypeOK, JobType
<1>3. ASSUME NEW g \in Flow PROVE CalmJob(g)'
  <2>1. CASE g # f
    BY <1>1, <1>2, <2>1, CalmJobSame DEF CalmInv
  <2>2. CASE g = f
    BY <1>2, <2>2 DEF CalmJob, AccessStep, WriteStep, ReadStep
  <2>3. QED BY <2>1, <2>2
<1>4. ASSUME NEW s \in Slot, Forwards(hw["NF"][s]) PROVE slots'[s] = slots[s]
  BY <1>1, <1>2, <1>4 DEF NfAt
<1>5. QED BY <1>1, <1>3, <1>4, CalmAside

LEMMA CalmStep == ASSUME Calm PROVE CalmInv /\ [Next]_vars => CalmInv'
<1> SUFFICES ASSUME CalmInv, [Next]_vars PROVE CalmInv'
  OBVIOUS
<1>1. SerialInv'
  BY SerialStep DEF Calm, CalmInv
<1>2. CountInv'
  BY CountStep DEF Calm, CalmInv
<1>3. (\A g \in Flow : CalmJob(g)') /\ LiveOwned'
  <2>1. CASE Load("log") \/ Load("live") \/ Unload \/ Bind \/ Unbind
    BY <2>1, CalmModule
  <2>2. ASSUME NEW f \in Flow, StartAdd(f) \/ StartDel(f)
        PROVE  (\A g \in Flow : CalmJob(g)') /\ LiveOwned'
    BY <2>2, CalmBegins
  <2>3. ASSUME NEW f \in Flow, Work(f)
        PROVE  (\A g \in Flow : CalmJob(g)') /\ LiveOwned'
    BY <2>3, CalmBegins, CalmSelect, CalmTransfer, CalmEnd, CalmFree DEF Work
  <2>4. CASE UNCHANGED vars
    <3>1. UNCHANGED <<hw, job, phase, slots>>
      BY <2>4 DEF vars
    <3>2. \A g \in Flow : CalmJob(g)'
      BY <3>1, CalmJobSame DEF CalmInv
    <3>3. QED BY <3>1, <3>2, CalmAside
  <2>5. QED BY <2>1, <2>2, <2>3, <2>4 DEF Next
<1>4. QED BY <1>1, <1>2, <1>3 DEF CalmInv

LEMMA CalmAlways == ASSUME Calm PROVE Spec => []CalmInv
<1>1. CalmInv /\ [Next]_vars => CalmInv'
  BY CalmStep
<1>2. QED BY <1>1, CalmInit, PTL DEF Spec

LEMMA LiveRowsOwned ==
  ASSUME CalmInv, NEW f \in Flow, NEW i \in LiveRows(f)
  PROVE  /\ i \in Slot /\ slots[i] = f
         /\ hw["NH"][hw["NF"][i].nh] = NhRow(f)
<1>1. i \in Index /\ Forwards(hw["NF"][i]) /\ hw["NF"][i].flow = f
  BY DEF LiveRows, Forwards
<1>2. QED BY <1>1 DEF CalmInv, LiveOwned

(* A flow without a slot is forwarded in software alone: no row, of       *)
(* whatever earlier life of its slot or of the module, forwards it.       *)
THEOREM WithoutSlotInSoftware == ASSUME Calm PROVE Spec => []SoftwareOnly
<1>1. CalmInv => SoftwareOnly
  BY LiveRowsOwned DEF SoftwareOnly
<1>2. QED BY <1>1, CalmAlways, PTL

(* No packet is sent to another flow's next hop, at any moment between the *)
(* two rows of a flow being written, read back and taken up.               *)
THEOREM NeverMisforwards == ASSUME Calm PROVE Spec => []NoMisforward
<1>1. CalmInv => NoMisforward
  BY LiveRowsOwned DEF NoMisforward, ForwardsTo
<1>2. QED BY <1>1, CalmAlways, PTL
-----------------------------------------------------------------------------
(* The driver implements HardwareForwarding, as far as safety goes.        *)
LEMMA ForwardsToOwn ==
  ASSUME CalmInv, NEW f \in Flow
  PROVE  ForwardsTo(f) = IF LiveRows(f) = {} THEN {} ELSE {NhRow(f)}
BY LiveRowsOwned DEF ForwardsTo

AbsFwd == [f \in Flow |-> ForwardsTo(f)]
AbsTarget == [f \in Flow |-> NhRow(f)]

(* Steps that leave the rows alone leave the forwarding alone.             *)
LEMMA ForwardingKept ==
  ASSUME hw' = hw PROVE AbsFwd' = AbsFwd
BY DEF AbsFwd, ForwardsTo, LiveRows

(* A transfer changes the forwarding of its own flow, if any, and only to  *)
(* what the phase of that flow allows.                                     *)
LEMMA ForwardingMoves ==
  ASSUME Calm, CalmInv, CalmInv', NEW f \in Flow, Transfer(f)
  PROVE  \/ AbsFwd' = AbsFwd
         \/ phase[f] = "adding" /\ AbsFwd' = [AbsFwd EXCEPT ![f] = {NhRow(f)}]
         \/ phase[f] = "deleting" /\ AbsFwd' = [AbsFwd EXCEPT ![f] = {}]
<1> DEFINE k == job[f].slot
           st == job[f].step
<1>1. /\ k \in Slot /\ slots[k] = f /\ st \in AccessStep
      /\ hw' = IF st \in WriteStep THEN [hw EXCEPT ![TableOf(st)][k] = RowToWrite(f)] ELSE hw
  BY CalmTransferred
<1>2. hw \in [Table -> [Index -> Row]]
  BY DEF CalmInv, CountInv, OwnInv, TypeOK
<1>3. \A g \in Flow : /\ ForwardsTo(g) = IF LiveRows(g) = {} THEN {} ELSE {NhRow(g)}
                      /\ ForwardsTo(g)' = IF LiveRows(g)' = {} THEN {} ELSE {NhRow(g)}
  <2>1. \A g \in Flow : NhRow(g)' = NhRow(g)
    BY DEF NhRow
  <2>2. ASSUME NEW g \in Flow PROVE ForwardsTo(g)' = IF LiveRows(g)' = {} THEN {} ELSE {NhRow(g)}
    <3>1. \A i \in LiveRows(g)' : hw'["NH"][hw'["NF"][i].nh] = NhRow(g)
      BY DEF LiveRows, CalmInv, LiveOwned, Forwards
    <3>2. QED BY <3>1 DEF ForwardsTo
  <2>3. QED BY <2>2, ForwardsToOwn
<1>4. CASE st \notin WriteStep
  BY <1>1, <1>4, ForwardingKept
<1>5. CASE st = "nhW"
  <2>1. hw'["NF"] = hw["NF"]
    BY <1>1, <1>2, <1>5 DEF TableOf, Table, WriteStep
  <2>2. \A g \in Flow : LiveRows(g)' = LiveRows(g)
    BY <2>1 DEF LiveRows
  <2>3. QED BY <1>3, <2>2 DEF AbsFwd
<1>6. CASE st \in {"nfW", "dW"}
  <2>0. /\ k \in Index
        /\ hw'["NF"][k] = IF st = "nfW" THEN NfRow(f, k, TRUE) ELSE job[f].row
    <3>1. k \in Index /\ TableOf(st) = "NF" /\ st \in WriteStep
      BY <1>1, <1>6 DEF TableOf, Slot, Index, WriteStep
    <3>2. hw'["NF"][k] = RowToWrite(f)
      BY <1>1, <1>2, <3>1 DEF Table
    <3>3. QED BY <1>6, <3>1, <3>2 DEF RowToWrite
  <2>1. ASSUME NEW g \in Flow, g # f PROVE LiveRows(g)' = LiveRows(g)
    <3>1. \A i \in Index : i # k => hw'["NF"][i] = hw["NF"][i]
      BY <1>1, <1>2, <1>6 DEF Table
    <3>2. k \notin LiveRows(g)
      BY <1>1, <2>1, LiveRowsOwned
    <3>3. k \notin LiveRows(g)'
      <4>1. slots' = slots
        BY DEF Transfer
      <4>2. k \in LiveRows(g)' => slots'[k] = g
        BY DEF LiveRows, CalmInv, LiveOwned, Forwards
      <4>3. QED BY <1>1, <2>1, <4>1, <4>2
    <3>4. QED BY <3>1, <3>2, <3>3 DEF LiveRows
  <2>2. \A g \in Flow : g # f => AbsFwd'[g] = AbsFwd[g]
    BY <1>3, <2>1 DEF AbsFwd
  <2>3. AbsFwd'[f] \in {{}, {NhRow(f)}} /\ AbsFwd[f] \in {{}, {NhRow(f)}}
    BY <1>3 DEF AbsFwd
  <2>4. CASE st = "nfW"
    <3>1. phase[f] = "adding"
      BY <2>4 DEF CalmInv, CountInv, CountedFor
    <3>2. k \in LiveRows(f)'
      <4>1. hw'["NF"][k] = NfRow(f, k, TRUE) /\ k \in Index
        BY <2>0, <2>4
      <4>2. QED BY <4>1 DEF LiveRows, NfRow
    <3>3. AbsFwd'[f] = {NhRow(f)}
      BY <1>3, <3>2 DEF AbsFwd
    <3>4. AbsFwd' = [AbsFwd EXCEPT ![f] = {NhRow(f)}]
      BY <2>2, <3>3 DEF AbsFwd
    <3>5. QED BY <3>1, <3>4
  <2>5. CASE st = "dW"
    <3>1. phase[f] = "deleting"
      BY <2>5 DEF CalmInv, CountInv, CountedFor
    <3>2. LiveRows(f)' \subseteq LiveRows(f)
      <4>1. hw'["NF"][k] = job[f].row /\ ~ Forwards(job[f].row)
        BY <2>0, <2>5 DEF CalmInv, CalmJob
      <4>2. \A i \in Index : i # k => hw'["NF"][i] = hw["NF"][i]
        BY <1>1, <1>2, <1>6 DEF Table
      <4>3. QED BY <4>1, <4>2 DEF LiveRows, Forwards
    <3>3. AbsFwd'[f] = AbsFwd[f] \/ AbsFwd'[f] = {}
      BY <1>3, <3>2 DEF AbsFwd
    <3>4. AbsFwd' = AbsFwd \/ AbsFwd' = [AbsFwd EXCEPT ![f] = {}]
      BY <2>2, <3>3 DEF AbsFwd
    <3>5. QED BY <3>1, <3>4
  <2>6. QED BY <1>6, <2>4, <2>5
<1>7. QED BY <1>1, <1>4, <1>5, <1>6 DEF AccessStep, WriteStep, ReadStep

LEMMA StepImplements ==
  ASSUME Calm, CalmInv, CalmInv', [Next]_vars
  PROVE  [HF!AbsNext]_(HF!absVars)
<1>0. ASSUME phase' = phase, AbsFwd' = AbsFwd PROVE UNCHANGED HF!absVars
  BY <1>0 DEF HF!absVars, AbsFwd
<1>t. phase \in [Flow -> {"closed", "adding", "open", "deleting"}]
  BY DEF CalmInv, CountInv, OwnInv, TypeOK
<1>1. CASE UNCHANGED hw /\ UNCHANGED phase
  BY <1>0, <1>1, ForwardingKept
<1>2. ASSUME NEW f \in Flow, StartAdd(f) PROVE HF!AbsNext
  <2>1. HF!StartOpen(f)
    BY <1>2, ForwardingKept DEF HF!StartOpen, HF!Move, StartAdd, Start, AbsFwd
  <2>2. QED BY <2>1 DEF HF!AbsNext
<1>3. ASSUME NEW f \in Flow, StartDel(f) PROVE HF!AbsNext
  <2>1. HF!StartClose(f)
    BY <1>3, ForwardingKept DEF HF!StartClose, HF!Move, StartDel, Start, AbsFwd
  <2>2. QED BY <2>1 DEF HF!AbsNext
<1>4. ASSUME NEW f \in Flow, Finish(f) PROVE HF!AbsNext
  <2>1. AbsFwd' = AbsFwd
    BY <1>4, ForwardingKept DEF Finish
  <2>2. CASE phase[f] = "adding"
    <3>1. HF!Opened(f)
      BY <1>4, <2>1, <2>2 DEF HF!Opened, HF!Move, Finish, AbsFwd
    <3>2. QED BY <3>1 DEF HF!AbsNext
  <2>3. CASE phase[f] = "deleting"
    <3>1. phase'[f] = "closed"
      BY <1>4, <1>t, <2>3 DEF Finish
    <3>2. \A s \in Slot : slots'[s] # f
      BY <3>1 DEF CalmInv, CountInv, CountedFor, Held
    <3>3. slots' = slots
      BY <1>4 DEF Finish
    <3>4. ForwardsTo(f) = {}
      BY <3>2, <3>3, LiveRowsOwned DEF ForwardsTo
    <3>5. HF!Closed(f)
      BY <1>4, <2>1, <2>3, <3>4 DEF HF!Closed, HF!Move, Finish, AbsFwd
    <3>6. QED BY <3>5 DEF HF!AbsNext
  <2>4. QED BY <1>4, <2>2, <2>3 DEF Finish, Working
<1>5. ASSUME NEW f \in Flow, Transfer(f) PROVE [HF!AbsNext]_(HF!absVars)
  <2>1. phase' = phase
    BY <1>5 DEF Transfer
  <2>2. CASE AbsFwd' = AbsFwd
    BY <1>0, <2>1, <2>2
  <2>3. CASE phase[f] = "adding" /\ AbsFwd' = [AbsFwd EXCEPT ![f] = {NhRow(f)}]
    <3>1. HF!Install(f)
      BY <2>1, <2>3 DEF HF!Install, AbsFwd
    <3>2. QED BY <3>1 DEF HF!AbsNext
  <2>4. CASE phase[f] = "deleting" /\ AbsFwd' = [AbsFwd EXCEPT ![f] = {}]
    <3>1. HF!Remove(f)
      BY <2>1, <2>4 DEF HF!Remove, AbsFwd
    <3>2. QED BY <3>1 DEF HF!AbsNext
  <2>5. QED BY <1>5, <2>2, <2>3, <2>4, ForwardingMoves
<1>6. ASSUME NEW f \in Flow, Work(f), ~ Finish(f), ~ Transfer(f) PROVE UNCHANGED <<hw, phase>>
  BY <1>6 DEF Work, ReplaceSkip, DestroySkip, Skip, Replace, Destroy, Select, End, Free
<1>7. CASE Load("log") \/ Load("live") \/ Unload \/ Bind \/ Unbind \/ UNCHANGED vars
  BY <1>7, <1>1 DEF Load, Unload, Bind, Unbind, vars
<1>8. QED BY <1>1, <1>2, <1>3, <1>4, <1>5, <1>6, <1>7 DEF Next

(* What the flow table is promised: a flow is forwarded to its own next    *)
(* hop alone, from within its addition, and no longer once its removal is  *)
(* reported.  The driver keeps the promise for any number of flows, slots, *)
(* devices and loads, as long as callbacks do not overlap and nothing      *)
(* fails.                                                                  *)
THEOREM ForwardingImplemented ==
  ASSUME Calm
  PROVE  Spec => HF!AbsInit /\ [][HF!AbsNext]_(HF!absVars)
<1>1. Init => HF!AbsInit
  <2>1. ASSUME Init, NEW f \in Flow PROVE ForwardsTo(f) = {}
    BY <2>1 DEF Init, ForwardsTo, LiveRows, Blank, Table
  <2>2. QED BY <2>1 DEF Init, HF!AbsInit
<1>2. CalmInv /\ CalmInv' /\ [Next]_vars => [HF!AbsNext]_(HF!absVars)
  BY StepImplements
<1>3. Spec => []CalmInv
  BY CalmAlways
<1>4. QED BY <1>1, <1>2, <1>3, PTL DEF Spec

(***************************************************************************)
(* The work of a callback is bounded, whatever fails.                      *)
(***************************************************************************)
(* The accesses a callback has still to begin, the release of its slot     *)
(* counted as one, and the stages of the one it is at.                     *)
StepsLeft(st) ==
  CASE st = "call" -> 0 [] st = "free" -> 1 [] st \in {"nfR", "dW"} -> 2
    [] st \in {"nfW", "dR"} -> 3 [] st = "nhR" -> 4 [] OTHER -> 5
StagesLeft(stage) == CASE stage = "select" -> 2 [] stage = "xfer" -> 1 [] OTHER -> 0

(* No callback takes more than this.                                       *)
MaxWork == 18
WorkLeft(f) ==
  MaxWork * job[f].todo + 3 * StepsLeft(job[f].step) + StagesLeft(job[f].stage)

(* A step of a work item either reports its flow, with nothing left to do, *)
(* or leaves less to do; nobody else adds to it.                           *)
WorkShrinks ==
  \A f \in Flow : Working(f) =>
    \/ UNCHANGED <<phase[f], job[f]>> /\ ~ Work(f)
    \/ UNCHANGED phase[f] /\ WorkLeft(f)' < WorkLeft(f)
    \/ Finish(f)

LEMMA LeftIsNat ==
  ASSUME TypeOK, NEW f \in Flow
  PROVE  /\ StepsLeft(job[f].step) \in 0..5 /\ StagesLeft(job[f].stage) \in 0..2
         /\ job[f].todo \in 0..Devices
         /\ WorkLeft(f) \in 0..(MaxWork * Devices + 17)
<1>1. job[f].todo \in 0..Devices
  BY DEF TypeOK, JobType
<1>2. StepsLeft(job[f].step) \in 0..5 /\ StagesLeft(job[f].stage) \in 0..2
  BY DEF StepsLeft, StagesLeft
<1>3. QED BY <1>1, <1>2, FaConstants DEF WorkLeft, MaxWork

(* A step of f's own work item that is not the report.                     *)
LEMMA WorkLess ==
  ASSUME OwnInv, NEW f \in Flow, Work(f), ~ Finish(f)
  PROVE  UNCHANGED phase /\ WorkLeft(f)' < WorkLeft(f)
<1> USE DEF OwnInv
<1>1. /\ job \in [Flow -> JobType] /\ TypeOK
      /\ job[f].todo \in 0..Devices /\ Devices \in Nat
      /\ StepsLeft(job[f].step) \in 0..5 /\ StagesLeft(job[f].stage) \in 0..2
  BY LeftIsNat, FaConstants DEF TypeOK
<1>2. CASE ReplaceSkip(f) \/ DestroySkip(f)
  <2>1. UNCHANGED phase /\ job'[f] = [job[f] EXCEPT !.todo = @ - 1]
    BY <1>1, <1>2 DEF ReplaceSkip, DestroySkip, Skip
  <2>2. /\ job'[f].todo = job[f].todo - 1
        /\ job'[f].step = job[f].step /\ job'[f].stage = job[f].stage
    BY <1>1, <2>1 DEF JobType
  <2>3. QED BY <1>1, <2>1, <2>2 DEF WorkLeft, MaxWork
<1>3. CASE Replace(f) \/ Destroy(f)
  <2>1. PICK s \in Slot, st \in {"nhW", "dR"} : Enter(f, s, st) /\ UNCHANGED phase
    BY <1>3 DEF Replace, Destroy
  <2>2. /\ job'[f].todo = job[f].todo - 1 /\ job'[f].step = st /\ job'[f].stage = "select"
    BY <1>1, <2>1 DEF Enter, JobType
  <2>3. StepsLeft(job'[f].step) <= 5 /\ StagesLeft(job'[f].stage) = 2
    BY <2>2 DEF StepsLeft, StagesLeft
  <2>4. StepsLeft(job'[f].step) \in 0..5
    BY <2>2 DEF StepsLeft
  <2>5. QED BY <1>1, <2>1, <2>2, <2>3, <2>4 DEF WorkLeft, MaxWork
<1>4. CASE Select(f) \/ Transfer(f)
  <2>1. UNCHANGED phase /\ job'[f].todo = job[f].todo /\ job'[f].step = job[f].step
    BY <1>1, <1>4 DEF Select, Transfer, JobType
  <2>2. StagesLeft(job'[f].stage) < StagesLeft(job[f].stage)
        /\ StagesLeft(job'[f].stage) \in 0..2
    BY <1>1, <1>4 DEF Select, Transfer, At, StagesLeft, JobType
  <2>3. QED BY <1>1, <2>1, <2>2 DEF WorkLeft, MaxWork
<1>5. CASE End(f)
  <2>1. /\ UNCHANGED phase /\ job'[f].todo = job[f].todo
        /\ job'[f].step = NextStep(f) /\ job'[f].stage = "select"
    BY <1>1, <1>5 DEF End, JobType
  <2>2. job[f].step \in AccessStep /\ job[f].stage = "end"
    BY <1>5 DEF End, At
  <2>3. /\ StepsLeft(NextStep(f)) \in 0..5
        /\ StepsLeft(NextStep(f)) < StepsLeft(job[f].step)
    BY <2>2 DEF NextStep, After, StepsLeft, AccessStep, WriteStep, ReadStep
  <2>4. StagesLeft(job'[f].stage) = 2 /\ StagesLeft(job[f].stage) = 0
    BY <2>1, <2>2 DEF StagesLeft
  <2>5. QED BY <1>1, <2>1, <2>3, <2>4 DEF WorkLeft, MaxWork
<1>6. CASE Free(f)
  <2>1. /\ UNCHANGED phase /\ job'[f].todo = job[f].todo /\ job[f].step = "free"
        /\ job'[f].step = "call" /\ job'[f].stage = job[f].stage
    BY <1>1, <1>6 DEF Free, JobType
  <2>2. StepsLeft(job'[f].step) = 0 /\ StepsLeft(job[f].step) = 1
    BY <2>1 DEF StepsLeft
  <2>3. QED BY <1>1, <2>1, <2>2 DEF WorkLeft, MaxWork
<1>7. QED BY <1>2, <1>3, <1>4, <1>5, <1>6 DEF Work

LEMMA WorkStep == OwnInv /\ [Next]_vars => WorkShrinks
<1> SUFFICES ASSUME OwnInv, [Next]_vars, NEW f \in Flow, Working(f), ~ Finish(f)
             PROVE  \/ UNCHANGED <<phase[f], job[f]>> /\ ~ Work(f)
                    \/ UNCHANGED phase[f] /\ WorkLeft(f)' < WorkLeft(f)
  BY DEF WorkShrinks
<1>1. CASE Work(f)
  BY <1>1, WorkLess
<1>2. CASE ~ Work(f)
  <2>1. CASE Load("log") \/ Load("live") \/ Unload \/ Bind \/ Unbind \/ UNCHANGED vars
    BY <1>2, <2>1 DEF Load, Unload, Bind, Unbind, vars
  <2>2. ASSUME NEW g \in Flow, StartAdd(g) \/ StartDel(g)
        PROVE  UNCHANGED <<phase[f], job[f]>>
    <3>1. g # f
      BY <2>2 DEF StartAdd, StartDel, Start, Working
    <3>2. QED BY <2>2, <3>1 DEF StartAdd, StartDel, Start, OwnInv, TypeOK
  <2>3. ASSUME NEW g \in Flow \ {f}, Work(g) PROVE UNCHANGED <<phase[f], job[f]>>
    BY <2>3 DEF Work, ReplaceSkip, Replace, DestroySkip, Destroy, Skip, Enter, Select,
       Transfer, End, Free, Finish, OwnInv, TypeOK
  <2>4. QED BY <1>2, <2>1, <2>2, <2>3 DEF Next
<1>3. QED BY <1>1, <1>2

(* The thread behind a REPLACE or DESTROY has at most MaxWork * Devices +  *)
(* 17 steps before it, and each that it takes leaves fewer, whatever polls *)
(* run out, devices leave or other callbacks do meanwhile: no retry, and   *)
(* no round between the steps of the && chain.                             *)
THEOREM WorkBounded ==
  Spec => /\ [](\A f \in Flow : WorkLeft(f) \in 0..(MaxWork * Devices + 17))
          /\ [][WorkShrinks]_vars
<1>1. Spec => []OwnInv
  BY OwnInit, OwnStep, PTL DEF Spec
<1>2. OwnInv => \A f \in Flow : WorkLeft(f) \in 0..(MaxWork * Devices + 17)
  <2> SUFFICES ASSUME OwnInv, NEW f \in Flow
               PROVE  WorkLeft(f) \in 0..(MaxWork * Devices + 17)
    BY Zenon
  <2>1. TypeOK
    BY DEF OwnInv
  <2>2. QED BY <2>1, LeftIsNat, Zenon
<1>3. OwnInv /\ [Next]_vars => [WorkShrinks]_vars
  BY WorkStep
<1>4. QED BY <1>1, <1>2, <1>3, PTL DEF Spec
=============================================================================
