----------------------------- MODULE EtFaProofs -----------------------------
(***************************************************************************)
(* Theorems about EtFa, for any flows, tables, buckets, addresses, number  *)
(* of accesses that run out of polls and of attachments.                   *)
(***************************************************************************)
EXTENDS EtFa, FiniteSetTheorems, TLAPS

Adding == {"nhop", "nhwrite", "pool", "nfwrite"}
Deleting == {"nfread", "invalidate", "unref"}
Known == {f \in Flow : soft[f] # None}

(***************************************************************************)
(* Types                                                                   *)
(***************************************************************************)
Typed ==
  /\ mode \in {"off", "normal", "bypass"}
  /\ nf \in [Index -> [valid : BOOLEAN, flow : Flow \cup {None}, nh : Nhop, pool : Pool]]
  /\ nh \in [Nhop -> Mac \cup {None}]
  /\ np \in [Pool -> (Mac \cup {None}) \X {0, 1}]
  /\ ref \in [Nhop -> Nat]
  /\ soft \in [Flow -> Entries \cup {None}]
  /\ ftable \in [Index -> Flow \cup {None}]
  /\ busy \in 0 .. MaxBusy
  /\ attached \in 0 .. MaxAttach

\* What the call that holds fa_lock knows of its flow and its entry.
CallTyped ==
  /\ call \in [step : {"idle"} \cup Adding \cup Deleting,
               flow : Flow \cup {None}, idx : Index \cup {None}, nh : Nhop, pool : Pool]
  /\ call.step # "idle" => call.flow \in Flow /\ call.idx \in Index

\* The free list stays within its entries: an entry is only taken while there
\* is one, because nobody else takes one between the look and the write.
ListTyped ==
  /\ flist \in [Nhop -> 0 .. NhopFull]
  /\ free \in 0 .. NhopFull
  /\ call.step = "nhwrite" => free # NhopFull

TypeInv == Typed /\ CallTyped /\ ListTyped

LEMMA TypeInit == Init => TypeInv
  BY ConstantsAssumption
  DEF Init, TypeInv, Typed, CallTyped, ListTyped, NoCall, NoRow, NoHop, InOrder, Nhop, Pool

LEMMA Constants ==
  /\ MaxBusy \in Nat /\ MaxAttach \in Nat /\ NhopFull \in Nat \ {0}
  /\ 0 \in Nhop /\ Pool = {0, 1, 2, 3} /\ \A i \in Nhop : i \in 0 .. NhopFull
  /\ InOrder \in [Nhop -> 0 .. NhopFull]
  /\ NoRow \in [valid : BOOLEAN, flow : Flow \cup {None}, nh : Nhop, pool : Pool]
  /\ NoHop \in (Mac \cup {None}) \X {0, 1}
  /\ \A f \in Flow : /\ NextHop[f] \in Mac /\ Remap[f] \in Mac /\ External[f] \in {0, 1}
                     /\ Bucket[f] \subseteq Index
  BY ConstantsAssumption DEF Nhop, Pool, InOrder, NoRow, NoHop

\* How a call goes on: to its next step, knowing more of its row.
Moves(step, i, p) ==
  call' = [step |-> step, flow |-> call.flow, idx |-> call.idx, nh |-> i, pool |-> p]

LEMMA CallMoves ==
  ASSUME CallTyped, call.flow \in Flow, call.idx \in Index,
         NEW step \in Adding \cup Deleting, NEW i \in Nhop, NEW p \in Pool, Moves(step, i, p)
  PROVE  CallTyped' /\ call'.step = step
  BY DEF CallTyped, Moves

LEMMA CallStays ==
  ASSUME CallTyped
  PROVE  /\ call.nh \in Nhop /\ call.pool \in Pool
         /\ \A st : [call EXCEPT !.step = st] =
              [step |-> st, flow |-> call.flow, idx |-> call.idx, nh |-> call.nh, pool |-> call.pool]
         /\ \A st, i : [call EXCEPT !.step = st, !.nh = i] =
              [step |-> st, flow |-> call.flow, idx |-> call.idx, nh |-> i, pool |-> call.pool]
         /\ \A st, p : [call EXCEPT !.step = st, !.pool = p] =
              [step |-> st, flow |-> call.flow, idx |-> call.idx, nh |-> call.nh, pool |-> p]
<1>1. call.nh \in Nhop /\ call.pool \in Pool
  BY DEF CallTyped
<1>2. call = [step |-> call.step, flow |-> call.flow, idx |-> call.idx, nh |-> call.nh,
              pool |-> call.pool]
  BY DEF CallTyped
<1>3. \A st : [call EXCEPT !.step = st] =
        [step |-> st, flow |-> call.flow, idx |-> call.idx, nh |-> call.nh, pool |-> call.pool]
  BY <1>2
<1>4. ASSUME NEW st, NEW i
      PROVE  [call EXCEPT !.step = st, !.nh = i] =
               [step |-> st, flow |-> call.flow, idx |-> call.idx, nh |-> i, pool |-> call.pool]
  <2>1. [call EXCEPT !.step = st, !.nh = i] = [[call EXCEPT !.step = st] EXCEPT !.nh = i]
    OBVIOUS
  <2> DEFINE moved == [step |-> st, flow |-> call.flow, idx |-> call.idx, nh |-> call.nh,
                       pool |-> call.pool]
  <2>2. [call EXCEPT !.step = st] = moved
    BY <1>3
  <2>3. [moved EXCEPT !.nh = i] =
          [step |-> st, flow |-> call.flow, idx |-> call.idx, nh |-> i, pool |-> call.pool]
    OBVIOUS
  <2> HIDE DEF moved
  <2> QED  BY <2>1, <2>2, <2>3
<1>5. ASSUME NEW st, NEW p
      PROVE  [call EXCEPT !.step = st, !.pool = p] =
               [step |-> st, flow |-> call.flow, idx |-> call.idx, nh |-> call.nh, pool |-> p]
  <2>1. [call EXCEPT !.step = st, !.pool = p] = [[call EXCEPT !.step = st] EXCEPT !.pool = p]
    OBVIOUS
  <2> DEFINE moved == [step |-> st, flow |-> call.flow, idx |-> call.idx, nh |-> call.nh,
                       pool |-> call.pool]
  <2>2. [call EXCEPT !.step = st] = moved
    BY <1>3
  <2>3. [moved EXCEPT !.pool = p] =
          [step |-> st, flow |-> call.flow, idx |-> call.idx, nh |-> call.nh, pool |-> p]
    OBVIOUS
  <2> HIDE DEF moved
  <2> QED  BY <2>1, <2>2, <2>3
<1> QED  BY <1>1, <1>3, <1>4, <1>5

LEMMA CallEnds ==
  ASSUME call' = NoCall PROVE CallTyped' /\ call'.step = "idle"
  BY Constants DEF CallTyped, NoCall

LEMMA TypeStep == TypeInv /\ [Next]_vars => TypeInv'
<1> SUFFICES ASSUME TypeInv, [Next]_vars PROVE TypeInv'
  OBVIOUS
<1> USE DEF TypeInv, Unsure
<1>1. CASE Attach
  <2>1. Typed'
    BY <1>1, Constants DEF Attach, Blanked, Typed, CallTyped
  <2>2. CallTyped'
    BY <1>1, Constants DEF Attach, Blanked, CallTyped, Typed
  <2>3. ListTyped'
    BY <1>1, Constants DEF Attach, Blanked, ListTyped
  <2> QED  BY <2>1, <2>2, <2>3
<1>2. CASE Down
  <2>1. Typed'
    BY <1>2, Constants DEF Down, Blanked, nhi, flows, Typed, CallTyped
  <2>2. CallTyped'
    BY <1>2, Constants DEF Down, Blanked, nhi, flows, CallTyped, Typed
  <2>3. ListTyped'
    BY <1>2, Constants DEF Down, Blanked, nhi, flows, ListTyped
  <2> QED  BY <2>1, <2>2, <2>3
<1>3. CASE Flush
  <2>1. Typed'
    BY <1>3, Constants DEF Flush, nhi, Typed, CallTyped
  <2>2. CallTyped'
    BY <1>3, Constants DEF Flush, nhi, CallTyped, Typed
  <2>3. ListTyped'
    BY <1>3, Constants DEF Flush, nhi, ListTyped
  <2> QED  BY <2>1, <2>2, <2>3
<1>4. ASSUME NEW f \in Flow, Add(f) PROVE TypeInv'
  <2>1. Typed'
    BY <1>4, Constants DEF Add, Adding, tables, nhi, flows, Typed, CallTyped
  <2>2. CallTyped'
    BY <1>4, Constants DEF Add, Adding, tables, nhi, flows, CallTyped, Typed
  <2>3. ListTyped'
    BY <1>4, Constants DEF Add, Adding, tables, nhi, flows, ListTyped
  <2> QED  BY <2>1, <2>2, <2>3
<1>5. ASSUME NEW f \in Flow, Del(f) PROVE TypeInv'
  <2>1. Typed'
    BY <1>5, Constants DEF Del, Deleting, Entries, tables, nhi, Typed, CallTyped
  <2>2. CallTyped'
    BY <1>5, Constants DEF Del, Deleting, Entries, tables, nhi, CallTyped, Typed
  <2>3. ListTyped'
    BY <1>5, Constants DEF Del, Deleting, Entries, tables, nhi, ListTyped
  <2> QED  BY <2>1, <2>2, <2>3
<1>6. CASE FindNhop
  <2>1. /\ mode' = mode /\ nf' = nf /\ nh' = nh /\ np' = np /\ flist' = flist /\ free' = free
        /\ soft' = soft /\ ftable' = ftable /\ attached' = attached
    BY <1>6 DEF FindNhop, tables, flows
  <2>2. \/ call' = NoCall /\ ref' = ref
        \/ \E i \in Nhop : Moves("pool", i, call.pool) /\ ref' = [ref EXCEPT ![i] = @ + 1]
        \/ Moves("nhwrite", call.nh, call.pool) /\ free # NhopFull /\ ref' = ref
    BY <1>6, CallStays DEF FindNhop, FirstMatch, TakeRef, Return, Goto, Moves
  <2>3. call.flow \in Flow /\ call.idx \in Index /\ busy' \in 0 .. MaxBusy
    <3>1. call.flow \in Flow /\ call.idx \in Index
      BY <1>6 DEF FindNhop, CallTyped
    <3>2. TimesOut \/ InTime
      BY <1>6 DEF FindNhop
    <3> QED  BY <3>1, <3>2, Constants DEF Typed, TimesOut, InTime
  <2>4. ref' \in [Nhop -> Nat]
    BY <2>2 DEF Typed
  <2>5. Typed'
    BY <2>1, <2>3, <2>4 DEF Typed
  <2>6. CallTyped' /\ ListTyped'
    <3>1. CASE call' = NoCall
      BY <2>1, <3>1, CallEnds DEF ListTyped
    <3>2. CASE \E i \in Nhop : Moves("pool", i, call.pool)
      BY <2>1, <2>3, <3>2, CallMoves, CallStays DEF ListTyped, Adding
    <3>3. CASE Moves("nhwrite", call.nh, call.pool) /\ free # NhopFull
      BY <2>1, <2>3, <3>3, CallMoves, CallStays DEF ListTyped, Adding
    <3> QED  BY <2>2, <3>1, <3>2, <3>3
  <2> QED  BY <2>5, <2>6
<1>7. CASE WriteNhop
  <2>1. UNCHANGED <<mode, nf, np, flows, attached>> /\ busy' \in 0 .. MaxBusy
    BY <1>7, Constants DEF WriteNhop, Fail, TimesOut, InTime, Typed
  <2>2. call.flow \in Flow /\ call.idx \in Index /\ free # NhopFull /\ free \in Nhop
    BY <1>7, Constants DEF WriteNhop, CallTyped, ListTyped, Nhop
  <2>3. nh' = nh \/ nh' = [nh EXCEPT ![free] = NextHop[call.flow]]
    BY <1>7 DEF WriteNhop
  <2>4. \/ call' = NoCall /\ UNCHANGED nhi
        \/ /\ Moves("pool", free, call.pool)
           /\ ref' = [ref EXCEPT ![free] = @ + 1]
           /\ free' = flist[free] /\ flist' = [flist EXCEPT ![free] = 0]
    BY <1>7, CallStays DEF WriteNhop, Fail, Return, GetNext, TakeRef, Moves
  <2>5. Typed'
    <3>1. nh' \in [Nhop -> Mac \cup {None}]
      BY <2>2, <2>3, Constants DEF Typed
    <3>2. ref' \in [Nhop -> Nat]
      BY <2>2, <2>4 DEF Typed, nhi
    <3> QED  BY <2>1, <3>1, <3>2 DEF Typed, flows
  <2>6. CallTyped' /\ call'.step # "nhwrite"
    <3>1. CASE call' = NoCall
      BY <3>1, CallEnds
    <3>2. CASE Moves("pool", free, call.pool)
      BY <2>2, <3>2, CallMoves, CallStays DEF Adding
    <3> QED  BY <2>4, <3>1, <3>2
  <2>7. ListTyped'
    BY <2>2, <2>4, <2>6, Constants DEF ListTyped, nhi
  <2> QED  BY <2>5, <2>6, <2>7
<1>8. CASE SetPool
  <2>1. /\ mode' = mode /\ nf' = nf /\ nh' = nh /\ flist' = flist /\ free' = free /\ ref' = ref
        /\ soft' = soft /\ ftable' = ftable /\ attached' = attached
    BY <1>8 DEF SetPool, Fail, nhi, flows
  <2>2. call.flow \in Flow /\ call.idx \in Index /\ busy' \in 0 .. MaxBusy
    <3>1. call.flow \in Flow /\ call.idx \in Index
      BY <1>8 DEF SetPool, CallTyped
    <3>2. TimesOut \/ InTime
      BY <1>8 DEF SetPool, Fail
    <3> QED  BY <3>1, <3>2, Constants DEF Typed, TimesOut, InTime
  <2>3. np' = np \/ np' = [np EXCEPT ![External[call.flow]] =
                             <<Remap[call.flow], External[call.flow]>>]
    BY <1>8 DEF SetPool
  <2>4. \/ call' = NoCall
        \/ \E i \in Pool : Moves("nfwrite", call.nh, i)
    BY <1>8, <2>2, CallStays, Constants DEF SetPool, PoolMatch, Fail, Return, Moves
  <2>5. np' \in [Pool -> (Mac \cup {None}) \X {0, 1}]
    BY <2>2, <2>3, Constants DEF Typed
  <2>6. Typed'
    BY <2>1, <2>2, <2>5 DEF Typed
  <2>7. CallTyped' /\ call'.step # "nhwrite"
    <3>1. CASE call' = NoCall
      BY <3>1, CallEnds
    <3>2. ASSUME NEW i \in Pool, Moves("nfwrite", call.nh, i)
          PROVE  CallTyped' /\ call'.step # "nhwrite"
      <4>1. "nfwrite" \in Adding \cup Deleting /\ call.nh \in Nhop
        BY CallStays DEF Adding
      <4> QED  BY <2>2, <3>2, <4>1, CallMoves
    <3> QED  BY <2>4, <3>1, <3>2
  <2>8. ListTyped'
    BY <2>1, <2>7 DEF ListTyped
  <2> QED  BY <2>6, <2>7, <2>8
<1>9. CASE WriteNf
  <2>1. UNCHANGED <<mode, nh, np, nhi, attached>> /\ busy' \in 0 .. MaxBusy /\ call' = NoCall
    BY <1>9, Constants DEF WriteNf, Fail, TimesOut, InTime, Return, Typed
  <2>2. call.flow \in Flow /\ call.idx \in Index
    BY <1>9 DEF WriteNf, CallTyped
  <2>3. nf' = nf \/ nf' = [nf EXCEPT ![call.idx] = Row]
    BY <1>9 DEF WriteNf
  <2>4. \/ UNCHANGED <<soft, ftable>>
        \/ /\ soft' = [soft EXCEPT ![call.flow] =
                         [idx |-> call.idx, nh |-> call.nh, pool |-> call.pool]]
           /\ ftable' = [ftable EXCEPT ![call.idx] = call.flow]
    BY <1>9 DEF WriteNf, Fail, flows
  <2>5. nf' \in [Index -> [valid : BOOLEAN, flow : Flow \cup {None}, nh : Nhop, pool : Pool]]
    <3>1. Row \in [valid : BOOLEAN, flow : Flow \cup {None}, nh : Nhop, pool : Pool]
      BY <2>2, CallStays DEF Row
    <3> QED  BY <2>2, <2>3, <3>1 DEF Typed
  <2>6. soft' \in [Flow -> Entries \cup {None}]
    BY <2>2, <2>4 DEF Typed, CallTyped, Entries
  <2>7. ftable' \in [Index -> Flow \cup {None}]
    BY <2>2, <2>4 DEF Typed
  <2>8. Typed'
    BY <2>1, <2>5, <2>6, <2>7 DEF Typed, nhi
  <2>9. CallTyped' /\ ListTyped'
    BY <2>1, Constants DEF CallTyped, ListTyped, NoCall, nhi
  <2> QED  BY <2>8, <2>9
<1>10. CASE ReadNf
  <2>1. UNCHANGED <<mode, tables, nhi, attached>> /\ busy' \in 0 .. MaxBusy
    BY <1>10, Constants DEF ReadNf, Deleted, TimesOut, InTime, Typed
  <2>2. call.flow \in Flow /\ call.idx \in Index
    BY <1>10 DEF ReadNf, CallTyped
  <2>3. call' = NoCall \/ call' = [call EXCEPT !.step = "invalidate"]
    BY <1>10 DEF ReadNf, Deleted, Return, Goto
  <2>4. soft' = soft /\ (ftable' = ftable \/ ftable' = [ftable EXCEPT ![call.idx] = None])
    BY <1>10 DEF ReadNf, Deleted, flows
  <2>5. Typed'
    BY <2>1, <2>2, <2>4 DEF Typed, Invalid, nhi, tables
  <2>6. CallTyped'
    BY <2>2, <2>3, Constants DEF CallTyped, Deleting, NoCall
  <2>7. ListTyped'
    BY <2>1, <2>3 DEF ListTyped, CallTyped, NoCall, nhi
  <2> QED  BY <2>5, <2>6, <2>7
<1>11. CASE Invalidate
  <2>1. /\ UNCHANGED <<mode, nh, np, nhi, attached>> /\ busy' \in 0 .. MaxBusy
        /\ nf' = nf \/ nf' = Invalid
    BY <1>11, Constants DEF Invalidate, Deleted, TimesOut, InTime, Typed
  <2>2. call.flow \in Flow /\ call.idx \in Index
    BY <1>11 DEF Invalidate, CallTyped
  <2>3. call' = NoCall \/ call' = [call EXCEPT !.step = "unref"]
    BY <1>11 DEF Invalidate, Deleted, Return, Goto
  <2>4. soft' = soft /\ (ftable' = ftable \/ ftable' = [ftable EXCEPT ![call.idx] = None])
    BY <1>11 DEF Invalidate, Deleted, flows
  <2>5. Typed'
    <3>1. nf' \in [Index -> [valid : BOOLEAN, flow : Flow \cup {None}, nh : Nhop, pool : Pool]]
      <4> DEFINE Rows == [valid : BOOLEAN, flow : Flow \cup {None}, nh : Nhop, pool : Pool]
      <4>1. nf[call.idx] \in Rows
        BY <2>2 DEF Typed
      <4>2. [nf[call.idx] EXCEPT !.valid = FALSE] \in Rows
        BY <4>1
      <4>3. Invalid = [nf EXCEPT ![call.idx] = [nf[call.idx] EXCEPT !.valid = FALSE]]
        BY DEF Invalid
      <4> HIDE DEF Rows
      <4>4. nf \in [Index -> Rows]
        BY DEF Typed, Rows
      <4>5. nf' \in [Index -> Rows]
        BY <2>1, <2>2, <4>2, <4>3, <4>4
      <4> QED  BY <4>5 DEF Rows
    <3> QED  BY <2>1, <2>2, <2>4, <3>1 DEF Typed, nhi
  <2>6. CallTyped'
    BY <2>2, <2>3, Constants DEF CallTyped, Deleting, NoCall
  <2>7. ListTyped'
    BY <2>1, <2>3 DEF ListTyped, CallTyped, NoCall, nhi
  <2> QED  BY <2>5, <2>6, <2>7
<1>12. CASE Unref
  <2>1. Typed'
    BY <1>12, Constants DEF Unref, PutNext, Deleted, Return, NoCall, TimesOut, InTime, Typed, CallTyped
  <2>2. CallTyped'
    BY <1>12, Constants DEF Unref, PutNext, Deleted, Return, NoCall, TimesOut, InTime, CallTyped, Typed
  <2>3. ListTyped'
    BY <1>12, Constants DEF Unref, PutNext, Deleted, Return, NoCall, TimesOut, InTime, ListTyped, CallTyped
  <2> QED  BY <2>1, <2>2, <2>3
<1>13. CASE UNCHANGED vars
  <2>1. Typed'
    BY <1>13, Constants DEF vars, Typed, CallTyped
  <2>2. CallTyped'
    BY <1>13, Constants DEF vars, CallTyped, Typed
  <2>3. ListTyped'
    BY <1>13, Constants DEF vars, ListTyped
  <2> QED  BY <2>1, <2>2, <2>3
<1> QED  BY <1>1, <1>2, <1>3, <1>4, <1>5, <1>6, <1>7, <1>8, <1>9, <1>10, <1>11, <1>12, <1>13
         DEF Next, Call

(***************************************************************************)
(* The connection table, the table of used indices and the rows            *)
(***************************************************************************)
RowsInv ==
  /\ mode = "off" => call.step = "idle"
  /\ call.step \in Adding => ftable[call.idx] = None /\ soft[call.flow] = None
  /\ call.step \in Deleting => ftable[call.idx] = call.flow /\ soft[call.flow] = None
  /\ mode # "off" => \A f \in Flow : soft[f] # None => ftable[soft[f].idx] = f
  /\ mode # "off" => \A i \in Index : ftable[i] # None =>
       \/ soft[ftable[i]] # None /\ soft[ftable[i]].idx = i
       \/ call.step \in Deleting /\ call.idx = i
  /\ mode = "normal" => \A f \in Flow : soft[f] # None =>
       nf[soft[f].idx].valid /\ nf[soft[f].idx].flow = f

LEMMA RowsInit == Init => RowsInv
  BY DEF Init, RowsInv, NoCall, Adding, Deleting

\* Up to the last access of an addition the tables do not change.
LEMMA AddGoesOn ==
  ASSUME RowsInv, call.step \in Adding, UNCHANGED <<mode, nf, soft, ftable>>,
         \/ call' = NoCall
         \/ call'.step \in Adding /\ call'.idx = call.idx /\ call'.flow = call.flow
  PROVE  RowsInv'
  BY DEF RowsInv, NoCall, Adding, Deleting

\* No flow that is known uses the row of the flow that is being deleted.
LEMMA RowIsGone ==
  ASSUME TypeInv, RowsInv, call.step \in Deleting,
         NEW f \in Flow, soft[f] # None
  PROVE  soft[f].idx \in Index /\ soft[f].idx # call.idx
<1>1. mode # "off" /\ ftable[soft[f].idx] = f /\ ftable[call.idx] = call.flow /\ soft[call.flow] = None
  BY DEF RowsInv, Deleting
<1> QED  BY <1>1 DEF TypeInv, Typed, Entries

\* A deletion may clear its row,
LEMMA DelGoesOn ==
  ASSUME TypeInv, RowsInv, call.step \in Deleting, UNCHANGED <<mode, soft, ftable>>,
         nf' = nf \/ nf' = Invalid,
         call'.step \in Deleting /\ call'.idx = call.idx /\ call'.flow = call.flow
  PROVE  RowsInv'
<1>1. \A f \in Flow : soft[f] # None => nf'[soft[f].idx] = nf[soft[f].idx]
  BY RowIsGone DEF Invalid, TypeInv, Typed
<1> QED  BY <1>1 DEF RowsInv, Adding, Deleting

\* and gives its index back.
LEMMA DelEnds ==
  ASSUME TypeInv, RowsInv, call.step \in Deleting, Deleted, nf' = nf \/ nf' = Invalid
  PROVE  RowsInv'
<1>1. \A f \in Flow : soft[f] # None => nf'[soft[f].idx] = nf[soft[f].idx]
  BY RowIsGone DEF Invalid, TypeInv, Typed
<1>2. \A f \in Flow : soft[f] # None => ftable'[soft[f].idx] = ftable[soft[f].idx]
  BY RowIsGone DEF Deleted, TypeInv, Typed
<1>3. \A i \in Index : ftable'[i] = IF i = call.idx THEN None ELSE ftable[i]
  BY DEF Deleted, TypeInv, Typed
<1>4. call'.step = "idle" /\ mode' = mode /\ soft' = soft
  BY DEF Deleted, Return, NoCall
<1> QED  BY <1>1, <1>2, <1>3, <1>4 DEF RowsInv, Adding, Deleting

LEMMA RowsStep == TypeInv /\ RowsInv /\ [Next]_vars => RowsInv'
<1> SUFFICES ASSUME TypeInv, RowsInv, [Next]_vars PROVE RowsInv'
  OBVIOUS
<1> USE DEF TypeInv, Unsure
<1>1. CASE Attach
  BY <1>1 DEF Attach, Blanked, RowsInv, Adding, Deleting
<1>2. CASE Down
  BY <1>2 DEF Down, RowsInv, flows, nhi
<1>3. CASE Flush
  BY <1>3 DEF Flush, Holding, RowsInv, Adding, Deleting
<1>4. ASSUME NEW f \in Flow, Add(f) PROVE RowsInv'
  BY <1>4 DEF Add, RowsInv, Adding, Deleting, Holding, tables, flows
<1>5. ASSUME NEW f \in Flow, Del(f) PROVE RowsInv'
  BY <1>5, Constants DEF Del, RowsInv, Adding, Deleting, Holding, Typed, Entries, tables
<1>6. CASE FindNhop
  <2>1. call.step \in Adding /\ UNCHANGED <<mode, nf, soft, ftable>>
    BY <1>6 DEF FindNhop, Adding, tables, flows
  <2>2. \/ call' = NoCall
        \/ call'.step \in Adding /\ call'.idx = call.idx /\ call'.flow = call.flow
    BY <1>6, CallStays DEF FindNhop, Return, Goto, Adding
  <2> QED  BY <2>1, <2>2, AddGoesOn
<1>7. CASE WriteNhop
  <2>1. call.step \in Adding /\ UNCHANGED <<mode, nf, soft, ftable>>
    BY <1>7 DEF WriteNhop, Fail, Adding, flows
  <2>2. \/ call' = NoCall
        \/ call'.step \in Adding /\ call'.idx = call.idx /\ call'.flow = call.flow
    BY <1>7, CallStays DEF WriteNhop, Fail, Return, Adding
  <2> QED  BY <2>1, <2>2, AddGoesOn
<1>8. CASE SetPool
  <2>1. call.step \in Adding /\ UNCHANGED <<mode, nf, soft, ftable>>
    BY <1>8 DEF SetPool, Fail, Adding, flows
  <2>2. \/ call' = NoCall
        \/ call'.step \in Adding /\ call'.idx = call.idx /\ call'.flow = call.flow
    BY <1>8, CallStays DEF SetPool, Fail, Return, Adding
  <2> QED  BY <2>1, <2>2, AddGoesOn
<1>9. CASE WriteNf
  <2> DEFINE entry == [idx |-> call.idx, nh |-> call.nh, pool |-> call.pool]
  <2>1. /\ call.flow \in Flow /\ call.idx \in Index /\ entry \in Entries /\ entry # None
        /\ ftable[call.idx] = None /\ soft[call.flow] = None /\ call' = NoCall /\ mode' = mode
    <3>1. call.flow \in Flow /\ call.idx \in Index /\ ftable[call.idx] = None /\ soft[call.flow] = None
      BY <1>9 DEF WriteNf, CallTyped, RowsInv, Adding
    <3>2. entry \in Entries
      BY <3>1, CallStays DEF Entries
    <3>3. call' = NoCall /\ mode' = mode
      BY <1>9 DEF WriteNf, Fail, Return
    <3> QED  BY <3>1, <3>2, <3>3, ConstantsAssumption
  <2>2. \A f \in Flow : soft[f] # None => soft[f].idx # call.idx /\ soft[f].idx \in Index
    <3>1. mode # "off"
      BY <1>9 DEF WriteNf, RowsInv
    <3> QED  BY <2>1, <3>1, ConstantsAssumption DEF RowsInv, Typed, Entries
  <2>3. CASE UNCHANGED flows
    <3>1. \A f \in Flow : soft[f] # None => nf'[soft[f].idx] = nf[soft[f].idx]
      BY <1>9, <2>1, <2>2 DEF WriteNf, Typed
    <3> QED  BY <2>1, <2>3, <3>1 DEF RowsInv, NoCall, Adding, Deleting, flows, WriteNf
  <2>4. CASE /\ nf' = [nf EXCEPT ![call.idx] = Row]
             /\ soft' = [soft EXCEPT ![call.flow] = entry]
             /\ ftable' = [ftable EXCEPT ![call.idx] = call.flow]
    <3>1. \A f \in Flow : soft'[f] = IF f = call.flow THEN entry ELSE soft[f]
      BY <2>1, <2>4 DEF Typed
    <3>2. \A i \in Index : ftable'[i] = IF i = call.idx THEN call.flow ELSE ftable[i]
      BY <2>1, <2>4 DEF Typed
    <3>3. nf'[call.idx].valid /\ nf'[call.idx].flow = call.flow
      BY <2>1, <2>4 DEF Typed, Row
    <3>4. \A i \in Index : i # call.idx => nf'[i] = nf[i]
      BY <2>1, <2>4 DEF Typed
    <3>5. entry.idx = call.idx
      OBVIOUS
    <3> HIDE DEF entry
    <3>6. mode # "off" => \A f \in Flow : soft'[f] # None => ftable'[soft'[f].idx] = f
      BY <2>1, <2>2, <3>1, <3>2, <3>5 DEF RowsInv
    <3>7. mode # "off" => \A i \in Index : ftable'[i] # None =>
            soft'[ftable'[i]] # None /\ soft'[ftable'[i]].idx = i
      <4>1. call.step \notin Deleting
        BY <1>9 DEF WriteNf, Deleting
      <4>2. \A i \in Index : ftable[i] # None => ftable[i] \in Flow
        BY DEF Typed
      <4> QED  BY <2>1, <3>1, <3>2, <3>5, <4>1, <4>2 DEF RowsInv
    <3>8. mode = "normal" => \A f \in Flow : soft'[f] # None =>
            nf'[soft'[f].idx].valid /\ nf'[soft'[f].idx].flow = f
      BY <2>1, <2>2, <3>1, <3>3, <3>4, <3>5 DEF RowsInv
    <3> QED  BY <2>1, <3>6, <3>7, <3>8 DEF RowsInv, NoCall, Adding, Deleting
  <2> QED  BY <1>9, <2>3, <2>4 DEF WriteNf, Fail
<1>10. CASE ReadNf
  <2>1. call.step \in Deleting /\ nf' = nf
    BY <1>10 DEF ReadNf, Deleting, tables
  <2>2. CASE Deleted
    BY <2>1, <2>2, DelEnds
  <2>3. CASE Goto("invalidate") /\ UNCHANGED <<mode, flows>>
    <3>1. call'.step \in Deleting /\ call'.idx = call.idx /\ call'.flow = call.flow
      BY <2>3, CallStays DEF Goto, Deleting
    <3> QED  BY <2>1, <2>3, <3>1, DelGoesOn DEF flows
  <2> QED  BY <1>10, <2>2, <2>3 DEF ReadNf
<1>11. CASE Invalidate
  <2>1. call.step \in Deleting /\ (nf' = nf \/ nf' = Invalid)
    BY <1>11 DEF Invalidate, Deleting
  <2>2. CASE Deleted
    BY <2>1, <2>2, DelEnds
  <2>3. CASE Goto("unref") /\ UNCHANGED <<mode, flows>>
    <3>1. call'.step \in Deleting /\ call'.idx = call.idx /\ call'.flow = call.flow
      BY <2>3, CallStays DEF Goto, Deleting
    <3> QED  BY <2>1, <2>3, <3>1, DelGoesOn DEF flows
  <2> QED  BY <1>11, <2>2, <2>3 DEF Invalidate
<1>12. CASE Unref
  BY <1>12, DelEnds DEF Unref, Deleting
<1>13. CASE UNCHANGED vars
  BY <1>13 DEF vars, RowsInv
<1> QED  BY <1>1, <1>2, <1>3, <1>4, <1>5, <1>6, <1>7, <1>8, <1>9, <1>10, <1>11, <1>12, <1>13
         DEF Next, Call

(***************************************************************************)
(* The number of flows                                                     *)
(***************************************************************************)
Pending == IF call.step \in Deleting THEN 1 ELSE 0
CountInv == nflows = Cardinality(Known) + Pending

LEMMA KnownIsFinite == IsFiniteSet(Known) /\ Cardinality(Known) \in Nat
  BY ConstantsAssumption, FS_Subset, FS_CardinalityType DEF Known

LEMMA CountInit == Init => CountInv
<1> SUFFICES ASSUME Init PROVE CountInv
  OBVIOUS
<1>1. Known = {}
  BY DEF Init, Known
<1> QED  BY <1>1, FS_EmptySet DEF Init, CountInv, Pending, NoCall, Deleting

\* A deletion counts its flow until it ends.
LEMMA CountEnds ==
  ASSUME CountInv, call.step \in Deleting, Deleted PROVE CountInv'
<1>1. Known' = Known
  BY DEF Deleted, Known
<1> QED  BY <1>1, KnownIsFinite DEF Deleted, Return, NoCall, CountInv, Pending, Deleting

LEMMA CountStep == TypeInv /\ RowsInv /\ CountInv /\ [Next]_vars => CountInv'
<1> SUFFICES ASSUME TypeInv, RowsInv, CountInv, [Next]_vars PROVE CountInv'
  OBVIOUS
<1> USE DEF TypeInv, Unsure
<1>0. ASSUME UNCHANGED <<soft, nflows>>, Pending' = Pending PROVE CountInv'
  BY <1>0 DEF CountInv, Known
<1>1. CASE Attach
  <2>1. Known' = {} /\ nflows' = 0
    BY <1>1 DEF Attach, Known
  <2>2. call'.step = "idle"
    BY <1>1 DEF Attach, RowsInv
  <2> QED  BY <2>1, <2>2, FS_EmptySet DEF CountInv, Pending, Deleting
<1>2. CASE Down
  BY <1>0, <1>2 DEF Down, flows, Pending
<1>3. CASE Flush
  <2>1. Known' = {} /\ nflows' = nflows - Cardinality(Known)
    BY <1>3 DEF Flush, Known
  <2>2. call.step = "idle" /\ call' = call
    BY <1>3 DEF Flush, Holding
  <2> QED  BY <2>1, <2>2, KnownIsFinite, FS_EmptySet DEF CountInv, Pending, Deleting
<1>4. ASSUME NEW f \in Flow, Add(f) PROVE CountInv'
  BY <1>0, <1>4 DEF Add, Holding, flows, Pending, Deleting
<1>5. ASSUME NEW f \in Flow, Del(f) PROVE CountInv'
  <2>1. f \in Known /\ Known' = Known \ {f}
    BY <1>5 DEF Del, Known, Typed
  <2>2. Pending = 0 /\ Pending' = 1 /\ nflows' = nflows
    BY <1>5 DEF Del, Holding, Pending, Deleting
  <2> QED  BY <2>1, <2>2, KnownIsFinite, FS_RemoveElement DEF CountInv
<1>6. CASE FindNhop
  <2>1. UNCHANGED <<soft, nflows>> /\ call.step \notin Deleting
    BY <1>6 DEF FindNhop, flows, Deleting
  <2>2. call' = NoCall \/ call'.step \in Adding
    BY <1>6, CallStays DEF FindNhop, Return, Goto, Adding
  <2> QED  BY <1>0, <2>1, <2>2 DEF Pending, NoCall, Adding, Deleting
<1>7. CASE WriteNhop
  <2>1. UNCHANGED <<soft, nflows>> /\ call.step \notin Deleting
    BY <1>7 DEF WriteNhop, Fail, flows, Deleting
  <2>2. call' = NoCall \/ call'.step \in Adding
    BY <1>7, CallStays DEF WriteNhop, Fail, Return, Adding
  <2> QED  BY <1>0, <2>1, <2>2 DEF Pending, NoCall, Adding, Deleting
<1>8. CASE SetPool
  <2>1. UNCHANGED <<soft, nflows>> /\ call.step \notin Deleting
    BY <1>8 DEF SetPool, Fail, flows, Deleting
  <2>2. call' = NoCall \/ call'.step \in Adding
    BY <1>8, CallStays DEF SetPool, Fail, Return, Adding
  <2> QED  BY <1>0, <2>1, <2>2 DEF Pending, NoCall, Adding, Deleting
<1>9. CASE WriteNf
  <2>1. Pending = 0 /\ Pending' = 0
    BY <1>9 DEF WriteNf, Fail, Return, NoCall, Pending, Deleting
  <2>2. CASE UNCHANGED flows
    BY <1>0, <2>1, <2>2 DEF flows
  <2>3. CASE nflows' = nflows + 1 /\
             soft' = [soft EXCEPT ![call.flow] =
                        [idx |-> call.idx, nh |-> call.nh, pool |-> call.pool]]
    <3>1. call.flow \in Flow /\ call.flow \notin Known /\ call.idx \in Index
      BY <1>9 DEF WriteNf, CallTyped, RowsInv, Adding, Known
    <3>2. [idx |-> call.idx, nh |-> call.nh, pool |-> call.pool] \in Entries
      BY <3>1, CallStays DEF Entries
    <3>3. Known' = Known \cup {call.flow}
      BY <2>3, <3>1, <3>2, ConstantsAssumption DEF Known, Typed
    <3>4. Cardinality(Known') = Cardinality(Known) + 1
      BY <3>1, <3>3, KnownIsFinite, FS_AddElement
    <3> QED  BY <2>1, <2>3, <3>4, KnownIsFinite DEF CountInv
  <2> QED  BY <1>9, <2>2, <2>3 DEF WriteNf, Fail
<1>10. CASE ReadNf
  <2>1. call.step \in Deleting
    BY <1>10 DEF ReadNf, Deleting
  <2>2. CASE Goto("invalidate") /\ UNCHANGED flows
    BY <1>0, <2>1, <2>2, CallStays DEF Goto, flows, Pending, Deleting
  <2> QED  BY <1>10, <2>1, <2>2, CountEnds DEF ReadNf, flows
<1>11. CASE Invalidate
  <2>1. call.step \in Deleting
    BY <1>11 DEF Invalidate, Deleting
  <2>2. CASE Goto("unref") /\ UNCHANGED flows
    BY <1>0, <2>1, <2>2, CallStays DEF Goto, flows, Pending, Deleting
  <2> QED  BY <1>11, <2>1, <2>2, CountEnds DEF Invalidate, flows
<1>12. CASE Unref
  BY <1>12, CountEnds DEF Unref, Deleting
<1>13. CASE UNCHANGED vars
  BY <1>0, <1>13 DEF vars, Pending
<1> QED  BY <1>1, <1>2, <1>3, <1>4, <1>5, <1>6, <1>7, <1>8, <1>9, <1>10, <1>11, <1>12, <1>13
         DEF Next, Call

\* Every state of the flow accelerator's tables is well typed.
THEOREM FaTyped == Spec => []TypeOK
<1>1. TypeInv /\ CountInv => TypeOK
  <2> SUFFICES ASSUME TypeInv, CountInv PROVE TypeOK
    OBVIOUS
  <2>1. nflows \in Nat
    BY KnownIsFinite DEF CountInv, Pending
  <2> QED  BY <2>1 DEF TypeInv, Typed, CallTyped, ListTyped, TypeOK, Adding, Deleting
<1> QED  BY <1>1, TypeInit, TypeStep, RowsInit, RowsStep, CountInit, CountStep, PTL DEF Spec

\* The three tables agree between calls, however many accesses run out of
\* polls and whether or not their writes are performed after all.
THEOREM TablesInStep == Spec => []InStep
<1>1. TypeInv /\ RowsInv /\ CountInv => InStep
  <2> SUFFICES ASSUME TypeInv, RowsInv, CountInv, mode = "normal", ~Holding
               PROVE  /\ nflows = Cardinality({f \in Flow : soft[f] # None})
                      /\ \A f \in Flow : soft[f] # None =>
                           /\ ftable[soft[f].idx] = f
                           /\ nf[soft[f].idx].valid /\ nf[soft[f].idx].flow = f
                      /\ \A i \in Index : ftable[i] # None =>
                           soft[ftable[i]] # None /\ soft[ftable[i]].idx = i
    BY DEF InStep
  <2>1. call.step = "idle"
    BY DEF Holding
  <2>2. nflows = Cardinality({f \in Flow : soft[f] # None})
    BY <2>1, KnownIsFinite DEF CountInv, Pending, Known, Deleting
  <2> QED  BY <2>1, <2>2 DEF RowsInv, Deleting
<1> QED  BY <1>1, TypeInit, TypeStep, RowsInit, RowsStep, CountInit, CountStep, PTL DEF Spec

(***************************************************************************)
(* Next hops, their references and the free list                           *)
(***************************************************************************)
\* The rows that point to next hop i, and the reference a call holds on it
\* while no row does.
Users(i) == {x \in Index : nf[x].valid /\ nf[x].nh = i}
Owed(i) == IF call.step \in {"pool", "nfwrite", "unref"} /\ call.nh = i THEN 1 ELSE 0

HopRows ==
  /\ \A x \in Index : nf[x].valid =>
       nf[x].flow \in Flow /\ nh[nf[x].nh] = NextHop[nf[x].flow]
  /\ \A f \in Flow : soft[f] # None => nf[soft[f].idx].nh = soft[f].nh
  /\ call.step \in {"pool", "nfwrite"} => nh[call.nh] = NextHop[call.flow]
  /\ call.step \in {"nfread", "invalidate"} =>
       nf[call.idx].valid /\ nf[call.idx].nh = call.nh

HopRefs ==
  /\ \A i \in Nhop : ref[i] >= Cardinality(Users(i)) + Owed(i)
  /\ \A i \in Nhop : nh[i] = None => ref[i] = 0

\* No address has two rows, because a row is only written when none has it.
HopsOnce ==
  /\ \A i, j \in Nhop : nh[i] = nh[j] /\ nh[i] # None => i = j
  /\ call.step = "nhwrite" => \A i \in Nhop : nh[i] # NextHop[call.flow]

PoolRows ==
  /\ \A i \in Pool : \/ np[i] = NoHop
                     \/ \E f \in Flow : i = External[f] /\ np[i] = <<Remap[f], i>>
  /\ \A x \in Index : nf[x].valid =>
       np[nf[x].pool] = <<Remap[nf[x].flow], External[nf[x].flow]>>
  /\ call.step = "nfwrite" =>
       np[call.pool] = <<Remap[call.flow], External[call.flow]>>

\* The free list is e[0], e[1], .., e[n - 1]: every blank next hop, once.
Chain(n, e) ==
  /\ free = e[0] /\ e[n] = NhopFull
  /\ \A k \in 0 .. n - 1 : e[k] \in Nhop /\ nh[e[k]] = None /\ flist[e[k]] = e[k + 1]
  /\ \A i \in Nhop : nh[i] = None => \E k \in 0 .. n - 1 : e[k] = i
  /\ \A j, k \in 0 .. n - 1 : e[j] = e[k] => j = k
Listed == \E n \in Nat : \E e \in [Nat -> 0 .. NhopFull] : Chain(n, e)

\* From fa_up to fa_down.
Good == HopRows /\ HopRefs /\ HopsOnce /\ PoolRows /\ Listed
Sound == mode = "normal" => Good

\* What the driver relies on: fewer addresses than next hops, one address a
\* direction ("only 2 entries, one each direction"), and that a next-hop row
\* whose write ran out of polls is not written later.
Roomy ==
  /\ IsFiniteSet(Mac) /\ Cardinality(Mac) < NhopFull
  /\ \A f, g \in Flow : External[f] = External[g] => Remap[f] = Remap[g]
  /\ "nh" \notin Late

LEMMA UsersCount ==
  ASSUME NEW i
  PROVE  /\ IsFiniteSet(Users(i)) /\ Cardinality(Users(i)) \in Nat
         /\ IsFiniteSet(Users(i)') /\ Cardinality(Users(i)') \in Nat
         /\ Users(i)' \subseteq Users(i) => Cardinality(Users(i)') <= Cardinality(Users(i))
<1>1. Users(i) \in SUBSET Index /\ Users(i)' \in SUBSET Index
  BY DEF Users
<1>2. IsFiniteSet(Users(i)) /\ IsFiniteSet(Users(i)')
  BY <1>1, ConstantsAssumption, FS_Subset
<1> QED  BY <1>2, FS_CardinalityType, FS_Subset

\* Unless every address has a row the list is not empty.
LEMMA NeverFull == ASSUME Roomy, TypeInv, HopsOnce, Listed PROVE free # NhopFull
<1> SUFFICES ASSUME free = NhopFull PROVE FALSE
  OBVIOUS
<1>1. PICK n \in Nat, e \in [Nat -> 0 .. NhopFull] : Chain(n, e)
  BY DEF Listed
<1>2. n = 0
  BY <1>1, ConstantsAssumption DEF Chain, Nhop
<1>3. \A i \in Nhop : nh[i] # None
  BY <1>1, <1>2 DEF Chain
<1>4. nh \in [Nhop -> Mac]
  BY <1>3 DEF TypeInv, Typed
<1>5. IsFiniteSet(Nhop) /\ Cardinality(Nhop) = NhopFull
  <2>1. NhopFull \in Nat \ {0} /\ 0 \in Int /\ NhopFull - 1 \in Int
    BY ConstantsAssumption
  <2>2. /\ IsFiniteSet(0 .. NhopFull - 1)
        /\ Cardinality(0 .. NhopFull - 1) =
             IF 0 > NhopFull - 1 THEN 0 ELSE (NhopFull - 1) - 0 + 1
    BY <2>1, FS_Interval
  <2> QED  BY <2>1, <2>2 DEF Nhop
<1>6. PICK i, j \in Nhop : i # j /\ nh[i] = nh[j]
  BY <1>4, <1>5, FS_PigeonHole DEF Roomy
<1> QED  BY <1>3, <1>6 DEF HopsOnce

LEMMA ListKept == ASSUME Listed, UNCHANGED <<nh, flist, free>> PROVE Listed'
<1>1. PICK n \in Nat, e \in [Nat -> 0 .. NhopFull] : Chain(n, e)
  BY DEF Listed
<1>2. Chain(n, e)'
  BY <1>1 DEF Chain
<1> QED  BY <1>2 DEF Listed

\* Taking the head of the list.
LEMMA ListTaken ==
  ASSUME TypeInv, Listed, free # NhopFull, NEW mac \in Mac, GetNext,
         nh' = [nh EXCEPT ![free] = mac]
  PROVE  Listed' /\ nh[free] = None
<1>1. PICK n \in Nat, e \in [Nat -> 0 .. NhopFull] : Chain(n, e)
  BY DEF Listed
<1>2. n > 0 /\ free \in Nhop /\ free = e[0] /\ nh[free] = None
  BY <1>1 DEF Chain
<1> DEFINE d == [k \in Nat |-> e[k + 1]]
<1>3. n - 1 \in Nat /\ d \in [Nat -> 0 .. NhopFull]
  BY <1>2
<1>4. Chain(n - 1, d)'
  <2>1. free' = d[0] /\ d[n - 1] = NhopFull
    BY <1>1, <1>2 DEF Chain, GetNext
  <2>2. \A k \in 0 .. n - 2 : d[k] = e[k + 1] /\ d[k + 1] = e[k + 2] /\ e[k + 1] # free
    BY <1>1, <1>2 DEF Chain
  <2>3. \A i \in Nhop : i # free => nh'[i] = nh[i] /\ flist'[i] = flist[i]
    BY <1>2 DEF GetNext, TypeInv, Typed, ListTyped
  <2>4. ASSUME NEW k \in 0 .. n - 2
        PROVE  d[k] \in Nhop /\ nh'[d[k]] = None /\ flist'[d[k]] = d[k + 1]
    <3>1. k + 1 \in 0 .. n - 1
      OBVIOUS
    <3> QED  BY <1>1, <2>2, <2>3, <3>1 DEF Chain
  <2>5. ASSUME NEW i \in Nhop, nh'[i] = None PROVE \E k \in 0 .. n - 2 : d[k] = i
    <3>1. i # free /\ nh[i] = None
      BY <1>2, <2>3, <2>5, ConstantsAssumption DEF TypeInv, Typed
    <3>2. PICK k \in 0 .. n - 1 : e[k] = i
      BY <1>1, <3>1 DEF Chain
    <3>3. k - 1 \in 0 .. n - 2 /\ d[k - 1] = i
      BY <1>2, <3>1, <3>2
    <3> QED  BY <3>3
  <2>6. ASSUME NEW j \in 0 .. n - 2, NEW k \in 0 .. n - 2, d[j] = d[k] PROVE j = k
    <3>1. j + 1 \in 0 .. n - 1 /\ k + 1 \in 0 .. n - 1 /\ e[j + 1] = e[k + 1]
      BY <2>2, <2>6
    <3> QED  BY <1>1, <3>1 DEF Chain
  <2> HIDE DEF d
  <2>7. (n - 1) - 1 = n - 2
    OBVIOUS
  <2> QED  BY <2>1, <2>4, <2>5, <2>6, <2>7 DEF Chain
<1> HIDE DEF d
<1> QED  BY <1>2, <1>3, <1>4 DEF Listed

\* Putting an entry back on a list that is not empty.
LEMMA ListPut ==
  ASSUME TypeInv, Listed, free # NhopFull, NEW i \in Nhop, nh[i] # None, PutNext(i),
         nh' = [nh EXCEPT ![i] = None]
  PROVE  Listed'
<1>1. PICK n \in Nat, e \in [Nat -> 0 .. NhopFull] : Chain(n, e)
  BY DEF Listed
<1> DEFINE d == [k \in Nat |-> IF k = 0 THEN i ELSE e[k - 1]]
<1>2. i \in 0 .. NhopFull
  BY ConstantsAssumption DEF Nhop
<1>3. n + 1 \in Nat /\ d \in [Nat -> 0 .. NhopFull]
  BY <1>2
<1>4. \A j \in Nhop : /\ nh'[j] = IF j = i THEN None ELSE nh[j]
                      /\ flist'[j] = IF j = i THEN free ELSE flist[j]
  BY DEF PutNext, TypeInv, Typed, ListTyped
<1>5. \A k \in 0 .. n : d[k] = IF k = 0 THEN i ELSE e[k - 1]
  OBVIOUS
<1>6. d[n + 1] = e[n] /\ d[0] = i /\ d[1] = e[0]
  OBVIOUS
<1>7. \A k \in 0 .. n - 1 : e[k] # i
  BY <1>1 DEF Chain
<1>8. ASSUME NEW k \in 0 .. n
      PROVE  d[k] \in Nhop /\ nh'[d[k]] = None /\ flist'[d[k]] = d[k + 1]
  <2>1. CASE k = 0
    BY <1>1, <1>4, <1>6, <2>1 DEF Chain
  <2>2. CASE k # 0
    <3>1. k - 1 \in 0 .. n - 1 /\ d[k] = e[k - 1] /\ d[k + 1] = e[k] /\ (k - 1) + 1 = k
      BY <2>2
    <3> QED  BY <1>1, <1>4, <1>7, <3>1 DEF Chain
  <2> QED  BY <2>1, <2>2
<1>9. ASSUME NEW j \in Nhop, nh'[j] = None PROVE \E k \in 0 .. n : d[k] = j
  <2>1. CASE j = i
    BY <1>6, <2>1
  <2>2. CASE j # i
    <3>1. PICK k \in 0 .. n - 1 : e[k] = j
      BY <1>1, <1>4, <1>9, <2>2 DEF Chain
    <3>2. k + 1 \in 0 .. n /\ d[k + 1] = j
      BY <3>1
    <3> QED  BY <3>2
  <2> QED  BY <2>1, <2>2
<1>10. ASSUME NEW j \in 0 .. n, NEW k \in 0 .. n, d[j] = d[k] PROVE j = k
  <2>1. CASE j # 0 /\ k # 0
    <3>1. j - 1 \in 0 .. n - 1 /\ k - 1 \in 0 .. n - 1 /\ e[j - 1] = e[k - 1]
      BY <1>5, <1>10, <2>1
    <3> QED  BY <1>1, <3>1, <2>1 DEF Chain
  <2>2. CASE j = 0 /\ k # 0
    <3>1. k - 1 \in 0 .. n - 1 /\ e[k - 1] = i
      BY <1>5, <1>10, <2>2
    <3> QED  BY <1>7, <3>1
  <2>3. CASE j # 0 /\ k = 0
    <3>1. j - 1 \in 0 .. n - 1 /\ e[j - 1] = i
      BY <1>5, <1>10, <2>3
    <3> QED  BY <1>7, <3>1
  <2> QED  BY <2>1, <2>2, <2>3
<1>11. Chain(n + 1, d)'
  <2> HIDE DEF d
  <2>1. (n + 1) - 1 = n /\ e[n] = NhopFull /\ free' = i
    BY <1>1 DEF Chain, PutNext
  <2> QED  BY <1>6, <1>8, <1>9, <1>10, <2>1 DEF Chain
<1> HIDE DEF d
<1> QED  BY <1>3, <1>11 DEF Listed

LEMMA SoundInit == Init => Sound
  BY DEF Init, Sound

\* All tables blank and the free list in order, as fa_up leaves them.
LEMMA FreshListed ==
  ASSUME TypeInv, flist' = InOrder, free' = 0, nh' = [i \in Nhop |-> None]
  PROVE  Listed'
<1> DEFINE e == [k \in Nat |-> IF k <= NhopFull THEN k ELSE NhopFull]
<1>1. NhopFull \in Nat \ {0}
  BY ConstantsAssumption
<1>2. e \in [Nat -> 0 .. NhopFull]
  BY <1>1
<1>3. e[0] = 0 /\ e[NhopFull] = NhopFull /\ \A k \in 0 .. NhopFull - 1 : e[k] = k /\ e[k + 1] = k + 1
  BY <1>1
<1> HIDE DEF e
<1>4. Chain(NhopFull, e)'
  BY <1>1, <1>3 DEF Chain, InOrder, Nhop
<1> QED  BY <1>1, <1>2, <1>4 DEF Listed

\* A call begins, ends or only changes what it is about to do.
LEMMA TablesKept ==
  ASSUME TypeInv, Good, UNCHANGED <<nf, nh, np, flist, free, ref>>,
         \A f \in Flow : soft'[f] = soft[f] \/ soft'[f] = None,
         \/ call'.step \in {"idle", "nhop"}
         \/ call'.step = "nhwrite" /\ \A i \in Nhop : nh[i] # NextHop[call'.flow]
         \/ call'.step = "nfread" /\ nf[call'.idx].valid /\ nf[call'.idx].nh = call'.nh
         \/ call.step = "nfread" /\ call'.step = "invalidate" /\ call'.idx = call.idx /\ call'.nh = call.nh
  PROVE  Good'
<1>1. HopRows'
  BY DEF Good, HopRows
<1>2. HopRefs'
  <2>1. \A i \in Nhop : Users(i)' = Users(i) /\ Owed(i)' = 0
    BY DEF Users, Owed
  <2>2. \A i \in Nhop : Owed(i) \in {0, 1}
    BY DEF Owed
  <2> QED  BY <2>1, <2>2, UsersCount DEF Good, HopRefs, TypeInv, Typed
<1>3. HopsOnce' /\ PoolRows'
  BY DEF Good, HopsOnce, PoolRows
<1>4. Listed'
  BY ListKept DEF Good
<1> QED  BY <1>1, <1>2, <1>3, <1>4 DEF Good

\* The row is found: it is the only one with the address.
LEMMA FoundStep ==
  ASSUME TypeInv, Good, call.step = "nhop", NEW i \in Nhop, nh[i] = NextHop[call.flow],
         UNCHANGED <<nf, nh, np, flist, free, soft>>, TakeRef(i), Moves("pool", i, call.pool)
  PROVE  Good'
<1>0. call.flow \in Flow /\ NextHop[call.flow] # None
  BY ConstantsAssumption DEF TypeInv, CallTyped
<1>1. HopRows'
  BY DEF Good, HopRows, Moves
<1>2. HopRefs'
  <2>1. \A j \in Nhop : Users(j)' = Users(j) /\ Owed(j) = 0 /\ Owed(j)' = IF j = i THEN 1 ELSE 0
    BY DEF Users, Owed, Moves
  <2>2. \A j \in Nhop : ref'[j] = IF j = i THEN ref[j] + 1 ELSE ref[j]
    BY DEF TakeRef, TypeInv, Typed
  <2>3. \A j \in Nhop : ref[j] \in Nat
    BY DEF TypeInv, Typed
  <2> QED  BY <1>0, <2>1, <2>2, <2>3, UsersCount DEF Good, HopRefs
<1>3. HopsOnce' /\ PoolRows'
  BY DEF Good, HopsOnce, PoolRows, Moves
<1>4. Listed'
  BY ListKept DEF Good
<1> QED  BY <1>1, <1>2, <1>3, <1>4 DEF Good

\* A row is written with an address no row has.
LEMMA WrittenStep ==
  ASSUME TypeInv, Good, call.step = "nhwrite", free # NhopFull,
         nh' = [nh EXCEPT ![free] = NextHop[call.flow]], GetNext, TakeRef(free),
         Moves("pool", free, call.pool), UNCHANGED <<nf, np, soft>>
  PROVE  Good'
<1>0. call.flow \in Flow /\ NextHop[call.flow] \in Mac /\ NextHop[call.flow] # None /\ free \in Nhop
  BY ConstantsAssumption DEF TypeInv, CallTyped, ListTyped, Nhop
<1>1. Listed' /\ nh[free] = None
  BY <1>0, ListTaken DEF Good
<1>2. \A j \in Nhop : nh'[j] = IF j = free THEN NextHop[call.flow] ELSE nh[j]
  BY <1>0 DEF TypeInv, Typed
<1>3. \A x \in Index : nf[x].valid => nf[x].nh \in Nhop /\ nf[x].nh # free
  BY <1>1, ConstantsAssumption DEF Good, HopRows, TypeInv, Typed
<1>4. HopRows'
  BY <1>0, <1>2, <1>3 DEF Good, HopRows, Moves
<1>5. HopRefs'
  <2>1. \A j \in Nhop : Users(j)' = Users(j) /\ Owed(j) = 0 /\ Owed(j)' = IF j = free THEN 1 ELSE 0
    BY DEF Users, Owed, Moves
  <2>2. \A j \in Nhop : ref'[j] = IF j = free THEN ref[j] + 1 ELSE ref[j]
    BY DEF TakeRef, TypeInv, Typed
  <2>3. \A j \in Nhop : ref[j] \in Nat
    BY DEF TypeInv, Typed
  <2> QED  BY <1>0, <1>2, <2>1, <2>2, <2>3, UsersCount DEF Good, HopRefs
<1>6. HopsOnce'
  BY <1>0, <1>2 DEF Good, HopsOnce, Moves
<1>7. PoolRows'
  BY DEF Good, PoolRows, Moves
<1> QED  BY <1>1, <1>4, <1>5, <1>6, <1>7 DEF Good

\* The pool row of the flow's direction is found, or written for the first time.
LEMMA PooledStep ==
  ASSUME Roomy, TypeInv, Good, call.step = "pool",
         UNCHANGED <<nf, nh, flist, free, ref, soft>>,
         \/ np' = np
         \/ /\ \A i \in Pool : np[i] # <<Remap[call.flow], External[call.flow]>>
            /\ np' = [np EXCEPT ![External[call.flow]] =
                        <<Remap[call.flow], External[call.flow]>>],
         \/ call' = NoCall
         \/ \E p \in Pool : /\ Moves("nfwrite", call.nh, p)
                            /\ np'[p] = <<Remap[call.flow], External[call.flow]>>
  PROVE  Good'
<1> DEFINE own == <<Remap[call.flow], External[call.flow]>>
<1>0. call.flow \in Flow /\ External[call.flow] \in Pool /\ Remap[call.flow] # None
  BY ConstantsAssumption, Constants DEF TypeInv, CallTyped
<1>1. HopRows'
  BY DEF Good, HopRows, NoCall, Moves
<1>2. HopRefs'
  <2>1. \A i \in Nhop : Users(i)' = Users(i) /\ Owed(i)' \in {0, Owed(i)} /\ Owed(i) \in {0, 1}
    BY DEF Users, Owed, NoCall, Moves
  <2> QED  BY <2>1, UsersCount DEF Good, HopRefs, TypeInv, Typed
<1>3. HopsOnce' /\ Listed'
  BY ListKept DEF Good, HopsOnce, NoCall, Moves
<1>4. \/ np' = np
      \/ /\ np[External[call.flow]] = NoHop
         /\ \A i \in Pool : np'[i] = IF i = External[call.flow] THEN own ELSE np[i]
  <2>1. CASE np' = np
    BY <2>1
  <2>2. CASE np[External[call.flow]] # own /\ np' = [np EXCEPT ![External[call.flow]] = own]
    <3>1. np[External[call.flow]] = NoHop
      BY <1>0, <2>2 DEF Good, PoolRows, Roomy
    <3> HIDE DEF own
    <3>2. \A i \in Pool : np'[i] = IF i = External[call.flow] THEN own ELSE np[i]
      BY <1>0, <2>2 DEF TypeInv, Typed
    <3> QED  BY <3>1, <3>2
  <2> QED  BY <1>0, <2>1, <2>2
<1>5. PoolRows'
  <2>1. ASSUME NEW i \in Pool
        PROVE  np'[i] = NoHop \/ \E f \in Flow : i = External[f] /\ np'[i] = <<Remap[f], i>>
    BY <1>0, <1>4 DEF Good, PoolRows
  <2>2. ASSUME NEW x \in Index, nf[x].valid
        PROVE  np'[nf[x].pool] = <<Remap[nf[x].flow], External[nf[x].flow]>>
    <3>1. /\ nf[x].pool \in Pool /\ nf[x].flow \in Flow
          /\ np[nf[x].pool] = <<Remap[nf[x].flow], External[nf[x].flow]>>
      BY <2>2 DEF Good, HopRows, PoolRows, TypeInv, Typed
    <3>2. np[nf[x].pool] # NoHop
      BY <3>1, ConstantsAssumption DEF NoHop
    <3> QED  BY <1>4, <3>1, <3>2
  <2>3. call'.step = "nfwrite" =>
          np'[call'.pool] = <<Remap[call'.flow], External[call'.flow]>>
    BY DEF NoCall, Moves
  <2> QED  BY <2>1, <2>2, <2>3 DEF PoolRows
<1> QED  BY <1>1, <1>2, <1>3, <1>5 DEF Good

\* The row is written and takes over the call's reference, whatever becomes of
\* the call; the row it replaces may be that of a flow that was forgotten.
LEMMA RowStep ==
  ASSUME TypeInv, Good, RowsInv, mode = "normal", call.step = "nfwrite",
         nf' = [nf EXCEPT ![call.idx] = Row], call' = NoCall,
         UNCHANGED <<nh, np, flist, free, ref>>,
         \A f \in Flow : \/ soft'[f] = soft[f]
                         \/ soft'[f].idx = call.idx /\ soft'[f].nh = call.nh
  PROVE  Good'
<1>0. call.flow \in Flow /\ call.idx \in Index /\ call.nh \in Nhop
  BY DEF TypeInv, CallTyped
<1>1. /\ \A x \in Index : nf'[x] = IF x = call.idx THEN Row ELSE nf[x]
      /\ Row.valid /\ Row.flow = call.flow /\ Row.nh = call.nh /\ Row.pool = call.pool
  BY <1>0 DEF Row, TypeInv, Typed
<1>2. \A f \in Flow : soft[f] # None => soft[f].idx \in Index /\ soft[f].idx # call.idx
  BY <1>0, ConstantsAssumption DEF RowsInv, Adding, TypeInv, Typed, Entries
<1> HIDE DEF Row
<1>3. HopRows'
  <2>1. ASSUME NEW x \in Index, nf'[x].valid
        PROVE  nf'[x].flow \in Flow /\ nh'[nf'[x].nh] = NextHop[nf'[x].flow]
    BY <1>0, <1>1, <2>1 DEF Good, HopRows
  <2>2. ASSUME NEW f \in Flow, soft'[f] # None PROVE nf'[soft'[f].idx].nh = soft'[f].nh
    BY <1>0, <1>1, <1>2, <2>2 DEF Good, HopRows
  <2> QED  BY <2>1, <2>2 DEF HopRows, NoCall
<1>4. HopRefs'
  <2>1. ASSUME NEW i \in Nhop PROVE ref'[i] >= Cardinality(Users(i)') + Owed(i)'
    <3>1. Owed(i)' = 0 /\ ref[i] \in Nat /\ ref[i] >= Cardinality(Users(i)) + Owed(i)
      BY DEF Owed, NoCall, Good, HopRefs, TypeInv, Typed
    <3>2. CASE i = call.nh
      <4>1. Owed(i) = 1
        BY <3>2 DEF Owed
      <4>2. Users(i)' = Users(i) \cup {call.idx}
        BY <1>0, <1>1, <3>2 DEF Users
      <4>3. Cardinality(Users(i)') <= Cardinality(Users(i)) + 1
        <5>1. IsFiniteSet(Users(i)) /\ Cardinality(Users(i)) \in Nat
          BY UsersCount
        <5>2. Cardinality(Users(i) \cup {call.idx}) =
                IF call.idx \in Users(i) THEN Cardinality(Users(i)) ELSE Cardinality(Users(i)) + 1
          BY <5>1, FS_AddElement
        <5> QED  BY <4>2, <5>1, <5>2
      <4> QED  BY <3>1, <4>1, <4>3, UsersCount
    <3>3. CASE i # call.nh
      <4>1. Users(i)' \subseteq Users(i)
        BY <1>0, <1>1, <3>3 DEF Users
      <4>2. Owed(i) = 0
        BY <3>3 DEF Owed
      <4> QED  BY <3>1, <4>1, <4>2, UsersCount
    <3> QED  BY <3>2, <3>3
  <2> QED  BY <2>1 DEF Good, HopRefs
<1>5. HopsOnce' /\ Listed'
  BY ListKept DEF Good, HopsOnce, NoCall
<1>6. PoolRows'
  BY <1>0, <1>1 DEF Good, PoolRows, NoCall
<1> QED  BY <1>3, <1>4, <1>5, <1>6 DEF Good

\* A row is invalidated; the reference it had is the call's, or nobody's.
LEMMA InvalidStep ==
  ASSUME TypeInv, Good, RowsInv, mode = "normal", call.step = "invalidate", nf' = Invalid,
         UNCHANGED <<nh, np, flist, free, ref, soft>>,
         call' = NoCall \/ Moves("unref", call.nh, call.pool)
  PROVE  Good'
<1>0. call.idx \in Index /\ call.nh \in Nhop /\ nf[call.idx].valid /\ nf[call.idx].nh = call.nh
  BY DEF TypeInv, CallTyped, Good, HopRows
<1>1. /\ \A x \in Index \ {call.idx} : nf'[x] = nf[x]
      /\ ~ nf'[call.idx].valid
  BY <1>0 DEF Invalid, TypeInv, Typed
<1>2. \A f \in Flow : soft[f] # None => soft[f].idx \in Index \ {call.idx}
  BY RowIsGone DEF Deleting
<1>3. HopRows'
  <2>1. \A x \in Index : nf'[x].valid =>
          nf'[x].flow \in Flow /\ nh'[nf'[x].nh] = NextHop[nf'[x].flow]
    BY <1>1 DEF Good, HopRows
  <2>2. \A f \in Flow : soft'[f] # None => nf'[soft'[f].idx].nh = soft'[f].nh
    BY <1>1, <1>2 DEF Good, HopRows
  <2> QED  BY <2>1, <2>2 DEF HopRows, NoCall, Moves
<1>4. HopRefs'
  <2>1. ASSUME NEW i \in Nhop PROVE ref'[i] >= Cardinality(Users(i)') + Owed(i)'
    <3>1. ref[i] \in Nat /\ ref[i] >= Cardinality(Users(i)) + Owed(i) /\ Owed(i) = 0
      BY DEF Owed, Good, HopRefs, TypeInv, Typed
    <3>2. CASE i = call.nh
      <4>1. Users(i)' = Users(i) \ {call.idx} /\ call.idx \in Users(i)
        BY <1>0, <1>1, <3>2 DEF Users
      <4>2. IsFiniteSet(Users(i)) /\ Cardinality(Users(i)) \in Nat
        BY UsersCount
      <4>3. Cardinality(Users(i) \ {call.idx}) =
              IF call.idx \in Users(i) THEN Cardinality(Users(i)) - 1 ELSE Cardinality(Users(i))
        BY <4>2, FS_RemoveElement
      <4>4. Owed(i)' \in {0, 1}
        BY DEF Owed
      <4> QED  BY <3>1, <4>1, <4>2, <4>3, <4>4
    <3>3. CASE i # call.nh
      <4>1. Users(i)' = Users(i)
        BY <1>0, <1>1, <3>3 DEF Users
      <4>2. Owed(i)' = 0
        BY <3>3 DEF Owed, NoCall, Moves
      <4> QED  BY <3>1, <4>1, <4>2, UsersCount
    <3> QED  BY <3>2, <3>3
  <2> QED  BY <2>1 DEF Good, HopRefs
<1>5. HopsOnce' /\ Listed'
  BY ListKept DEF Good, HopsOnce, NoCall, Moves
<1>6. PoolRows'
  BY <1>1 DEF Good, PoolRows, NoCall, Moves
<1> QED  BY <1>3, <1>4, <1>5, <1>6 DEF Good

\* The call's reference is given up, and with the last one the entry, unless
\* the write that blanks its row runs out of polls.
LEMMA UnrefStep ==
  ASSUME Roomy, TypeInv, Good, call.step = "unref", Unref
  PROVE  Good'
<1> DEFINE i == call.nh
<1>0. /\ i \in Nhop /\ ref[i] \in Nat /\ ref[i] >= Cardinality(Users(i)) + 1 /\ nh[i] # None
      /\ free # NhopFull /\ call' = NoCall /\ UNCHANGED <<nf, np, soft>>
  <2>1. i \in Nhop /\ ref[i] \in Nat /\ Owed(i) = 1
    BY DEF TypeInv, CallTyped, Typed, Owed
  <2>2. ref[i] >= Cardinality(Users(i)) + 1
    BY <2>1 DEF Good, HopRefs
  <2>3. ref[i] # 0
    BY <2>1, <2>2, UsersCount
  <2>4. nh[i] # None
    BY <2>1, <2>3 DEF Good, HopRefs
  <2>5. free # NhopFull
    BY NeverFull DEF Good
  <2> QED  BY <2>1, <2>2, <2>4, <2>5 DEF Unref, Deleted, Return
<1>1. /\ ref' = [ref EXCEPT ![i] = ref[i] - 1]
      /\ \A j \in Nhop : ref'[j] = IF j = i THEN ref[i] - 1 ELSE ref[j]
  <2>1. ref[i] # 0
    BY <1>0, UsersCount
  <2> QED  BY <1>0, <2>1 DEF Unref, TypeInv, Typed
<1>2. \/ UNCHANGED <<nh, flist, free>>
      \/ ref'[i] = 0 /\ nh' = [nh EXCEPT ![i] = None] /\ PutNext(i)
  BY DEF Unref, Unsure, Roomy
<1>3. CASE UNCHANGED <<nh, flist, free>>
  <2>1. HopRows' /\ HopsOnce' /\ PoolRows' /\ Listed'
    BY <1>0, <1>3, ListKept DEF Good, HopRows, HopsOnce, PoolRows, NoCall
  <2>2. HopRefs'
    <3>1. \A j \in Nhop : Users(j)' = Users(j) /\ Owed(j)' = 0 /\ ref[j] \in Nat
      BY <1>0 DEF Users, Owed, NoCall, TypeInv, Typed
    <3>2. \A j \in Nhop : j # i => Owed(j) = 0
      BY DEF Owed
    <3> QED  BY <1>0, <1>1, <1>3, <3>1, <3>2, UsersCount DEF Good, HopRefs
  <2> QED  BY <2>1, <2>2 DEF Good
<1>4. CASE ref'[i] = 0 /\ nh' = [nh EXCEPT ![i] = None] /\ PutNext(i)
  <2>1. Users(i) = {}
    BY <1>0, <1>1, <1>4, UsersCount, FS_EmptySet
  <2>2. \A j \in Nhop : nh'[j] = IF j = i THEN None ELSE nh[j]
    BY <1>4 DEF TypeInv, Typed
  <2>3. \A x \in Index : nf[x].valid => nf[x].nh \in Nhop /\ nf[x].nh # i
    BY <2>1 DEF Users, TypeInv, Typed
  <2>4. HopRows'
    BY <1>0, <2>2, <2>3 DEF Good, HopRows, NoCall
  <2>5. HopRefs'
    <3>1. \A j \in Nhop : Users(j)' = Users(j) /\ Owed(j)' = 0 /\ ref[j] \in Nat
      BY <1>0 DEF Users, Owed, NoCall, TypeInv, Typed
    <3>2. \A j \in Nhop : j # i => Owed(j) = 0
      BY DEF Owed
    <3> QED  BY <1>0, <1>1, <1>4, <2>2, <3>1, <3>2, UsersCount DEF Good, HopRefs
  <2>6. HopsOnce' /\ PoolRows'
    BY <1>0, <2>2 DEF Good, HopsOnce, PoolRows, NoCall
  <2>7. Listed'
    BY <1>0, <1>4, ListPut DEF Good
  <2> QED  BY <2>4, <2>5, <2>6, <2>7 DEF Good
<1> QED  BY <1>2, <1>3, <1>4

\* A scan that ends without a match has passed every row with the address: the
\* row a known flow uses is one, and otherwise it starts at row 0.
LEMMA OnlyRow ==
  ASSUME TypeInv, Good, RowsInv, mode = "normal", call.flow \in Flow,
         NEW from \in ScanFrom(NextHop[call.flow]), FirstMatch(NextHop[call.flow], from) = {}
  PROVE  \A i \in Nhop : nh[i] # NextHop[call.flow]
<1> DEFINE mac == NextHop[call.flow]
           known == {soft[g].nh : g \in {g \in Flow : soft[g] # None /\ NextHop[g] = mac}}
<1>0. mac # None
  BY ConstantsAssumption
<1>1. SUFFICES ASSUME NEW i \in Nhop, nh[i] = mac PROVE FALSE
  OBVIOUS
<1>2. \A j \in Nhop : nh[j] = mac => j = i
  BY <1>0, <1>1 DEF Good, HopsOnce
<1>3. CASE known = {}
  <2>1. from = 0
    BY <1>3 DEF ScanFrom
  <2>2. \A j \in 0 .. i - 1 : j \in Nhop /\ j # i
    BY ConstantsAssumption DEF Nhop
  <2>3. i >= 0
    BY DEF Nhop
  <2>4. i \in FirstMatch(mac, from)
    BY <1>1, <1>2, <2>1, <2>2, <2>3 DEF FirstMatch
  <2> QED  BY <2>4
<1>4. CASE known # {}
  <2>1. PICK g \in Flow : soft[g] # None /\ NextHop[g] = mac /\ from = soft[g].nh
    BY <1>4 DEF ScanFrom
  <2>2. soft[g].idx \in Index /\ from \in Nhop
    BY <2>1 DEF TypeInv, Typed, Entries
  <2>3. nh[from] = mac
    BY <2>1, <2>2 DEF RowsInv, Good, HopRows
  <2>4. from \in FirstMatch(mac, from)
    BY <2>2, <2>3 DEF FirstMatch, Nhop
  <2> QED  BY <2>4
<1> QED  BY <1>3, <1>4

\* The scan of the pool ends without a match only if no row has the address and
\* the direction.
LEMMA NoPoolRow ==
  ASSUME NEW row, PoolMatch(row) = {}
  PROVE  \A i \in Pool : np[i] # row
<1>1. Pool = {0, 1, 2, 3}
  BY DEF Pool
<1>2. /\ np[0] = row => 0 \in PoolMatch(row)
      /\ np[0] # row /\ np[1] = row => 1 \in PoolMatch(row)
      /\ np[0] # row /\ np[1] # row /\ np[2] = row => 2 \in PoolMatch(row)
      /\ np[0] # row /\ np[1] # row /\ np[2] # row /\ np[3] = row => 3 \in PoolMatch(row)
  BY <1>1 DEF PoolMatch
<1> QED  BY <1>1, <1>2

LEMMA SoundStep ==
  ASSUME Roomy PROVE TypeInv /\ RowsInv /\ Sound /\ [Next]_vars => Sound'
<1> SUFFICES ASSUME TypeInv, RowsInv, Sound, [Next]_vars, mode' = "normal" PROVE Good'
  BY DEF Sound
<1>1. CASE Attach
  <2>1. /\ call' = call /\ call.step = "idle" /\ nf' = [x \in Index |-> NoRow]
        /\ nh' = [i \in Nhop |-> None] /\ np' = [i \in Pool |-> NoHop]
        /\ ref' = [i \in Nhop |-> 0] /\ soft' = [f \in Flow |-> None]
    BY <1>1 DEF Attach, Blanked, RowsInv
  <2>2. HopRows' /\ HopsOnce' /\ PoolRows'
    BY <2>1 DEF HopRows, HopsOnce, PoolRows, NoRow
  <2>3. HopRefs'
    <3>1. \A i \in Nhop : Users(i)' = {} /\ Owed(i)' = 0
      BY <2>1 DEF Users, Owed, NoRow
    <3> QED  BY <2>1, <3>1, FS_EmptySet DEF HopRefs
  <2>4. Listed'
    BY <1>1, FreshListed DEF Attach, Blanked
  <2> QED  BY <2>2, <2>3, <2>4 DEF Good
<1>2. CASE Down \/ Flush
  BY <1>2 DEF Down, Flush
<1>c. ASSUME mode' = mode PROVE mode = "normal" /\ Good
  BY <1>c DEF Sound
<1>4. ASSUME NEW f \in Flow, Add(f) PROVE Good'
  <2>1. Good /\ call'.step = "nhop"
    BY <1>4, <1>c DEF Add
  <2>2. UNCHANGED <<nf, nh, np, flist, free, ref, soft>>
    BY <1>4 DEF Add, tables, nhi, flows
  <2> QED  BY <2>1, <2>2, TablesKept
<1>5. ASSUME NEW f \in Flow, Del(f) PROVE Good'
  <2>1. Good /\ mode = "normal"
    BY <1>5, <1>c DEF Del
  <2>2. /\ call'.step = "nfread" /\ call'.idx = soft[f].idx /\ call'.nh = soft[f].nh
        /\ soft' = [soft EXCEPT ![f] = None] /\ soft[f] # None
        /\ UNCHANGED <<nf, nh, np, flist, free, ref>>
    BY <1>5 DEF Del, tables, nhi
  <2>3. nf[soft[f].idx].valid /\ nf[soft[f].idx].nh = soft[f].nh
    BY <2>1, <2>2 DEF RowsInv, Good, HopRows
  <2>4. \A g \in Flow : soft'[g] = soft[g] \/ soft'[g] = None
    BY <2>2 DEF TypeInv, Typed
  <2> QED  BY <2>1, <2>2, <2>3, <2>4, TablesKept
<1>6. CASE FindNhop
  <2>1. Good /\ mode = "normal" /\ call.step = "nhop" /\ call.flow \in Flow
    BY <1>6, <1>c DEF FindNhop, TypeInv, CallTyped
  <2>2. UNCHANGED <<nf, nh, np, flist, free, soft>>
    BY <1>6 DEF FindNhop, tables, flows
  <2>3. CASE call' = NoCall /\ ref' = ref
    BY <2>1, <2>2, <2>3, TablesKept DEF NoCall
  <2>4. ASSUME NEW i \in Nhop, nh[i] = NextHop[call.flow], TakeRef(i), Moves("pool", i, call.pool)
        PROVE  Good'
    BY <2>1, <2>2, <2>4, FoundStep
  <2>5. ASSUME NEW from \in ScanFrom(NextHop[call.flow]), FirstMatch(NextHop[call.flow], from) = {},
               Moves("nhwrite", call.nh, call.pool), ref' = ref
        PROVE  Good'
    <3>1. \A i \in Nhop : nh[i] # NextHop[call.flow]
      BY <2>1, <2>5, OnlyRow
    <3> QED  BY <2>1, <2>2, <2>5, <3>1, TablesKept DEF Moves
  <2>6. \/ call' = NoCall /\ ref' = ref
        \/ \E i \in Nhop : nh[i] = NextHop[call.flow] /\ TakeRef(i) /\ Moves("pool", i, call.pool)
        \/ \E from \in ScanFrom(NextHop[call.flow]) :
             /\ FirstMatch(NextHop[call.flow], from) = {}
             /\ Moves("nhwrite", call.nh, call.pool) /\ ref' = ref
    BY <1>6, CallStays DEF TypeInv, FindNhop, FirstMatch, Return, Goto, Moves
  <2> QED  BY <2>3, <2>4, <2>5, <2>6
<1>7. CASE WriteNhop
  <2>1. Good /\ call.step = "nhwrite" /\ free # NhopFull /\ UNCHANGED <<nf, np, soft>>
    BY <1>7, <1>c DEF WriteNhop, Fail, flows, TypeInv, ListTyped
  <2>2. CASE Fail
    BY <1>7, <2>1, <2>2, TablesKept DEF WriteNhop, Fail, Return, NoCall, Unsure, Roomy, nhi, GetNext
  <2>3. CASE /\ nh' = [nh EXCEPT ![free] = NextHop[call.flow]] /\ GetNext /\ TakeRef(free)
             /\ call' = [call EXCEPT !.step = "pool", !.nh = free]
    BY <2>1, <2>3, WrittenStep, CallStays DEF Moves, TypeInv
  <2> QED  BY <1>7, <2>2, <2>3 DEF WriteNhop
<1>8. CASE SetPool
  <2>1. Good /\ call.step = "pool" /\ UNCHANGED <<nf, nh, flist, free, ref, soft>>
    BY <1>8, <1>c DEF SetPool, Fail, flows, nhi
  <2>2. call.flow \in Flow /\ External[call.flow] \in Pool
    BY <2>1, Constants DEF TypeInv, CallTyped
  <2>3. \/ np' = np
        \/ /\ PoolMatch(<<Remap[call.flow], External[call.flow]>>) = {}
           /\ np' = [np EXCEPT ![External[call.flow]] =
                       <<Remap[call.flow], External[call.flow]>>]
    BY <1>8 DEF SetPool, Unsure
  <2>4. \/ call' = NoCall
        \/ \E p \in Pool : /\ Moves("nfwrite", call.nh, p)
                           /\ np'[p] = <<Remap[call.flow], External[call.flow]>>
    <3>1. CASE Fail
      BY <3>1 DEF Fail, Return
    <3>2. ASSUME NEW p \in PoolMatch(<<Remap[call.flow], External[call.flow]>>),
                 call' = [call EXCEPT !.step = "nfwrite", !.pool = p], UNCHANGED np
          PROVE  \E q \in Pool : /\ Moves("nfwrite", call.nh, q)
                                 /\ np'[q] = <<Remap[call.flow], External[call.flow]>>
      BY <3>2, CallStays DEF PoolMatch, Moves, TypeInv
    <3>3. ASSUME np' = [np EXCEPT ![External[call.flow]] = <<Remap[call.flow], External[call.flow]>>],
                 call' = [call EXCEPT !.step = "nfwrite", !.pool = External[call.flow]]
          PROVE  \E q \in Pool : /\ Moves("nfwrite", call.nh, q)
                                 /\ np'[q] = <<Remap[call.flow], External[call.flow]>>
      BY <2>2, <3>3, CallStays DEF Moves, TypeInv, Typed
    <3> QED  BY <1>8, <3>1, <3>2, <3>3 DEF SetPool
  <2>5. PoolMatch(<<Remap[call.flow], External[call.flow]>>) = {} =>
          \A i \in Pool : np[i] # <<Remap[call.flow], External[call.flow]>>
    BY NoPoolRow DEF PoolMatch
  <2> QED  BY <2>1, <2>3, <2>4, <2>5, PooledStep
<1>9. CASE WriteNf
  <2>1. /\ Good /\ mode = "normal" /\ call.step = "nfwrite" /\ call' = NoCall
        /\ UNCHANGED <<nh, np, flist, free, ref>>
    BY <1>9, <1>c DEF WriteNf, Fail, Return, nhi
  <2>2. nf' = nf \/ nf' = [nf EXCEPT ![call.idx] = Row]
    BY <1>9 DEF WriteNf, Unsure
  <2>3. \/ soft' = soft
        \/ /\ nf' = [nf EXCEPT ![call.idx] = Row]
           /\ soft' = [soft EXCEPT ![call.flow] =
                         [idx |-> call.idx, nh |-> call.nh, pool |-> call.pool]]
    BY <1>9 DEF WriteNf, Fail, flows
  <2>4. CASE nf' = nf /\ soft' = soft
    BY <2>1, <2>4, TablesKept DEF NoCall
  <2>5. CASE nf' = [nf EXCEPT ![call.idx] = Row]
    <3>1. \A f \in Flow : \/ soft'[f] = soft[f]
                          \/ soft'[f].idx = call.idx /\ soft'[f].nh = call.nh
      BY <2>3 DEF TypeInv, Typed
    <3> QED  BY <2>1, <2>5, <3>1, RowStep
  <2> QED  BY <2>2, <2>3, <2>4, <2>5
<1>10. CASE ReadNf
  <2>1. Good /\ call.step = "nfread" /\ UNCHANGED <<nf, nh, np, flist, free, ref, soft>>
    BY <1>10, <1>c DEF ReadNf, Deleted, tables, nhi, flows
  <2>2. call' = NoCall \/ call' = [call EXCEPT !.step = "invalidate"]
    BY <1>10 DEF ReadNf, Deleted, Return, Goto
  <2>3. CASE call' = NoCall
    BY <2>1, <2>3, TablesKept DEF NoCall
  <2>4. CASE call' = [call EXCEPT !.step = "invalidate"]
    BY <2>1, <2>4, CallStays, TablesKept DEF TypeInv
  <2> QED  BY <2>2, <2>3, <2>4
<1>11. CASE Invalidate
  <2>1. /\ Good /\ mode = "normal" /\ call.step = "invalidate"
        /\ UNCHANGED <<nh, np, flist, free, ref, soft>>
    BY <1>11, <1>c DEF Invalidate, Deleted, nhi, flows
  <2>2. \/ nf' = nf /\ call' = NoCall
        \/ nf' = Invalid /\ (call' = NoCall \/ Moves("unref", call.nh, call.pool))
    BY <1>11, CallStays DEF Invalidate, Unsure, Deleted, Return, Goto, Moves, TypeInv
  <2>3. CASE nf' = nf /\ call' = NoCall
    BY <2>1, <2>3, TablesKept DEF NoCall
  <2> QED  BY <2>1, <2>2, <2>3, InvalidStep
<1>12. CASE Unref
  <2>1. Good /\ call.step = "unref"
    BY <1>12, <1>c DEF Unref, Deleted
  <2> QED  BY <1>12, <2>1, UnrefStep
<1>13. CASE UNCHANGED vars
  <2>1. Good /\ UNCHANGED <<nf, nh, np, flist, free, ref, soft, call>>
    BY <1>13, <1>c DEF vars
  <2>2. Listed'
    BY <2>1, ListKept DEF Good
  <2> QED  BY <2>1, <2>2 DEF Good, HopRows, HopRefs, HopsOnce, PoolRows, Users, Owed
<1> QED  BY <1>1, <1>2, <1>4, <1>5, <1>6, <1>7, <1>8, <1>9, <1>10, <1>11, <1>12, <1>13
         DEF Next, Call

\* If there are fewer addresses than next-hop rows, one address a direction and
\* no late write of a next-hop row: every valid row sends its flow to the
\* flow's own next hop and rewrites it with the flow's own address, whatever
\* accesses run out of polls and whichever flows are forgotten.
THEOREM RowsStayRight == ASSUME Roomy PROVE Spec => []RowsRight
<1>1. Sound => RowsRight
  BY DEF Sound, Good, HopRows, PoolRows, RowsRight
<1> QED  BY <1>1, TypeInit, TypeStep, RowsInit, RowsStep, SoundInit, SoundStep, PTL DEF Spec

\* Under the same conditions the entry handed out next is referred to by
\* nobody, and the free list never runs out.
THEOREM FreeStaysFree == ASSUME Roomy PROVE Spec => [](FreeIsFree /\ (mode = "normal" => free # NhopFull))
<1>1. TypeInv /\ Sound => FreeIsFree /\ (mode = "normal" => free # NhopFull)
  <2> SUFFICES ASSUME TypeInv, Good PROVE free # NhopFull /\ ref[free] = 0
    BY DEF Sound, FreeIsFree
  <2>1. free # NhopFull
    BY NeverFull DEF Good
  <2>2. PICK n \in Nat, e \in [Nat -> 0 .. NhopFull] : Chain(n, e)
    BY DEF Good, Listed
  <2>3. n > 0 /\ 0 \in 0 .. n - 1
    BY <2>1, <2>2 DEF Chain
  <2>4. free \in Nhop /\ nh[free] = None
    BY <2>2, <2>3 DEF Chain
  <2> QED  BY <2>1, <2>4 DEF Good, HopRefs
<1> QED  BY <1>1, TypeInit, TypeStep, RowsInit, RowsStep, SoundInit, SoundStep, PTL DEF Spec
=============================================================================
