-------------------------------- MODULE EtFa --------------------------------
(***************************************************************************)
(* The flow accelerator part of the vendor's et driver (etc_fa.c): NAPT    *)
(* rows, next-hop rows with reference counts and a free list, and pool     *)
(* rows, written through one register window.  A call holds fa_lock from   *)
(* its first to its last step; the hardware forwards by the rows meanwhile,*)
(* and each access of a table may run out of polls.                        *)
(*                                                                         *)
(* A next hop and a remap address are reduced to one value each, a tuple   *)
(* to its flow and the bucket its hash selects.                            *)
(***************************************************************************)
EXTENDS Naturals, FiniteSets

CONSTANTS Flow,        \* unidirectional flows
          Mac,         \* MAC addresses
          NextHop,     \* NextHop[f]: destination address of f
          Remap,       \* Remap[f]: source address f is rewritten to
          External,    \* External[f]: 1 if f is source-NATed, else 0
          Index,       \* indices of NAPT rows
          Bucket,      \* Bucket[f]: the indices f's hash selects
          NhopFull,    \* number of next-hop rows, and the end of their free list
          MaxBusy,     \* bound on accesses that run out of polls
          Late,        \* tables whose timed-out writes may yet be performed
          MaxAttach,   \* bound on attachments of the driver
          None         \* stands for no flow, no address and no row

Nhop == 0 .. NhopFull - 1
Pool == 0 .. 3
Entries == [idx : Index, nh : Nhop, pool : Pool]

ASSUME ConstantsAssumption ==
  /\ NextHop \in [Flow -> Mac]
  /\ Remap \in [Flow -> Mac]
  /\ External \in [Flow -> {0, 1}]
  /\ Bucket \in [Flow -> SUBSET Index]
  /\ NhopFull \in Nat \ {0}
  /\ {MaxBusy, MaxAttach} \subseteq Nat
  /\ Late \subseteq {"nf", "nh", "np"}
  /\ IsFiniteSet(Flow) /\ IsFiniteSet(Index)
  /\ None \notin Flow \cup Mac \cup Entries

VARIABLES mode,     \* "off" before attachment, "normal", "bypass"
          nf,       \* NAPT rows of the hardware
          nh,       \* next-hop rows of the hardware
          np,       \* pool rows of the hardware
          flist,    \* flist[i]: the entry after i on the free list
          free,     \* the head of the free list
          ref,      \* ref[i]: references to next hop i
          soft,     \* soft[f]: f's entry of the connection table
          ftable,   \* ftable[i]: the flow that uses NAPT row i
          nflows,   \* number of flows in the connection table
          call,     \* the call that holds fa_lock
          busy,     \* accesses that ran out of polls so far
          attached  \* attachments so far

tables == <<nf, nh, np>>
nhi == <<flist, free, ref>>
flows == <<soft, ftable, nflows>>
vars == <<mode, nf, nh, np, flist, free, ref, soft, ftable, nflows, call, busy, attached>>

NoRow == [valid |-> FALSE, flow |-> None, nh |-> 0, pool |-> 0]
NoHop == <<None, 0>>

\* The list fa_reset_next_hop_tbl builds.
InOrder == [i \in Nhop |-> i + 1]

NoCall == [step |-> "idle", flow |-> None, idx |-> None, nh |-> 0, pool |-> 0]
Holding == call.step # "idle"

Blanked ==
  /\ nf' = [i \in Index |-> NoRow]
  /\ nh' = [i \in Nhop |-> None]
  /\ np' = [i \in Pool |-> NoHop]

Init ==
  /\ mode = "off"
  /\ nf = [i \in Index |-> NoRow]
  /\ nh = [i \in Nhop |-> None]
  /\ np = [i \in Pool |-> NoHop]
  /\ flist = InOrder /\ free = 0 /\ ref = [i \in Nhop |-> 0]
  /\ soft = [f \in Flow |-> None]
  /\ ftable = [i \in Index |-> None]
  /\ nflows = 0
  /\ call = NoCall
  /\ busy = 0
  /\ attached = 0

(***************************************************************************)
(* Attachment and detachment                                               *)
(***************************************************************************)
\* fa_attach clears fai and fa_up lets the accelerator blank its tables.
Attach ==
  /\ mode = "off" /\ attached < MaxAttach
  /\ attached' = attached + 1
  /\ mode' = "normal"
  /\ Blanked
  /\ flist' = InOrder /\ free' = 0 /\ ref' = [i \in Nhop |-> 0]
  /\ soft' = [f \in Flow |-> None]
  /\ ftable' = [i \in Index |-> None]
  /\ nflows' = 0
  /\ UNCHANGED <<call, busy>>

\* fa_down enters bypass, which blanks the tables, before it takes the lock:
\* another call may be under way, or begin.
Down ==
  /\ mode = "normal"
  /\ mode' = "bypass"
  /\ Blanked
  /\ UNCHANGED <<nhi, flows, call, busy, attached>>

\* Under the lock it deletes every flow and forgets it; only rows written
\* since are still valid.  Then fai is freed, its free list with it.
Flush ==
  LET Row(f) == soft[f].idx
      Known == {f \in Flow : soft[f] # None}
      Gone == {f \in Known : nf[Row(f)].valid}
      Left(i) == ref[i] - Cardinality({f \in Gone : soft[f].nh = i})
  IN
  /\ mode = "bypass" /\ ~Holding
  /\ mode' = "off"
  /\ nf' = [i \in Index |-> [nf[i] EXCEPT !.valid = @ /\ \A f \in Gone : Row(f) # i]]
  /\ nh' = [i \in Nhop |-> IF ref[i] > 0 /\ Left(i) = 0 THEN None ELSE nh[i]]
  /\ soft' = [f \in Flow |-> None]
  /\ nflows' = nflows - Cardinality(Known)
  /\ UNCHANGED <<np, nhi, ftable, call, busy, attached>>

(***************************************************************************)
(* Calls: each step is one access of a table, or the bookkeeping up to it. *)
(***************************************************************************)
\* An access is complete in time, or runs out of polls; then a write may have
\* been performed all the same, if its table is in Late.
InTime == UNCHANGED busy
TimesOut == busy < MaxBusy /\ busy' = busy + 1
Unsure(table, written, kept) == (table \in Late /\ written) \/ kept

Goto(step) == call' = [call EXCEPT !.step = step]
Return == call' = NoCall

\* A call that fails after it has taken its entry: the entry is freed.
Fail == TimesOut /\ Return /\ UNCHANGED <<mode, flows, attached>>

\* fa_napt_add: a flow without entry and a free row in its bucket, found by the
\* driver's hash or by the hardware's.  Otherwise the call changes nothing.
Add(f) ==
  /\ mode # "off" /\ ~Holding
  /\ soft[f] = None
  /\ \E i \in Bucket[f] :
       /\ ftable[i] = None
       /\ call' = [step |-> "nhop", flow |-> f, idx |-> i, nh |-> 0, pool |-> 0]
  /\ UNCHANGED <<mode, tables, nhi, flows, busy, attached>>

\* fa_find_nhop: where the scan starts, and the rows it may stop at.
ScanFrom(mac) ==
  LET known == {soft[g].nh : g \in {g \in Flow : soft[g] # None /\ NextHop[g] = mac}}
  IN  IF known = {} THEN {0} ELSE known
FirstMatch(mac, from) ==
  {i \in Nhop : /\ i >= from /\ nh[i] = mac
                /\ \A j \in from .. i - 1 : nh[j] # mac}

TakeRef(i) == ref' = [ref EXCEPT ![i] = @ + 1]

\* fa_add_nhop_entry gives up when no entry is left, without a look at the
\* rows there are; otherwise it uses the row that has the address.
FindNhop ==
  /\ call.step = "nhop"
  /\ LET mac == NextHop[call.flow] IN
     \/ free = NhopFull /\ Return /\ InTime /\ UNCHANGED ref
     \/ free # NhopFull /\ TimesOut /\ Return /\ UNCHANGED ref
     \/ /\ free # NhopFull /\ InTime
        /\ \E from \in ScanFrom(mac) :
             \/ \E i \in FirstMatch(mac, from) :
                  /\ TakeRef(i)
                  /\ call' = [call EXCEPT !.step = "pool", !.nh = i]
             \/ FirstMatch(mac, from) = {} /\ Goto("nhwrite") /\ UNCHANGED ref
  /\ UNCHANGED <<mode, tables, flist, free, flows, attached>>

\* Mutant of GetNext: the head is looked at but not taken.
PeekNext == UNCHANGED <<free, flist>>

\* GETNEXT_NHIDX takes the head off the free list.
GetNext ==
  /\ free' = flist[free]
  /\ flist' = [flist EXCEPT ![free] = 0]

WriteNhop ==
  /\ call.step = "nhwrite"
  /\ \/ /\ InTime
        /\ nh' = [nh EXCEPT ![free] = NextHop[call.flow]]
        /\ GetNext
        /\ TakeRef(free)
        /\ call' = [call EXCEPT !.step = "pool", !.nh = free]
        /\ UNCHANGED <<mode, flows, attached>>
     \/ /\ Fail
        /\ Unsure("nh", nh' = [nh EXCEPT ![free] = NextHop[call.flow]], UNCHANGED nh)
        /\ UNCHANGED nhi
  /\ UNCHANGED <<nf, np>>

\* fa_find_pool: the first row with this address and direction.
PoolMatch(row) == {i \in Pool : np[i] = row /\ \A j \in 0 .. i - 1 : np[j] # row}

\* fa_add_pool_entry: the row with this address and direction, or the row of
\* the direction, overwritten.
SetPool ==
  LET f == call.flow
      row == <<Remap[f], External[f]>>
      found == PoolMatch(row)
  IN
  /\ call.step = "pool"
  /\ \/ /\ InTime
        /\ \/ \E i \in found :
                /\ call' = [call EXCEPT !.step = "nfwrite", !.pool = i]
                /\ UNCHANGED np
           \/ /\ found = {}
              /\ np' = [np EXCEPT ![External[f]] = row]
              /\ call' = [call EXCEPT !.step = "nfwrite", !.pool = External[f]]
        /\ UNCHANGED <<mode, flows, attached>>
     \/ /\ Fail
        /\ Unsure("np", found = {} /\ np' = [np EXCEPT ![External[f]] = row], UNCHANGED np)
  /\ UNCHANGED <<nf, nh, nhi>>

Row == [valid |-> TRUE, flow |-> call.flow, nh |-> call.nh, pool |-> call.pool]

\* The row is written, then the flow is entered in both tables.
WriteNf ==
  /\ call.step = "nfwrite"
  /\ \/ /\ InTime
        /\ nf' = [nf EXCEPT ![call.idx] = Row]
        /\ soft' = [soft EXCEPT ![call.flow] =
                      [idx |-> call.idx, nh |-> call.nh, pool |-> call.pool]]
        /\ ftable' = [ftable EXCEPT ![call.idx] = call.flow]
        /\ nflows' = nflows + 1
        /\ Return
        /\ UNCHANGED <<mode, attached>>
     \/ /\ Fail
        /\ Unsure("nf", nf' = [nf EXCEPT ![call.idx] = Row], UNCHANGED nf)
  /\ UNCHANGED <<nh, np, nhi>>

\* fa_napt_del unlinks the entry; whatever becomes of the rows, the index is
\* given back when the call returns.
Del(f) ==
  /\ mode # "off" /\ ~Holding
  /\ soft[f] # None
  /\ call' = [step |-> "nfread", flow |-> f, idx |-> soft[f].idx,
              nh |-> soft[f].nh, pool |-> soft[f].pool]
  /\ soft' = [soft EXCEPT ![f] = None]
  /\ UNCHANGED <<mode, tables, nhi, ftable, nflows, busy, attached>>

\* Mutant of Deleted: the index is not given back.
DeletedKept == Return /\ nflows' = nflows - 1 /\ UNCHANGED <<mode, soft, ftable, attached>>

Deleted ==
  /\ Return
  /\ ftable' = [ftable EXCEPT ![call.idx] = None]
  /\ nflows' = nflows - 1
  /\ UNCHANGED <<mode, soft, attached>>

\* _fa_napt_del leaves a row it cannot read, or that is not valid, and the
\* reference to its next hop.
ReadNf ==
  /\ call.step = "nfread"
  /\ \/ TimesOut /\ Deleted
     \/ InTime /\ ~nf[call.idx].valid /\ Deleted
     \/ /\ InTime /\ nf[call.idx].valid
        /\ Goto("invalidate")
        /\ UNCHANGED <<mode, flows, attached>>
  /\ UNCHANGED <<tables, nhi>>

\* Mutant of Invalid: the row is written back as it was read.
InvalidNot == nf

Invalid == [nf EXCEPT ![call.idx].valid = FALSE]

Invalidate ==
  /\ call.step = "invalidate"
  /\ \/ InTime /\ nf' = Invalid /\ Goto("unref") /\ UNCHANGED <<mode, flows, attached>>
     \/ TimesOut /\ Deleted /\ Unsure("nf", nf' = Invalid, UNCHANGED nf)
  /\ UNCHANGED <<nh, np, nhi>>

\* PUTNEXT_NHIDX puts entry i at the head of the free list; when the list is
\* empty it makes i its own successor.
PutNext(i) ==
  /\ flist' = [flist EXCEPT ![i] = IF free = NhopFull THEN i ELSE free]
  /\ free' = i

\* fa_delete_nhop_entry: the last reference clears the row and frees the entry.
Unref ==
  /\ call.step = "unref"
  /\ Deleted
  /\ LET i == call.nh IN
     /\ ref' = [ref EXCEPT ![i] = IF @ = 0 THEN 0 ELSE @ - 1]
     /\ \/ ref'[i] > 0 /\ InTime /\ UNCHANGED <<nh, flist, free>>
        \/ ref'[i] = 0 /\ InTime /\ nh' = [nh EXCEPT ![i] = None] /\ PutNext(i)
        \/ /\ ref'[i] = 0 /\ TimesOut
           /\ Unsure("nh", nh' = [nh EXCEPT ![i] = None], UNCHANGED nh)
           /\ UNCHANGED <<flist, free>>
  /\ UNCHANGED <<nf, np>>

Call == FindNhop \/ WriteNhop \/ SetPool \/ WriteNf \/ ReadNf \/ Invalidate \/ Unref

Next ==
  \/ Attach \/ Down \/ Flush \/ Call
  \/ \E f \in Flow : Add(f) \/ Del(f)

Spec == Init /\ [][Next]_vars

(***************************************************************************)
(* Properties                                                              *)
(***************************************************************************)
TypeOK ==
  /\ mode \in {"off", "normal", "bypass"}
  /\ nf \in [Index -> [valid : BOOLEAN, flow : Flow \cup {None}, nh : Nhop, pool : Pool]]
  /\ nh \in [Nhop -> Mac \cup {None}]
  /\ np \in [Pool -> (Mac \cup {None}) \X {0, 1}]
  /\ flist \in [Nhop -> 0 .. NhopFull]
  /\ free \in 0 .. NhopFull
  /\ ref \in [Nhop -> Nat]
  /\ soft \in [Flow -> Entries \cup {None}]
  /\ ftable \in [Index -> Flow \cup {None}]
  /\ nflows \in Nat
  /\ call \in [step : {"idle", "nhop", "nhwrite", "pool", "nfwrite", "nfread",
                       "invalidate", "unref"},
               flow : Flow \cup {None}, idx : Index \cup {None},
               nh : Nhop, pool : Pool]
  /\ busy \in 0 .. MaxBusy
  /\ attached \in 0 .. MaxAttach

\* Whatever rows the hardware holds, also those of flows forgotten after a
\* timed-out access, they send a flow to its own next hop and rewrite it with
\* its own address and direction.
RowsRight ==
  mode = "normal" => \A i \in Index : nf[i].valid =>
    /\ nh[nf[i].nh] = NextHop[nf[i].flow]
    /\ np[nf[i].pool] = <<Remap[nf[i].flow], External[nf[i].flow]>>

\* "current free entry": the entry handed out next is referred to by no flow.
FreeIsFree == mode = "normal" /\ free # NhopFull => ref[free] = 0

\* The connection table, the table of used indices and the hardware agree about
\* every flow between calls.
InStep ==
  mode = "normal" /\ ~Holding =>
    /\ nflows = Cardinality({f \in Flow : soft[f] # None})
    /\ \A f \in Flow : soft[f] # None =>
         /\ ftable[soft[f].idx] = f
         /\ nf[soft[f].idx].valid /\ nf[soft[f].idx].flow = f
    /\ \A i \in Index : ftable[i] # None =>
         soft[ftable[i]] # None /\ soft[ftable[i]].idx = i

=============================================================================
