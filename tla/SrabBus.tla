------------------------------ MODULE SrabBus ------------------------------
(***************************************************************************)
(* hwoffload-research/fa-probe/fa_switch_oobpause_test.c,                  *)
(* fa_switch_oobpause_persist.c and fa_switch_brcmhdr_persist.c: modules   *)
(* that set a bit of a switch register over the SRAB bus.  The test module *)
(* sets and reverts it in its init; the persist modules set it in init and *)
(* write the former value back in exit.                                    *)
(*                                                                         *)
(* The bus is one set of registers: CTRLS with one request bit and one     *)
(* grant bit, CMDSTAT, WD_L and RD_L.  The b53 driver, which runs the      *)
(* switch, uses it at any time by nearly the same protocol (b53_srab.c, of *)
(* which the repository keeps a copy); the hardware is outside it.  The    *)
(* operator gives one insmod or rmmod at a time.  A register is reduced to *)
(* the bit in question, for the others are written back as read.           *)
(***************************************************************************)
EXTENDS Naturals, Sequences

CONSTANTS
  Modules,   (* the modules the operator uses                              *)
  Overlap,   (* may a transaction of b53 overlap one of a module?          *)
  Timeouts,  (* may polls run out?                                         *)
  MaxCalls   (* bound: insmods, rmmods and transactions of b53             *)

Tests == {"oobpause_test"}
Persists == {"oobpause_persist", "brcmhdr_persist"}

ASSUME SrabConstants ==
  /\ Modules \subseteq Tests \union Persists
  /\ Overlap \in BOOLEAN
  /\ Timeouts \in BOOLEAN
  /\ MaxCalls \in Nat

Client == Modules \union {"b53"}
Register == {"OOBPAUSE", "BRCM_HDR", "vlan"}

RegisterOf(c) ==
  CASE c = "brcmhdr_persist" -> "BRCM_HDR"
    [] c = "b53" -> "vlan"
    [] OTHER -> "OOBPAUSE"

VARIABLES
  rcareq,  (* CTRLS: the request bit                                       *)
  rcagnt,  (* CTRLS: the grant bit                                         *)
  cmdstat, (* CMDSTAT: GORDYN, read or write, and the register             *)
  wd,      (* WD_L                                                         *)
  rd,      (* RD_L                                                         *)
  reg,     (* the switch's registers                                       *)
  loaded,  (* the modules that are loaded                                  *)
  job,     (* what each client is doing                                    *)
  calls,   (* calls so far, for MaxCalls                                   *)
  wanted,  (* history: what b53 last wrote                                 *)
  failed,  (* history: a transaction of a module timed out                 *)
  orphaned (* history: a request was never granted in time                 *)

bus == <<rcareq, rcagnt, cmdstat, wd, rd>>
history == <<wanted, failed, orphaned>>
vars == <<bus, reg, loaded, job, calls, history>>

(* A call is a sequence of transactions: "before" reads the register, "set"*)
(* writes it with the bit set, "check" reads it back, "revert" writes the  *)
(* former value; b53 writes and reads "any" value.                         *)
InitProg(c) == IF c \in Tests THEN <<"before", "set", "check", "revert", "check">>
                              ELSE <<"before", "set">>
ExitProg(c) == IF c \in Tests THEN <<>> ELSE <<"revert">>

Op == {"before", "set", "check", "revert", "b53write", "b53read"}
Writes == {"set", "revert", "b53write"}

Step == {"idle", "request", "grant", "data", "command", "poll", "take", "release"}

(* call: "init" or "exit"; prog: the transactions left, its head at work.  *)
(* before: oobpause_before, brcmhdr_before; ok: the transaction's result.  *)
NoJob == [call |-> "init", prog |-> <<>>, step |-> "idle", before |-> FALSE, ok |-> TRUE]

Idle(c) == job[c].step = "idle"
Operator == \A m \in Modules : Idle(m)
-----------------------------------------------------------------------------
Init ==
  /\ rcareq = FALSE
  /\ rcagnt = FALSE
  /\ cmdstat = [gordyn |-> FALSE, write |-> FALSE, reg |-> "vlan"]
  /\ wd = FALSE
  /\ rd = FALSE
  /\ reg = [r \in Register |-> FALSE]
  /\ loaded = {}
  /\ job = [c \in Client |-> NoJob]
  /\ calls = 0
  /\ wanted = FALSE
  /\ failed = FALSE
  /\ orphaned = FALSE

Call(c, call, prog, before) ==
  /\ Idle(c)
  /\ calls < MaxCalls
  /\ calls' = calls + 1
  /\ job' = [job EXCEPT ![c] = [call |-> call, prog |-> prog, before |-> before,
                                step |-> "request", ok |-> TRUE]]

Insmod(m) ==
  /\ Operator
  /\ m \notin loaded
  /\ Call(m, "init", InitProg(m), FALSE)
  /\ UNCHANGED <<bus, reg, loaded, history>>

(* The test module's exit touches nothing. *)
Rmmod(m) ==
  /\ Operator
  /\ m \in loaded
  /\ IF ExitProg(m) = <<>>
     THEN loaded' = loaded \ {m} /\ UNCHANGED <<job, calls>>
     ELSE Call(m, "exit", ExitProg(m), job[m].before) /\ UNCHANGED loaded
  /\ UNCHANGED <<bus, reg, history>>

(* The b53 driver, on behalf of whoever configures the switch. *)
B53(op) ==
  /\ Call("b53", "init", <<op>>, FALSE)
  /\ wanted' = IF op = "b53write" THEN ~ wanted ELSE wanted
  /\ UNCHANGED <<bus, reg, loaded, failed, orphaned>>
-----------------------------------------------------------------------------
At(c, step) == job[c].step = step
Goto(c, step) == job' = [job EXCEPT ![c].step = step]
ThisOp(c) == Head(job[c].prog)

(* srab_request_grant: set RCAREQ, then poll RCAGNT. *)
Alone(c) == \A d \in Client \ {c} : job[d].step \in {"idle", "request"}
Request(c) ==
  /\ At(c, "request")
  /\ Overlap \/ Alone(c)
  /\ rcareq' = TRUE
  /\ Goto(c, "grant")
  /\ UNCHANGED <<rcagnt, cmdstat, wd, rd, reg, loaded, calls, history>>

Granted(c) ==
  /\ At(c, "grant")
  /\ rcagnt
  /\ Goto(c, IF ThisOp(c) \in Writes THEN "data" ELSE "command")
  /\ UNCHANGED <<bus, reg, loaded, calls, history>>

(* What becomes of a call whose transaction at work is over.  A persist    *)
(* module fails to load when one of its transactions does; the test module *)
(* loads all the same; an exit does not look.                              *)
Over(c, ok) ==
  LET rest == Tail(job[c].prog)
      done == rest = <<>> \/ ~ ok
      in   == job[c].call = "init" /\ (ok \/ c \in Tests)
  IN  /\ job' = [job EXCEPT ![c].prog = IF done THEN <<>> ELSE rest,
                            ![c].step = IF done THEN "idle" ELSE "request",
                            ![c].ok = TRUE]
      /\ IF done /\ c \in Modules
         THEN loaded' = IF in THEN loaded \union {c} ELSE loaded \ {c}
         ELSE UNCHANGED loaded
      /\ failed' = (failed \/ (~ ok /\ c \in Modules))

(* A module: -EIO without having released the request. *)
GrantTimesOut(c) ==
  /\ Timeouts
  /\ c \in Modules
  /\ At(c, "grant")
  /\ orphaned' = TRUE
  /\ Over(c, FALSE)
  /\ UNCHANGED <<bus, reg, calls, wanted>>

(* b53_srab_request_grant polls twenty times but tests for five: out of    *)
(* polls it goes on without the grant, and a grant seen at the sixth poll  *)
(* is an error, after which it releases the request.                       *)
GrantLate(c) ==
  /\ Timeouts
  /\ c = "b53"
  /\ At(c, "grant")
  /\ \/ ~ rcagnt /\ Goto(c, IF ThisOp(c) \in Writes THEN "data" ELSE "command")
     \/ rcagnt /\ job' = [job EXCEPT ![c].step = "release", ![c].ok = FALSE]
  /\ UNCHANGED <<bus, reg, loaded, calls, history>>

(* The seeded fault writes back the value that was set. *)
RevertAsSet(c) == TRUE
Revert(c) == job[c].before

ValueOf(c) ==
  CASE ThisOp(c) = "set" -> TRUE
    [] ThisOp(c) = "revert" -> Revert(c)
    [] OTHER -> wanted

(* srab_write16 writes WD_L; then srab_op writes CMDSTAT and polls it. *)
Data(c) ==
  /\ At(c, "data")
  /\ wd' = ValueOf(c)
  /\ Goto(c, "command")
  /\ UNCHANGED <<rcareq, rcagnt, cmdstat, rd, reg, loaded, calls, history>>

Command(c) ==
  /\ At(c, "command")
  /\ cmdstat' = [gordyn |-> TRUE, write |-> ThisOp(c) \in Writes,
                 reg |-> RegisterOf(c)]
  /\ Goto(c, "poll")
  /\ UNCHANGED <<rcareq, rcagnt, wd, rd, reg, loaded, calls, history>>

(* The seeded fault returns at once when the operation times out.          *)
AfterTimeoutNoRelease(c) == Over(c, FALSE) /\ UNCHANGED orphaned
AfterTimeout(c) ==
  /\ job' = [job EXCEPT ![c].step = "release", ![c].ok = FALSE]
  /\ UNCHANGED <<loaded, failed, orphaned>>

Poll(c) ==
  /\ At(c, "poll")
  /\ \/ /\ ~ cmdstat.gordyn
        /\ Goto(c, IF ThisOp(c) \in Writes THEN "release" ELSE "take")
        /\ UNCHANGED <<loaded, failed, orphaned>>
     \/ Timeouts /\ AfterTimeout(c)
  /\ UNCHANGED <<bus, reg, calls, wanted>>

(* RD_L, after the operation. *)
Take(c) ==
  /\ At(c, "take")
  /\ job' = [job EXCEPT ![c].step = "release",
                        ![c].before = IF ThisOp(c) = "before" THEN rd ELSE @]
  /\ UNCHANGED <<bus, reg, loaded, calls, history>>

(* srab_release_grant: RCAREQ is cleared, whoever else has set it. *)
Release(c) ==
  /\ At(c, "release")
  /\ rcareq' = FALSE
  /\ Over(c, job[c].ok)
  /\ UNCHANGED <<rcagnt, cmdstat, wd, rd, reg, calls, wanted, orphaned>>
-----------------------------------------------------------------------------
(* The hardware: the grant follows the request, and an operation is done   *)
(* as CMDSTAT and WD_L have it by then.                                    *)
Arbitrate ==
  /\ rcagnt # rcareq
  /\ rcagnt' = rcareq
  /\ UNCHANGED <<rcareq, cmdstat, wd, rd, reg, loaded, job, calls, history>>

Operate ==
  /\ cmdstat.gordyn
  /\ cmdstat' = [cmdstat EXCEPT !.gordyn = FALSE]
  /\ IF cmdstat.write THEN reg' = [reg EXCEPT ![cmdstat.reg] = wd] /\ UNCHANGED rd
                      ELSE rd' = reg[cmdstat.reg] /\ UNCHANGED reg
  /\ UNCHANGED <<rcareq, rcagnt, wd, loaded, job, calls, history>>

Transact(c) ==
  \/ Request(c) \/ Granted(c) \/ GrantTimesOut(c) \/ GrantLate(c)
  \/ Data(c) \/ Command(c) \/ Poll(c) \/ Take(c) \/ Release(c)

Next ==
  \/ \E m \in Modules : Insmod(m) \/ Rmmod(m)
  \/ \E op \in {"b53write", "b53read"} : B53(op)
  \/ \E c \in Client : Transact(c)
  \/ Arbitrate
  \/ Operate

Spec == Init /\ [][Next]_vars
-----------------------------------------------------------------------------
JobType == [call : {"init", "exit"}, prog : Seq(Op), step : Step,
            before : BOOLEAN, ok : BOOLEAN]

TypeOK ==
  /\ rcareq \in BOOLEAN /\ rcagnt \in BOOLEAN /\ wd \in BOOLEAN /\ rd \in BOOLEAN
  /\ cmdstat \in [gordyn : BOOLEAN, write : BOOLEAN, reg : Register]
  /\ reg \in [Register -> BOOLEAN]
  /\ loaded \subseteq Modules
  /\ job \in [Client -> JobType]
  /\ \A c \in Client : ~ Idle(c) => job[c].prog # <<>>
  /\ calls \in 0..MaxCalls
  /\ wanted \in BOOLEAN /\ failed \in BOOLEAN /\ orphaned \in BOOLEAN

(* "let multiple independent requesters share this bus correctly": between *)
(* its calls, b53's register holds what b53 wrote, whatever the modules do.*)
B53Intact == Idle("b53") => reg["vlan"] = wanted

(* "cleanly reverted with a single `rmmod`" and "staying active until this *)
(* module is rmmod'd": between the operator's commands, and if nothing     *)
(* timed out, a register's bit is set exactly while its persist module is  *)
(* loaded; the test module, loaded meanwhile, leaves it as it found it.    *)
SetAndHold ==
  Operator /\ ~ failed =>
    \A r \in {"OOBPAUSE", "BRCM_HDR"} :
      reg[r] <=> \E m \in loaded \intersect Persists : RegisterOf(m) = r

(* Unless a request went without a grant, it is released by the end of the *)
(* call: the bus is left to the switch, whichever transaction failed.      *)
BusReleased == (\A c \in Client : Idle(c)) /\ ~ orphaned => ~ rcareq
=============================================================================
