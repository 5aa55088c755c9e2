--------------------------- MODULE SwitchProofs ---------------------------
(* Theorems about the switch: SrabBus, for any modules, overlap, time-outs *)
(* and calls, and the vendor driver's RoboSwitch, for any boards, cores and *)
(* VLANs.                                                                  *)
EXTENDS SrabBus, RoboSwitch, WellFoundedInduction, TLAPS

(* A request that is set, and was not given up, is that of a client which  *)
(* is past srab_request_grant's write and has yet to release it.           *)
Held == rcareq /\ ~ orphaned => \E c \in Client : ~ (At(c, "idle") \/ At(c, "request"))

BusInv == TypeOK /\ Held

LEMMA InitBus == Init => BusInv
<1>1. NoJob \in JobType /\ NoJob.step = "idle"
  <2>1. <<>> \in Seq(Op)
    OBVIOUS
  <2> QED  BY <2>1 DEF NoJob, JobType, Step
<1>2. ASSUME Init PROVE job \in [Client -> JobType] /\ \A c \in Client : Idle(c)
  BY <1>1, <1>2 DEF Init, Idle
<1>3. ASSUME Init PROVE calls \in 0..MaxCalls
  BY <1>3, SrabConstants DEF Init
<1>4. ASSUME Init PROVE /\ cmdstat \in [gordyn : BOOLEAN, write : BOOLEAN, reg : Register]
                        /\ reg \in [Register -> BOOLEAN]
  BY <1>4 DEF Init, Register
<1> QED  BY <1>2, <1>3, <1>4 DEF Init, BusInv, TypeOK, Held

(* A transaction is followed by the next one, or by the end of the call. *)
LEMMA OverTyped ==
  ASSUME TypeOK, NEW c \in Client, NEW ok \in BOOLEAN, ~ Idle(c), Over(c, ok)
  PROVE  /\ job' \in [Client -> JobType]
         /\ \A d \in Client : ~ Idle(d)' => job'[d].prog # <<>>
         /\ loaded' \subseteq Modules
         /\ failed' \in BOOLEAN
         /\ \A d \in Client \ {c} : job'[d] = job[d]
         /\ job'[c].step \in {"idle", "request"}
<1> DEFINE rest == Tail(job[c].prog)
           done == rest = <<>> \/ ~ ok
           new  == [job[c] EXCEPT !.prog = IF done THEN <<>> ELSE rest,
                                  !.step = IF done THEN "idle" ELSE "request",
                                  !.ok = TRUE]
<1>1. job[c] \in JobType /\ job[c].prog \in Seq(Op) /\ job[c].prog # <<>>
  BY DEF TypeOK, JobType
<1>2. rest \in Seq(Op)
  BY <1>1
<1>3. job' = [job EXCEPT ![c] = new]
  BY DEF Over, TypeOK, JobType
<1> HIDE DEF rest
<1>4. new \in JobType /\ new.step \in {"idle", "request"} /\ (new.step # "idle" => new.prog # <<>>)
  <2>1. CASE done
    <3>1. new = [job[c] EXCEPT !.prog = <<>>, !.step = "idle", !.ok = TRUE]
      BY <2>1
    <3>2. <<>> \in Seq(Op)
      OBVIOUS
    <3> QED  BY <1>1, <3>1, <3>2 DEF JobType, Step
  <2>2. CASE ~ done
    BY <1>1, <1>2, <2>2 DEF JobType, Step
  <2> QED  BY <2>1, <2>2
<1> HIDE DEF new
<1>5. /\ job' \in [Client -> JobType]
      /\ job'[c] = new
      /\ \A d \in Client \ {c} : job'[d] = job[d]
  BY <1>3, <1>4 DEF TypeOK
<1>6. loaded' \subseteq Modules /\ failed' \in BOOLEAN
  BY DEF Over, TypeOK
<1> QED  BY <1>4, <1>5, <1>6 DEF Idle, TypeOK

(* A client begins a call with a transaction to make. *)
LEMMA CallTyped ==
  ASSUME TypeOK, NEW c \in Client, NEW call \in {"init", "exit"}, NEW prog \in Seq(Op),
         prog # <<>>, NEW before \in BOOLEAN, Call(c, call, prog, before)
  PROVE  /\ job' \in [Client -> JobType]
         /\ \A d \in Client : ~ Idle(d)' => job'[d].prog # <<>>
         /\ calls' \in 0..MaxCalls
         /\ \A d \in Client \ {c} : job'[d] = job[d]
         /\ job[c].step = "idle"
<1> DEFINE new == [call |-> call, prog |-> prog, before |-> before,
                   step |-> "request", ok |-> TRUE]
<1>1. new \in JobType /\ new.prog # <<>>
  BY DEF JobType, Step
<1>2. job' = [job EXCEPT ![c] = new]
  BY DEF Call
<1> HIDE DEF new
<1>3. calls' \in 0..MaxCalls
  BY SrabConstants DEF Call, TypeOK
<1>4. Idle(c)
  BY DEF Call
<1>5. /\ job' \in [Client -> JobType]
      /\ job'[c] = new
      /\ \A d \in Client \ {c} : job'[d] = job[d]
  BY <1>1, <1>2 DEF TypeOK
<1>6. \A d \in Client : ~ Idle(d)' => job'[d].prog # <<>>
  BY <1>1, <1>5 DEF TypeOK, Idle
<1> QED  BY <1>3, <1>4, <1>5, <1>6 DEF Idle

(* A step within a transaction changes the step, the result or the value   *)
(* read, and not what is to be done.                                       *)
LEMMA GotoTyped ==
  ASSUME TypeOK, NEW c \in Client, ~ Idle(c), NEW now \in Step,
         NEW ok \in BOOLEAN, NEW before \in BOOLEAN,
         job' = [job EXCEPT ![c].step = now, ![c].ok = ok, ![c].before = before]
  PROVE  /\ job' \in [Client -> JobType]
         /\ \A d \in Client : ~ Idle(d)' => job'[d].prog # <<>>
         /\ \A d \in Client \ {c} : job'[d] = job[d]
         /\ job'[c].step = now
<1> DEFINE new == [job[c] EXCEPT !.step = now, !.ok = ok, !.before = before]
<1>1. job[c] \in JobType /\ job[c].prog # <<>>
  BY DEF TypeOK, JobType
<1>2. new \in JobType /\ new.prog # <<>> /\ new.step = now
  BY <1>1 DEF JobType
<1>3. job' = [job EXCEPT ![c] = new]
  BY <1>1 DEF TypeOK, JobType
<1> HIDE DEF new
<1>4. /\ job' \in [Client -> JobType]
      /\ job'[c] = new
      /\ \A d \in Client \ {c} : job'[d] = job[d]
  <2>1. job \in [Client -> JobType]
    BY DEF TypeOK
  <2> QED  BY <1>2, <1>3, <2>1, ZenonT(30)
<1>5. \A d \in Client : ~ Idle(d)' => job'[d].prog # <<>>
  BY <1>2, <1>4 DEF TypeOK, Idle
<1> QED  BY <1>2, <1>4, <1>5

LEMMA GotoKeeps ==
  ASSUME TypeOK, NEW c \in Client, ~ Idle(c), NEW now \in Step, Goto(c, now)
  PROVE  /\ job' \in [Client -> JobType]
         /\ \A d \in Client : ~ Idle(d)' => job'[d].prog # <<>>
         /\ \A d \in Client \ {c} : job'[d] = job[d]
         /\ job'[c].step = now
<1>1. job[c] \in JobType
  BY DEF TypeOK
<1>2. [job[c] EXCEPT !.step = now] =
      [job[c] EXCEPT !.step = now, !.ok = job[c].ok, !.before = job[c].before]
  BY <1>1 DEF JobType
<1>3. job' = [job EXCEPT ![c].step = now, ![c].ok = job[c].ok,
                         ![c].before = job[c].before]
  BY <1>2 DEF Goto, TypeOK, JobType
<1>4. job[c].ok \in BOOLEAN /\ job[c].before \in BOOLEAN
  BY <1>1 DEF JobType
<1> QED  BY <1>3, <1>4, GotoTyped

LEMMA Progs ==
  ASSUME NEW m \in Modules
  PROVE  /\ m \in Client
         /\ InitProg(m) \in Seq(Op) /\ InitProg(m) # <<>>
         /\ ExitProg(m) \in Seq(Op)
<1>1. /\ <<"before", "set", "check", "revert", "check">> \in Seq(Op)
      /\ <<"before", "set">> \in Seq(Op)
      /\ <<"revert">> \in Seq(Op)
      /\ <<>> \in Seq(Op)
  BY DEF Op
<1>2. /\ <<"before", "set", "check", "revert", "check">> # <<>>
      /\ <<"before", "set">> # <<>>
  OBVIOUS
<1> QED  BY <1>1, <1>2, Zenon DEF InitProg, ExitProg, Client

(* Each step keeps both: only a step at "release" clears the request, and  *)
(* only one that gives up leaves a client that holds it without a release. *)
LEMMA StepInv == BusInv /\ [Next]_vars => BusInv'
<1> SUFFICES ASSUME BusInv, [Next]_vars PROVE BusInv'
  OBVIOUS
<1>t. TypeOK /\ Held
  BY DEF BusInv
<1>0. CASE UNCHANGED vars
  BY <1>0, <1>t DEF vars, bus, history, BusInv, TypeOK, Held, Idle, At
<1>1. ASSUME NEW m \in Modules, Insmod(m) PROVE BusInv'
  <2>1. m \in Client /\ InitProg(m) \in Seq(Op) /\ InitProg(m) # <<>>
    BY Progs
  <2>2. /\ job' \in [Client -> JobType]
        /\ \A d \in Client : ~ Idle(d)' => job'[d].prog # <<>>
        /\ calls' \in 0..MaxCalls
        /\ \A d \in Client \ {m} : job'[d] = job[d]
        /\ job[m].step = "idle"
    BY <1>1, <1>t, <2>1, CallTyped DEF Insmod
  <2> QED  BY <1>1, <1>t, <2>2 DEF Insmod, bus, history, BusInv, TypeOK, Held, At, Idle
<1>2. ASSUME NEW m \in Modules, Rmmod(m) PROVE BusInv'
  <2>1. CASE ExitProg(m) = <<>>
    BY <1>2, <1>t, <2>1 DEF Rmmod, bus, history, BusInv, TypeOK, Held, At, Idle
  <2>2. CASE ExitProg(m) # <<>>
    <3>0. m \in Client /\ ExitProg(m) \in Seq(Op)
      BY Progs
    <3>1. job[m].before \in BOOLEAN
      BY <1>t, <3>0 DEF TypeOK, JobType
    <3>2. /\ job' \in [Client -> JobType]
          /\ \A d \in Client : ~ Idle(d)' => job'[d].prog # <<>>
          /\ calls' \in 0..MaxCalls
          /\ \A d \in Client \ {m} : job'[d] = job[d]
          /\ job[m].step = "idle"
      BY <1>2, <1>t, <2>2, <3>0, <3>1, CallTyped DEF Rmmod
    <3> QED  BY <1>2, <1>t, <2>2, <3>2 DEF Rmmod, bus, history, BusInv, TypeOK, Held, At, Idle
  <2> QED  BY <2>1, <2>2
<1>3. ASSUME NEW op \in {"b53write", "b53read"}, B53(op) PROVE BusInv'
  <2>1. "b53" \in Client /\ <<op>> \in Seq(Op) /\ <<op>> # <<>>
    BY DEF Client, Op
  <2>2. /\ job' \in [Client -> JobType]
        /\ \A d \in Client : ~ Idle(d)' => job'[d].prog # <<>>
        /\ calls' \in 0..MaxCalls
        /\ \A d \in Client \ {"b53"} : job'[d] = job[d]
        /\ job["b53"].step = "idle"
    BY <1>3, <1>t, <2>1, CallTyped DEF B53
  <2>3. wanted' \in BOOLEAN
    BY <1>3, <1>t DEF B53, TypeOK
  <2> QED  BY <1>3, <1>t, <2>2, <2>3 DEF B53, bus, history, BusInv, TypeOK, Held, At, Idle
<1>4. ASSUME NEW c \in Client, Transact(c) PROVE BusInv'
  <2>j. job[c] \in JobType
    BY <1>t DEF TypeOK
  <2>1. CASE Request(c)
    <3>1. /\ job' \in [Client -> JobType]
          /\ \A d \in Client : ~ Idle(d)' => job'[d].prog # <<>>
          /\ job'[c].step = "grant"
      BY <1>t, <2>1, GotoKeeps DEF Request, At, Idle, Step
    <3> QED  BY <1>t, <2>1, <3>1 DEF Request, history, BusInv, TypeOK, Held, At, Idle
  <2>2. CASE Granted(c)
    <3> DEFINE next == IF ThisOp(c) \in Writes THEN "data" ELSE "command"
    <3>0. next \in Step /\ next \notin {"idle", "request"}
      BY DEF Step
    <3> HIDE DEF next
    <3>1. Goto(c, next)
      BY <2>2 DEF Granted, next
    <3>2. /\ job' \in [Client -> JobType]
          /\ \A d \in Client : ~ Idle(d)' => job'[d].prog # <<>>
          /\ \A d \in Client \ {c} : job'[d] = job[d]
          /\ job'[c].step = next
      BY <1>t, <2>2, <3>0, <3>1, GotoKeeps DEF Granted, At, Idle
    <3> QED  BY <1>t, <2>2, <3>0, <3>2 DEF Granted, bus, history, BusInv, TypeOK, Held, At, Idle
  <2>3. CASE GrantTimesOut(c)
    <3>1. /\ job' \in [Client -> JobType]
          /\ \A d \in Client : ~ Idle(d)' => job'[d].prog # <<>>
          /\ loaded' \subseteq Modules
          /\ failed' \in BOOLEAN
      BY <1>t, <2>3, OverTyped DEF GrantTimesOut, At, Idle
    <3> QED  BY <1>t, <2>3, <3>1 DEF GrantTimesOut, bus, BusInv, TypeOK, Held, Idle
  <2>4. CASE Data(c)
    <3>1. /\ job' \in [Client -> JobType]
          /\ \A d \in Client : ~ Idle(d)' => job'[d].prog # <<>>
          /\ job'[c].step = "command"
      BY <1>t, <2>4, GotoKeeps DEF Data, At, Idle, Step
    <3>2. wd' \in BOOLEAN
      BY <1>t, <2>4, <2>j DEF Data, ValueOf, Revert, TypeOK, JobType
    <3> QED  BY <1>t, <2>4, <3>1, <3>2 DEF Data, history, BusInv, TypeOK, Held, At, Idle
  <2>5. CASE Command(c)
    <3>1. /\ job' \in [Client -> JobType]
          /\ \A d \in Client : ~ Idle(d)' => job'[d].prog # <<>>
          /\ job'[c].step = "poll"
      BY <1>t, <2>5, GotoKeeps DEF Command, At, Idle, Step
    <3>2. cmdstat' \in [gordyn : BOOLEAN, write : BOOLEAN, reg : Register]
      BY <2>5 DEF Command, RegisterOf, Register
    <3> QED  BY <1>t, <2>5, <3>1, <3>2 DEF Command, history, BusInv, TypeOK, Held, At, Idle
  <2>6. CASE Poll(c)
    <3>1. /\ job' \in [Client -> JobType]
          /\ \A d \in Client : ~ Idle(d)' => job'[d].prog # <<>>
          /\ job'[c].step \in {"take", "release"}
      <4>1. CASE Timeouts /\ AfterTimeout(c)
        <5>1. job' = [job EXCEPT ![c].step = "release", ![c].ok = FALSE,
                                 ![c].before = job[c].before]
          BY <1>t, <4>1 DEF AfterTimeout, TypeOK, JobType
        <5> QED  BY <1>t, <2>6, <2>j, <5>1, GotoTyped DEF Poll, At, Idle, JobType, Step
      <4>2. CASE ~ cmdstat.gordyn /\ Goto(c, IF ThisOp(c) \in Writes THEN "release" ELSE "take")
        <5> DEFINE next == IF ThisOp(c) \in Writes THEN "release" ELSE "take"
        <5>1. next \in Step /\ next \in {"take", "release"}
          BY DEF Step
        <5> HIDE DEF next
        <5>2. Goto(c, next)
          BY <4>2 DEF next
        <5> QED  BY <1>t, <2>6, <5>1, <5>2, GotoKeeps DEF Poll, At, Idle
      <4> QED  BY <2>6, <4>1, <4>2 DEF Poll
    <3>2. UNCHANGED <<bus, reg, calls, history, loaded>>
      BY <2>6 DEF Poll, AfterTimeout, history
    <3> QED  BY <1>t, <3>1, <3>2 DEF bus, history, BusInv, TypeOK, Held, At, Idle
  <2>7. CASE Take(c)
    <3> DEFINE before == IF ThisOp(c) = "before" THEN rd ELSE job[c].before
    <3>0. before \in BOOLEAN
      BY <1>t, <2>j DEF TypeOK, JobType
    <3>1. job' = [job EXCEPT ![c].step = "release", ![c].ok = job[c].ok, ![c].before = before]
      <4>1. [job[c] EXCEPT !.step = "release", !.before = before] =
            [job[c] EXCEPT !.step = "release", !.ok = job[c].ok, !.before = before]
        BY <2>j DEF JobType
      <4> QED  BY <1>t, <2>7, <2>j, <4>1 DEF Take, TypeOK, JobType
    <3> HIDE DEF before
    <3>2. /\ job' \in [Client -> JobType]
          /\ \A d \in Client : ~ Idle(d)' => job'[d].prog # <<>>
          /\ job'[c].step = "release"
      BY <1>t, <2>7, <2>j, <3>0, <3>1, GotoTyped DEF Take, At, Idle, JobType, Step
    <3> QED  BY <1>t, <2>7, <3>2 DEF Take, bus, history, BusInv, TypeOK, Held, At, Idle
  <2>8. CASE Release(c)
    <3>1. /\ job' \in [Client -> JobType]
          /\ \A d \in Client : ~ Idle(d)' => job'[d].prog # <<>>
          /\ loaded' \subseteq Modules
          /\ failed' \in BOOLEAN
      BY <1>t, <2>8, <2>j, OverTyped DEF Release, At, Idle, JobType
    <3> QED  BY <1>t, <2>8, <3>1 DEF Release, BusInv, TypeOK, Held, Idle
  <2>9. CASE GrantLate(c)
    <3>1. /\ job' \in [Client -> JobType]
          /\ \A d \in Client : ~ Idle(d)' => job'[d].prog # <<>>
          /\ job'[c].step \in {"data", "command", "release"}
      <4>1. CASE job' = [job EXCEPT ![c].step = "release", ![c].ok = FALSE]
        <5>1. job' = [job EXCEPT ![c].step = "release", ![c].ok = FALSE,
                                 ![c].before = job[c].before]
          BY <1>t, <4>1 DEF TypeOK, JobType
        <5> QED  BY <1>t, <2>9, <2>j, <5>1, GotoTyped DEF GrantLate, At, Idle, JobType, Step
      <4>2. CASE Goto(c, IF ThisOp(c) \in Writes THEN "data" ELSE "command")
        <5> DEFINE next == IF ThisOp(c) \in Writes THEN "data" ELSE "command"
        <5>1. next \in Step /\ next \in {"data", "command"}
          BY DEF Step
        <5> HIDE DEF next
        <5>2. Goto(c, next)
          BY <4>2 DEF next
        <5> QED  BY <1>t, <2>9, <5>1, <5>2, GotoKeeps DEF GrantLate, At, Idle
      <4> QED  BY <2>9, <4>1, <4>2 DEF GrantLate
    <3>2. UNCHANGED <<bus, reg, calls, history, loaded>>
      BY <2>9 DEF GrantLate
    <3> QED  BY <1>t, <3>1, <3>2 DEF bus, history, BusInv, TypeOK, Held, At, Idle
  <2> QED  BY <1>4, <2>1, <2>2, <2>3, <2>4, <2>5, <2>6, <2>7, <2>8, <2>9 DEF Transact
<1>5. CASE Arbitrate
  BY <1>5, <1>t DEF Arbitrate, history, BusInv, TypeOK, Held, At, Idle
<1>6. CASE Operate
  <2>1. cmdstat' \in [gordyn : BOOLEAN, write : BOOLEAN, reg : Register]
    BY <1>6, <1>t DEF Operate, TypeOK
  <2>2. reg' \in [Register -> BOOLEAN] /\ rd' \in BOOLEAN
    BY <1>6, <1>t DEF Operate, TypeOK
  <2> QED  BY <1>6, <1>t, <2>1, <2>2 DEF Operate, history, BusInv, TypeOK, Held, At, Idle
<1> QED  BY <1>0, <1>1, <1>2, <1>3, <1>4, <1>5, <1>6 DEF Next

(* Every state of the bus and its clients is well typed, and a client at   *)
(* work has a transaction to make.                                         *)
THEOREM BusTyped == Spec => []TypeOK
<1>1. BusInv => TypeOK
  BY DEF BusInv
<1> QED  BY <1>1, InitBus, StepInv, PTL DEF Spec

(* Whatever fails, and however the clients' transactions overlap: when     *)
(* nobody is at work the bus is left released, unless a request was given  *)
(* up for want of a grant.                                                 *)
THEOREM BusLeftReleased == Spec => []BusReleased
<1>1. BusInv => BusReleased
  BY DEF BusInv, Held, BusReleased, At, Idle
<1> QED  BY <1>1, InitBus, StepInv, PTL DEF Spec
-----------------------------------------------------------------------------
(* SetAndHold, when b53's transactions and the modules' do not overlap.    *)
(*                                                                         *)
(* What a module has left to do names the point its call has reached: the  *)
(* test module's init, a persist module's init, and its exit.              *)
TestBefore == <<"before", "set", "check", "revert", "check">>
TestSet == <<"set", "check", "revert", "check">>
TestCheck == <<"check", "revert", "check">>
TestRevert == <<"revert", "check">>
TestLast == <<"check">>
PersistBefore == <<"before", "set">>
PersistSet == <<"set">>
ExitRevert == <<"revert">>

Left(m) == job[m].prog
Writing(c) == ThisOp(c) \in Writes
Away(c) == job[c].step \in {"idle", "request"}

(* One client at a time is within a transaction, one module within a call. *)
Turns == \A c, d \in Client : c # d => Away(c) \/ Away(d)
OneCommand == \A m, n \in Modules : m # n => Idle(m) \/ Idle(n)

(* An unfinished write to a module's register is that of the module at     *)
(* work, which polls for it or has given it up.                            *)
Pending ==
  cmdstat.gordyn /\ cmdstat.write /\ cmdstat.reg # "vlan" =>
    \E m \in Modules : /\ ~ Away(m)
                       /\ RegisterOf(m) = cmdstat.reg
                       /\ At(m, "poll") \/ ~ job[m].ok

(* A loaded persist module holds the register's bit. *)
Holds(r) == \E n \in loaded \intersect Persists : RegisterOf(n) = r

Bit(m) == reg[RegisterOf(m)]
Done(m) == At(m, "take") \/ At(m, "release") \/ (At(m, "poll") /\ ~ cmdstat.gordyn)

Course(m) ==
  \/ /\ m \in Tests /\ m \notin loaded /\ job[m].call = "init"
     /\ Left(m) \in {TestBefore, TestSet, TestCheck, TestRevert, TestLast}
  \/ /\ m \in Persists /\ m \notin loaded /\ job[m].call = "init"
     /\ Left(m) \in {PersistBefore, PersistSet}
  \/ /\ m \in Persists /\ m \in loaded /\ job[m].call = "exit"
     /\ Left(m) = ExitRevert

(* oobpause_before is the bit as it was before the module: set if another  *)
(* module holds it, and never for a persist module, which holds it itself. *)
Remembered(m) ==
  /\ Left(m) \in {TestSet, TestCheck, TestRevert, TestLast, PersistSet, ExitRevert} =>
       (job[m].before <=> m \in Tests /\ Holds(RegisterOf(m)))
  /\ ThisOp(m) = "before" /\ At(m, "release") => (job[m].before <=> Holds(RegisterOf(m)))

OnBus(m) ==
  /\ (At(m, "command") \/ At(m, "poll")) /\ Writing(m) => (wd <=> ValueOf(m))
  /\ At(m, "poll") => cmdstat.reg = RegisterOf(m) /\ (cmdstat.write <=> Writing(m))
  /\ At(m, "take") \/ (At(m, "poll") /\ ~ cmdstat.gordyn /\ ~ Writing(m)) => (rd <=> Bit(m))
  /\ At(m, "take") \/ At(m, "release") => ~ cmdstat.gordyn

Value(m) ==
  /\ Left(m) \in {TestBefore, PersistBefore, TestLast} => (Bit(m) <=> Holds(RegisterOf(m)))
  /\ Left(m) = TestCheck => Bit(m)
  /\ Left(m) \in {TestSet, PersistSet} => (Bit(m) <=> Done(m) \/ Holds(RegisterOf(m)))
  /\ Left(m) \in {TestRevert, ExitRevert} => (Bit(m) <=> (Done(m) => job[m].before))

AtWork ==
  \A m \in Modules : ~ Idle(m) =>
    Course(m) /\ (job[m].ok => Remembered(m) /\ OnBus(m) /\ Value(m))
AtRest ==
  \A r \in {"OOBPAUSE", "BRCM_HDR"} :
    (\A m \in Modules : RegisterOf(m) = r => Idle(m)) => (reg[r] <=> Holds(r))
Cleared == \A m \in loaded \intersect Persists : ~ job[m].before

Apart == BusInv /\ Turns /\ OneCommand /\ (~ failed => Pending /\ AtWork /\ AtRest /\ Cleared)

LEMMA Programs ==
  /\ Head(TestBefore) = "before" /\ Tail(TestBefore) = TestSet
  /\ Head(TestSet) = "set" /\ Tail(TestSet) = TestCheck
  /\ Head(TestCheck) = "check" /\ Tail(TestCheck) = TestRevert
  /\ Head(TestRevert) = "revert" /\ Tail(TestRevert) = TestLast
  /\ Head(TestLast) = "check" /\ Tail(TestLast) = <<>>
  /\ Head(PersistBefore) = "before" /\ Tail(PersistBefore) = PersistSet
  /\ Head(PersistSet) = "set" /\ Tail(PersistSet) = <<>>
  /\ Head(ExitRevert) = "revert" /\ Tail(ExitRevert) = <<>>
BY DEF TestBefore, TestSet, TestCheck, TestRevert, TestLast, PersistBefore, PersistSet, ExitRevert

LEMMA ProgramsDiffer ==
  /\ Len(TestBefore) = 5 /\ Len(TestSet) = 4 /\ Len(TestCheck) = 3 /\ Len(TestRevert) = 2
  /\ Len(TestLast) = 1 /\ Len(PersistBefore) = 2 /\ Len(PersistSet) = 1
  /\ Len(ExitRevert) = 1 /\ Len(<<>>) = 0
BY DEF TestBefore, TestSet, TestCheck, TestRevert, TestLast, PersistBefore, PersistSet, ExitRevert

LEMMA ProgramsApart ==
  /\ TestBefore \notin {TestSet, TestCheck, TestRevert, TestLast, PersistBefore, PersistSet, ExitRevert}
  /\ TestSet \notin {TestCheck, TestRevert, TestLast, PersistBefore, PersistSet, ExitRevert}
  /\ TestCheck \notin {TestRevert, TestLast, PersistBefore, PersistSet, ExitRevert}
  /\ TestRevert \notin {TestLast, PersistBefore, PersistSet, ExitRevert}
  /\ TestLast \notin {PersistBefore, PersistSet, ExitRevert}
  /\ PersistBefore \notin {PersistSet, ExitRevert}
  /\ PersistSet # ExitRevert
<1>1. /\ TestRevert # PersistBefore
      /\ TestLast # PersistSet /\ TestLast # ExitRevert /\ PersistSet # ExitRevert
  BY Programs
<1> QED  BY <1>1, ProgramsDiffer

LEMMA Registers ==
  ASSUME NEW m \in Modules
  PROVE  /\ m \in Client
         /\ RegisterOf(m) \in {"OOBPAUSE", "BRCM_HDR"}
         /\ \A n \in Modules : m \in Persists /\ n \in Persists
                                 /\ RegisterOf(n) = RegisterOf(m) => m = n
         /\ m \in Tests <=> m \notin Persists
         /\ m # "b53"
BY SrabConstants DEF Client, RegisterOf, Tests, Persists

(* What a step within a transaction leaves of the client's job. *)
LEMMA JobAfter ==
  ASSUME TypeOK, NEW c \in Client, NEW now, NEW ok, NEW before,
         job' = [job EXCEPT ![c].step = now, ![c].ok = ok, ![c].before = before]
  PROVE  /\ \A d \in Client \ {c} : job'[d] = job[d]
         /\ job'[c].step = now /\ job'[c].ok = ok /\ job'[c].before = before
         /\ job'[c].prog = job[c].prog /\ job'[c].call = job[c].call
<1> DEFINE new == [job[c] EXCEPT !.step = now, !.ok = ok, !.before = before]
<1>1. job[c] \in JobType /\ job \in [Client -> JobType]
  BY DEF TypeOK
<1>2. /\ new.step = now /\ new.ok = ok /\ new.before = before
      /\ new.prog = job[c].prog /\ new.call = job[c].call
  BY <1>1 DEF JobType
<1>3. job' = [job EXCEPT ![c] = new]
  BY <1>1 DEF JobType
<1> HIDE DEF new
<1>4. job'[c] = new /\ \A d \in Client \ {c} : job'[d] = job[d]
  BY <1>1, <1>3, ZenonT(30)
<1> QED  BY <1>2, <1>4

LEMMA GotoAfter ==
  ASSUME TypeOK, NEW c \in Client, NEW now, Goto(c, now)
  PROVE  /\ \A d \in Client \ {c} : job'[d] = job[d]
         /\ job'[c].step = now /\ job'[c].ok = job[c].ok /\ job'[c].before = job[c].before
         /\ job'[c].prog = job[c].prog /\ job'[c].call = job[c].call
<1>1. job[c] \in JobType
  BY DEF TypeOK
<1>2. [job[c] EXCEPT !.step = now] =
      [job[c] EXCEPT !.step = now, !.ok = job[c].ok, !.before = job[c].before]
  BY <1>1 DEF JobType
<1>3. job' = [job EXCEPT ![c].step = now, ![c].ok = job[c].ok,
                         ![c].before = job[c].before]
  BY <1>2 DEF Goto, TypeOK, JobType
<1> QED  BY <1>3, JobAfter

LEMMA OverAfter ==
  ASSUME TypeOK, NEW c \in Client, NEW ok \in BOOLEAN, Over(c, ok)
  PROVE  /\ \A d \in Client \ {c} : job'[d] = job[d]
         /\ job'[c].step \in {"idle", "request"}
         /\ (job'[c].step = "idle") <=> (Tail(job[c].prog) = <<>> \/ ~ ok)
         /\ job'[c].step = "request" => job'[c].prog = Tail(job[c].prog)
         /\ job'[c].ok /\ job'[c].before = job[c].before /\ job'[c].call = job[c].call
<1> DEFINE rest == Tail(job[c].prog)
           done == rest = <<>> \/ ~ ok
           new  == [job[c] EXCEPT !.prog = IF done THEN <<>> ELSE rest,
                                  !.step = IF done THEN "idle" ELSE "request",
                                  !.ok = TRUE]
<1>1. job[c] \in JobType /\ job \in [Client -> JobType]
  BY DEF TypeOK
<1>2. job' = [job EXCEPT ![c] = new]
  BY <1>1 DEF Over, JobType
<1> HIDE DEF rest
<1>3. /\ new.step = IF done THEN "idle" ELSE "request"
      /\ new.prog = IF done THEN <<>> ELSE rest
      /\ new.ok = TRUE /\ new.before = job[c].before /\ new.call = job[c].call
  BY <1>1 DEF JobType
<1> HIDE DEF new
<1>4. job'[c] = new /\ \A d \in Client \ {c} : job'[d] = job[d]
  BY <1>1, <1>2, ZenonT(30)
<1> QED  BY <1>3, <1>4 DEF rest

(* A client that begins: its call, from the first transaction. *)
LEMMA CallAfter ==
  ASSUME TypeOK, NEW c \in Client, NEW call, NEW prog, NEW before, Call(c, call, prog, before)
  PROVE  /\ Idle(c)
         /\ \A d \in Client \ {c} : job'[d] = job[d]
         /\ job'[c].step = "request" /\ job'[c].ok /\ job'[c].before = before
         /\ job'[c].prog = prog /\ job'[c].call = call
BY DEF Call, TypeOK, Idle

(* A client's step leaves the other clients alone, and brings it within a  *)
(* transaction only when it was there, or when all the others are not.     *)
LEMMA TransactAfter ==
  ASSUME TypeOK, ~ Overlap, NEW c \in Client, Transact(c)
  PROVE  /\ ~ Idle(c)
         /\ \A d \in Client \ {c} : job'[d] = job[d]
         /\ Away(c) => Alone(c)
<1>1. job[c] \in JobType
  BY DEF TypeOK
<1>2. CASE \/ GrantTimesOut(c) \/ Release(c)
  <2>1. PICK ok \in BOOLEAN : Over(c, ok)
    BY <1>1, <1>2 DEF GrantTimesOut, Release, JobType
  <2> QED  BY <1>2, <2>1, OverAfter DEF GrantTimesOut, Release, At, Idle, Away
<1>3. CASE Request(c)
  BY <1>3, GotoAfter DEF Request, At, Idle
<1>4. CASE Granted(c) \/ Data(c) \/ Command(c)
  BY <1>4, GotoAfter DEF Granted, Data, Command, At, Idle, Away
<1>5. CASE Poll(c) \/ GrantLate(c) \/ Take(c)
  <2>1. \A d \in Client \ {c} : job'[d] = job[d]
    BY <1>5, <1>1 DEF Poll, GrantLate, Take, AfterTimeout, Goto, TypeOK
  <2> QED  BY <1>5, <2>1 DEF Poll, GrantLate, Take, At, Idle, Away
<1> QED  BY <1>2, <1>3, <1>4, <1>5 DEF Transact

LEMMA TurnsStep ==
  ASSUME TypeOK, ~ Overlap, Turns, OneCommand, [Next]_vars
  PROVE  Turns' /\ OneCommand'
<1>0. CASE UNCHANGED job
  BY <1>0 DEF Turns, OneCommand, Away, Idle
<1>1. ASSUME NEW c \in Client, Transact(c) PROVE Turns' /\ OneCommand'
  <2>1. /\ ~ Idle(c)
        /\ \A d \in Client \ {c} : job'[d] = job[d]
        /\ Away(c) => Alone(c)
    BY <1>1, TransactAfter
  <2>2. Modules \subseteq Client
    BY DEF Client
  <2>3. Turns'
    BY <2>1 DEF Turns, Away, Alone
  <2>4. OneCommand'
    BY <2>1, <2>2 DEF OneCommand, Idle
  <2> QED  BY <2>3, <2>4
<1>2. ASSUME NEW m \in Modules, Insmod(m) \/ Rmmod(m), job' # job PROVE Turns' /\ OneCommand'
  <2>1. PICK call, prog, before : Operator /\ Call(m, call, prog, before)
    BY <1>2 DEF Insmod, Rmmod
  <2>2. m \in Client /\ Modules \subseteq Client
    BY DEF Client
  <2>3. /\ \A d \in Client \ {m} : job'[d] = job[d]
        /\ job'[m].step = "request"
    BY <2>1, <2>2, CallAfter
  <2> QED  BY <2>1, <2>2, <2>3 DEF Turns, OneCommand, Away, Operator, Idle
<1>3. ASSUME NEW op \in {"b53write", "b53read"}, B53(op) PROVE Turns' /\ OneCommand'
  <2>1. "b53" \in Client /\ Modules \subseteq Client
    BY DEF Client
  <2>2. /\ \A d \in Client \ {"b53"} : job'[d] = job[d]
        /\ job'["b53"].step = "request"
    BY <1>3, <2>1, CallAfter DEF B53
  <2>3. "b53" \notin Modules
    BY Registers
  <2> QED  BY <2>1, <2>2, <2>3 DEF Turns, OneCommand, Away, Idle
<1> QED  BY <1>0, <1>1, <1>2, <1>3 DEF Next, vars, Arbitrate, Operate

(* The conjuncts that speak of registers and modules, as one.              *)
Kept == Pending /\ AtWork /\ AtRest /\ Cleared

(* When b53 or the hardware moves, and no register of a module changes,    *)
(* nothing the modules rely on does: none of them is within a transaction. *)
LEMMA AsideStep ==
  ASSUME TypeOK, Kept, \A m \in Modules : job'[m] = job[m] /\ Away(m),
         \A r \in {"OOBPAUSE", "BRCM_HDR"} : reg'[r] = reg[r], loaded' = loaded,
         cmdstat' = cmdstat \/ cmdstat'.reg = "vlan" \/ ~ cmdstat'.gordyn
  PROVE  Kept'
<1>1. Pending'
  BY DEF Kept, Pending, Away
<1>2. \A m \in Modules : Bit(m)' = Bit(m) /\ Idle(m)' = Idle(m) /\ Holds(RegisterOf(m))' = Holds(RegisterOf(m))
  BY Registers DEF Bit, Idle, Holds
<1>3. \A m \in Modules : ~ Done(m) /\ ~ Done(m)'
  BY DEF Done, Away, At
<1>4. ASSUME NEW m \in Modules, ~ Idle(m)'
      PROVE  Course(m)' /\ (job'[m].ok => Remembered(m)' /\ OnBus(m)' /\ Value(m)')
  <2>1. job'[m] = job[m] /\ job[m].step = "request"
    BY <1>4, <1>2 DEF Idle, Away
  <2>2. Course(m) /\ Course(m)'
    BY <1>4, <1>2, <2>1 DEF Kept, AtWork, Course, Left
  <2>3. OnBus(m)'
    BY <2>1 DEF OnBus, At
  <2>4. ASSUME job[m].ok PROVE Remembered(m)' /\ Value(m)'
    <3>1. Remembered(m) /\ Value(m)
      BY <1>4, <1>2, <2>4 DEF Kept, AtWork
    <3>2. Remembered(m)'
      BY <1>2, <2>1, <3>1 DEF Remembered, Left, At
    <3>3. Value(m)'
      BY <1>2, <1>3, <2>1, <3>1 DEF Value, Left
    <3> QED  BY <3>2, <3>3
  <2> QED  BY <2>1, <2>2, <2>3, <2>4
<1>5. AtRest'
  BY <1>2 DEF Kept, AtRest, Idle, Holds
<1>6. Cleared'
  BY DEF Kept, Cleared, TypeOK
<1> QED  BY <1>1, <1>4, <1>5, <1>6 DEF Kept, AtWork

(* A module's step within its call: what is left to show of it.            *)
LEMMA CallStep ==
  ASSUME TypeOK, Kept, OneCommand, NEW m \in Modules, ~ Idle(m), ~ Idle(m)',
         \A d \in Client \ {m} : job'[d] = job[d], Course(m)',
         job'[m].before = job[m].before \/ ThisOp(m) = "before",
         reg' = reg, loaded' = loaded, Pending',
         job'[m].ok => Remembered(m)' /\ OnBus(m)' /\ Value(m)'
  PROVE  Kept'
<1>1. \A n \in Modules : n \in Client /\ (Idle(n)' <=> Idle(n)) /\ (n # m => Idle(n))
  BY Registers DEF OneCommand, Idle
<1>2. Course(m)
  BY DEF Kept, AtWork
<1>3. AtWork'
  BY <1>1 DEF AtWork
<1>4. AtRest'
  BY <1>1 DEF Kept, AtRest, Holds
<1>5. Cleared'
  <2>1. ASSUME NEW n \in loaded \intersect Persists, n = m PROVE ThisOp(m) = "revert"
    BY <1>2, <2>1, Programs, Registers DEF Course, Left, ThisOp
  <2> QED  BY <1>1, <2>1 DEF Kept, Cleared, TypeOK
<1> QED  BY <1>3, <1>4, <1>5 DEF Kept

LEMMA WithinStep ==
  ASSUME TypeOK, Kept, OneCommand, NEW m \in Modules, ~ Idle(m), ~ Idle(m)',
         \A d \in Client \ {m} : job'[d] = job[d],
         job'[m].prog = job[m].prog, job'[m].call = job[m].call,
         job'[m].before = job[m].before \/ ThisOp(m) = "before",
         reg' = reg, loaded' = loaded, Pending',
         job'[m].ok => Remembered(m)' /\ OnBus(m)' /\ Value(m)'
  PROVE  Kept'
<1>1. Course(m)'
  BY DEF Kept, AtWork, Course, Left
<1> QED  BY <1>1, CallStep

(* The steps of a module's transaction up to its release. *)
LEMMA TransactionStep ==
  ASSUME TypeOK, ~ Overlap, Turns, OneCommand, Kept, NEW m \in Modules, Transact(m),
         ~ Release(m), ~ GrantTimesOut(m)
  PROVE  Kept'
<1>c. m \in Client
  BY Registers
<1>m. m \in Client /\ Modules \subseteq Client /\ m # "b53"
  BY Registers
<1>1. job[m] \in JobType /\ ~ Idle(m) /\ (\A d \in Client \ {m} : job'[d] = job[d])
  BY <1>m, TransactAfter DEF TypeOK
<1>2. /\ Course(m)
      /\ job[m].ok => Remembered(m) /\ OnBus(m) /\ Value(m)
      /\ Pending
  BY <1>1 DEF Kept, AtWork
(* A transaction that is another's is none of a module's. *)
<1>3. ASSUME ~ Away(m), NEW n \in Modules, ~ Away(n) PROVE n = m
  BY <1>3, <1>m DEF Turns
<1>4. CASE Request(m)
  <2>1. /\ job'[m].step = "grant" /\ job'[m].ok = job[m].ok /\ job'[m].before = job[m].before
        /\ job'[m].prog = job[m].prog /\ job'[m].call = job[m].call
        /\ job[m].step = "request"
    BY <1>4, <1>m, GotoAfter DEF Request, At
  <2>2. UNCHANGED <<reg, loaded, cmdstat, wd, rd>>
    BY <1>4 DEF Request
  <2>3. Pending'
    BY <1>1, <1>2, <1>m, <2>1, <2>2 DEF Pending, Away, At
  <2>4. ASSUME job[m].ok PROVE Remembered(m)' /\ OnBus(m)' /\ Value(m)'
    BY <1>2, <2>1, <2>2, <2>4 DEF Remembered, OnBus, Value, Left, At, Done, Bit, Holds, ThisOp
  <2> QED  BY <1>1, <2>1, <2>2, <2>3, <2>4, WithinStep DEF Idle
<1>5. CASE Granted(m)
  <2>1. /\ job'[m].step \in {"data", "command"}
        /\ job'[m].step = "command" => ~ Writing(m)
        /\ job'[m].ok = job[m].ok /\ job'[m].before = job[m].before
        /\ job'[m].prog = job[m].prog /\ job'[m].call = job[m].call
        /\ job[m].step = "grant"
    BY <1>5, <1>m, GotoAfter DEF Granted, At, Writing
  <2>2. UNCHANGED <<reg, loaded, cmdstat, wd, rd>>
    BY <1>5 DEF Granted, bus
  <2>3. Pending'
    BY <1>1, <1>2, <1>m, <1>3, <2>1, <2>2 DEF Pending, Away, At
  <2>4. ASSUME job[m].ok PROVE Remembered(m)' /\ OnBus(m)' /\ Value(m)'
    BY <1>2, <2>1, <2>2, <2>4
       DEF Remembered, OnBus, Value, Left, At, Done, Bit, Holds, ThisOp, Writing
  <2> QED  BY <1>1, <2>1, <2>2, <2>3, <2>4, WithinStep DEF Idle
<1>6. CASE Data(m)
  <2>1. /\ job'[m].step = "command" /\ job'[m].ok = job[m].ok /\ job'[m].before = job[m].before
        /\ job'[m].prog = job[m].prog /\ job'[m].call = job[m].call
        /\ job[m].step = "data"
    BY <1>6, <1>m, GotoAfter DEF Data, At
  <2>2. UNCHANGED <<reg, loaded, cmdstat, rd, wanted>> /\ wd' = ValueOf(m)
    BY <1>6 DEF Data, history
  <2>3. Pending'
    BY <1>1, <1>2, <1>m, <1>3, <2>1, <2>2 DEF Pending, Away, At
  <2>4. wd' = ValueOf(m)'
    BY <2>1, <2>2 DEF ValueOf, ThisOp, Revert
  <2>5. ASSUME job[m].ok PROVE Remembered(m)' /\ OnBus(m)' /\ Value(m)'
    <3>1. Remembered(m)' /\ Value(m)'
      BY <1>2, <2>1, <2>2, <2>5 DEF Remembered, Value, Left, At, Done, Bit, Holds, ThisOp
    <3>2. OnBus(m)'
      BY <2>1, <2>4 DEF OnBus, At
    <3> QED  BY <3>1, <3>2
  <2> QED  BY <1>1, <2>1, <2>2, <2>3, <2>5, WithinStep DEF Idle
<1>7. CASE Command(m)
  <2>1. /\ job'[m].step = "poll" /\ job'[m].ok = job[m].ok /\ job'[m].before = job[m].before
        /\ job'[m].prog = job[m].prog /\ job'[m].call = job[m].call
        /\ job[m].step = "command"
    BY <1>7, <1>m, GotoAfter DEF Command, At
  <2>2. /\ UNCHANGED <<reg, loaded, wd, rd, wanted>>
        /\ cmdstat'.gordyn /\ cmdstat'.reg = RegisterOf(m)
        /\ cmdstat'.write <=> Writing(m)
    BY <1>7 DEF Command, history, Writing
  <2>3. Pending'
    BY <2>1, <2>2 DEF Pending, Away, At
  <2>4. ASSUME job[m].ok PROVE Remembered(m)' /\ OnBus(m)' /\ Value(m)'
    <3>1. Remembered(m)' /\ Value(m)'
      BY <1>2, <2>1, <2>2, <2>4 DEF Remembered, Value, Left, At, Done, Bit, Holds, ThisOp
    <3>2. (Writing(m)' <=> Writing(m)) /\ (ValueOf(m)' <=> ValueOf(m))
      BY <2>1, <2>2 DEF Writing, ThisOp, ValueOf, Revert
    <3>3. OnBus(m)'
      BY <1>2, <2>1, <2>2, <2>4, <3>2 DEF OnBus, At
    <3> QED  BY <3>1, <3>3
  <2> QED  BY <1>1, <2>1, <2>2, <2>3, <2>4, WithinStep DEF Idle
<1>8. CASE Poll(m)
  <2>1. UNCHANGED <<reg, cmdstat, wd, rd, loaded>> /\ job[m].step = "poll"
    BY <1>8 DEF Poll, bus, AfterTimeout, At
  <2>2. CASE AfterTimeout(m)
    <3> DEFINE new == [job[m] EXCEPT !.step = "release", !.ok = FALSE]
    <3>1. /\ new.step = "release" /\ ~ new.ok /\ new.before = job[m].before
          /\ new.prog = job[m].prog /\ new.call = job[m].call
      BY <1>1 DEF JobType
    <3>2. /\ job'[m].step = "release" /\ ~ job'[m].ok /\ job'[m].before = job[m].before
          /\ job'[m].prog = job[m].prog /\ job'[m].call = job[m].call
      <4>1. job' = [job EXCEPT ![m] = new] /\ job \in [Client -> JobType]
        BY <1>1, <1>c, <2>2 DEF AfterTimeout, TypeOK, JobType
      <4> HIDE DEF new
      <4>2. job'[m] = new
        BY <1>c, <4>1
      <4> QED  BY <3>1, <4>2
    <3>3. Pending'
      BY <1>1, <1>2, <1>m, <1>3, <2>1, <3>2 DEF Pending, Away, At
    <3> QED  BY <1>1, <2>1, <3>2, <3>3, WithinStep DEF Idle
  <2>3. CASE ~ cmdstat.gordyn /\ Goto(m, IF ThisOp(m) \in Writes THEN "release" ELSE "take")
    <3>1. /\ job'[m].step \in {"release", "take"}
          /\ job'[m].step = "release" <=> Writing(m)
          /\ job'[m].ok = job[m].ok /\ job'[m].before = job[m].before
          /\ job'[m].prog = job[m].prog /\ job'[m].call = job[m].call
      BY <1>m, <2>3, GotoAfter DEF Writing
    <3>2. Pending'
      BY <2>1, <2>3 DEF Pending
    <3>3. ASSUME job[m].ok PROVE Remembered(m)' /\ OnBus(m)' /\ Value(m)'
      <4>1. Done(m) /\ Done(m)'
        BY <2>1, <2>3, <3>1 DEF Done, At
      <4>2. Value(m)'
        BY <1>2, <2>1, <3>1, <3>3, <4>1 DEF Value, Left, Bit, Holds
      <4>3. Remembered(m)'
        BY <1>2, <2>1, <3>1, <3>3 DEF Remembered, Left, At, Holds, ThisOp, Writing, Writes
      <4>4. OnBus(m)'
        BY <1>2, <2>1, <2>3, <3>1, <3>3 DEF OnBus, At, Bit
      <4> QED  BY <4>2, <4>3, <4>4
    <3> QED  BY <1>1, <2>1, <3>1, <3>2, <3>3, WithinStep DEF Idle
  <2> QED  BY <1>8, <2>2, <2>3 DEF Poll
<1>9. CASE Take(m)
  <2>1. UNCHANGED <<reg, cmdstat, wd, rd, loaded>> /\ job[m].step = "take"
    BY <1>9 DEF Take, bus, At
  <2>2. /\ job'[m].step = "release" /\ job'[m].ok = job[m].ok
        /\ job'[m].before = IF ThisOp(m) = "before" THEN rd ELSE job[m].before
        /\ job'[m].prog = job[m].prog /\ job'[m].call = job[m].call
    <3> DEFINE before == IF ThisOp(m) = "before" THEN rd ELSE job[m].before
               new == [job[m] EXCEPT !.step = "release", !.before = before]
    <3>1. /\ new.step = "release" /\ new.ok = job[m].ok /\ new.before = before
          /\ new.prog = job[m].prog /\ new.call = job[m].call
      BY <1>1 DEF JobType
    <3>2. job' = [job EXCEPT ![m] = new] /\ job \in [Client -> JobType]
      BY <1>1, <1>9, <1>c DEF Take, TypeOK, JobType
    <3> HIDE DEF new
    <3>3. job'[m] = new
      BY <1>c, <3>2
    <3> QED  BY <3>1, <3>3
  <2>3. Pending'
    BY <1>1, <1>2, <1>m, <1>3, <2>1, <2>2 DEF Pending, Away, At
  <2>4. ASSUME job[m].ok PROVE Remembered(m)' /\ OnBus(m)' /\ Value(m)'
    <3>1. Done(m) /\ Done(m)' /\ (rd <=> Bit(m)) /\ ~ cmdstat.gordyn
      BY <1>2, <2>1, <2>2, <2>4 DEF Done, At, OnBus
    <3>2. OnBus(m)'
      BY <2>1, <2>2, <3>1 DEF OnBus, At
    <3>3. ThisOp(m) = "before" => Left(m) \in {TestBefore, PersistBefore}
      BY <1>2, Programs DEF Course, ThisOp, Left
    <3>4. Left(m) \in {TestBefore, PersistBefore} => ThisOp(m) = "before"
      BY Programs DEF ThisOp, Left
    <3>5. Left(m) \notin {TestBefore, PersistBefore} => job'[m].before = job[m].before
      BY <2>2, <3>3
    <3>6. ThisOp(m) = "before" => (job'[m].before <=> Holds(RegisterOf(m)))
      BY <1>2, <2>2, <2>4, <3>1, <3>3 DEF Value
    <3>7. ThisOp(m) = "before" => Left(m) \notin {TestSet, TestCheck, TestRevert, TestLast,
                                                  PersistSet, ExitRevert}
      BY Programs DEF ThisOp, Left
    <3>8. Remembered(m)'
      BY <1>2, <2>1, <2>2, <2>4, <3>5, <3>6, <3>7, <3>3 DEF Remembered, Left, Holds, ThisOp
    <3>9. Value(m)'
      BY <1>2, <2>1, <2>2, <2>4, <3>1, <3>5, <3>3, <3>7 DEF Value, Left, Bit, Holds
    <3> QED  BY <3>2, <3>8, <3>9
  <2> QED  BY <1>1, <2>1, <2>2, <2>3, <2>4, WithinStep DEF Idle
<1> QED  BY <1>4, <1>5, <1>6, <1>7, <1>8, <1>9, <1>m DEF Transact, GrantLate

(* A transaction that succeeded ends: the next one begins, or the call is  *)
(* over and the module comes or goes.                                      *)
LEMMA ReleaseStep ==
  ASSUME TypeOK, OneCommand, Kept, NEW m \in Modules, Release(m), ~ failed'
  PROVE  Kept'
<1>m. m \in Client
  BY Registers
<1>1. job[m] \in JobType /\ ~ Idle(m) /\ Over(m, job[m].ok) /\ job[m].step = "release"
  BY <1>m DEF TypeOK, Release, At, Idle
<1>2. UNCHANGED <<reg, cmdstat, wd, rd>>
  BY DEF Release
<1>3. job[m].ok
  BY <1>1 DEF Over
<1>4. Course(m) /\ Remembered(m) /\ OnBus(m) /\ Value(m)
  BY <1>1, <1>3 DEF Kept, AtWork
<1>5. /\ \A d \in Client \ {m} : job'[d] = job[d]
      /\ job'[m].step \in {"idle", "request"}
      /\ job'[m].step = "idle" <=> Tail(Left(m)) = <<>>
      /\ job'[m].step = "request" => Left(m)' = Tail(Left(m))
      /\ job'[m].ok /\ job'[m].before = job[m].before /\ job'[m].call = job[m].call
  BY <1>1, <1>3, <1>m, OverAfter DEF JobType, Left
<1>6. Pending'
  BY <1>1, <1>2, <1>4 DEF Pending, OnBus, At
<1>7. Done(m) /\ ~ Done(m)'
  BY <1>1, <1>5 DEF Done, At
<1>8. /\ TestSet # <<>> /\ TestCheck # <<>> /\ TestRevert # <<>> /\ TestLast # <<>>
      /\ PersistSet # <<>>
  BY ProgramsDiffer
<1>9. CASE Tail(Left(m)) # <<>>
  <2>1. loaded' = loaded /\ job'[m].step = "request" /\ Left(m)' = Tail(Left(m))
    BY <1>1, <1>3, <1>5, <1>9 DEF Over, Left
  <2>2. OnBus(m)'
    BY <2>1 DEF OnBus, At
  <2>3. Bit(m)' = Bit(m) /\ (Holds(RegisterOf(m))' <=> Holds(RegisterOf(m)))
    BY <1>2, <2>1 DEF Bit, Holds
  <2>4. \/ m \in Tests /\ Left(m) \in {TestBefore, TestSet, TestCheck, TestRevert}
        \/ m \in Persists /\ Left(m) = PersistBefore
    BY <1>4, <1>9, Programs DEF Course
  <2>5. m \notin loaded /\ job[m].call = "init"
    BY <1>4, <1>9, Programs DEF Course
  <2>6. CASE Left(m) = TestBefore
    <3>1. Left(m)' = TestSet /\ m \in Tests
      BY <2>1, <2>4, <2>6, Programs, ProgramsApart
    <3>2. ThisOp(m) = "before"
      BY <2>6, Programs DEF ThisOp, Left
    <3>3. Course(m)'
      BY <1>5, <2>1, <2>5, <3>1 DEF Course
    <3>4. Remembered(m)'
      BY <1>1, <1>4, <1>5, <2>1, <2>3, <3>1, <3>2 DEF Remembered, At
    <3>5. Value(m)'
      BY <1>4, <1>7, <2>3, <2>6, <3>1, ProgramsApart DEF Value
    <3> QED  BY <1>1, <1>2, <1>5, <1>6, <2>1, <2>2, <3>3, <3>4, <3>5, CallStep DEF Idle
  <2>7. CASE Left(m) \in {TestSet, TestCheck, TestRevert}
    <3>1. /\ Left(m)' \in {TestCheck, TestRevert, TestLast} /\ m \in Tests
          /\ Left(m)' = TestCheck <=> Left(m) = TestSet
          /\ Left(m)' = TestRevert <=> Left(m) = TestCheck
          /\ Left(m)' = TestLast <=> Left(m) = TestRevert
      <4>1. m \in Tests
        BY <2>4, <2>7, ProgramsApart
      <4>2. Left(m)' = Tail(Left(m))
        BY <2>1
      <4> QED  BY <2>7, <4>1, <4>2, Programs, ProgramsApart
    <3>2. job[m].before <=> Holds(RegisterOf(m))
      BY <1>4, <2>7, <3>1 DEF Remembered
    <3>3. Course(m)'
      BY <1>5, <2>1, <2>5, <3>1 DEF Course
    <3>4. Remembered(m)'
      BY <1>5, <2>1, <2>3, <3>1, <3>2 DEF Remembered, At
    <3>5. Value(m)'
      <4>3. CASE Left(m) = TestSet
        BY <1>4, <1>7, <2>3, <3>1, <4>3, ProgramsApart DEF Value
      <4>4. CASE Left(m) = TestCheck
        BY <1>4, <1>7, <2>3, <3>1, <4>4, ProgramsApart DEF Value
      <4>5. CASE Left(m) = TestRevert
        BY <1>4, <1>7, <2>3, <3>1, <3>2, <4>5, ProgramsApart DEF Value
      <4> QED  BY <2>7, <4>3, <4>4, <4>5
    <3> QED  BY <1>1, <1>2, <1>5, <1>6, <2>1, <2>2, <3>3, <3>4, <3>5, CallStep DEF Idle
  <2>8. CASE m \in Persists /\ Left(m) = PersistBefore
    <3>1. Left(m)' = PersistSet /\ ThisOp(m) = "before" /\ m \notin Tests
      BY <2>1, <2>8, Programs, Registers DEF ThisOp, Left
    <3>2. ~ Holds(RegisterOf(m))
      BY <2>5, <2>8, Registers DEF Holds, TypeOK
    <3>3. ~ job[m].before
      BY <1>1, <1>4, <3>1, <3>2 DEF Remembered, At
    <3>4. Course(m)'
      BY <1>5, <2>1, <2>5, <2>8, <3>1 DEF Course
    <3>5. Remembered(m)'
      BY <1>5, <2>1, <3>1, <3>3 DEF Remembered, At
    <3>6. Value(m)'
      BY <1>4, <1>7, <2>3, <2>8, <3>1, ProgramsApart DEF Value
    <3> QED  BY <1>1, <1>2, <1>5, <1>6, <2>1, <2>2, <3>4, <3>5, <3>6, CallStep DEF Idle
  <2> QED  BY <2>4, <2>6, <2>7, <2>8
<1>10. CASE Tail(Left(m)) = <<>>
  <2>1. /\ Idle(m)'
        /\ loaded' = IF job[m].call = "init" THEN loaded \union {m} ELSE loaded \ {m}
    BY <1>1, <1>3, <1>5, <1>10 DEF Over, Left, Idle
  <2>2. \A n \in Modules : Idle(n)' /\ (n # m => Idle(n) /\ job'[n] = job[n])
    BY <1>1, <1>5, <2>1, Registers DEF OneCommand, Idle
  <2>3. \/ m \in Tests /\ m \notin loaded /\ job[m].call = "init" /\ Left(m) = TestLast
        \/ m \in Persists /\ m \notin loaded /\ job[m].call = "init" /\ Left(m) = PersistSet
        \/ m \in Persists /\ m \in loaded /\ job[m].call = "exit" /\ Left(m) = ExitRevert
    BY <1>4, <1>8, <1>10, Programs DEF Course
  <2>4. Holds(RegisterOf(m))' <=> Bit(m)
    <3>1. CASE m \in Tests /\ job[m].call = "init" /\ Left(m) = TestLast
      <4>1. Holds(RegisterOf(m))' <=> Holds(RegisterOf(m))
        BY <2>1, <3>1, Registers DEF Holds
      <4> QED  BY <1>4, <3>1, <4>1 DEF Value
    <3>2. CASE m \in Persists /\ job[m].call = "init" /\ Left(m) = PersistSet
      <4>1. Holds(RegisterOf(m))'
        BY <2>1, <3>2 DEF Holds
      <4> QED  BY <1>4, <1>7, <3>2, <4>1 DEF Value
    <3>3. CASE m \in Persists /\ m \in loaded /\ job[m].call = "exit" /\ Left(m) = ExitRevert
      <4>1. ~ Holds(RegisterOf(m))'
        BY <2>1, <3>3, Registers DEF Holds, TypeOK
      <4>2. ~ job[m].before
        BY <1>4, <3>3, Registers DEF Remembered
      <4> QED  BY <1>4, <1>7, <3>3, <4>1, <4>2 DEF Value
    <3> QED  BY <2>3, <3>1, <3>2, <3>3
  <2>5. ASSUME NEW r, r # RegisterOf(m) PROVE Holds(r)' <=> Holds(r)
    BY <2>1, <2>5 DEF Holds
  <2>6. AtRest'
    <3>1. ASSUME NEW r \in {"OOBPAUSE", "BRCM_HDR"} PROVE reg'[r] <=> Holds(r)'
      <4>1. CASE r = RegisterOf(m)
        BY <1>2, <2>4, <4>1 DEF Bit
      <4>2. CASE r # RegisterOf(m)
        BY <1>2, <2>2, <2>5, <4>2 DEF Kept, AtRest
      <4> QED  BY <4>1, <4>2
    <3> QED  BY <3>1 DEF AtRest
  <2>7. Cleared'
    <3>1. ASSUME NEW n \in loaded' \intersect Persists PROVE ~ job'[n].before
      <4>1. CASE n = m
        <5>1. Left(m) = PersistSet /\ m \notin Tests
          BY <2>1, <2>3, <4>1, Registers
        <5> QED  BY <1>4, <1>5, <4>1, <5>1 DEF Remembered
      <4>2. CASE n # m
        BY <2>1, <2>2, <4>2 DEF Kept, Cleared, TypeOK
      <4> QED  BY <4>1, <4>2
    <3> QED  BY <3>1 DEF Cleared
  <2> QED  BY <1>6, <2>2, <2>6, <2>7 DEF Kept, AtWork
<1> QED  BY <1>9, <1>10

(* The hardware carries out an operation: that of the module which polls   *)
(* for it, with the value it wrote, or one that no module relies on.       *)
LEMMA OperateStep ==
  ASSUME TypeOK, OneCommand, Kept, Operate
  PROVE  Kept'
<1>1. /\ cmdstat.gordyn /\ ~ cmdstat'.gordyn
      /\ cmdstat'.reg = cmdstat.reg /\ (cmdstat'.write <=> cmdstat.write)
      /\ UNCHANGED <<wd, loaded, job, wanted>>
  BY DEF Operate, TypeOK, history
<1>2. \A m \in Modules : m \in Client /\ Bit(m) \in BOOLEAN /\ RegisterOf(m) \in Register
  BY Registers DEF Bit, TypeOK, Register
<1>3. Pending'
  BY <1>1 DEF Pending
<1>4. \A m \in Modules : /\ Idle(m)' <=> Idle(m)
                         /\ Holds(RegisterOf(m))' <=> Holds(RegisterOf(m))
                         /\ Left(m)' = Left(m)
  BY <1>1 DEF Idle, Holds, Left
(* A register changes only by the write of a module at work on it. *)
<1>5. ASSUME NEW r \in {"OOBPAUSE", "BRCM_HDR"}, reg'[r] # reg[r]
      PROVE  /\ cmdstat.write /\ cmdstat.reg = r
             /\ \E m \in Modules : /\ ~ Idle(m) /\ RegisterOf(m) = r
                                   /\ At(m, "poll") \/ ~ job[m].ok
  <2>1. cmdstat.write /\ cmdstat.reg = r
    BY <1>5 DEF Operate, TypeOK, Register
  <2> QED  BY <1>1, <2>1 DEF Kept, Pending, Away, Idle
<1>6. ASSUME NEW m \in Modules, ~ Idle(m), job[m].ok, ~ At(m, "poll")
      PROVE  Bit(m)' = Bit(m) /\ ~ At(m, "take") /\ ~ At(m, "release")
  <2>1. OnBus(m)
    BY <1>6 DEF Kept, AtWork
  <2>2. Bit(m)' = Bit(m)
    <3> SUFFICES ASSUME Bit(m)' # Bit(m) PROVE FALSE
      OBVIOUS
    <3>1. PICK n \in Modules : ~ Idle(n) /\ (At(n, "poll") \/ ~ job[n].ok)
      BY <1>5, Registers DEF Bit
    <3> QED  BY <1>6, <3>1 DEF OneCommand
  <2> QED  BY <1>1, <2>1, <2>2 DEF OnBus
<1>7. ASSUME NEW m \in Modules, ~ Idle(m)
      PROVE  Course(m)' /\ (job[m].ok => Remembered(m)' /\ OnBus(m)' /\ Value(m)')
  <2>1. Course(m) /\ Course(m)'
    BY <1>1, <1>7 DEF Kept, AtWork, Course, Left
  <2>2. ASSUME job[m].ok PROVE Remembered(m)' /\ OnBus(m)' /\ Value(m)'
    <3>1. Remembered(m) /\ OnBus(m) /\ Value(m)
      BY <1>7, <2>2 DEF Kept, AtWork
    <3>2. Remembered(m)'
      BY <1>1, <1>4, <3>1 DEF Remembered, ThisOp, At, Left
    <3>3. (ValueOf(m)' <=> ValueOf(m)) /\ (Writing(m)' <=> Writing(m))
      BY <1>1 DEF ValueOf, Revert, ThisOp, Writing
    <3>4. CASE ~ At(m, "poll")
      <4>1. Bit(m)' = Bit(m) /\ ~ At(m, "take") /\ ~ At(m, "release")
        BY <1>6, <1>7, <2>2, <3>4
      <4>2. ~ Done(m) /\ ~ Done(m)'
        BY <1>1, <3>4, <4>1 DEF Done, At
      <4>3. OnBus(m)'
        BY <1>1, <3>1, <3>3, <3>4, <4>1 DEF OnBus, At
      <4>4. Value(m)'
        BY <1>1, <1>4, <3>1, <4>1, <4>2 DEF Value
      <4> QED  BY <3>2, <4>3, <4>4
    <3>5. CASE At(m, "poll")
      <4>1. /\ cmdstat.reg = RegisterOf(m) /\ (cmdstat.write <=> Writing(m))
            /\ Writing(m) => (wd <=> ValueOf(m))
        BY <3>1, <3>5 DEF OnBus
      <4>2. ~ Done(m) /\ Done(m)'
        BY <1>1, <3>5 DEF Done, At
      <4>3. IF Writing(m) THEN Bit(m)' = wd ELSE Bit(m)' = Bit(m) /\ rd' = Bit(m)
        BY <1>2, <4>1 DEF Operate, Bit, TypeOK
      <4>4. OnBus(m)'
        BY <1>1, <3>1, <3>3, <3>5, <4>1, <4>3 DEF OnBus, At
      <4>5. CASE ~ Writing(m)
        <5>1. Left(m) \in {TestBefore, TestCheck, TestLast, PersistBefore}
          BY <2>1, <4>5, Programs DEF Course, Writing, Writes, ThisOp, Left
        <5> QED  BY <1>4, <3>1, <3>2, <4>3, <4>4, <4>5, <5>1, ProgramsApart DEF Value
      <4>6. CASE Writing(m)
        <5>1. \/ Left(m) \in {TestSet, PersistSet} /\ ThisOp(m) = "set"
              \/ Left(m) \in {TestRevert, ExitRevert} /\ ThisOp(m) = "revert"
          BY <2>1, <4>6, Programs DEF Course, Writing, Writes, ThisOp, Left
        <5>2. CASE Left(m) \in {TestSet, PersistSet} /\ ThisOp(m) = "set"
          <6>1. Bit(m)'
            BY <4>1, <4>3, <4>6, <5>2 DEF ValueOf
          <6> QED  BY <1>4, <3>2, <4>2, <4>4, <5>2, <6>1, ProgramsApart DEF Value
        <5>3. CASE Left(m) \in {TestRevert, ExitRevert} /\ ThisOp(m) = "revert"
          <6>1. Bit(m)' <=> job[m].before
            BY <4>1, <4>3, <4>6, <5>3 DEF ValueOf, Revert
          <6> QED  BY <1>1, <1>4, <3>2, <4>2, <4>4, <5>3, <6>1, ProgramsApart DEF Value
        <5> QED  BY <5>1, <5>2, <5>3
      <4> QED  BY <4>5, <4>6
    <3> QED  BY <3>4, <3>5
  <2> QED  BY <2>1, <2>2
<1>8. AtRest'
  <2>1. ASSUME NEW r \in {"OOBPAUSE", "BRCM_HDR"},
               \A m \in Modules : RegisterOf(m) = r => Idle(m)'
        PROVE  reg'[r] <=> Holds(r)'
    <3>1. reg'[r] = reg[r]
      BY <1>4, <1>5, <2>1
    <3> QED  BY <1>1, <1>4, <2>1, <3>1 DEF Kept, AtRest, Holds
  <2> QED  BY <2>1 DEF AtRest
<1>9. Cleared'
  BY <1>1 DEF Kept, Cleared
<1> QED  BY <1>1, <1>3, <1>4, <1>7, <1>8, <1>9 DEF Kept, AtWork

(* The operator's commands begin where the modules are at rest. *)
LEMMA InsmodStep ==
  ASSUME TypeOK, Kept, NEW m \in Modules, Insmod(m)
  PROVE  Kept'
<1>1. /\ \A n \in Modules : Idle(n) /\ n \in Client
      /\ m \notin loaded
      /\ UNCHANGED <<rcareq, cmdstat, wd, rd, reg, loaded>>
  BY Registers DEF Insmod, Operator, bus
<1>2. /\ \A n \in Modules : n # m => Idle(n)'
      /\ \A d \in Client \ {m} : job'[d] = job[d]
      /\ job'[m].step = "request" /\ job'[m].ok
      /\ Left(m)' = InitProg(m) /\ job'[m].call = "init"
  BY <1>1, CallAfter DEF Insmod, Idle, Left
<1>3. Pending'
  BY <1>1 DEF Kept, Pending, Away, Idle
<1>4. \/ m \in Tests /\ InitProg(m) = TestBefore
      \/ m \in Persists /\ InitProg(m) = PersistBefore
  BY Registers DEF InitProg, TestBefore, PersistBefore
<1>5. Course(m)' /\ OnBus(m)'
  BY <1>1, <1>2, <1>4 DEF Course, OnBus, At
<1>6. Remembered(m)'
  BY <1>2, <1>4, ProgramsApart DEF Remembered, At
<1>7. Bit(m)' <=> Holds(RegisterOf(m))'
  BY <1>1, Registers DEF Kept, AtRest, Bit, Holds
<1>8. Value(m)'
  BY <1>2, <1>4, <1>7, ProgramsApart DEF Value
<1>9. AtWork'
  BY <1>2, <1>5, <1>6, <1>8 DEF AtWork
<1>10. AtRest'
  BY <1>1 DEF Kept, AtRest, Holds
<1>11. Cleared'
  BY <1>1, <1>2 DEF Kept, Cleared, TypeOK
<1> QED  BY <1>3, <1>9, <1>10, <1>11 DEF Kept

LEMMA RmmodStep ==
  ASSUME TypeOK, Kept, NEW m \in Modules, Rmmod(m)
  PROVE  Kept'
<1>1. /\ \A n \in Modules : Idle(n) /\ n \in Client
      /\ m \in loaded
      /\ UNCHANGED <<cmdstat, wd, rd, reg>>
  BY Registers DEF Rmmod, Operator, bus
<1>2. CASE m \in Tests
  <2>1. loaded' = loaded \ {m} /\ job' = job
    BY <1>2 DEF Rmmod, ExitProg
  <2>2. \A r : Holds(r)' <=> Holds(r)
    BY <1>2, <2>1, Registers DEF Holds
  <2>3. Pending'
    BY <1>1, <2>1 DEF Kept, Pending, Away, Idle
  <2> QED  BY <1>1, <2>1, <2>2, <2>3 DEF Kept, AtWork, AtRest, Cleared, Idle
<1>3. CASE m \in Persists
  <2>0. ExitProg(m) = ExitRevert /\ ExitRevert # <<>> /\ m \notin Tests
    BY <1>3, Registers DEF ExitProg, ExitRevert
  <2>1. Call(m, "exit", ExitRevert, job[m].before) /\ loaded' = loaded
    BY <2>0 DEF Rmmod
  <2>2. /\ \A n \in Modules : n # m => Idle(n)'
        /\ \A d \in Client \ {m} : job'[d] = job[d]
        /\ job'[m].step = "request" /\ job'[m].ok /\ job'[m].before = job[m].before
        /\ Left(m)' = ExitRevert /\ job'[m].call = "exit"
    BY <1>1, <2>1, CallAfter DEF Idle, Left
  <2>3. Pending'
    BY <1>1 DEF Kept, Pending, Away, Idle
  <2>4. Course(m)' /\ OnBus(m)' /\ ~ Done(m)'
    BY <1>1, <1>3, <2>1, <2>2 DEF Course, OnBus, At, Done
  <2>5. ~ job[m].before /\ Bit(m)'
    BY <1>1, <1>3, Registers DEF Kept, Cleared, AtRest, Bit, Holds
  <2>6. Remembered(m)'
    BY <2>0, <2>2, <2>5 DEF Remembered, At
  <2>7. Value(m)'
    BY <2>2, <2>4, <2>5, ProgramsApart DEF Value
  <2>8. AtWork'
    BY <2>2, <2>4, <2>6, <2>7 DEF AtWork
  <2>9. AtRest'
    BY <1>1, <2>1 DEF Kept, AtRest, Holds
  <2>10. Cleared'
    <3>1. ~ job'[m].before
      BY <2>2, <2>5
    <3> QED  BY <1>1, <2>1, <2>2, <3>1 DEF Kept, Cleared, TypeOK
  <2> QED  BY <2>3, <2>8, <2>9, <2>10 DEF Kept
<1> QED  BY <1>2, <1>3, Registers

(* A transaction of b53, or its beginning: the modules are none the wiser. *)
LEMMA SwitchStep ==
  ASSUME TypeOK, ~ Overlap, Turns, Kept, Transact("b53")
  PROVE  Kept'
<1>1. "b53" \in Client /\ RegisterOf("b53") = "vlan"
  BY DEF Client, RegisterOf
<1>2. /\ ~ Idle("b53")
      /\ \A d \in Client \ {"b53"} : job'[d] = job[d]
      /\ Away("b53") => Alone("b53")
  BY <1>1, TransactAfter
<1>3. \A m \in Modules : job'[m] = job[m] /\ Away(m)
  BY <1>1, <1>2, Registers DEF Turns, Alone, Away
<1>4. \A r \in {"OOBPAUSE", "BRCM_HDR"} : reg'[r] = reg[r]
  BY DEF Transact, Request, Granted, GrantTimesOut, GrantLate, Data, Command, Poll, Take,
         Release
<1>5. loaded' = loaded
  <2>1. "b53" \notin Modules
    BY Registers
  <2> QED  BY <2>1 DEF Transact, Request, Granted, GrantTimesOut, GrantLate, Data, Command,
                       Poll, AfterTimeout, Take, Release, Over
<1>6. cmdstat' = cmdstat \/ cmdstat'.reg = "vlan"
  <2>1. CASE Command("b53")
    <3>1. cmdstat' = [gordyn |-> TRUE, write |-> ThisOp("b53") \in Writes, reg |-> "vlan"]
      BY <1>1, <2>1 DEF Command
    <3> QED  BY <3>1
  <2>2. CASE ~ Command("b53")
    BY <2>2 DEF Transact, Request, Granted, GrantTimesOut, GrantLate, Data, Poll, Take,
                Release, bus
  <2> QED  BY <2>1, <2>2
<1> QED  BY <1>3, <1>4, <1>5, <1>6, AsideStep

LEMMA SwitchBegins ==
  ASSUME TypeOK, Kept, NEW op \in {"b53write", "b53read"}, B53(op)
  PROVE  Kept'
<1>1. \A m \in Modules : m \in Client \ {"b53"}
  BY Registers
<1>2. \A m \in Modules : job'[m] = job[m]
  <2>1. "b53" \in Client
    BY DEF Client
  <2> QED  BY <1>1, <2>1, CallAfter DEF B53
<1>3. UNCHANGED <<cmdstat, wd, rd, reg, loaded>>
  BY DEF B53, bus
<1>4. Pending'
  BY <1>2, <1>3 DEF Kept, Pending, Away, At
<1>5. AtRest' /\ Cleared'
  BY <1>2, <1>3 DEF Kept, AtRest, Cleared, Holds, Idle, TypeOK
<1>6. ASSUME NEW m \in Modules, ~ Idle(m)'
      PROVE  Course(m)' /\ (job'[m].ok => Remembered(m)' /\ OnBus(m)' /\ Value(m)')
  <2>1. ~ Idle(m) /\ job'[m] = job[m]
    BY <1>2, <1>6 DEF Idle
  <2>2. Course(m) /\ Course(m)'
    BY <1>3, <2>1 DEF Kept, AtWork, Course, Left
  <2>3. ASSUME job[m].ok PROVE Remembered(m)' /\ OnBus(m)' /\ Value(m)'
    <3>1. Remembered(m) /\ OnBus(m) /\ Value(m)
      BY <2>1, <2>3 DEF Kept, AtWork
    <3>2. Remembered(m)' /\ Value(m)'
      BY <1>3, <2>1, <3>1 DEF Remembered, Value, ThisOp, At, Left, Bit, Done, Holds
    <3>3. Writing(m) => ThisOp(m) \in {"set", "revert"}
      BY <2>2, Programs DEF Course, Left, ThisOp, Writing, Writes
    <3>4. (Writing(m)' <=> Writing(m)) /\ (Writing(m) => (ValueOf(m)' <=> ValueOf(m)))
      BY <2>1, <3>3 DEF Writing, ThisOp, ValueOf, Revert
    <3>5. OnBus(m)'
      BY <1>3, <2>1, <3>1, <3>4 DEF OnBus, At, Bit
    <3> QED  BY <3>2, <3>5
  <2> QED  BY <2>1, <2>2, <2>3
<1> QED  BY <1>4, <1>5, <1>6 DEF Kept, AtWork

LEMMA ApartInit == Init => Apart
<1> SUFFICES ASSUME Init PROVE Apart
  OBVIOUS
<1>1. BusInv
  BY InitBus
<1>2. \A c \in Client : Idle(c) /\ Away(c)
  BY DEF Init, Idle, Away, NoJob
<1>3. \A m \in Modules : Idle(m)
  BY <1>2, Registers
<1>4. AtRest
  BY DEF Init, AtRest, Holds, Register
<1>5. Pending /\ Cleared
  BY DEF Init, Pending, Cleared
<1> QED  BY <1>1, <1>2, <1>3, <1>4, <1>5 DEF Apart, Turns, OneCommand, AtWork

LEMMA ApartStep == ~ Overlap /\ Apart /\ [Next]_vars => Apart'
<1> SUFFICES ASSUME ~ Overlap, Apart, [Next]_vars PROVE Apart'
  OBVIOUS
<1>1. BusInv'
  BY StepInv DEF Apart
<1>2. Turns' /\ OneCommand'
  BY TurnsStep DEF Apart, BusInv
<1>3. ASSUME ~ failed' PROVE Kept'
  <2>1. ~ failed
    BY <1>3 DEF Next, vars, history, Insmod, Rmmod, B53, Transact, Request, Granted,
                GrantTimesOut, GrantLate, Data, Command, Poll, AfterTimeout, Take, Release,
                Over, Arbitrate, Operate
  <2>2. TypeOK /\ Turns /\ OneCommand /\ Kept
    BY <2>1 DEF Apart, BusInv, Kept
  <2>3. CASE UNCHANGED vars
    BY <2>2, <2>3 DEF vars, bus, history, Kept, Pending, AtWork, AtRest, Cleared, Course,
                      Remembered, OnBus, Value, Idle, Left, Away, At, Bit, Done, Holds,
                      Writing, ThisOp, ValueOf, Revert
  <2>4. CASE \E m \in Modules : Insmod(m) \/ Rmmod(m)
    BY <2>2, <2>4, InsmodStep, RmmodStep
  <2>5. CASE \E op \in {"b53write", "b53read"} : B53(op)
    BY <2>2, <2>5, SwitchBegins
  <2>6. ASSUME NEW c \in Client, Transact(c) PROVE Kept'
    <3>1. CASE c = "b53"
      BY <2>2, <2>6, <3>1, SwitchStep
    <3>2. CASE c \in Modules /\ Release(c)
      BY <1>3, <2>2, <3>2, ReleaseStep
    <3>3. CASE c \in Modules /\ GrantTimesOut(c)
      BY <1>3, <3>3 DEF GrantTimesOut, Over
    <3>4. CASE c \in Modules /\ ~ Release(c) /\ ~ GrantTimesOut(c)
      BY <2>2, <2>6, <3>4, TransactionStep
    <3> QED  BY <3>1, <3>2, <3>3, <3>4 DEF Client
  <2>7. CASE Arbitrate
    BY <2>2, <2>7 DEF Arbitrate, history, Kept, Pending, AtWork, AtRest, Cleared, Course,
                      Remembered, OnBus, Value, Idle, Left, Away, At, Bit, Done, Holds,
                      Writing, ThisOp, ValueOf, Revert
  <2>8. CASE Operate
    BY <2>2, <2>8, OperateStep
  <2> QED  BY <2>3, <2>4, <2>5, <2>6, <2>7, <2>8 DEF Next
<1> QED  BY <1>1, <1>2, <1>3 DEF Apart, Kept

(* "cleanly reverted with a single `rmmod`": as long as b53's transactions *)
(* and the modules' keep apart and nothing has timed out, a register's bit *)
(* is set, between the operator's commands, exactly while its persist      *)
(* module is loaded, for any modules and any number of calls, whatever the *)
(* test module did in between and however slowly the hardware answers.     *)
THEOREM BitSetAndHeld ==
  ASSUME ~ Overlap
  PROVE  Spec => []SetAndHold
<1>1. Apart => SetAndHold
  <2> SUFFICES ASSUME Apart, Operator, ~ failed,
                      NEW r \in {"OOBPAUSE", "BRCM_HDR"}
               PROVE  reg[r] <=> \E m \in loaded \intersect Persists : RegisterOf(m) = r
    BY DEF SetAndHold
  <2>1. reg[r] <=> Holds(r)
    BY DEF Apart, AtRest, Operator
  <2> QED  BY <2>1 DEF Holds
<1>2. Apart /\ [Next]_vars => Apart'
  BY ApartStep
<1> QED  BY <1>1, <1>2, ApartInit, PTL DEF Spec
-----------------------------------------------------------------------------
(* RoboSwitch: what a step may do to the switch's registers, and which     *)
(* access it may lose.                                                     *)
RegisterNames == {"MODE", "CTRL0", "MIIPO", "IMP", "MGMT_CFG", "PORT5", "PORT7",
              "PORTS", "BRCM_HDR", "OOBPAUSE", "CFP_CTL", "RULES"}

IsSwitch(s) == DOMAIN s = RegisterNames /\ s = [r \in RegisterNames |-> s[r]]

LEMMA AllRegisters == DOMAIN Bits = RegisterNames
BY DEF Bits, RegisterNames

LEMMA PoweredOnIs ==
  IsSwitch(PoweredOn) /\ \A r \in RegisterNames : PoweredOn[r] = {}
BY AllRegisters DEF PoweredOn, IsSwitch

LEMMA WrittenIs ==
  ASSUME NEW s, IsSwitch(s), NEW v, NEW x
  PROVE  /\ IsSwitch(Written(s, v, x))
         /\ \A r \in RegisterNames :
              Written(s, v, x)[r] = IF r \in DOMAIN v /\ ~Lost(x, "write", r)
                                    THEN v[r] ELSE s[r]
BY DEF Written, IsSwitch

LEMMA ExceptIs ==
  ASSUME NEW s, IsSwitch(s), NEW r \in RegisterNames, NEW bits
  PROVE  /\ IsSwitch([s EXCEPT ![r] = bits])
         /\ [s EXCEPT ![r] = bits][r] = bits
         /\ \A q \in RegisterNames \ {r} : [s EXCEPT ![r] = bits][q] = s[q]
<1> DEFINE t == [s EXCEPT ![r] = bits]
<1>1. DOMAIN t = RegisterNames /\ t = [q \in RegisterNames |-> IF q = r THEN bits ELSE s[q]]
  BY DEF IsSwitch
<1> HIDE DEF t
<1>2. \A q \in RegisterNames : t[q] = IF q = r THEN bits ELSE s[q]
  BY <1>1
<1>3. IsSwitch(t)
  BY <1>1, <1>2 DEF IsSwitch
<1>4. QED BY <1>2, <1>3 DEF t

LEMMA KindsOfReads ==
  ASSUME board \in Boards, NEW kind, NEW r, NEW bufs, NEW x \in ReadFails(kind, r, bufs)
  PROVE  x[1] = kind /\ x[2] = r
<1>1. board.bus \in {"srab", "mii", "spi"}
  BY BoardsAssumption
<1>2. QED BY <1>1 DEF ReadFails, SpiReadFails, MiiReadFails, SrabReadFails

LEMMA KindsOfWrites ==
  ASSUME board \in Boards, NEW kind, NEW r, NEW x \in WriteFails(kind, r)
  PROVE  x[1] = kind /\ x[2] = r
<1>1. board.bus \in {"srab", "mii", "spi"}
  BY BoardsAssumption
<1>2. QED BY <1>1 DEF WriteFails, SpiWriteFails, MiiWriteFails, SrabWriteFails

LEMMA KindsOfLists ==
  ASSUME board \in Boards, NEW rs
  PROVE  /\ \A x \in ReadsFail(rs) : x[1] = "read" /\ x[2] \in rs
         /\ \A x \in WritesFail(rs) : x[1] = "write" /\ x[2] \in rs
BY KindsOfReads, KindsOfWrites DEF ReadsFail, WritesFail

(* A step loses nothing, or the one access that is lost at all.            *)
LEMMA LoseCases ==
  ASSUME NEW A, NEW x \in Losable(A), Lose(x)
  PROVE  \/ x = Nothing /\ lost' = lost
         \/ x \in A /\ lost = "nothing" /\ lost' = x[1]
BY DEF Losable, Lose

LEMMA NothingLost ==
  \A r : \A kind \in {"id", "read", "back", "write", "clear", "vlan", "rule"} :
    ~Lost(Nothing, kind, r)
BY DEF Lost, Nothing

(* A step touches no register but those in rs.                             *)
Only(rs) == IsSwitch(sw') /\ \A r \in RegisterNames \ rs : sw'[r] = sw[r]

LEMMA SameIsOnly ==
  ASSUME IsSwitch(sw), sw' = sw, NEW rs
  PROVE  Only(rs)
BY DEF Only

LEMMA WrittenOnly ==
  ASSUME IsSwitch(sw), NEW v, NEW x, sw' = Written(sw, v, x), NEW rs, DOMAIN v \subseteq rs
  PROVE  Only(rs)
BY WrittenIs DEF Only

LEMMA EnableOnly ==
  ASSUME IsSwitch(sw), EnableDevice PROVE Only({"PORTS", "MIIPO"})
<1>1. PICK x : sw' = Written(sw,
                    IF dev = "5398" THEN [PORTS |-> sw["PORTS"] \cup {6, 7}]
                    ELSE IF dev = "5325" /\ "rvmii" \notin Seen(sw, "MIIPO", x)
                    THEN [MIIPO |-> Seen(sw, "MIIPO", x) \cup {"rvmii"}]
                    ELSE <<>>, x)
  BY DEF EnableDevice
<1>2. CASE dev = "5398"
  BY <1>1, <1>2, WrittenOnly
<1>3. CASE dev # "5398" /\ dev = "5325" /\ "rvmii" \notin Seen(sw, "MIIPO", x)
  BY <1>1, <1>3, WrittenOnly
<1>4. CASE dev # "5398" /\ ~(dev = "5325" /\ "rvmii" \notin Seen(sw, "MIIPO", x))
  <2>1. sw' = Written(sw, <<>>, x) /\ DOMAIN <<>> = {}
    BY <1>1, <1>4
  <2>2. QED BY <2>1, WrittenOnly
<1>5. QED BY <1>2, <1>3, <1>4

LEMMA ConfigOnly ==
  ASSUME IsSwitch(sw), ConfigVlan PROVE Only({"CTRL0"})
BY WrittenOnly DEF ConfigVlan

LEMMA UnmanagedIs ==
  ASSUME IsSwitch(sw), NEW seen, NEW x
  PROVE  /\ IsSwitch(Unmanaged(sw, seen, x))
         /\ \A r \in RegisterNames \ {"MODE"} : Unmanaged(sw, seen, x)[r] = sw[r]
         /\ Unmanaged(sw, seen, x)["MODE"] =
              IF mang \/ Lost(x, "clear", "MODE") THEN sw["MODE"] ELSE seen \ {"managed"}
<1>1. "MODE" \in RegisterNames
  BY DEF RegisterNames
<1>2. QED BY <1>1, ExceptIs DEF Unmanaged

(* What a probe leaves of the mode register: the values it goes by, what it *)
(* writes, and what it reads back.                                         *)
LEMMA ForwardingSets ==
  ASSUME IsSwitch(sw), EnableForwarding
  PROVE  \E x \in Losable(ModeFails) :
           /\ Lose(x) /\ Only({"MODE", "PORTS", "IMP"})
           /\ LET seen == Seen(sw, "MODE", x)
                  kept == IF mang \/ Lost(x, "clear", "MODE") THEN sw["MODE"]
                          ELSE seen \ {"managed"}
                  set == IF Lost(x, "write", "MODE") THEN kept
                         ELSE (seen \ {"managed"}) \cup {"forward"}
                  back == IF Lost(x, "back", "MODE") THEN x[3] ELSE set
              IN  /\ sw'["MODE"] = IF "forward" \in seen THEN kept ELSE set
                  /\ bad' = ForwardingFailed(seen, back)
<1> DEFINE opened == IF dev \in {"5398", "5301x"} THEN Ports \ {8} ELSE 0..4
           spared == IF dev = "5301x" THEN {6} ELSE {}
           seen(x) == Seen(sw, "MODE", x)
           s(x) == Unmanaged(sw, seen(x), x)
           v(x) == [MODE |-> (seen(x) \ {"managed"}) \cup {"forward"},
                    PORTS |-> sw["PORTS"] \ (opened \ spared), IMP |-> {}]
           t(x) == Written(s(x), v(x), x)
<1>1. PICK x \in Losable(ModeFails) :
        /\ Lose(x)
        /\ sw' = IF "forward" \in seen(x) THEN s(x) ELSE t(x)
        /\ bad' = ForwardingFailed(seen(x),
                    IF Lost(x, "back", "MODE") THEN x[3] ELSE t(x)["MODE"])
  BY DEF EnableForwarding
<1>2. /\ DOMAIN v(x) = {"MODE", "PORTS", "IMP"}
      /\ v(x)["MODE"] = (seen(x) \ {"managed"}) \cup {"forward"}
      /\ "MODE" \in RegisterNames
  BY DEF RegisterNames
<1>3. /\ IsSwitch(s(x))
      /\ \A r \in RegisterNames \ {"MODE"} : s(x)[r] = sw[r]
      /\ s(x)["MODE"] = IF mang \/ Lost(x, "clear", "MODE") THEN sw["MODE"]
                        ELSE seen(x) \ {"managed"}
  BY UnmanagedIs
<1> HIDE DEF s, v
<1>4. /\ IsSwitch(t(x))
      /\ \A r \in RegisterNames \ {"MODE", "PORTS", "IMP"} : t(x)[r] = s(x)[r]
      /\ t(x)["MODE"] = IF Lost(x, "write", "MODE") THEN s(x)["MODE"] ELSE v(x)["MODE"]
  <2> DEFINE sx == s(x)  vx == v(x)
  <2>1. IsSwitch(sx) /\ DOMAIN vx = {"MODE", "PORTS", "IMP"} /\ t(x) = Written(sx, vx, x)
    BY <1>2, <1>3
  <2> HIDE DEF sx, vx
  <2>2. /\ IsSwitch(t(x))
        /\ \A r \in RegisterNames :
             t(x)[r] = IF r \in DOMAIN vx /\ ~Lost(x, "write", r) THEN vx[r] ELSE sx[r]
    BY <2>1, WrittenIs
  <2>3. QED BY <1>2, <2>1, <2>2 DEF sx, vx
<1> HIDE DEF t
<1>5. Only({"MODE", "PORTS", "IMP"})
  BY <1>1, <1>3, <1>4 DEF Only
<1> HIDE DEF seen
<1>6. WITNESS x \in Losable(ModeFails)
<1>7. QED BY <1>1, <1>2, <1>3, <1>4, <1>5 DEF seen

LEMMA ForcePortOnly ==
  ASSUME IsSwitch(sw), ForceCpuPort
  PROVE  Only({"MIIPO", "IMP", "MGMT_CFG", "MODE", "PORT5", "PORT7"})
<1> DEFINE port == IF FirstCpu = 5 THEN "PORT5" ELSE "PORT7"
           rs == {"MIIPO", "IMP", "MGMT_CFG", "MODE", "PORT5", "PORT7"}
<1>1. PICK x :
        sw' = CASE dev = "5301x" /\ FirstCpu = 8 -> ImpUp(x)
                [] dev = "5301x" /\ FirstCpu # 8 ->
                     [sw EXCEPT ![port] = IF Lost(x, "write", port) THEN @ ELSE {"up"}]
                [] dev = "53125" ->
                     Written(sw, [MIIPO |-> Seen(sw, "MIIPO", x) \cup {"up"}], x)
                [] OTHER -> sw
  BY DEF ForceCpuPort
<1>2. CASE dev = "5301x" /\ FirstCpu = 8
  BY <1>1, <1>2, WrittenOnly DEF ImpUp
<1>3. CASE dev = "5301x" /\ FirstCpu # 8
  <2>1. port \in RegisterNames /\ port \in rs
    BY DEF RegisterNames
  <2> DEFINE bits == IF Lost(x, "write", port) THEN sw[port] ELSE {"up"}
  <2>2. sw' = [sw EXCEPT ![port] = bits]
    BY <1>1, <1>3
  <2> HIDE DEF port, bits
  <2> DEFINE t == [sw EXCEPT ![port] = bits]
  <2>3. IsSwitch(t) /\ \A q \in RegisterNames \ {port} : t[q] = sw[q]
    BY <2>1, ExceptIs
  <2> HIDE DEF t
  <2>4. QED BY <2>1, <2>2, <2>3 DEF Only, t
<1>4. CASE dev = "53125"
  BY <1>1, <1>4, WrittenOnly
<1>5. CASE dev \notin {"5301x", "53125"}
  <2>1. sw' = sw
    BY <1>1, <1>5
  <2>2. QED BY <2>1, SameIsOnly
<1>6. QED BY <1>2, <1>3, <1>4, <1>5

LEMMA DefaultsOnly ==
  ASSUME IsSwitch(sw), DefaultsOff PROVE Only({"BRCM_HDR", "CFP_CTL"})
<1>1. PICK x : sw' = IF dev = "5301x"
                     THEN Written(sw, [BRCM_HDR |-> {}, CFP_CTL |-> {}], x)
                     ELSE sw
  BY DEF DefaultsOff
<1>2. QED BY <1>1, WrittenOnly, SameIsOnly

LEMMA FaEnableOnly ==
  ASSUME IsSwitch(sw), NEW on, NEW x, sw' = FaEnable(sw, on, x)
  PROVE  Only({"BRCM_HDR", "OOBPAUSE"})
BY WrittenOnly DEF FaEnable

LEMMA AuxInitIs ==
  ASSUME IsSwitch(sw), NEW x
  PROVE  /\ IsSwitch(AuxInit(sw, x))
         /\ \A r \in RegisterNames \ {AuxReg, "RULES"} : AuxInit(sw, x)[r] = sw[r]
         /\ AuxPid # None =>
              /\ Lost(x, "write", AuxReg) \/ "up" \in AuxInit(sw, x)[AuxReg]
              /\ AuxInit(sw, x)["RULES"] = sw["RULES"] \cup Filters(x)
<1>1. AuxReg \in RegisterNames /\ "RULES" \in RegisterNames /\ AuxReg # "RULES"
  BY DEF AuxReg, RegisterNames
<1> DEFINE v == [r \in {AuxReg} |-> Seen(sw, r, x) \cup {"up"}]
           w == Written(sw, v, x)
<1>2. DOMAIN v = {AuxReg} /\ "up" \in v[AuxReg]
  OBVIOUS
<1> HIDE DEF v
<1>3. /\ IsSwitch(w)
      /\ \A r \in RegisterNames \ {AuxReg} : w[r] = sw[r]
      /\ Lost(x, "write", AuxReg) \/ "up" \in w[AuxReg]
  BY <1>1, <1>2, WrittenIs
<1>4. AuxPid # None => AuxInit(sw, x) = [w EXCEPT !["RULES"] = w["RULES"] \cup Filters(x)]
  BY DEF AuxInit, v
<1>5. AuxPid = None => AuxInit(sw, x) = sw
  BY DEF AuxInit
<1> HIDE DEF w
<1>6. QED BY <1>1, <1>3, <1>4, <1>5, ExceptIs

LEMMA FaAttachOnly ==
  ASSUME IsSwitch(sw), FaAttach PROVE Only({"PORT5", "PORT7", "RULES"})
<1>1. PICK x : sw' = sw \/ sw' = AuxInit(sw, x)
  BY DEF FaAttach
<1>2. AuxReg \in {"PORT5", "PORT7"}
  BY DEF AuxReg
<1>3. QED BY <1>1, <1>2, AuxInitIs, SameIsOnly DEF Only

LEMMA FaUpOnly ==
  ASSUME IsSwitch(sw), FaUp PROVE Only({"BRCM_HDR", "OOBPAUSE"})
BY FaEnableOnly, SameIsOnly DEF FaUp

LEMMA DetachedOnly ==
  ASSUME IsSwitch(sw), NEW c, Detached(c)
  PROVE  Only({"BRCM_HDR", "OOBPAUSE"})
BY FaEnableOnly, SameIsOnly DEF Detached

LEMMA AuxEnableIs ==
  ASSUME IsSwitch(sw), NEW on, NEW x, sw' = AuxEnable(sw, on, x)
  PROVE  /\ Only({"CFP_CTL"})
         /\ Lost(x, "write", "CFP_CTL") \/ sw'["CFP_CTL"] = IF on THEN {"phys"} ELSE {}
<1> DEFINE v == [CFP_CTL |-> IF on THEN {"phys"} ELSE {}]
<1>1. sw' = Written(sw, v, x) /\ DOMAIN v = {"CFP_CTL"} /\ "CFP_CTL" \in RegisterNames
  BY DEF AuxEnable, RegisterNames
<1>2. v["CFP_CTL"] = IF on THEN {"phys"} ELSE {}
  OBVIOUS
<1> HIDE DEF v
<1>3. QED BY <1>1, <1>2, WrittenIs, WrittenOnly

LEMMA OpenCloseOnly ==
  ASSUME IsSwitch(sw), NEW c, Open(c) \/ Close(c) PROVE Only({"CFP_CTL"})
BY AuxEnableIs, SameIsOnly DEF Open, Close

LEMMA AttachIs ==
  ASSUME IsSwitch(sw), RoboAttach
  PROVE  IsSwitch(sw')
BY PoweredOnIs DEF RoboAttach

LEMMA SwitchKept ==
  IsSwitch(sw) /\ [SwitchNext]_switchVars => IsSwitch(sw')
<1> SUFFICES ASSUME IsSwitch(sw), [SwitchNext]_switchVars PROVE IsSwitch(sw')
  OBVIOUS
<1>1. CASE ProbeStart \/ RegisterDevice \/ Reload \/ UNCHANGED switchVars
  BY <1>1 DEF ProbeStart, RegisterDevice, Reload, switchVars
<1>2. CASE EnableDevice \/ ConfigVlan \/ ForceCpuPort \/ DefaultsOff
  BY <1>2, EnableOnly, ConfigOnly, ForcePortOnly, DefaultsOnly DEF Only
<1>3. CASE EnableForwarding
  BY <1>3, ForwardingSets DEF Only
<1>4. CASE FaAttach \/ FaUp
  BY <1>4, FaAttachOnly, FaUpOnly DEF Only
<1>5. CASE RegisterFails \/ RemoveLast
  BY <1>5, DetachedOnly DEF Only, RegisterFails, RemoveLast
<1>6. CASE \E c \in Cores : Open(c) \/ Close(c)
  BY <1>6, OpenCloseOnly DEF Only
<1>7. QED BY <1>1, <1>2, <1>3, <1>4, <1>5, <1>6, AttachIs DEF SwitchNext

(* An access that was lost stays lost.                                     *)
LEMMA LostOnce ==
  ASSUME NEW A, NEW x \in Losable(A), Lose(x)
  PROVE  lost \in {"nothing", lost'}
BY DEF Losable, Lose

LEMMA LostGrows == SwitchNext => lost \in {"nothing", lost'}
<1>1. CASE RoboAttach \/ EnableDevice \/ ConfigVlan
  BY <1>1, LostOnce DEF RoboAttach, EnableDevice, ConfigVlan
<1>2. CASE EnableForwarding
  BY <1>2, LostOnce DEF EnableForwarding
<1>3. CASE ForceCpuPort
  <2>1. PICK A : \E x \in Losable(A) : Lose(x)
    BY <1>3 DEF ForceCpuPort
  <2>2. QED BY <2>1, LostOnce
<1>4. CASE DefaultsOff \/ FaUp
  BY <1>4, LostOnce DEF DefaultsOff, FaUp
<1>5. CASE FaAttach
  BY <1>5, LostOnce DEF FaAttach
<1>6. CASE ProbeStart \/ RegisterDevice \/ RegisterFails \/ RemoveLast \/ Reload
  BY <1>6 DEF ProbeStart, RegisterDevice, RegisterFails, RemoveLast, Reload
<1>7. CASE \E c \in Cores : Open(c) \/ Close(c)
  BY <1>7, LostOnce DEF Open, Close
<1>8. QED BY <1>1, <1>2, <1>3, <1>4, <1>5, <1>6, <1>7 DEF SwitchNext
-----------------------------------------------------------------------------
(* Units: from the first core with an address on, the map from cores to     *)
(* units stays as it is, and no core gets past ProbeStart before it.        *)
Accelerated == FaValid /\ board.mode = "normal"

ProbeInv ==
    /\ board \in Boards
    /\ found \in 0..(LastCore + 1)
    /\ auxUnit \in (Cores \ {FaCore}) \cup {None}
    /\ DOMAIN unit = Cores /\ unit = [c \in Cores |-> unit[c]]
    /\ step # "idle" => found > 0
    /\ \A c \in Bound : c < found /\ (step # "idle" => c # Core)
    /\ Accelerated /\ auxUnit = None =>
        /\ \A c \in Cores : c < found /\ c # FaCore => board.mac[c] = "none"
        /\ step = "idle" /\ Bound = {}
    /\ board.mode # "bypass" => \A c \in Bound : unit[c] = Core2Unit(c, auxUnit)

LEMMA ProbeInit == SwitchInit => ProbeInv
<1> SUFFICES ASSUME SwitchInit PROVE ProbeInv
  OBVIOUS
<1>1. Bound = {}
  BY DEF SwitchInit, Bound
<1>2. /\ board \in Boards /\ found = 0 /\ auxUnit = None /\ step = "idle"
      /\ unit = [c \in Cores |-> None]
  BY Zenon DEF SwitchInit
<1>3. 0 \in 0..(LastCore + 1) /\ \A c \in Cores : ~(c < 0)
  BY BoardsAssumption DEF Cores
<1>4. QED BY <1>1, <1>2, <1>3 DEF ProbeInv

(* The core being probed. *)
LEMMA CoreIs ==
  ASSUME ProbeInv, step # "idle"
  PROVE  Core \in Cores /\ Core < found
BY BoardsAssumption DEF ProbeInv, Core, Cores

LEMMA ModeOf == ASSUME board \in Boards PROVE Accelerated <=> board.mode = "normal" /\ board.capable
BY BoardsAssumption DEF Accelerated, FaValid, FaOn

(* No core is attached before one with an address was found.               *)
LEMMA StartFindsAddress ==
  ASSUME ProbeInv, ProbeStart, Accelerated, auxUnit' = None
  PROVE  /\ step' = "idle"
         /\ \A c \in Cores : c < found' /\ c # FaCore => board.mac[c] = "none"
<1> DEFINE c == found
<1>1. c \in Cores /\ found' = found + 1 /\ c \in Nat /\ LastCore \in Nat
  BY BoardsAssumption DEF ProbeStart, ProbeInv, Cores
<1>2. auxUnit = None /\ board.capable /\ (c # FaCore => board.mac[c] = "none")
  <2>1. auxUnit' = SetAuxUnit(c) /\ c # None
    BY <1>1 DEF ProbeStart, None
  <2>2. board.capable
    BY ModeOf DEF ProbeInv
  <2>3. QED BY <2>1, <2>2 DEF SetAuxUnit
<1>3. \A d \in Cores : d < found /\ d # FaCore => board.mac[d] = "none"
  BY <1>2 DEF ProbeInv
<1>4. \A d \in Cores : d < found' => d < found \/ d = c
  BY <1>1 DEF Cores
<1>5. \A d \in Cores : d < found' /\ d # FaCore => board.mac[d] = "none"
  BY <1>2, <1>3, <1>4
<1>6. step' = "idle"
  <2> DEFINE u == Core2Unit(c, None)
  <2>1. board.mac[0] = "none"
    BY <1>1, <1>5, BoardsAssumption DEF Cores, FaCore
  <2>2. u = IF c = FaCore THEN 0 ELSE IF c = 0 THEN FaCore ELSE c
    BY DEF Core2Unit, AuxCore, Accelerated
  <2>3. GetMacaddr(u, None) = "none"
    <3>1. CASE c = FaCore
      <4>1. u = 0 /\ Unit2Core(u, None) = FaCore /\ AuxCore(None) = 0
        BY <2>2, <3>1 DEF Unit2Core, AuxCore
      <4>2. QED BY <2>1, <4>1 DEF GetMacaddr, FaCore
    <3>2. CASE c = 0
      <4>1. u = FaCore /\ Unit2Core(u, None) = 0 /\ AuxCore(None) = 0
        BY <2>2, <3>2 DEF Unit2Core, AuxCore, FaCore
      <4>2. QED BY <2>1, <4>1 DEF GetMacaddr, Accelerated
    <3>3. CASE c # FaCore /\ c # 0
      <4>1. u = c /\ Unit2Core(u, None) = c /\ AuxCore(None) = 0
        BY <2>2, <3>3 DEF Unit2Core, AuxCore
      <4>2. QED BY <1>2, <3>3, <4>1 DEF GetMacaddr
    <3>4. QED BY <3>1, <3>2, <3>3
  <2>4. step' = IF GetMacaddr(u, None) = "ok" THEN "attach" ELSE "idle"
    BY DEF ProbeStart
  <2>5. QED BY <2>3, <2>4
<1>7. QED BY <1>5, <1>6

LEMMA StartKeepsUnits == ASSUME ProbeInv, ProbeStart PROVE ProbeInv'
<1>1. found \in Cores /\ found' = found + 1 /\ found \in Nat /\ LastCore \in Nat
  BY BoardsAssumption DEF ProbeStart, ProbeInv, Cores
<1>2. found' \in 0..(LastCore + 1) /\ found' > 0 /\ Core' = found
  BY <1>1 DEF Cores, Core
<1>3. UNCHANGED <<board, unit, Bound, Accelerated, FaValid>>
  BY DEF ProbeStart, devices, Bound, Accelerated, FaValid, FaOn
<1>4. auxUnit' \in (Cores \ {FaCore}) \cup {None}
  BY <1>1 DEF ProbeStart, SetAuxUnit, ProbeInv
<1>5. \A c \in Bound : c < found' /\ c # found
  <2>1. \A c \in Bound : c \in Cores /\ c < found
    BY DEF ProbeInv, Bound
  <2>2. QED BY <1>1, <2>1 DEF Cores
<1>6. ASSUME board.mode # "bypass", NEW c \in Bound
      PROVE  unit[c] = Core2Unit(c, auxUnit')
  <2>1. unit[c] = Core2Unit(c, auxUnit)
    BY <1>6 DEF ProbeInv
  <2>2. CASE FaValid
    <3>1. Accelerated
      BY <1>6, <2>2, BoardsAssumption DEF Accelerated, FaValid, FaOn, ProbeInv
    <3>2. auxUnit # None
      BY <1>6, <3>1 DEF ProbeInv
    <3>3. auxUnit' = auxUnit
      BY <3>2 DEF ProbeStart, SetAuxUnit
    <3>4. QED BY <2>1, <3>3
  <2>3. CASE ~FaValid
    BY <2>1, <2>3 DEF Core2Unit
  <2>4. QED BY <2>2, <2>3
<1>7. Accelerated /\ auxUnit' = None =>
        /\ \A c \in Cores : c < found' /\ c # FaCore => board.mac[c] = "none"
        /\ step' = "idle" /\ Bound = {}
  <2>1. auxUnit' = None => auxUnit = None
    BY <1>1 DEF ProbeStart, SetAuxUnit, None
  <2>2. Accelerated /\ auxUnit = None => Bound = {}
    BY DEF ProbeInv
  <2>3. QED BY <2>1, <2>2, StartFindsAddress
<1>8. \A c : Core2Unit(c, auxUnit)' = Core2Unit(c, auxUnit')
  BY <1>3 DEF Core2Unit, AuxCore
<1>9. /\ board' \in Boards /\ DOMAIN unit' = Cores /\ unit' = [c \in Cores |-> unit'[c]]
      /\ \A c \in Bound' : c < found' /\ c # Core'
  BY <1>2, <1>3, <1>5 DEF ProbeInv
<1>10. board'.mode # "bypass" => \A c \in Bound' : unit'[c] = Core2Unit(c, auxUnit)'
  BY <1>3, <1>6, <1>8
<1>11. QED BY <1>2, <1>3, <1>4, <1>7, <1>9, <1>10 DEF ProbeInv

LEMMA RegisterKeepsUnits == ASSUME ProbeInv, RegisterDevice PROVE ProbeInv'
<1>1. Core \in Cores /\ Core < found
  BY CoreIs DEF RegisterDevice
<1>2. /\ unit' = [unit EXCEPT ![Core] = Core2Unit(Core, auxUnit)]
      /\ UNCHANGED <<board, found, auxUnit>> /\ step' = "idle"
  BY DEF RegisterDevice, statics
<1>3. /\ DOMAIN unit' = Cores /\ unit' = [c \in Cores |-> unit'[c]]
      /\ unit'[Core] = Core2Unit(Core, auxUnit)
      /\ \A c \in Cores \ {Core} : unit'[c] = unit[c]
  BY <1>1, <1>2 DEF ProbeInv
<1>4. Bound' \subseteq Bound \cup {Core}
  BY <1>3 DEF Bound
<1>5. \A c \in Bound' : c < found
  BY <1>1, <1>4 DEF ProbeInv
<1>6. Core2Unit(Core, auxUnit)' = Core2Unit(Core, auxUnit) /\ (Accelerated' <=> Accelerated)
  BY <1>2 DEF Core2Unit, Accelerated, FaValid, FaOn, AuxCore, Core
<1>7. ~(Accelerated /\ auxUnit = None)
  BY DEF ProbeInv, RegisterDevice
<1>8. ASSUME board.mode # "bypass", NEW c \in Bound'
      PROVE  unit'[c] = Core2Unit(c, auxUnit)
  BY <1>3, <1>4, <1>8 DEF ProbeInv, Bound
<1>9. \A c : Core2Unit(c, auxUnit)' = Core2Unit(c, auxUnit)
  BY <1>2 DEF Core2Unit, FaValid, FaOn, AuxCore
<1>10. QED BY <1>2, <1>3, <1>5, <1>6, <1>7, <1>8, <1>9 DEF ProbeInv

LEMMA RemoveKeepsUnits == ASSUME ProbeInv, RemoveLast PROVE ProbeInv'
<1> DEFINE last == Max(Bound)
<1>1. unit' = [unit EXCEPT ![last] = None] /\ UNCHANGED <<board, found, auxUnit, step>>
  BY DEF RemoveLast, statics, probing
<1> HIDE DEF last
<1>2. /\ DOMAIN unit' = Cores /\ unit' = [c \in Cores |-> unit'[c]]
      /\ \A c \in Cores : unit'[c] = unit[c] \/ unit'[c] = None
  BY <1>1 DEF ProbeInv
<1>3. Bound' \subseteq Bound /\ \A c \in Bound' : unit'[c] = unit[c]
  BY <1>2 DEF Bound
<1>4. /\ \A c : Core2Unit(c, auxUnit)' = Core2Unit(c, auxUnit)
      /\ (Accelerated' <=> Accelerated)
  BY <1>1 DEF Core2Unit, Accelerated, FaValid, FaOn, AuxCore
<1>5. step = "idle"
  BY DEF RemoveLast
<1>6. QED BY <1>1, <1>2, <1>3, <1>4, <1>5 DEF ProbeInv

LEMMA ReloadKeepsUnits == ASSUME ProbeInv, Reload PROVE ProbeInv'
<1>1. found' = 0 /\ auxUnit' = None /\ Bound' = {} /\ UNCHANGED <<board, unit, step>>
  BY DEF Reload, Bound, probing
<1>2. 0 \in 0..(LastCore + 1) /\ \A c \in Cores : ~(c < 0)
  BY BoardsAssumption DEF Cores
<1>3. step = "idle"
  BY DEF Reload
<1>4. QED BY <1>1, <1>2, <1>3 DEF ProbeInv

(* The steps between: a probe goes on, or ends, without a device.          *)
LEMMA OthersKeepUnits ==
  ASSUME ProbeInv, UNCHANGED <<board, found, auxUnit, unit>>,
         step = "idle" => step' = "idle"
  PROVE  ProbeInv'
<1>1. /\ \A c : Core2Unit(c, auxUnit)' = Core2Unit(c, auxUnit)
      /\ (Accelerated' <=> Accelerated) /\ Bound' = Bound /\ Core' = Core
  BY DEF Core2Unit, Accelerated, FaValid, FaOn, AuxCore, Bound, Core
<1>2. QED BY <1>1 DEF ProbeInv

LEMMA ProbeKept == ProbeInv /\ [SwitchNext]_switchVars => ProbeInv'
<1> SUFFICES ASSUME ProbeInv, [SwitchNext]_switchVars PROVE ProbeInv'
  OBVIOUS
<1>1. CASE RoboAttach \/ EnableDevice \/ ConfigVlan \/ EnableForwarding
           \/ ForceCpuPort \/ DefaultsOff
  BY <1>1, OthersKeepUnits DEF RoboAttach, EnableDevice, ConfigVlan, EnableForwarding,
     ForceCpuPort, DefaultsOff, ProbeFails, statics, devices
<1>2. CASE FaAttach \/ FaUp \/ RegisterFails \/ UNCHANGED switchVars
  BY <1>2, OthersKeepUnits DEF FaAttach, FaUp, RegisterFails, ProbeFails, switchVars,
     statics, probing, devices
<1>3. CASE \E c \in Cores : Open(c) \/ Close(c)
  BY <1>3, OthersKeepUnits DEF Open, Close, statics, probing
<1>4. QED BY <1>1, <1>2, <1>3, StartKeepsUnits, RegisterKeepsUnits, RemoveKeepsUnits,
     ReloadKeepsUnits DEF SwitchNext

LEMMA UnitsOneToOne ==
  ASSUME NEW a \in (Cores \ {FaCore}) \cup {None}, NEW c \in Cores, NEW d \in Cores, c # d
  PROVE  Core2Unit(c, a) # Core2Unit(d, a)
BY BoardsAssumption DEF Core2Unit, AuxCore, FaCore, Cores, None

(* But in bypass mode, two devices never answer to the same unit, whichever*)
(* cores have an address, for any number of cores and loads of the module. *)
THEOREM DevicesApart == SwitchSpec => []UnitsDistinct
<1>1. ProbeInv => UnitsDistinct
  BY UnitsOneToOne DEF ProbeInv, UnitsDistinct, Bound
<1>2. QED BY <1>1, ProbeInit, ProbeKept, PTL DEF SwitchSpec
-----------------------------------------------------------------------------
(* The mode register.                                                      *)
LEMMA ForwardingMode ==
  ASSUME IsSwitch(sw), board \in Boards, EnableForwarding, lost' \notin {"read", "back"}
  PROVE  \/ /\ "forward" \in sw["MODE"] /\ "forward" \in sw'["MODE"] /\ ~bad'
            /\ mang => sw'["MODE"] = sw["MODE"]
         \/ /\ "forward" \notin sw["MODE"]
            /\ bad' <=> "forward" \notin sw'["MODE"]
            /\ lost' = "nothing" => "forward" \in sw'["MODE"]
<1> DEFINE seen(x) == Seen(sw, "MODE", x)
           kept(x) == IF mang \/ Lost(x, "clear", "MODE") THEN sw["MODE"]
                      ELSE seen(x) \ {"managed"}
           set(x) == IF Lost(x, "write", "MODE") THEN kept(x)
                     ELSE (seen(x) \ {"managed"}) \cup {"forward"}
           back(x) == IF Lost(x, "back", "MODE") THEN x[3] ELSE set(x)
<1>1. PICK x \in Losable(ModeFails) :
        /\ Lose(x)
        /\ sw'["MODE"] = IF "forward" \in seen(x) THEN kept(x) ELSE set(x)
        /\ bad' = ForwardingFailed(seen(x), back(x))
  BY ForwardingSets
<1>2. \A y \in ModeFails : y[1] \in {"read", "back", "write", "clear"}
  BY KindsOfReads, KindsOfWrites, KindsOfLists DEF ModeFails
<1>3. \/ x = Nothing /\ lost' = lost
      \/ lost' = x[1] /\ x[1] \in {"write", "clear"}
  BY <1>1, <1>2, LoseCases
<1>4. ~Lost(x, "read", "MODE") /\ ~Lost(x, "back", "MODE")
  BY <1>3, NothingLost DEF Lost
<1>5. seen(x) = sw["MODE"] /\ back(x) = set(x)
  BY <1>4 DEF Seen
<1>6. lost' = "nothing" => ~Lost(x, "write", "MODE")
  BY <1>3, NothingLost DEF Lost
<1> HIDE DEF back, seen
<1>7. CASE "forward" \in sw["MODE"]
  BY <1>1, <1>5, <1>7 DEF ForwardingFailed
<1>8. CASE "forward" \notin sw["MODE"]
  <2>1. sw'["MODE"] = set(x) /\ (bad' <=> "forward" \notin set(x))
    BY <1>1, <1>5, <1>8 DEF ForwardingFailed
  <2>2. lost' = "nothing" => "forward" \in set(x)
    BY <1>6
  <2>3. QED BY <1>8, <2>1, <2>2
<1>9. QED BY <1>7, <1>8

LEMMA ForcePortMode ==
  ASSUME IsSwitch(sw), board \in Boards, ForceCpuPort, lost' # "read"
  PROVE  sw'["MODE"] \in {sw["MODE"], sw["MODE"] \cup {"managed"}}
<1> DEFINE port == IF FirstCpu = 5 THEN "PORT5" ELSE "PORT7"
           regs == CASE dev = "5301x" /\ FirstCpu = 8 ->
                          {"MIIPO", "IMP", "MGMT_CFG", "MODE", "PORT5", "PORT7"}
                    [] dev = "5301x" /\ FirstCpu # 8 -> {port}
                    [] dev = "53125" -> {"MIIPO"}
                    [] OTHER -> {}
<1>1. PICK x \in Losable(ReadsFail(regs) \cup WritesFail(regs)) :
        /\ Lose(x)
        /\ sw' = CASE dev = "5301x" /\ FirstCpu = 8 -> ImpUp(x)
                   [] dev = "5301x" /\ FirstCpu # 8 ->
                        [sw EXCEPT ![port] = IF Lost(x, "write", port) THEN @ ELSE {"up"}]
                   [] dev = "53125" ->
                        Written(sw, [MIIPO |-> Seen(sw, "MIIPO", x) \cup {"up"}], x)
                   [] OTHER -> sw
  BY DEF ForceCpuPort
<1>2. ~Lost(x, "read", "MODE")
  <2> HIDE DEF regs
  <2>1. \A y \in ReadsFail(regs) \cup WritesFail(regs) : y[1] \in {"read", "write"}
    BY KindsOfLists
  <2>2. x = Nothing \/ lost' = x[1]
    BY <1>1, <2>1, LoseCases
  <2>3. QED BY <2>2, NothingLost DEF Lost
<1>3. "MODE" \in RegisterNames
  BY DEF RegisterNames
<1>4. CASE dev = "5301x" /\ FirstCpu = 8
  <2>1. sw' = ImpUp(x) /\ Seen(sw, "MODE", x) = sw["MODE"]
    BY <1>1, <1>2, <1>4 DEF Seen
  <2> DEFINE v == [MIIPO |-> Seen(sw, "MIIPO", x) \cup {"up"},
                   IMP |-> Seen(sw, "IMP", x) \cup {"rx"},
                   MGMT_CFG |-> Seen(sw, "MGMT_CFG", x) \cup {"imp0"},
                   MODE |-> Seen(sw, "MODE", x) \cup {"managed"},
                   PORT5 |-> Seen(sw, "PORT5", x) \ {"up"},
                   PORT7 |-> Seen(sw, "PORT7", x) \ {"up"}]
  <2>2. ImpUp(x) = Written(sw, v, x) /\ v["MODE"] = Seen(sw, "MODE", x) \cup {"managed"}
    BY DEF ImpUp
  <2> HIDE DEF v
  <2>3. ImpUp(x)["MODE"] \in {sw["MODE"], v["MODE"]}
    BY <1>3, <2>2, WrittenIs
  <2>4. QED BY <2>1, <2>2, <2>3
<1>5. CASE dev = "5301x" /\ FirstCpu # 8
  BY <1>1, <1>5, <1>3 DEF IsSwitch
<1>6. CASE dev = "53125"
  <2> DEFINE v == [MIIPO |-> Seen(sw, "MIIPO", x) \cup {"up"}]
  <2>1. sw' = Written(sw, v, x) /\ "MODE" \notin DOMAIN v
    BY <1>1, <1>6
  <2> HIDE DEF v
  <2>2. QED BY <1>3, <2>1, WrittenIs
<1>7. CASE dev \notin {"5301x", "53125"}
  BY <1>1, <1>7
<1>8. QED BY <1>4, <1>5, <1>6, <1>7

(* No step but a reset, EnableForwarding and ForceCpuPort touches the mode. *)
LEMMA OthersKeepMode ==
  ASSUME IsSwitch(sw), SwitchNext \/ UNCHANGED switchVars,
         ~RoboAttach, ~EnableForwarding, ~ForceCpuPort
  PROVE  sw'["MODE"] = sw["MODE"]
<1>0. "MODE" \in RegisterNames
  BY DEF RegisterNames
<1>1. CASE ProbeStart \/ RegisterDevice \/ Reload \/ UNCHANGED switchVars
  BY <1>1 DEF ProbeStart, RegisterDevice, Reload, switchVars
<1>2. CASE EnableDevice \/ ConfigVlan \/ DefaultsOff
  BY <1>0, <1>2, EnableOnly, ConfigOnly, DefaultsOnly DEF Only
<1>3. CASE FaAttach \/ FaUp
  BY <1>0, <1>3, FaAttachOnly, FaUpOnly DEF Only
<1>4. CASE RegisterFails \/ RemoveLast
  BY <1>0, <1>4, DetachedOnly DEF Only, RegisterFails, RemoveLast
<1>5. CASE \E c \in Cores : Open(c) \/ Close(c)
  BY <1>0, <1>5, OpenCloseOnly DEF Only
<1>6. QED BY <1>1, <1>2, <1>3, <1>4, <1>5 DEF SwitchNext

(* The registers and the units together.                                   *)
BaseInv == ProbeInv /\ IsSwitch(sw)

LEMMA BaseInit == SwitchInit => BaseInv
<1> SUFFICES ASSUME SwitchInit PROVE IsSwitch(sw)
  BY ProbeInit DEF BaseInv
<1>1. sw \in {PoweredOn, [PoweredOn EXCEPT !["MODE"] = Bits["MODE"]]}
  BY Zenon DEF SwitchInit
<1>2. "MODE" \in RegisterNames
  BY DEF RegisterNames
<1>3. QED BY <1>1, <1>2, PoweredOnIs, ExceptIs

LEMMA BaseStep == BaseInv /\ [SwitchNext]_switchVars => BaseInv'
<1>1. IsSwitch(sw) /\ [SwitchNext]_switchVars => IsSwitch(sw')
  BY SwitchKept
<1>2. IsSwitch(sw)' <=> IsSwitch(sw')
  BY DEF IsSwitch
<1>3. QED BY <1>1, <1>2, ProbeKept DEF BaseInv

(* Once a probe has put a forwarding switch into managed mode, no later     *)
(* probe takes it out again but by a reset.                                *)
THEOREM StaysManaged == SwitchSpec => ManagedKept
<1> DEFINE A == (mang /\ mang' /\ sw["MODE"] = Bits["MODE"] /\ lost' = "nothing"
                   /\ step # "attach")
                => "managed" \in sw'["MODE"]
<1>1. ASSUME BaseInv, SwitchNext, mang, sw["MODE"] = Bits["MODE"],
             lost' = "nothing", step # "attach"
      PROVE  "managed" \in sw'["MODE"]
  <2>1. IsSwitch(sw) /\ board \in Boards /\ ~RoboAttach
    BY <1>1 DEF BaseInv, ProbeInv, RoboAttach
  <2>2. sw["MODE"] = {"forward", "managed"}
    BY <1>1 DEF Bits
  <2>3. CASE EnableForwarding
    BY <1>1, <2>1, <2>2, <2>3, ForwardingMode
  <2>4. CASE ForceCpuPort
    BY <1>1, <2>1, <2>2, <2>4, ForcePortMode
  <2>5. QED BY <1>1, <2>1, <2>2, <2>3, <2>4, OthersKeepMode
<1>2. BaseInv /\ [SwitchNext]_switchVars => [A]_switchVars
  BY <1>1
<1>3. QED BY <1>2, BaseInit, BaseStep, PTL DEF SwitchSpec, ManagedKept
-----------------------------------------------------------------------------
(* Forwarding: a probe that is past EnableForwarding and has not given up   *)
(* has it on, and so has every switch with a device that is not reset.      *)
Answered == lost \notin {"read", "back"} /\ (ResetByProbes => lost = "nothing")
Enabled == step \in {"cpu", "defaults", "fa", "up", "register"}

ForwardInv ==
    /\ Bound # {} \/ step \notin {"idle", "attach"} =>
         (board.bus = "spi" => board.pins)
    /\ step \in {"fa", "up", "register"} => ~bad
    /\ lost = "nothing" /\ Enabled => ~bad
    /\ Answered /\ Enabled /\ ~bad => "forward" \in sw["MODE"]
    /\ Answered /\ Bound # {} /\ (ResetByProbes => step = "idle") =>
         "forward" \in sw["MODE"]

LEMMA ForwardInit == SwitchInit => ForwardInv
BY Zenon DEF SwitchInit, ForwardInv, Enabled, Bound

(* Answered' says the same of the accesses so far, and of this step's.     *)
LEMMA AnsweredBefore ==
  ASSUME UNCHANGED board, lost \in {"nothing", lost'}, Answered'
  PROVE  Answered /\ (ResetByProbes' <=> ResetByProbes)
BY DEF Answered, ResetByProbes

LEMMA AttachForwards ==
  ASSUME BaseInv, ForwardInv, RoboAttach
  PROVE  ForwardInv'
<1>1. IsSwitch(sw) /\ board \in Boards /\ UNCHANGED <<board, Bound, bad>>
  BY DEF BaseInv, ProbeInv, RoboAttach, devices, Bound
<1>2. PICK x \in Losable(ReadFails("id", "MODE", {{}})) :
        /\ step = "attach" /\ Lose(x)
        /\ IF Reachable(x) THEN step' = "enable" ELSE step' = "idle"
        /\ sw' = IF Resets(x) THEN PoweredOn ELSE sw
  BY DEF RoboAttach, ProbeFails
<1>3. \A y \in ReadFails("id", "MODE", {{}}) : y[1] = "id"
  BY <1>1, KindsOfReads
<1>4. \/ x = Nothing /\ lost' = lost
      \/ x # Nothing /\ lost = "nothing" /\ lost' = "id"
  <2>1. Nothing[1] # "id"
    BY DEF Nothing
  <2>2. QED BY <1>2, <1>3, <2>1, LoseCases
<1>5. board.bus \in {"srab", "mii", "spi"}
  BY <1>1, BoardsAssumption
<1>6. Reachable(x) => (board.bus = "spi" => board.pins)
  BY DEF Reachable
<1>7. ASSUME Answered', Bound # {}, ResetByProbes => step' = "idle"
      PROVE  "forward" \in sw'["MODE"]
  <2>1. Answered /\ (ResetByProbes' <=> ResetByProbes)
    BY <1>1, <1>4, <1>7, AnsweredBefore
  <2>2. CASE ResetByProbes
    <3>1. lost' = "nothing" /\ x = Nothing
      BY <1>4, <1>7, <2>1, <2>2 DEF Answered
    <3>2. board.bus = "spi" => board.pins
      BY <1>7 DEF ForwardInv
    <3>3. Reachable(x)
      BY <1>5, <3>1, <3>2 DEF Reachable
    <3>4. QED BY <1>2, <1>7, <2>2, <3>3
  <2>3. CASE ~ResetByProbes
    <3>1. ~Resets(x)
      BY <2>3 DEF Resets, Devid, ResetByProbes, SelfReset
    <3>2. QED BY <1>2, <1>7, <2>1, <2>3, <3>1 DEF ForwardInv
  <2>4. QED BY <2>2, <2>3
<1>8. step' \in {"idle", "enable"} /\ ~Enabled'
  BY <1>2 DEF Enabled
<1>9. Bound' # {} \/ step' \notin {"idle", "attach"} =>
         (board'.bus = "spi" => board'.pins)
  BY <1>1, <1>2, <1>6 DEF ForwardInv
<1>10. ResetByProbes' <=> ResetByProbes
  BY <1>1 DEF ResetByProbes
<1>11. Answered' /\ Bound' # {} /\ (ResetByProbes' => step' = "idle") =>
         "forward" \in sw'["MODE"]
  BY <1>1, <1>7, <1>10
<1>12. QED BY <1>8, <1>9, <1>11 DEF ForwardInv

(* A later step of a probe, or one of a device, that leaves the mode alone. *)
LEMMA KeepsForwarding ==
  ASSUME ForwardInv, UNCHANGED <<board, bad>>, sw'["MODE"] = sw["MODE"],
         lost \in {"nothing", lost'},
         Bound' # {} => Bound # {} \/ step = "register",
         step' \notin {"idle", "attach"} => step \notin {"idle", "attach"},
         step' \in {"fa", "up", "register"} =>
           step \in {"fa", "up", "register"} \/ (step = "defaults" /\ ~bad),
         Enabled' => Enabled,
         step' = "idle" => Enabled \/ step = "idle"
  PROVE  ForwardInv'
<1>1. Answered' => Answered
  BY AnsweredBefore
<1>2. ResetByProbes' <=> ResetByProbes
  BY DEF ResetByProbes
<1>3. Bound' # {} \/ step' \notin {"idle", "attach"} =>
        (board'.bus = "spi" => board'.pins)
  BY DEF ForwardInv
<1>4. step' \in {"fa", "up", "register"} => ~bad'
  BY DEF ForwardInv
<1>5. lost' = "nothing" /\ Enabled' => ~bad'
  BY DEF ForwardInv
<1>6. Answered' /\ Enabled' /\ ~bad' => "forward" \in sw'["MODE"]
  BY <1>1 DEF ForwardInv
<1>7. ASSUME Answered', Bound' # {}, ResetByProbes' => step' = "idle"
      PROVE  "forward" \in sw'["MODE"]
  <2>1. Answered
    BY <1>1, <1>7
  <2>2. CASE Enabled /\ ~bad
    BY <2>1, <2>2 DEF ForwardInv
  <2>3. CASE Enabled /\ bad
    <3>1. lost # "nothing" /\ ~ResetByProbes
      BY <2>1, <2>3 DEF ForwardInv, Answered
    <3>2. Bound # {}
      BY <1>7, <2>3 DEF ForwardInv
    <3>3. QED BY <2>1, <3>1, <3>2 DEF ForwardInv
  <2>4. CASE ~Enabled
    <3>1. Bound # {} /\ (ResetByProbes => step = "idle")
      BY <1>2, <1>7, <2>4 DEF Enabled
    <3>2. QED BY <2>1, <3>1 DEF ForwardInv
  <2>5. QED BY <2>2, <2>3, <2>4
<1>8. QED BY <1>3, <1>4, <1>5, <1>6, <1>7 DEF ForwardInv

(* bcm_robo_enable_device gives up only when an access was lost.           *)
LEMMA LoseKinds ==
  ASSUME NEW A, NEW x \in Losable(A), Lose(x), NEW K,
         \A y \in A : y[1] \in K, "nothing" \notin K
  PROVE  (x = Nothing /\ lost' = lost) \/ (lost = "nothing" /\ lost' \in K)
<1>1. CASE x = Nothing
  BY <1>1 DEF Lose
<1>2. CASE x # Nothing
  <2>1. x \in A /\ lost = "nothing"
    BY <1>2 DEF Losable
  <2>2. lost' = x[1] /\ x[1] \in K
    BY <1>2, <2>1 DEF Lose
  <2>3. QED BY <2>1, <2>2
<1>3. QED BY <1>1, <1>2

LEMMA EnableForwards ==
  ASSUME BaseInv, ForwardInv, EnableDevice
  PROVE  ForwardInv'
<1>1. /\ IsSwitch(sw) /\ board \in Boards /\ UNCHANGED <<board, Bound, bad>>
      /\ step = "enable" /\ step' \in {"idle", "vlan"}
  BY DEF BaseInv, ProbeInv, EnableDevice, devices, Bound, ProbeFails
<1>2. sw'["MODE"] = sw["MODE"]
  BY <1>1, EnableOnly DEF Only, RegisterNames
<1> DEFINE v(x) == IF dev = "5398" THEN [PORTS |-> sw["PORTS"] \cup {6, 7}]
                   ELSE IF dev = "5325" /\ "rvmii" \notin Seen(sw, "MIIPO", x)
                   THEN [MIIPO |-> Seen(sw, "MIIPO", x) \cup {"rvmii"}]
                   ELSE <<>>
           A == (IF dev = "5325"
                 THEN ReadFails("read", "MIIPO", SUBSET Bits["MIIPO"])
                        \cup WritesFail({"MIIPO"})
                 ELSE {})
                \cup (IF dev = "5398" THEN WritesFail({"PORTS"}) ELSE {})
<1>3. PICK x \in Losable(A) :
        /\ Lose(x)
        /\ IF dev = "5325" /\ "rvmii" \notin Seen(sw, "MIIPO", x)
                                             \cup Written(sw, v(x), x)["MIIPO"]
           THEN step' = "idle" ELSE step' = "vlan"
  BY DEF EnableDevice, ProbeFails
<1>4. \A y \in A : y[1] \in {"read", "write"}
  BY <1>1, KindsOfReads, KindsOfLists
<1> HIDE DEF A
<1>5. (x = Nothing /\ lost' = lost) \/ (lost = "nothing" /\ lost' \in {"read", "write"})
  <2> HIDE DEF v
  <2>1. x \in Losable(A) /\ Lose(x)
    BY <1>3
  <2>2. QED BY <1>4, <2>1, LoseKinds
<1>6. lost' = "nothing" => step' = "vlan"
  <2> SUFFICES ASSUME lost' = "nothing", dev = "5325", "rvmii" \notin Seen(sw, "MIIPO", x)
               PROVE  "rvmii" \in Written(sw, v(x), x)["MIIPO"]
    BY <1>3
  <2>1. x = Nothing /\ ~Lost(x, "write", "MIIPO")
    BY <1>5, NothingLost
  <2> DEFINE w == [MIIPO |-> Seen(sw, "MIIPO", x) \cup {"rvmii"}]
  <2>2. v(x) = w /\ "MIIPO" \in DOMAIN w /\ "rvmii" \in w["MIIPO"]
    OBVIOUS
  <2> HIDE DEF v, w
  <2>3. "MIIPO" \in RegisterNames
    BY DEF RegisterNames
  <2>4. Written(sw, w, x)["MIIPO"] = w["MIIPO"]
    BY <1>1, <2>1, <2>2, <2>3, WrittenIs
  <2>5. QED BY <2>2, <2>4
<1>7. ASSUME Answered', Bound # {}, ResetByProbes => step' = "idle"
      PROVE  "forward" \in sw'["MODE"]
  <2>1. Answered /\ (ResetByProbes' <=> ResetByProbes)
    BY <1>1, <1>5, <1>7, AnsweredBefore
  <2>2. ~ResetByProbes
    BY <1>6, <1>7, <2>1 DEF Answered
  <2>3. QED BY <1>2, <1>7, <2>1, <2>2 DEF ForwardInv
<1>8. ~Enabled'
  BY <1>1 DEF Enabled
<1>9. ResetByProbes' <=> ResetByProbes
  BY <1>1 DEF ResetByProbes
<1>10. board'.bus = "spi" => board'.pins
  BY <1>1 DEF ForwardInv
<1>11. QED BY <1>1, <1>7, <1>8, <1>9, <1>10 DEF ForwardInv, Enabled

LEMMA EnablingForwards ==
  ASSUME BaseInv, ForwardInv, EnableForwarding
  PROVE  ForwardInv'
<1>1. /\ IsSwitch(sw) /\ board \in Boards /\ UNCHANGED <<board, Bound>>
      /\ step = "forward" /\ step' = "cpu"
  BY DEF BaseInv, ProbeInv, EnableForwarding, devices, Bound
<1>4. lost \in {"nothing", lost'}
  BY LostGrows DEF SwitchNext
<1>5. board'.bus = "spi" => board'.pins
  BY <1>1 DEF ForwardInv
<1>6. lost' = "nothing" => ~bad'
  BY <1>1, ForwardingMode
<1>7. Answered' /\ ~bad' => "forward" \in sw'["MODE"]
  BY <1>1, ForwardingMode DEF Answered
<1>8. ASSUME Answered', Bound # {}, ~ResetByProbes PROVE "forward" \in sw'["MODE"]
  <2>1. "forward" \in sw["MODE"]
    BY <1>1, <1>4, <1>8, AnsweredBefore DEF ForwardInv
  <2>2. QED BY <1>1, <1>8, <2>1, ForwardingMode DEF Answered
<1>9. ResetByProbes' <=> ResetByProbes
  BY <1>1 DEF ResetByProbes
<1>10. QED BY <1>1, <1>5, <1>6, <1>7, <1>8, <1>9 DEF ForwardInv

LEMMA ForcingForwards ==
  ASSUME BaseInv, ForwardInv, ForceCpuPort
  PROVE  ForwardInv'
<1>1. /\ IsSwitch(sw) /\ board \in Boards /\ UNCHANGED <<board, Bound, bad>>
      /\ step = "cpu" /\ step' = "defaults"
  BY DEF BaseInv, ProbeInv, ForceCpuPort, devices, Bound
<1>2. lost \in {"nothing", lost'}
  BY LostGrows DEF SwitchNext
<1>3. "forward" \in sw["MODE"] /\ lost' # "read" => "forward" \in sw'["MODE"]
  BY <1>1, ForcePortMode
<1>4. Answered' => Answered
  BY <1>1, <1>2, AnsweredBefore
<1>5. ResetByProbes' <=> ResetByProbes
  BY <1>1 DEF ResetByProbes
<1>6. lost' = "nothing" => ~bad'
  BY <1>1, <1>2 DEF ForwardInv, Enabled
<1>7. Answered' /\ ~bad' => "forward" \in sw'["MODE"]
  BY <1>1, <1>3, <1>4 DEF ForwardInv, Enabled, Answered
<1>8. Answered' /\ Bound # {} /\ ~ResetByProbes => "forward" \in sw'["MODE"]
  BY <1>3, <1>4 DEF ForwardInv, Answered
<1>9. board'.bus = "spi" => board'.pins
  BY <1>1 DEF ForwardInv
<1>10. QED BY <1>1, <1>5, <1>6, <1>7, <1>8, <1>9 DEF ForwardInv

LEMMA StartForwards ==
  ASSUME ForwardInv, ProbeStart
  PROVE  ForwardInv'
<1>1. /\ UNCHANGED <<board, Bound, sw, lost>> /\ ~bad'
      /\ step = "idle" /\ step' \in {"idle", "attach"}
  BY DEF ProbeStart, devices, Bound
<1>2. (Answered' <=> Answered) /\ (ResetByProbes' <=> ResetByProbes)
  BY <1>1 DEF Answered, ResetByProbes
<1>3. QED BY <1>1, <1>2 DEF ForwardInv, Enabled

LEMMA ForwardStep == BaseInv /\ ForwardInv /\ [SwitchNext]_switchVars => ForwardInv'
<1> SUFFICES ASSUME BaseInv, ForwardInv, [SwitchNext]_switchVars PROVE ForwardInv'
  OBVIOUS
<1>1. IsSwitch(sw) /\ board \in Boards
  BY DEF BaseInv, ProbeInv
<1>2. CASE ConfigVlan \/ DefaultsOff \/ FaAttach \/ FaUp
  <2>1. sw'["MODE"] = sw["MODE"]
    <3>1. "MODE" \in RegisterNames
      BY DEF RegisterNames
    <3>2. QED BY <1>1, <1>2, <3>1, ConfigOnly, DefaultsOnly, FaAttachOnly, FaUpOnly DEF Only
  <2>2. lost \in {"nothing", lost'}
    BY <1>2, LostGrows DEF SwitchNext
  <2>3. UNCHANGED <<board, bad, Bound>>
    BY <1>2 DEF ConfigVlan, DefaultsOff, FaAttach, FaUp, devices, Bound
  <2>4. \/ step = "vlan" /\ step' = "forward"
        \/ step = "defaults" /\ IF bad THEN step' = "idle" ELSE step' = "fa"
        \/ step = "fa" /\ step' \in {"up", "register"}
        \/ step = "up" /\ step' = "register"
    BY <1>2 DEF ConfigVlan, DefaultsOff, FaAttach, FaUp, ProbeFails
  <2>5. (Enabled' => Enabled) /\ (step' = "idle" => Enabled)
    BY <2>4 DEF Enabled
  <2>6. /\ Bound' # {} => Bound # {} \/ step = "register"
        /\ step' \notin {"idle", "attach"} => step \notin {"idle", "attach"}
        /\ step' \in {"fa", "up", "register"} =>
             step \in {"fa", "up", "register"} \/ (step = "defaults" /\ ~bad)
        /\ (Enabled' => Enabled) /\ (step' = "idle" => Enabled \/ step = "idle")
    BY <2>3, <2>4, <2>5
  <2>7. UNCHANGED <<board, bad>>
    BY <2>3
  <2> QED BY <2>1, <2>2, <2>6, <2>7, KeepsForwarding
<1>3. CASE RegisterDevice \/ RegisterFails
  <2>1. sw'["MODE"] = sw["MODE"] /\ UNCHANGED <<board, bad, lost>>
    <3>1. "MODE" \in RegisterNames
      BY DEF RegisterNames
    <3>2. QED BY <1>1, <1>3, <3>1, DetachedOnly DEF Only, RegisterDevice, RegisterFails
  <2>2. step = "register" /\ step' = "idle"
    BY <1>3 DEF RegisterDevice, RegisterFails, ProbeFails
  <2>3. Enabled /\ ~Enabled'
    BY <2>2 DEF Enabled
  <2>4. QED BY <2>1, <2>2, <2>3, KeepsForwarding
<1>4. CASE RemoveLast \/ Reload
  <2>1. sw'["MODE"] = sw["MODE"] /\ UNCHANGED <<board, bad, lost, step>>
    <3>1. "MODE" \in RegisterNames
      BY DEF RegisterNames
    <3>2. QED BY <1>1, <1>4, <3>1, DetachedOnly DEF Only, RemoveLast, Reload, probing
  <2>2. Bound' # {} => Bound # {}
    BY <1>4 DEF RemoveLast, Reload, Bound
  <2>3. step = "idle" /\ (Enabled' <=> Enabled)
    BY <1>4, <2>1 DEF RemoveLast, Reload, Enabled
  <2>4. QED BY <2>1, <2>2, <2>3, KeepsForwarding
<1>5. CASE \E c \in Cores : Open(c) \/ Close(c)
  <2>1. sw'["MODE"] = sw["MODE"]
    <3>1. "MODE" \in RegisterNames
      BY DEF RegisterNames
    <3>2. QED BY <1>1, <1>5, <3>1, OpenCloseOnly DEF Only
  <2>2. lost \in {"nothing", lost'}
    BY <1>5, LostGrows DEF SwitchNext
  <2>3. UNCHANGED <<board, bad, step, Bound>>
    BY <1>5 DEF Open, Close, probing, Bound
  <2>4. Enabled' <=> Enabled
    BY <2>3 DEF Enabled
  <2>5. /\ Bound' # {} => Bound # {} \/ step = "register"
        /\ step' \notin {"idle", "attach"} => step \notin {"idle", "attach"}
        /\ step' \in {"fa", "up", "register"} =>
             step \in {"fa", "up", "register"} \/ (step = "defaults" /\ ~bad)
        /\ (Enabled' => Enabled) /\ (step' = "idle" => Enabled \/ step = "idle")
    BY <2>3, <2>4
  <2>6. UNCHANGED <<board, bad>>
    BY <2>3
  <2>7. QED BY <2>1, <2>2, <2>5, <2>6, KeepsForwarding
<1>6. CASE UNCHANGED switchVars
  <2>1. UNCHANGED <<board, bad, step, Bound, sw, lost, Enabled>>
    BY <1>6 DEF switchVars, probing, devices, Bound, Enabled
  <2>2. /\ Bound' # {} => Bound # {} \/ step = "register"
        /\ step' \notin {"idle", "attach"} => step \notin {"idle", "attach"}
        /\ step' \in {"fa", "up", "register"} =>
             step \in {"fa", "up", "register"} \/ (step = "defaults" /\ ~bad)
        /\ (Enabled' => Enabled) /\ (step' = "idle" => Enabled \/ step = "idle")
    BY <2>1
  <2>3. UNCHANGED <<board, bad>> /\ sw'["MODE"] = sw["MODE"] /\ lost \in {"nothing", lost'}
    BY <2>1
  <2>4. QED BY <2>2, <2>3, KeepsForwarding
<1>7. QED BY <1>2, <1>3, <1>4, <1>5, <1>6, StartForwards, AttachForwards, EnableForwards,
     EnablingForwards, ForcingForwards DEF SwitchNext

(* While no probe runs, the switch forwards for every registered device,    *)
(* whatever one lost access, unless a read was lost, or any access where    *)
(* the probes reset the switch.                                            *)
THEOREM AttachedForwards == SwitchSpec => []SwitchForwards
<1>1. ForwardInv => SwitchForwards
  BY DEF ForwardInv, SwitchForwards, Settled, Answered
<1>2. QED BY <1>1, BaseInit, BaseStep, ForwardInit, ForwardStep, PTL DEF SwitchSpec
-----------------------------------------------------------------------------
(* The flow accelerator's part of the switch.  In normal mode no core beyond *)
(* the accelerator's is attached, for nothing sets the switch up for the    *)
(* accelerator again after such a core's probe.                            *)
ThreeCores ==
    \A b \in Boards : b.mode = "normal" =>
        \A c \in Cores : c > FaCore => b.mac[c] # "ok"

NormalFa == board.mode = "normal" /\ faDev # None

(* The driver's statics: which cores they name, and that the accelerator's  *)
(* core is the last that is attached.                                      *)
StaticInv ==
    /\ up \subseteq Bound
    /\ sw["RULES"] \subseteq Bits["RULES"]
    /\ faDev \in {None, FaCore} /\ auxDev \in Cores \cup {None}
    /\ faDev # None => FaValid /\ FaCore < found /\ board.soc
    /\ Accelerated /\ step # "idle" /\ Core \in {FaCore, AuxCore(auxUnit)} =>
         board.mac[AuxCore(auxUnit)] = "ok"
    /\ auxDev # None =>
         auxDev # FaCore /\ (board.mode = "normal" => board.mac[auxDev] = "ok")
    /\ acc = "normal" => board.mode = "normal" /\ faDev # None
    /\ NormalFa /\ step # "idle" => Core = FaCore /\ step \in {"up", "register"}
    /\ lost = "nothing" /\ board.soc /\ step \notin {"idle", "attach"} => dev = "5301x"

(* What the FA core's probe has set, and the device's coming and going, as  *)
(* long as every access was answered.                                      *)
ServedInv ==
    /\ board.soc /\ board.mode = "normal" /\ lost = "nothing" /\ step = "fa" =>
         sw["CFP_CTL"] = {}
    /\ NormalFa /\ lost = "nothing" /\ auxDev # None =>
         /\ "up" \in sw[AuxReg] /\ sw["RULES"] = Bits["RULES"]
         /\ faDev \in up <=> "phys" \in sw["CFP_CTL"]
    /\ NormalFa /\ lost = "nothing" /\ acc = "normal" =>
         "imp" \in sw["BRCM_HDR"] /\ "oob" \in sw["OOBPAUSE"]

FaInv == StaticInv /\ ServedInv

LEMMA FaInit == SwitchInit => FaInv
<1> SUFFICES ASSUME SwitchInit PROVE FaInv
  OBVIOUS
<1>1. /\ up = {} /\ faDev = None /\ auxDev = None /\ step = "idle" /\ acc = "off"
      /\ sw \in {PoweredOn, [PoweredOn EXCEPT !["MODE"] = Bits["MODE"]]}
  BY Zenon DEF SwitchInit
<1>2. sw["RULES"] = {}
  <2>1. {"RULES", "MODE"} \subseteq RegisterNames /\ "RULES" # "MODE"
    BY DEF RegisterNames
  <2>2. QED BY <1>1, <2>1, PoweredOnIs, ExceptIs
<1>3. QED BY <1>1, <1>2 DEF FaInv, StaticInv, ServedInv, NormalFa

LEMMA NothingOf ==
  ASSUME NEW A, NEW x \in Losable(A), Lose(x), \A y \in A : y[1] # "nothing",
         lost' = "nothing"
  PROVE  x = Nothing
BY LoseCases

(* The names of the registers and the board's data, for the steps below.   *)
LEMMA FaRegisters ==
  /\ {"RULES", "CFP_CTL", "BRCM_HDR", "OOBPAUSE", "PORT5", "PORT7"} \subseteq RegisterNames
  /\ AuxReg \in {"PORT5", "PORT7"}
BY DEF RegisterNames, AuxReg

LEMMA SameBoard ==
  ASSUME UNCHANGED board
  PROVE  /\ AuxReg' = AuxReg /\ AuxPid' = AuxPid
         /\ (FaValid' <=> FaValid) /\ (Accelerated' <=> Accelerated)
BY DEF AuxReg, AuxPid, FaValid, FaOn, Accelerated

(* The first steps of a probe are not taken in normal mode once the FA has  *)
(* a device.                                                               *)
LEMMA EarlySteps ==
  ASSUME BaseInv, FaInv,
         RoboAttach \/ EnableDevice \/ ConfigVlan \/ EnableForwarding \/ ForceCpuPort
           \/ DefaultsOff
  PROVE  FaInv'
<1>1. /\ UNCHANGED <<board, found, auxUnit, auxDev, faDev, unit, up, acc>>
      /\ step \notin {"idle", "up", "register"}
  BY DEF RoboAttach, EnableDevice, ConfigVlan, EnableForwarding, ForceCpuPort, DefaultsOff,
         statics, devices
<1>2. ~NormalFa /\ ~NormalFa'
  BY <1>1 DEF FaInv, StaticInv, NormalFa
<1>3. IsSwitch(sw) /\ board \in Boards
  BY DEF BaseInv, ProbeInv
<1>4. lost \in {"nothing", lost'}
  BY LostGrows DEF SwitchNext
<1>5. sw'["RULES"] \subseteq Bits["RULES"]
  <2>1. CASE RoboAttach
    <3>1. sw' \in {PoweredOn, sw}
      BY <2>1 DEF RoboAttach
    <3>2. QED BY <3>1, FaRegisters, PoweredOnIs DEF FaInv, StaticInv
  <2>2. CASE EnableForwarding
    <3>1. Only({"MODE", "PORTS", "IMP"})
      BY <1>3, <2>2, ForwardingSets
    <3>2. QED BY <3>1, FaRegisters DEF Only, FaInv, StaticInv
  <2>3. CASE EnableDevice \/ ConfigVlan \/ ForceCpuPort \/ DefaultsOff
    <3>1. sw'["RULES"] = sw["RULES"]
      BY <1>3, <2>3, FaRegisters, EnableOnly, ConfigOnly, ForcePortOnly, DefaultsOnly DEF Only
    <3>2. QED BY <3>1 DEF FaInv, StaticInv
  <2>4. QED BY <2>1, <2>2, <2>3
<1>6. lost' = "nothing" /\ board.soc /\ step' \notin {"idle", "attach"} => dev' = "5301x"
  <2>1. CASE RoboAttach
    <3>1. PICK x \in Losable(ReadFails("id", "MODE", {{}})) : Lose(x) /\ dev' = Devid(x)
      BY <2>1 DEF RoboAttach
    <3>2. \A y \in ReadFails("id", "MODE", {{}}) : y[1] # "nothing"
      BY <1>3, KindsOfReads
    <3>3. lost' = "nothing" => x = Nothing
      BY <3>1, <3>2, NothingOf
    <3>4. board.soc => board.bus # "spi" /\ board.dev = "5301x"
      BY <1>3, BoardsAssumption
    <3>5. QED BY <3>1, <3>3, <3>4 DEF Devid
  <2>2. CASE ~RoboAttach
    <3>1. dev' = dev /\ step \notin {"idle", "attach"}
      BY <2>2 DEF EnableDevice, ConfigVlan, EnableForwarding, ForceCpuPort, DefaultsOff
    <3>2. QED BY <1>4, <3>1 DEF FaInv, StaticInv
  <2>3. QED BY <2>1, <2>2
<1>7. board.soc /\ lost' = "nothing" /\ step' = "fa" => sw'["CFP_CTL"] = {}
  <2> SUFFICES ASSUME board.soc, lost' = "nothing", step' = "fa"
               PROVE  sw'["CFP_CTL"] = {}
    OBVIOUS
  <2>1. DefaultsOff
    BY DEF RoboAttach, EnableDevice, ConfigVlan, EnableForwarding, ForceCpuPort, ProbeFails
  <2>2. step = "defaults" /\ dev = "5301x"
    BY <1>4, <2>1 DEF DefaultsOff, FaInv, StaticInv
  <2> DEFINE A == WritesFail({"BRCM_HDR", "CFP_CTL"})
             v == [BRCM_HDR |-> {}, CFP_CTL |-> {}]
  <2>3. PICK x \in Losable(A) : Lose(x) /\ sw' = Written(sw, v, x)
    BY <2>1, <2>2 DEF DefaultsOff
  <2>4. \A y \in A : y[1] # "nothing"
    BY <1>3, KindsOfLists
  <2>5. "CFP_CTL" \in DOMAIN v /\ v["CFP_CTL"] = {}
    OBVIOUS
  <2> HIDE DEF A, v
  <2>6. x = Nothing
    BY <2>3, <2>4, NothingOf
  <2>7. ~Lost(x, "write", "CFP_CTL")
    BY <2>6, NothingLost
  <2>8. QED BY <1>3, <2>3, <2>5, <2>7, FaRegisters, WrittenIs
<1>8. Core' = Core /\ Bound' = Bound
  BY <1>1 DEF Core, Bound
<1>9. StaticInv'
  <2>1. up' \subseteq Bound'
    BY <1>1, <1>8 DEF FaInv, StaticInv
  <2>2. faDev' # None => FaValid' /\ FaCore < found' /\ board'.soc
    BY <1>1, SameBoard DEF FaInv, StaticInv
  <2>3. (Accelerated /\ step # "idle" /\ Core \in {FaCore, AuxCore(auxUnit)} =>
           board.mac[AuxCore(auxUnit)] = "ok")'
    BY <1>1, <1>8, SameBoard DEF FaInv, StaticInv, AuxCore
  <2>4. /\ auxDev' # None =>
             auxDev' # FaCore /\ (board'.mode = "normal" => board'.mac[auxDev'] = "ok")
        /\ acc' = "normal" => board'.mode = "normal" /\ faDev' # None
        /\ faDev' \in {None, FaCore} /\ auxDev' \in Cores \cup {None}
    BY <1>1 DEF FaInv, StaticInv
  <2>5. QED BY <1>1, <1>2, <1>5, <1>6, <2>1, <2>2, <2>3, <2>4 DEF StaticInv
<1>10. ServedInv'
  BY <1>1, <1>2, <1>7 DEF ServedInv
<1>11. QED BY <1>9, <1>10 DEF FaInv

(* The steps that leave the statics alone.                                 *)
LEMMA StaticsKept ==
  ASSUME StaticInv, UNCHANGED <<board, found, auxUnit, auxDev, faDev, dev>>,
         lost \in {"nothing", lost'}, sw'["RULES"] = sw["RULES"],
         up' \subseteq Bound',
         acc' = "normal" => board.mode = "normal" /\ faDev # None,
         step' = step \/ step' = "idle" \/ (step = "up" /\ step' = "register")
  PROVE  StaticInv'
<1>1. Core' = Core /\ (NormalFa' <=> NormalFa) /\ AuxCore(auxUnit)' = AuxCore(auxUnit)
  BY DEF Core, NormalFa, AuxCore
<1>2. (FaValid' <=> FaValid) /\ (Accelerated' <=> Accelerated)
  BY SameBoard
<1>3. (step' # "idle" => step # "idle") /\ (step' \notin {"idle", "attach"} => step \notin {"idle", "attach"})
  OBVIOUS
<1>4. NormalFa' /\ step' # "idle" => Core' = FaCore /\ step' \in {"up", "register"}
  BY <1>1, <1>3 DEF StaticInv
<1>5. /\ sw'["RULES"] \subseteq Bits["RULES"]
      /\ faDev' \in {None, FaCore} /\ auxDev' \in Cores \cup {None}
      /\ faDev' # None => FaValid' /\ FaCore < found' /\ board'.soc
      /\ auxDev' # None =>
           auxDev' # FaCore /\ (board'.mode = "normal" => board'.mac[auxDev'] = "ok")
      /\ acc' = "normal" => board'.mode = "normal" /\ faDev' # None
  BY <1>2 DEF StaticInv
<1>6. Accelerated' /\ step' # "idle" /\ Core' \in {FaCore, AuxCore(auxUnit)'} =>
         board'.mac[AuxCore(auxUnit)'] = "ok"
  BY <1>1, <1>2, <1>3 DEF StaticInv
<1>7. lost' = "nothing" /\ board'.soc /\ step' \notin {"idle", "attach"} => dev' = "5301x"
  BY <1>3 DEF StaticInv
<1>8. QED BY <1>4, <1>5, <1>6, <1>7 DEF StaticInv

(* ... and the auxiliary port and the filters.                             *)
LEMMA ServiceKept ==
  ASSUME ServedInv, UNCHANGED <<board, auxDev, faDev, up>>, IsSwitch(sw),
         Only({"BRCM_HDR", "OOBPAUSE"}), lost \in {"nothing", lost'},
         step' = step \/ step' # "fa",
         NormalFa /\ lost' = "nothing" /\ acc' = "normal" =>
           "imp" \in sw'["BRCM_HDR"] /\ "oob" \in sw'["OOBPAUSE"]
  PROVE  ServedInv'
<1>1. AuxReg' = AuxReg /\ (NormalFa' <=> NormalFa)
  BY SameBoard DEF NormalFa
<1>2. sw'[AuxReg] = sw[AuxReg] /\ sw'["RULES"] = sw["RULES"] /\ sw'["CFP_CTL"] = sw["CFP_CTL"]
  BY FaRegisters DEF Only
<1>3. NormalFa' /\ lost' = "nothing" /\ auxDev' # None =>
         /\ "up" \in sw'[AuxReg'] /\ sw'["RULES"] = Bits["RULES"]
         /\ faDev' \in up' <=> "phys" \in sw'["CFP_CTL"]
  BY <1>1, <1>2 DEF ServedInv
<1>4. board'.soc /\ board'.mode = "normal" /\ lost' = "nothing" /\ step' = "fa" =>
         sw'["CFP_CTL"] = {}
  BY <1>2 DEF ServedInv
<1>5. NormalFa' /\ lost' = "nothing" /\ acc' = "normal" =>
         "imp" \in sw'["BRCM_HDR"] /\ "oob" \in sw'["OOBPAUSE"]
  BY <1>1
<1>6. QED BY <1>3, <1>4, <1>5 DEF ServedInv

(* The next probe: it goes on for a core with an address, which the FA's    *)
(* two cores have both or neither, and none after them.                    *)
LEMMA StartServes ==
  ASSUME ThreeCores, BaseInv, FaInv, ProbeStart PROVE FaInv'
<1> DEFINE c == found
           a == auxUnit'
           u == Core2Unit(c, a)
<1>1. /\ UNCHANGED <<board, sw, lost, auxDev, faDev, dev, unit, up, acc>>
      /\ step = "idle" /\ found' = c + 1 /\ c <= LastCore
      /\ step' = IF GetMacaddr(u, a) = "ok" THEN "attach" ELSE "idle"
  BY DEF ProbeStart, devices
<1>2. board \in Boards /\ c \in Cores /\ c \in Nat /\ Core' = c
  BY <1>1, BoardsAssumption DEF BaseInv, ProbeInv, Cores, Core
<1>3. a # FaCore /\ AuxCore(a) # FaCore
  <2>1. a \in (Cores \ {FaCore}) \cup {None}
    BY StartKeepsUnits DEF BaseInv, ProbeInv
  <2>2. QED BY <2>1 DEF AuxCore, FaCore, None
<1>4. (FaValid' <=> FaValid) /\ (Accelerated' <=> Accelerated) /\ AuxReg' = AuxReg
      /\ (NormalFa' <=> NormalFa) /\ Bound' = Bound
  BY <1>1, SameBoard DEF NormalFa, Bound
<1> HIDE DEF a
<1>5. ASSUME Accelerated, step' # "idle", c \in {FaCore, AuxCore(a)}
      PROVE  board.mac[AuxCore(a)] = "ok"
  <2>1. GetMacaddr(u, a) = "ok" /\ FaValid /\ board.mode = "normal"
    BY <1>1, <1>5 DEF Accelerated
  <2>2. CASE c = FaCore
    <3>1. u = AuxCore(a) /\ Unit2Core(u, a) = FaCore
      BY <2>1, <2>2 DEF Core2Unit, Unit2Core
    <3>2. QED BY <1>3, <2>1, <3>1 DEF GetMacaddr
  <2>3. CASE c = AuxCore(a)
    <3>1. u = FaCore /\ Unit2Core(u, a) = AuxCore(a)
      BY <1>3, <2>1, <2>3 DEF Core2Unit, Unit2Core
    <3>2. QED BY <2>1, <3>1 DEF GetMacaddr
  <2>4. QED BY <1>5, <2>2, <2>3
<1>6. ASSUME NormalFa PROVE step' = "idle"
  <2>1. FaValid /\ c > FaCore /\ board.mode = "normal"
    BY <1>2, <1>6 DEF FaInv, StaticInv, NormalFa, FaCore
  <2>2. board.mac[c] # "ok"
    BY <1>2, <2>1 DEF ThreeCores
  <2>3. GetMacaddr(u, a) = board.mac[c]
    <3>1. CASE c = AuxCore(a)
      <4>1. u = FaCore /\ Unit2Core(u, a) = AuxCore(a)
        BY <1>3, <2>1, <3>1 DEF Core2Unit, Unit2Core
      <4>2. QED BY <2>1, <3>1, <4>1 DEF GetMacaddr
    <3>2. CASE c # AuxCore(a)
      <4>1. c # FaCore
        BY <1>2, <2>1 DEF FaCore
      <4>2. u = c /\ Unit2Core(u, a) = c
        BY <3>2, <4>1 DEF Core2Unit, Unit2Core
      <4>3. QED BY <3>2, <4>2 DEF GetMacaddr
    <3>3. QED BY <3>1, <3>2
  <2>4. QED BY <1>1, <2>2, <2>3
<1>7. StaticInv'
  <2>1. Accelerated' /\ step' # "idle" /\ Core' \in {FaCore, AuxCore(a)} =>
           board'.mac[AuxCore(a)] = "ok"
    BY <1>1, <1>2, <1>4, <1>5
  <2>2. NormalFa' /\ step' # "idle" => Core' = FaCore /\ step' \in {"up", "register"}
    BY <1>4, <1>6
  <2>3. step' \in {"idle", "attach"}
    BY <1>1
  <2>4. faDev' # None => FaValid' /\ FaCore < found' /\ board'.soc
    BY <1>1, <1>2, <1>4 DEF FaInv, StaticInv, FaCore
  <2>5. /\ up' \subseteq Bound' /\ sw'["RULES"] \subseteq Bits["RULES"]
        /\ faDev' \in {None, FaCore} /\ auxDev' \in Cores \cup {None}
        /\ auxDev' # None =>
             auxDev' # FaCore /\ (board'.mode = "normal" => board'.mac[auxDev'] = "ok")
        /\ acc' = "normal" => board'.mode = "normal" /\ faDev' # None
    BY <1>1, <1>4 DEF FaInv, StaticInv
  <2>6. AuxCore(auxUnit)' = AuxCore(a)
    BY DEF AuxCore, a
  <2>7. QED BY <2>1, <2>2, <2>3, <2>4, <2>5, <2>6 DEF StaticInv
<1>8. ServedInv'
  <2>1. step' # "fa"
    BY <1>1
  <2>2. QED BY <1>1, <1>4, <2>1 DEF FaInv, ServedInv
<1>9. QED BY <1>7, <1>8 DEF FaInv

(* fa_attach of the FA core: no later probe undoes the port and the filters *)
(* that it sets up.                                                        *)
LEMMA AttachServes ==
  ASSUME ThreeCores, BaseInv, FaInv, FaAttach PROVE FaInv'
<1> DEFINE fa == Core = FaCore
           aux == Core = AuxCore(auxUnit)
           inits == InitsAux(fa, aux)
           A == IF inits THEN AuxFails ELSE {}
<1>1. PICK x \in Losable(A), got \in BOOLEAN :
        /\ Lose(x)
        /\ IF board.soc /\ FaValid /\ (fa \/ aux) /\ got
           THEN /\ step' = "up"
                /\ auxDev' = IF fa THEN auxDev ELSE Core
                /\ faDev' = IF fa THEN Core ELSE faDev
                /\ sw' = IF inits THEN AuxInit(sw, x) ELSE sw
           ELSE /\ step' = "register"
                /\ UNCHANGED <<auxDev, faDev, sw>>
  BY DEF FaAttach
<1>2. /\ step = "fa" /\ UNCHANGED <<board, found, auxUnit, dev, unit, up, acc>>
  BY DEF FaAttach, devices
<1>3. board \in Boards /\ IsSwitch(sw) /\ Core \in Cores /\ Core < found /\ Core \notin Bound
  BY <1>2, CoreIs DEF BaseInv, ProbeInv
<1>4. ~NormalFa /\ (acc = "normal" => board.mode = "normal" /\ faDev # None)
  BY <1>2 DEF FaInv, StaticInv
<1>5. acc # "normal"
  BY <1>4 DEF NormalFa
<1>6. lost' = "nothing" => x = Nothing /\ lost = "nothing"
  <2>1. \A y \in A : y[1] # "nothing"
    BY <1>3, KindsOfLists, KindsOfWrites DEF AuxFails
  <2> HIDE DEF A
  <2>2. x \in Losable(A) /\ Lose(x)
    BY <1>1
  <2>3. lost' = "nothing" => x = Nothing
    BY <2>1, <2>2, NothingOf
  <2>4. QED BY <2>2, <2>3, LoseCases DEF Nothing
<1>7. Core' = Core /\ Bound' = Bound /\ AuxCore(auxUnit)' = AuxCore(auxUnit)
  BY <1>2 DEF Core, Bound, AuxCore
<1>8. (FaValid' <=> FaValid) /\ (Accelerated' <=> Accelerated) /\ AuxReg' = AuxReg
  BY <1>2, SameBoard
<1>9. NormalFa' => /\ fa /\ board.soc /\ step' = "up" /\ faDev' = FaCore
                   /\ auxDev' = auxDev /\ sw' = IF inits THEN AuxInit(sw, x) ELSE sw
  BY <1>1, <1>2, <1>4 DEF NormalFa
<1>10. Accelerated => FaValid /\ board.mode = "normal"
  BY DEF Accelerated
<1>11. FaValid /\ board.mode = "normal" => Accelerated
  BY DEF Accelerated
<1>12. StaticInv'
  <2>1. sw'["RULES"] \subseteq Bits["RULES"]
    <3>1. CASE sw' = sw
      BY <3>1 DEF FaInv, StaticInv
    <3>2. CASE sw' # sw
      <4>1. sw' = AuxInit(sw, x) /\ AuxPid # None
        BY <1>1, <3>2 DEF AuxInit
      <4>2. sw'["RULES"] = sw["RULES"] \cup Filters(x)
        BY <1>3, <4>1, AuxInitIs
      <4>3. QED BY <4>2 DEF Filters, FaInv, StaticInv
    <3>3. QED BY <3>1, <3>2
  <2>2. faDev' \in {None, FaCore} /\ auxDev' \in Cores \cup {None}
    BY <1>1, <1>3 DEF FaInv, StaticInv
  <2>3. faDev' # None => FaValid' /\ FaCore < found' /\ board'.soc
    BY <1>1, <1>2, <1>3, <1>8 DEF FaInv, StaticInv
  <2>4. Accelerated' /\ step' # "idle" /\ Core' \in {FaCore, AuxCore(auxUnit)'} =>
           board'.mac[AuxCore(auxUnit)'] = "ok"
    BY <1>2, <1>7, <1>8 DEF FaInv, StaticInv
  <2>5. auxDev' # None =>
           auxDev' # FaCore /\ (board'.mode = "normal" => board'.mac[auxDev'] = "ok")
    <3>1. CASE auxDev' = auxDev
      BY <1>2, <3>1 DEF FaInv, StaticInv
    <3>2. CASE auxDev' # auxDev
      <4>1. ~fa /\ aux /\ auxDev' = Core /\ FaValid
        BY <1>1, <3>2
      <4>2. board.mode = "normal" => board.mac[AuxCore(auxUnit)] = "ok"
        BY <1>2, <1>11, <4>1 DEF FaInv, StaticInv
      <4>3. QED BY <1>2, <4>1, <4>2
    <3>3. QED BY <3>1, <3>2
  <2>6. NormalFa' /\ step' # "idle" => Core' = FaCore /\ step' \in {"up", "register"}
    BY <1>7, <1>9
  <2>7. lost' = "nothing" /\ board'.soc /\ step' \notin {"idle", "attach"} => dev' = "5301x"
    BY <1>2, <1>6 DEF FaInv, StaticInv
  <2>8. up' \subseteq Bound'
    BY <1>2, <1>7 DEF FaInv, StaticInv
  <2>9. acc' = "normal" => board'.mode = "normal" /\ faDev' # None
    BY <1>2, <1>5
  <2>10. QED BY <2>1, <2>2, <2>3, <2>4, <2>5, <2>6, <2>7, <2>8, <2>9 DEF StaticInv
<1>13. ASSUME NormalFa', lost' = "nothing", auxDev' # None
       PROVE  /\ "up" \in sw'[AuxReg] /\ sw'["RULES"] = Bits["RULES"]
              /\ faDev' \notin up /\ sw'["CFP_CTL"] = {}
  <2>1. x = Nothing /\ lost = "nothing"
    BY <1>6, <1>13
  <2>2. auxDev # None /\ inits /\ sw' = AuxInit(sw, x)
    BY <1>9, <1>13 DEF InitsAux
  <2>3. board.soc /\ board.mode = "normal"
    BY <1>2, <1>9, <1>13 DEF NormalFa
  <2>4. auxDev \in Cores /\ auxDev # FaCore /\ board.mac[auxDev] = "ok"
    BY <2>2, <2>3 DEF FaInv, StaticInv
  <2>5. auxDev \in {0, 1}
    <3>1. ~(auxDev > FaCore)
      BY <1>3, <2>3, <2>4 DEF ThreeCores
    <3>2. QED BY <2>4, <3>1, BoardsAssumption DEF Cores, FaCore
  <2>6. AuxPid # None
    BY <2>3, <2>4, <2>5 DEF AuxPid, None
  <2>7. /\ IsSwitch(sw') /\ \A r \in RegisterNames \ {AuxReg, "RULES"} : sw'[r] = sw[r]
        /\ Lost(x, "write", AuxReg) \/ "up" \in sw'[AuxReg]
        /\ sw'["RULES"] = sw["RULES"] \cup Filters(x)
    BY <1>3, <2>2, <2>6, AuxInitIs
  <2>8. ~Lost(x, "write", AuxReg) /\ Filters(x) = Bits["RULES"]
    BY <2>1, NothingLost DEF Filters
  <2>9. sw'["CFP_CTL"] = sw["CFP_CTL"] /\ sw["CFP_CTL"] = {}
    BY <1>2, <2>1, <2>3, <2>7, FaRegisters DEF FaInv, ServedInv
  <2>10. faDev' \notin up
    BY <1>3, <1>9, <1>13 DEF FaInv, StaticInv
  <2>11. sw["RULES"] \subseteq Bits["RULES"]
    BY DEF FaInv, StaticInv
  <2>12. QED BY <2>7, <2>8, <2>9, <2>10, <2>11
<1>14. ServedInv'
  <2>1. step' # "fa" /\ acc' # "normal"
    BY <1>1, <1>2, <1>5
  <2>2. NormalFa' /\ lost' = "nothing" /\ auxDev' # None =>
         /\ "up" \in sw'[AuxReg'] /\ sw'["RULES"] = Bits["RULES"]
         /\ faDev' \in up' <=> "phys" \in sw'["CFP_CTL"]
    BY <1>2, <1>8, <1>13
  <2>3. QED BY <2>1, <2>2 DEF ServedInv
<1>15. QED BY <1>12, <1>14 DEF FaInv

LEMMA FaEnableIs ==
  ASSUME IsSwitch(sw), sw' = FaEnable(sw, TRUE, Nothing)
  PROVE  "imp" \in sw'["BRCM_HDR"] /\ "oob" \in sw'["OOBPAUSE"]
<1> DEFINE v == [BRCM_HDR |-> {"imp"},
                 OOBPAUSE |-> Seen(sw, "OOBPAUSE", Nothing) \cup {"oob"}]
           w == Written(sw, v, Nothing)
<1>1. sw' = w
  BY DEF FaEnable
<1>2. /\ DOMAIN v = {"BRCM_HDR", "OOBPAUSE"}
      /\ "imp" \in v["BRCM_HDR"] /\ "oob" \in v["OOBPAUSE"]
  OBVIOUS
<1> HIDE DEF v
<1>3. \A r \in RegisterNames : w[r] = IF r \in DOMAIN v /\ ~Lost(Nothing, "write", r)
                                  THEN v[r] ELSE sw[r]
  BY WrittenIs
<1> HIDE DEF w
<1>4. ~Lost(Nothing, "write", "BRCM_HDR") /\ ~Lost(Nothing, "write", "OOBPAUSE")
  BY NothingLost
<1>5. w["BRCM_HDR"] = v["BRCM_HDR"] /\ w["OOBPAUSE"] = v["OOBPAUSE"]
  BY <1>2, <1>3, <1>4, FaRegisters
<1>6. QED BY <1>1, <1>2, <1>5

(* fa_up. *)
LEMMA UpServes == ASSUME BaseInv, FaInv, FaUp PROVE FaInv'
<1> DEFINE A == ReadFails("read", "OOBPAUSE", SUBSET Bits["OOBPAUSE"])
                  \cup WritesFail({"BRCM_HDR", "OOBPAUSE"})
<1>1. PICK x \in Losable(A), inTime \in BOOLEAN :
        IF Core = faDev /\ inTime
        THEN /\ Lose(x)
             /\ sw' = FaEnable(sw, board.mode = "normal", x)
             /\ acc' = board.mode
        ELSE x = Nothing /\ UNCHANGED <<lost, sw, acc>>
  BY DEF FaUp
<1>2. /\ step = "up" /\ step' = "register"
      /\ UNCHANGED <<board, found, auxUnit, auxDev, faDev, dev, unit, up>>
  BY DEF FaUp, statics
<1>3. IsSwitch(sw) /\ board \in Boards /\ Core \in Cores /\ Only({"BRCM_HDR", "OOBPAUSE"})
  BY <1>2, CoreIs, FaUpOnly DEF BaseInv, ProbeInv
<1>4. lost \in {"nothing", lost'}
  BY LostGrows DEF SwitchNext
<1>5. Core # None
  BY <1>3, BoardsAssumption DEF Cores, None
<1>6. acc' = "normal" => board.mode = "normal" /\ faDev # None
  BY <1>1, <1>5 DEF FaInv, StaticInv
<1>7. sw'["RULES"] = sw["RULES"] /\ up' \subseteq Bound'
  <2>1. Bound' = Bound
    BY <1>2 DEF Bound
  <2>2. QED BY <1>2, <1>3, <2>1, FaRegisters DEF Only, FaInv, StaticInv
<1>8. ASSUME NormalFa, lost' = "nothing", acc' = "normal"
      PROVE  "imp" \in sw'["BRCM_HDR"] /\ "oob" \in sw'["OOBPAUSE"]
  <2>1. CASE Core = faDev /\ inTime
    <3>1. \A y \in A : y[1] # "nothing"
      BY <1>3, KindsOfLists, KindsOfReads
    <3> HIDE DEF A
    <3>2. x \in Losable(A) /\ Lose(x) /\ sw' = FaEnable(sw, board.mode = "normal", x)
      BY <1>1, <2>1
    <3>3. x = Nothing
      BY <1>8, <3>1, <3>2, NothingOf
    <3>4. board.mode = "normal" <=> TRUE
      BY <1>8 DEF NormalFa
    <3>5. sw' = FaEnable(sw, TRUE, Nothing)
      BY <3>2, <3>3, <3>4 DEF FaEnable
    <3>6. QED BY <1>3, <3>5, FaEnableIs
  <2>2. CASE ~(Core = faDev /\ inTime)
    BY <1>1, <1>4, <1>8, <2>2 DEF FaInv, ServedInv
  <2>3. QED BY <2>1, <2>2
<1>9. StaticInv'
  BY <1>2, <1>4, <1>6, <1>7, StaticsKept DEF FaInv
<1>10. step' # "fa"
  BY <1>2
<1>11. ServedInv'
  BY <1>2, <1>3, <1>4, <1>8, <1>10, ServiceKept DEF FaInv
<1>12. QED BY <1>9, <1>11 DEF FaInv

(* The device that is probed, and the one that goes.                       *)
LEMMA DetachedServes ==
  ASSUME BaseInv, FaInv, NEW c, Detached(c), step' = "idle",
         UNCHANGED <<board, found, auxUnit, auxDev, faDev, dev, lost, up>>,
         up \subseteq Bound'
  PROVE  FaInv'
<1>1. IsSwitch(sw) /\ Only({"BRCM_HDR", "OOBPAUSE"})
  BY DetachedOnly DEF BaseInv
<1>2. acc' # "normal" \/ UNCHANGED <<sw, acc>>
  BY DEF Detached
<1>3. sw'["RULES"] = sw["RULES"]
  BY <1>1, FaRegisters DEF Only
<1>4. acc' = "normal" => board.mode = "normal" /\ faDev # None
  BY <1>2 DEF FaInv, StaticInv
<1>5. NormalFa /\ lost' = "nothing" /\ acc' = "normal" =>
         "imp" \in sw'["BRCM_HDR"] /\ "oob" \in sw'["OOBPAUSE"]
  BY <1>2 DEF FaInv, ServedInv
<1>6. StaticInv'
  BY <1>3, <1>4, StaticsKept DEF FaInv
<1>7. step' # "fa"
  OBVIOUS
<1>8. ServedInv'
  BY <1>1, <1>5, <1>7, ServiceKept DEF FaInv
<1>9. QED BY <1>6, <1>8 DEF FaInv

LEMMA RegisterServes == ASSUME BaseInv, FaInv, RegisterDevice PROVE FaInv'
<1>1. /\ step = "register" /\ step' = "idle"
      /\ UNCHANGED <<board, sw, lost, found, auxUnit, auxDev, faDev, dev, up, acc>>
      /\ unit' = [unit EXCEPT ![Core] = Core2Unit(Core, auxUnit)]
  BY DEF RegisterDevice, statics
<1>2. Core \notin Bound /\ unit = [c \in Cores |-> unit[c]]
  BY <1>1 DEF BaseInv, ProbeInv
<1>3. \A c \in Bound : unit'[c] = unit[c]
  BY <1>1, <1>2 DEF Bound
<1>4. up' \subseteq Bound'
  BY <1>1, <1>3 DEF Bound, FaInv, StaticInv
<1>5. StaticInv'
  BY <1>1, <1>4, StaticsKept DEF FaInv, StaticInv
<1>6. IsSwitch(sw) /\ Only({"BRCM_HDR", "OOBPAUSE"})
  BY <1>1, SameIsOnly DEF BaseInv
<1>7. NormalFa /\ lost' = "nothing" /\ acc' = "normal" =>
         "imp" \in sw'["BRCM_HDR"] /\ "oob" \in sw'["OOBPAUSE"]
  BY <1>1 DEF FaInv, ServedInv
<1>8. ServedInv'
  BY <1>1, <1>6, <1>7, ServiceKept DEF FaInv
<1>9. QED BY <1>5, <1>8 DEF FaInv

LEMMA RemoveServes == ASSUME BaseInv, FaInv, RemoveLast PROVE FaInv'
<1> DEFINE c == Max(Bound)
<1>1. /\ step' = "idle" /\ c \notin up /\ Detached(c)
      /\ UNCHANGED <<board, found, auxUnit, auxDev, faDev, dev, lost, up>>
      /\ unit' = [unit EXCEPT ![c] = None]
  BY DEF RemoveLast, statics, probing
<1> HIDE DEF c
<1>2. unit = [d \in Cores |-> unit[d]] /\ up \subseteq Bound
  BY DEF BaseInv, ProbeInv, FaInv, StaticInv
<1>3. \A d \in up : d \in Cores /\ unit'[d] = unit[d]
  BY <1>1, <1>2 DEF Bound
<1>4. up \subseteq Bound'
  BY <1>2, <1>3 DEF Bound
<1>5. QED BY <1>1, <1>4, DetachedServes

LEMMA ReloadServes == ASSUME BaseInv, FaInv, Reload PROVE FaInv'
<1>1. /\ step' = "idle" /\ faDev' = None /\ auxDev' = None /\ acc' = "off"
      /\ UNCHANGED <<board, sw, lost, up>> /\ Bound = {}
  BY DEF Reload, probing
<1>2. up' = {} /\ sw'["RULES"] \subseteq Bits["RULES"]
  BY <1>1 DEF FaInv, StaticInv
<1>3. ~NormalFa'
  BY <1>1 DEF NormalFa
<1>4. StaticInv'
  BY <1>1, <1>2, <1>3 DEF StaticInv
<1>5. ServedInv'
  BY <1>1, <1>3 DEF ServedInv
<1>6. QED BY <1>4, <1>5 DEF FaInv

(* Open and Close: the filters follow the FA's device.                     *)
LEMMA DeviceServes ==
  ASSUME BaseInv, FaInv, NEW c \in Cores, Open(c) \/ Close(c)
  PROVE  FaInv'
<1>1. UNCHANGED <<board, found, auxUnit, auxDev, faDev, dev, step, unit, acc, Bound>>
  BY DEF Open, Close, statics, probing, Bound
<1>2. IsSwitch(sw) /\ board \in Boards /\ Only({"CFP_CTL"})
  BY OpenCloseOnly DEF BaseInv, ProbeInv
<1>3. lost \in {"nothing", lost'}
  BY LostGrows DEF SwitchNext
<1>4. up' \subseteq Bound'
  BY <1>1 DEF Open, Close, FaInv, StaticInv
<1>5. /\ sw'["RULES"] = sw["RULES"] /\ sw'[AuxReg] = sw[AuxReg]
      /\ sw'["BRCM_HDR"] = sw["BRCM_HDR"] /\ sw'["OOBPAUSE"] = sw["OOBPAUSE"]
  BY <1>2, FaRegisters DEF Only
<1>6. StaticInv'
  BY <1>1, <1>3, <1>4, <1>5, StaticsKept DEF FaInv, StaticInv
<1>7. AuxReg' = AuxReg /\ (NormalFa' <=> NormalFa)
  BY <1>1, SameBoard DEF NormalFa
<1>8. ASSUME NormalFa, lost' = "nothing", auxDev # None
      PROVE  faDev \in up' <=> "phys" \in sw'["CFP_CTL"]
  <2>1. CASE c # faDev
    <3>1. sw' = sw /\ up' \in {up \cup {c}, up \ {c}}
      BY <2>1 DEF Open, Close
    <3>2. faDev \in up' <=> faDev \in up
      BY <2>1, <3>1
    <3>3. QED BY <1>3, <1>8, <3>1, <3>2 DEF FaInv, ServedInv
  <2>2. CASE c = faDev
    <3>1. PICK on \in BOOLEAN, x \in Losable(WritesFail({"CFP_CTL"})) :
            /\ Lose(x) /\ sw' = AuxEnable(sw, on, x)
            /\ on <=> faDev \in up'
      BY <1>8, <2>2 DEF Open, Close
    <3>2. \A y \in WritesFail({"CFP_CTL"}) : y[1] # "nothing"
      BY <1>2, KindsOfLists
    <3>3. x = Nothing
      BY <1>8, <3>1, <3>2, NothingOf
    <3>4. sw'["CFP_CTL"] = IF on THEN {"phys"} ELSE {}
      BY <1>2, <3>1, <3>3, AuxEnableIs, NothingLost
    <3>5. QED BY <3>1, <3>4
  <2>3. QED BY <2>1, <2>2
<1>9. ASSUME board.soc, board.mode = "normal", lost' = "nothing", step = "fa"
      PROVE  sw'["CFP_CTL"] = {}
  <2>1. sw["CFP_CTL"] = {} /\ ~NormalFa
    BY <1>3, <1>9 DEF FaInv, ServedInv, StaticInv
  <2>2. c # None
    BY BoardsAssumption DEF Cores, None
  <2>3. c # faDev
    BY <1>9, <2>1, <2>2 DEF NormalFa
  <2>4. QED BY <2>1, <2>3 DEF Open, Close
<1>10. ServedInv'
  <2>1. board'.soc /\ board'.mode = "normal" /\ lost' = "nothing" /\ step' = "fa" =>
           sw'["CFP_CTL"] = {}
    BY <1>1, <1>9
  <2>2. NormalFa' /\ lost' = "nothing" /\ auxDev' # None =>
         /\ "up" \in sw'[AuxReg'] /\ sw'["RULES"] = Bits["RULES"]
         /\ faDev' \in up' <=> "phys" \in sw'["CFP_CTL"]
    BY <1>1, <1>3, <1>5, <1>7, <1>8 DEF FaInv, ServedInv
  <2>3. NormalFa' /\ lost' = "nothing" /\ acc' = "normal" =>
         "imp" \in sw'["BRCM_HDR"] /\ "oob" \in sw'["OOBPAUSE"]
    BY <1>1, <1>3, <1>5, <1>7 DEF FaInv, ServedInv
  <2>4. QED BY <2>1, <2>2, <2>3 DEF ServedInv
<1>11. QED BY <1>6, <1>10 DEF FaInv

LEMMA FaStep ==
  ThreeCores /\ BaseInv /\ FaInv /\ [SwitchNext]_switchVars => FaInv'
<1> SUFFICES ASSUME ThreeCores, BaseInv, FaInv, [SwitchNext]_switchVars PROVE FaInv'
  OBVIOUS
<1>1. CASE RegisterFails
  <2>1. /\ Detached(Core) /\ step' = "idle"
        /\ UNCHANGED <<board, found, auxUnit, auxDev, faDev, dev, lost, up>>
    BY <1>1 DEF RegisterFails, ProbeFails, statics
  <2>2. up \subseteq Bound'
    BY <1>1 DEF RegisterFails, Bound, FaInv, StaticInv
  <2> DEFINE c == Core
  <2>3. Detached(c)
    BY <2>1
  <2> HIDE DEF c
  <2>4. QED BY <2>1, <2>2, <2>3, DetachedServes
<1>2. CASE UNCHANGED switchVars
  <2>1. UNCHANGED <<board, sw, lost, found, auxUnit, auxDev, faDev, step, dev, up, acc, Bound>>
    BY <1>2 DEF switchVars, statics, probing, devices, Bound
  <2>2. StaticInv'
    BY <2>1, StaticsKept DEF FaInv, StaticInv
  <2>3. AuxReg' = AuxReg /\ (NormalFa' <=> NormalFa)
    BY <2>1, SameBoard DEF NormalFa
  <2>4. ServedInv'
    BY <2>1, <2>3 DEF FaInv, ServedInv
  <2>5. QED BY <2>2, <2>4 DEF FaInv
<1>3. QED BY <1>1, <1>2, StartServes, EarlySteps, AttachServes, UpServes, RegisterServes,
     RemoveServes, ReloadServes, DeviceServes DEF SwitchNext

(* Where no core beyond the accelerator's is attached, and as long as every *)
(* access is answered, the switch serves the accelerator and its auxiliary  *)
(* device while both are in service.                                       *)
THEOREM AcceleratorServed ==
  ASSUME ThreeCores
  PROVE  SwitchSpec => []FaServed
<1>1. BaseInv /\ FaInv => FaServed
  <2> SUFFICES ASSUME BaseInv, FaInv, {faDev, auxDev} \subseteq Bound,
                      lost = "nothing", acc = "normal"
               PROVE  /\ "imp" \in sw["BRCM_HDR"] /\ "oob" \in sw["OOBPAUSE"]
                      /\ "up" \in sw[AuxReg] /\ sw["RULES"] = Bits["RULES"]
                      /\ faDev \in up <=> "phys" \in sw["CFP_CTL"]
    BY DEF FaServed
  <2>1. NormalFa
    BY DEF FaInv, StaticInv, NormalFa
  <2>2. auxDev # None
    BY BoardsAssumption DEF Bound, Cores, None
  <2>3. QED BY <2>1, <2>2 DEF FaInv, ServedInv
<1>2. QED BY <1>1, BaseInit, BaseStep, FaInit, FaStep, PTL DEF SwitchSpec
-----------------------------------------------------------------------------
(* The CPU's port: nvram marks one port as the CPU's, wherever it marks     *)
(* one, also after the auxiliary port has come to stand for the IMP port,   *)
(* and lists the IMP port only where it is that one.                        *)
AuxPortOf(b) ==
    IF b.mac[0] # "none" THEN 5 ELSE IF b.mac[1] # "none" THEN 7 ELSE None
StandsFor(b, p) == IF b.mode # "off" /\ p = AuxPortOf(b) THEN 8 ELSE p

CpuBehind(b, q) ==
    \A v \in DOMAIN b.lists : \A i \in DOMAIN b.lists[v] :
        LET e == b.lists[v][i]
        IN  /\ e.flag \in {"u", "*"} => e.port <= 8 /\ StandsFor(b, e.port) = q
            /\ e.port <= 8 /\ StandsFor(b, e.port) = 8 => q = 8

OneCpuPort ==
    \A b \in Boards : b.dev = "5301x" => b.soc /\ \E q \in {5, 7, 8} : CpuBehind(b, q)

(* Every set of naturals that has a member has a least one, and a greatest  *)
(* one if it is bounded.                                                    *)
LEMMA LeastNat ==
  ASSUME NEW S \in SUBSET Nat, S # {}
  PROVE  \E x \in S : \A y \in S : x <= y
<1>1. PICK x \in S : \A y \in S : ~ (<<y, x>> \in OpToRel(<, Nat))
  BY NatLessThanWellFounded, WFMin, Zenon
<1>2. \A y \in Nat : y < x => <<y, x>> \in OpToRel(<, Nat)
  BY DEF OpToRel
<1>3. \A y \in S : ~(y < x)
  BY <1>1, <1>2, Zenon
<1>4. \A y \in S : x <= y
  BY <1>3
<1>5. QED BY <1>4

LEMMA MinIs ==
  ASSUME NEW S \in SUBSET Nat, S # {}
  PROVE  Min(S) \in S
BY LeastNat DEF Min

LEMMA MaxIs ==
  ASSUME NEW n \in Nat, NEW S \in SUBSET (0..n), S # {}
  PROVE  Max(S) \in S
<1> DEFINE T == {n - x : x \in S}
<1>1. T \in SUBSET Nat /\ T # {}
  <2>1. \A x \in S : n - x \in Nat
    OBVIOUS
  <2>2. PICK x \in S : TRUE
    OBVIOUS
  <2>3. n - x \in T
    BY <2>2
  <2>4. QED BY <2>1, <2>3
<1>2. PICK t \in T : \A u \in T : t <= u
  BY <1>1, LeastNat
<1>3. PICK x \in S : t = n - x
  OBVIOUS
<1>4. \A y \in S : x >= y
  <2>1. ASSUME NEW y \in S PROVE x >= y
    <3>1. n - x <= n - y
      BY <1>2, <1>3
    <3>2. QED BY <3>1
  <2>2. QED BY <2>1
<1>5. QED BY <1>4 DEF Max

(* What Members makes of an entry of the list of VLAN v.                    *)
LEMMA MembersAre ==
  ASSUME board \in Boards, board.dev = "5301x", board.soc, NEW v \in Defined
  PROVE  /\ DOMAIN Members(v, "5301x") =
              {i \in DOMAIN board.lists[v] : board.lists[v][i].port <= 8}
         /\ \A i \in DOMAIN Members(v, "5301x") :
              /\ Members(v, "5301x")[i].port = StandsFor(board, board.lists[v][i].port)
              /\ Members(v, "5301x")[i].flag = board.lists[v][i].flag
         /\ \E n \in Nat : DOMAIN board.lists[v] = 1..n
<1>1. Imp("5301x") = 8
  BY DEF Imp
<1>2. \A p : FaImpPort(p, "5301x") = StandsFor(board, p)
  BY <1>1 DEF FaImpPort, StandsFor, AuxPortOf, AuxPid, FaOn
<1> DEFINE Entry == [port : Nat, flag : {"", "t", "u", "*"}]
<1>3. board.lists[v] \in Seq(Entry)
  BY ListsAssumption, Zenon DEF Defined
<1>4. \E n \in Nat : DOMAIN board.lists[v] = 1..n
  <2> HIDE DEF Entry
  <2> DEFINE list == board.lists[v]
  <2>1. list \in Seq(Entry)
    BY <1>3
  <2> HIDE DEF list
  <2>2. Len(list) \in Nat /\ DOMAIN list = 1..Len(list)
    BY <2>1
  <2>3. QED BY <2>2 DEF list
<1>5. QED BY <1>1, <1>2, <1>4 DEF Members

(* robo_cpu_port_upd finds the CPU's port if any list has it.               *)
LEMMA CpuPortUpdIs ==
  ASSUME board \in Boards, board.dev = "5301x", board.soc,
         NEW q, CpuBehind(board, q)
  PROVE  /\ CpuPortUpd("5301x") \subseteq {q}
         /\ (\E v \in Defined : HasCpu(v)) => CpuPortUpd("5301x") = {q}
<1> DEFINE d == "5301x"
           at(v) == {i \in DOMAIN Members(v, d) : Members(v, d)[i].flag \in {"u", "*"}}
           with == {v \in Defined : at(v) # {}}
<1>1. CpuPortUpd(d) = IF with = {} THEN {}
                      ELSE {Members(Min(with), d)[Min(at(Min(with)))].port}
  BY DEF CpuPortUpd
<1>2. ASSUME NEW v \in Defined
      PROVE  /\ at(v) \in SUBSET Nat
             /\ \A i \in at(v) : Members(v, d)[i].port = q
             /\ HasCpu(v) => at(v) # {}
  <2>1. /\ DOMAIN Members(v, d) = {i \in DOMAIN board.lists[v] : board.lists[v][i].port <= 8}
        /\ \A i \in DOMAIN Members(v, d) :
             /\ Members(v, d)[i].port = StandsFor(board, board.lists[v][i].port)
             /\ Members(v, d)[i].flag = board.lists[v][i].flag
    BY MembersAre
  <2>2. PICK n \in Nat : DOMAIN board.lists[v] = 1..n
    BY MembersAre
  <2>3. \A i \in DOMAIN board.lists[v] :
          board.lists[v][i].flag \in {"u", "*"} =>
            board.lists[v][i].port <= 8 /\ StandsFor(board, board.lists[v][i].port) = q
    BY DEF CpuBehind, Defined
  <2>4. QED BY <2>1, <2>2, <2>3 DEF HasCpu
<1>3. with \in SUBSET Nat
  BY BoardsAssumption DEF Defined, Vids
<1>4. ASSUME with # {} PROVE CpuPortUpd(d) = {q}
  <2>1. Min(with) \in with
    BY <1>3, <1>4, MinIs
  <2> DEFINE v == Min(with)
  <2>2. v \in Defined /\ at(v) # {} /\ at(v) \in SUBSET Nat
    BY <1>2, <2>1
  <2>3. Min(at(v)) \in at(v)
    <3> HIDE DEF at
    <3>1. QED BY <2>2, MinIs
  <2>4. Members(v, d)[Min(at(v))].port = q
    BY <1>2, <2>2, <2>3
  <2>5. QED BY <1>1, <1>4, <2>4
<1>5. (\E v \in Defined : HasCpu(v)) => with # {}
  BY <1>2
<1>6. QED BY <1>1, <1>4, <1>5

(* The address of a VLAN the CPU is in leads to the CPU's port, a member.   *)
LEMMA ArlPortIs ==
  ASSUME board \in Boards, board.dev = "5301x", board.soc,
         NEW q, CpuBehind(board, q), NEW v \in Defined, HasCpu(v)
  PROVE  ArlPort(v, "5301x", {8, q}) = q /\ q \in MemberPorts(v, "5301x")
<1> DEFINE d == "5301x"
           cpus == {i \in DOMAIN Members(v, d) : Members(v, d)[i].port \in {8, q}}
<1>1. /\ DOMAIN Members(v, d) = {i \in DOMAIN board.lists[v] : board.lists[v][i].port <= 8}
      /\ \A i \in DOMAIN Members(v, d) :
           /\ Members(v, d)[i].port = StandsFor(board, board.lists[v][i].port)
           /\ Members(v, d)[i].flag = board.lists[v][i].flag
  BY MembersAre
<1>2. PICK n \in Nat : DOMAIN board.lists[v] = 1..n
  BY MembersAre
<1>3. \A i \in DOMAIN board.lists[v] :
        LET e == board.lists[v][i]
        IN  /\ e.flag \in {"u", "*"} => e.port <= 8 /\ StandsFor(board, e.port) = q
            /\ e.port <= 8 /\ StandsFor(board, e.port) = 8 => q = 8
  BY DEF CpuBehind, Defined
<1>4. PICK i \in DOMAIN board.lists[v] : board.lists[v][i].flag \in {"u", "*"}
  BY DEF HasCpu
<1>5. i \in DOMAIN Members(v, d) /\ Members(v, d)[i].port = q
  BY <1>1, <1>3, <1>4
<1>6. cpus \in SUBSET (0..n) /\ cpus # {}
  BY <1>1, <1>2, <1>5
<1>7. \A j \in cpus : Members(v, d)[j].port = q
  BY <1>1, <1>3
<1>8. Max(cpus) \in cpus
  <2> HIDE DEF cpus
  <2>1. QED BY <1>6, MaxIs
<1>9. ArlPort(v, d, {8, q}) = Members(v, d)[Max(cpus)].port
  BY <1>6 DEF ArlPort
<1>10. q \in MemberPorts(v, d)
  BY <1>5 DEF MemberPorts, Range
<1>11. QED BY <1>7, <1>8, <1>9, <1>10

(* What a probe has done for the CPU's port: the tables, and its link.      *)
TablesAt == {"forward", "cpu", "defaults", "fa", "up", "register"}
LinkedAt == {"defaults", "fa", "up", "register"}
InService == step = "idle" /\ Bound # {}

Reaching == board.dev = "5301x" /\ board.soc /\ lost = "nothing"
SomeCpu == \E v \in Defined : HasCpu(v)

LedTo(q) == \A v \in Defined \ {0} :
              HasCpu(v) => vlan.arl[v] = q /\ q \in vlan.member[v]

(* For the port q the CPU is behind: a probe marks no other, and from the   *)
(* steps that do it to the next probe's reset the tables lead to it and its *)
(* link is up.                                                             *)
Reached(q) ==
    /\ cpu \subseteq {q} /\ (step \in TablesAt => cpu = {q})
    /\ step \in TablesAt \/ InService => LedTo(q)
    /\ step \in LinkedAt \/ InService => "up" \in sw[LinkReg(q)]

ReachInv ==
    Reaching =>
        /\ step \notin {"idle", "attach"} => dev = "5301x"
        /\ \A q \in {5, 7, 8} : CpuBehind(board, q) /\ SomeCpu => Reached(q)

LEMMA ReachInit == SwitchInit => ReachInv
<1> SUFFICES ASSUME SwitchInit PROVE ReachInv
  OBVIOUS
<1>1. step = "idle" /\ cpu = {} /\ unit = [c \in Cores |-> None]
  BY Zenon DEF SwitchInit
<1>2. Bound = {}
  BY <1>1 DEF Bound
<1>3. QED BY <1>1, <1>2 DEF ReachInv, Reached, TablesAt, LinkedAt, InService

LEMMA LinkRegisters ==
  /\ \A q \in {5, 7, 8} : LinkReg(q) \in {"PORT5", "PORT7", "MIIPO"}
  /\ {"PORT5", "PORT7", "MIIPO"} \subseteq RegisterNames
BY DEF LinkReg, RegisterNames

(* The steps that leave the tables, the marks and the links alone, or force *)
(* one more link up.                                                       *)
LEMMA ReachKept ==
  ASSUME ReachInv, UNCHANGED <<board, vlan, cpu, dev>>, lost \in {"nothing", lost'},
         \A r \in {"PORT5", "PORT7", "MIIPO"} : "up" \in sw[r] => "up" \in sw'[r],
         step' \notin {"idle", "attach"} => step \notin {"idle", "attach"},
         step' \in TablesAt => step \in TablesAt,
         step' \in LinkedAt => step \in LinkedAt,
         step' = "idle" /\ Bound' # {} => step \in LinkedAt \/ InService
  PROVE  ReachInv'
<1>1. LinkedAt \subseteq TablesAt
  BY DEF TablesAt, LinkedAt
<1>2. ASSUME Reaching', NEW q \in {5, 7, 8}, CpuBehind(board', q), SomeCpu'
      PROVE  Reached(q)'
  <2>1. Reached(q)
    BY <1>2 DEF ReachInv, Reaching, SomeCpu, Defined, HasCpu
  <2>2. LedTo(q) => LedTo(q)'
    BY DEF LedTo, Defined, HasCpu
  <2>3. "up" \in sw[LinkReg(q)] => "up" \in sw'[LinkReg(q)]
    BY LinkRegisters
  <2>4. InService' => step \in LinkedAt \/ InService
    BY DEF InService
  <2>5. QED BY <1>1, <2>1, <2>2, <2>3, <2>4 DEF Reached
<1>3. Reaching' => Reaching
  BY DEF Reaching
<1>4. QED BY <1>2, <1>3 DEF ReachInv

(* With every access answered, bcm_robo_attach gives the probe no cause to  *)
(* give up: the SRAB told it the device id.                                *)
LEMMA AttachReaches ==
  ASSUME BaseInv, ReachInv, RoboAttach PROVE ReachInv'
<1>1. board \in Boards /\ UNCHANGED <<board, cpu>>
  BY DEF BaseInv, ProbeInv, RoboAttach, statics
<1>2. PICK x \in Losable(ReadFails("id", "MODE", {{}})) :
        /\ Lose(x) /\ dev' = Devid(x)
        /\ IF Reachable(x) THEN step' = "enable" ELSE step' = "idle"
  BY DEF RoboAttach, ProbeFails
<1>3. \A y \in ReadFails("id", "MODE", {{}}) : y[1] # "nothing"
  BY <1>1, KindsOfReads
<1>4. lost \in {"nothing", lost'}
  BY LostGrows DEF SwitchNext
<1>5. ASSUME Reaching' PROVE step' = "enable" /\ dev' = "5301x"
  <2>1. x = Nothing
    BY <1>2, <1>3, <1>5, NothingOf DEF Reaching
  <2>2. board.bus = "srab" /\ board.dev = "5301x"
    BY <1>1, <1>5, BoardsAssumption DEF Reaching
  <2>3. QED BY <1>2, <2>1, <2>2 DEF Reachable, Devid
<1>6. Reaching' => Reaching
  BY <1>1, <1>4 DEF Reaching
<1>7. QED BY <1>1, <1>5, <1>6 DEF ReachInv, Reached, InService, TablesAt, LinkedAt,
     SomeCpu, Defined, HasCpu

LEMMA EnableReaches ==
  ASSUME ReachInv, EnableDevice PROVE ReachInv'
<1>1. /\ UNCHANGED <<board, cpu, dev>> /\ step = "enable"
      /\ dev = "5301x" => step' = "vlan"
  BY DEF EnableDevice, statics
<1>2. lost \in {"nothing", lost'}
  BY LostGrows DEF SwitchNext
<1>3. Reaching' => Reaching
  BY <1>1, <1>2 DEF Reaching
<1>4. QED BY <1>1, <1>3 DEF ReachInv, Reached, InService, TablesAt, LinkedAt,
     SomeCpu, Defined, HasCpu

(* bcm_robo_config_vlan marks the CPU's port and leads every VLAN to it.    *)
LEMMA ConfigReaches ==
  ASSUME BaseInv, ReachInv, ConfigVlan PROVE ReachInv'
<1> DEFINE marks == IF dev = "5301x" THEN cpu \cup CpuPortUpd(dev) ELSE cpu
           m == {Imp(dev)} \cup IF dev = "5325" THEN {} ELSE marks
           A == WritesFail({"CTRL0"}) \cup UNION {WriteFails("vlan", v) : v \in Defined}
<1>1. board \in Boards
  BY DEF BaseInv, ProbeInv
<1>2. PICK x \in Losable(A) :
        /\ Lose(x) /\ step = "vlan" /\ step' = "forward" /\ cpu' = marks
        /\ vlan' = VlanSetup(m, x) /\ UNCHANGED <<board, dev>>
  BY DEF ConfigVlan
<1>3. \A y \in A : y[1] # "nothing"
  BY <1>1, KindsOfWrites, KindsOfLists
<1>4. lost \in {"nothing", lost'}
  BY LostGrows DEF SwitchNext
<1>5. Reaching' => Reaching /\ dev = "5301x"
  BY <1>2, <1>4 DEF Reaching, ReachInv
<1>6. ASSUME Reaching', NEW q \in {5, 7, 8}, CpuBehind(board, q), SomeCpu
      PROVE  cpu' = {q} /\ LedTo(q)'
  <2>1. board.dev = "5301x" /\ board.soc /\ board.bus = "srab" /\ dev = "5301x"
    BY <1>1, <1>5, <1>6, BoardsAssumption DEF Reaching
  <2>2. x = Nothing
    <3> HIDE DEF A
    <3>1. QED BY <1>2, <1>3, <1>6, NothingOf DEF Reaching
  <2>3. cpu \subseteq {q} /\ CpuPortUpd(dev) = {q}
    BY <1>1, <1>5, <1>6, <2>1, CpuPortUpdIs DEF ReachInv, Reached, SomeCpu
  <2>4. marks = {q} /\ m = {8, q}
    BY <2>1, <2>3 DEF Imp
  <2>5. ASSUME NEW v \in Defined \ {0}, HasCpu(v)
        PROVE  vlan'.arl[v] = q /\ q \in vlan'.member[v]
    <3>1. v \in Vids /\ v \in SetUp(dev) /\ ~Lost(x, "vlan", v)
      BY <1>1, <2>1, <2>2, BoardsAssumption, NothingLost DEF SetUp, Defined
    <3> HIDE DEF m
    <3>2. vlan'.arl[v] = ArlPort(v, dev, m) /\ vlan'.member[v] = MemberPorts(v, dev)
      BY <1>2, <2>1, <3>1 DEF VlanSetup
    <3>3. QED BY <1>1, <1>6, <2>1, <2>4, <2>5, <3>2, ArlPortIs
  <2>6. QED BY <1>2, <2>4, <2>5 DEF LedTo, Defined, HasCpu
<1>7. QED BY <1>2, <1>5, <1>6 DEF ReachInv, Reached, InService, TablesAt, LinkedAt,
     SomeCpu, Defined, HasCpu

(* bcm_robo_enable_switch forces the link of the first CPU port up.         *)
LEMMA ForceReaches ==
  ASSUME BaseInv, ReachInv, ForceCpuPort PROVE ReachInv'
<1> DEFINE port == IF FirstCpu = 5 THEN "PORT5" ELSE "PORT7"
           regs == CASE dev = "5301x" /\ FirstCpu = 8 ->
                          {"MIIPO", "IMP", "MGMT_CFG", "MODE", "PORT5", "PORT7"}
                    [] dev = "5301x" /\ FirstCpu # 8 -> {port}
                    [] dev = "53125" -> {"MIIPO"}
                    [] OTHER -> {}
           A == ReadsFail(regs) \cup WritesFail(regs)
<1>1. /\ board \in Boards /\ IsSwitch(sw) /\ UNCHANGED <<board, vlan, cpu, dev>>
      /\ step = "cpu" /\ step' = "defaults"
  BY DEF BaseInv, ProbeInv, ForceCpuPort
<1>2. PICK x \in Losable(A) :
        /\ Lose(x)
        /\ dev = "5301x" /\ FirstCpu = 8 => sw' = ImpUp(x)
        /\ dev = "5301x" /\ FirstCpu # 8 =>
             sw' = [sw EXCEPT ![port] = IF Lost(x, "write", port) THEN @ ELSE {"up"}]
  BY DEF ForceCpuPort
<1>3. \A y \in A : y[1] # "nothing"
  <2> HIDE DEF regs
  <2>1. QED BY <1>1, KindsOfLists
<1>4. lost \in {"nothing", lost'}
  BY LostGrows DEF SwitchNext
<1>5. Reaching' => Reaching /\ dev = "5301x" /\ x = Nothing
  <2> HIDE DEF A
  <2>1. QED BY <1>1, <1>2, <1>3, <1>4, NothingOf DEF Reaching, ReachInv
<1>6. ASSUME Reaching', NEW q \in {5, 7, 8}, cpu = {q}
      PROVE  "up" \in sw'[LinkReg(q)]
  <2>1. (cpu \cup {8}) \ {6} = {q, 8}
    BY <1>6
  <2>2. FirstCpu = q
    BY <2>1 DEF FirstCpu, Min
  <2>3. CASE q = 8
    <3> DEFINE v == [MIIPO |-> Seen(sw, "MIIPO", x) \cup {"up"},
                     IMP |-> Seen(sw, "IMP", x) \cup {"rx"},
                     MGMT_CFG |-> Seen(sw, "MGMT_CFG", x) \cup {"imp0"},
                     MODE |-> Seen(sw, "MODE", x) \cup {"managed"},
                     PORT5 |-> Seen(sw, "PORT5", x) \ {"up"},
                     PORT7 |-> Seen(sw, "PORT7", x) \ {"up"}]
    <3>1. "MIIPO" \in DOMAIN v /\ "up" \in v["MIIPO"] /\ sw' = Written(sw, v, x)
      BY <1>2, <1>5, <1>6, <2>2, <2>3 DEF ImpUp
    <3> HIDE DEF v
    <3>2. ~Lost(x, "write", "MIIPO") /\ "MIIPO" \in RegisterNames
      BY <1>5, <1>6, NothingLost, LinkRegisters
    <3>3. "up" \in sw'["MIIPO"]
      BY <1>1, <3>1, <3>2, WrittenIs
    <3>4. QED BY <2>3, <3>3 DEF LinkReg
  <2>4. CASE q # 8
    <3>1. port = LinkReg(q) /\ port \in RegisterNames
      BY <1>6, <2>2, <2>4, LinkRegisters DEF LinkReg
    <3>2. ~Lost(x, "write", port)
      BY <1>5, <1>6, NothingLost
    <3> HIDE DEF port
    <3>3. sw' = [sw EXCEPT ![port] = {"up"}]
      BY <1>2, <1>5, <1>6, <2>2, <2>4, <3>2
    <3>4. sw'[port] = {"up"}
      BY <1>1, <3>1, <3>3, ExceptIs
    <3>5. QED BY <3>1, <3>4
  <2>5. QED BY <2>3, <2>4
<1>7. ASSUME Reaching', NEW q \in {5, 7, 8}, CpuBehind(board, q), SomeCpu
      PROVE  Reached(q)'
  <2>1. Reached(q)
    BY <1>5, <1>7 DEF ReachInv
  <2>2. cpu = {q} /\ LedTo(q)
    BY <1>1, <2>1 DEF Reached, TablesAt
  <2>3. LedTo(q)' /\ "up" \in sw'[LinkReg(q)] /\ cpu' = {q}
    BY <1>1, <1>6, <1>7, <2>2 DEF LedTo, Defined, HasCpu
  <2>4. QED BY <2>3 DEF Reached
<1>8. SomeCpu' <=> SomeCpu
  BY <1>1 DEF SomeCpu, Defined, HasCpu
<1>9. QED BY <1>1, <1>5, <1>7, <1>8 DEF ReachInv

LEMMA ReloadReaches ==
  ASSUME ReachInv, Reload PROVE ReachInv'
<1>1. /\ UNCHANGED <<board, lost, dev>> /\ step' = "idle" /\ cpu' = {} /\ Bound' = {}
  BY DEF Reload, probing, Bound
<1>2. QED BY <1>1 DEF ReachInv, Reached, InService, TablesAt, LinkedAt

LEMMA ReachStep == BaseInv /\ ReachInv /\ [SwitchNext]_switchVars => ReachInv'
<1> SUFFICES ASSUME BaseInv, ReachInv, [SwitchNext]_switchVars PROVE ReachInv'
  OBVIOUS
<1> DEFINE Links == \A r \in {"PORT5", "PORT7", "MIIPO"} : "up" \in sw[r] => "up" \in sw'[r]
<1>1. IsSwitch(sw) /\ board \in Boards
  BY DEF BaseInv, ProbeInv
<1>2. \A rs : Only(rs) /\ {"PORT5", "PORT7", "MIIPO"} \cap rs = {} => Links
  BY LinkRegisters DEF Only
<1>3. CASE EnableForwarding \/ DefaultsOff \/ FaAttach \/ FaUp
  <2>1. Links
    <3>1. CASE FaAttach
      <4>1. PICK x : sw' = sw \/ sw' = AuxInit(sw, x)
        BY <3>1 DEF FaAttach
      <4>2. AuxReg \in RegisterNames \ {"RULES"}
        BY FaRegisters DEF RegisterNames
      <4>3. Lost(x, "write", AuxReg) => AuxInit(sw, x)[AuxReg] = sw[AuxReg]
        <5> DEFINE v == [r \in {AuxReg} |-> Seen(sw, r, x) \cup {"up"}]
                   w == Written(sw, v, x)
        <5>1. IsSwitch(w) /\ (Lost(x, "write", AuxReg) => w[AuxReg] = sw[AuxReg])
          <6> HIDE DEF v
          <6>1. QED BY <1>1, <4>2, WrittenIs
        <5>2. AuxInit(sw, x) \in {sw, [w EXCEPT !["RULES"] = w["RULES"] \cup Filters(x)]}
          BY DEF AuxInit
        <5> HIDE DEF w
        <5>3. QED BY <4>2, <5>1, <5>2, ExceptIs DEF RegisterNames
      <4>4. "up" \in sw[AuxReg] => "up" \in AuxInit(sw, x)[AuxReg]
        <5>1. CASE AuxPid = None
          BY <5>1 DEF AuxInit
        <5>2. CASE AuxPid # None
          BY <1>1, <4>3, <5>2, AuxInitIs
        <5>3. QED BY <5>1, <5>2
      <4>5. QED BY <1>1, <4>1, <4>4, AuxInitIs, LinkRegisters DEF RegisterNames
    <3>2. QED BY <1>1, <1>2, <1>3, <3>1, ForwardingSets, DefaultsOnly, FaUpOnly
  <2>2. lost \in {"nothing", lost'}
    BY <1>3, LostGrows DEF SwitchNext
  <2>3. UNCHANGED <<board, vlan, cpu, dev, Bound>>
    BY <1>3 DEF EnableForwarding, DefaultsOff, FaAttach, FaUp, statics, devices, Bound
  <2>4. \/ step = "forward" /\ step' = "cpu"
        \/ step = "defaults" /\ step' \in {"idle", "fa"}
        \/ step = "fa" /\ step' \in {"up", "register"}
        \/ step = "up" /\ step' = "register"
    BY <1>3 DEF EnableForwarding, DefaultsOff, FaAttach, FaUp, ProbeFails
  <2>5. /\ step' \notin {"idle", "attach"} => step \notin {"idle", "attach"}
        /\ (step' \in TablesAt => step \in TablesAt) /\ (step' \in LinkedAt => step \in LinkedAt)
        /\ step' = "idle" /\ Bound' # {} => step \in LinkedAt \/ InService
    BY <2>4 DEF TablesAt, LinkedAt
  <2>6. QED BY <2>1, <2>2, <2>3, <2>5, ReachKept
<1>4. CASE RegisterDevice \/ RegisterFails
  <2>1. Links
    BY <1>1, <1>2, <1>4, DetachedOnly DEF RegisterDevice, RegisterFails
  <2>2. UNCHANGED <<board, vlan, cpu, dev, lost>> /\ step = "register" /\ step' = "idle"
    BY <1>4 DEF RegisterDevice, RegisterFails, ProbeFails, statics
  <2>3. QED BY <2>1, <2>2, ReachKept DEF TablesAt, LinkedAt
<1>5. CASE ProbeStart \/ RemoveLast
  <2>1. Links
    BY <1>1, <1>2, <1>5, DetachedOnly DEF ProbeStart, RemoveLast
  <2>2. /\ UNCHANGED <<board, vlan, cpu, dev, lost>> /\ step = "idle" /\ step' \in {"idle", "attach"}
        /\ Bound' # {} => Bound # {}
    BY <1>5 DEF ProbeStart, RemoveLast, statics, probing, devices, Bound
  <2>3. QED BY <2>1, <2>2, ReachKept DEF TablesAt, LinkedAt, InService
<1>6. CASE (\E c \in Cores : Open(c) \/ Close(c)) \/ UNCHANGED switchVars
  <2>1. Links
    BY <1>1, <1>2, <1>6, OpenCloseOnly DEF switchVars
  <2>2. lost \in {"nothing", lost'}
    BY <1>6, LostGrows DEF SwitchNext, switchVars
  <2>3. UNCHANGED <<board, vlan, cpu, dev, step, Bound>>
    BY <1>6 DEF Open, Close, switchVars, statics, probing, devices, Bound
  <2>4. QED BY <2>1, <2>2, <2>3, ReachKept DEF InService
<1>7. QED BY <1>3, <1>4, <1>5, <1>6, AttachReaches, EnableReaches, ConfigReaches,
     ForceReaches, ReloadReaches DEF SwitchNext

(* Where nvram marks one port as the CPU's, on a 5301x, and as long as      *)
(* every access is answered, the driver's own address leads to the CPU's    *)
(* port in every VLAN that has it, and that port's link is forced up,       *)
(* whichever core was probed last and whatever the others' probes reset.    *)
THEOREM CpuReached ==
  ASSUME OneCpuPort
  PROVE  SwitchSpec => []VlansReachCpu
<1>1. BaseInv /\ ReachInv => VlansReachCpu
  <2> SUFFICES ASSUME BaseInv, ReachInv, Settled, lost = "nothing", Bound # {},
                      board.dev = "5301x", NEW v \in Defined \ {0}, HasCpu(v)
               PROVE  vlan.arl[v] \in vlan.member[v] \cap Linked
    BY DEF VlansReachCpu
  <2>1. board \in Boards
    BY DEF BaseInv, ProbeInv
  <2>2. PICK q \in {5, 7, 8} : CpuBehind(board, q)
    BY <2>1 DEF OneCpuPort
  <2>3. Reaching /\ SomeCpu
    BY <2>1 DEF OneCpuPort, Reaching, SomeCpu
  <2>4. Reached(q)
    BY <2>2, <2>3 DEF ReachInv
  <2>5. LedTo(q) /\ "up" \in sw[LinkReg(q)]
    BY <2>4 DEF Reached, Settled, InService
  <2>6. vlan.arl[v] = q /\ q \in vlan.member[v]
    BY <2>5 DEF LedTo
  <2>7. QED BY <2>5, <2>6 DEF Linked
<1>2. QED BY <1>1, BaseInit, BaseStep, ReachInit, ReachStep, PTL DEF SwitchSpec
=============================================================================
