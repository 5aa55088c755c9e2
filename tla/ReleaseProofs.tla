--------------------------- MODULE ReleaseProofs ---------------------------
(* Theorems about ReleasePipeline, for any number of runs, versions and faults. *)
EXTENDS ReleasePipeline, TLAPS

\* What the pipeline means to ship.
Paired(image) == image.fmac = "patched" /\ image.util = "debug"

\* A run has built a pair by the time it looks for a manifest, and whatever is
\* published came from such a run.
RunsHoldPairs ==
  \A r \in Runs : run[r].pc \notin {"idle", "build"} => Paired(run[r].image)
ReleasesArePairs == \A v \in Versions : release[v] # Absent => Paired(release[v])

PairInv == TypeOK /\ RunsHoldPairs /\ ReleasesArePairs

JobType == [pc : {"idle", "build", "fetch", "verify", "delete", "create", "exists"},
         version : Versions, image : Images, prev : Manifests]

LEMMA IdleTyped == Idle \in JobType /\ Idle.pc = "idle"
  BY BoundsAssumption DEF Idle, JobType, Versions, Images, NoImage, Manifests

LEMMA PairInit == Init => PairInv
<1>1. Init => 1 \in Versions /\ 0 \in 0 .. MaxManual /\ 0 \in 0 .. MaxFaults
  BY BoundsAssumption DEF Versions
<1> QED  BY <1>1, IdleTyped DEF Init, PairInv, TypeOK, RunsHoldPairs, ReleasesArePairs, JobType

LEMMA FaultTyped == TypeOK /\ (Fault \/ NoFault) => faults' \in 0 .. MaxFaults
  BY BoundsAssumption DEF TypeOK, Fault, NoFault

\* With the release number bumped and both packages staged apk has no choice,
\* and a stray module in the overlay stops the build.
LEMMA BuiltPaired ==
  ASSUME NEW stray \in BOOLEAN, NEW shrunk \in BOOLEAN, NEW beside \in SUBSET Packages,
         ~ Refused(stray), NEW image \in Built(stray, shrunk, beside)
  PROVE  image \in Images /\ Paired(image)
<1>1. Resolve("brcmfmac" \in Staged, "patched", "plain") = {"patched"}
  BY DEF Resolve, Staged, Packages, Bump
<1>2. Resolve("brcmutil" \in Staged, "debug", "plain") = {"debug"}
  BY DEF Resolve, Staged, Packages, Bump
<1>3. image = [fmac |-> "patched", util |-> "debug", shrunk |-> shrunk, beside |-> beside]
  BY <1>1, <1>2 DEF Built, Refused, Overlaid
<1> QED  BY <1>3 DEF Images, Paired

\* A step of a run that replaces its job by a well typed one that holds a pair
\* if it has to, and publishes nothing.
LEMMA JobKeeps ==
  ASSUME PairInv, NEW r \in Runs, NEW j \in JobType,
         j.pc \notin {"idle", "build"} => Paired(j.image),
         run' = [run EXCEPT ![r] = j],
         UNCHANGED <<tag, tracker, release, latest, manual>>, Fault \/ NoFault
  PROVE  PairInv'
<1>1. run' \in [Runs -> JobType] /\ run'[r] = j /\ \A q \in Runs \ {r} : run'[q] = run[q]
  BY DEF PairInv, TypeOK, JobType
<1>2. faults' \in 0 .. MaxFaults
  BY FaultTyped DEF PairInv
<1>3. TypeOK'
  BY <1>1, <1>2 DEF PairInv, TypeOK, JobType
<1>4. RunsHoldPairs'
  BY <1>1 DEF PairInv, RunsHoldPairs
<1>5. ReleasesArePairs'
  BY DEF PairInv, ReleasesArePairs
<1> QED  BY <1>3, <1>4, <1>5 DEF PairInv

LEMMA StartKeeps ==
  ASSUME PairInv, NEW r \in Runs, NEW v \in Versions, Start(r, v)
  PROVE  /\ run' \in [Runs -> JobType]
         /\ RunsHoldPairs'
<1>1. [Idle EXCEPT !.pc = "build", !.version = v] \in JobType
  BY IdleTyped DEF JobType
<1>2. [Idle EXCEPT !.pc = "build", !.version = v].pc = "build"
  BY IdleTyped DEF JobType
<1>3. run' = [run EXCEPT ![r] = [Idle EXCEPT !.pc = "build", !.version = v]]
  BY DEF Start
<1> QED  BY <1>1, <1>2, <1>3 DEF PairInv, TypeOK, JobType, RunsHoldPairs

LEMMA TrackerKeeps == ASSUME PairInv, Tag \/ Tracker \/ Dispatch PROVE PairInv'
<1> USE DEF PairInv
<1>0. ReleasesArePairs'
  BY DEF ReleasesArePairs, Tag, Tracker, List, Check, Trigger, Dispatch
<1>1. CASE Tag
  BY <1>0, <1>1, BoundsAssumption DEF Tag, TypeOK, Versions, RunsHoldPairs
<1>2. CASE List
  BY <1>0, <1>2 DEF List, Newest, TypeOK, RunsHoldPairs
<1>3. CASE Check
  <2>1. faults' \in 0 .. MaxFaults
    BY <1>3, FaultTyped DEF Check
  <2>2. tracker' \in [pc : {"list", "check", "trigger"}, listed : Versions]
    BY <1>3 DEF Check, TypeOK
  <2> QED  BY <1>0, <1>3, <2>1, <2>2 DEF Check, TypeOK, RunsHoldPairs
<1>4. CASE Trigger
  <2>1. PICK r \in Runs : Start(r, tracker.listed)
    BY <1>4 DEF Trigger
  <2>2. run' \in [Runs -> JobType] /\ RunsHoldPairs'
    BY <2>1, StartKeeps DEF TypeOK
  <2> QED  BY <1>0, <1>4, <2>2 DEF Trigger, TypeOK, JobType
<1>5. CASE Dispatch
  <2>1. PICK r \in Runs, v \in 1 .. tag : Start(r, v)
    BY <1>5 DEF Dispatch
  <2>2. v \in Versions
    BY BoundsAssumption DEF TypeOK, Versions
  <2>3. run' \in [Runs -> JobType] /\ RunsHoldPairs'
    BY <2>1, <2>2, StartKeeps
  <2>4. manual' \in 0 .. MaxManual
    BY <1>5, BoundsAssumption DEF Dispatch, TypeOK
  <2> QED  BY <1>0, <1>5, <2>3, <2>4 DEF Dispatch, TypeOK, JobType
<1> QED  BY <1>1, <1>2, <1>3, <1>4, <1>5 DEF Tracker

LEMMA BuildKeeps == ASSUME PairInv, NEW r \in Runs, Build(r) PROVE PairInv'
<1>1. run[r] \in JobType /\ Idle \in JobType /\ Idle.pc = "idle"
  BY IdleTyped DEF PairInv, TypeOK, JobType
<1>2. CASE Fault /\ run' = [run EXCEPT ![r] = Idle]
  BY <1>1, <1>2, JobKeeps DEF Build
<1>3. ASSUME NEW stray \in BOOLEAN, NEW shrunk \in BOOLEAN, NEW beside \in SUBSET Packages,
             Fault \/ NoFault,
             IF Refused(stray)
             THEN run' = [run EXCEPT ![r] = Idle]
             ELSE \E image \in Built(stray, shrunk, beside) :
                    run' = [run EXCEPT ![r].pc = "fetch", ![r].image = image]
      PROVE  PairInv'
  <2>1. CASE Refused(stray)
    BY <1>1, <1>3, <2>1, JobKeeps DEF Build
  <2>2. CASE ~ Refused(stray)
    <3>1. PICK image \in Built(stray, shrunk, beside) :
            run' = [run EXCEPT ![r].pc = "fetch", ![r].image = image]
      BY <1>3, <2>2
    <3>2. image \in Images /\ Paired(image)
      BY <2>2, BuiltPaired
    <3> DEFINE j == [run[r] EXCEPT !.pc = "fetch", !.image = image]
    <3>3. j \in JobType /\ Paired(j.image)
      BY <1>1, <3>2 DEF JobType
    <3>4. run' = [run EXCEPT ![r] = j]
      BY <1>1, <3>1 DEF PairInv, TypeOK, JobType
    <3> HIDE DEF j
    <3> QED  BY <1>3, <3>3, <3>4, JobKeeps DEF Build
  <2> QED  BY <2>1, <2>2
<1> QED  BY <1>2, <1>3 DEF Build

LEMMA FetchKeeps == ASSUME PairInv, NEW r \in Runs, Fetch(r) PROVE PairInv'
<1>1. run[r] \in JobType /\ Paired(run[r].image)
  BY DEF PairInv, TypeOK, JobType, RunsHoldPairs, Fetch
<1>2. PICK m \in Manifests : run' = [run EXCEPT ![r].pc = "verify", ![r].prev = m]
  BY DEF Fetch, Manifests
<1> DEFINE j == [run[r] EXCEPT !.pc = "verify", !.prev = m]
<1>3. j \in JobType /\ Paired(j.image)
  BY <1>1 DEF JobType
<1>4. run' = [run EXCEPT ![r] = j]
  BY <1>1, <1>2 DEF PairInv, TypeOK, JobType
<1>5. UNCHANGED <<tag, tracker, release, latest, manual>> /\ (Fault \/ NoFault)
  BY DEF Fetch
<1> HIDE DEF j
<1> QED  BY <1>3, <1>4, <1>5, JobKeeps

LEMMA VerifyKeeps == ASSUME PairInv, NEW r \in Runs, Verify(r) PROVE PairInv'
<1>1. run[r] \in JobType /\ Paired(run[r].image)
  BY DEF PairInv, TypeOK, JobType, RunsHoldPairs, Verify
<1> DEFINE j == [run[r] EXCEPT !.pc = "delete"]
<1>2. j \in JobType /\ Paired(j.image)
  BY <1>1 DEF JobType
<1>3. run' = [run EXCEPT ![r] = j] \/ run' = [run EXCEPT ![r] = Idle]
  BY DEF Verify
<1>4. UNCHANGED <<tag, tracker, release, latest, manual>> /\ (Fault \/ NoFault)
  BY DEF Verify
<1> HIDE DEF j
<1> QED  BY <1>2, <1>3, <1>4, IdleTyped, JobKeeps

LEMMA DeleteKeeps == ASSUME PairInv, NEW r \in Runs, Delete(r) PROVE PairInv'
<1>1. run[r] \in JobType /\ Paired(run[r].image) /\ run[r].version \in Versions
  BY DEF PairInv, TypeOK, JobType, RunsHoldPairs, Delete
<1>2. run' \in [Runs -> JobType] /\ RunsHoldPairs'
  BY <1>1 DEF Delete, PairInv, TypeOK, JobType, RunsHoldPairs
<1>3. faults' \in 0 .. MaxFaults
  BY FaultTyped DEF PairInv, Delete
<1>4. CASE release' = [release EXCEPT ![run[r].version] = Absent]
  <2>1. release' \in [Versions -> Images \cup {Absent}] /\ ReleasesArePairs'
    BY <1>1, <1>4 DEF PairInv, TypeOK, ReleasesArePairs
  <2>2. latest' \in Versions \cup {0}
    BY DEF Delete, Marks, PairInv, TypeOK
  <2> QED  BY <1>2, <1>3, <2>1, <2>2 DEF Delete, PairInv, TypeOK, JobType
<1>5. CASE UNCHANGED <<release, latest>>
  BY <1>2, <1>3, <1>5 DEF Delete, PairInv, TypeOK, JobType, ReleasesArePairs
<1> QED  BY <1>4, <1>5 DEF Delete

LEMMA CreateKeeps == ASSUME PairInv, NEW r \in Runs, Create(r) PROVE PairInv'
<1>1. run[r] \in JobType /\ Paired(run[r].image) /\ run[r].version \in Versions
         /\ run[r].image \in Images
  BY DEF PairInv, TypeOK, JobType, RunsHoldPairs, Create
<1>2. run' \in [Runs -> JobType] /\ RunsHoldPairs'
  BY <1>1, IdleTyped DEF Create, PairInv, TypeOK, JobType, RunsHoldPairs
<1>3. faults' \in 0 .. MaxFaults
  BY FaultTyped DEF PairInv, Create, NoFault
<1>4. CASE release' = [release EXCEPT ![run[r].version] = run[r].image]
           /\ latest' = run[r].version
  BY <1>1, <1>2, <1>3, <1>4 DEF Create, PairInv, TypeOK, JobType, ReleasesArePairs
<1>5. CASE UNCHANGED <<release, latest>>
  BY <1>2, <1>3, <1>5 DEF Create, PairInv, TypeOK, JobType, ReleasesArePairs
<1> QED  BY <1>4, <1>5 DEF Create

LEMMA ReportKeeps == ASSUME PairInv, NEW r \in Runs, Report(r) PROVE PairInv'
  BY IdleTyped, JobKeeps DEF Report, NoFault

LEMMA PairStep == PairInv /\ [Next]_vars => PairInv'
<1> SUFFICES ASSUME PairInv, [Next]_vars PROVE PairInv'
  OBVIOUS
<1>1. CASE UNCHANGED vars
  BY <1>1 DEF vars, PairInv, TypeOK, RunsHoldPairs, ReleasesArePairs
<1>2. CASE Tag \/ Tracker \/ Dispatch
  BY <1>2, TrackerKeeps
<1>3. ASSUME NEW r \in Runs, Job(r) PROVE PairInv'
  BY <1>3, BuildKeeps, FetchKeeps, VerifyKeeps, DeleteKeeps, CreateKeeps, ReportKeeps DEF Job
<1> QED  BY <1>1, <1>2, <1>3 DEF Next

\* Every state is well typed, for any runs, versions, operators and faults.
THEOREM PipelineTyped == Spec => []TypeOK
<1>1. PairInv => TypeOK
  BY DEF PairInv
<1> QED  BY <1>1, PairInit, PairStep, PTL DEF Spec

\* Whatever fails and however many runs overlap, every release holds the
\* patched driver.
THEOREM PatchedShipped == Spec => []ShipsPatched
<1>1. PairInv => ShipsPatched
  BY DEF PairInv, ReleasesArePairs, Paired, ShipsPatched
<1> QED  BY <1>1, PairInit, PairStep, PTL DEF Spec

\* And holds it with the kmod-brcmutil it needs.
THEOREM PairsLoad == Spec => []PairLoads
<1>1. PairInv => PairLoads
  BY DEF PairInv, ReleasesArePairs, Paired, PairLoads
<1> QED  BY <1>1, PairInit, PairStep, PTL DEF Spec

(***************************************************************************)
(* Replacement                                                             *)
(***************************************************************************)
\* A version has a release, or a run of it that has just deleted it is about
\* to create it.
Covered(v) ==
  \/ release[v] # Absent
  \/ \E r \in Runs : run[r].pc = "create" /\ run[r].version = v

LEMMA CoveredStep ==
  ASSUME NEW v \in Versions
  PROVE  TypeOK /\ faults = MaxFaults /\ Covered(v) /\ [Next]_vars
         => (faults = MaxFaults /\ Covered(v))'
<1> SUFFICES ASSUME TypeOK, faults = MaxFaults, Covered(v), [Next]_vars
             PROVE  faults' = faults /\ Covered(v)'
  OBVIOUS
<1>0. ~ Fault
  BY BoundsAssumption DEF Fault
<1>t. run \in [Runs -> JobType] /\ release \in [Versions -> Images \cup {Absent}]
  BY DEF TypeOK, JobType
<1>1. CASE Tag \/ Tracker \/ Dispatch \/ UNCHANGED vars
  <2>1. faults' = faults /\ release' = release
    BY <1>0, <1>1 DEF Tag, Tracker, List, Check, Trigger, Dispatch, NoFault, vars
  <2>2. \A r \in Runs : run[r].pc = "create" => run'[r] = run[r]
    <3>1. ASSUME NEW q \in Runs, NEW w, Start(q, w)
          PROVE  \A r \in Runs : run[r].pc = "create" => run'[r] = run[r]
      BY <3>1, <1>t DEF Start
    <3>2. CASE Tag \/ List \/ Check \/ UNCHANGED vars
      BY <3>2 DEF Tag, List, Check, vars
    <3>3. QED BY <1>1, <3>1, <3>2 DEF Tracker, Trigger, Dispatch
  <2>3. QED BY <2>1, <2>2 DEF Covered
<1>2. ASSUME NEW r \in Runs, Build(r) \/ Fetch(r) \/ Verify(r) \/ Report(r)
      PROVE  faults' = faults /\ Covered(v)'
  <2>1. faults' = faults /\ release' = release
    BY <1>0, <1>2 DEF Build, Fetch, Verify, Report, NoFault
  <2>2. run[r].pc # "create" /\ \A q \in Runs \ {r} : run'[q] = run[q]
    BY <1>2, <1>t DEF Build, Fetch, Verify, Report
  <2>3. QED BY <2>1, <2>2 DEF Covered
<1>3. ASSUME NEW r \in Runs, Delete(r) PROVE faults' = faults /\ Covered(v)'
  <2>1. faults' = faults /\ run[r].pc # "create" /\ \A q \in Runs \ {r} : run'[q] = run[q]
    BY <1>0, <1>3, <1>t DEF Delete, NoFault
  <2>2. run'[r].pc = "create" /\ run'[r].version = run[r].version
    BY <1>3, <1>t DEF Delete, JobType
  <2>3. run[r].version # v => release'[v] = release[v]
    BY <1>0, <1>3, <1>t DEF Delete
  <2>4. QED BY <2>1, <2>2, <2>3 DEF Covered
<1>4. ASSUME NEW r \in Runs, Create(r) PROVE faults' = faults /\ Covered(v)'
  <2>1. /\ faults' = faults /\ run[r].pc = "create"
        /\ \A q \in Runs \ {r} : run'[q] = run[q]
    BY <1>0, <1>4, <1>t DEF Create, NoFault
  <2>2. run[r].version \in Versions /\ run[r].image \in Images
    BY <1>t DEF JobType
  <2>3. CASE run[r].version = v
    <3>1. release'[v] # Absent
      BY <1>0, <1>4, <1>t, <2>2, <2>3, AbsentAssumption DEF Create
    <3>2. QED BY <2>1, <3>1 DEF Covered
  <2>4. CASE run[r].version # v
    <3>1. release'[v] = release[v]
      BY <1>4, <1>t, <2>4 DEF Create
    <3>2. QED BY <2>1, <2>4, <3>1 DEF Covered
  <2>5. QED BY <2>3, <2>4
<1>5. QED BY <1>1, <1>2, <1>3, <1>4 DEF Next, Job

\* Deleting a release to replace it loses it only to a failure: once no more
\* tools and calls fail, a version that is published stays so, but for the
\* moment between the two calls, however many runs of it overlap.
THEOREM PublishedStays ==
  ASSUME NEW v \in Versions
  PROVE  Spec => [](faults = MaxFaults /\ release[v] # Absent => []Covered(v))
<1>1. release[v] # Absent => Covered(v)
  BY DEF Covered
<1> QED  BY <1>1, CoveredStep, PipelineTyped, PTL DEF Spec
=============================================================================
