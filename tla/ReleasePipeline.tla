-------------------------- MODULE ReleasePipeline --------------------------
(***************************************************************************)
(* The release pipeline of .github: the tracker polls the tags of OpenWrt  *)
(* and starts a workflow run for the newest one that has no release; a run *)
(* builds an image, fetches the manifest of the latest release, verifies   *)
(* the image and publishes it, deleting the release it replaces first.     *)
(* Nothing serialises the runs: a build takes hours, the tracker polls     *)
(* daily, and the operator may start a run at any time.                    *)
(*                                                                         *)
(* Versions are numbered in the order of their tags.  An image is reduced  *)
(* to the two driver modules it holds, whether its package list shrank by  *)
(* more than five names, and which complete modules are carried beside it. *)
(***************************************************************************)
EXTENDS Naturals, FiniteSets

CONSTANTS Runs,          \* workflow runs that may be in flight together
          MaxVersion,    \* bound on the tags of the branch
          MaxManual,     \* bound on the runs started by hand
          MaxFaults,     \* bound on failed tools, builds and API calls
          Absent         \* stands for no release

ASSUME BoundsAssumption ==
  /\ MaxVersion \in Nat \ {0}
  /\ MaxManual \in Nat
  /\ MaxFaults \in Nat

VARIABLES tag,        \* the newest tag of the branch
          tracker,    \* the tracker's run: its next step and the tag it listed
          run,        \* the workflow runs
          release,    \* the releases auto-1, auto-2, ...
          latest,     \* the release marked latest, 0 for the hand-made one
          manual,     \* runs started by hand so far
          faults      \* faults so far

vars == <<tag, tracker, run, release, latest, manual, faults>>

Versions == 1 .. MaxVersion

Packages == {"brcmfmac", "brcmutil"}

\* The modules in an image.  The project's build of kmod-brcmfmac is patched
\* and needs a symbol that only a debug kmod-brcmutil exports; both modules of
\* the upstream feed are plain.
Images == [fmac : {"patched", "plain"}, util : {"debug", "plain"},
           shrunk : BOOLEAN, beside : SUBSET Packages]
ASSUME AbsentAssumption == Absent \notin Images
NoImage == [fmac |-> "plain", util |-> "plain", shrunk |-> FALSE, beside |-> {}]

Manifests == {"none", "full", "shrunk"}
Idle == [pc |-> "idle", version |-> 1, image |-> NoImage, prev |-> "none"]

Init ==
  /\ tag = 1
  /\ tracker = [pc |-> "list", listed |-> 1]
  /\ run = [r \in Runs |-> Idle]
  /\ release = [v \in Versions |-> Absent]
  /\ latest = 0
  /\ manual = 0
  /\ faults = 0

Fault == faults < MaxFaults /\ faults' = faults + 1
NoFault == UNCHANGED faults

(***************************************************************************)
(* The tracker                                                             *)
(***************************************************************************)
\* OpenWrt tags the next point release.
Tag ==
  /\ tag < MaxVersion
  /\ tag' = tag + 1
  /\ UNCHANGED <<tracker, run, release, latest, manual, faults>>

\* Mutant of Newest: sort without -V.
NewestBySort(tags) == 1

\* sort -V | tail -1 over the tags of the branch.
Newest(tags) == tags

\* A poll lists the tags and keeps the newest.
List ==
  /\ tracker.pc = "list"
  /\ tracker' = [pc |-> "check", listed |-> Newest(tag)]
  /\ UNCHANGED <<tag, run, release, latest, manual, faults>>

\* Only a version without a release needs a build; a query that fails is taken
\* for no release.
Check ==
  /\ tracker.pc = "check"
  /\ \/ /\ NoFault
        /\ tracker' = [tracker EXCEPT !.pc =
                         IF release[tracker.listed] = Absent THEN "trigger" ELSE "list"]
     \/ /\ Fault
        /\ tracker' = [tracker EXCEPT !.pc = "trigger"]
  /\ UNCHANGED <<tag, run, release, latest, manual>>

Start(r, v) ==
  /\ run[r].pc = "idle"
  /\ run' = [run EXCEPT ![r] = [Idle EXCEPT !.pc = "build", !.version = v]]

Trigger ==
  /\ tracker.pc = "trigger"
  /\ \E r \in Runs : Start(r, tracker.listed)
  /\ tracker' = [tracker EXCEPT !.pc = "list"]
  /\ UNCHANGED <<tag, release, latest, manual, faults>>

\* The operator starts a run for any version that has been tagged.
Dispatch ==
  /\ manual < MaxManual
  /\ manual' = manual + 1
  /\ \E r \in Runs, v \in 1 .. tag : Start(r, v)
  /\ UNCHANGED <<tag, tracker, release, latest, faults>>

(***************************************************************************)
(* build-image.sh                                                          *)
(***************************************************************************)
\* Mutant of Bump: the version of the feed's packages is kept.
NoBump == 0

\* The release number of the local packages, over the one their Makefile has.
Bump == 1

\* apk installs the highest version it sees; on a tie it may take either.  The
\* feed's packages come from the Makefile of the same point release.
Resolve(staged, ours, theirs) ==
  (IF staged THEN {ours} ELSE {}) \cup (IF staged /\ Bump > 0 THEN {} ELSE {theirs})

\* Mutant of Staged: only the driver's package is copied.
StagedAlone == {"brcmfmac"}

\* Both packages built by the SDK are copied to packages/.
Staged == Packages

\* FILES= is applied after the packages and overrides what they installed; the
\* script dies when that tree holds kernel modules.
Overlaid(stray, installed) == IF stray THEN "plain" ELSE installed

\* Mutant of Refused: the overlay tree is not looked at.
RefusedNever(stray) == FALSE
Refused(stray) == stray

\* What the image may be, given what went wrong without stopping the build.
Built(stray, shrunk, beside) ==
  {[fmac |-> Overlaid(stray, f), util |-> u, shrunk |-> shrunk, beside |-> beside] :
     f \in Resolve("brcmfmac" \in Staged, "patched", "plain"),
     u \in Resolve("brcmutil" \in Staged, "debug", "plain")}

\* The steps of the job that write nothing but its own workspace.  Whatever
\* fails before the image exists ends the run with no release.
Build(r) ==
  /\ run[r].pc = "build"
  /\ \/ /\ Fault
        /\ run' = [run EXCEPT ![r] = Idle]
     \/ \E stray, shrunk \in BOOLEAN, beside \in SUBSET Packages :
          /\ IF stray \/ shrunk \/ beside # Packages THEN Fault ELSE NoFault
          /\ IF Refused(stray)
             THEN run' = [run EXCEPT ![r] = Idle]
             ELSE \E image \in Built(stray, shrunk, beside) :
                    run' = [run EXCEPT ![r].pc = "fetch", ![r].image = image]
  /\ UNCHANGED <<tag, tracker, release, latest, manual>>

\* The manifest of the release marked latest.  The hand-made one may have none,
\* and a failed download is ignored.
Fetch(r) ==
  /\ run[r].pc = "fetch"
  /\ \/ /\ NoFault
        /\ \E m \in Manifests :
             /\ IF latest = 0 THEN m # "shrunk"
                ELSE m = IF release[latest].shrunk THEN "shrunk" ELSE "full"
             /\ run' = [run EXCEPT ![r].pc = "verify", ![r].prev = m]
     \/ /\ Fault
        /\ run' = [run EXCEPT ![r].pc = "verify", ![r].prev = "none"]
  /\ UNCHANGED <<tag, tracker, release, latest, manual>>

(***************************************************************************)
(* static-verify.sh                                                        *)
(***************************************************************************)
\* Check 1: the package carried beside the image holds a complete module.
SidecarOk(image) == "brcmfmac" \in image.beside

\* Check 2: no more than five package names vanished; skipped without a
\* previous manifest.
ManifestOk(image, prev) == ~(prev = "full" /\ image.shrunk)

\* Check 4: the module embedded in the image is the one of the local package.
\* When the image cannot be taken apart it only warns.
EmbeddedOk(image, extracted) == extracted => image.fmac = "patched"

\* Check 5: the local kmod-brcmutil exports what the local kmod-brcmfmac needs.
\* Both come from one SDK build, so it only fails when there is no such module;
\* the kmod-brcmutil the image embeds is not looked at.
LocalPairOk(image) == "brcmutil" \in image.beside

Verify(r) ==
  /\ run[r].pc = "verify"
  /\ \E extracted \in BOOLEAN :
       /\ IF extracted THEN NoFault ELSE Fault
       /\ run' = [run EXCEPT ![r] =
            IF /\ SidecarOk(@.image)
               /\ ManifestOk(@.image, @.prev)
               /\ EmbeddedOk(@.image, extracted)
               /\ LocalPairOk(@.image)
            THEN [@ EXCEPT !.pc = "delete"] ELSE Idle]
  /\ UNCHANGED <<tag, tracker, release, latest, manual>>

(***************************************************************************)
(* Publication                                                             *)
(***************************************************************************)
\* Deleting the release that is marked latest makes the forge mark another.
Marks(rel) == {v \in Versions : rel[v] # Absent} \cup {0}

Delete(r) ==
  /\ run[r].pc = "delete"
  /\ run' = [run EXCEPT ![r].pc = "create"]
  /\ LET v == run[r].version IN
     \/ /\ NoFault
        /\ release' = [release EXCEPT ![v] = Absent]
        /\ IF latest = v THEN latest' \in Marks(release') ELSE UNCHANGED latest
     \/ Fault /\ UNCHANGED <<release, latest>>
  /\ UNCHANGED <<tag, tracker, manual>>

\* A release is created with its assets and marked latest in one call, which
\* fails when the tag has a release already.
Create(r) ==
  /\ run[r].pc = "create"
  /\ LET v == run[r].version IN
     \/ /\ release[v] = Absent
        /\ NoFault
        /\ release' = [release EXCEPT ![v] = run[r].image]
        /\ latest' = v
        /\ run' = [run EXCEPT ![r] = Idle]
     \/ /\ release[v] = Absent
        /\ Fault
        /\ run' = [run EXCEPT ![r] = Idle]
        /\ UNCHANGED <<release, latest>>
     \/ /\ release[v] # Absent
        /\ run' = [run EXCEPT ![r].pc = "exists"]
        /\ UNCHANGED <<release, latest, faults>>
  /\ UNCHANGED <<tag, tracker, manual>>

\* A run that failed on an existing release reports it and ends.
Report(r) ==
  /\ run[r].pc = "exists"
  /\ run' = [run EXCEPT ![r] = Idle]
  /\ UNCHANGED <<tag, tracker, release, latest, manual, faults>>

Job(r) == Build(r) \/ Fetch(r) \/ Verify(r) \/ Delete(r) \/ Create(r) \/ Report(r)
Tracker == List \/ Check \/ Trigger

Next == Tag \/ Tracker \/ Dispatch \/ \E r \in Runs : Job(r)

Spec == Init /\ [][Next]_vars

\* The poll is scheduled daily and a run started goes on until it ends.
Fairness == WF_vars(Tracker) /\ \A r \in Runs : WF_vars(Job(r))
FairSpec == Spec /\ Fairness

(***************************************************************************)
(* Properties                                                              *)
(***************************************************************************)
TypeOK ==
  /\ tag \in Versions
  /\ tracker \in [pc : {"list", "check", "trigger"}, listed : Versions]
  /\ run \in [Runs -> [pc : {"idle", "build", "fetch", "verify", "delete", "create", "exists"},
                       version : Versions, image : Images, prev : Manifests]]
  /\ release \in [Versions -> Images \cup {Absent}]
  /\ latest \in Versions \cup {0}
  /\ manual \in 0 .. MaxManual
  /\ faults \in 0 .. MaxFaults

\* No release holds the stock driver, whichever package apk prefers, whatever
\* is left in the overlay and however much of the verification was skipped.
ShipsPatched ==
  \A v \in Versions : release[v] # Absent => release[v].fmac = "patched"

\* In every release the two modules load together: the patched driver is never
\* shipped with the feed's kmod-brcmutil, which no check compares.
PairLoads ==
  \A v \in Versions :
    release[v] # Absent /\ release[v].fmac = "patched" => release[v].util = "debug"

\* Whatever fails, and whichever runs overlap, the newest tag has a release
\* again and again: a failed run, or a release lost between the deletion and
\* the creation, is made up for by a later poll.
NewestPublished == []<>(release[tag] # Absent)

\* "re-running for a version that's already published must replace it, not
\* hard-fail": no run finds the tag taken when it creates its release.
ReplaceNeverFails == \A r \in Runs : run[r].pc # "exists"

=============================================================================
