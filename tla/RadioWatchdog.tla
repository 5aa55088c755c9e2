--------------------------- MODULE RadioWatchdog ---------------------------
(***************************************************************************)
(* v2-files/usr/sbin/radio-watchdog-check, run by cron through             *)
(* v2-files/etc/init.d/radio-watchdog: every period it greps the log lines *)
(* that are new since its previous run for the signatures of a wedged      *)
(* radio, counts its detections of the last hour, and answers with a wifi  *)
(* reload, a reload of the brcmfmac module, or a rate-limited reboot.      *)
(*                                                                         *)
(* One run is three steps, with the kernel logging and power failing in    *)
(* between: Read (logread up to the write of the lastline file), Record    *)
(* (the "detected" line and the events file), Act.  A line is its kind and *)
(* its time stamp: equal ones are the same text, as for awk's $0==m.       *)
(*                                                                         *)
(* /tmp (lastline, events) and the log ring are RAM; the reboot mark is on *)
(* flash.  The clock never goes back (sysfixtime restores it from the      *)
(* newest file at boot): external.                                         *)
(***************************************************************************)
EXTENDS Integers, Sequences, FiniteSets

CONSTANTS
  Period,    (* time between two runs                                      *)
  Window,    (* WINDOW_SECS                                                *)
  Cooldown,  (* REBOOT_COOLDOWN_SECS                                       *)
  RingSize,  (* lines the logd ring holds                                  *)
  TailLines, (* the 200 lines a run looks at without a usable marker       *)
  MaxTime,   (* bound: the clock                                           *)
  Never,     (* no such time                                               *)
  Empty      (* a mark file truncated but not yet written                  *)

ASSUME WatchdogConstants ==
  /\ Period \in Nat \ {0} /\ Window \in Nat /\ Cooldown \in Nat
  /\ RingSize \in Nat \ {0} /\ TailLines \in Nat \ {0} /\ MaxTime \in Nat
  /\ Never \notin Int /\ Empty \notin Int /\ Never # Empty

VARIABLES
  now,      (* date +%s                                                    *)
  cron,     (* the crontab line is in place                                *)
  due,      (* cron owes a run                                             *)
  pc,       (* where the run is: "rest", "record", "act", "sync"           *)
  log,      (* logread                                                     *)
  lastline, (* the lastline file: at most one line                         *)
  events,   (* the events file: the times of the detections                *)
  mark,     (* REBOOT_MARK as the running system sees it                   *)
  disk,     (* REBOOT_MARK as it survives a power cut                      *)
  unread,   (* history: lines logged since the last Read, up to TailLines  *)
  rebooted, (* history: when the watchdog last rebooted the router         *)
  reloaded, (* history: when it last reloaded brcmfmac since boot          *)
  relapsed  (* history: a signature was logged after that reload           *)

vars == <<now, cron, due, pc, log, lastline, events, mark, disk, unread,
          rebooted, reloaded, relapsed>>

Time == 0..MaxTime

(* "sig": a kernel line with one of the signatures; "self": the watchdog's *)
(* own "detected radio wedge signature: ..." line, which quotes one;       *)
(* "other": anything else, the tier messages included.                     *)
Line == [kind : {"sig", "self", "other"}, at : Time]

Least(a, b) == IF a < b THEN a ELSE b

Last(s, n) == SubSeq(s, Len(s) - Least(n, Len(s)) + 1, Len(s))

Logged(kind) == Last(Append(log, [kind |-> kind, at |-> now]), RingSize)

(* grep -E PATTERN over a list of lines. *)
Matches(s) == \E i \in DOMAIN s : s[i].kind \in {"sig", "self"}

(* tail -n 1.                                                              *)
Marker == Last(log, 1)

(* awk: what follows the first line equal to the marker.  Without a marker,*)
(* or when no line equals it, the tail.                                    *)
(* The seeded fault goes by the last such line.                            *)
NewLinesAfterLast ==
  LET hits == {i \in DOMAIN log : <<log[i]>> = lastline} IN
  IF hits = {} THEN Last(log, TailLines)
  ELSE LET last == CHOOSE i \in hits : \A j \in hits : i >= j
       IN  SubSeq(log, last + 1, Len(log))
NewLines ==
  LET hits == {i \in DOMAIN log : <<log[i]>> = lastline} IN
  IF hits = {} THEN Last(log, TailLines)
  ELSE LET first == CHOOSE i \in hits : \A j \in hits : i <= j
       IN  SubSeq(log, first + 1, Len(log))
-----------------------------------------------------------------------------
Init ==
  /\ now = 0
  /\ cron = TRUE
  /\ due = FALSE
  /\ pc = "rest"
  /\ log = <<>>
  /\ lastline = <<>>
  /\ events = {}
  /\ mark = Never
  /\ disk = Never
  /\ unread = 0
  /\ rebooted = Never
  /\ reloaded = Never
  /\ relapsed = FALSE

(* One line goes into the ring. *)
Put(kind) ==
  /\ log' = Logged(kind)
  /\ unread' = Least(unread + 1, TailLines + 1)

(* The kernel, or any daemon, logs a line, whatever the run is doing. *)
KernelLogs(kind) ==
  /\ Put(kind)
  /\ relapsed' = (relapsed \/ (kind = "sig" /\ reloaded # Never))
  /\ UNCHANGED <<now, cron, due, pc, lastline, events, mark, disk, rebooted,
                 reloaded>>

(* A run is over well within a period. *)
Tick ==
  /\ now < MaxTime
  /\ pc = "rest"
  /\ ~ due
  /\ now' = now + 1
  /\ due' = (cron /\ now' % Period = 0)
  /\ UNCHANGED <<cron, pc, log, lastline, events, mark, disk, unread, rebooted,
                 reloaded, relapsed>>

(* The init script: start() puts the crontab line in, stop() takes it out. *)
Service(on) ==
  /\ cron # on
  /\ cron' = on
  /\ due' = (due /\ on)
  /\ UNCHANGED <<now, pc, log, lastline, events, mark, disk, unread, rebooted,
                 reloaded, relapsed>>

(* logread, the comparison with lastline, the new lastline, the grep. *)
Read ==
  /\ pc = "rest"
  /\ due
  /\ due' = FALSE
  /\ IF log = <<>>
     THEN UNCHANGED <<pc, lastline, unread>>
     ELSE /\ lastline' = Marker
          /\ unread' = 0
          /\ pc' = IF Matches(NewLines) THEN "record" ELSE "rest"
  /\ UNCHANGED <<now, cron, log, events, mark, disk, rebooted, reloaded, relapsed>>

(* The detections that still count; the seeded fault never drops one.      *)
RecentAll == events
Recent == {e \in events : e > now - Window}

(* log "detected ...", then the events file with this detection added. *)
Record ==
  /\ pc = "record"
  /\ pc' = "act"
  /\ Put("self")
  /\ events' = Recent \union {now}
  /\ UNCHANGED <<now, cron, due, lastline, mark, disk, rebooted, reloaded, relapsed>>

CanReboot == mark \notin {Never, Empty} => now - mark >= Cooldown

(* wifi reload stays above the driver. *)
WifiReload ==
  /\ pc = "act"
  /\ Cardinality(events) = 1
  /\ pc' = "rest"
  /\ Put("other")
  /\ UNCHANGED <<now, cron, due, lastline, events, mark, disk, rebooted, reloaded,
                 relapsed>>

(* reload_brcmfmac: the second tier, and the third while rate-limited. *)
ModuleReload ==
  /\ pc = "act"
  /\ Cardinality(events) = 2 \/ (Cardinality(events) > 2 /\ ~ CanReboot)
  /\ pc' = "rest"
  /\ Put("other")
  /\ reloaded' = now
  /\ relapsed' = FALSE
  /\ UNCHANGED <<now, cron, due, lastline, events, mark, disk, rebooted>>

(* The third tier: the mark is written ... *)
WriteMark ==
  /\ pc = "act"
  /\ Cardinality(events) > 2
  /\ CanReboot
  /\ pc' = "sync"
  /\ Put("other")
  /\ mark' = now
  /\ UNCHANGED <<now, cron, due, lastline, events, disk, rebooted, reloaded, relapsed>>

(* What every boot does: RAM is lost, flash stays.                         *)
Boot(m) ==
  /\ pc' = "rest"
  /\ due' = FALSE
  /\ log' = <<>>
  /\ lastline' = <<>>
  /\ events' = {}
  /\ unread' = 0
  /\ reloaded' = Never
  /\ relapsed' = FALSE
  /\ mark' = m
  /\ disk' = m
  /\ UNCHANGED <<now, cron>>

(* ... synced, and the router reboots; the seeded fault does not sync.     *)
RebootUnsynced ==
  /\ pc = "sync"
  /\ rebooted' = now
  /\ Boot(disk)
Reboot ==
  /\ pc = "sync"
  /\ rebooted' = now
  /\ Boot(mark)

(* A power cut: an unsynced mark is lost, kept, or truncated. *)
PowerCut ==
  /\ \E m \in {disk, mark, Empty} :
       /\ m = Empty => mark # disk
       /\ Boot(m)
  /\ UNCHANGED rebooted

Next ==
  \/ \E kind \in {"sig", "other"} : KernelLogs(kind)
  \/ Tick
  \/ \E on \in BOOLEAN : Service(on)
  \/ Read \/ Record \/ WifiReload \/ ModuleReload \/ WriteMark \/ Reboot
  \/ PowerCut

Spec == Init /\ [][Next]_vars
-----------------------------------------------------------------------------
Times == Time \union {Never}

TypeOK ==
  /\ now \in Time
  /\ cron \in BOOLEAN /\ due \in BOOLEAN
  /\ pc \in {"rest", "record", "act", "sync"}
  /\ log \in Seq(Line) /\ Len(log) <= RingSize
  /\ lastline \in Seq(Line) /\ Len(lastline) <= 1
  /\ events \subseteq Time
  /\ mark \in Times \union {Empty}
  /\ disk \in Times \union {Empty}
  /\ unread \in 0..(TailLines + 1)
  /\ rebooted \in Times
  /\ reloaded \in Times
  /\ relapsed \in BOOLEAN

(* "Minimum gap between watchdog-triggered reboots": two reboots are never *)
(* closer than the cooldown, wherever power fails between writing the mark *)
(* and the reboot.                                                         *)
RebootGap == Reboot => rebooted = Never \/ now - rebooted >= Cooldown
RebootsApart == [][RebootGap]_vars

(* "so we don't miss a same-cycle crash": a signature among the lines      *)
(* logged since the previous run makes this run act, as long as they are   *)
(* no more than the tail, whatever became of the marker.                   *)
FreshSignature ==
  /\ unread <= TailLines
  /\ \E i \in DOMAIN Last(log, unread) : Last(log, unread)[i].kind = "sig"
NothingSkipped == [][Read /\ FreshSignature => pc' = "record"]_vars

(* The tiers are climbed one at a time: the router reboots only if the     *)
(* module was reloaded, since this boot and within the window, to no       *)
(* avail.                                                                  *)
ReloadFirst == Reboot => reloaded # Never /\ now - reloaded < Window
EscalatesInOrder == [][ReloadFirst]_vars

(* "module reload did not hold, rebooting": a reboot means the kernel has  *)
(* logged a signature again since the reload.                              *)
RebootOnlyOnRelapse == [][Reboot => relapsed]_vars
=============================================================================
