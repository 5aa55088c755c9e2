# Verification of netgear-r8000-plus

TLA+ models of the programs in this repository, the TLC runs that check them on
small instances, and TLAPS proofs of what matters most. Source paths are
relative to the repository; line numbers are those `PROJECT.json` "map" records
for every definition. `GV/` stands for
`hwoffload-research/graveyard-vendor/extracted-source/`.

## 1. Inventory

The repository is a firmware project for one router, the NETGEAR R8000: scripts
and kernel modules of its own, the pipeline that builds its images, and the
vendor's driver of the same hardware, from which its own drivers are derived.

| component | source | state it keeps | operations | talks to |
|---|---|---|---|---|
| flow offload driver | `hwoffload-research/fa-probe/fa_accel.c` | 32 slots (cookie, in_use) under a spinlock; the rows of the NH and NF tables; CONTROL, MEM_ACC_CTL, M_ACCDATA | load (live=0/1), bind a device, REPLACE, DESTROY, STATS, unload | the kernel's flow table (callbacks, one per bound device, on several CPUs), the FA registers |
| radio watchdog | `v2-files/usr/sbin/radio-watchdog-check`, `etc/init.d/radio-watchdog` | marker and events in /tmp, reboot mark on flash, a crontab line | one run every 5 minutes; start, stop | logd's ring, cron, brcmfmac, reboot |
| uplink scripts | `v2-files/etc/hotplug.d/iface/30..33` | host routes, default route, `/etc/config/sqm`, shapers, `rps_cpus` | run for each ifup and ifdown | netifd (ubus status), `ip route`, uci, sqm-scripts, sysfs |
| switch register modules | `fa_switch_*` and the b53 driver's `b53_srab.c` | the value a register had at insmod | insmod: request the bus, read, write, verify; rmmod: write back | SRAB window, shared with b53 |
| release pipeline | `.github/scripts`, `.github/workflows` | tags, releases, an image and its package lists | track upstream, build, verify statically, delete and create a release | GitHub, the OpenWrt image builder |
| vendor ethernet driver | `GV/et_linux.c`, `etc.c`, `etcgmac.c` | ET_LOCK, software queue, descriptor rings, interrupt mask and events, tasklets | probe, remove, open, close, ioctls, suspend and resume, transmit, interrupt, dpc | the network stack, the GMAC, the accelerator, the switch |
| MAC and phy settings | the same files | forced speed, loopback, promiscuous mode, multicast list; MAC, filter and phy registers | ETCSPEED, ETCLOOP, ETCPROMISC, ethtool, set_multicast_list, what open, close, reset and the timer make of them | the stack, the MAC, the phy |
| power save and driver timer | the same and `GV/bcmrobo.c` | the one second timer; two times of the duty cycle, the modes of each phy | timer, ioctl, open, close | the switch's phys |
| switch set-up | `GV/bcmrobo.c` and the probe in `et_linux.c`, `etcgmac.c`, `etc_fa.c` | the switch's registers and VLAN tables; which core is the accelerator's, which its auxiliary | attach, enable, VLANs, forwarding, CPU port, accelerator, registration; open, close, remove | SRAB, MII or SPI |
| vendor flow accelerator driver | `GV/etc_fa.c` | NAPT, next-hop and pool rows; free list, reference counts, connection table | attach, down, add, delete | the accelerator's tables, conntrack |
| performance tuning | `v2-files/etc/init.d/perf-tune` | none of its own | writes rps_cpus, IRQ affinity, ethtool flags | sysfs, procd triggers |
| bring-up and probes | `fa_bringup.c`, `fa_macc_test.c`, `fa_napt_row_test.c`, `fa_probe.c` and others | registers for the time of one insmod | one-shot sequences with restore | FA registers |
| boot scripts | `etc/init.d/nvram`, `etc/init.d/aria2-download-dir`, `etc/uci-defaults/*`, `etc/board.d/01_leds` | uci settings, nvram | once per boot, or once per installation | uci, nvram |

Not software of the router: `blob-analysis`, `extracted`, `docs`, `images`, and
what else is under `hardware-docs`; `image-files`, `v2-staging` and `v3-staging`
hold earlier or identical copies of `v2-files`. `patches` are diffs against
drivers the repository does not contain, `psta-probe` holds kernel probes of the
wireless driver with their build products. `GV/etc47xx.c` drives another MAC.

### What is hard here

* **fa_accel.c.** Every table access is a conversation over three shared
  registers (select, transfer, end), and nothing but luck keeps two CPUs from
  holding two at once; the spinlock covers the slot array only. The same
  callback is bound once per device under the same cookies. Polls run out. Rows
  outlive the module.
* **radio-watchdog-check.** It reads a log it also writes to, finds its place by
  comparing text, and has to rate-limit itself across reboots and power cuts.
* **Uplink scripts.** They put together answers given at different moments about
  uplinks that come, go and change device names, and 31 must not be wrong in
  the end.
* **Switch modules.** One request bit for every user of the bus; insmod fails
  half way; rmmod restores a value read long ago.
* **Release pipeline.** Two workflow runs may overlap, a release is replaced by
  deleting and creating it, and most of the verification can be skipped.
* **Vendor ethernet driver.** Interrupt, two tasklets, the stack and up to three
  control paths run at once; `up` is tested without the lock; et_down gives the
  lock up once and kills tasklets, one of them with the lock held.
* **Settings.** Every setting lives in the driver, the MAC and the phy, and half
  of the functions reset one of the three.
* **Switch set-up.** Three cores are probed one after the other on one switch:
  each resets it and writes defaults again. Lost accesses go unnoticed, and a
  lost read is merged and written back.
* **Vendor accelerator driver.** Free list and reference counts beside tables in
  hardware; any access may fail half way, and the tables are blanked before the
  lock is taken.

`PROJECT.json` "hazards" lists each at its line with the properties that cover
it, or why none does.

### Correctness, per component

A row the driver has accepted is and stays what was accepted; a flow is
forwarded only to its own next hop; slots are owned and handed back. Reboots of
the watchdog are rate-limited and follow a lighter measure; no log line is
skipped. Whenever the scripts are done, routes, shapers and steering are those
of the uplinks as they are, and they do get done. A bit of the switch is set
exactly while its module is loaded; the bus is left released. What is published
is the patched driver with its counterpart, and the newest tag is published. A
failed probe leaves nothing behind; nobody waits for an interrupt that is
off; frames, packets and a stopped queue get their turn. The timer lives as long
as the interface is up, no phy is left off, a forced speed holds, a joined group
is heard. What one probe set up on the switch survives the next. The accelerator's
rows send a flow to its own next hop, and the three views of a flow agree.

## 2. The modules

| module | what it is | code |
|---|---|---|
| `HardwareForwarding` | abstract specification: a flow is forwarded by the hardware only to its own next hop, from some point of its addition until before its removal is reported | what the offload driver promises |
| `FaAccel` | the driver, one action per step of a callback that another CPU can fall between | `fa_accel.c` |
| `RadioWatchdog` | the watchdog, its service, the log ring, power cuts | `radio-watchdog-check`, `init.d/radio-watchdog` |
| `Uplinks` | the four hotplug scripts, netifd's event queue, the kernel's routes | `30-american-dns-route` to `33-dynamic-wan-rps` |
| `SrabBus` | the switch modules, the b53 driver and the registers they share | `fa_switch_oobpause_test.c`, `fa_switch_oobpause_persist.c`, `fa_switch_brcmhdr_persist.c`, `b53_srab.c` |
| `ReleasePipeline` | tracker, workflow runs, releases | `.github` |
| `EtDriver` | contexts, locks, queues, interrupts, probe and removal | `et_linux.c`, `etc.c`, `etcgmac.c` |
| `EtWatchdog` | the one second timer and the power save it drives | `et_linux.c`, `etc.c`, `bcmrobo.c` |
| `EtMac` | the settings of MAC, filter and phy, as operators from record to record | `etc.c`, `etcgmac.c`, `et_linux.c` |
| `EtPort` | composition: `EtWatchdog` extended, `EtMac` instantiated, their actions joined where one function does both | |
| `RoboSwitch` | set-up of the switch by three probes, with the accelerator's cores | `bcmrobo.c`, `etc_fa.c`, `etcgmac.c`, `et_linux.c` |
| `EtFa` | the vendor's accelerator driver, access by access | `etc_fa.c` |
| `*Proofs` | theorems about `FaAccel`, `RadioWatchdog`, `Uplinks`, `SrabBus` and `RoboSwitch` (`SwitchProofs`), `ReleasePipeline` (`ReleaseProofs`), `EtDriver`, `EtPort` with `EtWatchdog` and `EtMac` (`EtPortProofs`), `EtFa` | |
| `MC*` | values of the constants for TLC | |

### FaAccel

`slots` is `fa_flows` (the cookie of a slot in use, else `NoFlow`; nh_idx and
nf_idx are always the slot number, 1 to `MaxSlots`). `hw` is the tables' rows,
`ctl`, `acc` and `hwq` are MEM_ACC_CTL, M_ACCDATA and the queue threshold of
CONTROL. `phase` is the flow table's view of a flow (outside the repository):
closed, being added, open, being deleted. `job[f]` holds the locals of the
callback that works on flow `f`: how many devices are left (`todo`), which access
it is at (`step`: NH row written and read back, NF row written and read back;
for a destroy, NF row read, cleared and written), the `stage` of that access,
its slot, what the poll said, and the row it carries.

| actions | code |
|---|---|
| `Load`, `Unload` | `fa_accel_init`, `fa_accel_exit` |
| `Bind`, `Unbind` | `fa_indr_setup_cb`, called by the kernel |
| `StartAdd`, `StartDel`, `Finish` | the kernel begins and ends a round of callbacks over the bound devices (external) |
| `ReplaceSkip`, `Replace` | `fa_setup_block_cb`, `fa_flow_replace_live` up to the slot: live=0, rejected rule, no slot; or `fa_flow_alloc` |
| `DestroySkip`, `Destroy` | `fa_flow_destroy_live` up to `fa_flow_find` |
| `Select`, `Transfer`, `End` | `fa_macc_write` and `fa_macc_read` in three stages, with `wait_macc_idle`; `End` also takes the branch of the caller on the result |
| `Free` | `fa_flow_free` |

A rule is reduced to whether it passes the checks (`Offloadable`) and to the next
hop it decodes to (`NextHop`); a row keeps the fields the properties tell apart
(whose tuple, which next-hop index, valid or not; which MAC). `FLOW_CLS_STATS`
returns an error and changes nothing.

### RadioWatchdog

A run of the check is `Read` (logread to the grep), `Record` (the "detected"
line and the events file) and one of `WifiReload`, `ModuleReload`, or `WriteMark`
followed by `Reboot`; the kernel logs and power fails between any of them. A log
line is its kind (a signature, the watchdog's own line that quotes one, anything
else) and its time stamp, so two equal lines are the same text, as for the
script's `$0==m`. `mark` is the reboot mark as the system sees it, `disk` as it
survives a power cut. `unread`, `rebooted`, `reloaded` and `relapsed` are history
for the properties; no action is guarded by them.

### Uplinks

`run` is the script at work and its shell variables; each ubus call and each
command is one action (`DnsDevice`, `DnsServers`, `DnsRoute` for 30; `IsUp`, `GetGw`,
`GetDev`, `SetDefault` for 31; `SqmDevice`, `SqmBind`, `SqmRestart` for 32;
`RpsDevice`, `SetRps` for 33), and uplinks change between any two of them
(`ComesUp`, `GoesDown`, `Recreated`, `Reboots`). `Begin` is netifd calling the
scripts for a pending event: for ifup all four in the order of their numbers, for
ifdown only 31 does anything. Assumed of what is outside the repository: netifd
runs the scripts for one event at a time and keeps the latest event of an
interface until it has run; the kernel drops the routes of a device that
disappears and may or may not drop those of a device that goes down; a route
over a device that is not running may be refused; of two sqm sections that name
one device, either may win. The wired `wan` is left out: it is unplugged in this
deployment (`etc/config/sqm:6-8`). The weights of the next hops and the rates of
an sqm section are data no property depends on.

### SrabBus

`rcareq` and `rcagnt` are the two bits of CTRLS, `cmdstat`, `wd` and `rd` the
command and data registers, `reg` the switch's registers, each reduced to the
bit a module sets (the other bits are written back as read). `job[c]` is what a
client (a module or the b53 driver) is doing: the transactions of its insmod or
rmmod that are left, the step of the one at work, the value it read first, and
whether the operation ran out of polls.

| actions | code |
|---|---|
| `Insmod`, `Rmmod` | module init and exit |
| `B53` | the b53 driver begins a read or a write (`b53_srab_read16`, `b53_srab_write16` and their like) |
| `Request`, `Granted` | `srab_request_grant`, `b53_srab_request_grant` |
| `GrantTimesOut` | a module gives up and returns with the request still set |
| `GrantLate` | b53 polls twenty times but tests for five: out of polls it goes on without the grant, and a grant seen at the sixth poll is an error after which it releases the request |
| `Data`, `Command`, `Poll`, `Take` | `srab_write16`, `srab_read16`, `srab_op`; in b53 `b53_srab_op` |
| `Release` | `srab_release_grant` and the caller's branch on the result (`Over`) |
| `Arbitrate`, `Operate` | the hardware (external): the grant follows the request bit, and a command is performed with the registers as they are at that moment |

`Overlap` says whether a transaction of b53 may overlap one of a module.
Nothing in the code prevents it; without it the model shows what the modules do
when it does not happen.

### ReleasePipeline

Versions are numbered in the order of their tags. An image is the two driver
modules in it (the driver patched or plain, its kmod-brcmutil with the debug export it needs or plain), whether its
package list shrank, and which complete packages lie beside it. `run[r]` is a
workflow run's next step, version, image, and the manifest it has to compare with.

| actions | code |
|---|---|
| `Tag` | OpenWrt publishes a point release (external) |
| `List`, `Check`, `Trigger` | the tracker: newest tag by `sort -V`, is there a release, start a run |
| `Dispatch` | the operator starts a run for any version |
| `Build` | staging, bump of the package release, apk's choice for each package, the overlay laid over the result |
| `Fetch` | the manifest of the release marked latest, if it can be had |
| `Verify` | the checks that can fail the run, each with its way of being skipped |
| `Delete`, `Create`, `Report` | deletion of the release, creation, and the run's end where the tag was taken meanwhile |

### EtDriver

`pc` says where each context is (interrupt handler, dpc, transmit tasklet, the
stack's call, the control paths), `lock` who holds ET_LOCK; what the queue's own
lock protects is one step. `ring` counts descriptors posted and sent, `rxd` frames
in the receive ring, `cond`, `chint`, `intrs` and `events` are the interrupt
status register, its copy, the mask and what the handler has handed to the dpc.

| actions | code |
|---|---|
| `ProbeStep`, `ProbeDone`, `ProbeFail` | `et_probe`, `etc_attach`, `chipattach` by resource acquired; the fail path and the detach functions |
| `Remove` | `et_remove`, `et_free` |
| `Up` | `et_open`, ETCUP, `et_resume`: `et_up` and `chipinit` |
| `Down`, `KillDpc`, `Relock`, `KillTxAndFlush`, `Reset` | `et_down`: up cleared and interrupts off; ET_UNLOCK and the kill of the dpc; ET_LOCK again; the kill of the transmit tasklet and the flush; `etc_down` |
| `StartCall`, `StartDrop`, `StartQueue`, `StartSched` | `et_start` |
| `Start`, `TxLock`, `SendClear`, `SendOne`, `SendEnd` | the tasklets, `et_sendnext`, `chiptx`, flow control |
| `IsrEnter`, `IsrRead`, `IsrMask` | `et_isr`, `chipgetintrevents`, the mask and write-back of the status |
| `DpcLock`, `DpcWork`, `DpcEnd` | `et_dpc`, `et_rxevent` with its quota, `chiptxreclaim`, errors that reset the chip |
| `HwSend`, `HwReceive`, `HwError` | the chip (external) |

Built as on this router: SMP, tasklets, one transmit queue. rtnl admits "stack"
and "ioctl" one at a time; suspend, resume and remove do not take it.

### EtWatchdog, EtMac, EtPort

`EtWatchdog`: `timer` is pending or not, `handler` says that it has expired and
the handler waits for ET_LOCK; `closing` that et_down is past its ET_UNLOCK.
`sleepIn` and `gap` are sleep_timer and wake_timer relative to now, which saves
counting seconds. `TimerFires`, `Watchdog` (`Seconds`, the duty cycle and auto
mode of etc_watchdog, with `HandlerEnds`, the rearming), `Up`, `Down`, `DownEnd`,
`PowerSaveSet` (the ioctl) and `LinkChange` (a cable).

`EtMac` holds in `eth` what etc_info_t keeps and what it has put into MAC, filter
and phy. An operator per function: `ChipReset`, `ChipInit`, `MiiConfig`,
`PhyForce`, `PhyAdvertise`, `PhyReset`, `DuplexUpd`, `Watch`, `CopyList`,
`SetMulticastList`. Actions: `MacOpen`, `MacClose`, `MacCloseEnd`, `MacTick`,
`ChangeGroups`, `Loopback`, `Promisc`, `Speed`, `PartnerChange`. A rate is a speed
and a duplex; `Speed` is also ethtool's.

`EtPort` lets opening, closing and the handler do their part in both, on four
kinds of board: with a switch, with a phy on MII or GMII, and with neither. The
ioctls and the list come in between; the ioctls hold rtnl, which et_close holds
too while it waits for the lock.

### RoboSwitch

`sw` holds the bits the driver handles, register by register, `vlan` the member
and untagged ports, the address entry and default VLAN ids; `step`, `dev` and `bad`
are the running probe; `unit`, `up`, `cpu`, `mang`, `auxDev`, `faDev`, `acc` the
driver's statics. Each probe is `ProbeStart`, `RoboAttach`, `EnableDevice`,
`ConfigVlan`, `EnableForwarding`, `ForceCpuPort`, `DefaultsOff`, `FaAttach`, `FaUp`
and `RegisterDevice` or `RegisterFails`; `Open` and `Close` concern devices of earlier
cores, `RemoveLast` and `Reload` the module. One access (of any kind, at any place) may be
lost; what a lost read leaves in the caller's variable is the former contents of
that variable, zeroes or anything, by bus and caller, and for a local never set,
anything.

### EtFa

`nf`, `nh` and `np` are the hardware's tables; `flist`, `free` and `ref` the
next-hop free list; `soft`, `ftable` and `nflows` the connection table, the used
indices and the count. `call` is the call that holds fa_lock. `Add` (find or
take a next hop, a pool row, write the NAPT row: `FindNhop`, `WriteNhop`, `SetPool`,
`WriteNf`) and `Del` (`ReadNf`, `Invalidate`, `Unref`) advance one access at a
time; `Attach`, `Down` (which blanks the tables before it takes the lock) and
`Flush` come between them. A write that runs out of polls may be performed all
the same where `Late` says so.

## 3. The runs

| run | instance | what holds |
|---|---|---|
| `fa_faults` | 3 flows (one cannot be offloaded), 3 slots, 2 devices, 2 loads, one callback at a time; polls run out, rmmod with flows open, devices leave | `AcceptedIntact`: accepted rows are in the tables; `RegistersGuarded`: index 0 is never written and WAR777 holds during every access |
| `fa_concurrent` | 3 flows, callbacks overlap and compete for 1 slot, polls run out | `SlotOwnership`, `SlotHandover`, `WorkEnds`: every callback ends |
| `fa_calm` | 2 flows, 3 slots, 2 devices, 2 loads, one callback at a time, no faults | `ClosedHoldsNoSlot`, `SoftwareOnly`, `ImplementsForwarding`: the driver implements `HardwareForwarding` |
| `watchdog` | 9 periods, window 3, cooldown 5, ring of 3 lines, tail of 2 | `RebootsApart`, `NothingSkipped`, `EscalatesInOrder` |
| `watchdog_self_match` | the same | `RebootOnlyOnRelapse` **fails** (below) |
| `uplinks` | 2 uplinks on networks of their own, 3 device names, 5 changes | `DefaultInStep`, `DnsRouted`, `Tuned`, `Converges`: the scripts come to an end in that state |
| `srab` | all three modules beside b53, 5 calls, transactions apart, every poll may run out | `SetAndHold`, `BusReleased` |
| `release` | 2 workflow runs in flight, 2 tags, 1 run by hand, 2 faults anywhere | `ShipsPatched`, `PairLoads`, `NewestPublished` |
| `et` | a ring of 1, a receive ring of 3, a quota of 2, a queue of 3 with its mark at 2, probing that fails, "stack" as controller | `ProbeUndone`, `NotDeaf`, `NothingForgotten`: what waits has somebody to come for it, `FramesTaken`, `PacketsMove`, `QueueWoken` |
| `et_watchdog` | 4 kinds of board, 2 phys of which the cycle handles one, 3 groups, a phy of three rates, 4 partners, 2 misread runs | `TimerFollowsUp`, `OffOnlyManual`, `AtMostOneUnheard`, `ForcedHolds`, `PortsWake`, `SpeedSettles` |
| `switch` | 15 boards, 3 cores, VLANs 0 to 3, one lost access, removal and reload | `SwitchForwards`, `FaServed`, `VlansReachCpu`, `UnitsDistinct`, `ManagedKept` |
| `fa_napt` | 3 flows, 2 NAPT rows, 2 next hops, 2 attachments, 2 accesses out of polls | `RowsRight`, `FreeIsFree`, `InStep` |

### Bounds, and why they are enough

`MaxLoads`, `MaxTime`, `MaxChanges`, `MaxCalls`, `MaxVersion`, `MaxManual`,
`MaxFaults`, `MaxAttach`, `MaxBusy` and `MaxMisses` cap counters.

* `fa_*`: the driver's 32 slots become 1 to 3. Three slots with two devices per
  flow means two flows ask for four slots, so the table fills with one flow half
  installed, and a second load reuses the indices of the first; one slot makes
  three flows compete for the last. `fa_faults` uses symmetry of the offloadable
  flows (it checks invariants only).
* `watchdog`: the window of 12 periods becomes 3, the least in which three
  detections fit, and the cooldown 5, longer than the window as 6 h is than 1 h;
  nine periods allow two reboots and a rate-limited one between.
* `uplinks`: five changes let both uplinks come up, one go down, get another
  device and come up again, or a reboot that swaps their names.
* `srab`: five calls let a persist module be loaded, the test module be loaded
  under it and the first be unloaded between two transactions of b53.
* `release`: two runs overlap at every step, one of them for an older tag; two
  faults let a deletion succeed, the creation fail, and the next run fail too.
* `et`: one descriptor is full after each packet; three frames and a quota of two
  make the dpc end with frames left, while another may come; three packets pass
  the mark of two.
* `et_watchdog`: the times are as short as they can be with every branch of the
  duty cycle reached (before, between and after the two times, set back or not).
  Three groups fill the list of three. Settings that do not depend on each other
  are changed on the board where they matter only. The MAC starts at 10 or 1000,
  as the probe leaves it. No phy write is lost (`LostWrites` is empty), for
  then `ForcedHolds` fails, see below.
* `switch`: the boards take between them every branch on accelerator mode, CPU
  port, address, bus and kind of switch; one lost access may be any one.
* `fa_napt`: two flows share a bucket and two a next hop. The free list has one
  entry more than there are next hops, so it does not run out, and a late write
  of a next-hop row is left out (`Late`): its entry would still be on the free list.

### Fairness

* `FaAccel!FairSpec`: the kernel worker that runs a flow's callbacks goes on (the
  loops in it are bounded, `MEM_ACC_POLL_STEPS`); nothing is fair about flows
  coming and going, loads or bindings.
* `Uplinks!Spec`: a script that runs goes on, netifd runs the scripts it owes.
* `ReleasePipeline!FairSpec`: the tracker polls and its runs go on: scheduled by
  cron and by GitHub. Tags and runs by hand need not come.
* `EtDriver!FairSpec`: a running context goes on, a raised interrupt is taken, a
  scheduled tasklet runs, the chip sends what is posted (weak). Who spins for
  ET_LOCK gets it (strong, for the lock is taken and released again: a ticket
  lock). Nobody has to open or close, no frame or packet has to come.
* `EtWatchdog!FairSpec`, `EtPort!PortSpec`: a pending timer expires, its handler
  runs, et_down gets the lock back. No ioctl, cable or list has to change.

`RadioWatchdog`, `SrabBus`, `EtFa` and `RoboSwitch` have safety properties only.

`CHECK_DEADLOCK FALSE` is set where the system may stop: `Uplinks` and `SrabBus`
when their changes or calls are used up (`Converges` says in which state the
former is), `EtFa` when the driver is detached for the last time, and `EtDriver`
when the module is removed or its probe has failed.

### What fails

* `watchdog_self_match`: the marker is saved (57) before the run logs a line that
  quotes the signature (62), so the next run detects it again; one wedge climbs
  all tiers to a reboot for which "module reload did not hold" (101) is not true.

Further configurations are kept for counterexamples that can be repeated by
hand; each names the one property that fails.

| configuration | property | what TLC shows |
|---|---|---|
| `fa_race` | `AcceptedIntact` | the register protocol is not locked (`fa_accel.c:181`): with two callbacks at once a flow is reported "written+verified ... accepting offload" whose rows are not in the tables |
| `fa_stale_unload` | `NoMisforward` | rows left by an unload are not "harmless" (718-720): once the next load reuses their next-hop index they forward the old flow to the new flow's next hop |
| `uplinks_shared_dns` | `DnsRouted` | the host route of a server both uplinks hand out is lost with the uplink that came up last |
| `uplinks_stale_sqm` | `OwnShaper` | the section of an uplink that is down keeps naming a device that may by now be the other's |
| `srab_shared` | `B53Intact` | a module's request, command or data takes the place of b53's, so the protocol does not "let multiple independent requesters share this bus correctly" |
| `release_race` | `ReplaceNeverFails` | two runs for one version: the second finds the tag taken that it has just deleted |
| `fa_nhop_full` | `FreeIsFree` | an entry put back on an empty free list follows itself, and is handed out twice |
| `et_no_txint` | `PacketsMove` | without transmit interrupts a ring that fills between two reclaims is never reclaimed |
| `et_isr_down` | `IsrQuietWhenDown` | a handler that has passed its test of `up` schedules the dpc of an interface that is down |
| `et_down_hang` | `DownReturns` | et_down kills, with ET_LOCK held, the transmit tasklet that waits for ET_LOCK |
| `switch_bypass` | `BypassOnlyFa` | with an address for unit 2 in nvram a second core is attached in bypass mode (etc_fa.c:1338); two devices then answer to one unit |
| `et_multicast` | `GroupsHeard` | `et_set_multicast_list` (2047-2056) counts its index up before it copies: entry 0 is never written, the last group is never used |
| `et_phy_lost` | `ForcedHolds` | a write to the phy that runs out of polls is not noticed: MAC and phy differ |
| `et_mac_down` | `DownIsOff` | ETCLOOP, ETCPROMISC and ETCSPEED turn the MAC of an interface that is down on |

`SetAndHold` claims nothing once a transaction of a module has failed. The code
then may leave a bit set for good: a write that runs out of polls makes insmod
fail, the switch may still perform it, and the next insmod takes it for the
former value.

`SwitchForwards` allows for a lost read, which can hide that the switch does not
forward, and on boards where every probe resets the switch, by a pin or, for a
5395, 5397 or 5398, by the soft reset register (`ResetByProbes`), for any lost
access: the reset turns forwarding off behind an earlier core's device, and a
write lost in what follows leaves it off.

`FaServed` needs that no core beyond the accelerator's is attached in normal mode:
with a fourth core (`LastCore = 3`, an et3macaddr in nvram) its probe turns header
and filters off again (`DefaultsOff`) and nothing turns them on. The router's
own nvram has addresses for units 0 to 2 only (`extracted/calibration.txt:289-293`).

## 4. The proofs

All theorems hold for every value of the constants that satisfies the named
assumptions of the modules: `FaConstants`, `WatchdogConstants`, `UplinksConstants`,
`SrabConstants`, `BoundsAssumption` and `AbsentAssumption` (`ReleasePipeline`),
`SizesAssumption` (`EtDriver`), `TimesAssumption` (`EtWatchdog`),
`SettingsAssumption` (`EtPort`), `ConstantsAssumption` (`EtFa`), `BoardsAssumption`
and `ListsAssumption` (`RoboSwitch`). TLC evaluates each on its runs. Some theorems have a hypothesis
of their own, given with the theorem; below the tables it is said where it holds.

| theorem | statement | argument |
|---|---|---|
| `FaAccelProofs!TypeCorrect`, `SlotsOwned`, `SlotsHandedBack` | types, `SlotOwnership`, `SlotHandover`, with overlapping callbacks and every fault | `OwnInv`: a slot is named by at most the callback of its own cookie, and alloc and find return only such slots |
| `AcceptedRowsIntact` | if callbacks do not overlap, `AcceptedIntact` | `SerialInv`: only one job is not at rest; after its select MEM_ACC_CTL selects its own row; what it read is what the row holds; once its NH row is verified it stays so while the NF row is written. Each is needed because a row counts as accepted only through what was read back |
| `RegisterDiscipline` | if callbacks do not overlap, `RegistersGuarded` | the same invariant: a write is transferred only after its own select, never under the selection a read leaves behind |
| `ClosedFlowsHoldNothing` | if no device leaves while flows are open (`"rebind" \notin Faults`), `ClosedHoldsNoSlot`, with overlap and every other fault | `CountInv`: while a flow is added, the slots it holds and the calls still to make are no more than the devices; while it is removed, it holds no more slots than there are calls left, the one in progress included |
| `WithoutSlotInSoftware`, `NeverMisforwards` | if `Calm` (one callback at a time, no faults), `SoftwareOnly`, `NoMisforward` | `CalmInv`: what the rows of the callback at work are at each step, and that every valid row is of a slot in use, names its flow and points to the flow's next hop. It rests on `SerialInv` and `CountInv` |
| `ForwardingImplemented` | if `Calm`, `Spec` implements the safety part of `HardwareForwarding` | from `CalmInv`: the write of an NF row is `Install` or `Remove` of its flow, the calls and their ends are the abstract `StartOpen`, `Opened`, `StartClose` and `Closed`, every other step is a stutter |
| `WorkBounded` | the work behind a REPLACE or DESTROY has at most `MaxWork * Devices + 17` steps before it, and each that it takes leaves fewer, with overlap and every fault | `WorkLeft` counts the calls to make, then the steps of the one being made, then the stages of its access; a step of another flow leaves all three. With the fairness of the worker this is why `WorkEnds` |
| `RadioWatchdogProofs!WatchdogStateTyped` | types: ring and tail never exceed their sizes | inductive as it stands, given what `tail` and `append` return |
| `RebootRateLimited` | `RebootsApart` | `RateInv`: the mark on flash is never older than the last reboot |
| `TiersClimbed` | `EscalatesInOrder` | `ClimbInv`: of any two detections on file the later was answered by a module reload, unless it is being answered now |
| `NoSignatureSkipped` | if `TailLines < RingSize`, `NothingSkipped` | `MarkInv`: as long as no more lines are unread than the tail shows, the marker's line is still in the ring, right before them; so the text found last in the tail is at or before it, and nothing after it is passed over |
| `UplinksProofs!UplinksTyped` | types | |
| `DefaultConverges` | `DefaultInStep` | `RouteInv`: while an event is pending nothing is claimed; otherwise the answers 31 has collected are the uplinks' present state, because whatever would falsify one leaves an event pending |
| `TuningConverges` | `Tuned` | `TunedInv`: of an uplink that is up without a pending event: DEVICE is still its device when it is used, its section names the device unless its script has the binding ahead of it, the device is steered unless the script is still at work; once all are so, the latest restart of sqm has shaped each by its own section |
| `DnsConverges` | if `OwnServers`, `DnsRouted` | `DnsInv`: of an uplink that is up without a pending event, each server is routed through its device, or the script for it has yet to route it |
| `ScriptsEnd` | between two changes of the uplinks every step of a script takes up an event, is a step ahead or has routed one more server | `StepsLeft` within a script, the servers left within a step, the events owed across scripts: no script leaves an event behind. This is the half of `Converges` that needs no fairness |
| `SwitchProofs!BusTyped`, `BusLeftReleased` | types, `BusReleased`, with overlapping transactions and b53's own counting of polls | `Held`: a request that is set and was not given up is that of a client between its request and its release |
| `BitSetAndHeld` | if not `Overlap`, `SetAndHold` | `Apart`: one client has the bus, the command under way is its own, and as long as nothing failed the registers are, for each step of each program, what the modules that are loaded and the steps done so far make of them |
| `DevicesApart` | `UnitsDistinct` | `ProbeInv`: devices have the units that the map as it is now gives their cores. The map changes once, with the first core that has an address; until then no core has got past its address, so there is no device |
| `StaysManaged` | `ManagedKept` | what each step does to the mode register, for each access it may lose |
| `AttachedForwards` | `SwitchForwards` | `ForwardInv`: at which steps of a probe the switch is known to forward. A probe that finds forwarding off ends without a device unless the mode read back says on (`bad`) |
| `AcceleratorServed` | if `ThreeCores`, `FaServed` | `FaInv`: in normal mode the accelerator's core is the last to be attached, so nothing is reset after it; its fa_attach sets port and filters again; opening and closing its device turn the filters on and off from a state in which they are off |
| `CpuReached` | if `OneCpuPort`, `VlansReachCpu` | `ReachInv`: for the port nvram puts the CPU behind, `RoboAttach` and `ConfigVlan` mark no other; from the step that writes the tables until the next probe resets the switch every VLAN with the CPU has the port as a member and its address entry leads to it, and from `ForceCpuPort` on the port's link is up. The first and the last of the marked ports are Min and Max of a set of indices, which exist by the well-founded order of the naturals |
| `ReleaseProofs!PipelineTyped`, `PatchedShipped`, `PairsLoad` | types, `ShipsPatched`, `PairLoads` | `PairInv`: a run past its build carries the pair (with the release number bumped and both packages staged apk has no choice, and a stray module in the overlay stops the build), and every release came from such a run. Neither property is inductive without what the runs carry |
| `PublishedStays` | once no more calls fail, a version that is published stays so, or a run that replaces it is about to publish it | `Covered`: a deletion is followed by a creation of the same version in the same run, which only a failure ends. `NewestPublished` needs this and that a run comes to it |
| `EtDriverProofs!DriverTyped` | types | `LockInv` (ET_LOCK has one holder and it is inside), `QueueInv` (queue and descriptors fit), `ChipTyped` |
| `NeverDeaf` | `NotDeaf`, with every control path and where et_down overtakes a handler | `LockInv` and `DeviceInv`: nothing is up while it is being probed. Every step that turns interrupts off while up leaves the dpc scheduled or running, and the dpc's last step turns them on |
| `FramesNeverForgotten` | if `OneAtATime` and not `SlowIsr`, while up `FramesNoticed` | `TurnInv` (what the handler and the dpc have read of the chip and not yet dealt with) and `DownInv` (who may be inside while the interface is down): a frame's event stays in the chip, or in the handler's or the dpc's hands, until a receive has emptied the ring |
| `NothingLeftBehind` | if `Controllers = {"stack"}`, not `SlowIsr`, not `NoTxInt` and `HiWat >= 2`, `NothingForgotten` | `NoticedKept`: a step that does not add work keeps somebody to come for it. `FrameInv`, `SentInv`, `PacketInv` and `StopInv` are its four parts; `StackInv`: the queue is empty and no call of et_start is under way while the interface is down, so et_up starts with nothing waiting |
| `ProbeLeavesNothing` | `ProbeUndone` | `ProbeInv`: what is held while probing is a prefix of the order of acquisition, and from each prefix the three levels of clean-up free all |
| `EtPortProofs!WatchdogTyped` | types: the two times stay near each other | |
| `TimerFollows` | `TimerFollowsUp` | `SetFollowsUp`: `set` and `up` agree, and a closing interface is not up; without it a late handler could arm the timer |
| `OffOnlyOnRequest` | `OffOnlyManual` | `SaveInv`: each function that sets the manual bit is reached for phys in `pwrsave_mode_manual` only, and the ioctl that clears the one clears the other |
| `WokenInTime` | with a port in manual mode every second wakes the cycle's ports or brings their waking nearer; it is never further off than the initial sleep, or a wake and a sleep | `InCycle`: sleep_timer is ahead of now only as the initial time, a sleep or a restart left it. Without it the two times could pass each other. With a timer that goes on this is why `PortsWake` |
| `OnlyTheLastUnheard` | `AtMostOneUnheard` | `HeardInv`: while up all groups are let through, or all of the stack's but the last are in the filter |
| `ForcedSpeedHolds` | if `Forcible`, `ForcedHolds` | `HeldInv`: a forced speed is the rate and what the phy's control register says, and while up what the MAC is set to; every function that resets the phy sets it again |
| `EtFaProofs!FaTyped` | types: the free list stays within its entries, the count is not negative | `TypeInv`: the head is taken only while the list is not at its end; `CountInv` for the count |
| `TablesInStep` | `InStep` | `RowsInv`: also during a call, a flow on file has its index and a valid row, except for the flow of the call; an index in use belongs to a flow on file or to the deletion under way |
| `RowsStayRight`, `FreeStaysFree` | if `Roomy`, `RowsRight` and `FreeIsFree` | `Sound`: each address has one next-hop row at most, whose count is at least the number of rows and calls that use it; the free list is a chain without repetition through exactly the rows without an address. There are fewer addresses than rows, so by the pigeonhole principle the list is not at its end, which is what keeps an entry from following itself |

The theorems of `EtPortProofs` are about `PortSpec`, the composition that the run
checks. `SwitchProofs` treats `SrabBus` and `RoboSwitch`, which share no state:
the first is the bus by which the second's accesses could reach a switch.

The hypotheses:

* One callback at a time (`~ Concurrent`, `Calm`): nothing in the code ensures it,
  and without it `AcceptedIntact` is false (`fa_race`). What the driver promises is
  promised for a kernel with one worker for flow rules. No faults (`Calm`): after
  an unload `NoMisforward` is false (`fa_stale_unload`), and a failed addition may
  leave its row valid. No fault can be allowed: with "rebind", "unload" or "busy"
  alone TLC finds `SoftwareOnly` violated, and `NoMisforward` too (for the first two
  with `MaxLoads = 2`).
* `"rebind" \notin Faults`: a device that leaves takes the DESTROY of the flows added
  through it with it.
* `TailLines < RingSize`: the script reads 200 lines (50) and logd's ring of the
  default size holds more; with a ring no longer than the tail the marker may be
  gone while all that is left is unread.
* `OwnServers`: `DnsRouted` is false without it (`uplinks_shared_dns`).
* `~ Overlap`: the code does not ensure it (`srab_shared`).
* `ThreeCores`: nvram of this router, see section 3.
* `OneCpuPort`: on a 5301x the lists of nvram mark one port as the CPU's, 5, 7 or 8
  once the auxiliary port stands for the IMP port, and list the IMP port only if it is that
  one. All boards of `MCRoboSwitch` satisfy it. With 5 and 8 both marked
  the address entry names 8 and the link that is forced up is that of 5, and TLC
  finds `VlansReachCpu` violated.
* `OneAtATime`, not `SlowIsr`: one control path at a time, and no handler that et_down
  and the next et_up overtake. Otherwise a dpc from before et_up runs with the
  interrupts on; what the handler hands over in its course, the dpc's last step
  (`events' = {}`) throws away, and its frame waits for the next one's interrupt. TLC
  shows it with "pm" beside "stack", and with `SlowIsr`. et_suspend and et_resume
  are called when user space is frozen, so the hypothesis is how they are used;
  nothing in the driver ensures it.
* `Controllers = {"stack"}` (`NothingLeftBehind`): et_sendnext opens the queue of an
  interface that ETCDOWN took down, and the packets that come then wait, after
  ETCUP, for the next et_start, whenever that is (TLC, with "ioctl").
* not `NoTxInt`: without transmit interrupts nothing notices a sent descriptor
  (`et_no_txint`). `HiWat >= 2`: half of 1 is 0, below which no queue falls, and a stopped
  queue would stay so; DATAHIWAT is 1000.
* `Forcible`: the write to the phy that forces the speed is performed (`et_phy_lost`
  without it), and 1000 half duplex is not forced: ETCSPEED
  accepts it (etc.c:505), but gmac_speed and chipphyforce have no case for it, so
  neither MAC nor phy would follow.
* `Roomy`: fewer addresses than entries (else `fa_nhop_full`), one address of the
  router's for each direction ("only 2 entries, one each direction"), and no late
  write of a next-hop row.

Only model-checked: liveness under fairness (`WorkEnds`, `Converges`,
`NewestPublished`, `FramesTaken`, `PacketsMove`, `QueueWoken`, `PortsWake`,
`SpeedSettles`, the liveness part of `HardwareForwarding`), which is beyond the
prover. The safety each rests on is proved where it could be said: a bound that every
step lowers (`WorkBounded`, `ScriptsEnd`, `WokenInTime`), what is not taken back
(`PublishedStays`), and that whoever waits has somebody to come (`NeverDeaf`,
`FramesNeverForgotten`, `NothingLeftBehind`). Neither is
known for `SpeedSettles`.
The type invariants of `FaAccel`, `RadioWatchdog`, `EtFa`, `EtDriver`, `EtWatchdog`,
`Uplinks`, `SrabBus` and `ReleasePipeline` are proved and not checked again by a run.

## 5. Not modelled

* **Decoding of a rule** (`fa_decode_*` of `fa_accel.c`) and the packing of rows:
  flows are distinct values in the model. Read off the code: a rewritten
  destination or port never gets into a row, a zero address or port counts as no
  rewrite, and `fa_decode_dst_mac` counts any rewrite of an ethernet address as known
  without reading it.
* **Vendor driver**: statistics, dumps, packet headers, chaining, CTF and PLC paths,
  NAPI and all-passive builds, qos, the station address, iovars and register ioctls,
  the conntrack front end, the hash of a tuple (a set of rows per flow), the EEE
  work-around of the timer, RGMII ports, LEDs and flow control of the switch: they
  are compiled out on this router, keep no state the properties speak of, or are
  data.
* **Uplinks**: renewed leases (every script returns on ifupdate at once), the wired
  wan, the seed values and rates of an sqm section.
* **Bring-up and probe modules**, `fa_bcmhdr_ctl_persist.c`, `perf-tune`, the boot
  scripts: straight sequences without a second actor.
* **Patches, wireless probes, configuration, staging copies, recovered sources**:
  the code they change or run is not in the repository, or they are copies.
* **Composition of the vendor's modules with each other**: `EtDriver` and `EtPort`
  share et_open and et_close, `RoboSwitch` ends where `EtDriver` begins, `EtFa` is
  called from the stack. Their shared state is `up` and ET_LOCK, which each models
  on its own; together they are beyond TLC.

What would add most next: renewed leases, a bound on the accesses lost by the
switch's set-up other than one, and the composition of `EtDriver` with `EtPort`.
