# Verification of move-spi-armbian

TLA+ specifications of the programs this repository adds to Armbian so that an
Ableton Move runs on it: the `ablspi` kernel driver, the `move-xmos-init` tool in
both its versions, the swupdate shim, the ConnMan shim, the update service, the
scripts for the USB gadget and the first WiFi connection, and the quota patch. Each
is checked with TLC on small instances. Every invariant and every action property
that those runs check is also a theorem, checked by TLAPS for every value of the
constants; liveness is model-checked only.

    cd tla
    tlasany AblSpi.tla                                    # parse
    tlc -workers 2 -config AblSpi.cfg MCAblSpi            # model-check
    tlapm AblSpi_proofs.tla                               # prove

`PROJECT.json` holds the machine-readable index: runs, the source lines behind
every definition, a mutation of the model for every property, findings, hazards.

## 1. The system

| Component | State it keeps | Operations | Talks to |
|---|---|---|---|
| `ablspi` driver (`kernel/ablspi.c`) | the shared page, `in_transfer`, two completions, size and clock, a mutex; per module: minors, class, `/proc` | 13 ioctls, read, write, mmap; probe, remove, module init and exit | user tasks by ioctl and by the mapped page; the SPI core by `spi_async` and a callback; the XMOS controller by an interrupt line |
| `move-xmos-init`, packaged and older | mailbox, captured mode, accumulator | one linear `main` | the driver |
| swupdate shim | status and percentage, the list of progress clients, one temporary file and one worker thread per upload | control and progress sockets, notifications, restart of the launcher | Updater, MoveWebService, systemd; its own worker by callbacks |
| `process_swu`, the shim's worker | working directory, mount, result | extract, verify, install, scripts | cpio, openssl, gunzip, mount, rsync, tar, bash |
| ConnMan shim | exported service objects, cache of access points, registered agent | `net.connman` Manager, Technology, Service; signals | NetworkManager and MoveOriginal over D-Bus |
| update service (`move-update-dbus.py`) | UserData | `factoryReset` | systemd; the launcher, which the swupdate shim restarts too |
| USB gadget script | the configfs tree | start, stop | the kernel; its oneshot unit |
| first-boot WiFi script | the credentials file, NetworkManager's key file | one run per boot | the card, systemd |
| quota patch | MoveWebService, its backup, a copy being edited | patch, dry run, rollback | systemd; the firmware updates that replace the binary |
| package and update-check scripts | files under `/boot`, units | install, remove, check | dpkg, systemd |

What is hard in them, and what makes each correct:

* **Driver, transfer path.** Tasks hold one mutex across two blocking waits;
  frames, edges and signals come in any order, and the page the DMA reads is mapped
  into user tasks. The controller says nothing until it has got a frame and then
  answers each frame with one edge, so one edge lost silences the link. Correct
  means: one frame is in the controller's hands at a time and it is the caller's,
  whole; a call that succeeds has had its own frame exchanged; the link never falls
  silent by itself.
* **Driver, lifetime.** Nine acquisitions in probe and five in module init may
  fail, and devices on different controllers come and go concurrently. Correct
  means: minors are exact, nothing dangles while it can be reached, nothing leaks.
* **swupdate shim.** One event loop, two sockets, a list that coroutines change
  while others walk it, a thread that writes the same globals, and a process that
  may be killed and started again. Correct means: a program that follows an update
  hears that update's verdict, who connects while one runs sees that one, and the
  launcher is restarted after a success.
* **`process_swu`.** Every statement may fail, and the errors of its deletions are
  passed over. Correct means: success is only said when everything is in place,
  nothing unverified is installed, and nothing stays mounted or lying about but
  what the system refused to remove.
* **`move-xmos-init`.** Packing by hand, a reply that may come in two pieces, late,
  or never, and ioctls that wait for the controller without a time limit.
* **ConnMan shim.** One coroutine per request and per signal; every property is
  another question to NetworkManager, whose access points vanish meanwhile, and the
  agent that knows the passphrase comes and goes. Correct means: when things have
  come to rest, what is exported is what is in range, and what was announced is
  what is so; a secured network is only joined by way of the agent.
* **Update service.** The launcher it has stopped has other masters. Correct means:
  nothing is wiped under a running launcher, and a reset brings UserData and the
  launcher back.
* **USB gadget, first-boot WiFi.** What one run leaves, the next one finds, also
  after a kill or a power cut. Correct means: the next start succeeds, no host sees
  half a gadget, and the credentials are not lost.
* **Quota patch.** Every command may end the script between two steps, on a binary
  the system serves from. Correct means: patched or untouched, and patched when
  nothing failed.

## 2. Modules

| Module | Stands for | Kind |
|---|---|---|
| `AblSpi` | transfer path of the driver, from the moment probe has made the node visible | detailed |
| `PacedLink` | what the transfer path promises to both ends of the link | abstract |
| `AblSpiDevice` | module init and exit, probe, remove, minors, open files | detailed |
| `SwupdateInstall` | `process_swu` | detailed |
| `Installer` | what the event loop relies on in `process_swu` | abstract |
| `SwupdateShim` | the event loop, its sockets, its worker threads, its restart | detailed |
| `XmosInit` | `src/xmos-init/move-xmos-init.c`, the tool the package builds | detailed |
| `XmosInitOlder` | `scripts/move-xmos-init.c`, by what differs from `XmosInit`; either tool may be started | detailed |
| `ConnmanShim` | GetServices and ServicesChanged | detailed |
| `ConnmanConnect` | Connect and the passphrase agent | detailed |
| `ConnmanTechnology` | the Powered property | detailed |
| `UsbGadget` | `setup-usb-network-gadget.sh`, its unit and configfs | detailed |
| `FirstbootWifi` | `firstboot-wifi.sh` and what is on the disk | detailed |
| `FactoryReset` | `factoryReset`, the launcher's unit and the shim's restart of it | detailed |
| `Services` | the five modules before it side by side | composition |
| `QuotaPatch` | `fix-move-manager-quota.sh` | detailed |
| `AblSpi_proofs`, `AblSpiDevice_proofs`, `SwupdateInstall_proofs`, `SwupdateShim_proofs`, `ConnmanShim_proofs`, `UsbGadget_proofs`, `Services_proofs` | theorems about the module they are named after | proofs |
| `XmosInit_proofs` | theorems about `XmosInit` and `XmosInitOlder` | proofs |
| `MC...` | instances for TLC: argument sets, payloads, symmetry | model checking |

How state and actions correspond to the code:

**AblSpi.** `pc[t]` is a task's place in its ioctl; one action per stretch of the
handler between two points where another task, the interrupt thread or the SPI
core may come in: `Enter` (the mutex and the switch), `CheckWait`, `TakeEvent`,
`ReinitEvent` (`ablspi_wait_for_irq`), `ClaimTransfer`, `PrepareTransfer`,
`StartTransfer` (`ablspi_submit`), `TakeDone` (`ablspi_wait_for_xfer`), `Leave`.
`in_transfer`, `irq_event`, `xfer_done`, `message_size`, `speed_hz` and the rest
carry the driver's names. A completion is its counter; `complete` saturates, as
the kernel's does. `core` is the queue of the SPI core, `xmos` the controller,
`line` an edge whose interrupt thread has not run. A signal may end either wait;
`Leave` then returns or lets the kernel issue the call again with the same
arguments. The bytes of a frame are one value of `Data` and a size. A store into the
page while frames are under way (by a task that has it mapped, or by `FILL_TX`)
turns what goes over the wire into the old contents, the new, or another value that
stands for a mixture (`Torn`); the controller echoes what came over the wire. Two
frames can only be in `core` after an interrupted wait; re-initialising a message the
core owns is undefined there, and the model keeps the two apart, the mildest
outcome.

**PacedLink.** One variable says whose turn it is: host, wire, XMOS.
`AblSpi` implements it with the mapping `LinkTurn`, computed from `core` and
`xmos`.

**AblSpiDevice.** `at[d]` is the step of probe, of an error label or of remove;
`held[d]` what has been acquired. Steps that acquire may fail towards the label
the code names. `find_first_zero_bit` and `set_bit` are two actions under
`minorLock`. Open files of a device that is freed become `orphans`.

**SwupdateInstall.** One action per stage of `process_swu`; a payload is a record
of what the code tells apart (kind, does its name stay inside, is the hash
declared and right, how is it packed, which trees it carries). `arrived` and
`unpacked` are the payloads the working directory holds as they came and in their
unpacked form, whole or in part: `gunzip` deletes what it has unpacked, an encrypted
payload stays until `FreePacked` (423-427), and after a failure both may stay
beside the next payload. What the code deletes may withstand it: the upload (737-741),
the encrypted payload, the mount, the mount point and the working directory; `refused`
remembers it, because the code passes over it. The mount point is made
(`MakeMountPoint`, 438) one step before the try statement that removes it.
`Raise` is an exception anywhere, with the finally clauses on its way out.
`mark` is the last percentage, computed with the code's divisions.

**SwupdateShim.** `ready` is the loop's queue of callbacks; a coroutine runs from
one await that really waits to the next, in one action (`RunStart`, `RunWake`,
`RunNotify`, `RunResult`, ...). A notification that waits in `drain()` keeps the
index it has reached in the list and those it found dead. Sending to a live
client never waits (the message has 2.4 kB); sending to one that has hung up
closes the transport and lets the loop run once before `drain()` raises. The
worker is `Report` and `Finish` with the guards of `Installer`, which
`SwupdateInstall` is shown to implement: the two models meet there. `Crash` kills
the process with its threads; `Restart=always` starts one that knows of no
connection and shows SUCCESS. The temporary file of an upload is not followed here: it
is `swu` of `SwupdateInstall`, and the unlink in the handler (240-243) passes over
its errors.

**XmosInit, XmosInitOlder.** `pack_midi` writes one packet per action, with the
code's arithmetic. What comes back in a frame is a fragment: nothing, other events,
the reply, or its first or second half. Each exchange begins with the driver's wait for
an edge (`Await`), which has no time limit (`ablspi.c`, 278): an edge is used up, also
by a transfer that fails, and after it `line` has another or falls silent for good.
`line = "refused"` is a driver that answers every ioctl with an error (no interrupt, or
`in_transfer` set for good). An ioctl that fails leaves the page as it was. The accumulator counts fragments, not bytes, so a fragment that is cut in
two at its end is either in it or not. `XmosInitOlder` takes over the packer without
its branch for real-time bytes, has frames of its own, and looks at the IN region
once, after the last. Its first ioctl, `SEND_MESSAGE_AND_WAIT`, waits for no edge (`Kick`).

**ConnmanShim.** `task` holds the coroutines and their locals, `ready` those the
loop will run, `lockq` the holder of the lock and those that wait, in the order
`asyncio.Lock` serves them. `toNM` and `fromNM` are the bus, which keeps the order
in each direction. Introspection and the call that follows it are one question.
A message may be received between any two coroutines that are ready, which is
somewhat freer than the loop.

**ConnmanConnect.** A call of Connect has a place for each await: `reading` the
properties of its access point, `introspecting` the agent, `asking` it, `activating`.
`agent` is read when `ask_passphrase` begins and again when the proxy object is made
(`RequestInput`); in between it may be another, or none. `answering` are the agent
objects that exist, so an agent that has gone without unregistering fails the
introspection. An access point that vanished before its properties were read gives a
network without a name, which counts as open and which NetworkManager refuses.

**ConnmanTechnology.** `sets` and `replies` are the bus to and from NetworkManager;
`claimed` is the last PropertyChanged.

**UsbGadget.** `script` is the list of commands a run has still to do, in the
order of the script; `Accepted` and `Effect` are what configfs makes of a command.
`Tolerated` are those whose failure the script ignores; after any other `set -e` ends
it. `smooth` is a run that met no fault of its own. Emptying UDC with `: >` writes
nothing to it (lines 136-138), so the gadget is bound until its function is unlinked.
`Fail` may meet every command of a stop, `rm` included (146-147 tolerate it); `stuck`
are the links an `rm` was to take and did not.

**FirstbootWifi.** Each file has a copy the system reads and one on the disk;
`WriteBack` moves the first to the second at any time, `Shred` at once, and
`PowerCut` goes back to the disk. One action per command that matters, in the
script's order.

**FactoryReset.** `handler` is the place in `factoryReset`, `launcher` its unit as
systemd sees it. `subprocess.run` waits for the stop (`Stop`, `Stopped`), its result
is not looked at; `TryRestart` is the swupdate shim, `Exit` and `AutoRestart` the
crashing launcher. Jobs of systemd replace one another as its manual has it, and are
external.

**Services.** The five small modules share no state, so a behaviour moves one of
them, whichever, and their interleavings are not enumerated; `faults` is the only
variable they have in common, as each counts its own.

**QuotaPatch.** `at` is the stage of the script or its exit status. A file is a
version and the set of sites that are edited, or a copy that was cut off. A version
has the expected bytes or not, and a length of `.text`, which matters because the
offsets are computed from it (`Delta`). A command
whose status means "no" and one that fails end the script alike, as `errexit` and
`pipefail` have it; `clean` tells the two apart. A firmware update takes the backup
and the copies with it (`rsync --delete` in the swupdate shim).

## 3. Runs

| Run | Checks | Bounds, and why they are enough |
|---|---|---|
| `AblSpi` | `OneFrameAtATime`, `WaitCoversOwnFrame`, `LinkAlive`, `InTransferOwned`, `FrameAsSubmitted`, `ReplyIsOwn`, `SizedFrame`, deadlock | 2 tasks (the properties relate a call to one other), one of which stores into the mapped page, the commands that touch the page, the size or the frame (`READ_BUFFER` for those that only copy out; the rest is in `AblSpiLive`), sizes 0, 1 and the largest (one above it is refused as 0 is), a signal during any wait for the interrupt, a controller that also fires by itself, one refused and one failed frame |
| `AblSpiLive` | `TypeOK`, `EveryCallReturns`, `LinkKeepsMoving`, `PacedSpec` | 2 tasks, the two waiting sends and the commands that send nothing, a clock of the device tree below the range of `SET_SPEED`, one asked for above it and one whose 32-bit cut is inside it; a controller that only answers frames; a signal may end either wait. No task stores into the page, which no wait depends on |
| `AblSpiAbandoned` | finds `WaitCoversOwnFrame` violated once signals may end the wait for the transfer | 2 frames in the SPI core |
| `AblSpiDevice` | `MinorsExact`, `NothingDangles`, `NothingLeaks`, `UnloadOrphansNobody`, deadlock | 3 devices for 2 minors, so that they run out; 2 open files |
| `SwupdateInstall` | `SuccessIsComplete`, `NothingUnverified`, `RoomForImage`, `NothingLeftBehind`, `PromiseKept` | up to 3 payloads of 9 kinds in every order, 1 script; every removal may be refused |
| `SwupdateShim` | `VerdictIsOwn`, `ShownIsLive`, `ListExact`, `FollowersServed` | 2 uploads, 2 clients, one of which may hang up at any time, one report per update: enough for a notification to be held up by a dead client while another handler runs; 1 kill of the process at any moment |
| `SwupdateRestart` | finds `SuccessRestarts` violated | 1 upload, 1 client |
| `XmosInit` | `PacketsDecode`, `NoOverrun`, `OkMeansReply`, `ReplyNotMissed`, `EndsOrHangs` | both tools; every sequence of up to 3 bytes of 7 classes and SysEx messages of every length modulo 3, alone and between others; 3 slots so that the region fills; 3 tries; an accumulator of 2, so that other events fill it before the reply comes; a line that may fall silent after any frame |
| `ConnmanShim` | `IdleAgrees`, `ListedStaysExported`, `TableMovesForward`, `ListsEnd` | 3 access points, two of them the same network one after the other, one that may hide its name; 1 call, 1 change of the active connection, 2 coroutines at once |
| `ConnmanDrift` | finds `NoDrift` violated | as above |
| `Services` | `BoundIsComplete`, `RunsCleanly`, `CredentialsKept`, `QuietWipe`, `ResetRestores`, `AgentDecides`, `PowerAgrees`, deadlock | 4 faults: a failure in one run (a stop has two `rm`, and both must fail for a gadget to stay bound), a kill in the next, a power cut, and one more in the run that has to get over them. But for the faults, the state of each service is finite without a bound (three calls of SetProperty at a time, two calls of Connect, two networks, two agents) |
| `QuotaPatch` | finds `PatchTakes` violated | versions with and without the known bytes; the addresses of the document (Address 0x24ccc0, Off 0x23ccc0), and two lengths of `.text`: one as it is, and the only one with which the script's offsets come out right, so that its later steps are reached too |

Deadlock checking is off where the system stops: the installation, the tool and
the shims come to rest when their inputs are used up.

A type invariant is checked by TLC where a run has it (`AblSpiLive`) and is part of the
inductive invariant in every one of the proof modules.

### What the violations show

* **`AblSpiAbandoned`**: a signal in `ablspi_wait_for_xfer` gives the flag back
  while the SPI core owns the message; the restarted call re-initialises it and
  may return with the completion of the abandoned frame.
* **`SwupdateRestart`**: a report and the verdict both find the same client dead.
  The second `list.remove` raises `ValueError`; in the verdict's handler this skips
  the cleanup and the restart.
* **`ConnmanDrift`**: a service object keeps the object path it was created with.
  When NetworkManager replaces the access point of a network and both signals are
  handled before the list is taken, the service shows an empty name and is
  never online.
* **`QuotaPatch`**: the script reads the fifth and the sixth column of `readelf -SW`
  (139) for address and offset; they are Off and Size (the address is the fourth). The
  offsets of the sites are wrong by that, the bytes there are not the expected ones
  (156), and on the binary it was written for the script dies at 160, before the
  backup and the copy. Behind it waits another: it counts the differing bytes with
  `cmp -l | wc -l` under `errexit` and `pipefail` (182). `cmp` ends with 1 because the
  files differ, so that with the right offsets the script would end there, silently,
  and the steps after it (stop, install, restart) would never be reached. They are in
  the module as the code has them. A rollback has a trouble of its own: it copies over
  the binary without stopping the service that executes it.

Seen with `EndsOrHangs`, and no violation: with a silent controller, or after a single
transfer that failed, `move-xmos-init` never returns from its next ioctl, and the
counters that bound its loops do not help. `move-xmos-init.service` is a oneshot
without `TimeoutStartSec` and comes before `move-launcher.service`, which then does not
start, although its comment says "Failure is non-fatal" and "so dependent units run".

## 4. Fairness

* `AblSpi`: weak fairness for probe's tail, the interrupt thread, the SPI core
  (it completes what it accepted) and the controller (it answers a frame), and
  for every step of a handler that can run. Strong fairness for the mutex only:
  the kernel's mutex hands over to a waiter that has waited too long. Nothing
  obliges a task to call or to be signalled; `DrivenSpec`, for the run about the audio
  loop, adds that a task that can go on calling issues a waiting send some time,
  whatever else it calls (strong fairness of `CallSend`). So `EveryCallReturns` and
  `LinkKeepsMoving` are about tasks that keep sending, and not about one that stops.
* `XmosInit`: the next step of the tool that was started is taken whenever there is one.
  An ioctl that waits for a silent line is no step: nothing says that it returns.
* `ConnmanShim`: the loop runs what is ready, and NetworkManager answers. Changes
  of the environment are not fair.
* The swupdate modules and the services have no fairness: `FollowersServed` is
  stated as a safety property, that whoever still waits at rest has a difference its
  next poll, 100 ms later, will see; and the services' properties speak of runs that
  have come to their end.

## 5. Proofs

| Module | Proved of | For any | Needs |
|---|---|---|---|
| `AblSpi_proofs` | `AblSpi`, and that it implements `PacedLink!Spec` | tasks, commands, data, bounds | the conditions named below, theorem by theorem |
| `AblSpiDevice_proofs` | `AblSpiDevice` | devices, minors, files | |
| `SwupdateInstall_proofs` | `SwupdateInstall`, and that it implements `Installer` | payloads, scripts | |
| `SwupdateShim_proofs` | `SwupdateShim` | updaters, clients, percentages, crashes | `OneAtATime`, for three of the four |
| `XmosInit_proofs` | `XmosInit`, `XmosInitOlder` | batches, sizes, tries | |
| `ConnmanShim_proofs` | `ConnmanShim` | access points (finitely many), coroutines, calls | |
| `UsbGadget_proofs` | `UsbGadget` | faults | |
| `Services_proofs` | `Services` and its parts | faults, agents, networks, calls | |

What the constants are assumed to be is named in the modules that declare them
(`...Assumption`); every run evaluates it.

`AblSpi_proofs` is about `Spec` of `AblSpi`, for every set of tasks, commands and
data and every bound. The constants' assumptions are those named in `AblSpi`.

1. `TypeCorrect`: `[]TypeOK`, inductive as it stands. It is split into four parts,
   each preserved by every action. The clock is one that probe took from the device
   tree, which has no lower bound (828-830), or one in the range of `SET_SPEED`.
2. `OneHandlerAtATime`: `[]MutualExclusion`. `TypeOK` alone does not say that the
   holder of the lock is in its handler; `ControlInv` adds which commands can be at
   which place.
3. `LinkStaysAlive`: `[]LinkAlive`. Each step that spends one of the reasons for
   the next interrupt makes another: the pre-arm an event, an event a task that
   holds it, that task a frame, the frame an owed edge, the edge a line, the line an
   event. It needs that an event is only taken with `in_transfer = 0` by the one task
   that holds the mutex, so that `ClaimTransfer` cannot refuse it.
4. `MessageHasOneOwner` and `SuccessMeansExchanged`, when no signal ends a wait for
   a transfer: the invariant `FrameInv` ties `in_transfer`, `xfer_done` and `core`
   together (the flag is set whenever a frame is in the core or its completion is
   untaken). Without the flag there is nothing that keeps a second frame out.
5. `FlagAccountedFor`: `[]InTransferOwned`, inductive with the types: the flag is only
   set for a call under way, a frame in the core, or a completion nobody took.
   `FlagNeverLeftSet` is stronger and needs that nobody uses `SEND_MESSAGE`: the first
   of the three is then always the reason, so that the flag comes back with the call.
6. `FramesAreWhole`, `RepliesAreOwn`, `SizesAreOwn`, under the same condition: `DataInv`
   says in addition that the size is that of a sized call from its check on, that a
   frame in the core has the contents and the size that are still set, and that a
   waiting call whose frame is done finds its exchange. The first two are about calls
   whose page no other task has mapped, which is part of the properties and not a
   condition on the constants; the third holds whoever stores into the page, because
   a torn frame keeps its size. A frame that `SEND_MESSAGE` left in the core does not
   matter: no waiting call is then past `ClaimTransfer`.
7. `PacedFrames`, under `PacingAssumption` (of the commands that send only the waiting
   ones, no failed sends, a controller that only answers): every step is a step of `PacedLink` or leaves its
   turn alone. The liveness part of `PacedSpec` is model-checked only.

`AblSpiDevice_proofs` is about `Spec` of `AblSpiDevice`, for any number of devices,
minors and open files: `DeviceTypes`, `MinorsAreExact`, `NothingEverDangles`,
`NothingEverLeaks` and `UnloadIsSafe`, all from one invariant, `IndInv`. No property is
inductive by itself, because a step of an error label is only right if the label is the
right one. The invariant says at which steps of probe, of the labels and of remove a
device has each resource (`HeldAt`), and which globals the module has at each step of
its init and exit (`Acquired`); that a device is only on its way or bound while the
driver is registered; that the holder of the lock is between the search and the setting
of the bit, with a number that is still free (`LockInv`); and that nothing is open outside
the module's life. That the search finds the first zero bit, or none, is a lemma of its
own (`FirstFreeIsFree`), by the least element of a set of naturals.

`SwupdateInstall_proofs` is about any payloads, any number of them and of scripts. Its
invariant has one part per idea: what each stage may count on (`StagesHold`), who may
still have the upload or both forms of a payload on the card (`RoomHolds`), who has a
mount, a mount point or a working directory to remove (`TraceHolds`), that a half-written
`/opt/move` is known to the payload in hand or to the result (`MixtureKnown`), that as
long as nothing failed all payloads before the one in hand are in place
(`PlacedSoFar`), and that behind the hash check every hash is right (`HashesHold`). From
these follow `SuccessWasComplete`, `OnlyVerified`, `AlwaysRoom` and `CleanedUp`.
`KeepsThePromise`, that `Installer` is implemented, also needs that no percentage runs
backwards: rounding the shares of the payloads down one by one never passes the
rounded share of all (`QuotientsAdd`, `MarksOrdered`).

`SwupdateShim_proofs` has two parts.

1. Whoever comes when. The invariant says that a coroutine is resumed by one callback
   at a time and is then where it stopped (`ClientEntries`, `UpdaterEntries`), that a
   client is in the list from its first step until it leaves, once (`ListInv`), and that
   a notification holds only clients whose connection is gone for good. From it follow
   `ListsStayExact`. Whoever is
   taken out of the list is taken out by `Kept`, about which one lemma is proved by
   induction on the length of the list (`KeptProperties`).
2. What followers hear, when updaters wait for the one before (`OneAtATime`). `TurnInv`:
   one update at a time is being answered, and from its first byte on the status that is
   shown is RUN or, once there is one, its own verdict. `OrderInv` and `AskInv`: after a verdict every waiting client is woken before
   the next update is let in, so that none has its status overwritten. `AwaitInv`: for
   every update that a waiting client has joined something is still to come that it
   will hear. From these follow `VerdictsAreOwn` and `FollowersAreServed`, and with
   `LiveInv` (the percentage is that of the worker) `ShownIsAlwaysLive`. Without the
   condition all three are false (two uploads share one status), so it is a condition and
   not a convenience; the shim's clients keep it, as section 6 says.

`XmosInit_proofs` is about both tools, any batches, any size of the OUT region and of
the accumulator, and any number of tries. `StaysInRegion` follows packet by packet from
the check before each write. `PacketsAlwaysDecode` compares the packets with a reference
that takes them apart (`Reassemble`). The function that `FlattenSeq` defines is shown to
exist, and one packet more to be its bytes at the end (`ReassembleAppend`), by
induction over the number of packets: a least counterexample in the naturals
(`UpTo`), as no induction theorem with an operator for a parameter can be used here.
`OkIsEarned` and `NoReplyMissed` need `LooksAgree`: what is in the accumulator was
sampled, the flag is set only by a reply that was sampled whole or in both halves, and
a whole reply that was sampled has set it.

`ConnmanShim_proofs` first shows that every action has one of eight shapes (what the
coroutine that runs does to the queues and to its own record, and what a message
does), then, shape by shape, that the invariant is kept. Its parts:

* `Places`: a coroutine is in one place, in the loop's queue, behind a question, behind
  its answer or in the lock's queue; a coroutine that builds its list is at the head of
  the lock's queue. `ListedStays` needs this: nobody else exports or removes a service.
* `RoomInv`: the bound on what is under way leaves a place for every coroutine that a
  signal will start. It is about the model's bound, not about the code.
* `OrderInv`: the ages of the lists never fall from the table by the coroutines at the
  lock and those the loop will run to the answers on the bus, and along each of these.
  The list is read before the lock is taken, and it is the order of the bus, of the
  loop and of the lock together that makes `TableForward` true: drop any one (the
  mutation takes no lock) and the table can go back.
* `FreshInv`: a list of NetworkManager's present age holds what is visible, and what a
  coroutine has made of it and has still to do add up to what is in range.
* `PendingInv`: whenever something is out of date (the table, the last ServicesChanged,
  or a list under way), a signal is on its way, or a coroutine for ServicesChanged
  has not asked yet or has a list of the present age. At rest there is neither, so
  nothing is out of date: `AtRestAgrees`.

`UsbGadget_proofs` counts how many commands a run has left, and says of each node up to
which count a start has not made it and from which a stop has removed it (`MadeAt`,
`RemovedAt`). A run that was killed leaves a tree in which every node has its parent
(`Closed`), and that is all the next stop needs. `BoundInv` says how a gadget can still
be bound behind the two `rm` of a stop: both links are `stuck`. `CompleteWhenBound` and `RunsAreClean` are
proved of the script alone and of the composition.

`Services_proofs` is about any number of faults. First-boot WiFi has `OneCopy`: until
`shred` runs the credentials file is whole, from then on the key file is. The reset has
`WholeReset`: how far a reset that nothing has cut short has got. They give
`CredentialsSurvive`, `WipesQuietly` and `WholeResetRestores` of the
composition; the gadget's invariant is carried over by instantiating its proofs. For
`AgentAlwaysDecides` every step of Connect is shown to be a move of one call (`OneMoves`)
that asks only the agent of the moment; `PowerAlwaysAgrees` is inductive once it says
that the last reply on its way, if there is one, tells what Powered is (`PoweredInv`).

Model-checked only: the liveness properties `EveryCallReturns`, `LinkKeepsMoving`,
`EndsOrHangs`, `ListsEnd` and the fairness of `PacedSpec` (the prover has no rules for
ENABLED), and what the four runs that expect a violation show, `QuotaPatch` among them. No
module declares a `RECURSIVE` operator.

## 6. What is assumed or left out

* An updater asks only after the verdict on the one before and one poll period
  (`OneAtATime`). Two at once share one status and overwrite each other; the code
  does nothing against it.
* A handler that died (a reset connection, a failing `mkdtemp`) or was killed leaves
  its temporary file, although the design document (line 444) wants a partial upload
  discarded, and in the first case the status "running". No property says that the
  file goes; those about verdicts speak of handlers that end, and say so. A client that reconnects to a restarted
  shim is told SUCCESS whatever became of the update: `VerdictIsOwn` excepts it by
  name.
* With a controller that only answers frames, one failed send ends the exchange; so
  `LinkAlive` speaks of links on which no frame was refused or lost.
* `SEND_MESSAGE` (3) sets `in_transfer`, and neither the completion callback nor any
  later call clears it (only a wait for the transfer does), so every later send gets
  `EBUSY`. The model has it so; `InTransferOwned` allows it as a completion nobody
  took.
* `read()` and `write()` of the driver are not steps: `ablspi_open` calls `stream_open`,
  after which the kernel passes no file position, while both use it.
* A comment in `move-xmos-init.c` (206-213) says the driver rejects
  `SEND_MESSAGE_AND_WAIT(0)` with `EINVAL`; it ignores the argument and sends a frame
  of the size that is set. The frame that carries the last batch is not sampled
  (314), although the comment at 269-272 says every frame is.
* What the system refuses to remove is remembered (`refused` in `SwupdateInstall`,
  `stuck` in `UsbGadget`) and excuses what stays behind because of it, nothing else.
  A debugging copy of `sw-description` (764-768) is left out; the one of a failed upload
  (725-727) is `saved`.
* NetworkManager uses an object path once. The strength and security of an access
  point do not change in the model; the shim never refreshes them either.
* ConnMan shim, connections: Disconnect, Scan and Remove keep no state and are left
  out, as are the properties that are only read. `UnregisterAgent` clears whichever
  agent is registered, and an empty passphrase activates a secured network without a
  key: both are in the model as the code has them. WirelessEnabled switched by another
  program is not announced, so `PowerAgrees` speaks of the shim's own calls.
* The launcher's unit has `KillMode=process`: children it leaves running during a reset
  are not seen by `QuietWipe`, which speaks of the launcher itself.
* First-boot WiFi: what "done" says of the card is no property: with the fallback
  `rm -f` (77) the credentials' blocks stay on the FAT partition. The last step, which asks NetworkManager to connect and ignores the
  answer, is left out.
* Not modelled, with the reason in `PROJECT.json`: the update check, the package
  scripts, systemd units beyond what the models need of them, real-time tuning, the
  firmware extraction, device trees, the image build, and the DKMS copy of the
  driver, which is the same file. Two things seen in passing: `move-overlays` says it
  runs after the `zzz-` kernel hooks, but its name sorts before them; and `postinst`
  recognises its block in `config.txt` by its first line, so one that was cut off
  after that line is never completed.

## 7. Plan

Done, in this order: `AblSpi` with `PacedLink` and its proofs, `SwupdateInstall` and
`Installer`, `SwupdateShim`, `AblSpiDevice` with its proofs, `XmosInit`, `ConnmanShim`,
`QuotaPatch`; then torn frames in `AblSpi` and a shim that is killed in
`SwupdateShim`, `XmosInitOlder`, `UsbGadget`, `FirstbootWifi`, `FactoryReset`,
`ConnmanConnect`, `ConnmanTechnology`, their composition `Services`, and proofs about
the installation, both tools and the services; then the proofs about the event loop of
the swupdate shim, the list of services, the USB gadget and the packer.

Next:

1. `PacedSpec` for a controller that also fires by itself: find the weaker promise it
   keeps.
2. Disconnect, against a Connect under way.
3. A theorem about `QuotaPatch`: patched or untouched, whatever fails, but for the step
   its run has found wrong.
