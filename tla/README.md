# A TLA+ verification of cloudkey-unas

The repository turns a UniFi CloudKey Gen2 Plus into a small UNAS: kernel
drivers rebuilt for a custom kernel, a layer of user-space shims that make the
Drive stack accept the hardware, and scripts that build, flash and provision it
all. This directory models the parts of it in which order, failure and
concurrency decide whether it works.

## Inventory

### Kernel drivers (`UNAS-CloudKey/custom-drivers/`)

**Bluetooth over SMD, `hci_smd.c`.** State: one `hs` with the HCI device, two
SMD channels, a tasklet, a timer and two wake locks; the semaphore
`hci_smd_enable` and `restart_in_progress`. Operations: the two notification
callbacks (interrupt), the tasklet `hci_smd_rx` with its receive functions, the
timer callback `schedule_timer`, the works `hci_dev_smd_open` and
`hci_dev_restart`, the parameter `hcismd_set`, sending, and the vendor setup
command. The semaphore orders only the works and the parameter; interrupt,
tasklet and timer see `hs.hdev` without it. Correct means: no frame stays
unread, no wake lock stays held, every allocated device is the one in `hs.hdev`,
and nobody uses a device that is not there.

**Frame buffer, `fbtft-core.c` with `fb_sp8110.c`, `fbtft-bus.c`,
`fbtft-io.c`, `fbtft-sysfs.c`.** State: the video memory, two dirty markers, the
deferred work, the list of dirtied pages, the transmit buffer, the DC line.
Operations: drawing and `write` (store, mark, schedule), stores through `mmap`
(page faults), the deferred work (take the marks, copy, transfer), blanking,
backlight, gamma, probe and removal. Correct means: what is in memory is shown
in the end; commands of different actors do not mix on the bus; probe gives back
what it took when it fails.

**Logo LEDs, `leds-ulogo.c`, `ledtrig-external.c`.** State: a step table, its
length and position and a timer per group. Operations: `pattern`, `constant`
and `binary` attributes, the timer function, probe, remove. Correct means: a
stopped pattern stays stopped, the position stays in the table, no timer
survives the device.

**Power source, `cloudkey-power.c`.** State: three lines, a delayed work.
Correct means: the last change is reported after the debounce, and no work runs
after removal.

**Bay presence, `ui_hdd_pwrctl_fake.c` and `lib/ui-hdd-pwrctl-sync.sh`.** State:
a presence flag per slot, the attached disks, a lock file, a restart unit.
Correct means: after the last hot-plug event the flags agree with the disks and
`uhwd` has seen it.

**Board identity, `ubnthal.c`.** Reads two files; nothing to interleave.

### User space on the device

**Drive hardware relay** (`drive-hardware-relay-v3-frameaware.py` and unit):
two pumps per connection; the upstream one forwards the HTTP upgrade and then
reads WebSocket frames over arbitrary chunks. Correct means: every byte of the
handshake and every message exactly once, in order.
**nginx patch** (`lib/patch-drive-ws-conf.sh` with the watcher that
`04-apply-drive-fixes.sh` installs): patch, move, test, reload against a file
that unifi-core regenerates. Correct means: in the end nginx runs a patched
configuration.
**Wrappers** (`mount`, `mkfs.btrfs`, `ubnt-tools`) and their installation with a
saved `.real` binary. Correct means: a wrapper never becomes its own original.
**Package fallback** (`03-install-drive-stack.sh`): edits `sources.list` and puts
it back. Correct means: the list is the original one whatever fails.

### Build, flash and provision

`02-flash-kernel.sh`, `install.sh`, `provision-all.sh`, `lib/ssh_master.py`:
backup, transfer, confirmation, write, read-back, modules, reboot, wait for the
reboot. Correct means: nothing is written that was not backed up, confirmed and
verified, and the wait does not mistake the old session for the new one.
`00`, `01`, `05` and the package scripts are sequential and not modelled.

How they interact: the drivers are independent of each other; the sync script
writes the attributes of the bay driver and restarts `uhwd`; the nginx patch
points nginx to the relay; `04` installs the wrappers, the sync units, the relay
and the patch; `install.sh` and `provision-all.sh` run `02` and `03`, which runs
`04`.

The hard behaviours are listed line by line under `hazards` in `PROJECT.json`.

## Modules

| module | models | state |
|---|---|---|
| `HciSmdRx` | receive path of `hci_smd.c`, device registered | frames per channel, tasklet, `rx_q`, lock, timer |
| `HciSmdRxProofs` | theorems about it | |
| `HciSmdDev` | life of `hs.hdev` | device states, channels, the notification under way, queued works, semaphore holder |
| `HciCore` | what the Bluetooth core asks of a driver with one device (abstract) | devices allocated, registered, freed |
| `HciSmdDevProofs` | theorems about `HciSmdDev` | |
| `FbDeferred` | deferred updates of the frame buffer | stale lines, markers, work, clients, pages |
| `Screen` | what a frame buffer promises (abstract) | stale lines |
| `FbDeferredProofs` | theorems about `FbDeferred` | |
| `UlogoLeds`, `UlogoLedsMC` | one group of `leds-ulogo.c` | life, step table, length, position, timer, processes in store functions |
| `UlogoLedsProofs` | theorems about it | |
| `DriveRelay`, `DriveRelayMC` | one connection through the relay | bytes read and sent, parser, pumps, peers |
| `Courier` | what a relay of messages promises (abstract) | messages to come, messages handed over |
| `CkPower` | `cloudkey-power.c` | lines, interrupts, delayed work, what user space knows, life of the driver |
| `CkPowerProofs` | theorems about it | |
| `BaySync` | `ui-hdd-pwrctl-sync.sh` and what starts it | disks, flags, the run that has the lock, `uhwd`, its restart unit |
| `BaySyncProofs` | theorems about it | |
| `Sp8110Bus` | register access of the panel (`fb_sp8110.c`, `fbtft-bus.c`, `fbtft-io.c`) | operations in progress, buffer, DC line, transfer, what the panel knows |
| `FbtftDevice`, `FbtftDeviceMC` | probe, registration and removal (`fbtft-core.c`), with `Sp8110Bus` | place of probe or remove, what is held, what leaks, clients |
| `FbtftDeviceProofs` | theorems about both | |
| `MirrorGap` | `apt_run_with_mirror_gap_retry` of `03` | step, call, `sources.list` and its backup, packages |
| `Wrapper` | the wrappers that `04` installs | step, each tool and its `.real`, cut copies |
| `WsConf` | `patch-drive-ws-conf.sh` and its watcher | file, temporary file, what nginx serves, lock, path unit |
| `DriveSetup`, `DriveSetupMC` | the three composed: runs of `03` and `04` | number of runs and of losses of power |
| `DriveSetupProofs` | theorems about them | |

An `MC` module gives values to those CONSTANTS that a `.cfg` cannot write; the
other modules are checked directly.

A definition named `X_<Slip>` is a mutated form of `X`, a mistake that the
properties are shown to catch; no specification uses it.

### HciSmdRx

One action per step another actor can come between. `Notify` is the DATA branch
of both callbacks. `RxStart`, `RxLoop`, `RxRecv`, `RxFrame`, `RxArm`, `RxOut`
are the tasklet: the while condition, entry with `wake_lock` and length, one
frame read (queued, or lost on one of the error paths), `mod_timer`,
`release_lock`. Only the event side loops, as in the code. `TimerFire` (read
`rx_q`), `TimerCheckLock` (read the lock), `TimerRelease` and `TimerRearm` are
the timer callback. External: frames arriving, and the core's `rx_work` that
takes frames off `rx_q`. A frame is a number; its contents decide nothing but
which error path runs, which `RxFrame(FALSE)` chooses.

### HciSmdDev and HciCore

`pc` is the place of the semaphore's holder; each call of registration and
deregistration is a step, the failing branches included. Interrupt, tasklet and
timer run beside it, cut down to what they do with the device. `HciSmdRx` keeps
the device, this module keeps the frames out: together they cover the driver's
concurrency.

A remote that comes up or crashes moves both channels. `RemoteOpens` and
`RemoteCloses` are the event channel's part, whose callback queues a work, and
`RemoteMovesData` is the data channel's, whose callback (503-510) only sets or
clears a flag in the device it read at entry (486); nothing orders it with the
works, so it is not paced. One slot `irq` serves both callbacks: the channels are
on one edge (664, 674), whose interrupts come one at a time.

A behaviour ends in `fault` at the first use of the kernel's API that is not
defined (NULL or freed device, second registration, unregistering the
unregistered, a busy tasklet initialised again, and so on). What a behaviour may
be pushed by is chosen once, in `env`: failures, lack of memory, writing 0 to
`hcismd_set`, a remote that flaps, traffic. `FaultsHaveCauses` says which faults
need which pushes, and it is tight: TLC finds the fault as soon as one of the
named causes is there, and so it was found for each cause of each clause. Plain
restarts have one: the callback of the data channel's OPEN or CLOSE may use the
device that the restart, queued by the event channel's CLOSE, frees meanwhile.

`HciCore` is the contract of the calls the driver makes (`hci_alloc_dev`,
`hci_register_dev`, `hci_unregister_dev`, `hci_free_dev`), with the three sets of
devices they move, and `misused`, which never becomes true. `ContractKept` says
two things. Under every push, the calls up to the first misuse, those of the error
paths and of a teardown that another work has half overtaken included, are ones a
sound driver makes; the misuse itself ends the behaviour and leaves the three sets
as they are, so nothing is said of it here, but in `FaultsHaveCauses`. Under plain
restarts (no push but traffic, `PlainRestarts`) there is no misuse at all: a call
the core does not allow would set `misused`.

Assumed of the outside, from how the code uses it: `smd_close` returns when no
callback runs; opening an open channel fails; opening and closing events of a
channel alternate; `tasklet_kill` claims the scheduled bit and then waits;
`hci_recv_frame` refuses a device that is NULL or not registered. Left out: the
stored value of `hcismd_set`, which is not read again, and the release of the
wake locks in deregistration, which comes after the steps that matter here.

### FbDeferred and Screen

A line is *stale* while the panel will not show what the memory holds; pixels
are left out, so that the model has no counters and needs no bound on writes.
Clients `Begin`, `Store` (any line of their area, as often as they like),
`Stored`, `Mark` (`fbtft_mkdirty` under its lock, unsigned comparison included)
and `Schedule`. Clients that map the memory `Fault` a page in (external: under
the mutex of the deferred io, which the work holds while it runs) and then
`StoreMapped`. The work starts, takes and clears the marks and write-protects
the pages (`TakeDirty`, with the sanity checks of `fbtft_update_display`), copies
line by line (`CopyLine`) and transfers (`SendLines`), which may fail.

Two ways to lose an update are in the code, and `lost` records exactly those
lines: the last transfer failed, or `fbtft_fb_write` stored the last line and
nothing was drawn there since. All properties hold for every other line.
`Screen` is the abstract promise; `FbDeferred` implements it under
`stale <- stale \ lost` (property `ShowsMemory`, fairness included). The
`fsync` path of the kernel's deferred io and `cancel` are not modelled.

### UlogoLeds

`steps`, `num_steps`, `cur_step` and the LEDs are used without a lock by the timer
function, by two or more writers of the attributes, `brightness` among them, and by
the thread that probes and removes. The timer function takes one action per access
to them: `TimerCheck`, `TimerPoint` (the step is chosen once), `TimerPlay` for each
LED (the step's level is read again for each), `TimerRearm`, `TimerLoad`,
`TimerStore` and `TimerWrap`. A writer's `Rewind` can fall between any two of these;
only the comparison at the end and the zeroing that follows it are one action. A
write of `pattern` is `DelTimerSync`, `Copy`, `Parse` for each step, `Parsed`, `Count`,
`Rewind`, `Test`, `Arm`; one of a value is `DelTimerSync`, `Zero`, and `Drive` for each
LED; `SetBrightness` is `Drive` for each LED without stopping anything, and so is
`UnregisterDark`, the switching off with which the LED core starts an unregistration
(the kernel is 3.18: nothing keeps it, or two writes of `brightness`, apart from other
writes). So four loops over the LEDs can mix. Taken as one action: the copy of the
written buffer into `pattern_raw`, and the reading of one step of it.

`life` follows the group from `led_classdev_register` (its attributes exist at once)
over `setup_timer`, the default pattern, the list and `remove` to the release of the
memory. `del_timer_sync` waits for the timer function, and on a timer that is not
set up yet it waits until it is. A level is the set of the `led_idx` bits in it. What a
write holds is chosen where the code first depends on it.

`overlap` and `want` are history: whether the last write, of any kind, began while
another was under way, and the value applied by one that met no other.
`ConstantStays` is about such a value. For others it does not hold: a `pattern`
store that has passed its `del_timer_sync` starts its pattern after the constant of
another writer, and a `brightness` write or the switching off that meets the loop of
a constant leaves some LEDs as the one has set them, some as the other.

remove stops the timer (487) before it takes the attributes away (488), and the
unwinding of a failed probe does the same (473), so a store in between starts it
again on memory that is about to be freed. `OnlyStoresRevive` says that this is the
only way: once remove has stopped the timer, only a store that is about to arm it
starts it again.

Left out: the text of a pattern and the times in it (`Patterns` is the set of what may
come out of the parser), the copies of raw bytes that `constant` and `binary` keep for
reading, and where in the text a parser is: one whose text another write replaces
goes on at the same step of the new one, and two copies that overlap leave one text
or the other, not a mixture, which would be one more element of `Patterns`.

### DriveRelay and Courier

`pump_rewrite_s2c` reads the server's bytes in chunks of any size up to
`MaxChunk`: `ForwardPiece` and `FinishHandshake` before the end of the header,
`Feed` after it, then `TakeControl`, `TakeFragment`, `TakeLast` for each whole
frame in the buffer and `NeedMore`. `pump_passthrough` carries bytes without
looking at them: only its end is modelled. `Wire` encodes what the server sends.
Bytes are numbers, so the encodings are really built and parsed; their sizes are
scaled down (the head of the module lists how). `Expected` says what the client
should get, and it does not use the parser: messages are sets of frames between
final ones, sub-messages are chains of header positions. `Courier` is the
abstract promise, and `InOrderOnce` says that the relay implements it with the
messages still to come and those the client can decode. Left out: masked frames,
which a server does not send, and a peer that stops reading, for which `drain`
waits without end.

### BaySync

Each iteration of the two loops of the script is an action (`Examine`,
`SyncSlot`), as are the lock, the start of the loop and the end, and disks come
and go between them. `Examine` includes the failing `udevadm`: `set -e` and
`pipefail` end the listing in the middle, and since it is a process substitution
the script goes on with what it has. `UhwdStarts`, `UhwdReads`, `UhwdActive`,
`UnitStops` and `UnitEnds` are external, as the script relies on them: the boot
unit comes before `uhwd`, `is-active` is true some time after the start, and a
unit name is free again when the restart is over. A disk and its udev event are
one action; a disk that is there before its event is seen by a run one event
earlier, which that event's run sees again.

The flags count disks: slot *n* is present when there are at least *n*.
`dropped` is history (a run was refused when the holder had listed the disks
and nobody has listed them since), `missed` too (a run ended with `uhwd` stale
and could not ask for a restart); the properties say that nothing else goes wrong.

### CkPower

`Edge` flips a line and raises its interrupt if that is requested. `Irq` is
`schedule_delayed_work`, which does nothing for a work that waits or is queued;
`TimerExpires`, `WorkRuns` and `WorkEnds` are the delayed work, `Notify` the
power supply core's own work (external), and `ReadPoe`, `ReadUsb`, `ReadQc` the
reading of the property by a listener in user space, one line at a time as in
`ck_powersource_is_online`. `Request` is one call of
`ck_powersource_request_irq`, with what it may return left open: no interrupt, a
handler, a handler in another interrupt's thread (which counts as a failure), a
failure. `Cancel` and `Unregister` are remove, `Unregister` alone the failing
probe, `FreeIrqs` and `Free` what devm does after them.

An edge that no interrupt announces sets `unseen` until user space reads again,
and `late` records that the delayed work was scheduled with nobody left to cancel
it: the properties hold but for these. A read can mix old and new lines, and say
that power is off when it moved from one line to another: it is corrected by the
notification that follows, and that is what is checked.

### Sp8110Bus and FbtftDevice

Four actors come to the panel: the thread that probes and removes (`core`), the
deferred work, a write to the brightness and a request to blank. Each works
through the commands of its operation (`Following`); each command is `Load` (byte
into `par->buf`, DC low), `Send` and `Sent` (the transfer), and for one with data
`High`, `SendData`, `Streamed`; `End` is the DC line that `write_vmem` leaves low.
No lock keeps them apart, so another actor may change buffer or line before a
transfer or during it (`steady`). The panel is known as far as what it was sent
leaves no doubt: a byte it may take for something else makes all of it unknown
(`Confused`), which stands for every reading of it. Transfers fail at will.

So much can go wrong that "the panel shows what was drawn" holds for nobody who
met another. `PanelFollows` says what the code does give: `trusted` holds what an
operation has put right that was alone on the bus from its first byte to its
last, had no failure, and was not touched since. That is then as asked for,
whatever confusion it started from: an operation needs nothing of the state it
finds the panel in.

`FbtftDevice` has an action per step of probe and remove at which another actor
or a failure can come between: `Probe` (device tree), `Alloc`, `Fill` (before
and after `framebuffer_alloc`), `Setup` (bus width), `Register` (gpios, reset,
`init_display`), `Show` (`set_var` and the first update), `RegisterBacklight`,
`RegisterFramebuffer`, `Light`, `Bound`, and the way back `Remove`, `Unlight`,
`Unlit`, `Leave`, `Release`, part of which a failed registration shares. `live` is
what the driver holds, and `leaked` what the last way out has neither freed nor
kept; the driver core frees what devm gave. Clients may use the backlight from
`register_backlight` on, the frame buffer and the work from
`register_framebuffer` on. External, as the code relies on them: unregistering
the backlight and the frame buffer waits for calls in progress, and so does
cancelling the work. The update of a work is taken from `FbDeferred` as "some
bands", and the marks are left to that module.

### MirrorGap, Wrapper, WsConf and DriveSetup

Each of the three is a script with its files; `DriveSetup` runs them the way `03`
and `04` do, and lets an operator start them again, the terminal go (`HangUp`:
both scripts and their children die, the watcher does not) and the power
(`LosePower`). What `set -e` ends is a disjunct of the step that fails (`Fails`).

`MirrorGap`: `list` and `bak` are `sources.list` and its backup, `pkg` says where a
package came from. `GiveUp` returns the status of the `if`, which is 0, so the
caller goes on: `swallowed` records it. `stranded` records that a run has ended
between the `sed` and the `mv`; the next run's `cp` then replaces the only good
backup, so `SourcesComeBack` is about all other histories.

`Wrapper`: a copy takes two steps and is torn in between. `cut` records a copy
that was cut short: one to the tool is repaired by the next run or by an upgrade,
a saved one never, since the saving is skipped when the file is there. `TryOut`
runs the wrapper and takes it back when its answer is wrong. A `.real` that an
upgrade has made old is not told from a good one.

`WsConf`: `pat` is where the two possible runs of the script are, both of which
use one lock and one temporary file. The path unit starts the service as long as
the file is there (`PathExists`), so a run follows a run until systemd gives up
because of the start limit (`failed`); `enable --now` starts it again. `skipped`
records that a run has ended between the `mv` and the reload, by a kill or by
`nginx -t`: the marker is then in the file, and no later run reloads.

## Runs

| run | expects | shows |
|---|---|---|
| `hci_rx` | pass | no frame unread, no lock stranded |
| `hci_dev` | pass | device owned, the calls of `HciCore`, faults have causes, the semaphore comes free |
| `fb_deferred` | pass | every stale line is reached and shown |
| `fb_last_line` | violation | `fb_write` leaves out the last line |
| `ulogo` | pass | position in the table, patterns alive, undisturbed constants stay on all LEDs, every step shown, no timer revived but by a store |
| `drive_relay` | pass | messages once and in order, all of them, both sides end |
| `relay_response` | violation | pieces of the upgrade response are sent twice |
| `ck_power` | pass | changes reach user space, the work stays within the driver's life |
| `bay_sync` | pass | flags and `uhwd` agree with the disks, two exceptions named |
| `fbtft_device` | pass | the panel follows who was alone, memory is owned, leaks are named |
| `sp8110_asleep` | violation | the panel is asleep when the frame buffer is made known |
| `drive_setup` | pass | sources come back, fixes follow the packages, tools work, the patch is in force |

Bounds. `MaxFrames = 2` per channel: one frame under way while another arrives,
on each of two channels, is every relation a further frame could have; the run
ends when all are sent, so deadlock is not checked. `Dev` with two devices: one
to be lost or freed and one to replace it; a third cannot exist by
`OwnedDevice`, and running out of devices acts as a failing allocation.
`MaxWork = 2`: one work under way with another of its kind queued. Deadlock is
not checked, because behaviours end at a fault. `Yres = 3` lines of two bytes on
pages of three: a first, a middle and a last line, a line on two pages, a page
with one and a half lines, and a page that ends where the screen ends. `UintMax
= 7` lets a height of 0 at line 0 wrap above every line, and a height of 2 at
the last line reach beyond it. One client of each kind: a second drawing client
touches the same markers under the same lock as the writer, and the proofs cover
any number.

`UlogoLeds`: two writers besides probe, a table of two steps, two LEDs, and
patterns of no and of three steps, so that one does not fit; one value, from which
the second step differs on both LEDs; two stores at a time are every pair of store functions, and the proofs cover any number. It and
the next two may stop: a released group, two closed connections, no more events.
`DriveRelay`: `SmallMax = 3` puts payloads on both sides of the longer header and
lets a rewritten message cross it; chunks of up to five bytes hold part of a
frame, all of it, or the end of one and the start of the next; three frames are
enough for a message in two fragments with a control frame in between and for
one in three. `BaySync`: three disks on two slots (one more than fits) and three
events: one during a run, one during its restart and one after. `CkPower` has no
bounds: its lines, with or without `qc`, are the board's.

`FbtftDevice`: two operations on the bus at a time (`MaxBusy = 2`): a third adds no
kind of disturbance, since one is enough to make the panel unknown, and the proofs
cover any number; two bands (symmetric), so that an update of one can leave the
other trusted, and two levels, one of which is that of `init_display`. Four device
trees: a good one, one without bus width, one without DC line, one with a short
gamma curve. Deadlock is not checked in either run: a driver may stay bound, and
in `DriveSetup` the runs and losses end. `DriveSetup`: two packages, one that the check at the end asks about
and one that it does not; one tool, the tried one, whose steps include those of
the others; two versions of it, of which an upgrade brings the second; two runs, so that one finds
what the other has left; one loss of power.

Fairness. Interrupts that are raised are delivered, scheduled softirqs, queued
works and timers run: weak fairness on those actions. `tasklet_kill` polls the
scheduled bit and needs to find it clear once: strong fairness on `KillTasklet`,
since traffic may set the bit again between polls. A client inside the driver
leaves it; nobody has to draw, send, enable or disable. In `UlogoLeds` a pending
timer expires and its function runs to its end, no writer has to write or finish.
In `DriveRelay` the event loop runs a pump that has bytes or an end of file;
that a write meets a reset connection, and what the peers do, is left open.
In `CkPower` handlers, works and the listener go on while they have something to do.
`DriveSetup`: a patch script that runs goes on, and so does systemd with the
watcher (weak fairness on `FixPatch` and `Watch`); nobody has to start a script or
unifi-core, and a run may always be killed instead. `PatchedAgain` needs no more,
because the watcher is started again as long as the file is there.
`BaySync` and `FbtftDevice` have no liveness property and need no fairness.

## Theorems

TLC checks the small instances; TLAPS proves these for every value of the
constants, from the named assumptions in the modules.

- `HciSmdRxProofs`: `IInv` is the type invariant, `NoLostKick`,
  the two halves of `Guarded` (`QueueWatched`, `NoStrandedLock`) and "a frame that is about to be read is there" (`FrameThere`), without which
  the count of frames could go below zero.
- `HciSmdDevProofs`: `IInv` adds to the properties what the holder of the
  semaphore may rely on at each step (`DevAtPc`): a live device before
  unregistering, a freed one before forgetting, none from there to allocation.
  It holds in every environment, faults or not. The types are proved in two
  parts, Boolean flags and data, since the provers handle them apart.
  `DevImplementsCore` is the whole of the refinement, which has no fairness; up to
  the first misuse it needs that a device about to be freed is not registered
  (`NotOffered`), and that plain restarts come to no misuse is `FaultsHaveCauses`.
  `FaultsHaveCauses` needs an invariant for each push that is absent
  (`CausesInv`): without frames nothing of the receive path runs (`NoFrames`);
  without failures the channels, the device and the place of the holder agree
  (`Channels`); without lost work an allocated device of an open channel has its
  opening on the way (`UpIsNews`); without flapping the remote's news come one at a
  time (`OneAtATime`), and if other pushes are absent too, they meet no teardown
  (`TornAlone`), an opening finds its device (`DeviceThere`), not yet registered
  (`OpensInTurn`, `NotTwice`), a restart finds a registered device (`CalmRestart`),
  and a callback of the event channel uses the device there is (`DeviceKept`), which
  nothing says of the data channel's. Each part says under which pushes it holds and
  is proved under no others, so the theorem shows which absence rules out which fault.
  `UpMeansRegistered` follows from the same parts.
- `FbDeferredProofs`: lemmas that a page's `y_low..y_high` encloses its lines
  (`PageRange`), that the range the work takes encloses marks and pages
  (`TakenRange`) and that `fbtft_mkdirty` marks what it is to mark
  (`MarkedLines`). `IInv` adds that each client keeps to its kind of area, that a
  writable page has the work coming, and that no page is writable during a flush.
  `FbImplementsScreen` is the safety half of the refinement.

- `UlogoLedsProofs`: `IInv` is the type invariant, `PatternAlive` and `Position`:
  `cur_step` is outside the table only between the timer function's store of the
  incremented value and its comparison, and then it is the value the comparison
  is going to see. Without it a step of a writer between the two would have to
  be argued away in every other case. `ConstantStays` needs `ConstInv`: a write
  that did not overlap is alone until the next begins (`Alone`), what it has
  stopped stays stopped and the LEDs its loop is past are right (`Silenced`), and
  what it has applied is shown (`Held`). A group may name an LED twice, or one there
  is no trigger for (`DrivenRight`).

- `CkPowerProofs`: `IInv` adds `ReadIsFresh`, that the lines a read has passed
  still are as it saw them or the read is going to be repeated, and
  `NothingScheduled`, that behind the cancellation there is no work unless `late`,
  and no interrupt once devm has freed them.

- `BaySyncProofs`: `Current` says what a run that is the last so far knows at each
  step: the disks it has listed and those it has still to look at are all the
  disks there are, and the slots behind it are right. It holds because a disk that
  comes or goes queues a run, and a run that is refused sets `dropped` only when
  the holder has looked already. `Told` says that as long as `uhwd` has read other
  flags than there are, somebody is about to have it restarted.

- `FbtftDeviceProofs`: `LifeInv` relates the place of probe or remove to what is
  held (`LiveInv`) and to who may be in the driver (`ActorsInv`); `OwnedMemory` and
  `LeaksHaveCauses` follow. `TypeInv` adds that each actor's command is one of its
  operation, behind which the panel never reads an unfilled buffer. `PanelInv`,
  for `PanelFollows`, says how far an operation that is alone has come
  (`InOrder`), that `trusted` implies that whoever is there is alone
  (`OneAtATime`), and that nobody is about to change what is trusted
  (`Reserved`). `BusInOrder`, `BusTouches` and `BusSettles` are the steps of the
  bus, once for all operations; they hold for any number of actors at a time.
- `DriveSetupProofs`: `AptInv` says for each step of the fallback which of list and
  backup is good; `FixInv` what `.real` and the tool are at each step of a copy,
  and which copies were cut; `ConfInv` that only the holder of the lock is between
  look and reload, and that its temporary file is what it has made of the file it
  read. Each is preserved by the steps of the other two scripts.

Assumptions: the levels of brightness are in 0..15 and hold that of `init_display`
(`LevelAssumption`); bands are not registers (`BandAssumption`); the lists of calls
and tools are not empty (`CallsAssumption`, `ToolsAssumption`); bounds are natural
numbers (`RunAssumption`); and those of the other modules, named there alike.

Every invariant and every action property that a run checks is a theorem. Only
model-checked are the liveness properties (`LockReleased`, `FramesRead`,
`SemaphoreReleased`, `ReportsInTheEnd`, `EveryStepShows`, `DeliversAll`,
`BothEnd`, `PatchedAgain`, and the fairness in `ShowsMemory`), since liveness under
fairness is beyond the prover, and `InOrderOnce`: what the client has received is
a recursive function of the bytes, and that it grows by one message with a
frame needs induction over those bytes.

## Findings

With a run that shows them:

- `fbtft-core.c:456`: `mkdirty(-1)` leaves out the last line (`fb_last_line`).
- `drive-hardware-relay-v3-frameaware.py:181`: pieces of the response that were
  forwarded already are forwarded again (`relay_response`).
- `fb_sp8110.c:231`: the comment relies on the core to unblank the panel after
  `init_display`; `fbtft_register_framebuffer` does not (`sp8110_asleep`).

Met while modelling, without a run of their own:

- `hci_smd.c:299`, `:359`: the wake lock is released by the tasklet at once if
  the core was quick; the comment at 144 says it is kept for 500 ms.
- `hci_smd.c:208-214`: the test of `rx_q` and the release of the lock are not
  atomic, so the lock can go while a frame that just came is queued, until the
  tasklet takes it again.
- `hci_smd.c:486`, `:509`: the callback of the data channel reads `hs.hdev` and uses
  it later; in a plain crash the restart that the event channel's callback has
  queued may free it in between.
- `hci_smd.c`, within `FaultsHaveCauses`: a restart work that was queued before
  `echo 0 > hcismd_set` brings the device back; when the data channel does not
  open, the event channel stays open and enabling fails until it is disabled
  once; an open event before the last close's work is done ends in a registration
  of NULL or a second registration.
- `fbtft-core.c:389`: a range that is upside down, which should not happen
  according to the message, happens whenever a second work follows one that took
  the marks, and is harmless.
- `fbtft-core.c:851`, `:907`, `:1404`: a failure behind `framebuffer_alloc` loses
  `fb_info`, a tree without bus width the video memory too (`LeaksHaveCauses`).
- `leds-ulogo.c:487` (and 473): the timer is stopped before the attributes that
  start it are gone (`OnlyStoresRevive`); `:136`, `:285`: two writes that drive the
  LEDs at the same time leave some of them as the one says and some as the other.
- `cloudkey-power.c`: an edge between `power_supply_register` and the request of
  its interrupt is never reported; remove cancels the work before the interrupts
  are freed, and the failing probe cancels nothing (`late`); an interrupt nested
  in another's thread makes probe fail, because its request gives 1.
- `ui-hdd-pwrctl-sync.sh:14`: a run that is turned away when the holder has listed
  the disks is not made up for (`dropped`); `:46`: a change of the flags while
  `uhwd` starts, or while its restart unit is loaded, is not told to it (`missed`).
- `03-install-drive-stack.sh:29`: the status is that of the `if`, so the "original
  failure" that line 41 says is propagated is returned as success (`swallowed`);
  `:35`: a second run takes a commented list for the good one (`stranded`).
- `04-apply-drive-fixes.sh:26`: a saved binary whose copy was cut stays (`cut`).
- `patch-drive-ws-conf.sh:76`: a file that was moved and not loaded is not
  loaded by a later run (`skipped`).

## Not modelled

- Bluetooth sending and the vendor commands: straight-line calls.
- Of the panel: bus widths 9 and 16, the start byte, writes over gpios, init
  sequences of the device tree (the sp8110 uses none of them), pixels. Clients
  that keep the frame buffer open beyond its removal, and
  `dev->platform_data`, which a second probe reads after devm has freed it
  (`fbtft-core.c:1393`): what it finds is not defined, and the model lets it read
  the device tree again.
- The gamma and debug attributes, which only change memory here, and
  `ubnthal.c`, which reads two files.
- Of `03` and `04`: the prerequisites, the apt sources, `dpkg -i` and `uos`, the
  fixes that only write files, the arguments the wrappers filter. Of the nginx
  patch: the inserted text, a file without the location it is inserted at, and
  which generation of the file is in it: that the `mv` can replace a file
  generated meanwhile by the patched old one (line 74) changes nothing here,
  because both carry the same lines for the Drive. What a file system makes of
  a file that was being written when the power went is "torn" or whole.
- Flashing and provisioning: planned. Build host, verification and package
  scripts: sequential, their behaviour is that of the tools they call.

## Plan

1. `HciSmdRx`, `HciSmdDev` with `HciCore`, `FbDeferred` with `Screen`: done, with proofs.
2. `UlogoLeds`: done, with proofs.
3. `DriveRelay` with `Courier`: done, model-checked; `BaySync` and `CkPower`: done,
   with proofs.
4. `Sp8110Bus` and `FbtftDevice`: done, with proofs.
5. `MirrorGap`, `Wrapper`, `WsConf`, composed in `DriveSetup`: done, with proofs.
6. `FlashPipeline`: order of the steps and the wait for the reboot.
7. Pure algorithms (`PureAlgorithms`: pattern parser, wrappers' argument
   filters, grey conversion, signed comparisons) against reference definitions.
8. Further proofs: of the parser of `DriveRelay`, what its data induction allows
   (that the bytes it holds and has sent are those it has read).

There is a run for each question, and no more: a module of 6 or 7 gets one
passing run, and a violation run whose finding is settled makes room for it. The
abstract specifications worth stating are `Screen`, `Courier` and `HciCore`; all
are done.
