# Formal models of the Galaxy Tab S6 mainline Linux port

TLA+ models of the programs in this repository, TLC configurations that check
them on small instances, and TLAPS proofs of the invariants that matter most.
The reference is the code. Every definition that stands for code is listed with
its lines in `PROJECT.json` under `map`; paths below are relative to the
repository. Parse a module with `tlasany M.tla`, check one with
`tlc -workers 2 -config X.cfg M`, prove one with `tlapm M.tla`.

Contents: 1 the system, 2 the models, 3 the runs and their bounds, 4 fairness,
5 what the models found, 6 known divergences, 7 the proofs, 8 what is only
model-checked, 9 what is not modelled, 10 the plan.

## 1. The system

The repository ports mainline Linux to a tablet. Its own code is a set of
daemons and scripts around the kernel, two kernel drivers, patches to others,
and a keyboard and a lock screen in QML. Almost every part is small, runs
unattended, shares hardware with other parts without a lock, and depends on
timing: few of its interesting cases can be tested on a bench.

| Component | Code | State | Operations | What is hard | What makes it correct |
|---|---|---|---|---|---|
| Power-key daemon | `tools/tabs6-powerkeyd.py` | key timestamps `down`, `combo_fired`, `long_fired`, `soft_sleep`, `asleep_at_press`, wake guard, open fds | press and release of two keys, long press, chord, lock and blank, wake, device loss, restart | KWin reads the same keys; two fds read in an arbitrary order; one clock stamp per loop; detached `kscreen-doctor` | one action per hold; a press on a dark panel wakes; no lock just after a wake; no latch outlives a hold |
| Idle-suspend daemon | `tools/tabs6-idled.py` | last activity, `blocked_until`, open nodes | input, check, two inhibitor queries, suspend, resume, restart | what was checked is stale when used; devices come and go; suspends fail | never suspend a tablet in use or inhibited; always suspend one left alone; do not hammer |
| Touchscreen driver | `kernel/drivers/fts1ba90a.c` | two rails, interrupt nesting, contact slots | probe, remove, suspend, resume, threaded interrupt | failing bus and rails in the middle of a bring-up; an overflowing event FIFO; events dropped for their touch type | rails and interrupt balanced; no contact without a finger; listens when on |
| Charge service | `tools/tabs6-charge.sh` | SM5705 limit registers (shared) | read mode, read and raise two limits, sleep | the chip resets its limits; `usb-role` writes the same chip | only raises; the limit wanted is reached |
| USB role command | `tools/usb-role` | SM5705 mode and boost registers (shared), role file | host, device, none, each several writes | killed or failing half way; the status it checks is stale | order of boost and mode; a reported success is one |
| Fuel gauge driver | `kernel/drivers/sm5705_fuelgauge.c` | `last_status` | probe, poll every 5 s, property reads | sign-and-magnitude fields; two registers read one after the other; the desktop reads what the poll did not | right current; only real changes announced; a status that stays is noticed |
| Auto-rotation | `userspace/sensors/tabs6-autorotate`, `tabs6-rotate-tray.py` | claim, pending timer, committed orientation, lock file | claim, property change, commit, resync signal | sensor proxy restarts; debounce; a second process sets the lock | shows the tablet as it is held unless locked; believes only in a claim it has |
| Keyboard | `rootfs/maliit/*.qml` | modifier latches, pressed key, popover | press, release, swipe, long press | a latched key returns early; popover | each press released, latch used once |
| Kernel snapshot | `tools/tabs6-kernel` | kernel, device tree and modules, the last good and the broken set | snapshot, rollback | power loss or a failing command inside any step, or before what it wrote is written back; a second attempt after a first that was cut; the room on the ESP | one entry of the boot menu stays whole; a reported rollback is one |
| Power-off path | `kernel/patches/qcom-pon…`, `msm-poweroff…` | PS_HOLD type, enable bit, SMPL | reboot notifier, two stages | failing SPMI write half way | off stays off, reboot reboots |
| Screenshot | `tools/tabs6-screenshot`, `tabs6-screenshot-tray.py`, thread in the daemon | files named by the second, spectacle's queue, registration with the tray | tap, chord, ladder of spellings, waits, re-registration | a capture that times out may still be written; a blocking call while the watcher restarts | one capture per request; a reported save is one; the icon comes back |
| Desktop patches | `userspace/tabs6-desktop-patches.py` (an earlier text of it under `tools/`) | a lock screen, its stock copy, keyboard and audio files, a link | at every boot: look, back up, write, copy, link | upgrades, crashes and errors between any two writes | never half a lock screen; all put back at the next boot; nothing written when nothing changed |

Interactions:

- the PMIC keys go to KWin and to the power-key daemon; both light the panel,
  PowerDevil and the daemon blank it, the daemon through processes it does not
  wait for;
- input devices feed the idle daemon, which asks PowerDevil and logind whether
  anybody inhibits sleep and then suspends through systemd, which runs the
  touchscreen driver's suspend and resume;
- the charge service and `usb-role` write the same chip, with nothing between
  them but the chip's mode register; both, and the idle daemon, read the fuel
  gauge's status;
- packages overwrite what the desktop patches have put in place, between boots;
- the tray button and the power-key daemon start captures that share spectacle,
  a directory and names;
- udev restarts the sensor proxy when the DSP recovers, and the auto-rotation
  daemon has to claim it anew.

`PROJECT.json` lists every component with what is modelled of it, and under
`hazards` the 40 places where the code is hard to test.

## 2. The models

One module per subsystem, each with the environment it needs. An `MC` module
only adds named sets of hazards; a `Proofs` module holds the theorems. Each
model but FuelGauge's has a constant `Hazards` (KernelSnapshot's is `Faults`): the things that *may* go wrong in the
instance. A run states exactly under which of them its properties hold, and the
theorems have the same sets as assumptions. An operator `X_Suffix` just before
`X` is a mutant of `X`, a plausible bug that one property must notice; no
specification uses it.

### PowerKey (`tools/tabs6-powerkeyd.py`)

| Model | Code |
|---|---|
| `pc` | where the loop is: in `select`, handling events, in the 0.8 s sleep of a lock, in the 0.5 s sleep before the menu, dead |
| `down`, `combo_fired`, `long_fired`, `asleep_at_press`, `soft_sleep`, `devices` | the variables of the same name (`down[k]` as the age of the press) |
| `elapsed`, `guard` | the clock since `now` was stamped; what is left of `wake_guard_until` at the stamp |
| `queue`, `batch`, `ready`, `gone` | evdev buffers, what `os.read` returned, the fds of `select`, dead devices |
| `panel`, `kwin`, `jobs` | the connector's dpms attribute, KWin with a key to act on, running `kscreen-doctor` processes |
| `acts`, `since_wake`, `found` | history, for the properties |
| `SelectReady`, `SelectTimeout`, `LongPress`, `MenuPrompt` | the wait and its timeouts |
| `ReadKey`, `ReadError`, `KeyDown`, `KeyUp`, `LoopBack` | reading an fd and one pass of the event loop |
| `ShortPressWake`, `ShortPressLock`, `LockBlank` | `do_short_press` and what it calls |
| `Press`, `Release`, `Tick`, `Unplug`, `KWinWake`, `DpmsDone`, `IdleBlank`, `Restart` | finger, clock, hardware, KWin, the processes, PowerDevil, systemd |

The clock is the point of the model: the daemon reads it once per `select`, so
everything it compares is as old as its last stamp. Hazards: `idle_blank`
(PowerDevil blanks), `panel_race` (KWin lights the panel before the daemon has
sampled it), `dpms_race` (processes finish in any order), `unplug`.

### Fts1ba90a (`kernel/drivers/fts1ba90a.c`)

`state` and `step` follow the driver core through probe, resume, suspend and
remove, one action per bus transaction with its polling counters; `irq`,
`batch`, `left` follow the threaded handler; `vdd`, `avdd`, `underflow`,
`requested`, `depth` are use counts of rails and of `disable_irq`; `slot` is
the input device; `ic`, `fifo`, `finger` are the controller and the glass.
`norail` (a resume found no power) and `missed` (active slots whose release a
failed read took along, or came with a touch type that is not reported) are
history. Of a coordinate event the model keeps its kind, its id, which may lie
past the slots, and whether `handle_coordinate` reports its touch type: events
that fail either test are dropped (407-413), a release included. Coordinates,
registers and delays are left out. Hazards: `i2c_error`, `read_lost` (a failed
read has consumed the events), `rail_error`, `ic_error` (the firmware reports
errors, or never boots), `unlisted_type`.

### ChargePort (`tools/tabs6-charge.sh`, `tools/usb-role`)

`reg` is the chip: the two limit registers as the whole bytes that the service
reads, compares and writes, the others by the field under `usb-role`'s mask;
`pc`, `cur_in`, `cur_chg` are the service between its `i2cget` and `i2cset`
calls (what has been used is set back to 0); `at`, `cmd`, `read`, `done` are a
`usb-role` between its reads and writes; `role` is the role file; `cable` and
`flow` the world. `flow` is the battery current, in, out or within its noise,
and `Status` is what `sm5705_fg_get_status` makes of it
(`sm5705_fuelgauge.c:131-161`): not whether a charger is there, for a loaded
tablet discharges with one in its port. A change of mode and a plug reset the limits, as
the comments of the service say; `failed` is history, the registers whose last
write by `usb-role` failed. Shell semantics are part of the model: a failed
`i2cget` reads as 0, `set -e` ends the service, and
`vbus_on || exit 1` switches `set -e` off inside `vbus_on`. Hazards: `get_error`,
`set_error`, `role_error`, `status_error` (the status file cannot be read),
`kill`, `plug_race` (a cable is plugged under a `usb-role`),
`setter_race` (somebody else writes between the service's read and its write).
At most one `usb-role` runs at a time: it is typed by hand.

### IdleDaemon (`tools/tabs6-idled.py`)

`pc` goes through the loop: `LoopTop` (threshold), `SelectReady` or
`SelectTimeout`, `Check`, the two queries, `Suspend`. `idle` and `blocked` are
`now - last_activity` and what is left of `blocked_until`, `stamp` the age of the
`now` that was taken before the queries, from which an inhibited daemon counts
anew; a status that cannot be read counts as a supply, whatever it is; `watched`, `dead`,
`unread` the nodes it has open; `present` the devices there are; `sleep` the
tablet; `quiet` (input on a watched device only), `since`, `held` are history.
Input may come at any moment, also while the queries run. systemd carries a
suspend out some time after `systemctl` returned (`FallAsleep`). Hazards:
`hotplug`, `query_error`, `suspend_error`, `crash`, `status_error`.

### AutoRotate (`userspace/sensors/tabs6-autorotate`, `tabs6-rotate-tray.py`)

One GLib loop whose calls to the sensor proxy block: `pc` is in the loop, in one
of the three calls of `claim` (`ask`, `claim`, `get`), or in one of the two
processes of `commit` (`output`, `rotate`); `inbox` holds the D-Bus signals that
wait meanwhile. `claimed`, `current`, `pending`, `timer` are the daemon's own
fields. `bound` says that the proxy object made at the start of a claim still
names the process that runs: its first and last call go to that process, the
one in the middle to the well-known name. `proxy`, `accel`, `orient`, `granted`
are iio-sensor-proxy; `tilt` the hand; `lock`, `tray` the tray's toggle between
removing the file and sending SIGUSR1; `usr1` and `handling` the signal and
whether its handler is installed (until then it kills). The proxy may be
restarted at any moment, and its announcement of an accelerometer may be lost.
Hazards: `kscreen_error`, `tray_killed`, `crash`.

### FuelGauge (`kernel/drivers/sm5705_fuelgauge.c`)

`current` and `soc` are two registers, which move at any time; `at` says for each
of the three readers (the probe, the poll work, a desktop that reads the
property) whether it has yet to read the first or the second. `last_status` is
the driver's; `changed` stands for `power_supply_changed` until the desktop takes
it up; `shown` is what the desktop last read; `moved` and `missed` are history.
Every read may fail. The conversion of the current is the source's, on the whole
16-bit register.

### DesktopPatches and PatchedFile (`userspace/tabs6-desktop-patches.py`)

`lock`, `stock`, `tmp`, `file` and `link` are the disk. A text of the lock screen
says of each of the four hunks whether its old text, its new one or something
else is there; that is all the program looks at. `pc`, `group` and `k` follow
`main` through its three groups; every write has a beginning, which leaves the
file torn, and an end, and the power may go between the two. A file of the
keyboard or the profile is `ours`, the package's, absent or torn; comparing it
is one step with the decision. `failed` collects what this run gave up; `settled`
is history: a run has failed nothing and no package has changed a file since.
`Upgrade` stands for a transaction of one package while the service is not
running (it runs before the session, once per boot). Writes are taken to reach
the disk in order, as ext4 does for a rename over a file; a cut file is still
UTF-8, as no page boundary of the files shipped lies inside a character. Modes
and the text of the hunks are left out. Hazards: `crash`, `io_error`.

`PatchedFile` is the abstract specification of the lock screen: a text goes only
from one whole text to another, as packaged or as patched, is patched only when a
copy has been begun, and a complete copy is never touched again. It says nothing
of temporary files, steps, groups or boots. The refinement maps `text` to `lock`
and `kept` to `stock`; `Replace` is the abstract `Patch`, `Backup` two `Keep`s,
`Upgrade` an `Install`, all else stutters.

### TrayItem and Screenshot (`tools/tabs6-screenshot-tray.py`, `tools/tabs6-screenshot`, `tools/tabs6-powerkeyd.py`)

`TrayItem` is the registration that both tray programs share word for word: the
main loop takes one message after the other from `inbox`, and `call` is the
registration call that blocks it. `watcher` and `known` are Plasma's side,
`refused` is history (the last call failed though its watcher stayed).
`Screenshot` extends it: a tap is a message, and when it is taken a request
starts; a chord starts one in the daemon at any time. Each request climbs its
own ladder (`rung`), whose rungs are spellings that the installed spectacle
accepts or not (`accepts`); an accepted capture waits in `queue` and is written
or dropped. Deadlines are nondeterministic: a request whose file is not there may
stop waiting at any moment. A spelling that is rejected captures nothing, as the
source assumes (`tabs6-powerkeyd.py:250`). Hazards: `busy` (the watcher does
not answer in time), `hang`, `spawn_error`.

### KernelSnapshot (`tools/tabs6-kernel`)

`snapshot` and `rollback` are the scripts as sequences of commands, both `sync`s
and the `depmod` included; `ip` and `half` say how far they are, with a `cp` or
`rm` half done leaving its target torn. `set -e` is `Fail`, with the one command
that `|| true` excepts; every way out unmounts the ESP (`Exit`). A place holds a
build, nothing or something torn. `place` is what the running system reads;
`cut` says of each place all that a power cut may find there: whatever it has
held, half-written included, since the last `sync` or `umount` of its
filesystem. So the modules, which both commands copy after their only `sync`
(49, 62), are not sure when the command has said "snapshot taken" or "rolled
back", and `PowerLost` may come then as at any other moment; it picks for each
place by itself. That the two halves of a rename may part is more than ext4's
journal allows, on the safe side. `Room` is how many whole Images the ESP holds:
a copy that would be one more fails; what is cut off is taken to need no room.
`good`, `intact` (the snapshot ended well and no cut has reached its copies),
`before` and `spoiled` are history; `good` and `before` are forgotten as soon as
no property speaks of them. Snapshots are taken of a set that fits together, as
lines 16-17 ask; an installation is whole and written back. The specification is
`KSpec`, with its parts `KInit`, `KNext`, `kvars`: it is the other program that
writes to the tablet's own disk, and one proof module covers both. Hazards
(`Faults`): `crash`, `io_error`.

## 3. The runs

| Run | Hazards | States | Shows |
|---|---|---|---|
| `powerkey_hazards` | idle_blank, dpms_race, unplug | 989 000 | one hold, at most one action (`OneActionPerHold`); a chord or menu leaves no stale `soft_sleep` (`ActionClearsSleep`); no lock within the guard of a wake (`GuardedLock`); a press on a dark panel never locks (`DarkPressNeverLocks`); a dead fd is dropped (`DeadDeviceDropped`) |
| `powerkey_keys` | idle_blank, panel_race | 781 000 | with devices that live, suppression ends with the fingers off (`ChordEnds`); a panel left dark by the daemon is one it remembers (`DarkIsOurs`); a long enough hold opens the menu (`HoldOpensMenu`) |
| `powerkey_dead_resin` | unplug | – | finding 1 |
| `fts` | all | 335 000 | the handler runs only on a powered chip (`IrqOnlyPowered`); no contact in suspend (`SuspendedReleased`); rails balanced (`RailsBalanced`); no contact without a finger, FIFO overflow and ids past the slots included, unless its release was lost or is of a type that is dropped (`NoGhostFinger`); on means powered and listening unless a resume found no rail (`ListensAfterResume`); probe and resume end (`BringUpEnds`) |
| `fts_rail` | rail_error | – | finding 2 |
| `port` | kill, role_error, set_error, status_error, plug_race | 736 000 | no sourcing at the charging boost (`BoostFirst`); a success is one (`DoneMatches`); the service never lowers (`OnlyRaises`); the input limit is reached (`InputGranted`) |
| `idle` | all | 877 000 | no suspend before the threshold of quiet (`NeverInUse`); attempts are a threshold apart (`NotHammered`); a standing inhibitor is heard (`InhibitorHeard`); a tablet left alone is sent to sleep again and again (`AloneSuspends`) |
| `rotate` | all | 281 000 | with nothing left to read, a claim believed in is real (`ClaimIsReal`); at rest the screen is as the tablet is held (`RestsRight`); at most one rotation after a lock (`OneLateRotation`); a tablet held one way comes to be shown that way (`Settles`) |
| `gauge` | reads fail | 11 000 | the current is right (`DecodeRight`); only what moved is announced (`OnlyTransitions`); a status that stays is noticed (`Noticed`) |
| `patches` | all | 2 286 000 | the lock screen implements `PatchedFile` (`PatchesAtomically`); its copy is never a patched text (`StockIsStock`); a run that is over put back all it did not give up (`DoneInPlace`); later runs leave the disk alone (`SettledIsIdle`) |
| `shots` | all | 423 000 | one capture per request (`OneCapture`); a reported save is on disk (`SavedIsThere`); the icon comes back with the watcher (`IconShown`) |
| `kernel` | all | 1 169 000 | one boot entry has a whole kernel and device tree (`BootsSomething`); a rollback that reports success is one, and keeps what it replaced (`RolledBack`) |

Bounds, and why they are enough:

- **PowerKey.** A tick is half a second. `COMBO_WINDOW` 1 and `LONG_PRESS` 2 keep
  the order of the source's 0.6 and 1.5 s, and the chord window shorter than a
  long press by at least one tick. `WAKE_GUARD` (2.5 s) is 1: it is compared with
  the clock alone, never with the other two, and `MAX_LAG` exceeds it. The
  finding's run has 3, 1 and 2. `MAX_LAG`, the time between two stamps, must
  reach `LONG_PRESS`, or no long press ever happens; it lets the whole chord
  window and the whole guard pass
  unseen. `MAX_QUEUE` 2 is a press and a release unread; `MAX_JOBS` 1 or 2 is
  the number of processes under way when a key goes down (a step may start one
  more): two are needed to finish out of order. `READ_EVENTS` 8 is the
  source's 16 input events, each key with its SYN.
- **Fts1ba90a.** The polling limits 150 and 32 are 2, so that the two counters of
  `wait_for_ready` can alternate, the echo's is 1: the loops do the same at each
  turn. `FIFO_DEPTH` 2 and the event that says it is full are three events, one
  more than one interrupt takes (`FIFO_MAX` 2). `MAX_DEPTH` 2 is one more than a
  balanced suspend needs, so that unbalanced nesting shows. One slot and a
  contact with an id past it make a FIFO hold events of both; slots are never
  looked at together but by the overflow and `release_all`, and the theorems are
  for any number of them, and of events.
- **ChargePort.** The targets are the source's 2000 mA; `RESET_IN` 16 is 500 mA,
  `RESET_CHG` 0 is 100 mA; another setter writes an offset between the two (50),
  and the same under a byte with its top bit set (178). The counter-free state is
  finite.
- **IdleDaemon.** Time in units of the poll, thresholds 3 on a supply and 2 on
  battery, back-off and grace 1, ages saturate at `CAP` 3, the longest threshold,
  beyond which no comparison tells ages apart. Two devices, so that one may come
  or go while the other is used.
- **AutoRotate.** Two of the four orientations, mapped as the unit's drop-in maps
  them, and `undefined`; the code treats all others alike. `MAX_INBOX` 2 is a
  proxy that went and came back while the daemon was in a call, so that a claim
  may be made and lost with both messages unread. `late` counts to 2.
- **FuelGauge.** Currents of 102 and 103 units (49.8 and 50.3 mA) lie on both sides
  of the noise, with either sign; one of each sign has whole amps. Charges are
  one unit below 99 % and 99 %. The theorems about it are for all registers.
- **DesktopPatches.** Two lock screens: one that all hunks fit, and one that only
  the Window.window hunk fits, which leaves no marker. Two keyboard files, so that
  one fails and the next is still restored; two of the profile, one never stashed.
- **Screenshot.** A tap and a chord are what it takes to share a second; the clock
  makes one step, so that they need not. The watcher appears twice; `MaxInbox` 3
  holds the two messages of the start and a third.
- **KernelSnapshot.** Two builds, one kept and one installed, the second of which
  becomes the broken one. `Room` 3 is an ESP that holds all three Images: with
  the 2 that `docs/DAILY_DRIVER.md:30` leaves it no rollback ends well (section
  6), and `RolledBack` would have nothing to speak of. The theorems hold for any
  `Builds` and any `Room`.

Deadlock is checked in every run but `shots`, where the requests end and plasmashell
need not restart. Only `kernel` uses symmetry, of the builds, which no
definition tells apart; it checks invariants only.

## 4. Fairness

- PowerKey: `WF(Daemon)` (a running process; systemd has `Restart=always`) and
  `WF(Tick)` (time passes). The finger, KWin, PowerDevil and `kscreen-doctor` owe
  nothing: `HoldOpensMenu` states what the user does as its premise.
- Fts1ba90a: `WF(Core)` and `WF(Handler)`, two kernel threads. The controller may
  never boot, never answer an echo, and nobody need suspend or resume.
- ChargePort: `WF(ChargeLoop)`, a service with `Restart=always`. `InputGranted`
  assumes that the chip goes on charging, that nobody keeps the bit above the
  offset set, and that, from some point on, the service is neither killed nor
  fails to write.
- IdleDaemon: `WF(Daemon)`, `WF(Tick)`, and `WF(FallAsleep)` (systemd carries out
  what it queued). Nobody owes a wake-up. `AloneSuspends` assumes a tablet that
  is alone and a daemon that stops crashing, for a crash restarts its clock.
- AutoRotate: `WF(Daemon)` (one loop; systemd restarts it) and `WF(Report)` (the
  proxy tells its clients what it senses). Nobody owes a proxy, an accelerometer,
  its announcement, or an unlocking. `Settles` assumes a tablet that goes on being
  held one way, unlocked, with an accelerometer, and a daemon that stops dying.
- Screenshot: `WF` of the main loop, and of the registration call, which D-Bus ends
  after five seconds at the latest. Nobody owes a watcher, a capture or a tap.
- DesktopPatches and KernelSnapshot have safety properties only: nobody owes the
  tablet a boot.
- FuelGauge: `WF(Poll)` (the work queue), `WF` of a desktop that takes up an
  announcement (it need not look of its own accord), and `SF` of both reads of
  each reader: a bus may fail again and again, but not every time.

## 5. What the models found

Two runs end in a counterexample to what the repository says of itself.

1. `powerkey_dead_resin`. The volume-down device dies with a chord in progress
   (`tabs6-powerkeyd.py:398`, "only the resin died: chord is gone, power key
   lives"). Its release never comes, `down[KEY_VOLUMEDOWN]` keeps its time,
   `combo_fired` is never cleared (440), and the power key does nothing any more.
2. `fts_rail`. One resume that finds no rail returns at `fts1ba90a.c:602` without
   the `enable_irq` of 618. After the next, successful, suspend and resume the
   touchscreen has power and its interrupt is still disabled.

## 6. Known divergences

These hold of the code and are reached by the same models: either with a hazard
switched on that the runs above leave out, by name, or in a case that a property
names and excepts.

- **KWin first** (`panel_race`). If KWin lights the panel before the daemon
  samples it (`tabs6-powerkeyd.py:412`), a press on a dark panel is taken for
  one on a lit panel and locks. `DarkPressNeverLocks` fails.
- **Processes out of order** (`dpms_race`, 156). An older "off" that finishes last
  leaves the panel dark with `soft_sleep` cleared. `DarkIsOurs` fails; the next
  press still wakes, because `is_asleep` reads the panel too.
- **A daemon that dies forgets** (`unplug`, 395). One that loses the power key exits
  between its "off" and the end of that process, and the new one starts with
  `soft_sleep` cleared (`DarkIsOurs` fails). The next press wakes all the same.
- **A lone volume-down** lights the panel (KWin) and leaves `soft_sleep` set
  (304): the next power press on a lit panel wakes instead of locking. Hence no
  property "a press on a lit panel locks".
- **The service writes a supply's limits.** `tabs6-charge.sh` reads the mode once
  (48) and may write at 56 or 61 after `usb-role` has changed it, though 21 says
  it leaves a sourcing port alone.
- **A charger is not always `Charging`.** `usb-role:52` refuses only the status
  `Charging`, which `sm5705_fuelgauge.c:131-161` decides by the sign of the
  battery current beyond 50 mA. A charger that gives less than the tablet draws
  reads `Discharging`, one that just carries it `Not charging`, one with a full
  battery `Full`, and the port is turned into a supply against it, with nothing
  failing, although the message (53) says that a charger is attached and
  `docs/USB_HOST.md:82-84` that the part is never asked to. The model reaches
  it in four steps (`flow` out, `cable` a charger, `RunRole("host")`), so no
  property "never into a charger" is stated: the code does not look for one.
- **The status is read once.** `usb-role:52` looks before its three writes: a charger
  plugged in behind the look (`plug_race`) is sourced into, and so is one whose
  status file cannot be read (`status_error`). Run `port` allows both.
- **A failed `i2cget` reads as 0** (51, 52; `get_error`): a higher limit set by
  somebody else is then lowered. `OnlyRaises` fails.
- **A failing write in `vbus_on`** (`set_error`) is not noticed, because
  `usb-role:83` calls it on the left of `||`: it reports "VBUS on" at 4.5 V.
  `BoostFirst` and `DoneMatches` except a boost whose last write failed.
- **3300 mA and more wrap.** The offset is masked to its field
  (`tabs6-charge.sh:40`), so `TABS6_INPUT_MA=3300` asks for 100 mA, where
  `tabs6-charge.service:10-11` calls overshooting safe and the header (13-14)
  speaks of clamps. TLC finds `InputGranted` violated with `INPUT_MA = 3300`.
- **The bit above the offset.** The service compares the whole byte (55, 60) but
  computes an offset of seven or six bits: if somebody sets the bit above it, the
  register is never below the target, and a low limit stays. `ChipCharges`, the
  premise of `InputGranted`, excepts it; nothing in `src/` sets that bit.
- **A keyboard attached later** (`hotplug`) does not count as use: the idle daemon
  opens the nodes once (`tabs6-idled.py:150`), where 18-20 call them "the one
  source that cannot be wrong". `NeverInUse` is about the devices it watches.
- **Input during the queries**, which may take 20 s, is not looked at again
  (`tabs6-idled.py:203`). `NeverInUse` excepts input that still waits to be read.
- **`Full` and `Not charging` count as battery** (`tabs6-idled.py:93`): a full
  tablet on its charger suspends after the shorter time. A status that cannot be
  read counts as a supply (95), so an unplugged one waits for the longer.
- **A failed read that consumed events** (`read_lost`, `fts1ba90a.c:466`) loses a
  release: the contact stays until the next overflow or suspend. `NoGhostFinger`
  excepts that slot.
- **A release of a type that is not reported** (`unlisted_type`, 410-413) is dropped
  like any event of such a type, so a contact that was reported as a finger and
  turns, say, into a hover before it is lifted stays in its slot. `NoGhostFinger`
  excepts the slot until a release of it is acted on, an overflow or a suspend.
  Whether the controller changes a contact's type is not known from the source.
- **A rotation that fails is not tried again.** `commit` has let go of its timer
  when `kscreen-doctor` or the query of the output fails
  (`tabs6-autorotate:145-155`); the screen stays until the sensor reports another
  orientation. So it does if the tray dies between removing the lock and its
  signal (`tabs6-rotate-tray.py:163-168`). `RestsRight` and `Settles` are stated
  with no rotation `lost`.
- **A lock can be followed by one rotation**, whose `commit` has looked at the lock
  already (`tabs6-autorotate:142`).
- **The desktop can go on showing a status that has passed.** It reads the
  registers itself, so what it read may differ from what the poll announced;
  when the status then returns to `last_status` the poll is silent
  (`sm5705_fuelgauge.c:177`) and the desktop keeps the other one until it looks
  by itself, which is the case the poll was written for (55-64). `Noticed` is
  stated with nothing `missed`.
- **The probe's window.** A supply is registered before `last_status` is seeded
  (304-318). If the seeding fails, the first poll announces a status that has not
  moved, so `OnlyTransitions` excepts `Unknown`.
- **The stock copy is made once** (`tabs6-desktop-patches.py:189`). After the next
  upgrade of Plasma the `.stock` file is an older text than the one replaced, and
  a cut in the middle of the first copy stays for good, though the log (192) and
  `docs/DESKTOP.md:141-145` call it a copy of what was replaced.
- **The fourth hunk does not wait for the third.** The docstring (97-100) says that
  starting revealed without the Window.window guard leaves a lock screen that
  accepts no password; a Plasma in which only the third does not match gets
  exactly that (143-182).
- **"everything already in place"** (281) is also logged by a run that restored
  nothing because it failed.
- **A registration that fails with the watcher there** is not tried again
  (`tabs6-screenshot-tray.py:143`, `tabs6-rotate-tray.py:123`); `IconShown`
  excepts it.
- **Two captures in one second** share a file (`tabs6-powerkeyd.py:231`,
  `tabs6-screenshot:21`): both report it saved and one is lost. A capture
  that is written after its deadline was reported missing.
- **A chord's screenshot is not on the clipboard**: `README.md:65` and
  `docs/PORT.md:64` say that both are; only the script copies.
- **A snapshot that was cut short** (`tabs6-kernel:45-49`) is taken for one by the
  next rollback, which asks only whether a file is there (53), and then neither
  entry boots. `BootsSomething` excepts a rollback from such a snapshot.
- **"snapshot taken" is not on the disk yet.** `sync` (47) comes before the modules
  are removed and copied (48-49), and nothing after: a power cut soon after the
  message leaves `-lastgood` modules that are old, gone or torn beside a kept
  kernel that is whole. So it is with the modules after "rolled back" (58,
  60-63). `RolledBack` speaks of snapshots that no cut has caught so, and of the
  running system. `BootsSomething` is about kernel and device tree, which the
  `umount` of the trap writes back too.
- **A third Image does not fit** (`docs/DAILY_DRIVER.md:30`), and rollback begins by
  writing one, `Image-broken` (54). On such an ESP the copy fails, `set -e` ends
  the script there, and nothing has been put back, where
  `docs/DAILY_DRIVER.md:23` and line 65 promise a rollback that keeps the
  broken set. In the model, `Room = 2` and no fault: no rollback reports success.
  `RolledBack` is about an ESP that has the room; `BootsSomething` holds either way.
- **A rollback cut between 61 and 62** leaves no modules; every later one removes
  the kept broken modules (60) and stops at the `mv` (61).
- **A second rollback** overwrites the broken set that the first kept with the set
  it restored (`tabs6-kernel:54-61`), though 65 says it is kept.
- `docs/SLEEP.md:240` names `TABS6_IDLE_AC` and `TABS6_IDLE_BATTERY`; the source
  does not read them.

## 7. The proofs

TLAPS checks the theorems for every value of the constants that satisfies the
module's assumptions, which TLC evaluates in the runs: `TimingAssumption`
(PowerKey), `LimitsAssumption` (Fts1ba90a), `TargetsAssumption` (ChargePort),
`TimesAssumption` (IdleDaemon), `MapAssumption` (AutoRotate), `RegisterAssumption`
(FuelGauge), `PackagesAssumption` and `NamesAssumption` (DesktopPatches),
`TrayAssumption` and `ShotAssumption` (TrayItem, Screenshot), `BuildsAssumption`
(KernelSnapshot). Two of them say that names are distinct where the program's
types keep them so: a rotation is a word for `kscreen-doctor` and never Python's
`None`, a tap is no message about the watcher.

| Theorem | States | Assumes, besides the constants' | Inductive invariant |
|---|---|---|---|
| `PowerKeyProofs!TypeCorrect` | `[]TypeOK` | – | itself |
| `PowerKeyProofs!OneAction` | `[]OneActionPerHold` | – | `TypeOK /\ HoldInv` |
| `PowerKeyProofs!SleepCleared` | `[]ActionClearsSleep` | – | `TypeOK /\ SleepInv` |
| `PowerKeyProofs!GuardHolds` | `[]GuardedLock` | – | `TypeOK /\ GuardInv` |
| `PowerKeyProofs!DarkWakes` | `[]DarkPressNeverLocks` | no `panel_race` | `TypeOK /\ DarkInv` |
| `PowerKeyProofs!DarkRemembered` | `DarkIsOurs` | `InOrder` | `TypeOK /\ OursInv` |
| `PowerKeyProofs!ChordOver` | `[]ChordEnds` | no `unplug` | `TypeOK /\ ChordInv` |
| `Fts1ba90aProofs!HandlerHasPower` | `[]IrqOnlyPowered` | – | `ReleasedInv` |
| `Fts1ba90aProofs!NoContactInSuspend` | `[]SuspendedReleased` | – | `ReleasedInv` |
| `Fts1ba90aProofs!RailsStayBalanced` | `[]RailsBalanced` | – | `LineInv /\ BalanceInv` |
| `Fts1ba90aProofs!ResumeListens` | `[]ListensAfterResume` | – | `LineInv /\ BalanceInv` |
| `Fts1ba90aProofs!TypeCorrect` | `[]TypeOK` | – | `FlowInv` |
| `Fts1ba90aProofs!NoGhosts` | `[]NoGhostFinger` | – | `FlowInv /\ GhostInv` |
| `ChargePortProofs!TypeCorrect` | `[]TypeOK` | – | itself |
| `ChargePortProofs!BoostBeforeSource` | `[]BoostFirst` | – | `TypeOK /\ BoostInv` |
| `ChargePortProofs!WellDone` | `[]DoneMatches` | – | `TypeOK /\ DoneInv` |
| `ChargePortProofs!NeverLowers` | `OnlyRaises` | `GoodReads` | `TypeOK /\ ReadInv` |
| `IdleDaemonProofs!AttemptsApart` | `NotHammered` | – | `AgeInv` |
| `IdleDaemonProofs!OnlyWhenQuiet` | `NeverInUse` | – | `AgeInv /\ UseInv` |
| `IdleDaemonProofs!StandingInhibitorHeard` | `InhibitorHeard` | – | `HeldInv` |
| `IdleDaemonProofs!TypeCorrect` | `[]TypeOK` | – | itself |
| `AutoRotateProofs!ClaimBelieved` | `[]ClaimIsReal` | – | `ClaimInv` |
| `AutoRotateProofs!LockHolds` | `[]OneLateRotation` | – | `LateInv` |
| `AutoRotateProofs!RestIsRight` | `[]RestsRight` | – | `ClaimInv /\ RestInv` |
| `AutoRotateProofs!TypeCorrect` | `[]TypeOK` | – | `ClaimInv /\ LateInv /\ RotationInv /\ FlagType` |
| `FuelGaugeProofs!DecodeCorrect` | `[]DecodeRight` | – | `RangeInv` |
| `FuelGaugeProofs!NoFalseTransition` | `OnlyTransitions` | – | `NewsInv` |
| `FuelGaugeProofs!TypeCorrect` | `[]TypeOK` | – | itself |
| `FuelGaugeProofs!DesktopAgrees` | `[](UpToDate => shown = Status)` | – | `NewsInv /\ AgreeInv` |
| `DiskProofs!LockIsAtomic` | `PatchesAtomically` | – | `LockInv` |
| `DiskProofs!StockKept` | `[]StockIsStock` | – | `LockInv` |
| `DiskProofs!RunPutsBack` | `[]DoneInPlace` | – | `LockInv /\ RunInv` |
| `DiskProofs!SafeToRepeat` | `SettledIsIdle` | – | `LockInv /\ RunInv /\ SettledInv` |
| `DiskProofs!OneEntryBoots` | `[]BootsSomething` | – | `KernelInv` |
| `DiskProofs!RollbackRestores` | `[]RolledBack` | – | `KernelInv` |
| `ScreenshotProofs!CapturedOnce` | `[]OneCapture` | – | `ShotInv` |
| `ScreenshotProofs!SavedIsOwn` | `[]SavedIsThere` | – | `ShotInv` |
| `ScreenshotProofs!IconStays` | `[]IconAtRest` | – | `IconInv` |

A dash means with every hazard of the model allowed. `InOrder` is no `dpms_race`
and no `unplug`; `GoodReads` is explained below. Under each of these hazards the code does something else, as
sections 5 and 6 describe, and TLC finds the property violated; the runs that
check these properties leave them out too. Cases that a property excepts (a
write that failed, a query that failed, a resume without power) are named in the
property itself and in section 6. `UpToDate` and `IconAtRest` are defined beside
their theorems: they are the parts of `Noticed` and `IconShown` that are not
about time.

Why the strengthenings are needed:

- **One action.** `OneActionPerHold` alone says nothing of how a second action
  would come about. `HoldInv` adds that an action of this hold set `long_fired`,
  and that without a chord `long_fired` means the hold has lasted `LONG_PRESS`;
  then, as `COMBO_WINDOW < LONG_PRESS`, a late volume key is outside the window.
  The source allows values that break this order, and then one hold can open the
  menu and take a screenshot: `TimingAssumption` is that condition. No assumption
  is made on how late the daemon is.
- **Sleep cleared.** While the key is down, the sample taken at the press covers
  `soft_sleep`; so a chord or a menu that saw "lit" has nothing to clear.
- **Wake guard.** The daemon compares with a stale clock. `GuardInv` relates the
  two: until `WAKE_GUARD` of real time has passed, what the stale stamp leaves of
  the guard is at least the time since the stamp plus what is really left.
- **A dark press wakes.** What a press found is a note on the event, and the event
  may wait in a buffer while the panel changes. `DarkInv` says where such notes
  can be: while the panel is lit none is unread, so the sample the daemon takes of
  one is dark too, and a sample of a dark panel never leads to a lock. With
  `panel_race` KWin lights the panel in between and the first part fails.
- **Dark is ours.** The panel ends as the last process under way leaves it.
  `OursInv` follows that process: it is an "off" only while `soft_sleep` is set,
  because every step that clears the flag asks for light. It needs the processes
  in order and, since a dead daemon forgets the flag, a daemon that lives.
- **Chord over.** `ChordEnds` is about a daemon that has nothing left to read. `ChordInv`
  says of each key that the finger has left where its release is: last in the
  key's buffer, or last in the batch, or handled. So when all is read both keys
  are up, and a latch is set only while a key is down. Finding 1 is what
  `unplug` does to the first half.
- **Handler.** `LineInv` fixes rails and interrupt for each state of the driver
  core. After a resume without power the device counts as on, and only the
  missing `enable_irq` (finding 2) keeps the handler away from it: the bug is
  what the safety proof rests on there.
- **Rails and resume.** `BalanceInv` counts: as long as every resume found its
  rails, the interrupt is disabled once from suspend to resume and not at all
  when on, so the next suspend has a rail to give back and the resume listens.
  `norail` is where the count goes wrong (finding 2), and only a remove ends it.
- **No ghosts.** A contact outlives its finger if its release never comes. `FlowInv`
  is the flow of the events: what the handler reads is the front of the FIFO, and
  it reads on until it has seen the end of it. `Accounted` then follows a contact
  through three places, the FIFO, the batch and the slot: each that shows the
  finger down with nothing behind it that lifts it has a finger on the glass and
  a FIFO with room for its release (`Room`), or its release was taken along by a
  failed read or dropped for its type. An overflow is an event like a release, for all slots at once. The rest
  of `GhostInv` is the beginning: a controller that scans has its FIFO read by the
  driver, and a device that is off shows no contact.
- **Well done.** `DoneInv` says what each step of `usb-role` owes to the ones before
  it: behind the boost the registers are up or a write to them has failed, and
  the role file is written last for a host and first for the others.
- **Boost.** Where `usb-role` is in its sequence says what it has already set. A
  kill only drops a promise, so every prefix is safe.
- **Never lowers.** What was read bounds the register until it is written: in
  between only a reset happens, and a reset is below the target. `GoodReads` is
  no failed read, no other setter between read and write, resets at or below the
  targets. A target has no bit above its offset, so a byte that is raised to it
  is raised in its offset too (`OffsetRaised`).
- **Attempts apart, only when quiet.** The daemon's age never exceeds the time
  since the last attempt, nor, with nothing unread, the user's quiet; a daemon
  that has begun to ask has been idle for its threshold.
- **Inhibitor.** One that has stood since the check is still there when its own
  query is answered, whatever the other does; its own query may fail, which the
  property excepts.
- **Claim believed.** `ClaimIsReal` is about an empty inbox. `ClaimInv` follows the
  loss of a claim through it: a claim believed in and lost has its "gone" in the
  inbox.
- **Lock holds.** `LateInv` counts what may still come: once the rotation under way
  at the lock is counted, no other can be under way, for `commit` looks at the
  lock.
- **At rest.** The daemon shows the orientation it heard last; that this is what the
  sensor said last is `TurnsInOrder`: the last turn in the inbox is the present
  one. When the inbox has no turn left, a daemon with a claim wants the present
  orientation (`pending`), and unless a timer, a signal, a lock or a lost rotation
  stands in between it has turned the screen to it. `current`, when it is known,
  is what the screen shows, so the early return of `commit` leaves nothing undone.
- **Types of the rotation.** That `commit` never asks `kscreen-doctor` for `None` is not
  in `TypeOK`, and needs that a timer runs only with a rotation pending
  (`RotationInv`).
- **Decoding.** The fraction is rounded down and the whole amps are exact, so the
  sum is the magnitude rounded down.
- **Only transitions.** Until the status moves, `last_status` is the status. A poll
  between its two reads is safe because a current at rest stays at rest as long
  as the status does: no status comes out of both branches.
- **The desktop agrees.** A desktop that is at rest, with no announcement to take up
  and nothing missed, shows `last_status` (`AgreeInv`); as long as the status has
  not moved since, `last_status` is the status (`NewsInv`).
- **The lock screen.** `LockInv` ties the place in the program to the disk: what is
  about to be renamed over the file is the patched form of what is there, and by
  then a copy has been begun. With it each step is a step of `PatchedFile` or a
  stutter; a cut file is only ever the copy or the temporary one.
- **Put back, and idle.** `RunInv` is the loop's invariant: what lies before `k` in
  this group, and all of the groups before, is in place or has been given up.
  `SettledInv` then leaves the next run nothing to differ from.
- **Captures.** `ShotInv` says that a request still on its ladder has captured
  nothing, so the rung that is accepted is the first; and that what a file holds
  belongs to a request of the file's second.
- **The icon.** `known` changes only with the watcher, and the tray learns of that by
  messages. `IconInv` says that while a watcher without the icon is there, a call
  is under way or an "appeared" is still in the inbox that the tray will act on:
  nothing says "vanished" behind it, and if the tray believes itself registered a
  "vanished" lies in front of it.
- **Kernel snapshots.** Neither command writes to the set it copies from. `SnapshotInv`
  and `RollbackInv` say what each prefix of the script has done, the rest of
  `KernelInv` what survives a cut at any command: the kept set is whole, or the
  installed one is, or a rollback was made from a snapshot that was not. `CutInv`
  is what makes it survive: of the ESP, what a power cut may change (a place that
  is not `Sure`) is never in the set that the running command copies from, and
  with no command running all of it is written back.

## 8. What is only model-checked

Every invariant and every safety action property of a passing run has a theorem.
What has none is liveness: `HoldOpensMenu`, `DeadDeviceDropped`, `BringUpEnds`,
`InputGranted`, `AloneSuspends`, `Settles`, `Noticed` and `IconShown`. Liveness
under fairness needs `ENABLED`, which is out of the prover's reach, as are
induction over data and `RECURSIVE` operators (the models use none). Of three of
the eight the part that is not about time is a theorem: where the system comes
to rest, it rests in the right place (`RestIsRight`, `DesktopAgrees`,
`IconStays`); that it comes to rest is TLC's.

The two properties of section 5 have no theorem: they are false.
## 9. What is not modelled

Within the modelled parts: D-Bus and process plumbing, logging, the text of
commands, coordinates, register bits the scripts do not use, the tablet's own
suspend path in the kernel. A second `usb-role` at the same time. KWin,
PowerDevil, logind, systemd, the controller's firmware and the SM5705 are the
environment, modelled as far as the code relies on them and marked external.

Of the fuel gauge, the properties that are one register read. Of the screenshot
script, the copy to the clipboard and the notification. Of the kernel snapshots,
`status`, which prints. The copy of the desktop patches under `tools/` is an
earlier text of the same program, without the audio profile.

Not modelled at all, by choice: boot-image tools (`avb_*.py`, `pack_odin_*.py`,
`build-boot-image.sh`: single-run formatters without state), the brightness
measurement script, one-shot units (Wi-Fi, USB gadget, Bluetooth address, power
log, sensor recovery: commands in order, the programs not in the repository),
the lock screen (a patched upstream file), identifier and table patches, device
tree, configuration, audio profile.

Not modelled yet: the keyboard's latches, and the power-off path, whose hazard
is a type write that fails after line 70 of the qcom-pon patch and leaves
PS_HOLD disabled.

## 10. The plan

In this order, each with its own module, run, mutants and, where listed, proof:

1. **Keyboard**: latches with press, release, popover and swipe. Abstract
   specification: a modifier applies to exactly one key; the detailed module
   refines it.
2. **PowerOff**: two notifiers, two stages, and a write that fails between two
   writes.
3. Composition: FuelGauge produces the status that ChargePort and IdleDaemon
   take as given.
4. More abstract specifications with refinement: one action per hold (PowerKey),
   a limit that only rises (ChargePort), a tablet that is in use or asleep
   (IdleDaemon).
5. Proofs of those refinements, and of the two new modules.
