# SPIKE Prime Hub firmware: a TLA+ model

This project models the concurrent core of the firmware in `src/` (NuttX on the
LEGO SPIKE Prime Hub) in TLA+, checks it with TLC on small instances and proves
the properties that matter most with TLAPS. Every definition is translated from
the source; `PROJECT.json` maps each one to the lines it stands for.

## The system

| component | state | operations | talks to |
|---|---|---|---|
| drivebase chardev, `boards/spike-prime-hub/src/stm32_drivebase_chardev.c` | command ring, `output_epoch`, attach state, published status | drive verbs, STOP, attach / detach / close, pickup, publish, LPWORK watchdog | callers and daemon by ioctl, motors directly (STOP, watchdog) |
| drivebase daemon, `apps/drivebase/drivebase_daemon.c` | life-cycle state, `running`, `teardown_done`, stall counters | start, stop, idle loop, port recovery, teardown | RT thread by shared flags, chardev by ioctl |
| RT thread, `drivebase_rt.c`, `rt_tick_cb` | jitter histogram, missed deadlines | sleep, freeze gate, tick | daemon task, handler, control loop |
| chardev handler, `drivebase_chardev_handler.c` | `output_epoch_seen` | drain and dispatch envelopes | chardev, control loop |
| motor HAL, `drivebase_motor.c` | open ports, freeze flag and acknowledgement, recovery requests | init, drive, coast, reclaim, close | legosensor devices |
| control loop, `drivebase_{drivebase,aggregate,control,servo,observer,trajectory}.c` | trajectories, observers | reset, update, stop, drive | motor HAL |
| legosensor, `legosensor_uorb.c` | per class: bound port, generation, claim | open, close, claim, set, bind / unbind from LUMP | LUMP engine, PWM |
| device manager (DCM), `stm32_legoport.c`, `_chardev.c` | per port: class, debounce counters, hand-over, edge counter, one descriptor | scan on the work queue, hand over, withdraw, wait for a change | LUMP engine, descriptor |
| LUMP engine, `stm32_legoport_lump.c` | per port: session, sync flags, watchdog, backoff, pin of the supply rail | search, synchronise, stream, end, retry | DCM, PWM, legosensor by callback |
| H-bridges, `stm32_legoport_pwm.c` | per port: state, owner, pin | drive, brake, coast, pin | LUMP engine, descriptor |
| btsensor daemon, `apps/btsensor/btsensor_main.c` | life, teardown stage, visibility, button, pending action | start, stop, HCI / RFCOMM events, button, actions from NSH | Bluetooth stack, the parts below |
| telemetry, `bundle_emitter.c`, `imu_sampler.c`, `btsensor_imu_cap_mode.c` | which pumps run, rate of the IMU, what IMU_CAP mode paused | on, off, pause, restore | arbiter |
| transmit arbiter, `btsensor_tx.c` | replies, frames, request for a grant, drain callback | enqueue, grant, channel up / down | run loop |
| capture mode, `btsensor_capture_mode.c` | active, throttle, callback installed, paused telemetry | enter, read, exit, abort | btcap, arbiter |
| shell, `btsensor_shell.c` | mode, generation, child, reader thread, output buffer | enter, collect, pump, end | arbiter, an NSH task |
| btcap, `stm32_btcap_chardev.c` | session, generation, ring, semaphore of the writer | register, write, finalize, read, abort | an application, capture mode |
| sound, LEDs, power, battery, storage, crash diagnostics | register state | drivers | — |
| linetrace, imu, sensor, port and other tools, host viewers | — | clients | the devices above |

### What is hard here

- **Callers, daemon and watchdog share one ring and one pair of motors.** STOP
  acts in three critical sections (bump the epoch, stop the motors, queue the
  envelope) while verbs stamped earlier are still under way, a tick is half
  done, or the watchdog fires.
- **The ring never refuses STOP.** At its limit it coalesces or evicts, which
  moves envelopes across the wrap of the ring.
- **What is published is copied out by readers without a lock**: the status under a
  sequence counter that not every writer of it moves, the state from two buffers.
- **The watchdog arms itself outside the lock** that detach and attach take.
- **Recovery of a lost port** needs the RT thread to stand still: two flags, a
  bounded wait, and an acknowledgement that may come after the wait was given up.
- **The tail of an ended daemon overlaps the next start**, since its state is
  published before its last step.
- **Counters sampled by difference** (missed deadlines) are stale after a freeze
  or a reset.
- **Two ports contend for one sensor class.** Their threads bind, displace and
  unbind under a lock but publish without it, while descriptors claim the class,
  check the claim and act on the port after the lock is released.
- **A port's pins change hands** between the device manager, which calls the engine
  without its lock, and the engine's thread, which withdraws the hand-over while
  that call is under way. A watchdog may post as the session ends, and the supply
  rail is pinned while the descriptor drives the same bridge.
- **Whatever the line loses**, the announcement of a device must leave the engine
  with a usable description; a device starts over while the engine does not.
- **The teardown of the Bluetooth daemon** is staged, each stage left by an event or by
  a timer, while actions, the button and the peer go on.
- **An action has two owners**, a waiter that may time out and a runner that may be late.
- **Three senders share a channel**: replies, telemetry and captures go through the
  arbiter, the shell's output goes by the grants the arbiter leaves. A frame evicted, a
  request made twice or never, or a reply refused shows only at the host.
- **A capture has a writer and a reader** with a one-post semaphore between them, and a
  session may be finalized, aborted or left by either side first.
- **A shell ends for five reasons**, one of them reported by a thread that may
  be late for its own session.

`PROJECT.json` lists each hazard at its line with the properties that cover it.

## The modules

| module | models |
|---|---|
| `EnvelopeQueue` | operators on a queue of envelopes: what queueing a STOP does to it |
| `CmdQueue` | abstract specification of the command queue: FIFO, verbs refused when full, STOP never refused |
| `DrivebaseRing` | the ring as coded: slots, head, tail, compaction; refines `CmdQueue` |
| `DrivebaseIpc` | callers, daemon ticks and watchdog around `/dev/drivebase` |
| `DrivebaseIpcProofs` | theorems about them |
| `DrivebaseDaemon` | start, stop, RT thread, port recovery, stall watchdog |
| `DrivebaseDaemonProofs` | theorems about them |
| `DrivebaseSnapshot` | how published status (sequence counter) and state (two buffers) are copied out |
| `LegoSensor` | sensor classes: the ports' LUMP callbacks, bindings, claims, topics |
| `LegoSensorProofs` | theorems about them |
| `Drivebase` | composes `DrivebaseRing`, `DrivebaseSnapshot`, `DrivebaseDaemon` and `LegoSensor` |
| `DrivebaseProofs` | theorems about the ring, its refinement of `CmdQueue`, the snapshots, and what those of the daemon and of the sensor classes say of the composition |
| `LegoPort` | a port: scan and classification, hand-over, engine and watchdog, H-bridge, descriptor |
| `LumpSync` | the announcement of a LUMP device, frame by frame, on a line that loses |
| `LegoPortSession` | composes `LegoPort` and `LumpSync` |
| `LegoPortProofs` | theorems about them |
| `BtTx` | operators: the transmit arbiter, as functions from its state to the next |
| `BtDaemon` | start, stop, teardown, visibility, button, pumps, IMU_CAP mode, actions |
| `BtCapture` | an application's capture through `/dev/btcap`, capture mode and the arbiter |
| `BtShell` | NSH over Bluetooth: child, reader thread, run loop, arbiter |
| `Bluetooth` | composes `BtDaemon`, `BtCapture` and `BtShell` |
| `BtCaptureProofs`, `BtShellProofs` | theorems about captures and about the shell |
| `BluetoothProofs` | theorems about `BtDaemon`, and what those of the other two say of the composition |

A composition (`Drivebase`, `LegoPortSession`, `Bluetooth`) extends its first part,
instantiates the others, and has a variable `part` that says which one moves. A part
that does not move rests in its initial state. The parts are the same system seen from
different sides; where the code has one act on another, either has the other's effect
as an action of its own (commands that are counted in the status, ports that are lost
to the daemon, a daemon that ends under a capture), possible at any time, so
no order of the two is lost. Where the order of steps in two components matters, they are in
one module: ring, callers, ticks and watchdog in `DrivebaseIpc`, the arbiter in
`BtCapture` and `BtShell`, engine, watchdog and bridge in `LegoPort`.

**DrivebaseRing** keeps `buf`, `head`, `tail`, the sequence number and the two
counters of the status. `PushVerb`, `PushStop` (`Coalesce`, or `EvictAndStore`
when full, or a plain store) and `Pop` are the three users of the lock; each is
one critical section of the code, hence one action. `reply` is what the call
returned. The refinement maps the slots from `tail` to `head` to the sequence
`queue` of `CmdQueue`.

**DrivebaseIpc** takes the ring at the level of `CmdQueue` and adds the calls
around it. A caller goes through `checked` (the unlocked test of `attached`),
then `loaded` (the epoch was read) or `bumped` and `actuated`. The daemon goes
through the parts of a tick between which it may be preempted: it blocks on the
ring's lock and on those of the motor driver. `motor` is what the H-bridges do,
`motion` what the controllers want, each with the epoch of the command that
caused it. Time is a count of watchdog periods since the last publish.
`acked` and `mark` are history: the newest STOP that has returned, and its value
when the current tick began.

**DrivebaseDaemon** has one shell, several daemon tasks (`task[t]`, one per
start, of which old ones may still be ending) and the RT thread. Its freeze
handshake is `WithdrawAck`, `RaiseFreeze`, then `Acknowledged` or `AckTimeout`;
the thread's side is `Wake`, which tests the flag and acknowledges. These two
are one step because the thread has the highest priority on a single core and
nothing between them blocks; everything that can block is a step boundary.
`phantom` is history: a port was reopened and the controllers not yet reset.
`streak` counts late ticks in a row, to compare with what the stall watchdog
counts.

**LegoSensor** has a thread per port and a set of descriptors. A port's session
is `Sync`, any number of `LookUp` / `PushData`, then `Unbind` and `PushGone`;
the steps in between (`TryBind`, `AnnounceDisplaced`, `Announce`) are the parts of
`on_sync`. Each is one critical section under `g_bind_lock`, or one unlocked
publish; `target` holds the class and the displaced port the callback carries
from one to the next. Per class there are `bound`, `bindGen`, `owner` and
`claimGen`, which are the fields of the class's state in the code, and `topic`, the
last event a subscriber saw. A descriptor opens, claims, releases and closes; a
write is `CheckWrite`, under the lock, then `Write`, after it. `granted` and
`claimed` are history: the generation and the port at the CLAIM that the
descriptor relies on.

**DrivebaseSnapshot** copies a struct word by word, so that a copy can be torn. Of the
status, `first` and `last` are words of the daemon, written under the sequence counter by
`PublishStatus`, `WriteFirst`, `WriteLast`, `PublishEnd`; `kept` stands for the words the
device keeps itself, which `Attach`, `CountCommand` and `PublishState` write without the
counter. `Detach` writes under the counter too, and may nest in a publication that is held
up. The reader's loop is as coded, with `Unread` the `~0u` it starts from and `spun` the
exit by which `continue` leaves it.

**LegoPort** has a work queue (`worker`), an engine thread with its watchdog, and the
holder of the descriptor. `Classify` is the table of the scan over the levels a
device puts on the lines; a scan is one step, of any result when the plug moved
during it (`settled`). The hand-over is `entering`, `calling` (the engine is called with
no lock held) and `applying`; `fresh` says whether the engine withdrew meanwhile,
which the code knows by a generation. The engine goes through the search, the
announcement, the streaming loop and `closing`. The bridge keeps what it does,
whether it is pinned and who may drive. `timely` and `holder` do not change in a
behaviour: whether the engine's thread keeps up with the scans, and whether the
descriptor waits for a change or drives; `Scenes` says which pairs are checked. `moved`
says that the port has changed since the descriptor's snapshot, `unseen` that the loop
of the wait has taken such a change in without keeping it: when the wait times out the
snapshot is the old one.

**LumpSync** keeps the flags and the description that `lump_parse_msg` fills, and the next
frame of the device. Any frame may be garbled (`InfoDropped`, `SearchSkips`), a device
may have more modes than the engine keeps, and it starts over after its ACK.

**BtDaemon** has the run loop, whose handlers are single steps since the run loop has
one thread; a task that calls `btsensor stop`, in two steps, for it tests before it
posts; and a task that dispatches an action, one step per lock or semaphore. `ts` is
`g_ts_state` without the two values that do not outlive a handler. `act` is the newest
action: where its waiter and its runner are and how often it was freed. Two histories
name what the code lets through: `late`, what came after the teardown had begun (a long
press, IMU_CAP mode, a rate that could not be restored), and `stray`, that the session was
opened by a hub that was off or had failed, or that a pairing has failed during it.

**BtCapture** has the application (`writer`) and the run loop (`loop`, where it is inside a
handler). The device's fields are in `dev`; each of its critical sections is a step. A
session is a header, `Payload` records and a terminator. A write looks at the ring under
the lock (`Write`) and waits after it (`Wait`). `taken`, `wire` and `mixed` are history: what
the run loop has read of a session, or that it let a finalized one go unread; what the
host received last; and that a reply, IMU_CAP mode or an eviction has disturbed the stream.

**BtShell** has the child, its pipe, the reader thread and the run loop. `pump` and
`leave` are the two posts on the run loop's list, each with the generation it is for;
`pending` is the flag that spares a second post. `told` is history: the host has its OK;
and so is `blind`, why the last visit to the output buffer came to nothing: no channel (a
shell entered from USB), a channel without an MTU, or a chunk dropped from a buffer that
one frame empties.

## Checks

| run | result | bounds |
|---|---|---|
| `drivebase` (`Drivebase`): ring | `TypeOK`, `SeqOrdered`, `DepthReported`, `StopCanLand`, refinement of `CmdQueue` hold | 4 slots (3 envelopes), 6 stores, one verb, two epochs: the indices wrap and the compaction crosses the wrap |
| ... snapshots | `SnapshotsWhole` holds | 2 publications, of the status or the state, 2 lives of a daemon |
| ... daemon | `DaemonTypeOK`, `ReclaimExclusive`, `DrivesOnFreshBaseline`, `RtContained`, `FreezeEnds`, `StopCompletes` hold | two motors, two starts, one late tick |
| ... sensor classes | `SensorTypeOK`, `BoundIsSynced`, `ClaimExclusive`, `WritesHitClaimedPort`, `TopicSettles` hold | ports A and C, a medium motor and a large motor (an unmapped device leaves its port as one that finds its class taken), 2 descriptors, 3 sessions, 2 opens |
| `ipc` (`DrivebaseIpc`) | `TypeOK`, `WatchdogCovers`, `StopSupersedes`, `StaleDetached`, `StopReachesDaemon` hold | two callers, one of them stopping; room for 2; 3 calls; 2 attaches |
| `legoport` (`LegoPortSession`) | `TypeOK`, `PinsOwned`, `NoMissedEdge`, `SupplyHeld`, `DefaultModeDescribed`, `MovingPortSettles` hold | the plug moves twice among nothing, a motor, a sensor and a light; one line error, one stall; devices of 1 to 3 modes for an engine that keeps 2, 3 announcements |
| `bluetooth` (`Bluetooth`) | `AllTypesOK`, `VisibilityHonest`, `StoppedStaysQuiet`, `ActionFreedOnce`, `OutputMoves`, `EndIsOwed`, `NoLostWakeup`, `PayloadContiguous`, `CompletedIsDrained`, `SwitchAfterReply`, `OwnExitOnly`, `UnderwayEnds` hold | two starts, one action, two links; two captures of two records, a channel, an end of the daemon; two shells, three chunks of output for a buffer of two, two channels; one reply and two frames in the arbiter |
| `two_stoppers` | `SeenNeverFalls` violated | two stopping callers |
| `detached` | `DetachedAtRest` violated | one driving caller |
| `daemon_stall` | `StallsAreConsecutive` violated | one motor, limit 3, 4 late ticks |
| `daemon_stop` | `StopIsClean` violated | one motor, two starts |
| `torn_status` (`DrivebaseSnapshot`) | `StatusOfOnePiece` violated | one reader, 2 publications |
| `supply_rail` | `SupplyEndsWithSession` violated | one port, its descriptor drives |
| `runner_dangling` (`BtDaemon`) | `RunnerNotDangling` violated | one start, one action |
| `undrained` (`BtCapture`) | `ZeroIsCleanDrain` violated | one session of one record |

The passing runs are the large ones: 359,000 distinct states in `drivebase`, 1,044,000 in
`ipc`, 799,000 in `bluetooth` and 601,000 in `legoport`, each two to three minutes with two
workers. The others stop at their counterexample, within seconds.

The bounds are enough for the cases of interest: a ring of two or three is full
after two calls, which is when STOP evicts or coalesces; three calls allow a verb
before, during and after a STOP; two attaches, starts, captures or shells allow what
an earlier one left to meet the next.  Two publications, a
detach and a second attach are enough for a reader to be overtaken at each of its words.
A plug that moves twice may come back while the first session ends. Two records against a ring of one make the writer sleep and the throttle work;
a third chunk is needed to see that the loss of an earlier one does not stop a shell;
a device with more modes than the engine keeps drops frames. A cut-off (`MaxCalls`, `MaxGen`,
`MaxStarts`, `MaxMisses`, `MaxSeq`, `MaxSyncs`, `MaxOpens`, `MaxPublish`, `MaxPlugs`, `MaxFaults`,
`MaxStalls`, `MaxRounds`, `MaxActions`, `MaxLinks` and those of the parts of `Bluetooth`) is a guard, so the model stops where the program goes on:
deadlock is not checked in the runs whose cfg says so. `StaleAge` is the ratio of
50 ms to the 25 ms of the watchdog. `Drain` is 16 in the code, never less than
what the ring holds, and so in the model.

What the less obvious properties say:

- `StopSupersedes`: when a tick begins, a STOP that has returned is behind
  every motion: after that tick's drain, no motor drives on a command stamped
  with an older epoch. With two stopping tasks it fails in general
  (`two_stoppers`), so it is stated for one, in the run and in the theorem.
- `WatchdogCovers`: while attached, the work item is armed, due, or about to be
  armed. The code gets by without holding the lock because the item is only
  cancelled by the detach that also clears `attached`.
- `ReclaimExclusive`: no tick is under way while ports are reopened. What makes
  it true is that the acknowledgement is withdrawn before the flag is raised.
- `RtContained`: an older task may still end while a new one starts, but its
  last steps no longer touch what the RT thread relies on.
- `WritesHitClaimedPort`: the port a write is about to reach is the one that was
  bound when its claim was granted. It says nothing of the session: between the
  check and the act the device may be exchanged on that port, and the code does
  not prevent that.
- `TopicSettles`: a displaced port may publish after the port that displaced it,
  because publishing takes no lock. The property says that such an event does not
  remain the last one.
- `SnapshotsWhole`: the daemon's words of a status read between two equal even counts are
  those that stand, also when a detach nests in a publication; the words the device
  keeps are written without the counter and may be older. A state overtaken by one
  publication at most is whole. The exit by `continue` is not covered: what it returns
  can be torn (`torn_status`).
- `StopCompletes`: a stop that is taken, from the state `initialising` on, brings the
  daemon down, also while it waits for a freeze to be acknowledged.
- `StopReachesDaemon`: while a STOP that has returned is unknown to the daemon, the
  daemon either learns of it, by that envelope or a later one, or is detached.
- `PinsOwned`: pins are scanned, and their owner recorded, by one of the work queue and
  the engine, although the two decide under different locks.
- `SupplyHeld`: while a synced session wants the rail, it is driven, whatever the holder
  of the descriptor does, closing included.
- `MovingPortSettles`: once the plug rests, the port comes to show it. It excepts two
  states the code does not leave by itself: a device pulled out before it speaks
  (the header search has no bound), and, with an engine that does not keep up, a
  device that talks on a port nobody was there to take (scenes with `timely` only).
- `VisibilityHonest`: the controller is told what `g_bt_state` says; an open session is one
  of a paired hub, or `stray`. The two ways a session becomes stray are in the code: a
  channel that opens when the hub is off or has failed is kept without a change of
  state (`btsensor_main.c:787`), and a failed pairing shows the failure over a session
  that is up (`:510`). The property says that there is no third.
- `StoppedStaysQuiet`: from the stop to the next start no pump runs again, and the hub is
  hidden, out of IMU_CAP mode and at its own rate, but for the ways named in `late`: neither a
  long press (`:486`) nor an action (`:902`) tests how far the teardown is, and a rate is
  restored or not.
- `OutputMoves`: buffered output of a shell is never left without a post, timer, grant or
  reader to move it, the lost-wakeup property of the two flags, but for the visits named
  in `blind`. After one that met no MTU the flag is clear, and the next chunk has the
  buffer visited; after the other two the output stays (see *What the proofs found*).
- `PayloadContiguous`: the host sees a session from header to terminator with no gap
  and nothing between, although the frame ring may drop its oldest frame: capture mode
  keeps from filling it, and telemetry stands still. It holds until the stream is `mixed`:
  a command of the host is answered, IMU_CAP mode sends, or, once the session is over and
  telemetry is back, a newer frame evicts what is left of its tail.
- `NoLostWakeup`: the writer sleeps only while the ring of its live session is full; a
  wake-up that comes between its look and its wait is kept by the semaphore.
- `CompletedIsDrained`, `ZeroIsCleanDrain`: 0 from `capture_deinit` means that the run loop
  has read every record, or that it let the session go (`LeftUnread`). The header of the
  library says the former only, which `undrained` refutes.
- `UnderwayEnds`: a teardown comes to its end by its timers if nothing else answers. A
  finalized capture that is being forwarded on an open channel, undisturbed, comes to its
  end as long as the host goes on granting frames; a host that stops granting has `on_read`
  wait for room for ever (`btsensor_capture_mode.c:217-230`).

Fairness. `DrivebaseIpc`: time passes, the LPWORK thread runs, and an attach
that has begun arms the watchdog; nothing is assumed of callers or ticks, which
may stall for ever or crash. `DrivebaseDaemon`: the scheduler runs the daemon
task and the RT thread (they sleep with timeouts and wait with bounds), nothing
is assumed of the shell or the ports. `LegoSensor`: a port's thread is scheduled,
and a session that lasts has data, because its watchdog ends one that is silent
for 600 ms; nothing is assumed of plugging, unplugging or descriptors. `LegoPort`: the
work queue, which reschedules itself, and the engine's thread run, and the loop of a
session whose device is gone ends, because its keepalives go unanswered; nothing is
assumed of the plug, the line or the descriptor. `BtDaemon`: the daemon's task is
scheduled and an armed timer fires; nothing is assumed of NSH, the button, the peer or
the controller. `BtCapture`: the run loop returns from its handlers and serves every source
that stays or keeps becoming ready (hence strong fairness of the throttle and the poll,
which go away and come back), and the stack passes on the grants of a host that keeps
granting (strong fairness of `Send`, an assumption about the host); nothing is assumed of
the application. `BtShell` has no liveness property.

## Disagreements with the documentation

1. `two_stoppers`: `output_epoch_seen` is documented as the highest STOP epoch
   acted on; two tasks that stop at once can make it fall.
2. `detached`: the watchdogs are said to guarantee motor safety; a daemon that
   resumes after the watchdog detached it drives on, unwatched, until its own
   stall watchdog ends it, and with long ticks that one may not.
3. `daemon_stall`: five *consecutive* misses are documented; the misses of a whole
   freeze are charged at once.
4. `daemon_stop`: `drivebase_daemon_stop` is documented to return 0 on a clean
   stop; the late post of an earlier daemon can answer it.
5. `supply_rail`: the supply pin is documented to last "until the session ends"; it is
   dropped when the next session is taken up, so a sensor that was pulled out leaves
      its port driven and the descriptor refused until another UART device comes.
6. `torn_status`: a reader of the status is said to retry "until seq is even and unchanged
   across the memcpy" (`stm32_drivebase_chardev.c:25-26`); `continue` in its loop goes to the
   condition, which compares the odd count just read with the odd count its torn copy
   ended with, and ends the loop. One reader and one daemon suffice.
7. `runner_dangling`: "a timed-out waiter cannot leave the runner with a dangling pointer"
   (`btsensor_main.c:877-879`); the runner posts the action's semaphore after it has
   released the lock, when the waiter may have freed the action (`:1047`).
8. `undrained`: `capture_deinit` is documented to return 0 "on a clean drain"
   (`capture.h:152-158`); a finalized session is reset to IDLE by any close of the reader
   (`stm32_btcap_chardev.c:341-344`), hence also when the Bluetooth daemon ends in capture
   mode or its MODE CAPTURE was refused just before the session was finalized.

Three more were met without a run of their own; the first two are the exceptions that
`PayloadContiguous` and `OutputMoves` name, and the third concerns only how soon an end is
seen:

- "the BT byte stream contains only the capture framing" (`btsensor_capture_mode.c:316-318`):
  commands are parsed and answered during a capture, and telemetry resumes in
  `cap_exit_locked` with the tail of the session still queued, which it may evict
  (`btsensor_tx.c:316-323`).
- A stale `tx_request_pending` that "would silently block draining" (`btsensor_shell.c:1073-1075`)
  is guarded against where no MTU is known, but left by a visit without a channel, and by
  the dropped chunk below.
- An abort wakes the poller with POLLERR and POLLHUP (`stm32_btcap_chardev.c:306-310`), for "the
  reader so it can post BTAB" (`:294`); the run loop dispatches POLLIN only, and the abort is
  seen when that comes.

## Proofs

Every safety invariant and action property of the passing runs, and the refinement of
`CmdQueue`, is a theorem for every value of the constants:

| module | theorems about |
|---|---|
| `DrivebaseProofs`, on `DrivebaseDaemonProofs` and `LegoSensorProofs` | `TypeOK`, `SeqOrdered`, `StopCanLand`, `DepthReported`, `RefinesQueue`, `SnapshotsWhole`, `DaemonTypeOK`, `ReclaimExclusive`, `DrivesOnFreshBaseline`, `RtContained`, `SensorTypeOK`, `BoundIsSynced`, `ClaimExclusive`, `WritesHitClaimedPort` |
| `DrivebaseIpcProofs` | `TypeOK`, `WatchdogCovers`, `StopSupersedes` (one stopping task) |
| `LegoPortProofs` | `TypeOK`, `PinsOwned`, `NoMissedEdge`, `SupplyHeld`, `DefaultModeDescribed` |
| `BluetoothProofs`, on `BtCaptureProofs` and `BtShellProofs` | `AllTypesOK`, `ActionFreedOnce`, `StoppedStaysQuiet`, `VisibilityHonest`, `NoLostWakeup`, `CompletedIsDrained`, `PayloadContiguous`, `EndIsOwed`, `OutputMoves`, `SwitchAfterReply`, `OwnExitOnly` |

The condition in brackets is a hypothesis of the theorem, the value the run gives to
`Stoppers`; for two stopping tasks the property is false of the code (`two_stoppers`).
Otherwise the theorems assume what the modules' `ASSUME`s say of the constants, which
TLC evaluates in every run; a part without an `ASSUME` of its own has an assumption that
its theorems take as a hypothesis and the composition's `ASSUME` contains.

How each goes:

- **Ring.** An index is followed from `tail`: each store goes behind the newest, and the
  compaction moves a block by one slot without changing its order. `TypeOK` needs the
  order with it, since a pop returns what the tail slot holds. For the refinement the ring
  is read as a list, `Listed(buf, tail, head)`, and one lemma says what each operation does
  to the list: a store appends (`StoreAppends`), a pop takes the head (`PopTakesHead`), a
  coalesced STOP replaces the last (`CoalesceReplacesLast`), the compaction removes one
  position (`ShiftRemoves`), which is that of the oldest verb (`VictimIsOldest`).
- **Snapshots.** The sequence is odd exactly while the daemon is inside a publish, a detach
  adds two; so a reader whose count is even and unchanged has seen no write of the daemon's
  words (`StatusUnderSeq`). The buffer a reader took is written only by the second
  publication after (`StateInSlot`).
- **Command path.** `WatchdogCovers` needs that a pending re-arming belongs to the single
  LPWORK thread. `StopSupersedes`: every epoch in the ring, in calls and in motions is
  bounded by `output_epoch`, the STOPs in the ring are in the order of their epochs, and
  the newest STOP that returned is either known to the daemon or still queued, before
  which no later-stamped drive counts.
- **Daemon.** Only the newest task is between its creation and the point where it
  publishes its end; where the RT thread may be at each point of that task; an
  acknowledgement seen while waiting was given to this freeze; a phantom baseline means a
  recovery is under way or still pending. `TypeOK` has one conjunct that no single step
  shows, the bound of `teardown_done`: it never exceeds the number of tasks that are done.
- **Sensor classes.** The argument of the generations: no grant is younger than its
  binding, a grant of the current generation belongs to the recorded owner, and the port a
  grant names is bound as long as its generation is current, since every change of a
  binding increments it. The class a callback carries is the class of its device.
- **Ports.** The invariant follows a hand-over: a port that is handed over has a worker
  with nothing under way; while the engine is idle its handoff is registered, and taken
  exactly when the port was given; in a session it was taken and the port is still given;
  and once the engine has withdrawn, a call still under way is not applied. With it: the
  streaks of a rescan stay below their limit, and posts of the wakeup semaphore are those
  of the watchdog and of one handoff.
- **Announcement.** The flags are tied to the fields they stand for: MODES to a number of
  modes, NAME at mode 0 to the name of mode 0, and FORMAT, which the engine sets last, to
  name and format of mode 0; the ACK needs all of them.
- **Bluetooth daemon.** An action is freed by who finds the other through with it, and
  `done` and `gaveUp` are set under one lock. The invariant of `StoppedStaysQuiet` gives for
  each stage what is down by then, that pumps that are down start neither by an action
  nor by what IMU_CAP mode restores (`PumpsDown`), and who answers for a hub that can be found
  (`Hidden`) and a rate of IMU_CAP mode (`OwnRate`); that of `VisibilityHonest` is that an open
  channel is one the daemon knows of.
- **Captures** (`CInv`). Who may touch the session in each state of the writer and of the
  run loop: a session that is not registered has no
  data; a writer that sleeps has no post
  waiting and its ring is full, one that is about to wait has a post waiting if its ring is
  not, so the reader that makes room is the one that posts (`Awake`);
  a session counts as complete only in the step that finds its ring empty; and the arbiter
  has asked for a grant whenever it holds something. For `PayloadContiguous` a second
  invariant, `Stream`, says that, until the stream is mixed, what the host has received, what
  the arbiter queues and what the run loop holds are, in this order, the session's items
  with none missing.
- **Shell** (`SInv`, and `Waking` for `OutputMoves`). Each reader, post and timer carries a generation, and those of the
  current one are tied to where the run loop is: a reader that is done has posted the end
  or there is somebody else who will; `pending` with data means that a post, a timer or a
  request for a grant exists, or that the last visit was blind; a post of an older generation can only be dropped.
- **Composition.** `PartsAssumed` derives the parts' assumptions from those of `Bluetooth`;
    `DaemonBehaves`, `ShellBehaves` and `CaptureBehaves` (and in `DrivebaseProofs`
  `DriveBehavesAsRing`, `DaemonBehaves`, `SensorBehaves`) say that a behaviour of the whole is
  one of each part, after which the parts' theorems are cited through their instances.

### What the proofs found

No invariant for `OutputMoves` was inductive for a shell buffer of a single frame until the
visit it calls `overrun` was named, and output does stay there.
`btsensor_shell_on_can_send_now` clears
`tx_request_pending` and sends with the lock released. If `tx_buf` is full with just
that frame, the reader drops what it reads meanwhile but, as `tx_len > 0`, sets the
flag and posts (`btsensor_shell.c:383`). The send then empties the buffer and leaves the
flag; the posted pump arms its timer, which finds no data and asks for nothing
(`:451`). From then on every append finds the flag set and does not post: the output
of the shell has stopped, though `Kconfig:102` says that a reader that drops a tail
leaves the session usable. It takes
`APP_BTSENSOR_SHELL_TX_BUF` (256 to 32768, default 4096) no larger than
`APP_BTSENSOR_SHELL_TX_FRAME_BYTES` (64 to 1016, default 256) and than the channel's
frame; with the defaults there is always a rest that keeps the pump going, which is why
the run, with `OutRoom` 2, has no `overrun`: the theorem is for any `OutRoom`.

### Only model-checked

The liveness properties `StaleDetached`, `StopReachesDaemon`, `FreezeEnds`, `StopCompletes`,
`TopicSettles`, `MovingPortSettles` and `UnderwayEnds`: they rest on fairness, which TLAPS
does not reach (ENABLED). The violated properties are refuted by TLC.

## Not modelled

The `components` of `PROJECT.json` give the reason for each. In short: register drivers
(IMU, sound, power, battery, storage, LEDs), text parsing and printing, numeric filters
and the trajectory arithmetic, clients of the modelled devices (linetrace, the
command line tools, the host viewers), and BTstack itself, which is external and
modelled by the events it delivers.

Some more of what the code does was met while modelling and has no run, because no
document was found that says otherwise or because a property of its own would repeat one
above:

- *Daemon.* A stop or an action posted before the run loop is initialised is dropped
  (`btsensor_main.c:652`): the stop answers success, the action's waiter times out.
- *Capture.* MODE CAPTURE does not test for IMU_CAP mode, and its refusal closes, hence
  aborts, a session that was registered in the meantime; `capture_mode_deinit` is called
    by nobody.
- *Shell.* Telemetry queued behind the OK delays the switch, and what the host types
  in that time is dropped; `imu on` from USB while the shell runs mixes telemetry into it;
  the failure path waits for its child and may block (`btsensor_shell.c:981`).
- *Port.* The counter wakes one waiter, not all; a watchdog post that arrives at the
  end of a session makes a wait of the next one return at once; `lump_attach` may call
  `on_sync` twice, or for a session that has just ended; `lump_select_mode` and
  `lump_send_data` test the session and queue their request under different locks; a
    lost FORMAT leaves a mode other than 0 without values, and the mode
  extension of a CMD EXT_MODE frame lasts until the next such frame.
- *Snapshot.* A publish held up across a detach leaves its words in the detached device,
  against the comment that such a device "reads as a zeroed snapshot" (`:531`), which
  `Detach` itself meets; a state overtaken by two publications may be torn.
- *Drivebase.* The motor ports are registered at attach and not updated by a recovery
  (`stm32_drivebase_chardev.c:666`); two shells may both start a daemon
    (`drivebase_daemon.c:709`); commands queued before a detach are served by the next daemon,
  as `stm32_drivebase_chardev.c:536-537` says.

## Plan

Done: the drivebase (`DrivebaseRing`, `DrivebaseSnapshot`, `DrivebaseIpc`, `DrivebaseDaemon`), the
ports and sensor classes (`LegoPort`, `LumpSync`, `LegoSensor`), the Bluetooth daemon with its
captures and its shell (`BtTx`, `BtDaemon`, `BtCapture`, `BtShell`). Next, in this order:

1. Requests of a session: mode selection, writes and the callbacks to `LegoSensor`, whose
   `Sync` and `Unbind` they are, so that the two compose.
2. The safety lemmas behind the liveness properties: what is enabled in each state that
   must be left, as invariants, so that only the fairness argument stays with TLC.
3. `StopSupersedes` for any number of stopping tasks, in the weaker form that holds of them.
4. The integer arithmetic of the trajectory, as operators against a reference over
   bounded inputs.
5. Small machines: the charger's timeout, sound playback.
