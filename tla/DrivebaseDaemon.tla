-------------------------- MODULE DrivebaseDaemon ---------------------------
(***************************************************************************)
(* The life of the drivebase daemon: `drivebase start' and `stop', the     *)
(* daemon task, its RT thread, and the recovery of a lost motor port.      *)
(*                                                                         *)
(*   - one shell starts and stops the daemon.  A start is answered when    *)
(*     the new task has loaded its configuration (the command polls the    *)
(*     status for a second), a stop when teardown_done is posted or after  *)
(*     a timeout.  A daemon may also end by itself, so the tail of an old  *)
(*     task may overlap the beginning of a new one;                        *)
(*   - the RT thread ticks.  A tick is not atomic: it blocks on the locks  *)
(*     of the motor driver while the daemon task runs;                     *)
(*   - to reopen a lost port the task freezes the RT thread: it withdraws  *)
(*     the acknowledgement, raises io_frozen and waits for the thread to   *)
(*     acknowledge at its freeze gate, for a bounded time.                 *)
(*                                                                         *)
(* /dev/drivebase and the motors are in DrivebaseIpc.                      *)
(***************************************************************************)
EXTENDS Naturals, FiniteSets

CONSTANTS
  Sides,        \* the motors, DB_SIDE_LEFT and DB_SIDE_RIGHT
  StallLimit,   \* DAEMON_STALL_LIMIT
  MaxStarts,    \* bound: daemon tasks created
  MaxMisses     \* bound: late ticks counted

DaemonAssumption ==
  /\ StallLimit \in Nat /\ StallLimit >= 1
  /\ MaxStarts \in Nat /\ MaxMisses \in Nat

VARIABLES
  state,          \* the state drivebase_daemon_state reports
  running,        \* cleared to ask for a teardown
  posted,         \* the semaphore teardown_done
  shell,          \* what the shell is doing
  starts,         \* daemon tasks created, bounded by MaxStarts
  task,           \* where each daemon task is
  settingsFrozen, \* db_settings_freeze
  initialised,    \* g_initialised: the motor ports are open
  attached,       \* the chardev handler is attached
  rt,             \* where the RT thread is
  frozen,         \* g_motor_io_frozen
  rtIdle,         \* g_rt_idle, the acknowledgement
  pending,        \* g_reclaim_request
  stale,          \* the sides whose CLAIM a disconnect has invalidated
  phantom,        \* a side was reopened and the encoder baseline is not reset
  misses,         \* deadline_miss_count, bounded by MaxMisses
  lastMisses,     \* last_seen_misses
  consecutive,    \* consecutive_misses
  streak          \* late ticks in a row up to now, counted up to StallLimit

lifeVars == <<state, running, posted, starts, settingsFrozen, initialised, attached>>
freezeVars == <<frozen, rtIdle, pending, stale, phantom>>
stallVars == <<misses, lastMisses, consecutive, streak>>
vars == <<state, running, posted, shell, starts, task, settingsFrozen,
          initialised, attached, rt, frozen, rtIdle, pending, stale, phantom,
          misses, lastMisses, consecutive, streak>>

Tasks == 1..MaxStarts

\* daemon_global_alloc and the static data of drivebase_motor.c
Init ==
  /\ state = "stopped"
  /\ running = FALSE
  /\ posted = 0
  /\ shell = "ready"
  /\ starts = 0
  /\ task = [t \in Tasks |-> "none"]
  /\ settingsFrozen = FALSE
  /\ initialised = FALSE
  /\ attached = FALSE
  /\ rt = "none"
  /\ frozen = FALSE
  /\ rtIdle = FALSE
  /\ pending = {}
  /\ stale = {}
  /\ phantom = FALSE
  /\ misses = 0
  /\ lastMisses = 0
  /\ consecutive = 0
  /\ streak = 0

-----------------------------------------------------------------------------
(* The shell.  Variants named ...Mutant are faults a property must notice. *)

\* drivebase_daemon_start tests the state before it takes the lock; another
\* state than "stopped" is refused with -EALREADY and nothing changes.
StartCheck ==
  /\ shell = "ready"
  /\ state = "stopped"
  /\ starts < MaxStarts
  /\ shell' = "starting"
  /\ UNCHANGED <<lifeVars, freezeVars, stallVars, task, rt>>

\* A post left over from an earlier daemon is drained, then the task is made.
StartCreate ==
  /\ shell = "starting"
  /\ shell' = "polling"
  /\ posted' = 0
  /\ starts' = starts + 1
  /\ task' = [task EXCEPT ![starts + 1] = "created"]
  /\ UNCHANGED <<state, running, settingsFrozen, initialised, attached,
                 freezeVars, stallVars, rt>>

StartReturns ==
  /\ shell = "polling"
  /\ task[starts] \notin {"created", "loading"}
  /\ shell' = "ready"
  /\ UNCHANGED <<lifeVars, freezeVars, stallVars, task, rt>>

StopRequest ==
  /\ shell = "ready"
  /\ state # "stopped"
  /\ running' = FALSE
  /\ shell' = "stopping"
  /\ UNCHANGED <<state, posted, starts, settingsFrozen, initialised, attached,
                 freezeVars, stallVars, task, rt>>

StopReturnsMutant ==
  /\ shell = "stopping"
  /\ shell' = "ready"
  /\ posted' = posted - 1
  /\ UNCHANGED <<state, running, starts, settingsFrozen, initialised, attached,
                 freezeVars, stallVars, task, rt>>

\* sem_timedwait: posted, or -ETIMEDOUT.
StopReturns ==
  /\ shell = "stopping"
  /\ shell' = "ready"
  /\ posted' = IF posted > 0 THEN posted - 1 ELSE posted
  /\ UNCHANGED <<state, running, starts, settingsFrozen, initialised, attached,
                 freezeVars, stallVars, task, rt>>

Shell == StartCheck \/ StartCreate \/ StartReturns \/ StopRequest \/ StopReturns

-----------------------------------------------------------------------------
(* The daemon task, daemon_task_main *)

\* Task t is at one program point and moves to another.
At(t, from, to) == task[t] = from /\ task' = [task EXCEPT ![t] = to]

NoFreeze == frozen' = FALSE /\ rtIdle' = FALSE /\ pending' = {}

\* Settings are reset to their defaults, then read from the file.
LoadSettings(t) ==
  /\ At(t, "created", "loading")
  /\ settingsFrozen' = FALSE
  /\ UNCHANGED <<state, running, posted, starts, initialised, attached, shell,
                 freezeVars, stallVars, rt>>

Initialise(t) ==
  /\ At(t, "loading", "probing")
  /\ running' = TRUE
  /\ state' = "initialising"
  /\ lastMisses' = 0
  /\ consecutive' = 0
  /\ UNCHANGED <<posted, starts, settingsFrozen, initialised, attached, shell,
                 freezeVars, rt, misses, streak>>

\* drivebase_motor_init, which refuses a second initialisation, and the reset
\* of the controllers.
ProbeMotors(t) ==
  /\ \/ At(t, "probing", "attaching") /\ ~initialised
        /\ initialised' = TRUE /\ stale' = {} /\ phantom' = FALSE /\ NoFreeze
     \/ At(t, "probing", "failing") /\ ~initialised
        /\ NoFreeze /\ UNCHANGED <<initialised, stale, phantom>>
     \/ At(t, "probing", "failing") /\ initialised
        /\ UNCHANGED <<initialised, freezeVars>>
  /\ UNCHANGED <<state, running, posted, starts, settingsFrozen, attached, shell,
                 stallVars, rt>>

\* db_settings_freeze, then db_chardev_handler_attach, which may fail.
AttachHandler(t) ==
  /\ \/ At(t, "attaching", "launching") /\ attached' = TRUE
     \/ At(t, "attaching", "undoing") /\ UNCHANGED attached
  /\ settingsFrozen' = TRUE
  /\ UNCHANGED <<state, running, posted, starts, initialised, shell,
                 freezeVars, stallVars, rt>>

\* The RT thread is started unless a stop came first.
LaunchRt(t) ==
  /\ \/ At(t, "launching", "joining") /\ ~running
        /\ state' = "teardown" /\ UNCHANGED rt
     \/ At(t, "launching", "launched") /\ running
        /\ rt' = "asleep" /\ UNCHANGED state
     \/ At(t, "launching", "undoing") /\ running
        /\ UNCHANGED <<state, rt>>
  /\ misses' = 0
  /\ streak' = 0
  /\ UNCHANGED <<running, posted, starts, settingsFrozen, initialised, attached,
                 shell, freezeVars, lastMisses, consecutive>>

EnterLoop(t) ==
  /\ At(t, "launched", "looping")
  /\ state' = "running"
  /\ UNCHANGED <<running, posted, starts, settingsFrozen, initialised, attached,
                 shell, freezeVars, stallVars, rt>>

\* A pass of the idle loop: sleep, recover what was lost, report.  A jitter reset
\* the shell asked for is applied with the report.
BeginPass(t) ==
  /\ At(t, "looping", "sleeping")
  /\ running
  /\ UNCHANGED <<lifeVars, shell, freezeVars, stallVars, rt>>

NothingLost(t) ==
  /\ At(t, "sleeping", "reporting")
  /\ pending = {}
  /\ UNCHANGED <<lifeVars, shell, freezeVars, stallVars, rt>>

Report(t) ==
  /\ At(t, "reporting", "looping")
  /\ misses' \in {misses, 0}
  /\ UNCHANGED <<lifeVars, shell, freezeVars, rt, lastMisses, consecutive, streak>>

LeaveLoop(t) ==
  /\ At(t, "looping", "joining")
  /\ ~running
  /\ state' = "teardown"
  /\ UNCHANGED <<running, posted, starts, settingsFrozen, initialised, attached,
                 shell, freezeVars, stallVars, rt>>

-----------------------------------------------------------------------------
(* daemon_try_reclaim *)

WithdrawAckMutant(t) ==
  /\ At(t, "sleeping", "freezing")
  /\ pending # {}
  /\ UNCHANGED <<lifeVars, shell, rtIdle, frozen, pending, stale, phantom,
                 stallVars, rt>>

WithdrawAck(t) ==
  /\ At(t, "sleeping", "freezing")
  /\ pending # {}
  /\ rtIdle' = FALSE
  /\ UNCHANGED <<lifeVars, shell, frozen, pending, stale, phantom, stallVars, rt>>

RaiseFreeze(t) ==
  /\ At(t, "freezing", "waiting")
  /\ frozen' = TRUE
  /\ UNCHANGED <<lifeVars, shell, rtIdle, pending, stale, phantom, stallVars, rt>>

\* The wait for the acknowledgement is bounded and ends when a stop comes.
Acknowledged(t) ==
  /\ At(t, "waiting", "reclaiming")
  /\ running
  /\ rtIdle
  /\ UNCHANGED <<lifeVars, shell, freezeVars, stallVars, rt>>

AckTimeoutMutant(t) ==
  /\ At(t, "waiting", "reporting")
  /\ UNCHANGED <<lifeVars, shell, freezeVars, stallVars, rt>>

AckTimeoutNeverMutant(t) ==
  /\ At(t, "waiting", "reporting")
  /\ rtIdle
  /\ frozen' = FALSE
  /\ UNCHANGED <<lifeVars, shell, rtIdle, pending, stale, phantom, stallVars, rt>>

AckTimeout(t) ==
  /\ At(t, "waiting", "reporting")
  /\ frozen' = FALSE
  /\ UNCHANGED <<lifeVars, shell, rtIdle, pending, stale, phantom, stallVars, rt>>

\* drivebase_motor_reclaim for the requested sides, of which some succeed,
\* some fail and, when a stop comes, some are skipped.
Reclaim(t) ==
  /\ At(t, "reclaiming", "rebasing")
  /\ \E reopened \in SUBSET pending :
       /\ pending' = pending \ reopened
       /\ stale' = stale \ reopened
       /\ phantom' = (phantom \/ reopened # {})
  /\ UNCHANGED <<lifeVars, shell, frozen, rtIdle, stallVars, rt>>

RebaseMutant(t) ==
  /\ At(t, "rebasing", "thawing")
  /\ UNCHANGED <<lifeVars, shell, freezeVars, stallVars, rt>>

\* db_drivebase_reset once both sides are healthy.
Rebase(t) ==
  /\ At(t, "rebasing", "thawing")
  /\ phantom' = (phantom /\ pending # {})
  /\ UNCHANGED <<lifeVars, shell, frozen, rtIdle, pending, stale, stallVars, rt>>

Thaw(t) ==
  /\ At(t, "thawing", "reporting")
  /\ frozen' = FALSE
  /\ UNCHANGED <<lifeVars, shell, rtIdle, pending, stale, phantom, stallVars, rt>>

-----------------------------------------------------------------------------
(* Teardown and the failure exits of daemon_task_main *)

JoinRtMutant(t) ==
  /\ At(t, "joining", "detaching")
  /\ UNCHANGED <<lifeVars, shell, freezeVars, stallVars, rt>>

\* db_rt_stop joins the RT thread if it was started.
JoinRt(t) ==
  /\ At(t, "joining", "detaching")
  /\ rt \in {"none", "exited"}
  /\ rt' = "none"
  /\ UNCHANGED <<lifeVars, shell, freezeVars, stallVars>>

DetachHandler(t) ==
  /\ At(t, "detaching", "closing")
  /\ attached' = FALSE
  /\ UNCHANGED <<state, running, posted, starts, settingsFrozen, initialised,
                 shell, freezeVars, stallVars, rt>>

\* drivebase_motor_deinit
CloseMotors(t) ==
  /\ At(t, "closing", "ending")
  /\ initialised' = FALSE
  /\ NoFreeze
  /\ UNCHANGED <<state, running, posted, starts, settingsFrozen, attached, shell,
                 stale, phantom, stallVars, rt>>

\* fail_chardev, fail_battery and fail_motor.
UndoStart(t) ==
  /\ At(t, "undoing", "failing")
  /\ attached' = FALSE
  /\ initialised' = FALSE
  /\ NoFreeze
  /\ UNCHANGED <<state, running, posted, starts, settingsFrozen, shell, stale,
                 phantom, stallVars, rt>>

\* The state is published before teardown_done is posted.
ReportStopped(t) ==
  /\ \/ At(t, "ending", "posting") /\ UNCHANGED running
     \/ At(t, "failing", "posting") /\ running' = FALSE
  /\ state' = "stopped"
  /\ UNCHANGED <<posted, starts, settingsFrozen, initialised, attached, shell,
                 freezeVars, stallVars, rt>>

PostTeardown(t) ==
  /\ At(t, "posting", "done")
  /\ posted' = posted + 1
  /\ UNCHANGED <<state, running, starts, settingsFrozen, initialised, attached,
                 shell, freezeVars, stallVars, rt>>

Task(t) ==
  \/ LoadSettings(t) \/ Initialise(t) \/ ProbeMotors(t) \/ AttachHandler(t)
  \/ LaunchRt(t) \/ EnterLoop(t) \/ LeaveLoop(t)
  \/ BeginPass(t) \/ NothingLost(t) \/ Report(t)
  \/ WithdrawAck(t) \/ RaiseFreeze(t) \/ Acknowledged(t) \/ AckTimeout(t)
  \/ Reclaim(t) \/ Rebase(t) \/ Thaw(t)
  \/ JoinRt(t) \/ DetachHandler(t) \/ CloseMotors(t) \/ UndoStart(t)
  \/ ReportStopped(t) \/ PostTeardown(t)

-----------------------------------------------------------------------------
(* The RT thread, db_rt_thread and rt_tick_cb *)

Capped(n) == IF n > StallLimit THEN StallLimit ELSE n

\* record_jitter, then the test of io_frozen and the acknowledgement.  The two
\* are adjacent and the thread has priority 220 on a single core, so the daemon
\* task (priority 100) does not run in between.
Wake ==
  /\ rt = "asleep"
  /\ \/ misses < MaxMisses /\ misses' = misses + 1 /\ streak' = Capped(streak + 1)
     \/ misses' = misses /\ streak' = 0
  /\ rt' = IF frozen THEN "gate" ELSE "ticking"
  /\ rtIdle' = (rtIdle \/ frozen)
  /\ UNCHANGED <<lifeVars, shell, task, frozen, pending, stale, phantom,
                 lastMisses, consecutive>>

\* The freeze gate feeds the kernel's watchdog, which may block, and honours a
\* stop.
Gate ==
  /\ rt = "gate"
  /\ rt' = IF running THEN "asleep" ELSE "exited"
  /\ UNCHANGED <<lifeVars, shell, task, freezeVars, stallVars>>

\* The rest of a tick: use of a lost port requests its recovery, then the stall
\* watchdog counts the late ticks since the last time it looked.
Tick ==
  /\ rt = "ticking"
  /\ \E lost \in SUBSET stale : pending' = pending \cup lost
  /\ consecutive' = IF misses > lastMisses
                    THEN Capped(consecutive + (misses - lastMisses)) ELSE 0
  /\ lastMisses' = misses
  /\ running' = (running /\ ~(misses > lastMisses /\ consecutive' = StallLimit))
  /\ rt' = IF running' THEN "asleep" ELSE "exited"
  /\ UNCHANGED <<state, posted, starts, settingsFrozen, initialised, attached,
                 shell, task, frozen, rtIdle, stale, phantom, misses, streak>>

Rt == Wake \/ Gate \/ Tick

\* A LUMP port disconnects: the CLAIM of the daemon's descriptor is stale.
PortLost(side) ==
  /\ initialised
  /\ side \notin stale
  /\ stale' = stale \cup {side}
  /\ UNCHANGED <<lifeVars, shell, task, rt, frozen, rtIdle, pending, phantom,
                 stallVars>>

Next ==
  \/ Shell
  \/ \E t \in Tasks : Task(t)
  \/ Rt
  \/ \E side \in Sides : PortLost(side)

Spec == Init /\ [][Next]_vars

\* The scheduler runs the daemon task and the RT thread.
FairSpec == Spec /\ (\A t \in Tasks : WF_vars(Task(t))) /\ WF_vars(Rt)

-----------------------------------------------------------------------------
(* Properties *)

TaskPoints == {"none", "created", "loading", "probing", "attaching", "launching",
               "launched", "looping", "sleeping", "reporting", "freezing",
               "waiting", "reclaiming", "rebasing", "thawing", "joining",
               "detaching", "closing", "undoing", "failing", "ending", "posting", "done"}

TypeOK ==
  /\ state \in {"stopped", "initialising", "running", "teardown"}
  /\ running \in BOOLEAN
  /\ posted \in 0..MaxStarts
  /\ shell \in {"ready", "starting", "polling", "stopping"}
  /\ starts \in 0..MaxStarts
  /\ task \in [Tasks -> TaskPoints]
  /\ settingsFrozen \in BOOLEAN
  /\ initialised \in BOOLEAN
  /\ attached \in BOOLEAN
  /\ rt \in {"none", "asleep", "gate", "ticking", "exited"}
  /\ frozen \in BOOLEAN
  /\ rtIdle \in BOOLEAN
  /\ pending \subseteq Sides
  /\ stale \subseteq Sides
  /\ phantom \in BOOLEAN
  /\ misses \in 0..MaxMisses
  /\ lastMisses \in 0..MaxMisses
  /\ consecutive \in 0..StallLimit
  /\ streak \in 0..StallLimit

\* While the daemon task reopens motor ports and resets the controllers, the RT
\* thread is not inside a tick (rt_tick_cb's freeze gate, daemon_try_reclaim),
\* also when an earlier freeze timed out and was answered late.
ReclaimExclusive ==
  \A t \in Tasks : task[t] \in {"reclaiming", "rebasing"} => rt # "ticking"

\* A tick that drives both motors uses an encoder baseline taken after the last
\* reopening (db_drivebase_update coasts while a recovery is pending).
DrivesOnFreshBaseline == rt = "ticking" /\ pending = {} => ~phantom

\* The RT thread only runs while settings are frozen, the motors are open and
\* the handler is attached, whatever the tail of an older task still does
\* (db_settings_freeze, the teardown order of daemon_task_main).
RtContained ==
  rt \in {"asleep", "gate", "ticking"} => settingsFrozen /\ initialised /\ attached

\* A freeze ends, so a lost recovery never wedges the RT thread.
FreezeEnds == frozen ~> ~frozen

\* A daemon asked to stop, while it comes up or later, or stopped by the stall watchdog,
\* reaches "stopped".
StopCompletes == (state \in {"initialising", "running"} /\ ~running) ~> state = "stopped"

\* The stall watchdog stops the daemon after StallLimit deadline misses in a
\* row (docs/en/drivers/drivebase.md:250).
StallsAreConsecutive ==
  [][consecutive' = StallLimit /\ consecutive # StallLimit => streak = StallLimit]_vars

\* A stop that returns 0 leaves no daemon behind (drivebase_daemon.h:52).
StopIsClean == [][shell = "stopping" /\ posted' # posted => state = "stopped"]_vars
=============================================================================
