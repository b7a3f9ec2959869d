---------------------------- MODULE DrivebaseIpc ----------------------------
(***************************************************************************)
(* /dev/drivebase between its callers, the daemon and the LPWORK watchdog. *)
(*                                                                         *)
(*   - callers (any task) queue drive verbs, or STOP: bump output_epoch,   *)
(*     then stop the motors in the caller's context, then queue the STOP,  *)
(*     three critical sections with gaps in which others run;              *)
(*   - the daemon attaches and arms the watchdog, then ticks: drain the    *)
(*     ring, drop what an already picked-up STOP superseded, update the    *)
(*     motors, publish.  It may be torn down or die at any point;          *)
(*   - the watchdog detaches a daemon that has not published for           *)
(*     DB_STALE_THRESHOLD_MS and stops the motors.                         *)
(*                                                                         *)
(* A tick is not atomic: it blocks on producer_lock and on the locks of    *)
(* the motor driver, and lower-priority tasks run meanwhile.  Time is a    *)
(* count of watchdog periods since the last publish.  The recovery of a    *)
(* lost motor port by the daemon is in DrivebaseDaemon.                    *)
(***************************************************************************)
EXTENDS EnvelopeQueue, FiniteSets

CONSTANTS
  Users,      \* tasks that call the device
  Stoppers,   \* those of them that issue STOP
  Verbs,      \* the other commands: "DRIVE" or commands that start no motion
  Policies,   \* on_completion values: "coast", "brake", "hold"
  Capacity,   \* envelopes the ring holds, DB_CMD_RING_DEPTH - 1
  Drain,      \* envelopes picked up per tick
  MaxCalls,   \* bound: calls made
  MaxGen      \* bound: attaches

Drive == "DRIVE"

\* DB_STALE_THRESHOLD_MS in periods of DB_WATCHDOG_PERIOD_MS
StaleAge == 2

ASSUME UsersAssumption == Stoppers \subseteq Users
ASSUME VerbsAssumption == Stop \notin Verbs
ASSUME PoliciesAssumption ==
         "coast" \in Policies /\ Policies \subseteq {"coast", "brake", "hold"}
ASSUME CapacityAssumption == Capacity \in Nat /\ Capacity >= 1
ASSUME DrainAssumption == Drain \in Nat /\ Drain >= Capacity
ASSUME BoundsAssumption == MaxCalls \in Nat /\ MaxGen \in Nat

VARIABLES
  ring,       \* the queued envelopes, oldest first
  epoch,      \* output_epoch
  attached,
  policy,     \* default_on_completion
  age,        \* watchdog periods since last_publish_ticks, up to StaleAge
  timer,      \* the watchdog work item: "off", "armed" or "due"
  rearming,   \* the LPWORK thread is between unlock and db_arm_watchdog
  call,       \* per user, the call it is in
  calls,      \* calls made, bounded by MaxCalls
  dpc,        \* where the daemon is
  drained,    \* envelopes picked up in this tick
  seen,       \* output_epoch_seen of the daemon's handler
  motion,     \* what the daemon's controllers do
  motor,      \* what the H-bridges do
  gen,        \* attaches so far, bounded by MaxGen
  acked,      \* highest epoch of a STOP that returned during this attachment
  mark        \* acked when the current tick began

kernelVars == <<epoch, attached, policy, age, timer, rearming>>
daemonVars == <<dpc, drained, seen, motion, gen, mark>>
vars == <<ring, epoch, attached, policy, age, timer, rearming, call, calls,
          dpc, drained, seen, motion, motor, gen, acked, mark>>

\* A motion, of the controllers or of the motors; a drive remembers the
\* epoch its command was stamped with.  The on_completion of a verb is chosen
\* when the drive completes (Update), so only a STOP carries a policy.
Rest(p) == [kind |-> p, epoch |-> 0]
Driving(e) == [kind |-> "drive", epoch |-> e]

Env(k, e, p) == [kind |-> k, epoch |-> e, policy |-> p]
NoCall == [at |-> "idle", kind |-> Stop, epoch |-> 0, policy |-> "coast"]

Init ==
  /\ ring = <<>>
  /\ epoch = 0
  /\ attached = FALSE
  /\ policy = "coast"
  /\ age = 0
  /\ timer = "off"
  /\ rearming = FALSE
  /\ call = [u \in Users |-> NoCall]
  /\ calls = 0
  /\ dpc = "down"
  /\ drained = 0
  /\ seen = 0
  /\ motion = Rest("coast")
  /\ motor = Rest("coast")
  /\ gen = 0
  /\ acked = 0
  /\ mark = 0

-----------------------------------------------------------------------------
(* The kernel's helpers *)

\* db_emergency_actuate: BRAKE and HOLD brake, COAST coasts.
Emergency(p) == Rest(IF p = "coast" THEN "coast" ELSE "brake")

\* db_detach_locked.  The ring and output_epoch survive.  The age of a detached
\* device is not looked at; it is kept at 0.
Detached ==
  /\ attached' = FALSE
  /\ age' = 0
  /\ timer' = "off"
  /\ acked' = 0
  /\ UNCHANGED <<epoch, policy>>

\* Variants named ...Mutant are faults a property must notice.

StaleMutant == age > StaleAge
Stale == age >= StaleAge

HasRoomMutant == Len(ring) <= Capacity
HasRoom == Len(ring) < Capacity

AfterStopMutant(env) == IF HasRoom THEN Append(ring, env) ELSE ring
AfterStop(env) == WithStop(ring, Capacity, env)

-----------------------------------------------------------------------------
(* Callers *)

Step(u, at) == call' = [call EXCEPT ![u].at = at]

\* The unlocked test of attached that opens every call.  An unattached device
\* answers -ENOTCONN and nothing changes.
Begin(u, k, p) ==
  /\ call[u].at = "idle"
  /\ attached
  /\ calls < MaxCalls
  /\ calls' = calls + 1
  /\ call' = [call EXCEPT ![u] = [at |-> "checked", kind |-> k,
                                  epoch |-> 0, policy |-> p]]
  /\ UNCHANGED <<kernelVars, daemonVars, ring, motor, acked>>

\* db_handle_user_drive reads output_epoch ...
LoadEpoch(u) ==
  /\ call[u].at = "checked"
  /\ call[u].kind # Stop
  /\ call' = [call EXCEPT ![u].at = "loaded", ![u].epoch = epoch]
  /\ UNCHANGED <<kernelVars, daemonVars, ring, calls, motor, acked>>

\* ... and queues the verb, or is refused with -EBUSY.
PushVerb(u) ==
  /\ call[u].at = "loaded"
  /\ ring' = IF HasRoom
             THEN Append(ring, Env(call[u].kind, call[u].epoch, call[u].policy))
             ELSE ring
  /\ call' = [call EXCEPT ![u] = NoCall]
  /\ UNCHANGED <<kernelVars, daemonVars, calls, motor, acked>>

\* db_handle_stop (i)
BumpEpoch(u) ==
  /\ call[u].at = "checked"
  /\ call[u].kind = Stop
  /\ epoch' = epoch + 1
  /\ call' = [call EXCEPT ![u].at = "bumped", ![u].epoch = epoch + 1]
  /\ UNCHANGED <<attached, policy, age, timer, rearming, daemonVars, ring,
                 calls, motor, acked>>

\* db_handle_stop (ii) and (iii): latch the policy and stop the motors.  The
\* ports are valid only while a daemon is attached.
ActuateStop(u) ==
  /\ call[u].at = "bumped"
  /\ policy' = call[u].policy
  /\ motor' = IF attached THEN Emergency(call[u].policy) ELSE motor
  /\ Step(u, "actuated")
  /\ UNCHANGED <<epoch, attached, age, timer, rearming, daemonVars, ring,
                 calls, acked>>

\* db_handle_stop (iv); the call returns.
PushStop(u) ==
  /\ call[u].at = "actuated"
  /\ ring' = AfterStop(Env(Stop, call[u].epoch, call[u].policy))
  /\ acked' = IF attached /\ call[u].epoch > acked THEN call[u].epoch ELSE acked
  /\ call' = [call EXCEPT ![u] = NoCall]
  /\ UNCHANGED <<kernelVars, daemonVars, calls, motor>>

UserStep(u) ==
  \/ \E k \in Verbs : Begin(u, k, "coast")
  \/ u \in Stoppers /\ \E p \in Policies : Begin(u, Stop, p)
  \/ LoadEpoch(u)
  \/ PushVerb(u)
  \/ BumpEpoch(u)
  \/ ActuateStop(u)
  \/ PushStop(u)

-----------------------------------------------------------------------------
(* The daemon *)

\* DAEMON_ATTACH, with a fresh handler and reset controllers.
Attach ==
  /\ dpc = "down"
  /\ ~attached
  /\ gen < MaxGen
  /\ gen' = gen + 1
  /\ dpc' = "arming"
  /\ attached' = TRUE
  /\ policy' = "coast"
  /\ age' = 0
  /\ seen' = 0
  /\ motion' = Rest("coast")
  /\ acked' = 0
  /\ mark' = 0
  /\ drained' = 0
  /\ UNCHANGED <<ring, epoch, timer, rearming, call, calls, motor>>

\* db_arm_watchdog, after producer_lock is released.
Arm ==
  /\ dpc = "arming"
  /\ dpc' = "idle"
  /\ timer' = "armed"
  /\ UNCHANGED <<ring, epoch, attached, policy, age, rearming, call, calls,
                 drained, seen, motion, motor, gen, acked, mark>>

TickStart ==
  /\ dpc = "idle"
  /\ dpc' = "pickup"
  /\ drained' = 0
  /\ mark' = acked
  /\ UNCHANGED <<kernelVars, ring, call, calls, seen, motion, motor, gen, acked>>

\* PICKUP_CMD tests attached without the lock, before db_pop_envelope.
PickupCheck ==
  /\ dpc = "pickup"
  /\ dpc' = IF attached THEN "popping" ELSE "update"
  /\ UNCHANGED <<kernelVars, ring, call, calls, drained, seen, motion, motor,
                 gen, acked, mark>>

EpochActiveMutant(env) == TRUE
EpochActive(env) == env.epoch >= seen

\* dispatch_envelope.  STOP: stop the controllers; the motors are touched here
\* only when the policy is passive, HOLD leaves them to the next update.
Dispatch(env) ==
  \/ /\ env.kind = Stop
     /\ seen' = env.epoch
     /\ motion' = Rest(env.policy)
     /\ motor' = IF env.policy = "hold" THEN motor ELSE Rest(env.policy)
  \/ /\ env.kind = Drive /\ EpochActive(env)
     /\ motion' = Driving(env.epoch)
     /\ UNCHANGED <<seen, motor>>
  \/ /\ env.kind # Stop
     /\ ~(env.kind = Drive /\ EpochActive(env))
     /\ UNCHANGED <<seen, motion, motor>>

\* db_pop_envelope, then dispatch_envelope.
Pickup ==
  /\ dpc = "popping"
  /\ ring # <<>>
  /\ ring' = Tail(ring)
  /\ Dispatch(Head(ring))
  /\ drained' = drained + 1
  /\ dpc' = IF drained + 1 = Drain THEN "update" ELSE "pickup"
  /\ UNCHANGED <<kernelVars, call, calls, gen, acked, mark>>

PickupNothing ==
  /\ dpc = "popping"
  /\ ring = <<>>
  /\ dpc' = "update"
  /\ UNCHANGED <<kernelVars, ring, call, calls, drained, seen, motion, motor,
                 gen, acked, mark>>

\* db_drivebase_update: a drive goes on or completes, anything else is applied
\* again; a motor port that waits for recovery makes the tick coast instead.
Update ==
  /\ dpc = "update"
  /\ dpc' = "publish"
  /\ \/ motor' = motion /\ UNCHANGED motion
     \/ /\ motion.kind = "drive"
        /\ \E p \in Policies : motion' = Rest(p) /\ motor' = Rest(p)
     \/ motor' = Rest("coast") /\ UNCHANGED motion
  /\ UNCHANGED <<kernelVars, ring, call, calls, drained, seen, gen, acked, mark>>

\* PUBLISH_STATE, then the end of rt_tick_cb: go on, leave because a stop was
\* requested, or coast and leave because of missed deadlines.
Publish ==
  /\ dpc = "publish"
  /\ age' = IF attached THEN 0 ELSE age
  /\ \/ dpc' \in {"idle", "joined"} /\ UNCHANGED motor
     \/ dpc' = "joined" /\ motor' = Rest("coast")
  /\ UNCHANGED <<epoch, attached, policy, timer, rearming, ring, call, calls,
                 drained, seen, motion, gen, acked, mark>>

\* Teardown: the RT thread is joined, the motors coast, then DAEMON_DETACH.
TeardownCoast ==
  /\ dpc = "joined"
  /\ dpc' = "closing"
  /\ motor' = Rest("coast")
  /\ UNCHANGED <<kernelVars, ring, call, calls, drained, seen, motion, gen,
                 acked, mark>>

Detach ==
  /\ dpc = "closing"
  /\ dpc' = "down"
  /\ \/ attached /\ Detached
     \/ ~attached /\ UNCHANGED <<epoch, attached, policy, age, timer, acked>>
  /\ UNCHANGED <<rearming, ring, call, calls, drained, seen, motion, motor,
                 gen, mark>>

\* The daemon dies; closing its descriptor (db_chardev_close) stops the motors
\* if it was still attached.  Nobody else does.
Crash ==
  /\ dpc # "down"
  /\ dpc' = "down"
  /\ \/ attached /\ Detached /\ motor' = Emergency(policy)
     \/ ~attached /\ UNCHANGED <<epoch, attached, policy, age, timer, acked, motor>>
  /\ UNCHANGED <<rearming, ring, call, calls, drained, seen, motion, gen, mark>>

DaemonStep ==
  \/ Attach \/ Arm \/ TickStart \/ PickupCheck \/ Pickup \/ PickupNothing
  \/ Update \/ Publish \/ TeardownCoast \/ Detach \/ Crash

-----------------------------------------------------------------------------
(* The watchdog *)

\* One watchdog period passes.
Clock ==
  /\ attached \/ timer = "armed"
  /\ age' = IF attached /\ age < StaleAge THEN age + 1 ELSE age
  /\ timer' = IF timer = "armed" THEN "due" ELSE timer
  /\ <<age, timer>>' # <<age, timer>>
  /\ UNCHANGED <<epoch, attached, policy, rearming, daemonVars, ring, call,
                 calls, motor, acked>>

\* db_watchdog_work under producer_lock.
WatchdogFire ==
  /\ timer = "due"
  /\ ~rearming
  /\ \/ /\ ~attached
        /\ timer' = "off"
        /\ UNCHANGED <<epoch, attached, policy, age, acked, rearming, motor>>
     \/ /\ attached /\ Stale
        /\ Detached
        /\ motor' = Emergency(policy)
        /\ UNCHANGED rearming
     \/ /\ attached /\ ~Stale
        /\ timer' = "off"
        /\ rearming' = TRUE
        /\ UNCHANGED <<epoch, attached, policy, age, acked, motor>>
  /\ UNCHANGED <<daemonVars, ring, call, calls>>

RearmMutant ==
  /\ rearming
  /\ rearming' = FALSE
  /\ timer' = IF age = 0 THEN "armed" ELSE timer
  /\ UNCHANGED <<epoch, attached, policy, age, daemonVars, ring, call, calls,
                 motor, acked>>

\* db_arm_watchdog, after the lock is released: a detach may have come between.
WatchdogRearm ==
  /\ rearming
  /\ rearming' = FALSE
  /\ timer' = "armed"
  /\ UNCHANGED <<epoch, attached, policy, age, daemonVars, ring, call, calls,
                 motor, acked>>

Next ==
  \/ \E u \in Users : UserStep(u)
  \/ DaemonStep
  \/ Clock
  \/ WatchdogFire
  \/ WatchdogRearm

Spec == Init /\ [][Next]_vars

\* Time passes, the LPWORK thread runs, and DAEMON_ATTACH returns once it has
\* begun.  The daemon's ticks and the callers owe nothing.
Fairness ==
  /\ WF_vars(Clock)
  /\ WF_vars(WatchdogFire)
  /\ WF_vars(WatchdogRearm)
  /\ WF_vars(Arm)

FairSpec == Spec /\ Fairness

-----------------------------------------------------------------------------
(* Properties *)

Epochs == Nat
Motions == [kind : Policies \cup {"coast", "brake"}, epoch : {0}]
             \cup [kind : {"drive"}, epoch : Epochs]
Envelopes == [kind : Verbs \cup {Stop}, epoch : Epochs, policy : Policies]
Calls == [at : {"idle", "checked", "loaded", "bumped", "actuated"},
          kind : Verbs \cup {Stop}, epoch : Epochs, policy : Policies]
DaemonSteps == {"down", "arming", "idle", "pickup", "popping", "update",
                "publish", "joined", "closing"}

\* The state of the device, the daemon and their callers has its shape, the
\* ring never outgrows its slots, and a tick picks up no more than it may.
TypeOK ==
  /\ ring \in Seq(Envelopes) /\ Len(ring) <= Capacity
  /\ epoch \in Epochs
  /\ attached \in BOOLEAN
  /\ policy \in Policies
  /\ age \in 0..StaleAge
  /\ timer \in {"off", "armed", "due"}
  /\ rearming \in BOOLEAN
  /\ call \in [Users -> Calls]
  /\ calls \in 0..MaxCalls
  /\ dpc \in DaemonSteps
  /\ drained \in 0..Drain
  /\ seen \in Epochs
  /\ motion \in Motions
  /\ motor \in Motions
  /\ gen \in 0..MaxGen
  /\ acked \in Epochs
  /\ mark \in Epochs

\* An attached daemon is always watched: the work item is queued, or the
\* LPWORK thread is about to queue it again, or DAEMON_ATTACH has not returned.
\* Arming happens outside producer_lock on both sides (db_handle_daemon_attach,
\* db_watchdog_work), so a detach or an attach may fall into the gap.
WatchdogCovers == attached => timer # "off" \/ rearming \/ dpc = "arming"

\* Between ticks the motors are not driven by a command that a STOP, returned
\* before the latest tick began, has superseded (db_handle_stop, the epoch
\* gate of dispatch_envelope).  One task issuing STOP is assumed.
StopSupersedes ==
  attached /\ dpc = "idle" /\ motor.kind = "drive" => motor.epoch >= mark

\* output_epoch_seen is the highest epoch of a STOP the daemon has acted on
\* (drivebase_chardev_handler.h:39): within an attachment it never falls.
SeenNeverFalls == [][seen' >= seen \/ dpc = "down"]_vars

\* A daemon that stops publishing is detached, or publishes again
\* (db_watchdog_work): the watchdog is never lost.
StaleDetached ==
  (attached /\ age = StaleAge) ~> (~attached \/ age # StaleAge)

\* The STOPs that have returned are picked up by the daemon, or the daemon is
\* detached, however the daemon is scheduled: a ring entry is never lost and a
\* daemon that does not drain does not stay attached.
StopReachesDaemon == (attached /\ acked > seen) ~> (~attached \/ acked <= seen)

\* A daemon that has been detached does not drive the motors: the watchdog
\* "guarantees motor safety even if the daemon livelocks"
\* (docs/en/drivers/drivebase.md:261).
DetachedAtRest == ~attached /\ dpc # "down" => motor.kind # "drive"
=============================================================================
