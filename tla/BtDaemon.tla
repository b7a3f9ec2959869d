------------------------------- MODULE BtDaemon -------------------------------
(***************************************************************************)
(* The life of the Bluetooth daemon (btsensor_main.c): start and stop from *)
(* NSH, the stages of the teardown, how visible the hub is, the button,    *)
(* the telemetry pumps (bundle_emitter.c, imu_sampler.c), IMU_CAP mode,    *)
(* and the actions NSH has the run loop perform for it.                    *)
(*                                                                         *)
(* Three kinds of process: the run loop, whose handlers are single steps;  *)
(* a task that calls `btsensor stop'; and a task that dispatches actions,  *)
(* one step per lock or semaphore.  BTstack and the peer are external.     *)
(***************************************************************************)
EXTENDS Naturals

CONSTANTS
  Requests,    \* actions NSH asks for
  MaxStarts,   \* bound: times the daemon is started
  MaxActions,  \* bound: actions dispatched
  MaxLinks     \* bound: channels and pairings begun

Kinds == {"bt_on", "bt_off", "imu_on", "imu_off", "sensor_on", "sensor_off", "set_odr",
          "unpair", "imu_cap_start", "imu_cap_stop"}

ASSUME DaemonAssumption ==
  /\ Requests \subseteq Kinds
  /\ MaxStarts \in Nat /\ MaxActions \in Nat /\ MaxLinks \in Nat

VARIABLES
  pid,      \* g_daemon_pid > 0
  task,     \* where the daemon's task is
  ts,       \* g_ts_state; GAP_OFF_REQ and SAMPLER_DEINIT do not outlive a handler
  timer,    \* g_teardown_timer is armed
  kick,     \* on_teardown_kick is in the run loop's list
  stopper,  \* the task that calls cmd_stop
  bt,       \* g_bt_state
  gap,      \* what the controller was told: discoverable, connectable
  button,   \* up, or not served; pressed (down, or held since before it was served);
            \* long: on_button_long has been called for this press
  pump,     \* bundle_emitter: g_initialized, which of the two pumps are on; its timer is
            \* armed while one is
  imuCap,   \* g_imu_cap: active, the pumps it has paused
  odr,      \* the rate of the IMU: 833 Hz, 104 Hz in IMU_CAP mode, another by SET_ODR
  cid,      \* g_rfcomm_cid is not 0
  peer,     \* external: the channel, the pairing, the stored link key, the controller
  late,     \* history: what turned something on again after `btsensor stop': a press of
            \* the button, IMU_CAP mode, a rate that could not be restored
  stray,    \* history: the session was opened by a hub that was off or had failed, or
            \* a pairing has failed during it
  act,      \* the action dispatched last: what is left to perform, its owner's and its
            \* runner's steps, the flags, and how often it has been freed
  starts, actions, links  \* bounded by MaxStarts, MaxActions, MaxLinks

radioVars == <<bt, gap, cid, peer, stray>>
pumpVars == <<pump, imuCap, odr, late>>
lifeVars == <<pid, task, ts, timer, kick, stopper, starts>>
actVars == <<act, actions>>
vars == <<pid, task, ts, timer, kick, stopper, bt, gap, button, pump, imuCap, odr, cid,
          peer, late, stray, act, starts, actions, links>>

Off == [disc |-> FALSE, conn |-> FALSE]
NoPump == [ready |-> FALSE, on |-> {}]
NoImuCap == [active |-> FALSE, paused |-> {}]
NoPeer == [link |-> "none", pairing |-> FALSE, key |-> FALSE, hci |-> "off"]
NoAction == [kind |-> "none", waiter |-> "idle", runner |-> "idle", done |-> FALSE,
             gaveUp |-> FALSE, freed |-> 0]

Init ==
  /\ pid = FALSE /\ task = "none" /\ ts = "running" /\ timer = FALSE
  /\ kick = FALSE /\ stopper = "idle"
  /\ bt = "off" /\ gap = Off /\ button = "up"
  /\ pump = NoPump /\ imuCap = NoImuCap /\ odr = 833
  /\ cid = FALSE /\ peer = NoPeer /\ late = {} /\ stray = FALSE /\ act = NoAction
  /\ starts = 0 /\ actions = 0 /\ links = 0

-----------------------------------------------------------------------------
(* Telemetry pumps and IMU_CAP mode *)

\* bundle_emitter_set_imu_enabled, bundle_emitter_set_sensor_enabled
SetPumps(p, on) == IF p.ready THEN [p EXCEPT !.on = on] ELSE p

\* The rate of the drivebase is restored, or that fails with a warning.
RestoreOdr(rate) ==
  \/ odr' = 833 /\ late' = late \ {"rate"}
  \/ odr' = rate /\ late' = IF rate = 104 THEN late \cup {"rate"} ELSE late

\* btsensor_imu_cap_mode_enter: the rate is set, which may fail, or be undone when the
\* IMU cannot be opened, and the pumps are paused; samplers that have stopped do not
\* keep it from being entered ...
ImuCapEnter ==
  IF imuCap.active THEN UNCHANGED pumpVars
  ELSE \/ /\ imuCap' = [active |-> TRUE, paused |-> pump.on]
          /\ pump' = SetPumps(pump, {})
          /\ odr' = 104
          /\ late' = IF pump.ready THEN late ELSE late \cup {"imu_cap"}
       \/ RestoreOdr(104) /\ UNCHANGED <<pump, imuCap>>
       \/ UNCHANGED pumpVars

\* ... and imu_cap_exit_locked restores rate and pumps.
ImuCapExit ==
  IF ~imuCap.active THEN UNCHANGED pumpVars
  ELSE /\ imuCap' = NoImuCap
       /\ pump' = SetPumps(pump, pump.on \cup imuCap.paused)
       /\ RestoreOdr(odr)

-----------------------------------------------------------------------------
(* Visibility *)

\* bt_enter_off, bt_enter_advertising, bt_enter_paired, bt_enter_connectable,
\* bt_enter_fail_blink
Enter(state) ==
  /\ bt' = state
  /\ gap' = CASE state = "advertising" -> [disc |-> TRUE, conn |-> TRUE]
              [] state = "connectable" -> [disc |-> FALSE, conn |-> TRUE]
              [] state = "paired" -> [gap EXCEPT !.disc = FALSE]
              [] OTHER -> Off

Stay == UNCHANGED <<bt, gap>>

Hangup == peer' = [peer EXCEPT !.link = IF @ = "open" THEN "closing" ELSE @]

\* bt_visibility_request
BtOn ==
  /\ UNCHANGED peer
  /\ IF ts # "running" \/ bt \notin {"off", "fail"} THEN Stay
     ELSE Enter(IF peer.key THEN "connectable" ELSE "advertising")

BtOffMutant ==
  IF ts # "running" \/ bt \in {"off", "fail"} THEN Stay /\ UNCHANGED peer
  ELSE Enter("off") /\ UNCHANGED peer

BtOff ==
  IF ts # "running" \/ bt \in {"off", "fail"} THEN Stay /\ UNCHANGED peer
  ELSE /\ Enter("off")
       /\ IF bt = "paired" /\ cid THEN Hangup ELSE UNCHANGED peer

-----------------------------------------------------------------------------
(* NSH: start and stop *)

InLoop == task = "loop"

\* cmd_start
Start ==
  /\ ~pid /\ starts < MaxStarts
  /\ pid' = TRUE /\ task' = "starting" /\ starts' = starts + 1
  /\ UNCHANGED <<ts, timer, kick, stopper, radioVars, button, pumpVars, actVars, links>>

\* btsensor_daemon up to the run loop: btstack_run_loop_init drops whatever was
\* posted to the list before, an action as well as a stop.
BringUp ==
  /\ task = "starting" /\ task' = "loop"
  /\ ts' = "running" /\ timer' = FALSE /\ kick' = FALSE
  /\ act' = [act EXCEPT !.runner = IF @ = "queued" THEN "dropped" ELSE @]
  /\ bt' = "off" /\ gap' = Off /\ cid' = FALSE
  /\ peer' = [NoPeer EXCEPT !.hci = "working"]
  /\ button' \in {"up", "held"}
  /\ pump' = [NoPump EXCEPT !.ready = TRUE] /\ imuCap' = NoImuCap
  /\ late' = (IF odr = 104 THEN {"rate"} ELSE {}) /\ stray' = FALSE
  /\ UNCHANGED <<pid, stopper, odr, starts, actions, links>>

\* cmd_stop
StopCheck ==
  /\ stopper = "idle" /\ pid /\ ~kick
  /\ stopper' = "checked"
  /\ UNCHANGED <<pid, task, ts, timer, kick, starts, radioVars, button, pumpVars, actVars,
                 links>>

StopPost ==
  /\ stopper = "checked" /\ stopper' = "idle"
  /\ kick' = TRUE
  /\ UNCHANGED <<pid, task, ts, timer, starts, radioVars, button, pumpVars, actVars, links>>

-----------------------------------------------------------------------------
(* The run loop: teardown *)

\* teardown_sampler_off: IMU_CAP mode ends, the pumps stop, the button is not served
\* any more, then the controller.
SamplerOffMutant ==
  /\ ts' = "hci_off" /\ timer' = TRUE
  /\ pump' = NoPump /\ button' = "up" /\ UNCHANGED <<imuCap, odr, late>>

SamplerOff ==
  /\ ts' = "hci_off" /\ timer' = TRUE
  /\ imuCap' = NoImuCap /\ pump' = NoPump /\ button' = "up"
  /\ IF imuCap.active THEN RestoreOdr(odr) ELSE UNCHANGED <<odr, late>>

PowerOff(p) == [p EXCEPT !.hci = IF @ = "working" THEN "halting" ELSE @]

\* on_teardown_kick: a channel is closed first.
KickMutant ==
  /\ InLoop /\ kick /\ kick' = FALSE
  /\ IF ts # "running"
     THEN UNCHANGED <<ts, timer, gap, peer, button, pumpVars>>
     ELSE /\ gap' = Off
          /\ IF cid
             THEN ts' = "closing" /\ Hangup /\ UNCHANGED <<timer, button, pumpVars>>
             ELSE SamplerOff /\ peer' = PowerOff(peer)
  /\ UNCHANGED <<pid, task, stopper, starts, bt, cid, stray, actVars, links>>

Kick ==
  /\ InLoop /\ kick /\ kick' = FALSE
  /\ IF ts # "running"
     THEN UNCHANGED <<ts, timer, gap, peer, button, pumpVars>>
     ELSE /\ gap' = Off
          /\ IF cid
             THEN ts' = "closing" /\ timer' = TRUE /\ Hangup /\ UNCHANGED <<button, pumpVars>>
             ELSE SamplerOff /\ peer' = PowerOff(peer)
  /\ UNCHANGED <<pid, task, stopper, starts, bt, cid, stray, actVars, links>>

\* teardown_timer_handler: the event a stage waits for does not come.
TeardownTimeout ==
  /\ InLoop /\ timer
  /\ \/ ts = "closing" /\ cid' = FALSE /\ SamplerOff /\ peer' = PowerOff(peer)
     \/ /\ ts = "hci_off" /\ ts' = "done" /\ timer' = FALSE
        /\ UNCHANGED <<cid, peer, button, pumpVars>>
  /\ UNCHANGED <<pid, task, kick, stopper, starts, bt, gap, stray, actVars, links>>

\* BTSTACK_EVENT_STATE: the controller is off.
HciOff ==
  /\ InLoop /\ peer.hci = "halting"
  /\ peer' = [peer EXCEPT !.hci = "off", !.link = "none", !.pairing = FALSE]
  /\ IF ts = "hci_off" THEN ts' = "done" /\ timer' = FALSE ELSE UNCHANGED <<ts, timer>>
  /\ UNCHANGED <<pid, task, kick, stopper, starts, bt, gap, cid, stray, button, pumpVars,
                 actVars, links>>

\* The run loop returns, hci_close ...
LoopExits ==
  /\ InLoop /\ ts = "done" /\ task' = "closing"
  /\ peer' = NoPeer
  /\ UNCHANGED <<pid, ts, timer, kick, stopper, starts, bt, gap, cid, stray, button,
                 pumpVars, actVars, links>>

\* ... and the daemon is down.
Ended ==
  /\ task = "closing" /\ task' = "none"
  /\ pid' = FALSE /\ ts' = "running"
  /\ UNCHANGED <<timer, kick, stopper, starts, radioVars, button, pumpVars, actVars, links>>

-----------------------------------------------------------------------------
(* The run loop: the button and the peer *)

radioKept == <<lifeVars, pumpVars, actVars>>

\* btn_process; the button is served until teardown_sampler_off.
ButtonServed == InLoop /\ pump.ready

Press ==
  /\ ButtonServed /\ button = "up" /\ button' = "down"
  /\ UNCHANGED <<radioKept, radioVars, links>>

\* on_button_short, unless the press was a long one.
Lift ==
  /\ ButtonServed /\ button # "up" /\ button' = "up"
  /\ IF button # "long" /\ bt \in {"off", "fail"} THEN BtOn
     ELSE UNCHANGED <<bt, gap, peer>>
  /\ UNCHANGED <<radioKept, cid, stray, links>>

\* on_button_long, when the timer that the press has armed fires: from off the hub
\* becomes discoverable whatever the keys, and whatever the daemon is about.
LongPress ==
  /\ ButtonServed /\ button = "down" /\ button' = "long"
  /\ IF bt \in {"off", "fail"} THEN Enter("advertising") /\ UNCHANGED peer ELSE BtOff
  /\ late' = IF ts = "running" THEN late ELSE late \cup {"press"}
  /\ UNCHANGED <<lifeVars, pump, imuCap, odr, actVars, cid, stray, links>>

\* External: a peer connects or pairs with a connectable hub.
Approach ==
  /\ InLoop /\ peer.hci = "working" /\ gap.conn /\ links < MaxLinks
  /\ links' = links + 1
  /\ \/ peer.link = "none" /\ peer' = [peer EXCEPT !.link = "opening"]
     \/ ~peer.pairing /\ peer' = [peer EXCEPT !.pairing = TRUE]
  /\ UNCHANGED <<radioKept, bt, gap, cid, stray, button>>

\* btsensor_on_pairing_complete; BTstack has stored the key.
Paired ==
  /\ InLoop /\ peer.pairing
  /\ peer' = [peer EXCEPT !.pairing = FALSE, !.key = TRUE]
  /\ IF ts = "running" /\ bt \in {"advertising", "connectable"} THEN Enter("paired") ELSE Stay
  /\ UNCHANGED <<radioKept, cid, stray, button, links>>

PairingFails ==
  /\ InLoop /\ peer.pairing
  /\ peer' = [peer EXCEPT !.pairing = FALSE]
  /\ IF ts = "running" THEN Enter("fail") ELSE Stay
  /\ stray' = (stray \/ peer.link = "open")
  /\ UNCHANGED <<radioKept, cid, button, links>>

\* RFCOMM_EVENT_CHANNEL_OPENED: btsensor_set_rfcomm_cid; a hub that has gone off
\* meanwhile keeps the session and says nothing of it.
Opened ==
  /\ InLoop /\ peer.link = "opening"
  /\ peer' = [peer EXCEPT !.link = "open"]
  /\ cid' = TRUE
  /\ stray' = (bt \in {"off", "fail"})
  /\ IF ts = "running" /\ bt \in {"advertising", "connectable"} THEN Enter("paired") ELSE Stay
  /\ UNCHANGED <<radioKept, button, links>>

\* The channel was not opened after all; the event may also come for a channel
\* that the teardown has given up.
OpenFails ==
  /\ InLoop /\ peer.link = "opening"
  /\ peer' = [peer EXCEPT !.link = "none"]
  /\ cid' = FALSE
  /\ IF ts = "running" /\ bt = "paired" THEN Enter("connectable") ELSE Stay
  /\ UNCHANGED <<radioKept, stray, button, links>>

\* RFCOMM_EVENT_CHANNEL_CLOSED: on request, or because the peer has gone; a
\* teardown that waits for it goes on.
Closed ==
  /\ InLoop /\ peer.link \in {"open", "closing"}
  /\ cid' = FALSE /\ stray' = FALSE
  /\ IF ts = "running" /\ bt = "paired" THEN Enter("connectable") ELSE Stay
  /\ IF ts = "closing"
     THEN SamplerOff /\ peer' = PowerOff([peer EXCEPT !.link = "none"])
     ELSE /\ peer' = [peer EXCEPT !.link = "none"]
          /\ UNCHANGED <<ts, timer, button, pumpVars>>
  /\ UNCHANGED <<pid, task, kick, stopper, starts, actVars, links>>

\* imu_cap_duration_timer_handler
DurationOver ==
  /\ InLoop /\ imuCap.active /\ ImuCapExit
  /\ UNCHANGED <<lifeVars, radioVars, button, actVars, links>>

-----------------------------------------------------------------------------
(* Actions: the caller *)

callerKept == <<lifeVars, radioVars, button, pumpVars, links>>

\* dispatch_action: the daemon is up ...
DispatchCheck(kind) ==
  /\ act.waiter = "idle" /\ pid /\ actions < MaxActions
  /\ act.runner \in {"idle", "dropped"}
  /\ act' = [NoAction EXCEPT !.kind = kind, !.waiter = "checked"]
  /\ actions' = actions + 1
  /\ UNCHANGED callerKept

\* ... so the action is allocated and posted ...
DispatchPost ==
  /\ act.waiter = "checked"
  /\ act' = [act EXCEPT !.waiter = "waiting", !.runner = "queued"]
  /\ UNCHANGED <<callerKept, actions>>

\* ... and awaited for three seconds.
WaitOver ==
  /\ act.waiter = "waiting"
  /\ act' = [act EXCEPT !.waiter = "woken"]
  /\ UNCHANGED <<callerKept, actions>>

\* Under the lock the caller gives up on an action that is not done, and frees
\* one that is.
TakeResult ==
  /\ act.waiter = "woken"
  /\ act' = [act EXCEPT !.waiter = IF act.done THEN "freeing" ELSE "idle",
                        !.gaveUp = ~act.done]
  /\ UNCHANGED <<callerKept, actions>>

WaiterFrees ==
  /\ act.waiter = "freeing"
  /\ act' = [act EXCEPT !.waiter = "idle", !.freed = @ + 1]
  /\ UNCHANGED <<callerKept, actions>>

(* Actions: the runner *)

\* What action_runner does for each kind.
Perform(kind) ==
  \/ kind = "bt_on" /\ BtOn /\ UNCHANGED pumpVars
  \/ kind = "bt_off" /\ BtOff /\ UNCHANGED pumpVars
  \/ kind = "unpair" /\ peer' = [peer EXCEPT !.key = FALSE] /\ Stay /\ UNCHANGED pumpVars
  \/ /\ kind \in {"imu_on", "imu_off"}
     /\ pump' = SetPumps(pump, IF kind = "imu_on" THEN pump.on \cup {"imu"}
                               ELSE pump.on \ {"imu"})
     /\ UNCHANGED <<imuCap, odr, late, bt, gap, peer>>
  \/ /\ kind \in {"sensor_on", "sensor_off"}
     /\ pump' = SetPumps(pump, IF kind = "sensor_on" THEN pump.on \cup {"sensor"}
                               ELSE pump.on \ {"sensor"})
     /\ UNCHANGED <<imuCap, odr, late, bt, gap, peer>>
  \/ /\ kind = "set_odr" /\ odr' \in {odr, 416}
     /\ UNCHANGED <<pump, imuCap, late, bt, gap, peer>>
  \/ kind = "imu_cap_start" /\ ImuCapEnter /\ UNCHANGED <<bt, gap, peer>>
  \/ kind = "imu_cap_stop" /\ ImuCapExit /\ UNCHANGED <<bt, gap, peer>>

Run ==
  /\ InLoop /\ act.runner = "queued"
  /\ Perform(act.kind)
  /\ act' = [act EXCEPT !.runner = "ran", !.kind = "none"]
  /\ UNCHANGED <<lifeVars, cid, stray, button, actions, links>>

\* runner_done is set, and waiter_gave_up read, under the lock ...
RunDoneMutant ==
  /\ act.runner = "ran"
  /\ act' = [act EXCEPT !.done = TRUE, !.runner = "freeing"]
  /\ UNCHANGED <<callerKept, actions>>

RunDone ==
  /\ act.runner = "ran"
  /\ act' = [act EXCEPT !.done = TRUE, !.runner = IF act.gaveUp THEN "freeing" ELSE "posting"]
  /\ UNCHANGED <<callerKept, actions>>

\* ... then the runner frees the action or posts its semaphore.
RunnerFrees ==
  /\ act.runner = "freeing"
  /\ act' = [act EXCEPT !.runner = "idle", !.freed = @ + 1]
  /\ UNCHANGED <<callerKept, actions>>

RunnerPosts ==
  /\ act.runner = "posting"
  /\ act' = [act EXCEPT !.runner = "idle"]
  /\ UNCHANGED <<callerKept, actions>>

Nsh ==
  \/ Start \/ StopCheck \/ StopPost
  \/ \E kind \in Requests : DispatchCheck(kind)
  \/ DispatchPost \/ WaitOver \/ TakeResult \/ WaiterFrees

Runner == Run \/ RunDone \/ RunnerFrees \/ RunnerPosts

Teardown == Kick \/ TeardownTimeout \/ HciOff \/ LoopExits

Outside ==
  \/ Press \/ Lift \/ LongPress \/ Approach \/ Paired \/ PairingFails \/ Opened
  \/ OpenFails \/ Closed \/ DurationOver

Next == Nsh \/ BringUp \/ Runner \/ Teardown \/ Outside \/ Ended

Spec == Init /\ [][Next]_vars

\* What goes on without event or caller: a timer that is armed fires, and the daemon's
\* task runs on.
Onward == TeardownTimeout \/ LoopExits \/ Ended

-----------------------------------------------------------------------------
(* Properties *)

TypeOK ==
  /\ pid \in BOOLEAN /\ task \in {"none", "starting", "loop", "closing"}
  /\ ts \in {"running", "closing", "hci_off", "done"} /\ timer \in BOOLEAN
  /\ kick \in BOOLEAN /\ stopper \in {"idle", "checked"}
  /\ bt \in {"off", "advertising", "fail", "paired", "connectable"}
  /\ gap \in [disc : BOOLEAN, conn : BOOLEAN]
  /\ button \in {"up", "down", "held", "long"}
  /\ pump \in [ready : BOOLEAN, on : SUBSET {"imu", "sensor"}]
  /\ imuCap \in [active : BOOLEAN, paused : SUBSET {"imu", "sensor"}]
  /\ odr \in {833, 416, 104} /\ late \subseteq {"press", "imu_cap", "rate"}
  /\ cid \in BOOLEAN /\ stray \in BOOLEAN
  /\ peer \in [link : {"none", "opening", "open", "closing"}, pairing : BOOLEAN,
               key : BOOLEAN, hci : {"off", "working", "halting"}]
  /\ act \in [kind : Kinds \cup {"none"},
              waiter : {"idle", "checked", "waiting", "woken", "freeing"},
              runner : {"idle", "queued", "dropped", "ran", "freeing", "posting"},
              done : BOOLEAN, gaveUp : BOOLEAN, freed : 0..2]

\* While the daemon runs, what the controller was told is what g_bt_state and the
\* button's light say: a hub that is off or has failed to pair can be neither found
\* nor reached, a paired one can be reached but not found; and a session is known, so
\* that it is closed when the hub goes off, unless the hub was off or had failed when
\* it was opened or a pairing has failed since (the bt_enter functions against the
\* events of the peer).
VisibilityHonest ==
  (InLoop /\ ts = "running") =>
    /\ gap.disc = (bt = "advertising")
    /\ gap.conn = (bt \in {"advertising", "connectable", "paired"})
    /\ (peer.link = "open" => bt = "paired" \/ stray)

\* From `btsensor stop' to the next start no pump runs once the samplers have been
\* stopped, whatever is asked for; the hub can be found only if the button was pressed
\* long meanwhile, and IMU_CAP mode and its rate are on only if an action asked for
\* them after the samplers had stopped, or the rate could not be restored
\* (teardown_sampler_off against the button and action_runner).
StoppedStaysQuiet ==
  (InLoop /\ ts # "running") \/ task \in {"none", "closing"} =>
    /\ (gap # Off => "press" \in late)
    /\ (ts # "closing" =>
          /\ pump.on = {}
          /\ (imuCap.active => "imu_cap" \in late)
          /\ (odr = 104 => late \cap {"imu_cap", "rate"} # {}))

\* An action is freed by one of its two owners only, and by none that the other
\* still waits for (btsensor_action_s).
ActionFreedOnce ==
  act.freed <= 1 /\ (act.freed = 1 => act.waiter = "idle")

\* "a timed-out waiter cannot leave the runner with a dangling pointer": the runner
\* has finished with an action when it is freed.
RunnerNotDangling == act.freed = 1 => act.runner = "idle"

\* A teardown is under way.
Stopping == (task = "loop" /\ ts # "running") \/ task = "closing"
=============================================================================
