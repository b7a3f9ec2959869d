---------------------------- MODULE BluetoothProofs ----------------------------
(***************************************************************************)
(* The Bluetooth side of the hub.  First the daemon, for any number of     *)
(* starts, links and actions: an action has one owner at its end, what is  *)
(* stopped stays so but for the late presses and actions the code lets     *)
(* through, and the hub is as visible as it says.  Then the parts          *)
(* together: a behaviour of Bluetooth is one of each part, so what         *)
(* BtCaptureProofs and BtShellProofs show of theirs holds of it.           *)
(***************************************************************************)
EXTENDS Bluetooth, TLAPS

\* Who has an action in hand: both until one is through with it, then the other; the
\* runner says that it is through with `done', the waiter with `gaveUp'.
ActTyped ==
  act \in [kind : Kinds \cup {"none"},
           waiter : {"idle", "checked", "waiting", "woken", "freeing"},
           runner : {"idle", "queued", "dropped", "ran", "freeing", "posting"},
           done : BOOLEAN, gaveUp : BOOLEAN, freed : 0 .. 1]
ActOwned ==
  /\ act.done => act.runner \in {"freeing", "posting", "idle"}
  /\ act.runner \in {"freeing", "posting"} => act.done
  /\ act.gaveUp => act.waiter = "idle"
  /\ act.waiter = "checked" => ~act.done /\ act.runner = "idle"
  /\ act.waiter = "freeing" => act.done /\ act.freed = 0 /\ act.runner # "freeing"
  /\ act.runner = "freeing" => act.gaveUp /\ act.freed = 0
  /\ act.freed = 1 => act.done /\ act.waiter = "idle" /\ act.runner # "freeing"

AInv == ActTyped /\ ActOwned

\* The parts of the state that the stages of the teardown relate.
Typed ==
  /\ task \in {"none", "starting", "loop", "closing"}
  /\ ts \in {"running", "closing", "hci_off", "done"}
  /\ gap \in [disc : BOOLEAN, conn : BOOLEAN]
  /\ pump \in [ready : BOOLEAN, on : SUBSET {"imu", "sensor"}]
  /\ imuCap \in [active : BOOLEAN, paused : SUBSET {"imu", "sensor"}]
  /\ peer \in [link : {"none", "opening", "open", "closing"}, pairing : BOOLEAN,
               key : BOOLEAN, hci : {"off", "working", "halting"}]

StageOfTask ==
  /\ ~pid => task = "none"
  /\ task \in {"none", "starting"} => ts = "running"
  /\ task = "closing" => ts = "done"

\* From teardown_sampler_off until the next bring-up the pumps cannot be started, and
\* IMU_CAP mode is on only if a late action asked for it.
Down == ~pump.ready /\ pump.on = {} /\ (imuCap.active => "imu_cap" \in late)
PumpsDown == task # "loop" \/ ts \in {"hci_off", "done"} => Down
Hidden == task # "loop" \/ ts # "running" => gap = Off \/ "press" \in late
OwnRate == odr = 104 => imuCap.active \/ "rate" \in late

\* An open channel is one the daemon knows of.
OpenIsKnown == InLoop /\ ts = "running" /\ peer.link = "open" => cid

QInv == Typed /\ StageOfTask /\ PumpsDown /\ Hidden /\ OwnRate
BtTyped == bt \in {"off", "advertising", "fail", "paired", "connectable"}
VInv == OpenIsKnown /\ VisibilityHonest

-----------------------------------------------------------------------------
(* Actions *)

LEMMA AInvInit == Init => AInv
BY DEF Init, NoAction, AInv, ActTyped, ActOwned

LEMMA AInvNext == AInv /\ [Next]_vars => AInv'
<1> SUFFICES ASSUME AInv, [Next]_vars PROVE AInv'
  OBVIOUS
<1>0. 0 \in 0 .. 1 /\ 1 \in 0 .. 1
  OBVIOUS
<1>1. CASE UNCHANGED act
  BY <1>1 DEF AInv, ActTyped, ActOwned
<1>2. CASE BringUp
  BY <1>2 DEF BringUp, AInv, ActTyped, ActOwned
<1>3. CASE \E kind \in Requests : DispatchCheck(kind)
  <2>1. PICK kind \in Kinds : act' = [NoAction EXCEPT !.kind = kind, !.waiter = "checked"]
    BY <1>3, DaemonAssumption DEF DispatchCheck
  <2>2. act' = [kind |-> kind, waiter |-> "checked", runner |-> "idle", done |-> FALSE,
                gaveUp |-> FALSE, freed |-> 0]
    BY <2>1 DEF NoAction
  <2>3. ActTyped'
    BY <1>0, <2>2 DEF ActTyped
  <2>4. ActOwned'
    BY <2>2 DEF ActOwned
  <2> QED BY <2>3, <2>4 DEF AInv
<1>4. CASE DispatchPost
  BY <1>4 DEF DispatchPost, AInv, ActTyped, ActOwned
<1>5. CASE WaitOver
  BY <1>5 DEF WaitOver, AInv, ActTyped, ActOwned
<1>6. CASE TakeResult
  <2>1. act.waiter = "woken" /\ act' = [act EXCEPT !.waiter = IF act.done THEN "freeing" ELSE "idle",
                                                !.gaveUp = ~act.done]
    BY <1>6 DEF TakeResult, AInv, ActTyped, ActOwned
  <2>2. ActTyped'
    BY <2>1 DEF AInv, ActTyped
  <2>3. ActOwned'
    BY <2>1 DEF AInv, ActTyped, ActOwned
  <2> QED BY <2>2, <2>3 DEF AInv
<1>7. CASE WaiterFrees
  <2>0. act.waiter = "freeing" /\ act.freed = 0
    BY <1>7 DEF WaiterFrees, AInv, ActTyped, ActOwned
  <2>4. act' = [act EXCEPT !.waiter = "idle", !.freed = 0 + 1]
    BY <1>7, <2>0 DEF WaiterFrees
  <2>1. act.waiter = "freeing" /\ act' = [act EXCEPT !.waiter = "idle", !.freed = 1]
    BY <2>0, <2>4
  <2>2. ActTyped'
    BY <1>0, <2>1 DEF AInv, ActTyped
  <2>3. ActOwned'
    BY <2>1 DEF AInv, ActTyped, ActOwned
  <2> QED BY <2>2, <2>3 DEF AInv
<1>8. CASE Run
  BY <1>8 DEF Run, AInv, ActTyped, ActOwned
<1>9. CASE RunDone
  <2>1. act.runner = "ran" /\ act' = [act EXCEPT !.done = TRUE,
                 !.runner = IF act.gaveUp THEN "freeing" ELSE "posting"]
    BY <1>9 DEF RunDone, AInv, ActTyped, ActOwned
  <2>2. ActTyped'
    BY <2>1 DEF AInv, ActTyped
  <2>3. ActOwned'
    BY <2>1 DEF AInv, ActTyped, ActOwned
  <2> QED BY <2>2, <2>3 DEF AInv
<1>10. CASE RunnerFrees
  <2>0. act.runner = "freeing" /\ act.freed = 0
    BY <1>10 DEF RunnerFrees, AInv, ActTyped, ActOwned
  <2>4. act' = [act EXCEPT !.runner = "idle", !.freed = 0 + 1]
    BY <1>10, <2>0 DEF RunnerFrees
  <2>1. act.runner = "freeing" /\ act' = [act EXCEPT !.runner = "idle", !.freed = 1]
    BY <2>0, <2>4
  <2>2. ActTyped'
    BY <1>0, <2>1 DEF AInv, ActTyped
  <2>3. ActOwned'
    BY <2>1 DEF AInv, ActTyped, ActOwned
  <2> QED BY <2>2, <2>3 DEF AInv
<1>11. CASE RunnerPosts
  <2>1. act.runner = "posting" /\ act' = [act EXCEPT !.runner = "idle"]
    BY <1>11 DEF RunnerPosts, AInv, ActTyped, ActOwned
  <2>2. ActTyped'
    BY <2>1 DEF AInv, ActTyped
  <2>3. ActOwned'
    BY <2>1 DEF AInv, ActTyped, ActOwned
  <2> QED BY <2>2, <2>3 DEF AInv
<1>12. CASE Start \/ StopCheck \/ StopPost \/ Teardown \/ Outside \/ Ended \/ UNCHANGED vars
  <2>1. UNCHANGED act
    BY <1>12 DEF Start, StopCheck, StopPost, Teardown, Outside, Ended, vars, actVars,
       radioKept,
       Kick, TeardownTimeout, HciOff, LoopExits, Press, Lift, LongPress, Approach, Paired,
       PairingFails, Opened, OpenFails, Closed, DurationOver
  <2> QED BY <1>1, <2>1
<1> QED BY <1>2, <1>3, <1>4, <1>5, <1>6, <1>7, <1>8, <1>9, <1>10, <1>11, <1>12
        DEF Next, Nsh, Runner

\* Of the two owners of an action, one frees it, whatever its timeout meets.
THEOREM ActionIsFreedOnce == Spec => []ActionFreedOnce
<1>1. AInv => ActionFreedOnce
  BY DEF AInv, ActTyped, ActOwned, ActionFreedOnce
<1> QED BY <1>1, AInvInit, AInvNext, PTL DEF Spec

-----------------------------------------------------------------------------
(* Stages *)

LEMMA QInvInit == Init => QInv
BY DEF Init, QInv, Typed, StageOfTask, PumpsDown, Down, Hidden, OwnRate, Off, NoPump,
   NoImuCap, NoPeer

\* bt_enter_* tells the controller something.
LEMMA EnterTyped ==
  ASSUME Typed, NEW s \in {"off", "advertising", "fail", "paired", "connectable"}, Enter(s)
  PROVE  gap' \in [disc : BOOLEAN, conn : BOOLEAN]
BY DEF Enter, Typed, Off

\* What may be turned on again is noted.
PumpsSet ==
  \/ ImuCapEnter
  \/ ImuCapExit
  \/ /\ \E on \in SUBSET {"imu", "sensor"} : pump' = SetPumps(pump, on)
     /\ UNCHANGED <<imuCap, odr, late>>
  \/ UNCHANGED <<pump, imuCap>> /\ late \subseteq late' /\ odr' \in {odr, 416}

LEMMA RestoreStep ==
  ASSUME NEW rate, RestoreOdr(rate), rate = 104 \/ rate = odr
  PROVE  /\ \A w \in {"press", "imu_cap"} : w \in late => w \in late'
         /\ odr' = 104 => "rate" \in late'
<1>1. CASE odr' = 833 /\ late' = late \ {"rate"}
  BY <1>1
<1>2. CASE odr' = rate /\ late' = IF rate = 104 THEN late \cup {"rate"} ELSE late
  <2>1. late \subseteq late' /\ (rate = 104 => "rate" \in late')
    BY <1>2
  <2> QED BY <1>2, <2>1
<1> QED BY <1>1, <1>2 DEF RestoreOdr

\* The pumps are only set when there are any, and so are neither started nor
\* resumed once they are down.
LEMMA PumpsStep ==
  ASSUME QInv, PumpsSet
  PROVE  /\ pump' \in [ready : BOOLEAN, on : SUBSET {"imu", "sensor"}]
         /\ imuCap' \in [active : BOOLEAN, paused : SUBSET {"imu", "sensor"}]
         /\ pump'.ready = pump.ready
         /\ Down => Down'
         /\ OwnRate'
         /\ "press" \in late => "press" \in late'
<1>1. Typed /\ OwnRate
  BY DEF QInv
<1>2. CASE ImuCapEnter /\ ~imuCap.active
  <2>1. CASE /\ imuCap' = [active |-> TRUE, paused |-> pump.on] /\ pump' = SetPumps(pump, {})
             /\ odr' = 104 /\ late' = IF pump.ready THEN late ELSE late \cup {"imu_cap"}
    <3>1. late \subseteq late' /\ (~pump.ready => "imu_cap" \in late')
      BY <2>1
    <3>2. pump' = IF pump.ready THEN [pump EXCEPT !.on = {}] ELSE pump
      BY <2>1 DEF SetPumps
    <3> QED BY <1>1, <2>1, <3>1, <3>2 DEF Typed, OwnRate, Down
  <2>2. CASE RestoreOdr(104) /\ UNCHANGED <<pump, imuCap>>
    BY <1>1, <2>2, RestoreStep DEF Typed, OwnRate, Down
  <2>3. CASE UNCHANGED pumpVars
    BY <1>1, <2>3 DEF Typed, OwnRate, Down, pumpVars
  <2> QED BY <1>2, <2>1, <2>2, <2>3 DEF ImuCapEnter
<1>3. CASE ImuCapExit /\ imuCap.active
  <2>1. /\ imuCap' = NoImuCap /\ RestoreOdr(odr)
        /\ pump' = (IF pump.ready THEN [pump EXCEPT !.on = pump.on \cup imuCap.paused] ELSE pump)
    BY <1>3 DEF ImuCapExit, SetPumps
  <2> QED BY <1>1, <2>1, RestoreStep DEF Typed, OwnRate, Down, NoImuCap
<1>4. CASE (\E on \in SUBSET {"imu", "sensor"} : pump' = SetPumps(pump, on))
             /\ UNCHANGED <<imuCap, odr, late>>
  BY <1>1, <1>4 DEF SetPumps, Typed, OwnRate, Down
<1>5. CASE UNCHANGED <<pump, imuCap>> /\ late \subseteq late' /\ odr' \in {odr, 416}
  BY <1>1, <1>5 DEF Typed, OwnRate, Down
<1>6. CASE UNCHANGED pumpVars
  BY <1>1, <1>6 DEF Typed, OwnRate, Down, pumpVars
<1> QED BY <1>2, <1>3, <1>4, <1>5, <1>6 DEF PumpsSet, ImuCapEnter, ImuCapExit

\* teardown_sampler_off leaves nothing running, at the IMU's own rate if that can be
\* restored.
LEMMA SamplerOffStep ==
  ASSUME QInv, SamplerOff
  PROVE  /\ pump' = NoPump /\ imuCap' = NoImuCap /\ ts' = "hci_off" /\ OwnRate' /\ Down'
         /\ pump' \in [ready : BOOLEAN, on : SUBSET {"imu", "sensor"}]
         /\ imuCap' \in [active : BOOLEAN, paused : SUBSET {"imu", "sensor"}]
         /\ "press" \in late => "press" \in late'
<1>1. CASE imuCap.active
  BY <1>1, RestoreStep DEF SamplerOff, QInv, OwnRate, Down, NoPump, NoImuCap
<1>2. CASE ~imuCap.active
  BY <1>2 DEF SamplerOff, QInv, OwnRate, Down, NoPump, NoImuCap
<1> QED BY <1>1, <1>2

\* NSH and the daemon's task.
LEMMA LifeStep ==
  ASSUME QInv, Start \/ StopCheck \/ StopPost \/ BringUp \/ LoopExits \/ Ended
  PROVE  QInv'
<1>0. Typed /\ StageOfTask /\ PumpsDown /\ Hidden /\ OwnRate
  BY DEF QInv
<1>1. CASE Start
  <2>1. UNCHANGED <<ts, gap, peer, pump, imuCap, odr, late>> /\ ~pid /\ pid' = TRUE /\ task' = "starting"
    BY <1>1 DEF Start, radioVars, pumpVars
  <2> QED BY <1>0, <2>1 DEF QInv, Typed, StageOfTask, PumpsDown, Down, Hidden, OwnRate
<1>2. CASE StopCheck \/ StopPost
  <2>1. UNCHANGED <<pid, task, ts, gap, peer, pump, imuCap, odr, late>>
    BY <1>2 DEF StopCheck, StopPost, radioVars, pumpVars
  <2> QED BY <1>0, <2>1 DEF QInv, Typed, StageOfTask, PumpsDown, Down, Hidden, OwnRate
<1>3. CASE BringUp
  <2>1. /\ task = "starting" /\ task' = "loop" /\ ts' = "running" /\ gap' = Off
        /\ peer' = [NoPeer EXCEPT !.hci = "working"]
        /\ pump' = [NoPump EXCEPT !.ready = TRUE] /\ imuCap' = NoImuCap /\ UNCHANGED <<pid, odr>>
        /\ late' = IF odr = 104 THEN {"rate"} ELSE {}
    BY <1>3 DEF BringUp
  <2>2. Typed'
    BY <2>1 DEF Typed, NoPeer, NoPump, NoImuCap, Off
  <2> QED BY <1>0, <2>1, <2>2 DEF QInv, StageOfTask, PumpsDown, Down, Hidden, OwnRate, NoImuCap
<1>4. CASE LoopExits \/ Ended
  <2>1. /\ UNCHANGED <<gap, pump, imuCap, odr, late>> /\ peer' \in {peer, NoPeer}
        /\ \/ task = "loop" /\ ts = "done" /\ task' = "closing" /\ UNCHANGED <<pid, ts>>
           \/ task = "closing" /\ task' = "none" /\ pid' = FALSE /\ ts' = "running"
    BY <1>4 DEF LoopExits, Ended, InLoop, radioVars, pumpVars
  <2>2. NoPeer \in [link : {"none", "opening", "open", "closing"}, pairing : BOOLEAN,
                   key : BOOLEAN, hci : {"off", "working", "halting"}]
    BY DEF NoPeer
  <2>3. Typed'
    BY <1>0, <2>1, <2>2 DEF Typed
  <2> QED BY <1>0, <2>1, <2>3 DEF QInv, StageOfTask, PumpsDown, Down, Hidden, OwnRate
<1> QED BY <1>1, <1>2, <1>3, <1>4

\* The stages of the teardown.
LEMMA TeardownStep ==
  ASSUME QInv, Kick \/ TeardownTimeout \/ HciOff
  PROVE  QInv'
<1>0. Typed /\ StageOfTask /\ PumpsDown /\ Hidden /\ OwnRate /\ task = "loop" /\ task' = "loop"
      /\ pid' = pid
  BY DEF QInv, Kick, TeardownTimeout, HciOff, InLoop
<1>1. CASE Kick
  <2>1. CASE ts # "running"
    <3>1. UNCHANGED <<ts, timer, gap, peer, pump, imuCap, odr, late>>
      BY <1>1, <2>1 DEF Kick, pumpVars
    <3> QED BY <1>0, <3>1 DEF QInv, Typed, StageOfTask, PumpsDown, Down, Hidden, OwnRate
  <2>2. CASE ts = "running" /\ cid
    <3>1. gap' = Off /\ ts' = "closing" /\ Hangup /\ UNCHANGED <<pump, imuCap, odr, late>>
      BY <1>1, <2>2 DEF Kick, pumpVars
    <3> QED BY <1>0, <3>1
            DEF QInv, Typed, StageOfTask, PumpsDown, Down, Hidden, OwnRate, Hangup, Off
  <2>3. CASE ts = "running" /\ ~cid
    <3>1. gap' = Off /\ SamplerOff /\ peer' = PowerOff(peer)
      BY <1>1, <2>3 DEF Kick
    <3>2. peer' \in [link : {"none", "opening", "open", "closing"}, pairing : BOOLEAN,
                     key : BOOLEAN, hci : {"off", "working", "halting"}]
      BY <1>0, <3>1 DEF Typed, PowerOff
    <3> QED BY <1>0, <3>1, <3>2, SamplerOffStep
            DEF QInv, Typed, StageOfTask, PumpsDown, Hidden, NoPump, NoImuCap, Off
  <2> QED BY <2>1, <2>2, <2>3
<1>2. CASE TeardownTimeout
  <2>1. CASE ts = "closing"
    <3>1. SamplerOff /\ peer' = PowerOff(peer) /\ gap' = gap
      BY <1>2, <2>1 DEF TeardownTimeout
    <3>2. peer' \in [link : {"none", "opening", "open", "closing"}, pairing : BOOLEAN,
                     key : BOOLEAN, hci : {"off", "working", "halting"}]
      BY <1>0, <3>1 DEF Typed, PowerOff
    <3> QED BY <1>0, <2>1, <3>1, <3>2, SamplerOffStep
            DEF QInv, Typed, StageOfTask, PumpsDown, Hidden, NoPump, NoImuCap
  <2>2. CASE ts # "closing"
    <3>1. ts = "hci_off" /\ ts' = "done" /\ UNCHANGED <<gap, peer, pump, imuCap, odr, late>>
      BY <1>2, <2>2 DEF TeardownTimeout, pumpVars
    <3> QED BY <1>0, <3>1 DEF QInv, Typed, StageOfTask, PumpsDown, Down, Hidden, OwnRate
  <2> QED BY <2>1, <2>2
<1>3. CASE HciOff
  <2>1. UNCHANGED <<gap, pump, imuCap, odr, late>> /\ (ts' = ts \/ (ts = "hci_off" /\ ts' = "done"))
    BY <1>3 DEF HciOff, pumpVars
  <2>2. peer' \in [link : {"none", "opening", "open", "closing"}, pairing : BOOLEAN,
                   key : BOOLEAN, hci : {"off", "working", "halting"}]
    BY <1>0, <1>3 DEF HciOff, Typed
  <2> QED BY <1>0, <2>1, <2>2 DEF QInv, Typed, StageOfTask, PumpsDown, Down, Hidden, OwnRate
<1> QED BY <1>1, <1>2, <1>3

\* What the run loop does while the stage stays: it tells the controller something new
\* while the daemon runs or the button is pressed, and does not start pumps that are down.
StageKept ==
  /\ task' = task /\ ts' = ts /\ pid' = pid
  /\ peer' \in [link : {"none", "opening", "open", "closing"}, pairing : BOOLEAN,
                key : BOOLEAN, hci : {"off", "working", "halting"}]
  /\ \/ gap' = gap
     \/ /\ (task = "loop" /\ ts = "running") \/ "press" \in late'
        /\ \E s \in {"off", "advertising", "fail", "paired", "connectable"} : Enter(s)
  /\ PumpsSet

LEMMA StageKeptStep == QInv /\ StageKept => QInv'
<1> SUFFICES ASSUME QInv, StageKept PROVE QInv'
  OBVIOUS
<1>1. gap' \in [disc : BOOLEAN, conn : BOOLEAN] /\ Hidden'
  <2>1. CASE gap' = gap
    BY <2>1, PumpsStep DEF QInv, StageKept, Typed, Hidden
  <2>2. CASE \E s \in {"off", "advertising", "fail", "paired", "connectable"} :
               Enter(s) /\ ((task = "loop" /\ ts = "running") \/ "press" \in late')
    BY <2>2, EnterTyped DEF QInv, StageKept, Hidden
  <2> QED BY <2>1, <2>2 DEF StageKept
<1>2. /\ pump' \in [ready : BOOLEAN, on : SUBSET {"imu", "sensor"}]
      /\ imuCap' \in [active : BOOLEAN, paused : SUBSET {"imu", "sensor"}]
      /\ pump'.ready = pump.ready
      /\ Down => Down'
      /\ OwnRate'
  BY PumpsStep DEF StageKept
<1>3. Typed'
  BY <1>1, <1>2 DEF QInv, Typed, StageKept
<1>4. StageOfTask' /\ PumpsDown'
  BY <1>2 DEF QInv, StageKept, StageOfTask, PumpsDown
<1> QED BY <1>1, <1>2, <1>3, <1>4 DEF QInv

\* What NSH has the run loop do, the button and the peer keep the stage.
LEMMA VisibilityRequest ==
  ASSUME QInv, task = "loop", BtOn \/ BtOff
  PROVE  /\ peer' \in [link : {"none", "opening", "open", "closing"}, pairing : BOOLEAN,
                       key : BOOLEAN, hci : {"off", "working", "halting"}]
         /\ \/ gap' = gap
            \/ ts = "running"
                 /\ \E s \in {"off", "advertising", "fail", "paired", "connectable"} : Enter(s)
<1>1. Typed
  BY DEF QInv
<1>2. CASE BtOn
  BY <1>1, <1>2 DEF BtOn, Stay, Typed
<1>3. CASE BtOff
  BY <1>1, <1>3 DEF BtOff, Stay, Hangup, Typed
<1> QED BY <1>2, <1>3

LEMMA RunKeeps ==
  ASSUME QInv, Run
  PROVE  StageKept
<1>1. Typed /\ task = "loop" /\ task' = task /\ ts' = ts /\ pid' = pid /\ Perform(act.kind)
  BY DEF QInv, Run, InLoop, lifeVars
<1> DEFINE k == act.kind
<1>0. UNCHANGED pumpVars => PumpsSet
  BY DEF PumpsSet, pumpVars
<1>2. CASE (BtOn \/ BtOff) /\ UNCHANGED pumpVars
  BY <1>0, <1>1, <1>2, VisibilityRequest DEF StageKept
<1>3. CASE peer' = [peer EXCEPT !.key = FALSE] /\ Stay /\ UNCHANGED pumpVars
  BY <1>0, <1>1, <1>3 DEF StageKept, Stay, Typed
<1>4. CASE /\ \E on \in SUBSET {"imu", "sensor"} : pump' = SetPumps(pump, on)
           /\ UNCHANGED <<imuCap, odr, late, bt, gap, peer>>
  BY <1>1, <1>4 DEF StageKept, PumpsSet, Typed
<1>5. CASE (ImuCapEnter \/ ImuCapExit) /\ UNCHANGED <<bt, gap, peer>>
  BY <1>1, <1>5 DEF StageKept, PumpsSet, Typed
<1>6. ASSUME NEW p \in {"imu", "sensor"}
      PROVE  pump.on \cup {p} \in SUBSET {"imu", "sensor"}
             /\ pump.on \ {p} \in SUBSET {"imu", "sensor"}
  BY <1>1, <1>6 DEF Typed
<1>7. CASE k \in {"imu_on", "imu_off", "sensor_on", "sensor_off"}
  <2>1. UNCHANGED <<imuCap, odr, late, bt, gap, peer>>
    BY <1>1, <1>7 DEF Perform
  <2>2. \E p \in {"imu", "sensor"} : \/ pump' = SetPumps(pump, pump.on \cup {p})
                                     \/ pump' = SetPumps(pump, pump.on \ {p})
    BY <1>1, <1>7 DEF Perform
  <2> QED BY <1>4, <1>6, <2>1, <2>2
<1>8. CASE k \notin {"imu_on", "imu_off", "sensor_on", "sensor_off"}
  <2>1. CASE k = "bt_on" \/ k = "bt_off"
    BY <1>1, <1>2, <2>1 DEF Perform
  <2>2. CASE k = "unpair"
    BY <1>1, <1>3, <2>2 DEF Perform
  <2>3. CASE k \in {"imu_cap_start", "imu_cap_stop"}
    BY <1>1, <1>5, <2>3 DEF Perform
  <2>4. CASE k = "set_odr"
    BY <1>1, <2>4 DEF Perform, StageKept, PumpsSet, Typed
  <2>5. k \in {"bt_on", "bt_off", "unpair", "set_odr", "imu_cap_start", "imu_cap_stop"}
    BY <1>1, <1>8 DEF Perform
  <2> QED BY <2>1, <2>2, <2>3, <2>4, <2>5
<1> QED BY <1>7, <1>8

LEMMA OutsideKeeps ==
  ASSUME QInv, Press \/ Lift \/ LongPress \/ Approach \/ Paired \/ PairingFails
               \/ Opened \/ OpenFails \/ DurationOver
  PROVE  StageKept
<1>1. Typed /\ task = "loop" /\ task' = task /\ ts' = ts /\ pid' = pid
  BY DEF QInv, Press, Lift, LongPress, Approach, Paired, PairingFails, Opened, OpenFails,
         DurationOver, ButtonServed, InLoop, radioKept, lifeVars
<1>0. UNCHANGED pumpVars => PumpsSet
  BY DEF PumpsSet, pumpVars
<1>2. CASE Press
  <2>1. UNCHANGED <<gap, peer, pumpVars>>
    BY <1>2 DEF Press, radioKept, radioVars
  <2> QED BY <1>0, <1>1, <2>1 DEF StageKept, Typed
<1>3. CASE Lift
  <2>1. UNCHANGED pumpVars /\ (BtOn \/ UNCHANGED <<bt, gap, peer>>)
    BY <1>3 DEF Lift, radioKept
  <2> QED BY <1>0, <1>1, <2>1, VisibilityRequest DEF StageKept, Typed
<1>4. CASE LongPress
  <2>1. /\ UNCHANGED <<pump, imuCap, odr>> /\ late \subseteq late'
        /\ ts = "running" \/ "press" \in late'
        /\ BtOff \/ (Enter("advertising") /\ UNCHANGED peer)
    BY <1>4 DEF LongPress
  <2>2. PumpsSet
    BY <2>1 DEF PumpsSet
  <2> QED BY <1>1, <2>1, <2>2, VisibilityRequest DEF StageKept, Typed
<1>5. CASE Approach
  <2>1. UNCHANGED <<gap, pumpVars>>
    BY <1>5 DEF Approach, radioKept
  <2>2. peer' = [peer EXCEPT !.link = "opening"] \/ peer' = [peer EXCEPT !.pairing = TRUE]
    BY <1>5 DEF Approach
  <2> QED BY <1>0, <1>1, <2>1, <2>2 DEF StageKept, Typed
<1>6. CASE Paired \/ PairingFails \/ Opened \/ OpenFails
  <2>1. UNCHANGED pumpVars
    BY <1>6 DEF Paired, PairingFails, Opened, OpenFails, radioKept
  <2>2. gap' = gap \/ (ts = "running" /\ (Enter("paired") \/ Enter("fail") \/ Enter("connectable")))
    BY <1>6 DEF Paired, PairingFails, Opened, OpenFails, Stay
  <2>3. \/ peer' = [peer EXCEPT !.pairing = FALSE, !.key = TRUE]
        \/ peer' = [peer EXCEPT !.pairing = FALSE]
        \/ peer' = [peer EXCEPT !.link = "open"]
        \/ peer' = [peer EXCEPT !.link = "none"]
    BY <1>6 DEF Paired, PairingFails, Opened, OpenFails
  <2> QED BY <1>0, <1>1, <2>1, <2>2, <2>3 DEF StageKept, Typed
<1>7. CASE DurationOver
  <2>1. ImuCapExit /\ UNCHANGED <<gap, peer>>
    BY <1>7 DEF DurationOver, radioVars
  <2> QED BY <1>1, <2>1 DEF StageKept, PumpsSet, Typed
<1> QED BY <1>2, <1>3, <1>4, <1>5, <1>6, <1>7

LEMMA ClosedStep ==
  ASSUME QInv, Closed
  PROVE  QInv'
<1>0. Typed /\ StageOfTask /\ PumpsDown /\ Hidden /\ OwnRate /\ task = "loop"
      /\ UNCHANGED <<task, pid>>
  BY DEF QInv, Closed, InLoop
<1>1. CASE ts = "closing"
  <2>1. SamplerOff /\ peer' = PowerOff([peer EXCEPT !.link = "none"]) /\ gap' = gap
    BY <1>1 DEF Closed, Stay
  <2>2. peer' \in [link : {"none", "opening", "open", "closing"}, pairing : BOOLEAN,
                   key : BOOLEAN, hci : {"off", "working", "halting"}]
    BY <1>0, <2>1 DEF Typed, PowerOff
  <2> QED BY <1>0, <1>1, <2>1, <2>2, SamplerOffStep
          DEF QInv, Typed, StageOfTask, PumpsDown, Hidden, NoPump, NoImuCap
<1>2. CASE ts # "closing"
  <2>1. peer' = [peer EXCEPT !.link = "none"] /\ UNCHANGED <<ts, pumpVars>>
        /\ (gap' = gap \/ (ts = "running" /\ Enter("connectable")))
    BY <1>2 DEF Closed, Stay
  <2>2. StageKept
    BY <1>0, <2>1 DEF StageKept, PumpsSet, pumpVars, Typed
  <2> QED BY <2>2, StageKeptStep
<1> QED BY <1>1, <1>2

LEMMA QInvNext == QInv /\ [Next]_vars => QInv'
<1> SUFFICES ASSUME QInv, [Next]_vars PROVE QInv'
  OBVIOUS
<1>1. CASE Start \/ StopCheck \/ StopPost \/ BringUp \/ LoopExits \/ Ended
  BY <1>1, LifeStep
<1>2. CASE Kick \/ TeardownTimeout \/ HciOff
  BY <1>2, TeardownStep
<1>3. CASE Run
  BY <1>3, RunKeeps, StageKeptStep
<1>4. CASE Closed
  BY <1>4, ClosedStep
<1>5. CASE Press \/ Lift \/ LongPress \/ Approach \/ Paired \/ PairingFails
           \/ Opened \/ OpenFails \/ DurationOver
  BY <1>5, OutsideKeeps, StageKeptStep
<1>6. CASE \/ \E kind \in Requests : DispatchCheck(kind)
           \/ DispatchPost \/ WaitOver \/ TakeResult \/ WaiterFrees
           \/ RunDone \/ RunnerFrees \/ RunnerPosts \/ UNCHANGED vars
  <2>1. UNCHANGED <<task, ts, pid, gap, peer, pump, imuCap, odr, late>>
    BY <1>6 DEF DispatchCheck, DispatchPost, WaitOver, TakeResult, WaiterFrees, RunDone,
       RunnerFrees, RunnerPosts, callerKept, lifeVars, radioVars, pumpVars, vars
  <2> QED BY <2>1 DEF QInv, Typed, StageOfTask, PumpsDown, Down, Hidden, OwnRate
<1> QED BY <1>1, <1>2, <1>3, <1>4, <1>5, <1>6 DEF Next, Nsh, Runner, Teardown, Outside

\* What the teardown has stopped stays so until the next start, whatever NSH, the button
\* and the peer do meanwhile, but for the hub being found after a long press, IMU_CAP
\* mode after a late action, and a rate that could not be restored.
THEOREM StoppedIsQuiet == Spec => []StoppedStaysQuiet
<1>1. QInv => StoppedStaysQuiet
  BY DEF QInv, Typed, StageOfTask, PumpsDown, Down, Hidden, OwnRate, InLoop,
     StoppedStaysQuiet
<1> QED BY <1>1, QInvInit, QInvNext, PTL DEF Spec

-----------------------------------------------------------------------------
(* Visibility *)

LEMMA VInvInit == Init => VInv
BY DEF Init, VInv, OpenIsKnown, VisibilityHonest, InLoop

\* bt_enter_paired keeps a hub connectable that was so; the others say it all.
LEMMA EnterHonest ==
  ASSUME Typed, VInv, InLoop, ts = "running",
         NEW s \in {"off", "advertising", "fail", "paired", "connectable"}, Enter(s),
         s = "paired" => bt \in {"advertising", "connectable"}
  PROVE  /\ bt' = s
         /\ gap'.disc <=> (s = "advertising")
         /\ gap'.conn <=> (s \in {"advertising", "connectable", "paired"})
<1>1. gap \in [disc : BOOLEAN, conn : BOOLEAN] /\ bt' = s
  BY DEF Typed, Enter
<1>2. CASE s = "paired"
  <2>1. gap' = [gap EXCEPT !.disc = FALSE] /\ gap.conn
    BY <1>2 DEF Enter, VInv, VisibilityHonest
  <2> QED BY <1>1, <1>2, <2>1
<1>3. CASE s # "paired"
  BY <1>1, <1>3 DEF Enter, Off
<1> QED BY <1>2, <1>3

\* While the daemon runs, a step leaves g_bt_state and the controller alone or enters
\* a state, and an open channel stays one the daemon has entered "paired" for, or strays.
Honest ==
  /\ InLoop /\ ts = "running" /\ UNCHANGED <<task, ts>>
  /\ \/ Stay
     \/ \E s \in {"off", "advertising", "fail", "paired", "connectable"} :
          Enter(s) /\ (s = "paired" => bt \in {"advertising", "connectable"})
  /\ peer'.link = "open" => cid' /\ (bt' = "paired" \/ stray')

LEMMA HonestStep == Typed /\ VInv /\ Honest => VInv'
<1> SUFFICES ASSUME Typed, VInv, Honest PROVE VInv'
  OBVIOUS
<1>1. CASE Stay
  BY <1>1 DEF VInv, VisibilityHonest, OpenIsKnown, Honest, Stay, InLoop
<1>2. ASSUME NEW s \in {"off", "advertising", "fail", "paired", "connectable"}, Enter(s),
             s = "paired" => bt \in {"advertising", "connectable"}
      PROVE  VInv'
  <2>1. /\ bt' = s
        /\ gap'.disc <=> (s = "advertising")
        /\ gap'.conn <=> (s \in {"advertising", "connectable", "paired"})
    BY <1>2, EnterHonest DEF Honest
  <2>2. gap' \in [disc : BOOLEAN, conn : BOOLEAN]
    BY <1>2, EnterTyped
  <2> QED BY <2>1, <2>2 DEF VInv, VisibilityHonest, OpenIsKnown, Honest, InLoop
<1> QED BY <1>1, <1>2 DEF Honest

\* What NSH, the run loop and the button ask.
LEMMA RequestHonest ==
  ASSUME Typed, VInv, InLoop, ts = "running", UNCHANGED <<task, ts, cid, stray>>,
         \/ BtOn \/ BtOff
         \/ bt \in {"off", "fail"} /\ Enter("advertising") /\ UNCHANGED peer
         \/ Stay /\ peer'.link = peer.link
  PROVE  Honest
<1>1. peer.link = "open" => cid /\ (bt = "paired" \/ stray)
  BY DEF VInv, OpenIsKnown, VisibilityHonest
<1>2. CASE BtOn
  BY <1>1, <1>2 DEF BtOn, Stay, Honest, Enter
<1>3. CASE BtOff
  <2>1. CASE bt \in {"off", "fail"}
    BY <1>1, <1>3, <2>1 DEF BtOff, Stay, Honest
  <2>2. CASE bt \notin {"off", "fail"}
    <3>1. Enter("off") /\ (peer' = peer \/ Hangup) /\ (bt = "paired" /\ cid => Hangup)
      BY <1>3, <2>2 DEF BtOff
    <3>2. peer'.link # "open" \/ (stray /\ cid)
      BY <1>1, <3>1 DEF Hangup, Typed
    <3> QED BY <3>1, <3>2 DEF Honest
  <2> QED BY <2>1, <2>2
<1>4. CASE bt \in {"off", "fail"} /\ Enter("advertising") /\ UNCHANGED peer
  BY <1>1, <1>4 DEF Honest
<1>5. CASE Stay /\ peer'.link = peer.link
  BY <1>1, <1>5 DEF Honest, Stay
<1> QED BY <1>2, <1>3, <1>4, <1>5

\* What the peer does.
LEMMA PeerHonest ==
  ASSUME Typed, BtTyped, VInv, InLoop, ts = "running",
         Approach \/ Paired \/ PairingFails \/ Opened \/ OpenFails \/ Closed
  PROVE  Honest
<1>1. (peer.link = "open" => cid /\ (bt = "paired" \/ stray)) /\ UNCHANGED <<task, ts>>
  BY DEF VInv, OpenIsKnown, VisibilityHonest, Approach, Paired, PairingFails, Opened,
     OpenFails, Closed, radioKept, lifeVars, InLoop
<1>2. CASE Approach
  <2>1. Stay /\ UNCHANGED <<cid, stray>>
    BY <1>2 DEF Approach, Stay
  <2>2. peer'.link = "open" => peer.link = "open"
    BY <1>2 DEF Approach, Typed
  <2> QED BY <1>1, <2>1, <2>2 DEF Honest, Stay
<1>3. CASE Paired
  <2>1. peer'.link = peer.link /\ UNCHANGED <<cid, stray>>
    BY <1>3 DEF Paired, Typed
  <2>2. (Stay \/ (Enter("paired") /\ bt \in {"advertising", "connectable"}))
    BY <1>3 DEF Paired
  <2> QED BY <1>1, <2>1, <2>2 DEF Honest, Stay, Enter
<1>4. CASE PairingFails
  <2>1. /\ cid' = cid /\ peer'.link = peer.link /\ Enter("fail")
        /\ stray' = (stray \/ peer.link = "open")
    BY <1>4 DEF PairingFails, Typed
  <2> QED BY <1>1, <2>1 DEF Honest
<1>5. CASE Opened
  <2>1. /\ cid' /\ stray' = (bt \in {"off", "fail"})
        /\ IF bt \in {"advertising", "connectable"} THEN Enter("paired") ELSE Stay
    BY <1>5 DEF Opened
  <2>2. bt' = "paired" \/ stray'
    BY <2>1 DEF BtTyped, Enter, Stay
  <2> QED BY <1>1, <2>1, <2>2 DEF Honest
<1>6. CASE OpenFails \/ Closed
  <2>1. peer' = [peer EXCEPT !.link = "none"] /\ (Stay \/ Enter("connectable"))
    BY <1>6 DEF OpenFails, Closed
  <2>2. peer'.link # "open"
    BY <2>1 DEF Typed
  <2> QED BY <1>1, <2>1, <2>2 DEF Honest
<1> QED BY <1>2, <1>3, <1>4, <1>5, <1>6

LEMMA BtTypedInit == Init => BtTyped
BY DEF Init, BtTyped

LEMMA BtTypedNext == BtTyped /\ [Next]_vars => BtTyped'
<1> SUFFICES ASSUME BtTyped, [Next]_vars PROVE BtTyped'
  OBVIOUS
<1>1. CASE \E s \in {"off", "advertising", "fail", "paired", "connectable"} : Enter(s)
  BY <1>1 DEF BtTyped, Enter
<1>2. CASE bt' \in {bt, "off"}
  BY <1>2 DEF BtTyped
<1>3. CASE BtOn \/ BtOff
  BY <1>1, <1>2, <1>3 DEF BtOn, BtOff, Stay
<1>4. CASE Nsh \/ BringUp \/ Teardown \/ Ended \/ UNCHANGED vars
  <2>1. bt' \in {bt, "off"}
    BY <1>4 DEF Nsh, Start, StopCheck, StopPost, DispatchCheck, DispatchPost, WaitOver,
       TakeResult, WaiterFrees, BringUp, Teardown, Kick, TeardownTimeout, HciOff, LoopExits,
       Ended, callerKept, radioVars, vars
  <2> QED BY <1>2, <2>1
<1>5. CASE Runner
  <2>1. BtOn \/ BtOff \/ bt' = bt
    BY <1>5 DEF Runner, Run, RunDone, RunnerFrees, RunnerPosts, Perform, Stay, callerKept,
       radioVars
  <2> QED BY <1>2, <1>3, <2>1
<1>6. CASE Outside
  <2>1. \/ BtOn \/ BtOff \/ bt' = bt \/ Enter("advertising") \/ Enter("paired")
        \/ Enter("fail") \/ Enter("connectable")
    BY <1>6 DEF Outside, Press, Lift, LongPress, Approach, Paired, PairingFails, Opened,
       OpenFails, Closed, DurationOver, Stay, radioVars, radioKept
  <2> QED BY <1>1, <1>2, <1>3, <2>1
<1> QED BY <1>4, <1>5, <1>6 DEF Next

LEMMA VInvNext == QInv /\ VInv /\ BtTyped /\ [Next]_vars => VInv'
<1> SUFFICES ASSUME QInv, VInv, BtTyped, [Next]_vars PROVE VInv'
  OBVIOUS
<1>0. Typed
  BY DEF QInv
<1>1. CASE UNCHANGED <<task, ts, bt, gap, cid, peer, stray>>
  BY <1>1 DEF VInv, VisibilityHonest, OpenIsKnown, InLoop
<1>2. CASE ~(InLoop /\ ts = "running")'
  BY <1>2 DEF VInv, VisibilityHonest, OpenIsKnown, InLoop
<1>3. CASE BringUp
  <2>1. bt' = "off" /\ gap' = [disc |-> FALSE, conn |-> FALSE] /\ peer'.link = "none"
    BY <1>3 DEF BringUp, Off, NoPeer
  <2>2. gap'.disc = FALSE /\ gap'.conn = FALSE
    BY <2>1
  <2>3. (bt = "advertising")' = FALSE
        /\ (bt \in {"advertising", "connectable", "paired"})' = FALSE
    BY <2>1
  <2>4. VisibilityHonest'
    BY <2>1, <2>2, <2>3, Zenon DEF VisibilityHonest
  <2> QED BY <2>1, <2>4 DEF VInv, OpenIsKnown
<1>4. CASE Start \/ StopCheck \/ StopPost \/ DispatchPost \/ WaitOver \/ TakeResult
           \/ WaiterFrees \/ RunDone \/ RunnerFrees \/ RunnerPosts \/ DurationOver \/ Press
           \/ (\E kind \in Requests : DispatchCheck(kind)) \/ UNCHANGED vars
  <2>1. CASE Start
    BY <1>2, <2>1 DEF Start, InLoop
  <2>2. CASE ~Start
    <3>1. UNCHANGED <<task, ts, bt, gap, cid, peer, stray>>
      BY <1>4, <2>2 DEF StopCheck, StopPost, DispatchCheck, DispatchPost, WaitOver,
         TakeResult,
         WaiterFrees, RunDone, RunnerFrees, RunnerPosts, DurationOver, Press, callerKept,
         lifeVars, radioVars, radioKept, vars
    <3> QED BY <1>1, <3>1
  <2> QED BY <2>1, <2>2
<1>5. CASE LoopExits \/ Ended
  BY <1>2, <1>5 DEF LoopExits, Ended, InLoop
<1>6. CASE Kick \/ TeardownTimeout \/ HciOff
  <2>1. CASE ts # "running"
    BY <1>2, <1>6, <2>1 DEF Kick, TeardownTimeout, HciOff, SamplerOff
  <2>2. CASE ts = "running" /\ HciOff
    <3>1. UNCHANGED <<task, ts, bt, gap, cid, stray>> /\ peer'.link # "open"
      BY <1>0, <2>2 DEF HciOff, Typed
    <3> QED BY <3>1 DEF VInv, VisibilityHonest, OpenIsKnown, InLoop
  <2>3. CASE ts = "running" /\ ~HciOff
    BY <1>2, <1>6, <2>3 DEF Kick, TeardownTimeout, SamplerOff
  <2> QED BY <2>1, <2>2, <2>3
<1>7. CASE Run \/ Lift \/ LongPress
  <2>1. UNCHANGED <<task, ts, cid, stray>> /\ InLoop
    BY <1>7 DEF Run, Lift, LongPress, lifeVars, radioKept, ButtonServed
  <2>2. \/ BtOn \/ BtOff
        \/ bt \in {"off", "fail"} /\ Enter("advertising") /\ UNCHANGED peer
        \/ Stay /\ peer'.link = peer.link
    <3>1. CASE Run
      <4>1. Perform(act.kind)
        BY <3>1 DEF Run
      <4>2. peer' = [peer EXCEPT !.key = FALSE] => peer'.link = peer.link
        BY <1>0 DEF Typed
      <4> QED BY <4>1, <4>2 DEF Perform, Stay
    <3>2. CASE Lift
      BY <3>2 DEF Lift, Stay
    <3>3. CASE LongPress
      BY <3>3 DEF LongPress
    <3> QED BY <1>7, <3>1, <3>2, <3>3
  <2>3. CASE ts = "running"
    BY <1>0, <2>1, <2>2, <2>3, RequestHonest, HonestStep
  <2>4. CASE ts # "running"
    BY <1>2, <2>1, <2>4 DEF InLoop
  <2> QED BY <2>3, <2>4
<1>8. CASE Approach \/ Paired \/ PairingFails \/ Opened \/ OpenFails \/ Closed
  <2>1. CASE ts = "running" /\ InLoop
    BY <1>0, <1>8, <2>1, PeerHonest, HonestStep
  <2>2. CASE ~(ts = "running" /\ InLoop)
    <3>1. ts' # "running" \/ ~InLoop'
      BY <1>8, <2>2 DEF Approach, Paired, PairingFails, Opened, OpenFails, Closed,
         radioKept,
         lifeVars, InLoop, SamplerOff
    <3> QED BY <1>2, <3>1
  <2> QED BY <2>1, <2>2
<1> QED BY <1>3, <1>4, <1>5, <1>6, <1>7, <1>8 DEF Next, Nsh, Runner, Teardown, Outside

\* The hub is found and reached when it says so, and only then, and a session is known
\* but for one opened by a hub that was off or had failed, or that a pairing failed in.
THEOREM HubIsAsVisibleAsItSays == Spec => []VisibilityHonest
<1>1. VInv => VisibilityHonest
  BY DEF VInv
<1>2. QInv /\ VInv /\ BtTyped /\ [Next]_vars => (QInv /\ VInv /\ BtTyped)'
  BY QInvNext, VInvNext, BtTypedNext
<1> QED BY <1>1, <1>2, QInvInit, VInvInit, BtTypedInit, PTL DEF Spec

-----------------------------------------------------------------------------
(* Types *)

Peers == [link : {"none", "opening", "open", "closing"}, pairing : BOOLEAN,
          key : BOOLEAN, hci : {"off", "working", "halting"}]
Pumps == [ready : BOOLEAN, on : SUBSET {"imu", "sensor"}]
ImuCaps == [active : BOOLEAN, paused : SUBSET {"imu", "sensor"}]

\* What Typed leaves out.
SwitchesTyped ==
  /\ pid \in BOOLEAN /\ timer \in BOOLEAN /\ kick \in BOOLEAN /\ stopper \in {"idle", "checked"}
  /\ button \in {"up", "down", "held", "long"} /\ odr \in {833, 416, 104} /\ cid \in BOOLEAN
  /\ late \subseteq {"press", "imu_cap", "rate"} /\ stray \in BOOLEAN

LEMMA PumpsTyped ==
  ASSUME Typed, ImuCapEnter \/ ImuCapExit \/ SamplerOff
  PROVE  pump' \in Pumps /\ imuCap' \in ImuCaps
<1>1. pump \in Pumps /\ imuCap \in ImuCaps
  BY DEF Typed, Pumps, ImuCaps
<1>2. \A S \in SUBSET {"imu", "sensor"} : SetPumps(pump, S) \in Pumps
  BY <1>1 DEF SetPumps, Pumps
<1>3. NoPump \in Pumps /\ NoImuCap \in ImuCaps
  BY DEF NoPump, NoImuCap, Pumps, ImuCaps
<1>4. pump.on \cup imuCap.paused \in SUBSET {"imu", "sensor"} /\ {} \in SUBSET {"imu", "sensor"}
  BY <1>1 DEF Pumps, ImuCaps
<1>5. CASE ImuCapEnter /\ ~imuCap.active
  <2>1. \/ imuCap' = [active |-> TRUE, paused |-> pump.on] /\ pump' = SetPumps(pump, {})
        \/ pump' = pump /\ imuCap' = imuCap
    BY <1>5, Zenon DEF ImuCapEnter, pumpVars
  <2>2. pump.on \in SUBSET {"imu", "sensor"}
    BY <1>1 DEF Pumps
  <2>3. [active |-> TRUE, paused |-> pump.on] \in ImuCaps
    BY <2>2 DEF ImuCaps
  <2>4. SetPumps(pump, {}) \in Pumps
    BY <1>2, <1>4
  <2> QED BY <1>1, <2>1, <2>3, <2>4
<1>6. CASE ImuCapExit /\ imuCap.active
  BY <1>2, <1>3, <1>4, <1>6 DEF ImuCapExit
<1> QED BY <1>1, <1>3, <1>5, <1>6 DEF ImuCapEnter, ImuCapExit, SamplerOff, pumpVars

LEMMA PeersTyped ==
  ASSUME NEW p \in Peers
  PROVE  /\ PowerOff(p) \in Peers /\ NoPeer \in Peers /\ [NoPeer EXCEPT !.hci = "working"] \in Peers
         /\ [p EXCEPT !.link = IF @ = "open" THEN "closing" ELSE @] \in Peers
         /\ \A l \in {"none", "opening", "open"} : [p EXCEPT !.link = l] \in Peers
         /\ \A b \in BOOLEAN : [p EXCEPT !.pairing = b] \in Peers /\ [p EXCEPT !.key = b] \in Peers
         /\ [p EXCEPT !.pairing = FALSE, !.key = TRUE] \in Peers
         /\ [p EXCEPT !.hci = "off", !.link = "none", !.pairing = FALSE] \in Peers
BY DEF Peers, PowerOff, NoPeer

LEMMA VisibilityTyped ==
  ASSUME Typed, BtOn \/ BtOff
  PROVE  peer' \in Peers /\ gap' \in [disc : BOOLEAN, conn : BOOLEAN]
<1>1. peer \in Peers
  BY DEF Typed, Peers
<1>2. peer' \in Peers
  BY <1>1, PeersTyped DEF BtOn, BtOff, Hangup
<1>3. gap' = gap \/ \E s \in {"off", "advertising", "connectable"} : Enter(s)
  BY DEF BtOn, BtOff, Stay
<1> QED BY <1>2, <1>3, EnterTyped DEF Typed

LEMMA TypedNext == Typed /\ [Next]_vars => Typed'
<1> SUFFICES ASSUME Typed, [Next]_vars PROVE Typed'
  OBVIOUS
<1>0. peer \in Peers /\ pump \in Pumps /\ imuCap \in ImuCaps
  BY DEF Typed, Peers, Pumps, ImuCaps
<1>1. /\ task' \in {"none", "starting", "loop", "closing"}
      /\ ts' \in {"running", "closing", "hci_off", "done"}
  BY DEF Typed, vars, Next, Nsh, Runner, Teardown, Outside, Start, StopCheck, StopPost,
     DispatchCheck,
         DispatchPost, WaitOver, TakeResult, WaiterFrees, Run, RunDone, RunnerFrees,
         RunnerPosts, Kick,
         TeardownTimeout, HciOff, LoopExits, Press, Lift, LongPress, Approach, Paired,
         PairingFails,
         Opened, OpenFails, Closed, DurationOver, BringUp, Ended, callerKept, lifeVars,
         radioKept, SamplerOff
<1>2. pump' \in Pumps /\ imuCap' \in ImuCaps
  <2>1. CASE ImuCapEnter \/ ImuCapExit \/ SamplerOff
    BY <2>1, PumpsTyped
  <2>2. CASE UNCHANGED <<pump, imuCap>>
    BY <1>0, <2>2
  <2>3. CASE BringUp
    BY <2>3 DEF BringUp, NoPump, NoImuCap, Pumps, ImuCaps
  <2>4. CASE \E S \in SUBSET {"imu", "sensor"} : pump' = SetPumps(pump, S) /\ imuCap' = imuCap
    BY <1>0, <2>4 DEF SetPumps, Pumps
  <2>5. \A S : pump.on \cup {"imu"} \in SUBSET {"imu", "sensor"}
               /\ pump.on \cup {"sensor"} \in SUBSET {"imu", "sensor"}
               /\ pump.on \ S \in SUBSET {"imu", "sensor"}
    BY <1>0 DEF Pumps
  <2>6. CASE Run
    <3>1. Perform(act.kind)
      BY <2>6 DEF Run
    <3> QED BY <2>1, <2>2, <2>4, <2>5, <3>1 DEF Perform, pumpVars
  <2>7. CASE Kick \/ TeardownTimeout \/ Closed \/ DurationOver
    BY <2>1, <2>2, <2>7 DEF Kick, TeardownTimeout, Closed, DurationOver, pumpVars
  <2> QED BY <2>2, <2>3, <2>6, <2>7
      DEF vars, Next, Nsh, Runner, Teardown, Outside, Start, StopCheck, StopPost,
         DispatchCheck,
          DispatchPost, WaitOver, TakeResult, WaiterFrees, RunDone, RunnerFrees,
          RunnerPosts,
          HciOff, LoopExits, Press, Lift, LongPress, Approach, Paired, PairingFails,
          Opened, OpenFails, Ended, callerKept, pumpVars, radioKept
<1>3. peer' \in Peers /\ gap' \in [disc : BOOLEAN, conn : BOOLEAN]
  <2>1. CASE BtOn \/ BtOff
    BY <2>1, VisibilityTyped
  <2>2. CASE UNCHANGED <<peer, gap>>
    BY <1>0, <2>2 DEF Typed
  <2>3. CASE \E s \in {"off", "advertising", "fail", "paired", "connectable"} :
               Enter(s) /\ peer' = peer
    BY <1>0, <2>3, EnterTyped
  <2>4. CASE Run
    <3>1. Perform(act.kind)
      BY <2>4 DEF Run
    <3>2. CASE peer' = [peer EXCEPT !.key = FALSE] /\ Stay
      BY <1>0, <3>2, PeersTyped DEF Stay, Typed
    <3> QED BY <2>1, <2>2, <3>1, <3>2 DEF Perform
  <2>5. CASE BringUp \/ LoopExits
    <3>1. peer' = NoPeer \/ peer' = [NoPeer EXCEPT !.hci = "working"]
      BY <2>5 DEF BringUp, LoopExits
    <3>2. gap' = Off \/ gap' = gap
      BY <2>5 DEF BringUp, LoopExits
    <3>3. Off \in [disc : BOOLEAN, conn : BOOLEAN] /\ gap \in [disc : BOOLEAN, conn : BOOLEAN]
      BY DEF Off, Typed
    <3> QED BY <1>0, <3>1, <3>2, <3>3, PeersTyped
  <2>6. CASE Kick \/ TeardownTimeout \/ HciOff
    <3>1. gap' = Off \/ gap' = gap
      BY <2>6 DEF Kick, TeardownTimeout, HciOff
    <3>2. \/ peer' \in {peer, PowerOff(peer)} \/ Hangup
          \/ peer' = [peer EXCEPT !.hci = "off", !.link = "none", !.pairing = FALSE]
      BY <2>6 DEF Kick, TeardownTimeout, HciOff
    <3>3. Off \in [disc : BOOLEAN, conn : BOOLEAN] /\ gap \in [disc : BOOLEAN, conn : BOOLEAN]
      BY DEF Off, Typed
    <3>4. peer' \in Peers
      BY <1>0, <3>2, PeersTyped DEF Hangup
    <3> QED BY <3>1, <3>3, <3>4
  <2>7. CASE Press \/ Lift \/ LongPress
    BY <2>1, <2>2, <2>3, <2>7 DEF Press, Lift, LongPress, radioVars
  <2>8. CASE Approach \/ Paired \/ PairingFails \/ Opened \/ OpenFails \/ Closed
    <3>1. gap' = gap \/ \E s \in {"off", "advertising", "fail", "paired", "connectable"} : Enter(s)
      BY <2>8 DEF Approach, Paired, PairingFails, Opened, OpenFails, Closed, Stay
    <3>2. [peer EXCEPT !.link = "none"] \in Peers
      BY <1>0, PeersTyped
    <3>3. peer' \in Peers
      BY <1>0, <2>8, <3>2, PeersTyped DEF Approach, Paired, PairingFails, Opened,
         OpenFails, Closed
    <3> QED BY <3>1, <3>3, EnterTyped DEF Typed
  <2> QED BY <2>2, <2>4, <2>5, <2>6, <2>7, <2>8
      DEF vars, Next, Nsh, Runner, Teardown, Outside, Start, StopCheck, StopPost,
         DispatchCheck,
          DispatchPost, WaitOver, TakeResult, WaiterFrees, RunDone, RunnerFrees,
          RunnerPosts,
          DurationOver, Ended, callerKept, radioVars
<1> QED BY <1>1, <1>2, <1>3 DEF Typed, Peers, Pumps, ImuCaps

LEMMA SwitchesNext == Typed /\ SwitchesTyped /\ [Next]_vars => SwitchesTyped'
<1> SUFFICES ASSUME Typed, SwitchesTyped, [Next]_vars PROVE SwitchesTyped'
  OBVIOUS
<1>1. /\ pid' \in BOOLEAN /\ timer' \in BOOLEAN /\ kick' \in BOOLEAN
      /\ stopper' \in {"idle", "checked"} /\ cid' \in BOOLEAN
  BY DEF SwitchesTyped, vars, Next, Nsh, Runner, Teardown, Outside, Start, StopCheck,
     StopPost,
         DispatchCheck, DispatchPost, WaitOver, TakeResult, WaiterFrees, Run, RunDone,
         RunnerFrees,
         RunnerPosts, Kick, TeardownTimeout, HciOff, LoopExits, Press, Lift, LongPress,
         Approach, Paired,
         PairingFails, Opened, OpenFails, Closed, DurationOver, BringUp, Ended,
         callerKept, lifeVars,
         radioVars, radioKept, SamplerOff
<1>2. odr' \in {833, 416, 104} /\ late' \subseteq {"press", "imu_cap", "rate"}
  <2>0. odr \in {833, 416, 104} /\ late \subseteq {"press", "imu_cap", "rate"}
    BY DEF SwitchesTyped
  <2>1. ASSUME NEW rate \in {833, 416, 104}, RestoreOdr(rate)
        PROVE  odr' \in {833, 416, 104} /\ late' \subseteq {"press", "imu_cap", "rate"}
    <3>1. odr' \in {833, 416, 104} /\ late' \in {late, late \ {"rate"}, late \cup {"rate"}}
      BY <2>1 DEF RestoreOdr
    <3> QED BY <2>0, <3>1
  <2>2. CASE ImuCapEnter \/ ImuCapExit \/ SamplerOff \/ UNCHANGED <<odr, late>>
    <3>1. \/ RestoreOdr(104) \/ RestoreOdr(odr) \/ UNCHANGED <<odr, late>>
          \/ odr' = 104 /\ late' \in {late, late \cup {"imu_cap"}}
      BY <2>2 DEF ImuCapEnter, ImuCapExit, SamplerOff, pumpVars
    <3>2. CASE odr' = 104 /\ late' \in {late, late \cup {"imu_cap"}}
      BY <2>0, <3>2
    <3>3. CASE RestoreOdr(104)
      BY <2>1, <3>3
    <3>4. CASE RestoreOdr(odr)
      BY <2>0, <2>1, <3>4
    <3>5. CASE UNCHANGED <<odr, late>>
      BY <2>0, <3>5
    <3> QED BY <3>1, <3>2, <3>3, <3>4, <3>5
  <2>3. CASE Run
    BY <2>0, <2>2, <2>3 DEF Run, Perform, pumpVars
  <2>4. CASE Kick \/ TeardownTimeout \/ Closed \/ DurationOver
    BY <2>2, <2>4 DEF Kick, TeardownTimeout, Closed, DurationOver, pumpVars
  <2>5. CASE LongPress \/ BringUp
    BY <2>0, <2>5 DEF LongPress, BringUp
  <2> QED BY <2>2, <2>3, <2>4, <2>5
      DEF vars, Next, Nsh, Runner, Teardown, Outside, Start, StopCheck, StopPost,
         DispatchCheck, DispatchPost, WaitOver, TakeResult, WaiterFrees, RunDone,
         RunnerFrees, RunnerPosts, HciOff, LoopExits, Press, Lift, Approach, Paired,
         PairingFails, Opened, OpenFails, Ended, callerKept, pumpVars, radioKept
<1>3. button' \in {"up", "down", "held", "long"}
  BY DEF SwitchesTyped, vars, Next, Nsh, Runner, Teardown, Outside, Start, StopCheck,
     StopPost, DispatchCheck, DispatchPost, WaitOver, TakeResult, WaiterFrees, Run,
     RunDone, RunnerFrees, RunnerPosts, Kick, TeardownTimeout, HciOff, LoopExits, Press,
     Lift, LongPress, Approach, Paired, PairingFails, Opened, OpenFails, Closed,
     DurationOver, BringUp, Ended, callerKept, radioKept, SamplerOff
<1>4. stray' \in BOOLEAN
  <2>1. CASE PairingFails
    <3>1. stray' = (stray \/ peer.link = "open")
      BY <2>1, Zenon DEF PairingFails
    <3> QED BY <3>1
  <2>2. CASE Opened
    <3>1. stray' = (bt \in {"off", "fail"})
      BY <2>2, Zenon DEF Opened
    <3> QED BY <3>1
  <2>3. CASE BringUp \/ Closed
    BY <2>3 DEF BringUp, Closed
  <2>4. CASE stray' = stray
    BY <2>4 DEF SwitchesTyped
  <2> QED BY <2>1, <2>2, <2>3, <2>4 DEF vars, Next, Nsh, Runner, Teardown, Outside, Start,
     StopCheck, StopPost, DispatchCheck, DispatchPost, WaitOver, TakeResult, WaiterFrees, Run,
     RunDone, RunnerFrees, RunnerPosts, Kick, TeardownTimeout, HciOff, LoopExits, Press,
     Lift, LongPress, Approach, Paired, PairingFails, Opened, OpenFails, Closed,
     DurationOver, BringUp, Ended, callerKept, radioKept, radioVars
<1> QED BY <1>1, <1>2, <1>3, <1>4 DEF SwitchesTyped

\* Every variable keeps its type.
THEOREM DaemonTypeCorrect == Spec => []TypeOK
<1>1. Init => Typed /\ SwitchesTyped /\ AInv /\ BtTyped
  <2>1. Init => Typed /\ AInv /\ BtTyped
    BY QInvInit, AInvInit, BtTypedInit DEF QInv
  <2>2. Init => SwitchesTyped
    <3> SUFFICES ASSUME Init PROVE SwitchesTyped
      OBVIOUS
    <3>1. /\ pid = FALSE /\ timer = FALSE /\ kick = FALSE /\ stopper = "idle" /\ odr = 833
          /\ cid = FALSE /\ button = "up" /\ late = {} /\ stray = FALSE
      BY DEF Init
    <3> QED BY <3>1 DEF SwitchesTyped
  <2> QED BY <2>1, <2>2
<1>2. Typed /\ SwitchesTyped /\ AInv /\ BtTyped /\ [Next]_vars
        => (Typed /\ SwitchesTyped /\ AInv /\ BtTyped)'
  BY TypedNext, SwitchesNext, AInvNext, BtTypedNext
<1>3. Typed /\ SwitchesTyped /\ AInv /\ BtTyped => TypeOK
  <2>1. \A n \in 0 .. 1 : n \in 0 .. 2
    OBVIOUS
  <2>2. AInv => act \in [kind : Kinds \cup {"none"},
              waiter : {"idle", "checked", "waiting", "woken", "freeing"},
              runner : {"idle", "queued", "dropped", "ran", "freeing", "posting"},
              done : BOOLEAN, gaveUp : BOOLEAN, freed : 0..2]
    BY <2>1 DEF AInv, ActTyped
  <2> QED BY <2>2 DEF Typed, SwitchesTyped, BtTyped, TypeOK
<1> QED BY <1>1, <1>2, <1>3, PTL DEF Spec

-----------------------------------------------------------------------------
(* The parts together *)

ShellOf == INSTANCE BtShellProofs WITH
  MaxSessions <- MaxShells,
  mode <- shMode, gen <- shGen, child <- shChild, pipe <- shPipe, reader <- shReader,
  out <- shOut, pending <- shPending, pump <- shPump, leave <- shLeave,
  pumpTimer <- shPumpTimer, drain <- shDrain, tx <- shTx, told <- shTold,
  imuOn <- shImuOn, loop <- shLoop, blind <- shBlind, sessions <- shSessions

CaptureOf == INSTANCE BtCaptureProofs WITH
  MaxSessions <- MaxCaptures,
  dev <- capDev, sem <- capSem, writer <- capWriter, result <- capResult,
  taken <- capTaken, tx <- capTx, wire <- capWire, cap <- capMode, imuCap <- capImuCap,
  imuOn <- capImuOn, loop <- capLoop, mixed <- capMixed

LEMMA PartsAssumed == ShellOf!ShellAssumption /\ CaptureOf!CaptureAssumption
BY BluetoothAssumption
   DEF ShellOf!ShellAssumption, Shell!ShellAssumption, Shell!TxRoomAssumption,
       ShellOf!TxRoomAssumption, CaptureOf!CaptureAssumption, Capture!CaptureAssumption,
       Capture!TxRoomAssumption, CaptureOf!TxRoomAssumption

\* A step of Bluetooth is one of one part and leaves the others where they are.
LEMMA DaemonBehaves == BtSpec => Spec
<1>1. BtInit => Init
  BY DEF BtInit
<1>2. [BtNext]_allVars => [Next]_vars
  BY DEF BtNext, allVars, InDaemon, InCapture, InShell
<1> QED BY <1>1, <1>2, PTL DEF BtSpec, Spec

LEMMA ShellBehaves == BtSpec => ShellOf!Spec
<1>1. BtInit => ShellOf!Init
  BY DEF BtInit, Shell!Init, ShellOf!Init, Shell!NoReader, Shell!NoPost, Shell!Idle,
         ShellOf!NoReader, ShellOf!NoPost, ShellOf!Idle, Shell!Silent, ShellOf!Silent
<1>2. [BtNext]_allVars => [ShellOf!Next]_(ShellOf!vars)
  <2>1. Shell!Next => ShellOf!Next
    BY DEF
        Shell!Idle, ShellOf!Idle, Shell!NoPost, ShellOf!NoPost, Shell!NoReader,
        ShellOf!NoReader, Shell!InLoop, ShellOf!InLoop, Shell!Active, ShellOf!Active,
        Shell!Say, ShellOf!Say, Shell!ChildExits, ShellOf!ChildExits, Shell!readerKept,
        ShellOf!readerKept, Shell!ReaderStep, ShellOf!ReaderStep, Shell!ReaderTakes,
        ShellOf!ReaderTakes, Shell!ReaderPosts, ShellOf!ReaderPosts, Shell!ReaderStops,
        ShellOf!ReaderStops, Shell!ReaderLeaves, ShellOf!ReaderLeaves, Shell!Cleanup,
        ShellOf!Cleanup, Shell!CleanupEnd, ShellOf!CleanupEnd, Shell!Enter, ShellOf!Enter,
        Shell!Answered, ShellOf!Answered, Shell!DrainedNow, ShellOf!DrainedNow,
        Shell!enterKept, ShellOf!enterKept, Shell!ModeShell, ShellOf!ModeShell,
        Shell!ModeShellFails, ShellOf!ModeShellFails, Shell!UsbShell, ShellOf!UsbShell,
        Shell!UsbTelemetry, ShellOf!UsbTelemetry, Shell!loopKept, ShellOf!loopKept,
        Shell!RunPump, ShellOf!RunPump, Shell!RunExit, ShellOf!RunExit, Shell!PumpTimer,
        ShellOf!PumpTimer, Shell!DrainTimeout, ShellOf!DrainTimeout, Shell!Connect,
        ShellOf!Connect, Shell!Disconnect, ShellOf!Disconnect, Shell!Emit, ShellOf!Emit,
        Shell!SetImu, ShellOf!SetImu, Shell!CanSend, ShellOf!CanSend, Shell!Sent,
        ShellOf!Sent,
        Shell!Child, ShellOf!Child, Shell!Reader, ShellOf!Reader, Shell!Commands,
        ShellOf!Commands, Shell!Callbacks, ShellOf!Callbacks, Shell!Channel,
        ShellOf!Channel,
        Shell!Next, ShellOf!Next, Shell!outVars, ShellOf!outVars, Shell!postVars,
        ShellOf!postVars, Shell!ArbiterSends, ShellOf!ArbiterSends, Shell!Drained, ShellOf!Drained,
        Shell!RequestSend, ShellOf!RequestSend, Shell!SetChannel, ShellOf!SetChannel,
        Shell!HasRespRoom, ShellOf!HasRespRoom, Shell!FrameRingFull, ShellOf!FrameRingFull,
        Shell!EnqueueResponse, ShellOf!EnqueueResponse, Shell!EnqueueFrame,
        ShellOf!EnqueueFrame, Shell!OnCanSendNow, ShellOf!OnCanSendNow, Shell!Silent,
        ShellOf!Silent
  <2> QED BY <2>1 DEF BtNext, allVars, InDaemon, InCapture, InShell, shVars, ShellOf!vars
<1> QED BY <1>1, <1>2, PTL DEF BtSpec, ShellOf!Spec

LEMMA CaptureBehaves == BtSpec => CaptureOf!Spec
<1>1. BtInit => CaptureOf!Init
  BY DEF BtInit, Capture!Init, CaptureOf!Init, Capture!NoCapture, CaptureOf!NoCapture,
         Capture!NoImuCap, CaptureOf!NoImuCap, Capture!Silent, CaptureOf!Silent,
         Capture!Nothing, CaptureOf!Nothing, Capture!Item, CaptureOf!Item
<1>2. [BtNext]_allVars => [CaptureOf!Next]_(CaptureOf!vars)
  <2>1. Capture!Next => CaptureOf!Next
    BY DEF
        Capture!writerVars, CaptureOf!writerVars, Capture!loopVars, CaptureOf!loopVars,
        Capture!Item, CaptureOf!Item, Capture!Header, CaptureOf!Header, Capture!Record,
        CaptureOf!Record, Capture!Finished, CaptureOf!Finished, Capture!Truncated,
        CaptureOf!Truncated, Capture!Sample, CaptureOf!Sample, Capture!Reply,
        CaptureOf!Reply,
        Capture!Nothing, CaptureOf!Nothing, Capture!LeftUnread, CaptureOf!LeftUnread,
        Capture!LetGo, CaptureOf!LetGo,
        Capture!NoCapture, CaptureOf!NoCapture, Capture!NoImuCap, CaptureOf!NoImuCap,
        Capture!Reset, CaptureOf!Reset, Capture!WriterClosed, CaptureOf!WriterClosed,
        Capture!ReaderClosed, CaptureOf!ReaderClosed, Capture!Notify, CaptureOf!Notify,
        Capture!WriterStep, CaptureOf!WriterStep, Capture!Open, CaptureOf!Open,
        Capture!Register, CaptureOf!Register, Capture!Write, CaptureOf!Write,
        Capture!Wait, CaptureOf!Wait, Capture!PushesOut, CaptureOf!PushesOut,
        Capture!Return, CaptureOf!Return, Capture!Finalize,
        CaptureOf!Finalize, Capture!Poll, CaptureOf!Poll, Capture!Interrupt,
        CaptureOf!Interrupt, Capture!AbortSession, CaptureOf!AbortSession, Capture!Kill,
        CaptureOf!Kill, Capture!Close, CaptureOf!Close, Capture!AtLoop, CaptureOf!AtLoop,
        Capture!Connect, CaptureOf!Connect, Capture!Disconnect, CaptureOf!Disconnect,
        Capture!Send, CaptureOf!Send, Capture!Forwarding, CaptureOf!Forwarding,
        Capture!SetImu,
        CaptureOf!SetImu, Capture!Emit, CaptureOf!Emit, Capture!ImuCapEnter,
        CaptureOf!ImuCapEnter, Capture!ImuCapExit, CaptureOf!ImuCapExit, Capture!CapOpen,
        CaptureOf!CapOpen, Capture!CapEnter, CaptureOf!CapEnter, Capture!CapRefuse,
        CaptureOf!CapRefuse, Capture!CapClose, CaptureOf!CapClose, Capture!Throttle,
        CaptureOf!Throttle, Capture!PollIn, CaptureOf!PollIn, Capture!Paced,
        CaptureOf!Paced,
        Capture!BackPressure, CaptureOf!BackPressure, Capture!ReadRecord,
        CaptureOf!ReadRecord,
        Capture!CapExit, CaptureOf!CapExit, Capture!ReadEnd, CaptureOf!ReadEnd,
        Capture!DaemonEnds, CaptureOf!DaemonEnds, Capture!Reading, CaptureOf!Reading,
        Capture!Writer, CaptureOf!Writer, Capture!RunLoop, CaptureOf!RunLoop, Capture!Next,
        CaptureOf!Next, Capture!Silent, CaptureOf!Silent, Capture!Drained,
        CaptureOf!Drained,
        Capture!RequestSend, CaptureOf!RequestSend, Capture!SetChannel,
        CaptureOf!SetChannel,
        Capture!HasRespRoom, CaptureOf!HasRespRoom, Capture!FrameRingFull,
        CaptureOf!FrameRingFull, Capture!EnqueueResponse, CaptureOf!EnqueueResponse,
        Capture!EnqueueFrame, CaptureOf!EnqueueFrame, Capture!Outgoing, CaptureOf!Outgoing,
        Capture!OnCanSendNow, CaptureOf!OnCanSendNow
  <2> QED BY <2>1 DEF BtNext, allVars, InDaemon, InCapture, InShell, capVars, CaptureOf!vars
<1> QED BY <1>1, <1>2, PTL DEF BtSpec, CaptureOf!Spec

PartOK == part \in {"daemon", "capture", "shell"}

\* Every variable of the daemon, of captures and of the shell keeps its type, whatever
\* crosses a teardown: queues, posts and counters stay within their rooms.
THEOREM EveryTypeOK == BtSpec => []AllTypesOK
<1>1. BtSpec => []PartOK
  <2>1. BtInit => PartOK
    BY DEF BtInit, PartOK
  <2>2. PartOK /\ [BtNext]_allVars => PartOK'
    BY DEF PartOK, BtNext, allVars, InDaemon, InCapture, InShell
  <2> QED BY <2>1, <2>2, PTL DEF BtSpec
<1>2. BtSpec => []ShellOf!TypeOK
  BY PartsAssumed, ShellBehaves, ShellOf!TypeCorrect, PTL
<1>3. BtSpec => []CaptureOf!TypeOK
  BY PartsAssumed, CaptureBehaves, CaptureOf!TypeCorrect, PTL
<1>4. ShellOf!TypeOK => Shell!TypeOK
  BY DEF ShellOf!TypeOK, Shell!TypeOK
<1>5. CaptureOf!TypeOK => Capture!TypeOK
  BY DEF CaptureOf!TypeOK, Capture!TypeOK, CaptureOf!Items, Capture!Items,
         CaptureOf!LeftUnread, Capture!LeftUnread, CaptureOf!Header, Capture!Header,
         CaptureOf!Record, Capture!Record, CaptureOf!Truncated, Capture!Truncated,
         CaptureOf!Sample, Capture!Sample, CaptureOf!Reply, Capture!Reply,
         CaptureOf!Nothing, Capture!Nothing, CaptureOf!Item, Capture!Item
<1>6. PartOK /\ TypeOK /\ Shell!TypeOK /\ Capture!TypeOK => AllTypesOK
  BY DEF PartOK, AllTypesOK
<1> QED BY <1>1, <1>2, <1>3, <1>4, <1>5, <1>6, DaemonBehaves, DaemonTypeCorrect, PTL

\* A writer sleeps only while the ring of its live session is full: every store, read
\* and end of a session reaches it (btcap_notify_all_locked).
THEOREM WakeupIsNotLost == BtSpec => []NoLostWakeup
<1>1. BtSpec => []CaptureOf!NoLostWakeup
  BY PartsAssumed, CaptureBehaves, CaptureOf!WakeupNotLost, PTL
<1>2. CaptureOf!NoLostWakeup => NoLostWakeup
  BY DEF CaptureOf!NoLostWakeup, NoLostWakeup, Capture!NoLostWakeup
<1> QED BY <1>1, <1>2, PTL

\* When capture_deinit answers 0, the run loop has read every record of the session,
\* unless the daemon ended, or refused MODE CAPTURE, with the session in its hands.
THEOREM CompletedHasBeenRead == BtSpec => CompletedIsDrained
<1>1. BtSpec => CaptureOf!CompletedIsDrained
  BY PartsAssumed, CaptureBehaves, CaptureOf!OkIsDrained, PTL
<1>2. [capResult' = "ok" /\ capResult # "ok" => capTaken >= Payload]_(CaptureOf!vars)
        => [capResult' = "ok" /\ capResult # "ok" => capTaken >= Payload]_(Capture!vars)
  BY DEF CaptureOf!vars, Capture!vars
<1> QED BY <1>1, <1>2, PTL
    DEF CaptureOf!CompletedIsDrained, CompletedIsDrained, Capture!CompletedIsDrained

\* On one channel the host receives a session in order, with nothing in between and
\* none missing, while nothing has been mixed into its stream by the host's commands, by
\* IMU_CAP mode, or by a frame that pushed out its tail.
THEOREM PayloadArrivesInOrder == BtSpec => PayloadContiguous
<1>1. BtSpec => CaptureOf!PayloadContiguous
  BY PartsAssumed, CaptureBehaves, CaptureOf!PayloadInStep, PTL
<1>2. [~capMixed /\ capWire'.kind = "payload" /\ capWire' # capWire /\ capWire # CaptureOf!Nothing =>
        \/ capWire'.k = 0
        \/ capWire.kind = "payload" /\ capWire.gen = capWire'.gen /\ capWire'.k = capWire.k + 1
       ]_(CaptureOf!vars)
        => [~capMixed /\ capWire'.kind = "payload" /\ capWire' # capWire /\ capWire # Capture!Nothing =>
        \/ capWire'.k = 0
        \/ capWire.kind = "payload" /\ capWire.gen = capWire'.gen /\ capWire'.k = capWire.k + 1
       ]_(Capture!vars)
  BY DEF CaptureOf!vars, Capture!vars, CaptureOf!Nothing, Capture!Nothing, CaptureOf!Item,
         Capture!Item
<1> QED BY <1>1, <1>2, PTL
    DEF CaptureOf!PayloadContiguous, PayloadContiguous, Capture!PayloadContiguous

\* A shell's end is on its way once its child has gone, and while it is being started:
\* a post for shell_exit_action, the reader that will make one, or the run loop inside
\* btsensor_shell_enter or the teardown.
THEOREM EndOfAShellIsOwed == BtSpec => []EndIsOwed
<1>1. BtSpec => []ShellOf!EndIsOwed
  BY PartsAssumed, ShellBehaves, ShellOf!EndOwed, PTL
<1>2. ShellOf!EndIsOwed => EndIsOwed
  BY DEF ShellOf!EndIsOwed, EndIsOwed, Shell!EndIsOwed, Shell!InLoop, ShellOf!InLoop,
         Shell!Active, ShellOf!Active, Shell!Idle, ShellOf!Idle
<1> QED BY <1>1, <1>2, PTL

\* Output buffered on an open channel is on its way to the host, in the reader, the run
\* loop's list, the pump timer or the arbiter, or its last visit came to nothing in one
\* of the three ways the code has, whatever the size of the buffer and whoever entered
\* the shell.
THEOREM OutputIsOnItsWay == BtSpec => []OutputMoves
<1>1. BtSpec => []ShellOf!OutputMoves
  BY PartsAssumed, ShellBehaves, ShellOf!OutputOnItsWay, PTL
<1>2. ShellOf!OutputMoves => OutputMoves
  BY DEF ShellOf!OutputMoves, OutputMoves, Shell!OutputMoves, Shell!InLoop, ShellOf!InLoop,
         Shell!Active, ShellOf!Active, Shell!Idle, ShellOf!Idle, Shell!LookOwed,
         ShellOf!LookOwed
<1> QED BY <1>1, <1>2, PTL

\* The host is told OK, and telemetry has been sent, before its bytes go to the child
\* (MODE SHELL, and the drain the switch waits for).
THEOREM BytesFollowTheReply == BtSpec => SwitchAfterReply
<1>1. BtSpec => ShellOf!SwitchAfterReply
  BY PartsAssumed, ShellBehaves, ShellOf!SwitchedAfterReply, PTL
<1>2. [shMode # "shell" /\ shMode' = "shell" /\ shTx' # shTx
         => shTold' /\ ShellOf!Drained(shTx')]_(ShellOf!vars)
        => [shMode # "shell" /\ shMode' = "shell" /\ shTx' # shTx
              => shTold' /\ Shell!Drained(shTx')]_(Shell!vars)
  BY DEF ShellOf!vars, Shell!vars, ShellOf!Drained, Shell!Drained
<1> QED BY <1>1, <1>2, PTL
    DEF ShellOf!SwitchAfterReply, SwitchAfterReply, Shell!SwitchAfterReply

\* The exit of a child, which its reader posts with its generation, ends its own session,
\* never a later one, however late the run loop comes to it.
THEOREM ExitEndsItsOwn == BtSpec => OwnExitOnly
<1>1. BtSpec => ShellOf!OwnExitOnly
  BY PartsAssumed, ShellBehaves, ShellOf!ExitIsOwn, PTL
<1>2. [shLeave.queued /\ ~shLeave'.queued /\ shLoop'.at = "joining"
         => shReader.at = "done"]_(ShellOf!vars)
        => [shLeave.queued /\ ~shLeave'.queued /\ shLoop'.at = "joining"
              => shReader.at = "done"]_(Shell!vars)
  BY DEF ShellOf!vars, Shell!vars
<1> QED BY <1>1, <1>2, PTL
    DEF ShellOf!OwnExitOnly, OwnExitOnly, Shell!OwnExitOnly
===============================================================================
