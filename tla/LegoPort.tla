-------------------------------- MODULE LegoPort --------------------------------
(***************************************************************************)
(* One I/O port: the device manager that scans its pins (stm32_legoport.c, *)
(* on the work queue), the LUMP engine that takes them over for a UART     *)
(* device (stm32_legoport_lump.c, one thread and one watchdog per port),   *)
(* its H-bridge (stm32_legoport_pwm.c) and the single descriptor of its    *)
(* character device (stm32_legoport_chardev.c), whose holder drives the    *)
(* bridge or waits for the port to change.                                 *)
(*                                                                         *)
(* A scan is one step: it ends in the class Classify gives the levels it   *)
(* sampled, or, when the plug moved during it, in any of the classes.  The *)
(* counter of events is kept as whether it moved since the waiter's        *)
(* snapshot, the generation of the handoff as whether it moved since the   *)
(* worker's copy.                                                          *)
(***************************************************************************)
EXTENDS Naturals

CONSTANTS
  Match,       \* LEGOPORT_AFFIRMATIVE_MATCH
  Streak,      \* LEGOPORT_UNOWNED_DISCONNECT_K
  MaxBackoff,  \* LUMP_BACKOFF_MAX
  MaxPlugs,    \* bound: moves of the plug
  MaxFaults,   \* bound: errors on the line
  MaxStalls,   \* bound: times the engine's thread is held up past the watchdog
  Scenes       \* the values <<timely, holder>> may have

ASSUME PortAssumption ==
  /\ Match \in Nat \ {0} /\ Streak \in Nat \ {0} /\ MaxBackoff \in Nat
  /\ MaxPlugs \in Nat /\ MaxFaults \in Nat /\ MaxStalls \in Nat
  /\ Scenes \subseteq BOOLEAN \X {"wait", "drive"}

-----------------------------------------------------------------------------
(* The classification of a scan *)

Lookup ==
  [gnd  |-> [gnd |-> "POWER",  vcc |-> "TURN",   pd |-> "LIGHT2"],
   vcc  |-> [gnd |-> "TRAIN",  vcc |-> "LMOTOR", pd |-> "LIGHT1"],
   pd   |-> [gnd |-> "MMOTOR", vcc |-> "XMOTOR", pd |-> "LIGHT"]]

\* The group of ID1: driven low and high, then left to its pull-up.
Id1Group(l) ==
  CASE l.id1 = <<1, 1>> -> "vcc"
    [] l.id1 = <<0, 0>> -> "gnd"
    [] OTHER            -> IF l.id1Free = 1 THEN "open" ELSE "pd"

\* The group of ID2, from the receive line: high, and high again once discharged.
Id2Group(l) ==
  IF l.rx = 0 THEN "gnd" ELSE IF l.rxAfter = 0 THEN "pd" ELSE "vcc"

\* What the levels say: ID2 against ID1, ID1 alone, ID1 against ID2, then ID2 alone.
Classify(l) ==
  CASE l.id2 = <<1, 0>>   -> "TOUCH"
    [] l.id2 = <<0, 1>>   -> "TPOINT"
    [] l.cross = <<1, 0>> -> IF Id1Group(l) = "open" THEN "3_PART" ELSE "NONE"
    [] l.cross = <<0, 1>> -> "EXPLOD"
    [] Id1Group(l) # "open" -> Lookup[Id1Group(l)][Id2Group(l)]
    [] OTHER -> IF Id2Group(l) = "gnd" THEN "UNKNOWN_UART" ELSE "NONE"

\* The levels of an empty port, of a device that talks and of a passive light.
Empty == [id2 |-> <<1, 1>>, id1 |-> <<0, 1>>, id1Free |-> 1, cross |-> <<1, 1>>,
          rx |-> 1, rxAfter |-> 1]
Talker == [Empty EXCEPT !.rx = 0]
Light == [Empty EXCEPT !.id1 = <<0, 0>>, !.rxAfter = 0]

\* A motor and a sensor both talk; the sensor asks for the supply rail.
Devices == {"none", "motor", "sensor", "light"}
Levels(d) == CASE d = "none" -> Empty [] d = "light" -> Light [] OTHER -> Talker
Talks(d) == d \in {"motor", "sensor"}
Classes == {Classify(Levels(d)) : d \in Devices}

-----------------------------------------------------------------------------

VARIABLES
  device, settled, plugs,      \* the plug; whether it was still for this scan
  timely, holder,   \* parameters of the behaviour: the engine's thread is not
                    \* held up for the time of 20 scans; what the descriptor is used for
  dcm,        \* the device manager: scan, final (S8_FINALIZE), owned, idle
  worker,     \* how far the worker is in legoport_invoke_handoff
  scan,       \* prev_type_id, match_count, and the streaks of the unowned rescan
  ctype,      \* confirmed_type
  cb, fresh,  \* handoff_cb is set; its generation is the worker's
  quiesce,    \* handoff_quiescent
  kt,         \* how far the engine's thread is
  wakeup, handed,   \* its semaphore and handoff_pending
  synced, peer,     \* LUMP_FLAG_SYNCED and the device of the session
  ret,        \* what the session ended with
  step, nap,  \* backoff_step, and the step slept
  armed, stall,     \* the watchdog and wdog_stall
  bridge, pinned, drove,  \* the H-bridge, its pinned flag; the descriptor drove it
  waiter, target, moved,  \* the caller of WAIT_*; event_counter moved since its snapshot
  unseen,     \* the wait has taken changes that the descriptor's snapshot has not
  begun,      \* event_counter is not 0
  sem,        \* state_change_sem
  faults, stalls    \* bounded by MaxFaults, MaxStalls

plugVars == <<device, settled, plugs, timely, holder>>
dcmVars == <<dcm, worker, scan>>
regVars == <<cb, fresh, quiesce>>
engineVars == <<kt, wakeup, handed, synced, peer, ret, step, nap>>
dogVars == <<armed, stall, stalls>>
bridgeVars == <<bridge, pinned, drove>>
waitVars == <<waiter, target, moved, unseen, begun, sem>>
vars == <<plugVars, dcmVars, ctype, regVars, engineVars, dogVars, bridgeVars, waitVars, faults>>

NoScan == [prev |-> "NONE", match |-> 0, rescan |-> FALSE,
           disc |-> 0, other |-> 0, otherType |-> "NONE"]

\* As stm32_legoport_initialize and stm32_legoport_lump_register leave a port.
Init ==
  /\ device \in Devices /\ settled = TRUE /\ plugs = 0 /\ \E s \in Scenes : timely = s[1] /\ holder = s[2]
  /\ dcm = "scan" /\ worker = "ready" /\ scan = NoScan /\ ctype = "NONE"
  /\ cb = TRUE /\ fresh = FALSE /\ quiesce = 0
  /\ kt = "waiting" /\ wakeup = 0 /\ handed = FALSE /\ synced = FALSE /\ peer = "none"
  /\ ret = "ok" /\ step = 0 /\ nap = 0
  /\ armed = FALSE /\ stall = FALSE /\ stalls = 0
  /\ bridge = "coast" /\ pinned = FALSE /\ drove = FALSE
  /\ waiter = "out" /\ target = TRUE /\ moved = FALSE
  /\ unseen = FALSE /\ begun = FALSE /\ sem = 0
  /\ faults = 0

-----------------------------------------------------------------------------
(* The plug *)

Plug(d) ==
  /\ d # device /\ (d = "none" \/ device = "none") /\ plugs < MaxPlugs
  /\ device' = d /\ settled' = FALSE /\ plugs' = plugs + 1
  /\ UNCHANGED <<timely, holder, dcmVars, ctype, regVars, engineVars, dogVars, bridgeVars, waitVars, faults>>

-----------------------------------------------------------------------------
(* The published class and its waiter *)

\* legoport_post_change: the semaphore is posted unless a post is there already.
PostMutant(t) ==
  /\ ctype' = t
  /\ IF t = ctype THEN UNCHANGED <<waiter, moved, begun, sem>>
     ELSE /\ moved' = TRUE /\ begun' = TRUE
          /\ waiter' = IF waiter = "asleep" THEN "checking" ELSE waiter
          /\ sem' = sem
  /\ UNCHANGED <<target, unseen>>

Post(t) ==
  /\ ctype' = t
  /\ IF t = ctype THEN UNCHANGED <<waiter, moved, begun, sem>>
     ELSE /\ moved' = TRUE /\ begun' = TRUE
          /\ waiter' = IF waiter = "asleep" THEN "checking" ELSE waiter
          /\ sem' = IF waiter = "asleep" THEN sem ELSE 1
  /\ UNCHANGED <<target, unseen>>

waitKept == <<begun, plugVars, dcmVars, ctype, regVars, engineVars, dogVars, bridgeVars, faults>>

Connected == ctype # "NONE"

\* WAIT_CONNECT and WAIT_DISCONNECT: a state reached since the snapshot returns at once.
WaitStart ==
  /\ holder = "wait" /\ waiter = "out"
  /\ target' \in BOOLEAN
  /\ IF moved /\ Connected = target' THEN moved' = FALSE /\ UNCHANGED waiter
     ELSE waiter' = "checking" /\ UNCHANGED moved
  /\ UNCHANGED <<waitKept, unseen, sem>>

\* stm32_legoport_wait_change: compare under the lock ...
WaitCheck ==
  /\ waiter = "checking"
  /\ waiter' = IF moved THEN "looking" ELSE "falling"
  /\ moved' = FALSE /\ unseen' = (moved \/ unseen)
  /\ UNCHANGED <<waitKept, target, sem>>

\* ... and wait without it.
WaitSleep ==
  /\ waiter = "falling"
  /\ IF sem > 0 THEN sem' = sem - 1 /\ waiter' = "checking"
     ELSE waiter' = "asleep" /\ UNCHANGED sem
  /\ UNCHANGED <<waitKept, target, moved, unseen>>

\* The state is read after the edge, and another edge waited for if it is not the one.
WaitLook ==
  /\ waiter = "looking"
  /\ IF Connected = target THEN waiter' = "out" /\ moved' = FALSE /\ unseen' = FALSE
     ELSE waiter' = "checking" /\ UNCHANGED <<moved, unseen>>
  /\ UNCHANGED <<waitKept, target, sem>>

\* The timeout, or a signal: the descriptor keeps the snapshot it had before the wait.
WaitEnds ==
  /\ waiter = "asleep" /\ waiter' = "out"
  /\ moved' = (moved \/ unseen) /\ unseen' = FALSE
  /\ UNCHANGED <<waitKept, target, sem>>

-----------------------------------------------------------------------------
(* The device manager's worker *)

InFlight == worker \in {"calling", "applying"}

\* The steps of the engine that are short against 20 scans of about 20 ms.
Brief ==
  \/ kt \in {"closing", "draining", "released", "registering"}
  \/ kt = "backoff" /\ nap = 0
  \/ kt = "waiting" /\ wakeup > 0

dcmKept == <<device, plugs, timely, holder, regVars, engineVars, dogVars, bridgeVars, faults>>

\* The end of a rescan of a port nobody took: back to the gate, or to a plain scan.
Rescanned(t) ==
  LET n == CASE t = "UNKNOWN_UART" -> 0
             [] t = "NONE" -> scan.disc + 1
             [] OTHER -> IF scan.otherType = t THEN scan.other + 1 ELSE 1
      kept == [scan EXCEPT !.rescan = FALSE,
                           !.disc = IF t \in {"NONE", "UNKNOWN_UART"} THEN n ELSE @,
                           !.other = IF t = "NONE" THEN @ ELSE n,
                           !.otherType = IF t \in {"NONE", "UNKNOWN_UART"} THEN @ ELSE t]
  IN IF n >= Streak
     THEN dcm' = "scan" /\ scan' = [kept EXCEPT !.match = 0, !.prev = "NONE"]
     ELSE dcm' = "idle" /\ scan' = kept

\* A reading of DCM_S8_FINALIZE that counts on past Match.
FinalizeMutant(t) ==
  LET m == IF t # scan.prev THEN 0 ELSE scan.match + 1
      next == [scan EXCEPT !.prev = t, !.match = m]
  IN  IF t # scan.prev \/ m < Match
      THEN /\ dcm' = "scan" /\ scan' = next
           /\ UNCHANGED <<worker, ctype, waitVars>>
      ELSE /\ Post(t)
           /\ IF scan.rescan THEN Rescanned(t) /\ UNCHANGED worker
              ELSE IF t = "UNKNOWN_UART"
              THEN dcm' = "final" /\ worker' = "entering" /\ scan' = next
              ELSE dcm' = "scan" /\ scan' = next /\ UNCHANGED worker

\* DCM_S8_FINALIZE on a reading: Match more like it confirm the class, a confirmed
\* UART is handed over.
Finalize(t) ==
  LET m == IF t # scan.prev THEN 0 ELSE IF scan.match < Match THEN scan.match + 1 ELSE Match
      next == [scan EXCEPT !.prev = t, !.match = m]
  IN  IF t # scan.prev \/ m < Match
      THEN /\ dcm' = "scan" /\ scan' = next
           /\ UNCHANGED <<worker, ctype, waitVars>>
      ELSE /\ Post(t)
           /\ IF scan.rescan THEN Rescanned(t) /\ UNCHANGED worker
              ELSE IF t = "UNKNOWN_UART"
              THEN dcm' = "final" /\ worker' = "entering" /\ scan' = next
              ELSE dcm' = "scan" /\ scan' = next /\ UNCHANGED worker

\* One whole scan.
Scan ==
  /\ dcm = "scan" /\ worker = "ready" /\ (timely => ~Brief)
  /\ \E t \in Classes :
       /\ settled => t = Classify(Levels(device))
       /\ Finalize(t)
  /\ settled' = TRUE
  /\ UNCHANGED dcmKept

\* The state is still S8_FINALIZE after a handoff whose generation had moved.
Again ==
  /\ dcm = "final" /\ worker = "ready" /\ (timely => ~Brief)
  /\ Finalize(scan.prev)
  /\ UNCHANGED <<dcmKept, settled>>

\* The gate of an unowned port opens.
Rearm ==
  /\ dcm = "idle" /\ worker = "ready"
  /\ dcm' = "scan"
  /\ scan' = [scan EXCEPT !.rescan = TRUE, !.match = 0, !.prev = "NONE"]
  /\ UNCHANGED <<dcmKept, settled, worker, ctype, waitVars>>

invokeKept == <<plugVars, ctype, cb, kt, synced, peer, ret, step, nap, dogVars, bridgeVars,
                waitVars, faults>>

\* legoport_invoke_handoff, its first section ...
InvokeEnter ==
  /\ worker = "entering"
  /\ worker' = IF cb THEN "calling" ELSE "falling"
  /\ fresh' = cb
  /\ UNCHANGED <<invokeKept, dcm, scan, quiesce, wakeup, handed>>

\* ... lump_handoff_cb, without the lock ...
HandoffCb ==
  /\ worker = "calling" /\ worker' = "applying"
  /\ handed' = TRUE /\ wakeup' = wakeup + 1
  /\ UNCHANGED <<invokeKept, dcm, scan, regVars>>

\* ... and its second: a handoff that was withdrawn meanwhile changes nothing.
InvokeApply ==
  /\ worker = "applying" /\ worker' = "ready"
  /\ dcm' = IF fresh THEN "owned" ELSE dcm
  /\ quiesce' = IF kt = "draining" THEN quiesce + 1 ELSE quiesce
  /\ UNCHANGED <<invokeKept, scan, fresh, wakeup, handed>>

\* Nobody was registered when the class was confirmed.
InvokeUnowned ==
  /\ worker = "falling" /\ worker' = "ready" /\ dcm' = "idle"
  /\ scan' = [scan EXCEPT !.rescan = FALSE, !.disc = 0, !.other = 0, !.otherType = "NONE"]
  /\ UNCHANGED <<invokeKept, regVars, wakeup, handed>>

-----------------------------------------------------------------------------
(* The engine's thread *)

sessionKept == <<plugVars, dcmVars, ctype, regVars, step, nap, stalls, waitVars, drove>>

\* Mutant of Take: the handoff flag outlives the handoff it announced.
TakeMutant ==
  /\ kt = "waiting" /\ wakeup > 0 /\ wakeup' = wakeup - 1
  /\ handed' = handed
  /\ IF handed
     THEN kt' = "search" /\ synced' = FALSE /\ peer' = "none"
          /\ pinned' = FALSE /\ bridge' = "coast"
     ELSE UNCHANGED <<kt, synced, peer, pinned, bridge>>
  /\ UNCHANGED <<sessionKept, ret, armed, stall, faults>>

\* A wakeup without a handoff is spurious.  lump_reset_session_state, then the pins
\* and the USART.
Take ==
  /\ kt = "waiting" /\ wakeup > 0 /\ wakeup' = wakeup - 1
  /\ handed' = FALSE
  /\ IF handed
     THEN kt' = "search" /\ synced' = FALSE /\ peer' = "none"
          /\ pinned' = FALSE /\ bridge' = "coast"
     ELSE UNCHANGED <<kt, synced, peer, pinned, bridge>>
  /\ UNCHANGED <<sessionKept, ret, armed, stall, faults>>

\* The search for the first frame has no bound.
Header ==
  /\ kt = "search" /\ Talks(device)
  /\ kt' = "info" /\ peer' = device
  /\ UNCHANGED <<sessionKept, wakeup, handed, synced, ret, armed, stall, bridge, pinned, faults>>

End(r) == kt' = "closing" /\ ret' = r /\ armed' = FALSE

\* The rest of the device's announcement does not come, or is not accepted.
SyncFails ==
  /\ kt \in {"search", "info"}
  /\ \/ kt = "info" /\ device # peer /\ UNCHANGED faults
     \/ Talks(device) /\ faults < MaxFaults /\ faults' = faults + 1
  /\ End("error")
  /\ UNCHANGED <<sessionKept, wakeup, handed, synced, peer, stall, bridge, pinned>>

\* SYNCED; a device that needs the rail is given it, against whoever drives the
\* bridge.  The watchdog is armed as the DATA loop is entered.
SyncEnds ==
  /\ kt = "info" /\ device = peer
  /\ kt' = "top" /\ synced' = TRUE
  /\ IF peer = "sensor" THEN pinned' = TRUE /\ bridge' = "rev"
     ELSE UNCHANGED <<pinned, bridge>>
  /\ stall' = FALSE /\ armed' = TRUE
  /\ UNCHANGED <<sessionKept, wakeup, handed, peer, ret, faults>>

loopKept == <<sessionKept, handed, synced, peer, bridge, pinned>>

\* lump_data_loop: the stall flag ...
LoopTop ==
  /\ kt = "top"
  /\ IF stall THEN End("error") ELSE kt' = "receive" /\ UNCHANGED <<ret, armed>>
  /\ UNCHANGED <<loopKept, wakeup, stall, faults>>

\* ... frames and keepalives: six in a row without data are the end ...
LoopReceives ==
  /\ kt = "receive" /\ kt' = "poll"
  /\ UNCHANGED <<loopKept, wakeup, ret, armed, stall, faults>>

LoopEnds ==
  /\ kt = "receive"
  /\ \/ device # peer /\ UNCHANGED faults
     \/ device = peer /\ faults < MaxFaults /\ faults' = faults + 1
  /\ End("error")
  /\ UNCHANGED <<loopKept, wakeup, stall>>

\* ... the semaphore: a post that is not the watchdog's means to shut down ...
LoopPolls ==
  /\ kt = "poll"
  /\ IF wakeup = 0 THEN kt' = "pet" /\ UNCHANGED <<wakeup, ret, armed>>
     ELSE /\ wakeup' = wakeup - 1
          /\ IF stall THEN kt' = "top" /\ UNCHANGED <<ret, armed>> ELSE End("intr")
  /\ UNCHANGED <<loopKept, stall, faults>>

\* ... and the watchdog.
LoopPets ==
  /\ kt = "pet" /\ kt' = "top" /\ armed' = TRUE
  /\ UNCHANGED <<loopKept, wakeup, ret, stall, faults>>

\* lump_wdog_handler, of a thread that did not come round in two seconds.
WatchdogFires ==
  /\ armed /\ stalls < MaxStalls /\ stalls' = stalls + 1
  /\ armed' = FALSE /\ stall' = TRUE /\ wakeup' = wakeup + 1
  /\ UNCHANGED <<plugVars, dcmVars, ctype, regVars, kt, handed, synced, peer, ret, step, nap,
                 bridgeVars, waitVars, faults>>

endKept == <<plugVars, wakeup, peer, dogVars, bridgeVars, faults>>

\* The effect of stm32_legoport_release_uart, once no handoff is in flight.
Freed ==
  /\ dcm' = "scan" /\ scan' = NoScan /\ Post("NONE")
  /\ kt' = "released"

\* stm32_legoport_release_uart: the handoff is withdrawn, one under way waited for.
Release ==
  /\ kt = "closing"
  /\ cb' = FALSE /\ fresh' = FALSE
  /\ IF InFlight THEN kt' = "draining" /\ UNCHANGED <<dcm, scan, ctype, waitVars>>
     ELSE Freed
  /\ UNCHANGED <<endKept, worker, quiesce, handed, synced, ret, step, nap>>

Drain ==
  /\ kt = "draining" /\ quiesce > 0 /\ quiesce' = quiesce - 1
  /\ IF InFlight THEN UNCHANGED <<kt, dcm, scan, ctype, waitVars>> ELSE Freed
  /\ UNCHANGED <<endKept, worker, cb, fresh, handed, synced, ret, step, nap>>

\* A session that synced, or was told to end, is no failure.
Clean == ret # "error" \/ synced

\* The flags are cleared, the consumer told, the handoff registered again and the
\* length of the sleep chosen.  No handoff is in flight while none is registered.
RegisterMutant ==
  /\ kt = "released" /\ kt' = "backoff"
  /\ UNCHANGED <<cb, fresh>>
  /\ synced' = FALSE
  /\ nap' = IF Clean THEN 0 ELSE step
  /\ step' = IF Clean THEN 0 ELSE IF step < MaxBackoff THEN step + 1 ELSE step
  /\ UNCHANGED <<endKept, dcmVars, ctype, waitVars, quiesce, handed, ret>>

Register ==
  /\ kt = "released" /\ kt' = "backoff"
  /\ cb' = TRUE /\ fresh' = FALSE
  /\ synced' = FALSE
  /\ nap' = IF Clean THEN 0 ELSE step
  /\ step' = IF Clean THEN 0 ELSE IF step < MaxBackoff THEN step + 1 ELSE step
  /\ UNCHANGED <<endKept, dcmVars, ctype, waitVars, quiesce, handed, ret>>

Wake ==
  /\ kt = "backoff" /\ kt' = "waiting"
  /\ UNCHANGED <<endKept, dcmVars, ctype, waitVars, regVars, handed, synced, ret, step, nap>>

-----------------------------------------------------------------------------
(* The descriptor *)

driveKept == <<plugVars, dcmVars, ctype, regVars, engineVars, dogVars, faults, pinned, waiter,
               target, unseen, begun, sem>>

\* stm32_legoport_pwm_set_duty, _coast and _brake.
DriveMutant(b) ==
  /\ holder = "drive"
  /\ bridge' = b /\ drove' = TRUE
  /\ UNCHANGED <<driveKept, moved>>

Drive(b) ==
  /\ holder = "drive"
  /\ bridge' = IF pinned THEN bridge ELSE b
  /\ drove' = TRUE
  /\ UNCHANGED <<driveKept, moved>>

\* LEGOPORT_GET_DEVICE_INFO.
GetInfo ==
  /\ holder = "wait" /\ waiter = "out" /\ moved' = FALSE
  /\ UNCHANGED <<driveKept, bridge, drove>>

\* The descriptor is closed, and a bridge it left driving let go; it is opened again.
Reopen ==
  /\ waiter = "out"
  /\ bridge' = IF drove /\ ~pinned /\ bridge \in {"fwd", "rev"} THEN "coast" ELSE bridge
  /\ drove' = FALSE /\ moved' = begun
  /\ UNCHANGED driveKept

-----------------------------------------------------------------------------

Worker == Scan \/ Again \/ Rearm \/ InvokeEnter \/ HandoffCb \/ InvokeApply \/ InvokeUnowned

Engine ==
  \/ Take \/ Header \/ SyncFails \/ SyncEnds
  \/ LoopTop \/ LoopReceives \/ LoopEnds \/ LoopPolls \/ LoopPets
  \/ Release \/ Drain \/ Register \/ Wake

Next ==
  \/ \E d \in Devices : Plug(d)
  \/ Worker \/ Engine \/ WatchdogFires
  \/ WaitStart \/ WaitCheck \/ WaitSleep \/ WaitLook \/ WaitEnds
  \/ \E b \in {"coast", "brake", "fwd"} : Drive(b)
  \/ GetInfo \/ Reopen

Spec == Init /\ [][Next]_vars

-----------------------------------------------------------------------------
(* Properties *)

Streams == {"top", "receive", "poll", "pet"}
Session == {"search", "info", "closing"} \cup Streams

\* Every variable keeps its type.
TypeOK ==
  /\ device \in Devices /\ settled \in BOOLEAN /\ plugs \in 0 .. MaxPlugs
  /\ timely \in BOOLEAN /\ holder \in {"wait", "drive"}
  /\ dcm \in {"scan", "final", "owned", "idle"}
  /\ worker \in {"ready", "entering", "calling", "applying", "falling"}
  /\ scan \in [prev : Classes, match : 0 .. Match, rescan : BOOLEAN, disc : 0 .. Streak,
               other : 0 .. Streak, otherType : Classes]
  /\ ctype \in Classes
  /\ cb \in BOOLEAN /\ fresh \in BOOLEAN /\ quiesce \in 0 .. 1
  /\ kt \in Session \cup {"waiting", "draining", "released", "backoff"}
  /\ wakeup \in 0 .. MaxStalls + 2 /\ handed \in BOOLEAN
  /\ synced \in BOOLEAN /\ peer \in Devices /\ ret \in {"ok", "error", "intr"}
  /\ step \in 0 .. MaxBackoff /\ nap \in 0 .. MaxBackoff
  /\ armed \in BOOLEAN /\ stall \in BOOLEAN /\ stalls \in 0 .. MaxStalls
  /\ bridge \in {"coast", "brake", "fwd", "rev"} /\ pinned \in BOOLEAN /\ drove \in BOOLEAN
  /\ waiter \in {"out", "checking", "falling", "asleep", "looking"}
  /\ target \in BOOLEAN /\ moved \in BOOLEAN /\ unseen \in BOOLEAN
  /\ begun \in BOOLEAN /\ sem \in 0 .. 1
  /\ faults \in 0 .. MaxFaults

\* While the engine uses the pins as a UART, the device manager does not scan them:
\* it has parked the port, or is still in the call that handed it over.
PinsOwned == kt \in Session => dcm = "owned" \/ InFlight

\* The waiter of the port's descriptor never sleeps over a change it has not seen.
NoMissedEdge ==
  /\ waiter = "asleep" => ~moved
  /\ waiter = "falling" /\ moved => sem > 0

\* A device that needs the supply rail has it for as long as it streams, whatever
\* the holder of the port's descriptor does to the bridge.
SupplyHeld == kt \in Streams /\ peer = "sensor" => pinned /\ bridge = "rev"

\* Once the plug rests, the port comes to show it: a device that talks is in a
\* session that lasts, anything else is classified (or the engine still waits for
\* the first frame of a device that was pulled out before it).
PortSettles ==
  timely =>
    \A d \in Devices :
      <>[](device = d) =>
        <>[](IF Talks(d) THEN synced /\ peer = d
             ELSE ctype = Classify(Levels(d)) \/ kt = "search")

\* The rail is held only during a session.
SupplyEndsWithSession == pinned => kt \in Session

=============================================================================
