------------------------------- MODULE Drivebase ------------------------------
(***************************************************************************)
(* The drivebase side of the hub but for its commands' way through the     *)
(* system, which is DrivebaseIpc: the ring of /dev/drivebase               *)
(* (DrivebaseRing, extended), what the device hands out                    *)
(* (DrivebaseSnapshot), the life of the daemon (DrivebaseDaemon), and the  *)
(* claims by which it has its motors to itself (LegoSensor).  Each part has*)
(* variables of its own; a behaviour is one of one part, the others rest in*)
(* their initial state.  Where two of them meet in the code, either has the*)
(* other's effect as an action: storing and popping a command also writes  *)
(* words of the status (CountCommand), attaching the handler is a step of  *)
(* the daemon as well as of the device, and the daemon's motors are        *)
(* descriptors of LegoSensor, whose loss is PortLost.                      *)
(***************************************************************************)
EXTENDS DrivebaseRing

CONSTANTS
  MaxPublish,                             \* of DrivebaseSnapshot
  Sides, StallLimit, MaxStarts, MaxMisses,\* of DrivebaseDaemon
  Ports, Sensors, Fds, MaxSyncs, MaxOpens \* of LegoSensor

VARIABLE part         \* ring, snapshot, daemon or sensor

VARIABLES             \* of DrivebaseSnapshot
  attached, lives, seq, status, publisher, written, active, buffers, states,
  reader, s1, s2, got, slot, since

VARIABLES             \* of DrivebaseDaemon
  dState, dRunning, dPosted, dShell, dStarts, dTask, dSettings, dInitialised, dAttached,
  dRt, dFrozen, dRtIdle, dPending, dStale, dPhantom, dMisses, dLastMisses, dConsecutive,
  dStreak

VARIABLES             \* of LegoSensor
  sThread, sDevice, sTarget, sSyncs, sBound, sBindGen, sOwner, sClaimGen, sTopic,
  sOpens, sOpen, sWriting, sGranted, sClaimed

snapshotVars ==
  <<attached, lives, seq, status, publisher, written, active, buffers, states, reader,
    s1, s2, got, slot, since>>

daemonVars ==
  <<dState, dRunning, dPosted, dShell, dStarts, dTask, dSettings, dInitialised, dAttached,
    dRt, dFrozen, dRtIdle, dPending, dStale, dPhantom, dMisses, dLastMisses,
    dConsecutive, dStreak>>

sensorVars ==
  <<sThread, sDevice, sTarget, sSyncs, sBound, sBindGen, sOwner, sClaimGen, sTopic,
    sOpens, sOpen, sWriting, sGranted, sClaimed>>

Snapshot == INSTANCE DrivebaseSnapshot

Daemon == INSTANCE DrivebaseDaemon WITH
  state <- dState, running <- dRunning, posted <- dPosted, shell <- dShell,
  starts <- dStarts, task <- dTask, settingsFrozen <- dSettings,
  initialised <- dInitialised, attached <- dAttached, rt <- dRt, frozen <- dFrozen,
  rtIdle <- dRtIdle, pending <- dPending, stale <- dStale, phantom <- dPhantom,
  misses <- dMisses, lastMisses <- dLastMisses, consecutive <- dConsecutive,
  streak <- dStreak

Sensor == INSTANCE LegoSensor WITH
  Devices <- Sensors, thread <- sThread, device <- sDevice, target <- sTarget,
  syncs <- sSyncs, bound <- sBound, bindGen <- sBindGen, owner <- sOwner,
  claimGen <- sClaimGen, topic <- sTopic, opens <- sOpens, open <- sOpen,
  writing <- sWriting, granted <- sGranted, claimed <- sClaimed

ASSUME DrivebaseAssumption ==
  Snapshot!PublishAssumption /\ Daemon!DaemonAssumption /\ Sensor!SensorAssumption

allVars == <<part, vars, snapshotVars, daemonVars, sensorVars>>

DriveInit ==
  /\ part \in {"ring", "snapshot", "daemon", "sensor"}
  /\ Init /\ Snapshot!Init /\ Daemon!Init /\ Sensor!Init

InRing == part = "ring" /\ UNCHANGED <<part, snapshotVars, daemonVars, sensorVars>>
InSnapshot == part = "snapshot" /\ UNCHANGED <<part, vars, daemonVars, sensorVars>>
InDaemon == part = "daemon" /\ UNCHANGED <<part, vars, snapshotVars, sensorVars>>
InSensor == part = "sensor" /\ UNCHANGED <<part, vars, snapshotVars, daemonVars>>

DriveNext ==
  \/ InRing /\ Next
  \/ InSnapshot /\ Snapshot!Next
  \/ InDaemon /\ Daemon!Next
  \/ InSensor /\ Sensor!Next

\* The daemon's tasks and its RT thread run, while they are what moves; a session without
\* data is ended after 600 ms, so one that lasts streams.
DriveSpec ==
  /\ DriveInit /\ [][DriveNext]_allVars
  /\ \A t \in 1 .. MaxStarts : WF_daemonVars(part = "daemon" /\ Daemon!Task(t))
  /\ WF_daemonVars(part = "daemon" /\ Daemon!Rt)
  /\ \A p \in Ports : WF_sensorVars(part = "sensor" /\ Sensor!Run(p))

-----------------------------------------------------------------------------
(* What the parts promise; DrivebaseRing's properties are in scope as they are. *)

\* A status read between two equal even counts has the daemon's words as they stand at
\* the end of the read; a state overtaken by at most one publication is a single one.
SnapshotsWhole == Snapshot!SnapshotsWhole

\* Every variable of the daemon keeps its type, teardown_done its bound.
DaemonTypeOK == Daemon!TypeOK

\* While the daemon task reopens motor ports, the RT thread is not inside a tick, also
\* when an earlier freeze timed out and was answered late.
ReclaimExclusive == Daemon!ReclaimExclusive

\* A tick that drives both motors has an encoder baseline taken after the last reopening.
DrivesOnFreshBaseline == Daemon!DrivesOnFreshBaseline

\* The RT thread runs only while settings are frozen, the motors are open and the
\* handler is attached.
RtContained == Daemon!RtContained

\* A freeze ends, so a lost recovery never wedges the RT thread.
FreezeEnds == Daemon!FreezeEnds

\* A daemon asked to stop, while it comes up or later, or stopped by the stall watchdog,
\* reaches "stopped".
StopCompletes == Daemon!StopCompletes

\* The sensor driver's tables keep their shape.
SensorTypeOK == Sensor!TypeOK

\* A class is bound only to a port in a session whose device is of that class.
BoundIsSynced == Sensor!BoundIsSynced

\* Of the descriptors granted the current binding of their class, one at most has not
\* given it up.
ClaimExclusive == Sensor!ClaimExclusive

\* A write reaches the port that was bound when its claim was granted.
WritesHitClaimedPort == Sensor!WritesHitClaimedPort

\* Once the binding of a class rests, its topic comes to show that port.
TopicSettles == Sensor!TopicSettles
=============================================================================
