--------------------------- MODULE LegoPortSession ----------------------------
(***************************************************************************)
(* A port and the devices on it: who owns the pins, the bridge and the     *)
(* session (LegoPort, extended), and what a session is told by its device  *)
(* between Header and SyncEnds (LumpSync).  A behaviour is one of one      *)
(* part, the other rests in its initial state.                             *)
(***************************************************************************)
EXTENDS LegoPort

CONSTANTS MaxModes, ModeCounts, MaxBad, MaxRounds   \* of LumpSync

VARIABLE part   \* port or sync

VARIABLES       \* of LumpSync
  modes, left, rounds, state, flags, newMode, numModes, named, formatted, bad

syncVars == <<modes, left, rounds, state, flags, newMode, numModes, named, formatted, bad>>

Sync == INSTANCE LumpSync WITH Devices <- ModeCounts

ASSUME SessionAssumption == Sync!SyncAssumption

\* Of the states a part may rest in, one will do.
SessionInit ==
  /\ part \in {"port", "sync"} /\ Init /\ Sync!Init
  /\ (part = "port" => modes = 1)
  /\ (part = "sync" => device = "none")

SessionNext ==
  \/ part = "port" /\ UNCHANGED <<part, syncVars>> /\ Next
  \/ part = "sync" /\ UNCHANGED <<part, vars>> /\ Sync!Next

\* While the port is what moves, the work queue and the engine's thread run, and the
\* keepalives of a device that is gone add up.
SessionSpec ==
  /\ SessionInit /\ [][SessionNext]_<<part, vars, syncVars>>
  /\ WF_vars(part = "port" /\ Worker)
  /\ WF_vars(part = "port" /\ Engine)
  /\ SF_vars(part = "port" /\ device # peer /\ LoopEnds)

\* The scenes of the instance: the engine's thread keeps up, with either use of the
\* descriptor, or it does not while the descriptor drives the bridge.
TheScenes == {<<TRUE, "wait">>, <<TRUE, "drive">>, <<FALSE, "drive">>}

\* One scene is enough to see the supply rail outlive its session.
DriveScene == {<<TRUE, "drive">>}

\* Once the plug rests, a port that moves comes to show it (PortSettles): a device that
\* talks is in a session that lasts, anything else is classified.
MovingPortSettles == part = "port" => PortSettles

\* A device that is SYNCED has told its modes, and mode 0, selected by default, has its
\* name and its format, whatever the line loses.
DefaultModeDescribed == Sync!DefaultModeDescribed

=============================================================================
