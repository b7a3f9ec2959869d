------------------------------- MODULE Bluetooth -------------------------------
(***************************************************************************)
(* The Bluetooth side of the hub in one specification: the life of the     *)
(* daemon (BtDaemon, extended), captures (BtCapture) and the shell         *)
(* (BtShell).  Each part has its own variables and stands for the daemon   *)
(* as that part sees it; a behaviour is one of one part, the others rest   *)
(* in their initial state.                                                 *)
(***************************************************************************)
EXTENDS BtDaemon

CONSTANTS
  RespRoom, FrameRoom,  \* of the transmit arbiter, in both parts that use it
  Payload, RingRoom, MaxCaptures,  \* of BtCapture
  OutRoom, PipeRoom, MaxShells     \* of BtShell

VARIABLE
  part    \* daemon, capture or shell

VARIABLES   \* of BtCapture
  capDev, capSem, capWriter, capResult, capTaken, capTx, capWire, capMode,
  capImuCap, capImuOn, capLoop, capMixed

VARIABLES   \* of BtShell
  shMode, shGen, shChild, shPipe, shReader, shOut, shPending, shPump,
  shLeave, shPumpTimer, shDrain, shTx, shTold, shImuOn, shLoop, shBlind, shSessions

capVars ==
  <<capDev, capSem, capWriter, capResult, capTaken, capTx, capWire, capMode,
    capImuCap, capImuOn, capLoop, capMixed>>

shVars ==
  <<shMode, shGen, shChild, shPipe, shReader, shOut, shPending, shPump,
    shLeave, shPumpTimer, shDrain, shTx, shTold, shImuOn, shLoop, shBlind, shSessions>>

Capture == INSTANCE BtCapture WITH
  MaxSessions <- MaxCaptures,
  dev <- capDev, sem <- capSem, writer <- capWriter, result <- capResult,
  taken <- capTaken, tx <- capTx, wire <- capWire, cap <- capMode, imuCap <- capImuCap,
  imuOn <- capImuOn, loop <- capLoop, mixed <- capMixed

Shell == INSTANCE BtShell WITH
  MaxSessions <- MaxShells,
  mode <- shMode, gen <- shGen, child <- shChild, pipe <- shPipe, reader <- shReader,
  out <- shOut, pending <- shPending, pump <- shPump, leave <- shLeave,
  pumpTimer <- shPumpTimer, drain <- shDrain, tx <- shTx, told <- shTold,
  imuOn <- shImuOn, loop <- shLoop, blind <- shBlind, sessions <- shSessions

ASSUME BluetoothAssumption == Capture!CaptureAssumption /\ Shell!ShellAssumption

allVars == <<part, vars, capVars, shVars>>

BtInit ==
  /\ part \in {"daemon", "capture", "shell"}
  /\ Init /\ Capture!Init /\ Shell!Init

InDaemon == part = "daemon" /\ UNCHANGED <<part, capVars, shVars>>
InCapture == part = "capture" /\ UNCHANGED <<part, vars, shVars>>
InShell == part = "shell" /\ UNCHANGED <<part, vars, capVars>>

BtNext ==
  \/ InDaemon /\ Next
  \/ InCapture /\ Capture!Next
  \/ InShell /\ Shell!Next

\* A stage of the teardown is left by its event or by its timer.  The run loop returns
\* from its handlers and serves a source that keeps becoming ready; so does the stack,
\* which passes on the grants of a host that keeps granting.
BtFairness ==
  /\ WF_vars(part = "daemon" /\ Onward)
  /\ WF_capVars(part = "capture" /\ Capture!Return)
  /\ SF_capVars(part = "capture" /\ (Capture!Throttle \/ Capture!PollIn))
  /\ SF_capVars(part = "capture" /\ Capture!Send)

BtSpec == BtInit /\ [][BtNext]_allVars /\ BtFairness

-----------------------------------------------------------------------------
(* What the parts promise; BtDaemon's properties are in scope as they are. *)

\* Every variable of every part keeps its type.
AllTypesOK ==
  CASE part = "daemon" -> TypeOK
    [] part = "capture" -> Capture!TypeOK
    [] part = "shell" -> Shell!TypeOK

\* On one channel the host receives the header, every record and the terminator of a
\* session in order, with nothing in between and none missing, as long as it is silent,
\* IMU_CAP mode is off, and no newer frame pushes out the tail of a session that is over
\* (telemetry is paused, and on_read takes no record for which the ring has no room).
PayloadContiguous == Capture!PayloadContiguous

\* A writer sleeps only while the ring of its live session is full: a wake-up between
\* its look at the ring, under the lock, and its wait, after it, is not lost.
NoLostWakeup == Capture!NoLostWakeup

\* When capture_deinit answers 0, the run loop has read every record of the session,
\* unless the daemon ended, or refused MODE CAPTURE, with the session in its hands
\* (capture.h knows no such exception: 0 is "clean drain").
CompletedIsDrained == Capture!CompletedIsDrained

\* Output buffered on an open channel is on its way to the host, unless the last visit to
\* the buffer came to nothing: no channel, no MTU, or a buffer that one frame empties.
OutputMoves == Shell!OutputMoves

\* The host is told OK, and telemetry has been sent, before its bytes go to the child.
SwitchAfterReply == Shell!SwitchAfterReply

\* The exit of a child ends its own session, never a later one.
OwnExitOnly == Shell!OwnExitOnly

\* A shell's end is on its way once its child has gone, and while it is being started.
EndIsOwed == Shell!EndIsOwed

\* What a part has under way: a teardown, or a finalized session that is being
\* forwarded on an open channel.
Underway ==
  \/ part = "daemon" /\ Stopping
  \/ part = "capture" /\ Capture!Ending

\* It comes to its end: a teardown whether or not the channel and the controller answer,
\* by its timers; a session on its way to the host as long as the host goes on granting
\* frames (the strong fairness of Send) and leaves the stream alone.
UnderwayEnds == Underway ~> ~Underway
=============================================================================
