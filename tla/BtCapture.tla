------------------------------- MODULE BtCapture -------------------------------
(***************************************************************************)
(* A capture on its way to the host: the application that exports it       *)
(* (apps/capture), /dev/btcap between them (stm32_btcap_chardev.c), and    *)
(* the Bluetooth daemon's capture mode (btsensor_capture_mode.c), which    *)
(* forwards it through the transmit arbiter and pauses telemetry meanwhile.*)
(* IMU_CAP mode (btsensor_imu_cap_mode.c) is another source of frames that *)
(* pauses telemetry.                                                       *)
(*                                                                         *)
(* Two threads: the application and the run loop of the daemon.  Every     *)
(* critical section of the device is one step; `loop' is where the run     *)
(* loop is inside a handler.  A session is a header, Payload records and a *)
(* terminator; one record fits a frame.                                    *)
(***************************************************************************)
EXTENDS BtTx

CONSTANTS
  Payload,       \* records of a session
  RingRoom,      \* records the device's ring holds
  MaxSessions    \* bound: sessions registered

CaptureAssumption ==
  /\ TxRoomAssumption
  /\ Payload \in Nat \ {0} /\ RingRoom \in Nat \ {0}
  /\ MaxSessions \in Nat

VARIABLES
  dev,       \* g_btcap: state, writer_done, fds, session_generation, ring
  sem,       \* writable_sem
  writer,    \* the application: where it is, records written
  result,    \* what capture_deinit answered last
  taken,     \* history: records of the session the run loop has read, or LeftUnread
  tx,        \* the arbiter
  wire,      \* the last item the host received on this channel
  cap,       \* g_cap
  imuCap,    \* g_imu_cap
  imuOn,     \* g_imu_on of bundle_emitter.c
  loop,      \* the handler the run loop is in
  mixed      \* history: the host, or IMU_CAP mode, has put something else into the
             \* stream of the session being forwarded, or pushed out part of it

writerVars == <<writer, result>>
loopVars == <<tx, wire, cap, imuCap, imuOn, loop, taken, mixed>>
vars == <<dev, sem, writer, result, taken, tx, wire, cap, imuCap, imuOn, loop, mixed>>

Item(kind, g, k) == [kind |-> kind, gen |-> g, k |-> k]
Header(g) == Item("payload", g, 0)            \* BTCS and the metadata
Record(g, k) == Item("payload", g, k)
Finished(g) == Item("payload", g, Payload + 1)  \* BTCE
Truncated == Item("aborted", 0, 0)            \* BTAB
Sample == Item("other", 0, 0)    \* telemetry and IMU_CAP frames, foreign to the stream,
Reply == Sample                  \* as the answers to commands are
Nothing == Item("nothing", 0, 0)

LeftUnread == Payload + 1   \* the reader let a finalized session go with records in it

NoCapture == [active |-> FALSE, cbOn |-> FALSE, throttle |-> FALSE, paused |-> FALSE,
              gen |-> 0]
NoImuCap == [active |-> FALSE, paused |-> FALSE]

Init ==
  /\ dev = [state |-> "idle", done |-> FALSE, wOpen |-> FALSE, rOpen |-> FALSE,
            gen |-> 0, ring |-> <<>>]
  /\ sem = 0
  /\ writer = [at |-> "closed", n |-> 0]
  /\ result = "none" /\ taken = 0
  /\ tx = Silent /\ wire = Nothing
  /\ cap = NoCapture /\ imuCap = NoImuCap /\ imuOn = FALSE
  /\ loop = "idle" /\ mixed = FALSE

-----------------------------------------------------------------------------
(* The device *)

\* btcap_reset_locked
ResetMutant(d) == [d EXCEPT !.state = "idle", !.done = FALSE]

Reset(d) == [d EXCEPT !.state = "idle", !.done = FALSE, !.ring = <<>>]

\* btcap_close of the writer: a session without a reader is reclaimed, one that
\* was not finalized is aborted.
WriterClosed(d) ==
  LET e == [d EXCEPT !.wOpen = FALSE]
  IN  IF ~d.rOpen THEN Reset(e)
      ELSE IF d.state = "ready" /\ ~d.done THEN [e EXCEPT !.state = "aborted"]
      ELSE e

\* btcap_close of the reader: a finalized session is handed back, one still
\* being written is aborted.
ReaderClosed(d) ==
  LET e == [d EXCEPT !.rOpen = FALSE]
  IN  IF ~d.wOpen \/ (d.state = "ready" /\ d.done) THEN Reset(e)
      ELSE IF d.state = "ready" THEN [e EXCEPT !.state = "aborted"]
      ELSE e

\* Such a session counts as left unread.
LetGo == IF dev.state = "ready" /\ dev.done /\ dev.ring # <<>> THEN LeftUnread ELSE taken

\* btcap_notify_all_locked by the reader's side: a sleeping writer runs again,
\* else the semaphore keeps one post.
NotifyMutant ==
  IF writer.at = "sleeping"
  THEN writer' = [writer EXCEPT !.at = "writing"] /\ UNCHANGED sem
  ELSE UNCHANGED <<sem, writer>>

Notify ==
  IF writer.at = "sleeping"
  THEN writer' = [writer EXCEPT !.at = "writing"] /\ UNCHANGED sem
  ELSE sem' = 1 /\ UNCHANGED writer

-----------------------------------------------------------------------------
(* The application *)

\* What has been written is of no more use to a writer that gives up.
WriterStep(from, to) ==
  /\ writer.at = from
  /\ writer' = [at |-> to,
                n |-> IF to \in {"aborting", "closing", "closed"} THEN 0 ELSE writer.n]

\* capture_init: open ...
Open ==
  /\ dev.gen < MaxSessions
  /\ writer.at = "closed"
  /\ writer' = [at |-> "opened", n |-> 0]
  /\ dev' = [dev EXCEPT !.wOpen = TRUE]
  /\ result' = "none"
  /\ UNCHANGED <<sem, loopVars>>

\* ... and BTCAPIOC_REGISTER_SESSION, refused while an older session lingers.
Register ==
  /\ \/ /\ dev.state = "idle"
        /\ WriterStep("opened", "writing")
        /\ dev' = [dev EXCEPT !.state = "ready", !.done = FALSE, !.ring = <<>>,
                              !.gen = dev.gen + 1]
        /\ sem' = 1 /\ taken' = 0
     \/ /\ dev.state # "idle"
        /\ WriterStep("opened", "closing")
        /\ UNCHANGED <<dev, sem, taken>>
  /\ UNCHANGED <<result, tx, wire, cap, imuCap, imuOn, loop, mixed>>

\* btcap_write, once round its loop: under the lock a record is stored, or the ring is
\* seen to be full and the lock let go, or the write is given up ...
Write ==
  /\ writer.at = "writing" /\ writer.n < Payload
  /\ \/ /\ dev.state = "ready" /\ Len(dev.ring) < RingRoom
        /\ dev' = [dev EXCEPT !.ring = Append(@, Record(dev.gen, writer.n + 1))]
        /\ writer' = [writer EXCEPT !.n = @ + 1]
        /\ sem' = 1
     \/ /\ dev.state = "ready" /\ Len(dev.ring) = RingRoom
        /\ WriterStep("writing", "waiting")
        /\ UNCHANGED <<dev, sem>>
     \/ /\ dev.state # "ready"
        /\ WriterStep("writing", "aborting")
        /\ UNCHANGED <<dev, sem>>
  /\ UNCHANGED <<result, loopVars>>

\* ... and nxsem_wait of btcap_wait_writable_locked: a post made since the lock was let
\* go is taken, else the writer sleeps.
Wait ==
  /\ \/ sem = 1 /\ sem' = 0 /\ WriterStep("waiting", "writing")
     \/ sem = 0 /\ UNCHANGED sem /\ WriterStep("waiting", "sleeping")
  /\ UNCHANGED <<dev, result, loopVars>>

\* capture_deinit: BTCAPIOC_FINALIZE_SESSION ...
Finalize ==
  /\ writer.n = Payload
  /\ \/ /\ dev.state = "ready"
        /\ WriterStep("writing", "draining")
        /\ dev' = IF ~dev.rOpen /\ dev.ring = <<>> THEN Reset(dev)
                  ELSE [dev EXCEPT !.done = TRUE]
        /\ sem' = 1
     \/ /\ dev.state # "ready"
        /\ WriterStep("writing", "closing")
        /\ UNCHANGED <<dev, sem>>
  /\ UNCHANGED <<result, loopVars>>

\* ... then the state is polled until the session is over.
Poll ==
  /\ dev.state # "ready"
  /\ WriterStep("draining", "closing")
  /\ result' = IF dev.state = "idle" THEN "ok" ELSE "canceled"
  /\ UNCHANGED <<dev, sem, loopVars>>

\* A signal: a write that sleeps, or the next one, is broken off and the session aborted
\* (capture_abort); the poll of capture_deinit just ends.
Interrupt ==
  /\ WriterStep("writing", "aborting") \/ WriterStep("sleeping", "aborting")
       \/ WriterStep("draining", "closing")
  /\ UNCHANGED <<dev, sem, result, loopVars>>

AbortSession ==
  /\ WriterStep("aborting", "closing")
  /\ \/ dev.state = "ready" /\ dev' = [dev EXCEPT !.state = "aborted"] /\ sem' = 1
     \/ dev.state # "ready" /\ UNCHANGED <<dev, sem>>
  /\ UNCHANGED <<result, loopVars>>

\* The application is killed; the kernel closes its descriptor.
Kill ==
  /\ writer.at \notin {"closed", "closing"}
  /\ WriterStep(writer.at, "closing")
  /\ UNCHANGED <<dev, sem, result, loopVars>>

Close ==
  /\ WriterStep("closing", "closed")
  /\ dev' = WriterClosed(dev)
  /\ sem' = 1
  /\ UNCHANGED <<result, loopVars>>

-----------------------------------------------------------------------------
(* The run loop: the channel *)

AtLoop(from, to) == loop = from /\ loop' = to

Connect ==
  /\ loop = "idle" /\ ~tx.open
  /\ tx' = SetChannel(tx, TRUE) /\ wire' = Nothing
  /\ UNCHANGED <<dev, sem, writerVars, cap, imuCap, imuOn, loop, taken, mixed>>

Disconnect ==
  /\ loop = "idle" /\ tx.open
  /\ tx' = SetChannel(tx, FALSE) /\ wire' = Nothing
  /\ UNCHANGED <<dev, sem, writerVars, cap, imuCap, imuOn, loop, taken, mixed>>

\* RFCOMM_EVENT_CAN_SEND_NOW
Send ==
  /\ loop = "idle" /\ tx.open /\ tx.asked
  /\ wire' = Outgoing(tx)
  /\ tx' = OnCanSendNow(tx, TRUE)
  /\ UNCHANGED <<dev, sem, writerVars, cap, imuCap, imuOn, loop, taken, mixed>>

\* A session is being forwarded, or its tail has yet to be sent.
Forwarding ==
  cap.active \/ \E i \in DOMAIN tx.frames : tx.frames[i].kind \in {"payload", "aborted"}

\* The tail of a session that is over may yet be pushed out by a newer frame.
PushesOut == ~cap.active /\ Forwarding /\ FrameRingFull(tx)

\* A command of the host is answered, before any frame that waits
\* (bundle_emitter_set_imu_enabled is one that changes something).
SetImu ==
  /\ loop = "idle" /\ tx.open
  /\ imuOn' \in BOOLEAN
  /\ tx' = EnqueueResponse(tx, Reply)
  /\ mixed' = (mixed \/ Forwarding)
  /\ UNCHANGED <<dev, sem, writerVars, wire, cap, imuCap, loop, taken>>

\* A bundle, or a batch of IMU_CAP samples.
Emit ==
  /\ loop = "idle" /\ tx.open
  /\ imuOn \/ imuCap.active
  /\ tx' = EnqueueFrame(tx, Sample)
  /\ mixed' = (mixed \/ PushesOut)
  /\ UNCHANGED <<dev, sem, writerVars, wire, cap, imuCap, imuOn, loop, taken>>

\* btsensor_imu_cap_mode_enter, refused during a capture (but not the reverse) ...
ImuCapEnter ==
  /\ loop = "idle" /\ ~imuCap.active /\ ~cap.active
  /\ imuCap' = [active |-> TRUE, paused |-> imuOn]
  /\ imuOn' = FALSE
  /\ UNCHANGED <<dev, sem, writerVars, tx, wire, cap, loop, taken, mixed>>

\* ... and exit, by command or when its time is up: the last batch is flushed.
ImuCapExit ==
  /\ loop = "idle" /\ imuCap.active
  /\ imuCap' = NoImuCap
  /\ imuOn' = (imuOn \/ imuCap.paused)
  /\ \/ tx' = EnqueueFrame(tx, Sample) /\ mixed' = (mixed \/ PushesOut)
     \/ UNCHANGED <<tx, mixed>>
  /\ UNCHANGED <<dev, sem, writerVars, wire, cap, loop, taken>>

-----------------------------------------------------------------------------
(* The run loop: capture mode *)

\* btsensor_capture_mode_enter: open ...
CapOpen ==
  /\ ~cap.active
  /\ AtLoop("idle", "opened")
  /\ dev' = [dev EXCEPT !.rOpen = TRUE]
  /\ UNCHANGED <<sem, writerVars, tx, wire, cap, imuCap, imuOn, taken, mixed>>

\* ... BTCAPIOC_GET_SESSION_META, then telemetry is paused and the header queued, behind
\* the tail of the session before or in place of its oldest frame ...
CapEnterMutant ==
  /\ dev.state = "ready"
  /\ AtLoop("opened", "idle")
  /\ cap' = [active |-> TRUE, cbOn |-> FALSE, throttle |-> TRUE, paused |-> imuOn,
             gen |-> dev.gen]
  /\ tx' = EnqueueFrame(tx, Header(dev.gen))
  /\ mixed' = (imuCap.active \/ (Forwarding /\ (mixed \/ FrameRingFull(tx))))
  /\ UNCHANGED <<dev, sem, writerVars, wire, imuCap, imuOn, taken>>

CapEnter ==
  /\ dev.state = "ready"
  /\ AtLoop("opened", "idle")
  /\ cap' = [active |-> TRUE, cbOn |-> FALSE, throttle |-> TRUE, paused |-> imuOn,
             gen |-> dev.gen]
  /\ imuOn' = FALSE
  /\ tx' = EnqueueFrame(tx, Header(dev.gen))
  /\ mixed' = (imuCap.active \/ (Forwarding /\ (mixed \/ FrameRingFull(tx))))
  /\ UNCHANGED <<dev, sem, writerVars, wire, imuCap, taken>>

\* ... or, without a session, the descriptor is closed again, and the command answered.
CapRefuse ==
  /\ dev.state # "ready"
  /\ AtLoop("opened", "refusing")
  /\ UNCHANGED <<dev, sem, writerVars, tx, wire, cap, imuCap, imuOn, taken, mixed>>

CapClose ==
  /\ AtLoop("refusing", "idle")
  /\ dev' = ReaderClosed(dev)
  /\ taken' = LetGo
  /\ Notify
  /\ \/ tx.open /\ tx' = EnqueueResponse(tx, Reply) /\ mixed' = (mixed \/ Forwarding)
     \/ UNCHANGED <<tx, mixed>>
  /\ UNCHANGED <<result, wire, cap, imuCap, imuOn>>

\* cap_throttle_timer_handler
Throttle ==
  /\ loop = "idle" /\ cap.throttle
  /\ cap' = [cap EXCEPT !.throttle = FALSE, !.cbOn = TRUE]
  /\ UNCHANGED <<dev, sem, writerVars, tx, wire, imuCap, imuOn, loop, taken, mixed>>

\* btcap_poll answers POLLIN: the only event run_loop_nuttx_execute dispatches.
PollIn ==
  /\ cap.active /\ cap.cbOn
  /\ dev.state = "ready" /\ (dev.ring # <<>> \/ dev.done)
  /\ AtLoop("idle", "reading")
  /\ UNCHANGED <<dev, sem, writerVars, tx, wire, cap, imuCap, imuOn, taken, mixed>>

Paced == [cap EXCEPT !.cbOn = FALSE, !.throttle = TRUE]

\* on_read: with no room for a frame the records stay where they are ...
BackPressure ==
  /\ FrameRingFull(tx)
  /\ AtLoop("reading", "idle")
  /\ cap' = Paced
  /\ UNCHANGED <<dev, sem, writerVars, tx, wire, imuCap, imuOn, taken, mixed>>

ReadRecord ==
  /\ ~FrameRingFull(tx)
  /\ dev.state = "ready" /\ dev.ring # <<>>
  /\ AtLoop("reading", "idle")
  /\ tx' = EnqueueFrame(tx, dev.ring[1])
  /\ dev' = [dev EXCEPT !.ring = Tail(@)]
  /\ cap' = Paced
  /\ Notify
  /\ taken' = taken + 1
  /\ UNCHANGED <<result, wire, imuCap, imuOn, mixed>>

\* cap_exit_locked: the device is closed and telemetry restored.
CapExit ==
  /\ dev' = ReaderClosed(dev) /\ Notify
  /\ cap' = NoCapture /\ imuOn' = (imuOn \/ cap.paused)

\* ... and the end of the stream ends capture mode.
ReadEndMutant ==
  /\ ~FrameRingFull(tx)
  /\ dev.state # "ready" \/ dev.done
  /\ AtLoop("reading", "idle")
  /\ tx' = EnqueueFrame(tx, Truncated)
  /\ CapExit
  /\ UNCHANGED <<result, wire, imuCap, taken, mixed>>

ReadEnd ==
  /\ ~FrameRingFull(tx)
  /\ dev.state # "ready" \/ (dev.ring = <<>> /\ dev.done)
  /\ AtLoop("reading", "idle")
  /\ tx' = EnqueueFrame(tx, IF dev.state = "aborted" THEN Truncated ELSE Finished(cap.gen))
  /\ CapExit
  /\ UNCHANGED <<result, wire, imuCap, taken, mixed>>

\* The daemon's task ends, whatever mode it is in: the teardown leaves IMU_CAP
\* mode but not capture mode, whose descriptor is closed with the task.
DaemonEnds ==
  /\ loop = "idle"
  /\ tx' = Silent /\ wire' = Nothing
  /\ cap' = NoCapture /\ imuCap' = NoImuCap /\ imuOn' = FALSE /\ mixed' = FALSE
  /\ \/ cap.active /\ dev' = ReaderClosed(dev) /\ Notify /\ taken' = LetGo
     \/ ~cap.active /\ UNCHANGED <<dev, sem, writer, taken>>
  /\ UNCHANGED <<result, loop>>

Reading == BackPressure \/ ReadRecord \/ ReadEnd

\* The run loop leaves the handler it is in.
Return == Reading \/ CapEnter \/ CapRefuse \/ CapClose

Writer ==
  \/ Open \/ Register \/ Write \/ Wait \/ Finalize \/ Poll \/ Interrupt \/ AbortSession
  \/ Kill \/ Close

RunLoop ==
  \/ Connect \/ Disconnect \/ Send \/ SetImu \/ Emit \/ ImuCapEnter \/ ImuCapExit
  \/ CapOpen \/ Throttle \/ PollIn \/ Return \/ DaemonEnds

Next == Writer \/ RunLoop

Spec == Init /\ [][Next]_vars

-----------------------------------------------------------------------------
(* Properties *)

Items == {Header(g) : g \in 1..MaxSessions} \cup {Truncated, Sample, Nothing}
           \cup {Record(g, k) : g \in 1..MaxSessions, k \in 1..(Payload + 1)}

\* The queues stay within their rooms, a session that is not registered has no
\* data, and the arbiter never waits for a grant that will not come.
TypeOK ==
  /\ dev \in [state : {"idle", "ready", "aborted"}, done : BOOLEAN, wOpen : BOOLEAN,
              rOpen : BOOLEAN, gen : 0..MaxSessions, ring : Seq(Items)]
  /\ Len(dev.ring) <= RingRoom /\ (dev.state = "idle" => dev.ring = <<>>)
  /\ sem \in {0, 1}
  /\ writer.at \in {"closed", "opened", "writing", "waiting", "sleeping", "draining",
                    "aborting", "closing"}
  /\ writer.n \in 0..Payload /\ taken \in 0..LeftUnread
  /\ result \in {"none", "ok", "canceled"}
  /\ Len(tx.frames) <= FrameRoom /\ Len(tx.resp) <= RespRoom
  /\ wire \in Items /\ mixed \in BOOLEAN
  /\ loop \in {"idle", "opened", "refusing", "reading"}

\* "So the BT byte stream contains only the capture framing" (btsensor_capture_mode.c):
\* on one channel the host receives the header, every record and the terminator of a
\* session in order, with nothing in between and none missing, while it is silent
\* itself and IMU_CAP mode off, and for as long as no newer frame pushes out the tail
\* of a session that is over: telemetry is paused, and the ring is never full when a
\* record is taken for it (on_read, btsensor_capture_mode_enter).
PayloadContiguous ==
  [][~mixed /\ wire'.kind = "payload" /\ wire' # wire /\ wire # Nothing =>
       \/ wire'.k = 0
       \/ wire.kind = "payload" /\ wire.gen = wire'.gen /\ wire'.k = wire.k + 1]_vars

\* A writer sleeps only while the ring of its live session is full: every store,
\* read and end of a session reaches it (btcap_notify_all_locked).
NoLostWakeup ==
  writer.at = "sleeping" => dev.state = "ready" /\ Len(dev.ring) = RingRoom

\* When capture_deinit answers 0, the run loop has read every record of the session,
\* unless the daemon ended, or refused MODE CAPTURE, with the session in its hands
\* (capture.h knows no such exception, see ZeroIsCleanDrain).
CompletedIsDrained ==
  [][result' = "ok" /\ result # "ok" => taken >= Payload]_vars

\* "0 on a clean drain", the BT-side reader having drained the ring (capture.h).
ZeroIsCleanDrain == result = "ok" => taken = Payload

\* A finalized session is being forwarded, undisturbed, on an open channel.
Ending == cap.active /\ dev.state = "ready" /\ dev.done /\ tx.open /\ ~mixed
=============================================================================
