-------------------------------- MODULE BtShell --------------------------------
(***************************************************************************)
(* NSH over Bluetooth (btsensor_shell.c, with MODE SHELL of btsensor_cmd.c *)
(* and `btsensor mode' of btsensor_main.c): a child task whose output a    *)
(* reader thread collects for the run loop, which sends it in the gaps the *)
(* transmit arbiter leaves, on grants they both ask for.                   *)
(*                                                                         *)
(* Three kinds of process: the run loop, whose handlers are single steps   *)
(* except where they let a lock go or join the reader; the reader; and the *)
(* child, which is external.  A chunk is what one read() returns and one   *)
(* frame carries.                                                          *)
(***************************************************************************)
EXTENDS BtTx

CONSTANTS
  OutRoom,      \* chunks tx_buf holds
  PipeRoom,     \* chunks /dev/btnsh_out holds
  MaxSessions   \* bound: sessions entered

ShellAssumption ==
  /\ TxRoomAssumption
  /\ OutRoom \in Nat \ {0} /\ PipeRoom \in Nat \ {0} /\ MaxSessions \in Nat

VARIABLES
  mode,       \* g_shell.mode
  gen,        \* g_shell.generation
  child,      \* the task at nsh_pid: none, alive, exited
  pipe,       \* chunks in /dev/btnsh_out
  reader,     \* the reader thread, with the generation it was started in
  out,        \* g_shell.tx_len, in chunks
  pending,    \* g_shell.tx_request_pending
  pump,       \* reg_pump is in the run loop's list, and g_pump_ctx
  leave,      \* reg_exit is in the run loop's list, and g_exit_ctx
  pumpTimer,  \* g_shell_pump_timer is armed
  drain,      \* the arbiter's post-drain callback and its timer are armed
  tx,         \* the arbiter
  told,       \* history: the host was sent OK in this session
  imuOn,      \* a telemetry pump is on
  loop,       \* the handler the run loop is in
  blind,      \* history: the visit to the buffer that came to nothing: it found no
              \* channel, or one without an MTU, or was asked for by a chunk dropped
              \* from a buffer that one frame empties
  sessions    \* sessions entered, bounded by MaxSessions

outVars == <<pipe, out, pending, blind>>
postVars == <<pump, leave, pumpTimer>>
vars == <<mode, gen, child, pipe, reader, out, pending, pump, leave, pumpTimer, drain, tx,
          told, imuOn, loop, blind, sessions>>

Idle == [at |-> "idle", why |-> "none"]
NoPost == [queued |-> FALSE, gen |-> 0]
NoReader == [at |-> "none", gen |-> 0]

Init ==
  /\ mode = "telemetry" /\ gen = 0 /\ child = "none" /\ pipe = 0
  /\ reader = NoReader /\ out = 0 /\ pending = FALSE /\ blind = "no"
  /\ pump = NoPost /\ leave = NoPost /\ pumpTimer = FALSE
  /\ drain = FALSE /\ tx = Silent /\ told = FALSE /\ imuOn = FALSE /\ loop = Idle
  /\ sessions = 0

InLoop == loop = Idle
Active == mode # "telemetry"

-----------------------------------------------------------------------------
(* The child and the reader *)

Say ==
  /\ child = "alive" /\ pipe < PipeRoom
  /\ pipe' = pipe + 1
  /\ UNCHANGED <<mode, gen, child, reader, out, pending, blind, postVars, drain, tx, told,
                 imuOn, loop, sessions>>

ChildExits ==
  /\ child = "alive" /\ child' = "exited"
  /\ UNCHANGED <<mode, gen, reader, outVars, postVars, drain, tx, told, imuOn, loop, sessions>>

readerKept == <<mode, gen, child, drain, tx, told, imuOn, loop, sessions, pumpTimer>>

ReaderStep(from, to) == reader.at = from /\ reader' = [reader EXCEPT !.at = to]

\* reader_thread: what does not fit is dropped; the run loop is posted to unless
\* it owes the buffer a visit already.
ReaderTakes ==
  /\ pipe > 0 /\ pipe' = pipe - 1
  /\ out' = IF out < OutRoom THEN out + 1 ELSE out
  /\ pending' = TRUE
  /\ blind' = IF out = OutRoom /\ OutRoom = 1 THEN "overrun"
              ELSE IF pending THEN blind ELSE "no"
  /\ ReaderStep("polling", IF pending THEN "polling" ELSE "posting")
  /\ UNCHANGED <<readerKept, pump, leave>>

ReaderPosts ==
  /\ ReaderStep("posting", "polling")
  /\ pump' = [queued |-> TRUE, gen |-> reader.gen]
  /\ UNCHANGED <<readerKept, outVars, leave>>

\* It stops at the end of the child's output, or when it is woken to be joined.
ReaderStops ==
  /\ (child = "exited" /\ pipe = 0) \/ loop.at = "joining"
  /\ ReaderStep("polling", "leaving")
  /\ UNCHANGED <<readerKept, outVars, pump, leave>>

ReaderLeaves ==
  /\ ReaderStep("leaving", "done")
  /\ leave' = [queued |-> TRUE, gen |-> reader.gen]
  /\ UNCHANGED <<readerKept, outVars, pump>>

-----------------------------------------------------------------------------
(* The end of a session *)

\* cleanup_active_shell, up to the join of do_kill_and_join ...
Cleanup(reason) ==
  /\ drain' = FALSE /\ pumpTimer' = FALSE
  /\ loop' = [at |-> "joining", why |-> reason]

\* ... and on: READY is for a host that is there to read it.
CleanupEnd ==
  /\ loop.at = "joining" /\ reader.at = "done"
  /\ loop' = Idle /\ reader' = NoReader /\ child' = "none" /\ pipe' = 0
  /\ out' = 0 /\ pending' = FALSE /\ blind' = "no"
  /\ gen' = gen + 1 /\ mode' = "telemetry" /\ told' = FALSE
  /\ LET ready == IF loop.why \in {"peer_closed", "drain_timeout"} \/ ~tx.open THEN tx
                  ELSE EnqueueResponse(tx, "ready")
     IN  tx' = IF loop.why = "no_buffer" THEN EnqueueResponse(ready, "err") ELSE ready
  /\ UNCHANGED <<postVars, drain, imuOn, sessions>>

-----------------------------------------------------------------------------
(* The start of a session *)

\* btsensor_shell_enter: the generation counts before the reader is created, which
\* keeps it.
EnterMutant ==
  /\ ~Active /\ sessions < MaxSessions
  /\ sessions' = sessions + 1
  /\ gen' = gen + 1 /\ reader' = [at |-> "polling", gen |-> gen]
  /\ child' = "alive"

Enter ==
  /\ ~Active /\ sessions < MaxSessions
  /\ sessions' = sessions + 1
  /\ gen' = gen + 1 /\ reader' = [at |-> "polling", gen |-> gen + 1]
  /\ child' = "alive"

\* What btsensor_tx_enqueue_response may leave behind: BTstack may grant the request
\* before it returns.
Answered(t, line) ==
  LET u == EnqueueResponse(t, line)
  IN  {u} \cup (IF u.asked /\ ~t.asked THEN {OnCanSendNow(u, TRUE)} ELSE {})

\* drain_check_and_fire
DrainedNow(t) == Drained(t) /\ ~t.pending

enterKept == <<outVars, postVars>>

\* cmd_mode: OK is queued and the switch to SHELL left to the arbiter, unless the
\* reply is on its way already; without room for OK the shell is torn down again.
ModeShellMutant ==
  /\ InLoop /\ tx.open
  /\ imuOn' = FALSE
  /\ Enter
  /\ HasRespRoom(tx) /\ tx' \in Answered(tx, "ok")
  /\ told' = Drained(tx')
  /\ mode' = "shell" /\ drain' = FALSE
  /\ UNCHANGED <<enterKept, loop>>

ModeShell ==
  /\ InLoop /\ tx.open
  /\ imuOn' = FALSE
  /\ Enter
  /\ \/ /\ HasRespRoom(tx)
        /\ tx' \in Answered(tx, "ok")
        /\ told' = (tx'.resp = <<>>)
        /\ drain' = ~DrainedNow(tx')
        /\ mode' = IF DrainedNow(tx') THEN "shell" ELSE "starting"
        /\ UNCHANGED <<loop, pumpTimer>>
     \/ /\ ~HasRespRoom(tx)
        /\ mode' = "starting" /\ Cleanup("no_buffer") /\ UNCHANGED <<tx, told>>
  /\ UNCHANGED <<outVars, pump, leave>>

\* The shell cannot be entered, or has been: an error reply.
ModeShellFails ==
  /\ InLoop /\ tx.open /\ ~Active
  /\ imuOn' = FALSE
  /\ tx' = EnqueueResponse(tx, "err")
  /\ UNCHANGED <<mode, gen, child, reader, outVars, postVars, drain, told, loop, sessions>>

\* ACTION_MODE_SHELL: no reply, so no waiting for it; nor need there be a channel.
UsbShell ==
  /\ InLoop /\ ~imuOn
  /\ Enter /\ mode' = "shell"
  /\ UNCHANGED <<enterKept, drain, tx, told, imuOn, loop>>

\* ACTION_MODE_TELEMETRY
UsbTelemetry ==
  /\ InLoop /\ Active
  /\ Cleanup("usb_request")
  /\ UNCHANGED <<mode, gen, child, reader, outVars, pump, leave, tx, told, imuOn, sessions>>

-----------------------------------------------------------------------------
(* The run loop: callbacks and timers *)

loopKept == <<mode, gen, child, reader, outVars, told, imuOn, sessions>>

\* shell_pump_action; without a channel it leaves the buffer and its flag as they are.
RunPump ==
  /\ InLoop /\ pump.queued
  /\ pump' = [pump EXCEPT !.queued = FALSE]
  /\ pumpTimer' = (pumpTimer \/ (pump.gen = gen /\ Active /\ tx.open))
  /\ blind' = IF pump.gen = gen /\ Active /\ ~tx.open THEN "no_peer" ELSE blind
  /\ UNCHANGED <<mode, gen, child, reader, pipe, out, pending, told, imuOn, sessions, leave,
                 drain, tx, loop>>

\* shell_exit_action: a session is not ended by the reader of an earlier one.
RunExitMutant ==
  /\ InLoop /\ leave.queued
  /\ leave' = [leave EXCEPT !.queued = FALSE]
  /\ IF Active THEN Cleanup("nsh_exit") ELSE UNCHANGED <<drain, pumpTimer, loop>>
  /\ UNCHANGED <<loopKept, pump, tx>>

RunExit ==
  /\ InLoop /\ leave.queued
  /\ leave' = [leave EXCEPT !.queued = FALSE]
  /\ IF leave.gen = gen /\ Active THEN Cleanup("nsh_exit")
     ELSE UNCHANGED <<drain, pumpTimer, loop>>
  /\ UNCHANGED <<loopKept, pump, tx>>

\* shell_pump_timer_handler
PumpTimer ==
  /\ InLoop /\ pumpTimer /\ pumpTimer' = FALSE
  /\ tx' = [tx EXCEPT !.asked = @ \/ (Active /\ tx.open /\ out > 0)]
  /\ UNCHANGED <<loopKept, pump, leave, drain, loop>>

\* drain_timer_handler, btsensor_shell_drain_timeout
DrainTimeout ==
  /\ InLoop /\ drain
  /\ IF mode = "starting" THEN Cleanup("drain_timeout")
     ELSE drain' = FALSE /\ UNCHANGED <<pumpTimer, loop>>
  /\ UNCHANGED <<loopKept, pump, leave, tx>>

-----------------------------------------------------------------------------
(* The run loop: the channel *)

Connect ==
  /\ InLoop /\ ~tx.open
  /\ tx' = SetChannel(tx, TRUE)
  /\ UNCHANGED <<mode, gen, child, reader, outVars, postVars, drain, told, imuOn, loop,
                 sessions>>

\* RFCOMM_EVENT_CHANNEL_CLOSED, btsensor_shell_on_rfcomm_closed
Disconnect ==
  /\ InLoop /\ tx.open
  /\ tx' = SetChannel(tx, FALSE)
  /\ IF Active THEN Cleanup("peer_closed") ELSE UNCHANGED <<drain, pumpTimer, loop>>
  /\ UNCHANGED <<loopKept, pump, leave>>

\* The tick of a telemetry pump, and its switch.
Emit ==
  /\ InLoop /\ tx.open /\ imuOn
  /\ tx' = EnqueueFrame(tx, "sample")
  /\ UNCHANGED <<loopKept, postVars, drain, loop>>

SetImu ==
  /\ InLoop /\ imuOn' \in BOOLEAN
  /\ UNCHANGED <<mode, gen, child, reader, outVars, postVars, drain, tx, told, loop, sessions>>

\* RFCOMM_EVENT_CAN_SEND_NOW: the arbiter's turn first, at whose end the post-drain
\* callback may switch to SHELL ...
ArbiterSends ==
  \E sent \in BOOLEAN :
    /\ tx' = OnCanSendNow(tx, sent)
    /\ told' = (told \/ (sent /\ tx.resp # <<>> /\ tx.resp[1] = "ok" /\ Active))
    /\ LET fires == drain /\ Drained(tx')
       IN  /\ drain' = (drain /\ ~fires)
           /\ mode' = IF fires /\ mode = "starting" THEN "shell" ELSE mode

\* ... then btsensor_shell_on_can_send_now takes what there is to send, or, when the
\* channel has no MTU, leaves it for the reader's next post.
CanSend ==
  /\ InLoop /\ tx.open /\ tx.asked
  /\ ArbiterSends
  /\ \/ /\ Active
        /\ pending' = FALSE /\ blind' = "no"
        /\ loop' = IF out > 0 THEN [at |-> "sending", why |-> "none"] ELSE loop
     \/ /\ Active
        /\ pending' = FALSE /\ blind' = IF out > 0 THEN "no_mtu" ELSE "no"
        /\ UNCHANGED loop
     \/ ~Active /\ UNCHANGED <<pending, blind, loop>>
  /\ UNCHANGED <<gen, child, reader, pipe, out, postVars, imuOn, sessions>>

\* ... without its lock, and comes back: what was sent leaves the buffer, and the
\* timer is armed for what is left unless the reader has posted meanwhile.
SentMutant ==
  /\ loop.at = "sending" /\ loop' = Idle
  /\ out' \in {out - 1, out}
  /\ UNCHANGED <<pending, pumpTimer>>
  /\ UNCHANGED <<mode, gen, child, reader, pipe, blind, pump, leave, drain, tx, told, imuOn,
                 sessions>>

Sent ==
  /\ loop.at = "sending" /\ loop' = Idle
  /\ out' \in {out - 1, out}
  /\ IF out' > 0 /\ ~pending THEN pending' = TRUE /\ pumpTimer' = TRUE
     ELSE UNCHANGED <<pending, pumpTimer>>
  /\ UNCHANGED <<mode, gen, child, reader, pipe, blind, pump, leave, drain, tx, told, imuOn,
                 sessions>>

Child == Say \/ ChildExits
Reader == ReaderTakes \/ ReaderPosts \/ ReaderStops \/ ReaderLeaves
Commands == ModeShell \/ ModeShellFails \/ UsbShell \/ UsbTelemetry \/ SetImu
Callbacks == RunPump \/ RunExit \/ PumpTimer \/ DrainTimeout
Channel == Connect \/ Disconnect \/ Emit \/ CanSend \/ Sent

Next == Child \/ Reader \/ Commands \/ Callbacks \/ Channel \/ CleanupEnd

Spec == Init /\ [][Next]_vars

-----------------------------------------------------------------------------
(* Properties *)

TypeOK ==
  /\ mode \in {"telemetry", "starting", "shell"} /\ gen \in 0..(2 * MaxSessions)
  /\ child \in {"none", "alive", "exited"} /\ pipe \in 0..PipeRoom
  /\ reader \in [at : {"none", "polling", "posting", "leaving", "done"},
                 gen : 0..(2 * MaxSessions)]
  /\ out \in 0..OutRoom /\ pending \in BOOLEAN
  /\ blind \in {"no", "no_peer", "no_mtu", "overrun"}
  /\ {pump, leave} \subseteq [queued : BOOLEAN, gen : 0..(2 * MaxSessions)]
  /\ pumpTimer \in BOOLEAN /\ drain \in BOOLEAN /\ told \in BOOLEAN /\ imuOn \in BOOLEAN
  /\ loop.at \in {"idle", "joining", "sending"}
  /\ Len(tx.frames) <= FrameRoom /\ Len(tx.resp) <= RespRoom

\* The reader, the list, the timer or a grant will have the run loop look at the buffer.
LookOwed ==
  \/ reader.at = "posting" \/ (pump.queued /\ pump.gen = gen)
  \/ pumpTimer \/ tx.asked

\* Output that is buffered on an open channel is on its way, unless the last visit to it
\* came to nothing: for want of an MTU, and then the flag is clear and the next chunk
\* has it visited, or because there was no channel yet, or because one frame takes all
\* the buffer holds (g_shell.tx_request_pending).
OutputMoves ==
  (InLoop /\ Active /\ tx.open /\ out > 0) =>
    \/ LookOwed
    \/ blind = "no_mtu" /\ ~pending
    \/ blind \in {"no_peer", "overrun"}

\* The host's bytes go to the child from the moment the arbiter has nothing more
\* of telemetry to send, and not before the host has been told OK; only a shell
\* entered from USB, which leaves the arbiter alone, owes no reply.
SwitchAfterReply ==
  [][mode # "shell" /\ mode' = "shell" /\ tx' # tx => told' /\ Drained(tx')]_vars

\* The exit of a child ends its own session, never a later one that was entered
\* before the exit was handled (generation against g_exit_ctx).
OwnExitOnly ==
  [][leave.queued /\ ~leave'.queued /\ loop'.at = "joining" => reader.at = "done"]_vars

\* A shell does not outlive its child, or the wait for its own OK: when the reader has
\* gone, its exit is in the run loop's list, for this session and no earlier one
\* (g_exit_ctx is one for all), and a shell that is being started has its timer.
EndIsOwed ==
  (InLoop /\ Active) =>
    /\ (reader.at = "done" => leave.queued /\ leave.gen = gen)
    /\ (mode = "starting" => drain)
=============================================================================
