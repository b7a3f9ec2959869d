----------------------------- MODULE BtShellProofs -----------------------------
(***************************************************************************)
(* The shell over Bluetooth, for any number of sessions, channels and      *)
(* chunks.  Bluetooth's theorems about its part `shell' rest on the        *)
(* invariants shown here: what they say of Init and of a step.             *)
(***************************************************************************)
EXTENDS BtShell, TLAPS

Lines == {"ok", "err", "ready"}
Frames == {"sample"}

\* A state of the arbiter, whose queues stay within their rooms.
Arbiter(t) ==
  /\ DOMAIN t = {"open", "pending", "asked", "resp", "frames"}
  /\ t.open \in BOOLEAN /\ t.pending \in BOOLEAN /\ t.asked \in BOOLEAN
  /\ t.asked => t.open
  /\ t.resp \in Seq(Lines) /\ t.frames \in Seq(Frames)
  /\ Len(t.resp) <= RespRoom /\ Len(t.frames) <= FrameRoom

Joining == loop.at = "joining"

Typed ==
  /\ mode \in {"telemetry", "starting", "shell"} /\ child \in {"none", "alive", "exited"}
  /\ reader \in [at : {"none", "polling", "posting", "leaving", "done"}, gen : Nat]
  /\ pump \in [queued : BOOLEAN, gen : Nat] /\ leave \in [queued : BOOLEAN, gen : Nat]
  /\ pending \in BOOLEAN /\ pumpTimer \in BOOLEAN /\ drain \in BOOLEAN
  /\ told \in BOOLEAN /\ imuOn \in BOOLEAN
  /\ blind \in {"no", "no_peer", "no_mtu", "overrun"}
  /\ loop \in [at : {"idle", "joining", "sending"},
               why : {"none", "no_buffer", "usb_request", "nsh_exit", "drain_timeout",
                      "peer_closed"}]
  /\ Arbiter(tx)

\* Each session counts the generation twice, at its start and at its end.
Counted ==
  /\ sessions \in 0 .. MaxSessions /\ gen = 2 * sessions - (IF Active THEN 1 ELSE 0)
  /\ pipe \in 0 .. PipeRoom
  /\ out \in 0 .. OutRoom /\ (loop.at = "sending" => out > 0)

\* A session has a reader of its own, and what a reader has posted names a session
\* that has begun; its exit is in the list once it is done, and not before.
Owned ==
  /\ loop # Idle => Active
  /\ reader.at # "none" <=> Active
  /\ Active => reader.gen = gen
  /\ reader.gen <= gen /\ pump.gen <= gen /\ leave.gen <= gen
  /\ Active /\ leave.queued /\ leave.gen = gen => reader.at = "done"
  /\ Active /\ ~Joining /\ reader.at = "done" => leave.queued /\ leave.gen = gen

\* A shell that is being started waits for its timer, and for the OK that is queued or
\* that the host has been sent.
Starting ==
  mode = "starting" /\ ~Joining =>
    drain /\ (told \/ \E i \in DOMAIN tx.resp : tx.resp[i] = "ok")

SInv == Typed /\ Counted /\ Owned /\ Starting

\* tx_request_pending says that there is output and a look at it is owed, unless a look
\* came to nothing for want of a channel, or output was dropped from a buffer that one
\* frame empties.  While a frame is being sent the buffer holds what has come since
\* besides it.  With the flag clear, output waits only for want of an MTU.
Passed == blind \in {"no_peer", "overrun"}

Waking ==
  /\ ~Active => out = 0 /\ ~pending
  /\ pumpTimer => Active /\ ~Joining /\ tx.open
  /\ loop.at = "sending" => tx.open
  /\ Active /\ ~Joining /\ pending =>
       Passed \/ (LookOwed /\ out > 0 /\ (loop.at = "sending" => out > 1))
  /\ Active /\ InLoop /\ out > 0 /\ ~pending => blind \in {"no_mtu", "no_peer"}

-----------------------------------------------------------------------------
(* The arbiter *)

LEMMA RequestSendArbiter ==
  ASSUME NEW t, Arbiter(t)
  PROVE  /\ Arbiter(RequestSend(t))
         /\ RequestSend(t).resp = t.resp /\ RequestSend(t).frames = t.frames
         /\ RequestSend(t).open = t.open /\ (t.asked => RequestSend(t).asked)
BY DEF Arbiter, RequestSend

LEMMA EnqueueResponseArbiter ==
  ASSUME ShellAssumption, NEW t, Arbiter(t), NEW line \in Lines
  PROVE  /\ Arbiter(EnqueueResponse(t, line))
         /\ EnqueueResponse(t, line).open = t.open
         /\ t.asked => EnqueueResponse(t, line).asked
         /\ EnqueueResponse(t, line).resp
              = (IF HasRespRoom(t) THEN Append(t.resp, line) ELSE t.resp)
<1> DEFINE u == [t EXCEPT !.resp = Append(@, line)]
<1>1. CASE HasRespRoom(t)
  <2>1. /\ Append(t.resp, line) \in Seq(Lines)
        /\ Len(Append(t.resp, line)) <= RespRoom
    BY <1>1 DEF Arbiter, HasRespRoom, ShellAssumption, TxRoomAssumption
  <2>2. /\ Arbiter(u) /\ u.open = t.open /\ u.asked = t.asked
        /\ u.resp = Append(t.resp, line)
    BY <2>1 DEF Arbiter
  <2> QED BY <1>1, <2>2, RequestSendArbiter DEF EnqueueResponse
<1>2. CASE ~HasRespRoom(t)
  BY <1>2 DEF EnqueueResponse
<1> QED BY <1>1, <1>2

LEMMA EnqueueFrameArbiter ==
  ASSUME ShellAssumption, NEW t, Arbiter(t), NEW f \in Frames
  PROVE  /\ Arbiter(EnqueueFrame(t, f)) /\ EnqueueFrame(t, f).resp = t.resp
         /\ EnqueueFrame(t, f).open = t.open /\ (t.asked => EnqueueFrame(t, f).asked)
<1> DEFINE old == IF FrameRingFull(t) THEN Tail(t.frames) ELSE t.frames
           u == [t EXCEPT !.frames = Append(old, f)]
<1>0. FrameRoom \in Nat /\ FrameRoom > 0
  BY DEF ShellAssumption, TxRoomAssumption
<1>1. old \in Seq(Frames) /\ Len(old) < FrameRoom
  <2>1. CASE FrameRingFull(t)
    <3>1. t.frames \in Seq(Frames) /\ t.frames # <<>> /\ Len(t.frames) = FrameRoom
      BY <1>0, <2>1 DEF Arbiter, FrameRingFull
    <3> QED BY <1>0, <2>1, <3>1
  <2>2. CASE ~FrameRingFull(t)
    BY <1>0, <2>2 DEF Arbiter, FrameRingFull
  <2> QED BY <2>1, <2>2
<1>2. Append(old, f) \in Seq(Frames) /\ Len(Append(old, f)) <= FrameRoom
  BY <1>0, <1>1
<1>3. Arbiter(u) /\ u.open = t.open /\ u.resp = t.resp /\ u.asked = t.asked
  BY <1>2 DEF Arbiter
<1> QED BY <1>3, RequestSendArbiter DEF EnqueueFrame

LEMMA SetChannelArbiter ==
  ASSUME ShellAssumption, NEW t, Arbiter(t), NEW on \in BOOLEAN
  PROVE  /\ Arbiter(SetChannel(t, on)) /\ SetChannel(t, on).open = on
         /\ on => SetChannel(t, on).resp = t.resp
<1> DEFINE u == [t EXCEPT !.open = on, !.pending = FALSE, !.asked = FALSE]
<1>1. Arbiter(u) /\ u.open = on /\ u.resp = t.resp
  BY DEF Arbiter
<1>2. CASE on
  BY <1>1, <1>2, RequestSendArbiter DEF SetChannel
<1>3. CASE ~on
  <2>1. RespRoom >= 0 /\ FrameRoom >= 0
    BY DEF ShellAssumption, TxRoomAssumption
  <2> QED BY <1>1, <1>3, <2>1 DEF SetChannel, Arbiter
<1> QED BY <1>2, <1>3

LEMMA OnCanSendNowArbiter ==
  ASSUME ShellAssumption, NEW t, Arbiter(t), NEW sent \in BOOLEAN
  PROVE  /\ Arbiter(OnCanSendNow(t, sent)) /\ OnCanSendNow(t, sent).open = t.open
         /\ OnCanSendNow(t, sent).resp
              = (IF ~sent \/ t.resp = <<>> THEN t.resp ELSE Tail(t.resp))
<1> DEFINE u == [t EXCEPT !.pending = FALSE, !.asked = FALSE]
           v == IF ~sent \/ Drained(t) THEN u
                ELSE IF t.resp # <<>> THEN [u EXCEPT !.resp = Tail(@)]
                ELSE [u EXCEPT !.frames = Tail(@)]
<1>1. Arbiter(u) /\ u.open = t.open /\ u.resp = t.resp /\ u.frames = t.frames
  BY DEF Arbiter
<1>2. /\ Arbiter(v) /\ v.open = t.open
      /\ v.resp = (IF ~sent \/ t.resp = <<>> THEN t.resp ELSE Tail(t.resp))
  <2>1. RespRoom \in Nat /\ FrameRoom \in Nat
    BY DEF ShellAssumption, TxRoomAssumption
  <2>2. CASE ~sent \/ Drained(t)
    BY <1>1, <2>2 DEF Drained
  <2>3. CASE sent /\ t.resp # <<>>
    <3>1. Tail(t.resp) \in Seq(Lines) /\ Len(Tail(t.resp)) <= RespRoom
      BY <2>1, <2>3 DEF Arbiter
    <3> QED BY <1>1, <2>3, <3>1 DEF Drained, Arbiter
  <2>4. CASE sent /\ t.resp = <<>> /\ t.frames # <<>>
    <3>1. Tail(t.frames) \in Seq(Frames) /\ Len(Tail(t.frames)) <= FrameRoom
      BY <2>1, <2>4 DEF Arbiter
    <3> QED BY <1>1, <2>4, <3>1 DEF Drained, Arbiter
  <2> QED BY <2>2, <2>3, <2>4 DEF Drained
<1> QED BY <1>2, RequestSendArbiter DEF OnCanSendNow

\* MODE SHELL queues its OK behind whatever is queued, and at most one reply is sent
\* before the command returns.
LEMMA AnsweredArbiter ==
  ASSUME ShellAssumption, NEW t, Arbiter(t), HasRespRoom(t), NEW u \in Answered(t, "ok")
  PROVE  /\ Arbiter(u) /\ u.open = t.open
         /\ u.resp = <<>> \/ \E i \in DOMAIN u.resp : u.resp[i] = "ok"
<1> DEFINE v == EnqueueResponse(t, "ok")
<1>1. Arbiter(v) /\ v.resp = Append(t.resp, "ok") /\ v.open = t.open
  BY EnqueueResponseArbiter DEF Lines
<1>2. t.resp \in Seq(Lines)
  BY DEF Arbiter
<1>3. CASE u = v
  <2>1. u.resp[Len(t.resp) + 1] = "ok" /\ Len(t.resp) + 1 \in DOMAIN u.resp
    BY <1>1, <1>2, <1>3
  <2> QED BY <1>1, <1>3, <2>1
<1>4. CASE u = OnCanSendNow(v, TRUE)
  <2>1. Arbiter(u) /\ u.open = v.open /\ u.resp = Tail(Append(t.resp, "ok"))
    <3>1. v.resp # <<>>
      BY <1>1, <1>2
    <3> QED BY <1>1, <1>4, <3>1, OnCanSendNowArbiter
  <2>2. u.resp = <<>> \/ (Len(t.resp) \in DOMAIN u.resp /\ u.resp[Len(t.resp)] = "ok")
    BY <1>2, <2>1
  <2> QED BY <1>1, <2>1, <2>2
<1> QED BY <1>3, <1>4 DEF Answered

-----------------------------------------------------------------------------
(* The sessions *)

LEMMA SInvInit == ShellAssumption /\ Init => SInv
<1> SUFFICES ASSUME ShellAssumption, Init PROVE SInv
  OBVIOUS
<1>1. Arbiter(tx)
  BY DEF Init, Silent, Arbiter, ShellAssumption, TxRoomAssumption
<1>2. Typed
  BY <1>1 DEF Init, Typed, NoReader, NoPost, Idle
<1>3. Counted
  BY DEF Init, Counted, Active, Idle, ShellAssumption
<1>4. Owned /\ Starting
  BY DEF Init, Owned, Starting, Active, NoReader, NoPost, Idle
<1> QED BY <1>2, <1>3, <1>4 DEF SInv

\* The child, the reader, and what the run loop does outside of a session's start and
\* end and of the arbiter.
LEMMA ReaderKeeps ==
  ASSUME ShellAssumption, SInv, Child \/ Reader
  PROVE  SInv'
<1>0. Typed /\ Counted /\ Owned /\ Starting
  BY DEF SInv
<1>1. CASE Child
  <2>1. UNCHANGED <<mode, gen, reader, out, pending, pump, leave, pumpTimer, drain, tx, told,
                    imuOn, loop, sessions>>
    BY <1>1 DEF Child, Say, ChildExits, outVars, postVars
  <2>2. /\ child' \in {"none", "alive", "exited"}
        /\ pipe' \in 0 .. PipeRoom /\ blind' = blind
    BY <1>0, <1>1 DEF Child, Say, ChildExits, outVars, Typed, Counted,
       ShellAssumption
  <2>3. Typed'
    BY <1>0, <2>1, <2>2 DEF Typed
  <2>4. Counted'
    BY <1>0, <2>1, <2>2 DEF Counted, Active
  <2>5. Owned' /\ Starting'
    BY <1>0, <2>1 DEF Owned, Starting, Active, Joining
  <2> QED BY <2>3, <2>4, <2>5 DEF SInv
<1>2. CASE Reader
  <2>1. UNCHANGED <<mode, gen, child, drain, tx, told, imuOn, loop, sessions, pumpTimer>>
    BY <1>2 DEF Reader, ReaderTakes, ReaderPosts, ReaderStops, ReaderLeaves, readerKept
  <2>2. \E from \in {"polling", "posting", "leaving"},
            to \in {"polling", "posting", "leaving", "done"} :
          /\ reader.at = from /\ reader' = [reader EXCEPT !.at = to]
          /\ \/ to # "done" /\ leave' = leave
             \/ to = "done" /\ leave' = [queued |-> TRUE, gen |-> reader.gen]
    BY <1>0, <1>2 DEF Reader, ReaderTakes, ReaderPosts, ReaderStops, ReaderLeaves,
       ReaderStep
  <2>3. /\ reader'.at \in {"polling", "posting", "leaving", "done"}
        /\ reader.at \in {"polling", "posting", "leaving"}
        /\ reader'.gen = reader.gen
        /\ reader' \in [at : {"none", "polling", "posting", "leaving", "done"}, gen : Nat]
        /\ \/ reader'.at # "done" /\ leave' = leave
           \/ reader'.at = "done" /\ leave' = [queued |-> TRUE, gen |-> reader.gen]
    BY <1>0, <2>2 DEF Typed
  <2>4. pump' = pump \/ pump' = [queued |-> TRUE, gen |-> reader.gen]
    BY <1>2 DEF Reader, ReaderTakes, ReaderPosts, ReaderStops, ReaderLeaves
  <2>5. Active /\ reader.gen = gen /\ gen \in Nat
    BY <1>0, <2>3 DEF Owned, Typed
  <2>6. pending' \in BOOLEAN /\ out' \in out .. OutRoom /\ pipe' \in 0 .. PipeRoom
        /\ blind' \in {"no", "no_peer", "no_mtu", "overrun"}
    <3>0. /\ pipe \in 0 .. PipeRoom /\ PipeRoom \in Nat
          /\ blind \in {"no", "no_peer", "no_mtu", "overrun"}
          /\ out \in 0 .. OutRoom /\ OutRoom \in Nat /\ pending \in BOOLEAN
      BY <1>0 DEF Typed, Counted, ShellAssumption
    <3>1. CASE ReaderTakes
      BY <3>0, <3>1 DEF ReaderTakes
    <3>2. CASE UNCHANGED outVars
      BY <3>0, <3>2 DEF outVars
    <3> QED BY <1>2, <3>1, <3>2 DEF Reader, ReaderPosts, ReaderStops, ReaderLeaves
  <2>7. Typed'
    <3>1. /\ pump' \in [queued : BOOLEAN, gen : Nat]
          /\ leave' \in [queued : BOOLEAN, gen : Nat]
      <4>1. reader.gen \in Nat
        BY <1>0 DEF Typed
      <4>2. [queued |-> TRUE, gen |-> reader.gen] \in [queued : BOOLEAN, gen : Nat]
        BY <4>1
      <4> QED BY <1>0, <2>3, <2>4, <4>2 DEF Typed
    <3> QED BY <1>0, <2>1, <2>3, <2>6, <3>1 DEF Typed
  <2>8. Counted'
    BY <1>0, <2>1, <2>6 DEF Counted, Active, ShellAssumption
  <2>9. Owned' /\ Starting'
    BY <1>0, <2>1, <2>3, <2>4, <2>5 DEF Owned, Starting, Active, Joining, Typed
  <2> QED BY <2>7, <2>8, <2>9 DEF SInv
<1> QED BY <1>1, <1>2

\* A handler that neither begins nor ends a session.
Handled ==
  /\ ~Joining /\ UNCHANGED <<gen, child, reader, pipe, sessions>>
  /\ mode' \in {"telemetry", "starting", "shell"} /\ (Active' <=> Active)
  /\ pump' \in {pump, [pump EXCEPT !.queued = FALSE]}
  /\ \/ leave' = leave
     \/ leave' = [leave EXCEPT !.queued = FALSE] /\ ~(leave.gen = gen /\ Active)
  /\ pending' \in BOOLEAN /\ pumpTimer' \in BOOLEAN /\ drain' \in BOOLEAN
  /\ told' \in BOOLEAN /\ imuOn' \in BOOLEAN /\ Arbiter(tx')
  /\ out' \in 0 .. OutRoom /\ blind' \in {"no", "no_peer", "no_mtu", "overrun"}
  /\ \/ loop' = Idle
     \/ loop' = [at |-> "sending", why |-> "none"] /\ Active /\ out' > 0
  /\ Starting'

LEMMA HandledKeeps == SInv /\ Handled => SInv'
<1> SUFFICES ASSUME SInv, Handled PROVE SInv'
  OBVIOUS
<1>0. Typed /\ Counted /\ Owned
  BY DEF SInv
<1>1. /\ pump' \in [queued : BOOLEAN, gen : Nat] /\ pump'.gen = pump.gen
      /\ leave' \in [queued : BOOLEAN, gen : Nat] /\ leave'.gen = leave.gen
      /\ leave'.queued => leave.queued
      /\ leave.queued /\ leave.gen = gen /\ Active => leave'.queued
  BY <1>0 DEF Typed, Handled
<1>2. /\ loop' \in [at : {"idle", "joining", "sending"},
                    why : {"none", "no_buffer", "usb_request", "nsh_exit", "drain_timeout",
                           "peer_closed"}]
      /\ loop'.at # "joining" /\ (loop'.at = "sending" => out' > 0)
      /\ loop' # Idle => Active
  BY DEF Handled, Idle
<1>3. Typed'
  BY <1>0, <1>1, <1>2 DEF Typed, Handled
<1>4. Counted'
  BY <1>0, <1>2 DEF Counted, Handled
<1>5. Owned'
  BY <1>0, <1>1, <1>2 DEF Owned, Handled, Joining
<1> QED BY <1>3, <1>4, <1>5 DEF SInv, Handled

\* cleanup_active_shell leaves the session as it is until the reader has been joined.
LEMMA CleanupKeeps ==
  ASSUME SInv, Active,
         UNCHANGED <<mode, gen, child, reader, outVars, pump, told, imuOn, sessions>>,
         NEW reason \in {"usb_request", "nsh_exit", "drain_timeout", "peer_closed"},
         Cleanup(reason), Arbiter(tx'),
         leave' \in {leave, [leave EXCEPT !.queued = FALSE]}
  PROVE  SInv'
<1>0. Typed /\ Counted /\ Owned
  BY DEF SInv
<1>1. UNCHANGED <<mode, gen, child, reader, pipe, out, pending, blind, pump, told, imuOn,
                  sessions>>
  BY DEF outVars
<1>2. /\ leave' \in [queued : BOOLEAN, gen : Nat] /\ leave'.gen = leave.gen
      /\ leave'.queued => leave.queued
  BY <1>0 DEF Typed
<1>3. /\ loop'.at = "joining"
      /\ loop' \in [at : {"idle", "joining", "sending"},
                    why : {"none", "no_buffer", "usb_request", "nsh_exit", "drain_timeout",
                           "peer_closed"}]
      /\ drain' \in BOOLEAN /\ pumpTimer' \in BOOLEAN
  BY DEF Cleanup
<1>4. Typed'
  BY <1>0, <1>1, <1>2, <1>3 DEF Typed
<1>5. Counted'
  BY <1>0, <1>1, <1>3 DEF Counted, Active
<1>6. Owned' /\ Starting'
  BY <1>0, <1>1, <1>2, <1>3 DEF Owned, Starting, Active, Joining
<1> QED BY <1>4, <1>5, <1>6 DEF SInv

LEMMA CleanupEndKeeps ==
  ASSUME ShellAssumption, SInv, CleanupEnd
  PROVE  SInv'
<1>0. Typed /\ Counted /\ Owned /\ Active
  BY DEF SInv, Owned, CleanupEnd, Idle
<1>1. /\ mode' = "telemetry" /\ child' = "none" /\ pipe' = 0 /\ out' = 0 /\ pending' = FALSE
      /\ reader' = NoReader /\ loop' = Idle /\ told' = FALSE /\ gen' = gen + 1
      /\ blind' = "no"
      /\ UNCHANGED <<pump, leave, pumpTimer, drain, imuOn, sessions>>
  BY DEF CleanupEnd, postVars
<1>2. Arbiter(tx')
  <2> DEFINE ready == IF loop.why \in {"peer_closed", "drain_timeout"} \/ ~tx.open THEN tx
                      ELSE EnqueueResponse(tx, "ready")
  <2>1. Arbiter(ready)
    BY <1>0, EnqueueResponseArbiter DEF Typed, Lines
  <2>2. Arbiter(IF loop.why = "no_buffer" THEN EnqueueResponse(ready, "err") ELSE ready)
    <3> HIDE DEF ready
    <3> QED BY <2>1, EnqueueResponseArbiter DEF Lines
  <2> QED BY <2>2 DEF CleanupEnd
<1>3. gen \in Nat /\ gen = 2 * sessions - 1 /\ sessions \in Nat /\ MaxSessions \in Nat
  BY <1>0 DEF Typed, Owned, Counted, ShellAssumption
<1>4. Typed'
  BY <1>0, <1>1, <1>2 DEF Typed, NoReader, Idle
<1>5. Counted'
  BY <1>0, <1>1, <1>3 DEF Counted, Active, Idle, ShellAssumption
<1>6. Owned' /\ Starting'
  BY <1>0, <1>1, <1>3 DEF Owned, Starting, Active, NoReader, Idle, Typed
<1> QED BY <1>4, <1>5, <1>6 DEF SInv

\* btsensor_shell_enter begins a session that nothing posted so far names.
LEMMA EnterKeeps ==
  ASSUME ShellAssumption, SInv, Enter,
         UNCHANGED <<out, pipe, blind, pump, leave>>, mode' \in {"starting", "shell"},
         pending' \in BOOLEAN, pumpTimer' \in BOOLEAN, drain' \in BOOLEAN, told' \in BOOLEAN,
         imuOn' \in BOOLEAN, Arbiter(tx'), Starting',
         loop' \in {Idle, [at |-> "joining", why |-> "no_buffer"]}
  PROVE  SInv'
<1>0. Typed /\ Counted /\ Owned
  BY DEF SInv
<1>1. /\ ~Active /\ Active' /\ child' = "alive" /\ sessions < MaxSessions
      /\ sessions' = sessions + 1 /\ gen' = gen + 1
      /\ reader' = [at |-> "polling", gen |-> gen + 1]
  BY DEF Enter, Active
<1>2. gen = 2 * sessions /\ sessions \in Nat /\ MaxSessions \in Nat /\ gen \in Nat
  BY <1>0, <1>1 DEF Counted, ShellAssumption
<1>3. /\ loop' \in [at : {"idle", "joining", "sending"},
                    why : {"none", "no_buffer", "usb_request", "nsh_exit", "drain_timeout",
                           "peer_closed"}]
      /\ loop'.at # "sending"
  BY DEF Idle
<1>4. /\ reader' \in [at : {"none", "polling", "posting", "leaving", "done"}, gen : Nat]
      /\ reader'.at = "polling" /\ reader'.gen = gen'
  BY <1>1, <1>2
<1>5. Typed'
  BY <1>0, <1>1, <1>3, <1>4 DEF Typed
<1>6. Counted'
  BY <1>0, <1>1, <1>2, <1>3 DEF Counted
<1>7. Owned'
  BY <1>0, <1>1, <1>2, <1>4 DEF Owned, Typed
<1> QED BY <1>5, <1>6, <1>7 DEF SInv

LEMMA CommandKeeps ==
  ASSUME ShellAssumption, SInv, Commands
  PROVE  SInv'
<1>0. Typed /\ Counted /\ Owned /\ Starting
  BY DEF SInv
<1>1. CASE ModeShell
  <2>0. /\ imuOn' = FALSE /\ Enter /\ loop = Idle
        /\ UNCHANGED <<out, pipe, pending, blind, pump, leave>>
    BY <1>1 DEF ModeShell, outVars, InLoop
  <2>1. CASE HasRespRoom(tx)
    <3>1. /\ tx' \in Answered(tx, "ok") /\ told' = (tx'.resp = <<>>)
          /\ drain' = ~DrainedNow(tx') /\ UNCHANGED <<loop, pumpTimer>>
          /\ mode' = IF DrainedNow(tx') THEN "shell" ELSE "starting"
      BY <1>1, <2>1 DEF ModeShell
    <3>2. /\ Arbiter(tx')
          /\ tx'.resp = <<>> \/ \E i \in DOMAIN tx'.resp : tx'.resp[i] = "ok"
      BY <1>0, <2>1, <3>1, AnsweredArbiter DEF Typed
    <3>3. Starting'
      BY <3>1, <3>2 DEF Starting
    <3>4. /\ mode' \in {"starting", "shell"} /\ drain' \in BOOLEAN /\ told' \in BOOLEAN
          /\ pumpTimer' \in BOOLEAN /\ pending' \in BOOLEAN /\ imuOn' \in BOOLEAN
      BY <1>0, <2>0, <3>1 DEF Typed
    <3> QED BY <2>0, <3>1, <3>2, <3>3, <3>4, EnterKeeps
  <2>2. CASE ~HasRespRoom(tx)
    <3>1. /\ mode' = "starting" /\ drain' = FALSE /\ pumpTimer' = FALSE
          /\ UNCHANGED <<tx, told>>
          /\ loop' = [at |-> "joining", why |-> "no_buffer"]
      BY <1>1, <2>2 DEF ModeShell, Cleanup
    <3>2. Starting' /\ Arbiter(tx')
      BY <1>0, <3>1 DEF Starting, Joining, Typed
    <3>3. /\ mode' \in {"starting", "shell"} /\ drain' \in BOOLEAN /\ told' \in BOOLEAN
          /\ pumpTimer' \in BOOLEAN /\ pending' \in BOOLEAN /\ imuOn' \in BOOLEAN
      BY <1>0, <2>0, <3>1 DEF Typed
    <3> QED BY <2>0, <3>1, <3>2, <3>3, EnterKeeps
  <2> QED BY <2>1, <2>2
<1>2. CASE ModeShellFails
  <2>1. /\ UNCHANGED <<mode, gen, child, reader, pipe, out, pending, blind, pump, leave,
                       pumpTimer, drain, told, loop, sessions>>
        /\ loop = Idle /\ ~Active /\ imuOn' = FALSE /\ tx' = EnqueueResponse(tx, "err")
    BY <1>2 DEF ModeShellFails, outVars, postVars, InLoop
  <2>2. Arbiter(tx')
    BY <1>0, <2>1, EnqueueResponseArbiter DEF Typed, Lines
  <2>3. Starting'
    BY <2>1 DEF Starting, Active
  <2> QED BY <1>0, <2>1, <2>2, <2>3, HandledKeeps DEF Handled, Typed, Counted, Active,
     Joining, Idle
<1>3. CASE UsbShell
  <2>1. /\ Enter /\ mode' = "shell" /\ loop = Idle
        /\ UNCHANGED <<pipe, out, pending, blind, pump, leave, pumpTimer, drain, tx, told,
                       imuOn, loop>>
    BY <1>3 DEF UsbShell, enterKept, outVars, postVars, InLoop
  <2>2. Starting'
    BY <2>1 DEF Starting
  <2> QED BY <1>0, <2>1, <2>2, EnterKeeps DEF Typed
<1>4. CASE UsbTelemetry
  <2>1. /\ Active /\ Cleanup("usb_request") /\ UNCHANGED <<leave, tx>>
        /\ UNCHANGED <<mode, gen, child, reader, outVars, pump, told, imuOn, sessions>>
    BY <1>4 DEF UsbTelemetry
  <2> QED BY <1>0, <2>1, CleanupKeeps DEF Typed
<1>5. CASE SetImu
  <2>1. /\ UNCHANGED <<mode, gen, child, reader, pipe, out, pending, blind, pump, leave,
                       pumpTimer, drain, tx, told, loop, sessions>>
        /\ loop = Idle /\ imuOn' \in BOOLEAN
    BY <1>5 DEF SetImu, outVars, postVars, InLoop
  <2>2. Starting'
    BY <1>0, <2>1 DEF Starting, Joining
  <2> QED BY <1>0, <2>1, <2>2, HandledKeeps DEF Handled, Typed, Counted, Active,
     Joining, Idle
<1> QED BY <1>1, <1>2, <1>3, <1>4, <1>5 DEF Commands

LEMMA CallbackKeeps ==
  ASSUME SInv, Callbacks
  PROVE  SInv'
<1>0. Typed /\ Counted /\ Owned /\ Starting /\ loop = Idle
  BY DEF SInv, Callbacks, RunPump, RunExit, PumpTimer, DrainTimeout, InLoop
<1>1. /\ UNCHANGED <<mode, gen, child, reader, pipe, out, pending, told, imuOn, sessions>>
      /\ blind' \in {blind, "no_peer"}
  BY DEF Callbacks, RunPump, RunExit, PumpTimer, DrainTimeout, loopKept, outVars
<1>2. CASE RunPump
  <2>1. /\ pump' = [pump EXCEPT !.queued = FALSE] /\ UNCHANGED <<leave, drain, tx, loop>>
        /\ pumpTimer' \in BOOLEAN
    BY <1>0, <1>2 DEF RunPump, Typed
  <2>2. Starting'
    BY <1>0, <1>1, <2>1 DEF Starting, Joining
  <2> QED BY <1>0, <1>1, <2>1, <2>2, HandledKeeps DEF Handled, Typed, Counted, Active,
     Joining, Idle
<1>3. CASE RunExit
  <2>1. leave' = [leave EXCEPT !.queued = FALSE] /\ UNCHANGED <<pump, tx>>
    BY <1>3 DEF RunExit
  <2>2. CASE leave.gen = gen /\ Active
    <3>1. Cleanup("nsh_exit")
      BY <1>3, <2>2 DEF RunExit
    <3> QED BY <1>0, <1>3, <2>1, <2>2, <3>1, CleanupKeeps DEF Typed, RunExit, loopKept
  <2>3. CASE ~(leave.gen = gen /\ Active)
    <3>1. UNCHANGED <<drain, pumpTimer, loop>>
      BY <1>3, <2>3 DEF RunExit
    <3>2. Starting'
      BY <1>0, <1>1, <2>1, <3>1 DEF Starting, Joining
    <3> QED BY <1>0, <1>1, <2>1, <2>3, <3>1, <3>2, HandledKeeps
            DEF Handled, Typed, Counted, Active, Joining, Idle
  <2> QED BY <2>2, <2>3
<1>4. CASE PumpTimer
  <2>1. /\ pumpTimer' = FALSE /\ UNCHANGED <<pump, leave, drain, loop>>
        /\ \E b \in BOOLEAN : tx' = [tx EXCEPT !.asked = b] /\ (b => tx.open)
    BY <1>0, <1>4 DEF PumpTimer, Typed, Arbiter
  <2>2. Arbiter(tx') /\ tx'.resp = tx.resp
    BY <1>0, <2>1 DEF Typed, Arbiter
  <2>3. Starting'
    BY <1>0, <1>1, <2>1, <2>2 DEF Starting, Joining
  <2> QED BY <1>0, <1>1, <2>1, <2>2, <2>3, HandledKeeps DEF Handled, Typed, Counted,
     Active, Joining, Idle
<1>5. CASE DrainTimeout
  <2>1. UNCHANGED <<pump, leave, tx>>
    BY <1>5 DEF DrainTimeout
  <2>2. CASE mode = "starting"
    <3>1. Cleanup("drain_timeout") /\ Active
      BY <1>5, <2>2 DEF DrainTimeout, Active
    <3> QED BY <1>0, <1>5, <2>1, <3>1, CleanupKeeps DEF Typed, DrainTimeout, loopKept
  <2>3. CASE mode # "starting"
    <3>1. drain' = FALSE /\ UNCHANGED <<pumpTimer, loop>>
      BY <1>5, <2>3 DEF DrainTimeout
    <3>2. Starting'
      BY <1>1, <2>3 DEF Starting
    <3> QED BY <1>0, <1>1, <2>1, <3>1, <3>2, HandledKeeps
            DEF Handled, Typed, Counted, Active, Joining, Idle
  <2> QED BY <2>2, <2>3
<1> QED BY <1>2, <1>3, <1>4, <1>5 DEF Callbacks

LEMMA ChannelKeeps ==
  ASSUME ShellAssumption, SInv, Channel
  PROVE  SInv'
<1>0. Typed /\ Counted /\ Owned /\ Starting
  BY DEF SInv
<1>1. UNCHANGED <<gen, child, reader, pipe, pump, leave, imuOn, sessions>>
  BY DEF Channel, Connect, Disconnect, Emit, CanSend, Sent, loopKept, outVars, postVars
<1>2. CASE Connect
  <2>1. UNCHANGED <<mode, out, pending, blind, pumpTimer, drain, told, loop>> /\ loop = Idle
        /\ tx' = SetChannel(tx, TRUE)
    BY <1>2 DEF Connect, outVars, postVars, InLoop
  <2>2. Arbiter(tx') /\ tx'.resp = tx.resp
    BY <1>0, <2>1, SetChannelArbiter DEF Typed
  <2>3. Starting'
    BY <1>0, <2>1, <2>2 DEF Starting, Joining
  <2> QED BY <1>0, <1>1, <2>1, <2>2, <2>3, HandledKeeps DEF Handled, Typed, Counted,
     Active, Joining, Idle
<1>3. CASE Disconnect
  <2>1. UNCHANGED <<mode, out, pending, blind, told>> /\ loop = Idle /\ tx' = SetChannel(tx, FALSE)
    BY <1>3 DEF Disconnect, loopKept, outVars, InLoop
  <2>2. Arbiter(tx')
    BY <1>0, <2>1, SetChannelArbiter DEF Typed
  <2>3. CASE Active
    <3>1. Cleanup("peer_closed")
      BY <1>3, <2>3 DEF Disconnect
    <3> QED BY <1>0, <1>3, <2>2, <2>3, <3>1, CleanupKeeps DEF Disconnect, loopKept
  <2>4. CASE ~Active
    <3>1. UNCHANGED <<drain, pumpTimer, loop>>
      BY <1>3, <2>4 DEF Disconnect
    <3>2. Starting'
      BY <2>1, <2>4 DEF Starting, Active
    <3> QED BY <1>0, <1>1, <2>1, <2>2, <3>1, <3>2, HandledKeeps
            DEF Handled, Typed, Counted, Active, Joining, Idle
  <2> QED BY <2>3, <2>4
<1>4. CASE Emit
  <2>1. UNCHANGED <<mode, out, pending, blind, pumpTimer, drain, told, loop>> /\ loop = Idle
        /\ tx' = EnqueueFrame(tx, "sample")
    BY <1>4 DEF Emit, loopKept, outVars, postVars, InLoop
  <2>2. Arbiter(tx') /\ tx'.resp = tx.resp
    BY <1>0, <2>1, EnqueueFrameArbiter DEF Typed, Frames
  <2>3. Starting'
    BY <1>0, <2>1, <2>2 DEF Starting, Joining
  <2> QED BY <1>0, <1>1, <2>1, <2>2, <2>3, HandledKeeps DEF Handled, Typed, Counted,
     Active, Joining, Idle
<1>5. CASE CanSend
  <2>0. PICK sent \in BOOLEAN :
          /\ tx' = OnCanSendNow(tx, sent)
          /\ told' = (told \/ (sent /\ tx.resp # <<>> /\ tx.resp[1] = "ok" /\ Active))
          /\ drain' = (drain /\ ~(drain /\ Drained(tx')))
          /\ mode' = IF drain /\ Drained(tx') /\ mode = "starting" THEN "shell" ELSE mode
    BY <1>5 DEF CanSend, ArbiterSends
  <2>1. loop = Idle /\ UNCHANGED <<out, pumpTimer>>
    BY <1>5 DEF CanSend, postVars, InLoop
  <2>2. /\ Arbiter(tx')
        /\ tx'.resp = (IF ~sent \/ tx.resp = <<>> THEN tx.resp ELSE Tail(tx.resp))
        /\ tx.resp \in Seq(Lines)
    BY <1>0, <2>0, OnCanSendNowArbiter DEF Typed, Arbiter
  <2>3. /\ pending' \in BOOLEAN /\ blind' \in {"no", "no_peer", "no_mtu", "overrun"}
        /\ \/ loop' = Idle
           \/ loop' = [at |-> "sending", why |-> "none"] /\ Active /\ out' > 0
    BY <1>0, <1>5, <2>1 DEF CanSend, Typed
  <2>4. Starting'
    <3> SUFFICES ASSUME mode' = "starting"
                 PROVE  drain' /\ (told' \/ \E i \in DOMAIN tx'.resp : tx'.resp[i] = "ok")
      BY DEF Starting
    <3>1. mode = "starting" /\ drain' /\ Active
      BY <1>0, <2>0, <2>1 DEF Starting, Joining, Active, Idle
    <3>2. told \/ \E i \in DOMAIN tx.resp : tx.resp[i] = "ok"
      BY <1>0, <2>1, <3>1 DEF Starting, Joining, Idle
    <3>3. CASE told
      BY <2>0, <3>1, <3>3
    <3>4. CASE ~told
      <4>1. PICK i \in DOMAIN tx.resp : tx.resp[i] = "ok"
        BY <3>2, <3>4
      <4>2. CASE i = 1 /\ sent
        BY <2>0, <2>2, <3>1, <4>1, <4>2
      <4>3. CASE i # 1 /\ sent
        <5>1. tx'.resp = Tail(tx.resp) /\ i - 1 \in DOMAIN tx'.resp /\ tx'.resp[i - 1] = "ok"
          BY <2>2, <4>1, <4>3
        <5> QED BY <3>1, <5>1
      <4>4. CASE ~sent
        BY <2>2, <3>1, <4>1, <4>4
      <4> QED BY <4>2, <4>3, <4>4
    <3> QED BY <3>3, <3>4
  <2>5. /\ mode' \in {"telemetry", "starting", "shell"} /\ (Active' <=> Active)
        /\ drain' \in BOOLEAN /\ told' \in BOOLEAN
    BY <1>0, <2>0 DEF Typed, Active
  <2> QED BY <1>0, <1>1, <2>1, <2>2, <2>3, <2>4, <2>5, HandledKeeps DEF Handled, Typed,
     Counted, Joining, Idle
<1>6. CASE Sent
  <2>1. /\ UNCHANGED <<mode, drain, tx, told, blind>> /\ loop' = Idle /\ loop.at = "sending"
        /\ out' \in {out - 1, out}
        /\ pending' \in {pending, TRUE} /\ pumpTimer' \in {pumpTimer, TRUE}
    BY <1>6 DEF Sent
  <2>2. out' \in 0 .. OutRoom /\ pending' \in BOOLEAN /\ pumpTimer' \in BOOLEAN
    <3>1. out \in 0 .. OutRoom /\ out > 0 /\ OutRoom \in Nat
      BY <1>0, <2>1 DEF Counted, ShellAssumption
    <3>2. out' \in 0 .. OutRoom
      BY <2>1, <3>1
    <3> QED BY <1>0, <2>1, <3>2 DEF Typed
  <2>3. Starting'
    BY <1>0, <2>1 DEF Starting, Joining
  <2> QED BY <1>0, <1>1, <2>1, <2>2, <2>3, HandledKeeps DEF Handled, Typed, Active, Joining
<1> QED BY <1>2, <1>3, <1>4, <1>5, <1>6 DEF Channel

LEMMA SInvNext == ShellAssumption /\ SInv /\ [Next]_vars => SInv'
<1> SUFFICES ASSUME ShellAssumption, SInv, [Next]_vars PROVE SInv'
  OBVIOUS
<1>1. CASE UNCHANGED vars
  BY <1>1 DEF vars, SInv, Typed, Counted, Owned, Starting, Active, Joining
<1> QED BY <1>1, ReaderKeeps, CommandKeeps, CallbackKeeps, ChannelKeeps, CleanupEndKeeps
   DEF Next

\* Each part of the state has its type, and the counts stay within their bounds.
LEMMA SInvTypeOK == ShellAssumption /\ SInv => TypeOK
<1> SUFFICES ASSUME ShellAssumption, SInv PROVE TypeOK
  OBVIOUS
<1>0. Typed /\ Counted /\ Owned
  BY DEF SInv
<1>1. gen \in 0 .. (2 * MaxSessions) /\ pipe \in 0 .. PipeRoom
  <2>1. Active => gen \in Nat
    BY <1>0 DEF Typed, Owned
  <2> QED BY <1>0, <2>1 DEF Counted, ShellAssumption
<1>2. reader \in [at : {"none", "polling", "posting", "leaving", "done"},
                 gen : 0 .. (2 * MaxSessions)]
  <2>1. reader.gen \in 0 .. (2 * MaxSessions)
    BY <1>0, <1>1 DEF Typed, Owned, ShellAssumption
  <2> QED BY <1>0, <2>1 DEF Typed
<1>3. {pump, leave} \subseteq [queued : BOOLEAN, gen : 0 .. (2 * MaxSessions)]
  <2>1. pump.gen \in 0 .. (2 * MaxSessions) /\ leave.gen \in 0 .. (2 * MaxSessions)
    BY <1>0, <1>1 DEF Typed, Owned, ShellAssumption
  <2> QED BY <1>0, <2>1 DEF Typed
<1>4. loop.at \in {"idle", "joining", "sending"} /\ out \in 0 .. OutRoom
      /\ Len(tx.frames) <= FrameRoom /\ Len(tx.resp) <= RespRoom
  BY <1>0 DEF Typed, Counted, Arbiter
<1> QED BY <1>0, <1>1, <1>2, <1>3, <1>4 DEF TypeOK, Typed

\* What the reader posted last is there to be handled, and so is the timer.
LEMMA SInvEndIsOwed == SInv => EndIsOwed
BY DEF SInv, Owned, Starting, EndIsOwed, InLoop, Joining, Idle

\* The arbiter switches to SHELL when it has nothing left to send; the OK that was
\* queued is then on the wire.
LEMMA SwitchStep ==
  ShellAssumption /\ SInv /\ [Next]_vars =>
    [mode # "shell" /\ mode' = "shell" /\ tx' # tx => told' /\ Drained(tx')]_vars
<1> SUFFICES ASSUME ShellAssumption, SInv, Next, mode # "shell", mode' = "shell", tx' # tx
             PROVE  told' /\ Drained(tx')
  BY DEF vars
<1>1. CASE ModeShell
  BY <1>1 DEF ModeShell, Cleanup, DrainedNow, Drained
<1>2. CASE CanSend
  <2>1. PICK sent \in BOOLEAN :
          /\ tx' = OnCanSendNow(tx, sent)
          /\ told' = (told \/ (sent /\ tx.resp # <<>> /\ tx.resp[1] = "ok" /\ Active))
          /\ drain /\ Drained(tx') /\ mode = "starting" /\ loop = Idle
    BY <1>2 DEF CanSend, ArbiterSends, InLoop
  <2>2. told \/ \E i \in DOMAIN tx.resp : tx.resp[i] = "ok"
    BY <2>1 DEF SInv, Starting, Joining, Idle
  <2>3. /\ tx'.resp = (IF ~sent \/ tx.resp = <<>> THEN tx.resp ELSE Tail(tx.resp))
        /\ tx.resp \in Seq(Lines) /\ tx'.resp = <<>>
    <3>1. Arbiter(tx)
      BY DEF SInv, Typed
    <3>2. tx'.resp = (IF ~sent \/ tx.resp = <<>> THEN tx.resp ELSE Tail(tx.resp))
      BY <2>1, <3>1, OnCanSendNowArbiter
    <3> QED BY <2>1, <3>1, <3>2 DEF Arbiter, Drained
  <2>4. CASE told
    BY <2>1, <2>4
  <2>5. CASE ~told
    <3>1. tx.resp # <<>> /\ sent
      BY <2>2, <2>3, <2>5
    <3>2. Tail(tx.resp) = <<>>
      BY <2>3, <3>1
    <3>3. Len(tx.resp) = 1
      <4>1. Len(Tail(tx.resp)) = Len(tx.resp) - 1 /\ Len(tx.resp) \in Nat
        BY <2>3, <3>1
      <4>2. Len(Tail(tx.resp)) = 0
        <5>1. Len(<<>>) = 0
          OBVIOUS
        <5> QED BY <3>2, <5>1, Zenon
      <4> QED BY <4>1, <4>2
    <3>4. tx.resp[1] = "ok"
      BY <2>2, <2>3, <2>5, <3>3
    <3> QED BY <2>1, <3>1, <3>4 DEF Active
  <2> QED BY <2>4, <2>5
<1>3. CASE ~(ModeShell \/ CanSend)
  <2>1. mode' = mode \/ tx' = tx \/ mode' = "telemetry"
    BY <1>3 DEF Next, Child, Reader, Commands, Callbacks, Channel, Say, ChildExits,
       ReaderTakes,
       ReaderPosts, ReaderStops, ReaderLeaves, readerKept, ModeShellFails, UsbShell,
       UsbTelemetry, SetImu, RunPump, RunExit, PumpTimer, DrainTimeout, loopKept, Connect,
       Disconnect, Emit, Sent, CleanupEnd
  <2> QED BY <2>1
<1> QED BY <1>1, <1>2, <1>3

\* An exit that ends a session names its generation, which no reader but its own posts.
LEMMA OwnExitStep ==
  SInv /\ [Next]_vars =>
    [leave.queued /\ ~leave'.queued /\ loop'.at = "joining" => reader.at = "done"]_vars
<1> SUFFICES ASSUME SInv, Next, leave.queued, ~leave'.queued, loop'.at = "joining"
             PROVE  reader.at = "done"
  BY DEF vars
<1>1. CASE RunExit
  BY <1>1 DEF RunExit, InLoop, Idle, SInv, Owned
<1>2. CASE ~RunExit
  <2>1. leave' = leave \/ leave' = [queued |-> TRUE, gen |-> reader.gen]
    BY <1>2 DEF Next, Child, Reader, Commands, Callbacks, Channel, Say, ChildExits,
       ReaderTakes,
       ReaderPosts, ReaderStops, ReaderLeaves, ModeShell, ModeShellFails, UsbShell,
       UsbTelemetry, SetImu, RunPump, PumpTimer, DrainTimeout, Connect, Disconnect, Emit,
       CanSend, Sent, CleanupEnd, enterKept, postVars
  <2> QED BY <2>1
<1> QED BY <1>1, <1>2

-----------------------------------------------------------------------------
(* Output *)

LEMMA WakingInit == Init => Waking
BY DEF Init, Waking, Active, Idle

\* What the reader does to the buffer, it posts about.
LEMMA ReaderWakes ==
  ASSUME ShellAssumption, SInv, Waking, Reader
  PROVE  Waking'
<1>0. Typed /\ Counted /\ Owned /\ OutRoom \in Nat /\ OutRoom > 0
  BY DEF SInv, ShellAssumption
<1>1. UNCHANGED <<mode, gen, tx, loop, pumpTimer>> /\ Active /\ reader.gen = gen
  BY <1>0 DEF Reader, ReaderTakes, ReaderPosts, ReaderStops, ReaderLeaves, ReaderStep,
     readerKept, Owned
<1>2. CASE ReaderTakes
  <2>1. /\ out' = (IF out < OutRoom THEN out + 1 ELSE out) /\ pending' = TRUE /\ pump' = pump
        /\ blind' = IF out = OutRoom /\ OutRoom = 1 THEN "overrun"
                    ELSE IF pending THEN blind ELSE "no"
    BY <1>2 DEF ReaderTakes
  <2>2. out' > 0 /\ (loop.at = "sending" /\ ~Passed' => out' > 1)
    BY <1>0, <2>1 DEF Counted, Passed
  <2>3. reader'.at = (IF pending THEN "polling" ELSE "posting") /\ reader.at = "polling"
    BY <1>0, <1>2 DEF ReaderTakes, ReaderStep, Typed
  <2>4. ~Joining => Passed' \/ LookOwed'
    <3>1. CASE pending
      BY <1>1, <2>1, <2>3, <3>1 DEF Waking, LookOwed, Passed
    <3>2. CASE ~pending
      BY <2>3, <3>2 DEF LookOwed
    <3> QED BY <3>1, <3>2
  <2> QED BY <1>1, <2>1, <2>2, <2>4 DEF Waking, Active, Joining, InLoop
<1>3. CASE ReaderPosts
  <2>1. pump' = [queued |-> TRUE, gen |-> gen] /\ UNCHANGED <<out, pending, blind>>
    BY <1>1, <1>3 DEF ReaderPosts, outVars
  <2>2. LookOwed'
    BY <1>1, <2>1 DEF LookOwed
  <2> QED BY <1>1, <2>1, <2>2 DEF Waking, Active, Joining, InLoop, Passed
<1>4. CASE ReaderStops \/ ReaderLeaves
  <2>1. reader.at # "posting" /\ UNCHANGED <<out, pending, pump, blind>>
    BY <1>4 DEF ReaderStops, ReaderLeaves, ReaderStep, outVars
  <2> QED BY <1>1, <2>1 DEF Waking, LookOwed, Active, Joining, InLoop, Passed
<1> QED BY <1>2, <1>3, <1>4 DEF Reader

\* A session begins with an empty buffer.
LEMMA EntryWakes ==
  ASSUME ShellAssumption, SInv, Waking, ModeShell \/ UsbShell
  PROVE  Waking'
<1>1. /\ ~Active /\ Active' /\ UNCHANGED <<out, pending>> /\ loop = Idle
      /\ loop'.at # "sending" /\ pumpTimer' \in {pumpTimer, FALSE}
  <2>1. CASE ModeShell
    <3>1. /\ ~Active /\ mode' \in {"starting", "shell"} /\ UNCHANGED <<out, pending>>
          /\ loop = Idle
      BY <2>1 DEF ModeShell, Enter, outVars, InLoop
    <3>2. CASE HasRespRoom(tx)
      <4>1. UNCHANGED <<loop, pumpTimer>>
        BY <2>1, <3>2 DEF ModeShell
      <4> QED BY <3>1, <4>1 DEF Active, Idle
    <3>3. CASE ~HasRespRoom(tx)
      <4>1. loop'.at = "joining" /\ pumpTimer' = FALSE
        BY <2>1, <3>3 DEF ModeShell, Cleanup
      <4> QED BY <3>1, <4>1 DEF Active
    <3> QED BY <3>2, <3>3
  <2>2. CASE UsbShell
    BY <2>2 DEF UsbShell, Enter, Active, enterKept, outVars, postVars, InLoop, Idle
  <2> QED BY <2>1, <2>2
<1>2. out' = 0 /\ ~pending' /\ ~pumpTimer'
  <2>1. out = 0 /\ ~pending /\ ~pumpTimer
    BY <1>1 DEF Waking
  <2>2. ~pumpTimer'
    BY <1>1, <2>1, Zenon
  <2> QED BY <1>1, <2>1, <2>2
<1> QED BY <1>1, <1>2 DEF Waking

LEMMA WakingNext == ShellAssumption /\ SInv /\ Waking /\ [Next]_vars => Waking'
<1> SUFFICES ASSUME ShellAssumption, SInv, Waking, [Next]_vars PROVE Waking'
  OBVIOUS
<1>0. Typed /\ Counted /\ Owned
  BY DEF SInv
<1>1. CASE Child \/ SetImu \/ UNCHANGED vars
  <2>1. UNCHANGED <<mode, gen, reader, out, pending, blind, pump, pumpTimer, tx, loop>>
    BY <1>1 DEF Child, Say, ChildExits, SetImu, outVars, postVars, vars
  <2> QED BY <2>1 DEF Waking, LookOwed, Active, Joining, InLoop, Passed
<1>2. CASE Reader
  BY <1>2, ReaderWakes
<1>3. CASE ModeShell \/ UsbShell
  BY <1>3, EntryWakes
<1>4. CASE ~Active /\ (ModeShellFails \/ Connect \/ Disconnect \/ Emit \/ RunPump)
  <2>1. UNCHANGED <<mode, out, pending, loop>> /\ loop = Idle
    BY <1>4 DEF ModeShellFails, Connect, Disconnect, Emit, RunPump, loopKept, outVars, InLoop
  <2>2. pumpTimer' = (pumpTimer \/ FALSE) \/ pumpTimer' = pumpTimer
    BY <1>4 DEF ModeShellFails, Connect, Disconnect, Emit, RunPump, postVars
  <2>3. ~pumpTimer'
    BY <1>4, <2>2 DEF Waking
  <2> QED BY <1>4, <2>1, <2>3 DEF Waking, Active, Idle
<1>5. CASE UsbTelemetry \/ (RunExit /\ leave.gen = gen /\ Active)
             \/ (DrainTimeout /\ mode = "starting") \/ (Disconnect /\ Active)
  <2>1. Active /\ mode' = mode
    BY <1>5 DEF UsbTelemetry, RunExit, DrainTimeout, Disconnect, loopKept, Active
  <2>2. \E reason : Cleanup(reason)
    BY <1>5 DEF UsbTelemetry, RunExit, DrainTimeout, Disconnect
  <2>3. loop'.at = "joining" /\ pumpTimer' = FALSE
    BY <2>2 DEF Cleanup
  <2> QED BY <2>1, <2>3 DEF Waking, Joining, Active, InLoop, Idle
<1>6. CASE (RunExit /\ ~(leave.gen = gen /\ Active)) \/ (DrainTimeout /\ mode # "starting")
  <2>1. UNCHANGED <<mode, gen, reader, out, pending, blind, pump, pumpTimer, tx, loop>>
    BY <1>6 DEF RunExit, DrainTimeout, loopKept, outVars
  <2> QED BY <2>1 DEF Waking, LookOwed, Active, Joining, InLoop, Passed
<1>8. CASE RunPump /\ Active
  <2>1. /\ UNCHANGED <<mode, gen, reader, out, pending, tx, loop>> /\ loop = Idle
        /\ pump.queued
        /\ pumpTimer' = (pumpTimer \/ (pump.gen = gen /\ Active /\ tx.open))
        /\ blind' = IF pump.gen = gen /\ Active /\ ~tx.open THEN "no_peer" ELSE blind
        /\ pump' = [pump EXCEPT !.queued = FALSE]
    BY <1>8 DEF RunPump, InLoop
  <2>2. (LookOwed => Passed' \/ LookOwed') /\ (Passed => Passed')
    <3>1. CASE pump.gen = gen
      BY <1>8, <2>1, <3>1 DEF LookOwed, Passed
    <3>2. CASE pump.gen # gen
      BY <2>1, <3>2 DEF LookOwed, Passed
    <3> QED BY <3>1, <3>2
  <2> QED BY <1>8, <2>1, <2>2 DEF Waking, Active, Joining, InLoop, Idle
<1>9. CASE PumpTimer
  <2>1. /\ UNCHANGED <<mode, gen, reader, out, pending, blind, pump, loop>> /\ loop = Idle
        /\ tx' = [tx EXCEPT !.asked = @ \/ (Active /\ tx.open /\ out > 0)]
        /\ pumpTimer /\ pumpTimer' = FALSE
    BY <1>9 DEF PumpTimer, loopKept, outVars, InLoop
  <2>2. tx'.open = tx.open /\ (tx'.asked <=> tx.asked \/ (Active /\ tx.open /\ out > 0))
    BY <1>0, <2>1 DEF Typed, Arbiter
  <2> QED BY <2>1, <2>2 DEF Waking, LookOwed, Active, Joining, InLoop, Idle, Passed
<1>10. CASE Connect /\ Active
  <2>1. UNCHANGED <<mode, gen, reader, out, pending, blind, pump, pumpTimer, loop>>
        /\ tx' = SetChannel(tx, TRUE) /\ ~tx.open
    BY <1>10 DEF Connect, outVars, postVars
  <2>2. tx'.open /\ ~tx.asked
    BY <1>0, <2>1, SetChannelArbiter DEF Typed, Arbiter
  <2> QED BY <2>1, <2>2 DEF Waking, LookOwed, Active, Joining, InLoop, Passed
<1>11. CASE Emit /\ Active
  <2>1. UNCHANGED <<mode, gen, reader, out, pending, blind, pump, pumpTimer, loop>>
        /\ tx' = EnqueueFrame(tx, "sample")
    BY <1>11 DEF Emit, loopKept, outVars, postVars
  <2>2. tx'.open = tx.open /\ (tx.asked => tx'.asked)
    BY <1>0, <2>1, EnqueueFrameArbiter DEF Typed, Frames
  <2> QED BY <2>1, <2>2 DEF Waking, LookOwed, Active, Joining, InLoop, Passed
<1>12. CASE CanSend
  <2>1. out' = out /\ pumpTimer' = pumpTimer /\ tx'.open /\ (Active' <=> Active) /\ loop = Idle
    <3>0. PICK sent \in BOOLEAN : tx' = OnCanSendNow(tx, sent)
      BY <1>12 DEF CanSend, ArbiterSends
    <3>1. tx'.open = tx.open
      BY <1>0, <3>0, OnCanSendNowArbiter DEF Typed
    <3> QED BY <1>12, <3>1 DEF CanSend, ArbiterSends, Active, postVars, InLoop
  <2>2. CASE Active
    <3>1. /\ pending' = FALSE
          /\ \/ loop' = IF out > 0 THEN [at |-> "sending", why |-> "none"] ELSE loop
             \/ loop' = loop /\ (out > 0 => blind' = "no_mtu")
      BY <1>12, <2>2 DEF CanSend
    <3>2. loop'.at # "joining" /\ (loop' = Idle /\ out > 0 => blind' = "no_mtu")
      BY <2>1, <3>1 DEF Idle
    <3> QED BY <1>0, <2>1, <2>2, <3>1, <3>2 DEF Waking, InLoop, Joining, Counted
  <2>3. CASE ~Active
    BY <1>12, <2>1, <2>3 DEF CanSend, Waking, Idle
  <2> QED BY <2>2, <2>3
<1>13. CASE Sent
  <2>1. /\ UNCHANGED <<mode, gen, reader, pump, tx, blind>> /\ loop.at = "sending"
        /\ loop' = Idle /\ out' \in {out - 1, out}
        /\ IF out' > 0 /\ ~pending THEN pending' = TRUE /\ pumpTimer' = TRUE
           ELSE UNCHANGED <<pending, pumpTimer>>
    BY <1>13 DEF Sent
  <2>2. Active /\ ~Joining /\ tx.open
    BY <1>0, <2>1 DEF Owned, Idle, Joining, Waking
  <2>3. out' \in Nat /\ (pending => Passed \/ (LookOwed /\ out' > 0))
    <3>1. out \in Nat /\ out > 0 /\ (pending => Passed \/ (LookOwed /\ out > 1))
      BY <1>0, <2>1, <2>2 DEF Counted, Waking
    <3> QED BY <2>1, <3>1
  <2>4. CASE out' > 0 /\ ~pending
    BY <2>1, <2>2, <2>4 DEF Waking, LookOwed, Active, Joining, Idle
  <2>5. CASE ~(out' > 0 /\ ~pending)
    BY <2>1, <2>2, <2>3, <2>5 DEF Waking, LookOwed, Active, Joining, Idle, InLoop, Passed
  <2> QED BY <2>4, <2>5
<1>14. CASE CleanupEnd
  <2>1. mode' = "telemetry" /\ out' = 0 /\ pending' = FALSE /\ loop' = Idle
        /\ UNCHANGED pumpTimer /\ Joining
    BY <1>14 DEF CleanupEnd, postVars, Joining
  <2> QED BY <2>1 DEF Waking, Active, Idle
<1> QED BY <1>1, <1>2, <1>3, <1>4, <1>5, <1>6, <1>8, <1>9, <1>10, <1>11, <1>12, <1>13,
           <1>14 DEF Next, Commands, Callbacks, Channel, ModeShellFails

\* Between two handlers a buffer that is not empty is owed a look, or its last look came
\* to nothing.
LEMMA WakingOutputMoves == SInv /\ Waking => OutputMoves
BY DEF SInv, Typed, Waking, Passed, OutputMoves, InLoop, Joining, Idle

-----------------------------------------------------------------------------
(* Theorems *)

\* The invariant of the sessions.
THEOREM SessionsInvariant == ASSUME ShellAssumption PROVE Spec => []SInv
<1>1. Init => SInv
  BY SInvInit
<1>2. SInv /\ [Next]_vars => SInv'
  BY SInvNext
<1> QED BY <1>1, <1>2, PTL DEF Spec

\* Every variable keeps its type.
THEOREM TypeCorrect == ASSUME ShellAssumption PROVE Spec => []TypeOK
<1>1. SInv => TypeOK
  BY SInvTypeOK
<1> QED BY <1>1, SessionsInvariant, PTL

\* A shell's end is on its way once its child has gone, and while it is being started.
THEOREM EndOwed == ASSUME ShellAssumption PROVE Spec => []EndIsOwed
BY SInvEndIsOwed, SessionsInvariant, PTL

\* The host is told OK, and telemetry has been sent, before its bytes go to the child.
THEOREM SwitchedAfterReply == ASSUME ShellAssumption PROVE Spec => SwitchAfterReply
<1>1. SInv /\ [Next]_vars =>
        [mode # "shell" /\ mode' = "shell" /\ tx' # tx => told' /\ Drained(tx')]_vars
  BY SwitchStep
<1> QED BY <1>1, SessionsInvariant, PTL DEF Spec, SwitchAfterReply

\* The exit of a child ends its own session.
THEOREM ExitIsOwn == ASSUME ShellAssumption PROVE Spec => OwnExitOnly
<1>1. SInv /\ [Next]_vars =>
        [leave.queued /\ ~leave'.queued /\ loop'.at = "joining" => reader.at = "done"]_vars
  BY OwnExitStep
<1> QED BY <1>1, SessionsInvariant, PTL DEF Spec, OwnExitOnly

\* Output that is buffered on an open channel is on its way, or its last visit came to
\* nothing in one of the three ways the code has.
THEOREM OutputOnItsWay == ASSUME ShellAssumption PROVE Spec => []OutputMoves
<1>1. SInv /\ Waking /\ [Next]_vars => Waking'
  BY WakingNext
<1>2. SInv /\ Waking => OutputMoves
  BY WakingOutputMoves
<1> QED BY <1>1, <1>2, WakingInit, SessionsInvariant, PTL DEF Spec

===============================================================================
