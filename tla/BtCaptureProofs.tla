---------------------------- MODULE BtCaptureProofs ----------------------------
(***************************************************************************)
(* Captures over Bluetooth, for any number of sessions, channels and       *)
(* records.  A session's records are in the ring or have been read, and    *)
(* the end of one names a reader that is through with it; what is queued   *)
(* for the host continues what it has received, as long as nothing has     *)
(* come in between.                                                        *)
(***************************************************************************)
EXTENDS BtCapture, TLAPS

Devices ==
  [state : {"idle", "ready", "aborted"}, done : BOOLEAN, wOpen : BOOLEAN, rOpen : BOOLEAN,
   gen : 0 .. MaxSessions, ring : Seq(Items)]
WriterSteps ==
  {"closed", "opened", "writing", "waiting", "sleeping", "draining", "aborting", "closing"}
Writing == {"writing", "waiting", "sleeping"}    \* inside btcap_write, or between two

\* A state of the arbiter: it asks for a grant only when it has a use for it.
Arbiter(t) ==
  /\ DOMAIN t = {"open", "pending", "asked", "resp", "frames"}
  /\ t.open \in BOOLEAN /\ t.pending \in BOOLEAN /\ t.asked \in BOOLEAN
  /\ t.resp \in Seq({Reply}) /\ t.frames \in Seq(Items)
  /\ Len(t.resp) <= RespRoom /\ Len(t.frames) <= FrameRoom
  /\ t.pending <=> t.asked
  /\ t.asked => t.open /\ ~Drained(t)

Typed ==
  /\ dev \in Devices /\ Len(dev.ring) <= RingRoom
  /\ sem \in {0, 1} /\ writer \in [at : WriterSteps, n : 0 .. Payload]
  /\ result \in {"none", "ok", "canceled"} /\ taken \in 0 .. LeftUnread
  /\ Arbiter(tx) /\ wire \in Items
  /\ cap \in [active : BOOLEAN, cbOn : BOOLEAN, throttle : BOOLEAN, paused : BOOLEAN,
              gen : 0 .. MaxSessions]
  /\ imuCap \in [active : BOOLEAN, paused : BOOLEAN] /\ imuOn \in BOOLEAN
  /\ loop \in {"idle", "opened", "refusing", "reading"} /\ mixed \in BOOLEAN

\* Who has /dev/btcap open.
Descriptors ==
  /\ dev.wOpen <=> writer.at # "closed"
  /\ dev.rOpen <=> cap.active \/ loop \in {"opened", "refusing"}
  /\ loop \in {"opened", "refusing"} => ~cap.active
  /\ loop = "reading" => cap.active

\* The ring holds the records of the live session that have not been read; none has
\* been by a reader that is not there.
Session ==
  dev.state = "ready" =>
    /\ \A i \in DOMAIN dev.ring : dev.ring[i] = Record(dev.gen, taken + i)
    /\ taken + Len(dev.ring) <= Payload
    /\ dev.done => taken + Len(dev.ring) = Payload
    /\ ~dev.done => writer.at \in Writing \cup {"aborting", "closing"}
    /\ writer.at \in Writing => ~dev.done /\ taken + Len(dev.ring) = writer.n
    /\ ~cap.active => taken = 0

\* A capture is of the session that is there, and keeps it there; a writer that waits
\* for its end either still has it or has had it read.
Lasting ==
  /\ writer.at = "opened" => dev.gen < MaxSessions /\ writer.n = 0
  /\ dev.state = "idle" => dev.ring = <<>> /\ ~dev.done
  /\ dev.state # "idle" => dev.gen # 0
  /\ cap.active => dev.state # "idle" /\ dev.gen = cap.gen
  /\ writer.at = "draining" => dev.state # "idle" \/ taken >= Payload

\* A writer that sleeps, or will as there is no post to take, has seen the ring full,
\* and nothing has happened to the ring since.
Awake ==
  writer.at = "sleeping" \/ (writer.at = "waiting" /\ sem = 0)
    => dev.state = "ready" /\ Len(dev.ring) = RingRoom

CInv == Typed /\ Descriptors /\ Session /\ Lasting /\ Awake

-----------------------------------------------------------------------------
(* The arbiter *)

LEMMA ItemsTyped ==
  ASSUME CaptureAssumption
  PROVE  /\ Sample \in Items /\ Truncated \in Items /\ Reply \in Items /\ Nothing \in Items
         /\ \A g \in 1 .. MaxSessions : Header(g) \in Items /\ Finished(g) \in Items
         /\ \A g \in 1 .. MaxSessions, k \in 1 .. (Payload + 1) : Record(g, k) \in Items
<1>1. Payload + 1 \in 1 .. (Payload + 1)
  BY DEF CaptureAssumption
<1>2. \A g : Finished(g) = Record(g, Payload + 1)
  BY DEF Finished, Record
<1> QED BY <1>1, <1>2 DEF Items, Reply

\* request_send_if_needed leaves the queues alone.
LEMMA RequestSendArbiter ==
  ASSUME NEW t, Arbiter(t)
  PROVE  /\ Arbiter(RequestSend(t))
         /\ RequestSend(t).resp = t.resp /\ RequestSend(t).frames = t.frames
BY DEF Arbiter, RequestSend, Drained

LEMMA EnqueueResponseArbiter ==
  ASSUME CaptureAssumption, NEW t, Arbiter(t)
  PROVE  /\ Arbiter(EnqueueResponse(t, Reply))
         /\ EnqueueResponse(t, Reply).frames = t.frames
<1> DEFINE u == [t EXCEPT !.resp = Append(@, Reply)]
<1>1. CASE HasRespRoom(t)
  <2>1. /\ Append(t.resp, Reply) \in Seq({Reply})
        /\ Len(Append(t.resp, Reply)) <= RespRoom /\ Append(t.resp, Reply) # <<>>
    BY <1>1 DEF Arbiter, HasRespRoom, CaptureAssumption, TxRoomAssumption
  <2>2. Arbiter(u) /\ u.frames = t.frames
    BY <2>1 DEF Arbiter, Drained
  <2> QED BY <1>1, <2>2, RequestSendArbiter DEF EnqueueResponse
<1>2. CASE ~HasRespRoom(t)
  BY <1>2 DEF EnqueueResponse
<1> QED BY <1>1, <1>2

LEMMA EnqueueFrameArbiter ==
  ASSUME CaptureAssumption, NEW t, Arbiter(t), NEW f \in Items
  PROVE  /\ Arbiter(EnqueueFrame(t, f)) /\ EnqueueFrame(t, f).resp = t.resp
         /\ EnqueueFrame(t, f).frames
              = Append(IF FrameRingFull(t) THEN Tail(t.frames) ELSE t.frames, f)
<1> DEFINE old == IF FrameRingFull(t) THEN Tail(t.frames) ELSE t.frames
           u == [t EXCEPT !.frames = Append(old, f)]
<1>0. FrameRoom \in Nat /\ FrameRoom > 0
  BY DEF CaptureAssumption, TxRoomAssumption
<1>1. old \in Seq(Items) /\ Len(old) < FrameRoom
  <2>1. CASE FrameRingFull(t)
    <3>1. t.frames \in Seq(Items) /\ t.frames # <<>> /\ Len(t.frames) = FrameRoom
      BY <1>0, <2>1 DEF Arbiter, FrameRingFull
    <3> QED BY <1>0, <2>1, <3>1
  <2>2. CASE ~FrameRingFull(t)
    BY <1>0, <2>2 DEF Arbiter, FrameRingFull
  <2> QED BY <2>1, <2>2
<1>2. /\ Append(old, f) \in Seq(Items) /\ Len(Append(old, f)) <= FrameRoom
      /\ Append(old, f) # <<>>
  BY <1>0, <1>1
<1>3. Arbiter(u) /\ u.resp = t.resp /\ u.frames = Append(old, f)
  BY <1>2 DEF Arbiter, Drained
<1> QED BY <1>3, RequestSendArbiter DEF EnqueueFrame

LEMMA SetChannelArbiter ==
  ASSUME CaptureAssumption, NEW t, Arbiter(t), NEW on \in BOOLEAN
  PROVE  /\ Arbiter(SetChannel(t, on))
         /\ on => SetChannel(t, on).resp = t.resp /\ SetChannel(t, on).frames = t.frames
         /\ ~on => SetChannel(t, on).resp = <<>> /\ SetChannel(t, on).frames = <<>>
<1> DEFINE u == [t EXCEPT !.open = on, !.pending = FALSE, !.asked = FALSE]
<1>1. Arbiter(u) /\ u.resp = t.resp /\ u.frames = t.frames
  BY DEF Arbiter
<1>2. CASE on
  BY <1>1, <1>2, RequestSendArbiter DEF SetChannel
<1>3. CASE ~on
  <2>1. RespRoom >= 0 /\ FrameRoom >= 0
    BY DEF CaptureAssumption, TxRoomAssumption
  <2> QED BY <1>1, <1>3, <2>1 DEF SetChannel, Arbiter
<1> QED BY <1>2, <1>3

\* A grant is used for the first of the replies, or of the frames when there is none.
LEMMA SendArbiter ==
  ASSUME CaptureAssumption, NEW t, Arbiter(t), t.asked
  PROVE  /\ Arbiter(OnCanSendNow(t, TRUE)) /\ Outgoing(t) \in Items
         /\ t.resp # <<>> => /\ OnCanSendNow(t, TRUE).frames = t.frames
                             /\ Outgoing(t) = Reply
         /\ t.resp = <<>> => /\ t.frames # <<>> /\ Outgoing(t) = t.frames[1]
                             /\ OnCanSendNow(t, TRUE).resp = <<>>
                             /\ OnCanSendNow(t, TRUE).frames = Tail(t.frames)
<1> DEFINE u == [t EXCEPT !.pending = FALSE, !.asked = FALSE]
<1>0. RespRoom \in Nat /\ FrameRoom \in Nat
  BY DEF CaptureAssumption, TxRoomAssumption
<1>1. ~Drained(t)
  BY DEF Arbiter
<1>2. CASE t.resp # <<>>
  <2> DEFINE w == [u EXCEPT !.resp = Tail(t.resp)]
  <2>1. Tail(t.resp) \in Seq({Reply}) /\ Len(Tail(t.resp)) <= RespRoom /\ t.resp[1] \in {Reply}
    BY <1>0, <1>2 DEF Arbiter
  <2>2. Arbiter(w) /\ w.frames = t.frames
    BY <2>1 DEF Arbiter
  <2>3. OnCanSendNow(t, TRUE) = RequestSend(w)
    BY <1>1, <1>2 DEF OnCanSendNow, Drained, Arbiter
  <2>4. Reply \in Items
    BY ItemsTyped
  <2> QED BY <1>2, <2>1, <2>2, <2>3, <2>4, RequestSendArbiter DEF Outgoing
<1>3. CASE t.resp = <<>>
  <2> DEFINE w == [u EXCEPT !.frames = Tail(t.frames)]
  <2>0. t.frames # <<>>
    BY <1>1, <1>3 DEF Drained
  <2>1. Tail(t.frames) \in Seq(Items) /\ Len(Tail(t.frames)) <= FrameRoom /\ t.frames[1] \in Items
    BY <1>0, <2>0 DEF Arbiter
  <2>2. Arbiter(w) /\ w.frames = Tail(t.frames) /\ w.resp = <<>>
    BY <1>3, <2>1 DEF Arbiter
  <2>3. OnCanSendNow(t, TRUE) = RequestSend(w)
    BY <1>1, <1>3 DEF OnCanSendNow, Drained, Arbiter
  <2> QED BY <1>3, <2>0, <2>1, <2>2, <2>3, RequestSendArbiter DEF Outgoing
<1> QED BY <1>2, <1>3

-----------------------------------------------------------------------------
(* The device *)

LEMMA ResetDevice ==
  ASSUME NEW d \in Devices
  PROVE  /\ Reset(d) \in Devices
         /\ Reset(d).state = "idle" /\ ~Reset(d).done /\ Reset(d).ring = <<>>
         /\ Reset(d).wOpen = d.wOpen /\ Reset(d).rOpen = d.rOpen /\ Reset(d).gen = d.gen
<1>1. <<>> \in Seq(Items)
  OBVIOUS
<1> QED BY <1>1 DEF Reset, Devices

\* The reader that closes the device leaves no session for another to read.
LEMMA ReaderClosedDevice ==
  ASSUME NEW d \in Devices
  PROVE  LET e == ReaderClosed(d)
             ended == ~d.wOpen \/ (d.state = "ready" /\ d.done)
         IN  /\ e \in Devices
             /\ e.wOpen = d.wOpen /\ ~e.rOpen /\ e.gen = d.gen /\ e.state # "ready"
             /\ ended => e.state = "idle" /\ ~e.done /\ e.ring = <<>>
             /\ ~ended => /\ e.state = "idle" <=> d.state = "idle"
                          /\ e.done = d.done /\ e.ring = d.ring
<1> DEFINE c == [d EXCEPT !.rOpen = FALSE]
<1>1. /\ c \in Devices /\ c.state = d.state /\ c.done = d.done /\ c.wOpen = d.wOpen /\ ~c.rOpen
      /\ c.gen = d.gen /\ c.ring = d.ring
  BY DEF Devices
<1>2. /\ [c EXCEPT !.state = "aborted"] \in Devices
      /\ [c EXCEPT !.state = "aborted"].state = "aborted"
      /\ [c EXCEPT !.state = "aborted"].done = c.done
      /\ [c EXCEPT !.state = "aborted"].wOpen = c.wOpen
      /\ [c EXCEPT !.state = "aborted"].rOpen = c.rOpen
      /\ [c EXCEPT !.state = "aborted"].gen = c.gen
      /\ [c EXCEPT !.state = "aborted"].ring = c.ring
  BY <1>1 DEF Devices
<1>3. ReaderClosed(d) = IF ~d.wOpen \/ (d.state = "ready" /\ d.done) THEN Reset(c)
                        ELSE IF d.state = "ready" THEN [c EXCEPT !.state = "aborted"] ELSE c
  BY DEF ReaderClosed
<1> HIDE DEF c
<1> QED BY <1>1, <1>2, <1>3, ResetDevice

\* The writer that closes it leaves a session only to a reader that has it open, and one
\* to be read only when it is finalized.
LEMMA WriterClosedDevice ==
  ASSUME NEW d \in Devices
  PROVE  LET e == WriterClosed(d)
         IN  /\ e \in Devices
             /\ ~e.wOpen /\ e.rOpen = d.rOpen /\ e.gen = d.gen
             /\ ~d.rOpen => e.state = "idle" /\ ~e.done /\ e.ring = <<>>
             /\ d.rOpen => /\ e.state = "idle" <=> d.state = "idle"
                           /\ e.done = d.done /\ e.ring = d.ring
                           /\ e.state = "ready" => d.state = "ready" /\ d.done
<1> DEFINE c == [d EXCEPT !.wOpen = FALSE]
<1>1. /\ c \in Devices /\ c.state = d.state /\ c.done = d.done /\ ~c.wOpen /\ c.rOpen = d.rOpen
      /\ c.gen = d.gen /\ c.ring = d.ring
  BY DEF Devices
<1>2. /\ [c EXCEPT !.state = "aborted"] \in Devices
      /\ [c EXCEPT !.state = "aborted"].state = "aborted"
      /\ [c EXCEPT !.state = "aborted"].done = c.done
      /\ [c EXCEPT !.state = "aborted"].wOpen = c.wOpen
      /\ [c EXCEPT !.state = "aborted"].rOpen = c.rOpen
      /\ [c EXCEPT !.state = "aborted"].gen = c.gen
      /\ [c EXCEPT !.state = "aborted"].ring = c.ring
  BY <1>1 DEF Devices
<1>3. WriterClosed(d) = IF ~d.rOpen THEN Reset(c)
                        ELSE IF d.state = "ready" /\ ~d.done THEN [c EXCEPT !.state = "aborted"]
                        ELSE c
  BY DEF WriterClosed
<1> HIDE DEF c
<1> QED BY <1>1, <1>2, <1>3, ResetDevice

-----------------------------------------------------------------------------
(* The invariant of a session *)

LEMMA SilentArbiter == ASSUME CaptureAssumption PROVE Arbiter(Silent)
<1>1. <<>> \in Seq(Items) /\ <<>> \in Seq({Reply}) /\ RespRoom >= 0 /\ FrameRoom >= 0
  BY DEF CaptureAssumption, TxRoomAssumption
<1> QED BY <1>1 DEF Silent, Arbiter, Drained

LEMMA CInvInit == ASSUME CaptureAssumption PROVE Init => CInv
<1> SUFFICES ASSUME Init PROVE CInv
  OBVIOUS
<1>1. Arbiter(tx)
  BY SilentArbiter DEF Init
<1>2. <<>> \in Seq(Items) /\ 0 \in 0 .. MaxSessions /\ 0 \in 0 .. Payload /\ 0 \in 0 .. LeftUnread
      /\ RingRoom >= 0 /\ Nothing \in Items
  BY ItemsTyped DEF CaptureAssumption, LeftUnread
<1>3. Typed
  <2>1. dev \in Devices
    BY <1>2 DEF Init, Devices
  <2> QED BY <1>1, <1>2, <2>1 DEF Typed, Init, WriterSteps, NoCapture, NoImuCap
<1> QED BY <1>3 DEF Init, CInv, Descriptors, Session, Lasting, Awake, NoCapture

\* The steps of the channel and of telemetry: the session is none of their business.
ChannelStep ==
  Connect \/ Disconnect \/ Send \/ SetImu \/ Emit \/ ImuCapEnter \/ ImuCapExit

LEMMA ChannelKeeps ==
  ASSUME CaptureAssumption, CInv, ChannelStep
  PROVE  CInv'
<1> USE DEF CInv, Typed
<1>1. Sample \in Items /\ Nothing \in Items
  BY ItemsTyped
<1>2. UNCHANGED <<dev, sem, writer, result, taken, cap, loop>>
  BY DEF ChannelStep, Connect, Disconnect, Send, SetImu, Emit, ImuCapEnter, ImuCapExit,
     writerVars
<1>3. Arbiter(tx') /\ wire' \in Items
  <2>1. CASE Connect
    BY <1>1, <2>1, SetChannelArbiter DEF Connect
  <2>2. CASE Disconnect
    BY <1>1, <2>2, SetChannelArbiter DEF Disconnect
  <2>3. CASE Send
    BY <2>3, SendArbiter DEF Send
  <2>4. CASE SetImu
    BY <2>4, EnqueueResponseArbiter DEF SetImu
  <2>5. CASE Emit
    BY <1>1, <2>5, EnqueueFrameArbiter DEF Emit
  <2>6. CASE ImuCapEnter
    BY <2>6 DEF ImuCapEnter
  <2>7. CASE ImuCapExit
    BY <1>1, <2>7, EnqueueFrameArbiter DEF ImuCapExit
  <2> QED BY <2>1, <2>2, <2>3, <2>4, <2>5, <2>6, <2>7 DEF ChannelStep
<1>4. imuCap' \in [active : BOOLEAN, paused : BOOLEAN] /\ imuOn' \in BOOLEAN
  <2>1. CASE ImuCapEnter
    <3>1. imuCap' = [active |-> TRUE, paused |-> imuOn] /\ imuOn' = FALSE
      BY <2>1 DEF ImuCapEnter
    <3> QED BY <3>1
  <2>2. CASE ImuCapExit
    <3>1. imuCap' = [active |-> FALSE, paused |-> FALSE] /\ imuOn' = (imuOn \/ imuCap.paused)
      BY <2>2 DEF ImuCapExit, NoImuCap
    <3> QED BY <3>1
  <2> QED BY <2>1, <2>2 DEF ChannelStep, Connect, Disconnect, Send, SetImu, Emit
<1>5. mixed' \in BOOLEAN
  BY DEF ChannelStep, Connect, Disconnect, Send, SetImu, Emit, ImuCapEnter, ImuCapExit
<1>6. Typed'
  BY <1>2, <1>3, <1>4, <1>5
<1> QED BY <1>2, <1>6 DEF Descriptors, Session, Lasting, Awake, Writing

LEMMA ModeKeeps ==
  ASSUME CaptureAssumption, CInv, CapOpen \/ CapEnter \/ CapRefuse \/ Throttle \/ PollIn \/ BackPressure
  PROVE  CInv'
<1> USE DEF CInv, Typed
<1>0. UNCHANGED <<sem, writer, result, taken, wire, imuCap>>
  BY DEF CapOpen, CapEnter, CapRefuse, Throttle, PollIn, BackPressure, writerVars
<1>1. CASE CapOpen
  <2>1. /\ dev' \in Devices /\ dev'.rOpen /\ dev'.state = dev.state /\ dev'.done = dev.done
        /\ dev'.wOpen = dev.wOpen /\ dev'.gen = dev.gen /\ dev'.ring = dev.ring
    BY <1>1 DEF CapOpen, Devices
  <2> QED BY <1>0, <1>1, <2>1
      DEF CapOpen, AtLoop, Descriptors, Session, Lasting, Awake, Writing
<1>2. CASE CapEnter
  <2>1. dev.gen \in 0 .. MaxSessions /\ dev.gen # 0 /\ MaxSessions \in Nat
    BY <1>2 DEF CapEnter, Lasting, Devices, CaptureAssumption
  <2>2. Header(dev.gen) \in Items
    BY <2>1, ItemsTyped
  <2>3. Arbiter(tx')
    BY <1>2, <2>2, EnqueueFrameArbiter DEF CapEnter
  <2>4. /\ cap' \in [active : BOOLEAN, cbOn : BOOLEAN, throttle : BOOLEAN, paused : BOOLEAN,
                     gen : 0 .. MaxSessions]
        /\ cap'.active /\ cap'.gen = dev.gen /\ mixed' \in BOOLEAN
    BY <1>2, <2>1 DEF CapEnter
  <2> QED BY <1>0, <1>2, <2>3, <2>4
      DEF CapEnter, AtLoop, Descriptors, Session, Lasting, Awake, Writing
<1>3. CASE CapRefuse
  BY <1>0, <1>3 DEF CapRefuse, AtLoop, Descriptors, Session, Lasting, Awake, Writing
<1>4. CASE Throttle
  <2>1. /\ cap' \in [active : BOOLEAN, cbOn : BOOLEAN, throttle : BOOLEAN, paused : BOOLEAN,
                     gen : 0 .. MaxSessions]
        /\ cap'.active = cap.active /\ cap'.gen = cap.gen
    BY <1>4 DEF Throttle
  <2> QED BY <1>0, <1>4, <2>1 DEF Throttle, Descriptors, Session, Lasting, Awake, Writing
<1>5. CASE PollIn
  BY <1>0, <1>5 DEF PollIn, AtLoop, Descriptors, Session, Lasting, Awake, Writing
<1>6. CASE BackPressure
  <2>1. /\ cap' \in [active : BOOLEAN, cbOn : BOOLEAN, throttle : BOOLEAN, paused : BOOLEAN,
                     gen : 0 .. MaxSessions]
        /\ cap'.active = cap.active /\ cap'.gen = cap.gen
    BY <1>6 DEF BackPressure, Paced
  <2> QED BY <1>0, <1>6, <2>1 DEF BackPressure, AtLoop, Descriptors, Session, Lasting,
     Awake, Writing
<1> QED BY <1>1, <1>2, <1>3, <1>4, <1>5, <1>6

\* btcap_notify_all_locked wakes the writer, and does nothing else to it.
LEMMA NotifyWakes ==
  ASSUME CInv, Notify
  PROVE  /\ writer' \in [at : WriterSteps, n : 0 .. Payload] /\ sem' \in {0, 1}
         /\ writer'.n = writer.n /\ writer'.at # "sleeping"
         /\ writer'.at = (IF writer.at = "sleeping" THEN "writing" ELSE writer.at)
         /\ writer'.at = "waiting" => sem' = 1
<1> USE DEF CInv, Typed
<1>1. CASE writer.at = "sleeping"
  <2>1. "writing" \in WriterSteps
    BY DEF WriterSteps
  <2>2. writer' = [writer EXCEPT !.at = "writing"] /\ sem' = sem
    BY <1>1 DEF Notify
  <2> QED BY <1>1, <2>1, <2>2
<1>2. CASE writer.at # "sleeping"
  BY <1>2 DEF Notify
<1> QED BY <1>1, <1>2

\* The reader closes the device, through with the session or having counted it as read.
LEMMA CloseKeeps ==
  ASSUME CaptureAssumption, CInv, dev.rOpen, dev' = ReaderClosed(dev), Notify,
         result' = result, taken' \in {taken, LeftUnread}, dev.state = "ready" /\ dev.done => taken' >= Payload,
         Arbiter(tx'), wire' \in Items,
         cap' \in [active : BOOLEAN, cbOn : BOOLEAN, throttle : BOOLEAN, paused : BOOLEAN,
                   gen : 0 .. MaxSessions],
         ~cap'.active, imuCap' \in [active : BOOLEAN, paused : BOOLEAN], imuOn' \in BOOLEAN,
         loop' = "idle", mixed' \in BOOLEAN
  PROVE  CInv'
<1> USE DEF CInv, Typed
<1> DEFINE ended == ~dev.wOpen \/ (dev.state = "ready" /\ dev.done)
<1>1. /\ dev' \in Devices /\ dev'.wOpen = dev.wOpen /\ ~dev'.rOpen /\ dev'.gen = dev.gen
      /\ dev'.state # "ready"
      /\ ended => dev'.state = "idle" /\ ~dev'.done /\ dev'.ring = <<>>
      /\ ~ended => /\ dev'.state = "idle" <=> dev.state = "idle"
                   /\ dev'.done = dev.done /\ dev'.ring = dev.ring
  BY ReaderClosedDevice
<1>2. Payload \in Nat /\ RingRoom \in Nat /\ LeftUnread = Payload + 1 /\ taken \in Nat
  BY DEF CaptureAssumption, LeftUnread
<1>3. taken' \in 0 .. LeftUnread /\ (taken >= Payload => taken' >= Payload)
  BY <1>2
<1>4. Len(dev'.ring) <= RingRoom
  BY <1>1, <1>2
<1>5. Typed'
  BY <1>1, <1>3, <1>4, NotifyWakes
<1>6. Descriptors'
  BY <1>1, NotifyWakes DEF Descriptors
<1>7. Session'
  BY <1>1 DEF Session
<1>8. Lasting'
  <2>1. writer'.at = "opened" => dev'.gen < MaxSessions /\ writer'.n = 0
    BY <1>1, NotifyWakes DEF Lasting
  <2>2. (dev'.state = "idle" => dev'.ring = <<>> /\ ~dev'.done) /\ (dev'.state # "idle" => dev'.gen # 0)
    BY <1>1 DEF Lasting
  <2>3. writer'.at = "draining" => dev'.state # "idle" \/ taken' >= Payload
    <3>1. writer'.at = "draining" => writer.at = "draining" /\ dev.wOpen
      BY NotifyWakes DEF Descriptors
    <3> QED BY <1>1, <1>2, <1>3, <3>1 DEF Lasting
  <2> QED BY <2>1, <2>2, <2>3 DEF Lasting
<1>9. Awake'
  BY NotifyWakes DEF Awake
<1> QED BY <1>5, <1>6, <1>7, <1>8, <1>9

LEMMA NoCaptureTyped ==
  ASSUME CaptureAssumption
  PROVE  /\ NoCapture \in [active : BOOLEAN, cbOn : BOOLEAN, throttle : BOOLEAN,
                           paused : BOOLEAN, gen : 0 .. MaxSessions]
         /\ ~NoCapture.active
<1>1. 0 \in 0 .. MaxSessions
  BY DEF CaptureAssumption
<1> QED BY <1>1 DEF NoCapture

LEMMA ClosingKeeps ==
  ASSUME CaptureAssumption, CInv, CapClose \/ ReadEnd \/ (DaemonEnds /\ cap.active)
  PROVE  CInv'
<1> USE DEF CInv, Typed
<1>0. /\ Payload \in Nat /\ LeftUnread = Payload + 1 /\ taken \in Nat
      /\ taken \in {taken, LeftUnread} /\ LeftUnread >= Payload
  BY DEF CaptureAssumption, LeftUnread
<1>9. taken' = LetGo => taken' \in {taken, LeftUnread}
                        /\ (dev.state = "ready" /\ dev.done => taken' >= Payload)
  <2> SUFFICES ASSUME taken' = LetGo, dev.state = "ready", dev.done, dev.ring = <<>>
               PROVE  taken >= Payload
    BY <1>0 DEF LetGo
  <2>1. taken + Len(dev.ring) = Payload /\ Len(dev.ring) = 0
    BY DEF Session
  <2> QED BY <1>0, <2>1
<1>1. CASE CapClose
  <2>1. dev.rOpen /\ ~cap.active
    BY <1>1 DEF CapClose, AtLoop, Descriptors
  <2>2. taken' = LetGo
    BY <1>1 DEF CapClose
  <2>3. taken' \in {taken, LeftUnread} /\ (dev.state = "ready" /\ dev.done => taken' >= Payload)
    BY <1>9, <2>2
  <2>4. /\ dev' = ReaderClosed(dev) /\ Notify /\ loop' = "idle"
        /\ UNCHANGED <<result, wire, cap, imuCap, imuOn>>
    BY <1>1 DEF CapClose, AtLoop
  <2>5. Arbiter(tx') /\ mixed' \in BOOLEAN
    BY <1>1, EnqueueResponseArbiter DEF CapClose
  <2> QED BY <2>1, <2>3, <2>4, <2>5, CloseKeeps
<1>2. CASE ReadEnd
  <2>1. cap.active /\ dev.rOpen
    BY <1>2 DEF ReadEnd, AtLoop, Descriptors
  <2>2. dev.state = "ready" /\ dev.done => taken >= Payload
    <3> SUFFICES ASSUME dev.state = "ready", dev.done PROVE taken >= Payload
      OBVIOUS
    <3>1. dev.ring = <<>>
      BY <1>2 DEF ReadEnd
    <3>2. Len(dev.ring) = 0
      BY <3>1
    <3>3. taken + Len(dev.ring) = Payload
      BY DEF Session
    <3> QED BY <1>0, <3>2, <3>3
  <2>3. /\ dev' = ReaderClosed(dev) /\ Notify /\ loop' = "idle" /\ cap' = NoCapture
        /\ imuOn' = (imuOn \/ cap.paused)
        /\ UNCHANGED <<result, wire, imuCap, taken, mixed>>
    BY <1>2 DEF ReadEnd, CapExit, AtLoop
  <2>4. Arbiter(tx')
    <3>1. cap.gen \in 1 .. MaxSessions
      BY <2>1 DEF Lasting, CaptureAssumption
    <3>2. Truncated \in Items /\ Finished(cap.gen) \in Items
      BY <3>1, ItemsTyped
    <3> QED BY <1>2, <3>2, EnqueueFrameArbiter DEF ReadEnd
  <2>5. imuOn' \in BOOLEAN
    BY <2>3
  <2> QED BY <1>0, <2>1, <2>2, <2>3, <2>4, <2>5, NoCaptureTyped, CloseKeeps
<1>3. CASE DaemonEnds /\ cap.active
  <2>1. dev.rOpen
    BY <1>3 DEF Descriptors
  <2>2. /\ dev' = ReaderClosed(dev) /\ Notify /\ taken' = LetGo /\ loop' = "idle"
        /\ cap' = NoCapture /\ imuCap' = NoImuCap /\ imuOn' = FALSE /\ wire' = Nothing
        /\ tx' = Silent /\ result' = result /\ mixed' = FALSE
    BY <1>3 DEF DaemonEnds
  <2>3. Arbiter(Silent) /\ NoImuCap \in [active : BOOLEAN, paused : BOOLEAN] /\ Nothing \in Items
    BY ItemsTyped, SilentArbiter DEF NoImuCap
  <2> QED BY <1>9, <2>1, <2>2, <2>3, NoCaptureTyped, CloseKeeps
<1> QED BY <1>1, <1>2, <1>3

\* A record is read: the ones behind it move up.
LEMMA ReadKeeps ==
  ASSUME CaptureAssumption, CInv, ReadRecord
  PROVE  CInv'
<1> USE DEF CInv, Typed
<1>0. /\ Payload \in Nat /\ RingRoom \in Nat /\ LeftUnread = Payload + 1 /\ taken \in Nat
      /\ writer.n \in Nat /\ writer.n <= Payload
  BY DEF CaptureAssumption, LeftUnread
<1>1. /\ dev.state = "ready" /\ dev.ring # <<>> /\ cap.active /\ loop' = "idle"
      /\ UNCHANGED <<result, wire, imuCap, imuOn, mixed>> /\ taken' = taken + 1 /\ Notify
      /\ cap' = Paced /\ dev' = [dev EXCEPT !.ring = Tail(dev.ring)]
      /\ tx' = EnqueueFrame(tx, dev.ring[1])
  BY DEF ReadRecord, AtLoop, Descriptors
<1>2. dev.ring \in Seq(Items) /\ Len(dev.ring) \in Nat /\ Len(dev.ring) > 0
  BY <1>1 DEF Devices
<1>3. /\ Tail(dev.ring) \in Seq(Items) /\ Len(Tail(dev.ring)) = Len(dev.ring) - 1
      /\ \A i \in 1 .. (Len(dev.ring) - 1) : Tail(dev.ring)[i] = dev.ring[i + 1]
      /\ dev.ring[1] \in Items
  BY <1>2
<1>4. /\ dev' \in Devices /\ dev'.state = dev.state /\ dev'.done = dev.done
      /\ dev'.wOpen = dev.wOpen /\ dev'.rOpen = dev.rOpen /\ dev'.gen = dev.gen
      /\ dev'.ring = Tail(dev.ring)
  BY <1>1, <1>3 DEF Devices
<1>5. /\ cap' \in [active : BOOLEAN, cbOn : BOOLEAN, throttle : BOOLEAN, paused : BOOLEAN,
                   gen : 0 .. MaxSessions]
      /\ cap'.active = cap.active /\ cap'.gen = cap.gen
  BY <1>1 DEF Paced
<1>6. taken + Len(dev.ring) <= Payload
  BY <1>1 DEF Session
<1>7. taken' \in 0 .. LeftUnread /\ Len(dev'.ring) <= RingRoom
  BY <1>0, <1>1, <1>2, <1>3, <1>4, <1>6
<1>8. Arbiter(tx')
  BY <1>1, <1>3, EnqueueFrameArbiter
<1>9. Typed'
  BY <1>1, <1>4, <1>5, <1>7, <1>8, NotifyWakes
<1>10. Descriptors'
  BY <1>1, <1>4, <1>5, NotifyWakes DEF Descriptors
<1>11. Session'
  <2>1. \A i \in DOMAIN dev'.ring : dev'.ring[i] = Record(dev'.gen, taken' + i)
    <3> SUFFICES ASSUME NEW i \in DOMAIN dev'.ring
                 PROVE  dev'.ring[i] = Record(dev.gen, taken + 1 + i)
      BY <1>1, <1>4
    <3>1. i \in 1 .. (Len(dev.ring) - 1)
      BY <1>3, <1>4
    <3>2. i + 1 \in DOMAIN dev.ring /\ dev'.ring[i] = dev.ring[i + 1]
      BY <1>2, <1>3, <1>4, <3>1
    <3>3. dev.ring[i + 1] = Record(dev.gen, taken + (i + 1))
      BY <1>1, <3>2 DEF Session
    <3>4. taken + (i + 1) = taken + 1 + i
      BY <1>0, <3>1
    <3> QED BY <3>2, <3>3, <3>4
  <2>2. taken' + Len(dev'.ring) = taken + Len(dev.ring)
    <3>1. Len(dev'.ring) = Len(dev.ring) - 1
      BY <1>3, <1>4
    <3>2. \A a, b \in Nat : a + 1 + (b - 1) = a + b
      OBVIOUS
    <3>3. taken \in Nat /\ Len(dev.ring) \in Nat
      BY <1>0, <1>2
    <3>4. taken' + Len(dev'.ring) = taken + 1 + (Len(dev.ring) - 1)
      BY <1>1, <3>1
    <3> QED BY <3>2, <3>3, <3>4
  <2>3. writer'.at \in Writing => writer.at \in Writing /\ writer'.n = writer.n
    BY <1>1, NotifyWakes DEF Writing
  <2>4. writer.at \in Writing \cup {"aborting", "closing"}
          => writer'.at \in Writing \cup {"aborting", "closing"}
    BY <1>1, NotifyWakes DEF Writing
  <2> QED BY <1>1, <1>4, <1>5, <2>1, <2>2, <2>3, <2>4 DEF Session
<1>12. Lasting'
  BY <1>1, <1>4, <1>5, NotifyWakes DEF Lasting
<1>13. Awake'
  BY <1>1, NotifyWakes DEF Awake
<1> QED BY <1>9, <1>10, <1>11, <1>12, <1>13

LEMMA WriterMoves ==
  ASSUME CaptureAssumption, CInv, NEW from, NEW to \in WriterSteps, WriterStep(from, to)
  PROVE  /\ writer' \in [at : WriterSteps, n : 0 .. Payload]
         /\ writer.at = from /\ writer'.at = to
         /\ to \notin {"aborting", "closing", "closed"} => writer'.n = writer.n
<1>1. 0 \in 0 .. Payload
  BY DEF CaptureAssumption
<1> QED BY <1>1 DEF CInv, Typed, WriterStep

\* What no step of the application touches.
LEMMA WriterLeaves ==
  ASSUME CInv, UNCHANGED <<tx, wire, cap, imuCap, imuOn, loop, mixed>>,
         dev' \in Devices, Len(dev'.ring) <= RingRoom, sem' \in {0, 1},
         writer' \in [at : WriterSteps, n : 0 .. Payload],
         result' \in {"none", "ok", "canceled"}, taken' \in 0 .. LeftUnread
  PROVE  Typed'
BY DEF CInv, Typed

LEMMA RegisterKeeps ==
  ASSUME CaptureAssumption, CInv, Open \/ Register
  PROVE  CInv'
<1> USE DEF CInv, Typed
<1>0. /\ Payload \in Nat /\ RingRoom \in Nat /\ MaxSessions \in Nat /\ 0 \in 0 .. Payload
      /\ 0 \in 0 .. LeftUnread /\ <<>> \in Seq(Items) /\ Len(<<>>) = 0
      /\ {"opened", "writing", "closing"} \subseteq WriterSteps
  BY DEF CaptureAssumption, LeftUnread, WriterSteps
<1>1. CASE Open
  <2>1. /\ dev' \in Devices /\ dev'.wOpen /\ dev'.state = dev.state /\ dev'.done = dev.done
        /\ dev'.rOpen = dev.rOpen /\ dev'.gen = dev.gen /\ dev'.ring = dev.ring
    BY <1>1 DEF Open, Devices
  <2>2. /\ writer' \in [at : WriterSteps, n : 0 .. Payload]
        /\ writer.at = "closed" /\ writer'.at = "opened" /\ writer'.n = 0
    BY <1>0, <1>1 DEF Open
  <2>3. /\ UNCHANGED <<sem, tx, wire, cap, imuCap, imuOn, loop, taken, mixed>> /\ result' = "none"
        /\ dev.gen < MaxSessions
    BY <1>1 DEF Open, loopVars
  <2>4. Typed'
    BY <2>1, <2>2, <2>3, WriterLeaves
  <2>5. Session'
    BY <2>1, <2>2, <2>3 DEF Session, Writing
  <2> QED BY <2>1, <2>2, <2>3, <2>4, <2>5 DEF Descriptors, Lasting, Awake, Writing
<1>2. CASE Register /\ dev.state = "idle"
  <2>1. /\ dev' = [dev EXCEPT !.state = "ready", !.done = FALSE, !.ring = <<>>,
                              !.gen = dev.gen + 1]
        /\ sem' = 1 /\ taken' = 0 /\ WriterStep("opened", "writing")
        /\ UNCHANGED <<result, tx, wire, cap, imuCap, imuOn, loop, mixed>>
    BY <1>2 DEF Register
  <2>2. /\ writer' \in [at : WriterSteps, n : 0 .. Payload] /\ writer.at = "opened"
        /\ writer'.at = "writing" /\ writer'.n = 0
    BY <1>0, <2>1, WriterMoves DEF Lasting
  <2>3. dev.gen \in Nat /\ dev.gen + 1 \in 0 .. MaxSessions /\ dev.gen + 1 # 0
    BY <1>0, <2>2 DEF Lasting, Devices
  <2>4. /\ dev'.state = "ready" /\ ~dev'.done /\ dev'.ring = <<>> /\ dev'.gen = dev.gen + 1
        /\ dev'.wOpen = dev.wOpen /\ dev'.rOpen = dev.rOpen /\ dev' \in Devices
    <3> DEFINE g == dev.gen + 1
               e == <<>>
    <3>1. g \in 0 .. MaxSessions /\ e \in Seq(Items)
      BY <1>0, <2>3
    <3>2. dev' = [dev EXCEPT !.state = "ready", !.done = FALSE, !.ring = e, !.gen = g]
      BY <2>1
    <3> HIDE DEF g, e
    <3>3. /\ dev'.state = "ready" /\ ~dev'.done /\ dev'.ring = e /\ dev'.gen = g
          /\ dev'.wOpen = dev.wOpen /\ dev'.rOpen = dev.rOpen /\ dev' \in Devices
      BY <3>1, <3>2 DEF Devices
    <3> QED BY <3>3 DEF g, e
  <2>5. Len(dev'.ring) = 0
    BY <2>4
  <2>6. Typed'
    BY <1>0, <2>1, <2>2, <2>4, <2>5, WriterLeaves
  <2>7. ~cap.active
    BY <1>2 DEF Lasting
  <2>8. Session'
    BY <1>0, <2>1, <2>2, <2>4, <2>5, <2>7 DEF Session, Writing
  <2> QED BY <2>1, <2>2, <2>3, <2>4, <2>6, <2>7, <2>8 DEF Descriptors, Lasting, Awake, Writing
<1>3. CASE Register /\ dev.state # "idle"
  <2>1. /\ WriterStep("opened", "closing")
        /\ UNCHANGED <<dev, sem, taken, result, tx, wire, cap, imuCap, imuOn, loop, mixed>>
    BY <1>3 DEF Register
  <2>2. /\ writer' \in [at : WriterSteps, n : 0 .. Payload] /\ writer.at = "opened"
        /\ writer'.at = "closing"
    BY <1>0, <2>1, WriterMoves
  <2>3. Typed'
    BY <2>1, <2>2, WriterLeaves
  <2> QED BY <2>1, <2>2, <2>3 DEF Descriptors, Session, Lasting, Awake, Writing
<1> QED BY <1>1, <1>2, <1>3

LEMMA WriteKeeps ==
  ASSUME CaptureAssumption, CInv, Write
  PROVE  CInv'
<1> USE DEF CInv, Typed
<1>0. /\ Payload \in Nat /\ RingRoom \in Nat /\ MaxSessions \in Nat /\ writer.n \in Nat
      /\ taken \in Nat /\ writer.n < Payload /\ writer.at = "writing"
      /\ UNCHANGED <<result, tx, wire, cap, imuCap, imuOn, loop, taken, mixed>>
      /\ {"waiting", "aborting"} \subseteq WriterSteps
  BY DEF CaptureAssumption, Write, WriterSteps, loopVars, LeftUnread
<1>1. ASSUME dev.state = "ready", Len(dev.ring) < RingRoom,
             dev' = [dev EXCEPT !.ring = Append(@, Record(dev.gen, writer.n + 1))],
             writer' = [writer EXCEPT !.n = @ + 1], sem' = 1
      PROVE  CInv'
  <2> DEFINE r == Record(dev.gen, writer.n + 1)
             q == Append(dev.ring, r)
             m == writer.n + 1
  <2>1. dev.ring \in Seq(Items) /\ dev.gen \in 1 .. MaxSessions
    BY <1>0, <1>1 DEF Devices, Lasting
  <2>2. r \in Items /\ m \in 0 .. Payload
    <3>1. writer.n + 1 \in 1 .. (Payload + 1) /\ writer.n + 1 \in 0 .. Payload
      BY <1>0
    <3> QED BY <2>1, <3>1, ItemsTyped
  <2>3. ~dev.done
    BY <1>0, <1>1 DEF Session, Writing
  <2>4. taken + Len(dev.ring) = writer.n
    BY <1>0, <1>1 DEF Session, Writing
  <2>5. /\ q \in Seq(Items) /\ Len(q) = Len(dev.ring) + 1
        /\ \A i \in DOMAIN dev.ring : q[i] = dev.ring[i]
        /\ q[Len(dev.ring) + 1] = r /\ DOMAIN q = 1 .. (Len(dev.ring) + 1)
        /\ DOMAIN dev.ring = 1 .. Len(dev.ring) /\ Len(dev.ring) \in Nat
    <3> HIDE DEF r
    <3> QED BY <2>1, <2>2
  <2>6. dev' = [dev EXCEPT !.ring = q] /\ writer' = [writer EXCEPT !.n = m]
    BY <1>1
  <2>7. \A i \in DOMAIN q : q[i] = Record(dev.gen, taken + i)
    <3> SUFFICES ASSUME NEW i \in DOMAIN q PROVE q[i] = Record(dev.gen, taken + i)
      OBVIOUS
    <3>1. CASE i \in DOMAIN dev.ring
      BY <1>1, <2>5, <3>1 DEF Session
    <3>2. CASE i = Len(dev.ring) + 1
      <4>1. taken + i = writer.n + 1
        BY <1>0, <2>4, <2>5, <3>2
      <4> QED BY <2>5, <3>2, <4>1
    <3> HIDE DEF q
    <3> QED BY <2>5, <3>1, <3>2
  <2>8. Len(q) <= RingRoom /\ taken + Len(q) = m /\ taken + Len(q) <= Payload
    <3>1. m <= Payload
      BY <1>0
    <3> HIDE DEF q
    <3>2. Len(q) <= RingRoom /\ taken + Len(q) = m
      BY <1>0, <1>1, <2>4, <2>5
    <3> QED BY <3>1, <3>2
  <2> HIDE DEF q, r, m
  <2>9. /\ dev' \in Devices /\ dev'.state = dev.state /\ dev'.done = dev.done
        /\ dev'.wOpen = dev.wOpen /\ dev'.rOpen = dev.rOpen /\ dev'.gen = dev.gen
        /\ dev'.ring = q
    BY <2>5, <2>6 DEF Devices
  <2>10. /\ writer' \in [at : WriterSteps, n : 0 .. Payload] /\ writer'.at = "writing"
         /\ writer'.n = m
    BY <1>0, <2>2, <2>6
  <2>11. Typed'
    BY <1>0, <1>1, <2>8, <2>9, <2>10, WriterLeaves
  <2>12. Session'
    BY <1>0, <1>1, <2>3, <2>7, <2>8, <2>9, <2>10 DEF Session, Writing
  <2> QED BY <1>0, <1>1, <2>9, <2>10, <2>11, <2>12 DEF Descriptors, Lasting, Awake, Writing
<1>2. ASSUME dev.state = "ready", Len(dev.ring) = RingRoom,
             WriterStep("writing", "waiting"), UNCHANGED <<dev, sem>>
      PROVE  CInv'
  <2>1. /\ writer' \in [at : WriterSteps, n : 0 .. Payload] /\ writer'.n = writer.n
        /\ writer'.at = "waiting"
    BY <1>0, <1>2, WriterMoves
  <2>2. Typed'
    BY <1>0, <1>2, <2>1, WriterLeaves
  <2> QED BY <1>0, <1>2, <2>1, <2>2 DEF Descriptors, Session, Lasting, Awake, Writing
<1>3. ASSUME dev.state # "ready", WriterStep("writing", "aborting"), UNCHANGED <<dev, sem>>
      PROVE  CInv'
  <2>1. writer' \in [at : WriterSteps, n : 0 .. Payload] /\ writer'.at = "aborting"
    BY <1>0, <1>3, WriterMoves
  <2>2. Typed'
    BY <1>0, <1>3, <2>1, WriterLeaves
  <2> QED BY <1>0, <1>3, <2>1, <2>2 DEF Descriptors, Session, Lasting, Awake, Writing
<1> QED BY <1>1, <1>2, <1>3 DEF Write

\* The wait takes a post, or finds none: then the ring is as full as it was seen to be.
LEMMA WaitKeeps ==
  ASSUME CaptureAssumption, CInv, Wait
  PROVE  CInv'
<1> USE DEF CInv, Typed
<1>0. /\ {"writing", "sleeping"} \subseteq WriterSteps
      /\ UNCHANGED <<dev, result, tx, wire, cap, imuCap, imuOn, loop, taken, mixed>>
  BY DEF Wait, WriterSteps, loopVars
<1>1. /\ writer' \in [at : WriterSteps, n : 0 .. Payload] /\ writer'.n = writer.n
      /\ writer.at = "waiting" /\ sem' = 0
      /\ writer'.at = "writing" \/ (writer'.at = "sleeping" /\ sem = 0)
  BY <1>0, WriterMoves DEF Wait
<1>2. Typed'
  BY <1>0, <1>1, WriterLeaves
<1> QED BY <1>0, <1>1, <1>2 DEF Descriptors, Session, Lasting, Awake, Writing

LEMMA FinalizeKeeps ==
  ASSUME CaptureAssumption, CInv, Finalize
  PROVE  CInv'
<1> USE DEF CInv, Typed
<1>0. /\ Payload \in Nat /\ RingRoom \in Nat /\ taken \in Nat /\ writer.n = Payload
      /\ UNCHANGED <<result, tx, wire, cap, imuCap, imuOn, loop, taken, mixed>>
      /\ {"draining", "closing"} \subseteq WriterSteps
  BY DEF CaptureAssumption, Finalize, WriterSteps, loopVars, LeftUnread
<1>1. ASSUME dev.state = "ready", WriterStep("writing", "draining"), sem' = 1,
             dev' = IF ~dev.rOpen /\ dev.ring = <<>> THEN Reset(dev)
                    ELSE [dev EXCEPT !.done = TRUE]
      PROVE  CInv'
  <2>1. /\ writer' \in [at : WriterSteps, n : 0 .. Payload] /\ writer'.n = writer.n
        /\ writer'.at = "draining" /\ writer.at = "writing"
    BY <1>0, <1>1, WriterMoves
  <2>2. ~dev.done
    BY <1>1, <2>1 DEF Session, Writing
  <2>3. taken + Len(dev.ring) = Payload
    BY <1>0, <1>1, <2>1 DEF Session, Writing
  <2>4. CASE ~dev.rOpen /\ dev.ring = <<>>
    <3>1. Len(dev.ring) = 0
      BY <2>4
    <3>2. taken >= Payload /\ ~cap.active
      BY <1>0, <2>3, <2>4, <3>1 DEF Descriptors
    <3>3. /\ dev' \in Devices /\ dev'.state = "idle" /\ ~dev'.done /\ dev'.ring = <<>>
          /\ dev'.wOpen = dev.wOpen /\ dev'.rOpen = dev.rOpen /\ dev'.gen = dev.gen
      BY <1>1, <2>4, ResetDevice
    <3>4. Len(dev'.ring) = 0
      BY <3>3
    <3>5. Typed'
      BY <1>0, <1>1, <2>1, <3>3, <3>4, WriterLeaves
    <3> QED BY <1>0, <2>1, <3>2, <3>3, <3>5 DEF Descriptors, Session, Lasting, Awake, Writing
  <2>5. CASE ~(~dev.rOpen /\ dev.ring = <<>>)
    <3>1. dev' = [dev EXCEPT !.done = TRUE]
      BY <1>1, <2>5
    <3>2. /\ dev' \in Devices /\ dev'.state = dev.state /\ dev'.done /\ dev'.ring = dev.ring
          /\ dev'.wOpen = dev.wOpen /\ dev'.rOpen = dev.rOpen /\ dev'.gen = dev.gen
      BY <3>1 DEF Devices
    <3>3. Typed'
      BY <1>0, <1>1, <2>1, <3>2, WriterLeaves
    <3> QED BY <1>0, <1>1, <2>1, <2>3, <3>2, <3>3 DEF Descriptors, Session, Lasting,
       Awake, Writing
  <2> QED BY <2>4, <2>5
<1>2. ASSUME dev.state # "ready", WriterStep("writing", "closing"), UNCHANGED <<dev, sem>>
      PROVE  CInv'
  <2>1. /\ writer' \in [at : WriterSteps, n : 0 .. Payload]
        /\ writer'.at = "closing" /\ writer.at = "writing"
    BY <1>0, <1>2, WriterMoves
  <2>2. Typed'
    BY <1>0, <1>2, <2>1, WriterLeaves
  <2> QED BY <1>0, <1>2, <2>1, <2>2 DEF Descriptors, Session, Lasting, Awake, Writing
<1> QED BY <1>1, <1>2 DEF Finalize

LEMMA LeavingKeeps ==
  ASSUME CaptureAssumption, CInv, Poll \/ Interrupt \/ AbortSession \/ Kill \/ Close
  PROVE  CInv'
<1> USE DEF CInv, Typed
<1>0. /\ UNCHANGED <<tx, wire, cap, imuCap, imuOn, loop, taken, mixed>> /\ RingRoom \in Nat
      /\ {"aborting", "closing", "closed"} \subseteq WriterSteps
  BY DEF CaptureAssumption, Poll, Interrupt, AbortSession, Kill, Close, WriterSteps,
     loopVars
<1>1. CASE Poll
  <2>1. /\ writer' \in [at : WriterSteps, n : 0 .. Payload]
        /\ writer'.at = "closing" /\ writer.at = "draining"
    BY <1>0, <1>1, WriterMoves DEF Poll
  <2>2. dev' = dev /\ sem' = sem /\ result' \in {"ok", "canceled"} /\ dev.state # "ready"
    BY <1>1 DEF Poll
  <2>3. Typed'
    BY <1>0, <2>1, <2>2, WriterLeaves
  <2> QED BY <1>0, <2>1, <2>2, <2>3 DEF Descriptors, Session, Lasting, Awake, Writing
<1>2. CASE Interrupt
  <2>1. /\ writer' \in [at : WriterSteps, n : 0 .. Payload]
        /\ \/ writer'.at = "aborting" /\ writer.at \in {"writing", "sleeping"}
           \/ writer'.at = "closing" /\ writer.at = "draining"
    BY <1>0, <1>2, WriterMoves DEF Interrupt
  <2>2. UNCHANGED <<dev, sem, result>>
    BY <1>2 DEF Interrupt
  <2>3. Typed'
    BY <1>0, <2>1, <2>2, WriterLeaves
  <2>4. Session'
    BY <1>0, <2>1, <2>2 DEF Session, Writing
  <2> QED BY <1>0, <2>1, <2>2, <2>3, <2>4 DEF Descriptors, Lasting, Awake
<1>3. CASE AbortSession
  <2>1. /\ writer' \in [at : WriterSteps, n : 0 .. Payload]
        /\ writer'.at = "closing" /\ writer.at = "aborting"
    BY <1>0, <1>3, WriterMoves DEF AbortSession
  <2>2. CASE dev.state = "ready"
    <3>1. dev' = [dev EXCEPT !.state = "aborted"] /\ sem' = 1 /\ result' = result
      BY <1>3, <2>2 DEF AbortSession
    <3>2. /\ dev' \in Devices /\ dev'.state = "aborted" /\ dev'.done = dev.done
          /\ dev'.ring = dev.ring /\ dev'.wOpen = dev.wOpen /\ dev'.rOpen = dev.rOpen
          /\ dev'.gen = dev.gen
      BY <3>1 DEF Devices
    <3>3. Typed'
      BY <1>0, <2>1, <3>1, <3>2, WriterLeaves
    <3> QED BY <1>0, <2>1, <2>2, <3>2, <3>3 DEF Descriptors, Session, Lasting, Awake, Writing
  <2>3. CASE dev.state # "ready"
    <3>1. UNCHANGED <<dev, sem, result>>
      BY <1>3, <2>3 DEF AbortSession
    <3>2. Typed'
      BY <1>0, <2>1, <3>1, WriterLeaves
    <3> QED BY <1>0, <2>1, <2>3, <3>1, <3>2 DEF Descriptors, Session, Lasting, Awake, Writing
  <2> QED BY <2>2, <2>3
<1>4. CASE Kill
  <2>1. /\ WriterStep(writer.at, "closing") /\ writer.at \notin {"closed", "closing"}
        /\ UNCHANGED <<dev, sem, result>>
    BY <1>4 DEF Kill
  <2>2. writer' \in [at : WriterSteps, n : 0 .. Payload] /\ writer'.at = "closing"
    BY <1>0, <2>1, WriterMoves
  <2>3. Typed'
    BY <1>0, <2>1, <2>2, WriterLeaves
  <2> QED BY <1>0, <2>1, <2>2, <2>3 DEF Descriptors, Session, Lasting, Awake, Writing
<1>5. CASE Close
  <2>1. /\ writer' \in [at : WriterSteps, n : 0 .. Payload]
        /\ writer'.at = "closed" /\ writer.at = "closing"
    BY <1>0, <1>5, WriterMoves DEF Close
  <2>2. dev' = WriterClosed(dev) /\ sem' = 1 /\ result' = result
    BY <1>5 DEF Close
  <2>3. /\ dev' \in Devices
        /\ ~dev'.wOpen /\ dev'.rOpen = dev.rOpen /\ dev'.gen = dev.gen
        /\ ~dev.rOpen => dev'.state = "idle" /\ ~dev'.done /\ dev'.ring = <<>>
        /\ dev.rOpen => /\ dev'.state = "idle" <=> dev.state = "idle"
                        /\ dev'.done = dev.done /\ dev'.ring = dev.ring
                        /\ dev'.state = "ready" => dev.state = "ready" /\ dev.done
    BY <2>2, WriterClosedDevice
  <2>4. Len(dev'.ring) <= RingRoom
    BY <1>0, <2>3
  <2>5. Typed'
    BY <1>0, <2>1, <2>2, <2>3, <2>4, WriterLeaves
  <2>6. Descriptors'
    BY <1>0, <2>1, <2>3 DEF Descriptors
  <2>7. Session'
    <3> SUFFICES ASSUME dev'.state = "ready" PROVE Session'
      BY DEF Session
    <3>1. dev.rOpen /\ dev.state = "ready" /\ dev.done /\ dev'.done /\ dev'.ring = dev.ring
      BY <2>3
    <3> QED BY <1>0, <2>1, <2>3, <3>1 DEF Session, Writing
  <2>8. Lasting'
    BY <1>0, <2>1, <2>3 DEF Lasting, Descriptors
  <2> QED BY <2>1, <2>5, <2>6, <2>7, <2>8 DEF Awake
<1> QED BY <1>1, <1>2, <1>3, <1>4, <1>5

LEMMA CInvNext ==
  ASSUME CaptureAssumption, CInv, [Next]_vars
  PROVE  CInv'
<1>1. CASE DaemonEnds /\ ~cap.active
  <2>1. /\ UNCHANGED <<dev, sem, writer, taken, result, loop>> /\ tx' = Silent /\ wire' = Nothing
        /\ cap' = NoCapture /\ imuCap' = NoImuCap /\ imuOn' = FALSE /\ mixed' = FALSE
    BY <1>1 DEF DaemonEnds
  <2>2. NoImuCap \in [active : BOOLEAN, paused : BOOLEAN] /\ Nothing \in Items
    BY ItemsTyped DEF NoImuCap
  <2>3. Typed'
    BY <2>1, <2>2, SilentArbiter, NoCaptureTyped DEF CInv, Typed
  <2> QED BY <1>1, <2>1, <2>3, NoCaptureTyped DEF CInv, Descriptors, Session, Lasting,
     Awake, Writing
<1>2. CASE UNCHANGED vars
  BY <1>2 DEF vars, CInv, Typed, Descriptors, Session, Lasting, Awake, Writing
<1> QED BY <1>1, <1>2, ChannelKeeps, ModeKeeps, ClosingKeeps, ReadKeeps, RegisterKeeps,
           WriteKeeps, WaitKeeps, FinalizeKeeps, LeavingKeeps
        DEF Next, Writer, RunLoop, Return, Reading, ChannelStep

-----------------------------------------------------------------------------
(* What a session promises *)

\* The inductive invariant.
THEOREM CaptureInvariant ==
  ASSUME CaptureAssumption
  PROVE  Spec => []CInv
<1>1. Init => CInv
  BY CInvInit
<1>2. CInv /\ [Next]_vars => CInv'
  BY CInvNext
<1> QED BY <1>1, <1>2, PTL DEF Spec

\* The queues stay within their rooms, a session that is not registered has no data,
\* and the arbiter never waits for a grant that will not come.
THEOREM TypeCorrect ==
  ASSUME CaptureAssumption
  PROVE  Spec => []TypeOK
<1>1. CInv => TypeOK
  BY DEF CInv, Typed, Lasting, TypeOK, Devices, WriterSteps, Arbiter
<1> QED BY <1>1, CaptureInvariant, PTL

\* A writer sleeps only while the ring of its live session is full: every store, read
\* and end of a session reaches it (btcap_notify_all_locked).
THEOREM WakeupNotLost ==
  ASSUME CaptureAssumption
  PROVE  Spec => []NoLostWakeup
<1>1. CInv => NoLostWakeup
  BY DEF CInv, Awake, NoLostWakeup
<1> QED BY <1>1, CaptureInvariant, PTL

\* When capture_deinit answers 0, the run loop has read every record of the session,
\* unless the daemon ended, or refused MODE CAPTURE, with the session in its hands.
THEOREM OkIsDrained ==
  ASSUME CaptureAssumption
  PROVE  Spec => CompletedIsDrained
<1>1. CInv /\ [Next]_vars => (result' = "ok" /\ result # "ok" => taken >= Payload)
  <2> SUFFICES ASSUME CInv, [Next]_vars, result' = "ok", result # "ok"
               PROVE  taken >= Payload
    OBVIOUS
  <2>1. Poll
    BY DEF Next, Writer, RunLoop, Return, Reading, vars, loopVars, writerVars, Open,
       Register, Write, Wait, Finalize, Interrupt, AbortSession, Kill, Close, Connect,
       Disconnect, Send, SetImu, Emit, ImuCapEnter, ImuCapExit, CapOpen, CapEnter,
       CapRefuse, CapClose, Throttle, PollIn, BackPressure, ReadRecord, ReadEnd,
       DaemonEnds
  <2>2. writer.at = "draining" /\ dev.state = "idle"
    BY <2>1 DEF Poll, WriterStep
  <2> QED BY <2>2 DEF CInv, Lasting
<1> QED BY <1>1, CaptureInvariant, PTL DEF Spec, CompletedIsDrained

-----------------------------------------------------------------------------
(* What the host receives *)

Follows(a, b) == a.kind = "payload" /\ a.gen = b.gen /\ b.k = a.k + 1

\* After the item w the queued frames q continue each payload where it is, its header
\* excepted; no reply of r comes in between.
Continues(w, r, q) ==
  \A i \in DOMAIN q :
    q[i].kind = "payload" /\ q[i].k # 0 =>
      IF i = 1 THEN r = <<>> /\ (w = Nothing \/ Follows(w, q[1]))
      ELSE Follows(q[i - 1], q[i])

\* f is the last of what has been queued, or sent on this channel.
Latest(w, r, q, f) ==
  IF q = <<>> THEN r = <<>> /\ w \in {Nothing, f} ELSE q[Len(q)] = f

NoPayload(q) == \A i \in DOMAIN q : q[i].kind \notin {"payload", "aborted"}

\* A session is forwarded record by record, by itself.
Stream ==
  ~mixed =>
    /\ Continues(wire, tx.resp, tx.frames)
    /\ cap.active => /\ Latest(wire, tx.resp, tx.frames, Record(cap.gen, taken))
                     /\ ~imuOn /\ ~imuCap.active

LEMMA NoPayloadContinues ==
  ASSUME NEW w, NEW r, NEW q, NoPayload(q)
  PROVE  Continues(w, r, q)
BY DEF NoPayload, Continues

LEMMA NewChannelContinues ==
  ASSUME NEW w, NEW r, NEW q, NEW f
  PROVE  /\ Continues(w, r, q) => Continues(Nothing, r, q)
         /\ Latest(w, r, q, f) => Latest(Nothing, r, q, f)
BY DEF Continues, Latest

LEMMA AppendContinues ==
  ASSUME NEW w, NEW r, NEW q \in Seq(Items), NEW f \in Items, NEW e, Continues(w, r, q),
         f.kind = "payload" /\ f.k # 0 => Latest(w, r, q, e) /\ Follows(e, f)
  PROVE  Continues(w, r, Append(q, f)) /\ Latest(w, r, Append(q, f), f)
<1> DEFINE a == Append(q, f)
<1>1. /\ DOMAIN a = 1 .. (Len(q) + 1) /\ Len(a) = Len(q) + 1 /\ Len(q) \in Nat
      /\ DOMAIN q = 1 .. Len(q) /\ a[Len(q) + 1] = f /\ a # <<>>
      /\ \A i \in DOMAIN q : a[i] = q[i]
      /\ q = <<>> <=> Len(q) = 0
  OBVIOUS
<1> HIDE DEF a
<1>2. Latest(w, r, a, f)
  BY <1>1 DEF Latest
<1>3. Continues(w, r, a)
  <2> SUFFICES ASSUME NEW i \in DOMAIN a, a[i].kind = "payload", a[i].k # 0
               PROVE  IF i = 1 THEN r = <<>> /\ (w = Nothing \/ Follows(w, a[1]))
                      ELSE Follows(a[i - 1], a[i])
    BY DEF Continues
  <2>1. CASE i \in DOMAIN q
    <3>1. a[i] = q[i] /\ (i # 1 => i - 1 \in DOMAIN q /\ a[i - 1] = q[i - 1])
      BY <1>1, <2>1
    <3> QED BY <2>1, <3>1 DEF Continues
  <2>2. CASE i \notin DOMAIN q
    <3>1. i = Len(q) + 1 /\ a[i] = f
      BY <1>1, <2>2
    <3>2. Latest(w, r, q, e) /\ Follows(e, f)
      BY <3>1
    <3>3. CASE q = <<>>
      BY <1>1, <3>1, <3>2, <3>3 DEF Latest
    <3>4. CASE q # <<>>
      <4>1. i # 1 /\ i - 1 = Len(q) /\ a[i - 1] = q[Len(q)] /\ q[Len(q)] = e
        BY <1>1, <3>1, <3>2, <3>4 DEF Latest
      <4> QED BY <3>1, <3>2, <4>1
    <3> QED BY <3>3, <3>4
  <2> QED BY <2>1, <2>2
<1> QED BY <1>2, <1>3 DEF a

LEMMA SentContinues ==
  ASSUME NEW w, NEW q \in Seq(Items), q # <<>>, Continues(w, <<>>, q), NEW f
  PROVE  /\ Continues(q[1], <<>>, Tail(q))
         /\ Latest(w, <<>>, q, f) => Latest(q[1], <<>>, Tail(q), f)
<1> DEFINE t == Tail(q)
<1>1. /\ Len(q) \in Nat /\ Len(q) > 0 /\ Len(t) = Len(q) - 1 /\ DOMAIN t = 1 .. (Len(q) - 1)
      /\ \A i \in DOMAIN t : t[i] = q[i + 1] /\ i + 1 \in DOMAIN q
      /\ t = <<>> <=> Len(t) = 0
  <2>1. Len(q) \in Nat /\ Len(q) > 0
    OBVIOUS
  <2>2. /\ t \in Seq(Items) /\ Len(t) = Len(q) - 1
        /\ \A i \in 1 .. (Len(q) - 1) : t[i] = q[i + 1]
    BY <2>1
  <2>3. DOMAIN t = 1 .. (Len(q) - 1) /\ (t = <<>> <=> Len(t) = 0)
    BY <2>1, <2>2
  <2>4. \A i \in 1 .. (Len(q) - 1) : i + 1 \in DOMAIN q
    BY <2>1
  <2> QED BY <2>1, <2>2, <2>3, <2>4
<1> HIDE DEF t
<1>2. Continues(q[1], <<>>, t)
  <2> SUFFICES ASSUME NEW i \in DOMAIN t, t[i].kind = "payload", t[i].k # 0
               PROVE  IF i = 1 THEN Follows(q[1], t[1]) ELSE Follows(t[i - 1], t[i])
    BY DEF Continues
  <2>1. t[i] = q[i + 1] /\ i + 1 \in DOMAIN q /\ i + 1 # 1 /\ (i + 1) - 1 = i
    BY <1>1
  <2>2. Follows(q[i], q[i + 1])
    BY <2>1 DEF Continues
  <2>3. CASE i = 1
    BY <2>1, <2>2, <2>3
  <2>4. CASE i # 1
    <3>1. i - 1 \in DOMAIN t /\ t[i - 1] = q[i]
      BY <1>1, <2>4
    <3> QED BY <2>1, <2>2, <2>4, <3>1
  <2> QED BY <2>3, <2>4
<1>3. Latest(w, <<>>, q, f) => Latest(q[1], <<>>, t, f)
  <2> SUFFICES ASSUME q[Len(q)] = f PROVE Latest(q[1], <<>>, t, f)
    BY DEF Latest
  <2>1. CASE Len(q) = 1
    BY <1>1, <2>1 DEF Latest
  <2>2. CASE Len(q) # 1
    <3>1. Len(t) \in DOMAIN t /\ Len(t) + 1 = Len(q) /\ t # <<>>
      BY <1>1, <2>2
    <3>2. t[Len(t)] = q[Len(q)]
      BY <1>1, <3>1
    <3> QED BY <3>1, <3>2 DEF Latest
  <2> QED BY <2>1, <2>2
<1> QED BY <1>2, <1>3 DEF t

LEMMA RepliedContinues ==
  ASSUME NEW w, NEW r, r # <<>>, NEW q, Continues(w, r, q), NEW v, NEW u, NEW f
  PROVE  /\ Continues(v, u, q)
         /\ Latest(w, r, q, f) => Latest(v, u, q, f)
<1>1. Continues(v, u, q)
  <2> SUFFICES ASSUME NEW i \in DOMAIN q, q[i].kind = "payload", q[i].k # 0
               PROVE  i # 1 /\ Follows(q[i - 1], q[i])
    BY DEF Continues
  <2> QED BY DEF Continues
<1>2. Latest(w, r, q, f) => Latest(v, u, q, f)
  BY DEF Latest
<1> QED BY <1>1, <1>2

LEMMA NoPayloadQueue ==
  ASSUME NEW q \in Seq(Items), NoPayload(q), NEW f \in Items
  PROVE  /\ q # <<>> => NoPayload(Tail(q)) /\ Tail(q) \in Seq(Items)
         /\ f.kind \notin {"payload", "aborted"} => NoPayload(Append(q, f))
<1>1. ASSUME q # <<>> PROVE NoPayload(Tail(q)) /\ Tail(q) \in Seq(Items)
  <2>1. /\ Tail(q) \in Seq(Items)
        /\ \A i \in DOMAIN Tail(q) : Tail(q)[i] = q[i + 1] /\ i + 1 \in DOMAIN q
    BY <1>1
  <2> QED BY <2>1 DEF NoPayload
<1>2. ASSUME f.kind \notin {"payload", "aborted"} PROVE NoPayload(Append(q, f))
  <2>1. \A i \in DOMAIN Append(q, f) : Append(q, f)[i] = f \/ (i \in DOMAIN q /\ Append(q, f)[i] = q[i])
    OBVIOUS
  <2> QED BY <1>2, <2>1 DEF NoPayload
<1> QED BY <1>1, <1>2

LEMMA StreamInit == Init => Stream
BY DEF Init, Stream, Silent, Continues, NoCapture, NoImuCap

LEMMA ForwardingPayload == ~Forwarding <=> ~cap.active /\ NoPayload(tx.frames)
BY DEF Forwarding, NoPayload

\* The steps that leave the channel alone.
LEMMA StreamKept ==
  ASSUME Stream, UNCHANGED <<tx, wire, imuCap, imuOn, mixed>>, cap'.active <=> cap.active,
         cap.active => cap'.gen = cap.gen /\ taken' = taken
  PROVE  Stream'
BY DEF Stream

\* A frame that is no record joins frames of no session, also by pushing one of them
\* out, or the frames of one that there is room behind.
LEMMA FrameAppended ==
  ASSUME CaptureAssumption, CInv, NEW f \in Items, f.kind = "payload" => f.k = 0,
         tx' = EnqueueFrame(tx, f),
         NoPayload(tx.frames)
           \/ (~FrameRingFull(tx) /\ Continues(wire, tx.resp, tx.frames))
  PROVE  /\ Continues(wire, tx'.resp, tx'.frames)
         /\ Latest(wire, tx'.resp, tx'.frames, f)
<1> DEFINE old == IF FrameRingFull(tx) THEN Tail(tx.frames) ELSE tx.frames
<1>1. tx.frames \in Seq(Items) /\ (FrameRingFull(tx) => tx.frames # <<>>) /\ Arbiter(tx)
  BY DEF CInv, Typed, Arbiter, FrameRingFull, CaptureAssumption, TxRoomAssumption
<1>2. old \in Seq(Items) /\ (NoPayload(tx.frames) => NoPayload(old))
  BY <1>1, NoPayloadQueue
<1>3. tx'.resp = tx.resp /\ tx'.frames = Append(old, f)
  BY <1>1, EnqueueFrameArbiter
<1>4. Continues(wire, tx.resp, old)
  BY <1>2, NoPayloadContinues
<1> HIDE DEF old
<1>5. Continues(wire, tx.resp, Append(old, f)) /\ Latest(wire, tx.resp, Append(old, f), f)
  BY <1>2, <1>4, AppendContinues
<1> QED BY <1>3, <1>5

LEMMA StreamNext ==
  ASSUME CaptureAssumption, CInv, Stream, [Next]_vars
  PROVE  Stream'
<1> SUFFICES ASSUME ~mixed' PROVE Stream'
  BY DEF Stream
<1> USE DEF CInv
<1> DEFINE q == tx.frames
<1>0. q \in Seq(Items) /\ taken \in Nat /\ Arbiter(tx)
  BY DEF Typed, Arbiter, LeftUnread
<1>1. CASE Writer
  <2>1. /\ UNCHANGED <<tx, wire, imuCap, imuOn, mixed, cap, loop>>
        /\ taken' = taken \/ ~cap.active
    BY <1>1 DEF Writer, Open, Register, Write, Wait, Finalize, Poll, Interrupt,
       AbortSession, Kill, Close, loopVars, Lasting, Descriptors, WriterStep
  <2> QED BY <2>1, StreamKept
<1>2. CASE CapOpen \/ CapRefuse \/ Throttle \/ PollIn \/ BackPressure
  <2>1. UNCHANGED <<tx, wire, imuCap, imuOn, mixed, taken>>
    BY <1>2 DEF CapOpen, CapRefuse, Throttle, PollIn, BackPressure
  <2>2. cap'.active <=> cap.active
    BY <1>2 DEF Typed, CapOpen, CapRefuse, Throttle, PollIn, BackPressure, Paced
  <2>3. cap'.gen = cap.gen
    BY <1>2 DEF Typed, CapOpen, CapRefuse, Throttle, PollIn, BackPressure, Paced
  <2> QED BY <2>1, <2>2, <2>3, StreamKept
<1>3. CASE Connect
  <2>1. /\ UNCHANGED <<imuCap, imuOn, mixed, cap, taken>> /\ wire' = Nothing
        /\ tx'.resp = tx.resp /\ tx'.frames = q
    BY <1>0, <1>3, SetChannelArbiter DEF Connect
  <2> QED BY <2>1, NewChannelContinues DEF Stream
<1>4. CASE Disconnect
  <2>1. /\ UNCHANGED <<imuCap, imuOn, mixed, cap, taken>> /\ wire' = Nothing
        /\ tx'.resp = <<>> /\ tx'.frames = <<>>
    BY <1>0, <1>4, SetChannelArbiter DEF Disconnect
  <2> QED BY <2>1 DEF Stream, Continues, Latest
<1>5. CASE Send
  <2>1. UNCHANGED <<imuCap, imuOn, mixed, cap, taken>> /\ wire' = Outgoing(tx)
    BY <1>5 DEF Send
  <2>2. CASE tx.resp # <<>>
    <3>1. tx'.frames = q
      BY <1>0, <1>5, <2>2, SendArbiter DEF Send
    <3> QED BY <2>1, <2>2, <3>1, RepliedContinues DEF Stream
  <2>3. CASE tx.resp = <<>>
    <3>1. q # <<>> /\ wire' = q[1] /\ tx'.resp = <<>> /\ tx'.frames = Tail(q)
      BY <1>0, <1>5, <2>1, <2>3, SendArbiter DEF Send
    <3>2. Continues(wire, <<>>, q)
      BY <2>1, <2>3 DEF Stream
    <3>3. /\ Continues(q[1], <<>>, Tail(q))
          /\ \A f : Latest(wire, <<>>, q, f) => Latest(q[1], <<>>, Tail(q), f)
      BY <1>0, <3>1, <3>2, SentContinues
    <3> QED BY <2>1, <2>3, <3>1, <3>3 DEF Stream
  <2> QED BY <2>2, <2>3
<1>6. CASE SetImu \/ CapClose
  <2>1. /\ UNCHANGED <<wire, imuCap, cap>>
        /\ \/ tx' = EnqueueResponse(tx, Reply) /\ ~mixed /\ ~Forwarding
           \/ UNCHANGED <<tx, mixed, imuOn>> /\ ~cap.active
    BY <1>6 DEF SetImu, CapClose, AtLoop, Descriptors
  <2>2. CASE tx' = EnqueueResponse(tx, Reply) /\ ~mixed /\ ~Forwarding
    <3>1. ~cap.active /\ NoPayload(q) /\ tx'.frames = q
      BY <1>0, <2>2, ForwardingPayload, EnqueueResponseArbiter
    <3> QED BY <2>1, <3>1, NoPayloadContinues DEF Stream
  <2>3. CASE UNCHANGED <<tx, mixed, imuOn>> /\ ~cap.active
    BY <2>1, <2>3 DEF Stream
  <2> QED BY <2>1, <2>2, <2>3
<1>7. CASE (Emit \/ ImuCapExit) /\ tx' = EnqueueFrame(tx, Sample) /\ ~PushesOut
  <2>1. /\ UNCHANGED <<wire, cap>> /\ ~mixed
        /\ imuOn \/ imuCap.active
    BY <1>7 DEF Typed, Emit, ImuCapExit
  <2>2. ~cap.active /\ (NoPayload(q) \/ ~FrameRingFull(tx)) /\ Continues(wire, tx.resp, q)
    BY <1>7, <2>1, ForwardingPayload DEF Stream, PushesOut
  <2>3. Sample \in Items /\ Sample.kind = "other"
    BY ItemsTyped DEF Sample, Item
  <2>4. Continues(wire, tx'.resp, tx'.frames)
    BY <1>7, <2>2, <2>3, FrameAppended
  <2> QED BY <2>1, <2>2, <2>4 DEF Stream
<1>8. CASE ImuCapExit /\ UNCHANGED <<tx, mixed>>
  <2>1. UNCHANGED <<wire, cap>> /\ imuCap.active
    BY <1>8 DEF ImuCapExit
  <2> QED BY <1>8, <2>1 DEF Stream
<1>9. CASE ImuCapEnter
  <2>1. ~cap.active /\ UNCHANGED <<tx, wire, cap, mixed>>
    BY <1>9 DEF ImuCapEnter
  <2> QED BY <2>1 DEF Stream
<1>10. CASE CapEnter
  <2>1. /\ dev.state = "ready" /\ ~cap.active /\ dev.gen # 0 /\ taken = 0 /\ taken' = taken
        /\ cap'.active /\ cap'.gen = dev.gen /\ imuOn' = FALSE /\ ~imuCap'.active
        /\ tx' = EnqueueFrame(tx, Header(dev.gen)) /\ UNCHANGED wire
        /\ ~Forwarding \/ (~mixed /\ ~FrameRingFull(tx))
    BY <1>10 DEF CapEnter, AtLoop, Descriptors, Lasting, Session
  <2>2. NoPayload(q) \/ (~FrameRingFull(tx) /\ Continues(wire, tx.resp, q))
    BY <2>1, ForwardingPayload DEF Stream
  <2>3. dev.gen \in 1 .. MaxSessions
    BY <2>1 DEF Typed, Devices, CaptureAssumption
  <2>4. Header(dev.gen) \in Items /\ Header(dev.gen).k = 0
    BY <2>3, ItemsTyped DEF Header, Item
  <2>5. /\ Continues(wire, tx'.resp, tx'.frames)
        /\ Latest(wire, tx'.resp, tx'.frames, Header(dev.gen))
    BY <2>1, <2>2, <2>4, FrameAppended
  <2>6. Header(dev.gen) = Record(cap'.gen, taken')
    BY <2>1 DEF Header, Record
  <2> QED BY <2>1, <2>5, <2>6 DEF Stream
<1>11. CASE ReadRecord
  <2> DEFINE f == Record(cap.gen, taken + 1)
  <2>1. /\ cap.active /\ cap'.active /\ cap'.gen = cap.gen /\ taken' = taken + 1
        /\ ~FrameRingFull(tx) /\ tx' = EnqueueFrame(tx, dev.ring[1])
        /\ UNCHANGED <<wire, imuCap, imuOn, mixed>>
        /\ dev.state = "ready" /\ dev.ring # <<>>
    BY <1>11 DEF ReadRecord, Paced, Typed, AtLoop, Descriptors
  <2>2. dev.ring[1] = f /\ dev.ring[1] \in Items
    <3>1. dev.ring \in Seq(Items)
      BY DEF Typed, Devices
    <3>2. 1 \in DOMAIN dev.ring
      BY <2>1, <3>1
    <3>3. dev.ring[1] = Record(dev.gen, taken + 1) /\ dev.gen = cap.gen
      BY <2>1, <3>2 DEF Session, Lasting
    <3> QED BY <3>1, <3>2, <3>3
  <2>3. tx'.resp = tx.resp /\ tx'.frames = Append(q, f)
    BY <1>0, <2>1, <2>2, EnqueueFrameArbiter
  <2>4. Follows(Record(cap.gen, taken), f)
    BY DEF Follows, Record, Item
  <2>5. Continues(wire, tx.resp, q) /\ Latest(wire, tx.resp, q, Record(cap.gen, taken))
    BY <2>1 DEF Stream
  <2>6. /\ Continues(wire, tx.resp, Append(q, f))
        /\ Latest(wire, tx.resp, Append(q, f), f)
    BY <1>0, <2>2, <2>4, <2>5, AppendContinues
  <2> QED BY <2>1, <2>3, <2>6 DEF Stream
<1>12. CASE ReadEnd
  <2> DEFINE f == IF dev.state = "aborted" THEN Truncated ELSE Finished(cap.gen)
  <2>1. /\ cap.active /\ ~cap'.active /\ ~FrameRingFull(tx)
        /\ tx' = EnqueueFrame(tx, f) /\ UNCHANGED <<wire, mixed>>
    BY <1>12 DEF ReadEnd, CapExit, NoCapture, AtLoop, Descriptors
  <2>2. f \in Items
    <3>1. cap.gen \in 1 .. MaxSessions
      BY <2>1 DEF Lasting, CaptureAssumption, Typed
    <3> QED BY <3>1, ItemsTyped
  <2>3. tx'.resp = tx.resp /\ tx'.frames = Append(q, f)
    BY <1>0, <2>1, <2>2, EnqueueFrameArbiter
  <2>4. f.kind = "payload" => Follows(Record(cap.gen, taken), f)
    <3>1. CASE dev.state = "aborted"
      BY <3>1 DEF Truncated, Item
    <3>2. CASE dev.state # "aborted"
      <4>1. dev.state = "ready" /\ dev.ring = <<>> /\ dev.done
        BY <1>12, <2>1, <3>2 DEF ReadEnd, Lasting, Typed, Devices
      <4>2. Len(dev.ring) = 0
        BY <4>1
      <4>3. taken + 0 = Payload
        BY <4>1, <4>2 DEF Session
      <4> QED BY <1>0, <3>2, <4>3 DEF Finished, Follows, Record, Item
    <3> QED BY <3>1, <3>2
  <2>5. Continues(wire, tx.resp, q) /\ Latest(wire, tx.resp, q, Record(cap.gen, taken))
    BY <2>1 DEF Stream
  <2> HIDE DEF f
  <2>6. Continues(wire, tx.resp, Append(q, f))
    BY <1>0, <2>2, <2>4, <2>5, AppendContinues
  <2> QED BY <2>1, <2>3, <2>6 DEF Stream
<1>13. CASE DaemonEnds
  <2>1. tx' = Silent /\ wire' = Nothing /\ cap' = NoCapture
    BY <1>13 DEF DaemonEnds
  <2> QED BY <2>1 DEF Stream, Silent, NoCapture, Continues
<1>14. CASE UNCHANGED vars
  BY <1>14 DEF vars, Stream
<1>15. /\ Emit => tx' = EnqueueFrame(tx, Sample) /\ ~PushesOut
       /\ ImuCapExit => \/ UNCHANGED <<tx, mixed>>
                        \/ tx' = EnqueueFrame(tx, Sample) /\ ~PushesOut
  BY DEF Typed, Emit, ImuCapExit
<1> QED BY <1>1, <1>2, <1>3, <1>4, <1>5, <1>6, <1>7, <1>8, <1>9, <1>10, <1>11, <1>12,
           <1>13, <1>14, <1>15
        DEF Next, RunLoop, Return, Reading

\* On one channel the host receives the header, every record and the terminator of a
\* session in order, with nothing in between and none missing, as long as the host is
\* silent, IMU_CAP mode off, and no newer frame pushes out the tail of the session.
THEOREM PayloadInStep ==
  ASSUME CaptureAssumption
  PROVE  Spec => PayloadContiguous
<1>1. Spec => []Stream
  <2>1. CInv /\ Stream /\ [Next]_vars => Stream'
    BY StreamNext
  <2>2. Init => Stream
    BY StreamInit
  <2> QED BY <2>1, <2>2, CaptureInvariant, PTL DEF Spec
<1>2. CInv /\ Stream /\ [Next]_vars =>
        (~mixed /\ wire'.kind = "payload" /\ wire' # wire /\ wire # Nothing =>
           \/ wire'.k = 0
           \/ wire.kind = "payload" /\ wire.gen = wire'.gen /\ wire'.k = wire.k + 1)
  <2> SUFFICES ASSUME CInv, Stream, [Next]_vars, ~mixed, wire'.kind = "payload", wire' # wire,
                      wire # Nothing, wire'.k # 0
               PROVE  Follows(wire, wire')
    BY DEF Follows
  <2>0. wire' # Nothing /\ wire' # Reply
    BY DEF Nothing, Reply, Sample, Item
  <2>1. Send
    BY <2>0 DEF Next, Writer, RunLoop, Return, Reading, vars, loopVars, writerVars, Open,
       Register, Write, Wait, Finalize, Poll, Interrupt, AbortSession, Kill, Close,
       Connect, Disconnect, SetImu, Emit, ImuCapEnter, ImuCapExit, CapOpen, CapEnter,
       CapRefuse, CapClose, Throttle, PollIn, BackPressure, ReadRecord, ReadEnd,
       DaemonEnds
  <2>2. Arbiter(tx) /\ tx.asked /\ wire' = Outgoing(tx)
    BY <2>1 DEF Send, CInv, Typed
  <2>3. tx.resp = <<>>
    BY <2>0, <2>2, SendArbiter
  <2>4. tx.frames # <<>> /\ wire' = tx.frames[1]
    BY <2>2, <2>3, SendArbiter
  <2>5. 1 \in DOMAIN tx.frames
    BY <2>2, <2>4 DEF Arbiter
  <2> QED BY <2>4, <2>5 DEF Stream, Continues
<1> QED BY <1>1, <1>2, CaptureInvariant, PTL DEF Spec, PayloadContiguous
===============================================================================
