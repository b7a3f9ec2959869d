---------------------------------- MODULE BtTx ---------------------------------
(***************************************************************************)
(* The RFCOMM transmit arbiter of the Bluetooth daemon (btsensor_tx.c), as *)
(* functions from a state of the arbiter to the next one: the run loop is  *)
(* its only caller.  Two queues share the channel: replies, which are      *)
(* never dropped but refused when there is no room, and frames, of which   *)
(* the oldest makes room for the newest.                                   *)
(*                                                                         *)
(*   open     g_rfcomm_cid is not 0                                        *)
(*   pending  g_can_send_pending                                           *)
(*   asked    the stack has yet to answer the request for CAN_SEND_NOW     *)
(*            (of BTstack, so external)                                    *)
(***************************************************************************)
EXTENDS Naturals, Sequences

CONSTANTS
  RespRoom,   \* replies the queue holds: its depth less one
  FrameRoom   \* frames the ring holds: its depth less one

TxRoomAssumption == RespRoom \in Nat \ {0} /\ FrameRoom \in Nat \ {0}

Silent == [open |-> FALSE, pending |-> FALSE, asked |-> FALSE,
           resp |-> <<>>, frames |-> <<>>]

Drained(t) == t.resp = <<>> /\ t.frames = <<>>

\* request_send_if_needed: at most one request is under way.
RequestSend(t) ==
  IF t.open /\ ~t.pending /\ ~Drained(t)
  THEN [t EXCEPT !.pending = TRUE, !.asked = TRUE]
  ELSE t

\* btsensor_tx_set_rfcomm_cid: a channel that closes takes its queues along,
\* and the request made on it.
SetChannel(t, on) ==
  LET u == [t EXCEPT !.open = on, !.pending = FALSE, !.asked = FALSE]
  IN  IF on THEN RequestSend(u) ELSE [u EXCEPT !.resp = <<>>, !.frames = <<>>]

HasRespRoom(t) == Len(t.resp) < RespRoom
FrameRingFull(t) == Len(t.frames) = FrameRoom

\* btsensor_tx_enqueue_response
EnqueueResponse(t, line) ==
  IF HasRespRoom(t) THEN RequestSend([t EXCEPT !.resp = Append(@, line)]) ELSE t

\* btsensor_tx_try_enqueue_frame
EnqueueFrame(t, f) ==
  RequestSend([t EXCEPT !.frames =
                 Append(IF FrameRingFull(t) THEN Tail(@) ELSE @, f)])

\* What btsensor_tx_on_can_send_now sends: a reply before any frame.
Outgoing(t) == IF t.resp # <<>> THEN t.resp[1] ELSE t.frames[1]

\* btsensor_tx_on_can_send_now; a send that fails leaves its item queued.  The
\* grant may be one that only the shell has use for.
OnCanSendNow(t, sent) ==
  LET u == [t EXCEPT !.pending = FALSE, !.asked = FALSE]
  IN  RequestSend(IF ~sent \/ Drained(t) THEN u
                  ELSE IF t.resp # <<>> THEN [u EXCEPT !.resp = Tail(@)]
                  ELSE [u EXCEPT !.frames = Tail(@)])
=============================================================================
