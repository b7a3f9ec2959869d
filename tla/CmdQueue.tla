------------------------------ MODULE CmdQueue ------------------------------
(***************************************************************************)
(* What the command ring of /dev/drivebase promises its callers, without   *)
(* head, tail or slots: a bounded FIFO in which a STOP always lands.       *)
(*                                                                         *)
(*   - a drive verb is queued, or refused with -EBUSY when the queue is    *)
(*     full;                                                               *)
(*   - a STOP replaces the newest envelope when that is a STOP, and is     *)
(*     queued otherwise, at the cost of the oldest verb when full;         *)
(*   - PICKUP_CMD takes the oldest envelope.                               *)
(*                                                                         *)
(* docs/en/drivers/drivebase.md section 3.3 states this policy;            *)
(* DrivebaseRing is the implementation and is checked to refine it.        *)
(***************************************************************************)
EXTENDS EnvelopeQueue

CONSTANTS
  Verbs,      \* the non-STOP values of cmd_kind
  Epochs,     \* output epochs an envelope may be stamped with
  Capacity,   \* envelopes the queue holds
  MaxSeq      \* bound: pushes that are given a cmd_seq

VARIABLES
  queue,      \* the queued envelopes, oldest first
  lastSeq,    \* cmd_seq of the newest push
  reply       \* what the latest call returned

queueVars == <<queue, lastSeq, reply>>

Stamped(k, e) == [kind |-> k, epoch |-> e, seq |-> lastSeq + 1]

QueueInit ==
  /\ queue = <<>>
  /\ lastSeq = 0
  /\ reply = [rc |-> "OK"]

Accept(q) ==
  /\ lastSeq < MaxSeq
  /\ lastSeq' = lastSeq + 1
  /\ queue' = q
  /\ reply' = [rc |-> "OK"]

PutVerb(k, e) == Len(queue) < Capacity /\ Accept(Append(queue, Stamped(k, e)))

RefuseVerb ==
  /\ Len(queue) = Capacity
  /\ reply' = [rc |-> "EBUSY"]
  /\ UNCHANGED <<queue, lastSeq>>

PutStop(e) == Accept(WithStop(queue, Capacity, Stamped(Stop, e)))

Take ==
  /\ queue # <<>>
  /\ reply' = [rc |-> "GOT", env |-> Head(queue)]
  /\ queue' = Tail(queue)
  /\ UNCHANGED lastSeq

TakeNothing ==
  /\ queue = <<>>
  /\ reply' = [rc |-> "EAGAIN"]
  /\ UNCHANGED <<queue, lastSeq>>

QueueNext ==
  \/ \E k \in Verbs, e \in Epochs : PutVerb(k, e)
  \/ RefuseVerb
  \/ \E e \in Epochs : PutStop(e)
  \/ Take
  \/ TakeNothing

QueueSpec == QueueInit /\ [][QueueNext]_queueVars
=============================================================================
