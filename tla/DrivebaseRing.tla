--------------------------- MODULE DrivebaseRing ----------------------------
(***************************************************************************)
(* The command ring of stm32_drivebase_chardev.c: cmd_buf with cmd_head    *)
(* and cmd_tail, one slot kept free.  db_push_envelope and                 *)
(* db_pop_envelope each run under producer_lock, so each is one step.      *)
(*                                                                         *)
(* The delicate part is a STOP that meets a full ring: the oldest verb is  *)
(* removed by shifting everything behind it one slot down, across the      *)
(* wrap-around, and head moves back before the STOP is written.            *)
(***************************************************************************)
EXTENDS Naturals, Sequences

CONSTANTS Verbs, Epochs, MaxSeq,
          Depth           \* DB_CMD_RING_DEPTH

Stop == "STOP"
NoKind == "none"          \* cmd_kind of a slot never written (memset 0)

ASSUME DepthAssumption == Depth \in Nat /\ Depth >= 2
ASSUME RingVerbsAssumption == Verbs \cap {Stop, NoKind} = {}
ASSUME RingEpochsAssumption == Epochs \subseteq Nat
ASSUME RingMaxSeqAssumption == MaxSeq \in Nat

VARIABLES
  buf,          \* cmd_buf
  head,         \* cmd_head
  tail,         \* cmd_tail
  cmdSeq,       \* cmd_seq, bounded by MaxSeq
  dropCount,    \* status.cmd_drop_count
  ringDepth,    \* status.cmd_ring_depth
  reply         \* what the latest call returned

vars == <<buf, head, tail, cmdSeq, dropCount, ringDepth, reply>>

Slots == 0..(Depth - 1)

\* Variants named ...Mutant are faults a property must notice.

NextSlotMutant(i) == i + 1
NextSlot(i) == IF i = Depth - 1 THEN 0 ELSE i + 1
PrevSlot(i) == IF i = 0 THEN Depth - 1 ELSE i - 1

\* (to + Depth - from) % Depth: the slots from `from' up to, not including, `to'
Distance(from, to) == IF from <= to THEN to - from ELSE to + Depth - from

\* Slot i holds a queued envelope.
Queued(i) == Distance(tail, i) < Distance(tail, head)

Env(k, e, n) == [kind |-> k, epoch |-> e, seq |-> n]
Empty == [kind |-> NoKind, epoch |-> 0, seq |-> 0]
Envelopes == [kind : Verbs \cup {Stop}, epoch : Epochs, seq : 1..MaxSeq]

Ok == [rc |-> "OK"]
Busy == [rc |-> "EBUSY"]
Again == [rc |-> "EAGAIN"]
Got(env) == [rc |-> "GOT", env |-> env]

\* stm32_drivebase_chardev_register
Init ==
  /\ buf = [i \in Slots |-> Empty]
  /\ head = 0
  /\ tail = 0
  /\ cmdSeq = 0
  /\ dropCount = 0
  /\ ringDepth = 0
  /\ reply = Ok

RingFull == NextSlot(head) = tail

\* The newest envelope is a STOP: the next STOP coalesces onto it.
NewestStop == head # tail /\ buf[PrevSlot(head)].kind = Stop

StoreMutant(b, h, k, e) ==
  /\ cmdSeq < MaxSeq
  /\ cmdSeq' = cmdSeq + 1
  /\ buf' = [b EXCEPT ![h] = Env(k, e, cmdSeq + 1)]
  /\ head' = NextSlot(h)
  /\ ringDepth' = Distance(tail, h)
  /\ reply' = Ok
  /\ UNCHANGED tail

\* The write at the end of db_push_envelope, into slot h of buffer b.
Store(b, h, k, e) ==
  /\ cmdSeq < MaxSeq
  /\ cmdSeq' = cmdSeq + 1
  /\ buf' = [b EXCEPT ![h] = Env(k, e, cmdSeq + 1)]
  /\ head' = NextSlot(h)
  /\ ringDepth' = Distance(tail, NextSlot(h))
  /\ reply' = Ok
  /\ UNCHANGED tail

\* Any verb but STOP.
PushVerb(k, e) ==
  \/ /\ ~RingFull
     /\ Store(buf, head, k, e)
     /\ UNCHANGED dropCount
  \/ /\ RingFull
     /\ dropCount < MaxSeq
     /\ dropCount' = dropCount + 1
     /\ reply' = Busy
     /\ UNCHANGED <<buf, head, tail, cmdSeq, ringDepth>>

Coalesce(e) ==
  /\ NewestStop
  /\ cmdSeq < MaxSeq
  /\ cmdSeq' = cmdSeq + 1
  /\ buf' = [buf EXCEPT ![PrevSlot(head)] = Env(Stop, e, cmdSeq + 1)]
  /\ reply' = Ok
  /\ UNCHANGED <<head, tail, dropCount, ringDepth>>

IsVictimMutant(i) ==
  /\ Queued(i)
  /\ buf[i].kind # Stop
  /\ \A j \in Slots : Queued(j) /\ Distance(tail, i) < Distance(tail, j)
                        => buf[j].kind = Stop

IsVictimAtTailMutant(i) == i = tail /\ buf[i].kind # Stop

\* The first slot from tail whose envelope is not a STOP.
IsVictim(i) ==
  /\ Queued(i)
  /\ buf[i].kind # Stop
  /\ \A j \in Slots : Queued(j) /\ Distance(tail, j) < Distance(tail, i)
                        => buf[j].kind = Stop

ShiftedDownMutant(i) == [buf EXCEPT ![i] = buf[PrevSlot(head)]]

\* The compaction loop: every envelope behind slot i moves one slot down.
ShiftedDown(i) ==
  [s \in Slots |->
     IF Queued(s) /\ Distance(tail, i) <= Distance(tail, s) /\ NextSlot(s) # head
     THEN buf[NextSlot(s)] ELSE buf[s]]

EvictAndStore(e) ==
  \E i \in Slots :
    /\ IsVictim(i)
    /\ dropCount < MaxSeq
    /\ dropCount' = dropCount + 1
    /\ Store(ShiftedDown(i), PrevSlot(head), Stop, e)

PushStop(e) ==
  \/ Coalesce(e)
  \/ ~NewestStop /\ ~RingFull /\ Store(buf, head, Stop, e) /\ UNCHANGED dropCount
  \/ ~NewestStop /\ RingFull /\ EvictAndStore(e)

\* PICKUP_CMD.
Pop ==
  \/ /\ head = tail
     /\ reply' = Again
     /\ UNCHANGED <<buf, head, tail, cmdSeq, dropCount, ringDepth>>
  \/ /\ head # tail
     /\ reply' = Got(buf[tail])
     /\ tail' = NextSlot(tail)
     /\ ringDepth' = Distance(NextSlot(tail), head)
     /\ UNCHANGED <<buf, head, cmdSeq, dropCount>>

Next ==
  \/ \E k \in Verbs, e \in Epochs : PushVerb(k, e)
  \/ \E e \in Epochs : PushStop(e)
  \/ Pop

Spec == Init /\ [][Next]_vars

-----------------------------------------------------------------------------
(* Properties *)

TypeOK ==
  /\ buf \in [Slots -> Envelopes \cup {Empty}]
  /\ head \in Slots
  /\ tail \in Slots
  /\ cmdSeq \in 0..MaxSeq
  /\ dropCount \in 0..MaxSeq
  /\ ringDepth \in 0..(Depth - 1)
  /\ reply \in {Ok, Busy, Again} \cup {Got(env) : env \in Envelopes}

\* Walking from tail to head the cmd_seq stamps strictly increase and never
\* pass the counter: coalescing, eviction and the wrap-around keep arrival
\* order (db_push_envelope, db_pop_envelope).
SeqOrdered ==
  /\ \A i \in Slots : Queued(i) => buf[i].kind # NoKind /\ buf[i].seq <= cmdSeq
  /\ \A i, j \in Slots :
       Queued(i) /\ Queued(j) /\ Distance(tail, i) < Distance(tail, j)
         => buf[i].seq < buf[j].seq

\* Whatever the ring holds, a STOP can be accepted (until the bounds of the
\* model are reached): drivebase.md section 3.3, "STOP must always land".
StopCanLand ==
  NewestStop \/ ~RingFull \/ \E i \in Slots : IsVictim(i)

\* status.cmd_ring_depth reports the occupancy after every call.
DepthReported == ringDepth = Distance(tail, head)

RingSeq == [n \in 1..Distance(tail, head) |->
              buf[IF tail + n - 1 < Depth THEN tail + n - 1 ELSE tail + n - 1 - Depth]]

\* The ring behaves as the bounded FIFO with STOP priority of CmdQueue.
Queue == INSTANCE CmdQueue WITH
           Capacity <- Depth - 1, queue <- RingSeq, lastSeq <- cmdSeq
RefinesQueue == Queue!QueueSpec
=============================================================================
