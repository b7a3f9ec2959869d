----------------------------- MODULE DrivebaseSnapshot -----------------------------
(***************************************************************************)
(* How the drivebase device hands out what its daemon publishes            *)
(* (stm32_drivebase_chardev.c): the status under a sequence counter, the   *)
(* state in two buffers.  A struct is a few words, copied one after the    *)
(* other.  Of the status, the first and the last word are the daemon's;    *)
(* between them lie the words the device keeps itself (cmd_ring_depth to   *)
(* attach_generation, and daemon_attached), which it also writes outside   *)
(* the sequence counter: `kept' stands for all of them.  A word of the     *)
(* daemon's is the number of the publication it comes from, 0 the cleared  *)
(* value; of `kept' it matters only when it changes.                       *)
(*                                                                         *)
(* The daemon's task, the reader and the callers that push commands have   *)
(* the same priority and share the processor by time slices, so each may   *)
(* be held up anywhere; the real time thread, which publishes the state,   *)
(* and the low priority worker, whose watchdog detaches, run through what  *)
(* the reader would see of them.  The daemon may be held up inside the     *)
(* status update, the detach then nests in it.                             *)
(***************************************************************************)
EXTENDS Naturals

CONSTANT MaxPublish   \* bound: publications of both kinds; times a daemon is attached

PublishAssumption == MaxPublish \in Nat

VARIABLES
  attached, lives,    \* a daemon is attached; how often one has been
  seq, status,        \* status_seq, and the words of status: first, kept, last
  publisher, written, \* how far the daemon's task is; publications of the status
  active, buffers,    \* state_active and state_db
  states,             \* publications of the state
  reader, s1, s2,     \* how far the reader is, and db_read_status's copies of seq
  got,                \* the words it copied
  slot, since         \* db_read_state's copy of active; publications since it

daemonVars == <<publisher, written>>
stateVars == <<active, buffers, states>>
readVars == <<reader, s1, s2, got, slot>>
vars == <<attached, lives, seq, status, daemonVars, stateVars, readVars, since>>

Unread == 1000   \* ~0u, which no counter a reader meets equals

Words(first, kept, last) == [first |-> first, kept |-> kept, last |-> last]
Zero == Words(0, 0, 0)

Init ==
  /\ attached = FALSE /\ lives = 0 /\ seq = 0 /\ status = Zero
  /\ publisher = "idle" /\ written = 0
  /\ active = 0 /\ buffers = [b \in {0, 1} |-> <<0, 0>>] /\ states = 0
  /\ reader = "idle" /\ s1 = 0 /\ s2 = Unread /\ got = Zero /\ slot = 0 /\ since = 0

-----------------------------------------------------------------------------
(* The writers *)

\* A word of those the device keeps is written, without the sequence counter.
Account == status' = [status EXCEPT !.kept = 1 - @]

\* db_handle_daemon_attach: daemon_attached and attach_generation.  A daemon attaches when the
\* task of the one before has ended.
Attach ==
  /\ ~attached /\ publisher = "idle" /\ lives < MaxPublish
  /\ attached' = TRUE /\ lives' = lives + 1 /\ Account
  /\ UNCHANGED <<seq, daemonVars, stateVars, readVars, since>>

\* db_push_envelope, db_pop_envelope: last_cmd_seq, cmd_drop_count, cmd_ring_depth and
\* last_pickup_us, under producer_lock.
CountCommand ==
  /\ Account
  /\ UNCHANGED <<attached, lives, seq, daemonVars, stateVars, readVars, since>>

publishKept == <<attached, lives, stateVars, readVars, since>>

\* db_publish_status: attached is tested once, before ...
PublishStatus ==
  /\ publisher = "idle" /\ attached /\ written + states < MaxPublish
  /\ publisher' = "first" /\ written' = written + 1
  /\ seq' = seq + 1
  /\ UNCHANGED <<publishKept, status>>

WriteFirst ==
  /\ publisher = "first" /\ publisher' = "last"
  /\ status' = [status EXCEPT !.first = written]
  /\ UNCHANGED <<publishKept, seq, written>>

\* ... and the sequence is even again after the last word.
WriteLast ==
  /\ publisher = "last" /\ publisher' = "closing"
  /\ status' = [status EXCEPT !.last = written]
  /\ UNCHANGED <<publishKept, seq, written>>

PublishEnd ==
  /\ publisher = "closing" /\ publisher' = "idle"
  /\ seq' = seq + 1
  /\ UNCHANGED <<publishKept, status, written>>

\* db_detach_locked, its part in the status.
Detach ==
  /\ attached /\ attached' = FALSE
  /\ seq' = seq + 2 /\ status' = Words(0, 1 - status.kept, 0)
  /\ UNCHANGED <<lives, daemonVars, stateVars, readVars, since>>

\* db_publish_state: the buffer that is not read is written, then made the active one,
\* and last_publish_us goes to the status.
PublishState ==
  /\ attached /\ written + states < MaxPublish
  /\ states' = states + 1
  /\ buffers' = [buffers EXCEPT ![1 - active] = <<states', states'>>]
  /\ active' = 1 - active /\ since' = since + 1
  /\ Account
  /\ UNCHANGED <<attached, lives, seq, daemonVars, readVars>>

-----------------------------------------------------------------------------
(* The reader *)

readKept == <<attached, lives, seq, status, daemonVars, stateVars>>

Even(n) == n % 2 = 0

ReaderStep(from, to) == reader = from /\ reader' = to

\* db_read_status.
StatusStart ==
  /\ ReaderStep("idle", "load") /\ s2' = Unread
  /\ UNCHANGED <<readKept, s1, got, slot, since>>

\* A writer is under way: `continue' goes on to the condition of the loop, and so
\* ends it when s2 is left from an earlier round.
StatusLoad ==
  /\ s1' = seq
  /\ ReaderStep("load", IF Even(seq) THEN "copyFirst"
                        ELSE IF seq = s2 THEN "spun" ELSE "load")
  /\ UNCHANGED <<readKept, s2, got, slot, since>>

statusKept == <<readKept, s1, s2, slot, since>>

StatusCopyFirst ==
  /\ ReaderStep("copyFirst", "copyKept")
  /\ got' = [got EXCEPT !.first = status.first]
  /\ UNCHANGED statusKept

StatusCopyKept ==
  /\ ReaderStep("copyKept", "copyLast")
  /\ got' = [got EXCEPT !.kept = status.kept]
  /\ UNCHANGED statusKept

StatusCopyLast ==
  /\ ReaderStep("copyLast", "check")
  /\ got' = [got EXCEPT !.last = status.last]
  /\ UNCHANGED statusKept

StatusCheckMutant ==
  /\ ReaderStep("check", "status") /\ s2' = seq
  /\ UNCHANGED <<readKept, s1, got, slot, since>>

StatusCheck ==
  /\ ReaderStep("check", IF s1 = seq THEN "status" ELSE "load") /\ s2' = seq
  /\ UNCHANGED <<readKept, s1, got, slot, since>>

\* db_read_state; the copy has words enough in `first' and `last'.
StateStart ==
  /\ ReaderStep("idle", "first") /\ attached
  /\ slot' = active /\ since' = 0
  /\ UNCHANGED <<readKept, s1, s2, got>>

StateCopyFirst ==
  /\ ReaderStep("first", "second")
  /\ got' = [got EXCEPT !.first = buffers[slot][1]]
  /\ UNCHANGED statusKept

StateCopySecond ==
  /\ ReaderStep("second", "state")
  /\ got' = [got EXCEPT !.last = buffers[slot][2]]
  /\ UNCHANGED statusKept

\* The caller has its answer.
Returns ==
  /\ reader \in {"status", "spun", "state"} /\ reader' = "idle"
  /\ s1' = 0 /\ s2' = Unread /\ got' = Zero /\ slot' = 0 /\ since' = 0
  /\ UNCHANGED readKept

Writers ==
  \/ Attach \/ CountCommand \/ PublishStatus \/ WriteFirst \/ WriteLast \/ PublishEnd
  \/ Detach \/ PublishState

Reads ==
  \/ StatusStart \/ StatusLoad \/ StatusCopyFirst \/ StatusCopyKept \/ StatusCopyLast
  \/ StatusCheck \/ StateStart \/ StateCopyFirst \/ StateCopySecond \/ Returns

Next == Writers \/ Reads

Spec == Init /\ [][Next]_vars

-----------------------------------------------------------------------------
(* Properties *)

\* A status read between two equal even counts has the daemon's words as they stand at
\* the end of the read, whatever detaches or publishes while it is copied; the words the
\* device keeps may be older.  A state copied while at most one other was published
\* comes from a single publication.
SnapshotsWhole ==
  [][/\ ReaderStep("check", "status") => got.first = status.first /\ got.last = status.last
     /\ ReaderStep("second", "state") /\ since < 2 => got'.first = got'.last]_vars

\* "Daemon writes under odd seq, reader retries until seq is even and unchanged across
\* the memcpy" (stm32_drivebase_chardev.c:25): the daemon's words of the status that a
\* reader gets while the daemon is attached are those of one publication.
StatusOfOnePiece ==
  [][reader' \in {"status", "spun"} /\ reader # reader' /\ attached =>
       got.first = got.last]_vars
=============================================================================
