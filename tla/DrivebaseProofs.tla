--------------------------- MODULE DrivebaseProofs ---------------------------
(***************************************************************************)
(* Theorems about the command ring, for every depth, verb set and bound:   *)
(* its types and order, that a STOP always lands, and that it refines the  *)
(* queue of CmdQueue.  The refinement reads the ring as a list from the    *)
(* tail; one lemma each says what a store, a pop, a coalesced STOP and the *)
(* compaction loop do to that list.  Then the snapshots the device         *)
(* publishes, and at the end what DrivebaseDaemonProofs proves of the      *)
(* daemon, of Drivebase as a whole.                                        *)
(***************************************************************************)
EXTENDS Drivebase, TLAPS, SequenceTheorems, WellFoundedInduction

USE DepthAssumption

\* Stepping forward and back around the ring stays in the ring, and the two
\* steps undo each other.
LEMMA SlotSteps ==
  ASSUME NEW i \in Slots
  PROVE  /\ NextSlot(i) \in Slots
         /\ PrevSlot(i) \in Slots
         /\ NextSlot(PrevSlot(i)) = i
         /\ PrevSlot(NextSlot(i)) = i
BY DEF Slots, NextSlot, PrevSlot

LEMMA DistanceRange ==
  ASSUME NEW i \in Slots, NEW j \in Slots
  PROVE  Distance(i, j) \in 0..(Depth - 1)
BY DEF Slots, Distance

\* How distances from the tail change as the head or the tail advances.
LEMMA DistanceNext ==
  ASSUME NEW t \in Slots, NEW h \in Slots
  PROVE  /\ NextSlot(h) # t => Distance(t, NextSlot(h)) = Distance(t, h) + 1
         /\ h # t => Distance(NextSlot(t), h) = Distance(t, h) - 1
         /\ NextSlot(h) = t => Distance(t, h) = Depth - 1
BY DEF Slots, Distance, NextSlot

LEMMA EnvelopeType ==
  ASSUME NEW k \in Verbs \cup {Stop}, NEW e \in Epochs, NEW n \in 1..MaxSeq
  PROVE  Env(k, e, n) \in Envelopes
BY DEF Env, Envelopes

\* Each of the three places that call Store hands it a well-typed buffer.
LEMMA StoreType ==
  ASSUME TypeOK, NEW b \in [Slots -> Envelopes \cup {Empty}], NEW h \in Slots,
         NEW k \in Verbs \cup {Stop}, NEW e \in Epochs,
         Store(b, h, k, e), dropCount' \in 0..MaxSeq
  PROVE  TypeOK'
<1>1. cmdSeq + 1 \in 1..MaxSeq
  BY RingMaxSeqAssumption DEF TypeOK, Store
<1>2. buf' \in [Slots -> Envelopes \cup {Empty}]
  BY <1>1, EnvelopeType DEF Store
<1>3. head' \in Slots /\ ringDepth' \in 0..(Depth - 1)
  BY SlotSteps, DistanceRange DEF Store, TypeOK
<1> QED
  BY <1>1, <1>2, <1>3 DEF Store, TypeOK

LEMMA ShiftedType ==
  ASSUME TypeOK, NEW i \in Slots
  PROVE  ShiftedDown(i) \in [Slots -> Envelopes \cup {Empty}]
BY SlotSteps DEF ShiftedDown, TypeOK

-----------------------------------------------------------------------------
(* SeqOrdered over an arbitrary buffer, tail, head and counter.  TypeOK    *)
(* alone is not inductive: a pop returns whatever the tail slot holds, and *)
(* only the ordering says that a queued slot has been written.             *)

Before(t, i, j) == Distance(t, i) < Distance(t, j)

Ordered(b, t, h, n) ==
  /\ \A i \in Slots : Before(t, i, h) => b[i].kind # NoKind /\ b[i].seq <= n
  /\ \A i, j \in Slots : Before(t, i, h) /\ Before(t, j, h) /\ Before(t, i, j)
                           => b[i].seq < b[j].seq

IInv == TypeOK /\ Ordered(buf, tail, head, cmdSeq)

LEMMA OrderedIsSeqOrdered == Ordered(buf, tail, head, cmdSeq) <=> SeqOrdered
BY DEF Ordered, SeqOrdered, Queued, Before

LEMMA QueuedSlotType ==
  ASSUME IInv, NEW i \in Slots, Before(tail, i, head)
  PROVE  buf[i] \in Envelopes
<1>1. buf[i] \in Envelopes \cup {Empty} /\ buf[i].kind # NoKind
  BY DEF IInv, TypeOK, Ordered
<1> QED BY <1>1 DEF Empty

LEMMA SeqIsNat ==
  ASSUME NEW b \in [Slots -> Envelopes \cup {Empty}], NEW i \in Slots
  PROVE  b[i].seq \in Nat
BY RingMaxSeqAssumption DEF Envelopes, Empty

\* Store appends behind everything that is ordered before slot h.
LEMMA StoreOrdered ==
  ASSUME TypeOK, NEW b \in [Slots -> Envelopes \cup {Empty}], NEW h \in Slots,
         NEW k \in Verbs \cup {Stop}, NEW e \in Epochs,
         Ordered(b, tail, h, cmdSeq), NextSlot(h) # tail, Store(b, h, k, e)
  PROVE  Ordered(buf', tail', head', cmdSeq')
<1>1. /\ tail' = tail /\ head' = NextSlot(h) /\ cmdSeq' = cmdSeq + 1
      /\ buf' = [b EXCEPT ![h] = Env(k, e, cmdSeq + 1)]
  BY DEF Store
<1>2. tail \in Slots /\ cmdSeq \in Nat
  BY RingMaxSeqAssumption DEF TypeOK
<1>3. \A i \in Slots : Before(tail, i, NextSlot(h)) <=> i = h \/ Before(tail, i, h)
  BY <1>2 DEF Before, Distance, NextSlot, Slots
<1>4. buf'[h].kind # NoKind /\ buf'[h].seq = cmdSeq + 1
  BY <1>1, RingVerbsAssumption DEF Env, Stop, NoKind
<1>5. \A i \in Slots : i # h => buf'[i] = b[i]
  BY <1>1
<1>6. \A i \in Slots : Before(tail, i, NextSlot(h))
                         => buf'[i].kind # NoKind /\ buf'[i].seq <= cmdSeq + 1
  <2> SUFFICES ASSUME NEW i \in Slots, Before(tail, i, NextSlot(h))
               PROVE  buf'[i].kind # NoKind /\ buf'[i].seq <= cmdSeq + 1
    OBVIOUS
  <2>1. CASE i = h
    BY <2>1, <1>2, <1>4
  <2>2. CASE i # h
    BY <2>2, <1>2, <1>3, <1>5, SeqIsNat DEF Ordered
  <2> QED BY <2>1, <2>2
<1>7. ASSUME NEW i \in Slots, NEW j \in Slots, Before(tail, i, NextSlot(h)),
             Before(tail, j, NextSlot(h)), Before(tail, i, j)
      PROVE  buf'[i].seq < buf'[j].seq
  <2>1. i # h
    BY <1>2, <1>3, <1>7, DistanceRange DEF Before
  <2>2. CASE j = h
    BY <2>1, <2>2, <1>2, <1>3, <1>4, <1>5, <1>7, SeqIsNat DEF Ordered
  <2>3. CASE j # h
    BY <2>1, <2>3, <1>3, <1>5, <1>7 DEF Ordered
  <2> QED BY <2>2, <2>3
<1> QED BY <1>1, <1>6, <1>7 DEF Ordered

\* Removing the victim and closing the gap keeps the rest in order.
LEMMA ShiftedOrdered ==
  ASSUME IInv, head # tail, NEW i \in Slots
  PROVE  Ordered(ShiftedDown(i), tail, PrevSlot(head), cmdSeq)
<1> DEFINE b == ShiftedDown(i)
<1>1. head \in Slots /\ tail \in Slots
  BY DEF IInv, TypeOK
<1>2. ASSUME NEW s \in Slots, Before(tail, s, PrevSlot(head))
      PROVE  /\ Before(tail, s, head) /\ Before(tail, NextSlot(s), head)
             /\ NextSlot(s) \in Slots /\ NextSlot(s) # head
             /\ Distance(tail, NextSlot(s)) = Distance(tail, s) + 1
             /\ b[s] = IF Distance(tail, i) <= Distance(tail, s)
                       THEN buf[NextSlot(s)] ELSE buf[s]
  <2>1. /\ Before(tail, s, head) /\ Before(tail, NextSlot(s), head)
        /\ NextSlot(s) \in Slots /\ NextSlot(s) # head
        /\ Distance(tail, NextSlot(s)) = Distance(tail, s) + 1
    BY <1>1, <1>2 DEF Before, Distance, NextSlot, PrevSlot, Slots
  <2> QED BY <2>1 DEF ShiftedDown, Queued, Before
<1>3. \A s \in Slots : Before(tail, s, PrevSlot(head))
                         => b[s].kind # NoKind /\ b[s].seq <= cmdSeq
  BY <1>2 DEF IInv, Ordered
<1>4. ASSUME NEW s \in Slots, NEW u \in Slots, Before(tail, s, PrevSlot(head)),
             Before(tail, u, PrevSlot(head)), Before(tail, s, u)
      PROVE  b[s].seq < b[u].seq
  <2>1. /\ Distance(tail, s) \in Nat /\ Distance(tail, u) \in Nat
        /\ Distance(tail, i) \in Nat
    BY <1>1, DistanceRange
  <2> DEFINE p == IF Distance(tail, i) <= Distance(tail, s) THEN NextSlot(s) ELSE s
             q == IF Distance(tail, i) <= Distance(tail, u) THEN NextSlot(u) ELSE u
  <2>2. b[s] = buf[p] /\ Before(tail, p, head)
    BY <1>2, <1>4
  <2>3. b[u] = buf[q] /\ Before(tail, q, head)
    BY <1>2, <1>4
  <2>4. p \in Slots /\ q \in Slots
    BY <1>2, <1>4
  <2>5. Before(tail, p, q)
    BY <2>1, <2>2, <2>3, <1>2, <1>4 DEF Before
  <2> QED BY <2>2, <2>3, <2>4, <2>5 DEF IInv, Ordered
<1> QED BY <1>3, <1>4 DEF Ordered

LEMMA InvInit == Init => IInv
<1> SUFFICES ASSUME Init PROVE IInv
  OBVIOUS
<1>1. TypeOK
  BY RingMaxSeqAssumption DEF Init, TypeOK, Slots
<1>2. \A i \in Slots : ~Before(tail, i, head)
  BY DEF Init, Before, Distance, Slots
<1> QED BY <1>1, <1>2 DEF IInv, Ordered

LEMMA InvStep == IInv /\ [Next]_vars => IInv'
<1> SUFFICES ASSUME IInv, [Next]_vars PROVE IInv'
  OBVIOUS
<1>0. TypeOK /\ Ordered(buf, tail, head, cmdSeq)
  BY DEF IInv
<1>1. ASSUME NEW k \in Verbs, NEW e \in Epochs, PushVerb(k, e) PROVE IInv'
  <2>1. CASE ~RingFull
    <3>1. Store(buf, head, k, e) /\ NextSlot(head) # tail /\ dropCount' = dropCount
      BY <1>1, <2>1 DEF PushVerb, RingFull
    <3> QED BY <1>0, <3>1, StoreType, StoreOrdered DEF IInv, TypeOK
  <2>2. CASE RingFull
    BY <1>0, <1>1, <2>2, RingMaxSeqAssumption DEF PushVerb, IInv, TypeOK, Ordered
  <2> QED BY <2>1, <2>2
<1>2. ASSUME NEW e \in Epochs, PushStop(e) PROVE IInv'
  <2>1. CASE Coalesce(e)
    <3> DEFINE p == PrevSlot(head)
    <3>1. p \in Slots /\ Before(tail, p, head) /\ cmdSeq \in Nat
      BY <1>0, <2>1, RingMaxSeqAssumption
         DEF Coalesce, NewestStop, TypeOK, Slots, Before, Distance, PrevSlot
    <3>3. cmdSeq + 1 \in 1..MaxSeq
      BY <1>0, <2>1, RingMaxSeqAssumption DEF Coalesce, TypeOK
    <3>4. buf' = [buf EXCEPT ![p] = Env(Stop, e, cmdSeq + 1)]
      BY <2>1 DEF Coalesce
    <3>5. TypeOK'
      <4>1. Env(Stop, e, cmdSeq + 1) \in Envelopes
        BY <3>3, EnvelopeType
      <4>2. buf' \in [Slots -> Envelopes \cup {Empty}]
        BY <1>0, <3>1, <3>4, <4>1 DEF TypeOK
      <4> QED BY <1>0, <2>1, <3>3, <4>2 DEF Coalesce, TypeOK
    <3>6. \A i \in Slots : Before(tail, i, head) => i = p \/ Before(tail, i, p)
      BY <1>0, <3>1 DEF TypeOK, Before, Distance, PrevSlot, Slots
    <3>7. \A i \in Slots : Before(tail, p, i) => ~Before(tail, i, head)
      <4>1. \A i \in Slots : Distance(tail, i) \in Nat
        BY <1>0, DistanceRange DEF TypeOK
      <4> QED BY <3>1, <3>6, <4>1 DEF Before
    <3>8. \A i \in Slots : buf'[i].seq = IF i = p THEN cmdSeq + 1 ELSE buf[i].seq
      <4>1. Env(Stop, e, cmdSeq + 1).seq = cmdSeq + 1
        BY DEF Env
      <4>2. \A i \in Slots : buf'[i] = IF i = p THEN Env(Stop, e, cmdSeq + 1) ELSE buf[i]
        BY <1>0, <3>1, <3>4 DEF TypeOK
      <4> QED BY <4>1, <4>2
    <3>9. \A i \in Slots : Before(tail, i, head)
                             => buf'[i].kind # NoKind /\ buf'[i].seq <= cmdSeq + 1
      BY <1>0, <3>1, <3>4, SeqIsNat DEF TypeOK, Ordered, Env, Stop, NoKind
    <3>10. \A i, j \in Slots :
             Before(tail, i, head) /\ Before(tail, j, head) /\ Before(tail, i, j)
               => buf'[i].seq < buf'[j].seq
      <4> SUFFICES ASSUME NEW i \in Slots, NEW j \in Slots, Before(tail, i, head),
                          Before(tail, j, head), Before(tail, i, j)
                   PROVE  buf'[i].seq < buf'[j].seq
        OBVIOUS
      <4>1. i # p /\ buf[i].seq \in Nat /\ buf[i].seq <= cmdSeq
        BY <1>0, <3>7, SeqIsNat DEF TypeOK, Ordered
      <4> QED BY <1>0, <3>1, <3>8, <4>1 DEF Ordered
    <3> QED BY <2>1, <3>5, <3>9, <3>10 DEF Coalesce, IInv, Ordered
  <2>2. CASE ~NewestStop /\ ~RingFull /\ Store(buf, head, Stop, e) /\ UNCHANGED dropCount
    BY <1>0, <2>2, StoreType, StoreOrdered DEF IInv, TypeOK, RingFull
  <2>3. CASE RingFull /\ EvictAndStore(e)
    <3>1. PICK i \in Slots : /\ dropCount < MaxSeq
                             /\ dropCount' = dropCount + 1
                             /\ Store(ShiftedDown(i), PrevSlot(head), Stop, e)
      BY <2>3 DEF EvictAndStore
    <3>2. dropCount' \in 0..MaxSeq
      BY <1>0, <3>1, RingMaxSeqAssumption DEF TypeOK
    <3>3. head # tail /\ PrevSlot(head) \in Slots /\ NextSlot(PrevSlot(head)) # tail
      BY <1>0, <2>3, SlotSteps DEF RingFull, TypeOK, NextSlot, Slots
    <3>4. Ordered(ShiftedDown(i), tail, PrevSlot(head), cmdSeq)
      BY <3>3, ShiftedOrdered
    <3> QED BY <1>0, <3>1, <3>2, <3>3, <3>4, ShiftedType, StoreType, StoreOrdered
            DEF IInv
  <2> QED BY <1>2, <2>1, <2>2, <2>3 DEF PushStop
<1>3. ASSUME Pop PROVE IInv'
  <2>1. CASE head = tail
    BY <1>0, <1>3, <2>1 DEF Pop, IInv, TypeOK, Ordered
  <2>2. CASE head # tail
    <3>1. Before(tail, tail, head)
      BY <1>0, <2>2 DEF TypeOK, Before, Distance, Slots
    <3>2. buf[tail] \in Envelopes
      BY <1>0, <3>1, QueuedSlotType DEF TypeOK
    <3>3. TypeOK'
      BY <1>0, <1>3, <2>2, <3>2, SlotSteps, DistanceRange DEF Pop, TypeOK
    <3>4. \A i, j \in Slots :
            /\ Before(NextSlot(tail), i, head) => Before(tail, i, head)
            /\ Before(NextSlot(tail), i, head) /\ Before(NextSlot(tail), j, head)
               /\ Before(NextSlot(tail), i, j) => Before(tail, i, j)
      BY <1>0, <2>2 DEF TypeOK, Before, Distance, NextSlot, Slots
    <3> QED BY <1>0, <1>3, <2>2, <3>3, <3>4 DEF Pop, IInv, Ordered
  <2> QED BY <2>1, <2>2
<1>4. CASE UNCHANGED vars
  BY <1>0, <1>4 DEF vars, IInv, TypeOK, Ordered
<1> QED BY <1>1, <1>2, <1>3, <1>4 DEF Next

\* The ring's indices, counters and replies keep their types through every
\* push, coalesce, eviction and pop of stm32_drivebase_chardev.c; in
\* particular PICKUP_CMD never returns a slot that was never written.
THEOREM RingTypeCorrect == Spec => []TypeOK
<1> IInv => TypeOK
  BY DEF IInv
<1> QED BY InvInit, InvStep, PTL DEF Spec

\* From tail to head the cmd_seq stamps strictly increase, for every ring
\* depth: coalescing a STOP, evicting a verb across the wrap-around and
\* popping never reorder what was pushed.
THEOREM RingSeqOrdered == Spec => []SeqOrdered
<1> IInv => SeqOrdered
  BY OrderedIsSeqOrdered DEF IInv
<1> QED BY InvInit, InvStep, PTL DEF Spec

-----------------------------------------------------------------------------

\* Among any slots one is nearest to the tail.
LEMMA NearestSlot ==
  ASSUME NEW t \in Slots, NEW S \in SUBSET Slots, S # {}
  PROVE  \E i \in S : \A j \in S : Distance(t, i) <= Distance(t, j)
<1> DEFINE D == {Distance(t, i) : i \in S}
           R == OpToRel(<, Nat)
<1>1. D \subseteq Nat /\ D # {}
  BY DistanceRange
<1>2. IsWellFoundedOn(R, Nat)
  BY NatLessThanWellFounded
<1> HIDE DEF R
<1>3. \E m \in D : \A n \in D : ~ (<<n, m>> \in R)
  BY <1>1, <1>2, WFMin
<1>4. PICK m \in D : \A n \in D : ~ (<<n, m>> \in R)
  BY <1>3
<1>5. \A n \in D : ~ (n < m)
  BY <1>1, <1>4 DEF R, OpToRel
<1>6. PICK i \in S : m = Distance(t, i)
  BY <1>4
<1>7. \A j \in S : Distance(t, i) <= Distance(t, j)
  BY <1>1, <1>5, <1>6
<1> QED BY <1>7

\* A full ring whose newest envelope is not a STOP holds a verb, so the search
\* for a victim in db_push_envelope always finds one: head never runs onto tail
\* and DRIVEBASE_STOP is accepted however saturated the ring is, for every
\* depth of two slots or more.
THEOREM StopAlwaysLands == Spec => []StopCanLand
<1>1. IInv => StopCanLand
  <2> SUFFICES ASSUME IInv, ~NewestStop, RingFull PROVE \E i \in Slots : IsVictim(i)
    BY DEF StopCanLand
  <2> DEFINE V == {i \in Slots : Queued(i) /\ buf[i].kind # Stop}
  <2>1. head \in Slots /\ tail \in Slots
    BY DEF IInv, TypeOK
  <2>2. head # tail /\ PrevSlot(head) \in Slots /\ Queued(PrevSlot(head))
    BY <2>1 DEF RingFull, NextSlot, PrevSlot, Slots, Queued, Distance
  <2>3. V # {}
    BY <2>2 DEF NewestStop
  <2>4. PICK i \in V : \A j \in V : Distance(tail, i) <= Distance(tail, j)
    BY <2>1, <2>3, NearestSlot
  <2>5. \A j \in Slots : Distance(tail, j) \in Nat
    BY <2>1, DistanceRange
  <2>6. IsVictim(i)
    BY <2>4, <2>5 DEF IsVictim
  <2> QED BY <2>6
<1> QED BY <1>1, InvInit, InvStep, PTL DEF Spec

\* status.cmd_ring_depth is the number of queued envelopes after every push,
\* coalesce, eviction and pop: each of them recomputes it from the head and the
\* tail it leaves behind, or moves neither.
THEOREM RingDepthIsReported == Spec => []DepthReported
<1>1. Init => DepthReported
  BY DEF Init, DepthReported, Distance
<1>2. DepthReported /\ [Next]_vars => DepthReported'
  BY DEF DepthReported, Next, PushVerb, PushStop, Coalesce, EvictAndStore, Store, Pop, vars
<1> QED BY <1>1, <1>2, PTL DEF Spec

-----------------------------------------------------------------------------
(* The refinement of CmdQueue: what the ring holds, read from the tail.    *)

\* The slot of the n-th envelope from tail t.
SlotOf(t, n) == IF t + n - 1 < Depth THEN t + n - 1 ELSE t + n - 1 - Depth

Listed(b, t, h) == [n \in 1..Distance(t, h) |-> b[SlotOf(t, n)]]

Cells == Envelopes \cup {Empty}

LEMMA ListedIsRingSeq == RingSeq = Listed(buf, tail, head)
BY DEF RingSeq, Listed, SlotOf

\* Positions and slots correspond: the n-th envelope is n - 1 slots from the tail.
LEMMA SlotOfPosition ==
  ASSUME NEW t \in Slots, NEW n \in 1..Depth
  PROVE  SlotOf(t, n) \in Slots /\ Distance(t, SlotOf(t, n)) = n - 1
BY DEF SlotOf, Slots, Distance

LEMMA PositionOfSlot ==
  ASSUME NEW t \in Slots, NEW s \in Slots
  PROVE  SlotOf(t, Distance(t, s) + 1) = s
BY DEF SlotOf, Slots, Distance

LEMMA ListedType ==
  ASSUME NEW b \in [Slots -> Cells], NEW t \in Slots, NEW h \in Slots
  PROVE  /\ Listed(b, t, h) \in Seq(Cells)
         /\ Len(Listed(b, t, h)) = Distance(t, h)
         /\ \A n \in 1..Distance(t, h) : Listed(b, t, h)[n] = b[SlotOf(t, n)]
<1>1. Distance(t, h) \in Nat /\ Distance(t, h) < Depth
  BY DistanceRange
<1>2. \A n \in 1..Distance(t, h) : b[SlotOf(t, n)] \in Cells
  BY <1>1, SlotOfPosition
<1>3. Listed(b, t, h) \in [1..Distance(t, h) -> Cells]
  BY <1>2 DEF Listed
<1>4. Listed(b, t, h) \in Seq(Cells)
  BY <1>1, <1>3, SeqDef
<1>5. Len(Listed(b, t, h)) = Distance(t, h)
  BY <1>1, <1>3, <1>4, LenProperties
<1> QED BY <1>4, <1>5 DEF Listed

\* A store into the slot of the head appends.
LEMMA StoreAppends ==
  ASSUME NEW b \in [Slots -> Cells], NEW t \in Slots, NEW h \in Slots,
         NEW env \in Cells, NextSlot(h) # t
  PROVE  Listed([b EXCEPT ![h] = env], t, NextSlot(h)) = Append(Listed(b, t, h), env)
<1> DEFINE c == [b EXCEPT ![h] = env]
           q == Listed(b, t, h)
           r == Listed(c, t, NextSlot(h))
           d == Distance(t, h)
<1>1. NextSlot(h) \in Slots /\ d \in Nat /\ d < Depth /\ Distance(t, NextSlot(h)) = d + 1
  BY SlotSteps, DistanceRange, DistanceNext
<1>2. c \in [Slots -> Cells]
  OBVIOUS
<1>3. r \in Seq(Cells) /\ Len(r) = d + 1 /\ \A n \in 1..(d + 1) : r[n] = c[SlotOf(t, n)]
  <2> DEFINE e == Distance(t, NextSlot(h))
  <2>1. r \in Seq(Cells) /\ Len(r) = e /\ \A n \in 1..e : r[n] = c[SlotOf(t, n)]
    BY <1>1, <1>2, ListedType
  <2> HIDE DEF r
  <2> QED BY <1>1, <2>1
<1>4. q \in Seq(Cells) /\ Len(q) = d /\ \A n \in 1..d : q[n] = b[SlotOf(t, n)]
  BY ListedType
<1> HIDE DEF c, q, r, d
<1>5. /\ Append(q, env) \in Seq(Cells) /\ Len(Append(q, env)) = d + 1
      /\ \A n \in 1..d : Append(q, env)[n] = q[n]
      /\ Append(q, env)[d + 1] = env
  BY <1>1, <1>4, AppendProperties
<1>6. ASSUME NEW n \in 1..(d + 1) PROVE r[n] = Append(q, env)[n]
  <2>1. n \in 1..Depth
    BY <1>1
  <2>2. CASE n = d + 1
    <3>1. SlotOf(t, n) = h
      BY <2>2, PositionOfSlot DEF d
    <3>2. c[h] = env
      BY DEF c
    <3> QED BY <2>2, <3>1, <3>2, <1>3, <1>5
  <2>3. CASE n # d + 1
    <3>1. n \in 1..d
      BY <2>3, <1>1
    <3>2. SlotOf(t, n) \in Slots /\ Distance(t, SlotOf(t, n)) = n - 1
      BY <2>1, SlotOfPosition
    <3>3. SlotOf(t, n) # h
      BY <3>1, <3>2, <1>1 DEF d
    <3>4. c[SlotOf(t, n)] = b[SlotOf(t, n)]
      BY <3>2, <3>3 DEF c
    <3> QED BY <3>1, <3>4, <1>3, <1>4, <1>5
  <2> QED BY <2>2, <2>3
<1>7. r = Append(q, env)
  BY <1>3, <1>5, <1>6, SeqEqual
<1> QED BY <1>7 DEF r, q, c

\* A pop takes the head of the list.
LEMMA PopTakesHead ==
  ASSUME NEW b \in [Slots -> Cells], NEW t \in Slots, NEW h \in Slots, h # t
  PROVE  /\ Listed(b, t, h) # <<>>
         /\ Head(Listed(b, t, h)) = b[t]
         /\ Listed(b, NextSlot(t), h) = Tail(Listed(b, t, h))
<1> DEFINE q == Listed(b, t, h)
           r == Listed(b, NextSlot(t), h)
           d == Distance(t, h)
<1>1. /\ NextSlot(t) \in Slots /\ d \in Nat /\ d < Depth /\ d >= 1
      /\ Distance(NextSlot(t), h) = d - 1
  <2>1. d \in 0..(Depth - 1) /\ NextSlot(t) \in Slots
    BY SlotSteps, DistanceRange
  <2>2. d # 0
    BY DEF Distance, Slots
  <2> QED BY <2>1, <2>2, DistanceNext
<1>2. q \in Seq(Cells) /\ Len(q) = d /\ \A n \in 1..d : q[n] = b[SlotOf(t, n)]
  BY ListedType
<1>3. /\ r \in Seq(Cells) /\ Len(r) = d - 1
      /\ \A n \in 1..(d - 1) : r[n] = b[SlotOf(NextSlot(t), n)]
  <2> DEFINE e == Distance(NextSlot(t), h)
  <2>1. r \in Seq(Cells) /\ Len(r) = e /\ \A n \in 1..e : r[n] = b[SlotOf(NextSlot(t), n)]
    BY <1>1, ListedType
  <2> HIDE DEF r
  <2> QED BY <1>1, <2>1
<1>4. \A n \in 1..(d - 1) : SlotOf(NextSlot(t), n) = SlotOf(t, n + 1)
  BY <1>1 DEF SlotOf, NextSlot, Slots
<1>5. SlotOf(t, 1) = t
  BY DEF SlotOf, Slots
<1> HIDE DEF q, r, d
<1>6. q # <<>>
  BY <1>1, <1>2, EmptySeq
<1>7. Head(q) = b[t]
  <2>1. Head(q) = q[1]
    BY <1>2, <1>6
  <2> QED BY <2>1, <1>1, <1>2, <1>5
<1>8. /\ Tail(q) \in Seq(Cells) /\ Len(Tail(q)) = d - 1
      /\ \A n \in 1..(d - 1) : Tail(q)[n] = q[n + 1]
  BY <1>2, <1>6, HeadTailProperties
<1>9. \A n \in 1..(d - 1) : r[n] = Tail(q)[n]
  BY <1>1, <1>2, <1>3, <1>4, <1>8
<1>10. r = Tail(q)
  BY <1>3, <1>8, <1>9, SeqEqual
<1> QED BY <1>6, <1>7, <1>10 DEF q, r

\* A STOP that coalesces replaces the last envelope of the list.
LEMMA CoalesceReplacesLast ==
  ASSUME TypeOK, NEW e \in Epochs, Coalesce(e)
  PROVE  RingSeq' = [RingSeq EXCEPT ![Len(RingSeq)] = Env(Stop, e, cmdSeq + 1)]
<1> DEFINE p == PrevSlot(head)
           q == RingSeq
           r == RingSeq'
           d == Distance(tail, head)
           env == Env(Stop, e, cmdSeq + 1)
<1>1. /\ head' = head /\ tail' = tail /\ head # tail /\ cmdSeq + 1 \in 1..MaxSeq
      /\ buf' = [buf EXCEPT ![p] = env]
      /\ head \in Slots /\ tail \in Slots /\ buf \in [Slots -> Cells]
  BY RingMaxSeqAssumption DEF Coalesce, NewestStop, TypeOK, Cells
<1>2. env \in Cells
  BY <1>1, EnvelopeType DEF Cells
<1> HIDE DEF env
<1>3. p \in Slots /\ d \in Nat /\ d < Depth /\ d >= 1 /\ Distance(tail, p) = d - 1
  <2>1. p \in Slots /\ d \in 0..(Depth - 1)
    BY <1>1, SlotSteps, DistanceRange
  <2>2. d # 0 /\ Distance(tail, p) = d - 1
    BY <1>1 DEF Distance, Slots, PrevSlot
  <2> QED BY <2>1, <2>2
<1>4. q \in Seq(Cells) /\ Len(q) = d /\ \A n \in 1..d : q[n] = buf[SlotOf(tail, n)]
  BY <1>1, ListedType, ListedIsRingSeq
<1>5. r \in Seq(Cells) /\ Len(r) = d /\ \A n \in 1..d : r[n] = buf'[SlotOf(tail, n)]
  <2>1. r = Listed(buf', tail, head)
    BY <1>1 DEF RingSeq, Listed, SlotOf
  <2>2. buf' \in [Slots -> Cells]
    BY <1>1, <1>2, <1>3
  <2>3. ASSUME NEW c \in [Slots -> Cells]
        PROVE  /\ Listed(c, tail, head) \in Seq(Cells) /\ Len(Listed(c, tail, head)) = d
               /\ \A n \in 1..d : Listed(c, tail, head)[n] = c[SlotOf(tail, n)]
    BY <1>1, ListedType
  <2> HIDE DEF r
  <2> QED BY <2>1, <2>2, <2>3
<1>6. SlotOf(tail, d) = p
  <2>1. SlotOf(tail, (d - 1) + 1) = p
    BY <1>1, <1>3, PositionOfSlot
  <2>2. (d - 1) + 1 = d
    BY <1>3
  <2> QED BY <2>1, <2>2
<1> HIDE DEF p, q, r, d
<1>7. /\ [q EXCEPT ![d] = env] \in Seq(Cells) /\ Len([q EXCEPT ![d] = env]) = d
      /\ \A n \in 1..d : [q EXCEPT ![d] = env][n] = IF n = d THEN env ELSE q[n]
  BY <1>2, <1>3, <1>4, ExceptSeq
<1>8. ASSUME NEW n \in 1..d PROVE r[n] = [q EXCEPT ![d] = env][n]
  <2>1. SlotOf(tail, n) \in Slots /\ Distance(tail, SlotOf(tail, n)) = n - 1
    BY <1>1, <1>3, SlotOfPosition
  <2>2. CASE n = d
    BY <2>2, <1>1, <1>3, <1>5, <1>6, <1>7
  <2>3. CASE n # d
    <3>1. SlotOf(tail, n) # p
      BY <2>1, <2>3, <1>3
    <3>2. buf'[SlotOf(tail, n)] = buf[SlotOf(tail, n)]
      BY <3>1, <2>1, <1>1
    <3> QED BY <3>2, <2>3, <1>4, <1>5, <1>7
  <2> QED BY <2>2, <2>3
<1>9. r = [q EXCEPT ![d] = env]
  BY <1>5, <1>7, <1>8, SeqEqual
<1> QED BY <1>4, <1>9 DEF r, q, env

\* RemoveAt closes the gap and keeps everything else in place.
LEMMA RemoveAtProperties ==
  ASSUME NEW S, NEW q \in Seq(S), NEW i \in 1..Len(q)
  PROVE  /\ Queue!RemoveAt(q, i) \in Seq(S)
         /\ Len(Queue!RemoveAt(q, i)) = Len(q) - 1
         /\ \A j \in 1..(Len(q) - 1) :
              Queue!RemoveAt(q, i)[j] = IF j < i THEN q[j] ELSE q[j + 1]
<1> DEFINE a == SubSeq(q, 1, i - 1)
           b == SubSeq(q, i + 1, Len(q))
<1>1. Len(q) \in Nat /\ \A j \in 1..Len(q) : q[j] \in S
  BY LenProperties, ElementOfSeq
<1>2. a \in Seq(S) /\ Len(a) = i - 1 /\ \A j \in 1..(i - 1) : a[j] = q[j]
  <2>1. \A j \in 1..(i - 1) : q[j] \in S
    BY <1>1
  <2> QED BY <2>1, <1>1, SubSeqProperties
<1>3. b \in Seq(S) /\ Len(b) = Len(q) - i
        /\ \A j \in 1..(Len(q) - i) : b[j] = q[i + j]
  <2>1. \A j \in (i + 1)..Len(q) : q[j] \in S
    BY <1>1
  <2> QED BY <2>1, <1>1, SubSeqProperties
<1> HIDE DEF a, b
<1>4. Queue!RemoveAt(q, i) = a \o b
  BY DEF Queue!RemoveAt, a, b
<1>5. a \o b \in Seq(S) /\ Len(a \o b) = Len(q) - 1
  <2>1. a \o b \in Seq(S) /\ Len(a \o b) = Len(a) + Len(b)
    BY <1>2, <1>3, ConcatProperties
  <2> QED BY <2>1, <1>1, <1>2, <1>3
<1>6. ASSUME NEW j \in 1..(Len(q) - 1)
      PROVE  (a \o b)[j] = IF j < i THEN q[j] ELSE q[j + 1]
  <2>1. CASE j < i
    BY <2>1, <1>1, <1>2, <1>3, <1>6, ConcatProperties
  <2>2. CASE ~(j < i)
    <3>1. (a \o b)[j] = b[j - (i - 1)]
      BY <2>2, <1>1, <1>2, <1>3, <1>6, ConcatProperties
    <3>2. j - (i - 1) \in 1..(Len(q) - i) /\ i + (j - (i - 1)) = j + 1
      BY <2>2, <1>1, <1>6
    <3> QED BY <3>1, <3>2, <2>2, <1>3
  <2> QED BY <2>1, <2>2
<1> QED BY <1>4, <1>5, <1>6

\* Closing the gap of an evicted verb removes its position from the list.
LEMMA ShiftRemoves ==
  ASSUME NEW b \in [Slots -> Cells], NEW c \in [Slots -> Cells],
         NEW t \in Slots, NEW h \in Slots, h # t,
         NEW i \in 1..Distance(t, h),
         \A n \in 1..(Distance(t, h) - 1) :
           c[SlotOf(t, n)] = IF n < i THEN b[SlotOf(t, n)] ELSE b[SlotOf(t, n + 1)]
  PROVE  Listed(c, t, PrevSlot(h)) = Queue!RemoveAt(Listed(b, t, h), i)
<1> DEFINE q == Listed(b, t, h)
           r == Listed(c, t, PrevSlot(h))
           d == Distance(t, h)
           e == Distance(t, PrevSlot(h))
<1>1. PrevSlot(h) \in Slots /\ d \in Nat /\ e = d - 1 /\ i <= d /\ i >= 1 /\ i \in Nat
  BY DEF Distance, Slots, PrevSlot
<1>2. q \in Seq(Cells) /\ Len(q) = d /\ \A n \in 1..d : q[n] = b[SlotOf(t, n)]
  BY ListedType
<1>3. r \in Seq(Cells) /\ Len(r) = d - 1 /\ \A n \in 1..(d - 1) : r[n] = c[SlotOf(t, n)]
  <2>1. r \in Seq(Cells) /\ Len(r) = e /\ \A n \in 1..e : r[n] = c[SlotOf(t, n)]
    BY <1>1, ListedType
  <2> HIDE DEF r, e
  <2> QED BY <1>1, <2>1
<1>4. \A n \in 1..(d - 1) :
        c[SlotOf(t, n)] = IF n < i THEN b[SlotOf(t, n)] ELSE b[SlotOf(t, n + 1)]
  OBVIOUS
<1> HIDE DEF q, r, d, e
<1>5. /\ Queue!RemoveAt(q, i) \in Seq(Cells) /\ Len(Queue!RemoveAt(q, i)) = d - 1
      /\ \A n \in 1..(d - 1) :
           Queue!RemoveAt(q, i)[n] = IF n < i THEN q[n] ELSE q[n + 1]
  <2>1. i \in 1..Len(q)
    BY <1>1, <1>2
  <2> QED BY <2>1, <1>2, RemoveAtProperties
<1>6. \A n \in 1..(d - 1) : r[n] = Queue!RemoveAt(q, i)[n]
  <2> SUFFICES ASSUME NEW n \in 1..(d - 1) PROVE r[n] = Queue!RemoveAt(q, i)[n]
    OBVIOUS
  <2>1. n \in 1..d /\ n + 1 \in 1..d
    BY <1>1
  <2>2. CASE n < i
    BY <2>1, <2>2, <1>2, <1>3, <1>4, <1>5
  <2>3. CASE ~(n < i)
    BY <2>1, <2>3, <1>2, <1>3, <1>4, <1>5
  <2> QED BY <2>2, <2>3
<1>7. r = Queue!RemoveAt(q, i)
  BY <1>3, <1>5, <1>6, SeqEqual
<1> QED BY <1>7 DEF r, q

\* What the compaction loop of db_push_envelope leaves, position by position.
LEMMA ShiftedCells ==
  ASSUME TypeOK, head # tail, NEW v \in Slots, Queued(v)
  PROVE  \A n \in 1..(Distance(tail, head) - 1) :
           ShiftedDown(v)[SlotOf(tail, n)]
             = IF n < Distance(tail, v) + 1 THEN buf[SlotOf(tail, n)]
               ELSE buf[SlotOf(tail, n + 1)]
<1> SUFFICES ASSUME NEW n \in 1..(Distance(tail, head) - 1)
             PROVE  ShiftedDown(v)[SlotOf(tail, n)]
                      = IF n < Distance(tail, v) + 1 THEN buf[SlotOf(tail, n)]
                        ELSE buf[SlotOf(tail, n + 1)]
  OBVIOUS
<1> DEFINE s == SlotOf(tail, n)
<1>1. /\ tail \in Slots /\ head \in Slots
      /\ Distance(tail, head) \in 0..(Depth - 1) /\ Distance(tail, v) \in 0..(Depth - 1)
  BY DistanceRange DEF TypeOK
<1>2. n \in 1..Depth /\ s \in Slots /\ Distance(tail, s) = n - 1
  <2>1. n \in 1..Depth
    BY <1>1
  <2> QED BY <1>1, <2>1, SlotOfPosition
<1>3. NextSlot(s) = SlotOf(tail, n + 1) /\ NextSlot(s) # head
  BY <1>1 DEF NextSlot, SlotOf, Slots, Distance
<1>4. Queued(s)
  BY <1>1, <1>2 DEF Queued
<1>5. ShiftedDown(v)[s] = IF Distance(tail, v) <= Distance(tail, s)
                          THEN buf[NextSlot(s)] ELSE buf[s]
  BY <1>2, <1>3, <1>4 DEF ShiftedDown
<1> HIDE DEF s
<1>6. ShiftedDown(v)[s] = IF n < Distance(tail, v) + 1 THEN buf[s] ELSE buf[NextSlot(s)]
  BY <1>1, <1>2, <1>5
<1> QED BY <1>3, <1>6 DEF s

\* The victim of an eviction is the oldest verb of the list.
LEMMA VictimIsOldest ==
  ASSUME TypeOK, NEW v \in Slots, IsVictim(v)
  PROVE  /\ Distance(tail, v) + 1 \in 1..Distance(tail, head)
         /\ Queue!OldestVerb(Listed(buf, tail, head)) = Distance(tail, v) + 1
<1> DEFINE q == Listed(buf, tail, head)
           d == Distance(tail, head)
           i == Distance(tail, v) + 1
<1>1. /\ tail \in Slots /\ head \in Slots /\ d \in Nat /\ d < Depth
      /\ Distance(tail, v) \in Nat /\ Distance(tail, v) < d
      /\ buf \in [Slots -> Cells]
  BY DistanceRange DEF TypeOK, IsVictim, Queued, Cells
<1>2. q \in Seq(Cells) /\ Len(q) = d /\ \A n \in 1..d : q[n] = buf[SlotOf(tail, n)]
  BY <1>1, ListedType
<1>3. \A n \in 1..d : SlotOf(tail, n) \in Slots /\ Distance(tail, SlotOf(tail, n)) = n - 1
  BY <1>1, SlotOfPosition
<1>4. SlotOf(tail, i) = v
  BY <1>1, PositionOfSlot
<1> HIDE DEF q, d
<1>5. i \in 1..d /\ q[i].kind # Stop
  BY <1>1, <1>2, <1>4 DEF IsVictim
<1>6. \A j \in 1..(i - 1) : q[j].kind = Stop
  <2> SUFFICES ASSUME NEW j \in 1..(i - 1) PROVE q[j].kind = Stop
    OBVIOUS
  <2>1. j \in 1..d /\ j - 1 < Distance(tail, v) /\ j - 1 < d
    BY <1>1
  <2>2. Queued(SlotOf(tail, j))
    BY <1>1, <1>3, <2>1 DEF Queued, d
  <2>3. buf[SlotOf(tail, j)].kind = Stop
    BY <1>3, <2>1, <2>2 DEF IsVictim
  <2> QED BY <1>2, <2>1, <2>3
<1>7. ASSUME NEW k \in 1..Len(q), q[k].kind # Queue!Stop,
             \A j \in 1..(k - 1) : q[j].kind = Queue!Stop
      PROVE  k = i
  <2>1. k \in Nat /\ i \in Nat /\ k <= d /\ k >= 1 /\ i >= 1 /\ i <= d
    BY <1>1, <1>2, <1>5, <1>7
  <2>2. ~(i < k)
    BY <2>1, <1>5, <1>7 DEF Queue!Stop, Stop
  <2>3. ~(k < i)
    BY <2>1, <1>6, <1>7 DEF Queue!Stop, Stop
  <2> QED BY <2>1, <2>2, <2>3
<1> HIDE DEF i
<1>8. /\ i \in 1..Len(q) /\ q[i].kind # Queue!Stop
      /\ \A j \in 1..(i - 1) : q[j].kind = Queue!Stop
  BY <1>2, <1>5, <1>6 DEF Queue!Stop, Stop
<1>9. Queue!OldestVerb(q) = i
  BY <1>7, <1>8 DEF Queue!OldestVerb
<1> QED BY <1>5, <1>9 DEF q, d, i

\* What Store does is what CmdQueue accepts, when its list grows by the envelope.
LEMMA StoreIsAccepted ==
  ASSUME TypeOK, NEW b \in [Slots -> Cells], NEW h \in Slots, NextSlot(h) # tail,
         NEW k \in Verbs \cup {Stop}, NEW e \in Epochs, Store(b, h, k, e)
  PROVE  Queue!Accept(Append(Listed(b, tail, h), Queue!Stamped(k, e)))
<1>1. /\ cmdSeq < MaxSeq /\ cmdSeq' = cmdSeq + 1 /\ reply' = Ok /\ tail' = tail
      /\ buf' = [b EXCEPT ![h] = Env(k, e, cmdSeq + 1)] /\ head' = NextSlot(h)
  BY DEF Store
<1>2. Env(k, e, cmdSeq + 1) \in Cells
  <2>1. cmdSeq + 1 \in 1..MaxSeq
    BY <1>1, RingMaxSeqAssumption DEF TypeOK
  <2> QED BY <2>1, EnvelopeType DEF Cells
<1>3. RingSeq' = Listed(buf', tail', head')
  BY DEF RingSeq, Listed, SlotOf
<1>4. RingSeq' = Append(Listed(b, tail, h), Env(k, e, cmdSeq + 1))
  BY <1>1, <1>2, <1>3, StoreAppends DEF TypeOK
<1>5. Env(k, e, cmdSeq + 1) = Queue!Stamped(k, e)
  BY DEF Env, Queue!Stamped
<1>6. reply' = [rc |-> "OK"]
  BY <1>1 DEF Ok
<1> QED BY <1>1, <1>4, <1>5, <1>6 DEF Queue!Accept

\* Every step of the ring is a step of CmdQueue, or none.
LEMMA RingStepRefines ==
  ASSUME IInv, [Next]_vars
  PROVE  [Queue!QueueNext]_(Queue!queueVars)
<1> DEFINE q == Listed(buf, tail, head)
<1>1. /\ TypeOK /\ head \in Slots /\ tail \in Slots /\ buf \in [Slots -> Cells]
      /\ cmdSeq \in Nat
  BY RingMaxSeqAssumption DEF IInv, TypeOK, Cells
<1>2. RingSeq = q
  BY ListedIsRingSeq
<1>3. RingSeq' = Listed(buf', tail', head')
  BY DEF RingSeq, Listed, SlotOf
<1>4. q \in Seq(Cells) /\ Len(q) = Distance(tail, head) /\ Distance(tail, head) \in Nat
  BY <1>1, ListedType, DistanceRange
<1>5. RingFull <=> Len(q) = Depth - 1
  BY <1>1, <1>4 DEF RingFull, NextSlot, Distance, Slots
<1>6. Len(q) <= Depth - 1
  <2>1. Distance(tail, head) \in 0..(Depth - 1)
    BY <1>1, DistanceRange
  <2> QED BY <2>1, <1>4
<1>7. NewestStop <=> Queue!NewestIsStop(q)
  <2>1. CASE head = tail
    <3>1. Len(q) = 0
      BY <2>1, <1>1, <1>4 DEF Distance, Slots
    <3>2. q = <<>>
      BY <3>1, <1>4, EmptySeq
    <3> QED BY <2>1, <3>2 DEF NewestStop, Queue!NewestIsStop
  <2>2. CASE head # tail
    <3> HIDE DEF q
    <3>1. q # <<>>
      BY <2>2, <1>1, PopTakesHead DEF q
    <3>2. q[Len(q)] = buf[PrevSlot(head)]
      <4>1. SlotOf(tail, Len(q)) = PrevSlot(head) /\ Len(q) \in 1..Distance(tail, head)
        BY <2>2, <1>1, <1>4 DEF SlotOf, PrevSlot, Distance, Slots
      <4> QED BY <4>1, <1>1, ListedType DEF q
    <3> QED BY <2>2, <3>1, <3>2 DEF NewestStop, Queue!NewestIsStop, Queue!Stop, Stop
  <2> QED BY <2>1, <2>2
<1> HIDE DEF q
<1>8. ASSUME NEW k \in Verbs, NEW e \in Epochs, PushVerb(k, e)
      PROVE  Queue!QueueNext
  <2>1. CASE ~RingFull
    <3>1. Store(buf, head, k, e) /\ NextSlot(head) # tail
      BY <1>8, <2>1 DEF PushVerb, RingFull
    <3>2. Queue!Accept(Append(q, Queue!Stamped(k, e)))
      BY <3>1, <1>1, StoreIsAccepted DEF q
    <3>3. Len(q) < Depth - 1
      BY <2>1, <1>1, <1>4, <1>5, <1>6
    <3>4. Queue!PutVerb(k, e)
      BY <3>2, <3>3, <1>2 DEF Queue!PutVerb
    <3> QED BY <3>4 DEF Queue!QueueNext
  <2>2. CASE RingFull
    <3>1. /\ buf' = buf /\ head' = head /\ tail' = tail /\ cmdSeq' = cmdSeq
          /\ reply' = [rc |-> "EBUSY"]
      BY <1>8, <2>2 DEF PushVerb, Busy
    <3>2. RingSeq' = RingSeq
      BY <3>1, <1>2, <1>3 DEF q
    <3>3. Queue!RefuseVerb
      BY <3>1, <3>2, <2>2, <1>2, <1>5 DEF Queue!RefuseVerb
    <3> QED BY <3>3 DEF Queue!QueueNext
  <2> QED BY <2>1, <2>2
<1>9. ASSUME NEW e \in Epochs, PushStop(e)
      PROVE  Queue!QueueNext
  <2> DEFINE env == Queue!Stamped(Queue!Stop, e)
  <2>1. Queue!Accept(Queue!WithStop(q, Depth - 1, env))
    <3>1. CASE Coalesce(e)
      <4>1. cmdSeq < MaxSeq /\ cmdSeq' = cmdSeq + 1 /\ reply' = [rc |-> "OK"] /\ NewestStop
        BY <3>1 DEF Coalesce, Ok
      <4>2. Env(Stop, e, cmdSeq + 1) = env
        BY DEF Env, Queue!Stamped, Queue!Stop, Stop
      <4>3. RingSeq' = [q EXCEPT ![Len(q)] = env]
        BY <3>1, <4>2, <1>1, <1>2, CoalesceReplacesLast
      <4>4. Queue!WithStop(q, Depth - 1, env) = [q EXCEPT ![Len(q)] = env]
        BY <4>1, <1>7 DEF Queue!WithStop
      <4> QED BY <4>1, <4>3, <4>4 DEF Queue!Accept
    <3>2. CASE ~NewestStop /\ ~RingFull /\ Store(buf, head, Stop, e)
      <4>1. Queue!Accept(Append(q, Queue!Stamped(Stop, e)))
        BY <3>2, <1>1, StoreIsAccepted DEF q, RingFull
      <4>2. Queue!WithStop(q, Depth - 1, env) = Append(q, env)
        BY <3>2, <1>5, <1>7 DEF Queue!WithStop
      <4> QED BY <4>1, <4>2 DEF Queue!Stop, Stop
    <3>3. CASE ~NewestStop /\ RingFull /\ EvictAndStore(e)
      <4>1. PICK v \in Slots : IsVictim(v) /\ Store(ShiftedDown(v), PrevSlot(head), Stop, e)
        BY <3>3 DEF EvictAndStore
      <4>2. /\ head # tail /\ PrevSlot(head) \in Slots /\ NextSlot(PrevSlot(head)) # tail
            /\ ShiftedDown(v) \in [Slots -> Cells]
        BY <1>1, <3>3, SlotSteps, ShiftedType DEF RingFull, NextSlot, Slots, Cells
      <4>3. Queue!Accept(Append(Listed(ShiftedDown(v), tail, PrevSlot(head)),
                                Queue!Stamped(Stop, e)))
        BY <4>1, <4>2, <1>1, StoreIsAccepted
      <4>4. /\ Distance(tail, v) + 1 \in 1..Distance(tail, head)
            /\ Queue!OldestVerb(q) = Distance(tail, v) + 1
        BY <4>1, <1>1, VictimIsOldest DEF q
      <4>5. Listed(ShiftedDown(v), tail, PrevSlot(head))
              = Queue!RemoveAt(q, Distance(tail, v) + 1)
        BY <4>1, <4>2, <4>4, <1>1, ShiftedCells, ShiftRemoves DEF q, IsVictim
      <4>6. Queue!WithStop(q, Depth - 1, env)
              = Append(Queue!RemoveAt(q, Distance(tail, v) + 1), env)
        BY <3>3, <4>4, <1>5, <1>7 DEF Queue!WithStop, Queue!WithoutOldestVerb
      <4> QED BY <4>3, <4>5, <4>6 DEF Queue!Stop, Stop
    <3> QED BY <1>9, <3>1, <3>2, <3>3 DEF PushStop
  <2>2. Queue!PutStop(e)
    BY <2>1, <1>2 DEF Queue!PutStop
  <2> QED BY <2>2 DEF Queue!QueueNext
<1>10. ASSUME Pop
       PROVE  Queue!QueueNext
  <2>1. CASE head = tail
    <3>1. /\ buf' = buf /\ head' = head /\ tail' = tail /\ cmdSeq' = cmdSeq
          /\ reply' = [rc |-> "EAGAIN"]
      BY <1>10, <2>1 DEF Pop, Again
    <3>2. RingSeq' = RingSeq
      BY <3>1, <1>2, <1>3 DEF q
    <3>3. Len(q) = 0
      BY <2>1, <1>1, <1>4 DEF Distance, Slots
    <3>4. q = <<>>
      BY <3>3, <1>4, EmptySeq
    <3>5. Queue!TakeNothing
      BY <3>1, <3>2, <3>4, <1>2 DEF Queue!TakeNothing
    <3> QED BY <3>5 DEF Queue!QueueNext
  <2>2. CASE head # tail
    <3>1. /\ buf' = buf /\ head' = head /\ tail' = NextSlot(tail) /\ cmdSeq' = cmdSeq
          /\ reply' = [rc |-> "GOT", env |-> buf[tail]]
      BY <1>10, <2>2 DEF Pop, Got
    <3>2. q # <<>> /\ Head(q) = buf[tail] /\ RingSeq' = Tail(q)
      BY <3>1, <2>2, <1>1, <1>3, PopTakesHead DEF q
    <3>3. Queue!Take
      BY <3>1, <3>2, <1>2 DEF Queue!Take
    <3> QED BY <3>3 DEF Queue!QueueNext
  <2> QED BY <2>1, <2>2
<1>11. CASE UNCHANGED vars
  <2>1. buf' = buf /\ head' = head /\ tail' = tail /\ cmdSeq' = cmdSeq /\ reply' = reply
    BY <1>11 DEF vars
  <2>2. RingSeq' = RingSeq
    BY <2>1, <1>2, <1>3 DEF q
  <2> QED BY <2>1, <2>2 DEF Queue!queueVars
<1> QED BY <1>8, <1>9, <1>10, <1>11 DEF Next

\* The circular buffer of stm32_drivebase_chardev.c is the bounded queue with
\* STOP priority that docs/en/drivers/drivebase.md section 3.3 describes, for
\* every depth: head, tail, the wrap-around and the compaction loop are not to
\* be seen from its callers.
THEOREM RingRefinesQueue == Spec => RefinesQueue
<1>1. Init => Queue!QueueInit
  <2> SUFFICES ASSUME Init PROVE Queue!QueueInit
    OBVIOUS
  <2>1. /\ head = tail /\ tail \in Slots /\ head \in Slots /\ cmdSeq = 0
        /\ reply = [rc |-> "OK"] /\ buf \in [Slots -> Cells]
    BY DEF Init, Slots, Ok, Cells
  <2>2. Listed(buf, tail, head) \in Seq(Cells) /\ Len(Listed(buf, tail, head)) = 0
    <3>1. Distance(tail, head) = 0
      BY <2>1 DEF Distance, Slots
    <3> QED BY <2>1, <3>1, ListedType
  <2>3. RingSeq = <<>>
    BY <2>2, ListedIsRingSeq, EmptySeq
  <2> QED BY <2>1, <2>3 DEF Queue!QueueInit
<1>2. IInv /\ [Next]_vars => [Queue!QueueNext]_(Queue!queueVars)
  BY RingStepRefines
<1> QED BY <1>1, <1>2, InvInit, InvStep, PTL DEF Spec, RefinesQueue, Queue!QueueSpec

-----------------------------------------------------------------------------
(* The snapshots the device hands out, DrivebaseSnapshot.                  *)

\* status_seq is odd while the daemon is inside db_publish_status, a detach that
\* nests in it leaves it so, and a reader that goes on past a count equal to its
\* own has seen no write of the daemon's words since.
StatusUnderSeq ==
  /\ seq \in Nat /\ written \in Nat
  /\ status \in [first : Nat, kept : Int, last : Nat]
  /\ publisher \in {"idle", "first", "last", "closing"}
  /\ Snapshot!Even(seq) <=> publisher = "idle"
  /\ reader \in {"copyFirst", "copyKept", "copyLast", "check"}
       => /\ s1 \in Nat /\ s1 <= seq /\ Snapshot!Even(s1)
          /\ s1 = seq /\ reader # "copyFirst" => got.first = status.first
          /\ s1 = seq /\ reader = "check" => got.last = status.last

\* Both buffers hold whole states, and the one a reader took stays as it is until
\* the second publication after that.
StateInSlot ==
  /\ states \in Nat /\ since \in Nat /\ active \in {0, 1}
  /\ got \in [first : Nat, kept : Int, last : Nat]
  /\ buffers \in [{0, 1} -> Nat \X Nat]
  /\ \A b \in {0, 1} : buffers[b][1] = buffers[b][2]
  /\ reader \in {"first", "second"}
       => /\ slot \in {0, 1}
          /\ since = 0 => active = slot
          /\ since = 1 => active = 1 - slot
          /\ since < 2 /\ reader = "second" => got.first = buffers[slot][1]

SnapshotInv == StatusUnderSeq /\ StateInSlot

LEMMA Parity ==
  ASSUME NEW n \in Nat
  PROVE  /\ Snapshot!Even(n + 1) <=> ~Snapshot!Even(n)
         /\ Snapshot!Even(n + 2) <=> Snapshot!Even(n)
BY DEF Snapshot!Even

LEMMA SnapshotInit == Snapshot!Init => SnapshotInv
<1> SUFFICES ASSUME Snapshot!Init PROVE SnapshotInv
  OBVIOUS
<1>1. Snapshot!Even(0)
  BY DEF Snapshot!Even
<1> QED BY <1>1 DEF Snapshot!Init, Snapshot!Zero, Snapshot!Words, SnapshotInv, StatusUnderSeq,
                    StateInSlot

LEMMA StatusStep == SnapshotInv /\ [Snapshot!Next]_(Snapshot!vars) => StatusUnderSeq'
<1> SUFFICES ASSUME SnapshotInv, [Snapshot!Next]_(Snapshot!vars) PROVE StatusUnderSeq'
  OBVIOUS
<1> USE DEF SnapshotInv, StatusUnderSeq
<1>0. got \in [first : Nat, kept : Int, last : Nat]
  BY DEF StateInSlot
<1>1. CASE Snapshot!Attach
  BY <1>0, <1>1, Parity DEF Snapshot!Attach, Snapshot!Account, Snapshot!daemonVars,
     Snapshot!stateVars, Snapshot!readVars
<1>2. CASE Snapshot!CountCommand
  BY <1>0, <1>2, Parity DEF Snapshot!CountCommand, Snapshot!Account, Snapshot!daemonVars,
     Snapshot!stateVars, Snapshot!readVars
<1>3. CASE Snapshot!PublishStatus
  BY <1>0, <1>3, Parity DEF Snapshot!PublishStatus, Snapshot!publishKept,
     Snapshot!daemonVars, Snapshot!stateVars, Snapshot!readVars
<1>4. CASE Snapshot!WriteFirst
  BY <1>0, <1>4, Parity DEF Snapshot!WriteFirst, Snapshot!publishKept,
     Snapshot!daemonVars, Snapshot!stateVars, Snapshot!readVars
<1>5. CASE Snapshot!WriteLast
  BY <1>0, <1>5, Parity DEF Snapshot!WriteLast, Snapshot!publishKept,
     Snapshot!daemonVars, Snapshot!stateVars, Snapshot!readVars
<1>6. CASE Snapshot!PublishEnd
  BY <1>0, <1>6, Parity DEF Snapshot!PublishEnd, Snapshot!publishKept,
     Snapshot!daemonVars, Snapshot!stateVars, Snapshot!readVars
<1>7. CASE Snapshot!Detach
  BY <1>0, <1>7, Parity DEF Snapshot!Detach, Snapshot!Words, Snapshot!daemonVars,
     Snapshot!stateVars, Snapshot!readVars
<1>8. CASE Snapshot!PublishState
  BY <1>0, <1>8, Parity DEF Snapshot!PublishState, Snapshot!Account, Snapshot!daemonVars,
     Snapshot!stateVars, Snapshot!readVars
<1>9. CASE Snapshot!StatusStart
  BY <1>0, <1>9, Parity DEF Snapshot!StatusStart, Snapshot!ReaderStep, Snapshot!readKept,
     Snapshot!daemonVars, Snapshot!stateVars, Snapshot!readVars
<1>10. CASE Snapshot!StatusLoad
  BY <1>0, <1>10, Parity DEF Snapshot!StatusLoad, Snapshot!ReaderStep, Snapshot!readKept,
     Snapshot!daemonVars, Snapshot!stateVars, Snapshot!readVars
<1>11. CASE Snapshot!StatusCopyFirst
  BY <1>0, <1>11, Parity DEF Snapshot!StatusCopyFirst, Snapshot!statusKept,
     Snapshot!ReaderStep, Snapshot!readKept, Snapshot!daemonVars, Snapshot!stateVars,
     Snapshot!readVars
<1>12. CASE Snapshot!StatusCopyKept
  BY <1>0, <1>12, Parity DEF Snapshot!StatusCopyKept, Snapshot!statusKept,
     Snapshot!ReaderStep, Snapshot!readKept, Snapshot!daemonVars, Snapshot!stateVars,
     Snapshot!readVars
<1>13. CASE Snapshot!StatusCopyLast
  BY <1>0, <1>13, Parity DEF Snapshot!StatusCopyLast, Snapshot!statusKept,
     Snapshot!ReaderStep, Snapshot!readKept, Snapshot!daemonVars, Snapshot!stateVars,
     Snapshot!readVars
<1>14. CASE Snapshot!StatusCheck
  BY <1>0, <1>14, Parity DEF Snapshot!StatusCheck, Snapshot!ReaderStep,
     Snapshot!readKept, Snapshot!daemonVars, Snapshot!stateVars, Snapshot!readVars
<1>15. CASE Snapshot!StateStart
  BY <1>0, <1>15, Parity DEF Snapshot!StateStart, Snapshot!ReaderStep, Snapshot!readKept,
     Snapshot!daemonVars, Snapshot!stateVars, Snapshot!readVars
<1>16. CASE Snapshot!StateCopyFirst
  BY <1>0, <1>16, Parity DEF Snapshot!StateCopyFirst, Snapshot!statusKept,
     Snapshot!ReaderStep, Snapshot!readKept, Snapshot!daemonVars, Snapshot!stateVars,
     Snapshot!readVars
<1>17. CASE Snapshot!StateCopySecond
  BY <1>0, <1>17, Parity DEF Snapshot!StateCopySecond, Snapshot!statusKept,
     Snapshot!ReaderStep, Snapshot!readKept, Snapshot!daemonVars, Snapshot!stateVars,
     Snapshot!readVars
<1>18. CASE Snapshot!Returns
  BY <1>0, <1>18, Parity DEF Snapshot!Returns, Snapshot!Zero, Snapshot!Words,
     Snapshot!readKept, Snapshot!daemonVars, Snapshot!stateVars, Snapshot!readVars
<1>19. CASE UNCHANGED Snapshot!vars
  BY <1>19 DEF Snapshot!vars, Snapshot!daemonVars, Snapshot!stateVars, Snapshot!readVars
<1> QED
  BY <1>1, <1>2, <1>3, <1>4, <1>5, <1>6, <1>7, <1>8, <1>9, <1>10, <1>11, <1>12, <1>13,
     <1>14, <1>15, <1>16, <1>17, <1>18, <1>19
  DEF Snapshot!Next, Snapshot!Writers, Snapshot!Reads

LEMMA StateStep == SnapshotInv /\ [Snapshot!Next]_(Snapshot!vars) => StateInSlot'
<1> SUFFICES ASSUME SnapshotInv, [Snapshot!Next]_(Snapshot!vars) PROVE StateInSlot'
  OBVIOUS
<1> USE DEF SnapshotInv, StateInSlot
<1>0. status \in [first : Nat, kept : Int, last : Nat]
  BY DEF StatusUnderSeq
<1>1. CASE Snapshot!Attach
  BY <1>0, <1>1 DEF Snapshot!Attach, Snapshot!Account, Snapshot!daemonVars,
     Snapshot!stateVars, Snapshot!readVars
<1>2. CASE Snapshot!CountCommand
  BY <1>0, <1>2 DEF Snapshot!CountCommand, Snapshot!Account, Snapshot!daemonVars,
     Snapshot!stateVars, Snapshot!readVars
<1>3. CASE Snapshot!PublishStatus
  BY <1>0, <1>3 DEF Snapshot!PublishStatus, Snapshot!publishKept, Snapshot!daemonVars,
     Snapshot!stateVars, Snapshot!readVars
<1>4. CASE Snapshot!WriteFirst
  BY <1>0, <1>4 DEF Snapshot!WriteFirst, Snapshot!publishKept, Snapshot!daemonVars,
     Snapshot!stateVars, Snapshot!readVars
<1>5. CASE Snapshot!WriteLast
  BY <1>0, <1>5 DEF Snapshot!WriteLast, Snapshot!publishKept, Snapshot!daemonVars,
     Snapshot!stateVars, Snapshot!readVars
<1>6. CASE Snapshot!PublishEnd
  BY <1>0, <1>6 DEF Snapshot!PublishEnd, Snapshot!publishKept, Snapshot!daemonVars,
     Snapshot!stateVars, Snapshot!readVars
<1>7. CASE Snapshot!Detach
  BY <1>0, <1>7 DEF Snapshot!Detach, Snapshot!Words, Snapshot!daemonVars,
     Snapshot!stateVars, Snapshot!readVars
<1>8. CASE Snapshot!PublishState
  <2>1. /\ states' = states + 1 /\ active' = 1 - active /\ since' = since + 1
        /\ buffers' = [buffers EXCEPT ![1 - active] = <<states + 1, states + 1>>]
        /\ reader' = reader /\ got' = got /\ slot' = slot
    BY <1>8 DEF Snapshot!PublishState, Snapshot!readVars
  <2>2. /\ 1 - active \in {0, 1} /\ active' \in {0, 1} /\ states' \in Nat /\ since' \in Nat
        /\ since' # 0
    BY <2>1
  <2>3. \A b \in {0, 1} : buffers'[b] = IF b = active THEN buffers[b]
                                        ELSE <<states + 1, states + 1>>
    BY <2>1
  <2>4. buffers' \in [{0, 1} -> Nat \X Nat]
    BY <2>1, <2>2
  <2>5. \A b \in {0, 1} : buffers'[b][1] = buffers'[b][2]
    BY <2>3
  <2>6. ASSUME reader \in {"first", "second"}
        PROVE  /\ since' = 1 => active' = 1 - slot
               /\ since' < 2 /\ reader = "second" => got.first = buffers'[slot][1]
    BY <2>1, <2>3, <2>6
  <2> QED BY <2>1, <2>2, <2>4, <2>5, <2>6
<1>9. CASE Snapshot!StatusStart
  BY <1>0, <1>9 DEF Snapshot!StatusStart, Snapshot!ReaderStep, Snapshot!readKept,
     Snapshot!daemonVars, Snapshot!stateVars, Snapshot!readVars
<1>10. CASE Snapshot!StatusLoad
  BY <1>0, <1>10 DEF Snapshot!StatusLoad, Snapshot!ReaderStep, Snapshot!readKept,
     Snapshot!daemonVars, Snapshot!stateVars, Snapshot!readVars
<1>11. CASE Snapshot!StatusCopyFirst
  BY <1>0, <1>11 DEF Snapshot!StatusCopyFirst, Snapshot!statusKept, Snapshot!ReaderStep,
     Snapshot!readKept, Snapshot!daemonVars, Snapshot!stateVars, Snapshot!readVars
<1>12. CASE Snapshot!StatusCopyKept
  BY <1>0, <1>12 DEF Snapshot!StatusCopyKept, Snapshot!statusKept, Snapshot!ReaderStep,
     Snapshot!readKept, Snapshot!daemonVars, Snapshot!stateVars, Snapshot!readVars
<1>13. CASE Snapshot!StatusCopyLast
  BY <1>0, <1>13 DEF Snapshot!StatusCopyLast, Snapshot!statusKept, Snapshot!ReaderStep,
     Snapshot!readKept, Snapshot!daemonVars, Snapshot!stateVars, Snapshot!readVars
<1>14. CASE Snapshot!StatusCheck
  BY <1>0, <1>14 DEF Snapshot!StatusCheck, Snapshot!ReaderStep, Snapshot!readKept,
     Snapshot!daemonVars, Snapshot!stateVars, Snapshot!readVars
<1>15. CASE Snapshot!StateStart
  BY <1>0, <1>15 DEF Snapshot!StateStart, Snapshot!ReaderStep, Snapshot!readKept,
     Snapshot!daemonVars, Snapshot!stateVars, Snapshot!readVars
<1>16. CASE Snapshot!StateCopyFirst
  BY <1>0, <1>16 DEF Snapshot!StateCopyFirst, Snapshot!statusKept, Snapshot!ReaderStep,
     Snapshot!readKept, Snapshot!daemonVars, Snapshot!stateVars, Snapshot!readVars
<1>17. CASE Snapshot!StateCopySecond
  BY <1>0, <1>17 DEF Snapshot!StateCopySecond, Snapshot!statusKept, Snapshot!ReaderStep,
     Snapshot!readKept, Snapshot!daemonVars, Snapshot!stateVars, Snapshot!readVars
<1>18. CASE Snapshot!Returns
  BY <1>0, <1>18 DEF Snapshot!Returns, Snapshot!Zero, Snapshot!Words, Snapshot!readKept,
     Snapshot!daemonVars, Snapshot!stateVars, Snapshot!readVars
<1>19. CASE UNCHANGED Snapshot!vars
  BY <1>19 DEF Snapshot!vars, Snapshot!daemonVars, Snapshot!stateVars, Snapshot!readVars
<1> QED
  BY <1>1, <1>2, <1>3, <1>4, <1>5, <1>6, <1>7, <1>8, <1>9, <1>10, <1>11, <1>12, <1>13,
     <1>14, <1>15, <1>16, <1>17, <1>18, <1>19
  DEF Snapshot!Next, Snapshot!Writers, Snapshot!Reads

\* What one step of a reader may conclude, from the invariant.
Whole ==
  /\ Snapshot!ReaderStep("check", "status")
       => got.first = status.first /\ got.last = status.last
  /\ Snapshot!ReaderStep("second", "state") /\ since < 2 => got'.first = got'.last

\* A reader that comes to an answer does so by its own step.
LEMMA AnswersByItself ==
  ASSUME Snapshot!Next
  PROVE  /\ Snapshot!ReaderStep("check", "status") => Snapshot!StatusCheck
         /\ Snapshot!ReaderStep("second", "state") => Snapshot!StateCopySecond
BY DEF Snapshot!Next, Snapshot!Writers, Snapshot!Reads, Snapshot!ReaderStep, Snapshot!Attach,
       Snapshot!CountCommand, Snapshot!PublishStatus, Snapshot!WriteFirst,
       Snapshot!WriteLast, Snapshot!PublishEnd, Snapshot!Detach, Snapshot!PublishState,
       Snapshot!StatusStart, Snapshot!StatusLoad, Snapshot!StatusCopyFirst,
       Snapshot!StatusCopyKept, Snapshot!StatusCopyLast, Snapshot!StatusCheck,
       Snapshot!StateStart, Snapshot!StateCopyFirst, Snapshot!StateCopySecond,
       Snapshot!Returns, Snapshot!publishKept, Snapshot!readVars

LEMMA ReadIsWhole == SnapshotInv /\ [Snapshot!Next]_(Snapshot!vars) => [Whole]_(Snapshot!vars)
<1> SUFFICES ASSUME SnapshotInv, Snapshot!Next PROVE Whole
  OBVIOUS
<1>1. ASSUME Snapshot!ReaderStep("check", "status")
      PROVE  got.first = status.first /\ got.last = status.last
  <2>1. s1 = seq /\ reader = "check"
    BY <1>1, AnswersByItself DEF Snapshot!StatusCheck, Snapshot!ReaderStep
  <2> QED BY <2>1 DEF SnapshotInv, StatusUnderSeq
<1>2. ASSUME Snapshot!ReaderStep("second", "state"), since < 2 PROVE got'.first = got'.last
  <2>1. got' = [got EXCEPT !.last = buffers[slot][2]] /\ reader = "second"
    BY <1>2, AnswersByItself DEF Snapshot!StateCopySecond, Snapshot!ReaderStep
  <2>2. got.first = buffers[slot][1] /\ slot \in {0, 1}
    BY <1>2, <2>1 DEF SnapshotInv, StateInSlot
  <2>3. got'.first = got.first /\ got'.last = buffers[slot][2]
    BY <2>1 DEF SnapshotInv, StateInSlot
  <2> QED BY <2>2, <2>3 DEF SnapshotInv, StateInSlot
<1> QED BY <1>1, <1>2 DEF Whole

\* A caller of db_read_status that leaves the loop on two equal counts has the daemon's
\* words as they stand, with nothing of a publication under way or of a detach in
\* them, although commands, attaches and published states write the words between
\* them outside the counter; a caller of db_read_state whose buffer was overtaken at
\* most once has one publication whole.  For any number of publications.  A caller
\* that leaves the loop by `continue' has no such promise (StatusOfOnePiece).
THEOREM SnapshotsAreWhole == DriveSpec => SnapshotsWhole
<1>1. DriveInit => SnapshotInv
  BY SnapshotInit DEF DriveInit
<1>2. [DriveNext]_allVars => [Snapshot!Next]_(Snapshot!vars)
  BY DEF DriveNext, allVars, InRing, InSnapshot, InDaemon, InSensor, snapshotVars, Snapshot!vars,
     Snapshot!daemonVars, Snapshot!stateVars, Snapshot!readVars
<1>3. SnapshotInv /\ [Snapshot!Next]_(Snapshot!vars) => SnapshotInv'
  BY StatusStep, StateStep DEF SnapshotInv
<1>4. SnapshotInv /\ [Snapshot!Next]_(Snapshot!vars) => [Whole]_(Snapshot!vars)
  BY ReadIsWhole
<1> QED BY <1>1, <1>2, <1>3, <1>4, PTL
        DEF DriveSpec, SnapshotsWhole, Snapshot!SnapshotsWhole, Whole

\* What is proved of the ring alone holds of it here.
THEOREM DriveBehavesAsRing == DriveSpec => Spec
<1>1. DriveInit => Init
  BY DEF DriveInit
<1>2. [DriveNext]_allVars => [Next]_vars
  BY DEF DriveNext, allVars, InRing, InSnapshot, InDaemon, InSensor
<1> QED BY <1>1, <1>2, PTL DEF DriveSpec, Spec

-----------------------------------------------------------------------------
(* The daemon.  What DrivebaseDaemonProofs proves of a daemon alone holds of *)
(* it here: a step of Drivebase is one of the daemon or leaves it alone.     *)

DaemonOf == INSTANCE DrivebaseDaemonProofs WITH
  state <- dState, running <- dRunning, posted <- dPosted, shell <- dShell,
  starts <- dStarts, task <- dTask, settingsFrozen <- dSettings,
  initialised <- dInitialised, attached <- dAttached, rt <- dRt, frozen <- dFrozen,
  rtIdle <- dRtIdle, pending <- dPending, stale <- dStale, phantom <- dPhantom,
  misses <- dMisses, lastMisses <- dLastMisses, consecutive <- dConsecutive,
  streak <- dStreak

LEMMA DaemonAssumed == DaemonOf!DaemonAssumption
BY DrivebaseAssumption DEF DaemonOf!DaemonAssumption, Daemon!DaemonAssumption

LEMMA DaemonBehaves == DriveSpec => DaemonOf!Spec
<1>1. DriveInit => DaemonOf!Init
  BY DEF DriveInit, Daemon!Init, DaemonOf!Init, Daemon!Tasks, DaemonOf!Tasks
<1>2. [DriveNext]_allVars => [DaemonOf!Next]_(DaemonOf!vars)
  <2>1. Daemon!Next => DaemonOf!Next
    BY DEF Daemon!Next, DaemonOf!Next,
       Daemon!lifeVars, DaemonOf!lifeVars, Daemon!freezeVars, DaemonOf!freezeVars,
       Daemon!stallVars, DaemonOf!stallVars, Daemon!Tasks, DaemonOf!Tasks,
       Daemon!StartCheck, DaemonOf!StartCheck, Daemon!StartCreate,
       DaemonOf!StartCreate, Daemon!StartReturns, DaemonOf!StartReturns,
       Daemon!StopRequest, DaemonOf!StopRequest, Daemon!StopReturns,
       DaemonOf!StopReturns, Daemon!Shell, DaemonOf!Shell, Daemon!At, DaemonOf!At,
       Daemon!NoFreeze, DaemonOf!NoFreeze, Daemon!LoadSettings,
       DaemonOf!LoadSettings, Daemon!Initialise, DaemonOf!Initialise,
       Daemon!ProbeMotors, DaemonOf!ProbeMotors, Daemon!AttachHandler,
       DaemonOf!AttachHandler, Daemon!LaunchRt, DaemonOf!LaunchRt, Daemon!EnterLoop,
       DaemonOf!EnterLoop, Daemon!BeginPass, DaemonOf!BeginPass, Daemon!NothingLost,
       DaemonOf!NothingLost, Daemon!Report, DaemonOf!Report, Daemon!LeaveLoop,
       DaemonOf!LeaveLoop, Daemon!WithdrawAck, DaemonOf!WithdrawAck,
       Daemon!RaiseFreeze, DaemonOf!RaiseFreeze, Daemon!Acknowledged,
       DaemonOf!Acknowledged, Daemon!AckTimeout, DaemonOf!AckTimeout,
       Daemon!Reclaim, DaemonOf!Reclaim, Daemon!Rebase, DaemonOf!Rebase,
       Daemon!Thaw, DaemonOf!Thaw, Daemon!JoinRt, DaemonOf!JoinRt,
       Daemon!DetachHandler, DaemonOf!DetachHandler, Daemon!CloseMotors,
       DaemonOf!CloseMotors, Daemon!UndoStart, DaemonOf!UndoStart,
       Daemon!ReportStopped, DaemonOf!ReportStopped, Daemon!PostTeardown,
       DaemonOf!PostTeardown, Daemon!Task, DaemonOf!Task, Daemon!Capped,
       DaemonOf!Capped, Daemon!Wake, DaemonOf!Wake, Daemon!Gate, DaemonOf!Gate,
       Daemon!Tick, DaemonOf!Tick, Daemon!Rt, DaemonOf!Rt, Daemon!PortLost,
       DaemonOf!PortLost
  <2> QED
    BY <2>1 DEF DriveNext, allVars, InRing, InSnapshot, InDaemon, InSensor, daemonVars, DaemonOf!vars,
       DaemonOf!lifeVars, DaemonOf!freezeVars, DaemonOf!stallVars
<1> QED BY <1>1, <1>2, PTL DEF DriveSpec, DaemonOf!Spec

\* Every variable of the daemon keeps its type, for any number of daemons started: among
\* them teardown_done, which each task posts once, when it ends.
THEOREM DaemonTypesHold == DriveSpec => []DaemonTypeOK
<1>1. DriveSpec => []DaemonOf!TypeOK
  BY DaemonAssumed, DaemonBehaves, DaemonOf!DaemonTypesCorrect, PTL
<1>2. DaemonOf!TypeOK => DaemonTypeOK
  BY DEF DaemonOf!TypeOK, DaemonTypeOK, Daemon!TypeOK, Daemon!Tasks, DaemonOf!Tasks,
         Daemon!TaskPoints, DaemonOf!TaskPoints
<1> QED BY <1>1, <1>2, PTL

\* While ports are reopened and the controllers reset, no tick runs, however the
\* acknowledgements of earlier, timed-out freezes arrive (daemon_try_reclaim).
THEOREM FreezeIsExclusive == DriveSpec => []ReclaimExclusive
<1>1. DriveSpec => []DaemonOf!ReclaimExclusive
  BY DaemonAssumed, DaemonBehaves, DaemonOf!FreezeExcludesTicks, PTL
<1>2. DaemonOf!ReclaimExclusive => ReclaimExclusive
  BY DEF DaemonOf!ReclaimExclusive, ReclaimExclusive, Daemon!ReclaimExclusive,
         Daemon!Tasks, DaemonOf!Tasks
<1> QED BY <1>1, <1>2, PTL

\* A tick that is not told of a lost port never uses an encoder baseline from before a
\* reopening (db_drivebase_reset under the freeze).
THEOREM BaselineIsFresh == DriveSpec => []DrivesOnFreshBaseline
<1>1. DriveSpec => []DaemonOf!DrivesOnFreshBaseline
  BY DaemonAssumed, DaemonBehaves, DaemonOf!BaselineAfterReopening, PTL
<1>2. DaemonOf!DrivesOnFreshBaseline => DrivesOnFreshBaseline
  BY DEF DaemonOf!DrivesOnFreshBaseline, DrivesOnFreshBaseline,
         Daemon!DrivesOnFreshBaseline
<1> QED BY <1>1, <1>2, PTL

\* The RT thread lives inside the frozen settings, the open motors and the attachment,
\* also across the tail of an older daemon (daemon_task_main).
THEOREM RtIsContained == DriveSpec => []RtContained
<1>1. DriveSpec => []DaemonOf!RtContained
  BY DaemonAssumed, DaemonBehaves, DaemonOf!RtInsideAttachment, PTL
<1>2. DaemonOf!RtContained => RtContained
  BY DEF DaemonOf!RtContained, RtContained, Daemon!RtContained
<1> QED BY <1>1, <1>2, PTL

-----------------------------------------------------------------------------
(* The claims.  What LegoSensorProofs proves of the sensor driver alone holds *)
(* of it here in the same way.                                               *)

SensorOf == INSTANCE LegoSensorProofs WITH
  Devices <- Sensors, thread <- sThread, device <- sDevice, target <- sTarget,
  syncs <- sSyncs, bound <- sBound, bindGen <- sBindGen, owner <- sOwner,
  claimGen <- sClaimGen, topic <- sTopic, opens <- sOpens, open <- sOpen,
  writing <- sWriting, granted <- sGranted, claimed <- sClaimed

LEMMA SensorAssumed == SensorOf!SensorAssumption
BY DrivebaseAssumption DEF SensorOf!SensorAssumption, Sensor!SensorAssumption,
   SensorOf!NoDevice, Sensor!NoDevice, SensorOf!NoFd, Sensor!NoFd

\* The two instances classify alike.
LEMMA SensorClasses ==
  /\ \A d \in Sensors, p \in Ports : Sensor!Classify(d, p) = SensorOf!Classify(d, p)
  /\ Sensor!Classes = SensorOf!Classes
BY DEF Sensor!Classify, SensorOf!Classify, Sensor!Classes, SensorOf!Classes,
   Sensor!NoClass, SensorOf!NoClass

LEMMA SensorBehaves == DriveSpec => SensorOf!Spec
<1>1. DriveInit => SensorOf!Init
  BY SensorClasses
     DEF DriveInit, Sensor!Init, SensorOf!Init, Sensor!NoPort, SensorOf!NoPort,
         Sensor!NoClass, SensorOf!NoClass, Sensor!NoFd, SensorOf!NoFd, Sensor!NoDevice,
         SensorOf!NoDevice, Sensor!NoGrant, SensorOf!NoGrant, Sensor!Nothing,
         SensorOf!Nothing, Sensor!Gone, SensorOf!Gone
<1>2. [DriveNext]_allVars => [SensorOf!Next]_(SensorOf!vars)
  <2>1. ASSUME NEW p \in Ports, NEW d \in Sensors, Sensor!Sync(p, d)
        PROVE  SensorOf!Sync(p, d)
    BY <2>1, SensorClasses DEF Sensor!Sync, SensorOf!Sync, Sensor!At, SensorOf!At,
       Sensor!Nothing, SensorOf!Nothing, Sensor!classVars, SensorOf!classVars,
       Sensor!fdVars, SensorOf!fdVars, Sensor!NoClass, SensorOf!NoClass, Sensor!NoPort,
       SensorOf!NoPort
  <2>2. ASSUME NEW p \in Ports, Sensor!Run(p)
        PROVE  SensorOf!Run(p)
    BY <2>2, SensorClasses DEF Sensor!Run, SensorOf!Run, Sensor!TryBind, SensorOf!TryBind,
       Sensor!AnnounceDisplaced, SensorOf!AnnounceDisplaced, Sensor!Announce,
       SensorOf!Announce, Sensor!LookUp, SensorOf!LookUp, Sensor!PushData,
       SensorOf!PushData, Sensor!PushGone, SensorOf!PushGone, Sensor!At, SensorOf!At,
       Sensor!Rebound, SensorOf!Rebound, Sensor!Nothing, SensorOf!Nothing, Sensor!Live,
       SensorOf!Live, Sensor!Gone, SensorOf!Gone, Sensor!NoClass, SensorOf!NoClass,
       Sensor!NoPort, SensorOf!NoPort, Sensor!NoDevice, SensorOf!NoDevice,
       Sensor!classVars, SensorOf!classVars, Sensor!fdVars, SensorOf!fdVars
  <2>3. ASSUME NEW p \in Ports, Sensor!Unbind(p)
        PROVE  SensorOf!Unbind(p)
    BY <2>3, SensorClasses DEF Sensor!Unbind, SensorOf!Unbind, Sensor!At, SensorOf!At,
       Sensor!Rebound, SensorOf!Rebound, Sensor!Nothing, SensorOf!Nothing, Sensor!NoClass,
       SensorOf!NoClass, Sensor!NoPort, SensorOf!NoPort, Sensor!fdVars, SensorOf!fdVars
  <2>4. ASSUME NEW f \in Fds,
               \/ \E c \in Sensor!Classes : Sensor!Open(f, c)
               \/ Sensor!Claim(f) \/ Sensor!Release(f) \/ Sensor!Close(f)
               \/ Sensor!CheckWrite(f) \/ Sensor!Write(f)
        PROVE  \/ \E c \in SensorOf!Classes : SensorOf!Open(f, c)
               \/ SensorOf!Claim(f) \/ SensorOf!Release(f) \/ SensorOf!Close(f)
               \/ SensorOf!CheckWrite(f) \/ SensorOf!Write(f)
    BY <2>4, SensorClasses DEF Sensor!Open, SensorOf!Open, Sensor!Claim, SensorOf!Claim,
       Sensor!Release, SensorOf!Release, Sensor!Close, SensorOf!Close, Sensor!CheckWrite,
       SensorOf!CheckWrite, Sensor!Write, SensorOf!Write, Sensor!Valid, SensorOf!Valid,
       Sensor!GiveUp, SensorOf!GiveUp, Sensor!NoPort, SensorOf!NoPort, Sensor!NoClass,
       SensorOf!NoClass, Sensor!NoFd, SensorOf!NoFd, Sensor!NoGrant, SensorOf!NoGrant,
       Sensor!portVars, SensorOf!portVars, Sensor!classVars, SensorOf!classVars
  <2>5. Sensor!Next => SensorOf!Next
    BY <2>1, <2>2, <2>3, <2>4 DEF Sensor!Next, SensorOf!Next
  <2> QED
    BY <2>5 DEF DriveNext, allVars, InRing, InSnapshot, InDaemon, InSensor, sensorVars,
       SensorOf!vars
<1> QED BY <1>1, <1>2, PTL DEF DriveSpec, SensorOf!Spec

\* The tables of the sensor driver keep their types, for any ports and descriptors.
THEOREM SensorTypesHold == DriveSpec => []SensorTypeOK
<1>1. DriveSpec => []SensorOf!TypeOK
  BY SensorAssumed, SensorBehaves, SensorOf!SensorTypeCorrect, PTL
<1>2. SensorOf!TypeOK => SensorTypeOK
  BY SensorClasses
     DEF SensorOf!TypeOK, SensorTypeOK, Sensor!TypeOK, Sensor!Steps, SensorOf!Steps,
         Sensor!AnyPort, SensorOf!AnyPort, Sensor!NoPort, SensorOf!NoPort,
         Sensor!NoClass, SensorOf!NoClass, Sensor!NoFd, SensorOf!NoFd, Sensor!NoDevice,
         SensorOf!NoDevice, Sensor!NoGrant, SensorOf!NoGrant
<1> QED BY <1>1, <1>2, PTL

\* A class is only bound to a port in a session, of a device of that class, however the
\* callbacks of several ports interleave (legosensor_try_bind, legosensor_unbind).
THEOREM BindingsHold == DriveSpec => []BoundIsSynced
<1>1. DriveSpec => []SensorOf!BoundIsSynced
  BY SensorAssumed, SensorBehaves, SensorOf!BindingsAreLive, PTL
<1>2. SensorOf!BoundIsSynced => BoundIsSynced
  BY DEF SensorOf!BoundIsSynced, BoundIsSynced, Sensor!BoundIsSynced, Sensor!Classes,
         SensorOf!Classes, Sensor!Classify, SensorOf!Classify, Sensor!NoClass,
         SensorOf!NoClass
<1> QED BY <1>1, <1>2, PTL

\* Two descriptors never both hold the current claim of a class (LEGOSENSOR_CLAIM).
THEOREM ClaimsHold == DriveSpec => []ClaimExclusive
<1>1. DriveSpec => []SensorOf!ClaimExclusive
  BY SensorAssumed, SensorBehaves, SensorOf!ClaimsExclude, PTL
<1>2. SensorOf!ClaimExclusive => ClaimExclusive
  BY DEF SensorOf!ClaimExclusive, ClaimExclusive, Sensor!ClaimExclusive,
         Sensor!NoClass, SensorOf!NoClass
<1> QED BY <1>1, <1>2, PTL

\* A write reaches the port its claim was granted for, although it acts after the lock
\* is released (legosensor_check_write_claim).
THEOREM WritesHold == DriveSpec => []WritesHitClaimedPort
<1>1. DriveSpec => []SensorOf!WritesHitClaimedPort
  BY SensorAssumed, SensorBehaves, SensorOf!WritesAreClaimed, PTL
<1>2. SensorOf!WritesHitClaimedPort => WritesHitClaimedPort
  BY DEF SensorOf!WritesHitClaimedPort, WritesHitClaimedPort,
         Sensor!WritesHitClaimedPort, Sensor!NoPort, SensorOf!NoPort
<1> QED BY <1>1, <1>2, PTL
=============================================================================
