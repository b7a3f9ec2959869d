------------------------- MODULE DrivebaseIpcProofs -------------------------
(***************************************************************************)
(* Theorems about the command path, for any number of callers, any ring    *)
(* size and any bounds: types and the watchdog first, then that a STOP     *)
(* supersedes what was commanded before it, where one caller issues STOP   *)
(* and a tick drains the ring.                                             *)
(*                                                                         *)
(* StopSupersedes speaks of the motors between two ticks.  It holds        *)
(* because the STOPs in the ring carry rising epochs above                 *)
(* output_epoch_seen, because a STOP that returned is still in the ring    *)
(* until it is seen, and because a tick that found it in the ring reaches  *)
(* it before its drain is used up.                                         *)
(***************************************************************************)
EXTENDS DrivebaseIpc, TLAPS, SequenceTheorems, WellFoundedInduction

-----------------------------------------------------------------------------
(* Facts about the queueing policy *)

\* RemoveAt closes the gap and keeps everything else in place.
LEMMA RemoveAtProperties ==
  ASSUME NEW S, NEW q \in Seq(S), NEW i \in 1..Len(q)
  PROVE  /\ RemoveAt(q, i) \in Seq(S)
         /\ Len(RemoveAt(q, i)) = Len(q) - 1
         /\ \A j \in 1..(Len(q) - 1) :
              RemoveAt(q, i)[j] = IF j < i THEN q[j] ELSE q[j + 1]
<1> DEFINE a == SubSeq(q, 1, i - 1)
           b == SubSeq(q, i + 1, Len(q))
<1>1. Len(q) \in Nat /\ \A j \in 1..Len(q) : q[j] \in S
  BY LenProperties, ElementOfSeq
<1>2. a \in Seq(S) /\ Len(a) = i - 1 /\ \A j \in 1..(i - 1) : a[j] = q[j]
  <2>1. \A j \in 1..(i - 1) : q[j] \in S
    BY <1>1
  <2> QED BY <2>1, <1>1, SubSeqProperties
<1>3. b \in Seq(S) /\ Len(b) = Len(q) - i
        /\ \A j \in 1..(Len(q) - i) : b[j] = q[i + j]
  <2>1. \A j \in (i + 1)..Len(q) : q[j] \in S
    BY <1>1
  <2> QED BY <2>1, <1>1, SubSeqProperties
<1> HIDE DEF a, b
<1>4. RemoveAt(q, i) = a \o b
  BY DEF RemoveAt, a, b
<1>5. a \o b \in Seq(S) /\ Len(a \o b) = Len(q) - 1
  <2>1. a \o b \in Seq(S) /\ Len(a \o b) = Len(a) + Len(b)
    BY <1>2, <1>3, ConcatProperties
  <2> QED BY <2>1, <1>1, <1>2, <1>3
<1>6. ASSUME NEW j \in 1..(Len(q) - 1)
      PROVE  (a \o b)[j] = IF j < i THEN q[j] ELSE q[j + 1]
  <2>1. CASE j < i
    BY <2>1, <1>1, <1>2, <1>3, <1>6, ConcatProperties
  <2>2. CASE ~(j < i)
    <3>1. (a \o b)[j] = b[j - (i - 1)]
      BY <2>2, <1>1, <1>2, <1>3, <1>6, ConcatProperties
    <3>2. j - (i - 1) \in 1..(Len(q) - i) /\ i + (j - (i - 1)) = j + 1
      BY <2>2, <1>1, <1>6
    <3> QED BY <3>1, <3>2, <2>2, <1>3
  <2> QED BY <2>1, <2>2
<1> QED BY <1>4, <1>5, <1>6

\* A queue that holds a verb holds an oldest one.
LEMMA OldestVerbExists ==
  ASSUME NEW q, Len(q) \in Nat, NEW n \in 1..Len(q), q[n].kind # Stop
  PROVE  /\ OldestVerb(q) \in 1..Len(q)
         /\ q[OldestVerb(q)].kind # Stop
<1> DEFINE V == {i \in 1..Len(q) : q[i].kind # Stop}
           R == OpToRel(<, Nat)
<1>1. V \subseteq Nat /\ V # {}
  OBVIOUS
<1>2. IsWellFoundedOn(R, Nat)
  BY NatLessThanWellFounded
<1> HIDE DEF R
<1>3. \E m \in V : \A j \in V : ~ (<<j, m>> \in R)
  BY <1>1, <1>2, WFMin
<1>4. PICK m \in V : \A j \in V : ~ (<<j, m>> \in R)
  BY <1>3
<1>5. \A j \in V : ~ (j < m)
  BY <1>1, <1>4 DEF R, OpToRel
<1>6. \A j \in 1..(m - 1) : q[j].kind = Stop
  BY <1>5
<1>7. \E i \in 1..Len(q) : q[i].kind # Stop /\ \A j \in 1..(i - 1) : q[j].kind = Stop
  BY <1>6
<1> QED BY <1>7 DEF OldestVerb

\* A queue that is full and whose newest envelope is not a STOP loses a verb
\* to make room: WithStop yields a queue within the capacity.
LEMMA WithStopType ==
  ASSUME NEW S, NEW q \in Seq(S), NEW c \in Nat, c >= 1, Len(q) <= c, NEW env \in S
  PROVE  WithStop(q, c, env) \in Seq(S) /\ Len(WithStop(q, c, env)) <= c
<1>1. Len(q) \in Nat
  BY LenProperties
<1>2. CASE NewestIsStop(q)
  <2>1. Len(q) \in 1..Len(q)
    BY <1>1, <1>2, EmptySeq DEF NewestIsStop
  <2>2. [q EXCEPT ![Len(q)] = env] \in Seq(S)
          /\ Len([q EXCEPT ![Len(q)] = env]) = Len(q)
    BY <2>1, ExceptSeq
  <2> QED BY <1>2, <2>2 DEF WithStop
<1>3. CASE ~NewestIsStop(q) /\ Len(q) = c
  <2>1. Len(q) \in 1..Len(q) /\ q[Len(q)].kind # Stop
    BY <1>1, <1>3, EmptySeq DEF NewestIsStop
  <2>2. OldestVerb(q) \in 1..Len(q)
    BY <1>1, <2>1, OldestVerbExists
  <2>3. WithoutOldestVerb(q) \in Seq(S) /\ Len(WithoutOldestVerb(q)) = c - 1
    BY <1>3, <2>2, RemoveAtProperties DEF WithoutOldestVerb
  <2>4. /\ Append(WithoutOldestVerb(q), env) \in Seq(S)
        /\ Len(Append(WithoutOldestVerb(q), env)) = c
    BY <2>3, AppendProperties
  <2> QED BY <1>3, <2>4 DEF WithStop
<1>4. CASE ~NewestIsStop(q) /\ Len(q) # c
  <2>1. Append(q, env) \in Seq(S) /\ Len(Append(q, env)) = Len(q) + 1
    BY AppendProperties
  <2> QED BY <1>1, <1>4, <2>1 DEF WithStop
<1> QED BY <1>2, <1>3, <1>4

-----------------------------------------------------------------------------
(* Type correctness and the watchdog *)

\* TypeOK is not inductive: that a pickup stays within Drain depends on where
\* the daemon is.
DrainBound == dpc \in {"pickup", "popping"} => drained < Drain

WInv == TypeOK /\ DrainBound /\ WatchdogCovers

LEMMA NumbersAreNat ==
  /\ Capacity \in Nat /\ Capacity >= 1
  /\ Drain \in Nat /\ Drain >= 1
  /\ MaxCalls \in Nat /\ MaxGen \in Nat
BY CapacityAssumption, DrainAssumption, BoundsAssumption

LEMMA RestType ==
  /\ \A p \in Policies \cup {"coast", "brake"} : Rest(p) \in Motions
  /\ \A e \in Nat : Driving(e) \in Motions
  /\ \A p \in Policies : Emergency(p) \in Motions
BY DEF Rest, Driving, Emergency, Motions, Epochs

LEMMA WInvInit == Init => WInv
<1> SUFFICES ASSUME Init PROVE WInv
  OBVIOUS
<1>1. <<>> \in Seq(Envelopes) /\ Len(<<>>) = 0
  BY EmptySeq
<1>2. NoCall \in Calls
  BY PoliciesAssumption DEF NoCall, Calls, Epochs
<1>3. TypeOK
  <2>1. ring \in Seq(Envelopes) /\ Len(ring) <= Capacity
    BY <1>1, NumbersAreNat DEF Init
  <2>2. call \in [Users -> Calls]
    BY <1>2 DEF Init
  <2>3. motion \in Motions /\ motor \in Motions /\ policy \in Policies
    BY RestType, PoliciesAssumption DEF Init
  <2>4. /\ epoch \in Epochs /\ seen \in Epochs /\ acked \in Epochs /\ mark \in Epochs
        /\ age \in 0..StaleAge /\ calls \in 0..MaxCalls /\ drained \in 0..Drain
        /\ gen \in 0..MaxGen
    BY NumbersAreNat DEF Init, Epochs, StaleAge
  <2>5. /\ attached \in BOOLEAN /\ rearming \in BOOLEAN
        /\ timer \in {"off", "armed", "due"} /\ dpc \in DaemonSteps
    BY DEF Init, DaemonSteps
  <2> QED BY <2>1, <2>2, <2>3, <2>4, <2>5 DEF TypeOK
<1> QED BY <1>3 DEF Init, WInv, DrainBound, WatchdogCovers

\* The steps of a call.
LEMMA UserStepType ==
  ASSUME WInv, NEW u \in Users, UserStep(u)
  PROVE  WInv'
<1>0. /\ TypeOK /\ DrainBound /\ WatchdogCovers
      /\ call \in [Users -> Calls] /\ call[u] \in Calls
      /\ NoCall \in Calls
  BY PoliciesAssumption DEF WInv, TypeOK, NoCall, Calls, Epochs
<1>1. ASSUME NEW k \in Verbs \cup {Stop}, NEW p \in Policies, Begin(u, k, p)
      PROVE  WInv'
  <2>1. [at |-> "checked", kind |-> k, epoch |-> 0, policy |-> p] \in Calls
    BY DEF Calls, Epochs
  <2>2. call' \in [Users -> Calls]
    BY <1>0, <1>1, <2>1 DEF Begin
  <2>3. calls' \in 0..MaxCalls
    BY <1>0, <1>1, NumbersAreNat DEF Begin, TypeOK
  <2> QED BY <1>0, <1>1, <2>2, <2>3
          DEF Begin, WInv, TypeOK, DrainBound, WatchdogCovers, kernelVars,
              daemonVars
<1>2. CASE LoadEpoch(u)
  <2>1. [call[u] EXCEPT !.at = "loaded", !.epoch = epoch] \in Calls
    BY <1>0 DEF Calls, TypeOK
  <2>2. call' = [call EXCEPT ![u] = [call[u] EXCEPT !.at = "loaded", !.epoch = epoch]]
    BY <1>0, <1>2 DEF LoadEpoch
  <2>3. call' \in [Users -> Calls]
    BY <1>0, <2>1, <2>2
  <2> QED BY <1>0, <1>2, <2>3
          DEF LoadEpoch, WInv, TypeOK, DrainBound, WatchdogCovers, kernelVars,
              daemonVars
<1>3. CASE PushVerb(u)
  <2>1. Env(call[u].kind, call[u].epoch, call[u].policy) \in Envelopes
    BY <1>0 DEF Calls, Env, Envelopes
  <2>2. ring' \in Seq(Envelopes) /\ Len(ring') <= Capacity
    <3>1. ring \in Seq(Envelopes) /\ Len(ring) \in Nat /\ Len(ring) <= Capacity
      BY <1>0, LenProperties DEF TypeOK
    <3> DEFINE r == Append(ring, Env(call[u].kind, call[u].epoch, call[u].policy))
    <3>2. r \in Seq(Envelopes) /\ Len(r) = Len(ring) + 1
      BY <2>1, <3>1, AppendProperties
    <3>3. (ring' = r /\ Len(ring) < Capacity) \/ ring' = ring
      BY <1>3 DEF PushVerb, HasRoom
    <3> HIDE DEF r
    <3> QED BY <3>1, <3>2, <3>3, NumbersAreNat
  <2>3. call' \in [Users -> Calls]
    BY <1>0, <1>3 DEF PushVerb
  <2> QED BY <1>0, <1>3, <2>2, <2>3
          DEF PushVerb, WInv, TypeOK, DrainBound, WatchdogCovers, kernelVars,
              daemonVars
<1>4. CASE BumpEpoch(u)
  <2>0. epoch + 1 \in Epochs
    BY <1>0 DEF TypeOK, Epochs
  <2>1. [call[u] EXCEPT !.at = "bumped", !.epoch = epoch + 1] \in Calls
    BY <1>0, <2>0 DEF Calls
  <2>2. call' = [call EXCEPT ![u] = [call[u] EXCEPT !.at = "bumped", !.epoch = epoch + 1]]
    BY <1>0, <1>4 DEF BumpEpoch
  <2>3. call' \in [Users -> Calls] /\ epoch' \in Epochs
    BY <1>0, <1>4, <2>0, <2>1, <2>2 DEF BumpEpoch
  <2> QED BY <1>0, <1>4, <2>3
          DEF BumpEpoch, WInv, TypeOK, DrainBound, WatchdogCovers, daemonVars
<1>5. CASE ActuateStop(u)
  <2>1. [call[u] EXCEPT !.at = "actuated"] \in Calls
    BY <1>0 DEF Calls
  <2>2. call' = [call EXCEPT ![u] = [call[u] EXCEPT !.at = "actuated"]]
    BY <1>0, <1>5 DEF ActuateStop, Step
  <2>3. call' \in [Users -> Calls]
    BY <1>0, <2>1, <2>2
  <2>4. call[u].policy \in Policies
    BY <1>0 DEF Calls
  <2>5. motor' \in Motions /\ policy' \in Policies
    BY <1>0, <1>5, <2>4, RestType DEF ActuateStop, TypeOK
  <2> QED BY <1>0, <1>5, <2>3, <2>5
          DEF ActuateStop, WInv, TypeOK, DrainBound, WatchdogCovers, daemonVars
<1>6. CASE PushStop(u)
  <2>1. Env(Stop, call[u].epoch, call[u].policy) \in Envelopes /\ call[u].epoch \in Epochs
    BY <1>0 DEF Calls, Env, Envelopes
  <2>2. ring' \in Seq(Envelopes) /\ Len(ring') <= Capacity
    BY <1>0, <1>6, <2>1, NumbersAreNat, WithStopType DEF PushStop, AfterStop, TypeOK
  <2>3. call' \in [Users -> Calls]
    BY <1>0, <1>6 DEF PushStop
  <2>4. acked' \in Epochs
    BY <1>0, <1>6, <2>1 DEF PushStop, TypeOK
  <2> QED BY <1>0, <1>6, <2>2, <2>3, <2>4
          DEF PushStop, WInv, TypeOK, DrainBound, WatchdogCovers, kernelVars,
              daemonVars
<1>7. "coast" \in Policies
  BY PoliciesAssumption
<1> QED BY <1>1, <1>2, <1>3, <1>4, <1>5, <1>6, <1>7 DEF UserStep

\* What a detach, or none, leaves of the kernel's state.
KernelType ==
  /\ epoch \in Epochs /\ acked \in Epochs
  /\ attached \in BOOLEAN /\ policy \in Policies
  /\ age \in 0..StaleAge /\ timer \in {"off", "armed", "due"}

LEMMA DetachedType ==
  ASSUME TypeOK, Detached \/ UNCHANGED <<epoch, attached, policy, age, timer, acked>>
  PROVE  KernelType'
<1>1. KernelType
  BY DEF TypeOK, KernelType
<1>2. CASE Detached
  <2>1. attached' \in BOOLEAN /\ timer' \in {"off", "armed", "due"}
    BY <1>2 DEF Detached
  <2>2. age' \in 0..StaleAge /\ acked' \in Epochs
    BY <1>2 DEF Detached, StaleAge, Epochs
  <2>3. epoch' \in Epochs /\ policy' \in Policies
    BY <1>1, <1>2 DEF Detached, KernelType
  <2> QED BY <2>1, <2>2, <2>3 DEF KernelType
<1>3. CASE UNCHANGED <<epoch, attached, policy, age, timer, acked>>
  BY <1>1, <1>3 DEF KernelType
<1> QED BY <1>2, <1>3

\* The steps of the daemon.
LEMMA DaemonStepType ==
  ASSUME WInv, DaemonStep
  PROVE  WInv'
<1>0. /\ TypeOK /\ DrainBound /\ WatchdogCovers
      /\ "coast" \in Policies
  BY PoliciesAssumption DEF WInv
<1>1. CASE Attach
  BY <1>0, <1>1, RestType, NumbersAreNat
  DEF Attach, WInv, TypeOK, DrainBound, WatchdogCovers, Epochs, StaleAge, DaemonSteps
<1>2. CASE Arm
  BY <1>0, <1>2 DEF Arm, WInv, TypeOK, DrainBound, WatchdogCovers, DaemonSteps
<1>3. CASE TickStart
  BY <1>0, <1>3, NumbersAreNat
  DEF TickStart, WInv, TypeOK, DrainBound, WatchdogCovers, kernelVars, DaemonSteps
<1>4. CASE PickupCheck
  BY <1>0, <1>4
  DEF PickupCheck, WInv, TypeOK, DrainBound, WatchdogCovers, kernelVars, DaemonSteps
<1>5. CASE Pickup
  <2>1. Head(ring) \in Envelopes /\ ring' \in Seq(Envelopes) /\ Len(ring') <= Capacity
    BY <1>0, <1>5, HeadTailProperties, LenProperties, NumbersAreNat DEF Pickup, TypeOK
  <2>2. Head(ring).epoch \in Epochs /\ Head(ring).policy \in Policies
    BY <2>1 DEF Envelopes
  <2>3. seen' \in Epochs /\ motion' \in Motions /\ motor' \in Motions
    BY <1>0, <1>5, <2>2, RestType DEF Pickup, Dispatch, TypeOK, Epochs
  <2>4. drained' \in 0..Drain /\ (drained' = Drain \/ drained' < Drain)
    BY <1>0, <1>5, NumbersAreNat DEF Pickup, TypeOK, DrainBound
  <2> QED BY <1>0, <1>5, <2>1, <2>3, <2>4
          DEF Pickup, WInv, TypeOK, DrainBound, WatchdogCovers, kernelVars, DaemonSteps
<1>6. CASE PickupNothing
  BY <1>0, <1>6
  DEF PickupNothing, WInv, TypeOK, DrainBound, WatchdogCovers, kernelVars, DaemonSteps
<1>7. CASE Update
  <2>1. motor' \in Motions /\ motion' \in Motions
    BY <1>0, <1>7, RestType DEF Update, TypeOK
  <2> QED BY <1>0, <1>7, <2>1
          DEF Update, WInv, TypeOK, DrainBound, WatchdogCovers, kernelVars, DaemonSteps
<1>8. CASE Publish
  <2>1. motor' \in Motions /\ age' \in 0..StaleAge
    BY <1>0, <1>8, RestType DEF Publish, TypeOK, StaleAge
  <2> QED BY <1>0, <1>8, <2>1
          DEF Publish, WInv, TypeOK, DrainBound, WatchdogCovers, DaemonSteps
<1>9. CASE TeardownCoast
  BY <1>0, <1>9, RestType
  DEF TeardownCoast, WInv, TypeOK, DrainBound, WatchdogCovers, kernelVars, DaemonSteps
<1>10. CASE Detach
  <2>1. KernelType'
    BY <1>0, <1>10, DetachedType DEF Detach
  <2>2. ~attached'
    BY <1>0, <1>10 DEF Detach, Detached
  <2>3. TypeOK'
    BY <1>0, <1>10, <2>1 DEF Detach, TypeOK, KernelType, DaemonSteps
  <2> QED BY <1>10, <2>2, <2>3 DEF Detach, WInv, DrainBound, WatchdogCovers
<1>11. CASE Crash
  <2>1. motor' \in Motions
    BY <1>0, <1>11, RestType DEF Crash, TypeOK
  <2>2. KernelType'
    BY <1>0, <1>11, DetachedType DEF Crash
  <2>3. ~attached'
    BY <1>0, <1>11 DEF Crash, Detached
  <2>4. TypeOK'
    BY <1>0, <1>11, <2>1, <2>2 DEF Crash, TypeOK, KernelType, DaemonSteps
  <2> QED BY <1>11, <2>3, <2>4 DEF Crash, WInv, DrainBound, WatchdogCovers
<1> QED BY <1>1, <1>2, <1>3, <1>4, <1>5, <1>6, <1>7, <1>8, <1>9, <1>10, <1>11
        DEF DaemonStep

\* The steps of the clock and of the LPWORK thread.
LEMMA WatchdogStepType ==
  ASSUME WInv, Clock \/ WatchdogFire \/ WatchdogRearm
  PROVE  WInv'
<1>0. TypeOK /\ DrainBound /\ WatchdogCovers
  BY DEF WInv
<1>1. CASE Clock
  BY <1>0, <1>1
  DEF Clock, WInv, TypeOK, DrainBound, WatchdogCovers, daemonVars, StaleAge
<1>2. CASE WatchdogFire
  <2>1. motor' \in Motions
    BY <1>0, <1>2, RestType DEF WatchdogFire, TypeOK
  <2>2. KernelType' /\ rearming' \in BOOLEAN
    <3>1. CASE Detached /\ UNCHANGED rearming
      BY <1>0, <3>1, DetachedType DEF TypeOK
    <3>2. ASSUME timer' = "off", rearming' \in {rearming, TRUE},
                 UNCHANGED <<epoch, attached, policy, age, acked>>
          PROVE  KernelType' /\ rearming' \in BOOLEAN
      <4>1. KernelType /\ rearming \in BOOLEAN
        BY <1>0 DEF TypeOK, KernelType
      <4> QED BY <4>1, <3>2 DEF KernelType
    <3> QED BY <1>2, <3>1, <3>2 DEF WatchdogFire
  <2>3. attached' => timer' # "off" \/ rearming'
    BY <1>2 DEF WatchdogFire, Detached
  <2>4. TypeOK'
    BY <1>0, <1>2, <2>1, <2>2 DEF WatchdogFire, TypeOK, KernelType, daemonVars
  <2> QED BY <1>0, <1>2, <2>3, <2>4
          DEF WatchdogFire, WInv, DrainBound, WatchdogCovers, daemonVars
<1>3. CASE WatchdogRearm
  BY <1>0, <1>3
  DEF WatchdogRearm, WInv, TypeOK, DrainBound, WatchdogCovers, daemonVars
<1> QED BY <1>1, <1>2, <1>3

LEMMA WInvStep == WInv /\ [Next]_vars => WInv'
<1> SUFFICES ASSUME WInv, [Next]_vars PROVE WInv'
  OBVIOUS
<1>1. CASE UNCHANGED vars
  BY <1>1 DEF vars, WInv, TypeOK, DrainBound, WatchdogCovers
<1>2. CASE Next
  BY <1>2, UserStepType, DaemonStepType, WatchdogStepType DEF Next
<1> QED BY <1>1, <1>2

\* The state keeps its shape, the ring stays within its slots and a tick within
\* its drain, for any callers, capacity and bounds.
THEOREM IpcTypeCorrect == Spec => []TypeOK
<1>1. WInv => TypeOK
  BY DEF WInv
<1> QED BY <1>1, WInvInit, WInvStep, PTL DEF Spec

\* However attaching, detaching, dying and re-arming interleave, an attached
\* daemon is never left without a watchdog.
THEOREM AttachedIsWatched == Spec => []WatchdogCovers
<1>1. WInv => WatchdogCovers
  BY DEF WInv
<1> QED BY <1>1, WInvInit, WInvStep, PTL DEF Spec

-----------------------------------------------------------------------------
(* A STOP supersedes *)


IsStop(r, i) == i \in 1..Len(r) /\ r[i].kind = Stop

InFlight(u) == call[u].at \in {"bumped", "actuated"}

\* The STOPs of the ring, oldest first, carry rising epochs not yet seen.
StopsRise ==
  /\ \A i, j \in 1..Len(ring) :
       IsStop(ring, i) /\ IsStop(ring, j) /\ i < j => ring[i].epoch < ring[j].epoch
  /\ \A i \in 1..Len(ring) :
       IsStop(ring, i) => seen < ring[i].epoch /\ ring[i].epoch <= epoch
  /\ seen <= epoch /\ acked <= epoch

\* A STOP that has its epoch and is not queued yet is newer than all others.
CallNewest(u) ==
  /\ call[u].at = "loaded" => call[u].kind # Stop
  /\ call[u].at = "checked" /\ call[u].kind = Stop => u \in Stoppers
  /\ InFlight(u) => /\ u \in Stoppers
                    /\ seen < call[u].epoch /\ acked < call[u].epoch
                    /\ call[u].epoch <= epoch
                    /\ \A i \in 1..Len(ring) :
                         IsStop(ring, i) => ring[i].epoch < call[u].epoch

InFlightNewest == \A u \in Users : CallNewest(u)

\* A STOP that returned is seen, or it or a newer one is queued.
AckedQueued ==
  attached /\ acked > seen =>
    \E i \in 1..Len(ring) : IsStop(ring, i) /\ ring[i].epoch >= acked

\* The tick reaches the STOPs that had returned when it began.
MarkReached ==
  attached /\ dpc \in {"pickup", "popping"} /\ mark > seen =>
    \E i \in 1..Len(ring) :
      IsStop(ring, i) /\ ring[i].epoch >= mark /\ i + drained <= Drain

MarkSeen == attached /\ dpc \in {"arming", "update", "publish", "idle"} => mark <= seen

MotionCurrent == motion.kind = "drive" => motion.epoch >= seen

MotorCurrent ==
  attached /\ dpc \in {"arming", "publish", "idle"} /\ motor.kind = "drive"
    => motor.epoch >= mark

QueueParts == StopsRise /\ InFlightNewest /\ AckedQueued
TickParts == MarkReached /\ MarkSeen /\ MotionCurrent /\ MotorCurrent

StopInv == WInv /\ QueueParts /\ TickParts

\* One task issues STOP.
SingleStopper == \A u, v \in Stoppers : u = v

-----------------------------------------------------------------------------
(* The queue after a STOP *)

\* WithStop puts the STOP last, keeps the order of what it keeps, and every
\* STOP that was queued is still there, no farther back, or has been replaced
\* by the new one.
ShapeAfterStop(q, r, env) ==
  /\ Len(r) \in Nat /\ Len(r) >= 1 /\ r[Len(r)] = env
  /\ \A i \in 1..(Len(r) - 1) : \E k \in 1..Len(q) : r[i] = q[k]
  /\ \A i, j \in 1..(Len(r) - 1) :
       i < j => \E k, l \in 1..Len(q) : k < l /\ r[i] = q[k] /\ r[j] = q[l]
  /\ \A k \in 1..Len(q) :
       q[k].kind = Stop => \E i \in 1..Len(r) : i <= k /\ r[i] \in {q[k], env}

LEMMA WithStopShape ==
  ASSUME NEW S, NEW q \in Seq(S), NEW c \in Nat, c >= 1, Len(q) <= c, NEW env \in S
  PROVE  ShapeAfterStop(q, WithStop(q, c, env), env)
<1>1. Len(q) \in Nat
  BY LenProperties
<1>2. CASE NewestIsStop(q)
  <2> DEFINE r == [q EXCEPT ![Len(q)] = env]
  <2>1. Len(q) \in 1..Len(q)
    BY <1>1, <1>2, EmptySeq DEF NewestIsStop
  <2>2. /\ Len(r) = Len(q) /\ r[Len(q)] = env
        /\ \A i \in 1..Len(q) : i # Len(q) => r[i] = q[i]
    BY <2>1, ExceptSeq
  <2>3. WithStop(q, c, env) = r
    BY <1>2 DEF WithStop
  <2> HIDE DEF r
  <2>4. \A i \in 1..(Len(r) - 1) : r[i] = q[i]
    BY <1>1, <2>2
  <2>5. \A k \in 1..Len(q) : r[k] \in {q[k], env}
    BY <2>2
  <2>6. \A k \in 1..Len(q) : \E i \in 1..Len(r) : i <= k /\ r[i] \in {q[k], env}
    BY <1>1, <2>2, <2>5
  <2>7. \A i, j \in 1..(Len(r) - 1) :
          i < j => \E k, l \in 1..Len(q) : k < l /\ r[i] = q[k] /\ r[j] = q[l]
    BY <1>1, <2>2, <2>4
  <2>8. \A i \in 1..(Len(r) - 1) : \E k \in 1..Len(q) : r[i] = q[k]
    BY <1>1, <2>2, <2>4
  <2>9. Len(r) \in Nat /\ Len(r) >= 1 /\ r[Len(r)] = env
    BY <1>1, <2>1, <2>2
  <2>10. ShapeAfterStop(q, r, env)
    BY <2>6, <2>7, <2>8, <2>9 DEF ShapeAfterStop
  <2> QED BY <2>3, <2>10
<1>3. CASE ~NewestIsStop(q) /\ Len(q) = c
  <2> DEFINE v == OldestVerb(q)
             w == RemoveAt(q, v)
             r == Append(w, env)
  <2>1. Len(q) \in 1..Len(q) /\ q[Len(q)].kind # Stop
    BY <1>1, <1>3, EmptySeq DEF NewestIsStop
  <2>2. v \in 1..Len(q) /\ q[v].kind # Stop
    BY <1>1, <2>1, OldestVerbExists
  <2>3. /\ w \in Seq(S) /\ Len(w) = Len(q) - 1
        /\ \A j \in 1..(Len(q) - 1) : w[j] = IF j < v THEN q[j] ELSE q[j + 1]
    BY <2>2, RemoveAtProperties
  <2>4. WithStop(q, c, env) = r
    BY <1>3 DEF WithStop, WithoutOldestVerb
  <2> HIDE DEF v, w
  <2>5. /\ Len(r) = Len(w) + 1 /\ r[Len(w) + 1] = env
        /\ \A i \in 1..Len(w) : r[i] = w[i]
    BY <2>3, AppendProperties
  <2> HIDE DEF r
  <2>6. /\ Len(r) = Len(q) /\ r[Len(q)] = env
        /\ \A i \in 1..(Len(q) - 1) : r[i] = IF i < v THEN q[i] ELSE q[i + 1]
    BY <1>1, <2>3, <2>5
  <2>7. \A i \in 1..(Len(q) - 1) : \E k \in 1..Len(q) : r[i] = q[k]
    BY <1>1, <2>6
  <2>8. ASSUME NEW i \in 1..(Len(q) - 1), NEW j \in 1..(Len(q) - 1), i < j
        PROVE  \E k, l \in 1..Len(q) : k < l /\ r[i] = q[k] /\ r[j] = q[l]
    <3> DEFINE k == IF i < v THEN i ELSE i + 1
               l == IF j < v THEN j ELSE j + 1
    <3>1. r[i] = q[k] /\ r[j] = q[l]
      BY <2>6, <2>8
    <3>2. k \in 1..Len(q) /\ l \in 1..Len(q) /\ k < l
      BY <1>1, <2>2, <2>8
    <3> QED BY <3>1, <3>2
  <2>9. ASSUME NEW k \in 1..Len(q), q[k].kind = Stop
        PROVE  \E i \in 1..Len(r) : i <= k /\ r[i] \in {q[k], env}
    <3>1. k # v
      BY <2>2, <2>9
    <3>2. CASE k < v
      BY <3>2, <1>1, <2>2, <2>6
    <3>3. CASE k > v
      <4>1. k - 1 \in 1..(Len(q) - 1) /\ ~(k - 1 < v) /\ k - 1 + 1 = k
        BY <3>3, <1>1, <2>2
      <4>2. r[k - 1] = q[k]
        BY <4>1, <2>6
      <4> QED BY <4>1, <4>2, <1>1, <2>6
    <3> QED BY <3>1, <3>2, <3>3, <2>2
  <2>10. /\ Len(r) \in Nat /\ Len(r) >= 1 /\ r[Len(r)] = env
         /\ 1..(Len(r) - 1) = 1..(Len(q) - 1)
    BY <1>1, <2>1, <2>3, <2>5, <2>6
  <2>11. \A i, j \in 1..(Len(r) - 1) :
           i < j => \E k, l \in 1..Len(q) : k < l /\ r[i] = q[k] /\ r[j] = q[l]
    <3> SUFFICES ASSUME NEW i \in 1..(Len(r) - 1), NEW j \in 1..(Len(r) - 1), i < j
                 PROVE  \E k, l \in 1..Len(q) : k < l /\ r[i] = q[k] /\ r[j] = q[l]
      OBVIOUS
    <3>1. i \in 1..(Len(q) - 1) /\ j \in 1..(Len(q) - 1)
      BY <2>10, Zenon
    <3> QED BY <3>1, <2>8, Zenon
  <2>12. ShapeAfterStop(q, r, env)
    <3>1. \A i \in 1..(Len(r) - 1) : \E k \in 1..Len(q) : r[i] = q[k]
      BY <2>7, <2>10, Zenon
    <3> QED BY <3>1, <2>9, <2>10, <2>11, Zenon DEF ShapeAfterStop
  <2> QED BY <2>4, <2>12
<1>4. CASE ~NewestIsStop(q) /\ Len(q) # c
  <2> DEFINE r == Append(q, env)
  <2>1. /\ Len(r) = Len(q) + 1 /\ r[Len(q) + 1] = env
        /\ \A i \in 1..Len(q) : r[i] = q[i]
    BY AppendProperties
  <2>2. WithStop(q, c, env) = r
    BY <1>4 DEF WithStop
  <2> HIDE DEF r
  <2>3. \A i \in 1..(Len(r) - 1) : i \in 1..Len(q) /\ r[i] = q[i]
    BY <1>1, <2>1
  <2>4. \A k \in 1..Len(q) : k \in 1..Len(r) /\ r[k] = q[k]
    BY <1>1, <2>1
  <2> QED BY <1>1, <2>1, <2>2, <2>3, <2>4 DEF ShapeAfterStop
<1> QED BY <1>2, <1>3, <1>4

-----------------------------------------------------------------------------
(* Steps that leave parts of the invariant alone *)

\* Types the arithmetic below rests on.
LEMMA NumberTypes ==
  ASSUME WInv
  PROVE  /\ epoch \in Nat /\ seen \in Nat /\ acked \in Nat /\ mark \in Nat
         /\ drained \in Nat /\ Drain \in Nat /\ Capacity \in Nat
         /\ ring \in Seq(Envelopes) /\ Len(ring) \in Nat /\ Len(ring) <= Capacity
         /\ \A i \in 1..Len(ring) : ring[i] \in Envelopes /\ ring[i].epoch \in Nat
         /\ \A u \in Users : call[u] \in Calls /\ call[u].epoch \in Nat
<1>1. ring \in Seq(Envelopes) /\ Len(ring) \in Nat /\ Len(ring) <= Capacity
  BY LenProperties DEF WInv, TypeOK
<1>2. \A i \in 1..Len(ring) : ring[i] \in Envelopes
  BY <1>1, ElementOfSeq
<1>3. \A i \in 1..Len(ring) : ring[i].epoch \in Nat
  BY <1>2 DEF Envelopes, Epochs
<1>4. \A u \in Users : call[u] \in Calls
  BY DEF WInv, TypeOK
<1>5. \A u \in Users : call[u].epoch \in Nat
  BY <1>4 DEF Calls, Epochs
<1> QED BY <1>1, <1>2, <1>3, <1>4, <1>5, NumbersAreNat DEF WInv, TypeOK, Epochs

\* The ring, the epochs and the calls stay; a detach forgets acked.
LEMMA QueueFrame ==
  ASSUME WInv, QueueParts, UNCHANGED <<ring, epoch, seen, call>>,
         UNCHANGED <<acked, attached>> \/ (acked' = 0 /\ ~attached')
  PROVE  QueueParts'
<1>0. StopsRise /\ InFlightNewest /\ AckedQueued
  BY DEF QueueParts
<1>1. StopsRise'
  BY <1>0, NumberTypes DEF StopsRise, IsStop
<1>2. InFlightNewest'
  BY <1>0, NumberTypes DEF InFlightNewest, CallNewest, InFlight, IsStop
<1>3. AckedQueued'
  BY <1>0 DEF AckedQueued, IsStop
<1> QED BY <1>1, <1>2, <1>3 DEF QueueParts

\* The tick stands still and nobody starts the motors.
LEMMA TickFrame ==
  ASSUME TickParts, UNCHANGED <<ring, seen, drained, mark, dpc, motion>>,
         attached' => attached, motor' = motor \/ motor'.kind # "drive"
  PROVE  TickParts'
<1>0. MarkReached /\ MarkSeen /\ MotionCurrent /\ MotorCurrent
  BY DEF TickParts
<1>1. MarkReached'
  BY <1>0 DEF MarkReached, IsStop
<1>2. MarkSeen' /\ MotionCurrent'
  BY <1>0 DEF MarkSeen, MotionCurrent
<1>3. MotorCurrent'
  BY <1>0 DEF MotorCurrent
<1> QED BY <1>1, <1>2, <1>3 DEF TickParts

LEMMA RestNeverDrives ==
  /\ \A p \in Policies \cup {"coast"} : Rest(p).kind # "drive"
  /\ \A p : Emergency(p).kind # "drive"
BY PoliciesAssumption DEF Rest, Emergency

-----------------------------------------------------------------------------
(* Callers *)

LEMMA BeginStep ==
  ASSUME StopInv, NEW u \in Users, NEW k, NEW p, Begin(u, k, p),
         k = Stop => u \in Stoppers
  PROVE  QueueParts' /\ TickParts'
<1>0. /\ WInv /\ QueueParts /\ TickParts
      /\ StopsRise /\ InFlightNewest /\ AckedQueued
  BY DEF StopInv, QueueParts
<1>1. call \in [Users -> Calls]
  BY <1>0 DEF WInv, TypeOK
<1>2. /\ call'[u] = [at |-> "checked", kind |-> k, epoch |-> 0, policy |-> p]
      /\ \A v \in Users : v # u => call'[v] = call[v]
  BY <1>1 DEF Begin
<1>3. UNCHANGED <<ring, epoch, seen, acked, attached>>
  BY DEF Begin, kernelVars, daemonVars
<1>4. StopsRise' /\ AckedQueued'
  BY <1>0, <1>3 DEF StopsRise, AckedQueued, IsStop
<1>5. CallNewest(u)'
  BY <1>2 DEF CallNewest, InFlight
<1>6. ASSUME NEW v \in Users, v # u PROVE CallNewest(v)'
  BY <1>0, <1>2, <1>3, <1>6 DEF InFlightNewest, CallNewest, InFlight, IsStop
<1>7. TickParts'
  BY <1>0, TickFrame DEF Begin, kernelVars, daemonVars
<1> QED BY <1>4, <1>5, <1>6, <1>7 DEF QueueParts, InFlightNewest

LEMMA LoadEpochStep ==
  ASSUME StopInv, NEW u \in Users, LoadEpoch(u)
  PROVE  QueueParts' /\ TickParts'
<1>0. /\ WInv /\ QueueParts /\ TickParts
      /\ StopsRise /\ InFlightNewest /\ AckedQueued
  BY DEF StopInv, QueueParts
<1>1. call \in [Users -> Calls]
  BY <1>0 DEF WInv, TypeOK
<1>2. /\ call'[u].at = "loaded" /\ call'[u].kind = call[u].kind /\ call[u].kind # Stop
      /\ \A v \in Users : v # u => call'[v] = call[v]
  BY <1>1 DEF LoadEpoch, Calls
<1>3. UNCHANGED <<ring, epoch, seen, acked, attached>>
  BY DEF LoadEpoch, kernelVars, daemonVars
<1>4. StopsRise' /\ AckedQueued'
  BY <1>0, <1>3 DEF StopsRise, AckedQueued, IsStop
<1>5. CallNewest(u)'
  BY <1>2 DEF CallNewest, InFlight
<1>6. ASSUME NEW v \in Users, v # u PROVE CallNewest(v)'
  BY <1>0, <1>2, <1>3, <1>6 DEF InFlightNewest, CallNewest, InFlight, IsStop
<1>7. TickParts'
  BY <1>0, TickFrame DEF LoadEpoch, kernelVars, daemonVars
<1> QED BY <1>4, <1>5, <1>6, <1>7 DEF QueueParts, InFlightNewest

\* A verb is queued behind every STOP and is none itself.
LEMMA PushVerbStep ==
  ASSUME StopInv, NEW u \in Users, PushVerb(u)
  PROVE  QueueParts' /\ TickParts'
<1>0. /\ WInv /\ QueueParts /\ TickParts
      /\ StopsRise /\ InFlightNewest /\ AckedQueued
      /\ MarkReached /\ MarkSeen /\ MotionCurrent /\ MotorCurrent
  BY DEF StopInv, QueueParts, TickParts
<1>1. call \in [Users -> Calls]
  BY <1>0 DEF WInv, TypeOK
<1>2. /\ call'[u] = NoCall
      /\ \A v \in Users : v # u => call'[v] = call[v]
  BY <1>1 DEF PushVerb
<1>3. UNCHANGED <<epoch, seen, acked, attached, drained, mark, dpc, motion, motor>>
  BY DEF PushVerb, kernelVars, daemonVars
<1>4. Len(ring) \in Nat /\ Len(ring') \in Nat /\ Len(ring) <= Len(ring')
      /\ (\A i \in 1..Len(ring) : ring'[i] = ring[i])
      /\ \A i \in 1..Len(ring') : IsStop(ring', i) => i \in 1..Len(ring)
  <2> DEFINE env == Env(call[u].kind, call[u].epoch, call[u].policy)
  <2>1. env.kind # Stop
    BY <1>0 DEF InFlightNewest, CallNewest, PushVerb, Env
  <2>2. env \in Envelopes
    BY <1>1 DEF Env, Envelopes, Calls
  <2>3. ring \in Seq(Envelopes) /\ Len(ring) \in Nat
    BY <1>0, NumberTypes
  <2>4. CASE ring' = ring
    BY <2>3, <2>4
  <2>5. CASE ring' = Append(ring, env)
    <3> HIDE DEF env
    <3>1. /\ Len(ring') = Len(ring) + 1 /\ ring'[Len(ring) + 1] = env
          /\ \A i \in 1..Len(ring) : ring'[i] = ring[i]
      BY <2>2, <2>3, <2>5, AppendProperties
    <3> QED BY <2>1, <2>3, <3>1 DEF IsStop
  <2> QED BY <2>4, <2>5 DEF PushVerb
<1>5. \A i \in 1..Len(ring') : IsStop(ring', i) => IsStop(ring, i) /\ ring'[i] = ring[i]
  BY <1>4 DEF IsStop
<1>6. \A i \in 1..Len(ring) : IsStop(ring, i) => IsStop(ring', i) /\ i \in 1..Len(ring')
  BY <1>4 DEF IsStop
<1>7. StopsRise'
  BY <1>0, <1>3, <1>4, <1>5 DEF StopsRise
<1>8. AckedQueued'
  BY <1>0, <1>3, <1>4, <1>6 DEF AckedQueued
<1>9. CallNewest(u)'
  BY <1>2 DEF CallNewest, InFlight, NoCall
<1>10. ASSUME NEW v \in Users, v # u PROVE CallNewest(v)'
  BY <1>0, <1>2, <1>3, <1>4, <1>5, <1>10 DEF InFlightNewest, CallNewest, InFlight
<1>11. MarkReached'
  BY <1>0, <1>3, <1>4, <1>6 DEF MarkReached
<1>12. MarkSeen' /\ MotionCurrent' /\ MotorCurrent'
  BY <1>0, <1>3 DEF MarkSeen, MotionCurrent, MotorCurrent
<1> QED BY <1>7, <1>8, <1>9, <1>10, <1>11, <1>12
        DEF QueueParts, TickParts, InFlightNewest

\* The new epoch exceeds all others; nobody else is issuing STOP.
LEMMA BumpEpochStep ==
  ASSUME StopInv, SingleStopper, NEW u \in Users, BumpEpoch(u)
  PROVE  QueueParts' /\ TickParts'
<1>0. /\ WInv /\ QueueParts /\ TickParts
      /\ StopsRise /\ InFlightNewest /\ AckedQueued
  BY DEF StopInv, QueueParts
<1>1. call \in [Users -> Calls]
  BY <1>0 DEF WInv, TypeOK
<1>2. /\ call'[u].at = "bumped" /\ call'[u].epoch = epoch + 1
      /\ \A v \in Users : v # u => call'[v] = call[v]
  BY <1>1 DEF BumpEpoch, Calls
<1>3. epoch' = epoch + 1 /\ UNCHANGED <<ring, seen, acked, attached>>
  BY DEF BumpEpoch, daemonVars
<1>4. u \in Stoppers
  BY <1>0 DEF InFlightNewest, CallNewest, BumpEpoch
<1>5. /\ epoch \in Nat /\ seen \in Nat /\ acked \in Nat
      /\ \A i \in 1..Len(ring) : ring[i].epoch \in Nat
  BY <1>0, NumberTypes
<1>6. /\ seen <= epoch /\ acked <= epoch
      /\ \A i \in 1..Len(ring) : IsStop(ring, i) => ring[i].epoch <= epoch
  BY <1>0 DEF StopsRise
<1>7. StopsRise'
  BY <1>0, <1>3, <1>5 DEF StopsRise, IsStop
<1>8. AckedQueued'
  BY <1>0, <1>3 DEF AckedQueued, IsStop
<1>9. CallNewest(u)'
  BY <1>2, <1>3, <1>4, <1>5, <1>6 DEF CallNewest, InFlight, IsStop
<1>10. ASSUME NEW v \in Users, v # u PROVE CallNewest(v)'
  <2>1. ~InFlight(v)
    BY <1>0, <1>4, <1>10 DEF InFlightNewest, CallNewest, SingleStopper
  <2>2. ~InFlight(v)'
    BY <2>1, <1>2, <1>10 DEF InFlight
  <2> QED BY <1>0, <1>2, <1>10, <2>2 DEF InFlightNewest, CallNewest
<1>11. TickParts'
  BY <1>0, TickFrame DEF BumpEpoch, daemonVars
<1> QED BY <1>7, <1>8, <1>9, <1>10, <1>11 DEF QueueParts, InFlightNewest

LEMMA ActuateStopStep ==
  ASSUME StopInv, NEW u \in Users, ActuateStop(u)
  PROVE  QueueParts' /\ TickParts'
<1>0. /\ WInv /\ QueueParts /\ TickParts
      /\ StopsRise /\ InFlightNewest /\ AckedQueued
  BY DEF StopInv, QueueParts
<1>1. call \in [Users -> Calls]
  BY <1>0 DEF WInv, TypeOK
<1>2. /\ call'[u].at = "actuated" /\ call'[u].epoch = call[u].epoch
      /\ \A v \in Users : v # u => call'[v] = call[v]
  BY <1>1 DEF ActuateStop, Step, Calls
<1>3. UNCHANGED <<ring, epoch, seen, acked, attached>>
  BY DEF ActuateStop, daemonVars
<1>4. StopsRise' /\ AckedQueued'
  BY <1>0, <1>3 DEF StopsRise, AckedQueued, IsStop
<1>5. InFlight(u)
  BY DEF ActuateStop, InFlight
<1>6. CallNewest(u)'
  BY <1>0, <1>2, <1>3, <1>5 DEF InFlightNewest, CallNewest, InFlight, IsStop
<1>7. ASSUME NEW v \in Users, v # u PROVE CallNewest(v)'
  BY <1>0, <1>2, <1>3, <1>7 DEF InFlightNewest, CallNewest, InFlight, IsStop
<1>8. motor' = motor \/ motor'.kind # "drive"
  BY RestNeverDrives DEF ActuateStop
<1>9. TickParts'
  BY <1>0, <1>3, <1>8, TickFrame DEF ActuateStop, daemonVars
<1> QED BY <1>4, <1>6, <1>7, <1>9 DEF QueueParts, InFlightNewest

\* The STOP is the last of the ring and the newest.
LEMMA PushStopStep ==
  ASSUME StopInv, SingleStopper, NEW u \in Users, PushStop(u)
  PROVE  QueueParts' /\ TickParts'
<1> DEFINE env == Env(Stop, call[u].epoch, call[u].policy)
<1>0. /\ WInv /\ QueueParts /\ TickParts
      /\ StopsRise /\ InFlightNewest /\ AckedQueued
      /\ MarkReached /\ MarkSeen /\ MotionCurrent /\ MotorCurrent
  BY DEF StopInv, QueueParts, TickParts
<1>1. call \in [Users -> Calls]
  BY <1>0 DEF WInv, TypeOK
<1>2. /\ call'[u] = NoCall
      /\ \A v \in Users : v # u => call'[v] = call[v]
  BY <1>1 DEF PushStop
<1>3. UNCHANGED <<epoch, seen, attached, drained, mark, dpc, motion, motor>>
  BY DEF PushStop, kernelVars, daemonVars
<1>4. /\ epoch \in Nat /\ seen \in Nat /\ acked \in Nat /\ mark \in Nat
      /\ drained \in Nat /\ Drain \in Nat /\ Capacity \in Nat /\ Capacity >= 1
      /\ ring \in Seq(Envelopes) /\ Len(ring) \in Nat /\ Len(ring) <= Capacity
      /\ (\A i \in 1..Len(ring) : ring[i].epoch \in Nat)
      /\ call[u].epoch \in Nat
  BY <1>0, NumberTypes, CapacityAssumption
<1>5. /\ env \in Envelopes /\ env.kind = Stop /\ env.epoch = call[u].epoch
  BY <1>1 DEF Env, Envelopes, Calls
<1>6. /\ u \in Stoppers /\ seen < env.epoch /\ acked < env.epoch /\ env.epoch <= epoch
      /\ \A i \in 1..Len(ring) : IsStop(ring, i) => ring[i].epoch < env.epoch
  BY <1>0, <1>5 DEF InFlightNewest, CallNewest, InFlight, PushStop
<1>7. acked' = IF attached THEN env.epoch ELSE acked
  BY <1>4, <1>6, <1>5 DEF PushStop
<1>8. ring' = WithStop(ring, Capacity, env)
  BY DEF PushStop, AfterStop
<1> HIDE DEF env
<1>9. ShapeAfterStop(ring, ring', env)
  BY <1>4, <1>5, <1>8, WithStopShape
<1>10. /\ Len(ring') \in Nat /\ Len(ring') >= 1 /\ ring'[Len(ring')] = env
       /\ IsStop(ring', Len(ring'))
  BY <1>5, <1>9 DEF ShapeAfterStop, IsStop
<1>11. \A i \in 1..(Len(ring') - 1) : \E k \in 1..Len(ring) : ring'[i] = ring[k]
  BY <1>9 DEF ShapeAfterStop
<1>12. \A i, j \in 1..(Len(ring') - 1) :
         i < j => \E k, l \in 1..Len(ring) :
                    k < l /\ ring'[i] = ring[k] /\ ring'[j] = ring[l]
  BY <1>9 DEF ShapeAfterStop
<1>13. \A i \in 1..(Len(ring') - 1) : IsStop(ring', i) =>
         ring'[i].epoch < env.epoch /\ seen < ring'[i].epoch /\ ring'[i].epoch \in Nat
  <2> SUFFICES ASSUME NEW i \in 1..(Len(ring') - 1), IsStop(ring', i)
               PROVE  /\ ring'[i].epoch < env.epoch /\ seen < ring'[i].epoch
                      /\ ring'[i].epoch \in Nat
    OBVIOUS
  <2>1. PICK k \in 1..Len(ring) : ring'[i] = ring[k]
    BY <1>11
  <2>2. IsStop(ring, k)
    BY <2>1 DEF IsStop
  <2> QED BY <1>0, <1>4, <1>6, <2>1, <2>2 DEF StopsRise
<1>14. StopsRise'
  <2>1. ASSUME NEW i \in 1..Len(ring'), NEW j \in 1..Len(ring'),
               IsStop(ring', i), IsStop(ring', j), i < j
        PROVE  ring'[i].epoch < ring'[j].epoch
    <3>1. i \in 1..(Len(ring') - 1)
      BY <1>10, <2>1
    <3>2. CASE j = Len(ring')
      BY <1>10, <1>13, <2>1, <3>1, <3>2
    <3>3. CASE j # Len(ring')
      <4>1. j \in 1..(Len(ring') - 1)
        BY <1>10, <3>3
      <4>2. PICK k \in 1..Len(ring), l \in 1..Len(ring) :
              k < l /\ ring'[i] = ring[k] /\ ring'[j] = ring[l]
        BY <1>12, <2>1, <3>1, <4>1
      <4>3. IsStop(ring, k) /\ IsStop(ring, l)
        BY <2>1, <4>2 DEF IsStop
      <4> QED BY <1>0, <4>2, <4>3 DEF StopsRise
    <3> QED BY <3>2, <3>3
  <2>2. ASSUME NEW i \in 1..Len(ring'), IsStop(ring', i)
        PROVE  seen < ring'[i].epoch /\ ring'[i].epoch <= epoch
    <3>1. CASE i = Len(ring')
      BY <1>6, <1>10, <3>1
    <3>2. CASE i # Len(ring')
      <4>1. i \in 1..(Len(ring') - 1)
        BY <1>10, <3>2
      <4>2. ring'[i].epoch < env.epoch /\ seen < ring'[i].epoch /\ ring'[i].epoch \in Nat
        BY <1>13, <2>2, <4>1
      <4> QED BY <1>4, <1>5, <1>6, <4>2
    <3> QED BY <3>1, <3>2
  <2>3. acked' <= epoch /\ seen <= epoch
    BY <1>0, <1>6, <1>7 DEF StopsRise
  <2> QED BY <1>3, <2>1, <2>2, <2>3 DEF StopsRise
<1>15. AckedQueued'
  <2> SUFFICES ASSUME attached'
               PROVE  \E i \in 1..Len(ring') : IsStop(ring', i) /\ ring'[i].epoch >= acked'
    BY DEF AckedQueued
  <2>1. acked' = env.epoch
    BY <1>3, <1>7
  <2>2. env.epoch >= env.epoch
    BY <1>4, <1>5
  <2> QED BY <1>10, <2>1, <2>2
<1>16. CallNewest(u)'
  BY <1>2 DEF CallNewest, InFlight, NoCall
<1>17. ASSUME NEW v \in Users, v # u PROVE CallNewest(v)'
  <2>1. ~InFlight(v)
    BY <1>0, <1>6, <1>17 DEF InFlightNewest, CallNewest, SingleStopper
  <2>2. ~InFlight(v)'
    BY <2>1, <1>2, <1>17 DEF InFlight
  <2> QED BY <1>0, <1>2, <1>17, <2>2 DEF InFlightNewest, CallNewest
<1>18. MarkReached'
  <2> SUFFICES ASSUME attached, dpc \in {"pickup", "popping"}, mark > seen
               PROVE  \E i \in 1..Len(ring') : /\ IsStop(ring', i)
                                               /\ ring'[i].epoch >= mark
                                               /\ i + drained <= Drain
    BY <1>3 DEF MarkReached
  <2>1. PICK k \in 1..Len(ring) : /\ IsStop(ring, k) /\ ring[k].epoch >= mark
                                  /\ k + drained <= Drain
    BY <1>0 DEF MarkReached
  <2>2. PICK i \in 1..Len(ring') : i <= k /\ ring'[i] \in {ring[k], env}
    BY <1>9, <2>1 DEF ShapeAfterStop, IsStop
  <2>3. IsStop(ring', i)
    BY <1>5, <2>1, <2>2 DEF IsStop
  <2>4. ring[k].epoch < env.epoch
    BY <1>6, <2>1
  <2>5. ring'[i].epoch >= mark
    <3> DEFINE a == ring[k].epoch
               b == env.epoch
               c == ring'[i].epoch
    <3>1. c \in {a, b}
      BY <2>2
    <3>2. a \in Nat /\ b \in Nat /\ mark \in Nat
      BY <1>4, <1>5
    <3>3. a >= mark /\ a < b
      BY <2>1, <2>4
    <3> HIDE DEF a, b, c
    <3>4. c >= mark
      BY <3>1, <3>2, <3>3
    <3> QED BY <3>4 DEF c
  <2>6. i + drained <= Drain
    BY <1>4, <1>10, <2>1, <2>2
  <2> QED BY <2>3, <2>5, <2>6
<1>19. MarkSeen' /\ MotionCurrent' /\ MotorCurrent'
  BY <1>0, <1>3 DEF MarkSeen, MotionCurrent, MotorCurrent
<1> QED BY <1>14, <1>15, <1>16, <1>17, <1>18, <1>19
        DEF QueueParts, TickParts, InFlightNewest

-----------------------------------------------------------------------------
(* The daemon *)

\* A fresh handler has seen nothing, and nothing returned to its callers yet.
LEMMA AttachStep ==
  ASSUME StopInv, Attach
  PROVE  QueueParts' /\ TickParts'
<1>0. /\ WInv /\ StopsRise /\ InFlightNewest
  BY DEF StopInv, QueueParts
<1>1. /\ UNCHANGED <<ring, epoch, call, motor>>
      /\ seen' = 0 /\ acked' = 0 /\ mark' = 0 /\ dpc' = "arming"
      /\ motion' = Rest("coast")
  BY DEF Attach
<1>2. /\ epoch \in Nat /\ seen \in Nat /\ acked \in Nat
      /\ \A i \in 1..Len(ring) : ring[i].epoch \in Nat
      /\ \A u \in Users : call[u].epoch \in Nat
  BY <1>0, NumberTypes
<1>3. StopsRise'
  BY <1>0, <1>1, <1>2 DEF StopsRise, IsStop
<1>4. InFlightNewest'
  BY <1>0, <1>1, <1>2 DEF InFlightNewest, CallNewest, InFlight, IsStop
<1>5. AckedQueued'
  BY <1>1 DEF AckedQueued
<1>6. MarkReached' /\ MarkSeen'
  BY <1>1 DEF MarkReached, MarkSeen
<1>7. MotionCurrent'
  BY <1>1 DEF MotionCurrent, Rest
<1>8. motor \in Motions
  BY <1>0 DEF WInv, TypeOK
<1>9. motor.epoch \in Nat
  BY <1>8 DEF Motions, Epochs
<1>10. MotorCurrent'
  BY <1>1, <1>9 DEF MotorCurrent
<1> QED BY <1>3, <1>4, <1>5, <1>6, <1>7, <1>10 DEF QueueParts, TickParts

LEMMA ArmStep ==
  ASSUME StopInv, Arm
  PROVE  QueueParts' /\ TickParts'
<1>0. /\ WInv /\ QueueParts /\ MarkSeen /\ MotionCurrent /\ MotorCurrent
  BY DEF StopInv, TickParts
<1>1. /\ UNCHANGED <<ring, epoch, seen, call, acked, attached, mark, motion, motor>>
      /\ dpc = "arming" /\ dpc' = "idle"
  BY DEF Arm
<1>2. QueueParts'
  BY <1>0, <1>1, QueueFrame
<1>3. MarkReached' /\ MarkSeen' /\ MotionCurrent' /\ MotorCurrent'
  BY <1>0, <1>1 DEF MarkReached, MarkSeen, MotionCurrent, MotorCurrent
<1> QED BY <1>2, <1>3 DEF TickParts

\* A tick can drain a full ring, so what is queued when it begins is reached.
LEMMA TickStartStep ==
  ASSUME StopInv, TickStart
  PROVE  QueueParts' /\ TickParts'
<1>0. /\ WInv /\ QueueParts /\ AckedQueued /\ MotionCurrent
  BY DEF StopInv, QueueParts, TickParts
<1>1. /\ UNCHANGED <<ring, epoch, seen, call, acked, attached, motion, motor>>
      /\ dpc' = "pickup" /\ mark' = acked /\ drained' = 0
  BY DEF TickStart, kernelVars
<1>2. QueueParts'
  BY <1>0, <1>1, QueueFrame
<1>3. Len(ring) \in Nat /\ Len(ring) <= Capacity /\ Capacity \in Nat /\ Drain \in Nat
  BY <1>0, NumberTypes
<1>4. \A i \in 1..Len(ring) : i + 0 <= Drain
  BY <1>3, DrainAssumption
<1>5. MarkReached'
  BY <1>0, <1>1, <1>4 DEF MarkReached, AckedQueued, IsStop
<1>6. MarkSeen' /\ MotionCurrent' /\ MotorCurrent'
  BY <1>0, <1>1 DEF MarkSeen, MotionCurrent, MotorCurrent
<1> QED BY <1>2, <1>5, <1>6 DEF TickParts

LEMMA PickupCheckStep ==
  ASSUME StopInv, PickupCheck
  PROVE  QueueParts' /\ TickParts'
<1>0. /\ WInv /\ QueueParts /\ MarkReached /\ MotionCurrent
  BY DEF StopInv, TickParts
<1>1. /\ UNCHANGED <<ring, epoch, seen, call, acked, attached>>
      /\ UNCHANGED <<drained, mark, motion, motor>>
      /\ dpc = "pickup" /\ dpc' = IF attached THEN "popping" ELSE "update"
  BY DEF PickupCheck, kernelVars
<1>2. QueueParts'
  BY <1>0, <1>1, QueueFrame
<1>3. MarkReached'
  BY <1>0, <1>1 DEF MarkReached, IsStop
<1>4. MarkSeen' /\ MotionCurrent' /\ MotorCurrent'
  BY <1>0, <1>1 DEF MarkSeen, MotionCurrent, MotorCurrent
<1> QED BY <1>2, <1>3, <1>4 DEF TickParts

\* Only a STOP at the head raises output_epoch_seen, to its own epoch.
LEMMA PickupStep ==
  ASSUME StopInv, Pickup
  PROVE  QueueParts' /\ TickParts'
<1>0. /\ WInv /\ StopsRise /\ InFlightNewest /\ AckedQueued
      /\ MarkReached /\ MarkSeen /\ MotionCurrent
  BY DEF StopInv, QueueParts, TickParts
<1>1. /\ UNCHANGED <<epoch, call, acked, attached, mark>>
      /\ dpc = "popping" /\ drained' = drained + 1 /\ ring' = Tail(ring)
      /\ dpc' = IF drained + 1 = Drain THEN "update" ELSE "pickup"
      /\ Dispatch(Head(ring)) /\ ring # <<>>
  BY DEF Pickup, kernelVars
<1>2. /\ epoch \in Nat /\ seen \in Nat /\ acked \in Nat /\ mark \in Nat
      /\ drained \in Nat /\ Drain \in Nat
      /\ ring \in Seq(Envelopes) /\ Len(ring) \in Nat
      /\ \A i \in 1..Len(ring) : ring[i].epoch \in Nat
  BY <1>0, NumberTypes
<1>3. /\ Len(ring) >= 1 /\ Head(ring) = ring[1] /\ Len(ring') = Len(ring) - 1
      /\ \A i \in 1..Len(ring') : ring'[i] = ring[i + 1]
  BY <1>1, <1>2, EmptySeq, HeadTailProperties
<1>4. \A i \in 1..Len(ring') : i + 1 \in 1..Len(ring)
  BY <1>2, <1>3
<1>5. \A i \in 1..Len(ring') : IsStop(ring', i) => IsStop(ring, i + 1)
  BY <1>3, <1>4 DEF IsStop
<1>6. \A i \in 1..Len(ring) : i # 1 /\ IsStop(ring, i) =>
        i - 1 \in 1..Len(ring') /\ IsStop(ring', i - 1) /\ ring'[i - 1] = ring[i]
  BY <1>2, <1>3 DEF IsStop
<1>7. IsStop(ring, 1) => seen' = ring[1].epoch
  BY <1>1, <1>3 DEF IsStop, Dispatch, Stop, Drive
<1>8. ~IsStop(ring, 1) => seen' = seen
  BY <1>1, <1>2, <1>3 DEF IsStop, Dispatch
<1>9. seen <= seen' /\ seen' <= epoch /\ seen' \in Nat
  BY <1>0, <1>2, <1>3, <1>7, <1>8 DEF StopsRise
<1>10. \A i \in 1..Len(ring') : IsStop(ring', i) =>
         seen' < ring'[i].epoch /\ ring'[i].epoch <= epoch
  <2> SUFFICES ASSUME NEW i \in 1..Len(ring'), IsStop(ring', i)
               PROVE  seen' < ring'[i].epoch /\ ring'[i].epoch <= epoch
    OBVIOUS
  <2>1. IsStop(ring, i + 1) /\ ring'[i] = ring[i + 1] /\ i + 1 \in 1..Len(ring)
    BY <1>3, <1>4, <1>5
  <2>2. 1 \in 1..Len(ring) /\ 1 < i + 1
    BY <1>2, <1>3
  <2>3. seen < ring[i + 1].epoch /\ ring[i + 1].epoch <= epoch
    BY <1>0, <2>1 DEF StopsRise
  <2>4. IsStop(ring, 1) => ring[1].epoch < ring[i + 1].epoch
    BY <1>0, <2>1, <2>2 DEF StopsRise
  <2> QED BY <1>7, <1>8, <2>1, <2>3, <2>4
<1>11. StopsRise'
  <2>1. \A i, j \in 1..Len(ring') : IsStop(ring', i) /\ IsStop(ring', j) /\ i < j
          => ring'[i].epoch < ring'[j].epoch
    <3> SUFFICES ASSUME NEW i \in 1..Len(ring'), NEW j \in 1..Len(ring'),
                        IsStop(ring', i), IsStop(ring', j), i < j
                 PROVE  ring'[i].epoch < ring'[j].epoch
      OBVIOUS
    <3>1. IsStop(ring, i + 1) /\ IsStop(ring, j + 1) /\ i + 1 < j + 1
      BY <1>3, <1>5
    <3> QED BY <1>0, <1>3, <1>4, <3>1 DEF StopsRise
  <2>2. acked <= epoch
    BY <1>0 DEF StopsRise
  <2> QED BY <1>1, <1>9, <1>10, <2>1, <2>2 DEF StopsRise
<1>12. ASSUME NEW u \in Users PROVE CallNewest(u)'
  <2>1. CallNewest(u) /\ call'[u] = call[u]
    BY <1>0, <1>1 DEF InFlightNewest
  <2>2. InFlight(u) => seen' < call[u].epoch
    BY <1>3, <1>7, <1>8, <2>1, <1>2 DEF CallNewest
  <2>3. InFlight(u) => \A i \in 1..Len(ring') :
                         IsStop(ring', i) => ring'[i].epoch < call[u].epoch
    BY <1>3, <1>4, <1>5, <2>1 DEF CallNewest
  <2> QED BY <1>1, <2>1, <2>2, <2>3 DEF CallNewest, InFlight
<1>13. AckedQueued'
  <2> SUFFICES ASSUME attached, acked > seen'
               PROVE  \E i \in 1..Len(ring') : IsStop(ring', i) /\ ring'[i].epoch >= acked
    BY <1>1 DEF AckedQueued
  <2>1. PICK i \in 1..Len(ring) : IsStop(ring, i) /\ ring[i].epoch >= acked
    BY <1>0, <1>2, <1>9 DEF AckedQueued
  <2>2. i # 1
    BY <1>2, <1>3, <1>7, <1>9, <2>1
  <2> QED BY <1>6, <2>1, <2>2
<1>14. ASSUME attached, mark > seen'
       PROVE  \E i \in 1..Len(ring) : /\ IsStop(ring, i) /\ ring[i].epoch >= mark
                                      /\ i + drained <= Drain /\ i # 1
  <2>1. PICK i \in 1..Len(ring) : /\ IsStop(ring, i) /\ ring[i].epoch >= mark
                                  /\ i + drained <= Drain
    BY <1>0, <1>1, <1>2, <1>9, <1>14 DEF MarkReached
  <2>2. i # 1
    BY <1>2, <1>3, <1>7, <1>9, <1>14, <2>1
  <2> QED BY <2>1, <2>2
<1>15. MarkReached'
  <2> SUFFICES ASSUME attached, mark > seen'
               PROVE  \E i \in 1..Len(ring') : /\ IsStop(ring', i)
                                               /\ ring'[i].epoch >= mark
                                               /\ i + drained' <= Drain
    BY <1>1 DEF MarkReached
  <2>1. PICK i \in 1..Len(ring) : /\ IsStop(ring, i) /\ ring[i].epoch >= mark
                                  /\ i + drained <= Drain /\ i # 1
    BY <1>14
  <2>2. i - 1 \in 1..Len(ring') /\ IsStop(ring', i - 1) /\ ring'[i - 1] = ring[i]
    BY <1>6, <2>1
  <2>3. (i - 1) + drained' <= Drain
    BY <1>1, <1>2, <2>1
  <2> QED BY <2>1, <2>2, <2>3
<1>16. MarkSeen'
  <2> SUFFICES ASSUME attached, drained + 1 = Drain PROVE mark <= seen'
    BY <1>1 DEF MarkSeen
  <2>1. ~(mark > seen')
    BY <1>2, <1>14
  <2> QED BY <1>2, <1>9, <2>1
<1>17. MotionCurrent'
  <2> DEFINE env == Head(ring)
  <2>1. env \in Envelopes
    BY <1>2, <1>3, ElementOfSeq
  <2>2. env.epoch \in Nat /\ Rest(env.policy).kind # "drive"
    BY <2>1, RestNeverDrives DEF Envelopes, Epochs
  <2> HIDE DEF env
  <2>3. CASE motion' = Rest(env.policy)
    BY <2>2, <2>3 DEF MotionCurrent
  <2>4. CASE EpochActive(env) /\ motion' = Driving(env.epoch) /\ UNCHANGED seen
    BY <2>2, <2>4 DEF MotionCurrent, EpochActive, Driving
  <2>5. CASE UNCHANGED <<seen, motion>>
    BY <1>0, <2>5 DEF MotionCurrent
  <2> QED BY <1>1, <2>3, <2>4, <2>5 DEF Dispatch, env
<1>18. MotorCurrent'
  BY <1>1 DEF MotorCurrent
<1> QED BY <1>11, <1>12, <1>13, <1>15, <1>16, <1>17, <1>18
        DEF QueueParts, TickParts, InFlightNewest

LEMMA PickupNothingStep ==
  ASSUME StopInv, PickupNothing
  PROVE  QueueParts' /\ TickParts'
<1>0. /\ WInv /\ QueueParts /\ MarkReached /\ MotionCurrent
  BY DEF StopInv, TickParts
<1>1. /\ UNCHANGED <<ring, epoch, seen, call, acked, attached, mark, motion, motor>>
      /\ dpc = "popping" /\ dpc' = "update" /\ ring = <<>>
  BY DEF PickupNothing, kernelVars
<1>2. QueueParts'
  BY <1>0, <1>1, QueueFrame
<1>3. seen \in Nat /\ mark \in Nat
  BY <1>0, NumberTypes
<1>4. Len(ring) = 0
  BY <1>1
<1>5. attached => ~(mark > seen)
  BY <1>0, <1>1, <1>4 DEF MarkReached
<1>6. MarkSeen'
  BY <1>1, <1>3, <1>5 DEF MarkSeen
<1>7. MarkReached' /\ MotionCurrent' /\ MotorCurrent'
  BY <1>0, <1>1 DEF MarkReached, MotionCurrent, MotorCurrent
<1> QED BY <1>2, <1>6, <1>7 DEF TickParts

\* The controllers that passed the epoch gate drive the motors.
LEMMA UpdateStep ==
  ASSUME StopInv, Update
  PROVE  QueueParts' /\ TickParts'
<1>0. /\ WInv /\ QueueParts /\ MarkSeen /\ MotionCurrent
  BY DEF StopInv, TickParts
<1>1. /\ UNCHANGED <<ring, epoch, seen, call, acked, attached, mark>>
      /\ dpc = "update" /\ dpc' = "publish"
  BY DEF Update, kernelVars
<1>2. QueueParts'
  BY <1>0, <1>1, QueueFrame
<1>3. seen \in Nat /\ mark \in Nat
  BY <1>0, NumberTypes
<1>4. motion \in Motions
  BY <1>0 DEF WInv, TypeOK
<1>5. motion.epoch \in Nat
  BY <1>4 DEF Motions, Epochs
<1>6. motion' = motion \/ motion'.kind # "drive"
  BY RestNeverDrives DEF Update
<1>7. motor' = motion \/ motor'.kind # "drive"
  BY RestNeverDrives DEF Update
<1>8. MotionCurrent'
  BY <1>0, <1>1, <1>6 DEF MotionCurrent
<1>9. MotorCurrent'
  BY <1>0, <1>1, <1>3, <1>5, <1>7 DEF MotorCurrent, MotionCurrent, MarkSeen
<1>10. MarkReached' /\ MarkSeen'
  BY <1>0, <1>1 DEF MarkReached, MarkSeen
<1> QED BY <1>2, <1>8, <1>9, <1>10 DEF TickParts

LEMMA PublishStep ==
  ASSUME StopInv, Publish
  PROVE  QueueParts' /\ TickParts'
<1>0. /\ WInv /\ QueueParts /\ MarkSeen /\ MotionCurrent /\ MotorCurrent
  BY DEF StopInv, TickParts
<1>1. /\ UNCHANGED <<ring, epoch, seen, call, acked, attached, mark, motion>>
      /\ dpc = "publish" /\ dpc' \in {"idle", "joined"}
  BY DEF Publish
<1>2. QueueParts'
  BY <1>0, <1>1, QueueFrame
<1>3. motor' = motor \/ motor'.kind # "drive"
  BY RestNeverDrives DEF Publish
<1>4. MotorCurrent'
  BY <1>0, <1>1, <1>3 DEF MotorCurrent
<1>5. MarkReached' /\ MarkSeen' /\ MotionCurrent'
  BY <1>0, <1>1 DEF MarkReached, MarkSeen, MotionCurrent
<1> QED BY <1>2, <1>4, <1>5 DEF TickParts

\* The daemon on its way down: no tick parts are asked of it.
LEMMA LeavingSteps ==
  ASSUME StopInv, TeardownCoast \/ Detach \/ Crash
  PROVE  QueueParts' /\ TickParts'
<1>0. /\ WInv /\ QueueParts /\ MotionCurrent
  BY DEF StopInv, TickParts
<1>1. UNCHANGED <<ring, epoch, seen, call, motion>> /\ dpc' \in {"closing", "down"}
  BY DEF TeardownCoast, Detach, Crash, Detached, kernelVars
<1>2. UNCHANGED <<acked, attached>> \/ (acked' = 0 /\ ~attached')
  BY DEF TeardownCoast, Detach, Crash, Detached, kernelVars
<1>3. QueueParts'
  BY <1>0, <1>1, <1>2, QueueFrame
<1>4. MarkReached' /\ MarkSeen' /\ MotionCurrent' /\ MotorCurrent'
  BY <1>0, <1>1 DEF MarkReached, MarkSeen, MotionCurrent, MotorCurrent
<1> QED BY <1>3, <1>4 DEF TickParts

\* The watchdog may detach and stop the motors, nothing else.
LEMMA WatchdogSteps ==
  ASSUME StopInv, Clock \/ WatchdogFire \/ WatchdogRearm
  PROVE  QueueParts' /\ TickParts'
<1>0. /\ WInv /\ QueueParts /\ TickParts
  BY DEF StopInv
<1>1. UNCHANGED <<ring, epoch, seen, call, motion, dpc, drained, mark>>
  BY DEF Clock, WatchdogFire, WatchdogRearm, daemonVars, Detached
<1>2. UNCHANGED <<acked, attached>> \/ (acked' = 0 /\ ~attached')
  BY DEF Clock, WatchdogFire, WatchdogRearm, Detached
<1>3. attached' => attached
  BY DEF Clock, WatchdogFire, WatchdogRearm, Detached
<1>4. motor' = motor \/ motor'.kind # "drive"
  BY RestNeverDrives DEF Clock, WatchdogFire, WatchdogRearm
<1> QED BY <1>0, <1>1, <1>2, <1>3, <1>4, QueueFrame, TickFrame

-----------------------------------------------------------------------------
(* The theorem *)

LEMMA StopInvInit == Init => StopInv
<1> SUFFICES ASSUME Init PROVE StopInv
  OBVIOUS
<1>1. WInv
  BY WInvInit
<1>2. Len(ring) = 0
  BY DEF Init
<1>3. QueueParts
  BY <1>2 DEF Init, NoCall, QueueParts, StopsRise, InFlightNewest, CallNewest,
              InFlight, AckedQueued
<1>4. TickParts
  BY DEF Init, Rest, TickParts, MarkReached, MarkSeen, MotionCurrent, MotorCurrent
<1> QED BY <1>1, <1>3, <1>4 DEF StopInv

LEMMA StopInvStep ==
  ASSUME SingleStopper, StopInv, [Next]_vars
  PROVE  StopInv'
<1>1. WInv'
  BY WInvStep DEF StopInv
<1>2. QueueParts' /\ TickParts'
  <2>1. ASSUME NEW u \in Users, UserStep(u) PROVE QueueParts' /\ TickParts'
    <3>1. CASE \E k \in Verbs : Begin(u, k, "coast")
      BY <3>1, BeginStep, VerbsAssumption
    <3>2. CASE u \in Stoppers /\ \E p \in Policies : Begin(u, Stop, p)
      BY <3>2, BeginStep
    <3> QED BY <2>1, <3>1, <3>2, LoadEpochStep, PushVerbStep, BumpEpochStep,
               ActuateStopStep, PushStopStep DEF UserStep
  <2>2. CASE DaemonStep
    BY <2>2, AttachStep, ArmStep, TickStartStep, PickupCheckStep, PickupStep,
       PickupNothingStep, UpdateStep, PublishStep, LeavingSteps DEF DaemonStep
  <2>3. CASE Clock \/ WatchdogFire \/ WatchdogRearm
    BY <2>3, WatchdogSteps
  <2>4. CASE UNCHANGED vars
    <3>1. UNCHANGED <<ring, epoch, seen, call, acked, attached>>
          /\ UNCHANGED <<drained, mark, dpc, motion, motor>>
      BY <2>4 DEF vars
    <3> QED BY <3>1, QueueFrame, TickFrame DEF StopInv
  <2> QED BY <2>1, <2>2, <2>3, <2>4 DEF Next
<1> QED BY <1>1, <1>2 DEF StopInv

\* With one task issuing STOP, no command that a STOP has superseded drives the
\* motors once the daemon has completed a tick begun after that STOP returned.
THEOREM StopsSupersede == SingleStopper => (Spec => []StopSupersedes)
<1> SUFFICES ASSUME SingleStopper PROVE Spec => []StopSupersedes
  OBVIOUS
<1>1. Init => StopInv
  BY StopInvInit
<1>2. StopInv /\ [Next]_vars => StopInv'
  BY StopInvStep
<1>3. StopInv => StopSupersedes
  BY DEF StopInv, TickParts, MotorCurrent, StopSupersedes
<1> QED BY <1>1, <1>2, <1>3, PTL DEF Spec
=============================================================================
