---------------------------- MODULE LegoPortProofs ----------------------------
(***************************************************************************)
(* The pins, the waiter and the supply rail of one port, for any number of *)
(* plugs, faults and stalls, any match count and any streak; then what a   *)
(* device that is SYNCED has told, for any number of modes on its side and *)
(* on the engine's, and any loss of frames (Sync, an instance of LumpSync).*)
(***************************************************************************)
EXTENDS LegoPortSession, TLAPS

Idle == {"backoff", "waiting"}

\* The port has been handed over, or the worker is in the middle of doing so.
Given == dcm = "owned" \/ worker = "applying"

\* A port the device manager has parked has nothing under way in the worker.
ParkedIsQuiet == dcm = "owned" => worker = "ready"

\* While the engine is idle its handoff is registered, and taken exactly when the port
\* has been given.
IdleGiven == kt \in Idle => cb /\ (handed <=> Given)

\* In a session the handoff was taken and the port is still given.
SessionGiven == kt \in Session => cb /\ ~handed /\ Given

\* A withdrawn handoff is not applied: the port is not given afterwards, except that a
\* worker in the call has yet to find out.
DrainingWithdrawn ==
  kt = "draining" =>
    /\ ~cb /\ ~fresh /\ ~handed /\ dcm # "owned" /\ worker # "calling"
    /\ (worker = "applying" <=> quiesce = 0)
ReleasedWithdrawn == kt = "released" => ~cb /\ ~handed /\ dcm # "owned" /\ ~InFlight

\* A handoff in flight is the registered one, or its withdrawal is waiting for it; a
\* call that has not been made has not been taken.
FlightIsFresh ==
  /\ InFlight /\ kt # "draining" => fresh
  /\ worker = "calling" => kt \in Idle
  /\ quiesce > 0 => kt = "draining"

\* Posts are the watchdog's, and one of a handoff that was not taken.
PostsCounted == wakeup <= stalls + (IF handed THEN 1 ELSE 0)

HandoffInv ==
  /\ ParkedIsQuiet /\ IdleGiven /\ SessionGiven
  /\ DrainingWithdrawn /\ ReleasedWithdrawn /\ FlightIsFresh

\* A port that waits for its rescan, or is in it, has not seen enough of it.
StreaksOpen == dcm = "idle" \/ scan.rescan => scan.disc < Streak /\ scan.other < Streak

PInv == TypeOK /\ HandoffInv /\ StreaksOpen /\ PostsCounted /\ NoMissedEdge /\ SupplyHeld

-----------------------------------------------------------------------------

\* An empty port is classified as one.
LEMMA NothingIsNone == "NONE" \in Classes
<1>1. Classify(Levels("none")) = Classify(Empty)
  BY DEF Levels
<1>2. Id1Group(Empty) = "open" /\ Id2Group(Empty) = "vcc"
  BY DEF Id1Group, Id2Group, Empty
<1>3. Classify(Empty) = "NONE"
  BY <1>2 DEF Classify, Empty
<1> QED BY <1>1, <1>3 DEF Classes, Devices

LEMMA PInvInit == Init => PInv
<1> SUFFICES ASSUME Init PROVE PInv
  OBVIOUS
<1>1. TypeOK
  <2>1. timely \in BOOLEAN /\ holder \in {"wait", "drive"}
    BY PortAssumption DEF Init
  <2>2. scan \in [prev : Classes, match : 0 .. Match, rescan : BOOLEAN, disc : 0 .. Streak,
                  other : 0 .. Streak, otherType : Classes]
    BY NothingIsNone, PortAssumption DEF Init, NoScan
  <2>3. 0 \in 0 .. MaxPlugs /\ 0 \in 0 .. MaxBackoff /\ 0 \in 0 .. MaxStalls
        /\ 0 \in 0 .. MaxFaults /\ 0 \in 0 .. MaxStalls + 2 /\ 0 \in 0 .. 1
    BY PortAssumption
  <2>4. ctype \in Classes /\ device \in Devices /\ peer \in Devices
    BY NothingIsNone DEF Init, Devices
  <2>5. /\ plugs \in 0 .. MaxPlugs /\ quiesce \in 0 .. 1 /\ wakeup \in 0 .. MaxStalls + 2
        /\ step \in 0 .. MaxBackoff /\ nap \in 0 .. MaxBackoff /\ stalls \in 0 .. MaxStalls
        /\ sem \in 0 .. 1 /\ faults \in 0 .. MaxFaults
    BY <2>3 DEF Init
  <2>6. /\ settled \in BOOLEAN /\ cb \in BOOLEAN /\ fresh \in BOOLEAN /\ handed \in BOOLEAN
        /\ synced \in BOOLEAN /\ armed \in BOOLEAN /\ stall \in BOOLEAN
        /\ pinned \in BOOLEAN /\ drove \in BOOLEAN
        /\ target \in BOOLEAN /\ moved \in BOOLEAN /\ unseen \in BOOLEAN
        /\ begun \in BOOLEAN
    BY DEF Init
  <2>7. /\ dcm \in {"scan", "final", "owned", "idle"}
        /\ worker \in {"ready", "entering", "calling", "applying", "falling"}
        /\ kt \in Session \cup {"waiting", "draining", "released", "backoff"}
        /\ ret \in {"ok", "error", "intr"}
        /\ bridge \in {"coast", "brake", "fwd", "rev"}
        /\ waiter \in {"out", "checking", "falling", "asleep", "looking"}
    BY DEF Init
  <2> QED BY <2>1, <2>2, <2>4, <2>5, <2>6, <2>7 DEF TypeOK
<1>2. HandoffInv
  BY DEF Init, HandoffInv, ParkedIsQuiet, IdleGiven, SessionGiven, DrainingWithdrawn,
         ReleasedWithdrawn, FlightIsFresh, Given, Idle, InFlight, Session, Streams
<1> QED BY <1>1, <1>2, PortAssumption
        DEF Init, PInv, PostsCounted, NoMissedEdge, SupplyHeld, Streams, StreaksOpen, NoScan

\* Posting a class keeps the waiter's part of the state typed and its edge unmissed.
LEMMA PostStep ==
  ASSUME TypeOK, NoMissedEdge, NEW t \in Classes, Post(t)
  PROVE  /\ ctype' \in Classes
         /\ waiter' \in {"out", "checking", "falling", "asleep", "looking"}
         /\ target' \in BOOLEAN /\ moved' \in BOOLEAN /\ unseen' \in BOOLEAN
         /\ begun' \in BOOLEAN /\ sem' \in 0 .. 1
         /\ NoMissedEdge'
<1>1. CASE t = ctype
  BY <1>1 DEF Post, TypeOK, NoMissedEdge
<1>2. CASE t # ctype
  <2>1. ctype' = t /\ moved' = TRUE /\ begun' = TRUE /\ target' = target /\ unseen' = unseen
    BY <1>2 DEF Post
  <2>2. CASE waiter = "asleep"
    BY <1>2, <2>1, <2>2 DEF Post, TypeOK, NoMissedEdge
  <2>3. CASE waiter # "asleep"
    BY <1>2, <2>1, <2>3 DEF Post, TypeOK, NoMissedEdge
  <2> QED BY <2>2, <2>3
<1> QED BY <1>1, <1>2

\* What a step leaves alone keeps its part of the invariant.
LEMMA Frames ==
  ASSUME PInv
  PROVE  /\ UNCHANGED <<dcm, worker, kt, cb, fresh, handed, quiesce>> => HandoffInv'
         /\ UNCHANGED <<wakeup, stalls, handed>> => PostsCounted'
         /\ UNCHANGED <<dcm, scan>> => StreaksOpen'
         /\ UNCHANGED <<waiter, moved, sem>> => NoMissedEdge'
         /\ UNCHANGED <<kt, peer, pinned, bridge>> => SupplyHeld'
<1>1. UNCHANGED <<dcm, worker, kt, cb, fresh, handed, quiesce>> => HandoffInv'
  BY DEF PInv, HandoffInv, ParkedIsQuiet, IdleGiven, SessionGiven, DrainingWithdrawn,
         ReleasedWithdrawn, FlightIsFresh, Given, InFlight
<1>2. UNCHANGED <<wakeup, stalls, handed>> => PostsCounted'
  BY DEF PInv, PostsCounted
<1>3. UNCHANGED <<waiter, moved, sem>> => NoMissedEdge'
  BY DEF PInv, NoMissedEdge
<1>4. UNCHANGED <<kt, peer, pinned, bridge>> => SupplyHeld'
  BY DEF PInv, SupplyHeld
<1>5. UNCHANGED <<dcm, scan>> => StreaksOpen'
  BY DEF PInv, StreaksOpen
<1> QED BY <1>1, <1>2, <1>3, <1>4, <1>5

LEMMA PlugStep ==
  ASSUME PInv, NEW d \in Devices, Plug(d)
  PROVE  PInv'
<1>1. TypeOK /\ UNCHANGED <<dcmVars, regVars, engineVars, dogVars, bridgeVars, waitVars>>
  BY DEF PInv, Plug
<1>2. device' \in Devices /\ settled' \in BOOLEAN /\ plugs' \in 0 .. MaxPlugs
  <2>1. plugs \in 0 .. MaxPlugs /\ plugs < MaxPlugs /\ plugs' = plugs + 1
    BY <1>1 DEF Plug, TypeOK
  <2>2. plugs' \in 0 .. MaxPlugs
    BY <2>1, PortAssumption
  <2> QED BY <2>2 DEF Plug
<1>3. UNCHANGED <<timely, holder, ctype, faults>>
  BY DEF Plug
<1>4. TypeOK'
  BY <1>1, <1>2, <1>3 DEF TypeOK, dcmVars, regVars, engineVars, dogVars, bridgeVars,
     waitVars
<1> QED BY <1>1, <1>4, Frames
        DEF PInv, dcmVars, regVars, engineVars, dogVars, bridgeVars, waitVars

LEMMA WaiterStep ==
  ASSUME PInv, WaitStart \/ WaitCheck \/ WaitSleep \/ WaitLook \/ WaitEnds
  PROVE  PInv'
<1>1. TypeOK /\ NoMissedEdge /\ UNCHANGED waitKept
  BY DEF PInv, WaitStart, WaitCheck, WaitSleep, WaitLook, WaitEnds
<1>2. /\ waiter' \in {"out", "checking", "falling", "asleep", "looking"}
      /\ target' \in BOOLEAN /\ moved' \in BOOLEAN /\ unseen' \in BOOLEAN
      /\ sem' \in 0 .. 1
      /\ NoMissedEdge'
  <2>1. CASE WaitStart
    BY <1>1, <2>1 DEF WaitStart, TypeOK, NoMissedEdge
  <2>2. CASE WaitCheck
    BY <1>1, <2>2 DEF WaitCheck, TypeOK, NoMissedEdge
  <2>3. CASE WaitSleep
    BY <1>1, <2>3 DEF WaitSleep, TypeOK, NoMissedEdge
  <2>4. CASE WaitLook \/ WaitEnds
    BY <1>1, <2>4 DEF WaitLook, WaitEnds, TypeOK, NoMissedEdge
  <2> QED BY <2>1, <2>2, <2>3, <2>4
<1>3. TypeOK'
  BY <1>1, <1>2 DEF TypeOK, waitKept, plugVars, dcmVars, regVars, engineVars, dogVars,
     bridgeVars
<1> QED BY <1>1, <1>2, <1>3, Frames
        DEF PInv, waitKept, dcmVars, regVars, engineVars, dogVars, bridgeVars

\* A reading leaves the port unparked and the worker at most about to hand it over.
LEMMA FinalizeStep ==
  ASSUME PInv, NEW t \in Classes, worker = "ready", Finalize(t)
  PROVE  /\ dcm' \in {"scan", "final", "idle"} /\ worker' \in {"ready", "entering"}
         /\ scan' \in [prev : Classes, match : 0 .. Match, rescan : BOOLEAN, disc : 0 .. Streak,
                       other : 0 .. Streak, otherType : Classes]
         /\ StreaksOpen'
         /\ ctype' \in Classes
         /\ waiter' \in {"out", "checking", "falling", "asleep", "looking"}
         /\ target' \in BOOLEAN /\ moved' \in BOOLEAN /\ unseen' \in BOOLEAN
         /\ begun' \in BOOLEAN /\ sem' \in 0 .. 1
         /\ NoMissedEdge'
<1> DEFINE Scans == [prev : Classes, match : 0 .. Match, rescan : BOOLEAN, disc : 0 .. Streak,
                     other : 0 .. Streak, otherType : Classes]
<1> DEFINE m == IF t # scan.prev THEN 0 ELSE IF scan.match < Match THEN scan.match + 1 ELSE Match
<1> DEFINE next == [scan EXCEPT !.prev = t, !.match = m]
<1>1. TypeOK /\ NoMissedEdge /\ StreaksOpen /\ scan \in Scans
  BY DEF PInv, TypeOK
<1>2. m \in 0 .. Match
  BY <1>1, PortAssumption
<1>3. next \in Scans /\ next.rescan = scan.rescan /\ next.disc = scan.disc
      /\ next.other = scan.other
  <2> HIDE DEF m
  <2> QED BY <1>1, <1>2
<1>4. CASE t # scan.prev \/ m < Match
  <2>1. dcm' = "scan" /\ scan' = next /\ UNCHANGED <<worker, ctype, waitVars>>
    BY <1>4 DEF Finalize
  <2> QED BY <1>1, <1>3, <2>1 DEF TypeOK, NoMissedEdge, waitVars, StreaksOpen
<1>5. CASE ~(t # scan.prev \/ m < Match)
  <2>1. Post(t)
    BY <1>5 DEF Finalize
  <2>2. CASE scan.rescan
    <3>1. Rescanned(t) /\ worker' = worker
      BY <1>5, <2>2 DEF Finalize
    <3> DEFINE n == CASE t = "UNKNOWN_UART" -> 0
                      [] t = "NONE" -> scan.disc + 1
                      [] OTHER -> IF scan.otherType = t THEN scan.other + 1 ELSE 1
    <3> DEFINE kept == [scan EXCEPT !.rescan = FALSE,
                         !.disc = IF t \in {"NONE", "UNKNOWN_UART"} THEN n ELSE @,
                         !.other = IF t = "NONE" THEN @ ELSE n,
                         !.otherType = IF t \in {"NONE", "UNKNOWN_UART"} THEN @ ELSE t]
    <3>2. n \in 0 .. Streak
      BY <1>1, <2>2, PortAssumption DEF StreaksOpen
    <3>3. /\ kept \in Scans /\ kept.rescan = FALSE
          /\ n < Streak => kept.disc < Streak /\ kept.other < Streak
      <4> HIDE DEF n
      <4> QED BY <1>1, <2>2, <3>2 DEF StreaksOpen
    <3>4. IF n >= Streak
          THEN dcm' = "scan" /\ scan' = [kept EXCEPT !.match = 0, !.prev = "NONE"]
          ELSE dcm' = "idle" /\ scan' = kept
      BY <3>1 DEF Rescanned
    <3>5. dcm' \in {"scan", "idle"} /\ scan' \in Scans /\ StreaksOpen'
      <4> HIDE DEF n, kept
      <4>1. CASE n >= Streak
        <5>1. dcm' = "scan" /\ scan' = [kept EXCEPT !.match = 0, !.prev = "NONE"]
          BY <3>4, <4>1
        <5>2. 0 \in 0 .. Match
          BY PortAssumption
        <5>3. scan' \in Scans /\ scan'.rescan = FALSE
          BY <3>3, <5>1, <5>2, NothingIsNone
        <5> QED BY <5>1, <5>3 DEF StreaksOpen
      <4>2. CASE ~(n >= Streak)
        <5>1. dcm' = "idle" /\ scan' = kept /\ n < Streak
          BY <3>2, <3>4, <4>2, PortAssumption
        <5> QED BY <3>3, <5>1 DEF StreaksOpen
      <4> QED BY <4>1, <4>2
    <3> QED BY <1>1, <2>1, <3>1, <3>5, PostStep
  <2>3. CASE ~scan.rescan
    <3>1. dcm' \in {"scan", "final"} /\ worker' \in {"ready", "entering"} /\ scan' = next
      BY <1>5, <2>3 DEF Finalize
    <3>2. StreaksOpen'
      BY <1>3, <2>3, <3>1 DEF StreaksOpen
    <3> QED BY <1>1, <1>3, <2>1, <3>1, <3>2, PostStep
  <2> QED BY <2>2, <2>3
<1> QED BY <1>4, <1>5

LEMMA ScanStep ==
  ASSUME PInv, Scan \/ Again
  PROVE  PInv'
<1>1. TypeOK /\ dcm \in {"scan", "final"} /\ worker = "ready" /\ UNCHANGED dcmKept
      /\ settled' \in BOOLEAN
  BY DEF PInv, Scan, Again, TypeOK
<1>2. PICK t \in Classes : Finalize(t)
  <2>1. CASE Scan
    BY <2>1 DEF Scan
  <2>2. CASE Again
    BY <1>1, <2>2 DEF Again, TypeOK
  <2> QED BY <2>1, <2>2
<1>3. /\ dcm' \in {"scan", "final", "idle"} /\ worker' \in {"ready", "entering"}
      /\ scan' \in [prev : Classes, match : 0 .. Match, rescan : BOOLEAN, disc : 0 .. Streak,
                    other : 0 .. Streak, otherType : Classes]
      /\ StreaksOpen'
      /\ ctype' \in Classes
      /\ waiter' \in {"out", "checking", "falling", "asleep", "looking"}
      /\ target' \in BOOLEAN /\ moved' \in BOOLEAN /\ unseen' \in BOOLEAN
      /\ begun' \in BOOLEAN /\ sem' \in 0 .. 1
      /\ NoMissedEdge'
  BY <1>1, <1>2, FinalizeStep
<1>4. TypeOK'
  BY <1>1, <1>3 DEF TypeOK, dcmKept, regVars, engineVars, dogVars, bridgeVars
<1>5. HandoffInv'
  <2>1. UNCHANGED <<kt, cb, fresh, handed, quiesce>>
    BY <1>1 DEF dcmKept, regVars, engineVars
  <2> QED BY <1>1, <1>3, <2>1
          DEF PInv, HandoffInv, ParkedIsQuiet, IdleGiven, SessionGiven, DrainingWithdrawn,
         ReleasedWithdrawn, FlightIsFresh, Given, InFlight, Idle, Session, Streams
<1> QED BY <1>1, <1>3, <1>4, <1>5, Frames
        DEF PInv, dcmKept, engineVars, dogVars, bridgeVars

LEMMA RearmStep ==
  ASSUME PInv, Rearm
  PROVE  PInv'
<1>1. TypeOK /\ UNCHANGED <<dcmKept, settled, worker, ctype, waitVars>> /\ dcm = "idle"
  BY DEF PInv, Rearm
<1>2. scan' \in [prev : Classes, match : 0 .. Match, rescan : BOOLEAN, disc : 0 .. Streak,
                 other : 0 .. Streak, otherType : Classes]
      /\ dcm' = "scan" /\ StreaksOpen'
  <2>1. 0 \in 0 .. Match
    BY PortAssumption
  <2> QED BY <1>1, <2>1, NothingIsNone DEF Rearm, TypeOK, PInv, StreaksOpen
<1>3. TypeOK'
  BY <1>1, <1>2 DEF TypeOK, dcmKept, regVars, engineVars, dogVars, bridgeVars, waitVars
<1>4. HandoffInv'
  <2>1. UNCHANGED <<kt, cb, fresh, handed, quiesce, worker>>
    BY <1>1 DEF dcmKept, regVars, engineVars
  <2> QED BY <1>1, <1>2, <2>1
          DEF PInv, HandoffInv, ParkedIsQuiet, IdleGiven, SessionGiven, DrainingWithdrawn,
         ReleasedWithdrawn, FlightIsFresh, Given, InFlight, Idle, Session, Streams
<1> QED BY <1>1, <1>2, <1>3, <1>4, Frames
        DEF PInv, dcmKept, engineVars, dogVars, bridgeVars, waitVars

\* The call that hands the port over, in its parts.
LEMMA InvokeStep ==
  ASSUME PInv, InvokeEnter \/ HandoffCb \/ InvokeApply \/ InvokeUnowned
  PROVE  PInv'
<1>0. TypeOK /\ HandoffInv /\ UNCHANGED invokeKept
  BY DEF PInv, InvokeEnter, HandoffCb, InvokeApply, InvokeUnowned
<1>1. UNCHANGED <<plugVars, ctype, cb, kt, synced, peer, ret, step, nap, dogVars, bridgeVars,
                  waitVars, faults>>
  BY <1>0 DEF invokeKept
<1>2. CASE InvokeEnter
  <2>1. worker' \in {"calling", "falling"} /\ fresh' \in BOOLEAN
        /\ UNCHANGED <<dcm, scan, quiesce, wakeup, handed>>
    BY <1>0, <1>2 DEF InvokeEnter, TypeOK
  <2>2. TypeOK'
    BY <1>0, <1>1, <2>1 DEF TypeOK, plugVars, dogVars, bridgeVars, waitVars
  <2>3. HandoffInv'
    BY <1>0, <1>1, <1>2
       DEF InvokeEnter, TypeOK, HandoffInv, ParkedIsQuiet, IdleGiven, SessionGiven,
          DrainingWithdrawn,
         ReleasedWithdrawn, FlightIsFresh, Given, InFlight, Idle, Session, Streams
  <2> QED BY <1>1, <2>1, <2>2, <2>3, Frames DEF PInv, dogVars, bridgeVars, waitVars
<1>3. CASE HandoffCb
  <2>1. worker = "calling" /\ worker' = "applying" /\ handed' = TRUE /\ wakeup' = wakeup + 1
        /\ UNCHANGED <<dcm, scan, regVars>>
    BY <1>3 DEF HandoffCb
  <2>2. kt \in Idle /\ ~handed
    BY <1>0, <2>1 DEF TypeOK, HandoffInv, FlightIsFresh, IdleGiven, ParkedIsQuiet, Given
  <2>3. wakeup' \in 0 .. MaxStalls + 2 /\ PostsCounted'
    <3>1. wakeup \in Nat /\ stalls \in 0 .. MaxStalls /\ stalls' = stalls /\ wakeup <= stalls
      BY <1>0, <1>1, <2>2, PortAssumption DEF TypeOK, PInv, PostsCounted, dogVars
    <3> QED BY <2>1, <3>1, PortAssumption DEF PostsCounted
  <2>4. TypeOK'
    BY <1>0, <1>1, <2>1, <2>3 DEF TypeOK, plugVars, dogVars, bridgeVars, waitVars, regVars
  <2>5. HandoffInv'
    BY <1>0, <1>1, <2>1, <2>2
       DEF regVars, HandoffInv, ParkedIsQuiet, IdleGiven, SessionGiven, DrainingWithdrawn,
         ReleasedWithdrawn, FlightIsFresh, Given, InFlight, Idle, Session, Streams
  <2> QED BY <1>1, <2>1, <2>3, <2>4, <2>5, Frames DEF PInv, bridgeVars, waitVars
<1>4. CASE InvokeApply
  <2>1. worker = "applying" /\ worker' = "ready" /\ dcm' = (IF fresh THEN "owned" ELSE dcm)
        /\ quiesce' = (IF kt = "draining" THEN quiesce + 1 ELSE quiesce)
        /\ UNCHANGED <<scan, fresh, wakeup, handed>>
    BY <1>4 DEF InvokeApply
  <2>2. dcm # "owned" /\ (kt = "draining" => quiesce = 0)
    BY <1>0, <2>1 DEF TypeOK, HandoffInv, ParkedIsQuiet, DrainingWithdrawn
  <2>3. quiesce' \in 0 .. 1 /\ dcm' \in {"scan", "final", "owned", "idle"}
    BY <1>0, <2>1, <2>2 DEF TypeOK
  <2>4. TypeOK'
    BY <1>0, <1>1, <2>1, <2>3 DEF TypeOK, plugVars, dogVars, bridgeVars, waitVars
  <2>5. HandoffInv'
    BY <1>0, <1>1, <2>1, <2>2
       DEF TypeOK, HandoffInv, ParkedIsQuiet, IdleGiven, SessionGiven, DrainingWithdrawn,
         ReleasedWithdrawn, FlightIsFresh, Given, InFlight, Idle, Session, Streams
  <2>6. StreaksOpen'
    BY <2>1, <2>2 DEF PInv, StreaksOpen
  <2> QED BY <1>1, <2>1, <2>4, <2>5, <2>6, Frames DEF PInv, dogVars, bridgeVars, waitVars
<1>5. CASE InvokeUnowned
  <2>1. /\ worker = "falling" /\ worker' = "ready" /\ dcm' = "idle"
        /\ scan' = [scan EXCEPT !.rescan = FALSE, !.disc = 0, !.other = 0, !.otherType = "NONE"]
        /\ UNCHANGED <<regVars, wakeup, handed>>
    BY <1>5 DEF InvokeUnowned
  <2>2. scan' \in [prev : Classes, match : 0 .. Match, rescan : BOOLEAN, disc : 0 .. Streak,
                   other : 0 .. Streak, otherType : Classes] /\ StreaksOpen'
    <3>1. 0 \in 0 .. Streak /\ 0 < Streak
      BY PortAssumption
    <3> QED BY <1>0, <2>1, <3>1, NothingIsNone DEF TypeOK, StreaksOpen
  <2>3. TypeOK'
    BY <1>0, <1>1, <2>1, <2>2 DEF TypeOK, plugVars, dogVars, bridgeVars, waitVars, regVars
  <2>4. HandoffInv'
    BY <1>0, <1>1, <2>1
       DEF regVars, TypeOK, HandoffInv, ParkedIsQuiet, IdleGiven, SessionGiven,
          DrainingWithdrawn,
         ReleasedWithdrawn, FlightIsFresh, Given, InFlight, Idle, Session, Streams
  <2> QED BY <1>1, <2>1, <2>2, <2>3, <2>4, Frames DEF PInv, dogVars, bridgeVars, waitVars
<1> QED BY <1>2, <1>3, <1>4, <1>5

\* A session that goes on, or ends, still owns the port.
LEMMA SessionGoesOn ==
  ASSUME PInv, kt \in Session, kt' \in Session,
         UNCHANGED <<dcm, worker, cb, fresh, handed, quiesce>>
  PROVE  HandoffInv'
BY DEF PInv, HandoffInv, ParkedIsQuiet, IdleGiven, SessionGiven, DrainingWithdrawn,
         ReleasedWithdrawn, FlightIsFresh, Given, InFlight, Idle, Session, Streams

\* A handoff is taken up, or a spurious post dropped.
LEMMA TakeStep ==
  ASSUME PInv, Take
  PROVE  PInv'
<1>1. TypeOK /\ HandoffInv /\ UNCHANGED sessionKept /\ UNCHANGED <<ret, armed, stall, faults>>
  BY DEF PInv, Take
<1>2. UNCHANGED <<plugVars, dcmVars, ctype, regVars, step, nap, stalls, waitVars, drove>>
  BY <1>1 DEF sessionKept
<1>3. kt = "waiting" /\ wakeup > 0 /\ wakeup' = wakeup - 1 /\ handed' = FALSE
  BY DEF Take
<1>4. IF handed
      THEN kt' = "search" /\ synced' = FALSE /\ peer' = "none"
           /\ pinned' = FALSE /\ bridge' = "coast"
      ELSE UNCHANGED <<kt, synced, peer, pinned, bridge>>
  BY DEF Take
<1>5. wakeup' \in 0 .. MaxStalls + 2 /\ PostsCounted'
  <2>1. wakeup \in 0 .. MaxStalls + 2 /\ stalls \in 0 .. MaxStalls /\ stalls' = stalls
        /\ wakeup <= stalls + 1
    BY <1>1, <1>2, PortAssumption DEF TypeOK, PInv, PostsCounted
  <2>2. handed => wakeup - 1 <= stalls
    BY <2>1, PortAssumption
  <2>3. ~handed => wakeup <= stalls
    BY <2>1 DEF PInv, PostsCounted
  <2>4. wakeup - 1 <= stalls /\ wakeup - 1 \in 0 .. MaxStalls + 2
    BY <2>1, <2>2, <2>3, <1>3, PortAssumption
  <2> QED BY <1>3, <2>1, <2>4 DEF PostsCounted
<1>6. kt' \in Session \cup {"waiting"} /\ synced' \in BOOLEAN /\ peer' \in Devices
      /\ pinned' \in BOOLEAN /\ bridge' \in {"coast", "brake", "fwd", "rev"}
  BY <1>1, <1>3, <1>4 DEF TypeOK, Session, Devices
<1>7. TypeOK'
  <2>1. UNCHANGED <<device, settled, plugs, timely, holder, dcm, worker, scan, ctype, cb, fresh,
                    quiesce, step, nap, stalls, waiter, target, moved, unseen, begun, sem, drove,
                    ret, armed, stall, faults>>
    BY <1>1, <1>2 DEF plugVars, dcmVars, regVars, waitVars
  <2>2. handed' \in BOOLEAN
        /\ kt' \in Session \cup {"waiting", "draining", "released", "backoff"}
    BY <1>3, <1>6
  <2> QED BY <1>1, <1>5, <1>6, <2>1, <2>2 DEF TypeOK
<1>8. HandoffInv'
  BY <1>1, <1>2, <1>3, <1>4
     DEF dcmVars, regVars, HandoffInv, ParkedIsQuiet, IdleGiven, SessionGiven,
        DrainingWithdrawn,
         ReleasedWithdrawn, FlightIsFresh, Given, InFlight, Idle, Session, Streams
<1>9. SupplyHeld'
  BY <1>3, <1>4 DEF SupplyHeld, Streams
<1> QED BY <1>2, <1>5, <1>7, <1>8, <1>9, Frames DEF PInv, dcmVars, waitVars

\* The announcement of a device.
LEMMA SyncStep ==
  ASSUME PInv, Header \/ SyncFails \/ SyncEnds
  PROVE  PInv'
<1>1. TypeOK /\ UNCHANGED sessionKept /\ UNCHANGED <<wakeup, handed>>
  BY DEF PInv, Header, SyncFails, SyncEnds
<1>2. UNCHANGED <<plugVars, dcmVars, ctype, regVars, step, nap, stalls, waitVars, drove>>
  BY <1>1 DEF sessionKept
<1>3. kt \in Session /\ kt' \in Session
  BY DEF Header, SyncFails, SyncEnds, End, Session, Streams
<1>4. /\ synced' \in BOOLEAN /\ peer' \in Devices /\ ret' \in {"ok", "error", "intr"}
      /\ armed' \in BOOLEAN /\ stall' \in BOOLEAN /\ pinned' \in BOOLEAN
      /\ bridge' \in {"coast", "brake", "fwd", "rev"} /\ faults' \in 0 .. MaxFaults
      /\ SupplyHeld'
  <2>1. CASE Header
    BY <1>1, <2>1 DEF Header, TypeOK, SupplyHeld, Streams
  <2>2. CASE SyncFails
    <3>1. faults' \in 0 .. MaxFaults
      <4>1. faults' = faults \/ (faults < MaxFaults /\ faults' = faults + 1)
        BY <2>2 DEF SyncFails
      <4>2. faults \in 0 .. MaxFaults
        BY <1>1 DEF TypeOK
      <4> QED BY <4>1, <4>2, PortAssumption
    <3> QED BY <1>1, <2>2, <3>1 DEF SyncFails, End, TypeOK, SupplyHeld, Streams
  <2>3. CASE SyncEnds
    BY <1>1, <2>3 DEF SyncEnds, TypeOK, SupplyHeld, Streams
  <2> QED BY <2>1, <2>2, <2>3
<1>5. TypeOK'
  BY <1>1, <1>2, <1>3, <1>4 DEF TypeOK, plugVars, dcmVars, regVars, waitVars
<1>6. HandoffInv'
  BY <1>1, <1>2, <1>3, SessionGoesOn DEF dcmVars, regVars
<1> QED BY <1>1, <1>2, <1>4, <1>5, <1>6, Frames DEF PInv, dcmVars, waitVars

\* The DATA loop.
LEMMA LoopStep ==
  ASSUME PInv, LoopTop \/ LoopReceives \/ LoopEnds \/ LoopPolls \/ LoopPets
  PROVE  PInv'
<1>1. TypeOK /\ UNCHANGED loopKept
  BY DEF PInv, LoopTop, LoopReceives, LoopEnds, LoopPolls, LoopPets
<1>2. UNCHANGED <<plugVars, dcmVars, ctype, regVars, step, nap, stalls, waitVars, drove,
                  handed, synced, peer, bridge, pinned>>
  BY <1>1 DEF loopKept, sessionKept
<1>3. kt \in Streams /\ kt' \in Streams \cup {"closing"}
  BY DEF LoopTop, LoopReceives, LoopEnds, LoopPolls, LoopPets, End, Streams
<1>4. ret' \in {"ok", "error", "intr"} /\ armed' \in BOOLEAN /\ stall' \in BOOLEAN
  BY <1>1 DEF LoopTop, LoopReceives, LoopEnds, LoopPolls, LoopPets, End, TypeOK
<1>5. faults' \in 0 .. MaxFaults
  <2>1. faults' = faults \/ (faults < MaxFaults /\ faults' = faults + 1)
    BY DEF LoopTop, LoopReceives, LoopEnds, LoopPolls, LoopPets
  <2>2. faults \in 0 .. MaxFaults
    BY <1>1 DEF TypeOK
  <2> QED BY <2>1, <2>2, PortAssumption
<1>6. wakeup' \in 0 .. MaxStalls + 2 /\ wakeup' <= wakeup
  <2>1. wakeup' = wakeup \/ (wakeup # 0 /\ wakeup' = wakeup - 1)
    BY DEF LoopTop, LoopReceives, LoopEnds, LoopPolls, LoopPets
  <2>2. wakeup \in 0 .. MaxStalls + 2
    BY <1>1 DEF TypeOK
  <2> QED BY <2>1, <2>2, PortAssumption
<1>7. PostsCounted'
  <2>1. wakeup \in Nat /\ stalls \in Nat /\ wakeup' \in Nat /\ stalls' = stalls /\ handed' = handed
    BY <1>1, <1>2, <1>6, PortAssumption DEF TypeOK
  <2>2. wakeup <= stalls + (IF handed THEN 1 ELSE 0)
    BY DEF PInv, PostsCounted
  <2> QED BY <2>1, <2>2, <1>6 DEF PostsCounted
<1>8. TypeOK'
  BY <1>1, <1>2, <1>3, <1>4, <1>5, <1>6
     DEF TypeOK, plugVars, dcmVars, regVars, waitVars, Session, Streams
<1>9. HandoffInv'
  BY <1>2, <1>3, SessionGoesOn DEF dcmVars, regVars, Session
<1>10. SupplyHeld'
  BY <1>2, <1>3 DEF PInv, SupplyHeld
<1> QED BY <1>2, <1>7, <1>8, <1>9, <1>10, Frames DEF PInv, dcmVars, waitVars

LEMMA WatchdogStep ==
  ASSUME PInv, WatchdogFires
  PROVE  PInv'
<1>1. TypeOK /\ UNCHANGED <<plugVars, dcmVars, ctype, regVars, kt, handed, synced, peer, ret, step,
                            nap, bridgeVars, waitVars, faults>>
      /\ armed' = FALSE /\ stall' = TRUE
  BY DEF PInv, WatchdogFires
<1>2. stalls < MaxStalls /\ stalls' = stalls + 1 /\ wakeup' = wakeup + 1
  BY DEF WatchdogFires
<1>3. wakeup \in Nat /\ stalls \in 0 .. MaxStalls /\ wakeup <= stalls + (IF handed THEN 1 ELSE 0)
  BY <1>1, PortAssumption DEF TypeOK, PInv, PostsCounted
<1>4. stalls' \in 0 .. MaxStalls /\ wakeup' \in 0 .. MaxStalls + 2 /\ PostsCounted'
  <2>1. stalls' \in 0 .. MaxStalls
    BY <1>2, <1>3, PortAssumption
  <2>2. wakeup' <= stalls' + (IF handed THEN 1 ELSE 0)
    BY <1>2, <1>3, PortAssumption
  <2>3. wakeup' <= MaxStalls + 1 /\ wakeup' \in Nat
    BY <1>2, <1>3, PortAssumption
  <2>4. wakeup' \in 0 .. MaxStalls + 2
    BY <2>3, PortAssumption
  <2>5. PostsCounted'
    BY <1>1, <2>2 DEF PostsCounted
  <2> QED BY <2>1, <2>4, <2>5
<1>5. TypeOK'
  <2>1. armed' \in BOOLEAN /\ stall' \in BOOLEAN
    BY <1>1
  <2>2. UNCHANGED <<device, settled, plugs, timely, holder, dcm, worker, scan, ctype, cb, fresh,
                    quiesce, kt, handed, synced, peer, ret, step, nap, bridge, pinned,
                    drove,
                    waiter, target, moved, unseen, begun, sem, faults>>
    BY <1>1 DEF plugVars, dcmVars, regVars, bridgeVars, waitVars
  <2> QED BY <1>1, <1>4, <2>1, <2>2 DEF TypeOK
<1> QED BY <1>1, <1>4, <1>5, Frames DEF PInv, dcmVars, regVars, bridgeVars, waitVars

\* The port goes back to the device manager, which starts over.
LEMMA FreedStep ==
  ASSUME PInv, Freed
  PROVE  /\ dcm' = "scan" /\ kt' = "released" /\ StreaksOpen'
         /\ scan' \in [prev : Classes, match : 0 .. Match, rescan : BOOLEAN, disc : 0 .. Streak,
                       other : 0 .. Streak, otherType : Classes]
         /\ ctype' \in Classes
         /\ waiter' \in {"out", "checking", "falling", "asleep", "looking"}
         /\ target' \in BOOLEAN /\ moved' \in BOOLEAN /\ unseen' \in BOOLEAN
         /\ begun' \in BOOLEAN /\ sem' \in 0 .. 1
         /\ NoMissedEdge'
<1>1. Post("NONE") /\ scan' = NoScan /\ dcm' = "scan" /\ kt' = "released"
  BY DEF Freed
<1>2. TypeOK /\ NoMissedEdge
  BY DEF PInv
<1>3. StreaksOpen' /\ scan' \in [prev : Classes, match : 0 .. Match, rescan : BOOLEAN,
         disc : 0 .. Streak, other : 0 .. Streak, otherType : Classes]
  <2>1. 0 \in 0 .. Match /\ 0 \in 0 .. Streak
    BY PortAssumption
  <2> QED BY <1>1, <2>1, NothingIsNone DEF NoScan, StreaksOpen
<1> QED BY <1>1, <1>2, <1>3, PostStep, NothingIsNone

LEMMA ReleaseStep ==
  ASSUME PInv, Release \/ Drain
  PROVE  PInv'
<1>0. TypeOK /\ HandoffInv /\ UNCHANGED <<endKept, worker, handed, synced, ret, step, nap>>
  BY DEF PInv, Release, Drain
<1>1. UNCHANGED <<plugVars, wakeup, peer, dogVars, bridgeVars, faults, worker, handed, synced, ret,
                  step, nap>>
  BY <1>0 DEF endKept
<1>2. /\ kt \in {"closing", "draining"} /\ kt' \in {"draining", "released"}
      /\ quiesce' \in 0 .. 1 /\ cb' = FALSE /\ fresh' = FALSE
      /\ kt' = "draining" => InFlight /\ UNCHANGED <<dcm, scan, ctype, waitVars>>
      /\ kt' = "released" => Freed /\ ~InFlight
  <2>1. CASE Release
    BY <1>0, <2>1 DEF Release, Freed, TypeOK
  <2>2. CASE Drain
    <3>1. cb = FALSE /\ fresh = FALSE
      BY <1>0, <2>2 DEF Drain, TypeOK, HandoffInv, DrainingWithdrawn
    <3> QED BY <1>0, <2>2, <3>1 DEF Drain, Freed, TypeOK
  <2> QED BY <2>1, <2>2
<1>3. CASE kt' = "draining"
  <2>0. InFlight /\ UNCHANGED <<dcm, scan, ctype, waitVars>>
    BY <1>2, <1>3
  <2>1. TypeOK'
    <3>1. UNCHANGED <<device, settled, plugs, timely, holder, dcm, worker, scan, ctype, wakeup,
                      handed, synced, peer, ret, step, nap, armed, stall, stalls, bridge,
                      pinned, drove, waiter, target, moved, unseen, begun, sem, faults>>
      BY <1>1, <2>0 DEF plugVars, dogVars, bridgeVars, waitVars
    <3>2. cb' \in BOOLEAN /\ fresh' \in BOOLEAN /\ quiesce' \in 0 .. 1
          /\ kt' \in Session \cup {"waiting", "draining", "released", "backoff"}
      BY <1>2, <1>3
    <3> QED BY <1>0, <3>1, <3>2 DEF TypeOK
  <2>2. kt = "closing" /\ quiesce' = quiesce
    <3>1. CASE Release
      BY <3>1 DEF Release
    <3>2. CASE Drain
      BY <1>0, <2>0, <3>2 DEF Drain, HandoffInv, DrainingWithdrawn, InFlight, TypeOK
    <3> QED BY <3>1, <3>2
  <2>3. quiesce = 0 /\ worker = "applying" /\ dcm # "owned" /\ ~handed
    BY <1>0, <2>0, <2>2
       DEF TypeOK, HandoffInv, ParkedIsQuiet, IdleGiven, SessionGiven, DrainingWithdrawn,
         ReleasedWithdrawn, FlightIsFresh, Given, InFlight, Idle, Session, Streams
  <2>4. HandoffInv'
    BY <1>0, <1>1, <1>2, <1>3, <2>0, <2>2, <2>3
       DEF HandoffInv, ParkedIsQuiet, IdleGiven, SessionGiven, DrainingWithdrawn,
         ReleasedWithdrawn, FlightIsFresh, Given, InFlight, Idle, Session, Streams
  <2> QED BY <1>1, <1>2, <1>3, <2>0, <2>1, <2>4, Frames
     DEF PInv, dogVars, waitVars, SupplyHeld, Streams
<1>4. CASE kt' = "released"
  <2>0. ~InFlight /\ Freed
    BY <1>2, <1>4
  <2>1. TypeOK'
    <3>1. UNCHANGED <<device, settled, plugs, timely, holder, worker, wakeup, handed, synced,
                      peer, ret, step, nap, armed, stall, stalls, bridge, pinned, drove,
                      faults>>
      BY <1>1 DEF plugVars, dogVars, bridgeVars
    <3>2. cb' \in BOOLEAN /\ fresh' \in BOOLEAN /\ quiesce' \in 0 .. 1
          /\ kt' \in Session \cup {"waiting", "draining", "released", "backoff"}
          /\ dcm' \in {"scan", "final", "owned", "idle"}
      BY <1>2, <1>4, <2>0, FreedStep
    <3> QED BY <1>0, <2>0, <3>1, <3>2, FreedStep DEF TypeOK
  <2>2. quiesce' = 0 /\ ~handed
    <3>1. CASE Release
      BY <1>0, <3>1 DEF Release, HandoffInv, FlightIsFresh, SessionGiven, Session, TypeOK
    <3>2. CASE Drain
      BY <1>0, <3>2 DEF Drain, HandoffInv, DrainingWithdrawn, TypeOK
    <3> QED BY <3>1, <3>2
  <2>3. HandoffInv'
    <3>1. dcm' = "scan"
      BY <2>0 DEF Freed
    <3> QED BY <1>0, <1>1, <1>2, <1>4, <2>0, <2>2, <3>1
       DEF HandoffInv, ParkedIsQuiet, IdleGiven, SessionGiven, DrainingWithdrawn,
         ReleasedWithdrawn, FlightIsFresh, Given, InFlight, Idle, Session, Streams
  <2> QED BY <1>1, <1>4, <2>0, <2>1, <2>3, FreedStep, Frames
     DEF PInv, dogVars, SupplyHeld, Streams
<1> QED BY <1>2, <1>3, <1>4

LEMMA RestStep ==
  ASSUME PInv, Register \/ Wake
  PROVE  PInv'
<1>1. TypeOK /\ HandoffInv /\ UNCHANGED <<endKept, dcmVars, ctype, waitVars, quiesce, handed, ret>>
  BY DEF PInv, Register, Wake, regVars
<1>2. UNCHANGED <<plugVars, wakeup, peer, dogVars, bridgeVars, faults>>
  BY <1>1 DEF endKept
<1>3. /\ kt' \in Idle /\ cb' \in BOOLEAN /\ fresh' \in BOOLEAN /\ synced' \in BOOLEAN
  BY <1>1 DEF Register, Wake, regVars, Idle, TypeOK
<1>4. step' \in 0 .. MaxBackoff /\ nap' \in 0 .. MaxBackoff
  <2>1. step \in 0 .. MaxBackoff /\ nap \in 0 .. MaxBackoff
    BY <1>1 DEF TypeOK
  <2>2. CASE Register
    BY <2>1, <2>2, PortAssumption DEF Register
  <2>3. CASE Wake
    BY <2>1, <2>3 DEF Wake
  <2> QED BY <2>2, <2>3
<1>5. TypeOK'
  BY <1>1, <1>2, <1>3, <1>4
     DEF TypeOK, plugVars, dcmVars, dogVars, bridgeVars, waitVars, Idle
<1>6. HandoffInv'
  <2>1. CASE Register
    BY <1>1, <2>1
       DEF Register, dcmVars, TypeOK, HandoffInv, ParkedIsQuiet, IdleGiven,
          SessionGiven, DrainingWithdrawn,
         ReleasedWithdrawn, FlightIsFresh, Given, InFlight, Idle, Session, Streams
  <2>2. CASE Wake
    BY <1>1, <2>2
       DEF Wake, dcmVars, regVars, TypeOK, HandoffInv, ParkedIsQuiet, IdleGiven,
          SessionGiven, DrainingWithdrawn,
         ReleasedWithdrawn, FlightIsFresh, Given, InFlight, Idle, Session, Streams
  <2> QED BY <2>1, <2>2
<1> QED BY <1>1, <1>2, <1>3, <1>5, <1>6, Frames
        DEF PInv, dcmVars, dogVars, waitVars, SupplyHeld, Streams, Idle

LEMMA DescriptorStep ==
  ASSUME PInv, (\E b \in {"coast", "brake", "fwd"} : Drive(b)) \/ GetInfo \/ Reopen
  PROVE  PInv'
<1>1. TypeOK /\ UNCHANGED driveKept
  BY DEF PInv, Drive, GetInfo, Reopen
<1>2. /\ bridge' \in {"coast", "brake", "fwd", "rev"} /\ drove' \in BOOLEAN /\ moved' \in BOOLEAN
      /\ pinned => bridge' = bridge
      /\ moved' = moved \/ waiter = "out"
  BY <1>1 DEF Drive, GetInfo, Reopen, TypeOK
<1>3. TypeOK'
  BY <1>1, <1>2 DEF TypeOK, driveKept, plugVars, dcmVars, regVars, engineVars, dogVars
<1>4. NoMissedEdge' /\ SupplyHeld'
  BY <1>1, <1>2 DEF PInv, NoMissedEdge, SupplyHeld, driveKept, engineVars
<1> QED BY <1>1, <1>3, <1>4, Frames DEF PInv, driveKept, dcmVars, regVars, engineVars,
   dogVars

LEMMA PInvNext == PInv /\ [Next]_vars => PInv'
<1> SUFFICES ASSUME PInv, [Next]_vars PROVE PInv'
  OBVIOUS
<1>1. CASE \E d \in Devices : Plug(d)
  BY <1>1, PlugStep
<1>2. CASE Worker
  BY <1>2, ScanStep, RearmStep, InvokeStep DEF Worker
<1>3. CASE Engine
  BY <1>3, TakeStep, SyncStep, LoopStep, ReleaseStep, RestStep DEF Engine
<1>4. CASE WatchdogFires
  BY <1>4, WatchdogStep
<1>5. CASE WaitStart \/ WaitCheck \/ WaitSleep \/ WaitLook \/ WaitEnds
  BY <1>5, WaiterStep
<1>6. CASE (\E b \in {"coast", "brake", "fwd"} : Drive(b)) \/ GetInfo \/ Reopen
  BY <1>6, DescriptorStep
<1>7. CASE UNCHANGED vars
  <2>1. UNCHANGED <<plugVars, dcmVars, ctype, regVars, engineVars, dogVars, bridgeVars, waitVars,
                    faults>>
    BY <1>7 DEF vars
  <2>2. TypeOK'
    BY <2>1
       DEF PInv, TypeOK, plugVars, dcmVars, regVars, engineVars, dogVars, bridgeVars,
          waitVars
  <2> QED BY <2>1, <2>2, Frames
          DEF PInv, dcmVars, regVars, engineVars, dogVars, bridgeVars, waitVars
<1> QED BY <1>1, <1>2, <1>3, <1>4, <1>5, <1>6, <1>7 DEF Next

LEMMA PInvAlways == Spec => []PInv
<1> QED BY PInvInit, PInvNext, PTL DEF Spec

-----------------------------------------------------------------------------

\* The state of a port keeps its type: no counter passes its limit, and posts to the
\* engine's semaphore are at most the watchdog's and one handoff's.
THEOREM PortTypeCorrect == Spec => []TypeOK
<1>1. PInv => TypeOK
  BY DEF PInv
<1> QED BY <1>1, PInvAlways, PTL

\* While a session uses the pins as a UART the device manager does not scan them,
\* whatever handoffs are withdrawn in flight.
THEOREM PinsHaveOneOwner == Spec => []PinsOwned
<1>1. PInv => PinsOwned
  BY DEF PInv, HandoffInv, SessionGiven, Given, PinsOwned, InFlight
<1> QED BY <1>1, PInvAlways, PTL

\* WAIT_CONNECT and WAIT_DISCONNECT never sleep over a change.
THEOREM EdgesAreSeen == Spec => []NoMissedEdge
<1>1. PInv => NoMissedEdge
  BY DEF PInv
<1> QED BY <1>1, PInvAlways, PTL

\* A streaming sensor keeps its rail against the descriptor.
THEOREM SupplyIsHeld == Spec => []SupplyHeld
<1>1. PInv => SupplyHeld
  BY DEF PInv
<1> QED BY <1>1, PInvAlways, PTL

-----------------------------------------------------------------------------
(* The announcement *)


\* The frames of a device are about its own modes.
OwnModes ==
  /\ modes \in Nat \ {0} /\ left.mode \in 0 .. modes - 1
  /\ named \subseteq 0 .. modes - 1 /\ named \subseteq 0 .. MaxModes - 1

\* The flags say what has been heard: a number of modes; a name, that of mode 0 when
\* it is its turn; and a format only once mode 0 is complete.
FlagsHonest ==
  /\ "MODES" \in flags => numModes > 0
  /\ "NAME" \in flags => named # {} /\ (newMode = 0 => 0 \in named)
  /\ "FORMAT" \in flags => 0 \in named /\ 0 \in formatted

HeardTyped == newMode \in Nat /\ numModes \in Nat

SInv == OwnModes /\ FlagsHonest /\ HeardTyped /\ DefaultModeDescribed

-----------------------------------------------------------------------------

LEMMA SyncFacts ==
  /\ MaxModes \in Nat \ {0} /\ ModeCounts \subseteq Nat \ {0}
BY SessionAssumption DEF Sync!SyncAssumption

LEMMA SInvInit == Sync!Init => SInv
BY SyncFacts DEF Sync!Init, Sync!Frame, SInv, OwnModes, FlagsHonest, HeardTyped,
   DefaultModeDescribed, Sync!DefaultModeDescribed

\* The device goes on from one of its modes to another, or to a frame about none.
LEMMA GoesStep ==
  ASSUME OwnModes, Sync!Goes
  PROVE  modes' = modes /\ left'.mode \in 0 .. modes - 1
<1>1. modes' = modes /\ modes \in Nat \ {0} /\ left.mode \in 0 .. modes - 1
  BY DEF OwnModes, Sync!Goes
<1>2. \/ left' = Sync!Frame(left'.kind, 0)
      \/ left' = Sync!Frame("NAME", modes - 1)
      \/ left' = Sync!Frame("FORMAT", left.mode)
      \/ left.mode # 0 /\ left' = Sync!Frame("NAME", left.mode - 1)
  BY DEF Sync!Goes, Sync!Frame
<1>3. left'.mode \in {0, modes - 1, left.mode} \/ (left.mode # 0 /\ left'.mode = left.mode - 1)
  BY <1>2 DEF Sync!Frame
<1> QED BY <1>1, <1>3

\* A frame that is skipped, repeated or refused leaves what was heard.
LEMMA UnheardStep ==
  ASSUME SInv, Sync!Goes \/ UNCHANGED <<modes, left>>, state' # "synced",
         UNCHANGED <<flags, newMode, numModes, named, formatted>>
  PROVE  SInv'
<1>1. OwnModes'
  <2>1. CASE Sync!Goes
    BY <2>1, GoesStep DEF SInv, OwnModes
  <2>2. CASE UNCHANGED <<modes, left>>
    BY <2>2 DEF SInv, OwnModes
  <2> QED BY <2>1, <2>2
<1>2. FlagsHonest' /\ HeardTyped' /\ DefaultModeDescribed'
  BY DEF SInv, FlagsHonest, HeardTyped, DefaultModeDescribed, Sync!DefaultModeDescribed
<1> QED BY <1>1, <1>2 DEF SInv

LEMMA ModesStep ==
  ASSUME SInv, Sync!InfoModes
  PROVE  SInv'
<1>1. /\ Sync!Goes /\ state' = "info" /\ UNCHANGED <<named, formatted>>
      /\ numModes' = (IF modes > MaxModes THEN MaxModes ELSE modes)
      /\ newMode' = numModes' - 1 /\ flags' = flags \cup {"MODES"}
  BY DEF Sync!InfoModes, Sync!Info
<1>2. OwnModes /\ modes \in Nat \ {0} /\ named \subseteq 0 .. modes - 1
      /\ named \subseteq 0 .. MaxModes - 1
  BY DEF SInv, OwnModes
<1>3. OwnModes'
  BY <1>1, <1>2, GoesStep DEF OwnModes
<1>4. numModes' \in Nat \ {0} /\ newMode' \in Nat
      /\ (newMode' = 0 => modes = 1 \/ MaxModes = 1)
  BY <1>1, <1>2, SyncFacts
<1>5. newMode' = 0 => named \subseteq {0}
  BY <1>2, <1>4
<1>6. FlagsHonest'
  BY <1>1, <1>4, <1>5 DEF SInv, FlagsHonest
<1> QED BY <1>1, <1>3, <1>4, <1>6
        DEF SInv, HeardTyped, DefaultModeDescribed, Sync!DefaultModeDescribed

LEMMA NameStep ==
  ASSUME SInv, Sync!InfoName
  PROVE  SInv'
<1>1. /\ Sync!Goes /\ state' = "info" /\ UNCHANGED <<numModes, formatted>>
      /\ left.mode < MaxModes /\ flags' = flags \cup {"NAME"}
      /\ newMode' = left.mode /\ named' = named \cup {left.mode}
  BY DEF Sync!InfoName, Sync!Info
<1>2. OwnModes /\ modes \in Nat \ {0} /\ left.mode \in 0 .. modes - 1
  BY DEF SInv, OwnModes
<1>3. OwnModes'
  <2>1. left.mode \in 0 .. MaxModes - 1
    BY <1>1, <1>2, SyncFacts
  <2> QED BY <1>1, <1>2, <2>1, GoesStep DEF OwnModes
<1>4. FlagsHonest' /\ HeardTyped'
  BY <1>1, <1>2 DEF SInv, FlagsHonest, HeardTyped
<1> QED BY <1>1, <1>3, <1>4 DEF SInv, DefaultModeDescribed, Sync!DefaultModeDescribed

LEMMA FormatStep ==
  ASSUME SInv, Sync!InfoFormat
  PROVE  SInv'
<1>1. /\ Sync!Goes /\ state' = "info" /\ UNCHANGED <<numModes, named>>
      /\ newMode = left.mode /\ "NAME" \in flags /\ formatted' = formatted \cup {left.mode}
      /\ IF newMode > 0
         THEN newMode' = newMode - 1 /\ flags' = flags \ {"NAME", "FORMAT"}
         ELSE flags' = flags \cup {"FORMAT"} /\ newMode' = newMode
  BY DEF Sync!InfoFormat, Sync!Info, Sync!FormatFits, Sync!Required
<1>2. OwnModes'
  BY <1>1, GoesStep DEF SInv, OwnModes
<1>3. FlagsHonest' /\ HeardTyped'
  <2>1. CASE newMode > 0
    BY <1>1, <2>1 DEF SInv, FlagsHonest, HeardTyped
  <2>2. CASE ~(newMode > 0)
    <3>1. newMode = 0
      BY <2>2 DEF SInv, HeardTyped
    <3> QED BY <1>1, <2>2, <3>1 DEF SInv, FlagsHonest, HeardTyped
  <2> QED BY <2>1, <2>2
<1> QED BY <1>1, <1>2, <1>3 DEF SInv, DefaultModeDescribed, Sync!DefaultModeDescribed

\* What else is heard is about no mode.
LEMMA OnceStep ==
  ASSUME SInv, Sync!SearchEnds \/ (\E k \in {"SPEED", "VERSION"} : Sync!InfoOnce(k))
  PROVE  SInv'
<1>1. PICK k \in {"TYPE", "SPEED", "VERSION"} :
        /\ Sync!Goes /\ state' = "info" /\ flags' = flags \cup {k}
        /\ UNCHANGED <<newMode, numModes, named, formatted>>
  BY DEF Sync!SearchEnds, Sync!InfoOnce, Sync!Info
<1>2. OwnModes'
  BY <1>1, GoesStep DEF SInv, OwnModes
<1>3. FlagsHonest' /\ HeardTyped'
  BY <1>1 DEF SInv, FlagsHonest, HeardTyped
<1> QED BY <1>1, <1>2, <1>3 DEF SInv, DefaultModeDescribed, Sync!DefaultModeDescribed

LEMMA AckStep ==
  ASSUME SInv, Sync!InfoAck
  PROVE  SInv'
<1>1. /\ Sync!Goes /\ UNCHANGED <<flags, newMode, numModes, named, formatted>>
      /\ state' = (IF Sync!Required \subseteq flags THEN "synced" ELSE "failed")
  BY DEF Sync!InfoAck, Sync!Info, Sync!heard
<1>2. CASE Sync!Required \subseteq flags
  <2>1. numModes > 0 /\ 0 \in named /\ 0 \in formatted
    BY <1>2 DEF SInv, FlagsHonest, Sync!Required
  <2>2. OwnModes'
    BY <1>1, GoesStep DEF SInv, OwnModes
  <2>3. FlagsHonest' /\ HeardTyped'
    BY <1>1 DEF SInv, FlagsHonest, HeardTyped
  <2> QED BY <1>1, <2>1, <2>2, <2>3 DEF SInv, DefaultModeDescribed,
     Sync!DefaultModeDescribed
<1>3. CASE ~(Sync!Required \subseteq flags)
  BY <1>1, <1>3, UnheardStep
<1> QED BY <1>2, <1>3

LEMMA SInvNext == SInv /\ [SessionNext]_<<part, vars, syncVars>> => SInv'
<1> SUFFICES ASSUME SInv, [SessionNext]_<<part, vars, syncVars>> PROVE SInv'
  OBVIOUS
<1>1. CASE UNCHANGED syncVars
  BY <1>1 DEF syncVars, SInv, OwnModes, FlagsHonest, HeardTyped, DefaultModeDescribed,
              Sync!DefaultModeDescribed
<1>2. CASE Sync!Next
  <2>1. CASE \/ Sync!SearchSkips \/ Sync!SearchBad \/ Sync!InfoSkips \/ Sync!InfoTimeout
             \/ Sync!InfoType \/ Sync!InfoDropped \/ Sync!InfoFormatUnfit
             \/ \E k \in {"MODES", "SPEED", "VERSION"} : Sync!InfoTwice(k)
    <3>1. /\ Sync!Goes \/ UNCHANGED <<modes, left>>
          /\ state' # "synced"
          /\ UNCHANGED <<flags, newMode, numModes, named, formatted>>
      BY <2>1 DEF Sync!SearchSkips, Sync!SearchBad, Sync!InfoSkips, Sync!InfoTimeout,
                  Sync!InfoType, Sync!InfoDropped, Sync!InfoFormatUnfit, Sync!InfoTwice,
                  Sync!Info, Sync!Fails, Sync!heard, Sync!line
    <3> QED BY <3>1, UnheardStep
  <2>2. CASE Sync!InfoModes
    BY <2>2, ModesStep
  <2>3. CASE Sync!InfoName
    BY <2>3, NameStep
  <2>4. CASE Sync!InfoFormat
    BY <2>4, FormatStep
  <2>5. CASE Sync!SearchEnds \/ \E k \in {"SPEED", "VERSION"} : Sync!InfoOnce(k)
    BY <2>5, OnceStep
  <2>6. CASE Sync!InfoAck
    BY <2>6, AckStep
  <2> QED BY <1>2, <2>1, <2>2, <2>3, <2>4, <2>5, <2>6 DEF Sync!Next
<1> QED BY <1>1, <1>2 DEF SessionNext

\* Whatever the line loses, a SYNCED device has told its modes, and mode 0, which is
\* selected for it by default, has its name and its format.
THEOREM DefaultModeIsDescribed == SessionSpec => []DefaultModeDescribed
<1>1. SessionInit => SInv
  BY SInvInit DEF SessionInit
<1>2. SInv => DefaultModeDescribed
  BY DEF SInv
<1> QED BY <1>1, <1>2, SInvNext, PTL DEF SessionSpec
=============================================================================
