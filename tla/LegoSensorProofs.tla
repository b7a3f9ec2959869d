--------------------------- MODULE LegoSensorProofs ---------------------------
(***************************************************************************)
(* The bindings and claims of LegoSensor, for any ports, devices and       *)
(* descriptors.  A claim is told from a stale one by a generation that only*)
(* grows, so the proof relates three copies of it: the class's, the claim's*)
(* and the one the descriptor was granted.                                 *)
(***************************************************************************)
EXTENDS LegoSensor, TLAPS

\* A thread that is about to bind carries the class of its device.
Carried ==
  \A p \in Ports : thread[p] = "binding" =>
    target[p].class = Classify(device[p], p) /\ target[p].class \in Classes

\* A grant belongs to an open descriptor and is no younger than the binding.
GrantsAreOld ==
  \A f \in Fds : granted[f] # NoGrant =>
    open[f] \in Classes /\ granted[f] <= bindGen[open[f]]

\* The owner of a class is open on it and was granted what the claim records.
OwnersAreOpen ==
  \A c \in Classes : owner[c] # NoFd =>
    open[owner[c]] = c /\ granted[owner[c]] = claimGen[c]

\* A descriptor whose grant is current owns its class, and the port is as it was.
GrantsAreOwned ==
  \A f \in Fds : open[f] # NoClass /\ granted[f] = bindGen[open[f]] =>
    /\ owner[open[f]] = f
    /\ claimGen[open[f]] = bindGen[open[f]]
    /\ bound[open[f]] = claimed[f]

SInv == /\ TypeOK /\ Carried /\ BoundIsSynced
        /\ GrantsAreOld /\ OwnersAreOpen /\ GrantsAreOwned /\ WritesHitClaimedPort

-----------------------------------------------------------------------------

LEMMA ClassesFacts ==
  /\ NoClass \notin Classes
  /\ \A d \in Devices, p \in Ports : Classify(d, p) \in Classes \cup {NoClass}
BY DEF Classes

LEMMA SInvInit ==
  ASSUME SensorAssumption
  PROVE  Init => SInv
<1> SUFFICES ASSUME Init PROVE SInv
  OBVIOUS
<1>1. \A p \in Ports : NoPort # p
  BY DEF SensorAssumption, NoPort
<1>2. TypeOK
  BY DEF Init, TypeOK, AnyPort, Steps, Nothing, Gone, NoPort, NoGrant
<1> QED BY <1>1, <1>2 DEF Init, SInv, Carried, BoundIsSynced, GrantsAreOld,
              OwnersAreOpen, GrantsAreOwned, WritesHitClaimedPort, NoGrant

LEMMA PortStep ==
  ASSUME SensorAssumption, SInv, NEW p \in Ports, (\E d \in Devices : Sync(p, d)) \/ Run(p) \/ Unbind(p)
  PROVE  TypeOK' /\ Carried' /\ BoundIsSynced'
<1>0. TypeOK /\ Carried /\ BoundIsSynced /\ p # NoPort /\ NoPort \in AnyPort /\ p \in AnyPort
  BY DEF SensorAssumption, SInv, NoPort, AnyPort
<1>1. CASE \E d \in Devices : Sync(p, d)
  <2>1. PICK d \in Devices : Sync(p, d)
    BY <1>1
  <2>2. TypeOK'
    <3>1. [Nothing EXCEPT !.class = Classify(d, p)]
            \in [class : Classes \cup {NoClass}, displaced : AnyPort]
      BY <1>0, ClassesFacts DEF Nothing
    <3>2. target' \in [Ports -> [class : Classes \cup {NoClass}, displaced : AnyPort]]
      BY <1>0, <2>1, <3>1 DEF Sync, TypeOK
    <3>3. thread' \in [Ports -> Steps]
      BY <1>0, <2>1 DEF Sync, At, TypeOK, Steps
    <3> QED BY <1>0, <2>1, <3>2, <3>3 DEF Sync, TypeOK, classVars, fdVars
  <2>3. Carried'
    BY <1>0, <2>1, ClassesFacts
       DEF Sync, At, TypeOK, Carried, Nothing, classVars, fdVars
  <2>4. BoundIsSynced'
    BY <1>0, <2>1 DEF Sync, At, TypeOK, BoundIsSynced, classVars, fdVars
  <2> QED BY <2>2, <2>3, <2>4
<1>2. CASE TryBind(p)
  <2> DEFINE c == target[p].class
  <2>1. c \in Classes /\ c = Classify(device[p], p) /\ thread[p] = "binding"
    BY <1>0, <1>2 DEF TryBind, Carried
  <2>2. TypeOK'
    <3>0. Rebound(c, p) \/ UNCHANGED <<bound, bindGen>>
      BY <1>2 DEF TryBind
    <3>1. bindGen' \in [Classes -> Nat] /\ \A k \in Classes : bindGen[k] <= bindGen'[k]
      <4> HIDE DEF c
      <4>1. c \in Classes /\ bindGen[c] \in Nat
        BY <1>0, <2>1 DEF TypeOK
      <4>2. \/ bindGen' = bindGen
            \/ bindGen' = [bindGen EXCEPT ![c] = bindGen[c] + 1]
        BY <3>0 DEF Rebound
      <4>3. bindGen \in [Classes -> Nat]
        BY <1>0 DEF TypeOK
      <4> QED BY <4>1, <4>2, <4>3
    <3>2. bound' \in [Classes -> AnyPort] /\ thread' \in [Ports -> Steps]
      <4>1. bound' \in [Classes -> AnyPort]
        BY <1>0, <3>0 DEF Rebound, TypeOK
      <4>2. thread' \in [Ports -> Steps]
        BY <1>0, <1>2 DEF TryBind, At, TypeOK, Steps
      <4> QED BY <4>1, <4>2
    <3>3. target' \in [Ports -> [class : Classes \cup {NoClass}, displaced : AnyPort]]
      BY <1>0, <1>2, <2>1 DEF TryBind, TypeOK, Nothing
    <3>4. \A k \in Classes : claimGen[k] <= bindGen'[k]
      BY <1>0, <3>1 DEF TypeOK
    <3> QED BY <1>0, <1>2, <3>1, <3>2, <3>3, <3>4 DEF TryBind, TypeOK, fdVars
  <2>3. Carried'
    BY <1>0, <1>2 DEF TryBind, At, TypeOK, Carried
  <2>4. BoundIsSynced'
    BY <1>0, <1>2, <2>1 DEF TryBind, Rebound, At, TypeOK, BoundIsSynced
  <2> QED BY <2>2, <2>3, <2>4
<1>3. CASE AnnounceDisplaced(p) \/ Announce(p) \/ PushData(p)
  <2>1. TypeOK'
    <3>1. thread' \in [Ports -> Steps]
      BY <1>0, <1>3 DEF AnnounceDisplaced, Announce, PushData, At, TypeOK, Steps
    <3>2. target' \in [Ports -> [class : Classes \cup {NoClass}, displaced : AnyPort]]
      BY <1>0, <1>3 DEF AnnounceDisplaced, Announce, PushData, TypeOK, Nothing
    <3>3. target[p].displaced \in AnyPort
      BY <1>0 DEF TypeOK
    <3>4. \E e \in [port : AnyPort, live : BOOLEAN] :
            topic' = [topic EXCEPT ![target[p].class] = e]
      BY <1>0, <1>3, <3>3 DEF AnnounceDisplaced, Announce, PushData, Gone, Live
    <3>5. topic' \in [Classes -> [port : AnyPort, live : BOOLEAN]]
      BY <1>0, <3>4 DEF TypeOK
    <3> QED BY <1>0, <1>3, <3>1, <3>2, <3>5
            DEF AnnounceDisplaced, Announce, PushData, TypeOK, fdVars
  <2>2. Carried'
    BY <1>0, <1>3 DEF AnnounceDisplaced, Announce, PushData, At, TypeOK, Carried
  <2>3. BoundIsSynced'
    BY <1>0, <1>3 DEF AnnounceDisplaced, Announce, PushData, At, TypeOK, BoundIsSynced
  <2> QED BY <2>1, <2>2, <2>3
<1>4. CASE LookUp(p)
  <2>1. TypeOK'
    BY <1>0, <1>4 DEF LookUp, At, TypeOK, Steps, classVars, fdVars
  <2>2. Carried' /\ BoundIsSynced'
    BY <1>0, <1>4 DEF LookUp, At, TypeOK, Carried, BoundIsSynced, classVars
  <2> QED BY <2>1, <2>2
<1>5. CASE PushGone(p)
  <2>1. TypeOK'
    BY <1>0, <1>5 DEF PushGone, At, TypeOK, Steps, Gone, Nothing, fdVars
  <2>2. Carried'
    BY <1>0, <1>5 DEF PushGone, At, TypeOK, Carried
  <2>3. BoundIsSynced'
    BY <1>0, <1>5 DEF PushGone, At, TypeOK, BoundIsSynced
  <2> QED BY <2>1, <2>2, <2>3
<1>6. CASE Unbind(p)
  <2>1. TypeOK'
    <3>1. bindGen' \in [Classes -> Nat] /\ \A k \in Classes : bindGen[k] <= bindGen'[k]
      <4>1. bindGen \in [Classes -> Nat]
        BY <1>0 DEF TypeOK
      <4>2. \/ \E c \in Classes : bindGen' = [bindGen EXCEPT ![c] = bindGen[c] + 1]
            \/ bindGen' = bindGen
        BY <1>6 DEF Unbind, Rebound
      <4> QED BY <4>1, <4>2
    <3>2. bound' \in [Classes -> AnyPort] /\ thread' \in [Ports -> Steps]
      BY <1>0, <1>6 DEF Unbind, Rebound, At, TypeOK, Steps
    <3>3. target' \in [Ports -> [class : Classes \cup {NoClass}, displaced : AnyPort]]
      BY <1>0, <1>6 DEF Unbind, TypeOK, Nothing
    <3>4. \A k \in Classes : claimGen[k] <= bindGen'[k]
      BY <1>0, <3>1 DEF TypeOK
    <3> QED BY <1>0, <1>6, <3>1, <3>2, <3>3, <3>4 DEF Unbind, TypeOK, fdVars
  <2>2. Carried'
    BY <1>0, <1>6 DEF Unbind, At, TypeOK, Carried
  <2>3. BoundIsSynced'
    <3>1. \A k \in Classes : bound'[k] # p /\ bound'[k] \in {bound[k], NoPort}
      <4>1. CASE \A k \in Classes : bound[k] # p
        BY <1>0, <1>6, <4>1 DEF Unbind
      <4>2. CASE \E k \in Classes : bound[k] = p /\ Rebound(k, NoPort)
        BY <1>0, <4>2 DEF Rebound, BoundIsSynced, TypeOK
      <4> QED BY <1>6, <4>1, <4>2 DEF Unbind
    <3>2. \A q \in Ports : q # NoPort /\ (q # p => thread'[q] = thread[q])
      BY <1>0, <1>6 DEF SensorAssumption, Unbind, At, TypeOK, NoPort
    <3> QED BY <1>0, <1>6, <3>1, <3>2 DEF Unbind, BoundIsSynced
  <2> QED BY <2>1, <2>2, <2>3
<1> QED BY <1>1, <1>2, <1>3, <1>4, <1>5, <1>6 DEF Run

\* Whatever a port's thread does to the bindings, it makes grants no younger and
\* leaves a class whose generation has not changed bound as it was.
LEMMA PortKeepsClaims ==
  ASSUME SensorAssumption, SInv, NEW p \in Ports, (\E d \in Devices : Sync(p, d)) \/ Run(p) \/ Unbind(p)
  PROVE  GrantsAreOld' /\ OwnersAreOpen' /\ GrantsAreOwned' /\ WritesHitClaimedPort'
<1>0. TypeOK /\ GrantsAreOld /\ OwnersAreOpen /\ GrantsAreOwned /\ WritesHitClaimedPort
  BY DEF SInv
<1>1. UNCHANGED <<owner, claimGen, fdVars>>
  BY DEF Sync, Run, TryBind, AnnounceDisplaced, Announce, LookUp, PushData,
         PushGone, Unbind, classVars, fdVars
<1>2. \A c \in Classes : \/ bindGen'[c] = bindGen[c] /\ bound'[c] = bound[c]
                         \/ bindGen'[c] = bindGen[c] + 1
  BY <1>0 DEF Sync, Run, TryBind, AnnounceDisplaced, Announce, LookUp, PushData,
         PushGone, Unbind, Rebound, classVars, TypeOK
<1>3. \A c \in Classes : bindGen[c] \in Nat /\ claimGen[c] <= bindGen[c]
  BY <1>0 DEF TypeOK
<1>4. \A f \in Fds : granted[f] \in Nat \cup {NoGrant} /\ open[f] \in Classes \cup {NoClass}
  BY <1>0 DEF TypeOK
<1>5. GrantsAreOld'
  BY <1>0, <1>1, <1>2, <1>3, <1>4 DEF GrantsAreOld, fdVars, NoGrant
<1>6. OwnersAreOpen'
  BY <1>0, <1>1 DEF OwnersAreOpen, fdVars
<1>7. GrantsAreOwned'
  <2> SUFFICES ASSUME NEW f \in Fds, open[f] # NoClass, granted[f] = bindGen'[open[f]]
               PROVE  /\ owner[open[f]] = f
                      /\ claimGen[open[f]] = bindGen'[open[f]]
                      /\ bound'[open[f]] = claimed[f]
    BY <1>1 DEF GrantsAreOwned, fdVars
  <2>1. open[f] \in Classes
    BY <1>4
  <2>2. granted[f] # NoGrant
    BY <1>2, <1>3, <2>1 DEF NoGrant
  <2>3. granted[f] <= bindGen[open[f]]
    BY <1>0, <2>2 DEF GrantsAreOld
  <2>4. bindGen'[open[f]] = bindGen[open[f]] /\ bound'[open[f]] = bound[open[f]]
    BY <1>2, <1>3, <2>1, <2>3
  <2> QED BY <1>0, <2>4 DEF GrantsAreOwned
<1>8. WritesHitClaimedPort'
  BY <1>0, <1>1 DEF WritesHitClaimedPort, fdVars
<1> QED BY <1>5, <1>6, <1>7, <1>8

LEMMA FdStep ==
  ASSUME SensorAssumption, SInv, NEW f \in Fds,
         \/ \E c \in Classes : Open(f, c)
         \/ Claim(f) \/ Release(f) \/ Close(f) \/ CheckWrite(f) \/ Write(f)
  PROVE  SInv'
<1>0. TypeOK /\ GrantsAreOld /\ OwnersAreOpen /\ GrantsAreOwned /\ WritesHitClaimedPort
        /\ f # NoFd /\ NoPort \in AnyPort
  BY DEF SensorAssumption, SInv, AnyPort
<1>1. Carried' /\ BoundIsSynced'
  BY DEF SInv, Open, Claim, Release, Close, CheckWrite, Write, portVars, classVars,
         Carried, BoundIsSynced
<1>2. CASE \E c \in Classes : Open(f, c)
  <2>1. PICK c \in Classes : Open(f, c)
    BY <1>2
  <2>2. TypeOK'
    BY <1>0, <2>1 DEF Open, TypeOK, portVars, classVars
  <2>3. granted[f] = NoGrant /\ NoGrant \notin Nat /\ \A k \in Classes : owner[k] # f
    BY <1>0, <2>1, ClassesFacts DEF Open, GrantsAreOld, OwnersAreOpen, NoGrant, TypeOK
  <2>4. GrantsAreOld'
    BY <1>0, <2>1, <2>3 DEF Open, GrantsAreOld, TypeOK, classVars
  <2>5. OwnersAreOpen'
    BY <1>0, <2>1, <2>3 DEF Open, OwnersAreOpen, TypeOK, classVars
  <2>6. GrantsAreOwned'
    BY <1>0, <2>1, <2>3 DEF Open, GrantsAreOwned, TypeOK, classVars
  <2>7. WritesHitClaimedPort'
    BY <1>0, <2>1 DEF Open, WritesHitClaimedPort
  <2> QED BY <1>1, <2>2, <2>4, <2>5, <2>6, <2>7 DEF SInv
<1>3. CASE Claim(f)
  <2> DEFINE c == open[f]
  <2>1. c \in Classes /\ bindGen[c] \in Nat /\ bindGen[c] # NoGrant
    BY <1>0, <1>3 DEF Claim, TypeOK, NoGrant
  <2>2. TypeOK'
    BY <1>0, <1>3, <2>1 DEF Claim, TypeOK, portVars
  <2>3. \A g \in Fds : g # f /\ open[g] = c => granted[g] # bindGen[c]
    BY <1>0, <1>3, <2>1, ClassesFacts DEF SensorAssumption, Claim, GrantsAreOwned, Valid
  <2>4. \A k \in Classes : k # c => owner[k] # f
    BY <1>0 DEF OwnersAreOpen
  <2>5. GrantsAreOld'
    BY <1>0, <1>3, <2>1 DEF Claim, GrantsAreOld, TypeOK
  <2>6. OwnersAreOpen'
    BY <1>0, <1>3, <2>1, <2>4 DEF Claim, OwnersAreOpen, TypeOK
  <2>7. GrantsAreOwned'
    BY <1>0, <1>3, <2>1, <2>3 DEF Claim, GrantsAreOwned, TypeOK
  <2>8. WritesHitClaimedPort'
    BY <1>0, <1>3 DEF Claim, WritesHitClaimedPort, TypeOK
  <2> QED BY <1>1, <2>2, <2>5, <2>6, <2>7, <2>8 DEF SInv
<1>4. CASE Release(f) \/ Close(f)
  <2> DEFINE c == open[f]
  <2>1. c \in Classes /\ NoGrant \notin Nat
    BY <1>0, <1>4 DEF Release, Close, TypeOK, NoGrant
  <2>2. /\ UNCHANGED <<portVars, bound, bindGen, topic, opens, writing>>
        /\ writing[f] = NoPort
        /\ granted' = [granted EXCEPT ![f] = NoGrant]
        /\ claimed' = [claimed EXCEPT ![f] = NoPort]
        /\ open' = open \/ open' = [open EXCEPT ![f] = NoClass]
        /\ \/ owner[c] = f /\ GiveUp(f, c)
           \/ owner[c] # f /\ open' = [open EXCEPT ![f] = NoClass]
              /\ UNCHANGED <<owner, claimGen>>
    BY <1>4 DEF Release, Close
  <2>3. TypeOK'
    <3>1. owner' \in [Classes -> Fds \cup {NoFd}]
      BY <1>0, <2>2 DEF GiveUp, TypeOK
    <3>2. claimGen' \in [Classes -> Nat] /\ \A k \in Classes : claimGen'[k] <= bindGen[k]
      BY <1>0, <2>2 DEF GiveUp, TypeOK
    <3>3. granted' \in [Fds -> Nat \cup {NoGrant}] /\ open' \in [Fds -> Classes \cup {NoClass}]
      BY <1>0, <2>2 DEF TypeOK
    <3> QED BY <1>0, <2>2, <3>1, <3>2, <3>3 DEF TypeOK, portVars
  <2>4. \A k \in Classes : owner'[k] # f
    BY <1>0, <2>1, <2>2 DEF GiveUp, OwnersAreOpen, TypeOK
  <2>5. GrantsAreOld'
    BY <1>0, <2>2 DEF GrantsAreOld, TypeOK
  <2>6. OwnersAreOpen'
    BY <1>0, <2>1, <2>2, <2>4 DEF GiveUp, OwnersAreOpen, TypeOK
  <2>7. GrantsAreOwned'
    <3> SUFFICES ASSUME NEW g \in Fds, open'[g] # NoClass, granted'[g] = bindGen[open'[g]]
                 PROVE  /\ owner'[open'[g]] = g
                        /\ claimGen'[open'[g]] = bindGen[open'[g]]
                        /\ bound[open'[g]] = claimed'[g]
      BY <2>2 DEF GrantsAreOwned
    <3>1. open'[g] \in Classes /\ bindGen[open'[g]] \in Nat
      BY <1>0, <2>3, <2>2 DEF TypeOK
    <3>2. g # f
      BY <1>0, <2>1, <2>2, <3>1 DEF TypeOK
    <3>3. open'[g] = open[g] /\ granted'[g] = granted[g] /\ claimed'[g] = claimed[g]
      BY <1>0, <2>2, <3>2 DEF TypeOK
    <3>4. /\ owner[open[g]] = g
          /\ claimGen[open[g]] = bindGen[open[g]]
          /\ bound[open[g]] = claimed[g]
      BY <1>0, <3>3 DEF GrantsAreOwned
    <3>5. owner[c] = f => open[g] # c
      BY <3>2, <3>4
    <3>6. owner'[open[g]] = owner[open[g]] /\ claimGen'[open[g]] = claimGen[open[g]]
      BY <1>0, <2>2, <3>5, <3>1, <3>3 DEF GiveUp, TypeOK
    <3> QED BY <3>3, <3>4, <3>6
  <2>8. WritesHitClaimedPort'
    BY <1>0, <2>2 DEF WritesHitClaimedPort, TypeOK
  <2> QED BY <1>1, <2>3, <2>5, <2>6, <2>7, <2>8 DEF SInv
<1>5. CASE CheckWrite(f)
  <2> DEFINE c == open[f]
  <2>1. c \in Classes /\ granted[f] = bindGen[c]
    BY <1>0, <1>5 DEF CheckWrite, Valid, OwnersAreOpen, TypeOK
  <2>2. bound[c] = claimed[f]
    BY <1>0, <1>5, <2>1 DEF CheckWrite, GrantsAreOwned
  <2>3. TypeOK'
    BY <1>0, <1>5, <2>1 DEF CheckWrite, TypeOK, portVars, classVars
  <2>4. GrantsAreOld' /\ OwnersAreOpen' /\ GrantsAreOwned'
    BY <1>0, <1>5 DEF CheckWrite, classVars, GrantsAreOld, OwnersAreOpen, GrantsAreOwned
  <2>5. WritesHitClaimedPort'
    BY <1>0, <1>5, <2>2 DEF CheckWrite, WritesHitClaimedPort, TypeOK
  <2> QED BY <1>1, <2>3, <2>4, <2>5 DEF SInv
<1>6. CASE Write(f)
  <2>1. TypeOK'
    BY <1>0, <1>6 DEF Write, TypeOK, portVars, classVars
  <2>2. GrantsAreOld' /\ OwnersAreOpen' /\ GrantsAreOwned'
    BY <1>0, <1>6 DEF Write, classVars, GrantsAreOld, OwnersAreOpen, GrantsAreOwned
  <2>3. WritesHitClaimedPort'
    BY <1>0, <1>6 DEF Write, WritesHitClaimedPort, TypeOK
  <2> QED BY <1>1, <2>1, <2>2, <2>3 DEF SInv
<1> QED BY <1>2, <1>3, <1>4, <1>5, <1>6

LEMMA SInvStep ==
  ASSUME SensorAssumption
  PROVE  SInv /\ [Next]_vars => SInv'
<1> SUFFICES ASSUME SInv, [Next]_vars PROVE SInv'
  OBVIOUS
<1>1. ASSUME NEW p \in Ports, (\E d \in Devices : Sync(p, d)) \/ Run(p) \/ Unbind(p)
      PROVE  SInv'
  BY <1>1, PortStep, PortKeepsClaims DEF SInv
<1>2. CASE UNCHANGED vars
  BY <1>2 DEF vars, SInv, TypeOK, Carried, BoundIsSynced, GrantsAreOld, OwnersAreOpen,
              GrantsAreOwned, WritesHitClaimedPort
<1> QED BY <1>1, <1>2, FdStep DEF Next

LEMMA SInvAlways ==
  ASSUME SensorAssumption
  PROVE  Spec => []SInv
BY SInvInit, SInvStep, PTL DEF Spec

-----------------------------------------------------------------------------

\* The tables of the driver keep their types, for any ports and descriptors.
THEOREM SensorTypeCorrect ==
  ASSUME SensorAssumption
  PROVE  Spec => []TypeOK
<1>1. SInv => TypeOK
  BY DEF SInv
<1> QED BY <1>1, SInvAlways, PTL

\* A class is only bound to a port in a session, of a device of that class.
THEOREM BindingsAreLive ==
  ASSUME SensorAssumption
  PROVE  Spec => []BoundIsSynced
<1>1. SInv => BoundIsSynced
  BY DEF SInv
<1> QED BY <1>1, SInvAlways, PTL

\* Two descriptors never both hold the current claim of a class.
THEOREM ClaimsExclude ==
  ASSUME SensorAssumption
  PROVE  Spec => []ClaimExclusive
<1>1. SInv => ClaimExclusive
  BY DEF SInv, GrantsAreOwned, ClaimExclusive
<1> QED BY <1>1, SInvAlways, PTL

\* A write reaches the port its claim was granted for.
THEOREM WritesAreClaimed ==
  ASSUME SensorAssumption
  PROVE  Spec => []WritesHitClaimedPort
<1>1. SInv => WritesHitClaimedPort
  BY DEF SInv
<1> QED BY <1>1, SInvAlways, PTL
=============================================================================
