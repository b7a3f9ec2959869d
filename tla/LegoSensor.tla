------------------------------ MODULE LegoSensor ------------------------------
(***************************************************************************)
(* The class topics of the LEGO sensors and motors (legosensor_uorb.c).    *)
(*                                                                         *)
(*   - each port has a kernel thread that runs a LUMP session: on_sync,    *)
(*     any number of on_data, on_error.  A callback takes g_bind_lock and  *)
(*     the port's lock one after the other and publishes with none of      *)
(*     them, so the threads of two ports interleave inside their callbacks;*)
(*   - a class is bound to one port.  A lower-numbered port takes it over; *)
(*     a port that lost is not bound when the class becomes free;          *)
(*   - a descriptor CLAIMs the class it is open on.  A claim is valid while*)
(*     the binding has the generation it had at the CLAIM, and a write     *)
(*     first checks the claim, then, unlocked, acts on the port.           *)
(*                                                                         *)
(* An event of a topic is reduced to its port and whether it says that the *)
(* port is live (sync sentinel, data) or gone (disconnect sentinel).  The  *)
(* confirmation of SELECT is left out.                                     *)
(***************************************************************************)
EXTENDS Integers

CONSTANTS
  Ports,     \* port numbers
  Devices,   \* LPF2 devices that are plugged in
  Fds,       \* descriptors of class topics
  MaxSyncs,  \* bound: sessions that reach SYNC
  MaxOpens   \* bound: descriptors opened

VARIABLES
  thread,     \* where each port's thread is
  device,     \* type_id of the port
  target,     \* the class, and the displaced port, the callback goes on with
  syncs,      \* sessions that reached SYNC, bounded by MaxSyncs
  bound,      \* bound_port of each class
  bindGen,    \* bind_generation
  owner,      \* claim_owner
  claimGen,   \* claim_bind_gen
  topic,      \* the last event of each topic
  opens,      \* descriptors opened, bounded by MaxOpens
  open,       \* the class each descriptor is open on
  writing,    \* the port a descriptor's write is about to reach
  granted,    \* bind_generation at the CLAIM the descriptor relies on
  claimed     \* the port bound then

portVars == <<thread, device, target, syncs>>
classVars == <<bound, bindGen, owner, claimGen, topic>>
fdVars == <<opens, open, writing, granted, claimed>>
vars == <<thread, device, target, syncs, bound, bindGen, owner, claimGen, topic,
          opens, open, writing, granted, claimed>>

NoPort == -1
NoClass == "none"
NoFd == "nobody"
NoDevice == "none"
NoGrant == -1

SensorAssumption ==
  /\ Ports \subseteq Nat /\ NoDevice \notin Devices /\ NoFd \notin Fds
  /\ MaxSyncs \in Nat /\ MaxOpens \in Nat

\* legosensor_classify: medium motors are told apart by the parity of the port.
Classify(d, p) ==
  CASE d = "color"      -> "color"
    [] d = "ultrasonic" -> "ultrasonic"
    [] d = "force"      -> "force"
    [] d = "large"      -> "motor_m"
    [] d = "medium"     -> IF p % 2 = 0 THEN "motor_r" ELSE "motor_l"
    [] OTHER            -> NoClass

\* The classes that some device on some port has.
Classes == {Classify(d, p) : d \in Devices, p \in Ports} \ {NoClass}

Nothing == [class |-> NoClass, displaced |-> NoPort]
Live(p) == [port |-> p, live |-> TRUE]
Gone(p) == [port |-> p, live |-> FALSE]

\* legosensor_uorb_register
Init ==
  /\ thread = [p \in Ports |-> "down"]
  /\ device = [p \in Ports |-> NoDevice]
  /\ target = [p \in Ports |-> Nothing]
  /\ syncs = 0
  /\ bound = [c \in Classes |-> NoPort]
  /\ bindGen = [c \in Classes |-> 0]
  /\ owner = [c \in Classes |-> NoFd]
  /\ claimGen = [c \in Classes |-> 0]
  /\ topic = [c \in Classes |-> Gone(NoPort)]
  /\ opens = 0
  /\ open = [f \in Fds |-> NoClass]
  /\ writing = [f \in Fds |-> NoPort]
  /\ granted = [f \in Fds |-> NoGrant]
  /\ claimed = [f \in Fds |-> NoPort]

-----------------------------------------------------------------------------
(* The thread of port p.  Variants named ...Mutant are faults a property   *)
(* must notice.                                                            *)

At(p, from, to) == thread[p] = from /\ thread' = [thread EXCEPT ![p] = to]

\* The binding of class c changes to port p.
ReboundMutant(c, p) ==
  /\ bound' = [bound EXCEPT ![c] = p]
  /\ bindGen' = [bindGen EXCEPT ![c] = IF p = NoPort THEN 0 ELSE bindGen[c] + 1]

Rebound(c, p) ==
  /\ bound' = [bound EXCEPT ![c] = p]
  /\ bindGen' = [bindGen EXCEPT ![c] = bindGen[c] + 1]

\* on_sync, the port's telemetry; an unmapped device goes no further.
Sync(p, d) ==
  /\ syncs < MaxSyncs
  /\ syncs' = syncs + 1
  /\ device' = [device EXCEPT ![p] = d]
  /\ target' = [target EXCEPT ![p] = [Nothing EXCEPT !.class = Classify(d, p)]]
  /\ \/ Classify(d, p) = NoClass /\ At(p, "down", "up")
     \/ Classify(d, p) # NoClass /\ At(p, "down", "binding")
  /\ UNCHANGED <<classVars, fdVars>>

\* legosensor_try_bind
TryBind(p) ==
  LET c == target[p].class IN
  /\ thread[p] = "binding"
  /\ \/ /\ bound[c] = NoPort
        /\ At(p, "binding", "announcing")
        /\ Rebound(c, p)
        /\ UNCHANGED target
     \/ /\ bound[c] > p
        /\ At(p, "binding", "displacing")
        /\ Rebound(c, p)
        /\ target' = [target EXCEPT ![p].displaced = bound[c]]
     \/ /\ bound[c] # NoPort /\ bound[c] <= p
        /\ At(p, "binding", "up")
        /\ target' = [target EXCEPT ![p] = Nothing]
        /\ UNCHANGED <<bound, bindGen>>
  /\ UNCHANGED <<device, syncs, owner, claimGen, topic, fdVars>>

\* The disconnect sentinel of the displaced port, then the sync sentinel.
AnnounceDisplaced(p) ==
  /\ At(p, "displacing", "announcing")
  /\ topic' = [topic EXCEPT ![target[p].class] = Gone(target[p].displaced)]
  /\ UNCHANGED <<device, target, syncs, bound, bindGen, owner, claimGen, fdVars>>

Announce(p) ==
  /\ At(p, "announcing", "up")
  /\ topic' = [topic EXCEPT ![target[p].class] = Live(p)]
  /\ target' = [target EXCEPT ![p] = Nothing]
  /\ UNCHANGED <<device, syncs, bound, bindGen, owner, claimGen, fdVars>>

\* on_data: an unbound port drops its frames (legosensor_class_of) ...
LookUpMutant(p) ==
  /\ Classify(device[p], p) # NoClass
  /\ At(p, "up", "pushing")
  /\ target' = [target EXCEPT ![p].class = Classify(device[p], p)]
  /\ UNCHANGED <<device, syncs, classVars, fdVars>>

LookUp(p) ==
  /\ At(p, "up", "pushing")
  /\ \E c \in Classes :
       /\ bound[c] = p
       /\ target' = [target EXCEPT ![p].class = c]
  /\ UNCHANGED <<device, syncs, classVars, fdVars>>

\* ... and a bound one publishes, when it may be bound no more.
PushData(p) ==
  /\ At(p, "pushing", "up")
  /\ topic' = [topic EXCEPT ![target[p].class] = Live(p)]
  /\ target' = [target EXCEPT ![p] = Nothing]
  /\ UNCHANGED <<device, syncs, bound, bindGen, owner, claimGen, fdVars>>

\* on_error: legosensor_unbind ...
UnbindNotMutant(p) ==
  /\ At(p, "up", "unbound")
  /\ target' = [target EXCEPT ![p] = Nothing]
  /\ UNCHANGED <<device, syncs, classVars, fdVars>>

Unbind(p) ==
  /\ At(p, "up", "unbound")
  /\ \/ \E c \in Classes :
          /\ bound[c] = p
          /\ Rebound(c, NoPort)
          /\ target' = [target EXCEPT ![p] = [Nothing EXCEPT !.class = c]]
     \/ /\ \A c \in Classes : bound[c] # p
        /\ target' = [target EXCEPT ![p] = Nothing]
        /\ UNCHANGED <<bound, bindGen>>
  /\ UNCHANGED <<device, syncs, owner, claimGen, topic, fdVars>>

\* ... then the port's telemetry is reset and the sentinel published.
PushGone(p) ==
  /\ At(p, "unbound", "down")
  /\ device' = [device EXCEPT ![p] = NoDevice]
  /\ target' = [target EXCEPT ![p] = Nothing]
  /\ topic' = IF target[p].class = NoClass THEN topic
              ELSE [topic EXCEPT ![target[p].class] = Gone(p)]
  /\ UNCHANGED <<syncs, bound, bindGen, owner, claimGen, fdVars>>

\* The steps a thread takes by itself while its device streams.
Run(p) ==
  TryBind(p) \/ AnnounceDisplaced(p) \/ Announce(p) \/ LookUp(p) \/ PushData(p)
    \/ PushGone(p)

-----------------------------------------------------------------------------
(* Descriptors; each is used by one task at a time. *)

\* The claim of class c is held and is not stale.
Valid(c) == owner[c] # NoFd /\ claimGen[c] = bindGen[c]

Open(f, c) ==
  /\ open[f] = NoClass
  /\ opens < MaxOpens
  /\ opens' = opens + 1
  /\ open' = [open EXCEPT ![f] = c]
  /\ UNCHANGED <<portVars, classVars, writing, granted, claimed>>

\* LEGOSENSOR_CLAIM: a free or stale claim is taken, the owner's is repeated,
\* another is refused.
ClaimMutant(f) ==
  LET c == open[f] IN
  /\ c # NoClass /\ writing[f] = NoPort
  /\ bound[c] # NoPort
  /\ owner' = [owner EXCEPT ![c] = f]
  /\ claimGen' = [claimGen EXCEPT ![c] = bindGen[c]]
  /\ granted' = [granted EXCEPT ![f] = bindGen[c]]
  /\ claimed' = [claimed EXCEPT ![f] = bound[c]]
  /\ UNCHANGED <<portVars, bound, bindGen, topic, opens, open, writing>>

Claim(f) ==
  LET c == open[f] IN
  /\ c # NoClass /\ writing[f] = NoPort
  /\ bound[c] # NoPort
  /\ ~Valid(c)
  /\ owner' = [owner EXCEPT ![c] = f]
  /\ claimGen' = [claimGen EXCEPT ![c] = bindGen[c]]
  /\ granted' = [granted EXCEPT ![f] = bindGen[c]]
  /\ claimed' = [claimed EXCEPT ![f] = bound[c]]
  /\ UNCHANGED <<portVars, bound, bindGen, topic, opens, open, writing>>

\* The claim of class c is given up by descriptor f.
GiveUp(f, c) ==
  /\ owner' = [owner EXCEPT ![c] = NoFd]
  /\ claimGen' = [claimGen EXCEPT ![c] = 0]

\* LEGOSENSOR_RELEASE, refused unless the claim is f's and valid.
Release(f) ==
  LET c == open[f] IN
  /\ c # NoClass /\ writing[f] = NoPort
  /\ owner[c] = f /\ Valid(c)
  /\ GiveUp(f, c)
  /\ granted' = [granted EXCEPT ![f] = NoGrant]
  /\ claimed' = [claimed EXCEPT ![f] = NoPort]
  /\ UNCHANGED <<portVars, bound, bindGen, topic, opens, open, writing>>

\* legosensor_close releases the claim, also a stale one, if it is f's.
Close(f) ==
  LET c == open[f] IN
  /\ c # NoClass /\ writing[f] = NoPort
  /\ \/ owner[c] = f /\ GiveUp(f, c)
     \/ owner[c] # f /\ UNCHANGED <<owner, claimGen>>
  /\ open' = [open EXCEPT ![f] = NoClass]
  /\ granted' = [granted EXCEPT ![f] = NoGrant]
  /\ claimed' = [claimed EXCEPT ![f] = NoPort]
  /\ UNCHANGED <<portVars, bound, bindGen, topic, opens, writing>>

\* SELECT, SEND, SET_PWM, COAST and BRAKE: legosensor_check_write_claim ...
CheckWriteMutant(f) ==
  LET c == open[f] IN
  /\ c # NoClass /\ writing[f] = NoPort
  /\ bound[c] # NoPort
  /\ owner[c] = f
  /\ writing' = [writing EXCEPT ![f] = bound[c]]
  /\ UNCHANGED <<portVars, classVars, opens, open, granted, claimed>>

CheckWrite(f) ==
  LET c == open[f] IN
  /\ c # NoClass /\ writing[f] = NoPort
  /\ bound[c] # NoPort
  /\ owner[c] = f /\ Valid(c)
  /\ writing' = [writing EXCEPT ![f] = bound[c]]
  /\ UNCHANGED <<portVars, classVars, opens, open, granted, claimed>>

\* ... then the port is addressed, without the lock.
Write(f) ==
  /\ writing[f] # NoPort
  /\ writing' = [writing EXCEPT ![f] = NoPort]
  /\ UNCHANGED <<portVars, classVars, opens, open, granted, claimed>>

Next ==
  \/ \E p \in Ports :
       (\E d \in Devices : Sync(p, d)) \/ Run(p) \/ Unbind(p)
  \/ \E f \in Fds :
       \/ \E c \in Classes : Open(f, c)
       \/ Claim(f) \/ Release(f) \/ Close(f) \/ CheckWrite(f) \/ Write(f)

Spec == Init /\ [][Next]_vars

-----------------------------------------------------------------------------
(* Properties *)

AnyPort == Ports \cup {NoPort}
Steps == {"down", "binding", "displacing", "announcing", "up", "pushing", "unbound"}

\* The drivers' tables keep their shape, and no claim is younger than its binding.
TypeOK ==
  /\ thread \in [Ports -> Steps]
  /\ device \in [Ports -> Devices \cup {NoDevice}]
  /\ target \in [Ports -> [class : Classes \cup {NoClass}, displaced : AnyPort]]
  /\ syncs \in Nat
  /\ bound \in [Classes -> AnyPort]
  /\ bindGen \in [Classes -> Nat]
  /\ owner \in [Classes -> Fds \cup {NoFd}]
  /\ claimGen \in [Classes -> Nat] /\ \A c \in Classes : claimGen[c] <= bindGen[c]
  /\ topic \in [Classes -> [port : AnyPort, live : BOOLEAN]]
  /\ opens \in Nat
  /\ open \in [Fds -> Classes \cup {NoClass}]
  /\ writing \in [Fds -> AnyPort]
  /\ granted \in [Fds -> Nat \cup {NoGrant}]
  /\ claimed \in [Fds -> AnyPort]

\* A class is bound only to a port in a session whose device is of that class,
\* so no port is bound to two classes and no session ends with a binding left
\* (legosensor_try_bind, legosensor_unbind).
BoundIsSynced ==
  \A c \in Classes, p \in Ports :
    bound[c] = p => /\ thread[p] \in {"displacing", "announcing", "up", "pushing"}
                    /\ Classify(device[p], p) = c

\* Of the descriptors that were granted the current binding of their class and
\* have not given it up, there is one at most (LEGOSENSOR_CLAIM answers -EBUSY).
ClaimExclusive ==
  \A f, g \in Fds :
    /\ f # g
    /\ open[f] # NoClass /\ open[f] = open[g]
    /\ granted[f] = bindGen[open[f]]
    => granted[g] # bindGen[open[g]]

\* A write reaches the port that was bound when the claim it relies on was
\* granted, whatever was unplugged, plugged in or taken over since
\* (legosensor_check_write_claim and the generations).
WritesHitClaimedPort ==
  \A f \in Fds : writing[f] # NoPort => writing[f] = claimed[f]

\* A subscriber's picture settles: when the binding of a class no longer changes,
\* neither does the port its topic shows, late events of other ports aside.
TopicSettles ==
  \A c \in Classes, p \in Ports :
    <>[](bound[c] = p) => <>[](topic[c] = Live(p))
=============================================================================
