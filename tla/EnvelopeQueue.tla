--------------------------- MODULE EnvelopeQueue ----------------------------
(***************************************************************************)
(* The queueing policy of the /dev/drivebase command ring as operators on  *)
(* a sequence of envelopes, oldest first.  An envelope is any record with  *)
(* a field kind.  CmdQueue turns the policy into a specification that the  *)
(* circular buffer of DrivebaseRing refines; DrivebaseIpc builds on it.    *)
(***************************************************************************)
EXTENDS Naturals, Sequences, SequencesExt

Stop == "STOP"

NewestIsStop(q) == q # <<>> /\ q[Len(q)].kind = Stop

OldestVerb(q) ==
  CHOOSE i \in 1..Len(q) :
    /\ q[i].kind # Stop
    /\ \A j \in 1..(i - 1) : q[j].kind = Stop

WithoutOldestVerb(q) == RemoveAt(q, OldestVerb(q))

\* The queue after a STOP: it replaces a newest STOP, else it is appended, at
\* the cost of the oldest verb when the queue holds `capacity' envelopes.
WithStop(q, capacity, env) ==
  IF NewestIsStop(q) THEN [q EXCEPT ![Len(q)] = env]
  ELSE Append(IF Len(q) = capacity THEN WithoutOldestVerb(q) ELSE q, env)
=============================================================================
