------------------------ MODULE DrivebaseDaemonProofs ------------------------
(***************************************************************************)
(* The freeze handshake and the containment of the RT thread, for every    *)
(* number of motors, daemons started and late ticks.                       *)
(*                                                                         *)
(* The three properties need one inductive invariant, DInv.  Its heart is  *)
(* Newest and Reported: two daemon tasks may exist at once, but all tasks  *)
(* except the newest only have their post of teardown_done left to do.     *)
(* The types build on it, TInv: that a task ends only once bounds the      *)
(* posts of teardown_done.                                                 *)
(***************************************************************************)
EXTENDS DrivebaseDaemon, TLAPS, FiniteSetTheorems

Over == {"none", "posting", "done"}
Loading == {"created", "loading"}
Holding == {"waiting", "reclaiming", "rebasing", "thawing"}
InLoop == {"launched", "looping", "sleeping", "reporting", "freezing"} \cup Holding
WithRt == InLoop \cup {"joining"}

Shape ==
  /\ task \in [Tasks -> TaskPoints]
  /\ starts \in 0..MaxStarts
  /\ frozen \in BOOLEAN
  /\ rtIdle \in BOOLEAN

\* Every task but the newest has reported "stopped".
Newest ==
  /\ \A t \in Tasks : t > starts => task[t] = "none"
  /\ \A t \in Tasks : t < starts => task[t] \in {"posting", "done"}
  /\ \A t \in Tasks : t = starts => task[t] # "none"

\* What the shell may conclude from the state it reads.
Reported == state = "stopped" => \A t \in Tasks : task[t] \in Over \cup Loading

Answered ==
  /\ shell = "starting" => starts < MaxStarts /\ \A t \in Tasks : task[t] \in Over
  /\ shell \in {"ready", "stopping"} => \A t \in Tasks : task[t] \notin Loading

\* The handshake: the acknowledgement the daemon task waits for was given after
\* the freeze was raised.
Handshake ==
  /\ \A t \in Tasks : task[t] = "freezing" => ~frozen /\ ~rtIdle
  /\ \A t \in Tasks : task[t] = "waiting" => frozen /\ (rtIdle => rt # "ticking")
  /\ \A t \in Tasks : task[t] \in Holding \ {"waiting"} => frozen /\ rt # "ticking"
  /\ frozen => \E t \in Tasks : task[t] \in Holding

\* What is open while a task is between its attach and its detach.
Opened ==
  /\ \A t \in Tasks : task[t] = "attaching" => initialised
  /\ \A t \in Tasks : task[t] \in WithRt \cup {"launching", "detaching"}
                        => settingsFrozen /\ initialised /\ attached
  /\ rt # "none" => \E t \in Tasks : task[t] \in WithRt

\* A baseline is missing only while one is about to be taken or nothing ticks.
Baseline ==
  /\ \A t \in Tasks : task[t] \in {"attaching", "launching"} => ~phantom
  /\ phantom /\ pending = {} => rt = "none" \/ \E t \in Tasks : task[t] = "rebasing"

DInv == Shape /\ Newest /\ Reported /\ Answered /\ Handshake /\ Opened /\ Baseline

-----------------------------------------------------------------------------

\* A task that has work left besides its post is the newest one, and the others
\* have none.
LEMMA OnlyNewestMoves ==
  ASSUME DaemonAssumption, Shape, Newest, NEW t \in Tasks, task[t] \notin Over
  PROVE  t = starts /\ \A s \in Tasks : s # t => task[s] \in Over
  <1>1. t \in Nat /\ starts \in Nat /\ \A s \in Tasks : s \in Nat
    BY DEF DaemonAssumption, Shape, Tasks
  <1>2. t = starts
    BY <1>1 DEF Newest, Over
  <1>3. ASSUME NEW s \in Tasks, s # t PROVE task[s] \in Over
    BY <1>1, <1>2, <1>3 DEF Newest, Over
  <1> QED BY <1>2, <1>3

LEMMA DInvInit ==
  ASSUME DaemonAssumption
  PROVE  Init => DInv
  <1> SUFFICES ASSUME Init PROVE DInv
    OBVIOUS
  <1>1. starts = 0 /\ \A t \in Tasks : t \in Nat /\ t > 0 /\ task[t] = "none"
    BY DEF DaemonAssumption, Init, Tasks
  <1>2. Shape
    <2>1. task \in [Tasks -> TaskPoints]
      BY DEF Init, TaskPoints
    <2>2. starts \in 0..MaxStarts
      BY <1>1 DEF DaemonAssumption
    <2>3. frozen \in BOOLEAN /\ rtIdle \in BOOLEAN
      BY DEF Init
    <2> QED BY <2>1, <2>2, <2>3 DEF Shape
  <1>3. Newest /\ Reported /\ Answered
    BY <1>1 DEF Init, Newest, Reported, Answered, Over, Loading
  <1>4. Handshake
    <2>1. \A t \in Tasks : task[t] # "freezing" /\ task[t] \notin Holding
      BY <1>1 DEF Holding
    <2>2. ~frozen
      BY DEF Init
    <2> QED BY <2>1, <2>2 DEF Handshake, Holding
  <1>5. Opened
    BY <1>1 DEF Init, Opened, Holding, InLoop, WithRt
  <1>6. Baseline
    BY <1>1 DEF Init, Baseline
  <1> QED BY <1>2, <1>3, <1>4, <1>5, <1>6 DEF DInv

LEMMA ShellKeepsDInv ==
  ASSUME DaemonAssumption
  PROVE  DInv /\ Shell => DInv'
  <1> USE DEF DaemonAssumption, DInv, Shape, Newest, Reported, Answered, Handshake,
          Opened, Baseline, Tasks, TaskPoints, Over, Loading, Holding, InLoop, WithRt,
          lifeVars, freezeVars, stallVars, NoFreeze
  <1>1. ASSUME DInv, StartCheck PROVE DInv'
    BY <1>1 DEF StartCheck
  <1>2. ASSUME DInv, StartCreate PROVE DInv'
    BY <1>2 DEF StartCreate
  <1>3. ASSUME DInv, StartReturns PROVE DInv'
    BY <1>3 DEF StartReturns
  <1>4. ASSUME DInv, StopRequest PROVE DInv'
    BY <1>4 DEF StopRequest
  <1>5. ASSUME DInv, StopReturns PROVE DInv'
    BY <1>5 DEF StopReturns
  <1> QED BY <1>1, <1>2, <1>3, <1>4, <1>5 DEF Shell

LEMMA RtKeepsDInv ==
  ASSUME DaemonAssumption
  PROVE  DInv /\ Rt => DInv'
  <1> USE DEF DaemonAssumption, DInv, Shape, Newest, Reported, Answered, Handshake,
          Opened, Baseline, Tasks, TaskPoints, Over, Loading, Holding, InLoop, WithRt,
          lifeVars, freezeVars, stallVars, NoFreeze
  <1>1. ASSUME DInv, Wake PROVE DInv'
    BY <1>1 DEF Wake
  <1>2. ASSUME DInv, Gate PROVE DInv'
    BY <1>2 DEF Gate
  <1>3. ASSUME DInv, Tick PROVE DInv'
    BY <1>3 DEF Tick
  <1> QED BY <1>1, <1>2, <1>3 DEF Rt

LEMMA TaskKeepsDInv ==
  ASSUME DaemonAssumption, DInv, NEW t \in Tasks, Task(t)
  PROVE  DInv'
  <1> USE DEF DaemonAssumption, DInv, Shape, Newest, Reported, Answered, Handshake,
          Opened, Baseline, Tasks, TaskPoints, Over, Loading, Holding, InLoop, WithRt,
          lifeVars, freezeVars, stallVars, NoFreeze
  <1>1. CASE LoadSettings(t)
    BY <1>1, OnlyNewestMoves DEF LoadSettings, At
  <1>2. CASE Initialise(t)
    BY <1>2, OnlyNewestMoves DEF Initialise, At
  <1>3. CASE AttachHandler(t)
    BY <1>3, OnlyNewestMoves DEF AttachHandler, At
  <1>4. CASE LaunchRt(t)
    BY <1>4, OnlyNewestMoves DEF LaunchRt, At
  <1>5. CASE EnterLoop(t)
    BY <1>5, OnlyNewestMoves DEF EnterLoop, At
  <1>6. CASE LeaveLoop(t)
    BY <1>6, OnlyNewestMoves DEF LeaveLoop, At
  <1>7. CASE BeginPass(t)
    BY <1>7, OnlyNewestMoves DEF BeginPass, At
  <1>8. CASE NothingLost(t)
    BY <1>8, OnlyNewestMoves DEF NothingLost, At
  <1>9. CASE Report(t)
    BY <1>9, OnlyNewestMoves DEF Report, At
  <1>10. CASE WithdrawAck(t)
    BY <1>10, OnlyNewestMoves DEF WithdrawAck, At
  <1>11. CASE RaiseFreeze(t)
    BY <1>11, OnlyNewestMoves DEF RaiseFreeze, At
  <1>12. CASE Acknowledged(t)
    BY <1>12, OnlyNewestMoves DEF Acknowledged, At
  <1>13. CASE Reclaim(t)
    BY <1>13, OnlyNewestMoves DEF Reclaim, At
  <1>14. CASE Rebase(t)
    BY <1>14, OnlyNewestMoves DEF Rebase, At
  <1>15. CASE Thaw(t)
    BY <1>15, OnlyNewestMoves DEF Thaw, At
  <1>16. CASE JoinRt(t)
    BY <1>16, OnlyNewestMoves DEF JoinRt, At
  <1>17. CASE DetachHandler(t)
    BY <1>17, OnlyNewestMoves DEF DetachHandler, At
  <1>18. CASE CloseMotors(t)
    <2>1. Shape'
      BY <1>18, OnlyNewestMoves DEF CloseMotors, At
    <2>2. Newest'
      BY <1>18, OnlyNewestMoves DEF CloseMotors, At
    <2>3. Reported'
      BY <1>18, OnlyNewestMoves DEF CloseMotors, At
    <2>4. Answered'
      BY <1>18, OnlyNewestMoves DEF CloseMotors, At
    <2>5. Handshake'
      BY <1>18, OnlyNewestMoves DEF CloseMotors, At
    <2>6. Opened'
      BY <1>18, OnlyNewestMoves DEF CloseMotors, At
    <2>7. Baseline'
      BY <1>18, OnlyNewestMoves DEF CloseMotors, At
    <2> QED BY <2>1, <2>2, <2>3, <2>4, <2>5, <2>6, <2>7
  <1>19. CASE ReportStopped(t)
    BY <1>19, OnlyNewestMoves DEF ReportStopped, At
  <1>20. CASE PostTeardown(t)
    BY <1>20, OnlyNewestMoves DEF PostTeardown, At
  <1>21. CASE ProbeMotors(t)
    <2>1. Shape'
      BY <1>21, OnlyNewestMoves DEF ProbeMotors, At
    <2>2. Newest'
      BY <1>21, OnlyNewestMoves DEF ProbeMotors, At
    <2>3. Reported'
      BY <1>21, OnlyNewestMoves DEF ProbeMotors, At
    <2>4. Answered'
      BY <1>21, OnlyNewestMoves DEF ProbeMotors, At
    <2>5. Handshake'
      BY <1>21, OnlyNewestMoves DEF ProbeMotors, At
    <2>6. Opened'
      BY <1>21, OnlyNewestMoves DEF ProbeMotors, At
    <2>7. Baseline'
      BY <1>21, OnlyNewestMoves DEF ProbeMotors, At
    <2> QED BY <2>1, <2>2, <2>3, <2>4, <2>5, <2>6, <2>7
  <1>22. CASE AckTimeout(t)
    <2>1. Shape'
      BY <1>22, OnlyNewestMoves DEF AckTimeout, At
    <2>2. Newest'
      BY <1>22, OnlyNewestMoves DEF AckTimeout, At
    <2>3. Reported'
      BY <1>22, OnlyNewestMoves DEF AckTimeout, At
    <2>4. Answered'
      BY <1>22, OnlyNewestMoves DEF AckTimeout, At
    <2>5. Handshake'
      BY <1>22, OnlyNewestMoves DEF AckTimeout, At
    <2>6. Opened'
      BY <1>22, OnlyNewestMoves DEF AckTimeout, At
    <2>7. Baseline'
      BY <1>22, OnlyNewestMoves DEF AckTimeout, At
    <2> QED BY <2>1, <2>2, <2>3, <2>4, <2>5, <2>6, <2>7
  <1>23. CASE UndoStart(t)
    <2>1. Shape'
      BY <1>23, OnlyNewestMoves DEF UndoStart, At
    <2>2. Newest'
      BY <1>23, OnlyNewestMoves DEF UndoStart, At
    <2>3. Reported'
      BY <1>23, OnlyNewestMoves DEF UndoStart, At
    <2>4. Answered'
      BY <1>23, OnlyNewestMoves DEF UndoStart, At
    <2>5. Handshake'
      BY <1>23, OnlyNewestMoves DEF UndoStart, At
    <2>6. Opened'
      BY <1>23, OnlyNewestMoves DEF UndoStart, At
    <2>7. Baseline'
      BY <1>23, OnlyNewestMoves DEF UndoStart, At
    <2> QED BY <2>1, <2>2, <2>3, <2>4, <2>5, <2>6, <2>7
  <1> QED BY <1>1, <1>2, <1>3, <1>4, <1>5, <1>6, <1>7, <1>8, <1>9, <1>10, <1>11, <1>12,
     <1>13, <1>14, <1>15, <1>16, <1>17, <1>18, <1>19, <1>20, <1>21, <1>22, <1>23 DEF Task

LEMMA DInvStep ==
  ASSUME DaemonAssumption
  PROVE  DInv /\ [Next]_vars => DInv'
  <1> SUFFICES ASSUME DInv, [Next]_vars PROVE DInv'
    OBVIOUS
  <1>1. CASE Shell
    BY <1>1, ShellKeepsDInv
  <1>2. CASE \E t \in Tasks : Task(t)
    BY <1>2, TaskKeepsDInv
  <1>3. CASE Rt
    BY <1>3, RtKeepsDInv
  <1>4. CASE \E side \in Sides : PortLost(side)
    BY <1>4 DEF PortLost, lifeVars, stallVars, DInv, Shape, Newest, Reported,
                Answered, Handshake, Opened, Baseline
  <1>5. CASE UNCHANGED vars
    BY <1>5 DEF vars, DInv, Shape, Newest, Reported, Answered, Handshake, Opened,
                Baseline
  <1> QED BY <1>1, <1>2, <1>3, <1>4, <1>5 DEF Next

LEMMA DInvAlways ==
  ASSUME DaemonAssumption
  PROVE  Spec => []DInv
  BY DInvInit, DInvStep, PTL DEF Spec

-----------------------------------------------------------------------------

\* While ports are reopened and the controllers reset, no tick runs, however the
\* acknowledgements of earlier, timed-out freezes arrive (daemon_try_reclaim).
THEOREM FreezeExcludesTicks ==
  ASSUME DaemonAssumption
  PROVE  Spec => []ReclaimExclusive
  <1>1. DInv => ReclaimExclusive
    BY DEF DInv, Handshake, ReclaimExclusive, Holding
  <1> QED BY <1>1, DInvAlways, PTL

\* A tick that is not told of a lost port never uses an encoder baseline from
\* before a reopening (db_drivebase_reset under the freeze).
THEOREM BaselineAfterReopening ==
  ASSUME DaemonAssumption
  PROVE  Spec => []DrivesOnFreshBaseline
  <1>1. DInv => DrivesOnFreshBaseline
    BY DEF DInv, Handshake, Baseline, DrivesOnFreshBaseline, Holding
  <1> QED BY <1>1, DInvAlways, PTL

\* The RT thread lives inside the frozen settings, the open motors and the
\* attachment, also across the tail of an older daemon (daemon_task_main).
THEOREM RtInsideAttachment ==
  ASSUME DaemonAssumption
  PROVE  Spec => []RtContained
  <1>1. DInv => RtContained
    BY DEF DInv, Opened, RtContained
  <1> QED BY <1>1, DInvAlways, PTL

-----------------------------------------------------------------------------
(* Types.  That teardown_done never counts past the tasks created is no     *)
(* matter of one step: each post is a task's last, and a start drains them. *)

Done == {t \in Tasks : task[t] = "done"}

Scalars ==
  /\ state \in {"stopped", "initialising", "running", "teardown"}
  /\ running \in BOOLEAN
  /\ shell \in {"ready", "starting", "polling", "stopping"}
  /\ settingsFrozen \in BOOLEAN /\ initialised \in BOOLEAN /\ attached \in BOOLEAN
  /\ rt \in {"none", "asleep", "gate", "ticking", "exited"}
  /\ phantom \in BOOLEAN

Lost == pending \subseteq Sides /\ stale \subseteq Sides

Counted ==
  /\ misses \in 0..MaxMisses /\ lastMisses \in 0..MaxMisses
  /\ consecutive \in 0..StallLimit /\ streak \in 0..StallLimit

Posts == posted \in Nat /\ posted <= Cardinality(Done)

TInv == Scalars /\ Lost /\ Counted /\ Posts

\* What a step does to the semaphore and to the tasks that have posted.
PostsOnce ==
  /\ Done \subseteq Done'
  /\ \/ posted' = posted
     \/ posted' = 0
     \/ posted > 0 /\ posted' = posted - 1
     \/ posted' = posted + 1 /\ Done' # Done

LEMMA TasksFinite ==
  ASSUME DaemonAssumption
  PROVE  IsFiniteSet(Tasks) /\ Cardinality(Tasks) = MaxStarts
  <1>1. MaxStarts \in Nat /\ MaxStarts \in Int /\ 1 \in Int
    BY DEF DaemonAssumption
  <1>2. /\ IsFiniteSet(1..MaxStarts)
        /\ Cardinality(1..MaxStarts) = IF 1 > MaxStarts THEN 0 ELSE MaxStarts - 1 + 1
    BY <1>1, FS_Interval
  <1> QED BY <1>1, <1>2 DEF Tasks

LEMMA DoneFinite ==
  ASSUME DaemonAssumption
  PROVE  /\ IsFiniteSet(Done) /\ Cardinality(Done) \in Nat /\ Cardinality(Done) <= MaxStarts
         /\ IsFiniteSet(Done') /\ Cardinality(Done') \in Nat
  <1>1. Done \subseteq Tasks /\ Done' \subseteq Tasks
    BY DEF Done
  <1> QED BY <1>1, TasksFinite, FS_Subset, FS_CardinalityType

LEMMA PostsKept ==
  ASSUME DaemonAssumption
  PROVE  Posts /\ PostsOnce => Posts'
  <1> SUFFICES ASSUME Posts, PostsOnce PROVE Posts'
    OBVIOUS
  <1>1. Cardinality(Done) <= Cardinality(Done')
    BY DoneFinite, FS_Subset DEF PostsOnce
  <1>2. Done' # Done => Cardinality(Done) < Cardinality(Done')
    BY DoneFinite, FS_Subset DEF PostsOnce
  <1>3. \A c, d, p, q \in Nat :
          c <= d /\ p <= c /\ (q = p \/ q = 0 \/ q = p - 1 \/ (q = p + 1 /\ c < d)) => q <= d
    OBVIOUS
  <1>4. posted' \in Nat
    BY DEF Posts, PostsOnce
  <1> QED BY <1>1, <1>2, <1>3, <1>4, DoneFinite DEF Posts, PostsOnce

LEMMA NextPosts ==
  ASSUME DaemonAssumption
  PROVE  DInv /\ [Next]_vars => PostsOnce
  <1> SUFFICES ASSUME DInv, [Next]_vars PROVE PostsOnce
    OBVIOUS
  <1>0. /\ task \in [Tasks -> TaskPoints] /\ starts \in Nat
        /\ \A t \in Tasks : t > starts => task[t] = "none"
    BY DEF DInv, Shape, Newest
  <1>1. CASE Shell
    <2>1. CASE StartCreate
      <3>1. posted' = 0 /\ task' = [task EXCEPT ![starts + 1] = "created"]
        BY <2>1 DEF StartCreate
      <3>2. \A t \in Tasks : task[t] = "done" => t # starts + 1
        BY <1>0 DEF Tasks
      <3> QED BY <1>0, <3>1, <3>2 DEF PostsOnce, Done
    <2>2. CASE ~StartCreate
      <3>1. /\ task' = task
            /\ \/ posted' = posted
               \/ posted > 0 /\ posted' = posted - 1
        BY <1>1, <2>2 DEF Shell, StartCheck, StartReturns, StopRequest, StopReturns,
           lifeVars
      <3> QED BY <3>1 DEF PostsOnce, Done
    <2> QED BY <2>1, <2>2
  <1>2. ASSUME NEW t \in Tasks, Task(t) PROVE PostsOnce
    <2>1. CASE PostTeardown(t)
      BY <1>0, <2>1 DEF PostTeardown, At, PostsOnce, Done
    <2>2. ASSUME ~PostTeardown(t)
          PROVE  posted' = posted /\ task[t] # "done" /\ \A s \in Tasks : s # t => task'[s] = task[s]
      BY <1>0, <1>2, <2>2 DEF Task, At, lifeVars, LoadSettings, Initialise,
           ProbeMotors, AttachHandler, LaunchRt, EnterLoop, LeaveLoop, BeginPass,
           NothingLost, Report, WithdrawAck, RaiseFreeze, Acknowledged, AckTimeout,
           Reclaim, Rebase, Thaw, JoinRt, DetachHandler, CloseMotors, UndoStart,
           ReportStopped
    <2>3. CASE ~PostTeardown(t)
      BY <2>2, <2>3 DEF PostsOnce, Done
    <2> QED BY <2>1, <2>3
  <1>3. CASE Rt
    BY <1>3 DEF Rt, Wake, Gate, Tick, lifeVars, PostsOnce, Done
  <1>4. CASE \E side \in Sides : PortLost(side)
    BY <1>4 DEF PortLost, lifeVars, PostsOnce, Done
  <1>5. CASE UNCHANGED vars
    BY <1>5 DEF vars, PostsOnce, Done
  <1> QED BY <1>1, <1>2, <1>3, <1>4, <1>5 DEF Next

LEMMA TInvInit ==
  ASSUME DaemonAssumption
  PROVE  Init => TInv
  <1> SUFFICES ASSUME Init PROVE TInv
    OBVIOUS
  <1>1. Scalars /\ Lost
    BY DEF Init, Scalars, Lost
  <1>2. Counted
    BY DEF DaemonAssumption, Init, Counted
  <1>3. Posts
    BY DoneFinite DEF Init, Posts
  <1> QED BY <1>1, <1>2, <1>3 DEF TInv

LEMMA ScalarsStep ==
  ASSUME DaemonAssumption
  PROVE  TInv /\ [Next]_vars => Scalars'
  <1> SUFFICES ASSUME TInv, [Next]_vars PROVE Scalars'
    OBVIOUS
  <1> USE DEF TInv, Scalars, lifeVars, freezeVars
  <1>1. CASE Shell
    <2>1. CASE StartCheck \/ StartCreate \/ StartReturns
      BY <2>1 DEF StartCheck, StartCreate, StartReturns
    <2>2. CASE StopRequest
      BY <2>2 DEF StopRequest
    <2>3. CASE StopReturns
      BY <2>3 DEF StopReturns
    <2> QED BY <1>1, <2>1, <2>2, <2>3 DEF Shell
  <1>2. ASSUME NEW t \in Tasks, Task(t) PROVE Scalars'
    <2>1. CASE Reclaim(t) \/ Rebase(t)
      <3>1. phantom' \in BOOLEAN
        BY <2>1 DEF Reclaim, Rebase
      <3> QED BY <2>1, <3>1 DEF Reclaim, Rebase
    <2>2. CASE LoadSettings(t) \/ Initialise(t) \/ ProbeMotors(t) \/ AttachHandler(t)
      BY <2>2 DEF LoadSettings, Initialise, ProbeMotors, AttachHandler
    <2>3. CASE LaunchRt(t) \/ EnterLoop(t) \/ LeaveLoop(t) \/ BeginPass(t)
               \/ NothingLost(t) \/ Report(t)
      BY <2>3 DEF LaunchRt, EnterLoop, LeaveLoop, BeginPass, NothingLost, Report
    <2>4. CASE WithdrawAck(t) \/ RaiseFreeze(t) \/ Acknowledged(t) \/ AckTimeout(t)
               \/ Thaw(t)
      BY <2>4 DEF WithdrawAck, RaiseFreeze, Acknowledged, AckTimeout, Thaw
    <2>5. CASE JoinRt(t) \/ DetachHandler(t) \/ CloseMotors(t) \/ UndoStart(t)
               \/ ReportStopped(t) \/ PostTeardown(t)
      BY <2>5 DEF JoinRt, DetachHandler, CloseMotors, UndoStart, ReportStopped,
         PostTeardown
    <2> QED BY <1>2, <2>1, <2>2, <2>3, <2>4, <2>5 DEF Task
  <1>3. CASE Rt
    BY <1>3 DEF Rt, Wake, Gate, Tick
  <1>4. CASE \E side \in Sides : PortLost(side)
    BY <1>4 DEF PortLost
  <1>5. CASE UNCHANGED vars
    BY <1>5 DEF vars
  <1> QED BY <1>1, <1>2, <1>3, <1>4, <1>5 DEF Next

LEMMA LostStep ==
  ASSUME DaemonAssumption
  PROVE  TInv /\ [Next]_vars => Lost'
  <1> SUFFICES ASSUME TInv, [Next]_vars PROVE Lost'
    OBVIOUS
  <1> USE DEF TInv, Lost, freezeVars
  <1>1. CASE Shell
    BY <1>1 DEF Shell, StartCheck, StartCreate, StartReturns, StopRequest, StopReturns
  <1>2. ASSUME NEW t \in Tasks, Task(t) PROVE Lost'
    BY <1>2 DEF Task, NoFreeze, LoadSettings, Initialise, ProbeMotors, AttachHandler,
         LaunchRt, EnterLoop, LeaveLoop, BeginPass, NothingLost, Report, WithdrawAck,
         RaiseFreeze, Acknowledged, AckTimeout, Reclaim, Rebase, Thaw, JoinRt,
         DetachHandler, CloseMotors, UndoStart, ReportStopped, PostTeardown
  <1>3. CASE Rt
    BY <1>3 DEF Rt, Wake, Gate, Tick
  <1>4. CASE \E side \in Sides : PortLost(side)
    BY <1>4 DEF PortLost
  <1>5. CASE UNCHANGED vars
    BY <1>5 DEF vars
  <1> QED BY <1>1, <1>2, <1>3, <1>4, <1>5 DEF Next

LEMMA CappedType ==
  ASSUME DaemonAssumption, NEW n \in Nat
  PROVE  Capped(n) \in 0..StallLimit
  BY DEF DaemonAssumption, Capped

LEMMA CountedStep ==
  ASSUME DaemonAssumption
  PROVE  TInv /\ [Next]_vars => Counted'
  <1> SUFFICES ASSUME TInv, [Next]_vars PROVE Counted'
    OBVIOUS
  <1> USE DEF DaemonAssumption, TInv, Counted, stallVars
  <1>1. CASE Shell
    BY <1>1 DEF Shell, StartCheck, StartCreate, StartReturns, StopRequest, StopReturns
  <1>2. ASSUME NEW t \in Tasks, Task(t) PROVE Counted'
    BY <1>2 DEF Task, LoadSettings, Initialise, ProbeMotors, AttachHandler, LaunchRt,
         EnterLoop, LeaveLoop, BeginPass, NothingLost, Report, WithdrawAck,
         RaiseFreeze, Acknowledged, AckTimeout, Reclaim, Rebase, Thaw, JoinRt,
         DetachHandler, CloseMotors, UndoStart, ReportStopped, PostTeardown
  <1>3. CASE Wake
    BY <1>3, CappedType DEF Wake
  <1>4. CASE Gate
    BY <1>4 DEF Gate
  <1>5. CASE Tick
    <2>1. misses > lastMisses => consecutive + (misses - lastMisses) \in Nat
      OBVIOUS
    <2> QED BY <1>5, <2>1, CappedType DEF Tick
  <1>6. CASE \E side \in Sides : PortLost(side)
    BY <1>6 DEF PortLost
  <1>7. CASE UNCHANGED vars
    BY <1>7 DEF vars
  <1> QED BY <1>1, <1>2, <1>3, <1>4, <1>5, <1>6, <1>7 DEF Next, Rt

\* Types, for any number of daemons started: among them that teardown_done is
\* posted at most once by each task, which never ends twice, so the count the
\* shell waits on stays below the tasks created since it was last drained.
THEOREM DaemonTypesCorrect ==
  ASSUME DaemonAssumption
  PROVE  Spec => []TypeOK
  <1>1. DInv /\ TInv => TypeOK
    <2> SUFFICES ASSUME DInv, TInv PROVE TypeOK
      OBVIOUS
    <2>1. posted \in 0..MaxStarts
      BY DoneFinite DEF DaemonAssumption, TInv, Posts
    <2> QED BY <2>1 DEF TInv, Scalars, Lost, Counted, DInv, Shape, TypeOK
  <1>2. DInv /\ TInv /\ [Next]_vars => TInv'
    BY NextPosts, PostsKept, ScalarsStep, LostStep, CountedStep DEF TInv
  <1> QED BY <1>1, <1>2, TInvInit, DInvAlways, PTL DEF Spec
=============================================================================
