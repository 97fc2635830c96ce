------------------------------ MODULE Scheduler ------------------------------
(***************************************************************************)
(* core/scheduler.py: the SchedulerRunner of every process of the          *)
(* application.  Each process starts one task per scheduled job; for a     *)
(* job of Single the task first becomes the owner of the job's lock and    *)
(* keeps it, the other processes stand by.  Processes shut down, crash and *)
(* start again.  Sleeps last any time: the schedule itself (cron fields,   *)
(* jitter) is not modelled; Redis time is, in ticks.                       *)
(***************************************************************************)
EXTENDS Locks

CONSTANTS Single,      \* jobs with single=True
          OneShot,     \* @timeout jobs; the others are @interval or @cron
          Capped,      \* jobs with max_seconds
          Threaded,    \* jobs with thread=True
          RenewEvery,  \* renew_seconds, in ticks
          MaxLate,     \* how late a renewal may come (busy event loop)
          Drain,       \* drain_seconds, in ticks
          MaxStall,    \* how late the last release may reach Redis
          MaxStarts,   \* bound: starts of one process
          MaxErrors,   \* bound: failed lock commands
          MaxGhosts    \* bound: abandoned threads of one job in one process

Jobs == Names

ASSUME SchedulerAssumption ==
  /\ Single \subseteq Jobs /\ OneShot \subseteq Jobs
  /\ Capped \subseteq Jobs /\ Threaded \subseteq Jobs
  /\ RenewEvery \in Nat \ {0} /\ MaxLate \in Nat
  /\ Drain \in Nat /\ MaxStall \in Nat
  /\ MaxStarts \in Nat /\ MaxErrors \in Nat /\ MaxGhosts \in Nat

VARIABLES phase,   \* life of each process
          loop,    \* loop[p][j]: the task of job j in process p
          ghosts,  \* ghosts[p][j]: threads of j that p no longer waits for
          lag,     \* ticks since the renewal loop of p made its last pass
          lost,    \* lost[p]: jobs for which p logged scheduler.lock_lost
          starts,  \* starts of each process so far
          errors   \* failed lock commands so far

procVars == <<phase, loop, ghosts, lag, lost, starts, errors>>
vars == <<lockVars, procVars>>

Phases == {"down", "up", "closing", "renewed", "draining", "releasing", "stopped"}
LoopStates == {"off", "contend", "standby", "wait", "run", "cancelled", "ended"}
LagLimit == RenewEvery + MaxLate + Drain

TypeOK == /\ LocksTypeOK
          /\ phase \in [Procs -> Phases]
          /\ loop \in [Procs -> [Jobs -> LoopStates]]
          /\ ghosts \in [Procs -> [Jobs -> 0..MaxGhosts]]
          /\ lag \in [Procs -> 0..(LagLimit + MaxStall)]
          /\ lost \in [Procs -> SUBSET Jobs]
          /\ starts \in [Procs -> 0..MaxStarts]
          /\ errors \in 0..MaxErrors

Init == /\ LocksInit
        /\ phase = [p \in Procs |-> "down"]
        /\ loop = [p \in Procs |-> [j \in Jobs |-> "off"]]
        /\ ghosts = [p \in Procs |-> [j \in Jobs |-> 0]]
        /\ lag = [p \in Procs |-> 0]
        /\ lost = [p \in Procs |-> {}]
        /\ starts = [p \in Procs |-> 0]
        /\ errors = 0

Closing(p) == phase[p] # "up"
Goto(p, j, s) == loop' = [loop EXCEPT ![p][j] = s]
Fail == errors < MaxErrors /\ errors' = errors + 1

(***************************************************************************)
(* Startup: one task per job and the renewal task.                         *)
(***************************************************************************)
Startup(p) ==
  /\ phase[p] = "down" /\ starts[p] < MaxStarts
  /\ phase' = [phase EXCEPT ![p] = "up"]
  /\ loop' = [loop EXCEPT ![p] =
                [j \in Jobs |-> IF j \in Single THEN "contend" ELSE "wait"]]
  /\ starts' = [starts EXCEPT ![p] = @ + 1]
  /\ UNCHANGED <<lockVars, ghosts, lag, lost, errors>>

(***************************************************************************)
(* _become_owner: win the lock once and keep it, or stand by and try again *)
(* later.  A lock command that raises ends the task (loop_crashed).        *)
(***************************************************************************)
BecomeOwner(p, j) ==
  /\ loop[p][j] = "contend" /\ ~Closing(p)
  /\ \/ AcquireOk(p, j) /\ Goto(p, j, "wait")
     \/ AcquireNo(p, j) /\ Goto(p, j, "standby")
  /\ UNCHANGED <<phase, ghosts, lag, lost, starts, errors>>

LoopCrashed(p, j) ==
  /\ loop[p][j] = "contend" /\ ~Closing(p)
  /\ Fail
  /\ AcquireError(p, j)
  /\ Goto(p, j, "ended")
  /\ UNCHANGED <<phase, ghosts, lag, lost, starts>>

(* Bug: the standby tries once only.                                       *)
LeaveStandby_GivesUp(p, j) ==
  /\ loop[p][j] = "standby"
  /\ Goto(p, j, "ended")
  /\ UNCHANGED <<lockVars, phase, ghosts, lag, lost, starts, errors>>

LeaveStandby(p, j) ==
  /\ loop[p][j] = "standby"
  /\ Goto(p, j, IF Closing(p) THEN "ended" ELSE "contend")
  /\ UNCHANGED <<lockVars, phase, ghosts, lag, lost, starts, errors>>

(***************************************************************************)
(* The sleep before a run ends.  A closing process starts no interval or   *)
(* cron run; the @timeout path does not look at _closing.                  *)
(***************************************************************************)
RunStart(p, j) ==
  /\ loop[p][j] = "wait"
  /\ Goto(p, j, IF Closing(p) /\ j \notin OneShot THEN "ended" ELSE "run")
  /\ UNCHANGED <<lockVars, phase, ghosts, lag, lost, starts, errors>>

(* What follows a run in _loop: a @timeout job is over, the others sleep.  *)
AfterRun(p, j) == Goto(p, j, IF Closing(p) \/ j \in OneShot THEN "ended" ELSE "wait")

(* The body returns or raises; an error is logged and counted, no more.    *)
RunEnd(p, j) ==
  /\ loop[p][j] = "run"
  /\ AfterRun(p, j)
  /\ UNCHANGED <<lockVars, phase, ghosts, lag, lost, starts, errors>>

(* Bug: a body cut by max_seconds is not cancelled.                        *)
RunTimeout_LeavesBody(p, j) ==
  /\ loop[p][j] = "run" /\ j \in Capped
  /\ AfterRun(p, j)
  /\ ghosts[p][j] < MaxGhosts
  /\ ghosts' = [ghosts EXCEPT ![p][j] = @ + 1]
  /\ UNCHANGED <<lockVars, phase, lag, lost, starts, errors>>

(* max_seconds: a coroutine is cancelled; a thread cannot be, its future   *)
(* is dropped and it runs on.                                              *)
RunTimeout(p, j) ==
  /\ loop[p][j] = "run" /\ j \in Capped
  /\ AfterRun(p, j)
  /\ IF j \in Threaded
     THEN /\ ghosts[p][j] < MaxGhosts
          /\ ghosts' = [ghosts EXCEPT ![p][j] = @ + 1]
     ELSE UNCHANGED ghosts
  /\ UNCHANGED <<lockVars, phase, lag, lost, starts, errors>>

(* A thread nobody waits for comes to its end.                             *)
GhostEnd(p, j) ==
  /\ ghosts[p][j] > 0
  /\ ghosts' = [ghosts EXCEPT ![p][j] = @ - 1]
  /\ UNCHANGED <<lockVars, phase, loop, lag, lost, starts, errors>>

(***************************************************************************)
(* _renew_loop: every renew_seconds, renew each owned lock; a renewal that *)
(* answers False is only logged.  FileLock.renew changes nothing.          *)
(***************************************************************************)
RenewOwned(p) ==
  \E failed \in SUBSET held[p] :
    /\ RenewAll(p, held[p], failed)
    /\ IF failed = {} THEN UNCHANGED errors ELSE Fail
    /\ lost' = [lost EXCEPT ![p] = @ \cup failed]

RenewPass(p) ==
  /\ Kind = "redis" /\ phase[p] = "up" /\ lag[p] >= RenewEvery
  /\ RenewOwned(p)
  /\ lag' = [lag EXCEPT ![p] = 0]
  /\ UNCHANGED <<phase, loop, ghosts, starts>>

(* _sleep swallows the cancellation by shutdown(), so a renewal task that  *)
(* was asleep makes one more pass before it looks at _closing.             *)
LastRenewal(p) ==
  /\ Kind = "redis" /\ phase[p] = "closing"
  /\ phase' = [phase EXCEPT ![p] = "renewed"]
  /\ RenewOwned(p)
  /\ UNCHANGED <<loop, ghosts, lag, starts>>

(* Redis time.  An open process renews at most MaxLate ticks late; one     *)
(* that shuts down has drain_seconds more before it releases its locks,    *)
(* which takes MaxStall ticks at most.                                     *)
LagBound(p) ==
  CASE phase[p] = "up" -> RenewEvery + MaxLate
    [] phase[p] \in {"closing", "renewed", "draining"} -> LagLimit
    [] phase[p] = "releasing" -> LagLimit + MaxStall
    [] OTHER -> 0

Timed(p) == phase[p] \notin {"down", "stopped"}

Tick ==
  /\ Kind = "redis"
  /\ \A p \in Procs : Timed(p) => lag[p] < LagBound(p)
  /\ Elapse
  /\ lag' = [p \in Procs |-> IF Timed(p) THEN lag[p] + 1 ELSE lag[p]]
  /\ UNCHANGED <<phase, loop, ghosts, lost, starts, errors>>

(***************************************************************************)
(* shutdown: end the renewals, cancel every task, wait for them with a    *)
(* limit, then release the locks one by one.                               *)
(***************************************************************************)
BeginShutdown(p) ==
  /\ phase[p] = "up"
  /\ phase' = [phase EXCEPT ![p] = "closing"]
  /\ UNCHANGED <<lockVars, loop, ghosts, lag, lost, starts, errors>>

(* task.cancel() on every task: the sleeping ones end, a coroutine body    *)
(* has its own cleanup to do, the thread of a body is abandoned.  A task   *)
(* that awaits its lock may be cut off after Redis carried out the SET.    *)
CancelTasks(p) ==
  LET cut(j) == loop[p][j] = "run" /\ j \in Threaded
      asking == {j \in Jobs : loop[p][j] = "contend" /\ key[j] = None}
  IN
  /\ phase[p] \in {"closing", "renewed"}
  /\ phase' = [phase EXCEPT ![p] = "draining"]
  /\ loop' = [loop EXCEPT ![p] =
       [j \in Jobs |-> IF loop[p][j] = "run" /\ j \notin Threaded THEN "cancelled" ELSE "ended"]]
  /\ \A j \in Jobs : cut(j) => ghosts[p][j] < MaxGhosts
  /\ ghosts' = [ghosts EXCEPT ![p] =
       [j \in Jobs |-> IF cut(j) THEN ghosts[p][j] + 1 ELSE ghosts[p][j]]]
  /\ \/ UNCHANGED <<key, age>>
     \/ \E j \in asking : Kind = "redis" /\ Write(p, j)
  /\ UNCHANGED <<held, lag, lost, starts, errors>>

(* The cancelled body finishes its cleanup.                                *)
CancelledEnd(p, j) ==
  /\ loop[p][j] = "cancelled"
  /\ Goto(p, j, "ended")
  /\ UNCHANGED <<lockVars, phase, ghosts, lag, lost, starts, errors>>

(* asyncio.wait returns: all tasks are done, or drain_seconds are over.    *)
Drained(p) ==
  /\ phase[p] = "draining"
  /\ phase' = [phase EXCEPT ![p] = "releasing"]
  /\ UNCHANGED <<lockVars, loop, ghosts, lag, lost, starts, errors>>

ReleaseNext(p) ==
  /\ phase[p] = "releasing"
  /\ IF held[p] = {}
     THEN phase' = [phase EXCEPT ![p] = "stopped"] /\ UNCHANGED lockVars
     ELSE UNCHANGED phase /\ \E j \in held[p] : Release(p, j)
  /\ UNCHANGED <<loop, ghosts, lag, lost, starts, errors>>

(* The process exits after its shutdown, or crashes at any time.           *)
Exit(p) ==
  /\ phase[p] # "down"
  /\ phase' = [phase EXCEPT ![p] = "down"]
  /\ loop' = [loop EXCEPT ![p] = [j \in Jobs |-> "off"]]
  /\ ghosts' = [ghosts EXCEPT ![p] = [j \in Jobs |-> 0]]
  /\ lag' = [lag EXCEPT ![p] = 0]
  /\ lost' = [lost EXCEPT ![p] = {}]
  /\ Vanish(p)
  /\ UNCHANGED <<starts, errors>>

JobStep(p, j) ==
  \/ BecomeOwner(p, j) \/ LoopCrashed(p, j) \/ LeaveStandby(p, j)
  \/ RunStart(p, j) \/ RunEnd(p, j) \/ RunTimeout(p, j) \/ GhostEnd(p, j)
  \/ CancelledEnd(p, j)

ProcStep(p) ==
  \/ Startup(p) \/ RenewPass(p) \/ LastRenewal(p) \/ BeginShutdown(p) \/ CancelTasks(p)
  \/ Drained(p) \/ ReleaseNext(p) \/ Exit(p)

Next == \/ \E p \in Procs : ProcStep(p) \/ \E j \in Jobs : JobStep(p, j)
        \/ Tick

(***************************************************************************)
(* The event loop keeps running ready tasks and sleeps end, so the steps   *)
(* of the runner are weakly fair.  Starting, stopping and crashing are the *)
(* environment's choice.  A job body that is not stuck returns (RunEnd).   *)
(***************************************************************************)
Fairness ==
  /\ WF_vars(Tick)
  /\ \A p \in Procs :
       /\ WF_vars(RenewPass(p)) /\ WF_vars(CancelTasks(p))
       /\ WF_vars(Drained(p)) /\ WF_vars(ReleaseNext(p))
       /\ \A j \in Jobs : /\ WF_vars(BecomeOwner(p, j)) /\ WF_vars(LeaveStandby(p, j))
                          /\ WF_vars(RunStart(p, j)) /\ WF_vars(RunEnd(p, j))
                          /\ WF_vars(GhostEnd(p, j))

Spec == Init /\ [][Next]_vars
FairSpec == Spec /\ Fairness

-----------------------------------------------------------------------------
(* Bodies of job j that process p is executing now.                        *)
Executing(p, j) ==
  ghosts[p][j] + (IF loop[p][j] \in {"run", "cancelled"} THEN 1 ELSE 0)

(* shutdown() stopped waiting for its tasks and lets go of its locks.      *)
GaveUp(p) == phase[p] \in {"releasing", "stopped"}

(* The reason for single=True: two processes never execute the same single *)
(* job at once, unless one of them is past the drain of its shutdown and   *)
(* still has a body that did not stop when it was cancelled.               *)
OneRunner ==
  \A j \in Single : \A p, q \in Procs :
    p # q /\ Executing(p, j) > 0 /\ Executing(q, j) > 0 => GaveUp(p) \/ GaveUp(q)

(* Runs of a job do not pile up inside a process: the table at the head of *)
(* scheduler.py says that a run cannot overlap the one before it.          *)
NoOverlap == \A p \in Procs, j \in Jobs : Executing(p, j) <= 1

(* A standby replaces an owner that stopped or died, whoever it was: if    *)
(* some process stays up for good, the job has a live owner from then on   *)
(* again and again.                                                        *)
Takeover ==
  \A j \in Single :
    (\E p \in Procs : <>[](phase[p] = "up"))
      => []<>(\E p \in Procs : phase[p] = "up" /\ j \in held[p])

(* An owner that stays up keeps running its periodic jobs, whatever their  *)
(* runs raised and however many were cut by max_seconds.                   *)
KeepsRunning ==
  \A p \in Procs, j \in Single \ OneShot :
    <>[](phase[p] = "up" /\ j \in held[p]) => []<>(loop[p][j] = "run")

(* A shutdown comes to its end and leaves no lock in the process' books.   *)
ShutdownEnds ==
  \A p \in Procs : phase[p] = "closing" ~> phase[p] \in {"stopped", "down"} /\ held[p] = {}

(* What must happen, happens.                                              *)
Lives == Takeover /\ KeepsRunning /\ ShutdownEnds

(* What RedisLock.release says of deleting a key whose token it did not    *)
(* compare: the harm is at most one run that comes early, so two processes *)
(* in charge of one job do not stay so.                                    *)
InCharge(p, j) == phase[p] = "up" /\ loop[p][j] \in {"wait", "run"}

SplitHeals ==
  \A j \in Single : \A p, q \in Procs :
    p # q => (InCharge(p, j) /\ InCharge(q, j) ~> ~(InCharge(p, j) /\ InCharge(q, j)))

(* What scheduler.py says of shutdown: it waits for a run in progress and  *)
(* cancels it only once drain_seconds are over.                            *)
ShutdownWaits ==
  [][\A p \in Procs, j \in Jobs :
        loop[p][j] = "run" /\ loop'[p][j] = "cancelled"
          => phase[p] \notin {"up", "closing", "renewed"}]_vars

(* What _renew_loop says of lock_lost: an owner whose key expired before   *)
(* it renewed (a process that hung for longer than the lock lives) is told.*)
LossIsNoticed ==
  [][\A p \in Procs : \A j \in held[p] :
        key[j] # p /\ key'[j] = p => j \in lost'[p]]_vars
=============================================================================
