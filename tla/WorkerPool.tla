------------------------------ MODULE WorkerPool ------------------------------
(***************************************************************************)
(* core/workers.py: the WorkerPool of every process.  Calling a @worker    *)
(* method starts a task for one key; the task supervises its body (runs    *)
(* it, starts it again with a delay when it crashes), is asked to stop     *)
(* through its context, and with single=True first wins the lock of its    *)
(* key.  The names of Locks are the keys of one kind of worker.            *)
(*                                                                         *)
(* Tasks are numbered in the order they start: the same key may have       *)
(* several tasks in time, and an old one may still be releasing its lock   *)
(* when the next one starts.                                               *)
(***************************************************************************)
EXTENDS Locks, Integers

CONSTANTS MaxTasks,      \* bound: tasks started
          Single,        \* keys of workers with single=True
          Restart,       \* keys of workers with restart=True
          Threaded,      \* keys of workers with thread=True
          MaxInstances,  \* APP_WORKERS__MAX_INSTANCES
          MaxCrashes,    \* bound: body failures
          MaxErrors,     \* bound: failed lock commands
          Patience       \* bound: ticks of Redis time

Keys == Names
Tasks == 1..MaxTasks
NoTask == 0

ASSUME WorkerPoolAssumption ==
  /\ MaxTasks \in Nat
  /\ Single \subseteq Keys /\ Restart \subseteq Keys /\ Threaded \subseteq Keys
  /\ MaxInstances \in Nat /\ MaxCrashes \in Nat /\ MaxErrors \in Nat /\ Patience \in Nat

VARIABLES phase,    \* "up", "closing" (stop_all waits), "gone"
          home,     \* home[t]: the process and key of task t
          task,     \* task[t]: where the supervisor of t is
          asked,    \* tasks whose context has been told to stop
          handles,  \* handles[p]: the _handles dictionary, key -> task or NoTask
          gauge,    \* the workers_running metric of each process
          orphans,  \* tasks whose thread runs on after the task was cancelled
          caller,   \* caller[p]: the task a stop() call waits for, or NoTask
          crashes, errors, ticks

taskVars == <<home, task, asked, orphans>>
bookVars == <<handles, gauge>>
boundVars == <<crashes, errors, ticks>>
vars == <<lockVars, phase, taskVars, bookVars, caller, boundVars>>

States == {"unused", "contend", "standby", "check", "body", "backoff", "release", "done"}
NoHome == [proc |-> None, key |-> None]

TypeOK == /\ LocksTypeOK
          /\ phase \in [Procs -> {"up", "closing", "stopped", "gone"}]
          /\ home \in [Tasks -> [proc : Procs, key : Keys] \cup {NoHome}]
          /\ task \in [Tasks -> States]
          /\ asked \subseteq Tasks
          /\ handles \in [Procs -> [Keys -> Tasks \cup {NoTask}]]
          /\ gauge \in [Procs -> Nat]
          /\ orphans \subseteq Tasks
          /\ caller \in [Procs -> Tasks \cup {NoTask}]
          /\ crashes \in 0..MaxCrashes /\ errors \in 0..MaxErrors /\ ticks \in 0..Patience

Init == /\ LocksInit
        /\ phase = [p \in Procs |-> "up"]
        /\ home = [t \in Tasks |-> NoHome]
        /\ task = [t \in Tasks |-> "unused"]
        /\ asked = {} /\ orphans = {}
        /\ handles = [p \in Procs |-> [k \in Keys |-> NoTask]]
        /\ gauge = [p \in Procs |-> 0]
        /\ caller = [p \in Procs |-> NoTask]
        /\ crashes = 0 /\ errors = 0 /\ ticks = 0

Proc(t) == home[t].proc
Key(t) == home[t].key
Running(t) == task[t] \notin {"unused", "done"}     \* not task.done()
Registered(p) == {k \in Keys : handles[p][k] # NoTask}
Open(t) == Proc(t) \in Procs /\ phase[Proc(t)] = "up"

(* Bug: the supervisor does not look at its context.                       *)
KeepGoing_IgnoresStop(t) == Open(t)

KeepGoing(t) == t \notin asked /\ Open(t)
Goto(t, s) == task' = [task EXCEPT ![t] = s]

(* Bug: start does not look at the limit.                                  *)
MayStart_NoLimit(p, k) == handles[p][k] # NoTask => ~Running(handles[p][k])

(* Bug: start does not look for a running task of the key.                 *)
MayStart_Twice(p, k) == Cardinality(Registered(p)) < MaxInstances

(***************************************************************************)
(* start(): a running task of the key is returned as it is; at the limit   *)
(* the call is refused; otherwise a new task is registered.                *)
(***************************************************************************)
MayStart(p, k) ==
  /\ handles[p][k] # NoTask => ~Running(handles[p][k])
  /\ Cardinality(Registered(p)) < MaxInstances

Start(p, k, t) ==
  /\ phase[p] = "up"
  /\ task[t] = "unused" /\ \A u \in Tasks : task[u] = "unused" => t <= u
  /\ MayStart(p, k)
  /\ home' = [home EXCEPT ![t] = [proc |-> p, key |-> k]]
  /\ Goto(t, IF k \in Single THEN "contend" ELSE "check")
  /\ handles' = [handles EXCEPT ![p][k] = t]
  /\ gauge' = [gauge EXCEPT ![p] = @ + 1]
  /\ UNCHANGED <<lockVars, phase, asked, orphans, caller, boundVars>>

(***************************************************************************)
(* _become_owner.  When it answers False, and when the lock raises, the    *)
(* supervisor returns before its try block: the handle and the gauge stay. *)
(***************************************************************************)
BecomeOwner(t) ==
  /\ task[t] = "contend"
  /\ IF KeepGoing(t)
     THEN \/ AcquireOk(Proc(t), Key(t)) /\ Goto(t, "check")
          \/ AcquireNo(Proc(t), Key(t)) /\ Goto(t, "standby")
     ELSE Goto(t, "done") /\ UNCHANGED lockVars
  /\ UNCHANGED <<phase, home, asked, orphans, bookVars, caller, boundVars>>

OwnerError(t) ==
  /\ task[t] = "contend" /\ KeepGoing(t)
  /\ errors < MaxErrors /\ errors' = errors + 1
  /\ AcquireError(Proc(t), Key(t))
  /\ Goto(t, "done")
  /\ UNCHANGED <<phase, home, asked, orphans, bookVars, caller, crashes, ticks>>

WakeStandby(t) ==
  /\ task[t] = "standby"
  /\ Goto(t, "contend")
  /\ UNCHANGED <<lockVars, phase, home, asked, orphans, bookVars, caller, boundVars>>

(***************************************************************************)
(* _supervise: the loop condition, the body, its three ways to end.        *)
(***************************************************************************)
(* The finally block: the gauge, the handle of the key, and the lock.  A   *)
(* file lock is free at once; RedisLock awaits its DELETE.                 *)
AfterTry(t) == IF Key(t) \in Single /\ Kind = "redis" THEN "release" ELSE "done"

Leave(t) ==
  /\ Goto(t, AfterTry(t))
  /\ gauge' = [gauge EXCEPT ![Proc(t)] = @ - 1]
  /\ handles' = [handles EXCEPT ![Proc(t)][Key(t)] = NoTask]
  /\ ReleaseBegin(Proc(t), {Key(t)} \cap Single)

Stay == UNCHANGED <<bookVars, lockVars>>

Check(t) ==
  /\ task[t] = "check"
  /\ IF KeepGoing(t) THEN Goto(t, "body") /\ Stay ELSE Leave(t)
  /\ UNCHANGED <<phase, home, asked, orphans, caller, boundVars>>

BodyReturns(t) ==
  /\ task[t] = "body"
  /\ Leave(t)
  /\ UNCHANGED <<phase, home, asked, orphans, caller, boundVars>>

BodyCrashes(t) ==
  /\ task[t] = "body"
  /\ crashes < MaxCrashes /\ crashes' = crashes + 1
  /\ IF Key(t) \in Restart /\ t \notin asked
     THEN Goto(t, "backoff") /\ Stay
     ELSE Leave(t)
  /\ UNCHANGED <<phase, home, asked, orphans, caller, errors, ticks>>

WakeBackoff(t) ==
  /\ task[t] = "backoff"
  /\ Goto(t, "check")
  /\ UNCHANGED <<lockVars, phase, home, asked, orphans, bookVars, caller, boundVars>>

ReleaseLock(t) ==
  /\ task[t] = "release"
  /\ ReleaseEnd(Key(t))
  /\ Goto(t, "done")
  /\ UNCHANGED <<phase, home, asked, orphans, bookVars, caller, boundVars>>

(* A thread whose task was cancelled comes to its end.                     *)
OrphanEnds(t) ==
  /\ t \in orphans
  /\ orphans' = orphans \ {t}
  /\ UNCHANGED <<lockVars, phase, home, task, asked, bookVars, caller, boundVars>>

(***************************************************************************)
(* stop(): tell the context, wait for the task at most stop_seconds, then  *)
(* answer True in either case.                                             *)
(***************************************************************************)
StopCall(p, k) ==
  /\ phase[p] = "up" /\ caller[p] = NoTask
  /\ handles[p][k] # NoTask
  /\ asked' = asked \cup {handles[p][k]}
  /\ caller' = [caller EXCEPT ![p] = handles[p][k]]
  /\ UNCHANGED <<lockVars, phase, home, task, orphans, bookVars, boundVars>>

StopAnswer(p) ==
  /\ caller[p] # NoTask
  /\ caller' = [caller EXCEPT ![p] = NoTask]
  /\ UNCHANGED <<lockVars, phase, taskVars, bookVars, boundVars>>

(***************************************************************************)
(* stop_all(): close, tell every registered task, wait; at the limit       *)
(* cancel those still pending, and forget all handles.  A task that awaits *)
(* its lock may be cut off after Redis carried out the SET.                *)
(***************************************************************************)
StopAll(p) ==
  /\ phase[p] = "up"
  /\ phase' = [phase EXCEPT ![p] = "closing"]
  /\ asked' = asked \cup {handles[p][k] : k \in Registered(p)}
  /\ UNCHANGED <<lockVars, home, task, orphans, bookVars, caller, boundVars>>

AllStopped(p) ==
  /\ phase[p] = "closing"
  /\ LET pending == {handles[p][k] : k \in Registered(p)} \cap {t \in Tasks : Running(t)}
         inTry == {t \in pending : task[t] \in {"check", "body", "backoff"}}
         left == {Key(t) : t \in inTry} \cap Single
         asking == {Key(t) : t \in {u \in pending : task[u] = "contend"}}
     IN /\ task' = [t \in Tasks |-> CASE t \in inTry -> AfterTry(t)
                                     [] t \in pending \ inTry -> "done"
                                     [] OTHER -> task[t]]
        /\ gauge' = [gauge EXCEPT ![p] = @ - Cardinality(inTry)]
        /\ orphans' = orphans \cup {t \in inTry : task[t] = "body" /\ Key(t) \in Threaded}
        /\ \/ ReleaseBegin(p, left)
           \/ /\ Kind = "redis"
              /\ \E k \in asking : key[k] = None /\ Write(p, k)
              /\ held' = [held EXCEPT ![p] = @ \ left]
  /\ handles' = [handles EXCEPT ![p] = [k \in Keys |-> NoTask]]
  /\ phase' = [phase EXCEPT ![p] = "stopped"]
  /\ UNCHANGED <<home, asked, caller, boundVars>>

(* The process exits or dies: its tasks and threads are gone, and its      *)
(* locks as far as the kernel holds them.                                  *)
Crash(p) ==
  /\ phase[p] # "gone"
  /\ phase' = [phase EXCEPT ![p] = "gone"]
  /\ task' = [t \in Tasks |-> IF Proc(t) = p THEN "done" ELSE task[t]]
  /\ orphans' = {t \in orphans : Proc(t) # p}
  /\ handles' = [handles EXCEPT ![p] = [k \in Keys |-> NoTask]]
  /\ gauge' = [gauge EXCEPT ![p] = 0]
  /\ caller' = [caller EXCEPT ![p] = NoTask]
  /\ Vanish(p)
  /\ UNCHANGED <<home, asked, boundVars>>

(* Redis time; nothing in workers.py renews a lock.                        *)
Tick ==
  /\ Kind = "redis"
  /\ ticks < Patience /\ ticks' = ticks + 1
  /\ Elapse
  /\ UNCHANGED <<phase, taskVars, bookVars, caller, crashes, errors>>

TaskStep(t) ==
  \/ BecomeOwner(t) \/ OwnerError(t) \/ WakeStandby(t) \/ Check(t) \/ BodyReturns(t)
  \/ BodyCrashes(t) \/ WakeBackoff(t) \/ ReleaseLock(t) \/ OrphanEnds(t)

PoolStep(p) ==
  \/ \E k \in Keys : StopCall(p, k) \/ \E t \in Tasks : Start(p, k, t)
  \/ StopAnswer(p) \/ StopAll(p) \/ AllStopped(p) \/ Crash(p)

Next == \/ \E t \in Tasks : TaskStep(t)
        \/ \E p \in Procs : PoolStep(p)
        \/ Tick

(***************************************************************************)
(* Supervisors and sleeps proceed; a body that was asked to stop returns   *)
(* (it loops on ctx.running).  Whether an untroubled body returns or       *)
(* crashes, and every call into the pool, is up to the application.        *)
(***************************************************************************)
Fairness ==
  /\ \A t \in Tasks :
       /\ WF_vars(BecomeOwner(t)) /\ WF_vars(WakeStandby(t)) /\ WF_vars(Check(t))
       /\ WF_vars(WakeBackoff(t)) /\ WF_vars(ReleaseLock(t))
       /\ WF_vars(t \in asked /\ BodyReturns(t))
  /\ \A p \in Procs : WF_vars(AllStopped(p)) /\ WF_vars(StopAnswer(p))

Spec == Init /\ [][Next]_vars
FairSpec == Spec /\ Fairness
-----------------------------------------------------------------------------
Bodies(p, k) == {t \in Tasks : /\ Proc(t) = p /\ Key(t) = k
                               /\ task[t] = "body" \/ t \in orphans}

(* A key never has two bodies in one process, however calls of start and   *)
(* stop, crashes and delayed restarts interleave ("calling again with the  *)
(* same key opens no second instance").                                    *)
OneBodyPerKey == \A p \in Procs, k \in Keys : Cardinality(Bodies(p, k)) <= 1

(* A worker that runs can be stopped: stop() and stop_all() find it in the *)
(* book, under its key, although a finally block removes whatever is there *)
(* and a task that never won its lock leaves its entry behind.             *)
Stoppable ==
  \A t \in Tasks :
    Open(t) /\ Running(t) /\ task[t] # "release" => handles[Proc(t)][Key(t)] = t

(* The limit on instances counts: a process never has more than            *)
(* MaxInstances supervisors between start and their finally block.         *)
WithinLimit ==
  \A p \in Procs :
    Cardinality({t \in Tasks : Proc(t) = p
                   /\ task[t] \in {"contend", "standby", "check", "body", "backoff"}})
      <= MaxInstances

(* single=True: one process only runs the body of a key, as long as no     *)
(* thread was abandoned by stop_all.                                       *)
OneProcess ==
  \A k \in Single : \A p, q \in Procs :
    Bodies(p, k) # {} /\ Bodies(q, k) # {} => p = q \/ orphans # {}

(* The workers_running metric counts the instances that run.  A task that  *)
(* has passed its finally block is no longer counted.                      *)
GaugeTrue ==
  \A p \in Procs : phase[p] # "gone" =>
    gauge[p] = Cardinality({t \in Tasks : Proc(t) = p /\ Running(t) /\ task[t] # "release"})

(* stop() waits until the loop is out, so that what follows the call may   *)
(* clean up after the body.                                                *)
StopMeansStopped ==
  [][\A p \in Procs :
        caller[p] # NoTask /\ caller'[p] = NoTask /\ phase'[p] # "gone"
          => task[caller[p]] # "body"]_vars

(* A body that is asked to stop is over at last, and is not started again. *)
StopWorks == \A t \in Tasks : t \in asked /\ Running(t) ~> ~Running(t)

(* A crashed worker with restart=True runs again unless it is told to stop *)
(* or its process ends.                                                    *)
RestartWorks ==
  \A t \in Tasks : task[t] = "backoff"
    ~> task[t] = "body" \/ t \in asked \/ ~Open(t)

(* A single worker that was started and not told to stop gets its turn     *)
(* when the owner goes: a standby takes over.                              *)
StandbyTakesOver ==
  \A t \in Tasks :
    task[t] = "standby" /\ t \notin asked
      ~> \/ task[t] = "body" \/ t \in asked \/ ~Open(t)
         \/ \E u \in Tasks : u # t /\ Key(u) = Key(t) /\ task[u] \in {"body", "check"}

(* One body per key, in one process, and never more than the limit allows, *)
(* whatever start(), stop(), crashes and delayed restarts do.              *)
Exclusive == OneProcess /\ OneBodyPerKey /\ WithinLimit

(* What must happen, happens.                                              *)
Lives == StopWorks /\ RestartWorks /\ StandbyTakesOver
=============================================================================
