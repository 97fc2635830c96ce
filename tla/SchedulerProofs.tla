--------------------------- MODULE SchedulerProofs ---------------------------
(***************************************************************************)
(* Proofs about Scheduler for any set of processes and jobs: the type      *)
(* invariant; that runs do not pile up in a process (NoOverlap); and, for  *)
(* FileLock and for a RedisLock renewed in time, that the locks implement  *)
(* SingleFlight and that OneRunner holds however the processes start,      *)
(* stop, crash and interleave.                                             *)
(***************************************************************************)
EXTENDS Scheduler, TLAPS

USE DEF Jobs, Phases, LoopStates, procVars, lockVars, vars

LEMMA TypeInit == Init => TypeOK
BY LocksAssumption, SchedulerAssumption
   DEF Init, TypeOK, LocksInit, LocksTypeOK, LagLimit

(***************************************************************************)
(* What the methods of a lock do to the types.                             *)
(***************************************************************************)
LEMMA WriteType ==
  ASSUME LocksTypeOK, NEW p \in Procs, NEW n \in Names, Write(p, n)
  PROVE  /\ key' \in [Names -> Procs \cup {None}]
         /\ age' \in [Names -> 0..(TTL - 1)]
BY LocksAssumption DEF LocksTypeOK, Write

LEMMA AcquireType ==
  ASSUME LocksTypeOK, NEW p \in Procs, NEW n \in Names,
         AcquireOk(p, n) \/ AcquireNo(p, n) \/ AcquireError(p, n)
  PROVE  LocksTypeOK'
<1>1. CASE UNCHANGED lockVars
  BY <1>1 DEF LocksTypeOK
<1>2. CASE Write(p, n) /\ held' = [held EXCEPT ![p] = @ \cup {n}]
  <2>1. held' \in [Procs -> SUBSET Names]
    BY <1>2 DEF LocksTypeOK
  <2> QED
    BY <1>2, <2>1, WriteType DEF LocksTypeOK
<1>3. CASE Write(p, n) /\ UNCHANGED held
  <2>1. held' \in [Procs -> SUBSET Names]
    BY <1>3 DEF LocksTypeOK
  <2> QED
    BY <1>3, <2>1, WriteType DEF LocksTypeOK
<1> QED
  BY <1>1, <1>2, <1>3 DEF AcquireOk, AcquireNo, AcquireError

LEMMA ReleaseType ==
  ASSUME LocksTypeOK, NEW p \in Procs, NEW n \in Names, Release(p, n)
  PROVE  LocksTypeOK'
BY LocksAssumption DEF LocksTypeOK, Release, ReleaseBegin

LEMMA RenewType ==
  ASSUME LocksTypeOK, NEW p \in Procs, NEW S \in SUBSET Names,
         NEW failed \in SUBSET S, RenewAll(p, S, failed)
  PROVE  LocksTypeOK'
BY LocksAssumption DEF LocksTypeOK, RenewAll

LEMMA ElapseType == LocksTypeOK /\ Elapse => LocksTypeOK'
<1> SUFFICES ASSUME LocksTypeOK, Elapse PROVE LocksTypeOK'
  OBVIOUS
<1>1. key' \in [Names -> Procs \cup {None}] /\ held' = held
  BY DEF LocksTypeOK, Elapse
<1>2. age' \in [Names -> 0..(TTL - 1)]
  BY LocksAssumption DEF LocksTypeOK, Elapse
<1> QED
  BY <1>1, <1>2 DEF LocksTypeOK

LEMMA VanishType ==
  ASSUME LocksTypeOK, NEW p \in Procs, Vanish(p)
  PROVE  LocksTypeOK'
BY DEF LocksTypeOK, Vanish

LEMMA GotoType ==
  ASSUME TypeOK, NEW p \in Procs, NEW j \in Jobs, NEW s \in LoopStates, Goto(p, j, s)
  PROVE  loop' \in [Procs -> [Jobs -> LoopStates]]
<1>1. [loop[p] EXCEPT ![j] = s] \in [Jobs -> LoopStates]
  BY DEF TypeOK
<1> QED
  BY <1>1 DEF TypeOK, Goto

LEMMA AfterRunType ==
  ASSUME TypeOK, NEW p \in Procs, NEW j \in Jobs, AfterRun(p, j)
  PROVE  loop' \in [Procs -> [Jobs -> LoopStates]]
BY GotoType DEF AfterRun

LEMMA RenewOwnedType ==
  ASSUME TypeOK, NEW p \in Procs, RenewOwned(p)
  PROVE  LocksTypeOK' /\ errors' \in 0..MaxErrors /\ lost' \in [Procs -> SUBSET Jobs]
<1> USE SchedulerAssumption
<1>1. PICK failed \in SUBSET held[p] :
        /\ RenewAll(p, held[p], failed)
        /\ IF failed = {} THEN UNCHANGED errors ELSE Fail
        /\ lost' = [lost EXCEPT ![p] = @ \cup failed]
  BY DEF RenewOwned
<1>2. held[p] \in SUBSET Names
  BY DEF TypeOK, LocksTypeOK
<1>3. LocksTypeOK'
  BY <1>1, <1>2, RenewType DEF TypeOK
<1>4. errors' \in 0..MaxErrors /\ lost' \in [Procs -> SUBSET Jobs]
  BY <1>1, <1>2 DEF TypeOK, Fail
<1> QED
  BY <1>3, <1>4

LEMMA TypeStep == TypeOK /\ [Next]_vars => TypeOK'
<1> SUFFICES ASSUME TypeOK, [Next]_vars PROVE TypeOK'
  OBVIOUS
<1> USE LocksAssumption, SchedulerAssumption
<1>1. ASSUME NEW p \in Procs, Startup(p) PROVE TypeOK'
  BY <1>1 DEF TypeOK, LocksTypeOK, Startup
<1>2. ASSUME NEW p \in Procs, NEW j \in Jobs, BecomeOwner(p, j) PROVE TypeOK'
  <2>1. LocksTypeOK'
    BY <1>2, AcquireType DEF TypeOK, BecomeOwner
  <2>2. loop' \in [Procs -> [Jobs -> LoopStates]]
    BY <1>2, GotoType DEF BecomeOwner
  <2> QED
    BY <1>2, <2>1, <2>2 DEF TypeOK, BecomeOwner
<1>3. ASSUME NEW p \in Procs, NEW j \in Jobs, LoopCrashed(p, j) PROVE TypeOK'
  <2>1. LocksTypeOK'
    BY <1>3, AcquireType DEF TypeOK, LoopCrashed
  <2>2. loop' \in [Procs -> [Jobs -> LoopStates]]
    BY <1>3, GotoType DEF LoopCrashed
  <2> QED
    BY <1>3, <2>1, <2>2 DEF TypeOK, LoopCrashed, Fail
<1>4. ASSUME NEW p \in Procs, NEW j \in Jobs,
             \/ LeaveStandby(p, j) \/ RunStart(p, j) \/ RunEnd(p, j) \/ CancelledEnd(p, j)
      PROVE TypeOK'
  <2>1. loop' \in [Procs -> [Jobs -> LoopStates]]
    BY <1>4, GotoType, AfterRunType DEF LeaveStandby, RunStart, RunEnd, CancelledEnd
  <2> QED
    BY <1>4, <2>1 DEF TypeOK, LocksTypeOK, LeaveStandby, RunStart, RunEnd, CancelledEnd
<1>5. ASSUME NEW p \in Procs, NEW j \in Jobs, RunTimeout(p, j) PROVE TypeOK'
  <2>1. loop' \in [Procs -> [Jobs -> LoopStates]]
    BY <1>5, AfterRunType DEF RunTimeout
  <2>2. ghosts' \in [Procs -> [Jobs -> 0..MaxGhosts]]
    <3>1. CASE UNCHANGED ghosts
      BY <3>1 DEF TypeOK
    <3>2. CASE /\ ghosts[p][j] < MaxGhosts
               /\ ghosts' = [ghosts EXCEPT ![p][j] = @ + 1]
      <4>1. ghosts[p][j] + 1 \in 0..MaxGhosts
        BY <3>2 DEF TypeOK
      <4> QED
        BY <3>2, <4>1 DEF TypeOK
    <3> QED
      BY <1>5, <3>1, <3>2 DEF RunTimeout
  <2> QED
    BY <1>5, <2>1, <2>2 DEF TypeOK, LocksTypeOK, RunTimeout
<1>6. ASSUME NEW p \in Procs, NEW j \in Jobs, GhostEnd(p, j) PROVE TypeOK'
  BY <1>6 DEF TypeOK, LocksTypeOK, GhostEnd
<1>7. ASSUME NEW p \in Procs, RenewPass(p) \/ LastRenewal(p) PROVE TypeOK'
  <2>1. LocksTypeOK' /\ errors' \in 0..MaxErrors /\ lost' \in [Procs -> SUBSET Jobs]
    BY <1>7, RenewOwnedType DEF RenewPass, LastRenewal
  <2>2. lag' \in [Procs -> 0..(LagLimit + MaxStall)]
    <3>1. 0 \in 0..(LagLimit + MaxStall)
      BY DEF LagLimit
    <3> QED
      BY <1>7, <3>1 DEF TypeOK, RenewPass, LastRenewal
  <2>3. phase' \in [Procs -> Phases]
    BY <1>7 DEF TypeOK, RenewPass, LastRenewal
  <2> QED
    BY <1>7, <2>1, <2>2, <2>3 DEF TypeOK, RenewPass, LastRenewal
<1>8. ASSUME NEW p \in Procs,
             BeginShutdown(p) \/ Drained(p)
      PROVE TypeOK'
  BY <1>8 DEF TypeOK, LocksTypeOK, BeginShutdown, Drained
<1>9. ASSUME NEW p \in Procs, CancelTasks(p) PROVE TypeOK'
  <2>1. LocksTypeOK'
    BY <1>9, WriteType DEF TypeOK, CancelTasks, LocksTypeOK
  <2>2. ghosts' \in [Procs -> [Jobs -> 0..MaxGhosts]]
    BY <1>9 DEF TypeOK, CancelTasks
  <2>3. loop' \in [Procs -> [Jobs -> LoopStates]]
    BY <1>9 DEF TypeOK, CancelTasks
  <2> QED
    BY <1>9, <2>1, <2>2, <2>3 DEF TypeOK, CancelTasks
<1>10. ASSUME NEW p \in Procs, ReleaseNext(p) PROVE TypeOK'
  <2>1. LocksTypeOK'
    BY <1>10, ReleaseType DEF TypeOK, ReleaseNext, LocksTypeOK
  <2> QED
    BY <1>10, <2>1 DEF TypeOK, ReleaseNext
<1>11. ASSUME NEW p \in Procs, Exit(p) PROVE TypeOK'
  BY <1>11, VanishType DEF TypeOK, Exit, LagLimit
<1>12. CASE Tick
  <2>1. LocksTypeOK'
    BY <1>12, ElapseType DEF TypeOK, Tick
  <2>2. lag' \in [Procs -> 0..(LagLimit + MaxStall)]
    BY <1>12 DEF TypeOK, Tick, Timed, LagBound, LagLimit
  <2> QED
    BY <1>12, <2>1, <2>2 DEF TypeOK, Tick
<1>13. CASE UNCHANGED vars
  BY <1>13 DEF TypeOK, LocksTypeOK
<1> QED
  BY <1>1, <1>2, <1>3, <1>4, <1>5, <1>6, <1>7, <1>8, <1>9, <1>10, <1>11, <1>12, <1>13
     DEF Next, ProcStep, JobStep

(* Every reachable state has the types of TypeOK; in particular the clocks *)
(* of the renewal loops stay below the bounds that Tick imposes.           *)
THEOREM TypeCorrect == Spec => []TypeOK
BY TypeInit, TypeStep, PTL DEF Spec

-----------------------------------------------------------------------------
(***************************************************************************)
(* What a process believes about its locks.  A process owns whatever it    *)
(* holds (Owned): with FileLock the kernel forgets a lock in the step in   *)
(* which the process forgets it or dies; with RedisLock that takes time to *)
(* be on the process' side.  The key of a held lock is as old as the last  *)
(* renewal, or older by one round for each command that failed (Fresh),    *)
(* and the rounds are on time (OnTime), so the key does not expire if TTL  *)
(* is longer than the longest of these waits (InTime).                     *)
(***************************************************************************)
Slack == RenewEvery + MaxLate

InTime == Kind = "redis" => LagLimit + MaxStall + MaxErrors * Slack < TTL

Owned == \A p \in Procs, n \in Names : n \in held[p] => key[n] = p

Fresh ==
  Kind = "redis" =>
    \A p \in Procs, n \in Names : n \in held[p] => age[n] <= lag[p] + errors * Slack

OnTime ==
  \A p \in Procs : /\ phase[p] \in {"down", "stopped"} => held[p] = {}
                   /\ phase[p] = "down" => lag[p] = 0
                   /\ Timed(p) => lag[p] <= LagBound(p)

(***************************************************************************)
(* A process runs nothing once it is down, and cancels every task before   *)
(* it starts to release (Quiet).  Up to then whatever it executes of a     *)
(* single job is covered by the lock (Covered).                            *)
(***************************************************************************)
Active(p, j) == loop[p][j] \in {"wait", "run", "cancelled"} \/ ghosts[p][j] > 0

Quiet ==
  \A p \in Procs, j \in Jobs :
    /\ phase[p] = "down" => ~Active(p, j)
    /\ phase[p] \in {"draining", "releasing", "stopped"}
         => loop[p][j] \in {"cancelled", "ended"}

Covered == \A p \in Procs, j \in Single : Active(p, j) /\ ~GaveUp(p) => j \in held[p]

(* Rounds of renewals add up: one more failed command, one more round.     *)
LEMMA Rounds ==
  ASSUME NEW e \in Nat, NEW m \in Nat, e <= m
  PROVE  /\ Slack \in Nat /\ e * Slack \in Nat /\ m * Slack \in Nat
         /\ e * Slack <= m * Slack
         /\ (e + 1) * Slack = e * Slack + Slack
<1> DEFINE R == Slack
<1>1. R \in Nat
  BY SchedulerAssumption DEF Slack
<1> HIDE DEF R
<1>2. \A x, y \in Nat : x * y \in Nat
  BY SMT
<1>3. e * R \in Nat /\ m * R \in Nat /\ (e + 1) * R = e * R + R
  BY <1>1, <1>2, SMT
<1>4. e * R <= m * R
  <2>1. m - e \in Nat /\ m = e + (m - e)
    OBVIOUS
  <2>2. (m - e) * R \in Nat
    BY <1>1, <1>2, <2>1
  <2>3. m * R = e * R + (m - e) * R
    BY <1>1, <2>1, SMT
  <2> QED
    BY <1>3, <2>2, <2>3
<1> QED
  BY <1>1, <1>3, <1>4 DEF R

(* The key of a held lock does not expire at the next tick.                *)
LEMMA NotYet ==
  ASSUME InTime, TypeOK, Fresh, OnTime, Kind = "redis",
         \A p \in Procs : Timed(p) => lag[p] < LagBound(p),
         NEW p \in Procs, NEW n \in held[p]
  PROVE  Timed(p) /\ n \in Names /\ age[n] + 1 < TTL
<1> USE SchedulerAssumption, LocksAssumption
<1>1. n \in Names /\ p \in Procs /\ age[n] \in Nat /\ lag[p] \in Nat
  BY DEF TypeOK, LocksTypeOK
<1>2. Timed(p) /\ lag[p] < LagBound(p)
  BY DEF OnTime, Timed
<1>3. LagBound(p) \in Nat /\ LagBound(p) <= LagLimit + MaxStall
  BY DEF LagBound, LagLimit
<1>4. age[n] <= lag[p] + errors * Slack
  BY <1>1 DEF Fresh
<1>5. errors * Slack \in Nat /\ MaxErrors * Slack \in Nat /\ errors * Slack <= MaxErrors * Slack
  <2>1. errors \in Nat /\ MaxErrors \in Nat /\ errors <= MaxErrors
    BY DEF TypeOK
  <2> QED
    BY <2>1, Rounds
<1>6. LagLimit + MaxStall + MaxErrors * Slack < TTL /\ LagLimit + MaxStall \in Nat
  BY DEF InTime, LagLimit
<1> QED
  BY <1>1, <1>2, <1>3, <1>4, <1>5, <1>6

(* A lock step of one process takes nothing from another.                  *)
LEMMA AcquireOwned ==
  ASSUME LocksTypeOK, Owned, NEW p \in Procs, NEW n \in Names,
         AcquireOk(p, n) \/ AcquireNo(p, n) \/ AcquireError(p, n)
  PROVE  Owned'
<1>1. CASE UNCHANGED lockVars
  BY <1>1 DEF Owned
<1>2. CASE /\ key[n] = None /\ Write(p, n)
           /\ held' = [held EXCEPT ![p] = @ \cup {n}] \/ UNCHANGED held
  BY <1>2, LocksAssumption DEF Owned, Write, LocksTypeOK
<1> QED
  BY <1>1, <1>2 DEF AcquireOk, AcquireNo, AcquireError

LEMMA ReleaseOwned ==
  ASSUME LocksTypeOK, Owned, NEW p \in Procs, NEW n \in Names, n \in held[p], Release(p, n)
  PROVE  Owned'
BY LocksAssumption DEF Owned, Release, ReleaseBegin, LocksTypeOK

LEMMA RenewOwnedOwned ==
  ASSUME LocksTypeOK, Owned, NEW p \in Procs, NEW failed \in SUBSET held[p],
         RenewAll(p, held[p], failed)
  PROVE  Owned'
BY DEF Owned, RenewAll, LocksTypeOK

LEMMA VanishOwned ==
  ASSUME LocksTypeOK, Owned, NEW p \in Procs, Vanish(p)
  PROVE  Owned'
BY LocksAssumption DEF Owned, Vanish, LocksTypeOK

LEMMA OwnedStep ==
  ASSUME InTime, TypeOK, Owned, Fresh, OnTime, [Next]_vars
  PROVE  Owned'
<1>1. LocksTypeOK
  BY DEF TypeOK
<1>2. ASSUME NEW p \in Procs, NEW j \in Jobs, BecomeOwner(p, j) \/ LoopCrashed(p, j)
      PROVE Owned'
  BY <1>1, <1>2, AcquireOwned DEF BecomeOwner, LoopCrashed
<1>3. ASSUME NEW p \in Procs, ReleaseNext(p) PROVE Owned'
  <2>1. CASE UNCHANGED lockVars
    BY <2>1 DEF Owned
  <2>2. CASE \E j \in held[p] : Release(p, j)
    <3>1. PICK j \in held[p] : Release(p, j)
      BY <2>2
    <3>2. j \in Names
      BY <1>1 DEF LocksTypeOK
    <3> QED
      BY <1>1, <3>1, <3>2, ReleaseOwned
  <2> QED
    BY <1>3, <2>1, <2>2 DEF ReleaseNext
<1>4. ASSUME NEW p \in Procs, Exit(p) PROVE Owned'
  BY <1>1, <1>4, VanishOwned DEF Exit
<1>5. ASSUME NEW p \in Procs, RenewPass(p) \/ LastRenewal(p) PROVE Owned'
  BY <1>1, <1>5, RenewOwnedOwned DEF RenewPass, LastRenewal, RenewOwned
<1>6. ASSUME NEW p \in Procs, CancelTasks(p) PROVE Owned'
  <2>1. CASE UNCHANGED lockVars
    BY <2>1 DEF Owned
  <2>2. ASSUME NEW j \in Jobs, key[j] = None, Write(p, j), UNCHANGED held PROVE Owned'
    BY <1>1, <2>2, LocksAssumption DEF Owned, Write, LocksTypeOK
  <2> QED
    BY <1>6, <2>1, <2>2 DEF CancelTasks
<1>7. CASE Tick
  <2>1. \A p \in Procs : \A n \in held[p] : n \in Names /\ age[n] + 1 < TTL
    BY <1>7, NotYet DEF Tick
  <2> QED
    BY <1>1, <1>7, <2>1 DEF Owned, Tick, Elapse, LocksTypeOK
<1>8. CASE UNCHANGED lockVars
  BY <1>8 DEF Owned
<1> QED
  BY <1>2, <1>3, <1>4, <1>5, <1>6, <1>7, <1>8
     DEF Next, ProcStep, JobStep, Startup, BeginShutdown, Drained, LeaveStandby,
         RunStart, RunEnd, RunTimeout, GhostEnd, CancelledEnd

LEMMA OnTimeStep == TypeOK /\ OnTime /\ [Next]_vars => OnTime'
<1> SUFFICES ASSUME TypeOK, OnTime, [Next]_vars PROVE OnTime'
  OBVIOUS
<1> USE SchedulerAssumption DEF OnTime, Timed, LagBound, LagLimit
<1>1. ASSUME NEW p \in Procs, Startup(p) PROVE OnTime'
  BY <1>1 DEF TypeOK, Startup
<1>2. ASSUME NEW p \in Procs, NEW j \in Jobs, BecomeOwner(p, j) \/ LoopCrashed(p, j)
      PROVE OnTime'
  <2>1. phase[p] = "up" /\ UNCHANGED <<phase, lag>>
    BY <1>2 DEF BecomeOwner, LoopCrashed, Closing
  <2>2. \A q \in Procs : q # p => held'[q] = held[q]
    BY <1>2 DEF TypeOK, LocksTypeOK, BecomeOwner, LoopCrashed, AcquireOk, AcquireNo, AcquireError
  <2> QED
    BY <2>1, <2>2
<1>3. ASSUME NEW p \in Procs, RenewPass(p) \/ LastRenewal(p) PROVE OnTime'
  BY <1>3 DEF TypeOK, RenewPass, LastRenewal, RenewOwned, RenewAll
<1>4. ASSUME NEW p \in Procs, BeginShutdown(p) \/ CancelTasks(p) \/ Drained(p) PROVE OnTime'
  BY <1>4 DEF TypeOK, BeginShutdown, CancelTasks, Drained
<1>5. ASSUME NEW p \in Procs, ReleaseNext(p) PROVE OnTime'
  <2>1. \A q \in Procs : q # p => held'[q] = held[q]
    BY <1>5 DEF TypeOK, LocksTypeOK, ReleaseNext, Release, ReleaseBegin
  <2>2. phase'[p] = "releasing" \/ (phase'[p] = "stopped" /\ held'[p] = {})
    <3>1. CASE held[p] = {}
      BY <1>5, <3>1 DEF TypeOK, ReleaseNext
    <3>2. CASE held[p] # {}
      BY <1>5, <3>2 DEF ReleaseNext
    <3> QED
      BY <3>1, <3>2
  <2>3. phase[p] = "releasing" /\ lag' = lag
    BY <1>5 DEF ReleaseNext
  <2>4. \A q \in Procs : q # p => phase'[q] = phase[q]
    BY <1>5 DEF TypeOK, ReleaseNext
  <2> QED
    BY <2>1, <2>2, <2>3, <2>4
<1>6. ASSUME NEW p \in Procs, Exit(p) PROVE OnTime'
  BY <1>6 DEF TypeOK, LocksTypeOK, Exit, Vanish
<1>7. CASE Tick
  BY <1>7 DEF TypeOK, Tick, Elapse
<1>8. CASE UNCHANGED <<phase, held, lag>>
  BY <1>8
<1> QED
  BY <1>1, <1>2, <1>3, <1>4, <1>5, <1>6, <1>7, <1>8
     DEF Next, ProcStep, JobStep, LeaveStandby, RunStart, RunEnd, RunTimeout, GhostEnd,
         CancelledEnd

LEMMA FreshStep == TypeOK /\ Owned /\ Fresh /\ OnTime /\ [Next]_vars => Fresh'
<1> SUFFICES ASSUME TypeOK, Owned, Fresh, OnTime, Kind = "redis", [Next]_vars,
                    NEW q \in Procs, NEW n \in Names, n \in held'[q]
             PROVE  age'[n] <= lag'[q] + errors' * Slack
  BY DEF Fresh
<1> USE SchedulerAssumption, LocksAssumption
<1>1. TypeOK' /\ LocksTypeOK /\ LocksTypeOK'
  BY TypeStep DEF TypeOK
<1>2. /\ age[n] \in Nat /\ age'[n] \in Nat /\ lag[q] \in Nat /\ lag'[q] \in Nat
      /\ errors \in Nat /\ errors' \in Nat
  BY <1>1 DEF TypeOK, LocksTypeOK
<1>3. errors * Slack \in Nat /\ errors' * Slack \in Nat
  BY <1>2, Rounds
<1>4. n \in held[q] => age[n] <= lag[q] + errors * Slack
  BY DEF Fresh
<1>5. CASE age'[n] = 0
  BY <1>2, <1>3, <1>5
<1>6. CASE n \in held[q] /\ age'[n] = age[n] /\ lag'[q] = lag[q] /\ errors' = errors
  BY <1>4, <1>6
<1>7. CASE /\ n \in held[q] /\ age'[n] = age[n]
           /\ lag'[q] = lag[q] \/ lag[q] <= Slack
           /\ errors' = errors + 1
  <2>1. errors' * Slack = errors * Slack + Slack /\ Slack \in Nat
    BY <1>2, <1>7, Rounds
  <2> QED
    BY <1>2, <1>3, <1>4, <1>7, <2>1
<1>8. ASSUME NEW p \in Procs, NEW j \in Jobs, BecomeOwner(p, j) PROVE age'[n] <= lag'[q] + errors' * Slack
  BY <1>1, <1>5, <1>6, <1>8 DEF BecomeOwner, AcquireOk, AcquireNo, Write, LocksTypeOK
<1>9. ASSUME NEW p \in Procs, NEW j \in Jobs, LoopCrashed(p, j) PROVE age'[n] <= lag'[q] + errors' * Slack
  BY <1>1, <1>5, <1>7, <1>9 DEF LoopCrashed, AcquireError, Write, LocksTypeOK, Fail
<1>10. ASSUME NEW p \in Procs, RenewPass(p) \/ LastRenewal(p)
       PROVE age'[n] <= lag'[q] + errors' * Slack
  <2>1. PICK failed \in SUBSET held[p] :
          /\ RenewAll(p, held[p], failed)
          /\ IF failed = {} THEN UNCHANGED errors ELSE Fail
    BY <1>10 DEF RenewPass, LastRenewal, RenewOwned
  <2>2. n \in held[q] /\ (age'[n] = 0 \/ age'[n] = age[n])
    BY <1>1, <2>1 DEF RenewAll, LocksTypeOK
  <2>3. CASE q # p
    <3>1. lag'[q] = lag[q]
      BY <1>10, <2>3 DEF TypeOK, RenewPass, LastRenewal
    <3> QED
      BY <1>5, <1>6, <1>7, <2>1, <2>2, <3>1 DEF Fail
  <2>4. CASE q = p
    <3>1. lag'[p] = lag[p] \/ lag[p] <= Slack
      BY <1>10 DEF TypeOK, RenewPass, LastRenewal, OnTime, Timed, LagBound, Slack
    <3>2. failed = {} => age'[n] = 0
      BY <1>1, <2>1, <2>2, <2>4 DEF RenewAll, LocksTypeOK
    <3> QED
      BY <1>5, <1>7, <2>1, <2>2, <2>4, <3>1, <3>2 DEF Fail
  <2> QED
    BY <2>3, <2>4
<1>11. ASSUME NEW p \in Procs, CancelTasks(p) PROVE age'[n] <= lag'[q] + errors' * Slack
  <2>1. n \in held[q] /\ lag' = lag /\ errors' = errors
    BY <1>11 DEF CancelTasks
  <2>2. age'[n] = age[n] \/ age'[n] = 0
    BY <1>1, <1>11 DEF CancelTasks, Write, LocksTypeOK
  <2> QED
    BY <1>5, <1>6, <2>1, <2>2
<1>12. ASSUME NEW p \in Procs, ReleaseNext(p) PROVE age'[n] <= lag'[q] + errors' * Slack
  <2>1. n \in held[q] /\ lag' = lag /\ errors' = errors
    BY <1>1, <1>12 DEF ReleaseNext, Release, ReleaseBegin, LocksTypeOK
  <2>2. age'[n] = age[n] \/ age'[n] = 0
    BY <1>1, <1>12 DEF ReleaseNext, Release, ReleaseBegin, LocksTypeOK
  <2> QED
    BY <1>5, <1>6, <2>1, <2>2
<1>13. ASSUME NEW p \in Procs, Exit(p) PROVE age'[n] <= lag'[q] + errors' * Slack
  <2>1. q # p /\ n \in held[q] /\ age'[n] = age[n] /\ errors' = errors
    BY <1>1, <1>13 DEF Exit, Vanish, LocksTypeOK
  <2>2. lag'[q] = lag[q]
    BY <1>13, <2>1 DEF TypeOK, Exit
  <2> QED
    BY <1>6, <2>1, <2>2
<1>14. CASE Tick
  <2>1. n \in held[q] /\ errors' = errors
    BY <1>14 DEF Tick, Elapse
  <2>2. lag'[q] = lag[q] + 1
    BY <1>14, <2>1 DEF Tick, OnTime, Timed
  <2>3. age'[n] <= age[n] + 1
    BY <1>1, <1>2, <1>14 DEF Tick, Elapse
  <2> QED
    BY <1>2, <1>3, <1>4, <2>1, <2>2, <2>3
<1>15. CASE UNCHANGED <<age, held, lag, errors>>
  BY <1>6, <1>15
<1> QED
  BY <1>8, <1>9, <1>10, <1>11, <1>12, <1>13, <1>14, <1>15
     DEF Next, ProcStep, JobStep, Startup, BeginShutdown, Drained, LeaveStandby,
         RunStart, RunEnd, RunTimeout, GhostEnd, CancelledEnd

LEMMA QuietStep == TypeOK /\ Quiet /\ [Next]_vars => Quiet'
<1> SUFFICES ASSUME TypeOK, Quiet, [Next]_vars PROVE Quiet'
  OBVIOUS
<1> USE SchedulerAssumption
<1>1. ASSUME NEW p \in Procs, Startup(p) PROVE Quiet'
  BY <1>1 DEF TypeOK, Quiet, Active, Startup
<1>2. ASSUME NEW p \in Procs, NEW j \in Jobs, NEW s \in LoopStates,
             Goto(p, j, s), UNCHANGED <<phase, ghosts>>,
             loop[p][j] \in {"contend", "standby", "wait", "run", "cancelled"},
             loop[p][j] = "cancelled" => s = "ended",
             Closing(p) => s \in {"ended", "run"},
             s = "run" => loop[p][j] = "wait"
      PROVE Quiet'
  BY <1>2 DEF TypeOK, Quiet, Active, Goto, Closing
<1>3. ASSUME NEW p \in Procs, NEW j \in Jobs, JobStep(p, j) PROVE Quiet'
  <2>1. CASE BecomeOwner(p, j) \/ LoopCrashed(p, j)
    BY <1>2, <1>3, <2>1 DEF BecomeOwner, LoopCrashed
  <2>2. CASE LeaveStandby(p, j) \/ RunStart(p, j)
    BY <1>2, <1>3, <2>2 DEF LeaveStandby, RunStart
  <2>3. CASE RunEnd(p, j) \/ CancelledEnd(p, j)
    BY <1>2, <1>3, <2>3 DEF RunEnd, AfterRun, CancelledEnd
  <2>4. CASE RunTimeout(p, j)
    BY <2>4 DEF TypeOK, Quiet, Active, RunTimeout, AfterRun, Goto
  <2>5. CASE GhostEnd(p, j)
    BY <2>5 DEF TypeOK, Quiet, Active, GhostEnd
  <2> QED
    BY <1>3, <2>1, <2>2, <2>3, <2>4, <2>5 DEF JobStep
<1>4. ASSUME NEW p \in Procs, BeginShutdown(p) \/ LastRenewal(p) PROVE Quiet'
  BY <1>4 DEF TypeOK, Quiet, Active, BeginShutdown, LastRenewal
<1>5. ASSUME NEW p \in Procs, CancelTasks(p) PROVE Quiet'
  BY <1>5 DEF TypeOK, Quiet, Active, CancelTasks
<1>6. ASSUME NEW p \in Procs, Drained(p) \/ ReleaseNext(p) PROVE Quiet'
  BY <1>6 DEF TypeOK, Quiet, Active, Drained, ReleaseNext
<1>7. ASSUME NEW p \in Procs, Exit(p) PROVE Quiet'
  BY <1>7 DEF TypeOK, Quiet, Active, Exit
<1>8. CASE UNCHANGED <<phase, loop, ghosts>>
  BY <1>8 DEF Quiet, Active
<1> QED
  BY <1>1, <1>3, <1>4, <1>5, <1>6, <1>7, <1>8 DEF Next, ProcStep, RenewPass, Tick

LEMMA CoveredStep == TypeOK /\ Quiet /\ Covered /\ [Next]_vars => Covered'
<1> SUFFICES ASSUME TypeOK, Quiet, Covered, [Next]_vars PROVE Covered'
  OBVIOUS
<1> USE SchedulerAssumption
<1>1. ASSUME NEW p \in Procs, Startup(p) PROVE Covered'
  BY <1>1 DEF TypeOK, Quiet, Covered, Active, GaveUp, Startup
<1>2. ASSUME NEW p \in Procs, NEW j \in Jobs, BecomeOwner(p, j) PROVE Covered'
  <2>1. \A q \in Procs : held[q] \subseteq held'[q]
    BY <1>2 DEF TypeOK, LocksTypeOK, BecomeOwner, AcquireOk, AcquireNo
  <2>2. loop'[p][j] = "wait" => j \in held'[p]
    BY <1>2 DEF TypeOK, LocksTypeOK, BecomeOwner, AcquireOk, Goto
  <2>3. \A q \in Procs, k \in Jobs : <<q, k>> # <<p, j>> => loop'[q][k] = loop[q][k]
    BY <1>2 DEF TypeOK, BecomeOwner, Goto
  <2>4. loop'[p][j] \in {"wait", "standby"} /\ UNCHANGED <<phase, ghosts>>
    BY <1>2 DEF TypeOK, BecomeOwner, Goto
  <2> QED
    BY <2>1, <2>2, <2>3, <2>4 DEF Covered, Active, GaveUp
<1>3. ASSUME NEW p \in Procs, NEW j \in Jobs, NEW s \in LoopStates,
             Goto(p, j, s), UNCHANGED <<phase, ghosts, held>>,
             s \in {"wait", "run", "cancelled"} => loop[p][j] \in {"wait", "run", "cancelled"}
      PROVE Covered'
  BY <1>3 DEF TypeOK, Covered, Active, GaveUp, Goto
<1>4. ASSUME NEW p \in Procs, NEW j \in Jobs,
             \/ LoopCrashed(p, j) \/ LeaveStandby(p, j) \/ RunStart(p, j)
             \/ RunEnd(p, j) \/ CancelledEnd(p, j)
      PROVE Covered'
  <2>1. CASE LoopCrashed(p, j)
    BY <1>3, <2>1 DEF LoopCrashed, AcquireError
  <2>2. CASE LeaveStandby(p, j) \/ RunStart(p, j)
    BY <1>3, <2>2 DEF LeaveStandby, RunStart
  <2>3. CASE RunEnd(p, j) \/ CancelledEnd(p, j)
    BY <1>3, <2>3 DEF RunEnd, AfterRun, CancelledEnd
  <2> QED
    BY <1>4, <2>1, <2>2, <2>3
<1>5. ASSUME NEW p \in Procs, NEW j \in Jobs, RunTimeout(p, j) PROVE Covered'
  BY <1>5 DEF TypeOK, Covered, Active, GaveUp, RunTimeout, AfterRun, Goto
<1>6. ASSUME NEW p \in Procs, NEW j \in Jobs, GhostEnd(p, j) PROVE Covered'
  BY <1>6 DEF TypeOK, Covered, Active, GaveUp, GhostEnd
<1>7. ASSUME NEW p \in Procs, BeginShutdown(p) \/ LastRenewal(p) \/ Drained(p)
      PROVE Covered'
  BY <1>7 DEF TypeOK, Covered, Active, GaveUp, BeginShutdown, Drained,
              LastRenewal, RenewOwned, RenewAll
<1>8. ASSUME NEW p \in Procs, CancelTasks(p) PROVE Covered'
  BY <1>8 DEF TypeOK, Covered, Active, GaveUp, CancelTasks
<1>9. ASSUME NEW p \in Procs, ReleaseNext(p) PROVE Covered'
  <2>1. \A q \in Procs : q # p => held'[q] = held[q]
    BY <1>9 DEF TypeOK, LocksTypeOK, ReleaseNext, Release, ReleaseBegin
  <2>2. GaveUp(p)' /\ \A q \in Procs : q # p => phase'[q] = phase[q]
    BY <1>9 DEF TypeOK, GaveUp, ReleaseNext
  <2> QED
    BY <1>9, <2>1, <2>2 DEF Covered, Active, GaveUp, ReleaseNext
<1>10. ASSUME NEW p \in Procs, Exit(p) PROVE Covered'
  BY <1>10 DEF TypeOK, LocksTypeOK, Covered, Active, GaveUp, Exit, Vanish
<1>11. CASE UNCHANGED <<phase, loop, ghosts, held>>
  BY <1>11 DEF Covered, Active, GaveUp
<1> QED
  BY <1>1, <1>2, <1>4, <1>5, <1>6, <1>7, <1>8, <1>9, <1>10, <1>11
     DEF Next, ProcStep, JobStep, RenewPass, RenewOwned, RenewAll, Tick, Elapse

(***************************************************************************)
(* The theorems about the locks.                                           *)
(***************************************************************************)
IInv == TypeOK /\ Owned /\ Fresh /\ OnTime /\ Quiet /\ Covered

LEMMA InitInv == Init => IInv
<1> SUFFICES ASSUME Init PROVE IInv
  OBVIOUS
<1>1. Owned /\ Fresh /\ OnTime
  BY DEF Init, LocksInit, Owned, Fresh, OnTime, Timed
<1>2. Quiet /\ Covered
  BY SchedulerAssumption DEF Init, Quiet, Covered, Active
<1> QED
  BY <1>1, <1>2, TypeInit DEF IInv

THEOREM LockInvariant == ASSUME InTime PROVE Spec => []IInv
<1>1. IInv /\ [Next]_vars => IInv'
  BY TypeStep, OwnedStep, FreshStep, OnTimeStep, QuietStep, CoveredStep DEF IInv
<1> QED
  BY <1>1, InitInv, PTL DEF Spec

LEMMA ExecutingIsActive ==
  ASSUME TypeOK, NEW p \in Procs, NEW j \in Jobs, Executing(p, j) > 0
  PROVE  Active(p, j)
BY SchedulerAssumption DEF TypeOK, Executing, Active

(* With FileLock, and with RedisLock as long as the renewals are on time,  *)
(* two processes never execute a single job at once, unless one of them    *)
(* gave up waiting for its bodies when it shut down.                       *)
THEOREM OneRunnerHolds == ASSUME InTime PROVE Spec => []OneRunner
<1>1. IInv => OneRunner
  BY ExecutingIsActive, SchedulerAssumption DEF IInv, Owned, Covered, OneRunner
<1> QED
  BY <1>1, LockInvariant, PTL

(* Under the same condition the locks of the scheduler implement           *)
(* SingleFlight, although RedisLock renews and deletes a key without a     *)
(* look at its token.                                                      *)
THEOREM LocksKeepPromise == ASSUME InTime PROVE Spec => KeepsPromise
<1>1. Init => Promise!Init
  BY DEF Init, LocksInit, Promise!Init, Holders
<1>2. IInv /\ [Next]_vars => [Promise!Next]_Holders
  <2> SUFFICES ASSUME IInv, [Next]_vars PROVE [Promise!Next]_Holders
    OBVIOUS
  <2>1. TypeOK /\ LocksTypeOK /\ Owned
    BY DEF IInv, TypeOK
  <2>2. CASE UNCHANGED held
    BY <2>2 DEF Holders
  <2>3. ASSUME NEW p \in Procs, NEW j \in Jobs,
               key[j] = None, j \notin held[p],
               held' = [held EXCEPT ![p] = @ \cup {j}]
        PROVE Promise!Next
    <3>1. Holders[j] = {}
      BY <2>1, <2>3, LocksAssumption DEF Holders, Owned
    <3>2. \A n \in Names :
            {q \in Procs : n \in held'[q]} = IF n = j THEN {p} ELSE Holders[n]
      BY <2>1, <2>3, <3>1 DEF Holders, LocksTypeOK
    <3>3. Holders' = [Holders EXCEPT ![j] = {p}]
      BY <3>2 DEF Holders
    <3> QED
      BY <3>1, <3>3 DEF Promise!Next, Promise!Take
  <2>4. ASSUME NEW p \in Procs, NEW j \in held[p],
               held' = [held EXCEPT ![p] = @ \ {j}]
        PROVE Promise!Next
    <3>1. j \in Names /\ p \in Holders[j]
      BY <2>1, <2>4 DEF Holders, LocksTypeOK
    <3>2. Holders' = [Holders EXCEPT ![j] = @ \ {p}]
      BY <2>1, <2>4, <3>1 DEF Holders, LocksTypeOK
    <3> QED
      BY <3>1, <3>2 DEF Promise!Next, Promise!Leave
  <2>5. ASSUME NEW p \in Procs, held' = [held EXCEPT ![p] = {}]
        PROVE Promise!Next
    <3>1. Holders' = [n \in Names |-> Holders[n] \ {p}]
      BY <2>1, <2>5 DEF Holders, LocksTypeOK
    <3> QED
      BY <3>1 DEF Promise!Next, Promise!Gone
  <2>6. ASSUME NEW p \in Procs, NEW j \in Jobs, BecomeOwner(p, j)
        PROVE [Promise!Next]_Holders
    BY <2>2, <2>3, <2>6 DEF BecomeOwner, AcquireOk, AcquireNo
  <2>7. ASSUME NEW p \in Procs, ReleaseNext(p)
        PROVE [Promise!Next]_Holders
    BY <2>2, <2>4, <2>7 DEF ReleaseNext, Release, ReleaseBegin
  <2>8. ASSUME NEW p \in Procs, Exit(p)
        PROVE [Promise!Next]_Holders
    BY <2>5, <2>8 DEF Exit, Vanish
  <2> QED
    BY <2>2, <2>6, <2>7, <2>8
       DEF Next, ProcStep, JobStep, Startup, LoopCrashed, AcquireError, LeaveStandby,
           RunStart, RunEnd, RunTimeout, GhostEnd, CancelledEnd, RenewPass, LastRenewal, RenewOwned,
           RenewAll, BeginShutdown, CancelTasks, Drained, Tick, Elapse
<1> QED
  BY <1>1, <1>2, LockInvariant, PTL DEF Spec, KeepsPromise, Promise!Spec

-----------------------------------------------------------------------------
(***************************************************************************)
(* A thread that is no longer waited for belongs to a task that is over,   *)
(* as long as max_seconds cuts no thread of a job that runs again.         *)
(***************************************************************************)
OneGhost ==
  \A p \in Procs, j \in Jobs : ghosts[p][j] > 0 => ghosts[p][j] = 1 /\ loop[p][j] = "ended"

LEMMA OneGhostStep ==
  ASSUME Capped \cap Threaded \subseteq OneShot, TypeOK, Quiet, OneGhost, [Next]_vars
  PROVE  OneGhost'
<1> USE SchedulerAssumption
<1>1. ASSUME NEW p \in Procs, Startup(p) PROVE OneGhost'
  BY <1>1 DEF TypeOK, Quiet, Active, OneGhost, Startup
<1>2. ASSUME NEW p \in Procs, NEW j \in Jobs, NEW s \in LoopStates,
             Goto(p, j, s), loop[p][j] # "ended", UNCHANGED ghosts
      PROVE OneGhost'
  BY <1>2 DEF TypeOK, OneGhost, Goto
<1>3. ASSUME NEW p \in Procs, NEW j \in Jobs, JobStep(p, j) PROVE OneGhost'
  <2>1. CASE BecomeOwner(p, j) \/ LoopCrashed(p, j)
    BY <1>2, <2>1 DEF BecomeOwner, LoopCrashed
  <2>2. CASE LeaveStandby(p, j) \/ RunStart(p, j)
    BY <1>2, <2>2 DEF LeaveStandby, RunStart
  <2>3. CASE RunEnd(p, j) \/ CancelledEnd(p, j)
    BY <1>2, <2>3 DEF RunEnd, AfterRun, CancelledEnd
  <2>4. CASE RunTimeout(p, j)
    <3>1. CASE UNCHANGED ghosts
      BY <1>2, <2>4, <3>1 DEF RunTimeout, AfterRun
    <3>2. CASE j \in Threaded
      <4>1. j \in OneShot /\ ghosts[p][j] = 0
        BY <2>4, <3>2 DEF TypeOK, OneGhost, RunTimeout
      <4>2. loop' = [loop EXCEPT ![p][j] = "ended"] /\ ghosts' = [ghosts EXCEPT ![p][j] = 1]
        BY <2>4, <3>2, <4>1 DEF TypeOK, RunTimeout, AfterRun, Goto
      <4> QED
        BY <4>2 DEF TypeOK, OneGhost
    <3> QED
      BY <2>4, <3>1, <3>2 DEF RunTimeout
  <2>5. CASE GhostEnd(p, j)
    BY <2>5 DEF TypeOK, OneGhost, GhostEnd
  <2> QED
    BY <1>3, <2>1, <2>2, <2>3, <2>4, <2>5 DEF JobStep
<1>4. ASSUME NEW p \in Procs, CancelTasks(p) PROVE OneGhost'
  BY <1>4 DEF TypeOK, OneGhost, CancelTasks
<1>5. ASSUME NEW p \in Procs, Exit(p) PROVE OneGhost'
  BY <1>5 DEF TypeOK, OneGhost, Exit
<1>6. CASE UNCHANGED <<loop, ghosts>>
  BY <1>6 DEF OneGhost
<1> QED
  BY <1>1, <1>3, <1>4, <1>5, <1>6
     DEF Next, ProcStep, RenewPass, LastRenewal, BeginShutdown, Drained, ReleaseNext, Tick

(* Runs of a job do not pile up inside a process, through any number of    *)
(* runs, cuts by max_seconds, shutdowns and restarts, unless max_seconds   *)
(* is put on a periodic job whose body is a thread: a thread cannot be cut.*)
THEOREM NoOverlapHolds ==
  ASSUME Capped \cap Threaded \subseteq OneShot PROVE Spec => []NoOverlap
<1> DEFINE Inv == TypeOK /\ Quiet /\ OneGhost
<1>1. Init => Inv
  BY TypeInit, SchedulerAssumption DEF Init, Quiet, Active, OneGhost
<1>2. Inv /\ [Next]_vars => Inv'
  BY TypeStep, QuietStep, OneGhostStep
<1>3. Inv => NoOverlap
  BY DEF TypeOK, OneGhost, NoOverlap, Executing
<1> HIDE DEF Inv
<1> QED
  BY <1>1, <1>2, <1>3, PTL DEF Spec
=============================================================================
