--------------------------- MODULE WorkerPoolProofs ---------------------------
(***************************************************************************)
(* Proofs about WorkerPool for any processes, keys, limits and number of   *)
(* tasks: every running worker stands in the book under its key, one body  *)
(* runs per key and never more than the limit allows, and with single=True *)
(* in one process, as long as no lock expires (nothing renews it).         *)
(***************************************************************************)
EXTENDS WorkerPool, FiniteSetTheorems, TLAPS

USE DEF Keys, lockVars, taskVars, bookVars, boundVars, vars

(* A task from start() to its finally block, and inside the try block.     *)
Live == {"contend", "standby", "check", "body", "backoff"}
InTry == {"check", "body", "backoff"}
LiveOf(p) == {t \in Tasks : Proc(t) = p /\ task[t] \in Live}

(***************************************************************************)
(* The book and the tasks agree: an entry names a task of that process and *)
(* key (Entries), a live task has its entry (Booked), and a pool that has  *)
(* stopped has none.                                                       *)
(***************************************************************************)
Homes == \A t \in Tasks : task[t] = "unused" <=> home[t] = NoHome

Entries ==
  \A p \in Procs, k \in Keys :
    handles[p][k] # NoTask => /\ home[handles[p][k]] = [proc |-> p, key |-> k]
                              /\ phase[p] \in {"up", "closing"}

Booked == \A t \in Tasks : task[t] \in Live => handles[Proc(t)][Key(t)] = t

(* A thread left behind by stop_all belongs to a pool that has stopped.    *)
Abandoned ==
  /\ \A t \in orphans : home[t] # NoHome /\ phase[Proc(t)] = "stopped"
  /\ \A t, u \in orphans : home[t] = home[u] => t = u

BookInv == Homes /\ Entries /\ Booked /\ Abandoned

(* The limit bounds the book, and the gauge counts at least the live tasks.*)
Counted ==
  \A p \in Procs : /\ IsFiniteSet(Registered(p)) /\ Cardinality(Registered(p)) <= MaxInstances
                   /\ Cardinality(LiveOf(p)) <= gauge[p]

(***************************************************************************)
(* Facts about tasks.                                                      *)
(***************************************************************************)
LEMMA TaskFacts ==
  /\ NoTask \notin Tasks /\ IsFiniteSet(Tasks)
  /\ NoHome \notin [proc : Procs, key : Keys]
<1>1. IsFiniteSet(Tasks)
  BY FS_Interval, WorkerPoolAssumption DEF Tasks
<1>2. NoHome.proc \notin Procs
  BY LocksAssumption DEF NoHome
<1> QED
  BY <1>1, <1>2 DEF Tasks, NoTask

LEMMA HomeFacts ==
  ASSUME TypeOK, NEW t \in Tasks, home[t] # NoHome
  PROVE  Proc(t) \in Procs /\ Key(t) \in Keys /\ home[t] = [proc |-> Proc(t), key |-> Key(t)]
BY DEF TypeOK, Proc, Key

LEMMA NoHomeFacts ==
  ASSUME NEW t \in Tasks, home[t] = NoHome
  PROVE  Proc(t) \notin Procs
BY LocksAssumption DEF Proc, NoHome

LEMMA GotoType ==
  ASSUME TypeOK, NEW t \in Tasks, NEW s \in States, Goto(t, s)
  PROVE  task' \in [Tasks -> States]
BY DEF TypeOK, Goto

LEMMA LiveCount ==
  ASSUME NEW p \in Procs
  PROVE  IsFiniteSet(LiveOf(p)) /\ Cardinality(LiveOf(p)) \in Nat
BY TaskFacts, FS_Subset, FS_CardinalityType DEF LiveOf

(***************************************************************************)
(* stop_all() at its limit, in terms of the tasks it still finds.          *)
(***************************************************************************)
Pending(p) == {handles[p][k] : k \in Registered(p)} \cap {t \in Tasks : Running(t)}
Tried(p) == {t \in Pending(p) : task[t] \in InTry}
LeftKeys(p) == {Key(t) : t \in Tried(p)} \cap Single
Asking(p) == {Key(t) : t \in {u \in Pending(p) : task[u] = "contend"}}

LEMMA AllStoppedIs ==
  ASSUME NEW p \in Procs, AllStopped(p)
  PROVE  /\ phase[p] = "closing" /\ phase' = [phase EXCEPT ![p] = "stopped"]
         /\ task' = [t \in Tasks |-> CASE t \in Tried(p) -> AfterTry(t)
                                       [] t \in Pending(p) \ Tried(p) -> "done"
                                       [] OTHER -> task[t]]
         /\ gauge' = [gauge EXCEPT ![p] = @ - Cardinality(Tried(p))]
         /\ orphans' = orphans \cup {t \in Tried(p) : task[t] = "body" /\ Key(t) \in Threaded}
         /\ \/ ReleaseBegin(p, LeftKeys(p))
            \/ /\ Kind = "redis"
               /\ \E k \in Asking(p) : key[k] = None /\ Write(p, k)
               /\ held' = [held EXCEPT ![p] = @ \ LeftKeys(p)]
         /\ handles' = [handles EXCEPT ![p] = [k \in Keys |-> NoTask]]
         /\ UNCHANGED <<home, asked, caller, boundVars>>
BY DEF AllStopped, Pending, Tried, LeftKeys, Asking, InTry

LEMMA PendingFacts ==
  ASSUME TypeOK, BookInv, NEW p \in Procs
  PROVE  /\ Pending(p) \subseteq Tasks /\ Tried(p) \subseteq LiveOf(p)
         /\ LiveOf(p) \subseteq Pending(p)
         /\ \A t \in Pending(p) : /\ Proc(t) = p /\ Key(t) \in Keys /\ home[t] # NoHome
                                  /\ handles[p][Key(t)] = t
<1>1. ASSUME NEW t \in Pending(p)
      PROVE  t \in Tasks /\ home[t] # NoHome /\ Proc(t) = p /\ Key(t) \in Keys
             /\ handles[p][Key(t)] = t
  <2>1. PICK k \in Keys : handles[p][k] = t /\ t # NoTask /\ t \in Tasks
    BY TaskFacts DEF Pending, Registered
  <2>2. home[t] = [proc |-> p, key |-> k]
    BY <2>1 DEF BookInv, Entries
  <2>3. home[t] # NoHome
    BY <2>2, TaskFacts
  <2> QED
    BY <2>1, <2>2, <2>3 DEF Proc, Key
<1>2. LiveOf(p) \subseteq Pending(p)
  <2> SUFFICES ASSUME NEW t \in LiveOf(p) PROVE t \in Pending(p)
    OBVIOUS
  <2>1. t \in Tasks /\ Proc(t) = p /\ task[t] \in Live /\ handles[p][Key(t)] = t
    BY DEF LiveOf, BookInv, Booked
  <2>2. Key(t) \in Keys
    BY <2>1, HomeFacts DEF BookInv, Homes, Live
  <2>3. Key(t) \in Registered(p) /\ Running(t)
    BY <2>1, <2>2, TaskFacts DEF Registered, Running, Live
  <2> QED
    BY <2>1, <2>3 DEF Pending
<1>3. Tried(p) \subseteq LiveOf(p)
  BY <1>1 DEF Tried, LiveOf, InTry, Live
<1> QED
  BY <1>1, <1>2, <1>3

-----------------------------------------------------------------------------
(***************************************************************************)
(* The book.                                                               *)
(***************************************************************************)
LEMMA StartBook ==
  ASSUME TypeOK, BookInv, NEW p \in Procs, NEW k \in Keys, NEW t \in Tasks, Start(p, k, t)
  PROVE  BookInv'
<1> DEFINE s == IF k \in Single THEN "contend" ELSE "check"
<1>1. /\ phase' = phase /\ phase[p] = "up" /\ orphans' = orphans
      /\ home' = [home EXCEPT ![t] = [proc |-> p, key |-> k]]
      /\ task[t] = "unused" /\ task' = [task EXCEPT ![t] = s]
      /\ handles' = [handles EXCEPT ![p][k] = t]
  BY DEF Start, Goto
<1>2. s \in Live /\ s # "unused" /\ home[t] = NoHome
  BY <1>1 DEF Live, BookInv, Homes
<1>3. home'[t] = [proc |-> p, key |-> k] /\ home'[t] # NoHome
  BY <1>1, TaskFacts DEF TypeOK
<1>4. \A u \in Tasks : u # t => /\ home'[u] = home[u] /\ task'[u] = task[u]
                                /\ Proc(u)' = Proc(u) /\ Key(u)' = Key(u)
  BY <1>1 DEF TypeOK, Proc, Key
<1>5. Proc(t)' = p /\ Key(t)' = k /\ task'[t] = s
  BY <1>1, <1>3 DEF TypeOK, Proc, Key
<1>6. handles'[p][k] = t
  BY <1>1 DEF TypeOK
<1>7. \A q \in Procs, j \in Keys : <<q, j>> # <<p, k>> => handles'[q][j] = handles[q][j]
  BY <1>1 DEF TypeOK
<1>8. \A q \in Procs, j \in Keys : handles[q][j] # t
  <2> SUFFICES ASSUME NEW q \in Procs, NEW j \in Keys, handles[q][j] = t PROVE FALSE
    OBVIOUS
  <2>1. home[t] = [proc |-> q, key |-> j]
    BY TaskFacts DEF BookInv, Entries
  <2> QED
    BY <1>2, <2>1, TaskFacts
<1>9. Homes'
  BY <1>2, <1>3, <1>4, <1>5 DEF BookInv, Homes
<1>10. Entries'
  BY <1>1, <1>3, <1>4, <1>6, <1>7, <1>8 DEF BookInv, Entries, TypeOK
<1>11. Booked'
  <2> SUFFICES ASSUME NEW u \in Tasks, task'[u] \in Live
               PROVE  handles'[Proc(u)'][Key(u)'] = u
    BY DEF Booked
  <2>1. CASE u = t
    BY <1>5, <1>6, <2>1
  <2>2. CASE u # t
    <3>1. task[u] \in Live /\ handles[Proc(u)][Key(u)] = u
      BY <1>4, <2>2 DEF BookInv, Booked
    <3>2. Proc(u) \in Procs /\ Key(u) \in Keys
      BY <3>1, HomeFacts DEF BookInv, Homes, Live
    <3>3. <<Proc(u), Key(u)>> # <<p, k>>
      BY <3>1, TaskFacts DEF Start, MayStart, Running, Live
    <3> QED
      BY <1>4, <1>7, <2>2, <3>1, <3>2, <3>3
  <2> QED
    BY <2>1, <2>2
<1>12. Abandoned'
  <2>1. t \notin orphans /\ orphans \subseteq Tasks
    BY <1>2 DEF BookInv, Abandoned, TypeOK
  <2> QED
    BY <1>1, <1>4, <2>1 DEF BookInv, Abandoned
<1> QED
  BY <1>9, <1>10, <1>11, <1>12 DEF BookInv

(* A task that moves, without a new entry or a lost one.                   *)
LEMMA MoveBook ==
  ASSUME TypeOK, BookInv, NEW t \in Tasks, NEW s \in States, Goto(t, s),
         UNCHANGED <<phase, home, orphans, handles>>,
         task[t] # "unused", s # "unused", s \in Live => task[t] \in Live
  PROVE  BookInv'
<1>1. \A u \in Tasks : /\ Proc(u)' = Proc(u) /\ Key(u)' = Key(u)
                       /\ task'[u] = IF u = t THEN s ELSE task[u]
  BY DEF TypeOK, Goto, Proc, Key
<1>2. Homes' /\ Booked'
  BY <1>1 DEF BookInv, Homes, Booked
<1>3. Entries' /\ Abandoned'
  BY <1>1 DEF BookInv, Entries, Abandoned, TypeOK
<1> QED
  BY <1>2, <1>3 DEF BookInv

(* The finally block removes the entry of its own task and no other.       *)
LEMMA LeaveBook ==
  ASSUME TypeOK, BookInv, NEW t \in Tasks, task[t] \in Live, Leave(t),
         UNCHANGED <<phase, home, orphans>>
  PROVE  BookInv'
<1>1. Proc(t) \in Procs /\ Key(t) \in Keys /\ handles[Proc(t)][Key(t)] = t
  BY HomeFacts DEF BookInv, Homes, Booked, Live
<1>2. handles' = [handles EXCEPT ![Proc(t)][Key(t)] = NoTask]
  BY DEF Leave
<1>3. \A u \in Tasks : /\ Proc(u)' = Proc(u) /\ Key(u)' = Key(u)
                       /\ u # t => task'[u] = task[u]
  BY DEF TypeOK, Leave, Goto, Proc, Key
<1>4. task'[t] \in {"release", "done"}
  BY DEF TypeOK, Leave, Goto, AfterTry
<1>5. Homes'
  BY <1>3, <1>4 DEF BookInv, Homes, Live
<1>6. Entries'
  BY <1>1, <1>2 DEF BookInv, Entries, TypeOK
<1>7. Booked'
  <2> SUFFICES ASSUME NEW u \in Tasks, task'[u] \in Live
               PROVE  handles'[Proc(u)][Key(u)] = u
    BY <1>3 DEF Booked
  <2>1. u # t /\ task[u] \in Live
    BY <1>3, <1>4 DEF Live
  <2>2. Proc(u) \in Procs /\ Key(u) \in Keys /\ handles[Proc(u)][Key(u)] = u
    BY <2>1, HomeFacts DEF BookInv, Homes, Booked, Live
  <2> QED
    BY <1>1, <1>2, <2>1, <2>2 DEF TypeOK
<1>8. Abandoned'
  BY <1>3 DEF BookInv, Abandoned, TypeOK
<1> QED
  BY <1>5, <1>6, <1>7, <1>8 DEF BookInv

LEMMA AllStoppedBook ==
  ASSUME TypeOK, BookInv, NEW p \in Procs, AllStopped(p)
  PROVE  BookInv'
<1>1. /\ phase[p] = "closing" /\ phase' = [phase EXCEPT ![p] = "stopped"]
      /\ orphans' = orphans \cup {t \in Tried(p) : task[t] = "body" /\ Key(t) \in Threaded}
      /\ handles' = [handles EXCEPT ![p] = [k \in Keys |-> NoTask]]
      /\ home' = home
  BY AllStoppedIs
<1>2. \A t \in Tasks : Proc(t)' = Proc(t) /\ Key(t)' = Key(t)
  BY <1>1 DEF Proc, Key
<1>3. \A t \in Tasks : IF t \in Pending(p) THEN task'[t] \in {"release", "done"}
                                           ELSE task'[t] = task[t]
  BY AllStoppedIs DEF AfterTry, Tried
<1>4. \A t \in Pending(p) : t \in Tasks /\ Proc(t) = p /\ home[t] # NoHome
  BY PendingFacts
<1>5. Homes'
  BY <1>1, <1>3, <1>4 DEF BookInv, Homes
<1>6. Entries'
  BY <1>1 DEF BookInv, Entries, TypeOK
<1>7. Booked'
  <2> SUFFICES ASSUME NEW t \in Tasks, task'[t] \in Live
               PROVE  handles'[Proc(t)][Key(t)] = t
    BY <1>2 DEF Booked
  <2>1. t \notin Pending(p) /\ task[t] \in Live
    BY <1>3 DEF Live
  <2>2. Proc(t) # p /\ Proc(t) \in Procs
    BY <2>1, PendingFacts, HomeFacts DEF LiveOf, BookInv, Homes, Live
  <2> QED
    BY <1>1, <2>1, <2>2 DEF BookInv, Booked, TypeOK
<1>8. Abandoned'
  <2>1. \A t \in orphans : t \in Tasks /\ home[t] # NoHome /\ Proc(t) \in Procs \ {p}
                           /\ phase[Proc(t)] = "stopped"
    BY <1>1, HomeFacts DEF BookInv, Abandoned, TypeOK
  <2>2. \A t \in Tried(p) : /\ t \in Tasks /\ home[t] # NoHome /\ Proc(t) = p
                            /\ handles[p][Key(t)] = t
    BY PendingFacts DEF Tried
  <2>3. \A t \in orphans' : t \in Tasks /\ home[t] # NoHome /\ phase'[Proc(t)] = "stopped"
    BY <1>1, <2>1, <2>2 DEF TypeOK
  <2>4. \A t, u \in orphans' : home[t] = home[u] => t = u
    BY <1>1, <2>1, <2>2 DEF BookInv, Abandoned, Proc, Key
  <2> QED
    BY <1>1, <1>2, <2>3, <2>4 DEF Abandoned
<1> QED
  BY <1>5, <1>6, <1>7, <1>8 DEF BookInv

LEMMA CrashBook ==
  ASSUME TypeOK, BookInv, NEW p \in Procs, Crash(p)
  PROVE  BookInv'
<1>1. /\ phase' = [phase EXCEPT ![p] = "gone"] /\ home' = home
      /\ task' = [t \in Tasks |-> IF Proc(t) = p THEN "done" ELSE task[t]]
      /\ orphans' = {t \in orphans : Proc(t) # p}
      /\ handles' = [handles EXCEPT ![p] = [k \in Keys |-> NoTask]]
  BY DEF Crash
<1>2. \A t \in Tasks : Proc(t)' = Proc(t) /\ Key(t)' = Key(t)
  BY <1>1 DEF Proc, Key
<1>3. Homes'
  BY <1>1, NoHomeFacts DEF BookInv, Homes
<1>4. Entries'
  BY <1>1 DEF BookInv, Entries, TypeOK
<1>5. Booked'
  <2> SUFFICES ASSUME NEW t \in Tasks, task'[t] \in Live
               PROVE  handles'[Proc(t)][Key(t)] = t
    BY <1>2 DEF Booked
  <2>1. Proc(t) # p /\ task[t] \in Live
    BY <1>1 DEF Live
  <2>2. Proc(t) \in Procs /\ handles[Proc(t)][Key(t)] = t
    BY <2>1, HomeFacts DEF BookInv, Homes, Booked, Live
  <2> QED
    BY <1>1, <2>1, <2>2 DEF TypeOK
<1>6. Abandoned'
  <2>1. \A t \in orphans : Proc(t) \in Procs
    BY HomeFacts DEF BookInv, Abandoned, TypeOK
  <2> QED
    BY <1>1, <1>2, <2>1 DEF BookInv, Abandoned, TypeOK
<1> QED
  BY <1>3, <1>4, <1>5, <1>6 DEF BookInv

LEMMA BookStep == TypeOK /\ BookInv /\ [Next]_vars => BookInv'
<1> SUFFICES ASSUME TypeOK, BookInv, [Next]_vars PROVE BookInv'
  OBVIOUS
<1>1. ASSUME NEW t \in Tasks, TaskStep(t) PROVE BookInv'
  <2>1. CASE BecomeOwner(t) \/ OwnerError(t) \/ WakeStandby(t)
    BY <2>1, MoveBook DEF BecomeOwner, OwnerError, WakeStandby, States, Live
  <2>2. CASE Check(t)
    <3>1. CASE KeepGoing(t)
      BY <2>2, <3>1, MoveBook DEF Check, Stay, States, Live
    <3>2. CASE ~KeepGoing(t)
      BY <2>2, <3>2, LeaveBook DEF Check, Live
    <3> QED
      BY <3>1, <3>2
  <2>3. CASE BodyReturns(t)
    BY <2>3, LeaveBook DEF BodyReturns, Live
  <2>4. CASE BodyCrashes(t)
    <3>1. CASE Key(t) \in Restart /\ t \notin asked
      BY <2>4, <3>1, MoveBook DEF BodyCrashes, Stay, States, Live
    <3>2. CASE ~(Key(t) \in Restart /\ t \notin asked)
      BY <2>4, <3>2, LeaveBook DEF BodyCrashes, Live
    <3> QED
      BY <3>1, <3>2
  <2>5. CASE WakeBackoff(t) \/ ReleaseLock(t)
    BY <2>5, MoveBook DEF WakeBackoff, ReleaseLock, States, Live
  <2>6. CASE OrphanEnds(t)
    BY <2>6 DEF OrphanEnds, BookInv, Homes, Entries, Booked, Abandoned, Proc, Key
  <2> QED
    BY <1>1, <2>1, <2>2, <2>3, <2>4, <2>5, <2>6 DEF TaskStep
<1>2. ASSUME NEW p \in Procs, PoolStep(p) PROVE BookInv'
  <2>1. ASSUME NEW k \in Keys, NEW t \in Tasks, Start(p, k, t) PROVE BookInv'
    BY <2>1, StartBook
  <2>2. CASE (\E k \in Keys : StopCall(p, k)) \/ StopAnswer(p)
    BY <2>2 DEF StopCall, StopAnswer, BookInv, Homes, Entries, Booked, Abandoned, Proc, Key
  <2>3. CASE StopAll(p)
    <3>1. /\ phase[p] = "up" /\ phase' = [phase EXCEPT ![p] = "closing"]
          /\ UNCHANGED <<home, task, handles, orphans>>
      BY <2>3 DEF StopAll
    <3>2. Entries'
      BY <3>1 DEF BookInv, Entries, TypeOK
    <3>3. Abandoned'
      BY <3>1 DEF BookInv, Abandoned, TypeOK, Proc
    <3> QED
      BY <3>1, <3>2, <3>3 DEF BookInv, Homes, Booked, Proc, Key
  <2>4. CASE AllStopped(p)
    BY <2>4, AllStoppedBook
  <2>5. CASE Crash(p)
    BY <2>5, CrashBook
  <2> QED
    BY <1>2, <2>1, <2>2, <2>3, <2>4, <2>5 DEF PoolStep
<1>3. CASE UNCHANGED <<phase, home, task, handles, orphans>>
  BY <1>3 DEF BookInv, Homes, Entries, Booked, Abandoned, Proc, Key
<1> QED
  BY <1>1, <1>2, <1>3 DEF Next, Tick

-----------------------------------------------------------------------------
(***************************************************************************)
(* The counts.                                                             *)
(***************************************************************************)
(* A gauge that is decremented in the finally block counts the task.       *)
LEMMA GaugePositive ==
  ASSUME TypeOK, BookInv, Counted, NEW t \in Tasks, task[t] \in Live
  PROVE  Proc(t) \in Procs /\ gauge[Proc(t)] - 1 \in Nat
<1>1. Proc(t) \in Procs /\ t \in LiveOf(Proc(t))
  BY HomeFacts DEF BookInv, Homes, Live, LiveOf
<1>2. Cardinality(LiveOf(Proc(t))) # 0
  BY <1>1, LiveCount, FS_EmptySet
<1>3. gauge[Proc(t)] \in Nat /\ Cardinality(LiveOf(Proc(t))) <= gauge[Proc(t)]
  BY <1>1 DEF Counted, TypeOK
<1> QED
  BY <1>1, <1>2, <1>3, LiveCount

LEMMA TriedCount ==
  ASSUME TypeOK, BookInv, Counted, NEW p \in Procs
  PROVE  /\ Cardinality(Tried(p)) \in Nat /\ gauge[p] - Cardinality(Tried(p)) \in Nat
<1>1. Cardinality(Tried(p)) <= Cardinality(LiveOf(p)) /\ Cardinality(Tried(p)) \in Nat
  BY PendingFacts, LiveCount, FS_Subset, FS_CardinalityType
<1>2. gauge[p] \in Nat /\ Cardinality(LiveOf(p)) <= gauge[p]
  BY DEF Counted, TypeOK
<1> QED
  BY <1>1, <1>2, LiveCount

(* A task leaves: one instance less in the book and in the gauge.          *)
LEMMA LeaveCounted ==
  ASSUME TypeOK, BookInv, Counted, NEW t \in Tasks, task[t] \in Live, Leave(t), home' = home
  PROVE  Counted'
<1>1. Proc(t) \in Procs /\ Key(t) \in Keys /\ handles[Proc(t)][Key(t)] = t /\ t # NoTask
  BY HomeFacts, TaskFacts DEF BookInv, Homes, Booked, Live
<1>2. ASSUME NEW p \in Procs
      PROVE  /\ Registered(p)' = IF p = Proc(t) THEN Registered(p) \ {Key(t)} ELSE Registered(p)
             /\ LiveOf(p)' = IF p = Proc(t) THEN LiveOf(p) \ {t} ELSE LiveOf(p)
             /\ gauge'[p] = IF p = Proc(t) THEN gauge[p] - 1 ELSE gauge[p]
  <2>1. \A u \in Tasks : Proc(u)' = Proc(u)
    BY DEF Proc
  <2>2. \A u \in Tasks : task'[u] = IF u = t THEN AfterTry(t) ELSE task[u]
    BY DEF TypeOK, Leave, Goto
  <2>3. AfterTry(t) \notin Live
    BY DEF AfterTry, Live
  <2>4. LiveOf(p)' = {u \in Tasks : Proc(u) = p /\ task'[u] \in Live}
    BY <2>1 DEF LiveOf
  <2>5. LiveOf(p)' = IF p = Proc(t) THEN LiveOf(p) \ {t} ELSE LiveOf(p)
    BY <2>2, <2>3, <2>4 DEF LiveOf
  <2>6. handles'[p] = IF p = Proc(t) THEN [handles[p] EXCEPT ![Key(t)] = NoTask] ELSE handles[p]
    BY <1>1 DEF Leave, TypeOK
  <2>7. Registered(p)' = IF p = Proc(t) THEN Registered(p) \ {Key(t)} ELSE Registered(p)
    BY <1>1, <2>6 DEF Registered, TypeOK
  <2>8. gauge'[p] = IF p = Proc(t) THEN gauge[p] - 1 ELSE gauge[p]
    BY DEF Leave, TypeOK
  <2> QED
    BY <2>5, <2>7, <2>8
<1> SUFFICES ASSUME NEW p \in Procs
             PROVE  /\ IsFiniteSet(Registered(p)') /\ Cardinality(Registered(p)') <= MaxInstances
                    /\ Cardinality(LiveOf(p)') <= gauge'[p]
  BY DEF Counted
<1>3. CASE p # Proc(t)
  BY <1>2, <1>3 DEF Counted
<1>4. CASE p = Proc(t)
  <2>1. Key(t) \in Registered(p) /\ t \in LiveOf(p)
    BY <1>1, <1>4 DEF Registered, LiveOf
  <2>2. /\ IsFiniteSet(Registered(p) \ {Key(t)})
        /\ Cardinality(Registered(p) \ {Key(t)}) = Cardinality(Registered(p)) - 1
    BY <2>1, FS_RemoveElement DEF Counted
  <2>3. Cardinality(LiveOf(p) \ {t}) = Cardinality(LiveOf(p)) - 1
    BY <2>1, LiveCount, FS_RemoveElement
  <2>4. Cardinality(Registered(p)) \in Nat /\ Cardinality(Registered(p)) <= MaxInstances
    BY FS_CardinalityType DEF Counted
  <2>5. Cardinality(LiveOf(p)) <= gauge[p] /\ gauge[p] \in Nat
    BY DEF Counted, TypeOK
  <2>6. /\ IsFiniteSet(Registered(p)')
        /\ Cardinality(Registered(p)') = Cardinality(Registered(p)) - 1
    BY <1>2, <1>4, <2>2
  <2>7. Cardinality(LiveOf(p)') = Cardinality(LiveOf(p)) - 1 /\ gauge'[p] = gauge[p] - 1
    BY <1>2, <1>4, <2>3
  <2> QED
    BY <2>4, <2>5, <2>6, <2>7, LiveCount, WorkerPoolAssumption
<1> QED
  BY <1>3, <1>4

(* A task moves and stays counted, or is no longer live.                   *)
LEMMA MoveCounted ==
  ASSUME TypeOK, Counted, UNCHANGED <<home, bookVars>>,
         \A t \in Tasks : task'[t] \in Live => task[t] \in Live
  PROVE  Counted'
<1> SUFFICES ASSUME NEW p \in Procs
             PROVE  /\ IsFiniteSet(Registered(p)') /\ Cardinality(Registered(p)') <= MaxInstances
                    /\ Cardinality(LiveOf(p)') <= gauge'[p]
  BY DEF Counted
<1>1. Registered(p)' = Registered(p) /\ LiveOf(p)' \subseteq LiveOf(p) /\ gauge' = gauge
  BY DEF Registered, LiveOf, Proc
<1>2. /\ Cardinality(LiveOf(p)') <= Cardinality(LiveOf(p))
      /\ Cardinality(LiveOf(p)') \in Nat
  BY <1>1, LiveCount, FS_Subset, FS_CardinalityType
<1>3. gauge[p] \in Nat
  BY DEF TypeOK
<1> QED
  BY <1>1, <1>2, <1>3, LiveCount DEF Counted

LEMMA StartCounted ==
  ASSUME TypeOK, BookInv, Counted, NEW p \in Procs, NEW k \in Keys, NEW t \in Tasks,
         Start(p, k, t)
  PROVE  Counted'
<1>1. /\ home' = [home EXCEPT ![t] = [proc |-> p, key |-> k]]
      /\ task[t] = "unused" /\ task' = [task EXCEPT ![t] = IF k \in Single THEN "contend" ELSE "check"]
      /\ handles' = [handles EXCEPT ![p][k] = t] /\ gauge' = [gauge EXCEPT ![p] = @ + 1]
      /\ Cardinality(Registered(p)) < MaxInstances
  BY DEF Start, MayStart, Goto
<1>2. \A u \in Tasks : /\ u # t => Proc(u)' = Proc(u) /\ task'[u] = task[u]
                       /\ Proc(t)' = p /\ task'[t] \in Live
  BY <1>1 DEF TypeOK, Proc, Live
<1>3. home[t] = NoHome /\ Proc(t) \notin Procs
  BY <1>1, NoHomeFacts DEF BookInv, Homes
<1>4. ASSUME NEW q \in Procs
      PROVE  LiveOf(q)' = IF q = p THEN LiveOf(q) \cup {t} ELSE LiveOf(q)
  BY <1>2, <1>3 DEF LiveOf
<1>5. t # NoTask
  BY TaskFacts
<1>6. ASSUME NEW q \in Procs
      PROVE  Registered(q)' = IF q = p THEN Registered(q) \cup {k} ELSE Registered(q)
  BY <1>1, <1>5 DEF Registered, TypeOK
<1> SUFFICES ASSUME NEW q \in Procs
             PROVE  /\ IsFiniteSet(Registered(q)') /\ Cardinality(Registered(q)') <= MaxInstances
                    /\ Cardinality(LiveOf(q)') <= gauge'[q]
  BY DEF Counted
<1>7. CASE q # p
  BY <1>1, <1>4, <1>6, <1>7 DEF Counted, TypeOK
<1>8. CASE q = p
  <2>1. /\ IsFiniteSet(Registered(p)')
        /\ Cardinality(Registered(p)')
             = IF k \in Registered(p) THEN Cardinality(Registered(p))
                                      ELSE Cardinality(Registered(p)) + 1
        /\ Cardinality(Registered(p)) \in Nat
    <3>1. IsFiniteSet(Registered(p)) /\ Cardinality(Registered(p)) \in Nat
      BY FS_CardinalityType DEF Counted
    <3>2. /\ IsFiniteSet(Registered(p) \cup {k})
          /\ Cardinality(Registered(p) \cup {k})
               = IF k \in Registered(p) THEN Cardinality(Registered(p))
                                        ELSE Cardinality(Registered(p)) + 1
      BY <3>1, FS_AddElement
    <3> QED
      BY <1>6, <1>8, <3>1, <3>2
  <2>2. Cardinality(LiveOf(p)')
          = IF t \in LiveOf(p) THEN Cardinality(LiveOf(p)) ELSE Cardinality(LiveOf(p)) + 1
    BY <1>4, <1>8, LiveCount, FS_AddElement
  <2>3. Cardinality(LiveOf(p)) <= gauge[p] /\ gauge[p] \in Nat /\ gauge'[p] = gauge[p] + 1
    BY <1>1 DEF Counted, TypeOK
  <2>4. Cardinality(Registered(p)) < MaxInstances
    BY <1>1
  <2> QED
    BY <1>8, <2>1, <2>2, <2>3, <2>4, LiveCount, WorkerPoolAssumption
<1> QED
  BY <1>7, <1>8

(* A pool that stops or dies keeps no live task and no entry.              *)
LEMMA ClosedCounted ==
  ASSUME TypeOK, Counted, NEW p \in Procs, home' = home,
         handles' = [handles EXCEPT ![p] = [k \in Keys |-> NoTask]],
         gauge'[p] \in Nat, \A q \in Procs : q # p => gauge'[q] = gauge[q],
         \A t \in Tasks : task'[t] \in Live => task[t] \in Live /\ Proc(t) # p
  PROVE  Counted'
<1> SUFFICES ASSUME NEW q \in Procs
             PROVE  /\ IsFiniteSet(Registered(q)') /\ Cardinality(Registered(q)') <= MaxInstances
                    /\ Cardinality(LiveOf(q)') <= gauge'[q]
  BY DEF Counted
<1>1. CASE q = p
  <2>1. Registered(q)' = {} /\ LiveOf(q)' = {}
    BY <1>1 DEF Registered, LiveOf, Proc, TypeOK
  <2> QED
    BY <1>1, <2>1, FS_EmptySet, WorkerPoolAssumption
<1>2. CASE q # p
  <2>1. Registered(q)' = Registered(q) /\ LiveOf(q)' \subseteq LiveOf(q)
    BY <1>2 DEF Registered, LiveOf, Proc, TypeOK
  <2>2. /\ Cardinality(LiveOf(q)') <= Cardinality(LiveOf(q))
        /\ Cardinality(LiveOf(q)') \in Nat /\ gauge[q] \in Nat
    BY <2>1, LiveCount, FS_Subset, FS_CardinalityType DEF TypeOK
  <2> QED
    BY <1>2, <2>1, <2>2, LiveCount DEF Counted
<1> QED
  BY <1>1, <1>2

LEMMA CountedStep == TypeOK /\ BookInv /\ Counted /\ [Next]_vars => Counted'
<1> SUFFICES ASSUME TypeOK, BookInv, Counted, [Next]_vars PROVE Counted'
  OBVIOUS
<1>1. ASSUME NEW t \in Tasks, TaskStep(t) PROVE Counted'
  <2>1. ASSUME NEW s \in States, Goto(t, s), task[t] \in Live, UNCHANGED <<home, bookVars>>
        PROVE  Counted'
    BY <2>1, MoveCounted DEF TypeOK, Goto
  <2>2. CASE BecomeOwner(t) \/ OwnerError(t) \/ WakeStandby(t) \/ WakeBackoff(t)
    BY <2>1, <2>2 DEF BecomeOwner, OwnerError, WakeStandby, WakeBackoff, States, Live
  <2>3. CASE Check(t)
    <3>1. CASE KeepGoing(t)
      BY <2>1, <2>3, <3>1 DEF Check, Stay, States, Live
    <3>2. CASE ~KeepGoing(t)
      BY <2>3, <3>2, LeaveCounted DEF Check, Live
    <3> QED
      BY <3>1, <3>2
  <2>4. CASE BodyReturns(t)
    BY <2>4, LeaveCounted DEF BodyReturns, Live
  <2>5. CASE BodyCrashes(t)
    <3>1. CASE Key(t) \in Restart /\ t \notin asked
      BY <2>1, <2>5, <3>1 DEF BodyCrashes, Stay, States, Live
    <3>2. CASE ~(Key(t) \in Restart /\ t \notin asked)
      BY <2>5, <3>2, LeaveCounted DEF BodyCrashes, Live
    <3> QED
      BY <3>1, <3>2
  <2>6. CASE ReleaseLock(t) \/ OrphanEnds(t)
    <3>1. \A u \in Tasks : task'[u] \in Live => task[u] \in Live
      BY <2>6 DEF ReleaseLock, OrphanEnds, Goto, TypeOK, Live
    <3> QED
      BY <2>6, <3>1, MoveCounted DEF ReleaseLock, OrphanEnds
  <2> QED
    BY <1>1, <2>2, <2>3, <2>4, <2>5, <2>6 DEF TaskStep
<1>2. ASSUME NEW p \in Procs, PoolStep(p) PROVE Counted'
  <2>1. ASSUME NEW k \in Keys, NEW t \in Tasks, Start(p, k, t) PROVE Counted'
    BY <2>1, StartCounted
  <2>2. CASE AllStopped(p)
    <3>1. gauge'[p] \in Nat /\ \A q \in Procs : q # p => gauge'[q] = gauge[q]
      BY <2>2, AllStoppedIs, TriedCount DEF TypeOK
    <3>2. \A t \in Tasks : task'[t] \in Live => task[t] \in Live /\ t \notin Pending(p)
      BY <2>2, AllStoppedIs DEF AfterTry, Live, Tried
    <3>3. \A t \in Tasks : task'[t] \in Live => task[t] \in Live /\ Proc(t) # p
      BY <3>2, PendingFacts DEF LiveOf
    <3> QED
      BY <2>2, <3>1, <3>3, AllStoppedIs, ClosedCounted
  <2>3. CASE Crash(p)
    <3>1. gauge'[p] \in Nat /\ \A q \in Procs : q # p => gauge'[q] = gauge[q]
      BY <2>3 DEF Crash, TypeOK
    <3>2. \A t \in Tasks : task'[t] \in Live => task[t] \in Live /\ Proc(t) # p
      BY <2>3 DEF Crash, Live
    <3> QED
      BY <2>3, <3>1, <3>2, ClosedCounted DEF Crash
  <2>4. CASE UNCHANGED <<home, task, bookVars>>
    BY <2>4, MoveCounted
  <2> QED
    BY <1>2, <2>1, <2>2, <2>3, <2>4 DEF PoolStep, StopCall, StopAnswer, StopAll
<1>3. CASE UNCHANGED <<home, task, bookVars>>
  BY <1>3, MoveCounted
<1> QED
  BY <1>1, <1>2, <1>3 DEF Next, Tick

-----------------------------------------------------------------------------
(***************************************************************************)
(* The types.                                                              *)
(***************************************************************************)
LEMMA WriteType ==
  ASSUME LocksTypeOK, NEW p \in Procs, NEW n \in Names, Write(p, n)
  PROVE  /\ key' \in [Names -> Procs \cup {None}]
         /\ age' \in [Names -> 0..(TTL - 1)]
BY LocksAssumption DEF LocksTypeOK, Write

LEMMA AcquireType ==
  ASSUME LocksTypeOK, NEW p \in Procs, NEW n \in Names,
         AcquireOk(p, n) \/ AcquireNo(p, n) \/ AcquireError(p, n)
  PROVE  LocksTypeOK'
<1>1. CASE UNCHANGED lockVars
  BY <1>1 DEF LocksTypeOK
<1>2. CASE Write(p, n) /\ (held' = [held EXCEPT ![p] = @ \cup {n}] \/ UNCHANGED held)
  <2>1. held' \in [Procs -> SUBSET Names]
    BY <1>2 DEF LocksTypeOK
  <2> QED
    BY <1>2, <2>1, WriteType DEF LocksTypeOK
<1> QED
  BY <1>1, <1>2 DEF AcquireOk, AcquireNo, AcquireError

LEMMA ReleaseBeginType ==
  ASSUME LocksTypeOK, NEW p \in Procs, NEW S, ReleaseBegin(p, S)
  PROVE  LocksTypeOK'
BY DEF LocksTypeOK, ReleaseBegin

LEMMA ReleaseEndType ==
  ASSUME LocksTypeOK, NEW n \in Names, ReleaseEnd(n)
  PROVE  LocksTypeOK'
BY LocksAssumption DEF LocksTypeOK, ReleaseEnd

LEMMA ElapseType == LocksTypeOK /\ Elapse => LocksTypeOK'
<1> SUFFICES ASSUME LocksTypeOK, Elapse PROVE LocksTypeOK'
  OBVIOUS
<1>1. key' \in [Names -> Procs \cup {None}] /\ held' = held
  BY DEF LocksTypeOK, Elapse
<1>2. age' \in [Names -> 0..(TTL - 1)]
  BY LocksAssumption DEF LocksTypeOK, Elapse
<1> QED
  BY <1>1, <1>2 DEF LocksTypeOK

LEMMA LeaveType ==
  ASSUME TypeOK, BookInv, Counted, NEW t \in Tasks, task[t] \in Live, Leave(t)
  PROVE  /\ LocksTypeOK' /\ task' \in [Tasks -> States] /\ gauge' \in [Procs -> Nat]
         /\ handles' \in [Procs -> [Keys -> Tasks \cup {NoTask}]]
<1>1. Proc(t) \in Procs /\ Key(t) \in Keys /\ gauge[Proc(t)] - 1 \in Nat
  BY GaugePositive, HomeFacts DEF BookInv, Homes, Live
<1>2. LocksTypeOK'
  BY <1>1, ReleaseBeginType DEF TypeOK, Leave
<1>3. task' \in [Tasks -> States]
  BY GotoType DEF Leave, AfterTry, States
<1>4. gauge' \in [Procs -> Nat]
  BY <1>1 DEF TypeOK, Leave
<1>5. handles' \in [Procs -> [Keys -> Tasks \cup {NoTask}]]
  BY <1>1 DEF TypeOK, Leave
<1> QED
  BY <1>2, <1>3, <1>4, <1>5

LEMMA TypeStep == TypeOK /\ BookInv /\ Counted /\ [Next]_vars => TypeOK'
<1> SUFFICES ASSUME TypeOK, BookInv, Counted, [Next]_vars PROVE TypeOK'
  OBVIOUS
<1> USE LocksAssumption, WorkerPoolAssumption
<1>1. LocksTypeOK
  BY DEF TypeOK
<1>2. ASSUME NEW t \in Tasks, TaskStep(t) PROVE TypeOK'
  <2>1. task[t] \in Live \cup {"release"} => Proc(t) \in Procs /\ Key(t) \in Keys
    BY HomeFacts DEF BookInv, Homes, Live
  <2>2. CASE BecomeOwner(t)
    <3>1. LocksTypeOK'
      BY <1>1, <2>1, <2>2, AcquireType DEF BecomeOwner, Live, LocksTypeOK
    <3>2. task' \in [Tasks -> States]
      BY <2>2, GotoType DEF BecomeOwner, States
    <3> QED
      BY <2>2, <3>1, <3>2 DEF TypeOK, BecomeOwner
  <2>3. CASE OwnerError(t)
    <3>1. LocksTypeOK'
      BY <1>1, <2>1, <2>3, AcquireType DEF OwnerError, Live
    <3>2. task' \in [Tasks -> States]
      BY <2>3, GotoType DEF OwnerError, States
    <3> QED
      BY <2>3, <3>1, <3>2 DEF TypeOK, OwnerError
  <2>4. CASE WakeStandby(t) \/ WakeBackoff(t)
    <3>1. task' \in [Tasks -> States]
      BY <2>4, GotoType DEF WakeStandby, WakeBackoff, States
    <3> QED
      BY <2>4, <3>1 DEF TypeOK, LocksTypeOK, WakeStandby, WakeBackoff
  <2>5. CASE Check(t)
    <3>1. CASE KeepGoing(t)
      <4>1. task' \in [Tasks -> States]
        BY <2>5, <3>1, GotoType DEF Check, States
      <4> QED
        BY <2>5, <3>1, <4>1 DEF TypeOK, LocksTypeOK, Check, Stay
    <3>2. CASE ~KeepGoing(t)
      BY <2>5, <3>2, LeaveType DEF TypeOK, Check, Live
    <3> QED
      BY <3>1, <3>2
  <2>6. CASE BodyReturns(t)
    BY <2>6, LeaveType DEF TypeOK, BodyReturns, Live
  <2>7. CASE BodyCrashes(t)
    <3>1. CASE Key(t) \in Restart /\ t \notin asked
      <4>1. task' \in [Tasks -> States]
        BY <2>7, <3>1, GotoType DEF BodyCrashes, States
      <4> QED
        BY <2>7, <3>1, <4>1 DEF TypeOK, LocksTypeOK, BodyCrashes, Stay
    <3>2. CASE ~(Key(t) \in Restart /\ t \notin asked)
      <4>1. Leave(t)
        BY <2>7, <3>2 DEF BodyCrashes
      <4> QED
        BY <2>7, <4>1, LeaveType DEF TypeOK, BodyCrashes, Live
    <3> QED
      BY <3>1, <3>2
  <2>8. CASE ReleaseLock(t)
    <3>1. LocksTypeOK'
      BY <1>1, <2>1, <2>8, ReleaseEndType DEF ReleaseLock
    <3>2. task' \in [Tasks -> States]
      BY <2>8, GotoType DEF ReleaseLock, States
    <3> QED
      BY <2>8, <3>1, <3>2 DEF TypeOK, ReleaseLock
  <2>9. CASE OrphanEnds(t)
    BY <2>9 DEF TypeOK, LocksTypeOK, OrphanEnds
  <2> QED
    BY <1>2, <2>2, <2>3, <2>4, <2>5, <2>6, <2>7, <2>8, <2>9 DEF TaskStep
<1>3. ASSUME NEW p \in Procs, PoolStep(p) PROVE TypeOK'
  <2>1. ASSUME NEW k \in Keys, NEW t \in Tasks, Start(p, k, t) PROVE TypeOK'
    <3>1. task' \in [Tasks -> States]
      BY <2>1, GotoType DEF Start, States
    <3>2. home' \in [Tasks -> [proc : Procs, key : Keys] \cup {NoHome}]
      BY <2>1 DEF TypeOK, Start
    <3>3. handles' \in [Procs -> [Keys -> Tasks \cup {NoTask}]] /\ gauge' \in [Procs -> Nat]
      BY <2>1 DEF TypeOK, Start
    <3> QED
      BY <2>1, <3>1, <3>2, <3>3 DEF TypeOK, LocksTypeOK, Start
  <2>2. ASSUME NEW k \in Keys, StopCall(p, k) PROVE TypeOK'
    <3>1. handles[p][k] \in Tasks
      BY <2>2 DEF TypeOK, StopCall
    <3> QED
      BY <2>2, <3>1 DEF TypeOK, LocksTypeOK, StopCall
  <2>3. CASE StopAnswer(p)
    BY <2>3 DEF TypeOK, LocksTypeOK, StopAnswer
  <2>4. CASE StopAll(p)
    <3>1. {handles[p][k] : k \in Registered(p)} \subseteq Tasks
      BY DEF TypeOK, Registered
    <3> QED
      BY <2>4, <3>1 DEF TypeOK, LocksTypeOK, StopAll
  <2>5. CASE AllStopped(p)
    <3>1. LocksTypeOK'
      <4>1. CASE ReleaseBegin(p, LeftKeys(p))
        BY <1>1, <4>1, ReleaseBeginType
      <4>2. ASSUME NEW k \in Asking(p), Write(p, k),
                   held' = [held EXCEPT ![p] = @ \ LeftKeys(p)]
            PROVE  LocksTypeOK'
        <5>1. k \in Names
          BY PendingFacts DEF Asking
        <5>2. held' \in [Procs -> SUBSET Names]
          BY <1>1, <4>2 DEF LocksTypeOK
        <5> QED
          BY <1>1, <4>2, <5>1, <5>2, WriteType DEF LocksTypeOK
      <4> QED
        BY <2>5, <4>1, <4>2, AllStoppedIs
    <3>2. task' \in [Tasks -> States]
      BY <2>5, AllStoppedIs DEF TypeOK, AfterTry, States
    <3>3. gauge' \in [Procs -> Nat]
      BY <2>5, AllStoppedIs, TriedCount DEF TypeOK
    <3>4. orphans' \subseteq Tasks
      <4>1. Tried(p) \subseteq Tasks /\ orphans \subseteq Tasks
        BY PendingFacts DEF TypeOK, Tried
      <4> QED
        BY <2>5, <4>1, AllStoppedIs
    <3>5. handles' \in [Procs -> [Keys -> Tasks \cup {NoTask}]]
      BY <2>5, AllStoppedIs DEF TypeOK
    <3> QED
      BY <2>5, <3>1, <3>2, <3>3, <3>4, <3>5, AllStoppedIs DEF TypeOK
  <2>6. CASE Crash(p)
    <3>1. LocksTypeOK'
      BY <1>1, <2>6 DEF Crash, Vanish, LocksTypeOK
    <3>2. task' \in [Tasks -> States]
      BY <2>6 DEF TypeOK, Crash, States
    <3> QED
      BY <2>6, <3>1, <3>2 DEF TypeOK, Crash
  <2> QED
    BY <1>3, <2>1, <2>2, <2>3, <2>4, <2>5, <2>6 DEF PoolStep
<1>4. CASE Tick
  <2>1. LocksTypeOK'
    BY <1>1, <1>4, ElapseType DEF Tick
  <2> QED
    BY <1>4, <2>1 DEF TypeOK, Tick
<1>5. CASE UNCHANGED vars
  BY <1>5 DEF TypeOK, LocksTypeOK
<1> QED
  BY <1>2, <1>3, <1>4, <1>5 DEF Next

(***************************************************************************)
(* The theorems about the book.                                            *)
(***************************************************************************)
PoolInv == TypeOK /\ BookInv /\ Counted

LEMMA PoolInit == Init => PoolInv
<1> SUFFICES ASSUME Init PROVE PoolInv
  OBVIOUS
<1>1. TypeOK
  BY LocksAssumption, WorkerPoolAssumption DEF Init, TypeOK, LocksInit, LocksTypeOK, States
<1>2. BookInv
  BY DEF Init, BookInv, Homes, Entries, Booked, Abandoned, Live
<1>3. Counted
  <2>1. \A p \in Procs : Registered(p) = {} /\ LiveOf(p) = {} /\ gauge[p] = 0
    BY DEF Init, Registered, LiveOf, Live
  <2> QED
    BY <2>1, FS_EmptySet, WorkerPoolAssumption DEF Counted
<1> QED
  BY <1>1, <1>2, <1>3 DEF PoolInv

LEMMA PoolInvariant == Spec => []PoolInv
<1>1. PoolInv /\ [Next]_vars => PoolInv'
  BY TypeStep, BookStep, CountedStep DEF PoolInv
<1> QED
  BY <1>1, PoolInit, PTL DEF Spec

(* Every reachable state has the types of TypeOK: among others, the        *)
(* workers_running metric never falls below zero, although every finally   *)
(* block and the end of stop_all count down.                               *)
THEOREM TypeCorrect == Spec => []TypeOK
BY PoolInvariant, PTL DEF PoolInv

(* A worker that runs can be stopped: start, stop, crashes, restarts and   *)
(* the finally blocks, in any order, never take its entry from the book.   *)
THEOREM StoppableHolds == Spec => []Stoppable
<1>1. PoolInv => Stoppable
  <2> SUFFICES ASSUME PoolInv, NEW t \in Tasks, Running(t), task[t] # "release"
               PROVE  handles[Proc(t)][Key(t)] = t
    BY DEF Stoppable
  <2>1. task[t] \in Live
    BY DEF PoolInv, TypeOK, States, Running, Live
  <2> QED
    BY <2>1 DEF PoolInv, BookInv, Booked
<1> QED
  BY <1>1, PoolInvariant, PTL

-----------------------------------------------------------------------------
(***************************************************************************)
(* The locks of single workers.  A process owns the keys it holds, holds   *)
(* the key of every body it supervises, and while the DELETE of a release  *)
(* is on its way the key still stands for that process and nobody holds it *)
(* (Leaving), so that the DELETE harms no other owner.  Nothing renews a   *)
(* key: with RedisLock all this lasts while no key reaches its time to     *)
(* live, which is what NoExpiry says of the bound on Redis time.           *)
(***************************************************************************)
NoExpiry == Kind = "file" \/ Patience < TTL

Owned == \A p \in Procs, n \in Names : n \in held[p] => key[n] = p

Covered ==
  \A t \in Tasks : task[t] \in InTry /\ Key(t) \in Single => Key(t) \in held[Proc(t)]

Leaving ==
  \A t \in Tasks : task[t] = "release" =>
    /\ Kind = "redis" /\ key[Key(t)] = Proc(t) /\ Key(t) \notin held[Proc(t)]
    /\ \A u \in Tasks : task[u] = "release" /\ Key(u) = Key(t) => u = t

Young == \A n \in Names : age[n] <= ticks

SingleInv == Owned /\ Covered /\ Leaving /\ Young

(* A task that has a home knows its process and key.                       *)
LEMMA BusyFacts ==
  ASSUME TypeOK, BookInv, NEW t \in Tasks, task[t] # "unused"
  PROVE  Proc(t) \in Procs /\ Key(t) \in Names
BY HomeFacts DEF BookInv, Homes

(* A step that leaves the locks alone and puts no task into a try block.   *)
LEMMA QuietSingle ==
  ASSUME TypeOK, SingleInv, UNCHANGED <<lockVars, ticks>>,
         \A t \in Tasks : /\ (Proc(t)' = Proc(t) /\ Key(t)' = Key(t)) \/ task[t] = "unused"
                          /\ task'[t] \in InTry => task[t] \in InTry
                                                  \/ (task[t] = "unused" /\ Key(t)' \notin Single)
                          /\ task'[t] = "release" => task[t] = "release"
  PROVE  SingleInv'
<1>1. Owned' /\ Young'
  BY DEF SingleInv, Owned, Young
<1>2. Covered'
  BY DEF SingleInv, Covered, InTry
<1>3. Leaving'
  BY DEF SingleInv, Leaving
<1> QED
  BY <1>1, <1>2, <1>3 DEF SingleInv

(* A process takes a key that is free: no body and no release has it.      *)
LEMMA TakeSingle ==
  ASSUME TypeOK, BookInv, SingleInv, NEW p \in Procs, NEW n \in Names,
         key[n] = None, Write(p, n), ticks' = ticks,
         \/ held' = [held EXCEPT ![p] = @ \cup {n}]
         \/ \E S : held' = [held EXCEPT ![p] = @ \ S]
  PROVE  /\ Owned' /\ Young'
         /\ \A t \in Tasks : task[t] = "release" => /\ Key(t) # n
                                                   /\ key'[Key(t)] = key[Key(t)]
         /\ \A q \in Procs, m \in Names : m # n => (m \in held'[q] => m \in held[q])
<1>1. LocksTypeOK /\ ticks \in Nat
  BY WorkerPoolAssumption DEF TypeOK
<1>2. Owned'
  BY <1>1, LocksAssumption DEF SingleInv, Owned, Write, LocksTypeOK
<1>3. Young'
  BY <1>1, LocksAssumption DEF SingleInv, Young, Write, LocksTypeOK
<1>4. \A t \in Tasks : task[t] = "release" => Key(t) \in Names /\ key[Key(t)] \in Procs
  BY BusyFacts DEF SingleInv, Leaving
<1>5. \A t \in Tasks : task[t] = "release" => Key(t) # n /\ key'[Key(t)] = key[Key(t)]
  BY <1>1, <1>4, LocksAssumption DEF Write, LocksTypeOK
<1>6. \A q \in Procs, m \in Names : m # n => (m \in held'[q] => m \in held[q])
  BY <1>1 DEF LocksTypeOK
<1> QED
  BY <1>2, <1>3, <1>5, <1>6

(* The task wins the lock of its key and enters its try block.             *)
LEMMA OwnerSingle ==
  ASSUME TypeOK, BookInv, SingleInv, NEW t \in Tasks, BecomeOwner(t)
  PROVE  SingleInv'
<1>1. /\ task[t] = "contend" /\ Proc(t) \in Procs /\ Key(t) \in Names
      /\ \A u \in Tasks : Proc(u)' = Proc(u) /\ Key(u)' = Key(u)
  BY BusyFacts DEF BecomeOwner, Proc, Key
<1>2. ASSUME NEW s \in {"check", "standby", "done"}, Goto(t, s), UNCHANGED lockVars,
             s = "check" => Key(t) \in held[Proc(t)]
      PROVE  SingleInv'
  <2>1. \A u \in Tasks : task'[u] = IF u = t THEN s ELSE task[u]
    BY <1>2 DEF TypeOK, Goto
  <2>2. UNCHANGED <<key, age, held, ticks>>
    BY <1>2 DEF BecomeOwner
  <2>3. Owned' /\ Young'
    BY <2>2 DEF SingleInv, Owned, Young
  <2>4. Covered'
    BY <1>1, <1>2, <2>1, <2>2 DEF SingleInv, Covered, InTry
  <2>5. Leaving'
    BY <1>1, <2>1, <2>2 DEF SingleInv, Leaving
  <2> QED
    BY <2>3, <2>4, <2>5 DEF SingleInv
<1>3. ASSUME Goto(t, "check"), key[Key(t)] = None, Write(Proc(t), Key(t)),
             held' = [held EXCEPT ![Proc(t)] = @ \cup {Key(t)}]
      PROVE  SingleInv'
  <2>1. \A u \in Tasks : task'[u] = IF u = t THEN "check" ELSE task[u]
    BY <1>3 DEF TypeOK, Goto
  <2>2. ticks' = ticks
    BY DEF BecomeOwner
  <2>3. /\ Owned' /\ Young'
        /\ \A u \in Tasks : task[u] = "release" => /\ Key(u) # Key(t)
                                                  /\ key'[Key(u)] = key[Key(u)]
        /\ \A q \in Procs, m \in Names : m # Key(t) => (m \in held'[q] => m \in held[q])
    BY <1>1, <1>3, <2>2, TakeSingle
  <2>4. Key(t) \in held'[Proc(t)] /\ \A q \in Procs : held[q] \subseteq held'[q]
    BY <1>1, <1>3 DEF TypeOK, LocksTypeOK
  <2>5. Covered'
    <3> SUFFICES ASSUME NEW u \in Tasks, task'[u] \in InTry, Key(u) \in Single
                 PROVE  Key(u) \in held'[Proc(u)]
      BY <1>1 DEF Covered
    <3>1. CASE u = t
      BY <2>4, <3>1
    <3>2. CASE u # t
      <4>1. task[u] \in InTry /\ Key(u) \in held[Proc(u)] /\ Proc(u) \in Procs
        BY <2>1, <3>2, BusyFacts DEF SingleInv, Covered, InTry
      <4> QED
        BY <2>4, <4>1
    <3> QED
      BY <3>1, <3>2
  <2>6. Leaving'
    <3> SUFFICES ASSUME NEW u \in Tasks, task'[u] = "release"
                 PROVE  /\ Kind = "redis" /\ key'[Key(u)] = Proc(u)
                        /\ Key(u) \notin held'[Proc(u)]
                        /\ \A v \in Tasks : task'[v] = "release" /\ Key(v) = Key(u) => v = u
      BY <1>1 DEF Leaving
    <3>1. task[u] = "release" /\ Proc(u) \in Procs /\ Key(u) \in Names
      BY <2>1, BusyFacts
    <3> QED
      BY <2>1, <2>3, <3>1 DEF SingleInv, Leaving
  <2> QED
    BY <2>3, <2>5, <2>6 DEF SingleInv
<1> QED
  BY <1>2, <1>3 DEF BecomeOwner, AcquireOk, AcquireNo

(* A set of tasks of one process leaves, each through its finally block.   *)
LEMMA LeaveSetSingle ==
  ASSUME TypeOK, BookInv, SingleInv, NEW p \in Procs, NEW L \in SUBSET Tasks,
         \A t \in L : Proc(t) = p /\ task[t] \in InTry /\ task'[t] = AfterTry(t),
         \A t \in Tasks \ L : task'[t] \in {task[t], "done"},
         UNCHANGED <<home, ticks>>,
         NEW S, S = {Key(t) : t \in L} \cap Single,
         \/ ReleaseBegin(p, S)
         \/ /\ Kind = "redis"
            /\ \E k \in Names : key[k] = None /\ Write(p, k)
            /\ held' = [held EXCEPT ![p] = @ \ S]
  PROVE  SingleInv'
<1>1. LocksTypeOK /\ \A t \in Tasks : Proc(t)' = Proc(t) /\ Key(t)' = Key(t)
  BY DEF TypeOK, Proc, Key
<1>2. S \subseteq held[p] /\ S \subseteq Names
  BY <1>1 DEF SingleInv, Covered, LocksTypeOK
<1>3. held' = [held EXCEPT ![p] = @ \ S]
  BY DEF ReleaseBegin
<1>4. \A q \in Procs : held'[q] = IF q = p THEN held[q] \ S ELSE held[q]
  BY <1>1, <1>3 DEF LocksTypeOK
<1>5. \A t, u \in Tasks : /\ t # u /\ Proc(t) = Proc(u) /\ Key(t) = Key(u)
                         /\ task[t] \in InTry => task[u] \notin InTry
  BY DEF BookInv, Booked, InTry, Live
<1>6. \A t \in Tasks : task[t] = "release" =>
        /\ Kind = "redis" /\ key[Key(t)] = Proc(t) /\ Proc(t) \in Procs /\ Key(t) \in Names
        /\ \A q \in Procs : Key(t) \notin held[q]
  BY BusyFacts DEF SingleInv, Leaving, Owned
<1>7. Kind = "redis" => /\ \A n \in Names : key[n] # None => key'[n] = key[n]
                        /\ \A n \in Names : age'[n] \in {age[n], 0}
  BY <1>1, LocksAssumption DEF ReleaseBegin, Write, LocksTypeOK
<1>8. Covered'
  <2> SUFFICES ASSUME NEW u \in Tasks, task'[u] \in InTry, Key(u) \in Single
               PROVE  Key(u) \in held'[Proc(u)]
    BY <1>1 DEF Covered
  <2>1. u \notin L /\ task[u] \in InTry
    BY DEF AfterTry, InTry
  <2>2. Proc(u) \in Procs /\ Key(u) \in held[Proc(u)]
    BY <2>1, BusyFacts DEF SingleInv, Covered, InTry
  <2>3. Proc(u) = p => Key(u) \notin S
    BY <1>5, <2>1
  <2> QED
    BY <1>4, <2>2, <2>3
<1>9. CASE Kind = "file"
  <2>1. key' = [n \in Names |-> IF n \in S THEN None ELSE key[n]] /\ age' = age
    BY <1>2, <1>9 DEF ReleaseBegin
  <2>2. Owned' /\ Young'
    BY <1>1, <1>2, <1>4, <2>1 DEF SingleInv, Owned, Young
  <2>3. Leaving'
    BY <1>6, <1>9, LocksAssumption DEF Leaving, AfterTry
  <2> QED
    BY <1>8, <2>2, <2>3 DEF SingleInv
<1>10. CASE Kind = "redis"
  <2>1. Owned'
    BY <1>1, <1>4, <1>7, <1>10, LocksAssumption DEF SingleInv, Owned
  <2>2. Young'
    BY <1>1, <1>7, <1>10, WorkerPoolAssumption DEF SingleInv, Young, TypeOK
  <2>3. ASSUME NEW u \in Tasks, task'[u] = "release", u \in L
        PROVE  /\ key'[Key(u)] = Proc(u) /\ Key(u) \notin held'[Proc(u)]
               /\ Key(u) \in S
    <3>1. Key(u) \in S /\ Key(u) \in held[p] /\ Key(u) \in Names
      BY <1>2, <2>3 DEF AfterTry
    <3>2. key[Key(u)] = p
      BY <3>1 DEF SingleInv, Owned
    <3> QED
      BY <1>4, <1>7, <1>10, <2>3, <3>1, <3>2, LocksAssumption
  <2>4. ASSUME NEW u \in Tasks, task'[u] = "release", u \notin L
        PROVE  /\ task[u] = "release" /\ key'[Key(u)] = Proc(u) /\ Key(u) \notin held'[Proc(u)]
               /\ Key(u) \notin S
    <3>1. task[u] = "release"
      BY <2>4
    <3> QED
      BY <1>2, <1>4, <1>6, <1>7, <1>10, <3>1, LocksAssumption
  <2>5. \A u, v \in Tasks : task'[u] = "release" /\ task'[v] = "release" /\ Key(v) = Key(u) => v = u
    BY <1>5, <2>3, <2>4 DEF SingleInv, Leaving
  <2>6. Leaving'
    BY <1>1, <1>10, <2>3, <2>4, <2>5 DEF Leaving
  <2> QED
    BY <1>8, <2>1, <2>2, <2>6 DEF SingleInv
<1> QED
  BY <1>9, <1>10, LocksAssumption

LEMMA LeaveSingle ==
  ASSUME TypeOK, BookInv, SingleInv, NEW t \in Tasks, task[t] \in InTry, Leave(t),
         UNCHANGED <<home, ticks>>
  PROVE  SingleInv'
<1> DEFINE p == Proc(t)
           L == {t}
           S == {Key(t)} \cap Single
<1>1. p \in Procs /\ S = {Key(u) : u \in L} \cap Single
  BY BusyFacts DEF InTry
<1>2. \A u \in L : Proc(u) = p /\ task[u] \in InTry /\ task'[u] = AfterTry(u)
  BY DEF TypeOK, Leave, Goto
<1>3. \A u \in Tasks \ L : task'[u] \in {task[u], "done"}
  BY DEF TypeOK, Leave, Goto
<1>4. ReleaseBegin(p, S)
  BY DEF Leave
<1> HIDE DEF p, L, S
<1>5. L \in SUBSET Tasks
  BY DEF L
<1> QED
  BY <1>1, <1>2, <1>3, <1>4, <1>5, LeaveSetSingle

LEMMA AllStoppedSingle ==
  ASSUME TypeOK, BookInv, SingleInv, NEW p \in Procs, AllStopped(p)
  PROVE  SingleInv'
<1>1. /\ Tried(p) \in SUBSET Tasks /\ Pending(p) \subseteq Tasks
      /\ \A t \in Tried(p) : Proc(t) = p /\ task[t] \in InTry
  BY PendingFacts DEF Tried
<1>2. \A t \in Tried(p) : task'[t] = AfterTry(t)
  BY <1>1, AllStoppedIs
<1>3. \A t \in Tasks \ Tried(p) : task'[t] \in {task[t], "done"}
  BY AllStoppedIs
<1>4. Asking(p) \subseteq Names /\ LeftKeys(p) = {Key(t) : t \in Tried(p)} \cap Single
  BY PendingFacts DEF Asking, LeftKeys
<1>5. UNCHANGED <<home, ticks>>
  BY AllStoppedIs
<1>6. \/ ReleaseBegin(p, LeftKeys(p))
      \/ /\ Kind = "redis"
         /\ \E k \in Names : key[k] = None /\ Write(p, k)
         /\ held' = [held EXCEPT ![p] = @ \ LeftKeys(p)]
  BY <1>4, AllStoppedIs
<1> QED
  BY <1>1, <1>2, <1>3, <1>4, <1>5, <1>6, LeaveSetSingle

(* The DELETE of a release removes a key that no process holds.            *)
LEMMA ReleaseSingle ==
  ASSUME TypeOK, BookInv, SingleInv, NEW t \in Tasks, ReleaseLock(t)
  PROVE  SingleInv'
<1>1. /\ task[t] = "release" /\ Proc(t) \in Procs /\ Key(t) \in Names
      /\ \A u \in Tasks : Proc(u)' = Proc(u) /\ Key(u)' = Key(u)
  BY BusyFacts DEF ReleaseLock, Proc, Key
<1>2. \A u \in Tasks : task'[u] = IF u = t THEN "done" ELSE task[u]
  BY DEF TypeOK, ReleaseLock, Goto
<1>3. held' = held /\ ticks' = ticks
  BY DEF ReleaseLock, ReleaseEnd
<1>4. \A n \in Names \ {Key(t)} : key'[n] = key[n] /\ age'[n] = age[n]
  BY DEF ReleaseLock, ReleaseEnd, TypeOK, LocksTypeOK
<1>5. \A q \in Procs : Key(t) \notin held[q]
  BY <1>1 DEF SingleInv, Leaving, Owned
<1>6. Owned'
  BY <1>1, <1>3, <1>4, <1>5 DEF SingleInv, Owned, TypeOK, LocksTypeOK
<1>7. Young'
  BY <1>1, <1>3 DEF SingleInv, Young, ReleaseLock, ReleaseEnd, TypeOK, LocksTypeOK
<1>8. Covered'
  BY <1>1, <1>2, <1>3 DEF SingleInv, Covered, InTry
<1>9. Leaving'
  <2> SUFFICES ASSUME NEW u \in Tasks, task'[u] = "release"
               PROVE  /\ Kind = "redis" /\ key'[Key(u)] = Proc(u) /\ Key(u) \notin held'[Proc(u)]
                      /\ \A v \in Tasks : task'[v] = "release" /\ Key(v) = Key(u) => v = u
    BY <1>1 DEF Leaving
  <2>1. u # t /\ task[u] = "release" /\ Key(u) \in Names
    BY <1>2, BusyFacts
  <2>2. Key(u) # Key(t)
    BY <1>1, <2>1 DEF SingleInv, Leaving
  <2> QED
    BY <1>2, <1>3, <1>4, <2>1, <2>2 DEF SingleInv, Leaving
<1> QED
  BY <1>6, <1>7, <1>8, <1>9 DEF SingleInv

LEMMA CrashSingle ==
  ASSUME TypeOK, BookInv, SingleInv, NEW p \in Procs, Crash(p)
  PROVE  SingleInv'
<1>1. /\ \A t \in Tasks : Proc(t)' = Proc(t) /\ Key(t)' = Key(t)
      /\ task' = [t \in Tasks |-> IF Proc(t) = p THEN "done" ELSE task[t]]
      /\ age' = age /\ ticks' = ticks
  BY DEF Crash, Vanish, Proc, Key
<1>2. \A q \in Procs : held'[q] = IF q = p THEN {} ELSE held[q]
  BY DEF Crash, Vanish, TypeOK, LocksTypeOK
<1>3. \A n \in Names : key[n] # p \/ Kind = "redis" => key'[n] = key[n]
  BY LocksAssumption DEF Crash, Vanish, TypeOK, LocksTypeOK
<1>4. Owned' /\ Young'
  BY <1>1, <1>2, <1>3 DEF SingleInv, Owned, Young
<1>5. ASSUME NEW t \in Tasks, task'[t] \in InTry \cup {"release"}
      PROVE  task'[t] = task[t] /\ Proc(t) \in Procs \ {p} /\ Key(t) \in Names
  BY <1>1, <1>5, BusyFacts DEF InTry
<1>6. Covered'
  BY <1>1, <1>2, <1>5 DEF SingleInv, Covered
<1>7. Leaving'
  BY <1>1, <1>2, <1>3, <1>5 DEF SingleInv, Leaving
<1> QED
  BY <1>4, <1>6, <1>7 DEF SingleInv

(* A command that raised may have written the key of nobody.               *)
LEMMA ErrorSingle ==
  ASSUME TypeOK, BookInv, SingleInv, NEW t \in Tasks, OwnerError(t)
  PROVE  SingleInv'
<1>1. /\ task[t] = "contend" /\ Proc(t) \in Procs /\ Key(t) \in Names
      /\ \A u \in Tasks : Proc(u)' = Proc(u) /\ Key(u)' = Key(u)
  BY BusyFacts DEF OwnerError, Proc, Key
<1>2. \A u \in Tasks : task'[u] \in {task[u], "done"}
  BY DEF TypeOK, OwnerError, Goto
<1>3. ticks' = ticks /\ held' = held
  BY DEF OwnerError, AcquireError
<1>4. CASE UNCHANGED lockVars
  <2>1. \A u \in Tasks : /\ task'[u] \in InTry => task[u] \in InTry
                         /\ task'[u] = "release" => task[u] = "release"
    BY <1>2 DEF InTry
  <2> QED
    BY <1>1, <1>3, <1>4, <2>1, QuietSingle
<1>5. CASE key[Key(t)] = None /\ Write(Proc(t), Key(t)) /\ Kind = "redis"
  <2> DEFINE L == {}
             S == {}
  <2>1. held' = [held EXCEPT ![Proc(t)] = @ \ S]
    BY <1>3 DEF TypeOK, LocksTypeOK
  <2>2. S = {Key(u) : u \in L} \cap Single /\ L \in SUBSET Tasks
    OBVIOUS
  <2>3. /\ \A u \in L : Proc(u) = Proc(t) /\ task[u] \in InTry /\ task'[u] = AfterTry(u)
        /\ \A u \in Tasks \ L : task'[u] \in {task[u], "done"}
    BY <1>2
  <2>4. UNCHANGED <<home, ticks>>
    BY DEF OwnerError
  <2> HIDE DEF L, S
  <2> QED
    BY <1>1, <1>5, <2>1, <2>2, <2>3, <2>4, LeaveSetSingle
<1> QED
  BY <1>4, <1>5 DEF OwnerError, AcquireError

(* No key of a process reaches its time to live.                           *)
LEMMA TickSingle ==
  ASSUME NoExpiry, TypeOK, BookInv, SingleInv, Tick
  PROVE  SingleInv'
<1>1. Kind = "redis" /\ Patience < TTL /\ ticks < Patience /\ ticks' = ticks + 1
  BY DEF Tick, NoExpiry
<1>2. LocksTypeOK /\ ticks \in Nat
  BY WorkerPoolAssumption DEF TypeOK
<1>3. \A n \in Names : age[n] + 1 < TTL
  BY <1>1, <1>2, LocksAssumption, WorkerPoolAssumption DEF SingleInv, Young, LocksTypeOK
<1>4. \A n \in Names : key'[n] = key[n] /\ age'[n] \in {0, age[n] + 1}
  BY <1>2, <1>3 DEF Tick, Elapse, LocksTypeOK
<1>5. UNCHANGED <<held, task, home>>
  BY DEF Tick, Elapse
<1>6. Owned' /\ Covered'
  BY <1>4, <1>5 DEF SingleInv, Owned, Covered, Proc, Key
<1>7. Young'
  BY <1>1, <1>2, <1>4 DEF SingleInv, Young, LocksTypeOK
<1>8. \A t \in Tasks : task[t] = "release" => Key(t) \in Names
  BY BusyFacts
<1>9. Leaving'
  BY <1>4, <1>5, <1>8 DEF SingleInv, Leaving, Proc, Key
<1> QED
  BY <1>6, <1>7, <1>9 DEF SingleInv

LEMMA SingleStep ==
  ASSUME NoExpiry, TypeOK, BookInv, SingleInv, [Next]_vars
  PROVE  SingleInv'
<1>1. ASSUME NEW t \in Tasks, NEW s \in States, task[t] # "unused", Goto(t, s),
             s # "release", s \in InTry => task[t] \in InTry,
             UNCHANGED <<home, lockVars, ticks>>
      PROVE  SingleInv'
  <2>1. \A u \in Tasks : /\ Proc(u)' = Proc(u) /\ Key(u)' = Key(u)
                         /\ task'[u] = IF u = t THEN s ELSE task[u]
    BY <1>1 DEF TypeOK, Goto, Proc, Key
  <2> QED
    BY <1>1, <2>1, QuietSingle
<1>2. ASSUME NEW t \in Tasks, TaskStep(t) PROVE SingleInv'
  <2>1. CASE BecomeOwner(t)
    BY <2>1, OwnerSingle
  <2>2. CASE OwnerError(t)
    BY <2>2, ErrorSingle
  <2>3. CASE WakeStandby(t) \/ WakeBackoff(t)
    BY <1>1, <2>3 DEF WakeStandby, WakeBackoff, States, InTry
  <2>4. CASE Check(t)
    <3>1. CASE KeepGoing(t)
      BY <1>1, <2>4, <3>1 DEF Check, Stay, States, InTry
    <3>2. CASE ~KeepGoing(t)
      BY <2>4, <3>2, LeaveSingle DEF Check, InTry
    <3> QED
      BY <3>1, <3>2
  <2>5. CASE BodyReturns(t)
    BY <2>5, LeaveSingle DEF BodyReturns, InTry
  <2>6. CASE BodyCrashes(t)
    <3>1. CASE Key(t) \in Restart /\ t \notin asked
      BY <1>1, <2>6, <3>1 DEF BodyCrashes, Stay, States, InTry
    <3>2. CASE ~(Key(t) \in Restart /\ t \notin asked)
      BY <2>6, <3>2, LeaveSingle DEF BodyCrashes, InTry
    <3> QED
      BY <3>1, <3>2
  <2>7. CASE ReleaseLock(t)
    BY <2>7, ReleaseSingle
  <2>8. CASE OrphanEnds(t)
    BY <2>8, QuietSingle DEF OrphanEnds, Proc, Key
  <2> QED
    BY <1>2, <2>1, <2>2, <2>3, <2>4, <2>5, <2>6, <2>7, <2>8 DEF TaskStep
<1>3. ASSUME NEW p \in Procs, PoolStep(p) PROVE SingleInv'
  <2>1. ASSUME NEW k \in Keys, NEW t \in Tasks, Start(p, k, t) PROVE SingleInv'
    <3>1. /\ task[t] = "unused" /\ home' = [home EXCEPT ![t] = [proc |-> p, key |-> k]]
          /\ task' = [task EXCEPT ![t] = IF k \in Single THEN "contend" ELSE "check"]
          /\ UNCHANGED <<lockVars, ticks>>
      BY <2>1 DEF Start, Goto
    <3>2. Key(t)' = k /\ task'[t] = IF k \in Single THEN "contend" ELSE "check"
      BY <3>1 DEF TypeOK, Key
    <3>3. \A u \in Tasks : u # t => /\ Proc(u)' = Proc(u) /\ Key(u)' = Key(u)
                                    /\ task'[u] = task[u]
      BY <3>1 DEF TypeOK, Proc, Key
    <3> QED
      BY <3>1, <3>2, <3>3, QuietSingle DEF InTry
  <2>2. CASE AllStopped(p)
    BY <2>2, AllStoppedSingle
  <2>3. CASE Crash(p)
    BY <2>3, CrashSingle
  <2>4. CASE UNCHANGED <<home, task, lockVars, ticks>>
    BY <2>4, QuietSingle DEF Proc, Key
  <2> QED
    BY <1>3, <2>1, <2>2, <2>3, <2>4 DEF PoolStep, StopCall, StopAnswer, StopAll
<1>4. CASE Tick
  BY <1>4, TickSingle
<1>5. CASE UNCHANGED <<home, task, lockVars, ticks>>
  BY <1>5, QuietSingle DEF Proc, Key
<1> QED
  BY <1>2, <1>3, <1>4, <1>5 DEF Next

-----------------------------------------------------------------------------
(***************************************************************************)
(* The three parts of Exclusive follow from the invariants.                *)
(***************************************************************************)
LEMMA OneBody == PoolInv => OneBodyPerKey
<1> SUFFICES ASSUME PoolInv, NEW p \in Procs, NEW k \in Keys
             PROVE  Cardinality(Bodies(p, k)) <= 1
  BY DEF OneBodyPerKey
<1> USE DEF PoolInv, BookInv
<1>1. ASSUME NEW t \in Bodies(p, k), NEW u \in Bodies(p, k) PROVE t = u
  <2>1. t \in Tasks /\ u \in Tasks /\ Proc(t) = p /\ Proc(u) = p /\ Key(t) = k /\ Key(u) = k
    BY DEF Bodies
  <2>2. ASSUME NEW v \in Tasks, Proc(v) = p, Key(v) = k, task[v] = "body"
        PROVE  handles[p][k] = v /\ phase[p] # "stopped"
    <3>1. handles[p][k] = v /\ v # NoTask
      BY <2>2, TaskFacts DEF Booked, Live
    <3>2. phase[p] \in {"up", "closing"}
      BY <3>1 DEF Entries
    <3> QED
      BY <3>1, <3>2
  <2>3. ASSUME NEW v \in Tasks, Proc(v) = p, v \in orphans
        PROVE  phase[p] = "stopped" /\ home[v] # NoHome
    BY <2>3 DEF Abandoned
  <2>4. CASE t \in orphans /\ u \in orphans
    <3>1. home[t] = [proc |-> p, key |-> k] /\ home[u] = [proc |-> p, key |-> k]
      BY <2>1, <2>3, <2>4, HomeFacts
    <3> QED
      BY <2>4, <3>1 DEF Abandoned
  <2> QED
    BY <2>1, <2>2, <2>3, <2>4 DEF Bodies
<1>2. CASE Bodies(p, k) = {}
  BY <1>2, FS_EmptySet
<1>3. CASE Bodies(p, k) # {}
  <2>1. PICK t : Bodies(p, k) = {t}
    BY <1>1, <1>3
  <2>2. Cardinality(Bodies(p, k)) = 1
    BY <2>1, FS_Singleton
  <2> QED
    BY <2>2
<1> QED
  BY <1>2, <1>3

LEMMA Limit == PoolInv => WithinLimit
<1> SUFFICES ASSUME PoolInv, NEW p \in Procs
             PROVE  Cardinality(LiveOf(p)) <= MaxInstances
  BY DEF WithinLimit, LiveOf, Live
<1> USE DEF PoolInv, BookInv
<1> DEFINE f == [t \in LiveOf(p) |-> Key(t)]
<1>1. ASSUME NEW t \in LiveOf(p)
      PROVE  Key(t) \in Registered(p) /\ handles[p][Key(t)] = t
  BY HomeFacts, TaskFacts DEF LiveOf, Live, Booked, Homes, Registered
<1>2. f \in Injection(LiveOf(p), Registered(p))
  BY <1>1 DEF Injection, IsInjective
<1>3. IsFiniteSet(Registered(p)) /\ Cardinality(Registered(p)) <= MaxInstances
  BY DEF Counted
<1>4. Cardinality(LiveOf(p)) <= Cardinality(Registered(p))
  <2> HIDE DEF f
  <2> QED
    BY <1>2, <1>3, FS_Injection
<1> QED
  BY <1>3, <1>4, LiveCount, FS_CardinalityType, WorkerPoolAssumption

LEMMA OneProc == PoolInv /\ SingleInv => OneProcess
<1> SUFFICES ASSUME PoolInv, SingleInv, NEW k \in Single, NEW p \in Procs, NEW q \in Procs,
                    orphans = {}, NEW t \in Bodies(p, k), NEW u \in Bodies(q, k)
             PROVE  p = q
  BY DEF OneProcess
<1>1. k \in held[p] /\ k \in held[q] /\ k \in Names
  BY WorkerPoolAssumption DEF Bodies, SingleInv, Covered, InTry
<1> QED
  BY <1>1 DEF SingleInv, Owned

(* One body per key and the limit on instances hold whatever lock is used. *)
THEOREM OnePerKey == Spec => [](OneBodyPerKey /\ WithinLimit)
BY OneBody, Limit, PoolInvariant, PTL

(* A worker of single=True runs in one process, one body per key, within   *)
(* the limit: with FileLock always, with RedisLock while no key expires.   *)
THEOREM ExclusiveHolds == ASSUME NoExpiry PROVE Spec => []Exclusive
<1> DEFINE Inv == PoolInv /\ SingleInv
<1>1. Init => Inv
  <2>1. Init => SingleInv
    BY WorkerPoolAssumption
       DEF Init, LocksInit, SingleInv, Owned, Covered, Leaving, Young, InTry
  <2> QED
    BY <2>1, PoolInit
<1>2. Inv /\ [Next]_vars => Inv'
  BY TypeStep, BookStep, CountedStep, SingleStep DEF PoolInv
<1>3. Inv => Exclusive
  BY OneBody, Limit, OneProc DEF Exclusive
<1> HIDE DEF Inv
<1> QED
  BY <1>1, <1>2, <1>3, PTL DEF Spec
=============================================================================
