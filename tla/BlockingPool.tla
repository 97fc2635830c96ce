---------------------------- MODULE BlockingPool ----------------------------
(***************************************************************************)
(* The thread pool behind ctx.blocking() (core/workers.py). The event loop *)
(* puts a call in the queue and then looks, under the lock, whether to     *)
(* open one more thread; the threads count themselves idle around get().   *)
(* Between any two of these steps the other threads run.                   *)
(***************************************************************************)
EXTENDS Integers, FiniteSets, Sequences

CONSTANTS NONE,         \* what shutdown() puts in the queue
          Size, Calls,  \* pool size, number of calls submitted
          Stuck         \* calls whose function never returns

PoolAssumption == Size \in Nat /\ Calls \in Nat /\ NONE \notin 1..Calls

VARIABLES queue, idle, closed,
          threads,      \* one record [at, call] per thread opened
          growing,      \* TRUE between the put and _grow of a submit()
          future        \* call -> "new", "queued", "running", "cancelled", "done"

vars == << queue, idle, closed, threads, growing, future >>

Init == /\ queue = << >> /\ idle = 0 /\ closed = FALSE /\ threads = << >>
        /\ growing = FALSE /\ future = [c \in 1..Calls |-> "new"]

At(i, at) == i \in DOMAIN threads /\ threads[i].at = at
Go(i, at, c) == threads' = [threads EXCEPT ![i] = [at |-> at, call |-> c]]

(* submit() on the event loop; after shutdown() it raises.                 *)
Submit(c) == /\ ~ closed /\ ~ growing /\ future[c] = "new"
             /\ \A d \in 1..Calls : d < c => future[d] # "new"
             /\ future' = [future EXCEPT ![c] = "queued"]
             /\ queue' = Append(queue, c) /\ growing' = TRUE
             /\ UNCHANGED << idle, closed, threads >>

(* _grow: a thread more unless one says it is idle or there are Size.      *)
Grow == /\ growing /\ growing' = FALSE
        /\ threads' = IF idle > 0 \/ Len(threads) >= Size THEN threads
                      ELSE Append(threads, [at |-> "start", call |-> 0])
        /\ UNCHANGED << queue, idle, closed, future >>

(* The awaiter of a call that is still queued was cancelled.               *)
Cancel(c) == /\ ~ growing /\ future[c] = "queued"
             /\ future' = [future EXCEPT ![c] = "cancelled"]
             /\ UNCHANGED << queue, idle, closed, threads, growing >>

-----------------------------------------------------------------------------
Idle(i) == /\ At(i, "start") /\ idle' = idle + 1 /\ Go(i, "get", 0)
           /\ UNCHANGED << queue, closed, growing, future >>

Get(i) == /\ At(i, "get") /\ queue # << >>
          /\ queue' = Tail(queue)
          /\ IF Head(queue) = NONE THEN Go(i, "leave", 0) ELSE Go(i, "took", Head(queue))
          /\ UNCHANGED << idle, closed, growing, future >>

Leave(i) == /\ At(i, "leave") /\ idle' = idle - 1 /\ Go(i, "gone", 0)
            /\ UNCHANGED << queue, closed, growing, future >>

(* Bug: a thread that finds its call cancelled goes on being counted idle. *)
Take_StaysIdle(i) ==
  /\ At(i, "took")
  /\ LET c == threads[i].call
         skip == future[c] = "cancelled"
     IN  /\ idle' = IF skip THEN idle ELSE idle - 1
         /\ IF skip THEN Go(i, "start", 0) ELSE Go(i, "run", c)
         /\ future' = IF skip THEN future ELSE [future EXCEPT ![c] = "running"]
  /\ UNCHANGED << queue, closed, growing >>

(* Not idle any more; a future that was cancelled is not run.              *)
Take(i) == /\ At(i, "took") /\ idle' = idle - 1
           /\ LET c == threads[i].call
              IN  IF future[c] = "cancelled" THEN Go(i, "start", 0) /\ UNCHANGED future
                  ELSE Go(i, "run", c) /\ future' = [future EXCEPT ![c] = "running"]
           /\ UNCHANGED << queue, closed, growing >>

(* The function returned or raised; the future has either.                 *)
Return(i) == /\ At(i, "run") /\ threads[i].call \notin Stuck
             /\ future' = [future EXCEPT ![threads[i].call] = "done"]
             /\ Go(i, "start", 0)
             /\ UNCHANGED << queue, idle, closed, growing >>

Shutdown == /\ ~ closed /\ ~ growing /\ closed' = TRUE
            /\ queue' = queue \o [i \in DOMAIN threads |-> NONE]
            /\ UNCHANGED << idle, threads, growing, future >>

Next == \/ \E c \in 1..Calls : Submit(c) \/ Cancel(c)
        \/ Grow \/ Shutdown
        \/ \E i \in 1..Size : Idle(i) \/ Get(i) \/ Leave(i) \/ Take(i) \/ Return(i)

(* The threads run, and so does the event loop in the middle of a submit.  *)
Fairness == /\ WF_vars(Grow)
            /\ \A i \in 1..Size : WF_vars(Idle(i) \/ Get(i) \/ Leave(i) \/ Take(i) \/ Return(i))

Spec == Init /\ [][Next]_vars /\ Fairness

-----------------------------------------------------------------------------
(* idle is the number of threads waiting, give or take those that have not *)
(* yet said otherwise; never more threads than Size.                       *)
Counted == /\ Len(threads) <= Size
           /\ idle = Cardinality({i \in DOMAIN threads : threads[i].at \in {"get", "took", "leave"}})

(* Calls are begun in the order they came.                                 *)
FirstCome == \A c, d \in 1..Calls : c < d /\ future[d] \in {"running", "done"}
  => future[c] # "queued" \/ \E i \in DOMAIN threads : threads[i] = [at |-> "took", call |-> c]

PoolSafe == Counted /\ FirstCome

(* Whatever was submitted is run (unless cancelled), over a shutdown too:  *)
(* it is told to the threads after the calls that wait.                    *)
EveryCallRuns == \A c \in 1..Calls : (future[c] = "queued") ~> (future[c] # "queued")

(* A thread more is opened when none is idle, up to the size: no call      *)
(* waits behind functions that do not return while there is room.          *)
RoomIsUsed == (\E c \in 1..Calls : future[c] = "queued") /\ ~ growing
                /\ (\A i \in DOMAIN threads : At(i, "run")) => Len(threads) = Size
=============================================================================
