------------------------------- MODULE JobQueue -------------------------------
(***************************************************************************)
(* core/jobs.py: JobQueue, the bounded in-process queue that any part of   *)
(* the application submits jobs to, and JobRunner, whose workers take them *)
(* out, run them with retries, and drain the queue at shutdown.            *)
(***************************************************************************)
EXTENDS Naturals, Sequences, FiniteSets, SequencesExt

CONSTANTS Items,       \* the jobs that may be submitted, each one once
          Known,       \* those whose name belongs to a @job
          Workers,     \* the worker tasks (APP_JOBS__WORKERS)
          Nothing,     \* no job
          MaxQueued,   \* max_queued
          MaxRetries   \* max_retries of every job

JobsAssumption == /\ Known \subseteq Items
                  /\ Nothing \notin Items
                  /\ MaxQueued \in Nat \ {0}
                  /\ MaxRetries \in Nat

VARIABLES phase,     \* "up", "draining" (shutdown waits in join), "closed"
          queue,     \* the asyncio.Queue
          waiting,   \* submit(wait=True) calls suspended on the full queue
          worker,    \* worker[w]: the job it runs, or Nothing
          asleep,    \* workers in the sleep between two attempts
          attempts,  \* attempts[i]: how often the body of i was called
          fate,      \* what became of each job
          reported,  \* the count logged as jobs.dropped_on_shutdown
          accepted,  \* history: jobs in the order the queue took them
          started    \* history: jobs in the order workers took them

runVars == <<worker, asleep, attempts>>
history == <<accepted, started>>
vars == <<phase, queue, waiting, runVars, fate, reported, history>>

Settled == {"done", "failed", "unknown", "cut"}
Fates == {"new", "rejected", "queued", "running"} \cup Settled

TypeOK == /\ phase \in {"up", "draining", "closed"}
          /\ queue \in Seq(Items) /\ Len(queue) <= MaxQueued
          /\ waiting \subseteq Items
          /\ worker \in [Workers -> Items \cup {Nothing}]
          /\ asleep \subseteq Workers
          /\ attempts \in [Items -> 0..(MaxRetries + 1)]
          /\ fate \in [Items -> Fates]
          /\ reported \in Nat
          /\ accepted \in Seq(Items) /\ started \in Seq(Items)

Init == /\ phase = "up"
        /\ queue = <<>> /\ waiting = {}
        /\ worker = [w \in Workers |-> Nothing]
        /\ asleep = {}
        /\ attempts = [i \in Items |-> 0]
        /\ fate = [i \in Items |-> "new"]
        /\ reported = 0
        /\ accepted = <<>> /\ started = <<>>

Full == Len(queue) >= MaxQueued
Unfinished == Len(queue) + Cardinality({w \in Workers : worker[w] # Nothing})
Becomes(i, f) == fate' = [fate EXCEPT ![i] = f]

(***************************************************************************)
(* submit(): a full queue rejects the job, or with wait=True makes the     *)
(* caller wait for room.  Nothing here looks at the runner's phase.        *)
(***************************************************************************)
Put(i) == /\ queue' = Append(queue, i)
          /\ accepted' = Append(accepted, i)
          /\ Becomes(i, "queued")

Submit(i) ==
  /\ fate[i] = "new" /\ i \notin waiting
  /\ IF Full THEN Becomes(i, "rejected") /\ UNCHANGED <<queue, accepted>> ELSE Put(i)
  /\ UNCHANGED <<phase, waiting, runVars, reported, started>>

SubmitWait(i) ==
  /\ fate[i] = "new" /\ i \notin waiting /\ Full
  /\ waiting' = waiting \cup {i}
  /\ UNCHANGED <<phase, queue, runVars, fate, reported, history>>

PutAfterWait(i) ==
  /\ i \in waiting /\ ~Full
  /\ Put(i)
  /\ waiting' = waiting \ {i}
  /\ UNCHANGED <<phase, runVars, reported, started>>

(***************************************************************************)
(* _worker and _handle.                                                    *)
(***************************************************************************)
Take(w) ==
  /\ phase # "closed" /\ worker[w] = Nothing /\ queue # <<>>
  /\ LET i == Head(queue) IN
       /\ started' = Append(started, i)
       /\ IF i \in Known
          THEN /\ worker' = [worker EXCEPT ![w] = i]
               /\ attempts' = [attempts EXCEPT ![i] = @ + 1]
               /\ Becomes(i, "running")
          ELSE Becomes(i, "unknown") /\ UNCHANGED <<worker, attempts>>
  /\ queue' = Tail(queue)
  /\ UNCHANGED <<phase, waiting, asleep, reported, accepted>>

Finish(w, f) == /\ worker' = [worker EXCEPT ![w] = Nothing]
                /\ Becomes(worker[w], f)

Succeed(w) ==
  /\ worker[w] # Nothing /\ w \notin asleep
  /\ Finish(w, "done")
  /\ UNCHANGED <<phase, queue, waiting, asleep, attempts, reported, history>>

(* The body raises: sleep retry_delay, keeping the worker, or give up.     *)
LastAttempt(i) == attempts[i] > MaxRetries

(* Bug: a failing body makes its worker drop the job.                    *)
Raise_Lost(w) ==
  /\ worker[w] # Nothing /\ w \notin asleep
  /\ worker' = [worker EXCEPT ![w] = Nothing]
  /\ UNCHANGED <<asleep, fate, phase, queue, waiting, attempts, reported, history>>

Raise(w) ==
  /\ worker[w] # Nothing /\ w \notin asleep
  /\ IF LastAttempt(worker[w])
     THEN Finish(w, "failed") /\ UNCHANGED asleep
     ELSE asleep' = asleep \cup {w} /\ UNCHANGED <<worker, fate>>
  /\ UNCHANGED <<phase, queue, waiting, attempts, reported, history>>

Retry(w) ==
  /\ w \in asleep
  /\ asleep' = asleep \ {w}
  /\ attempts' = [attempts EXCEPT ![worker[w]] = @ + 1]
  /\ UNCHANGED <<phase, queue, waiting, worker, fate, reported, history>>

(***************************************************************************)
(* shutdown(): with jobs in the queue, wait in join() for them and for     *)
(* those in progress, drain_seconds at most; then count what is left and   *)
(* cancel the workers.                                                     *)
(***************************************************************************)
Stop ==
  /\ phase' = "closed"
  /\ reported' = Len(queue)
  /\ worker' = [w \in Workers |-> Nothing]
  /\ asleep' = {}
  /\ fate' = [i \in Items |-> IF fate[i] = "running" THEN "cut" ELSE fate[i]]
  /\ UNCHANGED <<queue, waiting, attempts, history>>

Shutdown ==
  /\ phase = "up"
  /\ IF queue = <<>> THEN Stop
     ELSE phase' = "draining"
          /\ UNCHANGED <<queue, waiting, runVars, fate, reported, history>>

Joined == phase = "draining" /\ Unfinished = 0 /\ Stop

(* Bug: the limit holds for queued jobs only.                              *)
DrainTimeout_EmptyQueue == phase = "draining" /\ Unfinished > 0 /\ queue = <<>> /\ Stop

DrainTimeout == phase = "draining" /\ Unfinished > 0 /\ Stop

WorkerStep(w) == Take(w) \/ Succeed(w) \/ Raise(w) \/ Retry(w)

Next == \/ \E i \in Items : Submit(i) \/ SubmitWait(i) \/ PutAfterWait(i)
        \/ \E w \in Workers : WorkerStep(w)
        \/ Shutdown \/ Joined \/ DrainTimeout

(***************************************************************************)
(* Workers are tasks of a running event loop, so their own steps are fair; *)
(* join returns or times out.  That bodies return or raise is a second     *)
(* assumption, made only while the application is up: in a drain a body    *)
(* may hang.  Submitting and shutting down are up to the application.      *)
(***************************************************************************)
RunnerFairness == /\ \A w \in Workers : WF_vars(Take(w)) /\ WF_vars(Retry(w))
                  /\ WF_vars(Joined) /\ WF_vars(DrainTimeout)
                  /\ \A i \in Items : WF_vars(PutAfterWait(i))
BodyFairness == \A w \in Workers : WF_vars(phase = "up" /\ (Succeed(w) \/ Raise(w)))

Spec == Init /\ [][Next]_vars
FairSpec == Spec /\ RunnerFairness /\ BodyFairness
-----------------------------------------------------------------------------
(* No job is lost or run twice by the runner: a job counted as queued is   *)
(* in the queue once, a job counted as running belongs to one worker, and  *)
(* every other job is in neither place.                                    *)
Placed ==
  \A i \in Items :
    /\ Cardinality({n \in DOMAIN queue : queue[n] = i}) = (IF fate[i] = "queued" THEN 1 ELSE 0)
    /\ Cardinality({w \in Workers : worker[w] = i}) = (IF fate[i] = "running" THEN 1 ELSE 0)

(* Jobs start in the order in which the queue accepted them, those of      *)
(* callers that had to wait for room included.                             *)
InOrder == IsPrefix(started, accepted)

(* While the application is up every accepted job settles in the end, and  *)
(* a caller that waits for room gets it.                                   *)
Progress ==
  \A i \in Items : /\ fate[i] = "queued" ~> fate[i] \in Settled \/ phase # "up"
                   /\ i \in waiting ~> i \notin waiting \/ phase # "up"

(* Shutdown ends even when a body never returns.                           *)
ShutdownEnds == phase = "draining" ~> phase = "closed"

(* A drain that is not out of time leaves nothing behind: when join()      *)
(* returns, no job in progress is cut by the cancellation that follows.    *)
DrainKeepsJobs ==
  [][Joined => \A i \in Items : fate'[i] = "cut" => fate[i] = "cut"]_vars

(* A job accepted is in one place, jobs start in the order in which they   *)
(* were accepted, and the drain cuts none that it waited for.              *)
JobsSafe == [](Placed /\ InOrder) /\ DrainKeepsJobs

(* What shutdown() says: the jobs in progress are run to their end (up to  *)
(* drain_seconds).                                                         *)
InProgressFinishes ==
  [][\A i \in Items : fate[i] = "running" /\ fate'[i] = "cut" => phase = "draining"]_vars

(* What the head of jobs.py says: the number of jobs that never ran is     *)
(* told at shutdown.                                                       *)
DropsReported == phase = "closed" => reported = Len(queue)
=============================================================================
