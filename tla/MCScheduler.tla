---------------------------- MODULE MCScheduler ----------------------------
(***************************************************************************)
(* The scheduler with FileLock (this module extends it) and, beside it, the*)
(* scheduler with RedisLock, whose keys expire.  A behaviour is one of the *)
(* two, which `part' names; the other stays where it began.                *)
(***************************************************************************)
EXTENDS Scheduler

CONSTANT RedisJobs, RedisTTL   \* single jobs; ticks until a key expires

VARIABLE part

VARIABLES rKey, rAge, rHeld, rPhase, rLoop, rGhosts, rLag, rLost, rStarts, rErrors
redisVars == << rKey, rAge, rHeld, rPhase, rLoop, rGhosts, rLag, rLost, rStarts, rErrors >>
Redis == INSTANCE Scheduler WITH
  Names <- RedisJobs, Kind <- "redis", TTL <- RedisTTL,
  Single <- RedisJobs, OneShot <- {}, Capped <- {}, Threaded <- {},
  RenewEvery <- 1, MaxLate <- 0, Drain <- 1, MaxStall <- 0,
  MaxStarts <- 2, MaxErrors <- 1, MaxGhosts <- 1,
  key <- rKey, age <- rAge, held <- rHeld, phase <- rPhase, loop <- rLoop, ghosts <- rGhosts,
  lag <- rLag, lost <- rLost, starts <- rStarts, errors <- rErrors

SchedulersInit == part \in {"file", "redis"} /\ Init /\ Redis!Init
SchedulersNext == \/ part = "file" /\ Next /\ UNCHANGED << part, redisVars >>
                  \/ part = "redis" /\ Redis!Next /\ UNCHANGED << part, vars >>
SchedulersSpec == /\ SchedulersInit /\ [][SchedulersNext]_<< part, vars, redisVars >>
                  /\ Fairness
-----------------------------------------------------------------------------
(* With keys that expire, are renewed, and are deleted without a look at   *)
(* their token, the locks still keep the promise of SingleFlight, and one  *)
(* process at a time runs a job, as long as renewals are on time and the   *)
(* last DELETE is not delayed. (core/locks.py 120-200, scheduler.py.)      *)
RedisKeepsPromise == []Redis!OneRunner /\ Redis!KeepsPromise
=============================================================================
