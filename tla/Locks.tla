-------------------------------- MODULE Locks --------------------------------
(***************************************************************************)
(* core/locks.py: the single-flight locks that the processes of one        *)
(* application (several workers on a host, or several hosts) share.        *)
(*                                                                         *)
(* Kind = "file" is FileLock: the kernel holds the lock and drops it when  *)
(* the process dies.  Kind = "redis" is RedisLock: a key with a time to    *)
(* live, TTL ticks; Redis does not notice that a process died.             *)
(*                                                                         *)
(* The operators below are the methods of the lock; each constrains the    *)
(* primed lock variables.  The modules that use a lock add their own       *)
(* state and decide when a method is called.                               *)
(***************************************************************************)
EXTENDS Naturals, FiniteSets

CONSTANTS Procs,   \* the processes
          Names,   \* the lock names
          None,    \* no process
          Kind,    \* "file" or "redis"
          TTL      \* RedisLock.ttl, in ticks

ASSUME LocksAssumption == /\ None \notin Procs
                          /\ Kind \in {"file", "redis"}
                          /\ TTL \in Nat \ {0}

VARIABLES key,     \* the process recorded by the kernel or in the Redis key
          age,     \* ticks since the Redis key was written
          held     \* _held / _tokens: the names each process believes it holds

lockVars == <<key, age, held>>

LocksTypeOK == /\ key \in [Names -> Procs \cup {None}]
               /\ age \in [Names -> 0..(TTL - 1)]
               /\ held \in [Procs -> SUBSET Names]

LocksInit == /\ key = [n \in Names |-> None]
             /\ age = [n \in Names |-> 0]
             /\ held = [p \in Procs |-> {}]

(* SET key token EX ttl, or flock(LOCK_EX).                                *)
Write(p, n) == /\ key' = [key EXCEPT ![n] = p]
               /\ age' = [age EXCEPT ![n] = 0]

(* Bug: the lock is written whoever holds it.                              *)
AcquireOk_NoCheck(p, n) ==
  /\ Write(p, n)
  /\ held' = [held EXCEPT ![p] = @ \cup {n}]

(* acquire() answers True: the process had the lock, or the lock was free. *)
AcquireOk(p, n) ==
  \/ n \in held[p] /\ UNCHANGED lockVars
  \/ /\ n \notin held[p]
     /\ key[n] = None
     /\ Write(p, n)
     /\ held' = [held EXCEPT ![p] = @ \cup {n}]

(* acquire() answers False: another process is recorded as the owner.      *)
AcquireNo(p, n) == /\ n \notin held[p]
                   /\ key[n] # None
                   /\ UNCHANGED lockVars

(* acquire() raises, or is cancelled while it awaits Redis: the command    *)
(* was lost, or it was carried out and only its reply was lost.            *)
AcquireError(p, n) ==
  /\ Kind = "redis"
  /\ n \notin held[p]
  /\ \/ UNCHANGED lockVars
     \/ key[n] = None /\ Write(p, n) /\ UNCHANGED held

(* Bug: a renewal does not set the time to live.                           *)
RenewAll_KeepsAge(p, S, failed) ==
  /\ failed = {}
  /\ key' = [n \in Names |-> IF n \in S THEN p ELSE key[n]]
  /\ UNCHANGED <<age, held>>

(* RedisLock.renew() of every name of S: the answers for the names of      *)
(* failed are False.  The token is written whatever the key holds, and a   *)
(* failed command writes nothing.  FileLock.renew() changes no state.      *)
RenewAll(p, S, failed) ==
  LET written == S \ failed IN
  /\ S \ held[p] \subseteq failed
  /\ key' = [n \in Names |-> IF n \in written THEN p ELSE key[n]]
  /\ age' = [n \in Names |-> IF n \in written THEN 0 ELSE age[n]]
  /\ UNCHANGED held

(* release() of every name of S up to its first suspension: the books are  *)
(* cleared, and flock(LOCK_UN) takes effect.                               *)
ReleaseBegin(p, S) ==
  LET unlocked == IF Kind = "file" THEN S \cap held[p] ELSE {} IN
  /\ held' = [held EXCEPT ![p] = @ \ S]
  /\ key' = [n \in Names |-> IF n \in unlocked THEN None ELSE key[n]]
  /\ UNCHANGED age

(* The DELETE of RedisLock.release(): it compares no token, and when it    *)
(* fails it is ignored.                                                    *)
ReleaseEnd(n) ==
  /\ \/ /\ key' = [key EXCEPT ![n] = None]
        /\ age' = [age EXCEPT ![n] = 0]
     \/ UNCHANGED <<key, age>>
  /\ UNCHANGED held

(* release() in one step, for a caller that does nothing in between.       *)
Release(p, n) ==
  IF Kind = "file" \/ n \notin held[p]
  THEN ReleaseBegin(p, {n})
  ELSE /\ held' = [held EXCEPT ![p] = @ \ {n}]
       /\ \/ key' = [key EXCEPT ![n] = None] /\ age' = [age EXCEPT ![n] = 0]
          \/ UNCHANGED <<key, age>>

(* The process is gone: the kernel closes its files, Redis keeps its keys. *)
Vanish(p) ==
  /\ held' = [held EXCEPT ![p] = {}]
  /\ key' = IF Kind = "file"
            THEN [n \in Names |-> IF key[n] = p THEN None ELSE key[n]]
            ELSE key
  /\ UNCHANGED age

(* One tick of Redis' clock: a key of TTL ticks disappears.                *)
Elapse ==
  LET gone(n) == key[n] # None /\ age[n] + 1 = TTL
  IN  /\ key' = [n \in Names |-> IF gone(n) THEN None ELSE key[n]]
      /\ age' = [n \in Names |-> IF key[n] = None \/ gone(n) THEN 0 ELSE age[n] + 1]
      /\ UNCHANGED held

-----------------------------------------------------------------------------
(* What the users of a lock see of it.                                     *)
Holders == [n \in Names |-> {p \in Procs : n \in held[p]}]
Promise == INSTANCE SingleFlight WITH holders <- Holders

(* The locks implement SingleFlight: no process comes to hold a name while *)
(* another one does, however acquire, renewals, expiry, releases and       *)
(* crashes interleave.                                                     *)
KeepsPromise == Promise!Spec
=============================================================================
