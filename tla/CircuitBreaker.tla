---------------------------- MODULE CircuitBreaker ----------------------------
(***************************************************************************)
(* infrastructure/database/circuit.py: CircuitBreakerBackend, the wrapper  *)
(* that counts transient failures of database calls, refuses calls while   *)
(* the circuit is open, and gives every call a time limit.  Any number of  *)
(* calls are in flight at once; each reads the circuit when it starts and  *)
(* writes it when it ends, and much may happen in between.                 *)
(*                                                                         *)
(* Time is a count-down per call and one for the open circuit.  failures   *)
(* stops at Threshold: the code only asks whether it has reached it.       *)
(***************************************************************************)
EXTENDS Naturals, FiniteSets

CONSTANTS Calls,        \* call slots: at most that many calls at once
          Enabled,      \* breaker_enabled
          Threshold,    \* failure_threshold
          Reset,        \* reset_seconds, in ticks
          CallTimeout   \* call_timeout_seconds, in ticks

ASSUME BreakerAssumption == /\ Enabled \in BOOLEAN
                            /\ Threshold \in Nat \ {0}
                            /\ Reset \in Nat \ {0}
                            /\ CallTimeout \in Nat \ {0}

VARIABLES state,     \* _state
          failures,  \* _failures
          cool,      \* ticks until _opened_at is reset_seconds ago
          call,      \* where each call is
          left,      \* ticks until wait_for gives up a call
          probes,    \* calls let through while the circuit was half open
          db         \* the database: "ok", "down" (errors) or "hung" (no answer)

circuit == <<state, failures, cool>>
vars == <<circuit, call, left, probes, db>>

CallStates == {"idle", "sent", "frozen"}

InFlight(c) == call[c] # "idle"

TypeOK == /\ state \in {"closed", "open", "half_open"}
          /\ failures \in 0..Threshold
          /\ cool \in 0..Reset
          /\ call \in [Calls -> CallStates]
          /\ left \in [Calls -> 0..CallTimeout]
          /\ probes \subseteq {c \in Calls : InFlight(c)}
          /\ db \in {"ok", "down", "hung"}

Init == /\ state = "closed" /\ failures = 0 /\ cool = 0
        /\ call = [c \in Calls |-> "idle"]
        /\ left = [c \in Calls |-> 0]
        /\ probes = {}
        /\ db = "ok"

(***************************************************************************)
(* _before_call lets a call through, or raises CircuitOpenError (which     *)
(* changes nothing).  A hung database freezes the connection of the call.  *)
(***************************************************************************)
BeforeCall(c) ==
  /\ Enabled /\ state = "open" => cool = 0
  /\ state' = IF Enabled /\ state = "open" THEN "half_open" ELSE state
  /\ probes' = IF state' = "half_open" THEN probes \cup {c} ELSE probes
  /\ UNCHANGED <<failures, cool>>

Begin(c) ==
  /\ call[c] = "idle"
  /\ BeforeCall(c)
  /\ call' = [call EXCEPT ![c] = IF db = "hung" THEN "frozen" ELSE "sent"]
  /\ left' = [left EXCEPT ![c] = CallTimeout]
  /\ UNCHANGED db

End(c) == /\ call' = [call EXCEPT ![c] = "idle"]
          /\ left' = [left EXCEPT ![c] = 0]
          /\ probes' = probes \ {c}
          /\ UNCHANGED db

(* _on_success and _on_failure, for a transient error.                     *)
OnSuccess == state' = "closed" /\ failures' = 0 /\ UNCHANGED cool

(* Bug: the failure at hand is not counted when the circuit is tested.     *)
OnFailure_Late ==
  IF Enabled
  THEN LET counted == IF failures < Threshold THEN failures + 1 ELSE failures
           trips == failures >= Threshold \/ state = "half_open"
       IN /\ failures' = counted
          /\ state' = IF trips THEN "open" ELSE state
          /\ cool' = IF trips THEN Reset ELSE cool
  ELSE UNCHANGED circuit

OnFailure ==
  IF Enabled
  THEN LET counted == IF failures < Threshold THEN failures + 1 ELSE failures
           trips == counted >= Threshold \/ state = "half_open"
       IN /\ failures' = counted
          /\ state' = IF trips THEN "open" ELSE state
          /\ cool' = IF trips THEN Reset ELSE cool
  ELSE UNCHANGED circuit

(***************************************************************************)
(* The ways a call ends in _call.  The answer to a frozen call may still   *)
(* come, when the database is back before wait_for gives up.               *)
(***************************************************************************)
Succeeds(c) == /\ InFlight(c) /\ db = "ok"
               /\ OnSuccess /\ End(c)

(* An error that is not transient says nothing about the database's health.*)
BusinessError(c) == /\ InFlight(c) /\ db = "ok"
                    /\ UNCHANGED circuit /\ End(c)

ConnectionError(c) == /\ InFlight(c) /\ db = "down"
                      /\ OnFailure /\ End(c)

(* Bug: the time limit works on a healthy database only.                   *)
TimedOut_OnlyIfOk(c) == /\ call[c] = "frozen" /\ left[c] = 0 /\ db = "ok"
                        /\ OnFailure /\ End(c)

TimedOut(c) == /\ call[c] = "frozen" /\ left[c] = 0
               /\ OnFailure /\ End(c)

Answered(c) == Succeeds(c) \/ BusinessError(c) \/ ConnectionError(c)

(* The caller is cancelled: CancelledError is no Exception, nothing counts.*)
Cancelled(c) == /\ InFlight(c)
                /\ UNCHANGED circuit /\ End(c)

DbChanges == /\ db' \in {"ok", "down", "hung"} \ {db}
             /\ call' = [c \in Calls |-> IF call[c] = "sent" /\ db' = "hung"
                                         THEN "frozen" ELSE call[c]]
             /\ UNCHANGED <<circuit, left, probes>>

(* Time passes; wait_for fires on time.  A database that is not hung       *)
(* answers before the limit, with a result or with an error.               *)
Tick ==
  /\ \A c \in Calls : /\ call[c] = "sent" => left[c] > 1
                      /\ call[c] = "frozen" => left[c] > 0
  /\ cool' = IF cool = 0 THEN 0 ELSE cool - 1
  /\ left' = [c \in Calls |-> IF left[c] = 0 THEN 0 ELSE left[c] - 1]
  /\ UNCHANGED <<state, failures, call, probes, db>>

Next == \/ \E c \in Calls : \/ Begin(c) \/ Answered(c)
                            \/ TimedOut(c) \/ Cancelled(c)
        \/ DbChanges
        \/ Tick

(***************************************************************************)
(* The application keeps calling, time passes, wait_for fires; of the      *)
(* calls that a healthy database answers, not all are business errors.     *)
(***************************************************************************)
Fairness == /\ WF_vars(Tick)
            /\ \A c \in Calls : /\ WF_vars(Begin(c)) /\ WF_vars(TimedOut(c))
                                /\ WF_vars(call[c] = "sent" /\ Answered(c))
                                /\ SF_vars(call[c] = "sent" /\ Succeeds(c))

Spec == Init /\ [][Next]_vars
FairSpec == Spec /\ Fairness
-----------------------------------------------------------------------------
(* The circuit lets traffic through unhindered exactly as long as fewer    *)
(* than Threshold transient failures were counted since the last success,  *)
(* whatever late answers of old calls did to it.                           *)
Tripped == Enabled => (state = "closed" <=> failures < Threshold)

(* Every call ends: no caller is held for ever by a frozen database.       *)
EveryCallEnds == \A c \in Calls : InFlight(c) ~> ~InFlight(c)

(* A database that is healthy from some time on is served without refusals *)
(* from some time on, although callers may be cancelled at any moment.     *)
Recovers == <>[](db = "ok") => <>[](state = "closed")

(* What circuit.py says at its head: after reset_seconds, ONE request goes *)
(* to try the database.                                                    *)
OneProbe == Cardinality(probes) <= 1

(* The state diagram of circuit.py: an open circuit becomes half open      *)
(* before anything else.                                                   *)
OpenThenHalfOpen == [][state = "open" => state' # "closed"]_vars
=============================================================================
