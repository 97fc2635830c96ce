----------------------------- MODULE SingleFlight -----------------------------
(***************************************************************************)
(* What the protocol SingleFlight of core/locks.py promises to the code    *)
(* that uses it, whatever keeps the lock: acquire() succeeds for one       *)
(* process at a time, which holds the name until it releases it or ends.   *)
(***************************************************************************)
CONSTANTS Procs,  \* the processes
          Names   \* the lock names

VARIABLE holders  \* the processes that hold each name

Init == holders = [n \in Names |-> {}]

(* Nobody may take a name before its holder has left it.                   *)
Take(p, n) == /\ holders[n] = {}
              /\ holders' = [holders EXCEPT ![n] = {p}]

Leave(p, n) == /\ p \in holders[n]
               /\ holders' = [holders EXCEPT ![n] = @ \ {p}]

(* A process that ends holds nothing.                                      *)
Gone(p) == holders' = [n \in Names |-> holders[n] \ {p}]

Next == \E p \in Procs : Gone(p) \/ \E n \in Names : Take(p, n) \/ Leave(p, n)

Spec == Init /\ [][Next]_holders
=============================================================================
