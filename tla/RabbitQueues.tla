----------------------------- MODULE RabbitQueues -----------------------------
(***************************************************************************)
(* infrastructure/rabbitmq/: the queues of a subscriber with auto_delete,  *)
(* max_retries and dead_letter.  Every process declares them step by step  *)
(* when it starts (consumers.py _setup, broker.py durable_queue and        *)
(* retry_queue); the broker deletes the main queue with its last consumer, *)
(* and shutdown() deletes <queue>.retry and <queue>.dlq if it finds the    *)
(* main queue gone.                                                        *)
(***************************************************************************)
EXTENDS Naturals, FiniteSets

CONSTANTS Procs,
          Overlap,     \* TRUE: a process may start while another shuts down
          MaxStarts,   \* bound: starts of each process
          MaxFailures  \* bound: handlers that fail

VARIABLES at,        \* process -> the step of its _setup or shutdown
          main,      \* does the main queue exist
          listening, \* its consumers
          retry,     \* does <queue>.retry exist
          dlq,       \* does <queue>.dlq exist
          letters,   \* dead letters in it
          lost,      \* history: failed messages that found no queue to go to
          deleted,   \* history: dead letters deleted while somebody listened
          starts, failures

queues == << main, listening, retry, dlq, letters >>
vars == << at, queues, lost, deleted, starts, failures >>

SettingUp == {"dlq", "main", "retry", "consume"}
Cleaning == {"ask", "delete retry", "delete dlq"}

Init == /\ at = [p \in Procs |-> "off"] /\ main = FALSE /\ listening = {}
        /\ retry = FALSE /\ dlq = FALSE /\ letters = 0 /\ lost = 0 /\ deleted = 0
        /\ starts = [p \in Procs |-> 0] /\ failures = 0

Goto(p, s) == at' = [at EXCEPT ![p] = s]
Others(p, steps) == \E q \in Procs \ {p} : at[q] \in steps

Start(p) == /\ at[p] = "off" /\ starts[p] < MaxStarts
            /\ ~ Overlap => ~ Others(p, Cleaning)
            /\ Goto(p, "dlq") /\ starts' = [starts EXCEPT ![p] = @ + 1]
            /\ UNCHANGED << queues, lost, deleted, failures >>

(* _declare_dead_letter, and then the queue itself.                        *)
DeclareDlq(p) == /\ at[p] = "dlq" /\ dlq' = TRUE /\ Goto(p, "main")
                 /\ UNCHANGED << main, listening, retry, letters, lost, deleted, starts, failures >>
DeclareMain(p) == /\ at[p] = "main" /\ main' = TRUE /\ Goto(p, "retry")
                  /\ UNCHANGED << listening, retry, dlq, letters, lost, deleted, starts, failures >>
DeclareRetry(p) == /\ at[p] = "retry" /\ retry' = TRUE /\ Goto(p, "consume")
                   /\ UNCHANGED << main, listening, dlq, letters, lost, deleted, starts, failures >>

(* Without the queue consume() raises, which is logged.                    *)
Consume(p) == /\ at[p] = "consume"
              /\ IF main THEN listening' = listening \cup {p} /\ Goto(p, "on")
                         ELSE Goto(p, "failed") /\ UNCHANGED listening
              /\ UNCHANGED << main, retry, dlq, letters, lost, deleted, starts, failures >>

(* _on_failure: another attempt by way of <queue>.retry, or a dead letter. *)
Fail(p) == /\ at[p] = "on" /\ failures < MaxFailures /\ failures' = failures + 1
           /\ \/ /\ lost' = IF retry THEN lost ELSE lost + 1
                 /\ UNCHANGED letters
              \/ /\ letters' = IF dlq THEN letters + 1 ELSE letters
                 /\ lost' = IF dlq THEN lost ELSE lost + 1
           /\ UNCHANGED << at, main, listening, retry, dlq, deleted, starts >>

(* The connection of a consumer ends; the last one takes the queue along.  *)
Gone(p) == /\ listening' = listening \ {p}
           /\ main' = (main /\ (p \in listening => listening' # {}))

Cancel(p) == /\ at[p] = "on" /\ (~ Overlap => ~ Others(p, SettingUp))
             /\ Gone(p) /\ Goto(p, "ask")
             /\ UNCHANGED << retry, dlq, letters, lost, deleted, starts, failures >>
Crash(p) == /\ at[p] \notin {"off"} /\ Gone(p) /\ Goto(p, "off")
            /\ UNCHANGED << retry, dlq, letters, lost, deleted, starts, failures >>
GivesUp(p) == /\ at[p] = "failed" /\ Goto(p, "off")
              /\ UNCHANGED << queues, lost, deleted, starts, failures >>

(* Bug: whoever shuts down first cleans up. *)
Ask_Never(p) == /\ at[p] = "ask" /\ Goto(p, "delete retry")
                /\ UNCHANGED << queues, lost, deleted, starts, failures >>

(* _clean_side_queues: queue_exists, and the deletions one after another.  *)
Ask(p) == /\ at[p] = "ask" /\ Goto(p, IF main THEN "off" ELSE "delete retry")
          /\ UNCHANGED << queues, lost, deleted, starts, failures >>
DeleteRetry(p) == /\ at[p] = "delete retry" /\ retry' = FALSE /\ Goto(p, "delete dlq")
                  /\ UNCHANGED << main, listening, dlq, letters, lost, deleted, starts, failures >>
DeleteDlq(p) == /\ at[p] = "delete dlq" /\ dlq' = FALSE /\ letters' = 0 /\ Goto(p, "off")
                /\ deleted' = IF listening # {} THEN deleted + letters ELSE deleted
                /\ UNCHANGED << main, listening, retry, lost, starts, failures >>

Next == \E p \in Procs :
  \/ Start(p) \/ DeclareDlq(p) \/ DeclareMain(p) \/ DeclareRetry(p) \/ Consume(p) \/ Fail(p)
  \/ Cancel(p) \/ Crash(p) \/ GivesUp(p) \/ Ask(p) \/ DeleteRetry(p) \/ DeleteDlq(p)

Spec == Init /\ [][Next]_vars
-----------------------------------------------------------------------------
(* consumers.py:465-472: a process that stops does not take away the side  *)
(* queues of those that run; what fails there has where to go.             *)
NothingTaken == lost = 0 /\ deleted = 0
=============================================================================
