--------------------------- MODULE RabbitConsumers ---------------------------
(***************************************************************************)
(* infrastructure/rabbitmq/consumers.py: the consumers that the processes  *)
(* of an application open on one durable queue, whose messages they share. *)
(* A handler that fails has its message put in <queue>.retry, which gives  *)
(* it back after a delay; when the attempts are used up the message is     *)
(* rejected, and goes to <queue>.dlq if there is one.                      *)
(*                                                                         *)
(* A copy is a message with its x-attempt header.  The broker keeps what   *)
(* it delivered until it is acknowledged, and gives it to someone else     *)
(* when the connection is lost; the callback in progress does not notice.  *)
(***************************************************************************)
EXTENDS Naturals, FiniteSets, FiniteSetsExt

CONSTANTS Msgs,        \* the messages in the queue when the model starts
          Permanent,   \* those whose handler raises PermanentMessageError
          Procs,       \* the processes
          MaxTasks,    \* bound: callbacks in progress at once
          None,        \* no process
          MaxRetries,  \* max_retries
          DeadLetter,  \* dead_letter
          Prefetch,    \* prefetch
          MaxFaults,   \* bound: lost connections, crashes, failed publishes
          MaxAborts    \* bound: handlers that end in CancelledError

ConsumersAssumption ==
  /\ Permanent \subseteq Msgs /\ None \notin Procs
  /\ MaxRetries \in Nat /\ DeadLetter \in BOOLEAN /\ Prefetch \in Nat \ {0}
  /\ MaxTasks \in Nat /\ MaxFaults \in Nat /\ MaxAborts \in Nat

Tasks == 1..MaxTasks
Copies == Msgs \X (0..MaxRetries)
Body(c) == c[1]
Header(c) == c[2]
Attempt(c) == Header(c) + 1

VARIABLES ready,      \* copies in the queue
          delayed,    \* copies in <queue>.retry
          unacked,    \* unacked[p]: copies delivered on the channel of p
          dead,       \* messages in <queue>.dlq
          dropped,    \* messages rejected where there is no <queue>.dlq
          link,       \* the connection of each process: "down", "up", "closed"
          due,        \* processes in which the hook _setup has not run yet
          consuming,  \* processes with a consumer on the queue
          closing,    \* processes that shut down
          slot,       \* the callbacks in progress
          calls,      \* history: calls of the handler for each copy
          good,       \* history: messages whose handler returned
          again,      \* history: how often a copy went back to the queue
          faults, aborts

broker == <<ready, delayed, unacked, dead, dropped>>
procs == <<link, due, consuming, closing>>
history == <<calls, good, again>>
vars == <<broker, procs, slot, history, faults, aborts>>

Steps == {"handler", "ack", "reject", "publish", "nack"}
Idle == [step |-> "idle", proc |-> None]
Busy == [step : Steps, proc : Procs, copy : Copies, live : BOOLEAN]
Empty == [c \in Copies |-> 0]

TypeOK == /\ ready \in [Copies -> Nat] /\ delayed \in [Copies -> Nat]
          /\ unacked \in [Procs -> [Copies -> Nat]]
          /\ dead \subseteq Msgs /\ dropped \subseteq Msgs
          /\ link \in [Procs -> {"down", "up", "closed"}]
          /\ due \subseteq Procs /\ consuming \subseteq Procs /\ closing \subseteq Procs
          /\ slot \in [Tasks -> Busy \cup {Idle}]
          /\ calls \in [Copies -> Nat] /\ good \subseteq Msgs /\ again \in [Copies -> Nat]
          /\ faults \in 0..MaxFaults /\ aborts \in 0..MaxAborts

Init == /\ ready = [c \in Copies |-> IF Header(c) = 0 THEN 1 ELSE 0]
        /\ delayed = Empty /\ unacked = [p \in Procs |-> Empty]
        /\ dead = {} /\ dropped = {}
        /\ link = [p \in Procs |-> "down"]
        /\ due = {} /\ consuming = {} /\ closing = {}
        /\ slot = [t \in Tasks |-> Idle]
        /\ calls = Empty /\ good = {} /\ again = Empty
        /\ faults = 0 /\ aborts = 0

Plus(bag, c) == [bag EXCEPT ![c] = @ + 1]
Minus(bag, c) == [bag EXCEPT ![c] = @ - 1]
Total(bag, S) == MapThenSumSet(LAMBDA c : bag[c], S)
Goto(t, s) == slot' = [slot EXCEPT ![t].step = s]
Free(t) == slot' = [slot EXCEPT ![t] = Idle]
Fail == faults < MaxFaults /\ faults' = faults + 1

(***************************************************************************)
(* Connecting runs the ready hooks; _setup opens a consumer unless there   *)
(* is one, which aio-pika restored by itself.                              *)
(***************************************************************************)
Connect(p) ==
  /\ link[p] = "down"
  /\ link' = [link EXCEPT ![p] = "up"]
  /\ due' = due \cup {p}
  /\ UNCHANGED <<broker, consuming, closing, slot, history, faults, aborts>>

Setup(p) ==
  /\ p \in due
  /\ due' = due \ {p}
  /\ consuming' = IF link[p] = "up" THEN consuming \cup {p} ELSE consuming
  /\ UNCHANGED <<broker, link, closing, slot, history, faults, aborts>>

(* Something in _setup raises: it is logged, and nobody listens until the  *)
(* next connection.                                                        *)
SetupFails(p) ==
  /\ p \in due \ consuming /\ link[p] = "up" /\ Fail
  /\ due' = due \ {p}
  /\ UNCHANGED <<broker, link, consuming, closing, slot, history, aborts>>

(***************************************************************************)
(* callback(): the broker hands out a copy, the handler runs.              *)
(***************************************************************************)
Deliver(p, t, c) ==
  /\ link[p] = "up" /\ p \in consuming
  /\ Total(unacked[p], Copies) < Prefetch
  /\ slot[t] = Idle /\ \A u \in 1..(t - 1) : slot[u] # Idle
  /\ ready[c] > 0
  /\ ready' = Minus(ready, c)
  /\ unacked' = [unacked EXCEPT ![p] = Plus(@, c)]
  /\ slot' = [slot EXCEPT ![t] = [step |-> "handler", proc |-> p, copy |-> c, live |-> TRUE]]
  /\ calls' = Plus(calls, c)
  /\ UNCHANGED <<delayed, dead, dropped, procs, good, again, faults, aborts>>

HandlerReturns(t) ==
  /\ slot[t].step = "handler" /\ Body(slot[t].copy) \notin Permanent
  /\ Goto(t, "ack")
  /\ good' = good \cup {Body(slot[t].copy)}
  /\ UNCHANGED <<broker, procs, calls, again, faults, aborts>>

(* _on_failure: no further attempt for a permanent error, or when the      *)
(* attempts are used up.                                                   *)
GivesUp(c) == Body(c) \in Permanent \/ Attempt(c) > MaxRetries

HandlerRaises(t) ==
  /\ slot[t].step = "handler"
  /\ Goto(t, IF GivesUp(slot[t].copy) THEN "reject" ELSE "publish")
  /\ UNCHANGED <<broker, procs, history, faults, aborts>>

(* CancelledError passes the except clause: the callback is over, and the  *)
(* message stays unacknowledged as long as the connection lives.           *)
HandlerAborts(t) ==
  /\ slot[t].step = "handler" /\ aborts < MaxAborts
  /\ aborts' = aborts + 1
  /\ Free(t)
  /\ UNCHANGED <<broker, procs, history, faults>>

(***************************************************************************)
(* The answers to the broker.  On a channel that is gone they raise, and   *)
(* the callback is over all the same.                                      *)
(***************************************************************************)
Settle(t) == LET p == slot[t].proc IN
  unacked' = IF slot[t].live THEN [unacked EXCEPT ![p] = Minus(@, slot[t].copy)] ELSE unacked

Ack(t) ==
  /\ slot[t].step = "ack"
  /\ Settle(t) /\ Free(t)
  /\ UNCHANGED <<ready, delayed, dead, dropped, procs, history, faults, aborts>>

Reject(t) ==
  /\ slot[t].step = "reject"
  /\ Settle(t) /\ Free(t)
  /\ LET m == IF slot[t].live THEN {Body(slot[t].copy)} ELSE {} IN
       IF DeadLetter THEN dead' = dead \cup m /\ UNCHANGED dropped
                     ELSE dropped' = dropped \cup m /\ UNCHANGED dead
  /\ UNCHANGED <<ready, delayed, procs, history, faults, aborts>>

(* The copy in <queue>.retry has the number of the attempt in its header.  *)
Again(c) == <<Body(c), Attempt(c)>>

(* Bug: the message is acknowledged although its copy was not published.   *)
PublishFails_Acks(t) ==
  /\ slot[t].step = "publish"
  /\ IF link[slot[t].proc] = "up" THEN Fail ELSE UNCHANGED faults
  /\ Goto(t, "ack")
  /\ UNCHANGED <<broker, procs, history, aborts>>

(* publish_to_queue: confirmed, or it raises without a connection, or the  *)
(* time limit is over, whether the broker has stored the copy or not.      *)
PublishFails(t) ==
  /\ slot[t].step = "publish"
  /\ IF link[slot[t].proc] = "up" THEN Fail ELSE UNCHANGED faults
  /\ Goto(t, "nack")
  /\ UNCHANGED <<broker, procs, history, aborts>>

Publish(t) ==
  /\ slot[t].step = "publish" /\ link[slot[t].proc] = "up"
  /\ delayed' = Plus(delayed, Again(slot[t].copy))
  /\ \/ Goto(t, "ack") /\ UNCHANGED faults
     \/ Goto(t, "nack") /\ Fail
  /\ UNCHANGED <<ready, unacked, dead, dropped, procs, history, aborts>>

(* nack(requeue=True): the broker delivers the very same copy once more.   *)
Nack(t) ==
  /\ slot[t].step = "nack"
  /\ Settle(t) /\ Free(t)
  /\ LET c == slot[t].copy IN
       IF slot[t].live
       THEN ready' = Plus(ready, c) /\ again' = Plus(again, c)
       ELSE UNCHANGED <<ready, again>>
  /\ UNCHANGED <<delayed, dead, dropped, procs, calls, good, faults, aborts>>

(* The time to live of the copy is over; the queue is its dead letter.     *)
RetryDue(c) ==
  /\ delayed[c] > 0
  /\ delayed' = Minus(delayed, c) /\ ready' = Plus(ready, c)
  /\ UNCHANGED <<unacked, dead, dropped, procs, slot, history, faults, aborts>>

(***************************************************************************)
(* The end of a connection: the broker puts back what was not answered.    *)
(***************************************************************************)
PutBack(p) ==
  /\ ready' = [c \in Copies |-> ready[c] + unacked[p][c]]
  /\ unacked' = [unacked EXCEPT ![p] = Empty]
  /\ again' = [c \in Copies |-> again[c] + unacked[p][c]]
  /\ UNCHANGED <<delayed, dead, dropped, calls, good>>

Outlive(p) == slot' = [t \in Tasks |-> IF slot[t].proc = p
                                       THEN [slot[t] EXCEPT !.live = FALSE] ELSE slot[t]]

ConnectionLost(p) ==
  /\ link[p] = "up" /\ Fail
  /\ link' = [link EXCEPT ![p] = "down"]
  /\ PutBack(p) /\ Outlive(p)
  /\ UNCHANGED <<due, consuming, closing, aborts>>

(* The process dies, and is started again when it connects.                *)
Crash(p) ==
  /\ link[p] # "closed" /\ Fail
  /\ link' = [link EXCEPT ![p] = "down"]
  /\ due' = due \ {p} /\ consuming' = consuming \ {p} /\ closing' = closing \ {p}
  /\ PutBack(p)
  /\ slot' = [t \in Tasks |-> IF slot[t].proc = p THEN Idle ELSE slot[t]]
  /\ UNCHANGED aborts

(* shutdown() of the runner cancels the consumers, while there is a        *)
(* connection; the callbacks go on, until the broker closes it.            *)
Shutdown(p) ==
  /\ link[p] # "closed" /\ p \notin closing
  /\ closing' = closing \cup {p}
  /\ consuming' = IF link[p] = "up" THEN consuming \ {p} ELSE consuming
  /\ UNCHANGED <<broker, link, due, slot, history, faults, aborts>>

Close(p) ==
  /\ link[p] # "closed" /\ p \in closing
  /\ link' = [link EXCEPT ![p] = "closed"]
  /\ due' = due \ {p} /\ consuming' = consuming \ {p}
  /\ PutBack(p) /\ Outlive(p)
  /\ UNCHANGED <<closing, faults, aborts>>

Answer(t) == Ack(t) \/ Reject(t) \/ Publish(t) \/ PublishFails(t) \/ Nack(t)
TaskStep(t) == HandlerReturns(t) \/ HandlerRaises(t) \/ HandlerAborts(t) \/ Answer(t)
ProcStep(p) == \/ Connect(p) \/ Setup(p) \/ SetupFails(p)
               \/ ConnectionLost(p) \/ Crash(p) \/ Shutdown(p) \/ Close(p)

Next == \/ \E p \in Procs : ProcStep(p) \/ \E t \in Tasks, c \in Copies : Deliver(p, t, c)
        \/ \E t \in Tasks : TaskStep(t)
        \/ \E c \in Copies : RetryDue(c)

(***************************************************************************)
(* The broker delivers, connections come back, delays end, handlers end    *)
(* and callbacks go on.  Faults and shutdowns are nobody's duty.           *)
(***************************************************************************)
Fairness ==
  /\ \A p \in Procs : WF_vars(Connect(p)) /\ WF_vars(Setup(p))
  /\ \A c \in Copies : /\ WF_vars(RetryDue(c))
                       /\ WF_vars(\E p \in Procs, t \in Tasks : Deliver(p, t, c))
  /\ \A t \in Tasks : WF_vars(HandlerReturns(t) \/ HandlerRaises(t)) /\ WF_vars(Answer(t))

Spec == Init /\ [][Next]_vars
FairSpec == Spec /\ Fairness
-----------------------------------------------------------------------------
InBroker(m) == \E c \in Copies : /\ Body(c) = m
                                 /\ \/ ready[c] > 0 \/ delayed[c] > 0
                                    \/ \E p \in Procs : unacked[p][c] > 0
GivenUp(m) == m \in dead \cup dropped

(* No message gets lost between its queues, whatever fails in between: one *)
(* that was neither handled nor given up is still kept by the broker.      *)
NothingLost == \A m \in Msgs : m \in good \/ GivenUp(m) \/ InBroker(m)

(* Nothing is given up early: only a permanent error, or the failure of    *)
(* MaxRetries + 1 calls, makes a dead letter of a message.                 *)
EarnedItsEnd == \A m \in Msgs :
  GivenUp(m) => m \in Permanent \/ \A h \in 0..MaxRetries : calls[<<m, h>>] > 0

(* Attempts are bounded although copies are redelivered and duplicated: an *)
(* attempt is made once for every failure of the one before it (the first  *)
(* just once), and again only when its copy went back to the queue.        *)
Before(c) == IF Header(c) = 0 THEN 1 ELSE calls[<<Body(c), Header(c) - 1>>]
AttemptsBounded == \A c \in Copies : calls[c] <= Before(c) + again[c]

(* Every message is handled or given up in the end, unless the application *)
(* stops, a handler that ended in CancelledError left it unanswered, or a  *)
(* failed _setup left a process without its consumer.                      *)
LeftBehind(m) ==
  \E p \in Procs, c \in Copies : /\ Body(c) = m /\ unacked[p][c] > 0
                                 /\ \A t \in Tasks : slot[t] # Idle => slot[t].copy # c

Deaf == \E p \in Procs : link[p] = "up" /\ p \notin due \cup consuming \cup closing

Settles == \A m \in Msgs :
  <>(m \in good \/ GivenUp(m) \/ LeftBehind(m) \/ Deaf \/ closing = Procs)

(* What consumers.py says at its head (32-34): requeue=True is not used,   *)
(* as a message that cannot be handled would go round for ever.  A copy    *)
(* goes back with a lost connection only.                                  *)
NeverRequeued == [][\A t \in Tasks : again' # again => ~Nack(t)]_vars
=============================================================================
