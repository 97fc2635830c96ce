----------------------------- MODULE KafkaBroker -----------------------------
(***************************************************************************)
(* infrastructure/kafka/broker.py: the producer and what watches the       *)
(* connection, and request/reply: send() makes one consumer for the reply  *)
(* topics, moves it to their ends and starts the loop that reads them.     *)
(***************************************************************************)
EXTENDS Integers, FiniteSets, Sequences

CONSTANTS NULL,
          Callers, Topic,       \* tasks that call send(); the reply topic of each
          Exist,                \* reply topics the cluster has, or makes on demand
          Unreliable,           \* TRUE: starting, seeking and reading may fail
          MaxLosses, MaxCalls   \* bounds

VARIABLES server, losses, phase,  \* "new", "open", "closing", "rpc closed", "closed"
          producer, connected, supervisor, health, ready,  \* ready: hooks were run
          consumer,             \* _rpc_consumer: "none", "made", "started"
          topics, assigned,     \* _rpc_topics; what the consumer reads
          reading,              \* the reply loop runs
          log, position,        \* topic -> replies (callers' calls); read up to
          lock, caller          \* _rpc_lock; caller -> [at, calls, open, outcome]

link == << server, losses, phase, producer, connected, supervisor, health, ready >>
replies == << consumer, topics, assigned, reading, log, position >>
vars == << link, replies, lock, caller >>

Topics == {Topic[c] : c \in Callers}
Closing == phase \notin {"new", "open"}

Init == /\ server \in BOOLEAN /\ losses = 0 /\ phase = "new"
        /\ producer = FALSE /\ connected = FALSE /\ supervisor = "none" /\ health = "none"
        /\ ready = FALSE
        /\ consumer = "none" /\ topics = {} /\ assigned = {} /\ reading = FALSE
        /\ log = [t \in Topics |-> << >>] /\ position = [t \in Topics |-> 0]
        /\ lock = NULL
        /\ caller = [c \in Callers |-> [at |-> "idle", calls |-> 0, open |-> FALSE, outcome |-> << >>]]

-----------------------------------------------------------------------------
(* _try_connect: producer.start(), the hooks, the health check.            *)
Connect == IF server
           THEN /\ producer' = TRUE /\ connected' = TRUE /\ ready' = TRUE
                /\ health' = "sleep" /\ supervisor' = "none"
           ELSE supervisor' = "sleep" /\ UNCHANGED << producer, connected, ready, health >>

Startup == /\ phase = "new" /\ phase' = "open" /\ Connect
           /\ UNCHANGED << server, losses, replies, lock, caller >>

Reconnect == /\ supervisor = "sleep" /\ ~ Closing /\ Connect
             /\ UNCHANGED << server, losses, phase, replies, lock, caller >>

(* _health_loop: asks for the metadata.                                    *)
Beat == /\ health = "sleep" /\ ~ Closing /\ health' = "ask"
        /\ UNCHANGED << server, losses, phase, producer, connected, supervisor, ready, replies, lock, caller >>
Beaten == /\ health = "ask" /\ ~ Closing /\ health' = "sleep" /\ connected' = server
          /\ UNCHANGED << server, losses, phase, producer, supervisor, ready, replies, lock, caller >>

Lose == /\ server /\ losses < MaxLosses /\ server' = FALSE /\ losses' = losses + 1
        /\ UNCHANGED << phase, producer, connected, supervisor, health, ready, replies, lock, caller >>
Return == /\ ~ server /\ server' = TRUE
          /\ UNCHANGED << losses, phase, producer, connected, supervisor, health, ready, replies, lock, caller >>

-----------------------------------------------------------------------------
At(c, at) == caller' = [caller EXCEPT ![c].at = at]
Fail(c) == lock' = NULL /\ At(c, "idle")

Send(c) == /\ phase = "open" /\ caller[c].at = "idle" /\ caller[c].calls < MaxCalls
           /\ caller' = [caller EXCEPT ![c].at = "lock", ![c].calls = @ + 1, ![c].outcome = << >>]
           /\ UNCHANGED << link, replies, lock >>

(* Past _listen_for_replies: a place in the book, then the publish.        *)
Ready(c) == /\ lock' = NULL
            /\ caller' = [caller EXCEPT ![c].at = "publish", ![c].open = TRUE]

(* The lock; a consumer is made if there is none; a topic that is known is *)
(* being read.                                                             *)
Locked(c) ==
  /\ caller[c].at = "lock" /\ lock = NULL
  /\ \/ consumer = "none" /\ consumer' = "made" /\ lock' = c /\ At(c, "start")
     \/ consumer # "none" /\ Topic[c] \in topics /\ Ready(c) /\ UNCHANGED consumer
     \/ consumer # "none" /\ Topic[c] \notin topics /\ lock' = c /\ At(c, "assign") /\ UNCHANGED consumer
  /\ UNCHANGED << link, topics, assigned, reading, log, position >>

(* consumer.start(); one that failed is kept.                              *)
Started(c) ==
  /\ caller[c].at = "start"
  /\ IF server THEN consumer' = "started" /\ At(c, "assign") /\ UNCHANGED lock
     ELSE Unreliable /\ Fail(c) /\ UNCHANGED consumer
  /\ UNCHANGED << link, topics, assigned, reading, log, position >>

(* A consumer that never started knows no topic, nor does a cluster that   *)
(* has none. The topic is noted, then all of them are moved to their ends. *)
Assign(c) ==
  /\ caller[c].at = "assign"
  /\ IF consumer = "started" /\ Topic[c] \in Exist
     THEN /\ topics' = topics \cup {Topic[c]} /\ assigned' = topics' /\ At(c, "seek")
          /\ UNCHANGED lock
     ELSE Fail(c) /\ UNCHANGED << topics, assigned >>
  /\ UNCHANGED << link, consumer, reading, log, position >>

Sought(c) ==
  /\ caller[c].at = "seek"
  /\ IF server
     THEN /\ position' = [t \in Topics |-> IF t \in assigned THEN Len(log[t]) ELSE position[t]]
          /\ reading' = TRUE /\ Ready(c)
     ELSE Unreliable /\ Fail(c) /\ UNCHANGED << reading, position >>
  /\ UNCHANGED << link, consumer, topics, assigned, log >>

(* publish(): acknowledged by the cluster, or an error.                    *)
Published(c, acked) ==
  /\ caller[c].at = "publish" /\ (acked => producer /\ server)
  /\ IF acked THEN At(c, "wait")
     ELSE caller' = [caller EXCEPT ![c].at = "idle", ![c].open = FALSE]
  /\ UNCHANGED << link, replies, lock >>

(* The other side writes its reply in the log.                             *)
Answer(c) ==
  /\ server /\ caller[c].at = "wait" /\ caller[c].open
  /\ LET reply == << c, caller[c].calls >>
     IN  /\ reply \notin {log[Topic[c]][i] : i \in DOMAIN log[Topic[c]]}
         /\ log' = [log EXCEPT ![Topic[c]] = Append(@, reply)]
  /\ UNCHANGED << link, consumer, topics, assigned, reading, position, lock, caller >>

(* Bug: whatever comes is for whoever waits. *)
Fits_Any(reply, c) == caller[c].open
Fits(reply, c) == reply = << c, caller[c].calls >> /\ caller[c].open

(* _reply_loop: a reply nobody waits for (any more) is passed over.        *)
Read(t) ==
  /\ reading /\ server /\ t \in assigned /\ position[t] < Len(log[t]) /\ ~ Closing
  /\ position' = [position EXCEPT ![t] = @ + 1]
  /\ LET reply == log[t][position[t] + 1]
     IN  caller' = [c \in Callers |-> IF Fits(reply, c)
                                      THEN [caller[c] EXCEPT !.open = FALSE, !.outcome = reply]
                                      ELSE caller[c]]
  /\ UNCHANGED << link, consumer, topics, assigned, reading, log, lock >>

Resolve(outcome) == caller' = [c \in Callers |->
  IF caller[c].open THEN [caller[c] EXCEPT !.open = FALSE, !.outcome = outcome] ELSE caller[c]]

(* An error ends the loop and wakes those who wait.                        *)
LoopDies == /\ reading /\ ~ server /\ Unreliable /\ reading' = FALSE
            /\ IF Closing THEN UNCHANGED caller ELSE Resolve(<< "lost" >>)
            /\ UNCHANGED << link, consumer, topics, assigned, log, position, lock >>

Wakes(c) == /\ caller[c].at = "wait" /\ ~ caller[c].open /\ At(c, "idle")
            /\ UNCHANGED << link, replies, lock >>
GivesUp(c) == /\ caller[c].at = "wait" /\ caller[c].open
              /\ caller' = [caller EXCEPT ![c].at = "idle", ![c].open = FALSE]
              /\ UNCHANGED << link, replies, lock >>

-----------------------------------------------------------------------------
Shutdown == /\ phase = "open" /\ phase' = "closing"
            /\ supervisor' = "none" /\ health' = "none" /\ connected' = FALSE
            /\ UNCHANGED << server, losses, producer, ready, replies, lock, caller >>
CloseRpc == /\ phase = "closing" /\ phase' = "rpc closed" /\ Resolve(<< "cancelled" >>)
            /\ reading' = FALSE /\ consumer' = "none" /\ topics' = {} /\ assigned' = {}
            /\ UNCHANGED << server, losses, producer, connected, supervisor, health, ready, log, position, lock >>
Closed == /\ phase = "rpc closed" /\ phase' = "closed" /\ producer' = FALSE
          /\ UNCHANGED << server, losses, connected, supervisor, health, ready, replies, lock, caller >>

Next == \/ Startup \/ Reconnect \/ Beat \/ Beaten \/ Lose \/ Return
        \/ LoopDies \/ Shutdown \/ CloseRpc \/ Closed
        \/ \E c \in Callers : \/ Send(c) \/ Locked(c) \/ Started(c) \/ Assign(c) \/ Sought(c)
                              \/ Published(c, TRUE) \/ Published(c, FALSE)
                              \/ Answer(c) \/ Wakes(c) \/ GivesUp(c)
        \/ \E t \in Topics : Read(t)

(* What runs goes on: the loops of the client, the calls up to their       *)
(* publish, the other side's answer.                                       *)
Fairness == /\ WF_vars(Reconnect) /\ WF_vars(Beat) /\ WF_vars(Beaten)
            /\ \A t \in Topics : WF_vars(Read(t))
            /\ \A c \in Callers : WF_vars(Answer(c)) /\ WF_vars(Wakes(c))

Spec == Init /\ [][Next]_vars /\ Fairness

-----------------------------------------------------------------------------
(* The answer a call gets is that of the call, and a failure of the        *)
(* connection never passes for one.                                        *)
OwnAnswer == \A c \in Callers :
  caller[c].outcome \in {<< >>, << "lost" >>, << "cancelled" >>, << c, caller[c].calls >>}

(* While the client is open a call that waits has a loop that reads its    *)
(* reply topic from where its reply will be.                               *)
NoDeafWait == phase = "open" => \A c \in Callers : caller[c].at = "wait" /\ caller[c].open =>
  /\ reading /\ Topic[c] \in assigned
  /\ \A i \in 1..position[Topic[c]] : log[Topic[c]][i] # << c, caller[c].calls >>

(* Either the hooks have been run or the supervisor will see to it.        *)
HooksAreDue == phase = "open" => (ready <=> producer) /\ (ready <=> supervisor = "none")

BrokerSafe == OwnAnswer /\ HooksAreDue /\ (~ Unreliable => NoDeafWait)

(* Where nothing fails, a call that waits is answered.                     *)
Answered == \A c \in Callers :
  (caller[c].at = "wait" /\ caller[c].open /\ phase = "open" /\ ~ Unreliable)
    ~> (caller[c].at = "idle" \/ ~ server \/ phase # "open")

(* broker_status() tells the truth in the end.                             *)
StatusIsTrue == \A up \in BOOLEAN :
  <>[](server = up /\ phase = "open" /\ producer) => <>[](connected = up)
=============================================================================
