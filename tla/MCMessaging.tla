---------------------------- MODULE MCMessaging ----------------------------
(***************************************************************************)
(* The parts of infrastructure/ that exchange messages, checked side by    *)
(* side: the book of pending replies (this module extends it) and the      *)
(* RabbitMQ, Kafka, Redis and MQTT modules.  A behaviour is one of one     *)
(* part, which `part' names; the others stay where they began.             *)
(***************************************************************************)
EXTENDS PendingReplies, FiniteSets, Sequences

CONSTANTS NULL,
          Parts,                    \* the parts to check
          Emitters, Askers,         \* tasks that publish on RabbitMQ, or ask
          Op, OnServer,             \* what they do, and the exchanges there, as in RabbitBroker
          Hooks, Parallel,          \* its ready hooks; the concurrency of emit_many
          Losses, TaskCalls,           \* bounds: losses of a connection, calls of a task
          Orders, Faults, Aborts,   \* RabbitMQ messages; bounds: faults, cancelled handlers
          Attempts, Slots,          \* max_retries and prefetch
          ConsumerProcs,            \* the processes that share a RabbitMQ queue
          Listeners, Starts, HandlerFaults, \* processes on one queue; bounds: starts, failed messages
          Records, Partners, Moves, \* bounds of the Kafka partition; its processes
          KafkaCallers, OtherTopic, \* Kafka callers; the reply topic of all but "a"
          KafkaCalls,               \* bound: calls of each
          RedisLosses,              \* bound: losses of the connection to Redis
          RedisMessages, RedisCalls,\* bounds: messages; commands
          RedisCallers, Channel,    \* tasks that call send(), and on which channel
          MqttFilters, OnTopics, Dollar, \* MQTT filters, topics, levels that begin with $
          MqttSubs,                 \* bound: filters asked for
          MqttHandlers, MqttWants, MqttResponders, \* handlers, what they want, who answers
          MqttCallers, MqttPattern, MqttInside,    \* tasks that call send(), as in MqttClient
          MqttStream                \* the topics on which others publish

VARIABLE part

(* -------------------------------------------------------------- RabbitMQ *)
ConsumerTasks == 1..Slots
ConsumerCopies == Orders \X (0..Attempts)
VARIABLES cReady, cDelayed, cUnacked, cDead, cDropped, cLink, cDue, cConsuming, cClosing,
          cSlot, cCalls, cGood, cAgain, cFaults, cAborts
consumerVars == << cReady, cDelayed, cUnacked, cDead, cDropped, cLink, cDue, cConsuming,
                   cClosing, cSlot, cCalls, cGood, cAgain, cFaults, cAborts >>
Consumers == INSTANCE RabbitConsumers WITH
  Msgs <- Orders, Permanent <- Orders \cap {"junk"}, Procs <- ConsumerProcs, MaxTasks <- Slots, None <- NULL,
  MaxRetries <- Attempts, DeadLetter <- TRUE, Prefetch <- Slots, MaxFaults <- Faults, MaxAborts <- Aborts,
  ready <- cReady, delayed <- cDelayed, unacked <- cUnacked, dead <- cDead,
  dropped <- cDropped, link <- cLink, due <- cDue, consuming <- cConsuming,
  closing <- cClosing, slot <- cSlot, calls <- cCalls, good <- cGood, again <- cAgain,
  faults <- cFaults, aborts <- cAborts
ASSUME ConsumersInstance == Consumers!ConsumersAssumption

RabbitUsers == Emitters \cup Askers
(* An exchange is one to publish to or one to ask on.                      *)
ASSUME RabbitAssumption ==
  /\ NULL \notin RabbitUsers /\ Parallel \in Nat \ {0}
  /\ OnServer \in [DOMAIN OnServer -> {OnServer[n] : n \in DOMAIN OnServer}]
  /\ \A u \in RabbitUsers : /\ Op[u].op \in {"publish", "send"} /\ Op[u].batch \in Nat
                            /\ Op[u].name \in DOMAIN OnServer
  /\ \A u, v \in RabbitUsers : Op[u].name = Op[v].name => Op[u].op = Op[v].op
VARIABLES ePhase, eServer, eUp, eEpoch, eSupervisor, eHooks, eRunning, eRan, eExchanges,
          eKnown, eLock, eRpc, eChannels, eDead, eRefused, eTask, eLosses
rabbitVars == << ePhase, eServer, eUp, eEpoch, eSupervisor, eHooks, eRunning, eRan, eExchanges,
                 eKnown, eLock, eRpc, eChannels, eDead, eRefused, eTask, eLosses >>
Rabbit == INSTANCE RabbitBroker WITH
  Hooks <- Hooks, Users <- RabbitUsers, Op <- Op, OnServer <- OnServer,
  Concurrency <- Parallel, MaxLosses <- Losses, MaxCalls <- TaskCalls,
  phase <- ePhase, server <- eServer, up <- eUp, epoch <- eEpoch, supervisor <- eSupervisor,
  hooks <- eHooks, running <- eRunning, ran <- eRan, exchanges <- eExchanges, known <- eKnown,
  lock <- eLock, rpc <- eRpc, channels <- eChannels, dead <- eDead, refused <- eRefused,
  task <- eTask, losses <- eLosses
VARIABLES qAt, qMain, qListening, qRetry, qDlq, qLetters, qLost, qDeleted, qStarts, qFailures
queueVars == << qAt, qMain, qListening, qRetry, qDlq, qLetters, qLost, qDeleted, qStarts,
                qFailures >>
Queues == INSTANCE RabbitQueues WITH
  Procs <- Listeners, Overlap <- FALSE, MaxStarts <- Starts, MaxFailures <- HandlerFaults,
  at <- qAt, main <- qMain, listening <- qListening, retry <- qRetry, dlq <- qDlq,
  letters <- qLetters, lost <- qLost, deleted <- qDeleted, starts <- qStarts,
  failures <- qFailures

(* ----------------------------------------------------------------- Kafka *)
ASSUME PartitionAssumption == NULL \notin Partners /\ Records \in 0..3
VARIABLES kProc, kOwner, kCommitted, kMoves, kCrashes, kTasks, kSettled, kDeliveries
partitionVars == << kProc, kOwner, kCommitted, kMoves, kCrashes, kTasks, kSettled, kDeliveries >>
Partition == INSTANCE KafkaConsumers WITH
  Procs <- Partners, Body <- SubSeq(<< "good", "junk", "invalid" >>, 1, Records), MaxRetries <- Attempts, DeadLetter <- TRUE, MaxMoves <- Moves, MaxCrashes <- Losses,
  proc <- kProc, owner <- kOwner, committed <- kCommitted, moves <- kMoves,
  crashes <- kCrashes, tasks <- kTasks, settled <- kSettled, deliveries <- kDeliveries
VARIABLES bServer, bLosses, bPhase, bProducer, bConnected, bSupervisor, bHealth, bReady,
          bConsumer, bTopics, bAssigned, bReading, bLog, bPosition, bLock, bCaller
kafkaVars == << bServer, bLosses, bPhase, bProducer, bConnected, bSupervisor, bHealth, bReady,
                bConsumer, bTopics, bAssigned, bReading, bLog, bPosition, bLock, bCaller >>
ReplyTopic == [c \in KafkaCallers |-> IF c = "a" THEN "p" ELSE OtherTopic]
ASSUME KafkaAssumption == NULL \notin KafkaCallers
Kafka == INSTANCE KafkaBroker WITH
  Callers <- KafkaCallers, Topic <- ReplyTopic, Exist <- {"p", "q"}, Unreliable <- FALSE,
  MaxLosses <- Losses, MaxCalls <- KafkaCalls,
  server <- bServer, losses <- bLosses, phase <- bPhase, producer <- bProducer,
  connected <- bConnected, supervisor <- bSupervisor, health <- bHealth, ready <- bReady,
  consumer <- bConsumer, topics <- bTopics, assigned <- bAssigned, reading <- bReading,
  log <- bLog, position <- bPosition, lock <- bLock, caller <- bCaller

(* ----------------------------------------------------------------- Redis *)
VARIABLES rServer, rLosses, rPhase, rHealthy, rConnected, rSupervisor, rHealth, rCommand,
          rReader, rHeard, rPublished, rPubsub, rChannels, rMade, rSubs, rBroken, rLoops,
          rInbox, rLock, rCaller
redisVars == << rServer, rLosses, rPhase, rHealthy, rConnected, rSupervisor, rHealth,
                rCommand, rReader, rHeard, rPublished, rPubsub, rChannels, rMade, rSubs,
                rBroken, rLoops, rInbox, rLock, rCaller >>
Redis == INSTANCE RedisClient WITH
  Callers <- RedisCallers, Op <- Channel, MaxLosses <- RedisLosses, MaxCalls <- RedisCalls,
  MaxMessages <- RedisMessages,
  server <- rServer, losses <- rLosses, phase <- rPhase, healthy <- rHealthy,
  connected <- rConnected, supervisor <- rSupervisor, health <- rHealth, command <- rCommand,
  reader <- rReader, heard <- rHeard, published <- rPublished, pubsub <- rPubsub,
  channels <- rChannels, made <- rMade, subs <- rSubs, broken <- rBroken, loops <- rLoops,
  inbox <- rInbox, lock <- rLock, caller <- rCaller

(* ------------------------------------------------------------------ MQTT *)
VARIABLES tSubs
filterVars == << tSubs >>
Filtering == INSTANCE MqttTopics WITH
  Filters <- MqttFilters, Topics <- OnTopics, System <- Dollar, MaxSubs <- MqttSubs,
  subs <- tSubs
ASSUME FilteringInstance == Filtering!TopicsAssumption
VARIABLES mSubs, mPhase, mRegistered, mLoop, mSession, mClient, mWire, mLosses, mTodo, mServed,
          mConnected, mStatus, mInbox, mWork, mSent, mHandled, mReplyTopics, mCaller,
          mRequests
mqttVars == << mSubs, mPhase, mRegistered, mLoop, mSession, mClient, mWire, mLosses, mTodo,
               mServed, mConnected, mStatus, mInbox, mWork, mSent, mHandled, mReplyTopics,
               mCaller, mRequests >>
Mqtt == INSTANCE MqttClient WITH
  Filters <- {}, Topics <- {}, System <- Dollar, MaxSubs <- Len(MqttHandlers) + Cardinality(MqttCallers),
  Handlers <- MqttHandlers, Wants <- MqttWants, Responders <- MqttResponders,
  Callers <- MqttCallers, Pattern <- MqttPattern, Inside <- MqttInside,
  Stream <- MqttStream, MaxLosses <- Losses, MaxCalls <- TaskCalls,
  subs <- mSubs, phase <- mPhase, registered <- mRegistered, loop <- mLoop,
  session <- mSession, client <- mClient, wire <- mWire, losses <- mLosses, todo <- mTodo,
  served <- mServed, connected <- mConnected, status <- mStatus, inbox <- mInbox,
  work <- mWork, sent <- mSent, handled <- mHandled, replyTopics <- mReplyTopics,
  caller <- mCaller, requests <- mRequests
ASSUME MqttInstance == Mqtt!ClientAssumption

(* What the configurations give these constants.                           *)
O(op, name, kind, batch) == [op |-> op, name |-> name, kind |-> kind, batch |-> batch]
TwoExchanges == [a |-> O("publish", "x", "direct", 2), b |-> O("publish", "x", NULL, 1),
                 c |-> O("send", "y", NULL, 1), d |-> O("send", "y", NULL, 1)]
NoneThere == [x |-> NULL, y |-> NULL]
ChannelEach == [a |-> "p", b |-> "q"]
TwoLevels == {<< "#" >>, << "+" >>, << "+", "b" >>, << "+", "#" >>, << "a" >>, << "a", "#" >>,
              << "a", "+" >>, << "a", "b" >>, << "a", "+", "#" >>, << "$s", "a" >>}
FewTopics == {<< "a" >>, << "b" >>, << "a", "b" >>, << "a", "a" >>, << "b", "b" >>,
              << "a", "b", "a" >>, << "$s", "a" >>, << "a", "+" >>}
WideAndNarrow == << "wide", "narrow" >>
WideOrNarrow == [wide |-> [filter |-> << "a", "#" >>, qos |-> 0], narrow |-> [filter |-> << "a", "b" >>, qos |-> 1]]
OutAndIn == [x |-> << "p" >>, y |-> << "a", "b" >>]
InNoHandler == [x |-> NULL, y |-> NULL]
OnePublished == << << "a", "b" >> >>
TwoPublished == << << "a", "b" >>, << "a" >> >>

(* ----------------------------------------------------------- composition *)
(* Servers are there in the parts that stay idle, and when calls to Redis  *)
(* begin; that it comes up late is left to the part "pubsub".              *)
MessagingInit ==
  /\ part \in Parts
  /\ Init /\ Consumers!Init /\ Rabbit!Init /\ Queues!Init
  /\ Partition!Init /\ Kafka!Init /\ Redis!Init /\ Filtering!TopicsInit /\ Mqtt!Init
  /\ part \notin {"emits", "asks"} => eServer
  /\ part # "kafka" => bServer
  /\ part # "pubsub" => rServer

Rest == /\ UNCHANGED part
        /\ IF part = "replies" THEN TRUE ELSE UNCHANGED vars
        /\ IF part = "consumers" THEN TRUE ELSE UNCHANGED consumerVars
        /\ IF part \in {"emits", "asks"} THEN TRUE ELSE UNCHANGED rabbitVars
        /\ IF part = "queues" THEN TRUE ELSE UNCHANGED queueVars
        /\ IF part = "partition" THEN TRUE ELSE UNCHANGED partitionVars
        /\ IF part = "kafka" THEN TRUE ELSE UNCHANGED kafkaVars
        /\ IF part \in {"pubsub", "redis"} THEN TRUE ELSE UNCHANGED redisVars
        /\ IF part = "filters" THEN TRUE ELSE UNCHANGED filterVars
        /\ IF part = "mqtt" THEN TRUE ELSE UNCHANGED mqttVars

(* Those that do not take part.                                            *)
Silent(users) == \A u \in users : eTask'[u] = eTask[u]

MessagingNext == \/ part = "replies" /\ Next /\ Rest
                 \/ part = "consumers" /\ Consumers!Next /\ Rest
                 \/ part = "emits" /\ Rabbit!Next /\ Silent(Askers) /\ Rest
                 \/ part = "asks" /\ Rabbit!Next /\ Silent(Emitters) /\ Rest
                 \/ part = "queues" /\ Queues!Next /\ Rest
                 \/ part = "partition" /\ Partition!Next /\ Rest
                 \/ part = "kafka" /\ Kafka!Next /\ Rest
                 \/ part = "pubsub" /\ Redis!Next /\ UNCHANGED rCaller /\ Rest
                 \/ part = "redis" /\ Redis!Next /\ rLosses' < RedisLosses /\ UNCHANGED rPublished /\ Rest
                 \/ part = "filters" /\ Filtering!Wanted /\ Rest
                 \/ part = "mqtt" /\ Mqtt!Next /\ Rest

messagingVars == << part, vars, consumerVars, rabbitVars, queueVars, partitionVars, kafkaVars,
                    redisVars, filterVars, mqttVars >>
MessagingSpec == MessagingInit /\ [][MessagingNext]_messagingVars

(* Those of the fair steps that are possible from the start are bound to   *)
(* their part.                                                             *)
MessagingFairSpec ==
  /\ MessagingSpec
  /\ WF_vars(phase = "closing" /\ OnClose) /\ WF_vars(Shutdown)
  /\ \A c \in Callers : WF_vars(Published(c) \/ PublishFails(c)) /\ WF_vars(Wakes(c))
  /\ \A p \in ConsumerProcs : /\ WF_consumerVars(part = "consumers" /\ Consumers!Connect(p))
                               /\ WF_consumerVars(Consumers!Setup(p))
  /\ \A c \in ConsumerCopies :
       /\ WF_consumerVars(Consumers!RetryDue(c))
       /\ WF_consumerVars(\E p \in ConsumerProcs, t \in ConsumerTasks : Consumers!Deliver(p, t, c))
  /\ \A t \in ConsumerTasks : /\ WF_consumerVars(Consumers!HandlerReturns(t) \/ Consumers!HandlerRaises(t))
                               /\ WF_consumerVars(Consumers!Answer(t))
  /\ WF_partitionVars(Partition!Expire)
  /\ \A p \in Partners :
       /\ WF_partitionVars(part = "partition" /\ Partition!Setup(p) /\ kTasks[p] = 0)
       /\ SF_partitionVars(Partition!Start(p, TRUE)) /\ WF_partitionVars(Partition!Rest(p))
       /\ WF_partitionVars(Partition!Assign(p)) /\ WF_partitionVars(Partition!Poll(p))
       /\ WF_partitionVars(Partition!Again(p)) /\ WF_partitionVars(Partition!Commit(p))
       /\ WF_partitionVars(Partition!Handled(p) \/ Partition!Permanent(p) \/ Partition!Fails(p))
       /\ WF_partitionVars(Partition!MoveToDlt(p, TRUE) \/ Partition!MoveToDlt(p, FALSE))
  /\ Rabbit!Fairness /\ Kafka!Fairness /\ Redis!Fairness /\ Mqtt!Fairness
-----------------------------------------------------------------------------
(* RabbitMQ consumers: no message is lost, none ends before its attempts   *)
(* are used up, and none has more of them than it should.                  *)
(* (rabbitmq/consumers.py 330-470.)                                        *)
ConsumersSafe ==
  Consumers!NothingLost /\ Consumers!EarnedItsEnd /\ Consumers!AttemptsBounded

(* The RabbitMQ broker: exchanges, hooks, the shared channel and what      *)
(* emit_many counts. (rabbitmq/broker.py.)                                 *)
RabbitSafe == Rabbit!RabbitSafe

(* What auto_delete cleans up is in nobody's use. (consumers.py 451-500.)  *)
NothingTaken == Queues!NothingTaken

(* A partition: records are processed in order, none is skipped, and one   *)
(* comes again only after a move or a crash. (kafka/consumers.py.)         *)
KafkaSafe == Partition!KafkaSafe

(* The Kafka broker: answers reach the caller they are for, hooks run once *)
(* per producer, and nobody waits without being heard. (kafka/broker.py.)  *)
BrokerSafe == Kafka!BrokerSafe

(* The Redis client: nobody waits deaf, one reply loop, messages in order, *)
(* hooks run after each recovery. (redis/client.py, redis/pubsub.py.)      *)
RedisSafe == Redis!RedisSafe

(* MQTT: narrowing the filters costs no handler a message or its level.    *)
(* (mqtt/patterns.py 100-116, mqtt/client.py 124-144.)                     *)
NarrowedRight == Filtering!NarrowedRight

(* The MQTT client: who hears what, who answers whom, and what is told of  *)
(* the connection. (mqtt/client.py.)                                       *)
MqttSafe == Mqtt!MqttSafe

(* What must happen does: a lost connection wakes whoever waits, every     *)
(* message settles, every call ends, listeners listen again and the status *)
(* becomes true.                                                           *)
MessagingLives == /\ LossWakes
                  /\ part = "consumers" => Consumers!Settles
                  /\ part = "partition" => Partition!PartitionMoves
                  /\ Rabbit!CallsEnd
                  /\ Kafka!Answered /\ Kafka!StatusIsTrue
                  /\ Redis!ListensAgain /\ Redis!StatusIsTrue
                  /\ Mqtt!Proceeds
=============================================================================
