SPECIFICATION MessagingSpec
CONSTANTS
  NULL = NULL
  Parts = {"replies", "consumers", "emits", "asks", "queues", "partition", "kafka", "pubsub", "redis", "filters", "mqtt"}
  MaxCallers = 2
  MaxCalls = 3
  Emitters = {"a", "b"}
  Askers = {"c", "d"}
  Op <- TwoExchanges
  OnServer <- NoneThere
  Hooks = {"consumers"}
  Parallel = 1
  Losses = 1
  TaskCalls = 1
  Attempts = 1
  Slots = 2
  ConsumerProcs = {"p"}
  Listeners = {"p", "q"}
  Starts = 2
  HandlerFaults = 2
  KafkaCalls = 2
  RedisLosses = 2
  Orders = {"order", "junk"}
  Faults = 1
  Aborts = 1
  Moves = 1
  Records = 3
  Partners = {"p", "q"}
  KafkaCallers = {"a", "b"}
  OtherTopic = "p"
  RedisMessages = 3
  RedisCalls = 1
  RedisCallers = {"a", "b"}
  Channel <- ChannelEach
  MqttCallers = {"x", "y"}
  MqttStream <- TwoPublished
  MqttSubs = 3
  MqttFilters <- TwoLevels
  OnTopics <- FewTopics
  Dollar = {"$s"}
  MqttHandlers <- WideAndNarrow
  MqttWants <- WideOrNarrow
  MqttResponders = {"narrow"}
  MqttPattern <- OutAndIn
  MqttInside <- InNoHandler
INVARIANTS OwnReply NoLeak Reachable ConsumersSafe     RedisSafe NarrowedRight MqttSafe
CHECK_DEADLOCK FALSE
