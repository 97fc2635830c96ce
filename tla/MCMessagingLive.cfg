SPECIFICATION MessagingFairSpec
CONSTANTS
  NULL = NULL
  Parts = {"replies", "consumers", "emits", "asks", "partition", "kafka", "pubsub", "mqtt"}
  MaxCallers = 2
  MaxCalls = 2
  Emitters = {"a"}
  Askers = {"c"}
  Op <- TwoExchanges
  OnServer <- NoneThere
  Hooks = {"consumers"}
  Parallel = 1
  Losses = 1
  TaskCalls = 1
  Attempts = 1
  Slots = 2
  ConsumerProcs = {"p"}
  Listeners = {"p", "q"}
  Starts = 2
  HandlerFaults = 2
  KafkaCalls = 2
  RedisLosses = 2
  Orders = {"order"}
  Faults = 1
  Aborts = 0
  Moves = 0
  Records = 1
  Partners = {"p", "q"}
  KafkaCallers = {"a"}
  OtherTopic = "p"
  RedisMessages = 1
  RedisCalls = 1
  RedisCallers = {}
  Channel <- ChannelEach
  MqttCallers = {"x"}
  MqttStream <- OnePublished
  MqttSubs = 3
  MqttFilters <- TwoLevels
  OnTopics <- FewTopics
  Dollar = {"$s"}
  MqttHandlers <- WideAndNarrow
  MqttWants <- WideOrNarrow
  MqttResponders = {"narrow"}
  MqttPattern <- OutAndIn
  MqttInside <- InNoHandler
PROPERTIES MessagingLives
CHECK_DEADLOCK FALSE
