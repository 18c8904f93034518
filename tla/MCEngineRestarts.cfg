SPECIFICATION FairSpec
CONSTANTS
  p1 = p1
  p2 = p2
  p3 = p3
  Processors <- ForkProcessors
  Connections <- ForkConnections
  Depth <- ForkDepth
  QueueCapacity = 2
  MaxConcurrency = 2
  Ordering <- SinkPartitioned
  ConcurrentTasks <- TwoTasks
  MaximumInFlight <- SinkMaximum
  TimeoutSet = {}
  MaximumAttempts = 0
  Units = 3
  PartitionKeys = {k1}
  NoKey = NoKey
  DomainMemory = TRUE
  Commands = {"drain", "abort", "requeue"}
  MaxCommands = 1
  MaxRuns = 2
  MaxRows = 3
INVARIANTS
  CountersMatchTasks
  LimitsRespected
  RowsMatchMemory
PROPERTIES
  UsesQueue
  RunsEnd
CHECK_DEADLOCK FALSE
