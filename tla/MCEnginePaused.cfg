SPECIFICATION Spec
CONSTANTS
  p1 = p1
  p2 = p2
  p3 = p3
  Processors <- ChainProcessors
  Connections <- ChainConnections
  Depth <- ChainDepth
  QueueCapacity = 1
  MaxConcurrency = 3
  Ordering <- HandlerPreserved
  ConcurrentTasks <- TwoTasks
  MaximumInFlight <- SinkMaximum
  TimeoutSet = {p2}
  MaximumAttempts = 1
  Units = 3
  PartitionKeys = {}
  NoKey = NoKey
  DomainMemory = FALSE
  Commands = {"pause", "resume"}
  MaxCommands = 3
  MaxRuns = 1
  MaxRows = 3
INVARIANTS
  MemoryBounded
  EndsRightly
CHECK_DEADLOCK FALSE
