SPECIFICATION FairSpec
CONSTANTS
  p1 = p1
  p2 = p2
  p3 = p3
  Processors <- LineProcessors
  Connections <- LineConnections
  Depth <- LineDepth
  QueueCapacity = 1
  MaxConcurrency = 2
  Ordering <- Unordered
  ConcurrentTasks <- TwoTasks
  MaximumInFlight <- NoMaximum
  TimeoutSet = {}
  MaximumAttempts = 0
  Units = 3
  PartitionKeys = {}
  NoKey = NoKey
  DomainMemory = FALSE
  Commands = {"drain"}
  MaxCommands = 1
  MaxRuns = 1
  MaxRows = 2
PROPERTY
  DrainingEnds
CHECK_DEADLOCK FALSE
