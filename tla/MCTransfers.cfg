SPECIFICATION Spec
CONSTANTS
  NumPackets = 2
  NumBatches = 2
  MaxAttempts = 2
  Threshold = 1
  HalfOpen = 1
  Permits = 1
  Uses <- AllUses
  NumUnits = 2
  StreamCapacity = 1
  QueueCapacity = 1
  MaxRetrials = 2
  MaxRuns = 2
  MaxPoll = 2
  MaxBreakdowns = 2
  MaxCrashes = 1
  Sources <- SourceKinds
INVARIANTS
  DeliveredWhole
  ProbesBounded
  NothingSkipped
PROPERTIES
  EveryPacketEnds
  ThreadsStop
CHECK_DEADLOCK FALSE
