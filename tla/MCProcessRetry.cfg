SPECIFICATION PrepSpec
CONSTANTS
  Items = {i1, i2}
  Keys = {k1, k2}
  e1 = e1
  f1 = f1
  Flows = {f1}
  Engines = {e1}
  Admins = {}
  FlowOf <- MCFlowOf
  NoKey = NoKey
  NoFlow = NoFlow
  MaxEvents = 4
  Unit = 48
  Evaluates <- Evaluation
  Packets = {p1, p2}
  Cases <- MCCases
  MaxAttempts = 2
  MaxFaults = 1
  Groups = {g1, g2}
  RowCounts = {0, 1, 3}
  Ratios <- MCRatios
  Draws <- MCDraws
  ConcurrentTasks = 1
  PartAttempts = 2
  MaxProblems <- MCProblems
  Nobody = Nobody
INVARIANT
  EveryKeyArrives
CHECK_DEADLOCK FALSE
