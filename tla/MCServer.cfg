SPECIFICATION ServerSpec
CONSTANTS
  Items = {i1}
  Keys = {k1}
  e1 = e1
  e2 = e2
  Flows = {f1}
  Engines = {e1, e2}
  Admins = {a1}
  FlowOf <- MCFlowOf
  NoKey = NoKey
  NoFlow = NoFlow
  MaxEvents = 4
  f1 = f1
  FlowIds = {orders, sales}
  Callers = {ann, bob}
  MaxVersions = 2
  MaxFlows = 1
  Usages <- Users
  MaxTimers = 2
  MaxInstances = 4
  Administrators = {alice, carol}
  ServerUsages <- Served
  Names = {n1, n2}
  MaxCreates = 2
  MaxEdits = 2
  MaxConnects = 2
  NoName = NoName
  NoAdmin = NoAdmin
INVARIANTS
  RegistryMatchesEngines
  OneTimer
  AnsweredIsSaved
  DiskIsWhole
  ContentsStayTogether
PROPERTY
  ImplementsQueue
SYMMETRY Symmetric
CHECK_DEADLOCK FALSE
