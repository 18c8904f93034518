SPECIFICATION FairSpec
CONSTANTS
  admin = admin
  other = other
  Callers = {admin, other}
  Usages <- Operators
  MaxTasks = 3
INVARIANTS
  NoEngineAstray
PROPERTY
  CallsEnd
CHECK_DEADLOCK FALSE
