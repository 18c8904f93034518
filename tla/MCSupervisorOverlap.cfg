SPECIFICATION Spec
CONSTANTS
  admin = admin
  other = other
  Callers = {admin, other}
  Usages <- TwoOperators
  MaxTasks = 2
INVARIANT
  OneEngine
CHECK_DEADLOCK FALSE
