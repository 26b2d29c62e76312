CONSTANTS
  Workers = {w1, w2, w3}
  MaxTasks = 4
SPECIFICATION FairSpec
INVARIANTS
  TasksInv
PROPERTIES
  OwnerReturns
CHECK_DEADLOCK FALSE
