SPECIFICATION FairSpec
CONSTANTS
  t1 = t1
  t2 = t2
  t3 = t3
  t4 = t4
  t5 = t5
  Tasks <- MCTasks
  Priority <- MCPriority
  N = 2
  MaxPriority = 2
INVARIANTS
  NoIdleSlot
PROPERTIES
  EveryTaskEnds
  ImplementsSemaphore
