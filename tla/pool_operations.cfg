\* Every public operation in every interleaving, the destructor included; threads
\* come and sleep, wake and run.
SPECIFICATION Spec
CONSTANTS
  w1 = w1
  w2 = w2
  w3 = w3
  w4 = w4
  c1 = c1
  c2 = c2
  None = None
  Workers <- FourWorkers
  MaxThreadCount = 2
  Callers <- TwoCallers
  Operations <- AllOperations
  MaxTasks = 3
CHECK_DEADLOCK FALSE
INVARIANTS
  TypeOK
  QueueDiscipline
  PoolNeverShrinks
PROPERTIES
  NoUndefined
  NoStartAfterDestroy
  CancelReturns
  ImplementsExecutor
