SPECIFICATION Spec
CONSTANTS
  Callers = {c1, c2}
  Workers <- TwoWorkers
  PARALLEL_FOR_MAX_THREADS = 3
  NThreads = 2
  Inputs <- TwoCallerInputs
  MaxLength = 3
  MaxCalls = 1
  Debugging = FALSE
  CreateMayFail = TRUE
  SpuriousWakeups = FALSE
  Null = Null
INVARIANTS
  QueueExact
  SlicesAlive
PROPERTIES
  ImplementsParallelFor
  SomeCallerReturns
