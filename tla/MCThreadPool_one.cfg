SPECIFICATION Spec
CONSTANTS
  Callers = {c1}
  Workers <- OneWorkers
  PARALLEL_FOR_MAX_THREADS = 3
  NThreads = 3
  Inputs <- OneCallerInputs
  MaxLength = 4
  MaxCalls = 3
  Debugging = FALSE
  CreateMayFail = FALSE
  SpuriousWakeups = TRUE
  Null = Null
INVARIANT WorkersJoinable
PROPERTY CallsAndExitEnd
