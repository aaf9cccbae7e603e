SPECIFICATION Spec
CONSTANTS
  DEFAULT_MEM_SIZE = 6
  MIN_SLICE = 1
  MemSizes = {0, 5}
  Requests = {1, 2, 3}
  Garbage = {}
  MallocFails = FALSE
  MaxPid = 4
PROPERTY FailureTakesNothing
