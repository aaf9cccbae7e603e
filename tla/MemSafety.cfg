SPECIFICATION Spec
CONSTANTS
  DEFAULT_MEM_SIZE = 6
  MIN_SLICE = 1
  MemSizes = {0, 7}
  Requests = {0, 1, 2, 3, 4}
  Garbage = {0}
  MallocFails = TRUE
  MaxPid = 4
INVARIANT BlocksDisjoint
 
 
PROPERTY FitIsRight
PROPERTY FreeMemMerges
PROPERTY KillFreesItsCells
