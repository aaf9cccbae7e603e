SPECIFICATION Spec
CONSTANTS
  Cpus = {c1, c2}
  Callers = {p1, p2}
  MaxLoads = 2
INVARIANT EntryRestored
INVARIANT RightCallee
INVARIANT WpRestored
\* After a fault the loader is gone and every caller may have crashed.
CHECK_DEADLOCK FALSE
