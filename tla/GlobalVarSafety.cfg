SPECIFICATION RingSpec
CONSTANTS
  p1 = p1
  p2 = p2
  p3 = p3
  Procs = {p1, p2, p3}
  Readers = {p1, p2}
  Writers = {p2, p3}
  MAXNUM = 3
  Lens = {0, 1, 4}
  MaxWrites = 3
INVARIANT RingTypeOK
INVARIANT CopiesInRing
INVARIANT SleeperNotStranded
