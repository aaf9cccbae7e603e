SPECIFICATION Spec
CONSTANTS
  p1 = p1
  p2 = p2
  p3 = p3
  Procs = {p1, p2, p3}
  Readers = {p1, p2}
  Writers = {p2, p3}
  Pollers = {p1}
  NoProc = NoProc
  MAX_BYTES = 2
  MAX_MSG = 2
  Counts = {0, 2, 3}
  MaxWrites = 3
INVARIANT TypeOK
INVARIANT StreamInOrder
INVARIANT BytesExact
INVARIANT SoftCapacity
INVARIANT ReaderNotStranded
INVARIANT WriterNotStranded
INVARIANT PollerNotStranded
 
PROPERTY ImplementsQueue
