SPECIFICATION FairSpec
CONSTANTS
  p1 = p1
  p2 = p2
  p3 = p3
  Procs = {p1, p2, p3}
  Readers = {p1}
  Writers = {p2, p3}
  Pollers = {}
  NoProc = NoProc
  MAX_BYTES = 2
  MAX_MSG = 2
  Counts = {1, 2}
  MaxWrites = 2
 
PROPERTY SleeperWakes
