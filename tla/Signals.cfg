SPECIFICATION FairSpec
CONSTANTS
  MaxWait = 2
  MaxKeys = 2
\* A signal lost before pause() or before its handler is installed leaves the program waiting.
CHECK_DEADLOCK FALSE
INVARIANT HandshakeDelivers
INVARIANT ReportTruthful
PROPERTY EndsUnlessSignalLost
