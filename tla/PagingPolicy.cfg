SPECIFICATION PairSpec
CONSTANTS
  MAX_SEQ = 6
  MAX_FRAMES = 4
  DefaultFrames = 3
  FrameInputs = {0, 1, 2, 4, 5}
  PageInputs = {0, 1, 2, 5, 7}
  MaxPages = {1, 3}
INVARIANT FramesConsistent
INVARIANT Inclusion
PROPERTY ImplementsPolicy
