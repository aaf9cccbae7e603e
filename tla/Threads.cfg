SPECIFICATION FairSpec
CONSTANT N = 4
INVARIANT MutualExclusion
INVARIANT ExactCount
INVARIANT RaceBounds
INVARIANT CleanEnd
PROPERTY Terminates
