SPECIFICATION FairSpec
CONSTANT N = 5
CONSTANT Capacity = 10
INVARIANT Contiguous
INVARIANT CountsExact
PROPERTY Terminates
