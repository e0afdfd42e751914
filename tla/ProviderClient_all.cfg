SPECIFICATION FairSpec
CONSTANTS
    Remotes = {r1}
    MaxLen = 1
    BufferSize = 1
    MaxChunks = 3
    MaxStarts = 2
INVARIANTS
    BufferBounded
    StreamOrder
    ThreadsAccounted
PROPERTIES
    ElementsLeave
    StopReturns
CHECK_DEADLOCK FALSE
