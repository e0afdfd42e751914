SPECIFICATION FairSpec
CONSTANTS
    HostNames = {a}
    ClientNames = {b}
    Foreign = {}
    MaxRequests = 2
    MaxRounds = 1
INVARIANTS
    TrustInvited
    CacheFollowsFile
PROPERTIES
    ControlReturns
CHECK_DEADLOCK FALSE
