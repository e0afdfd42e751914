SPECIFICATION Spec
CONSTANTS
    Clients = {c1, c2}
    MaxListed = 2
    Names = {n1, n2}
    NoClient = NoClient
    NoName = NoName
    MaxStarts = 2
    MaxUpdates = 1
    AcceptErrors = TRUE
INVARIANTS
    NoLostSession
    StopLeavesNothing
PROPERTIES
    SessionsFollowContract
CHECK_DEADLOCK FALSE
