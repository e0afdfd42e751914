SPECIFICATION FairSpec
CONSTANTS
    Users = {u1, u2}
    MaxConnections = 2
    MaxSessions = 2
PROPERTIES
    LossEndsSession
    StopReturns
CHECK_DEADLOCK FALSE
