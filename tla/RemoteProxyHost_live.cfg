SPECIFICATION FairSpec
CONSTANTS
    Clients = {c1, c2}
    MaxListed = 1
    Names = {n1, n2}
    NoClient = NoClient
    NoName = NoName
    MaxStarts = 1
    MaxUpdates = 1
    AcceptErrors = TRUE
PROPERTIES
    ControlReturns
    DeadSessionsReaped
    ConnectionsAnswered
CHECK_DEADLOCK FALSE
