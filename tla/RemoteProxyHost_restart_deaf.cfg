SPECIFICATION FairSpec
CONSTANTS
    Clients = {c1, c2}
    MaxListed = 2
    Names = {n1, n2}
    NoClient = NoClient
    NoName = NoName
    MaxStarts = 2
    MaxUpdates = 0
    AcceptErrors = FALSE
PROPERTIES
    ConnectionsAnswered
CHECK_DEADLOCK FALSE
