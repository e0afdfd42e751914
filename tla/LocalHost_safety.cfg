SPECIFICATION Spec
CONSTANTS
    Users = {u1, u2, u3}
    MaxConnections = 2
    MaxSessions = 1
INVARIANTS
    ReadPump
    UsersServed
    IdleShowsNobody
CHECK_DEADLOCK FALSE
