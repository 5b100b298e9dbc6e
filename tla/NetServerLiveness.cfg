CONSTANTS
    NThreads = 2
    Retired = r
    Fds = {f1, f2}
    SignalRoom = 2
    FdSetSize = 3
    MaxConns = 2
    MaxSessions = 1
SPECIFICATION FairSpec
PROPERTIES ConnectionsGetServed DestructorCleansUp
CHECK_DEADLOCK FALSE
