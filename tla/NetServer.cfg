CONSTANTS
    NThreads = 2
    Retired = r
    Fds = {f1, f2}
    SignalRoom = 2
    FdSetSize = 3
    MaxConns = 3
    MaxSessions = 1
SPECIFICATION Spec
INVARIANTS NothingSentToDeleted NothingToStrangers BalancedWhenPrompt
CHECK_DEADLOCK FALSE
