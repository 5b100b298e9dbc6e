\* One thread and the callbacks send three requests between them; stops may
\* come at any point.
CONSTANTS
    Callers = {main, callback}
    ClientThread = callback
    MaxRequests = 3
    StopCommand = stop
    MayStop = TRUE
    None = None
SPECIFICATION FairSpec
INVARIANTS
    CallbackAtMostOnce
    StringsOutliveQuery
    OnlyForeignRequestsLeak
PROPERTIES
    EveryRequestEnds
\* The process may have crashed, or nobody sends any more.
CHECK_DEADLOCK FALSE
