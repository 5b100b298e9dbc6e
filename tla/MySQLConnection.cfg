\* Six queries on one connection with a limit of three errors.
CONSTANTS
    Limit = 3
    LostErrnos = {2006, 2013}
    OtherErrnos = {1064}
    MaxCalls = 6
SPECIFICATION FairSpec
PROPERTY QueryReturnsOrReconnects
\* No more queries, or a crash.
CHECK_DEADLOCK FALSE
