\* A routed packet followed by another one.
CONSTANTS
    Kinds = {"registered", "routed"}
    Lengths = {3}
    HeaderLength = 2
    ReadSize = 3
    MaxPackets = 2
SPECIFICATION FairSpec
PROPERTY AvailableDataIsRead
CHECK_DEADLOCK FALSE
