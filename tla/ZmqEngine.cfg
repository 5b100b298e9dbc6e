\* A peer that sends three packets of any kinds, shorter and longer than a
\* read, and waits for the answers or does not.
CONSTANTS
    Kinds = {"registered", "routed", "unrouted", "unknown"}
    Lengths = {2, 4}
    HeaderLength = 2
    ReadSize = 3
    MaxPackets = 3
SPECIFICATION FairSpec
INVARIANTS
    PushedOnceInOrder
    NothingLeftBehind
PROPERTIES
    EveryPacketAnswered
\* The peer may close the connection or send nothing.
CHECK_DEADLOCK FALSE
