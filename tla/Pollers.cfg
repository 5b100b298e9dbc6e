CONSTANTS
    Systems = {"epoll", "hello"}
    Sockets = {s1, s2}
    MailboxFd = m
    Retired = r
    SetSize = 4
    MaxEngines = 4
    Sources = {a, b}
    EpollMailbox = mailbox
    Handles = {1, 2, 3}
    Free = free
    Flags = {"out"}
    Timeouts = {1}
    MaxTimers = 2
    MaxTime = 1
    Conns = {c1, c2}
    Listener = listener
    MaxFds = 1
    MaxInput = 2
SPECIFICATION MCSpec
INVARIANTS NoEventStrays NothingMissed
PROPERTY DueTimersRun
CHECK_DEADLOCK FALSE
