\* The mailbox: two senders with two commands each, a stop, and a signaler that
\* overflows when three commands are unread.  The logical thread: two I/O threads
\* with three messages each: several swaps, stop at any point.
CONSTANTS
    Senders = {s1, s2, ctx}
    Stopper = ctx
    MaxSends = 2
    SignalCapacity = 3
    Reader = Reader
    Free = Free
    IoThreads = {io1, io2}
    MaxPushes = 3
SPECIFICATION MCSpec
INVARIANTS SignalerIsExact ServesWhatIsDue NothingRunAfterStop
PROPERTIES
    ImplementsQueue
    EventuallyServed
    ThreadImplementsQueue
    RunsUntilStopped
\* The senders may have nothing more to send, the process may have died, or the
\* thread has left its loop.
CHECK_DEADLOCK FALSE
