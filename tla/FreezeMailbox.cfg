\* One mailbox: two senders with three commands each; room for two signals, so
\* that senders wait for the reader; one interrupted recv().  The pair: one
\* thread and the callbacks send three requests each.
CONSTANTS
    Senders = {s1, s2}
    MaxSends = 3
    SignalCapacity = 2
    MaxInterrupts = 1
    Callers = {main, callback}
    ClientThread = callback
    Server = server
SPECIFICATION MCSpec
INVARIANT SignalsFollow
PROPERTIES
    ImplementsQueue
    ComesToRest
    AnsweredOrOverloaded
\* The senders may have nothing more to send, or the two threads of the pair
\* wait for each other.
CHECK_DEADLOCK FALSE
