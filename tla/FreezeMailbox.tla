---------------------------- MODULE FreezeMailbox ----------------------------
(***************************************************************************)
(* FREEZE_NET::Mailbox of src/workspace and the loop that reads it         *)
(* (InEvent of IOThread, MySQLRPCClient and MySQLRPCServer).  Unlike the   *)
(* SharedLib mailbox, the lock covers only the queue: a sender signals     *)
(* after it has released the lock, the reader reads a signal before it     *)
(* takes the lock and looks at the queue whether it has read one or not.   *)
(* A command may so be taken before its signal is sent, and a signal may   *)
(* arrive for a command that is gone.                                      *)
(***************************************************************************)
EXTENDS Naturals, Sequences, FiniteSets

CONSTANTS Senders,          \* threads that send to this mailbox
          MaxSends,         \* bound on the commands of each sender
          SignalCapacity,   \* bytes the socket pair holds
          MaxInterrupts     \* bound on recv() calls ended by EINTR

ASSUME FreezeMailboxAssumption ==
    /\ IsFiniteSet(Senders)
    /\ MaxSends \in Nat
    /\ SignalCapacity \in Nat \ {0}
    /\ MaxInterrupts \in Nat

VARIABLES cpipe,       \* Mailbox::cpipe_, oldest command first
          signals,     \* unread bytes in the signaler's socket pair
          signalling,  \* senders between their push and their signal
          reader,      \* where the reading thread is
          interrupts,  \* recv() calls on the signaler ended by EINTR so far
          sent,        \* how many commands each sender has pushed
          served       \* the commands Recv() has returned, in order

vars == <<cpipe, signals, signalling, reader, interrupts, sent, served>>

ReaderStates == {"wait",      \* in epoll_wait()
                 "recv",      \* in InEvent(), about to call Recv()
                 "pop",       \* in Recv(), after Signaler::Recv()
                 "command"}   \* in ProcessCommand()
-----------------------------------------------------------------------------
(* Slips in this code that the properties below must notice.               *)

(* gets the test "the reader is busy anyway" the wrong way round           *)
PushUnsignalled(s) ==
    /\ s \notin signalling /\ sent[s] < MaxSends
    /\ sent' = [sent EXCEPT ![s] = @ + 1]
    /\ cpipe' = Append(cpipe, <<s, sent[s] + 1>>)
    /\ signalling' = IF reader = "wait" THEN signalling ELSE signalling \cup {s}
    /\ UNCHANGED <<signals, reader, interrupts, served>>

(* looks at the signal without reading it                                  *)
RecvSignalPeeks ==
    /\ reader = "recv"
    /\ reader' = "pop"
    /\ UNCHANGED <<cpipe, signals, signalling, interrupts, sent, served>>

(* copies the oldest command out and forgets to pop it                     *)
RecvCommandNoPop ==
    /\ reader = "pop"
    /\ reader' = IF cpipe # <<>> THEN "command" ELSE "wait"
    /\ served' = IF cpipe # <<>> THEN Append(served, Head(cpipe)) ELSE served
    /\ UNCHANGED <<cpipe, signals, signalling, interrupts, sent>>
-----------------------------------------------------------------------------
Init == /\ cpipe = <<>>
        /\ signals = 0
        /\ signalling = {}
        /\ reader = "wait"
        /\ interrupts = 0
        /\ sent = [s \in Senders |-> 0]
        /\ served = <<>>

(* Mailbox::Send up to the unlock: the push.                               *)
Push(s) == /\ s \notin signalling
           /\ sent[s] < MaxSends
           /\ sent' = [sent EXCEPT ![s] = @ + 1]
           /\ cpipe' = Append(cpipe, <<s, sent[s] + 1>>)
           /\ signalling' = signalling \cup {s}
           /\ UNCHANGED <<signals, reader, interrupts, served>>

(* Signaler::Send: one byte; while the socket pair is full the sender      *)
(* retries and does not return.                                            *)
Signal(s) == /\ s \in signalling
             /\ signals < SignalCapacity
             /\ signals' = signals + 1
             /\ signalling' = signalling \ {s}
             /\ UNCHANGED <<cpipe, reader, interrupts, sent, served>>

(* epoll_wait() reports the mailbox's fd and the poller calls InEvent().   *)
Wake == /\ reader = "wait"
        /\ signals > 0
        /\ reader' = "recv"
        /\ UNCHANGED <<cpipe, signals, signalling, interrupts, sent, served>>

(* Signaler::Recv: reads a byte if there is one.                           *)
RecvSignal == /\ reader = "recv"
              /\ signals' = IF signals > 0 THEN signals - 1 ELSE 0
              /\ reader' = "pop"
              /\ UNCHANGED <<cpipe, signalling, interrupts, sent, served>>

(* Signaler::Recv ended by EINTR: nothing is read and nobody is told.      *)
RecvInterrupted == /\ reader = "recv"
                   /\ interrupts < MaxInterrupts
                   /\ interrupts' = interrupts + 1
                   /\ reader' = "pop"
                   /\ UNCHANGED <<cpipe, signals, signalling, sent, served>>

(* The locked part of Mailbox::Recv: pop the oldest command, or report     *)
(* EAGAIN, on which InEvent() returns to the poller.                       *)
RecvCommand == /\ reader = "pop"
               /\ IF cpipe # <<>>
                  THEN /\ served' = Append(served, Head(cpipe))
                       /\ cpipe' = Tail(cpipe)
                       /\ reader' = "command"
                  ELSE /\ reader' = "wait"
                       /\ UNCHANGED <<served, cpipe>>
               /\ UNCHANGED <<signals, signalling, interrupts, sent>>

(* ProcessCommand() returns and InEvent() asks for the next command.       *)
Process == /\ reader = "command"
           /\ reader' = "recv"
           /\ UNCHANGED <<cpipe, signals, signalling, interrupts, sent, served>>

ReaderStep == Wake \/ RecvSignal \/ RecvInterrupted \/ RecvCommand \/ Process

Next == ReaderStep \/ \E s \in Senders : Push(s) \/ Signal(s)

Spec == Init /\ [][Next]_vars

(* The scheduler runs the reader, and a sender inside Send() goes on.      *)
Fairness == WF_vars(ReaderStep) /\ \A s \in Senders : WF_vars(Signal(s))

FairSpec == Spec /\ Fairness
-----------------------------------------------------------------------------
TypeOK == /\ cpipe \in Seq(Senders \X Nat)
          /\ signals \in 0..SignalCapacity
          /\ signalling \in SUBSET Senders
          /\ reader \in ReaderStates
          /\ interrupts \in 0..MaxInterrupts
          /\ sent \in [Senders -> Nat]
          /\ served \in Seq(Senders \X Nat)

CQ == INSTANCE CommandQueue WITH queue <- cpipe

(* Signals may run ahead of commands or behind them, but every queued      *)
(* command is covered by a signal that is unread or about to be sent; only *)
(* between reading a signal and looking at the queue is the reader one     *)
(* signal ahead.                                                           *)
SignalCover ==
    Len(cpipe) <= signals + Cardinality(signalling)
                          + IF reader = "pop" THEN 1 ELSE 0

(* Nor do signals pile up for commands that are gone: those that are ahead *)
(* are no more than the senders, the reader and the interrupted reads.     *)
SignalsFollow ==
    signals + Cardinality(signalling) + (IF reader = "pop" THEN 1 ELSE 0)
       <= Len(cpipe) + Cardinality(Senders) + interrupts + 1

(* The poller never waits on a mailbox that holds a command without a      *)
(* signal that will wake it.                                               *)
NoLostWakeup ==
    reader = "wait" /\ cpipe # <<>> => signals > 0 \/ signalling # {}

(* Every command that was sent has been received or waits, once, and the   *)
(* commands of one sender stay in the order of its calls of Send().        *)
ExactlyOnceInOrder == CQ!ExactlyOnceInOrder

(* Without a lock around the signal the mailbox still implements the       *)
(* abstract queue.                                                         *)
ImplementsQueue == CQ!Spec

(* Every command is received, and signals that come after their command    *)
(* was taken are read as well: once the senders are done nothing is left,  *)
(* and the thread does not spin on a readable socket.                      *)
ComesToRest == <>[](cpipe = <<>> /\ signals = 0 /\ signalling = {} /\ reader = "wait")
=============================================================================
