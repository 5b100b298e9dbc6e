------------------------------- MODULE Mailbox -------------------------------
(***************************************************************************)
(* mailbox_t of SummerBreeze/SharedLib and the loop that reads it          *)
(* (io_thread_t::in_event), as built on Windows.  A mailbox is a           *)
(* std::queue of commands and a socket pair that carries one byte per      *)
(* command; one spin lock covers both in send() and in recv(), but the     *)
(* poller that waits for the socket to become readable takes no lock.      *)
(*                                                                         *)
(* The senders are the threads that call ctx_t::send_command; one of them, *)
(* Stopper, runs ~ctx_t and its only command is "stop".                    *)
(***************************************************************************)
EXTENDS Naturals, Sequences

CONSTANTS Senders,          \* threads that send to this mailbox
          Stopper,          \* the one that sends the stop command
          MaxSends,         \* bound on the commands of every other sender
          SignalCapacity,   \* bytes the socket pair holds before send() fails
          Reader,           \* the I/O thread that owns the mailbox
          Free              \* value of lock when nobody holds it

ASSUME MailboxAssumption ==
    /\ Stopper \in Senders
    /\ Reader \notin Senders /\ Free \notin Senders /\ Reader # Free
    /\ MaxSends \in Nat
    /\ SignalCapacity \in Nat \ {0}

VARIABLES lock,      \* holder of mailbox_t::lock, or Free
          cpipe,     \* mailbox_t::cpipe, oldest command first
          signals,   \* unread bytes in the signaler's socket pair
          reader,    \* where the I/O thread is, see ReaderStates
          stopping,  \* select_t::stopping of the reader's poller
          running,   \* FALSE once zmq_assert has taken the process down
          sent,      \* how many commands each sender has pushed
          served,    \* the commands recv() has returned, in order
          due        \* history: commands pushed when the stop was processed

vars == <<lock, cpipe, signals, reader, stopping, running, sent, served, due>>

ReaderStates == {"select",    \* in select(), waiting for the mailbox's fd
                 "recv",      \* in in_event(), about to call recv()
                 "locked",    \* in recv(), has read one signal
                 "command",   \* in process_command() for the last command
                 "pass",      \* in_event() has returned, the pass goes on
                 "exited"}    \* the poller's loop has returned

SendLimit(s) == IF s = Stopper THEN 1 ELSE MaxSends

IsStop(c) == c[1] = Stopper
-----------------------------------------------------------------------------
(* Slips in this code that the properties below must notice.               *)

(* signals only when the queue was empty, as a flag-like signaler would    *)
SignalFirstOnly(s) ==
    /\ running
    /\ lock = s
    /\ signals' = IF Len(cpipe) = 1 THEN signals + 1 ELSE signals
    /\ lock' = Free
    /\ UNCHANGED <<cpipe, reader, stopping, running, sent, served, due>>

(* asserts that the signaler is empty, as the comment in signaler.hpp asks *)
SignalAssertsEmpty(s) ==
    /\ running
    /\ lock = s
    /\ IF signals = 0
       THEN signals' = signals + 1 /\ lock' = Free /\ UNCHANGED running
       ELSE running' = FALSE /\ UNCHANGED <<signals, lock>>
    /\ UNCHANGED <<cpipe, reader, stopping, sent, served, due>>

(* copies the oldest command out and forgets to pop it                     *)
RecvCommandNoPop ==
    /\ running /\ reader = "locked"
    /\ lock' = Free
    /\ served' = Append(served, Head(cpipe))
    /\ reader' = "command"
    /\ UNCHANGED <<cpipe, signals, stopping, running, sent, due>>

(* leaves the receive loop as soon as it has processed a stop command      *)
ProcessLeavesOnStop ==
    /\ running /\ reader = "command"
    /\ IF IsStop(served[Len(served)])
       THEN stopping' = TRUE /\ due' = Len(served) + Len(cpipe) /\ reader' = "pass"
       ELSE UNCHANGED <<stopping, due>> /\ reader' = "recv"
    /\ UNCHANGED <<lock, cpipe, signals, running, sent, served>>
-----------------------------------------------------------------------------
Init == /\ lock = Free
        /\ cpipe = <<>>
        /\ signals = 0
        /\ reader = "select"
        /\ stopping = FALSE
        /\ running = TRUE
        /\ sent = [s \in Senders |-> 0]
        /\ served = <<>>
        /\ due = 0

(* mailbox_t::send, first half: take the lock and push.                    *)
Push(s) == /\ running
           /\ lock = Free
           /\ sent[s] < SendLimit(s)
           /\ lock' = s
           /\ sent' = [sent EXCEPT ![s] = @ + 1]
           /\ cpipe' = Append(cpipe, <<s, sent[s] + 1>>)
           /\ UNCHANGED <<signals, reader, stopping, running, served, due>>

(* mailbox_t::send, second half: signal and release the lock.  The write   *)
(* end does not block, so on a full socket pair send() returns an error    *)
(* and the assertion in signaler_t::send ends the process.                 *)
Signal(s) == /\ running
             /\ lock = s
             /\ IF signals < SignalCapacity
                THEN /\ signals' = signals + 1
                     /\ lock' = Free
                     /\ UNCHANGED running
                ELSE /\ running' = FALSE
                     /\ UNCHANGED <<signals, lock>>
             /\ UNCHANGED <<cpipe, reader, stopping, sent, served, due>>

(* The poller finds the mailbox's fd readable and calls in_event().        *)
Wake == /\ running
        /\ reader = "select"
        /\ signals > 0
        /\ reader' = "recv"
        /\ UNCHANGED <<lock, cpipe, signals, stopping, running, sent, served, due>>

(* recv() finds no signal: EAGAIN and the lock is released, in_event()     *)
(* returns.                                                                *)
RecvNothing == /\ running
               /\ reader = "recv"
               /\ lock = Free
               /\ signals = 0
               /\ reader' = "pass"
               /\ UNCHANGED <<lock, cpipe, signals, stopping, running, sent, served, due>>

(* recv() takes the lock and reads one signal.                             *)
RecvSignal == /\ running
              /\ reader = "recv"
              /\ lock = Free
              /\ signals > 0
              /\ signals' = signals - 1
              /\ lock' = Reader
              /\ reader' = "locked"
              /\ UNCHANGED <<cpipe, stopping, running, sent, served, due>>

(* recv() pops the oldest command; should there be none it reports EAGAIN, *)
(* which ends in_event() like a missing signal does.                       *)
RecvCommand == /\ running
               /\ reader = "locked"
               /\ lock' = Free
               /\ IF cpipe # <<>>
                  THEN /\ served' = Append(served, Head(cpipe))
                       /\ cpipe' = Tail(cpipe)
                       /\ reader' = "command"
                  ELSE /\ reader' = "pass"
                       /\ UNCHANGED <<served, cpipe>>
               /\ UNCHANGED <<signals, stopping, running, sent, due>>

(* process_command() on the command just received.  process_stop() takes   *)
(* the mailbox's fd out of the poller and sets its stopping flag;          *)
(* in_event() goes on receiving all the same.                              *)
Process == /\ running
           /\ reader = "command"
           /\ reader' = "recv"
           /\ IF IsStop(served[Len(served)])
              THEN stopping' = TRUE /\ due' = Len(served) + Len(cpipe)
              ELSE UNCHANGED <<stopping, due>>
           /\ UNCHANGED <<lock, cpipe, signals, running, sent, served>>

(* The pass over the other descriptors is over and the poller's loop tests *)
(* its flag, without the lock: senders have gone on since recv().          *)
TestStopping == /\ running
                /\ reader = "pass"
                /\ reader' = IF stopping THEN "exited" ELSE "select"
                /\ UNCHANGED <<lock, cpipe, signals, stopping, running, sent, served, due>>

ReaderStep == Wake \/ RecvNothing \/ RecvSignal \/ RecvCommand \/ Process \/ TestStopping

Next == ReaderStep \/ \E s \in Senders : Push(s) \/ Signal(s)

Spec == Init /\ [][Next]_vars

(* The scheduler runs the reader and lets a sender that holds the lock     *)
(* finish; nothing makes a sender start another send().                    *)
Fairness == WF_vars(ReaderStep) /\ \A s \in Senders : WF_vars(Signal(s))

FairSpec == Spec /\ Fairness
-----------------------------------------------------------------------------
TypeOK == /\ lock \in Senders \cup {Reader, Free}
          /\ cpipe \in Seq(Senders \X Nat)
          /\ signals \in Nat
          /\ reader \in ReaderStates
          /\ stopping \in BOOLEAN
          /\ running \in BOOLEAN
          /\ sent \in [Senders -> Nat]
          /\ served \in Seq(Senders \X Nat)
          /\ due \in Nat

CQ == INSTANCE CommandQueue WITH queue <- cpipe

(* With the lock free there is exactly one unread signal per queued        *)
(* command: a waiting reader is never left with a command it is not told   *)
(* of, nor woken for nothing.  The holder of the lock, a sender that has   *)
(* pushed or the reader that has read a signal, makes a difference of one. *)
SignalPerCommand ==
    Len(cpipe) = signals + IF lock = Free THEN 0 ELSE 1

(* The assertion in signaler_t::send ends the process only when the reader *)
(* is behind by more commands than the socket pair can hold signals.       *)
AbortOnlyOnFullSignaler == ~running => Len(cpipe) > SignalCapacity

(* The signaler neither gains on the queue nor falls behind it, and ends    *)
(* the process for no other reason than that the reader is behind by more  *)
(* commands than it has room for.                                          *)
SignalerIsExact == SignalPerCommand /\ AbortOnlyOnFullSignaler

(* Every command that was sent has been received or waits, once, and the   *)
(* commands of one sender stay in the order of its calls of send().        *)
ExactlyOnceInOrder == CQ!ExactlyOnceInOrder

(* The mailbox implements the abstract queue.                              *)
ImplementsQueue == CQ!Spec

(* An I/O thread that is told to stop still receives everything that was   *)
(* in its mailbox then, whoever pushed it behind the stop.  The mailbox    *)
(* need not be empty when it leaves: what is pushed after its last recv()  *)
(* stays there, although the loop has not tested the flag yet.             *)
ServesWhatIsDue == reader = "exited" => Len(served) >= due

(* A command that was sent is received, unless the process died or the     *)
(* I/O thread had left before.                                             *)
EventuallyServed ==
    \A s \in Senders : \A n \in 1..SendLimit(s) :
        sent[s] >= n ~> \/ \E i \in 1..Len(served) : served[i] = <<s, n>>
                        \/ ~running
                        \/ reader = "exited"
=============================================================================
