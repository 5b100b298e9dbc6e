---------------------------- MODULE LogicalThread ----------------------------
(***************************************************************************)
(* logical_thread_t of SummerBreeze/SharedLib: the one thread that runs    *)
(* the messages which the I/O threads have unpacked.  It owns two queues.  *)
(* I/O threads push to the producer queue under a spin lock; the thread    *)
(* takes from the consumer queue without a lock and exchanges the two      *)
(* under the lock when the consumer queue has run empty.                   *)
(*                                                                         *)
(* A message is <<sender, serial>>, as in CommandQueue.                    *)
(***************************************************************************)
EXTENDS Naturals, Sequences

CONSTANTS Senders,    \* the I/O threads
          MaxSends    \* bound on the messages of each

LogicalThreadAssumption == MaxSends \in Nat

VARIABLES producer,    \* the queue push() appends to
          consumer,    \* the queue the thread takes from
          loop,        \* where the thread is in loop()
          stopping,    \* set by stop()
          sent,        \* how many messages each I/O thread has pushed
          sentAtStop,  \* history: the value of sent when stop() was called
          served       \* history: the messages taken to be run, in order

vars == <<producer, consumer, loop, stopping, sent, sentAtStop, served>>

LoopStates == {"test",     \* about to test stopping
               "drain",    \* about to test whether consumer is empty
               "run",      \* in run() of the message just taken
               "swap",     \* about to call swap()
               "exited"}
-----------------------------------------------------------------------------
(* Slips in this code that the properties below must notice.               *)

(* copies the producer queue instead of exchanging the two                 *)
SwapCopies ==
    /\ loop = "swap"
    /\ consumer' = producer
    /\ loop' = "test"
    /\ UNCHANGED <<producer, stopping, sent, sentAtStop, served>>

(* returns when the consumer queue is empty instead of when it is not      *)
SwapInverted ==
    /\ loop = "swap"
    /\ IF consumer = <<>> THEN UNCHANGED <<producer, consumer>>
                          ELSE consumer' = producer /\ producer' = consumer
    /\ loop' = "test"
    /\ UNCHANGED <<stopping, sent, sentAtStop, served>>

(* goes on until the consumer queue is empty before it obeys stop()        *)
TestStoppingWhenIdle ==
    /\ loop = "test"
    /\ loop' = IF stopping /\ consumer = <<>> THEN "exited" ELSE "drain"
    /\ UNCHANGED <<producer, consumer, stopping, sent, sentAtStop, served>>
-----------------------------------------------------------------------------
Init == /\ producer = <<>>
        /\ consumer = <<>>
        /\ loop = "test"
        /\ stopping = FALSE
        /\ sent = [s \in Senders |-> 0]
        /\ sentAtStop = [s \in Senders |-> 0]
        /\ served = <<>>

(* push(): one step, the lock is held from the first line to the last.     *)
Push(s) == /\ sent[s] < MaxSends
           /\ sent' = [sent EXCEPT ![s] = @ + 1]
           /\ producer' = Append(producer, <<s, sent[s] + 1>>)
           /\ UNCHANGED <<consumer, loop, stopping, sentAtStop, served>>

(* stop(), called by ~ctx_t.                                               *)
Stop == /\ ~stopping
        /\ stopping' = TRUE
        /\ sentAtStop' = sent
        /\ UNCHANGED <<producer, consumer, loop, sent, served>>

(* while (!stopping); no timer is ever added to this poller.               *)
TestStopping == /\ loop = "test"
                /\ loop' = IF stopping THEN "exited" ELSE "drain"
                /\ UNCHANGED <<producer, consumer, stopping, sent, sentAtStop, served>>

(* while (!consumer->empty()) { front(); pop(); ...                        *)
Drain == /\ loop = "drain"
         /\ IF consumer # <<>>
            THEN /\ served' = Append(served, Head(consumer))
                 /\ consumer' = Tail(consumer)
                 /\ loop' = "run"
            ELSE /\ loop' = "swap"
                 /\ UNCHANGED <<served, consumer>>
         /\ UNCHANGED <<producer, stopping, sent, sentAtStop>>

(* ... run(); delete }: the message is no longer in any queue.             *)
Run == /\ loop = "run"
       /\ loop' = "drain"
       /\ UNCHANGED <<producer, consumer, stopping, sent, sentAtStop, served>>

(* swap(), under the lock, and the zmq_sleep(0) behind it.                 *)
Swap == /\ loop = "swap"
        /\ IF consumer # <<>>
           THEN UNCHANGED <<producer, consumer>>
           ELSE consumer' = producer /\ producer' = consumer
        /\ loop' = "test"
        /\ UNCHANGED <<stopping, sent, sentAtStop, served>>

ThreadStep == TestStopping \/ Drain \/ Run \/ Swap

Next == ThreadStep \/ Stop \/ \E s \in Senders : Push(s)

Spec == Init /\ [][Next]_vars

(* The scheduler runs the thread; swap() waits for a push() at most.       *)
FairSpec == Spec /\ WF_vars(ThreadStep)
-----------------------------------------------------------------------------
TypeOK == /\ producer \in Seq(Senders \X Nat)
          /\ consumer \in Seq(Senders \X Nat)
          /\ loop \in LoopStates
          /\ stopping \in BOOLEAN
          /\ sent \in [Senders -> Nat]
          /\ sentAtStop \in [Senders -> Nat]
          /\ served \in Seq(Senders \X Nat)

CQ == INSTANCE CommandQueue WITH queue <- consumer \o producer

(* Across the two queues and any number of swaps every message is run or   *)
(* waits, once, and those of one I/O thread stay in order.                 *)
ExactlyOnceInOrder == CQ!ExactlyOnceInOrder

(* The two queues together, consumer first, implement one queue.           *)
ImplementsQueue == CQ!Spec

(* A message pushed after stop() is never run: the batch that stop() finds *)
(* in the consumer queue is finished, the batch swapped in after it is not *)
(* begun.                                                                  *)
NothingRunAfterStop ==
    stopping => \A i \in 1..Len(served) : served[i][2] <= sentAtStop[served[i][1]]

(* A pushed message is run unless the thread is told to stop, and a thread *)
(* that is told to stop leaves its loop, so that the join in the           *)
(* destructor returns: swap() and the two tests of emptiness let neither   *)
(* messages nor a stop wait for ever.                                      *)
RunsUntilStopped ==
    /\ \A s \in Senders : \A n \in 1..MaxSends :
           sent[s] >= n ~> stopping \/ \E i \in 1..Len(served) : served[i] = <<s, n>>
    /\ stopping ~> loop = "exited"
=============================================================================
