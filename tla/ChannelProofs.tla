---------------------------- MODULE ChannelProofs ----------------------------
(***************************************************************************)
(* Proofs about the two channels between threads of SharedLib, for any     *)
(* number of senders and messages and any size of the signaler's socket    *)
(* buffer: about Mailbox first, about LogicalThread, as L, then.           *)
(*                                                                         *)
(* The inductive invariant of the mailbox adds to the signal count of      *)
(* SignalPerCommand who holds the lock at which place: without it the      *)
(* count says nothing about the step that releases it.  That a stopped     *)
(* thread has served what was due when it leaves needs to be known from    *)
(* the empty recv() on, when the count says that the mailbox is empty.     *)
(***************************************************************************)
EXTENDS MCChannels, SequenceTheorems, TLAPS

CQP == INSTANCE CommandQueueProofs WITH queue <- cpipe

(* The reader holds the lock exactly while it is inside recv() with a      *)
(* signal read; process_stop() is always for a command that was received.  *)
LockDiscipline == /\ lock = Reader <=> reader = "locked"
                  /\ reader = "command" => served # <<>>

MailboxInv ==
    /\ TypeOK
    /\ LockDiscipline
    /\ SignalPerCommand
    /\ AbortOnlyOnFullSignaler

USE MailboxAssumption DEF ReaderStates

LEMMA MailboxInit == Init => MailboxInv
<1> SUFFICES ASSUME Init PROVE MailboxInv
  OBVIOUS
<1>1. TypeOK
  BY EmptySeq DEF Init, TypeOK
<1>2. Len(cpipe) = 0
  BY DEF Init
<1> QED
  BY <1>1, <1>2 DEF Init, MailboxInv, LockDiscipline, SignalPerCommand,
                    AbortOnlyOnFullSignaler

LEMMA MailboxStep == MailboxInv /\ [Next]_vars => MailboxInv'
<1> SUFFICES ASSUME MailboxInv, [Next]_vars PROVE MailboxInv'
  OBVIOUS
<1> USE DEF MailboxInv, TypeOK, LockDiscipline, SignalPerCommand, AbortOnlyOnFullSignaler
<1>0. Len(cpipe) \in Nat /\ (cpipe # <<>> => Len(cpipe) > 0)
  BY EmptySeq, LenProperties
<1>1. ASSUME NEW s \in Senders, Push(s) PROVE MailboxInv'
  <2>1. <<s, sent[s] + 1>> \in Senders \X Nat /\ cpipe \in Seq(Senders \X Nat)
    OBVIOUS
  <2>2. cpipe' = Append(cpipe, <<s, sent[s] + 1>>)
    BY <1>1 DEF Push
  <2>3. cpipe' \in Seq(Senders \X Nat) /\ Len(cpipe') = Len(cpipe) + 1
    BY ONLY <2>1, <2>2, AppendProperties
  <2> QED
    BY <1>0, <1>1, <2>3 DEF Push
<1>2. ASSUME NEW s \in Senders, Signal(s) PROVE MailboxInv'
  <2>1. CASE signals < SignalCapacity
    BY <1>0, <1>2, <2>1 DEF Signal
  <2>2. CASE ~(signals < SignalCapacity)
    <3>1. /\ lock = s /\ running' = FALSE
          /\ UNCHANGED <<lock, cpipe, signals, reader, stopping, sent, served, due>>
      BY <1>2, <2>2 DEF Signal
    <3>2. Len(cpipe) = signals + 1 /\ signals >= SignalCapacity
      BY <2>2, <3>1
    <3>3. TypeOK' /\ LockDiscipline'
      BY <3>1
    <3>4. SignalPerCommand' /\ Len(cpipe') > SignalCapacity
      BY <1>0, <3>1, <3>2
    <3> QED
      BY <3>3, <3>4
  <2> QED
    BY <2>1, <2>2
<1>3. CASE Wake
  BY <1>0, <1>3 DEF Wake
<1>4. CASE RecvNothing
  BY <1>0, <1>4 DEF RecvNothing
<1>5. CASE RecvSignal
  BY <1>0, <1>5 DEF RecvSignal
<1>6. CASE RecvCommand
  <2>1. CASE cpipe # <<>>
    <3>1. /\ Head(cpipe) \in Senders \X Nat
          /\ Tail(cpipe) \in Seq(Senders \X Nat)
          /\ Len(Tail(cpipe)) = Len(cpipe) - 1
      BY <2>1, HeadTailProperties
    <3>2. served \in Seq(Senders \X Nat)
      OBVIOUS
    <3>3. /\ Append(served, Head(cpipe)) \in Seq(Senders \X Nat)
          /\ Append(served, Head(cpipe)) # <<>>
      BY ONLY <3>1, <3>2, AppendProperties
    <3>4. /\ lock = Reader /\ lock' = Free /\ running
          /\ served' = Append(served, Head(cpipe)) /\ cpipe' = Tail(cpipe)
          /\ reader' = "command"
          /\ UNCHANGED <<signals, stopping, running, sent, due>>
      BY <1>6, <2>1 DEF RecvCommand
    <3>5. TypeOK' /\ LockDiscipline'
      BY <3>1, <3>3, <3>4
    <3>6. SignalPerCommand'
      BY <1>0, <3>1, <3>4
    <3> QED
      BY <3>4, <3>5, <3>6
  <2>2. CASE cpipe = <<>>
    \* recv() read a signal under the lock, so a command must be there
    <3>1. Len(cpipe) = signals + 1 /\ signals \in Nat
      BY <1>6 DEF RecvCommand
    <3> QED
      BY <2>2, <3>1, EmptySeq
  <2> QED
    BY <2>1, <2>2
<1>7. CASE Process
  <2>1. /\ reader = "command" /\ reader' = "recv" /\ stopping' \in BOOLEAN
        /\ UNCHANGED <<lock, cpipe, signals, running, sent, served>>
    BY <1>7 DEF Process
  <2>2. due' \in Nat
    <3>1. Len(served) \in Nat /\ due \in Nat
      BY LenProperties
    <3>2. due' = due \/ due' = Len(served) + Len(cpipe)
      BY <1>7 DEF Process
    <3> QED
      BY <1>0, <3>1, <3>2
  <2> QED
    BY <1>0, <2>1, <2>2
<1>8. CASE TestStopping
  BY <1>0, <1>8 DEF TestStopping
<1>9. CASE UNCHANGED vars
  BY <1>9 DEF vars
<1> QED
  BY <1>1, <1>2, <1>3, <1>4, <1>5, <1>6, <1>7, <1>8, <1>9 DEF Next, ReaderStep

LEMMA MailboxInvariance == Spec => []MailboxInv
BY MailboxInit, MailboxStep, PTL DEF Spec

(* The state of the mailbox and of its reader stays of its type.           *)
THEOREM MailboxTypeCorrect == Spec => []TypeOK
BY MailboxInvariance, PTL DEF MailboxInv

(* One unread signal per queued command whenever nobody holds the lock,    *)
(* and an assertion in signaler_t::send that fires only with more unread   *)
(* commands than the signaler's socket buffer has room for.                *)
THEOREM SignalerExact == Spec => []SignalerIsExact
<1>1. MailboxInv => SignalerIsExact
  BY DEF MailboxInv, SignalerIsExact
<1> QED
  BY <1>1, MailboxInvariance, PTL

(* What was due at the stop is queued or served, and once in_event() has   *)
(* returned after the stop it is served; the thread then only leaves.      *)
StopDrains == /\ due <= Len(served) + Len(cpipe)
              /\ stopping /\ reader \in {"select", "pass"} => due <= Len(served)
              /\ ServesWhatIsDue

LEMMA StopDrainsStep == MailboxInv /\ StopDrains /\ [Next]_vars => StopDrains'
<1> SUFFICES ASSUME MailboxInv, StopDrains, [Next]_vars PROVE StopDrains'
  OBVIOUS
<1> USE DEF StopDrains, ServesWhatIsDue
<1>0. /\ Len(cpipe) \in Nat /\ Len(served) \in Nat /\ due \in Nat
      /\ cpipe \in Seq(Senders \X Nat) /\ served \in Seq(Senders \X Nat)
  BY LenProperties DEF MailboxInv, TypeOK
<1>1. ASSUME NEW s \in Senders, Push(s) PROVE StopDrains'
  <2>1. <<s, sent[s] + 1>> \in Senders \X Nat
    BY DEF MailboxInv, TypeOK
  <2>2. /\ cpipe' = Append(cpipe, <<s, sent[s] + 1>>)
        /\ UNCHANGED <<reader, stopping, served, due>>
    BY <1>1 DEF Push
  <2>3. Len(cpipe') = Len(cpipe) + 1
    BY <1>0, <2>1, <2>2, AppendProperties
  <2> QED
    BY <1>0, <2>2, <2>3
<1>2. CASE RecvNothing
  <2>1. Len(cpipe) = 0
    \* no signal and a free lock: nothing is queued
    BY <1>2 DEF RecvNothing, MailboxInv, SignalPerCommand
  <2> QED
    BY <1>0, <1>2, <2>1 DEF RecvNothing
<1>3. CASE RecvCommand
  <2>1. cpipe # <<>>
    <3>1. Len(cpipe) = signals + 1 /\ signals \in Nat
      BY <1>3 DEF RecvCommand, MailboxInv, TypeOK, LockDiscipline, SignalPerCommand
    <3> QED
      BY <3>1, EmptySeq
  <2>2. /\ served' = Append(served, Head(cpipe)) /\ cpipe' = Tail(cpipe)
        /\ reader' = "command" /\ UNCHANGED <<stopping, due>>
    BY <1>3, <2>1 DEF RecvCommand
  <2>3. Head(cpipe) \in Senders \X Nat /\ Len(cpipe') = Len(cpipe) - 1
    BY <1>0, <2>1, <2>2, HeadTailProperties
  <2>4. Len(served') = Len(served) + 1
    BY <1>0, <2>2, <2>3, AppendProperties
  <2>5. reader' = "command" /\ due' = due /\ due <= Len(served) + Len(cpipe)
    BY <2>2
  <2>6. Len(cpipe') = Len(cpipe) - 1
    BY <2>3
  <2> QED
    BY ONLY <1>0, <2>4, <2>5, <2>6
<1>4. CASE Process
  <2>1. reader' = "recv" /\ UNCHANGED <<cpipe, served>>
    BY <1>4 DEF Process
  <2>2. due' = due \/ due' = Len(served) + Len(cpipe)
    BY <1>4 DEF Process
  <2> QED
    BY <1>0, <2>1, <2>2
<1>5. CASE TestStopping
  BY <1>0, <1>5 DEF TestStopping, MailboxInv, TypeOK
<1>6. CASE Wake \/ RecvSignal
  BY <1>0, <1>6 DEF Wake, RecvSignal
<1>7. ASSUME NEW s \in Senders, Signal(s) PROVE StopDrains'
  BY <1>0, <1>7 DEF Signal
<1>8. CASE UNCHANGED vars
  BY <1>0, <1>8 DEF vars
<1> QED
  BY <1>1, <1>2, <1>3, <1>4, <1>5, <1>6, <1>7, <1>8 DEF Next, ReaderStep

(* When the I/O thread has left, everything that was in its mailbox as it  *)
(* processed the stop has been received.                                   *)
THEOREM StopLosesNothingDue == Spec => []ServesWhatIsDue
<1>1. Init => StopDrains
  <2>1. Init => due = 0 /\ Len(served) = 0 /\ Len(cpipe) = 0 /\ ~stopping /\ reader # "exited"
    BY DEF Init
  <2> QED
    BY <2>1 DEF StopDrains, ServesWhatIsDue
<1>2. StopDrains => ServesWhatIsDue
  BY DEF StopDrains
<1> QED
  BY <1>1, <1>2, StopDrainsStep, MailboxInvariance, PTL DEF Spec
-----------------------------------------------------------------------------
(* A push is a Send of the abstract queue, a successful recv() its Serve;  *)
(* signalling, waking up and processing leave the abstract queue alone.    *)
THEOREM MailboxRefinement == Spec => ImplementsQueue
<1>1. Init => CQ!Init
  BY DEF Init, CQ!Init
<1>2. [Next]_vars => [CQ!Next]_(CQ!vars)
  <2> SUFFICES ASSUME [Next]_vars PROVE CQ!Next \/ UNCHANGED CQ!vars
    OBVIOUS
  <2>1. ASSUME NEW s \in Senders, Push(s) PROVE CQ!Send(s)
    BY <2>1 DEF Push, CQ!Send
  <2>2. ASSUME NEW s \in Senders, Signal(s) PROVE UNCHANGED CQ!vars
    BY <2>2 DEF Signal, CQ!vars
  <2>3. CASE RecvCommand
    <3>1. CASE cpipe # <<>>
      BY <2>3, <3>1 DEF RecvCommand, CQ!Next, CQ!Serve
    <3>2. CASE cpipe = <<>>
      BY <2>3, <3>2 DEF RecvCommand, CQ!vars
    <3> QED
      BY <3>1, <3>2
  <2>4. CASE Wake \/ RecvNothing \/ RecvSignal \/ Process \/ TestStopping
    BY <2>4 DEF Wake, RecvNothing, RecvSignal, Process, TestStopping, CQ!vars
  <2>5. CASE UNCHANGED vars
    BY <2>5 DEF vars, CQ!vars
  <2> QED
    BY <2>1, <2>2, <2>3, <2>4, <2>5 DEF Next, ReaderStep, CQ!Next
<1> QED
  BY <1>1, <1>2, PTL DEF Spec, ImplementsQueue, CQ!Spec

(* Hence the mailbox loses, repeats, invents and reorders nothing.         *)
THEOREM MailboxIsFaithful == Spec => []ExactlyOnceInOrder
<1>1. CQ!Init => CQP!Init
  BY DEF CQ!Init, CQP!Init
<1>2. [CQ!Next]_(CQ!vars) => [CQP!Next]_(CQP!vars)
  BY DEF CQ!Next, CQP!Next, CQ!vars, CQP!vars, CQ!Send, CQP!Send, CQ!Serve, CQP!Serve
<1>3. CQP!ExactlyOnceInOrder => ExactlyOnceInOrder
  BY DEF ExactlyOnceInOrder, CQ!ExactlyOnceInOrder, CQP!ExactlyOnceInOrder,
         CQ!InSenderOrder, CQP!InSenderOrder, CQ!NothingInvented, CQP!NothingInvented,
         CQ!NothingLost, CQP!NothingLost, CQ!history, CQP!history
<1>4. CQP!Spec => []CQP!ExactlyOnceInOrder
  BY CQP!QueueIsFaithful
<1> QED
  BY <1>1, <1>2, <1>3, <1>4, MailboxRefinement, PTL DEF ImplementsQueue, CQ!Spec, CQP!Spec
-----------------------------------------------------------------------------
(* The logical thread.  That the two queues behave as one needs only their *)
(* types; that nothing pushed after stop() is run needs, besides, that     *)
(* every message carries a serial its sender had reached, and that the     *)
(* batch in the consumer queue is older than the stop() for as long as the *)
(* thread may still take from it.                                          *)
TQP == INSTANCE CommandQueueProofs WITH Senders <- IoThreads, sent <- pushed,
                                        served <- ran, queue <- consumer \o producer

Message == IoThreads \X Nat

(* No message of q has a serial beyond those that limit allows its sender. *)
Within(q, limit) == \A i \in 1..Len(q) : q[i][2] <= limit[q[i][1]]

ThreadInv ==
    /\ L!TypeOK
    /\ Within(producer, pushed)
    /\ Within(consumer, pushed)
    /\ Within(ran, pushed)
    /\ told /\ loop \in {"drain", "run"} => Within(consumer, pushedAtStop)
    /\ NothingRunAfterStop

USE ChannelsAssumption DEF L!LogicalThreadAssumption, L!LoopStates
-----------------------------------------------------------------------------
LEMMA WithinAppend ==
    ASSUME NEW q \in Seq(Message), NEW e \in Message, NEW limit,
           Within(q, limit), e[2] <= limit[e[1]]
    PROVE  Append(q, e) \in Seq(Message) /\ Within(Append(q, e), limit)
<1>1. /\ Append(q, e) \in Seq(Message)
      /\ Len(Append(q, e)) = Len(q) + 1 /\ Len(q) \in Nat
      /\ \A i \in 1..Len(q) : Append(q, e)[i] = q[i]
      /\ Append(q, e)[Len(q) + 1] = e
  BY AppendProperties
<1> QED
  BY <1>1 DEF Within

LEMMA WithinTail ==
    ASSUME NEW q \in Seq(Message), q # <<>>, NEW limit, Within(q, limit)
    PROVE  /\ Head(q) \in Message /\ Head(q)[2] <= limit[Head(q)[1]]
           /\ Tail(q) \in Seq(Message) /\ Within(Tail(q), limit)
<1>1. /\ Head(q) \in Message /\ Tail(q) \in Seq(Message)
      /\ Len(Tail(q)) = Len(q) - 1
      /\ \A i \in 1..Len(Tail(q)) : Tail(q)[i] = q[i + 1]
  BY HeadTailProperties
<1>2. Head(q) = q[1] /\ Len(q) \in Nat /\ Len(q) > 0
  BY EmptySeq
<1> QED
  BY <1>1, <1>2 DEF Within

LEMMA WithinMonotonic ==
    ASSUME NEW q \in Seq(Message), NEW s \in IoThreads, NEW limit \in [IoThreads -> Nat],
           Within(q, limit)
    PROVE  Within(q, [limit EXCEPT ![s] = @ + 1])
<1>1. \A i \in 1..Len(q) : q[i][1] \in IoThreads /\ q[i][2] \in Nat
  BY ElementOfSeq DEF Message
<1> QED
  BY <1>1 DEF Within

LEMMA ThreadInit == L!Init => ThreadInv
<1> SUFFICES ASSUME L!Init PROVE ThreadInv
  OBVIOUS
<1>1. L!TypeOK
  BY EmptySeq DEF L!Init, L!TypeOK
<1>2. Len(producer) = 0 /\ Len(consumer) = 0 /\ Len(ran) = 0 /\ ~told
  BY DEF L!Init
<1> QED
  BY <1>1, <1>2 DEF ThreadInv, Within, NothingRunAfterStop, L!NothingRunAfterStop

LEMMA ThreadStepKeeps == ThreadInv /\ [L!Next]_(L!vars) => ThreadInv'
<1> SUFFICES ASSUME ThreadInv, [L!Next]_(L!vars) PROVE ThreadInv'
  OBVIOUS
<1> USE DEF ThreadInv, L!TypeOK
<1>0. /\ producer \in Seq(Message) /\ consumer \in Seq(Message)
      /\ ran \in Seq(Message)
      /\ NothingRunAfterStop <=> (told => Within(ran, pushedAtStop))
  BY DEF Message, Within, NothingRunAfterStop, L!NothingRunAfterStop
<1>1. ASSUME NEW s \in IoThreads, L!Push(s) PROVE ThreadInv'
  <2> DEFINE e == <<s, pushed[s] + 1>>
  <2>1. /\ pushed' = [pushed EXCEPT ![s] = @ + 1] /\ producer' = Append(producer, e)
        /\ UNCHANGED <<consumer, loop, told, pushedAtStop, ran>>
    BY <1>1 DEF L!Push
  <2>2. /\ pushed' \in [IoThreads -> Nat] /\ e \in Message /\ e[2] <= pushed'[e[1]]
    BY <2>1 DEF Message
  <2>3. Within(producer, pushed') /\ Within(consumer, pushed') /\ Within(ran, pushed')
    BY <1>0, <2>1, WithinMonotonic
  <2> HIDE DEF e
  <2>4. producer' \in Seq(Message) /\ Within(producer', pushed')
    BY <1>0, <2>1, <2>2, <2>3, WithinAppend
  <2>5. L!TypeOK'
    BY <2>1, <2>2, <2>4 DEF Message
  <2>6. Within(consumer', pushed') /\ Within(ran', pushed')
    BY <2>1, <2>3
  <2>7. told' /\ loop' \in {"drain", "run"} => Within(consumer', pushedAtStop')
    BY <2>1
  <2>8. NothingRunAfterStop'
    BY <2>1 DEF NothingRunAfterStop, L!NothingRunAfterStop
  <2> QED
    BY <2>4, <2>5, <2>6, <2>7, <2>8
<1>2. CASE L!Stop
  <2>1. /\ pushedAtStop' = pushed
        /\ UNCHANGED <<producer, consumer, loop, pushed, ran>>
    BY <1>2 DEF L!Stop
  <2>2. L!TypeOK'
    BY <1>2 DEF L!Stop
  <2>3. Within(ran', pushedAtStop') /\ Within(consumer', pushedAtStop')
    BY <2>1
  <2>4. NothingRunAfterStop'
    BY <2>3 DEF Within, NothingRunAfterStop, L!NothingRunAfterStop
  <2>5. Within(producer', pushed') /\ Within(consumer', pushed') /\ Within(ran', pushed')
    BY <2>1
  <2> QED
    BY <2>2, <2>3, <2>4, <2>5
<1>3. CASE L!TestStopping
  <2>1. /\ loop' = IF told THEN "exited" ELSE "drain"
        /\ UNCHANGED <<producer, consumer, told, pushed, pushedAtStop, ran>>
    BY <1>3 DEF L!TestStopping
  <2> QED
    BY <2>1 DEF Within, NothingRunAfterStop, L!NothingRunAfterStop
<1>4. CASE L!Drain
  <2>1. CASE consumer # <<>>
    <3>1. /\ loop = "drain" /\ loop' = "run"
          /\ ran' = Append(ran, Head(consumer)) /\ consumer' = Tail(consumer)
          /\ UNCHANGED <<producer, told, pushed, pushedAtStop>>
      BY <1>4, <2>1 DEF L!Drain
    <3>2. /\ Head(consumer) \in Message /\ Head(consumer)[2] <= pushed[Head(consumer)[1]]
          /\ Tail(consumer) \in Seq(Message) /\ Within(Tail(consumer), pushed)
      BY <1>0, <2>1, WithinTail
    <3>3. ran' \in Seq(Message) /\ Within(ran', pushed')
      BY <1>0, <3>1, <3>2, WithinAppend
    <3>4. ASSUME told
          PROVE  Within(consumer', pushedAtStop') /\ Within(ran', pushedAtStop')
      <4>1. Within(consumer, pushedAtStop) /\ Within(ran, pushedAtStop)
        BY <1>0, <3>1, <3>4
      <4>2. /\ Head(consumer)[2] <= pushedAtStop[Head(consumer)[1]]
            /\ Within(Tail(consumer), pushedAtStop)
        BY <1>0, <2>1, <4>1, WithinTail
      <4>3. Within(Append(ran, Head(consumer)), pushedAtStop)
        BY <1>0, <3>2, <4>1, <4>2, WithinAppend
      <4> QED
        BY <3>1, <4>2, <4>3
    <3>5. NothingRunAfterStop'
      BY <3>1, <3>4 DEF Within, NothingRunAfterStop, L!NothingRunAfterStop
    <3>6. L!TypeOK'
      BY <3>1, <3>2, <3>3 DEF Message
    <3> QED
      BY <3>1, <3>2, <3>3, <3>4, <3>5, <3>6
  <2>2. CASE consumer = <<>>
    <3>1. /\ loop' = "swap"
          /\ UNCHANGED <<producer, consumer, told, pushed, pushedAtStop, ran>>
      BY <1>4, <2>2 DEF L!Drain
    <3> QED
      BY <3>1 DEF Within, NothingRunAfterStop, L!NothingRunAfterStop
  <2> QED
    BY <2>1, <2>2
<1>5. CASE L!Run
  <2>1. /\ loop = "run" /\ loop' = "drain"
        /\ UNCHANGED <<producer, consumer, told, pushed, pushedAtStop, ran>>
    BY <1>5 DEF L!Run
  <2> QED
    BY <2>1 DEF Within, NothingRunAfterStop, L!NothingRunAfterStop
<1>6. CASE L!Swap
  <2>1. /\ loop' = "test"
        /\ \/ UNCHANGED <<producer, consumer>>
           \/ consumer' = producer /\ producer' = consumer
        /\ UNCHANGED <<told, pushed, pushedAtStop, ran>>
    BY <1>6 DEF L!Swap
  <2> QED
    BY <2>1 DEF Within, NothingRunAfterStop, L!NothingRunAfterStop
<1>7. CASE UNCHANGED L!vars
  BY <1>7 DEF L!vars, Within, NothingRunAfterStop, L!NothingRunAfterStop
<1> QED
  BY <1>1, <1>2, <1>3, <1>4, <1>5, <1>6, <1>7 DEF L!Next, L!ThreadStep

LEMMA ThreadInvariance == L!Spec => []ThreadInv
BY ThreadInit, ThreadStepKeeps, PTL DEF L!Spec

(* The queues hold messages of the I/O threads and the thread is at one of *)
(* its places in loop().                                                   *)
THEOREM ThreadTypeCorrect == L!Spec => []L!TypeOK
BY ThreadInvariance, PTL DEF ThreadInv

(* No message that is pushed after stop() is run.                          *)
THEOREM StopIsABarrier == L!Spec => []NothingRunAfterStop
BY ThreadInvariance, PTL DEF ThreadInv
-----------------------------------------------------------------------------
(* Taking the head of the left part takes the head of a concatenation.     *)
LEMMA ConcatHeadTail ==
    ASSUME NEW S, NEW s \in Seq(S), NEW t \in Seq(S), s # <<>>
    PROVE  /\ s \o t # <<>>
           /\ Head(s \o t) = Head(s)
           /\ Tail(s \o t) = Tail(s) \o t
<1> DEFINE c == s \o t
<1>1. /\ c \in Seq(S) /\ Len(c) = Len(s) + Len(t)
      /\ \A i \in 1..Len(s) + Len(t) : c[i] = IF i <= Len(s) THEN s[i] ELSE t[i - Len(s)]
  BY ConcatProperties
<1>2. Len(s) \in Nat /\ Len(s) > 0 /\ Len(t) \in Nat
  BY EmptySeq
<1>3. c # <<>>
  BY <1>1, <1>2, EmptySeq
<1>4. Head(c) = c[1] /\ Head(s) = s[1] /\ c[1] = s[1]
  BY <1>1, <1>2
<1>5. /\ Tail(c) \in Seq(S) /\ Len(Tail(c)) = Len(c) - 1
      /\ \A i \in 1..Len(Tail(c)) : Tail(c)[i] = c[i + 1]
  BY <1>1, <1>3, HeadTailProperties
<1>6. /\ Tail(s) \in Seq(S) /\ Len(Tail(s)) = Len(s) - 1
      /\ \A i \in 1..Len(Tail(s)) : Tail(s)[i] = s[i + 1]
  BY HeadTailProperties
<1> DEFINE d == Tail(s) \o t
<1>7. /\ d \in Seq(S) /\ Len(d) = Len(s) - 1 + Len(t)
      /\ \A i \in 1..(Len(s) - 1) + Len(t) :
            d[i] = IF i <= Len(s) - 1 THEN Tail(s)[i] ELSE t[i - (Len(s) - 1)]
  BY <1>6, ConcatProperties
<1> HIDE DEF c, d
<1>8. ASSUME NEW i \in 1..Len(d) PROVE Tail(c)[i] = d[i]
  <2>1. i \in 1..Len(Tail(c)) /\ i + 1 \in 1..Len(s) + Len(t)
    BY <1>1, <1>2, <1>5, <1>7
  <2>2. CASE i <= Len(s) - 1
    BY <2>1, <2>2, <1>1, <1>2, <1>5, <1>6, <1>7
  <2>3. CASE ~(i <= Len(s) - 1)
    <3>1. ~(i + 1 <= Len(s)) /\ i + 1 - Len(s) = i - (Len(s) - 1)
      BY <2>1, <2>3, <1>2
    <3>2. Tail(c)[i] = t[i + 1 - Len(s)]
      BY <2>1, <3>1, <1>1, <1>5
    <3>3. d[i] = t[i - (Len(s) - 1)]
      BY <2>3, <1>2, <1>7
    <3> QED
      BY <3>1, <3>2, <3>3
  <2> QED
    BY <2>2, <2>3
<1>9. Tail(c) = d
  <2>1. Len(Tail(c)) = Len(d)
    BY <1>1, <1>2, <1>5, <1>7
  <2> QED
    BY <2>1, <1>5, <1>7, <1>8, SeqEqual
<1> QED
  BY <1>3, <1>4, <1>9 DEF c, d

(* A push is the Send of one queue, a pop its Serve, a swap invisible.     *)
THEOREM ThreadRefinement == L!Spec => ThreadImplementsQueue
<1>1. L!Init => L!CQ!Init
  BY DEF L!Init, L!CQ!Init
<1>2. L!TypeOK /\ [L!Next]_(L!vars) => [L!CQ!Next]_(L!CQ!vars)
  <2> SUFFICES ASSUME L!TypeOK, [L!Next]_(L!vars) PROVE L!CQ!Next \/ UNCHANGED L!CQ!vars
    OBVIOUS
  <2>0. /\ producer \in Seq(Message) /\ consumer \in Seq(Message)
        /\ pushed \in [IoThreads -> Nat]
    BY DEF L!TypeOK, Message
  <2>1. ASSUME NEW s \in IoThreads, L!Push(s) PROVE L!CQ!Send(s)
    <3>1. <<s, pushed[s] + 1>> \in Message
      BY <2>0 DEF Message
    <3>2. (consumer \o producer)' = Append(consumer \o producer, <<s, pushed[s] + 1>>)
      BY <2>0, <2>1, <3>1, TQP!ConcatAppend DEF L!Push
    <3> QED
      BY <2>1, <3>2 DEF L!Push, L!CQ!Send
  <2>2. CASE L!Drain
    <3>1. CASE consumer # <<>>
      <4>1. /\ consumer \o producer # <<>>
            /\ Head(consumer \o producer) = Head(consumer)
            /\ Tail(consumer \o producer) = Tail(consumer) \o producer
        BY <2>0, <3>1, ConcatHeadTail
      <4> QED
        BY <2>2, <3>1, <4>1 DEF L!Drain, L!CQ!Next, L!CQ!Serve
    <3>2. CASE consumer = <<>>
      BY <2>2, <3>2 DEF L!Drain, L!CQ!vars
    <3> QED
      BY <3>1, <3>2
  <2>3. CASE L!Swap
    <3>1. CASE consumer = <<>>
      <4>1. consumer' \o producer' = consumer \o producer
        BY <2>0, <2>3, <3>1, ConcatEmptySeq DEF L!Swap
      <4> QED
        BY <2>3, <4>1 DEF L!Swap, L!CQ!vars
    <3>2. CASE consumer # <<>>
      BY <2>3, <3>2 DEF L!Swap, L!CQ!vars
    <3> QED
      BY <3>1, <3>2
  <2>4. CASE L!Stop \/ L!TestStopping \/ L!Run
    BY <2>4 DEF L!Stop, L!TestStopping, L!Run, L!CQ!vars
  <2>5. CASE UNCHANGED L!vars
    BY <2>5 DEF L!vars, L!CQ!vars
  <2> QED
    BY <2>1, <2>2, <2>3, <2>4, <2>5 DEF L!Next, L!ThreadStep, L!CQ!Next
<1> QED
  BY <1>1, <1>2, ThreadTypeCorrect, PTL
     DEF L!Spec, ThreadImplementsQueue, L!ImplementsQueue, L!CQ!Spec

(* Hence no message is lost, run twice or overtaken in its I/O thread.     *)
THEOREM LogicalThreadIsFaithful == L!Spec => []L!ExactlyOnceInOrder
<1>1. L!CQ!Init => TQP!Init
  BY DEF L!CQ!Init, TQP!Init
<1>2. [L!CQ!Next]_(L!CQ!vars) => [TQP!Next]_(TQP!vars)
  BY DEF L!CQ!Next, TQP!Next, L!CQ!vars, TQP!vars, L!CQ!Send, TQP!Send, L!CQ!Serve, TQP!Serve
<1>3. TQP!ExactlyOnceInOrder => L!ExactlyOnceInOrder
  BY DEF L!ExactlyOnceInOrder, L!CQ!ExactlyOnceInOrder, TQP!ExactlyOnceInOrder,
         L!CQ!InSenderOrder, TQP!InSenderOrder, L!CQ!NothingInvented, TQP!NothingInvented,
         L!CQ!NothingLost, TQP!NothingLost, L!CQ!history, TQP!history
<1>4. TQP!Spec => []TQP!ExactlyOnceInOrder
  BY TQP!QueueIsFaithful
<1> QED
  BY <1>1, <1>2, <1>3, <1>4, ThreadRefinement, PTL
     DEF ThreadImplementsQueue, L!ImplementsQueue, L!CQ!Spec, TQP!Spec
=============================================================================
