------------------------- MODULE FreezeMailboxProofs -------------------------
(***************************************************************************)
(* Proofs about FreezeMailbox for any number of senders and commands and   *)
(* any size of the signaler's socket buffer.  SignalCover is inductive     *)
(* with the type invariant: a push adds a command and a sender about to    *)
(* signal, a signal moves one from the senders to the socket, and the      *)
(* signal the reader takes away is made good when it looks at the queue.   *)
(***************************************************************************)
EXTENDS FreezeMailbox, SequenceTheorems, FiniteSetTheorems, TLAPS

CQP == INSTANCE CommandQueueProofs WITH queue <- cpipe

IInv == TypeOK /\ SignalCover

USE FreezeMailboxAssumption DEF ReaderStates

LEMMA SignallingFinite ==
    ASSUME TypeOK
    PROVE  /\ IsFiniteSet(signalling)
           /\ Cardinality(signalling) \in Nat
           /\ Cardinality(signalling) = 0 <=> signalling = {}
BY FS_Subset, FS_CardinalityType, FS_EmptySet DEF TypeOK

LEMMA InitIInv == Init => IInv
<1> SUFFICES ASSUME Init PROVE IInv
  OBVIOUS
<1>1. TypeOK
  BY EmptySeq DEF Init, TypeOK
<1>2. Len(cpipe) = 0 /\ signals = 0 /\ Cardinality(signalling) = 0 /\ reader = "wait"
  BY FS_EmptySet DEF Init
<1> QED
  BY <1>1, <1>2 DEF IInv, SignalCover

LEMMA StepIInv == IInv /\ [Next]_vars => IInv'
<1> SUFFICES ASSUME IInv, [Next]_vars PROVE IInv'
  OBVIOUS
<1> USE DEF IInv, TypeOK, SignalCover
<1>0. /\ Len(cpipe) \in Nat
      /\ cpipe # <<>> => Len(cpipe) > 0
      /\ cpipe = <<>> => Len(cpipe) = 0
      /\ Cardinality(signalling) \in Nat
      /\ IsFiniteSet(signalling)
  BY EmptySeq, LenProperties, SignallingFinite
<1>1. ASSUME NEW s \in Senders, Push(s) PROVE IInv'
  <2>1. <<s, sent[s] + 1>> \in Senders \X Nat /\ cpipe \in Seq(Senders \X Nat)
    OBVIOUS
  <2>2. /\ cpipe' = Append(cpipe, <<s, sent[s] + 1>>)
        /\ s \notin signalling /\ signalling' = signalling \cup {s}
        /\ sent' = [sent EXCEPT ![s] = @ + 1]
        /\ UNCHANGED <<signals, reader, interrupts, served>>
    BY <1>1 DEF Push
  <2>3. cpipe' \in Seq(Senders \X Nat) /\ Len(cpipe') = Len(cpipe) + 1
    BY ONLY <2>1, <2>2, AppendProperties
  <2>4. Cardinality(signalling') = Cardinality(signalling) + 1
    BY <1>0, <2>2, FS_AddElement
  <2>5. TypeOK'
    BY <2>2, <2>3
  <2>6. SignalCover'
    BY <1>0, <2>2, <2>3, <2>4
  <2> QED
    BY <2>5, <2>6
<1>2. ASSUME NEW s \in Senders, Signal(s) PROVE IInv'
  <2>1. /\ s \in signalling /\ signalling' = signalling \ {s}
        /\ signals < SignalCapacity /\ signals' = signals + 1
        /\ UNCHANGED <<cpipe, reader, interrupts, sent, served>>
    BY <1>2 DEF Signal
  <2>2. Cardinality(signalling') = Cardinality(signalling) - 1
    BY <1>0, <2>1, FS_RemoveElement
  <2>3. TypeOK'
    BY <2>1
  <2>4. SignalCover'
    BY <1>0, <2>1, <2>2
  <2> QED
    BY <2>3, <2>4
<1>3. CASE Wake
  BY <1>0, <1>3 DEF Wake
<1>4. CASE RecvSignal
  <2>1. /\ reader = "recv" /\ reader' = "pop"
        /\ signals' \in 0..SignalCapacity /\ signals' >= signals - 1
        /\ UNCHANGED <<cpipe, signalling, interrupts, sent, served>>
    BY <1>4 DEF RecvSignal
  <2> QED
    BY <1>0, <2>1
<1>5. CASE RecvInterrupted
  BY <1>0, <1>5 DEF RecvInterrupted
<1>6. CASE RecvCommand
  <2>1. CASE cpipe # <<>>
    <3>1. /\ Head(cpipe) \in Senders \X Nat
          /\ Tail(cpipe) \in Seq(Senders \X Nat)
          /\ Len(Tail(cpipe)) = Len(cpipe) - 1
      BY <2>1, HeadTailProperties
    <3>2. served \in Seq(Senders \X Nat)
      OBVIOUS
    <3>3. Append(served, Head(cpipe)) \in Seq(Senders \X Nat)
      BY ONLY <3>1, <3>2, AppendProperties
    <3>4. /\ reader = "pop" /\ reader' = "command"
          /\ served' = Append(served, Head(cpipe)) /\ cpipe' = Tail(cpipe)
          /\ UNCHANGED <<signals, signalling, interrupts, sent>>
      BY <1>6, <2>1 DEF RecvCommand
    <3>5. TypeOK'
      BY <3>1, <3>3, <3>4
    <3>6. SignalCover'
      BY <1>0, <3>1, <3>4
    <3> QED
      BY <3>5, <3>6
  <2>2. CASE cpipe = <<>>
    BY <1>0, <1>6, <2>2 DEF RecvCommand
  <2> QED
    BY <2>1, <2>2
<1>7. CASE Process
  BY <1>0, <1>7 DEF Process
<1>8. CASE UNCHANGED vars
  BY <1>8 DEF vars
<1> QED
  BY <1>1, <1>2, <1>3, <1>4, <1>5, <1>6, <1>7, <1>8 DEF Next, ReaderStep

LEMMA Invariance == Spec => []IInv
BY InitIInv, StepIInv, PTL DEF Spec

(* The state of the mailbox stays of its type; the signaler never holds    *)
(* more signals than its socket buffer does.                               *)
THEOREM TypeCorrect == Spec => []TypeOK
BY Invariance, PTL DEF IInv

(* Every queued command is covered by a signal, read or to come.           *)
THEOREM CommandsAreCovered == Spec => []SignalCover
BY Invariance, PTL DEF IInv

(* How far signals can be ahead of their commands.  A sender is about to   *)
(* send one signal at a time, so when the reader finds none in the socket  *)
(* no more than one for each sender is on its way; a command that is then  *)
(* taken leaves one more behind, and so does an interrupted read.          *)
LEMMA StepSignalsFollow == IInv /\ SignalsFollow /\ [Next]_vars => SignalsFollow'
<1> SUFFICES ASSUME IInv, SignalsFollow, [Next]_vars PROVE SignalsFollow'
  OBVIOUS
<1> USE DEF IInv, TypeOK, SignalsFollow
<1>0. /\ Len(cpipe) \in Nat
      /\ Cardinality(signalling) \in Nat /\ IsFiniteSet(signalling)
      /\ Cardinality(Senders) \in Nat
      /\ Cardinality(signalling) <= Cardinality(Senders)
      /\ signals \in Nat /\ interrupts \in Nat
  BY LenProperties, SignallingFinite, FS_Subset, FS_CardinalityType
<1>1. ASSUME NEW s \in Senders, Push(s) PROVE SignalsFollow'
  <2>1. Len(cpipe') = Len(cpipe) + 1
    BY <1>1, AppendProperties DEF Push
  <2>2. Cardinality(signalling') = Cardinality(signalling) + 1
    BY <1>0, <1>1, FS_AddElement DEF Push
  <2>3. UNCHANGED <<signals, reader, interrupts>>
    BY <1>1 DEF Push
  <2> QED
    BY <1>0, <2>1, <2>2, <2>3
<1>2. ASSUME NEW s \in Senders, Signal(s) PROVE SignalsFollow'
  <2>1. Cardinality(signalling') = Cardinality(signalling) - 1
    BY <1>0, <1>2, FS_RemoveElement DEF Signal
  <2>2. signals' = signals + 1 /\ UNCHANGED <<cpipe, reader, interrupts>>
    BY <1>2 DEF Signal
  <2> QED
    BY <1>0, <2>1, <2>2
<1>3. CASE Wake \/ Process
  BY <1>0, <1>3 DEF Wake, Process
<1>4. CASE RecvSignal
  <2>1. CASE signals > 0
    BY <1>0, <1>4, <2>1 DEF RecvSignal
  <2>2. CASE signals = 0
    BY <1>0, <1>4, <2>2 DEF RecvSignal
  <2> QED
    BY <1>0, <2>1, <2>2
<1>5. CASE RecvInterrupted
  BY <1>0, <1>5 DEF RecvInterrupted
<1>6. CASE RecvCommand
  <2>1. CASE cpipe # <<>>
    <3>1. cpipe' = Tail(cpipe) /\ Len(cpipe') = Len(cpipe) - 1
      BY <1>6, <2>1, HeadTailProperties DEF RecvCommand
    <3>2. reader = "pop" /\ reader' = "command" /\ UNCHANGED <<signals, signalling, interrupts>>
      BY <1>6, <2>1 DEF RecvCommand
    <3> QED
      BY <1>0, <3>1, <3>2
  <2>2. CASE cpipe = <<>>
    BY <1>0, <1>6, <2>2 DEF RecvCommand
  <2> QED
    BY <2>1, <2>2
<1>7. CASE UNCHANGED vars
  BY <1>7 DEF vars
<1> QED
  BY <1>1, <1>2, <1>3, <1>4, <1>5, <1>6, <1>7 DEF Next, ReaderStep

(* Signals do not pile up, whatever the order of pushes, signals and       *)
(* reads.                                                                  *)
THEOREM SignalsDoNotPileUp == Spec => []SignalsFollow
<1>1. Init => SignalsFollow
  <2> SUFFICES ASSUME Init PROVE SignalsFollow
    OBVIOUS
  <2>1. /\ Len(cpipe) = 0 /\ signals = 0 /\ Cardinality(signalling) = 0
        /\ reader = "wait" /\ interrupts = 0 /\ Cardinality(Senders) \in Nat
    BY FS_EmptySet, FS_CardinalityType DEF Init
  <2> QED
    BY <2>1 DEF SignalsFollow
<1> QED
  BY <1>1, StepSignalsFollow, Invariance, PTL DEF Spec

(* A poller that waits is told of every command in its mailbox.            *)
THEOREM WakeupsAreNotLost == Spec => []NoLostWakeup
<1>1. IInv => NoLostWakeup
  <2> SUFFICES ASSUME IInv, reader = "wait", cpipe # <<>>, signalling = {}
               PROVE  signals > 0
    BY DEF NoLostWakeup
  <2>1. Len(cpipe) > 0 /\ Len(cpipe) \in Nat /\ Cardinality(signalling) = 0
    BY EmptySeq, LenProperties, SignallingFinite DEF IInv, TypeOK
  <2> QED
    BY <2>1 DEF IInv, TypeOK, SignalCover
<1> QED
  BY <1>1, Invariance, PTL
-----------------------------------------------------------------------------
(* The push under the lock is the Send of the abstract queue, the pop      *)
(* under the lock its Serve; signals do not exist for it.                  *)
THEOREM Refinement == Spec => ImplementsQueue
<1>1. Init => CQ!Init
  BY DEF Init, CQ!Init
<1>2. [Next]_vars => [CQ!Next]_(CQ!vars)
  <2> SUFFICES ASSUME [Next]_vars PROVE CQ!Next \/ UNCHANGED CQ!vars
    OBVIOUS
  <2>1. ASSUME NEW s \in Senders, Push(s) PROVE CQ!Send(s)
    BY <2>1 DEF Push, CQ!Send
  <2>2. ASSUME NEW s \in Senders, Signal(s) PROVE UNCHANGED CQ!vars
    BY <2>2 DEF Signal, CQ!vars
  <2>3. CASE RecvCommand
    <3>1. CASE cpipe # <<>>
      BY <2>3, <3>1 DEF RecvCommand, CQ!Next, CQ!Serve
    <3>2. CASE cpipe = <<>>
      BY <2>3, <3>2 DEF RecvCommand, CQ!vars
    <3> QED
      BY <3>1, <3>2
  <2>4. CASE Wake \/ RecvSignal \/ RecvInterrupted \/ Process
    BY <2>4 DEF Wake, RecvSignal, RecvInterrupted, Process, CQ!vars
  <2>5. CASE UNCHANGED vars
    BY <2>5 DEF vars, CQ!vars
  <2> QED
    BY <2>1, <2>2, <2>3, <2>4, <2>5 DEF Next, ReaderStep, CQ!Next
<1> QED
  BY <1>1, <1>2, PTL DEF Spec, ImplementsQueue, CQ!Spec

(* Hence the mailbox loses, repeats, invents and reorders nothing.         *)
THEOREM FreezeMailboxIsFaithful == Spec => []ExactlyOnceInOrder
<1>1. CQ!Init => CQP!Init
  BY DEF CQ!Init, CQP!Init
<1>2. [CQ!Next]_(CQ!vars) => [CQP!Next]_(CQP!vars)
  BY DEF CQ!Next, CQP!Next, CQ!vars, CQP!vars, CQ!Send, CQP!Send, CQ!Serve, CQP!Serve
<1>3. CQP!ExactlyOnceInOrder => ExactlyOnceInOrder
  BY DEF ExactlyOnceInOrder, CQ!ExactlyOnceInOrder, CQP!ExactlyOnceInOrder,
         CQ!InSenderOrder, CQP!InSenderOrder, CQ!NothingInvented, CQP!NothingInvented,
         CQ!NothingLost, CQP!NothingLost, CQ!history, CQP!history
<1>4. CQP!Spec => []CQP!ExactlyOnceInOrder
  BY CQP!QueueIsFaithful
<1> QED
  BY <1>1, <1>2, <1>3, <1>4, Refinement, PTL DEF ImplementsQueue, CQ!Spec, CQP!Spec
=============================================================================
