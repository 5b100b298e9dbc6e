--------------------------- MODULE ZmqEngineProofs ---------------------------
(***************************************************************************)
(* Proofs about ZmqEngine for any packets, any way the stream is cut and   *)
(* any size of read.  That the buffer begins at a header and that packets  *)
(* are pushed once and in order is inductive together with the order of    *)
(* the packets' ends; that nothing is left behind needs in addition how    *)
(* far the peer can be ahead of the engine.                                *)
(***************************************************************************)
EXTENDS ZmqEngine, SequenceTheorems, TLAPS

(* Packets lie one behind the other in the stream.                         *)
EndsIncrease ==
    \A i, j \in 0..Len(packets) : i < j => EndOf(i) + HeaderLength <= EndOf(j)

IInv == TypeOK /\ EndsIncrease /\ FrontIsAHeader /\ PushedOnceInOrder

USE ZmqEngineAssumption

LEMMA InitIInv == Init => IInv
<1> SUFFICES ASSUME Init PROVE IInv
  OBVIOUS
<1>1. Len(packets) = 0 /\ DOMAIN packets = {} /\ DOMAIN pushed = {} /\ Len(pushed) = 0
  BY DEF Init
<1>2. EndOf(0) = 0
  BY DEF EndOf
<1>3. packets \in Seq([kind : Kinds, end : Nat]) /\ pushed \in Seq(DOMAIN packets)
  BY DEF Init
<1>4. TypeOK
  BY <1>1, <1>2, <1>3 DEF Init, TypeOK, EngineStates, Sent
<1> QED
  BY <1>1, <1>2, <1>4 DEF Init, IInv, EndsIncrease, FrontIsAHeader, PushedOnceInOrder

(* Positions are numbers.                                                  *)
LEMMA EndTypes ==
  ASSUME packets \in Seq([kind : Kinds, end : Nat])
  PROVE  /\ \A n \in 0..Len(packets) : EndOf(n) \in Nat
         /\ Sent \in Nat
         /\ DOMAIN packets = 1..Len(packets) /\ Len(packets) \in Nat
<1>1. DOMAIN packets = 1..Len(packets) /\ Len(packets) \in Nat
  OBVIOUS
<1>2. \A n \in 1..Len(packets) : packets[n] \in [kind : Kinds, end : Nat]
  BY ElementOfSeq
<1>3. ASSUME NEW n \in 0..Len(packets) PROVE EndOf(n) \in Nat
  <2>1. n # 0 => packets[n].end \in Nat
    BY <1>1, <1>2
  <2> QED
    BY <2>1 DEF EndOf
<1> QED
  BY <1>1, <1>3 DEF Sent

(* What a step of the peer does to the ends of packets.                    *)
LEMMA PeerSendEnds ==
  ASSUME IInv, NEW k \in Kinds, NEW l \in Lengths, PeerSend(k, l)
  PROVE  /\ packets' \in Seq([kind : Kinds, end : Nat])
         /\ Len(packets') = Len(packets) + 1
         /\ \A n \in 0..Len(packets) : EndOf(n)' = EndOf(n)
         /\ \A n \in DOMAIN packets : packets'[n] = packets[n]
         /\ \A n : n = Len(packets) + 1 => EndOf(n)' = Sent + l
         /\ Sent' = Sent + l
         /\ \A n \in 0..Len(packets) : EndOf(n) <= Sent
<1>1. packets \in Seq([kind : Kinds, end : Nat])
  BY DEF IInv, TypeOK
<1>2. Sent \in Nat /\ l \in Nat /\ Len(packets) \in Nat /\ DOMAIN packets = 1..Len(packets)
      /\ \A n \in 0..Len(packets) : EndOf(n) \in Nat
  BY <1>1, EndTypes
<1>3. [kind |-> k, end |-> Sent + l] \in [kind : Kinds, end : Nat]
  BY <1>2
<1>4. packets' = Append(packets, [kind |-> k, end |-> Sent + l])
  BY DEF PeerSend
<1>5. /\ packets' \in Seq([kind : Kinds, end : Nat])
      /\ Len(packets') = Len(packets) + 1
      /\ \A n \in 1..Len(packets) : packets'[n] = packets[n]
      /\ packets'[Len(packets) + 1] = [kind |-> k, end |-> Sent + l]
  BY ONLY <1>1, <1>3, <1>4, AppendProperties
<1>6. \A n \in 0..Len(packets) : EndOf(n)' = EndOf(n)
  BY <1>2, <1>5 DEF EndOf
<1>7. \A n : n = Len(packets) + 1 => EndOf(n)' = Sent + l
  BY <1>2, <1>5 DEF EndOf
<1>8. \A n \in 0..Len(packets) : EndOf(n) <= Sent
  BY <1>2 DEF IInv, EndsIncrease, Sent
<1>9. Sent' = Sent + l
  BY <1>5, <1>7 DEF Sent
<1> QED
  BY <1>2, <1>5, <1>6, <1>7, <1>8, <1>9

LEMMA PeerSendIInv ==
  ASSUME IInv, NEW k \in Kinds, NEW l \in Lengths, PeerSend(k, l)
  PROVE  IInv'
<1> USE DEF IInv
<1>0. packets \in Seq([kind : Kinds, end : Nat])
  BY DEF TypeOK
<1>1. /\ packets' \in Seq([kind : Kinds, end : Nat])
      /\ Len(packets') = Len(packets) + 1
      /\ \A n \in 0..Len(packets) : EndOf(n)' = EndOf(n)
      /\ \A n \in DOMAIN packets : packets'[n] = packets[n]
      /\ \A n : n = Len(packets) + 1 => EndOf(n)' = Sent + l
      /\ Sent' = Sent + l
      /\ \A n \in 0..Len(packets) : EndOf(n) <= Sent
  BY PeerSendEnds
<1>2. /\ Sent \in Nat /\ l \in Nat /\ l >= HeaderLength /\ Len(packets) \in Nat
      /\ DOMAIN packets = 1..Len(packets) /\ DOMAIN packets' = 1..(Len(packets) + 1)
      /\ \A n \in 0..Len(packets) : EndOf(n) \in Nat
  BY <1>0, <1>1, EndTypes
<1>3. UNCHANGED <<arrived, taken, offset, engine, pushed, answered, peer, patient>>
  BY DEF PeerSend
<1>4. TypeOK'
  <2>1. pushed' \in Seq(DOMAIN packets')
    BY <1>2, <1>3 DEF TypeOK
  <2> QED
    BY <1>1, <1>2, <1>3, <2>1 DEF TypeOK
<1>5. EndsIncrease'
  <2> SUFFICES ASSUME NEW i \in 0..(Len(packets) + 1), NEW j \in 0..(Len(packets) + 1), i < j
               PROVE  EndOf(i)' + HeaderLength <= EndOf(j)'
    BY <1>1 DEF EndsIncrease
  <2>1. CASE j \in 0..Len(packets)
    <3>1. i \in 0..Len(packets)
      BY <1>2, <2>1
    <3>2. EndOf(i) + HeaderLength <= EndOf(j)
      BY <2>1, <3>1 DEF EndsIncrease
    <3>3. EndOf(i)' = EndOf(i) /\ EndOf(j)' = EndOf(j)
      BY <1>1, <2>1, <3>1
    <3> QED
      BY ONLY <3>2, <3>3
  <2>2. CASE j = Len(packets) + 1
    <3>1. i \in 0..Len(packets)
      BY <1>2, <2>2
    <3>2. EndOf(j)' = Sent + l
      BY <1>1, <2>2
    <3>3. EndOf(i)' = EndOf(i) /\ EndOf(i) <= Sent /\ EndOf(i) \in Nat
      BY <1>1, <1>2, <3>1
    <3>4. Sent \in Nat /\ l \in Nat /\ l >= HeaderLength /\ HeaderLength \in Nat
      BY <1>2, ZmqEngineAssumption
    <3> QED
      BY ONLY <3>2, <3>3, <3>4
  <2> QED
    BY <1>2, <2>1, <2>2
<1>6. FrontIsAHeader'
  BY <1>1, <1>2, <1>3 DEF FrontIsAHeader
<1>7. PushedOnceInOrder'
  <2>1. offset <= Sent
    BY <1>2 DEF TypeOK
  <2>2. \A n : n = Len(packets) + 1 => ~(EndOf(n)' <= offset)
    BY <1>1, <1>2, <2>1 DEF TypeOK
  <2>3. \A i \in DOMAIN pushed : pushed[i] \in 1..Len(packets)
    BY <1>2 DEF TypeOK
  <2>4. ASSUME NEW n \in DOMAIN packets'
        PROVE (\E i \in DOMAIN pushed : pushed[i] = n)
                <=> packets'[n].kind = "registered" /\ EndOf(n)' <= offset
    <3>1. CASE n = Len(packets) + 1
      <4>1. ~(EndOf(n)' <= offset)
        BY <2>2, <3>1
      <4>2. \A i \in DOMAIN pushed : pushed[i] # n
        BY <1>2, <2>3, <3>1
      <4> QED
        BY <4>1, <4>2
    <3>2. CASE n \in DOMAIN packets
      BY <1>1, <1>2, <3>2 DEF PushedOnceInOrder
    <3> QED
      BY <1>2, <3>1, <3>2
  <2> QED
    BY <1>3, <2>4 DEF PushedOnceInOrder
<1> QED
  BY <1>4, <1>5, <1>6, <1>7

(* Taking packet n off the buffer moves the front to the end of n and to   *)
(* no end beyond.                                                          *)
LEMMA FrontMoves ==
  ASSUME IInv, NEW n \in DOMAIN packets, AtFront(n)
  PROVE  /\ n \in 1..Len(packets)
         /\ EndOf(n) \in Nat /\ offset < EndOf(n)
         /\ \A m \in DOMAIN packets : EndOf(m) <= offset <=> m < n
         /\ \A m \in DOMAIN packets : EndOf(m) <= EndOf(n) <=> m <= n
<1> USE DEF IInv
<1>1. packets \in Seq([kind : Kinds, end : Nat])
  BY DEF TypeOK
<1>2. /\ Len(packets) \in Nat /\ DOMAIN packets = 1..Len(packets)
      /\ \A m \in 0..Len(packets) : EndOf(m) \in Nat
  BY <1>1, EndTypes
<1>3. n \in 1..Len(packets) /\ n - 1 \in 0..Len(packets) /\ EndOf(n - 1) = offset
  BY <1>2 DEF AtFront
<1>4. ASSUME NEW a \in 0..Len(packets), NEW b \in 0..Len(packets)
      PROVE  EndOf(a) <= EndOf(b) <=> a <= b
  BY <1>2 DEF EndsIncrease
<1>5. \A m \in DOMAIN packets : EndOf(m) <= offset <=> m <= n - 1
  BY <1>2, <1>3, <1>4
<1>6. \A m \in DOMAIN packets : EndOf(m) <= EndOf(n) <=> m <= n
  BY <1>2, <1>3, <1>4
<1> QED
  BY <1>2, <1>3, <1>5, <1>6

LEMMA ReadSomeIInv == ASSUME IInv, ReadSome PROVE IInv'
<1> USE DEF IInv
<1>0. packets \in Seq([kind : Kinds, end : Nat]) /\ pushed \in Seq(DOMAIN packets)
  BY DEF TypeOK
<1>1. /\ Len(packets) \in Nat /\ DOMAIN packets = 1..Len(packets)
      /\ \A m \in 0..Len(packets) : EndOf(m) \in Nat
      /\ Sent \in Nat
  BY <1>0, EndTypes
<1>2. UNCHANGED <<packets, arrived, peer, patient, answered>> /\ Sent' = Sent
      /\ \A m : EndOf(m)' = EndOf(m)
  BY DEF ReadSome, EndOf, Sent
<1>3. taken' \in taken..arrived /\ taken \in Nat /\ arrived \in Nat
  BY <1>1 DEF ReadSome, ReadEnd, TypeOK
<1>4. EndsIncrease'
  BY <1>2 DEF EndsIncrease
<1>5. CASE UNCHANGED <<offset, engine, pushed>>
  <2>1. TypeOK'
    BY <1>1, <1>2, <1>3, <1>5 DEF TypeOK
  <2>2. FrontIsAHeader' /\ PushedOnceInOrder'
    BY <1>2, <1>5 DEF FrontIsAHeader, PushedOnceInOrder
  <2> QED
    BY <1>4, <2>1, <2>2
<1>6. ASSUME NEW n \in DOMAIN packets, AtFront(n), Complete(n, taken'), Dispatch(n)
      PROVE  IInv'
  <2>1. /\ n \in 1..Len(packets)
        /\ EndOf(n) \in Nat /\ offset < EndOf(n)
        /\ \A m \in DOMAIN packets : EndOf(m) <= offset <=> m < n
        /\ \A m \in DOMAIN packets : EndOf(m) <= EndOf(n) <=> m <= n
    BY <1>6, FrontMoves
  <2>2. offset' = EndOf(n) /\ EndOf(n) <= taken'
    BY <1>6 DEF Dispatch, Complete
  <2>3. FrontIsAHeader'
    BY <1>1, <1>2, <2>1, <2>2 DEF FrontIsAHeader
  <2>4. engine' \in EngineStates
    BY <1>6 DEF Dispatch, TypeOK, EngineStates
  <2>5. CASE packets[n].kind = "registered"
    <3>1. pushed' = Append(pushed, n)
      BY <1>6, <2>5 DEF Dispatch
    <3>2. /\ pushed' \in Seq(DOMAIN packets)
          /\ Len(pushed') = Len(pushed) + 1
          /\ \A i \in 1..Len(pushed) : pushed'[i] = pushed[i]
          /\ pushed'[Len(pushed) + 1] = n
      BY ONLY <1>0, <3>1, n \in DOMAIN packets, AppendProperties
    <3>3. Len(pushed) \in Nat /\ DOMAIN pushed = 1..Len(pushed)
          /\ DOMAIN pushed' = 1..(Len(pushed) + 1)
      BY <1>0, <3>2
    <3>4. \A i \in DOMAIN pushed : pushed[i] \in DOMAIN packets /\ pushed[i] < n
      BY <1>0, <2>1, <3>3 DEF PushedOnceInOrder
    <3>5. TypeOK'
      BY <1>1, <1>2, <1>3, <2>1, <2>2, <2>4, <3>2, <3>3 DEF TypeOK
    <3>6. \A i, j \in DOMAIN pushed' : i < j => pushed'[i] < pushed'[j]
      <4> SUFFICES ASSUME NEW i \in 1..(Len(pushed) + 1), NEW j \in 1..(Len(pushed) + 1), i < j
                   PROVE  pushed'[i] < pushed'[j]
        BY <3>3
      <4>1. i \in 1..Len(pushed) /\ pushed'[i] = pushed[i] /\ pushed[i] < n
        BY <3>2, <3>3, <3>4
      <4>2. CASE j \in 1..Len(pushed)
        BY <3>2, <3>3, <4>1, <4>2 DEF PushedOnceInOrder
      <4>3. CASE j = Len(pushed) + 1
        BY <3>2, <4>1, <4>3
      <4> QED
        BY <3>3, <4>2, <4>3
    <3>7. ASSUME NEW m \in DOMAIN packets
          PROVE  (\E i \in DOMAIN pushed' : pushed'[i] = m)
                   <=> packets[m].kind = "registered" /\ EndOf(m) <= EndOf(n)
      <4>1. CASE m = n
        BY <2>1, <2>5, <3>2, <3>3, <4>1
      <4>2. CASE m # n
        <5>1. (\E i \in DOMAIN pushed' : pushed'[i] = m)
                <=> (\E i \in DOMAIN pushed : pushed[i] = m)
          BY <3>2, <3>3, <4>2
        <5>2. EndOf(m) <= EndOf(n) <=> EndOf(m) <= offset
          BY <1>1, <2>1, <4>2
        <5> QED
          BY <5>1, <5>2 DEF PushedOnceInOrder
      <4> QED
        BY <4>1, <4>2
    <3> QED
      BY <1>2, <1>4, <2>2, <2>3, <3>5, <3>6, <3>7 DEF PushedOnceInOrder
  <2>6. CASE packets[n].kind # "registered"
    <3>1. pushed' = pushed
      BY <1>6, <2>6 DEF Dispatch
    <3>2. TypeOK'
      BY <1>1, <1>2, <1>3, <2>1, <2>2, <2>4, <3>1 DEF TypeOK
    <3>3. ASSUME NEW m \in DOMAIN packets
          PROVE  (\E i \in DOMAIN pushed : pushed[i] = m)
                   <=> packets[m].kind = "registered" /\ EndOf(m) <= EndOf(n)
      <4>1. m # n => (EndOf(m) <= EndOf(n) <=> EndOf(m) <= offset)
        BY <1>1, <2>1
      <4>2. ~(EndOf(n) <= offset)
        BY <2>1 DEF TypeOK
      <4> QED
        BY <2>6, <4>1, <4>2 DEF PushedOnceInOrder
    <3> QED
      BY <1>2, <1>4, <2>2, <2>3, <3>1, <3>2, <3>3 DEF PushedOnceInOrder
  <2> QED
    BY <2>5, <2>6
<1> QED
  BY <1>5, <1>6 DEF ReadSome

LEMMA StepIInv == IInv /\ [Next]_vars => IInv'
<1> SUFFICES ASSUME IInv, [Next]_vars PROVE IInv'
  OBVIOUS
<1>0. packets \in Seq([kind : Kinds, end : Nat])
  BY DEF IInv, TypeOK
<1>1. /\ Len(packets) \in Nat /\ DOMAIN packets = 1..Len(packets) /\ Sent \in Nat
  BY <1>0, EndTypes
<1>2. ASSUME UNCHANGED <<packets, taken, offset, pushed, patient>>,
             arrived' \in arrived..Sent, engine' \in EngineStates,
             peer' \in {"open", "finished", "reset"}, answered' \in 0..Len(pushed)
      PROVE  IInv'
  BY <1>1, <1>2 DEF IInv, TypeOK, Sent, EndOf, EndsIncrease, FrontIsAHeader, PushedOnceInOrder
<1>3. arrived \in arrived..Sent /\ answered \in 0..Len(pushed) /\ Len(pushed) \in Nat
      /\ engine \in EngineStates /\ peer \in {"open", "finished", "reset"} /\ arrived \in Nat
  BY <1>1 DEF IInv, TypeOK
<1>4. ASSUME NEW k \in Kinds, NEW l \in Lengths, PeerSend(k, l) PROVE IInv'
  BY <1>4, PeerSendIInv
<1>5. CASE PeerFinish \/ Reset
  BY <1>2, <1>3, <1>5 DEF PeerFinish, Reset
<1>6. ASSUME NEW n \in 1..Sent, Arrive(n) PROVE IInv'
  BY <1>1, <1>2, <1>3, <1>6 DEF Arrive
<1>7. CASE Wake \/ ReadNothing \/ ReadError \/ ForwardError
  BY <1>2, <1>3, <1>7 DEF Wake, ReadNothing, ReadError, ForwardError, EngineStates
<1>8. CASE ReadSome
  BY <1>8, ReadSomeIInv
<1>9. CASE Answer
  BY <1>2, <1>3, <1>9 DEF Answer
<1>10. CASE UNCHANGED vars
  BY <1>2, <1>3, <1>10 DEF vars
<1> QED
  BY <1>4, <1>5, <1>6, <1>7, <1>8, <1>9, <1>10 DEF Next, EngineStep, Peer, Network

(* Positions stay in order and variables in their types.                   *)
THEOREM TypeCorrect == Spec => []TypeOK
<1>1. IInv => TypeOK
  BY DEF IInv
<1> QED
  BY InitIInv, StepIInv, <1>1, PTL DEF Spec

(* However the stream is cut, the buffer begins with a header.             *)
THEOREM BufferIsAligned == Spec => []FrontIsAHeader
<1>1. IInv => FrontIsAHeader
  BY DEF IInv
<1> QED
  BY InitIInv, StepIInv, <1>1, PTL DEF Spec

(* However the stream is cut, each registered packet that leaves the       *)
(* buffer is given to the logical thread once, in order.                   *)
THEOREM PushedFaithfully == Spec => []PushedOnceInOrder
<1>1. IInv => PushedOnceInOrder
  BY DEF IInv
<1> QED
  BY InitIInv, StepIInv, <1>1, PTL DEF Spec
-----------------------------------------------------------------------------
(* How far the peer can be ahead if it waits for its answers.              *)
Ahead ==
    /\ patient => Len(packets) <= answered + 1
    /\ \A i \in DOMAIN pushed : i <= pushed[i]

Tame == patient \/ NoneShorterThanARead

NothingComplete ==
    engine \in {"select", "reading"} /\ Tame =>
        \A n \in DOMAIN packets : AtFront(n) => taken < EndOf(n)

LEMMA InitAhead == Init => Ahead /\ NothingComplete
<1> SUFFICES ASSUME Init PROVE Ahead /\ NothingComplete
  OBVIOUS
<1>1. Len(packets) = 0 /\ DOMAIN packets = {} /\ DOMAIN pushed = {} /\ answered = 0
  BY DEF Init
<1> QED
  BY <1>1 DEF Ahead, NothingComplete

LEMMA PeerSendAhead ==
  ASSUME IInv, Ahead, NothingComplete, NEW k \in Kinds, NEW l \in Lengths, PeerSend(k, l)
  PROVE  Ahead' /\ NothingComplete'
<1>0. packets \in Seq([kind : Kinds, end : Nat])
  BY DEF IInv, TypeOK
<1>1. /\ packets' \in Seq([kind : Kinds, end : Nat])
      /\ Len(packets') = Len(packets) + 1
      /\ \A n \in 0..Len(packets) : EndOf(n)' = EndOf(n)
      /\ \A n : n = Len(packets) + 1 => EndOf(n)' = Sent + l
  BY PeerSendEnds
<1>2. /\ Sent \in Nat /\ l \in Nat /\ l > 0 /\ Len(packets) \in Nat
      /\ DOMAIN packets = 1..Len(packets) /\ DOMAIN packets' = 1..(Len(packets) + 1)
      /\ \A n \in 0..Len(packets) : EndOf(n) \in Nat
  BY <1>0, <1>1, EndTypes
<1>3. /\ UNCHANGED <<arrived, taken, offset, engine, pushed, answered, peer, patient>>
      /\ patient => answered = Len(packets)
  BY DEF PeerSend
<1>4. taken \in Nat /\ taken <= Sent
  BY <1>2 DEF IInv, TypeOK
<1>5. ASSUME NoneShorterThanARead', NEW n \in DOMAIN packets
      PROVE  EndOf(n - 1) + ReadSize <= EndOf(n)
  <2>1. n \in DOMAIN packets' /\ n \in 0..Len(packets) /\ n - 1 \in 0..Len(packets)
    BY <1>2
  <2>2. EndOf(n - 1)' = EndOf(n - 1) /\ EndOf(n)' = EndOf(n)
    BY <1>1, <2>1
  <2> QED
    BY <1>5, <2>1, <2>2 DEF NoneShorterThanARead
<1>6. Ahead'
  BY <1>1, <1>2, <1>3 DEF Ahead
<1>7. NothingComplete'
  <2> SUFFICES ASSUME engine \in {"select", "reading"}, Tame', NEW n \in DOMAIN packets', AtFront(n)'
               PROVE  taken < EndOf(n)'
    BY <1>3 DEF NothingComplete
  <2>0. Tame
    BY <1>3, <1>5 DEF Tame, NoneShorterThanARead
  <2>1. CASE n = Len(packets) + 1
    BY <1>1, <1>2, <1>4, <2>1
  <2>2. CASE n \in 1..Len(packets)
    <3>1. n - 1 \in 0..Len(packets)
      BY <1>2, <2>2
    <3>2. EndOf(n - 1)' = EndOf(n - 1) /\ EndOf(n)' = EndOf(n)
      BY <1>1, <2>2, <3>1
    <3> QED
      BY <1>2, <1>3, <2>0, <2>2, <3>2 DEF NothingComplete, AtFront
  <2> QED
    BY <1>2, <2>1, <2>2
<1> QED
  BY <1>6, <1>7

(* After a read that completed a packet the next one is not complete too.  *)
LEMMA ReadSomeAhead ==
  ASSUME IInv, Ahead, NothingComplete, ReadSome
  PROVE  Ahead' /\ NothingComplete'
<1> USE DEF IInv
<1>0. packets \in Seq([kind : Kinds, end : Nat]) /\ pushed \in Seq(DOMAIN packets)
  BY DEF TypeOK
<1>1. /\ Len(packets) \in Nat /\ DOMAIN packets = 1..Len(packets)
      /\ \A m \in 0..Len(packets) : EndOf(m) \in Nat
      /\ Sent \in Nat
  BY <1>0, EndTypes
<1>2. UNCHANGED <<packets, arrived, peer, patient, answered>> /\ \A m : EndOf(m)' = EndOf(m)
  BY DEF ReadSome, EndOf
<1>2a. Tame' = Tame
  BY <1>2 DEF Tame, NoneShorterThanARead
<1>3. /\ taken' <= taken + ReadSize /\ taken' \in Nat /\ taken \in Nat
      /\ offset \in Nat /\ engine = "reading"
  BY <1>1 DEF ReadSome, ReadEnd, TypeOK
<1>4. ASSUME UNCHANGED <<offset, engine, pushed>>,
             \A n \in DOMAIN packets : AtFront(n) => ~Complete(n, taken')
      PROVE  Ahead' /\ NothingComplete'
  <2>1. Ahead'
    BY <1>2, <1>4 DEF Ahead
  <2>2. ASSUME NEW n \in DOMAIN packets, AtFront(n) PROVE taken' < EndOf(n)
    <3>1. n - 1 \in 0..Len(packets) /\ n \in 0..Len(packets) /\ n - 1 < n
      BY <1>1
    <3>2. EndOf(n - 1) + HeaderLength <= EndOf(n) /\ EndOf(n - 1) = offset
      BY <2>2, <3>1 DEF EndsIncrease, AtFront
    <3>3. ~(taken' - offset >= HeaderLength /\ taken' >= EndOf(n))
      BY <1>4, <2>2 DEF Complete
    <3>4. offset + HeaderLength <= EndOf(n) /\ EndOf(n) \in Nat /\ HeaderLength \in Nat
      BY <1>1, <3>1, <3>2
    <3>5. SUFFICES ASSUME taken' >= EndOf(n) PROVE FALSE
      BY <1>3, <3>4
    <3>6. taken' - offset >= HeaderLength
      <4>1. \A t, o, h, e \in Nat : o + h <= e /\ t >= e => t - o >= h
        OBVIOUS
      <4>2. taken' \in Nat /\ offset \in Nat
        BY <1>3
      <4> QED
        BY ONLY <3>4, <3>5, <4>1, <4>2
    <3> QED
      BY <3>3, <3>5, <3>6
  <2> QED
    BY <1>2, <1>4, <2>1, <2>2 DEF NothingComplete, AtFront
<1>5. ASSUME NEW n \in DOMAIN packets, AtFront(n), Complete(n, taken'), Dispatch(n)
      PROVE  Ahead' /\ NothingComplete'
  <2>1. /\ n \in 1..Len(packets)
        /\ EndOf(n) \in Nat /\ offset < EndOf(n)
        /\ \A m \in DOMAIN packets : EndOf(m) <= offset <=> m < n
    BY <1>5, FrontMoves
  <2>2. offset' = EndOf(n) /\ (Tame => taken < EndOf(n))
    BY <1>3, <1>5 DEF Dispatch, NothingComplete
  <2>3. \A i \in DOMAIN pushed : pushed[i] \in DOMAIN packets /\ pushed[i] < n
    BY <1>0, <2>1 DEF PushedOnceInOrder
  <2>4. Len(pushed) \in Nat /\ DOMAIN pushed = 1..Len(pushed)
    BY <1>0
  <2>5. Len(pushed) < n
    <3>1. CASE Len(pushed) = 0
      BY <2>1, <3>1
    <3>2. CASE Len(pushed) # 0
      <4>1. Len(pushed) \in DOMAIN pushed
        BY <2>4, <3>2
      <4> QED
        BY <1>1, <2>1, <2>3, <2>4, <4>1 DEF Ahead
    <3> QED
      BY <3>1, <3>2
  <2>6. \A i \in DOMAIN pushed' : i <= pushed'[i]
    <3>1. CASE pushed' = pushed
      BY <3>1 DEF Ahead
    <3>2. CASE pushed' = Append(pushed, n)
      <4>1. /\ Len(pushed') = Len(pushed) + 1
            /\ \A i \in 1..Len(pushed) : pushed'[i] = pushed[i]
            /\ pushed'[Len(pushed) + 1] = n
            /\ pushed' \in Seq(DOMAIN packets)
        BY ONLY <1>0, <3>2, n \in DOMAIN packets, AppendProperties
      <4>2. DOMAIN pushed' = 1..(Len(pushed) + 1)
        BY <4>1
      <4> QED
        BY <1>1, <2>1, <2>4, <2>5, <4>1, <4>2 DEF Ahead
    <3> QED
      BY <1>5, <3>1, <3>2 DEF Dispatch
  <2>7. Ahead'
    BY <1>2, <2>6 DEF Ahead
  <2>8. ASSUME Tame, NEW m \in DOMAIN packets, EndOf(m - 1) = EndOf(n) PROVE taken' < EndOf(m)
    <3>1. m - 1 = n
      <4>1. m - 1 \in 0..Len(packets) /\ n \in 0..Len(packets)
        BY <1>1, <2>1
      <4>2. m - 1 < n => EndOf(m - 1) + HeaderLength <= EndOf(n)
        BY <4>1 DEF EndsIncrease
      <4>3. n < m - 1 => EndOf(n) + HeaderLength <= EndOf(m - 1)
        BY <4>1 DEF EndsIncrease
      <4> QED
        BY <1>1, <2>1, <2>8, <4>1, <4>2, <4>3
    <3>2. ~patient
      BY <1>1, <2>1, <2>4, <2>5, <3>1 DEF Ahead, TypeOK
    <3>3. EndOf(m - 1) + ReadSize <= EndOf(m)
      BY <2>8, <3>2 DEF Tame, NoneShorterThanARead
    <3> QED
      BY <1>1, <1>3, <2>1, <2>2, <2>8, <3>3
  <2>9. NothingComplete'
    BY <1>2, <1>2a, <2>2, <2>8 DEF NothingComplete, AtFront
  <2> QED
    BY <2>7, <2>9
<1> QED
  BY <1>4, <1>5 DEF ReadSome

LEMMA StepAhead ==
  ASSUME IInv, Ahead, NothingComplete, [Next]_vars
  PROVE  Ahead' /\ NothingComplete'
<1>1. answered \in Nat /\ Len(pushed) \in Nat /\ Len(packets) \in Nat
  BY DEF IInv, TypeOK
<1>2. ASSUME UNCHANGED <<packets, taken, offset, pushed, patient>>,
             answered' \in {answered, answered + 1},
             engine' \in {"select", "reading"} => engine \in {"select", "reading"}
      PROVE  Ahead' /\ NothingComplete'
  BY <1>1, <1>2 DEF Ahead, NothingComplete, Tame, NoneShorterThanARead, AtFront, EndOf
<1>3. ASSUME NEW k \in Kinds, NEW l \in Lengths, PeerSend(k, l) PROVE Ahead' /\ NothingComplete'
  BY <1>3, PeerSendAhead
<1>4. CASE PeerFinish \/ Reset
  BY <1>2, <1>4 DEF PeerFinish, Reset
<1>5. ASSUME NEW n \in 1..Sent, Arrive(n) PROVE Ahead' /\ NothingComplete'
  BY <1>2, <1>5 DEF Arrive
<1>6. CASE Wake \/ ReadNothing \/ ReadError \/ ForwardError
  BY <1>2, <1>6 DEF Wake, ReadNothing, ReadError, ForwardError
<1>7. CASE ReadSome
  BY <1>7, ReadSomeAhead
<1>8. CASE Answer
  BY <1>2, <1>8 DEF Answer
<1>9. CASE UNCHANGED vars
  BY <1>2, <1>9 DEF vars
<1> QED
  BY <1>3, <1>4, <1>5, <1>6, <1>7, <1>8, <1>9 DEF Next, EngineStep, Peer, Network

(* For a peer that waits for each answer, and for streams without a packet *)
(* shorter than a read, no complete packet is left in the buffer when      *)
(* in_event() returns.                                                     *)
THEOREM PacketsAreNotHeldBack == Spec => []NothingLeftBehind
<1>1. Init => IInv /\ Ahead /\ NothingComplete
  BY InitIInv, InitAhead
<1>2. IInv /\ Ahead /\ NothingComplete /\ [Next]_vars => (IInv /\ Ahead /\ NothingComplete)'
  BY StepIInv, StepAhead
<1>3. NothingComplete => NothingLeftBehind
  BY DEF NothingComplete, Tame, NothingLeftBehind, EverythingIsTaken
<1> QED
  BY <1>1, <1>2, <1>3, PTL DEF Spec
=============================================================================
