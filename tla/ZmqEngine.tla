------------------------------ MODULE ZmqEngine ------------------------------
(***************************************************************************)
(* zmq_engine_t of SummerBreeze/SharedLib: one TCP connection.  The I/O    *)
(* thread reads whatever part of the byte stream has arrived, appends it   *)
(* to pack_packet and takes a packet off its front when one is complete;   *)
(* the packet's opcode decides what becomes of it.                         *)
(*                                                                         *)
(* Bytes are counted, not represented: a position is a number of bytes     *)
(* from the beginning of the stream, and packets[n].end is where packet n  *)
(* ends and the next one begins.                                           *)
(***************************************************************************)
EXTENDS Naturals, Sequences

CONSTANTS Kinds,         \* what opcodes the peer uses, see KindNames
          Lengths,       \* lengths of the peer's packets
          HeaderLength,  \* 20: bytes of a packet before its options
          ReadSize,      \* 1024: bytes that one read() can return
          MaxPackets     \* bound on the packets of the peer

KindNames == {"registered",  \* registered(opcode): for the logical thread
              "routed",      \* not registered, but find_route() finds a route
              "unrouted",    \* neither
              "unknown"}     \* find_and_clone() throws

ASSUME ZmqEngineAssumption ==
    /\ Kinds \subseteq KindNames
    /\ HeaderLength \in Nat \ {0}
    /\ Lengths \subseteq {l \in Nat : l >= HeaderLength}
    /\ ReadSize \in Nat \ {0}
    /\ MaxPackets \in Nat

VARIABLES packets,   \* what the peer has sent: kinds and end positions
          arrived,   \* position up to which the bytes are in our socket
          taken,     \* position up to which read() has returned them
          offset,    \* position of the first byte in pack_packet
          engine,    \* where the engine is
          peer,      \* what the peer did last
          patient,   \* does the peer wait for each answer?
          pushed,    \* the packets given to the logical thread, in order
          answered   \* how many of those it has run

vars == <<packets, arrived, taken, offset, engine, peer, patient, pushed, answered>>

EngineStates == {"select",      \* the I/O thread is in its poller
                 "reading",     \* in the loop of in_event()
                 "forwarding",  \* in the send loop for a routed packet
                 "closed"}      \* error() has deleted the engine

EndOf(n) == IF n = 0 THEN 0 ELSE packets[n].end

Sent == EndOf(Len(packets))

(* The packet whose first byte is at the front of pack_packet.             *)
AtFront(n) == n \in DOMAIN packets /\ EndOf(n - 1) = offset

(* read() returns -1: the connection was reset, or it was shut down and    *)
(* all of the stream has been read.                                        *)
ReadFails == \/ peer = "reset"
             \/ peer = "finished" /\ taken = Sent
-----------------------------------------------------------------------------
(* Slips in this code that the properties below must notice.               *)

(* length > packet_length                                                  *)
CompleteWhenExceeded(n, t) == t - offset >= HeaderLength /\ t > EndOf(n)

(* runs the packet without taking it off the buffer                        *)
DispatchNoDrain(n) ==
    /\ offset' = offset
    /\ pushed' = IF packets[n].kind = "registered" THEN Append(pushed, n) ELSE pushed
    /\ engine' = engine
-----------------------------------------------------------------------------
(* The loop of plug() starts reading at once.                              *)
Init == /\ packets = <<>>
        /\ arrived = 0
        /\ taken = 0
        /\ offset = 0
        /\ engine = "reading"
        /\ peer = "open"
        /\ patient \in BOOLEAN
        /\ pushed = <<>>
        /\ answered = 0

(* The peer sends a packet.  TestNetClient is a patient peer: it waits for *)
(* an answer to its packet before it sends another or closes the           *)
(* connection.                                                             *)
PeerSend(k, l) ==
    /\ peer = "open"
    /\ Len(packets) < MaxPackets
    /\ patient => answered = Len(packets)
    /\ packets' = Append(packets, [kind |-> k, end |-> Sent + l])
    /\ UNCHANGED <<arrived, taken, offset, engine, peer, patient, pushed, answered>>

PeerFinish == /\ peer = "open"
              /\ patient => answered = Len(packets)
              /\ peer' = "finished"
              /\ UNCHANGED <<packets, arrived, taken, offset, engine, pushed, answered, patient>>

(* The connection breaks; what had not been read is gone.                  *)
Reset == /\ peer # "reset"
         /\ peer' = "reset"
         /\ UNCHANGED <<packets, arrived, taken, offset, engine, pushed, answered, patient>>

(* TCP brings the bytes in order, cut anywhere.                            *)
Arrive(n) == /\ engine # "closed" /\ peer # "reset"
             /\ arrived < n /\ n <= Sent
             /\ arrived' = n
             /\ UNCHANGED <<packets, taken, offset, engine, peer, patient, pushed, answered>>

(* The poller finds the socket readable and calls in_event().              *)
Wake == /\ engine = "select"
        /\ taken < arrived \/ ReadFails
        /\ engine' = "reading"
        /\ UNCHANGED <<packets, arrived, taken, offset, peer, patient, pushed, answered>>

(* read() would block and in_event() returns.                              *)
ReadNothing == /\ engine = "reading"
               /\ taken = arrived
               /\ ~ReadFails
               /\ engine' = "select"
               /\ UNCHANGED <<packets, arrived, taken, offset, peer, patient, pushed, answered>>

(* read() returns -1; error() unplugs and deletes the engine.              *)
ReadError == /\ engine = "reading"
             /\ ReadFails
             /\ engine' = "closed"
             /\ UNCHANGED <<packets, arrived, taken, offset, peer, patient, pushed, answered>>

ReadEnd == IF taken + ReadSize < arrived THEN taken + ReadSize ELSE arrived

(* length >= 20 and length >= packet_length, once bytes up to t are read.  *)
Complete(n, t) == t - offset >= HeaderLength /\ t >= EndOf(n)

(* Drain() packet n and do with it what its opcode calls for.  A routed    *)
(* packet is sent on in a loop that tests packet_length, which the loop    *)
(* does not change: it ends when a send fails, if at all.                  *)
Dispatch(n) ==
    /\ offset' = EndOf(n)
    /\ \/ packets[n].kind = "registered" /\ pushed' = Append(pushed, n) /\ engine' = engine
       \/ packets[n].kind = "unrouted" /\ UNCHANGED <<pushed, engine>>
       \/ packets[n].kind = "unknown" /\ engine' = "closed" /\ UNCHANGED pushed
       \/ packets[n].kind = "routed" /\ engine' = "forwarding" /\ UNCHANGED pushed

(* One turn of the loop that reads something.  It appends the bytes and    *)
(* looks once whether a packet is complete.                                *)
ReadSome == /\ engine = "reading"
            /\ taken < arrived
            /\ peer # "reset"
            /\ taken' = ReadEnd
            /\ \/ \E n \in DOMAIN packets :
                     AtFront(n) /\ Complete(n, taken') /\ Dispatch(n)
               \/ /\ \A n \in DOMAIN packets : AtFront(n) => ~Complete(n, taken')
                  /\ UNCHANGED <<offset, engine, pushed>>
            /\ UNCHANGED <<packets, arrived, peer, patient, answered>>

(* ::send() to the route's descriptor returns SOCKET_ERROR.                *)
ForwardError == /\ engine = "forwarding"
                /\ engine' = "closed"
                /\ UNCHANGED <<packets, arrived, taken, offset, peer, patient, pushed, answered>>

(* The logical thread runs the next message; protocol_test_t answers it.   *)
Answer == /\ answered < Len(pushed)
          /\ answered' = answered + 1
          /\ UNCHANGED <<packets, arrived, taken, offset, engine, peer, patient, pushed>>

EngineStep == Wake \/ ReadNothing \/ ReadError \/ ReadSome

Peer == PeerFinish \/ \E k \in Kinds, l \in Lengths : PeerSend(k, l)

Network == \E n \in 1..Sent : Arrive(n)

Next == EngineStep \/ ForwardError \/ Answer \/ Peer \/ Reset \/ Network

Spec == Init /\ [][Next]_vars

(* The two threads run and TCP delivers.  Nothing makes the peer act, the  *)
(* connection break or the send to a route's descriptor fail.              *)
Fairness == WF_vars(EngineStep) /\ WF_vars(Answer) /\ WF_vars(Network)

FairSpec == Spec /\ Fairness
-----------------------------------------------------------------------------
TypeOK == /\ packets \in Seq([kind : Kinds, end : Nat])
          /\ arrived \in 0..Sent
          /\ taken \in 0..arrived
          /\ offset \in 0..taken
          /\ engine \in EngineStates
          /\ peer \in {"open", "finished", "reset"}
          /\ patient \in BOOLEAN
          /\ pushed \in Seq(DOMAIN packets)
          /\ answered \in 0..Len(pushed)

(* pack_packet begins where a packet begins, however the stream was cut:   *)
(* the length and the opcode are read from a header.                       *)
FrontIsAHeader == \E n \in 0..Len(packets) : offset = EndOf(n)

(* The logical thread is given the registered packets, each once and in    *)
(* the order in which they were sent: all of them that have been taken off *)
(* the buffer and none besides.                                            *)
PushedOnceInOrder ==
    /\ \A i, j \in DOMAIN pushed : i < j => pushed[i] < pushed[j]
    /\ \A n \in DOMAIN packets :
          (\E i \in DOMAIN pushed : pushed[i] = n)
             <=> packets[n].kind = "registered" /\ EndOf(n) <= offset

(* What is left in the buffer when in_event() returns is not a packet.     *)
(* With two packets in one read it may be.  The comment in plug() says     *)
(* that in_event() passes on all the data that has been received.          *)
EverythingIsTaken ==
    engine = "select" => \A n \in DOMAIN packets : AtFront(n) => taken < EndOf(n)

NoneShorterThanARead ==
    \A n \in DOMAIN packets : EndOf(n - 1) + ReadSize <= EndOf(n)

(* That does hold if the peer waits for its answers, or as long as it has  *)
(* sent no packet that is shorter than a read: although in_event() takes   *)
(* one packet at most per read, none is left to wait for bytes that the    *)
(* peer need not send.                                                     *)
NothingLeftBehind == patient \/ NoneShorterThanARead => EverythingIsTaken

(* A peer that waits for its answers gets them, unless the connection      *)
(* breaks or one of its packets is not for the logical thread.             *)
EveryPacketAnswered ==
    \A n \in 1..MaxPackets :
        patient /\ Len(packets) >= n
            ~> \/ answered >= n
               \/ peer = "reset"
               \/ \E i \in DOMAIN packets : i <= n /\ packets[i].kind # "registered"

(* What the comment in in_event() says: whatever data is available is read *)
(* completely (unless the connection has been given up).                   *)
AvailableDataIsRead ==
    [](taken < arrived => <>(taken >= arrived \/ engine = "closed"))
=============================================================================
