---------------------------- MODULE RpcMysqlProofs ----------------------------
(***************************************************************************)
(* Proofs about RpcMysql for any callers and any number of requests, for a *)
(* map of stubs that any number of threads use at once.  The inductive     *)
(* invariant follows a request by its id: until its response is handled it *)
(* is in one place only, unanswered, and its strings exist while it is on  *)
(* its way to the server.                                                  *)
(*                                                                         *)
(* Then the mailboxes that lie under its queues, as M, for any callers and *)
(* any size of a socket pair, and the connection that the server's thread  *)
(* asks, as C, for any limit of its errors.                                *)
(***************************************************************************)
EXTENDS RpcMysql, SequenceTheorems, FiniteSetTheorems, TLAPS

(* The two mailboxes of RpcMailboxes and what each of them is.             *)
CONSTANTS Server, MaxSends, SignalCapacity

VARIABLES requestPipe, requestSignals, requesting, serverLoop, requested, handled,
          responsePipe, responseSignals, responding, clientLoop, responded, called

M == INSTANCE RpcMailboxes WITH requests <- requestPipe, responses <- responsePipe

QP == INSTANCE FreezeMailboxProofs WITH
        Senders <- Callers, MaxInterrupts <- 0, interrupts <- 0,
        cpipe <- requestPipe, signals <- requestSignals, signalling <- requesting,
        reader <- serverLoop, sent <- requested, served <- handled

PP == INSTANCE FreezeMailboxProofs WITH
        Senders <- {Server}, MaxSends <- M!MaxResponses, MaxInterrupts <- 0, interrupts <- 0,
        cpipe <- responsePipe, signals <- responseSignals, signalling <- responding,
        reader <- clientLoop, sent <- responded, served <- called

(* The connection that the server's thread has.                            *)
CONSTANTS Limit, LostErrnos, OtherErrnos, MaxCalls

VARIABLES mysql, reConnectCount, at, errNo, returned, calls

C == INSTANCE MySQLConnection

Ran(s) == {s[i] : i \in DOMAIN s}
NoDup(s) == \A i, j \in DOMAIN s : s[i] = s[j] => i = j

Types == /\ msgId \in 0..MaxRequests
         /\ sendRPC \in [Callers -> SendRPCStates]
         /\ current \in [Callers -> Nat \cup {None}]
         /\ \A c \in Callers : sendRPC[c] # "out" => current[c] \in Nat
         /\ requests \in Seq(Nat \cup {StopCommand})
         /\ responses \in Seq(Nat \cup {StopCommand})
         /\ server \in Nat \cup {None} /\ client \in Nat \cup {None}
         /\ stubs \subseteq Nat
         /\ callbacks \in [0..(MaxRequests - 1) -> Nat]

(* A caller is about to send request i.                                    *)
Leaving(i) == \E c \in Callers : sendRPC[c] = "send" /\ current[c] = i

(* A request is in one place only.                                         *)
Apart == /\ NoDup(requests) /\ NoDup(responses)
         /\ \A i \in Nat : i \in Ran(requests) => i \notin Ran(responses)
         /\ server \in Nat => server \notin Ran(requests) /\ server \notin Ran(responses)
         /\ \A i \in Nat : Leaving(i) =>
                i \notin Ran(requests) /\ i \notin Ran(responses) /\ i # server
         /\ \A c, d \in Callers : /\ sendRPC[c] = "send" /\ sendRPC[d] = "send"
                                  /\ current[c] = current[d]
                                  => c = d

Outgoing(i) == Leaving(i) \/ i \in Ran(requests) \/ i = server

Unanswered == \A i \in Nat : Outgoing(i) \/ i \in Ran(responses) =>
                                i < msgId /\ callbacks[i] = 0 /\ i \notin lost

HasStrings == \A i \in Nat : Outgoing(i) => i \in strings

Answered == client \in Nat => client < msgId /\ callbacks[client] > 0

Once == /\ \A i \in lost : i \in Nat /\ i < msgId
        /\ \A i \in 0..(MaxRequests - 1) : /\ i >= msgId => callbacks[i] = 0
                                           /\ callbacks[i] \in {0, 1}
                                           /\ i \in lost => callbacks[i] = 0

IInv == Types /\ Apart /\ Unanswered /\ HasStrings /\ Answered /\ Once

USE RpcMysqlAssumption DEF SendRPCStates
-----------------------------------------------------------------------------
LEMMA RanOfAppend ==
    ASSUME NEW S, NEW s \in Seq(S), NEW x \in S
    PROVE  /\ Append(s, x) \in Seq(S)
           /\ Ran(Append(s, x)) = Ran(s) \cup {x}
           /\ NoDup(s) /\ x \notin Ran(s) => NoDup(Append(s, x))
<1> DEFINE t == Append(s, x)
<1>1. /\ t \in Seq(S) /\ Len(t) = Len(s) + 1 /\ t[Len(s) + 1] = x
      /\ \A i \in 1..Len(s) : t[i] = s[i]
  BY AppendProperties
<1>2. Len(s) \in Nat /\ DOMAIN s = 1..Len(s) /\ DOMAIN t = 1..(Len(s) + 1)
  BY <1>1, LenProperties
<1> HIDE DEF t
<1>3. Ran(t) = Ran(s) \cup {x}
  <2>1. ASSUME NEW y \in Ran(t) PROVE y \in Ran(s) \cup {x}
    <3>1. PICK i \in 1..(Len(s) + 1) : y = t[i]
      BY <1>2 DEF Ran
    <3>2. i \in 1..Len(s) \/ i = Len(s) + 1
      BY <1>2
    <3> QED
      BY <1>1, <1>2, <3>1, <3>2 DEF Ran
  <2>2. ASSUME NEW y \in Ran(s) PROVE y \in Ran(t)
    <3>1. PICK i \in 1..Len(s) : y = s[i]
      BY <1>2 DEF Ran
    <3>2. i \in 1..(Len(s) + 1)
      BY <1>2
    <3> QED
      BY <1>1, <1>2, <3>1, <3>2 DEF Ran
  <2>3. x \in Ran(t)
    <3>1. Len(s) + 1 \in 1..(Len(s) + 1)
      BY <1>2
    <3> QED
      BY <1>1, <1>2, <3>1 DEF Ran
  <2> QED
    BY <2>1, <2>2, <2>3
<1>4. ASSUME NoDup(s), x \notin Ran(s) PROVE NoDup(t)
  <2>1. ASSUME NEW i \in 1..(Len(s) + 1), NEW j \in 1..(Len(s) + 1), t[i] = t[j]
        PROVE  i = j
    <3>1. (i \in 1..Len(s) \/ i = Len(s) + 1) /\ (j \in 1..Len(s) \/ j = Len(s) + 1)
      BY <1>2
    <3>2. \A k \in 1..Len(s) : s[k] # x
      BY <1>2, <1>4 DEF Ran
    <3> QED
      BY <1>1, <1>2, <1>4, <2>1, <3>1, <3>2 DEF NoDup
  <2> QED
    BY <1>2, <2>1 DEF NoDup
<1> QED
  BY <1>1, <1>3, <1>4 DEF t

LEMMA RanOfTail ==
    ASSUME NEW S, NEW s \in Seq(S), s # <<>>
    PROVE  /\ Tail(s) \in Seq(S)
           /\ Head(s) \in S /\ Head(s) \in Ran(s)
           /\ Ran(Tail(s)) \subseteq Ran(s) /\ Ran(s) = Ran(Tail(s)) \cup {Head(s)}
           /\ NoDup(s) => NoDup(Tail(s)) /\ Head(s) \notin Ran(Tail(s))
<1> DEFINE t == Tail(s)
<1>1. /\ Head(s) \in S /\ t \in Seq(S) /\ Head(s) = s[1]
      /\ Len(t) = Len(s) - 1 /\ \A i \in 1..Len(t) : t[i] = s[i + 1]
  BY HeadTailProperties
<1>2. /\ Len(s) \in Nat \ {0} /\ DOMAIN s = 1..Len(s) /\ DOMAIN t = 1..Len(t)
  BY <1>1, EmptySeq, LenProperties
<1> HIDE DEF t
<1>3. \A i \in 1..Len(t) : i + 1 \in 1..Len(s) /\ i + 1 # 1 /\ t[i] = s[i + 1]
  BY <1>1, <1>2
<1>4. Head(s) \in Ran(s)
  BY <1>1, <1>2 DEF Ran
<1>5. Ran(t) \subseteq Ran(s) /\ Ran(s) = Ran(t) \cup {Head(s)}
  <2>1. ASSUME NEW i \in 1..Len(s), i # 1 PROVE i - 1 \in 1..Len(t) /\ s[i] = t[i - 1]
    <3>1. i - 1 \in 1..Len(t) /\ (i - 1) + 1 = i
      BY <1>1, <1>2, <2>1
    <3> QED
      BY <1>1, <3>1
  <2>2. ASSUME NEW i \in DOMAIN s PROVE s[i] \in Ran(t) \cup {Head(s)}
    BY <1>1, <1>2, <2>1 DEF Ran
  <2>3. Ran(t) \subseteq Ran(s)
    BY <1>2, <1>3 DEF Ran
  <2> QED
    BY <1>4, <2>2, <2>3 DEF Ran
<1>6. ASSUME NoDup(s) PROVE NoDup(t) /\ Head(s) \notin Ran(t)
  <2>1. ASSUME NEW i \in 1..Len(t), NEW j \in 1..Len(t), t[i] = t[j] PROVE i = j
    <3>1. i + 1 = j + 1
      BY <1>2, <1>3, <1>6, <2>1 DEF NoDup
    <3> QED
      BY <3>1
  <2>2. \A i \in 1..Len(t) : t[i] # Head(s)
    <3>1. 1 \in 1..Len(s)
      BY <1>2
    <3> QED
      BY <1>1, <1>2, <1>3, <1>6, <3>1 DEF NoDup
  <2> QED
    BY <1>2, <2>1, <2>2 DEF NoDup, Ran
<1> QED
  BY <1>1, <1>4, <1>5, <1>6 DEF t
-----------------------------------------------------------------------------
LEMMA InitIInv == Init => IInv
<1> SUFFICES ASSUME Init PROVE IInv
  OBVIOUS
<1>1. Ran(requests) = {} /\ Ran(responses) = {} /\ NoDup(requests) /\ NoDup(responses)
  BY DEF Init, Ran, NoDup
<1>2. Types
  BY EmptySeq DEF Init, Types
<1>3. \A i \in Nat : ~Leaving(i)
  BY DEF Init, Leaving
<1>4. Apart /\ Unanswered /\ HasStrings /\ Answered
  BY <1>1, <1>3 DEF Init, Apart, Unanswered, HasStrings, Answered, Outgoing, Leaving
<1>5. Once
  BY DEF Init, Once
<1> QED
  BY <1>2, <1>4, <1>5 DEF IInv

(* A new request takes an id that nothing knows of.                        *)
LEMMA EnterStep == ASSUME IInv, NEW c \in Callers, Enter(c) PROVE IInv'
<1>1. /\ msgId \in Nat /\ msgId < MaxRequests /\ msgId' = msgId + 1 /\ sendRPC[c] = "out"
      /\ current' = [current EXCEPT ![c] = msgId]
      /\ sendRPC' = [sendRPC EXCEPT ![c] = "send"]
      /\ strings' = strings \cup {msgId}
      /\ UNCHANGED <<requests, responses, stubs, server, client, callbacks, lost>>
  BY DEF Enter, IInv, Types
<1>2. Ran(requests)' = Ran(requests) /\ Ran(responses)' = Ran(responses)
  BY <1>1
<1>3. \A i \in Nat : Leaving(i)' => Leaving(i) \/ i = msgId
  BY <1>1 DEF Leaving, IInv, Types
<1>4. /\ ~Outgoing(msgId) /\ msgId \notin Ran(responses)
      /\ callbacks[msgId] = 0 /\ msgId \notin lost
  BY <1>1 DEF IInv, Unanswered, Once
<1>5. Types'
  BY <1>1 DEF IInv, Types
<1>6. Apart'
  <2>1. \A d \in Callers : sendRPC[d] = "send" => current[d] \in Nat /\ current[d] # msgId
    BY <1>4 DEF Outgoing, Leaving, IInv, Types
  <2>2. \A d, e \in Callers : /\ sendRPC'[d] = "send" /\ sendRPC'[e] = "send"
                              /\ current'[d] = current'[e]
                              => d = e
    BY <1>1, <2>1 DEF IInv, Types, Apart
  <2>3. \A i \in Nat : Leaving(i)' => i \notin Ran(requests) /\ i \notin Ran(responses) /\ i # server
    BY <1>3, <1>4 DEF IInv, Apart, Outgoing
  <2> QED
    BY <1>1, <1>2, <2>2, <2>3 DEF IInv, Apart, NoDup
<1>7. \A i \in Nat : Outgoing(i)' => Outgoing(i) \/ i = msgId
  BY <1>1, <1>2, <1>3 DEF Outgoing
<1>8. Unanswered' /\ HasStrings'
  BY <1>1, <1>2, <1>4, <1>7 DEF IInv, Unanswered, HasStrings
<1>9. Answered'
  BY <1>1 DEF IInv, Answered
<1>10. Once'
  <2>1. \A i \in Nat : i < msgId => i < msgId'
    BY <1>1
  <2>2. \A i \in 0..(MaxRequests - 1) : i >= msgId' => i >= msgId
    BY <1>1
  <2>3. \A i \in lost : i \in Nat /\ i < msgId
    BY DEF IInv, Once
  <2> QED
    BY <1>1, <2>1, <2>2, <2>3 DEF IInv, Once
<1> QED
  BY <1>5, <1>6, <1>8, <1>9, <1>10 DEF IInv

LEMMA SendStep == ASSUME IInv, NEW c \in Callers, Send(c) PROVE IInv'
<1> DEFINE id == current[c]
<1>1. /\ sendRPC[c] = "send" /\ id \in Nat
      /\ requests' = Append(requests, id)
      /\ sendRPC' = [sendRPC EXCEPT ![c] = "sent"]
      /\ UNCHANGED <<msgId, current, responses, stubs, strings, server, client, callbacks, lost>>
  BY DEF Send, history, IInv, Types
<1>2. /\ Leaving(id) /\ id \notin Ran(requests) /\ id \notin Ran(responses) /\ id # server
  BY <1>1 DEF Leaving, IInv, Apart
<1>3. /\ requests' \in Seq(Nat \cup {StopCommand})
      /\ Ran(requests)' = Ran(requests) \cup {id} /\ NoDup(requests)'
  BY <1>1, <1>2, RanOfAppend DEF IInv, Types, Apart
<1>4. Ran(responses)' = Ran(responses)
  BY <1>1
<1>5. \A i \in Nat : Leaving(i)' => Leaving(i) /\ i # id
  BY <1>1 DEF Leaving, IInv, Types, Apart
<1>6. Types'
  BY <1>1, <1>3 DEF IInv, Types
<1>7. Apart'
  <2>1. \A d, e \in Callers : /\ sendRPC'[d] = "send" /\ sendRPC'[e] = "send"
                              /\ current'[d] = current'[e]
                              => d = e
    BY <1>1 DEF IInv, Types, Apart
  <2>2. \A i \in Nat : Leaving(i)' => i \notin Ran(requests)' /\ i \notin Ran(responses)' /\ i # server'
    BY <1>1, <1>3, <1>4, <1>5 DEF IInv, Apart
  <2>3. NoDup(responses)'
    BY <1>1 DEF IInv, Apart, NoDup
  <2> QED
    BY <1>1, <1>2, <1>3, <1>4, <2>1, <2>2, <2>3 DEF IInv, Apart
<1>8. \A i \in Nat : Outgoing(i)' => Outgoing(i)
  BY <1>1, <1>2, <1>3, <1>5 DEF Outgoing
<1>9. Unanswered' /\ HasStrings' /\ Answered' /\ Once'
  BY <1>1, <1>4, <1>8 DEF IInv, Unanswered, HasStrings, Answered, Once
<1> QED
  BY <1>6, <1>7, <1>9 DEF IInv

(* Storing the stub moves no request, and a crash none either.             *)
LEMMA StoreStep == ASSUME IInv, NEW c \in Callers, BeginStore(c) \/ EndStore(c) PROVE IInv'
<1>1. /\ sendRPC[c] \in {"sent", "insert"} /\ current[c] \in Nat
      /\ sendRPC' \in {[sendRPC EXCEPT ![c] = "insert"], [sendRPC EXCEPT ![c] = "out"]}
      /\ stubs' \in {stubs, stubs \cup {current[c]}}
      /\ UNCHANGED <<msgId, current, requests, responses, strings, server, client, callbacks, lost>>
  BY DEF BeginStore, EndStore, history, IInv, Types
<1>2. Ran(requests)' = Ran(requests) /\ Ran(responses)' = Ran(responses)
  BY <1>1
<1>3. \A d \in Callers : sendRPC'[d] = "send" => sendRPC[d] = "send"
  BY <1>1 DEF IInv, Types
<1>4. \A i \in Nat : Leaving(i)' => Leaving(i)
  BY <1>1, <1>3 DEF Leaving
<1>5. Types'
  BY <1>1 DEF IInv, Types
<1>6. Apart'
  BY <1>1, <1>2, <1>3, <1>4 DEF IInv, Apart, NoDup
<1>7. \A i \in Nat : Outgoing(i)' => Outgoing(i)
  BY <1>1, <1>2, <1>4 DEF Outgoing
<1>8. Unanswered' /\ HasStrings' /\ Answered' /\ Once'
  BY <1>1, <1>2, <1>7 DEF IInv, Unanswered, HasStrings, Answered, Once
<1> QED
  BY <1>5, <1>6, <1>8 DEF IInv

(* Steps of server and client leave the callers alone.                     *)
LEMMA LeavingKept == ASSUME UNCHANGED <<sendRPC, current>>, NEW i PROVE Leaving(i)' <=> Leaving(i)
BY DEF Leaving

LEMMA ServerRecvStep == ASSUME IInv, ServerRecv PROVE IInv'
<1>1. /\ ~(server \in Nat) /\ requests # <<>> /\ Head(requests) # StopCommand
      /\ server' = Head(requests) /\ requests' = Tail(requests)
      /\ UNCHANGED <<msgId, sendRPC, current, responses, stubs, strings, client, callbacks, lost>>
  BY DEF ServerRecv, history
<1>2. /\ requests' \in Seq(Nat \cup {StopCommand})
      /\ Head(requests) \in Nat /\ Head(requests) \in Ran(requests)
      /\ Ran(requests)' \subseteq Ran(requests)
      /\ NoDup(requests)' /\ Head(requests) \notin Ran(requests)'
  BY <1>1, RanOfTail DEF IInv, Types, Apart
<1>3. Ran(responses)' = Ran(responses) /\ \A i \in Nat : Leaving(i)' <=> Leaving(i)
  BY <1>1, LeavingKept
<1>4. Types'
  BY <1>1, <1>2 DEF IInv, Types
<1>5. Apart'
  BY <1>1, <1>2, <1>3 DEF IInv, Apart, NoDup
<1>6. \A i \in Nat : Outgoing(i)' => Outgoing(i)
  BY <1>1, <1>2, <1>3 DEF Outgoing
<1>7. Unanswered' /\ HasStrings' /\ Answered' /\ Once'
  BY <1>1, <1>3, <1>6 DEF IInv, Unanswered, HasStrings, Answered, Once
<1> QED
  BY <1>4, <1>5, <1>7 DEF IInv

LEMMA ServerRespondStep == ASSUME IInv, ServerRespond PROVE IInv'
<1>1. /\ server \in Nat /\ server' = None /\ responses' = Append(responses, server)
      /\ UNCHANGED <<msgId, sendRPC, current, requests, stubs, strings, client, callbacks, lost>>
  BY DEF ServerRespond, SendRPCMysqlResponse, history, IInv, Types
<1>2. /\ responses' \in Seq(Nat \cup {StopCommand})
      /\ Ran(responses)' = Ran(responses) \cup {server} /\ NoDup(responses)'
  <2>1. /\ server \in Nat \cup {StopCommand} /\ responses \in Seq(Nat \cup {StopCommand})
        /\ server \notin Ran(responses) /\ NoDup(responses)
    BY <1>1 DEF IInv, Types, Apart
  <2> QED
    BY <1>1, <2>1, RanOfAppend
<1>3. Ran(requests)' = Ran(requests) /\ \A i \in Nat : Leaving(i)' <=> Leaving(i)
  BY <1>1, LeavingKept
<1>4. Types'
  BY <1>1, <1>2 DEF IInv, Types
<1>5. Apart'
  BY <1>1, <1>2, <1>3 DEF IInv, Apart, NoDup
<1>6. \A i \in Nat : /\ Outgoing(i)' => Outgoing(i)
                     /\ i \in Ran(responses)' => i \in Ran(responses) \/ Outgoing(i)
  BY <1>1, <1>2, <1>3 DEF Outgoing
<1>7. Unanswered' /\ HasStrings' /\ Answered' /\ Once'
  BY <1>1, <1>6 DEF IInv, Unanswered, HasStrings, Answered, Once
<1> QED
  BY <1>4, <1>5, <1>7 DEF IInv

(* A response that the client takes, found or not, is nowhere else; it is  *)
(* counted as called back or as lost, or the process crashes.              *)
LEMMA ClientTakesStep ==
    ASSUME IInv, ClientFinds \/ ClientMisses \/ ClientFindsHalf
    PROVE  IInv'
<1> DEFINE id == Head(responses)
<1>1. /\ responses # <<>> /\ id \in Nat /\ responses' = Tail(responses)
      /\ UNCHANGED <<msgId, sendRPC, current, requests, stubs, server>>
      /\ strings' \in {strings, strings \ {id}}
      /\ \/ client' = id /\ callbacks' = [callbacks EXCEPT ![id] = @ + 1] /\ UNCHANGED lost
         \/ UNCHANGED <<client, callbacks, lost>>
         \/ lost' = lost \cup {id} /\ UNCHANGED <<client, callbacks>>
  <2>0. HalfStored(id) => id \in Nat
    BY DEF HalfStored, Inserting, IInv, Types
  <2>1. CASE ClientFinds
    <3>1. id \in Nat
      BY <2>0, <2>1 DEF ClientFinds, IInv, Types
    <3> HIDE DEF id
    <3>2. /\ responses # <<>> /\ responses' = Tail(responses)
          /\ UNCHANGED <<msgId, sendRPC, current, requests, stubs, strings, server>>
          /\ \/ client' = id /\ callbacks' = [callbacks EXCEPT ![id] = @ + 1] /\ UNCHANGED lost
             \/ UNCHANGED <<client, callbacks, lost>>
      BY <2>1 DEF ClientFinds, id
    <3> QED
      BY <3>1, <3>2
  <2>2. CASE ClientMisses
    <3>1. responses # <<>> /\ id # StopCommand
      BY <2>2 DEF ClientMisses
    <3>2. id \in Nat
      BY <3>1, RanOfTail DEF IInv, Types
    <3> QED
      BY <2>2, <3>1, <3>2 DEF ClientMisses
  <2>3. CASE ClientFindsHalf
    BY <2>0, <2>3 DEF ClientFindsHalf
  <2> QED
    BY <2>1, <2>2, <2>3
<1>2. /\ responses' \in Seq(Nat \cup {StopCommand})
      /\ id \in Ran(responses) /\ id \notin Ran(responses)'
      /\ Ran(responses)' \subseteq Ran(responses) /\ NoDup(responses)'
  BY <1>1, RanOfTail DEF IInv, Types, Apart
<1>3. Ran(requests)' = Ran(requests) /\ \A i \in Nat : Leaving(i)' <=> Leaving(i)
  BY <1>1, LeavingKept
<1> HIDE DEF id
<1>4. id < msgId /\ callbacks[id] = 0 /\ id \notin lost /\ id \in 0..(MaxRequests - 1)
  BY <1>1, <1>2 DEF IInv, Unanswered, Types
<1>5. ~Outgoing(id)
  BY <1>1, <1>2 DEF IInv, Apart, Outgoing
<1>6. \A i \in Nat : i # id => /\ i \in 0..(MaxRequests - 1) => callbacks'[i] = callbacks[i]
                               /\ i \in lost' => i \in lost
  BY <1>1, <1>4 DEF IInv, Types
<1>7. Types'
  BY <1>1, <1>2, <1>4 DEF IInv, Types
<1>8. Apart'
  BY <1>1, <1>2, <1>3 DEF IInv, Apart, NoDup
<1>9. \A i \in Nat : Outgoing(i)' <=> Outgoing(i)
  BY <1>1, <1>3 DEF Outgoing
<1>10. Unanswered' /\ HasStrings'
  <2>1. ASSUME NEW i \in Nat, Outgoing(i)' \/ i \in Ran(responses)'
        PROVE  i < msgId' /\ callbacks'[i] = 0 /\ i \notin lost'
    <3>1. i # id /\ (Outgoing(i) \/ i \in Ran(responses))
      BY <1>2, <1>5, <1>9, <2>1
    <3>2. i < msgId /\ callbacks[i] = 0 /\ i \notin lost /\ i \in 0..(MaxRequests - 1)
      BY <3>1 DEF IInv, Unanswered, Types
    <3> QED
      BY <1>1, <1>6, <3>1, <3>2
  <2>2. HasStrings'
    BY <1>1, <1>5, <1>9 DEF IInv, HasStrings
  <2> QED
    BY <2>1, <2>2 DEF Unanswered
<1>11. callbacks'[id] \in {0, 1} /\ (id \in lost' => callbacks'[id] = 0)
  BY <1>1, <1>4 DEF IInv, Types
<1>12. Answered'
  BY <1>1, <1>4 DEF IInv, Answered, Types
<1>13. Once'
  <2>1. \A i \in lost' : i \in Nat /\ i < msgId'
    BY <1>1, <1>4 DEF IInv, Once
  <2>2. ASSUME NEW i \in 0..(MaxRequests - 1)
        PROVE  /\ i >= msgId' => callbacks'[i] = 0
               /\ callbacks'[i] \in {0, 1}
               /\ i \in lost' => callbacks'[i] = 0
    <3>1. CASE i = id
      BY <1>1, <1>4, <1>11, <3>1 DEF IInv, Types
    <3>2. CASE i # id
      <4>1. callbacks'[i] = callbacks[i] /\ (i \in lost' => i \in lost) /\ msgId' = msgId
        BY <1>1, <1>6, <3>2
      <4> QED
        BY <4>1 DEF IInv, Once
    <3> QED
      BY <3>1, <3>2
  <2> QED
    BY <2>1, <2>2 DEF Once
<1> QED
  BY <1>7, <1>8, <1>10, <1>12, <1>13 DEF IInv

(* The strings that are freed are of a request that has been answered.     *)
LEMMA CallbackReturnStep == ASSUME IInv, CallbackReturn PROVE IInv'
<1>1. /\ client \in Nat /\ client' = None
      /\ strings' \in {strings, strings \ {client}} /\ stubs' = stubs \ {client}
      /\ UNCHANGED <<msgId, sendRPC, current, requests, responses, server, callbacks, lost>>
  BY DEF CallbackReturn, IInv, Types
<1>2. Ran(requests)' = Ran(requests) /\ Ran(responses)' = Ran(responses)
      /\ \A i \in Nat : Leaving(i)' <=> Leaving(i)
  BY <1>1, LeavingKept
<1>3. \A i \in Nat : Outgoing(i)' <=> Outgoing(i)
  BY <1>1, <1>2 DEF Outgoing
<1>4. ~Outgoing(client)
  BY <1>1 DEF IInv, Unanswered, Answered
<1>5. Types'
  BY <1>1 DEF IInv, Types
<1>6. Apart'
  BY <1>1, <1>2 DEF IInv, Apart, NoDup
<1>7. HasStrings'
  BY <1>1, <1>3, <1>4 DEF IInv, HasStrings
<1>8. Unanswered' /\ Answered' /\ Once'
  BY <1>1, <1>2, <1>3 DEF IInv, Unanswered, Answered, Once
<1> QED
  BY <1>5, <1>6, <1>7, <1>8 DEF IInv

LEMMA StopStep == ASSUME IInv, Stop PROVE IInv'
<1>1. /\ \/ StopCommand \notin Ran(requests) /\ requests' = Append(requests, StopCommand)
            /\ UNCHANGED responses
         \/ StopCommand \notin Ran(responses) /\ responses' = Append(responses, StopCommand)
            /\ UNCHANGED requests
      /\ UNCHANGED <<msgId, sendRPC, current, stubs, strings, server, client, callbacks, lost>>
  BY DEF Stop, threads, history, Ran
<1>2. /\ requests' \in Seq(Nat \cup {StopCommand}) /\ responses' \in Seq(Nat \cup {StopCommand})
      /\ NoDup(requests)' /\ NoDup(responses)'
      /\ \A i \in Nat : /\ i \in Ran(requests)' <=> i \in Ran(requests)
                        /\ i \in Ran(responses)' <=> i \in Ran(responses)
  <2>1. CASE StopCommand \notin Ran(requests) /\ requests' = Append(requests, StopCommand)
             /\ UNCHANGED responses
    BY <2>1, RanOfAppend DEF IInv, Types, Apart
  <2>2. CASE StopCommand \notin Ran(responses) /\ responses' = Append(responses, StopCommand)
             /\ UNCHANGED requests
    BY <2>2, RanOfAppend DEF IInv, Types, Apart
  <2> QED
    BY <1>1, <2>1, <2>2
<1>3. \A i \in Nat : Leaving(i)' <=> Leaving(i)
  BY <1>1, LeavingKept
<1>4. Types'
  BY <1>1, <1>2 DEF IInv, Types
<1>5. Apart'
  BY <1>1, <1>2, <1>3 DEF IInv, Apart
<1>6. \A i \in Nat : Outgoing(i)' <=> Outgoing(i)
  BY <1>1, <1>2, <1>3 DEF Outgoing
<1>7. Unanswered' /\ HasStrings' /\ Answered' /\ Once'
  BY <1>1, <1>2, <1>6 DEF IInv, Unanswered, HasStrings, Answered, Once
<1> QED
  BY <1>4, <1>5, <1>7 DEF IInv

(* Nothing moves: the process ends, or nothing happens.                    *)
LEMMA StillStep ==
    ASSUME IInv,
           UNCHANGED <<msgId, sendRPC, current, requests, responses, stubs, strings,
                       server, client, callbacks, lost>>
    PROVE  IInv'
BY DEF IInv, Types, Apart, NoDup, Ran, Unanswered, HasStrings, Answered, Once, Outgoing, Leaving

LEMMA StepIInv == IInv /\ [Next]_vars => IInv'
<1> SUFFICES ASSUME IInv, [Next]_vars PROVE IInv'
  OBVIOUS
<1>1. CASE ServerRecv \/ ServerRespond
  BY <1>1, ServerRecvStep, ServerRespondStep
<1>2. CASE ClientFinds \/ ClientMisses \/ ClientFindsHalf \/ CallbackReturn
  BY <1>2, ClientTakesStep, CallbackReturnStep
<1>3. CASE ServerStop \/ ClientStop
  BY <1>3, StillStep DEF ServerStop, ClientStop, Abort, threads, history
<1>4. ASSUME NEW c \in Callers, Enter(c) \/ InSendRPC(c) PROVE IInv'
  BY <1>4, EnterStep, SendStep, StoreStep DEF InSendRPC
<1>5. CASE Stop
  BY <1>5, StopStep
<1>6. CASE UNCHANGED vars
  BY <1>6, StillStep DEF vars
<1> QED
  BY <1>1, <1>2, <1>3, <1>4, <1>5, <1>6 DEF Next, ServerStep, ClientStep

LEMMA Invariance == Spec => []IInv
BY InitIInv, StepIInv, PTL DEF Spec

(* However many threads use the unlocked map, a request's callback runs at *)
(* most once, and never when its response was reported as unmapped.        *)
THEOREM AtMostOnce == Spec => []CallbackAtMostOnce
<1>1. IInv => CallbackAtMostOnce
  <2> SUFFICES ASSUME IInv, NEW i \in Ids
               PROVE  callbacks[i] + (IF i \in lost THEN 1 ELSE 0) <= 1
    BY DEF CallbackAtMostOnce
  <2>1. i \in 0..(MaxRequests - 1)
    BY DEF Ids, IInv, Types
  <2>2. callbacks[i] \in {0, 1} /\ (i \in lost => callbacks[i] = 0)
    BY <2>1 DEF IInv, Once
  <2> QED
    BY <2>2
<1> QED
  BY <1>1, Invariance, PTL

(* The table and the query of a request exist until the server has read    *)
(* them, though another thread frees them.                                 *)
THEOREM StringsSurvive == Spec => []StringsOutliveQuery
<1>1. IInv => StringsOutliveQuery
  <2> SUFFICES ASSUME IInv PROVE StringsOutliveQuery
    OBVIOUS
  <2>1. server # None => server \in strings
    BY DEF IInv, Types, HasStrings, Outgoing
  <2>2. ASSUME NEW i \in DOMAIN requests, requests[i] # StopCommand PROVE requests[i] \in strings
    <3>1. requests[i] \in Nat
      BY <2>2, LenProperties, ElementOfSeq DEF IInv, Types
    <3> QED
      BY <3>1 DEF IInv, HasStrings, Outgoing, Ran
  <2> QED
    BY <2>1, <2>2 DEF StringsOutliveQuery
<1> QED
  BY <1>1, Invariance, PTL
-----------------------------------------------------------------------------
(* What is in the map and which strings exist, while the process runs: the *)
(* strings of the requests that are under way, in their callback or lost,  *)
(* and of those the stubs that have been stored.                           *)
Storing(i) == \E c \in Callers : sendRPC[c] # "out" /\ current[c] = i

UnderWay(i) == Outgoing(i) \/ i \in Ran(responses)

Held == running /\ ~broken =>
            \A i \in Nat : /\ i \in strings <=> UnderWay(i) \/ i \in lost \/ i = client
                           /\ i \in stubs <=> i \in strings /\ ~Storing(i)
                           /\ Storing(i) => i \in strings

(* Who stores a stub has sent the request, and until it begins to insert   *)
(* the request is not called back.                                         *)
Storers == \A c \in Callers :
              /\ sendRPC[c] # "out" => sender[current[c]] = c
              /\ ~broken /\ sendRPC[c] \in {"send", "sent"} => current[c] # client

(* The client's thread calls SendRPC from a callback.                      *)
InCallback == sendRPC[ClientThread] # "out" => client \in Nat

ForeignLost == /\ broken => raced
               /\ ~raced => \A i \in lost : sender[i] # ClientThread

Known == /\ \A c \in Callers : current[c] \in Nat => current[c] < msgId
         /\ \A i \in stubs \cup strings : i \in Nat /\ i < msgId
         /\ sender \in [0..(MaxRequests - 1) -> Callers \cup {None}]
         /\ running \in BOOLEAN /\ aborted \in BOOLEAN /\ raced \in BOOLEAN
         /\ broken \in BOOLEAN

Leaks == Held /\ Storers /\ InCallback /\ ForeignLost /\ Known

LEMMA InitLeaks == Init => Leaks
<1> SUFFICES ASSUME Init PROVE Leaks
  OBVIOUS
<1>1. \A i \in Nat : ~UnderWay(i)
  BY DEF Init, UnderWay, Outgoing, Leaving, Ran
<1>2. Held /\ Storers /\ InCallback /\ ForeignLost
  BY <1>1 DEF Init, Held, Storing, Storers, InCallback, ForeignLost
<1>3. Known
  BY DEF Init, Known
<1> QED
  BY <1>2, <1>3 DEF Leaks

(* The new request is stored by its caller alone.                          *)
LEMMA EnterLeaks == ASSUME IInv, Leaks, NEW c \in Callers, Enter(c) PROVE Leaks'
<1>1. /\ msgId \in Nat /\ msgId < MaxRequests /\ msgId' = msgId + 1 /\ sendRPC[c] = "out"
      /\ current' = [current EXCEPT ![c] = msgId]
      /\ sendRPC' = [sendRPC EXCEPT ![c] = "send"]
      /\ strings' = strings \cup {msgId}
      /\ sender' = [sender EXCEPT ![msgId] = c]
      /\ UNCHANGED <<requests, responses, stubs, server, client, callbacks, lost, broken, running, raced, aborted>>
      /\ c = ClientThread => client # None
  BY DEF Enter, IInv, Types
<1>2. /\ ~Outgoing(msgId) /\ msgId \notin Ran(responses)
      /\ msgId \notin lost /\ msgId # client /\ msgId \notin strings /\ msgId \notin stubs
  BY <1>1 DEF IInv, Unanswered, Once, Answered, Leaks, Known
<1>3. \A d \in Callers : d # c => sendRPC'[d] = sendRPC[d] /\ current'[d] = current[d]
  BY <1>1 DEF IInv, Types
<1>4. sendRPC'[c] = "send" /\ current'[c] = msgId
  BY <1>1 DEF IInv, Types
<1>5. \A i \in Nat : /\ Leaving(i)' <=> Leaving(i) \/ i = msgId
                     /\ Storing(i)' <=> Storing(i) \/ i = msgId
  BY <1>1, <1>3, <1>4 DEF Leaving, Storing
<1>6. \A i \in Nat : UnderWay(i)' <=> UnderWay(i) \/ i = msgId
  BY <1>1, <1>5 DEF UnderWay, Outgoing, Ran
<1>7. Held'
  BY <1>1, <1>2, <1>5, <1>6 DEF Held, Leaks
<1>8. \A d \in Callers : sendRPC[d] # "out" => current[d] \in 0..(MaxRequests - 1) /\ current[d] # msgId
  BY <1>1 DEF IInv, Types, Leaks, Known
<1>9. Storers'
  BY <1>1, <1>2, <1>3, <1>4, <1>8 DEF Storers, Leaks, Known
<1>10. InCallback'
  BY <1>1, <1>3 DEF InCallback, Leaks, IInv, Types
<1>11. ForeignLost'
  BY <1>1, <1>2 DEF ForeignLost, Leaks, Known
<1>12. Known'
  BY <1>1, <1>3, <1>4 DEF Leaks, Known
<1> QED
  BY <1>7, <1>9, <1>10, <1>11, <1>12 DEF Leaks

LEMMA SendLeaks == ASSUME IInv, Leaks, NEW c \in Callers, Send(c) PROVE Leaks'
<1>1. /\ sendRPC[c] = "send" /\ current[c] \in Nat
      /\ requests' = Append(requests, current[c])
      /\ sendRPC' = [sendRPC EXCEPT ![c] = "sent"]
      /\ UNCHANGED <<msgId, current, responses, stubs, strings, server, client, broken, running, aborted>>
      /\ UNCHANGED <<sender, callbacks, lost, raced>>
  BY DEF Send, history, IInv, Types
<1>2. Ran(requests)' = Ran(requests) \cup {current[c]}
  <2>1. requests \in Seq(Nat \cup {StopCommand}) /\ current[c] \in Nat \cup {StopCommand}
    BY <1>1 DEF IInv, Types
  <2> QED
    BY <1>1, <2>1, RanOfAppend
<1>3. \A d \in Callers : /\ d # c => sendRPC'[d] = sendRPC[d]
                         /\ sendRPC'[d] # "out" <=> sendRPC[d] # "out"
  BY <1>1 DEF IInv, Types
<1>4. \A i \in Nat : /\ Leaving(i) <=> Leaving(i)' \/ i = current[c]
                     /\ Storing(i)' <=> Storing(i)
  <2>1. sendRPC'[c] = "sent"
    BY <1>1 DEF IInv, Types
  <2>2. \A d \in Callers : d # c /\ sendRPC[d] = "send" => current[d] # current[c]
    BY <1>1 DEF IInv, Apart
  <2> QED
    BY <1>1, <1>3, <2>1, <2>2 DEF Leaving, Storing
<1>5. \A i \in Nat : UnderWay(i)' <=> UnderWay(i)
  BY <1>1, <1>2, <1>4 DEF UnderWay, Outgoing, Ran
<1> QED
  BY <1>1, <1>3, <1>4, <1>5 DEF Leaks, Held, Storers, InCallback, ForeignLost, Known

(* Two insertions at once may end the process.                             *)
LEMMA BeginStoreLeaks == ASSUME IInv, Leaks, NEW c \in Callers, BeginStore(c) PROVE Leaks'
<1>1. /\ running /\ running' \in BOOLEAN /\ sendRPC[c] = "sent"
      /\ raced' = (raced \/ Inserting(c) # {}) /\ broken' = (broken \/ Inserting(c) # {})
      /\ sendRPC' = [sendRPC EXCEPT ![c] = "insert"]
      /\ UNCHANGED <<msgId, current, requests, responses, stubs, strings, server, client, aborted>>
      /\ UNCHANGED <<sender, callbacks, lost>>
  BY DEF BeginStore, ChangeStubs, UseStubs
<1>2. \A d \in Callers : /\ sendRPC'[d] = "send" <=> sendRPC[d] = "send"
                         /\ sendRPC'[d] # "out" <=> sendRPC[d] # "out"
                         /\ sendRPC'[d] = "sent" => sendRPC[d] = "sent"
  BY <1>1 DEF IInv, Types
<1>3. \A i \in Nat : (UnderWay(i)' <=> UnderWay(i)) /\ (Storing(i)' <=> Storing(i))
  BY <1>1, <1>2 DEF UnderWay, Outgoing, Ran, Leaving, Storing
<1>4. broken \in BOOLEAN /\ raced \in BOOLEAN /\ (broken => raced)
  BY DEF Leaks, ForeignLost, Known
<1>5. broken' \in BOOLEAN /\ raced' \in BOOLEAN /\ (broken' => raced') /\ (raced => raced')
      /\ (broken => broken')
  BY <1>1, <1>4
<1>6. Held'
  BY <1>1, <1>3, <1>5 DEF Leaks, Held
<1>7. Storers' /\ InCallback'
  BY <1>1, <1>2, <1>5 DEF Leaks, Storers, InCallback
<1>8. ForeignLost' /\ Known'
  BY <1>1, <1>5 DEF Leaks, ForeignLost, Known
<1> QED
  BY <1>6, <1>7, <1>8 DEF Leaks

(* In a tree that is not broken the stub is there when the insertion ends. *)
LEMMA EndStoreLeaks == ASSUME IInv, Leaks, NEW c \in Callers, EndStore(c) PROVE Leaks'
<1>1. /\ running /\ sendRPC[c] = "insert" /\ current[c] \in Nat /\ running' \in BOOLEAN
      /\ stubs' \in {stubs, stubs \cup {current[c]}}
      /\ ~broken => stubs' = stubs \cup {current[c]}
      /\ sendRPC' = [sendRPC EXCEPT ![c] = "out"]
      /\ UNCHANGED <<msgId, current, requests, responses, strings, server, client, broken, aborted>>
      /\ UNCHANGED <<sender, callbacks, lost, raced>>
  BY DEF EndStore, history, IInv, Types
<1>2. \A d \in Callers : /\ d # c => sendRPC'[d] = sendRPC[d]
                         /\ sendRPC'[d] = "send" <=> sendRPC[d] = "send"
                         /\ sendRPC'[d] = "sent" <=> sendRPC[d] = "sent"
                         /\ sendRPC'[d] # "out" <=> sendRPC[d] # "out" /\ d # c
  BY <1>1 DEF IInv, Types
<1>3. \A d \in Callers : d # c /\ sendRPC[d] # "out" => current[d] # current[c]
  BY <1>1 DEF Leaks, Storers
<1>4. \A i \in Nat : /\ UnderWay(i)' <=> UnderWay(i)
                     /\ Storing(i)' <=> Storing(i) /\ i # current[c]
  BY <1>1, <1>2, <1>3 DEF UnderWay, Outgoing, Ran, Leaving, Storing
<1>5. Storing(current[c])
  BY <1>1 DEF Storing
<1>6. Held'
  BY <1>1, <1>4, <1>5 DEF Leaks, Held
<1>7. Storers'
  BY <1>1, <1>2 DEF Leaks, Storers
<1>8. InCallback'
  BY <1>1, <1>2 DEF Leaks, InCallback
<1>9. ForeignLost' /\ Known'
  BY <1>1 DEF Leaks, ForeignLost, Known
<1> QED
  BY <1>6, <1>7, <1>8, <1>9 DEF Leaks

(* The server passes a request on.                                         *)
LEMMA ServerLeaks == ASSUME IInv, Leaks, ServerRecv \/ ServerRespond PROVE Leaks'
<1>1. UNCHANGED <<msgId, sendRPC, current, stubs, strings, client, broken, running, aborted,
                  sender, callbacks, lost, raced>>
  BY DEF ServerRecv, ServerRespond, history
<1>2. \A i \in Nat : UnderWay(i)' <=> UnderWay(i)
  <2>1. CASE ServerRecv
    <3>1. /\ ~(server \in Nat) /\ requests # <<>>
          /\ server' = Head(requests) /\ requests' = Tail(requests) /\ UNCHANGED responses
      BY <2>1 DEF ServerRecv
    <3>2. Ran(requests) = Ran(requests)' \cup {server'}
      BY <3>1, RanOfTail DEF IInv, Types
    <3> QED
      BY <1>1, <3>1, <3>2, LeavingKept DEF UnderWay, Outgoing, Ran
  <2>2. CASE ServerRespond
    <3>1. /\ server \in Nat /\ server' = None
          /\ responses' = Append(responses, server) /\ UNCHANGED requests
      BY <2>2 DEF ServerRespond, SendRPCMysqlResponse, IInv, Types
    <3>2. responses \in Seq(Nat \cup {StopCommand}) /\ server \in Nat \cup {StopCommand}
      BY <3>1 DEF IInv, Types
    <3>3. Ran(responses)' = Ran(responses) \cup {server}
      BY <3>1, <3>2, RanOfAppend
    <3> QED
      BY <1>1, <3>1, <3>3, LeavingKept DEF UnderWay, Outgoing, Ran
  <2> QED
    BY <2>1, <2>2
<1>3. \A i \in Nat : Storing(i)' <=> Storing(i)
  BY <1>1 DEF Storing
<1> QED
  BY <1>1, <1>2, <1>3 DEF Leaks, Held, Storers, InCallback, ForeignLost, Known

(* A response that is found has its stub or an insertion of it; one that   *)
(* is missed while nobody inserts, in a tree that is not broken, has not   *)
(* been stored yet, by another thread than the client's.                   *)
LEMMA ClientTakesLeaks ==
    ASSUME IInv, Leaks, ClientFinds \/ ClientMisses \/ ClientFindsHalf
    PROVE  Leaks'
<1> DEFINE id == Head(responses)
           found == /\ id \in stubs \/ HalfStored(id)
                    /\ UNCHANGED <<lost, strings, broken>>
                    /\ running' => client' = id
                    /\ ~running' => UNCHANGED client
           missed == /\ id \notin stubs \/ Inserting(ClientThread) # {} \/ broken
                     /\ lost' = lost \cup {id} /\ UNCHANGED <<client, strings, broken>>
           half == /\ broken' /\ raced' /\ lost' = lost \cup {id} /\ UNCHANGED client
                   /\ strings' \in {strings, strings \ {id}}
<1>0. HalfStored(id) => Inserting(ClientThread) # {} /\ id \in Nat
  BY DEF HalfStored, Inserting, IInv, Types
<1>1. /\ running /\ running' \in BOOLEAN /\ client = None
      /\ responses # <<>> /\ responses' = Tail(responses)
      /\ raced' = (raced \/ Inserting(ClientThread) # {})
      /\ UNCHANGED <<msgId, sendRPC, current, requests, stubs, server, aborted, sender>>
  BY DEF ClientFinds, ClientMisses, ClientFindsHalf, ChangeStubs, UseStubs
<1>2. found \/ missed \/ half
  <2>1. CASE ClientFinds
    BY <2>1 DEF ClientFinds, UseStubs
  <2>2. CASE ClientMisses
    BY <2>2 DEF ClientMisses
  <2>3. CASE ClientFindsHalf
    BY <2>3, <1>0 DEF ClientFindsHalf, ChangeStubs, UseStubs
  <2> QED
    BY <2>1, <2>2, <2>3
<1>3. id \in Nat
  <2>1. id \in Nat \cup {StopCommand}
    BY <1>1, RanOfTail DEF IInv, Types
  <2> QED
    BY <2>1, <1>0 DEF ClientFinds, ClientMisses, ClientFindsHalf, IInv, Types
<1>4. /\ id \in Ran(responses) /\ id \notin Ran(responses)'
      /\ Ran(responses) = Ran(responses)' \cup {id}
  BY <1>1, RanOfTail DEF IInv, Types, Apart
<1> HIDE DEF id
<1>5. id < msgId /\ id \in 0..(MaxRequests - 1) /\ ~Outgoing(id) /\ UnderWay(id)
  BY <1>3, <1>4 DEF IInv, Unanswered, Types, Apart, Outgoing, UnderWay
<1>6. \A i \in Nat : /\ UnderWay(i)' <=> UnderWay(i) /\ i # id
                     /\ Storing(i)' <=> Storing(i)
  BY <1>1, <1>4, <1>5, LeavingKept DEF UnderWay, Outgoing, Storing, Ran
<1>7. ~broken => id \in strings /\ (id \in stubs <=> ~Storing(id))
  BY <1>1, <1>3, <1>5 DEF Leaks, Held
<1>8. broken \in BOOLEAN /\ broken' \in BOOLEAN /\ (broken => broken')
      /\ raced \in BOOLEAN /\ raced' \in BOOLEAN /\ (broken => raced) /\ (broken' => raced')
  <2>1. broken \in BOOLEAN /\ raced \in BOOLEAN /\ (broken => raced)
    BY DEF Leaks, ForeignLost, Known
  <2>2. broken' \in BOOLEAN /\ (broken => broken')
    BY <2>1 DEF ClientFinds, ClientMisses, ClientFindsHalf, ChangeStubs
  <2> QED
    BY <1>1, <1>2, <2>1, <2>2
<1>9. Held'
  <2>1. ASSUME running', ~broken', NEW i \in Nat
        PROVE  /\ i \in strings' <=> UnderWay(i)' \/ i \in lost' \/ i = client'
               /\ i \in stubs' <=> i \in strings' /\ ~Storing(i)'
               /\ Storing(i)' => i \in strings'
    <3>1. /\ i \in strings <=> UnderWay(i) \/ i \in lost \/ i = client
          /\ i \in stubs <=> i \in strings /\ ~Storing(i)
          /\ Storing(i) => i \in strings
      BY <1>1, <1>8, <2>1 DEF Leaks, Held
    <3>2. i # client /\ stubs' = stubs /\ strings' = strings
      BY <1>1, <1>2, <2>1
    <3>3. UnderWay(i)' \/ i \in lost' \/ i = client' <=> UnderWay(i) \/ i \in lost
      BY <1>1, <1>2, <1>5, <1>6, <2>1
    <3> QED
      BY <3>1, <3>2, <3>3, <1>6
  <2> QED
    BY <2>1 DEF Held
<1>10. Storers'
  <2>1. ASSUME NEW c \in Callers, sendRPC[c] # "out" PROVE sender'[current'[c]] = c
    BY <1>1, <2>1 DEF Leaks, Storers
  <2>2. ASSUME NEW c \in Callers, ~broken', sendRPC[c] \in {"send", "sent"}
        PROVE  current[c] # client'
    <3>1. CASE UNCHANGED client
      BY <1>8, <2>2, <3>1 DEF Leaks, Storers
    <3>2. CASE client' = id /\ id \in stubs
      BY <1>7, <1>8, <2>2, <3>2 DEF Storing
    <3>3. CASE client' = id /\ HalfStored(id)
      <4>1. PICK d \in Callers : sendRPC[d] = "insert" /\ current[d] = id
        BY <3>3 DEF HalfStored, Inserting
      <4>2. sender[id] = d /\ c # d /\ sender[current[c]] = c
        BY <2>2, <4>1 DEF Leaks, Storers
      <4> QED
        BY <3>3, <4>2
    <3> QED
      BY <1>1, <1>2, <2>2, <3>1, <3>2, <3>3
  <2> QED
    BY <1>1, <2>1, <2>2 DEF Storers
<1>11. sendRPC[ClientThread] = "out"
  BY <1>1 DEF Leaks, InCallback
<1>12. InCallback'
  BY <1>1, <1>11 DEF InCallback
<1>13. ForeignLost'
  <2>1. ASSUME ~raced' PROVE \A i \in lost' : sender'[i] # ClientThread
    <3>1. ~raced /\ ~broken /\ Inserting(ClientThread) = {} /\ ~half
      BY <1>1, <1>8, <2>1
    <3>2. \A i \in lost : sender[i] # ClientThread
      BY <3>1 DEF Leaks, ForeignLost
    <3>3. ASSUME missed PROVE sender[id] # ClientThread
      <4>1. PICK c \in Callers : sendRPC[c] # "out" /\ current[c] = id
        BY <1>7, <3>1, <3>3 DEF Storing
      <4>2. sender[id] = c /\ c # ClientThread
        BY <4>1, <1>11 DEF Leaks, Storers
      <4> QED
        BY <4>2
    <3> QED
      BY <1>1, <1>2, <3>1, <3>2, <3>3
  <2> QED
    BY <1>8, <2>1 DEF ForeignLost
<1>14. Known'
  <2>1. strings' \subseteq strings
    BY <1>2
  <2> QED
    BY <1>1, <1>8, <2>1 DEF Leaks, Known
<1> QED
  BY <1>9, <1>10, <1>12, <1>13, <1>14 DEF Leaks

LEMMA CallbackReturnLeaks == ASSUME IInv, Leaks, CallbackReturn PROVE Leaks'
<1>1. /\ running /\ running' \in BOOLEAN /\ client \in Nat /\ client' = None
      /\ sendRPC[ClientThread] = "out"
      /\ raced' = (raced \/ Inserting(ClientThread) # {})
      /\ broken' = (broken \/ Inserting(ClientThread) # {})
      /\ stubs' = stubs \ {client}
      /\ strings' \in {strings, strings \ {client}}
      /\ ~HalfStored(client) => strings' = strings \ {client}
      /\ UNCHANGED <<msgId, sendRPC, current, requests, responses, server, aborted>>
      /\ UNCHANGED <<sender, callbacks, lost>>
  BY DEF CallbackReturn, ChangeStubs, UseStubs, IInv, Types
<1>2. \A i \in Nat : (UnderWay(i)' <=> UnderWay(i)) /\ (Storing(i)' <=> Storing(i))
  BY <1>1, LeavingKept DEF UnderWay, Outgoing, Storing, Ran
<1>3. ~UnderWay(client) /\ client \notin lost
  <2>1. client < msgId /\ callbacks[client] > 0 /\ client \in 0..(MaxRequests - 1)
    BY <1>1 DEF IInv, Answered, Types
  <2> QED
    BY <1>1, <2>1 DEF IInv, Unanswered, Once, UnderWay
<1>4. broken \in BOOLEAN /\ raced \in BOOLEAN /\ (broken => raced)
  BY DEF Leaks, ForeignLost, Known
<1>5. broken' \in BOOLEAN /\ raced' \in BOOLEAN /\ (broken' => raced') /\ (raced => raced')
      /\ (broken => broken')
  BY <1>1, <1>4
<1>6. ASSUME ~broken' PROVE ~Storing(client) /\ strings' = strings \ {client}
  <2>1. ~broken /\ Inserting(ClientThread) = {}
    BY <1>1, <1>4, <1>6
  <2>2. ASSUME NEW c \in Callers, sendRPC[c] # "out" PROVE current[c] # client
    <3>1. c # ClientThread /\ sendRPC[c] \in {"send", "sent", "insert"}
      BY <1>1, <2>2 DEF IInv, Types
    <3>2. sendRPC[c] # "insert"
      BY <2>1, <3>1 DEF Inserting
    <3> QED
      BY <2>1, <3>1, <3>2 DEF Leaks, Storers
  <2>3. ~HalfStored(client)
    BY <2>1 DEF HalfStored
  <2> QED
    BY <1>1, <2>2, <2>3 DEF Storing
<1>7. Held'
  BY <1>1, <1>2, <1>3, <1>5, <1>6 DEF Leaks, Held
<1>8. Storers'
  BY <1>1, <1>5 DEF Leaks, Storers, IInv, Types
<1>9. InCallback' /\ ForeignLost' /\ Known'
  <2>1. strings' \subseteq strings /\ stubs' \subseteq stubs
    BY <1>1
  <2> QED
    BY <1>1, <1>5, <2>1 DEF Leaks, InCallback, ForeignLost, Known
<1> QED
  BY <1>7, <1>8, <1>9 DEF Leaks

(* A stop command is no request.                                           *)
LEMMA StopLeaks == ASSUME IInv, Leaks, Stop PROVE Leaks'
<1>1. /\ \/ requests' = Append(requests, StopCommand) /\ UNCHANGED responses
         \/ responses' = Append(responses, StopCommand) /\ UNCHANGED requests
      /\ UNCHANGED <<msgId, sendRPC, current, stubs, strings, server, client, broken, running,
                     aborted, sender, callbacks, lost, raced>>
  BY DEF Stop, threads, history
<1>2. \A i \in Nat : /\ i \in Ran(requests)' <=> i \in Ran(requests)
                     /\ i \in Ran(responses)' <=> i \in Ran(responses)
  <2>1. CASE requests' = Append(requests, StopCommand) /\ UNCHANGED responses
    BY <2>1, RanOfAppend DEF IInv, Types
  <2>2. CASE responses' = Append(responses, StopCommand) /\ UNCHANGED requests
    BY <2>2, RanOfAppend DEF IInv, Types
  <2> QED
    BY <1>1, <2>1, <2>2
<1>3. \A i \in Nat : (UnderWay(i)' <=> UnderWay(i)) /\ (Storing(i)' <=> Storing(i))
  BY <1>1, <1>2, LeavingKept DEF UnderWay, Outgoing, Storing
<1> QED
  BY <1>1, <1>3 DEF Leaks, Held, Storers, InCallback, ForeignLost, Known

LEMMA StepLeaks == IInv /\ Leaks /\ [Next]_vars => Leaks'
<1> SUFFICES ASSUME IInv, Leaks, [Next]_vars PROVE Leaks'
  OBVIOUS
<1>1. CASE ServerRecv \/ ServerRespond
  BY <1>1, ServerLeaks
<1>2. CASE ClientFinds \/ ClientMisses \/ ClientFindsHalf \/ CallbackReturn
  BY <1>2, ClientTakesLeaks, CallbackReturnLeaks
<1>3. CASE ServerStop \/ ClientStop
  <2>1. /\ running' = FALSE /\ aborted' = TRUE
        /\ UNCHANGED <<msgId, requests, responses, stubs, strings, broken>>
        /\ UNCHANGED <<sendRPC, current, server, client>>
        /\ UNCHANGED <<sender, callbacks, lost, raced>>
    BY <1>3 DEF ServerStop, ClientStop, Abort, threads, history
  <2>2. Held'
    BY <2>1 DEF Held
  <2>3. Storers' /\ InCallback'
    BY <2>1 DEF Leaks, Storers, InCallback
  <2>4. ForeignLost'
    BY <2>1 DEF Leaks, ForeignLost
  <2>5. Known'
    BY <2>1 DEF Leaks, Known
  <2> QED
    BY <2>2, <2>3, <2>4, <2>5 DEF Leaks
<1>4. ASSUME NEW c \in Callers, Enter(c) \/ InSendRPC(c) PROVE Leaks'
  BY <1>4, EnterLeaks, SendLeaks, BeginStoreLeaks, EndStoreLeaks DEF InSendRPC
<1>5. CASE Stop
  BY <1>5, StopLeaks
<1>6. CASE UNCHANGED vars
  BY <1>6 DEF vars, Leaks, Held, Storers, InCallback, ForeignLost, Known,
              UnderWay, Outgoing, Leaving, Storing, Ran
<1> QED
  BY <1>1, <1>2, <1>3, <1>4, <1>5, <1>6 DEF Next, ServerStep, ClientStep

LEMMA LeaksInvariance == Spec => []Leaks
BY InitLeaks, StepLeaks, Invariance, PTL DEF Spec

LEMMA Retyped ==
    ASSUME NEW S, NEW s \in Seq(S), NEW T, \A i \in DOMAIN s : s[i] \in T
    PROVE  s \in Seq(T)
<1>1. Len(s) \in Nat /\ DOMAIN s = 1..Len(s) /\ s = [i \in 1..Len(s) |-> s[i]]
  BY LenProperties
<1> QED
  BY <1>1, IsASeq

(* Every id that is anywhere has been given to a request.                  *)
THEOREM TypeCorrect == Spec => []TypeOK
<1>1. IInv /\ Leaks => TypeOK
  <2> SUFFICES ASSUME IInv, Leaks PROVE TypeOK
    OBVIOUS
  <2>1. \A i \in Nat : i < msgId <=> i \in Ids
    BY DEF Ids, IInv, Types
  <2>2. requests \in Seq(Ids \cup {StopCommand}) /\ responses \in Seq(Ids \cup {StopCommand})
    <3>1. \A i \in DOMAIN requests : requests[i] \in Ids \cup {StopCommand}
      BY <2>1, ElementOfSeq, LenProperties DEF IInv, Types, Unanswered, Outgoing, Ran
    <3>2. \A i \in DOMAIN responses : responses[i] \in Ids \cup {StopCommand}
      BY <2>1, ElementOfSeq, LenProperties DEF IInv, Types, Unanswered, Ran
    <3> QED
      BY <3>1, <3>2, Retyped DEF IInv, Types
  <2>3. server \in Ids \cup {None} /\ client \in Ids \cup {None}
    BY <2>1 DEF IInv, Types, Unanswered, Answered, Outgoing
  <2>4. current \in [Callers -> Ids \cup {None}]
    BY <2>1 DEF IInv, Types, Leaks, Known
  <2>5. stubs \subseteq Ids /\ strings \subseteq Ids /\ lost \subseteq Ids
    BY <2>1 DEF Leaks, Known, IInv, Once
  <2> QED
    BY <2>2, <2>3, <2>4, <2>5 DEF TypeOK, IInv, Types, Leaks, Known
<1> QED
  BY <1>1, Invariance, LeaksInvariance, PTL

(* When nothing is under way the map of stubs and the copied strings hold  *)
(* the lost requests for ever and nothing else, unless two threads have    *)
(* changed the map at once; and while one thread at a time uses the map no *)
(* request that a callback has sent is lost.                               *)
THEOREM LeaksAreForeign == Spec => []OnlyForeignRequestsLeak
<1>1. IInv /\ Leaks => OnlyForeignRequestsLeak
  <2> SUFFICES ASSUME IInv, Leaks PROVE OnlyForeignRequestsLeak
    OBVIOUS
  <2>1. ASSUME running, ~broken, requests = <<>>, responses = <<>>, server = None,
               client = None, \A c \in Callers : sendRPC[c] = "out"
        PROVE  stubs = lost /\ strings = lost
    <3>1. \A i \in Nat : ~UnderWay(i) /\ ~Storing(i) /\ i # client
      BY <2>1 DEF UnderWay, Outgoing, Leaving, Storing, Ran
    <3>2. lost \subseteq Nat /\ stubs \subseteq Nat /\ strings \subseteq Nat
      BY DEF IInv, Once, Leaks, Known
    <3> QED
      BY <2>1, <3>1, <3>2 DEF Leaks, Held
  <2> QED
    BY <2>1 DEF OnlyForeignRequestsLeak, Leaks, ForeignLost
<1> QED
  BY <1>1, Invariance, LeaksInvariance, PTL
-----------------------------------------------------------------------------
(* RpcMailboxes: the two mailboxes with their signals, each of which is a  *)
(* FreezeMailbox, whatever the two threads do between reading and sending. *)
LEMMA SameOperators ==
    ASSUME NEW S
    PROVE  /\ M!IsFiniteSet(S) = IsFiniteSet(S) /\ M!Cardinality(S) = Cardinality(S)
           /\ QP!IsFiniteSet(S) = IsFiniteSet(S) /\ QP!Cardinality(S) = Cardinality(S)
           /\ PP!IsFiniteSet(S) = IsFiniteSet(S) /\ PP!Cardinality(S) = Cardinality(S)
<1>1. M!IsFiniteSet(S) = IsFiniteSet(S)
  BY Zenon DEF IsFiniteSet, M!IsFiniteSet
<1>2. QP!IsFiniteSet(S) = IsFiniteSet(S) /\ PP!IsFiniteSet(S) = IsFiniteSet(S)
  BY Zenon DEF IsFiniteSet, QP!IsFiniteSet, PP!IsFiniteSet
<1>3. M!Cardinality(S) = Cardinality(S)
  BY Zenon DEF Cardinality, M!Cardinality
<1>4. QP!Cardinality(S) = Cardinality(S)
  BY Zenon DEF Cardinality, QP!Cardinality
<1>5. PP!Cardinality(S) = Cardinality(S)
  BY Zenon DEF Cardinality, PP!Cardinality
<1> QED
  BY <1>1, <1>2, <1>3, <1>4, <1>5

LEMMA MailboxAssumptions ==
    ASSUME M!RpcMailboxesAssumption
    PROVE  /\ QP!FreezeMailboxAssumption /\ PP!FreezeMailboxAssumption
           /\ IsFiniteSet(Callers) /\ Cardinality(Callers) \in Nat
           /\ SignalCapacity \in Nat /\ SignalCapacity > 0
<1>1. IsFiniteSet(Callers) /\ Cardinality(Callers) \in Nat
  BY SameOperators, FS_CardinalityType DEF M!RpcMailboxesAssumption
<1>2. MaxSends \in Nat /\ SignalCapacity \in Nat \ {0}
  BY DEF M!RpcMailboxesAssumption
<1>3. M!MaxResponses \in Nat
  <2>1. ASSUME NEW m \in Nat, NEW n \in Nat PROVE m * n \in Nat
    BY <2>1
  <2> QED
    BY <1>1, <1>2, <2>1, SameOperators DEF M!MaxResponses
<1>4. IsFiniteSet({Server})
  BY FS_Singleton
<1> QED
  BY <1>1, <1>2, <1>3, <1>4, SameOperators
     DEF QP!FreezeMailboxAssumption, PP!FreezeMailboxAssumption

(* The requests are a FreezeMailbox that the server's thread reads ...     *)
LEMMA RequestsRefine == M!Spec => QP!Spec
<1>1. M!Init => QP!Init
  BY DEF M!Init, QP!Init, M!Q!Init
<1>2. [M!Next]_(M!vars) => [QP!Next]_(QP!vars)
  <2> SUFFICES ASSUME [M!Next]_(M!vars) PROVE QP!Next \/ UNCHANGED QP!vars
    OBVIOUS
  <2> USE DEF QP!Next, QP!ReaderStep
  <2>1. ASSUME NEW c \in Callers, M!SendRPC(c) PROVE QP!Push(c)
    BY <2>1 DEF M!SendRPC, M!Q!Push, QP!Push
  <2>2. ASSUME NEW c \in Callers, M!SignalRequest(c) PROVE QP!Signal(c)
    BY <2>2 DEF M!SignalRequest, M!Q!Signal, QP!Signal
  <2>3. CASE M!ServerReads
    BY <2>3 DEF M!ServerReads, M!Q!Wake, QP!Wake, M!Q!RecvSignal, QP!RecvSignal,
                M!Q!RecvCommand, QP!RecvCommand
  <2>4. CASE M!ServerReturns
    BY <2>4 DEF M!ServerReturns, M!Q!Process, QP!Process
  <2>5. CASE M!Respond \/ M!SignalResponse \/ M!ClientStep
    BY <2>5 DEF M!Respond, M!SignalResponse, M!ClientStep, M!ClientReads, M!ClientReturns,
                M!requestBox, QP!vars
  <2>6. CASE UNCHANGED M!vars
    BY <2>6 DEF M!vars, M!requestBox, QP!vars
  <2> QED
    BY <2>1, <2>2, <2>3, <2>4, <2>5, <2>6 DEF M!Next, M!ServerStep
<1> QED
  BY <1>1, <1>2, PTL DEF M!Spec, QP!Spec

(* ... and the responses are one that the client's thread reads.           *)
LEMMA ResponsesRefine == M!Spec => PP!Spec
<1>1. M!Init => PP!Init
  BY DEF M!Init, PP!Init, M!P!Init
<1>2. [M!Next]_(M!vars) => [PP!Next]_(PP!vars)
  <2> SUFFICES ASSUME [M!Next]_(M!vars) PROVE PP!Next \/ UNCHANGED PP!vars
    OBVIOUS
  <2> USE DEF PP!Next, PP!ReaderStep
  <2>1. CASE M!Respond
    <3>1. PP!Push(Server)
      BY <2>1 DEF M!Respond, M!P!Push, PP!Push
    <3> QED
      BY <3>1
  <2>2. CASE M!SignalResponse
    <3>1. PP!Signal(Server)
      BY <2>2 DEF M!SignalResponse, M!P!Signal, PP!Signal
    <3> QED
      BY <3>1
  <2>3. CASE M!ClientReads
    BY <2>3 DEF M!ClientReads, M!P!Wake, PP!Wake, M!P!RecvSignal, PP!RecvSignal,
                M!P!RecvCommand, PP!RecvCommand
  <2>4. CASE M!ClientReturns
    BY <2>4 DEF M!ClientReturns, M!P!Process, PP!Process
  <2>5. CASE M!ServerReads \/ M!ServerReturns \/ \E c \in Callers : M!SendRPC(c) \/ M!SignalRequest(c)
    BY <2>5 DEF M!ServerReads, M!ServerReturns, M!SendRPC, M!SignalRequest, M!responseBox, PP!vars
  <2>6. CASE UNCHANGED M!vars
    BY <2>6 DEF M!vars, M!responseBox, PP!vars
  <2> QED
    BY <2>1, <2>2, <2>3, <2>4, <2>5, <2>6 DEF M!Next, M!ServerStep, M!ClientStep
<1> QED
  BY <1>1, <1>2, PTL DEF M!Spec, PP!Spec

(* Of the pair as a whole: the server answers each request before it reads *)
(* the next one, and who is inside Send() is inside ProcessCommand().      *)
Paced == /\ Len(called) + Len(responsePipe) = responded[Server]
         /\ responded[Server] <= Len(handled)
         /\ serverLoop # "command" => responded[Server] = Len(handled)
         /\ Server \in responding => serverLoop = "command"
         /\ ClientThread \in requesting => clientLoop = "command"

Boxes == QP!TypeOK /\ PP!TypeOK

LEMMA BoxFacts ==
    ASSUME Boxes
    PROVE  /\ Len(called) \in Nat /\ Len(responsePipe) \in Nat /\ Len(handled) \in Nat
           /\ responded[Server] \in Nat /\ responded \in [{Server} -> Nat]
           /\ called \in Seq({Server} \X Nat) /\ responsePipe \in Seq({Server} \X Nat)
           /\ handled \in Seq(Callers \X Nat) /\ requestPipe \in Seq(Callers \X Nat)
BY LenProperties DEF Boxes, QP!TypeOK, PP!TypeOK

LEMMA PacedInit == M!Init => Paced
BY EmptySeq DEF M!Init, M!Q!Init, M!P!Init, Paced

(* A thread's own read of its mailbox.                                     *)
LEMMA PacedReads ==
    ASSUME Boxes, Paced, M!ServerReads \/ M!ClientReads
    PROVE  Paced'
<1> USE BoxFacts DEF Paced
<1>1. CASE M!ServerReads
  <2>1. UNCHANGED <<requesting, M!responseBox>>
    BY <1>1 DEF M!ServerReads, M!Q!Wake, M!Q!RecvSignal, M!Q!RecvCommand
  <2>2. CASE M!Q!Wake \/ M!Q!RecvSignal
    BY <2>1, <2>2 DEF M!Q!Wake, M!Q!RecvSignal, M!responseBox
  <2>3. CASE M!Q!RecvCommand
    <3>1. serverLoop = "pop" /\ Server \notin responding /\ responded[Server] = Len(handled)
      BY <2>3 DEF M!Q!RecvCommand
    <3>2. CASE requestPipe # <<>>
      <4>1. handled' = Append(handled, Head(requestPipe)) /\ serverLoop' = "command"
        BY <2>3, <3>2 DEF M!Q!RecvCommand
      <4>2. Len(handled') = Len(handled) + 1
        BY <3>2, <4>1, HeadTailProperties, AppendProperties
      <4> QED
        BY <2>1, <3>1, <4>1, <4>2 DEF M!responseBox
    <3>3. CASE requestPipe = <<>>
      BY <2>1, <2>3, <3>1, <3>3 DEF M!Q!RecvCommand, M!responseBox
    <3> QED
      BY <3>2, <3>3
  <2> QED
    BY <1>1, <2>2, <2>3 DEF M!ServerReads
<1>2. CASE M!ClientReads
  <2>1. UNCHANGED <<responded, responding, M!requestBox>>
    BY <1>2 DEF M!ClientReads, M!P!Wake, M!P!RecvSignal, M!P!RecvCommand
  <2>2. clientLoop # "command"
    BY <1>2 DEF M!ClientReads, M!P!Wake, M!P!RecvSignal, M!P!RecvCommand
  <2>3. CASE M!P!Wake \/ M!P!RecvSignal
    BY <2>1, <2>2, <2>3 DEF M!P!Wake, M!P!RecvSignal, M!requestBox
  <2>4. CASE M!P!RecvCommand
    <3>1. CASE responsePipe # <<>>
      <4>1. called' = Append(called, Head(responsePipe)) /\ responsePipe' = Tail(responsePipe)
        BY <2>4, <3>1 DEF M!P!RecvCommand
      <4>2. Len(called') = Len(called) + 1 /\ Len(responsePipe') = Len(responsePipe) - 1
        BY <3>1, <4>1, HeadTailProperties, AppendProperties
      <4> QED
        BY <2>1, <2>2, <4>2 DEF M!requestBox
    <3>2. CASE responsePipe = <<>>
      BY <2>1, <2>2, <2>4, <3>2 DEF M!P!RecvCommand, M!requestBox
    <3> QED
      BY <3>1, <3>2
  <2> QED
    BY <1>2, <2>3, <2>4 DEF M!ClientReads
<1> QED
  BY <1>1, <1>2

LEMMA PacedStep == Boxes /\ Paced /\ [M!Next]_(M!vars) => Paced'
<1> SUFFICES ASSUME Boxes, Paced, [M!Next]_(M!vars) PROVE Paced'
  OBVIOUS
<1> USE BoxFacts DEF Paced, M!requestBox, M!responseBox
<1>1. ASSUME NEW c \in Callers, M!SendRPC(c) PROVE Paced'
  BY <1>1 DEF M!SendRPC, M!Q!Push
<1>2. ASSUME NEW c \in Callers, M!SignalRequest(c) PROVE Paced'
  BY <1>2 DEF M!SignalRequest, M!Q!Signal
<1>3. CASE M!Respond
  <2>1. /\ serverLoop = "command" /\ responded[Server] < Len(handled)
        /\ responsePipe' = Append(responsePipe, <<Server, responded[Server] + 1>>)
        /\ responded'[Server] = responded[Server] + 1
        /\ UNCHANGED <<called, handled, serverLoop, requesting, clientLoop>>
    BY <1>3 DEF M!Respond, M!P!Push
  <2>2. Len(responsePipe') = Len(responsePipe) + 1
    <3>1. <<Server, responded[Server] + 1>> \in {Server} \X Nat
      <4>1. PICK n \in Nat : n = responded[Server] + 1
        BY BoxFacts
      <4>2. <<Server, n>> \in {Server} \X Nat
        BY ONLY <4>1
      <4> QED
        BY <4>1, <4>2
    <3> QED
      BY <2>1, <3>1, BoxFacts, AppendProperties
  <2> QED
    BY <2>1, <2>2
<1>4. CASE M!SignalResponse
  BY <1>4 DEF M!SignalResponse, M!P!Signal
<1>5. CASE M!ServerReturns
  BY <1>5 DEF M!ServerReturns, M!Q!Process
<1>6. CASE M!ClientReturns
  BY <1>6 DEF M!ClientReturns, M!P!Process
<1>7. CASE UNCHANGED M!vars
  BY <1>7 DEF M!vars
<1> QED
  BY <1>1, <1>2, <1>3, <1>4, <1>5, <1>6, <1>7, PacedReads
     DEF M!Next, M!ServerStep, M!ClientStep

LEMMA PairInvariance ==
    ASSUME M!RpcMailboxesAssumption
    PROVE  M!Spec => [](Boxes /\ Paced)
<1>1. QP!Spec => []QP!TypeOK
  BY MailboxAssumptions, QP!TypeCorrect
<1>2. PP!Spec => []PP!TypeOK
  BY MailboxAssumptions, PP!TypeCorrect
<1> QED
  BY <1>1, <1>2, RequestsRefine, ResponsesRefine, PacedInit, PacedStep, PTL DEF M!Spec, Boxes

(* Each of the two mailboxes between MySQL client and server, used as they *)
(* are used, is a queue that loses, repeats and reorders nothing.          *)
THEOREM PairIsFaithful ==
    ASSUME M!RpcMailboxesAssumption
    PROVE  M!Spec => []QP!ExactlyOnceInOrder /\ []PP!ExactlyOnceInOrder
<1>1. QP!Spec => []QP!ExactlyOnceInOrder
  BY MailboxAssumptions, QP!FreezeMailboxIsFaithful
<1>2. PP!Spec => []PP!ExactlyOnceInOrder
  BY MailboxAssumptions, PP!FreezeMailboxIsFaithful
<1> QED
  BY <1>1, <1>2, RequestsRefine, ResponsesRefine, PTL

(* The two threads come to rest only when every request has been answered, *)
(* and never answer one that the server has not read (the loops InEvent()  *)
(* of MySQLRPCClient and MySQLRPCServer).                                  *)
THEOREM RestIsAnswered ==
    ASSUME M!RpcMailboxesAssumption
    PROVE  M!Spec => []M!AnsweredAtRest
<1>1. Boxes /\ Paced /\ QP!NoLostWakeup /\ PP!NoLostWakeup /\ QP!ExactlyOnceInOrder => M!AnsweredAtRest
  <2> SUFFICES ASSUME Boxes, Paced, QP!NoLostWakeup, PP!NoLostWakeup, QP!ExactlyOnceInOrder
               PROVE  M!AnsweredAtRest
    OBVIOUS
  <2>1. Len(called) <= Len(handled)
    BY BoxFacts DEF Paced
  <2>2. ASSUME M!AtRest, NEW c \in Callers, NEW n \in 1..requested[c]
        PROVE  M!Answered(c, n)
    <3>1. requestPipe = <<>> /\ responsePipe = <<>>
      BY <2>2 DEF M!AtRest, QP!NoLostWakeup, PP!NoLostWakeup
    <3>2. Len(called) = Len(handled)
      BY <2>2, <3>1, BoxFacts, EmptySeq DEF M!AtRest, Paced
    <3>3. PICK i \in 1..Len(QP!CQ!history) : QP!CQ!history[i] = <<c, n>>
      BY DEF QP!ExactlyOnceInOrder, QP!CQ!ExactlyOnceInOrder, QP!CQ!NothingLost
    <3>4. QP!CQ!history = handled
      BY <3>1, BoxFacts, ConcatEmptySeq DEF QP!CQ!history
    <3>5. i \in DOMAIN handled /\ i <= Len(called) /\ handled[i] = <<c, n>>
      BY <3>2, <3>3, <3>4, BoxFacts, LenProperties
    <3> QED
      BY <3>5 DEF M!Answered
  <2> QED
    BY <2>1, <2>2 DEF M!AnsweredAtRest
<1>2. QP!Spec => []QP!NoLostWakeup
  BY MailboxAssumptions, QP!WakeupsAreNotLost
<1>3. PP!Spec => []PP!NoLostWakeup
  BY MailboxAssumptions, PP!WakeupsAreNotLost
<1> QED
  BY <1>1, <1>2, <1>3, PairInvariance, PairIsFaithful, RequestsRefine, ResponsesRefine, PTL

(* If the server waits for room for a response while the client waits for  *)
(* room for a request, from a callback, then both for ever; and never with *)
(* less to read than the two socket pairs hold signals, but for as many as *)
(* there are threads (Signaler.cpp, which retries until there is room).    *)
THEOREM BlockedByLoad ==
    ASSUME M!RpcMailboxesAssumption
    PROVE  M!Spec => M!BlockedByLoadForGood
<1>1. Boxes /\ Paced /\ M!Blocked /\ [M!Next]_(M!vars) => M!Blocked'
  <2> SUFFICES ASSUME Boxes, Paced, M!Blocked, [M!Next]_(M!vars) PROVE M!Blocked'
    OBVIOUS
  <2>1. /\ Server \in responding /\ responseSignals = SignalCapacity /\ clientLoop = "command"
        /\ ClientThread \in requesting /\ requestSignals = SignalCapacity /\ serverLoop = "command"
        /\ ~(SignalCapacity < SignalCapacity)
    BY MailboxAssumptions DEF Paced, M!Blocked
  <2>2. ~M!ServerReads /\ ~M!ServerReturns /\ ~M!ClientReads /\ ~M!ClientReturns
    BY <2>1 DEF M!ServerReads, M!ServerReturns, M!ClientReads, M!ClientReturns,
                M!Q!Wake, M!Q!RecvSignal, M!Q!RecvCommand, M!P!Wake, M!P!RecvSignal, M!P!RecvCommand
  <2>3. ~M!Respond /\ ~M!SignalResponse /\ \A c \in Callers : ~M!SignalRequest(c)
    BY <2>1 DEF M!Respond, M!P!Push, M!SignalResponse, M!P!Signal, M!SignalRequest, M!Q!Signal
  <2>4. ASSUME NEW c \in Callers, M!SendRPC(c) PROVE M!Blocked'
    BY <2>1, <2>4 DEF M!SendRPC, M!Q!Push, M!responseBox, M!Blocked
  <2>5. CASE UNCHANGED M!vars
    BY <2>1, <2>5 DEF M!vars, M!requestBox, M!responseBox, M!Blocked
  <2> QED
    BY <2>2, <2>3, <2>4, <2>5 DEF M!Next, M!ServerStep, M!ClientStep
<1>2. Boxes /\ M!RpcMailboxesAssumption /\ QP!SignalsFollow /\ PP!SignalsFollow /\ M!Blocked => M!Overloaded
  <2> SUFFICES ASSUME Boxes, QP!SignalsFollow, PP!SignalsFollow, M!Blocked PROVE M!Overloaded
    OBVIOUS
  <2>1. responding = {Server} /\ Cardinality(responding) = 1 /\ Cardinality({Server}) = 1
    <3>1. responding = {Server}
      BY DEF Boxes, PP!TypeOK, M!Blocked
    <3> QED
      BY <3>1, FS_Singleton
  <2>2. requesting \subseteq Callers /\ Cardinality(requesting) \in Nat
    BY MailboxAssumptions, FS_Subset, FS_CardinalityType DEF Boxes, QP!TypeOK
  <2>3. Len(responsePipe) + 1 >= SignalCapacity
    BY <2>1, BoxFacts, MailboxAssumptions, SameOperators DEF PP!SignalsFollow, M!Blocked
  <2>4. Len(requestPipe) \in Nat
    BY BoxFacts, LenProperties
  <2>5. Len(requestPipe) + Cardinality(Callers) + 1 >= SignalCapacity + Cardinality(requesting)
    BY <2>2, <2>4, MailboxAssumptions, SameOperators DEF QP!SignalsFollow, M!Blocked
  <2> QED
    BY <2>3, <2>5, SameOperators DEF M!Overloaded
<1>3. QP!Spec => []QP!SignalsFollow
  BY MailboxAssumptions, QP!SignalsDoNotPileUp
<1>4. PP!Spec => []PP!SignalsFollow
  BY MailboxAssumptions, PP!SignalsDoNotPileUp
<1>5. Boxes /\ QP!SignalsFollow /\ PP!SignalsFollow /\ M!Blocked => M!Overloaded
  BY <1>2
<1> QED
  BY <1>1, <1>3, <1>4, <1>5, PairInvariance, RequestsRefine, ResponsesRefine, PTL
     DEF M!Spec, M!BlockedByLoadForGood
-----------------------------------------------------------------------------
(* MySQLConnection: who has given up has a null handle outside of a call,  *)
(* and a call that finds it so returns at once.                            *)
GivenUp == mysql = "null" /\ at \in {"out", "query"}

Counted == /\ mysql \in C!Handles /\ at \in C!Places /\ calls \in 0..MaxCalls
           /\ errNo \in {0} \cup LostErrnos \cup OtherErrnos
           /\ reConnectCount \in Nat /\ reConnectCount <= Limit + calls
           /\ at = "connect" => reConnectCount = 0 /\ calls = 0
           /\ at \in {"query", "handle"} => calls > 0 /\ reConnectCount < Limit + calls

LEMMA CountedInvariance ==
    ASSUME C!MySQLConnectionAssumption
    PROVE  C!Spec => [](Counted /\ returned \in BOOLEAN)
<1> USE DEF C!MySQLConnectionAssumption, Counted, C!Handles, C!Places
<1>1. C!Init => Counted
  BY SMT DEF C!Init
<1>2. Counted /\ [C!Next]_(C!vars) => Counted'
  <2> SUFFICES ASSUME Counted, [C!Next]_(C!vars) PROVE Counted'
    OBVIOUS
  <2>1. CASE C!FirstConnect
    BY <2>1 DEF C!FirstConnect
  <2>2. CASE C!CallQuery
    BY <2>2 DEF C!CallQuery
  <2>3. CASE C!QueryWithoutConnection \/ C!QueryCrashes \/ C!QuerySucceeds \/ C!QueryFails
    BY <2>3 DEF C!QueryWithoutConnection, C!QueryCrashes, C!QuerySucceeds, C!QueryFails
  <2>4. CASE C!GiveUp \/ C!Unhandled
    BY <2>4 DEF C!GiveUp, C!Unhandled
  <2>5. CASE C!Reconnect \/ C!ReconnectFails
    BY <2>5 DEF C!Reconnect, C!ReconnectFails
  <2>6. CASE UNCHANGED C!vars
    BY <2>6 DEF C!vars
  <2> QED
    BY <2>1, <2>2, <2>3, <2>4, <2>5, <2>6 DEF C!Next, C!Step
<1>3. C!Init => returned \in BOOLEAN
  BY Zenon DEF C!Init
<1>4. returned \in BOOLEAN /\ [C!Next]_(C!vars) => (returned \in BOOLEAN)'
  BY Zenon DEF C!Next, C!Step, C!FirstConnect, C!CallQuery, C!QueryWithoutConnection, C!QueryCrashes,
               C!QuerySucceeds, C!QueryFails, C!GiveUp, C!Unhandled, C!Reconnect, C!ReconnectFails,
               C!vars
<1> HIDE DEF Counted
<1> QED
  BY <1>1, <1>2, <1>3, <1>4, PTL DEF C!Spec

(* However often queries fail, the count of errors exceeds its limit by no *)
(* more than the number of calls: a call counts one error beyond it        *)
(* (MySQLConnection.cpp, HandleMySQLErrno and CanTryReconnect).            *)
THEOREM ErrorsAreBounded ==
    ASSUME C!MySQLConnectionAssumption
    PROVE  C!Spec => [](C!TypeOK /\ reConnectCount <= Limit + calls)
<1>1. Counted /\ returned \in BOOLEAN => C!TypeOK /\ reConnectCount <= Limit + calls
  <2>1. Counted => reConnectCount \in 0..(Limit + MaxCalls) /\ calls \in 0..MaxCalls
    BY DEF Counted, C!MySQLConnectionAssumption
  <2> QED
    BY <2>1 DEF Counted, C!TypeOK
<1> QED
  BY <1>1, CountedInvariance, PTL

(* A connection that a call has given up is never opened again, whatever   *)
(* its counter is: Query() returns before it would try to reconnect.       *)
THEOREM ConnectionStaysGivenUp == C!Spec => C!GivenUpForGood
<1>1. GivenUp /\ [C!Next]_(C!vars) => GivenUp'
  <2> SUFFICES ASSUME GivenUp, [C!Next]_(C!vars) PROVE GivenUp'
    OBVIOUS
  <2> USE DEF GivenUp
  <2>1. CASE C!CallQuery \/ C!QueryWithoutConnection
    BY <2>1 DEF C!CallQuery, C!QueryWithoutConnection
  <2>2. ~(\/ C!FirstConnect \/ C!QueryCrashes \/ C!QuerySucceeds \/ C!QueryFails
          \/ C!GiveUp \/ C!Unhandled \/ C!Reconnect \/ C!ReconnectFails)
    BY DEF C!FirstConnect, C!QueryCrashes, C!QuerySucceeds, C!QueryFails,
           C!GiveUp, C!Unhandled, C!Reconnect, C!ReconnectFails
  <2>3. CASE UNCHANGED C!vars
    BY <2>3 DEF C!vars
  <2> QED
    BY <2>1, <2>2, <2>3 DEF C!Next, C!Step
<1>2. at = "out" /\ mysql = "null" => GivenUp
  BY DEF GivenUp
<1>3. GivenUp => mysql = "null"
  BY DEF GivenUp
<1> QED
  BY <1>1, <1>2, <1>3, PTL DEF C!Spec, C!GivenUpForGood
=============================================================================
