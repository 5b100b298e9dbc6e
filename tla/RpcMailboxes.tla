----------------------------- MODULE RpcMailboxes -----------------------------
(***************************************************************************)
(* The two mailboxes between MySQLRPCClient and MySQLRPCServer, signals    *)
(* included.  The server's thread reads the requests and, before it reads  *)
(* the next one, sends a response; the client's thread reads the responses *)
(* and may send requests from each callback.  Signaler::Send() does not    *)
(* return while the socket pair is full, so each of the two threads may    *)
(* wait for the other to read.                                             *)
(*                                                                         *)
(* RpcMysql has the stubs and the strings of the requests and takes the    *)
(* mailboxes as queues.                                                    *)
(***************************************************************************)
EXTENDS Naturals, Sequences, FiniteSets

CONSTANTS Callers,          \* threads that call SendRPC
          ClientThread,     \* the one of them that runs the callbacks
          Server,           \* the server's thread
          MaxSends,         \* bound on the requests of each caller
          SignalCapacity    \* bytes that a socket pair holds

RpcMailboxesAssumption ==
    /\ IsFiniteSet(Callers) /\ ClientThread \in Callers
    /\ MaxSends \in Nat
    /\ SignalCapacity \in Nat \ {0}

VARIABLES requests, requestSignals, requesting, serverLoop, requested, handled,
          responses, responseSignals, responding, clientLoop, responded, called

requestBox == <<requests, requestSignals, requesting, serverLoop, requested, handled>>
responseBox == <<responses, responseSignals, responding, clientLoop, responded, called>>
vars == <<requestBox, responseBox>>

MaxResponses == MaxSends * Cardinality(Callers)

(* The server's mailbox and the client's.                                  *)
Q == INSTANCE FreezeMailbox WITH
        Senders <- Callers, MaxInterrupts <- 0, interrupts <- 0,
        cpipe <- requests, signals <- requestSignals, signalling <- requesting,
        reader <- serverLoop, sent <- requested, served <- handled

P == INSTANCE FreezeMailbox WITH
        Senders <- {Server}, MaxSends <- MaxResponses, MaxInterrupts <- 0, interrupts <- 0,
        cpipe <- responses, signals <- responseSignals, signalling <- responding,
        reader <- clientLoop, sent <- responded, served <- called
-----------------------------------------------------------------------------
(* Slips in this code that the properties below must notice.               *)

(* a query that failed is left without an answer                           *)
ServerReturnsAnyway == responding = {} /\ Q!Process /\ UNCHANGED responseBox
-----------------------------------------------------------------------------
Init == Q!Init /\ P!Init

(* SendRPC, up to the signal; the client's thread calls it from a callback.*)
SendRPC(c) == /\ c = ClientThread => clientLoop = "command"
              /\ Q!Push(c)
              /\ UNCHANGED responseBox

(* The signal, which waits for room in the socket pair.                    *)
SignalRequest(c) == Q!Signal(c) /\ UNCHANGED responseBox

(* ProcessRPCMysqlRequest: the query is over and its response is sent, ... *)
Respond == /\ serverLoop = "command" /\ responded[Server] < Len(handled)
           /\ P!Push(Server)
           /\ UNCHANGED requestBox

(* ... with its signal, which waits for room as well, ...                  *)
SignalResponse == P!Signal(Server) /\ UNCHANGED requestBox

(* ... and only then does InEvent() read the next request.                 *)
ServerReturns == /\ responded[Server] = Len(handled) /\ responding = {}
                 /\ Q!Process
                 /\ UNCHANGED responseBox

ServerReads == (Q!Wake \/ Q!RecvSignal \/ Q!RecvCommand) /\ UNCHANGED responseBox

(* ProcessRPCMysqlResponse returns when the requests that its callback     *)
(* sends have been sent.                                                   *)
ClientReturns == /\ ClientThread \notin requesting
                 /\ P!Process
                 /\ UNCHANGED requestBox

ClientReads == (P!Wake \/ P!RecvSignal \/ P!RecvCommand) /\ UNCHANGED requestBox

ServerStep == ServerReads \/ Respond \/ SignalResponse \/ ServerReturns

ClientStep == ClientReads \/ ClientReturns

Next == \/ ServerStep
        \/ ClientStep
        \/ \E c \in Callers : SendRPC(c) \/ SignalRequest(c)

Spec == Init /\ [][Next]_vars

(* Both threads run and a thread inside Send() tries again; nobody need    *)
(* call SendRPC, and a callback returns.                                   *)
Fairness == /\ WF_vars(ServerStep) /\ WF_vars(ClientStep)
            /\ \A c \in Callers : WF_vars(SignalRequest(c))

FairSpec == Spec /\ Fairness
-----------------------------------------------------------------------------
TypeOK == Q!TypeOK /\ P!TypeOK

(* Each of the two threads waits for the other to read.                    *)
Blocked == /\ Server \in responding /\ responseSignals = SignalCapacity
           /\ ClientThread \in requesting /\ requestSignals = SignalCapacity

(* They do so with as much still to be read as fills both socket pairs,    *)
(* but for the few signals that run ahead of their commands.               *)
Overloaded ==
    /\ Blocked
    /\ Len(responses) + 1 >= SignalCapacity
    /\ Len(requests) + Cardinality(Callers) + 1 >= SignalCapacity + Cardinality(requesting)

(* Once they wait for one another they do so for ever, and never under     *)
(* less load.                                                              *)
BlockedByLoadForGood == [](Blocked => []Overloaded)

AtRest == /\ serverLoop = "wait" /\ requestSignals = 0 /\ requesting = {}
          /\ clientLoop = "wait" /\ responseSignals = 0 /\ responding = {}

(* The n-th callback is for the n-th request that the server has taken,    *)
(* and the two threads do not rest before every request has had its own.   *)
Answered(c, n) == \E i \in DOMAIN handled : i <= Len(called) /\ handled[i] = <<c, n>>

AnsweredAtRest ==
    /\ Len(called) <= Len(handled)
    /\ AtRest => \A c \in Callers : \A n \in 1..requested[c] : Answered(c, n)

(* Every request is answered, unless the two threads come to wait for one  *)
(* another, for ever, and that only under such a load.                     *)
AnsweredOrOverloaded ==
    \A c \in Callers : \A n \in 1..MaxSends :
        requested[c] >= n ~> Answered(c, n) \/ []Overloaded
=============================================================================
