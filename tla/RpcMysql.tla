------------------------------ MODULE RpcMysql ------------------------------
(***************************************************************************)
(* MySQLRPCClient and MySQLRPCServer of src/workspace: asynchronous MySQL  *)
(* queries.  SendRPC runs in the thread that calls it; the client's thread *)
(* receives the responses and runs the callbacks, which may call SendRPC   *)
(* too; the server's thread runs the queries.  The two mailboxes are the   *)
(* queues that FreezeMailbox implements.                                   *)
(*                                                                         *)
(* client_stubs_ has no lock.  A thread that looks something up in the map *)
(* while another inserts may miss an entry, find one that is half stored,  *)
(* or crash.  When two threads change the map at once, what they insert    *)
(* may be lost and the tree is broken from then on: any lookup may miss,   *)
(* and any use may end the process.                                        *)
(* The query_result of a request is NULL, which the server asserts and     *)
(* the one program that calls SendRPC (UnitTest/RPCMySQL) sees to.         *)
(***************************************************************************)
EXTENDS Naturals, Sequences, FiniteSets

CONSTANTS Callers,       \* threads that call SendRPC
          ClientThread,  \* the one of them that runs the callbacks
          MaxRequests,   \* bound on the calls of SendRPC
          StopCommand,   \* the stop command
          MayStop,       \* may Stop() be called on client and server?
          None           \* no request

ASSUME RpcMysqlAssumption ==
    /\ ClientThread \in Callers
    /\ MaxRequests \in Nat
    /\ MayStop \in BOOLEAN
    /\ StopCommand \notin Nat /\ None \notin Nat

VARIABLES msgId,      \* MySQLRPCClient::msg_id_
          sendRPC,    \* where each caller is in SendRPC
          current,    \* the msg_id of that call
          requests,   \* the server's mailbox
          responses,  \* the client's mailbox
          stubs,      \* the keys of client_stubs_
          strings,    \* the requests whose table_ and query_statement_ exist
          server,     \* the request whose query the server runs, or None
          client,     \* the request whose callback the client runs, or None
          broken,     \* TRUE when the tree of client_stubs_ may be damaged
          running,    \* FALSE when the process has crashed, or hangs
          aborted,    \* TRUE when it was an assertion that failed
          sender,     \* history: which thread sent each request
          callbacks,  \* history: how often each request's callback has run
          lost,       \* history: responses that were reported as an error
          raced       \* history: client_stubs_ was used by two threads at once

vars == <<msgId, sendRPC, current, requests, responses, stubs, strings, server,
          client, broken, running, aborted, sender, callbacks, lost, raced>>

threads == <<sendRPC, current, server, client>>
history == <<sender, callbacks, lost, raced>>

SendRPCStates == {"out",      \* not in SendRPC
                  "send",     \* about to call SendRPCMysqlRequest
                  "sent",     \* that call has returned
                  "insert"}   \* in client_stubs_[msg_id] = cmd

Ids == 0..(msgId - 1)

(* Threads other than t that are inserting into client_stubs_.             *)
Inserting(t) == {c \in Callers \ {t} : sendRPC[c] = "insert"}

(* What thread t does to running and raced when it uses client_stubs_.     *)
UseStubs(t) ==
    /\ raced' = (raced \/ Inserting(t) # {})
    /\ running' \in IF broken \/ Inserting(t) # {} THEN BOOLEAN ELSE {TRUE}

(* It changes the map: another thread that is inserting does so as well.   *)
ChangeStubs(t) == UseStubs(t) /\ broken' = (broken \/ Inserting(t) # {})

(* The entry of request i is there, but perhaps not what it is assigned.   *)
HalfStored(i) == \E c \in Inserting(ClientThread) : current[c] = i
-----------------------------------------------------------------------------
(* Slips in this code that the properties below must notice.               *)

(* frees the request's strings as soon as it is sent                       *)
SendFrees(c) ==
    /\ running /\ sendRPC[c] = "send"
    /\ requests' = Append(requests, current[c])
    /\ strings' = strings \ {current[c]}
    /\ sendRPC' = [sendRPC EXCEPT ![c] = "sent"]
    /\ UNCHANGED <<msgId, current, responses, stubs, server, client, broken, running, aborted>>
    /\ UNCHANGED history

(* puts the stub into the map only for callers that are not the client     *)
StoreForeign(c) ==
    /\ running /\ sendRPC[c] = "insert"
    /\ stubs' = IF c = ClientThread THEN stubs ELSE stubs \cup {current[c]}
    /\ sendRPC' = [sendRPC EXCEPT ![c] = "out"]
    /\ UNCHANGED <<msgId, current, requests, responses, strings, server, client, broken, running, aborted>>
    /\ UNCHANGED history

(* does not answer a query that failed                                     *)
ServerRespondOnSuccess ==
    /\ running /\ server # None
    /\ server' = None
    /\ responses' \in {responses, Append(responses, server)}
    /\ UNCHANGED <<msgId, sendRPC, current, requests, stubs, strings, client, broken, running, aborted>>
    /\ UNCHANGED history

(* takes msg_id_ without advancing it                                      *)
EnterReusesId(c) ==
    /\ running /\ sendRPC[c] = "out" /\ msgId < MaxRequests
    /\ c = ClientThread => client # None
    /\ msgId' \in {msgId, msgId + 1}
    /\ current' = [current EXCEPT ![c] = msgId]
    /\ strings' = strings \cup {msgId}
    /\ sender' = [sender EXCEPT ![msgId] = c]
    /\ sendRPC' = [sendRPC EXCEPT ![c] = "send"]
    /\ UNCHANGED <<requests, responses, stubs, server, client, broken, running, aborted, callbacks, lost, raced>>
-----------------------------------------------------------------------------
Init == /\ msgId = 0
        /\ sendRPC = [c \in Callers |-> "out"]
        /\ current = [c \in Callers |-> None]
        /\ requests = <<>>
        /\ responses = <<>>
        /\ stubs = {}
        /\ strings = {}
        /\ server = None
        /\ client = None
        /\ broken = FALSE
        /\ running = TRUE
        /\ aborted = FALSE
        /\ sender = [i \in 0..(MaxRequests - 1) |-> None]
        /\ callbacks = [i \in 0..(MaxRequests - 1) |-> 0]
        /\ lost = {}
        /\ raced = FALSE

(* SendRPC up to the call of SendRPCMysqlRequest: take an id and copy the  *)
(* two strings.  The client's thread calls it from a callback.             *)
Enter(c) == /\ running
            /\ sendRPC[c] = "out"
            /\ msgId < MaxRequests
            /\ c = ClientThread => client # None
            /\ msgId' = msgId + 1
            /\ current' = [current EXCEPT ![c] = msgId]
            /\ strings' = strings \cup {msgId}
            /\ sender' = [sender EXCEPT ![msgId] = c]
            /\ sendRPC' = [sendRPC EXCEPT ![c] = "send"]
            /\ UNCHANGED <<requests, responses, stubs, server, client, broken, running, aborted>>
            /\ UNCHANGED <<callbacks, lost, raced>>

(* SendRPCMysqlRequest: into the server's mailbox.                         *)
Send(c) == /\ running
           /\ sendRPC[c] = "send"
           /\ requests' = Append(requests, current[c])
           /\ sendRPC' = [sendRPC EXCEPT ![c] = "sent"]
           /\ UNCHANGED <<msgId, current, responses, stubs, strings, server, client, broken, running, aborted>>
           /\ UNCHANGED history

(* client_stubs_[msg_id] = cmd, after the request has been sent.           *)
BeginStore(c) ==
    /\ running
    /\ sendRPC[c] = "sent"
    /\ ChangeStubs(c)
    /\ sendRPC' = [sendRPC EXCEPT ![c] = "insert"]
    /\ UNCHANGED <<msgId, current, requests, responses, stubs, strings, server, client, aborted>>
    /\ UNCHANGED <<sender, callbacks, lost>>

(* The insertion ends; if another thread has changed the map meanwhile, it *)
(* may have come to nothing.                                               *)
EndStore(c) ==
    /\ running
    /\ sendRPC[c] = "insert"
    /\ stubs' \in {stubs \cup {current[c]}} \cup (IF broken THEN {stubs} ELSE {})
    /\ running' \in IF broken THEN BOOLEAN ELSE {TRUE}
    /\ sendRPC' = [sendRPC EXCEPT ![c] = "out"]
    /\ UNCHANGED <<msgId, current, requests, responses, strings, server, client, broken, aborted>>
    /\ UNCHANGED history

(* ProcessRPCMysqlRequest: query_result is NULL, as it asserts, and the    *)
(* query reads the request's strings.                                      *)
ServerRecv == /\ running
              /\ server = None
              /\ requests # <<>> /\ Head(requests) # StopCommand
              /\ server' = Head(requests)
              /\ requests' = Tail(requests)
              /\ UNCHANGED <<msgId, sendRPC, current, responses, stubs, strings, client, broken, running, aborted>>
              /\ UNCHANGED history

SendRPCMysqlResponse(id) == responses' = Append(responses, id)

(* The query is over, well or not, and the response is sent.               *)
ServerRespond == /\ running
                 /\ server # None
                 /\ server' = None
                 /\ SendRPCMysqlResponse(server)
                 /\ UNCHANGED <<msgId, sendRPC, current, requests, stubs, strings, client, broken, running, aborted>>
                 /\ UNCHANGED history

(* ProcessRPCMysqlResponse finds a stub and runs its callback.             *)
ClientFinds ==
    /\ running
    /\ client = None
    /\ responses # <<>>
    /\ Head(responses) \in stubs \/ HalfStored(Head(responses))
    /\ UseStubs(ClientThread)
    /\ responses' = Tail(responses)
    /\ IF running'
       THEN /\ client' = Head(responses)
            /\ callbacks' = [callbacks EXCEPT ![Head(responses)] = @ + 1]
       ELSE UNCHANGED <<client, callbacks>>
    /\ UNCHANGED <<msgId, sendRPC, current, requests, stubs, strings, server, broken, aborted>>
    /\ UNCHANGED <<sender, lost>>

(* ProcessRPCMysqlResponse finds none ("mapped error"): there is none yet, *)
(* or an insertion hides it, or the map has lost it.                       *)
ClientMisses ==
    /\ running
    /\ client = None
    /\ responses # <<>> /\ Head(responses) # StopCommand
    /\ Head(responses) \notin stubs \/ Inserting(ClientThread) # {} \/ broken
    /\ UseStubs(ClientThread)
    /\ responses' = Tail(responses)
    /\ lost' = lost \cup {Head(responses)}
    /\ UNCHANGED <<msgId, sendRPC, current, requests, stubs, strings, server, client, broken, aborted>>
    /\ UNCHANGED <<sender, callbacks>>

(* ProcessRPCMysqlResponse finds an entry without its type ("tyep error"): *)
(* no callback, but the entry is erased, and its strings are deleted if    *)
(* the inserting thread has got as far as those.                           *)
ClientFindsHalf ==
    /\ running
    /\ client = None
    /\ responses # <<>> /\ HalfStored(Head(responses))
    /\ ChangeStubs(ClientThread)
    /\ responses' = Tail(responses)
    /\ lost' = lost \cup {Head(responses)}
    /\ strings' \in {strings, strings \ {Head(responses)}}
    /\ UNCHANGED <<msgId, sendRPC, current, requests, stubs, server, client, aborted>>
    /\ UNCHANGED <<sender, callbacks>>

(* The callback returns: delete the strings, erase the stub.  Of an entry  *)
(* that is still half stored the strings may stay.                         *)
CallbackReturn ==
    /\ running
    /\ client # None
    /\ sendRPC[ClientThread] = "out"
    /\ client' = None
    /\ ChangeStubs(ClientThread)
    /\ strings' \in {strings \ {client}} \cup (IF HalfStored(client) THEN {strings} ELSE {})
    /\ stubs' = stubs \ {client}
    /\ UNCHANGED <<msgId, sendRPC, current, requests, responses, server, aborted>>
    /\ UNCHANGED <<sender, callbacks, lost>>

(* Stop() of client or server sends a stop command to its own mailbox ...  *)
Stop == /\ running /\ MayStop
        /\ \/ /\ StopCommand \notin {requests[i] : i \in DOMAIN requests}
              /\ requests' = Append(requests, StopCommand)
              /\ UNCHANGED responses
           \/ /\ StopCommand \notin {responses[i] : i \in DOMAIN responses}
              /\ responses' = Append(responses, StopCommand)
              /\ UNCHANGED requests
        /\ UNCHANGED <<msgId, stubs, strings, broken, running, aborted>>
        /\ UNCHANGED threads
        /\ UNCHANGED history

(* ... and ProcessCommand, which has no case for it, asserts.              *)
Abort == /\ running' = FALSE
         /\ aborted' = TRUE
         /\ UNCHANGED <<msgId, requests, responses, stubs, strings, broken>>
         /\ UNCHANGED threads
         /\ UNCHANGED history

ServerStop == /\ running /\ server = None
              /\ requests # <<>> /\ Head(requests) = StopCommand
              /\ Abort

ClientStop == /\ running /\ client = None
              /\ responses # <<>> /\ Head(responses) = StopCommand
              /\ Abort

InSendRPC(c) == Send(c) \/ BeginStore(c) \/ EndStore(c)

ServerStep == ServerRecv \/ ServerRespond \/ ServerStop

ClientStep == ClientFinds \/ ClientMisses \/ ClientFindsHalf \/ CallbackReturn \/ ClientStop

Next == \/ ServerStep
        \/ ClientStep
        \/ \E c \in Callers : Enter(c) \/ InSendRPC(c)
        \/ Stop

Spec == Init /\ [][Next]_vars

(* Both threads run, a query ends and a call of SendRPC goes on; nothing   *)
(* makes a thread call it.                                                 *)
FairSpec == /\ Spec
            /\ WF_vars(ServerStep) /\ WF_vars(ClientStep)
            /\ \A c \in Callers : WF_vars(InSendRPC(c))
-----------------------------------------------------------------------------
TypeOK == /\ msgId \in 0..MaxRequests
          /\ sendRPC \in [Callers -> SendRPCStates]
          /\ current \in [Callers -> Ids \cup {None}]
          /\ requests \in Seq(Ids \cup {StopCommand})
          /\ responses \in Seq(Ids \cup {StopCommand})
          /\ stubs \subseteq Ids /\ strings \subseteq Ids /\ lost \subseteq Ids
          /\ server \in Ids \cup {None} /\ client \in Ids \cup {None}
          /\ broken \in BOOLEAN /\ running \in BOOLEAN
          /\ aborted \in BOOLEAN /\ raced \in BOOLEAN
          /\ sender \in [0..(MaxRequests - 1) -> Callers \cup {None}]
          /\ callbacks \in [0..(MaxRequests - 1) -> Nat]

(* No two requests under way have the same id, and a callback runs at most *)
(* once, not at all when its response was reported as an error.            *)
CallbackAtMostOnce ==
    \A i \in Ids : callbacks[i] + (IF i \in lost THEN 1 ELSE 0) <= 1

(* The strings of a request exist as long as the server may read them.     *)
StringsOutliveQuery ==
    /\ server # None => server \in strings
    /\ \A i \in DOMAIN requests : requests[i] # StopCommand => requests[i] \in strings

(* Between requests, client_stubs_ and the strings hold exactly what has   *)
(* been lost and nothing else, for ever, as long as no two threads have    *)
(* changed the map at once; a lookup that met an insertion does not matter.*)
(* And a request sent from a callback is never lost while one thread at a  *)
(* time uses the map, because the thread that stores its stub is the       *)
(* thread that looks for it.                                               *)
OnlyForeignRequestsLeak ==
    /\ (/\ running /\ ~broken /\ requests = <<>> /\ responses = <<>>
        /\ server = None /\ client = None
        /\ \A c \in Callers : sendRPC[c] = "out") => stubs = lost /\ strings = lost
    /\ ~raced => \A i \in lost : sender[i] # ClientThread

(* Every request comes to its end: its callback runs or its response is    *)
(* reported as an error, unless the process dies.                          *)
EveryRequestEnds ==
    \A i \in 0..(MaxRequests - 1) :
        msgId > i ~> \/ callbacks[i] > 0
                     \/ i \in lost
                     \/ ~running
=============================================================================
