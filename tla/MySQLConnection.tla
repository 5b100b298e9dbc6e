--------------------------- MODULE MySQLConnection ---------------------------
(***************************************************************************)
(* MySQLConnection of src/workspace (SharedLib has the same code): a query *)
(* that is tried again after a reconnect when the connection was lost.     *)
(* The MySQL client library and the server behind it are the environment:  *)
(* every call into the library may turn out any way.                       *)
(***************************************************************************)
EXTENDS Naturals

CONSTANTS Limit,         \* 10: CanTryReconnect() is false beyond it
          LostErrnos,    \* 2006, 2008, 2013, 2048, 2055
          OtherErrnos,   \* other errors of a query
          MaxCalls       \* bound on the calls of Query()

ASSUME MySQLConnectionAssumption ==
    /\ Limit \in Nat /\ MaxCalls \in Nat
    /\ LostErrnos \cap OtherErrnos = {}

VARIABLES mysql,             \* mysql_: "undefined" until it is assigned
          reConnectCount,    \* re_connect_count_
          at,                \* where the caller is
          errNo,             \* argument of HandleMySQLErrno
          returned,          \* what the last Query() returned
          calls              \* number of calls of Query() so far

vars == <<mysql, reConnectCount, at, errNo, returned, calls>>

Places == {"connect",    \* in the first Connect()
           "out",        \* outside
           "query",      \* in Query(), about to look at mysql_
           "handle",     \* in HandleMySQLErrno
           "crashed"}

Handles == {"undefined", "null", "open"}
-----------------------------------------------------------------------------
(* Slips in this code that the properties below must notice.               *)

(* asks mysql_errno() again after a failed reconnect and counts nothing    *)
ReconnectFailsAsksAgain ==
    /\ at = "handle" /\ reConnectCount < Limit /\ errNo \in LostErrnos
    /\ mysql' = "null"
    /\ errNo' \in {0} \cup LostErrnos \cup OtherErrnos
    /\ UNCHANGED <<reConnectCount, at, returned, calls>>
-----------------------------------------------------------------------------
Init == /\ mysql = "undefined"
        /\ reConnectCount = 0
        /\ at = "connect"
        /\ errNo = 0
        /\ returned = FALSE
        /\ calls = 0

(* The Connect() of MySQLRPCServer's constructor, whose result is printed  *)
(* only.  When mysql_init() fails, mysql_ is not assigned.                 *)
FirstConnect == /\ at = "connect"
                /\ mysql' \in Handles
                /\ at' = "out"
                /\ UNCHANGED <<reConnectCount, errNo, returned, calls>>

CallQuery == /\ at = "out" /\ calls < MaxCalls
             /\ calls' = calls + 1
             /\ at' = "query"
             /\ UNCHANGED <<mysql, reConnectCount, errNo, returned>>

(* NULL == mysql_; an undefined pointer may be NULL as well.               *)
QueryWithoutConnection ==
    /\ at = "query" /\ mysql \in {"null", "undefined"}
    /\ returned' = FALSE
    /\ at' = "out"
    /\ UNCHANGED <<mysql, reConnectCount, errNo, calls>>

(* ... or anything else.                                                   *)
QueryCrashes == /\ at = "query" /\ mysql = "undefined"
                /\ at' = "crashed"
                /\ UNCHANGED <<mysql, reConnectCount, errNo, returned, calls>>

(* mysql_query() succeeds; mysql_store_result() need not.                  *)
QuerySucceeds == /\ at = "query" /\ mysql = "open"
                 /\ returned' \in BOOLEAN
                 /\ at' = "out"
                 /\ UNCHANGED <<mysql, reConnectCount, errNo, calls>>

(* mysql_query() fails.                                                    *)
QueryFails == /\ at = "query" /\ mysql = "open"
              /\ errNo' \in LostErrnos \cup OtherErrnos
              /\ at' = "handle"
              /\ UNCHANGED <<mysql, reConnectCount, returned, calls>>

(* HandleMySQLErrno counts the error and finds the limit exceeded: Query() *)
(* returns false.                                                          *)
GiveUp == /\ at = "handle" /\ reConnectCount >= Limit
          /\ reConnectCount' = reConnectCount + 1
          /\ returned' = FALSE
          /\ at' = "out"
          /\ UNCHANGED <<mysql, errNo, calls>>

(* An error that is none of a lost connection is counted all the same.     *)
Unhandled == /\ at = "handle" /\ reConnectCount < Limit /\ errNo \notin LostErrnos
             /\ reConnectCount' = reConnectCount + 1
             /\ returned' = FALSE
             /\ at' = "out"
             /\ UNCHANGED <<mysql, errNo, calls>>

(* Disconnect() and Connect(): the query is tried again.                   *)
Reconnect == /\ at = "handle" /\ reConnectCount < Limit /\ errNo \in LostErrnos
             /\ mysql' = "open"
             /\ reConnectCount' = 0
             /\ at' = "query"
             /\ UNCHANGED <<errNo, returned, calls>>

(* Connect() fails and mysql_ is NULL.  What mysql_errno() makes of a null *)
(* handle is handled as the next error, after a sleep.                     *)
ReconnectFails == /\ at = "handle" /\ reConnectCount < Limit /\ errNo \in LostErrnos
                  /\ mysql' = "null"
                  /\ reConnectCount' = reConnectCount + 1
                  /\ errNo' \in {0} \cup LostErrnos \cup OtherErrnos
                  /\ UNCHANGED <<at, returned, calls>>

Step == \/ FirstConnect
        \/ QueryWithoutConnection \/ QueryCrashes \/ QuerySucceeds \/ QueryFails
        \/ GiveUp \/ Unhandled \/ Reconnect \/ ReconnectFails

Next == Step \/ CallQuery

Spec == Init /\ [][Next]_vars

(* A call that has begun goes on.                                          *)
FairSpec == Spec /\ WF_vars(Step)
-----------------------------------------------------------------------------
TypeOK == /\ mysql \in Handles
          /\ reConnectCount \in 0..(Limit + MaxCalls)
          /\ at \in Places
          /\ errNo \in {0} \cup LostErrnos \cup OtherErrnos
          /\ returned \in BOOLEAN
          /\ calls \in 0..MaxCalls

(* A connection that a call has given up is never opened again, whatever   *)
(* state its counter is in.                                                *)
GivenUpForGood == [](at = "out" /\ mysql = "null" => [](mysql = "null"))

(* A call of Query() returns, or it reconnects again and again; but once   *)
(* given up a connection stays so.                                         *)
QueryReturnsOrReconnects ==
    /\ []<>(at \in {"out", "crashed"}) \/ []<>(at = "query")
    /\ GivenUpForGood
=============================================================================
