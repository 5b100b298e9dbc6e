----------------------------- MODULE HelloServer -----------------------------
(***************************************************************************)
(* The server of src/workspace/hello: one thread, non-blocking sockets and *)
(* edge-triggered epoll, which reports a socket only when something has    *)
(* happened to it since the last report.  What is not read or accepted     *)
(* then waits for the next edge, which may never come.                     *)
(***************************************************************************)
EXTENDS Integers, Sequences, FiniteSets

CONSTANTS Conns,     \* connections
          Listener,  \* sfd
          MaxFds,    \* descriptors that are left to the process for connections
          MaxInput   \* bound: reads that a connection's data is good for

HelloServerAssumption ==
    /\ IsFiniteSet(Conns) /\ Listener \notin Conns
    /\ MaxFds \in Nat /\ MaxInput \in Nat

VARIABLES conn,     \* "none", "pending" in the backlog, "open", "closed"
          unread,   \* by connection: what there is to read
          peer,     \* the other end: "here", "left" or "reset"
          edges,    \* sockets that epoll has something to report of
          events,   \* sockets reported and not yet handled, as <<socket, kind>>
          failed    \* history: did accept() fail the last time, with connections left?

vars == <<conn, unread, peer, edges, events, failed>>

Watched == Conns \cup {Listener}
Open == {c \in Conns : conn[c] = "open"}
Pending == {c \in Conns : conn[c] = "pending"}
-----------------------------------------------------------------------------
(* Slips in this code that the properties below must notice.               *)

(* reads once and not until there is no more                               *)
ReadOnce(c) == [unread EXCEPT ![c] = IF @ > 0 THEN @ - 1 ELSE 0]
-----------------------------------------------------------------------------
Init == /\ conn = [c \in Conns |-> "none"]
        /\ unread = [c \in Conns |-> 0]
        /\ peer = [c \in Conns |-> "here"]
        /\ edges = {} /\ events = <<>> /\ failed = FALSE

(* epoll_wait(): the events, in any order, as they are now.                *)
Kind(s) == CASE s = Listener -> "in"
             [] s # Listener /\ peer[s] = "reset" -> "broken"
             [] s # Listener /\ peer[s] # "reset" /\ (unread[s] > 0 \/ peer[s] = "left") -> "in"
             [] OTHER -> "out"

Wait == /\ events = <<>> /\ edges # {}
        /\ \E order \in [1..Cardinality(edges) -> edges] :
              /\ \A i, j \in DOMAIN order : order[i] = order[j] => i = j
              /\ events' = [i \in DOMAIN order |-> <<order[i], Kind(order[i])>>]
        /\ edges' = {}
        /\ UNCHANGED <<conn, unread, peer, failed>>

(* EPOLLERR or EPOLLHUP: the close() is commented out, and an EPOLLIN of   *)
(* the same event is not looked at.  EPOLLOUT: there is nothing to write.  *)
Ignore == UNCHANGED <<conn, unread, edges, failed>>

(* accept() until there are no connections, or it fails: for want of       *)
(* descriptors, for another reason, or with an error of the connection that*)
(* it takes, which is gone then.  A socket that epoll_ctl() adds can be    *)
(* written at once, which is an edge.                                      *)
AcceptAll ==
    /\ \E accepted, gone \in SUBSET Pending :
          /\ Cardinality(accepted) + Cardinality(Open) <= MaxFds
          /\ accepted \cap gone = {} /\ Cardinality(gone) <= 1
          /\ conn' = [c \in Conns |-> CASE c \in accepted -> "open"
                                        [] c \in gone -> "closed"
                                        [] OTHER -> conn[c]]
          /\ edges' = edges \cup accepted
          /\ failed' = (accepted \cup gone # Pending)
    /\ UNCHANGED unread

(* read() until EAGAIN, the end of the data or an error.                   *)
ReadAll(c) == [unread EXCEPT ![c] = 0]

Read(c) == /\ unread' = ReadAll(c)
           /\ IF peer[c] # "here" /\ unread'[c] = 0
              THEN conn' = [conn EXCEPT ![c] = "closed"] /\ edges' = edges \ {c}
              ELSE UNCHANGED <<conn, edges>>
           /\ UNCHANGED failed

HandleEvent ==
    /\ events # <<>> /\ events' = Tail(events)
    /\ LET s == Head(events)[1] kind == Head(events)[2]
       IN  \/ s = Listener /\ AcceptAll
           \/ s # Listener /\ kind = "in" /\ Read(s)
           \/ kind \in {"broken", "out"} /\ Ignore
    /\ UNCHANGED peer
-----------------------------------------------------------------------------
(* The other ends.  What happens before the connection is accepted is      *)
(* reported when epoll_ctl() adds it.                                      *)
Edge(c) == edges' = IF conn[c] = "open" THEN edges \cup {c} ELSE edges

Connect(c) == /\ conn[c] = "none"
              /\ conn' = [conn EXCEPT ![c] = "pending"]
              /\ edges' = edges \cup {Listener}
              /\ UNCHANGED <<unread, peer, events, failed>>

PeerSends(c) == /\ conn[c] \in {"pending", "open"} /\ peer[c] = "here" /\ unread[c] < MaxInput
                /\ unread' = [unread EXCEPT ![c] = @ + 1]
                /\ Edge(c)
                /\ UNCHANGED <<conn, peer, events, failed>>

PeerLeaves(c) == /\ conn[c] \in {"pending", "open"} /\ peer[c] = "here"
                 /\ peer' \in {[peer EXCEPT ![c] = how] : how \in {"left", "reset"}}
                 /\ Edge(c)
                 /\ UNCHANGED <<conn, unread, events, failed>>

Next == Wait \/ HandleEvent \/ \E c \in Conns : Connect(c) \/ PeerSends(c) \/ PeerLeaves(c)

Spec == Init /\ [][Next]_vars
-----------------------------------------------------------------------------
(* When there is no event to come, nothing waits that only an event would  *)
(* fetch: every open connection is read to its end, and closed if the      *)
(* other end left in order, and connections stay in the backlog only when  *)
(* accept() has failed the last time (hello.cpp:300-353, 240-297).  One    *)
(* that was reset keeps its descriptor for ever (hello.cpp:237).           *)
NothingMissed ==
    edges = {} /\ events = <<>> =>
        /\ \A c \in Open : peer[c] = "reset" \/ (peer[c] = "here" /\ unread[c] = 0)
        /\ Pending # {} => failed
=============================================================================
