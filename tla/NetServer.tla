------------------------------ MODULE NetServer ------------------------------
(***************************************************************************)
(* ctx_t of SummerBreeze/SharedLib with everything it owns: the main       *)
(* thread and its listener, the I/O threads with their engines, and the    *)
(* logical thread that answers.  One user thread listens, connects and     *)
(* destroys the context.                                                   *)
(*                                                                         *)
(* The mailboxes and the queue of the logical thread are the queues that   *)
(* Mailbox and LogicalThread are shown to implement; an engine takes whole *)
(* packets, as in ZmqEngine.  What is followed here is the life of a       *)
(* connection and of its descriptor, which the system gives to another     *)
(* connection as soon as it is closed.                                     *)
(***************************************************************************)
EXTENDS Integers, Sequences, FiniteSets, Functions

CONSTANTS NThreads,    \* io_threads_ of the constructor
          Retired,     \* retired_fd
          Fds,         \* descriptors that the system can give
          SignalRoom,  \* signals that a mailbox's socket pair holds
          FdSetSize,   \* FD_SETSIZE, the room in the table of a select_t
          MaxConns,    \* bound on the connections, in and out
          MaxSessions  \* bound on those that are sessions of the user

ASSUME NetServerAssumption == /\ Retired \notin Fds
                              /\ NThreads \in Nat \ {0}
                              /\ SignalRoom \in Nat
                              /\ FdSetSize \in Nat /\ FdSetSize >= 2
                              /\ MaxConns \in Nat /\ MaxSessions \in Nat
                              /\ IsFiniteSet(Fds)

IoThreads == 1..NThreads
Main == 0
Logical == -1
Pollers == IoThreads \cup {Main}
Threads == Pollers \cup {Logical}
Conns == 1..MaxConns
Choosers == {"main", "user"}   \* who calls choose_io_thread()

VARIABLES listener,   \* socket of the listener: "unset", "failed" (not bound),
                      \* "invalid" (no socket), "bound" or "closed"
          registered, \* is it in the main thread's poller?
          down,       \* how far the destructor is, see TearDown
          thread,     \* of each thread: running, stopping, left or deleted
          mail,       \* its commands
          queue,      \* messages for the logical thread
          conn,       \* of each connection: stage, descriptor and I/O thread
          hand,       \* what each caller of choose_io_thread() has found
          session,    \* active_connect: name (a connection) to descriptor
          left,       \* open connections whose other end has left or broken
          asked,      \* connections with a packet taken and not answered
          patient,    \* do the other ends stay until they are answered?
          prompt,     \* history: no connection met one in flight, or ended
          stray,      \* history: what has gone to the wrong connection
          died        \* why the process has been aborted, if it has

vars == <<listener, registered, down, thread, mail, queue, conn, hand, session,
          left, asked, patient, prompt, stray, died>>

Stages == {"new",      \* not yet
           "backlog",  \* waiting for accept()
           "chosen",   \* open, its thread being chosen
           "mailed",   \* in the mailbox of that thread
           "engine",   \* plugged
           "gone"}     \* closed

Open == {c \in Conns : conn[c].stage \in {"chosen", "mailed", "engine"}}
InFlight == {c \in Conns : conn[c].stage \in {"chosen", "mailed"}}
Free == Fds \ {conn[c].fd : c \in Open}

(* Connections that have ended in poller t.  The entries of those of one   *)
(* pass stay in its table, retired, until the pass is over.                *)
Ended(t) == {c \in Conns : conn[c].stage = "gone" /\ conn[c].thread = t}

(* The mailbox counts, the connections on their way do not.                *)
Load(t) == 1 + Cardinality({c \in Conns : conn[c].stage = "engine" /\ conn[c].thread = t})

New == [stage |-> "new", fd |-> Retired, thread |-> Main]
Gone == [New EXCEPT !.stage = "gone"]

Idle == [conn |-> 0, next |-> 1, least |-> -1, result |-> 1]

-----------------------------------------------------------------------------
(* Slips in this code that the properties below must notice.               *)

(* deletes the I/O threads before the main thread has stopped              *)
TearDownIoFirst == [t \in IoThreads |-> <<"stop", t>>]
                   \o [t \in IoThreads |-> <<"delete", t>>]
                   \o <<<<"stop", Main>>, <<"delete", Main>>, <<"close", Main>>>>
                   \o <<<<"stop", Logical>>, <<"delete", Logical>>>>

(* waits for the I/O threads before it has told them to stop               *)
TearDownJoinsFirst == <<<<"stop", Main>>, <<"delete", Main>>, <<"close", Main>>>>
                      \o [t \in IoThreads |-> <<"delete", t>>]
                      \o <<<<"stop", Logical>>, <<"delete", Logical>>>>

(* leaves the session of the message as the peer has written it            *)
SessionUnset(c) == CHOOSE f \in Fds : f # conn[c].fd

(* load > min_load                                                         *)
BetterMost(h) == h.least = -1 \/ Load(h.next) > h.least

(* registers the listener without set_pollin()                             *)
RegisterUnpolled == UNCHANGED registered
-----------------------------------------------------------------------------
(* What the destructor does, in this order.                                *)
TearDown == <<<<"stop", Main>>, <<"delete", Main>>, <<"close", Main>>>>
            \o [t \in IoThreads |-> <<"stop", t>>]
            \o [t \in IoThreads |-> <<"delete", t>>]
            \o <<<<"stop", Logical>>, <<"delete", Logical>>>>

Using == down = 1 /\ hand["user"] = Idle /\ died = "no"
Done == down > Len(TearDown)
(* The constructor has started the threads and filled the slots.           *)
Init == /\ listener = "unset"
        /\ registered = FALSE
        /\ down = 1
        /\ thread = [t \in Threads |-> "running"]
        /\ mail = [t \in Pollers |-> <<>>]
        /\ queue = <<>>
        /\ conn = [c \in Conns |-> New]
        /\ hand = [h \in Choosers |-> Idle]
        /\ session = <<>>
        /\ left = {}
        /\ asked = {}
        /\ patient \in BOOLEAN
        /\ prompt = TRUE
        /\ stray = {}
        /\ died = "no"

(* send_command(): through the slot into the mailbox of a thread, which    *)
(* had better exist.  A mailbox has a signal for each of its commands, and *)
(* an assertion fails when there is no room for one more.                  *)
SendCommand(t, cmd) ==
    /\ mail' = [mail EXCEPT ![t] = Append(@, cmd)]
    /\ died' = IF thread[t] = "deleted" THEN "deleted"
               ELSE IF Len(mail[t]) >= SignalRoom THEN "fullSignaler" ELSE died

SendRegisterAccept == SendCommand(Main, [type |-> "register_accept", conn |-> 0])

SendStop(t) == SendCommand(t, [type |-> "stop", conn |-> 0])

(* The socket of the listener after set_address(): bound and listening, a  *)
(* socket that bind() or listen() has refused, or none.                    *)
SetAddress == {"bound", "failed", "invalid"}

(* The first that the user does: set_address(), which says 0 whatever has  *)
(* become of the socket, and process_plug().                               *)
Listen == /\ Using /\ listener = "unset"
          /\ \A c \in Conns : conn[c].stage = "new"
          /\ listener' \in SetAddress
          /\ SendRegisterAccept
          /\ UNCHANGED <<registered, down, thread, queue, conn, hand, session>>
          /\ UNCHANGED <<left, asked, patient, prompt, stray>>

(* A descriptor for connection c, which somebody then finds a thread for.  *)
Opened(h, c) ==
    /\ \E f \in Free : conn' = [conn EXCEPT ![c] = [stage |-> "chosen", fd |-> f, thread |-> Main]]
    /\ hand' = [hand EXCEPT ![h] = [Idle EXCEPT !.conn = c]]
    /\ prompt' = (prompt /\ InFlight = {})

FirstNew(c) == conn[c].stage = "new" /\ \A d \in Conns : d < c => conn[d].stage # "new"

(* connect_address(): the connection is made, ...                          *)
Connect(c) ==
    /\ Using /\ FirstNew(c) /\ Cardinality(DOMAIN session) < MaxSessions
    /\ Opened("user", c)
    /\ session' = [s \in DOMAIN session \cup {c} |-> IF s = c THEN conn'[c].fd ELSE session[s]]
    /\ UNCHANGED <<listener, registered, down, thread, mail, queue>>
    /\ UNCHANGED <<left, asked, patient, stray, died>>

(* ... or refused, when close() does away with the socket; but without a   *)
(* socket the assertion in close() fails.                                  *)
ConnectFails(c) ==
    /\ Using /\ FirstNew(c) /\ Cardinality(DOMAIN session) < MaxSessions
    /\ IF Free = {} THEN died' = "noSocket" /\ UNCHANGED conn
       ELSE conn' = [conn EXCEPT ![c] = Gone] /\ UNCHANGED died
    /\ UNCHANGED <<listener, registered, down, thread, mail, queue, hand, session>>
    /\ UNCHANGED <<left, asked, patient, prompt, stray>>

(* The user sends to a session by its name, as TestNetContext does.        *)
SendToSession(c) ==
    /\ Using /\ c \in DOMAIN session
    /\ stray' = IF \E d \in Open \ {c} : conn[d].fd = session[c]
                THEN stray \cup {"message"} ELSE stray
    /\ UNCHANGED <<listener, registered, down, thread, mail, queue, conn, hand, session>>
    /\ UNCHANGED <<left, asked, patient, prompt, died>>

(* choose_io_thread() looks at one thread after the other ...              *)
Better(h) == h.least = -1 \/ Load(h.next) < h.least

Choose(h) ==
    /\ hand[h].conn # 0 /\ hand[h].next \in IoThreads
    /\ hand' = [hand EXCEPT ![h] =
                   [conn |-> @.conn, next |-> @.next + 1,
                    least |-> IF Better(@) THEN Load(@.next) ELSE @.least,
                    result |-> IF Better(@) THEN @.next ELSE @.result]]
    /\ UNCHANGED <<listener, registered, down, thread, mail, queue, conn, session>>
    /\ UNCHANGED <<left, asked, patient, prompt, stray, died>>

(* ... and the connection is sent to the one it has found.                 *)
SendNewConnections(h) ==
    /\ hand[h].conn # 0 /\ hand[h].next \notin IoThreads
    /\ LET t == hand[h].result c == hand[h].conn
       IN  /\ SendCommand(t, [type |-> "new_connections", conn |-> c])
           /\ conn' = [conn EXCEPT ![c] = [stage |-> "mailed", fd |-> @.fd, thread |-> t]]
    /\ hand' = [hand EXCEPT ![h] = Idle]
    /\ UNCHANGED <<listener, registered, down, thread, queue, session>>
    /\ UNCHANGED <<left, asked, patient, prompt, stray>>

(* add_fd() and set_pollin() for the listener, the second descriptor.      *)
Register == registered' = TRUE

(* The main thread receives a command.  select() on an invalid descriptor  *)
(* fails, and an assertion with it.                                        *)
MainReceives ==
    /\ thread[Main] \in {"running", "stopping"} /\ hand["main"] = Idle
    /\ mail[Main] # <<>>
    /\ mail' = [mail EXCEPT ![Main] = Tail(@)]
    /\ \/ /\ Head(mail[Main]).type = "register_accept"
          /\ Register
          /\ died' = IF listener = "invalid" THEN "noSocket" ELSE died
          /\ UNCHANGED thread
       \/ /\ Head(mail[Main]).type = "stop"
          /\ thread' = [thread EXCEPT ![Main] = "stopping"]
          /\ UNCHANGED <<registered, died>>
    /\ UNCHANGED <<listener, down, queue, conn, hand, session>>
    /\ UNCHANGED <<left, asked, patient, prompt, stray>>

(* in_event() of the listener accepts a connection; the pass in which the  *)
(* main thread stops may still call it.  Without a descriptor for it an    *)
(* assertion fails.                                                        *)
Accept(c) ==
    /\ thread[Main] \in {"running", "stopping"} /\ hand["main"] = Idle
    /\ registered /\ conn[c].stage = "backlog"
    /\ \A d \in Conns : conn[d].stage = "backlog" => c <= d
    /\ IF Free = {} THEN died' = "noSocket" /\ UNCHANGED <<conn, hand, prompt>>
       ELSE Opened("main", c) /\ UNCHANGED died
    /\ UNCHANGED <<listener, registered, down, thread, mail, queue, session>>
    /\ UNCHANGED <<left, asked, patient, stray>>

(* The loop of a stopped poller ends.  Nobody sends to a thread after its  *)
(* stop, so there is nothing left to receive.                              *)
Leave(t) ==
    /\ \/ t \in Pollers /\ thread[t] = "stopping" /\ mail[t] = <<>>
       \/ t = Logical /\ thread[t] = "stopping"
    /\ t = Main => hand["main"] = Idle
    /\ thread' = [thread EXCEPT ![t] = "left"]
    /\ UNCHANGED <<listener, registered, down, mail, queue, conn, hand, session>>
    /\ UNCHANGED <<left, asked, patient, prompt, stray, died>>

(* Engines unplug, delete themselves and close their sockets.              *)
Close(engines) == /\ conn' = [c \in Conns |-> IF c \in engines
                                              THEN [Gone EXCEPT !.thread = conn[c].thread]
                                              ELSE conn[c]]
                  /\ left' = left \ engines
                  /\ asked' = asked \ engines
                  /\ prompt' = (prompt /\ engines = {})

(* plug() adds a descriptor to the table of the select_t, where retired    *)
(* entries count, and an assertion fails when there are too many.          *)
AddFd(t) == \E retired \in 0..Cardinality(Ended(t)) :
               died' = IF Load(t) + retired + 1 > FdSetSize THEN "fullTable" ELSE died

(* An I/O thread receives a command: it plugs an engine, or terminates     *)
(* them all and goes on to receive what is left.                           *)
IoReceives(t) ==
    /\ thread[t] \in {"running", "stopping"}
    /\ mail[t] # <<>>
    /\ mail' = [mail EXCEPT ![t] = Tail(@)]
    /\ \/ /\ Head(mail[t]).type = "new_connections"
          /\ conn' = [conn EXCEPT ![Head(mail[t]).conn].stage = "engine"]
          /\ AddFd(t)
          /\ UNCHANGED <<thread, left, asked, prompt>>
       \/ /\ Head(mail[t]).type = "stop"
          /\ Close({c \in Conns : conn[c].stage = "engine" /\ conn[c].thread = t})
          /\ thread' = [thread EXCEPT ![t] = "stopping"]
          /\ UNCHANGED died
    /\ UNCHANGED <<listener, registered, down, queue, hand, session>>
    /\ UNCHANGED <<patient, stray>>

EngineRuns(c) == conn[c].stage = "engine" /\ thread[conn[c].thread] = "running"

(* head.session, by which the message will be answered.                    *)
Session(c) == conn[c].fd

(* An engine takes a registered packet and pushes its message.             *)
TakePacket(c) ==
    /\ EngineRuns(c) /\ c \notin left \cup asked
    /\ asked' = asked \cup {c}
    /\ queue' = Append(queue, [conn |-> c, session |-> Session(c)])
    /\ died' = IF thread[Logical] = "deleted" THEN "deleted" ELSE died
    /\ UNCHANGED <<listener, registered, down, thread, mail, conn, hand, session>>
    /\ UNCHANGED <<left, patient, prompt, stray>>

(* error(): the other end has left or has sent a packet nobody knows.      *)
EngineError(c) ==
    /\ EngineRuns(c)
    /\ c \in left \/ ~patient
    /\ Close({c})
    /\ UNCHANGED <<listener, registered, down, thread, mail, queue, hand, session>>
    /\ UNCHANGED <<patient, stray, died>>

(* The logical thread runs protocol_test_t: the answer goes to whoever has *)
(* the descriptor now, and if nobody has it send() fails unnoticed.        *)
Answer ==
    /\ thread[Logical] \in {"running", "stopping"} /\ queue # <<>>
    /\ queue' = Tail(queue)
    /\ LET msg == Head(queue)
           reader == {d \in Open : conn[d].fd = msg.session}
       IN  /\ asked' = asked \ {msg.conn}
           /\ stray' = IF reader \subseteq {msg.conn} THEN stray ELSE stray \cup {"answer"}
    /\ UNCHANGED <<listener, registered, down, thread, mail, conn, hand, session>>
    /\ UNCHANGED <<left, patient, prompt, died>>

(* A peer connects to the listener, ...                                    *)
PeerConnects(c) ==
    /\ listener = "bound" /\ FirstNew(c)
    /\ conn' = [conn EXCEPT ![c].stage = "backlog"]
    /\ UNCHANGED <<listener, registered, down, thread, mail, queue, hand, session>>
    /\ UNCHANGED <<left, asked, patient, prompt, stray, died>>

(* ... and the other end of a connection leaves.                           *)
PeerLeaves(c) ==
    /\ c \in Open \ left
    /\ patient => c \notin asked
    /\ left' = left \cup {c}
    /\ UNCHANGED <<listener, registered, down, thread, mail, queue, conn, hand, session>>
    /\ UNCHANGED <<asked, patient, prompt, stray, died>>

(* The destructor of a thread's poller waits for the thread.               *)
Join(t) == thread[t] = "left" /\ thread' = [thread EXCEPT ![t] = "deleted"]

(* One step of the destructor.                                             *)
Destroy ==
    /\ down \in DOMAIN TearDown
    /\ hand["user"] = Idle
    /\ down' = down + 1
    /\ LET what == TearDown[down][1] t == TearDown[down][2]
       IN  \/ /\ what = "stop" /\ t \in Pollers
              /\ SendStop(t)
              /\ UNCHANGED <<listener, thread, conn>>
           \/ /\ what = "stop" /\ t = Logical
              /\ thread' = [thread EXCEPT ![t] = "stopping"]
              /\ UNCHANGED <<listener, mail, conn, died>>
           \/ /\ what = "delete" /\ Join(t)
              /\ UNCHANGED <<listener, mail, conn, died>>
           \/ /\ what = "close"
              /\ listener' = "closed"
              /\ conn' = [c \in Conns |-> IF conn[c].stage = "backlog" THEN Gone ELSE conn[c]]
              /\ UNCHANGED <<thread, mail, died>>
    /\ UNCHANGED <<registered, queue, hand, session>>
    /\ UNCHANGED <<left, asked, patient, prompt, stray>>

MainStep == \/ MainReceives \/ Choose("main") \/ SendNewConnections("main")
            \/ \E c \in Conns : Accept(c)
            \/ Leave(Main)

IoStep(t) == \/ IoReceives(t) \/ Leave(t)
             \/ \E c \in Conns : conn[c].thread = t /\ EngineError(c)

UserStep == \/ Listen \/ Choose("user") \/ SendNewConnections("user")
            \/ \E c \in Conns : Connect(c) \/ ConnectFails(c) \/ SendToSession(c)
            \/ Destroy

LogicalStep == Answer \/ Leave(Logical)

Peer == \E c \in Conns : PeerConnects(c) \/ PeerLeaves(c) \/ TakePacket(c)

Next == died = "no" /\ (MainStep \/ UserStep \/ LogicalStep \/ Peer \/ \E t \in IoThreads : IoStep(t))

Spec == Init /\ [][Next]_vars

(* The threads run.  Nobody makes the user listen, connect or destroy, but *)
(* a destructor that has begun goes on; peers need not do anything.        *)
FairSpec == /\ Spec
            /\ WF_vars(died = "no" /\ MainStep)
            /\ \A t \in IoThreads : WF_vars(died = "no" /\ (IoReceives(t) \/ Leave(t)))
            /\ WF_vars(died = "no" /\ LogicalStep)
            /\ WF_vars(died = "no" /\ Leave(Logical))
            /\ WF_vars(died = "no" /\ (\/ Choose("user") \/ SendNewConnections("user")
                                       \/ down > 1 /\ Destroy))
-----------------------------------------------------------------------------
TypeOK == /\ listener \in SetAddress \cup {"unset", "closed"}
          /\ registered \in BOOLEAN
          /\ down \in 1..(Len(TearDown) + 1)
          /\ thread \in [Threads -> {"running", "stopping", "left", "deleted"}]
          /\ mail \in [Pollers -> Seq([type : {"register_accept", "new_connections", "stop"},
                                       conn : 0..MaxConns])]
          /\ queue \in Seq([conn : Conns, session : Fds])
          /\ conn \in [Conns -> [stage : Stages, fd : Fds \cup {Retired}, thread : Pollers]]
          /\ DOMAIN hand = Choosers
          /\ DOMAIN session \subseteq Conns /\ Range(session) \subseteq Fds
          /\ left \subseteq Open /\ asked \subseteq Open
          /\ patient \in BOOLEAN /\ prompt \in BOOLEAN
          /\ stray \subseteq {"answer", "message"}
          /\ died \in {"no", "noSocket", "fullSignaler", "fullTable", "deleted"}

(* Whatever the threads are doing when the destructor runs, no command and *)
(* no message goes to a thread that has been deleted.                      *)
NothingSentToDeleted == died # "deleted"

(* A descriptor that was noted earlier is used for every answer and every  *)
(* message of the user, and it may be another connection's by then.  But   *)
(* if the peers stay until they are answered no answer goes astray, and as *)
(* long as no session has been closed no message of the user does.         *)
NothingToStrangers ==
    /\ patient => "answer" \notin stray
    /\ (\A c \in DOMAIN session : conn[c].stage # "gone") => "message" \notin stray

(* As long as each connection has been plugged before the next one comes   *)
(* and none has ended, the loads of two I/O threads differ by one at most. *)
BalancedWhenPrompt ==
    prompt => \A t, u \in IoThreads : Load(t) <= Load(u) + 1

(* A connection to the listener is accepted and plugged, unless   *)
(* it ends, the context is destroyed or the process dies.                  *)
ConnectionsGetServed ==
    \A c \in Conns :
        conn[c].stage = "backlog"
            ~> conn[c].stage \in {"engine", "gone"} \/ down > 1 \/ died # "no"

(* A destructor that has begun comes to its end, with every thread and     *)
(* every socket gone, unless the process dies.                             *)
DestructorCleansUp ==
    down > 1 ~> \/ died # "no"
                \/ /\ Done /\ Open = {}
                   /\ \A c \in Conns : conn[c].stage # "backlog"
                   /\ \A t \in Threads : thread[t] = "deleted"
=============================================================================
