---------------------------- MODULE SelectPoller ----------------------------
(***************************************************************************)
(* select_t of SummerBreeze/SharedLib as the poller of one I/O thread, and *)
(* what the handlers that it calls do to it.  The loop walks the vector of *)
(* descriptors by index while handlers append to it and retire entries of  *)
(* it, and the system gives the number of a closed socket to the next      *)
(* connection.                                                             *)
(*                                                                         *)
(* Left out, because this build never uses it: maxfd (ignored by Winsock), *)
(* the set for output (nobody calls set_pollout()) and timers (nobody      *)
(* calls add_timer()).                                                     *)
(***************************************************************************)
EXTENDS Naturals, Sequences, FiniteSets, Functions

CONSTANTS Sockets,     \* descriptors that connections can have
          MailboxFd,   \* descriptor of the I/O thread's mailbox
          Retired,     \* retired_fd
          SetSize,     \* FD_SETSIZE, 64 on Windows
          MaxEngines   \* bound on the connections

ASSUME SelectPollerAssumption ==
    /\ MailboxFd \notin Sockets /\ Retired \notin Sockets \cup {MailboxFd}
    /\ SetSize \in Nat \ {0}
    /\ MaxEngines \in Nat

VARIABLES fds,        \* the vector: descriptor and i_poll_events of each entry
          source,     \* source_set_in; source_set_err is the same
          readfds,    \* what select() has left in the set for input ...
          exceptfds,  \* ... and for exceptions
          stopping,   \* set by stop()
          load,       \* what adjust_load() has made of it
          at,         \* where the thread is, see Places
          pos,        \* the index i of the dispatch loop
          current,    \* the object whose in_event() runs
          plugging,   \* is that in_event() called by plug()?
          engines,    \* engine_map: from plugged engines to their sockets
          plugged,    \* number of engines plugged so far
          readable,   \* descriptors with something to read
          pending     \* history: <<object, place>> reported and not yet served

vars == <<fds, source, readfds, exceptfds, stopping, load, at, pos, current,
          plugging, engines, plugged, readable, pending>>

table == <<fds, source, readfds, exceptfds, load, pending>>
place == <<at, pos, current, plugging>>
objects == <<engines, plugged>>

Places == {"top",        \* about to test stopping
           "err",        \* about to test fds[pos] in exceptfds
           "errEvent",   \* in the in_event() that follows from it
           "in",         \* about to test fds[pos] in readfds
           "inEvent",    \* in the in_event() that follows from it
           "exited",
           "aborted"}

Mailbox == 0   \* the io_thread_t; engines are numbered from 1

Descriptors == Sockets \cup {MailboxFd}

Open == Range(engines) \cup {MailboxFd}

(* The descriptor of entry i.                                              *)
Fd(i) == IF i \in DOMAIN fds THEN fds[i].fd ELSE Retired

InEvent == at \in {"errEvent", "inEvent"}
-----------------------------------------------------------------------------
(* Slips in this code that the properties below must notice.               *)

(* takes the entry out of the vector at once                               *)
RmFdsErases(F) ==
    /\ fds' = SelectSeq(fds, LAMBDA e : e.fd \notin F)
    /\ source' = source \ F
    /\ readfds' = readfds \ F
    /\ exceptfds' = exceptfds \ F
    /\ load' = load - Cardinality(F)
    /\ pending' = {p \in pending : \E i \in DOMAIN fds : fds[i].sink = p[1] /\ fds[i].fd \notin F}

(* deletes the engine without unplug()                                     *)
EngineErrorNoUnplug ==
    /\ InEvent /\ current # Mailbox
    /\ engines' = Restrict(engines, DOMAIN engines \ {current})
    /\ readable' = readable \ {engines[current]}
    /\ current' = Mailbox /\ plugging' = FALSE
    /\ IF plugging THEN UNCHANGED <<at, pos>>
       ELSE IF at = "errEvent" THEN at' = "in" /\ pos' = pos
       ELSE at' = "err" /\ pos' = pos + 1
    /\ UNCHANGED <<table, stopping, plugged>>

(* does not call set_pollin()                                              *)
AddFdUnpolled(f, sink) ==
    /\ fds' = Append(fds, [fd |-> f, sink |-> sink])
    /\ load' = load + 1
    /\ UNCHANGED <<source, readfds, exceptfds, pending>>
-----------------------------------------------------------------------------
(* The constructor of io_thread_t has added the mailbox.                   *)
Init == /\ fds = <<[fd |-> MailboxFd, sink |-> Mailbox]>>
        /\ source = {MailboxFd}
        /\ readfds = {}
        /\ exceptfds = {}
        /\ stopping = FALSE
        /\ load = 1
        /\ at = "top"
        /\ pos = 1
        /\ current = Mailbox
        /\ plugging = FALSE
        /\ engines = <<>>
        /\ plugged = 0
        /\ readable = {}
        /\ pending = {}

(* add_fd() and set_pollin().                                              *)
AddFd(f, sink) == /\ fds' = Append(fds, [fd |-> f, sink |-> sink])
                  /\ source' = source \cup {f}
                  /\ load' = load + 1
                  /\ UNCHANGED <<readfds, exceptfds, pending>>

(* rm_fd() for each descriptor of F: retire the entry, forget the events.  *)
RmFds(F) ==
    /\ fds' = [i \in DOMAIN fds |->
                  IF fds[i].fd \in F THEN [fds[i] EXCEPT !.fd = Retired] ELSE fds[i]]
    /\ source' = source \ F
    /\ readfds' = readfds \ F
    /\ exceptfds' = exceptfds \ F
    /\ load' = load - Cardinality(F)
    /\ pending' = {p \in pending : \E i \in DOMAIN fds : fds[i].sink = p[1] /\ fds[i].fd \notin F}

(* Something arrives.                                                      *)
Arrive(f) == /\ f \in Open \ readable
             /\ readable' = readable \cup {f}
             /\ UNCHANGED <<table, place, stopping, objects>>

LoopEnds == /\ at = "top" /\ stopping
            /\ at' = "exited"
            /\ UNCHANGED <<table, pos, current, plugging, stopping, objects, readable>>

(* Copy the sets and wait until select() finds something in them.          *)
Select == /\ at = "top" /\ ~stopping
          /\ readfds' = source \cap readable
          /\ exceptfds' \in SUBSET source
          /\ readfds' \cup exceptfds' # {}
          /\ pending' = {<<fds[i].sink, "inEvent">> : i \in {j \in DOMAIN fds : fds[j].fd \in readfds'}}
                 \cup {<<fds[i].sink, "errEvent">> : i \in {j \in DOMAIN fds : fds[j].fd \in exceptfds'}}
          /\ at' = "err" /\ pos' = 1
          /\ UNCHANGED <<fds, source, stopping, load, current, plugging, readable>>
          /\ UNCHANGED objects

(* fds[i].events->in_event(), to which the thread is at event.             *)
CallInEvent(event) == /\ current' = fds[pos].sink
                      /\ pending' = pending \ {<<fds[pos].sink, event>>}
                      /\ at' = event
                      /\ UNCHANGED pos

NextEntry == /\ at' = "err" /\ pos' = pos + 1
             /\ UNCHANGED <<current, pending>>

TestErr == /\ at = "err" /\ pos <= Len(fds)
           /\ \/ Fd(pos) = Retired /\ NextEntry
              \/ Fd(pos) \in exceptfds /\ CallInEvent("errEvent")
              \/ /\ Fd(pos) # Retired /\ Fd(pos) \notin exceptfds
                 /\ at' = "in" /\ UNCHANGED <<pos, current, pending>>
           /\ UNCHANGED <<fds, source, readfds, exceptfds, load>>
           /\ UNCHANGED <<stopping, plugging, objects, readable>>

TestIn == /\ at = "in"
          /\ \/ Fd(pos) \in readfds /\ CallInEvent("inEvent")
             \/ Fd(pos) \notin readfds /\ NextEntry
          /\ UNCHANGED <<fds, source, readfds, exceptfds, load>>
          /\ UNCHANGED <<stopping, plugging, objects, readable>>

(* The entries that are not retired.                                       *)
Live == {i \in DOMAIN fds : fds[i].fd # Retired}

(* The end of the pass: erase the retired entries.                         *)
EndPass == /\ at = "err" /\ pos > Len(fds)
           /\ \E kept \in [1..Cardinality(Live) -> Live] :
                 /\ \A m, n \in DOMAIN kept : m < n => kept[m] < kept[n]
                 /\ fds' = [n \in DOMAIN kept |-> fds[kept[n]]]
           /\ at' = "top" /\ pos' = 1
           /\ UNCHANGED <<source, readfds, exceptfds, load, pending>>
           /\ UNCHANGED <<stopping, current, plugging, objects, readable>>

(* in_event() returns, to plug() or to the loop.                           *)
Return == /\ current' = Mailbox /\ plugging' = FALSE
          /\ IF plugging THEN UNCHANGED <<at, pos>>
             ELSE IF at = "errEvent" THEN at' = "in" /\ pos' = pos
             ELSE at' = "err" /\ pos' = pos + 1

(* An engine has read everything there is, the mailbox has received it.    *)
InEventReturns ==
    /\ InEvent
    /\ readable' = readable \ {IF current = Mailbox THEN MailboxFd ELSE engines[current]}
    /\ Return
    /\ UNCHANGED <<table, stopping, objects>>

(* error(): the engine unplugs, deletes itself and closes its socket.      *)
EngineError ==
    /\ InEvent /\ current # Mailbox
    /\ RmFds({engines[current]})
    /\ engines' = Restrict(engines, DOMAIN engines \ {current})
    /\ readable' = readable \ {engines[current]}
    /\ Return
    /\ UNCHANGED <<stopping, plugged>>

(* process_new_connections: plug() an engine for a socket that the system  *)
(* has reused or not; plug() calls in_event().  ~ctx_t has stopped those   *)
(* who send this command before it sends the stop.                         *)
NewConnection(f) ==
    /\ InEvent /\ current = Mailbox /\ MailboxFd \in readable
    /\ ~stopping
    /\ plugged < MaxEngines
    /\ f \notin Open
    /\ AddFd(f, plugged + 1)
    /\ IF Len(fds') <= SetSize
       THEN /\ engines' = [e \in DOMAIN engines \cup {plugged + 1} |->
                              IF e = plugged + 1 THEN f ELSE engines[e]]
            /\ current' = plugged + 1 /\ plugging' = TRUE
            /\ UNCHANGED at
       ELSE /\ at' = "aborted"
            /\ UNCHANGED <<engines, current, plugging>>
    /\ plugged' = plugged + 1
    /\ UNCHANGED <<pos, stopping, readable>>

(* process_stop: terminate every engine, remove the mailbox, stop().       *)
ProcessStop ==
    /\ InEvent /\ current = Mailbox /\ MailboxFd \in readable
    /\ ~stopping
    /\ RmFds(Open)
    /\ engines' = <<>>
    /\ readable' = readable \cap {MailboxFd}
    /\ stopping' = TRUE
    /\ UNCHANGED <<place, plugged>>

Loop == LoopEnds \/ Select \/ TestErr \/ TestIn \/ EndPass

Handler == \/ InEventReturns \/ EngineError \/ ProcessStop
           \/ \E f \in Sockets : NewConnection(f)

Next == Loop \/ Handler \/ \E f \in Descriptors : Arrive(f)

Spec == Init /\ [][Next]_vars

(* The thread runs, no handler runs for ever and select() returns when     *)
(* there is something to read; nothing makes an exception happen.          *)
FairSpec ==
    Spec /\ WF_vars(/\ at = "top" => stopping \/ source \cap readable # {}
                    /\ Loop \/ Handler)
-----------------------------------------------------------------------------
TypeOK == /\ fds \in Seq([fd : Descriptors \cup {Retired}, sink : 0..plugged])
          /\ source \subseteq Descriptors
          /\ readfds \subseteq Descriptors /\ exceptfds \subseteq Descriptors
          /\ stopping \in BOOLEAN /\ plugging \in BOOLEAN
          /\ load \in 0..Len(fds)
          /\ at \in Places
          /\ pos \in 1..(Len(fds) + 1)
          /\ current \in 0..plugged
          /\ plugged \in 0..MaxEngines
          /\ DOMAIN engines \subseteq 1..plugged /\ Range(engines) \subseteq Sockets
          /\ readable \subseteq Descriptors
          /\ pending \subseteq (0..plugged) \X {"inEvent", "errEvent"}

(* The entries that are not retired are the mailbox, until it stops, and   *)
(* the plugged engines with their sockets, each once.  These sockets are   *)
(* what select() waits for, so that it is never given a closed one, and    *)
(* their number is the load by which choose_io_thread() chooses.           *)
TableMatchesObjects ==
    LET open == {<<engines[e], e>> : e \in DOMAIN engines}
                  \cup (IF stopping THEN {} ELSE {<<MailboxFd, Mailbox>>})
    IN  at # "aborted" =>
          /\ {<<fds[i].fd, fds[i].sink>> : i \in Live} = open
          /\ Cardinality(Live) = Cardinality(open)
          /\ source = {p[1] : p \in open}
          /\ load = Cardinality(open)

(* A pass calls in_event() of every object that select() has reported,     *)
(* unless it has been removed meanwhile, and never that of a deleted one,  *)
(* though handlers append to the vector, retire its entries and delete     *)
(* engines while the loop walks it, and sockets' numbers come back.        *)
PassCallsTheLiving == /\ InEvent => current \in DOMAIN engines \cup {Mailbox}
                      /\ at \in {"top", "exited"} => pending = {}

(* A connection with something to read is served or closed, unless the     *)
(* thread leaves or dies.                                                  *)
ReadableIsServed ==
    \A e \in 1..MaxEngines :
        e \in DOMAIN engines /\ engines[e] \in readable
            ~> \/ e \notin DOMAIN engines
               \/ engines[e] \notin readable
               \/ at \in {"exited", "aborted"}
=============================================================================
