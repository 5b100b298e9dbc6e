------------------------------ MODULE MCPollers ------------------------------
(***************************************************************************)
(* The three loops that wait for sockets, which share no state, side by    *)
(* side for TLC: a behaviour is one of the I/O thread of SharedLib with    *)
(* select(), one of the I/O thread of FREEZE_NET, whose epoll is level-    *)
(* triggered, or one of the hello server, whose epoll is edge-triggered.   *)
(***************************************************************************)
EXTENDS SelectPoller

CONSTANTS Systems,  \* those that run, of "select", "epoll" and "hello"
          Sources, EpollMailbox, Handles, Free, Flags, Timeouts, MaxTimers, MaxTime,
          Conns, Listener, MaxFds, MaxInput

VARIABLES system,
          entry, pc, batch, input, hup, timers, now, passTime, deadline, told, strayed,
          conn, unread, peer, edges, events, failed

E == INSTANCE Epoll WITH Mailbox <- EpollMailbox, current <- passTime, stopping <- told

H == INSTANCE HelloServer

ASSUME PollersAssumption == E!EpollAssumption /\ H!HelloServerAssumption

selectVars == vars
epollVars == <<entry, pc, batch, input, hup, timers, now, passTime, deadline, told, strayed>>
helloVars == <<conn, unread, peer, edges, events, failed>>
allVars == <<system, selectVars, epollVars, helloVars>>

MCInit == /\ Init /\ E!Init /\ H!Init
          /\ system \in Systems

SelectRuns == system = "select" /\ UNCHANGED <<system, epollVars, helloVars>>
EpollRuns == system = "epoll" /\ UNCHANGED <<system, selectVars, helloVars>>
HelloRuns == system = "hello" /\ UNCHANGED <<system, selectVars, epollVars>>

MCNext == (SelectRuns /\ Next) \/ (EpollRuns /\ E!Next) \/ (HelloRuns /\ H!Next)

(* Whichever runs, runs fairly.                                            *)
SelectSteps == SelectRuns /\ (at = "top" => stopping \/ source \cap readable # {}) /\ (Loop \/ Handler)
EpollSteps == EpollRuns /\ E!Loop

MCSpec == /\ MCInit /\ [][MCNext]_allVars
          /\ WF_allVars(SelectSteps \/ EpollSteps) /\ WF_allVars(EpollRuns /\ E!Tick)

NoEventStrays == E!NoEventStrays
DueTimersRun == E!DueTimersRun
NothingMissed == H!NothingMissed
=============================================================================
