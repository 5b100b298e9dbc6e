-------------------------------- MODULE Epoll --------------------------------
(***************************************************************************)
(* The I/O thread of FREEZE_NET: Epoll::Loop() with the timers of          *)
(* PollerBase and the mailbox of IOThread.  A source is an object with a   *)
(* socket; what its handlers do with the poller is the user's code, which  *)
(* is outside of the repository.  Here a handler makes one call of the     *)
(* interface, or none.                                                     *)
(*                                                                         *)
(* A handle is the address of a poll_entry_t.  A deleted entry's address   *)
(* may be the next entry's.                                                *)
(***************************************************************************)
EXTENDS Integers, Sequences, FiniteSets, SequencesExt

CONSTANTS Sources,    \* objects with a socket, the mailbox not among them
          Mailbox,    \* the mailbox of the thread
          Handles,    \* addresses
          Free,       \* an address without an entry
          Flags,      \* events that handlers set and reset, "in" and "out"
          Timeouts,   \* that timers are added with
          MaxTimers,  \* bound: timers at a time
          MaxTime     \* bound: the clock stays there, and then all have waited long enough

EpollAssumption ==
    /\ Sources # {} /\ Mailbox \notin Sources
    /\ IsFiniteSet(Handles) /\ Flags \subseteq {"in", "out"}
    /\ Free \notin [source : Sources \cup {Mailbox}, retired : BOOLEAN, polls : SUBSET {"in", "out"}]
    /\ Timeouts \subseteq Nat /\ MaxTimers \in Nat /\ MaxTime \in Nat

VARIABLES entry,     \* by handle: [source, retired, polls], or Free
          pc,        \* where Loop() is
          batch,     \* what is left of ev_buf: [handle, source, events]; source is history
          input,     \* sockets with something to read
          hup,       \* sockets whose other end has hung up
          timers,    \* timers_, in order: [at, sink]
          now,       \* the clock
          current,   \* the time that ExecuteTimers() has read
          deadline,  \* when epoll_wait() returns at the latest
          stopping,  \* stopping_
          strayed    \* history: has an event not got to the source that it was reported for?

loopVars == <<pc, batch, current, deadline>>
vars == <<entry, pc, batch, input, hup, timers, now, current, deadline, stopping, strayed>>

Never == -1

Live(h) == entry[h] # Free /\ ~entry[h].retired
Registered == {entry[h].source : h \in {h \in Handles : Live(h)}}
HandleOf(s) == CHOOSE h \in Handles : Live(h) /\ entry[h].source = s

New(s) == [source |-> s, retired |-> FALSE, polls |-> {"in"}]
-----------------------------------------------------------------------------
(* Slips in this code that the properties below must notice.               *)

(* deletes the entry at once                                               *)
RmFdNow(s) == entry' = [entry EXCEPT ![HandleOf(s)] = Free]

(* gives seconds, where 0 means that there is no timer                     *)
TimeoutSeconds == IF timers = <<>> THEN 0 ELSE (Head(timers).at - current) \div 1000
-----------------------------------------------------------------------------
(* Which addresses are taken first, and for whom, makes no difference.     *)
Init ==
    /\ LET first == CHOOSE h \in Handles : TRUE
           other == CHOOSE h \in Handles \ {first} : TRUE
       IN  entry = [h \in Handles |-> CASE h = first -> New(Mailbox)
                                       [] h = other -> New(CHOOSE s \in Sources : TRUE)
                                       [] OTHER -> Free]
    /\ pc = "loop" /\ batch = <<>>
    /\ input = {} /\ hup = {}
    /\ timers = <<>> /\ now = 0 /\ current = 0 /\ deadline = Never
    /\ stopping = FALSE /\ strayed = FALSE

(* What a handler may call.  SetPollin() follows AddFd() at once.          *)
AddFd(s) == \E h \in Handles : entry[h] = Free /\ entry' = [entry EXCEPT ![h] = New(s)]

RmFd(s) == entry' = [entry EXCEPT ![HandleOf(s)].retired = TRUE]

SetPoll(s, flag) == entry' = [entry EXCEPT ![HandleOf(s)].polls = @ \cup {flag}]

ResetPoll(s, flag) == entry' = [entry EXCEPT ![HandleOf(s)].polls = @ \ {flag}]

(* Behind the timers with the same expiration.                             *)
AddTimer(queue, timeout, sink) ==
    LET timer == [at |-> now + timeout, sink |-> sink]
        before == Len(SelectSeq(queue, LAMBDA t : t.at <= timer.at))
    IN  InsertAt(queue, before + 1, timer)

(* The first timer of the sink, if any.                                    *)
CancelTimer(queue, sink) ==
    IF \E i \in DOMAIN queue : queue[i].sink = sink
    THEN RemoveAt(queue, SelectInSeq(queue, LAMBDA t : t.sink = sink))
    ELSE queue

(* One handler of source s, which makes one of these calls or none, with   *)
(* Set and Reset for its own entry.  queue is timers_ without the timer    *)
(* that the handler is called for, unread are the sockets that it leaves   *)
(* something in; a socket that is removed is closed.  A handler that       *)
(* cancels the timer that it is called for is left out: ExecuteTimers()    *)
(* would erase it a second time.                                           *)
Handle(s, queue, unread) ==
    \/ timers' = queue /\ input' = unread /\ UNCHANGED <<entry, hup, stopping>>
    \/ /\ \E t \in Sources \cap Registered : RmFd(t) /\ input' = unread \ {t} /\ hup' = hup \ {t}
       /\ timers' = queue /\ UNCHANGED stopping
    \/ /\ \/ \E t \in Sources \ Registered : AddFd(t)
          \/ s \in Registered /\ \E flag \in Flags : SetPoll(s, flag) \/ ResetPoll(s, flag)
       /\ timers' = queue /\ input' = unread /\ UNCHANGED <<hup, stopping>>
    \/ /\ \/ \E timeout \in Timeouts : Len(queue) < MaxTimers /\ timers' = AddTimer(queue, timeout, s)
          \/ \E sink \in Sources : timers' = CancelTimer(queue, sink)
       /\ input' = unread /\ UNCHANGED <<entry, hup, stopping>>
    \/ stopping' = TRUE /\ timers' = queue /\ input' = unread /\ UNCHANGED <<entry, hup>>
-----------------------------------------------------------------------------
(* ExecuteTimers(), and the timeout that it returns, 0 for "no timers".    *)
StartPass ==
    /\ pc = "loop"
    /\ pc' = IF stopping THEN "ended" ELSE "timers"
    /\ current' = now
    /\ UNCHANGED <<entry, batch, input, hup, timers, now, deadline, stopping, strayed>>

RunTimer ==
    /\ pc = "timers" /\ timers # <<>> /\ Head(timers).at <= current
    /\ Handle(Head(timers).sink, Tail(timers), input)
    /\ UNCHANGED <<loopVars, now, strayed>>

Timeout == IF timers = <<>> THEN 0 ELSE Head(timers).at - current

StartWait ==
    /\ pc = "timers" /\ (timers # <<>> => Head(timers).at > current)
    /\ pc' = "wait" /\ deadline' = IF Timeout = 0 THEN Never ELSE now + Timeout
    /\ current' = 0
    /\ UNCHANGED <<entry, batch, input, hup, timers, now, stopping, strayed>>

(* The calls of handlers that Loop() makes for what the kernel reports.    *)
Calls(s, polls) ==
    SelectSeq(<<"err", "out", "in">>,
              LAMBDA call : \/ call = "err" /\ s \in hup
                            \/ call = "out" /\ "out" \in polls
                            \/ call = "in" /\ "in" \in polls /\ s \in input \cup hup)

Ready == {h \in Handles : Live(h) /\ Calls(entry[h].source, entry[h].polls) # <<>>}

(* epoll_wait(): events in any order, the time is over, or EINTR.          *)
Wait ==
    /\ pc = "wait"
    /\ \/ /\ Ready # {}
          /\ \E order \in SetToSeqs(Ready) :
                batch' = [i \in DOMAIN order |->
                             [handle |-> order[i], source |-> entry[order[i]].source,
                              calls |-> Calls(entry[order[i]].source, entry[order[i]].polls)]]
          /\ pc' = "handling"
       \/ deadline # Never /\ (now >= deadline \/ now = MaxTime) /\ pc' = "handling" /\ UNCHANGED batch
    /\ deadline' = Never
    /\ UNCHANGED <<entry, input, hup, timers, now, current, stopping, strayed>>

Interrupted == /\ pc = "wait" /\ pc' = "loop" /\ deadline' = Never
               /\ UNCHANGED <<entry, batch, input, hup, timers, now, current, stopping, strayed>>

(* The next call for the first event, unless its source is retired.        *)
SkipRetired ==
    LET event == Head(batch)
    IN  /\ pc = "handling" /\ batch # <<>>
        /\ entry[event.handle] # Free /\ entry[event.handle].retired
        /\ batch' = Tail(batch)
        /\ UNCHANGED <<entry, pc, input, hup, timers, now, current, deadline, stopping, strayed>>

Call ==
    LET event == Head(batch)
        s == entry[event.handle].source
        reads == Head(event.calls) # "out"
    IN  /\ pc = "handling" /\ batch # <<>> /\ Live(event.handle)
        /\ strayed' = (strayed \/ s # event.source)
        /\ batch' = IF Len(event.calls) = 1 THEN Tail(batch)
                    ELSE [batch EXCEPT ![1].calls = Tail(@)]
        /\ s # Mailbox /\ Handle(s, timers, IF reads THEN input \ {s} ELSE input)
        /\ UNCHANGED <<pc, now, current, deadline>>

(* IOThread::InEvent(): the only command that anybody sends to it is STOP, *)
(* which Object::ProcessCommand() does not know.                           *)
ProcessCommand ==
    /\ pc = "handling" /\ batch # <<>> /\ Live(Head(batch).handle)
    /\ entry[Head(batch).handle].source = Mailbox
    /\ pc' = "aborted"
    /\ strayed' = (strayed \/ Head(batch).source # Mailbox)
    /\ UNCHANGED <<entry, batch, input, hup, timers, now, current, deadline, stopping>>

(* An entry that is no more: whatever is in its memory is used.            *)
UseFreed ==
    /\ pc = "handling" /\ batch # <<>> /\ entry[Head(batch).handle] = Free
    /\ pc' = "aborted" /\ strayed' = TRUE
    /\ UNCHANGED <<entry, batch, input, hup, timers, now, current, deadline, stopping>>

DeleteRetired ==
    /\ pc = "handling" /\ batch = <<>>
    /\ entry' = [h \in Handles |-> IF Live(h) THEN entry[h] ELSE Free]
    /\ pc' = "loop"
    /\ UNCHANGED <<batch, input, hup, timers, now, current, deadline, stopping, strayed>>
-----------------------------------------------------------------------------
(* The other ends, IOThread::Stop() on another thread, and time.           *)
(* They make no difference when the thread has ended.                      *)
Running == pc \notin {"ended", "aborted"}

Arrive(s) == /\ Running /\ s \in Registered \ input
             /\ input' = input \cup {s}
             /\ UNCHANGED <<entry, loopVars, hup, timers, now, stopping, strayed>>

HangUp(s) == /\ Running /\ s \in Registered \ hup /\ s # Mailbox
             /\ hup' = hup \cup {s}
             /\ UNCHANGED <<entry, loopVars, input, timers, now, stopping, strayed>>

Tick == /\ Running /\ now < MaxTime /\ now' = now + 1
        /\ UNCHANGED <<entry, loopVars, input, hup, timers, stopping, strayed>>

Loop == StartPass \/ RunTimer \/ StartWait \/ Wait \/ SkipRetired \/ Call \/ ProcessCommand
           \/ UseFreed \/ DeleteRetired

Next == Loop \/ Interrupted \/ Tick \/ \E s \in Sources \cup {Mailbox} : Arrive(s) \/ HangUp(s)

(* The thread runs and time passes; nothing has to arrive.                 *)
Spec == Init /\ [][Next]_vars /\ WF_vars(Loop) /\ WF_vars(Tick)
-----------------------------------------------------------------------------
(* An event that epoll_wait() has reported gets to the source that it was  *)
(* reported for or to nobody, whatever the handlers before it in the batch *)
(* have removed and added: entries stay until the end of the batch         *)
(* (Epoll.cpp:81, 151-187).                                                *)
NoEventStrays == ~strayed

(* A timer that is due runs, unless the loop ends: it never waits without  *)
(* an end while there is a timer (Epoll.cpp:137-140, PollerBase.cpp:72).   *)
Due == timers # <<>> /\ Head(timers).at <= now
DueTimersRun == Due ~> (~Due \/ ~Running)
=============================================================================
