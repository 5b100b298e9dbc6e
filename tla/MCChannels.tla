------------------------------ MODULE MCChannels ------------------------------
(***************************************************************************)
(* The two channels between threads of SharedLib, which share no state,    *)
(* side by side for TLC: a behaviour is one of a mailbox and the I/O       *)
(* thread that reads it, or one of the logical thread and its two queues.  *)
(***************************************************************************)
EXTENDS Mailbox

CONSTANTS IoThreads,  \* that push to the logical thread
          MaxPushes   \* bound on the messages of each

VARIABLES logical, producer, consumer, loop, told, pushed, pushedAtStop, ran

threadVars == <<producer, consumer, loop, told, pushed, pushedAtStop, ran>>

L == INSTANCE LogicalThread WITH Senders <- IoThreads, MaxSends <- MaxPushes, stopping <- told,
                                 sent <- pushed, sentAtStop <- pushedAtStop, served <- ran

ASSUME ChannelsAssumption == L!LogicalThreadAssumption

MCInit == Init /\ L!Init /\ logical \in BOOLEAN

MCNext == \/ ~logical /\ Next /\ UNCHANGED <<logical, threadVars>>
          \/ logical /\ L!Next /\ UNCHANGED <<logical, vars>>

(* A mailbox that does not run stays empty, where nothing is due.          *)
MCSpec == /\ MCInit /\ [][MCNext]_<<logical, vars, threadVars>>
          /\ Fairness
          /\ WF_<<logical, vars, threadVars>>(logical /\ L!ThreadStep /\ UNCHANGED <<logical, vars>>)

NothingRunAfterStop == L!NothingRunAfterStop
ThreadImplementsQueue == L!ImplementsQueue
RunsUntilStopped == L!RunsUntilStopped
=============================================================================
