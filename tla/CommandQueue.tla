---------------------------- MODULE CommandQueue ----------------------------
(***************************************************************************)
(* What every thread-to-thread channel of this code base promises to its   *)
(* users, whatever the locking and signalling underneath: commands leave   *)
(* one at a time, in the order in which they were put in, each of them     *)
(* once.  Mailbox (SharedLib mailbox_t), FreezeMailbox (workspace Mailbox) *)
(* and LogicalThread (logical_thread_t) are shown to implement it, and     *)
(* RpcMysql is written over it.                                            *)
(*                                                                         *)
(* A command is the pair <<sender, serial>>: the serial-th command that    *)
(* the thread "sender" put into this channel.                              *)
(***************************************************************************)
EXTENDS Naturals, Sequences

CONSTANT Senders

VARIABLES sent,     \* how many commands each thread has put in
          queue,    \* commands put in and not yet taken, oldest first
          served    \* commands taken out, in the order they were taken

vars == <<sent, queue, served>>

Command == Senders \X Nat

(* Everything that ever went through the channel, oldest first.            *)
history == served \o queue
-----------------------------------------------------------------------------
Init == /\ sent = [s \in Senders |-> 0]
        /\ queue = <<>>
        /\ served = <<>>

Send(s) == /\ sent' = [sent EXCEPT ![s] = @ + 1]
           /\ queue' = Append(queue, <<s, sent[s] + 1>>)
           /\ UNCHANGED served

Serve == /\ queue # <<>>
         /\ served' = Append(served, Head(queue))
         /\ queue' = Tail(queue)
         /\ UNCHANGED sent

Next == Serve \/ \E s \in Senders : Send(s)

Spec == Init /\ [][Next]_vars
-----------------------------------------------------------------------------
TypeOK == /\ sent \in [Senders -> Nat]
          /\ queue \in Seq(Command)
          /\ served \in Seq(Command)

(* Two commands of one sender never overtake each other and no command is  *)
(* there twice: the serials of a sender strictly grow along the history.   *)
InSenderOrder ==
    \A i, j \in 1..Len(history) :
        i < j /\ history[i][1] = history[j][1] => history[i][2] < history[j][2]

(* The channel invents nothing: a command in it was put in by its sender.  *)
NothingInvented ==
    \A i \in 1..Len(history) : history[i][2] \in 1..sent[history[i][1]]

(* The channel loses nothing: a command that was put in is waiting or has  *)
(* been taken.                                                             *)
NothingLost ==
    \A s \in Senders : \A n \in 1..sent[s] :
        \E i \in 1..Len(history) : history[i] = <<s, n>>

ExactlyOnceInOrder == InSenderOrder /\ NothingInvented /\ NothingLost
=============================================================================
