---------------------------- MODULE MCFreezeMailbox ----------------------------
(***************************************************************************)
(* For TLC: a behaviour is one of a FREEZE_NET mailbox on its own, with any *)
(* senders, or one of the pair of them between MySQL client and server.    *)
(***************************************************************************)
EXTENDS FreezeMailbox

CONSTANTS Callers, ClientThread, Server

VARIABLES paired, requests, requestSignals, requesting, serverLoop, requested, handled,
          responses, responseSignals, responding, clientLoop, responded, called

pairVars == <<requests, requestSignals, requesting, serverLoop, requested, handled,
              responses, responseSignals, responding, clientLoop, responded, called>>

R == INSTANCE RpcMailboxes

ASSUME PairAssumption == R!RpcMailboxesAssumption

MCInit == Init /\ R!Init /\ paired \in BOOLEAN

MCNext == \/ ~paired /\ Next /\ UNCHANGED <<paired, pairVars>>
          \/ paired /\ R!Next /\ UNCHANGED <<paired, vars>>

(* What does not run stays in its initial state, where nothing is due.     *)
MCSpec == MCInit /\ [][MCNext]_<<paired, vars, pairVars>> /\ Fairness /\ R!Fairness

AnsweredOrOverloaded == R!AnsweredOrOverloaded
=============================================================================
