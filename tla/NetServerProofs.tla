--------------------------- MODULE NetServerProofs ---------------------------
(***************************************************************************)
(* Proofs about NetServer: the order in which the destructor of ctx_t      *)
(* stops and deletes its threads is right for any number of I/O threads,   *)
(* of descriptors and of connections.  The inductive invariant says, of    *)
(* every step of the destructor, which threads are gone at it, and that    *)
(* whoever can still send comes before whom it sends to.                   *)
(***************************************************************************)
EXTENDS NetServer, SequenceTheorems, FiniteSetTheorems, TLAPS

(* The step of the destructor that deletes thread t.                       *)
Deletion(t) == IF t = Main THEN 2
               ELSE IF t = Logical THEN 2 * NThreads + 5
               ELSE NThreads + 3 + t

Types == /\ down \in Nat \ {0}
         /\ thread \in [Threads -> {"running", "stopping", "left", "deleted"}]
         /\ conn \in [Conns -> [stage : Stages, fd : Fds \cup {Retired}, thread : Pollers]]
         /\ DOMAIN hand = Choosers
         /\ \A h \in Choosers : /\ hand[h].conn \in 0..MaxConns
                                /\ hand[h].next \in Nat \ {0}
                                /\ hand[h].result \in IoThreads

DeletedInOrder == \A t \in Threads : thread[t] = "deleted" <=> down > Deletion(t)

(* A thread that is on its way to send a command lives.                    *)
ChoosersLive == /\ hand["main"].conn # 0 => thread[Main] \in {"running", "stopping"}
                /\ hand["user"].conn # 0 => down = 1

IInv == Types /\ DeletedInOrder /\ ChoosersLive /\ died # "deleted"

USE NetServerAssumption DEF Main, Logical, IoThreads, Pollers, Threads, Choosers, Conns
-----------------------------------------------------------------------------
LEMMA Two ==
    ASSUME NEW S, NEW x \in S, NEW y \in S
    PROVE  <<x, y>> \in Seq(S) /\ Len(<<x, y>>) = 2 /\ <<x, y>>[1] = x /\ <<x, y>>[2] = y
OBVIOUS

LEMMA Three ==
    ASSUME NEW S, NEW x \in S, NEW y \in S, NEW z \in S
    PROVE  /\ <<x, y, z>> \in Seq(S) /\ Len(<<x, y, z>>) = 3
           /\ <<x, y, z>>[1] = x /\ <<x, y, z>>[2] = y /\ <<x, y, z>>[3] = z
OBVIOUS

LEMMA Joined ==
    ASSUME NEW S, NEW s \in Seq(S), NEW t \in Seq(S)
    PROVE  /\ s \o t \in Seq(S) /\ Len(s \o t) = Len(s) + Len(t)
           /\ \A i \in 1..Len(s) : (s \o t)[i] = s[i]
           /\ \A i \in 1..Len(t) : (s \o t)[Len(s) + i] = t[i]
<1>1. /\ s \o t \in Seq(S) /\ Len(s \o t) = Len(s) + Len(t)
      /\ \A i \in 1..(Len(s) + Len(t)) : (s \o t)[i] = IF i <= Len(s) THEN s[i] ELSE t[i - Len(s)]
  BY ConcatProperties
<1>n. Len(s) \in Nat /\ Len(t) \in Nat
  BY LenProperties
<1>2. ASSUME NEW i \in 1..Len(t) PROVE (s \o t)[Len(s) + i] = t[i]
  <2>1. Len(s) + i \in 1..(Len(s) + Len(t)) /\ ~(Len(s) + i <= Len(s)) /\ (Len(s) + i) - Len(s) = i
    BY <1>n
  <2> QED
    BY <2>1, <1>1
<1> QED
  BY <1>1, <1>2, <1>n

(* The steps of the destructor one by one.                                 *)
LEMMA TearDownOrder ==
    /\ Len(TearDown) = 2 * NThreads + 5 /\ DOMAIN TearDown = 1..(2 * NThreads + 5)
    /\ TearDown[1] = <<"stop", Main>>
    /\ TearDown[2] = <<"delete", Main>>
    /\ TearDown[3] = <<"close", Main>>
    /\ \A t \in IoThreads : /\ TearDown[t + 3] = <<"stop", t>>
                            /\ TearDown[t + NThreads + 3] = <<"delete", t>>
    /\ TearDown[2 * NThreads + 4] = <<"stop", Logical>>
    /\ TearDown[2 * NThreads + 5] = <<"delete", Logical>>
<1>n. NThreads \in Nat
  OBVIOUS
<1>s. PICK S : S = {"stop", "delete", "close"} \X Threads
  OBVIOUS
<1>e. \A what \in {"stop", "delete", "close"}, t \in Threads : <<what, t>> \in S
  BY <1>s
<1>t. Main \in Threads /\ Logical \in Threads /\ \A t \in 1..NThreads : t \in Threads
  OBVIOUS
<1>1. PICK first :  /\ first = <<<<"stop", Main>>, <<"delete", Main>>, <<"close", Main>>>>
                    /\ first \in Seq(S) /\ Len(first) = 3
                    /\ first[1] = <<"stop", Main>>
                    /\ first[2] = <<"delete", Main>>
                    /\ first[3] = <<"close", Main>>
  <2>1. PICK x : x = <<"stop", Main>>
    OBVIOUS
  <2>2. PICK y : y = <<"delete", Main>>
    OBVIOUS
  <2>3. PICK z : z = <<"close", Main>>
    OBVIOUS
  <2>4. x \in S /\ y \in S /\ z \in S
    BY ONLY <2>1, <2>2, <2>3, <1>e, <1>t
  <2>5. PICK first : first = <<x, y, z>>
    OBVIOUS
  <2>6. /\ first \in Seq(S) /\ Len(first) = 3
        /\ first[1] = x /\ first[2] = y /\ first[3] = z
    BY ONLY <2>4, <2>5, Three
  <2> QED
    BY ONLY <2>1, <2>2, <2>3, <2>5, <2>6
<1>2. PICK last : /\ last = <<<<"stop", Logical>>, <<"delete", Logical>>>>
                  /\ last \in Seq(S) /\ Len(last) = 2
                  /\ last[1] = <<"stop", Logical>>
                  /\ last[2] = <<"delete", Logical>>
  <2>1. PICK x : x = <<"stop", Logical>>
    OBVIOUS
  <2>2. PICK y : y = <<"delete", Logical>>
    OBVIOUS
  <2>4. x \in S /\ y \in S
    BY ONLY <2>1, <2>2, <1>e, <1>t
  <2>5. PICK last : last = <<x, y>>
    OBVIOUS
  <2>6. last \in Seq(S) /\ Len(last) = 2 /\ last[1] = x /\ last[2] = y
    BY ONLY <2>4, <2>5, Two
  <2> QED
    BY ONLY <2>1, <2>2, <2>5, <2>6
<1>3. PICK stops \in Seq(S) : /\ stops = [t \in IoThreads |-> <<"stop", t>>]
                              /\ Len(stops) = NThreads
                              /\ \A t \in IoThreads : stops[t] = <<"stop", t>>
  <2>1. PICK f : f = [t \in 1..NThreads |-> <<"stop", t>>]
    OBVIOUS
  <2>2. \A t \in 1..NThreads : <<"stop", t>> \in S
    BY ONLY <1>e, <1>t
  <2>3. f \in [1..NThreads -> S] /\ \A t \in 1..NThreads : f[t] = <<"stop", t>>
    BY ONLY <2>1, <2>2
  <2>4. f \in Seq(S) /\ Len(f) = NThreads
    BY ONLY <2>3, <1>n, IsASeq, LenProperties
  <2> QED
    BY <2>1, <2>3, <2>4
<1>4. PICK deletes \in Seq(S) : /\ deletes = [t \in IoThreads |-> <<"delete", t>>]
                                /\ Len(deletes) = NThreads
                                /\ \A t \in IoThreads : deletes[t] = <<"delete", t>>
  <2>1. PICK f : f = [t \in 1..NThreads |-> <<"delete", t>>]
    OBVIOUS
  <2>2. \A t \in 1..NThreads : <<"delete", t>> \in S
    BY ONLY <1>e, <1>t
  <2>3. f \in [1..NThreads -> S] /\ \A t \in 1..NThreads : f[t] = <<"delete", t>>
    BY ONLY <2>1, <2>2
  <2>4. f \in Seq(S) /\ Len(f) = NThreads
    BY ONLY <2>3, <1>n, IsASeq, LenProperties
  <2> QED
    BY <2>1, <2>3, <2>4
<1>5. /\ first \in Seq(S) /\ stops \in Seq(S) /\ deletes \in Seq(S) /\ last \in Seq(S)
      /\ Len(first) = 3 /\ Len(stops) = NThreads /\ Len(deletes) = NThreads /\ Len(last) = 2
  BY ONLY <1>1, <1>2, <1>3, <1>4
<1>6. PICK all : all = ((first \o stops) \o deletes) \o last
  OBVIOUS
<1>7. PICK two : two = first \o stops
  OBVIOUS
<1>8. PICK three : three = two \o deletes
  OBVIOUS
<1>9. /\ two \in Seq(S) /\ Len(two) = NThreads + 3
      /\ \A i \in 1..3 : two[i] = first[i]
      /\ \A i \in 1..NThreads : two[3 + i] = stops[i]
  <2>0. first \in Seq(S) /\ stops \in Seq(S)
    BY <1>5
  <2>1. /\ first \o stops \in Seq(S) /\ Len(first \o stops) = Len(first) + Len(stops)
        /\ \A i \in 1..Len(first) : (first \o stops)[i] = first[i]
        /\ \A i \in 1..Len(stops) : (first \o stops)[Len(first) + i] = stops[i]
    BY ONLY <2>0, Joined
  <2>2. 3 + NThreads = NThreads + 3
    OBVIOUS
  <2> QED
    BY ONLY <2>1, <2>2, <1>5, <1>7
<1>10. /\ three \in Seq(S) /\ Len(three) = 2 * NThreads + 3
       /\ \A i \in 1..(NThreads + 3) : three[i] = two[i]
       /\ \A i \in 1..NThreads : three[NThreads + 3 + i] = deletes[i]
  <2>0. two \in Seq(S) /\ deletes \in Seq(S)
    BY <1>5, <1>9
  <2>1. /\ two \o deletes \in Seq(S) /\ Len(two \o deletes) = Len(two) + Len(deletes)
        /\ \A i \in 1..Len(two) : (two \o deletes)[i] = two[i]
        /\ \A i \in 1..Len(deletes) : (two \o deletes)[Len(two) + i] = deletes[i]
    BY ONLY <2>0, Joined
  <2>2. 2 * NThreads + 3 = (NThreads + 3) + NThreads
    OBVIOUS
  <2> QED
    BY ONLY <2>1, <2>2, <1>5, <1>8, <1>9
<1>11. all = three \o last
  BY <1>6, <1>7, <1>8
<1>12. /\ all \in Seq(S) /\ Len(all) = 2 * NThreads + 5
       /\ \A i \in 1..(2 * NThreads + 3) : all[i] = three[i]
       /\ \A i \in 1..2 : all[2 * NThreads + 3 + i] = last[i]
  <2>0. three \in Seq(S) /\ last \in Seq(S)
    BY <1>5, <1>10
  <2>1. /\ three \o last \in Seq(S) /\ Len(three \o last) = Len(three) + Len(last)
        /\ \A i \in 1..Len(three) : (three \o last)[i] = three[i]
        /\ \A i \in 1..Len(last) : (three \o last)[Len(three) + i] = last[i]
    BY ONLY <2>0, Joined
  <2>2. 2 * NThreads + 5 = (2 * NThreads + 3) + 2
    OBVIOUS
  <2> QED
    BY ONLY <2>1, <2>2, <1>5, <1>10, <1>11
<1>13. DOMAIN all = 1..(2 * NThreads + 5)
  BY <1>12, LenProperties
<1>14. ASSUME NEW i \in 1..3 PROVE all[i] = first[i]
  <2>1. i \in 1..(NThreads + 3) /\ i \in 1..(2 * NThreads + 3)
    OBVIOUS
  <2> QED
    BY <2>1, <1>9, <1>10, <1>12
<1>15. ASSUME NEW i \in 1..NThreads PROVE all[i + 3] = stops[i] /\ all[i + NThreads + 3] = deletes[i]
  <2>1. /\ 3 + i \in 1..(NThreads + 3) /\ 3 + i \in 1..(2 * NThreads + 3) /\ NThreads + 3 + i \in 1..(2 * NThreads + 3)
        /\ i + 3 = 3 + i /\ i + NThreads + 3 = NThreads + 3 + i
    OBVIOUS
  <2>2. all[3 + i] = stops[i] /\ all[NThreads + 3 + i] = deletes[i]
    BY <2>1, <1>9, <1>10, <1>12
  <2> QED
    BY <2>1, <2>2
<1>16. all[2 * NThreads + 4] = last[1] /\ all[2 * NThreads + 5] = last[2]
  <2>1. 2 * NThreads + 3 + 1 = 2 * NThreads + 4 /\ 2 * NThreads + 3 + 2 = 2 * NThreads + 5
    OBVIOUS
  <2> QED
    BY <2>1, <1>12
<1>17. TearDown = all
  BY ONLY <1>1, <1>2, <1>3, <1>4, <1>6, Zenon DEF TearDown
<1>18. all[1] = <<"stop", Main>> /\ all[2] = <<"delete", Main>> /\ all[3] = <<"close", Main>>
  <2>1. all[1] = first[1] /\ all[2] = first[2] /\ all[3] = first[3]
    BY <1>14
  <2> QED
    BY ONLY <2>1, <1>1
<1>19. \A t \in IoThreads : all[t + 3] = <<"stop", t>> /\ all[t + NThreads + 3] = <<"delete", t>>
  BY <1>3, <1>4, <1>15
<1>20. all[2 * NThreads + 4] = <<"stop", Logical>> /\ all[2 * NThreads + 5] = <<"delete", Logical>>
  BY ONLY <1>2, <1>16
<1> QED
  BY ONLY <1>12, <1>13, <1>17, <1>18, <1>19, <1>20

LEMMA InitIInv == Init => IInv
<1> SUFFICES ASSUME Init PROVE IInv
  OBVIOUS
<1>1. Types
  BY DEF Init, Types, New, Stages, Idle
<1>2. DeletedInOrder
  BY DEF Init, DeletedInOrder, Deletion
<1>3. ChoosersLive /\ died # "deleted"
  BY DEF Init, ChoosersLive, Idle
<1> QED
  BY <1>1, <1>2, <1>3 DEF IInv

(* Nobody sends, joins or stops anybody, and no connection moves.          *)
LEMMA QuietStep ==
    ASSUME IInv, UNCHANGED <<down, thread, conn, hand>>, died' # "deleted"
    PROVE  IInv'
BY DEF IInv, Types, DeletedInOrder, ChoosersLive, Deletion, Stages

(* A connection moves or nobody is chosen for; the threads stay.           *)
LEMMA ListenStep == ASSUME IInv, Listen PROVE IInv'
<1>1. thread[0] # "deleted"
  BY DEF IInv, DeletedInOrder, Deletion, Listen, Using
<1>2. UNCHANGED <<down, thread, conn, hand>>
  BY DEF Listen
<1>3. died' # "deleted"
  BY <1>1 DEF Listen, SendRegisterAccept, SendCommand, Main, IInv
<1> QED
  BY <1>2, <1>3, QuietStep

LEMMA OpenedStep ==
    ASSUME IInv, NEW h \in Choosers, NEW c \in Conns, Opened(h, c), UNCHANGED <<down, thread, died>>,
           h = "main" => thread[Main] \in {"running", "stopping"},
           h = "user" => down = 1
    PROVE  IInv'
<1>1. PICK f \in Free : conn' = [conn EXCEPT ![c] = [stage |-> "chosen", fd |-> f, thread |-> Main]]
  BY DEF Opened
<1>2. hand' = [hand EXCEPT ![h] = [conn |-> c, next |-> 1, least |-> -1, result |-> 1]]
  <2>1. [Idle EXCEPT !.conn = c] = [conn |-> c, next |-> 1, least |-> -1, result |-> 1]
    BY DEF Idle
  <2> QED
    BY <2>1 DEF Opened
<1>3. Types'
  BY <1>1, <1>2 DEF IInv, Types, Free, Stages
<1>4. ChoosersLive'
  BY <1>2 DEF IInv, Types, ChoosersLive
<1>5. DeletedInOrder'
  BY DEF IInv, DeletedInOrder, Deletion
<1> QED
  BY <1>3, <1>4, <1>5 DEF IInv

LEMMA UserConnStep ==
    ASSUME IInv, NEW c \in Conns, Connect(c) \/ ConnectFails(c) \/ SendToSession(c)
    PROVE  IInv'
<1>1. CASE Connect(c)
  BY <1>1, OpenedStep DEF Connect, Using
<1>2. CASE ConnectFails(c) /\ Free = {}
  BY <1>2, QuietStep DEF ConnectFails, IInv, Types, DeletedInOrder, ChoosersLive, Deletion, Stages
<1>3. CASE ConnectFails(c) /\ Free # {}
  <2>1. conn' = [conn EXCEPT ![c] = [stage |-> "gone", fd |-> Retired, thread |-> Main]]
    BY <1>3 DEF ConnectFails, Gone, New
  <2>2. UNCHANGED <<down, thread, hand, died>>
    BY <1>3 DEF ConnectFails
  <2> QED
    BY <2>1, <2>2 DEF IInv, Types, DeletedInOrder, ChoosersLive, Deletion, Stages
<1>4. CASE SendToSession(c)
  BY <1>4, QuietStep DEF SendToSession, IInv
<1> QED
  BY <1>1, <1>2, <1>3, <1>4

LEMMA ChooseStep == ASSUME IInv, NEW h \in Choosers, Choose(h) PROVE IInv'
<1>1. PICK least : hand' = [hand EXCEPT ![h] =
                     [conn |-> hand[h].conn, next |-> hand[h].next + 1, least |-> least,
                      result |-> IF Better(hand[h]) THEN hand[h].next ELSE hand[h].result]]
  BY DEF Choose
<1>2. hand[h].next \in IoThreads /\ hand[h].result \in IoThreads
  BY DEF Choose, IInv, Types
<1>3. Types' /\ ChoosersLive'
  <2>1. UNCHANGED <<down, thread, conn>>
    BY DEF Choose
  <2>2. DOMAIN hand' = DOMAIN hand
        /\ \A g \in Choosers : /\ hand'[g].conn = hand[g].conn
                               /\ hand'[g].next \in Nat \ {0}
                               /\ hand'[g].result \in IoThreads
    <3>1. h \in DOMAIN hand /\ DOMAIN hand = Choosers
      BY DEF IInv, Types
    <3>2. DOMAIN hand' = DOMAIN hand
      BY <1>1
    <3>3. hand'[h].conn = hand[h].conn /\ hand'[h].next = hand[h].next + 1
          /\ hand'[h].result \in {hand[h].next, hand[h].result}
      BY <1>1, <3>1
    <3>4. \A g \in Choosers : g # h => hand'[g] = hand[g]
      BY <1>1, <3>1
    <3>5. \A g \in Choosers : hand[g].next \in Nat \ {0} /\ hand[g].result \in IoThreads
      BY DEF IInv, Types
    <3>6. hand'[h].next \in Nat \ {0} /\ hand'[h].result \in IoThreads
      BY <1>2, <3>3
    <3> QED
      BY <3>2, <3>3, <3>4, <3>5, <3>6
  <2>3. Types'
    <3>1. \A g \in Choosers : hand'[g].conn \in 0..MaxConns
      BY <2>2 DEF IInv, Types
    <3> QED
      BY <2>1, <2>2, <3>1 DEF IInv, Types
  <2>4. ChoosersLive'
    BY <2>1, <2>2 DEF IInv, ChoosersLive
  <2> QED
    BY <2>3, <2>4
<1>4. DeletedInOrder' /\ died' # "deleted"
  BY DEF Choose, IInv, DeletedInOrder, Deletion
<1> QED
  BY <1>3, <1>4 DEF IInv

(* The I/O thread that is found is not deleted: the user's call comes      *)
(* before the destructor, the listener's before the main thread is joined. *)
LEMMA SendNewConnectionsStep ==
    ASSUME IInv, NEW h \in Choosers, SendNewConnections(h) PROVE IInv'
<1>1. PICK t \in IoThreads : t = hand[h].result
  BY DEF IInv, Types
<1>2. down <= 2
  <2>1. CASE h = "user"
    BY <2>1 DEF SendNewConnections, IInv, ChoosersLive
  <2>2. CASE h = "main"
    <3>1. thread[Main] \in {"running", "stopping"}
      BY <2>2 DEF SendNewConnections, IInv, ChoosersLive
    <3>2. ~(down > Deletion(Main))
      BY <3>1 DEF IInv, DeletedInOrder
    <3> QED
      BY <3>2 DEF Deletion, IInv, Types
  <2> QED
    BY <2>1, <2>2
<1>3. thread[t] # "deleted"
  <2>1. ~(down > Deletion(t)) /\ t \in Threads
    BY <1>2 DEF Deletion, IInv, Types
  <2> QED
    BY <2>1 DEF IInv, DeletedInOrder
<1>4. died' # "deleted"
  BY <1>1, <1>3 DEF SendNewConnections, SendCommand, IInv
<1>5. /\ conn' = [conn EXCEPT ![hand[h].conn] =
                      [stage |-> "mailed", fd |-> conn[hand[h].conn].fd, thread |-> t]]
      /\ hand' = [hand EXCEPT ![h] = [conn |-> 0, next |-> 1, least |-> -1, result |-> 1]]
  BY <1>1 DEF SendNewConnections, Idle
<1>6. Types'
  <2>1. hand[h].conn \in Conns
    BY DEF SendNewConnections, IInv, Types
  <2>2. conn' \in [Conns -> [stage : Stages, fd : Fds \cup {Retired}, thread : Pollers]]
    BY <2>1, <1>5 DEF IInv, Types, Stages
  <2> QED
    BY <2>2, <1>5 DEF SendNewConnections, IInv, Types
<1>7. ChoosersLive' /\ DeletedInOrder'
  BY <1>5 DEF SendNewConnections, IInv, Types, ChoosersLive, DeletedInOrder, Deletion
<1> QED
  BY <1>4, <1>6, <1>7 DEF IInv

(* What a thread does between "running" and "left" deletes nobody.         *)
LEMMA ThreadStep ==
    ASSUME IInv, NEW t \in Threads, NEW state \in {"running", "stopping", "left"},
           thread[t] # "deleted", thread' = [thread EXCEPT ![t] = state],
           t = Main => hand["main"].conn = 0 \/ state # "left",
           UNCHANGED <<down, hand, died>>,
           conn' \in [Conns -> [stage : Stages, fd : Fds \cup {Retired}, thread : Pollers]]
    PROVE  IInv'
<1>1. Types'
  BY DEF IInv, Types
<1>2. DeletedInOrder'
  <2> SUFFICES ASSUME NEW u \in Threads PROVE thread'[u] = "deleted" <=> down > Deletion(u)
    BY DEF DeletedInOrder, Deletion
  <2>1. thread'[u] = "deleted" <=> thread[u] = "deleted"
    BY DEF IInv, Types
  <2> QED
    BY <2>1 DEF IInv, DeletedInOrder
<1>3. ChoosersLive'
  <2>1. hand["main"].conn # 0 => thread'[Main] \in {"running", "stopping"}
    BY DEF IInv, Types, ChoosersLive
  <2> QED
    BY <2>1 DEF IInv, ChoosersLive
<1> QED
  BY <1>1, <1>2, <1>3 DEF IInv

LEMMA ConnsStay ==
    ASSUME IInv, UNCHANGED conn
    PROVE  conn' \in [Conns -> [stage : Stages, fd : Fds \cup {Retired}, thread : Pollers]]
BY DEF IInv, Types

LEMMA CloseKeepsType ==
    ASSUME IInv, NEW engines, Close(engines)
    PROVE  conn' \in [Conns -> [stage : Stages, fd : Fds \cup {Retired}, thread : Pollers]]
<1>1. Gone = [stage |-> "gone", fd |-> Retired, thread |-> Main]
  BY DEF Gone, New
<1> QED
  BY <1>1 DEF Close, IInv, Types, Stages

LEMMA LeaveStep == ASSUME IInv, NEW t \in Threads, Leave(t) PROVE IInv'
<1>1. hand["main"] = Idle => hand["main"].conn = 0
  BY DEF Idle
<1> QED
  BY <1>1, ThreadStep, ConnsStay DEF Leave

LEMMA MainReceivesStep == ASSUME IInv, MainReceives PROVE IInv'
<1>1. CASE UNCHANGED thread
  <2>1. died' # "deleted" /\ UNCHANGED <<down, thread, conn, hand>>
    BY <1>1 DEF MainReceives, IInv
  <2> QED
    BY <2>1 DEF IInv, Types, DeletedInOrder, ChoosersLive, Deletion, Stages
<1>2. CASE thread' = [thread EXCEPT ![Main] = "stopping"] /\ UNCHANGED died
  BY <1>2, ThreadStep, ConnsStay DEF MainReceives
<1> QED
  BY <1>1, <1>2 DEF MainReceives

LEMMA AcceptStep == ASSUME IInv, NEW c \in Conns, Accept(c) PROVE IInv'
<1>1. CASE Free = {}
  <2>1. died' # "deleted" /\ UNCHANGED <<down, thread, conn, hand>>
    BY <1>1 DEF Accept
  <2> QED
    BY <2>1 DEF IInv, Types, DeletedInOrder, ChoosersLive, Deletion, Stages
<1>2. CASE Free # {}
  BY <1>2, OpenedStep DEF Accept
<1> QED
  BY <1>1, <1>2

LEMMA IoReceivesStep == ASSUME IInv, NEW t \in IoThreads, IoReceives(t) PROVE IInv'
<1>1. CASE Head(mail[t]).type = "new_connections"
  <2>1. conn' = [conn EXCEPT ![Head(mail[t]).conn].stage = "engine"]
    BY <1>1 DEF IoReceives
  <2>2. conn' \in [Conns -> [stage : Stages, fd : Fds \cup {Retired}, thread : Pollers]]
    BY <2>1 DEF IInv, Types, Stages
  <2>3. UNCHANGED <<down, thread, hand>> /\ died' # "deleted"
    BY <1>1 DEF IoReceives, AddFd, IInv
  <2> QED
    BY <2>2, <2>3 DEF IInv, Types, DeletedInOrder, ChoosersLive, Deletion
<1>2. CASE Head(mail[t]).type = "stop"
  <2>1. conn' \in [Conns -> [stage : Stages, fd : Fds \cup {Retired}, thread : Pollers]]
    BY <1>2, CloseKeepsType DEF IoReceives
  <2> QED
    BY <1>2, <2>1, ThreadStep DEF IoReceives
<1> QED
  BY <1>1, <1>2 DEF IoReceives

LEMMA EngineErrorStep == ASSUME IInv, NEW c \in Conns, EngineError(c) PROVE IInv'
<1>1. conn' \in [Conns -> [stage : Stages, fd : Fds \cup {Retired}, thread : Pollers]]
  BY CloseKeepsType DEF EngineError
<1> QED
  BY <1>1 DEF EngineError, IInv, Types, DeletedInOrder, ChoosersLive, Deletion

(* Every thread that has engines is joined before the logical thread.      *)
LEMMA TakePacketStep == ASSUME IInv, NEW c \in Conns, TakePacket(c) PROVE IInv'
<1>1. PICK t \in Pollers : t = conn[c].thread /\ thread[t] = "running"
  BY DEF TakePacket, EngineRuns, IInv, Types
<1>2. ~(down > Deletion(t))
  BY <1>1 DEF IInv, DeletedInOrder
<1>3. ~(down > Deletion(Logical))
  BY <1>2 DEF Deletion, IInv, Types
<1>4. thread[Logical] # "deleted"
  BY <1>3 DEF IInv, DeletedInOrder
<1> QED
  BY <1>4, QuietStep DEF TakePacket, IInv

(* A step of the destructor that stops a thread comes before the one that  *)
(* deletes it, and every thread is deleted by one step.                    *)
LEMMA DestroyOrder ==
    ASSUME NEW d \in DOMAIN TearDown
    PROVE  /\ TearDown[d][1] = "delete" =>
                 TearDown[d][2] \in Threads /\ d = Deletion(TearDown[d][2])
           /\ TearDown[d][1] = "stop" =>
                 TearDown[d][2] \in Threads /\ d < Deletion(TearDown[d][2])
           /\ TearDown[d][1] # "delete" => \A u \in Threads : d # Deletion(u)
<1>0. d \in 1..(2 * NThreads + 5) /\ NThreads \in Nat \ {0}
  BY TearDownOrder
<1>1. CASE d \in {1, 2, 3}
  <2>1. \A u \in Threads : d = Deletion(u) => d = 2
    BY <1>0, <1>1 DEF Deletion
  <2>2. CASE d = 1
    BY <2>1, <2>2, TearDownOrder DEF Deletion
  <2>3. CASE d = 2
    BY <2>1, <2>3, TearDownOrder DEF Deletion
  <2>4. CASE d = 3
    BY <2>1, <2>4, TearDownOrder DEF Deletion
  <2> QED
    BY <1>1, <2>2, <2>3, <2>4
<1>2. CASE d \in 4..(NThreads + 3)
  <2>1. PICK t \in IoThreads : d = t + 3
    <3>1. d - 3 \in IoThreads /\ d = (d - 3) + 3
      BY <1>2, <1>0
    <3> QED
      BY <3>1
  <2>2. TearDown[d] = <<"stop", t>>
    BY <2>1, TearDownOrder
  <2>3. d < Deletion(t) /\ \A u \in Threads : d # Deletion(u)
    BY <1>0, <2>1 DEF Deletion
  <2> QED
    BY <2>2, <2>3
<1>3. CASE d \in (NThreads + 4)..(2 * NThreads + 3)
  <2>1. PICK t \in IoThreads : d = t + NThreads + 3
    <3>1. d - (NThreads + 3) \in IoThreads /\ d = (d - (NThreads + 3)) + NThreads + 3
      BY <1>3, <1>0
    <3> QED
      BY <3>1
  <2>2. TearDown[d] = <<"delete", t>>
    BY <2>1, TearDownOrder
  <2>3. d = Deletion(t)
    BY <1>0, <2>1 DEF Deletion
  <2> QED
    BY <2>2, <2>3
<1>4. CASE d = 2 * NThreads + 4
  <2>1. TearDown[d] = <<"stop", Logical>>
    BY <1>4, TearDownOrder
  <2>2. d < Deletion(Logical) /\ \A u \in Threads : d # Deletion(u)
    BY <1>0, <1>4 DEF Deletion
  <2> QED
    BY <2>1, <2>2
<1>5. CASE d = 2 * NThreads + 5
  <2>1. TearDown[d] = <<"delete", Logical>>
    BY <1>5, TearDownOrder
  <2>2. d = Deletion(Logical)
    BY <1>0, <1>5 DEF Deletion
  <2> QED
    BY <2>1, <2>2
<1>6. \/ d \in {1, 2, 3} \/ d \in 4..(NThreads + 3) \/ d \in (NThreads + 4)..(2 * NThreads + 3)
      \/ d = 2 * NThreads + 4 \/ d = 2 * NThreads + 5
  BY <1>0
<1> QED
  BY <1>1, <1>2, <1>3, <1>4, <1>5, <1>6

LEMMA DeletionsDiffer == \A t, u \in Threads : Deletion(t) = Deletion(u) => t = u
BY DEF Deletion

LEMMA DestroyStep == ASSUME IInv, Destroy PROVE IInv'
<1> DEFINE what == TearDown[down][1]
           t == TearDown[down][2]
<1>1. down \in DOMAIN TearDown /\ down' = down + 1 /\ UNCHANGED hand /\ down \in Nat \ {0}
  BY DEF Destroy, IInv, Types
<1>2. /\ what = "delete" => t \in Threads /\ down = Deletion(t)
      /\ what = "stop" => t \in Threads /\ down < Deletion(t)
      /\ what # "delete" => \A u \in Threads : down # Deletion(u)
  BY <1>1, DestroyOrder
<1>3. hand["user"].conn = 0
  BY DEF Destroy, Idle
<1>4. \A u \in Threads : Deletion(u) \in Nat
  BY DEF Deletion
<1>5. conn' \in [Conns -> [stage : Stages, fd : Fds \cup {Retired}, thread : Pollers]]
  <2>1. CASE what = "close"
    <3>1. conn' = [c \in Conns |-> IF conn[c].stage = "backlog"
                                   THEN [stage |-> "gone", fd |-> Retired, thread |-> Main] ELSE conn[c]]
      BY <2>1 DEF Destroy, Gone, New
    <3> QED
      BY <3>1 DEF IInv, Types, Stages
  <2>2. CASE what # "close"
    BY <2>2, ConnsStay DEF Destroy
  <2> QED
    BY <2>1, <2>2
<1> HIDE DEF what, t
<1>6. CASE what # "delete"
  <2>1. died' # "deleted"
    <3>1. CASE what = "stop" /\ t \in Pollers
      <4>1. thread[t] # "deleted"
        BY <1>1, <1>2, <1>4, <3>1 DEF IInv, DeletedInOrder
      <4> QED
        BY <3>1, <4>1 DEF what, t, Destroy, SendStop, SendCommand, IInv
    <3>2. CASE ~(what = "stop" /\ t \in Pollers)
      BY <1>6, <3>2 DEF what, t, Destroy, IInv
    <3> QED
      BY <3>1, <3>2
  <2>2. \/ UNCHANGED thread
        \/ what = "stop" /\ t = Logical /\ thread' = [thread EXCEPT ![Logical] = "stopping"]
    BY <1>6 DEF what, t, Destroy
  <2>3. ASSUME NEW u \in Threads PROVE thread'[u] = "deleted" <=> thread[u] = "deleted"
    <3>1. CASE what = "stop" /\ t = Logical /\ thread' = [thread EXCEPT ![Logical] = "stopping"]
      <4>1. thread[Logical] # "deleted"
        BY <3>1, <1>1, <1>2, <1>4 DEF IInv, DeletedInOrder
      <4> QED
        BY <3>1, <4>1 DEF IInv, Types
    <3> QED
      BY <2>2, <3>1
  <2>4. Types'
    BY <1>1, <1>5, <2>2 DEF IInv, Types
  <2>5. DeletedInOrder'
    <3> SUFFICES ASSUME NEW u \in Threads PROVE thread'[u] = "deleted" <=> down + 1 > Deletion(u)
      BY <1>1 DEF DeletedInOrder, Deletion
    <3>1. down # Deletion(u) /\ Deletion(u) \in Nat
      BY <1>2, <1>4, <1>6
    <3> QED
      BY <3>1, <1>1, <2>3 DEF IInv, DeletedInOrder
  <2>6. ChoosersLive'
    BY <1>1, <1>3, <2>2 DEF IInv, ChoosersLive, Types
  <2> QED
    BY <2>1, <2>4, <2>5, <2>6 DEF IInv
<1>7. CASE what = "delete"
  <2>1. thread[t] = "left" /\ thread' = [thread EXCEPT ![t] = "deleted"] /\ died' = died
    BY <1>7 DEF what, t, Destroy, Join
  <2>2. Types'
    <3>1. thread' \in [Threads -> {"running", "stopping", "left", "deleted"}]
      BY <2>1 DEF IInv, Types
    <3>2. UNCHANGED hand
      BY <1>1
    <3> QED
      BY ONLY <1>1, <1>5, <3>1, <3>2, IInv DEF IInv, Types
  <2>3. DeletedInOrder'
    <3> SUFFICES ASSUME NEW u \in Threads PROVE thread'[u] = "deleted" <=> down + 1 > Deletion(u)
      BY <1>1 DEF DeletedInOrder, Deletion
    <3>1. CASE u = t
      BY <3>1, <1>1, <1>2, <1>4, <1>7, <2>1 DEF IInv, Types
    <3>2. CASE u # t
      <4>1. Deletion(u) # down /\ Deletion(u) \in Nat
        BY <3>2, <1>2, <1>4, <1>7, DeletionsDiffer
      <4>2. thread'[u] = thread[u]
        BY <3>2, <2>1 DEF IInv, Types
      <4> QED
        BY <4>1, <4>2, <1>1 DEF IInv, DeletedInOrder
    <3> QED
      BY <3>1, <3>2
  <2>4. ChoosersLive'
    BY <1>1, <1>3, <2>1 DEF IInv, ChoosersLive, Types
  <2> QED
    BY <2>1, <2>2, <2>3, <2>4 DEF IInv
<1> QED
  BY <1>6, <1>7

LEMMA StepIInv == IInv /\ [Next]_vars => IInv'
<1> SUFFICES ASSUME IInv, [Next]_vars PROVE IInv'
  OBVIOUS
<1>1. CASE MainStep
  BY <1>1, MainReceivesStep, ChooseStep, SendNewConnectionsStep, AcceptStep, LeaveStep DEF MainStep
<1>2. CASE UserStep
  BY <1>2, ListenStep, ChooseStep, SendNewConnectionsStep, UserConnStep, DestroyStep DEF UserStep
<1>3. CASE Answer
  BY <1>3, QuietStep DEF Answer, IInv
<1>4. CASE Leave(Logical)
  BY <1>4, LeaveStep
<1>5. ASSUME NEW c \in Conns, TakePacket(c) PROVE IInv'
  BY <1>5, TakePacketStep
<1>6. ASSUME NEW c \in Conns, PeerConnects(c) PROVE IInv'
  <2>1. conn' = [conn EXCEPT ![c].stage = "backlog"] /\ UNCHANGED <<down, thread, hand, died>>
    BY <1>6 DEF PeerConnects
  <2>2. conn' \in [Conns -> [stage : Stages, fd : Fds \cup {Retired}, thread : Pollers]]
    BY <2>1 DEF IInv, Types, Stages
  <2> QED
    BY <2>1, <2>2 DEF IInv, Types, DeletedInOrder, ChoosersLive, Deletion
<1>7. ASSUME NEW c \in Conns, PeerLeaves(c) PROVE IInv'
  BY <1>7, QuietStep DEF PeerLeaves, IInv
<1>8. ASSUME NEW t \in IoThreads, IoStep(t) PROVE IInv'
  BY <1>8, IoReceivesStep, LeaveStep, EngineErrorStep DEF IoStep
<1>9. CASE UNCHANGED vars
  BY <1>9, QuietStep DEF vars, IInv
<1> QED
  BY <1>1, <1>2, <1>3, <1>4, <1>5, <1>6, <1>7, <1>8, <1>9 DEF Next, LogicalStep, Peer

(* For any number of I/O threads, connections and descriptors, and         *)
(* wherever the threads are when the destructor runs: nothing is sent to a *)
(* thread that has been deleted.                                           *)
THEOREM NothingSentToTheDead == Spec => []NothingSentToDeleted
<1>1. IInv => NothingSentToDeleted
  BY DEF IInv, NothingSentToDeleted
<1> QED
  BY <1>1, InitIInv, StepIInv, PTL DEF Spec
-----------------------------------------------------------------------------
(* Where connections are: whoever chooses a thread for one holds it alone, *)
(* one that has been mailed is in the mailbox of its thread once, and open *)
(* connections have descriptors of their own.                              *)
Commands == [type : {"register_accept", "new_connections", "stop"}, conn : 0..MaxConns]
Messages == [conn : Conns, session : Fds]

Sorts == /\ listener \in SetAddress \cup {"unset", "closed"} /\ registered \in BOOLEAN
         /\ mail \in [Pollers -> Seq(Commands)] /\ queue \in Seq(Messages)
         /\ DOMAIN session \subseteq Conns /\ \A c \in DOMAIN session : session[c] \in Fds
         /\ patient \in BOOLEAN /\ prompt \in BOOLEAN /\ stray \subseteq {"answer", "message"}
         /\ died \in {"no", "noSocket", "fullSignaler", "fullTable", "deleted"}

Descriptors == /\ \A c \in Conns : c \in Open <=> conn[c].fd \in Fds
               /\ \A c, d \in Open : conn[c].fd = conn[d].fd => c = d
               /\ \A c \in Conns : conn[c].stage \in {"mailed", "engine"} => conn[c].thread \in IoThreads

Hands == /\ \A h \in Choosers : hand[h].conn # 0 => conn[hand[h].conn].stage = "chosen"
         /\ hand["main"].conn # 0 => hand["main"].conn # hand["user"].conn

Delivered(t, m, conns, step) ==
    /\ m.type = "new_connections" => /\ t \in IoThreads /\ m.conn \in Conns
                                      /\ conns[m.conn].stage = "mailed"
                                      /\ conns[m.conn].thread = t
    /\ m.type = "stop" => step > (IF t = Main THEN 1 ELSE t + 3)
    /\ m.type = "register_accept" => t = Main

Mails == /\ \A t \in Pollers : \A i \in DOMAIN mail[t] : Delivered(t, mail[t][i], conn, down)
         /\ \A t \in Pollers : \A i, j \in DOMAIN mail[t] :
                /\ mail[t][i].type = "new_connections" /\ mail[t][j].type = "new_connections"
                /\ mail[t][i].conn = mail[t][j].conn
                => i = j

Ends == left \subseteq Open /\ \A c \in asked : c \in Conns /\ conn[c].stage = "engine"

(* Of a message for the logical thread: who sent it has the descriptor, or *)
(* a stopped I/O thread has closed it, when nothing is opened any more.    *)
Waits(m) == m.conn \in asked /\ conn[m.conn].fd = m.session

Unread(m) == /\ conn[m.conn].stage = "gone" /\ down > 3
             /\ \A d \in Open : conn[d].fd # m.session

Patience == patient => /\ left \cap asked = {}
                       /\ \A i \in DOMAIN queue : Waits(queue[i]) \/ Unread(queue[i])
                       /\ \A i, j \in DOMAIN queue : queue[i].conn = queue[j].conn => i = j
                       /\ "answer" \notin stray

Sessions == /\ \A c \in DOMAIN session : \/ conn[c].stage = "gone"
                                         \/ c \in Open /\ session[c] = conn[c].fd
            /\ "message" \in stray => \E c \in DOMAIN session : conn[c].stage = "gone"

Lives == Sorts /\ Descriptors /\ Hands /\ Mails /\ Ends /\ Patience /\ Sessions

LEMMA AppendAt ==
    ASSUME NEW S, NEW s \in Seq(S), NEW x \in S
    PROVE  /\ Append(s, x) \in Seq(S)
           /\ DOMAIN Append(s, x) = DOMAIN s \cup {Len(s) + 1} /\ Len(s) + 1 \notin DOMAIN s
           /\ \A i \in DOMAIN s : Append(s, x)[i] = s[i]
           /\ Append(s, x)[Len(s) + 1] = x
<1> DEFINE t == Append(s, x)
<1>1. /\ t \in Seq(S) /\ Len(t) = Len(s) + 1 /\ t[Len(s) + 1] = x
      /\ \A i \in 1..Len(s) : t[i] = s[i]
  BY AppendProperties
<1>2. Len(s) \in Nat /\ DOMAIN s = 1..Len(s) /\ DOMAIN t = 1..(Len(s) + 1)
  BY <1>1, LenProperties
<1> HIDE DEF t
<1> QED
  BY <1>1, <1>2 DEF t

LEMMA TailAt ==
    ASSUME NEW S, NEW s \in Seq(S), s # <<>>
    PROVE  /\ Tail(s) \in Seq(S) /\ Head(s) \in S
           /\ 1 \in DOMAIN s /\ Head(s) = s[1] /\ DOMAIN s \subseteq Int /\ DOMAIN Tail(s) \subseteq Int
           /\ \A i \in DOMAIN Tail(s) : i + 1 \in DOMAIN s /\ i + 1 # 1 /\ Tail(s)[i] = s[i + 1]
<1> DEFINE t == Tail(s)
<1>1. /\ Head(s) \in S /\ t \in Seq(S) /\ Head(s) = s[1]
      /\ Len(t) = Len(s) - 1 /\ \A i \in 1..Len(t) : t[i] = s[i + 1]
  BY HeadTailProperties
<1>2. /\ Len(s) \in Nat \ {0} /\ DOMAIN s = 1..Len(s) /\ DOMAIN t = 1..Len(t)
  BY <1>1, EmptySeq, LenProperties
<1> HIDE DEF t
<1> QED
  BY <1>1, <1>2 DEF t

LEMMA InitLives == Init => Lives
<1> SUFFICES ASSUME Init PROVE Lives
  OBVIOUS
<1>1. \A t \in Pollers : mail[t] = <<>> /\ DOMAIN mail[t] = {}
  BY DEF Init
<1>2. /\ \A c \in Conns : conn[c] = [stage |-> "new", fd |-> Retired, thread |-> 0]
      /\ \A h \in Choosers : hand[h].conn = 0
      /\ queue = <<>> /\ DOMAIN queue = {} /\ DOMAIN session = {}
      /\ left = {} /\ asked = {} /\ stray = {}
  BY DEF Init, New, Idle
<1>3. Sorts
  BY <1>1, EmptySeq DEF Init, Sorts, SetAddress
<1>4. Open = {}
  BY <1>2 DEF Open
<1>5. Descriptors /\ Hands /\ Mails /\ Ends /\ Patience /\ Sessions
  BY <1>1, <1>2, <1>4 DEF Descriptors, Hands, Mails, Ends, Patience, Sessions
<1> QED
  BY <1>3, <1>5 DEF Lives

(* No connection moves, no command, no message; the destructor may go on.  *)
LEMMA QuietLives ==
    ASSUME IInv, Lives,
           UNCHANGED <<mail, queue, conn, session, left, asked, patient, stray, prompt>>,
           \A h \in Choosers : hand'[h].conn = hand[h].conn,
           down' \in {down, down + 1},
           listener' \in SetAddress \cup {"unset", "closed"}, registered' \in BOOLEAN,
           died' \in {"no", "noSocket", "fullSignaler", "fullTable", "deleted"}
    PROVE  Lives'
<1>1. down \in Nat /\ down' >= down
  BY DEF IInv, Types
<1>2. Mails'
  <2>1. \A t \in Pollers : \A i \in DOMAIN mail[t] :
            mail[t][i].type = "stop" => down' > (IF t = Main THEN 1 ELSE t + 3)
    BY <1>1 DEF Lives, Mails, Delivered
  <2> QED
    BY <2>1 DEF Lives, Mails, Delivered
<1>3. Patience'
  BY <1>1 DEF Lives, Patience, Waits, Unread, Open
<1> QED
  BY <1>2, <1>3 DEF Lives, Sorts, Descriptors, Hands, Ends, Sessions, Open

(* A command other than "new_connections" goes to a thread.                *)
LEMMA SendLives ==
    ASSUME IInv, Lives, NEW t \in Pollers, NEW cmd \in Commands, SendCommand(t, cmd),
           cmd.type = "stop" => down' > (IF t = Main THEN 1 ELSE t + 3),
           cmd.type = "register_accept" => t = Main, cmd.type # "new_connections",
           UNCHANGED <<queue, conn, session, left, asked, patient, stray, prompt, hand>>,
           down' \in {down, down + 1},
           listener' \in SetAddress \cup {"unset", "closed"}, registered' \in BOOLEAN
    PROVE  Lives'
<1>1. down \in Nat /\ down' >= down
  BY DEF IInv, Types
<1>2. /\ mail' = [mail EXCEPT ![t] = Append(mail[t], cmd)] /\ mail[t] \in Seq(Commands)
      /\ died' \in {"no", "noSocket", "fullSignaler", "fullTable", "deleted"}
  BY DEF SendCommand, Lives, Sorts
<1>3. /\ mail'[t] \in Seq(Commands)
      /\ DOMAIN mail'[t] = DOMAIN mail[t] \cup {Len(mail[t]) + 1}
      /\ \A i \in DOMAIN mail[t] : mail'[t][i] = mail[t][i]
      /\ mail'[t][Len(mail[t]) + 1] = cmd
      /\ \A u \in Pollers : u # t => mail'[u] = mail[u]
      /\ mail' \in [Pollers -> Seq(Commands)]
  <2>1. mail'[t] = Append(mail[t], cmd) /\ \A u \in Pollers : u # t => mail'[u] = mail[u]
    BY <1>2 DEF Lives, Sorts
  <2>2. mail'[t] \in Seq(Commands)
    BY <1>2, <2>1, AppendAt
  <2> QED
    BY <1>2, <2>1, <2>2, AppendAt DEF Lives, Sorts
<1>4. \A u \in Pollers, m \in Commands : Delivered(u, m, conn, down) => Delivered(u, m, conn', down')
  BY <1>1 DEF Delivered
<1>5. Mails'
  <2>1. \A i \in DOMAIN mail[t] : mail[t][i] \in Commands
    BY <1>2, ElementOfSeq, LenProperties
  <2>2. Delivered(t, cmd, conn', down')
    BY DEF Delivered
  <2>3. \A i \in DOMAIN mail'[t] : Delivered(t, mail'[t][i], conn', down')
    BY <1>3, <1>4, <2>1, <2>2 DEF Lives, Mails
  <2>4. ASSUME NEW u \in Pollers, u # t, NEW i \in DOMAIN mail'[u]
        PROVE  Delivered(u, mail'[u][i], conn', down')
    <3>1. mail[u][i] \in Commands /\ mail'[u] = mail[u]
      BY <1>3, <2>4, ElementOfSeq, LenProperties DEF Lives, Sorts
    <3> QED
      BY <1>4, <2>4, <3>1 DEF Lives, Mails
  <2>5. \A u \in Pollers : \A i \in DOMAIN mail'[u] : Delivered(u, mail'[u][i], conn', down')
    BY <2>3, <2>4
  <2>6. ASSUME NEW u \in Pollers, NEW i \in DOMAIN mail'[u], NEW j \in DOMAIN mail'[u],
               mail'[u][i].type = "new_connections", mail'[u][j].type = "new_connections",
               mail'[u][i].conn = mail'[u][j].conn
        PROVE  i = j
    <3>1. i \in DOMAIN mail[u] /\ j \in DOMAIN mail[u]
      BY <1>3, <2>6
    <3> QED
      BY <1>3, <2>6, <3>1 DEF Lives, Mails
  <2> QED
    BY <2>5, <2>6 DEF Mails
<1>6. Patience'
  BY <1>1 DEF Lives, Patience, Waits, Unread, Open
<1> QED
  BY <1>2, <1>3, <1>5, <1>6 DEF Lives, Sorts, Descriptors, Hands, Ends, Sessions, Open

(* A command is delivered as before if its connection has not moved.        *)
LEMMA DeliveredKept ==
    ASSUME NEW u, NEW m, NEW before, NEW after, NEW step, Delivered(u, m, before, step),
           m.type = "new_connections" => after[m.conn] = before[m.conn]
    PROVE  Delivered(u, m, after, step)
  BY DEF Delivered

(* What is left in a mailbox when its first command has been taken, if the *)
(* connection of that command is the only one to move.                     *)
LEMMA ReceivedMails ==
    ASSUME IInv, Lives, NEW t \in Pollers, mail[t] # <<>>, mail' = [mail EXCEPT ![t] = Tail(@)],
           UNCHANGED down,
           \A c \in Conns : /\ conn[c].stage = "mailed"
                            /\ ~(mail[t][1].type = "new_connections" /\ c = mail[t][1].conn)
                            => conn'[c] = conn[c]
    PROVE  Mails' /\ mail' \in [Pollers -> Seq(Commands)]
<1>1. mail[t] \in Seq(Commands) /\ mail'[t] = Tail(mail[t])
      /\ \A u \in Pollers : u # t => mail'[u] = mail[u]
  BY DEF Lives, Sorts
<1>2. /\ mail'[t] \in Seq(Commands) /\ 1 \in DOMAIN mail[t] /\ DOMAIN mail'[t] \subseteq Int
      /\ \A i \in DOMAIN mail'[t] : i + 1 \in DOMAIN mail[t] /\ i + 1 # 1 /\ mail'[t][i] = mail[t][i + 1]
  <2>1. PICK s \in Seq(Commands) : s = mail[t] /\ mail'[t] = Tail(s)
    BY <1>1
  <2>2. s # <<>>
    BY <2>1
  <2>3. /\ Tail(s) \in Seq(Commands) /\ 1 \in DOMAIN s /\ DOMAIN Tail(s) \subseteq Int
        /\ \A i \in DOMAIN Tail(s) : i + 1 \in DOMAIN s /\ i + 1 # 1 /\ Tail(s)[i] = s[i + 1]
    BY <2>2, TailAt
  <2> QED
    BY <2>1, <2>3
<1>3. ASSUME NEW u \in Pollers, NEW i \in DOMAIN mail'[u]
      PROVE  /\ Delivered(u, mail'[u][i], conn, down)
             /\ ~(/\ mail'[u][i].type = "new_connections" /\ mail[t][1].type = "new_connections"
                  /\ mail'[u][i].conn = mail[t][1].conn)
  <2>1. CASE u = t
    <3>1. /\ i + 1 \in DOMAIN mail[t] /\ i + 1 # 1 /\ mail'[u][i] = mail[t][i + 1]
          /\ 1 \in DOMAIN mail[t]
      BY <1>2, <2>1
    <3>2. Delivered(t, mail[t][i + 1], conn, down)
      BY <3>1 DEF Lives, Mails
    <3>3. ~(/\ mail[t][i + 1].type = "new_connections" /\ mail[t][1].type = "new_connections"
            /\ mail[t][i + 1].conn = mail[t][1].conn)
      BY <3>1 DEF Lives, Mails
    <3> QED
      BY <2>1, <3>1, <3>2, <3>3
  <2>2. CASE u # t
    <3>1. mail'[u] = mail[u]
      BY <1>1, <2>2
    <3> QED
      BY <1>2, <2>2, <3>1 DEF Lives, Mails, Delivered
  <2> QED
    BY <2>1, <2>2
<1>4. ASSUME NEW u \in Pollers, NEW i \in DOMAIN mail'[u]
      PROVE  Delivered(u, mail'[u][i], conn', down')
  <2>1. Delivered(u, mail'[u][i], conn, down) /\ down' = down
    BY <1>3
  <2>2. ASSUME mail'[u][i].type = "new_connections"
        PROVE  conn'[mail'[u][i].conn] = conn[mail'[u][i].conn]
    <3>1. mail'[u][i].conn \in Conns /\ conn[mail'[u][i].conn].stage = "mailed"
      BY <2>1, <2>2 DEF Delivered
    <3> QED
      BY <1>3, <2>2, <3>1
  <2> QED
    BY <2>1, <2>2, DeliveredKept
<1>5. ASSUME NEW u \in Pollers, NEW i \in DOMAIN mail'[u], NEW j \in DOMAIN mail'[u],
             mail'[u][i].type = "new_connections", mail'[u][j].type = "new_connections",
             mail'[u][i].conn = mail'[u][j].conn
      PROVE  i = j
  <2>1. CASE u = t
    <3>1. i + 1 = j + 1
      <4>1. /\ i + 1 \in DOMAIN mail[t] /\ mail'[u][i] = mail[t][i + 1]
            /\ j + 1 \in DOMAIN mail[t] /\ mail'[u][j] = mail[t][j + 1]
        BY <1>2, <2>1
      <4> QED
        BY <1>5, <4>1 DEF Lives, Mails
    <3>2. i \in Int /\ j \in Int
      BY <1>2, <2>1
    <3> QED
      BY <3>1, <3>2
  <2>2. CASE u # t
    BY <1>1, <1>5, <2>2 DEF Lives, Mails
  <2> QED
    BY <2>1, <2>2
<1> QED
  BY <1>1, <1>2, <1>4, <1>5 DEF Mails, Lives, Sorts
(* A descriptor that is free goes to connection c.                         *)
LEMMA OpenedLives ==
    ASSUME IInv, Lives, NEW h \in Choosers, NEW c \in Conns, Opened(h, c),
           conn[c].stage \in {"new", "backlog"}, down <= 2, c \notin DOMAIN session,
           \/ UNCHANGED session
           \/ session' = [s \in DOMAIN session \cup {c} |-> IF s = c THEN conn'[c].fd ELSE session[s]],
           UNCHANGED <<listener, registered, down, mail, queue, left, asked, patient, stray, died>>
    PROVE  Lives'
<1>1. PICK f \in Free : conn' = [conn EXCEPT ![c] = [stage |-> "chosen", fd |-> f, thread |-> Main]]
  BY DEF Opened
<1>2. /\ conn'[c] = [stage |-> "chosen", fd |-> f, thread |-> 0]
      /\ \A d \in Conns : d # c => conn'[d] = conn[d]
      /\ f \in Fds /\ \A d \in Open : conn[d].fd # f
  BY <1>1 DEF Free, IInv, Types
<1>3. hand'[h].conn = c /\ \A g \in Choosers : g # h => hand'[g] = hand[g]
  <2>1. [Idle EXCEPT !.conn = c] = [conn |-> c, next |-> 1, least |-> -1, result |-> 1]
    BY DEF Idle
  <2>2. hand' = [hand EXCEPT ![h] = [conn |-> c, next |-> 1, least |-> -1, result |-> 1]]
    BY <2>1 DEF Opened
  <2> QED
    BY <2>2 DEF IInv, Types
<1>4. c \notin Open /\ \A d \in Conns : d \in Open' <=> d \in Open \/ d = c
  BY <1>2 DEF Open
<1>5. Sorts'
  <2>1. DOMAIN session' \subseteq Conns /\ \A s \in DOMAIN session' : session'[s] \in Fds
    <3>1. DOMAIN session \subseteq Conns /\ \A s \in DOMAIN session : session[s] \in Fds
      BY DEF Lives, Sorts
    <3>2. CASE UNCHANGED session
      BY <3>1, <3>2
    <3>3. CASE session' = [s \in DOMAIN session \cup {c} |-> IF s = c THEN conn'[c].fd ELSE session[s]]
      <4>1. DOMAIN session' = DOMAIN session \cup {c} /\ conn'[c].fd \in Fds
        BY <1>2, <3>3
      <4> QED
        BY <3>1, <3>3, <4>1
    <3> QED
      BY <3>2, <3>3
  <2>2. prompt' \in BOOLEAN
    BY DEF Opened, Lives, Sorts
  <2> QED
    BY <2>1, <2>2 DEF Lives, Sorts
<1>6. Descriptors'
  <2>1. \A d \in Conns : d \in Open' <=> conn'[d].fd \in Fds
    BY <1>2, <1>4 DEF Lives, Descriptors
  <2>2. \A d, e \in Open' : d \in Conns /\ e \in Conns /\ (conn'[d].fd = conn'[e].fd => d = e)
    <3>1. \A d \in Open' : d \in Conns
      BY DEF Open
    <3> QED
      BY <1>2, <1>4, <3>1 DEF Lives, Descriptors
  <2>3. \A d \in Conns : conn'[d].stage \in {"mailed", "engine"} => conn'[d].thread \in IoThreads
    BY <1>2 DEF Lives, Descriptors
  <2> QED
    BY <2>1, <2>2, <2>3 DEF Descriptors
<1>7. Hands'
  <2>1. \A g \in Choosers : hand[g].conn # 0 => hand[g].conn # c /\ hand[g].conn \in Conns
    BY DEF Lives, Hands, IInv, Types
  <2> QED
    BY <1>2, <1>3, <2>1 DEF Lives, Hands
<1>8. Mails'
  BY <1>2 DEF Lives, Mails, Delivered
<1>9. Ends'
  BY <1>2, <1>4 DEF Lives, Ends, Open
<1>10. Patience'
  <2>1. \A m \in Messages : Waits(m) => m.conn \in asked /\ conn'[m.conn].fd = m.session
    BY <1>2 DEF Lives, Ends, Waits
  <2>2. \A m : ~Unread(m)
    BY DEF Unread, IInv, Types
  <2>3. \A i \in DOMAIN queue : queue[i] \in Messages
    BY ElementOfSeq, LenProperties DEF Lives, Sorts
  <2> QED
    BY <2>1, <2>2, <2>3 DEF Lives, Patience, Waits
<1>11. Sessions'
  <2>1. \A s \in DOMAIN session : s \in Conns /\ s # c /\ session'[s] = session[s] /\ s \in DOMAIN session'
    BY DEF Lives, Sorts
  <2>2. \A s \in DOMAIN session' : s \in DOMAIN session \/ (s = c /\ session'[c] = conn'[c].fd)
    OBVIOUS
  <2> QED
    BY <1>2, <1>4, <2>1, <2>2 DEF Lives, Sessions
<1> QED
  BY <1>5, <1>6, <1>7, <1>8, <1>9, <1>10, <1>11 DEF Lives

(* A connection that is not open yet comes to the listener, or is gone.    *)
LEMMA AsideLives ==
    ASSUME IInv, Lives,
           \A c \in Conns : \/ conn'[c] = conn[c]
                            \/ /\ conn[c].stage \in {"new", "backlog"} /\ conn'[c].fd \notin Fds
                               /\ conn'[c].stage \in {"backlog", "gone"},
           UNCHANGED <<registered, mail, queue, hand, session, left, asked, patient, prompt, stray, died>>,
           down' \in {down, down + 1}, listener' \in SetAddress \cup {"unset", "closed"}
    PROVE  Lives'
<1>1. down \in Nat /\ down' >= down
  BY DEF IInv, Types
<1>2. \A c \in Conns : c \in Open \/ conn[c].stage = "gone" => conn'[c] = conn[c]
  BY DEF Open
<1>3. Open' = Open
  BY <1>2 DEF Open
<1>4. Sorts'
  BY DEF Lives, Sorts
<1>5. Descriptors'
  BY <1>2, <1>3 DEF Lives, Descriptors, Open
<1>6. Hands'
  BY <1>2 DEF Lives, Hands, Open, IInv, Types
<1>7. Mails'
  BY <1>1 DEF Lives, Mails, Delivered
<1>8. Ends'
  BY <1>2, <1>3 DEF Lives, Ends, Open
<1>9. Patience'
  <2>1. \A m \in Messages : (Waits(m) => Waits(m)') /\ (Unread(m) => Unread(m)')
    BY <1>1, <1>2, <1>3 DEF Lives, Ends, Waits, Unread, Open, Messages
  <2>2. \A i \in DOMAIN queue : queue[i] \in Messages
    BY ElementOfSeq, LenProperties DEF Lives, Sorts
  <2> QED
    BY <2>1, <2>2 DEF Lives, Patience, Waits, Unread
<1>10. Sessions'
  BY <1>2, <1>3 DEF Lives, Sessions, Open, Sorts
<1> QED
  BY <1>4, <1>5, <1>6, <1>7, <1>8, <1>9, <1>10 DEF Lives

(* The user sends by the descriptor that the session had when it began.    *)
LEMMA SendToSessionLives == ASSUME IInv, Lives, NEW c \in Conns, SendToSession(c) PROVE Lives'
<1>1. /\ c \in DOMAIN session
      /\ stray' = IF \E d \in Open \ {c} : conn[d].fd = session[c] THEN stray \cup {"message"} ELSE stray
      /\ UNCHANGED <<listener, registered, down, mail, queue, conn, hand, session, left, asked,
                     patient, prompt, died>>
  BY DEF SendToSession
<1>2. stray' # stray => conn[c].stage = "gone"
  BY <1>1 DEF Lives, Sessions, Descriptors
<1>3. Sessions'
  BY <1>1, <1>2 DEF Lives, Sessions, Open
<1>4. Patience'
  <2>1. "answer" \in stray' => "answer" \in stray
    BY <1>1
  <2> QED
    BY <1>1, <2>1 DEF Lives, Patience, Waits, Unread, Open
<1> QED
  BY <1>1, <1>3, <1>4 DEF Lives, Sorts, Descriptors, Hands, Mails, Ends, Open

(* The chosen connection goes into the mailbox of its thread, where it has *)
(* not been, and out of the hand.                                          *)
LEMMA SendNewConnectionsLives ==
    ASSUME IInv, Lives, NEW h \in Choosers, SendNewConnections(h) PROVE Lives'
<1> DEFINE c == hand[h].conn
           t == hand[h].result
           cmd == [type |-> "new_connections", conn |-> c]
<1>1. /\ c \in Conns /\ t \in IoThreads /\ cmd \in Commands /\ conn[c].stage = "chosen"
      /\ conn' = [conn EXCEPT ![c] = [stage |-> "mailed", fd |-> conn[c].fd, thread |-> t]]
      /\ mail' = [mail EXCEPT ![t] = Append(mail[t], cmd)] /\ mail[t] \in Seq(Commands)
      /\ hand' = [hand EXCEPT ![h] = [conn |-> 0, next |-> 1, least |-> -1, result |-> 1]]
      /\ died' \in {"no", "noSocket", "fullSignaler", "fullTable", "deleted"}
      /\ UNCHANGED <<listener, registered, down, queue, session, left, asked, patient, prompt, stray>>
  <2>1. c \in Conns /\ t \in IoThreads /\ conn[c].stage = "chosen" /\ mail[t] \in Seq(Commands)
    BY DEF SendNewConnections, IInv, Types, Lives, Hands, Sorts
  <2>2. cmd \in Commands
    BY <2>1 DEF Commands
  <2>3. hand' = [hand EXCEPT ![h] = [conn |-> 0, next |-> 1, least |-> -1, result |-> 1]]
    BY DEF SendNewConnections, Idle
  <2>4. /\ conn' = [conn EXCEPT ![c] = [stage |-> "mailed", fd |-> conn[c].fd, thread |-> t]]
        /\ mail' = [mail EXCEPT ![t] = Append(mail[t], cmd)]
        /\ died' \in {"no", "noSocket", "fullSignaler", "fullTable", "deleted"}
        /\ UNCHANGED <<listener, registered, down, queue, session, left, asked, patient, prompt, stray>>
    BY DEF SendNewConnections, SendCommand, Lives, Sorts
  <2> QED
    BY <2>1, <2>2, <2>3, <2>4
<1>2. /\ conn'[c].stage = "mailed" /\ conn'[c].fd = conn[c].fd /\ conn'[c].thread = t
      /\ \A d \in Conns : d # c => conn'[d] = conn[d]
      /\ \A d \in Conns : conn'[d].fd = conn[d].fd
  BY <1>1 DEF IInv, Types
<1>3. /\ mail'[t] \in Seq(Commands)
      /\ DOMAIN mail'[t] = DOMAIN mail[t] \cup {Len(mail[t]) + 1}
      /\ Len(mail[t]) + 1 \notin DOMAIN mail[t]
      /\ \A i \in DOMAIN mail[t] : mail'[t][i] = mail[t][i]
      /\ mail'[t][Len(mail[t]) + 1] = cmd
      /\ \A u \in Pollers : u # t => mail'[u] = mail[u]
      /\ mail' \in [Pollers -> Seq(Commands)]
  <2>1. mail'[t] = Append(mail[t], cmd) /\ \A u \in Pollers : u # t => mail'[u] = mail[u]
    BY <1>1 DEF Lives, Sorts
  <2>2. PICK s \in Seq(Commands) : s = mail[t] /\ mail'[t] = Append(s, cmd)
    BY <1>1, <2>1
  <2>3. /\ Append(s, cmd) \in Seq(Commands)
        /\ DOMAIN Append(s, cmd) = DOMAIN s \cup {Len(s) + 1} /\ Len(s) + 1 \notin DOMAIN s
        /\ \A i \in DOMAIN s : Append(s, cmd)[i] = s[i]
        /\ Append(s, cmd)[Len(s) + 1] = cmd
    BY <1>1, AppendAt
  <2>4. mail' \in [Pollers -> Seq(Commands)]
    BY <1>1, <2>2, <2>3 DEF Lives, Sorts
  <2> QED
    BY <2>1, <2>2, <2>3, <2>4
<1>4. hand'[h].conn = 0 /\ \A g \in Choosers : g # h => hand'[g] = hand[g]
  BY <1>1 DEF IInv, Types
<1> HIDE DEF c, t
<1>5. Open' = Open /\ \A d \in Conns : conn[d].stage \in {"engine", "gone"} => conn'[d] = conn[d]
  BY <1>1, <1>2 DEF Open
<1>6. Sorts'
  BY <1>1, <1>3 DEF Lives, Sorts
<1>7. Descriptors'
  BY <1>1, <1>2, <1>5 DEF Lives, Descriptors, Open
<1>8. Hands'
  <2>1. \A g \in Choosers : g # h /\ hand[g].conn # 0 => hand[g].conn # c /\ hand[g].conn \in Conns
    BY DEF Lives, Hands, IInv, Types, c
  <2> QED
    BY <1>2, <1>4, <2>1 DEF Lives, Hands
<1>9. Mails'
  <2>1. ASSUME NEW u \in Pollers, NEW i \in DOMAIN mail[u]
        PROVE  /\ Delivered(u, mail[u][i], conn', down')
               /\ mail[u][i].type = "new_connections" => mail[u][i].conn # c
    BY <1>1, <1>2 DEF Lives, Mails, Delivered
  <2>2. Delivered(t, cmd, conn', down') /\ cmd.type = "new_connections" /\ cmd.conn = c
    BY <1>1, <1>2 DEF Delivered
  <2> HIDE DEF cmd
  <2>3. ASSUME NEW u \in Pollers, NEW i \in DOMAIN mail'[u]
        PROVE  Delivered(u, mail'[u][i], conn', down')
    <3>1. CASE u = t
      <4>1. CASE i \in DOMAIN mail[t]
        <5>1. mail'[u][i] = mail[t][i] /\ t \in Pollers
          BY <1>1, <1>3, <3>1, <4>1
        <5> QED
          BY <2>1, <3>1, <4>1, <5>1
      <4>2. CASE i = Len(mail[t]) + 1
        BY <1>3, <2>2, <3>1, <4>2
      <4> QED
        BY <1>3, <3>1, <4>1, <4>2
    <3>2. CASE u # t
      <4>1. mail'[u] = mail[u]
        BY <1>3, <3>2
      <4> QED
        BY <2>1, <4>1
    <3> QED
      BY <3>1, <3>2
  <2>4. ASSUME NEW u \in Pollers, NEW i \in DOMAIN mail'[u], NEW j \in DOMAIN mail'[u],
               mail'[u][i].type = "new_connections", mail'[u][j].type = "new_connections",
               mail'[u][i].conn = mail'[u][j].conn
        PROVE  i = j
    <3>1. CASE u = t
      <4>1. CASE i \in DOMAIN mail[t] /\ j \in DOMAIN mail[t]
        BY <1>1, <1>3, <2>4, <3>1, <4>1 DEF Lives, Mails
      <4>2. CASE i = Len(mail[t]) + 1 \/ j = Len(mail[t]) + 1
        BY <1>1, <1>3, <2>1, <2>2, <2>4, <3>1, <4>2
      <4> QED
        BY <1>3, <3>1, <4>1, <4>2
    <3>2. CASE u # t
      BY <1>3, <2>4, <3>2 DEF Lives, Mails
    <3> QED
      BY <3>1, <3>2
  <2> QED
    BY <2>3, <2>4 DEF Mails
<1>10. Ends'
  BY <1>1, <1>5 DEF Lives, Ends
<1>11. Patience'
  <2>1. \A m \in Messages : (Waits(m) => Waits(m)') /\ (Unread(m) => Unread(m)')
    BY <1>1, <1>2, <1>5 DEF Lives, Waits, Unread, Open, Messages
  <2>2. \A i \in DOMAIN queue : queue[i] \in Messages
    BY ElementOfSeq, LenProperties DEF Lives, Sorts
  <2> QED
    BY <1>1, <2>1, <2>2 DEF Lives, Patience, Waits, Unread
<1>12. Sessions'
  BY <1>1, <1>2, <1>5 DEF Lives, Sessions, Sorts
<1> QED
  BY <1>6, <1>7, <1>8, <1>9, <1>10, <1>11, <1>12 DEF Lives

(* The engine of a connection in the mailbox of a thread is plugged.       *)
LEMMA PlugLives ==
    ASSUME IInv, Lives, NEW t \in IoThreads, IoReceives(t), Head(mail[t]).type = "new_connections"
    PROVE  Lives'
<1> DEFINE c == Head(mail[t]).conn
<1>1. /\ mail[t] # <<>> /\ mail' = [mail EXCEPT ![t] = Tail(@)]
      /\ conn' = [conn EXCEPT ![c].stage = "engine"]
      /\ UNCHANGED <<listener, registered, down, queue, hand, session, left, asked,
                     patient, prompt, stray>>
      /\ died' \in {"no", "noSocket", "fullSignaler", "fullTable", "deleted"}
  <2>1. died \in {"no", "noSocket", "fullSignaler", "fullTable", "deleted"}
    BY DEF Lives, Sorts
  <2> QED
    BY <2>1 DEF IoReceives, AddFd
<1>2. mail[t] \in Seq(Commands) /\ 1 \in DOMAIN mail[t] /\ Head(mail[t]) = mail[t][1]
  BY <1>1, TailAt DEF Lives, Sorts
<1>3. /\ c \in Conns /\ conn[c].stage = "mailed" /\ conn[c].thread = t
      /\ mail[t][1].type = "new_connections" /\ c = mail[t][1].conn
  BY <1>2 DEF Lives, Mails, Delivered
<1> HIDE DEF c
<1>4. /\ conn'[c].stage = "engine" /\ conn'[c].fd = conn[c].fd /\ conn'[c].thread = t
      /\ \A d \in Conns : d # c => conn'[d] = conn[d]
      /\ \A d \in Conns : conn'[d].fd = conn[d].fd
  BY <1>1, <1>3 DEF IInv, Types
<1>5. /\ Open' = Open
      /\ \A d \in Conns : conn[d].stage \in {"chosen", "engine", "gone"} => conn'[d] = conn[d]
  BY <1>3, <1>4 DEF Open
<1>6. Mails' /\ mail' \in [Pollers -> Seq(Commands)]
  BY <1>1, <1>3, <1>4, ReceivedMails
<1>7. Sorts'
  BY <1>1, <1>6 DEF Lives, Sorts
<1>8. Descriptors'
  BY <1>3, <1>4, <1>5 DEF Lives, Descriptors, Open
<1>9. Hands'
  BY <1>1, <1>5 DEF Lives, Hands, IInv, Types
<1>10. Ends'
  BY <1>1, <1>5 DEF Lives, Ends
<1>11. Patience'
  <2>1. \A m \in Messages : (Waits(m) => Waits(m)') /\ (Unread(m) => Unread(m)')
    BY <1>1, <1>4, <1>5 DEF Lives, Waits, Unread, Open, Messages
  <2>2. \A i \in DOMAIN queue : queue[i] \in Messages
    BY ElementOfSeq, LenProperties DEF Lives, Sorts
  <2> QED
    BY <1>1, <2>1, <2>2 DEF Lives, Patience, Waits, Unread
<1>12. Sessions'
  <2>1. \A s \in DOMAIN session : s \in Conns
    BY DEF Lives, Sorts
  <2>2. ASSUME NEW s \in DOMAIN session
        PROVE  conn'[s].stage = "gone" \/ (s \in Open' /\ session[s] = conn'[s].fd)
    <3>1. s \in Conns /\ (conn[s].stage = "gone" \/ (s \in Open /\ session[s] = conn[s].fd))
      BY <2>1 DEF Lives, Sessions
    <3> QED
      BY <1>1, <1>4, <1>5, <3>1
  <2>3. \A s \in DOMAIN session : conn[s].stage = "gone" => conn'[s].stage = "gone"
    BY <1>1, <1>4, <1>5, <2>1
  <2> QED
    BY <1>1, <2>2, <2>3 DEF Lives, Sessions
<1> QED
  BY <1>6, <1>7, <1>8, <1>9, <1>10, <1>11, <1>12 DEF Lives

(* Engines close their connections: whoever waited for an answer is not    *)
(* there any more, and nobody else has its descriptor.                     *)
LEMMA CloseLives ==
    ASSUME IInv, Lives, NEW engines, Close(engines),
           \A c \in engines : c \in Conns /\ conn[c].stage = "engine",
           Mails', mail' \in [Pollers -> Seq(Commands)],
           patient => down > 3 \/ engines \cap asked = {},
           UNCHANGED <<listener, registered, down, queue, hand, session, patient, stray, died>>
    PROVE  Lives'
<1>1. \A c \in Conns : IF c \in engines THEN conn'[c].stage = "gone" /\ conn'[c].fd \notin Fds
                                        ELSE conn'[c] = conn[c]
  BY DEF Close, Gone, New
<1>2. \A c \in Conns : c \in Open' <=> c \in Open /\ c \notin engines
  BY <1>1 DEF Open
<1>3. \A c \in engines : c \in Conns /\ c \in Open
  BY DEF Open
<1>4. Open' \subseteq Open /\ Open \subseteq Conns
  BY <1>2 DEF Open
<1>5. left' = left \ engines /\ asked' = asked \ engines /\ prompt' \in BOOLEAN
  BY DEF Close
<1>6. Sorts'
  BY <1>5 DEF Lives, Sorts
<1>7. Descriptors'
  <2>1. ASSUME NEW c \in Conns
        PROVE  /\ c \in Open' <=> conn'[c].fd \in Fds
               /\ conn'[c].stage \in {"mailed", "engine"} => conn'[c].thread \in IoThreads
    BY <1>1, <1>2 DEF Lives, Descriptors
  <2>2. \A c, d \in Open' : conn'[c].fd = conn'[d].fd => c = d
    BY <1>1, <1>2, <1>4 DEF Lives, Descriptors
  <2> QED
    BY <2>1, <2>2 DEF Descriptors
<1>8. Hands'
  <2>1. ASSUME NEW h \in Choosers, hand[h].conn # 0 PROVE conn'[hand[h].conn].stage = "chosen"
    <3>1. hand[h].conn \in Conns /\ conn[hand[h].conn].stage = "chosen"
      BY <2>1 DEF Lives, Hands, IInv, Types
    <3> QED
      BY <1>1, <3>1
  <2> QED
    BY <2>1 DEF Lives, Hands
<1>9. Ends'
  BY <1>1, <1>2, <1>5 DEF Lives, Ends, Open
<1>10. Patience'
  <2> SUFFICES ASSUME patient PROVE Patience'
    BY DEF Patience
  <2>1. ASSUME NEW m \in Messages, Waits(m)
        PROVE  \/ m.conn \in asked' /\ conn'[m.conn].fd = m.session
               \/ /\ conn'[m.conn].stage = "gone" /\ down' > 3
                  /\ \A d \in Open' : conn'[d].fd # m.session
    <3>1. m.conn \in Conns /\ m.conn \in asked /\ conn[m.conn].fd = m.session /\ m.session \in Fds
      BY <2>1 DEF Waits, Messages
    <3>2. CASE m.conn \notin engines
      BY <1>1, <1>5, <3>1, <3>2
    <3>3. CASE m.conn \in engines
      <4>1. down' > 3 /\ conn'[m.conn].stage = "gone" /\ m.conn \in Open
        BY <1>1, <1>3, <3>1, <3>3
      <4>2. \A d \in Open' : conn'[d] = conn[d] /\ d # m.conn /\ d \in Open
        BY <1>1, <1>2, <1>4, <3>3
      <4> QED
        BY <3>1, <4>1, <4>2 DEF Lives, Descriptors
    <3> QED
      BY <3>2, <3>3
  <2>2. ASSUME NEW m \in Messages, Unread(m)
        PROVE  /\ conn'[m.conn].stage = "gone" /\ down' > 3
               /\ \A d \in Open' : conn'[d].fd # m.session
    BY <1>1, <1>2, <1>4, <2>2 DEF Unread, Messages
  <2>3. \A i \in DOMAIN queue : queue[i] \in Messages
    BY ElementOfSeq, LenProperties DEF Lives, Sorts
  <2>4. \A i \in DOMAIN queue' : Waits(queue[i])' \/ Unread(queue[i])'
    BY <2>1, <2>2, <2>3 DEF Lives, Patience, Waits, Unread
  <2> QED
    BY <1>5, <2>4 DEF Lives, Patience
<1>11. Sessions'
  <2>1. \A s \in DOMAIN session : s \in Conns
    BY DEF Lives, Sorts
  <2>2. ASSUME NEW s \in DOMAIN session
        PROVE  conn'[s].stage = "gone" \/ (s \in Open' /\ session[s] = conn'[s].fd)
    <3>1. s \in Conns /\ (conn[s].stage = "gone" \/ (s \in Open /\ session[s] = conn[s].fd))
      BY <2>1 DEF Lives, Sessions
    <3> QED
      BY <1>1, <1>2, <3>1
  <2>3. \A s \in DOMAIN session : conn[s].stage = "gone" => conn'[s].stage = "gone"
    BY <1>1, <1>2, <2>1
  <2> QED
    BY <1>1, <2>2, <2>3 DEF Lives, Sessions
<1> QED
  BY <1>6, <1>7, <1>8, <1>9, <1>10, <1>11 DEF Lives

(* An I/O thread is stopped when the main thread, which accepts, is gone.  *)
LEMMA IoStopLives ==
    ASSUME IInv, Lives, NEW t \in IoThreads, IoReceives(t), Head(mail[t]).type = "stop"
    PROVE  Lives'
<1>1. /\ mail[t] # <<>> /\ mail' = [mail EXCEPT ![t] = Tail(@)]
      /\ Close({c \in Conns : conn[c].stage = "engine" /\ conn[c].thread = t})
      /\ UNCHANGED <<listener, registered, down, queue, hand, session, patient, stray, died>>
  BY DEF IoReceives
<1>2. mail[t] \in Seq(Commands) /\ 1 \in DOMAIN mail[t] /\ Head(mail[t]) = mail[t][1]
  BY <1>1, TailAt DEF Lives, Sorts
<1>3. down > 3
  <2>1. Delivered(t, mail[t][1], conn, down)
    BY <1>2 DEF Lives, Mails
  <2>2. down > t + 3
    BY <1>2, <2>1 DEF Delivered
  <2> QED
    BY <2>2 DEF IInv, Types
<1>4. \A c \in Conns : conn[c].stage = "mailed" => conn'[c] = conn[c]
  BY <1>1 DEF Close
<1>5. Mails' /\ mail' \in [Pollers -> Seq(Commands)]
  BY <1>1, <1>4, ReceivedMails
<1> QED
  BY <1>1, <1>3, <1>5, CloseLives

(* A patient peer's engine ends when its peer has left, which has its      *)
(* answer.                                                                 *)
LEMMA EngineErrorLives == ASSUME IInv, Lives, NEW c \in Conns, EngineError(c) PROVE Lives'
<1>1. /\ conn[c].stage = "engine" /\ (c \in left \/ ~patient) /\ Close({c})
      /\ UNCHANGED <<listener, registered, down, mail, queue, hand, session, patient, stray, died>>
  BY DEF EngineError, EngineRuns
<1>2. \A d \in Conns : conn[d].stage = "mailed" => conn'[d] = conn[d]
  BY <1>1 DEF Close
<1>3. Mails' /\ mail' \in [Pollers -> Seq(Commands)]
  <2>1. \A t \in Pollers : \A i \in DOMAIN mail[t] : Delivered(t, mail[t][i], conn', down)
    BY <1>1, <1>2 DEF Lives, Mails, Delivered
  <2>2. mail' = mail /\ down' = down /\ mail \in [Pollers -> Seq(Commands)]
    BY <1>1 DEF Lives, Sorts
  <2> QED
    BY <2>1, <2>2 DEF Lives, Mails
<1>4. patient => {c} \cap asked = {}
  BY <1>1 DEF Lives, Patience
<1> QED
  BY <1>1, <1>3, <1>4, CloseLives

LEMMA TakePacketLives == ASSUME IInv, Lives, NEW c \in Conns, TakePacket(c) PROVE Lives'
<1> DEFINE m == [conn |-> c, session |-> conn[c].fd]
<1>1. /\ conn[c].stage = "engine" /\ c \notin left /\ c \notin asked
      /\ asked' = asked \cup {c} /\ queue' = Append(queue, m) /\ queue \in Seq(Messages)
      /\ died' \in {"no", "noSocket", "fullSignaler", "fullTable", "deleted"}
      /\ UNCHANGED <<listener, registered, down, mail, conn, hand, session, left, patient, prompt, stray>>
  BY DEF TakePacket, EngineRuns, Session, Lives, Sorts
<1>2. c \in Open /\ m \in Messages
  BY <1>1 DEF Lives, Descriptors, Open, Messages
<1>3. /\ queue' \in Seq(Messages) /\ DOMAIN queue' = DOMAIN queue \cup {Len(queue) + 1}
      /\ \A i \in DOMAIN queue : queue'[i] = queue[i]
      /\ queue'[Len(queue) + 1] = m
  BY <1>1, <1>2, AppendAt
<1>4. m.conn = c /\ m.session = conn[c].fd
  OBVIOUS
<1> HIDE DEF m
<1>5. Patience'
  <2> SUFFICES ASSUME patient PROVE Patience'
    BY <1>1 DEF Patience
  <2>1. left' \cap asked' = {}
    BY <1>1 DEF Lives, Patience
  <2>2. ASSUME NEW i \in DOMAIN queue PROVE queue[i].conn # c
    BY <1>1 DEF Lives, Patience, Waits, Unread
  <2>3. ASSUME NEW i \in DOMAIN queue'
        PROVE  \/ queue'[i].conn \in asked' /\ conn'[queue'[i].conn].fd = queue'[i].session
               \/ /\ conn'[queue'[i].conn].stage = "gone" /\ down' > 3
                  /\ \A d \in Open' : conn'[d].fd # queue'[i].session
    <3>1. CASE i \in DOMAIN queue
      BY <1>1, <1>3, <3>1 DEF Lives, Patience, Waits, Unread, Open
    <3>2. CASE i = Len(queue) + 1
      BY <1>1, <1>3, <1>4, <3>2 DEF Waits
    <3> QED
      BY <1>3, <3>1, <3>2
  <2>4. \A i, j \in DOMAIN queue' : queue'[i].conn = queue'[j].conn => i = j
    BY <1>3, <1>4, <2>2 DEF Lives, Patience
  <2> QED
    BY <1>1, <2>1, <2>3, <2>4 DEF Lives, Patience, Waits, Unread
<1>6. Sorts' /\ Ends'
  BY <1>1, <1>2, <1>3 DEF Lives, Sorts, Ends, Open
<1> QED
  BY <1>1, <1>5, <1>6 DEF Lives, Descriptors, Hands, Mails, Sessions, Open

(* The first message of the queue is answered to whoever has its session.  *)
LEMMA AnswerLives == ASSUME IInv, Lives, Answer PROVE Lives'
<1> DEFINE m == Head(queue)
           reader == {d \in Open : conn[d].fd = m.session}
<1>1. /\ queue # <<>> /\ queue' = Tail(queue) /\ queue \in Seq(Messages)
      /\ asked' = asked \ {m.conn}
      /\ stray' = IF reader \subseteq {m.conn} THEN stray ELSE stray \cup {"answer"}
      /\ UNCHANGED <<listener, registered, down, mail, conn, hand, session, left, patient, prompt, died>>
  BY DEF Answer, Lives, Sorts
<1>2. /\ queue' \in Seq(Messages) /\ m \in Messages /\ 1 \in DOMAIN queue /\ m = queue[1]
      /\ DOMAIN queue' \subseteq Int
      /\ \A i \in DOMAIN queue' : i + 1 \in DOMAIN queue /\ i + 1 # 1 /\ queue'[i] = queue[i + 1]
  BY <1>1, TailAt
<1>3. Patience'
  <2> SUFFICES ASSUME patient PROVE Patience'
    BY <1>1 DEF Patience
  <2>1. reader \subseteq {m.conn}
    <3>1. Waits(m) \/ Unread(m)
      BY <1>2 DEF Lives, Patience
    <3>2. CASE Waits(m)
      <4>1. m.conn \in Open /\ conn[m.conn].fd = m.session
        BY <3>2 DEF Waits, Lives, Ends, Open
      <4> QED
        BY <4>1 DEF Lives, Descriptors
    <3>3. CASE Unread(m)
      BY <3>3 DEF Unread
    <3> QED
      BY <3>1, <3>2, <3>3
  <2>2. stray' = stray
    BY <1>1, <2>1
  <2> HIDE DEF m, reader
  <2>3. ASSUME NEW i \in DOMAIN queue'
        PROVE  \/ queue'[i].conn \in asked' /\ conn'[queue'[i].conn].fd = queue'[i].session
               \/ /\ conn'[queue'[i].conn].stage = "gone" /\ down' > 3
                  /\ \A d \in Open' : conn'[d].fd # queue'[i].session
    <3>1. queue'[i].conn # m.conn /\ (Waits(queue'[i]) \/ Unread(queue'[i]))
      BY <1>2 DEF Lives, Patience
    <3> QED
      BY <1>1, <3>1 DEF Waits, Unread, Open
  <2>4. ASSUME NEW i \in DOMAIN queue', NEW j \in DOMAIN queue', queue'[i].conn = queue'[j].conn
        PROVE  i = j
    <3>1. i + 1 = j + 1 /\ i \in Int /\ j \in Int
      BY <1>2, <2>4 DEF Lives, Patience
    <3> QED
      BY <3>1
  <2> QED
    BY <1>1, <2>2, <2>3, <2>4 DEF Lives, Patience, Waits, Unread
<1>4. Sorts' /\ Ends' /\ Sessions'
  <2>1. stray' \subseteq {"answer", "message"} /\ ("message" \in stray' => "message" \in stray)
    BY <1>1 DEF Lives, Sorts
  <2> HIDE DEF m, reader
  <2> QED
    BY <1>1, <1>2, <2>1 DEF Lives, Sorts, Ends, Sessions, Open
<1> QED
  BY <1>1, <1>3, <1>4 DEF Lives, Descriptors, Hands, Mails, Open

LEMMA PeerLeavesLives == ASSUME IInv, Lives, NEW c \in Conns, PeerLeaves(c) PROVE Lives'
<1>1. /\ c \in Open /\ (patient => c \notin asked) /\ left' = left \cup {c}
      /\ UNCHANGED <<listener, registered, down, mail, queue, conn, hand, session, asked, patient,
                     prompt, stray, died>>
  BY DEF PeerLeaves
<1>2. Sorts' /\ Descriptors'
  BY <1>1 DEF Lives, Sorts, Descriptors, Open
<1>3. Hands' /\ Mails'
  BY <1>1 DEF Lives, Hands, Mails
<1>4. Ends'
  BY <1>1 DEF Lives, Ends, Open
<1>5. Patience'
  BY <1>1 DEF Lives, Patience, Waits, Unread, Open
<1>6. Sessions'
  BY <1>1 DEF Lives, Sessions, Open
<1> QED
  BY <1>2, <1>3, <1>4, <1>5, <1>6 DEF Lives

(* The destructor stops I/O thread t in its step t + 3.                    *)
LEMMA StopsInOrder ==
    ASSUME NEW d \in DOMAIN TearDown, TearDown[d][1] = "stop", TearDown[d][2] \in IoThreads
    PROVE  d = TearDown[d][2] + 3
<1>0. d \in 1..(2 * NThreads + 5) /\ NThreads \in Nat \ {0}
  BY TearDownOrder
<1>1. d \notin {1, 2, 3}
  BY TearDownOrder
<1>2. CASE d \in 4..(NThreads + 3)
  <2>1. PICK t \in IoThreads : d = t + 3
    <3>1. d - 3 \in IoThreads /\ d = (d - 3) + 3
      BY <1>2, <1>0
    <3> QED
      BY <3>1
  <2>2. TearDown[d] = <<"stop", t>>
    BY <2>1, TearDownOrder
  <2> QED
    BY <2>1, <2>2
<1>3. d \notin (NThreads + 4)..(2 * NThreads + 3)
  <2> SUFFICES ASSUME d \in (NThreads + 4)..(2 * NThreads + 3) PROVE FALSE
    OBVIOUS
  <2>1. PICK t \in IoThreads : d = t + NThreads + 3
    <3>1. d - (NThreads + 3) \in IoThreads /\ d = (d - (NThreads + 3)) + NThreads + 3
      BY <1>0
    <3> QED
      BY <3>1
  <2>2. TearDown[d] = <<"delete", t>>
    BY <2>1, TearDownOrder
  <2> QED
    BY <2>2
<1>4. d # 2 * NThreads + 4 /\ d # 2 * NThreads + 5
  BY TearDownOrder
<1> QED
  BY <1>0, <1>1, <1>2, <1>3, <1>4

LEMMA DestroyLives == ASSUME IInv, Lives, Destroy PROVE Lives'
<1> DEFINE what == TearDown[down][1]
           t == TearDown[down][2]
<1>1. /\ down \in DOMAIN TearDown /\ down' = down + 1 /\ down \in Nat \ {0}
      /\ UNCHANGED <<registered, queue, hand, session, left, asked, patient, prompt, stray>>
  BY DEF Destroy, IInv, Types
<1>2. CASE what = "stop" /\ t \in Pollers
  <2>1. /\ SendCommand(t, [type |-> "stop", conn |-> 0]) /\ UNCHANGED <<listener, conn>>
    BY <1>2 DEF Destroy, SendStop
  <2>2. t # Main => down = t + 3
    BY <1>1, <1>2, StopsInOrder
  <2>3. [type |-> "stop", conn |-> 0] \in Commands
    BY DEF Commands
  <2> HIDE DEF what, t
  <2>4. down' > (IF t = Main THEN 1 ELSE t + 3)
    BY <1>1, <1>2, <2>2
  <2>5. listener' \in SetAddress \cup {"unset", "closed"} /\ registered' \in BOOLEAN
    BY <1>1, <2>1 DEF Lives, Sorts
  <2> QED
    BY <1>1, <1>2, <2>1, <2>3, <2>4, <2>5, SendLives
<1>3. CASE what = "close"
  <2>1. /\ listener' = "closed" /\ UNCHANGED <<mail, died>>
        /\ conn' = [c \in Conns |-> IF conn[c].stage = "backlog" THEN Gone ELSE conn[c]]
    BY <1>3 DEF Destroy
  <2>2. Gone.stage = "gone" /\ Gone.fd \notin Fds
    BY DEF Gone, New
  <2> QED
    BY <1>1, <2>1, <2>2, AsideLives
<1>4. CASE what # "close" /\ ~(what = "stop" /\ t \in Pollers)
  <2>1. UNCHANGED <<listener, mail, conn, died>>
    BY <1>4 DEF Destroy
  <2>2. /\ listener' \in SetAddress \cup {"unset", "closed"} /\ registered' \in BOOLEAN
        /\ died' \in {"no", "noSocket", "fullSignaler", "fullTable", "deleted"}
    BY <1>1, <2>1 DEF Lives, Sorts
  <2> QED
    BY <1>1, <2>1, <2>2, QuietLives
<1> QED
  BY <1>2, <1>3, <1>4

LEMMA ListenLives == ASSUME IInv, Lives, Listen PROVE Lives'
<1>1. /\ SendCommand(Main, [type |-> "register_accept", conn |-> 0]) /\ listener' \in SetAddress
      /\ UNCHANGED <<registered, down, queue, conn, hand, session, left, asked, patient, prompt, stray>>
  BY DEF Listen, SendRegisterAccept
<1>2. [type |-> "register_accept", conn |-> 0] \in Commands /\ registered' \in BOOLEAN
  BY <1>1 DEF Commands, Lives, Sorts
<1> QED
  BY <1>1, <1>2, SendLives

LEMMA ConnectLives ==
    ASSUME IInv, Lives, NEW c \in Conns, Connect(c) \/ ConnectFails(c) PROVE Lives'
<1>1. conn[c].stage = "new" /\ down = 1 /\ c \notin DOMAIN session
  BY DEF Connect, ConnectFails, FirstNew, Using, Lives, Sessions, Open
<1>2. CASE Connect(c)
  <2>1. /\ Opened("user", c)
        /\ session' = [s \in DOMAIN session \cup {c} |-> IF s = c THEN conn'[c].fd ELSE session[s]]
        /\ UNCHANGED <<listener, registered, down, mail, queue, left, asked, patient, stray, died>>
    BY <1>2 DEF Connect
  <2> QED
    BY <1>1, <2>1, OpenedLives
<1>3. CASE ConnectFails(c) /\ Free = {}
  <2>1. /\ died' = "noSocket"
        /\ UNCHANGED <<listener, registered, down, mail, queue, conn, hand, session, left, asked,
                       patient, prompt, stray>>
    BY <1>3 DEF ConnectFails
  <2>2. listener' \in SetAddress \cup {"unset", "closed"} /\ registered' \in BOOLEAN
    BY <2>1 DEF Lives, Sorts
  <2> QED
    BY <2>1, <2>2, QuietLives
<1>4. CASE ConnectFails(c) /\ Free # {}
  <2>1. /\ conn' = [conn EXCEPT ![c] = Gone]
        /\ UNCHANGED <<listener, registered, down, mail, queue, hand, session, left, asked,
                       patient, prompt, stray, died>>
    BY <1>4 DEF ConnectFails
  <2>2. Gone.stage = "gone" /\ Gone.fd \notin Fds
    BY DEF Gone, New
  <2>3. \A d \in Conns : conn'[d] = IF d = c THEN Gone ELSE conn[d]
    BY <2>1 DEF IInv, Types
  <2>4. listener' \in SetAddress \cup {"unset", "closed"}
    BY <2>1 DEF Lives, Sorts
  <2> QED
    BY <1>1, <2>1, <2>2, <2>3, <2>4, AsideLives
<1> QED
  BY <1>2, <1>3, <1>4

LEMMA AcceptLives == ASSUME IInv, Lives, NEW c \in Conns, Accept(c) PROVE Lives'
<1>1. /\ conn[c].stage = "backlog" /\ thread[Main] # "deleted"
      /\ UNCHANGED <<listener, registered, down, mail, queue, session, left, asked, patient, stray>>
  BY DEF Accept
<1>2. c \notin DOMAIN session
  BY <1>1 DEF Lives, Sessions, Open
<1>3. down <= 2
  <2>1. ~(down > Deletion(Main))
    BY <1>1 DEF IInv, DeletedInOrder
  <2> QED
    BY <2>1 DEF Deletion, IInv, Types
<1>4. CASE Free = {}
  <2>1. died' = "noSocket" /\ UNCHANGED <<conn, hand, prompt>>
    BY <1>4 DEF Accept
  <2>2. listener' \in SetAddress \cup {"unset", "closed"} /\ registered' \in BOOLEAN
    BY <1>1 DEF Lives, Sorts
  <2> QED
    BY <1>1, <2>1, <2>2, QuietLives
<1>5. CASE Free # {}
  <2>1. Opened("main", c) /\ UNCHANGED died
    BY <1>5 DEF Accept
  <2> QED
    BY <1>1, <1>2, <1>3, <2>1, OpenedLives
<1> QED
  BY <1>4, <1>5

LEMMA MainReceivesLives == ASSUME IInv, Lives, MainReceives PROVE Lives'
<1>1. /\ mail[Main] # <<>> /\ mail' = [mail EXCEPT ![Main] = Tail(@)]
      /\ registered' \in {TRUE, registered} /\ died' \in {"noSocket", died}
      /\ UNCHANGED <<listener, down, queue, conn, hand, session, left, asked, patient, prompt, stray>>
  BY DEF MainReceives, Register
<1>2. Mails' /\ mail' \in [Pollers -> Seq(Commands)]
  BY <1>1, ReceivedMails
<1>3. Sorts'
  BY <1>1, <1>2 DEF Lives, Sorts
<1> QED
  BY <1>1, <1>2, <1>3 DEF Lives, Descriptors, Hands, Ends, Patience, Sessions, Waits, Unread, Open

LEMMA ChooseLives == ASSUME IInv, Lives, NEW h \in Choosers, Choose(h) PROVE Lives'
<1>1. \A g \in Choosers : hand'[g].conn = hand[g].conn
  BY DEF Choose, IInv, Types
<1>2. UNCHANGED <<listener, registered, down, mail, queue, conn, session, left, asked, patient,
                  prompt, stray, died>>
  BY DEF Choose
<1>3. /\ listener' \in SetAddress \cup {"unset", "closed"} /\ registered' \in BOOLEAN
      /\ died' \in {"no", "noSocket", "fullSignaler", "fullTable", "deleted"}
  BY <1>2 DEF Lives, Sorts
<1> QED
  BY <1>1, <1>2, <1>3, QuietLives

LEMMA StillLives ==
    ASSUME IInv, Lives,
           UNCHANGED <<listener, registered, down, mail, queue, conn, hand, session, left, asked,
                       patient, prompt, stray, died>>
    PROVE  Lives'
<1>1. /\ listener' \in SetAddress \cup {"unset", "closed"} /\ registered' \in BOOLEAN
      /\ died' \in {"no", "noSocket", "fullSignaler", "fullTable", "deleted"}
  BY DEF Lives, Sorts
<1> QED
  BY <1>1, QuietLives

LEMMA PeerConnectsLives == ASSUME IInv, Lives, NEW c \in Conns, PeerConnects(c) PROVE Lives'
<1>1. /\ conn[c].stage = "new" /\ conn' = [conn EXCEPT ![c].stage = "backlog"]
      /\ UNCHANGED <<listener, registered, down, mail, queue, hand, session, left, asked, patient,
                     prompt, stray, died>>
  BY DEF PeerConnects, FirstNew
<1>2. conn[c].fd \notin Fds
  BY <1>1 DEF Lives, Descriptors, Open
<1>3. /\ conn'[c].stage = "backlog" /\ conn'[c].fd \notin Fds
      /\ \A d \in Conns : d # c => conn'[d] = conn[d]
  BY <1>1, <1>2 DEF IInv, Types
<1>4. listener' \in SetAddress \cup {"unset", "closed"}
  BY <1>1 DEF Lives, Sorts
<1> QED
  BY <1>1, <1>3, <1>4, AsideLives

LEMMA StepLives == IInv /\ Lives /\ [Next]_vars => Lives'
<1> SUFFICES ASSUME IInv, Lives, [Next]_vars PROVE Lives'
  OBVIOUS
<1>1. CASE MainStep
  BY <1>1, MainReceivesLives, ChooseLives, SendNewConnectionsLives, AcceptLives, StillLives
     DEF MainStep, Leave
<1>2. CASE UserStep
  BY <1>2, ListenLives, ChooseLives, SendNewConnectionsLives, ConnectLives, SendToSessionLives,
     DestroyLives DEF UserStep
<1>3. CASE LogicalStep
  BY <1>3, AnswerLives, StillLives DEF LogicalStep, Leave
<1>4. CASE Peer
  BY <1>4, PeerConnectsLives, PeerLeavesLives, TakePacketLives DEF Peer
<1>5. ASSUME NEW t \in IoThreads, IoStep(t) PROVE Lives'
  <2>1. CASE IoReceives(t)
    BY <2>1, PlugLives, IoStopLives DEF IoReceives
  <2> QED
    BY <1>5, <2>1, EngineErrorLives, StillLives DEF IoStep, Leave
<1>6. CASE UNCHANGED vars
  BY <1>6, StillLives DEF vars
<1> QED
  BY <1>1, <1>2, <1>3, <1>4, <1>5, <1>6 DEF Next

LEMMA Invariance == Spec => [](IInv /\ Lives)
BY InitIInv, InitLives, StepIInv, StepLives, PTL DEF Spec

(* Whatever descriptors the system gives again and whenever the context is *)
(* destroyed: no answer goes to another connection if the peers wait for   *)
(* theirs, and no message of the user before a session of its has ended.   *)
THEOREM AnswersReachTheirPeers == Spec => []NothingToStrangers
<1>1. IInv /\ Lives => NothingToStrangers
  BY DEF Lives, Patience, Sessions, NothingToStrangers
<1> QED
  BY <1>1, Invariance, PTL

(* The destructor takes its steps and no more.                             *)
LEMMA StepsBounded == Spec => [](down <= Len(TearDown) + 1)
<1>1. /\ Len(TearDown) = 2 * NThreads + 5 /\ DOMAIN TearDown = 1..(2 * NThreads + 5)
      /\ NThreads \in Nat
  BY TearDownOrder
<1>2. Init => down <= Len(TearDown) + 1
  BY <1>1 DEF Init
<1>3. IInv /\ down <= Len(TearDown) + 1 /\ [Next]_vars => (down <= Len(TearDown) + 1)'
  <2> SUFFICES ASSUME IInv, down <= Len(TearDown) + 1, [Next]_vars
               PROVE  down' <= Len(TearDown) + 1
    BY DEF TearDown
  <2>1. UNCHANGED down \/ Destroy
    BY DEF Next, vars, MainStep, UserStep, LogicalStep, Peer, IoStep, MainReceives, Choose,
           SendNewConnections, Accept, Leave, IoReceives, EngineError, Listen, Connect, ConnectFails,
           SendToSession, Answer, PeerConnects, PeerLeaves, TakePacket
  <2>2. Destroy => down \in 1..(2 * NThreads + 5) /\ down' = down + 1
    BY <1>1 DEF Destroy
  <2> QED
    BY <1>1, <2>1, <2>2 DEF IInv, Types
<1> QED
  BY <1>2, <1>3, Invariance, PTL DEF Spec

(* Every variable keeps its type; only open connections have other ends    *)
(* that leave or wait for answers.                                         *)
THEOREM TypeCorrect == Spec => []TypeOK
<1>1. IInv /\ Lives /\ down <= Len(TearDown) + 1 => TypeOK
  <2> SUFFICES ASSUME IInv, Lives, down <= Len(TearDown) + 1 PROVE TypeOK
    OBVIOUS
  <2>1. down \in 1..(Len(TearDown) + 1)
    BY TearDownOrder DEF IInv, Types
  <2>2. left \subseteq Open /\ asked \subseteq Open
    BY DEF Lives, Ends, Open
  <2>3. Range(session) \subseteq Fds
    BY DEF Lives, Sorts, Range
  <2> QED
    BY <2>1, <2>2, <2>3 DEF TypeOK, IInv, Types, Lives, Sorts, Commands, Messages
<1> QED
  BY <1>1, Invariance, StepsBounded, PTL

-----------------------------------------------------------------------------
(* While each connection has been plugged before the next one comes, the   *)
(* loads do not move under choose_io_thread(): what it has found so far is *)
(* least so far, and a connection in a mailbox goes to a least loaded      *)
(* thread.                                                                 *)
LeastSoFar(h) == /\ h.next = 1 => h.least = -1
                 /\ h.next > 1 => /\ h.result < h.next /\ h.least = Load(h.result)
                                  /\ \A t \in IoThreads : t < h.next => h.least <= Load(t)

Balance ==
    prompt => /\ \A c, d \in InFlight : c = d
              /\ \A t, u \in IoThreads : Load(t) <= Load(u) + 1
              /\ \A h \in Choosers : hand[h].conn # 0 => LeastSoFar(hand[h])
              /\ \A c \in Conns : conn[c].stage = "mailed" =>
                     \A t \in IoThreads : Load(conn[c].thread) <= Load(t)

Engines(t) == {c \in Conns : conn[c].stage = "engine" /\ conn[c].thread = t}

LEMMA Loads == \A t : IsFiniteSet(Engines(t)) /\ Load(t) = 1 + Cardinality(Engines(t)) /\ Load(t) \in Nat \ {0}
<1> SUFFICES ASSUME NEW t
             PROVE  IsFiniteSet(Engines(t)) /\ Load(t) = 1 + Cardinality(Engines(t)) /\ Load(t) \in Nat \ {0}
  OBVIOUS
<1>1. Load(t) = 1 + Cardinality(Engines(t))
  BY DEF Load, Engines
<1>2. IsFiniteSet(Conns)
  BY FS_Interval
<1>3. IsFiniteSet(Engines(t))
  BY <1>2, FS_Subset DEF Engines
<1>4. Cardinality(Engines(t)) \in Nat
  BY <1>3, FS_CardinalityType
<1> QED
  BY <1>1, <1>3, <1>4

LEMMA LoadsKept ==
    ASSUME \A c \in Conns : \/ conn'[c] = conn[c]
                            \/ conn[c].stage # "engine" /\ conn'[c].stage # "engine"
    PROVE  \A t : Load(t)' = Load(t)
<1> SUFFICES ASSUME NEW t PROVE Load(t)' = Load(t)
  OBVIOUS
<1>1. {c \in Conns : conn'[c].stage = "engine" /\ conn'[c].thread = t}
          = {c \in Conns : conn[c].stage = "engine" /\ conn[c].thread = t}
  OBVIOUS
<1> QED
  BY <1>1 DEF Load

LEMMA LoadAdded ==
    ASSUME NEW c \in Conns, NEW t, conn[c].stage # "engine",
           conn'[c].stage = "engine", conn'[c].thread = t,
           \A d \in Conns : d # c => conn'[d] = conn[d]
    PROVE  Load(t)' = Load(t) + 1 /\ \A u : u # t => Load(u)' = Load(u)
<1>1. Engines(t)' = Engines(t) \cup {c} /\ c \notin Engines(t)
  BY DEF Engines
<1>2. Cardinality(Engines(t)') = Cardinality(Engines(t)) + 1
  BY <1>1, Loads, FS_AddElement
<1>3. ASSUME NEW u, u # t PROVE Load(u)' = Load(u)
  <2>1. {d \in Conns : conn'[d].stage = "engine" /\ conn'[d].thread = u}
            = {d \in Conns : conn[d].stage = "engine" /\ conn[d].thread = u}
    BY <1>3
  <2> QED
    BY <2>1 DEF Load
<1>4. Load(t)' = 1 + Cardinality(Engines(t)') /\ Load(t) = 1 + Cardinality(Engines(t))
  BY DEF Load, Engines
<1>5. Cardinality(Engines(t)) \in Nat
  BY Loads, FS_CardinalityType
<1> QED
  BY <1>2, <1>3, <1>4, <1>5

LEMMA InitBalance == Init => Balance
<1> SUFFICES ASSUME Init PROVE Balance
  OBVIOUS
<1>1. \A c \in Conns : conn[c].stage = "new"
  BY DEF Init, New
<1>2. \A t : Engines(t) = {}
  BY <1>1 DEF Engines
<1>3. \A t : Load(t) = 1
  BY <1>2, Loads, FS_EmptySet
<1>4. \A h \in Choosers : hand[h].conn = 0
  BY DEF Init, Idle
<1> QED
  BY <1>1, <1>3, <1>4 DEF Balance, InFlight

(* Nothing that is open moves, and nobody looks at loads.                  *)
LEMMA StillBalance ==
    ASSUME IInv, Lives, Balance, UNCHANGED hand, prompt' => prompt,
           \A c \in Conns : \/ conn'[c] = conn[c]
                            \/ /\ conn[c].stage \notin {"chosen", "mailed", "engine"}
                               /\ conn'[c].stage \notin {"chosen", "mailed", "engine"}
    PROVE  Balance'
<1> SUFFICES ASSUME prompt' PROVE Balance'
  BY DEF Balance
<1>1. \A t : Load(t)' = Load(t)
  BY LoadsKept
<1>2. InFlight' = InFlight
  BY DEF InFlight
<1>3. \A h \in Choosers : hand[h].conn # 0 => LeastSoFar(hand[h])'
  BY <1>1 DEF Balance, LeastSoFar
<1>4. \A c \in Conns : conn'[c].stage = "mailed" => conn'[c] = conn[c]
  OBVIOUS
<1> QED
  BY <1>1, <1>2, <1>3, <1>4 DEF Balance

LEMMA OpenedBalance ==
    ASSUME IInv, Lives, Balance, NEW h \in Choosers, NEW c \in Conns, Opened(h, c),
           conn[c].stage \in {"new", "backlog"}
    PROVE  Balance'
<1> SUFFICES ASSUME prompt' PROVE Balance'
  BY DEF Balance
<1>1. prompt /\ InFlight = {}
  BY DEF Opened
<1>2. PICK f \in Free : conn' = [conn EXCEPT ![c] = [stage |-> "chosen", fd |-> f, thread |-> Main]]
  BY DEF Opened
<1>3. conn'[c].stage = "chosen" /\ \A d \in Conns : d # c => conn'[d] = conn[d]
  BY <1>2 DEF IInv, Types
<1>4. /\ hand'[h].next = 1 /\ hand'[h].least = -1
      /\ \A g \in Choosers : g # h => hand'[g] = hand[g]
  <2>1. [Idle EXCEPT !.conn = c] = [conn |-> c, next |-> 1, least |-> -1, result |-> 1]
    BY DEF Idle
  <2>2. hand' = [hand EXCEPT ![h] = [conn |-> c, next |-> 1, least |-> -1, result |-> 1]]
    BY <2>1 DEF Opened
  <2> QED
    BY <2>2 DEF IInv, Types
<1>5. \A g \in Choosers : hand[g].conn = 0
  BY <1>1 DEF InFlight, Lives, Hands, IInv, Types
<1>6. \A t : Load(t)' = Load(t)
  BY <1>3, LoadsKept
<1>7. \A d \in Conns : d \in InFlight' => d = c
  BY <1>1, <1>3 DEF InFlight
<1>8. \A d \in Conns : conn'[d].stage # "mailed"
  BY <1>1, <1>3 DEF InFlight
<1>9. \A g \in Choosers : hand'[g].conn # 0 => LeastSoFar(hand[g])'
  BY <1>4, <1>5 DEF LeastSoFar
<1>10. \A t, u \in IoThreads : Load(t)' <= Load(u)' + 1
  BY <1>1, <1>6 DEF Balance
<1>11. \A d, e \in InFlight' : d = e
  BY <1>7 DEF InFlight
<1> QED
  BY <1>8, <1>9, <1>10, <1>11 DEF Balance

(* One more thread is looked at.                                           *)
LEMMA ChooseBalance == ASSUME IInv, Lives, Balance, NEW h \in Choosers, Choose(h) PROVE Balance'
<1> SUFFICES ASSUME prompt' PROVE Balance'
  BY DEF Balance
<1> DEFINE n == hand[h].next
           least == hand[h].least
           better == least = -1 \/ Load(n) < least
<1>1. /\ prompt /\ UNCHANGED conn /\ hand[h].conn # 0 /\ n \in IoThreads
      /\ hand' = [hand EXCEPT ![h] =
                     [conn |-> hand[h].conn, next |-> n + 1,
                      least |-> IF better THEN Load(n) ELSE least,
                      result |-> IF better THEN n ELSE hand[h].result]]
  BY DEF Choose, Better
<1>2. /\ hand'[h].next = n + 1
      /\ hand'[h].least = IF better THEN Load(n) ELSE least
      /\ hand'[h].result = IF better THEN n ELSE hand[h].result
      /\ \A g \in Choosers : g # h => hand'[g] = hand[g]
      /\ \A g \in Choosers : hand'[g].conn = hand[g].conn
  BY <1>1 DEF IInv, Types
<1>3. LeastSoFar(hand[h]) /\ hand[h].result \in IoThreads
  BY <1>1 DEF Balance, IInv, Types
<1>4. \A t : Load(t)' = Load(t) /\ Load(t) \in Nat \ {0}
  BY <1>1, Loads DEF Load
<1>5. LeastSoFar(hand[h])'
  <2>1. CASE n = 1
    <3>1. better
      BY <1>3, <2>1 DEF LeastSoFar
    <3>2. hand'[h].next = 2 /\ hand'[h].least = Load(1) /\ hand'[h].result = 1
      BY <1>2, <2>1, <3>1
    <3> QED
      BY <1>4, <3>2 DEF LeastSoFar
  <2>2. CASE n # 1
    <3>1. /\ n \in Nat /\ n > 1 /\ hand[h].result < n /\ least = Load(hand[h].result)
          /\ \A t \in IoThreads : t < n => least <= Load(t)
      BY <1>1, <1>3, <2>2 DEF LeastSoFar
    <3>2. least # -1 /\ least \in Nat
      BY <1>4, <3>1
    <3> HIDE DEF n, least
    <3>3. CASE better
      <4>1. hand'[h].next = n + 1 /\ hand'[h].least = Load(n) /\ hand'[h].result = n /\ Load(n) < least
        BY <1>2, <3>2, <3>3
      <4>2. \A t \in IoThreads : t < n + 1 => Load(n) <= Load(t)
        BY <1>4, <3>1, <3>2, <4>1
      <4> QED
        BY <1>4, <3>1, <4>1, <4>2 DEF LeastSoFar
    <3>4. CASE ~better
      <4>1. hand'[h].next = n + 1 /\ hand'[h].least = least /\ hand'[h].result = hand[h].result
        BY <1>2, <3>4
      <4>2. \A t \in IoThreads : t < n + 1 => least <= Load(t)
        BY <1>4, <3>1, <3>2, <3>4
      <4> QED
        BY <1>3, <1>4, <3>1, <4>1, <4>2 DEF LeastSoFar
    <3> QED
      BY <3>3, <3>4
  <2> QED
    BY <2>1, <2>2
<1>6. \A g \in Choosers : hand'[g].conn # 0 => LeastSoFar(hand[g])'
  <2> SUFFICES ASSUME NEW g \in Choosers, g # h, hand[g].conn # 0 PROVE LeastSoFar(hand[g])'
    BY <1>2, <1>5
  <2>1. LeastSoFar(hand[g]) /\ hand'[g] = hand[g]
    BY <1>1, <1>2 DEF Balance
  <2> QED
    BY <1>4, <2>1 DEF LeastSoFar
<1> QED
  BY <1>1, <1>4, <1>6 DEF Balance, InFlight

(* The connection that is sent is the only one in flight.                  *)
LEMMA SendNewConnectionsBalance ==
    ASSUME IInv, Lives, Balance, NEW h \in Choosers, SendNewConnections(h) PROVE Balance'
<1> SUFFICES ASSUME prompt' PROVE Balance'
  BY DEF Balance
<1> DEFINE c == hand[h].conn
           t == hand[h].result
<1>1. /\ prompt /\ c \in Conns /\ t \in IoThreads /\ conn[c].stage = "chosen"
      /\ hand[h].next \notin IoThreads /\ hand[h].next \in Nat \ {0}
      /\ conn' = [conn EXCEPT ![c] = [stage |-> "mailed", fd |-> conn[c].fd, thread |-> t]]
      /\ hand' = [hand EXCEPT ![h] = [conn |-> 0, next |-> 1, least |-> -1, result |-> 1]]
  BY DEF SendNewConnections, IInv, Types, Lives, Hands, Idle
<1>2. /\ conn'[c].stage = "mailed" /\ conn'[c].thread = t
      /\ \A d \in Conns : d # c => conn'[d] = conn[d]
  BY <1>1 DEF IInv, Types
<1>3. hand'[h].conn = 0 /\ \A g \in Choosers : g # h => hand'[g] = hand[g]
  BY <1>1 DEF IInv, Types
<1>4. LeastSoFar(hand[h])
  BY <1>1 DEF Balance
<1>5. \A u \in IoThreads : u < hand[h].next /\ hand[h].next > 1
  BY <1>1
<1>6. \A u \in IoThreads : Load(t) <= Load(u)
  BY <1>1, <1>4, <1>5 DEF LeastSoFar
<1>7. \A g \in Choosers : g # h => hand[g].conn = 0
  <2>1. \A g \in Choosers : g # h /\ hand[g].conn # 0 => hand[g].conn # c /\ hand[g].conn \in InFlight
    BY DEF Lives, Hands, InFlight, IInv, Types
  <2>2. c \in InFlight
    BY <1>1 DEF InFlight
  <2> QED
    BY <1>1, <2>1, <2>2 DEF Balance
<1>8. \A d \in Conns : d # c => d \notin InFlight
  BY <1>1 DEF Balance, InFlight
<1> HIDE DEF c, t
<1>9. \A u : Load(u)' = Load(u)
  BY <1>1, <1>2, LoadsKept
<1>10. \A d \in Conns : conn'[d].stage = "mailed" => d = c
  BY <1>2, <1>8 DEF InFlight
<1>11. InFlight' = InFlight
  BY <1>1, <1>2 DEF InFlight
<1>12. \A d \in Conns : conn'[d].stage = "mailed" =>
           \A u \in IoThreads : Load(conn[d].thread)' <= Load(u)'
  BY <1>2, <1>6, <1>9, <1>10
<1>13. \A t_1, u \in IoThreads : Load(t_1)' <= Load(u)' + 1
  BY <1>1, <1>9 DEF Balance
<1>14. \A g \in Choosers : hand'[g].conn = 0
  BY <1>3, <1>7
<1> QED
  BY <1>1, <1>11, <1>12, <1>13, <1>14 DEF Balance

(* It is plugged at a least loaded thread.                                 *)
LEMMA PlugBalance ==
    ASSUME IInv, Lives, Balance, NEW t \in IoThreads, IoReceives(t),
           Head(mail[t]).type = "new_connections"
    PROVE  Balance'
<1> SUFFICES ASSUME prompt' PROVE Balance'
  BY DEF Balance
<1> DEFINE c == Head(mail[t]).conn
<1>1. /\ prompt /\ mail[t] # <<>> /\ UNCHANGED hand
      /\ conn' = [conn EXCEPT ![c].stage = "engine"]
  BY DEF IoReceives
<1>2. mail[t] \in Seq(Commands) /\ 1 \in DOMAIN mail[t] /\ Head(mail[t]) = mail[t][1]
  BY <1>1, TailAt DEF Lives, Sorts
<1>3. c \in Conns /\ conn[c].stage = "mailed" /\ conn[c].thread = t
  BY <1>2 DEF Lives, Mails, Delivered
<1> HIDE DEF c
<1>4. /\ conn'[c].stage = "engine" /\ conn'[c].thread = t
      /\ \A d \in Conns : d # c => conn'[d] = conn[d]
  BY <1>1, <1>3 DEF IInv, Types
<1>5. Load(t)' = Load(t) + 1 /\ \A u : u # t => Load(u)' = Load(u)
  BY <1>3, <1>4, LoadAdded
<1>6. \A d \in Conns : d # c => d \notin InFlight
  BY <1>1, <1>3 DEF Balance, InFlight
<1>7. InFlight' = {} /\ \A d \in Conns : conn'[d].stage # "mailed"
  BY <1>4, <1>6 DEF InFlight
<1>8. \A h \in Choosers : hand[h].conn = 0
  BY <1>3, <1>6 DEF Lives, Hands, InFlight, IInv, Types
<1>9. \A u \in IoThreads : Load(t) <= Load(u)
  BY <1>1, <1>3 DEF Balance
<1>10. \A u, v \in IoThreads : Load(u)' <= Load(v)' + 1
  <2>1. ASSUME NEW u \in IoThreads, NEW v \in IoThreads PROVE Load(u)' <= Load(v)' + 1
    <3>1. Load(u) <= Load(v) + 1 /\ Load(t) <= Load(v)
      BY <1>1, <1>9 DEF Balance
    <3>2. Load(u) \in Nat /\ Load(v) \in Nat /\ Load(t) \in Nat
      BY Loads
    <3>3. /\ u = t \/ Load(u)' = Load(u)
          /\ v = t \/ Load(v)' = Load(v)
      BY <1>5
    <3> QED
      BY <1>5, <3>1, <3>2, <3>3
  <2> QED
    BY <2>1
<1> QED
  BY <1>1, <1>7, <1>8, <1>10 DEF Balance

(* Engines that close end the history.                                     *)
LEMMA CloseBalance ==
    ASSUME IInv, Lives, Balance, NEW engines, Close(engines), UNCHANGED hand PROVE Balance'
<1>1. prompt' => prompt /\ \A c \in Conns : conn'[c] = conn[c]
  BY DEF Close
<1> QED
  BY <1>1, StillBalance DEF Balance

LEMMA StepBalance == IInv /\ Lives /\ Balance /\ [Next]_vars => Balance'
<1> SUFFICES ASSUME IInv, Lives, Balance, [Next]_vars PROVE Balance'
  OBVIOUS
<1>1. CASE UNCHANGED <<conn, hand, prompt>>
  BY <1>1, StillBalance
<1>2. ASSUME NEW h \in Choosers, Choose(h) \/ SendNewConnections(h) PROVE Balance'
  BY <1>2, ChooseBalance, SendNewConnectionsBalance
<1>3. ASSUME NEW c \in Conns, Connect(c) \/ Accept(c) PROVE Balance'
  <2>1. conn[c].stage \in {"new", "backlog"}
    BY <1>3 DEF Connect, Accept, FirstNew
  <2>2. UNCHANGED <<conn, hand, prompt>> \/ Opened("user", c) \/ Opened("main", c)
    BY <1>3 DEF Connect, Accept
  <2> QED
    BY <1>1, <2>1, <2>2, OpenedBalance
<1>4. ASSUME NEW c \in Conns, ConnectFails(c) PROVE Balance'
  <2>1. /\ UNCHANGED <<hand, prompt>> /\ conn[c].stage = "new"
        /\ conn' = conn \/ conn' = [conn EXCEPT ![c] = Gone]
    BY <1>4 DEF ConnectFails, FirstNew
  <2>2. Gone.stage = "gone"
    BY DEF Gone, New
  <2>3. \A d \in Conns : conn'[d] = conn[d] \/ (d = c /\ conn'[c] = Gone)
    BY <2>1 DEF IInv, Types
  <2> QED
    BY <2>1, <2>2, <2>3, StillBalance
<1>5. ASSUME NEW c \in Conns, PeerConnects(c) PROVE Balance'
  <2>1. /\ UNCHANGED <<hand, prompt>> /\ conn[c].stage = "new"
        /\ conn' = [conn EXCEPT ![c].stage = "backlog"]
    BY <1>5 DEF PeerConnects, FirstNew
  <2>2. conn'[c].stage = "backlog" /\ \A d \in Conns : d # c => conn'[d] = conn[d]
    BY <2>1 DEF IInv, Types
  <2> QED
    BY <2>1, <2>2, StillBalance
<1>6. CASE Destroy
  <2>1. /\ UNCHANGED <<hand, prompt>>
        /\ \/ UNCHANGED conn
           \/ conn' = [c \in Conns |-> IF conn[c].stage = "backlog" THEN Gone ELSE conn[c]]
    BY <1>6 DEF Destroy
  <2>2. Gone.stage = "gone"
    BY DEF Gone, New
  <2> QED
    BY <2>1, <2>2, StillBalance
<1>7. ASSUME NEW t \in IoThreads, IoStep(t) PROVE Balance'
  <2>1. CASE IoReceives(t) /\ Head(mail[t]).type = "new_connections"
    BY <2>1, PlugBalance
  <2>2. CASE IoReceives(t) /\ Head(mail[t]).type # "new_connections"
    BY <2>2, CloseBalance DEF IoReceives
  <2>3. ASSUME NEW c \in Conns, EngineError(c) PROVE Balance'
    BY <2>3, CloseBalance DEF EngineError
  <2> QED
    BY <1>1, <1>7, <2>1, <2>2, <2>3 DEF IoStep, Leave
<1> QED
  BY <1>1, <1>2, <1>3, <1>4, <1>5, <1>6, <1>7
     DEF Next, vars, MainStep, UserStep, LogicalStep, Peer, MainReceives, Leave, Listen,
         SendToSession, Answer, PeerLeaves, TakePacket

(* For any number of I/O threads, and though nothing in flight is counted: *)
(* the loads differ by one at most as long as each connection has been     *)
(* plugged before the next one comes and none has ended.                   *)
THEOREM LoadsBalance == Spec => []BalancedWhenPrompt
<1>1. Balance => BalancedWhenPrompt
  BY DEF Balance, BalancedWhenPrompt
<1> QED
  BY <1>1, InitBalance, StepBalance, Invariance, PTL DEF Spec

=============================================================================
