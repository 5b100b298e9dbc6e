---------------------------- MODULE PollerProofs ----------------------------
(***************************************************************************)
(* Proofs about the three loops that wait for sockets, for any sockets,    *)
(* connections, handles and timers.                                        *)
(***************************************************************************)
EXTENDS MCPollers, SequenceTheorems, FunctionTheorems, FiniteSetTheorems, TLAPS

Entry == [fd : Descriptors \cup {Retired}, sink : 0..plugged]

(* select_t: an entry that is not retired is of a plugged engine with its  *)
(* socket, or of the mailbox until it stops; each of these has one; an     *)
(* engine's number is in the vector once, even when its entry is retired.  *)
EntriesOf ==
    /\ \A i \in Live : \/ /\ fds[i].sink \in DOMAIN engines
                          /\ fds[i].fd = engines[fds[i].sink]
                       \/ ~stopping /\ fds[i].sink = Mailbox /\ fds[i].fd = MailboxFd
    /\ \A e \in DOMAIN engines : \E i \in Live : fds[i].sink = e
    /\ ~stopping => \E i \in Live : fds[i].sink = Mailbox

OneEach == /\ \A i, j \in DOMAIN fds : fds[i].sink = fds[j].sink => i = j
           /\ \A d, e \in DOMAIN engines : engines[d] = engines[e] => d = e

Counts == /\ source = {fds[i].fd : i \in Live}
          /\ load = Cardinality(Live)

(* What is reported and not yet served is still in front of the loop: the  *)
(* entry lives, is in the set that the loop tests and has not been passed. *)
Ahead(i, event) == \/ i > pos
                   \/ i = pos /\ at = "err"
                   \/ i = pos /\ at \in {"errEvent", "in"} /\ event = "inEvent"

InFront(i, event) == /\ i \in Live
                     /\ \/ event = "inEvent" /\ fds[i].fd \in readfds
                        \/ event = "errEvent" /\ fds[i].fd \in exceptfds
                     /\ Ahead(i, event)

Reported == /\ \A p \in pending : \E i \in DOMAIN fds : fds[i].sink = p[1] /\ InFront(i, p[2])
            /\ at \in {"top", "exited"} => pending = {}

Where == /\ at \in {"errEvent", "in", "inEvent"} => pos \in DOMAIN fds
         /\ InEvent => current \in DOMAIN engines \cup {Mailbox}

SelectInv ==
    /\ TypeOK
    /\ at # "aborted" => EntriesOf /\ OneEach /\ Counts /\ Reported /\ Where

USE SelectPollerAssumption DEF Mailbox, Descriptors
-----------------------------------------------------------------------------
LEMMA Shape ==
    ASSUME TypeOK
    PROVE  /\ fds \in Seq(Entry) /\ Len(fds) \in Nat /\ DOMAIN fds = 1..Len(fds)
           /\ \A i \in DOMAIN fds : /\ fds[i] \in Entry
                                    /\ fds[i].fd \in Descriptors \cup {Retired}
                                    /\ fds[i].sink \in 0..plugged
           /\ Live \subseteq DOMAIN fds /\ IsFiniteSet(Live)
           /\ Cardinality(Live) \in Nat /\ Cardinality(Live) <= Len(fds)
           /\ plugged \in Nat
<1>1. fds \in Seq(Entry) /\ plugged \in Nat
  BY DEF TypeOK, Entry
<1>2. Len(fds) \in Nat /\ DOMAIN fds = 1..Len(fds) /\ \A i \in DOMAIN fds : fds[i] \in Entry
  BY <1>1, LenProperties, ElementOfSeq
<1>3. \A i \in DOMAIN fds : fds[i].fd \in Descriptors \cup {Retired} /\ fds[i].sink \in 0..plugged
  BY <1>2 DEF Entry
<1>4. Live \subseteq DOMAIN fds
  BY DEF Live
<1>5. IsFiniteSet(1..Len(fds)) /\ Cardinality(1..Len(fds)) = Len(fds)
  BY <1>2, FS_Interval
<1>6. IsFiniteSet(Live) /\ Cardinality(Live) <= Len(fds)
  BY <1>2, <1>4, <1>5, FS_Subset
<1>7. Cardinality(Live) \in Nat
  BY <1>6, FS_CardinalityType
<1> QED
  BY <1>1, <1>2, <1>3, <1>4, <1>6, <1>7

(* A function on 1..n is a sequence.                                       *)
LEMMA AsSeq ==
    ASSUME NEW S, NEW n \in Nat, NEW f \in [1..n -> S]
    PROVE  f \in Seq(S) /\ Len(f) = n /\ DOMAIN f = 1..n
<1>1. f \in Seq(S)
  BY SeqDef
<1>2. Len(f) \in Nat /\ DOMAIN f = 1..Len(f) /\ DOMAIN f = 1..n
  BY <1>1, LenProperties
<1> QED
  BY <1>1, <1>2

(* What rm_fd() does to the vector.                                        *)
LEMMA Retiring ==
    ASSUME TypeOK, NEW F, Retired \notin F, RmFds(F)
    PROVE  /\ fds' \in Seq(Entry) /\ Len(fds') = Len(fds) /\ DOMAIN fds' = DOMAIN fds
           /\ \A i \in DOMAIN fds : /\ fds'[i].sink = fds[i].sink
                                    /\ fds[i].fd \in F => fds'[i].fd = Retired
                                    /\ fds[i].fd \notin F => fds'[i].fd = fds[i].fd
           /\ Live' = {i \in Live : fds[i].fd \notin F}
<1>0. /\ Len(fds) \in Nat /\ DOMAIN fds = 1..Len(fds)
      /\ \A i \in DOMAIN fds : fds[i] \in Entry
  BY Shape
<1>1. fds' = [i \in DOMAIN fds |->
                 IF fds[i].fd \in F THEN [fds[i] EXCEPT !.fd = Retired] ELSE fds[i]]
  BY DEF RmFds
<1>2. \A i \in DOMAIN fds : /\ fds'[i] \in Entry /\ fds'[i].sink = fds[i].sink
                            /\ fds[i].fd \in F => fds'[i].fd = Retired
                            /\ fds[i].fd \notin F => fds'[i].fd = fds[i].fd
  BY <1>0, <1>1 DEF Entry
<1>3. fds' \in [1..Len(fds) -> Entry]
  BY <1>0, <1>1, <1>2
<1>4. fds' \in Seq(Entry) /\ Len(fds') = Len(fds) /\ DOMAIN fds' = DOMAIN fds
  BY <1>0, <1>3, AsSeq
<1>5. Live' = {i \in Live : fds[i].fd \notin F}
  BY <1>2, <1>4 DEF Live
<1> QED
  BY <1>2, <1>4, <1>5

(* add_fd() puts one entry behind the others.                              *)
LEMMA Adding ==
    ASSUME TypeOK, NEW f \in Sockets, AddFd(f, plugged + 1), plugged' = plugged + 1
    PROVE  /\ fds' \in Seq(Entry') /\ Len(fds') = Len(fds) + 1
           /\ DOMAIN fds' = DOMAIN fds \cup {Len(fds) + 1}
           /\ \A i \in DOMAIN fds : fds'[i] = fds[i]
           /\ fds'[Len(fds) + 1].fd = f /\ fds'[Len(fds) + 1].sink = plugged + 1
           /\ Live' = Live \cup {Len(fds) + 1}
           /\ Cardinality(Live') = Cardinality(Live) + 1
<1> DEFINE new == [fd |-> f, sink |-> plugged + 1]
<1>0. /\ fds \in Seq(Entry) /\ Len(fds) \in Nat /\ DOMAIN fds = 1..Len(fds)
      /\ plugged \in Nat /\ Live \subseteq DOMAIN fds /\ IsFiniteSet(Live)
  BY Shape
<1>1. Entry \subseteq Entry' /\ new \in Entry'
  BY <1>0 DEF Entry
<1>2. fds \in Seq(Entry') /\ fds' = Append(fds, new)
  BY <1>0, <1>1, SeqMonotonic DEF AddFd
<1>3. new.fd = f /\ new.sink = plugged + 1 /\ f # Retired
  OBVIOUS
<1> HIDE DEF new
<1>4. /\ fds' \in Seq(Entry') /\ Len(fds') = Len(fds) + 1
      /\ \A i \in 1..Len(fds) : fds'[i] = fds[i]
      /\ fds'[Len(fds) + 1] = new
  BY <1>1, <1>2, AppendProperties
<1>5. DOMAIN fds' = DOMAIN fds \cup {Len(fds) + 1}
  BY <1>0, <1>4, LenProperties
<1>6. Live' = Live \cup {Len(fds) + 1} /\ Len(fds) + 1 \notin Live
  BY <1>0, <1>3, <1>4, <1>5 DEF Live
<1>7. Cardinality(Live') = Cardinality(Live) + 1
  BY <1>0, <1>6, FS_AddElement
<1> QED
  BY <1>0, <1>3, <1>4, <1>5, <1>6, <1>7

(* At the end of a pass the entries that live move together.               *)
LEMMA Erasing ==
    ASSUME TypeOK, EndPass
    PROVE  /\ fds' \in Seq(Entry) /\ Len(fds') = Cardinality(Live)
           /\ DOMAIN fds' = 1..Cardinality(Live) /\ Live' = DOMAIN fds'
           /\ Cardinality(Live') = Cardinality(Live)
           /\ \E kept \in [1..Cardinality(Live) -> Live] :
                 /\ \A m, n \in 1..Cardinality(Live) : kept[m] = kept[n] => m = n
                 /\ \A i \in Live : \E n \in 1..Cardinality(Live) : kept[n] = i
                 /\ \A n \in 1..Cardinality(Live) : fds'[n] = fds[kept[n]]
<1> DEFINE N == Cardinality(Live)
<1>0. /\ Live \subseteq DOMAIN fds /\ IsFiniteSet(Live) /\ N \in Nat
      /\ \A i \in DOMAIN fds : fds[i] \in Entry
  BY Shape
<1>1. PICK kept \in [1..N -> Live] :
            /\ \A m, n \in DOMAIN kept : m < n => kept[m] < kept[n]
            /\ fds' = [n \in DOMAIN kept |-> fds[kept[n]]]
  BY DEF EndPass
<1>2. DOMAIN kept = 1..N /\ \A n \in 1..N : kept[n] \in Live /\ kept[n] \in 1..Len(fds)
  BY <1>0, <1>1, Shape
<1>3. ASSUME NEW m \in 1..N, NEW n \in 1..N, kept[m] = kept[n] PROVE m = n
  <2>1. kept[m] \in Int /\ kept[n] \in Int /\ m \in DOMAIN kept /\ n \in DOMAIN kept
    BY <1>2
  <2>2. ~(m < n) /\ ~(n < m)
    BY <2>1, <1>1, <1>3
  <2> QED
    BY <2>2
<1> HIDE DEF N
<1>4. fds' \in [1..N -> Entry] /\ \A n \in 1..N : fds'[n] = fds[kept[n]]
  BY <1>0, <1>1, <1>2
<1>5. fds' \in Seq(Entry) /\ Len(fds') = N /\ DOMAIN fds' = 1..N
  BY <1>0, <1>4, AsSeq
<1>6. Live' = 1..N
  BY <1>2, <1>4, <1>5 DEF Live
<1>7. IsFiniteSet(1..N) /\ Cardinality(1..N) = N
  BY <1>0, FS_Interval
<1>8. kept \in Injection(1..N, Live)
  BY <1>1, <1>3, Fun_IsInj
<1>9. kept \in Surjection(1..N, Live)
  BY <1>0, <1>7, <1>8, FS_Injection DEF N
<1>10. \A i \in Live : \E n \in 1..N : kept[n] = i
  BY <1>9 DEF Surjection
<1>11. \E k \in [1..N -> Live] :
          /\ \A m, n \in 1..N : k[m] = k[n] => m = n
          /\ \A i \in Live : \E n \in 1..N : k[n] = i
          /\ \A n \in 1..N : fds'[n] = fds[k[n]]
  <2>1. \A m, n \in 1..N : kept[m] = kept[n] => m = n
    BY <1>3
  <2>2. \A n \in 1..N : fds'[n] = fds[kept[n]]
    BY <1>4
  <2> QED
    BY <2>1, <2>2, <1>10, Zenon
<1>12. DOMAIN fds' = 1..N /\ Live' = DOMAIN fds' /\ Cardinality(Live') = N
  BY <1>5, <1>6, <1>7
<1> QED
  BY <1>5, <1>11, <1>12 DEF N

(* What follows from the invariant as long as the thread has not aborted.  *)
LEMMA Facts ==
    ASSUME SelectInv, at # "aborted"
    PROVE  /\ \A i \in Live : /\ fds[i].fd \in Open /\ fds[i].fd \in Descriptors
                              /\ fds[i].sink \in DOMAIN engines \cup {0}
           /\ \A i \in Live : fds[i].sink = 0 => fds[i].fd = MailboxFd /\ ~stopping
           /\ \A i \in Live : fds[i].sink # 0 => fds[i].fd = engines[fds[i].sink]
           /\ \A e \in DOMAIN engines : e \in 1..plugged /\ engines[e] \in Sockets
           /\ \A i, j \in Live : fds[i].fd = fds[j].fd => i = j
           /\ \A p \in pending : p = <<p[1], p[2]>> /\ p[2] \in {"inEvent", "errEvent"}
<1>1. \A e \in DOMAIN engines : e \in 1..plugged /\ engines[e] \in Sockets
  BY DEF SelectInv, TypeOK, Range
<1>2. \A i \in Live : \/ fds[i].sink \in DOMAIN engines /\ fds[i].fd = engines[fds[i].sink]
                      \/ ~stopping /\ fds[i].sink = 0 /\ fds[i].fd = MailboxFd
  BY DEF SelectInv, EntriesOf
<1>3. 0 \notin DOMAIN engines
  BY <1>1, Shape DEF SelectInv
<1>4. \A i \in Live : /\ fds[i].fd \in Open /\ fds[i].fd \in Descriptors
                      /\ fds[i].sink \in DOMAIN engines \cup {0}
  BY <1>1, <1>2 DEF Open, Range
<1>5. \A i \in Live : fds[i].sink = 0 => fds[i].fd = MailboxFd /\ ~stopping
  BY <1>2, <1>3
<1>6. \A i \in Live : fds[i].sink # 0 => fds[i].fd = engines[fds[i].sink]
  BY <1>2
<1>7. ASSUME NEW i \in Live, NEW j \in Live, fds[i].fd = fds[j].fd PROVE i = j
  <2>1. fds[i].sink = fds[j].sink
    BY <1>1, <1>2, <1>7 DEF SelectInv, OneEach
  <2> QED
    BY <2>1 DEF SelectInv, OneEach, Live
<1>8. \A p \in pending : p = <<p[1], p[2]>> /\ p[2] \in {"inEvent", "errEvent"}
  BY DEF SelectInv, TypeOK
<1> QED
  BY <1>1, <1>4, <1>5, <1>6, <1>7, <1>8

(* Returning from in_event() does not pass an entry that is to be tested.  *)
LEMMA Returning ==
    ASSUME SelectInv, InEvent, Return
    PROVE  /\ pos' \in 1..(Len(fds) + 1) /\ at' \in Places /\ at' \notin {"aborted", "top", "exited"}
           /\ current' = Mailbox /\ plugging' \in BOOLEAN
           /\ at' \in {"errEvent", "in", "inEvent"} => pos' \in DOMAIN fds
           /\ \A i \in DOMAIN fds : \A event : Ahead(i, event) => Ahead(i, event)'
<1>1. at # "aborted" /\ pos \in DOMAIN fds /\ DOMAIN fds = 1..Len(fds) /\ Len(fds) \in Nat
  BY Shape DEF SelectInv, InEvent, Where
<1>2. pos \in Int /\ pos + 1 \in 1..(Len(fds) + 1) /\ pos \in 1..(Len(fds) + 1) /\ plugging \in BOOLEAN
  BY <1>1 DEF SelectInv, TypeOK
<1>3. at \in {"errEvent", "inEvent"}
  BY DEF InEvent
<1>4. \/ plugging /\ at' = at /\ pos' = pos
      \/ at = "errEvent" /\ at' = "in" /\ pos' = pos
      \/ at = "inEvent" /\ at' = "err" /\ pos' = pos + 1
  BY <1>2, <1>3 DEF Return
<1>5. /\ pos' \in 1..(Len(fds) + 1) /\ at' \in {"errEvent", "in", "inEvent", "err"}
      /\ at' # "err" => pos' \in DOMAIN fds
  BY <1>1, <1>2, <1>3, <1>4
<1>6. ASSUME NEW i \in DOMAIN fds, NEW event, Ahead(i, event) PROVE Ahead(i, event)'
  <2>1. i \in Int
    BY <1>1
  <2> QED
    BY <2>1, <1>2, <1>3, <1>4, <1>6 DEF Ahead
<1> QED
  BY <1>5, <1>6 DEF Places, Return

LEMMA InitSelect == ASSUME Init PROVE SelectInv
<1> DEFINE first == [fd |-> MailboxFd, sink |-> 0]
<1>1. first \in [fd : Descriptors \cup {Retired}, sink : 0..plugged]
  BY DEF Init
<1>2. fds = <<first>> /\ first.fd = MailboxFd /\ first.sink = 0 /\ first.fd # Retired
  BY DEF Init
<1> HIDE DEF first
<1>3. /\ fds \in Seq([fd : Descriptors \cup {Retired}, sink : 0..plugged])
      /\ Len(fds) = 1 /\ DOMAIN fds = {1} /\ fds[1] = first
  BY <1>1, <1>2
<1>4. Live = {1} /\ Cardinality(Live) = 1
  <2>1. Live = {1}
    BY <1>2, <1>3 DEF Live
  <2> QED
    BY <2>1, FS_Singleton
<1>5. DOMAIN engines = {} /\ Range(engines) = {}
  <2>1. engines = << >>
    BY DEF Init
  <2>2. DOMAIN engines = {}
    BY <2>1
  <2> QED
    BY <2>2 DEF Range
<1>6. TypeOK
  <2>1. /\ pos \in 1..(Len(fds) + 1) /\ load \in 0..Len(fds) /\ plugged \in 0..MaxEngines
        /\ current \in 0..plugged /\ DOMAIN engines \subseteq 1..plugged
    BY <1>3, <1>5 DEF Init
  <2>2. /\ source \subseteq Descriptors /\ readfds \subseteq Descriptors
        /\ exceptfds \subseteq Descriptors /\ readable \subseteq Descriptors
        /\ at \in Places /\ stopping \in BOOLEAN /\ plugging \in BOOLEAN
        /\ pending \subseteq (0..plugged) \X {"inEvent", "errEvent"}
    BY DEF Init, Places
  <2> QED
    BY <2>1, <2>2, <1>3, <1>5 DEF TypeOK
<1>7. EntriesOf /\ OneEach /\ Counts
  BY <1>2, <1>3, <1>4, <1>5 DEF Init, EntriesOf, OneEach, Counts
<1>8. Reported /\ Where
  BY DEF Init, Reported, Where, InEvent
<1> QED
  BY <1>6, <1>7, <1>8 DEF SelectInv

LEMMA StepLoopEnds == ASSUME SelectInv, LoopEnds PROVE SelectInv'
<1>1. Live' = Live
  BY DEF LoopEnds, table, Live
<1>2. TypeOK'
  BY DEF SelectInv, LoopEnds, table, objects, TypeOK, Places
<1>3. EntriesOf' /\ OneEach' /\ Counts'
  BY <1>1 DEF SelectInv, LoopEnds, table, objects, EntriesOf, OneEach, Counts
<1>4. Reported' /\ Where'
  BY DEF SelectInv, LoopEnds, table, objects, Reported, Where, InEvent
<1> QED
  BY <1>2, <1>3, <1>4 DEF SelectInv

LEMMA StepSelect == ASSUME SelectInv, Select PROVE SelectInv'
<1>0. at # "aborted" /\ EntriesOf /\ OneEach /\ Counts
  BY DEF SelectInv, Select
<1>1. Live' = Live /\ fds' = fds /\ Len(fds) \in Nat /\ DOMAIN fds = 1..Len(fds)
  BY Shape DEF SelectInv, Select, Live
<1>2. readfds' \subseteq Descriptors /\ exceptfds' \subseteq Descriptors
  BY DEF SelectInv, TypeOK, Select
<1>3. \A p \in pending' : \E i \in DOMAIN fds :
         \/ p = <<fds[i].sink, "inEvent">> /\ fds[i].fd \in readfds'
         \/ p = <<fds[i].sink, "errEvent">> /\ fds[i].fd \in exceptfds'
  BY DEF Select
<1>4. \A i \in DOMAIN fds : fds[i].sink \in 0..plugged
  BY Shape DEF SelectInv
<1>5. pending' \subseteq (0..plugged) \X {"inEvent", "errEvent"}
  BY <1>3, <1>4
<1>6. TypeOK'
  BY <1>1, <1>2, <1>5 DEF SelectInv, TypeOK, Select, Places, objects
<1>7. EntriesOf' /\ OneEach' /\ Counts'
  BY <1>0, <1>1 DEF Select, objects, EntriesOf, OneEach, Counts
<1>8. at' = "err" /\ pos' = 1
  BY DEF Select
<1>9. ASSUME NEW p \in pending' PROVE \E i \in DOMAIN fds : fds[i].sink = p[1] /\ InFront(i, p[2])'
  <2>1. PICK i \in DOMAIN fds : \/ p = <<fds[i].sink, "inEvent">> /\ fds[i].fd \in readfds'
                                \/ p = <<fds[i].sink, "errEvent">> /\ fds[i].fd \in exceptfds'
    BY <1>3
  <2>2. i \in Live' /\ Ahead(i, p[2])'
    BY <1>1, <1>2, <1>8, <2>1 DEF Live, Ahead
  <2> QED
    BY <1>1, <2>1, <2>2 DEF InFront
<1>10. Reported' /\ Where'
  BY <1>1, <1>8, <1>9 DEF Reported, Where, InEvent
<1> QED
  BY <1>6, <1>7, <1>10 DEF SelectInv

(* The part of the invariant that a test of one entry can disturb.         *)
LEMMA StepTest ==
    ASSUME SelectInv, at # "aborted",
           UNCHANGED <<fds, source, readfds, exceptfds, load, stopping, plugging, objects, readable>>,
           at' \in {"err", "in", "errEvent", "inEvent"}, pos' \in 1..(Len(fds) + 1),
           pending' \subseteq pending, current' \in 0..plugged,
           at' # "err" => pos' \in DOMAIN fds,
           InEvent' => current' \in DOMAIN engines \cup {0},
           \A p \in pending' : \A i \in Live :
               fds[i].sink = p[1] /\ InFront(i, p[2]) => Ahead(i, p[2])'
    PROVE  SelectInv'
<1>1. Live' = Live
  BY DEF Live
<1>2. TypeOK'
  BY DEF SelectInv, TypeOK, Places, objects
<1>3. EntriesOf' /\ OneEach' /\ Counts'
  BY <1>1 DEF SelectInv, objects, EntriesOf, OneEach, Counts
<1>4. Where'
  BY DEF Where, objects
<1>5. ASSUME NEW p \in pending' PROVE \E i \in DOMAIN fds' : fds'[i].sink = p[1] /\ InFront(i, p[2])'
  <2>1. PICK i \in DOMAIN fds : fds[i].sink = p[1] /\ InFront(i, p[2])
    BY <1>5 DEF SelectInv, Reported
  <2>2. i \in Live /\ Ahead(i, p[2])'
    BY <2>1, <1>5 DEF InFront
  <2>3. InFront(i, p[2])'
    BY <1>1, <2>1, <2>2 DEF InFront
  <2> QED
    BY <2>1, <2>3
<1>6. Reported'
  BY <1>5 DEF Reported
<1> QED
  BY <1>2, <1>3, <1>4, <1>6 DEF SelectInv

LEMMA StepTestErr == ASSUME SelectInv, TestErr PROVE SelectInv'
<1>1. /\ at = "err" /\ pos \in DOMAIN fds /\ DOMAIN fds = 1..Len(fds) /\ Len(fds) \in Nat
      /\ Fd(pos) = fds[pos].fd /\ pos + 1 \in 1..(Len(fds) + 1) /\ pos \in 1..(Len(fds) + 1)
  BY Shape DEF SelectInv, TypeOK, TestErr, Fd
<1>2. /\ UNCHANGED <<fds, source, readfds, exceptfds, load, stopping, plugging, objects, readable>>
      /\ exceptfds \subseteq Descriptors /\ current \in 0..plugged
      /\ fds[pos].sink \in 0..plugged
  BY <1>1, Shape DEF SelectInv, TypeOK, TestErr
<1>3. CASE Fd(pos) = Retired /\ NextEntry
  <2>1. \A i \in Live : \A event : InFront(i, event) => Ahead(i, event)'
    <3>1. pos \notin Live
      BY <1>1, <1>3 DEF Live
    <3>2. \A i \in Live : i \in Int
      BY <1>1 DEF Live
    <3> QED
      BY <3>1, <3>2, <1>1, <1>3 DEF InFront, Ahead, NextEntry
  <2> QED
    BY <1>1, <1>2, <1>3, <2>1, StepTest DEF NextEntry, InEvent
<1>4. CASE Fd(pos) \in exceptfds /\ CallInEvent("errEvent")
  <2>1. pos \in Live /\ fds[pos].sink \in DOMAIN engines \cup {0}
    BY <1>1, <1>2, <1>4, Facts DEF Live
  <2>2. ASSUME NEW p \in pending', NEW i \in Live, fds[i].sink = p[1], InFront(i, p[2])
        PROVE  Ahead(i, p[2])'
    <3>1. p \in pending /\ p # <<fds[pos].sink, "errEvent">>
      BY <1>4, <2>2 DEF CallInEvent
    <3>2. p = <<p[1], p[2]>> /\ p[2] \in {"inEvent", "errEvent"}
      BY <1>1, <3>1, Facts
    <3>3. i = pos => p[2] = "inEvent"
      BY <2>2, <3>1, <3>2
    <3> QED
      BY <1>1, <1>4, <2>2, <3>3 DEF InFront, Ahead, CallInEvent
  <2> QED
    BY <1>1, <1>2, <1>4, <2>1, <2>2, StepTest DEF CallInEvent
<1>5. CASE /\ Fd(pos) # Retired /\ Fd(pos) \notin exceptfds
           /\ at' = "in" /\ UNCHANGED <<pos, current, pending>>
  <2>1. \A p \in pending : p[2] \in {"inEvent", "errEvent"}
    BY <1>1, Facts
  <2>2. \A p \in pending' : \A i \in Live :
           fds[i].sink = p[1] /\ InFront(i, p[2]) => Ahead(i, p[2])'
    BY <1>1, <1>5, <2>1 DEF InFront, Ahead
  <2> QED
    BY <1>1, <1>2, <1>5, <2>2, StepTest DEF InEvent
<1> QED
  BY <1>3, <1>4, <1>5 DEF TestErr

LEMMA StepTestIn == ASSUME SelectInv, TestIn PROVE SelectInv'
<1>1. /\ at = "in" /\ pos \in DOMAIN fds /\ DOMAIN fds = 1..Len(fds) /\ Len(fds) \in Nat
      /\ Fd(pos) = fds[pos].fd /\ pos + 1 \in 1..(Len(fds) + 1) /\ pos \in 1..(Len(fds) + 1)
  BY Shape DEF SelectInv, Where, TestIn, Fd
<1>2. /\ UNCHANGED <<fds, source, readfds, exceptfds, load, stopping, plugging, objects, readable>>
      /\ readfds \subseteq Descriptors /\ current \in 0..plugged
      /\ fds[pos].sink \in 0..plugged
  BY <1>1, Shape DEF SelectInv, TypeOK, TestIn
<1>3. CASE Fd(pos) \in readfds /\ CallInEvent("inEvent")
  <2>1. pos \in Live /\ fds[pos].sink \in DOMAIN engines \cup {0}
    BY <1>1, <1>2, <1>3, Facts DEF Live
  <2>2. ASSUME NEW p \in pending', NEW i \in Live, fds[i].sink = p[1], InFront(i, p[2])
        PROVE  Ahead(i, p[2])'
    <3>1. p \in pending /\ p # <<fds[pos].sink, "inEvent">>
      BY <1>3, <2>2 DEF CallInEvent
    <3>2. p = <<p[1], p[2]>>
      BY <1>1, <3>1, Facts
    <3>3. ~(i = pos /\ p[2] = "inEvent")
      BY <2>2, <3>1, <3>2
    <3> QED
      BY <1>1, <1>3, <2>2, <3>3 DEF InFront, Ahead, CallInEvent
  <2> QED
    BY <1>1, <1>2, <1>3, <2>1, <2>2, StepTest DEF CallInEvent
<1>4. CASE Fd(pos) \notin readfds /\ NextEntry
  <2>1. \A i \in Live : \A event : InFront(i, event) => Ahead(i, event)'
    <3>1. \A i \in Live : i \in Int
      BY <1>1 DEF Live
    <3> QED
      BY <3>1, <1>1, <1>4 DEF InFront, Ahead, NextEntry
  <2> QED
    BY <1>1, <1>2, <1>4, <2>1, StepTest DEF NextEntry, InEvent
<1> QED
  BY <1>3, <1>4 DEF TestIn

LEMMA StepEndPass == ASSUME SelectInv, EndPass PROVE SelectInv'
<1> DEFINE N == Cardinality(Live)
<1>0. /\ TypeOK /\ at = "err" /\ at' = "top" /\ pos' = 1 /\ pos > Len(fds) /\ Len(fds) \in Nat
      /\ EntriesOf /\ OneEach /\ Counts /\ Reported /\ Live \subseteq DOMAIN fds /\ N \in Nat
      /\ DOMAIN fds = 1..Len(fds)
      /\ UNCHANGED <<source, readfds, exceptfds, load, pending, stopping, current, plugging,
                     engines, plugged, readable>>
  BY Shape DEF SelectInv, EndPass, objects
<1>1. /\ fds' \in Seq(Entry) /\ Len(fds') = N /\ DOMAIN fds' = 1..N /\ Live' = 1..N
      /\ Cardinality(Live') = N
  BY <1>0, Erasing
<1>2. PICK kept \in [1..N -> Live] :
          /\ \A m, n \in 1..N : kept[m] = kept[n] => m = n
          /\ \A i \in Live : \E n \in 1..N : kept[n] = i
          /\ \A n \in 1..N : fds'[n] = fds[kept[n]]
  BY <1>0, Erasing
<1> HIDE DEF N
<1>3. pending = {}
  <2>1. \A i \in Live, event \in {"inEvent", "errEvent"} : ~InFront(i, event)
    <3>1. \A i \in Live : i \in Int /\ i <= Len(fds)
      BY <1>0
    <3>2. pos \in Int
      BY <1>0 DEF TypeOK
    <3> QED
      BY <1>0, <3>1, <3>2 DEF InFront, Ahead
  <2>2. \A p \in pending : p[2] \in {"inEvent", "errEvent"}
    BY <1>0, Facts DEF SelectInv
  <2> QED
    BY <1>0, <2>1, <2>2 DEF Reported, InFront
<1>4. \A n \in 1..N : /\ kept[n] \in Live /\ kept[n] \in DOMAIN fds
                      /\ fds'[n].fd = fds[kept[n]].fd /\ fds'[n].sink = fds[kept[n]].sink
  BY <1>0, <1>2
<1>5. TypeOK'
  <2>1. fds' \in Seq([fd : Descriptors \cup {Retired}, sink : 0..plugged'])
    BY <1>0, <1>1 DEF Entry
  <2>2. pos' \in 1..(Len(fds') + 1) /\ load' \in 0..Len(fds') /\ at' \in Places
    BY <1>0, <1>1 DEF Places, Counts, N
  <2> QED
    BY <1>0, <2>1, <2>2 DEF TypeOK
<1>6. EntriesOf'
  <2>1. ASSUME NEW n \in Live'
        PROVE  \/ fds'[n].sink \in DOMAIN engines' /\ fds'[n].fd = engines'[fds'[n].sink]
               \/ ~stopping' /\ fds'[n].sink = 0 /\ fds'[n].fd = MailboxFd
    <3>1. n \in 1..N /\ kept[n] \in Live
      BY <1>1, <1>4, <2>1
    <3>2. \/ fds[kept[n]].sink \in DOMAIN engines /\ fds[kept[n]].fd = engines[fds[kept[n]].sink]
          \/ ~stopping /\ fds[kept[n]].sink = 0 /\ fds[kept[n]].fd = MailboxFd
      BY <1>0, <3>1 DEF EntriesOf
    <3>3. engines' = engines /\ stopping' = stopping
      BY <1>0
    <3>4. fds'[n].fd = fds[kept[n]].fd /\ fds'[n].sink = fds[kept[n]].sink
      BY <1>4, <3>1
    <3> QED
      BY <3>2, <3>3, <3>4
  <2>2. ASSUME NEW e \in DOMAIN engines' PROVE \E n \in Live' : fds'[n].sink = e
    <3>1. PICK i \in Live : fds[i].sink = e
      BY <1>0 DEF EntriesOf
    <3>2. PICK n \in 1..N : kept[n] = i
      BY <1>2
    <3> QED
      BY <1>1, <1>4, <3>1, <3>2
  <2>3. ASSUME ~stopping' PROVE \E n \in Live' : fds'[n].sink = 0
    <3>1. PICK i \in Live : fds[i].sink = 0
      BY <1>0, <2>3 DEF EntriesOf
    <3>2. PICK n \in 1..N : kept[n] = i
      BY <1>2
    <3> QED
      BY <1>1, <1>4, <3>1, <3>2
  <2> QED
    BY <2>1, <2>2, <2>3 DEF EntriesOf
<1>7. OneEach'
  <2>1. ASSUME NEW m \in DOMAIN fds', NEW n \in DOMAIN fds', fds'[m].sink = fds'[n].sink PROVE m = n
    <3>1. m \in 1..N /\ n \in 1..N
      BY <1>1
    <3>2. kept[m] = kept[n]
      BY <1>0, <1>4, <2>1, <3>1 DEF OneEach
    <3> QED
      BY <1>2, <3>1, <3>2
  <2> QED
    BY <2>1, <1>0 DEF OneEach
<1>8. Counts'
  <2>1. ASSUME NEW f PROVE f \in source <=> \E n \in Live' : fds'[n].fd = f
    <3>1. f \in source <=> \E i \in Live : fds[i].fd = f
      BY <1>0 DEF Counts
    <3>2. (\E i \in Live : fds[i].fd = f) <=> \E n \in 1..N : fds'[n].fd = f
      BY <1>2, <1>4
    <3> QED
      BY <1>1, <3>1, <3>2
  <2>2. source' = {fds'[n].fd : n \in Live'}
    BY <1>0, <2>1
  <2> QED
    BY <2>2, <1>0, <1>1 DEF Counts, N
<1>9. Reported' /\ Where'
  BY <1>0, <1>3 DEF Reported, Where, InEvent
<1> QED
  BY <1>5, <1>6, <1>7, <1>8, <1>9 DEF SelectInv

LEMMA StepReturns == ASSUME SelectInv, InEventReturns PROVE SelectInv'
<1>1. /\ at # "aborted" /\ InEvent /\ Return /\ DOMAIN fds = 1..Len(fds) /\ Live \subseteq DOMAIN fds
      /\ UNCHANGED <<fds, source, readfds, exceptfds, load, pending, stopping, engines, plugged>>
      /\ readable' \subseteq readable /\ plugged \in Nat
  BY Shape DEF SelectInv, InEventReturns, InEvent, table, objects
<1>2. /\ pos' \in 1..(Len(fds) + 1) /\ at' \in Places /\ at' \notin {"aborted", "top", "exited"}
      /\ current' = 0 /\ plugging' \in BOOLEAN
      /\ at' \in {"errEvent", "in", "inEvent"} => pos' \in DOMAIN fds
      /\ \A i \in DOMAIN fds : \A event : Ahead(i, event) => Ahead(i, event)'
  BY <1>1, Returning
<1>3. Live' = Live
  BY <1>1 DEF Live
<1>4. TypeOK'
  BY <1>1, <1>2 DEF SelectInv, TypeOK
<1>5. EntriesOf' /\ OneEach' /\ Counts'
  BY <1>1, <1>3 DEF SelectInv, EntriesOf, OneEach, Counts
<1>6. \A i \in DOMAIN fds : \A event : InFront(i, event) => InFront(i, event)'
  BY <1>1, <1>2, <1>3 DEF InFront
<1>7. Reported' /\ Where'
  BY <1>1, <1>2, <1>6 DEF SelectInv, Reported, Where
<1> QED
  BY <1>4, <1>5, <1>7 DEF SelectInv

(* What a handler does that retires descriptors: error() and process_stop. *)
LEMMA Removal ==
    ASSUME SelectInv, at # "aborted", NEW F \in SUBSET Descriptors, RmFds(F)
    PROVE  /\ Live' = {i \in Live : fds[i].fd \notin F} /\ DOMAIN fds' = DOMAIN fds
           /\ fds' \in Seq(Entry) /\ Len(fds') = Len(fds)
           /\ \A i \in DOMAIN fds : fds'[i].sink = fds[i].sink
           /\ \A i \in Live' : i \in Live /\ fds'[i].fd = fds[i].fd
           /\ source' = {fds'[i].fd : i \in Live'}
           /\ source' \subseteq Descriptors /\ readfds' \subseteq Descriptors
           /\ exceptfds' \subseteq Descriptors /\ pending' \subseteq pending
           /\ \A p \in pending' : \E i \in Live' :
                 /\ fds'[i].sink = p[1] /\ Ahead(i, p[2])
                 /\ \/ p[2] = "inEvent" /\ fds'[i].fd \in readfds'
                    \/ p[2] = "errEvent" /\ fds'[i].fd \in exceptfds'
<1>0. TypeOK /\ Retired \notin F /\ OneEach /\ Counts /\ Reported
  BY DEF SelectInv
<1>1. /\ fds' \in Seq(Entry) /\ Len(fds') = Len(fds) /\ DOMAIN fds' = DOMAIN fds
      /\ \A i \in DOMAIN fds : /\ fds'[i].sink = fds[i].sink
                               /\ fds[i].fd \in F => fds'[i].fd = Retired
                               /\ fds[i].fd \notin F => fds'[i].fd = fds[i].fd
      /\ Live' = {i \in Live : fds[i].fd \notin F}
  BY <1>0, Retiring
<1>2. \A i \in Live' : i \in Live /\ fds'[i].fd = fds[i].fd /\ fds[i].fd \notin F
  BY <1>1 DEF Live
<1>3. source' = source \ F /\ readfds' = readfds \ F /\ exceptfds' = exceptfds \ F
      /\ pending' = {p \in pending : \E i \in DOMAIN fds : fds[i].sink = p[1] /\ fds[i].fd \notin F}
  BY DEF RmFds
<1>4. source' = {fds'[i].fd : i \in Live'}
  <2>1. ASSUME NEW f PROVE f \in source' <=> \E i \in Live' : fds'[i].fd = f
    BY <1>0, <1>1, <1>2, <1>3 DEF Counts
  <2> QED
    BY <2>1
<1>5. ASSUME NEW p \in pending'
      PROVE  \E i \in Live' : /\ fds'[i].sink = p[1] /\ Ahead(i, p[2])
                              /\ \/ p[2] = "inEvent" /\ fds'[i].fd \in readfds'
                                 \/ p[2] = "errEvent" /\ fds'[i].fd \in exceptfds'
  <2>1. PICK i \in DOMAIN fds : fds[i].sink = p[1] /\ fds[i].fd \notin F
    BY <1>3
  <2>2. PICK j \in DOMAIN fds : fds[j].sink = p[1] /\ InFront(j, p[2])
    BY <1>0, <1>3 DEF Reported
  <2>3. j = i /\ i \in Live
    BY <1>0, <2>1, <2>2 DEF OneEach, InFront
  <2>4. i \in Live' /\ fds'[i].sink = p[1] /\ fds'[i].fd = fds[i].fd
    BY <1>1, <2>1, <2>3
  <2> QED
    BY <1>3, <2>1, <2>2, <2>3, <2>4 DEF InFront
<1>6. /\ source' \subseteq Descriptors /\ readfds' \subseteq Descriptors
      /\ exceptfds' \subseteq Descriptors /\ pending' \subseteq pending
  BY <1>0, <1>3 DEF TypeOK
<1> QED
  BY <1>1, <1>2, <1>4, <1>5, <1>6

LEMMA StepEngineError == ASSUME SelectInv, EngineError PROVE SelectInv'
<1> DEFINE f == engines[current]
<1>1. /\ at # "aborted" /\ TypeOK /\ EntriesOf /\ OneEach /\ Counts /\ InEvent /\ Return
      /\ current \in DOMAIN engines /\ RmFds({f}) /\ plugged \in Nat
      /\ engines' = Restrict(engines, DOMAIN engines \ {current})
      /\ readable' = readable \ {f} /\ UNCHANGED <<stopping, plugged>>
  BY Shape DEF SelectInv, EngineError, InEvent, Where
<1>2. f \in Sockets /\ {f} \in SUBSET Descriptors
  BY <1>1, Facts
<1>3. DOMAIN engines' = DOMAIN engines \ {current} /\ \A e \in DOMAIN engines' : engines'[e] = engines[e]
  BY <1>1 DEF Restrict
<1> HIDE DEF f
<1>4. /\ Live' = {i \in Live : fds[i].fd # f} /\ DOMAIN fds' = DOMAIN fds
      /\ fds' \in Seq(Entry) /\ Len(fds') = Len(fds)
      /\ \A i \in DOMAIN fds : fds'[i].sink = fds[i].sink
      /\ \A i \in Live' : i \in Live /\ fds'[i].fd = fds[i].fd
      /\ source' = {fds'[i].fd : i \in Live'}
      /\ source' \subseteq Descriptors /\ readfds' \subseteq Descriptors
      /\ exceptfds' \subseteq Descriptors /\ pending' \subseteq pending
      /\ \A p \in pending' : \E i \in Live' :
            /\ fds'[i].sink = p[1] /\ Ahead(i, p[2])
            /\ \/ p[2] = "inEvent" /\ fds'[i].fd \in readfds'
               \/ p[2] = "errEvent" /\ fds'[i].fd \in exceptfds'
  BY <1>1, <1>2, Removal
<1>5. /\ pos' \in 1..(Len(fds) + 1) /\ at' \in Places /\ at' \notin {"aborted", "top", "exited"}
      /\ current' = 0 /\ plugging' \in BOOLEAN
      /\ at' \in {"errEvent", "in", "inEvent"} => pos' \in DOMAIN fds
      /\ \A i \in DOMAIN fds : \A event : Ahead(i, event) => Ahead(i, event)'
  BY <1>1, Returning
<1>6. PICK i0 \in Live : fds[i0].sink = current /\ fds[i0].fd = f
  <2>1. PICK i \in Live : fds[i].sink = current
    BY <1>1 DEF EntriesOf
  <2>2. current # 0
    BY <1>1, Facts
  <2> QED
    BY <1>1, <2>1, <2>2, Facts DEF f
<1>7. Live' = Live \ {i0}
  BY <1>1, <1>4, <1>6, Facts
<1>8. load' = Cardinality(Live') /\ Cardinality(Live') \in 0..Len(fds)
  <2>1. IsFiniteSet(Live) /\ Cardinality(Live) \in Nat /\ Cardinality(Live) <= Len(fds) /\ Len(fds) \in Nat
    BY <1>1, Shape
  <2>2. IsFiniteSet(Live') /\ Cardinality(Live') = Cardinality(Live) - 1
    BY <1>6, <1>7, <2>1, FS_RemoveElement
  <2>3. Cardinality(Live') \in Nat
    BY <2>2, FS_CardinalityType
  <2>4. load' = load - Cardinality({f}) /\ Cardinality({f}) = 1 /\ load = Cardinality(Live)
    BY <1>1, FS_Singleton DEF RmFds, Counts
  <2> QED
    BY <2>1, <2>2, <2>3, <2>4
<1>9. TypeOK'
  <2>1. DOMAIN engines' \subseteq 1..plugged' /\ Range(engines') \subseteq Sockets
    BY <1>1, <1>3 DEF TypeOK, Range
  <2>2. fds' \in Seq([fd : Descriptors \cup {Retired}, sink : 0..plugged'])
    BY <1>1, <1>4 DEF Entry
  <2>3. readable' \subseteq Descriptors /\ pending' \subseteq (0..plugged') \X {"inEvent", "errEvent"}
        /\ plugged' \in 0..MaxEngines /\ stopping' \in BOOLEAN /\ current' \in 0..plugged'
    BY <1>1, <1>4, <1>5 DEF TypeOK
  <2>4. pos' \in 1..(Len(fds') + 1) /\ load' \in 0..Len(fds')
    BY <1>4, <1>5, <1>8
  <2> QED
    BY <1>4, <1>5, <2>1, <2>2, <2>3, <2>4 DEF TypeOK
<1>10. EntriesOf'
  <2>1. ASSUME NEW i \in Live'
        PROVE  \/ fds'[i].sink \in DOMAIN engines' /\ fds'[i].fd = engines'[fds'[i].sink]
               \/ ~stopping' /\ fds'[i].sink = 0 /\ fds'[i].fd = MailboxFd
    <3>1. i \in Live /\ i # i0 /\ i \in DOMAIN fds /\ fds'[i].sink = fds[i].sink /\ fds'[i].fd = fds[i].fd
      BY <1>4, <1>7 DEF Live
    <3>2. fds[i].sink # current
      BY <1>1, <1>6, <3>1 DEF OneEach, Live
    <3>3. \/ fds[i].sink \in DOMAIN engines /\ fds[i].fd = engines[fds[i].sink]
          \/ ~stopping /\ fds[i].sink = 0 /\ fds[i].fd = MailboxFd
      BY <1>1, <3>1 DEF EntriesOf
    <3>4. stopping' = stopping
      BY <1>1
    <3> QED
      BY <1>3, <3>1, <3>2, <3>3, <3>4
  <2>2. ASSUME NEW e \in DOMAIN engines' PROVE \E i \in Live' : fds'[i].sink = e
    <3>1. PICK i \in Live : fds[i].sink = e
      BY <1>1, <1>3 DEF EntriesOf
    <3>2. i # i0 /\ i \in DOMAIN fds
      BY <1>3, <1>6, <3>1 DEF Live
    <3> QED
      BY <1>4, <1>7, <3>1, <3>2
  <2>3. ASSUME ~stopping' PROVE \E i \in Live' : fds'[i].sink = 0
    <3>1. PICK i \in Live : fds[i].sink = 0
      BY <1>1, <2>3 DEF EntriesOf
    <3>2. i # i0 /\ i \in DOMAIN fds
      BY <1>1, <1>6, <3>1, Facts DEF Live
    <3> QED
      BY <1>4, <1>7, <3>1, <3>2
  <2> QED
    BY <2>1, <2>2, <2>3 DEF EntriesOf
<1>11. OneEach'
  <2>1. \A i, j \in DOMAIN fds' : fds'[i].sink = fds'[j].sink => i = j
    BY <1>1, <1>4 DEF OneEach
  <2>2. \A d, e \in DOMAIN engines' : engines'[d] = engines'[e] => d = e
    BY <1>1, <1>3 DEF OneEach
  <2> QED
    BY <2>1, <2>2 DEF OneEach
<1>12. Counts'
  BY <1>4, <1>8 DEF Counts
<1>13. Reported' /\ Where'
  <2>1. ASSUME NEW p \in pending' PROVE \E i \in DOMAIN fds' : fds'[i].sink = p[1] /\ InFront(i, p[2])'
    <3>1. PICK i \in Live' : /\ fds'[i].sink = p[1] /\ Ahead(i, p[2])
                             /\ \/ p[2] = "inEvent" /\ fds'[i].fd \in readfds'
                                \/ p[2] = "errEvent" /\ fds'[i].fd \in exceptfds'
      BY <1>4
    <3>2. i \in DOMAIN fds /\ Ahead(i, p[2])'
      BY <1>4, <1>5, <3>1 DEF Live
    <3> QED
      BY <1>4, <3>1, <3>2 DEF InFront
  <2> QED
    BY <1>4, <1>5, <2>1 DEF Reported, Where
<1> QED
  BY <1>9, <1>10, <1>11, <1>12, <1>13 DEF SelectInv

LEMMA StepNewConnection ==
    ASSUME SelectInv, NEW f \in Sockets, NewConnection(f)
    PROVE  SelectInv'
<1> DEFINE new == Len(fds) + 1
           e == plugged + 1
<1>1. /\ at # "aborted" /\ TypeOK /\ EntriesOf /\ OneEach /\ Counts /\ Reported /\ Where
      /\ f \notin Open /\ AddFd(f, plugged + 1) /\ plugged' = plugged + 1 /\ plugged < MaxEngines
      /\ plugged \in Nat /\ DOMAIN fds = 1..Len(fds) /\ Len(fds) \in Nat
      /\ UNCHANGED <<pos, stopping, readable, readfds, exceptfds, pending>>
      /\ source' = source \cup {f} /\ load' = load + 1
  BY Shape DEF SelectInv, NewConnection, InEvent, AddFd
<1>2. /\ fds' \in Seq(Entry') /\ Len(fds') = new
      /\ DOMAIN fds' = DOMAIN fds \cup {new} /\ new \notin DOMAIN fds
      /\ \A i \in DOMAIN fds : fds'[i] = fds[i]
      /\ fds'[new].fd = f /\ fds'[new].sink = e
      /\ Live' = Live \cup {new} /\ Live \subseteq DOMAIN fds
      /\ Cardinality(Live') = Cardinality(Live) + 1
      /\ \A i \in DOMAIN fds : fds[i].sink \in 0..plugged
  <2>1. /\ fds' \in Seq(Entry') /\ Len(fds') = new
        /\ DOMAIN fds' = DOMAIN fds \cup {new}
        /\ \A i \in DOMAIN fds : fds'[i] = fds[i]
        /\ fds'[new].fd = f /\ fds'[new].sink = e
        /\ Live' = Live \cup {new}
        /\ Cardinality(Live') = Cardinality(Live) + 1
    BY <1>1, Adding
  <2>2. new \notin DOMAIN fds
    BY <1>1
  <2>3. Live \subseteq DOMAIN fds /\ \A i \in DOMAIN fds : fds[i].sink \in 0..plugged
    BY <1>1, Shape
  <2> QED
    BY <2>1, <2>2, <2>3
<1>3. /\ fds' \in Seq([fd : Descriptors \cup {Retired}, sink : 0..plugged'])
      /\ source' \subseteq Descriptors /\ readfds' \subseteq Descriptors /\ exceptfds' \subseteq Descriptors
      /\ readable' \subseteq Descriptors /\ stopping' \in BOOLEAN
      /\ load' \in 0..Len(fds') /\ pos' \in 1..(Len(fds') + 1)
      /\ plugged' \in 0..MaxEngines /\ current \in 0..plugged'
      /\ pending' \subseteq (0..plugged') \X {"inEvent", "errEvent"}
  <2>1. /\ source \subseteq Descriptors /\ readfds \subseteq Descriptors /\ exceptfds \subseteq Descriptors
        /\ readable \subseteq Descriptors /\ stopping \in BOOLEAN /\ load \in 0..Len(fds)
        /\ pos \in 1..(Len(fds) + 1) /\ plugged \in 0..MaxEngines /\ current \in 0..plugged
        /\ pending \subseteq (0..plugged) \X {"inEvent", "errEvent"}
    BY <1>1 DEF TypeOK
  <2>2. 0..plugged \subseteq 0..plugged'
    BY <1>1
  <2>3. pending' \subseteq (0..plugged') \X {"inEvent", "errEvent"}
    BY <2>1, <2>2, <1>1
  <2> QED
    BY <2>1, <2>2, <2>3, <1>1, <1>2 DEF Entry
<1> HIDE DEF new, e
<1>4. CASE Len(fds') > SetSize
  <2>1. at' = "aborted" /\ UNCHANGED <<engines, current, plugging>>
    BY <1>2, <1>4 DEF NewConnection, new
  <2>2. /\ DOMAIN engines' \subseteq 1..plugged' /\ Range(engines') \subseteq Sockets
        /\ plugging' \in BOOLEAN
    BY <1>1, <2>1 DEF TypeOK, Range
  <2>3. TypeOK'
    BY <1>3, <2>1, <2>2 DEF TypeOK, Places
  <2> QED
    BY <2>1, <2>3 DEF SelectInv
<1>5. CASE Len(fds') <= SetSize
  <2>1. /\ engines' = [d \in DOMAIN engines \cup {e} |-> IF d = e THEN f ELSE engines[d]]
        /\ current' = e /\ plugging' = TRUE /\ at' = at
    BY <1>5 DEF NewConnection, e
  <2>2. e \notin DOMAIN engines /\ \A d \in DOMAIN engines : d \in 1..plugged /\ engines[d] \in Sockets
    BY <1>1, Facts DEF e
  <2>3. /\ DOMAIN engines' = DOMAIN engines \cup {e} /\ engines'[e] = f
        /\ \A d \in DOMAIN engines : engines'[d] = engines[d]
    BY <2>1, <2>2
  <2>4. /\ DOMAIN engines' \subseteq 1..plugged' /\ Range(engines') \subseteq Sockets
        /\ current' \in 0..plugged' /\ at' \in Places /\ plugging' \in BOOLEAN
    <3>1. e \in 1..plugged' /\ e \in 0..plugged' /\ 1..plugged \subseteq 1..plugged'
      BY <1>1 DEF e
    <3>2. DOMAIN engines' \subseteq 1..plugged'
      BY <2>2, <2>3, <3>1
    <3>3. Range(engines') \subseteq Sockets
      BY <2>2, <2>3 DEF Range
    <3> QED
      BY <1>1, <2>1, <3>1, <3>2, <3>3 DEF TypeOK
  <2>5. TypeOK'
    BY <1>3, <2>4 DEF TypeOK
  <2>6. EntriesOf'
    <3>1. ASSUME NEW i \in Live'
          PROVE  \/ fds'[i].sink \in DOMAIN engines' /\ fds'[i].fd = engines'[fds'[i].sink]
                 \/ ~stopping' /\ fds'[i].sink = 0 /\ fds'[i].fd = MailboxFd
      <4>1. CASE i = new
        BY <1>2, <2>3, <4>1
      <4>2. CASE i \in Live
        <5>1. \/ fds[i].sink \in DOMAIN engines /\ fds[i].fd = engines[fds[i].sink]
              \/ ~stopping /\ fds[i].sink = 0 /\ fds[i].fd = MailboxFd
          BY <1>1, <4>2 DEF EntriesOf
        <5>2. fds'[i] = fds[i] /\ stopping' = stopping
          BY <1>1, <1>2, <4>2
        <5> QED
          BY <2>3, <5>1, <5>2
      <4> QED
        BY <1>2, <4>1, <4>2
    <3>2. ASSUME NEW d \in DOMAIN engines' PROVE \E i \in Live' : fds'[i].sink = d
      <4>1. CASE d = e
        BY <1>2, <4>1
      <4>2. CASE d \in DOMAIN engines
        BY <1>1, <1>2, <4>2 DEF EntriesOf
      <4> QED
        BY <2>3, <4>1, <4>2
    <3>3. ASSUME ~stopping' PROVE \E i \in Live' : fds'[i].sink = 0
      BY <1>1, <1>2, <3>3 DEF EntriesOf
    <3> QED
      BY <3>1, <3>2, <3>3 DEF EntriesOf
  <2>7. OneEach'
    <3>1. \A i \in DOMAIN fds : fds[i].sink # e
      BY <1>1, <1>2 DEF e
    <3>2. \A i, j \in DOMAIN fds' : fds'[i].sink = fds'[j].sink => i = j
      BY <1>1, <1>2, <3>1 DEF OneEach
    <3>3. \A d \in DOMAIN engines : engines[d] # f
      BY <1>1 DEF Open, Range
    <3>4. \A c, d \in DOMAIN engines' : engines'[c] = engines'[d] => c = d
      BY <1>1, <2>3, <3>3 DEF OneEach
    <3> QED
      BY <3>2, <3>4 DEF OneEach
  <2>8. Counts'
    <3>1. ASSUME NEW g PROVE g \in source' <=> \E i \in Live' : fds'[i].fd = g
      <4>1. g \in source <=> \E i \in Live : fds[i].fd = g
        BY <1>1 DEF Counts
      <4> QED
        BY <1>1, <1>2, <4>1
    <3>2. source' = {fds'[i].fd : i \in Live'}
      BY <3>1
    <3> QED
      BY <3>2, <1>1, <1>2 DEF Counts
  <2>9. Reported'
    <3>1. ASSUME NEW p \in pending' PROVE \E i \in DOMAIN fds' : fds'[i].sink = p[1] /\ InFront(i, p[2])'
      <4>1. PICK i \in DOMAIN fds : fds[i].sink = p[1] /\ InFront(i, p[2])
        BY <1>1 DEF Reported
      <4>2. i \in Live' /\ i \in DOMAIN fds' /\ fds'[i] = fds[i]
        BY <1>2, <4>1 DEF InFront
      <4>3. Ahead(i, p[2])'
        BY <1>1, <2>1, <4>1 DEF InFront, Ahead
      <4>4. InFront(i, p[2])'
        BY <1>1, <4>1, <4>2, <4>3 DEF InFront
      <4> QED
        BY <4>1, <4>2, <4>4
    <3>2. at' \notin {"top", "exited"}
      BY <2>1 DEF NewConnection, InEvent
    <3> QED
      BY <3>1, <3>2 DEF Reported
  <2>10. Where'
    BY <1>1, <1>2, <2>1, <2>3 DEF Where
  <2> QED
    BY <2>5, <2>6, <2>7, <2>8, <2>9, <2>10 DEF SelectInv
<1>6. Len(fds') \in Int /\ SetSize \in Int
  BY <1>1, <1>2 DEF new
<1> QED
  BY <1>4, <1>5, <1>6

LEMMA StepProcessStop == ASSUME SelectInv, ProcessStop PROVE SelectInv'
<1>1. /\ at # "aborted" /\ TypeOK /\ EntriesOf /\ OneEach /\ Counts /\ InEvent /\ Where
      /\ RmFds(Open) /\ engines' = << >> /\ readable' = readable \cap {MailboxFd}
      /\ stopping' = TRUE /\ ~stopping /\ current = 0
      /\ UNCHANGED <<at, pos, current, plugging, plugged>>
  BY DEF SelectInv, ProcessStop, InEvent, place
<1>2. DOMAIN engines' = {} /\ Range(engines') = {}
  <2>1. DOMAIN engines' = {}
    BY <1>1
  <2> QED
    BY <2>1 DEF Range
<1>3. Open \in SUBSET Descriptors
  BY <1>1 DEF Open, TypeOK
<1>4. /\ Live' = {i \in Live : fds[i].fd \notin Open} /\ DOMAIN fds' = DOMAIN fds
      /\ fds' \in Seq(Entry) /\ Len(fds') = Len(fds)
      /\ \A i \in DOMAIN fds : fds'[i].sink = fds[i].sink
      /\ source' = {fds'[i].fd : i \in Live'}
      /\ readfds' \subseteq Descriptors /\ exceptfds' \subseteq Descriptors
      /\ \A p \in pending' : \E i \in Live' : TRUE
  BY <1>1, <1>3, Removal
<1>5. Live' = {}
  BY <1>1, <1>4, Facts
<1>6. pending' = {} /\ source' = {}
  BY <1>4, <1>5
<1>7. Cardinality(Open) = Cardinality(Live)
  <2> DEFINE fdOf == [i \in Live |-> fds[i].fd]
  <2>1. fdOf \in [Live -> Open]
    BY <1>1, Facts
  <2>2. \A i, j \in Live : fdOf[i] = fdOf[j] => i = j
    BY <1>1, Facts
  <2>3. ASSUME NEW g \in Open PROVE \E i \in Live : fdOf[i] = g
    <3>1. CASE g = MailboxFd
      <4>1. PICK i \in Live : fds[i].sink = 0
        BY <1>1 DEF EntriesOf
      <4> QED
        BY <1>1, <3>1, <4>1, Facts
    <3>2. CASE g \in Range(engines)
      <4>1. PICK d \in DOMAIN engines : engines[d] = g
        BY <3>2 DEF Range
      <4>2. PICK i \in Live : fds[i].sink = d
        BY <1>1 DEF EntriesOf
      <4>3. d # 0
        BY <1>1, Facts
      <4> QED
        BY <1>1, <4>1, <4>2, <4>3, Facts
    <3> QED
      BY <3>1, <3>2 DEF Open
  <2> HIDE DEF fdOf
  <2>4. fdOf \in Bijection(Live, Open)
    BY <2>1, <2>2, <2>3, Fun_IsBij
  <2>5. ExistsBijection(Live, Open)
    BY <2>4 DEF ExistsBijection
  <2>6. IsFiniteSet(Live)
    BY <1>1, Shape
  <2> QED
    BY <2>5, <2>6, FS_Bijection
<1>8. load' = 0 /\ Cardinality(Live') = 0
  <2>1. Cardinality(Live) \in Nat /\ load = Cardinality(Live)
    BY <1>1, Shape DEF Counts
  <2>2. load' = load - Cardinality(Open)
    BY <1>1 DEF RmFds
  <2> QED
    BY <1>5, <1>7, <2>1, <2>2, FS_EmptySet
<1>9. TypeOK'
  <2>1. fds' \in Seq([fd : Descriptors \cup {Retired}, sink : 0..plugged'])
    BY <1>1, <1>4 DEF Entry
  <2>2. Len(fds) \in Nat
    BY <1>1, Shape
  <2>3. load' \in 0..Len(fds') /\ pos' \in 1..(Len(fds') + 1)
    BY <1>1, <1>4, <1>8, <2>2 DEF TypeOK
  <2> QED
    BY <1>1, <1>2, <1>4, <1>6, <2>1, <2>3 DEF TypeOK
<1>10. EntriesOf' /\ OneEach' /\ Counts'
  <2>1. EntriesOf'
    BY <1>1, <1>2, <1>5 DEF EntriesOf
  <2>2. OneEach'
    BY <1>1, <1>2, <1>4 DEF OneEach
  <2>3. Counts'
    BY <1>4, <1>8 DEF Counts
  <2> QED
    BY <2>1, <2>2, <2>3
<1>11. Reported' /\ Where'
  BY <1>1, <1>4, <1>6 DEF Reported, Where, InEvent
<1> QED
  BY <1>9, <1>10, <1>11 DEF SelectInv

LEMMA StepQuiet ==
    ASSUME SelectInv, UNCHANGED <<table, place, stopping, objects>>, readable' \subseteq Descriptors
    PROVE  SelectInv'
<1>1. Live' = Live
  BY DEF Live, table
<1>0. /\ UNCHANGED <<fds, source, readfds, exceptfds, load, pending>>
      /\ UNCHANGED <<at, pos, current, plugging, stopping, engines, plugged>>
  BY DEF table, place, objects
<1>2. TypeOK'
  BY <1>0 DEF SelectInv, TypeOK
<1>3. at # "aborted" => EntriesOf' /\ OneEach' /\ Counts'
  BY <1>0, <1>1 DEF SelectInv, EntriesOf, OneEach, Counts
<1>4. \A i, event : InFront(i, event) => InFront(i, event)'
  BY <1>0, <1>1 DEF InFront, Ahead
<1>5. at # "aborted" => Reported' /\ Where'
  BY <1>0, <1>4 DEF SelectInv, Reported, Where, InEvent
<1> QED
  BY <1>0, <1>2, <1>3, <1>5 DEF SelectInv

LEMMA SelectStep == ASSUME SelectInv, [Next]_vars PROVE SelectInv'
<1>1. readable \subseteq Descriptors
  BY DEF SelectInv, TypeOK
<1>2. CASE \E f \in Descriptors : Arrive(f)
  <2>1. UNCHANGED <<table, place, stopping, objects>> /\ readable' \subseteq Descriptors
    BY <1>1, <1>2 DEF Arrive
  <2> QED
    BY <2>1, StepQuiet
<1>3. CASE UNCHANGED vars
  <2>1. UNCHANGED <<table, place, stopping, objects>> /\ readable' \subseteq Descriptors
    BY <1>1, <1>3 DEF vars, table, place, objects
  <2> QED
    BY <2>1, StepQuiet
<1>4. CASE \E f \in Sockets : NewConnection(f)
  BY <1>4, StepNewConnection
<1> QED
  BY <1>2, <1>3, <1>4, StepLoopEnds, StepSelect, StepTestErr, StepTestIn, StepEndPass,
     StepReturns, StepEngineError, StepProcessStop DEF Next, Loop, Handler

LEMMA SelectInvariant == Spec => []SelectInv
<1>1. Init => SelectInv
  BY InitSelect
<1>2. SelectInv /\ [Next]_vars => SelectInv'
  BY SelectStep
<1> QED
  BY <1>1, <1>2, PTL DEF Spec

(* The number of entries is that of the objects, as each has one.          *)
LEMMA TableExact == ASSUME SelectInv PROVE TableMatchesObjects
<1> DEFINE open == {<<engines[e], e>> : e \in DOMAIN engines}
                     \cup (IF stopping THEN {} ELSE {<<MailboxFd, Mailbox>>})
           pair == [i \in Live |-> <<fds[i].fd, fds[i].sink>>]
<1>1. SUFFICES ASSUME at # "aborted"
               PROVE  /\ {<<fds[i].fd, fds[i].sink>> : i \in Live} = open
                      /\ Cardinality(Live) = Cardinality(open)
                      /\ source = {p[1] : p \in open}
                      /\ load = Cardinality(open)
  BY DEF TableMatchesObjects
<1>2. EntriesOf /\ OneEach /\ Counts /\ TypeOK
  BY <1>1 DEF SelectInv
<1>3. ASSUME NEW i \in Live PROVE <<fds[i].fd, fds[i].sink>> \in open
  <2>1. \/ fds[i].sink \in DOMAIN engines /\ fds[i].fd = engines[fds[i].sink]
        \/ ~stopping /\ fds[i].sink = 0 /\ fds[i].fd = MailboxFd
    BY <1>2 DEF EntriesOf
  <2> QED
    BY <2>1
<1>4. ASSUME NEW p \in open PROVE \E i \in Live : p = <<fds[i].fd, fds[i].sink>>
  <2>1. CASE \E e \in DOMAIN engines : p = <<engines[e], e>>
    <3>1. PICK e \in DOMAIN engines : p = <<engines[e], e>>
      BY <2>1
    <3>2. PICK i \in Live : fds[i].sink = e
      BY <1>2 DEF EntriesOf
    <3>3. e # 0
      BY <1>1, Facts
    <3> QED
      BY <1>1, <3>1, <3>2, <3>3, Facts
  <2>2. CASE ~stopping /\ p = <<MailboxFd, 0>>
    <3>1. PICK i \in Live : fds[i].sink = 0
      BY <1>2, <2>2 DEF EntriesOf
    <3> QED
      BY <1>1, <2>2, <3>1, Facts
  <2> QED
    BY <2>1, <2>2
<1> HIDE DEF open
<1>5. {<<fds[i].fd, fds[i].sink>> : i \in Live} = open
  BY <1>3, <1>4
<1>6. pair \in [Live -> open]
  BY <1>3
<1>7. \A i, j \in Live : pair[i] = pair[j] => i = j
  BY <1>2 DEF OneEach, Live
<1>8. \A p \in open : \E i \in Live : pair[i] = p
  BY <1>4
<1> HIDE DEF pair
<1>9. pair \in Bijection(Live, open)
  BY <1>6, <1>7, <1>8, Fun_IsBij
<1>10. ExistsBijection(Live, open)
  BY <1>9 DEF ExistsBijection
<1>11. Cardinality(open) = Cardinality(Live)
  BY <1>2, <1>10, Shape, FS_Bijection
<1>12. source = {p[1] : p \in open}
  <2>1. \A i \in Live : <<fds[i].fd, fds[i].sink>>[1] = fds[i].fd
    OBVIOUS
  <2>2. ASSUME NEW f PROVE f \in source <=> \E p \in open : p[1] = f
    <3>1. f \in source <=> \E i \in Live : fds[i].fd = f
      BY <1>2 DEF Counts
    <3>2. (\E i \in Live : fds[i].fd = f) => \E p \in open : p[1] = f
      BY <1>3, <2>1
    <3>3. (\E p \in open : p[1] = f) => \E i \in Live : fds[i].fd = f
      BY <1>4, <2>1
    <3> QED
      BY <3>1, <3>2, <3>3
  <2> QED
    BY <2>2
<1> QED
  BY <1>2, <1>5, <1>11, <1>12 DEF Counts

(* The variables of select_t and of the objects that it calls keep their   *)
(* types, whatever handlers do during a pass (select.cpp, io_thread.cpp).  *)
THEOREM SelectTypeCorrect == Spec => []TypeOK
<1>1. SelectInv => TypeOK
  BY DEF SelectInv
<1> QED
  BY <1>1, SelectInvariant, PTL

(* The entries that are not retired, the set that select() waits for and   *)
(* the load are exactly those of the objects (select.cpp:56-99, 188-203).  *)
THEOREM TableIsExact == Spec => []TableMatchesObjects
<1>1. SelectInv => TableMatchesObjects
  BY TableExact
<1> QED
  BY <1>1, SelectInvariant, PTL

(* A pass calls every object that select() has reported and that is still  *)
(* there, and no deleted one (select.cpp:127-186).                         *)
THEOREM PassServesTheLiving == Spec => []PassCallsTheLiving
<1>1. SelectInv => PassCallsTheLiving
  BY DEF SelectInv, Reported, Where, PassCallsTheLiving, InEvent
<1> QED
  BY <1>1, SelectInvariant, PTL
-----------------------------------------------------------------------------
(* Epoll and HelloServer take these operators from instances of their own. *)
LEMMA SameOperators ==
    ASSUME NEW S
    PROVE  /\ E!IsFiniteSet(S) = IsFiniteSet(S) /\ H!IsFiniteSet(S) = IsFiniteSet(S)
           /\ E!Cardinality(S) = Cardinality(S) /\ H!Cardinality(S) = Cardinality(S)
<1>1. E!IsFiniteSet(S) = IsFiniteSet(S) /\ H!IsFiniteSet(S) = IsFiniteSet(S)
  BY Zenon DEF IsFiniteSet, E!IsFiniteSet, H!IsFiniteSet
<1>2. E!Cardinality(S) = Cardinality(S)
  BY Zenon DEF Cardinality, E!Cardinality
<1>3. H!Cardinality(S) = Cardinality(S)
  BY Zenon DEF Cardinality, H!Cardinality
<1> QED
  BY <1>1, <1>2, <1>3

(* Epoll: an entry that a reported event points to stays where it is, with *)
(* its source, until the batch is done; at most it is retired.             *)
EpollEntry ==
    [source : Sources \cup {EpollMailbox}, retired : BOOLEAN, polls : SUBSET {"in", "out"}]

PointsToItsSource(event) ==
    /\ DOMAIN event = {"handle", "source", "calls"}
    /\ event.handle \in Handles
    /\ entry[event.handle] # Free
    /\ entry[event.handle].source = event.source

EpollInv == /\ entry \in [Handles -> EpollEntry \cup {Free}]
            /\ batch \in Seq(Range(batch))
            /\ \A i \in DOMAIN batch : PointsToItsSource(batch[i])
            /\ strayed = FALSE

(* The entries keep their sources.                                         *)
EntriesStay == /\ entry' \in [Handles -> EpollEntry \cup {Free}]
               /\ \A h \in Handles : entry[h] # Free => /\ entry'[h] # Free
                                                        /\ entry'[h].source = entry[h].source

LEMMA FreeIsNoEntry == Free \notin EpollEntry
BY PollersAssumption DEF E!EpollAssumption, EpollEntry

LEMMA HandlerKeepsEntries ==
    ASSUME EpollInv, NEW s, NEW queue, NEW inputLeft, E!Handle(s, queue, inputLeft)
    PROVE  EntriesStay
<1>1. entry \in [Handles -> EpollEntry \cup {Free}]
  BY DEF EpollInv
<1>2. \A t \in E!Registered : E!HandleOf(t) \in Handles /\ entry[E!HandleOf(t)] \in EpollEntry
  BY <1>1 DEF E!Registered, E!HandleOf, E!Live
<1>3. ASSUME UNCHANGED entry PROVE EntriesStay
  BY <1>1, <1>3 DEF EntriesStay
<1>4. ASSUME NEW t \in E!Registered, NEW e \in EpollEntry, e.source = entry[E!HandleOf(t)].source,
             entry' = [entry EXCEPT ![E!HandleOf(t)] = e]
      PROVE  EntriesStay
  BY <1>1, <1>2, <1>4, FreeIsNoEntry DEF EntriesStay
<1>5. ASSUME NEW t \in E!Registered, E!RmFd(t) PROVE EntriesStay
  <2>1. entry' = [entry EXCEPT ![E!HandleOf(t)] = [entry[E!HandleOf(t)] EXCEPT !.retired = TRUE]]
    BY <1>5 DEF E!RmFd
  <2>2. /\ [entry[E!HandleOf(t)] EXCEPT !.retired = TRUE] \in EpollEntry
        /\ [entry[E!HandleOf(t)] EXCEPT !.retired = TRUE].source = entry[E!HandleOf(t)].source
    BY <1>2 DEF EpollEntry
  <2> QED
    BY <2>1, <2>2, <1>4
<1>6. ASSUME NEW t \in E!Registered, NEW flag \in Flags, E!SetPoll(t, flag) PROVE EntriesStay
  <2> DEFINE e == [entry[E!HandleOf(t)] EXCEPT !.polls = @ \cup {flag}]
  <2>1. entry' = [entry EXCEPT ![E!HandleOf(t)] = e]
    BY <1>6 DEF E!SetPoll
  <2>2. e \in EpollEntry /\ e.source = entry[E!HandleOf(t)].source
    BY <1>2, PollersAssumption DEF E!EpollAssumption, EpollEntry
  <2> QED
    BY <2>1, <2>2, <1>4
<1>7. ASSUME NEW t \in E!Registered, NEW flag \in Flags, E!ResetPoll(t, flag) PROVE EntriesStay
  <2> DEFINE e == [entry[E!HandleOf(t)] EXCEPT !.polls = @ \ {flag}]
  <2>1. entry' = [entry EXCEPT ![E!HandleOf(t)] = e]
    BY <1>7 DEF E!ResetPoll
  <2>2. e \in EpollEntry /\ e.source = entry[E!HandleOf(t)].source
    BY <1>2, PollersAssumption DEF E!EpollAssumption, EpollEntry
  <2> QED
    BY <2>1, <2>2, <1>4
<1>8. ASSUME NEW t \in Sources, E!AddFd(t) PROVE EntriesStay
  <2>1. PICK h \in Handles : entry[h] = Free /\ entry' = [entry EXCEPT ![h] = E!New(t)]
    BY <1>8 DEF E!AddFd
  <2>2. E!New(t) \in EpollEntry
    BY DEF E!New, EpollEntry
  <2> QED
    BY <1>1, <2>1, <2>2 DEF EntriesStay
<1> QED
  BY <1>3, <1>5, <1>6, <1>7, <1>8 DEF E!Handle

(* Events that are left in the batch still point to their sources.         *)
LEMMA BatchStays ==
    ASSUME EpollInv, EntriesStay, strayed' = FALSE,
           batch' \in Seq(Range(batch')),
           \A i \in DOMAIN batch' : \E j \in DOMAIN batch :
               /\ DOMAIN batch'[i] = DOMAIN batch[j]
               /\ batch'[i].handle = batch[j].handle /\ batch'[i].source = batch[j].source
    PROVE  EpollInv'
<1>1. ASSUME NEW i \in DOMAIN batch' PROVE PointsToItsSource(batch[i])'
  <2>1. PICK j \in DOMAIN batch :
           /\ DOMAIN batch'[i] = DOMAIN batch[j]
           /\ batch'[i].handle = batch[j].handle /\ batch'[i].source = batch[j].source
    BY <1>1
  <2>2. PointsToItsSource(batch[j])
    BY DEF EpollInv
  <2> QED
    BY <2>1, <2>2 DEF PointsToItsSource, EntriesStay
<1> QED
  BY <1>1 DEF EpollInv, EntriesStay

(* A part of a sequence is a sequence.                                     *)
LEMMA OwnRange ==
    ASSUME NEW S, NEW s \in Seq(S)
    PROVE  s \in Seq(Range(s))
<1>1. Len(s) \in Nat /\ DOMAIN s = 1..Len(s)
  BY LenProperties
<1>2. s \in [1..Len(s) -> Range(s)]
  <2>1. s \in [1..Len(s) -> S]
    BY LenProperties
  <2>2. \A i \in 1..Len(s) : s[i] \in Range(s)
    BY <1>1 DEF Range
  <2> QED
    BY <2>1, <2>2
<1> QED
  BY <1>1, <1>2, AsSeq

LEMMA BatchTail ==
    ASSUME EpollInv, EntriesStay, strayed' = FALSE, batch # << >>, batch' = Tail(batch)
    PROVE  EpollInv'
<1>1. batch \in Seq(Range(batch))
  BY DEF EpollInv
<1>2. /\ Tail(batch) \in Seq(Range(batch)) /\ Len(Tail(batch)) = Len(batch) - 1
      /\ \A i \in 1..Len(Tail(batch)) : Tail(batch)[i] = batch[i + 1]
  BY <1>1, HeadTailProperties
<1>3. batch' \in Seq(Range(batch'))
  BY <1>2, OwnRange
<1>4. \A i \in DOMAIN batch' : i + 1 \in DOMAIN batch /\ batch'[i] = batch[i + 1]
  BY <1>1, <1>2, LenProperties
<1> QED
  BY <1>3, <1>4, BatchStays

LEMMA InitEpoll == ASSUME E!Init PROVE EpollInv
<1> DEFINE first == CHOOSE h \in Handles : TRUE
           other == CHOOSE h \in Handles \ {first} : TRUE
           one == CHOOSE s \in Sources : TRUE
<1>1. entry = [h \in Handles |-> CASE h = first -> E!New(EpollMailbox)
                                  [] h = other -> E!New(one)
                                  [] OTHER -> Free]
  BY DEF E!Init
<1>2. one \in Sources
  BY PollersAssumption DEF E!EpollAssumption
<1>3. E!New(EpollMailbox) \in EpollEntry /\ E!New(one) \in EpollEntry
  BY <1>2 DEF E!New, EpollEntry
<1> HIDE DEF first, other, one
<1>4. entry \in [Handles -> EpollEntry \cup {Free}]
  BY <1>1, <1>3
<1>5. batch = << >> /\ strayed = FALSE
  BY DEF E!Init
<1>6. batch \in Seq(Range(batch)) /\ DOMAIN batch = {}
  BY <1>5
<1> QED
  BY <1>4, <1>5, <1>6 DEF EpollInv

LEMMA StepQuietly ==
    ASSUME EpollInv, UNCHANGED <<batch, strayed>>, EntriesStay
    PROVE  EpollInv'
<1>1. batch' \in Seq(Range(batch')) /\ strayed' = FALSE
  BY DEF EpollInv, Range
<1> QED
  BY <1>1, BatchStays

LEMMA StepWait == ASSUME EpollInv, E!Wait PROVE EpollInv'
<1>1. entry' = entry /\ strayed' = FALSE /\ entry \in [Handles -> EpollEntry \cup {Free}]
  BY DEF E!Wait, EpollInv
<1>2. EntriesStay
  BY <1>1 DEF EntriesStay
<1>3. CASE UNCHANGED batch
  BY <1>1, <1>2, <1>3, StepQuietly DEF EpollInv
<1>4. ASSUME NEW order \in E!SetToSeqs(E!Ready),
             batch' = [i \in DOMAIN order |->
                         [handle |-> order[i], source |-> entry[order[i]].source,
                          calls |-> E!Calls(entry[order[i]].source, entry[order[i]].polls)]]
      PROVE  EpollInv'
  <2> DEFINE n == Cardinality(E!Ready)
  <2>1. E!Ready \subseteq Handles /\ \A h \in E!Ready : entry[h] # Free
    BY DEF E!Ready, E!Live
  <2>2. n \in Nat
    <3>1. IsFiniteSet(Handles) /\ E!Ready \in SUBSET Handles
      BY <2>1, PollersAssumption, SameOperators DEF E!EpollAssumption
    <3>2. IsFiniteSet(E!Ready)
      BY <3>1, FS_Subset
    <3> QED
      BY <3>2, FS_CardinalityType
  <2>3. order \in [1..n -> E!Ready]
    BY <1>4, SameOperators DEF E!SetToSeqs
  <2> HIDE DEF n
  <2>4. DOMAIN batch' = 1..n /\ batch' = [i \in 1..n |-> batch'[i]]
    BY <1>4, <2>3
  <2>5. batch' \in [1..n -> Range(batch')]
    BY <2>4 DEF Range
  <2>6. batch' \in Seq(Range(batch'))
    BY <2>2, <2>5, AsSeq
  <2>7. ASSUME NEW i \in DOMAIN batch' PROVE PointsToItsSource(batch[i])'
    <3>1. i \in 1..n /\ order[i] \in Handles /\ entry[order[i]] # Free
      BY <2>1, <2>3, <2>4, <2>7
    <3>2. batch'[i] = [handle |-> order[i], source |-> entry[order[i]].source,
                       calls |-> E!Calls(entry[order[i]].source, entry[order[i]].polls)]
      BY <1>4, <2>3, <3>1
    <3>3. /\ DOMAIN batch'[i] = {"handle", "source", "calls"}
          /\ batch'[i].handle = order[i] /\ batch'[i].source = entry[order[i]].source
      BY <3>2
    <3> QED
      BY <1>1, <3>1, <3>3 DEF PointsToItsSource
  <2> QED
    BY <1>1, <2>6, <2>7 DEF EpollInv
<1> QED
  BY <1>3, <1>4 DEF E!Wait

LEMMA StepCall == ASSUME EpollInv, E!Call PROVE EpollInv'
<1> DEFINE event == Head(batch)
<1>1. batch \in Seq(Range(batch)) /\ batch # << >>
  BY DEF EpollInv, E!Call
<1>2. event = batch[1] /\ 1 \in DOMAIN batch /\ DOMAIN batch = 1..Len(batch) /\ Len(batch) \in Nat
  BY <1>1, LenProperties, EmptySeq, HeadTailProperties
<1>3. PointsToItsSource(batch[1])
  BY <1>2 DEF EpollInv
<1>4. strayed' = FALSE
  BY <1>2, <1>3 DEF E!Call, EpollInv, PointsToItsSource
<1>5. EntriesStay
  BY HandlerKeepsEntries DEF E!Call
<1>6. CASE batch' = Tail(batch)
  BY <1>1, <1>4, <1>5, <1>6, BatchTail
<1>7. CASE batch' = [batch EXCEPT ![1].calls = Tail(@)]
  <2>1. DOMAIN batch' = DOMAIN batch
    BY <1>7
  <2>2. batch' \in [1..Len(batch) -> Range(batch')]
    BY <1>2, <1>7, <2>1 DEF Range
  <2>3. batch' \in Seq(Range(batch'))
    BY <1>2, <2>2, AsSeq
  <2>4. \A i \in DOMAIN batch' : i # 1 => batch'[i] = batch[i]
    BY <1>7, <2>1
  <2>5. batch'[1] = [batch[1] EXCEPT !.calls = Tail(@)]
    BY <1>2, <1>7
  <2>6. /\ DOMAIN batch'[1] = DOMAIN batch[1] /\ batch'[1].handle = batch[1].handle
        /\ batch'[1].source = batch[1].source
    BY <1>3, <2>5 DEF PointsToItsSource
  <2> QED
    BY <1>4, <1>5, <2>1, <2>3, <2>4, <2>6, BatchStays
<1> QED
  BY <1>6, <1>7 DEF E!Call

LEMMA EpollStep == ASSUME EpollInv, [E!Next]_E!vars PROVE EpollInv'
<1>0. entry \in [Handles -> EpollEntry \cup {Free}] /\ strayed = FALSE /\ batch \in Seq(Range(batch))
  BY DEF EpollInv
<1>1. entry' = entry => EntriesStay
  BY <1>0 DEF EntriesStay
<1>2. ASSUME batch # << >> PROVE PointsToItsSource(Head(batch))
  BY <1>0, <1>2, HeadTailProperties, EmptySeq, LenProperties DEF EpollInv
<1>3. CASE E!StartPass \/ E!StartWait \/ E!Interrupted \/ E!Tick \/ UNCHANGED E!vars
  BY <1>1, <1>3, StepQuietly
     DEF E!StartPass, E!StartWait, E!Interrupted, E!Tick, E!loopVars, E!vars
<1>4. CASE \E s \in Sources \cup {EpollMailbox} : E!Arrive(s) \/ E!HangUp(s)
  BY <1>1, <1>4, StepQuietly DEF E!Arrive, E!HangUp, E!loopVars
<1>5. CASE E!RunTimer
  <2>1. EntriesStay
    BY <1>5, HandlerKeepsEntries DEF E!RunTimer
  <2> QED
    BY <1>5, <2>1, StepQuietly DEF E!RunTimer, E!loopVars
<1>6. CASE E!SkipRetired
  BY <1>0, <1>1, <1>6, BatchTail DEF E!SkipRetired
<1>7. CASE E!ProcessCommand
  <2>1. strayed' = FALSE
    BY <1>0, <1>2, <1>7 DEF E!ProcessCommand, PointsToItsSource
  <2> QED
    BY <1>0, <1>1, <1>7, <2>1, StepQuietly DEF E!ProcessCommand
<1>8. CASE E!UseFreed
  BY <1>2, <1>8 DEF E!UseFreed, PointsToItsSource
<1>9. CASE E!DeleteRetired
  <2>1. batch' = << >> /\ strayed' = FALSE
    BY <1>0, <1>9 DEF E!DeleteRetired
  <2>2. entry' \in [Handles -> EpollEntry \cup {Free}]
    BY <1>0, <1>9 DEF E!DeleteRetired
  <2>3. batch' \in Seq(Range(batch')) /\ DOMAIN batch' = {}
    BY <2>1
  <2> QED
    BY <2>1, <2>2, <2>3 DEF EpollInv
<1> QED
  BY <1>3, <1>4, <1>5, <1>6, <1>7, <1>8, <1>9, StepWait, StepCall DEF E!Next, E!Loop

(* An event that epoll_wait() has reported gets to the source that it was  *)
(* reported for or to nobody: Loop() deletes retired entries only behind   *)
(* the batch (Epoll.cpp:81, 151-187).                                      *)
THEOREM EventsDoNotStray == E!Spec => []NoEventStrays
<1>1. E!Init => EpollInv
  BY InitEpoll
<1>2. EpollInv /\ [E!Next]_E!vars => EpollInv'
  BY EpollStep
<1>3. EpollInv => NoEventStrays
  BY DEF EpollInv, NoEventStrays, E!NoEventStrays
<1> QED
  BY <1>1, <1>2, <1>3, PTL DEF E!Spec
-----------------------------------------------------------------------------
(* The hello server: what waits has an edge to come, or an event that the  *)
(* server has not handled yet.                                             *)
HelloTypes ==
    /\ conn \in [Conns -> {"none", "pending", "open", "closed"}]
    /\ unread \in [Conns -> Nat]
    /\ peer \in [Conns -> {"here", "left", "reset"}]
    /\ edges \subseteq H!Watched
    /\ events \in Seq(H!Watched \X {"in", "broken", "out"})
    /\ \A i \in DOMAIN events : events[i][1] = Listener => events[i][2] = "in"

Due(s) == s \in edges \/ \E i \in DOMAIN events : events[i] = <<s, "in">>

Settled(c) == peer[c] = "reset" \/ (peer[c] = "here" /\ unread[c] = 0)

HelloInv == /\ HelloTypes
            /\ \A c \in H!Open : Settled(c) \/ Due(c)
            /\ H!Pending # {} => failed \/ Due(Listener)

LEMMA HelloFacts ==
    /\ IsFiniteSet(Conns) /\ Listener \notin Conns
    /\ IsFiniteSet(H!Watched) /\ H!Watched = Conns \cup {Listener}
<1>1. IsFiniteSet(Conns) /\ Listener \notin Conns
  BY PollersAssumption, SameOperators DEF H!HelloServerAssumption
<1>2. IsFiniteSet(Conns \cup {Listener})
  BY <1>1, FS_AddElement
<1> QED
  BY <1>1, <1>2 DEF H!Watched

LEMMA InitHello == ASSUME H!Init PROVE HelloInv
<1>1. events = << >> /\ DOMAIN events = {} /\ events \in Seq(H!Watched \X {"in", "broken", "out"})
  BY DEF H!Init
<1>2. HelloTypes
  BY <1>1 DEF H!Init, HelloTypes
<1>3. H!Open = {} /\ H!Pending = {}
  BY DEF H!Init, H!Open, H!Pending
<1> QED
  BY <1>2, <1>3 DEF HelloInv

(* epoll_wait() reports every socket that has an edge.                     *)
LEMMA StepHelloWait == ASSUME HelloInv, H!Wait PROVE HelloInv'
<1> DEFINE n == Cardinality(edges)
<1>1. PICK order \in [1..n -> edges] :
         /\ \A i, j \in DOMAIN order : order[i] = order[j] => i = j
         /\ events' = [i \in DOMAIN order |-> <<order[i], H!Kind(order[i])>>]
  BY SameOperators DEF H!Wait
<1>2. /\ events = << >> /\ edges' = {} /\ UNCHANGED <<conn, unread, peer, failed>> /\ HelloTypes
      /\ edges \subseteq H!Watched
  BY DEF H!Wait, HelloInv, HelloTypes
<1>3. IsFiniteSet(edges) /\ n \in Nat
  BY <1>2, HelloFacts, FS_Subset, FS_CardinalityType
<1>4. DOMAIN order = 1..n
  BY <1>1
<1>5. \A s \in edges : \E i \in 1..n : order[i] = s
  <2> HIDE DEF n
  <2>1. order \in Injection(1..n, edges)
    BY <1>1, <1>4, Fun_IsInj
  <2>2. Cardinality(1..n) = n
    BY <1>3, FS_Interval
  <2>3. order \in Surjection(1..n, edges)
    BY <1>3, <2>1, <2>2, FS_Injection DEF n
  <2> QED
    BY <2>3 DEF Surjection
<1> HIDE DEF n
<1>6. \A s \in H!Watched : H!Kind(s) \in {"in", "broken", "out"}
  BY DEF H!Kind
<1>7. H!Kind(Listener) = "in"
  BY DEF H!Kind
<1>8. \A i \in 1..n : events'[i] = <<order[i], H!Kind(order[i])>> /\ order[i] \in H!Watched
  BY <1>1, <1>2, <1>4
<1>9. events' \in [1..n -> H!Watched \X {"in", "broken", "out"}]
  BY <1>1, <1>4, <1>6, <1>8
<1>10. events' \in Seq(H!Watched \X {"in", "broken", "out"}) /\ DOMAIN events' = 1..n
  BY <1>3, <1>9, AsSeq
<1>11. HelloTypes'
  <2>1. \A i \in DOMAIN events' : events'[i][1] = Listener => events'[i][2] = "in"
    BY <1>7, <1>8, <1>10
  <2>2. UNCHANGED H!Watched
    BY DEF H!Watched
  <2> QED
    BY <1>2, <1>10, <2>1, <2>2 DEF HelloTypes
<1>12. \A s \in edges : H!Kind(s) = "in" => Due(s)'
  BY <1>5, <1>8, <1>10 DEF Due
<1>13. DOMAIN events = {}
  BY <1>2
<1>14. ASSUME NEW c \in H!Open' PROVE Settled(c)' \/ Due(c)'
  <2>1. c \in H!Open /\ c \in Conns /\ c # Listener
    BY <1>2, <1>14, HelloFacts DEF H!Open
  <2>2. CASE Settled(c)
    BY <1>2, <2>2 DEF Settled
  <2>3. CASE ~Settled(c)
    <3>1. c \in edges
      BY <1>13, <2>1, <2>3 DEF HelloInv, Due
    <3>2. peer[c] \in {"here", "left", "reset"} /\ unread[c] \in Nat
      BY <1>2, <2>1 DEF HelloTypes
    <3>3. H!Kind(c) = "in"
      BY <2>1, <2>3, <3>2 DEF H!Kind, Settled
    <3> QED
      BY <1>12, <3>1, <3>3
  <2> QED
    BY <2>2, <2>3
<1>15. H!Pending' # {} => failed' \/ Due(Listener)'
  <2>1. H!Pending' = H!Pending /\ failed' = failed
    BY <1>2 DEF H!Pending
  <2>2. Due(Listener) => Due(Listener)'
    BY <1>7, <1>12, <1>13 DEF Due
  <2> QED
    BY <2>1, <2>2 DEF HelloInv
<1> QED
  BY <1>11, <1>14, <1>15 DEF HelloInv

(* The event that is handled leaves the queue, the others stay.            *)
LEMMA Dequeuing ==
    ASSUME HelloTypes, events # << >>, events' = Tail(events)
    PROVE  /\ events' \in Seq(H!Watched \X {"in", "broken", "out"})
           /\ \A i \in DOMAIN events' : events'[i][1] = Listener => events'[i][2] = "in"
           /\ Head(events) \in H!Watched \X {"in", "broken", "out"}
           /\ Head(events)[1] = Listener => Head(events)[2] = "in"
           /\ \A s : s \notin edges /\ Due(s) /\ Head(events) # <<s, "in">> =>
                 \E i \in DOMAIN events' : events'[i] = <<s, "in">>
<1>1. events \in Seq(H!Watched \X {"in", "broken", "out"}) /\ events # << >>
  BY DEF HelloTypes
<1>2. /\ Head(events) = events[1] /\ Tail(events) \in Seq(H!Watched \X {"in", "broken", "out"})
      /\ Len(Tail(events)) = Len(events) - 1
      /\ \A i \in 1..Len(Tail(events)) : Tail(events)[i] = events[i + 1]
      /\ Head(events) \in H!Watched \X {"in", "broken", "out"}
  BY <1>1, HeadTailProperties
<1>3. /\ Len(events) \in Nat /\ DOMAIN events = 1..Len(events) /\ Len(events) # 0
      /\ DOMAIN events' = 1..(Len(events) - 1)
  BY <1>1, <1>2, LenProperties, EmptySeq
<1>4. \A i \in DOMAIN events' : i + 1 \in DOMAIN events /\ events'[i] = events[i + 1]
  BY <1>2, <1>3
<1>5. \A i \in DOMAIN events' : events'[i][1] = Listener => events'[i][2] = "in"
  BY <1>4 DEF HelloTypes
<1>6. 1 \in DOMAIN events
  BY <1>3
<1>7. Head(events)[1] = Listener => Head(events)[2] = "in"
  BY <1>2, <1>6 DEF HelloTypes
<1>8. ASSUME NEW s, s \notin edges, Due(s), Head(events) # <<s, "in">>
      PROVE  \E i \in DOMAIN events' : events'[i] = <<s, "in">>
  <2>1. PICK i \in DOMAIN events : events[i] = <<s, "in">>
    BY <1>8 DEF Due
  <2>2. i # 1
    BY <1>2, <1>8, <2>1
  <2>3. i - 1 \in DOMAIN events' /\ (i - 1) + 1 = i
    BY <1>3, <2>1, <2>2
  <2> QED
    BY <1>4, <2>1, <2>3
<1> QED
  BY <1>2, <1>5, <1>7, <1>8

LEMMA StepHandleEvent == ASSUME HelloInv, H!HandleEvent PROVE HelloInv'
<1> DEFINE s == Head(events)[1]
           kind == Head(events)[2]
<1>1. HelloTypes /\ events # << >> /\ events' = Tail(events) /\ peer' = peer /\ UNCHANGED H!Watched
  BY DEF H!HandleEvent, HelloInv, H!Watched
<1>2. /\ events' \in Seq(H!Watched \X {"in", "broken", "out"})
      /\ \A i \in DOMAIN events' : events'[i][1] = Listener => events'[i][2] = "in"
      /\ Head(events) = <<s, kind>> /\ s \in H!Watched
      /\ s = Listener => kind = "in"
      /\ \A t : t \notin edges /\ Due(t) /\ <<s, kind>> # <<t, "in">> =>
            \E i \in DOMAIN events' : events'[i] = <<t, "in">>
  BY <1>1, Dequeuing
<1>3. \/ s = Listener /\ H!AcceptAll
      \/ s # Listener /\ kind = "in" /\ H!Read(s)
      \/ kind \in {"broken", "out"} /\ H!Ignore
  BY DEF H!HandleEvent
<1> HIDE DEF s, kind
<1>4. CASE s = Listener /\ H!AcceptAll
  <2>1. PICK accepted \in SUBSET H!Pending, gone \in SUBSET H!Pending :
           /\ conn' = [c \in Conns |-> CASE c \in accepted -> "open"
                                         [] c \in gone -> "closed"
                                         [] OTHER -> conn[c]]
           /\ edges' = edges \cup accepted
           /\ failed' = (accepted \cup gone # H!Pending)
    BY <1>4 DEF H!AcceptAll
  <2>2. unread' = unread /\ accepted \subseteq Conns
    BY <1>4, <2>1 DEF H!AcceptAll, H!Pending
  <2>3. HelloTypes'
    BY <1>1, <1>2, <2>1, <2>2, HelloFacts DEF HelloTypes
  <2>4. ASSUME NEW c \in H!Open' PROVE Settled(c)' \/ Due(c)'
    <3>1. CASE c \in edges \cup accepted
      BY <2>1, <3>1 DEF Due
    <3>2. CASE c \notin edges \cup accepted
      <4>1. c \in H!Open /\ c # Listener
        BY <2>1, <2>4, <3>2, HelloFacts DEF H!Open
      <4>2. CASE Settled(c)
        BY <1>1, <2>2, <4>2 DEF Settled
      <4>3. CASE Due(c)
        BY <1>2, <1>4, <3>2, <4>1, <4>3 DEF Due
      <4> QED
        BY <4>1, <4>2, <4>3 DEF HelloInv
    <3> QED
      BY <3>1, <3>2
  <2>5. H!Pending' # {} => failed'
    BY <2>1 DEF H!Pending
  <2> QED
    BY <2>3, <2>4, <2>5 DEF HelloInv
<1>5. CASE s # Listener /\ kind = "in" /\ H!Read(s)
  <2>1. s \in Conns
    BY <1>2, <1>5, HelloFacts
  <2>2. unread' = [unread EXCEPT ![s] = 0] /\ failed' = failed
    BY <1>5 DEF H!Read, H!ReadAll
  <2>3. \/ conn' = [conn EXCEPT ![s] = "closed"] /\ edges' = edges \ {s}
        \/ peer[s] = "here" /\ conn' = conn /\ edges' = edges
    <3>1. unread'[s] = 0
      BY <1>1, <2>1, <2>2 DEF HelloTypes
    <3> QED
      BY <1>5, <3>1 DEF H!Read
  <2>4. HelloTypes'
    BY <1>1, <1>2, <2>1, <2>2, <2>3 DEF HelloTypes
  <2>5. ASSUME NEW c \in H!Open' PROVE Settled(c)' \/ Due(c)'
    <3>1. c \in Conns /\ conn'[c] = "open"
      BY <2>5 DEF H!Open
    <3>2. CASE c = s
      <4>1. peer[s] = "here"
        BY <1>1, <2>1, <2>3, <3>1, <3>2 DEF HelloTypes
      <4> QED
        BY <1>1, <2>1, <2>2, <3>2, <4>1 DEF HelloTypes, Settled
    <3>3. CASE c # s
      <4>1. c \in H!Open /\ unread'[c] = unread[c]
        BY <1>1, <2>1, <2>2, <2>3, <3>1, <3>3 DEF HelloTypes, H!Open
      <4>2. CASE Settled(c)
        BY <1>1, <4>1, <4>2 DEF Settled
      <4>3. CASE c \in edges
        BY <2>3, <3>3, <4>3 DEF Due
      <4>4. CASE c \notin edges /\ Due(c)
        BY <1>2, <3>3, <4>4 DEF Due
      <4> QED
        BY <4>1, <4>2, <4>3, <4>4 DEF HelloInv
    <3> QED
      BY <3>2, <3>3
  <2>6. H!Pending' # {} => failed' \/ Due(Listener)'
    <3>1. H!Pending' \subseteq H!Pending
      BY <1>1, <2>1, <2>3 DEF H!Pending, HelloTypes
    <3>2. Due(Listener) => Due(Listener)'
      <4>1. CASE Listener \in edges
        BY <1>5, <2>3, <4>1 DEF Due
      <4>2. CASE Listener \notin edges /\ Due(Listener)
        BY <1>2, <1>5, <4>2 DEF Due
      <4> QED
        BY <4>1, <4>2
    <3> QED
      BY <2>2, <3>1, <3>2 DEF HelloInv
  <2> QED
    BY <2>4, <2>5, <2>6 DEF HelloInv
<1>6. CASE kind \in {"broken", "out"} /\ H!Ignore
  <2>1. UNCHANGED <<conn, unread, edges, failed>>
    BY <1>6 DEF H!Ignore
  <2>2. HelloTypes'
    BY <1>1, <1>2, <2>1 DEF HelloTypes
  <2>3. \A t : Due(t) => Due(t)'
    BY <1>2, <1>6, <2>1 DEF Due
  <2>4. H!Open' = H!Open /\ H!Pending' = H!Pending
    BY <2>1 DEF H!Open, H!Pending
  <2>5. \A c \in H!Open : Settled(c) => Settled(c)'
    BY <1>1, <2>1 DEF Settled
  <2> QED
    BY <2>1, <2>2, <2>3, <2>4, <2>5 DEF HelloInv
<1> QED
  BY <1>3, <1>4, <1>5, <1>6

LEMMA StepPeer ==
    ASSUME HelloInv, NEW c \in Conns, H!Connect(c) \/ H!PeerSends(c) \/ H!PeerLeaves(c)
    PROVE  HelloInv'
<1>1. HelloTypes /\ UNCHANGED <<events, failed, H!Watched>>
  BY DEF HelloInv, H!Connect, H!PeerSends, H!PeerLeaves, H!Watched
<1>2. edges \subseteq edges' /\ edges' \subseteq edges \cup {c, Listener}
  BY DEF H!Connect, H!PeerSends, H!PeerLeaves, H!Edge
<1>3. \A s : Due(s) => Due(s)'
  BY <1>1, <1>2 DEF Due
<1>4. HelloTypes'
  <2>1. edges' \subseteq H!Watched
    BY <1>1, <1>2, HelloFacts DEF HelloTypes
  <2>2. conn' \in [Conns -> {"none", "pending", "open", "closed"}]
    BY <1>1 DEF HelloTypes, H!Connect, H!PeerSends, H!PeerLeaves
  <2>3. unread' \in [Conns -> Nat]
    BY <1>1 DEF HelloTypes, H!Connect, H!PeerSends, H!PeerLeaves
  <2>4. peer' \in [Conns -> {"here", "left", "reset"}]
    BY <1>1 DEF HelloTypes, H!Connect, H!PeerSends, H!PeerLeaves
  <2> QED
    BY <1>1, <2>1, <2>2, <2>3, <2>4 DEF HelloTypes
<1>5. ASSUME NEW d \in H!Open' PROVE Settled(d)' \/ Due(d)'
  <2>1. d \in Conns /\ d \in H!Open
    BY <1>1, <1>5 DEF H!Open, HelloTypes, H!Connect, H!PeerSends, H!PeerLeaves
  <2>2. CASE d = c
    <3>1. conn[c] = "open"
      BY <2>1, <2>2 DEF H!Open
    <3>2. edges' = edges \cup {c}
      BY <3>1 DEF H!Connect, H!PeerSends, H!PeerLeaves, H!Edge
    <3> QED
      BY <2>2, <3>2 DEF Due
  <2>3. CASE d # c
    <3>1. unread'[d] = unread[d] /\ peer'[d] = peer[d]
      BY <1>1, <2>1, <2>3 DEF HelloTypes, H!Connect, H!PeerSends, H!PeerLeaves
    <3> QED
      BY <1>3, <2>1, <3>1 DEF HelloInv, Settled
  <2> QED
    BY <2>2, <2>3
<1>6. H!Pending' # {} => failed' \/ Due(Listener)'
  <2>1. CASE H!Connect(c)
    BY <2>1 DEF H!Connect, Due
  <2>2. CASE H!PeerSends(c) \/ H!PeerLeaves(c)
    <3>1. H!Pending' = H!Pending
      BY <2>2 DEF H!PeerSends, H!PeerLeaves, H!Pending
    <3> QED
      BY <1>1, <1>3, <3>1 DEF HelloInv
  <2> QED
    BY <2>1, <2>2
<1> QED
  BY <1>4, <1>5, <1>6 DEF HelloInv

LEMMA HelloStep == ASSUME HelloInv, [H!Next]_H!vars PROVE HelloInv'
<1>1. CASE UNCHANGED H!vars
  <2>1. UNCHANGED <<conn, unread, peer, edges, events, failed>>
    BY <1>1 DEF H!vars
  <2> QED
    BY <2>1 DEF HelloInv, HelloTypes, Due, Settled, H!Open, H!Pending, H!Watched
<1>2. CASE \E c \in Conns : H!Connect(c) \/ H!PeerSends(c) \/ H!PeerLeaves(c)
  BY <1>2, StepPeer
<1> QED
  BY <1>1, <1>2, StepHelloWait, StepHandleEvent DEF H!Next

(* Whatever the hello server has not read or accepted, an event will fetch *)
(* it, although epoll reports each edge once (hello.cpp:240-353).          *)
THEOREM EveryEdgeIsUsed == H!Spec => []NothingMissed
<1>1. H!Init => HelloInv
  BY InitHello
<1>2. HelloInv /\ [H!Next]_H!vars => HelloInv'
  BY HelloStep
<1>3. HelloInv => NothingMissed
  <2>1. ASSUME HelloInv, edges = {}, events = << >>
        PROVE  /\ \A c \in H!Open : Settled(c)
               /\ H!Pending # {} => failed
    <3>1. DOMAIN events = {}
      BY <2>1
    <3> QED
      BY <2>1, <3>1 DEF HelloInv, Due
  <2> QED
    BY <2>1 DEF Settled, NothingMissed, H!NothingMissed
<1> QED
  BY <1>1, <1>2, <1>3, PTL DEF H!Spec
=============================================================================
