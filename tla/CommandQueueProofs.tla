------------------------- MODULE CommandQueueProofs -------------------------
(***************************************************************************)
(* Proofs about the abstract command queue.  The argument is about the     *)
(* history, served followed by queue: a send appends to it, taking a       *)
(* command only moves the border between its two parts.                    *)
(***************************************************************************)
EXTENDS CommandQueue, SequenceTheorems, TLAPS

LEMMA TypeCorrect == Spec => []TypeOK
<1>1. Init => TypeOK
  BY EmptySeq DEF Init, TypeOK, Command
<1>2. TypeOK /\ [Next]_vars => TypeOK'
  <2> SUFFICES ASSUME TypeOK, [Next]_vars PROVE TypeOK'
    OBVIOUS
  <2> USE DEF TypeOK
  <2>1. ASSUME NEW s \in Senders, Send(s) PROVE TypeOK'
    <3>1. <<s, sent[s] + 1>> \in Command
      BY DEF Command
    <3> QED
      BY <2>1, <3>1, AppendProperties DEF Send
  <2>2. CASE Serve
    BY <2>2, HeadTailProperties, AppendProperties DEF Serve
  <2>3. CASE UNCHANGED vars
    BY <2>3 DEF vars
  <2> QED
    BY <2>1, <2>2, <2>3 DEF Next
<1> QED
  BY <1>1, <1>2, PTL DEF Spec

(* Appending to the right part of a concatenation appends to the whole.    *)
LEMMA ConcatAppend ==
    ASSUME NEW S, NEW s \in Seq(S), NEW t \in Seq(S), NEW e \in S
    PROVE  s \o Append(t, e) = Append(s \o t, e)
<1>1. /\ s \o t \in Seq(S)
      /\ <<e>> \in Seq(S)
  BY ConcatProperties
<1>2. Append(t, e) = t \o <<e>> /\ Append(s \o t, e) = (s \o t) \o <<e>>
  BY <1>1, AppendIsConcat
<1> QED
  BY <1>1, <1>2, ConcatAssociative

(* Moving the head of the right part to the end of the left part leaves    *)
(* the concatenation as it was.                                            *)
LEMMA ConcatMove ==
    ASSUME NEW S, NEW s \in Seq(S), NEW t \in Seq(S), t # <<>>
    PROVE  Append(s, Head(t)) \o Tail(t) = s \o t
<1>1. Head(t) \in S /\ Tail(t) \in Seq(S) /\ Len(Tail(t)) = Len(t) - 1
      /\ \A i \in 1..Len(Tail(t)) : Tail(t)[i] = t[i + 1]
  BY HeadTailProperties
<1>2. Head(t) = t[1] /\ Len(t) \in Nat /\ Len(t) > 0 /\ Len(s) \in Nat
  BY EmptySeq
<1>3. /\ Append(s, Head(t)) \in Seq(S)
      /\ Len(Append(s, Head(t))) = Len(s) + 1
      /\ \A i \in 1..Len(s) : Append(s, Head(t))[i] = s[i]
      /\ Append(s, Head(t))[Len(s) + 1] = t[1]
  BY <1>1, <1>2, AppendProperties
<1> DEFINE l == Append(s, Head(t)) \o Tail(t)
           r == s \o t
<1>4. /\ l \in Seq(S)
      /\ Len(l) = Len(s) + Len(t)
      /\ \A i \in 1..Len(s) + Len(t) :
            l[i] = IF i <= Len(s) + 1 THEN Append(s, Head(t))[i]
                                      ELSE Tail(t)[i - (Len(s) + 1)]
  BY <1>1, <1>2, <1>3, ConcatProperties
<1>5. /\ r \in Seq(S)
      /\ Len(r) = Len(s) + Len(t)
      /\ \A i \in 1..Len(s) + Len(t) :
            r[i] = IF i <= Len(s) THEN s[i] ELSE t[i - Len(s)]
  BY ConcatProperties
<1>6. ASSUME NEW i \in 1..Len(l) PROVE l[i] = r[i]
  <2> HIDE DEF l, r
  <2>1. CASE i <= Len(s)
    BY <2>1, <1>2, <1>3, <1>4, <1>5, <1>6
  <2>2. CASE i = Len(s) + 1
    <3>1. i \in 1..Len(s) + Len(t) /\ ~(i <= Len(s)) /\ i <= Len(s) + 1 /\ i - Len(s) = 1
      BY <2>2, <1>2, <1>4, <1>6
    <3>2. l[i] = Append(s, Head(t))[Len(s) + 1]
      BY <3>1, <2>2, <1>4
    <3>3. r[i] = t[1]
      BY <3>1, <1>5
    <3> QED
      BY <3>2, <3>3, <1>3
  <2>3. CASE i > Len(s) + 1
    <3>1. i - (Len(s) + 1) \in 1..Len(Tail(t))
      BY <2>3, <1>1, <1>2, <1>4, <1>6
    <3>2. Tail(t)[i - (Len(s) + 1)] = t[i - Len(s)]
      BY <3>1, <1>1, <1>2
    <3> QED
      BY <3>2, <2>3, <1>2, <1>4, <1>5, <1>6
  <2> QED
    BY <2>1, <2>2, <2>3, <1>2, <1>4, <1>6
<1> HIDE DEF l, r
<1>7. l = r
  BY <1>4, <1>5, <1>6, SeqEqual
<1> QED
  BY <1>7 DEF l, r
-----------------------------------------------------------------------------
LEMMA SendAppends ==
    ASSUME TypeOK, NEW s \in Senders, Send(s)
    PROVE  /\ history' = Append(history, <<s, sent[s] + 1>>)
           /\ history \in Seq(Command)
           /\ <<s, sent[s] + 1>> \in Command
<1>1. <<s, sent[s] + 1>> \in Command
  BY DEF TypeOK, Command
<1> QED
  BY <1>1, ConcatAppend, ConcatProperties DEF TypeOK, Send, history

LEMMA ServeKeepsHistory ==
    ASSUME TypeOK, Serve
    PROVE  history' = history
BY ConcatMove DEF TypeOK, Serve, history

(* Every step either leaves history and sent alone or appends to the       *)
(* history the next command of one sender.                                 *)
LEMMA StepOnHistory ==
    ASSUME TypeOK, [Next]_vars
    PROVE  \/ UNCHANGED <<sent, history>>
           \/ \E s \in Senders :
                /\ sent' = [sent EXCEPT ![s] = @ + 1]
                /\ history' = Append(history, <<s, sent[s] + 1>>)
<1>1. ASSUME NEW s \in Senders, Send(s)
      PROVE  /\ sent' = [sent EXCEPT ![s] = @ + 1]
             /\ history' = Append(history, <<s, sent[s] + 1>>)
  BY <1>1, SendAppends DEF Send
<1>2. CASE Serve
  BY <1>2, ServeKeepsHistory DEF Serve
<1>3. CASE UNCHANGED vars
  BY <1>3 DEF vars, history
<1> QED
  BY <1>1, <1>2, <1>3 DEF Next

LEMMA HistoryType == TypeOK => history \in Seq(Command)
BY ConcatProperties DEF TypeOK, history

(* Whatever threads send and whenever the reader takes: nothing is lost,   *)
(* repeated, invented or reordered among the commands of one sender.       *)
THEOREM QueueIsFaithful == Spec => []ExactlyOnceInOrder
<1>1. Init => ExactlyOnceInOrder
  <2> SUFFICES ASSUME Init PROVE ExactlyOnceInOrder
    OBVIOUS
  <2>1. history = <<>> /\ Len(history) = 0
    BY DEF Init, history
  <2> QED
    BY <2>1 DEF Init, ExactlyOnceInOrder, InSenderOrder, NothingInvented, NothingLost
<1>2. TypeOK /\ ExactlyOnceInOrder /\ [Next]_vars => ExactlyOnceInOrder'
  <2> SUFFICES ASSUME TypeOK, ExactlyOnceInOrder, [Next]_vars
               PROVE  ExactlyOnceInOrder'
    OBVIOUS
  <2>1. CASE UNCHANGED <<sent, history>>
    BY <2>1 DEF ExactlyOnceInOrder, InSenderOrder, NothingInvented, NothingLost
  <2>2. ASSUME NEW s \in Senders,
               sent' = [sent EXCEPT ![s] = @ + 1],
               history' = Append(history, <<s, sent[s] + 1>>)
        PROVE  ExactlyOnceInOrder'
    <3> DEFINE h == history
               g == history'
               c == <<s, sent[s] + 1>>
    <3>1. h \in Seq(Command) /\ Len(h) \in Nat /\ c \in Command
      BY HistoryType DEF TypeOK, Command
    <3>2. /\ Len(g) = Len(h) + 1
          /\ \A i \in 1..Len(h) : g[i] = h[i]
          /\ g[Len(h) + 1] = c
      BY <2>2, <3>1, AppendProperties
    <3>3. \A i \in 1..Len(h) : h[i][1] \in Senders /\ h[i][2] \in Nat
      BY <3>1, ElementOfSeq DEF Command
    <3>4. c[1] = s /\ c[2] = sent[s] + 1 /\ sent[s] \in Nat
      BY DEF TypeOK
    <3>5. /\ sent'[s] = sent[s] + 1
          /\ \A t \in Senders : t # s => sent'[t] = sent[t]
          /\ \A t \in Senders : sent[t] \in Nat
      BY <2>2 DEF TypeOK
    <3> HIDE DEF h, g, c
    <3>6. NothingInvented'
      <4> SUFFICES ASSUME NEW i \in 1..Len(g)
                   PROVE  g[i][2] \in 1..sent'[g[i][1]]
        BY DEF NothingInvented, g
      <4>1. CASE i \in 1..Len(h)
        <5>1. h[i][2] \in 1..sent[h[i][1]]
          BY <4>1 DEF ExactlyOnceInOrder, NothingInvented, h
        <5>2. sent[h[i][1]] \in Nat /\ sent'[h[i][1]] \in Nat /\ sent[h[i][1]] <= sent'[h[i][1]]
          BY <4>1, <3>3, <3>5
        <5> QED
          BY <5>1, <5>2, <4>1, <3>2, <3>3
      <4>2. CASE i = Len(h) + 1
        BY <4>2, <3>2, <3>4, <3>5
      <4> QED
        BY <4>1, <4>2, <3>1, <3>2
    <3>7. InSenderOrder'
      <4> SUFFICES ASSUME NEW i \in 1..Len(g), NEW j \in 1..Len(g),
                          i < j, g[i][1] = g[j][1]
                   PROVE  g[i][2] < g[j][2]
        BY DEF InSenderOrder, g
      <4>1. CASE j \in 1..Len(h)
        <5>1. i \in 1..Len(h)
          BY <4>1, <3>1, <3>2
        <5> QED
          BY <5>1, <4>1, <3>2 DEF ExactlyOnceInOrder, InSenderOrder, h
      <4>2. CASE j = Len(h) + 1
        <5>1. i \in 1..Len(h)
          BY <4>2, <3>1, <3>2
        <5>2. h[i][2] \in 1..sent[h[i][1]]
          BY <5>1 DEF ExactlyOnceInOrder, NothingInvented, h
        <5>3. g[i] = h[i] /\ g[j] = c
          BY <5>1, <4>2, <3>2
        <5>4. h[i][1] = s
          BY <5>3, <3>4
        <5> QED
          BY <5>2, <5>3, <5>4, <3>4
      <4> QED
        BY <4>1, <4>2, <3>1, <3>2
    <3>8. NothingLost'
      <4> SUFFICES ASSUME NEW t \in Senders, NEW n \in 1..sent'[t]
                   PROVE  \E i \in 1..Len(g) : g[i] = <<t, n>>
        BY DEF NothingLost, g
      <4>1. CASE t = s /\ n = sent[s] + 1
        <5>1. Len(h) + 1 \in 1..Len(g) /\ g[Len(h) + 1] = <<t, n>>
          BY <4>1, <3>1, <3>2 DEF c
        <5> QED
          BY <5>1
      <4>2. CASE ~(t = s /\ n = sent[s] + 1)
        <5>1. n \in 1..sent[t]
          BY <4>2, <3>4, <3>5
        <5>2. PICK i \in 1..Len(h) : h[i] = <<t, n>>
          BY <5>1 DEF ExactlyOnceInOrder, NothingLost, h
        <5>3. i \in 1..Len(g) /\ g[i] = <<t, n>>
          BY <5>2, <3>1, <3>2
        <5> QED
          BY <5>3
      <4> QED
        BY <4>1, <4>2
    <3> QED
      BY <3>6, <3>7, <3>8 DEF ExactlyOnceInOrder
  <2> QED
    BY <2>1, <2>2, StepOnHistory
<1> QED
  BY <1>1, <1>2, TypeCorrect, PTL DEF Spec
=============================================================================
