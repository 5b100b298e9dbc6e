----------------------------- MODULE BufferProofs -----------------------------
(***************************************************************************)
(* Proofs about the buffers, for any sizes and any number of values.       *)
(*                                                                         *)
(* ByteBuffer: the operations are followed one by one: compacting and      *)
(* reallocating keep what is held, writing appends to it, reading and      *)
(* draining take it off the front.  Nothing is said of a buffer of which a *)
(* read has thrown.                                                        *)
(*                                                                         *)
(* ResultSet: the columns come in order.                                   *)
(*                                                                         *)
(* Packets: what was packed is unpacked, field by field; a receiver holds  *)
(* the packets that it has not passed on, in its buffer and in the stream; *)
(* what it forwards has been mounted.  The numbers of bytes and of items   *)
(* are unbounded, so the facts about joined sequences are shown by         *)
(* induction, with sets of numbers in place of predicates (UpTo).          *)
(*                                                                         *)
(* JsonEdit: the operations of Json::Value, one by one, make values whose  *)
(* indices have a greatest; the size follows it.                           *)
(***************************************************************************)
EXTENDS MCBuffers, SequenceTheorems, WellFoundedInduction, TLAPS

(* The buffer u is in order and holds w.                                   *)
Holds(u, w) == /\ u.size \in Nat /\ u.rd \in Nat /\ u.wr \in Nat
               /\ u.mem \in [0..(u.size - 1) -> Byte]
               /\ u.rd <= u.wr /\ u.wr <= u.size
               /\ w \in Seq(Byte)
               /\ Len(w) = u.wr - u.rd
               /\ \A i \in 1..Len(w) : w[i] = u.mem[u.rd + i - 1]

IInv == /\ broken \in BOOLEAN
        /\ b = [mem |-> b.mem, size |-> b.size, rd |-> b.rd, wr |-> b.wr]
        /\ ~broken => ~crashed /\ Holds(b, written)

USE ByteBufferAssumption

LEMMA AlignHolds ==
    ASSUME NEW u, NEW w, Holds(u, w)
    PROVE  /\ Holds(Align(u), w)
           /\ Align(u).rd = 0 /\ Align(u).wr = u.wr - u.rd /\ Align(u).size = u.size
<1> DEFINE a == Align(u)
<1>0. /\ u.size \in Nat /\ u.rd \in Nat /\ u.wr \in Nat
      /\ u.mem \in [0..(u.size - 1) -> Byte]
      /\ u.rd <= u.wr /\ u.wr <= u.size /\ w \in Seq(Byte)
  BY DEF Holds
<1>1. a = [mem |-> [i \in DOMAIN u.mem |-> IF i < u.wr - u.rd THEN u.mem[i + u.rd] ELSE u.mem[i]],
           size |-> u.size, rd |-> 0, wr |-> u.wr - u.rd]
  BY <1>0 DEF Align
<1>2. /\ a.mem = [i \in 0..(u.size - 1) |-> IF i < u.wr - u.rd THEN u.mem[i + u.rd] ELSE u.mem[i]]
      /\ a.size = u.size /\ a.rd = 0 /\ a.wr = u.wr - u.rd
  BY <1>0, <1>1
<1> HIDE DEF a
<1>3. ASSUME NEW i \in 0..(u.size - 1)
      PROVE  (IF i < u.wr - u.rd THEN u.mem[i + u.rd] ELSE u.mem[i]) \in Byte
  BY <1>0
<1>4. a.mem \in [0..(a.size - 1) -> Byte]
  BY <1>2, <1>3
<1>5. Len(w) = a.wr - a.rd
  BY <1>0, <1>2 DEF Holds
<1>6. ASSUME NEW i \in 1..Len(w) PROVE w[i] = a.mem[a.rd + i - 1]
  <2>1. w[i] = u.mem[u.rd + i - 1] /\ Len(w) = u.wr - u.rd
    BY DEF Holds
  <2>2. i - 1 \in 0..(u.size - 1) /\ i - 1 < u.wr - u.rd
    BY <1>0, <2>1
  <2>3. a.mem[i - 1] = u.mem[(i - 1) + u.rd]
    BY <1>2, <2>2
  <2>4. (i - 1) + u.rd = u.rd + i - 1 /\ a.rd + i - 1 = i - 1
    BY <1>0, <1>2
  <2> QED
    BY <2>1, <2>3, <2>4
<1>7. Holds(a, w)
  BY <1>0, <1>2, <1>4, <1>5, <1>6 DEF Holds
<1> QED
  BY <1>2, <1>7 DEF a

(* Expand() keeps what is held and makes room.                             *)
LEMMA ExpandHolds ==
    ASSUME NEW u, NEW w, Holds(u, w), NEW n \in Nat
    PROVE  Holds(Expand(u, n), w) /\ Expand(u, n).wr + n <= Expand(u, n).size
<1>0. /\ u.size \in Nat /\ u.rd \in Nat /\ u.wr \in Nat
      /\ u.rd <= u.wr /\ u.wr <= u.size /\ w \in Seq(Byte)
  BY DEF Holds
<1>1. CASE Fits(u, n)
  BY <1>0, <1>1 DEF Expand, Fits
<1>2. CASE ~Fits(u, n) /\ u.rd >= n
  <2>1. Expand(u, n) = Align(u)
    BY <1>2 DEF Expand
  <2>2. Holds(Align(u), w) /\ Align(u).wr = u.wr - u.rd /\ Align(u).size = u.size
    BY AlignHolds
  <2>3. Align(u).wr + n <= Align(u).size
    BY <1>0, <1>2, <2>2
  <2> QED
    BY <2>1, <2>2, <2>3
<1>3. CASE ~Fits(u, n) /\ ~(u.rd >= n)
  <2> DEFINE a == IF u.rd # 0 THEN Align(u) ELSE u
             e == Expand(u, n)
             grown == NewSize(u, n)
  <2>1. Holds(a, w) /\ a.size = u.size /\ a.wr <= u.wr
    <3>1. CASE u.rd # 0
      <4>1. Holds(Align(u), w) /\ Align(u).size = u.size /\ Align(u).wr = u.wr - u.rd
        BY AlignHolds
      <4> QED
        BY <1>0, <3>1, <4>1
    <3>2. CASE u.rd = 0
      BY <1>0, <3>2
    <3> QED
      BY <3>1, <3>2
  <2>2. grown \in Nat /\ grown >= u.wr + n /\ grown >= u.size
    <3> DEFINE double == IF 2 * u.size < MinSize THEN MinSize ELSE 2 * u.size
    <3>1. double \in Nat /\ double >= u.size
      BY <1>0
    <3>2. grown = IF u.wr + n > double THEN u.wr + n + Slack ELSE double
      BY DEF NewSize
    <3> QED
      BY <1>0, <3>1, <3>2
  <2>3. e = [mem |-> [i \in 0..(grown - 1) |-> IF i < u.size THEN a.mem[i] ELSE 0],
             size |-> grown, rd |-> a.rd, wr |-> a.wr]
    BY <1>3 DEF Expand
  <2> HIDE DEF a, e, grown
  <2>5. /\ e.mem = [i \in 0..(grown - 1) |-> IF i < u.size THEN a.mem[i] ELSE 0]
        /\ e.size = grown /\ e.rd = a.rd /\ e.wr = a.wr
    BY <2>3
  <2>6. /\ a.mem \in [0..(u.size - 1) -> Byte]
        /\ a.rd \in Nat /\ a.wr \in Nat /\ a.rd <= a.wr /\ a.wr <= u.size
    BY <2>1 DEF Holds
  <2>7. e.mem \in [0..(e.size - 1) -> Byte]
    <3>1. ASSUME NEW i \in 0..(grown - 1) PROVE (IF i < u.size THEN a.mem[i] ELSE 0) \in Byte
      <4>1. 0 \in Byte
        BY DEF Byte
      <4>2. i < u.size => i \in 0..(u.size - 1)
        BY <1>0, <2>2
      <4> QED
        BY <2>6, <4>1, <4>2
    <3> QED
      BY <2>5, <3>1
  <2>8. Len(w) = e.wr - e.rd
    BY <2>1, <2>5 DEF Holds
  <2>9. ASSUME NEW i \in 1..Len(w) PROVE w[i] = e.mem[e.rd + i - 1]
    <3>1. w[i] = a.mem[a.rd + i - 1] /\ Len(w) = a.wr - a.rd
      BY <2>1 DEF Holds
    <3>2. i \in Nat /\ 1 <= i /\ a.rd + i <= a.wr
      BY <2>6, <3>1
    <3>3. a.rd + i - 1 \in Nat /\ a.rd + i - 1 < u.size /\ a.rd + i - 1 < grown
      <4>1. a.rd \in Nat /\ a.wr \in Nat /\ a.wr <= u.size
        BY <2>6
      <4>2. u.size \in Nat /\ grown \in Nat /\ u.size <= grown
        BY <1>0, <2>2
      <4>3. a.rd + i - 1 \in Nat /\ a.rd + i - 1 < u.size
        BY <3>2, <4>1, <4>2
      <4> QED
        BY <4>2, <4>3
    <3>4. a.rd + i - 1 \in 0..(grown - 1)
      BY <2>2, <3>3
    <3> QED
      BY <2>5, <3>1, <3>3, <3>4
  <2>10. Holds(e, w)
    BY <1>0, <2>2, <2>5, <2>6, <2>7, <2>8, <2>9 DEF Holds
  <2>11. e.wr + n <= e.size
    BY <1>0, <2>1, <2>2, <2>5, <2>6
  <2> QED
    BY <2>10, <2>11 DEF e
<1> QED
  BY <1>1, <1>2, <1>3

(* Grow() appends what is copied into its place.                           *)
LEMMA GrowHolds ==
    ASSUME NEW u, NEW w, Holds(u, w), NEW xs \in Seq(Byte)
    PROVE  Holds(Grow(u, xs), w \o xs)
<1> DEFINE e == Expand(u, Len(xs))
           g == Grow(u, xs)
<1>1. Len(xs) \in Nat /\ \A i \in 1..Len(xs) : xs[i] \in Byte
  BY LenProperties, ElementOfSeq
<1>2. Holds(e, w) /\ e.wr + Len(xs) <= e.size
  BY <1>1, ExpandHolds
<1>3. g = [mem |-> [i \in DOMAIN e.mem |->
                       IF i \in e.wr..(e.wr + Len(xs) - 1) THEN xs[i - e.wr + 1] ELSE e.mem[i]],
           size |-> e.size, rd |-> e.rd, wr |-> e.wr + Len(xs)]
  BY DEF Grow
<1> HIDE DEF e, g
<1>4. /\ e.size \in Nat /\ e.rd \in Nat /\ e.wr \in Nat
      /\ e.mem \in [0..(e.size - 1) -> Byte]
      /\ e.rd <= e.wr /\ e.wr <= e.size /\ w \in Seq(Byte)
      /\ Len(w) = e.wr - e.rd
      /\ \A i \in 1..Len(w) : w[i] = e.mem[e.rd + i - 1]
  BY <1>2 DEF Holds
<1>5. /\ g.mem = [i \in 0..(e.size - 1) |->
                     IF i \in e.wr..(e.wr + Len(xs) - 1) THEN xs[i - e.wr + 1] ELSE e.mem[i]]
      /\ g.size = e.size /\ g.rd = e.rd /\ g.wr = e.wr + Len(xs)
  BY <1>3, <1>4
<1>6. g.mem \in [0..(g.size - 1) -> Byte]
  <2>1. ASSUME NEW i \in 0..(e.size - 1)
        PROVE  (IF i \in e.wr..(e.wr + Len(xs) - 1) THEN xs[i - e.wr + 1] ELSE e.mem[i]) \in Byte
    <3>1. i \in e.wr..(e.wr + Len(xs) - 1) => i - e.wr + 1 \in 1..Len(xs)
      BY <1>1, <1>4
    <3>2. i \in e.wr..(e.wr + Len(xs) - 1) => xs[i - e.wr + 1] \in Byte
      BY <1>1, <3>1
    <3>3. e.mem[i] \in Byte
      BY <1>4
    <3> QED
      BY <3>2, <3>3
  <2> QED
    BY <1>5, <2>1
<1>7. /\ w \o xs \in Seq(Byte) /\ Len(w \o xs) = Len(w) + Len(xs)
      /\ \A i \in 1..(Len(w) + Len(xs)) :
            (w \o xs)[i] = IF i <= Len(w) THEN w[i] ELSE xs[i - Len(w)]
  BY <1>4, ConcatProperties
<1>8. Len(w \o xs) = g.wr - g.rd
  BY <1>1, <1>4, <1>5, <1>7
<1>9. ASSUME NEW i \in 1..Len(w \o xs) PROVE (w \o xs)[i] = g.mem[g.rd + i - 1]
  <2> DEFINE k == e.rd + i - 1
  <2>1. k \in 0..(e.size - 1) /\ g.rd + i - 1 = k
    BY <1>1, <1>2, <1>4, <1>5, <1>7
  <2>2. g.mem[k] = IF k \in e.wr..(e.wr + Len(xs) - 1) THEN xs[k - e.wr + 1] ELSE e.mem[k]
    BY <1>5, <2>1
  <2>3. CASE i <= Len(w)
    <3>1. k \notin e.wr..(e.wr + Len(xs) - 1) /\ i \in 1..Len(w)
      BY <1>1, <1>4, <1>7, <2>3
    <3>2. (w \o xs)[i] = w[i] /\ w[i] = e.mem[k]
      BY <1>1, <1>4, <1>7, <2>3, <3>1
    <3> QED
      BY <2>1, <2>2, <3>1, <3>2
  <2>4. CASE ~(i <= Len(w))
    <3>1. k \in e.wr..(e.wr + Len(xs) - 1) /\ k - e.wr + 1 = i - Len(w)
      BY <1>1, <1>4, <1>7, <2>4
    <3>2. (w \o xs)[i] = xs[i - Len(w)]
      BY <1>7, <2>4
    <3> QED
      BY <2>1, <2>2, <3>1, <3>2
  <2> QED
    BY <2>3, <2>4
<1>10. g.size \in Nat /\ g.rd \in Nat /\ g.wr \in Nat /\ g.rd <= g.wr /\ g.wr <= g.size
  BY <1>1, <1>2, <1>4, <1>5
<1>11. Holds(g, w \o xs)
  BY <1>6, <1>7, <1>8, <1>9, <1>10 DEF Holds
<1> QED
  BY <1>11 DEF g

(* Advancing rd_pos_ takes bytes off the front.                            *)
LEMMA TakeHolds ==
    ASSUME NEW u, NEW w, Holds(u, w), NEW n \in Nat, n <= u.wr - u.rd,
           NEW v, v.mem = u.mem, v.size = u.size, v.rd = u.rd + n, v.wr = u.wr
    PROVE  Holds(v, SubSeq(w, n + 1, Len(w)))
<1> DEFINE t == SubSeq(w, n + 1, Len(w))
<1>1. /\ u.size \in Nat /\ u.rd \in Nat /\ u.wr \in Nat
      /\ u.rd <= u.wr /\ u.wr <= u.size /\ w \in Seq(Byte)
      /\ Len(w) = u.wr - u.rd /\ Len(w) \in Nat
      /\ \A i \in 1..Len(w) : w[i] = u.mem[u.rd + i - 1]
  BY DEF Holds
<1>2. /\ t \in Seq(Byte) /\ Len(t) = Len(w) - n
      /\ \A i \in 1..(Len(w) - n) : t[i] = w[n + i]
  BY <1>1, SubSeqProperties
<1> HIDE DEF t
<1>3. ASSUME NEW i \in 1..Len(t) PROVE t[i] = v.mem[v.rd + i - 1]
  <2>1. n + i \in 1..Len(w) /\ i \in 1..(Len(w) - n)
    BY <1>1, <1>2
  <2>2. t[i] = u.mem[u.rd + (n + i) - 1]
    BY <1>1, <1>2, <2>1
  <2>3. u.rd + (n + i) - 1 = v.rd + i - 1
    BY <1>1, <2>1
  <2> QED
    BY <2>2, <2>3
<1>4. Holds(v, t)
  <2>1. v.mem \in [0..(v.size - 1) -> Byte]
    BY DEF Holds
  <2>2. v.size \in Nat /\ v.rd \in Nat /\ v.wr \in Nat /\ v.rd <= v.wr /\ v.wr <= v.size
    BY <1>1
  <2>3. Len(t) = v.wr - v.rd
    BY <1>1, <1>2
  <2> QED
    BY <1>2, <1>3, <2>1, <2>2, <2>3 DEF Holds
<1> QED
  BY <1>4 DEF t
-----------------------------------------------------------------------------
(* While the positions are in order, Expand() does not run away.           *)
LEMMA NeverCrashes == ASSUME NEW u, NEW w, Holds(u, w), NEW n
                      PROVE  ~ExpandCrashes(u, n)
BY DEF ExpandCrashes, Holds

LEMMA CopiesInSeq == ASSUME NEW n \in Nat, NEW x \in Byte PROVE Copies(n, x) \in Seq(Byte)
BY IsASeq DEF Copies

LEMMA InitIInv == Init => IInv
<1> SUFFICES ASSUME Init PROVE IInv
  OBVIOUS
<1>1. /\ b.mem = [i \in 0..(FirstSize - 1) |-> 0] /\ b.size = FirstSize
      /\ b.rd = 0 /\ b.wr = 0 /\ written = <<>>
      /\ b = [mem |-> b.mem, size |-> b.size, rd |-> b.rd, wr |-> b.wr]
  BY DEF Init
<1>2. 0 \in Byte
  BY DEF Byte
<1>3. b.mem \in [0..(b.size - 1) -> Byte]
  BY <1>1, <1>2
<1>4. written \in Seq(Byte) /\ Len(written) = 0
  BY <1>1, EmptySeq
<1>5. Holds(b, written)
  BY <1>1, <1>3, <1>4 DEF Holds
<1> QED
  BY <1>1, <1>5 DEF Init, IInv

(* A write leaves the bytes behind those that were held.                   *)
LEMMA WriteStep ==
    ASSUME IInv, NEW u, NEW xs \in Seq(Byte), UNCHANGED broken, Write(u, xs),
           u = [mem |-> u.mem, size |-> u.size, rd |-> u.rd, wr |-> u.wr],
           ~broken => Holds(u, written)
    PROVE  IInv'
<1>1. CASE ExpandThrows(u, Len(xs)) /\ b' = u /\ UNCHANGED <<written, crashed>>
  BY <1>1 DEF IInv
<1>2. CASE ExpandCrashes(u, Len(xs)) /\ b' = u /\ crashed' = TRUE /\ UNCHANGED written
  BY <1>2, NeverCrashes DEF IInv
<1>3. CASE /\ b' = Grow(u, xs)
           /\ crashed' = (b'.wr > b'.size)
           /\ written' = IF broken THEN <<>> ELSE written \o xs
  <2>1. b' = [mem |-> b.mem, size |-> b.size, rd |-> b.rd, wr |-> b.wr]'
    BY <1>3 DEF Grow
  <2>2. CASE broken
    BY <2>1, <2>2 DEF IInv
  <2>3. CASE ~broken
    <3>1. Holds(u, written)
      BY <2>3
    <3>2. Holds(Grow(u, xs), written \o xs)
      BY <3>1, GrowHolds
    <3>3. Holds(b', written')
      BY <1>3, <2>3, <3>2
    <3>4. b'.wr \in Nat /\ b'.size \in Nat /\ b'.wr <= b'.size
      BY <3>3 DEF Holds
    <3>5. ~crashed'
      <4>1. ~(b'.wr > b'.size)
        BY <3>4
      <4>2. crashed' = (b'.wr > b'.size)
        BY <1>3
      <4> QED
        BY ONLY <4>1, <4>2
    <3>6. Holds(b, written)'
      BY <3>3
    <3>7. broken' = FALSE
      BY <2>3 DEF IInv
    <3> QED
      BY <2>1, <3>5, <3>6, <3>7 DEF IInv
  <2> QED
    BY <2>2, <2>3 DEF IInv
<1> QED
  BY <1>1, <1>2, <1>3 DEF Write

(* A read that does not throw takes its bytes off the front.               *)
LEMMA SkipStep ==
    ASSUME IInv, NEW from, NEW bytes, NEW taken, Skip(from, bytes, taken),
           ~broken => taken \in Nat /\ from + bytes = b.rd + taken
    PROVE  IInv'
<1>1. /\ b' = [b EXCEPT !.rd = from + bytes]
      /\ broken' = (broken \/ from + bytes > b.wr)
      /\ written' = IF broken' THEN <<>> ELSE SubSeq(written, taken + 1, Len(written))
      /\ UNCHANGED crashed
  BY DEF Skip, Forget
<1>2. /\ b' = [b EXCEPT !.rd = b'.rd]
      /\ b'.mem = b.mem /\ b'.size = b.size /\ b'.rd = from + bytes /\ b'.wr = b.wr
      /\ b' = [mem |-> b'.mem, size |-> b'.size, rd |-> b'.rd, wr |-> b'.wr]
  <2>1. b = [mem |-> b.mem, size |-> b.size, rd |-> b.rd, wr |-> b.wr]
    BY DEF IInv
  <2> QED
    BY <1>1, <2>1
<1>3. CASE broken'
  BY <1>1, <1>2, <1>3 DEF IInv
<1>4. CASE ~broken'
  <2>1. ~broken /\ ~(from + bytes > b.wr) /\ broken' = FALSE
    BY <1>1, <1>4 DEF IInv
  <2>2. Holds(b, written) /\ ~crashed
    BY <2>1 DEF IInv
  <2>3. b.rd \in Nat /\ b.wr \in Nat
    BY <2>2 DEF Holds
  <2>4. taken <= b.wr - b.rd /\ b'.rd = b.rd + taken
    BY <1>2, <2>1, <2>3
  <2>5. Holds(b', SubSeq(written, taken + 1, Len(written)))
    BY <1>2, <2>1, <2>2, <2>4, TakeHolds
  <2>6. Holds(b, written)'
    BY <1>1, <1>4, <2>5
  <2> QED
    BY <1>1, <1>2, <2>1, <2>2, <2>6 DEF IInv
<1> QED
  BY <1>3, <1>4

LEMMA AppendStringStep ==
    ASSUME IInv, NEW n \in Nat, NEW x \in Byte, AppendString(n, x) PROVE IInv'
<1> DEFINE cut == n % Values
           prefixed == Grow(b, <<cut>>)
<1>1. cut \in Byte /\ cut \in Nat
  BY DEF Byte
<1>2. <<cut>> \in Seq(Byte) /\ Len(<<cut>>) = 1
  BY <1>1
<1>3. Copies(cut, x) \in Seq(Byte) /\ Len(Copies(cut, x)) = cut
  <2>1. Copies(cut, x) \in Seq(Byte)
    BY <1>1, CopiesInSeq
  <2>2. DOMAIN Copies(cut, x) = 1..cut
    BY DEF Copies
  <2> QED
    BY <1>1, <2>1, <2>2, LenProperties
<1>4. /\ UNCHANGED broken
      /\ b = [mem |-> b.mem, size |-> b.size, rd |-> b.rd, wr |-> b.wr]
      /\ ~broken => Holds(b, written)
  BY DEF AppendString, IInv
<1>5. \/ Write(b, <<cut>>)
      \/ ExpandCrashes(prefixed, cut) /\ Write(prefixed, Copies(cut, x))
      \/ /\ b' = Grow(prefixed, Copies(cut, x))
         /\ crashed' = (prefixed.wr > prefixed.size \/ b'.wr > b'.size)
         /\ written' = IF broken THEN <<>> ELSE written \o <<cut>> \o Copies(cut, x)
  BY DEF AppendString
<1>6. ~broken => Holds(prefixed, written \o <<cut>>)
  BY <1>2, <1>4, GrowHolds
<1>7. b' = Grow(prefixed, Copies(cut, x)) =>
          b' = [mem |-> b'.mem, size |-> b'.size, rd |-> b'.rd, wr |-> b'.wr]
  BY DEF Grow
<1>8. prefixed = [mem |-> prefixed.mem, size |-> prefixed.size, rd |-> prefixed.rd, wr |-> prefixed.wr]
  BY DEF Grow
<1> HIDE DEF cut, prefixed
<1>9. CASE Write(b, <<cut>>)
  BY <1>2, <1>4, <1>9, WriteStep
<1>10. CASE ExpandCrashes(prefixed, cut) /\ Write(prefixed, Copies(cut, x))
  <2>1. CASE broken
    BY <1>3, <1>4, <1>8, <1>10, <2>1, WriteStep
  <2>2. CASE ~broken
    BY <1>6, <1>10, <2>2, NeverCrashes
  <2> QED
    BY <2>1, <2>2
<1>11. CASE /\ b' = Grow(prefixed, Copies(cut, x))
            /\ crashed' = (prefixed.wr > prefixed.size \/ b'.wr > b'.size)
            /\ written' = IF broken THEN <<>> ELSE written \o <<cut>> \o Copies(cut, x)
  <2>1. CASE broken
    BY <1>4, <1>7, <1>11, <2>1 DEF IInv
  <2>2. CASE ~broken
    <3>1. Holds(prefixed, written \o <<cut>>)
      BY <1>6, <2>2
    <3>2. Holds(Grow(prefixed, Copies(cut, x)), (written \o <<cut>>) \o Copies(cut, x))
      BY <1>3, <3>1, GrowHolds
    <3>3. Holds(b', written')
      BY <1>11, <2>2, <3>2
    <3>4. ~(prefixed.wr > prefixed.size) /\ ~(b'.wr > b'.size)
      BY <3>1, <3>3 DEF Holds
    <3>5. crashed' = (prefixed.wr > prefixed.size \/ b'.wr > b'.size)
      BY <1>11
    <3>6. crashed' = FALSE
      BY ONLY <3>4, <3>5, Zenon
    <3>7. Holds(b, written)'
      BY <3>3
    <3>8. broken' = FALSE
      BY <1>4, <2>2 DEF IInv
    <3> QED
      BY <1>7, <1>11, <3>6, <3>7, <3>8 DEF IInv
  <2> QED
    BY <2>1, <2>2
<1> QED
  BY <1>5, <1>9, <1>10, <1>11

LEMMA ExtractStep == ASSUME IInv, NEW n \in Nat, Extract(n) PROVE IInv'
<1>1. Skip(b.rd, n, n)
  BY DEF Extract
<1> QED
  BY <1>1, SkipStep

LEMMA ExtractStringStep == ASSUME IInv, ExtractString PROVE IInv'
<1> DEFINE n == b.mem[b.rd]
<1>1. CASE b.rd >= b.wr
  BY <1>1, ExtractStep DEF ExtractString
<1>2. CASE ~(b.rd >= b.wr) /\ Skip(b.rd + 1, n, 1 + n)
  <2>1. ASSUME ~broken PROVE 1 + n \in Nat /\ (b.rd + 1) + n = b.rd + (1 + n)
    <3>1. Holds(b, written)
      BY <2>1 DEF IInv
    <3>2. b.rd \in 0..(b.size - 1) /\ b.rd \in Nat
      BY <1>2, <3>1 DEF Holds
    <3>3. n \in Byte
      BY <3>1, <3>2 DEF Holds
    <3> QED
      BY <3>2, <3>3 DEF Byte
  <2> QED
    BY <1>2, <2>1, SkipStep
<1>3. CASE /\ b' = [b EXCEPT !.rd = @ + 1]
           /\ broken' = TRUE
           /\ Forget(0)
           /\ UNCHANGED crashed
  <2>1. b = [mem |-> b.mem, size |-> b.size, rd |-> b.rd, wr |-> b.wr]
    BY DEF IInv
  <2>2. b' = [mem |-> b'.mem, size |-> b'.size, rd |-> b'.rd, wr |-> b'.wr]
    BY <1>3, <2>1
  <2> QED
    BY <1>3, <2>2 DEF IInv
<1> QED
  BY <1>1, <1>2, <1>3 DEF ExtractString

LEMMA DrainStep == ASSUME IInv, NEW n \in Nat, Drain(n) PROVE IInv'
<1>1. /\ n <= b.wr - b.rd
      /\ b' = IF b.rd + n = b.wr THEN [b EXCEPT !.rd = 0, !.wr = 0] ELSE [b EXCEPT !.rd = @ + n]
      /\ UNCHANGED <<broken, crashed>>
      /\ written' = IF broken' THEN <<>> ELSE SubSeq(written, n + 1, Len(written))
  BY DEF Drain, Forget
<1>2. b = [mem |-> b.mem, size |-> b.size, rd |-> b.rd, wr |-> b.wr]
  BY DEF IInv
<1>3. /\ b' = [mem |-> b'.mem, size |-> b'.size, rd |-> b'.rd, wr |-> b'.wr]
      /\ b'.mem = b.mem /\ b'.size = b.size
      /\ IF b.rd + n = b.wr THEN b'.rd = 0 /\ b'.wr = 0
                            ELSE b'.rd = b.rd + n /\ b'.wr = b.wr
  <2>1. CASE b.rd + n = b.wr
    BY <1>1, <1>2, <2>1
  <2>2. CASE b.rd + n # b.wr
    BY <1>1, <1>2, <2>2
  <2> QED
    BY <2>1, <2>2
<1>4. CASE broken
  BY <1>1, <1>3, <1>4 DEF IInv
<1>5. CASE ~broken
  <2> DEFINE t == SubSeq(written, n + 1, Len(written))
  <2>1. Holds(b, written)
    BY <1>5 DEF IInv
  <2>2. /\ b.rd \in Nat /\ b.wr \in Nat /\ b.size \in Nat
        /\ b.mem \in [0..(b.size - 1) -> Byte]
    BY <2>1 DEF Holds
  <2>3. written' = t
    BY <1>1, <1>5
  <2>4. CASE b.rd + n # b.wr
    <3>1. Holds(b', t)
      BY <1>1, <1>3, <2>1, <2>4, TakeHolds
    <3> QED
      BY <1>1, <1>3, <1>5, <2>3, <3>1 DEF IInv
  <2>5. CASE b.rd + n = b.wr
    <3>1. /\ t \in Seq(Byte) /\ Len(t) = 0
      <4> DEFINE v == [b EXCEPT !.rd = @ + n]
      <4>1. v.mem = b.mem /\ v.size = b.size /\ v.rd = b.rd + n /\ v.wr = b.wr
        BY <1>2
      <4>2. Holds(v, t)
        BY <1>1, <2>1, <4>1, TakeHolds
      <4> QED
        BY <2>2, <2>5, <4>1, <4>2 DEF Holds
    <3> HIDE DEF t
    <3>2. /\ b'.mem \in [0..(b'.size - 1) -> Byte]
          /\ b'.size \in Nat /\ b'.rd = 0 /\ b'.wr = 0 /\ 1..Len(t) = {}
      BY <1>3, <2>2, <2>5, <3>1
    <3>3. Holds(b', t)
      BY <3>1, <3>2 DEF Holds
    <3>4. Holds(b, written)'
      BY <2>3, <3>3
    <3> QED
      BY <1>1, <1>3, <1>5, <3>4 DEF IInv
  <2> QED
    BY <2>4, <2>5
<1> QED
  BY <1>4, <1>5

LEMMA StepIInv == IInv /\ [Next]_vars => IInv'
<1> SUFFICES ASSUME IInv, [Next]_vars PROVE IInv'
  OBVIOUS
<1>1. ASSUME NEW n \in 1..MaxWrite, NEW x \in Byte, AppendBytes(n, x) PROVE IInv'
  <2>1. Copies(n, x) \in Seq(Byte) /\ UNCHANGED broken /\ Write(b, Copies(n, x))
    BY <1>1, CopiesInSeq DEF AppendBytes
  <2>2. /\ b = [mem |-> b.mem, size |-> b.size, rd |-> b.rd, wr |-> b.wr]
        /\ ~broken => Holds(b, written)
    BY DEF IInv
  <2> QED
    BY <2>1, <2>2, WriteStep
<1>2. ASSUME NEW n \in 0..Values, AppendString(n, Values - 1) PROVE IInv'
  <2>1. n \in Nat /\ Values - 1 \in Byte
    BY DEF Byte
  <2> QED
    BY <1>2, <2>1, AppendStringStep
<1>3. CASE ExtractString
  BY <1>3, ExtractStringStep
<1>4. ASSUME NEW n \in 1..MaxWrite, Extract(n) \/ Drain(n) PROVE IInv'
  <2>1. n \in Nat
    OBVIOUS
  <2> QED
    BY <1>4, <2>1, ExtractStep, DrainStep
<1>5. CASE UNCHANGED vars
  BY <1>5 DEF vars, IInv, Holds
<1> QED
  BY <1>1, <1>2, <1>3, <1>4, <1>5 DEF Next

(* Until a read throws, a ByteBuffer of any size, with any limits, touches *)
(* nothing outside of its block and holds the bytes written and not yet    *)
(* taken, in their order.                                                  *)
THEOREM BufferIsFaithful == Spec => []HoldsWhatWasWritten
<1>1. IInv => HoldsWhatWasWritten
  <2> SUFFICES ASSUME IInv, ~broken
               PROVE  ~crashed /\ b.rd <= b.wr /\ b.wr <= b.size /\ Held = written
    BY DEF HoldsWhatWasWritten
  <2>1. ~crashed /\ Holds(b, written)
    BY DEF IInv
  <2>2. /\ b.rd <= b.wr /\ b.wr <= b.size /\ written \in Seq(Byte)
        /\ Len(written) = b.wr - b.rd
        /\ \A i \in 1..Len(written) : written[i] = b.mem[b.rd + i - 1]
    BY <2>1 DEF Holds
  <2>3. written = [i \in 1..Len(written) |-> written[i]]
    BY ONLY <2>2, LenProperties
  <2> QED
    BY <2>1, <2>2, <2>3 DEF Held
<1> QED
  BY <1>1, InitIInv, StepIInv, PTL DEF Spec
-----------------------------------------------------------------------------
(* ResultSet: in a row of the table index_ is the number of the calls, as  *)
(* long as there are columns.                                              *)
ResultInv == /\ row \in Nat /\ index \in Nat /\ reads \in Nat
             /\ row \in DOMAIN Table => index = (IF reads <= Columns THEN reads ELSE Columns)
             /\ ReadsColumnByColumn

LEMMA ResultFacts ==
    /\ Columns \in Nat \ {0} /\ Len(Table) \in Nat /\ DOMAIN Table = 1..Len(Table)
BY BuffersAssumption, LenProperties DEF R!ResultSetAssumption

LEMMA StepReadField ==
    ASSUME ResultInv, NEW type \in R!Types, R!ReadField(type)
    PROVE  ResultInv'
<1>1. /\ row \in Nat /\ index \in Nat /\ reads \in Nat
      /\ row > 0 /\ ~(row > Len(Table)) /\ ~(index >= Columns)
      /\ row' = row /\ reads' = reads + 1 /\ index' = index + 1
  BY DEF ResultInv, R!ReadField, R!AtEnd, R!NextIndex
<1>2. row \in DOMAIN Table /\ index = reads /\ reads < Columns
  BY <1>1, ResultFacts DEF ResultInv
<1> DEFINE field == Table[row][reads + 1]
<1>3. IF field = NoField THEN last' = [R!Nothing EXCEPT !.type = type]
      ELSE \E v \in R!NewValues(field, type) : last' = [type |-> type, ok |-> TRUE, value |-> v]
  BY <1>2 DEF R!ReadField
<1>4. type \in {"int8", "uint8", "int", "uint", "string"}
  BY DEF R!Types
<1>5. CASE field = NoField
  <2>1. last'.ok = FALSE
    BY <1>3, <1>5 DEF R!Nothing
  <2>2. ReadsColumnByColumn'
    BY <1>1, <1>5, <2>1 DEF ReadsColumnByColumn, R!ReadsColumnByColumn
  <2> QED
    BY <1>1, <1>2, <2>2, ResultFacts DEF ResultInv
<1>6. CASE field # NoField
  <2>1. PICK v \in R!NewValues(field, type) : last' = [type |-> type, ok |-> TRUE, value |-> v]
    BY <1>3, <1>6
  <2>2. last'.ok = TRUE /\ last'.type = type /\ last'.value = v
    BY <2>1
  <2> HIDE DEF field
  <2>3. type = "string" => v = field
    BY <2>1 DEF R!NewValues
  <2>4. type \in {"int", "uint"} /\ R!IsNumber(field) /\ R!Amount(field) \in R!ValuesOf(type)
           => v = R!Amount(field)
    BY <2>1 DEF R!NewValues
  <2>5. ReadsColumnByColumn'
    <3>1. Table[row'][reads'] = field /\ reads' <= Columns
      BY <1>1, <1>2, ResultFacts DEF field
    <3> QED
      BY <1>6, <2>2, <2>3, <2>4, <3>1 DEF ReadsColumnByColumn, R!ReadsColumnByColumn
  <2> QED
    BY <1>1, <1>2, <2>5, ResultFacts DEF ResultInv
<1> QED
  BY <1>5, <1>6

LEMMA ResultStep == ASSUME ResultInv, [R!Next]_R!vars PROVE ResultInv'
<1>1. row \in Nat /\ index \in Nat /\ reads \in Nat
  BY DEF ResultInv
<1>2. CASE UNCHANGED R!vars
  BY <1>2 DEF R!vars, ResultInv, ReadsColumnByColumn, R!ReadsColumnByColumn
<1>3. CASE R!MoveNext
  BY <1>1, <1>3, ResultFacts DEF R!MoveNext, ResultInv, ReadsColumnByColumn, R!ReadsColumnByColumn
<1>4. ASSUME NEW type \in R!Types, R!ReadUnset(type) PROVE ResultInv'
  <2>1. row' = 0 /\ reads' = 1 /\ index' = index /\ 0 \notin DOMAIN Table
    BY <1>4, ResultFacts DEF R!ReadUnset
  <2> QED
    BY <1>1, <2>1 DEF ResultInv, ReadsColumnByColumn, R!ReadsColumnByColumn
<1>5. ASSUME NEW type \in R!Types, R!ReadNothing(type) PROVE ResultInv'
  <2>1. row' = row /\ reads' = reads + 1 /\ index' = index /\ last'.ok = FALSE
    BY <1>5 DEF R!ReadNothing, R!Nothing
  <2>2. row \in DOMAIN Table => index >= Columns
    BY <1>1, <1>5, ResultFacts DEF R!ReadNothing, R!AtEnd
  <2>3. row \in DOMAIN Table => index' = Columns /\ ~(reads' <= Columns)
    BY <1>1, <2>1, <2>2, ResultFacts DEF ResultInv
  <2>4. ReadsColumnByColumn'
    BY <2>1, <2>3 DEF ReadsColumnByColumn, R!ReadsColumnByColumn
  <2> QED
    BY <1>1, <2>1, <2>3, <2>4 DEF ResultInv
<1> QED
  BY <1>2, <1>3, <1>4, <1>5, StepReadField DEF R!Next

(* Whatever the table and the order of the types asked for: the n-th call  *)
(* of operator >> is about the n-th column, NULL fields and texts that are *)
(* no numbers in front of it included (ResultSet.h:44-80).                 *)
THEOREM ColumnsInOrder == R!Spec => []ReadsColumnByColumn
<1>1. R!Init => ResultInv
  BY ResultFacts DEF R!Init, ResultInv, ReadsColumnByColumn, R!ReadsColumnByColumn
<1>2. ResultInv /\ [R!Next]_R!vars => ResultInv'
  BY ResultStep
<1>3. ResultInv => ReadsColumnByColumn
  BY DEF ResultInv
<1> QED
  BY <1>1, <1>2, <1>3, PTL DEF R!Spec

HIDE ByteBufferAssumption
-----------------------------------------------------------------------------
(***************************************************************************)
(* Packets.  First induction: a set of numbers that has 0 and, with a      *)
(* number, the next one has them all up to any N.                          *)
(***************************************************************************)
LEMMA LessThanWellFounded ==
  \E r : IsWellFoundedOn(r, Nat) /\ \A m, n \in Nat : m < n => <<m, n>> \in r
<1> DEFINE r == OpToRel(<, Nat)
<1>1. IsWellFoundedOn(r, Nat)
  BY NatLessThanWellFounded
<1>2. \A m, n \in Nat : m < n => <<m, n>> \in r
  BY DEF OpToRel
<1> HIDE DEF r
<1> QED
  BY <1>1, <1>2, Zenon

LEMMA Minimal ==
  ASSUME NEW r, IsWellFoundedOn(r, Nat), NEW T, T \subseteq Nat, T # {}
  PROVE  \E x \in T : \A y \in T : ~ (<<y, x>> \in r)
BY WFMin

LEMMA LeastNat ==
    ASSUME NEW T, T \subseteq Nat, T # {}
    PROVE  \E n \in T : \A m \in T : n <= m
<1>1. PICK r : IsWellFoundedOn(r, Nat) /\ \A m, n \in Nat : m < n => <<m, n>> \in r
  BY LessThanWellFounded, Zenon
<1>2. PICK x \in T : \A y \in T : ~ (<<y, x>> \in r)
  BY <1>1, Minimal, Zenon
<1>3. \A y \in T : x \in Nat /\ y \in Nat /\ ~(y < x)
  BY <1>1, <1>2
<1> QED
  BY <1>3

LEMMA UpTo ==
    ASSUME NEW N \in Nat, NEW T, 0 \in T,
           \A n \in 0..(N - 1) : n \in T => n + 1 \in T
    PROVE  \A n \in 0..N : n \in T
<1> DEFINE missing == {n \in 0..N : n \notin T}
<1>1. SUFFICES ASSUME missing # {} PROVE FALSE
  OBVIOUS
<1>2. missing \subseteq Nat
  OBVIOUS
<1>3. PICK n \in missing : \A m \in missing : n <= m
  BY <1>1, <1>2, LeastNat, Zenon
<1>4. n \in 0..N /\ n # 0 /\ n \notin T
  OBVIOUS
<1>5. n - 1 \in 0..(N - 1) /\ (n - 1) + 1 = n
  BY <1>4
<1>6. n - 1 \notin missing
  BY <1>3, <1>4
<1> QED
  BY <1>4, <1>5, <1>6

(***************************************************************************)
(* FlattenSeq                                                               *)
(***************************************************************************)
Joins(f, n, seqs) == \A i \in 1..n : f[i] = IF i = 1 THEN seqs[i] ELSE f[i - 1] \o seqs[i]

LEMMA JoinsExists ==
    ASSUME NEW S, NEW seqs \in Seq(Seq(S))
    PROVE  \A n \in 0..Len(seqs) : \E f \in [1..n -> Seq(S)] : Joins(f, n, seqs)
<1> DEFINE T == {n \in 0..Len(seqs) : \E f \in [1..n -> Seq(S)] : Joins(f, n, seqs)}
<1>0. Len(seqs) \in Nat
  OBVIOUS
<1>1. 0 \in T
  <2>1. [i \in 1..0 |-> <<>>] \in [1..0 -> Seq(S)] /\ Joins([i \in 1..0 |-> <<>>], 0, seqs)
    BY DEF Joins
  <2>2. \E f \in [1..0 -> Seq(S)] : Joins(f, 0, seqs)
    BY <2>1, Zenon
  <2>3. 0 \in 0..Len(seqs)
    BY <1>0
  <2> QED
    BY <2>2, <2>3, Zenon
<1>2. ASSUME NEW n \in 0..(Len(seqs) - 1), n \in T PROVE n + 1 \in T
  <2>1. PICK f \in [1..n -> Seq(S)] : Joins(f, n, seqs)
    BY <1>2
  <2>2. seqs[n + 1] \in Seq(S)
    BY <1>0
  <2> DEFINE ending == IF n = 0 THEN seqs[n + 1] ELSE f[n] \o seqs[n + 1]
  <2>3. ending \in Seq(S)
    BY <2>2, ConcatProperties
  <2> DEFINE g == [i \in 1..(n + 1) |-> IF i <= n THEN f[i] ELSE ending]
  <2>4. g \in [1..(n + 1) -> Seq(S)]
    BY <2>3
  <2>5. ASSUME NEW i \in 1..(n + 1)
        PROVE  g[i] = IF i = 1 THEN seqs[i] ELSE g[i - 1] \o seqs[i]
    <3>1. CASE i = n + 1
      <4>1. g[i] = ending /\ (n # 0 => g[i - 1] = f[n])
        BY <3>1
      <4> QED
        BY <3>1, <4>1
    <3>2. CASE i <= n
      <4>1. g[i] = f[i] /\ (i # 1 => g[i - 1] = f[i - 1])
        BY <3>2
      <4>2. i \in 1..n
        BY <3>2
      <4>3. f[i] = IF i = 1 THEN seqs[i] ELSE f[i - 1] \o seqs[i]
        BY <2>1, <4>2, Zenon DEF Joins
      <4> HIDE DEF g
      <4> QED
        BY <4>1, <4>3
    <3> QED
      BY <3>1, <3>2
  <2>6. Joins(g, n + 1, seqs)
    BY <2>5 DEF Joins
  <2> HIDE DEF g
  <2>7. n + 1 \in 0..Len(seqs)
    BY <1>0
  <2> QED
    BY <2>4, <2>6, <2>7
<1> HIDE DEF T
<1>3. \A n \in 0..Len(seqs) : n \in T
  BY <1>0, <1>1, <1>2, UpTo
<1> QED
  BY <1>3 DEF T

LEMMA JoinsAgree ==
    ASSUME NEW f, NEW g, NEW n \in Nat, NEW s, NEW t,
           Joins(f, n, s), Joins(g, n, t), \A i \in 1..n : s[i] = t[i]
    PROVE  \A i \in 1..n : f[i] = g[i]
<1> DEFINE T == {i \in 0..n : i # 0 => f[i] = g[i]}
<1>1. 0 \in T
  OBVIOUS
<1>2. ASSUME NEW i \in 0..(n - 1), i \in T PROVE i + 1 \in T
  <2>1. i + 1 \in 1..n /\ (i + 1) - 1 = i /\ (i + 1 = 1 <=> i = 0)
    OBVIOUS
  <2>2. /\ f[i + 1] = IF i + 1 = 1 THEN s[i + 1] ELSE f[(i + 1) - 1] \o s[i + 1]
        /\ g[i + 1] = IF i + 1 = 1 THEN t[i + 1] ELSE g[(i + 1) - 1] \o t[i + 1]
    BY <2>1 DEF Joins
  <2> QED
    BY <1>2, <2>1, <2>2
<1> HIDE DEF T
<1>3. \A i \in 0..n : i \in T
  BY <1>1, <1>2, UpTo
<1> QED
  BY <1>3 DEF T

LEMMA FlattenJoins ==
    ASSUME NEW S, NEW seqs \in Seq(Seq(S)), Len(seqs) # 0
    PROVE  \E f \in [1..Len(seqs) -> Seq(S)] : Joins(f, Len(seqs), seqs) /\ P!FlattenSeq(seqs) = f[Len(seqs)]
<1> DEFINE n == Len(seqs)
           Equation(f) == f = [i \in 1..n |-> IF i = 1 THEN seqs[i] ELSE f[i - 1] \o seqs[i]]
<1>0. n \in Nat
  OBVIOUS
<1>1. PICK f \in [1..n -> Seq(S)] : Joins(f, n, seqs)
  BY <1>0, JoinsExists
<1>2. Equation(f)
  BY <1>1 DEF Joins
<1> DEFINE chosen == CHOOSE g : Equation(g)
<1>3. Equation(chosen)
  BY <1>2
<1>4. P!FlattenSeq(seqs) = chosen[n]
  BY DEF P!FlattenSeq
<1> HIDE DEF chosen
<1>5. Joins(chosen, n, seqs)
  BY <1>3 DEF Joins
<1>6. chosen[n] = f[n]
  BY <1>0, <1>1, <1>5, JoinsAgree
<1> QED
  BY <1>1, <1>4, <1>6

(* The last sequence is joined last.                                       *)
LEMMA FlattenAppend ==
    ASSUME NEW S, NEW seqs \in Seq(Seq(S)), NEW x \in Seq(S)
    PROVE  /\ P!FlattenSeq(seqs) \in Seq(S)
           /\ P!FlattenSeq(Append(seqs, x)) = P!FlattenSeq(seqs) \o x
<1> DEFINE n == Len(seqs)
           more == Append(seqs, x)
<1>0. n \in Nat /\ more \in Seq(Seq(S)) /\ Len(more) = n + 1
      /\ more[n + 1] = x /\ \A i \in 1..n : more[i] = seqs[i]
  OBVIOUS
<1> HIDE DEF more
<1>1. PICK g \in [1..(n + 1) -> Seq(S)] : Joins(g, n + 1, more) /\ P!FlattenSeq(more) = g[n + 1]
  BY <1>0, FlattenJoins
<1>2. g[n + 1] = IF n = 0 THEN x ELSE g[n] \o x
  <2>1. n + 1 \in 1..(n + 1) /\ (n + 1) - 1 = n /\ (n + 1 = 1 <=> n = 0)
    BY <1>0
  <2>2. g[n + 1] = IF n + 1 = 1 THEN more[n + 1] ELSE g[(n + 1) - 1] \o more[n + 1]
    BY <1>1, <2>1, Zenon DEF Joins
  <2> QED
    BY <1>0, <2>1, <2>2
<1>3. CASE n = 0
  <2>1. P!FlattenSeq(seqs) = <<>>
    BY <1>3 DEF P!FlattenSeq
  <2> QED
    BY <1>1, <1>2, <1>3, <2>1, ConcatEmptySeq DEF more
<1>4. CASE n # 0
  <2>1. PICK f \in [1..n -> Seq(S)] : Joins(f, n, seqs) /\ P!FlattenSeq(seqs) = f[n]
    BY <1>4, FlattenJoins
  <2>2. n \in 1..n /\ \A i \in 1..n : i \in 1..(n + 1)
    BY <1>0, <1>4
  <2>3. Joins(g, n, more)
    BY <1>1, <2>2, Zenon DEF Joins
  <2>4. \A i \in 1..n : g[i] = f[i]
    BY <1>0, <2>1, <2>3, JoinsAgree, Zenon
  <2> QED
    BY <1>0, <1>1, <1>2, <1>4, <2>1, <2>2, <2>4 DEF more
<1> QED
  BY <1>3, <1>4

LEMMA FlattenEmpty == P!FlattenSeq(<<>>) = <<>>
BY DEF P!FlattenSeq

LEMMA Associative == \A S : \A s, t, u \in Seq(S) : (s \o t) \o u = s \o (t \o u)
BY ConcatAssociative

LEMMA AppendConcat ==
    ASSUME NEW S, NEW s \in Seq(S), NEW t \in Seq(S), NEW x \in S
    PROVE  s \o Append(t, x) = Append(s \o t, x)
OBVIOUS

(* Joining the parts of what is joined.                                    *)
LEMMA FlattenConcat ==
    ASSUME NEW S, NEW s \in Seq(Seq(S)), NEW t \in Seq(Seq(S))
    PROVE  P!FlattenSeq(s \o t) = P!FlattenSeq(s) \o P!FlattenSeq(t)
<1> DEFINE first(n) == SubSeq(t, 1, n)
           T == {n \in 0..Len(t) : P!FlattenSeq(s \o first(n)) = P!FlattenSeq(s) \o P!FlattenSeq(first(n))}
<1>0. Len(t) \in Nat
  OBVIOUS
<1>1. 0 \in T
  <2>1. first(0) = <<>>
    BY SubSeqEmpty
  <2>2. s \o <<>> = s /\ P!FlattenSeq(s) \o <<>> = P!FlattenSeq(s)
    BY ConcatEmptySeq, FlattenAppend
  <2>3. P!FlattenSeq(s \o first(0)) = P!FlattenSeq(s) \o P!FlattenSeq(first(0))
    BY <2>1, <2>2, FlattenEmpty
  <2> QED
    BY <1>0, <2>3
<1>2. ASSUME NEW n \in 0..(Len(t) - 1), n \in T PROVE n + 1 \in T
  <2> DEFINE x == t[n + 1]
  <2>1. x \in Seq(S) /\ n + 1 \in 0..Len(t) /\ first(n) \in Seq(Seq(S)) /\ n \in Nat
    BY <1>0
  <2>2. first(n + 1) = Append(first(n), x)
    <3>1. first(n + 1) = first(n) \o <<x>>
      BY <1>0, <2>1, SubSeqRecursiveSecond
    <3> QED
      BY <2>1, <3>1, AppendIsConcat
  <2> HIDE DEF x, first
  <2>3. s \o first(n) \in Seq(Seq(S))
    BY <2>1, ConcatProperties
  <2>4. s \o Append(first(n), x) = Append(s \o first(n), x)
    BY <2>1, AppendConcat
  <2>5. P!FlattenSeq(s) \in Seq(S) /\ P!FlattenSeq(first(n)) \in Seq(S)
    BY <2>1, FlattenAppend
  <2>6. P!FlattenSeq(Append(s \o first(n), x)) = P!FlattenSeq(s \o first(n)) \o x
    BY <2>1, <2>3, FlattenAppend
  <2>7. P!FlattenSeq(Append(first(n), x)) = P!FlattenSeq(first(n)) \o x
    BY <2>1, FlattenAppend
  <2>8. (P!FlattenSeq(s) \o P!FlattenSeq(first(n))) \o x = P!FlattenSeq(s) \o (P!FlattenSeq(first(n)) \o x)
    <3>1. x \in Seq(S)
      BY <2>1
    <3>2. \A a, c, d \in Seq(S) : (a \o c) \o d = a \o (c \o d)
      BY Associative
    <3> QED
      BY <2>5, <3>1, <3>2, Zenon
  <2>9. P!FlattenSeq(s \o first(n)) = P!FlattenSeq(s) \o P!FlattenSeq(first(n))
    BY <1>2
  <2>10. P!FlattenSeq(s \o first(n + 1)) = P!FlattenSeq(s) \o P!FlattenSeq(first(n + 1))
    BY <2>2, <2>4, <2>6, <2>7, <2>8, <2>9
  <2> QED
    BY <2>1, <2>10
<1> HIDE DEF T
<1>3. Len(t) \in T
  <2>1. Len(t) \in 0..Len(t)
    BY <1>0
  <2> QED
    BY <1>0, <1>1, <1>2, <2>1, UpTo, Zenon
<1>4. first(Len(t)) = t
  BY SubSeqFull
<1> QED
  BY <1>3, <1>4 DEF T

(* The first sequence is joined first.                                     *)
LEMMA FlattenFirst ==
    ASSUME NEW S, NEW x \in Seq(S), NEW seqs \in Seq(Seq(S))
    PROVE  /\ P!FlattenSeq(<<x>>) = x
           /\ P!FlattenSeq(<<x>> \o seqs) = x \o P!FlattenSeq(seqs)
<1>1. <<>> \in Seq(Seq(S)) /\ Append(<<>>, x) = <<x>> /\ <<x>> \in Seq(Seq(S))
  OBVIOUS
<1>2. P!FlattenSeq(<<x>>) = <<>> \o x
  BY <1>1, FlattenAppend, FlattenEmpty
<1>3. P!FlattenSeq(<<x>>) = x
  BY <1>2, ConcatEmptySeq
<1> QED
  BY <1>1, <1>3, FlattenConcat

(***************************************************************************)
(* Numbers                                                                 *)
(***************************************************************************)
LEMMA Places == P!Place[1] = 1 /\ P!Place[2] = 256 /\ P!Place[3] = 256 * 256 /\ P!Place[4] = 256 * 256 * 256
BY DEF P!Place

LEMMA Digits ==
    ASSUME NEW v \in Nat
    PROVE  /\ v \div P!Place[1] = v
           /\ \A i \in 1..4 : v \div P!Place[i] \in Nat
           /\ \A i \in 1..3 : v \div P!Place[i] = ((v \div P!Place[i]) % 256) + 256 * (v \div P!Place[i + 1])
<1>1. /\ v \div 1 = v /\ v \div 256 \in Nat
      /\ v \div (256 * 256) \in Nat /\ v \div (256 * 256 * 256) \in Nat
      /\ v = (v % 256) + 256 * (v \div 256)
      /\ v \div 256 = ((v \div 256) % 256) + 256 * (v \div (256 * 256))
      /\ v \div (256 * 256) = ((v \div (256 * 256)) % 256) + 256 * (v \div (256 * 256 * 256))
  BY SMT
<1> QED
  BY <1>1, Places, SMT

LEMMA NumberWritten ==
    ASSUME NEW v \in Nat, NEW width \in {1, 2, 4}
    PROVE  /\ P!WriteNumber(v, width) \in Seq(P!Byte)
           /\ Len(P!WriteNumber(v, width)) = width
<1>1. ASSUME NEW i \in 1..width PROVE (v \div P!Place[i]) % 256 \in P!Byte
  <2>1. i \in 1..4
    OBVIOUS
  <2>2. v \div P!Place[i] \in Nat
    BY <2>1, Digits
  <2> QED
    BY <2>2 DEF P!Byte
<1>2. width \in Nat
  OBVIOUS
<1> QED
  BY <1>1, <1>2 DEF P!WriteNumber

(* The digits of a number make it up.                                      *)
LEMMA SumOfDigits ==
    ASSUME NEW v \in Nat, NEW q1 \in Nat, NEW q2 \in Nat, NEW q3 \in Nat,
           NEW r1 \in Int, NEW r2 \in Int, NEW r3 \in Int,
           v = r1 + 256 * q1, q1 = r2 + 256 * q2, q2 = r3 + 256 * q3
    PROVE  r1 * 1 + r2 * 256 + r3 * (256 * 256) + q3 * (256 * 256 * 256) = v
BY SMT

LEMMA NumberReadBack ==
    ASSUME NEW width \in {2, 4}, NEW v \in P!Number(width), NEW data, NEW at \in Nat,
           \A i \in 1..width : data[at + i] = (v \div P!Place[i]) % 256
    PROVE  P!NumberAt(data, at, width) = v
<1> DEFINE q(i) == v \div P!Place[i]
           Digit(i) == data[at + i] = q(i) % 256
<1>0. /\ v \in Nat /\ q(1) = v /\ \A i \in 1..4 : q(i) \in Nat
      /\ \A i \in 1..3 : q(i) = (q(i) % 256) + 256 * q(i + 1)
      /\ q(width) % 256 = q(width)
  <2>1. v \in Nat /\ q(width) \in 0..255
    BY DEF P!Number, P!Byte
  <2> HIDE DEF q
  <2>2. q(width) % 256 = q(width)
    BY <2>1
  <2> QED
    BY <2>1, <2>2, Digits DEF q
<1>1. \A i \in 1..width : Digit(i)
  OBVIOUS
<1> HIDE DEF q
<1>2. /\ q(1) \in Nat /\ q(2) \in Nat /\ q(3) \in Nat /\ q(4) \in Nat
      /\ q(1) = (q(1) % 256) + 256 * q(2) /\ q(2) = (q(2) % 256) + 256 * q(3)
      /\ q(3) = (q(3) % 256) + 256 * q(4)
      /\ q(1) % 256 \in Int /\ q(2) % 256 \in Int /\ q(3) % 256 \in Int
  BY <1>0
<1>3. CASE width = 2
  <2>1. 1 \in 1..width /\ 2 \in 1..width
    BY <1>3
  <2> HIDE DEF Digit
  <2>2. Digit(1) /\ Digit(2)
    BY <1>1, <2>1
  <2>3. data[at + 1] = q(1) % 256 /\ data[at + 2] = q(2)
    BY <1>0, <1>3, <2>2 DEF Digit
  <2>4. P!NumberAt(data, at, width) = data[at + 1] * 1 + data[at + 2] * 256 + 0 + 0
    BY <1>3, Places DEF P!NumberAt
  <2> QED
    BY <1>0, <1>2, <2>3, <2>4
<1>4. CASE width = 4
  <2>1. 1 \in 1..width /\ 2 \in 1..width /\ 3 \in 1..width /\ 4 \in 1..width
    BY <1>4
  <2> HIDE DEF Digit
  <2>2. Digit(1) /\ Digit(2) /\ Digit(3) /\ Digit(4)
    BY <1>1, <2>1
  <2>3. /\ data[at + 1] = q(1) % 256 /\ data[at + 2] = q(2) % 256
        /\ data[at + 3] = q(3) % 256 /\ data[at + 4] = q(4)
    BY <1>0, <1>4, <2>2 DEF Digit
  <2>4. P!NumberAt(data, at, width)
          = data[at + 1] * 1 + data[at + 2] * 256 + data[at + 3] * (256 * 256) + data[at + 4] * (256 * 256 * 256)
    BY <1>4, Places DEF P!NumberAt
  <2>5. (q(1) % 256) * 1 + (q(2) % 256) * 256 + (q(3) % 256) * (256 * 256) + q(4) * (256 * 256 * 256) = q(1)
    BY <1>2, SumOfDigits
  <2> QED
    BY <1>0, <2>3, <2>4, <2>5
<1> QED
  BY <1>3, <1>4

(***************************************************************************)
(* What is written is read back.                                           *)
(***************************************************************************)
Bytes == Seq(P!Byte)

LEMMA TakenOff ==
    ASSUME NEW S, NEW s \in Seq(S), NEW rest \in Seq(S)
    PROVE  /\ Len(s \o rest) = Len(s) + Len(rest)
           /\ P!From(s \o rest, Len(s) + 1) = rest
           /\ SubSeq(s \o rest, 1, Len(s)) = s
<1>1. /\ s \o rest \in Seq(S) /\ Len(s \o rest) = Len(s) + Len(rest)
      /\ Len(s) \in Nat /\ Len(rest) \in Nat
  OBVIOUS
<1>2. SubSeq(s \o rest, 1, Len(s)) = s
  OBVIOUS
<1>3. SubSeq(s \o rest, Len(s) + 1, Len(s) + Len(rest)) = rest
  OBVIOUS
<1> QED
  BY <1>1, <1>2, <1>3 DEF P!From

LEMMA JoinedBytes ==
    \A s, t \in Bytes : /\ s \o t \in Bytes /\ Len(s \o t) = Len(s) + Len(t)
                        /\ Len(s) \in Nat /\ Len(t) \in Nat
BY ConcatProperties, LenProperties DEF Bytes

LEMMA RegroupedBytes == \A s, t, u \in Bytes : (s \o t) \o u = s \o (t \o u)
BY Associative DEF Bytes

LEMMA ReaderFields ==
    ASSUME NEW rest, NEW value
    PROVE  /\ P!Reader(rest, value).rest = rest
           /\ P!Reader(rest, value).value = value
           /\ P!Reader(rest, value).ok = TRUE
BY DEF P!Reader

LEMMA ReadNumberBack ==
    ASSUME NEW width \in {2, 4}, NEW v \in P!Number(width), NEW rest \in Bytes, NEW x
    PROVE  P!ReadNumber(P!Reader(P!WriteNumber(v, width) \o rest, x), width) = P!Reader(rest, v)
<1> DEFINE number == P!WriteNumber(v, width)
<1>1. /\ number \in Bytes /\ Len(number) = width
      /\ \A i \in 1..width : number[i] = (v \div P!Place[i]) % 256
  <2>1. v \in Nat /\ width \in {1, 2, 4}
    BY DEF P!Number
  <2>2. number \in Bytes /\ Len(number) = width
    BY <2>1, NumberWritten DEF Bytes
  <2>3. \A i \in 1..width : number[i] = (v \div P!Place[i]) % 256
    BY <2>1 DEF P!WriteNumber
  <2> QED
    BY <2>2, <2>3
<1> HIDE DEF number
<1>2. /\ Len(number \o rest) = width + Len(rest) /\ Len(rest) \in Nat
      /\ P!From(number \o rest, width + 1) = rest
  BY <1>1, TakenOff DEF Bytes
<1>3. \A i \in 1..width : (number \o rest)[i] = number[i]
  BY <1>1 DEF Bytes
<1>4. P!NumberAt(number \o rest, 0, width) = v
  <2> DEFINE data == number \o rest
  <2>1. \A i \in 1..width : data[0 + i] = (v \div P!Place[i]) % 256
    BY <1>1, <1>3
  <2> HIDE DEF data
  <2>2. 0 \in Nat
    OBVIOUS
  <2>3. P!NumberAt(data, 0, width) = v
    BY <2>1, <2>2, NumberReadBack
  <2> QED
    BY <2>3 DEF data
<1>5. ~(Len(number \o rest) < width)
  BY <1>1, <1>2
<1> DEFINE r == P!Reader(number \o rest, x)
<1>6. r.ok = TRUE /\ r.rest = number \o rest
  BY ReaderFields
<1> HIDE DEF r
<1>7. P!ReadNumber(r, width) = P!Reader(rest, v)
  BY <1>2, <1>4, <1>5, <1>6 DEF P!ReadNumber
<1> QED
  BY <1>7 DEF r, number

LEMMA ReadBytesBack ==
    ASSUME NEW values \in Bytes, NEW rest \in Bytes
    PROVE  P!ReadBytes(P!Reader(values \o rest, Len(values))) = P!Reader(rest, values)
<1>1. /\ Len(values \o rest) = Len(values) + Len(rest) /\ Len(values) \in Nat /\ Len(rest) \in Nat
      /\ P!From(values \o rest, Len(values) + 1) = rest
      /\ SubSeq(values \o rest, 1, Len(values)) = values
  BY TakenOff DEF Bytes
<1>2. ~(Len(values \o rest) < Len(values))
  BY <1>1
<1> DEFINE r == P!Reader(values \o rest, Len(values))
<1>3. r.ok = TRUE /\ r.rest = values \o rest /\ r.value = Len(values)
  BY ReaderFields
<1> HIDE DEF r
<1>4. P!ReadBytes(r) = P!Reader(rest, values)
  BY <1>1, <1>2, <1>3 DEF P!ReadBytes
<1> QED
  BY <1>4 DEF r

(* Options and numbers as items of a vector; the number of values of an    *)
(* option should fit its 32 bits.                                          *)
Items(options) == IF options THEN P!Option ELSE P!Number(4)
Sized(options, item) == options => Len(item.values) \in P!Number(4)

LEMMA ZeroIsANumber == 0 \in P!Number(2) /\ 0 \in P!Number(4)
BY Places, SMT DEF P!Number, P!Byte

LEMMA OptionWritten ==
    ASSUME NEW o \in P!Option
    PROVE  /\ P!WriteOption(o) \in Bytes
           /\ Len(P!WriteOption(o)) = 8 + Len(o.values)
<1>1. /\ o.opcode \in Nat /\ Len(o.values) \in Nat /\ o.values \in Bytes
  BY DEF P!Option, P!Number, Bytes
<1> DEFINE a == P!WriteNumber(o.opcode, 2)
           c == P!WriteNumber(0, 2)
           d == P!WriteNumber(Len(o.values), 4)
<1>2. /\ a \in Bytes /\ Len(a) = 2 /\ c \in Bytes /\ Len(c) = 2 /\ d \in Bytes /\ Len(d) = 4
  BY <1>1, NumberWritten DEF Bytes
<1>3. P!WriteOption(o) = (a \o c) \o (d \o o.values)
  BY DEF P!WriteOption, P!WriteBytes
<1> HIDE DEF a, c, d
<1>4. /\ a \o c \in Bytes /\ Len(a \o c) = Len(a) + Len(c)
      /\ d \o o.values \in Bytes /\ Len(d \o o.values) = Len(d) + Len(o.values)
  BY <1>1, <1>2, JoinedBytes, Zenon
<1>5. /\ P!WriteOption(o) \in Bytes
      /\ Len(P!WriteOption(o)) = Len(a \o c) + Len(d \o o.values)
  BY <1>3, <1>4, JoinedBytes, Zenon
<1> QED
  BY <1>1, <1>2, <1>4, <1>5

LEMMA ReadOptionBack ==
    ASSUME NEW o \in P!Option, Len(o.values) \in P!Number(4), NEW rest \in Bytes, NEW x
    PROVE  P!ReadOption(P!Reader(P!WriteOption(o) \o rest, x)) = P!Reader(rest, o)
<1>1. /\ o.opcode \in P!Number(2) /\ Len(o.values) \in P!Number(4) /\ o.values \in Bytes
      /\ o = [opcode |-> o.opcode, values |-> o.values]
  BY DEF P!Option, Bytes
<1> DEFINE a == P!WriteNumber(o.opcode, 2)
           c == P!WriteNumber(0, 2)
           d == P!WriteNumber(Len(o.values), 4)
           e == o.values
           r == P!Reader(P!WriteOption(o) \o rest, x)
           opcode == P!ReadNumber(r, 2)
           reserved == P!ReadNumber(opcode, 2)
           count == P!ReadNumber(reserved, 4)
           values == P!ReadBytes(count)
<1>2. a \in Bytes /\ c \in Bytes /\ d \in Bytes /\ e \in Bytes
  BY <1>1, NumberWritten DEF Bytes, P!Number
<1>3. P!WriteOption(o) \o rest = a \o (c \o (d \o (e \o rest)))
  <2>1. P!WriteOption(o) = (a \o c) \o (d \o e)
    BY DEF P!WriteOption, P!WriteBytes
  <2> HIDE DEF a, c, d, e
  <2>2. a \o c \in Bytes /\ d \o e \in Bytes /\ e \o rest \in Bytes /\ d \o (e \o rest) \in Bytes
    BY <1>2, JoinedBytes
  <2>3. ((a \o c) \o (d \o e)) \o rest = (a \o c) \o ((d \o e) \o rest)
    BY <2>2, RegroupedBytes
  <2>4. (d \o e) \o rest = d \o (e \o rest)
    BY <1>2, RegroupedBytes
  <2>5. (a \o c) \o (d \o (e \o rest)) = a \o (c \o (d \o (e \o rest)))
    <3> DEFINE tail == d \o (e \o rest)
    <3>1. tail \in Bytes
      BY <2>2
    <3> HIDE DEF tail
    <3>2. (a \o c) \o tail = a \o (c \o tail)
      BY <1>2, <3>1, RegroupedBytes
    <3> QED
      BY <3>2 DEF tail
  <2> QED
    BY <2>1, <2>3, <2>4, <2>5
<1>4. /\ e \o rest \in Bytes /\ d \o (e \o rest) \in Bytes /\ c \o (d \o (e \o rest)) \in Bytes
  <2> HIDE DEF a, c, d, e
  <2> QED
    BY <1>2, JoinedBytes
<1>5. opcode = P!Reader(c \o (d \o (e \o rest)), o.opcode)
  BY <1>1, <1>3, <1>4, ReadNumberBack
<1>6. reserved = P!Reader(d \o (e \o rest), 0)
  BY <1>4, <1>5, ReadNumberBack, ZeroIsANumber
<1>7. count = P!Reader(e \o rest, Len(o.values))
  BY <1>1, <1>4, <1>6, ReadNumberBack
<1>8. values = P!Reader(rest, o.values)
  BY <1>1, <1>7, ReadBytesBack
<1>9. P!ReadOption(r) = P!Labelled(opcode.value, values)
  BY DEF P!ReadOption
<1> HIDE DEF values, opcode
<1>10. values.ok = TRUE /\ values.rest = rest /\ values.value = o.values /\ opcode.value = o.opcode
  <2>1. values.ok = TRUE /\ values.rest = rest /\ values.value = o.values
    BY ONLY <1>8, ReaderFields, Zenon
  <2> DEFINE tail == c \o (d \o (e \o rest))
  <2>2. opcode = P!Reader(tail, o.opcode)
    BY <1>5
  <2> HIDE DEF tail
  <2>3. opcode.value = o.opcode
    <3> DEFINE code == o.opcode
    <3> HIDE DEF code
    <3>1. P!Reader(tail, code).value = code
      BY ReaderFields, Zenon
    <3>2. opcode = P!Reader(tail, code)
      BY <2>2 DEF code
    <3> QED
      BY <3>1, <3>2, Zenon DEF code
  <2> QED
    BY <2>1, <2>3
<1>11. P!Labelled(opcode.value, values) = P!Reader(rest, o)
  <2>1. o = [opcode |-> o.opcode, values |-> o.values]
    BY DEF P!Option
  <2> DEFINE field == [opcode |-> o.opcode, values |-> o.values]
  <2>2. P!Labelled(o.opcode, values) = P!Reader(rest, field)
    BY <1>10, Zenon DEF P!Labelled
  <2> QED
    BY <1>10, <2>1, <2>2, Zenon
<1> QED
  BY <1>9, <1>11

LEMMA ItemWritten ==
    ASSUME NEW options \in BOOLEAN, NEW item \in Items(options)
    PROVE  /\ P!WriteItem(options, item) \in Bytes
           /\ Len(P!WriteItem(options, item)) > 0
           /\ options => Len(item.values) <= Len(P!WriteItem(options, item))
<1>1. CASE options
  <2>1. item \in P!Option /\ P!WriteItem(options, item) = P!WriteOption(item)
    BY <1>1 DEF Items, P!WriteItem
  <2>2. Len(item.values) \in Nat
    BY <2>1 DEF P!Option
  <2>3. P!WriteOption(item) \in Bytes /\ Len(P!WriteOption(item)) = 8 + Len(item.values)
    BY <2>1, OptionWritten
  <2> QED
    BY <2>1, <2>2, <2>3
<1>2. CASE ~options
  <2>1. item \in Nat /\ P!WriteItem(options, item) = P!WriteNumber(item, 4)
    BY <1>2 DEF Items, P!Number, P!WriteItem
  <2>2. P!WriteNumber(item, 4) \in Bytes /\ Len(P!WriteNumber(item, 4)) = 4
    BY <2>1, NumberWritten DEF Bytes
  <2> QED
    BY <1>2, <2>1, <2>2
<1> QED
  BY <1>1, <1>2

LEMMA ReadItemBack ==
    ASSUME NEW options \in BOOLEAN, NEW item \in Items(options), Sized(options, item),
           NEW rest \in Bytes, NEW x
    PROVE  P!ReadItem(options, P!Reader(P!WriteItem(options, item) \o rest, x)) = P!Reader(rest, item)
<1>1. CASE options
  <2>1. item \in P!Option /\ Len(item.values) \in P!Number(4)
    BY <1>1 DEF Items, Sized
  <2>2. P!WriteItem(options, item) = P!WriteOption(item) /\ \A r : P!ReadItem(options, r) = P!ReadOption(r)
    BY <1>1 DEF P!WriteItem, P!ReadItem
  <2>3. P!ReadOption(P!Reader(P!WriteOption(item) \o rest, x)) = P!Reader(rest, item)
    BY <2>1, ReadOptionBack
  <2> QED
    BY <2>2, <2>3
<1>2. CASE ~options
  <2>1. item \in P!Number(4)
    BY <1>2 DEF Items
  <2>2. P!WriteItem(options, item) = P!WriteNumber(item, 4) /\ \A r : P!ReadItem(options, r) = P!ReadNumber(r, 4)
    BY <1>2 DEF P!WriteItem, P!ReadItem
  <2>3. P!ReadNumber(P!Reader(P!WriteNumber(item, 4) \o rest, x), 4) = P!Reader(rest, item)
    BY <2>1, ReadNumberBack
  <2> QED
    BY <2>2, <2>3
<1> QED
  BY <1>1, <1>2

(* Joining item by item, from the front and from the back.                 *)
LEMMA FlattenSteps ==
    ASSUME NEW S, NEW s \in Seq(Seq(S)), NEW n \in 0..(Len(s) - 1)
    PROVE  /\ P!FlattenSeq(SubSeq(s, 1, n)) \in Seq(S) /\ P!FlattenSeq(SubSeq(s, n + 2, Len(s))) \in Seq(S)
           /\ P!FlattenSeq(SubSeq(s, 1, n + 1)) = P!FlattenSeq(SubSeq(s, 1, n)) \o s[n + 1]
           /\ P!FlattenSeq(SubSeq(s, n + 1, Len(s))) = s[n + 1] \o P!FlattenSeq(SubSeq(s, n + 2, Len(s)))
<1> DEFINE x == s[n + 1]
           before == SubSeq(s, 1, n)
           after == SubSeq(s, n + 2, Len(s))
<1>1. /\ n \in Nat /\ Len(s) \in Nat /\ x \in Seq(S) /\ n + 1 \in 1..Len(s)
      /\ before \in Seq(Seq(S)) /\ after \in Seq(Seq(S))
  OBVIOUS
<1>2. SubSeq(s, 1, n + 1) = before \o <<x>>
  BY <1>1, SubSeqRecursiveSecond
<1>3. SubSeq(s, n + 1, Len(s)) = <<x>> \o after
  BY <1>1, SubSeqRecursiveFirst
<1> HIDE DEF x, before, after
<1>4. before \o <<x>> = Append(before, x)
  BY <1>1, AppendIsConcat
<1>5. /\ P!FlattenSeq(before) \in Seq(S) /\ P!FlattenSeq(after) \in Seq(S)
      /\ P!FlattenSeq(Append(before, x)) = P!FlattenSeq(before) \o x
  BY <1>1, FlattenAppend
<1>6. P!FlattenSeq(<<x>> \o after) = x \o P!FlattenSeq(after)
  BY <1>1, FlattenFirst
<1> QED
  BY <1>2, <1>3, <1>4, <1>5, <1>6 DEF x, before, after

LEMMA FlattenLonger ==
    ASSUME NEW S, NEW s \in Seq(Seq(S))
    PROVE  /\ \A i \in 1..Len(s) : Len(s[i]) <= Len(P!FlattenSeq(s))
           /\ (\A i \in 1..Len(s) : Len(s[i]) > 0) => Len(s) <= Len(P!FlattenSeq(s))
<1> DEFINE N == Len(s)
           total(n) == Len(P!FlattenSeq(SubSeq(s, 1, n)))
           T == {n \in 0..N : /\ total(n) \in Nat
                              /\ \A i \in 1..n : Len(s[i]) <= total(n)
                              /\ (\A i \in 1..N : Len(s[i]) > 0) => n <= total(n)}
<1>0. N \in Nat
  OBVIOUS
<1>1. 0 \in T
  <2>1. SubSeq(s, 1, 0) = <<>>
    BY SubSeqEmpty
  <2>2. P!FlattenSeq(SubSeq(s, 1, 0)) = <<>>
    BY <2>1, FlattenEmpty, Zenon
  <2>3. total(0) = 0
    BY <2>2
  <2> HIDE DEF total
  <2> QED
    BY <1>0, <2>3
<1>2. ASSUME NEW n \in 0..(N - 1), n \in T PROVE n + 1 \in T
  <2>1. s[n + 1] \in Seq(S) /\ Len(s[n + 1]) \in Nat /\ n + 1 \in 1..N /\ n \in Nat
    BY <1>0
  <2>2. total(n + 1) = total(n) + Len(s[n + 1])
    <3>1. /\ P!FlattenSeq(SubSeq(s, 1, n)) \in Seq(S)
          /\ P!FlattenSeq(SubSeq(s, 1, n + 1)) = P!FlattenSeq(SubSeq(s, 1, n)) \o s[n + 1]
      BY FlattenSteps
    <3> QED
      BY <2>1, <3>1, ConcatProperties
  <2> HIDE DEF total
  <2>3. /\ total(n) \in Nat /\ total(n) <= total(n + 1) /\ Len(s[n + 1]) <= total(n + 1) /\ total(n + 1) \in Nat
        /\ n + 1 \in 0..N
    BY <1>2, <2>1, <2>2
  <2>4. ASSUME NEW i \in 1..(n + 1) PROVE Len(s[i]) <= total(n + 1)
    <3>1. CASE i = n + 1
      BY <2>3, <3>1
    <3>2. CASE i # n + 1
      <4>1. i \in 1..n /\ i \in 1..N
        BY <2>1, <3>2
      <4>2. Len(s[i]) <= total(n) /\ Len(s[i]) \in Nat
        BY <1>2, <4>1
      <4> QED
        BY <2>3, <4>2
    <3> QED
      BY <3>1, <3>2
  <2>5. ASSUME \A i \in 1..N : Len(s[i]) > 0 PROVE n + 1 <= total(n + 1)
    <3>1. n <= total(n) /\ Len(s[n + 1]) > 0
      BY <1>2, <2>1, <2>5
    <3> QED
      BY <2>1, <2>2, <2>3, <3>1
  <2> QED
    BY <2>3, <2>4, <2>5
<1> HIDE DEF T
<1>3. N \in T
  <2>1. N \in 0..N
    BY <1>0
  <2> QED
    BY <1>0, <1>1, <1>2, <2>1, UpTo
<1>4. SubSeq(s, 1, N) = s
  BY SubSeqFull
<1> QED
  BY <1>3, <1>4 DEF T

(* The items of a vector as they are written, one by one.                  *)
Written(options, items) == [i \in 1..Len(items) |-> P!WriteItem(options, items[i])]

LEMMA VectorWritten ==
    ASSUME NEW options \in BOOLEAN, NEW items \in Seq(Items(options))
    PROVE  /\ Written(options, items) \in Seq(Bytes) /\ Len(Written(options, items)) = Len(items)
           /\ \A i \in 1..Len(items) : Written(options, items)[i] = P!WriteItem(options, items[i])
           /\ P!FlattenSeq(Written(options, items)) \in Bytes
           /\ P!WriteVector(options, items) = P!WriteNumber(Len(items), 4) \o P!FlattenSeq(Written(options, items))
<1> DEFINE packed == Written(options, items)
<1>1. Len(items) \in Nat /\ \A i \in 1..Len(items) : items[i] \in Items(options)
  OBVIOUS
<1>2. \A i \in 1..Len(items) : P!WriteItem(options, items[i]) \in Bytes
  BY <1>1, ItemWritten
<1>3. /\ packed \in Seq(Bytes) /\ Len(packed) = Len(items)
      /\ \A i \in 1..Len(items) : packed[i] = P!WriteItem(options, items[i])
  BY <1>1, <1>2 DEF Written
<1>4. P!FlattenSeq(packed) \in Bytes
  <2> HIDE DEF packed
  <2>1. <<>> \in Seq(P!Byte)
    OBVIOUS
  <2> QED
    BY <1>3, <2>1, FlattenAppend DEF Bytes
<1> QED
  BY <1>3, <1>4 DEF P!WriteVector, Written

(* A vector is longer than each of its options, and has more bytes than    *)
(* items.                                                                  *)
LEMMA VectorLength ==
    ASSUME NEW options \in BOOLEAN, NEW items \in Seq(Items(options))
    PROVE  /\ P!WriteVector(options, items) \in Bytes
           /\ Len(items) <= Len(P!WriteVector(options, items))
           /\ options => \A i \in 1..Len(items) : Len(items[i].values) <= Len(P!WriteVector(options, items))
<1> DEFINE packed == Written(options, items)
           joined == P!FlattenSeq(packed)
           vector == P!WriteVector(options, items)
<1>1. /\ packed \in Seq(Bytes) /\ Len(packed) = Len(items)
      /\ \A i \in 1..Len(items) : packed[i] = P!WriteItem(options, items[i])
      /\ joined \in Bytes /\ vector = P!WriteNumber(Len(items), 4) \o joined
  BY VectorWritten
<1>2. Len(items) \in Nat /\ \A i \in 1..Len(items) : items[i] \in Items(options)
  OBVIOUS
<1>3. /\ \A i \in 1..Len(items) : Len(packed[i]) <= Len(joined)
      /\ (\A i \in 1..Len(items) : Len(packed[i]) > 0) => Len(items) <= Len(joined)
  <2> HIDE DEF packed
  <2> QED
    BY <1>1, FlattenLonger DEF Bytes
<1>4. vector \in Bytes /\ Len(vector) = 4 + Len(joined) /\ Len(joined) \in Nat
  <2>1. P!WriteNumber(Len(items), 4) \in Bytes /\ Len(P!WriteNumber(Len(items), 4)) = 4
    BY <1>2, NumberWritten DEF Bytes
  <2> HIDE DEF vector, joined
  <2> QED
    BY <1>1, <2>1, JoinedBytes
<1>5. ASSUME NEW i \in 1..Len(items)
      PROVE  /\ Len(packed[i]) > 0 /\ Len(packed[i]) \in Nat
             /\ options => Len(items[i].values) <= Len(packed[i]) /\ Len(items[i].values) \in Nat
  <2> HIDE DEF packed
  <2>1. packed[i] \in Bytes /\ Len(packed[i]) \in Nat
    BY <1>1 DEF Bytes
  <2>2. items[i] \in Items(options) /\ packed[i] = P!WriteItem(options, items[i])
    BY <1>1
  <2>3. options => Len(items[i].values) \in Nat
    BY <2>2 DEF Items, P!Option
  <2> QED
    BY <2>1, <2>2, <2>3, ItemWritten
<1> HIDE DEF packed, joined, vector
<1>6. Len(items) <= Len(vector)
  BY <1>2, <1>3, <1>4, <1>5
<1>7. ASSUME options, NEW i \in 1..Len(items) PROVE Len(items[i].values) <= Len(vector)
  <2>1. Len(items[i].values) <= Len(packed[i]) /\ Len(items[i].values) \in Nat /\ Len(packed[i]) \in Nat
    BY <1>5, <1>7
  <2>2. Len(packed[i]) <= Len(joined)
    BY <1>3
  <2> QED
    BY <1>4, <2>1, <2>2
<1> QED
  BY <1>4, <1>6, <1>7 DEF vector

(* Reading the items of a vector: the function of ReadItems is the one     *)
(* that has read so many items and has the others before it.               *)
LEMMA ReadItemsBack ==
    ASSUME NEW options \in BOOLEAN, NEW items \in Seq(Items(options)),
           \A i \in 1..Len(items) : Sized(options, items[i]), NEW rest \in Bytes
    PROVE  P!ReadItems(options, P!Reader(P!FlattenSeq(Written(options, items)) \o rest, Len(items)))
             = P!Reader(rest, items)
<1> DEFINE N == Len(items)
           packed == Written(options, items)
           left(n) == P!FlattenSeq(SubSeq(packed, n + 1, N)) \o rest
           done(n) == SubSeq(items, 1, n)
           state(n) == P!Reader(left(n), done(n))
           data == P!FlattenSeq(packed) \o rest
           Step(before) == P!AddItem(before.value, P!ReadItem(options, before))
           Equation(f) == f = [n \in 0..N |-> IF n = 0 THEN P!Reader(data, <<>>) ELSE Step(f[n - 1])]
<1>0. /\ N \in Nat /\ packed \in Seq(Bytes) /\ Len(packed) = N
      /\ \A i \in 1..N : packed[i] = P!WriteItem(options, items[i]) /\ items[i] \in Items(options)
  <2>1. N \in Nat /\ \A i \in 1..N : items[i] \in Items(options)
    OBVIOUS
  <2> QED
    BY <2>1, VectorWritten
<1>1. state(0) = P!Reader(data, <<>>)
  <2>1. done(0) = <<>>
    BY SubSeqEmpty
  <2>2. SubSeq(packed, 0 + 1, N) = packed
    <3> HIDE DEF packed
    <3> QED
      BY <1>0, SubSeqFull
  <2>3. left(0) = data
    BY <2>2
  <2> HIDE DEF left, done, data
  <2> QED
    BY <2>1, <2>3
<1>2. ASSUME NEW n \in 0..(N - 1)
      PROVE  Step(state(n)) = state(n + 1)
  <2> DEFINE after == P!FlattenSeq(SubSeq(packed, n + 2, N))
  <2>1. n \in Nat /\ n + 1 \in 1..N
    BY <1>0
  <2>2. /\ after \in Bytes
        /\ P!FlattenSeq(SubSeq(packed, n + 1, N)) = packed[n + 1] \o after
    <3> HIDE DEF packed
    <3> QED
      BY <1>0, FlattenSteps DEF Bytes
  <2>3. left(n + 1) = after \o rest
    <3>1. (n + 1) + 1 = n + 2
      BY <2>1
    <3> QED
      BY <3>1
  <2>4. packed[n + 1] \in Bytes /\ items[n + 1] \in Items(options) /\ Sized(options, items[n + 1])
    <3> HIDE DEF packed
    <3> QED
      BY <1>0, <2>1
  <2>5. left(n) = P!WriteItem(options, items[n + 1]) \o left(n + 1)
    <3>1. left(n) = (packed[n + 1] \o after) \o rest
      BY <2>2
    <3> HIDE DEF left, after, packed
    <3>2. (packed[n + 1] \o after) \o rest = packed[n + 1] \o (after \o rest)
      BY <2>2, <2>4, RegroupedBytes
    <3> QED
      BY <1>0, <2>1, <2>3, <3>1, <3>2
  <2>6. left(n + 1) \in Bytes
    <3> HIDE DEF left, after
    <3> QED
      BY <2>2, <2>3, JoinedBytes
  <2>7. done(n + 1) = Append(done(n), items[n + 1])
    <3>1. done(n + 1) = done(n) \o <<items[n + 1]>> /\ done(n) \in Seq(Items(options))
      BY <2>1, <2>4, SubSeqRecursiveSecond
    <3> HIDE DEF done
    <3> QED
      BY <2>4, <3>1, AppendIsConcat
  <2> HIDE DEF left, done
  <2>8. P!ReadItem(options, P!Reader(left(n), done(n))) = P!Reader(left(n + 1), items[n + 1])
    BY <2>4, <2>5, <2>6, ReadItemBack
  <2> DEFINE before == P!Reader(left(n), done(n))
             item == P!Reader(left(n + 1), items[n + 1])
  <2>9. before.value = done(n) /\ item.ok = TRUE /\ item.rest = left(n + 1) /\ item.value = items[n + 1]
    <3> DEFINE x == left(n)
               y == done(n)
               z == left(n + 1)
               v == items[n + 1]
    <3>1. before = P!Reader(x, y) /\ item = P!Reader(z, v)
      OBVIOUS
    <3> HIDE DEF x, y, z, v, before, item
    <3>2. P!Reader(x, y).value = y /\ P!Reader(z, v).ok = TRUE
      BY ReaderFields, Zenon
    <3>3. P!Reader(z, v).rest = z /\ P!Reader(z, v).value = v
      BY ReaderFields, Zenon
    <3>4. before.value = y /\ item.ok = TRUE /\ item.rest = z /\ item.value = v
      BY <3>1, <3>2, <3>3, Zenon
    <3> QED
      BY <3>4 DEF x, y, z, v
  <2> HIDE DEF before, item
  <2>10. P!AddItem(before.value, item) = P!Reader(left(n + 1), done(n + 1))
    BY <2>7, <2>9 DEF P!AddItem
  <2> QED
    BY <2>8, <2>10 DEF before, item
<1> DEFINE states == [n \in 0..N |-> state(n)]
<1> HIDE DEF state, data, Step, packed, left, done
<1>3. Equation(states)
  <2>1. ASSUME NEW n \in 0..N
        PROVE  states[n] = IF n = 0 THEN P!Reader(data, <<>>) ELSE Step(states[n - 1])
    <3>1. CASE n = 0
      BY <1>1, <3>1
    <3>2. CASE n # 0
      <4>1. n - 1 \in 0..(N - 1) /\ (n - 1) + 1 = n /\ n - 1 \in 0..N
        BY <1>0, <3>2
      <4>2. states[n - 1] = state(n - 1) /\ states[n] = state(n)
        BY <4>1
      <4>3. Step(state(n - 1)) = state(n)
        BY <1>2, <4>1
      <4> QED
        BY <3>2, <4>2, <4>3
    <3> QED
      BY <3>1, <3>2
  <2> QED
    BY <2>1
<1> DEFINE chosen == CHOOSE f : Equation(f)
<1>4. Equation(chosen)
  BY <1>3
<1> HIDE DEF chosen
<1>5. \A n \in 0..N : chosen[n] = state(n)
  <2> DEFINE T == {n \in 0..N : chosen[n] = state(n)}
  <2>1. 0 \in T
    <3>1. 0 \in 0..N
      BY <1>0
    <3> QED
      BY <1>1, <1>4, <3>1
  <2>2. ASSUME NEW n \in 0..(N - 1), n \in T PROVE n + 1 \in T
    <3>1. n + 1 \in 0..N /\ n + 1 # 0 /\ (n + 1) - 1 = n
      BY <1>0
    <3>2. chosen[n + 1] = Step(chosen[n])
      BY <1>4, <3>1
    <3> QED
      BY <1>2, <2>2, <3>1, <3>2
  <2> HIDE DEF T
  <2>3. \A n \in 0..N : n \in T
    BY <1>0, <2>1, <2>2, UpTo
  <2> QED
    BY <2>3 DEF T
<1>6. state(N) = P!Reader(rest, items)
  <2>1. done(N) = items
    BY SubSeqFull DEF done
  <2>2. SubSeq(packed, N + 1, N) = <<>>
    BY <1>0, SubSeqEmpty
  <2>3. left(N) = rest
    <3>1. <<>> \o rest = rest
      BY ConcatEmptySeq DEF Bytes
    <3> QED
      BY <2>2, <3>1, FlattenEmpty DEF left
  <2> QED
    BY <2>1, <2>3 DEF state
<1> DEFINE count == P!Reader(data, N)
<1>7. count.ok = TRUE /\ count.rest = data /\ count.value = N
  BY ReaderFields, Zenon
<1> HIDE DEF count
<1>8. P!ReadItems(options, count) = chosen[N]
  BY <1>7 DEF P!ReadItems, chosen, Step
<1> QED
  BY <1>0, <1>5, <1>6, <1>8 DEF count, data, packed

LEMMA ReadVectorBack ==
    ASSUME NEW options \in BOOLEAN, NEW items \in Seq(Items(options)), Len(items) \in P!Number(4),
           \A i \in 1..Len(items) : Sized(options, items[i]), NEW rest \in Bytes, NEW x
    PROVE  P!ReadVector(options, P!Reader(P!WriteVector(options, items) \o rest, x)) = P!Reader(rest, items)
<1> DEFINE number == P!WriteNumber(Len(items), 4)
           joined == P!FlattenSeq(Written(options, items))
<1>1. joined \in Bytes /\ P!WriteVector(options, items) = number \o joined
  BY VectorWritten
<1>2. number \in Bytes
  BY NumberWritten DEF Bytes, P!Number
<1>3. P!ReadItems(options, P!Reader(joined \o rest, Len(items))) = P!Reader(rest, items)
  BY ReadItemsBack
<1> HIDE DEF joined
<1>4. joined \o rest \in Bytes
  BY <1>1, JoinedBytes
<1>5. P!ReadNumber(P!Reader(number \o (joined \o rest), x), 4) = P!Reader(joined \o rest, Len(items))
  BY <1>4, ReadNumberBack
<1> HIDE DEF number
<1>6. (number \o joined) \o rest = number \o (joined \o rest)
  BY <1>1, <1>2, RegroupedBytes
<1> QED
  BY <1>1, <1>3, <1>5, <1>6 DEF P!ReadVector

LEMMA FirstZeroIs ==
    ASSUME NEW data \in Bytes, P!Zeros(data) # {}
    PROVE  /\ P!FirstZero(data) \in P!Zeros(data)
           /\ \A j \in P!Zeros(data) : P!FirstZero(data) <= j
<1>1. P!Zeros(data) \subseteq Nat
  BY DEF P!Zeros, Bytes
<1>2. \E i \in P!Zeros(data) : \A j \in P!Zeros(data) : i <= j
  BY <1>1, LeastNat
<1> QED
  BY <1>2 DEF P!FirstZero

(* A text is read up to its first 0, or as a whole.                        *)
ReadUpTo(text) == IF P!Zeros(text) # {} THEN SubSeq(text, 1, P!FirstZero(text) - 1) ELSE text

LEMMA ReadTextBack ==
    ASSUME NEW text \in Bytes, NEW x
    PROVE  LET r == P!ReadText(P!Reader(P!WriteText(text), x))
           IN  r.ok = TRUE /\ r.value = ReadUpTo(text)
<1> DEFINE data == P!WriteText(text)
           N == Len(text)
           r == P!Reader(data, x)
<1>1. /\ N \in Nat /\ data \in Bytes /\ Len(data) = N + 1 /\ data[N + 1] = 0
      /\ \A i \in 1..N : data[i] = text[i]
  <2>1. <<0>> \in Bytes
    BY DEF Bytes, P!Byte
  <2> QED
    BY <2>1 DEF Bytes, P!WriteText
<1> HIDE DEF data
<1>2. P!Zeros(data) = P!Zeros(text) \cup {N + 1} /\ P!Zeros(text) \subseteq 1..N
  BY <1>1 DEF P!Zeros
<1>3. P!Zeros(data) # {} /\ P!Zeros(data) \subseteq Nat
  BY <1>1, <1>2
<1>4. /\ P!FirstZero(data) \in P!Zeros(data)
      /\ \A j \in P!Zeros(data) : P!FirstZero(data) <= j
  BY <1>1, <1>3, FirstZeroIs
<1>5. SubSeq(data, 1, P!FirstZero(data) - 1) = ReadUpTo(text)
  <2>1. CASE P!Zeros(text) # {}
    <3>1. /\ P!FirstZero(text) \in P!Zeros(text)
          /\ \A j \in P!Zeros(text) : P!FirstZero(text) <= j
      BY <2>1, FirstZeroIs
    <3>2. P!FirstZero(data) = P!FirstZero(text) /\ P!FirstZero(text) \in 1..N
      BY <1>1, <1>2, <1>4, <3>1
    <3> DEFINE k == P!FirstZero(text)
    <3> HIDE DEF k
    <3>3. k \in 1..N /\ P!FirstZero(data) = k
      BY <3>2 DEF k
    <3>4. SubSeq(data, 1, k - 1) = SubSeq(text, 1, k - 1)
      BY <1>1, <3>3 DEF Bytes
    <3> QED
      BY <2>1, <3>3, <3>4 DEF ReadUpTo, k
  <2>2. CASE P!Zeros(text) = {}
    <3>1. P!FirstZero(data) = N + 1
      BY <1>2, <1>4, <2>2
    <3>2. SubSeq(data, 1, (N + 1) - 1) = text
      BY <1>1 DEF Bytes
    <3> QED
      BY <2>2, <3>1, <3>2 DEF ReadUpTo
  <2> QED
    BY <2>1, <2>2
<1>6. r.ok = TRUE /\ r.rest = data
  BY ReaderFields
<1> HIDE DEF r
<1> DEFINE rest == P!From(data, P!FirstZero(data) + 1)
<1> HIDE DEF rest
<1>7. P!ReadText(r) = P!Reader(rest, ReadUpTo(text))
  BY <1>3, <1>5, <1>6 DEF P!ReadText, rest
<1>8. P!Reader(rest, ReadUpTo(text)).ok = TRUE /\ P!Reader(rest, ReadUpTo(text)).value = ReadUpTo(text)
  BY ReaderFields, Zenon
<1> QED
  BY <1>7, <1>8 DEF r, data

(***************************************************************************)
(* The packet of a message.                                                *)
(***************************************************************************)

(* Overwriting what lies in the first of two parts.                        *)
LEMMA PatchFront ==
    ASSUME NEW s \in Bytes, NEW t \in Bytes, NEW with \in Bytes, NEW at \in Nat,
           at + Len(with) <= Len(s)
    PROVE  /\ P!Patch(s, at, with) \in Bytes /\ Len(P!Patch(s, at, with)) = Len(s)
           /\ \A i \in 1..Len(with) : P!Patch(s, at, with)[at + i] = with[i]
           /\ P!Patch(s \o t, at, with) = P!Patch(s, at, with) \o t
<1>0. /\ Len(s) \in Nat /\ Len(t) \in Nat /\ Len(with) \in Nat
      /\ s \o t \in Bytes /\ Len(s \o t) = Len(s) + Len(t)
  BY JoinedBytes
<1> DEFINE p == P!Patch(s, at, with)
           w == P!Patch(s \o t, at, with)
<1>1. ASSUME NEW u \in Bytes
      PROVE  /\ P!Patch(u, at, with) \in Bytes /\ Len(P!Patch(u, at, with)) = Len(u)
             /\ \A i \in 1..Len(u) : P!Patch(u, at, with)[i] = IF i - at \in 1..Len(with) THEN with[i - at] ELSE u[i]
  <2>1. \A i \in 1..Len(u) : (IF i - at \in 1..Len(with) THEN with[i - at] ELSE u[i]) \in P!Byte
    BY DEF Bytes
  <2>2. Len(u) \in Nat
    BY DEF Bytes
  <2> QED
    BY <2>1, <2>2 DEF P!Patch, Bytes
<1>2. /\ p \in Bytes /\ Len(p) = Len(s)
      /\ \A i \in 1..Len(s) : p[i] = IF i - at \in 1..Len(with) THEN with[i - at] ELSE s[i]
  BY <1>1
<1>3. /\ w \in Bytes /\ Len(w) = Len(s) + Len(t)
      /\ \A i \in 1..(Len(s) + Len(t)) : w[i] = IF i - at \in 1..Len(with) THEN with[i - at] ELSE (s \o t)[i]
  BY <1>0, <1>1
<1> HIDE DEF p, w
<1>4. ASSUME NEW i \in 1..Len(with) PROVE p[at + i] = with[i]
  <2>1. at + i \in 1..Len(s) /\ (at + i) - at = i
    BY <1>0
  <2>2. p[at + i] = IF (at + i) - at \in 1..Len(with) THEN with[(at + i) - at] ELSE s[at + i]
    BY <1>2, <2>1
  <2> QED
    BY <2>1, <2>2
<1>5. ASSUME NEW i \in 1..(Len(s) + Len(t)) PROVE w[i] = (p \o t)[i]
  <2>1. (s \o t)[i] = (IF i <= Len(s) THEN s[i] ELSE t[i - Len(s)])
    BY DEF Bytes
  <2>2. (p \o t)[i] = (IF i <= Len(s) THEN p[i] ELSE t[i - Len(s)])
    BY <1>2 DEF Bytes
  <2>3. CASE i <= Len(s)
    <3>1. i \in 1..Len(s)
      BY <1>0, <2>3
    <3> QED
      BY <1>2, <1>3, <2>1, <2>2, <2>3, <3>1
  <2>4. CASE ~(i <= Len(s))
    <3>1. i - at \notin 1..Len(with)
      BY <1>0, <2>4
    <3> QED
      BY <1>3, <2>1, <2>2, <2>4, <3>1
  <2> QED
    BY <2>3, <2>4
<1>6. p \o t \in Bytes /\ Len(p \o t) = Len(s) + Len(t)
  <2>1. p \o t \in Bytes /\ Len(p \o t) = Len(p) + Len(t)
    BY <1>2, JoinedBytes, Zenon
  <2>2. Len(p) = Len(s)
    BY <1>2
  <2> QED
    BY <2>1, <2>2, Zenon
<1>7. w = p \o t
  BY <1>3, <1>5, <1>6, SeqEqual DEF Bytes
<1> QED
  BY <1>2, <1>4, <1>7 DEF p, w

(* A name for joining keeps the provers from looking into it.              *)
Joined(s, t) == s \o t

LEMMA RegroupedJoins ==
    ASSUME NEW s \in Bytes, NEW n \in Bytes, NEW y \in Bytes, NEW z \in Bytes, NEW v \in Bytes
    PROVE  /\ Joined(Joined(Joined(Joined(s, n), y), z), v) = Joined(s, Joined(n, Joined(Joined(y, z), v)))
           /\ Joined(Joined(s, Joined(n, Joined(y, v))), z) = Joined(s, Joined(n, Joined(y, Joined(v, z))))
<1>1. \A a, c \in Bytes : Joined(a, c) \in Bytes
  BY JoinedBytes DEF Joined
<1>2. \A a, c, d \in Bytes : Joined(Joined(a, c), d) = Joined(a, Joined(c, d))
  BY RegroupedBytes DEF Joined
<1>3. Joined(s, n) \in Bytes /\ Joined(y, z) \in Bytes /\ Joined(y, v) \in Bytes
  BY <1>1
<1>4. Joined(Joined(y, z), v) \in Bytes /\ Joined(n, Joined(y, v)) \in Bytes
  BY <1>1, <1>3
<1>5. Joined(Joined(Joined(s, n), y), z) = Joined(Joined(s, n), Joined(y, z))
  BY <1>2, <1>3
<1>6. Joined(Joined(Joined(s, n), Joined(y, z)), v) = Joined(Joined(s, n), Joined(Joined(y, z), v))
  BY <1>2, <1>3
<1>7. Joined(Joined(s, n), Joined(Joined(y, z), v)) = Joined(s, Joined(n, Joined(Joined(y, z), v)))
  BY <1>2, <1>4
<1>8. Joined(Joined(s, Joined(n, Joined(y, v))), z) = Joined(s, Joined(Joined(n, Joined(y, v)), z))
  BY <1>2, <1>4
<1>9. Joined(Joined(n, Joined(y, v)), z) = Joined(n, Joined(Joined(y, v), z))
  BY <1>2, <1>3
<1>10. Joined(Joined(y, v), z) = Joined(y, Joined(v, z))
  BY <1>2
<1>11. Joined(Joined(Joined(Joined(s, n), y), z), v) = Joined(s, Joined(n, Joined(Joined(y, z), v)))
  BY <1>5, <1>6, <1>7
<1>12. Joined(Joined(s, Joined(n, Joined(y, v))), z) = Joined(s, Joined(n, Joined(y, Joined(v, z))))
  BY <1>8, <1>9, <1>10
<1> QED
  BY <1>11, <1>12

(***************************************************************************)
(* A packet: the bytes of the header up to the opcode, in which the        *)
(* lengths lie, the opcode, the sessions, the options and the data.        *)
(***************************************************************************)
LEMMA MessageFields ==
    ASSUME NEW m \in Messages
    PROVE  /\ m.opcode \in {1, 2} /\ m.opcode \in P!Number(4)
           /\ m.options \in Seq(Items(TRUE))
           /\ m.opcode = 1 => m.data \in Bytes
           /\ m.opcode = 2 => m.data \in Seq(Items(FALSE))
           /\ m = [opcode |-> m.opcode, options |-> m.options, data |-> m.data]
<1>1. m \in [opcode : {1}, options : Seq(P!Option), data : Seq(P!Byte)]
              \cup [opcode : {2}, options : Seq(P!Option), data : Seq(P!Number(4))]
  BY BuffersAssumption DEF P!PacketsAssumption
<1>2. 1 \in P!Number(4) /\ 2 \in P!Number(4)
  BY Places, SMT DEF P!Number, P!Byte
<1> QED
  BY <1>1, <1>2 DEF Items, Bytes

LEMMA SaveWritten ==
    ASSUME NEW m \in Messages
    PROVE  P!Save(m) \in Bytes
<1>1. CASE m.opcode = 1
  <2>0. m.data \in Bytes
    BY <1>1, MessageFields
  <2>1. m.data \in Bytes /\ <<0>> \in Bytes
    BY <2>0 DEF Bytes, P!Byte
  <2>2. m.data \o <<0>> \in Bytes
    BY <2>1, JoinedBytes
  <2> QED
    BY <1>1, <2>2 DEF P!Save, P!WriteText
<1>2. CASE m.opcode # 1
  <2>1. m.data \in Seq(Items(FALSE))
    BY <1>2, MessageFields
  <2>2. P!WriteVector(FALSE, m.data) \in Bytes
    BY <2>1, VectorLength
  <2> QED
    BY <1>2, <2>2 DEF P!Save
<1> QED
  BY <1>1, <1>2

Front == P!WriteNumber(0, 1) \o P!WriteNumber(0, 2) \o P!WriteNumber(0, 1)
            \o P!WriteNumber(0, 4) \o P!WriteNumber(0, 4)

Sessions == P!WriteNumber(0, 4) \o P!WriteNumber(0, 4)

LEMMA FrontWritten ==
    /\ Front \in Bytes /\ Len(Front) = 12
    /\ Sessions \in Bytes /\ Len(Sessions) = 8
<1> DEFINE a == P!WriteNumber(0, 1)
           c == P!WriteNumber(0, 2)
           d == P!WriteNumber(0, 4)
<1>1. a \in Bytes /\ Len(a) = 1 /\ c \in Bytes /\ Len(c) = 2 /\ d \in Bytes /\ Len(d) = 4
  BY NumberWritten DEF Bytes
<1>2. Front = (((a \o c) \o a) \o d) \o d /\ Sessions = d \o d
  BY DEF Front, Sessions
<1> HIDE DEF a, c, d
<1> DEFINE e == a \o c
           f == e \o a
           g == f \o d
<1>3. e \in Bytes /\ Len(e) = Len(a) + Len(c)
  BY <1>1, JoinedBytes, Zenon
<1>4. d \o d \in Bytes /\ Len(d \o d) = Len(d) + Len(d)
  BY <1>1, JoinedBytes, Zenon
<1> HIDE DEF e
<1>5. f \in Bytes /\ Len(f) = Len(e) + Len(a)
  BY <1>1, <1>3, JoinedBytes, Zenon
<1> HIDE DEF f
<1>6. g \in Bytes /\ Len(g) = Len(f) + Len(d)
  BY <1>1, <1>5, JoinedBytes, Zenon
<1> HIDE DEF g
<1>7. g \o d \in Bytes /\ Len(g \o d) = Len(g) + Len(d)
  BY <1>1, <1>6, JoinedBytes, Zenon
<1>8. Front = g \o d
  BY <1>2 DEF e, f, g
<1>9. Len(Front) = 12 /\ Len(Sessions) = 8
  BY <1>1, <1>2, <1>3, <1>4, <1>5, <1>6, <1>7, <1>8
<1> QED
  BY <1>2, <1>4, <1>7, <1>8, <1>9

LEMMA HeaderShape ==
    ASSUME NEW m \in Messages
    PROVE  P!WriteHeader(m) = Front \o (P!WriteNumber(m.opcode, 4) \o (Sessions \o P!WriteVector(TRUE, m.options)))
<1> DEFINE n == P!WriteNumber(m.opcode, 4)
           d == P!WriteNumber(0, 4)
           v == P!WriteVector(TRUE, m.options)
           s == Front
<1>1. n \in Bytes /\ d \in Bytes
  BY MessageFields, NumberWritten DEF Bytes, P!Number
<1>2. v \in Bytes
  BY MessageFields, VectorLength
<1>3. s \in Bytes
  BY FrontWritten
<1>4. P!WriteHeader(m) = (((s \o n) \o d) \o d) \o v /\ Sessions = d \o d
  BY DEF P!WriteHeader, Front, Sessions
<1> HIDE DEF n, d, v, s
<1>5. (((s \o n) \o d) \o d) \o v = s \o (n \o ((d \o d) \o v))
  <2>1. Joined(Joined(Joined(Joined(s, n), d), d), v) = Joined(s, Joined(n, Joined(Joined(d, d), v)))
    BY <1>1, <1>2, <1>3, RegroupedJoins
  <2> QED
    BY <2>1 DEF Joined
<1>6. P!WriteHeader(m) = s \o (n \o (Sessions \o v))
  BY <1>4, <1>5, Zenon
<1> QED
  BY <1>6 DEF n, v, s

Rest(m) == P!WriteNumber(m.opcode, 4) \o (Sessions \o (P!WriteVector(TRUE, m.options) \o P!Save(m)))

LEMMA RestWritten ==
    ASSUME NEW m \in Messages
    PROVE  /\ Rest(m) \in Bytes
           /\ Len(Rest(m)) = 12 + Len(P!WriteVector(TRUE, m.options)) + Len(P!Save(m))
           /\ Len(P!WriteVector(TRUE, m.options)) \in Nat /\ Len(P!Save(m)) \in Nat
           /\ P!WriteVector(TRUE, m.options) \in Bytes
           /\ P!WriteNumber(m.opcode, 4) \in Bytes
<1> DEFINE n == P!WriteNumber(m.opcode, 4)
           v == P!WriteVector(TRUE, m.options)
           w == P!Save(m)
<1>1. n \in Bytes /\ Len(n) = 4
  BY MessageFields, NumberWritten DEF Bytes, P!Number
<1>2. v \in Bytes /\ w \in Bytes
  BY MessageFields, VectorLength, SaveWritten
<1>3. Rest(m) = n \o (Sessions \o (v \o w))
  BY DEF Rest
<1> HIDE DEF n, v, w
<1>4. /\ v \o w \in Bytes /\ Len(v \o w) = Len(v) + Len(w)
      /\ Len(v) \in Nat /\ Len(w) \in Nat
  BY <1>2, JoinedBytes, Zenon
<1> DEFINE x == v \o w
<1> HIDE DEF x
<1>5. x \in Bytes /\ Len(x) = Len(v) + Len(w)
  BY <1>4 DEF x
<1>6. Sessions \o x \in Bytes /\ Len(Sessions \o x) = 8 + Len(x)
  BY <1>5, FrontWritten, JoinedBytes
<1> DEFINE y == Sessions \o x
<1> HIDE DEF y
<1>7. y \in Bytes /\ Len(y) = 8 + Len(x)
  BY <1>6 DEF y
<1>8. n \o y \in Bytes /\ Len(n \o y) = 4 + Len(y)
  BY <1>1, <1>7, JoinedBytes
<1>9. Rest(m) = n \o y
  BY <1>3 DEF x, y
<1>10. Rest(m) \in Bytes /\ Len(Rest(m)) = 12 + Len(v) + Len(w)
  BY <1>4, <1>5, <1>7, <1>8, <1>9
<1> QED
  BY <1>1, <1>2, <1>4, <1>10 DEF n, v, w

LEMMA PackShape ==
    ASSUME NEW m \in Messages
    PROVE  \E start \in Bytes :
              /\ Len(start) = 12 /\ P!Pack(m) = start \o Rest(m)
              /\ \A i \in 1..4 : start[4 + i] = P!WriteNumber(Len(P!Pack(m)), 4)[i]
<1> DEFINE v == P!WriteVector(TRUE, m.options)
           n == P!WriteNumber(m.opcode, 4)
           w == P!Save(m)
           t == n \o (Sessions \o v)
           head == P!WriteHeader(m)
           n2 == P!WriteNumber(Len(head), 2)
           s == P!Patch(Front, 1, n2)
           whole == P!Patch(head, 1, n2) \o w
           n4 == P!WriteNumber(Len(whole), 4)
           start == P!Patch(s, 4, n4)
<1>1. Front \in Bytes /\ Len(Front) = 12 /\ Sessions \in Bytes
  BY FrontWritten
<1>2. v \in Bytes /\ n \in Bytes /\ w \in Bytes /\ Rest(m) \in Bytes
  BY RestWritten, SaveWritten
<1>3. t \in Bytes
  <2> HIDE DEF n, v
  <2>1. Sessions \o v \in Bytes
    BY <1>1, <1>2, JoinedBytes
  <2> QED
    BY <1>2, <2>1, JoinedBytes
<1>4. head = Front \o t
  BY HeaderShape
<1>5. head \in Bytes /\ Len(head) \in Nat
  <2> HIDE DEF t, head
  <2> QED
    BY <1>1, <1>3, <1>4, JoinedBytes
<1>6. n2 \in Bytes /\ Len(n2) = 2
  BY <1>5, NumberWritten DEF Bytes
<1>7. s \in Bytes /\ Len(s) = 12 /\ P!Patch(head, 1, n2) = s \o t
  <2> HIDE DEF t, head, n2
  <2>1. 1 + Len(n2) <= Len(Front)
    BY <1>1, <1>6
  <2> DEFINE at == 1
  <2>2. at \in Nat /\ at + Len(n2) <= Len(Front)
    BY <2>1
  <2> HIDE DEF at
  <2>3. /\ P!Patch(Front, at, n2) \in Bytes /\ Len(P!Patch(Front, at, n2)) = Len(Front)
        /\ P!Patch(Front \o t, at, n2) = P!Patch(Front, at, n2) \o t
    <3>1. Front \in Bytes /\ n2 \in Bytes
      BY <1>1, <1>6
    <3> QED
      BY <1>3, <2>2, <3>1, PatchFront, Zenon
  <2> QED
    BY <1>1, <1>4, <2>3, Zenon DEF at
<1>8. whole = s \o Rest(m)
  <2>1. whole = (s \o t) \o w
    BY <1>7
  <2>2. Rest(m) = n \o (Sessions \o (v \o w))
    BY DEF Rest
  <2> HIDE DEF s, n, v, w, whole
  <2>3. (s \o (n \o (Sessions \o v))) \o w = s \o (n \o (Sessions \o (v \o w)))
    <3>1. Joined(Joined(s, Joined(n, Joined(Sessions, v))), w) = Joined(s, Joined(n, Joined(Sessions, Joined(v, w))))
      BY <1>1, <1>2, <1>7, RegroupedJoins
    <3> QED
      BY <3>1 DEF Joined
  <2> QED
    BY <2>1, <2>2, <2>3, Zenon
<1>9. Len(whole) \in Nat
  <2> HIDE DEF s, whole
  <2> QED
    BY <1>2, <1>7, <1>8, JoinedBytes
<1>10. n4 \in Bytes /\ Len(n4) = 4
  BY <1>9, NumberWritten DEF Bytes
<1>11. P!Pack(m) = P!Patch(whole, 4, n4)
  BY DEF P!Pack
<1> HIDE DEF s, n4, whole
<1>12. /\ start \in Bytes /\ Len(start) = 12
       /\ \A i \in 1..4 : start[4 + i] = n4[i]
       /\ P!Patch(whole, 4, n4) = start \o Rest(m)
  <2>1. 4 + Len(n4) <= Len(s)
    BY <1>7, <1>10
  <2> DEFINE at == 4
  <2>2. at \in Nat /\ at + Len(n4) <= Len(s)
    BY <2>1
  <2> HIDE DEF at
  <2>3. /\ P!Patch(s, at, n4) \in Bytes /\ Len(P!Patch(s, at, n4)) = Len(s)
        /\ \A i \in 1..Len(n4) : P!Patch(s, at, n4)[at + i] = n4[i]
        /\ P!Patch(s \o Rest(m), at, n4) = P!Patch(s, at, n4) \o Rest(m)
    <3>1. s \in Bytes /\ n4 \in Bytes /\ Rest(m) \in Bytes
      BY <1>2, <1>7, <1>10
    <3> QED
      BY <2>2, <3>1, PatchFront, Zenon
  <2> QED
    BY <1>7, <1>8, <1>10, <2>3, Zenon DEF at
<1>13. Len(P!Pack(m)) = Len(whole)
  <2> HIDE DEF start
  <2>1. Len(s \o Rest(m)) = Len(s) + Len(Rest(m)) /\ Len(start \o Rest(m)) = Len(start) + Len(Rest(m))
    BY <1>2, <1>7, <1>12, JoinedBytes, Zenon
  <2> QED
    BY <1>7, <1>8, <1>11, <1>12, <2>1, Zenon
<1>14. \A i \in 1..4 : start[4 + i] = P!WriteNumber(Len(P!Pack(m)), 4)[i]
  BY <1>12, <1>13 DEF n4
<1> HIDE DEF start
<1> QED
  BY <1>11, <1>12, <1>14, Zenon

LEMMA FrontKept ==
    ASSUME NEW s \in Bytes, NEW t \in Bytes, NEW k \in 1..Len(s)
    PROVE  (s \o t)[k] = s[k]
BY DEF Bytes

LEMMA SmallerNumber ==
    ASSUME NEW n \in P!Number(4), NEW k \in Nat, k <= n
    PROVE  k \in P!Number(4)
<1>1. n \in Nat /\ n \div (256 * 256 * 256) \in 0..255
  BY Places, SMT DEF P!Number, P!Byte
<1>2. k \div (256 * 256 * 256) \in 0..255
  BY <1>1, SMT
<1> QED
  BY <1>2, Places, SMT DEF P!Number, P!Byte

LEMMA PackWritten ==
    ASSUME NEW m \in Messages
    PROVE  /\ P!Pack(m) \in Bytes /\ Len(P!Pack(m)) \in Nat
           /\ Len(P!Pack(m)) = 24 + Len(P!WriteVector(TRUE, m.options)) + Len(P!Save(m))
<1>1. PICK start \in Bytes : Len(start) = 12 /\ P!Pack(m) = start \o Rest(m)
  BY PackShape, Zenon
<1>2. Rest(m) \in Bytes
  BY RestWritten
<1>3. start \o Rest(m) \in Bytes /\ Len(start \o Rest(m)) = Len(start) + Len(Rest(m))
  BY <1>2, JoinedBytes, Zenon
<1>4. P!Pack(m) \in Bytes /\ Len(P!Pack(m)) = Len(start) + Len(Rest(m))
  BY <1>1, <1>3, Zenon
<1>5. Len(start) = 12
  BY <1>1
<1> DEFINE v == Len(P!WriteVector(TRUE, m.options))
           w == Len(P!Save(m))
           x == Len(Rest(m))
<1>6. v \in Nat /\ w \in Nat /\ x = 12 + v + w
  BY RestWritten
<1> HIDE DEF v, w, x
<1>7. 12 + x \in Nat /\ 12 + x = 24 + v + w
  BY <1>6
<1> QED
  BY <1>4, <1>5, <1>7 DEF v, w, x

(* The length is read from the header as soon as that is there.            *)
LEMMA LengthReadBack ==
    ASSUME NEW m \in Messages, Len(P!Pack(m)) \in P!Number(4), NEW data,
           \A i \in 1..4 : data[4 + i] = P!Pack(m)[4 + i]
    PROVE  P!NumberAt(data, 4, 4) = Len(P!Pack(m))
<1>1. PICK start \in Bytes : /\ Len(start) = 12 /\ P!Pack(m) = start \o Rest(m)
                             /\ \A i \in 1..4 : start[4 + i] = P!WriteNumber(Len(P!Pack(m)), 4)[i]
  BY PackShape, Zenon
<1>2. ASSUME NEW i \in 1..4 PROVE data[4 + i] = (Len(P!Pack(m)) \div P!Place[i]) % 256
  <2> DEFINE rest == Rest(m)
  <2>1. rest \in Bytes /\ Len(start) = 12
    BY <1>1, RestWritten
  <2> HIDE DEF rest
  <2>2. (start \o rest)[4 + i] = start[4 + i]
    <3>1. 4 + i \in 1..Len(start)
      BY <2>1
    <3> QED
      BY <2>1, <3>1, FrontKept
  <2>3. P!WriteNumber(Len(P!Pack(m)), 4)[i] = (Len(P!Pack(m)) \div P!Place[i]) % 256
    BY DEF P!WriteNumber
  <2> QED
    BY <1>1, <2>2, <2>3 DEF rest
<1> DEFINE v == Len(P!Pack(m))
           at == 4
<1>3. at \in Nat /\ v \in P!Number(4) /\ 4 \in {2, 4}
  OBVIOUS
<1>4. \A i \in 1..4 : data[at + i] = (v \div P!Place[i]) % 256
  BY <1>2
<1> HIDE DEF v, at
<1>5. P!NumberAt(data, at, 4) = v
  BY <1>3, <1>4, NumberReadBack
<1> QED
  BY <1>5 DEF v, at

LEMMA SkipBack ==
    ASSUME NEW s \in Bytes, NEW rest \in Bytes, NEW x
    PROVE  P!Skip(P!Reader(s \o rest, x), Len(s)) = P!Reader(rest, x)
<1>1. /\ Len(s \o rest) = Len(s) + Len(rest) /\ Len(s) \in Nat /\ Len(rest) \in Nat
      /\ P!From(s \o rest, Len(s) + 1) = rest
  BY TakenOff, JoinedBytes DEF Bytes
<1> DEFINE r == P!Reader(s \o rest, x)
<1>2. r.ok = TRUE /\ r.rest = s \o rest /\ r.value = x
  BY ReaderFields
<1>3. ~(Len(s \o rest) < Len(s))
  BY <1>1
<1> HIDE DEF r
<1>4. P!Skip(r, Len(s)) = P!Reader(rest, x)
  BY <1>1, <1>2, <1>3 DEF P!Skip
<1> QED
  BY <1>4 DEF r

(* The data of a message, at the end of its packet.                        *)
LEMMA LoadBack ==
    ASSUME NEW m \in Messages, Len(P!Save(m)) \in P!Number(4), NEW x
    PROVE  LET payload == P!Load(m.opcode, P!Reader(P!Save(m), x))
           IN  /\ payload.ok = TRUE
               /\ [opcode |-> m.opcode, options |-> m.options, data |-> payload.value] = P!UpToZero(m)
<1> DEFINE payload == P!Load(m.opcode, P!Reader(P!Save(m), x))
<1>0. /\ m.opcode \in {1, 2}
      /\ m = [opcode |-> m.opcode, options |-> m.options, data |-> m.data]
  BY MessageFields
<1>1. CASE m.opcode = 1
  <2> DEFINE r == P!ReadText(P!Reader(P!WriteText(m.data), x))
  <2>1. m.data \in Bytes
    BY <1>1, MessageFields
  <2>2. r.ok = TRUE /\ r.value = ReadUpTo(m.data)
    BY <2>1, ReadTextBack
  <2>3. payload = r
    BY <1>1 DEF P!Load, P!Save
  <2> HIDE DEF r, payload
  <2>4. [opcode |-> m.opcode, options |-> m.options, data |-> ReadUpTo(m.data)] = P!UpToZero(m)
    BY <1>0, <1>1, Zenon DEF ReadUpTo, P!UpToZero
  <2>5. payload.ok = TRUE /\ payload.value = ReadUpTo(m.data)
    BY <2>2, <2>3, Zenon
  <2> QED
    BY <2>4, <2>5, Zenon DEF payload
<1>2. CASE m.opcode = 2
  <2> DEFINE w == P!WriteVector(FALSE, m.data)
  <2>0. m.data \in Seq(Items(FALSE))
    BY <1>2, MessageFields
  <2>1. m.data \in Seq(Items(FALSE)) /\ Len(m.data) \in Nat
    BY <2>0, LenProperties, Zenon
  <2>2. w \in Bytes /\ Len(m.data) <= Len(w)
    BY <2>1, VectorLength
  <2>3. P!Save(m) = w
    BY <1>2 DEF P!Save
  <2>4. Len(m.data) \in P!Number(4)
    <3> HIDE DEF w
    <3> QED
      BY <2>1, <2>2, <2>3, SmallerNumber
  <2>5. <<>> \in Bytes
    BY DEF Bytes
  <2>6. \A i \in 1..Len(m.data) : Sized(FALSE, m.data[i])
    BY DEF Sized
  <2>7. P!ReadVector(FALSE, P!Reader(w \o <<>>, x)) = P!Reader(<<>>, m.data)
    BY <2>1, <2>4, <2>5, <2>6, ReadVectorBack
  <2>8. w \o <<>> = w
    <3> HIDE DEF w
    <3> QED
      BY <2>2 DEF Bytes
  <2>9. payload = P!Reader(<<>>, m.data)
    <3>1. payload = P!ReadVector(FALSE, P!Reader(P!Save(m), x))
      BY <1>2 DEF P!Load
    <3> HIDE DEF w, payload
    <3> QED
      BY <2>3, <2>7, <2>8, <3>1, Zenon
  <2> HIDE DEF payload
  <2>10. payload.ok = TRUE /\ payload.value = m.data
    BY <2>9, ReaderFields, Zenon
  <2>11. P!UpToZero(m) = m
    BY <1>2 DEF P!UpToZero
  <2> QED
    BY <1>0, <2>10, <2>11, Zenon DEF payload
<1> QED
  BY <1>0, <1>1, <1>2

(* protocol_binary_t::unpack() gives what pack() was given, whatever the   *)
(* opcode, options and data, if only the length fits its 32 bits; but a    *)
(* text ends where a 0 is in it.                                           *)
THEOREM UnpackBack ==
    ASSUME NEW m \in Messages, Len(P!Pack(m)) \in P!Number(4)
    PROVE  P!Unpack(P!Pack(m)) = [ok |-> TRUE, message |-> P!UpToZero(m)]
<1> DEFINE v == P!WriteVector(TRUE, m.options)
           n == P!WriteNumber(m.opcode, 4)
           w == P!Save(m)
           data == P!Pack(m)
<1>1. PICK start \in Bytes : Len(start) = 12 /\ data = start \o Rest(m)
  BY PackShape, Zenon
<1>2. /\ Rest(m) \in Bytes /\ v \in Bytes /\ n \in Bytes /\ w \in Bytes /\ Sessions \in Bytes
      /\ Len(Sessions) = 8 /\ Rest(m) = n \o (Sessions \o (v \o w))
  BY RestWritten, SaveWritten, FrontWritten DEF Rest
<1>3. /\ Len(w) \in P!Number(4) /\ Len(v) \in P!Number(4)
  <2>1. /\ Len(w) \in Nat /\ Len(v) \in Nat
        /\ Len(data) = 24 + Len(v) + Len(w)
    BY RestWritten, PackWritten
  <2> HIDE DEF v, w, data
  <2>2. Len(w) <= Len(data) /\ Len(v) <= Len(data)
    BY <2>1
  <2>3. Len(data) \in P!Number(4)
    BY DEF data
  <2> QED
    BY <2>1, <2>2, <2>3, SmallerNumber
<1>4. /\ v \o w \in Bytes /\ Sessions \o (v \o w) \in Bytes
  <2> HIDE DEF v, w
  <2>1. v \o w \in Bytes
    BY <1>2, JoinedBytes, Zenon
  <2> QED
    BY <1>2, <2>1, JoinedBytes, Zenon
<1>5. P!Skip(P!Reader(data, 0), 12) = P!Reader(Rest(m), 0)
  <2> HIDE DEF data
  <2>1. Rest(m) \in Bytes
    BY <1>2
  <2>2. P!Skip(P!Reader(start \o Rest(m), 0), Len(start)) = P!Reader(Rest(m), 0)
    BY <2>1, SkipBack, Zenon
  <2> QED
    BY <1>1, <2>2, Zenon
<1>6. P!ReadNumber(P!Reader(Rest(m), 0), 4) = P!Reader(Sessions \o (v \o w), m.opcode)
  <2> DEFINE t == Sessions \o (v \o w)
  <2>1. t \in Bytes /\ Rest(m) = n \o t /\ m.opcode \in P!Number(4) /\ 4 \in {2, 4}
    BY <1>2, <1>4, MessageFields
  <2> HIDE DEF t
  <2>2. P!ReadNumber(P!Reader(n \o t, 0), 4) = P!Reader(t, m.opcode)
    BY <2>1, ReadNumberBack
  <2> HIDE DEF n
  <2> QED
    BY <2>1, <2>2, Zenon DEF t
<1>7. P!Skip(P!Reader(Sessions \o (v \o w), m.opcode), 8) = P!Reader(v \o w, m.opcode)
  <2> HIDE DEF v, w
  <2>1. Sessions \in Bytes /\ Len(Sessions) = 8
    BY <1>2
  <2>2. P!Skip(P!Reader(Sessions \o (v \o w), m.opcode), Len(Sessions)) = P!Reader(v \o w, m.opcode)
    BY <1>4, <2>1, SkipBack, Zenon
  <2> QED
    BY <2>1, <2>2, Zenon
<1>8. P!ReadVector(TRUE, P!Reader(v \o w, m.opcode)) = P!Reader(w, m.options)
  <2>1. m.options \in Seq(Items(TRUE))
    BY MessageFields
  <2>2. /\ Len(m.options) <= Len(v) /\ \A i \in 1..Len(m.options) : Len(m.options[i].values) <= Len(v)
    BY <2>1, VectorLength
  <2>3. /\ Len(m.options) \in Nat
        /\ \A i \in 1..Len(m.options) : Len(m.options[i].values) \in Nat
    <3>1. \A i \in 1..Len(m.options) : m.options[i] \in P!Option
      BY <2>1 DEF Items
    <3>2. \A i \in 1..Len(m.options) : Len(m.options[i].values) \in Nat
      BY <3>1 DEF P!Option
    <3> QED
      BY <2>1, <3>2
  <2>4. Len(m.options) \in P!Number(4)
    <3> HIDE DEF v
    <3> QED
      BY <1>3, <2>2, <2>3, SmallerNumber
  <2>5. \A i \in 1..Len(m.options) : Sized(TRUE, m.options[i])
    <3> HIDE DEF v
    <3> QED
      BY <1>3, <2>2, <2>3, SmallerNumber DEF Sized
  <2> HIDE DEF w
  <2> QED
    BY <1>2, <2>1, <2>4, <2>5, ReadVectorBack
<1> DEFINE opcode == P!ReadNumber(P!Skip(P!Reader(data, 0), 12), 4)
           options == P!ReadVector(TRUE, P!Skip(opcode, 8))
           payload == P!Load(m.opcode, P!Reader(w, m.options))
<1>9. opcode = P!Reader(Sessions \o (v \o w), m.opcode)
  BY <1>5, <1>6, Zenon
<1>10. P!Unpack(data) = P!Message(opcode.value, options.value, P!Load(opcode.value, options))
  BY DEF P!Unpack
<1>11. /\ payload.ok = TRUE
       /\ [opcode |-> m.opcode, options |-> m.options, data |-> payload.value] = P!UpToZero(m)
  BY <1>3, LoadBack
<1> HIDE DEF data, v, w, n, opcode
<1>12. options = P!Reader(w, m.options)
  BY <1>7, <1>8, <1>9, Zenon
<1> HIDE DEF options
<1>13. opcode.value = m.opcode /\ options.value = m.options
  BY <1>9, <1>12, ReaderFields, Zenon
<1>14. P!Unpack(data) = P!Message(m.opcode, m.options, payload)
  BY <1>10, <1>12, <1>13, Zenon
<1> HIDE DEF payload
<1>15. P!Message(m.opcode, m.options, payload) = [ok |-> TRUE, message |-> P!UpToZero(m)]
  BY <1>11, Zenon DEF P!Message
<1> QED
  BY <1>14, <1>15, Zenon DEF data

(***************************************************************************)
(* Messages in a row: their packets, and those of them that the logical    *)
(* thread has asked for.                                                   *)
(***************************************************************************)
PackEach(messages) == [i \in 1..Len(messages) |-> P!Pack(messages[i])]

StreamOf(messages) == P!FlattenSeq(PackEach(messages))

LEMMA StreamOfNone == StreamOf(<<>>) = <<>>
<1>1. PackEach(<<>>) = <<>>
  BY DEF PackEach
<1> QED
  BY <1>1, FlattenEmpty DEF StreamOf

LEMMA PackEachWritten ==
    ASSUME NEW messages \in Seq(Messages)
    PROVE  PackEach(messages) \in Seq(Bytes)
<1>1. Len(messages) \in Nat /\ \A i \in 1..Len(messages) : messages[i] \in Messages
  OBVIOUS
<1>2. \A i \in 1..Len(messages) : P!Pack(messages[i]) \in Bytes
  BY <1>1, PackWritten
<1> QED
  BY <1>1, <1>2 DEF PackEach

LEMMA StreamOfAppended ==
    ASSUME NEW messages \in Seq(Messages), NEW m \in Messages
    PROVE  /\ StreamOf(messages) \in Bytes
           /\ StreamOf(Append(messages, m)) = StreamOf(messages) \o P!Pack(m)
<1> DEFINE more == Append(messages, m)
           n == Len(messages)
           x == P!Pack(m)
<1>1. /\ n \in Nat /\ Len(more) = n + 1 /\ more[n + 1] = m /\ more \in Seq(Messages)
      /\ \A i \in 1..n : more[i] = messages[i]
  OBVIOUS
<1>2. PackEach(messages) \in Seq(Bytes) /\ PackEach(more) \in Seq(Bytes) /\ x \in Bytes
  BY <1>1, PackEachWritten, PackWritten
<1> HIDE DEF more
<1>3. PackEach(more) = Append(PackEach(messages), x)
  <2> DEFINE e == PackEach(messages)
             f == PackEach(more)
  <2>1. /\ Len(e) = n /\ Len(f) = n + 1 /\ f[n + 1] = x
        /\ \A i \in 1..n : f[i] = e[i]
    BY <1>1 DEF PackEach
  <2> HIDE DEF e, f, x, n
  <2>2. e \in Seq(Bytes) /\ f \in Seq(Bytes) /\ x \in Bytes /\ n \in Nat
    BY <1>1, <1>2 DEF e, f, x, n
  <2>3. Append(e, x) \in Seq(Bytes) /\ Len(Append(e, x)) = n + 1 /\ Append(e, x)[n + 1] = x
        /\ \A i \in 1..n : Append(e, x)[i] = e[i]
    BY <2>1, <2>2
  <2>4. \A i \in 1..Len(f) : f[i] = Append(e, x)[i]
    BY <2>1, <2>2, <2>3
  <2>5. f = Append(e, x)
    BY <2>1, <2>2, <2>3, <2>4, SeqEqual
  <2> QED
    BY <2>5 DEF e, f
<1> HIDE DEF x
<1>4. /\ P!FlattenSeq(PackEach(messages)) \in Bytes
      /\ P!FlattenSeq(Append(PackEach(messages), x)) = P!FlattenSeq(PackEach(messages)) \o x
  BY <1>2, FlattenAppend DEF Bytes
<1> QED
  BY <1>3, <1>4 DEF StreamOf, more, x

LEMMA StreamOfFirst ==
    ASSUME NEW messages \in Seq(Messages), messages # <<>>
    PROVE  /\ Head(messages) \in Messages /\ Tail(messages) \in Seq(Messages)
           /\ StreamOf(Tail(messages)) \in Bytes
           /\ StreamOf(messages) = P!Pack(Head(messages)) \o StreamOf(Tail(messages))
<1> DEFINE h == Head(messages)
           t == Tail(messages)
           n == Len(t)
           x == P!Pack(h)
           e == PackEach(messages)
           f == PackEach(t)
<1>1. /\ h \in Messages /\ t \in Seq(Messages) /\ n \in Nat /\ Len(messages) = n + 1
      /\ messages[1] = h /\ \A i \in 1..n : messages[i + 1] = t[i]
  OBVIOUS
<1> HIDE DEF h, t
<1>2. e \in Seq(Bytes) /\ f \in Seq(Bytes) /\ x \in Bytes
  BY <1>1, PackEachWritten, PackWritten
<1>3. /\ Len(e) = n + 1 /\ Len(f) = n /\ e[1] = x
      /\ \A i \in 1..n : e[i + 1] = f[i]
  BY <1>1 DEF PackEach
<1> HIDE DEF e, f, x, n
<1>4. e = <<x>> \o f
  <2>1. /\ <<x>> \in Seq(Bytes) /\ <<x>> \o f \in Seq(Bytes) /\ Len(<<x>> \o f) = n + 1
        /\ (<<x>> \o f)[1] = x /\ \A i \in 1..n : (<<x>> \o f)[i + 1] = f[i]
    BY <1>1, <1>2, <1>3
  <2> DEFINE g == <<x>> \o f
  <2> HIDE DEF g
  <2>2. g \in Seq(Bytes) /\ Len(g) = n + 1 /\ g[1] = x /\ \A i \in 1..n : g[i + 1] = f[i]
    BY <2>1 DEF g
  <2>3. ASSUME NEW i \in 1..Len(e) PROVE e[i] = g[i]
    <3>1. CASE i = 1
      BY <1>3, <2>2, <3>1
    <3>2. CASE i # 1
      <4>1. i - 1 \in 1..n /\ (i - 1) + 1 = i
        BY <1>1, <1>3, <3>2
      <4> QED
        BY <1>3, <2>2, <4>1
    <3> QED
      BY <3>1, <3>2
  <2>4. e = g
    BY <1>2, <1>3, <2>2, <2>3, SeqEqual
  <2> QED
    BY <2>4 DEF g
<1>5. P!FlattenSeq(<<x>> \o f) = x \o P!FlattenSeq(f)
  BY <1>2, FlattenFirst DEF Bytes
<1>6. StreamOf(messages) = x \o StreamOf(t)
  BY <1>4, <1>5 DEF StreamOf, e, f
<1>7. StreamOf(t) \in Bytes
  BY <1>1, StreamOfAppended
<1> QED
  BY <1>1, <1>6, <1>7 DEF x, h, t

LEMMA FlattenOne == \A S : \A x \in Seq(S) : P!FlattenSeq(<<x>>) = x
<1> SUFFICES ASSUME NEW S, NEW x \in Seq(S) PROVE P!FlattenSeq(<<x>>) = x
  OBVIOUS
<1>1. <<>> \in Seq(Seq(S))
  OBVIOUS
<1> QED
  BY <1>1, FlattenFirst

Kept(codes, messages) ==
    [i \in 1..Len(messages) |-> IF messages[i].opcode \in codes THEN <<messages[i]>> ELSE <<>>]

DueOf(codes, messages) == P!FlattenSeq(Kept(codes, messages))

LEMMA KeptMessages ==
    ASSUME NEW codes, NEW messages \in Seq(Messages)
    PROVE  Kept(codes, messages) \in Seq(Seq(Messages))
<1>1. Len(messages) \in Nat /\ \A i \in 1..Len(messages) : messages[i] \in Messages
  OBVIOUS
<1>2. \A i \in 1..Len(messages) : (IF messages[i].opcode \in codes THEN <<messages[i]>> ELSE <<>>) \in Seq(Messages)
  BY <1>1
<1> QED
  BY <1>1, <1>2 DEF Kept

LEMMA DueOfJoined ==
    ASSUME NEW codes, NEW done \in Seq(Messages), NEW todo \in Seq(Messages)
    PROVE  /\ DueOf(codes, done) \in Seq(Messages)
           /\ DueOf(codes, done \o todo) = DueOf(codes, done) \o DueOf(codes, todo)
<1> DEFINE all == done \o todo
           n == Len(done)
           k == Len(todo)
           e == Kept(codes, done)
           f == Kept(codes, todo)
           g == Kept(codes, all)
<1>1. /\ n \in Nat /\ k \in Nat /\ all \in Seq(Messages) /\ Len(all) = n + k
      /\ \A i \in 1..(n + k) : all[i] = IF i <= n THEN done[i] ELSE todo[i - n]
  BY ConcatProperties, LenProperties
<1> HIDE DEF all
<1>2. e \in Seq(Seq(Messages)) /\ f \in Seq(Seq(Messages)) /\ g \in Seq(Seq(Messages))
  BY <1>1, KeptMessages
<1>3. /\ Len(e) = n /\ Len(f) = k /\ Len(g) = n + k
      /\ \A i \in 1..(n + k) : g[i] = IF i <= n THEN e[i] ELSE f[i - n]
  <2>1. Len(e) = n /\ Len(f) = k /\ Len(g) = n + k
    BY <1>1 DEF Kept
  <2>2. ASSUME NEW i \in 1..(n + k) PROVE g[i] = IF i <= n THEN e[i] ELSE f[i - n]
    <3>1. CASE i <= n
      <4>1. i \in 1..n
        BY <1>1, <3>1
      <4> QED
        BY <1>1, <3>1, <4>1 DEF Kept
    <3>2. CASE ~(i <= n)
      <4>1. i - n \in 1..k
        BY <1>1, <3>2
      <4> QED
        BY <1>1, <3>2, <4>1 DEF Kept
    <3> QED
      BY <3>1, <3>2
  <2> QED
    BY <2>1, <2>2
<1> HIDE DEF e, f, g, n, k
<1>4. g = e \o f
  <2>1. /\ e \o f \in Seq(Seq(Messages)) /\ Len(e \o f) = n + k
        /\ \A i \in 1..(n + k) : (e \o f)[i] = IF i <= n THEN e[i] ELSE f[i - n]
    BY <1>2, <1>3, ConcatProperties
  <2> DEFINE h == e \o f
  <2> HIDE DEF h
  <2>2. /\ h \in Seq(Seq(Messages)) /\ Len(h) = Len(g)
        /\ \A i \in 1..Len(g) : g[i] = h[i]
    BY <1>3, <2>1 DEF h
  <2>3. g = h
    BY <1>2, <2>2, SeqEqual
  <2> QED
    BY <2>3 DEF h
<1>5. P!FlattenSeq(e \o f) = P!FlattenSeq(e) \o P!FlattenSeq(f)
  BY <1>2, FlattenConcat
<1>6. P!FlattenSeq(e) \in Seq(Messages)
  <2>1. <<>> \in Seq(Messages)
    OBVIOUS
  <2> QED
    BY <1>2, <2>1, FlattenAppend
<1> QED
  BY <1>4, <1>5, <1>6, Zenon DEF DueOf, e, f, g, all

LEMMA DueOfAppended ==
    ASSUME NEW codes, NEW done \in Seq(Messages), NEW m \in Messages
    PROVE  DueOf(codes, Append(done, m)) =
             IF m.opcode \in codes THEN Append(DueOf(codes, done), m) ELSE DueOf(codes, done)
<1> DEFINE one == <<m>>
           due == DueOf(codes, done)
           x == IF m.opcode \in codes THEN <<m>> ELSE <<>>
<1>1. one \in Seq(Messages) /\ Append(done, m) = done \o one /\ x \in Seq(Messages)
  OBVIOUS
<1>2. due \in Seq(Messages) /\ DueOf(codes, done \o one) = due \o DueOf(codes, one)
  BY <1>1, DueOfJoined
<1>3. Kept(codes, one) = <<x>>
  BY DEF Kept
<1> HIDE DEF x
<1>4. DueOf(codes, one) = x
  <2>1. P!FlattenSeq(<<x>>) = x
    BY <1>1, FlattenOne
  <2> QED
    BY <1>3, <2>1, Zenon DEF DueOf
<1> HIDE DEF due, one
<1>5. DueOf(codes, Append(done, m)) = due \o x
  BY <1>1, <1>2, <1>4
<1>6. CASE m.opcode \in codes
  <2>1. x = <<m>>
    BY <1>6 DEF x
  <2>2. due \o <<m>> = Append(due, m)
    BY <1>2
  <2> QED
    BY <1>5, <1>6, <2>1, <2>2 DEF due
<1>7. CASE m.opcode \notin codes
  <2>1. x = <<>>
    BY <1>7 DEF x
  <2>2. due \o <<>> = due
    BY <1>2
  <2> QED
    BY <1>5, <1>7, <2>1, <2>2 DEF due
<1> QED
  BY <1>6, <1>7

LEMMA BytesAt ==
    ASSUME NEW s \in Bytes, NEW t \in Bytes
    PROVE  /\ \A i \in 1..Len(s) : (s \o t)[i] = s[i]
           /\ \A i \in 1..Len(t) : (s \o t)[Len(s) + i] = t[i]
<1>1. ASSUME NEW i \in 1..Len(s) PROVE (s \o t)[i] = s[i]
  BY FrontKept
<1>2. ASSUME NEW i \in 1..Len(t) PROVE (s \o t)[Len(s) + i] = t[i]
  BY DEF Bytes
<1> QED
  BY <1>1, <1>2

LEMMA SplitSame ==
    ASSUME NEW x \in Bytes, NEW y \in Bytes, NEW p \in Bytes, NEW f \in Bytes,
           x \o y = p \o f, Len(p) <= Len(x)
    PROVE  /\ SubSeq(x, 1, Len(p)) = p
           /\ SubSeq(x, Len(p) + 1, Len(x)) \in Bytes
           /\ SubSeq(x, Len(p) + 1, Len(x)) \o y = f
<1> DEFINE front == SubSeq(x, 1, Len(p))
           back == SubSeq(x, Len(p) + 1, Len(x))
           g == back \o y
           h == x \o y
           k == Len(p)
           n == Len(x)
           j == n - k
<1>1. /\ k \in Nat /\ n \in Nat /\ k <= n /\ Len(y) \in Nat /\ Len(f) \in Nat /\ j \in Nat /\ n = k + j
  BY JoinedBytes
<1>2. /\ front \in Bytes /\ Len(front) = k /\ \A i \in 1..k : front[i] = x[i]
      /\ back \in Bytes /\ Len(back) = j /\ \A i \in 1..j : back[i] = x[k + i]
  BY <1>1 DEF Bytes
<1> HIDE DEF front, back
<1>3. /\ Len(h) = n + Len(y) /\ (\A i \in 1..n : h[i] = x[i]) /\ \A i \in 1..Len(y) : h[n + i] = y[i]
  BY JoinedBytes, BytesAt
<1>4. /\ Len(h) = k + Len(f) /\ (\A i \in 1..k : h[i] = p[i]) /\ \A i \in 1..Len(f) : h[k + i] = f[i]
  <2> DEFINE H == p \o f
  <2>1. /\ Len(H) = k + Len(f) /\ (\A i \in 1..k : H[i] = p[i]) /\ \A i \in 1..Len(f) : H[k + i] = f[i]
    BY JoinedBytes, BytesAt
  <2>2. H = h
    OBVIOUS
  <2> HIDE DEF H, h
  <2> QED
    BY <2>1, <2>2
<1>5. /\ g \in Bytes /\ Len(g) = j + Len(y)
      /\ (\A i \in 1..j : g[i] = back[i]) /\ \A i \in 1..Len(y) : g[j + i] = y[i]
  <2>1. /\ (\A i \in 1..Len(back) : g[i] = back[i]) /\ \A i \in 1..Len(y) : g[Len(back) + i] = y[i]
    BY <1>2, BytesAt
  <2>2. g \in Bytes /\ Len(g) = Len(back) + Len(y)
    BY <1>2, JoinedBytes, Zenon
  <2>3. Len(back) = j
    BY <1>2
  <2> HIDE DEF g, j
  <2> QED
    BY <2>1, <2>2, <2>3
<1> HIDE DEF g, h, n, k, j
<1>6. Len(f) = j + Len(y) /\ Len(front) = Len(p)
  BY <1>1, <1>2, <1>3, <1>4 DEF k
<1>7. front = p
  <2>1. \A i \in 1..k : i \in 1..n
    BY <1>1
  <2>2. \A i \in 1..k : front[i] = p[i]
    BY <1>2, <1>3, <1>4, <2>1
  <2> QED
    BY <1>2, <1>6, <2>2, SeqEqual DEF Bytes
<1>8. ASSUME NEW i \in 1..Len(f) PROVE g[i] = f[i]
  <2>1. h[k + i] = f[i]
    BY <1>4
  <2>2. CASE i <= j
    <3>1. i \in 1..j /\ k + i \in 1..n
      BY <1>1, <2>2
    <3>2. g[i] = x[k + i] /\ h[k + i] = x[k + i]
      BY <1>2, <1>3, <1>5, <3>1
    <3> QED
      BY <2>1, <3>2
  <2>3. CASE ~(i <= j)
    <3> DEFINE r == i - j
    <3>1. r \in 1..Len(y) /\ j + r = i /\ n + r = k + i
      BY <1>1, <1>6, <2>3
    <3> HIDE DEF r
    <3>2. g[j + r] = y[r] /\ h[n + r] = y[r]
      BY <1>3, <1>5, <3>1
    <3> QED
      BY <2>1, <3>1, <3>2
  <2> QED
    BY <2>2, <2>3
<1>9. g = f
  BY <1>5, <1>6, <1>8, SeqEqual DEF Bytes
<1> QED
  BY <1>2, <1>7, <1>9 DEF front, back, g

LEMMA SplitAt ==
    ASSUME NEW s \in Bytes, NEW n \in Nat, n <= Len(s)
    PROVE  /\ SubSeq(s, 1, n) \in Bytes /\ Len(SubSeq(s, 1, n)) = n
           /\ SubSeq(s, n + 1, Len(s)) \in Bytes
           /\ SubSeq(s, 1, n) \o SubSeq(s, n + 1, Len(s)) = s
<1> DEFINE x == SubSeq(s, 1, n)
           y == SubSeq(s, n + 1, Len(s))
           k == Len(s)
<1>1. k \in Nat
  BY DEF Bytes
<1>2. /\ x \in Bytes /\ Len(x) = n /\ \A i \in 1..n : x[i] = s[i]
  BY <1>1 DEF Bytes
<1>3. /\ y \in Bytes /\ Len(y) = k - n /\ \A i \in 1..(k - n) : y[i] = s[n + i]
  BY <1>1 DEF Bytes
<1> HIDE DEF x, y
<1> DEFINE g == x \o y
<1>4. g \in Bytes /\ Len(g) = Len(x) + Len(y)
  BY <1>2, <1>3, JoinedBytes, Zenon
<1>5. /\ \A i \in 1..Len(x) : g[i] = x[i]
      /\ \A i \in 1..Len(y) : g[Len(x) + i] = y[i]
  BY <1>2, <1>3, BytesAt
<1> HIDE DEF g
<1>6. Len(g) = Len(s)
  BY <1>1, <1>2, <1>3, <1>4
<1>7. ASSUME NEW i \in 1..Len(g) PROVE g[i] = s[i]
  <2>1. CASE i <= n
    <3>1. i \in 1..n
      BY <1>1, <1>6, <2>1
    <3> QED
      BY <1>2, <1>5, <3>1
  <2>2. CASE ~(i <= n)
    <3> DEFINE r == i - n
    <3>1. r \in 1..(k - n) /\ n + r = i
      BY <1>1, <1>6, <2>2
    <3> HIDE DEF r
    <3>2. g[n + r] = y[r] /\ y[r] = s[n + r]
      BY <1>2, <1>3, <1>5, <3>1
    <3> QED
      BY <3>1, <3>2
  <2> QED
    BY <2>1, <2>2
<1>8. g = s
  BY <1>4, <1>6, <1>7, SeqEqual DEF Bytes
<1> QED
  BY <1>2, <1>3, <1>8 DEF x, y, g

Seen(messages) == [i \in 1..Len(messages) |-> P!UpToZero(messages[i])]

LEMMA SeenAppended ==
    ASSUME NEW messages \in Seq(Messages), NEW m \in Messages
    PROVE  /\ Len(Seen(messages)) = Len(messages) /\ Len(messages) \in Nat
           /\ DOMAIN Seen(messages) = 1..Len(messages)
           /\ Seen(Append(messages, m)) = Append(Seen(messages), P!UpToZero(m))
<1> DEFINE S == {P!UpToZero(k) : k \in Messages}
           more == Append(messages, m)
           n == Len(messages)
           x == P!UpToZero(m)
           e == Seen(messages)
           f == Seen(more)
<1>1. /\ n \in Nat /\ Len(more) = n + 1 /\ more[n + 1] = m /\ more \in Seq(Messages)
      /\ \A i \in 1..n : more[i] = messages[i] /\ messages[i] \in Messages
  OBVIOUS
<1> HIDE DEF more
<1>2. /\ \A i \in 1..n : P!UpToZero(messages[i]) \in S
      /\ x \in S
  BY <1>1
<1>3. \A i \in 1..(n + 1) : P!UpToZero(more[i]) \in S
  <2>1. \A i \in 1..(n + 1) : more[i] \in Messages
    BY <1>1
  <2> QED
    BY <2>1
<1> HIDE DEF S
<1>4. e \in Seq(S) /\ Len(e) = n /\ DOMAIN e = 1..n
  BY <1>1, <1>2 DEF Seen
<1>5. f \in Seq(S) /\ Len(f) = n + 1 /\ f[n + 1] = x /\ \A i \in 1..n : f[i] = e[i]
  BY <1>1, <1>3 DEF Seen
<1> HIDE DEF e, f, x
<1>6. /\ Append(e, x) \in Seq(S) /\ Len(Append(e, x)) = n + 1 /\ Append(e, x)[n + 1] = x
      /\ \A i \in 1..n : Append(e, x)[i] = e[i]
  BY <1>1, <1>2, <1>4
<1>7. \A i \in 1..Len(f) : f[i] = Append(e, x)[i]
  BY <1>1, <1>5, <1>6
<1>8. f = Append(e, x)
  BY <1>5, <1>6, <1>7, SeqEqual
<1> QED
  BY <1>1, <1>4, <1>8 DEF e, f, x, more

LEMMA GrownEnough ==
    ASSUME NEW old \in Nat, NEW length \in Nat
    PROVE  /\ P!GrownSize(old, length) \in Nat /\ length <= P!GrownSize(old, length)
           /\ ~P!Throws(old, length) => P!GrownSize(old, length) <= PacketLimit
<1>1. PacketSize \in Nat /\ PacketSlack \in Nat /\ PacketLimit \in Nat
  BY BuffersAssumption DEF P!PacketsAssumption, P!Number
<1>2. P!GrownSize(old, length) \in Nat /\ length <= P!GrownSize(old, length)
  BY <1>1 DEF P!GrownSize
<1> QED
  BY <1>1, <1>2 DEF P!Throws

(***************************************************************************)
(* The receiver has taken the packets of done and still has those of todo  *)
(* in its buffer and in the stream.                                        *)
(***************************************************************************)
Received(done, todo) ==
    /\ sent = done \o todo
    /\ \A i \in 1..Len(todo) : Len(P!Pack(todo[i])) \in P!Number(4)
    /\ engine = "open" => buffer \o stream = StreamOf(todo)
    /\ got = Seen(DueOf(registered, done))

MemoryInv ==
    /\ stream \in Bytes /\ buffer \in Bytes
    /\ size \in Nat /\ Len(buffer) <= size /\ size <= PacketLimit
    /\ engine \in {"open", "forwarding", "full", "closed"}
    /\ engine \in {"forwarding", "closed"} => forwarded # <<>>
    /\ engine = "full" => \E n \in 1..ReadSize : P!Throws(size, Len(buffer) + n)

PacketInv ==
    /\ MemoryInv
    /\ \E done, todo \in Seq(Messages) : Received(done, todo)

LEMMA PacketInit == P!Init => PacketInv
<1> SUFFICES ASSUME P!Init PROVE PacketInv
  OBVIOUS
<1>1. /\ sent = <<>> /\ stream = <<>> /\ buffer = <<>> /\ size = PacketSize
      /\ engine = "open" /\ got = <<>>
  BY DEF P!Init
<1>2. PacketSize \in Nat /\ PacketSize <= PacketLimit
  BY BuffersAssumption DEF P!PacketsAssumption
<1>3. <<>> \in Bytes /\ Len(<<>>) = 0
  BY DEF Bytes
<1>4. MemoryInv
  BY <1>1, <1>2, <1>3 DEF MemoryInv
<1>5. Received(<<>>, <<>>)
  <2>1. DueOf(registered, <<>>) = <<>>
    <3>1. Kept(registered, <<>>) = <<>>
      BY DEF Kept
    <3> QED
      BY <3>1, FlattenEmpty DEF DueOf
  <2>2. Seen(<<>>) = <<>>
    BY DEF Seen
  <2>3. <<>> \o <<>> = <<>> /\ Len(<<>>) = 0
    OBVIOUS
  <2>4. got = Seen(DueOf(registered, <<>>))
    BY <1>1, <2>1, <2>2, Zenon
  <2>5. buffer \o stream = StreamOf(<<>>)
    BY <1>1, <2>3, StreamOfNone, Zenon
  <2>6. sent = <<>> \o <<>>
    BY <1>1, <2>3, Zenon
  <2> QED
    BY <2>3, <2>4, <2>5, <2>6 DEF Received
<1>6. <<>> \in Seq(Messages)
  OBVIOUS
<1> QED
  BY <1>4, <1>5, <1>6, Zenon DEF PacketInv

LEMMA PacketSend ==
    ASSUME PacketInv, NEW m \in Messages, P!Send(m)
    PROVE  PacketInv'
<1> DEFINE p == P!Pack(m)
<1>1. /\ ~P!Throws(PacketSize, Len(p)) /\ sent' = Append(sent, m) /\ stream' = stream \o p
      /\ UNCHANGED <<buffer, size, engine, registered, got, forwarded>>
  BY DEF P!Send
<1>2. p \in Bytes /\ Len(p) \in Nat
  BY PackWritten
<1>3. Len(p) \in P!Number(4)
  <2>1. PacketSize \in Nat /\ PacketLimit \in P!Number(4) /\ PacketLimit \in Nat
    BY BuffersAssumption DEF P!PacketsAssumption, P!Number
  <2> HIDE DEF p
  <2>2. /\ P!GrownSize(PacketSize, Len(p)) \in Nat /\ Len(p) <= P!GrownSize(PacketSize, Len(p))
        /\ P!GrownSize(PacketSize, Len(p)) <= PacketLimit
    BY <1>1, <1>2, <2>1, GrownEnough
  <2>3. Len(p) <= PacketLimit
    BY <1>2, <2>1, <2>2
  <2> QED
    BY <1>2, <2>1, <2>3, SmallerNumber
<1> HIDE DEF p
<1>4. stream \in Bytes /\ buffer \in Bytes
  BY DEF PacketInv, MemoryInv
<1>5. stream' \in Bytes
  BY <1>1, <1>2, <1>4, JoinedBytes
<1>6. MemoryInv'
  BY <1>1, <1>5 DEF PacketInv, MemoryInv
<1>7. PICK done, todo \in Seq(Messages) : Received(done, todo)
  BY DEF PacketInv
<1> DEFINE more == Append(todo, m)
<1>8. /\ more \in Seq(Messages) /\ done \o more = Append(done \o todo, m)
      /\ \A i \in 1..Len(more) : more[i] = m \/ (i \in 1..Len(todo) /\ more[i] = todo[i])
  <2>1. done \o more = Append(done \o todo, m)
    BY AppendConcat
  <2> QED
    BY <2>1
<1>9. StreamOf(more) = StreamOf(todo) \o p
  BY StreamOfAppended DEF p
<1> HIDE DEF more
<1>10. engine = "open" => buffer \o (stream \o p) = StreamOf(todo) \o p
  <2>1. (buffer \o stream) \o p = buffer \o (stream \o p)
    BY <1>2, <1>4, RegroupedBytes, Zenon
  <2>2. engine = "open" => buffer \o stream = StreamOf(todo)
    BY <1>7 DEF Received
  <2> QED
    BY <2>1, <2>2, Zenon
<1>11. Received(done, more)'
  <2>1. sent' = done \o more
    BY <1>1, <1>7, <1>8 DEF Received
  <2>2. engine' = "open" => buffer' \o stream' = StreamOf(more)
    BY <1>1, <1>9, <1>10, Zenon
  <2>3. got' = Seen(DueOf(registered', done))
    BY <1>1, <1>7, Zenon DEF Received
  <2>4. \A i \in 1..Len(more) : Len(P!Pack(more[i])) \in P!Number(4)
    <3>1. Len(P!Pack(m)) \in P!Number(4)
      BY <1>3 DEF p
    <3>2. \A i \in 1..Len(todo) : Len(P!Pack(todo[i])) \in P!Number(4)
      BY <1>7 DEF Received
    <3> QED
      BY <1>8, <3>1, <3>2, Zenon
  <2> QED
    BY <2>1, <2>2, <2>3, <2>4 DEF Received
<1> QED
  BY <1>6, <1>8, <1>11, Zenon DEF PacketInv

LEMMA DueOfNext ==
    ASSUME NEW codes, NEW done \in Seq(Messages), NEW m \in Messages
    PROVE  Seen(DueOf(codes, Append(done, m))) =
             IF m.opcode \in codes THEN Append(Seen(DueOf(codes, done)), P!UpToZero(m))
             ELSE Seen(DueOf(codes, done))
<1>1. DueOf(codes, done) \in Seq(Messages)
  <2>1. <<>> \in Seq(Messages)
    OBVIOUS
  <2> QED
    BY <2>1, DueOfJoined
<1>2. Seen(Append(DueOf(codes, done), m)) = Append(Seen(DueOf(codes, done)), P!UpToZero(m))
  BY <1>1, SeenAppended
<1>3. DueOf(codes, Append(done, m)) = IF m.opcode \in codes THEN Append(DueOf(codes, done), m) ELSE DueOf(codes, done)
  BY DueOfAppended
<1> QED
  BY <1>2, <1>3, Zenon

LEMMA UpToZeroOpcode == \A m \in Messages : P!UpToZero(m).opcode = m.opcode
BY DEF P!UpToZero

LEMMA ForwardedSomething == \A x, y : [message |-> x, to |-> y] # <<>>
<1> SUFFICES ASSUME NEW x, NEW y, [message |-> x, to |-> y] = <<>> PROVE FALSE
  OBVIOUS
<1>1. DOMAIN [message |-> x, to |-> y] = DOMAIN <<>>
  OBVIOUS
<1>2. "to" \in DOMAIN [message |-> x, to |-> y]
  OBVIOUS
<1>3. DOMAIN <<>> = {}
  OBVIOUS
<1> QED
  BY <1>1, <1>2, <1>3, Zenon

LEMMA RegroupedMessages == \A s, t, u \in Seq(Messages) : (s \o t) \o u = s \o (t \o u)
BY Associative

LEMMA HeadAndTail ==
    ASSUME NEW s \in Seq(Messages), s # <<>>
    PROVE  s = <<Head(s)>> \o Tail(s)
<1> DEFINE h == Head(s)
           t == Tail(s)
           n == Len(t)
<1>1. /\ h \in Messages /\ t \in Seq(Messages) /\ n \in Nat /\ Len(s) = n + 1
      /\ s[1] = h /\ \A i \in 1..n : s[i + 1] = t[i]
  OBVIOUS
<1> HIDE DEF h, t
<1>2. <<h>> \in Seq(Messages) /\ Len(<<h>>) = 1 /\ <<h>>[1] = h
  BY <1>1
<1> DEFINE one == <<h>>
           g == one \o t
<1> HIDE DEF one
<1>3. /\ g \in Seq(Messages) /\ Len(g) = 1 + n
      /\ \A i \in 1..(1 + n) : g[i] = IF i <= 1 THEN h ELSE t[i - 1]
  <2>1. one \in Seq(Messages) /\ Len(one) = 1 /\ one[1] = h
    BY <1>2 DEF one
  <2>2. /\ g \in Seq(Messages) /\ Len(g) = Len(one) + Len(t)
        /\ \A i \in 1..(Len(one) + Len(t)) : g[i] = IF i <= Len(one) THEN one[i] ELSE t[i - Len(one)]
    BY <1>1, <2>1, ConcatProperties, Zenon
  <2> HIDE DEF g
  <2> QED
    BY <1>1, <2>1, <2>2
<1> HIDE DEF g
<1>4. ASSUME NEW i \in 1..Len(s) PROVE s[i] = g[i]
  <2>1. CASE i = 1
    BY <1>1, <1>3, <2>1
  <2>2. CASE i # 1
    <3> DEFINE r == i - 1
    <3>1. r \in 1..n /\ r + 1 = i /\ ~(i <= 1)
      BY <1>1, <2>2
    <3> HIDE DEF r
    <3>2. s[r + 1] = t[r]
      BY <1>1, <3>1
    <3>3. g[i] = t[r]
      BY <1>1, <1>3, <3>1 DEF r
    <3> QED
      BY <3>1, <3>2, <3>3
  <2> QED
    BY <2>1, <2>2
<1>5. s = g
  BY <1>1, <1>3, <1>4, SeqEqual
<1> QED
  BY <1>5 DEF g, one, h, t

LEMMA OneMore ==
    ASSUME NEW s \in Seq(Messages), NEW m \in Messages
    PROVE  /\ Append(s, m) \in Seq(Messages) /\ <<m>> \in Seq(Messages)
           /\ Append(s, m) = s \o <<m>>
OBVIOUS

(* The packet at the front of what has been read, when it is complete.     *)
LEMMA PacketAtFront ==
    ASSUME NEW bytes \in Bytes, NEW left \in Bytes, NEW todo \in Seq(Messages),
           bytes \o left = StreamOf(todo), Len(bytes) >= 20,
           \A i \in 1..Len(todo) : Len(P!Pack(todo[i])) \in P!Number(4)
    PROVE  LET length == P!NumberAt(bytes, 4, 4)
               m == Head(todo)
           IN  /\ todo # <<>> /\ m \in Messages /\ Tail(todo) \in Seq(Messages)
               /\ length \in Nat
               /\ Len(bytes) >= length =>
                    /\ P!Unpack(SubSeq(bytes, 1, length)) = [ok |-> TRUE, message |-> P!UpToZero(m)]
                    /\ SubSeq(bytes, length + 1, Len(bytes)) \in Bytes
                    /\ SubSeq(bytes, length + 1, Len(bytes)) \o left = StreamOf(Tail(todo))
<1> DEFINE length == P!NumberAt(bytes, 4, 4)
           m == Head(todo)
           p == P!Pack(m)
           f == StreamOf(Tail(todo))
<1>1. todo # <<>>
  <2>1. Len(bytes \o left) = Len(bytes) + Len(left) /\ Len(bytes) \in Nat /\ Len(left) \in Nat
    BY JoinedBytes, Zenon
  <2>2. Len(bytes \o left) # 0
    BY <2>1
  <2>3. Len(StreamOf(todo)) # 0
    BY <2>2, Zenon
  <2>4. Len(StreamOf(<<>>)) = 0
    BY StreamOfNone
  <2> QED
    BY <2>3, <2>4, Zenon
<1>2. m \in Messages /\ Tail(todo) \in Seq(Messages) /\ f \in Bytes /\ bytes \o left = p \o f
  BY <1>1, StreamOfFirst, Zenon
<1>3. Len(p) \in P!Number(4)
  <2>1. todo[1] = m /\ 1 \in 1..Len(todo)
    BY <1>1
  <2>2. Len(P!Pack(todo[1])) \in P!Number(4)
    BY <2>1
  <2> HIDE DEF m
  <2> QED
    BY <2>1, <2>2, Zenon
<1>4. p \in Bytes /\ Len(p) \in Nat /\ Len(p) >= 24
  <2>1. /\ Len(p) = 24 + Len(P!WriteVector(TRUE, m.options)) + Len(P!Save(m))
        /\ Len(P!WriteVector(TRUE, m.options)) \in Nat /\ Len(P!Save(m)) \in Nat
        /\ p \in Bytes /\ Len(p) \in Nat
    BY <1>2, PackWritten, RestWritten
  <2> DEFINE v == Len(P!WriteVector(TRUE, m.options))
             w == Len(P!Save(m))
  <2>2. v \in Nat /\ w \in Nat /\ Len(p) = 24 + v + w
    BY <2>1
  <2> HIDE DEF p, m, v, w
  <2>3. Len(p) >= 24
    BY <2>2
  <2> QED
    BY <2>1, <2>3, Zenon
<1> HIDE DEF m, f
<1>5. ASSUME NEW i \in 1..4 PROVE bytes[4 + i] = p[4 + i]
  <2> DEFINE j == 4 + i
  <2> HIDE DEF p
  <2>1. j \in 1..Len(bytes) /\ j \in 1..Len(p)
    <3>1. Len(bytes) \in Nat
      BY JoinedBytes
    <3> QED
      BY <1>4, <3>1
  <2> HIDE DEF j
  <2>2. (bytes \o left)[j] = bytes[j]
    BY <2>1, FrontKept, Zenon
  <2>3. (p \o f)[j] = p[j]
    BY <1>2, <1>4, <2>1, FrontKept, Zenon
  <2>4. bytes[j] = p[j]
    BY <1>2, <2>2, <2>3, Zenon
  <2> QED
    BY <2>4 DEF j
<1>6. length = Len(p)
  BY <1>2, <1>3, <1>5, LengthReadBack
<1>7. P!Unpack(p) = [ok |-> TRUE, message |-> P!UpToZero(m)]
  BY <1>2, <1>3, UnpackBack
<1> HIDE DEF p, length
<1>8. ASSUME Len(bytes) >= Len(p)
      PROVE  /\ SubSeq(bytes, 1, Len(p)) = p
             /\ SubSeq(bytes, Len(p) + 1, Len(bytes)) \in Bytes
             /\ SubSeq(bytes, Len(p) + 1, Len(bytes)) \o left = f
  <2>1. Len(p) <= Len(bytes)
    BY <1>8, <1>4, JoinedBytes
  <2> QED
    BY <1>2, <1>4, <2>1, SplitSame, Zenon
<1>9. ASSUME Len(bytes) >= length
      PROVE  /\ P!Unpack(SubSeq(bytes, 1, length)) = [ok |-> TRUE, message |-> P!UpToZero(m)]
             /\ SubSeq(bytes, length + 1, Len(bytes)) \in Bytes
             /\ SubSeq(bytes, length + 1, Len(bytes)) \o left = f
  BY <1>6, <1>7, <1>8, <1>9, Zenon
<1> QED
  BY <1>1, <1>2, <1>4, <1>6, <1>9, Zenon DEF m, f, length

LEMMA PacketRead ==
    ASSUME PacketInv, NEW n \in 1..ReadSize, P!Read(n)
    PROVE  PacketInv'
<1> DEFINE front == SubSeq(stream, 1, n)
           left == SubSeq(stream, n + 1, Len(stream))
           bytes == buffer \o front
           length == P!NumberAt(bytes, 4, 4)
           packet == P!Unpack(SubSeq(bytes, 1, length))
           back == SubSeq(bytes, length + 1, Len(bytes))
<1>0. ReadSize \in Nat
  BY BuffersAssumption DEF P!PacketsAssumption
<1>1. /\ engine = "open" /\ n <= Len(stream) /\ stream' = left
      /\ UNCHANGED <<sent, registered, ran, mounting, routes>>
      /\ \/ /\ P!Throws(size, Len(bytes)) /\ P!Close("full") /\ UNCHANGED <<buffer, size>>
         \/ /\ ~P!Throws(size, Len(bytes))
            /\ size' = P!GrownSize(size, Len(bytes))
            /\ \/ /\ Len(bytes) >= 20 /\ Len(bytes) >= length
                  /\ buffer' = back
                  /\ IF packet.ok THEN P!Dispatch(packet.message) ELSE P!Close("closed")
               \/ /\ buffer' = bytes /\ UNCHANGED <<engine, got, forwarded>>
  BY DEF P!Read
<1>2. /\ stream \in Bytes /\ buffer \in Bytes /\ size \in Nat /\ Len(buffer) <= size /\ size <= PacketLimit
  BY DEF PacketInv, MemoryInv
<1>3. n \in Nat
  BY <1>0
<1>4. /\ front \in Bytes /\ Len(front) = n /\ left \in Bytes /\ front \o left = stream
  BY <1>1, <1>2, <1>3, SplitAt, Zenon
<1> HIDE DEF front, left
<1>5. bytes \in Bytes /\ Len(bytes) = Len(buffer) + Len(front) /\ bytes \o left = buffer \o stream
  <2>1. (buffer \o front) \o left = buffer \o (front \o left)
    BY <1>2, <1>4, RegroupedBytes, Zenon
  <2>2. bytes \in Bytes /\ Len(bytes) = Len(buffer) + Len(front)
    BY <1>2, <1>4, JoinedBytes, Zenon
  <2> QED
    BY <1>4, <2>1, <2>2, Zenon
<1>6. Len(bytes) \in Nat
  BY <1>5, JoinedBytes, Zenon
<1> HIDE DEF bytes
<1>7. PICK done, todo \in Seq(Messages) : Received(done, todo)
  BY DEF PacketInv
<1>8. /\ sent = done \o todo /\ bytes \o left = StreamOf(todo)
      /\ got = Seen(DueOf(registered, done))
      /\ \A i \in 1..Len(todo) : Len(P!Pack(todo[i])) \in P!Number(4)
  BY <1>1, <1>5, <1>7, Zenon DEF Received
<1>9. CASE P!Throws(size, Len(bytes)) /\ P!Close("full") /\ UNCHANGED <<buffer, size>>
  <2>1. engine' = "full" /\ UNCHANGED <<buffer, size, got, forwarded>>
    BY <1>9 DEF P!Close
  <2>2. P!Throws(size, Len(buffer) + n)
    BY <1>4, <1>5, <1>9, Zenon
  <2>3. MemoryInv'
    BY <1>1, <1>2, <1>4, <2>1, <2>2 DEF MemoryInv
  <2>4. Received(done, todo)'
    BY <1>1, <1>8, <2>1 DEF Received
  <2> QED
    BY <2>3, <2>4, Zenon DEF PacketInv
<1>10. ASSUME ~P!Throws(size, Len(bytes)), size' = P!GrownSize(size, Len(bytes))
       PROVE  size' \in Nat /\ Len(bytes) <= size' /\ size' <= PacketLimit
  BY <1>2, <1>6, <1>10, GrownEnough
<1>11. CASE /\ ~P!Throws(size, Len(bytes)) /\ size' = P!GrownSize(size, Len(bytes))
            /\ buffer' = bytes /\ UNCHANGED <<engine, got, forwarded>>
  <2>1. size' \in Nat /\ Len(bytes) <= size' /\ size' <= PacketLimit
    BY <1>10, <1>11
  <2>2. MemoryInv'
    BY <1>1, <1>4, <1>5, <1>11, <2>1 DEF MemoryInv
  <2>3. Received(done, todo)'
    BY <1>1, <1>8, <1>11, Zenon DEF Received
  <2> QED
    BY <2>2, <2>3, Zenon DEF PacketInv
<1>12. CASE /\ ~P!Throws(size, Len(bytes)) /\ size' = P!GrownSize(size, Len(bytes))
            /\ Len(bytes) >= 20 /\ Len(bytes) >= length
            /\ buffer' = back
            /\ IF packet.ok THEN P!Dispatch(packet.message) ELSE P!Close("closed")
  <2> DEFINE m == Head(todo)
             rest == Tail(todo)
             next == Append(done, m)
  <2>1. size' \in Nat /\ Len(bytes) <= size' /\ size' <= PacketLimit
    BY <1>10, <1>12
  <2>2. /\ todo # <<>> /\ m \in Messages /\ rest \in Seq(Messages) /\ length \in Nat
        /\ packet = [ok |-> TRUE, message |-> P!UpToZero(m)]
        /\ back \in Bytes /\ back \o left = StreamOf(rest)
    BY <1>4, <1>5, <1>8, <1>12, PacketAtFront, Zenon
  <2>3. Len(back) <= Len(bytes)
    <3>1. Len(back) = Len(bytes) - length
      BY <1>5, <1>6, <1>12, <2>2 DEF Bytes
    <3> HIDE DEF back, length
    <3> QED
      BY <1>6, <2>2, <3>1
  <2> HIDE DEF length, packet, back
  <2>4. P!Dispatch(P!UpToZero(m))
    <3>1. packet.ok = TRUE /\ packet.message = P!UpToZero(m)
      BY <2>2, Zenon
    <3> QED
      BY <1>12, <3>1, Zenon
  <2>5. /\ next \in Seq(Messages) /\ sent = next \o rest
        /\ \A i \in 1..Len(rest) : todo[i + 1] = rest[i] /\ i + 1 \in 1..Len(todo)
    <3>0. todo # <<>> /\ m \in Messages
      BY <2>2
    <3>1. /\ next \in Seq(Messages) /\ next = done \o <<m>> /\ todo = <<m>> \o rest
          /\ <<m>> \in Seq(Messages)
      BY <3>0, HeadAndTail, OneMore
    <3>2. \A i \in 1..Len(rest) : todo[i + 1] = rest[i] /\ i + 1 \in 1..Len(todo)
      BY <2>2
    <3> HIDE DEF m, rest, next
    <3>3. (done \o <<m>>) \o rest = done \o (<<m>> \o rest)
      BY <2>2, <3>1, RegroupedMessages
    <3> QED
      BY <1>8, <3>1, <3>2, <3>3, Zenon
  <2>6. \A i \in 1..Len(rest) : Len(P!Pack(rest[i])) \in P!Number(4)
    <3> HIDE DEF rest
    <3>1. ASSUME NEW i \in 1..Len(rest) PROVE Len(P!Pack(rest[i])) \in P!Number(4)
      <4>1. todo[i + 1] = rest[i] /\ i + 1 \in 1..Len(todo)
        BY <2>5
      <4>2. Len(P!Pack(todo[i + 1])) \in P!Number(4)
        BY <1>8, <4>1, Zenon
      <4> QED
        BY <4>1, <4>2, Zenon
    <3> QED
      BY <3>1
  <2>7. Seen(DueOf(registered, next)) =
          IF m.opcode \in registered THEN Append(Seen(DueOf(registered, done)), P!UpToZero(m))
          ELSE Seen(DueOf(registered, done))
    BY <2>2, DueOfNext
  <2>8. P!UpToZero(m).opcode = m.opcode
    BY <2>2, UpToZeroOpcode
  <2> HIDE DEF m, rest, next
  <2>9. /\ got' = Seen(DueOf(registered', next))
        /\ engine' \in {"open", "forwarding"} /\ (engine' = "forwarding" => forwarded' # <<>>)
    <3>1. CASE m.opcode \in registered
      <4>1. got' = Append(got, P!UpToZero(m)) /\ UNCHANGED <<engine, forwarded>>
        BY <2>4, <2>8, <3>1 DEF P!Dispatch
      <4>2. engine' = "open"
        BY <1>1, <4>1
      <4> QED
        BY <1>1, <1>8, <2>7, <3>1, <4>1, <4>2
    <3>2. CASE m.opcode \notin registered
      <4> DEFINE u == P!UpToZero(m)
      <4>1. /\ got' = got
            /\ \/ /\ forwarded' = [message |-> u, to |-> routes[u.opcode]] /\ engine' = "forwarding"
               \/ UNCHANGED <<engine, forwarded>>
        BY <2>4, <2>8, <3>2 DEF P!Dispatch
      <4> HIDE DEF u
      <4>2. got' = Seen(DueOf(registered', next))
        BY <1>1, <1>8, <2>7, <3>2, <4>1
      <4>3. CASE forwarded' = [message |-> u, to |-> routes[u.opcode]] /\ engine' = "forwarding"
        <5>1. forwarded' # <<>>
          BY <4>3, ForwardedSomething, Zenon
        <5> QED
          BY <4>2, <4>3, <5>1
      <4>4. CASE UNCHANGED <<engine, forwarded>>
        BY <1>1, <4>2, <4>4
      <4> QED
        BY <4>1, <4>3, <4>4
    <3> QED
      BY <3>1, <3>2
  <2>10. MemoryInv'
    <3>1. Len(buffer') <= size' /\ buffer' \in Bytes
      <4>1. Len(back) \in Nat
        BY <2>2, JoinedBytes
      <4> QED
        BY <1>6, <1>12, <2>1, <2>2, <2>3, <4>1
    <3> QED
      BY <1>1, <1>4, <2>1, <2>9, <3>1 DEF MemoryInv
  <2>11. Received(next, rest)'
    <3>1. buffer' \o stream' = StreamOf(rest)
      BY <1>1, <1>12, <2>2, Zenon
    <3>2. sent' = next \o rest
      BY <1>1, <2>5
    <3> QED
      BY <2>6, <2>9, <3>1, <3>2 DEF Received
  <2> QED
    BY <2>2, <2>5, <2>10, <2>11, Zenon DEF PacketInv
<1> QED
  BY <1>1, <1>9, <1>11, <1>12

LEMMA PacketStep ==
    ASSUME PacketInv, [P!Next]_P!vars
    PROVE  PacketInv'
<1>1. ASSUME UNCHANGED <<sent, stream, buffer, size, engine, registered, got, forwarded>>
      PROVE  PacketInv'
  <2>1. MemoryInv'
    BY <1>1 DEF PacketInv, MemoryInv
  <2>2. PICK done, todo \in Seq(Messages) : Received(done, todo)
    BY DEF PacketInv
  <2>3. Received(done, todo)'
    BY <1>1, <2>2 DEF Received
  <2> QED
    BY <2>1, <2>3, Zenon DEF PacketInv
<1>2. CASE UNCHANGED P!vars
  BY <1>1, <1>2 DEF P!vars
<1>3. CASE P!RunMessage
  BY <1>1, <1>3 DEF P!RunMessage
<1>4. CASE P!HandleMount
  BY <1>1, <1>4 DEF P!HandleMount
<1>5. CASE P!ForwardError
  <2>1. /\ engine = "forwarding" /\ engine' = "closed"
        /\ UNCHANGED <<sent, stream, buffer, size, registered, got, forwarded>>
    BY <1>5 DEF P!ForwardError
  <2>2. MemoryInv'
    BY <2>1 DEF PacketInv, MemoryInv
  <2>3. PICK done, todo \in Seq(Messages) : Received(done, todo)
    BY DEF PacketInv
  <2>4. Received(done, todo)'
    BY <2>1, <2>3 DEF Received
  <2> QED
    BY <2>2, <2>4, Zenon DEF PacketInv
<1>6. ASSUME NEW m \in Messages, P!Send(m) PROVE PacketInv'
  BY <1>6, PacketSend
<1>7. ASSUME NEW n \in Cuts \cup {Len(stream)}, n \in 1..ReadSize, P!Read(n) PROVE PacketInv'
  BY <1>7, PacketRead
<1> QED
  BY <1>2, <1>3, <1>4, <1>5, <1>6, <1>7 DEF P!Next

(* What the invariant says of what has been passed on.                     *)
LEMMA PacketsPassedOn == PacketInv => ReceivedAsPacked
<1> SUFFICES ASSUME PacketInv PROVE ReceivedAsPacked
  OBVIOUS
<1>1. PICK done, todo \in Seq(Messages) : Received(done, todo)
  BY DEF PacketInv
<1> DEFINE x == DueOf(registered, done)
           y == DueOf(registered, todo)
           due == P!Due(sent)
<1>2. due = x \o y /\ x \in Seq(Messages) /\ y \in Seq(Messages)
  <2>1. due = DueOf(registered, sent)
    BY DEF P!Due, DueOf, Kept
  <2>2. sent = done \o todo
    BY <1>1 DEF Received
  <2>3. /\ x \in Seq(Messages) /\ y \in Seq(Messages)
        /\ DueOf(registered, done \o todo) = x \o y
    BY DueOfJoined
  <2> QED
    BY <2>1, <2>2, <2>3, Zenon
<1>3. got = Seen(x)
  BY <1>1 DEF Received
<1> HIDE DEF x, y, due
<1>4. /\ Len(got) = Len(x) /\ DOMAIN got = 1..Len(x)
      /\ \A i \in 1..Len(x) : got[i] = P!UpToZero(x[i])
  <2>1. Len(x) \in Nat
    BY <1>2
  <2> QED
    BY <1>3, <2>1 DEF Seen
<1>5. /\ Len(x) \in Nat /\ Len(y) \in Nat /\ Len(due) = Len(x) + Len(y)
      /\ \A i \in 1..Len(x) : due[i] = x[i]
  <2>1. /\ Len(x) \in Nat /\ Len(y) \in Nat /\ Len(x \o y) = Len(x) + Len(y)
        /\ \A i \in 1..(Len(x) + Len(y)) : (x \o y)[i] = IF i <= Len(x) THEN x[i] ELSE y[i - Len(x)]
    BY <1>2, ConcatProperties, LenProperties
  <2> DEFINE z == x \o y
  <2> HIDE DEF z
  <2>2. /\ Len(z) = Len(x) + Len(y)
        /\ \A i \in 1..(Len(x) + Len(y)) : z[i] = IF i <= Len(x) THEN x[i] ELSE y[i - Len(x)]
    BY <2>1 DEF z
  <2>3. due = z
    BY <1>2 DEF z
  <2> QED
    BY <2>1, <2>2, <2>3
<1>6. Len(got) <= Len(due)
  BY <1>4, <1>5
<1>7. \A i \in DOMAIN got : got[i] = P!UpToZero(due[i])
  BY <1>4, <1>5, Zenon
<1>8. ASSUME engine = "open", buffer = <<>>, stream = <<>> PROVE Len(got) = Len(due)
  <2>1. StreamOf(todo) = <<>>
    <3>1. buffer \o stream = StreamOf(todo)
      BY <1>1, <1>8 DEF Received
    <3>2. <<>> \o <<>> = <<>>
      OBVIOUS
    <3> QED
      BY <1>8, <3>1, <3>2, Zenon
  <2>2. todo = <<>>
    <3> SUFFICES ASSUME todo # <<>> PROVE FALSE
      OBVIOUS
    <3> DEFINE p == P!Pack(Head(todo))
               f == StreamOf(Tail(todo))
    <3>1. /\ Head(todo) \in Messages /\ f \in Bytes /\ StreamOf(todo) = p \o f
      BY StreamOfFirst, Zenon
    <3>2. p \in Bytes /\ Len(p) > 0
      <4> DEFINE v == Len(P!WriteVector(TRUE, Head(todo).options))
                 w == Len(P!Save(Head(todo)))
      <4>1. v \in Nat /\ w \in Nat /\ Len(p) = 24 + v + w /\ p \in Bytes
        BY <3>1, PackWritten, RestWritten
      <4> HIDE DEF v, w, p
      <4> QED
        BY <4>1
    <3> HIDE DEF p, f
    <3>3. Len(p \o f) = Len(p) + Len(f) /\ Len(p) \in Nat /\ Len(f) \in Nat
      BY <3>1, <3>2, JoinedBytes, Zenon
    <3>4. Len(p \o f) # 0
      BY <3>2, <3>3
    <3>5. p \o f = <<>>
      BY <2>1, <3>1, Zenon
    <3>6. Len(<<>>) = 0
      OBVIOUS
    <3> QED
      BY <3>4, <3>5, <3>6, Zenon
  <2>3. y = <<>>
    <3>1. Kept(registered, <<>>) = <<>>
      BY DEF Kept
    <3> QED
      BY <2>2, <3>1, FlattenEmpty, Zenon DEF y, DueOf
  <2>4. Len(y) = 0
    BY <2>3
  <2> QED
    BY <1>4, <1>5, <2>4
<1>9. /\ Len(buffer) <= size /\ size <= PacketLimit
      /\ engine = "closed" => forwarded # <<>>
      /\ engine = "full" => \E n \in 1..ReadSize : P!Throws(size, Len(buffer) + n)
  BY DEF PacketInv, MemoryInv
<1> QED
  BY <1>6, <1>7, <1>8, <1>9, Zenon DEF ReceivedAsPacked, P!ReceivedAsPacked, due

(* Whatever the messages, however the stream is cut and whenever memory    *)
(* runs out: what zmq_engine_t passes on to the logical thread is what     *)
(* protocol_binary_t packed, in order and complete                         *)
(* (zmq_engine.cpp, in_event).                                             *)
THEOREM PacketsArriveAsPacked == P!Spec => []ReceivedAsPacked
<1>1. P!Init => PacketInv
  BY PacketInit
<1>2. PacketInv /\ [P!Next]_P!vars => PacketInv'
  BY PacketStep
<1>3. PacketInv => ReceivedAsPacked
  BY PacketsPassedOn
<1> QED
  BY <1>1, <1>2, <1>3, PTL DEF P!Spec
-----------------------------------------------------------------------------
(* The opcodes in the messages to mount that have been run.                *)
Mounted(messages, n) == UNION {P!ToSet(messages[i].data) : i \in {j \in 1..n : messages[j].opcode = 2}}

RoutesInv ==
    /\ ran \in Nat /\ ran <= Len(got)
    /\ mounting \in Seq(P!Number(4)) /\ P!ToSet(mounting) \subseteq Mounted(got, ran)
    /\ DOMAIN routes \subseteq Mounted(got, ran)
    /\ forwarded # <<>> => /\ forwarded.message.opcode \notin registered
                           /\ forwarded.message.opcode \in Mounted(got, ran)

LEMMA MountedBefore ==
    ASSUME NEW S, NEW messages \in Seq(S), NEW x, NEW n \in Nat, n <= Len(messages)
    PROVE  /\ Len(messages) <= Len(Append(messages, x))
           /\ Mounted(Append(messages, x), n) = Mounted(messages, n)
<1> DEFINE T == S \cup {x}
           more == Append(messages, x)
<1>1. messages \in Seq(T) /\ x \in T
  OBVIOUS
<1> HIDE DEF T
<1>2. \A i \in 1..n : more[i] = messages[i]
  BY <1>1
<1>3. Len(messages) <= Len(more)
  BY <1>1
<1> HIDE DEF more
<1>4. {j \in 1..n : more[j].opcode = 2} = {j \in 1..n : messages[j].opcode = 2}
  BY <1>2, Zenon
<1>5. \A i \in {j \in 1..n : messages[j].opcode = 2} : P!ToSet(more[i].data) = P!ToSet(messages[i].data)
  BY <1>2, Zenon
<1>6. Mounted(more, n) = Mounted(messages, n)
  BY <1>4, <1>5 DEF Mounted
<1> QED
  BY <1>3, <1>6 DEF more

LEMMA MountedNext ==
    ASSUME NEW messages, NEW n \in Nat
    PROVE  /\ Mounted(messages, n) \subseteq Mounted(messages, n + 1)
           /\ messages[n + 1].opcode = 2 => P!ToSet(messages[n + 1].data) \subseteq Mounted(messages, n + 1)
<1>1. \A j \in 1..n : j \in 1..(n + 1)
  OBVIOUS
<1>2. n + 1 \in 1..(n + 1)
  OBVIOUS
<1> DEFINE k == n + 1
<1> HIDE DEF k
<1>3. Mounted(messages, n) \subseteq Mounted(messages, k)
  BY <1>1, Zenon DEF Mounted, k
<1>4. messages[k].opcode = 2 => P!ToSet(messages[k].data) \subseteq Mounted(messages, k)
  <2>1. k \in 1..k
    BY <1>2 DEF k
  <2> QED
    BY <2>1, Zenon DEF Mounted
<1> QED
  BY <1>3, <1>4 DEF k

LEMMA GotMessages ==
    ASSUME PacketInv
    PROVE  /\ \E S : got \in Seq(S)
           /\ \A i \in 1..Len(got) : got[i].opcode = 2 => got[i].data \in Seq(P!Number(4))
<1>1. PICK done, todo \in Seq(Messages) : Received(done, todo)
  BY DEF PacketInv
<1> DEFINE x == DueOf(registered, done)
           S == {P!UpToZero(m) : m \in Messages}
<1>2. x \in Seq(Messages) /\ got = Seen(x)
  BY <1>1, DueOfJoined DEF Received
<1> HIDE DEF x
<1>3. Len(x) \in Nat /\ \A i \in 1..Len(x) : x[i] \in Messages /\ P!UpToZero(x[i]) \in S
  BY <1>2
<1> HIDE DEF S
<1>4. got \in Seq(S) /\ Len(got) = Len(x) /\ \A i \in 1..Len(x) : got[i] = P!UpToZero(x[i])
  BY <1>2, <1>3 DEF Seen
<1>5. ASSUME NEW m \in Messages, P!UpToZero(m).opcode = 2 PROVE P!UpToZero(m).data \in Seq(P!Number(4))
  <2>1. m.opcode = 2
    BY <1>5, UpToZeroOpcode
  <2>2. P!UpToZero(m) = m
    BY <2>1 DEF P!UpToZero
  <2>3. m.data \in Seq(Items(FALSE))
    BY <2>1, MessageFields
  <2> QED
    BY <2>2, <2>3 DEF Items
<1>6. \A i \in 1..Len(got) : got[i].opcode = 2 => got[i].data \in Seq(P!Number(4))
  BY <1>3, <1>4, <1>5
<1> QED
  BY <1>4, <1>6

LEMMA RoutesInit == P!Init => RoutesInv
BY DEF P!Init, RoutesInv, P!ToSet

LEMMA RoutesStep ==
    ASSUME PacketInv, RoutesInv, [P!Next]_P!vars
    PROVE  RoutesInv'
<1>1. ASSUME UNCHANGED <<registered, got, ran, mounting, routes, forwarded>>
      PROVE  RoutesInv'
  BY <1>1 DEF RoutesInv
<1>2. CASE UNCHANGED P!vars
  BY <1>1, <1>2 DEF P!vars
<1>3. CASE P!ForwardError
  BY <1>1, <1>3 DEF P!ForwardError
<1>4. ASSUME NEW m \in Messages, P!Send(m) PROVE RoutesInv'
  BY <1>1, <1>4 DEF P!Send
<1>5. ASSUME NEW n, P!Read(n) PROVE RoutesInv'
  <2>1. /\ UNCHANGED <<registered, ran, mounting, routes>>
        /\ \/ UNCHANGED <<got, forwarded>>
           \/ \E x : P!Dispatch(x)
    BY <1>5 DEF P!Read, P!Close
  <2>2. CASE UNCHANGED <<got, forwarded>>
    BY <1>1, <2>1, <2>2
  <2>3. ASSUME NEW x, P!Dispatch(x) PROVE RoutesInv'
    <3>1. \/ got' = Append(got, x) /\ UNCHANGED forwarded
          \/ UNCHANGED <<got, forwarded>>
          \/ /\ UNCHANGED got /\ x.opcode \notin registered /\ x.opcode \in DOMAIN routes
             /\ forwarded' = [message |-> x, to |-> routes[x.opcode]]
      BY <2>3 DEF P!Dispatch
    <3>2. CASE got' = Append(got, x) /\ UNCHANGED forwarded
      <4>1. PICK S : got \in Seq(S)
        BY GotMessages
      <4>2. ran \in Nat /\ ran <= Len(got)
        BY DEF RoutesInv
      <4>3. Len(got) <= Len(got') /\ Mounted(got', ran) = Mounted(got, ran)
        BY <3>2, <4>1, <4>2, MountedBefore
      <4>4. ran <= Len(got')
        <5>1. Len(got) \in Nat /\ Len(got') \in Nat
          BY <3>2, <4>1
        <5> QED
          BY <4>2, <4>3, <5>1
      <4>5. Mounted(got', ran') = Mounted(got, ran)
        BY <2>1, <4>3
      <4> QED
        BY <2>1, <3>2, <4>4, <4>5 DEF RoutesInv
    <3>3. CASE UNCHANGED <<got, forwarded>>
      BY <2>2, <3>3
    <3>4. CASE /\ UNCHANGED got /\ x.opcode \notin registered /\ x.opcode \in DOMAIN routes
               /\ forwarded' = [message |-> x, to |-> routes[x.opcode]]
      <4>1. forwarded'.message = x
        BY <3>4
      <4>2. Mounted(got', ran') = Mounted(got, ran)
        BY <2>1, <3>4
      <4> QED
        BY <2>1, <3>4, <4>1, <4>2 DEF RoutesInv
    <3> QED
      BY <3>1, <3>2, <3>3, <3>4
  <2> QED
    BY <2>1, <2>2, <2>3
<1>6. CASE P!RunMessage
  <2>1. /\ ran < Len(got) /\ ran' = ran + 1
        /\ mounting' = IF got[ran'].opcode = 2 THEN got[ran'].data ELSE <<>>
        /\ UNCHANGED <<registered, got, routes, forwarded>>
    BY <1>6 DEF P!RunMessage
  <2>2. ran \in Nat
    BY DEF RoutesInv
  <2>3. PICK S : got \in Seq(S)
    BY GotMessages
  <2>4. ran + 1 \in 1..Len(got) /\ ran + 1 <= Len(got) /\ ran + 1 \in Nat
    BY <2>1, <2>2, <2>3
  <2>5. Mounted(got, ran) \subseteq Mounted(got, ran + 1)
    BY <2>2, MountedNext
  <2>6. mounting' \in Seq(P!Number(4)) /\ P!ToSet(mounting') \subseteq Mounted(got, ran + 1)
    <3>1. CASE got[ran + 1].opcode = 2
      <4>1. got[ran + 1].data \in Seq(P!Number(4))
        BY <2>4, <3>1, GotMessages
      <4>2. P!ToSet(got[ran + 1].data) \subseteq Mounted(got, ran + 1)
        BY <2>2, <3>1, MountedNext
      <4>3. mounting' = got[ran + 1].data
        BY <2>1, <3>1
      <4> QED
        BY <4>1, <4>2, <4>3
    <3>2. CASE got[ran + 1].opcode # 2
      BY <2>1, <3>2 DEF P!ToSet
    <3> QED
      BY <3>1, <3>2
  <2> QED
    BY <2>1, <2>4, <2>5, <2>6 DEF RoutesInv
<1>7. CASE P!HandleMount
  <2> DEFINE opcode == Head(mounting)
  <2>1. /\ mounting # <<>> /\ UNCHANGED <<registered, got, ran, forwarded>>
        /\ \/ DOMAIN routes' = DOMAIN routes /\ mounting' = Tail(mounting)
           \/ DOMAIN routes' = DOMAIN routes \cup {opcode} /\ UNCHANGED mounting
    BY <1>7 DEF P!HandleMount
  <2>2. mounting \in Seq(P!Number(4))
    BY DEF RoutesInv
  <2>3. Tail(mounting) \in Seq(P!Number(4)) /\ opcode \in P!ToSet(mounting)
        /\ P!ToSet(Tail(mounting)) \subseteq P!ToSet(mounting)
    BY <2>1, <2>2 DEF P!ToSet
  <2> HIDE DEF opcode
  <2>4. Mounted(got', ran') = Mounted(got, ran)
    BY <2>1
  <2> QED
    BY <2>1, <2>2, <2>3, <2>4 DEF RoutesInv
<1> QED
  BY <1>2, <1>3, <1>4, <1>5, <1>6, <1>7 DEF P!Next

(* Whatever is sent and however the two threads interleave: only what the  *)
(* logical thread does not handle itself and what a message that it has    *)
(* begun to run mounts is forwarded (zmq_engine.cpp, ctx.cpp).             *)
THEOREM ForwardedOnlyWhenMounted == P!Spec => []RoutedByMount
<1>1. P!Init => PacketInv /\ RoutesInv
  BY PacketInit, RoutesInit
<1>2. PacketInv /\ RoutesInv /\ [P!Next]_P!vars => (PacketInv /\ RoutesInv)'
  BY PacketStep, RoutesStep
<1>3. RoutesInv => RoutedByMount
  BY Zenon DEF RoutesInv, RoutedByMount, P!RoutedByMount, Mounted
<1> QED
  BY <1>1, <1>2, <1>3, PTL DEF P!Spec

(* The opcodes that can be registered; a set of s_route_map holds its own  *)
(* opcode or nothing, and what is forwarded goes there.                    *)
RouteTypes ==
    /\ registered \subseteq {1, 2}
    /\ \A o \in DOMAIN routes : o \in P!Number(4) /\ routes[o] \subseteq {o}
    /\ forwarded # <<>> => /\ forwarded.message.opcode \in DOMAIN routes
                           /\ forwarded.to = {forwarded.message.opcode}

LEMMA RouteTypesStep ==
    ASSUME RoutesInv, RouteTypes, [P!Next]_P!vars
    PROVE  RouteTypes'
<1>1. ASSUME UNCHANGED <<registered, routes, forwarded>> PROVE RouteTypes'
  BY <1>1 DEF RouteTypes
<1>2. CASE UNCHANGED P!vars
  BY <1>1, <1>2 DEF P!vars
<1>3. CASE P!ForwardError
  BY <1>1, <1>3 DEF P!ForwardError
<1>4. ASSUME NEW m \in Messages, P!Send(m) PROVE RouteTypes'
  BY <1>1, <1>4 DEF P!Send
<1>5. ASSUME NEW n, P!Read(n) PROVE RouteTypes'
  <2>1. /\ UNCHANGED <<registered, routes>>
        /\ UNCHANGED forwarded \/ \E x : P!Dispatch(x)
    BY <1>5 DEF P!Read, P!Close
  <2>2. CASE UNCHANGED forwarded
    BY <1>1, <2>1, <2>2
  <2>3. ASSUME NEW x, P!Dispatch(x) PROVE RouteTypes'
    <3>1. \/ UNCHANGED forwarded
          \/ /\ x.opcode \in DOMAIN routes /\ routes[x.opcode] # {}
             /\ forwarded' = [message |-> x, to |-> routes[x.opcode]]
      BY <2>3 DEF P!Dispatch
    <3>2. CASE UNCHANGED forwarded
      BY <2>2, <3>2
    <3>3. CASE /\ x.opcode \in DOMAIN routes /\ routes[x.opcode] # {}
               /\ forwarded' = [message |-> x, to |-> routes[x.opcode]]
      <4>1. forwarded'.message = x /\ forwarded'.to = routes[x.opcode]
        BY <3>3
      <4>2. routes[x.opcode] = {x.opcode}
        BY <3>3 DEF RouteTypes
      <4> QED
        BY <2>1, <3>3, <4>1, <4>2 DEF RouteTypes
    <3> QED
      BY <3>1, <3>2, <3>3
  <2> QED
    BY <2>1, <2>2, <2>3
<1>6. CASE P!RunMessage
  BY <1>1, <1>6 DEF P!RunMessage
<1>7. CASE P!HandleMount
  <2> DEFINE opcode == Head(mounting)
  <2>1. /\ mounting # <<>> /\ UNCHANGED <<registered, forwarded>>
        /\ \/ /\ opcode \in DOMAIN routes
              /\ routes' = [routes EXCEPT ![opcode] = @ \cup {opcode}]
           \/ routes' = [o \in DOMAIN routes \cup {opcode} |-> IF o = opcode THEN {} ELSE routes[o]]
    BY <1>7 DEF P!HandleMount
  <2>2. opcode \in P!Number(4)
    BY <2>1 DEF RoutesInv
  <2> HIDE DEF opcode
  <2>3. DOMAIN routes \subseteq DOMAIN routes'
    BY <2>1
  <2>4. ASSUME NEW o \in DOMAIN routes' PROVE o \in P!Number(4) /\ routes'[o] \subseteq {o}
    BY <2>1, <2>2, <2>4 DEF RouteTypes
  <2> QED
    BY <2>1, <2>3, <2>4 DEF RouteTypes
<1> QED
  BY <1>2, <1>3, <1>4, <1>5, <1>6, <1>7 DEF P!Next

(* The types of the variables of Packets: the receiver's buffer and the    *)
(* stream, the messages that were sent and those that were given to the    *)
(* logical thread, and the routes, whose sets hold their own opcode where  *)
(* a descriptor belongs (protocol_binary.cpp, ctx.cpp).                    *)
THEOREM PacketsTypeCorrect == P!Spec => []P!TypeOK
<1>1. P!Init => PacketInv /\ RoutesInv /\ RouteTypes
  BY PacketInit, RoutesInit DEF P!Init, RouteTypes
<1>2. PacketInv /\ RoutesInv /\ RouteTypes /\ [P!Next]_P!vars => (PacketInv /\ RoutesInv /\ RouteTypes)'
  BY PacketStep, RoutesStep, RouteTypesStep
<1>3. ASSUME PacketInv, RoutesInv, RouteTypes PROVE P!TypeOK
  <2>1. PICK done, todo \in Seq(Messages) : Received(done, todo)
    BY <1>3 DEF PacketInv
  <2>2. sent \in Seq(Messages)
    BY <2>1, ConcatProperties DEF Received
  <2> DEFINE x == DueOf(registered, done)
  <2>3. x \in Seq(Messages) /\ got = Seen(x)
    BY <2>1, DueOfJoined DEF Received
  <2> HIDE DEF x
  <2>4. Len(got) = Len(x) /\ Len(x) \in Nat /\ DOMAIN got = 1..Len(x)
        /\ \A i \in 1..Len(x) : x[i] \in Messages /\ got[i] = P!UpToZero(x[i])
    BY <2>3 DEF Seen
  <2>5. ran \in 0..Len(got) /\ \A i \in DOMAIN got : \E m \in Messages : got[i] = P!UpToZero(m)
    BY <1>3, <2>4 DEF RoutesInv
  <2>6. stream \in Bytes /\ buffer \in Bytes /\ size \in Nat
        /\ engine \in {"open", "forwarding", "full", "closed"}
    BY <1>3 DEF PacketInv, MemoryInv
  <2>7. mounting \in Seq(P!Number(4))
    BY <1>3 DEF RoutesInv
  <2> QED
    BY <1>3, <2>2, <2>5, <2>6, <2>7 DEF P!TypeOK, RouteTypes, Bytes
<1> QED
  BY <1>1, <1>2, <1>3, PTL DEF P!Spec

-----------------------------------------------------------------------------
(***************************************************************************)
(* Values of JsonCpp and a program that makes them.                        *)
(***************************************************************************)
LEMMA JsonAssumptions == MaxInt \in Nat /\ MaxSize \in Nat /\ \A x \in Samples : E!IsValue(x)
BY BuffersAssumption DEF E!JsonEditAssumption

(***************************************************************************)
(* The fields of a Value.                                                  *)
(***************************************************************************)
LEMMA TypeNames == "null" \in E!ToSet(E!Types) /\ "array" \in E!ToSet(E!Types) /\ "object" \in E!ToSet(E!Types)
<1>1. E!Types[1] = "null" /\ E!Types[7] = "array" /\ E!Types[8] = "object"
  BY DEF E!Types
<1>2. 1 \in DOMAIN E!Types /\ 7 \in DOMAIN E!Types /\ 8 \in DOMAIN E!Types
  BY DEF E!Types
<1> QED
  BY <1>1, <1>2 DEF E!ToSet

LEMMA NullIsValue == E!IsValue(E!Null)
BY TypeNames DEF E!IsValue, E!Null, E!Value

(* The comments of a value do not matter.                                  *)
LEMMA AssignedIsValue ==
    ASSUME NEW v, NEW x, E!IsValue(x)
    PROVE  /\ E!IsValue(E!Assign(v, x))
           /\ E!Assign(v, x).type = x.type /\ E!Assign(v, x).items = x.items
BY DEF E!IsValue, E!Assign

LEMMA EmptyIsValue ==
    ASSUME NEW v, NEW t \in {"array", "object"}
    PROVE  /\ E!IsValue(E!Assign(v, E!Value(t)))
           /\ E!Assign(v, E!Value(t)).type = t
           /\ DOMAIN E!Assign(v, E!Value(t)).items = {}
BY TypeNames DEF E!IsValue, E!Assign, E!Value, E!AreIndices

(* A value with other items.                                               *)
LEMMA WithItems ==
    ASSUME NEW v, E!IsValue(v), NEW S, NEW f,
           v.type \in {"array", "object"} \/ S = {},
           v.type = "array" => E!AreIndices(S)
    PROVE  LET new == [v EXCEPT !.items = [k \in S |-> f[k]]]
           IN  /\ E!IsValue(new) /\ new.type = v.type
               /\ DOMAIN new.items = S /\ \A k \in S : new.items[k] = f[k]
BY DEF E!IsValue

(***************************************************************************)
(* The size of an array is the number behind its greatest index.           *)
(***************************************************************************)
LEMMA MaxIs ==
    ASSUME NEW S, S \subseteq Int, NEW m \in S, \A x \in S : x <= m
    PROVE  E!Max(S) = m
<1>1. \A x \in S : m >= x
  OBVIOUS
<1>2. \A y \in S : (\A x \in S : y >= x) => y = m
  OBVIOUS
<1> QED
  BY <1>1, <1>2 DEF E!Max

LEMMA SizeIs ==
    ASSUME NEW v, E!IsValue(v), v.type = "array", NEW s \in Nat,
           <<s>> \in DOMAIN v.items, \A k \in DOMAIN v.items : k[1] <= s
    PROVE  E!Size(v) = s + 1
<1> DEFINE S == {k[1] : k \in DOMAIN v.items}
<1>1. S \subseteq Int
  BY DEF E!IsValue, E!AreIndices
<1>2. s \in S
  OBVIOUS
<1>3. \A x \in S : x <= s
  OBVIOUS
<1>4. E!Max(S) = s
  BY <1>1, <1>2, <1>3, MaxIs
<1> QED
  BY <1>4 DEF E!Size

LEMMA EmptySize ==
    ASSUME NEW v, v.type \in {"null", "array"}, DOMAIN v.items = {}
    PROVE  E!Size(v) = 0
BY DEF E!Size

LEMMA SizeOfArray ==
    ASSUME NEW v, E!IsValue(v), v.type = "array"
    PROVE  /\ E!Size(v) \in Nat
           /\ \A k \in DOMAIN v.items : k[1] \in Nat /\ k = <<k[1]>> /\ k[1] < E!Size(v)
           /\ DOMAIN v.items # {} => E!Size(v) > 0 /\ <<E!Size(v) - 1>> \in DOMAIN v.items
<1>1. CASE DOMAIN v.items = {}
  BY <1>1, EmptySize
<1>2. CASE DOMAIN v.items # {}
  <2>1. PICK top \in DOMAIN v.items : \A k \in DOMAIN v.items : k[1] <= top[1]
    BY <1>2 DEF E!IsValue, E!AreIndices
  <2>2. \A k \in DOMAIN v.items : k[1] \in Nat /\ k = <<k[1]>>
    BY DEF E!IsValue, E!AreIndices
  <2>3. top[1] \in Nat /\ <<top[1]>> \in DOMAIN v.items
    BY <2>1, <2>2
  <2>4. E!Size(v) = top[1] + 1
    BY <2>1, <2>3, SizeIs
  <2>5. E!Size(v) - 1 = top[1]
    BY <2>3, <2>4
  <2>6. <<E!Size(v) - 1>> \in DOMAIN v.items
    BY <2>3, <2>5
  <2> QED
    BY <2>1, <2>2, <2>3, <2>4, <2>6
<1> QED
  BY <1>1, <1>2

LEMMA SizeOfNull == ASSUME NEW v, E!IsValue(v), v.type = "null" PROVE E!Size(v) = 0
BY EmptySize DEF E!IsValue

(***************************************************************************)
(* operator [] makes the element, and the rest stays.                      *)
(***************************************************************************)
LEMMA IndexAdded ==
    ASSUME NEW S, E!AreIndices(S), NEW i \in Nat
    PROVE  E!AreIndices(S \cup {<<i>>})
<1> DEFINE T == S \cup {<<i>>}
<1>2. <<i>>[1] = i
  OBVIOUS
<1>1. \A k \in T : k[1] \in Nat /\ k = <<k[1]>>
  <2>1. \A k \in S : k[1] \in Nat /\ k = <<k[1]>>
    BY DEF E!AreIndices
  <2>2. ASSUME NEW k, k = <<i>> PROVE k[1] \in Nat /\ k = <<k[1]>>
    BY <2>2, <1>2
  <2> QED
    BY <2>1, <2>2
<1>3. \E top \in T : \A k \in T : k[1] <= top[1]
  <2>1. CASE S = {}
    BY <2>1, <1>2
  <2>2. CASE S # {}
    <3>1. PICK g \in S : \A k \in S : k[1] <= g[1]
      BY <2>2 DEF E!AreIndices
    <3>2. CASE g[1] <= i
      <4>1. \A k \in S : k[1] <= i
        BY <3>1, <3>2, <1>1
      <4>2. \A k \in T : k[1] <= <<i>>[1]
        BY <4>1, <1>2
      <4>3. <<i>> \in T
        OBVIOUS
      <4> HIDE DEF T
      <4> QED
        BY <4>2, <4>3
    <3>3. CASE i < g[1]
      <4>1. \A k \in S : k[1] <= g[1]
        BY <3>1
      <4>2. <<i>>[1] <= g[1]
        BY <3>3, <1>1, <1>2
      <4> QED
        BY <4>1, <4>2
    <3> QED
      BY <3>2, <3>3, <1>1
  <2> QED
    BY <2>1, <2>2
<1> QED
  BY <1>1, <1>3 DEF E!AreIndices

LEMMA MadeElement ==
    ASSUME NEW v, E!IsValue(v), v.type = "array", NEW i \in Nat
    PROVE  LET new == E!Made(v, <<i>>)
           IN  /\ E!IsValue(new) /\ new.type = "array"
               /\ DOMAIN new.items = DOMAIN v.items \cup {<<i>>}
               /\ \A k \in Nat : E!FindElement(new, k) = E!FindElement(v, k)
<1>1. CASE <<i>> \in DOMAIN v.items
  BY <1>1 DEF E!Made
<1>2. CASE <<i>> \notin DOMAIN v.items
  <2> DEFINE S == DOMAIN v.items \cup {<<i>>}
             f == [k \in S |-> IF k = <<i>> THEN E!Null ELSE v.items[k]]
             new == [v EXCEPT !.items = [k \in S |-> f[k]]]
  <2>1. E!AreIndices(DOMAIN v.items)
    BY DEF E!IsValue
  <2>2. E!AreIndices(S)
    BY <2>1, IndexAdded
  <2> HIDE DEF S
  <2>3. /\ E!IsValue(new) /\ new.type = v.type
        /\ DOMAIN new.items = S /\ \A k \in S : new.items[k] = f[k]
    <3> HIDE DEF f
    <3> QED
      BY <2>2, WithItems
  <2>4. [k \in S |-> f[k]] = [k \in S |-> IF k = <<i>> THEN E!Null ELSE v.items[k]]
    OBVIOUS
  <2>5. E!Made(v, <<i>>) = new
    BY <1>2, <2>4 DEF E!Made, S
  <2>6. \A k \in Nat : E!FindElement(new, k) = E!FindElement(v, k)
    <3> TAKE k \in Nat
    <3>1. CASE <<k>> = <<i>>
      BY <3>1, <2>3, <1>2 DEF E!FindElement, S
    <3>2. CASE <<k>> # <<i>> /\ <<k>> \in DOMAIN v.items
      BY <3>2, <2>3 DEF E!FindElement, S
    <3>3. CASE <<k>> # <<i>> /\ <<k>> \notin DOMAIN v.items
      BY <3>3, <2>3 DEF E!FindElement, S
    <3> QED
      BY <3>1, <3>2, <3>3
  <2> HIDE DEF new
  <2> QED
    BY <2>3, <2>5, <2>6 DEF S
<1> QED
  BY <1>1, <1>2

(***************************************************************************)
(* resize() that cuts: some of the indices remain.                         *)
(***************************************************************************)
LEMMA IndicesLeft ==
    ASSUME NEW S, E!AreIndices(S), NEW T, T \subseteq S
    PROVE  E!AreIndices(T)
<1>1. \A k \in S : k[1] \in Nat /\ k = <<k[1]>>
  BY DEF E!AreIndices
<1>2. ASSUME T # {} PROVE \E top \in T : \A k \in T : k[1] <= top[1]
  <2>1. PICK g \in S : \A k \in S : k[1] <= g[1]
    BY <1>2 DEF E!AreIndices
  <2> DEFINE bounds == {m \in Nat : \A k \in T : k[1] <= m}
  <2>2. g[1] \in bounds
    BY <1>1, <2>1
  <2>3. PICK m \in bounds : \A c \in bounds : m <= c
    <3>1. bounds \subseteq Nat
      OBVIOUS
    <3>2. bounds # {}
      BY <2>2
    <3> HIDE DEF bounds
    <3> QED
      BY <3>1, <3>2, LeastNat, Zenon
  <2>4. m \in Nat /\ \A k \in T : k[1] \in Nat /\ k[1] <= m
    BY <1>1
  <2>5. SUFFICES ASSUME \A k \in T : k[1] # m PROVE FALSE
    BY <2>4
  <2>6. \A k \in T : k[1] <= m - 1
    BY <2>4, <2>5
  <2>7. m - 1 \in Nat
    BY <1>2, <2>4, <2>6
  <2>8. m - 1 \in bounds
    BY <2>6, <2>7
  <2>9. m <= m - 1
    BY <2>3, <2>8
  <2> QED
    BY <2>4, <2>9
<1> QED
  BY <1>1, <1>2 DEF E!AreIndices

LEMMA ShrunkArray ==
    ASSUME NEW v, E!IsValue(v), v.type = "array", NEW length \in Nat
    PROVE  LET new == E!Shrunk(v, length)
           IN  /\ E!IsValue(new) /\ new.type = "array"
               /\ DOMAIN new.items = {k \in DOMAIN v.items : k[1] < length}
               /\ \A k \in Nat : k < length => E!FindElement(new, k) = E!FindElement(v, k)
<1> DEFINE S == {k \in DOMAIN v.items : k[1] < length}
           f == v.items
           new == [v EXCEPT !.items = [k \in S |-> f[k]]]
<1>1. E!AreIndices(S)
  BY IndicesLeft DEF E!IsValue
<1>2. E!Shrunk(v, length) = new
  BY DEF E!Shrunk
<1>3. /\ E!IsValue(new) /\ new.type = v.type
      /\ DOMAIN new.items = S /\ \A k \in S : new.items[k] = f[k]
  <2> HIDE DEF f, S
  <2> QED
    BY <1>1, WithItems
<1>4. \A k \in Nat : k < length => (<<k>> \in S <=> <<k>> \in DOMAIN v.items)
  OBVIOUS
<1>5. \A k \in Nat : k < length => E!FindElement(new, k) = E!FindElement(v, k)
  <2> HIDE DEF S, new
  <2> QED
    BY <1>3, <1>4 DEF E!FindElement
<1> HIDE DEF new
<1> QED
  BY <1>2, <1>3, <1>5

(***************************************************************************)
(* What is put in place of an item.                                        *)
(***************************************************************************)
LEMMA PutItem ==
    ASSUME NEW v, E!IsValue(v), NEW key \in DOMAIN v.items, NEW x
    PROVE  LET new == E!Put(v, key, x)
           IN  /\ E!IsValue(new) /\ new.type = v.type
               /\ DOMAIN new.items = DOMAIN v.items
               /\ new.items[key] = E!Assign(v.items[key], x)
               /\ \A k \in DOMAIN v.items : k # key => new.items[k] = v.items[k]
BY DEF E!IsValue, E!Put

(* The array that the operators [] and resize() go on with.                *)
Started(v) == IF v.type = "null" THEN E!Assign(v, E!Value("array")) ELSE v

LEMMA StartedArray ==
    ASSUME NEW v, E!IsValue(v), v.type \in {"null", "array"}
    PROVE  /\ E!IsValue(Started(v)) /\ Started(v).type = "array"
           /\ DOMAIN Started(v).items = DOMAIN v.items
           /\ E!Size(Started(v)) = E!Size(v)
           /\ \A k \in Nat : E!FindElement(Started(v), k) = E!FindElement(v, k)
<1>1. CASE v.type = "array"
  BY <1>1 DEF Started
<1>2. CASE v.type = "null"
  <2>1. E!IsValue(Started(v)) /\ Started(v).type = "array" /\ DOMAIN Started(v).items = {}
    BY <1>2, EmptyIsValue DEF Started
  <2>2. DOMAIN v.items = {}
    BY <1>2 DEF E!IsValue
  <2>3. E!Size(Started(v)) = 0 /\ E!Size(v) = 0
    BY <2>1, <2>2, EmptySize
  <2>4. \A k \in Nat : E!FindElement(Started(v), k) = E!FindElement(v, k)
    BY <2>1, <2>2 DEF E!FindElement
  <2> QED
    BY <2>1, <2>2, <2>3, <2>4
<1> QED
  BY <1>1, <1>2

LEMMA SetElementIs ==
    ASSUME NEW v, E!IsValue(v), v.type \in {"null", "array"}, NEW i \in Nat, NEW x
    PROVE  LET new == E!SetElement(v, i, x)
           IN  /\ E!IsValue(new) /\ new.type = "array"
               /\ DOMAIN new.items = DOMAIN v.items \cup {<<i>>}
               /\ new.items[<<i>>] = E!Assign(E!FindElement(v, i), x)
               /\ \A k \in Nat : k # i => E!FindElement(new, k) = E!FindElement(v, k)
<1> DEFINE made == E!Made(Started(v), <<i>>)
           new == E!SetElement(v, i, x)
<1>1. /\ E!IsValue(Started(v)) /\ Started(v).type = "array"
      /\ DOMAIN Started(v).items = DOMAIN v.items
      /\ \A k \in Nat : E!FindElement(Started(v), k) = E!FindElement(v, k)
  BY StartedArray
<1>2. /\ E!IsValue(made) /\ made.type = "array"
      /\ DOMAIN made.items = DOMAIN v.items \cup {<<i>>}
      /\ \A k \in Nat : E!FindElement(made, k) = E!FindElement(v, k)
  BY <1>1, MadeElement
<1>3. new = E!Put(made, <<i>>, x)
  BY DEF E!SetElement, E!Element, Started
<1> HIDE DEF made, new
<1>4. <<i>> \in DOMAIN made.items
  BY <1>2
<1>5. /\ E!IsValue(new) /\ new.type = made.type
      /\ DOMAIN new.items = DOMAIN made.items
      /\ new.items[<<i>>] = E!Assign(made.items[<<i>>], x)
      /\ \A k \in DOMAIN made.items : k # <<i>> => new.items[k] = made.items[k]
  BY <1>2, <1>3, <1>4, PutItem
<1>6. made.items[<<i>>] = E!FindElement(v, i)
  <2>1. E!FindElement(made, i) = E!FindElement(v, i)
    BY <1>2
  <2> QED
    BY <2>1, <1>4 DEF E!FindElement
<1>7. \A k \in Nat : k # i => E!FindElement(new, k) = E!FindElement(v, k)
  <2> SUFFICES ASSUME NEW k \in Nat, k # i PROVE E!FindElement(new, k) = E!FindElement(made, k)
    BY <1>2
  <2>1. <<k>> # <<i>>
    <3>1. <<k>>[1] = k /\ <<i>>[1] = i
      OBVIOUS
    <3> QED
      BY <3>1
  <2> QED
    BY <2>1, <1>5 DEF E!FindElement
<1> QED
  BY <1>2, <1>5, <1>6, <1>7 DEF new

LEMMA SizeAfterSet ==
    ASSUME NEW v, E!IsValue(v), v.type \in {"null", "array"}, NEW i \in Nat, NEW x
    PROVE  /\ E!Size(v) \in Nat
           /\ E!Size(E!SetElement(v, i, x)) = E!Max({i + 1, E!Size(v)})
<1> DEFINE new == E!SetElement(v, i, x)
<1>1. E!IsValue(new) /\ new.type = "array" /\ DOMAIN new.items = DOMAIN v.items \cup {<<i>>}
  BY SetElementIs
<1> HIDE DEF new
<1>2. E!IsValue(Started(v)) /\ Started(v).type = "array"
      /\ DOMAIN Started(v).items = DOMAIN v.items /\ E!Size(Started(v)) = E!Size(v)
  BY StartedArray
<1>3. /\ E!Size(v) \in Nat
      /\ \A k \in DOMAIN v.items : k[1] \in Nat /\ k[1] < E!Size(v)
      /\ DOMAIN v.items # {} => E!Size(v) > 0 /\ <<E!Size(v) - 1>> \in DOMAIN v.items
      /\ DOMAIN v.items = {} => E!Size(v) = 0
  <2>1. DOMAIN v.items = {} => E!Size(v) = 0
    BY EmptySize
  <2> QED
    BY <1>2, <2>1, SizeOfArray
<1>4. <<i>>[1] = i
  OBVIOUS
<1>5. CASE E!Size(v) <= i + 1
  <2>1. E!Max({i + 1, E!Size(v)}) = i + 1
    <3> DEFINE S == {i + 1, E!Size(v)}
    <3>1. S \subseteq Int /\ i + 1 \in S /\ \A y \in S : y <= i + 1
      BY <1>3, <1>5
    <3> HIDE DEF S
    <3>2. E!Max(S) = i + 1
      BY <3>1, MaxIs
    <3> QED
      BY <3>2 DEF S
  <2>2. \A k \in DOMAIN v.items : k[1] <= i
    BY <1>3, <1>5
  <2>3. \A k \in DOMAIN new.items : k[1] <= i
    BY <1>1, <1>4, <2>2
  <2>4. <<i>> \in DOMAIN new.items
    BY <1>1
  <2>5. E!Size(new) = i + 1
    BY <1>1, <2>3, <2>4, SizeIs
  <2> QED
    BY <1>3, <2>1, <2>5 DEF new
<1>6. CASE i + 1 < E!Size(v)
  <2> DEFINE s == E!Size(v) - 1
  <2>1. E!Max({i + 1, E!Size(v)}) = E!Size(v)
    <3> DEFINE S == {i + 1, E!Size(v)}
    <3>1. S \subseteq Int /\ E!Size(v) \in S /\ \A y \in S : y <= E!Size(v)
      BY <1>3, <1>6
    <3> HIDE DEF S
    <3>2. E!Max(S) = E!Size(v)
      BY <3>1, MaxIs
    <3> QED
      BY <3>2 DEF S
  <2>2. DOMAIN v.items # {}
    BY <1>3, <1>6
  <2>3. s \in Nat /\ s + 1 = E!Size(v) /\ i <= s
    BY <1>3, <1>6
  <2>4. <<s>> \in DOMAIN v.items
    BY <1>3, <2>2
  <2>5. \A k \in DOMAIN v.items : k[1] <= s
    BY <1>3, <2>3
  <2> HIDE DEF s
  <2>6. <<s>> \in DOMAIN new.items /\ \A k \in DOMAIN new.items : k[1] <= s
    BY <1>1, <1>4, <2>3, <2>4, <2>5
  <2>7. E!Size(new) = s + 1
    BY <1>1, <2>3, <2>6, SizeIs
  <2> QED
    BY <1>3, <2>1, <2>3, <2>7 DEF new
<1> QED
  BY <1>3, <1>5, <1>6

LEMMA ListAfterSet ==
    ASSUME NEW v, E!IsValue(v), v.type \in {"null", "array"}, NEW i \in Nat, NEW x
    PROVE  E!IsArrayOf(E!SetElement(v, i, x),
                       [k \in 1..E!Max({i + 1, E!Size(v)}) |->
                           IF k = i + 1 THEN E!Assign(E!FindElement(v, i), x) ELSE E!FindElement(v, k - 1)])
<1> DEFINE new == E!SetElement(v, i, x)
           n == E!Max({i + 1, E!Size(v)})
<1>1. E!Size(new) = n
  BY SizeAfterSet
<1>2. /\ new.type = "array" /\ <<i>> \in DOMAIN new.items
      /\ new.items[<<i>>] = E!Assign(E!FindElement(v, i), x)
      /\ \A k \in Nat : k # i => E!FindElement(new, k) = E!FindElement(v, k)
  BY SetElementIs
<1> HIDE DEF new, n
<1>3. E!FindElement(new, i) = E!Assign(E!FindElement(v, i), x)
  BY <1>2 DEF E!FindElement
<1>4. ASSUME NEW k \in 1..n
      PROVE  E!FindElement(new, k - 1) =
                IF k = i + 1 THEN E!Assign(E!FindElement(v, i), x) ELSE E!FindElement(v, k - 1)
  <2>1. k \in Int /\ k - 1 \in Nat
    OBVIOUS
  <2>2. CASE k = i + 1
    <3>1. k - 1 = i
      BY <2>2
    <3> QED
      BY <2>2, <3>1, <1>3
  <2>3. CASE k # i + 1
    <3>1. k - 1 # i
      BY <2>1, <2>3
    <3> QED
      BY <2>1, <2>3, <3>1, <1>2
  <2> QED
    BY <2>2, <2>3
<1>5. E!List(new) = [k \in 1..n |-> E!FindElement(new, k - 1)]
  BY <1>1 DEF E!List
<1>6. [k \in 1..n |-> E!FindElement(new, k - 1)] =
      [k \in 1..n |-> IF k = i + 1 THEN E!Assign(E!FindElement(v, i), x) ELSE E!FindElement(v, k - 1)]
  BY <1>4
<1>7. E!List(new) = [k \in 1..n |-> IF k = i + 1 THEN E!Assign(E!FindElement(v, i), x) ELSE E!FindElement(v, k - 1)]
  BY <1>5, <1>6
<1> QED
  BY <1>2, <1>7 DEF E!IsArrayOf, new, n

LEMMA ShrunkSize ==
    ASSUME NEW v, E!IsValue(v), v.type = "array", NEW length \in Nat, <<length - 1>> \in DOMAIN v.items
    PROVE  E!Size(E!Shrunk(v, length)) = length
<1> DEFINE new == E!Shrunk(v, length)
           s == length - 1
<1>1. /\ E!IsValue(new) /\ new.type = "array"
      /\ DOMAIN new.items = {k \in DOMAIN v.items : k[1] < length}
  BY ShrunkArray
<1> HIDE DEF new
<1>2. \A k \in DOMAIN v.items : k[1] \in Nat
  BY DEF E!IsValue, E!AreIndices
<1>3. <<s>> \in DOMAIN v.items /\ <<s>>[1] = s
  OBVIOUS
<1>4. s \in Nat /\ s < length /\ s + 1 = length
  <2>1. s \in Nat
    BY <1>2, <1>3
  <2> QED
    BY <2>1
<1> HIDE DEF s
<1>5. <<s>> \in DOMAIN new.items
  BY <1>1, <1>3, <1>4
<1>6. \A k \in DOMAIN new.items : k[1] <= s
  BY <1>1, <1>2, <1>4
<1>7. E!Size(new) = s + 1
  BY <1>1, <1>4, <1>5, <1>6, SizeIs
<1> QED
  BY <1>4, <1>7 DEF new

LEMMA ElementIs ==
    ASSUME NEW v, E!IsValue(v), v.type \in {"null", "array"}, NEW i \in Nat, E!Size(v) <= i
    PROVE  LET new == E!Element(v, i)
           IN  /\ E!IsValue(new) /\ new.type = "array" /\ E!Size(new) = i + 1
               /\ \A k \in Nat : E!FindElement(new, k) = E!FindElement(v, k)
<1> DEFINE new == E!Made(Started(v), <<i>>)
<1>1. /\ E!IsValue(Started(v)) /\ Started(v).type = "array"
      /\ DOMAIN Started(v).items = DOMAIN v.items /\ E!Size(Started(v)) = E!Size(v)
      /\ \A k \in Nat : E!FindElement(Started(v), k) = E!FindElement(v, k)
  BY StartedArray
<1>2. /\ E!IsValue(new) /\ new.type = "array"
      /\ DOMAIN new.items = DOMAIN v.items \cup {<<i>>}
      /\ \A k \in Nat : E!FindElement(new, k) = E!FindElement(v, k)
  BY <1>1, MadeElement
<1>3. new = E!Element(v, i)
  BY DEF E!Element, Started
<1> HIDE DEF new
<1>4. E!Size(v) \in Nat /\ \A k \in DOMAIN v.items : k[1] \in Nat /\ k[1] < E!Size(v)
  BY <1>1, SizeOfArray
<1>5. \A k \in DOMAIN v.items : k[1] <= i
  BY <1>4
<1>6. <<i>> \in DOMAIN new.items /\ <<i>>[1] = i
  BY <1>2
<1>7. \A k \in DOMAIN new.items : k[1] <= i
  BY <1>2, <1>5, <1>6
<1>8. E!Size(new) = i + 1
  BY <1>2, <1>6, <1>7, SizeIs
<1> QED
  BY <1>2, <1>3, <1>8

(* resize() makes an array with the new size, which has the elements that  *)
(* were there, or aborts because the last one to stay is not in the map.   *)
LEMMA ResizeIs ==
    ASSUME NEW v, E!IsValue(v), v.type \in {"null", "array"}, NEW length \in Nat,
           ~E!ResizeAborts(v, length)
    PROVE  LET new == E!Resize(v, length)
           IN  /\ E!IsValue(new) /\ new.type = "array" /\ E!Size(new) = length
               /\ \A k \in Nat : k < length => E!FindElement(new, k) = E!FindElement(v, k)
<1> DEFINE a == Started(v)
<1>1. /\ E!IsValue(a) /\ a.type = "array" /\ E!Size(a) = E!Size(v)
      /\ DOMAIN a.items = DOMAIN v.items
      /\ \A k \in Nat : E!FindElement(a, k) = E!FindElement(v, k)
  BY StartedArray
<1>2. E!Size(a) \in Nat
  BY <1>1, SizeOfArray
<1>3. CASE length = 0
  <2>1. E!Resize(v, length) = E!Clear(a)
    BY <1>2, <1>3 DEF E!Resize, Started
  <2> HIDE DEF a
  <2>2. E!IsValue(E!Clear(a)) /\ E!Clear(a).type = "array" /\ DOMAIN E!Clear(a).items = {}
    BY <1>1 DEF E!Clear, E!IsValue, E!AreIndices
  <2>3. E!Size(E!Clear(a)) = 0
    BY <2>2, EmptySize
  <2> QED
    BY <1>3, <2>1, <2>2, <2>3
<1>4. CASE length # 0 /\ length > E!Size(a)
  <2>1. E!Resize(v, length) = E!Element(a, length - 1)
    BY <1>4 DEF E!Resize, Started
  <2> HIDE DEF a
  <2>2. length - 1 \in Nat /\ E!Size(a) <= length - 1 /\ (length - 1) + 1 = length
    BY <1>2, <1>4
  <2>3. LET new == E!Element(a, length - 1)
        IN  /\ E!IsValue(new) /\ new.type = "array" /\ E!Size(new) = (length - 1) + 1
            /\ \A k \in Nat : E!FindElement(new, k) = E!FindElement(a, k)
    BY <1>1, <2>2, ElementIs
  <2> QED
    BY <1>1, <2>1, <2>2, <2>3
<1>5. CASE length # 0 /\ ~(length > E!Size(a))
  <2>1. E!Resize(v, length) = E!Shrunk(a, length)
    BY <1>5 DEF E!Resize, Started
  <2>2. length \in 1..E!Size(v)
    BY <1>1, <1>2, <1>5
  <2>3. v.type = "array"
    BY <2>2, SizeOfNull
  <2>4. a = v
    BY <2>3 DEF Started
  <2>5. E!Size(E!Shrunk(a, length)) = length
    BY <2>2, <2>3, <2>4 DEF E!ResizeAborts
  <2> HIDE DEF a
  <2>6. LET new == E!Shrunk(a, length)
        IN  /\ E!IsValue(new) /\ new.type = "array"
            /\ \A k \in Nat : k < length => E!FindElement(new, k) = E!FindElement(a, k)
    BY <1>1, ShrunkArray
  <2> QED
    BY <1>1, <2>1, <2>5, <2>6
<1> QED
  BY <1>3, <1>4, <1>5

LEMMA ListAfterResize ==
    ASSUME NEW v, E!IsValue(v), v.type \in {"null", "array"}, NEW length \in Nat
    PROVE  IF E!ResizeAborts(v, length) THEN <<length - 1>> \notin DOMAIN v.items
           ELSE E!IsArrayOf(E!Resize(v, length), [k \in 1..length |-> E!FindElement(v, k - 1)])
<1>1. CASE E!ResizeAborts(v, length)
  <2>1. v.type = "array" /\ E!Size(E!Shrunk(v, length)) # length
    BY <1>1 DEF E!ResizeAborts
  <2> QED
    BY <1>1, <2>1, ShrunkSize
<1>2. CASE ~E!ResizeAborts(v, length)
  <2> DEFINE new == E!Resize(v, length)
  <2>1. /\ new.type = "array" /\ E!Size(new) = length
        /\ \A k \in Nat : k < length => E!FindElement(new, k) = E!FindElement(v, k)
    BY <1>2, ResizeIs
  <2> HIDE DEF new
  <2>2. ASSUME NEW k \in 1..length PROVE E!FindElement(new, k - 1) = E!FindElement(v, k - 1)
    <3>1. k - 1 \in Nat /\ k - 1 < length
      OBVIOUS
    <3> QED
      BY <2>1, <3>1
  <2>3. E!List(new) = [k \in 1..length |-> E!FindElement(new, k - 1)]
    BY <2>1 DEF E!List
  <2>4. [k \in 1..length |-> E!FindElement(new, k - 1)] = [k \in 1..length |-> E!FindElement(v, k - 1)]
    BY <2>2
  <2>5. E!IsArrayOf(new, [k \in 1..length |-> E!FindElement(v, k - 1)])
    BY <2>1, <2>3, <2>4 DEF E!IsArrayOf
  <2> QED
    BY <1>2, <2>5 DEF new
<1> QED
  BY <1>1, <1>2

(***************************************************************************)
(* The program, step by step.                                              *)
(***************************************************************************)
AreValues == E!IsValue(root) /\ \A k \in DOMAIN root.items : E!IsValue(root.items[k])

LEMMA ReferredIsValue ==
    ASSUME AreValues, NEW place \in E!Places
    PROVE  /\ E!IsValue(E!Referred(place))
           /\ place # <<>> => place[1] \in DOMAIN root.items
           /\ place = <<>> => \A k \in DOMAIN E!Referred(place).items :
                                   E!IsValue(E!Referred(place).items[k])
<1>1. CASE place = <<>>
  BY <1>1 DEF AreValues, E!Referred
<1>2. CASE place # <<>>
  <2>1. PICK k \in DOMAIN root.items : place = <<k>>
    BY <1>2 DEF E!Places
  <2>2. place[1] = k
    BY <2>1
  <2> QED
    BY <1>2, <2>1, <2>2 DEF AreValues, E!Referred
<1> QED
  BY <1>1, <1>2

(* What takes the place of the value, with its items, or of an item.       *)
LEMMA BecomesValue ==
    ASSUME AreValues, NEW place \in E!Places, NEW new, E!IsValue(new),
           place = <<>> => \A k \in DOMAIN new.items : E!IsValue(new.items[k]),
           E!Become(place, new)
    PROVE  AreValues'
<1>1. CASE place = <<>>
  BY <1>1 DEF AreValues, E!Become
<1>2. CASE place # <<>>
  <2>1. place[1] \in DOMAIN root.items
    BY <1>2, ReferredIsValue
  <2>2. root' = [root EXCEPT !.items[place[1]] = new]
    BY <1>2 DEF E!Become
  <2>3. E!IsValue(root')
    BY <2>1, <2>2 DEF AreValues, E!IsValue
  <2>4. \A k \in DOMAIN root'.items : root'.items[k] = new \/ root'.items[k] = root.items[k]
    BY <2>1, <2>2 DEF AreValues, E!IsValue
  <2>5. DOMAIN root'.items = DOMAIN root.items
    BY <2>1, <2>2 DEF AreValues, E!IsValue
  <2>6. \A k \in DOMAIN root'.items : E!IsValue(root'.items[k])
    BY <2>4, <2>5 DEF AreValues
  <2> QED
    BY <2>3, <2>6 DEF AreValues
<1> QED
  BY <1>1, <1>2

(* The operations give values, whose items are values if those of v are.   *)
ItemsAreValues(v) == \A k \in DOMAIN v.items : E!IsValue(v.items[k])

LEMMA FoundIsValue ==
    ASSUME NEW v, ItemsAreValues(v), NEW i
    PROVE  E!IsValue(E!FindElement(v, i))
BY NullIsValue DEF ItemsAreValues, E!FindElement

LEMMA ItemsFound ==
    ASSUME NEW v, E!IsValue(v), v.type = "array",
           \A i \in Nat : i < E!Size(v) => E!IsValue(E!FindElement(v, i))
    PROVE  ItemsAreValues(v)
<1> SUFFICES ASSUME NEW k \in DOMAIN v.items PROVE E!IsValue(v.items[k])
  BY DEF ItemsAreValues
<1>1. k[1] \in Nat /\ k = <<k[1]>> /\ k[1] < E!Size(v)
  BY SizeOfArray
<1>2. PICK i \in Nat : k = <<i>> /\ i < E!Size(v)
  <2> DEFINE j == k[1]
  <2>1. j \in Nat /\ k = <<j>> /\ j < E!Size(v)
    BY <1>1
  <2> HIDE DEF j
  <2> QED
    BY <2>1
<1>3. E!FindElement(v, i) = v.items[<<i>>]
  BY <1>2 DEF E!FindElement
<1>4. E!IsValue(E!FindElement(v, i))
  BY <1>2
<1> QED
  BY <1>2, <1>3, <1>4

LEMMA SetElementValue ==
    ASSUME NEW v, E!IsValue(v), v.type \in {"null", "array"}, NEW i \in Nat, NEW x \in Samples
    PROVE  /\ E!IsValue(E!SetElement(v, i, x))
           /\ ItemsAreValues(v) => ItemsAreValues(E!SetElement(v, i, x))
<1> DEFINE new == E!SetElement(v, i, x)
<1>1. /\ E!IsValue(new) /\ new.type = "array"
      /\ <<i>> \in DOMAIN new.items
      /\ new.items[<<i>>] = E!Assign(E!FindElement(v, i), x)
      /\ \A k \in Nat : k # i => E!FindElement(new, k) = E!FindElement(v, k)
  BY SetElementIs
<1> HIDE DEF new
<1>2. E!IsValue(x)
  BY JsonAssumptions
<1>3. E!FindElement(new, i) = E!Assign(E!FindElement(v, i), x)
  BY <1>1 DEF E!FindElement
<1>4. E!IsValue(E!FindElement(new, i))
  BY <1>2, <1>3, AssignedIsValue
<1>5. ASSUME ItemsAreValues(v) PROVE ItemsAreValues(new)
  <2>1. \A k \in Nat : E!IsValue(E!FindElement(new, k))
    <3> TAKE k \in Nat
    <3>1. E!IsValue(E!FindElement(v, k))
      BY <1>5, FoundIsValue
    <3> QED
      BY <1>1, <1>4, <3>1
  <2> QED
    BY <1>1, <2>1, ItemsFound
<1> QED
  BY <1>1, <1>5 DEF new

LEMMA SizeIsNat ==
    ASSUME NEW v, E!IsValue(v), v.type \in {"null", "array"}
    PROVE  E!Size(v) \in Nat
<1>1. CASE v.type = "null"
  BY <1>1, SizeOfNull
<1>2. CASE v.type = "array"
  BY <1>2, SizeOfArray
<1> QED
  BY <1>1, <1>2

LEMMA ResizeValue ==
    ASSUME NEW v, E!IsValue(v), v.type \in {"null", "array"}, NEW length \in Nat,
           ~E!ResizeAborts(v, length)
    PROVE  /\ E!IsValue(E!Resize(v, length))
           /\ ItemsAreValues(v) => ItemsAreValues(E!Resize(v, length))
<1> DEFINE new == E!Resize(v, length)
<1>1. /\ E!IsValue(new) /\ new.type = "array" /\ E!Size(new) = length
      /\ \A k \in Nat : k < length => E!FindElement(new, k) = E!FindElement(v, k)
  BY ResizeIs
<1> HIDE DEF new
<1>2. ASSUME ItemsAreValues(v) PROVE ItemsAreValues(new)
  <2>1. \A k \in Nat : k < E!Size(new) => E!IsValue(E!FindElement(new, k))
    <3> SUFFICES ASSUME NEW k \in Nat, k < length PROVE E!IsValue(E!FindElement(new, k))
      BY <1>1
    <3>1. E!IsValue(E!FindElement(v, k))
      BY <1>2, FoundIsValue
    <3> QED
      BY <1>1, <3>1
  <2> QED
    BY <1>1, <2>1, ItemsFound
<1> QED
  BY <1>1, <1>2 DEF new

(* An object, made of a value that has no type yet.                        *)
Opened(v) == IF v.type = "null" THEN E!Assign(v, E!Value("object")) ELSE v

LEMMA OpenedObject ==
    ASSUME NEW v, E!IsValue(v), v.type \in {"null", "object"}
    PROVE  /\ E!IsValue(Opened(v)) /\ Opened(v).type = "object"
           /\ ItemsAreValues(v) => ItemsAreValues(Opened(v))
<1>1. CASE v.type = "object"
  BY <1>1 DEF Opened
<1>2. CASE v.type = "null"
  <2>1. E!IsValue(Opened(v)) /\ Opened(v).type = "object" /\ DOMAIN Opened(v).items = {}
    BY <1>2, EmptyIsValue DEF Opened
  <2> QED
    BY <2>1 DEF ItemsAreValues
<1> QED
  BY <1>1, <1>2

LEMMA MadeMember ==
    ASSUME NEW v, E!IsValue(v), v.type = "object", NEW name
    PROVE  LET new == E!Made(v, name)
           IN  /\ E!IsValue(new) /\ new.type = "object" /\ name \in DOMAIN new.items
               /\ ItemsAreValues(v) => ItemsAreValues(new)
<1>1. CASE name \in DOMAIN v.items
  BY <1>1 DEF E!Made
<1>2. CASE name \notin DOMAIN v.items
  <2> DEFINE S == DOMAIN v.items \cup {name}
             f == [k \in S |-> IF k = name THEN E!Null ELSE v.items[k]]
             new == [v EXCEPT !.items = [k \in S |-> f[k]]]
  <2>1. E!Made(v, name) = new
    BY <1>2 DEF E!Made
  <2>2. \A k \in S : f[k] = E!Null \/ (k \in DOMAIN v.items /\ f[k] = v.items[k])
    OBVIOUS
  <2>3. name \in S
    OBVIOUS
  <2> HIDE DEF S, f
  <2>4. /\ E!IsValue(new) /\ new.type = v.type
        /\ DOMAIN new.items = S /\ \A k \in S : new.items[k] = f[k]
    BY WithItems
  <2> HIDE DEF new
  <2>5. ItemsAreValues(v) => ItemsAreValues(new)
    BY <2>2, <2>4, NullIsValue DEF ItemsAreValues
  <2> QED
    BY <2>1, <2>3, <2>4, <2>5
<1> QED
  BY <1>1, <1>2

LEMMA SetMemberValue ==
    ASSUME NEW v, E!IsValue(v), v.type \in {"null", "object"}, NEW name, NEW x \in Samples
    PROVE  /\ E!IsValue(E!SetMember(v, name, x))
           /\ ItemsAreValues(v) => ItemsAreValues(E!SetMember(v, name, x))
<1> DEFINE made == E!Made(Opened(v), name)
           new == E!SetMember(v, name, x)
<1>1. /\ E!IsValue(Opened(v)) /\ Opened(v).type = "object"
      /\ ItemsAreValues(v) => ItemsAreValues(Opened(v))
  BY OpenedObject
<1>2. /\ E!IsValue(made) /\ name \in DOMAIN made.items
      /\ ItemsAreValues(v) => ItemsAreValues(made)
  BY <1>1, MadeMember
<1>3. new = E!Put(made, name, x)
  BY DEF E!SetMember, E!Member, Opened
<1> HIDE DEF made, new
<1>4. /\ E!IsValue(new) /\ DOMAIN new.items = DOMAIN made.items
      /\ new.items[name] = E!Assign(made.items[name], x)
      /\ \A k \in DOMAIN made.items : k # name => new.items[k] = made.items[k]
  BY <1>2, <1>3, PutItem
<1>5. E!IsValue(new.items[name])
  BY <1>4, JsonAssumptions, AssignedIsValue
<1>6. ItemsAreValues(made) => ItemsAreValues(new)
  BY <1>4, <1>5 DEF ItemsAreValues
<1> QED
  BY <1>2, <1>4, <1>6 DEF new

LEMMA RemoveMemberValue ==
    ASSUME NEW v, E!IsValue(v), v.type \in {"null", "object"}, NEW name
    PROVE  /\ E!IsValue(E!RemoveMember(v, name))
           /\ ItemsAreValues(v) => ItemsAreValues(E!RemoveMember(v, name))
<1> DEFINE S == DOMAIN v.items \ {name}
           f == v.items
           new == [v EXCEPT !.items = [k \in S |-> f[k]]]
<1>1. E!RemoveMember(v, name) = new
  BY DEF E!RemoveMember
<1>2. v.type \in {"array", "object"} \/ S = {}
  BY DEF E!IsValue
<1>3. S \subseteq DOMAIN v.items /\ v.type # "array"
  OBVIOUS
<1> HIDE DEF S
<1>4. /\ E!IsValue(new) /\ DOMAIN new.items = S /\ \A k \in S : new.items[k] = f[k]
  <2> HIDE DEF f
  <2> QED
    BY <1>2, <1>3, WithItems
<1> HIDE DEF new
<1>5. ItemsAreValues(v) => ItemsAreValues(new)
  BY <1>3, <1>4 DEF ItemsAreValues
<1> QED
  BY <1>1, <1>4, <1>5

LEMMA ClearValue ==
    ASSUME NEW v, E!IsValue(v)
    PROVE  E!IsValue(E!Clear(v)) /\ ItemsAreValues(E!Clear(v))
BY DEF E!IsValue, E!Clear, E!AreIndices, ItemsAreValues

LEMMA SetCommentValue ==
    ASSUME NEW v, E!IsValue(v), NEW placement, NEW text
    PROVE  /\ E!IsValue(E!SetComment(v, placement, text))
           /\ ItemsAreValues(v) => ItemsAreValues(E!SetComment(v, placement, text))
<1>1. /\ E!IsValue(E!SetComment(v, placement, text))
      /\ E!SetComment(v, placement, text).items = v.items
  BY DEF E!IsValue, E!SetComment
<1> QED
  BY <1>1 DEF ItemsAreValues

LEMMA BecomesNewValue ==
    ASSUME AreValues, NEW place \in E!Places, NEW new, E!IsValue(new),
           ItemsAreValues(E!Referred(place)) => ItemsAreValues(new),
           E!Become(place, new)
    PROVE  AreValues'
<1>1. place = <<>> => ItemsAreValues(E!Referred(place))
  BY ReferredIsValue DEF ItemsAreValues
<1>2. place = <<>> => \A k \in DOMAIN new.items : E!IsValue(new.items[k])
  BY <1>1 DEF ItemsAreValues
<1> QED
  BY <1>2, BecomesValue

LEMMA OnArrayKeepsValues ==
    ASSUME AreValues, NEW place \in E!Places, NEW v, v = E!Referred(place),
           v.type \in {"null", "array"}, E!OnArray(place, v)
    PROVE  AreValues'
<1>1. E!IsValue(v)
  BY ReferredIsValue
<1>2. CASE \E i \in 0..(MaxSize - 1), x \in Samples : E!Become(place, E!SetElement(v, i, x))
  <2>1. PICK i \in Nat, x \in Samples : E!Become(place, E!SetElement(v, i, x))
    BY <1>2
  <2>2. /\ E!IsValue(E!SetElement(v, i, x))
        /\ ItemsAreValues(v) => ItemsAreValues(E!SetElement(v, i, x))
    BY <1>1, SetElementValue
  <2> QED
    BY <2>1, <2>2, BecomesNewValue
<1>3. CASE \E x \in Samples : E!Become(place, E!AppendElement(v, x))
  <2>1. PICK x \in Samples : E!Become(place, E!AppendElement(v, x))
    BY <1>3
  <2>2. E!Size(v) \in Nat
    BY <1>1, SizeIsNat
  <2>3. /\ E!IsValue(E!SetElement(v, E!Size(v), x))
        /\ ItemsAreValues(v) => ItemsAreValues(E!SetElement(v, E!Size(v), x))
    BY <1>1, <2>2, SetElementValue
  <2>4. E!AppendElement(v, x) = E!SetElement(v, E!Size(v), x)
    BY DEF E!AppendElement
  <2> QED
    BY <2>1, <2>3, <2>4, BecomesNewValue
<1>4. CASE \E length \in 0..MaxSize : ~E!ResizeAborts(v, length) /\ E!Become(place, E!Resize(v, length))
  <2>1. PICK length \in Nat : ~E!ResizeAborts(v, length) /\ E!Become(place, E!Resize(v, length))
    BY <1>4
  <2>2. /\ E!IsValue(E!Resize(v, length))
        /\ ItemsAreValues(v) => ItemsAreValues(E!Resize(v, length))
    BY <1>1, <2>1, ResizeValue
  <2> QED
    BY <2>1, <2>2, BecomesNewValue
<1>5. CASE UNCHANGED root
  BY <1>5 DEF AreValues
<1> QED
  BY <1>2, <1>3, <1>4, <1>5 DEF E!OnArray

LEMMA OnObjectKeepsValues ==
    ASSUME AreValues, NEW place \in E!Places, NEW v, v = E!Referred(place),
           v.type \in {"null", "object"}, E!OnObject(place, v)
    PROVE  AreValues'
<1>1. E!IsValue(v)
  BY ReferredIsValue
<1>2. CASE \E name \in Names, x \in Samples : E!Become(place, E!SetMember(v, name, x))
  <2>1. PICK name \in Names, x \in Samples : E!Become(place, E!SetMember(v, name, x))
    BY <1>2
  <2>2. /\ E!IsValue(E!SetMember(v, name, x))
        /\ ItemsAreValues(v) => ItemsAreValues(E!SetMember(v, name, x))
    BY <1>1, SetMemberValue
  <2> QED
    BY <2>1, <2>2, BecomesNewValue
<1>3. CASE \E name \in Names : E!Become(place, E!RemoveMember(v, name))
  <2>1. PICK name \in Names : E!Become(place, E!RemoveMember(v, name))
    BY <1>3
  <2>2. /\ E!IsValue(E!RemoveMember(v, name))
        /\ ItemsAreValues(v) => ItemsAreValues(E!RemoveMember(v, name))
    BY <1>1, RemoveMemberValue
  <2> QED
    BY <2>1, <2>2, BecomesNewValue
<1> QED
  BY <1>2, <1>3 DEF E!OnObject

LEMMA ValuesStep == AreValues /\ [E!Operate]_E!edited => AreValues'
<1> SUFFICES ASSUME AreValues, [E!Operate]_E!edited PROVE AreValues'
  OBVIOUS
<1>1. CASE E!Operate
  <2>1. PICK place \in E!Places :
           LET v == E!Referred(place)
           IN  \/ v.type \in {"null", "array"} /\ E!OnArray(place, v)
               \/ v.type \in {"null", "object"} /\ E!OnObject(place, v)
               \/ v.type \in {"null", "array", "object"} /\ E!Become(place, E!Clear(v))
               \/ \E placement \in DOMAIN E!NoComments, text \in Comments :
                     E!Become(place, E!SetComment(v, placement, text))
    BY <1>1 DEF E!Operate
  <2> DEFINE v == E!Referred(place)
  <2>2. E!IsValue(v)
    BY ReferredIsValue
  <2>3. CASE v.type \in {"null", "array"} /\ E!OnArray(place, v)
    <3> HIDE DEF v
    <3> QED
      BY <2>3, OnArrayKeepsValues DEF v
  <2>4. CASE v.type \in {"null", "object"} /\ E!OnObject(place, v)
    <3> HIDE DEF v
    <3> QED
      BY <2>4, OnObjectKeepsValues DEF v
  <2>5. CASE E!Become(place, E!Clear(v))
    <3>1. E!IsValue(E!Clear(v)) /\ ItemsAreValues(E!Clear(v))
      BY <2>2, ClearValue
    <3> QED
      BY <2>5, <3>1, BecomesNewValue
  <2>6. CASE \E placement \in DOMAIN E!NoComments, text \in Comments :
                E!Become(place, E!SetComment(v, placement, text))
    <3>1. PICK placement, text : E!Become(place, E!SetComment(v, placement, text))
      BY <2>6
    <3>2. /\ E!IsValue(E!SetComment(v, placement, text))
          /\ ItemsAreValues(v) => ItemsAreValues(E!SetComment(v, placement, text))
      BY <2>2, SetCommentValue
    <3> QED
      BY <3>1, <3>2, BecomesNewValue
  <2> QED
    BY <2>1, <2>3, <2>4, <2>5, <2>6
<1>2. CASE UNCHANGED E!edited
  BY <1>2 DEF E!edited, AreValues
<1> QED
  BY <1>1, <1>2

LEMMA ValuesInit == E!Begin => AreValues
<1>1. E!IsValue(E!Null) /\ DOMAIN E!Null.items = {}
  BY NullIsValue DEF E!Null, E!Value
<1> QED
  BY <1>1 DEF E!Begin, AreValues

(* Values are lists and are converted as they say, whatever made them.     *)
LEMMA ListsOfValues == AreValues => ArrayIsAList
<1> SUFFICES ASSUME AreValues, NEW v \in E!Parts
             PROVE  /\ E!IsValue(v)
                    /\ v.type \in {"null", "array"} =>
                          /\ \A i \in 0..(MaxSize - 1), x \in Samples :
                                E!IsArrayOf(E!SetElement(v, i, x),
                                  [k \in 1..E!Max({i + 1, E!Size(v)}) |->
                                      IF k = i + 1 THEN E!Assign(E!FindElement(v, i), x)
                                      ELSE E!FindElement(v, k - 1)])
                          /\ \A length \in 0..MaxSize :
                                IF E!ResizeAborts(v, length) THEN <<length - 1>> \notin DOMAIN v.items
                                ELSE E!IsArrayOf(E!Resize(v, length), [k \in 1..length |-> E!FindElement(v, k - 1)])
  BY DEF ArrayIsAList, E!ArrayIsAList
<1>1. E!IsValue(v)
  BY DEF E!Parts, AreValues
<1>2. ASSUME v.type \in {"null", "array"}, NEW i \in 0..(MaxSize - 1), NEW x \in Samples
      PROVE  E!IsArrayOf(E!SetElement(v, i, x),
                [k \in 1..E!Max({i + 1, E!Size(v)}) |->
                    IF k = i + 1 THEN E!Assign(E!FindElement(v, i), x) ELSE E!FindElement(v, k - 1)])
  <2>1. i \in Nat
    OBVIOUS
  <2> QED
    BY <1>1, <1>2, <2>1, ListAfterSet
<1>3. ASSUME v.type \in {"null", "array"}, NEW length \in 0..MaxSize
      PROVE  IF E!ResizeAborts(v, length) THEN <<length - 1>> \notin DOMAIN v.items
             ELSE E!IsArrayOf(E!Resize(v, length), [k \in 1..length |-> E!FindElement(v, k - 1)])
  <2>1. length \in Nat
    OBVIOUS
  <2> QED
    BY <1>1, <1>3, <2>1, ListAfterResize
<1> QED
  BY <1>1, <1>2, <1>3

LEMMA ConversionsOfValues == AreValues => ConvertibleConverts
<1> SUFFICES ASSUME AreValues, NEW v \in E!Parts, NEW t \in E!Numbers \cup {"boolean"},
                    E!IsConvertibleTo(v, t)
             PROVE  E!Converts(v, t) \/ (v.type = "uint" /\ v.n = MaxInt /\ t = "int")
  BY DEF ConvertibleConverts, E!ConvertibleConverts
<1>1. v.n \in Int
  BY DEF E!Parts, AreValues, E!IsValue
<1>2. MaxInt \in Nat
  BY JsonAssumptions
<1> QED
  BY <1>1, <1>2 DEF E!IsConvertibleTo, E!FitsIn, E!Converts, E!Numbers

(***************************************************************************)
(* The order of names and indices in a map.                                *)
(***************************************************************************)
LEMMA NotLessThanItself == \A s \in Seq(Int) : ~E!TextLess(s, s)
<1> SUFFICES ASSUME NEW s \in Seq(Int), E!TextLess(s, s) PROVE FALSE
  OBVIOUS
<1>1. PICK i \in DOMAIN s : s[i] < s[i]
  BY DEF E!TextLess
<1>2. s[i] \in Int
  OBVIOUS
<1> QED
  BY <1>1, <1>2

LEMMA LessIsTransitive ==
    \A s, t, u \in Seq(Int) : E!TextLess(s, t) /\ E!TextLess(t, u) => E!TextLess(s, u)
<1> SUFFICES ASSUME NEW s \in Seq(Int), NEW t \in Seq(Int), NEW u \in Seq(Int),
                    E!TextLess(s, t), E!TextLess(t, u)
             PROVE  E!TextLess(s, u)
  OBVIOUS
<1>1. PICK i \in DOMAIN t : /\ \A k \in 1..(i - 1) : k \in DOMAIN s /\ s[k] = t[k]
                            /\ i \in DOMAIN s => s[i] < t[i]
  BY DEF E!TextLess
<1>2. PICK j \in DOMAIN u : /\ \A k \in 1..(j - 1) : k \in DOMAIN t /\ t[k] = u[k]
                            /\ j \in DOMAIN t => t[j] < u[j]
  BY DEF E!TextLess
<1>3. i \in 1..Len(t) /\ j \in 1..Len(u)
  OBVIOUS
<1>4. CASE i < j
  <2>1. i \in DOMAIN u /\ t[i] = u[i]
    <3>1. i \in 1..(j - 1)
      BY <1>3, <1>4
    <3>2. DOMAIN u = 1..Len(u) /\ Len(u) \in Nat
      OBVIOUS
    <3>3. i \in 1..Len(u)
      BY <1>3, <3>1, <3>2
    <3> QED
      BY <1>2, <3>1, <3>2, <3>3
  <2>2. \A k \in 1..(i - 1) : k \in DOMAIN s /\ s[k] = u[k]
    BY <1>1, <1>2, <1>3, <1>4
  <2>3. i \in DOMAIN s => s[i] < u[i]
    BY <1>1, <2>1
  <2> QED
    BY <2>1, <2>2, <2>3 DEF E!TextLess
<1>5. CASE i = j
  <2>1. \A k \in 1..(j - 1) : k \in DOMAIN s /\ s[k] = u[k]
    BY <1>1, <1>2, <1>5
  <2>2. j \in DOMAIN s => s[j] \in Int /\ t[j] \in Int /\ u[j] \in Int
    BY <1>3, <1>5
  <2>3. j \in DOMAIN s => s[j] < u[j]
    BY <1>1, <1>2, <1>5, <2>2
  <2> QED
    BY <2>1, <2>3 DEF E!TextLess
<1>6. CASE j < i
  <2>1. \A k \in 1..(j - 1) : k \in DOMAIN s /\ s[k] = u[k]
    BY <1>1, <1>2, <1>3, <1>6
  <2>2. j \in DOMAIN s /\ s[j] = t[j] /\ j \in DOMAIN t
    BY <1>1, <1>3, <1>6
  <2>3. s[j] < u[j]
    BY <1>2, <2>2
  <2> QED
    BY <2>1, <2>3 DEF E!TextLess
<1> QED
  BY <1>3, <1>4, <1>5, <1>6

LEMMA OneIsLess ==
    \A s, t \in Seq(Int) : s # t => E!TextLess(s, t) \/ E!TextLess(t, s)
<1> SUFFICES ASSUME NEW s \in Seq(Int), NEW t \in Seq(Int), s # t
             PROVE  E!TextLess(s, t) \/ E!TextLess(t, s)
  OBVIOUS
<1> DEFINE differ == {i \in Nat \ {0} : /\ (i \in DOMAIN s) \/ (i \in DOMAIN t)
                                        /\ (i \in DOMAIN s /\ i \in DOMAIN t) => s[i] # t[i]}
<1>1. differ # {}
  <2> SUFFICES ASSUME differ = {} PROVE FALSE
    OBVIOUS
  <2>1. \A i \in Nat \ {0} : /\ i \in DOMAIN s <=> i \in DOMAIN t
                             /\ i \in DOMAIN s => s[i] = t[i]
    OBVIOUS
  <2>2. Len(s) = Len(t)
    <3>1. Len(s) \in Nat /\ Len(t) \in Nat /\ DOMAIN s = 1..Len(s) /\ DOMAIN t = 1..Len(t)
      OBVIOUS
    <3>2. Len(s) # 0 => Len(s) <= Len(t)
      <4>1. Len(s) # 0 => Len(s) \in DOMAIN s
        BY <3>1
      <4>2. Len(s) # 0 => Len(s) \in DOMAIN t
        BY <2>1, <3>1, <4>1
      <4> QED
        BY <3>1, <4>2
    <3>3. Len(t) # 0 => Len(t) <= Len(s)
      <4>1. Len(t) # 0 => Len(t) \in DOMAIN t
        BY <3>1
      <4>2. Len(t) # 0 => Len(t) \in DOMAIN s
        BY <2>1, <3>1, <4>1
      <4> QED
        BY <3>1, <4>2
    <3> HIDE DEF differ
    <3>4. \A m, n \in Nat : (m # 0 => m <= n) /\ (n # 0 => n <= m) => m = n
      OBVIOUS
    <3> QED
      BY <3>1, <3>2, <3>3, <3>4
  <2>3. \A i \in 1..Len(s) : s[i] = t[i]
    BY <2>1
  <2>4. s = t
    BY <2>2, <2>3, SeqEqual
  <2> QED
    BY <2>4
<1>2. PICK i \in differ : \A j \in differ : i <= j
  <2>1. differ \subseteq Nat
    OBVIOUS
  <2> HIDE DEF differ
  <2> QED
    BY <1>1, <2>1, LeastNat, Zenon
<1>3. \A j \in 1..(i - 1) : /\ j \in DOMAIN s <=> j \in DOMAIN t
                            /\ j \in DOMAIN s => s[j] = t[j]
  <2> SUFFICES ASSUME NEW j \in 1..(i - 1)
               PROVE  /\ (j \in DOMAIN s) <=> (j \in DOMAIN t)
                      /\ j \in DOMAIN s => s[j] = t[j]
    OBVIOUS
  <2>1. j \notin differ /\ j \in Nat \ {0}
    BY <1>2
  <2> QED
    BY <2>1
<1>4. /\ i \in Nat \ {0} /\ (i \in DOMAIN s \/ i \in DOMAIN t)
      /\ (i \in DOMAIN s /\ i \in DOMAIN t) => s[i] # t[i]
  OBVIOUS
<1> HIDE DEF differ
<1>5. \A j \in 1..(i - 1) : j \in DOMAIN s /\ j \in DOMAIN t /\ s[j] = t[j]
  BY <1>3, <1>4
<1>6. CASE i \in DOMAIN t /\ (i \in DOMAIN s => s[i] < t[i])
  BY <1>5, <1>6 DEF E!TextLess
<1>7. CASE i \in DOMAIN s /\ (i \in DOMAIN t => t[i] < s[i])
  BY <1>5, <1>7 DEF E!TextLess
<1>8. (i \in DOMAIN s /\ i \in DOMAIN t) => (s[i] < t[i] \/ t[i] < s[i])
  <2>1. (i \in DOMAIN s /\ i \in DOMAIN t) => (s[i] \in Int /\ t[i] \in Int)
    OBVIOUS
  <2> QED
    BY <1>4, <2>1
<1> QED
  BY <1>4, <1>6, <1>7, <1>8

(* CZString::operator < puts names, and indices, in a strict total order,  *)
(* as std::map requires of it (json_value.cpp:209-216).                    *)
THEOREM KeysAreOrdered ==
    \A s, t, u \in Seq(Int) :
        /\ ~E!TextLess(s, s)
        /\ E!TextLess(s, t) => ~E!TextLess(t, s)
        /\ E!TextLess(s, t) /\ E!TextLess(t, u) => E!TextLess(s, u)
        /\ s # t => E!TextLess(s, t) \/ E!TextLess(t, s)
BY NotLessThanItself, LessIsTransitive, OneIsLess

(* An array is the list of its elements after every operation, for values  *)
(* of any size: operator [] with an index, append() and resize()           *)
(* (json_value.cpp:872-1010).                                              *)
THEOREM ArraysAreLists == E!EditSpec => []ArrayIsAList
<1>1. E!EditSpec => []AreValues
  BY ValuesInit, ValuesStep, PTL DEF E!EditSpec
<1> QED
  BY <1>1, ListsOfValues, PTL

(* asInt(), asUInt(), asDouble() and asBool() return what                  *)
(* isConvertibleTo() promises, but for the unsigned maxInt                 *)
(* (json_value.cpp:684-868).                                               *)
THEOREM ConversionsAreKept == E!EditSpec => []ConvertibleConverts
<1>1. E!EditSpec => []AreValues
  BY ValuesInit, ValuesStep, PTL DEF E!EditSpec
<1> QED
  BY <1>1, ConversionsOfValues, PTL
=============================================================================
