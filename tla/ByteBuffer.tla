------------------------------ MODULE ByteBuffer ------------------------------
(***************************************************************************)
(* ByteBuffer of src/workspace: bytes are appended at wr_pos_ and read at  *)
(* rd_pos_ of one block of memory, which is compacted or reallocated when  *)
(* it is full.  Positions are unsigned, and a read moves rd_pos_ before it *)
(* finds out whether it may.                                               *)
(*                                                                         *)
(* A cell of memory is a byte; the length of a string, 16 bits in the      *)
(* code, is one cell here, so that Values stands for 2^16.                 *)
(***************************************************************************)
EXTENDS Integers, Sequences

CONSTANTS FirstSize,  \* buf_size of the constructor, 512
          MinSize,    \* 512: least size to reallocate to
          Slack,      \* 2^14: what a big request gets on top
          Limit,      \* 2^28: greatest size
          Values,     \* number of values of a cell
          MaxWrite,   \* bound on the bytes of one operation
          MaxHeld     \* bound on the bytes waiting to be read

ASSUME ByteBufferAssumption ==
    /\ FirstSize \in Nat /\ MinSize \in Nat \ {0} /\ Slack \in Nat /\ Limit \in Nat
    /\ Values \in Nat \ {0} /\ MaxWrite \in Nat /\ MaxHeld \in Nat

VARIABLES b,       \* the buffer: buf_ as mem, buf_size_, rd_pos_ and wr_pos_
          written, \* history: the bytes written and not yet taken
          broken,  \* history: has a read thrown?
          crashed  \* has memory outside of the block been touched?

vars == <<b, written, broken, crashed>>

Byte == 0..(Values - 1)

Copies(n, x) == [i \in 1..n |-> x]

(* What is in the buffer, if the positions make sense.                     *)
Held == [i \in 1..(b.wr - b.rd) |-> b.mem[b.rd + i - 1]]
-----------------------------------------------------------------------------
(* Slips in this code that the properties below must notice.               *)

(* moves the bytes but not the end                                         *)
AlignEndKept(u) ==
    [mem |-> [i \in DOMAIN u.mem |-> IF i < u.wr - u.rd THEN u.mem[i + u.rd] ELSE u.mem[i]],
     size |-> u.size, rd |-> 0, wr |-> u.wr]
-----------------------------------------------------------------------------
Init == /\ b = [mem |-> [i \in 0..(FirstSize - 1) |-> 0], size |-> FirstSize, rd |-> 0, wr |-> 0]
        /\ written = <<>>
        /\ broken = FALSE /\ crashed = FALSE

Align(u) ==
    [mem |-> [i \in DOMAIN u.mem |-> IF i < u.wr - u.rd THEN u.mem[i + u.rd] ELSE u.mem[i]],
     size |-> u.size, rd |-> 0, wr |-> u.wr - u.rd]

Fits(u, bytes) == u.size >= u.wr + bytes

(* The size that Expand() asks realloc() for.                              *)
NewSize(u, bytes) ==
    LET double == IF 2 * u.size < MinSize THEN MinSize ELSE 2 * u.size
    IN  IF u.wr + bytes > double THEN u.wr + bytes + Slack ELSE double

ExpandThrows(u, bytes) == ~Fits(u, bytes) /\ u.rd < bytes /\ NewSize(u, bytes) > Limit

(* memmove() of a difference below zero, that is of a very big number.     *)
ExpandCrashes(u, bytes) == ~Fits(u, bytes) /\ ~ExpandThrows(u, bytes) /\ u.rd > u.wr

Expand(u, bytes) ==
    IF Fits(u, bytes) THEN u
    ELSE IF u.rd >= bytes THEN Align(u)
    ELSE LET a == IF u.rd # 0 THEN Align(u) ELSE u
         IN  [mem |-> [i \in 0..(NewSize(u, bytes) - 1) |-> IF i < u.size THEN a.mem[i] ELSE 0],
              size |-> NewSize(u, bytes), rd |-> a.rd, wr |-> a.wr]

(* Grow() and the copy into the place that it returns.                     *)
Grow(u, xs) ==
    LET e == Expand(u, Len(xs))
    IN  [mem |-> [i \in DOMAIN e.mem |->
                     IF i \in e.wr..(e.wr + Len(xs) - 1) THEN xs[i - e.wr + 1] ELSE e.mem[i]],
         size |-> e.size, rd |-> e.rd, wr |-> e.wr + Len(xs)]

Forget(bytes) == written' = IF broken' THEN <<>> ELSE SubSeq(written, bytes + 1, Len(written))

(* One call of Grow(): it throws and changes nothing, runs away, or the    *)
(* bytes are written.                                                      *)
Write(u, xs) ==
    \/ ExpandThrows(u, Len(xs)) /\ b' = u /\ UNCHANGED <<written, crashed>>
    \/ ExpandCrashes(u, Len(xs)) /\ b' = u /\ crashed' = TRUE /\ UNCHANGED written
    \/ /\ ~ExpandThrows(u, Len(xs)) /\ ~ExpandCrashes(u, Len(xs))
       /\ b' = Grow(u, xs)
       /\ crashed' = (b'.wr > b'.size)
       /\ written' = IF broken THEN <<>> ELSE written \o xs

(* operator << for numbers, and Append().                                  *)
AppendBytes(n, x) ==
    /\ Len(written) + n <= MaxHeld
    /\ Write(b, Copies(n, x))
    /\ UNCHANGED broken

(* operator << for a string of n characters: the length, cut to 16 bits,   *)
(* is written first, and stays if the characters do not fit.               *)
AppendString(n, x) ==
    LET cut == n % Values
        prefixed == Grow(b, <<cut>>)
    IN  /\ Len(written) + 1 + cut <= MaxHeld
        /\ UNCHANGED broken
        /\ IF ExpandThrows(b, 1) \/ ExpandCrashes(b, 1) THEN Write(b, <<cut>>)
           ELSE \/ ExpandThrows(prefixed, cut) /\ Write(b, <<cut>>)
                \/ ExpandCrashes(prefixed, cut) /\ Write(prefixed, Copies(cut, x))
                \/ /\ ~ExpandThrows(prefixed, cut) /\ ~ExpandCrashes(prefixed, cut)
                   /\ b' = Grow(prefixed, Copies(cut, x))
                   /\ crashed' = (prefixed.wr > prefixed.size \/ b'.wr > b'.size)
                   /\ written' = IF broken THEN <<>> ELSE written \o <<cut>> \o Copies(cut, x)

(* Skip() moves the position, looks, and throws.                           *)
Skip(from, bytes, taken) ==
    /\ b' = [b EXCEPT !.rd = from + bytes]
    /\ broken' = (broken \/ from + bytes > b.wr)
    /\ Forget(taken)
    /\ UNCHANGED crashed

(* operator >> for numbers.                                                *)
Extract(bytes) == b.rd <= b.wr + MaxWrite /\ Skip(b.rd, bytes, bytes)

(* operator >> for a string: the length must not exceed what is left.      *)
ExtractString ==
    IF b.rd >= b.wr THEN Extract(1)
    ELSE LET n == b.mem[b.rd]
         IN  IF n <= b.wr - (b.rd + 1) THEN Skip(b.rd + 1, n, 1 + n)
             ELSE /\ b' = [b EXCEPT !.rd = @ + 1]
                  /\ broken' = TRUE
                  /\ Forget(0)
                  /\ UNCHANGED crashed

(* Drain(): both positions go back to 0 when nothing is left.              *)
Drain(bytes) ==
    /\ b.wr > b.rd /\ bytes <= b.wr - b.rd
    /\ b' = IF b.rd + bytes = b.wr THEN [b EXCEPT !.rd = 0, !.wr = 0]
                                   ELSE [b EXCEPT !.rd = @ + bytes]
    /\ UNCHANGED <<broken, crashed>>
    /\ Forget(bytes)

Next == /\ ~crashed
        /\ \/ \E n \in 1..MaxWrite, x \in Byte : AppendBytes(n, x)
           \/ \E n \in 0..Values : AppendString(n, Values - 1)
           \/ ExtractString
           \/ \E n \in 1..MaxWrite : Extract(n) \/ Drain(n)

Spec == Init /\ [][Next]_vars
-----------------------------------------------------------------------------
TypeOK == /\ b.size \in Nat /\ b.rd \in Nat /\ b.wr \in Nat
          /\ b.mem \in [0..(b.size - 1) -> Byte]
          /\ written \in Seq(Byte)
          /\ broken \in BOOLEAN /\ crashed \in BOOLEAN

(* Until a read has thrown, nothing outside of the block is touched, the    *)
(* positions are in order, and the buffer holds the bytes written and not  *)
(* yet taken, in their order, however writes, reads and drains make        *)
(* Expand() compact or reallocate the block (ByteBuffer.cpp:100-186).      *)
HoldsWhatWasWritten ==
    ~broken => /\ ~crashed /\ b.rd <= b.wr /\ b.wr <= b.size
               /\ Held = written
=============================================================================
