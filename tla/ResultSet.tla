------------------------------ MODULE ResultSet ------------------------------
(***************************************************************************)
(* ResultSet of src/workspace: the rows that MySQLConnection::Query() has  *)
(* got, read one after the other and column by column.  The client library *)
(* gives each field as a text, which Field() turns into a number.          *)
(*                                                                         *)
(* A field is the codes of its characters, or NoField for SQL's NULL.      *)
(***************************************************************************)
EXTENDS Integers, Sequences, SequencesExt

CONSTANTS Table,    \* the rows of the result
          Columns,  \* num_fields_, at least 1
          NoField,  \* a field that is NULL
          Half,     \* 2^(w - 1) for the numbers of w bits
          MaxReads  \* bound: calls of operator >> for a row

ResultSetAssumption ==
    /\ Columns \in Nat \ {0}
    /\ Table \in Seq([1..Columns -> {NoField} \cup Seq(Nat)])
    /\ Half \in Nat /\ MaxReads \in Nat

Minus == 45
Digit == 48..57

Types == {"int8", "uint8",  \* one byte: for a stream these are characters
          "int", "uint",    \* all wider integers
          "string"}

VARIABLES row,    \* mysql_rows_: the number of the row, 0 before MoveNext()
          index,  \* index_
          reads,  \* history: calls of operator >> since MoveNext()
          last,   \* the last of them: its type, result and value
          died    \* has a pointer that was never set been used?

vars == <<row, index, reads, last, died>>

Nothing == [type |-> "string", ok |-> FALSE, value |-> <<>>]
-----------------------------------------------------------------------------
(* Slips in this code that the properties below must notice.               *)

(* stays at a field that is NULL                                           *)
NextIndexStays(field) == IF field = NoField THEN index ELSE index + 1
-----------------------------------------------------------------------------
IsNumber(text) ==
    LET digits == IF text # <<>> /\ text[1] = Minus THEN Tail(text) ELSE text
    IN  digits # <<>> /\ \A i \in DOMAIN digits : digits[i] \in Digit

Amount(text) ==
    LET Read(digits) == FoldLeft(LAMBDA n, c : 10 * n + c - 48, 0, digits)
    IN  IF text[1] = Minus THEN -Read(Tail(text)) ELSE Read(text)

ValuesOf(type) == IF type = "int" THEN (-Half)..(Half - 1) ELSE 0..(2 * Half - 1)

(* What new_value may be: it is not initialised, the stream's failure is   *)
(* not looked at, and a minus is no failure for an unsigned number.  What  *)
(* a stream makes of a number with more text behind it is left open.       *)
NewValues(text, type) ==
    IF type = "string" THEN {text}
    ELSE IF type \in {"int8", "uint8"} /\ text # <<>> THEN {text[1]}
    ELSE IF ~IsNumber(text) THEN ValuesOf(type)
    ELSE LET n == Amount(text)
         IN  IF n \in ValuesOf(type) THEN {n}
             ELSE IF type = "uint" /\ -n \in ValuesOf(type) THEN {n + 2 * Half}
             ELSE ValuesOf(type)

NextIndex(field) == index + 1
-----------------------------------------------------------------------------
(* The constructor sets neither index_ nor mysql_rows_.                    *)
Init == row = 0 /\ index = 0 /\ reads = 0 /\ last = Nothing /\ died = FALSE

MoveNext == /\ row <= Len(Table)
            /\ row' = row + 1 /\ index' = 0
            /\ reads' = 0 /\ last' = Nothing
            /\ UNCHANGED died

AtEnd == row > Len(Table) \/ index >= Columns

(* operator >> before MoveNext(): whatever is in the two members decides.  *)
ReadUnset(type) ==
    /\ row = 0 /\ reads = 0
    /\ reads' = 1
    /\ died' \in BOOLEAN
    /\ last' = [Nothing EXCEPT !.type = type]
    /\ UNCHANGED <<row, index>>

ReadNothing(type) ==
    /\ row > 0 /\ AtEnd
    /\ last' = [Nothing EXCEPT !.type = type]
    /\ reads' = reads + 1
    /\ UNCHANGED <<row, index, died>>

(* operator >> for numbers (Field) and for strings.                        *)
ReadField(type) ==
    /\ row > 0 /\ ~AtEnd
    /\ LET field == Table[row][index + 1]
       IN  /\ index' = NextIndex(field)
           /\ IF field = NoField THEN last' = [Nothing EXCEPT !.type = type]
              ELSE \E v \in NewValues(field, type) : last' = [type |-> type, ok |-> TRUE, value |-> v]
    /\ reads' = reads + 1
    /\ UNCHANGED <<row, died>>

Next == /\ ~died
        /\ \/ MoveNext
           \/ reads < MaxReads /\ \E type \in Types : ReadUnset(type) \/ ReadNothing(type) \/ ReadField(type)

Spec == Init /\ [][Next]_vars
-----------------------------------------------------------------------------
(* The n-th call of operator >> after MoveNext() is about the n-th column: *)
(* it says no when there is none or the field is NULL, and else gives the  *)
(* text, or the number, if the field is one that the type has and the type *)
(* is wider than a character (ResultSet.h:44-80).                          *)
ReadsColumnByColumn ==
    row \in DOMAIN Table /\ reads > 0 =>
        /\ last.ok <=> reads <= Columns /\ Table[row][reads] # NoField
        /\ last.ok /\ last.type = "string" => last.value = Table[row][reads]
        /\ last.ok /\ last.type \in {"int", "uint"} /\ IsNumber(Table[row][reads])
              /\ Amount(Table[row][reads]) \in ValuesOf(last.type)
              => last.value = Amount(Table[row][reads])
=============================================================================
