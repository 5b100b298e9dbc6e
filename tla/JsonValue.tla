------------------------------ MODULE JsonValue ------------------------------
(***************************************************************************)
(* Json::Value of JsonCpp, as SummerBreeze/SharedLib builds it: a value    *)
(* with its comments, the map that an array or object keeps its items in,  *)
(* and the operations on them.  An array's map has no entry for an element *)
(* that nobody has referred to: its size is its greatest index and one.    *)
(*                                                                         *)
(* A key of the map is a sequence: the characters of a member's name, or   *)
(* <<i>> for the element with index i.  An integral real is its amount.    *)
(***************************************************************************)
EXTENDS Integers, Sequences, FiniteSets, SequencesExt

CONSTANT MaxInt  \* 2^31 - 1

MinInt == -MaxInt - 1
MaxUInt == 2 * MaxInt + 1

Types == <<"null", "int", "uint", "real", "string", "boolean", "array", "object">>
Numbers == {"int", "uint", "real"}

NoComments == [before |-> <<>>, same |-> <<>>, after |-> <<>>]

Value(type) == [type |-> type, n |-> 0, text |-> <<>>, items |-> <<>>, comments |-> NoComments]
Number(type, n) == [Value(type) EXCEPT !.n = n]
String(text) == [Value("string") EXCEPT !.text = text]
Null == Value("null")
-----------------------------------------------------------------------------
(* Slips in this code that the properties below must notice.               *)

(* keeps the element with the new size                                     *)
ShrunkKeepsOne(v, size) ==
    [v EXCEPT !.items = [k \in {k \in DOMAIN v.items : k[1] <= size} |-> v.items[k]]]

(* does not look at the sign                                               *)
FitsAnySign(v, type) == type \in {"int", "uint"} /\ v.type \in Numbers
-----------------------------------------------------------------------------
(* std::map with CZString keys: strcmp() for names, < for indices.         *)
TextLess(a, b) == \E i \in DOMAIN b : /\ \A j \in 1..(i - 1) : j \in DOMAIN a /\ a[j] = b[j]
                                      /\ i \in DOMAIN a => a[i] < b[i]

MemberNames(v) == SetToSortSeq(DOMAIN v.items, TextLess)

(* operator = goes through swap(), which leaves the comments.              *)
Assign(v, new) == [new EXCEPT !.comments = v.comments]

Size(v) == CASE v.type = "array" /\ DOMAIN v.items # {} -> 1 + Max({k[1] : k \in DOMAIN v.items})
             [] v.type = "object" -> Cardinality(DOMAIN v.items)
             [] OTHER -> 0
-----------------------------------------------------------------------------
(* operator [] of a value that is not const makes what it does not find.   *)
Made(v, key) == IF key \in DOMAIN v.items THEN v
                ELSE [v EXCEPT !.items = [k \in DOMAIN v.items \cup {key} |->
                                             IF k = key THEN Null ELSE v.items[k]]]

Element(v, i) == Made(IF v.type = "null" THEN Assign(v, Value("array")) ELSE v, <<i>>)

Member(v, name) == Made(IF v.type = "null" THEN Assign(v, Value("object")) ELSE v, name)

(* operator [] of a const value.                                           *)
FindElement(v, i) == IF <<i>> \in DOMAIN v.items THEN v.items[<<i>>] ELSE Null

FindMember(v, name) == IF name \in DOMAIN v.items THEN v.items[name] ELSE Null

Put(v, key, x) == [v EXCEPT !.items[key] = Assign(v.items[key], x)]

SetElement(v, i, x) == Put(Element(v, i), <<i>>, x)

SetMember(v, name, x) == Put(Member(v, name), name, x)

AppendElement(v, x) == SetElement(v, Size(v), x)

Clear(v) == [v EXCEPT !.items = <<>>]

Shrunk(v, size) ==
    [v EXCEPT !.items = [k \in {k \in DOMAIN v.items : k[1] < size} |-> v.items[k]]]

Resize(v, size) ==
    LET a == IF v.type = "null" THEN Assign(v, Value("array")) ELSE v
    IN  CASE size = 0 -> Clear(a)
          [] size > Size(a) -> Element(a, size - 1)
          [] OTHER -> Shrunk(a, size)

(* The assertion at the end of resize(), for 0 < size <= Size(v).          *)
ResizeAborts(v, size) ==
    v.type = "array" /\ size \in 1..Size(v) /\ Size(Shrunk(v, size)) # size

RemoveMember(v, name) == [v EXCEPT !.items = [k \in DOMAIN v.items \ {name} |-> v.items[k]]]

SetComment(v, placement, text) == [v EXCEPT !.comments[placement] = text]
-----------------------------------------------------------------------------
(* asInt(), asUInt(), asDouble(), asBool(), asString(): do they return?    *)
Converts(v, type) ==
    \/ v.type \in {"null", "boolean"} \/ type = "boolean"
    \/ type = "real" /\ v.type \in Numbers
    \/ type = "int" /\ \/ v.type = "int"
                       \/ v.type = "uint" /\ v.n < MaxInt
                       \/ v.type = "real" /\ v.n \in MinInt..MaxInt
    \/ type = "uint" /\ \/ v.type = "uint"
                        \/ v.type = "int" /\ v.n >= 0
                        \/ v.type = "real" /\ v.n \in 0..MaxUInt
    \/ type = "string" /\ v.type = "string"

FitsIn(v, type) ==
    \/ v.type = "int" /\ type = "uint" /\ v.n >= 0
    \/ v.type = "uint" /\ type = "int" /\ v.n <= MaxInt
    \/ v.type = "real" /\ type = "int" /\ v.n \in MinInt..MaxInt
    \/ v.type = "real" /\ type = "uint" /\ v.n \in 0..MaxUInt

IsConvertibleTo(v, type) ==
    \/ v.type \in {"null", type}
    \/ type = "null" /\ v.type \in Numbers \cup {"boolean"} /\ v.n = 0
    \/ type = "null" /\ v.type = "string" /\ v.text = <<>>
    \/ type = "null" /\ v.type \in {"array", "object"} /\ v.items = <<>>
    \/ v.type \in Numbers \cup {"boolean"} /\ type \in {"real", "string", "boolean"}
    \/ v.type = "boolean" /\ type \in Numbers
    \/ FitsIn(v, type)
=============================================================================
