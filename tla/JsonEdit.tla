------------------------------ MODULE JsonEdit ------------------------------
(***************************************************************************)
(* A program that makes a value with the operations of Json::Value, on the *)
(* value itself and on its elements and members, each where the assertions *)
(* of json_value.cpp allow it.                                             *)
(***************************************************************************)
EXTENDS JsonValue

CONSTANTS Samples,     \* values that the program stores
          Names,       \* names of members
          MaxSize,     \* bound: of an array
          Comments,    \* texts that the program sets as comments
          MaxSteps     \* bound: operations on the value

VARIABLES root,     \* the value
          steps,    \* operations until now
          aborted   \* has the assertion of resize() ended the program?

edited == <<root, steps, aborted>>

(* The keys of an array's map: indices, one of them the greatest.          *)
AreIndices(keys) ==
    /\ \A k \in keys : k[1] \in Nat /\ k = <<k[1]>>
    /\ keys # {} => \E last \in keys : \A k \in keys : k[1] <= last[1]

(* What a Value is, as far as its own fields go: only an array or object   *)
(* has items, and an array has them by index.                              *)
IsValue(v) ==
    /\ v = [type |-> v.type, n |-> v.n, text |-> v.text, items |-> v.items, comments |-> v.comments]
    /\ v.items = [k \in DOMAIN v.items |-> v.items[k]]
    /\ v.type \in ToSet(Types) /\ v.n \in Int
    /\ v.type \notin {"array", "object"} => DOMAIN v.items = {}
    /\ v.type = "array" => AreIndices(DOMAIN v.items)

JsonEditAssumption == /\ MaxInt \in Nat /\ MaxSize \in Nat
                      /\ \A x \in Samples : IsValue(x)
-----------------------------------------------------------------------------
Begin == root = Null /\ steps = 0 /\ aborted = FALSE

(* The places that the program refers to: the value, its elements and      *)
(* members.                                                                *)
Places == {<<>>} \cup {<<k>> : k \in DOMAIN root.items}

Referred(place) == IF place = <<>> THEN root ELSE root.items[place[1]]

Become(place, new) ==
    /\ root' = IF place = <<>> THEN new ELSE [root EXCEPT !.items[place[1]] = new]
    /\ UNCHANGED aborted

OnArray(place, v) ==
    \/ \E i \in 0..(MaxSize - 1), x \in Samples : Become(place, SetElement(v, i, x))
    \/ Size(v) < MaxSize /\ \E x \in Samples : Become(place, AppendElement(v, x))
    \/ \E size \in 0..MaxSize : IF ResizeAborts(v, size) THEN aborted' = TRUE /\ UNCHANGED root
                                ELSE Become(place, Resize(v, size))

OnObject(place, v) ==
    \/ \E name \in Names, x \in Samples : Become(place, SetMember(v, name, x))
    \/ \E name \in Names : Become(place, RemoveMember(v, name))

Operate ==
    /\ steps < MaxSteps /\ ~aborted
    /\ \E place \in Places :
          LET v == Referred(place)
          IN  \/ v.type \in {"null", "array"} /\ OnArray(place, v)
              \/ v.type \in {"null", "object"} /\ OnObject(place, v)
              \/ v.type \in {"null", "array", "object"} /\ Become(place, Clear(v))
              \/ \E placement \in DOMAIN NoComments, text \in Comments :
                    Become(place, SetComment(v, placement, text))
    /\ steps' = steps + 1

EditSpec == Begin /\ [][Operate]_edited
-----------------------------------------------------------------------------
(* The value and what it is made of.                                       *)
Parts == {root} \cup {root.items[k] : k \in DOMAIN root.items}

(* What isConvertibleTo() promises of numbers and booleans, asInt(),       *)
(* asUInt(), asDouble() and asBool() keep, but for the one unsigned number *)
(* that asInt() refuses although it fits (json_value.cpp:725).             *)
ConvertibleConverts ==
    \A v \in Parts, type \in Numbers \cup {"boolean"} :
        IsConvertibleTo(v, type) => \/ Converts(v, type)
                                    \/ v.type = "uint" /\ v.n = MaxInt /\ type = "int"

(* The list that an array stands for.                                     *)
List(v) == [k \in 1..Size(v) |-> FindElement(v, k - 1)]

IsArrayOf(v, list) == v.type = "array" /\ List(v) = list

(* An array is the list that value.h describes: setting an element behind  *)
(* the end fills up with nulls, resize() cuts or fills up, and the others  *)
(* stay.  resize() ends the program only where the last element to stay    *)
(* was never referred to (json_value.cpp:951-1009).                        *)
ArrayIsAList ==
    \A v \in Parts :
        /\ IsValue(v)
        /\ v.type \in {"null", "array"} =>
              /\ \A i \in 0..(MaxSize - 1), x \in Samples :
                    IsArrayOf(SetElement(v, i, x),
                              [k \in 1..Max({i + 1, Size(v)}) |->
                                  IF k = i + 1 THEN Assign(FindElement(v, i), x) ELSE FindElement(v, k - 1)])
              /\ \A size \in 0..MaxSize :
                    IF ResizeAborts(v, size) THEN <<size - 1>> \notin DOMAIN v.items
                    ELSE IsArrayOf(Resize(v, size), [k \in 1..size |-> FindElement(v, k - 1)])
=============================================================================
