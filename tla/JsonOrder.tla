------------------------------ MODULE JsonOrder ------------------------------
(***************************************************************************)
(* The operators == and < of Json::Value.  Values are compared by their    *)
(* types first and with their items at last, so both are recursive.        *)
(***************************************************************************)
EXTENDS JsonValue

-----------------------------------------------------------------------------
(* A slip in this code that the property below must notice.                *)

(* compares objects by their names only                                    *)
LessItemsByName(a, b) ==
    LET SeqLess(x, y) == \E i \in DOMAIN y : /\ \A j \in 1..(i - 1) : j \in DOMAIN x /\ x[j] = y[j]
                                             /\ i \in DOMAIN x => x[i] < y[i]
        Keys(v) == SetToSortSeq(DOMAIN v.items, SeqLess)
    IN  \E i \in DOMAIN Keys(a) : /\ SeqLess(Keys(a)[i], Keys(b)[i])
                                  /\ \A j \in 1..(i - 1) : Keys(a)[j] = Keys(b)[j]
-----------------------------------------------------------------------------
RECURSIVE Equal(_, _)
Equal(a, b) ==
    /\ a.type = b.type /\ a.n = b.n /\ a.text = b.text
    /\ DOMAIN a.items = DOMAIN b.items
    /\ \A k \in DOMAIN a.items : Equal(a.items[k], b.items[k])

RECURSIVE Less(_, _)

(* operator < of std::map: the pairs of the maps in turn.                  *)
LessItems(a, b) ==
    LET x == MemberNames(a) y == MemberNames(b)
        Before(u, ku, v, kv) == \/ TextLess(ku, kv)
                                \/ ~TextLess(kv, ku) /\ Less(u.items[ku], v.items[kv])
    IN  \E i \in DOMAIN x : /\ Before(a, x[i], b, y[i])
                            /\ \A j \in 1..(i - 1) : ~Before(a, x[j], b, y[j]) /\ ~Before(b, y[j], a, x[j])

Rank(v) == CHOOSE i \in DOMAIN Types : Types[i] = v.type

Less(a, b) ==
    IF a.type # b.type THEN Rank(a) < Rank(b)
    ELSE CASE a.type \in Numbers \cup {"boolean"} -> a.n < b.n
           [] a.type = "string" -> TextLess(a.text, b.text)
           [] a.type \in {"array", "object"} ->
                LET x == Cardinality(DOMAIN a.items) y == Cardinality(DOMAIN b.items)
                IN  IF x # y THEN x < y ELSE LessItems(a, b)
           [] OTHER -> FALSE
=============================================================================
