------------------------------ MODULE JsonPath ------------------------------
(***************************************************************************)
(* Json::Path of JsonCpp: a text such as ".a[1]" becomes a list of member  *)
(* names and indices, by which a value is found or made.  The errors that  *)
(* the code only has comments for are no steps here either; an operator [] *)
(* of a value of the wrong type ends the program by its assertion.         *)
(*                                                                         *)
(* A character is its code; an argument is <<"index", i>> or <<"key", s>>. *)
(***************************************************************************)
EXTENDS JsonValue

Open == 91
Close == 93
Percent == 37
Dot == 46
Digits == 48..57

Index(i) == <<"index", i>>
Key(name) == <<"key", name>>
-----------------------------------------------------------------------------
(* Slips in this code that the properties below must notice.               *)

(* takes a bracket for a part of the name before it                        *)
EndOfNameAtDot(text, i) ==
    CHOOSE j \in i..(Len(text) + 1) : /\ j = Len(text) + 1 \/ text[j] = Dot
                                      /\ \A k \in i..(j - 1) : text[k] # Dot
-----------------------------------------------------------------------------
(* Where the digits, or the name, that begin at i end.                     *)
EndOfDigits(text, i) ==
    CHOOSE j \in i..(Len(text) + 1) : /\ j = Len(text) + 1 \/ text[j] \notin Digits
                                      /\ \A k \in i..(j - 1) : text[k] \in Digits

EndOfName(text, i) ==
    CHOOSE j \in i..(Len(text) + 1) : /\ j = Len(text) + 1 \/ text[j] \in {Open, Dot}
                                      /\ \A k \in i..(j - 1) : text[k] \notin {Open, Dot}

(* itInArg is never advanced: each % stands for the first argument.        *)
AddPathInArg(in, kind) == IF in[1][1] = kind THEN <<in[1]>> ELSE <<>>

(* The rest of args_ that the text makes from its character i on.  After   *)
(* [% the character expected to be ] is the % itself.                      *)
RECURSIVE MakePath(_, _, _)
MakePath(text, i, in) ==
    CASE i > Len(text) -> <<>>
      [] i < Len(text) /\ text[i] = Open /\ text[i + 1] = Percent ->
             AddPathInArg(in, "index") \o MakePath(text, i + 2, in)
      [] OTHER ->
             CASE text[i] = Open ->
                    LET end == EndOfDigits(text, i + 1)
                        number == FoldLeft(LAMBDA n, c : (10 * n + c - 48) % (MaxUInt + 1), 0,
                                           SubSeq(text, i + 1, end - 1))
                    IN  <<Index(number)>> \o MakePath(text, end + 1, in)
               [] text[i] = Percent -> AddPathInArg(in, "key") \o MakePath(text, i + 1, in)
               [] text[i] = Dot -> MakePath(text, i + 1, in)
               [] OTHER ->
                    LET end == EndOfName(text, i)
                    IN  <<Key(SubSeq(text, i, end - 1))>> \o MakePath(text, end, in)
-----------------------------------------------------------------------------
IsArray(v) == v.type \in {"null", "array"}
IsObject(v) == v.type \in {"null", "object"}
IsValidIndex(v, i) == i < Size(v)
IsMember(v, name) == name \in DOMAIN v.items

(* get() with a default value.                                             *)
Get(v, name, default) == IF IsMember(v, name) THEN FindMember(v, name) ELSE default

(* The assertion of operator [].                                           *)
Accepts(v, arg) == IF arg[1] = "index" THEN IsArray(v) ELSE IsObject(v)

Child(v, arg) == IF arg[1] = "index" THEN FindElement(v, arg[2]) ELSE FindMember(v, arg[2])

(* resolve() with one argument.                                            *)
RECURSIVE Resolve(_, _)
Resolve(v, args) == IF args = <<>> THEN v ELSE Resolve(Child(v, Head(args)), Tail(args))

RECURSIVE ResolveAborts(_, _)
ResolveAborts(v, args) ==
    args # <<>> /\ (~Accepts(v, Head(args)) \/ ResolveAborts(Child(v, Head(args)), Tail(args)))

(* resolve() with a default value: it gives it for an index that is valid, *)
(* and looks up the others.                                                *)
RECURSIVE ResolveOr(_, _, _)
ResolveOr(v, args, default) ==
    IF args = <<>> THEN v
    ELSE LET arg == Head(args)
             gives == \/ ~Accepts(v, arg)
                      \/ arg[1] = "index" /\ IsValidIndex(v, arg[2])
                      \/ arg[1] = "key" /\ ~IsMember(v, arg[2])
         IN  IF gives THEN default ELSE ResolveOr(Child(v, arg), Tail(args), default)

(* path.make(v) = x                                                        *)
RECURSIVE Make(_, _, _)
Make(v, args, x) ==
    IF args = <<>> THEN Assign(v, x)
    ELSE LET arg == Head(args)
             made == IF arg[1] = "index" THEN Element(v, arg[2]) ELSE Member(v, arg[2])
         IN  [made EXCEPT !.items[IF arg[1] = "index" THEN <<arg[2]>> ELSE arg[2]] =
                              Make(@, Tail(args), x)]
=============================================================================
