------------------------------ MODULE JsonWriter ------------------------------
(***************************************************************************)
(* The writers of JsonCpp.  A document is a sequence of tokens; blanks and *)
(* ends of line are tokens, for a comment belongs to the value on its      *)
(* line, and a // comment takes what follows on its line.                  *)
(*                                                                         *)
(*   <<"{">> <<"}">> <<"[">> <<"]">> <<",">> <<":">> <<" ">> <<"eol">>     *)
(*   <<"null">> <<"true">> <<"false">> <<"number", amount, has a point?>>  *)
(*   <<"string", units>>  a unit is <<"plain", character>>,                *)
(*                        <<"escape", character>>, <<"u", code>> or        *)
(*                        <<"bad">>, an escape that there is not           *)
(*   <<"//", id>>  a comment, with what follows on its line              *)
(*   <<"/*", id>> <<"*/">>  a comment, with what is between them            *)
(*   <<"bad">>  anything else                                              *)
(***************************************************************************)
EXTENDS JsonValue

CONSTANTS RightMargin,  \* rightMargin_, 74
          LeafWidth     \* characters of a value without items

Eol == <<"eol">>
Blank == <<" ">>

Indices(seq) == [i \in DOMAIN seq |-> i]
-----------------------------------------------------------------------------
(* Slips in this code that the properties below must notice.               *)

(* writes the elements that the map has                                    *)
ElementsStored(v) == [i \in 1..Cardinality(DOMAIN v.items) |-> v.items[MemberNames(v)[i]]]
-----------------------------------------------------------------------------
Quoted(text) ==
    <<"string", [i \in DOMAIN text |->
                    CASE text[i] \in {8, 9, 10, 12, 13, 34, 92} -> <<"escape", text[i]>>
                      [] text[i] < 32 /\ text[i] \notin {8, 9, 10, 12, 13} -> <<"u", text[i]>>
                      [] OTHER -> <<"plain", text[i]>>]>>

Leaf(v) ==
    CASE v.type = "null" -> <<<<"null">>>>
      [] v.type \in {"int", "uint"} -> <<<<"number", v.n, FALSE>>>>
      [] v.type = "real" -> <<<<"number", v.n, TRUE>>>>
      [] v.type = "string" -> <<Quoted(v.text)>>
      [] v.type = "boolean" -> <<<<IF v.n = 1 THEN "true" ELSE "false">>>>
      [] v.type = "array" -> <<<<"[">>, <<"]">>>>
      [] v.type = "object" -> <<<<"{">>, <<"}">>>>

Elements(v) == [i \in 1..Size(v) |-> FindElement(v, i - 1)]

(* FastWriter.                                                             *)
Joined(parts) ==
    FoldLeft(LAMBDA doc, i : doc \o (IF i > 1 THEN <<<<",">>>> ELSE <<>>) \o parts[i], <<>>, Indices(parts))

RECURSIVE FastValue(_)
FastValue(v) ==
    CASE v.type = "array" ->
           <<<<"[">>>> \o Joined([i \in DOMAIN Elements(v) |-> FastValue(Elements(v)[i])]) \o <<<<"]">>>>
      [] v.type = "object" ->
           LET names == MemberNames(v)
           IN  <<<<"{">>>> \o Joined([i \in DOMAIN names |->
                                <<Quoted(names[i]), <<":">>>> \o FastValue(FindMember(v, names[i]))]) \o <<<<"}">>>>
      [] OTHER -> Leaf(v)

FastWrite(v) == FastValue(v) \o <<Eol>>

(* StyledWriter: isMultineArray() and writeIndent().                       *)
IsMultiline(v) ==
    \/ Size(v) * 3 >= RightMargin
    \/ \E i \in DOMAIN Elements(v) : Size(Elements(v)[i]) > 0
    \/ 4 + (Size(v) - 1) * 2 + Size(v) * LeafWidth >= RightMargin

Margin(depth) == IF depth > 0 THEN <<Blank>> ELSE <<>>

(* A blank at the end passes for the margin, that of a comment too.        *)
(* StyledStreamWriter cannot look at what it has written.                  *)
Indent(stream, doc, depth) ==
    CASE stream -> doc \o <<Eol>> \o Margin(depth)
      [] ~stream /\ doc # <<>> /\ Last(doc) = Blank -> doc
      [] ~stream /\ doc # <<>> /\ Last(doc) \notin {Blank, Eol} -> doc \o <<Eol>> \o Margin(depth)
      [] OTHER -> doc \o Margin(depth)

CommentBefore(doc, v) ==
    IF v.comments.before = <<>> THEN doc ELSE doc \o v.comments.before \o <<Eol>>

CommentAfter(doc, v) ==
    doc \o (IF v.comments.same = <<>> THEN <<>> ELSE <<Blank>> \o v.comments.same)
        \o (IF v.comments.after = <<>> THEN <<>> ELSE <<Eol>> \o v.comments.after \o <<Eol>>)

RECURSIVE StyledValue(_, _, _, _)

StyledObject(stream, doc, v, depth) ==
    LET names == MemberNames(v)
        AddMember(d, i) ==
            LET child == FindMember(v, names[i])
                head == Indent(stream, CommentBefore(d, child), depth + 1) \o <<Quoted(names[i]), Blank, <<":">>, Blank>>
                whole == StyledValue(stream, head, child, depth + 1)
            IN  CommentAfter(whole \o (IF i < Len(names) THEN <<<<",">>>> ELSE <<>>), child)
    IN  Indent(stream, FoldLeft(AddMember, Indent(stream, doc, depth) \o <<<<"{">>>>, Indices(names)), depth) \o <<<<"}">>>>

StyledArray(stream, doc, v, depth) ==
    LET children == Elements(v)
        AddElement(d, i) ==
            LET whole == StyledValue(stream, Indent(stream, CommentBefore(d, children[i]), depth + 1), children[i], depth + 1)
            IN  CommentAfter(whole \o (IF i < Len(children) THEN <<<<",">>>> ELSE <<>>), children[i])
    IN  IF IsMultiline(v)
        THEN Indent(stream, FoldLeft(AddElement, Indent(stream, doc, depth) \o <<<<"[">>>>, Indices(children)), depth) \o <<<<"]">>>>
        ELSE doc \o <<<<"[">>, Blank>> \o Joined([i \in DOMAIN children |-> Leaf(children[i])])
                 \o <<Blank, <<"]">>>>

StyledValue(stream, doc, v, depth) ==
    CASE v.type = "object" /\ v.items # <<>> -> StyledObject(stream, doc, v, depth)
      [] v.type = "array" /\ Size(v) > 0 -> StyledArray(stream, doc, v, depth)
      [] OTHER -> doc \o Leaf(v)

StyledWrite(v) == CommentAfter(StyledValue(FALSE, CommentBefore(<<>>, v), v, 0), v) \o <<Eol>>

StreamWrite(v) == CommentAfter(StyledValue(TRUE, CommentBefore(<<>>, v), v, 0), v) \o <<Eol>>
=============================================================================
