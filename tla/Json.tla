-------------------------------- MODULE Json --------------------------------
(***************************************************************************)
(* A program that uses JsonCpp: it makes a value as JsonEdit does, writes  *)
(* it, gets a document from elsewhere, possibly with a token missing, and  *)
(* reads a document into its value.                                        *)
(***************************************************************************)
EXTENDS JsonReader, JsonPath, JsonOrder, JsonEdit

CONSTANTS Tokens,      \* tokens of the documents it gets
          MaxTokens    \* bound: of such a document

VARIABLES doc,      \* the document to read, <<>> for none yet
          read      \* has the document been read?

vars == <<edited, doc, read>>

-----------------------------------------------------------------------------
(* References: what a value means, what a JSON text means.                 *)
RECURSIVE Meaning(_)
Meaning(v) ==
    CASE v.type = "array" -> <<"array", [i \in 1..Size(v) |-> Meaning(FindElement(v, i - 1))]>>
      [] v.type = "object" -> <<"object", [name \in DOMAIN v.items |-> Meaning(v.items[name])]>>
      [] v.type \in Numbers -> <<"number", v.n>>
      [] OTHER -> <<v.type, v.n, v.text>>

(* The ways to cut a text at some of its commas.                           *)
Pieces(text) ==
    {LET ends == <<0>> \o SetToSortSeq(cuts, <) \o <<Len(text) + 1>>
     IN  [i \in 1..(Len(ends) - 1) |-> SubSeq(text, ends[i] + 1, ends[i + 1] - 1)] :
     cuts \in SUBSET {i \in DOMAIN text : text[i] = <<",">>}}

The(S) == CHOOSE x \in S : TRUE

(* The meanings of a text without comments and blanks: one, or none when   *)
(* it is no JSON.  A member that comes twice has its last value.           *)
RECURSIVE MeaningsOf(_)
MeaningsOf(text) ==
    LET inner == SubSeq(text, 2, Len(text) - 1)
        Body(piece) == SubSeq(piece, 3, Len(piece))
        Lists(from) == {p \in Pieces(inner) : \A i \in DOMAIN p :
                            MeaningsOf(IF from = 3 THEN Body(p[i]) ELSE p[i]) # {}}
        Name(piece) == DecodeString(piece[1][2]).text
        Named(p) == \A i \in DOMAIN p : /\ Len(p[i]) > 2 /\ p[i][1][1] = "string" /\ p[i][2] = <<":">>
                                        /\ DecodeString(p[i][1][2]).ok
        Whole(first, last) == Len(text) > 1 /\ text[1] = <<first>> /\ Last(text) = <<last>>
    IN  CASE Len(text) = 1 /\ text[1][1] \in {"null", "true", "false"} ->
               {<<IF text[1][1] = "null" THEN "null" ELSE "boolean", IF text[1][1] = "true" THEN 1 ELSE 0, <<>>>>}
          [] Len(text) = 1 /\ text[1][1] = "number" -> {<<"number", text[1][2]>>}
          [] Len(text) = 1 /\ text[1][1] = "string" ->
               {<<"string", 0, d.text>> : d \in {d \in {DecodeString(text[1][2])} : d.ok}}
          [] Whole("[", "]") ->
               IF inner = <<>> THEN {<<"array", <<>>>>}
               ELSE {<<"array", [i \in DOMAIN p |-> The(MeaningsOf(p[i]))]>> : p \in Lists(1)}
          [] Whole("{", "}") ->
               IF inner = <<>> THEN {<<"object", <<>>>>}
               ELSE {<<"object", [name \in {Name(p[i]) : i \in DOMAIN p} |->
                         The(MeaningsOf(Body(p[CHOOSE i \in DOMAIN p : /\ Name(p[i]) = name
                                                   /\ \A j \in DOMAIN p : Name(p[j]) = name => j <= i])))]>> :
                     p \in {p \in Lists(3) : Named(p)}}
          [] OTHER -> {}

(* Does the reader give the value back from what a writer made of it?      *)
ReadsBack(text, v, collect) ==
    LET r == Parse(text, Null, All, collect)
    IN  r.ok /\ Meaning(r.root) = Meaning(v)

(* The comments at a placement of the values that a value is made of.      *)
RECURSIVE CommentsIn(_, _)
CommentsIn(v, placement) ==
    UNION {{v.items[k].comments[placement]} \cup CommentsIn(v.items[k], placement) : k \in DOMAIN v.items}

(* After a value, // comments that do not bring the end of their line.     *)
OpenComments(v) ==
    {c \in CommentsIn(v, "same") : c # <<>> /\ c[1][1] = "//" /\ Last(c) # Eol}

(* Before a value, /* comments that go on behind the end of their line.    *)
LongComments(v) ==
    {c \in CommentsIn(v, "before") :
        \E i \in DOMAIN c : c[i] = Eol /\ c[1][1] = "/*" /\ \A j \in 1..(i - 1) : c[j] # <<"*/">>}

Significant(text) ==
    SelectSeq(text, LAMBDA t : t \notin {Blank, Eol})
-----------------------------------------------------------------------------
Init == Begin /\ doc = <<>> /\ read = FALSE

Edit == doc = <<>> /\ ~read /\ Operate /\ UNCHANGED <<doc, read>>

Write == /\ doc = <<>> /\ ~aborted /\ steps > 0 /\ ~read
         /\ doc' = FastWrite(root)
         /\ UNCHANGED <<edited, read>>

(* A document from elsewhere, and one that has lost a token.               *)
GetToken == /\ steps = 0 /\ ~read /\ Len(doc) < MaxTokens
            /\ \E token \in Tokens : doc' = Append(doc, token)
            /\ UNCHANGED <<edited, read>>

Lose == /\ doc # <<>> /\ doc = FastWrite(root)
        /\ \E i \in 1..(Len(doc) - 1) : doc' = RemoveAt(doc, i)
        /\ UNCHANGED <<edited, read>>

ReadInto == \E features \in {All, StrictMode}, collect \in BOOLEAN :
    LET r == Parse(doc, root, features, collect)
    IN  /\ doc # <<>>
        /\ root' = r.root /\ read' = TRUE /\ doc' = <<>>
        /\ UNCHANGED <<steps, aborted>>

Next == Edit \/ Write \/ GetToken \/ Lose \/ ReadInto

Spec == Init /\ [][Next]_vars
-----------------------------------------------------------------------------
(* Whatever a program has made of its value, with elements that the map of *)
(* an array does not have (json_writer.cpp:208, 352), the document of the  *)
(* FastWriter is read as the same value.  Those of the styled writers are  *)
(* too, whatever the comments and the layout, but for a // comment without *)
(* its end of line, which setComment() takes: the comment before the next  *)
(* value follows on its line (484-490, 764-770), and StyledWriter goes on  *)
(* there when it ends in a blank (450-452).                                *)
RoundTrip ==
    doc = <<>> => \A collect \in BOOLEAN :
        LET open == OpenComments(root)
            kept == open = {} \/ LongComments(root) = {}
        IN  /\ ReadsBack(FastWrite(root), root, collect)
            /\ kept => ReadsBack(StreamWrite(root), root, collect)
            /\ kept /\ (\A c \in open : Last(c) # Blank) => ReadsBack(StyledWrite(root), root, collect)

(* Every JSON text is read, as what it means, with and without comments    *)
(* collected, and in strict mode when it is an array or an object          *)
(* (json_reader.cpp:194-579).                                              *)
ReadsAllJson ==
    LET meanings == MeaningsOf(Significant(doc))
    IN  meanings # {} =>
            \A features \in {All, StrictMode}, collect \in BOOLEAN :
                LET r == Parse(doc, Null, features, collect)
                IN  /\ features = All => r.ok
                    /\ r.ok \/ r.root.type \notin {"array", "object"}
                    /\ Meaning(r.root) \in meanings

(* Of two values exactly one holds: they are equal, or one is less; and    *)
(* values equal to one another are in the same order to others             *)
(* (json_value.cpp:565-667).                                               *)
OrderIsTotal ==
    doc = <<>> => \A a, b \in Parts \cup Samples :
        /\ Cardinality({i \in 1..3 : <<Less(a, b), Equal(a, b), Less(b, a)>>[i]}) = 1
        /\ \A c \in Parts : Less(a, b) /\ Less(b, c) => Less(a, c)

PathArgs == UNION {[1..n -> {Index(i) : i \in 0..(MaxSize - 1)} \cup {Key(name) : name \in Names}] :
                      n \in 0..2}

(* A path as value.h:477 describes it; a name that cannot be in the text   *)
(* is its argument.                                                        *)
TextOf(args) ==
    FlattenSeq([i \in DOMAIN args |->
        IF args[i][1] = "index" THEN <<Open, 48 + args[i][2], Close>>
        ELSE <<Dot>> \o IF args[i][2] = <<>> THEN <<Percent>> ELSE args[i][2]])

(* The text of a path gives the path, make() makes no other value than the *)
(* one that resolve() then finds by the same path, and resolve() with a    *)
(* default agrees where the path has names only, and with get()            *)
(* (json_value.cpp:1124-1138, 1531-1716).                                  *)
PathsLeadToWhatTheyMade ==
    doc = <<>> => \A args \in PathArgs :
        LET x == String(<<1, 2>>)
            made == Make(root, args, x)
        IN  /\ MakePath(TextOf(args), 1, <<Key(<<>>)>>) = args
            /\ Len(args) = 1 /\ args[1][1] = "key" /\ IsObject(root) =>
                  Equal(ResolveOr(root, args, x), Get(root, args[1][2], x))
            /\ ~ResolveAborts(root, args) =>
                  /\ Equal(Resolve(made, args), x)
                  /\ (\A i \in DOMAIN args : args[i][1] = "key") => Equal(ResolveOr(made, args, Null), x)
                  /\ \A other \in PathArgs :
                        \/ IsPrefix(args, other) \/ IsPrefix(other, args) \/ ResolveAborts(made, other)
                        \/ Equal(Resolve(made, other), Resolve(root, other))

(* What features.h:22 says of strict mode: it takes JSON and nothing else. *)
(* The code takes more (json_reader.cpp:172-190, 504, 566).                *)
StrictModeIsStrict == Parse(doc, Null, StrictMode, FALSE).ok => MeaningsOf(Significant(doc)) # {}
=============================================================================
