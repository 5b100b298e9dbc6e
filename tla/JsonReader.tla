------------------------------ MODULE JsonReader ------------------------------
(***************************************************************************)
(* Json::Reader of JsonCpp, which descends into a document and stores what *)
(* it reads into the value that it was given.  A reader is a record:       *)
(*   doc, at      the document and current_                                *)
(*   tok          the token read last, <<"comment">> and <<"end">> too     *)
(*   root, path   the value, and the keys from it to currentValue()        *)
(*   before       commentsBefore_                                          *)
(*   lastEnd      lastValueEnd_, 0 for none                                *)
(*   last         the path of lastValue_                                   *)
(*   errors, ok   the number of errors_ and what the function returns      *)
(*   comments, strict, collect    features_ and collectComments_           *)
(***************************************************************************)
EXTENDS JsonWriter

ValueTokens == {"{", "[", "number", "string", "true", "false", "null"}

(* The value at a path, and the value with another one there.              *)
RECURSIVE At(_, _)
At(v, path) == IF path = <<>> THEN v ELSE At(v.items[Head(path)], Tail(path))

RECURSIVE Update(_, _, _)
Update(v, path, new) ==
    IF path = <<>> THEN new ELSE [v EXCEPT !.items[Head(path)] = Update(@, Tail(path), new)]

Current(r) == At(r.root, r.path)

Store(r, new) == [r EXCEPT !.root = Update(@, r.path, Assign(Current(r), new))]

AddError(r) == [r EXCEPT !.errors = @ + 1, !.ok = FALSE]
-----------------------------------------------------------------------------
AtEnd(r) == r.at > Len(r.doc)

SkipSpaces(r) ==
    LET rest == {i \in r.at..Len(r.doc) : r.doc[i] \notin {Blank, Eol}}
    IN  [r EXCEPT !.at = Min(rest \cup {Len(r.doc) + 1})]

ContainsNewLine(doc, from, to) == \E i \in from..(to - 1) : doc[i] = Eol

(* readComment(): a comment that is not closed is no comment.              *)
CommentEnds(r) ==
    LET closing == IF r.doc[r.at][1] = "//" THEN Eol ELSE <<"*/">>
    IN  {i \in r.at..Len(r.doc) : r.doc[i] = closing}

AddComment(r, from, to) ==
    LET text == SubSeq(r.doc, from, to - 1)
        onSameLine == /\ r.lastEnd # 0 /\ ~ContainsNewLine(r.doc, r.lastEnd, from)
                      /\ r.doc[from][1] = "/*" => ~ContainsNewLine(r.doc, from, to)
    IN  CASE ~r.collect -> r
          [] r.collect /\ onSameLine ->
               [r EXCEPT !.root = Update(@, r.last, SetComment(At(@, r.last), "same", text))]
          [] OTHER ->
               [r EXCEPT !.before = (IF @ = <<>> THEN <<>> ELSE Append(@, Eol)) \o text]

ReadComment(r) ==
    LET ends == CommentEnds(r)
        next == IF ends = {} THEN Len(r.doc) + 1 ELSE Min(ends) + 1
    IN  IF ends = {} /\ r.doc[r.at][1] = "/*"
        THEN [r EXCEPT !.at = next, !.tok = <<"bad">>]
        ELSE [AddComment(r, r.at, next) EXCEPT !.at = next, !.tok = <<"comment">>]

TokenAt(s) ==
    CASE AtEnd(s) -> [s EXCEPT !.tok = <<"end">>]
      [] ~AtEnd(s) /\ s.doc[s.at][1] \in {"//", "/*"} -> ReadComment(s)
      [] OTHER -> [s EXCEPT !.tok = s.doc[s.at], !.at = @ + 1]

ReadToken(r) == TokenAt(SkipSpaces(r))

(* Goes on from a token that is a comment, to the next one that is none.   *)
RECURSIVE PastComments(_)
PastComments(r) == IF r.tok[1] = "comment" THEN PastComments(ReadToken(r)) ELSE r

NextToken(r) == PastComments(ReadToken(r))

SkipCommentTokens(r) == IF r.comments THEN NextToken(r) ELSE ReadToken(r)

RECURSIVE SkipUntil(_, _)
SkipUntil(r, until) == IF r.tok[1] \in {until, "end"} THEN r ELSE SkipUntil(ReadToken(r), until)
-----------------------------------------------------------------------------
(* Slips in this code that the properties must notice.                     *)

(* wraps a number that does not fit                                        *)
DecodeNumberWraps(n, point) ==
    Number(IF point THEN "real" ELSE "int", IF n > MaxInt THEN n - MaxUInt - 1 ELSE n)
-----------------------------------------------------------------------------
Recover(r, until) == [SkipUntil(ReadToken(r), until) EXCEPT !.errors = r.errors, !.ok = FALSE]

DecodeNumber(n, point) ==
    LET magnitude == IF n < 0 THEN -n ELSE n
        threshold == (IF n < 0 THEN -MinInt ELSE MaxUInt) \div 10
    IN  CASE point \/ magnitude \div 10 >= threshold -> Number("real", n)
          [] ~point /\ magnitude \div 10 < threshold /\ n > MaxInt -> Number("uint", n)
          [] OTHER -> Number("int", n)

Utf8(code) ==
    CASE code < 128 -> <<code>>
      [] code \in 128..2047 -> <<192 + code \div 64, 128 + (code % 64)>>
      [] code \in 2048..65535 -> <<224 + code \div 4096, 128 + ((code \div 64) % 64), 128 + (code % 64)>>
      [] OTHER -> <<240 + code \div 262144, 128 + ((code \div 4096) % 64),
                    128 + ((code \div 64) % 64), 128 + (code % 64)>>

(* A code from D800 to DBFF waits for the other one of its pair.           *)
DecodeUnit(d, unit) ==
    CASE ~d.ok \/ unit[1] = "bad" \/ (d.high # 0 /\ unit[1] # "u") -> [d EXCEPT !.ok = FALSE]
      [] d.high # 0 /\ unit[1] = "u" ->
           [d EXCEPT !.high = 0, !.text = @ \o Utf8(65536 + (d.high % 1024) * 1024 + (unit[2] % 1024))]
      [] d.high = 0 /\ unit[1] = "u" /\ unit[2] \in 55296..56319 -> [d EXCEPT !.high = unit[2]]
      [] d.high = 0 /\ unit[1] = "u" /\ unit[2] \notin 55296..56319 ->
           [d EXCEPT !.text = @ \o Utf8(unit[2])]
      [] OTHER -> [d EXCEPT !.text = Append(@, unit[2])]

DecodeString(units) ==
    LET d == FoldLeft(DecodeUnit, [ok |-> TRUE, text |-> <<>>, high |-> 0], units)
    IN  [d EXCEPT !.ok = d.ok /\ d.high = 0]

(* What a value or a name keeps is a C string, which a 0 ends.             *)
UpToZero(text) ==
    LET zeros == {i \in DOMAIN text : text[i] = 0}
    IN  IF zeros = {} THEN text ELSE SubSeq(text, 1, Min(zeros) - 1)
-----------------------------------------------------------------------------
RECURSIVE ReadValue(_)

(* nodes_ with the value that operator [] has found or made.               *)
ReadChild(r, parent, key) ==
    [ReadValue([r EXCEPT !.root = Update(@, r.path, parent), !.path = Append(@, key)])
        EXCEPT !.path = r.path]

(* readObject(): a name or the end, after a member with that name; ...     *)
RECURSIVE ReadName(_, _)

NextMember(comma, name) == IF comma.tok[1] = "}" THEN comma ELSE ReadName(NextToken(comma), name)

AfterMember(comma, name) ==
    IF comma.tok[1] \in {"}", ",", "comment"} THEN NextMember(PastComments(comma), name)
    ELSE Recover(AddError(comma), "}")

ReadComma(member, name) ==
    IF member.ok THEN AfterMember(ReadToken(member), name) ELSE Recover(member, "}")

ReadMember(colon, name) ==
    IF colon.tok[1] = ":"
    THEN ReadComma(ReadChild(colon, Member(Current(colon), UpToZero(name)), UpToZero(name)), name)
    ELSE Recover(AddError(colon), "}")

AfterName(r, name) ==
    IF name.ok THEN ReadMember(ReadToken(r), name.text) ELSE Recover(AddError(r), "}")

ReadName(r, previous) ==
    CASE r.tok[1] = "}" /\ previous = <<>> -> r
      [] r.tok[1] = "string" -> AfterName(r, DecodeString(r.tok[2]))
      [] r.tok[1] # "string" /\ ~(r.tok[1] = "}" /\ previous = <<>>) -> Recover(AddError(r), "}")

EmptyArray(r) == ~AtEnd(r) /\ r.doc[r.at] = <<"]">>

(* The loop of readArray(): any token but the end separates two elements.  *)
RECURSIVE ReadElements(_, _)

NextElement(comma, i) ==
    IF comma.tok[1] = "]" THEN comma ELSE ReadElements(comma, i + 1)

AfterElement(element, i) ==
    IF element.ok THEN NextElement(NextToken(element), i) ELSE Recover(element, "]")

ReadElements(r, i) == AfterElement(ReadChild(r, Element(Current(r), i), <<i>>), i)

ReadArray(r) == LET s == SkipSpaces(r) IN IF EmptyArray(s) THEN ReadToken(s) ELSE ReadElements(s, 0)

ReadString(r) ==
    LET string == DecodeString(r.tok[2])
    IN  IF string.ok THEN Store(r, String(UpToZero(string.text))) ELSE AddError(r)

Remember(r) == IF r.collect THEN [r EXCEPT !.lastEnd = r.at, !.last = r.path] ELSE r

(* The comments that were read before go to the value.                     *)
SetBefore(r) ==
    IF r.before = <<>> THEN r
    ELSE [r EXCEPT !.root = Update(@, r.path, SetComment(Current(r), "before", r.before)),
                   !.before = <<>>]

ValueOf(c) ==
    CASE c.tok[1] = "{" -> ReadName(NextToken(Store(c, Value("object"))), <<>>)
      [] c.tok[1] = "[" -> ReadArray(Store(c, Value("array")))
      [] c.tok[1] = "number" -> Store(c, DecodeNumber(c.tok[2], c.tok[3]))
      [] c.tok[1] = "string" -> ReadString(c)
      [] c.tok[1] = "null" -> Store(c, Null)
      [] c.tok[1] = "true" -> Store(c, [Value("boolean") EXCEPT !.n = 1])
      [] c.tok[1] = "false" -> Store(c, Value("boolean"))

ValueOrError(c) == IF c.tok[1] \in ValueTokens THEN Remember(ValueOf(c)) ELSE AddError(c)

ReadValue(r) == ValueOrError(SetBefore(SkipCommentTokens(r)))

All == [comments |-> TRUE, strict |-> FALSE]
StrictMode == [comments |-> FALSE, strict |-> TRUE]

Start(doc, root, features, collectComments) ==
    [doc |-> doc, at |-> 1, tok |-> <<"bad">>, root |-> root, path |-> <<>>,
     before |-> <<>>, lastEnd |-> 0, last |-> <<>>, errors |-> 0, ok |-> TRUE,
     comments |-> features.comments, strict |-> features.strict,
     collect |-> collectComments /\ features.comments]

SetAfter(r) == IF r.before = <<>> THEN r ELSE [r EXCEPT !.root = SetComment(@, "after", r.before)]

CheckRoot(r) == IF r.strict /\ r.root.type \notin {"null", "array", "object"} THEN AddError(r) ELSE r

Parse(doc, root, features, collectComments) ==
    CheckRoot(SetAfter(SkipCommentTokens(ReadValue(Start(doc, root, features, collectComments)))))
=============================================================================
