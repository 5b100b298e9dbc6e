---------------------------- MODULE MCSerializers ----------------------------
(***************************************************************************)
(* What turns data into bytes or text in the repository, four parts that   *)
(* share no state, side by side for TLC: a behaviour is one of ByteBuffer, *)
(* one of Packets, one of Json or one of ResultSet.                        *)
(***************************************************************************)
EXTENDS MCBuffers

CONSTANTS RightMargin, LeafWidth, MaxTokens

VARIABLES which, doc, read

jsonVars == <<root, steps, aborted, doc, read>>

LongOption == [opcode |-> 300, values |-> <<9>>]

Packed == {[opcode |-> 1, options |-> <<>>, data |-> <<65, 66>>],
           [opcode |-> 1, data |-> <<65, 0, 66>>,
            options |-> <<[opcode |-> 7, values |-> <<1, 0>>], [LongOption EXCEPT !.values = <<>>]>>],
           [opcode |-> 2, options |-> <<>>, data |-> <<1>>],
           [opcode |-> 2, options |-> <<LongOption>>, data |-> <<70000, 1>>]}

V == INSTANCE JsonValue

Eol == <<"eol">>

(* Two members, with a // comment behind the first on its line and a       *)
(* comment on two lines before the second.                                 *)
Noted == [V!SetMember(V!SetMember(V!Null, <<>>, V!Null), <<97>>, V!Null) EXCEPT
              !.items[<<>>].comments.same = <<<<"//", 1>>>>,
              !.items[<<97>>].comments.before = <<<<"/*", 1>>, Eol, <<"*/">>>>]

(* Null, the least and the greatest integers, a string to escape, an array *)
(* with an element that nobody referred to, an object, one with comments.  *)
Stored == {V!Null, V!Number("int", V!MinInt), V!Number("uint", MaxInt), V!String(<<10, 1, 34>>),
            V!SetElement(V!Null, 1, V!Number("real", 3)),
            V!SetMember(V!Null, <<97>>, V!Number("int", 1)), Noted}

Keys == {<<97>>, <<>>}

(* With the end of its line, with a blank at its end instead; on one line  *)
(* and on two.                                                             *)
Notes == {<<<<"//", 1>>, Eol>>, <<<<"//", 1>>, <<" ">>>>,
          <<<<"/*", 1>>, <<"*/">>>>, <<<<"/*", 1>>, Eol, <<"*/">>>>}

(* A number that does not fit an int, and a character behind U+FFFF.       *)
Tokens == {<<"{">>, <<"}">>, <<"[">>, <<"]">>, <<",">>, <<":">>, <<"eol">>, <<"true">>, <<"//", 2>>,
           <<"number", MaxInt + 1, FALSE>>, <<"string", <<<<"plain", 97>>>>>>,
           <<"string", <<<<"u", 55357>>, <<"u", 56832>>>>>>}

J == INSTANCE Json

(* "5", NULL, "-1" and "abc", "300", "".                                   *)
Rows == <<<<<<53>>, NoField, <<45, 49>>>>, <<<<97, 98, 99>>, <<51, 48, 48>>, <<>>>>>>

MCInit == /\ Init /\ P!Init /\ J!Init /\ R!Init
          /\ which \in {"ByteBuffer", "Packets", "Json", "ResultSet"}
          /\ which # "Packets" => registered = {}

MCNext == \/ which = "ByteBuffer" /\ Next /\ UNCHANGED <<which, packetVars, jsonVars, resultVars>>
          \/ which = "Packets" /\ P!Next /\ UNCHANGED <<which, vars, jsonVars, resultVars>>
          \/ which = "Json" /\ J!Next /\ UNCHANGED <<which, vars, packetVars, resultVars>>
          \/ which = "ResultSet" /\ R!Next /\ UNCHANGED <<which, vars, packetVars, jsonVars>>

MCSpec == MCInit /\ [][MCNext]_<<which, vars, packetVars, jsonVars, resultVars>>

RoundTrip == which = "Json" => J!RoundTrip
ReadsAllJson == which = "Json" => J!ReadsAllJson
OrderIsTotal == which = "Json" => J!OrderIsTotal
PathsLeadToWhatTheyMade == which = "Json" => J!PathsLeadToWhatTheyMade
StrictModeIsStrict == which = "Json" => J!StrictModeIsStrict
=============================================================================
