------------------------------- MODULE MCUrl -------------------------------
(***************************************************************************)
(* The URLs TLC writes: every authority with a few paths and queries,      *)
(* every path with two queries, and every query behind one path; and       *)
(* shorter paths and queries in five spellings.                            *)
(***************************************************************************)
EXTENDS Url

Letters == <<"a", "b", "c", "d", "e", "f", "g", "h", "i", "j", "k", "l", "m", "n", "o",
             "p", "q", "r", "s", "t", "u">>

\* Of ASCII, the characters used.
MCCode ==
  (" " :> 32) @@ ("%" :> 37) @@ ("&" :> 38) @@ ("-" :> 45) @@ ("." :> 46) @@ ("/" :> 47)
    @@ [d \in Range(Digits) |-> 48 + DigitValue(d)]
    @@ (":" :> 58) @@ ("=" :> 61) @@ ("?" :> 63)
    @@ [ch \in Range(UpperHex) \ Range(Digits) |-> 55 + HexValue(ch)]
    @@ [ch \in Range(Letters) |-> 96 + CHOOSE i \in DOMAIN Letters : Letters[i] = ch]

MCChars == DOMAIN MCCode

Escape(ch, hex) == <<"%", hex[(MCCode[ch] \div 16) + 1], hex[(MCCode[ch] % 16) + 1]>>
Escaping(chars, hex) == [ch \in MCChars |-> IF ch \in chars THEN Escape(ch, hex) ELSE <<ch>>]

Separators == {"%", "?", "&", "="}
Sparing == Escaping(Separators, UpperHex)
Spelt == {Sparing, Escaping(MCChars \ {"/", "."}, LowerHex), Escaping(Separators \cup {"."}, LowerHex),
          Escaping(Separators \cup {"/"}, UpperHex), Escaping({}, UpperHex)}

Ports == {<<"8", "0">>, <<"0">>, <<"6", "5", "5", "3", "5">>, <<"6", "5", "5", "3", "6">>,
          <<>>, <<"a">>, <<"8", "a">>, <<" ", "8">>, <<"-", "1">>, <<"-", "0">>,
          <<"9", "9", "9", "9", "9", "9", "9", "9", "9", "9", "9">>}

Form(absolute, host, port, path, query) ==
  [absolute |-> absolute, scheme |-> <<"s">>, host |-> host,
   hasPort |-> port # {}, port |-> IF port = {} THEN <<>> ELSE CHOOSE p \in port : TRUE,
   path |-> path, hasQuery |-> query # {},
   pairs |-> IF query = {} THEN <<>> ELSE CHOOSE q \in query : TRUE,
   spell |-> Sparing]

OptionalPorts == {{}} \cup {{p} : p \in Ports}

Paths == {<<"/">> \o p : p \in BoundedSeq({"a", ".", "/"}, 5) \cup BoundedSeq({"%", "?", ".", "/"}, 3)}

Texts == BoundedSeq({"a", "%", "=", "&", "2", "5"}, 2)
ShortTexts == BoundedSeq({"a", "&"}, 1)
Pair(k, v) == [key |-> k, value |-> v]
Queries == {<<>>} \cup {<<Pair(k, v)>> : k \in Texts, v \in Texts}
             \cup {<<Pair(k, v), Pair(l, w), Pair(m, <<"c">>)>> :
                     k, l, m \in ShortTexts, v, w \in ShortTexts}
AddressQuery == <<Pair(<<"u">>, <<"t", ":", "/", "/", "h", "/">>)>>

\* A URL in every spelling.
InSpellings(f) == {[f EXCEPT !.spell = s] : s \in Spelt}
SpelledPaths ==
  {<<"/">> \o p : p \in BoundedSeq({"a", ".", "/"}, 3) \cup BoundedSeq({"%", "?", "2", "."}, 3)}
SpelledTexts == {<<>>, <<"%">>, <<"%", "2", "F">>, <<"a", "=">>, <<"&", "5">>}

MCForms ==
  {Form(TRUE, h, p, <<>>, {}) : h \in {<<>>, <<"h">>}, p \in OptionalPorts}
    \cup {Form(TRUE, h, p, path, q) : h \in {<<>>, <<"h">>}, p \in OptionalPorts,
            path \in {<<"/">>, <<"/", "a", "/", ".", ".">>}, q \in {{}, {<<Pair(<<"a">>, <<"1">>)>>}}}
    \cup {Form(a, <<"h">>, {}, path, q) : a \in BOOLEAN, path \in Paths,
            q \in {{}, {AddressQuery}}}
    \cup {Form(FALSE, <<>>, {}, <<"/", "a">>, {q}) : q \in Queries}
    \cup UNION {InSpellings(Form(a, <<"h">>, {}, path, {})) : a \in BOOLEAN, path \in SpelledPaths}
    \cup UNION {InSpellings(Form(FALSE, <<>>, {}, <<"/", "a">>, {<<Pair(k, v), Pair(l, <<"a">>)>>})) :
                  k, l, v \in SpelledTexts}
=============================================================================
