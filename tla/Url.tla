-------------------------------- MODULE Url --------------------------------
(***************************************************************************)
(* Class Url and its Query (url.cpp): the constructor takes a URL apart,   *)
(* as a function from the text to the members it leaves behind.            *)
(*                                                                         *)
(* A text is a sequence of one-character strings.  Scheme, host, path and  *)
(* query matter here only through the characters the code compares with    *)
(* (/ : ? = & % . digits and signs); any other letter stands for itself.   *)
(* The environment writes a URL down from its parts (Compose), each        *)
(* character bare or escaped, so a property can compare what was meant     *)
(* with what was understood.                                               *)
(***************************************************************************)
EXTENDS Integers, SequencesExt

CONSTANTS
  Chars,  \* the characters of a text
  Code,   \* the byte each of them is
  Forms   \* the URLs written: records with the fields that Compose reads

UINT16_MAX == 65535
kReservedPort == 0

VARIABLES
  form,   \* the parts the URL was written from, or {} before
  url     \* the members of the Url object

vars == <<form, url>>

------------------------------------------------------------------------------
(***************************************************************************)
(* Query: keys_ leads from a key to the positions of its values.           *)
(***************************************************************************)
EmptyQuery == [keys |-> [k \in {} |-> <<>>], values |-> <<>>]

IndexesOf(q, key) == IF key \in DOMAIN q.keys THEN q.keys[key] ELSE <<>>

Get(q, key) == [i \in DOMAIN IndexesOf(q, key) |-> q.values[IndexesOf(q, key)[i]]]

\* Mutant: the position is taken before the value is stored.
AddBeforeStore(q, key, value) ==
  [keys   |-> [k \in {key} \cup DOMAIN q.keys |->
                 IF k = key THEN Append(IndexesOf(q, k), Len(q.values)) ELSE q.keys[k]],
   values |-> Append(q.values, value)]

Add(q, key, value) ==
  [keys   |-> [k \in {key} \cup DOMAIN q.keys |->
                 IF k = key THEN Append(IndexesOf(q, k), Len(q.values) + 1) ELSE q.keys[k]],
   values |-> Append(q.values, value)]

------------------------------------------------------------------------------
(***************************************************************************)
(* Url::Decode.  A byte that none of Chars is becomes a character named by *)
(* its number.                                                             *)
(***************************************************************************)
Digits == <<"0", "1", "2", "3", "4", "5", "6", "7", "8", "9">>
UpperHex == Digits \o <<"A", "B", "C", "D", "E", "F">>
LowerHex == Digits \o <<"a", "b", "c", "d", "e", "f">>

IsHex(ch) == ch \in Range(UpperHex) \cup Range(LowerHex)
HexValue(ch) == (CHOOSE i \in 1 .. 16 : ch \in {UpperHex[i], LowerHex[i]}) - 1

ByteOf(esc) == 16 * HexValue(esc[2]) + HexValue(esc[3])

Unescape(esc) ==
  IF \E ch \in Chars : Code[ch] = ByteOf(esc)
    THEN CHOOSE ch \in Chars : Code[ch] = ByteOf(esc)
    ELSE "x" \o ToString(ByteOf(esc))

\* The loop of Decode from position i on.
Decode(str) ==
  LET IsEscape(i) == /\ str[i] = "%" /\ i + 2 =< Len(str)
                     /\ IsHex(str[i + 1]) /\ IsHex(str[i + 2])
      rest[i \in 1 .. Len(str) + 1] ==
        IF i > Len(str) THEN <<>>
        ELSE IF IsEscape(i) THEN <<Unescape(SubSeq(str, i, i + 2))>> \o rest[i + 3]
        ELSE <<str[i]>> \o rest[i + 1]
  IN rest[1]

------------------------------------------------------------------------------
(***************************************************************************)
(* std::filesystem::path::lexically_normal on a POSIX path.                *)
(***************************************************************************)
Segments(path) ==
  FoldLeft(LAMBDA segs, ch : IF ch = "/" THEN Append(segs, <<>>)
                             ELSE [segs EXCEPT ![Len(segs)] = Append(@, ch)],
           << <<>> >>, path)

Dot == <<".">>
DotDot == <<".", ".">>
IsDown(stack) == stack # <<>> /\ Last(stack) # DotDot

IsRooted(path) == path # <<>> /\ path[1] = "/"

\* The names a path leads through.
Resolved(path) ==
  FoldLeft(LAMBDA stack, seg :
             CASE seg \in {<<>>, Dot} -> stack
               [] seg = DotDot /\ IsDown(stack) -> Front(stack)
               [] seg = DotDot /\ ~IsDown(stack) ->
                    IF IsRooted(path) THEN stack ELSE Append(stack, seg)
               [] OTHER -> Append(stack, seg),
           <<>>, Segments(path))

Joined(names) ==
  FoldLeft(LAMBDA text, name : IF text = <<>> THEN name ELSE text \o <<"/">> \o name,
           <<>>, names)

LexicallyNormal(path) ==
  LET stack == Resolved(path)
      isDir == Last(Segments(path)) \in {<<>>, Dot, DotDot}
  IN CASE path = <<>> -> <<>>
       [] path # <<>> /\ stack = <<>> -> IF IsRooted(path) THEN <<"/">> ELSE Dot
       [] OTHER -> (IF IsRooted(path) THEN <<"/">> ELSE <<>>) \o Joined(stack)
                     \o (IF isDir /\ IsDown(stack) THEN <<"/">> ELSE <<>>)

------------------------------------------------------------------------------
(***************************************************************************)
(* Url::ParseHostPort with the std::stoi it calls.  Stoi skips blanks,     *)
(* takes a sign and reads digits up to the first other character; it does  *)
(* not look at what follows.  Values above UINT16_MAX are told apart by    *)
(* nothing, so they are all UINT16_MAX + 1 here, and "nothing to convert"  *)
(* is -1, which the range check refuses as the exception handlers do.      *)
(***************************************************************************)
DigitValue(ch) == (CHOOSE i \in DOMAIN Digits : Digits[i] = ch) - 1

\* How many characters of chars a text begins with.
Leading(text, chars) ==
  LET i == SelectInSeq(text, LAMBDA ch : ch \notin chars)
  IN IF i = 0 THEN Len(text) ELSE i - 1

NextNumber(n, ch) ==
  IF n > UINT16_MAX THEN n
  ELSE IF 10 * n + DigitValue(ch) > UINT16_MAX THEN UINT16_MAX + 1 ELSE 10 * n + DigitValue(ch)

Stoi(text) ==
  LET number == SubSeq(text, Leading(text, {" "}) + 1, Len(text))
      signed == number # <<>> /\ number[1] \in {"+", "-"}
      unsigned == IF signed THEN Tail(number) ELSE number
      digits == SubSeq(unsigned, 1, Leading(unsigned, Range(Digits)))
      value == FoldLeft(NextNumber, 0, digits)
  IN IF digits = <<>> THEN -1
     ELSE IF signed /\ number[1] = "-" THEN -value ELSE value

Invalid(u) == [u EXCEPT !.valid = FALSE]

HostPortUpTo(u, hostPort, maxPort) ==
  LET hostEnd == SelectInSeq(hostPort, LAMBDA ch : ch = ":")
      host == IF hostEnd = 0 THEN hostPort ELSE SubSeq(hostPort, 1, hostEnd - 1)
      port == Stoi(SubSeq(hostPort, hostEnd + 1, Len(hostPort)))
      named == [u EXCEPT !.host = host]
  IN CASE host = <<>> -> Invalid(named)
       [] host # <<>> /\ hostEnd = 0 -> named
       [] OTHER -> IF port \in 0 .. maxPort
                     THEN [named EXCEPT !.port = port % (UINT16_MAX + 1)]
                     ELSE Invalid(named)

\* Mutant: the check of the upper limit lets one value too many through.
ParseHostPortOffByOne(u, hostPort) == HostPortUpTo(u, hostPort, UINT16_MAX + 1)

ParseHostPort(u, hostPort) == HostPortUpTo(u, hostPort, UINT16_MAX)

------------------------------------------------------------------------------
(***************************************************************************)
(* Url::ParseQuery: one step per character, then the pair left over.       *)
(***************************************************************************)
Scanning(q) == [query |-> q, key |-> <<>>, value |-> <<>>, parseKey |-> TRUE]

AddPair(scan) == Add(scan.query, Decode(scan.key), Decode(scan.value))

ScanChar(scan, ch) ==
  CASE scan.parseKey /\ ch = "=" -> [scan EXCEPT !.parseKey = FALSE]
    [] scan.parseKey /\ ch # "=" -> [scan EXCEPT !.key = Append(@, ch)]
    [] ~scan.parseKey /\ ch = "&" -> Scanning(AddPair(scan))
    [] OTHER -> [scan EXCEPT !.value = Append(@, ch)]

\* Mutant: the query is decoded before it is split.
ParseQueryDecoded(u, text) ==
  LET scan == FoldLeft(ScanChar, Scanning(u.query), Decode(text))
  IN IF scan.parseKey /\ scan.key = <<>> THEN [u EXCEPT !.query = scan.query]
     ELSE [u EXCEPT !.query = AddPair(scan)]

ParseQuery(u, text) ==
  LET scan == FoldLeft(ScanChar, Scanning(u.query), text)
  IN IF scan.parseKey /\ scan.key = <<>> THEN [u EXCEPT !.query = scan.query]
     ELSE [u EXCEPT !.query = AddPair(scan)]

\* Mutant: the path in front of a query is not normalised.
ParsePathQueryAsSent(u, text) ==
  LET pathEnd == SelectInSeq(text, LAMBDA ch : ch = "?")
  IN IF pathEnd = 0 THEN [u EXCEPT !.path = Decode(LexicallyNormal(text))]
     ELSE ParseQuery([u EXCEPT !.path = Decode(SubSeq(text, 1, pathEnd - 1))],
                     SubSeq(text, pathEnd + 1, Len(text)))

ParsePathQuery(u, text) ==
  LET pathEnd == SelectInSeq(text, LAMBDA ch : ch = "?")
      path == IF pathEnd = 0 THEN text ELSE SubSeq(text, 1, pathEnd - 1)
      parsed == [u EXCEPT !.path = Decode(LexicallyNormal(path))]
  IN IF pathEnd = 0 THEN parsed
     ELSE ParseQuery(parsed, SubSeq(text, pathEnd + 1, Len(text)))

(***************************************************************************)
(* Url::Parse and Url::ParseSchemeHostPort.  Without a path the code       *)
(* parses host and port twice, to the same effect, and leaves path_ alone. *)
(***************************************************************************)
IsSchemeEnd(text, i) == SubSeq(text, i, i + 2) = <<":", "/", "/">>

Parse(u, text) ==
  LET schemeEnds == {i \in 1 .. Len(text) - 2 : IsSchemeEnd(text, i)}
      schemeEnd == Min(schemeEnds)
      slash == SelectInSubSeq(text, schemeEnd + 3, Len(text), LAMBDA ch : ch = "/")
      hostEnd == IF slash = 0 THEN Len(text) ELSE slash - 1
      withHost == ParseHostPort([u EXCEPT !.scheme = SubSeq(text, 1, schemeEnd - 1)],
                                SubSeq(text, schemeEnd + 3, hostEnd))
  IN CASE schemeEnds = {} -> ParsePathQuery(u, text)
       [] schemeEnds # {} /\ slash = 0 -> withHost
       [] OTHER -> ParsePathQuery(withHost, SubSeq(text, slash, Len(text)))

DefaultUrl ==
  [scheme |-> <<>>, host |-> <<>>, path |-> <<"/">>, query |-> EmptyQuery,
   port |-> kReservedPort, valid |-> TRUE]

------------------------------------------------------------------------------
(***************************************************************************)
(* Writing a URL: scheme://host[:port][/path[?query]] or /path[?query].    *)
(* The spelling of a URL says for each character how it is written in the  *)
(* path and in the pairs of the query: bare, or as the escape of its byte. *)
(* The slash a path begins with, and a port, are written as they are.      *)
(***************************************************************************)
Text == Seq(Chars)

ASSUME CharsAssumption ==
  /\ {"/", ":", "?", "=", "&", "%", "."} \subseteq Chars
  /\ Code \in [Chars -> 0 .. 255]
  /\ \A ch, other \in Chars : Code[ch] = Code[other] => ch = other

IsEscapeOf(text, ch) ==
  /\ Len(text) = 3 /\ text[1] = "%" /\ IsHex(text[2]) /\ IsHex(text[3])
  /\ ByteOf(text) = Code[ch]

Spellings ==
  {spell \in [Chars -> Text] :
     \A ch \in Chars : spell[ch] = <<ch>> \/ IsEscapeOf(spell[ch], ch)}

Spelled(spell, text) == FlattenSeq([i \in DOMAIN text |-> spell[text[i]]])

PathText(f) ==
  IF f.path = <<>> THEN <<>> ELSE <<"/">> \o Spelled(f.spell, Tail(f.path))

QueryText(spell, pairs) ==
  FlattenSeq([i \in DOMAIN pairs |->
    (IF i = 1 THEN <<>> ELSE <<"&">>) \o Spelled(spell, pairs[i].key) \o <<"=">>
      \o Spelled(spell, pairs[i].value)])

Compose(f) ==
  (IF f.absolute THEN f.scheme \o <<":", "/", "/">> \o f.host ELSE <<>>)
    \o (IF f.absolute /\ f.hasPort THEN <<":">> \o f.port ELSE <<>>)
    \o PathText(f)
    \o (IF f.hasQuery THEN <<"?">> \o QueryText(f.spell, f.pairs) ELSE <<>>)

\* The grammar of what is written: a scheme holds no ":", a host no ":" and no "/",
\* a port no "/"; a path begins with a slash, and only an absolute URL may go
\* without one; only behind a path comes a query.
ASSUME FormsAssumption ==
  \A f \in Forms :
    /\ f \in [absolute : BOOLEAN, scheme : Text, host : Text, hasPort : BOOLEAN, port : Text,
              path : Text, hasQuery : BOOLEAN, pairs : Seq([key : Text, value : Text]),
              spell : Spellings]
    /\ ":" \notin Range(f.scheme) /\ Range(f.host) \cap {":", "/"} = {}
    /\ "/" \notin Range(f.port)
    /\ IF f.path = <<>> THEN f.absolute /\ ~f.hasQuery ELSE IsRooted(f.path)
    /\ ~f.hasQuery => f.pairs = <<>>

Init ==
  /\ form = {}
  /\ url = DefaultUrl

\* The constructor Url(text).
Construct(f) ==
  /\ form = {}
  /\ form' = {f}
  /\ url' = Parse(DefaultUrl, Compose(f))

Next == \E f \in Forms : Construct(f)

Spec == Init /\ [][Next]_vars

------------------------------------------------------------------------------
(***************************************************************************)
(* Properties.                                                             *)
(***************************************************************************)

\* The members have their types, and the positions in keys_ are exactly those
\* of values_, each under one key and in ascending order, so that Query::Get
\* stays within values_ (url.cpp:35-51).
TypeOK ==
  /\ url.port \in 0 .. UINT16_MAX
  /\ url.valid \in BOOLEAN
  /\ LET keys == url.query.keys IN
     /\ UNION {Range(keys[k]) : k \in DOMAIN keys} = DOMAIN url.query.values
     /\ \A k, l \in DOMAIN keys : k # l => Range(keys[k]) \cap Range(keys[l]) = {}
     /\ \A k \in DOMAIN keys : \A i, j \in DOMAIN keys[k] : i < j => keys[k][i] < keys[k][j]

\* The decimal number a text denotes if it is one of 1 .. UINT16_MAX, else 0.
PortNumber(text) ==
  IF text = <<>> \/ \E i \in DOMAIN text : text[i] \notin Range(Digits)
    THEN 0
    ELSE IF Stoi(text) > UINT16_MAX THEN 0 ELSE Stoi(text)

WellFormed(f) ==
  f.absolute => /\ f.scheme # <<>> /\ f.host # <<>>
                /\ f.hasPort => PortNumber(f.port) > 0

\* A URL whose path and query would be taken for an authority.
LooksAbsolute(f) ==
  ~f.absolute /\ \E i \in 1 .. Len(Compose(f)) - 2 : IsSchemeEnd(Compose(f), i)

\* The characters that separate a path, a query and its pairs, and the "%" of
\* escapes, are escaped where they are meant as characters.
Unambiguous(spell) == \A ch \in {"%", "?", "&", "="} : spell[ch] # <<ch>>

\* Dots and slashes are bare, so they mean the same before and after decoding.
KeepsNames(spell) == spell["/"] = <<"/">> /\ spell["."] = <<".">>

\* Every well-formed URL that holds no second "://" is valid and is taken apart
\* into the scheme, host and port it was written from, however it is spelled; and
\* into the normalised path, unless dots or slashes were escaped: only then does
\* it matter that the path is normalised before it is decoded (url.cpp:81-160).
PartsRecovered ==
  \A f \in form : WellFormed(f) /\ ~LooksAbsolute(f) =>
    /\ url.valid
    /\ url.scheme = IF f.absolute THEN f.scheme ELSE <<>>
    /\ url.host = IF f.absolute THEN f.host ELSE <<>>
    /\ url.port = IF f.absolute /\ f.hasPort THEN PortNumber(f.port) ELSE kReservedPort
    /\ Unambiguous(f.spell) /\ KeepsNames(f.spell) =>
         url.path = IF f.path = <<>> THEN <<"/">> ELSE LexicallyNormal(f.path)

\* The values that pairs give a key, in their order.
ValuesOf(pairs, k) ==
  FoldLeft(LAMBDA values, pair : IF pair.key = k THEN Append(values, pair.value) ELSE values,
           <<>>, pairs)

\* The query has the pairs it was written from: the values in their order, and
\* under every key that key's values in their order, whatever characters keys
\* and values hold and whichever of them are escaped besides the separators
\* (url.cpp:53-79, 162-191).
QueryRecovered ==
  \A f \in form : WellFormed(f) /\ ~LooksAbsolute(f) /\ Unambiguous(f.spell) =>
    /\ url.query.values = [i \in DOMAIN f.pairs |-> f.pairs[i].value]
    /\ DOMAIN url.query.keys = {f.pairs[i].key : i \in DOMAIN f.pairs}
    /\ \A k \in DOMAIN url.query.keys : Get(url.query, k) = ValuesOf(f.pairs, k)

\* A URL with an empty host, or with a port that is empty, not a number or above
\* UINT16_MAX, is not valid, whatever path and query come behind
\* (url.cpp:109-147).
BadAuthorityRejected ==
  \A f \in form :
    /\ f.absolute
    /\ \/ f.host = <<>>
       \/ f.hasPort /\ Stoi(f.port) \notin 0 .. UINT16_MAX
    => ~url.valid

\* url.hpp:102-103: a port that is not a uint16_t greater than 0 makes the URL
\* invalid.
PortIsPositiveUint16 ==
  \A f \in form : f.absolute /\ f.host # <<>> /\ f.hasPort /\ PortNumber(f.port) = 0
                    => ~url.valid

\* url.hpp:58-59: /path[?query] is a form the class supports; such a URL has
\* neither scheme nor host.
OriginFormSupported ==
  \A f \in form : ~f.absolute => url.scheme = <<>> /\ url.host = <<>>
=============================================================================
