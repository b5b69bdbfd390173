----------------------------- MODULE UrlProofs -----------------------------
(***************************************************************************)
(* A Url keeps the invariants of module Url whatever URL it is made from,  *)
(* of any length and over any characters.                                  *)
(*                                                                         *)
(* The constructor is a handful of loops over characters.  Each is first   *)
(* shown to be the function Loop of SequenceProofs for the step that it    *)
(* takes (SegmentStep, ScanStep, AddStep, NumberStep, FollowStep,          *)
(* JoinStep), so that it can be unfolded a character at a time from the    *)
(* back and an induction is one over a set of sequences.  Then what        *)
(* Compose writes is read back part by part: the authority                 *)
(* (AuthoritySplit), the query (PairsRead), the characters of a name       *)
(* (DecodeSpelled) and the path (NormalSpelled).                           *)
(***************************************************************************)
EXTENDS Url, SequenceProofs

(***************************************************************************)
(* Segments of a path.                                                     *)
(***************************************************************************)
NonEmpty(T) == {s \in Seq(T) : s # <<>>}

\* What Segments does with one character.
SegmentStep(segs, ch) ==
  IF ch = "/" THEN Append(segs, <<>>)
  ELSE [segs EXCEPT ![Len(segs)] = Append(@, ch)]

LEMMA SegmentStepType ==
  ASSUME NEW segs \in NonEmpty(Text), NEW ch \in Chars
  PROVE  SegmentStep(segs, ch) \in NonEmpty(Text)
<1> DEFINE T == Text
<1>1. /\ segs \in Seq(T) /\ Len(segs) \in Nat /\ Len(segs) \in 1 .. Len(segs)
      /\ segs[Len(segs)] \in T /\ <<>> \in T
  BY EmptySeq, LenProperties, ElementOfSeq DEF NonEmpty, Text
<1> DEFINE last == Append(segs[Len(segs)], ch)
           other == [segs EXCEPT ![Len(segs)] = last]
<1>2. last \in T
  BY <1>1, AppendProperties DEF Text
<1> HIDE DEF T, last
<1>3. Append(segs, <<>>) \in Seq(T) /\ Len(Append(segs, <<>>)) = Len(segs) + 1
  BY <1>1, AppendProperties
<1>4. other \in Seq(T) /\ Len(other) = Len(segs)
  BY <1>1, <1>2, ExceptSeq
<1>5. SegmentStep(segs, ch) \in Seq(T) /\ Len(SegmentStep(segs, ch)) # 0
  BY <1>1, <1>3, <1>4 DEF SegmentStep, last
<1>6. SegmentStep(segs, ch) # <<>>
  <2>1. Len(<<>>) = 0
    BY EmptySeq
  <2> QED
    BY <1>5, <2>1, Zenon
<1> QED
  BY <1>5, <1>6 DEF NonEmpty, T

\* Segments, a character at a time.
LEMMA SegmentsProperties ==
  /\ Segments(<<>>) = << <<>> >>
  /\ \A s \in Text : Segments(s) \in NonEmpty(Text)
  /\ \A s \in Text, ch \in Chars : Segments(Append(s, ch)) = SegmentStep(Segments(s), ch)
<1> DEFINE A == NonEmpty(Text)
           base == << <<>> >>
           step == [x \in A \X Chars |-> SegmentStep(x[1], x[2])]
           F == Loop(A, Chars, base, step)
<1>1. base \in A
  BY EmptySeq DEF NonEmpty, Text
<1>2. step \in [A \X Chars -> A]
  BY SegmentStepType
<1> HIDE DEF A, base
<1>3. ASSUME NEW s \in Text PROVE Segments(s) = F[s]
  <2> DEFINE D == DOMAIN s
             rec(it) == it = [S \in SUBSET D |->
               IF S = {} THEN base ELSE SegmentStep(it[S \ {Max(S)}], s[Max(S)])]
             fold == CHOOSE it : rec(it)
  <2>1. Segments(s) = fold[D]
    BY DEF Segments, FoldLeft, MapThenFoldSet, SegmentStep, base
  <2>2. PICK h : FoldsSeq(h, A, Chars, s, base, step)
    <3> HIDE DEF step
    <3> QED
      BY <1>1, <1>2, SeqFoldExists DEF Text
  <2>3. rec(h)
    BY <2>2 DEF FoldsSeq
  <2>4. rec(fold)
    <3> HIDE DEF rec
    <3> QED
      BY <2>3
  <2>5. FoldsBy(fold, A, s, base, step)
    <3> HIDE DEF fold
    <3>1. fold[{}] = base
      BY <2>4
    <3>2. ASSUME NEW i \in 1 .. Len(s), fold[1 .. i - 1] \in A
          PROVE  fold[1 .. i] = step[<<fold[1 .. i - 1], s[i]>>]
      <4>1. /\ 1 .. i \in SUBSET (1 .. Len(s)) /\ 1 .. i # {} /\ s[i] \in Chars
            /\ Max(1 .. i) = i /\ (1 .. i) \ {i} = 1 .. i - 1 /\ DOMAIN s = 1 .. Len(s)
        BY LenProperties, InitialSegment, ElementOfSeq DEF Text
      <4>2. fold[1 .. i] = SegmentStep(fold[1 .. i - 1], s[i])
        BY <2>4, <4>1
      <4> QED
        BY <3>2, <4>1, <4>2
    <3> QED
      BY <3>1, <3>2 DEF FoldsBy
  <2>6. FoldsTo(fold, s, F)
    <3> HIDE DEF step, fold
    <3> QED
      BY <1>1, <1>2, <2>5, FoldIsLoop DEF Text
  <2>7. D = 1 .. Len(s)
    BY LenProperties DEF Text
  <2> QED
    BY <2>1, <2>6, <2>7, Zenon DEF FoldsTo
<1>4. F \in [Text -> A] /\ IsLoop(F, Chars, base, step)
  <2> HIDE DEF step
  <2> QED
    BY <1>1, <1>2, LoopProperties DEF Text
<1> HIDE DEF F
<1>5. Segments(<<>>) = base
  <2>1. <<>> \in Text
    BY EmptySeq DEF Text
  <2> QED
    BY <1>3, <1>4, <2>1 DEF IsLoop
<1>6. ASSUME NEW s \in Text, NEW ch \in Chars
      PROVE  Segments(Append(s, ch)) = SegmentStep(Segments(s), ch)
  <2>1. Append(s, ch) \in Text
    BY AppendProperties DEF Text
  <2>2. F[s] \in A /\ F[Append(s, ch)] = step[<<F[s], ch>>]
    BY <1>4 DEF IsLoop, Text
  <2> QED
    BY <1>3, <2>1, <2>2
<1> QED
  BY <1>3, <1>4, <1>5, <1>6 DEF A, base

------------------------------------------------------------------------------
(***************************************************************************)
(* Spelling a text, a character at a time.                                 *)
(***************************************************************************)
LEMMA OneMoreChar ==
  ASSUME NEW s \in Text, NEW ch \in Chars
  PROVE  /\ Append(s, ch) \in Text /\ Len(Append(s, ch)) = Len(s) + 1 /\ Len(s) \in Nat
         /\ Append(s, ch)[Len(s) + 1] = ch
         /\ \A i \in 1 .. Len(s) : Append(s, ch)[i] = s[i]
BY AppendProperties, LenProperties DEF Text

LEMMA TextConcat ==
  /\ <<>> \in Text
  /\ \A s \in Text : Len(s) \in Nat /\ DOMAIN s = 1 .. Len(s) /\ s \o <<>> = s /\ <<>> \o s = s
  /\ \A s, t \in Text : s \o t \in Text /\ Len(s \o t) = Len(s) + Len(t)
  /\ \A s, t, u \in Text : (s \o t) \o u = s \o (t \o u)
  /\ \A s, t \in Text, ch \in Chars : s \o Append(t, ch) = Append(s \o t, ch)
<1>1. <<>> \in Text
  BY EmptySeq DEF Text
<1>2. \A s \in Text : Len(s) \in Nat /\ DOMAIN s = 1 .. Len(s) /\ s \o <<>> = s /\ <<>> \o s = s
  BY LenProperties, ConcatEmptySeq DEF Text
<1>3. \A s, t \in Text : s \o t \in Text /\ Len(s \o t) = Len(s) + Len(t)
  BY ConcatProperties DEF Text
<1>4. \A s, t, u \in Text : (s \o t) \o u = s \o (t \o u)
  BY ConcatAssociative DEF Text
<1>5. \A s, t \in Text, ch \in Chars : s \o Append(t, ch) = Append(s \o t, ch)
  BY ConcatAppend DEF Text
<1> QED
  BY <1>1, <1>2, <1>3, <1>4, <1>5

LEMMA TextAssoc ==
  ASSUME NEW s \in Text, NEW t \in Text, NEW u \in Text
  PROVE  (s \o t) \o u = s \o (t \o u)
BY ConcatAssociative DEF Text

\* A character is written bare or as an escape of its byte.
LEMMA SpelledChar ==
  ASSUME NEW sp \in Spellings, NEW ch \in Chars
  PROVE  /\ sp[ch] \in Text /\ sp[ch] # <<>>
         /\ sp[ch] = <<ch>> \/ IsEscapeOf(sp[ch], ch)
<1>1. sp[ch] \in Text /\ (sp[ch] = <<ch>> \/ IsEscapeOf(sp[ch], ch))
  BY DEF Spellings
<1>2. ASSUME sp[ch] = <<>> PROVE FALSE
  <2>1. Len(<<>>) = 0 /\ Len(<<ch>>) = 1
    OBVIOUS
  <2> QED
    BY <1>1, <1>2, <2>1 DEF IsEscapeOf
<1> QED
  BY <1>1, <1>2

LEMMA SpelledProperties ==
  ASSUME NEW sp \in Spellings
  PROVE  /\ Spelled(sp, <<>>) = <<>>
         /\ \A s \in Text : Spelled(sp, s) \in Text
         /\ \A s \in Text, ch \in Chars :
              Spelled(sp, Append(s, ch)) = Spelled(sp, s) \o sp[ch]
<1> DEFINE Pieces(s) == [i \in DOMAIN s |-> sp[s[i]]]
<1>1. ASSUME NEW s \in Text
      PROVE  /\ Pieces(s) \in Seq(Text) /\ Len(Pieces(s)) = Len(s) /\ DOMAIN s = 1 .. Len(s)
             /\ Len(s) \in Nat
  <2>1. DOMAIN s = 1 .. Len(s) /\ Len(s) \in Nat /\ \A i \in 1 .. Len(s) : s[i] \in Chars
    BY LenProperties, ElementOfSeq DEF Text
  <2>2. \A i \in 1 .. Len(s) : sp[s[i]] \in Text
    BY <2>1, SpelledChar
  <2>3. Pieces(s) = [i \in 1 .. Len(s) |-> sp[s[i]]]
    BY <2>1
  <2>4. Pieces(s) \in [1 .. Len(s) -> Text]
    BY <2>2, <2>3
  <2> HIDE DEF Pieces
  <2>5. Pieces(s) \in Seq(Text)
    BY <2>1, <2>4, SeqDef
  <2>6. DOMAIN Pieces(s) = 1 .. Len(Pieces(s)) /\ Len(Pieces(s)) \in Nat
    BY <2>5, LenProperties
  <2> QED
    BY <2>1, <2>4, <2>5, <2>6
<1>2. \A s \in Text : Spelled(sp, s) \in Text
  BY <1>1, FlattenProperties DEF Spelled, Text
<1>3. Spelled(sp, <<>>) = <<>>
  <2>1. Pieces(<<>>) = <<>>
    OBVIOUS
  <2>2. FlattenSeq(<<>>) = <<>>
    BY FlattenProperties
  <2> QED
    BY <2>1, <2>2 DEF Spelled
<1>4. ASSUME NEW s \in Text, NEW ch \in Chars
      PROVE  Spelled(sp, Append(s, ch)) = Spelled(sp, s) \o sp[ch]
  <2> DEFINE t == Append(s, ch)
             e == sp[ch]
  <2>1. /\ t \in Text /\ Len(t) = Len(s) + 1 /\ t[Len(s) + 1] = ch
        /\ \A i \in 1 .. Len(s) : t[i] = s[i]
    BY OneMoreChar
  <2>2. e \in Text
    BY SpelledChar
  <2> HIDE DEF t
  <2>3. Pieces(t) = Append(Pieces(s), e)
    <3>1. /\ Pieces(s) \in Seq(Text) /\ Len(Pieces(s)) = Len(s) /\ Len(s) \in Nat
          /\ Pieces(t) \in Seq(Text) /\ Len(Pieces(t)) = Len(s) + 1
          /\ DOMAIN s = 1 .. Len(s) /\ DOMAIN t = 1 .. Len(s) + 1
      <4> HIDE DEF Pieces
      <4> QED
        BY <1>1, <2>1
    <3>2. /\ \A i \in 1 .. Len(s) : Pieces(t)[i] = Pieces(s)[i]
          /\ Pieces(t)[Len(s) + 1] = e
      <4>1. Len(s) + 1 \in DOMAIN t /\ \A i \in 1 .. Len(s) : i \in DOMAIN t /\ i \in DOMAIN s
        BY <3>1
      <4>2. ASSUME NEW i \in 1 .. Len(s) PROVE Pieces(t)[i] = Pieces(s)[i]
        BY <2>1, <4>1, Zenon
      <4>3. Pieces(t)[Len(s) + 1] = e
        BY <2>1, <4>1, Zenon
      <4> HIDE DEF Pieces, e
      <4> QED
        BY <4>2, <4>3
    <3> HIDE DEF Pieces, e
    <3>3. /\ Append(Pieces(s), e) \in Seq(Text) /\ Len(Append(Pieces(s), e)) = Len(s) + 1
          /\ \A i \in 1 .. Len(s) : Append(Pieces(s), e)[i] = Pieces(s)[i]
          /\ Append(Pieces(s), e)[Len(s) + 1] = e
      BY <2>2, <3>1, AppendProperties
    <3>4. \A i \in 1 .. Len(s) + 1 : Pieces(t)[i] = Append(Pieces(s), e)[i]
      BY <3>1, <3>2, <3>3
    <3> QED
      BY <3>1, <3>3, <3>4, SeqEqual
  <2>4. FlattenSeq(Append(Pieces(s), e)) = FlattenSeq(Pieces(s)) \o e
    <3> HIDE DEF Pieces, e
    <3> QED
      BY <1>1, <2>2, FlattenProperties DEF Text
  <2>5. Spelled(sp, t) = FlattenSeq(Pieces(t)) /\ Spelled(sp, s) = FlattenSeq(Pieces(s))
    BY DEF Spelled
  <2> QED
    BY <2>3, <2>4, <2>5 DEF t
<1> QED
  BY <1>2, <1>3, <1>4

\* Spelling a whole is spelling its parts.
LEMMA SpelledConcat ==
  ASSUME NEW sp \in Spellings,
         NEW s \in Text, NEW t \in Text
  PROVE  Spelled(sp, s \o t) = Spelled(sp, s) \o Spelled(sp, t)
<1> DEFINE P == {u \in Text : Spelled(sp, s \o u) = Spelled(sp, s) \o Spelled(sp, u)}
<1>1. <<>> \in P
  <2>1. <<>> \in Text /\ s \o <<>> = s /\ Spelled(sp, s) \o <<>> = Spelled(sp, s)
    BY EmptySeq, ConcatEmptySeq, SpelledProperties DEF Text
  <2> QED
    BY <2>1, SpelledProperties
<1>2. ASSUME NEW u \in Text, NEW ch \in Chars, u \in P PROVE Append(u, ch) \in P
  <2> DEFINE e == sp[ch]
  <2> DEFINE su == s \o u
  <2>1a. Append(u, ch) \in Text
    BY OneMoreChar
  <2>1b. s \o Append(u, ch) = Append(su, ch)
    BY TextConcat
  <2>1c. su \in Text
    BY TextConcat
  <2>1d. e \in Text
    BY SpelledChar
  <2>1. Spelled(sp, s) \in Text /\ Spelled(sp, u) \in Text
    BY SpelledProperties
  <2>2. Spelled(sp, Append(su, ch)) = Spelled(sp, su) \o e
    BY <2>1c, SpelledProperties
  <2>3. Spelled(sp, su) = Spelled(sp, s) \o Spelled(sp, u)
    BY <1>2
  <2>4. Spelled(sp, Append(u, ch)) = Spelled(sp, u) \o e
    BY SpelledProperties
  <2> HIDE DEF e, su
  <2>5. (Spelled(sp, s) \o Spelled(sp, u)) \o e = Spelled(sp, s) \o (Spelled(sp, u) \o e)
    <3>1. Spelled(sp, s) \in Text
      BY <2>1
    <3>2. Spelled(sp, u) \in Text
      BY <2>1
    <3> QED
      BY <2>1d, <3>1, <3>2, TextAssoc
  <2>6. Spelled(sp, s \o Append(u, ch)) = Spelled(sp, s) \o Spelled(sp, Append(u, ch))
    BY <2>1b, <2>2, <2>3, <2>4, <2>5, Zenon
  <2> QED
    BY <2>1a, <2>6
<1>3. \A u \in Seq(Chars) : u \in P
  <2>1. \A u \in Seq(Chars), ch \in Chars : u \in P => Append(u, ch) \in P
    BY <1>2 DEF Text
  <2> HIDE DEF P
  <2> QED
    BY <1>1, <2>1, SeqSetInduction
<1> QED
  BY <1>3 DEF Text

\* A text is its first character and the rest.
LEMMA FirstAndRest ==
  ASSUME NEW s \in Text, s # <<>>
  PROVE  /\ s[1] \in Chars /\ <<s[1]>> \in Text /\ Tail(s) \in Text
         /\ s = <<s[1]>> \o Tail(s)
<1> DEFINE rest == SubSeq(s, 2, Len(s))
<1>1. Len(s) \in Nat \ {0} /\ s[1] \in Chars
  <2>1. Len(s) \in Nat \ {0}
    BY EmptySeq DEF Text
  <2>2. 1 \in 1 .. Len(s)
    BY <2>1
  <2> QED
    BY <2>1, <2>2, ElementOfSeq DEF Text
<1>2. s = <<s[1]>> \o rest /\ rest \in Text /\ <<s[1]>> \in Text
  <2>1. 1 \in 1 .. Len(s) /\ Len(s) \in 1 .. Len(s)
    BY <1>1
  <2>2. SubSeq(s, 1, Len(s)) = <<s[1]>> \o SubSeq(s, 1 + 1, Len(s))
    BY <2>1, SubSeqRecursiveFirst DEF Text
  <2>3. SubSeq(s, 1, Len(s)) = s /\ 1 + 1 = 2
    BY SubSeqFull DEF Text
  <2>4. 2 \in 1 .. Len(s) + 1 /\ Len(s) \in 0 .. Len(s)
    BY <1>1
  <2>5. rest \in Text
    BY <2>4, SubSeqType DEF Text
  <2> QED
    BY <1>1, <2>2, <2>3, <2>5, OneElement DEF Text
<1>3. Tail(s) = rest
  BY TailIsSubSeq DEF Text
<1> QED
  BY <1>1, <1>2, <1>3

LEMMA SpelledOne ==
  ASSUME NEW sp \in Spellings, NEW c \in Chars
  PROVE  Spelled(sp, <<c>>) = sp[c]
<1>1. <<>> \in Text /\ Append(<<>>, c) = <<c>>
  BY EmptySeq DEF Text
<1>2. sp[c] \in Text /\ <<>> \o sp[c] = sp[c]
  BY SpelledChar, ConcatEmptySeq DEF Text
<1>3. Spelled(sp, Append(<<>>, c)) = Spelled(sp, <<>>) \o sp[c]
  BY <1>1, SpelledProperties
<1> QED
  BY <1>1, <1>2, <1>3, SpelledProperties

\* A text begins as its first character does when it is spelled.
LEMMA SpelledFirst ==
  ASSUME NEW sp \in Spellings,
         NEW s \in Text, s # <<>>
  PROVE  /\ s[1] \in Chars /\ Spelled(sp, s) # <<>>
         /\ Spelled(sp, s)[1] = sp[s[1]][1]
<1> DEFINE e == sp[s[1]]
           rest == Tail(s)
<1>1. s[1] \in Chars /\ s = <<s[1]>> \o rest /\ rest \in Text /\ <<s[1]>> \in Text
  BY FirstAndRest
<1>2. Spelled(sp, <<s[1]>>) = e
  BY <1>1, SpelledOne
<1>3. Spelled(sp, s) = e \o Spelled(sp, rest)
  <2> HIDE DEF e, rest
  <2> QED
    BY <1>1, <1>2, SpelledConcat
<1>4. e \in Text /\ e # <<>> /\ Spelled(sp, rest) \in Text
  BY <1>1, SpelledChar, SpelledProperties
<1> HIDE DEF e, rest
<1>5. /\ Len(e) \in Nat \ {0} /\ Len(Spelled(sp, rest)) \in Nat
      /\ Len(Spelled(sp, s)) = Len(e) + Len(Spelled(sp, rest))
      /\ \A i \in 1 .. Len(e) + Len(Spelled(sp, rest)) : Spelled(sp, s)[i] =
            IF i =< Len(e) THEN e[i] ELSE Spelled(sp, rest)[i - Len(e)]
  BY <1>3, <1>4, EmptySeq, LenProperties, ConcatProperties DEF Text
<1>6. Spelled(sp, s)[1] = e[1] /\ Len(Spelled(sp, s)) # 0
  BY <1>5
<1>7. Len(<<>>) = 0
  OBVIOUS
<1> QED
  BY <1>1, <1>6, <1>7 DEF e

------------------------------------------------------------------------------
(***************************************************************************)
(* The authority, as it is written and as it is found.                     *)
(***************************************************************************)
FormType == [absolute : BOOLEAN, scheme : Text, host : Text, hasPort : BOOLEAN, port : Text,
             path : Text, hasQuery : BOOLEAN, pairs : Seq([key : Text, value : Text]),
             spell : Spellings]

\* Compose writes scheme, SchemeEnd, Authority and PathQuery.
Authority(f) == f.host \o (IF f.hasPort THEN <<":">> \o f.port ELSE <<>>)
PathQuery(f) ==
  PathText(f) \o (IF f.hasQuery THEN <<"?">> \o QueryText(f.spell, f.pairs) ELSE <<>>)
SchemeEnd == <<":", "/", "/">>

\* Truth values as names: what the provers are given as an argument.
Yes == TRUE
No == FALSE

\* The members of a Url.
Url6(scheme, host, path, query, port, valid) ==
  [scheme |-> scheme, host |-> host, path |-> path, query |-> query, port |-> port,
   valid |-> valid]

LEMMA CharFacts ==
  /\ "/" \in Chars /\ ":" \in Chars /\ "?" \in Chars /\ "=" \in Chars /\ "&" \in Chars
  /\ <<":">> \in Text /\ <<"?">> \in Text /\ <<"&">> \in Text /\ <<"=">> \in Text
  /\ SchemeEnd \in Text /\ Len(SchemeEnd) = 3 /\ SchemeEnd[1] = ":" /\ SchemeEnd[2] = "/"
  /\ SchemeEnd[3] = "/"
<1>1. "/" \in Chars /\ ":" \in Chars /\ "?" \in Chars /\ "=" \in Chars /\ "&" \in Chars
  BY CharsAssumption
<1>2. \A ch \in Chars : <<ch>> \in Text
  BY OneElement DEF Text
<1>3. \A a, b, c \in Chars : <<a, b, c>> \in Text
  BY ThreeElements DEF Text
<1>4. SchemeEnd \in Text
  BY <1>1, <1>3 DEF SchemeEnd
<1>5. Len(SchemeEnd) = 3 /\ SchemeEnd[1] = ":" /\ SchemeEnd[2] = "/" /\ SchemeEnd[3] = "/"
  BY DEF SchemeEnd
<1> QED
  BY <1>1, <1>2, <1>4, <1>5

LEMMA FormFacts ==
  ASSUME NEW f \in Forms
  PROVE  /\ f \in FormType /\ f.spell \in Spellings
         /\ \A i \in 1 .. Len(f.scheme) : f.scheme[i] # ":"
         /\ \A i \in 1 .. Len(f.host) : f.host[i] # ":" /\ f.host[i] # "/"
         /\ \A i \in 1 .. Len(f.port) : f.port[i] # "/"
         /\ f.path # <<>> => f.path[1] = "/"
         /\ f.path = <<>> => f.absolute /\ ~f.hasQuery
         /\ ~f.hasQuery => f.pairs = <<>>
<1>1. f \in FormType /\ f.spell \in Spellings
  BY FormsAssumption DEF FormType
<1>2. f.scheme \in Text /\ f.host \in Text /\ f.port \in Text
  BY <1>1 DEF FormType
<1>3. /\ ":" \notin Range(f.scheme) /\ Range(f.host) \cap {":", "/"} = {}
      /\ "/" \notin Range(f.port)
  BY FormsAssumption
<1>4. /\ f.path = <<>> => f.absolute /\ ~f.hasQuery
      /\ f.path # <<>> => f.path[1] = "/"
      /\ ~f.hasQuery => f.pairs = <<>>
  BY FormsAssumption DEF IsRooted
<1>5. ASSUME NEW s \in Text, NEW i \in 1 .. Len(s)
      PROVE  s[i] \in Range(s)
  BY TextConcat DEF Range
<1>6. \A i \in 1 .. Len(f.scheme) : f.scheme[i] # ":"
  BY <1>2, <1>3, <1>5
<1>7. \A i \in 1 .. Len(f.host) : f.host[i] # ":" /\ f.host[i] # "/"
  BY <1>2, <1>3, <1>5
<1>8. \A i \in 1 .. Len(f.port) : f.port[i] # "/"
  BY <1>2, <1>3, <1>5
<1> QED
  BY <1>1, <1>4, <1>6, <1>7, <1>8

LEMMA QueryTextType ==
  ASSUME NEW sp \in Spellings,
         NEW pairs \in Seq([key : Text, value : Text])
  PROVE  QueryText(sp, pairs) \in Text
<1> DEFINE piece(i) == (IF i = 1 THEN <<>> ELSE <<"&">>) \o Spelled(sp, pairs[i].key) \o <<"=">>
                         \o Spelled(sp, pairs[i].value)
           pieces == [i \in DOMAIN pairs |-> piece(i)]
<1>1. DOMAIN pairs = 1 .. Len(pairs) /\ Len(pairs) \in Nat
  BY LenProperties
<1>2. ASSUME NEW i \in 1 .. Len(pairs) PROVE piece(i) \in Text
  <2>1. pairs[i].key \in Text /\ pairs[i].value \in Text
    <3>1. pairs[i] \in [key : Text, value : Text]
      BY ElementOfSeq
    <3> QED
      BY <3>1
  <2>2. Spelled(sp, pairs[i].key) \in Text /\ Spelled(sp, pairs[i].value) \in Text
    BY <2>1, SpelledProperties
  <2>3. (IF i = 1 THEN <<>> ELSE <<"&">>) \in Text /\ <<"=">> \in Text
    BY CharFacts, TextConcat
  <2> QED
    BY <2>2, <2>3, TextConcat
<1> HIDE DEF piece
<1>3. pieces \in Seq(Text)
  <2>1. pieces \in [1 .. Len(pairs) -> Text]
    BY <1>1, <1>2
  <2> QED
    BY <1>1, <2>1, SeqDef
<1>4. FlattenSeq(pieces) \in Text
  <2> HIDE DEF pieces
  <2> QED
    BY <1>3, FlattenProperties DEF Text
<1> QED
  BY <1>4 DEF QueryText, piece

\* The path as it is written begins with a slash when there is one.
LEMMA PathTextIs ==
  ASSUME NEW f \in Forms
  PROVE  /\ PathText(f) \in Text
         /\ f.path = <<>> => PathText(f) = <<>>
         /\ f.path # <<>> => /\ PathText(f) = <<"/">> \o Spelled(f.spell, Tail(f.path))
                            /\ PathText(f) # <<>> /\ PathText(f)[1] = "/"
                            /\ Tail(f.path) \in Text /\ f.path = <<"/">> \o Tail(f.path)
<1>1. f.path \in Text /\ f.spell \in Spellings
  BY FormFacts DEF FormType
<1>2. CASE f.path = <<>>
  BY <1>2, TextConcat DEF PathText
<1>3. CASE f.path # <<>>
  <2> DEFINE rest == Spelled(f.spell, Tail(f.path))
             slash == <<"/">>
  <2>1. Tail(f.path) \in Text /\ f.path = <<f.path[1]>> \o Tail(f.path)
    BY <1>1, <1>3, FirstAndRest
  <2>2. f.path[1] = "/"
    BY <1>3, FormFacts
  <2>3. rest \in Text
    BY <1>1, <2>1, SpelledProperties
  <2>4. slash \in Text /\ Len(slash) = 1 /\ slash[1] = "/"
    BY CharFacts, OneElement DEF Text
  <2>5. PathText(f) = slash \o rest
    BY <1>3 DEF PathText
  <2> HIDE DEF slash, rest
  <2>6. /\ slash \o rest \in Text /\ Len(rest) \in Nat /\ Len(slash \o rest) = 1 + Len(rest)
        /\ (slash \o rest)[1] = "/"
    <3>1. /\ slash \o rest \in Seq(Chars) /\ Len(slash \o rest) = Len(slash) + Len(rest)
          /\ \A i \in 1 .. Len(slash) + Len(rest) : (slash \o rest)[i] =
                IF i =< Len(slash) THEN slash[i] ELSE rest[i - Len(slash)]
      BY <2>3, <2>4, ConcatProperties DEF Text
    <3>2. Len(rest) \in Nat
      BY <2>3, TextConcat
    <3>3. 1 \in 1 .. Len(slash) + Len(rest) /\ 1 =< Len(slash)
      BY <2>4, <3>2
    <3> QED
      BY <2>4, <3>1, <3>2, <3>3 DEF Text
  <2>7. slash \o rest # <<>>
    <3>1. Len(<<>>) = 0
      OBVIOUS
    <3> QED
      BY <2>6, <3>1
  <2> QED
    BY <1>3, <2>1, <2>2, <2>5, <2>6, <2>7 DEF slash, rest
<1> QED
  BY <1>2, <1>3

LEMMA ComposeIs ==
  ASSUME NEW f \in Forms
  PROVE  /\ Authority(f) \in Text /\ PathQuery(f) \in Text
         /\ f.absolute => Compose(f) = ((f.scheme \o SchemeEnd) \o Authority(f)) \o PathQuery(f)
         /\ ~f.absolute => Compose(f) = PathQuery(f)
<1> DEFINE p == PathText(f)
           q == IF f.hasQuery THEN <<"?">> \o QueryText(f.spell, f.pairs) ELSE <<>>
           o == IF f.hasPort THEN <<":">> \o f.port ELSE <<>>
<1>1. /\ f.scheme \in Text /\ f.host \in Text /\ f.port \in Text /\ f.path \in Text
      /\ f.pairs \in Seq([key : Text, value : Text]) /\ f.absolute \in BOOLEAN
      /\ f.spell \in Spellings
  BY FormFacts DEF FormType
<1>2. p \in Text
  BY PathTextIs
<1>3. q \in Text
  BY <1>1, QueryTextType, CharFacts, TextConcat
<1>4. o \in Text
  BY <1>1, CharFacts, TextConcat
<1>5. SchemeEnd \in Text
  BY CharFacts
<1>6. Authority(f) = f.host \o o /\ PathQuery(f) = p \o q
  BY DEF Authority, PathQuery
<1>7. f.absolute => Compose(f) = (((f.scheme \o SchemeEnd) \o f.host) \o o) \o p \o q
  BY DEF Compose, SchemeEnd
<1>8. ~f.absolute => Compose(f) = ((<<>> \o <<>>) \o p) \o q
  BY DEF Compose
<1> HIDE DEF p, q, o
<1>9. Authority(f) \in Text /\ PathQuery(f) \in Text
  BY <1>1, <1>2, <1>3, <1>4, <1>6, TextConcat
<1> DEFINE s == f.scheme \o SchemeEnd
<1>10. s \in Text
  BY <1>1, <1>5, TextConcat
<1> HIDE DEF s
<1>11. (s \o f.host) \o o = s \o Authority(f)
  <2>1. f.host \in Text
    BY <1>1
  <2>2. Authority(f) = f.host \o o
    BY <1>6
  <2>3. (s \o f.host) \o o = s \o (f.host \o o)
    BY <1>4, <1>10, <2>1, TextAssoc
  <2> QED
    BY <2>2, <2>3
<1>12. ((s \o Authority(f)) \o p) \o q = (s \o Authority(f)) \o (p \o q)
  <2>1. s \o Authority(f) \in Text
    BY <1>9, <1>10, TextConcat
  <2> QED
    BY <1>2, <1>3, <2>1, TextAssoc
<1>13. <<>> \o <<>> = <<>> /\ <<>> \o p = p
  BY <1>2, TextConcat
<1> QED
  BY <1>6, <1>7, <1>8, <1>9, <1>11, <1>12, <1>13 DEF s

\* The parts of an authority are found where they were written.
LEMMA AuthoritySplit ==
  ASSUME NEW f \in Forms
  PROVE  /\ ~f.hasPort => Authority(f) = f.host /\ Places(Authority(f), 1, ":") = {}
         /\ f.hasPort => LET end == Min(Places(Authority(f), 1, ":")) IN
                         /\ Places(Authority(f), 1, ":") # {} /\ end # 0
                         /\ SubSeq(Authority(f), 1, end - 1) = f.host
                         /\ SubSeq(Authority(f), end + 1, Len(Authority(f))) = f.port
<1> DEFINE host == f.host
           port == f.port
           o == <<":">> \o port
           auth == Authority(f)
<1>1. host \in Text /\ port \in Text /\ o \in Text /\ <<":">> \in Text
  BY FormFacts, CharFacts, TextConcat DEF FormType
<1>2. \A i \in 1 .. Len(host) : host[i] # ":"
  BY FormFacts
<1>3. Len(host) \in Nat
  BY <1>1, TextConcat
<1>4. ASSUME ~f.hasPort PROVE auth = host /\ Places(auth, 1, ":") = {}
  <2>1. auth = host
    BY <1>1, <1>4, TextConcat DEF Authority
  <2> QED
    BY <1>2, <2>1 DEF Places
<1>5. ASSUME f.hasPort
      PROVE  /\ Places(auth, 1, ":") # {} /\ Min(Places(auth, 1, ":")) = Len(host) + 1
             /\ SubSeq(auth, 1, Len(host)) = host
             /\ SubSeq(auth, (Len(host) + 1) + 1, Len(auth)) = port
  <2>1. auth = host \o o
    BY <1>5 DEF Authority
  <2>2. o # <<>> /\ o[1] = ":"
    <3>1. Len(<<":">>) = 1 /\ <<":">>[1] = ":" /\ Len(port) \in Nat
      BY <1>1, TextConcat
    <3>2. /\ Len(o) = 1 + Len(port)
          /\ \A i \in 1 .. 1 + Len(port) : o[i] = IF i =< 1 THEN <<":">>[i] ELSE port[i - 1]
      BY <1>1, <3>1, ConcatProperties DEF Text
    <3>3. o[1] = ":" /\ Len(o) # 0
      <4> HIDE DEF o
      <4> QED
        BY <3>1, <3>2
    <3>4. Len(<<>>) = 0
      OBVIOUS
    <3> HIDE DEF o
    <3> QED
      BY <3>3, <3>4
  <2>3. Places(auth, 1, ":") # {} /\ Min(Places(auth, 1, ":")) = Len(host) + 1
    <3>1. 1 \in 1 .. Len(host) + 1
      BY <1>3
    <3>2. host \in Text
      BY <1>1
    <3>3. o \in Text
      BY <1>1
    <3> HIDE DEF o, host, auth
    <3> QED
      BY <1>2, <2>1, <2>2, <3>1, <3>2, <3>3, FirstPlace DEF Text
  <2>4. SubSeq(auth, 1, Len(host)) = host
    <3> HIDE DEF o, host, auth
    <3> QED
      BY <1>1, <2>1, LeftPart DEF Text
  <2>5. SubSeq(auth, (Len(host) + 1) + 1, Len(auth)) = port
    <3> DEFINE left == host \o <<":">>
    <3>1. left \in Text
      BY <1>1, TextConcat
    <3>2. Len(left) = Len(host) + 1
      <4>1. Len(<<":">>) = 1
        OBVIOUS
      <4> QED
        BY <1>1, <4>1, TextConcat
    <3>3. auth = left \o port
      <4>1. host \in Text
        BY <1>1
      <4>2. port \in Text
        BY <1>1
      <4>3. <<":">> \in Text
        BY <1>1
      <4> HIDE DEF auth, host, port
      <4> QED
        BY <2>1, <4>1, <4>2, <4>3, TextAssoc
    <3>4. port \in Text
      BY <1>1
    <3> HIDE DEF left, auth, host, port
    <3> QED
      BY <3>1, <3>2, <3>3, <3>4, RightPart DEF Text
  <2> QED
    BY <2>3, <2>4, <2>5
<1>6. (Len(host) + 1) - 1 = Len(host) /\ Len(host) + 1 # 0
  BY <1>3
<1> HIDE DEF auth, host, port
<1> QED
  BY <1>4, <1>5, <1>6 DEF auth, host, port

\* ParseHostPort takes the authority apart, or makes the URL invalid.
LEMMA ParseHostPortIs ==
  ASSUME NEW f \in Forms, NEW scheme, NEW host, NEW path, NEW query, NEW port, NEW valid,
         NEW parsed, parsed = ParseHostPort(Url6(scheme, host, path, query, port, valid), Authority(f))
  PROVE  /\ f.host = <<>> => parsed = Url6(scheme, <<>>, path, query, port, No)
         /\ f.host # <<>> /\ ~f.hasPort => parsed = Url6(scheme, f.host, path, query, port, valid)
         /\ f.host # <<>> /\ f.hasPort /\ Stoi(f.port) \in 0 .. UINT16_MAX
              => parsed = Url6(scheme, f.host, path, query, Stoi(f.port) % (UINT16_MAX + 1), valid)
         /\ f.host # <<>> /\ f.hasPort /\ Stoi(f.port) \notin 0 .. UINT16_MAX
              => parsed = Url6(scheme, f.host, path, query, port, No)
<1> DEFINE u == Url6(scheme, host, path, query, port, valid)
           auth == Authority(f)
           end == SelectInSeq(auth, LAMBDA ch : ch = ":")
           found == IF end = 0 THEN auth ELSE SubSeq(auth, 1, end - 1)
           number == Stoi(SubSeq(auth, end + 1, Len(auth)))
           named == [u EXCEPT !.host = found]
           known == Url6(scheme, f.host, path, query, port, valid)
<1>1. end = IF Places(auth, 1, ":") # {} THEN Min(Places(auth, 1, ":")) ELSE 0
  BY DEF SelectInSeq, Places
<1>2. f.hasPort \in BOOLEAN
  BY FormFacts DEF FormType
<1>3. parsed =
        CASE found = <<>> -> Invalid(named)
          [] found # <<>> /\ end = 0 -> named
          [] OTHER -> IF number \in 0 .. UINT16_MAX
                        THEN [named EXCEPT !.port = number % (UINT16_MAX + 1)]
                        ELSE Invalid(named)
  BY DEF ParseHostPort, HostPortUpTo
<1> HIDE DEF end
<1>4. found = f.host
  BY <1>1, <1>2, AuthoritySplit
<1>5. ~f.hasPort => end = 0
  BY <1>1, AuthoritySplit
<1>6. f.hasPort => end # 0 /\ number = Stoi(f.port)
  BY <1>1, AuthoritySplit
<1> HIDE DEF found, number
<1>7. named = known
  BY <1>4 DEF Url6
<1> HIDE DEF named
<1>8. Invalid(known) = Url6(scheme, f.host, path, query, port, No)
  <2>1. ASSUME NEW x PROVE [known EXCEPT !.valid = x] = Url6(scheme, f.host, path, query, port, x)
    BY DEF Url6
  <2> HIDE DEF known
  <2> QED
    BY <2>1, Zenon DEF Invalid, No
<1>9. [known EXCEPT !.port = number % (UINT16_MAX + 1)]
        = Url6(scheme, f.host, path, query, number % (UINT16_MAX + 1), valid)
  BY DEF Url6
<1> HIDE DEF known
<1>10. f.host = <<>> => parsed = Url6(scheme, <<>>, path, query, port, No)
  BY <1>3, <1>4, <1>7, <1>8
<1>11. f.host # <<>> /\ ~f.hasPort => parsed = known
  BY <1>3, <1>4, <1>5, <1>7
<1>12. ASSUME f.host # <<>>, f.hasPort
       PROVE  parsed = IF number \in 0 .. UINT16_MAX
                         THEN [known EXCEPT !.port = number % (UINT16_MAX + 1)]
                         ELSE Invalid(known)
  BY <1>3, <1>4, <1>6, <1>7, <1>12
<1> QED
  BY <1>6, <1>8, <1>9, <1>10, <1>11, <1>12 DEF known

LEMMA JoinedText ==
  ASSUME NEW s \in Text, NEW t \in Text
  PROVE  /\ s \o t \in Text /\ Len(s) \in Nat /\ Len(t) \in Nat /\ Len(s \o t) = Len(s) + Len(t)
         /\ \A i \in 1 .. Len(s) + Len(t) : (s \o t)[i] = IF i =< Len(s) THEN s[i] ELSE t[i - Len(s)]
         /\ \A i \in 1 .. Len(s) : (s \o t)[i] = s[i]
         /\ \A i \in 1 .. Len(t) : (s \o t)[Len(s) + i] = t[i]
<1> DEFINE st == s \o t
<1>1. /\ st \in Text /\ Len(s) \in Nat /\ Len(t) \in Nat /\ Len(st) = Len(s) + Len(t)
      /\ \A i \in 1 .. Len(s) + Len(t) : st[i] = IF i =< Len(s) THEN s[i] ELSE t[i - Len(s)]
  BY LenProperties, ConcatProperties DEF Text
<1> HIDE DEF st
<1>2. \A i \in 1 .. Len(s) : st[i] = s[i]
  BY <1>1
<1>3. ASSUME NEW i \in 1 .. Len(t) PROVE st[Len(s) + i] = t[i]
  <2>1. /\ Len(s) + i \in 1 .. Len(s) + Len(t) /\ ~ (Len(s) + i =< Len(s))
        /\ (Len(s) + i) - Len(s) = i
    BY <1>1
  <2> QED
    BY <1>1, <2>1
<1> QED
  BY <1>1, <1>2, <1>3 DEF st

\* What comes behind the authority begins with a slash, and the authority holds none.
LEMMA SlashFacts ==
  ASSUME NEW f \in Forms
  PROVE  /\ f.path = <<>> => PathQuery(f) = <<>>
         /\ f.path # <<>> => PathQuery(f) # <<>> /\ PathQuery(f)[1] = "/"
         /\ \A i \in 1 .. Len(Authority(f)) : Authority(f)[i] # "/"
<1>1. f.path \in Text /\ f.host \in Text /\ f.port \in Text /\ f.hasPort \in BOOLEAN
      /\ f.pairs \in Seq([key : Text, value : Text]) /\ f.spell \in Spellings
  BY FormFacts DEF FormType
<1>2. ASSUME f.path = <<>> PROVE PathQuery(f) = <<>>
  <2>1. ~f.hasQuery /\ PathText(f) = <<>> /\ <<>> \o <<>> = <<>>
    BY <1>2, FormFacts, PathTextIs, TextConcat
  <2> QED
    BY <2>1 DEF PathQuery
<1>3. ASSUME f.path # <<>> PROVE PathQuery(f) # <<>> /\ PathQuery(f)[1] = "/"
  <2> DEFINE p == PathText(f)
             q == IF f.hasQuery THEN <<"?">> \o QueryText(f.spell, f.pairs) ELSE <<>>
  <2>1. p \in Text /\ q \in Text
    BY <1>1, PathTextIs, QueryTextType, CharFacts, TextConcat
  <2>2. p # <<>> /\ p[1] = "/"
    BY <1>3, PathTextIs
  <2>4. PathQuery(f) = p \o q
    BY DEF PathQuery
  <2> HIDE DEF p, q
  <2>5. /\ Len(p) \in Nat \ {0} /\ Len(q) \in Nat /\ Len(p \o q) = Len(p) + Len(q)
        /\ \A i \in 1 .. Len(p) + Len(q) : (p \o q)[i] = IF i =< Len(p) THEN p[i] ELSE q[i - Len(p)]
    BY <2>1, <2>2, EmptySeq, LenProperties, ConcatProperties DEF Text
  <2>6. 1 \in 1 .. Len(p) + Len(q) /\ 1 =< Len(p) /\ Len(p \o q) # 0
    BY <2>5
  <2>7. (p \o q)[1] = "/"
    BY <2>2, <2>5, <2>6
  <2>8. Len(<<>>) = 0
    OBVIOUS
  <2> QED
    BY <2>4, <2>6, <2>7, <2>8
<1>4. ASSUME NEW i \in 1 .. Len(Authority(f)) PROVE Authority(f)[i] # "/"
  <2> DEFINE port == f.port
             o == <<":">> \o port
  <2>1. CASE ~f.hasPort
    <3>1. Authority(f) = f.host
      BY <2>1, AuthoritySplit
    <3> QED
      BY <1>4, <3>1, FormFacts
  <2>2. CASE f.hasPort
    <3>1. Authority(f) = f.host \o o
      BY <2>2 DEF Authority
    <3>2. Len(<<":">>) = 1 /\ <<":">>[1] = ":" /\ <<":">> \in Text /\ port \in Text
      BY <1>1, CharFacts
    <3>3. /\ o \in Text /\ Len(o) = 1 + Len(port) /\ Len(port) \in Nat
          /\ \A j \in 1 .. 1 + Len(port) : o[j] = IF j =< 1 THEN <<":">>[j] ELSE port[j - 1]
      BY <3>2, LenProperties, ConcatProperties DEF Text
    <3>4. \A j \in 1 .. Len(port) : port[j] # "/"
      BY FormFacts
    <3> HIDE DEF o, port
    <3>5. ASSUME NEW j \in 1 .. Len(o) PROVE o[j] # "/"
      <4>1. CASE j =< 1
        <5>1. j = 1 /\ j \in 1 .. 1 + Len(port)
          BY <3>3, <4>1
        <5>2. o[j] = ":"
          BY <3>2, <3>3, <4>1, <5>1
        <5> QED
          BY <5>2
      <4>2. CASE ~ (j =< 1)
        <5>1. j - 1 \in 1 .. Len(port) /\ j \in 1 .. 1 + Len(port)
          BY <3>3, <4>2
        <5>2. o[j] = port[j - 1]
          BY <3>3, <4>2, <5>1
        <5> QED
          BY <3>4, <5>1, <5>2
      <4> QED
        BY <4>1, <4>2
    <3> DEFINE host == f.host
               auth == Authority(f)
    <3>6. host \in Text /\ auth = host \o o
      BY <1>1, <3>1
    <3>7. i \in 1 .. Len(auth) /\ \A j \in 1 .. Len(host) : host[j] # "/"
      BY <1>4, FormFacts
    <3> HIDE DEF host, auth
    <3>8. /\ Len(host) \in Nat /\ Len(o) \in Nat /\ Len(auth) = Len(host) + Len(o)
          /\ \A j \in 1 .. Len(host) + Len(o) : auth[j] = IF j =< Len(host) THEN host[j] ELSE o[j - Len(host)]
      BY <3>3, <3>6, JoinedText
    <3>9. auth[i] # "/"
      <4>1. CASE i =< Len(host)
        BY <3>7, <3>8, <4>1
      <4>2. CASE ~ (i =< Len(host))
        <5>1. i - Len(host) \in 1 .. Len(o)
          BY <3>7, <3>8, <4>2
        <5> QED
          BY <3>5, <3>7, <3>8, <4>2, <5>1
      <4> QED
        BY <4>1, <4>2
    <3> QED
      BY <3>9 DEF auth
  <2> QED
    BY <1>1, <2>1, <2>2
<1> QED
  BY <1>2, <1>3, <1>4

\* Where a text may have "://".
SchemeEnds(text) == {i \in 1 .. Len(text) - 2 : IsSchemeEnd(text, i)}

\* The first "://" is the one behind the scheme.
LEMMA SchemeEndFound ==
  ASSUME NEW scheme \in Text, NEW rest \in Text, \A i \in 1 .. Len(scheme) : scheme[i] # ":"
  PROVE  /\ SchemeEnds((scheme \o SchemeEnd) \o rest) # {}
         /\ Min(SchemeEnds((scheme \o SchemeEnd) \o rest)) = Len(scheme) + 1
         /\ Len(scheme \o SchemeEnd) = Len(scheme) + 3
<1> DEFINE left == scheme \o SchemeEnd
           text == left \o rest
           m == Len(scheme)
<1>1. /\ SchemeEnd \in Text /\ Len(SchemeEnd) = 3 /\ SchemeEnd[1] = ":" /\ SchemeEnd[2] = "/"
      /\ SchemeEnd[3] = "/"
  BY CharFacts
<1>2. /\ left \in Text /\ m \in Nat /\ Len(left) = m + 3
      /\ \A i \in 1 .. m : left[i] = scheme[i]
      /\ \A i \in 1 .. 3 : left[m + i] = SchemeEnd[i]
  <2>1. SchemeEnd \in Text
    BY <1>1
  <2>2. /\ left \in Text /\ Len(scheme) \in Nat /\ Len(left) = Len(scheme) + Len(SchemeEnd)
        /\ \A i \in 1 .. Len(scheme) : left[i] = scheme[i]
        /\ \A i \in 1 .. Len(SchemeEnd) : left[Len(scheme) + i] = SchemeEnd[i]
    BY <2>1, JoinedText
  <2> QED
    BY <1>1, <2>2
<1> HIDE DEF left
<1>3. /\ text \in Text /\ Len(rest) \in Nat /\ Len(text) = (m + 3) + Len(rest)
      /\ \A i \in 1 .. m + 3 : text[i] = left[i]
  <2>1. left \in Text
    BY <1>2
  <2>2. /\ text \in Text /\ Len(rest) \in Nat /\ Len(text) = Len(left) + Len(rest)
        /\ \A i \in 1 .. Len(left) : text[i] = left[i]
    BY <2>1, JoinedText
  <2> QED
    BY <1>2, <2>2
<1> HIDE DEF text, m
<1>4. ASSUME NEW i \in 1 .. Len(text) - 2
      PROVE  /\ SubSeq(text, i, i + 2) \in Text /\ Len(SubSeq(text, i, i + 2)) = 3
             /\ \A j \in 1 .. 3 : SubSeq(text, i, i + 2)[j] = text[i + j - 1]
  <2> DEFINE n == i + 2
             part == SubSeq(text, i, n)
  <2>1. i \in 1 .. Len(text) + 1 /\ n \in 0 .. Len(text) /\ n - i + 1 = 3 /\ i =< n
    BY <1>2, <1>3
  <2> HIDE DEF n
  <2>2. /\ part \in Text /\ Len(part) = IF i =< n THEN n - i + 1 ELSE 0
        /\ \A j \in 1 .. n - i + 1 : part[j] = text[i + j - 1]
    BY <1>3, <2>1, SubSeqType DEF Text
  <2> HIDE DEF part
  <2>3. part \in Text /\ Len(part) = 3 /\ \A j \in 1 .. 3 : part[j] = text[i + j - 1]
    BY <2>1, <2>2
  <2> QED
    BY <2>3 DEF part, n
<1>5. m + 1 \in SchemeEnds(text)
  <2> DEFINE k == m + 1
             part == SubSeq(text, k, k + 2)
  <2>1. k \in 1 .. Len(text) - 2
    BY <1>2, <1>3
  <2>2. /\ k + 1 - 1 = m + 1 /\ k + 2 - 1 = m + 2 /\ k + 3 - 1 = m + 3
        /\ m + 1 \in 1 .. m + 3 /\ m + 2 \in 1 .. m + 3 /\ m + 3 \in 1 .. m + 3
    BY <1>2
  <2> HIDE DEF k
  <2>3. part \in Text /\ Len(part) = 3 /\ \A j \in 1 .. 3 : part[j] = text[k + j - 1]
    BY <1>4, <2>1
  <2> HIDE DEF part
  <2>4. part[1] = SchemeEnd[1] /\ part[2] = SchemeEnd[2] /\ part[3] = SchemeEnd[3]
    BY <1>2, <1>3, <2>2, <2>3
  <2>5. \A j \in 1 .. 3 : part[j] = SchemeEnd[j]
    BY <2>4
  <2>6. part = SchemeEnd
    BY <1>1, <2>3, <2>5, SeqEqual DEF Text
  <2> QED
    BY <2>1, <2>6 DEF part, k, SchemeEnds, IsSchemeEnd, SchemeEnd
<1>6. ASSUME NEW i \in SchemeEnds(text), i < m + 1 PROVE FALSE
  <2>1. i \in 1 .. Len(text) - 2 /\ SubSeq(text, i, i + 2) = SchemeEnd
    BY DEF SchemeEnds, IsSchemeEnd, SchemeEnd
  <2>2. i \in 1 .. m /\ i \in 1 .. m + 3 /\ i + 1 - 1 = i /\ 1 \in 1 .. 3
    BY <1>2, <1>6, <2>1
  <2>3. text[i] = scheme[i]
    BY <1>2, <1>3, <2>2
  <2>4. SubSeq(text, i, i + 2)[1] = text[i]
    BY <1>4, <2>1, <2>2
  <2>5. scheme[i] # ":"
    BY <2>2 DEF m
  <2> QED
    BY <1>1, <2>1, <2>3, <2>4, <2>5
<1>7. SchemeEnds(text) \in SUBSET Int /\ m + 1 \in Int
  BY <1>2 DEF SchemeEnds
<1>8. \A i \in SchemeEnds(text) : m + 1 =< i
  BY <1>6, <1>7
<1>9. Min(SchemeEnds(text)) = m + 1
  <2> DEFINE k == m + 1
  <2> HIDE DEF k
  <2>1. k \in SchemeEnds(text) /\ \A i \in SchemeEnds(text) : k =< i
    BY <1>5, <1>8 DEF k
  <2>2. Min(SchemeEnds(text)) = k
    BY <1>7, <2>1, MinIs
  <2> QED
    BY <2>2 DEF k
<1> QED
  BY <1>2, <1>5, <1>9 DEF text, left, m

WithScheme(f) == Url6(f.scheme, <<>>, <<"/">>, EmptyQuery, kReservedPort, Yes)

\* An absolute URL is taken apart into authority, path and query.
LEMMA ParseAbsolute ==
  ASSUME NEW f \in Forms, f.absolute
  PROVE  Parse(DefaultUrl, Compose(f)) =
           IF f.path = <<>> THEN ParseHostPort(WithScheme(f), Authority(f))
           ELSE ParsePathQuery(ParseHostPort(WithScheme(f), Authority(f)), PathQuery(f))
<1> DEFINE scheme == f.scheme
           left == scheme \o SchemeEnd
           auth == Authority(f)
           pq == PathQuery(f)
           la == left \o auth
           text == Compose(f)
           schemeEnd == Min(SchemeEnds(text))
           slash == SelectInSubSeq(text, schemeEnd + 3, Len(text), LAMBDA ch : ch = "/")
           hostEnd == IF slash = 0 THEN Len(text) ELSE slash - 1
           withHost == ParseHostPort([DefaultUrl EXCEPT !.scheme = SubSeq(text, 1, schemeEnd - 1)],
                                     SubSeq(text, schemeEnd + 3, hostEnd))
<1>1. Parse(DefaultUrl, text) =
        CASE SchemeEnds(text) = {} -> ParsePathQuery(DefaultUrl, text)
          [] SchemeEnds(text) # {} /\ slash = 0 -> withHost
          [] OTHER -> ParsePathQuery(withHost, SubSeq(text, slash, Len(text)))
  BY DEF Parse, SchemeEnds
<1>2. slash = IF Places(text, schemeEnd + 3, "/") # {} THEN Min(Places(text, schemeEnd + 3, "/"))
              ELSE 0
  BY DEF SelectInSubSeq, Places
<1> HIDE DEF slash
<1>3. auth \in Text /\ pq \in Text /\ text = (left \o auth) \o pq
  BY ComposeIs
<1>4. /\ f.path = <<>> => pq = <<>>
      /\ f.path # <<>> => pq # <<>> /\ pq[1] = "/"
      /\ \A i \in 1 .. Len(auth) : auth[i] # "/"
  BY SlashFacts
<1>5. scheme \in Text /\ \A i \in 1 .. Len(scheme) : scheme[i] # ":"
  BY FormFacts DEF FormType
<1> HIDE DEF auth, pq, text, scheme
<1>6. SchemeEnd \in Text
  BY CharFacts
<1>7. left \in Text
  BY <1>5, <1>6, TextConcat
<1> HIDE DEF la
<1>8. text = left \o (auth \o pq) /\ auth \o pq \in Text /\ la \in Text
  <2>1. auth \in Text
    BY <1>3
  <2>2. pq \in Text
    BY <1>3
  <2> HIDE DEF left
  <2>3. (left \o auth) \o pq = left \o (auth \o pq)
    BY <1>7, <2>1, <2>2, TextAssoc
  <2> QED
    BY <1>3, <1>7, <2>3, TextConcat DEF la
<1>9. SchemeEnds(text) # {} /\ schemeEnd = Len(scheme) + 1 /\ Len(left) = Len(scheme) + 3
  <2>1. auth \o pq \in Text
    BY <1>8
  <2>2. text = (scheme \o SchemeEnd) \o (auth \o pq)
    BY <1>8
  <2> QED
    BY <1>5, <2>1, <2>2, SchemeEndFound
<1>10. Len(scheme) \in Nat /\ Len(auth) \in Nat /\ Len(pq) \in Nat
  BY <1>3, <1>5, TextConcat
<1>11. schemeEnd + 3 = Len(left) + 1 /\ schemeEnd - 1 = Len(scheme) /\ Len(left) \in Nat
  BY <1>9, <1>10
<1> HIDE DEF schemeEnd
<1>12. SubSeq(text, 1, schemeEnd - 1) = scheme
  <2> DEFINE rest == SchemeEnd \o (auth \o pq)
  <2>1. auth \o pq \in Text
    BY <1>8
  <2>2. (scheme \o SchemeEnd) \o (auth \o pq) = scheme \o rest
    BY <1>5, <1>6, <2>1, TextAssoc
  <2>3. rest \in Text
    BY <1>6, <2>1, TextConcat
  <2> HIDE DEF rest
  <2>4. text = scheme \o rest
    BY <1>8, <2>2
  <2> HIDE DEF left
  <2> QED
    BY <1>5, <1>11, <2>3, <2>4, LeftPart DEF Text
<1> HIDE DEF left
<1>13. [DefaultUrl EXCEPT !.scheme = scheme] = WithScheme(f)
  <2>1. ASSUME NEW x, NEW y
        PROVE  [Url6(<<>>, <<>>, <<"/">>, y, kReservedPort, x) EXCEPT !.scheme = scheme]
                 = Url6(scheme, <<>>, <<"/">>, y, kReservedPort, x)
    BY DEF Url6
  <2>2. DefaultUrl = Url6(<<>>, <<>>, <<"/">>, EmptyQuery, kReservedPort, Yes)
    BY Zenon DEF DefaultUrl, Url6, Yes
  <2> QED
    BY <2>1, <2>2, Zenon DEF WithScheme, scheme
<1>14. /\ Len(la) = Len(left) + Len(auth)
       /\ \A i \in Len(left) + 1 .. Len(la) : la[i] # "/"
  <2>1. auth \in Text
    BY <1>3
  <2>2. /\ Len(la) = Len(left) + Len(auth)
        /\ \A i \in 1 .. Len(left) + Len(auth) : la[i] =
              IF i =< Len(left) THEN left[i] ELSE auth[i - Len(left)]
    BY <1>7, <2>1, JoinedText DEF la
  <2>3. ASSUME NEW i \in Len(left) + 1 .. Len(la) PROVE la[i] # "/"
    <3>1. i \in 1 .. Len(left) + Len(auth) /\ ~ (i =< Len(left)) /\ i - Len(left) \in 1 .. Len(auth)
      BY <1>10, <1>11, <2>2
    <3> QED
      BY <1>4, <2>2, <3>1
  <2> QED
    BY <2>2, <2>3
<1>15. CASE f.path = <<>>
  <2>1. text = la
    BY <1>3, <1>4, <1>8, <1>15, TextConcat DEF la
  <2>2. slash = 0
    BY <1>2, <1>11, <1>14, <2>1 DEF Places
  <2>3. SubSeq(text, schemeEnd + 3, Len(text)) = auth
    <3>1. auth \in Text
      BY <1>3
    <3>2. SubSeq(left \o auth, Len(left) + 1, Len(left \o auth)) = auth
      BY <1>7, <3>1, RightPart DEF Text
    <3> QED
      BY <1>11, <2>1, <3>2 DEF la
  <2>4. withHost = ParseHostPort(WithScheme(f), auth)
    BY <1>12, <1>13, <2>2, <2>3
  <2> HIDE DEF withHost, hostEnd
  <2>5. Parse(DefaultUrl, text) = withHost
    BY <1>1, <1>9, <2>2
  <2> QED
    BY <1>15, <2>4, <2>5 DEF text, auth
<1>16. CASE f.path # <<>>
  <2>1. text = la \o pq
    BY <1>3 DEF la
  <2>2. pq # <<>> /\ pq[1] = "/" /\ pq \in Text
    BY <1>3, <1>4, <1>16
  <2>3. la \in Text
    BY <1>8
  <2>4. Len(left) + 1 \in 1 .. Len(la) + 1
    BY <1>10, <1>11, <1>14
  <2>5. slash = Len(la) + 1
    <3> DEFINE from == Len(left) + 1
    <3>1. from \in 1 .. Len(la) + 1 /\ \A i \in from .. Len(la) : la[i] # "/"
      BY <1>14, <2>4
    <3> HIDE DEF from
    <3>2. Places(la \o pq, from, "/") # {} /\ Min(Places(la \o pq, from, "/")) = Len(la) + 1
      <4>1. pq \in Text
        BY <2>2
      <4> QED
        BY <2>2, <2>3, <3>1, <4>1, FirstPlace DEF Text
    <3> QED
      BY <1>2, <1>11, <2>1, <3>2 DEF from
  <2>6. Len(la) \in Nat
    BY <1>10, <1>11, <1>14
  <2>7. slash # 0 /\ slash - 1 = Len(la)
    BY <2>5, <2>6
  <2>8. SubSeq(text, schemeEnd + 3, slash - 1) = auth
    <3>1. auth \in Text
      BY <1>3
    <3>2. pq \in Text
      BY <1>3
    <3>3. SubSeq((left \o auth) \o pq, Len(left) + 1, Len(left \o auth)) = auth
      BY <1>7, <3>1, <3>2, MiddlePart DEF Text
    <3> QED
      BY <1>3, <1>11, <2>7, <3>3 DEF la
  <2>9. SubSeq(text, slash, Len(text)) = pq
    <3>1. pq \in Text
      BY <1>3
    <3>2. SubSeq(la \o pq, Len(la) + 1, Len(la \o pq)) = pq
      BY <2>3, <3>1, RightPart DEF Text
    <3> QED
      BY <2>1, <2>5, <3>2
  <2>10. withHost = ParseHostPort(WithScheme(f), auth)
    BY <1>12, <1>13, <2>7, <2>8
  <2> HIDE DEF withHost, hostEnd
  <2>11. Parse(DefaultUrl, text) = ParsePathQuery(withHost, pq)
    BY <1>1, <1>9, <2>7, <2>9
  <2> QED
    BY <1>16, <2>10, <2>11 DEF text, auth, pq
<1> QED
  BY <1>15, <1>16

\* A URL in origin form is its path and query.
LEMMA ParseRelative ==
  ASSUME NEW f \in Forms, ~f.absolute, ~LooksAbsolute(f)
  PROVE  Parse(DefaultUrl, Compose(f)) = ParsePathQuery(DefaultUrl, PathQuery(f))
<1>1. Compose(f) = PathQuery(f)
  BY ComposeIs
<1>2. SchemeEnds(Compose(f)) = {}
  BY DEF LooksAbsolute, SchemeEnds
<1> QED
  BY <1>1, <1>2 DEF Parse, SchemeEnds

\* Path and query leave the authority and its verdict alone (url.hpp:107-110).
LEMMA ParseQueryKeeps ==
  ASSUME NEW u, NEW text
  PROVE  \E query : ParseQuery(u, text) = [u EXCEPT !.query = query]
BY Zenon DEF ParseQuery

LEMMA ParsePathQueryKeeps ==
  ASSUME NEW scheme, NEW host, NEW path, NEW query, NEW port, NEW valid, NEW text
  PROVE  \E p, q : ParsePathQuery(Url6(scheme, host, path, query, port, valid), text)
                     = Url6(scheme, host, p, q, port, valid)
<1> DEFINE u == Url6(scheme, host, path, query, port, valid)
           end == SelectInSeq(text, LAMBDA ch : ch = "?")
           sent == IF end = 0 THEN text ELSE SubSeq(text, 1, end - 1)
           p == Decode(LexicallyNormal(sent))
           parsed == [u EXCEPT !.path = p]
           rest == SubSeq(text, end + 1, Len(text))
<1>1. ParsePathQuery(u, text) = IF end = 0 THEN parsed ELSE ParseQuery(parsed, rest)
  BY DEF ParsePathQuery
<1> HIDE DEF end, p, rest
<1>2. parsed = Url6(scheme, host, p, query, port, valid)
  BY DEF Url6
<1>3. PICK q : ParseQuery(parsed, rest) = [parsed EXCEPT !.query = q]
  BY ParseQueryKeeps
<1>4. ParseQuery(parsed, rest) = Url6(scheme, host, p, q, port, valid)
  BY <1>2, <1>3 DEF Url6
<1> HIDE DEF parsed
<1> QED
  BY <1>1, <1>2, <1>4

------------------------------------------------------------------------------
(***************************************************************************)
(* Specifications: the Url is what the constructor makes of the form.      *)
(***************************************************************************)
\* What url is, by what form is.
Constructed ==
  /\ form = {} => url = DefaultUrl
  /\ \A f \in form : f \in Forms /\ url = Parse(DefaultUrl, Compose(f))

LEMMA AlwaysConstructed == Spec => []Constructed
<1>1. Init => Constructed
  BY DEF Init, Constructed
<1>2. Constructed /\ [Next]_vars => Constructed'
  <2> SUFFICES ASSUME Constructed, [Next]_vars PROVE Constructed'
    OBVIOUS
  <2>1. ASSUME NEW f \in Forms, Construct(f) PROVE Constructed'
    BY <2>1, Zenon DEF Constructed, Construct
  <2>2. CASE UNCHANGED vars
    BY <2>2, Zenon DEF Constructed, vars
  <2> QED
    BY <2>1, <2>2 DEF Next
<1> QED
  BY <1>1, <1>2, PTL DEF Spec

\* The hypothesis of BadAuthorityRejected.
BadAuthority(f) ==
  \/ f.host = <<>>
  \/ f.hasPort /\ Stoi(f.port) \notin 0 .. UINT16_MAX

LEMMA BadAuthorityParsed ==
  ASSUME NEW f \in Forms, f.absolute, BadAuthority(f)
  PROVE  Parse(DefaultUrl, Compose(f)).valid = No
<1> DEFINE scheme == f.scheme
           parsed == ParseHostPort(WithScheme(f), Authority(f))
           pq == PathQuery(f)
<1>1. PICK host : parsed = Url6(scheme, host, <<"/">>, EmptyQuery, kReservedPort, No)
  <2>1. /\ f.host = <<>> => parsed = Url6(scheme, <<>>, <<"/">>, EmptyQuery, kReservedPort, No)
        /\ f.host # <<>> /\ f.hasPort /\ Stoi(f.port) \notin 0 .. UINT16_MAX
             => parsed = Url6(scheme, f.host, <<"/">>, EmptyQuery, kReservedPort, No)
    BY ParseHostPortIs DEF WithScheme
  <2> HIDE DEF parsed
  <2> QED
    BY <2>1 DEF BadAuthority
<1> HIDE DEF parsed, pq, scheme
<1>2. CASE f.path = <<>>
  <2>1. Parse(DefaultUrl, Compose(f)) = parsed
    BY <1>2, ParseAbsolute DEF parsed
  <2> QED
    BY <1>1, <2>1 DEF Url6
<1>3. CASE f.path # <<>>
  <2>1. Parse(DefaultUrl, Compose(f)) = ParsePathQuery(parsed, pq)
    BY <1>3, ParseAbsolute DEF parsed, pq
  <2>2. PICK p, q : ParsePathQuery(parsed, pq) = Url6(scheme, host, p, q, kReservedPort, No)
    BY <1>1, ParsePathQueryKeeps
  <2>3. Url6(scheme, host, p, q, kReservedPort, No).valid = No
    BY DEF Url6
  <2> QED
    BY <2>1, <2>2, <2>3
<1> QED
  BY <1>2, <1>3

(***************************************************************************)
(* An authority without a host, or with a port that is no uint16_t, makes  *)
(* the URL invalid, and nothing behind it makes it valid again.            *)
(***************************************************************************)
THEOREM BadAuthoritiesRejected == Spec => []BadAuthorityRejected
<1>1. Constructed => BadAuthorityRejected
  <2> SUFFICES ASSUME Constructed, NEW f \in form, f.absolute, BadAuthority(f) PROVE ~url.valid
    BY Zenon DEF BadAuthorityRejected, BadAuthority
  <2>1. f \in Forms /\ url = Parse(DefaultUrl, Compose(f))
    BY DEF Constructed
  <2>2. Parse(DefaultUrl, Compose(f)).valid = No
    BY <2>1, BadAuthorityParsed
  <2> QED
    BY <2>1, <2>2, Zenon DEF No
<1> QED
  BY <1>1, AlwaysConstructed, PTL

------------------------------------------------------------------------------
(***************************************************************************)
(* The query: the positions in keys_ are those of values_.                 *)
(***************************************************************************)
\* What keys and values can be.
Names == Text \cup {Decode(s) : s \in Text}

\* Every position of values_ is under exactly one key, in ascending order.
Positions(q) ==
  /\ UNION {Range(q.keys[k]) : k \in DOMAIN q.keys} = DOMAIN q.values
  /\ \A k, l \in DOMAIN q.keys : k # l => Range(q.keys[k]) \cap Range(q.keys[l]) = {}
  /\ \A k \in DOMAIN q.keys : \A i, j \in DOMAIN q.keys[k] : i < j => q.keys[k][i] < q.keys[k][j]

KeyMaps == UNION {[D -> Seq(Nat)] : D \in SUBSET Names}
Queries == {q \in [keys : KeyMaps, values : Seq(Names)] : Positions(q)}

LEMMA EmptyQueryType == EmptyQuery \in Queries
<1> DEFINE none == [k \in {} |-> <<>>]
<1>1. none \in [{} -> Seq(Nat)] /\ DOMAIN none = {}
  OBVIOUS
<1>2. none \in KeyMaps
  BY <1>1 DEF KeyMaps
<1>3. <<>> \in Seq(Names) /\ DOMAIN <<>> = {}
  BY EmptySeq
<1>4. EmptyQuery = [keys |-> none, values |-> <<>>]
  BY DEF EmptyQuery
<1> HIDE DEF none
<1>5. EmptyQuery \in [keys : KeyMaps, values : Seq(Names)]
  BY <1>2, <1>3, <1>4
<1>6. Positions(EmptyQuery)
  BY <1>1, <1>3, <1>4 DEF Positions
<1> QED
  BY <1>5, <1>6 DEF Queries

LEMMA QueryFacts ==
  ASSUME NEW q \in Queries
  PROVE  /\ q = [keys |-> q.keys, values |-> q.values] /\ q.values \in Seq(Names)
         /\ DOMAIN q.keys \subseteq Names /\ \A k \in DOMAIN q.keys : q.keys[k] \in Seq(Nat)
         /\ \A k \in DOMAIN q.keys : Range(q.keys[k]) \subseteq 1 .. Len(q.values)
         /\ Len(q.values) \in Nat /\ DOMAIN q.values = 1 .. Len(q.values)
<1>1. q \in [keys : KeyMaps, values : Seq(Names)] /\ Positions(q)
  BY DEF Queries
<1>2. q = [keys |-> q.keys, values |-> q.values] /\ q.keys \in KeyMaps /\ q.values \in Seq(Names)
  BY <1>1
<1>3. PICK D \in SUBSET Names : q.keys \in [D -> Seq(Nat)]
  BY <1>2 DEF KeyMaps
<1>4. DOMAIN q.values = 1 .. Len(q.values) /\ Len(q.values) \in Nat
  BY <1>2, LenProperties
<1>5. \A k \in DOMAIN q.keys : Range(q.keys[k]) \subseteq 1 .. Len(q.values)
  BY <1>1, <1>4 DEF Positions
<1> QED
  BY <1>2, <1>3, <1>4, <1>5

LEMMA AddType ==
  ASSUME NEW q \in Queries, NEW key \in Names, NEW value \in Names
  PROVE  Add(q, key, value) \in Queries
<1> DEFINE n == Len(q.values) + 1
           old == IF key \in DOMAIN q.keys THEN q.keys[key] ELSE <<>>
           new == Append(old, n)
           D == {key} \cup DOMAIN q.keys
           keys == [k \in D |-> IF k = key THEN new ELSE q.keys[k]]
           values == Append(q.values, value)
<1>1. Add(q, key, value) = [keys |-> keys, values |-> values]
  BY DEF Add, IndexesOf
<1>2. /\ q.values \in Seq(Names) /\ DOMAIN q.keys \subseteq Names
      /\ \A k \in DOMAIN q.keys : q.keys[k] \in Seq(Nat)
      /\ \A k \in DOMAIN q.keys : Range(q.keys[k]) \subseteq 1 .. Len(q.values)
      /\ Len(q.values) \in Nat /\ DOMAIN q.values = 1 .. Len(q.values)
  BY QueryFacts
<1>3. n \in Nat /\ n \notin 1 .. Len(q.values) /\ 1 .. n = (1 .. Len(q.values)) \cup {n}
      /\ \A i \in 1 .. Len(q.values) : i < n
  BY <1>2
<1>4. values \in Seq(Names) /\ DOMAIN values = 1 .. n
  <2>1. values \in Seq(Names) /\ Len(values) = n
    BY <1>2, AppendProperties
  <2> HIDE DEF values, n
  <2> QED
    BY <2>1, LenProperties
<1>5. old \in Seq(Nat) /\ Range(old) \subseteq 1 .. Len(q.values)
  <2>1. <<>> \in Seq(Nat) /\ Range(<<>>) = {}
    BY EmptySeq DEF Range
  <2> QED
    BY <1>2, <2>1
<1> HIDE DEF values, n
<1>6. /\ new \in Seq(Nat) /\ Len(new) = Len(old) + 1 /\ Len(old) \in Nat
      /\ DOMAIN new = 1 .. Len(old) + 1 /\ DOMAIN old = 1 .. Len(old)
      /\ \A i \in 1 .. Len(old) : new[i] = old[i]
      /\ new[Len(old) + 1] = n
  <2> HIDE DEF old
  <2>1. /\ new \in Seq(Nat) /\ Len(new) = Len(old) + 1 /\ Len(old) \in Nat
        /\ \A i \in 1 .. Len(old) : new[i] = old[i]
        /\ new[Len(old) + 1] = n
    BY <1>3, <1>5, OneMore
  <2>2. DOMAIN new = 1 .. Len(new) /\ DOMAIN old = 1 .. Len(old)
    <3> HIDE DEF new
    <3> QED
      BY <1>5, <2>1, LenProperties
  <2> QED
    BY <2>1, <2>2
<1>7. Range(new) = Range(old) \cup {n}
  <2> HIDE DEF new, old
  <2>1. 1 .. Len(old) + 1 = (1 .. Len(old)) \cup {Len(old) + 1}
    BY <1>6
  <2> QED
    BY <1>6, <2>1 DEF Range
<1>8. ASSUME NEW i \in DOMAIN new, NEW j \in DOMAIN new, i < j,
             \A a, b \in DOMAIN old : a < b => old[a] < old[b]
      PROVE  new[i] < new[j]
  <2> HIDE DEF new, old
  <2>1. i \in 1 .. Len(old) /\ (j \in 1 .. Len(old) \/ j = Len(old) + 1)
    BY <1>6, <1>8
  <2>2. old[i] \in Range(old)
    BY <1>6, <2>1 DEF Range
  <2>3. old[i] < n
    BY <1>3, <1>5, <2>2
  <2> QED
    BY <1>6, <1>8, <2>1, <2>3
<1>9. (key \notin DOMAIN q.keys => old = <<>>) /\ (key \in DOMAIN q.keys => old = q.keys[key])
  OBVIOUS
<1> HIDE DEF new, old
<1>10. DOMAIN keys = D /\ keys[key] = new /\ \A k \in DOMAIN q.keys : k # key => keys[k] = q.keys[k]
  OBVIOUS
<1>11. keys \in KeyMaps
  <2>1. keys \in [D -> Seq(Nat)] /\ D \subseteq Names
    BY <1>2, <1>6
  <2> HIDE DEF keys, D
  <2> QED
    BY <2>1, Zenon DEF KeyMaps
<1> HIDE DEF keys
<1>12. Positions([keys |-> keys, values |-> values])
  <2>1. Positions(q)
    BY DEF Queries
  <2>2. Range(<<>>) = {}
    BY DEF Range
  <2>3. UNION {Range(keys[k]) : k \in D} = DOMAIN values
    <3>1. UNION {Range(q.keys[k]) : k \in DOMAIN q.keys} = 1 .. Len(q.values)
      BY <1>2, <2>1 DEF Positions
    <3>2. ASSUME NEW x \in 1 .. n PROVE \E k \in D : x \in Range(keys[k])
      <4>1. CASE x = n
        BY <1>7, <1>10, <4>1
      <4>2. CASE x # n
        <5>1. PICK k \in DOMAIN q.keys : x \in Range(q.keys[k])
          BY <1>3, <3>1, <4>2
        <5> QED
          BY <1>7, <1>9, <1>10, <5>1
      <4> QED
        BY <4>1, <4>2
    <3>3. ASSUME NEW k \in D, NEW x \in Range(keys[k]) PROVE x \in 1 .. n
      BY <1>2, <1>3, <1>5, <1>7, <1>10
    <3> QED
      BY <1>4, <3>2, <3>3
  <2>4. ASSUME NEW k \in D, NEW l \in D, k # l PROVE Range(keys[k]) \cap Range(keys[l]) = {}
    <3>1. \A a \in DOMAIN q.keys : n \notin Range(q.keys[a])
      BY <1>2, <1>3
    <3>2. \A a, b \in DOMAIN q.keys : a # b => Range(q.keys[a]) \cap Range(q.keys[b]) = {}
      BY <2>1 DEF Positions
    <3>3. \A a \in DOMAIN q.keys : a # key => Range(new) \cap Range(q.keys[a]) = {}
      BY <1>7, <1>9, <2>2, <3>1, <3>2
    <3> QED
      BY <1>10, <2>4, <3>2, <3>3
  <2>5. ASSUME NEW k \in D, NEW i \in DOMAIN keys[k], NEW j \in DOMAIN keys[k], i < j
        PROVE  keys[k][i] < keys[k][j]
    <3>1. CASE k = key
      <4>1. \A a, b \in DOMAIN old : a < b => old[a] < old[b]
        <5>1. DOMAIN <<>> = {}
          OBVIOUS
        <5> QED
          BY <1>9, <2>1, <5>1 DEF Positions
      <4> QED
        BY <1>8, <1>10, <2>5, <3>1, <4>1
    <3>2. CASE k # key
      BY <1>10, <2>1, <2>5, <3>2 DEF Positions
    <3> QED
      BY <3>1, <3>2
  <2> HIDE DEF D
  <2> QED
    BY <1>10, <2>3, <2>4, <2>5 DEF Positions
<1>13. [keys |-> keys, values |-> values] \in [keys : KeyMaps, values : Seq(Names)]
  BY <1>4, <1>11
<1> QED
  BY <1>1, <1>12, <1>13 DEF Queries, keys

\* What the loop of ParseQuery goes through.
Scans == [query : Queries, key : Text, value : Text, parseKey : BOOLEAN]

LEMMA ScanFacts ==
  ASSUME NEW scan \in Scans
  PROVE  /\ scan.query \in Queries /\ scan.key \in Text /\ scan.value \in Text
         /\ AddPair(scan) \in Queries
<1>1. scan.query \in Queries /\ scan.key \in Text /\ scan.value \in Text
  BY DEF Scans
<1>2. Decode(scan.key) \in Names /\ Decode(scan.value) \in Names
  BY <1>1 DEF Names
<1>3. AddPair(scan) \in Queries
  <2>1. scan.query \in Queries
    BY <1>1
  <2> QED
    BY <1>2, <2>1, AddType DEF AddPair
<1> QED
  BY <1>1, <1>3

LEMMA ScanningType ==
  ASSUME NEW q \in Queries
  PROVE  Scanning(q) \in Scans
BY TextConcat DEF Scanning, Scans

LEMMA ScanCharType ==
  ASSUME NEW scan \in Scans, NEW ch \in Chars
  PROVE  ScanChar(scan, ch) \in Scans
<1>1. /\ scan.query \in Queries /\ scan.key \in Text /\ scan.value \in Text
      /\ AddPair(scan) \in Queries
  BY ScanFacts
<1>2. Append(scan.key, ch) \in Text /\ Append(scan.value, ch) \in Text
  BY <1>1, OneMoreChar
<1>3. Scanning(AddPair(scan)) \in Scans
  BY <1>1, ScanningType
<1>4. [scan EXCEPT !.parseKey = FALSE] \in Scans
  BY DEF Scans
<1>5. [scan EXCEPT !.key = Append(@, ch)] \in Scans
  BY <1>2 DEF Scans
<1>6. [scan EXCEPT !.value = Append(@, ch)] \in Scans
  BY <1>2 DEF Scans
<1>7. scan.parseKey \in BOOLEAN
  BY DEF Scans
<1> QED
  BY <1>3, <1>4, <1>5, <1>6, <1>7 DEF ScanChar

ScanStep == [x \in Scans \X Chars |-> ScanChar(x[1], x[2])]
Scanned(q) == Loop(Scans, Chars, Scanning(q), ScanStep)

LEMMA ScanFold ==
  ASSUME NEW q \in Queries, NEW s \in Text
  PROVE  FoldLeft(ScanChar, Scanning(q), s) = Scanned(q)[s]
<1> DEFINE base == Scanning(q)
           D == DOMAIN s
           rec(it) == it = [S \in SUBSET D |->
             IF S = {} THEN base ELSE ScanChar(it[S \ {Max(S)}], s[Max(S)])]
           fold == CHOOSE it : rec(it)
<1>1. FoldLeft(ScanChar, base, s) = fold[D]
  BY DEF FoldLeft, MapThenFoldSet
<1>2. base \in Scans /\ ScanStep \in [Scans \X Chars -> Scans]
  BY ScanningType, ScanCharType DEF ScanStep
<1> HIDE DEF base
<1>3. PICK h : FoldsSeq(h, Scans, Chars, s, base, ScanStep)
  BY <1>2, SeqFoldExists DEF Text
<1>4. rec(h)
  BY <1>3 DEF FoldsSeq, ScanStep
<1>5. rec(fold)
  <2> HIDE DEF rec
  <2> QED
    BY <1>4
<1>6. FoldsBy(fold, Scans, s, base, ScanStep)
  <2> HIDE DEF fold
  <2>1. fold[{}] = base
    BY <1>5
  <2>2. ASSUME NEW i \in 1 .. Len(s), fold[1 .. i - 1] \in Scans
        PROVE  fold[1 .. i] = ScanStep[<<fold[1 .. i - 1], s[i]>>]
    <3>1. /\ 1 .. i \in SUBSET (1 .. Len(s)) /\ 1 .. i # {} /\ s[i] \in Chars
          /\ Max(1 .. i) = i /\ (1 .. i) \ {i} = 1 .. i - 1 /\ DOMAIN s = 1 .. Len(s)
      BY LenProperties, InitialSegment, ElementOfSeq DEF Text
    <3>2. fold[1 .. i] = ScanChar(fold[1 .. i - 1], s[i])
      BY <1>5, <3>1
    <3> QED
      BY <2>2, <3>1, <3>2 DEF ScanStep
  <2> QED
    BY <2>1, <2>2 DEF FoldsBy
<1>7. FoldsTo(fold, s, Scanned(q))
  <2> HIDE DEF fold
  <2> QED
    BY <1>2, <1>6, FoldIsLoop DEF Text, Scanned, base
<1>8. D = 1 .. Len(s)
  BY LenProperties DEF Text
<1> QED
  BY <1>1, <1>7, <1>8, Zenon DEF FoldsTo, base

\* The loop, a character at a time.
LEMMA ScannedProperties ==
  ASSUME NEW q \in Queries
  PROVE  /\ Scanned(q)[<<>>] = Scanning(q)
         /\ \A s \in Text : Scanned(q)[s] \in Scans
         /\ \A s \in Text, ch \in Chars : Scanned(q)[Append(s, ch)] = ScanChar(Scanned(q)[s], ch)
<1>1. Scanning(q) \in Scans /\ ScanStep \in [Scans \X Chars -> Scans]
  BY ScanningType, ScanCharType DEF ScanStep
<1>2. Scanned(q) \in [Text -> Scans] /\ IsLoop(Scanned(q), Chars, Scanning(q), ScanStep)
  BY <1>1, LoopProperties DEF Text, Scanned
<1>3. Scanned(q)[<<>>] = Scanning(q)
  BY <1>2 DEF IsLoop
<1>4. ASSUME NEW s \in Text, NEW ch \in Chars
      PROVE  Scanned(q)[Append(s, ch)] = ScanChar(Scanned(q)[s], ch)
  <2>1. Scanned(q)[s] \in Scans
    BY <1>2
  <2>2. Scanned(q)[Append(s, ch)] = ScanStep[<<Scanned(q)[s], ch>>]
    BY <1>2 DEF IsLoop, Text
  <2> QED
    BY <2>1, <2>2 DEF ScanStep
<1> QED
  BY <1>2, <1>3, <1>4

\* The query a Url is left with.
LEMMA ParseQueryType ==
  ASSUME NEW u, u.query \in Queries, NEW s \in Text
  PROVE  \E q \in Queries : ParseQuery(u, s) = [u EXCEPT !.query = q]
<1> DEFINE scan == FoldLeft(ScanChar, Scanning(u.query), s)
<1>1. scan \in Scans
  BY ScanFold, ScannedProperties
<1>2. ParseQuery(u, s) = IF scan.parseKey /\ scan.key = <<>> THEN [u EXCEPT !.query = scan.query]
                         ELSE [u EXCEPT !.query = AddPair(scan)]
  BY DEF ParseQuery
<1> HIDE DEF scan
<1>3. scan.query \in Queries /\ AddPair(scan) \in Queries
  BY <1>1, ScanFacts
<1> QED
  BY <1>2, <1>3

LEMMA MinExists ==
  ASSUME NEW s \in SUBSET Nat, s # {}
  PROVE  Min(s) \in s /\ \A j \in s : Min(s) =< j
<1>1. PICK m \in s : \A j \in s : m =< j
  BY LeastExists
<1>2. s \in SUBSET Int
  OBVIOUS
<1>3. Min(s) = m
  BY <1>1, <1>2, MinIs
<1> QED
  BY <1>1, <1>3

------------------------------------------------------------------------------
(***************************************************************************)
(* Whatever the text, the members of the Url have their types.             *)
(***************************************************************************)
\* A Url whose members have their types.
UrlOK(u) ==
  \E scheme, host, path : \E query \in Queries, port \in 0 .. UINT16_MAX, valid \in BOOLEAN :
    u = Url6(scheme, host, path, query, port, valid)

LEMMA SmallRemainder ==
  ASSUME NEW d, d \in Nat, NEW j, j \in 0 .. d
  PROVE  j % (d + 1) = j
OBVIOUS

LEMMA PortKept ==
  ASSUME NEW k, k \in 0 .. UINT16_MAX
  PROVE  k % (UINT16_MAX + 1) = k
<1>1. UINT16_MAX \in Nat
  BY DEF UINT16_MAX
<1> QED
  BY <1>1, SmallRemainder

LEMMA HostPortOK ==
  ASSUME NEW u, UrlOK(u), NEW text
  PROVE  UrlOK(ParseHostPort(u, text))
<1>1. PICK scheme, host, path : \E query \in Queries, port \in 0 .. UINT16_MAX, valid \in BOOLEAN :
        u = Url6(scheme, host, path, query, port, valid)
  BY DEF UrlOK
<1>2. PICK query \in Queries, port \in 0 .. UINT16_MAX, valid \in BOOLEAN :
        u = Url6(scheme, host, path, query, port, valid)
  BY <1>1
<1> DEFINE end == SelectInSeq(text, LAMBDA ch : ch = ":")
           found == IF end = 0 THEN text ELSE SubSeq(text, 1, end - 1)
           number == Stoi(SubSeq(text, end + 1, Len(text)))
           named == [u EXCEPT !.host = found]
           n == number % (UINT16_MAX + 1)
<1>3. ParseHostPort(u, text) =
        CASE found = <<>> -> Invalid(named)
          [] found # <<>> /\ end = 0 -> named
          [] OTHER -> IF number \in 0 .. UINT16_MAX THEN [named EXCEPT !.port = n]
                        ELSE Invalid(named)
  BY DEF ParseHostPort, HostPortUpTo
<1> HIDE DEF found, number
<1>4. named = Url6(scheme, found, path, query, port, valid)
  BY <1>2 DEF Url6
<1>5. number \in 0 .. UINT16_MAX => n \in 0 .. UINT16_MAX
  BY PortKept, Zenon
<1> HIDE DEF named, n
<1>6. Invalid(named) = Url6(scheme, found, path, query, port, No)
  <2>1. ASSUME NEW x PROVE [named EXCEPT !.valid = x] = Url6(scheme, found, path, query, port, x)
    BY <1>4 DEF Url6
  <2> QED
    BY <2>1, Zenon DEF Invalid, No
<1>7. [named EXCEPT !.port = n] = Url6(scheme, found, path, query, n, valid)
  BY <1>4 DEF Url6
<1>8. No \in BOOLEAN
  BY DEF No
<1>9. UrlOK(Invalid(named))
  BY <1>6, <1>8, Zenon DEF UrlOK
<1>10. UrlOK(named)
  BY <1>4, Zenon DEF UrlOK
<1>11. number \in 0 .. UINT16_MAX => UrlOK([named EXCEPT !.port = n])
  BY <1>5, <1>7, Zenon DEF UrlOK
<1> QED
  BY <1>3, <1>9, <1>10, <1>11, Zenon

\* The text behind an index that a search found.
LEMMA Behind ==
  ASSUME NEW s \in Text, NEW m \in Nat, m =< Len(s)
  PROVE  SubSeq(s, m + 1, Len(s)) \in Text
<1>1. m + 1 \in 1 .. Len(s) + 1 /\ Len(s) \in 0 .. Len(s)
  BY TextConcat
<1> DEFINE n == m + 1
<1> HIDE DEF n
<1>2. SubSeq(s, n, Len(s)) \in Text
  BY <1>1, SubSeqType DEF Text, n
<1> QED
  BY <1>2 DEF n

LEMMA PathQueryOK ==
  ASSUME NEW u, UrlOK(u), NEW text \in Text
  PROVE  UrlOK(ParsePathQuery(u, text))
<1>1. PICK scheme, host, path : \E query \in Queries, port \in 0 .. UINT16_MAX, valid \in BOOLEAN :
        u = Url6(scheme, host, path, query, port, valid)
  BY DEF UrlOK
<1>2. PICK query \in Queries, port \in 0 .. UINT16_MAX, valid \in BOOLEAN :
        u = Url6(scheme, host, path, query, port, valid)
  BY <1>1
<1> DEFINE end == SelectInSeq(text, LAMBDA ch : ch = "?")
           sent == IF end = 0 THEN text ELSE SubSeq(text, 1, end - 1)
           p == Decode(LexicallyNormal(sent))
           parsed == [u EXCEPT !.path = p]
           rest == SubSeq(text, end + 1, Len(text))
<1>3. ParsePathQuery(u, text) = IF end = 0 THEN parsed ELSE ParseQuery(parsed, rest)
  BY DEF ParsePathQuery
<1>4. end \in Nat /\ end =< Len(text)
  <2> DEFINE places == Places(text, 1, "?")
  <2>1. end = IF places # {} THEN Min(places) ELSE 0
    BY DEF SelectInSeq, Places
  <2>2. places \in SUBSET Nat /\ Len(text) \in Nat /\ \A i \in places : i =< Len(text)
    BY TextConcat DEF Places
  <2> HIDE DEF places, end
  <2>3. CASE places # {}
    <3>1. end \in places
      BY <2>1, <2>2, <2>3, MinExists
    <3> QED
      BY <2>2, <3>1
  <2>4. CASE places = {}
    BY <2>1, <2>2, <2>4
  <2> QED
    BY <2>3, <2>4
<1> HIDE DEF end, p
<1>5. rest \in Text
  BY <1>4, Behind
<1>6. parsed = Url6(scheme, host, p, query, port, valid)
  BY <1>2 DEF Url6
<1> HIDE DEF rest
<1>7. parsed.query \in Queries
  BY <1>6 DEF Url6
<1>8. PICK q \in Queries : ParseQuery(parsed, rest) = [parsed EXCEPT !.query = q]
  <2> HIDE DEF parsed
  <2> QED
    BY <1>5, <1>7, ParseQueryType
<1> HIDE DEF parsed
<1>9. [parsed EXCEPT !.query = q] = Url6(scheme, host, p, q, port, valid)
  BY <1>6 DEF Url6
<1>10. UrlOK(parsed)
  BY <1>6, Zenon DEF UrlOK
<1>11. UrlOK(ParseQuery(parsed, rest))
  BY <1>8, <1>9, Zenon DEF UrlOK
<1> QED
  BY <1>3, <1>10, <1>11, Zenon

LEMMA ParseOK ==
  ASSUME NEW text \in Text
  PROVE  UrlOK(DefaultUrl) /\ UrlOK(Parse(DefaultUrl, text))
<1> DEFINE schemeEnd == Min(SchemeEnds(text))
           slash == SelectInSubSeq(text, schemeEnd + 3, Len(text), LAMBDA ch : ch = "/")
           hostEnd == IF slash = 0 THEN Len(text) ELSE slash - 1
           scheme == SubSeq(text, 1, schemeEnd - 1)
           named == [DefaultUrl EXCEPT !.scheme = scheme]
           withHost == ParseHostPort(named, SubSeq(text, schemeEnd + 3, hostEnd))
<1>1. Parse(DefaultUrl, text) =
        CASE SchemeEnds(text) = {} -> ParsePathQuery(DefaultUrl, text)
          [] SchemeEnds(text) # {} /\ slash = 0 -> withHost
          [] OTHER -> ParsePathQuery(withHost, SubSeq(text, slash, Len(text)))
  BY DEF Parse, SchemeEnds
<1>2. ASSUME NEW s PROVE UrlOK(Url6(s, <<>>, <<"/">>, EmptyQuery, kReservedPort, Yes))
  <2>1. EmptyQuery \in Queries /\ kReservedPort \in 0 .. UINT16_MAX /\ Yes \in BOOLEAN
    BY EmptyQueryType DEF kReservedPort, UINT16_MAX, Yes
  <2> QED
    BY <2>1, Zenon DEF UrlOK
<1>3. DefaultUrl = Url6(<<>>, <<>>, <<"/">>, EmptyQuery, kReservedPort, Yes)
  BY Zenon DEF DefaultUrl, Url6, Yes
<1>4. UrlOK(DefaultUrl)
  BY <1>2, <1>3, Zenon
<1> HIDE DEF scheme
<1>5. UrlOK(named)
  <2>1. named = Url6(scheme, <<>>, <<"/">>, EmptyQuery, kReservedPort, Yes)
    BY <1>3 DEF Url6
  <2> HIDE DEF named
  <2> QED
    BY <1>2, <2>1, Zenon
<1> HIDE DEF named
<1>6. UrlOK(withHost)
  BY <1>5, HostPortOK
<1> HIDE DEF withHost
<1>7. UrlOK(ParsePathQuery(DefaultUrl, text))
  BY <1>4, PathQueryOK
<1>8. ASSUME SchemeEnds(text) # {}, slash # 0
      PROVE  SubSeq(text, slash, Len(text)) \in Text
  <2> DEFINE from == schemeEnd + 3
             places == Places(text, from, "/")
  <2>1. slash = IF places # {} THEN Min(places) ELSE 0
    BY DEF SelectInSubSeq, Places
  <2> HIDE DEF slash
  <2>2. schemeEnd \in 1 .. Len(text) - 2 /\ Len(text) \in Nat
    <3>1. SchemeEnds(text) \in SUBSET Nat
      BY DEF SchemeEnds
    <3>2. Min(SchemeEnds(text)) \in SchemeEnds(text)
      BY <1>8, <3>1, MinExists
    <3> QED
      BY <3>2, TextConcat DEF SchemeEnds
  <2> HIDE DEF schemeEnd
  <2>3. places \in SUBSET Nat /\ \A i \in places : i \in 1 .. Len(text)
    BY <2>2 DEF Places
  <2> HIDE DEF places
  <2>4. slash \in places
    BY <1>8, <2>1, <2>3, MinExists
  <2> DEFINE m == slash - 1
  <2>5. m \in Nat /\ m =< Len(text) /\ m + 1 = slash
    BY <2>2, <2>3, <2>4
  <2> HIDE DEF m
  <2>6. SubSeq(text, m + 1, Len(text)) \in Text
    BY <2>5, Behind
  <2> QED
    BY <2>5, <2>6
<1> HIDE DEF slash
<1>9. ASSUME SchemeEnds(text) # {}, slash # 0
      PROVE  UrlOK(ParsePathQuery(withHost, SubSeq(text, slash, Len(text))))
  BY <1>6, <1>8, <1>9, PathQueryOK
<1> QED
  BY <1>1, <1>4, <1>6, <1>7, <1>9, Zenon

(***************************************************************************)
(* Whatever URL comes, keys_ and values_ of the query it leaves fit        *)
(* together.                                                               *)
(***************************************************************************)
THEOREM TypeCorrect == Spec => []TypeOK
<1>1. Constructed => TypeOK
  <2> SUFFICES ASSUME Constructed PROVE TypeOK
    OBVIOUS
  <2>1. UrlOK(url)
    <3>1. <<>> \in Text /\ \A f \in Forms : Compose(f) \in Text
      <4>1. ASSUME NEW f \in Forms PROVE Compose(f) \in Text
        <5> DEFINE left == f.scheme \o SchemeEnd
        <5>1. /\ Authority(f) \in Text /\ PathQuery(f) \in Text /\ f.absolute \in BOOLEAN
              /\ f.absolute => Compose(f) = (left \o Authority(f)) \o PathQuery(f)
              /\ ~f.absolute => Compose(f) = PathQuery(f)
          BY ComposeIs, FormFacts DEF FormType
        <5>2. left \in Text
          BY FormFacts, CharFacts, TextConcat DEF FormType
        <5> HIDE DEF left
        <5>3. left \o Authority(f) \in Text
          BY <5>1, <5>2, TextConcat
        <5>4. (left \o Authority(f)) \o PathQuery(f) \in Text
          BY <5>1, <5>3, TextConcat
        <5> QED
          BY <5>1, <5>4
      <4> QED
        BY <4>1, TextConcat
    <3>2. UrlOK(DefaultUrl) /\ \A f \in Forms : UrlOK(Parse(DefaultUrl, Compose(f)))
      BY <3>1, ParseOK
    <3> QED
      BY <3>2, Zenon DEF Constructed
  <2>2. PICK scheme, host, path : \E query \in Queries, port \in 0 .. UINT16_MAX, valid \in BOOLEAN :
          url = Url6(scheme, host, path, query, port, valid)
    BY <2>1 DEF UrlOK
  <2>3. PICK query \in Queries, port \in 0 .. UINT16_MAX, valid \in BOOLEAN :
          url = Url6(scheme, host, path, query, port, valid)
    BY <2>2
  <2>4. url.query \in Queries /\ url.port \in 0 .. UINT16_MAX
    BY <2>3 DEF Url6
  <2>5. url.valid \in BOOLEAN
    BY <2>3 DEF Url6
  <2>6. Positions(url.query)
    BY <2>4 DEF Queries
  <2> QED
    BY <2>4, <2>5, <2>6, Zenon DEF TypeOK, Positions
<1> QED
  BY <1>1, AlwaysConstructed, PTL

------------------------------------------------------------------------------
(***************************************************************************)
(* Decode undoes what Spelled does, unless "%" is bare.                    *)
(***************************************************************************)
\* What Decode reads at i, and where it reads on.
AtEscape(s, i) == s[i] = "%" /\ i + 2 =< Len(s) /\ IsHex(s[i + 1]) /\ IsHex(s[i + 2])
Symbol(s, i) == IF AtEscape(s, i) THEN Unescape(SubSeq(s, i, i + 2)) ELSE s[i]
After(s, i) == IF AtEscape(s, i) THEN i + 3 ELSE i + 1
Symbols == {Symbol(s, i) : s \in Text, i \in Nat}

\* The recursive function in Decode.
Decodes(rest, s) ==
  \A i \in 1 .. Len(s) + 1 :
    rest[i] = IF i > Len(s) THEN <<>> ELSE <<Symbol(s, i)>> \o rest[After(s, i)]

LEMMA DecodeIs ==
  ASSUME NEW s \in Text
  PROVE  \E rest : Decodes(rest, s) /\ Decode(s) = rest[1]
<1> DEFINE n == Len(s)
           rec(r) == r = [i \in 1 .. n + 1 |->
                            IF i > n THEN <<>>
                            ELSE IF AtEscape(s, i) THEN <<Unescape(SubSeq(s, i, i + 2))>> \o r[i + 3]
                            ELSE <<s[i]>> \o r[i + 1]]
           rest == CHOOSE r : rec(r)
           item == [i \in 1 .. n |-> Symbol(s, i)]
           next == [i \in 1 .. n |-> After(s, i)]
<1>1. Decode(s) = rest[1]
  BY DEF Decode, AtEscape
<1>2. n \in Nat
  BY TextConcat
<1> HIDE DEF n
<1>3. item \in [1 .. n -> Symbols]
  <2>1. \A i \in 1 .. n : i \in Nat
    BY <1>2
  <2> QED
    BY <2>1 DEF Symbols
<1>4. next \in [1 .. n -> 1 .. n + 1] /\ \A i \in 1 .. n : i < next[i]
  BY <1>2 DEF After, AtEscape, n
<1>5. PICK h \in [1 .. n + 1 -> Seq(Symbols)] : Unfolds(h, 1, n, item, next)
  <2> HIDE DEF item, next
  <2> QED
    BY <1>2, <1>3, <1>4, UnfoldExists
<1>6. ASSUME NEW r, NEW i \in 1 .. n + 1
      PROVE  (IF i > n THEN <<>> ELSE <<Symbol(s, i)>> \o r[After(s, i)])
               = IF i > n THEN <<>>
                 ELSE IF AtEscape(s, i) THEN <<Unescape(SubSeq(s, i, i + 2))>> \o r[i + 3]
                 ELSE <<s[i]>> \o r[i + 1]
  BY DEF Symbol, After
<1>7. ASSUME NEW i \in 1 .. n + 1
      PROVE  h[i] = IF i > n THEN <<>> ELSE <<Symbol(s, i)>> \o h[After(s, i)]
  <2>1. h[i] = IF i > n THEN <<>> ELSE <<item[i]>> \o h[next[i]]
    <3> HIDE DEF item, next
    <3> QED
      BY <1>5 DEF Unfolds
  <2>2. ~ (i > n) => i \in 1 .. n
    BY <1>2
  <2> QED
    BY <2>1, <2>2
<1>8. rec(h)
  <2>1. \A i \in 1 .. n + 1 : h[i] = IF i > n THEN <<>>
                 ELSE IF AtEscape(s, i) THEN <<Unescape(SubSeq(s, i, i + 2))>> \o h[i + 3]
                 ELSE <<s[i]>> \o h[i + 1]
    BY <1>6, <1>7
  <2> QED
    BY <2>1
<1>9. rec(rest)
  <2> HIDE DEF rec
  <2> QED
    BY <1>8
<1> HIDE DEF rest
<1>10. \A i \in 1 .. n + 1 : rest[i] = IF i > n THEN <<>> ELSE <<Symbol(s, i)>> \o rest[After(s, i)]
  <2>1. \A i \in 1 .. n + 1 : rest[i] = IF i > n THEN <<>>
                 ELSE IF AtEscape(s, i) THEN <<Unescape(SubSeq(s, i, i + 2))>> \o rest[i + 3]
                 ELSE <<s[i]>> \o rest[i + 1]
    BY <1>9
  <2> QED
    BY <1>6, <2>1
<1>11. Decodes(rest, s)
  BY <1>10 DEF Decodes, n
<1> QED
  BY <1>1, <1>11 DEF rest

\* Escapes are hexadecimal digits behind a "%", which separate nothing.
LEMMA HexFacts ==
  ASSUME NEW ch, IsHex(ch)
  PROVE  ch \notin {"%", "?", "&", "=", "/", "."}
<1> DEFINE upper == <<"A", "B", "C", "D", "E", "F">>
           lower == <<"a", "b", "c", "d", "e", "f">>
           Plain(t) == \A i \in 1 .. Len(t) : t[i] \notin {"%", "?", "&", "=", "/", "."}
<1> DEFINE hex == {"0", "1", "2", "3", "4", "5", "6", "7", "8", "9",
                   "A", "B", "C", "D", "E", "F", "a", "b", "c", "d", "e", "f"}
<1>1. Digits \in Seq(hex) /\ upper \in Seq(hex) /\ lower \in Seq(hex)
  BY DEF Digits
<1>2. Plain(Digits) /\ Plain(upper) /\ Plain(lower)
  BY DEF Digits
<1>3. ASSUME NEW s \in Seq(hex), NEW t \in Seq(hex), Plain(s), Plain(t)
      PROVE  \A x \in Range(s \o t) : x \notin {"%", "?", "&", "=", "/", "."}
  <2> DEFINE st == s \o t
  <2>1. /\ st \in Seq(hex) /\ Len(st) = Len(s) + Len(t) /\ Len(s) \in Nat /\ Len(t) \in Nat
        /\ \A i \in 1 .. Len(s) + Len(t) : st[i] = IF i =< Len(s) THEN s[i] ELSE t[i - Len(s)]
    BY ConcatProperties, LenProperties
  <2> HIDE DEF st
  <2>2. DOMAIN st = 1 .. Len(st)
    BY <2>1, LenProperties
  <2>3. ASSUME NEW i \in 1 .. Len(s) + Len(t)
        PROVE  st[i] \notin {"%", "?", "&", "=", "/", "."}
    <3>1. CASE i =< Len(s)
      <4>1. i \in 1 .. Len(s) /\ st[i] = s[i]
        BY <2>1, <3>1
      <4> QED
        BY <1>3, <4>1
    <3>2. CASE ~ (i =< Len(s))
      <4>1. i - Len(s) \in 1 .. Len(t) /\ st[i] = t[i - Len(s)]
        BY <2>1, <3>2
      <4> QED
        BY <1>3, <4>1
    <3> QED
      BY <3>1, <3>2
  <2> QED
    BY <2>1, <2>2, <2>3 DEF Range, st
<1>4. ch \in Range(Digits \o upper) \/ ch \in Range(Digits \o lower)
  BY DEF IsHex, UpperHex, LowerHex
<1> HIDE DEF Plain, upper, lower, hex
<1> QED
  BY <1>1, <1>2, <1>3, <1>4

\* An escape gives back its character, for no other has the same byte.
LEMMA EscapeUndone ==
  ASSUME NEW e, NEW c \in Chars, IsEscapeOf(e, c)
  PROVE  Unescape(e) = c
<1> DEFINE b == ByteOf(e)
<1>1. Code[c] = b
  BY Zenon DEF IsEscapeOf
<1>2. \A ch \in Chars : Code[ch] = b => ch = c
  BY <1>1, CharsAssumption
<1> HIDE DEF b
<1>3. (CHOOSE ch \in Chars : Code[ch] = b) = c
  BY <1>1, <1>2
<1> QED
  BY <1>1, <1>3 DEF Unescape, b

\* The character c is written at m, between s and t.
Written(sp, all, m, s, c, t) ==
  all = (Spelled(sp, s) \o sp[c]) \o Spelled(sp, t) /\ m = Len(Spelled(sp, s)) + 1

\* In a spelled text, what is read where a character was written, and where the
\* next one is.
LEMMA SpelledAt ==
  ASSUME NEW sp \in Spellings, Unambiguous(sp),
         NEW s \in Text, NEW c \in Chars, NEW t \in Text, NEW all, NEW m,
         Written(sp, all, m, s, c, t)
  PROVE  /\ m \in 1 .. Len(all) /\ Symbol(all, m) = c
         /\ After(all, m) = Len(Spelled(sp, s) \o sp[c]) + 1
<1> DEFINE left == Spelled(sp, s)
           e == sp[c]
           right == Spelled(sp, t)
           le == left \o e
<1>1. left \in Text /\ right \in Text /\ e \in Text
  BY SpelledProperties, SpelledChar
<1>2. all = le \o right /\ m = Len(left) + 1
  BY Zenon DEF Written
<1>3. e = <<c>> \/ IsEscapeOf(e, c)
  BY SpelledChar
<1>3a. e = <<c>> => c # "%"
  BY Zenon DEF Unambiguous
<1> HIDE DEF left, e, right
<1>4. /\ le \in Text /\ Len(le) = Len(left) + Len(e) /\ Len(left) \in Nat /\ Len(e) \in Nat
      /\ \A i \in 1 .. Len(e) : le[Len(left) + i] = e[i]
  <2>1. left \in Text
    BY <1>1
  <2>2. e \in Text
    BY <1>1
  <2> QED
    BY <2>1, <2>2, JoinedText
<1>5. /\ Len(all) = Len(le) + Len(right) /\ Len(right) \in Nat
      /\ \A i \in 1 .. Len(le) : all[i] = le[i]
      /\ SubSeq(all, m, Len(le)) = e
  <2>1. left \in Text
    BY <1>1
  <2>2. e \in Text
    BY <1>1
  <2>3. right \in Text
    BY <1>1
  <2>4. SubSeq((left \o e) \o right, Len(left) + 1, Len(left \o e)) = e
    BY <2>1, <2>2, <2>3, MiddlePart DEF Text
  <2>5. le \in Text
    BY <1>4
  <2> HIDE DEF le
  <2>6. /\ Len(le \o right) = Len(le) + Len(right) /\ Len(right) \in Nat
        /\ \A i \in 1 .. Len(le) : (le \o right)[i] = le[i]
    BY <2>3, <2>5, JoinedText
  <2> QED
    BY <1>2, <2>4, <2>6 DEF le
<1> HIDE DEF le
<1>6. CASE IsEscapeOf(e, c)
  <2> DEFINE a == e[2]
             b == e[3]
  <2>2. Len(e) = 3 /\ e[1] = "%" /\ e[2] = a /\ e[3] = b /\ IsHex(a) /\ IsHex(b)
    BY <1>6, Zenon DEF IsEscapeOf
  <2> HIDE DEF a, b
  <2>3. /\ m + 2 = Len(le) /\ m \in 1 .. Len(all) /\ m + 2 =< Len(all) /\ m + 3 = Len(le) + 1
        /\ m = Len(left) + 1 /\ m + 1 = Len(left) + 2 /\ m + 2 = Len(left) + 3
        /\ m \in 1 .. Len(le) /\ m + 1 \in 1 .. Len(le) /\ m + 2 \in 1 .. Len(le)
        /\ 1 \in 1 .. Len(e) /\ 2 \in 1 .. Len(e) /\ 3 \in 1 .. Len(e)
    BY <1>2, <1>4, <1>5, <2>2
  <2>4. all[m] = "%" /\ all[m + 1] = a /\ all[m + 2] = b
    <3>1. all[m] = le[m] /\ all[m + 1] = le[m + 1] /\ all[m + 2] = le[m + 2]
      BY <1>5, <2>3
    <3>2. le[Len(left) + 1] = e[1] /\ le[Len(left) + 2] = e[2] /\ le[Len(left) + 3] = e[3]
      BY <1>4, <2>3
    <3> QED
      BY <2>2, <2>3, <3>1, <3>2
  <2>6. AtEscape(all, m)
    BY <2>2, <2>3, <2>4 DEF AtEscape
  <2>7. SubSeq(all, m, m + 2) = e
    BY <1>5, <2>3
  <2>8. Unescape(e) = c
    BY <1>6, EscapeUndone
  <2>9. Symbol(all, m) = c
    BY <2>6, <2>7, <2>8 DEF Symbol
  <2>10. After(all, m) = m + 3
    BY <2>6 DEF After
  <2> QED
    BY <2>3, <2>9, <2>10 DEF le, left, e
<1>7. CASE e = <<c>>
  <2>1. Len(e) = 1 /\ e[1] = c /\ c # "%"
    BY <1>3a, <1>7
  <2>2. /\ m = Len(le) /\ m \in 1 .. Len(all) /\ m \in 1 .. Len(le) /\ m = Len(left) + 1
        /\ 1 \in 1 .. Len(e)
    BY <1>2, <1>4, <1>5, <2>1
  <2>3. all[m] = c
    BY <1>4, <1>5, <2>1, <2>2
  <2>4. ~AtEscape(all, m)
    BY <2>1, <2>3 DEF AtEscape
  <2>5. Symbol(all, m) = c /\ After(all, m) = Len(le) + 1
    BY <2>2, <2>3, <2>4 DEF Symbol, After
  <2> QED
    BY <2>2, <2>5 DEF le, left, e
<1> QED
  BY <1>3, <1>6, <1>7

LEMMA DecodeSpelled ==
  ASSUME NEW sp \in Spellings, Unambiguous(sp),
         NEW p \in Text
  PROVE  Decode(Spelled(sp, p)) = p
<1> DEFINE n == Len(p)
           all == Spelled(sp, p)
           at(k) == Len(Spelled(sp, SubSeq(p, 1, k))) + 1
<1>1. n \in Nat /\ all \in Text
  BY TextConcat, SpelledProperties
<1> HIDE DEF all
<1>2. PICK rest : Decodes(rest, all) /\ Decode(all) = rest[1]
  BY <1>1, DecodeIs
<1>3. SubSeq(p, 1, n) = p /\ SubSeq(p, 1, 0) = <<>> /\ SubSeq(p, n + 1, n) = <<>>
  <2>1. n + 1 \in Int /\ n \in Int /\ n < n + 1
    BY <1>1
  <2>2. SubSeq(p, n + 1, n) = <<>>
    BY <2>1, SubSeqEmpty
  <2> QED
    BY <2>2, SubSeqFull, SubSeqEmpty DEF Text
<1> HIDE DEF n
<1> DEFINE P == {i \in 0 .. n : rest[at(n - i)] = SubSeq(p, n - i + 1, n)}
<1>4. 0 \in P
  <2>1. n - 0 = n /\ n - 0 + 1 = n + 1
    BY <1>1
  <2>2. rest[Len(all) + 1] = <<>>
    <3>1. Len(all) + 1 \in 1 .. Len(all) + 1 /\ Len(all) + 1 > Len(all)
      BY <1>1, TextConcat
    <3> QED
      BY <1>2, <3>1 DEF Decodes
  <2>3. at(n) = Len(all) + 1
    BY <1>3, Zenon DEF all
  <2> HIDE DEF at
  <2>4. rest[at(n - 0)] = SubSeq(p, n - 0 + 1, n)
    BY <1>3, <2>1, <2>2, <2>3, Zenon
  <2>5. 0 \in 0 .. n
    BY <1>1
  <2> QED
    BY <2>4, <2>5
<1>5. ASSUME NEW i \in 1 .. n, i - 1 \in P PROVE i \in P
  <2> DEFINE k == n - i + 1
             left == SubSeq(p, 1, k - 1)
             right == SubSeq(p, k + 1, Len(p))
             c == p[k]
             m == at(k - 1)
  <2>1. /\ k \in 1 .. Len(p) /\ k - 1 = n - i /\ n - (i - 1) = k /\ n - (i - 1) + 1 = k + 1
        /\ Len(p) = n /\ i \in 0 .. n
    BY <1>1 DEF n
  <2>2. rest[at(k)] = right
    BY <1>5, <2>1
  <2> HIDE DEF k
  <2>3. /\ left \in Text /\ right \in Text /\ <<c>> \in Text /\ c \in Chars
        /\ SubSeq(p, 1, k) = left \o <<c>>
        /\ SubSeq(p, k, Len(p)) = <<c>> \o right
        /\ p = (left \o <<c>>) \o right
    <3>1. k \in 1 .. Len(p) /\ p \in Seq(Chars)
      BY <2>1 DEF Text
    <3> HIDE DEF at, m
    <3> QED
      BY <3>1, SplitAt DEF Text
  <2> HIDE DEF left, right, c
  <2>4. all = (Spelled(sp, left) \o sp[c]) \o Spelled(sp, right)
    <3>1. left \o <<c>> \in Text
      BY <2>3, TextConcat
    <3>2. Spelled(sp, left \o <<c>>) = Spelled(sp, left) \o sp[c]
      BY <2>3, SpelledConcat, SpelledOne
    <3>3. right \in Text
      BY <2>3
    <3>4. Spelled(sp, (left \o <<c>>) \o right) = Spelled(sp, left \o <<c>>) \o Spelled(sp, right)
      BY <3>1, <3>3, SpelledConcat
    <3> QED
      BY <2>3, <3>2, <3>4 DEF all
  <2>5. at(k) = Len(Spelled(sp, left) \o sp[c]) + 1
    <3>1. Spelled(sp, left \o <<c>>) = Spelled(sp, left) \o sp[c]
      BY <2>3, SpelledConcat, SpelledOne
    <3> QED
      BY <2>3, <3>1
  <2>6. m = Len(Spelled(sp, left)) + 1
    BY DEF left
  <2> HIDE DEF m, at
  <2>7. m \in 1 .. Len(all) /\ Symbol(all, m) = c /\ After(all, m) = at(k)
    <3>1. left \in Text
      BY <2>3
    <3>2. right \in Text
      BY <2>3
    <3>3. c \in Chars
      BY <2>3
    <3>4. m \in 1 .. Len(all) /\ Symbol(all, m) = c
          /\ After(all, m) = Len(Spelled(sp, left) \o sp[c]) + 1
      <4>1. Written(sp, all, m, left, c, right)
        BY <2>4, <2>6, Zenon DEF Written
      <4> QED
        BY <3>1, <3>2, <3>3, <4>1, SpelledAt
    <3> QED
      BY <2>5, <3>4, Zenon
  <2>8. rest[m] = <<c>> \o right
    <3>1. m \in 1 .. Len(all) + 1 /\ ~ (m > Len(all))
      BY <1>1, <2>7, TextConcat
    <3> QED
      BY <1>2, <2>2, <2>7, <3>1 DEF Decodes
  <2> QED
    BY <2>1, <2>3, <2>8 DEF m, k
<1>6. \A i \in 0 .. n : i \in P
  <2> HIDE DEF P
  <2> QED
    BY <1>1, <1>4, <1>5, RunInduction
<1>7. n \in 0 .. n /\ n - n = 0 /\ n - n + 1 = 1
  BY <1>1
<1>8. rest[at(0)] = SubSeq(p, 1, n)
  <2> HIDE DEF at
  <2> QED
    BY <1>6, <1>7
<1>9. at(0) = 1
  <2>1. at(0) = Len(<<>>) + 1
    BY <1>3, SpelledProperties, Zenon
  <2> HIDE DEF at
  <2> QED
    BY <2>1
<1> QED
  BY <1>2, <1>3, <1>8, <1>9 DEF all

\* So spelled texts are equal only if the texts are.
LEMMA SpelledInjective ==
  ASSUME NEW sp \in Spellings, Unambiguous(sp),
         NEW s \in Text, NEW t \in Text, Spelled(sp, s) = Spelled(sp, t)
  PROVE  s = t
BY DecodeSpelled

------------------------------------------------------------------------------
(***************************************************************************)
(* The query that pairs make when they are added one after the other.      *)
(***************************************************************************)
Pairs == [key : Text, value : Text]

\* The loop that adds pairs to a query.
AddStep == [x \in Queries \X Pairs |-> Add(x[1], x[2].key, x[2].value)]
Added == Loop(Queries, Pairs, EmptyQuery, AddStep)

LEMMA AddedProperties ==
  /\ Added[<<>>] = EmptyQuery
  /\ \A pairs \in Seq(Pairs) : Added[pairs] \in Queries
  /\ \A pairs \in Seq(Pairs), p \in Pairs : Added[Append(pairs, p)] = Add(Added[pairs], p.key, p.value)
<1>1. EmptyQuery \in Queries /\ AddStep \in [Queries \X Pairs -> Queries]
  <2>1. \A q \in Queries, p \in Pairs : Add(q, p.key, p.value) \in Queries
    <3>1. \A p \in Pairs : p.key \in Names /\ p.value \in Names
      BY DEF Pairs, Names
    <3> QED
      BY <3>1, AddType
  <2> QED
    BY <2>1, EmptyQueryType DEF AddStep
<1>2. Added \in [Seq(Pairs) -> Queries] /\ IsLoop(Added, Pairs, EmptyQuery, AddStep)
  BY <1>1, LoopProperties DEF Added
<1>3. Added[<<>>] = EmptyQuery
  BY <1>2 DEF IsLoop
<1>4. ASSUME NEW pairs \in Seq(Pairs), NEW p \in Pairs
      PROVE  Added[Append(pairs, p)] = Add(Added[pairs], p.key, p.value)
  <2>1. Added[pairs] \in Queries
    BY <1>2
  <2>2. Added[Append(pairs, p)] = AddStep[<<Added[pairs], p>>]
    BY <1>2 DEF IsLoop
  <2> QED
    BY <2>1, <2>2 DEF AddStep
<1> QED
  BY <1>2, <1>3, <1>4

\* The values of a key, a pair at a time.
LEMMA ValuesOfProperties ==
  ASSUME NEW k
  PROVE  /\ ValuesOf(<<>>, k) = <<>>
         /\ \A pairs \in Seq(Pairs) : ValuesOf(pairs, k) \in Seq(Text)
         /\ \A pairs \in Seq(Pairs), p \in Pairs : ValuesOf(Append(pairs, p), k) =
              IF p.key = k THEN Append(ValuesOf(pairs, k), p.value) ELSE ValuesOf(pairs, k)
<1> DEFINE A == Seq(Text)
           Step(values, pair) == IF pair.key = k THEN Append(values, pair.value) ELSE values
           step == [x \in A \X Pairs |-> Step(x[1], x[2])]
           F == Loop(A, Pairs, <<>>, step)
<1>1. <<>> \in A
  BY EmptySeq
<1>2. step \in [A \X Pairs -> A]
  <2>1. ASSUME NEW values \in A, NEW pair \in Pairs PROVE Step(values, pair) \in A
    <3>1. pair.value \in Text
      BY DEF Pairs
    <3>2. Append(values, pair.value) \in A
      BY <3>1, AppendProperties
    <3> QED
      BY <3>2
  <2> HIDE DEF Step, A
  <2> QED
    BY <2>1
<1> HIDE DEF A
<1>3. ASSUME NEW s \in Seq(Pairs) PROVE ValuesOf(s, k) = F[s]
  <2> DEFINE D == DOMAIN s
             rec(it) == it = [S \in SUBSET D |->
               IF S = {} THEN <<>> ELSE Step(it[S \ {Max(S)}], s[Max(S)])]
             fold == CHOOSE it : rec(it)
  <2>1. ValuesOf(s, k) = fold[D]
    BY DEF ValuesOf, FoldLeft, MapThenFoldSet
  <2> HIDE DEF Step
  <2>2. PICK h : FoldsSeq(h, A, Pairs, s, <<>>, step)
    <3> HIDE DEF step
    <3> QED
      BY <1>1, <1>2, SeqFoldExists
  <2>3. rec(h)
    BY <2>2 DEF FoldsSeq
  <2>4. rec(fold)
    <3> HIDE DEF rec
    <3> QED
      BY <2>3
  <2>5. FoldsBy(fold, A, s, <<>>, step)
    <3> HIDE DEF fold
    <3>1. fold[{}] = <<>>
      BY <2>4
    <3>2. ASSUME NEW i \in 1 .. Len(s), fold[1 .. i - 1] \in A
          PROVE  fold[1 .. i] = step[<<fold[1 .. i - 1], s[i]>>]
      <4>1. /\ 1 .. i \in SUBSET (1 .. Len(s)) /\ 1 .. i # {} /\ s[i] \in Pairs
            /\ Max(1 .. i) = i /\ (1 .. i) \ {i} = 1 .. i - 1 /\ DOMAIN s = 1 .. Len(s)
        BY LenProperties, InitialSegment, ElementOfSeq
      <4>2. fold[1 .. i] = Step(fold[1 .. i - 1], s[i])
        BY <2>4, <4>1
      <4> QED
        BY <3>2, <4>1, <4>2
    <3> QED
      BY <3>1, <3>2 DEF FoldsBy
  <2>6. FoldsTo(fold, s, F)
    <3> HIDE DEF step, fold
    <3> QED
      BY <1>1, <1>2, <2>5, FoldIsLoop
  <2>7. D = 1 .. Len(s)
    BY LenProperties
  <2> QED
    BY <2>1, <2>6, <2>7, Zenon DEF FoldsTo
<1>4. F \in [Seq(Pairs) -> A] /\ IsLoop(F, Pairs, <<>>, step)
  <2> HIDE DEF step
  <2> QED
    BY <1>1, <1>2, LoopProperties
<1> HIDE DEF F
<1>5. ValuesOf(<<>>, k) = <<>>
  <2>1. <<>> \in Seq(Pairs)
    BY EmptySeq
  <2> QED
    BY <1>3, <1>4, <2>1 DEF IsLoop
<1>6. ASSUME NEW s \in Seq(Pairs), NEW p \in Pairs
      PROVE  ValuesOf(Append(s, p), k) = Step(ValuesOf(s, k), p)
  <2>1. Append(s, p) \in Seq(Pairs)
    BY AppendProperties
  <2>2. F[s] \in A /\ F[Append(s, p)] = step[<<F[s], p>>]
    BY <1>4 DEF IsLoop
  <2> HIDE DEF Step
  <2> QED
    BY <1>3, <2>1, <2>2
<1> QED
  BY <1>3, <1>4, <1>5, <1>6 DEF A

\* What Query::Get gives after one more Add.
LEMMA GetAfterAdd ==
  ASSUME NEW q \in Queries, NEW key \in Names, NEW value \in Names, NEW k
  PROVE  /\ Get(q, k) \in Seq(Names)
         /\ Get(Add(q, key, value), k) = IF k = key THEN Append(Get(q, k), value) ELSE Get(q, k)
<1> DEFINE n == Len(q.values) + 1
           values == Append(q.values, value)
           indexes == IndexesOf(q, k)
           more == Add(q, key, value)
<1>1. /\ q.values \in Seq(Names) /\ DOMAIN q.keys \subseteq Names
      /\ \A l \in DOMAIN q.keys : q.keys[l] \in Seq(Nat)
      /\ \A l \in DOMAIN q.keys : Range(q.keys[l]) \subseteq 1 .. Len(q.values)
      /\ Len(q.values) \in Nat
  BY QueryFacts
<1>2. indexes \in Seq(1 .. Len(q.values))
  <2>1. CASE k \in DOMAIN q.keys
    <3> DEFINE s == q.keys[k]
    <3>1. indexes = s /\ s \in Seq(Nat) /\ Range(s) \subseteq 1 .. Len(q.values)
      BY <1>1, <2>1 DEF IndexesOf
    <3> HIDE DEF s
    <3>2. DOMAIN s = 1 .. Len(s) /\ Len(s) \in Nat /\ \A i \in 1 .. Len(s) : s[i] \in 1 .. Len(q.values)
      BY <3>1, LenProperties DEF Range
    <3>3. s = [i \in 1 .. Len(s) |-> s[i]]
      BY <3>1, <3>2
    <3>4. s \in [1 .. Len(s) -> 1 .. Len(q.values)]
      BY <3>2, <3>3
    <3>5. s \in Seq(1 .. Len(q.values))
      BY <3>2, <3>4, SeqDef
    <3> QED
      BY <3>1, <3>5
  <2>2. CASE k \notin DOMAIN q.keys
    BY <2>2, EmptySeq DEF IndexesOf
  <2> QED
    BY <2>1, <2>2
<1>3. /\ values \in Seq(Names) /\ values[n] = value /\ n \in Nat
      /\ \A i \in 1 .. Len(q.values) : values[i] = q.values[i]
  BY <1>1, OneMore
<1>4. IndexesOf(more, k) = (IF k = key THEN Append(indexes, n) ELSE indexes) /\ more.values = values
  <2> DEFINE D == {key} \cup DOMAIN q.keys
             keys == [l \in D |-> IF l = key THEN Append(IndexesOf(q, l), n) ELSE q.keys[l]]
  <2>1. more = [keys |-> keys, values |-> values]
    BY DEF Add
  <2>2. more.keys = keys /\ more.values = values
    BY <2>1
  <2>3. CASE k = key
    BY <2>2, <2>3 DEF IndexesOf
  <2>4. CASE k # key
    BY <2>2, <2>4 DEF IndexesOf
  <2> QED
    BY <2>2, <2>3, <2>4
<1> HIDE DEF values, n, indexes
<1>5. /\ Len(indexes) \in Nat /\ DOMAIN indexes = 1 .. Len(indexes)
      /\ \A i \in 1 .. Len(indexes) : indexes[i] \in 1 .. Len(q.values)
  BY <1>2, LenProperties, ElementOfSeq
<1>6. \A i \in 1 .. Len(indexes) : q.values[indexes[i]] \in Names
  BY <1>1, <1>5, ElementOfSeq
<1> DEFINE got == [i \in 1 .. Len(indexes) |-> q.values[indexes[i]]]
<1>7. Get(q, k) = got
  BY <1>5 DEF Get, indexes
<1>8. got \in Seq(Names) /\ Len(got) = Len(indexes)
  <2>1. got \in [1 .. Len(indexes) -> Names]
    BY <1>6
  <2>2. got \in Seq(Names)
    BY <1>5, <2>1, SeqDef
  <2>3. DOMAIN got = 1 .. Len(indexes)
    BY <2>1
  <2> DEFINE m == Len(indexes)
  <2>4. m \in Nat
    BY <1>5
  <2> HIDE DEF got, m
  <2>5. DOMAIN got = 1 .. Len(got) /\ Len(got) \in Nat
    BY <2>2, LenProperties
  <2>6. DOMAIN got = 1 .. m
    BY <2>3 DEF m
  <2>7. Len(got) = m
    <3> DEFINE l == Len(got)
    <3>1. l \in Nat /\ 1 .. l = 1 .. m
      BY <2>5, <2>6
    <3> HIDE DEF l
    <3>2. l = m
      BY <2>4, <3>1
    <3> QED
      BY <3>2 DEF l
  <2> QED
    BY <2>2, <2>7 DEF m
<1>9. CASE k # key
  <2>1. IndexesOf(more, k) = indexes
    BY <1>4, <1>9
  <2>2. Get(more, k) = [i \in 1 .. Len(indexes) |-> values[indexes[i]]]
    BY <1>4, <1>5, <2>1 DEF Get
  <2>3. \A i \in 1 .. Len(indexes) : values[indexes[i]] = q.values[indexes[i]]
    BY <1>3, <1>5
  <2>4. Get(more, k) = got
    BY <2>2, <2>3
  <2> QED
    BY <1>7, <1>8, <1>9, <2>4
<1>10. CASE k = key
  <2> DEFINE m == Len(indexes) + 1
             longer == Append(indexes, n)
             new == [i \in 1 .. m |-> values[longer[i]]]
             app == Append(got, value)
  <2>1. /\ m \in Nat /\ Len(longer) = m /\ DOMAIN longer = 1 .. m /\ longer[m] = n
        /\ \A i \in 1 .. Len(indexes) : longer[i] = indexes[i]
    <3>1. indexes \in Seq(Nat) /\ n \in Nat
      <4>1. 1 .. Len(q.values) \subseteq Nat
        OBVIOUS
      <4> QED
        BY <1>2, <1>3, <4>1
    <3>2. /\ longer \in Seq(Nat) /\ Len(longer) = Len(indexes) + 1
          /\ longer[Len(indexes) + 1] = n
          /\ \A i \in 1 .. Len(indexes) : longer[i] = indexes[i]
      BY <3>1, OneMore
    <3> HIDE DEF longer
    <3>3. DOMAIN longer = 1 .. Len(longer)
      BY <3>2, LenProperties
    <3> QED
      BY <1>5, <3>2, <3>3
  <2> HIDE DEF longer
  <2>2. Get(more, k) = new
    <3>1. IndexesOf(more, k) = longer
      BY <1>4, <1>10 DEF longer
    <3> QED
      BY <1>4, <2>1, <3>1 DEF Get
  <2>3. /\ app \in Seq(Names) /\ Len(app) = m /\ app[m] = value
        /\ \A i \in 1 .. Len(indexes) : app[i] = got[i]
    <3> HIDE DEF got
    <3>1. /\ app \in Seq(Names) /\ Len(app) = Len(got) + 1 /\ app[Len(got) + 1] = value
          /\ \A i \in 1 .. Len(got) : app[i] = got[i]
      BY <1>8, OneMore
    <3> HIDE DEF app
    <3> QED
      BY <1>8, <3>1
  <2>4. \A i \in 1 .. Len(indexes) : new[i] = got[i]
    <3>1. ASSUME NEW i \in 1 .. Len(indexes) PROVE new[i] = got[i]
      <4>1. i \in 1 .. m /\ longer[i] = indexes[i]
        BY <1>5, <2>1
      <4>2. values[indexes[i]] = q.values[indexes[i]]
        BY <1>3, <1>5
      <4> QED
        BY <4>1, <4>2
    <3> QED
      BY <3>1
  <2>5. new[m] = value
    BY <1>3, <2>1
  <2>6. \A i \in 1 .. m : new[i] = app[i]
    <3> HIDE DEF new, app, got
    <3> QED
      BY <1>5, <2>3, <2>4, <2>5
  <2>7. new = [i \in 1 .. m |-> app[i]]
    <3> HIDE DEF app
    <3>1. new = [i \in 1 .. m |-> new[i]]
      OBVIOUS
    <3> HIDE DEF new
    <3> QED
      BY <2>6, <3>1
  <2>8. app = [i \in 1 .. m |-> app[i]]
    <3> HIDE DEF app
    <3>1. DOMAIN app = 1 .. m
      BY <2>3, LenProperties
    <3>2. app = [i \in DOMAIN app |-> app[i]]
      BY <2>3
    <3> QED
      BY <3>1, <3>2
  <2> QED
    BY <1>7, <1>8, <1>10, <2>2, <2>7, <2>8
<1> QED
  BY <1>7, <1>8, <1>9, <1>10

LEMMA AddIs ==
  ASSUME NEW q, NEW key, NEW value
  PROVE  /\ Add(q, key, value).values = Append(q.values, value)
         /\ DOMAIN Add(q, key, value).keys = {key} \cup DOMAIN q.keys
BY DEF Add

\* What the query made of pairs holds.
LEMMA PairValues ==
  ASSUME NEW pairs \in Seq(Pairs)
  PROVE  Added[pairs].values = [i \in DOMAIN pairs |-> pairs[i].value]
<1> DEFINE V(ps) == [i \in DOMAIN ps |-> ps[i].value]
           P == {ps \in Seq(Pairs) : Added[ps].values = V(ps)}
<1>1. <<>> \in P
  <2>1. V(<<>>) = <<>> /\ EmptyQuery.values = <<>> /\ <<>> \in Seq(Pairs)
    BY EmptySeq DEF EmptyQuery
  <2> QED
    BY <2>1, AddedProperties
<1>2. ASSUME NEW ps \in Seq(Pairs), NEW p \in Pairs, ps \in P PROVE Append(ps, p) \in P
  <2> DEFINE n == Len(ps)
             more == Append(ps, p)
  <2>1. /\ more \in Seq(Pairs) /\ Len(more) = n + 1 /\ n \in Nat /\ more[n + 1] = p
        /\ \A i \in 1 .. n : more[i] = ps[i]
    BY OneMore
  <2>2. DOMAIN ps = 1 .. n
    BY LenProperties
  <2>3. Added[more].values = Append(V(ps), p.value)
    <3>1. Added[more] = Add(Added[ps], p.key, p.value)
      BY AddedProperties
    <3> QED
      BY <1>2, <3>1, AddIs
  <2> HIDE DEF more, n
  <2>4. DOMAIN more = 1 .. n + 1
    <3>1. DOMAIN more = 1 .. Len(more)
      BY <2>1, LenProperties
    <3> QED
      BY <2>1, <3>1
  <2> DEFINE T == {ps[i].value : i \in 1 .. n} \cup {p.value}
  <2>5. V(ps) \in [1 .. n -> T]
    BY <2>2
  <2>6. V(ps) \in Seq(T)
    <3> DEFINE v == V(ps)
    <3>1. v \in [1 .. n -> T]
      BY <2>5
    <3> HIDE DEF v, T
    <3>2. v \in Seq(T)
      BY <2>1, <3>1, SeqDef
    <3> QED
      BY <3>2 DEF v
  <2>7. Len(V(ps)) = n
    <3> DEFINE v == V(ps)
               l == Len(v)
    <3>1. v \in Seq(T) /\ DOMAIN v = 1 .. n
      BY <2>5, <2>6
    <3> HIDE DEF v, T
    <3>2. DOMAIN v = 1 .. l /\ l \in Nat
      BY <3>1, LenProperties
    <3> HIDE DEF l
    <3>3. l = n
      BY <2>1, <3>1, <3>2
    <3> QED
      BY <3>3 DEF l, v
  <2>8. Append(V(ps), p.value) = V(more)
    <3> DEFINE v == V(ps)
               a == Append(v, p.value)
               w == V(more)
    <3>1. v \in Seq(T) /\ p.value \in T /\ Len(v) = n
      BY <2>6, <2>7
    <3>2. \A i \in 1 .. n : v[i] = ps[i].value
      BY <2>2
    <3>3. w = [i \in 1 .. n + 1 |-> more[i].value]
      BY <2>4
    <3> HIDE DEF v, T, w
    <3>4. /\ a \in Seq(T) /\ Len(a) = n + 1 /\ a[n + 1] = p.value
          /\ \A i \in 1 .. n : a[i] = v[i]
      <4>1. /\ a \in Seq(T) /\ Len(a) = Len(v) + 1 /\ a[Len(v) + 1] = p.value
            /\ \A i \in 1 .. Len(v) : a[i] = v[i]
        BY <3>1, OneMore
      <4> HIDE DEF a
      <4> QED
        BY <3>1, <4>1
    <3> HIDE DEF a
    <3>5. \A i \in 1 .. n + 1 : a[i] = more[i].value
      BY <2>1, <3>2, <3>4
    <3>6. DOMAIN a = 1 .. n + 1 /\ a = [i \in DOMAIN a |-> a[i]]
      <4>1. DOMAIN a = 1 .. Len(a)
        BY <3>4, LenProperties
      <4> QED
        BY <3>4, <4>1
    <3>7. a = w
      BY <3>3, <3>5, <3>6
    <3> QED
      BY <3>7 DEF a, v, w
  <2>9. Added[more].values = V(more) /\ more \in Seq(Pairs)
    BY <2>1, <2>3, <2>8
  <2> QED
    BY <2>9 DEF more
<1>3. \A ps \in Seq(Pairs) : ps \in P
  <2> HIDE DEF P
  <2> QED
    BY <1>1, <1>2, SeqSetInduction
<1> QED
  BY <1>3

LEMMA PairKeys ==
  ASSUME NEW pairs \in Seq(Pairs)
  PROVE  DOMAIN Added[pairs].keys = {pairs[i].key : i \in DOMAIN pairs}
<1> DEFINE K(ps) == {ps[i].key : i \in DOMAIN ps}
           P == {ps \in Seq(Pairs) : DOMAIN Added[ps].keys = K(ps)}
<1>1. <<>> \in P
  <2>1. K(<<>>) = {} /\ DOMAIN EmptyQuery.keys = {} /\ <<>> \in Seq(Pairs)
    BY EmptySeq DEF EmptyQuery
  <2> QED
    BY <2>1, AddedProperties
<1>2. ASSUME NEW ps \in Seq(Pairs), NEW p \in Pairs, ps \in P PROVE Append(ps, p) \in P
  <2> DEFINE n == Len(ps)
             more == Append(ps, p)
  <2>1. /\ more \in Seq(Pairs) /\ Len(more) = n + 1 /\ n \in Nat /\ more[n + 1] = p
        /\ \A i \in 1 .. n : more[i] = ps[i]
    BY OneMore
  <2>2. DOMAIN ps = 1 .. n
    BY LenProperties
  <2>3. DOMAIN Added[more].keys = {p.key} \cup K(ps)
    <3>1. Added[more] = Add(Added[ps], p.key, p.value)
      BY AddedProperties
    <3> QED
      BY <1>2, <3>1, AddIs
  <2> HIDE DEF more, n
  <2>4. DOMAIN more = 1 .. n + 1
    <3>1. DOMAIN more = 1 .. Len(more)
      BY <2>1, LenProperties
    <3> QED
      BY <2>1, <3>1
  <2>5. K(more) = {p.key} \cup K(ps)
    <3>1. 1 .. n + 1 = (1 .. n) \cup {n + 1}
      BY <2>1
    <3> QED
      BY <2>1, <2>2, <2>4, <3>1
  <2>6. DOMAIN Added[more].keys = K(more) /\ more \in Seq(Pairs)
    BY <2>1, <2>3, <2>5
  <2> QED
    BY <2>6 DEF more
<1>3. \A ps \in Seq(Pairs) : ps \in P
  <2> HIDE DEF P
  <2> QED
    BY <1>1, <1>2, SeqSetInduction
<1> QED
  BY <1>3

LEMMA PairsGot ==
  ASSUME NEW pairs \in Seq(Pairs), NEW k
  PROVE  Get(Added[pairs], k) = ValuesOf(pairs, k)
<1> DEFINE P == {ps \in Seq(Pairs) : Get(Added[ps], k) = ValuesOf(ps, k)}
<1>1. <<>> \in P
  <2>1. DOMAIN <<>> = {} /\ <<>> = [i \in {} |-> i] /\ <<>> \in Seq(Pairs)
    BY EmptySeq
  <2>2. IndexesOf(EmptyQuery, k) = <<>>
    BY DEF IndexesOf, EmptyQuery
  <2>3. Get(EmptyQuery, k) = <<>>
    BY <2>1, <2>2 DEF Get
  <2> QED
    BY <2>1, <2>3, AddedProperties, ValuesOfProperties
<1>2. ASSUME NEW ps \in Seq(Pairs), NEW p \in Pairs, ps \in P PROVE Append(ps, p) \in P
  <2>1. Added[ps] \in Queries /\ Added[Append(ps, p)] = Add(Added[ps], p.key, p.value)
        /\ Append(ps, p) \in Seq(Pairs)
    BY AddedProperties, AppendProperties
  <2>2. p.key \in Names /\ p.value \in Names
    BY DEF Pairs, Names
  <2>3. Get(Add(Added[ps], p.key, p.value), k) =
          IF k = p.key THEN Append(Get(Added[ps], k), p.value) ELSE Get(Added[ps], k)
    <3> DEFINE q == Added[ps]
               key == p.key
               value == p.value
    <3>1. q \in Queries
      BY <2>1
    <3>2. key \in Names
      BY <2>2
    <3>3. value \in Names
      BY <2>2
    <3> HIDE DEF q, key, value
    <3>4. Get(Add(q, key, value), k) = IF k = key THEN Append(Get(q, k), value) ELSE Get(q, k)
      BY <3>1, <3>2, <3>3, GetAfterAdd
    <3> QED
      BY <3>4 DEF q, key, value
  <2>4. ValuesOf(Append(ps, p), k) =
          IF p.key = k THEN Append(ValuesOf(ps, k), p.value) ELSE ValuesOf(ps, k)
    BY ValuesOfProperties
  <2> QED
    BY <1>2, <2>1, <2>3, <2>4
<1>3. \A ps \in Seq(Pairs) : ps \in P
  <2> HIDE DEF P
  <2> QED
    BY <1>1, <1>2, SeqSetInduction
<1> QED
  BY <1>3

------------------------------------------------------------------------------
(***************************************************************************)
(* A query text is read as the pairs it was written from.                  *)
(***************************************************************************)
\* What separates, or begins, parts of a URL is not written by an unambiguous spelling.
LEMMA SpelledPlain ==
  ASSUME NEW sp \in Spellings, Unambiguous(sp),
         NEW s \in Text
  PROVE  \A i \in 1 .. Len(Spelled(sp, s)) : Spelled(sp, s)[i] \notin {"?", "&", "="}
<1> DEFINE Plain(t) == \A i \in 1 .. Len(t) : t[i] \notin {"?", "&", "="}
           P == {t \in Text : Plain(Spelled(sp, t))}
<1>1. <<>> \in P
  <2>1. Spelled(sp, <<>>) = <<>> /\ <<>> \in Text /\ Len(<<>>) = 0
    BY SpelledProperties, TextConcat
  <2> QED
    BY <2>1
<1>2. ASSUME NEW ch \in Chars PROVE Plain(sp[ch]) /\ sp[ch] \in Text
  <2> DEFINE e == sp[ch]
  <2>1. e \in Text /\ (e = <<ch>> \/ IsEscapeOf(e, ch))
    BY SpelledChar
  <2>2. e = <<ch>> => ch \notin {"?", "&", "="}
    BY DEF Unambiguous
  <2> HIDE DEF e
  <2>3. CASE IsEscapeOf(e, ch)
    <3>1. Len(e) = 3 /\ e[1] = "%" /\ IsHex(e[2]) /\ IsHex(e[3])
      BY <2>3 DEF IsEscapeOf
    <3>2. e[2] \notin {"?", "&", "="} /\ e[3] \notin {"?", "&", "="}
      BY <3>1, HexFacts
    <3>3. \A i \in 1 .. 3 : i = 1 \/ i = 2 \/ i = 3
      OBVIOUS
    <3> QED
      BY <2>1, <3>1, <3>2, <3>3 DEF e
  <2>4. CASE e = <<ch>>
    <3>1. Len(<<ch>>) = 1 /\ <<ch>>[1] = ch
      OBVIOUS
    <3>2. \A i \in 1 .. 1 : i = 1
      OBVIOUS
    <3> QED
      BY <2>1, <2>2, <2>4, <3>1, <3>2 DEF e
  <2> QED
    BY <2>1, <2>3, <2>4
<1>3. ASSUME NEW t \in Text, NEW u \in Text, Plain(t), Plain(u) PROVE Plain(t \o u)
  <2> DEFINE tu == t \o u
  <2>1. /\ Len(t) \in Nat /\ Len(u) \in Nat /\ Len(tu) = Len(t) + Len(u)
        /\ \A i \in 1 .. Len(t) + Len(u) : tu[i] = IF i =< Len(t) THEN t[i] ELSE u[i - Len(t)]
    BY JoinedText
  <2> HIDE DEF tu
  <2> SUFFICES ASSUME NEW i \in 1 .. Len(tu) PROVE tu[i] \notin {"?", "&", "="}
    BY DEF tu
  <2>2. CASE i =< Len(t)
    BY <1>3, <2>1, <2>2
  <2>3. CASE ~ (i =< Len(t))
    <3>1. i - Len(t) \in 1 .. Len(u) /\ tu[i] = u[i - Len(t)]
      BY <2>1, <2>3
    <3> QED
      BY <1>3, <3>1
  <2> QED
    BY <2>2, <2>3
<1> HIDE DEF Plain
<1>4. ASSUME NEW t \in Seq(Chars), NEW ch \in Chars, t \in P PROVE Append(t, ch) \in P
  <2>1. t \in Text /\ Spelled(sp, t) \in Text /\ Append(t, ch) \in Text
    BY <1>4, SpelledProperties, OneMoreChar
  <2>2. Spelled(sp, Append(t, ch)) = Spelled(sp, t) \o sp[ch]
    BY <2>1, SpelledProperties
  <2>3. Plain(Spelled(sp, t) \o sp[ch])
    BY <1>2, <1>3, <1>4, <2>1
  <2> QED
    BY <2>1, <2>2, <2>3
<1>5. \A t \in Seq(Chars) : t \in P
  <2> HIDE DEF P
  <2> QED
    BY <1>1, <1>4, SeqSetInduction
<1> QED
  BY <1>5 DEF Plain, Text

\* The state of the loop of ParseQuery.
Scan4(query, key, value, parseKey) ==
  [query |-> query, key |-> key, value |-> value, parseKey |-> parseKey]

LEMMA ScanCharIs ==
  ASSUME NEW q, NEW k, NEW v, NEW ch
  PROVE  /\ ch # "=" => ScanChar(Scan4(q, k, v, Yes), ch) = Scan4(q, Append(k, ch), v, Yes)
         /\ ScanChar(Scan4(q, k, v, Yes), "=") = Scan4(q, k, v, No)
         /\ ch # "&" => ScanChar(Scan4(q, k, v, No), ch) = Scan4(q, k, Append(v, ch), No)
         /\ ScanChar(Scan4(q, k, v, No), "&") = Scanning(Add(q, Decode(k), Decode(v)))
         /\ Scanning(q) = Scan4(q, <<>>, <<>>, Yes)
<1>1. ASSUME NEW b
      PROVE  /\ Scan4(q, k, v, b).parseKey = b /\ Scan4(q, k, v, b).query = q
             /\ Scan4(q, k, v, b).key = k /\ Scan4(q, k, v, b).value = v
  BY DEF Scan4
<1>2. ASSUME NEW b, NEW c PROVE [Scan4(q, k, v, b) EXCEPT !.parseKey = c] = Scan4(q, k, v, c)
  BY DEF Scan4
<1>3. ASSUME NEW b
      PROVE  [Scan4(q, k, v, b) EXCEPT !.key = Append(@, ch)] = Scan4(q, Append(k, ch), v, b)
  <2>1. Scan4(q, k, v, b).key = k
    BY <1>1
  <2>2. \A new : [Scan4(q, k, v, b) EXCEPT !.key = new] = Scan4(q, new, v, b)
    BY DEF Scan4
  <2> QED
    BY <2>1, <2>2
<1>4. ASSUME NEW b
      PROVE  [Scan4(q, k, v, b) EXCEPT !.value = Append(@, ch)] = Scan4(q, k, Append(v, ch), b)
  <2>1. Scan4(q, k, v, b).value = v
    BY <1>1
  <2>2. \A new : [Scan4(q, k, v, b) EXCEPT !.value = new] = Scan4(q, k, new, b)
    BY DEF Scan4
  <2> QED
    BY <2>1, <2>2
<1>5. ASSUME NEW b PROVE AddPair(Scan4(q, k, v, b)) = Add(q, Decode(k), Decode(v))
  BY <1>1, Zenon DEF AddPair
<1> DEFINE y == Scan4(q, k, v, Yes)
           n == Scan4(q, k, v, No)
<1>6. y.parseKey /\ ~n.parseKey
  BY <1>1 DEF Yes, No
<1>7. /\ [y EXCEPT !.parseKey = FALSE] = n
  BY <1>2, Zenon DEF No
<1>8. [y EXCEPT !.key = Append(@, ch)] = Scan4(q, Append(k, ch), v, Yes)
  BY <1>3, Zenon
<1>9. [n EXCEPT !.value = Append(@, ch)] = Scan4(q, k, Append(v, ch), No)
  BY <1>4, Zenon
<1>10. AddPair(n) = Add(q, Decode(k), Decode(v))
  BY <1>5, Zenon
<1> HIDE DEF y, n
<1>11. ch # "=" => ScanChar(y, ch) = Scan4(q, Append(k, ch), v, Yes)
  BY <1>6, <1>8 DEF ScanChar
<1>12. ScanChar(y, "=") = n
  BY <1>6, <1>7 DEF ScanChar
<1>13. ch # "&" => ScanChar(n, ch) = Scan4(q, k, Append(v, ch), No)
  BY <1>6, <1>9 DEF ScanChar
<1>14. ScanChar(n, "&") = Scanning(Add(q, Decode(k), Decode(v)))
  BY <1>6, <1>10 DEF ScanChar
<1>15. Scanning(q) = Scan4(q, <<>>, <<>>, Yes)
  BY DEF Scanning, Scan4, Yes
<1> QED
  BY <1>11, <1>12, <1>13, <1>14, <1>15 DEF y, n

\* Where the loop is behind a text.
ReadAs(s, q, key, value, parseKey) == Scanned(EmptyQuery)[s] = Scan4(q, key, value, parseKey)

LEMMA OneMoreRead ==
  ASSUME NEW s \in Text, NEW ch \in Chars
  PROVE  Scanned(EmptyQuery)[Append(s, ch)] = ScanChar(Scanned(EmptyQuery)[s], ch)
BY EmptyQueryType, ScannedProperties

LEMMA KeyRead ==
  ASSUME NEW q, NEW s \in Text, ReadAs(s, q, <<>>, <<>>, Yes),
         NEW t \in Text, \A i \in 1 .. Len(t) : t[i] # "="
  PROVE  ReadAs(s \o t, q, t, <<>>, Yes)
<1> DEFINE P == {u \in Text : (\A i \in 1 .. Len(u) : u[i] # "=") => ReadAs(s \o u, q, u, <<>>, Yes)}
<1>1. <<>> \in P
  BY TextConcat
<1>2. ASSUME NEW u \in Seq(Chars), NEW ch \in Chars, u \in P PROVE Append(u, ch) \in P
  <2>1. /\ u \in Text /\ Append(u, ch) \in Text /\ s \o Append(u, ch) = Append(s \o u, ch)
        /\ s \o u \in Text
    <3>1. u \in Text /\ s \in Text
      BY DEF Text
    <3>2. Append(u, ch) \in Text
      BY <3>1, OneMoreChar
    <3>3. s \o Append(u, ch) = Append(s \o u, ch) /\ s \o u \in Text
      BY <3>1, TextConcat
    <3> QED
      BY <3>1, <3>2, <3>3
  <2>2. ASSUME \A i \in 1 .. Len(Append(u, ch)) : Append(u, ch)[i] # "="
        PROVE  ReadAs(s \o Append(u, ch), q, Append(u, ch), <<>>, Yes)
    <3> DEFINE more == Append(u, ch)
    <3>1. /\ Len(more) = Len(u) + 1 /\ Len(u) \in Nat /\ more[Len(u) + 1] = ch
          /\ \A i \in 1 .. Len(u) : more[i] = u[i]
      BY <2>1, OneMoreChar
    <3> HIDE DEF more
    <3>2. ch # "=" /\ \A i \in 1 .. Len(u) : u[i] # "="
      <4>1. \A i \in 1 .. Len(more) : more[i] # "="
        BY <2>2 DEF more
      <4> QED
        BY <3>1, <4>1
    <3>3. ReadAs(s \o u, q, u, <<>>, Yes)
      BY <1>2, <3>2
    <3>4. Scanned(EmptyQuery)[Append(s \o u, ch)] = ScanChar(Scan4(q, u, <<>>, Yes), ch)
      BY <2>1, <3>3, OneMoreRead DEF ReadAs
    <3>5. ScanChar(Scan4(q, u, <<>>, Yes), ch) = Scan4(q, Append(u, ch), <<>>, Yes)
      BY <3>2, ScanCharIs
    <3> QED
      BY <2>1, <3>4, <3>5 DEF ReadAs
  <2> QED
    BY <2>1, <2>2
<1>3. \A u \in Seq(Chars) : u \in P
  <2> HIDE DEF P
  <2> QED
    BY <1>1, <1>2, SeqSetInduction
<1>4. t \in P
  BY <1>3 DEF Text
<1> QED
  BY <1>4

LEMMA ValueRead ==
  ASSUME NEW q, NEW s \in Text, NEW key, ReadAs(s, q, key, <<>>, No),
         NEW t \in Text, \A i \in 1 .. Len(t) : t[i] # "&"
  PROVE  ReadAs(s \o t, q, key, t, No)
<1> DEFINE P == {u \in Text : (\A i \in 1 .. Len(u) : u[i] # "&") => ReadAs(s \o u, q, key, u, No)}
<1>1. <<>> \in P
  BY TextConcat
<1>2. ASSUME NEW u \in Seq(Chars), NEW ch \in Chars, u \in P PROVE Append(u, ch) \in P
  <2>1. /\ u \in Text /\ Append(u, ch) \in Text /\ s \o Append(u, ch) = Append(s \o u, ch)
        /\ s \o u \in Text
    <3>1. u \in Text /\ s \in Text
      BY DEF Text
    <3>2. Append(u, ch) \in Text
      BY <3>1, OneMoreChar
    <3>3. s \o Append(u, ch) = Append(s \o u, ch) /\ s \o u \in Text
      BY <3>1, TextConcat
    <3> QED
      BY <3>1, <3>2, <3>3
  <2>2. ASSUME \A i \in 1 .. Len(Append(u, ch)) : Append(u, ch)[i] # "&"
        PROVE  ReadAs(s \o Append(u, ch), q, key, Append(u, ch), No)
    <3> DEFINE more == Append(u, ch)
    <3>1. /\ Len(more) = Len(u) + 1 /\ Len(u) \in Nat /\ more[Len(u) + 1] = ch
          /\ \A i \in 1 .. Len(u) : more[i] = u[i]
      BY <2>1, OneMoreChar
    <3> HIDE DEF more
    <3>2. ch # "&" /\ \A i \in 1 .. Len(u) : u[i] # "&"
      <4>1. \A i \in 1 .. Len(more) : more[i] # "&"
        BY <2>2 DEF more
      <4> QED
        BY <3>1, <4>1
    <3>3. ReadAs(s \o u, q, key, u, No)
      BY <1>2, <3>2
    <3>4. Scanned(EmptyQuery)[Append(s \o u, ch)] = ScanChar(Scan4(q, key, u, No), ch)
      BY <2>1, <3>3, OneMoreRead DEF ReadAs
    <3>5. ScanChar(Scan4(q, key, u, No), ch) = Scan4(q, key, Append(u, ch), No)
      BY <3>2, ScanCharIs
    <3> QED
      BY <2>1, <3>4, <3>5 DEF ReadAs
  <2> QED
    BY <2>1, <2>2
<1>3. \A u \in Seq(Chars) : u \in P
  <2> HIDE DEF P
  <2> QED
    BY <1>1, <1>2, SeqSetInduction
<1>4. t \in P
  BY <1>3 DEF Text
<1> QED
  BY <1>4

\* The query text of one more pair.
\* What stands between pairs and one more pair.
Separator(pairs) == IF pairs = <<>> THEN <<>> ELSE <<"&">>

LEMMA QueryTextAppend ==
  ASSUME NEW sp \in Spellings,
         NEW pairs \in Seq(Pairs), NEW p \in Pairs
  PROVE  /\ Spelled(sp, p.key) \in Text /\ Spelled(sp, p.value) \in Text /\ QueryText(sp, pairs) \in Text
         /\ QueryText(sp, pairs) \o Separator(pairs) \in Text
         /\ QueryText(sp, Append(pairs, p)) =
              (((QueryText(sp, pairs) \o Separator(pairs)) \o Spelled(sp, p.key)) \o <<"=">>) \o Spelled(sp, p.value)
         /\ QueryText(sp, <<>>) = <<>>
<1> DEFINE piece(ps, i) == (IF i = 1 THEN <<>> ELSE <<"&">>) \o Spelled(sp, ps[i].key) \o <<"=">>
                             \o Spelled(sp, ps[i].value)
           pieces(ps) == [i \in DOMAIN ps |-> piece(ps, i)]
           n == Len(pairs)
           more == Append(pairs, p)
           sep == Separator(pairs)
           k == Spelled(sp, p.key)
           v == Spelled(sp, p.value)
           new == ((sep \o k) \o <<"=">>) \o v
<1>1. ASSUME NEW ps \in Seq(Pairs)
      PROVE  /\ pieces(ps) \in [1 .. Len(ps) -> Text] /\ pieces(ps) \in Seq(Text)
             /\ Len(ps) \in Nat /\ QueryText(sp, ps) = FlattenSeq(pieces(ps))
  <2>1. DOMAIN ps = 1 .. Len(ps) /\ Len(ps) \in Nat
    BY LenProperties
  <2>2. ASSUME NEW i \in 1 .. Len(ps) PROVE piece(ps, i) \in Text
    <3>1. ps[i].key \in Text /\ ps[i].value \in Text
      <4>1. ps[i] \in Pairs
        BY ElementOfSeq
      <4> QED
        BY <4>1 DEF Pairs
    <3>2. Spelled(sp, ps[i].key) \in Text /\ Spelled(sp, ps[i].value) \in Text
      BY <3>1, SpelledProperties
    <3>3. (IF i = 1 THEN <<>> ELSE <<"&">>) \in Text /\ <<"=">> \in Text
      BY CharFacts, TextConcat
    <3> QED
      BY <3>2, <3>3, TextConcat
  <2>3. QueryText(sp, ps) = FlattenSeq(pieces(ps))
    BY DEF QueryText
  <2> HIDE DEF piece
  <2>4. pieces(ps) \in [1 .. Len(ps) -> Text]
    BY <2>1, <2>2
  <2>5. pieces(ps) \in Seq(Text)
    <3> DEFINE s == pieces(ps)
               l == Len(ps)
    <3>1. s \in [1 .. l -> Text] /\ l \in Nat
      BY <2>1, <2>4
    <3> HIDE DEF s, l
    <3>2. s \in Seq(Text)
      BY <3>1, SeqDef
    <3> QED
      BY <3>2 DEF s
  <2> QED
    BY <2>1, <2>3, <2>4, <2>5
<1>2. /\ more \in Seq(Pairs) /\ Len(more) = n + 1 /\ n \in Nat /\ more[n + 1] = p
      /\ \A i \in 1 .. n : more[i] = pairs[i]
  BY OneMore
<1>3. DOMAIN more = 1 .. n + 1 /\ DOMAIN pairs = 1 .. n
  <2>1. DOMAIN more = 1 .. Len(more) /\ DOMAIN pairs = 1 .. Len(pairs)
    BY <1>2, LenProperties
  <2> QED
    BY <1>2, <2>1
<1>4. k \in Text /\ v \in Text /\ sep \in Text /\ <<"=">> \in Text /\ new \in Text
  <2>1. p.key \in Text /\ p.value \in Text
    BY DEF Pairs
  <2>2. k \in Text /\ v \in Text
    BY <2>1, SpelledProperties
  <2>3. sep \in Text /\ <<"=">> \in Text
    BY CharFacts, TextConcat DEF Separator
  <2> QED
    BY <2>2, <2>3, TextConcat
<1>5. piece(more, n + 1) = new
  <2>1. (IF n + 1 = 1 THEN <<>> ELSE <<"&">>) = sep
    <3>1. n + 1 = 1 <=> pairs = <<>>
      BY <1>2, EmptySeq
    <3> QED
      BY <3>1 DEF Separator
  <2> QED
    BY <1>2, <2>1
<1>6. \A i \in 1 .. n : piece(more, i) = piece(pairs, i)
  BY <1>2
<1> HIDE DEF piece, new
<1>7. pieces(more) = Append(pieces(pairs), new)
  <2> DEFINE old == pieces(pairs)
             a == Append(old, new)
             b == pieces(more)
  <2>1. /\ old \in Seq(Text) /\ b \in Seq(Text) /\ b \in [1 .. Len(more) -> Text]
        /\ old \in [1 .. n -> Text]
    BY <1>1, <1>2
  <2>2. b[n + 1] = new /\ \A i \in 1 .. n : b[i] = old[i]
    <3>1. n + 1 \in 1 .. n + 1 /\ \A i \in 1 .. n : i \in 1 .. n + 1
      BY <1>2
    <3> QED
      BY <1>3, <1>5, <1>6, <3>1
  <2> HIDE DEF old, b, more, n
  <2>3. Len(old) = n /\ Len(b) = n + 1
    <3>1. DOMAIN old = 1 .. Len(old) /\ DOMAIN b = 1 .. Len(b) /\ Len(old) \in Nat /\ Len(b) \in Nat
      BY <2>1, LenProperties
    <3> DEFINE l == Len(old)
               m == Len(b)
    <3>2. 1 .. l = 1 .. n /\ 1 .. m = 1 .. n + 1 /\ l \in Nat /\ m \in Nat
      BY <1>2, <2>1, <3>1
    <3> HIDE DEF l, m
    <3>3. l = n /\ m = n + 1
      BY <1>2, <3>2
    <3> QED
      BY <3>3 DEF l, m
  <2>4. /\ a \in Seq(Text) /\ Len(a) = n + 1 /\ a[n + 1] = new
        /\ \A i \in 1 .. n : a[i] = old[i]
    <3>1. /\ a \in Seq(Text) /\ Len(a) = Len(old) + 1 /\ a[Len(old) + 1] = new
          /\ \A i \in 1 .. Len(old) : a[i] = old[i]
      BY <1>4, <2>1, OneMore
    <3> HIDE DEF a
    <3> QED
      BY <2>3, <3>1
  <2> HIDE DEF a
  <2>5. \A i \in 1 .. Len(a) : a[i] = b[i]
    BY <1>2, <2>2, <2>4
  <2>6. a = b
    BY <2>1, <2>3, <2>4, <2>5, SeqEqual
  <2> QED
    BY <2>6 DEF a, b, old
<1>8. pieces(pairs) \in Seq(Text) /\ QueryText(sp, pairs) = FlattenSeq(pieces(pairs))
      /\ QueryText(sp, more) = FlattenSeq(pieces(more))
  BY <1>1, <1>2
<1> HIDE DEF pieces, more
<1>9. QueryText(sp, pairs) \in Text
  BY <1>8, FlattenProperties DEF Text
<1>10. QueryText(sp, more) = QueryText(sp, pairs) \o new
  BY <1>4, <1>7, <1>8, FlattenProperties DEF Text
<1>11. QueryText(sp, pairs) \o new = (((QueryText(sp, pairs) \o sep) \o k) \o <<"=">>) \o v
  <2> DEFINE q == QueryText(sp, pairs)
             e == <<"=">>
             sk == sep \o k
             ske == sk \o e
  <2>1. q \in Text
    BY <1>9
  <2>2. k \in Text
    BY <1>4
  <2>3. v \in Text
    BY <1>4
  <2>4. sep \in Text
    BY <1>4
  <2>5. e \in Text
    BY <1>4
  <2> HIDE DEF q, k, v, sep, e
  <2>6. sk \in Text
    BY <2>2, <2>4, TextConcat
  <2>7. (q \o sep) \o k = q \o sk
    BY <2>1, <2>2, <2>4, TextAssoc
  <2> HIDE DEF sk
  <2>8. ske \in Text
    BY <2>5, <2>6, TextConcat
  <2>9. (q \o sk) \o e = q \o ske
    BY <2>1, <2>5, <2>6, TextAssoc
  <2> HIDE DEF ske
  <2>10. (q \o ske) \o v = q \o (ske \o v)
    BY <2>1, <2>3, <2>8, TextAssoc
  <2> QED
    BY <2>7, <2>9, <2>10 DEF new, sk, ske, q, e
<1>12. QueryText(sp, <<>>) = <<>>
  <2>1. <<>> \in Seq(Pairs) /\ Len(<<>>) = 0
    BY EmptySeq
  <2>2. pieces(<<>>) \in Seq(Text) /\ pieces(<<>>) \in [1 .. 0 -> Text]
        /\ QueryText(sp, <<>>) = FlattenSeq(pieces(<<>>))
    BY <1>1, <2>1
  <2>3. pieces(<<>>) = <<>>
    <3>1. DOMAIN pieces(<<>>) = 1 .. 0 /\ DOMAIN pieces(<<>>) = 1 .. Len(pieces(<<>>))
          /\ Len(pieces(<<>>)) \in Nat
      BY <2>2, LenProperties
    <3>2. Len(pieces(<<>>)) = 0
      BY <3>1
    <3> QED
      BY <2>2, <3>2, EmptySeq
  <2> QED
    BY <2>2, <2>3, FlattenProperties
<1>13. QueryText(sp, pairs) \o sep \in Text
  BY <1>4, <1>9, TextConcat
<1> QED
  BY <1>4, <1>9, <1>10, <1>11, <1>12, <1>13 DEF more, sep, k, v

\* Reading one more pair.
LEMMA PairRead ==
  ASSUME NEW sp \in Spellings, Unambiguous(sp),
         NEW pairs \in Seq(Pairs), NEW p \in Pairs, NEW q,
         ReadAs(QueryText(sp, pairs) \o Separator(pairs), q, <<>>, <<>>, Yes)
  PROVE  ReadAs(QueryText(sp, Append(pairs, p)), q, Spelled(sp, p.key), Spelled(sp, p.value), No)
<1> DEFINE start == QueryText(sp, pairs) \o Separator(pairs)
           k == Spelled(sp, p.key)
           v == Spelled(sp, p.value)
           sk == start \o k
           ske == sk \o <<"=">>
<1>1. /\ k \in Text /\ v \in Text /\ start \in Text
      /\ QueryText(sp, Append(pairs, p)) = ske \o v
  BY QueryTextAppend
<1>2. /\ \A i \in 1 .. Len(k) : k[i] # "="
      /\ \A i \in 1 .. Len(v) : v[i] # "&"
  <2>1. p.key \in Text /\ p.value \in Text
    BY DEF Pairs
  <2> QED
    BY <2>1, SpelledPlain
<1>3. ReadAs(start, q, <<>>, <<>>, Yes)
  OBVIOUS
<1> HIDE DEF start, k, v
<1>4. ReadAs(sk, q, k, <<>>, Yes) /\ sk \in Text
  BY <1>1, <1>2, <1>3, KeyRead, TextConcat
<1> HIDE DEF sk
<1>5. ske = Append(sk, "=") /\ ske \in Text
  <2>1. "=" \in Chars /\ sk \in Seq(Chars)
    BY <1>4, CharFacts DEF Text
  <2>2. ske = Append(sk, "=")
    BY <2>1, AppendIsConcat
  <2> QED
    BY <2>1, <2>2, AppendProperties DEF Text
<1>6. ReadAs(ske, q, k, <<>>, No)
  <2>1. "=" \in Chars
    BY CharFacts
  <2>2. Scanned(EmptyQuery)[Append(sk, "=")] = ScanChar(Scanned(EmptyQuery)[sk], "=")
    BY <1>4, <2>1, OneMoreRead
  <2>3. Scanned(EmptyQuery)[ske] = ScanChar(Scan4(q, k, <<>>, Yes), "=")
    BY <1>4, <1>5, <2>2 DEF ReadAs
  <2>4. ScanChar(Scan4(q, k, <<>>, Yes), "=") = Scan4(q, k, <<>>, No)
    BY ScanCharIs
  <2> QED
    BY <2>3, <2>4 DEF ReadAs
<1> HIDE DEF ske
<1>7. ReadAs(ske \o v, q, k, v, No)
  BY <1>1, <1>2, <1>5, <1>6, ValueRead
<1> QED
  BY <1>1, <1>7 DEF k, v

\* Pairs that are followed by another one have been added.
LEMMA PairsRead ==
  ASSUME NEW sp \in Spellings, Unambiguous(sp),
         NEW pairs \in Seq(Pairs)
  PROVE  ReadAs(QueryText(sp, pairs) \o Separator(pairs), Added[pairs], <<>>, <<>>, Yes)
<1> DEFINE start(ps) == QueryText(sp, ps) \o Separator(ps)
           P == {ps \in Seq(Pairs) : ReadAs(start(ps), Added[ps], <<>>, <<>>, Yes)}
<1>1. <<>> \in P
  <2>1. <<>> \in Seq(Pairs) /\ <<>> \in Text /\ <<>> \o <<>> = <<>>
    BY EmptySeq, TextConcat
  <2>2. start(<<>>) = <<>>
    <3>1. QueryText(sp, <<>>) = <<>>
      <4>1. PICK p : p \in Pairs
        <5>1. [key |-> <<>>, value |-> <<>>] \in Pairs
          BY <2>1 DEF Pairs
        <5> QED
          BY <5>1
      <4> QED
        BY <2>1, <4>1, QueryTextAppend
    <3> QED
      BY <2>1, <3>1 DEF Separator
  <2>3. Scanned(EmptyQuery)[<<>>] = Scan4(EmptyQuery, <<>>, <<>>, Yes)
    BY EmptyQueryType, ScannedProperties, ScanCharIs
  <2>4. ReadAs(start(<<>>), Added[<<>>], <<>>, <<>>, Yes)
    BY <2>2, <2>3, AddedProperties DEF ReadAs
  <2> QED
    BY <2>1, <2>4
<1>2. ASSUME NEW ps \in Seq(Pairs), NEW p \in Pairs, ps \in P PROVE Append(ps, p) \in P
  <2> DEFINE more == Append(ps, p)
             q == Added[ps]
             k == Spelled(sp, p.key)
             v == Spelled(sp, p.value)
  <2>1. ReadAs(QueryText(sp, more), q, k, v, No)
    BY <1>2, PairRead
  <2>2. more \in Seq(Pairs) /\ more # <<>> /\ QueryText(sp, more) \in Text
    <3>1. more \in Seq(Pairs) /\ Len(more) = Len(ps) + 1 /\ Len(ps) \in Nat
      BY OneMore
    <3>2. Len(<<>>) = 0
      OBVIOUS
    <3> HIDE DEF more
    <3>3. QueryText(sp, more) \in Text
      BY <3>1, QueryTextAppend
    <3> QED
      BY <3>1, <3>2, <3>3
  <2>3. start(more) = Append(QueryText(sp, more), "&") /\ "&" \in Chars
    <3>1. "&" \in Chars /\ QueryText(sp, more) \in Seq(Chars)
      BY <2>2, CharFacts DEF Text
    <3>2. QueryText(sp, more) \o <<"&">> = Append(QueryText(sp, more), "&")
      BY <3>1, AppendIsConcat
    <3> QED
      BY <2>2, <3>1, <3>2 DEF Separator
  <2>4. Decode(k) = p.key /\ Decode(v) = p.value
    BY DecodeSpelled DEF Pairs
  <2>5. Added[more] = Add(q, p.key, p.value)
    BY AddedProperties
  <2> HIDE DEF more, q, k, v
  <2>6. Scanned(EmptyQuery)[start(more)] = ScanChar(Scan4(q, k, v, No), "&")
    BY <2>1, <2>2, <2>3, OneMoreRead DEF ReadAs
  <2>7. ScanChar(Scan4(q, k, v, No), "&") = Scanning(Add(q, p.key, p.value))
    BY <2>4, ScanCharIs
  <2>8. ReadAs(start(more), Added[more], <<>>, <<>>, Yes)
    BY <2>5, <2>6, <2>7, ScanCharIs DEF ReadAs
  <2> QED
    BY <2>2, <2>8 DEF more
<1>3. \A ps \in Seq(Pairs) : ps \in P
  <2> HIDE DEF P
  <2> QED
    BY <1>1, <1>2, SeqSetInduction
<1> QED
  BY <1>3

\* ParseQuery makes of a query text the query of its pairs.
LEMMA ParseQueryIs ==
  ASSUME NEW sp \in Spellings, Unambiguous(sp),
         NEW u, u.query = EmptyQuery, NEW pairs \in Seq(Pairs)
  PROVE  ParseQuery(u, QueryText(sp, pairs)) = [u EXCEPT !.query = Added[pairs]]
<1> DEFINE text == QueryText(sp, pairs)
           scan == FoldLeft(ScanChar, Scanning(u.query), text)
<1>1. text \in Text
  BY QueryTextType DEF Pairs
<1>2. scan = Scanned(EmptyQuery)[text]
  <2>1. FoldLeft(ScanChar, Scanning(EmptyQuery), text) = Scanned(EmptyQuery)[text]
    BY <1>1, EmptyQueryType, ScanFold
  <2> QED
    BY <2>1
<1>3. ParseQuery(u, text) = IF scan.parseKey /\ scan.key = <<>> THEN [u EXCEPT !.query = scan.query]
                            ELSE [u EXCEPT !.query = AddPair(scan)]
  BY DEF ParseQuery
<1> HIDE DEF scan
<1>4. CASE pairs = <<>>
  <2>1. ReadAs(QueryText(sp, pairs) \o Separator(pairs), Added[pairs], <<>>, <<>>, Yes)
    BY PairsRead
  <2>2. text \o Separator(pairs) = text
    BY <1>1, <1>4, TextConcat DEF Separator
  <2>3. scan = Scan4(Added[pairs], <<>>, <<>>, Yes)
    BY <1>2, <2>1, <2>2 DEF ReadAs
  <2>4. scan.parseKey /\ scan.key = <<>> /\ scan.query = Added[pairs]
    BY <2>3 DEF Scan4, Yes
  <2> QED
    BY <1>3, <2>4
<1>5. CASE pairs # <<>>
  <2>1. PICK ps \in Seq(Pairs), p \in Pairs : pairs = Append(ps, p)
    BY <1>5, Shorter
  <2>2. scan = Scan4(Added[ps], Spelled(sp, p.key), Spelled(sp, p.value), No)
    <3>1. ReadAs(QueryText(sp, Append(ps, p)), Added[ps], Spelled(sp, p.key), Spelled(sp, p.value), No)
      BY PairsRead, PairRead
    <3> QED
      BY <1>2, <2>1, <3>1 DEF ReadAs
  <2>3. ~scan.parseKey
    BY <2>2 DEF Scan4, No
  <2>4. AddPair(scan) = Add(Added[ps], Decode(Spelled(sp, p.key)), Decode(Spelled(sp, p.value)))
    BY <2>2 DEF AddPair, Scan4
  <2>5. Decode(Spelled(sp, p.key)) = p.key /\ Decode(Spelled(sp, p.value)) = p.value
    BY DecodeSpelled DEF Pairs
  <2>6. Added[pairs] = Add(Added[ps], p.key, p.value)
    BY <2>1, AddedProperties
  <2> QED
    BY <1>3, <2>3, <2>4, <2>5, <2>6
<1> QED
  BY <1>4, <1>5

------------------------------------------------------------------------------
(***************************************************************************)
(* What a well-formed URL is taken apart into.                             *)
(***************************************************************************)
\* The first "?" is the one in front of the query.
LEMMA PathQuerySplit ==
  ASSUME NEW f \in Forms, Unambiguous(f.spell)
  PROVE  LET text == PathQuery(f)
             places == Places(text, 1, "?")
         IN /\ ~f.hasQuery => places = {} /\ text = PathText(f)
            /\ f.hasQuery => /\ places # {} /\ Min(places) # 0
                             /\ SubSeq(text, 1, Min(places) - 1) = PathText(f)
                             /\ SubSeq(text, Min(places) + 1, Len(text))
                                  = QueryText(f.spell, f.pairs)
<1> DEFINE e == PathText(f)
           qt == QueryText(f.spell, f.pairs)
           mark == <<"?">>
           text == PathQuery(f)
           places == Places(text, 1, "?")
<1>1. e \in Text /\ qt \in Text /\ mark \in Text /\ Len(e) \in Nat /\ e \o <<>> = e
  <2>1. f.spell \in Spellings /\ f.pairs \in Seq([key : Text, value : Text])
    BY FormFacts DEF FormType
  <2>2. e \in Text /\ qt \in Text /\ mark \in Text
    BY <2>1, PathTextIs, QueryTextType, CharFacts
  <2> HIDE DEF e, qt, mark
  <2> QED
    BY <2>2, TextConcat
<1>2. \A i \in 1 .. Len(e) : e[i] # "?"
  <2>1. CASE f.path = <<>>
    <3>1. e = <<>> /\ Len(<<>>) = 0
      BY <2>1, PathTextIs
    <3> QED
      BY <3>1
  <2>2. CASE f.path # <<>>
    <3> DEFINE rest == Spelled(f.spell, Tail(f.path))
               slash == <<"/">>
    <3>1. e = slash \o rest /\ Tail(f.path) \in Text /\ f.spell \in Spellings
      BY <2>2, PathTextIs, FormFacts
    <3>2. \A i \in 1 .. Len(rest) : rest[i] \notin {"?", "&", "="}
      BY <3>1, SpelledPlain
    <3>3. rest \in Text /\ slash \in Text /\ Len(slash) = 1 /\ slash[1] = "/"
      BY <3>1, SpelledProperties, CharFacts, OneElement DEF Text
    <3> HIDE DEF rest, slash, e
    <3>4. /\ Len(e) = 1 + Len(rest) /\ Len(rest) \in Nat
          /\ \A i \in 1 .. 1 + Len(rest) : e[i] = IF i =< 1 THEN slash[i] ELSE rest[i - 1]
      <4>1. rest \in Text
        BY <3>3
      <4>2. slash \in Text /\ Len(slash) = 1
        BY <3>3
      <4>3. /\ Len(rest) \in Nat /\ Len(slash \o rest) = Len(slash) + Len(rest)
            /\ \A i \in 1 .. Len(slash) + Len(rest) : (slash \o rest)[i] =
                  IF i =< Len(slash) THEN slash[i] ELSE rest[i - Len(slash)]
        BY <4>1, <4>2, JoinedText
      <4>4. e = slash \o rest
        BY <3>1
      <4> QED
        BY <4>2, <4>3, <4>4
    <3> SUFFICES ASSUME NEW i \in 1 .. Len(e) PROVE e[i] # "?"
      OBVIOUS
    <3>5. CASE i =< 1
      <4>1. i = 1 /\ e[i] = slash[i]
        BY <3>4, <3>5
      <4> QED
        BY <3>3, <4>1
    <3>6. CASE ~ (i =< 1)
      <4>1. i - 1 \in 1 .. Len(rest) /\ e[i] = rest[i - 1]
        BY <3>4, <3>6
      <4> QED
        BY <3>2, <4>1
    <3> QED
      BY <3>4, <3>5, <3>6
  <2> QED
    BY <2>1, <2>2
<1>3. text = e \o (IF f.hasQuery THEN mark \o qt ELSE <<>>)
  BY DEF PathQuery
<1> HIDE DEF text, e, qt
<1>4. ASSUME ~f.hasQuery PROVE places = {} /\ text = e
  <2>1. text = e
    BY <1>1, <1>3, <1>4
  <2> QED
    BY <1>2, <2>1 DEF Places
<1>5. ASSUME f.hasQuery
      PROVE  /\ places # {} /\ Min(places) # 0
             /\ SubSeq(text, 1, Min(places) - 1) = e
             /\ SubSeq(text, Min(places) + 1, Len(text)) = qt
  <2> DEFINE rest == mark \o qt
             front == e \o mark
  <2>1. /\ rest \in Text /\ rest # <<>> /\ rest[1] = "?"
        /\ front \in Text /\ Len(front) = Len(e) + 1 /\ front \o qt = e \o rest
    <3>1. Len(mark) = 1 /\ mark[1] = "?" /\ Len(<<>>) = 0
      OBVIOUS
    <3>2. mark \in Text
      BY <1>1
    <3> HIDE DEF mark
    <3>3. /\ rest \in Text /\ Len(rest) = Len(mark) + Len(qt) /\ Len(qt) \in Nat
          /\ \A i \in 1 .. Len(mark) : rest[i] = mark[i]
      BY <1>1, <3>2, JoinedText
    <3>4. front \in Text /\ Len(front) = Len(e) + Len(mark)
      BY <1>1, <3>2, JoinedText
    <3>5. front \o qt = e \o rest
      BY <1>1, <3>2, TextAssoc
    <3> HIDE DEF rest, front
    <3> QED
      BY <3>1, <3>3, <3>4, <3>5
  <2>2. text = e \o rest
    BY <1>3, <1>5
  <2> HIDE DEF rest, front, mark
  <2>3. places # {} /\ Min(places) = Len(e) + 1
    <3>1. 1 \in 1 .. Len(e) + 1
      BY <1>1
    <3>2. e \in Seq(Chars) /\ rest \in Seq(Chars)
      BY <1>1, <2>1 DEF Text
    <3> QED
      BY <1>2, <2>1, <2>2, <3>1, <3>2, FirstPlace
  <2>4. SubSeq(text, 1, Len(e)) = e
    BY <1>1, <2>1, <2>2, LeftPart DEF Text
  <2>5. SubSeq(text, Len(front) + 1, Len(text)) = qt
    <3>1. SubSeq(front \o qt, Len(front) + 1, Len(front \o qt)) = qt
      BY <1>1, <2>1, RightPart DEF Text
    <3> QED
      BY <2>1, <2>2, <3>1
  <2>6. Min(places) - 1 = Len(e) /\ Min(places) + 1 = Len(front) + 1 /\ Min(places) # 0
    BY <1>1, <2>1, <2>3
  <2> QED
    BY <2>3, <2>4, <2>5, <2>6
<1> QED
  BY <1>4, <1>5 DEF text, e, qt

\* The path a Url is left with.
PathRead(f) == Decode(LexicallyNormal(PathText(f)))

LEMMA ParsePathQueryIs ==
  ASSUME NEW f \in Forms, NEW scheme, NEW host, NEW path, NEW port, NEW valid
  PROVE  \E p, q :
           /\ ParsePathQuery(Url6(scheme, host, path, EmptyQuery, port, valid), PathQuery(f))
                = Url6(scheme, host, p, q, port, valid)
           /\ Unambiguous(f.spell) => p = PathRead(f) /\ q = Added[f.pairs]
<1> DEFINE u == Url6(scheme, host, path, EmptyQuery, port, valid)
           text == PathQuery(f)
           end == SelectInSeq(text, LAMBDA ch : ch = "?")
           sent == IF end = 0 THEN text ELSE SubSeq(text, 1, end - 1)
           parsed == [u EXCEPT !.path = Decode(LexicallyNormal(sent))]
           rest == SubSeq(text, end + 1, Len(text))
           known == Url6(scheme, host, PathRead(f), EmptyQuery, port, valid)
           right == Url6(scheme, host, PathRead(f), Added[f.pairs], port, valid)
<1>1. ParsePathQuery(u, text) = IF end = 0 THEN parsed ELSE ParseQuery(parsed, rest)
  BY DEF ParsePathQuery
<1>2. end = IF Places(text, 1, "?") # {} THEN Min(Places(text, 1, "?")) ELSE 0
  BY DEF SelectInSeq, Places
<1>3. f.hasQuery \in BOOLEAN /\ f.pairs \in Seq(Pairs) /\ f.spell \in Spellings
  BY FormFacts DEF FormType, Pairs
<1>4. ASSUME Unambiguous(f.spell) PROVE ParsePathQuery(u, text) = right
  <2> HIDE DEF end
  <2>1. ~f.hasQuery => end = 0 /\ sent = PathText(f) /\ f.pairs = <<>>
    BY <1>2, <1>4, PathQuerySplit, FormFacts
  <2>2. f.hasQuery => end # 0 /\ sent = PathText(f) /\ rest = QueryText(f.spell, f.pairs)
    BY <1>2, <1>4, PathQuerySplit
  <2>3. sent = PathText(f)
    BY <1>3, <2>1, <2>2
  <2> HIDE DEF sent, rest, text
  <2>4. parsed = known
    BY <2>3 DEF Url6, PathRead
  <2> HIDE DEF parsed, u
  <2>5. known.query = EmptyQuery
    BY DEF Url6
  <2>6. [known EXCEPT !.query = Added[f.pairs]] = right
    BY DEF Url6
  <2>7. f.pairs = <<>> => known = right
    BY AddedProperties
  <2> HIDE DEF known, right
  <2>8. CASE f.hasQuery
    <3> DEFINE spell == f.spell
               pairs == f.pairs
    <3>1. spell \in Spellings /\ Unambiguous(spell) /\ pairs \in Seq(Pairs)
      BY <1>3, <1>4
    <3> HIDE DEF spell, pairs
    <3>2. ParseQuery(known, QueryText(spell, pairs)) = [known EXCEPT !.query = Added[pairs]]
      BY <2>5, <3>1, ParseQueryIs
    <3> QED
      BY <1>1, <2>2, <2>4, <2>6, <2>8, <3>2 DEF u, text, spell, pairs
  <2>9. CASE ~f.hasQuery
    BY <1>1, <2>1, <2>4, <2>7, <2>9 DEF u, text
  <2> QED
    BY <1>3, <2>8, <2>9
<1>5. CASE Unambiguous(f.spell)
  BY <1>4, <1>5, Zenon
<1>6. CASE ~Unambiguous(f.spell)
  <2>1. \E p, q : ParsePathQuery(u, text) = Url6(scheme, host, p, q, port, valid)
    BY ParsePathQueryKeeps
  <2> QED
    BY <1>6, <2>1, Zenon
<1> QED
  BY <1>5, <1>6

------------------------------------------------------------------------------
(***************************************************************************)
(* std::stoi gives a number, whatever the text.                            *)
(***************************************************************************)
\* The loop of std::stoi over digits.
DigitChars == Range(Digits)
Numbers == 0 .. UINT16_MAX + 1
NumberStep == [x \in Numbers \X DigitChars |-> NextNumber(x[1], x[2])]

LEMMA DigitValueType ==
  ASSUME NEW ch \in DigitChars
  PROVE  DigitValue(ch) \in Nat
<1>1. DOMAIN Digits = 1 .. 10
  BY DEF Digits
<1>2. PICK i \in DOMAIN Digits : Digits[i] = ch
  BY DEF DigitChars, Range
<1> DEFINE d == CHOOSE j \in DOMAIN Digits : Digits[j] = ch
<1>3. d \in DOMAIN Digits
  BY <1>2
<1> HIDE DEF d
<1>4. d - 1 \in Nat
  BY <1>1, <1>3
<1> QED
  BY <1>4 DEF DigitValue, d

LEMMA NextNumberType ==
  ASSUME NEW n \in Numbers, NEW ch \in DigitChars
  PROVE  NextNumber(n, ch) \in Numbers
<1> DEFINE v == DigitValue(ch)
<1>1. v \in Nat /\ UINT16_MAX \in Nat
  BY DigitValueType DEF UINT16_MAX
<1> HIDE DEF v
<1> QED
  BY <1>1 DEF NextNumber, Numbers, v

LEMMA NumberType ==
  ASSUME NEW digits \in Seq(DigitChars)
  PROVE  FoldLeft(NextNumber, 0, digits) \in Numbers
<1> DEFINE F == Loop(Numbers, DigitChars, 0, NumberStep)
           D == DOMAIN digits
           rec(it) == it = [S \in SUBSET D |->
             IF S = {} THEN 0 ELSE NextNumber(it[S \ {Max(S)}], digits[Max(S)])]
           fold == CHOOSE it : rec(it)
<1>1. FoldLeft(NextNumber, 0, digits) = fold[D]
  BY DEF FoldLeft, MapThenFoldSet
<1>2. 0 \in Numbers /\ NumberStep \in [Numbers \X DigitChars -> Numbers]
  <2>1. 0 \in Numbers
    BY DEF Numbers, UINT16_MAX
  <2>2. NumberStep \in [Numbers \X DigitChars -> Numbers]
    BY NextNumberType DEF NumberStep
  <2> QED
    BY <2>1, <2>2
<1>3. PICK h : FoldsSeq(h, Numbers, DigitChars, digits, 0, NumberStep)
  BY <1>2, SeqFoldExists
<1>4. rec(h)
  BY <1>3 DEF FoldsSeq, NumberStep
<1>5. rec(fold)
  <2> HIDE DEF rec
  <2> QED
    BY <1>4
<1>6. FoldsBy(fold, Numbers, digits, 0, NumberStep)
  <2> HIDE DEF fold
  <2>1. fold[{}] = 0
    BY <1>5
  <2>2. ASSUME NEW i \in 1 .. Len(digits), fold[1 .. i - 1] \in Numbers
        PROVE  fold[1 .. i] = NumberStep[<<fold[1 .. i - 1], digits[i]>>]
    <3>1. /\ 1 .. i \in SUBSET (1 .. Len(digits)) /\ 1 .. i # {} /\ digits[i] \in DigitChars
          /\ Max(1 .. i) = i /\ (1 .. i) \ {i} = 1 .. i - 1 /\ DOMAIN digits = 1 .. Len(digits)
      BY LenProperties, InitialSegment, ElementOfSeq
    <3>2. fold[1 .. i] = NextNumber(fold[1 .. i - 1], digits[i])
      BY <1>5, <3>1
    <3> QED
      BY <2>2, <3>1, <3>2 DEF NumberStep
  <2> QED
    BY <2>1, <2>2 DEF FoldsBy
<1>7. FoldsTo(fold, digits, F)
  <2> HIDE DEF fold
  <2> QED
    BY <1>2, <1>6, FoldIsLoop
<1>8. D = 1 .. Len(digits)
  BY LenProperties
<1>9. F \in [Seq(DigitChars) -> Numbers]
  BY <1>2, LoopProperties
<1> HIDE DEF F, fold
<1>10. F[digits] \in Numbers
  BY <1>9
<1> QED
  BY <1>1, <1>7, <1>8, <1>10, Zenon DEF FoldsTo

LEMMA LeadingProperties ==
  ASSUME NEW s \in Text, NEW chars
  PROVE  /\ Leading(s, chars) \in 0 .. Len(s)
         /\ SubSeq(s, 1, Leading(s, chars)) \in Seq(chars)
         /\ SubSeq(s, Leading(s, chars) + 1, Len(s)) \in Text
<1> DEFINE l == Leading(s, chars)
           out == {i \in 1 .. Len(s) : s[i] \notin chars}
           first == IF out # {} THEN Min(out) ELSE 0
<1>1. l = IF first = 0 THEN Len(s) ELSE first - 1
  BY DEF Leading, SelectInSeq
<1>2. Len(s) \in Nat /\ s \in Seq(Chars)
  BY TextConcat DEF Text
<1>3. l \in 0 .. Len(s) /\ \A i \in 1 .. l : s[i] \in chars
  <2>1. CASE out = {}
    <3>1. l = Len(s)
      <4> HIDE DEF l
      <4> QED
        BY <1>1, <2>1
    <3> QED
      BY <1>2, <2>1, <3>1
  <2>2. CASE out # {}
    <3> DEFINE m == Min(out)
    <3>1. out \in SUBSET Nat
      BY <1>2
    <3>2. m \in out /\ \A j \in out : m =< j
      <4> HIDE DEF out
      <4> QED
        BY <2>2, <3>1, MinExists
    <3>3. l = m - 1
      <4>1. m # 0 /\ first = m
        BY <1>2, <2>2, <3>2
      <4> HIDE DEF l, m, first
      <4> QED
        BY <1>1, <4>1
    <3> HIDE DEF m, l
    <3>4. \A i \in 1 .. l : i \in 1 .. Len(s) /\ i \notin out
      BY <1>2, <3>2, <3>3
    <3> QED
      BY <1>2, <3>2, <3>3, <3>4
  <2> QED
    BY <2>1, <2>2
<1> HIDE DEF l
<1> DEFINE left == SubSeq(s, 1, l)
<1>4. left \in Seq(chars)
  <2>1. 1 \in Int /\ l \in Int /\ \A i \in 1 .. l : s[i] \in chars
    BY <1>3
  <2> QED
    BY <2>1, SubSeqProperties
<1>5. SubSeq(s, l + 1, Len(s)) \in Text
  <2>1. l + 1 \in 1 .. Len(s) + 1 /\ Len(s) \in 0 .. Len(s)
    BY <1>2, <1>3
  <2> QED
    BY <1>2, <2>1, SubSeqType DEF Text
<1> QED
  BY <1>3, <1>4, <1>5 DEF l

LEMMA StoiType ==
  ASSUME NEW text \in Text
  PROVE  Stoi(text) \in Int
<1> DEFINE number == SubSeq(text, Leading(text, {" "}) + 1, Len(text))
           signed == number # <<>> /\ number[1] \in {"+", "-"}
           unsigned == IF signed THEN Tail(number) ELSE number
           digits == SubSeq(unsigned, 1, Leading(unsigned, Range(Digits)))
           value == FoldLeft(NextNumber, 0, digits)
<1>1. Stoi(text) = IF digits = <<>> THEN -1
                   ELSE IF signed /\ number[1] = "-" THEN -value ELSE value
  BY DEF Stoi
<1>2. number \in Text
  BY LeadingProperties
<1>3. unsigned \in Text
  <2> HIDE DEF number
  <2>1. number # <<>> => Tail(number) \in Text
    BY <1>2, HeadTailProperties DEF Text
  <2> QED
    BY <1>2, <2>1
<1> HIDE DEF unsigned
<1>4. digits \in Seq(DigitChars)
  BY <1>3, LeadingProperties DEF DigitChars
<1> HIDE DEF digits
<1>5. value \in Numbers
  BY <1>4, NumberType
<1> HIDE DEF value, signed
<1>6. value \in Int /\ -value \in Int /\ -1 \in Int
  <2>1. value \in Nat
    BY <1>5 DEF Numbers
  <2> QED
    BY <2>1
<1>7. CASE digits = <<>>
  BY <1>1, <1>6, <1>7
<1>8. CASE digits # <<>>
  BY <1>1, <1>6, <1>8
<1> QED
  BY <1>7, <1>8

------------------------------------------------------------------------------
(***************************************************************************)
(* The parts of a well-formed URL, and what the Url is left with.          *)
(***************************************************************************)
\* The port and the path of a Url made from f.
PortRead(f) == IF f.absolute /\ f.hasPort THEN PortNumber(f.port) ELSE kReservedPort
PathKept(f) == IF f.path = <<>> THEN <<"/">> ELSE PathRead(f)

\* A port number is one that ParseHostPort takes as it is.
LEMMA PortNumberKept ==
  ASSUME NEW port \in Text, PortNumber(port) > 0
  PROVE  /\ Stoi(port) \in 0 .. UINT16_MAX
         /\ Stoi(port) % (UINT16_MAX + 1) = PortNumber(port)
<1> DEFINE n == Stoi(port)
<1>1. n \in Int /\ UINT16_MAX \in Nat
  BY StoiType DEF UINT16_MAX
<1>2. PortNumber(port) = 0 \/ (PortNumber(port) = n /\ ~ (n > UINT16_MAX))
  BY DEF PortNumber
<1> HIDE DEF n
<1>3. PortNumber(port) = n /\ n \in 0 .. UINT16_MAX
  BY <1>1, <1>2
<1>4. n % (UINT16_MAX + 1) = n
  BY <1>3, PortKept
<1> QED
  BY <1>3, <1>4 DEF n

LEMMA WellFormedParsed ==
  ASSUME NEW f \in Forms, WellFormed(f), ~LooksAbsolute(f)
  PROVE  \E p, q :
           /\ Parse(DefaultUrl, Compose(f)) =
                Url6(IF f.absolute THEN f.scheme ELSE <<>>, IF f.absolute THEN f.host ELSE <<>>,
                     p, q, PortRead(f), Yes)
           /\ Unambiguous(f.spell) => p = PathKept(f) /\ q = Added[f.pairs]
<1> DEFINE all == Parse(DefaultUrl, Compose(f))
           pq == PathQuery(f)
           port == PortRead(f)
<1>1. f.absolute \in BOOLEAN /\ f.hasPort \in BOOLEAN /\ f.port \in Text
  BY FormFacts DEF FormType
<1>2. f.path = <<>> => f.absolute /\ Added[f.pairs] = EmptyQuery
  BY FormFacts, AddedProperties
<1>3. CASE ~f.absolute
  <2>1. DefaultUrl = Url6(<<>>, <<>>, <<"/">>, EmptyQuery, kReservedPort, Yes)
    BY DEF DefaultUrl, Url6, Yes
  <2>2. all = ParsePathQuery(DefaultUrl, pq)
    BY <1>3, ParseRelative
  <2> HIDE DEF all
  <2>3. PICK p, q :
          /\ ParsePathQuery(Url6(<<>>, <<>>, <<"/">>, EmptyQuery, kReservedPort, Yes), PathQuery(f))
               = Url6(<<>>, <<>>, p, q, kReservedPort, Yes)
          /\ Unambiguous(f.spell) => p = PathRead(f) /\ q = Added[f.pairs]
    BY ParsePathQueryIs
  <2>4. PathKept(f) = PathRead(f) /\ port = kReservedPort
    BY <1>2, <1>3 DEF PathKept, PortRead
  <2>5. all = Url6(<<>>, <<>>, p, q, port, Yes)
    BY <2>1, <2>2, <2>3, <2>4
  <2> HIDE DEF port
  <2> QED
    BY <1>3, <2>3, <2>4, <2>5 DEF all, port
<1>4. CASE f.absolute
  <2> DEFINE withHost == ParseHostPort(WithScheme(f), Authority(f))
             scheme == f.scheme
             host == f.host
  <2>1. f.host # <<>> /\ (f.hasPort => PortNumber(f.port) > 0)
    BY <1>4 DEF WellFormed
  <2>2. withHost = Url6(scheme, host, <<"/">>, EmptyQuery, port, Yes)
    <3>1. /\ ~f.hasPort => withHost = Url6(f.scheme, f.host, <<"/">>, EmptyQuery, kReservedPort, Yes)
          /\ f.hasPort /\ Stoi(f.port) \in 0 .. UINT16_MAX
               => withHost = Url6(f.scheme, f.host, <<"/">>, EmptyQuery,
                                  Stoi(f.port) % (UINT16_MAX + 1), Yes)
      BY <2>1, ParseHostPortIs DEF WithScheme
    <3> HIDE DEF withHost
    <3>2. CASE f.hasPort
      <4>1. Stoi(f.port) \in 0 .. UINT16_MAX /\ Stoi(f.port) % (UINT16_MAX + 1) = PortNumber(f.port)
        BY <1>1, <2>1, <3>2, PortNumberKept
      <4>2. port = PortNumber(f.port)
        BY <1>4, <3>2 DEF PortRead
      <4> HIDE DEF port
      <4> QED
        BY <3>1, <3>2, <4>1, <4>2
    <3>3. CASE ~f.hasPort
      BY <3>1, <3>3 DEF PortRead
    <3> QED
      BY <1>1, <3>2, <3>3
  <2> HIDE DEF scheme, host, port
  <2>3. CASE f.path = <<>>
    <3>1. all = withHost
      BY <1>4, <2>3, ParseAbsolute
    <3>2. PathKept(f) = <<"/">>
      BY <2>3 DEF PathKept
    <3> HIDE DEF all, withHost
    <3>3. all = Url6(scheme, host, <<"/">>, EmptyQuery, port, Yes)
      BY <2>2, <3>1
    <3> QED
      BY <1>2, <1>4, <2>3, <3>2, <3>3 DEF all, port, scheme, host
  <2>4. CASE f.path # <<>>
    <3>1. all = ParsePathQuery(withHost, pq)
      BY <1>4, <2>4, ParseAbsolute
    <3>2. PathKept(f) = PathRead(f)
      BY <2>4 DEF PathKept
    <3> HIDE DEF all, withHost, pq
    <3>3. PICK p, q :
            /\ ParsePathQuery(Url6(scheme, host, <<"/">>, EmptyQuery, port, Yes), PathQuery(f))
                 = Url6(scheme, host, p, q, port, Yes)
            /\ Unambiguous(f.spell) => p = PathRead(f) /\ q = Added[f.pairs]
      BY ParsePathQueryIs
    <3>4. all = Url6(scheme, host, p, q, port, Yes)
      BY <2>2, <3>1, <3>3 DEF pq
    <3> QED
      BY <1>4, <3>2, <3>3, <3>4 DEF all, port, scheme, host
  <2> QED
    BY <2>3, <2>4
<1> QED
  BY <1>1, <1>3, <1>4

(***************************************************************************)
(* The query has the pairs it was written from: every value once, in its   *)
(* place, and under every key that key's values in their order.            *)
(***************************************************************************)
THEOREM QueriesRecovered == Spec => []QueryRecovered
<1>1. Constructed => QueryRecovered
  <2> SUFFICES ASSUME Constructed, NEW f \in form, WellFormed(f), ~LooksAbsolute(f),
                      Unambiguous(f.spell)
               PROVE  /\ url.query.values = [i \in DOMAIN f.pairs |-> f.pairs[i].value]
                      /\ DOMAIN url.query.keys = {f.pairs[i].key : i \in DOMAIN f.pairs}
                      /\ \A k \in DOMAIN url.query.keys : Get(url.query, k) = ValuesOf(f.pairs, k)
    BY DEF QueryRecovered
  <2>1. f \in Forms /\ url = Parse(DefaultUrl, Compose(f))
    BY DEF Constructed
  <2>2. f.pairs \in Seq(Pairs)
    BY <2>1, FormFacts DEF FormType, Pairs
  <2>3. url.query = Added[f.pairs]
    <3>1. PICK p, q :
            /\ url = Url6(IF f.absolute THEN f.scheme ELSE <<>>, IF f.absolute THEN f.host ELSE <<>>,
                          p, q, PortRead(f), Yes)
            /\ Unambiguous(f.spell) => p = PathKept(f) /\ q = Added[f.pairs]
      BY <2>1, WellFormedParsed
    <3> QED
      BY <3>1 DEF Url6
  <2> DEFINE ps == f.pairs
  <2>4. ps \in Seq(Pairs) /\ url.query = Added[ps]
    BY <2>2, <2>3
  <2> HIDE DEF ps
  <2>5. /\ url.query.values = [i \in DOMAIN ps |-> ps[i].value]
        /\ DOMAIN url.query.keys = {ps[i].key : i \in DOMAIN ps}
        /\ \A k \in DOMAIN url.query.keys : Get(url.query, k) = ValuesOf(ps, k)
    BY <2>4, PairValues, PairKeys, PairsGot
  <2> QED
    BY <2>5 DEF ps
<1> QED
  BY <1>1, AlwaysConstructed, PTL

------------------------------------------------------------------------------
(***************************************************************************)
(* A path is normalised in the same way spelled and as it is meant, when   *)
(* dots and slashes are bare.                                              *)
(***************************************************************************)
\* Segments, each spelled.
Texts == Seq(Text)
SpelledEach(sp, segs) == [i \in DOMAIN segs |-> Spelled(sp, segs[i])]

LEMMA SpelledEachType ==
  ASSUME NEW sp \in Spellings,
         NEW segs \in Texts
  PROVE  SpelledEach(sp, segs) \in Texts /\ Len(SpelledEach(sp, segs)) = Len(segs)
<1> DEFINE e == SpelledEach(sp, segs)
           n == Len(segs)
<1>1. DOMAIN segs = 1 .. n /\ n \in Nat
  BY LenProperties DEF Texts
<1>2. ASSUME NEW i \in 1 .. n PROVE Spelled(sp, segs[i]) \in Text
  <2>1. segs[i] \in Text
    BY ElementOfSeq DEF Texts
  <2> QED
    BY <2>1, SpelledProperties
<1>3. e \in [1 .. n -> Text]
  BY <1>1, <1>2 DEF SpelledEach
<1> HIDE DEF e, n
<1>4. e \in Seq(Text)
  BY <1>1, <1>3, SeqDef
<1>5. Len(e) = n
  <2> DEFINE l == Len(e)
  <2>1. DOMAIN e = 1 .. l /\ l \in Nat
    BY <1>4, LenProperties
  <2> HIDE DEF l
  <2>2. l = n
    BY <1>1, <1>3, <2>1
  <2> QED
    BY <2>2 DEF l
<1> QED
  BY <1>4, <1>5 DEF e, n, Texts

LEMMA SpelledEachProperties ==
  ASSUME NEW sp \in Spellings
  PROVE  /\ SpelledEach(sp, <<>>) = <<>>
         /\ \A segs \in Texts, seg \in Text :
              SpelledEach(sp, Append(segs, seg)) = Append(SpelledEach(sp, segs), Spelled(sp, seg))
<1>1. SpelledEach(sp, <<>>) = <<>>
  BY EmptySeq DEF SpelledEach
<1>2. ASSUME NEW segs \in Texts, NEW seg \in Text
      PROVE  SpelledEach(sp, Append(segs, seg)) = Append(SpelledEach(sp, segs), Spelled(sp, seg))
  <2> DEFINE more == Append(segs, seg)
             n == Len(segs)
             e == SpelledEach(sp, segs)
             a == Append(e, Spelled(sp, seg))
             b == SpelledEach(sp, more)
  <2>1. /\ more \in Texts /\ Len(more) = n + 1 /\ n \in Nat /\ more[n + 1] = seg
        /\ \A i \in 1 .. n : more[i] = segs[i]
    BY OneMore DEF Texts
  <2> HIDE DEF more
  <2>2. DOMAIN more = 1 .. n + 1 /\ DOMAIN segs = 1 .. n
    <3>1. DOMAIN more = 1 .. Len(more) /\ DOMAIN segs = 1 .. Len(segs)
      BY <2>1, LenProperties DEF Texts
    <3> QED
      BY <2>1, <3>1
  <2>3. b[n + 1] = Spelled(sp, seg) /\ \A i \in 1 .. n : b[i] = e[i]
    <3>1. n + 1 \in 1 .. n + 1 /\ \A i \in 1 .. n : i \in 1 .. n + 1
      BY <2>1
    <3> QED
      BY <2>1, <2>2, <3>1 DEF SpelledEach
  <2>4. b \in Seq(Text) /\ Len(b) = n + 1 /\ e \in Seq(Text) /\ Len(e) = n
    BY <2>1, SpelledEachType DEF Texts
  <2>5. Spelled(sp, seg) \in Text
    BY SpelledProperties
  <2> HIDE DEF b, e, n
  <2>6. /\ a \in Seq(Text) /\ Len(a) = n + 1 /\ a[n + 1] = Spelled(sp, seg)
        /\ \A i \in 1 .. n : a[i] = e[i]
    <3>1. /\ a \in Seq(Text) /\ Len(a) = Len(e) + 1 /\ a[Len(e) + 1] = Spelled(sp, seg)
          /\ \A i \in 1 .. Len(e) : a[i] = e[i]
      BY <2>4, <2>5, OneMore
    <3> HIDE DEF a
    <3> QED
      BY <2>4, <3>1
  <2> HIDE DEF a
  <2>7. \A i \in 1 .. Len(a) : a[i] = b[i]
    BY <2>1, <2>3, <2>6
  <2>8. a = b
    BY <2>4, <2>6, <2>7, SeqEqual
  <2> QED
    BY <2>8 DEF a, b, e, more
<1> QED
  BY <1>1, <1>2

\* The segments of one more character, and of a text without slashes.
LEMMA SegmentMore ==
  ASSUME NEW segs \in Texts, NEW seg \in Text, NEW ch \in Chars
  PROVE  SegmentStep(Append(segs, seg), ch) =
           IF ch = "/" THEN Append(Append(segs, seg), <<>>) ELSE Append(segs, Append(seg, ch))
<1> DEFINE more == Append(segs, seg)
           n == Len(segs)
           last == Append(seg, ch)
           a == Append(segs, last)
           b == [more EXCEPT ![n + 1] = last]
<1>1. /\ more \in Seq(Text) /\ Len(more) = n + 1 /\ n \in Nat /\ more[n + 1] = seg
      /\ \A i \in 1 .. n : more[i] = segs[i]
  BY OneMore DEF Texts
<1>2. last \in Text /\ segs \in Seq(Text)
  BY OneMoreChar DEF Texts
<1> HIDE DEF last
<1>3. /\ a \in Seq(Text) /\ Len(a) = n + 1 /\ a[n + 1] = last
      /\ \A i \in 1 .. n : a[i] = segs[i]
  BY <1>2, OneMore
<1> HIDE DEF more, a, n
<1>4. b \in Seq(Text) /\ Len(b) = n + 1 /\ b[n + 1] = last /\ \A i \in 1 .. n : b[i] = more[i]
  <2>1. n + 1 \in 1 .. Len(more)
    BY <1>1
  <2>2. b \in Seq(Text) /\ Len(b) = Len(more)
    BY <1>1, <1>2, <2>1, ExceptSeq
  <2>3. DOMAIN more = 1 .. n + 1
    BY <1>1, LenProperties
  <2>4. b[n + 1] = last /\ \A i \in 1 .. n : b[i] = more[i]
    BY <1>1, <2>3
  <2> QED
    BY <1>1, <2>2, <2>4
<1> HIDE DEF b
<1>5. \A i \in 1 .. Len(a) : a[i] = b[i]
  BY <1>1, <1>3, <1>4
<1>6. a = b
  BY <1>3, <1>4, <1>5, SeqEqual
<1>7. ch # "/" => SegmentStep(more, ch) = b
  BY <1>1 DEF SegmentStep, b, last
<1>8. ch = "/" => SegmentStep(more, ch) = Append(more, <<>>)
  BY DEF SegmentStep
<1> QED
  BY <1>6, <1>7, <1>8 DEF a, more, last

\* A text without slashes; the last segment of s is seg.
Slashless(t) == \A i \in 1 .. Len(t) : t[i] # "/"
EndsIn(s, segs, seg) == Segments(s) = Append(segs, seg)

LEMMA SegmentsJoin ==
  ASSUME NEW s \in Text, NEW segs \in Texts, NEW seg \in Text, EndsIn(s, segs, seg),
         NEW t \in Text, Slashless(t)
  PROVE  EndsIn(s \o t, segs, seg \o t)
<1> DEFINE P == {u \in Text : Slashless(u) => Segments(s \o u) = Append(segs, seg \o u)}
<1>1. <<>> \in P
  BY TextConcat DEF EndsIn
<1>2. ASSUME NEW u \in Seq(Chars), NEW ch \in Chars, u \in P PROVE Append(u, ch) \in P
  <2> DEFINE more == Append(u, ch)
             su == s \o u
  <2>1. u \in Text
    BY DEF Text
  <2>2. /\ more \in Text /\ Len(more) = Len(u) + 1 /\ Len(u) \in Nat /\ more[Len(u) + 1] = ch
        /\ \A i \in 1 .. Len(u) : more[i] = u[i]
    BY <2>1, OneMoreChar
  <2>3. s \o more = Append(su, ch) /\ su \in Text
    BY <2>1, TextConcat
  <2>4. seg \o more = Append(seg \o u, ch) /\ seg \o u \in Text
    BY <2>1, TextConcat
  <2> HIDE DEF more
  <2>5. ASSUME Slashless(more)
        PROVE  Segments(s \o more) = Append(segs, seg \o more)
    <3>1. ch # "/" /\ Slashless(u)
      BY <2>2, <2>5 DEF Slashless
    <3>2. Segments(su) = Append(segs, seg \o u)
      BY <1>2, <3>1
    <3> HIDE DEF su
    <3>3. Segments(Append(su, ch)) = SegmentStep(Segments(su), ch)
      BY <2>3, SegmentsProperties
    <3>4. SegmentStep(Append(segs, seg \o u), ch) = Append(segs, Append(seg \o u, ch))
      BY <2>4, <3>1, SegmentMore
    <3> QED
      BY <2>3, <2>4, <3>2, <3>3, <3>4
  <2>6. more \in P
    BY <2>2, <2>5
  <2> QED
    BY <2>6 DEF more
<1>3. \A u \in Seq(Chars) : u \in P
  <2> HIDE DEF P
  <2> QED
    BY <1>1, <1>2, SeqSetInduction
<1>4. t \in P
  BY <1>3 DEF Text
<1> QED
  BY <1>4 DEF EndsIn

\* A slash is written as it is, and no other character with one.
LEMMA SlashSpelled ==
  ASSUME NEW sp \in Spellings, KeepsNames(sp)
  PROVE  /\ sp["/"] = <<"/">>
         /\ \A ch \in Chars : ch # "/" => \A i \in 1 .. Len(sp[ch]) : sp[ch][i] # "/"
<1>1. sp["/"] = <<"/">>
  BY DEF KeepsNames
<1>2. ASSUME NEW ch \in Chars, ch # "/"
      PROVE  \A i \in 1 .. Len(sp[ch]) : sp[ch][i] # "/"
  <2> DEFINE e == sp[ch]
  <2>1. e = <<ch>> \/ IsEscapeOf(e, ch)
    BY SpelledChar
  <2> HIDE DEF e
  <2>2. CASE IsEscapeOf(e, ch)
    <3>1. Len(e) = 3 /\ e[1] = "%" /\ IsHex(e[2]) /\ IsHex(e[3])
      BY <2>2 DEF IsEscapeOf
    <3>2. e[2] # "/" /\ e[3] # "/"
      BY <3>1, HexFacts
    <3>3. \A i \in 1 .. 3 : i = 1 \/ i = 2 \/ i = 3
      OBVIOUS
    <3> QED
      BY <3>1, <3>2, <3>3 DEF e
  <2>3. CASE e = <<ch>>
    <3>1. Len(<<ch>>) = 1 /\ <<ch>>[1] = ch
      OBVIOUS
    <3>2. \A i \in 1 .. 1 : i = 1
      OBVIOUS
    <3> QED
      BY <1>2, <2>3, <3>1, <3>2 DEF e
  <2> QED
    BY <2>1, <2>2, <2>3
<1> QED
  BY <1>1, <1>2

\* Spelling does not move the slashes.
LEMMA SegmentsSpelled ==
  ASSUME NEW sp \in Spellings, Unambiguous(sp), KeepsNames(sp),
         NEW p \in Text
  PROVE  Segments(Spelled(sp, p)) = SpelledEach(sp, Segments(p))
<1> DEFINE P == {u \in Text : Segments(Spelled(sp, u)) = SpelledEach(sp, Segments(u))}
<1>1. <<>> \in P
  <2>1. Append(<<>>, <<>>) = << <<>> >> /\ <<>> \in Texts /\ <<>> \in Text
    BY EmptySeq DEF Texts, Text
  <2>2. SpelledEach(sp, Append(<<>>, <<>>)) = Append(SpelledEach(sp, <<>>), Spelled(sp, <<>>))
    BY <2>1, SpelledEachProperties
  <2> QED
    BY <2>1, <2>2, SpelledEachProperties, SpelledProperties, SegmentsProperties
<1>2. ASSUME NEW u \in Seq(Chars), NEW ch \in Chars, u \in P PROVE Append(u, ch) \in P
  <2> DEFINE more == Append(u, ch)
             e == sp[ch]
             eu == Spelled(sp, u)
  <2>1. u \in Text
    BY DEF Text
  <2>2. PICK segs \in Texts, seg \in Text : Segments(u) = Append(segs, seg)
    <3>1. Segments(u) \in Seq(Text) /\ Segments(u) # <<>>
      BY <2>1, SegmentsProperties DEF NonEmpty
    <3> QED
      BY <3>1, Shorter DEF Texts
  <2> DEFINE esegs == SpelledEach(sp, segs)
             eseg == Spelled(sp, seg)
  <2>3. esegs \in Texts /\ eseg \in Text /\ eu \in Text /\ e \in Text /\ more \in Text
    BY <2>1, SpelledEachType, SpelledProperties, SpelledChar, OneMoreChar
  <2>4. Spelled(sp, more) = eu \o e
    BY <2>1, SpelledProperties
  <2>5. Segments(eu) = Append(esegs, eseg)
    BY <1>2, <2>2, SpelledEachProperties
  <2>6. Segments(more) = SegmentStep(Append(segs, seg), ch)
    BY <2>1, <2>2, SegmentsProperties
  <2>7. Spelled(sp, Append(seg, ch)) = eseg \o e /\ Append(seg, ch) \in Text
    BY SpelledProperties, OneMoreChar
  <2> HIDE DEF more, eu, esegs, eseg, e
  <2>8. CASE ch # "/"
    <3>1. Slashless(e)
      BY <2>8, SlashSpelled DEF e, Slashless
    <3>2. Segments(eu \o e) = Append(esegs, eseg \o e)
      <4>1. eu \in Text
        BY <2>3
      <4>2. esegs \in Texts
        BY <2>3
      <4>3. eseg \in Text
        BY <2>3
      <4>4. e \in Text
        BY <2>3
      <4>5. EndsIn(eu, esegs, eseg)
        BY <2>5 DEF EndsIn
      <4>6. EndsIn(eu \o e, esegs, eseg \o e)
        BY <3>1, <4>1, <4>2, <4>3, <4>4, <4>5, SegmentsJoin
      <4> QED
        BY <4>6 DEF EndsIn
    <3>3. Segments(more) = Append(segs, Append(seg, ch))
      BY <2>6, <2>8, SegmentMore
    <3>4. SpelledEach(sp, Append(segs, Append(seg, ch))) = Append(esegs, eseg \o e)
      BY <2>7, SpelledEachProperties DEF esegs
    <3>5. more \in P
      BY <2>3, <2>4, <3>2, <3>3, <3>4
    <3> QED
      BY <3>5 DEF more
  <2>9. CASE ch = "/"
    <3>1. e = <<"/">> /\ "/" \in Chars
      BY <2>9, SlashSpelled, CharFacts DEF e
    <3>2. eu \o e = Append(eu, "/")
      BY <2>3, <3>1, AppendIsConcat DEF Text
    <3>3. Segments(eu \o e) = SegmentStep(Append(esegs, eseg), "/")
      BY <2>3, <2>5, <3>1, <3>2, SegmentsProperties
    <3>4. Segments(eu \o e) = Append(Append(esegs, eseg), <<>>)
      BY <2>3, <3>1, <3>3, SegmentMore
    <3>5. Segments(more) = Append(Append(segs, seg), <<>>)
      BY <2>6, <2>9, SegmentMore
    <3>6. Append(segs, seg) \in Texts /\ <<>> \in Text
      BY AppendProperties, TextConcat DEF Texts
    <3>7. SpelledEach(sp, Append(Append(segs, seg), <<>>)) = Append(Append(esegs, eseg), <<>>)
      <4>1. SpelledEach(sp, Append(segs, seg)) = Append(esegs, eseg)
        BY SpelledEachProperties DEF esegs, eseg
      <4> DEFINE a == Append(segs, seg)
      <4>2. a \in Texts /\ <<>> \in Text
        BY <3>6
      <4> HIDE DEF a
      <4>3. SpelledEach(sp, Append(a, <<>>)) = Append(SpelledEach(sp, a), Spelled(sp, <<>>))
        BY <4>2, SpelledEachProperties
      <4>4. Spelled(sp, <<>>) = <<>>
        BY SpelledProperties
      <4> QED
        BY <4>1, <4>3, <4>4 DEF a
    <3>8. more \in P
      BY <2>3, <2>4, <3>4, <3>5, <3>7
    <3> QED
      BY <3>8 DEF more
  <2> QED
    BY <2>8, <2>9
<1>3. \A u \in Seq(Chars) : u \in P
  <2> HIDE DEF P
  <2> QED
    BY <1>1, <1>2, SeqSetInduction
<1>4. p \in P
  BY <1>3 DEF Text
<1> QED
  BY <1>4

\* The segments with a meaning of their own are written as they are.
LEMMA DotsSpelled ==
  ASSUME NEW sp \in Spellings, Unambiguous(sp), KeepsNames(sp),
         NEW seg \in Text
  PROVE  /\ Spelled(sp, seg) = <<>> <=> seg = <<>>
         /\ Spelled(sp, seg) = Dot <=> seg = Dot
         /\ Spelled(sp, seg) = DotDot <=> seg = DotDot
<1>1. "." \in Chars
  BY CharsAssumption
<1>2. sp["."] = <<".">>
  BY DEF KeepsNames
<1>3. <<>> \in Text /\ Dot \in Text /\ DotDot \in Text
  <2>1. Dot \in Seq(Chars)
    BY <1>1 DEF Dot
  <2>2. DotDot \in Seq(Chars)
    BY <1>1 DEF DotDot
  <2> QED
    BY <2>1, <2>2, TextConcat DEF Text
<1>4. Spelled(sp, <<>>) = <<>>
  BY SpelledProperties
<1>5. Spelled(sp, Dot) = Dot
  BY <1>1, <1>2, SpelledOne DEF Dot
<1>6. Spelled(sp, DotDot) = DotDot
  <2>1. Append(Dot, ".") = DotDot
    <3> DEFINE a == Append(Dot, ".")
    <3>1. Len(Dot) = 1 /\ Dot[1] = "."
      BY DEF Dot
    <3>2. Len(DotDot) = 2 /\ DotDot[1] = "." /\ DotDot[2] = "."
      BY DEF DotDot
    <3>3. /\ a \in Text /\ Len(a) = Len(Dot) + 1 /\ a[Len(Dot) + 1] = "."
          /\ \A i \in 1 .. Len(Dot) : a[i] = Dot[i]
      BY <1>1, <1>3, OneMoreChar
    <3> HIDE DEF a
    <3>4. Len(a) = 2 /\ a[2] = "." /\ a[1] = "."
      BY <3>1, <3>3
    <3>5. \A i \in 1 .. Len(a) : a[i] = DotDot[i]
      BY <3>2, <3>4
    <3>6. a = DotDot
      BY <1>3, <3>2, <3>3, <3>4, <3>5, SeqEqual DEF Text
    <3> QED
      BY <3>6 DEF a
  <2>2. Dot \o <<".">> = Append(Dot, ".")
    BY <1>1, <1>3, AppendIsConcat DEF Text
  <2>3. Spelled(sp, Append(Dot, ".")) = Spelled(sp, Dot) \o sp["."]
    BY <1>1, <1>3, SpelledProperties
  <2> QED
    BY <1>2, <1>5, <2>1, <2>2, <2>3
<1> QED
  BY <1>3, <1>4, <1>5, <1>6, SpelledInjective

LEMMA RootedSpelled ==
  ASSUME NEW sp \in Spellings, Unambiguous(sp), KeepsNames(sp),
         NEW p \in Text
  PROVE  IsRooted(Spelled(sp, p)) <=> IsRooted(p)
<1>1. CASE p = <<>>
  BY <1>1, SpelledProperties DEF IsRooted
<1>2. CASE p # <<>>
  <2>1. p[1] \in Chars /\ Spelled(sp, p) # <<>> /\ Spelled(sp, p)[1] = sp[p[1]][1]
    BY <1>2, SpelledFirst
  <2>2. sp[p[1]][1] = "/" <=> p[1] = "/"
    <3> DEFINE e == sp[p[1]]
    <3>1. p[1] = "/" => e = <<"/">> /\ <<"/">>[1] = "/"
      BY SlashSpelled
    <3>2. 1 \in 1 .. Len(e)
      <4>1. e \in Text /\ e # <<>>
        BY <2>1, SpelledChar
      <4> HIDE DEF e
      <4> QED
        BY <4>1, EmptySeq, TextConcat DEF Text
    <3>3. p[1] # "/" => e[1] # "/"
      BY <2>1, <3>2, SlashSpelled
    <3> QED
      BY <3>1, <3>3
  <2> QED
    BY <1>2, <2>1, <2>2 DEF IsRooted
<1> QED
  BY <1>1, <1>2

LEMMA DownSpelled ==
  ASSUME NEW sp \in Spellings, Unambiguous(sp), KeepsNames(sp),
         NEW stack \in Texts
  PROVE  /\ SpelledEach(sp, stack) = <<>> <=> stack = <<>>
         /\ IsDown(SpelledEach(sp, stack)) <=> IsDown(stack)
         /\ stack # <<>> => /\ Front(stack) \in Texts /\ Last(stack) \in Text
                            /\ Front(SpelledEach(sp, stack)) = SpelledEach(sp, Front(stack))
                            /\ Last(SpelledEach(sp, stack)) = Spelled(sp, Last(stack))
<1>1. CASE stack = <<>>
  BY <1>1, SpelledEachProperties DEF IsDown
<1>2. CASE stack # <<>>
  <2>1. PICK t \in Texts, c \in Text : stack = Append(t, c)
    BY <1>2, Shorter DEF Texts
  <2> DEFINE e == SpelledEach(sp, t)
             ec == Spelled(sp, c)
  <2>2. e \in Texts /\ ec \in Text
    BY SpelledEachType, SpelledProperties
  <2>3. SpelledEach(sp, stack) = Append(e, ec)
    BY <2>1, SpelledEachProperties
  <2> HIDE DEF e, ec
  <2>4. Front(stack) = t /\ Last(stack) = c
    BY <2>1, FrontAndLast DEF Texts
  <2>5. Front(SpelledEach(sp, stack)) = e /\ Last(SpelledEach(sp, stack)) = ec /\ SpelledEach(sp, stack) # <<>>
    BY <2>2, <2>3, FrontAndLast DEF Texts
  <2>6. ec = DotDot <=> c = DotDot
    BY DotsSpelled DEF ec
  <2> QED
    BY <1>2, <2>4, <2>5, <2>6 DEF IsDown, e, ec
<1> QED
  BY <1>1, <1>2

\* One more segment on the way that a path leads.
Follow(path, stack, seg) ==
  CASE seg \in {<<>>, Dot} -> stack
    [] seg = DotDot /\ IsDown(stack) -> Front(stack)
    [] seg = DotDot /\ ~IsDown(stack) -> IF IsRooted(path) THEN stack ELSE Append(stack, seg)
    [] OTHER -> Append(stack, seg)

FollowStep(path) == [x \in Texts \X Text |-> Follow(path, x[1], x[2])]
Followed(path) == Loop(Texts, Text, <<>>, FollowStep(path))

LEMMA FollowType ==
  ASSUME NEW path, NEW stack \in Texts, NEW seg \in Text
  PROVE  Follow(path, stack, seg) \in Texts
<1>1. Append(stack, seg) \in Texts
  BY AppendProperties DEF Texts
<1>2. IsDown(stack) => Front(stack) \in Texts
  <2>1. ASSUME stack # <<>> PROVE Front(stack) \in Texts
    <3>1. PICK t \in Texts, c \in Text : stack = Append(t, c)
      BY <2>1, Shorter DEF Texts
    <3> QED
      BY <3>1, FrontAndLast DEF Texts
  <2> QED
    BY <2>1 DEF IsDown
<1> QED
  BY <1>1, <1>2 DEF Follow

LEMMA FollowedProperties ==
  ASSUME NEW path
  PROVE  /\ Followed(path)[<<>>] = <<>>
         /\ \A segs \in Texts : Followed(path)[segs] \in Texts
         /\ \A segs \in Texts, seg \in Text :
              Followed(path)[Append(segs, seg)] = Follow(path, Followed(path)[segs], seg)
<1>1. <<>> \in Texts /\ FollowStep(path) \in [Texts \X Text -> Texts]
  BY FollowType, EmptySeq DEF FollowStep, Texts
<1>2. Followed(path) \in [Texts -> Texts] /\ IsLoop(Followed(path), Text, <<>>, FollowStep(path))
  BY <1>1, LoopProperties DEF Texts, Followed
<1>3. Followed(path)[<<>>] = <<>>
  BY <1>2 DEF IsLoop
<1>4. ASSUME NEW segs \in Texts, NEW seg \in Text
      PROVE  Followed(path)[Append(segs, seg)] = Follow(path, Followed(path)[segs], seg)
  <2>1. Followed(path)[segs] \in Texts
    BY <1>2
  <2>2. Followed(path)[Append(segs, seg)] = FollowStep(path)[<<Followed(path)[segs], seg>>]
    BY <1>2 DEF IsLoop, Texts
  <2> QED
    BY <2>1, <2>2 DEF FollowStep
<1> QED
  BY <1>2, <1>3, <1>4

LEMMA ResolvedIs ==
  ASSUME NEW path \in Text
  PROVE  Resolved(path) = Followed(path)[Segments(path)]
<1> DEFINE s == Segments(path)
           D == DOMAIN s
           rec(it) == it = [S \in SUBSET D |->
             IF S = {} THEN <<>> ELSE Follow(path, it[S \ {Max(S)}], s[Max(S)])]
           fold == CHOOSE it : rec(it)
           step == FollowStep(path)
<1>1. Resolved(path) = fold[D]
  BY DEF Resolved, FoldLeft, MapThenFoldSet, Follow
<1>2. <<>> \in Texts /\ step \in [Texts \X Text -> Texts]
  BY FollowType, EmptySeq DEF FollowStep, Texts
<1>3. s \in Seq(Text)
  BY SegmentsProperties DEF NonEmpty
<1> HIDE DEF s
<1>4. PICK h : FoldsSeq(h, Texts, Text, s, <<>>, step)
  <2> HIDE DEF step
  <2> QED
    BY <1>2, <1>3, SeqFoldExists
<1>5. rec(h)
  BY <1>4 DEF FoldsSeq, FollowStep
<1>6. rec(fold)
  <2> HIDE DEF rec
  <2> QED
    BY <1>5
<1>7. FoldsBy(fold, Texts, s, <<>>, step)
  <2> HIDE DEF fold
  <2>1. fold[{}] = <<>>
    BY <1>6
  <2>2. ASSUME NEW i \in 1 .. Len(s), fold[1 .. i - 1] \in Texts
        PROVE  fold[1 .. i] = step[<<fold[1 .. i - 1], s[i]>>]
    <3>1. /\ 1 .. i \in SUBSET (1 .. Len(s)) /\ 1 .. i # {} /\ s[i] \in Text
          /\ Max(1 .. i) = i /\ (1 .. i) \ {i} = 1 .. i - 1 /\ DOMAIN s = 1 .. Len(s)
      BY <1>3, LenProperties, InitialSegment, ElementOfSeq
    <3>2. fold[1 .. i] = Follow(path, fold[1 .. i - 1], s[i])
      BY <1>6, <3>1
    <3> QED
      BY <2>2, <3>1, <3>2 DEF FollowStep
  <2> QED
    BY <2>1, <2>2 DEF FoldsBy
<1>8. FoldsTo(fold, s, Followed(path))
  <2> HIDE DEF fold, step
  <2> QED
    BY <1>2, <1>3, <1>7, FoldIsLoop DEF Followed, step
<1>9. D = 1 .. Len(s)
  BY <1>3, LenProperties
<1> QED
  BY <1>1, <1>8, <1>9, Zenon DEF FoldsTo, s

LEMMA FollowSpelled ==
  ASSUME NEW sp \in Spellings, Unambiguous(sp), KeepsNames(sp),
         NEW p \in Text, NEW stack \in Texts, NEW seg \in Text
  PROVE  Follow(Spelled(sp, p), SpelledEach(sp, stack), Spelled(sp, seg)) = SpelledEach(sp, Follow(p, stack, seg))
<1> DEFINE e == SpelledEach(sp, stack)
           es == Spelled(sp, seg)
<1>1. /\ es = <<>> <=> seg = <<>>
      /\ es = Dot <=> seg = Dot
      /\ es = DotDot <=> seg = DotDot
  BY DotsSpelled
<1>2. IsDown(e) <=> IsDown(stack)
  BY DownSpelled
<1>3. IsDown(stack) => Front(e) = SpelledEach(sp, Front(stack))
  BY DownSpelled DEF IsDown
<1>4. SpelledEach(sp, Append(stack, seg)) = Append(e, es)
  BY SpelledEachProperties
<1>5. IsRooted(Spelled(sp, p)) <=> IsRooted(p)
  BY RootedSpelled
<1>6. SpelledEach(sp, stack) = e
  OBVIOUS
<1> HIDE DEF e, es
<1>7. CASE seg \in {<<>>, Dot}
  <2>1. seg # DotDot
    <3>1. Len(DotDot) = 2 /\ Len(Dot) = 1 /\ Len(<<>>) = 0
      BY DEF Dot, DotDot
    <3> QED
      BY <1>7, <3>1
  <2>2. Follow(p, stack, seg) = stack
    BY <1>7, <2>1 DEF Follow
  <2>3. Follow(Spelled(sp, p), e, es) = e
    BY <1>1, <1>7, <2>1 DEF Follow
  <2> QED
    BY <1>6, <2>2, <2>3 DEF es
<1>8. CASE seg \notin {<<>>, Dot} /\ seg = DotDot
  <2>1. Follow(p, stack, seg) = IF IsDown(stack) THEN Front(stack)
                                ELSE IF IsRooted(p) THEN stack ELSE Append(stack, seg)
    BY <1>8 DEF Follow
  <2>2. Follow(Spelled(sp, p), e, es) = IF IsDown(e) THEN Front(e)
                                    ELSE IF IsRooted(Spelled(sp, p)) THEN e ELSE Append(e, es)
    BY <1>1, <1>8 DEF Follow
  <2> QED
    BY <1>2, <1>3, <1>4, <1>5, <1>6, <2>1, <2>2 DEF es
<1>9. CASE seg \notin {<<>>, Dot} /\ seg # DotDot
  <2>1. Follow(p, stack, seg) = Append(stack, seg)
    BY <1>9 DEF Follow
  <2>2. Follow(Spelled(sp, p), e, es) = Append(e, es)
    BY <1>1, <1>9 DEF Follow
  <2> QED
    BY <1>4, <1>6, <2>1, <2>2 DEF es
<1> QED
  BY <1>7, <1>8, <1>9

LEMMA ResolvedType ==
  ASSUME NEW p \in Text
  PROVE  Resolved(p) \in Texts
<1>1. Segments(p) \in Texts
  BY SegmentsProperties DEF NonEmpty, Texts
<1> QED
  BY <1>1, ResolvedIs, FollowedProperties

\* The names that a spelled path leads through.
LEMMA ResolvedSpelled ==
  ASSUME NEW sp \in Spellings, Unambiguous(sp), KeepsNames(sp),
         NEW p \in Text
  PROVE  Resolved(Spelled(sp, p)) = SpelledEach(sp, Resolved(p))
<1> DEFINE e == Spelled(sp, p)
           P == {segs \in Texts : Followed(e)[SpelledEach(sp, segs)] = SpelledEach(sp, Followed(p)[segs])}
<1>1. <<>> \in P
  <2>1. <<>> \in Texts
    BY EmptySeq DEF Texts
  <2> QED
    BY <2>1, FollowedProperties, SpelledEachProperties
<1>2. ASSUME NEW segs \in Seq(Text), NEW seg \in Text, segs \in P PROVE Append(segs, seg) \in P
  <2> DEFINE es == SpelledEach(sp, segs)
             x == Spelled(sp, seg)
             stack == Followed(p)[segs]
  <2>1. /\ segs \in Texts /\ es \in Texts /\ x \in Text /\ stack \in Texts
        /\ Append(segs, seg) \in Texts
    BY SpelledEachType, SpelledProperties, FollowedProperties, AppendProperties DEF Texts
  <2>2. SpelledEach(sp, Append(segs, seg)) = Append(es, x)
    BY <2>1, SpelledEachProperties
  <2>3. Followed(e)[es] = SpelledEach(sp, stack)
    BY <1>2
  <2>4. Followed(p)[Append(segs, seg)] = Follow(p, stack, seg)
    BY <2>1, FollowedProperties
  <2> HIDE DEF es, stack
  <2>5. Followed(e)[Append(es, x)] = Follow(e, Followed(e)[es], x)
    BY <2>1, FollowedProperties
  <2>6. Follow(e, SpelledEach(sp, stack), x) = SpelledEach(sp, Follow(p, stack, seg))
    BY <2>1, FollowSpelled
  <2> HIDE DEF e, x
  <2>7. Followed(e)[SpelledEach(sp, Append(segs, seg))] = SpelledEach(sp, Followed(p)[Append(segs, seg)])
    BY <2>2, <2>3, <2>4, <2>5, <2>6
  <2> QED
    BY <2>1, <2>7
<1>3. \A segs \in Seq(Text) : segs \in P
  <2> HIDE DEF P
  <2> QED
    BY <1>1, <1>2, SeqSetInduction
<1>4. e \in Text /\ Segments(p) \in Texts
  BY SpelledProperties, SegmentsProperties DEF NonEmpty, Texts
<1>5. Resolved(p) = Followed(p)[Segments(p)]
  BY ResolvedIs
<1>6. Resolved(e) = Followed(e)[Segments(e)]
  BY <1>4, ResolvedIs
<1>7. Segments(e) = SpelledEach(sp, Segments(p))
  BY SegmentsSpelled
<1>8. Followed(e)[SpelledEach(sp, Segments(p))] = SpelledEach(sp, Followed(p)[Segments(p)])
  BY <1>3, <1>4 DEF Texts
<1> QED
  BY <1>5, <1>6, <1>7, <1>8

\* Names joined by slashes.
JoinedWith(text, name) == IF text = <<>> THEN name ELSE text \o <<"/">> \o name
JoinStep == [x \in Text \X Text |-> JoinedWith(x[1], x[2])]

LEMMA JoinedWithType ==
  ASSUME NEW text \in Text, NEW name \in Text
  PROVE  JoinedWith(text, name) \in Text
<1>1. <<"/">> \in Text
  BY CharFacts, OneElement DEF Text
<1>2. text \o <<"/">> \in Text
  BY <1>1, TextConcat
<1>3. (text \o <<"/">>) \o name \in Text
  BY <1>2, TextConcat
<1> QED
  BY <1>3 DEF JoinedWith

LEMMA JoinedProperties ==
  /\ Joined(<<>>) = <<>>
  /\ \A names \in Texts : Joined(names) \in Text
  /\ \A names \in Texts, name \in Text :
       Joined(Append(names, name)) = JoinedWith(Joined(names), name)
<1> DEFINE F == Loop(Text, Text, <<>>, JoinStep)
<1>1. <<>> \in Text /\ JoinStep \in [Text \X Text -> Text]
  BY JoinedWithType, TextConcat DEF JoinStep
<1>2. ASSUME NEW s \in Texts PROVE Joined(s) = F[s]
  <2> DEFINE D == DOMAIN s
             rec(it) == it = [S \in SUBSET D |->
               IF S = {} THEN <<>> ELSE JoinedWith(it[S \ {Max(S)}], s[Max(S)])]
             fold == CHOOSE it : rec(it)
  <2>1. Joined(s) = fold[D]
    BY DEF Joined, FoldLeft, MapThenFoldSet, JoinedWith
  <2>2. PICK h : FoldsSeq(h, Text, Text, s, <<>>, JoinStep)
    BY <1>1, SeqFoldExists DEF Texts
  <2>3. rec(h)
    BY <2>2 DEF FoldsSeq, JoinStep
  <2>4. rec(fold)
    <3> HIDE DEF rec
    <3> QED
      BY <2>3
  <2>5. FoldsBy(fold, Text, s, <<>>, JoinStep)
    <3> HIDE DEF fold
    <3>1. fold[{}] = <<>>
      BY <2>4
    <3>2. ASSUME NEW i \in 1 .. Len(s), fold[1 .. i - 1] \in Text
          PROVE  fold[1 .. i] = JoinStep[<<fold[1 .. i - 1], s[i]>>]
      <4>1. /\ 1 .. i \in SUBSET (1 .. Len(s)) /\ 1 .. i # {} /\ s[i] \in Text
            /\ Max(1 .. i) = i /\ (1 .. i) \ {i} = 1 .. i - 1 /\ DOMAIN s = 1 .. Len(s)
        BY LenProperties, InitialSegment, ElementOfSeq DEF Texts
      <4>2. fold[1 .. i] = JoinedWith(fold[1 .. i - 1], s[i])
        BY <2>4, <4>1
      <4> QED
        BY <3>2, <4>1, <4>2 DEF JoinStep
    <3> QED
      BY <3>1, <3>2 DEF FoldsBy
  <2>6. FoldsTo(fold, s, F)
    <3> HIDE DEF fold
    <3> QED
      BY <1>1, <2>5, FoldIsLoop DEF Texts
  <2>7. D = 1 .. Len(s)
    BY LenProperties DEF Texts
  <2> QED
    BY <2>1, <2>6, <2>7, Zenon DEF FoldsTo
<1>3. F \in [Texts -> Text] /\ IsLoop(F, Text, <<>>, JoinStep)
  BY <1>1, LoopProperties DEF Texts
<1> HIDE DEF F
<1>4. Joined(<<>>) = <<>>
  <2>1. <<>> \in Texts
    BY EmptySeq DEF Texts
  <2> QED
    BY <1>2, <1>3, <2>1 DEF IsLoop
<1>5. ASSUME NEW names \in Texts, NEW name \in Text
      PROVE  Joined(Append(names, name)) = JoinedWith(Joined(names), name)
  <2>1. Append(names, name) \in Texts
    BY AppendProperties DEF Texts
  <2>2. F[names] \in Text /\ F[Append(names, name)] = JoinStep[<<F[names], name>>]
    BY <1>3 DEF IsLoop, Texts
  <2>3. JoinStep[<<F[names], name>>] = JoinedWith(F[names], name)
    BY <2>2 DEF JoinStep
  <2> QED
    BY <1>2, <2>1, <2>2, <2>3
<1> QED
  BY <1>2, <1>3, <1>4, <1>5

LEMMA JoinedSpelled ==
  ASSUME NEW sp \in Spellings, Unambiguous(sp), KeepsNames(sp),
         NEW names \in Texts
  PROVE  Joined(SpelledEach(sp, names)) = Spelled(sp, Joined(names))
<1> DEFINE P == {s \in Texts : Joined(SpelledEach(sp, s)) = Spelled(sp, Joined(s))}
<1>1. <<>> \in P
  <2>1. <<>> \in Texts
    BY EmptySeq DEF Texts
  <2> QED
    BY <2>1, JoinedProperties, SpelledEachProperties, SpelledProperties
<1>2. ASSUME NEW s \in Seq(Text), NEW name \in Text, s \in P PROVE Append(s, name) \in P
  <2> DEFINE es == SpelledEach(sp, s)
             x == Spelled(sp, name)
             j == Joined(s)
             slash == <<"/">>
  <2>1. /\ s \in Texts /\ es \in Texts /\ x \in Text /\ j \in Text /\ Append(s, name) \in Texts
    BY SpelledEachType, SpelledProperties, JoinedProperties, AppendProperties DEF Texts
  <2>2. SpelledEach(sp, Append(s, name)) = Append(es, x)
    BY <2>1, SpelledEachProperties
  <2>3. Joined(es) = Spelled(sp, j)
    BY <1>2
  <2>4. Joined(Append(s, name)) = JoinedWith(j, name)
    BY <2>1, JoinedProperties
  <2> HIDE DEF es
  <2>5. Joined(Append(es, x)) = JoinedWith(Spelled(sp, j), x)
    BY <2>1, <2>3, JoinedProperties
  <2>6. Spelled(sp, j) = <<>> <=> j = <<>>
    BY <2>1, DotsSpelled
  <2> HIDE DEF j
  <2>7. Spelled(sp, (j \o slash) \o name) = (Spelled(sp, j) \o slash) \o x
    <3>1. slash \in Text /\ Spelled(sp, slash) = slash
      BY CharFacts, SlashSpelled, SpelledOne, OneElement DEF Text
    <3> HIDE DEF slash
    <3>2. j \o slash \in Text
      BY <2>1, <3>1, TextConcat
    <3>3. Spelled(sp, j \o slash) = Spelled(sp, j) \o Spelled(sp, slash)
      BY <2>1, <3>1, SpelledConcat
    <3>4. Spelled(sp, (j \o slash) \o name) = Spelled(sp, j \o slash) \o Spelled(sp, name)
      BY <3>2, SpelledConcat
    <3> QED
      BY <3>1, <3>3, <3>4
  <2>8. JoinedWith(Spelled(sp, j), x) = Spelled(sp, JoinedWith(j, name))
    BY <2>6, <2>7 DEF JoinedWith
  <2> HIDE DEF x
  <2>9. Joined(SpelledEach(sp, Append(s, name))) = Spelled(sp, Joined(Append(s, name)))
    BY <2>2, <2>4, <2>5, <2>8
  <2> QED
    BY <2>1, <2>9
<1>3. \A s \in Seq(Text) : s \in P
  <2> HIDE DEF P
  <2> QED
    BY <1>1, <1>2, SeqSetInduction
<1> QED
  BY <1>3 DEF Texts

LEMMA NormalType ==
  ASSUME NEW p \in Text
  PROVE  LexicallyNormal(p) \in Text
<1> DEFINE slash == <<"/">>
           stack == Resolved(p)
           joined == Joined(stack)
           front == IF IsRooted(p) THEN slash ELSE <<>>
           back == IF Last(Segments(p)) \in {<<>>, Dot, DotDot} /\ IsDown(stack) THEN slash ELSE <<>>
           names == (front \o joined) \o back
<1>1. slash \in Text /\ <<>> \in Text /\ Dot \in Text
  <2>1. "/" \in Chars /\ "." \in Chars
    BY CharsAssumption
  <2> QED
    BY <2>1, OneElement, TextConcat DEF Dot, Text
<1>2. joined \in Text
  BY ResolvedType, JoinedProperties
<1>3. LexicallyNormal(p) = CASE p = <<>> -> <<>>
                             [] p # <<>> /\ stack = <<>> -> IF IsRooted(p) THEN slash ELSE Dot
                             [] OTHER -> names
  BY DEF LexicallyNormal
<1> HIDE DEF slash, stack, joined
<1>4. front \in Text /\ back \in Text
  BY <1>1
<1> HIDE DEF front, back
<1>5. front \o joined \in Text
  BY <1>2, <1>4, TextConcat
<1>6. names \in Text
  BY <1>4, <1>5, TextConcat
<1> HIDE DEF names
<1> QED
  BY <1>1, <1>3, <1>6

LEMMA NormalSpelled ==
  ASSUME NEW sp \in Spellings, Unambiguous(sp), KeepsNames(sp),
         NEW p \in Text
  PROVE  LexicallyNormal(Spelled(sp, p)) = Spelled(sp, LexicallyNormal(p))
<1> DEFINE e == Spelled(sp, p)
           slash == <<"/">>
           stack == Resolved(p)
           estack == Resolved(e)
           last == Last(Segments(p))
           elast == Last(Segments(e))
           joined == Joined(stack)
           front == IF IsRooted(p) THEN slash ELSE <<>>
           back == IF last \in {<<>>, Dot, DotDot} /\ IsDown(stack) THEN slash ELSE <<>>
           names == (front \o joined) \o back
<1>1. /\ e \in Text /\ stack \in Texts /\ estack = SpelledEach(sp, stack)
      /\ e = <<>> <=> p = <<>>
      /\ IsRooted(e) <=> IsRooted(p)
  BY SpelledProperties, ResolvedType, ResolvedSpelled, DotsSpelled, RootedSpelled
<1>2. elast \in {<<>>, Dot, DotDot} <=> last \in {<<>>, Dot, DotDot}
  <2>1. Segments(p) \in Texts /\ Segments(p) # <<>> /\ Segments(e) = SpelledEach(sp, Segments(p))
    BY SegmentsProperties, SegmentsSpelled DEF NonEmpty, Texts
  <2>2. elast = Spelled(sp, last) /\ last \in Text
    BY <2>1, DownSpelled
  <2> HIDE DEF last, elast
  <2> QED
    BY <2>2, DotsSpelled
<1>3. /\ estack = <<>> <=> stack = <<>>
      /\ IsDown(estack) <=> IsDown(stack)
  BY <1>1, DownSpelled
<1>4. joined \in Text /\ Joined(estack) = Spelled(sp, joined)
  BY <1>1, JoinedProperties, JoinedSpelled
<1>5. /\ slash \in Text /\ Spelled(sp, slash) = slash /\ <<>> \in Text /\ Spelled(sp, <<>>) = <<>>
      /\ Dot \in Text /\ Spelled(sp, Dot) = Dot
  <2>1. slash \in Text /\ Spelled(sp, slash) = slash
    BY CharFacts, SlashSpelled, SpelledOne, OneElement DEF Text
  <2>2. Dot \in Text
    BY CharsAssumption, OneElement DEF Dot, Text
  <2>3. Spelled(sp, Dot) = Dot
    BY <2>2, DotsSpelled
  <2> QED
    BY <2>1, <2>2, <2>3, SpelledProperties, TextConcat
<1>6. LexicallyNormal(p) = CASE p = <<>> -> <<>>
                             [] p # <<>> /\ stack = <<>> -> IF IsRooted(p) THEN slash ELSE Dot
                             [] OTHER -> names
  BY DEF LexicallyNormal
<1>7. LexicallyNormal(e) =
        CASE e = <<>> -> <<>>
          [] e # <<>> /\ estack = <<>> -> IF IsRooted(e) THEN slash ELSE Dot
          [] OTHER -> ((IF IsRooted(e) THEN slash ELSE <<>>) \o Joined(estack))
                        \o (IF elast \in {<<>>, Dot, DotDot} /\ IsDown(estack) THEN slash ELSE <<>>)
  BY DEF LexicallyNormal
<1> HIDE DEF slash, e, stack, estack, last, elast, joined
<1>8. front \in Text /\ Spelled(sp, front) = front /\ back \in Text /\ Spelled(sp, back) = back
  BY <1>5
<1>9. LexicallyNormal(e) =
        CASE p = <<>> -> <<>>
          [] p # <<>> /\ stack = <<>> -> IF IsRooted(p) THEN slash ELSE Dot
          [] OTHER -> (front \o Spelled(sp, joined)) \o back
  BY <1>1, <1>2, <1>3, <1>4, <1>7
<1> HIDE DEF front, back
<1>10. front \o joined \in Text
  BY <1>4, <1>8, TextConcat
<1>12. Spelled(sp, names) = (front \o Spelled(sp, joined)) \o back
  <2>1. Spelled(sp, front \o joined) = Spelled(sp, front) \o Spelled(sp, joined)
    BY <1>4, <1>8, SpelledConcat
  <2>2. Spelled(sp, (front \o joined) \o back) = Spelled(sp, front \o joined) \o Spelled(sp, back)
    BY <1>8, <1>10, SpelledConcat
  <2> QED
    BY <1>8, <2>1, <2>2
<1> HIDE DEF names
<1> QED
  BY <1>5, <1>6, <1>9, <1>12 DEF e

\* What is read of a path is the path that was meant.
LEMMA PathReadIs ==
  ASSUME NEW f \in Forms, Unambiguous(f.spell), KeepsNames(f.spell), f.path # <<>>
  PROVE  PathRead(f) = LexicallyNormal(f.path)
<1> DEFINE sp == f.spell
           rest == Tail(f.path)
           slash == <<"/">>
           path == f.path
<1>1. sp \in Spellings /\ Unambiguous(sp) /\ KeepsNames(sp) /\ path \in Text
  BY FormFacts DEF FormType
<1>2. PathText(f) = slash \o Spelled(sp, rest) /\ rest \in Text /\ path = slash \o rest
  BY PathTextIs
<1>3. PathRead(f) = Decode(LexicallyNormal(PathText(f)))
  BY DEF PathRead
<1> HIDE DEF sp, rest, path
<1>4. Spelled(sp, slash) = slash /\ slash \in Text
  BY <1>1, CharFacts, SlashSpelled, SpelledOne, OneElement DEF Text
<1> HIDE DEF slash
<1>5. PathText(f) = Spelled(sp, path)
  BY <1>1, <1>2, <1>4, SpelledConcat
<1>6. LexicallyNormal(Spelled(sp, path)) = Spelled(sp, LexicallyNormal(path))
  BY <1>1, NormalSpelled
<1>7. Decode(Spelled(sp, LexicallyNormal(path))) = LexicallyNormal(path)
  BY <1>1, NormalType, DecodeSpelled
<1> QED
  BY <1>3, <1>5, <1>6, <1>7 DEF path

(***************************************************************************)
(* Every well-formed URL is valid and taken apart into the parts it was    *)
(* written from; with bare dots and slashes its path is normalised, for    *)
(* then it is the same whether it is decoded before or after.              *)
(***************************************************************************)
THEOREM AllPartsRecovered == Spec => []PartsRecovered
<1>1. Constructed => PartsRecovered
  <2> SUFFICES ASSUME Constructed, NEW f \in form, WellFormed(f), ~LooksAbsolute(f)
               PROVE  /\ url.valid
                      /\ url.scheme = IF f.absolute THEN f.scheme ELSE <<>>
                      /\ url.host = IF f.absolute THEN f.host ELSE <<>>
                      /\ url.port = IF f.absolute /\ f.hasPort THEN PortNumber(f.port)
                                    ELSE kReservedPort
                      /\ Unambiguous(f.spell) /\ KeepsNames(f.spell) =>
                           url.path = IF f.path = <<>> THEN <<"/">> ELSE LexicallyNormal(f.path)
    BY DEF PartsRecovered
  <2>1. f \in Forms /\ url = Parse(DefaultUrl, Compose(f))
    BY DEF Constructed
  <2>2. PICK p, q :
          /\ url = Url6(IF f.absolute THEN f.scheme ELSE <<>>, IF f.absolute THEN f.host ELSE <<>>,
                        p, q, PortRead(f), Yes)
          /\ Unambiguous(f.spell) => p = PathKept(f) /\ q = Added[f.pairs]
    BY <2>1, WellFormedParsed
  <2>3. url.valid = Yes
    BY <2>2 DEF Url6
  <2>4. /\ url.scheme = IF f.absolute THEN f.scheme ELSE <<>>
        /\ url.host = IF f.absolute THEN f.host ELSE <<>>
    BY <2>2 DEF Url6
  <2>5. url.path = p /\ url.port = PortRead(f)
    BY <2>2 DEF Url6
  <2>6. ASSUME Unambiguous(f.spell), KeepsNames(f.spell)
        PROVE  url.path = IF f.path = <<>> THEN <<"/">> ELSE LexicallyNormal(f.path)
    BY <2>1, <2>2, <2>5, <2>6, PathReadIs DEF PathKept
  <2> QED
    BY <2>3, <2>4, <2>5, <2>6 DEF PortRead, Yes
<1> QED
  BY <1>1, AlwaysConstructed, PTL
=============================================================================
