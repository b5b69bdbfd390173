---------------------------- MODULE ReplyProofs ----------------------------
(***************************************************************************)
(* A client reads back every reply, whatever its body holds and in         *)
(* whatever order its headers are sent: the empty line is the first line   *)
(* end right behind another, because no text in front of it is one.        *)
(***************************************************************************)
EXTENDS Reply, SequenceTheorems, FiniteSetTheorems, TLAPS

Replies(Bytes, Types) == [code : {200, 400, 404, 405}, type : Types \cup {NoType}, body : Seq(Bytes)]

\* An order of the headers leaves none of them out.
LEMMA OrdersAreComplete ==
  ASSUME NEW S, IsFiniteSet(S), NEW order \in SetToSeqs(S)
  PROVE  /\ order \in Seq(S)
         /\ Len(order) = Cardinality(S)
         /\ {order[j] : j \in 1 .. Len(order)} = S
<1> DEFINE n == Cardinality(S)
<1>1. n \in Nat
  BY FS_CardinalityType
<1>2. order \in [1 .. n -> S] /\ \A i, j \in 1 .. n : i # j => order[i] # order[j]
  BY DEF SetToSeqs
<1>3. order \in Seq(S) /\ Len(order) = n
  BY <1>1, <1>2
<1>4. IsFiniteSet(1 .. n) /\ Cardinality(1 .. n) = n
  BY <1>1, FS_Interval
<1>5. order \in Injection(1 .. n, S)
  BY <1>2 DEF Injection, IsInjective
<1>6. order \in Surjection(1 .. n, S)
  BY <1>4, <1>5, FS_Injection
<1>7. {order[j] : j \in 1 .. n} = S
  BY <1>2, <1>6 DEF Surjection
<1> QED
  BY <1>3, <1>7

\* The headers of a response are a finite set of pairs without line ends.
LEMMA HeadersTyped ==
  ASSUME NEW Types, CRLF \notin Types, NEW resp, resp.type \in Types \cup {NoType}
  PROVE  /\ IsFiniteSet(Headers(resp))
         /\ \A header \in Headers(resp) :
              /\ header = <<header[1], header[2]>>
              /\ header[1] # CRLF /\ header[2] # CRLF
<1> DEFINE S == {<<"Connection", "close">>, <<"Date", "now">>, <<"Server", "Ayaka">>}
<1>1. IsFiniteSet(S)
  <2>1. IsFiniteSet({<<"Connection", "close">>})
    BY FS_Singleton
  <2>2. IsFiniteSet({<<"Connection", "close">>} \cup {<<"Date", "now">>})
    BY <2>1, FS_AddElement
  <2>3. IsFiniteSet(({<<"Connection", "close">>} \cup {<<"Date", "now">>}) \cup {<<"Server", "Ayaka">>})
    BY <2>2, FS_AddElement
  <2>4. S = ({<<"Connection", "close">>} \cup {<<"Date", "now">>}) \cup {<<"Server", "Ayaka">>}
    OBVIOUS
  <2> QED
    BY <2>3, <2>4
<1>2. IsFiniteSet(S \cup {<<"Content-Type", resp.type>>})
  BY <1>1, FS_AddElement
<1>3. S \cup {} = S
  OBVIOUS
<1>4. IsFiniteSet(Headers(resp))
  BY <1>1, <1>2, <1>3 DEF Headers
<1>5. \A header \in S : /\ header = <<header[1], header[2]>>
                        /\ header[1] # CRLF /\ header[2] # CRLF
  BY DEF CRLF
<1>6. resp.type # NoType => resp.type # CRLF
  OBVIOUS
<1>7. "Content-Type" # CRLF
  BY DEF CRLF
<1>8. \A header \in Headers(resp) :
        header \in S \/ (header = <<"Content-Type", resp.type>> /\ resp.type # NoType)
  BY DEF Headers
<1> QED
  BY <1>4, <1>5, <1>6, <1>7, <1>8

\* The line of the j-th header, text by text.
LEMMA HeaderLinesAt ==
  ASSUME NEW S, NEW order \in Seq(S), NEW j \in 1 .. Len(order)
  PROVE  LET line == HeaderLines(order) IN
         /\ line[4 * (j - 1) + 1] = order[j][1]
         /\ line[4 * (j - 1) + 2] = ": "
         /\ line[4 * (j - 1) + 3] = order[j][2]
         /\ line[4 * (j - 1) + 4] = CRLF
<1>1. ASSUME NEW r \in 1 .. 4
      PROVE  HeaderLines(order)[4 * (j - 1) + r] = HeaderLine(order[j])[r]
  <2> DEFINE k == 4 * (j - 1) + r
  <2>1. Len(order) \in Nat /\ j \in Nat
    BY LenProperties
  <2>2. k \in 1 .. 4 * Len(order)
    BY <2>1
  <2>3. (k + 3) \div 4 = j /\ ((k - 1) % 4) + 1 = r
    BY <2>1
  <2> QED
    BY <2>2, <2>3 DEF HeaderLines
<1>2. /\ HeaderLine(order[j])[1] = order[j][1] /\ HeaderLine(order[j])[2] = ": "
      /\ HeaderLine(order[j])[3] = order[j][2] /\ HeaderLine(order[j])[4] = CRLF
  BY DEF HeaderLine
<1>3. 1 \in 1 .. 4 /\ 2 \in 1 .. 4 /\ 3 \in 1 .. 4 /\ 4 \in 1 .. 4
  OBVIOUS
<1> QED
  BY <1>1, <1>2, <1>3

\* Where the line ends are: of the status line, of n header lines of four texts
\* each, and of the empty line, which is the first one right behind another.
LEMMA HeadIsFound ==
  ASSUME NEW n \in Nat, NEW bufs, NEW end \in Nat,
         Len(bufs) \in Nat, DOMAIN bufs = 1 .. Len(bufs),
         end = 4 * n + 7, end =< Len(bufs),
         bufs[end] = CRLF,
         \A i \in 1 .. end - 1 : (bufs[i] = CRLF) <=> (i >= 6 /\ i % 4 = 2)
  PROVE  Understood(bufs) =
           {[status |-> <<bufs[3], bufs[5]>>,
             headers |-> {<<bufs[4 * j + 3], bufs[4 * j + 5]>> : j \in 1 .. n},
             body |-> SubSeq(bufs, end + 1, Len(bufs))]}
<1> DEFINE lineEnds == {i \in DOMAIN bufs : bufs[i] = CRLF}
           headEnds == {i \in lineEnds : i - 1 \in lineEnds}
           headEnd == CHOOSE i \in headEnds : \A j \in headEnds : i =< j
           len == Len(bufs)
<1>1. \A i \in 1 .. end - 1 : (i \in lineEnds) <=> (i >= 6 /\ i % 4 = 2)
  OBVIOUS
<1>2. end \in lineEnds /\ lineEnds \subseteq 1 .. len
  OBVIOUS
<1>0. len \in Nat
  OBVIOUS
<1> HIDE DEF lineEnds, len
<1>3. end \in headEnds
  <2>1. end - 1 \in 1 .. end - 1 /\ end - 1 >= 6 /\ (end - 1) % 4 = 2
    OBVIOUS
  <2> QED
    BY <1>1, <1>2, <2>1
<1>4. ASSUME NEW j \in headEnds PROVE end =< j
  <2>1. j \in lineEnds /\ j - 1 \in lineEnds /\ j \in 1 .. len /\ j - 1 \in 1 .. len
    BY <1>0, <1>2
  <2> SUFFICES ASSUME j < end PROVE FALSE
    BY <2>1
  <2>2. j \in 1 .. end - 1 /\ j - 1 \in 1 .. end - 1
    BY <2>1
  <2>3. j % 4 = 2 /\ (j - 1) % 4 = 2
    BY <1>1, <2>1, <2>2
  <2> QED
    BY <2>1, <2>3
<1>5. \A i \in headEnds : i \in Nat
  BY <1>2
<1> HIDE DEF headEnds
<1>6. headEnd = end
  <2>1. headEnd \in headEnds /\ \A j \in headEnds : headEnd =< j
    BY <1>3, <1>4
  <2> HIDE DEF headEnd
  <2> QED
    BY <1>3, <1>4, <1>5, <2>1
<1>7. \A i : (i \in lineEnds /\ i < end - 1) <=> (\E j \in 1 .. n : i = 4 * j + 2)
  <2>1. ASSUME NEW j \in 1 .. n PROVE 4 * j + 2 \in lineEnds /\ 4 * j + 2 < end - 1
    <3>1. 4 * j + 2 \in 1 .. end - 1 /\ 4 * j + 2 >= 6 /\ (4 * j + 2) % 4 = 2 /\ 4 * j + 2 < end - 1
      OBVIOUS
    <3> QED
      BY <1>1, <3>1
  <2>2. ASSUME NEW i \in lineEnds, i < end - 1 PROVE \E j \in 1 .. n : i = 4 * j + 2
    <3>1. i \in 1 .. end - 1
      BY <1>2, <2>2
    <3>2. i >= 6 /\ i % 4 = 2
      BY <1>1, <3>1
    <3>3. (i - 2) \div 4 \in 1 .. n /\ i = 4 * ((i - 2) \div 4) + 2
      BY <2>2, <3>1, <3>2
    <3> QED
      BY <3>3
  <2> QED
    BY <2>1, <2>2
<1>8. {<<bufs[i + 1], bufs[i + 3]>> : i \in {j \in lineEnds : j < end - 1}}
        = {<<bufs[4 * j + 3], bufs[4 * j + 5]>> : j \in 1 .. n}
  <2> DEFINE Pair(i) == <<bufs[i + 1], bufs[i + 3]>>
  <2>1. ASSUME NEW j \in 1 .. n PROVE Pair(4 * j + 2) = <<bufs[4 * j + 3], bufs[4 * j + 5]>>
    <3>1. (4 * j + 2) + 1 = 4 * j + 3 /\ (4 * j + 2) + 3 = 4 * j + 5
      OBVIOUS
    <3> QED
      BY <3>1
  <2> HIDE DEF Pair
  <2>2. {Pair(i) : i \in {j \in lineEnds : j < end - 1}} = {Pair(4 * j + 2) : j \in 1 .. n}
    BY <1>7
  <2>3. {Pair(4 * j + 2) : j \in 1 .. n} = {<<bufs[4 * j + 3], bufs[4 * j + 5]>> : j \in 1 .. n}
    BY <2>1
  <2> QED
    BY <2>2, <2>3 DEF Pair
<1>9. Understood(bufs) =
        IF headEnds = {} THEN {}
        ELSE {[status |-> <<bufs[3], bufs[5]>>,
               headers |-> {<<bufs[i + 1], bufs[i + 3]>> : i \in {j \in lineEnds : j < headEnd - 1}},
               body |-> SubSeq(bufs, headEnd + 1, Len(bufs))]}
  BY DEF Understood, lineEnds, headEnds
<1> HIDE DEF headEnd
<1> QED
  BY <1>3, <1>6, <1>8, <1>9

\* What stands where in a concatenation.
LEMMA ConcatAt ==
  ASSUME NEW S, NEW s \in Seq(S), NEW t \in Seq(S)
  PROVE  /\ s \o t \in Seq(S)
         /\ Len(s \o t) = Len(s) + Len(t)
         /\ \A i \in 1 .. Len(s) : (s \o t)[i] = s[i]
         /\ \A i \in 1 .. Len(t) : (s \o t)[Len(s) + i] = t[i]
<1>1. Len(s) \in Nat /\ Len(t) \in Nat
  BY LenProperties
<1>2. s \o t \in Seq(S) /\ Len(s \o t) = Len(s) + Len(t)
  BY ConcatProperties
<1>3. \A i \in 1 .. Len(s) + Len(t) :
        (s \o t)[i] = IF i <= Len(s) THEN s[i] ELSE t[i - Len(s)]
  BY ConcatProperties
<1>4. ASSUME NEW i \in 1 .. Len(s) PROVE (s \o t)[i] = s[i]
  <2>1. i \in 1 .. Len(s) + Len(t) /\ i <= Len(s)
    BY <1>1
  <2> QED
    BY <1>3, <2>1
<1>5. ASSUME NEW i \in 1 .. Len(t) PROVE (s \o t)[Len(s) + i] = t[i]
  <2>1. /\ Len(s) + i \in 1 .. Len(s) + Len(t) /\ ~(Len(s) + i <= Len(s))
        /\ (Len(s) + i) - Len(s) = i
    BY <1>1
  <2> QED
    BY <1>3, <2>1
<1> QED
  BY <1>2, <1>4, <1>5

\* What follows the end of a head is the rest of the buffers.
LEMMA RestIsBody ==
  ASSUME NEW S, NEW s \in Seq(S), NEW t \in Seq(S)
  PROVE  SubSeq(s \o t, Len(s) + 1, Len(s \o t)) = t
<1> DEFINE st == s \o t
           m == Len(s)
           rest == SubSeq(st, m + 1, Len(st))
<1>1. st \in Seq(S) /\ Len(st) = m + Len(t) /\ \A i \in 1 .. Len(t) : st[m + i] = t[i]
  BY ConcatAt
<1>2. Len(t) \in Nat /\ m \in Nat
  BY LenProperties
<1> HIDE DEF st, m
<1>3. Len(st) \in Nat /\ \A i \in 1 .. Len(st) : st[i] \in S
  BY <1>1, LenProperties, ElementOfSeq
<1>4. \A i \in m + 1 .. Len(st) : st[i] \in S
  BY <1>2, <1>3
<1>5. /\ rest \in Seq(S)
      /\ Len(rest) = IF m + 1 <= Len(st) THEN Len(st) - (m + 1) + 1 ELSE 0
      /\ \A i \in 1 .. Len(st) - (m + 1) + 1 : rest[i] = st[(m + 1) + i - 1]
  <2>1. m + 1 \in Int /\ Len(st) \in Int
    BY <1>2, <1>3
  <2> QED
    BY <1>4, <2>1, SubSeqProperties
<1> HIDE DEF rest
<1>6. Len(rest) = Len(t)
  BY <1>1, <1>2, <1>5
<1>7. ASSUME NEW i \in 1 .. Len(t) PROVE rest[i] = t[i]
  <2>1. (m + 1) + i - 1 = m + i /\ i \in 1 .. Len(st) - (m + 1) + 1
    BY <1>1, <1>2
  <2> QED
    BY <1>1, <1>5, <2>1
<1>8. rest = t
  BY <1>5, <1>6, <1>7, SeqEqual
<1> QED
  BY <1>8 DEF rest, st, m

\* The status line has one line end, its last text.
LEMMA StatusLineAt ==
  ASSUME NEW code \in {200, 400, 404, 405}
  PROVE  /\ \E T : StatusLine(code) \in Seq(T)
         /\ Len(StatusLine(code)) = 6
         /\ <<StatusLine(code)[3], StatusLine(code)[5]>> = Status(code)
         /\ \A i \in 1 .. 6 : (StatusLine(code)[i] = CRLF) <=> (i = 6)
<1> DEFINE number == Status(code)[1]
           text == Status(code)[2]
<1> DEFINE known == {<<"200", "OK">>, <<"400", "Bad Request">>,
                     <<"404", "Not Found">>, <<"405", "Method Not Allowed">>}
<1>1. Status(code) \in known
  <2>1. code = 200 => Status(code) \in known
    BY DEF Status
  <2>2. code = 400 => Status(code) \in known
    BY DEF Status
  <2>3. code = 404 => Status(code) \in known
    BY DEF Status
  <2>4. code = 405 => Status(code) \in known
    BY DEF Status
  <2> HIDE DEF known
  <2> QED
    BY <2>1, <2>2, <2>3, <2>4
<1>2. Status(code) = <<number, text>> /\ number # CRLF /\ text # CRLF
  <2>1. \A s \in {"200", "400", "404", "405", "OK", "Bad Request", "Not Found",
                  "Method Not Allowed"} : s # CRLF
    BY DEF CRLF
  <2>2. ASSUME NEW a, NEW b, Status(code) = <<a, b>> PROVE number = a /\ text = b
    BY <2>2
  <2>3. PICK a, b : Status(code) = <<a, b>> /\ a # CRLF /\ b # CRLF
    BY <1>1, <2>1, Zenon
  <2>4. number = a /\ text = b
    BY <2>2, <2>3
  <2> HIDE DEF number, text
  <2> QED
    BY <2>3, <2>4
<1>3. StatusLine(code) = <<"HTTP/1.1", " ", number, " ", text, CRLF>>
  BY DEF StatusLine
<1> HIDE DEF number, text
<1> DEFINE line == <<"HTTP/1.1", " ", number, " ", text, CRLF>>
<1>4. line \in Seq({"HTTP/1.1", " ", number, text, CRLF}) /\ Len(line) = 6
  OBVIOUS
<1>5. /\ line[1] = "HTTP/1.1" /\ line[2] = " " /\ line[3] = number
      /\ line[4] = " " /\ line[5] = text /\ line[6] = CRLF
  OBVIOUS
<1>6. "HTTP/1.1" # CRLF /\ " " # CRLF
  BY DEF CRLF
<1> HIDE DEF line
<1>7. ASSUME NEW i \in 1 .. 6 PROVE (line[i] = CRLF) <=> (i = 6)
  <2>1. i = 1 \/ i = 2 \/ i = 3 \/ i = 4 \/ i = 5 \/ i = 6
    OBVIOUS
  <2>2. CASE i = 6
    BY <1>5, <2>2
  <2>3. CASE i # 6
    <3>1. /\ line[1] # CRLF /\ line[2] # CRLF /\ line[3] # CRLF
          /\ line[4] # CRLF /\ line[5] # CRLF
      <4>1. line[1] # CRLF /\ line[2] # CRLF /\ line[4] # CRLF
        BY <1>5, <1>6
      <4>2. line[3] # CRLF /\ line[5] # CRLF
        BY <1>2, <1>5
      <4> QED
        BY <4>1, <4>2
    <3>2. i = 1 \/ i = 2 \/ i = 3 \/ i = 4 \/ i = 5
      BY <2>1, <2>3
    <3>3. line[i] # CRLF
      BY <3>1, <3>2, Zenon
    <3> QED
      BY <2>3, <3>3
  <2> QED
    BY <2>2, <2>3
<1>8. StatusLine(code) = line
  BY <1>3 DEF line
<1> QED
  BY <1>2, <1>4, <1>5, <1>7, <1>8

\* Of the header lines every fourth text is a line end, and no other.
LEMMA HeaderLinesEnd ==
  ASSUME NEW S, NEW order \in Seq(S),
         \A header \in S : header[1] # CRLF /\ header[2] # CRLF
  PROVE  LET lines == HeaderLines(order) IN
         /\ \E T : lines \in Seq(T)
         /\ Len(lines) = 4 * Len(order)
         /\ \A k \in 1 .. 4 * Len(order) : (lines[k] = CRLF) <=> (k % 4 = 0)
<1> DEFINE lines == HeaderLines(order)
           n == Len(order)
<1>1. n \in Nat /\ 4 * n \in Nat
  BY LenProperties
<1>2. lines \in [1 .. 4 * n -> {lines[k] : k \in 1 .. 4 * n}]
  BY DEF HeaderLines
<1>3. lines \in Seq({lines[k] : k \in 1 .. 4 * n}) /\ Len(lines) = 4 * n
  <2> HIDE DEF lines, n
  <2> DEFINE m == 4 * n
  <2>1. m \in Nat
    BY <1>1
  <2>2. lines \in [1 .. m -> {lines[k] : k \in 1 .. m}]
    BY <1>2
  <2> HIDE DEF m
  <2>3. lines \in Seq({lines[k] : k \in 1 .. m}) /\ Len(lines) = m
    BY <2>1, <2>2
  <2> QED
    BY <2>3 DEF m
<1>4. ASSUME NEW j \in 1 .. n
      PROVE  /\ lines[4 * (j - 1) + 1] # CRLF /\ lines[4 * (j - 1) + 2] # CRLF
             /\ lines[4 * (j - 1) + 3] # CRLF /\ lines[4 * (j - 1) + 4] = CRLF
  <2>1. order[j] \in S
    BY ElementOfSeq
  <2>2. ": " # CRLF
    BY DEF CRLF
  <2> QED
    BY <2>1, <2>2, HeaderLinesAt
<1> HIDE DEF lines, n
<1>5. ASSUME NEW k \in 1 .. 4 * n PROVE (lines[k] = CRLF) <=> (k % 4 = 0)
  <2> DEFINE j == ((k - 1) \div 4) + 1
  <2>1. j \in 1 .. n
    BY <1>1
  <2>2. \/ k = 4 * (j - 1) + 1 /\ k % 4 = 1
        \/ k = 4 * (j - 1) + 2 /\ k % 4 = 2
        \/ k = 4 * (j - 1) + 3 /\ k % 4 = 3
        \/ k = 4 * (j - 1) + 4 /\ k % 4 = 0
    BY <1>1
  <2> HIDE DEF j
  <2> QED
    BY <1>4, <2>1, <2>2
<1> QED
  BY <1>3, <1>5 DEF lines, n

\* A client that reads up to the end of the connection gets back the status, the
\* headers and the body that send_pack.cpp made the buffers of: for every body,
\* one with empty lines in it too, and every order of the headers.
THEOREM EveryReplyReadsBack ==
  ASSUME NEW Bytes, NEW Types, CRLF \notin Types, NEW resp \in Replies(Bytes, Types)
  PROVE  ReadBack(resp)
<1> SUFFICES ASSUME NEW order \in SetToSeqs(Headers(resp))
             PROVE  Understood(SetUpBufs(resp, order)) =
                      {[status |-> Status(resp.code), headers |-> Headers(resp),
                        body |-> resp.body]}
  BY DEF ReadBack
<1> DEFINE S == Headers(resp)
           n == Len(order)
           status == StatusLine(resp.code)
           lines == HeaderLines(order)
           head == status \o lines
           blank == head \o <<CRLF>>
           bufs == blank \o resp.body
           end == 4 * n + 7
<1>1. /\ resp.code \in {200, 400, 404, 405} /\ resp.type \in Types \cup {NoType}
      /\ resp.body \in Seq(Bytes)
  BY DEF Replies
<1>2. IsFiniteSet(S) /\ \A header \in S : header = <<header[1], header[2]>>
  BY <1>1, HeadersTyped
<1>3. \A header \in S : header[1] # CRLF /\ header[2] # CRLF
  BY <1>1, HeadersTyped
<1>4. order \in Seq(S) /\ {order[j] : j \in 1 .. n} = S
  BY <1>2, OrdersAreComplete
<1>5. n \in Nat /\ 4 * n \in Nat /\ end \in Nat
  <2>1. n \in Nat
    BY <1>4, LenProperties
  <2> HIDE DEF n
  <2> QED
    BY <2>1
<1>6. /\ Len(status) = 6
      /\ <<status[3], status[5]>> = Status(resp.code)
      /\ \A i \in 1 .. 6 : (status[i] = CRLF) <=> (i = 6)
  BY <1>1, StatusLineAt
<1>7. /\ Len(lines) = 4 * n
      /\ \A k \in 1 .. 4 * n : (lines[k] = CRLF) <=> (k % 4 = 0)
  BY <1>3, <1>4, HeaderLinesEnd
<1>8. \A j \in 1 .. n : /\ lines[4 * (j - 1) + 1] = order[j][1]
                        /\ lines[4 * (j - 1) + 3] = order[j][2]
  BY <1>4, HeaderLinesAt
<1>9. SetUpBufs(resp, order) = bufs
  BY DEF SetUpBufs, StatusAndHeaders
<1>10. PICK Tokens : /\ status \in Seq(Tokens) /\ lines \in Seq(Tokens)
                     /\ resp.body \in Seq(Tokens) /\ <<CRLF>> \in Seq(Tokens)
  <2>1. PICK T1 : status \in Seq(T1)
    BY <1>1, StatusLineAt
  <2>2. PICK T2 : lines \in Seq(T2)
    BY <1>3, <1>4, HeaderLinesEnd
  <2> HIDE DEF status, lines
  <2> DEFINE T == T1 \cup T2 \cup Bytes \cup {CRLF}
  <2>3. status \in Seq(T) /\ lines \in Seq(T) /\ resp.body \in Seq(T) /\ <<CRLF>> \in Seq(T)
    BY <1>1, <2>1, <2>2
  <2> QED
    BY <2>3
<1> HIDE DEF status, lines, n, S
<1>11. /\ head \in Seq(Tokens) /\ Len(head) = 6 + 4 * n
       /\ \A i \in 1 .. 6 : head[i] = status[i]
       /\ \A k \in 1 .. 4 * n : head[6 + k] = lines[k]
  <2>1. /\ head \in Seq(Tokens) /\ Len(head) = Len(status) + Len(lines)
        /\ \A i \in 1 .. Len(status) : head[i] = status[i]
        /\ \A k \in 1 .. Len(lines) : head[Len(status) + k] = lines[k]
    BY <1>10, ConcatAt
  <2> HIDE DEF head
  <2> QED
    BY <1>6, <1>7, <2>1
<1> HIDE DEF head
<1>12. /\ blank \in Seq(Tokens) /\ Len(blank) = end /\ blank[end] = CRLF
       /\ \A i \in 1 .. end - 1 : blank[i] = head[i]
  <2>1. /\ blank \in Seq(Tokens) /\ Len(blank) = Len(head) + Len(<<CRLF>>)
        /\ \A i \in 1 .. Len(head) : blank[i] = head[i]
        /\ \A i \in 1 .. Len(<<CRLF>>) : blank[Len(head) + i] = <<CRLF>>[i]
    <3>1. head \in Seq(Tokens) /\ <<CRLF>> \in Seq(Tokens)
      BY <1>10, <1>11
    <3> QED
      BY <3>1, ConcatAt
  <2>2. Len(<<CRLF>>) = 1 /\ <<CRLF>>[1] = CRLF
    OBVIOUS
  <2>3. Len(head) + 1 = end /\ Len(head) = end - 1
    BY <1>5, <1>11
  <2> HIDE DEF blank, end
  <2>4. Len(blank) = end /\ \A i \in 1 .. end - 1 : blank[i] = head[i]
    BY <2>1, <2>2, <2>3
  <2>5. blank[end] = CRLF
    BY <2>1, <2>2, <2>3
  <2> QED
    BY <2>1, <2>4, <2>5
<1> HIDE DEF blank, end
<1>13. /\ bufs \in Seq(Tokens) /\ Len(bufs) = end + Len(resp.body)
       /\ \A i \in 1 .. end : bufs[i] = blank[i]
  <2>1. /\ bufs \in Seq(Tokens) /\ Len(bufs) = Len(blank) + Len(resp.body)
        /\ \A i \in 1 .. Len(blank) : bufs[i] = blank[i]
    <3>1. blank \in Seq(Tokens) /\ resp.body \in Seq(Tokens)
      BY <1>10, <1>12
    <3> QED
      BY <3>1, ConcatAt
  <2> HIDE DEF bufs
  <2> QED
    BY <1>12, <2>1
<1>14. SubSeq(bufs, end + 1, Len(bufs)) = resp.body
  <2>1. blank \in Seq(Tokens) /\ resp.body \in Seq(Tokens) /\ Len(blank) = end
    BY <1>10, <1>12
  <2>2. SubSeq(bufs, Len(blank) + 1, Len(bufs)) = resp.body
    BY <2>1, RestIsBody
  <2> QED
    BY <2>1, <2>2
<1>15. Len(bufs) \in Nat /\ DOMAIN bufs = 1 .. Len(bufs) /\ Len(resp.body) \in Nat
  BY <1>10, <1>13, LenProperties
<1> HIDE DEF bufs
<1>16. bufs[end] = CRLF /\ \A i \in 1 .. end - 1 : bufs[i] = head[i]
  <2>1. end \in 1 .. end
    BY <1>5 DEF end
  <2>2. \A i \in 1 .. end - 1 : i \in 1 .. end
    BY <1>5
  <2> QED
    BY <1>12, <1>13, <2>1, <2>2
<1>17. ASSUME NEW i \in 1 .. end - 1
       PROVE  (bufs[i] = CRLF) <=> (i >= 6 /\ i % 4 = 2)
  <2>1. bufs[i] = head[i]
    BY <1>16
  <2>2. CASE i \in 1 .. 6
    <3>1. (i >= 6 /\ i % 4 = 2) <=> (i = 6)
      BY <2>2
    <3> QED
      BY <1>6, <1>11, <2>1, <2>2, <3>1
  <2>3. CASE i \notin 1 .. 6
    <3>1. /\ i - 6 \in 1 .. 4 * n /\ 6 + (i - 6) = i
          /\ ((i - 6) % 4 = 0) <=> (i >= 6 /\ i % 4 = 2)
      BY <1>5, <2>3 DEF end
    <3>2. head[i] = lines[i - 6]
      BY <1>11, <3>1
    <3> QED
      BY <1>7, <2>1, <3>1, <3>2
  <2> QED
    BY <2>2, <2>3
<1>18. Understood(bufs) =
         {[status |-> <<bufs[3], bufs[5]>>,
           headers |-> {<<bufs[4 * j + 3], bufs[4 * j + 5]>> : j \in 1 .. n},
           body |-> SubSeq(bufs, end + 1, Len(bufs))]}
  <2>1. end = 4 * n + 7 /\ end =< Len(bufs)
    <3>1. end =< Len(bufs)
      BY <1>5, <1>13, <1>15
    <3> QED
      BY <3>1 DEF end
  <2> QED
    BY <1>5, <1>15, <1>16, <1>17, <2>1, HeadIsFound, Zenon
<1>19. <<bufs[3], bufs[5]>> = Status(resp.code)
  <2>1. 3 \in 1 .. end - 1 /\ 5 \in 1 .. end - 1 /\ 3 \in 1 .. 6 /\ 5 \in 1 .. 6
    BY <1>5 DEF end
  <2> QED
    BY <1>6, <1>11, <1>16, <2>1
<1>20. {<<bufs[4 * j + 3], bufs[4 * j + 5]>> : j \in 1 .. n} = S
  <2>1. ASSUME NEW j \in 1 .. n
        PROVE  <<bufs[4 * j + 3], bufs[4 * j + 5]>> = order[j]
    <3>1. ASSUME NEW r \in {1, 3}
          PROVE  bufs[4 * j + 2 + r] = lines[4 * (j - 1) + r]
      <4>1. /\ 4 * (j - 1) + r \in 1 .. 4 * n
            /\ 6 + (4 * (j - 1) + r) = 4 * j + 2 + r
            /\ 4 * j + 2 + r \in 1 .. end - 1
        BY <1>5 DEF end
      <4> QED
        BY <1>11, <1>16, <4>1
    <3>2. 4 * j + 2 + 1 = 4 * j + 3 /\ 4 * j + 2 + 3 = 4 * j + 5
      BY <1>5
    <3>3. bufs[4 * j + 3] = order[j][1] /\ bufs[4 * j + 5] = order[j][2]
      BY <1>8, <3>1, <3>2
    <3>4. order[j] = <<order[j][1], order[j][2]>>
      <4>1. order[j] \in S
        BY <1>4
      <4> QED
        BY <1>2, <4>1
    <3> QED
      BY <3>3, <3>4
  <2>2. {<<bufs[4 * j + 3], bufs[4 * j + 5]>> : j \in 1 .. n} = {order[j] : j \in 1 .. n}
    BY <2>1
  <2> QED
    BY <1>4, <2>2
<1> QED
  BY <1>9, <1>14, <1>18, <1>19, <1>20 DEF S
=============================================================================
