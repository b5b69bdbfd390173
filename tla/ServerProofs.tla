---------------------------- MODULE ServerProofs ----------------------------
(***************************************************************************)
(* Start-up is right for every set of configuration files: workers only    *)
(* ever see a complete router with the media types of the mime file, they  *)
(* listen on the configured address, and main returns only when there was  *)
(* no worker to start.                                                     *)
(***************************************************************************)
EXTENDS Server, SequenceProofs

\* The locations built so far are those of the route, in its order.
RouterFollowsRoute ==
  /\ Len(locations) =< Len(conf.route)
  /\ \A k \in 1 .. Len(locations) : locations[k] = Location(conf.route[k], mime)

\* How far main must be for what is there.
MainOrder ==
  /\ pc \in {"Load", "LoadMime"} => locations = <<>>
  /\ pc \in {"Load", "LoadMime", "SetUpRouter"} => workers = <<>>
  /\ pc = "SetUpRouter" => mime = Table(document.mime)

\* What every worker was given when it started.
Ready ==
  /\ mime = Table(document.mime)
  /\ Len(locations) = Len(conf.route)
  /\ address = InetAddr(conf)

ReadyBeforeStart == pc \in {"Start", "Wait", "exit"} \/ workers # <<>> => Ready

WorkerInv(w) ==
  /\ w.addr = address
  /\ w.st \in {"bound", "listening"} => w.addr.family = "ipv4"
  /\ w.st \in {"bound", "listening"} /\ w.addr.port # 0 =>
       w.bound = [ip |-> IF Parses("ipv4", w.addr.ip) THEN w.addr.ip ELSE AnyAddress,
                  port |-> w.addr.port]
  /\ w.routed # <<>> => w.routed = <<locations>>

WorkersInv == \A i \in 1 .. Len(workers) : WorkerInv(workers[i])

IInv ==
  /\ document \in Documents
  /\ TypeOK
  /\ RouterFollowsRoute
  /\ MainOrder
  /\ ReadyBeforeStart
  /\ WorkersInv

------------------------------------------------------------------------------
\* Nothing is an index of the empty sequence.
LEMMA EmptyLen == Len(<<>>) = 0 /\ 1 .. Len(<<>>) = {}
  OBVIOUS

\* The strings of the program itself are strings of a configuration.
LEMMA KnownTexts ==
  /\ NoText \in Texts /\ "ipv4" \in Texts /\ Localhost \in Texts /\ AnyAddress \in Texts
  /\ DefaultMime \in Texts
  BY ServerAssumption

\* uint16 yields a port number, whatever integer the configuration holds.
LEMMA PortRange == \A n \in Int : uint16(n) \in 0 .. kMaxPort
<1>1. kMaxPort \in Nat
  BY DEF kMaxPort
<1>2. ASSUME NEW n \in Int, NEW m \in Nat PROVE n % (m + 1) \in 0 .. m
  OBVIOUS
<1> QED
  BY <1>1, <1>2 DEF uint16

------------------------------------------------------------------------------
(***************************************************************************)
(* The words of a mime file are those of its entries, one entry after the  *)
(* other.                                                                  *)
(***************************************************************************)
\* A word, in an entry and in a file.
Words2 == [text : Texts, ends : BOOLEAN]
FileWord == [text : Texts, ends : BOOLEAN, cut : BOOLEAN]

\* The words of an entry are its type and its extensions.
LEMMA EntryWordsAre ==
  ASSUME NEW entry \in Entry
  PROVE  /\ EntryWords(entry) \in Seq(Words2)
         /\ Len(EntryWords(entry)) = Len(entry.exts) + 1 /\ Len(entry.exts) \in Nat \ {0}
         /\ EntryWords(entry)[1] = [text |-> entry.type, ends |-> FALSE]
         /\ \A i \in 1 .. Len(entry.exts) :
              EntryWords(entry)[i + 1] = [text |-> entry.exts[i], ends |-> i = Len(entry.exts)]
<1> DEFINE exts == entry.exts
           first == [text |-> entry.type, ends |-> FALSE]
           word(i) == [text |-> exts[i], ends |-> i = Len(exts)]
           others == [i \in 1 .. Len(exts) |-> word(i)]
<1>1. exts \in Seq(Texts \ {NoMime}) /\ exts # <<>> /\ entry.type \in Texts
  BY DEF Entry
<1> HIDE DEF exts
<1>2. Len(exts) \in Nat \ {0} /\ DOMAIN exts = 1 .. Len(exts)
  BY <1>1, LenProperties, EmptySeq
<1>3. \A i \in 1 .. Len(exts) : exts[i] \in Texts
  BY <1>1, ElementOfSeq
<1>4. others \in [1 .. Len(exts) -> Words2] /\ \A i \in 1 .. Len(exts) : others[i] = word(i)
  BY <1>3 DEF Words2
<1>5. <<first>> \in Seq(Words2) /\ Len(<<first>>) = 1 /\ <<first>>[1] = first
  <2>1. first \in Words2
    BY <1>1 DEF Words2
  <2> HIDE DEF first
  <2> QED
    BY <2>1, OneElement
<1>6. EntryWords(entry) = <<first>> \o others
  BY <1>2 DEF EntryWords, exts
<1> HIDE DEF others, word, first
<1>7. others \in Seq(Words2) /\ Len(others) = Len(exts)
  <2>1. others \in Seq(Words2)
    BY <1>2, <1>4, SeqDef
  <2> DEFINE m == Len(others)
             n == Len(exts)
  <2>2. m \in Nat /\ n \in Nat /\ 1 .. m = 1 .. n
    BY <1>2, <1>4, <2>1, LenProperties
  <2> HIDE DEF m, n
  <2>3. m = n
    BY <2>2
  <2> QED
    BY <2>1, <2>3 DEF m, n
<1> DEFINE all == <<first>> \o others
<1>8. /\ all \in Seq(Words2) /\ Len(all) = 1 + Len(exts)
      /\ \A i \in 1 .. 1 + Len(exts) :
           all[i] = IF i =< 1 THEN <<first>>[i] ELSE others[i - 1]
  BY <1>5, <1>7, ConcatProperties
<1> HIDE DEF all
<1>9. all[1] = first
  BY <1>2, <1>5, <1>8
<1>10. ASSUME NEW i \in 1 .. Len(exts) PROVE all[i + 1] = word(i)
  <2>1. i + 1 \in 1 .. 1 + Len(exts) /\ ~ (i + 1 =< 1) /\ (i + 1) - 1 = i
    BY <1>2
  <2> QED
    BY <1>4, <1>8, <2>1
<1> QED
  BY <1>2, <1>6, <1>8, <1>9, <1>10 DEF all, exts, first, word

\* The words of one more entry.
LEMMA AllWordsProperties ==
  /\ AllWords(<<>>) = <<>>
  /\ \A es \in Seq(Entry) : AllWords(es) \in Seq(Words2)
  /\ \A es \in Seq(Entry), entry \in Entry :
       AllWords(Append(es, entry)) = AllWords(es) \o EntryWords(entry)
<1> DEFINE Pieces(es) == [i \in DOMAIN es |-> EntryWords(es[i])]
           T == Seq(Words2)
<1>1. ASSUME NEW es \in Seq(Entry)
      PROVE  /\ Pieces(es) \in Seq(T) /\ Len(Pieces(es)) = Len(es) /\ DOMAIN es = 1 .. Len(es)
             /\ Len(es) \in Nat
  <2>1. DOMAIN es = 1 .. Len(es) /\ Len(es) \in Nat /\ \A i \in 1 .. Len(es) : es[i] \in Entry
    BY LenProperties, ElementOfSeq
  <2>2. \A i \in 1 .. Len(es) : EntryWords(es[i]) \in T
    BY <2>1, EntryWordsAre
  <2>3. Pieces(es) = [i \in 1 .. Len(es) |-> EntryWords(es[i])]
    BY <2>1
  <2>4. Pieces(es) \in [1 .. Len(es) -> T]
    BY <2>2, <2>3
  <2> HIDE DEF Pieces, T
  <2>5. Pieces(es) \in Seq(T)
    BY <2>1, <2>4, SeqDef
  <2>6. DOMAIN Pieces(es) = 1 .. Len(Pieces(es)) /\ Len(Pieces(es)) \in Nat
    BY <2>5, LenProperties
  <2> QED
    BY <2>1, <2>4, <2>5, <2>6
<1>2. \A es \in Seq(Entry) : AllWords(es) \in Seq(Words2)
  BY <1>1, FlattenProperties DEF AllWords
<1>3. AllWords(<<>>) = <<>>
  <2>1. Pieces(<<>>) = <<>>
    OBVIOUS
  <2>2. FlattenSeq(<<>>) = <<>>
    BY FlattenProperties
  <2> QED
    BY <2>1, <2>2 DEF AllWords
<1>4. ASSUME NEW es \in Seq(Entry), NEW entry \in Entry
      PROVE  AllWords(Append(es, entry)) = AllWords(es) \o EntryWords(entry)
  <2> DEFINE more == Append(es, entry)
             words == EntryWords(entry)
  <2>1. /\ more \in Seq(Entry) /\ Len(more) = Len(es) + 1 /\ more[Len(es) + 1] = entry
        /\ \A i \in 1 .. Len(es) : more[i] = es[i]
    BY OneMore
  <2>2. words \in T
    BY EntryWordsAre
  <2> HIDE DEF more
  <2>3. Pieces(more) = Append(Pieces(es), words)
    <3>1. /\ Pieces(es) \in Seq(T) /\ Len(Pieces(es)) = Len(es) /\ Len(es) \in Nat
          /\ Pieces(more) \in Seq(T) /\ Len(Pieces(more)) = Len(es) + 1
          /\ DOMAIN es = 1 .. Len(es) /\ DOMAIN more = 1 .. Len(es) + 1
      <4> HIDE DEF Pieces
      <4> QED
        BY <1>1, <2>1
    <3>2. /\ \A i \in 1 .. Len(es) : Pieces(more)[i] = Pieces(es)[i]
          /\ Pieces(more)[Len(es) + 1] = words
      <4>1. Len(es) + 1 \in DOMAIN more
            /\ \A i \in 1 .. Len(es) : i \in DOMAIN more /\ i \in DOMAIN es
        BY <3>1
      <4>2. ASSUME NEW i \in 1 .. Len(es) PROVE Pieces(more)[i] = Pieces(es)[i]
        BY <2>1, <4>1, Zenon
      <4>3. Pieces(more)[Len(es) + 1] = words
        BY <2>1, <4>1, Zenon
      <4> HIDE DEF Pieces, words
      <4> QED
        BY <4>2, <4>3
    <3> HIDE DEF Pieces, words, T
    <3>3. /\ Append(Pieces(es), words) \in Seq(T) /\ Len(Append(Pieces(es), words)) = Len(es) + 1
          /\ \A i \in 1 .. Len(es) : Append(Pieces(es), words)[i] = Pieces(es)[i]
          /\ Append(Pieces(es), words)[Len(es) + 1] = words
      BY <2>2, <3>1, AppendProperties
    <3>4. \A i \in 1 .. Len(es) + 1 : Pieces(more)[i] = Append(Pieces(es), words)[i]
      BY <3>1, <3>2, <3>3
    <3> QED
      BY <3>1, <3>3, <3>4, SeqEqual
  <2>4. FlattenSeq(Append(Pieces(es), words)) = FlattenSeq(Pieces(es)) \o words
    <3> HIDE DEF Pieces, words
    <3> QED
      BY <1>1, <2>2, FlattenProperties
  <2>5. AllWords(more) = FlattenSeq(Pieces(more)) /\ AllWords(es) = FlattenSeq(Pieces(es))
    BY DEF AllWords
  <2> QED
    BY <2>3, <2>4, <2>5 DEF more
<1> QED
  BY <1>2, <1>3, <1>4

\* The words of the first n entries.
WordsOf(es, n) == AllWords(SubSeq(es, 1, n))
Extends(t, s) == Len(s) =< Len(t) /\ \A i \in 1 .. Len(s) : t[i] = s[i]

LEMMA WordsOfProperties ==
  ASSUME NEW es \in Seq(Entry)
  PROVE  /\ WordsOf(es, 0) = <<>> /\ WordsOf(es, Len(es)) = AllWords(es) /\ Len(es) \in Nat
         /\ \A n \in 0 .. Len(es) : WordsOf(es, n) \in Seq(Words2)
         /\ \A n \in 1 .. Len(es) :
              es[n] \in Entry /\ WordsOf(es, n) = WordsOf(es, n - 1) \o EntryWords(es[n])
<1> DEFINE part(n) == SubSeq(es, 1, n)
<1>1. Len(es) \in Nat
  BY LenProperties
<1>2. ASSUME NEW n \in 0 .. Len(es) PROVE part(n) \in Seq(Entry)
  <2>1. 1 \in 1 .. Len(es) + 1
    BY <1>1
  <2> QED
    BY <2>1, SubSeqType
<1>3. part(0) = <<>> /\ part(Len(es)) = es
  BY SubSeqEmpty, SubSeqFull
<1>4. ASSUME NEW n \in 1 .. Len(es)
      PROVE  es[n] \in Entry /\ WordsOf(es, n) = WordsOf(es, n - 1) \o EntryWords(es[n])
  <2>1. es[n] \in Entry /\ n - 1 \in 0 .. Len(es) /\ 1 \in 1 .. Len(es)
    BY <1>1, ElementOfSeq
  <2>2. part(n) = part(n - 1) \o <<es[n]>>
    BY <2>1, SubSeqRecursiveSecond
  <2>3. part(n - 1) \in Seq(Entry)
    BY <1>2, <2>1
  <2> HIDE DEF part
  <2>4. part(n) = Append(part(n - 1), es[n])
    BY <2>1, <2>2, <2>3, AppendIsConcat
  <2>5. AllWords(part(n)) = AllWords(part(n - 1)) \o EntryWords(es[n])
    BY <2>1, <2>3, <2>4, AllWordsProperties
  <2> QED
    BY <2>1, <2>5 DEF WordsOf, part
<1>5. \A n \in 0 .. Len(es) : AllWords(part(n)) \in Seq(Words2)
  <2> HIDE DEF part
  <2> QED
    BY <1>2, AllWordsProperties
<1>6. AllWords(part(0)) = <<>> /\ AllWords(part(Len(es))) = AllWords(es)
  BY <1>3, AllWordsProperties
<1> QED
  BY <1>1, <1>4, <1>5, <1>6 DEF WordsOf

\* What is written behind an entry does not change the words before.
LEMMA WordsExtend ==
  ASSUME NEW es \in Seq(Entry)
  PROVE  \A k \in 0 .. Len(es) : \A n \in 0 .. k : Extends(WordsOf(es, k), WordsOf(es, n))
<1> DEFINE P == {k \in 0 .. Len(es) : \A n \in 0 .. k : Extends(WordsOf(es, k), WordsOf(es, n))}
<1>1. ASSUME NEW k \in 0 .. Len(es)
      PROVE  Len(WordsOf(es, k)) \in Nat /\ Extends(WordsOf(es, k), WordsOf(es, k))
  <2>1. Len(WordsOf(es, k)) \in Nat
    BY WordsOfProperties, LenProperties
  <2> QED
    BY <2>1 DEF Extends
<1>2. 0 \in P
  <2>1. 0 \in 0 .. Len(es) /\ 0 .. 0 = {0}
    BY WordsOfProperties
  <2> QED
    BY <1>1, <2>1
<1>3. ASSUME NEW k \in 1 .. Len(es), k - 1 \in P PROVE k \in P
  <2> DEFINE now == WordsOf(es, k)
             before == WordsOf(es, k - 1)
             words == EntryWords(es[k])
  <2>1. k \in 0 .. Len(es) /\ k - 1 \in 0 .. Len(es)
    BY WordsOfProperties
  <2>2. now = before \o words /\ before \in Seq(Words2) /\ words \in Seq(Words2)
    BY <2>1, WordsOfProperties, EntryWordsAre
  <2> HIDE DEF now, before, words
  <2>3. Extends(now, before)
    <3>1. /\ Len(now) = Len(before) + Len(words) /\ Len(before) \in Nat /\ Len(words) \in Nat
          /\ \A i \in 1 .. Len(before) + Len(words) :
               now[i] = IF i =< Len(before) THEN before[i] ELSE words[i - Len(before)]
      BY <2>2, ConcatProperties, LenProperties
    <3> QED
      BY <3>1 DEF Extends
  <2>4. ASSUME NEW n \in 0 .. k PROVE Extends(now, WordsOf(es, n))
    <3>1. CASE n = k
      BY <1>1, <2>1, <3>1 DEF now
    <3>2. CASE n # k
      <4>1. n \in 0 .. k - 1 /\ n \in 0 .. Len(es)
        BY <2>1, <3>2
      <4>2. Extends(before, WordsOf(es, n))
        BY <1>3, <4>1 DEF before
      <4>3. Len(WordsOf(es, n)) \in Nat /\ Len(before) \in Nat /\ Len(now) \in Nat
        BY <1>1, <2>1, <4>1 DEF before, now
      <4> QED
        BY <2>3, <4>2, <4>3 DEF Extends
    <3> QED
      BY <3>1, <3>2
  <2> QED
    BY <2>1, <2>4 DEF now
<1>4. \A k \in 0 .. Len(es) : k \in P
  <2>1. Len(es) \in Nat
    BY WordsOfProperties
  <2> HIDE DEF P
  <2> QED
    BY <1>2, <1>3, <2>1, RunInduction
<1> QED
  BY <1>4

\* Where the words of an entry are.
LEMMA WordAt ==
  ASSUME NEW es \in Seq(Entry), NEW n \in 0 .. Len(es), NEW m \in Nat,
         Len(WordsOf(es, n)) + m + 1 =< Len(AllWords(es)),
         n < Len(es) => m =< Len(es[n + 1].exts), n = Len(es) => m = 0
  PROVE  /\ n < Len(es)
         /\ AllWords(es)[Len(WordsOf(es, n)) + m + 1] = EntryWords(es[n + 1])[m + 1]
<1> DEFINE at == Len(WordsOf(es, n))
<1>1. Len(es) \in Nat /\ AllWords(es) = WordsOf(es, Len(es)) /\ WordsOf(es, n) \in Seq(Words2)
  BY WordsOfProperties
<1>2. at \in Nat
  BY <1>1, LenProperties
<1>3. n < Len(es)
  <2>1. CASE n = Len(es)
    BY <1>1, <1>2, <2>1
  <2> QED
    BY <1>1, <2>1
<1> DEFINE words == EntryWords(es[n + 1])
           now == WordsOf(es, n + 1)
           before == WordsOf(es, n)
<1>4. n + 1 \in 1 .. Len(es) /\ n + 1 \in 0 .. Len(es) /\ (n + 1) - 1 = n
  BY <1>1, <1>3
<1>5. es[n + 1] \in Entry /\ now = before \o words
  BY <1>4, WordsOfProperties
<1>6. words \in Seq(Words2) /\ Len(words) = Len(es[n + 1].exts) + 1 /\ Len(es[n + 1].exts) \in Nat
  BY <1>5, EntryWordsAre
<1>7. Extends(AllWords(es), now)
  BY <1>1, <1>4, WordsExtend
<1> HIDE DEF words, now, before
<1>8. /\ Len(now) = Len(before) + Len(words)
      /\ \A i \in 1 .. Len(before) + Len(words) :
           now[i] = IF i =< Len(before) THEN before[i] ELSE words[i - Len(before)]
  BY <1>1, <1>5, <1>6, ConcatProperties DEF before
<1>9. at = Len(before)
  BY DEF before
<1> HIDE DEF at
<1>10. m + 1 \in 1 .. Len(words)
  BY <1>3, <1>6
<1> DEFINE i == at + m + 1
<1>11. i \in 1 .. Len(before) + Len(words) /\ ~ (i =< Len(before)) /\ i - Len(before) = m + 1
  BY <1>2, <1>6, <1>9, <1>10
<1> HIDE DEF i
<1>12. now[i] = words[m + 1]
  BY <1>8, <1>11
<1>13. AllWords(es)[i] = now[i]
  BY <1>7, <1>8, <1>11 DEF Extends
<1> QED
  BY <1>3, <1>12, <1>13 DEF i, at, words

------------------------------------------------------------------------------
(***************************************************************************)
(* The table that the loop has made of the words so far.                   *)
(***************************************************************************)
Tables == UNION {[D -> Texts] : D \in SUBSET Texts}
MimeScans == [mime : Texts, table : Tables, failed : BOOLEAN]

LEMMA NoMimeIsText == NoMime \in Texts /\ NoMime = ""
  BY ServerAssumption DEF NoMime, NoText

LEMMA StoredType ==
  ASSUME NEW table \in Tables, NEW ext \in Texts, NEW type \in Texts
  PROVE  Stored(table, ext, type) \in Tables
<1>1. PICK D \in SUBSET Texts : table \in [D -> Texts]
  BY DEF Tables
<1> DEFINE E == {ext} \cup D
           new == [e \in E |-> IF e = ext THEN type ELSE table[e]]
<1>2. new \in [E -> Texts] /\ E \in SUBSET Texts
  BY <1>1
<1>3. Stored(table, ext, type) = new
  BY <1>1 DEF Stored
<1> HIDE DEF E, new
<1> QED
  BY <1>2, <1>3, Zenon DEF Tables

LEMMA ReadingType == Reading \in MimeScans /\ NoTypes \in Tables
<1>1. NoTypes \in [{} -> Texts]
  BY DEF NoTypes
<1>2. NoTypes \in Tables
  BY <1>1 DEF Tables
<1> QED
  BY <1>2, NoMimeIsText DEF Reading, MimeScans

LEMMA ReadWordType ==
  ASSUME NEW scan \in MimeScans, NEW word \in FileWord
  PROVE  ReadWord(scan, word) \in MimeScans
<1>1. scan.mime \in Texts /\ scan.table \in Tables /\ word.text \in Texts
  BY DEF MimeScans, FileWord
<1>2. ReadType(scan, word) \in MimeScans
  BY <1>1 DEF ReadType, MimeScans
<1>3. [scan EXCEPT !.failed = TRUE] \in MimeScans
  BY DEF MimeScans
<1> DEFINE table == Stored(scan.table, word.text, scan.mime)
           mimeNow == IF word.ends THEN NoMime ELSE scan.mime
<1>4. table \in Tables /\ mimeNow \in Texts
  BY <1>1, StoredType, NoMimeIsText
<1>5. ~word.cut => ReadExt(scan, word) = [scan EXCEPT !.table = table, !.mime = mimeNow]
  BY DEF ReadExt
<1> HIDE DEF table, mimeNow
<1>6. [scan EXCEPT !.table = table, !.mime = mimeNow] \in MimeScans
  BY <1>4 DEF MimeScans
<1>7. ReadExt(scan, word) \in MimeScans
  <2>1. word.cut => ReadExt(scan, word) = [scan EXCEPT !.failed = TRUE]
    BY DEF ReadExt
  <2> QED
    BY <1>3, <1>5, <1>6, <2>1
<1> QED
  BY <1>2, <1>7 DEF ReadWord

ReadStep == [x \in MimeScans \X FileWord |-> ReadWord(x[1], x[2])]
WordsRead == Loop(MimeScans, FileWord, Reading, ReadStep)

LEMMA ReadFold ==
  ASSUME NEW s \in Seq(FileWord)
  PROVE  FoldLeft(ReadWord, Reading, s) = WordsRead[s]
<1> DEFINE base == Reading
           D == DOMAIN s
           rec(it) == it = [S \in SUBSET D |->
             IF S = {} THEN base ELSE ReadWord(it[S \ {Max(S)}], s[Max(S)])]
           fold == CHOOSE it : rec(it)
<1>1. FoldLeft(ReadWord, base, s) = fold[D]
  BY DEF FoldLeft, MapThenFoldSet
<1>2. base \in MimeScans /\ ReadStep \in [MimeScans \X FileWord -> MimeScans]
  BY ReadingType, ReadWordType DEF ReadStep
<1> HIDE DEF base
<1>3. PICK h : FoldsSeq(h, MimeScans, FileWord, s, base, ReadStep)
  BY <1>2, SeqFoldExists
<1>4. rec(h)
  BY <1>3 DEF FoldsSeq, ReadStep
<1>5. rec(fold)
  <2> HIDE DEF rec
  <2> QED
    BY <1>4
<1>6. FoldsBy(fold, MimeScans, s, base, ReadStep)
  <2> HIDE DEF fold
  <2>1. fold[{}] = base
    BY <1>5
  <2>2. ASSUME NEW i \in 1 .. Len(s), fold[1 .. i - 1] \in MimeScans
        PROVE  fold[1 .. i] = ReadStep[<<fold[1 .. i - 1], s[i]>>]
    <3>1. /\ 1 .. i \in SUBSET (1 .. Len(s)) /\ 1 .. i # {} /\ s[i] \in FileWord
          /\ Max(1 .. i) = i /\ (1 .. i) \ {i} = 1 .. i - 1 /\ DOMAIN s = 1 .. Len(s)
      BY LenProperties, InitialSegment, ElementOfSeq
    <3>2. fold[1 .. i] = ReadWord(fold[1 .. i - 1], s[i])
      BY <1>5, <3>1
    <3> QED
      BY <2>2, <3>1, <3>2 DEF ReadStep
  <2> QED
    BY <2>1, <2>2 DEF FoldsBy
<1>7. FoldsTo(fold, s, WordsRead)
  <2> HIDE DEF fold
  <2> QED
    BY <1>2, <1>6, FoldIsLoop DEF WordsRead, base
<1>8. D = 1 .. Len(s)
  BY LenProperties
<1> QED
  BY <1>1, <1>7, <1>8, Zenon DEF FoldsTo, base

LEMMA WordsReadProperties ==
  /\ WordsRead[<<>>] = Reading
  /\ \A s \in Seq(FileWord) : WordsRead[s] \in MimeScans
  /\ \A s \in Seq(FileWord), word \in FileWord :
       WordsRead[Append(s, word)] = ReadWord(WordsRead[s], word)
<1>1. Reading \in MimeScans /\ ReadStep \in [MimeScans \X FileWord -> MimeScans]
  BY ReadingType, ReadWordType DEF ReadStep
<1>2. WordsRead \in [Seq(FileWord) -> MimeScans] /\ IsLoop(WordsRead, FileWord, Reading, ReadStep)
  BY <1>1, LoopProperties DEF WordsRead
<1>3. WordsRead[<<>>] = Reading
  BY <1>2 DEF IsLoop
<1>4. ASSUME NEW s \in Seq(FileWord), NEW word \in FileWord
      PROVE  WordsRead[Append(s, word)] = ReadWord(WordsRead[s], word)
  <2>1. WordsRead[s] \in MimeScans
    BY <1>2
  <2>2. WordsRead[Append(s, word)] = ReadStep[<<WordsRead[s], word>>]
    BY <1>2 DEF IsLoop
  <2> QED
    BY <2>1, <2>2 DEF ReadStep
<1> QED
  BY <1>2, <1>3, <1>4

\* The entries that have listed an extension when n of them and m words of the
\* next one are read.
Lists(exts, m, ext) == \E l \in 1 .. m - 1 : exts[l] = ext
Listed(es, n, m, ext) ==
  {i \in 1 .. n : ext \in Range(es[i].exts)} \cup {i \in {n + 1} : Lists(es[i].exts, m, ext)}

\* A table has the last of them.
KnowsExt(table, es, n, m, ext) ==
  /\ ext \in DOMAIN table <=> Listed(es, n, m, ext) # {}
  /\ Listed(es, n, m, ext) # {} => table[ext] = es[Max(Listed(es, n, m, ext))].type
Knows(table, es, n, m) == \A ext : KnowsExt(table, es, n, m, ext)

LEMMA KnowsNothing ==
  ASSUME NEW es \in Seq(Entry)
  PROVE  Knows(NoTypes, es, 0, 0)
<1>1. DOMAIN NoTypes = {}
  BY DEF NoTypes
<1>2. ASSUME NEW ext PROVE Listed(es, 0, 0, ext) = {}
  <2>1. 1 .. 0 = {} /\ 1 .. 0 - 1 = {}
    OBVIOUS
  <2> QED
    BY <2>1 DEF Listed, Lists
<1>3. ASSUME NEW ext PROVE KnowsExt(NoTypes, es, 0, 0, ext)
  BY <1>1, <1>2 DEF KnowsExt
<1> QED
  BY <1>3 DEF Knows

\* A type alone lists nothing.
LEMMA KnowsAtType ==
  ASSUME NEW es \in Seq(Entry), NEW n \in Nat, NEW table, Knows(table, es, n, 0)
  PROVE  Knows(table, es, n, 1)
<1>1. ASSUME NEW ext PROVE Listed(es, n, 1, ext) = Listed(es, n, 0, ext)
  <2>1. 1 .. 1 - 1 = {} /\ 1 .. 0 - 1 = {}
    OBVIOUS
  <2> QED
    BY <2>1 DEF Listed, Lists
<1>2. ASSUME NEW ext PROVE KnowsExt(table, es, n, 1, ext)
  <2>1. KnowsExt(table, es, n, 0, ext)
    BY DEF Knows
  <2> QED
    BY <1>1, <2>1 DEF KnowsExt
<1> QED
  BY <1>2 DEF Knows

\* An extension is stored.
LEMMA KnowsMore ==
  ASSUME NEW es \in Seq(Entry), NEW n \in Nat, n < Len(es), NEW m \in 1 .. Len(es[n + 1].exts),
         NEW table, Knows(table, es, n, m)
  PROVE  Knows(Stored(table, es[n + 1].exts[m], es[n + 1].type), es, n, m + 1)
<1> DEFINE new == es[n + 1].exts[m]
           type == es[n + 1].type
           after == Stored(table, new, type)
<1>1. m \in Nat /\ Len(es[n + 1].exts) \in Nat
  <2>1. n + 1 \in 1 .. Len(es)
    BY LenProperties
  <2>2. es[n + 1] \in Entry
    BY <2>1, ElementOfSeq
  <2> QED
    BY <2>2, EntryWordsAre
<1>2. ASSUME NEW ext
      PROVE  Lists(es[n + 1].exts, m + 1, ext) <=> (Lists(es[n + 1].exts, m, ext) \/ ext = new)
  <2>1. 1 .. (m + 1) - 1 = (1 .. m - 1) \cup {m}
    BY <1>1
  <2> QED
    BY <2>1 DEF Lists
<1>3. /\ DOMAIN after = {new} \cup DOMAIN table /\ after[new] = type
      /\ \A ext \in DOMAIN table : ext # new => after[ext] = table[ext]
  BY DEF Stored
<1> HIDE DEF new, type, after
<1>4. ASSUME NEW ext, ext # new PROVE KnowsExt(after, es, n, m + 1, ext)
  <2>1. KnowsExt(table, es, n, m, ext)
    BY DEF Knows
  <2>2. Listed(es, n, m + 1, ext) = Listed(es, n, m, ext)
    BY <1>2, <1>4 DEF Listed
  <2>3. ext \in DOMAIN after <=> ext \in DOMAIN table
    BY <1>3, <1>4
  <2>4. ext \in DOMAIN table => after[ext] = table[ext]
    BY <1>3, <1>4
  <2> QED
    BY <2>1, <2>2, <2>3, <2>4 DEF KnowsExt
<1>5. KnowsExt(after, es, n, m + 1, new)
  <2> DEFINE listed == Listed(es, n, m + 1, new)
  <2>1. n + 1 \in listed
    BY <1>2 DEF Listed
  <2>2. listed \in SUBSET Int /\ \A j \in listed : j =< n + 1
    BY DEF Listed
  <2> HIDE DEF listed
  <2>3. Max(listed) = n + 1
    BY <2>1, <2>2, MaxIs
  <2>4. listed # {} /\ new \in DOMAIN after /\ after[new] = es[Max(listed)].type
    BY <1>3, <2>1, <2>3 DEF type
  <2> QED
    BY <2>4 DEF KnowsExt, listed
<1> QED
  BY <1>4, <1>5 DEF Knows, after, new, type

\* After its last extension an entry is one of those that are read.
LEMMA KnowsWhole ==
  ASSUME NEW es \in Seq(Entry), NEW n \in Nat, n < Len(es), NEW table,
         Knows(table, es, n, Len(es[n + 1].exts) + 1)
  PROVE  Knows(table, es, n + 1, 0)
<1> DEFINE exts == es[n + 1].exts
<1>1. exts \in Seq(Texts \ {NoMime})
  <2>1. n + 1 \in 1 .. Len(es)
    BY LenProperties
  <2>2. es[n + 1] \in Entry
    BY <2>1, ElementOfSeq
  <2> QED
    BY <2>2 DEF Entry
<1>2. Len(exts) \in Nat /\ DOMAIN exts = 1 .. Len(exts)
  BY <1>1, LenProperties
<1>3. ASSUME NEW ext
      PROVE  Lists(exts, Len(exts) + 1, ext) <=> ext \in Range(exts)
  <2>1. 1 .. (Len(exts) + 1) - 1 = DOMAIN exts
    BY <1>2
  <2> QED
    BY <2>1 DEF Lists, Range
<1>4. ASSUME NEW ext
      PROVE  Listed(es, n + 1, 0, ext) = Listed(es, n, Len(exts) + 1, ext)
  <2>1. 1 .. 0 - 1 = {} /\ 1 .. n + 1 = (1 .. n) \cup {n + 1}
    OBVIOUS
  <2> QED
    BY <1>3, <2>1 DEF Listed, Lists
<1>5. ASSUME NEW ext PROVE KnowsExt(table, es, n + 1, 0, ext)
  <2>1. KnowsExt(table, es, n, Len(exts) + 1, ext)
    BY DEF Knows
  <2> QED
    BY <1>4, <2>1 DEF KnowsExt
<1> QED
  BY <1>5 DEF Knows

\* Where the loop is after j whole words: behind n entries and m words.
ReadTo(scan, es, j, n, m) ==
  /\ j = Len(WordsOf(es, n)) + m
  /\ m > 0 => n < Len(es) /\ m =< Len(es[n + 1].exts)
  /\ ~scan.failed
  /\ scan.mime = IF m = 0 THEN NoMime ELSE es[n + 1].type
  /\ Knows(scan.table, es, n, m)

IsAt(scan, es, j) == \E n \in 0 .. Len(es), m \in Nat : ReadTo(scan, es, j, n, m)

LEMMA ReadOneMore ==
  ASSUME NEW es \in Seq(Entry), NEW j \in Nat, j + 1 =< Len(AllWords(es)),
         NEW scan \in MimeScans, IsAt(scan, es, j), NEW word \in FileWord, ~word.cut,
         word.text = AllWords(es)[j + 1].text, word.ends = AllWords(es)[j + 1].ends
  PROVE  IsAt(ReadWord(scan, word), es, j + 1)
<1>1. PICK n \in 0 .. Len(es), m \in Nat : ReadTo(scan, es, j, n, m)
  BY DEF IsAt
<1>2. Len(es) \in Nat /\ n \in Nat /\ Len(WordsOf(es, n)) \in Nat
  BY WordsOfProperties, LenProperties
<1>3. n < Len(es) /\ AllWords(es)[j + 1] = EntryWords(es[n + 1])[m + 1]
  <2>1. Len(WordsOf(es, n)) + m + 1 =< Len(AllWords(es))
    BY <1>1, <1>2 DEF ReadTo
  <2>2. n = Len(es) => m = 0
    BY <1>1 DEF ReadTo
  <2>3. n < Len(es) => m =< Len(es[n + 1].exts)
    <3>1. n < Len(es) => es[n + 1] \in Entry
      BY <1>2, ElementOfSeq
    <3>2. n < Len(es) => Len(es[n + 1].exts) \in Nat
      BY <3>1, EntryWordsAre
    <3> QED
      BY <1>1, <3>2 DEF ReadTo
  <2>4. n < Len(es) /\ AllWords(es)[Len(WordsOf(es, n)) + m + 1] = EntryWords(es[n + 1])[m + 1]
    BY <2>1, <2>2, <2>3, WordAt
  <2> QED
    BY <1>1, <2>4 DEF ReadTo
<1> DEFINE entry == es[n + 1]
           len == Len(entry.exts)
<1>4. n + 1 \in 0 .. Len(es) /\ entry \in Entry /\ len \in Nat \ {0}
  <2>1. n + 1 \in 1 .. Len(es)
    BY <1>2, <1>3
  <2>2. entry \in Entry
    BY <2>1, ElementOfSeq
  <2> HIDE DEF entry
  <2>3. len \in Nat \ {0}
    BY <2>2, EntryWordsAre
  <2> QED
    BY <1>2, <2>1, <2>2, <2>3
<1>5. entry.type # NoMime
  BY <1>4 DEF Entry
<1>6. /\ EntryWords(entry)[1] = [text |-> entry.type, ends |-> FALSE]
      /\ \A i \in 1 .. len : EntryWords(entry)[i + 1] = [text |-> entry.exts[i], ends |-> i = len]
  BY <1>4, EntryWordsAre
<1>7. scan.mime = IF m = 0 THEN NoMime ELSE entry.type
  BY <1>1 DEF ReadTo
<1>8. CASE m = 0
  <2>1. word.text = entry.type
    BY <1>3, <1>6, <1>8
  <2>2. ReadWord(scan, word) = [scan EXCEPT !.mime = entry.type]
    BY <1>7, <1>8, <2>1 DEF ReadWord, ReadType
  <2> DEFINE now == [scan EXCEPT !.mime = entry.type]
  <2>3. now.mime = entry.type /\ now.table = scan.table /\ now.failed = scan.failed
    BY DEF MimeScans
  <2> HIDE DEF now
  <2>4. Knows(now.table, es, n, 1)
    BY <1>1, <1>2, <1>8, <2>3, KnowsAtType DEF ReadTo
  <2>5. j + 1 = Len(WordsOf(es, n)) + 1
    BY <1>1, <1>2, <1>8 DEF ReadTo
  <2>6. ReadTo(now, es, j + 1, n, 1)
    BY <1>1, <1>3, <1>4, <2>3, <2>4, <2>5 DEF ReadTo
  <2> QED
    BY <2>2, <2>6 DEF IsAt, now
<1>9. CASE m > 0
  <2> DEFINE table == Stored(scan.table, entry.exts[m], entry.type)
  <2>1. m \in 1 .. len
    BY <1>1, <1>4, <1>9 DEF ReadTo
  <2>2. word.text = entry.exts[m] /\ word.ends = (m = len)
    <3>1. AllWords(es)[j + 1] = [text |-> entry.exts[m], ends |-> m = len]
      BY <1>3, <1>6, <2>1
    <3> HIDE DEF entry, len
    <3> QED
      BY <3>1
  <2>3. scan.mime = entry.type
    BY <1>7, <1>9
  <2> DEFINE mimeNow == IF m = len THEN NoMime ELSE entry.type
             now == [scan EXCEPT !.table = table, !.mime = mimeNow]
  <2>4. ReadWord(scan, word) = now
    BY <1>5, <2>2, <2>3 DEF ReadWord, ReadExt
  <2>5. Knows(table, es, n, m + 1)
    BY <1>1, <1>2, <1>3, <2>1, KnowsMore DEF ReadTo
  <2>6. now.mime = mimeNow /\ now.table = table /\ now.failed = scan.failed
    <3> HIDE DEF table, mimeNow
    <3> QED
      BY DEF MimeScans
  <2> HIDE DEF now, table
  <2>7. j + 1 = Len(WordsOf(es, n)) + (m + 1) /\ ~now.failed
    BY <1>1, <1>2, <2>6 DEF ReadTo
  <2>8. CASE m < len
    <3>1. ReadTo(now, es, j + 1, n, m + 1)
      BY <1>3, <1>4, <2>5, <2>6, <2>7, <2>8 DEF ReadTo
    <3> QED
      BY <2>4, <3>1 DEF IsAt
  <2>9. CASE m = len
    <3>1. Knows(table, es, n + 1, 0)
      BY <1>2, <1>3, <2>5, <2>9, KnowsWhole
    <3>2. j + 1 = Len(WordsOf(es, n + 1)) + 0
      <4> DEFINE before == WordsOf(es, n)
                 words == EntryWords(entry)
      <4>1. n + 1 \in 1 .. Len(es) /\ (n + 1) - 1 = n
        BY <1>2, <1>3
      <4>2. WordsOf(es, n + 1) = before \o words /\ before \in Seq(Words2)
        BY <4>1, WordsOfProperties
      <4>3. words \in Seq(Words2) /\ Len(words) = len + 1
        BY <1>4, EntryWordsAre
      <4>4. Len(before) = Len(WordsOf(es, n))
        OBVIOUS
      <4> HIDE DEF before, words
      <4>5. Len(before \o words) = Len(before) + Len(words)
        BY <4>2, <4>3, ConcatProperties
      <4> QED
        BY <1>2, <1>4, <2>7, <2>9, <4>2, <4>3, <4>4, <4>5
    <3>3. now.mime = NoMime
      BY <2>6, <2>9
    <3>4. ReadTo(now, es, j + 1, n + 1, 0)
      BY <2>6, <2>7, <3>1, <3>2, <3>3 DEF ReadTo
    <3> QED
      BY <1>4, <2>4, <3>4 DEF IsAt
  <2> QED
    BY <1>4, <2>1, <2>8, <2>9
<1> QED
  BY <1>8, <1>9

\* A word of a file is a word of its entries.
LEMMA WordsAre ==
  ASSUME NEW file, IsMimeFile(file)
  PROVE  /\ Words(file) \in Seq(FileWord) /\ Len(Words(file)) = file.kept /\ file.kept \in Nat
         /\ file.kept =< Len(AllWords(file.entries))
         /\ \A i \in 1 .. file.kept :
              /\ Words(file)[i].text = AllWords(file.entries)[i].text
              /\ Words(file)[i].ends = AllWords(file.entries)[i].ends
              /\ Words(file)[i].cut = (i = file.kept /\ ~file.newline)
<1> DEFINE all == AllWords(file.entries)
           n == file.kept
           last(i) == i = n /\ ~file.newline
           word(i) == [text |-> all[i].text, ends |-> all[i].ends, cut |-> last(i)]
           words == [i \in 1 .. n |-> word(i)]
<1>1. all \in Seq(Words2) /\ n \in 0 .. Len(all) /\ file.newline \in BOOLEAN
  BY AllWordsProperties DEF IsMimeFile
<1>2. words = Words(file)
  BY DEF Words
<1> HIDE DEF all, n
<1>3. Len(all) \in Nat /\ n \in Nat /\ n =< Len(all)
  BY <1>1, LenProperties
<1>4. ASSUME NEW i \in 1 .. n PROVE word(i) \in FileWord
  <2>1. i \in 1 .. Len(all)
    BY <1>3
  <2>2. all[i] \in Words2
    BY <1>1, <2>1, ElementOfSeq
  <2>3. last(i) \in BOOLEAN
    OBVIOUS
  <2> HIDE DEF last
  <2> QED
    BY <2>2, <2>3 DEF Words2, FileWord
<1>5. \A i \in 1 .. n : /\ words[i].text = all[i].text /\ words[i].ends = all[i].ends
                        /\ words[i].cut = last(i)
  <2> HIDE DEF last
  <2> QED
    OBVIOUS
<1>6. words \in [1 .. n -> FileWord]
  <2> HIDE DEF word
  <2> QED
    BY <1>4
<1> HIDE DEF words
<1>7. words \in Seq(FileWord)
  BY <1>3, <1>6, SeqDef
<1>8. Len(words) = n
  <2> DEFINE m == Len(words)
  <2>1. m \in Nat /\ 1 .. m = 1 .. n
    BY <1>6, <1>7, LenProperties
  <2> HIDE DEF m
  <2>2. m = n
    BY <1>3, <2>1
  <2> QED
    BY <2>2 DEF m
<1> QED
  BY <1>2, <1>3, <1>5, <1>7, <1>8 DEF all, n

\* The words of a file up to one that touches its end.
LEMMA WholeWordsRead ==
  ASSUME NEW file, IsMimeFile(file), NEW k \in 0 .. file.kept, file.newline \/ k < file.kept
  PROVE  IsAt(WordsRead[SubSeq(Words(file), 1, k)], file.entries, k)
<1> DEFINE words == Words(file)
           es == file.entries
           part(j) == SubSeq(words, 1, j)
           P == {j \in 0 .. k : IsAt(WordsRead[part(j)], es, j)}
<1>1. /\ words \in Seq(FileWord) /\ Len(words) = file.kept /\ file.kept \in Nat
      /\ file.kept =< Len(AllWords(es))
      /\ \A i \in 1 .. file.kept : /\ words[i].text = AllWords(es)[i].text
                                   /\ words[i].ends = AllWords(es)[i].ends
                                   /\ words[i].cut = (i = file.kept /\ ~file.newline)
  BY WordsAre
<1>2. es \in Seq(Entry) /\ AllWords(es) \in Seq(Words2) /\ Len(AllWords(es)) \in Nat
  BY AllWordsProperties, LenProperties DEF IsMimeFile
<1>3. k \in Nat
  BY <1>1
<1> HIDE DEF words, es
<1>4. \A j \in 0 .. k : part(j) \in Seq(FileWord)
  <2>1. ASSUME NEW j \in 0 .. k PROVE part(j) \in Seq(FileWord)
    <3>1. 1 \in 1 .. Len(words) + 1 /\ j \in 0 .. Len(words)
      BY <1>1
    <3> QED
      BY <1>1, <3>1, SubSeqType
  <2> QED
    BY <2>1
<1>5. 0 \in P
  <2>1. WordsRead[part(0)] = Reading
    <3>1. part(0) = <<>>
      BY SubSeqEmpty
    <3> HIDE DEF part
    <3> QED
      BY <3>1, WordsReadProperties
  <2>2. ReadTo(Reading, es, 0, 0, 0)
    <3>1. WordsOf(es, 0) = <<>> /\ Len(<<>>) = 0
      BY <1>2, WordsOfProperties
    <3>2. Reading.mime = NoMime /\ ~Reading.failed /\ Reading.table = NoTypes
      BY DEF Reading
    <3>3. Knows(NoTypes, es, 0, 0)
      BY <1>2, KnowsNothing
    <3> QED
      BY <3>1, <3>2, <3>3 DEF ReadTo
  <2>3. 0 \in 0 .. Len(es) /\ 0 \in 0 .. k
    BY <1>2, <1>3, LenProperties
  <2>4. IsAt(Reading, es, 0)
    BY <2>2, <2>3 DEF IsAt
  <2> HIDE DEF part
  <2> QED
    BY <2>1, <2>3, <2>4
<1>6. ASSUME NEW j \in 1 .. k, j - 1 \in P PROVE j \in P
  <2> DEFINE scan == WordsRead[part(j - 1)]
  <2>1. /\ j - 1 \in 0 .. k /\ j \in 0 .. k /\ j \in 1 .. Len(words) /\ 1 \in 1 .. Len(words)
        /\ j - 1 \in Nat /\ (j - 1) + 1 = j /\ j =< Len(AllWords(es)) /\ j \in 1 .. file.kept
    BY <1>1, <1>2, <1>3
  <2>2. words[j] \in FileWord
    BY <1>1, <2>1, ElementOfSeq
  <2>3. part(j) = part(j - 1) \o <<words[j]>>
    BY <1>1, <2>1, SubSeqRecursiveSecond
  <2>4. part(j - 1) \in Seq(FileWord)
    BY <1>4, <2>1
  <2> HIDE DEF part
  <2>5. part(j) = Append(part(j - 1), words[j])
    BY <2>2, <2>3, <2>4, AppendIsConcat
  <2>6. WordsRead[part(j)] = ReadWord(scan, words[j]) /\ scan \in MimeScans
    BY <2>2, <2>4, <2>5, WordsReadProperties
  <2>7. IsAt(scan, es, j - 1)
    BY <1>6
  <2>8. ~words[j].cut
    <3>1. j = file.kept => file.newline
      BY <1>1, <2>1
    <3> QED
      BY <1>1, <2>1, <3>1
  <2>9. words[j].text = AllWords(es)[j].text /\ words[j].ends = AllWords(es)[j].ends
    BY <1>1, <2>1
  <2> HIDE DEF scan
  <2>10. IsAt(ReadWord(scan, words[j]), es, j)
    BY <1>2, <2>1, <2>2, <2>6, <2>7, <2>8, <2>9, ReadOneMore
  <2> QED
    BY <2>1, <2>6, <2>10
<1>7. \A j \in 0 .. k : j \in P
  <2> HIDE DEF P
  <2> QED
    BY <1>3, <1>5, <1>6, RunInduction
<1>8. k \in P
  <2> HIDE DEF P
  <2> QED
    BY <1>3, <1>7
<1> QED
  BY <1>8 DEF es, words

\* A file that is read has whole entries, and perhaps the type of one more that
\* touches the end of the file.
LEMMA FileRead ==
  ASSUME NEW file, IsMimeFile(file), ~LoadFails(file)
  PROVE  \E n \in 0 .. Len(file.entries) :
           /\ file.kept = Len(WordsOf(file.entries, n))
                \/ file.kept = Len(WordsOf(file.entries, n)) + 1
           /\ Knows(Table(file), file.entries, n, 0)
<1> DEFINE words == Words(file)
           es == file.entries
           k == file.kept
           scan == ReadWords(file)
<1>1. /\ words \in Seq(FileWord) /\ Len(words) = k /\ k \in Nat
      /\ \A i \in 1 .. k : words[i].cut = (i = k /\ ~file.newline)
  BY WordsAre
<1>2. scan = WordsRead[words]
  BY <1>1, ReadFold DEF ReadWords
<1>3. es \in Seq(Entry) /\ file.newline \in BOOLEAN
  BY DEF IsMimeFile
<1>4. ~scan.failed /\ scan.mime = NoMime /\ Table(file) = scan.table
  BY DEF LoadFails, Table
<1>5. \A n \in 0 .. Len(es) : Len(WordsOf(es, n)) \in Nat
  BY <1>3, WordsOfProperties, LenProperties
<1>6. ASSUME NEW before, NEW j, IsAt(before, es, j), before.mime = NoMime
      PROVE  \E n \in 0 .. Len(es) : j = Len(WordsOf(es, n)) /\ Knows(before.table, es, n, 0)
  <2>1. PICK n \in 0 .. Len(es), m \in Nat : ReadTo(before, es, j, n, m)
    BY <1>6 DEF IsAt
  <2>2. m = 0
    <3>1. CASE m > 0
      <4>1. n < Len(es) /\ before.mime = es[n + 1].type
        BY <2>1, <3>1 DEF ReadTo
      <4>2. n + 1 \in 1 .. Len(es)
        BY <1>3, <4>1, LenProperties
      <4>3. es[n + 1] \in Entry
        BY <1>3, <4>2, ElementOfSeq
      <4> QED
        BY <1>6, <4>1, <4>3 DEF Entry
    <3> QED
      BY <3>1
  <2> QED
    BY <1>5, <2>1, <2>2 DEF ReadTo
<1>7. CASE k = 0 \/ file.newline
  <2>1. SubSeq(words, 1, k) = words
    BY <1>1, SubSeqFull
  <2>2. IsAt(scan, es, k)
    <3>1. CASE file.newline
      <4>1. k \in 0 .. k
        BY <1>1
      <4> QED
        BY <1>2, <2>1, <3>1, <4>1, WholeWordsRead
    <3>2. CASE k = 0
      <4>1. words = <<>>
        BY <1>1, <3>2, EmptySeq
      <4>2. scan = Reading
        BY <1>2, <4>1, WordsReadProperties
      <4>3. ReadTo(Reading, es, 0, 0, 0)
        <5>1. WordsOf(es, 0) = <<>> /\ Len(<<>>) = 0
          BY <1>3, WordsOfProperties
        <5>2. Reading.mime = NoMime /\ ~Reading.failed /\ Reading.table = NoTypes
          BY DEF Reading
        <5>3. Knows(NoTypes, es, 0, 0)
          BY <1>3, KnowsNothing
        <5> QED
          BY <5>1, <5>2, <5>3 DEF ReadTo
      <4>4. 0 \in 0 .. Len(es)
        BY <1>3, LenProperties
      <4> QED
        BY <3>2, <4>2, <4>3, <4>4 DEF IsAt
    <3> QED
      BY <1>7, <3>1, <3>2
  <2> HIDE DEF scan
  <2> QED
    BY <1>4, <1>6, <2>2
<1>8. CASE k # 0 /\ ~file.newline
  <2> DEFINE front == SubSeq(words, 1, k - 1)
             before == WordsRead[front]
             word == words[k]
  <2>1. k \in 1 .. Len(words) /\ 1 \in 1 .. Len(words) /\ k - 1 \in 0 .. k /\ k - 1 < k
    BY <1>1, <1>8
  <2>2. word \in FileWord /\ word.cut
    BY <1>1, <1>8, <2>1, ElementOfSeq
  <2>3. words = front \o <<word>>
    <3>1. SubSeq(words, 1, k) = words
      BY <1>1, SubSeqFull
    <3>2. SubSeq(words, 1, k) = front \o <<word>>
      BY <1>1, <2>1, SubSeqRecursiveSecond
    <3> QED
      BY <3>1, <3>2
  <2>4. front \in Seq(FileWord)
    <3>1. 1 \in 1 .. Len(words) + 1 /\ k - 1 \in 0 .. Len(words)
      BY <1>1, <2>1
    <3> QED
      BY <1>1, <3>1, SubSeqType
  <2>5. IsAt(before, es, k - 1)
    BY <2>1, WholeWordsRead
  <2> HIDE DEF front, word, words
  <2>6. words = Append(front, word)
    BY <2>2, <2>3, <2>4, AppendIsConcat
  <2>7. scan = ReadWord(before, word) /\ before \in MimeScans
    BY <1>2, <2>2, <2>4, <2>6, WordsReadProperties
  <2> HIDE DEF before, scan
  <2>8. before.mime = NoMime
    <3>1. CASE before.mime # NoMime
      <4>1. scan = [before EXCEPT !.failed = TRUE]
        BY <2>2, <2>7, <3>1 DEF ReadWord, ReadExt
      <4>2. scan.failed
        BY <2>7, <4>1 DEF MimeScans
      <4> QED
        BY <1>4, <4>2
    <3> QED
      BY <3>1
  <2>9. scan = before
    BY <2>2, <2>7, <2>8 DEF ReadWord, ReadType
  <2>10. PICK n \in 0 .. Len(es) : /\ k - 1 = Len(WordsOf(es, n))
                                   /\ Knows(before.table, es, n, 0)
    BY <1>6, <2>5, <2>8
  <2>11. k = Len(WordsOf(es, n)) + 1
    BY <1>1, <1>5, <2>10
  <2> QED
    BY <1>4, <2>9, <2>10, <2>11
<1> QED
  BY <1>7, <1>8

\* These entries are the ones of which the file holds an extension.
LEMMA BegunIs ==
  ASSUME NEW file, IsMimeFile(file), NEW n \in 0 .. Len(file.entries),
         file.kept = Len(WordsOf(file.entries, n))
           \/ file.kept = Len(WordsOf(file.entries, n)) + 1
  PROVE  Begun(file) = 1 .. n
<1> DEFINE es == file.entries
           len(i) == Len(WordsOf(es, i))
<1>1. es \in Seq(Entry) /\ Len(es) \in Nat /\ DOMAIN es = 1 .. Len(es)
  BY LenProperties DEF IsMimeFile
<1>2. \A i \in 0 .. Len(es) : len(i) \in Nat
  BY <1>1, WordsOfProperties, LenProperties
<1>3. \A i \in 0 .. Len(es) : \A j \in 0 .. i : len(j) =< len(i)
  BY <1>1, WordsExtend DEF Extends
<1>4. ASSUME NEW i \in 1 .. Len(es) PROVE len(i - 1) + 2 =< len(i)
  <2> DEFINE before == WordsOf(es, i - 1)
             words == EntryWords(es[i])
  <2>1. i - 1 \in 0 .. Len(es) /\ es[i] \in Entry
    BY <1>1, ElementOfSeq
  <2>2. WordsOf(es, i) = before \o words /\ before \in Seq(Words2)
    BY <1>1, <2>1, WordsOfProperties
  <2>3. words \in Seq(Words2) /\ Len(words) = Len(es[i].exts) + 1 /\ Len(es[i].exts) \in Nat \ {0}
    BY <2>1, EntryWordsAre
  <2>4. len(i - 1) = Len(before) /\ Len(before) \in Nat
    BY <2>2, LenProperties
  <2> HIDE DEF before, words
  <2>5. Len(before \o words) = Len(before) + Len(words)
    BY <2>2, <2>3, ConcatProperties
  <2> HIDE DEF len
  <2>6. len(i) = Len(before) + Len(words)
    BY <2>2, <2>5 DEF len
  <2> QED
    BY <2>3, <2>4, <2>6
<1>5. Begun(file) = {i \in 1 .. Len(es) : len(i - 1) + 2 =< file.kept}
  BY <1>1 DEF Begun, WordsOf
<1>6. file.kept = len(n) \/ file.kept = len(n) + 1
  OBVIOUS
<1> HIDE DEF len, es
<1>7. n \in 0 .. Len(es)
  BY DEF es
<1>8. ASSUME NEW i \in 1 .. Len(es) PROVE len(i - 1) + 2 =< file.kept <=> i =< n
  <2>1. i - 1 \in 0 .. Len(es) /\ i \in 0 .. Len(es) /\ n \in Nat
    BY <1>1, <1>7
  <2>2. len(i - 1) \in Nat /\ len(i) \in Nat /\ len(n) \in Nat
    BY <1>2, <1>7, <2>1
  <2>3. CASE i =< n
    <3>1. len(i) =< len(n)
      <4>1. i \in 0 .. n
        BY <2>1, <2>3
      <4> QED
        BY <1>3, <1>7, <4>1
    <3> QED
      BY <1>4, <1>6, <2>2, <2>3, <3>1
  <2>4. CASE ~ (i =< n)
    <3>1. len(n) =< len(i - 1)
      <4>1. n \in 0 .. i - 1
        BY <2>1, <2>4
      <4> QED
        BY <1>3, <2>1, <4>1
    <3> QED
      BY <1>6, <2>2, <2>4, <3>1
  <2> QED
    BY <2>3, <2>4
<1> QED
  BY <1>1, <1>5, <1>7, <1>8

\* So the table gives every extension the type it was meant to have.
LEMMA TableIsMeant ==
  ASSUME NEW file, IsMimeFile(file), ~LoadFails(file), NEW ext
  PROVE  GetMime(Table(file), ext) = TypeMeant(file, ext)
<1> DEFINE es == file.entries
           table == Table(file)
<1>1. PICK n \in 0 .. Len(es) :
        /\ file.kept = Len(WordsOf(es, n)) \/ file.kept = Len(WordsOf(es, n)) + 1
        /\ Knows(table, es, n, 0)
  BY FileRead
<1>2. Begun(file) = 1 .. n
  BY <1>1, BegunIs
<1>3. es \in Seq(Entry) /\ Len(es) \in Nat
  BY LenProperties DEF IsMimeFile
<1> DEFINE listing == {i \in Begun(file) : ext \in Range(es[i].exts)}
<1>4. Listed(es, n, 0, ext) = listing
  <2>1. 1 .. 0 - 1 = {}
    OBVIOUS
  <2> QED
    BY <1>2, <2>1 DEF Listed, Lists
<1>5. KnowsExt(table, es, n, 0, ext)
  BY <1>1 DEF Knows
<1>6. ext = "" => listing = {}
  <2>1. ASSUME NEW i \in 1 .. n PROVE "" \notin Range(es[i].exts)
    <3>1. i \in 1 .. Len(es)
      BY <1>1, <1>3
    <3>2. es[i] \in Entry
      BY <1>3, <3>1, ElementOfSeq
    <3>3. es[i].exts \in Seq(Texts \ {NoMime})
      BY <3>2 DEF Entry
    <3> DEFINE exts == es[i].exts
    <3> HIDE DEF exts
    <3>4. DOMAIN exts = 1 .. Len(exts)
      BY <3>3, LenProperties DEF exts
    <3>5. \A j \in 1 .. Len(exts) : exts[j] \in Texts \ {NoMime}
      BY <3>3, ElementOfSeq DEF exts
    <3> QED
      BY <3>4, <3>5, NoMimeIsText DEF Range, exts
  <2> QED
    BY <1>2, <2>1
<1>7. TypeMeant(file, ext) = IF listing = {} THEN DefaultMime ELSE es[Max(listing)].type
  BY DEF TypeMeant
<1> HIDE DEF listing, es, table
<1>8. GetMime(table, ext) = IF ext # "" /\ ext \in DOMAIN table THEN table[ext] ELSE DefaultMime
  BY DEF GetMime
<1>9. ext \in DOMAIN table <=> listing # {}
  BY <1>4, <1>5 DEF KnowsExt
<1>10. listing # {} => table[ext] = es[Max(listing)].type
  BY <1>4, <1>5 DEF KnowsExt
<1>11. GetMime(table, ext) = TypeMeant(file, ext)
  BY <1>6, <1>7, <1>8, <1>9, <1>10
<1> QED
  BY <1>11 DEF table

LEMMA TableType ==
  ASSUME NEW file, IsMimeFile(file)
  PROVE  \A ext \in DOMAIN Table(file) : Table(file)[ext] \in Texts
<1>1. ReadWords(file) \in MimeScans
  BY WordsAre, ReadFold, WordsReadProperties DEF ReadWords
<1>2. Table(file) \in Tables
  BY <1>1 DEF Table, MimeScans
<1>3. PICK D \in SUBSET Texts : Table(file) \in [D -> Texts]
  BY <1>2 DEF Tables
<1> QED
  BY <1>3

------------------------------------------------------------------------------
(***************************************************************************)
(* Start-up, step by step.                                                 *)
(***************************************************************************)
\* The handler made for an entry is of the type of a location, the media type
\* looked up for it included.
LEMMA LocationTyped ==
  ASSUME document \in Documents, NEW entry \in RouteConf
  PROVE  Location(entry, Table(document.mime)) \in LocationType
<1> DEFINE table == Table(document.mime)
<1>1. \A ext : GetMime(table, ext) \in Texts
  <2>1. \A ext \in DOMAIN table : table[ext] \in Texts
    BY ServerAssumption, TableType
  <2> QED
    BY <2>1, KnownTexts DEF GetMime
<1>2. NoMime \in Texts
  BY KnownTexts DEF NoMime, NoText
<1>3. entry.type \in Texts /\ entry.path \in Texts /\ entry.root \in Texts
  BY DEF RouteConf
<1>4. CASE entry.type = "path"
  <2>1. Location(entry, table) = [kind |-> "path", serves |-> entry.path,
                                  mime |-> GetMime(table, Extension(entry.path))]
    BY <1>4 DEF Location
  <2> QED
    BY <1>1, <1>3, <1>4, <2>1 DEF LocationType
<1>5. CASE entry.type # "path"
  BY <1>2, <1>3, <1>5 DEF Location, LocationType
<1> QED
  BY <1>4, <1>5

\* A started worker is of the type of a worker.
LEMMA NewWorkerTyped == \A addr \in AddressType : NewWorker(addr) \in WorkerType
<1>1. ASSUME NEW addr \in AddressType, NEW nowhere \in [ip : Texts, port : 0 .. kMaxPort],
             NEW routed \in Seq(Seq(LocationType))
      PROVE  [st |-> "started", addr |-> addr, bound |-> nowhere, reuse |-> FALSE,
              error |-> FALSE, routed |-> routed] \in WorkerType
  BY DEF WorkerType
<1>2. Nowhere \in [ip : Texts, port : 0 .. kMaxPort]
  BY KnownTexts DEF Nowhere, kMaxPort
<1>3. <<>> \in Seq(Seq(LocationType))
  BY EmptySeq
<1> QED
  BY <1>1, <1>2, <1>3 DEF NewWorker

\* The defaults have the type of a configuration.
LEMMA DefaultConfTyped == DefaultConf \in ConfType /\ Len(DefaultConf.route) = 0
<1>1. PICK none \in Seq(RouteConf) : none = <<>>
  BY EmptySeq
<1>2. DefaultConf = [family |-> "ipv4", ip |-> Localhost, port |-> 8080,
                     worker_threads |-> 4, route |-> none]
  BY <1>1 DEF DefaultConf, DefaultListen, DefaultWorkerThreads
<1>3. DefaultConf \in ConfType
  BY <1>2, KnownTexts DEF ConfType
<1>4. DefaultConf.route = <<>>
  BY DEF DefaultConf
<1> QED
  BY <1>3, <1>4, EmptyLen

\* What the file is turned into has the type of a configuration.
LEMMA LoadedConfTyped == document \in Documents => FromDocument(document) \in ConfType
  BY ServerAssumption

\* Start-up begins with the invariant.
LEMMA InitInv == Init => IInv
<1> SUFFICES ASSUME Init PROVE IInv
  OBVIOUS
<1>1. TypeOK
  <2>1. locations \in Seq(LocationType) /\ workers \in Seq(WorkerType)
    BY EmptySeq DEF Init
  <2>2. address \in AddressType
    BY KnownTexts DEF Init, AddressType, kMaxPort
  <2>3. conf \in ConfType
    BY DefaultConfTyped DEF Init
  <2> QED
    BY <2>1, <2>2, <2>3 DEF Init, TypeOK
<1>2. RouterFollowsRoute
  <2>1. locations = <<>> /\ Len(locations) = 0 /\ 1 .. Len(locations) = {}
    BY EmptyLen DEF Init
  <2>2. Len(conf.route) = 0
    BY DefaultConfTyped DEF Init
  <2> QED
    BY <2>1, <2>2 DEF RouterFollowsRoute
<1>3. MainOrder /\ ReadyBeforeStart /\ WorkersInv
  BY EmptyLen DEF Init, MainOrder, ReadyBeforeStart, WorkersInv
<1> QED
  BY <1>1, <1>2, <1>3 DEF Init, IInv

------------------------------------------------------------------------------
\* The end of the process leaves everything else as it was.
LEMMA TerminateInv ==
  ASSUME IInv, NEW reason \in Reasons, Terminate(reason),
         UNCHANGED <<document, conf, mime, locations, address, workers>>
  PROVE  IInv'
<1>1. TypeOK'
  BY DEF IInv, TypeOK, Terminate
<1>2. RouterFollowsRoute' /\ WorkersInv'
  BY DEF IInv, RouterFollowsRoute, WorkersInv, WorkerInv
<1>3. MainOrder'
  BY DEF MainOrder, Terminate, Reasons
<1>4. ReadyBeforeStart'
  BY DEF IInv, ReadyBeforeStart, Ready, Terminate, Reasons
<1> QED
  BY <1>1, <1>2, <1>3, <1>4 DEF IInv

\* Loading the configuration keeps the invariant: there is nothing yet.
LEMMA LoadInv == IInv /\ Load => IInv'
<1> SUFFICES ASSUME IInv, Load PROVE IInv'
  OBVIOUS
<1>1. CASE document.file # "ok"
  BY <1>1, TerminateInv DEF Load, Reasons, disk
<1>2. CASE document.file = "ok"
  <2>1. /\ conf' = FromDocument(document) /\ pc' = "LoadMime"
        /\ UNCHANGED <<document, mime, locations, address, workers>>
        /\ locations = <<>> /\ workers = <<>>
    BY <1>2 DEF Load, disk, IInv, MainOrder
  <2>2. conf' \in ConfType
    BY <2>1, LoadedConfTyped DEF IInv
  <2>3. TypeOK'
    BY <2>1, <2>2 DEF IInv, TypeOK
  <2>4. RouterFollowsRoute'
    <3>1. Len(conf'.route) \in Nat
      BY <2>2, LenProperties DEF ConfType
    <3> QED
      BY <2>1, <3>1, EmptyLen DEF RouterFollowsRoute
  <2>5. MainOrder' /\ ReadyBeforeStart' /\ WorkersInv'
    BY <2>1, EmptyLen DEF MainOrder, ReadyBeforeStart, WorkersInv
  <2> QED
    BY <2>1, <2>3, <2>4, <2>5 DEF IInv
<1> QED
  BY <1>1, <1>2

\* Loading the mime table keeps the invariant.
LEMMA LoadMimeInv == IInv /\ LoadMime => IInv'
<1> SUFFICES ASSUME IInv, LoadMime PROVE IInv'
  OBVIOUS
<1>1. CASE ~document.mime.opens
  BY <1>1, TerminateInv DEF LoadMime, Reasons, disk
<1>2. CASE document.mime.opens /\ LoadFails(document.mime)
  BY <1>2, TerminateInv DEF LoadMime, Reasons, disk
<1>3. CASE document.mime.opens /\ ~LoadFails(document.mime)
  <2>1. /\ pc = "LoadMime" /\ mime' = Table(document.mime) /\ pc' = "SetUpRouter"
        /\ UNCHANGED <<document, conf, locations, address, workers>>
        /\ locations = <<>> /\ workers = <<>>
    BY <1>3 DEF LoadMime, disk, IInv, MainOrder
  <2>2. TypeOK'
    BY <2>1 DEF IInv, TypeOK
  <2>3. RouterFollowsRoute'
    BY <2>1, EmptyLen DEF IInv, RouterFollowsRoute
  <2>4. MainOrder' /\ ReadyBeforeStart' /\ WorkersInv'
    BY <2>1, EmptyLen DEF IInv, MainOrder, ReadyBeforeStart, WorkersInv
  <2> QED
    BY <2>1, <2>2, <2>3, <2>4 DEF IInv
<1> QED
  BY <1>1, <1>2, <1>3

\* Adding a location keeps the invariant: no worker is there to see it.
LEMMA SetUpRouterInv == IInv /\ SetUpRouter => IInv'
<1> SUFFICES ASSUME IInv, SetUpRouter PROVE IInv'
  OBVIOUS
<1> DEFINE entry == conf.route[Len(locations) + 1]
<1>1. CASE entry.type \notin {"path", "dir"}
  BY <1>1, TerminateInv DEF SetUpRouter, Reasons, disk
<1>2. CASE entry.type \in {"path", "dir"}
  <2>1. /\ pc = "SetUpRouter" /\ workers = <<>> /\ mime = Table(document.mime)
        /\ Len(locations) < Len(conf.route)
        /\ locations' = Append(locations, Location(entry, mime))
        /\ UNCHANGED <<document, pc, conf, mime, address, workers>>
    BY <1>2 DEF SetUpRouter, disk, IInv, MainOrder
  <2>2. locations \in Seq(LocationType) /\ Len(locations) \in Nat
    BY LenProperties DEF IInv, TypeOK
  <2>3. conf.route \in Seq(RouteConf) /\ Len(conf.route) \in Nat
    BY LenProperties DEF IInv, TypeOK, ConfType
  <2>4. Location(entry, mime) \in LocationType
    <3>1. entry \in RouteConf
      BY <2>1, <2>2, <2>3, ElementOfSeq
    <3> QED
      BY <2>1, <3>1, LocationTyped DEF IInv
  <2>5. /\ locations' \in Seq(LocationType)
        /\ Len(locations') = Len(locations) + 1
        /\ \A k \in 1 .. Len(locations) : locations'[k] = locations[k]
        /\ locations'[Len(locations) + 1] = Location(entry, mime)
    BY <2>1, <2>2, <2>4, AppendProperties
  <2>6. TypeOK'
    BY <2>1, <2>5 DEF IInv, TypeOK
  <2>7. RouterFollowsRoute'
    <3>1. Len(locations') =< Len(conf'.route)
      BY <2>1, <2>2, <2>3, <2>5
    <3>2. ASSUME NEW k \in 1 .. Len(locations')
          PROVE  locations'[k] = Location(conf'.route[k], mime')
      <4>1. CASE k \in 1 .. Len(locations)
        BY <2>1, <2>5, <4>1 DEF IInv, RouterFollowsRoute
      <4>2. CASE k = Len(locations) + 1
        BY <2>1, <2>5, <4>2
      <4> QED
        BY <2>2, <2>5, <4>1, <4>2
    <3> QED
      BY <3>1, <3>2 DEF RouterFollowsRoute
  <2>8. MainOrder' /\ ReadyBeforeStart' /\ WorkersInv'
    BY <2>1, EmptyLen DEF IInv, MainOrder, ReadyBeforeStart, WorkersInv
  <2> QED
    BY <2>1, <2>6, <2>7, <2>8 DEF IInv
<1> QED
  BY <1>1, <1>2

\* Taking the listen address makes everything ready that a worker is given.
LEMMA ToInetAddrInv == IInv /\ ToInetAddr => IInv'
<1> SUFFICES ASSUME IInv, ToInetAddr PROVE IInv'
  OBVIOUS
<1>1. CASE conf.family \notin Families
  BY <1>1, TerminateInv DEF ToInetAddr, Reasons, disk
<1>2. CASE conf.family \in Families
  <2>1. /\ pc = "SetUpRouter" /\ workers = <<>> /\ mime = Table(document.mime)
        /\ Len(locations) = Len(conf.route)
        /\ address' = InetAddr(conf)
        /\ pc' = "Start"
        /\ UNCHANGED <<document, conf, mime, locations, workers>>
    BY <1>2 DEF ToInetAddr, disk, IInv, MainOrder
  <2>2. address' \in AddressType
    <3>1. conf.family \in Texts /\ conf.ip \in Texts /\ conf.port \in Int
      BY DEF IInv, TypeOK, ConfType
    <3> QED
      BY <2>1, <3>1, PortRange DEF AddressType, InetAddr
  <2>3. TypeOK'
    BY <2>1, <2>2 DEF IInv, TypeOK
  <2>4. RouterFollowsRoute' /\ MainOrder'
    BY <2>1 DEF IInv, RouterFollowsRoute, MainOrder
  <2>5. ReadyBeforeStart'
    BY <2>1 DEF ReadyBeforeStart, Ready
  <2>6. WorkersInv'
    BY <2>1, EmptyLen DEF WorkersInv
  <2> QED
    BY <2>1, <2>3, <2>4, <2>5, <2>6 DEF IInv
<1> QED
  BY <1>1, <1>2

\* Starting a worker keeps the invariant: it is given the listen address.
LEMMA StartWorkerInv == IInv /\ StartWorker => IInv'
<1> SUFFICES ASSUME IInv, StartWorker PROVE IInv'
  OBVIOUS
<1> DEFINE fresh == NewWorker(address)
<1>1. /\ pc = "Start" /\ Ready
      /\ Len(workers) < conf.worker_threads
      /\ workers' = Append(workers, fresh)
      /\ UNCHANGED <<document, pc, conf, mime, locations, address>>
  BY DEF StartWorker, disk, shared, IInv, ReadyBeforeStart
<1>2. workers \in Seq(WorkerType) /\ Len(workers) \in Nat
  BY LenProperties DEF IInv, TypeOK
<1>3. fresh \in WorkerType
  BY NewWorkerTyped DEF IInv, TypeOK
<1>4. /\ workers' \in Seq(WorkerType)
      /\ Len(workers') = Len(workers) + 1
      /\ \A i \in 1 .. Len(workers) : workers'[i] = workers[i]
      /\ workers'[Len(workers) + 1] = fresh
  BY <1>1, <1>2, <1>3, AppendProperties
<1>5. TypeOK'
  <2>1. conf.worker_threads \in Int
    BY DEF IInv, TypeOK, ConfType
  <2>2. Len(workers') =< conf'.worker_threads
    BY <1>1, <1>2, <1>4, <2>1
  <2> QED
    BY <1>1, <1>4, <2>2 DEF IInv, TypeOK
<1>6. RouterFollowsRoute' /\ MainOrder' /\ ReadyBeforeStart'
  BY <1>1 DEF IInv, RouterFollowsRoute, MainOrder, ReadyBeforeStart, Ready
<1>7. WorkersInv'
  <2> SUFFICES ASSUME NEW i \in 1 .. Len(workers') PROVE WorkerInv(workers[i])'
    BY DEF WorkersInv
  <2>1. CASE i \in 1 .. Len(workers)
    BY <1>1, <1>4, <2>1 DEF IInv, WorkersInv, WorkerInv
  <2>2. CASE i = Len(workers) + 1
    BY <1>1, <1>4, <2>2 DEF WorkerInv, NewWorker
  <2> QED
    BY <1>2, <1>4, <2>1, <2>2
<1> QED
  BY <1>1, <1>5, <1>6, <1>7 DEF IInv

\* With all workers started main waits.
LEMMA StartedInv == IInv /\ Started => IInv'
<1> SUFFICES ASSUME IInv, Started PROVE IInv'
  OBVIOUS
<1>1. /\ pc = "Start" /\ Ready /\ pc' = "Wait"
      /\ UNCHANGED <<document, conf, mime, locations, address, workers>>
  BY DEF Started, disk, shared, IInv, ReadyBeforeStart
<1>2. TypeOK'
  BY <1>1 DEF IInv, TypeOK
<1>3. RouterFollowsRoute' /\ MainOrder' /\ ReadyBeforeStart' /\ WorkersInv'
  BY <1>1 DEF IInv, RouterFollowsRoute, MainOrder, ReadyBeforeStart, Ready,
              WorkersInv, WorkerInv
<1> QED
  BY <1>1, <1>2, <1>3 DEF IInv

\* Returning from main keeps it too.
LEMMA WaitInv == IInv /\ Wait => IInv'
<1> SUFFICES ASSUME IInv, Wait PROVE IInv'
  OBVIOUS
<1>1. /\ pc = "Wait" /\ Ready /\ pc' = "exit"
      /\ UNCHANGED <<document, conf, mime, locations, address, workers>>
  BY DEF Wait, disk, shared, IInv, ReadyBeforeStart
<1>2. TypeOK'
  BY <1>1 DEF IInv, TypeOK
<1>3. RouterFollowsRoute' /\ MainOrder' /\ ReadyBeforeStart' /\ WorkersInv'
  BY <1>1 DEF IInv, RouterFollowsRoute, MainOrder, ReadyBeforeStart, Ready,
              WorkersInv, WorkerInv
<1> QED
  BY <1>1, <1>2, <1>3 DEF IInv

\* A step of one worker keeps the invariant if that worker's part is kept.
LEMMA WorkerStepInv ==
  ASSUME IInv, NEW i \in DOMAIN workers, NEW w \in WorkerType, WorkerInv(w),
         workers' = [workers EXCEPT ![i] = w],
         UNCHANGED <<document, pc, conf, mime, locations, address>>
  PROVE  IInv'
<1>1. /\ workers \in Seq(WorkerType) /\ DOMAIN workers = 1 .. Len(workers)
      /\ i \in 1 .. Len(workers)
  BY LenProperties DEF IInv, TypeOK
<1>2. /\ workers' \in Seq(WorkerType)
      /\ Len(workers') = Len(workers)
      /\ \A j \in 1 .. Len(workers) : workers'[j] = IF j = i THEN w ELSE workers[j]
  BY <1>1, ExceptSeq
<1>3. workers # <<>>
  BY <1>1, EmptyLen
<1>4. TypeOK'
  BY <1>2, <1>3 DEF IInv, TypeOK
<1>5. RouterFollowsRoute' /\ ReadyBeforeStart'
  BY <1>3 DEF IInv, RouterFollowsRoute, ReadyBeforeStart, Ready
<1>6. MainOrder'
  BY <1>2, <1>3 DEF IInv, MainOrder
<1>7. WorkersInv'
  BY <1>2 DEF IInv, WorkersInv, WorkerInv
<1> QED
  BY <1>4, <1>5, <1>6, <1>7 DEF IInv

\* A worker is of its type and has its part of the invariant.
LEMMA WorkerOf ==
  ASSUME IInv, NEW i \in DOMAIN workers
  PROVE  workers[i] \in WorkerType /\ WorkerInv(workers[i])
<1>1. i \in 1 .. Len(workers) /\ workers \in Seq(WorkerType)
  BY LenProperties DEF IInv, TypeOK
<1>2. workers[i] \in WorkerType
  BY <1>1, ElementOfSeq
<1> QED
  BY <1>1, <1>2 DEF IInv, WorkersInv

\* The kernel binds a worker to the address it was given, on every interface if
\* that did not parse, and on some port if the port was 0.
LEMMA BindInv == ASSUME IInv, NEW i \in DOMAIN workers, Bind(i) PROVE IInv'
<1> DEFINE w == workers[i]
<1>1. /\ Alive /\ w.st = "started"
      /\ w \in WorkerType /\ WorkerInv(w)
  BY WorkerOf DEF Bind
<1>2. CASE w.addr.family # "ipv4"
  BY <1>2, TerminateInv DEF Bind, Reasons, disk, shared
<1>3. CASE w.addr.family = "ipv4"
  <2>1. PICK binding \in Bindings(i) : BindAs(i, binding, TRUE)
    BY <1>3 DEF Bind
  <2> DEFINE bound == [w EXCEPT !.st = "bound", !.bound = binding, !.reuse = TRUE,
                                !.error = InUse(i, binding.port, TRUE)]
  <2>2. /\ workers' = [workers EXCEPT ![i] = bound]
        /\ UNCHANGED <<document, pc, conf, mime, locations, address>>
    BY <1>3, <2>1 DEF Bind, BindAs, disk, shared
  <2>3. /\ binding \in [ip : Texts, port : 0 .. kMaxPort]
        /\ w.addr.port # 0 =>
             binding = [ip |-> IF Parses("ipv4", w.addr.ip) THEN w.addr.ip ELSE AnyAddress,
                        port |-> w.addr.port]
    <3>1. w.addr.ip \in Texts /\ w.addr.port \in 0 .. kMaxPort
      BY <1>1 DEF WorkerType, AddressType
    <3>2. \A port \in Ephemeral : port \in 0 .. kMaxPort
      <4>1. Ephemeral \subseteq 1 .. kMaxPort
        BY ServerAssumption
      <4> QED
        BY <4>1
    <3> DEFINE ip == IF Parses("ipv4", w.addr.ip) THEN w.addr.ip ELSE AnyAddress
    <3>3. ip \in Texts
      BY <3>1, KnownTexts
    <3>4. CASE w.addr.port # 0
      <4>1. binding = [ip |-> ip, port |-> w.addr.port]
        BY <2>1, <3>4 DEF Bindings
      <4> QED
        BY <3>1, <3>3, <4>1
    <3>5. CASE w.addr.port = 0
      <4>1. PICK port \in Ephemeral : binding = [ip |-> ip, port |-> port]
        BY <2>1, <3>5 DEF Bindings
      <4> QED
        BY <3>2, <3>3, <3>5, <4>1
    <3> QED
      BY <3>4, <3>5
  <2>4. InUse(i, binding.port, TRUE) \in BOOLEAN
    BY DEF InUse
  <2>5. bound \in WorkerType
    BY <1>1, <2>3, <2>4 DEF WorkerType
  <2>6. WorkerInv(bound)
    BY <1>1, <1>3, <2>3 DEF WorkerInv, WorkerType
  <2> QED
    BY <2>2, <2>5, <2>6, WorkerStepInv
<1> QED
  BY <1>2, <1>3

\* Listening, or failing to, keeps the invariant.
LEMMA ListenInv == ASSUME IInv, NEW i \in DOMAIN workers, Listen(i) PROVE IInv'
<1> DEFINE w == workers[i]
           listening == [w EXCEPT !.st = "listening"]
<1>1. /\ w.st = "bound"
      /\ w \in WorkerType /\ WorkerInv(w)
  BY WorkerOf DEF Listen
<1>2. CASE w.error
  BY <1>2, TerminateInv DEF Listen, Reasons, disk, shared
<1>3. CASE ~w.error
  <2>1. /\ workers' = [workers EXCEPT ![i] = listening]
        /\ UNCHANGED <<document, pc, conf, mime, locations, address>>
    BY <1>3 DEF Listen, disk, shared
  <2>2. listening \in WorkerType /\ WorkerInv(listening)
    BY <1>1 DEF WorkerType, WorkerInv
  <2> QED
    BY <2>1, <2>2, WorkerStepInv
<1> QED
  BY <1>2, <1>3

\* A request is routed by the locations as they are.
LEMMA RouteInv == ASSUME IInv, NEW i \in DOMAIN workers, Route(i) PROVE IInv'
<1> DEFINE w == workers[i]
           routing == [w EXCEPT !.routed = <<locations>>]
<1>1. w \in WorkerType /\ WorkerInv(w)
  BY WorkerOf
<1>2. /\ workers' = [workers EXCEPT ![i] = routing]
      /\ UNCHANGED <<document, pc, conf, mime, locations, address>>
  BY DEF Route, disk, shared
<1>3. <<locations>> \in Seq(Seq(LocationType))
  BY DEF IInv, TypeOK
<1>4. routing \in WorkerType /\ WorkerInv(routing)
  BY <1>1, <1>3 DEF WorkerType, WorkerInv
<1> QED
  BY <1>2, <1>4, WorkerStepInv

\* Nothing in the invariant is about the ports of others.
LEMMA UnchangedInv ==
  ASSUME IInv, UNCHANGED <<document, pc, conf, mime, locations, address, workers>>
  PROVE  IInv'
  BY DEF IInv, TypeOK, RouterFollowsRoute, MainOrder, ReadyBeforeStart, Ready,
         WorkersInv, WorkerInv

\* Every step keeps the invariant.
LEMMA NextInv == IInv /\ [Next]_vars => IInv'
<1> SUFFICES ASSUME IInv, [Next]_vars PROVE IInv'
  OBVIOUS
<1>1. CASE Main
  BY <1>1, LoadInv, LoadMimeInv, SetUpRouterInv, ToInetAddrInv, StartWorkerInv,
     StartedInv, WaitInv DEF Main
<1>2. ASSUME NEW i \in DOMAIN workers, Run(i) \/ Route(i) PROVE IInv'
  BY <1>2, BindInv, ListenInv, RouteInv DEF Run
<1>3. ASSUME NEW port \in Contended, TakePort(port) PROVE IInv'
  BY <1>3, UnchangedInv DEF TakePort, disk, shared
<1>4. CASE UNCHANGED vars
  BY <1>4, UnchangedInv DEF vars
<1> QED
  BY <1>1, <1>2, <1>3, <1>4 DEF Next

\* The invariant holds throughout.
LEMMA Invariant == Spec => []IInv
  BY InitInv, NextInv, PTL DEF Spec

------------------------------------------------------------------------------
\* The members keep their types, for every set of configurations; in particular
\* there are never more workers than the configuration asks for
\* (server.cpp:47-49).
THEOREM TypeCorrect == Spec => []TypeOK
<1> IInv => TypeOK
  BY DEF IInv
<1> QED
  BY Invariant, PTL

\* Whatever the route and however the threads interleave, a worker that routes a
\* request does so by the whole router (server.cpp:36-50).
THEOREM WholeRouter == Spec => []RoutesByWholeRouter
<1>1. IInv => RoutesByWholeRouter
  <2> SUFFICES ASSUME IInv, NEW i \in DOMAIN workers, workers[i].routed # <<>>
               PROVE  /\ mime = Table(document.mime)
                      /\ workers[i].routed =
                           << [k \in DOMAIN conf.route |-> Location(conf.route[k], mime)] >>
    BY DEF RoutesByWholeRouter
  <2>1. Ready /\ workers[i].routed = <<locations>>
    <3>1. workers # <<>>
      BY EmptyLen
    <3> QED
      BY <3>1, WorkerOf DEF IInv, ReadyBeforeStart, WorkerInv
  <2>2. /\ locations \in Seq(LocationType)
        /\ locations \in [1 .. Len(locations) -> LocationType]
    BY LenProperties DEF IInv, TypeOK
  <2>3. DOMAIN conf.route = 1 .. Len(conf.route)
    BY LenProperties DEF IInv, TypeOK, ConfType
  <2>4. locations = [k \in DOMAIN conf.route |-> Location(conf.route[k], mime)]
    BY <2>1, <2>2, <2>3 DEF Ready, IInv, RouterFollowsRoute
  <2> QED
    BY <2>1, <2>4 DEF Ready
<1> QED
  BY <1>1, Invariant, PTL

\* Started from a checked configuration with a positive port, every worker that
\* listens is bound to the ip and the port written there, for every number of
\* workers and every inet_pton (server.cpp:44-49, tcp.cpp:72-81).
THEOREM AddressKept == Spec => []ListensWhereConfigured
<1>1. IInv => ListensWhereConfigured
  <2> SUFFICES ASSUME IInv, Checked(conf), conf.port > 0, NEW i \in Listening
               PROVE  workers[i].bound = [ip |-> conf.ip, port |-> conf.port]
    BY DEF ListensWhereConfigured
  <2>1. i \in DOMAIN workers /\ workers[i].st = "listening"
    BY DEF Listening
  <2>2. Ready
    <3>1. workers # <<>>
      BY <2>1, EmptyLen
    <3> QED
      BY <3>1 DEF IInv, ReadyBeforeStart
  <2>3. WorkerInv(workers[i])
    BY <2>1, WorkerOf
  <2>4. /\ workers[i].addr.family = "ipv4"
        /\ workers[i].addr = address
        /\ address = InetAddr(conf)
    BY <2>1, <2>2, <2>3 DEF WorkerInv, Ready
  <2>5. uint16(conf.port) = conf.port
    <3>1. conf.port \in 1 .. kMaxPort
      BY DEF Checked, Valid, ListenConfValid, IInv, TypeOK, ConfType
    <3>2. kMaxPort \in Nat
      BY DEF kMaxPort
    <3>3. \A m \in Nat : \A n \in 1 .. m : n % (m + 1) = n
      OBVIOUS
    <3> QED
      BY <3>1, <3>2, <3>3 DEF uint16
  <2>6. /\ workers[i].addr.ip = conf.ip
        /\ workers[i].addr.port = conf.port
        /\ conf.family = "ipv4"
    BY <2>4, <2>5 DEF InetAddr
  <2>7. Parses("ipv4", conf.ip)
    BY <2>6 DEF Checked, Valid, ListenConfValid, InetAddrValid, InetAddr
  <2>8. conf.port # 0
    BY DEF IInv, TypeOK, ConfType
  <2> QED
    BY <2>1, <2>3, <2>6, <2>7, <2>8 DEF WorkerInv
<1> QED
  BY <1>1, Invariant, PTL

\* main comes past the mime file only if that could be read.
MimeLoaded ==
  /\ document \in Documents
  /\ pc \notin {"Load", "LoadMime"} \cup Reasons => ~LoadFails(document.mime)

LEMMA AlwaysMimeLoaded == Spec => []MimeLoaded
<1>1. Init => MimeLoaded
  BY DEF Init, MimeLoaded
<1>2. MimeLoaded /\ [Next]_vars => MimeLoaded'
  <2> SUFFICES ASSUME MimeLoaded, [Next]_vars PROVE MimeLoaded'
    OBVIOUS
  <2>1. CASE Load
    BY <2>1 DEF Load, Terminate, disk, Reasons, MimeLoaded
  <2>2. CASE LoadMime
    BY <2>2 DEF LoadMime, Terminate, disk, Reasons, MimeLoaded
  <2>3. CASE SetUpRouter \/ ToInetAddr
    BY <2>3 DEF SetUpRouter, ToInetAddr, Terminate, disk, Reasons, MimeLoaded
  <2>4. CASE StartWorker \/ Started \/ Wait
    BY <2>4 DEF StartWorker, Started, Wait, disk, Reasons, MimeLoaded
  <2>5. ASSUME NEW i \in DOMAIN workers, Run(i) \/ Route(i) PROVE MimeLoaded'
    BY <2>5 DEF Run, Bind, Listen, Route, Alive, Terminate, disk, Reasons, MimeLoaded
  <2>6. ASSUME NEW port \in Contended, TakePort(port) PROVE MimeLoaded'
    BY <2>6 DEF TakePort, disk, MimeLoaded
  <2>7. CASE UNCHANGED vars
    BY <2>7 DEF vars, MimeLoaded
  <2> QED
    BY <2>1, <2>2, <2>3, <2>4, <2>5, <2>6, <2>7 DEF Next, Main
<1> QED
  BY <1>1, <1>2, PTL DEF Spec

\* Wherever a mime file ends, either the process does or it knows every extension
\* that the file lists, by its last mention, and path locations have their media
\* types from there (mime.cpp:37-71, static_handler.cpp:31-41).
THEOREM WholeMediaTypes == Spec => []MediaTypesAreWhole
<1>1. IInv /\ MimeLoaded => MediaTypesAreWhole
  <2> SUFFICES ASSUME IInv, MimeLoaded, pc \notin {"Load", "LoadMime"} \cup Reasons
               PROVE  /\ \A ext : GetMime(mime, ext) = TypeMeant(document.mime, ext)
                      /\ \A i \in DOMAIN locations : locations[i].kind = "path" =>
                           locations[i].mime =
                             TypeMeant(document.mime, Extension(conf.route[i].path))
    BY DEF MediaTypesAreWhole
  <2>1. IsMimeFile(document.mime) /\ ~LoadFails(document.mime)
    BY ServerAssumption DEF MimeLoaded
  <2>2. mime = Table(document.mime)
    <3>1. pc \in {"SetUpRouter", "Start", "Wait", "exit"}
      BY DEF IInv, TypeOK
    <3> QED
      BY <3>1 DEF IInv, MainOrder, ReadyBeforeStart, Ready
  <2>3. \A ext : GetMime(mime, ext) = TypeMeant(document.mime, ext)
    BY <2>1, <2>2, TableIsMeant
  <2>4. ASSUME NEW i \in DOMAIN locations, locations[i].kind = "path"
        PROVE  locations[i].mime = TypeMeant(document.mime, Extension(conf.route[i].path))
    <3> DEFINE entry == conf.route[i]
    <3>1. i \in 1 .. Len(locations)
      BY LenProperties DEF IInv, TypeOK
    <3>2. locations[i] = Location(entry, mime)
      BY <3>1 DEF IInv, RouterFollowsRoute
    <3> HIDE DEF entry
    <3>3. entry.type = "path"
      BY <2>4, <3>2 DEF Location
    <3>4. locations[i].mime = GetMime(mime, Extension(entry.path))
      BY <3>2, <3>3 DEF Location
    <3> QED
      BY <2>3, <3>4 DEF entry
  <2> QED
    BY <2>3, <2>4
<1> QED
  BY <1>1, Invariant, AlwaysMimeLoaded, PTL
=============================================================================
