--------------------------- MODULE RoutingProofs ---------------------------
(***************************************************************************)
(* The order of the locations is what decides, and a URL leads to the file *)
(* the configuration means, for every configuration and every set of URLs. *)
(***************************************************************************)
EXTENDS Routing, UrlProofs, FiniteSetTheorems

Locations == {Location(entry) : entry \in Entries}

\* The router has the locations of the configuration, in its order.
RouterTypeOK ==
  /\ route \in Routes
  /\ locations \in Seq(Locations) /\ Len(locations) =< Len(route)
  /\ \A i \in DOMAIN locations : locations[i] = Location(route[i])

\* A location is added behind those there are.
LEMMA LocationAdded ==
  ASSUME RouterTypeOK, SetUpRouter
  PROVE  /\ locations' \in Seq(Locations) /\ Len(locations') = Len(locations) + 1
         /\ Len(locations') =< Len(route)
         /\ \A i \in 1 .. Len(locations) : locations'[i] = locations[i]
         /\ locations'[Len(locations) + 1] = Location(route[Len(locations) + 1])
<1> DEFINE n == Len(locations) + 1
           new == Location(route[n])
<1>1. locations \in Seq(Locations) /\ route \in Seq(Entries) /\ Len(locations) \in Nat
  BY RoutingAssumption, LenProperties DEF RouterTypeOK, Locations
<1>2. Len(route) \in Nat /\ n \in 1 .. Len(route)
  BY <1>1, LenProperties DEF SetUpRouter
<1>3. new \in Locations
  BY <1>1, <1>2, ElementOfSeq DEF Locations
<1> HIDE DEF new
<1>4. locations' = Append(locations, new)
  BY DEF SetUpRouter, new
<1>5. /\ locations' \in Seq(Locations) /\ Len(locations') = n
      /\ \A i \in 1 .. Len(locations) : locations'[i] = locations[i]
      /\ locations'[n] = new
  BY <1>1, <1>3, <1>4, AppendProperties
<1> QED
  BY <1>2, <1>5 DEF new

LEMMA TypeInit == SetUpInit => RouterTypeOK
<1> SUFFICES ASSUME SetUpInit PROVE RouterTypeOK
  OBVIOUS
<1>1. PICK none \in Seq(Locations) : none = <<>>
  BY EmptySeq
<1>2. locations \in Seq(Locations) /\ Len(locations) = 0 /\ DOMAIN locations = {}
  BY <1>1, EmptySeq, LenProperties DEF SetUpInit
<1>3. route \in Routes /\ Len(route) \in Nat
  BY RoutingAssumption, LenProperties DEF SetUpInit
<1> QED
  BY <1>2, <1>3 DEF RouterTypeOK, Locations

LEMMA TypeNext == RouterTypeOK /\ [RouteNext]_allVars => RouterTypeOK'
<1> SUFFICES ASSUME RouterTypeOK, [RouteNext]_allVars PROVE RouterTypeOK'
  OBVIOUS
<1>1. CASE SetUpRouter
  <2>1. /\ locations' \in Seq(Locations) /\ Len(locations') =< Len(route)
        /\ DOMAIN locations' = 1 .. Len(locations) + 1 /\ DOMAIN locations = 1 .. Len(locations)
        /\ Len(locations) \in Nat
    <3>1. locations \in Seq(Locations)
      BY DEF RouterTypeOK, Locations
    <3> QED
      BY <1>1, <3>1, LocationAdded, LenProperties
  <2>2. \A i \in DOMAIN locations' : locations'[i] = Location(route[i])
    BY <1>1, <2>1, LocationAdded DEF RouterTypeOK
  <2>3. route' = route
    BY <1>1 DEF SetUpRouter
  <2> QED
    BY <2>1, <2>2, <2>3 DEF RouterTypeOK, Locations
<1>2. CASE UNCHANGED <<route, locations>>
  BY <1>2 DEF RouterTypeOK
<1> QED
  BY <1>1, <1>2 DEF RouteNext, HandleRecv, allVars

LEMMA RouterCorrect == RouteSpec => []RouterTypeOK
BY TypeInit, TypeNext, PTL DEF RouteSpec

------------------------------------------------------------------------------
LEMMA FirstIsLeast ==
  ASSUME NEW indexes \in SUBSET Nat, NEW m \in indexes, \A j \in indexes : m =< j
  PROVE  First(indexes) = m
<1>1. First(indexes) \in indexes /\ \A j \in indexes : First(indexes) =< j
  BY DEF First
<1>2. First(indexes) \in Nat /\ m \in Nat /\ First(indexes) =< m /\ m =< First(indexes)
  BY <1>1
<1> QED
  BY <1>2

\* Who is first stays first when others come behind.
LEMMA FirstStays ==
  ASSUME NEW n \in Nat, NEW found \in SUBSET (1 .. n), NEW more \in SUBSET (1 .. n + 1),
         found # {}, found = more \cap (1 .. n)
  PROVE  First(more) = First(found) /\ First(found) \in found
<1>1. PICK m \in found : \A j \in found : m =< j
  <2>1. found \in SUBSET Nat
    OBVIOUS
  <2> QED
    BY <2>1, LeastExists
<1>2. First(found) = m
  <2>1. found \in SUBSET Nat
    OBVIOUS
  <2> QED
    BY <1>1, <2>1, FirstIsLeast
<1>3. more \in SUBSET Nat /\ m \in more /\ \A j \in more : m =< j
  BY <1>1
<1>4. First(more) = m
  BY <1>3, FirstIsLeast
<1> QED
  BY <1>2, <1>4

LEMMA RouteStays ==
  ASSUME RouterTypeOK, SetUpRouter, NEW path, Route(locations, path) # NotFound
  PROVE  Route(locations', path) = Route(locations, path)
<1> DEFINE n == Len(locations)
           found == Matching(locations, path)
           more == Matching(locations', path)
<1>1. /\ n \in Nat /\ DOMAIN locations = 1 .. n /\ DOMAIN locations' = 1 .. n + 1
      /\ \A i \in 1 .. n : locations'[i] = locations[i]
  <2>1. locations \in Seq(Locations)
    BY DEF RouterTypeOK, Locations
  <2> QED
    BY <2>1, LocationAdded, LenProperties
<1>2. found # {}
  BY DEF Route
<1>3. found \in SUBSET (1 .. n) /\ more \in SUBSET (1 .. n + 1) /\ found = more \cap (1 .. n)
  BY <1>1 DEF Matching
<1>4. First(more) = First(found) /\ First(found) \in 1 .. n /\ more # {}
  BY <1>1, <1>2, <1>3, FirstStays
<1>5. locations'[First(more)] = locations[First(found)]
  BY <1>1, <1>4
<1> QED
  BY <1>2, <1>4, <1>5 DEF Route

(***************************************************************************)
(* What a path leads to is decided by the first location that matches it,  *)
(* whatever locations the configuration has after it.                      *)
(***************************************************************************)
THEOREM FirstMatchDecides == RouteSpec => EarlierLocationsWin
<1>1. RouterTypeOK /\ [RouteNext]_allVars =>
        (locations' # locations =>
           \A f \in Forms :
             LET path == Parse(DefaultUrl, Compose(f)).path
             IN Route(locations, path) # NotFound =>
                  Route(locations', path) = Route(locations, path))
  BY RouteStays DEF RouteNext, HandleRecv, allVars
<1> QED
  BY <1>1, RouterCorrect, PTL DEF RouteSpec, EarlierLocationsWin

------------------------------------------------------------------------------
\* To the Url, routing is a construction, and everything else leaves it alone.
LEMMA RoutingConstructs == RouteSpec => Spec
<1>1. SetUpInit => Init
  BY DEF SetUpInit
<1>2. [RouteNext]_allVars => [Next]_vars
  <2>1. ASSUME NEW f \in Forms, HandleRecv(f) PROVE Next
    BY <2>1 DEF HandleRecv, Next
  <2>2. CASE SetUpRouter \/ UNCHANGED allVars
    BY <2>2 DEF SetUpRouter, allVars, vars
  <2> QED
    BY <2>1, <2>2 DEF RouteNext
<1> QED
  BY <1>1, <1>2, PTL DEF RouteSpec, Spec

(***************************************************************************)
(* The URLs that are routed keep what Url promises: their members have     *)
(* their types, a bad authority makes them invalid, and they hold the      *)
(* parts and the query they were written from.                             *)
(***************************************************************************)
THEOREM RoutedUrlsCorrect ==
  RouteSpec => [](TypeOK /\ BadAuthorityRejected /\ PartsRecovered /\ QueryRecovered)
BY RoutingConstructs, TypeCorrect, BadAuthoritiesRejected, AllPartsRecovered, QueriesRecovered,
   PTL

------------------------------------------------------------------------------
(***************************************************************************)
(* Segments of a text that slashes divide.                                 *)
(***************************************************************************)
Slash == <<"/">>

LEMMA SlashText == Slash \in Text /\ Len(Slash) = 1 /\ Slash[1] = "/" /\ Slash # <<>>
BY CharFacts, OneElement DEF Slash, Text

\* A text that ends in a slash, or begins with one.
LEMMA SlashLast ==
  ASSUME NEW s \in Text
  PROVE  s \o Slash = Append(s, "/") /\ Append(s, "/") \in Text
BY CharFacts, AppendIsConcat, AppendProperties DEF Text, Slash

LEMMA BlankText == <<>> \in Text /\ << <<>> >> \in Texts /\ <<>> \in Texts
<1>1. <<>> \in Text
  BY TextConcat
<1> QED
  BY <1>1, OneElement, EmptySeq DEF Texts

\* The segments in front of a slash and those behind it.
LEMMA SegmentsOfSlash ==
  ASSUME NEW s \in Text
  PROVE  \A t \in Text : Segments((s \o Slash) \o t) = Segments(s) \o Segments(t)
<1> DEFINE ss == s \o Slash
           front == Segments(s)
           P == {t \in Text : Segments(ss \o t) = front \o Segments(t)}
<1>1. ss = Append(s, "/") /\ ss \in Text
  BY SlashLast
<1>2. Segments(ss) = Append(front, <<>>)
  <2>1. "/" \in Chars
    BY CharFacts
  <2>2. Segments(Append(s, "/")) = SegmentStep(Segments(s), "/")
    BY <2>1, SegmentsProperties
  <2> QED
    BY <1>1, <2>2 DEF SegmentStep
<1>3. front \in Texts
  BY SegmentsProperties DEF NonEmpty, Texts
<1> HIDE DEF ss, front
<1>4. <<>> \in P
  <2>1. Segments(<<>>) = << <<>> >> /\ ss \o <<>> = ss /\ <<>> \in Text
    BY <1>1, SegmentsProperties, TextConcat
  <2>2. front \o << <<>> >> = Append(front, <<>>)
    BY <1>3, BlankText, AppendIsConcat DEF Texts
  <2> QED
    BY <1>2, <2>1, <2>2
<1>5. ASSUME NEW t \in Seq(Chars), NEW ch \in Chars, t \in P PROVE Append(t, ch) \in P
  <2> DEFINE more == Append(t, ch)
  <2>1. t \in Text
    BY DEF Text
  <2>2. more \in Text /\ ss \o more = Append(ss \o t, ch) /\ ss \o t \in Text
    BY <1>1, <2>1, OneMoreChar, TextConcat
  <2>3. PICK segs \in Texts, seg \in Text : Segments(t) = Append(segs, seg)
    <3>1. Segments(t) \in Seq(Text) /\ Segments(t) # <<>>
      BY <2>1, SegmentsProperties DEF NonEmpty
    <3> QED
      BY <3>1, Shorter DEF Texts
  <2> DEFINE all == front \o segs
             last == Append(seg, ch)
  <2>4. all \in Texts /\ last \in Text /\ Append(segs, seg) \in Texts /\ <<>> \in Text
    BY <1>3, ConcatProperties, OneMoreChar, AppendProperties, TextConcat DEF Texts
  <2>5. front \o Append(segs, seg) = Append(all, seg)
    BY <1>3, ConcatAppend DEF Texts
  <2>6. Segments(ss \o t) = Append(all, seg)
    BY <1>5, <2>3, <2>5
  <2>7. Segments(ss \o more) = SegmentStep(Append(all, seg), ch)
    BY <2>2, <2>6, SegmentsProperties
  <2>8. Segments(more) = SegmentStep(Append(segs, seg), ch)
    BY <2>1, <2>3, SegmentsProperties
  <2>9. front \o Append(segs, last) = Append(all, last)
    BY <1>3, <2>4, ConcatAppend DEF Texts
  <2>10. front \o Append(Append(segs, seg), <<>>) = Append(Append(all, seg), <<>>)
    <3>1. front \o Append(Append(segs, seg), <<>>) = Append(front \o Append(segs, seg), <<>>)
      BY <1>3, <2>4, ConcatAppend DEF Texts
    <3> QED
      BY <2>5, <3>1
  <2> HIDE DEF more, all
  <2>11. SegmentStep(Append(segs, seg), ch) =
           IF ch = "/" THEN Append(Append(segs, seg), <<>>) ELSE Append(segs, last)
    BY <2>4, SegmentMore
  <2>12. SegmentStep(Append(all, seg), ch) =
           IF ch = "/" THEN Append(Append(all, seg), <<>>) ELSE Append(all, last)
    BY <2>4, SegmentMore
  <2> HIDE DEF last
  <2>13. Segments(ss \o more) = front \o Segments(more)
    BY <2>7, <2>8, <2>9, <2>10, <2>11, <2>12
  <2> QED
    BY <2>2, <2>13 DEF more
<1>6. \A t \in Seq(Chars) : t \in P
  <2> HIDE DEF P
  <2> QED
    BY <1>4, <1>5, SeqSetInduction
<1> QED
  BY <1>6 DEF Text, ss, front

\* Segments hold no slash, and a text without one is its only segment.
Segs == {seg \in Text : Slashless(seg)}

LEMMA SegsFacts ==
  /\ <<>> \in Segs
  /\ \A seg \in Segs, ch \in Chars : ch # "/" => Append(seg, ch) \in Segs
  /\ Segs \subseteq Text
<1>1. <<>> \in Segs
  BY TextConcat, EmptySeq DEF Segs, Slashless
<1>2. ASSUME NEW seg \in Segs, NEW ch \in Chars, ch # "/" PROVE Append(seg, ch) \in Segs
  <2> DEFINE more == Append(seg, ch)
  <2>1. seg \in Text /\ Slashless(seg)
    BY DEF Segs
  <2>2. /\ more \in Text /\ Len(more) = Len(seg) + 1 /\ Len(seg) \in Nat /\ more[Len(seg) + 1] = ch
        /\ \A i \in 1 .. Len(seg) : more[i] = seg[i]
    BY <2>1, OneMoreChar
  <2> HIDE DEF more
  <2>3. Slashless(more)
    BY <1>2, <2>1, <2>2 DEF Slashless
  <2> QED
    BY <2>2, <2>3 DEF Segs, more
<1> QED
  BY <1>1, <1>2 DEF Segs

LEMMA SegmentsSlashless ==
  ASSUME NEW p \in Text
  PROVE  Segments(p) \in Seq(Segs) /\ Segments(p) # <<>>
<1> DEFINE P == {t \in Text : Segments(t) \in Seq(Segs)}
<1>1. <<>> \in P
  BY SegmentsProperties, SegsFacts, OneElement, TextConcat
<1>2. ASSUME NEW t \in Seq(Chars), NEW ch \in Chars, t \in P PROVE Append(t, ch) \in P
  <2>1. t \in Text /\ Append(t, ch) \in Text
    BY OneMoreChar DEF Text
  <2>2. Segments(t) # <<>>
    BY <2>1, SegmentsProperties DEF NonEmpty
  <2>3. PICK segs \in Seq(Segs), seg \in Segs : Segments(t) = Append(segs, seg)
    BY <1>2, <2>2, Shorter
  <2>4. segs \in Texts /\ seg \in Text
    BY SegsFacts, SeqMonotonic DEF Texts
  <2>5. Segments(Append(t, ch)) =
          IF ch = "/" THEN Append(Append(segs, seg), <<>>) ELSE Append(segs, Append(seg, ch))
    <3>1. Segments(Append(t, ch)) = SegmentStep(Append(segs, seg), ch)
      BY <2>1, <2>3, SegmentsProperties
    <3> QED
      BY <2>4, <3>1, SegmentMore
  <2>6. Append(Append(segs, seg), <<>>) \in Seq(Segs)
    BY SegsFacts, AppendProperties
  <2>7. ch # "/" => Append(segs, Append(seg, ch)) \in Seq(Segs)
    BY SegsFacts, AppendProperties
  <2> QED
    BY <2>1, <2>5, <2>6, <2>7
<1>3. \A t \in Seq(Chars) : t \in P
  <2> HIDE DEF P
  <2> QED
    BY <1>1, <1>2, SeqSetInduction
<1> QED
  BY <1>3, SegmentsProperties DEF Text, NonEmpty

LEMMA SegmentsOfName ==
  ASSUME NEW seg \in Segs
  PROVE  Segments(seg) = <<seg>>
<1>1. seg \in Text /\ Slashless(seg) /\ <<>> \in Text /\ <<>> \in Texts
  BY BlankText DEF Segs
<1>2. Append(<<>>, <<>>) = << <<>> >> /\ Append(<<>>, seg) = <<seg>>
  OBVIOUS
<1>3. EndsIn(<<>>, <<>>, <<>>)
  BY <1>2, SegmentsProperties DEF EndsIn
<1>4. EndsIn(<<>> \o seg, <<>>, <<>> \o seg)
  BY <1>1, <1>3, SegmentsJoin
<1>5. <<>> \o seg = seg
  BY <1>1, TextConcat
<1> QED
  BY <1>2, <1>4, <1>5 DEF EndsIn

\* What it means for a path to begin with a slash, and to end in one.
LEMMA RootSplit ==
  ASSUME NEW p \in Text
  PROVE  /\ IsRooted(p) =>
              \E t \in Text : p = Slash \o t /\ Segments(p) = << <<>> >> \o Segments(t)
         /\ p # <<>> /\ Last(p) = "/" =>
              \E t \in Text : p = t \o Slash /\ Segments(p) = Append(Segments(t), <<>>)
<1>1. ASSUME IsRooted(p)
      PROVE  \E t \in Text : p = Slash \o t /\ Segments(p) = << <<>> >> \o Segments(t)
  <2> DEFINE t == SubSeq(p, 2, Len(p))
  <2>1. p # <<>> /\ p[1] = "/"
    BY <1>1 DEF IsRooted
  <2>2. 1 \in 1 .. Len(p)
    BY <2>1, LenProperties, EmptySeq DEF Text
  <2>3. t \in Text /\ p = (SubSeq(p, 1, 0) \o <<p[1]>>) \o t
    BY <2>2, SplitAt DEF Text
  <2>4. SubSeq(p, 1, 0) = <<>>
    BY SubSeqEmpty
  <2> HIDE DEF t
  <2>5. p = (<<>> \o Slash) \o t
    BY <2>1, <2>3, <2>4 DEF Slash
  <2>6. <<>> \o Slash = Slash /\ <<>> \in Text
    BY SlashText, TextConcat
  <2>7. Segments(p) = Segments(<<>>) \o Segments(t)
    BY <2>3, <2>5, <2>6, SegmentsOfSlash
  <2>8. Segments(<<>>) = << <<>> >>
    BY SegmentsProperties
  <2> QED
    BY <2>3, <2>5, <2>6, <2>7, <2>8
<1>2. ASSUME p # <<>>, Last(p) = "/"
      PROVE  \E t \in Text : p = t \o Slash /\ Segments(p) = Append(Segments(t), <<>>)
  <2>1. PICK t \in Seq(Chars), ch \in Chars : p = Append(t, ch)
    BY <1>2, Shorter DEF Text
  <2>2. Last(p) = ch
    BY <2>1, FrontAndLast
  <2>3. t \in Text /\ p = t \o Slash /\ p = Append(t, "/") /\ "/" \in Chars
    BY <1>2, <2>1, <2>2, SlashLast DEF Text
  <2>4. Segments(p) = SegmentStep(Segments(t), "/")
    BY <2>3, SegmentsProperties
  <2> QED
    BY <2>3, <2>4 DEF SegmentStep
<1> QED
  BY <1>1, <1>2
------------------------------------------------------------------------------
(***************************************************************************)
(* Names of a path, and following them.                                    *)
(***************************************************************************)
\* Segments that lead somewhere; all but the last kind lead down.
Steps == {seg \in Segs : seg # <<>> /\ seg # Dot}
Downs == {seg \in Steps : seg # DotDot}

LEMMA StepsFacts ==
  /\ Steps \subseteq Segs /\ Downs \subseteq Steps /\ Steps \subseteq Text
  /\ Downs \subseteq Text /\ Dot # DotDot /\ Dot # <<>> /\ DotDot # <<>>
<1>1. Len(Dot) = 1 /\ Len(DotDot) = 2 /\ Len(<<>>) = 0
  BY DEF Dot, DotDot
<1>2. Dot # DotDot /\ Dot # <<>> /\ DotDot # <<>>
  BY <1>1
<1> QED
  BY <1>2, SegsFacts DEF Steps, Downs

\* Where a path leads depends on its segments, and on whether it begins at the root.
LEMMA FollowedSame ==
  ASSUME NEW p, NEW q, IsRooted(p) <=> IsRooted(q)
  PROVE  Followed(p) = Followed(q)
<1>1. ASSUME NEW stack, NEW seg PROVE Follow(p, stack, seg) = Follow(q, stack, seg)
  BY DEF Follow
<1>2. FollowStep(p) = FollowStep(q)
  BY <1>1 DEF FollowStep
<1> QED
  BY <1>2 DEF Followed

\* What was followed before matters only for where it led.
LEMMA FollowOn ==
  ASSUME NEW p, NEW s \in Texts, NEW t \in Texts, Followed(p)[s] = Followed(p)[t]
  PROVE  \A u \in Texts : Followed(p)[s \o u] = Followed(p)[t \o u]
<1> DEFINE P == {u \in Texts : Followed(p)[s \o u] = Followed(p)[t \o u]}
<1>1. <<>> \in P
  BY BlankText, ConcatEmptySeq DEF Texts
<1>2. ASSUME NEW u \in Seq(Text), NEW seg \in Text, u \in P PROVE Append(u, seg) \in P
  <2>1. s \o u \in Texts /\ t \o u \in Texts /\ Append(u, seg) \in Texts
    BY ConcatProperties, AppendProperties DEF Texts
  <2>2. /\ s \o Append(u, seg) = Append(s \o u, seg)
        /\ t \o Append(u, seg) = Append(t \o u, seg)
    BY ConcatAppend DEF Texts
  <2>3. /\ Followed(p)[Append(s \o u, seg)] = Follow(p, Followed(p)[s \o u], seg)
        /\ Followed(p)[Append(t \o u, seg)] = Follow(p, Followed(p)[t \o u], seg)
    BY <2>1, FollowedProperties
  <2>4. Followed(p)[s \o u] = Followed(p)[t \o u]
    BY <1>2
  <2> QED
    BY <2>1, <2>2, <2>3, <2>4
<1>3. \A u \in Seq(Text) : u \in P
  <2> HIDE DEF P
  <2> QED
    BY <1>1, <1>2, SeqSetInduction
<1> QED
  BY <1>3 DEF Texts

\* Empty segments and dots lead nowhere, and names that lead down are followed.
LEMMA FollowBlank ==
  ASSUME NEW p, NEW s \in Texts, NEW seg \in {<<>>, Dot}
  PROVE  seg \in Text /\ Followed(p)[Append(s, seg)] = Followed(p)[s]
<1>1. seg \in Text
  <2>1. "." \in Chars
    BY CharsAssumption
  <2>2. Dot \in Text
    BY <2>1, OneElement DEF Dot, Text
  <2> QED
    BY <2>2, BlankText
<1>2. seg # DotDot
  BY StepsFacts
<1>3. Followed(p)[Append(s, seg)] = Follow(p, Followed(p)[s], seg)
  BY <1>1, FollowedProperties
<1> QED
  BY <1>1, <1>2, <1>3 DEF Follow

LEMMA FollowDowns ==
  ASSUME NEW p, NEW s \in Texts
  PROVE  \A t \in Seq(Downs) : Followed(p)[s \o t] = Followed(p)[s] \o t
<1> DEFINE at == Followed(p)[s]
           P == {t \in Seq(Downs) : Followed(p)[s \o t] = at \o t}
<1>1. at \in Texts
  BY FollowedProperties
<1> HIDE DEF at
<1>2. <<>> \in P
  BY <1>1, EmptySeq, ConcatEmptySeq DEF Texts, at
<1>3. ASSUME NEW t \in Seq(Downs), NEW seg \in Downs, t \in P PROVE Append(t, seg) \in P
  <2>1. t \in Texts /\ seg \in Text /\ Append(t, seg) \in Seq(Downs)
    BY StepsFacts, SeqMonotonic, AppendProperties DEF Texts
  <2>2. /\ s \o Append(t, seg) = Append(s \o t, seg) /\ s \o t \in Texts
        /\ at \o Append(t, seg) = Append(at \o t, seg)
    BY <1>1, <2>1, ConcatAppend, ConcatProperties DEF Texts
  <2>3. Followed(p)[Append(s \o t, seg)] = Follow(p, Followed(p)[s \o t], seg)
    BY <2>1, <2>2, FollowedProperties
  <2>4. Followed(p)[s \o t] = at \o t
    BY <1>3
  <2>5. seg # <<>> /\ seg # Dot /\ seg # DotDot
    BY DEF Downs, Steps
  <2>6. Follow(p, at \o t, seg) = Append(at \o t, seg)
    BY <2>5 DEF Follow
  <2> QED
    BY <2>1, <2>2, <2>3, <2>4, <2>6
<1>4. \A t \in Seq(Downs) : t \in P
  <2> HIDE DEF P
  <2> QED
    BY <1>2, <1>3, SeqSetInduction
<1> QED
  BY <1>4 DEF at

\* The names a path leads through: only at their front, and only in a path that
\* does not begin at the root, do they lead up.
Steady(rooted) ==
  {s \in Seq(Steps) : \A i \in 1 .. Len(s) :
     s[i] = DotDot => ~rooted /\ \A j \in 1 .. i : s[j] = DotDot}

LEMMA SteadyAppend ==
  ASSUME NEW rooted, NEW s \in Seq(Steps), NEW seg \in Steps
  PROVE  Append(s, seg) \in Steady(rooted) <=>
           s \in Steady(rooted) /\ (seg = DotDot => ~rooted /\ ~IsDown(s))
<1> DEFINE more == Append(s, seg)
           n == Len(s)
<1>1. /\ more \in Seq(Steps) /\ Len(more) = n + 1 /\ n \in Nat /\ more[n + 1] = seg
      /\ \A i \in 1 .. n : more[i] = s[i]
  BY OneMore
<1>2. IsDown(s) <=> n # 0 /\ s[n] # DotDot
  BY EmptySeq, LenProperties DEF IsDown, Last
<1> HIDE DEF more, n
<1>3. ASSUME more \in Steady(rooted)
      PROVE  s \in Steady(rooted) /\ (seg = DotDot => ~rooted /\ ~IsDown(s))
  <2>1. \A i \in 1 .. n + 1 : more[i] = DotDot => ~rooted /\ \A j \in 1 .. i : more[j] = DotDot
    BY <1>1, <1>3 DEF Steady
  <2>2. \A i \in 1 .. n : s[i] = DotDot => ~rooted /\ \A j \in 1 .. i : s[j] = DotDot
    BY <1>1, <2>1
  <2>3. s \in Steady(rooted)
    BY <2>2 DEF Steady, n
  <2>4. seg = DotDot => ~rooted /\ (n # 0 => s[n] = DotDot)
    BY <1>1, <2>1
  <2> QED
    BY <1>2, <2>3, <2>4
<1>4. ASSUME s \in Steady(rooted), seg = DotDot => ~rooted /\ ~IsDown(s)
      PROVE  more \in Steady(rooted)
  <2>1. \A i \in 1 .. n : s[i] = DotDot => ~rooted /\ \A j \in 1 .. i : s[j] = DotDot
    BY <1>4 DEF Steady, n
  <2>2. ASSUME NEW i \in 1 .. n + 1, more[i] = DotDot
        PROVE  ~rooted /\ \A j \in 1 .. i : more[j] = DotDot
    <3>1. CASE i \in 1 .. n
      BY <1>1, <2>1, <2>2, <3>1
    <3>2. CASE i = n + 1
      <4>1. seg = DotDot /\ ~rooted /\ (n = 0 \/ s[n] = DotDot)
        BY <1>1, <1>2, <1>4, <2>2, <3>2
      <4>2. \A j \in 1 .. n : s[j] = DotDot
        BY <1>1, <2>1, <4>1
      <4> QED
        BY <1>1, <3>2, <4>1, <4>2
    <3> QED
      BY <1>1, <3>1, <3>2
  <2> QED
    BY <1>1, <2>2 DEF Steady
<1> QED
  BY <1>3, <1>4 DEF more

LEMMA FollowedSteady ==
  ASSUME NEW p
  PROVE  \A s \in Seq(Segs) : Followed(p)[s] \in Steady(IsRooted(p))
<1> DEFINE r == IsRooted(p)
           P == {s \in Seq(Segs) : Followed(p)[s] \in Steady(r)}
<1>1. <<>> \in Steady(r)
  BY EmptySeq DEF Steady
<1>2. <<>> \in P
  BY <1>1, EmptySeq, FollowedProperties
<1>3. ASSUME NEW s \in Seq(Segs), NEW seg \in Segs, s \in P PROVE Append(s, seg) \in P
  <2> DEFINE at == Followed(p)[s]
  <2>1. s \in Texts /\ seg \in Text /\ Append(s, seg) \in Seq(Segs)
    BY SegsFacts, SeqMonotonic, AppendProperties DEF Texts
  <2>2. Followed(p)[Append(s, seg)] = Follow(p, at, seg)
    BY <2>1, FollowedProperties
  <2>3. at \in Steady(r) /\ at \in Seq(Steps)
    BY <1>3 DEF Steady
  <2> HIDE DEF at
  <2>4. CASE seg \in {<<>>, Dot}
    <3>1. seg # DotDot
      BY <2>4, StepsFacts
    <3>2. Follow(p, at, seg) = at
      BY <2>4, <3>1 DEF Follow
    <3> QED
      BY <2>1, <2>2, <2>3, <3>2
  <2>5. CASE seg \notin {<<>>, Dot} /\ seg = DotDot /\ IsDown(at)
    <3>1. Follow(p, at, seg) = Front(at)
      BY <2>5 DEF Follow
    <3>2. PICK t \in Seq(Steps), c \in Steps : at = Append(t, c)
      BY <2>3, <2>5, Shorter DEF IsDown
    <3>3. Front(at) = t /\ t \in Steady(r)
      BY <2>3, <3>2, FrontAndLast, SteadyAppend
    <3> QED
      BY <2>1, <2>2, <3>1, <3>3
  <2>6. CASE seg \notin {<<>>, Dot} /\ seg = DotDot /\ ~IsDown(at)
    <3>1. Follow(p, at, seg) = IF r THEN at ELSE Append(at, seg)
      BY <2>6 DEF Follow
    <3>2. seg \in Steps
      BY <2>6 DEF Steps
    <3>3. ~r => Append(at, seg) \in Steady(r)
      BY <2>3, <2>6, <3>2, SteadyAppend
    <3> QED
      BY <2>1, <2>2, <2>3, <3>1, <3>3
  <2>7. CASE seg \notin {<<>>, Dot} /\ seg # DotDot
    <3>1. Follow(p, at, seg) = Append(at, seg)
      BY <2>7 DEF Follow
    <3>2. seg \in Steps
      BY <2>7 DEF Steps
    <3>3. Append(at, seg) \in Steady(r)
      BY <2>3, <2>7, <3>2, SteadyAppend
    <3> QED
      BY <2>1, <2>2, <3>1, <3>3
  <2> QED
    BY <2>4, <2>5, <2>6, <2>7
<1>4. \A s \in Seq(Segs) : s \in P
  <2> HIDE DEF P
  <2> QED
    BY <1>2, <1>3, SeqSetInduction
<1> QED
  BY <1>4

\* Such names lead through themselves.
LEMMA SteadyFollowed ==
  ASSUME NEW p
  PROVE  \A s \in Steady(IsRooted(p)) : Followed(p)[s] = s
<1> DEFINE r == IsRooted(p)
           P == {s \in Seq(Steps) : s \in Steady(r) => Followed(p)[s] = s}
<1>1. <<>> \in P
  BY EmptySeq, FollowedProperties
<1>2. ASSUME NEW s \in Seq(Steps), NEW seg \in Steps, s \in P PROVE Append(s, seg) \in P
  <2>1. Append(s, seg) \in Seq(Steps) /\ s \in Texts /\ seg \in Text
    BY StepsFacts, SeqMonotonic, AppendProperties DEF Texts
  <2>2. ASSUME Append(s, seg) \in Steady(r) PROVE Followed(p)[Append(s, seg)] = Append(s, seg)
    <3>1. s \in Steady(r) /\ (seg = DotDot => ~r /\ ~IsDown(s))
      BY <2>2, SteadyAppend
    <3>2. Followed(p)[Append(s, seg)] = Follow(p, s, seg)
      BY <1>2, <2>1, <3>1, FollowedProperties
    <3>3. seg # <<>> /\ seg # Dot
      BY DEF Steps
    <3>4. Follow(p, s, seg) = Append(s, seg)
      BY <3>1, <3>3 DEF Follow
    <3> QED
      BY <3>2, <3>4
  <2> QED
    BY <2>1, <2>2
<1>3. \A s \in Seq(Steps) : s \in P
  <2> HIDE DEF P
  <2> QED
    BY <1>1, <1>2, SeqSetInduction
<1> QED
  BY <1>3 DEF Steady

\* The names of a path.
LEMMA ResolvedSteady ==
  ASSUME NEW p \in Text
  PROVE  /\ Resolved(p) = Followed(p)[Segments(p)]
         /\ Resolved(p) \in Steady(IsRooted(p)) /\ Resolved(p) \in Seq(Steps)
         /\ Resolved(p) \in Texts
         /\ IsRooted(p) => Resolved(p) \in Seq(Downs)
<1> DEFINE R == Resolved(p)
<1>1. R = Followed(p)[Segments(p)]
  BY ResolvedIs
<1>2. R \in Steady(IsRooted(p))
  BY <1>1, SegmentsSlashless, FollowedSteady
<1> HIDE DEF R
<1>3. R \in Seq(Steps) /\ R \in Texts
  BY <1>2, StepsFacts, SeqMonotonic DEF Steady, Texts
<1>4. ASSUME IsRooted(p) PROVE R \in Seq(Downs)
  <2>1. \A i \in 1 .. Len(R) : R[i] \in Downs
    BY <1>2, <1>3, <1>4, ElementOfSeq DEF Steady, Downs
  <2>2. R \in [1 .. Len(R) -> Downs] /\ Len(R) \in Nat
    BY <1>3, <2>1, LenProperties
  <2> QED
    BY <2>2, SeqDef
<1> QED
  BY <1>1, <1>2, <1>3, <1>4 DEF R

------------------------------------------------------------------------------
(***************************************************************************)
(* Names joined by slashes are the segments of the text they make.         *)
(***************************************************************************)
LEMMA JoinedNames ==
  ASSUME NEW names \in Seq(Steps), names # <<>>
  PROVE  /\ Joined(names) \in Text /\ Segments(Joined(names)) = names
         /\ Joined(names) # <<>> /\ ~IsRooted(Joined(names)) /\ Last(Joined(names)) # "/"
<1> DEFINE P == {s \in Seq(Steps) : s # <<>> => Segments(Joined(s)) = s}
<1>1. ASSUME NEW s \in Seq(Steps)
      PROVE  /\ s \in Texts /\ Joined(s) \in Text
             /\ \A i \in 1 .. Len(s) : s[i] # <<>>
             /\ Segments(<<>>) # s
  <2>1. s \in Texts
    BY StepsFacts, SeqMonotonic DEF Texts
  <2>2. \A i \in 1 .. Len(s) : s[i] # <<>>
    BY ElementOfSeq DEF Steps
  <2>3. Segments(<<>>) # s
    <3>1. Segments(<<>>) = << <<>> >>
      BY SegmentsProperties
    <3>2. Len(<< <<>> >>) = 1 /\ << <<>> >>[1] = <<>> /\ 1 \in 1 .. 1
      OBVIOUS
    <3> DEFINE root == << <<>> >>
    <3> HIDE DEF root
    <3>3. s # root
      BY <2>2, <3>2 DEF root
    <3> QED
      BY <3>1, <3>3 DEF root
  <2> QED
    BY <2>1, <2>2, <2>3, JoinedProperties
<1>2. <<>> \in P
  BY EmptySeq
<1>3. ASSUME NEW s \in Seq(Steps), NEW c \in Steps, s \in P PROVE Append(s, c) \in P
  <2> DEFINE j == Joined(s)
  <2>1. Append(s, c) \in Seq(Steps) /\ c \in Segs /\ c \in Text /\ s \in Texts /\ j \in Text
    BY <1>1, StepsFacts, AppendProperties
  <2>2. Joined(Append(s, c)) = JoinedWith(j, c)
    BY <2>1, JoinedProperties
  <2>3. Segments(c) = <<c>>
    BY <2>1, SegmentsOfName
  <2>4. CASE s = <<>>
    <3>1. j = <<>>
      BY <2>4, JoinedProperties
    <3>2. Append(s, c) = <<c>>
      BY <2>4
    <3> QED
      BY <2>1, <2>2, <2>3, <3>1, <3>2 DEF JoinedWith
  <2>5. CASE s # <<>>
    <3>1. Segments(j) = s
      BY <1>3, <2>5
    <3>2. j # <<>>
      BY <1>1, <3>1
    <3> HIDE DEF j
    <3>3. JoinedWith(j, c) = (j \o Slash) \o c
      BY <3>2 DEF JoinedWith, Slash
    <3>4. Segments((j \o Slash) \o c) = s \o <<c>>
      BY <2>1, <2>3, <3>1, SegmentsOfSlash
    <3>5. Append(s, c) = s \o <<c>>
      BY AppendIsConcat
    <3> QED
      BY <2>1, <2>2, <3>3, <3>4, <3>5
  <2> QED
    BY <2>4, <2>5
<1>4. \A s \in Seq(Steps) : s \in P
  <2> HIDE DEF P
  <2> QED
    BY <1>2, <1>3, SeqSetInduction
<1> DEFINE j == Joined(names)
<1>5. j \in Text /\ Segments(j) = names /\ j # <<>>
  BY <1>1, <1>4
<1> HIDE DEF j
<1>6. ~IsRooted(j)
  <2> SUFFICES ASSUME IsRooted(j) PROVE FALSE
    OBVIOUS
  <2>1. PICK t \in Text : Segments(j) = << <<>> >> \o Segments(t)
    BY <1>5, RootSplit
  <2>2. Segments(t) \in Texts
    BY SegmentsProperties DEF NonEmpty, Texts
  <2>3. Len(<< <<>> >>) = 1 /\ << <<>> >>[1] = <<>>
    OBVIOUS
  <2>4. 1 \in 1 .. Len(names) /\ names[1] = <<>>
    BY <1>5, <2>1, <2>2, <2>3, BlankText, ConcatProperties, LenProperties DEF Texts
  <2> QED
    BY <1>1, <2>4
<1>7. Last(j) # "/"
  <2> SUFFICES ASSUME Last(j) = "/" PROVE FALSE
    OBVIOUS
  <2>1. PICK t \in Text : Segments(j) = Append(Segments(t), <<>>)
    BY <1>5, RootSplit
  <2>2. Segments(t) \in Texts
    BY SegmentsProperties DEF NonEmpty, Texts
  <2> DEFINE m == Len(Segments(t)) + 1
  <2>3. m \in 1 .. Len(names) /\ names[m] = <<>>
    BY <1>5, <2>1, <2>2, BlankText, AppendProperties, LenProperties DEF Texts
  <2> QED
    BY <1>1, <2>3
<1> QED
  BY <1>5, <1>6, <1>7 DEF j

LEMMA JoinedConcat ==
  ASSUME NEW s \in Seq(Steps), s # <<>>
  PROVE  \A t \in Seq(Steps) : t # <<>> => Joined(s \o t) = (Joined(s) \o Slash) \o Joined(t)
<1> DEFINE front == Joined(s) \o Slash
           P == {t \in Seq(Steps) : t # <<>> => Joined(s \o t) = front \o Joined(t)}
<1>1. Joined(s) \in Text /\ Joined(s) # <<>> /\ front \in Text
  BY JoinedNames, SlashText, TextConcat
<1>2. <<>> \in P
  BY EmptySeq
<1>3. ASSUME NEW t \in Seq(Steps), NEW c \in Steps, t \in P PROVE Append(t, c) \in P
  <2>1. /\ s \in Texts /\ t \in Texts /\ c \in Text /\ s \o t \in Texts /\ s \o t \in Seq(Steps)
        /\ Append(t, c) \in Seq(Steps) /\ Joined(t) \in Text
    BY StepsFacts, SeqMonotonic, ConcatProperties, AppendProperties, JoinedProperties DEF Texts
  <2>2. s \o Append(t, c) = Append(s \o t, c)
    BY ConcatAppend
  <2>3. Joined(Append(s \o t, c)) = JoinedWith(Joined(s \o t), c)
    BY <2>1, JoinedProperties
  <2>4. Joined(Append(t, c)) = JoinedWith(Joined(t), c)
    BY <2>1, JoinedProperties
  <2>5. CASE t = <<>>
    <3>1. s \o t = s /\ Joined(t) = <<>>
      BY <2>5, ConcatEmptySeq, JoinedProperties
    <3>2. Joined(s \o Append(t, c)) = front \o c /\ Joined(Append(t, c)) = c
      BY <1>1, <2>2, <2>3, <2>4, <3>1 DEF JoinedWith, Slash
    <3> QED
      BY <2>1, <3>2
  <2>6. CASE t # <<>>
    <3> DEFINE j == Joined(t)
               all == Joined(s \o t)
    <3>1. all = front \o j
      BY <1>3, <2>6
    <3>2. j # <<>> /\ all # <<>>
      <4>1. s \o t # <<>>
        BY <2>6, ConcatSimplifications
      <4> QED
        BY <2>1, <2>6, <4>1, JoinedNames
    <3>3. j \in Text
      BY <2>1
    <3> HIDE DEF j, all, front
    <3>4. JoinedWith(all, c) = (all \o Slash) \o c /\ JoinedWith(j, c) = (j \o Slash) \o c
      BY <3>2 DEF JoinedWith, Slash
    <3>5. j \o Slash \in Text
      BY <3>3, SlashText, TextConcat
    <3>6. ((front \o j) \o Slash) \o c = front \o ((j \o Slash) \o c)
      <4>1. (front \o j) \o Slash = front \o (j \o Slash)
        BY <1>1, <3>3, SlashText, TextAssoc
      <4>2. (front \o (j \o Slash)) \o c = front \o ((j \o Slash) \o c)
        BY <1>1, <2>1, <3>5, TextAssoc
      <4> QED
        BY <4>1, <4>2
    <3>7. Joined(s \o Append(t, c)) = front \o Joined(Append(t, c))
      BY <2>2, <2>3, <2>4, <3>1, <3>4, <3>6 DEF j, all
    <3> QED
      BY <2>1, <3>7
  <2> QED
    BY <2>5, <2>6
<1>4. \A t \in Seq(Steps) : t \in P
  <2> HIDE DEF P
  <2> QED
    BY <1>2, <1>3, SeqSetInduction
<1> QED
  BY <1>4

------------------------------------------------------------------------------
(***************************************************************************)
(* A normal path: its names, behind a slash if it begins at the root, and  *)
(* before one if it is a directory.                                        *)
(***************************************************************************)
Root == << <<>> >>

\* The first segment of a rooted path, and the last of one that ends in a slash.
Before(rooted) == IF rooted THEN Root ELSE <<>>

LEMMA RootType == Root \in Texts /\ Len(Root) = 1 /\ Root[1] = <<>>
BY BlankText DEF Root

LEMMA RootInFront ==
  ASSUME NEW s \in Texts
  PROVE  /\ Root \o s \in Texts /\ Len(Root \o s) = 1 + Len(s) /\ Len(s) \in Nat
         /\ \A i \in 1 .. Len(s) : (Root \o s)[i + 1] = s[i]
<1> DEFINE a == Root \o s
           m == Len(Root)
           n == Len(s)
<1>1. m = 1 /\ n \in Nat
  BY RootType, LenProperties DEF Texts
<1>2. /\ a \in Texts /\ Len(a) = m + n
      /\ \A i \in 1 .. m + n : a[i] = IF i =< m THEN Root[i] ELSE s[i - m]
  BY RootType, ConcatProperties DEF Texts
<1> HIDE DEF a, m, n
<1>3. ASSUME NEW i \in 1 .. n PROVE a[i + 1] = s[i]
  <2>1. i + 1 \in 1 .. m + n /\ ~(i + 1 =< m) /\ (i + 1) - m = i
    BY <1>1
  <2> QED
    BY <1>2, <2>1
<1> QED
  BY <1>1, <1>2, <1>3 DEF a, n

LEMMA FollowBefore ==
  ASSUME NEW p, NEW s \in Texts, NEW rooted \in BOOLEAN
  PROVE  Followed(p)[Before(rooted) \o s] = Followed(p)[s]
<1>1. <<>> \in Texts /\ Root \in Texts /\ <<>> \o s = s
  BY RootType, BlankText, ConcatEmptySeq DEF Texts
<1>2. Root = Append(<<>>, <<>>)
  BY DEF Root
<1>3. Followed(p)[Root] = Followed(p)[<<>>]
  BY <1>1, <1>2, FollowBlank
<1>4. Followed(p)[Root \o s] = Followed(p)[<<>> \o s]
  BY <1>1, <1>3, FollowOn
<1> QED
  BY <1>1, <1>4 DEF Before

LEMMA FollowAfter ==
  ASSUME NEW p, NEW s \in Texts, NEW dir \in BOOLEAN
  PROVE  Followed(p)[s \o Before(dir)] = Followed(p)[s]
<1>1. s \o <<>> = s /\ s \o Root = Append(s, <<>>)
  BY BlankText, ConcatEmptySeq, AppendIsConcat DEF Texts, Root
<1>2. Followed(p)[Append(s, <<>>)] = Followed(p)[s]
  BY FollowBlank
<1> QED
  BY <1>1, <1>2 DEF Before

SlashIf(yes) == IF yes THEN Slash ELSE <<>>
NormalText(rooted, names, dir) == (SlashIf(rooted) \o Joined(names)) \o SlashIf(dir)

\* The first and the last character of a text of two parts.
LEMMA FirstAndLast ==
  ASSUME NEW s \in Text, NEW t \in Text
  PROVE  /\ s # <<>> => s \o t # <<>> /\ (s \o t)[1] = s[1]
         /\ t # <<>> => s \o t # <<>> /\ Last(s \o t) = Last(t)
<1> DEFINE st == s \o t
           m == Len(s)
           n == Len(t)
<1>1. /\ st \in Text /\ Len(st) = m + n /\ m \in Nat /\ n \in Nat
      /\ \A i \in 1 .. m + n : st[i] = IF i =< m THEN s[i] ELSE t[i - m]
  BY ConcatProperties, LenProperties DEF Text
<1>2. (s # <<>> => m # 0) /\ (t # <<>> => n # 0) /\ (st = <<>> => Len(st) = 0)
  BY EmptySeq DEF Text
<1>3. Last(st) = st[Len(st)] /\ Last(t) = t[n]
  BY DEF Last
<1> HIDE DEF st, m, n
<1>4. ASSUME n # 0 PROVE st[m + n] = t[n]
  <2>1. m + n \in 1 .. m + n /\ ~(m + n =< m) /\ (m + n) - m = n
    BY <1>1, <1>4
  <2> QED
    BY <1>1, <2>1
<1>5. ASSUME m # 0 PROVE st[1] = s[1]
  <2>1. 1 \in 1 .. m + n /\ 1 =< m
    BY <1>1, <1>5
  <2> QED
    BY <1>1, <2>1
<1>6. m # 0 \/ n # 0 => st # <<>>
  BY <1>1, <1>2
<1>7. t # <<>> => Last(st) = Last(t)
  BY <1>1, <1>2, <1>3, <1>4
<1> QED
  BY <1>2, <1>5, <1>6, <1>7 DEF st

LEMMA NormalTextProperties ==
  ASSUME NEW rooted \in BOOLEAN, NEW dir \in BOOLEAN, NEW names \in Seq(Steps), names # <<>>
  PROVE  /\ NormalText(rooted, names, dir) \in Text
         /\ IsRooted(NormalText(rooted, names, dir)) <=> rooted
         /\ NormalText(rooted, names, dir) # <<>>
         /\ Segments(NormalText(rooted, names, dir)) = (Before(rooted) \o names) \o Before(dir)
         /\ Last(NormalText(rooted, names, dir)) = "/" <=> dir
<1> DEFINE j == Joined(names)
           front == SlashIf(rooted) \o j
           n == front \o SlashIf(dir)
<1>1. j \in Text /\ Segments(j) = names /\ j # <<>> /\ ~IsRooted(j) /\ Last(j) # "/"
  BY JoinedNames
<1>2. names \in Texts /\ Segments(<<>>) = Root
  BY StepsFacts, SeqMonotonic, SegmentsProperties DEF Texts, Root
<1>3. Slash \in Text /\ Slash # <<>> /\ Slash[1] = "/" /\ Last(Slash) = "/" /\ <<>> \o Slash = Slash
  BY SlashText, TextConcat DEF Last
<1> HIDE DEF j
<1>4. /\ front \in Text /\ front # <<>> /\ Segments(front) = Before(rooted) \o names
      /\ Last(front) # "/" /\ (front[1] = "/" <=> rooted)
  <2>1. CASE rooted
    <3>1. front = Slash \o j
      BY <2>1 DEF SlashIf
    <3>2. Segments((<<>> \o Slash) \o j) = Segments(<<>>) \o Segments(j)
      BY <1>1, BlankText, SegmentsOfSlash
    <3>3. Slash \o j \in Text /\ Last(Slash \o j) = Last(j) /\ Slash \o j # <<>>
      BY <1>1, <1>3, TextConcat, FirstAndLast
    <3>4. (Slash \o j)[1] = "/"
      BY <1>1, <1>3, FirstAndLast
    <3> QED
      BY <1>1, <1>2, <1>3, <2>1, <3>1, <3>2, <3>3, <3>4 DEF Before
  <2>2. CASE ~rooted
    <3>1. front = j
      BY <1>1, <2>2, TextConcat DEF SlashIf
    <3>2. j[1] # "/"
      BY <1>1 DEF IsRooted
    <3>3. Before(rooted) \o names = names
      BY <1>2, <2>2, ConcatEmptySeq DEF Before, Texts
    <3> QED
      BY <1>1, <2>2, <3>1, <3>2, <3>3
  <2> QED
    BY <2>1, <2>2
<1> HIDE DEF front
<1>5. Before(rooted) \o names \in Texts
  BY <1>2, RootType, BlankText, ConcatProperties DEF Before, Texts
<1>6. /\ n \in Text /\ Segments(n) = (Before(rooted) \o names) \o Before(dir)
      /\ n # <<>> /\ (Last(n) = "/" <=> dir) /\ n[1] = front[1]
  <2>1. CASE dir
    <3>1. n = front \o Slash
      BY <2>1 DEF SlashIf
    <3>2. Segments((front \o Slash) \o <<>>) = Segments(front) \o Segments(<<>>)
      BY <1>4, BlankText, SegmentsOfSlash
    <3>3. front \o Slash \in Text /\ (front \o Slash) \o <<>> = front \o Slash
      BY <1>3, <1>4, TextConcat
    <3>4. Last(front \o Slash) = "/" /\ (front \o Slash)[1] = front[1] /\ front \o Slash # <<>>
      BY <1>3, <1>4, FirstAndLast
    <3> QED
      BY <1>2, <1>4, <2>1, <3>1, <3>2, <3>3, <3>4 DEF Before
  <2>2. CASE ~dir
    <3>1. n = front
      BY <1>4, <2>2, TextConcat DEF SlashIf
    <3>2. (Before(rooted) \o names) \o Before(dir) = Before(rooted) \o names
      BY <1>5, <2>2, ConcatEmptySeq DEF Before, Texts
    <3> QED
      BY <1>4, <2>2, <3>1, <3>2
  <2> QED
    BY <2>1, <2>2
<1>7. n = NormalText(rooted, names, dir)
  BY DEF NormalText, front, j
<1> HIDE DEF n
<1>8. IsRooted(n) <=> rooted
  BY <1>4, <1>6 DEF IsRooted
<1> QED
  BY <1>6, <1>7, <1>8

\* What LexicallyNormal makes of a path.
EndsAsDir(p) == Last(Segments(p)) \in {<<>>, Dot, DotDot} /\ IsDown(Resolved(p))

LEMMA NormalIs ==
  ASSUME NEW p \in Text
  PROVE  /\ p = <<>> => LexicallyNormal(p) = <<>>
         /\ p # <<>> /\ Resolved(p) = <<>> =>
              LexicallyNormal(p) = IF IsRooted(p) THEN Slash ELSE Dot
         /\ p # <<>> /\ Resolved(p) # <<>> =>
              LexicallyNormal(p) = NormalText(IsRooted(p), Resolved(p), EndsAsDir(p))
<1> DEFINE R == Resolved(p)
           l == Last(Segments(p))
<1> HIDE DEF R, l
<1>1. LexicallyNormal(p) =
        CASE p = <<>> -> <<>>
          [] p # <<>> /\ R = <<>> -> IF IsRooted(p) THEN Slash ELSE Dot
          [] OTHER -> ((IF IsRooted(p) THEN Slash ELSE <<>>) \o Joined(R))
                        \o (IF l \in {<<>>, Dot, DotDot} /\ IsDown(R) THEN Slash ELSE <<>>)
  BY DEF LexicallyNormal, Slash, R, l
<1>2. EndsAsDir(p) <=> l \in {<<>>, Dot, DotDot} /\ IsDown(R)
  BY DEF EndsAsDir, R, l
<1>3. CASE p = <<>>
  BY <1>1, <1>3
<1>4. CASE p # <<>> /\ R = <<>>
  BY <1>1, <1>4 DEF R
<1>5. CASE p # <<>> /\ R # <<>>
  BY <1>1, <1>2, <1>5 DEF R, NormalText, SlashIf
<1> QED
  BY <1>3, <1>4, <1>5 DEF R

LEMMA SlashSegments == Segments(Slash) = (Root \o <<>>) \o Before(TRUE)
<1>1. "/" \in Chars /\ Segments(<<>>) = Root /\ <<>> \o Slash = Append(<<>>, "/")
  BY CharFacts, SegmentsProperties, BlankText, SlashLast DEF Root
<1>2. <<>> \o Slash = Slash
  BY SlashText, TextConcat
<1>3. Segments(Append(<<>>, "/")) = SegmentStep(Root, "/")
  BY <1>1, BlankText, SegmentsProperties
<1>4. Segments(Slash) = Append(Root, <<>>)
  BY <1>1, <1>2, <1>3 DEF SegmentStep
<1>5. Root \o <<>> = Root /\ Append(Root, <<>>) = Root \o Root
  BY RootType, BlankText, ConcatEmptySeq, AppendIsConcat DEF Texts, Root
<1> QED
  BY <1>4, <1>5 DEF Before

\* The root leads nowhere and is normal.
LEMMA SlashNormal ==
  /\ Slash \in Text /\ IsRooted(Slash) /\ Resolved(Slash) = <<>>
  /\ LexicallyNormal(Slash) = Slash
<1>1. Slash \in Text /\ IsRooted(Slash) /\ Slash # <<>>
  BY SlashText DEF IsRooted
<1>2. Segments(Slash) = Append(Root, <<>>) /\ Root = Append(<<>>, <<>>)
  <2>1. (Root \o <<>>) \o Root = Append(Root, <<>>)
    BY RootType, BlankText, ConcatEmptySeq, AppendIsConcat DEF Texts, Root
  <2> QED
    BY <2>1, SlashSegments DEF Before, Root
<1>3. Followed(Slash)[Append(Root, <<>>)] = <<>>
  BY <1>2, RootType, BlankText, FollowBlank, FollowedProperties
<1>4. Resolved(Slash) = <<>>
  BY <1>1, <1>2, <1>3, ResolvedIs
<1> QED
  BY <1>1, <1>4, NormalIs

\* Normalising changes neither where a path leads nor from where.
LEMMA NormalSame ==
  ASSUME NEW p \in Text
  PROVE  /\ LexicallyNormal(p) \in Text
         /\ IsRooted(LexicallyNormal(p)) <=> IsRooted(p)
         /\ Resolved(LexicallyNormal(p)) = Resolved(p)
<1> DEFINE n == LexicallyNormal(p)
           R == Resolved(p)
           r == IsRooted(p)
<1>1. n \in Text
  BY NormalType
<1>2. CASE p = <<>>
  BY <1>1, <1>2, NormalIs
<1>3. CASE p # <<>> /\ R = <<>> /\ r
  <2>1. n = Slash
    BY <1>3, NormalIs
  <2> QED
    BY <1>3, <2>1, SlashNormal
<1>4. CASE p # <<>> /\ R = <<>> /\ ~r
  <2>1. n = Dot
    BY <1>4, NormalIs
  <2>2. ~IsRooted(n) /\ Dot \in Segs
    <3>1. Len(Dot) = 1 /\ Dot[1] = "." /\ Dot \in Text
      BY CharsAssumption, OneElement DEF Dot, Text
    <3>2. Slashless(Dot)
      BY <3>1 DEF Slashless
    <3> QED
      BY <2>1, <3>1, <3>2 DEF IsRooted, Segs
  <2>3. Segments(n) = Append(<<>>, Dot)
    <3>1. Append(<<>>, Dot) = <<Dot>>
      OBVIOUS
    <3> QED
      BY <2>1, <2>2, <3>1, SegmentsOfName
  <2>4. Followed(n)[Append(<<>>, Dot)] = <<>>
    BY BlankText, FollowBlank, FollowedProperties
  <2>5. Resolved(n) = <<>>
    BY <1>1, <2>3, <2>4, ResolvedIs
  <2> QED
    BY <1>1, <1>4, <2>2, <2>5
<1>5. CASE p # <<>> /\ R # <<>>
  <2> DEFINE dir == EndsAsDir(p)
  <2>1. R \in Steady(r) /\ R \in Seq(Steps) /\ R \in Texts
    BY ResolvedSteady
  <2>2. n = NormalText(r, R, dir)
    BY <1>5, NormalIs
  <2>3. r \in BOOLEAN /\ dir \in BOOLEAN
    BY DEF IsRooted, EndsAsDir
  <2> HIDE DEF n, R, r, dir
  <2>4. (IsRooted(n) <=> r) /\ Segments(n) = (Before(r) \o R) \o Before(dir)
    BY <1>5, <2>1, <2>2, <2>3, NormalTextProperties
  <2>5. Before(r) \o R \in Texts
    BY <2>1, RootType, BlankText, ConcatProperties DEF Before, Texts
  <2>6. Followed(n)[(Before(r) \o R) \o Before(dir)] = Followed(n)[R]
    BY <2>1, <2>3, <2>5, FollowBefore, FollowAfter
  <2>7. Followed(n) = Followed(p)
    BY <2>4, FollowedSame DEF r
  <2>8. Followed(p)[R] = R
    BY <2>1, SteadyFollowed DEF r
  <2>9. Resolved(n) = R
    BY <1>1, <2>4, <2>6, <2>7, <2>8, ResolvedIs
  <2> QED
    BY <1>1, <2>4, <2>9 DEF n, R, r
<1> QED
  BY <1>2, <1>3, <1>4, <1>5

------------------------------------------------------------------------------
(***************************************************************************)
(* Match compares the texts of normal paths that begin at the root.        *)
(***************************************************************************)
LEMMA PrefixIs ==
  ASSUME NEW C, NEW s \in Seq(C), NEW t \in Seq(C)
  PROVE  IsPrefix(s, t) <=> \E rest \in Seq(C) : t = s \o rest
<1> DEFINE m == Len(s)
           n == Len(t)
<1>1. m \in Nat /\ n \in Nat
  BY LenProperties
<1>2. SubSeq(s, 1, m) = s
  BY SubSeqFull
<1>3. ASSUME NEW rest \in Seq(C), t = s \o rest PROVE IsPrefix(s, t)
  <2>1. SubSeq(t, 1, m) = s
    BY <1>3, LeftPart
  <2>2. m =< n
    <3>1. n = m + Len(rest) /\ Len(rest) \in Nat
      BY <1>3, ConcatProperties, LenProperties
    <3> QED
      BY <1>1, <3>1
  <2> QED
    BY <1>2, <2>1, <2>2 DEF IsPrefix
<1>4. ASSUME IsPrefix(s, t) PROVE \E rest \in Seq(C) : t = s \o rest
  <2> DEFINE rest == SubSeq(t, m + 1, n)
             left == SubSeq(t, 1, m)
             all == s \o rest
  <2>1. m =< n /\ left = s
    BY <1>2, <1>4 DEF IsPrefix
  <2>2. m + 1 \in 1 .. n + 1 /\ n \in 0 .. n /\ m \in 0 .. n /\ 1 \in 1 .. n + 1
    BY <1>1, <2>1
  <2>3. /\ rest \in Seq(C) /\ Len(rest) = (IF m + 1 =< n THEN n - (m + 1) + 1 ELSE 0)
        /\ \A i \in 1 .. n - (m + 1) + 1 : rest[i] = t[m + 1 + i - 1]
    BY <2>2, SubSeqType
  <2>4. \A i \in 1 .. m - 1 + 1 : left[i] = t[1 + i - 1]
    BY <2>2, SubSeqType
  <2> HIDE DEF rest, left
  <2>5. /\ all \in Seq(C) /\ Len(all) = m + Len(rest)
        /\ \A i \in 1 .. m + Len(rest) : all[i] = IF i =< m THEN s[i] ELSE rest[i - m]
    BY <2>3, ConcatProperties
  <2> HIDE DEF all, m, n
  <2>6. Len(rest) = n - m
    BY <1>1, <2>1, <2>3
  <2>7. Len(all) = n
    BY <1>1, <2>5, <2>6
  <2>8. \A i \in 1 .. m : s[i] = t[i]
    BY <1>1, <2>1, <2>4
  <2>9. ASSUME NEW i \in 1 .. n PROVE t[i] = all[i]
    <3>1. all[i] = IF i =< m THEN s[i] ELSE rest[i - m]
      BY <1>1, <2>5, <2>6
    <3>2. i =< m => s[i] = t[i]
      BY <1>1, <2>8
    <3>3. ASSUME ~(i =< m) PROVE rest[i - m] = t[i]
      <4>1. i - m \in 1 .. n - (m + 1) + 1 /\ m + 1 + (i - m) - 1 = i
        BY <1>1, <3>3
      <4>2. rest[i - m] = t[m + 1 + (i - m) - 1]
        BY <2>3, <4>1
      <4> QED
        BY <4>1, <4>2
    <3> QED
      BY <3>1, <3>2, <3>3
  <2>10. t = all
    BY <2>5, <2>7, <2>9, SeqEqual DEF n
  <2> QED
    BY <2>3, <2>10 DEF all
<1> QED
  BY <1>3, <1>4

\* A directory, and the text of a normal path that begins at the root.
Closed(names) == IF names = <<>> THEN Slash ELSE (Slash \o Joined(names)) \o Slash

LEMMA RootedNormal ==
  ASSUME NEW p \in Text, IsRooted(p)
  PROVE  /\ Resolved(p) \in Seq(Downs) /\ LexicallyNormal(p) \in Text
         /\ IsRooted(LexicallyNormal(p)) /\ LexicallyNormal(p) # <<>>
         /\ Last(LexicallyNormal(p)) = "/" => LexicallyNormal(p) = Closed(Resolved(p))
         /\ Last(LexicallyNormal(p)) # "/" =>
              Resolved(p) # <<>> /\ LexicallyNormal(p) = Slash \o Joined(Resolved(p))
         /\ Segments(LexicallyNormal(p)) =
              (Root \o Resolved(p)) \o Before(Last(LexicallyNormal(p)) = "/")
<1> DEFINE n == LexicallyNormal(p)
           R == Resolved(p)
           dir == EndsAsDir(p)
<1>1. R \in Seq(Downs) /\ R \in Seq(Steps) /\ p # <<>>
  BY ResolvedSteady DEF IsRooted
<1>2. n \in Text /\ IsRooted(n) /\ n # <<>>
  BY NormalSame DEF IsRooted
<1>3. CASE R = <<>>
  <2>1. n = Slash
    BY <1>1, <1>3, NormalIs
  <2>2. Last(Slash) = "/"
    BY SlashText DEF Last
  <2> HIDE DEF n
  <2>3. Last(n) = "/" /\ n = Closed(R)
    BY <1>3, <2>1, <2>2 DEF Closed
  <2>4. (Last(n) = "/") = TRUE
    BY <2>3
  <2>5. Segments(n) = (Root \o R) \o Before(Last(n) = "/")
    BY <1>3, <2>1, <2>4, SlashSegments
  <2> QED
    BY <1>1, <1>2, <2>3, <2>5 DEF n
<1>4. CASE R # <<>>
  <2>1. n = NormalText(IsRooted(p), R, dir) /\ IsRooted(p) = TRUE
    BY <1>1, <1>4, NormalIs DEF IsRooted
  <2>2. dir \in BOOLEAN /\ TRUE \in BOOLEAN
    BY DEF EndsAsDir
  <2> HIDE DEF n, R, dir
  <2>3. n = NormalText(TRUE, R, dir)
    BY <2>1
  <2>4. Segments(n) = (Before(TRUE) \o R) \o Before(dir) /\ (Last(n) = "/" <=> dir)
    BY <1>1, <1>4, <2>2, <2>3, NormalTextProperties
  <2>5. (Last(n) = "/") = dir
    BY <2>2, <2>4
  <2>6. Segments(n) = (Root \o R) \o Before(Last(n) = "/")
    BY <2>4, <2>5 DEF Before
  <2>7. n = (Slash \o Joined(R)) \o SlashIf(dir)
    BY <2>3 DEF NormalText, SlashIf
  <2>8. Slash \o Joined(R) \in Text
    BY <1>1, <1>4, JoinedNames, SlashText, TextConcat
  <2>9. dir => n = Closed(R)
    BY <1>4, <2>7 DEF Closed, SlashIf
  <2>10. ~dir => n = Slash \o Joined(R)
    BY <2>7, <2>8, TextConcat DEF SlashIf
  <2> QED
    BY <1>1, <1>2, <1>4, <2>4, <2>6, <2>9, <2>10 DEF n, R
<1> QED
  BY <1>3, <1>4

\* A directory is in front of the texts that its names are in front of.
LEMMA ClosedInFront ==
  ASSUME NEW R \in Seq(Steps), NEW rest \in Seq(Steps), rest # <<>>
  PROVE  \E t \in Text : Slash \o Joined(R \o rest) = Closed(R) \o t
<1> DEFINE t == Joined(rest)
           j == Joined(R)
<1>1. t \in Text /\ Slash \in Text
  BY JoinedNames, SlashText
<1>2. CASE R = <<>>
  <2>1. R \o rest = rest
    BY <1>2, ConcatEmptySeq
  <2> QED
    BY <1>1, <1>2, <2>1 DEF Closed
<1>3. CASE R # <<>>
  <2>1. j \in Text /\ j \o Slash \in Text
    BY <1>3, JoinedNames, SlashText, TextConcat
  <2>2. Joined(R \o rest) = (j \o Slash) \o t
    BY <1>3, JoinedConcat
  <2>3. Closed(R) = (Slash \o j) \o Slash
    BY <1>3 DEF Closed
  <2> HIDE DEF t, j
  <2>4. Slash \o ((j \o Slash) \o t) = (Slash \o (j \o Slash)) \o t
    BY <1>1, <2>1, TextAssoc
  <2>5. Slash \o (j \o Slash) = (Slash \o j) \o Slash
    BY <1>1, <2>1, TextAssoc
  <2> QED
    BY <1>1, <2>2, <2>3, <2>4, <2>5
<1> QED
  BY <1>2, <1>3

\* Of two normal paths that begin at the root, the first of which does not end in a
\* slash: it is in front of the other if its names are.
LEMMA NamesInFront ==
  ASSUME NEW u \in Text, IsRooted(u), NEW p \in Text, IsRooted(p),
         Last(LexicallyNormal(u)) # "/", IsPrefix(Resolved(u), Resolved(p))
  PROVE  IsPrefix(LexicallyNormal(u), LexicallyNormal(p))
<1> DEFINE v == LexicallyNormal(u)
           n == LexicallyNormal(p)
           U == Resolved(u)
           R == Resolved(p)
           w == Slash \o Joined(R)
<1>1. U \in Seq(Downs) /\ U # <<>> /\ v \in Text /\ v = Slash \o Joined(U)
  BY RootedNormal
<1>2. /\ R \in Seq(Downs) /\ n \in Text
      /\ Last(n) = "/" => n = Closed(R)
      /\ Last(n) # "/" => n = w
  BY RootedNormal
<1>3. U \in Seq(Steps) /\ R \in Seq(Steps) /\ Slash \in Text /\ <<>> \in Text
  BY <1>1, <1>2, StepsFacts, SeqMonotonic, SlashText, BlankText
<1>4. PICK rest \in Seq(Steps) : R = U \o rest
  BY <1>3, PrefixIs
<1>5. R # <<>>
  BY <1>1, <1>3, <1>4, ConcatSimplifications
<1>6. \E t \in Text : w = v \o t
  <2>1. CASE rest = <<>>
    <3>1. R = U
      BY <1>3, <1>4, <2>1, ConcatEmptySeq
    <3>2. v \o <<>> = v
      BY <1>1, TextConcat
    <3> QED
      BY <1>1, <1>3, <3>1, <3>2
  <2>2. CASE rest # <<>>
    <3>1. PICK t \in Text : Slash \o Joined(U \o rest) = Closed(U) \o t
      BY <1>3, <2>2, ClosedInFront
    <3>2. Closed(U) = v \o Slash
      BY <1>1 DEF Closed
    <3>3. Slash \o t \in Text /\ (v \o Slash) \o t = v \o (Slash \o t)
      BY <1>1, <1>3, TextConcat, TextAssoc
    <3> HIDE DEF v
    <3> QED
      BY <1>4, <3>1, <3>2, <3>3
  <2> QED
    BY <2>1, <2>2
<1>7. PICK t \in Text : w = v \o t
  BY <1>6
<1>8. Closed(R) = w \o Slash
  BY <1>5 DEF Closed
<1> HIDE DEF w, v, n
<1>9. t \o Slash \in Text /\ (v \o t) \o Slash = v \o (t \o Slash)
  BY <1>1, <1>3, TextConcat, TextAssoc
<1>10. \E z \in Text : n = v \o z
  BY <1>2, <1>7, <1>8, <1>9
<1>11. IsPrefix(v, n)
  BY <1>1, <1>2, <1>10, PrefixIs DEF Text
<1> QED
  BY <1>11 DEF v, n

\* Of two normal paths that begin at the root, the first of which ends in a slash.
LEMMA PrefixOfNormal ==
  ASSUME NEW u \in Text, IsRooted(u), NEW p \in Text, IsRooted(p),
         Last(LexicallyNormal(u)) = "/"
  PROVE  IsPrefix(LexicallyNormal(u), LexicallyNormal(p)) <=>
           /\ IsPrefix(Resolved(u), Resolved(p))
           /\ Resolved(u) = Resolved(p) => Last(LexicallyNormal(p)) = "/"
<1> DEFINE v == LexicallyNormal(u)
           n == LexicallyNormal(p)
           U == Resolved(u)
           R == Resolved(p)
           dir == Last(n) = "/"
<1>1. /\ U \in Seq(Downs) /\ v \in Text /\ v # <<>> /\ v = Closed(U)
      /\ Segments(v) = (Root \o U) \o Before(Last(v) = "/")
  BY RootedNormal
<1>2. /\ R \in Seq(Downs) /\ n \in Text
      /\ dir => n = Closed(R)
      /\ ~dir => R # <<>> /\ n = Slash \o Joined(R)
      /\ Segments(n) = (Root \o R) \o Before(dir)
  BY RootedNormal
<1>3. Last(v) = "/" /\ dir \in BOOLEAN
  OBVIOUS
<1>4. /\ U \in Seq(Steps) /\ U \in Texts /\ R \in Seq(Steps) /\ R \in Texts
  BY <1>1, <1>2, StepsFacts, SeqMonotonic DEF Texts
<1> HIDE DEF v, n, U, R, dir
<1>5. ASSUME IsPrefix(U, R), U = R => dir PROVE IsPrefix(v, n)
  <2>1. PICK rest \in Seq(Steps) : R = U \o rest
    BY <1>4, <1>5, PrefixIs
  <2>2. CASE rest = <<>>
    <3>1. U = R
      BY <1>4, <2>1, <2>2, ConcatEmptySeq
    <3>2. n = v /\ v = v \o <<>> /\ <<>> \in Text
      BY <1>1, <1>2, <1>5, <3>1, TextConcat
    <3> QED
      BY <1>1, <1>2, <3>2, PrefixIs DEF Text
  <2>3. CASE rest # <<>>
    <3>1. PICK t \in Text : Slash \o Joined(R) = v \o t
      BY <1>1, <1>4, <2>1, <2>3, ClosedInFront
    <3>2. R # <<>>
      BY <1>4, <2>1, <2>3, ConcatSimplifications
    <3>3. \E z \in Text : n = v \o z
      <4>1. CASE dir
        <5>1. n = (v \o t) \o Slash
          BY <1>2, <3>1, <3>2, <4>1 DEF Closed
        <5>2. t \o Slash \in Text /\ (v \o t) \o Slash = v \o (t \o Slash)
          BY <1>1, SlashText, TextConcat, TextAssoc
        <5> QED
          BY <5>1, <5>2
      <4>2. CASE ~dir
        BY <1>2, <3>1, <4>2
      <4> QED
        BY <4>1, <4>2
    <3> QED
      BY <1>1, <1>2, <3>3, PrefixIs DEF Text
  <2> QED
    BY <2>2, <2>3
<1>6. ASSUME IsPrefix(v, n) PROVE IsPrefix(U, R) /\ (U = R => dir)
  <2>1. PICK z \in Text : n = v \o z
    <3>1. v \in Seq(Chars) /\ n \in Seq(Chars)
      BY <1>1, <1>2 DEF Text
    <3>2. \E z \in Seq(Chars) : n = v \o z
      BY <1>6, <3>1, PrefixIs
    <3> QED
      BY <3>2 DEF Text
  <2>2. PICK w \in Text : v = w \o Slash /\ Segments(v) = Append(Segments(w), <<>>)
    BY <1>1, <1>3, RootSplit
  <2> DEFINE a == Root \o U
             b == Root \o R
             z1 == Segments(z)
             tail == Before(dir)
  <2>3. a \in Texts /\ b \in Texts /\ z1 \in Texts /\ tail \in Texts /\ z1 # <<>>
    <3>1. z1 \in Texts /\ z1 # <<>>
      BY SegmentsProperties DEF NonEmpty, Texts
    <3> QED
      BY <1>4, <3>1, RootType, BlankText, ConcatProperties DEF Texts, Before
  <2>4. Segments(w) = a
    <3>1. Segments(w) \in Texts /\ <<>> \in Text
      BY BlankText, SegmentsProperties DEF NonEmpty, Texts
    <3>2. Segments(v) = Append(a, <<>>)
      <4>1. (Last(v) = "/") = TRUE
        BY <1>3
      <4>2. Segments(v) = a \o Root
        BY <1>1, <4>1 DEF Before
      <4> QED
        BY <2>3, <4>2, BlankText, AppendIsConcat DEF Root, Texts
    <3>3. Front(Append(Segments(w), <<>>)) = Segments(w)
      BY <3>1, FrontAndLast DEF Texts
    <3> HIDE DEF a
    <3>4. Front(Append(a, <<>>)) = a
      BY <2>3, <3>1, FrontAndLast DEF Texts
    <3> QED
      BY <2>2, <3>2, <3>3, <3>4
  <2>5. a \o z1 = b \o tail
    <3>1. Segments((w \o Slash) \o z) = Segments(w) \o z1
      BY SegmentsOfSlash
    <3> QED
      BY <1>2, <2>1, <2>2, <2>4, <3>1
  <2>6. /\ Len(a) = 1 + Len(U) /\ Len(U) \in Nat
        /\ \A i \in 1 .. Len(U) : a[i + 1] = U[i]
    BY <1>4, RootInFront
  <2>7. /\ Len(b) = 1 + Len(R) /\ Len(R) \in Nat
        /\ \A i \in 1 .. Len(R) : b[i + 1] = R[i]
    BY <1>4, RootInFront
  <2> DEFINE A == a \o z1
             B == b \o tail
  <2>8. /\ Len(A) = Len(a) + Len(z1) /\ Len(z1) \in Nat \ {0}
        /\ \A i \in 1 .. Len(a) + Len(z1) : A[i] = IF i =< Len(a) THEN a[i] ELSE z1[i - Len(a)]
    BY <2>3, ConcatProperties, LenProperties, EmptySeq DEF Texts
  <2>9. /\ Len(B) = Len(b) + Len(tail)
        /\ \A i \in 1 .. Len(b) + Len(tail) : B[i] = IF i =< Len(b) THEN b[i] ELSE tail[i - Len(b)]
    BY <2>3, ConcatProperties DEF Texts
  <2>10. Len(tail) = IF dir THEN 1 ELSE 0
    BY RootType, EmptySeq DEF Before
  <2> HIDE DEF a, b, z1, tail, A, B
  <2>11. A = B
    BY <2>5 DEF A, B
  <2>12. Len(U) =< Len(R) /\ (Len(U) = Len(R) => dir)
    BY <2>6, <2>7, <2>8, <2>9, <2>10, <2>11
  <2>13. ASSUME NEW i \in 1 .. Len(U) PROVE U[i] = R[i]
    <3> DEFINE k == i + 1
    <3>1. k \in 1 .. 1 + Len(U) /\ k \in 1 .. 1 + Len(R) /\ i \in 1 .. Len(R)
      BY <2>6, <2>7, <2>12
    <3>2. a[k] = U[i] /\ b[k] = R[i]
      BY <2>6, <2>7, <3>1
    <3> HIDE DEF k
    <3>3. k \in 1 .. Len(a) + Len(z1) /\ k =< Len(a) /\ k \in 1 .. Len(b) + Len(tail) /\ k =< Len(b)
      BY <2>6, <2>7, <2>8, <2>10, <3>1
    <3>4. A[k] = a[k] /\ B[k] = b[k]
      BY <2>8, <2>9, <3>3
    <3> QED
      BY <2>11, <3>2, <3>4
  <2>14. IsPrefix(U, R)
    <3> DEFINE s == SubSeq(U, 1, Len(U))
               t == SubSeq(R, 1, Len(U))
    <3>1. s = U
      BY <1>4, SubSeqFull DEF Texts
    <3>2. 1 \in 1 .. Len(R) + 1 /\ Len(U) \in 0 .. Len(R)
      BY <2>6, <2>7, <2>12
    <3>3. /\ t \in Texts /\ Len(t) = (IF 1 =< Len(U) THEN Len(U) - 1 + 1 ELSE 0)
          /\ \A i \in 1 .. Len(U) - 1 + 1 : t[i] = R[1 + i - 1]
      BY <1>4, <3>2, SubSeqType DEF Texts
    <3> HIDE DEF s, t
    <3>4. Len(t) = Len(U) /\ \A i \in 1 .. Len(U) : U[i] = t[i]
      BY <2>6, <2>13, <3>3
    <3>5. U = t
      BY <1>4, <3>3, <3>4, SeqEqual DEF Texts
    <3> QED
      BY <2>12, <3>1, <3>5 DEF IsPrefix, s, t
  <2> QED
    BY <2>12, <2>14
<1> QED
  BY <1>5, <1>6 DEF v, n, U, R, dir

------------------------------------------------------------------------------
(***************************************************************************)
(* The path of a file relative to a directory: the names that remain.      *)
(***************************************************************************)
LEMMA PrefixAt ==
  ASSUME NEW C, NEW s \in Seq(C), NEW t \in Seq(C), IsPrefix(s, t)
  PROVE  /\ Len(s) =< Len(t) /\ Len(s) \in Nat /\ Len(t) \in Nat
         /\ \A i \in 1 .. Len(s) : t[i] = s[i]
<1>1. PICK rest \in Seq(C) : t = s \o rest
  BY PrefixIs
<1> DEFINE all == s \o rest
<1>2. /\ Len(all) = Len(s) + Len(rest) /\ Len(rest) \in Nat /\ Len(s) \in Nat
      /\ \A i \in 1 .. Len(s) + Len(rest) : all[i] = IF i =< Len(s) THEN s[i] ELSE rest[i - Len(s)]
  BY ConcatProperties, LenProperties
<1>3. t = all
  BY <1>1
<1> HIDE DEF all
<1> QED
  BY <1>2, <1>3

LEMMA CommonLength ==
  ASSUME NEW C, NEW c \in Seq(C), NEW x \in Seq(C), NEW y \in Seq(C),
         x = <<>> \/ y = <<>> \/ x[1] # y[1]
  PROVE  Len(LongestCommonPrefix({c \o x, c \o y})) = Len(c)
<1> DEFINE s == c \o x
           t == c \o y
           m == Len(c)
           common == CommonPrefixes({s, t})
<1>1. s \in Seq(C) /\ t \in Seq(C) /\ m \in Nat
  BY ConcatProperties, LenProperties
<1>2. IsPrefix(c, s) /\ IsPrefix(c, t)
  BY <1>1, PrefixIs
<1>3. c \in Prefixes(s)
  <2>1. c = SubSeq(s, 1, m)
    BY LeftPart
  <2>2. m \in 0 .. Len(s)
    BY <1>1, <1>2, PrefixAt
  <2> HIDE DEF s, m
  <2> QED
    BY <2>1, <2>2 DEF Prefixes
<1>4. /\ Len(s) = m + Len(x) /\ Len(t) = m + Len(y) /\ Len(x) \in Nat /\ Len(y) \in Nat
      /\ \A i \in 1 .. m + Len(x) : s[i] = IF i =< m THEN c[i] ELSE x[i - m]
      /\ \A i \in 1 .. m + Len(y) : t[i] = IF i =< m THEN c[i] ELSE y[i - m]
  BY ConcatProperties, LenProperties
<1>5. (x = <<>> => Len(x) = 0) /\ (y = <<>> => Len(y) = 0)
  BY EmptySeq
<1> HIDE DEF s, t, m
<1>6. c \in common
  BY <1>2, <1>3 DEF CommonPrefixes
<1>7. ASSUME NEW other \in common PROVE Len(other) =< m /\ Len(other) \in Nat
  <2>1. IsPrefix(other, s) /\ IsPrefix(other, t) /\ (other \in Prefixes(s) \/ other \in Prefixes(t))
    BY DEF CommonPrefixes
  <2>2. other \in Seq(C)
    <3>1. ASSUME NEW w \in Seq(C), NEW l \in 0 .. Len(w) PROVE SubSeq(w, 1, l) \in Seq(C)
      <4>1. 1 \in 1 .. Len(w) + 1
        BY LenProperties
      <4> QED
        BY <4>1, SubSeqType
    <3> QED
      BY <1>1, <2>1, <3>1 DEF Prefixes
  <2>3. /\ Len(other) =< Len(s) /\ Len(other) =< Len(t) /\ Len(other) \in Nat
        /\ \A i \in 1 .. Len(other) : s[i] = other[i] /\ t[i] = other[i]
    BY <1>1, <2>1, <2>2, PrefixAt
  <2>4. ASSUME ~(Len(other) =< m) PROVE FALSE
    <3> DEFINE k == m + 1
    <3>1. /\ k \in 1 .. Len(other) /\ k \in 1 .. m + Len(x) /\ k \in 1 .. m + Len(y)
          /\ ~(k =< m) /\ k - m = 1 /\ Len(x) # 0 /\ Len(y) # 0
      BY <1>1, <1>4, <2>3, <2>4
    <3> HIDE DEF k
    <3>2. s[k] = x[1] /\ t[k] = y[1] /\ s[k] = t[k]
      BY <1>4, <2>3, <3>1
    <3> QED
      BY <1>5, <3>1, <3>2
  <2> QED
    BY <2>3, <2>4
<1> DEFINE longest == LongestCommonPrefix({s, t})
<1>8. longest \in common /\ \A other \in common : Len(other) =< Len(longest)
  <2>1. \E l \in common : \A other \in common : Len(other) =< Len(l)
    BY <1>6, <1>7 DEF m
  <2> QED
    BY <2>1 DEF LongestCommonPrefix
<1> HIDE DEF longest, common
<1>9. Len(longest) =< m /\ Len(longest) \in Nat /\ m =< Len(longest)
  BY <1>6, <1>7, <1>8 DEF m
<1>10. Len(longest) = m
  BY <1>1, <1>9
<1> QED
  BY <1>10 DEF longest, s, t, m

\* The names of a path, a segment at a time.
NameStep == [x \in Texts \X Text |-> NextName(x[1], x[2])]
Named == Loop(Texts, Text, <<>>, NameStep)

LEMMA NextNameType ==
  ASSUME NEW names \in Texts, NEW seg \in Text
  PROVE  NextName(names, seg) \in Texts
BY AppendProperties DEF NextName, Texts

LEMMA NamedProperties ==
  /\ Named[<<>>] = <<>>
  /\ \A segs \in Texts : Named[segs] \in Texts
  /\ \A segs \in Texts, seg \in Text : Named[Append(segs, seg)] = NextName(Named[segs], seg)
<1>1. <<>> \in Texts /\ NameStep \in [Texts \X Text -> Texts]
  BY NextNameType, BlankText DEF NameStep
<1>2. Named \in [Texts -> Texts] /\ IsLoop(Named, Text, <<>>, NameStep)
  BY <1>1, LoopProperties DEF Texts, Named
<1>3. Named[<<>>] = <<>>
  BY <1>2 DEF IsLoop
<1>4. ASSUME NEW segs \in Texts, NEW seg \in Text
      PROVE  Named[Append(segs, seg)] = NextName(Named[segs], seg)
  <2>1. Named[segs] \in Texts
    BY <1>2
  <2>2. Named[Append(segs, seg)] = NameStep[<<Named[segs], seg>>]
    BY <1>2 DEF IsLoop, Texts
  <2> QED
    BY <2>1, <2>2 DEF NameStep
<1> QED
  BY <1>2, <1>3, <1>4

LEMMA NameFold ==
  ASSUME NEW s \in Texts
  PROVE  FoldLeft(NextName, <<>>, s) = Named[s]
<1> DEFINE D == DOMAIN s
           rec(it) == it = [S \in SUBSET D |->
             IF S = {} THEN <<>> ELSE NextName(it[S \ {Max(S)}], s[Max(S)])]
           fold == CHOOSE it : rec(it)
           step == NameStep
<1>1. FoldLeft(NextName, <<>>, s) = fold[D]
  BY DEF FoldLeft, MapThenFoldSet
<1>2. <<>> \in Texts /\ step \in [Texts \X Text -> Texts]
  BY NextNameType, BlankText DEF NameStep
<1>3. s \in Seq(Text)
  BY DEF Texts
<1>4. PICK h : FoldsSeq(h, Texts, Text, s, <<>>, step)
  <2> HIDE DEF step
  <2> QED
    BY <1>2, <1>3, SeqFoldExists
<1>5. rec(h)
  BY <1>4 DEF FoldsSeq, NameStep
<1>6. rec(fold)
  <2> HIDE DEF rec
  <2> QED
    BY <1>5
<1>7. FoldsBy(fold, Texts, s, <<>>, step)
  <2> HIDE DEF fold
  <2>1. fold[{}] = <<>>
    BY <1>6
  <2>2. ASSUME NEW i \in 1 .. Len(s), fold[1 .. i - 1] \in Texts
        PROVE  fold[1 .. i] = step[<<fold[1 .. i - 1], s[i]>>]
    <3>1. /\ 1 .. i \in SUBSET (1 .. Len(s)) /\ 1 .. i # {} /\ s[i] \in Text
          /\ Max(1 .. i) = i /\ (1 .. i) \ {i} = 1 .. i - 1 /\ DOMAIN s = 1 .. Len(s)
      BY <1>3, LenProperties, InitialSegment, ElementOfSeq
    <3>2. fold[1 .. i] = NextName(fold[1 .. i - 1], s[i])
      BY <1>6, <3>1
    <3> QED
      BY <2>2, <3>1, <3>2 DEF NameStep
  <2> QED
    BY <2>1, <2>2 DEF FoldsBy
<1>8. FoldsTo(fold, s, Named)
  <2> HIDE DEF fold, step
  <2> QED
    BY <1>2, <1>3, <1>7, FoldIsLoop DEF Named, step
<1>9. D = 1 .. Len(s)
  BY <1>3, LenProperties
<1> QED
  BY <1>1, <1>8, <1>9, Zenon DEF FoldsTo

LEMMA NamesOfNormal ==
  ASSUME NEW R \in Seq(Steps), NEW dir \in BOOLEAN
  PROVE  FoldLeft(NextName, <<>>, (Root \o R) \o Before(dir)) = R
<1> DEFINE P == {s \in Seq(Steps) : Named[Root \o s] = s}
<1>1. <<>> \in P
  <2>1. Root \o <<>> = Root /\ Root = Append(<<>>, <<>>) /\ <<>> \in Seq(Steps)
    BY RootType, ConcatEmptySeq, EmptySeq DEF Texts, Root
  <2>2. Named[Append(<<>>, <<>>)] = NextName(<<>>, <<>>)
    BY BlankText, NamedProperties
  <2> QED
    BY <2>1, <2>2 DEF NextName
<1>2. ASSUME NEW s \in Seq(Steps), NEW c \in Steps, s \in P PROVE Append(s, c) \in P
  <2>1. s \in Texts /\ c \in Text /\ c # <<>> /\ Append(s, c) \in Seq(Steps)
    BY StepsFacts, SeqMonotonic, AppendProperties DEF Texts, Steps
  <2>2. Root \o Append(s, c) = Append(Root \o s, c) /\ Root \o s \in Texts
    BY <2>1, RootType, ConcatAppend, ConcatProperties DEF Texts
  <2>3. Named[Append(Root \o s, c)] = NextName(Named[Root \o s], c)
    BY <2>1, <2>2, NamedProperties
  <2>4. Named[Root \o s] = s
    BY <1>2
  <2>5. NextName(s, c) = Append(s, c)
    BY <2>1 DEF NextName
  <2> QED
    BY <2>1, <2>2, <2>3, <2>4, <2>5
<1>3. \A s \in Seq(Steps) : s \in P
  <2> HIDE DEF P
  <2> QED
    BY <1>1, <1>2, SeqSetInduction
<1> DEFINE b == Root \o R
<1>4. b \in Texts /\ Named[b] = R
  <2>1. R \in Texts
    BY StepsFacts, SeqMonotonic DEF Texts
  <2> QED
    BY <1>3, <2>1, RootInFront
<1> HIDE DEF b
<1>5. b \o Before(dir) \in Texts /\ Named[b \o Before(dir)] = R
  <2>1. b \o <<>> = b /\ b \o Root = Append(b, <<>>) /\ Append(b, <<>>) \in Texts
    BY <1>4, BlankText, ConcatEmptySeq, AppendIsConcat, AppendProperties DEF Texts, Root
  <2>2. Named[Append(b, <<>>)] = NextName(Named[b], <<>>)
    BY <1>4, BlankText, NamedProperties
  <2> QED
    BY <1>4, <2>1, <2>2 DEF NextName, Before
<1>6. FoldLeft(NextName, <<>>, b \o Before(dir)) = Named[b \o Before(dir)]
  BY <1>5, NameFold
<1> QED
  BY <1>5, <1>6 DEF b

\* operator/ on the elements of a path.
JoinElement == [x \in Text \X Text |-> Join(x[1], x[2])]
JoinedUp == Loop(Text, Text, <<>>, JoinElement)

LEMMA JoinType ==
  ASSUME NEW left \in Text, NEW right \in Text
  PROVE  Join(left, right) \in Text
<1>1. left \o right \in Text /\ left \o Slash \in Text /\ (left \o Slash) \o right \in Text
  BY SlashText, TextConcat
<1> QED
  BY <1>1 DEF Join, Slash

LEMMA JoinedUpProperties ==
  /\ JoinedUp[<<>>] = <<>>
  /\ \A s \in Texts, c \in Text : JoinedUp[Append(s, c)] = Join(JoinedUp[s], c)
<1>1. <<>> \in Text /\ JoinElement \in [Text \X Text -> Text]
  BY JoinType, BlankText DEF JoinElement
<1>2. JoinedUp \in [Texts -> Text] /\ IsLoop(JoinedUp, Text, <<>>, JoinElement)
  BY <1>1, LoopProperties DEF Texts, JoinedUp
<1>3. JoinedUp[<<>>] = <<>>
  BY <1>2 DEF IsLoop
<1>4. ASSUME NEW s \in Texts, NEW c \in Text
      PROVE  JoinedUp[Append(s, c)] = Join(JoinedUp[s], c)
  <2>1. JoinedUp[s] \in Text
    BY <1>2
  <2>2. JoinedUp[Append(s, c)] = JoinElement[<<JoinedUp[s], c>>]
    BY <1>2 DEF IsLoop, Texts
  <2> QED
    BY <2>1, <2>2 DEF JoinElement
<1> QED
  BY <1>3, <1>4

LEMMA JoinFold ==
  ASSUME NEW s \in Texts
  PROVE  FoldLeft(Join, <<>>, s) = JoinedUp[s]
<1> DEFINE D == DOMAIN s
           rec(it) == it = [S \in SUBSET D |->
             IF S = {} THEN <<>> ELSE Join(it[S \ {Max(S)}], s[Max(S)])]
           fold == CHOOSE it : rec(it)
           step == JoinElement
<1>1. FoldLeft(Join, <<>>, s) = fold[D]
  BY DEF FoldLeft, MapThenFoldSet
<1>2. <<>> \in Text /\ step \in [Text \X Text -> Text]
  BY JoinType, BlankText DEF JoinElement
<1>3. s \in Seq(Text)
  BY DEF Texts
<1>4. PICK h : FoldsSeq(h, Text, Text, s, <<>>, step)
  <2> HIDE DEF step
  <2> QED
    BY <1>2, <1>3, SeqFoldExists
<1>5. rec(h)
  BY <1>4 DEF FoldsSeq, JoinElement
<1>6. rec(fold)
  <2> HIDE DEF rec
  <2> QED
    BY <1>5
<1>7. FoldsBy(fold, Text, s, <<>>, step)
  <2> HIDE DEF fold
  <2>1. fold[{}] = <<>>
    BY <1>6
  <2>2. ASSUME NEW i \in 1 .. Len(s), fold[1 .. i - 1] \in Text
        PROVE  fold[1 .. i] = step[<<fold[1 .. i - 1], s[i]>>]
    <3>1. /\ 1 .. i \in SUBSET (1 .. Len(s)) /\ 1 .. i # {} /\ s[i] \in Text
          /\ Max(1 .. i) = i /\ (1 .. i) \ {i} = 1 .. i - 1 /\ DOMAIN s = 1 .. Len(s)
      BY <1>3, LenProperties, InitialSegment, ElementOfSeq
    <3>2. fold[1 .. i] = Join(fold[1 .. i - 1], s[i])
      BY <1>6, <3>1
    <3> QED
      BY <2>2, <3>1, <3>2 DEF JoinElement
  <2> QED
    BY <2>1, <2>2 DEF FoldsBy
<1>8. FoldsTo(fold, s, JoinedUp)
  <2> HIDE DEF fold, step
  <2> QED
    BY <1>2, <1>3, <1>7, FoldIsLoop DEF JoinedUp, step
<1>9. D = 1 .. Len(s)
  BY <1>3, LenProperties
<1> QED
  BY <1>1, <1>8, <1>9, Zenon DEF FoldsTo

LEMMA NotRooted == \A seg \in Segs : ~IsRooted(seg)
<1>1. ASSUME NEW seg \in Segs, seg # <<>> PROVE seg[1] # "/"
  BY <1>1, LenProperties, EmptySeq DEF Segs, Slashless, Text
<1> QED
  BY <1>1 DEF IsRooted

LEMMA JoinedUpIs ==
  ASSUME NEW names \in Seq(Steps)
  PROVE  /\ JoinedUp[names] = Joined(names)
         /\ names # <<>> => JoinedUp[names \o Root] = Joined(names) \o Slash
<1> DEFINE P == {s \in Seq(Steps) : JoinedUp[s] = Joined(s)}
<1>1. <<>> \in P
  BY EmptySeq, JoinedUpProperties, JoinedProperties
<1>2. ASSUME NEW s \in Seq(Steps), NEW c \in Steps, s \in P PROVE Append(s, c) \in P
  <2> DEFINE j == Joined(s)
  <2>1. /\ s \in Texts /\ c \in Text /\ ~IsRooted(c) /\ Append(s, c) \in Seq(Steps)
        /\ <<>> \o c = c
    BY StepsFacts, SeqMonotonic, AppendProperties, NotRooted, TextConcat DEF Texts
  <2>2. JoinedUp[Append(s, c)] = Join(j, c) /\ Joined(Append(s, c)) = JoinedWith(j, c)
    BY <1>2, <2>1, JoinedUpProperties, JoinedProperties
  <2>3. s = <<>> => j = <<>>
    BY JoinedProperties
  <2>4. s # <<>> => j # <<>> /\ Last(j) # "/"
    BY JoinedNames
  <2> HIDE DEF j
  <2>5. Join(j, c) = JoinedWith(j, c)
    BY <2>1, <2>3, <2>4 DEF Join, JoinedWith
  <2> QED
    BY <2>1, <2>2, <2>5
<1>3. \A s \in Seq(Steps) : s \in P
  <2> HIDE DEF P
  <2> QED
    BY <1>1, <1>2, SeqSetInduction
<1>4. ASSUME names # <<>> PROVE JoinedUp[names \o Root] = Joined(names) \o Slash
  <2> DEFINE j == Joined(names)
  <2>1. j \in Text /\ j # <<>> /\ Last(j) # "/"
    BY <1>4, JoinedNames
  <2>2. names \in Texts /\ names \o Root = Append(names, <<>>)
    BY StepsFacts, SeqMonotonic, AppendIsConcat, BlankText DEF Texts, Root
  <2>3. JoinedUp[Append(names, <<>>)] = Join(j, <<>>)
    BY <1>3, <2>2, BlankText, JoinedUpProperties
  <2> HIDE DEF j
  <2>4. Join(j, <<>>) = (j \o Slash) \o <<>>
    BY <2>1 DEF Join, Slash, IsRooted
  <2>5. (j \o Slash) \o <<>> = j \o Slash
    BY <2>1, SlashText, TextConcat
  <2> QED
    BY <2>2, <2>3, <2>4, <2>5 DEF j
<1> QED
  BY <1>3, <1>4

LEMMA TextsAssoc ==
  ASSUME NEW s \in Texts, NEW t \in Texts, NEW u \in Texts
  PROVE  (s \o t) \o u = s \o (t \o u) /\ s \o t \in Texts
<1>1. s \in Seq(Text) /\ t \in Seq(Text) /\ u \in Seq(Text)
  BY DEF Texts
<1>2. (s \o t) \o u = s \o (t \o u)
  BY <1>1, ConcatAssociative
<1>3. s \o t \in Seq(Text)
  BY <1>1, ConcatProperties
<1> QED
  BY <1>2, <1>3 DEF Texts

LEMMA ElementsOfNormal ==
  ASSUME NEW p \in Text, IsRooted(p)
  PROVE  Elements(LexicallyNormal(p)) =
           (<<Slash>> \o Resolved(p))
             \o Before(Resolved(p) # <<>> /\ Last(LexicallyNormal(p)) = "/")
<1> DEFINE n == LexicallyNormal(p)
           R == Resolved(p)
           dir == Last(n) = "/"
<1>1. R \in Seq(Downs) /\ IsRooted(n) /\ Segments(n) = (Root \o R) \o Before(dir)
  BY RootedNormal
<1>2. R \in Seq(Steps) /\ dir \in BOOLEAN
  BY <1>1, StepsFacts, SeqMonotonic
<1> HIDE DEF n, R, dir
<1>3. FoldLeft(NextName, <<>>, Segments(n)) = R
  BY <1>1, <1>2, NamesOfNormal
<1>4. Elements(n) = (<<Slash>> \o R) \o Before(R # <<>> /\ dir)
  BY <1>1, <1>3 DEF Elements, Slash, Before, Root, dir
<1> QED
  BY <1>4 DEF n, R, dir

\* A path relative to another that goes no further than what they share, or only
\* adds a slash to it.
LEMMA RelativeToFront ==
  ASSUME NEW path, NEW base, IsRooted(path) = IsRooted(base),
         NEW c \in Texts, NEW x \in Texts, NEW y \in {<<>>, Root},
         Elements(path) = c \o x, Elements(base) = c \o y, y = <<>> \/ x[1] # <<>>
  PROVE  LexicallyRelative(path, base) =
           IF x = <<>> \/ Head(x) = <<>> THEN Dot ELSE JoinedUp[x]
<1> DEFINE E == Elements(path)
           B == Elements(base)
           common == Len(LongestCommonPrefix({E, B}))
           ahead == SubSeq(E, common + 1, Len(E))
           behind == SubSeq(B, common + 1, Len(B))
           names == {i \in DOMAIN behind : behind[i] \notin {<<>>, Dot, DotDot}}
           ups == {i \in DOMAIN behind : behind[i] = DotDot}
           up == Cardinality(names) - Cardinality(ups)
<1>1. y \in Texts /\ (y = <<>> \/ y[1] = <<>>)
  BY RootType, BlankText
<1>2. common = Len(c)
  <2>1. x = <<>> \/ y = <<>> \/ x[1] # y[1]
    BY <1>1
  <2>2. c \in Seq(Text) /\ x \in Seq(Text) /\ y \in Seq(Text)
    BY <1>1 DEF Texts
  <2>3. \A a, b, d \in Seq(Text) :
          b = <<>> \/ d = <<>> \/ b[1] # d[1] =>
            Len(LongestCommonPrefix({a \o b, a \o d})) = Len(a)
    BY CommonLength, Zenon
  <2>4. c \in Seq(Text)
    BY <2>2
  <2>5. x \in Seq(Text)
    BY <2>2
  <2>6. y \in Seq(Text)
    BY <2>2
  <2>7. Len(LongestCommonPrefix({c \o x, c \o y})) = Len(c)
    BY <2>1, <2>3, <2>4, <2>5, <2>6, Zenon
  <2> QED
    BY <2>7
<1>3. ahead = x /\ behind = y
  <2> HIDE DEF common
  <2>1. c \in Seq(Text) /\ x \in Seq(Text) /\ y \in Seq(Text)
    BY <1>1 DEF Texts
  <2>2. SubSeq(c \o x, Len(c) + 1, Len(c \o x)) = x
    BY <2>1, RightPart
  <2>3. SubSeq(c \o y, Len(c) + 1, Len(c \o y)) = y
    BY <2>1, RightPart
  <2> QED
    BY <1>2, <2>2, <2>3
<1> HIDE DEF ahead, behind
<1>4. up = 0
  <2>1. \A i \in DOMAIN y : y[i] = <<>>
    <3>1. CASE y = <<>>
      <4>1. DOMAIN y = {}
        BY <3>1
      <4> QED
        BY <4>1
    <3>2. CASE y = Root
      <4>1. DOMAIN y = 1 .. 1 /\ y[1] = <<>>
        BY <3>2, RootType, LenProperties DEF Texts
      <4> QED
        BY <4>1
    <3> QED
      BY <3>1, <3>2
  <2>2. names = {} /\ ups = {}
    BY <1>3, <2>1, StepsFacts
  <2>3. Cardinality({}) = 0
    BY FS_EmptySet
  <2> HIDE DEF names, ups
  <2> QED
    BY <2>2, <2>3
<1> HIDE DEF up
<1>5. [i \in 1 .. up |-> DotDot] \o ahead = ahead
  <2>1. [i \in 1 .. 0 |-> DotDot] = <<>>
    OBVIOUS
  <2> QED
    BY <1>3, <1>4, <2>1, ConcatEmptySeq DEF Texts
<1>6. LexicallyRelative(path, base) =
        CASE IsRooted(path) # IsRooted(base) \/ up < 0 -> <<>>
          [] OTHER -> IF up = 0 /\ (ahead = <<>> \/ Head(ahead) = <<>>) THEN Dot
                      ELSE FoldLeft(Join, <<>>, [i \in 1 .. up |-> DotDot] \o ahead)
  BY DEF LexicallyRelative, ahead, behind, up
<1>7. FoldLeft(Join, <<>>, x) = JoinedUp[x]
  BY JoinFold
<1> QED
  BY <1>3, <1>4, <1>5, <1>6, <1>7

\* A path that does not begin at the root and leads from anywhere along the names.
LeadsAlong(rel, names) ==
  /\ rel \in Text /\ ~IsRooted(rel)
  /\ \A path \in Text, s \in Texts :
       Followed(path)[s \o Segments(rel)] = Followed(path)[s] \o names

LEMMA DotLeadsNowhere == LeadsAlong(Dot, <<>>)
<1>1. Len(Dot) = 1 /\ Dot[1] = "." /\ Dot \in Text
  BY CharsAssumption, OneElement DEF Dot, Text
<1>2. Dot \in Segs
  BY <1>1 DEF Slashless, Segs
<1>3. Segments(Dot) = <<Dot>> /\ ~IsRooted(Dot)
  BY <1>2, SegmentsOfName, NotRooted
<1>4. ASSUME NEW path \in Text, NEW s \in Texts
      PROVE  Followed(path)[s \o <<Dot>>] = Followed(path)[s] \o <<>>
  <2>1. s \o <<Dot>> = Append(s, Dot) /\ Followed(path)[s] \in Texts
    BY <1>1, AppendIsConcat, FollowedProperties DEF Texts
  <2>2. Followed(path)[Append(s, Dot)] = Followed(path)[s]
    BY FollowBlank
  <2>3. Followed(path)[s] \o <<>> = Followed(path)[s]
    BY <2>1, ConcatEmptySeq DEF Texts
  <2> QED
    BY <2>1, <2>2, <2>3
<1> QED
  BY <1>1, <1>3, <1>4 DEF LeadsAlong

LEMMA NamesLead ==
  ASSUME NEW names \in Seq(Downs), names # <<>>, NEW dir \in BOOLEAN
  PROVE  /\ JoinedUp[names \o Before(dir)] = NormalText(FALSE, names, dir)
         /\ LeadsAlong(NormalText(FALSE, names, dir), names)
<1> DEFINE n == NormalText(FALSE, names, dir)
           tail == Before(dir)
<1>1. names \in Seq(Steps) /\ names \in Texts /\ tail \in Texts /\ FALSE \in BOOLEAN
  BY StepsFacts, SeqMonotonic, RootType, BlankText DEF Texts, Before
<1>2. n \in Text /\ ~IsRooted(n) /\ Segments(n) = (Before(FALSE) \o names) \o tail
  BY <1>1, NormalTextProperties
<1>3. Segments(n) = names \o tail
  <2>1. Before(FALSE) \o names = names
    BY <1>1, ConcatEmptySeq DEF Before, Texts
  <2> QED
    BY <1>2, <2>1
<1>4. ASSUME NEW path \in Text, NEW s \in Texts
      PROVE  Followed(path)[s \o (names \o tail)] = Followed(path)[s] \o names
  <2>1. s \o (names \o tail) = (s \o names) \o tail /\ s \o names \in Texts
    BY <1>1, ConcatAssociative, ConcatProperties DEF Texts
  <2>2. Followed(path)[(s \o names) \o tail] = Followed(path)[s \o names]
    BY <2>1, FollowAfter
  <2>3. Followed(path)[s \o names] = Followed(path)[s] \o names
    BY FollowDowns
  <2> QED
    BY <2>1, <2>2, <2>3
<1>5. JoinedUp[names \o tail] = n
  <2> DEFINE j == Joined(names)
  <2>1. j \in Text /\ JoinedUp[names] = j /\ JoinedUp[names \o Root] = j \o Slash
    BY <1>1, JoinedNames, JoinedUpIs
  <2>2. <<>> \o j = j /\ j \o <<>> = j
    BY <2>1, TextConcat
  <2>3. names \o <<>> = names
    BY <1>1, ConcatEmptySeq DEF Texts
  <2> HIDE DEF j
  <2>4. n = j \o SlashIf(dir)
    BY <2>2 DEF NormalText, SlashIf, j
  <2> QED
    BY <2>1, <2>2, <2>3, <2>4 DEF Before, SlashIf
<1> HIDE DEF n, tail
<1>6. LeadsAlong(n, names)
  BY <1>2, <1>3, <1>4 DEF LeadsAlong
<1> QED
  BY <1>5, <1>6 DEF n, tail

\* The path of a file relative to the directory of a location leads along the
\* names that remain.
LEMMA RelativeLeads ==
  ASSUME NEW u \in Text, IsRooted(u), NEW p \in Text, IsRooted(p),
         NEW rest \in Seq(Downs), Resolved(p) = Resolved(u) \o rest,
         rest = <<>> /\ Last(LexicallyNormal(u)) = "/" => Last(LexicallyNormal(p)) = "/"
  PROVE  LeadsAlong(LexicallyRelative(LexicallyNormal(p), LexicallyNormal(u)), rest)
<1> DEFINE v == LexicallyNormal(u)
           n == LexicallyNormal(p)
           U == Resolved(u)
           R == Resolved(p)
           dir == Last(n) = "/"
           c == <<Slash>> \o U
           tv == Before(U # <<>> /\ Last(v) = "/")
           tn == Before(R # <<>> /\ dir)
           x == rest \o tn
<1>1. /\ IsRooted(v) = IsRooted(n) /\ U \in Seq(Downs) /\ dir \in BOOLEAN
  BY RootedNormal DEF IsRooted
<1>2. U \in Texts /\ rest \in Texts /\ c \in Texts /\ tv \in Texts /\ tn \in Texts
  <2>1. U \in Texts /\ rest \in Texts
    BY <1>1, StepsFacts, SeqMonotonic DEF Texts
  <2>2. <<Slash>> \in Texts
    BY SlashText, OneElement DEF Texts
  <2> QED
    BY <2>1, <2>2, RootType, BlankText, ConcatProperties DEF Texts, Before
<1>3. Elements(v) = c \o tv
  BY ElementsOfNormal
<1>4. Elements(n) = c \o x /\ x \in Texts
  <2>1. Elements(n) = (<<Slash>> \o R) \o tn
    BY ElementsOfNormal
  <2>2. <<Slash>> \in Texts
    BY SlashText, OneElement DEF Texts
  <2>3. <<Slash>> \o (U \o rest) = c \o rest
    BY <1>2, <2>2, TextsAssoc
  <2> HIDE DEF c, tn
  <2>4. c \in Texts /\ rest \in Texts /\ tn \in Texts
    BY <1>2
  <2>5. (c \o rest) \o tn = c \o (rest \o tn)
    BY <2>4, TextsAssoc
  <2>6. rest \o tn \in Texts
    BY <2>4, TextsAssoc
  <2> QED
    BY <2>1, <2>3, <2>5, <2>6
<1> DEFINE rel == LexicallyRelative(n, v)
<1>5. ASSUME rest = <<>>, U # <<>>, dir, Last(v) # "/" PROVE LeadsAlong(rel, rest)
  <2>1. U \o rest = U /\ x = tn
    BY <1>2, <1>5, ConcatEmptySeq DEF Texts
  <2>2. tv = <<>> /\ tn = Root
    BY <1>5, <2>1 DEF Before
  <2>3. Root \in Texts /\ Root # <<>> /\ Head(Root) = <<>> /\ <<>> \in {<<>>, Root}
    BY RootType, BlankText DEF Root
  <2> HIDE DEF n, v, x, c, tv, tn
  <2>4. IsRooted(n) = IsRooted(v) /\ Elements(n) = c \o Root /\ Elements(v) = c \o <<>>
    BY <1>1, <1>3, <1>4, <2>1, <2>2
  <2>5. rel = Dot
    BY <1>2, <2>3, <2>4, RelativeToFront
  <2> QED
    BY <1>5, <2>5, DotLeadsNowhere
<1>6. ASSUME rest = <<>>, U # <<>> => (dir <=> Last(v) = "/") PROVE LeadsAlong(rel, rest)
  <2> DEFINE E == c \o tv
  <2>1. U \o rest = U
    BY <1>2, <1>6, ConcatEmptySeq DEF Texts
  <2>2. tn = tv
    <3>1. (R # <<>> /\ dir) = (U # <<>> /\ Last(v) = "/")
      BY <1>6, <2>1
    <3> QED
      BY <3>1
  <2>3. x = tv
    BY <1>2, <1>6, <2>2, ConcatEmptySeq DEF Texts
  <2>4. E \in Texts /\ E \o <<>> = E /\ Elements(n) = E /\ Elements(v) = E
    BY <1>2, <1>3, <1>4, <2>3, ConcatProperties, ConcatEmptySeq DEF Texts
  <2> HIDE DEF E, n, v
  <2>5. rel = Dot
    <3>1. <<>> \in Texts /\ <<>> \in {<<>>, Root} /\ IsRooted(n) = IsRooted(v)
      BY <1>1, BlankText
    <3>2. Elements(n) = E \o <<>> /\ Elements(v) = E \o <<>>
      BY <2>4
    <3> QED
      BY <2>4, <3>1, <3>2, RelativeToFront
  <2> QED
    BY <1>6, <2>5, DotLeadsNowhere DEF n, v
<1>7. CASE rest # <<>>
  <2>1. R # <<>>
    BY <1>2, <1>7, ConcatSimplifications DEF Texts
  <2>2. tn = Before(dir)
    BY <2>1 DEF Before
  <2>3. x # <<>> /\ x[1] # <<>> /\ Head(x) # <<>>
    <3>1. 1 \in 1 .. Len(rest) /\ Len(rest) \in Nat /\ Len(tn) \in Nat
      BY <1>2, <1>7, LenProperties, EmptySeq DEF Texts
    <3>2. x[1] = rest[1] /\ Len(x) = Len(rest) + Len(tn)
      BY <1>2, <3>1, ConcatProperties DEF Texts
    <3>3. rest[1] \in Downs
      BY <3>1, ElementOfSeq
    <3> HIDE DEF x
    <3>4. x # <<>>
      BY <3>1, <3>2, EmptySeq
    <3> QED
      BY <3>2, <3>3, <3>4 DEF Downs, Steps
  <2>4. tv \in {<<>>, Root}
    BY DEF Before
  <2> HIDE DEF n, v, x, c, tv
  <2>5. rel = JoinedUp[x]
    <3>1. IsRooted(n) = IsRooted(v)
      BY <1>1
    <3> QED
      BY <1>2, <1>3, <1>4, <2>3, <2>4, <3>1, RelativeToFront
  <2>6. rel = NormalText(FALSE, rest, dir) /\ LeadsAlong(NormalText(FALSE, rest, dir), rest)
    BY <1>1, <1>7, <2>2, <2>5, NamesLead DEF x
  <2> QED
    BY <2>6 DEF n, v
<1> QED
  BY <1>5, <1>6, <1>7

\* operator/ leads on from where the left path leads.
LEMMA JoinLeads ==
  ASSUME NEW left \in Text, NEW rel, NEW names, LeadsAlong(rel, names)
  PROVE  /\ Join(left, rel) \in Text
         /\ IsRooted(Join(left, rel)) <=> IsRooted(left)
         /\ Resolved(Join(left, rel)) = Resolved(left) \o names
<1> DEFINE path == Join(left, rel)
<1>1. rel \in Text /\ ~IsRooted(rel)
  BY DEF LeadsAlong
<1>2. path \in Text
  BY <1>1, JoinType
<1>3. Resolved(left) = Followed(left)[Segments(left)] /\ Segments(left) \in Texts
  BY ResolvedIs, SegmentsProperties DEF NonEmpty, Texts
<1> DEFINE Extends == /\ IsRooted(path) <=> IsRooted(left)
                      /\ \E s \in Texts : /\ Segments(path) = s \o Segments(rel)
                                          /\ Followed(left)[s] = Resolved(left)
<1>4. ASSUME left = <<>> PROVE Extends
  <2>1. path = rel /\ ~IsRooted(left)
    BY <1>1, <1>4, TextConcat DEF Join, IsRooted
  <2>2. Followed(left)[<<>>] = <<>> /\ <<>> \in Texts
    BY FollowedProperties, BlankText
  <2>3. Resolved(left) = <<>>
    <3>1. Segments(left) = Root /\ Root = Append(<<>>, <<>>)
      BY <1>4, SegmentsProperties DEF Root
    <3>2. Followed(left)[Append(<<>>, <<>>)] = Followed(left)[<<>>]
      BY <2>2, FollowBlank
    <3> QED
      BY <1>3, <2>2, <3>1, <3>2
  <2>4. Segments(rel) = <<>> \o Segments(rel)
    <3>1. Segments(rel) \in Seq(Text)
      BY <1>1, SegmentsProperties DEF NonEmpty
    <3> QED
      BY <3>1, ConcatEmptySeq
  <2> HIDE DEF path
  <2> QED
    BY <1>1, <2>1, <2>2, <2>3, <2>4
<1>5. ASSUME left # <<>>, Last(left) = "/" PROVE Extends
  <2>1. path = left \o rel
    BY <1>1, <1>5 DEF Join
  <2>2. PICK t \in Text : left = t \o Slash /\ Segments(left) = Append(Segments(t), <<>>)
    BY <1>5, RootSplit
  <2> DEFINE s == Segments(t)
  <2>3. s \in Texts
    BY SegmentsProperties DEF NonEmpty, Texts
  <2>4. Segments((t \o Slash) \o rel) = s \o Segments(rel)
    BY <1>1, SegmentsOfSlash
  <2>5. Followed(left)[Append(s, <<>>)] = Followed(left)[s]
    BY <2>3, FollowBlank
  <2>6. left \o rel # <<>> /\ (left \o rel)[1] = left[1]
    BY <1>1, <1>5, FirstAndLast
  <2> HIDE DEF path, s
  <2>7. IsRooted(path) <=> IsRooted(left)
    BY <1>5, <2>1, <2>6 DEF IsRooted
  <2>8. Segments(path) = s \o Segments(rel) /\ Followed(left)[s] = Resolved(left)
    BY <1>3, <2>1, <2>2, <2>4, <2>5 DEF s
  <2> QED
    BY <2>3, <2>7, <2>8
<1>6. ASSUME left # <<>>, Last(left) # "/" PROVE Extends
  <2> DEFINE more == left \o Slash
  <2>1. path = more \o rel
    BY <1>1, <1>6 DEF Join, Slash
  <2>2. more \in Text /\ Segments(more \o rel) = Segments(left) \o Segments(rel)
    BY <1>1, SlashText, TextConcat, SegmentsOfSlash
  <2>3. more # <<>> /\ more[1] = left[1]
    BY <1>6, SlashText, FirstAndLast
  <2> HIDE DEF more, path
  <2>4. more \o rel # <<>> /\ (more \o rel)[1] = more[1]
    BY <1>1, <2>2, <2>3, FirstAndLast
  <2>5. IsRooted(path) <=> IsRooted(left)
    BY <1>6, <2>1, <2>3, <2>4 DEF IsRooted
  <2> QED
    BY <1>3, <2>1, <2>2, <2>5
<1>7. Extends
  BY <1>4, <1>5, <1>6
<1> HIDE DEF path
<1>8. PICK s \in Texts : Segments(path) = s \o Segments(rel) /\ Followed(left)[s] = Resolved(left)
  BY <1>7
<1>9. Resolved(path) = Resolved(left) \o names
  <2>1. Followed(path) = Followed(left)
    BY <1>7, FollowedSame
  <2>2. Resolved(path) = Followed(left)[s \o Segments(rel)]
    BY <1>2, <1>8, <2>1, ResolvedIs
  <2>3. Followed(left)[s \o Segments(rel)] = Followed(left)[s] \o names
    BY DEF LeadsAlong
  <2> QED
    BY <1>8, <2>2, <2>3
<1> QED
  BY <1>2, <1>7, <1>9 DEF path

------------------------------------------------------------------------------
(***************************************************************************)
(* What an entry covers its location matches, and it makes the file meant. *)
(***************************************************************************)
LEMMA EntryFacts ==
  ASSUME NEW entry \in Entries
  PROVE  /\ entry.type \in {"path", "dir"} /\ entry.url \in Text /\ entry.file \in Text
         /\ Location(entry).kind = entry.type
         /\ Location(entry).url = LexicallyNormal(entry.url)
         /\ Location(entry).file = LexicallyNormal(entry.file)
BY RoutingAssumption DEF Location

LEMMA MatchesCovered ==
  ASSUME NEW entry \in Entries, NEW path \in Text, IsRooted(path), ~SplitsName(entry, path)
  PROVE  Match(Location(entry), LexicallyNormal(path)) <=> Covers(entry, path)
<1> DEFINE u == entry.url
           v == LexicallyNormal(u)
           n == LexicallyNormal(path)
<1>1. entry.type \in {"path", "dir"} /\ u \in Text
  BY EntryFacts
<1>2. Match(Location(entry), n) <=>
        \/ entry.type = "path" /\ n = v
        \/ entry.type = "dir" /\ v # <<>> /\ IsPrefix(v, n)
  BY EntryFacts DEF Match
<1>3. CASE entry.type = "path"
  <2>1. Match(Location(entry), n) <=> n = v
    BY <1>2, <1>3
  <2>2. Covers(entry, path) <=> v = n
    BY <1>3 DEF Covers
  <2> QED
    BY <2>1, <2>2
<1>4. CASE entry.type = "dir"
  <2>1. v \in Text /\ (IsRooted(v) <=> IsRooted(u))
    BY <1>1, NormalSame
  <2>2. n \in Text /\ IsRooted(n)
    BY NormalSame
  <2>3. ASSUME ~IsRooted(u), v # <<>>, IsPrefix(v, n) PROVE FALSE
    <3>1. PICK z \in Text : n = v \o z
      BY <2>1, <2>2, <2>3, PrefixIs DEF Text
    <3>2. (v \o z)[1] = v[1]
      BY <2>1, <2>3, FirstAndLast
    <3> HIDE DEF v, n
    <3> QED
      BY <2>1, <2>2, <2>3, <3>1, <3>2 DEF IsRooted
  <2>4. ASSUME IsRooted(u)
        PROVE  v # <<>> /\ (IsPrefix(v, n) <=>
                 /\ IsPrefix(Resolved(u), Resolved(path))
                 /\ Resolved(u) = Resolved(path) /\ Last(v) = "/" => Last(n) = "/")
    <3>1. v # <<>>
      BY <2>1, <2>4 DEF IsRooted
    <3>2. Last(v) = "/" => (IsPrefix(v, n) <=> /\ IsPrefix(Resolved(u), Resolved(path))
                                               /\ Resolved(u) = Resolved(path) => Last(n) = "/")
      BY <1>1, <2>4, PrefixOfNormal
    <3>3. Last(v) # "/" /\ IsPrefix(Resolved(u), Resolved(path)) => IsPrefix(v, n)
      BY <1>1, <2>4, NamesInFront
    <3>4. IsPrefix(v, n) => IsPrefix(Resolved(u), Resolved(path))
      BY <1>4 DEF SplitsName
    <3> HIDE DEF v, n
    <3> QED
      BY <3>1, <3>2, <3>3, <3>4
  <2>5. Covers(entry, path) <=>
          IsRooted(u) /\ IsPrefix(Resolved(u), Resolved(path))
            /\ (Resolved(u) = Resolved(path) /\ Last(v) = "/" => Last(n) = "/")
    BY <1>4 DEF Covers
  <2>6. Match(Location(entry), n) <=> v # <<>> /\ IsPrefix(v, n)
    BY <1>2, <1>4
  <2> HIDE DEF u, v, n
  <2>7. CASE IsRooted(u)
    BY <2>4, <2>5, <2>6, <2>7 DEF n
  <2>8. CASE ~IsRooted(u)
    BY <2>3, <2>5, <2>6, <2>8 DEF n
  <2> QED
    BY <2>7, <2>8
<1> QED
  BY <1>1, <1>3, <1>4

LEMMA FileMeant ==
  ASSUME NEW entry \in Entries, NEW path \in Text, IsRooted(path),
         Covers(entry, path)
  PROVE  LET file == File(Location(entry), LexicallyNormal(path))
         IN (IsRooted(file) <=> IsRooted(entry.file)) /\ Resolved(file) = Meant(entry, path)
<1> DEFINE u == entry.url
           n == LexicallyNormal(path)
           v == LexicallyNormal(u)
           d == LexicallyNormal(entry.file)
           file == File(Location(entry), n)
<1>1. entry.type \in {"path", "dir"} /\ u \in Text /\ entry.file \in Text
  BY EntryFacts
<1>2. d \in Text /\ (IsRooted(d) <=> IsRooted(entry.file)) /\ Resolved(d) = Resolved(entry.file)
  BY <1>1, NormalSame
<1>3. CASE entry.type = "path"
  <2>1. file = d
    BY <1>3, EntryFacts DEF File
  <2>2. Meant(entry, path) = Resolved(entry.file)
    BY <1>3 DEF Meant
  <2> HIDE DEF file, d
  <2> QED
    BY <1>2, <2>1, <2>2 DEF file
<1>4. CASE entry.type = "dir"
  <2>1. /\ IsRooted(u) /\ IsPrefix(Resolved(u), Resolved(path))
        /\ Resolved(u) = Resolved(path) /\ Last(v) = "/" => Last(n) = "/"
    BY <1>4 DEF Covers
  <2>3. Resolved(u) \in Seq(Downs) /\ Resolved(path) \in Seq(Downs)
    BY <1>1, <2>1, ResolvedSteady
  <2>4. PICK rest \in Seq(Downs) : Resolved(path) = Resolved(u) \o rest
    BY <2>1, <2>3, PrefixIs
  <2>5. rest = <<>> /\ Last(v) = "/" => Last(n) = "/"
    BY <2>1, <2>3, <2>4, ConcatEmptySeq
  <2> DEFINE rel == LexicallyRelative(n, v)
             joined == Join(d, rel)
  <2>6. LeadsAlong(rel, rest)
    BY <1>1, <2>1, <2>4, <2>5, RelativeLeads
  <2>7. file = LexicallyNormal(joined)
    BY <1>4, EntryFacts DEF File
  <2>8. Meant(entry, path) = Resolved(entry.file) \o rest
    <3>1. SubSeq(Resolved(u) \o rest, Len(Resolved(u)) + 1, Len(Resolved(u) \o rest)) = rest
      BY <2>3, RightPart
    <3> QED
      BY <1>4, <2>4, <3>1 DEF Meant
  <2> HIDE DEF rel, n, v, d, file
  <2>9. /\ joined \in Text /\ (IsRooted(joined) <=> IsRooted(d))
        /\ Resolved(joined) = Resolved(d) \o rest
    BY <1>2, <2>6, JoinLeads
  <2> HIDE DEF joined
  <2>10. (IsRooted(file) <=> IsRooted(joined)) /\ Resolved(file) = Resolved(joined)
    BY <2>7, <2>9, NormalSame
  <2> QED
    BY <1>2, <2>8, <2>9, <2>10 DEF file, n
<1> QED
  BY <1>1, <1>3, <1>4

------------------------------------------------------------------------------
(***************************************************************************)
(* What is done with a request, by the complete router.                    *)
(***************************************************************************)
\* The inductive invariant: a request comes to the complete router, and what is
\* done with it was decided by that router and the path of its URL.
RoutedByPath ==
  /\ form # {} => /\ Len(locations) = Len(route)
                  /\ target = IF url.valid THEN {Route(locations, url.path)} ELSE {}
  /\ form \subseteq Forms

LEMMA RoutedByPathInit == SetUpInit => RoutedByPath
BY DEF SetUpInit, Init, RoutedByPath

LEMMA RoutedByPathNext ==
  ASSUME RouterTypeOK, RoutedByPath, [RouteNext]_allVars
  PROVE  RoutedByPath'
<1>1. ASSUME NEW f \in Forms, HandleRecv(f) PROVE RoutedByPath'
  <2>1. form' = {f} /\ locations' = locations /\ route' = route
    BY <1>1 DEF HandleRecv, Construct
  <2>2. target' = IF url'.valid THEN {Route(locations, url'.path)} ELSE {}
    BY <1>1 DEF HandleRecv
  <2>3. Len(locations) = Len(route)
    BY <1>1 DEF HandleRecv
  <2>4. target' = (IF url.valid THEN {Route(locations, url.path)} ELSE {})'
    BY <2>1, <2>2
  <2> QED
    BY <2>1, <2>3, <2>4 DEF RoutedByPath
<1>2. CASE SetUpRouter
  <2>1. Len(locations) \in Nat /\ Len(route) \in Nat
    BY RoutingAssumption, LenProperties DEF RouterTypeOK
  <2>2. Len(locations) # Len(route)
    BY <1>2, <2>1 DEF SetUpRouter
  <2>3. form = {}
    BY <2>2 DEF RoutedByPath
  <2> QED
    BY <1>2, <2>3 DEF SetUpRouter, RoutedByPath
<1>3. CASE UNCHANGED allVars
  <2>1. form' = form /\ url' = url /\ route' = route /\ locations' = locations /\ target' = target
    BY <1>3 DEF allVars
  <2>2. (form' # {}) = (form # {})
    BY <2>1
  <2> QED
    BY <2>1 DEF RoutedByPath, Route, Matching, Match, File
<1> QED
  BY <1>1, <1>2, <1>3 DEF RouteNext

LEMMA RoutedByPathAlways == RouteSpec => []RoutedByPath
BY RouterCorrect, RoutedByPathInit, RoutedByPathNext, PTL DEF RouteSpec

LEMMA FirstFound ==
  ASSUME NEW n \in Nat, NEW found \in SUBSET (1 .. n), found # {}
  PROVE  First(found) \in found
<1>1. found \in SUBSET Nat
  OBVIOUS
<1>2. PICK m \in found : \A j \in found : m =< j
  BY <1>1, LeastExists
<1>3. First(found) = m
  BY <1>1, <1>2, FirstIsLeast
<1> QED
  BY <1>2, <1>3

NoneSplit(f) ==
  \A i \in DOMAIN route : ~SplitsName(route[i], IF f.path = <<>> THEN <<"/">> ELSE f.path)

LEMMA RoutedRight ==
  RouterTypeOK /\ RoutedByPath /\ PartsRecovered => RoutedAsConfigured
<1> SUFFICES ASSUME RouterTypeOK, RoutedByPath, PartsRecovered,
                    NEW f \in form, WellFormed(f), ~LooksAbsolute(f),
                    Unambiguous(f.spell), KeepsNames(f.spell), NoneSplit(f)
             PROVE  LET path == IF f.path = <<>> THEN <<"/">> ELSE f.path
                        covering == {i \in DOMAIN route : Covers(route[i], path)}
                        entry == route[First(covering)]
                    IN IF covering = {} THEN target = {NotFound}
                       ELSE \E found \in target :
                              /\ found.kind = entry.type
                              /\ IsRooted(found.file) = IsRooted(entry.file)
                              /\ Resolved(found.file) = Meant(entry, path)
  BY DEF RoutedAsConfigured, NoneSplit
<1> DEFINE path == IF f.path = <<>> THEN <<"/">> ELSE f.path
           n == LexicallyNormal(path)
           covering == {i \in DOMAIN route : Covers(route[i], path)}
           entry == route[First(covering)]
           found == Matching(locations, n)
<1>1. f \in Forms /\ form # {}
  BY DEF RoutedByPath
<1>2. path \in Text /\ IsRooted(path)
  <2>1. f.path \in Text
    BY <1>1, FormFacts DEF FormType
  <2>2. f.path # <<>> => IsRooted(f.path)
    BY <1>1, FormsAssumption
  <2> QED
    BY <2>1, <2>2, SlashNormal DEF Slash
<1>3. url.valid /\ url.path = n
  <2>1. url.valid /\ url.path = IF f.path = <<>> THEN <<"/">> ELSE LexicallyNormal(f.path)
    BY DEF PartsRecovered
  <2> QED
    BY <2>1, SlashNormal DEF Slash
<1>4. target = {Route(locations, n)} /\ Len(locations) = Len(route)
  BY <1>1, <1>3 DEF RoutedByPath
<1>5. /\ Len(route) \in Nat /\ DOMAIN route = 1 .. Len(route) /\ DOMAIN locations = DOMAIN route
      /\ \A i \in DOMAIN route : route[i] \in Entries /\ locations[i] = Location(route[i])
  <2>1. route \in Seq(Entries) /\ locations \in Seq(Locations)
    BY RoutingAssumption DEF RouterTypeOK, Locations
  <2>2. DOMAIN route = 1 .. Len(route) /\ DOMAIN locations = 1 .. Len(locations) /\ Len(route) \in Nat
    BY <2>1, LenProperties
  <2>3. \A i \in 1 .. Len(route) : route[i] \in Entries
    BY <2>1, ElementOfSeq
  <2> QED
    BY <1>4, <2>2, <2>3 DEF RouterTypeOK
<1>6. \A i \in DOMAIN route : ~SplitsName(route[i], path)
  BY DEF NoneSplit
<1> HIDE DEF path, n
<1>7. \A i \in DOMAIN route : Match(locations[i], n) <=> Covers(route[i], path)
  BY <1>2, <1>5, <1>6, MatchesCovered DEF n
<1>8. found = covering
  BY <1>5, <1>7 DEF Matching
<1>9. CASE covering = {}
  <2>1. Route(locations, n) = NotFound
    BY <1>8, <1>9 DEF Route
  <2> QED
    BY <1>4, <1>9, <2>1 DEF path
<1>10. CASE covering # {}
  <2> DEFINE i == First(covering)
             location == locations[i]
             file == File(location, n)
  <2>1. i \in covering
    BY <1>5, <1>10, FirstFound
  <2>2. entry \in Entries /\ location = Location(entry) /\ Covers(entry, path)
    BY <1>5, <2>1
  <2>3. Route(locations, n) = [kind |-> location.kind, file |-> file]
    BY <1>8, <1>10 DEF Route
  <2> HIDE DEF covering, entry, i, location
  <2>4. location.kind = entry.type
    BY <2>2, EntryFacts
  <2>5. (IsRooted(file) <=> IsRooted(entry.file)) /\ Resolved(file) = Meant(entry, path)
    BY <1>2, <2>2, FileMeant DEF n
  <2>6. IsRooted(file) = IsRooted(entry.file)
    BY <2>5 DEF IsRooted
  <2> HIDE DEF file
  <2>7. \E goal \in target :
          /\ goal.kind = entry.type
          /\ IsRooted(goal.file) = IsRooted(entry.file)
          /\ Resolved(goal.file) = Meant(entry, path)
    BY <1>4, <2>3, <2>4, <2>5, <2>6
  <2> QED
    BY <1>10, <2>7 DEF path, covering, entry
<1> QED
  BY <1>9, <1>10

(***************************************************************************)
(* A well-formed URL is served by the first entry that covers its path,    *)
(* from the file of the names that remain, for every configuration and     *)
(* whichever characters other than dots and slashes are escaped.           *)
(***************************************************************************)
THEOREM RoutedCorrectly == RouteSpec => []RoutedAsConfigured
BY RouterCorrect, RoutedByPathAlways, RoutedUrlsCorrect, RoutedRight, PTL
=============================================================================
