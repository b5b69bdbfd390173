--------------------------- MODULE SequenceProofs ---------------------------
(***************************************************************************)
(* Induction over data, for the values the code works on.  The theorems of *)
(* NaturalsInduction and FiniteSetTheorems take the predicate or the step  *)
(* as an operator; here it is a set or a function, a value like any other, *)
(* so that the lemmas can be used for the loops of the model, which are    *)
(* folds over sequences.                                                   *)
(***************************************************************************)
EXTENDS Integers, SequencesExt, SequenceTheorems, WellFoundedInduction, TLAPS

\* Where there is an index there is a first one.
LEMMA LeastExists ==
  ASSUME NEW indexes \in SUBSET Nat, indexes # {}
  PROVE  \E m \in indexes : \A j \in indexes : m =< j
<1> DEFINE less == OpToRel(<, Nat)
<1>1. IsWellFoundedOn(less, Nat)
  BY NatLessThanWellFounded
<1>2. \A i, j \in Nat : j < i => <<j, i>> \in less
  BY DEF OpToRel
<1> HIDE DEF less
<1>3. PICK m \in indexes : \A j \in indexes : <<j, m>> \notin less
  BY <1>1, WFMin
<1>4. ASSUME NEW j \in indexes PROVE m =< j
  <2>1. j \in Nat /\ m \in Nat /\ ~ (j < m)
    BY <1>2, <1>3
  <2> QED
    BY <2>1
<1> QED
  BY <1>4

\* What 0 has, and n + 1 whenever n has it, every number has.
LEMMA NatSetInduction ==
  ASSUME NEW S, 0 \in S, \A n \in Nat : n \in S => n + 1 \in S
  PROVE  \A n \in Nat : n \in S
<1> DEFINE out == {n \in Nat : n \notin S}
<1>1. SUFFICES ASSUME out # {} PROVE FALSE
  OBVIOUS
<1>2. PICK m \in out : \A j \in out : m =< j
  <2> HIDE DEF out
  <2>1. out \in SUBSET Nat
    BY DEF out
  <2> QED
    BY <1>1, <2>1, LeastExists
<1>3. m \in Nat /\ m # 0 /\ m \notin S
  OBVIOUS
<1>4. m - 1 \in Nat /\ m - 1 \notin out
  BY <1>2, <1>3
<1>5. m - 1 \in S /\ (m - 1) + 1 = m
  BY <1>3, <1>4
<1> QED
  BY <1>3, <1>4, <1>5

\* A set of indexes has a greatest one, and Max is that.
LEMMA MaxIs ==
  ASSUME NEW s \in SUBSET Int, NEW m \in s, \A j \in s : j =< m
  PROVE  Max(s) = m
<1>1. Max(s) \in s /\ \A j \in s : Max(s) >= j
  <2>1. \A j \in s : m >= j
    OBVIOUS
  <2> QED
    BY <2>1 DEF Max
<1>2. Max(s) \in Int /\ m \in Int /\ Max(s) >= m /\ Max(s) =< m
  BY <1>1
<1> QED
  BY <1>2

LEMMA MinIs ==
  ASSUME NEW s \in SUBSET Int, NEW m \in s, \A j \in s : m =< j
  PROVE  Min(s) = m
<1>1. Min(s) \in s /\ \A j \in s : Min(s) =< j
  BY DEF Min
<1>2. Min(s) \in Int /\ m \in Int /\ Min(s) =< m /\ m =< Min(s)
  BY <1>1
<1> QED
  BY <1>2

LEMMA MaxExists ==
  ASSUME NEW n \in Nat, NEW s \in SUBSET (1 .. n), s # {}
  PROVE  Max(s) \in s /\ \A j \in s : j =< Max(s)
<1> DEFINE mirror == {n - j : j \in s}
<1>1. mirror \in SUBSET Nat /\ mirror # {}
  <2>1. \A j \in s : n - j \in Nat
    OBVIOUS
  <2>2. mirror \in SUBSET Nat
    BY <2>1, Zenon
  <2> QED
    BY <2>2
<1>2. PICK k \in mirror : \A j \in mirror : k =< j
  <2> HIDE DEF mirror
  <2> QED
    BY <1>1, LeastExists
<1>3. PICK m \in s : k = n - m
  OBVIOUS
<1>4. ASSUME NEW j \in s PROVE j =< m
  <2>1. n - m =< n - j
    BY <1>2, <1>3
  <2> QED
    BY <2>1
<1>5. Max(s) = m
  <2>1. s \in SUBSET Int
    OBVIOUS
  <2> QED
    BY <1>4, <2>1, MaxIs
<1> QED
  BY <1>4, <1>5

(***************************************************************************)
(* FoldLeft goes through a recursive function on the sets of indexes, the  *)
(* greatest index last.  There is such a function for every step that      *)
(* stays within a set of results.                                          *)
(***************************************************************************)
Folds(h, n, base, step) ==
  \A s \in SUBSET (1 .. n) :
    h[s] = IF s = {} THEN base ELSE step[<<h[s \ {Max(s)}], Max(s)>>]

LEMMA FoldExists ==
  ASSUME NEW A, NEW n \in Nat, NEW base \in A, NEW step \in [A \X (1 .. n) -> A]
  PROVE  \E h \in [SUBSET (1 .. n) -> A] : Folds(h, n, base, step)
<1> DEFINE good == {k \in Nat : k =< n => \E h \in [SUBSET (1 .. k) -> A] : Folds(h, k, base, step)}
<1>1. 0 \in good
  <2> DEFINE h == [s \in SUBSET (1 .. 0) |-> base]
  <2>1. SUBSET (1 .. 0) = {{}}
    OBVIOUS
  <2>2. h \in [SUBSET (1 .. 0) -> A] /\ Folds(h, 0, base, step)
    BY <2>1 DEF Folds
  <2> QED
    BY <2>2
<1>2. ASSUME NEW k \in Nat, k \in good PROVE k + 1 \in good
  <2>1. SUFFICES ASSUME k + 1 =< n
                 PROVE  \E h \in [SUBSET (1 .. k + 1) -> A] : Folds(h, k + 1, base, step)
    <3>1. k + 1 \in Nat
      OBVIOUS
    <3> QED
      BY <3>1, Zenon
  <2>2. PICK h \in [SUBSET (1 .. k) -> A] : Folds(h, k, base, step)
    <3>1. k =< n
      BY <2>1
    <3> QED
      BY <1>2, <3>1, Zenon
  <2> DEFINE more == [s \in SUBSET (1 .. k + 1) |->
                        IF k + 1 \in s THEN step[<<h[s \ {k + 1}], k + 1>>] ELSE h[s]]
  <2>3. ASSUME NEW s \in SUBSET (1 .. k + 1), k + 1 \in s
        PROVE  /\ more[s] \in A /\ s # {} /\ Max(s) = k + 1
               /\ more[s] = step[<<more[s \ {Max(s)}], Max(s)>>]
    <3>1. Max(s) = k + 1
      BY <2>3, MaxIs
    <3>2. s \ {k + 1} \in SUBSET (1 .. k) /\ k + 1 \notin s \ {k + 1}
          /\ s \ {k + 1} \in SUBSET (1 .. k + 1)
      OBVIOUS
    <3>3. h[s \ {k + 1}] \in A /\ k + 1 \in 1 .. n
      BY <2>1, <3>2
    <3>4. step[<<h[s \ {k + 1}], k + 1>>] \in A
      BY <3>3
    <3>5. more[s \ {k + 1}] = h[s \ {k + 1}]
      BY <3>2
    <3>6. more[s] = step[<<h[s \ {k + 1}], k + 1>>]
      BY <2>3
    <3> QED
      BY <2>3, <3>1, <3>4, <3>5, <3>6
  <2>4. ASSUME NEW s \in SUBSET (1 .. k + 1), k + 1 \notin s
        PROVE  /\ more[s] \in A
               /\ more[s] = IF s = {} THEN base ELSE step[<<more[s \ {Max(s)}], Max(s)>>]
    <3>1. s \in SUBSET (1 .. k)
      BY <2>4
    <3>2. more[s] = h[s] /\ h[s] \in A
      BY <2>4, <3>1
    <3>3. s \ {Max(s)} \in SUBSET (1 .. k) /\ k + 1 \notin s \ {Max(s)}
          /\ s \ {Max(s)} \in SUBSET (1 .. k + 1)
      BY <2>4, <3>1
    <3>4. more[s \ {Max(s)}] = h[s \ {Max(s)}]
      BY <3>3
    <3> HIDE DEF more
    <3> QED
      BY <2>2, <3>1, <3>2, <3>4 DEF Folds
  <2>5. more \in [SUBSET (1 .. k + 1) -> A]
    <3>1. \A s \in SUBSET (1 .. k + 1) : more[s] \in A
      <4> HIDE DEF more
      <4> QED
        BY <2>3, <2>4
    <3> QED
      BY <3>1
  <2>6. Folds(more, k + 1, base, step)
    <3> HIDE DEF more
    <3> QED
      BY <2>3, <2>4 DEF Folds
  <2> QED
    BY <2>5, <2>6, Zenon
<1>3. n \in good
  <2> HIDE DEF good
  <2>1. \A k \in Nat : k \in good => k + 1 \in good
    BY <1>2
  <2> QED
    BY <1>1, <2>1, NatSetInduction
<1>4. n =< n
  OBVIOUS
<1> QED
  BY <1>3, <1>4, Zenon

\* Taking the greatest index from the first i leaves the first i - 1.
LEMMA InitialSegment ==
  ASSUME NEW n \in Nat, NEW i \in 1 .. n
  PROVE  /\ 1 .. i \in SUBSET (1 .. n) /\ 1 .. i # {}
         /\ Max(1 .. i) = i /\ (1 .. i) \ {i} = 1 .. i - 1
<1>1. i \in 1 .. i /\ \A j \in 1 .. i : j =< i
  OBVIOUS
<1>2. Max(1 .. i) = i
  <2>1. 1 .. i \in SUBSET Int
    OBVIOUS
  <2> QED
    BY <1>1, <2>1, MaxIs
<1> QED
  BY <1>1, <1>2

\* The results of a loop after each of its steps.
Runs(g, n, base, step) ==
  g[0] = base /\ \A i \in 1 .. n : g[i] = step[<<g[i - 1], i>>]

LEMMA RunExists ==
  ASSUME NEW A, NEW n \in Nat, NEW base \in A, NEW step \in [A \X (1 .. n) -> A]
  PROVE  \E g \in [0 .. n -> A] : Runs(g, n, base, step)
<1>1. PICK h \in [SUBSET (1 .. n) -> A] : Folds(h, n, base, step)
  BY FoldExists
<1> DEFINE g == [i \in 0 .. n |-> h[1 .. i]]
<1>2. g \in [0 .. n -> A]
  <2>1. \A i \in 0 .. n : 1 .. i \in SUBSET (1 .. n)
    OBVIOUS
  <2> QED
    BY <2>1
<1>3. g[0] = base
  <2>1. 1 .. 0 = {} /\ 1 .. 0 \in SUBSET (1 .. n)
    OBVIOUS
  <2>2. h[1 .. 0] = base
    BY <1>1, <2>1 DEF Folds
  <2> QED
    BY <2>2
<1>4. ASSUME NEW i \in 1 .. n PROVE g[i] = step[<<g[i - 1], i>>]
  <2>1. i \in 0 .. n /\ i - 1 \in 0 .. n
    OBVIOUS
  <2>2. h[1 .. i] = step[<<h[(1 .. i) \ {Max(1 .. i)}], Max(1 .. i)>>]
    BY <1>1, InitialSegment DEF Folds
  <2>3. h[1 .. i] = step[<<h[1 .. i - 1], i>>]
    BY <2>2, InitialSegment
  <2> QED
    BY <2>1, <2>3
<1> HIDE DEF g
<1> QED
  BY <1>2, <1>3, <1>4 DEF Runs

\* What a loop does from one result to the next it does to the last.
LEMMA RunInduction ==
  ASSUME NEW n \in Nat, NEW P, 0 \in P, \A i \in 1 .. n : i - 1 \in P => i \in P
  PROVE  \A i \in 0 .. n : i \in P
<1> DEFINE S == {k \in Nat : k =< n => k \in P}
<1>1. 0 \in S
  OBVIOUS
<1>2. ASSUME NEW k \in Nat, k \in S PROVE k + 1 \in S
  <2>1. k + 1 \in Nat /\ (k + 1) - 1 = k /\ (k + 1 =< n => k =< n /\ k + 1 \in 1 .. n)
    OBVIOUS
  <2> QED
    BY <1>2, <2>1
<1>3. \A k \in Nat : k \in S
  <2> HIDE DEF S
  <2> QED
    BY <1>1, <1>2, NatSetInduction
<1> QED
  BY <1>3

------------------------------------------------------------------------------
(***************************************************************************)
(* Induction on sequences, which grow at their end.                        *)
(***************************************************************************)
LEMMA SeqSetInduction ==
  ASSUME NEW C, NEW P, <<>> \in P,
         \A s \in Seq(C), c \in C : s \in P => Append(s, c) \in P
  PROVE  \A s \in Seq(C) : s \in P
<1> DEFINE good == {n \in Nat : \A s \in Seq(C) : Len(s) = n => s \in P}
<1>1. 0 \in good
  BY EmptySeq
<1>2. ASSUME NEW n \in Nat, n \in good PROVE n + 1 \in good
  <2>1. SUFFICES ASSUME NEW s \in Seq(C), Len(s) = n + 1 PROVE s \in P
    OBVIOUS
  <2> DEFINE t == SubSeq(s, 1, n)
  <2>2. /\ n \in Int /\ 1 \in Int /\ n + 1 \in 1 .. Len(s) /\ s[n + 1] \in C
        /\ \A i \in 1 .. n : s[i] \in C
    BY <2>1, ElementOfSeq
  <2>3. /\ t \in Seq(C) /\ Len(t) = n /\ \A i \in 1 .. n : t[i] = s[i]
    <3>1. /\ t \in Seq(C) /\ Len(t) = IF 1 =< n THEN n - 1 + 1 ELSE 0
          /\ \A i \in 1 .. n - 1 + 1 : t[i] = s[1 + i - 1]
      BY <2>2, SubSeqProperties
    <3> HIDE DEF t
    <3> QED
      BY <3>1
  <2> HIDE DEF t
  <2>4. Append(t, s[n + 1]) = s
    <3>1. /\ Append(t, s[n + 1]) \in Seq(C) /\ Len(Append(t, s[n + 1])) = n + 1
          /\ \A i \in 1 .. n : Append(t, s[n + 1])[i] = s[i]
          /\ Append(t, s[n + 1])[n + 1] = s[n + 1]
      BY <2>2, <2>3, AppendProperties
    <3>2. \A i \in 1 .. n + 1 : Append(t, s[n + 1])[i] = s[i]
      BY <3>1
    <3> QED
      BY <2>1, <3>1, <3>2, SeqEqual
  <2>5. t \in P
    BY <1>2, <2>3
  <2> QED
    BY <2>2, <2>3, <2>4, <2>5
<1>3. \A n \in Nat : n \in good
  <2> HIDE DEF good
  <2> QED
    BY <1>1, <1>2, NatSetInduction
<1>4. ASSUME NEW s \in Seq(C) PROVE s \in P
  <2>1. Len(s) \in Nat
    BY LenProperties
  <2> QED
    BY <1>3, <2>1
<1> QED
  BY <1>4

\* A sequence that is not empty is a shorter one and an element.
LEMMA Shorter ==
  ASSUME NEW C, NEW s \in Seq(C), s # <<>>
  PROVE  \E t \in Seq(C), c \in C : s = Append(t, c)
<1> DEFINE P == {u \in Seq(C) : u = <<>> \/ \E t \in Seq(C), c \in C : u = Append(t, c)}
<1>1. <<>> \in P
  BY EmptySeq
<1>2. ASSUME NEW t \in Seq(C), NEW c \in C, t \in P PROVE Append(t, c) \in P
  BY AppendProperties
<1>3. \A u \in Seq(C) : u \in P
  <2> HIDE DEF P
  <2> QED
    BY <1>1, <1>2, SeqSetInduction
<1> QED
  BY <1>3

(***************************************************************************)
(* A loop over a sequence: its result for every sequence.                  *)
(***************************************************************************)
IsLoop(F, C, base, step) ==
  F[<<>>] = base /\ \A s \in Seq(C), c \in C : F[Append(s, c)] = step[<<F[s], c>>]

Loop(A, C, base, step) == CHOOSE F \in [Seq(C) -> A] : IsLoop(F, C, base, step)

OnIndexes(A, step, s) == [x \in A \X (1 .. Len(s)) |-> step[<<x[1], s[x[2]]>>]]

LEMMA OnIndexesType ==
  ASSUME NEW A, NEW C, NEW step \in [A \X C -> A], NEW s \in Seq(C)
  PROVE  OnIndexes(A, step, s) \in [A \X (1 .. Len(s)) -> A]
<1>1. \A i \in 1 .. Len(s) : s[i] \in C
  BY ElementOfSeq
<1> QED
  BY <1>1 DEF OnIndexes

IsRun(g, A, s, base, step) ==
  g \in [0 .. Len(s) -> A] /\ Runs(g, Len(s), base, OnIndexes(A, step, s))

LEMMA RunsAgree ==
  ASSUME NEW A, NEW C, NEW base, NEW step,
         NEW s \in Seq(C), NEW c \in C, NEW g, NEW f,
         IsRun(g, A, s, base, step), IsRun(f, A, Append(s, c), base, step)
  PROVE  f[Len(s)] = g[Len(s)]
<1> DEFINE t == Append(s, c)
           P == {i \in 0 .. Len(s) : f[i] = g[i]}
<1>1. /\ Len(s) \in Nat /\ Len(t) \in Nat /\ Len(t) = Len(s) + 1
      /\ \A i \in 1 .. Len(s) : s[i] = t[i]
      /\ g \in [0 .. Len(s) -> A] /\ f \in [0 .. Len(t) -> A]
      /\ Runs(g, Len(s), base, OnIndexes(A, step, s))
      /\ Runs(f, Len(t), base, OnIndexes(A, step, t))
  BY LenProperties, AppendProperties DEF IsRun
<1> HIDE DEF t
<1>2. 0 \in P
  BY <1>1 DEF Runs
<1>3. ASSUME NEW i \in 1 .. Len(s), i - 1 \in P PROVE i \in P
  <2>1. g[i - 1] \in A /\ f[i - 1] = g[i - 1] /\ i \in 1 .. Len(t) /\ i \in 0 .. Len(s)
    <3>1. i \in 1 .. Len(t) /\ i \in 0 .. Len(s) /\ i - 1 \in 0 .. Len(s)
      BY <1>1
    <3>2. g[i - 1] \in A /\ f[i - 1] = g[i - 1]
      BY <1>1, <1>3, <3>1
    <3> QED
      BY <3>1, <3>2
  <2>2. g[i] = OnIndexes(A, step, s)[<<g[i - 1], i>>]
    BY <1>1, Zenon DEF Runs
  <2>3. f[i] = OnIndexes(A, step, t)[<<f[i - 1], i>>]
    BY <1>1, <2>1, Zenon DEF Runs
  <2>4. g[i] = step[<<g[i - 1], s[i]>>] /\ f[i] = step[<<g[i - 1], t[i]>>]
    BY <2>1, <2>2, <2>3 DEF OnIndexes
  <2> QED
    BY <1>1, <2>1, <2>4
<1>4. \A i \in 0 .. Len(s) : i \in P
  <2> HIDE DEF P
  <2> QED
    BY <1>1, <1>2, <1>3, RunInduction
<1> QED
  BY <1>1, <1>4

LEMMA LoopExists ==
  ASSUME NEW A, NEW C, NEW base \in A, NEW step \in [A \X C -> A]
  PROVE  \E F \in [Seq(C) -> A] : IsLoop(F, C, base, step)
<1> DEFINE G(s) == CHOOSE g \in [0 .. Len(s) -> A] : Runs(g, Len(s), base, OnIndexes(A, step, s))
           F == [s \in Seq(C) |-> G(s)[Len(s)]]
<1>1. ASSUME NEW s \in Seq(C)
      PROVE  /\ G(s) \in [0 .. Len(s) -> A] /\ Runs(G(s), Len(s), base, OnIndexes(A, step, s))
             /\ Len(s) \in Nat /\ G(s)[Len(s)] \in A
  <2>1. Len(s) \in Nat
    BY LenProperties
  <2>2. \E g \in [0 .. Len(s) -> A] : Runs(g, Len(s), base, OnIndexes(A, step, s))
    BY <2>1, OnIndexesType, RunExists
  <2>3. G(s) \in [0 .. Len(s) -> A] /\ Runs(G(s), Len(s), base, OnIndexes(A, step, s))
    BY <2>2, Zenon
  <2> HIDE DEF G
  <2> QED
    BY <2>1, <2>3
<1> HIDE DEF G
<1>2. F \in [Seq(C) -> A]
  BY <1>1
<1>3. F[<<>>] = base
  <2>1. <<>> \in Seq(C) /\ Len(<<>>) = 0
    BY EmptySeq
  <2>2. G(<<>>)[0] = base
    BY <1>1, <2>1 DEF Runs
  <2> QED
    BY <2>1, <2>2
<1>4. ASSUME NEW s \in Seq(C), NEW c \in C PROVE F[Append(s, c)] = step[<<F[s], c>>]
  <2> DEFINE t == Append(s, c)
             m == Len(s)
  <2>1. /\ t \in Seq(C) /\ Len(t) = m + 1 /\ m \in Nat
        /\ \A i \in 1 .. m : t[i] = s[i]
        /\ t[m + 1] = c
    BY AppendProperties, LenProperties
  <2> HIDE DEF t
  <2>2. G(t)[m] = G(s)[m]
    <3>1. IsRun(G(s), A, s, base, step) /\ IsRun(G(t), A, t, base, step)
      BY <1>1, <2>1 DEF IsRun
    <3> HIDE DEF F
    <3> QED
      BY <3>1, RunsAgree DEF t
  <2>3. G(t)[m + 1] = OnIndexes(A, step, t)[<<G(t)[(m + 1) - 1], m + 1>>]
    <3>1. m + 1 \in 1 .. Len(t)
      BY <2>1
    <3> HIDE DEF m
    <3> QED
      BY <1>1, <2>1, <3>1, Zenon DEF Runs
  <2>4. (m + 1) - 1 = m /\ m + 1 \in 1 .. Len(t) /\ G(s)[m] \in A
    BY <1>1, <2>1
  <2>5. G(t)[m + 1] = step[<<G(s)[m], c>>]
    BY <2>1, <2>2, <2>3, <2>4 DEF OnIndexes
  <2> QED
    BY <2>1, <2>5 DEF t
<1> HIDE DEF F
<1> QED
  BY <1>2, <1>3, <1>4 DEF IsLoop

LEMMA LoopProperties ==
  ASSUME NEW A, NEW C, NEW base \in A, NEW step \in [A \X C -> A]
  PROVE  /\ Loop(A, C, base, step) \in [Seq(C) -> A]
         /\ IsLoop(Loop(A, C, base, step), C, base, step)
BY LoopExists, Zenon DEF Loop

(***************************************************************************)
(* The recursive function that FoldLeft chooses exists, and what it makes  *)
(* of all indexes is the result of the loop.                               *)
(***************************************************************************)
FoldsSeq(h, A, C, s, base, step) ==
  /\ DOMAIN s = 1 .. Len(s) /\ h \in [SUBSET (1 .. Len(s)) -> A] /\ h[{}] = base
  /\ \A S \in SUBSET (1 .. Len(s)) : S # {} =>
       /\ s[Max(S)] \in C /\ h[S \ {Max(S)}] \in A
       /\ h[S] = step[<<h[S \ {Max(S)}], s[Max(S)]>>]

LEMMA SeqFoldExists ==
  ASSUME NEW A, NEW C, NEW base \in A, NEW step \in [A \X C -> A], NEW s \in Seq(C)
  PROVE  \E h : FoldsSeq(h, A, C, s, base, step)
<1>1. Len(s) \in Nat /\ DOMAIN s = 1 .. Len(s) /\ \A i \in 1 .. Len(s) : s[i] \in C
  BY LenProperties, ElementOfSeq
<1>2. PICK h \in [SUBSET (1 .. Len(s)) -> A] : Folds(h, Len(s), base, OnIndexes(A, step, s))
  BY <1>1, OnIndexesType, FoldExists
<1>3. ASSUME NEW S \in SUBSET (1 .. Len(s)), S # {}
      PROVE  /\ s[Max(S)] \in C /\ h[S \ {Max(S)}] \in A
             /\ h[S] = step[<<h[S \ {Max(S)}], s[Max(S)]>>]
  <2>1. Max(S) \in 1 .. Len(s) /\ S \ {Max(S)} \in SUBSET (1 .. Len(s))
    BY <1>1, <1>3, MaxExists
  <2>2. h[S \ {Max(S)}] \in A
    BY <2>1
  <2>3. h[S] = OnIndexes(A, step, s)[<<h[S \ {Max(S)}], Max(S)>>]
    BY <1>2, <1>3 DEF Folds
  <2>4. h[S] = step[<<h[S \ {Max(S)}], s[Max(S)]>>]
    BY <2>1, <2>2, <2>3 DEF OnIndexes
  <2> QED
    BY <1>1, <2>1, <2>2, <2>4
<1>4. h[{}] = base
  <2>1. {} \in SUBSET (1 .. Len(s))
    OBVIOUS
  <2> QED
    BY <1>2, <2>1 DEF Folds
<1>5. FoldsSeq(h, A, C, s, base, step)
  BY <1>1, <1>2, <1>3, <1>4 DEF FoldsSeq
<1> QED
  BY <1>5

FoldsBy(it, A, s, base, step) ==
  /\ it[{}] = base
  /\ \A i \in 1 .. Len(s) :
       it[1 .. i - 1] \in A => it[1 .. i] = step[<<it[1 .. i - 1], s[i]>>]

FoldsTo(it, s, F) == it[1 .. Len(s)] = F[s]

LEMMA FoldIsLoop ==
  ASSUME NEW A, NEW C, NEW base \in A, NEW step \in [A \X C -> A], NEW s \in Seq(C),
         NEW it, FoldsBy(it, A, s, base, step)
  PROVE  FoldsTo(it, s, Loop(A, C, base, step))
<1> DEFINE F == Loop(A, C, base, step)
           part(i) == SubSeq(s, 1, i)
           P == {i \in 0 .. Len(s) : it[1 .. i] = F[part(i)]}
<1>1. Len(s) \in Nat /\ F \in [Seq(C) -> A] /\ IsLoop(F, C, base, step)
  BY LenProperties, LoopProperties
<1> HIDE DEF F
<1>2. \A i \in 0 .. Len(s) : part(i) \in Seq(C)
  <2>1. ASSUME NEW i \in 0 .. Len(s) PROVE part(i) \in Seq(C)
    <3>1. 1 \in Int /\ i \in Int /\ \A j \in 1 .. i : s[j] \in C
      BY <1>1, ElementOfSeq
    <3> QED
      BY <3>1, SubSeqProperties
  <2> QED
    BY <2>1
<1>3. 0 \in P
  <2>1. part(0) = <<>>
    BY SubSeqEmpty
  <2>2. 1 .. 0 = {} /\ 0 \in 0 .. Len(s)
    BY <1>1
  <2>3. F[part(0)] = it[{}]
    BY <1>1, <2>1 DEF IsLoop, FoldsBy
  <2> HIDE DEF part
  <2> QED
    BY <2>2, <2>3
<1>4. ASSUME NEW i \in 1 .. Len(s), i - 1 \in P PROVE i \in P
  <2>1. i - 1 \in 0 .. Len(s) /\ i \in 0 .. Len(s) /\ s[i] \in C
    BY <1>1, ElementOfSeq
  <2>2. part(i) = Append(part(i - 1), s[i])
    <3>1. 1 \in 1 .. Len(s) /\ i \in 1 .. Len(s)
      BY <1>1
    <3>2. part(i) = part(i - 1) \o <<s[i]>>
      BY <3>1, SubSeqRecursiveSecond
    <3> HIDE DEF part
    <3> QED
      BY <1>2, <2>1, <3>2, AppendIsConcat
  <2>3. F[part(i)] = step[<<F[part(i - 1)], s[i]>>]
    <3> HIDE DEF part
    <3> QED
      BY <1>1, <1>2, <2>1, <2>2 DEF IsLoop
  <2>4. it[1 .. i - 1] = F[part(i - 1)] /\ F[part(i - 1)] \in A
    <3>1. it[1 .. i - 1] = F[part(i - 1)]
      BY <1>4, Zenon
    <3>2. part(i - 1) \in Seq(C)
      BY <1>2, <2>1, Zenon
    <3> HIDE DEF part
    <3> QED
      BY <1>1, <3>1, <3>2
  <2>5. it[1 .. i] = step[<<it[1 .. i - 1], s[i]>>]
    BY <2>4 DEF FoldsBy
  <2> HIDE DEF part
  <2> QED
    BY <2>1, <2>3, <2>4, <2>5
<1>5. \A i \in 0 .. Len(s) : i \in P
  <2> HIDE DEF P
  <2> QED
    BY <1>1, <1>3, <1>4, RunInduction
<1>6. part(Len(s)) = s
  BY SubSeqFull
<1>7. Len(s) \in P
  <2> HIDE DEF P
  <2> QED
    BY <1>1, <1>5
<1> QED
  BY <1>6, <1>7 DEF F, FoldsTo

------------------------------------------------------------------------------
(***************************************************************************)
(* FlattenSeq, as a loop that appends one sequence after the other.        *)
(***************************************************************************)
LEMMA FlattenRun ==
  ASSUME NEW C, NEW seqs \in Seq(Seq(C))
  PROVE  \E g \in [0 .. Len(seqs) -> Seq(C)] :
           /\ g[0] = <<>> /\ g[Len(seqs)] = FlattenSeq(seqs)
           /\ \A i \in 1 .. Len(seqs) : g[i] = g[i - 1] \o seqs[i]
<1> DEFINE n == Len(seqs)
           step == [x \in Seq(C) \X (1 .. n) |-> x[1] \o seqs[x[2]]]
<1>1. n \in Nat /\ \A i \in 1 .. n : seqs[i] \in Seq(C)
  BY LenProperties, ElementOfSeq
<1>2. step \in [Seq(C) \X (1 .. n) -> Seq(C)] /\ <<>> \in Seq(C)
  BY <1>1, ConcatProperties, EmptySeq
<1> HIDE DEF n
<1>3. PICK g \in [0 .. n -> Seq(C)] : Runs(g, n, <<>>, step)
  <2> HIDE DEF step
  <2> QED
    BY <1>1, <1>2, RunExists
<1>4. ASSUME NEW i \in 1 .. n PROVE g[i] = g[i - 1] \o seqs[i]
  <2>1. i - 1 \in 0 .. n
    BY <1>1
  <2>2. g[i - 1] \in Seq(C)
    BY <2>1
  <2>3. g[i] = step[<<g[i - 1], i>>]
    BY <1>3, Zenon DEF Runs
  <2> QED
    BY <2>2, <2>3
<1>5. CASE n = 0
  <2>1. seqs = <<>>
    BY <1>5, EmptySeq DEF n
  <2>2. FlattenSeq(seqs) = <<>>
    BY <1>5, <2>1 DEF FlattenSeq, n
  <2>3. g[0] = <<>>
    BY <1>3, Zenon DEF Runs
  <2> QED
    BY <1>4, <1>5, <2>2, <2>3 DEF n
<1>6. CASE n # 0
  <2> DEFINE rec(f) == f = [i \in 1 .. n |-> IF i = 1 THEN seqs[i] ELSE f[i - 1] \o seqs[i]]
             flatten == CHOOSE f : rec(f)
             tail == [i \in 1 .. n |-> g[i]]
  <2>1. ASSUME NEW i \in 1 .. n
        PROVE  tail[i] = IF i = 1 THEN seqs[i] ELSE tail[i - 1] \o seqs[i]
    <3>1. g[i] = g[i - 1] \o seqs[i] /\ seqs[i] \in Seq(C) /\ tail[i] = g[i]
      BY <1>1, <1>4
    <3>2. CASE i = 1
      <4>1. g[i - 1] = <<>>
        BY <1>3, <3>2 DEF Runs
      <4>2. <<>> \o seqs[i] = seqs[i]
        BY <3>1, ConcatEmptySeq
      <4> HIDE DEF tail
      <4> QED
        BY <3>1, <3>2, <4>1, <4>2
    <3>3. CASE i # 1
      <4>1. i - 1 \in 1 .. n
        BY <1>1, <3>3
      <4>2. tail[i - 1] = g[i - 1]
        BY <4>1, Zenon
      <4> HIDE DEF tail
      <4> QED
        BY <3>1, <3>3, <4>2
    <3> HIDE DEF tail
    <3> QED
      BY <3>2, <3>3
  <2>2. rec(flatten)
    <3>1. rec(tail)
      BY <2>1, Zenon
    <3> HIDE DEF rec, tail
    <3> QED
      BY <3>1
  <2>3. FlattenSeq(seqs) = flatten[n]
    BY <1>6 DEF FlattenSeq, n
  <2> DEFINE P == {i \in 0 .. n : i = 0 \/ flatten[i] = g[i]}
  <2>4. ASSUME NEW i \in 1 .. n, i - 1 \in P PROVE i \in P
    <3>1. flatten[i] = IF i = 1 THEN seqs[i] ELSE flatten[i - 1] \o seqs[i]
      <4> HIDE DEF flatten
      <4> QED
        BY <2>2, Zenon
    <3>2. tail[i] = IF i = 1 THEN seqs[i] ELSE tail[i - 1] \o seqs[i]
      <4> HIDE DEF tail
      <4> QED
        BY <2>1, Zenon
    <3>3. i # 1 => flatten[i - 1] = g[i - 1] /\ tail[i - 1] = g[i - 1]
      <4> HIDE DEF flatten
      <4> QED
        BY <1>1, <2>4
    <3>4. flatten[i] = g[i]
      <4> HIDE DEF flatten
      <4> QED
        BY <3>1, <3>2, <3>3
    <3> QED
      BY <3>4
  <2>5. \A i \in 0 .. n : i \in P
    <3> HIDE DEF P
    <3>1. 0 \in P
      BY <1>1 DEF P
    <3> QED
      BY <1>1, <2>4, <3>1, RunInduction
  <2>6. flatten[n] = g[n]
    <3> HIDE DEF flatten
    <3> QED
      BY <1>1, <1>6, <2>5
  <2> HIDE DEF flatten
  <2>7. g[0] = <<>>
    BY <1>3, Zenon DEF Runs
  <2> QED
    BY <1>4, <2>3, <2>6, <2>7 DEF n
<1> QED
  BY <1>5, <1>6

Concat(C) == [x \in Seq(C) \X Seq(C) |-> x[1] \o x[2]]

LEMMA FlattenIsLoop ==
  ASSUME NEW C, NEW seqs \in Seq(Seq(C))
  PROVE  FlattenSeq(seqs) = Loop(Seq(C), Seq(C), <<>>, Concat(C))[seqs]
<1> DEFINE n == Len(seqs)
           T == Seq(C)
<1>1. n \in Nat /\ <<>> \in T /\ Concat(C) \in [T \X T -> T]
  BY LenProperties, EmptySeq, ConcatProperties DEF Concat
<1>2. PICK g \in [0 .. n -> T] :
        /\ g[0] = <<>> /\ g[n] = FlattenSeq(seqs)
        /\ \A i \in 1 .. n : g[i] = g[i - 1] \o seqs[i]
  BY FlattenRun
<1> DEFINE it == [S \in SUBSET (1 .. n) |-> IF S = {} THEN <<>> ELSE g[Max(S)]]
<1>3. \A i \in 0 .. n : it[1 .. i] = g[i]
  <2>1. ASSUME NEW i \in 0 .. n PROVE it[1 .. i] = g[i]
    <3>1. 1 .. i \in SUBSET (1 .. n)
      BY <1>1
    <3>2. CASE i = 0
      <4>1. 1 .. i = {}
        BY <3>2
      <4> QED
        BY <1>2, <3>1, <3>2, <4>1
    <3>3. CASE i # 0
      <4>1. i \in 1 .. n /\ 1 .. i # {} /\ Max(1 .. i) = i
        <5> HIDE DEF n
        <5>1. i \in 1 .. n
          BY <1>1, <3>3
        <5> QED
          BY <1>1, <5>1, InitialSegment
      <4> QED
        BY <3>1, <4>1
    <3> QED
      BY <3>2, <3>3
  <2> QED
    BY <2>1
<1>4. it[{}] = <<>>
  OBVIOUS
<1> HIDE DEF it
<1>5. ASSUME NEW i \in 1 .. n PROVE it[1 .. i] = Concat(C)[<<it[1 .. i - 1], seqs[i]>>]
  <2>1. i \in 0 .. n /\ i - 1 \in 0 .. n /\ seqs[i] \in T
    BY <1>1, ElementOfSeq
  <2>2. it[1 .. i] = g[i - 1] \o seqs[i] /\ it[1 .. i - 1] = g[i - 1] /\ g[i - 1] \in T
    BY <1>2, <1>3, <2>1
  <2> QED
    BY <2>1, <2>2 DEF Concat
<1>6. it[1 .. Len(seqs)] = Loop(T, T, <<>>, Concat(C))[seqs]
  <2> HIDE DEF T
  <2>1. seqs \in Seq(T)
    BY DEF T
  <2>2. FoldsBy(it, T, seqs, <<>>, Concat(C))
    BY <1>4, <1>5 DEF FoldsBy
  <2>3. FoldsTo(it, seqs, Loop(T, T, <<>>, Concat(C)))
    BY <1>1, <2>1, <2>2, FoldIsLoop
  <2> QED
    BY <2>3, Zenon DEF FoldsTo
<1>7. it[1 .. n] = g[n]
  BY <1>1, <1>3
<1> QED
  BY <1>2, <1>6, <1>7

\* What FlattenSeq does for one more sequence.
LEMMA FlattenProperties ==
  ASSUME NEW C
  PROVE  /\ FlattenSeq(<<>>) = <<>>
         /\ \A seqs \in Seq(Seq(C)) : FlattenSeq(seqs) \in Seq(C)
         /\ \A seqs \in Seq(Seq(C)), s \in Seq(C) :
              FlattenSeq(Append(seqs, s)) = FlattenSeq(seqs) \o s
<1> DEFINE T == Seq(C)
           F == Loop(T, T, <<>>, Concat(C))
<1>1. <<>> \in T /\ Concat(C) \in [T \X T -> T]
  BY EmptySeq, ConcatProperties DEF Concat
<1>2. F \in [Seq(T) -> T] /\ IsLoop(F, T, <<>>, Concat(C))
  <2> HIDE DEF T
  <2> QED
    BY <1>1, LoopProperties
<1> HIDE DEF F
<1>3. \A seqs \in Seq(T) : FlattenSeq(seqs) = F[seqs]
  BY FlattenIsLoop DEF F
<1>4. FlattenSeq(<<>>) = <<>>
  <2>1. <<>> \in Seq(T)
    BY EmptySeq
  <2> QED
    BY <1>2, <1>3, <2>1 DEF IsLoop
<1>5. ASSUME NEW seqs \in Seq(T), NEW s \in T
      PROVE  FlattenSeq(Append(seqs, s)) = FlattenSeq(seqs) \o s
  <2>1. Append(seqs, s) \in Seq(T)
    <3> HIDE DEF T
    <3> QED
      BY AppendProperties
  <2>2. F[Append(seqs, s)] = Concat(C)[<<F[seqs], s>>] /\ F[seqs] \in T
    <3> HIDE DEF T
    <3> QED
      BY <1>2 DEF IsLoop
  <2>3. Concat(C)[<<F[seqs], s>>] = F[seqs] \o s
    BY <2>2 DEF Concat
  <2>4. FlattenSeq(Append(seqs, s)) = F[Append(seqs, s)] /\ FlattenSeq(seqs) = F[seqs]
    BY <1>3, <2>1
  <2> QED
    BY <2>2, <2>3, <2>4
<1> QED
  BY <1>2, <1>3, <1>4, <1>5

------------------------------------------------------------------------------
\* Short sequences.
LEMMA OneElement ==
  ASSUME NEW C, NEW c \in C
  PROVE  <<c>> \in Seq(C) /\ Len(<<c>>) = 1 /\ <<c>>[1] = c /\ <<c>> # <<>>
<1>1. Len(<<c>>) = 1 /\ <<c>>[1] = c /\ Len(<<>>) = 0
  OBVIOUS
<1>2. <<c>> \in Seq(C)
  OBVIOUS
<1> QED
  BY <1>1, <1>2

LEMMA ThreeElements ==
  ASSUME NEW C, NEW a \in C, NEW b \in C, NEW c \in C
  PROVE  /\ <<a, b, c>> \in Seq(C) /\ Len(<<a, b, c>>) = 3 /\ <<a, b, c>> # <<>>
         /\ <<a, b, c>>[1] = a /\ <<a, b, c>>[2] = b /\ <<a, b, c>>[3] = c
<1>1. Len(<<a, b, c>>) = 3 /\ Len(<<>>) = 0
  OBVIOUS
<1>2. <<a, b, c>>[1] = a /\ <<a, b, c>>[2] = b /\ <<a, b, c>>[3] = c
  OBVIOUS
<1>3. <<a, b, c>> \in Seq(C)
  OBVIOUS
<1> QED
  BY <1>1, <1>2, <1>3

LEMMA OneMore ==
  ASSUME NEW C, NEW s \in Seq(C), NEW c \in C
  PROVE  /\ Append(s, c) \in Seq(C) /\ Len(Append(s, c)) = Len(s) + 1 /\ Len(s) \in Nat
         /\ Append(s, c)[Len(s) + 1] = c
         /\ \A i \in 1 .. Len(s) : Append(s, c)[i] = s[i]
BY AppendProperties, LenProperties

LEMMA ConcatAppend ==
  ASSUME NEW C, NEW s \in Seq(C), NEW t \in Seq(C), NEW c \in C
  PROVE  s \o Append(t, c) = Append(s \o t, c)
<1>1. <<c>> \in Seq(C) /\ s \o t \in Seq(C)
  BY OneElement, ConcatProperties
<1>2. Append(t, c) = t \o <<c>> /\ Append(s \o t, c) = (s \o t) \o <<c>>
  BY <1>1, AppendIsConcat
<1>3. (s \o t) \o <<c>> = s \o (t \o <<c>>)
  BY <1>1, ConcatAssociative
<1> QED
  BY <1>2, <1>3

------------------------------------------------------------------------------
(***************************************************************************)
(* Parts of a concatenation, and the search for an element.                *)
(***************************************************************************)
LEMMA SubSeqType ==
  ASSUME NEW C, NEW s \in Seq(C), NEW m \in 1 .. Len(s) + 1, NEW n \in 0 .. Len(s)
  PROVE  /\ SubSeq(s, m, n) \in Seq(C)
         /\ Len(SubSeq(s, m, n)) = IF m =< n THEN n - m + 1 ELSE 0
         /\ \A i \in 1 .. n - m + 1 : SubSeq(s, m, n)[i] = s[m + i - 1]
<1>1. Len(s) \in Nat /\ m \in Int /\ n \in Int /\ \A i \in m .. n : i \in 1 .. Len(s)
  BY LenProperties
<1>2. \A i \in m .. n : s[i] \in C
  BY <1>1, ElementOfSeq
<1> QED
  BY <1>1, <1>2, SubSeqProperties

\* What stands in front of the last element.
LEMMA FrontAndLast ==
  ASSUME NEW C, NEW s \in Seq(C), NEW c \in C
  PROVE  /\ Front(Append(s, c)) = s /\ Last(Append(s, c)) = c /\ Append(s, c) # <<>>
<1> DEFINE more == Append(s, c)
           front == Front(more)
<1>1. /\ more \in Seq(C) /\ Len(more) = Len(s) + 1 /\ Len(s) \in Nat
      /\ more[Len(s) + 1] = c /\ \A i \in 1 .. Len(s) : more[i] = s[i]
  BY OneMore
<1> HIDE DEF more
<1>2. Last(more) = c
  BY <1>1 DEF Last
<1>3. front = SubSeq(more, 1, Len(s))
  BY <1>1 DEF Front
<1>4. /\ front \in Seq(C) /\ Len(front) = Len(s) /\ \A i \in 1 .. Len(s) : front[i] = s[i]
  <2>1. 1 \in 1 .. Len(more) + 1 /\ Len(s) \in 0 .. Len(more)
    BY <1>1
  <2> DEFINE n == Len(s)
  <2>2. /\ SubSeq(more, 1, n) \in Seq(C)
        /\ Len(SubSeq(more, 1, n)) = IF 1 =< n THEN n - 1 + 1 ELSE 0
        /\ \A i \in 1 .. n - 1 + 1 : SubSeq(more, 1, n)[i] = more[1 + i - 1]
    BY <1>1, <2>1, SubSeqType
  <2> HIDE DEF front
  <2> QED
    BY <1>1, <1>3, <2>2
<1> HIDE DEF front
<1>5. front = s
  BY <1>4, SeqEqual
<1>6. more # <<>>
  BY <1>1, EmptySeq
<1> QED
  BY <1>2, <1>5, <1>6 DEF more, front

LEMMA LeftPart ==
  ASSUME NEW C, NEW s \in Seq(C), NEW t \in Seq(C)
  PROVE  SubSeq(s \o t, 1, Len(s)) = s
<1> DEFINE st == s \o t
           left == SubSeq(st, 1, Len(s))
<1>1. /\ Len(s) \in Nat /\ Len(t) \in Nat /\ st \in Seq(C) /\ Len(st) = Len(s) + Len(t)
      /\ \A i \in 1 .. Len(s) : st[i] = s[i]
  BY LenProperties, ConcatProperties
<1> HIDE DEF st
<1>2. /\ left \in Seq(C) /\ Len(left) = IF 1 =< Len(s) THEN Len(s) - 1 + 1 ELSE 0
      /\ \A i \in 1 .. Len(s) - 1 + 1 : left[i] = st[1 + i - 1]
  <2>1. 1 \in 1 .. Len(st) + 1 /\ Len(s) \in 0 .. Len(st)
    BY <1>1
  <2> QED
    BY <1>1, <2>1, SubSeqType
<1> HIDE DEF left
<1>3. Len(left) = Len(s) /\ \A i \in 1 .. Len(left) : left[i] = s[i]
  BY <1>1, <1>2
<1>4. left = s
  BY <1>2, <1>3, SeqEqual
<1> QED
  BY <1>4 DEF left, st

LEMMA RightPart ==
  ASSUME NEW C, NEW s \in Seq(C), NEW t \in Seq(C)
  PROVE  SubSeq(s \o t, Len(s) + 1, Len(s \o t)) = t
<1> DEFINE st == s \o t
           right == SubSeq(st, Len(s) + 1, Len(st))
<1>1. /\ Len(s) \in Nat /\ Len(t) \in Nat /\ st \in Seq(C) /\ Len(st) = Len(s) + Len(t)
      /\ \A i \in 1 .. Len(t) : st[Len(s) + i] = t[i]
  <2>1. /\ Len(s) \in Nat /\ Len(t) \in Nat /\ st \in Seq(C) /\ Len(st) = Len(s) + Len(t)
        /\ \A i \in 1 .. Len(s) + Len(t) : st[i] = IF i =< Len(s) THEN s[i] ELSE t[i - Len(s)]
    BY LenProperties, ConcatProperties
  <2> HIDE DEF st
  <2>2. ASSUME NEW i \in 1 .. Len(t) PROVE st[Len(s) + i] = t[i]
    <3>1. Len(s) + i \in 1 .. Len(s) + Len(t) /\ ~ (Len(s) + i =< Len(s)) /\ (Len(s) + i) - Len(s) = i
      BY <2>1
    <3> QED
      BY <2>1, <3>1
  <2> QED
    BY <2>1, <2>2
<1> HIDE DEF st
<1> DEFINE m == Len(s) + 1
           n == Len(st)
<1>2. m \in 1 .. Len(st) + 1 /\ n \in 0 .. Len(st) /\ m \in Int /\ n \in Int
  BY <1>1
<1>3. /\ right \in Seq(C) /\ Len(right) = IF m =< n THEN n - m + 1 ELSE 0
      /\ \A i \in 1 .. n - m + 1 : right[i] = st[m + i - 1]
  <2>1. right = SubSeq(st, m, n)
    OBVIOUS
  <2> HIDE DEF right, m, n
  <2> QED
    BY <1>1, <1>2, <2>1, SubSeqType
<1> HIDE DEF right
<1>4. n - m + 1 = Len(t) /\ (m =< n <=> 1 =< Len(t))
  BY <1>1
<1>5. Len(right) = Len(t)
  BY <1>1, <1>3, <1>4
<1>6. ASSUME NEW i \in 1 .. Len(right) PROVE right[i] = t[i]
  <2>1. m + i - 1 = Len(s) + i /\ i \in 1 .. Len(t) /\ i \in 1 .. n - m + 1
    BY <1>1, <1>4, <1>5
  <2> HIDE DEF m, n
  <2> QED
    BY <1>1, <1>3, <2>1
<1>7. right = t
  BY <1>3, <1>5, <1>6, SeqEqual
<1> QED
  BY <1>7 DEF right, st

LEMMA MiddlePart ==
  ASSUME NEW C, NEW s \in Seq(C), NEW t \in Seq(C), NEW u \in Seq(C)
  PROVE  SubSeq((s \o t) \o u, Len(s) + 1, Len(s \o t)) = t
<1> DEFINE st == s \o t
           stu == st \o u
           m == Len(s) + 1
           n == Len(st)
           middle == SubSeq(stu, m, n)
<1>1. /\ Len(s) \in Nat /\ Len(t) \in Nat /\ st \in Seq(C) /\ n = Len(s) + Len(t)
      /\ \A i \in 1 .. Len(s) + Len(t) : st[i] = IF i =< Len(s) THEN s[i] ELSE t[i - Len(s)]
  BY LenProperties, ConcatProperties
<1> HIDE DEF st
<1>2. /\ stu \in Seq(C) /\ Len(u) \in Nat /\ Len(stu) = n + Len(u) /\ n \in Nat
      /\ \A i \in 1 .. n : stu[i] = st[i]
  <2>1. /\ stu \in Seq(C) /\ Len(u) \in Nat /\ Len(stu) = Len(st) + Len(u) /\ Len(st) \in Nat
        /\ \A i \in 1 .. Len(st) : stu[i] = st[i]
    <3>1. st \in Seq(C)
      BY <1>1
    <3>2. /\ stu \in Seq(C) /\ Len(u) \in Nat /\ Len(st) \in Nat /\ Len(stu) = Len(st) + Len(u)
          /\ \A i \in 1 .. Len(st) + Len(u) : stu[i] = IF i =< Len(st) THEN st[i] ELSE u[i - Len(st)]
      BY <3>1, LenProperties, ConcatProperties
    <3> HIDE DEF stu
    <3> QED
      BY <3>2
  <2> HIDE DEF stu
  <2> QED
    BY <2>1
<1> HIDE DEF stu
<1>3. m \in 1 .. Len(stu) + 1 /\ n \in 0 .. Len(stu)
  BY <1>1, <1>2
<1> HIDE DEF n, m
<1>4. /\ middle \in Seq(C) /\ Len(middle) = IF m =< n THEN n - m + 1 ELSE 0
      /\ \A i \in 1 .. n - m + 1 : middle[i] = stu[m + i - 1]
  BY <1>2, <1>3, SubSeqType
<1> HIDE DEF middle
<1>5. n - m + 1 = Len(t) /\ (m =< n <=> 1 =< Len(t))
  BY <1>1 DEF m
<1>6. Len(middle) = Len(t)
  BY <1>1, <1>4, <1>5
<1>7. ASSUME NEW i \in 1 .. Len(middle) PROVE middle[i] = t[i]
  <2>1. /\ m + i - 1 = Len(s) + i /\ i \in 1 .. n - m + 1 /\ Len(s) + i \in 1 .. Len(s) + Len(t)
        /\ ~ (Len(s) + i =< Len(s)) /\ (Len(s) + i) - Len(s) = i
    BY <1>1, <1>5, <1>6 DEF m
  <2>2. middle[i] = stu[Len(s) + i]
    BY <1>4, <2>1
  <2>3. Len(s) + i \in 1 .. n
    BY <1>1, <2>1
  <2>4. stu[Len(s) + i] = st[Len(s) + i]
    BY <1>2, <2>3
  <2> QED
    BY <1>1, <2>1, <2>2, <2>4
<1>8. middle = t
  BY <1>4, <1>6, <1>7, SeqEqual
<1> QED
  BY <1>8 DEF middle, m, n, stu, st

\* The search finds what stands behind a part without it.
Places(s, from, c) == {i \in from .. Len(s) : s[i] = c}

LEMMA FirstPlace ==
  ASSUME NEW C, NEW s \in Seq(C), NEW t \in Seq(C), NEW c, NEW from \in 1 .. Len(s) + 1,
         \A i \in from .. Len(s) : s[i] # c, t # <<>>, t[1] = c
  PROVE  /\ Places(s \o t, from, c) # {}
         /\ Min(Places(s \o t, from, c)) = Len(s) + 1
<1> DEFINE st == s \o t
           places == Places(st, from, c)
           m == Len(s) + 1
<1>1. /\ Len(s) \in Nat /\ Len(t) \in Nat \ {0} /\ Len(st) = Len(s) + Len(t)
      /\ \A i \in 1 .. Len(s) + Len(t) : st[i] = IF i =< Len(s) THEN s[i] ELSE t[i - Len(s)]
  BY LenProperties, ConcatProperties, EmptySeq
<1> HIDE DEF st
<1>2. m \in 1 .. Len(s) + Len(t) /\ ~ (m =< Len(s)) /\ m - Len(s) = 1 /\ m \in from .. Len(st)
  BY <1>1
<1>3. st[m] = c
  <2> HIDE DEF m
  <2> QED
    BY <1>1, <1>2
<1>4. m \in places /\ places \in SUBSET Int
  BY <1>2, <1>3 DEF Places
<1>5. ASSUME NEW j \in places, j < m PROVE FALSE
  <2>1. j \in from .. Len(s) /\ j \in 1 .. Len(s) + Len(t) /\ j =< Len(s) /\ st[j] = c
    BY <1>1, <1>5 DEF Places
  <2>2. st[j] = s[j]
    BY <1>1, <2>1
  <2> QED
    BY <2>1, <2>2
<1>6. \A j \in places : m =< j
  <2>1. m \in Int /\ \A j \in places : j \in Int
    BY <1>1, <1>4
  <2> HIDE DEF m, places
  <2> QED
    BY <1>5, <2>1
<1>7. Min(places) = m
  <2> HIDE DEF m, places
  <2> QED
    BY <1>4, <1>6, MinIs
<1> QED
  BY <1>4, <1>7 DEF st

------------------------------------------------------------------------------
(***************************************************************************)
(* A recursion that goes through a sequence in steps of several elements,  *)
(* the result of the rest put behind that of the step.                     *)
(***************************************************************************)
Unfolds(h, m, n, item, next) ==
  \A i \in m .. n + 1 : h[i] = IF i > n THEN <<>> ELSE <<item[i]>> \o h[next[i]]

LEMMA UnfoldExists ==
  ASSUME NEW V, NEW n \in Nat, NEW item \in [1 .. n -> V], NEW next \in [1 .. n -> 1 .. n + 1],
         \A i \in 1 .. n : i < next[i]
  PROVE  \E h \in [1 .. n + 1 -> Seq(V)] : Unfolds(h, 1, n, item, next)
<1> DEFINE good == {k \in Nat : k =< n => \E h \in [n + 1 - k .. n + 1 -> Seq(V)] :
                                            Unfolds(h, n + 1 - k, n, item, next)}
<1>1. 0 \in good
  <2> DEFINE h == [i \in n + 1 - 0 .. n + 1 |-> <<>>]
  <2>1. h \in [n + 1 - 0 .. n + 1 -> Seq(V)]
    BY EmptySeq
  <2>2. Unfolds(h, n + 1 - 0, n, item, next)
    BY DEF Unfolds
  <2> QED
    BY <2>1, <2>2
<1>2. ASSUME NEW k \in Nat, k \in good PROVE k + 1 \in good
  <2> DEFINE m == n + 1 - (k + 1)
  <2>1. SUFFICES ASSUME k + 1 =< n
                 PROVE  \E h \in [m .. n + 1 -> Seq(V)] : Unfolds(h, m, n, item, next)
    <3>1. k + 1 \in Nat
      OBVIOUS
    <3> QED
      BY <3>1, Zenon
  <2>2. m \in 1 .. n /\ n + 1 - k = m + 1 /\ k =< n
    BY <2>1
  <2>3. PICK h \in [m + 1 .. n + 1 -> Seq(V)] : Unfolds(h, m + 1, n, item, next)
    BY <1>2, <2>2
  <2> HIDE DEF m
  <2> DEFINE more == [i \in m .. n + 1 |-> IF i = m THEN <<item[m]>> \o h[next[m]] ELSE h[i]]
  <2>4. item[m] \in V /\ next[m] \in m + 1 .. n + 1 /\ h[next[m]] \in Seq(V)
    BY <2>2
  <2>5. <<item[m]>> \o h[next[m]] \in Seq(V)
    BY <2>4, OneElement, ConcatProperties
  <2>6. more \in [m .. n + 1 -> Seq(V)]
    BY <2>2, <2>5
  <2>7. ASSUME NEW i \in m .. n + 1
        PROVE  more[i] = IF i > n THEN <<>> ELSE <<item[i]>> \o more[next[i]]
    <3>1. CASE i = m
      <4>1. more[i] = <<item[m]>> \o h[next[m]]
        BY <3>1
      <4>2. more[next[m]] = h[next[m]]
        BY <2>2, <2>4
      <4>3. ~ (i > n)
        BY <2>2, <3>1
      <4> HIDE DEF more
      <4> QED
        BY <3>1, <4>1, <4>2, <4>3
    <3>2. CASE i # m
      <4>1. i \in m + 1 .. n + 1 /\ more[i] = h[i]
        BY <2>2, <3>2
      <4>2. h[i] = IF i > n THEN <<>> ELSE <<item[i]>> \o h[next[i]]
        BY <2>3, <4>1 DEF Unfolds
      <4>3. ASSUME ~ (i > n) PROVE more[next[i]] = h[next[i]]
        <5>1. i \in 1 .. n /\ i < next[i] /\ next[i] \in 1 .. n + 1
          BY <2>2, <4>1, <4>3
        <5>2. next[i] \in m .. n + 1 /\ next[i] # m
          BY <2>2, <4>1, <5>1
        <5> QED
          BY <5>2
      <4> HIDE DEF more
      <4> QED
        BY <4>1, <4>2, <4>3
    <3> QED
      BY <3>1, <3>2
  <2>8. Unfolds(more, m, n, item, next)
    <3> HIDE DEF more
    <3> QED
      BY <2>7 DEF Unfolds
  <2> HIDE DEF more
  <2> QED
    BY <2>6, <2>8
<1>3. n \in good
  <2> HIDE DEF good
  <2>1. \A k \in Nat : k \in good => k + 1 \in good
    BY <1>2
  <2> QED
    BY <1>1, <2>1, NatSetInduction
<1>4. n =< n /\ n + 1 - n = 1
  OBVIOUS
<1>5. \E h \in [n + 1 - n .. n + 1 -> Seq(V)] : Unfolds(h, n + 1 - n, n, item, next)
  BY <1>3, <1>4, Zenon
<1> QED
  BY <1>4, <1>5

\* What stands before, at and behind an index.
LEMMA SplitAt ==
  ASSUME NEW C, NEW s \in Seq(C), NEW k \in 1 .. Len(s)
  PROVE  /\ SubSeq(s, 1, k - 1) \in Seq(C) /\ SubSeq(s, k + 1, Len(s)) \in Seq(C)
         /\ <<s[k]>> \in Seq(C) /\ s[k] \in C
         /\ SubSeq(s, 1, k) = SubSeq(s, 1, k - 1) \o <<s[k]>>
         /\ SubSeq(s, k, Len(s)) = <<s[k]>> \o SubSeq(s, k + 1, Len(s))
         /\ s = (SubSeq(s, 1, k - 1) \o <<s[k]>>) \o SubSeq(s, k + 1, Len(s))
<1> DEFINE left == SubSeq(s, 1, k - 1)
           right == SubSeq(s, k + 1, Len(s))
           m == k - 1
           n == k + 1
<1>1. /\ Len(s) \in Nat /\ s[k] \in C /\ <<s[k]>> \in Seq(C) /\ 1 \in 1 .. Len(s)
      /\ m \in 0 .. Len(s) /\ n \in 1 .. Len(s) + 1 /\ 1 \in 1 .. Len(s) + 1
      /\ Len(s) \in 0 .. Len(s) /\ k \in 1 .. Len(s) /\ Len(s) \in k .. Len(s)
      /\ 1 - 1 = 0 /\ k \in 1 - 1 .. Len(s)
  BY LenProperties, ElementOfSeq, OneElement
<1>2. left \in Seq(C)
  <2> HIDE DEF m
  <2> QED
    BY <1>1, SubSeqType DEF m
<1>3. right \in Seq(C)
  <2>1. right = SubSeq(s, n, Len(s))
    OBVIOUS
  <2> HIDE DEF n, right
  <2> QED
    BY <1>1, <2>1, SubSeqType
<1>4. SubSeq(s, 1, k) = left \o <<s[k]>>
  BY <1>1, SubSeqRecursiveSecond
<1>5. SubSeq(s, k, Len(s)) = <<s[k]>> \o right
  BY <1>1, SubSeqRecursiveFirst
<1>6. SubSeq(s, 1, k) \o right = SubSeq(s, 1, Len(s))
  BY <1>1, ConcatAdjacentSubSeq
<1>7. SubSeq(s, 1, Len(s)) = s
  BY SubSeqFull
<1> HIDE DEF left, right
<1>8. s = (left \o <<s[k]>>) \o right
  BY <1>4, <1>6, <1>7
<1> QED
  BY <1>1, <1>2, <1>3, <1>4, <1>5, <1>8 DEF left, right
=============================================================================
