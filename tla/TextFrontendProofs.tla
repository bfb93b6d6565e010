------------------------- MODULE TextFrontendProofs -------------------------
(***************************************************************************)
(* Proofs about TextFrontend, for texts and numbers of any length in its   *)
(* range: the segments of a text hold all of it, and a number is read back *)
(* from its words.                                                         *)
(*                                                                         *)
(* Each loop of the code is a recursive function over the positions of a   *)
(* sequence.  What it computes is found by counting the positions (the     *)
(* first that goes wrong is the least element of a set of numbers), so a   *)
(* loop is shown to take one step for each element (..Steps), and what it  *)
(* keeps (..Keeps) is a set of sequences closed under Append.              *)
(***************************************************************************)
EXTENDS TextFrontend, SequenceTheorems, NaturalsInduction, WellFoundedInduction,
        FiniteSetTheorems, TLAPS

-----------------------------------------------------------------------------
(* Least and greatest numbers.                                             *)

\* A set of natural numbers that is not empty has a least element.
LEMMA Least ==
    ASSUME NEW S \in SUBSET Nat, S # {}
    PROVE  \E n \in S : \A m \in S : n <= m
<1> DEFINE R == OpToRel(<, Nat)
<1>1. \E n \in S : \A m \in S : ~ (<<m, n>> \in R)
  BY NatLessThanWellFounded, WFMin, Zenon
<1>2. \A m, n \in Nat : m < n => <<m, n>> \in R
  BY DEF OpToRel
<1> HIDE DEF R
<1>3. PICK n \in S : \A m \in S : ~ (<<m, n>> \in R)
  BY <1>1, Zenon
<1>4. \A m \in S : ~ (m < n)
  BY <1>2, <1>3, Zenon
<1> QED
  BY <1>3, <1>4

\* And, if it has a bound, a greatest.
LEMMA Greatest ==
    ASSUME NEW S \in SUBSET Nat, S # {}, NEW b \in Nat, \A m \in S : m <= b
    PROVE  \E n \in S : \A m \in S : m <= n
<1> DEFINE U == {n \in Nat : \A m \in S : m <= n}
<1>1. U # {} /\ U \in SUBSET Nat
  OBVIOUS
<1>2. PICK n \in U : \A m \in U : n <= m
  <2> HIDE DEF U
  <2> QED
    BY <1>1, Least, Zenon
<1>3. n \in S
  <2> SUFFICES ASSUME n \notin S PROVE FALSE
    OBVIOUS
  <2>1. n \in Nat /\ \A m \in S : m \in Nat /\ m <= n /\ m # n
    OBVIOUS
  <2>2. PICK m \in S : TRUE
    OBVIOUS
  <2>3. n # 0
    BY <2>1, <2>2
  <2>4. n - 1 \in U
    BY <2>1, <2>3
  <2> QED
    BY <1>2, <2>1, <2>4
<1> QED
  BY <1>3

-----------------------------------------------------------------------------
(* Folds: what a loop over a sequence has after each element.  The steps   *)
(* of a loop are a function h of what it has and the next element.         *)

\* A set that has zero, and each number up to n with the one before it, has them all.
LEMMA Counting ==
    ASSUME NEW n \in Nat, NEW P, 0 \in P, \A i \in 1..n : i - 1 \in P => i \in P
    PROVE  0..n \subseteq P
<1> DEFINE U == {i \in 0..n : i \notin P}
<1>1. SUFFICES ASSUME U # {} PROVE FALSE
  OBVIOUS
<1>2. PICK m \in U : \A j \in U : m <= j
  <2>1. U \in SUBSET Nat
    OBVIOUS
  <2> HIDE DEF U
  <2> QED
    BY <1>1, <2>1, Least, Zenon
<1>3. m \in 1..n
  BY <1>2
<1>4. m - 1 \in 0..n /\ m - 1 \notin U
  BY <1>2, <1>3
<1> QED
  BY <1>2, <1>3, <1>4

\* A set that has the empty sequence, and each sequence with what it is appended to, has
\* all sequences.
LEMMA Appending ==
    ASSUME NEW S, NEW P, <<>> \in P,
           \A s \in Seq(S), x \in S : s \in P => Append(s, x) \in P
    PROVE  Seq(S) \subseteq P
<1> DEFINE Q == {n \in Nat : \A s \in Seq(S) : Len(s) = n => s \in P}
<1>1. SUFFICES ASSUME NEW s \in Seq(S) PROVE s \in P
  OBVIOUS
<1>2. PICK n \in Nat : n = Len(s)
  BY LenProperties
<1>3. 0 \in Q
  BY EmptySeq
<1>4. ASSUME NEW i \in 1..n, i - 1 \in Q PROVE i \in Q
  <2> SUFFICES ASSUME NEW t \in Seq(S), Len(t) = i PROVE t \in P
    OBVIOUS
  <2>1. t # <<>>
    BY EmptySeq
  <2>2. PICK u \in Seq(S), x \in S : t = Append(u, x)
    BY <2>1, SequenceEmptyOrAppend
  <2>3. Len(u) = i - 1
    BY <2>2, AppendProperties, LenProperties
  <2>4. u \in P
    BY <1>4, <2>3
  <2> QED
    BY <2>2, <2>4
<1>5. n \in Q
  <2> HIDE DEF Q
  <2>1. 0..n \subseteq Q
    BY <1>3, <1>4, Counting
  <2> QED
    BY <2>1
<1> QED
  BY <1>2, <1>5

Stepwise(h, a, s, f) ==
    f = [i \in 0..Len(s) |-> IF i = 0 THEN a ELSE h[<<f[i - 1], s[i]>>]]
Fold(h, a, s) == (CHOOSE f : Stepwise(h, a, s, f))[Len(s)]

\* The steps stay in V.
Closed(h, a, V, S) == a \in V /\ \A v \in V, x \in S : h[<<v, x>>] \in V

\* There is such a function.
LEMMA StepwiseExists ==
    ASSUME NEW S, NEW V, NEW a, NEW h, Closed(h, a, V, S), NEW s \in Seq(S)
    PROVE  \E f \in [0..Len(s) -> V] : Stepwise(h, a, s, f)
<1> DEFINE l == Len(s)
           Upto(f, n) == /\ f \in [0..n -> V] /\ f[0] = a
                         /\ \A i \in 1..n : f[i] = h[<<f[i - 1], s[i]>>]
           P == {n \in 0..l : \E f : Upto(f, n)}
<1>1. l \in Nat /\ (\A i \in 1..l : s[i] \in S) /\ a \in V
  BY LenProperties, ElementOfSeq DEF Closed
<1>2. 0 \in P
  <2>1. Upto([i \in 0..0 |-> a], 0)
    <3>1. \A i \in 1..0 : FALSE
      OBVIOUS
    <3>2. [i \in 0..0 |-> a] \in [0..0 -> V] /\ [i \in 0..0 |-> a][0] = a
      BY <1>1
    <3> QED
      BY <3>1, <3>2
  <2>2. 0 \in 0..l
    BY <1>1
  <2> HIDE DEF Upto
  <2> QED
    BY <2>1, <2>2
<1>3. ASSUME NEW n \in 1..l, n - 1 \in P PROVE n \in P
  <2>1. PICK f : Upto(f, n - 1)
    BY <1>3
  <2>2. n \in Nat /\ n - 1 \in 0..(n - 1) /\ f[n - 1] \in V /\ s[n] \in S
    BY <1>1, <2>1
  <2>3. h[<<f[n - 1], s[n]>>] \in V
    BY <2>2 DEF Closed
  <2> DEFINE g == [i \in 0..n |-> IF i = n THEN h[<<f[n - 1], s[n]>>] ELSE f[i]]
  <2>4. g \in [0..n -> V] /\ g[0] = a
    BY <2>1, <2>2, <2>3
  <2>5. ASSUME NEW i \in 1..n PROVE g[i] = h[<<g[i - 1], s[i]>>]
    <3>1. g[i - 1] = f[i - 1]
      OBVIOUS
    <3>2. CASE i = n
      <4>1. g[n] = h[<<f[n - 1], s[n]>>] /\ g[n - 1] = f[n - 1]
        BY <2>2
      <4> QED
        BY <3>2, <4>1
    <3>3. CASE i # n
      <4>1. i \in 1..(n - 1) /\ g[i] = f[i]
        BY <3>3
      <4> QED
        BY <2>1, <3>1, <4>1
    <3> QED
      BY <3>2, <3>3
  <2>6. Upto(g, n)
    BY <2>4, <2>5
  <2> HIDE DEF Upto, g
  <2> QED
    BY <2>6
<1>4. l \in P
  <2> HIDE DEF P
  <2>1. 0..l \subseteq P
    BY <1>1, <1>2, <1>3, Counting
  <2> QED
    BY <1>1, <2>1
<1>5. PICK f : Upto(f, l)
  BY <1>4
<1>6. f = [i \in 0..l |-> IF i = 0 THEN a ELSE h[<<f[i - 1], s[i]>>]]
  BY <1>1, <1>5
<1> QED
  BY <1>5, <1>6 DEF Stepwise

\* f goes by the steps, as far as n.
Follows(f, h, a, V, s, n) ==
    f[0] = a /\ \A i \in 1..n : f[i - 1] \in V => f[i] = h[<<f[i - 1], s[i]>>]

\* Two functions that go by the same steps are one.
LEMMA OneFold ==
    ASSUME NEW S, NEW V, NEW a, NEW h, Closed(h, a, V, S), NEW s \in Seq(S),
           NEW n \in 0..Len(s), NEW f, Follows(f, h, a, V, s, n),
           NEW g, Follows(g, h, a, V, s, n)
    PROVE  f[n] \in V /\ f[n] = g[n]
<1> DEFINE P == {i \in 0..n : f[i] \in V /\ f[i] = g[i]}
<1>1. n \in Nat /\ \A i \in 1..n : s[i] \in S
  BY LenProperties, ElementOfSeq
<1>2. 0 \in P
  BY <1>1 DEF Follows, Closed
<1>3. ASSUME NEW i \in 1..n, i - 1 \in P PROVE i \in P
  <2>1. f[i - 1] \in V /\ f[i - 1] = g[i - 1] /\ s[i] \in S
    BY <1>1, <1>3
  <2>2. h[<<f[i - 1], s[i]>>] \in V
    BY <2>1 DEF Closed
  <2>3. f[i] = h[<<f[i - 1], s[i]>>] /\ g[i] = f[i] /\ f[i] \in V
    BY <2>1, <2>2 DEF Follows
  <2> QED
    BY <1>1, <2>3
<1>4. 0..n \subseteq P
  <2> HIDE DEF P
  <2> QED
    BY <1>1, <1>2, <1>3, Counting
<1> QED
  BY <1>1, <1>4

\* The function of the fold goes by its steps.
LEMMA FoldFollows ==
    ASSUME NEW S, NEW V, NEW a, NEW h, Closed(h, a, V, S), NEW s \in Seq(S)
    PROVE  \E f : Fold(h, a, s) = f[Len(s)] /\ Follows(f, h, a, V, s, Len(s))
<1> DEFINE g == CHOOSE f : Stepwise(h, a, s, f)
<1>1. Stepwise(h, a, s, g)
  BY StepwiseExists, Zenon
<1>2. Len(s) \in Nat
  BY LenProperties
<1>3. Fold(h, a, s) = g[Len(s)]
  BY DEF Fold
<1> HIDE DEF g
<1>4. g[0] = a /\ \A i \in 1..Len(s) : g[i] = h[<<g[i - 1], s[i]>>]
  BY <1>1, <1>2 DEF Stepwise
<1>5. Follows(g, h, a, V, s, Len(s))
  BY <1>4 DEF Follows
<1> QED
  BY <1>3, <1>5

\* Whatever goes by the steps ends where the fold does.
LEMMA FoldIs ==
    ASSUME NEW S, NEW V, NEW a, NEW h, Closed(h, a, V, S), NEW s \in Seq(S),
           NEW f, Follows(f, h, a, V, s, Len(s))
    PROVE  f[Len(s)] \in V /\ f[Len(s)] = Fold(h, a, s)
<1>1. PICK g : Fold(h, a, s) = g[Len(s)] /\ Follows(g, h, a, V, s, Len(s))
  BY FoldFollows
<1>2. Len(s) \in 0..Len(s)
  BY LenProperties
<1>3. f[Len(s)] \in V /\ f[Len(s)] = g[Len(s)]
  BY <1>1, <1>2, OneFold
<1> QED
  BY <1>1, <1>3

\* A fold, element by element.
LEMMA FoldSteps ==
    ASSUME NEW S, NEW V, NEW a, NEW h, Closed(h, a, V, S)
    PROVE  /\ Fold(h, a, <<>>) = a
           /\ \A s \in Seq(S) : Fold(h, a, s) \in V
           /\ \A s \in Seq(S), x \in S : Fold(h, a, Append(s, x)) = h[<<Fold(h, a, s), x>>]
<1>1. ASSUME NEW s \in Seq(S) PROVE Fold(h, a, s) \in V
  <2>1. PICK f : Fold(h, a, s) = f[Len(s)] /\ Follows(f, h, a, V, s, Len(s))
    BY FoldFollows
  <2> QED
    BY <2>1, FoldIs
<1>2. ASSUME NEW s \in Seq(S), NEW x \in S
      PROVE  Fold(h, a, Append(s, x)) = h[<<Fold(h, a, s), x>>]
  <2> DEFINE t == Append(s, x)
  <2>1. PICK l \in Nat : l = Len(s)
    BY LenProperties
  <2>2. /\ t \in Seq(S) /\ Len(t) = l + 1 /\ t[l + 1] = x
        /\ \A i \in 1..l : t[i] = s[i]
    BY <2>1, AppendProperties
  <2> HIDE DEF t
  <2>3. PICK f : Fold(h, a, t) = f[Len(t)] /\ Follows(f, h, a, V, t, Len(t))
    BY <2>2, FoldFollows
  <2>4. Follows(f, h, a, V, s, Len(s))
    BY <2>1, <2>2, <2>3 DEF Follows
  <2>5. f[l] \in V /\ f[l] = Fold(h, a, s)
    BY <2>1, <2>4, FoldIs
  <2>6. f[l + 1] = h[<<f[l], t[l + 1]>>]
    BY <2>1, <2>2, <2>3, <2>5 DEF Follows
  <2> QED
    BY <2>2, <2>3, <2>5, <2>6 DEF t
<1>3. Fold(h, a, <<>>) = a
  <2>1. PICK f : Fold(h, a, <<>>) = f[Len(<<>>)] /\ Follows(f, h, a, V, <<>>, Len(<<>>))
    BY EmptySeq, FoldFollows
  <2> QED
    BY <2>1, EmptySeq DEF Follows
<1> QED
  BY <1>1, <1>2, <1>3

-----------------------------------------------------------------------------
(* The characters of a text that are not spaces.                           *)

Txt == Seq(Glyph)

LEMMA SolidSteps ==
    /\ Solid(<<>>) = <<>>
    /\ \A s \in Txt : Solid(s) \in Seq(Glyph \ Spaces)
    /\ \A s \in Txt, x \in Glyph :
          Solid(Append(s, x)) = IF x \in Spaces THEN Solid(s) ELSE Append(Solid(s), x)
<1> DEFINE V == Seq(Glyph \ Spaces)
           h == [p \in V \X Glyph |-> IF p[2] \in Spaces THEN p[1] ELSE Append(p[1], p[2])]
           F(f, s) == f = [i \in 0..Len(s) |-> IF i = 0 THEN <<>>
                                ELSE IF s[i] \in Spaces THEN f[i - 1] ELSE Append(f[i - 1], s[i])]
<1>1. \A v \in V, x \in Glyph : h[<<v, x>>] = IF x \in Spaces THEN v ELSE Append(v, x)
  OBVIOUS
<1>2. Closed(h, <<>>, V, Glyph)
  <2>1. \A v \in V, x \in Glyph : (IF x \in Spaces THEN v ELSE Append(v, x)) \in V
    BY AppendProperties
  <2> HIDE DEF h
  <2> QED
    BY <1>1, <2>1, EmptySeq DEF Closed
<1>3. ASSUME NEW s \in Txt PROVE Solid(s) \in V /\ Solid(s) = Fold(h, <<>>, s)
  <2> DEFINE g == CHOOSE f : F(f, s)
  <2>1. Len(s) \in Nat /\ \A i \in 1..Len(s) : s[i] \in Glyph
    BY LenProperties, ElementOfSeq DEF Txt
  <2>2. PICK f \in [0..Len(s) -> V] : Stepwise(h, <<>>, s, f)
    BY <1>2, StepwiseExists DEF Txt
  <2>3. F(f, s)
    <3> HIDE DEF h
    <3>1. \A i \in 1..Len(s) : i - 1 \in 0..Len(s) /\ f[i - 1] \in V
      BY <2>1, <2>2
    <3>2. \A i \in 1..Len(s) :
             h[<<f[i - 1], s[i]>>] = IF s[i] \in Spaces THEN f[i - 1] ELSE Append(f[i - 1], s[i])
      BY <1>1, <2>1, <3>1
    <3>3. \A i \in 0..Len(s) : i # 0 => i \in 1..Len(s)
      BY <2>1
    <3> HIDE DEF V
    <3> QED
      BY <2>1, <2>2, <3>2, <3>3 DEF Stepwise
  <2>4. F(g, s)
    BY <2>3, Zenon
  <2>5. Solid(s) = g[Len(s)]
    BY DEF Solid
  <2>6. Follows(g, h, <<>>, V, s, Len(s))
    <3> HIDE DEF h
    <3>1. g[0] = <<>> /\ \A i \in 1..Len(s) :
              g[i] = IF s[i] \in Spaces THEN g[i - 1] ELSE Append(g[i - 1], s[i])
      <4> HIDE DEF g
      <4>1. \A i \in 0..Len(s) :
               g[i] = IF i = 0 THEN <<>>
                      ELSE IF s[i] \in Spaces THEN g[i - 1] ELSE Append(g[i - 1], s[i])
        BY <2>4, Zenon
      <4>2. 0 \in 0..Len(s) /\ \A i \in 1..Len(s) : i \in 0..Len(s) /\ i # 0
        BY <2>1
      <4> QED
        BY <4>1, <4>2, Zenon
    <3> HIDE DEF g
    <3> QED
      BY <1>1, <2>1, <3>1 DEF Follows
  <2> HIDE DEF g, h, V
  <2> QED
    BY <1>2, <2>5, <2>6, FoldIs DEF Txt
<1> HIDE DEF h
<1>4. /\ Fold(h, <<>>, <<>>) = <<>>
      /\ \A s \in Seq(Glyph), x \in Glyph :
            Fold(h, <<>>, Append(s, x)) = h[<<Fold(h, <<>>, s), x>>]
  <2> HIDE DEF V
  <2> QED
    BY <1>2, FoldSteps
<1>5. \A s \in Txt, x \in Glyph : Append(s, x) \in Txt
  BY AppendProperties DEF Txt
<1>6. <<>> \in Txt
  BY EmptySeq DEF Txt
<1>7. \A s \in Txt, x \in Glyph : Solid(Append(s, x)) = h[<<Solid(s), x>>]
  BY <1>3, <1>4, <1>5 DEF Txt
<1> QED
  BY <1>1, <1>3, <1>4, <1>6, <1>7

\* Appending is concatenation of one.
LEMMA CatAppend ==
    ASSUME NEW S, NEW s \in Seq(S), NEW t \in Seq(S), NEW x \in S
    PROVE  s \o Append(t, x) = Append(s \o t, x)
<1>1. Append(t, x) = t \o <<x>> /\ <<x>> \in Seq(S)
  BY AppendIsConcat
<1>2. Append(s \o t, x) = (s \o t) \o <<x>>
  BY ConcatProperties, AppendIsConcat
<1> QED
  BY <1>1, <1>2, ConcatAssociative

LEMMA SolidCat ==
    ASSUME NEW s \in Txt, NEW t \in Txt
    PROVE  Solid(s \o t) = Solid(s) \o Solid(t)
<1> DEFINE P == {u \in Txt : Solid(s \o u) = Solid(s) \o Solid(u)}
<1>1. <<>> \in P
  <2>1. <<>> \in Txt /\ s \o <<>> = s
    BY EmptySeq, ConcatEmptySeq DEF Txt
  <2>2. Solid(s) \o <<>> = Solid(s)
    BY SolidSteps, ConcatEmptySeq
  <2> QED
    BY <2>1, <2>2, SolidSteps
<1>2. ASSUME NEW u \in Seq(Glyph), NEW x \in Glyph, u \in P PROVE Append(u, x) \in P
  <2>1. Append(u, x) \in Txt /\ s \o u \in Txt /\ s \o Append(u, x) = Append(s \o u, x)
    BY AppendProperties, ConcatProperties, CatAppend DEF Txt
  <2>2. CASE x \in Spaces
    BY <1>2, <2>1, <2>2, SolidSteps DEF Txt
  <2>3. CASE x \notin Spaces
    <3>1. Solid(s \o Append(u, x)) = Append(Solid(s) \o Solid(u), x)
      BY <1>2, <2>1, <2>3, SolidSteps
    <3>2. Solid(Append(u, x)) = Append(Solid(u), x)
      BY <2>3, SolidSteps DEF Txt
    <3>3. Solid(s) \o Append(Solid(u), x) = Append(Solid(s) \o Solid(u), x)
      <4>1. Solid(s) \in Seq(Glyph \ Spaces) /\ Solid(u) \in Seq(Glyph \ Spaces)
        BY SolidSteps DEF Txt
      <4> QED
        BY <2>3, <4>1, CatAppend
    <3> QED
      BY <2>1, <3>1, <3>2, <3>3
  <2> QED
    BY <2>2, <2>3
<1>3. Seq(Glyph) \subseteq P
  <2> HIDE DEF P
  <2> QED
    BY <1>1, <1>2, Appending
<1> QED
  BY <1>3 DEF Txt

\* Spaces are not solid.
LEMMA SolidSpaces ==
    ASSUME NEW s \in Txt, \A i \in 1..Len(s) : s[i] \in Spaces
    PROVE  Solid(s) = <<>>
<1> DEFINE P == {u \in Txt : (\A i \in 1..Len(u) : u[i] \in Spaces) => Solid(u) = <<>>}
<1>1. <<>> \in P
  BY SolidSteps, EmptySeq DEF Txt
<1>2. ASSUME NEW u \in Seq(Glyph), NEW x \in Glyph, u \in P PROVE Append(u, x) \in P
  <2>1. PICK l \in Nat : l = Len(u)
    BY LenProperties
  <2>2. /\ Append(u, x) \in Txt /\ Len(Append(u, x)) = l + 1
        /\ Append(u, x)[l + 1] = x /\ \A i \in 1..l : Append(u, x)[i] = u[i]
    BY <2>1, AppendProperties DEF Txt
  <2>3. ASSUME \A i \in 1..(l + 1) : Append(u, x)[i] \in Spaces
        PROVE  Solid(Append(u, x)) = <<>>
    <3>1. x \in Spaces /\ \A i \in 1..l : u[i] \in Spaces
      BY <2>2, <2>3
    <3> QED
      BY <1>2, <2>1, <3>1, SolidSteps DEF Txt
  <2> QED
    BY <2>2, <2>3
<1>3. Seq(Glyph) \subseteq P
  <2> HIDE DEF P
  <2> QED
    BY <1>1, <1>2, Appending
<1> QED
  BY <1>3 DEF Txt

\* A sequence in two.
LEMMA CutSeq ==
    ASSUME NEW S, NEW s \in Seq(S), NEW n \in 0..Len(s)
    PROVE  /\ SubSeq(s, 1, n) \in Seq(S) /\ Len(SubSeq(s, 1, n)) = n
           /\ \A i \in 1..n : SubSeq(s, 1, n)[i] = s[i]
           /\ SubSeq(s, n + 1, Len(s)) \in Seq(S)
           /\ Len(SubSeq(s, n + 1, Len(s))) = Len(s) - n
           /\ \A i \in 1..(Len(s) - n) : SubSeq(s, n + 1, Len(s))[i] = s[n + i]
           /\ s = SubSeq(s, 1, n) \o SubSeq(s, n + 1, Len(s))
<1>1. PICK l \in Nat : l = Len(s) /\ s \in [1..l -> S] /\ n \in 0..l
  BY LenProperties 
<1>2. /\ SubSeq(s, 1, n) \in Seq(S) /\ Len(SubSeq(s, 1, n)) = n
      /\ \A i \in 1..n : SubSeq(s, 1, n)[i] = s[i]
  <2>1. \A i \in 1..n : s[i] \in S
    BY <1>1
  <2> QED
    BY <1>1, <2>1, SubSeqProperties 
<1>3. /\ SubSeq(s, n + 1, l) \in Seq(S) /\ Len(SubSeq(s, n + 1, l)) = l - n
      /\ \A i \in 1..(l - n) : SubSeq(s, n + 1, l)[i] = s[n + i]
  <2>1. PICK m \in Nat : m = n + 1
    BY <1>1
  <2>2. \A i \in m..l : s[i] \in S
    BY <1>1, <2>1
  <2>3. /\ SubSeq(s, m, l) \in Seq(S)
        /\ Len(SubSeq(s, m, l)) = IF m <= l THEN l - m + 1 ELSE 0
        /\ \A i \in 1..(l - m + 1) : SubSeq(s, m, l)[i] = s[m + i - 1]
    BY <1>1, <2>1, <2>2, SubSeqProperties
  <2>4. \A i \in 1..(l - n) : i \in 1..(l - m + 1) /\ m + i - 1 = n + i
    BY <1>1, <2>1
  <2>5. (IF m <= l THEN l - m + 1 ELSE 0) = l - n
    <3>1. l \in Nat /\ n \in Nat /\ n <= l
      BY <1>1
    <3> HIDE <1>1
    <3> QED
      BY <2>1, <3>1
  <2>6. \A i \in 1..(l - n) : SubSeq(s, m, l)[i] = s[n + i]
    BY <2>3, <2>4
  <2> QED
    BY <2>1, <2>3, <2>5, <2>6 
<1>4. s = SubSeq(s, 1, n) \o SubSeq(s, n + 1, l)
  <2> DEFINE a == SubSeq(s, 1, n)
             b == SubSeq(s, n + 1, l)
  <2>1. a \in Seq(S) /\ Len(a) = n /\ \A i \in 1..n : a[i] = s[i]
    BY <1>2 
  <2>2. b \in Seq(S) /\ Len(b) = l - n /\ \A i \in 1..(l - n) : b[i] = s[n + i]
    BY <1>3 
  <2> HIDE DEF a, b
  <2>3. /\ a \o b \in Seq(S) /\ Len(a \o b) = l
        /\ \A i \in 1..l : (a \o b)[i] = IF i <= n THEN a[i] ELSE b[i - n]
    <3>1. /\ a \o b \in Seq(S) /\ Len(a \o b) = Len(a) + Len(b)
          /\ \A i \in 1..(Len(a) + Len(b)) :
                (a \o b)[i] = IF i <= Len(a) THEN a[i] ELSE b[i - Len(a)]
      BY <2>1, <2>2, ConcatProperties
    <3> QED
      BY <1>1, <2>1, <2>2, <3>1
  <2>4. ASSUME NEW i \in 1..l PROVE (a \o b)[i] = s[i]
    <3>1. CASE i <= n
      BY <1>1, <2>1, <2>3, <3>1
    <3>2. CASE ~(i <= n)
      <4>1. i - n \in 1..(l - n) /\ n + (i - n) = i
        BY <1>1, <3>2
      <4> QED
        BY <2>2, <2>3, <3>2, <4>1
    <3> QED
      BY <3>1, <3>2
  <2>5. s = a \o b
    BY <1>1, <2>3, <2>4, SeqEqual 
  <2> QED
    BY <2>5 DEF a, b
<1> QED
  BY <1>1, <1>2, <1>3, <1>4


LEMMA CutText ==
    ASSUME NEW s \in Txt, NEW n \in 0..Len(s)
    PROVE  /\ SubSeq(s, 1, n) \in Txt /\ Len(SubSeq(s, 1, n)) = n
           /\ \A i \in 1..n : SubSeq(s, 1, n)[i] = s[i]
           /\ SubSeq(s, n + 1, Len(s)) \in Txt
           /\ Len(SubSeq(s, n + 1, Len(s))) = Len(s) - n
           /\ \A i \in 1..(Len(s) - n) : SubSeq(s, n + 1, Len(s))[i] = s[n + i]
           /\ s = SubSeq(s, 1, n) \o SubSeq(s, n + 1, Len(s))
<1> QED
  BY CutSeq DEF Txt

\* Two sequences put together can be had back.
LEMMA CutCat ==
    ASSUME NEW S, NEW s \in Seq(S), NEW t \in Seq(S)
    PROVE  /\ s \o t \in Seq(S) /\ Len(s \o t) = Len(s) + Len(t)
           /\ \A i \in 1..Len(s) : (s \o t)[i] = s[i]
           /\ \A i \in 1..Len(t) : (s \o t)[Len(s) + i] = t[i]
           /\ SubSeq(s \o t, 1, Len(s)) = s
           /\ SubSeq(s \o t, Len(s) + 1, Len(s \o t)) = t
<1> DEFINE u == s \o t
<1>1. PICK m \in Nat, n \in Nat : m = Len(s) /\ n = Len(t)
  BY LenProperties
<1>2. /\ u \in Seq(S) /\ Len(u) = m + n
      /\ \A i \in 1..(m + n) : u[i] = IF i <= m THEN s[i] ELSE t[i - m]
  BY <1>1, ConcatProperties
<1> HIDE DEF u
<1>3. ASSUME NEW i \in 1..m PROVE u[i] = s[i]
  BY <1>1, <1>2
<1>4. ASSUME NEW i \in 1..n PROVE u[m + i] = t[i]
  <2>1. m + i \in 1..(m + n) /\ ~(m + i <= m) /\ (m + i) - m = i
    BY <1>1
  <2> QED
    BY <1>2, <2>1
<1>5. m \in 0..Len(u) /\ Len(u) - m = n
  BY <1>1, <1>2
<1> DEFINE a == SubSeq(u, 1, m)
           b == SubSeq(u, m + 1, Len(u))
<1>6. /\ a \in Seq(S) /\ Len(a) = m /\ \A i \in 1..m : a[i] = u[i]
      /\ b \in Seq(S) /\ Len(b) = n /\ \A i \in 1..n : b[i] = u[m + i]
  BY <1>2, <1>5, CutSeq
<1> HIDE DEF a, b
<1>7. a = s /\ b = t
  <2>1. \A i \in 1..m : a[i] = s[i]
    BY <1>3, <1>6
  <2>2. \A i \in 1..n : b[i] = t[i]
    BY <1>4, <1>6
  <2> QED
    BY <1>1, <1>6, <2>1, <2>2, SeqEqual
<1> QED
  BY <1>1, <1>2, <1>3, <1>4, <1>7 DEF u, a, b

\* The first and the last of some positions.
LEMMA Extremes ==
    ASSUME NEW n \in Nat, NEW I \in SUBSET (1..n), I # {}
    PROVE  /\ Min(I) \in I /\ \A i \in I : Min(I) <= i
           /\ Max(I) \in I /\ \A i \in I : i <= Max(I)
<1>1. I \in SUBSET Nat /\ \A i \in I : i <= n
  OBVIOUS
<1>2. \E m \in I : \A i \in I : m <= i
  BY <1>1, Least
<1>3. \E m \in I : \A i \in I : i <= m
  BY <1>1, Greatest
<1>4. Min(I) \in I /\ \A i \in I : Min(I) <= i
  BY <1>2 DEF Min
<1>5. \E m \in I : \A i \in I : m >= i
  BY <1>1, <1>3
<1>6. Max(I) \in I /\ \A i \in I : Max(I) >= i
  BY <1>5, Zenon DEF Max
<1> QED
  BY <1>1, <1>4, <1>6

\* No space at either end.
Neat(s) == s \in Txt /\ s # <<>> /\ s[1] \notin Spaces /\ s[Len(s)] \notin Spaces

\* str.strip takes the spaces at the ends.
LEMMA TrimNeat ==
    ASSUME NEW s \in Txt
    PROVE  /\ Solid(trim(s)) = Solid(s)
           /\ IF \E i \in 1..Len(s) : s[i] \notin Spaces THEN Neat(trim(s)) ELSE trim(s) = <<>>
           /\ Neat(s) => trim(s) = s
           /\ trim(s) \in Txt /\ Len(trim(s)) <= Len(s)
<1> DEFINE I == {i \in 1..Len(s) : s[i] \notin Spaces}
<1>1. PICK l \in Nat : l = Len(s) /\ DOMAIN s = 1..l
  BY LenProperties DEF Txt
<1>2. trim(s) = IF I = {} THEN <<>> ELSE SubSeq(s, Min(I), Max(I))
  BY <1>1 DEF trim
<1>3. <<>> \in Txt /\ Len(<<>>) = 0
  BY EmptySeq DEF Txt
<1>4. CASE I = {}
  <2>1. \A i \in 1..Len(s) : s[i] \in Spaces
    BY <1>4
  <2>2. Solid(s) = <<>>
    BY <2>1, SolidSpaces
  <2>3. ~Neat(s)
    <3>1. s # <<>> => Len(s) # 0
      BY EmptySeq DEF Txt
    <3> QED
      BY <1>1, <2>1, <3>1 DEF Neat
  <2> QED
    BY <1>1, <1>2, <1>3, <1>4, <2>1, <2>2, <2>3, SolidSteps
<1>5. CASE I # {}
  <2>1. PICK a \in I, b \in I : /\ a = Min(I) /\ b = Max(I)
                                /\ \A i \in I : a <= i /\ i <= b
    <3>1. I \in SUBSET (1..l)
      BY <1>1
    <3> HIDE DEF I
    <3> QED
      BY <1>5, <3>1, Extremes
  <2>2. a \in 1..l /\ b \in 1..l /\ a <= b /\ s[a] \notin Spaces /\ s[b] \notin Spaces
    BY <1>1, <2>1
  <2>3. \A i \in 1..l : i < a \/ b < i => s[i] \in Spaces
    BY <1>1, <2>1, <2>2
  <2>4. trim(s) = SubSeq(s, a, b)
    BY <1>2, <1>5, <2>1
  <2> HIDE DEF I
  <2>5. PICK m \in Nat : m = a - 1 /\ m + 1 = a /\ m \in 0..l
    BY <2>2
  <2> DEFINE x == SubSeq(s, 1, m)
             y == SubSeq(s, m + 1, l)
  <2>6. /\ x \in Txt /\ Len(x) = m /\ y \in Txt /\ Len(y) = l - m /\ s = x \o y
        /\ (\A i \in 1..m : x[i] = s[i]) /\ (\A i \in 1..(l - m) : y[i] = s[m + i])
    <3>1. m \in 0..Len(s)
      BY <1>1, <2>5
    <3> QED
      BY <1>1, <3>1, CutText
  <2>7. PICK k \in Nat : k = b - a + 1 /\ k \in 0..(l - m) /\ m + k = b /\ k >= 1
    <3>1. b - a + 1 \in Nat
      BY <2>2
    <3> QED
      BY <2>2, <2>5, <3>1
  <2> HIDE DEF x, y
  <2> DEFINE z == SubSeq(y, 1, k)
             v == SubSeq(y, k + 1, Len(y))
  <2>8. /\ z \in Txt /\ Len(z) = k /\ v \in Txt /\ Len(v) = l - m - k /\ y = z \o v
        /\ (\A i \in 1..k : z[i] = y[i]) /\ (\A i \in 1..(l - m - k) : v[i] = y[k + i])
    <3>1. y \in Txt /\ k \in 0..Len(y) /\ Len(y) = l - m
      BY <2>6, <2>7
    <3> QED
      BY <3>1, CutText, ZenonT(60)
  <2> HIDE DEF z, v
  <2>9. Solid(s) = Solid(x) \o (Solid(z) \o Solid(v))
    <3>1. Solid(s) = Solid(x) \o Solid(y)
      BY <2>6, SolidCat
    <3>2. Solid(y) = Solid(z) \o Solid(v)
      BY <2>8, SolidCat
    <3> QED
      BY <3>1, <3>2
  <2>10. Solid(x) = <<>>
    <3>1. \A i \in 1..Len(x) : x[i] \in Spaces
      BY <2>2, <2>3, <2>5, <2>6
    <3> QED
      BY <2>6, <3>1, SolidSpaces
  <2>11. Solid(v) = <<>>
    <3>1. ASSUME NEW i \in 1..(l - m - k) PROVE v[i] \in Spaces
      <4>1. i \in Nat /\ i >= 1 /\ i <= l - m - k
        <5>1. l - m - k \in Int
          BY <1>1, <2>5, <2>7, LenProperties DEF Txt
        <5> QED
          BY <5>1
      <4>2. PICK j \in Nat : j = k + i
        BY <2>7, <4>1
      <4>3. l \in Nat /\ m \in Nat /\ k \in Nat /\ m + k = b
        BY <1>1, <2>5, <2>7, LenProperties DEF Txt
      <4>4. j \in 1..(l - m) /\ m + j \in 1..l /\ b < m + j
        BY <4>1, <4>2, <4>3
      <4>5. v[i] = y[j] /\ y[j] = s[m + j]
        BY <2>6, <2>8, <4>2, <4>4
      <4> QED
        BY <2>3, <4>4, <4>5
    <3>2. Len(v) = l - m - k
      BY <2>8
    <3> QED
      BY <2>8, <3>1, <3>2, SolidSpaces
  <2>12. Solid(s) = Solid(z)
    <3>1. Solid(z) \in Seq(Glyph \ Spaces)
      BY <2>8, SolidSteps
    <3> QED
      BY <2>9, <2>10, <2>11, <3>1, ConcatEmptySeq
  <2>13. SubSeq(s, a, b) \in Txt /\ Len(SubSeq(s, a, b)) = k
         /\ \A i \in 1..k : SubSeq(s, a, b)[i] = s[m + i]
    <3>1. \A i \in a..b : s[i] \in Glyph
      BY <1>1, <2>2, ElementOfSeq DEF Txt
    <3>2. /\ SubSeq(s, a, b) \in Seq(Glyph)
          /\ Len(SubSeq(s, a, b)) = IF a <= b THEN b - a + 1 ELSE 0
          /\ \A i \in 1..(b - a + 1) : SubSeq(s, a, b)[i] = s[a + i - 1]
      BY <2>2, <3>1, SubSeqProperties
    <3>3. \A i \in 1..k : i \in 1..(b - a + 1) /\ a + i - 1 = m + i
      BY <2>2, <2>5, <2>7
    <3> QED
      BY <2>2, <2>7, <3>2, <3>3 DEF Txt
  <2>14. SubSeq(s, a, b) = z
    <3>1. ASSUME NEW i \in 1..k PROVE z[i] = s[m + i]
      <4>1. z[i] = y[i] /\ i \in 1..(l - m)
        BY <2>7, <2>8
      <4> QED
        BY <2>6, <4>1
    <3> QED
      BY <2>8, <2>13, <3>1, SeqEqual DEF Txt
  <2>15. /\ z[1] = s[a] /\ z[Len(z)] = s[b]
    <3>1. 1 \in 1..k /\ k \in 1..k /\ m + 1 = a /\ m + k = b
      BY <2>5, <2>7
    <3> QED
      BY <2>8, <2>13, <2>14, <3>1
  <2>16. Neat(z)
    <3>1. z # <<>>
      BY <2>7, <2>8, EmptySeq
    <3> QED
      BY <2>2, <2>8, <2>15, <3>1 DEF Neat
  <2>17. Neat(s) => z = s
    <3> SUFFICES ASSUME Neat(s) PROVE z = s
      OBVIOUS
    <3>1. 1 \in I /\ l \in I
      BY <1>1, <2>2 DEF Neat, I
    <3>2. a = 1 /\ b = l
      BY <1>1, <2>1, <2>2, <3>1
    <3> QED
      BY <1>1, <2>14, <3>2, SubSeqFull DEF Txt
  <2>18. (\E i \in 1..Len(s) : s[i] \notin Spaces) /\ Len(z) <= Len(s)
    BY <1>1, <2>2, <2>5, <2>7, <2>8
  <2> QED
    BY <2>4, <2>8, <2>12, <2>14, <2>16, <2>17, <2>18
<1> QED
  BY <1>4, <1>5

\* Two neat texts and a blank between them.
LEMMA JoinNeat ==
    ASSUME NEW s, NEW t, Neat(t), s = <<>> \/ Neat(s)
    PROVE  /\ Neat(join(s, t))
           /\ Solid(join(s, t)) = Solid(s) \o Solid(t)
           /\ Len(join(s, t)) = (IF s = <<>> THEN 0 ELSE Len(s) + 1) + Len(t)
           /\ Last(join(s, t)) = Last(t)
<1>1. t \in Seq(Glyph) /\ t # <<>> /\ Solid(t) \in Seq(Glyph \ Spaces)
  BY SolidSteps DEF Neat, Txt
<1>2. PICK n \in Nat : n = Len(t) /\ n >= 1
  BY <1>1, LenProperties, EmptySeq
<1>3. CASE s = <<>>
  <2>1. join(s, t) = t
    BY <1>3 DEF join
  <2>2. Solid(s) \o Solid(t) = Solid(t)
    BY <1>1, <1>3, SolidSteps, ConcatEmptySeq
  <2> QED
    BY <1>2, <1>3, <2>1, <2>2
<1>4. CASE s # <<>>
  <2> DEFINE b == s \o <<"blank">>
             j == b \o t
  <2>1. s \in Seq(Glyph) /\ Neat(s) /\ Solid(s) \in Seq(Glyph \ Spaces)
    BY <1>4, SolidSteps DEF Neat, Txt
  <2>2. PICK m \in Nat : m = Len(s) /\ m >= 1
    BY <1>4, <2>1, LenProperties, EmptySeq
  <2>3. b = Append(s, "blank") /\ "blank" \in Glyph /\ "blank" \in Spaces
    BY <2>1, AppendIsConcat DEF Glyph, Spaces
  <2>4. b \in Seq(Glyph) /\ Len(b) = m + 1 /\ Solid(b) = Solid(s) /\ b[1] = s[1]
    <3> HIDE DEF b
    <3>1. 1 \in 1..Len(s)
      BY <2>2
    <3> QED
      BY <2>1, <2>2, <2>3, <3>1, AppendProperties, SolidSteps DEF Txt
  <2> HIDE DEF b
  <2>5. /\ j \in Seq(Glyph) /\ Len(j) = m + 1 + n
        /\ \A i \in 1..(m + 1 + n) : j[i] = IF i <= m + 1 THEN b[i] ELSE t[i - (m + 1)]
    <3>1. /\ j \in Seq(Glyph) /\ Len(j) = Len(b) + Len(t)
          /\ \A i \in 1..(Len(b) + Len(t)) : j[i] = IF i <= Len(b) THEN b[i] ELSE t[i - Len(b)]
      BY <1>1, <2>4, ConcatProperties
    <3> QED
      BY <1>2, <2>4, <3>1
  <2>6. Solid(j) = Solid(s) \o Solid(t)
    BY <1>1, <2>4, SolidCat DEF Txt
  <2> HIDE DEF j
  <2>7. j[1] = s[1] /\ j[Len(j)] = t[Len(t)] /\ j # <<>>
    <3>1. /\ 1 \in 1..(m + 1 + n) /\ 1 <= m + 1 /\ m + 1 + n \in 1..(m + 1 + n)
          /\ ~(m + 1 + n <= m + 1) /\ m + 1 + n - (m + 1) = n /\ m + 1 + n # 0
      BY <1>2, <2>2
    <3> QED
      BY <1>2, <2>4, <2>5, <3>1, EmptySeq
  <2>8. Neat(j)
    BY <2>1, <2>5, <2>7 DEF Neat, Txt
  <2>9. join(s, t) = j
    <3>1. join(s, t) = trim(j)
      BY <1>4 DEF join, j, b
    <3>2. trim(j) = j
      BY <2>8, TrimNeat DEF Neat
    <3> QED
      BY <3>1, <3>2
  <2> QED
    BY <1>2, <1>4, <2>2, <2>5, <2>6, <2>7, <2>8, <2>9 DEF Last
<1> QED
  BY <1>3, <1>4


-----------------------------------------------------------------------------
(* Segments put end to end.                                                *)

LEMMA FlatSteps ==
    ASSUME NEW S
    PROVE  /\ FlattenSeq(<<>>) = <<>>
           /\ \A ss \in Seq(Seq(S)) : FlattenSeq(ss) \in Seq(S)
           /\ \A ss \in Seq(Seq(S)), s \in Seq(S) :
                 FlattenSeq(Append(ss, s)) = FlattenSeq(ss) \o s
<1> DEFINE T == Seq(S)
           h == [p \in T \X T |-> p[1] \o p[2]]
           F(f, ss) == f = [i \in 1..Len(ss) |-> IF i = 1 THEN ss[i] ELSE f[i - 1] \o ss[i]]
<1>1. \A v \in T, s \in T : h[<<v, s>>] = v \o s /\ v \o s \in T
  BY ConcatProperties
<1>2. <<>> \in T
  BY EmptySeq
<1>3. \A s \in T : <<>> \o s = s
  BY ConcatEmptySeq
<1> HIDE DEF T, h
<1>4. Closed(h, <<>>, T, T)
  BY <1>1, <1>2 DEF Closed
<1>5. FlattenSeq(<<>>) = <<>>
  <2>1. Len(<<>>) = 0
    BY EmptySeq
  <2> QED
    BY <2>1 DEF FlattenSeq
<1>6. ASSUME NEW ss \in Seq(T) PROVE FlattenSeq(ss) \in T /\ FlattenSeq(ss) = Fold(h, <<>>, ss)
  <2>1. PICK n \in Nat : n = Len(ss) /\ \A i \in 1..n : ss[i] \in T
    BY LenProperties, ElementOfSeq
  <2>2. CASE n = 0
    <3>1. ss = <<>>
      BY <2>1, <2>2, EmptySeq
    <3> QED
      BY <1>2, <1>4, <1>5, <3>1, FoldSteps
  <2>3. CASE n # 0
    <3> DEFINE g == CHOOSE f : F(f, ss)
               k == [i \in 0..n |-> IF i = 0 THEN <<>> ELSE g[i]]
    <3>1. PICK f \in [0..Len(ss) -> T] : Stepwise(h, <<>>, ss, f)
      BY <1>4, StepwiseExists
    <3>2. /\ f \in [0..n -> T] /\ f[0] = <<>>
          /\ \A i \in 1..n : f[i] = h[<<f[i - 1], ss[i]>>]
      <4>1. f = [i \in 0..n |-> IF i = 0 THEN <<>> ELSE h[<<f[i - 1], ss[i]>>]]
        BY <2>1, <3>1 DEF Stepwise
      <4>2. 0 \in 0..n /\ \A i \in 1..n : i \in 0..n /\ i # 0
        BY <2>1
      <4>3. \A i \in 0..n : f[i] = IF i = 0 THEN <<>> ELSE h[<<f[i - 1], ss[i]>>]
        BY <4>1, Zenon
      <4>4. f[0] = <<>> /\ \A i \in 1..n : f[i] = h[<<f[i - 1], ss[i]>>]
        BY <4>2, <4>3, Zenon
      <4> QED
        BY <2>1, <3>1, <4>4
    <3>3. \A i \in 1..n : f[i - 1] \in T /\ f[i] = f[i - 1] \o ss[i]
      <4>1. \A i \in 1..n : i - 1 \in 0..n
        BY <2>1
      <4> QED
        BY <1>1, <2>1, <3>2, <4>1
    <3> DEFINE e == [i \in 1..n |-> f[i]]
    <3>4. F(e, ss)
      <4>1. f[1] = ss[1]
        <5>1. 1 \in 1..n /\ 1 - 1 = 0
          BY <2>1, <2>3
        <5>2. f[1] = <<>> \o ss[1]
          BY <3>2, <3>3, <5>1
        <5>3. ss[1] \in T
          BY <2>1, <5>1
        <5> QED
          BY <1>3, <5>2, <5>3
      <4>2. ASSUME NEW i \in 1..n, i # 1 PROVE e[i] = e[i - 1] \o ss[i]
        <5>1. i - 1 \in 1..n
          BY <2>1, <4>2
        <5> QED
          BY <3>3, <5>1
      <4>3. e[1] = f[1]
        BY <2>1, <2>3
      <4> HIDE DEF e
      <4>4. \A i \in 1..n : e[i] = IF i = 1 THEN ss[i] ELSE e[i - 1] \o ss[i]
        BY <4>1, <4>2, <4>3
      <4>5. e = [i \in 1..n |-> e[i]]
        BY DEF e
      <4> QED
        BY <2>1, <4>4, <4>5
    <3>5. F(g, ss)
      BY <3>4, Zenon
    <3>6. FlattenSeq(ss) = g[n]
      BY <2>1, <2>3 DEF FlattenSeq
    <3> HIDE DEF g
    <3>7. \A i \in 1..n : g[i] = IF i = 1 THEN ss[i] ELSE g[i - 1] \o ss[i]
      <4>1. g = [i \in 1..n |-> IF i = 1 THEN ss[i] ELSE g[i - 1] \o ss[i]]
        BY <2>1, <3>5
      <4> QED
        BY <4>1, Zenon
    <3>8. k[0] = <<>> /\ \A i \in 1..n : k[i] = g[i]
      BY <2>1
    <3> HIDE DEF k
    <3>9. ASSUME NEW i \in 1..n, k[i - 1] \in T PROVE k[i] = h[<<k[i - 1], ss[i]>>]
      <4>1. CASE i = 1
        <5>1. k[1] = ss[1] /\ k[1 - 1] = <<>> /\ 1 \in 1..n
          BY <2>1, <2>3, <3>7, <3>8
        <5> QED
          BY <1>1, <1>2, <1>3, <2>1, <4>1, <5>1, SMTT(30)
      <4>2. CASE i # 1
        <5>1. i - 1 \in 1..n
          BY <2>1, <4>2
        <5> QED
          <6>1. k[i] = g[i - 1] \o ss[i] /\ k[i - 1] = g[i - 1]
            BY <3>7, <3>8, <4>2, <5>1
          <6>2. k[i - 1] \in T /\ ss[i] \in T
            BY <2>1, <3>9
          <6> QED
            BY <1>1, <6>1, <6>2
      <4> QED
        BY <4>1, <4>2
    <3>10. Follows(k, h, <<>>, T, ss, Len(ss))
      BY <2>1, <3>8, <3>9 DEF Follows
    <3>11. k[Len(ss)] \in T /\ k[Len(ss)] = Fold(h, <<>>, ss)
      BY <1>4, <3>10, FoldIs
    <3>12. k[n] = g[n]
      BY <2>1, <2>3, <3>8
    <3> QED
      BY <2>1, <3>6, <3>11, <3>12
  <2> QED
    BY <2>2, <2>3
<1>7. /\ \A ss \in Seq(T), s \in T : Fold(h, <<>>, Append(ss, s)) = h[<<Fold(h, <<>>, ss), s>>]
  BY <1>4, FoldSteps
<1>8. \A ss \in Seq(T), s \in T : FlattenSeq(Append(ss, s)) = FlattenSeq(ss) \o s
  <2> SUFFICES ASSUME NEW ss \in Seq(T), NEW s \in T
               PROVE  FlattenSeq(Append(ss, s)) = FlattenSeq(ss) \o s
    OBVIOUS
  <2>1. Append(ss, s) \in Seq(T)
    BY AppendProperties
  <2>2. FlattenSeq(Append(ss, s)) = h[<<Fold(h, <<>>, ss), s>>]
    BY <1>6, <1>7, <2>1
  <2> QED
    BY <1>1, <1>6, <2>2
<1> QED
  BY <1>5, <1>6, <1>8 DEF T

LEMMA CatAssoc ==
    ASSUME NEW S
    PROVE  \A a, b, c \in Seq(S) : (a \o b) \o c = a \o (b \o c)
BY ConcatAssociative

LEMMA FlatCat ==
    ASSUME NEW S, NEW ss \in Seq(Seq(S)), NEW ts \in Seq(Seq(S))
    PROVE  FlattenSeq(ss \o ts) = FlattenSeq(ss) \o FlattenSeq(ts)
<1> DEFINE T == Seq(S)
           P == {us \in Seq(T) : FlattenSeq(ss \o us) = FlattenSeq(ss) \o FlattenSeq(us)}
<1>1. <<>> \in P
  <2>1. <<>> \in Seq(T) /\ ss \o <<>> = ss
    BY EmptySeq, ConcatEmptySeq
  <2>2. FlattenSeq(<<>>) = <<>> /\ FlattenSeq(ss) \o <<>> = FlattenSeq(ss)
    BY FlatSteps, ConcatEmptySeq
  <2> QED
    BY <2>1, <2>2
<1>2. ASSUME NEW us \in Seq(T), NEW u \in T, us \in P PROVE Append(us, u) \in P
  <2>1. Append(us, u) \in Seq(T) /\ ss \o us \in Seq(T) /\ ss \o Append(us, u) = Append(ss \o us, u)
    BY AppendProperties, ConcatProperties, CatAppend, SMTT(30)
  <2>2. FlattenSeq(ss) \in T /\ FlattenSeq(us) \in T
    BY FlatSteps
  <2>3. FlattenSeq(Append(ss \o us, u)) = FlattenSeq(ss \o us) \o u
    BY <2>1, FlatSteps
  <2>4. FlattenSeq(Append(us, u)) = FlattenSeq(us) \o u
    BY FlatSteps
  <2>5. (FlattenSeq(ss) \o FlattenSeq(us)) \o u = FlattenSeq(ss) \o (FlattenSeq(us) \o u)
    <3>1. FlattenSeq(ss) \in Seq(S) /\ FlattenSeq(us) \in Seq(S) /\ u \in Seq(S)
      BY <2>2
    <3>2. \A a, b, c \in Seq(S) : (a \o b) \o c = a \o (b \o c)
      BY CatAssoc, SMTT(30)
    <3> QED
      BY <3>1, <3>2
  <2> QED
    BY <1>2, <2>1, <2>3, <2>4, <2>5
<1>3. Seq(T) \subseteq P
  <2> HIDE DEF P, T
  <2> QED
    BY <1>1, <1>2, Appending
<1> QED
  BY <1>3

-----------------------------------------------------------------------------
(* Sequences whose elements are replaced one by one.                       *)

Each(c, s) == [i \in DOMAIN s |-> c[s[i]]]
Replaces(c, A, B) == c \in [A -> B]

LEMMA EachSteps ==
    ASSUME NEW A, NEW B, NEW c, Replaces(c, A, B), NEW s \in Seq(A)
    PROVE  /\ Each(c, s) \in Seq(B) /\ Len(Each(c, s)) = Len(s)
           /\ \A i \in 1..Len(s) : Each(c, s)[i] = c[s[i]]
<1>1. PICK n \in Nat : n = Len(s) /\ s \in [1..n -> A] /\ DOMAIN s = 1..n
  BY LenProperties
<1>2. Each(c, s) \in [1..n -> B] /\ \A i \in 1..n : Each(c, s)[i] = c[s[i]]
  BY <1>1 DEF Each, Replaces
<1>3. Each(c, s) \in Seq(B)
  BY <1>1, <1>2, SeqDef
<1>4. Len(Each(c, s)) = n
  BY <1>1, <1>2, <1>3, LenProperties
<1> QED
  BY <1>1, <1>2, <1>3, <1>4

LEMMA EachEmpty ==
    ASSUME NEW c
    PROVE  Each(c, <<>>) = <<>>
<1>1. <<>> \in Seq({}) /\ DOMAIN <<>> = {}
  OBVIOUS
<1>2. Each(c, <<>>) = [i \in {} |-> c[<<>>[i]]]
  BY <1>1 DEF Each
<1> QED
  BY <1>2

LEMMA EachAppend ==
    ASSUME NEW A, NEW B, NEW c, Replaces(c, A, B), NEW s \in Seq(A), NEW x \in A
    PROVE  Each(c, Append(s, x)) = Append(Each(c, s), c[x])
<1>1. PICK n \in Nat : n = Len(s)
  BY LenProperties
<1>2. /\ Append(s, x) \in Seq(A) /\ Len(Append(s, x)) = n + 1
      /\ Append(s, x)[n + 1] = x /\ \A i \in 1..n : Append(s, x)[i] = s[i]
  BY <1>1, AppendProperties
<1>3. PICK u, v : u = Each(c, Append(s, x)) /\ v = Each(c, s)
  OBVIOUS
<1>4. /\ u \in Seq(B) /\ Len(u) = n + 1 /\ \A i \in 1..(n + 1) : u[i] = c[Append(s, x)[i]]
      /\ v \in Seq(B) /\ Len(v) = n /\ \A i \in 1..n : v[i] = c[s[i]]
  <2>1. Append(s, x) \in Seq(A)
    BY <1>2
  <2>2. /\ Each(c, Append(s, x)) \in Seq(B) /\ Len(Each(c, Append(s, x))) = Len(Append(s, x))
        /\ \A i \in 1..Len(Append(s, x)) : Each(c, Append(s, x))[i] = c[Append(s, x)[i]]
    <3>1. PICK t \in Seq(A) : t = Append(s, x)
      BY <2>1
    <3>2. /\ Each(c, t) \in Seq(B) /\ Len(Each(c, t)) = Len(t)
          /\ \A i \in 1..Len(t) : Each(c, t)[i] = c[t[i]]
      BY EachSteps
    <3> QED
      BY <3>1, <3>2
  <2>3. /\ Each(c, s) \in Seq(B) /\ Len(Each(c, s)) = Len(s)
        /\ \A i \in 1..Len(s) : Each(c, s)[i] = c[s[i]]
    BY EachSteps
  <2> QED
    BY <1>1, <1>2, <1>3, <2>2, <2>3
<1>5. c[x] \in B
  BY DEF Replaces
<1>6. PICK w : w = Append(v, c[x])
  OBVIOUS
<1>7. /\ w \in Seq(B) /\ Len(w) = n + 1 /\ w[n + 1] = c[x] /\ \A i \in 1..n : w[i] = v[i]
  BY <1>4, <1>5, <1>6, AppendProperties
<1>8. ASSUME NEW i \in 1..(n + 1) PROVE u[i] = w[i]
  <2>1. CASE i = n + 1
    BY <1>1, <1>2, <1>4, <1>7, <2>1
  <2>2. CASE i # n + 1
    <3>1. i \in 1..n
      BY <1>1, <2>2
    <3> QED
      BY <1>2, <1>4, <1>7, <3>1
  <2> QED
    BY <2>1, <2>2
<1>9. u = w
  BY <1>4, <1>7, <1>8, SeqEqual
<1> QED
  BY <1>3, <1>6, <1>9

LEMMA EachCat ==
    ASSUME NEW A, NEW B, NEW c, Replaces(c, A, B), NEW s \in Seq(A), NEW t \in Seq(A)
    PROVE  Each(c, s \o t) = Each(c, s) \o Each(c, t)
<1> DEFINE P == {u \in Seq(A) : Each(c, s \o u) = Each(c, s) \o Each(c, u)}
<1>1. <<>> \in P
  <2>1. <<>> \in Seq(A) /\ s \o <<>> = s
    BY EmptySeq, ConcatEmptySeq
  <2>2. Each(c, <<>>) = <<>> /\ Each(c, s) \o <<>> = Each(c, s)
    <3>1. Each(c, s) \in Seq(B)
      BY EachSteps
    <3>2. Each(c, <<>>) = <<>>
      BY EachEmpty
    <3> QED
      BY <3>1, <3>2, ConcatEmptySeq
  <2> QED
    BY <2>1, <2>2
<1>2. ASSUME NEW u \in Seq(A), NEW x \in A, u \in P PROVE Append(u, x) \in P
  <2>1. Append(u, x) \in Seq(A) /\ s \o u \in Seq(A) /\ s \o Append(u, x) = Append(s \o u, x)
    BY AppendProperties, ConcatProperties, CatAppend
  <2>2. Each(c, Append(s \o u, x)) = Append(Each(c, s \o u), c[x])
    <3>1. PICK v \in Seq(A) : v = s \o u
      BY <2>1
    <3>2. Each(c, Append(v, x)) = Append(Each(c, v), c[x])
      BY EachAppend
    <3> QED
      BY <3>1, <3>2
  <2>3. Each(c, Append(u, x)) = Append(Each(c, u), c[x])
    BY EachAppend
  <2>4. Each(c, s) \in Seq(B) /\ Each(c, u) \in Seq(B) /\ c[x] \in B
    <3>1. c[x] \in B
      BY DEF Replaces
    <3> QED
      BY <3>1, EachSteps
  <2>5. Each(c, s) \o Append(Each(c, u), c[x]) = Append(Each(c, s) \o Each(c, u), c[x])
    BY <2>4, CatAppend
  <2> QED
    BY <1>2, <2>1, <2>2, <2>3, <2>5
<1>3. Seq(A) \subseteq P
  <2> HIDE DEF P
  <2> QED
    BY <1>1, <1>2, Appending
<1> QED
  BY <1>3

LEMMA EachFlat ==
    ASSUME NEW A, NEW B, NEW c, Replaces(c, A, B), NEW ss \in Seq(Seq(A)),
           NEW C, C = [s \in Seq(A) |-> Each(c, s)]
    PROVE  FlattenSeq(Each(C, ss)) = Each(c, FlattenSeq(ss))
<1> DEFINE P == {us \in Seq(Seq(A)) : FlattenSeq(Each(C, us)) = Each(c, FlattenSeq(us))}
<1>1. Replaces(C, Seq(A), Seq(B)) /\ \A s \in Seq(A) : C[s] = Each(c, s) /\ C[s] \in Seq(B)
  <2>1. \A s \in Seq(A) : Each(c, s) \in Seq(B)
    BY EachSteps
  <2> QED
    BY <2>1 DEF Replaces
<1>2. <<>> \in P
  <2>1. Each(C, <<>>) = <<>> /\ Each(c, <<>>) = <<>> /\ <<>> \in Seq(Seq(A))
    BY EachEmpty, EmptySeq
  <2>2. FlattenSeq(<<>>) = <<>>
    BY FlatSteps
  <2> QED
    BY <2>1, <2>2
<1>3. ASSUME NEW us \in Seq(Seq(A)), NEW u \in Seq(A), us \in P PROVE Append(us, u) \in P
  <2>1. Append(us, u) \in Seq(Seq(A)) /\ FlattenSeq(us) \in Seq(A)
    BY AppendProperties, FlatSteps
  <2>2. FlattenSeq(Append(us, u)) = FlattenSeq(us) \o u
    BY FlatSteps
  <2>3. Each(C, Append(us, u)) = Append(Each(C, us), C[u]) /\ Each(C, us) \in Seq(Seq(B))
        /\ C[u] \in Seq(B)
    <3>1. us \in Seq(Seq(A)) /\ u \in Seq(A) /\ Replaces(C, Seq(A), Seq(B))
      BY <1>1
    <3>2. PICK T, U : T = Seq(A) /\ U = Seq(B)
      OBVIOUS
    <3>3. us \in Seq(T) /\ u \in T /\ Replaces(C, T, U)
      BY <3>1, <3>2
    <3>4. Each(C, Append(us, u)) = Append(Each(C, us), C[u])
      <4>1. \A k : Replaces(k, T, U) => Each(k, Append(us, u)) = Append(Each(k, us), k[u])
        BY <3>3, EachAppend
      <4> QED
        BY <3>3, <4>1
    <3>5. Each(C, us) \in Seq(U)
      BY <3>3, EachSteps
    <3> QED
      BY <1>1, <3>2, <3>4, <3>5
  <2>4. FlattenSeq(Append(Each(C, us), C[u])) = FlattenSeq(Each(C, us)) \o C[u]
    BY <2>3, FlatSteps
  <2>5. Each(c, FlattenSeq(us) \o u) = Each(c, FlattenSeq(us)) \o Each(c, u)
    BY <2>1, EachCat
  <2> QED
    BY <1>1, <1>3, <2>1, <2>2, <2>3, <2>4, <2>5
<1>4. Seq(Seq(A)) \subseteq P
  <2> HIDE DEF P
  <2> QED
    BY <1>2, <1>3, Appending
<1> QED
  BY <1>4

\* Characters that are replaced by characters, and spaces by spaces.
Spaced(c) == c \in [Glyph -> Glyph] /\ \A x \in Glyph : c[x] \in Spaces <=> x \in Spaces

LEMMA EachSolid ==
    ASSUME NEW c, Spaced(c), NEW s \in Txt
    PROVE  /\ Each(c, s) \in Txt /\ Len(Each(c, s)) = Len(s)
           /\ Solid(Each(c, s)) = Each(c, Solid(s))
           /\ Neat(s) => Neat(Each(c, s)) /\ Last(Each(c, s)) = c[Last(s)]
<1> DEFINE P == {u \in Txt : Solid(Each(c, u)) = Each(c, Solid(u))}
<1>1. Replaces(c, Glyph, Glyph) /\ \A x \in Glyph : c[x] \in Glyph
  BY DEF Spaced, Replaces
<1>2. <<>> \in P
  <2>1. Each(c, <<>>) = <<>> /\ Solid(<<>>) = <<>> /\ <<>> \in Txt
    BY EachEmpty, SolidSteps, EmptySeq DEF Txt
  <2> QED
    BY <2>1
<1>3. ASSUME NEW u \in Seq(Glyph), NEW x \in Glyph, u \in P PROVE Append(u, x) \in P
  <2>1. u \in Txt /\ Append(u, x) \in Txt /\ Each(c, u) \in Txt /\ c[x] \in Glyph
    BY <1>1, AppendProperties, EachSteps DEF Txt
  <2>2. Each(c, Append(u, x)) = Append(Each(c, u), c[x])
    BY <1>1, EachAppend
  <2>3. Solid(Append(Each(c, u), c[x])) =
            IF c[x] \in Spaces THEN Solid(Each(c, u)) ELSE Append(Solid(Each(c, u)), c[x])
    BY <2>1, SolidSteps
  <2>4. Solid(Append(u, x)) = IF x \in Spaces THEN Solid(u) ELSE Append(Solid(u), x)
    BY <2>1, SolidSteps
  <2>5. Solid(u) \in Seq(Glyph)
    <3>1. Solid(u) \in Seq(Glyph \ Spaces)
      BY <2>1, SolidSteps
    <3>2. PICK n \in Nat : Solid(u) \in [1..n -> Glyph \ Spaces]
      BY <3>1, LenProperties
    <3>3. Solid(u) \in [1..n -> Glyph]
      BY <3>2
    <3> QED
      BY <3>3, SeqDef
  <2>6. Each(c, Append(Solid(u), x)) = Append(Each(c, Solid(u)), c[x])
    BY <1>1, <2>5, EachAppend
  <2>7. c[x] \in Spaces <=> x \in Spaces
    BY DEF Spaced
  <2> QED
    BY <1>3, <2>1, <2>2, <2>3, <2>4, <2>6, <2>7
<1>4. Seq(Glyph) \subseteq P
  <2> HIDE DEF P
  <2> QED
    BY <1>2, <1>3, Appending
<1>5. PICK u \in Txt, n \in Nat : /\ u = Each(c, s) /\ n = Len(s) /\ Len(u) = n
                                 /\ \A i \in 1..n : u[i] = c[s[i]] /\ s[i] \in Glyph
  <2>1. s \in Seq(Glyph) /\ Len(s) \in Nat /\ \A i \in 1..Len(s) : s[i] \in Glyph
    BY LenProperties, ElementOfSeq DEF Txt
  <2>2. /\ Each(c, s) \in Seq(Glyph) /\ Len(Each(c, s)) = Len(s)
        /\ \A i \in 1..Len(s) : Each(c, s)[i] = c[s[i]]
    BY <1>1, <2>1, EachSteps
  <2> QED
    BY <2>1, <2>2 DEF Txt
<1>6. ASSUME Neat(s) PROVE Neat(u) /\ Last(u) = c[Last(s)]
  <2>1. s # <<>> /\ s[1] \notin Spaces /\ s[n] \notin Spaces
    BY <1>5, <1>6 DEF Neat
  <2>2. n # 0
    BY <1>5, <2>1, EmptySeq DEF Txt
  <2>3. 1 \in 1..n /\ n \in 1..n
    BY <1>5, <2>2
  <2>4. u[1] \notin Spaces /\ u[n] \notin Spaces /\ u # <<>>
    <3>1. u # <<>>
      BY <1>5, <2>2, EmptySeq
    <3> QED
      BY <1>5, <2>1, <2>3, <3>1 DEF Spaced
  <2> QED
    BY <1>5, <2>3, <2>4 DEF Neat, Last
<1> QED
  BY <1>4, <1>5, <1>6 DEF Txt

-----------------------------------------------------------------------------
(* Joining segments.                                                       *)

\* What is said of segments, and the characters they have, each with a space after it.
Content(ss) == Solid(FlattenSeq(ss))
Width(ss) == Len(FlattenSeq(ss)) + Len(ss)

LEMMA ContentSteps ==
    /\ Content(<<>>) = <<>>
    /\ \A ss \in Seq(Txt) : Content(ss) \in Seq(Glyph \ Spaces)
    /\ \A ss \in Seq(Txt), s \in Txt : Content(Append(ss, s)) = Content(ss) \o Solid(s)
<1>1. FlattenSeq(<<>>) = <<>>
  BY FlatSteps
<1>2. \A ss \in Seq(Txt) : FlattenSeq(ss) \in Txt
  BY FlatSteps DEF Txt
<1>3. \A ss \in Seq(Txt), s \in Txt : FlattenSeq(Append(ss, s)) = FlattenSeq(ss) \o s
  BY FlatSteps DEF Txt
<1> QED
  BY <1>1, <1>2, <1>3, SolidSteps, SolidCat DEF Content

LEMMA WidthSteps ==
    /\ Width(<<>>) = 0
    /\ \A ss \in Seq(Txt) : Width(ss) \in Nat
    /\ \A ss \in Seq(Txt), s \in Txt : Width(Append(ss, s)) = Width(ss) + Len(s) + 1
<1>1. FlattenSeq(<<>>) = <<>> /\ Len(<<>>) = 0
  BY FlatSteps, EmptySeq
<1>2. \A ss \in Seq(Txt) : FlattenSeq(ss) \in Txt
  BY FlatSteps DEF Txt
<1>3. \A s \in Txt : Len(s) \in Nat
  BY LenProperties DEF Txt
<1>4. \A ss \in Seq(Txt) : Len(ss) \in Nat
  BY LenProperties
<1>5. ASSUME NEW ss \in Seq(Txt), NEW s \in Txt PROVE Width(Append(ss, s)) = Width(ss) + Len(s) + 1
  <2>1. FlattenSeq(Append(ss, s)) = FlattenSeq(ss) \o s
    BY FlatSteps DEF Txt
  <2>2. Len(FlattenSeq(ss) \o s) = Len(FlattenSeq(ss)) + Len(s)
    BY <1>2, ConcatProperties DEF Txt
  <2>3. Len(Append(ss, s)) = Len(ss) + 1
    BY AppendProperties
  <2>4. Len(FlattenSeq(ss)) \in Nat /\ Len(s) \in Nat /\ Len(ss) \in Nat
    BY <1>2, <1>3, <1>4
  <2> QED
    BY <2>1, <2>2, <2>3, <2>4 DEF Width
<1>6. \A ss \in Seq(Txt) : Width(ss) \in Nat
  BY <1>2, <1>3, <1>4 DEF Width
<1>7. Width(<<>>) = 0
  BY <1>1 DEF Width
<1> QED
  BY <1>5, <1>6, <1>7

\* The width bounds each of the segments.
LEMMA WidthBounds ==
    ASSUME NEW ss \in Seq(Txt), NEW i \in 1..Len(ss)
    PROVE  Len(ss[i]) + Len(ss) <= Width(ss)
<1> DEFINE P == {us \in Seq(Txt) : \A j \in 1..Len(us) : Len(us[j]) + Len(us) <= Width(us)}
<1>1. <<>> \in P
  BY EmptySeq
<1>2. ASSUME NEW us \in Seq(Txt), NEW u \in Txt, us \in P PROVE Append(us, u) \in P
  <2>1. PICK n \in Nat, l \in Nat, w \in Nat : n = Len(us) /\ l = Len(u) /\ w = Width(us)
    BY LenProperties, WidthSteps DEF Txt
  <2>2. /\ Append(us, u) \in Seq(Txt) /\ Len(Append(us, u)) = n + 1
        /\ Append(us, u)[n + 1] = u /\ \A j \in 1..n : Append(us, u)[j] = us[j]
    BY <2>1, AppendProperties
  <2>3. Width(Append(us, u)) = w + l + 1
    BY <2>1, WidthSteps
  <2>4. n <= w
    <3>1. FlattenSeq(us) \in Txt
      BY FlatSteps DEF Txt
    <3>2. Len(FlattenSeq(us)) \in Nat
      BY <3>1, LenProperties DEF Txt
    <3> QED
      BY <2>1, <3>2 DEF Width
  <2>5. ASSUME NEW j \in 1..(n + 1) PROVE Len(Append(us, u)[j]) + (n + 1) <= w + l + 1
    <3>1. CASE j = n + 1
      <4>1. Len(Append(us, u)[j]) = l
        BY <2>1, <2>2, <3>1
      <4> QED
        BY <2>1, <2>4, <4>1
    <3>2. CASE j # n + 1
      <4>1. j \in 1..n
        BY <2>1, <3>2
      <4>2. us[j] \in Txt
        BY <2>1, <4>1, ElementOfSeq
      <4>3. PICK k \in Nat : k = Len(us[j])
        BY <4>2, LenProperties DEF Txt
      <4>4. k + n <= w
        BY <1>2, <2>1, <4>1, <4>3
      <4>5. Len(Append(us, u)[j]) = k
        BY <2>2, <4>1, <4>3
      <4> QED
        BY <2>1, <4>4, <4>5
    <3> QED
      BY <3>1, <3>2
  <2> QED
    BY <2>2, <2>3, <2>5
<1>3. Seq(Txt) \subseteq P
  <2> HIDE DEF P
  <2> QED
    BY <1>1, <1>2, Appending
<1> QED
  BY <1>3

\* Neat texts, and those that end in one of some characters.
Neats == {s \in Txt : Neat(s)}
Ending(E) == {s \in Neats : Last(s) \in E}

Loop == [out : Seq(Txt), buf : Txt]

LEMMA JoinText ==
    ASSUME NEW s \in Txt, NEW t \in Txt
    PROVE  join(s, t) \in Txt
<1>1. "blank" \in Glyph
  BY DEF Glyph
<1>2. (s \o <<"blank">>) \o t \in Txt
  <2>1. s \in Seq(Glyph) /\ t \in Seq(Glyph) /\ <<"blank">> \in Seq(Glyph)
    BY <1>1 DEF Txt
  <2>2. s \o <<"blank">> \in Seq(Glyph)
    BY <2>1, ConcatProperties
  <2> QED
    BY <2>1, <2>2, ConcatProperties DEF Txt
<1>3. trim((s \o <<"blank">>) \o t) \in Txt
  BY <1>2, TrimNeat
<1> QED
  BY <1>3 DEF join

LEMMA MergeSteps ==
    /\ merged(<<>>) = Nothing
    /\ \A ss \in Seq(Txt) : merged(ss) \in Loop
    /\ \A ss \in Seq(Txt), s \in Txt : merged(Append(ss, s)) = merge(merged(ss), s)
<1> DEFINE h == [p \in Loop \X Txt |-> merge(p[1], p[2])]
           F(f, ss) == f = [i \in 0..Len(ss) |-> IF i = 0 THEN Nothing ELSE merge(f[i - 1], ss[i])]
<1>1. \A v \in Loop, s \in Txt : h[<<v, s>>] = merge(v, s)
  OBVIOUS
<1>2. Nothing \in Loop
  BY EmptySeq DEF Nothing, Loop, Txt
<1>3. ASSUME NEW v \in Loop, NEW s \in Txt PROVE merge(v, s) \in Loop
  <2>1. v.out \in Seq(Txt) /\ v.buf \in Txt /\ v = [out |-> v.out, buf |-> v.buf]
    BY DEF Loop
  <2>2. PICK c \in Txt : c = join(v.buf, s)
    BY <2>1, JoinText
  <2>3. Append(v.out, c) \in Seq(Txt) /\ <<>> \in Txt
    BY <2>1, AppendProperties, EmptySeq DEF Txt
  <2>4. merge(v, s) = IF Len(c) < MinSegment THEN [out |-> v.out, buf |-> c]
                      ELSE [out |-> Append(v.out, c), buf |-> <<>>]
    BY <2>1, <2>2 DEF merge
  <2> QED
    BY <2>1, <2>2, <2>3, <2>4 DEF Loop
<1>4. Closed(h, Nothing, Loop, Txt)
  <2> HIDE DEF h
  <2> QED
    BY <1>1, <1>2, <1>3 DEF Closed
<1>5. ASSUME NEW ss \in Seq(Txt) PROVE merged(ss) \in Loop /\ merged(ss) = Fold(h, Nothing, ss)
  <2> DEFINE g == CHOOSE f : F(f, ss)
  <2>1. Len(ss) \in Nat /\ \A i \in 1..Len(ss) : ss[i] \in Txt
    BY LenProperties, ElementOfSeq
  <2>2. PICK f \in [0..Len(ss) -> Loop] : Stepwise(h, Nothing, ss, f)
    BY <1>4, StepwiseExists
  <2>3. F(f, ss)
    <3> HIDE DEF h
    <3>1. \A i \in 1..Len(ss) : i - 1 \in 0..Len(ss) /\ f[i - 1] \in Loop
      BY <2>1, <2>2
    <3>2. \A i \in 1..Len(ss) : h[<<f[i - 1], ss[i]>>] = merge(f[i - 1], ss[i])
      BY <1>1, <2>1, <3>1
    <3>3. \A i \in 0..Len(ss) : i # 0 => i \in 1..Len(ss)
      BY <2>1
    <3> QED
      BY <2>1, <2>2, <3>2, <3>3 DEF Stepwise
  <2>4. F(g, ss)
    BY <2>3, Zenon
  <2>5. merged(ss) = g[Len(ss)]
    BY DEF merged
  <2>6. Follows(g, h, Nothing, Loop, ss, Len(ss))
    <3> HIDE DEF h
    <3>1. g[0] = Nothing /\ \A i \in 1..Len(ss) : g[i] = merge(g[i - 1], ss[i])
      <4> HIDE DEF g
      <4>1. \A i \in 0..Len(ss) : g[i] = IF i = 0 THEN Nothing ELSE merge(g[i - 1], ss[i])
        BY <2>4, Zenon
      <4>2. 0 \in 0..Len(ss) /\ \A i \in 1..Len(ss) : i \in 0..Len(ss) /\ i # 0
        BY <2>1
      <4> QED
        BY <4>1, <4>2, Zenon
    <3> HIDE DEF g
    <3> QED
      BY <1>1, <2>1, <3>1 DEF Follows
  <2> HIDE DEF g, h
  <2> QED
    BY <1>4, <2>5, <2>6, FoldIs
<1> HIDE DEF h
<1>6. /\ Fold(h, Nothing, <<>>) = Nothing
      /\ \A ss \in Seq(Txt), s \in Txt :
            Fold(h, Nothing, Append(ss, s)) = h[<<Fold(h, Nothing, ss), s>>]
  BY <1>4, FoldSteps
<1>7. \A ss \in Seq(Txt), s \in Txt : Append(ss, s) \in Seq(Txt)
  BY AppendProperties
<1>8. <<>> \in Seq(Txt)
  BY EmptySeq
<1>9. \A ss \in Seq(Txt), s \in Txt : merged(Append(ss, s)) = h[<<merged(ss), s>>]
  BY <1>5, <1>6, <1>7
<1> QED
  BY <1>1, <1>5, <1>6, <1>8, <1>9

LEMMA GroupSteps ==
    /\ grouped(<<>>) = Nothing
    /\ \A ss \in Seq(Txt) : grouped(ss) \in Loop
    /\ \A ss \in Seq(Txt), s \in Txt : grouped(Append(ss, s)) = group(grouped(ss), s)
<1> DEFINE h == [p \in Loop \X Txt |-> group(p[1], p[2])]
           F(f, ss) == f = [i \in 0..Len(ss) |-> IF i = 0 THEN Nothing ELSE group(f[i - 1], ss[i])]
<1>1. \A v \in Loop, s \in Txt : h[<<v, s>>] = group(v, s)
  OBVIOUS
<1>2. Nothing \in Loop
  BY EmptySeq DEF Nothing, Loop, Txt
<1>3. ASSUME NEW v \in Loop, NEW s \in Txt PROVE group(v, s) \in Loop
  <2>1. v.out \in Seq(Txt) /\ v.buf \in Txt /\ v = [out |-> v.out, buf |-> v.buf]
    BY DEF Loop
  <2>2. PICK c \in Txt : c = join(v.buf, s)
    BY <2>1, JoinText
  <2>3. Append(v.out, v.buf) \in Seq(Txt)
    BY <2>1, AppendProperties
  <2>4. group(v, s) = [out |-> Append(v.out, v.buf), buf |-> s]
        \/ group(v, s) = [out |-> v.out, buf |-> c]
    BY <2>1, <2>2 DEF group
  <2> QED
    BY <2>1, <2>2, <2>3, <2>4 DEF Loop
<1>4. Closed(h, Nothing, Loop, Txt)
  <2> HIDE DEF h
  <2> QED
    BY <1>1, <1>2, <1>3 DEF Closed
<1>5. ASSUME NEW ss \in Seq(Txt) PROVE grouped(ss) \in Loop /\ grouped(ss) = Fold(h, Nothing, ss)
  <2> DEFINE g == CHOOSE f : F(f, ss)
  <2>1. Len(ss) \in Nat /\ \A i \in 1..Len(ss) : ss[i] \in Txt
    BY LenProperties, ElementOfSeq
  <2>2. PICK f \in [0..Len(ss) -> Loop] : Stepwise(h, Nothing, ss, f)
    BY <1>4, StepwiseExists
  <2>3. F(f, ss)
    <3> HIDE DEF h
    <3>1. \A i \in 1..Len(ss) : i - 1 \in 0..Len(ss) /\ f[i - 1] \in Loop
      BY <2>1, <2>2
    <3>2. \A i \in 1..Len(ss) : h[<<f[i - 1], ss[i]>>] = group(f[i - 1], ss[i])
      BY <1>1, <2>1, <3>1
    <3>3. \A i \in 0..Len(ss) : i # 0 => i \in 1..Len(ss)
      BY <2>1
    <3> QED
      BY <2>1, <2>2, <3>2, <3>3 DEF Stepwise
  <2>4. F(g, ss)
    BY <2>3, Zenon
  <2>5. grouped(ss) = g[Len(ss)]
    BY DEF grouped
  <2>6. Follows(g, h, Nothing, Loop, ss, Len(ss))
    <3> HIDE DEF h
    <3>1. g[0] = Nothing /\ \A i \in 1..Len(ss) : g[i] = group(g[i - 1], ss[i])
      <4> HIDE DEF g
      <4>1. \A i \in 0..Len(ss) : g[i] = IF i = 0 THEN Nothing ELSE group(g[i - 1], ss[i])
        BY <2>4, Zenon
      <4>2. 0 \in 0..Len(ss) /\ \A i \in 1..Len(ss) : i \in 0..Len(ss) /\ i # 0
        BY <2>1
      <4> QED
        BY <4>1, <4>2, Zenon
    <3> HIDE DEF g
    <3> QED
      BY <1>1, <2>1, <3>1 DEF Follows
  <2> HIDE DEF g, h
  <2> QED
    BY <1>4, <2>5, <2>6, FoldIs
<1> HIDE DEF h
<1>6. /\ Fold(h, Nothing, <<>>) = Nothing
      /\ \A ss \in Seq(Txt), s \in Txt :
            Fold(h, Nothing, Append(ss, s)) = h[<<Fold(h, Nothing, ss), s>>]
  BY <1>4, FoldSteps
<1>7. \A ss \in Seq(Txt), s \in Txt : Append(ss, s) \in Seq(Txt)
  BY AppendProperties
<1>8. <<>> \in Seq(Txt)
  BY EmptySeq
<1>9. \A ss \in Seq(Txt), s \in Txt : grouped(Append(ss, s)) = h[<<grouped(ss), s>>]
  BY <1>5, <1>6, <1>7
<1> QED
  BY <1>1, <1>5, <1>6, <1>8, <1>9

LEMMA Endings ==
    ASSUME NEW E, NEW s \in Ending(E)
    PROVE  s \in Txt /\ s # <<>> /\ Neat(s) /\ Last(s) \in E /\ Len(s) \in Nat
BY LenProperties DEF Ending, Neats, Neat, Txt

LEMMA EndingTexts ==
    ASSUME NEW E, NEW ss \in Seq(Ending(E))
    PROVE  ss \in Seq(Txt)
<1>1. PICK n \in Nat : n = Len(ss) /\ ss \in [1..n -> Ending(E)]
  BY LenProperties
<1>2. Ending(E) \subseteq Txt
  BY DEF Ending, Neats
<1>3. ss \in [1..n -> Txt]
  BY <1>1, <1>2
<1> QED
  BY <1>3, SeqDef

\* What a loop has of ss, all of whose segments end in E.
Joined(m, ss, E) ==
    /\ m.out \in Seq(Ending(E))
    /\ m.buf = <<>> \/ m.buf \in Ending(E)
    /\ Content(m.out) \o Solid(m.buf) = Content(ss)
    /\ Width(m.out) + (IF m.buf = <<>> THEN 0 ELSE Len(m.buf) + 1) <= Width(ss)

\* Nothing is left, and t is out or in hand.
LEMMA JoinOne ==
    ASSUME NEW E, NEW ss \in Seq(Txt), NEW m \in Loop, Joined(m, ss, E), NEW s \in Ending(E),
           NEW c, c = join(m.buf, s)
    PROVE  /\ c \in Ending(E) /\ Len(c) >= Len(m.buf) /\ Len(c) >= Len(s)
           /\ Joined([out |-> m.out, buf |-> c], Append(ss, s), E)
           /\ Joined([out |-> Append(m.out, c), buf |-> <<>>], Append(ss, s), E)
<1>1. /\ m.out \in Seq(Ending(E)) /\ m.out \in Seq(Txt) /\ m.buf \in Txt
      /\ m.buf = <<>> \/ (m.buf \in Ending(E) /\ Neat(m.buf))
  BY Endings, EndingTexts DEF Joined, Loop
<1>2. s \in Txt /\ Neat(s) /\ Last(s) \in E /\ s # <<>>
  BY Endings
<1>3. /\ Neat(c) /\ Solid(c) = Solid(m.buf) \o Solid(s) /\ Last(c) = Last(s)
      /\ Len(c) = (IF m.buf = <<>> THEN 0 ELSE Len(m.buf) + 1) + Len(s)
  BY <1>1, <1>2, JoinNeat
<1>4. c \in Ending(E) /\ c \in Txt /\ c # <<>>
  BY <1>2, <1>3 DEF Ending, Neats, Neat
<1>5. PICK p \in Seq(Glyph \ Spaces), q \in Seq(Glyph \ Spaces), r \in Seq(Glyph \ Spaces) :
          p = Content(m.out) /\ q = Solid(m.buf) /\ r = Solid(s)
  BY <1>1, <1>2, ContentSteps, SolidSteps
<1>6. /\ p \o q = Content(ss) /\ Content(Append(ss, s)) = (p \o q) \o r /\ Solid(c) = q \o r
      /\ (p \o q) \o r = p \o (q \o r)
  <2>1. p \o q = Content(ss)
    BY <1>5 DEF Joined
  <2>2. Content(Append(ss, s)) = Content(ss) \o r
    BY <1>2, <1>5, ContentSteps
  <2>3. (p \o q) \o r = p \o (q \o r)
    BY ConcatAssociative
  <2> QED
    BY <1>3, <1>5, <2>1, <2>2, <2>3
<1>7. Content(Append(m.out, c)) \o Solid(<<>>) = Content(Append(ss, s))
  <2>1. Content(Append(m.out, c)) = p \o (q \o r)
    BY <1>1, <1>4, <1>5, <1>6, ContentSteps
  <2>2. p \o (q \o r) \in Seq(Glyph \ Spaces)
    BY ConcatProperties
  <2>3. (p \o (q \o r)) \o <<>> = p \o (q \o r)
    BY <2>2, ConcatEmptySeq
  <2> QED
    BY <1>6, <2>1, <2>3, SolidSteps
<1>8. PICK b \in Nat, l \in Nat, w \in Nat, v \in Nat, k \in Nat :
          /\ b = Len(m.buf) /\ l = Len(s) /\ w = Width(ss) /\ v = Width(m.out) /\ k = Len(c)
          /\ m.buf = <<>> => b = 0
  BY <1>1, <1>2, <1>4, LenProperties, WidthSteps, EmptySeq DEF Txt
<1>9. PICK z \in Nat : z = IF m.buf = <<>> THEN 0 ELSE b + 1
  OBVIOUS
<1>10. v + z <= w /\ k = z + l /\ k >= b /\ k >= l
  <2>1. v + z <= w
    BY <1>8, <1>9 DEF Joined
  <2>2. k = z + l
    BY <1>3, <1>8, <1>9
  <2> QED
    BY <1>8, <1>9, <2>1, <2>2
<1>11. Width(Append(ss, s)) = w + l + 1 /\ Width(Append(m.out, c)) = v + k + 1
  BY <1>1, <1>2, <1>4, <1>8, WidthSteps
<1>12. Joined([out |-> m.out, buf |-> c], Append(ss, s), E)
  <2>1. v + (k + 1) <= w + l + 1
    BY <1>10
  <2>2. Content(m.out) \o Solid(c) = Content(Append(ss, s))
    BY <1>5, <1>6
  <2>3. Width(m.out) + (IF c = <<>> THEN 0 ELSE Len(c) + 1) <= Width(Append(ss, s))
    BY <1>4, <1>8, <1>11, <2>1
  <2> QED
    BY <1>1, <1>4, <2>2, <2>3 DEF Joined
<1>13. Joined([out |-> Append(m.out, c), buf |-> <<>>], Append(ss, s), E)
  <2>1. v + k + 1 <= w + l + 1 /\ v + k + 1 + 0 = v + k + 1
    BY <1>10
  <2>2. Append(m.out, c) \in Seq(Ending(E))
    BY <1>1, <1>4, AppendProperties
  <2>3. Width(Append(m.out, c)) + (IF <<>> = <<>> THEN 0 ELSE Len(<<>>) + 1)
            <= Width(Append(ss, s))
    BY <1>11, <2>1
  <2> QED
    BY <1>7, <2>2, <2>3 DEF Joined
<1> QED
  BY <1>4, <1>8, <1>10, <1>12, <1>13

\* Segments are long enough.
Long(ss) == \A i \in 1..Len(ss) : Len(ss[i]) >= MinSegment

LEMMA LongAppend ==
    ASSUME NEW ss \in Seq(Txt), NEW s \in Txt, Long(ss), Len(s) >= MinSegment
    PROVE  Long(Append(ss, s))
<1>1. PICK n \in Nat : n = Len(ss)
  BY LenProperties
<1>2. /\ Len(Append(ss, s)) = n + 1 /\ Append(ss, s)[n + 1] = s
      /\ \A i \in 1..n : Append(ss, s)[i] = ss[i]
  BY <1>1, AppendProperties
<1>3. ASSUME NEW i \in 1..(n + 1) PROVE Len(Append(ss, s)[i]) >= MinSegment
  <2>1. CASE i = n + 1
    BY <1>2, <2>1
  <2>2. CASE i # n + 1
    <3>1. i \in 1..n
      BY <1>1, <2>2
    <3> QED
      BY <1>1, <1>2, <3>1 DEF Long
  <2> QED
    BY <2>1, <2>2
<1> QED
  BY <1>2, <1>3 DEF Long

LEMMA MergeKeeps ==
    ASSUME NEW E, NEW ss \in Seq(Txt), NEW m \in Loop, Joined(m, ss, E), Long(m.out),
           NEW s \in Ending(E), NEW n, n = merge(m, s)
    PROVE  Joined(n, Append(ss, s), E) /\ Long(n.out) /\ (n.buf # <<>> => n.out = m.out)
           /\ (n.buf = <<>> => \E c \in Ending(E) : n.out = Append(m.out, c))
<1>1. PICK c : c = join(m.buf, s)
  OBVIOUS
<1>2. /\ c \in Ending(E) /\ c \in Txt /\ Len(c) \in Nat /\ c # <<>>
      /\ Joined([out |-> m.out, buf |-> c], Append(ss, s), E)
      /\ Joined([out |-> Append(m.out, c), buf |-> <<>>], Append(ss, s), E)
  BY <1>1, JoinOne, Endings
<1>3. m = [out |-> m.out, buf |-> m.buf]
  BY DEF Loop
<1>4. CASE Len(c) < MinSegment
  <2>1. n = [out |-> m.out, buf |-> c]
    BY <1>1, <1>3, <1>4 DEF merge
  <2>2. n.out = m.out /\ n.buf = c
    BY <2>1
  <2> QED
    BY <1>2, <2>1, <2>2
<1>5. CASE ~(Len(c) < MinSegment)
  <2>1. n = [out |-> Append(m.out, c), buf |-> <<>>]
    BY <1>1, <1>5 DEF merge
  <2>2. n.out = Append(m.out, c) /\ n.buf = <<>>
    BY <2>1
  <2>3. Len(c) >= MinSegment
    BY <1>2, <1>5, FrontendAssumption
  <2>4. m.out \in Seq(Txt)
    BY DEF Loop
  <2>5. Long(Append(m.out, c))
    BY <1>2, <2>3, <2>4, LongAppend
  <2> QED
    BY <1>2, <2>1, <2>2, <2>5
<1> QED
  BY <1>4, <1>5

LEMMA MergedKeeps ==
    ASSUME NEW E, NEW ss \in Seq(Ending(E))
    PROVE  Joined(merged(ss), ss, E) /\ Long(merged(ss).out)
<1> DEFINE P == {us \in Seq(Ending(E)) : Joined(merged(us), us, E) /\ Long(merged(us).out)}
<1>1. <<>> \in P
  <2>1. <<>> \in Seq(Ending(E)) /\ Len(<<>>) = 0 /\ merged(<<>>) = Nothing
    BY EmptySeq, MergeSteps
  <2>2. Nothing.out = <<>> /\ Nothing.buf = <<>>
    BY DEF Nothing
  <2>3. Long(<<>>)
    BY <2>1 DEF Long
  <2>4. Content(<<>>) \o Solid(<<>>) = Content(<<>>)
    <3>1. <<>> \in Seq(Glyph) /\ Content(<<>>) = <<>> /\ Solid(<<>>) = <<>>
      BY ContentSteps, SolidSteps, EmptySeq
    <3> QED
      BY <3>1, ConcatEmptySeq
  <2>5. Width(<<>>) + 0 <= Width(<<>>)
    BY WidthSteps
  <2>6. Joined(Nothing, <<>>, E)
    BY <2>1, <2>2, <2>4, <2>5 DEF Joined
  <2> QED
    BY <2>1, <2>2, <2>3, <2>6
<1>2. ASSUME NEW us \in Seq(Ending(E)), NEW u \in Ending(E), us \in P PROVE Append(us, u) \in P
  <2>1. us \in Seq(Txt) /\ u \in Txt /\ Append(us, u) \in Seq(Ending(E))
    BY EndingTexts, Endings, AppendProperties
  <2>2. merged(us) \in Loop /\ merged(Append(us, u)) = merge(merged(us), u)
    BY <2>1, MergeSteps
  <2>3. Joined(merged(us), us, E) /\ Long(merged(us).out)
    BY <1>2
  <2>4. Joined(merged(Append(us, u)), Append(us, u), E) /\ Long(merged(Append(us, u)).out)
    BY <2>1, <2>2, <2>3, MergeKeeps
  <2> QED
    BY <2>1, <2>4
<1>3. Seq(Ending(E)) \subseteq P
  <2> HIDE DEF P
  <2> QED
    BY <1>1, <1>2, Appending
<1> QED
  BY <1>3

\* What was in hand is out, and another segment is in hand.
LEMMA JoinNext ==
    ASSUME NEW E, NEW ss \in Seq(Txt), NEW m \in Loop, Joined(m, ss, E), m.buf # <<>>,
           NEW s \in Ending(E)
    PROVE  Joined([out |-> Append(m.out, m.buf), buf |-> s], Append(ss, s), E)
<1>1. /\ m.out \in Seq(Ending(E)) /\ m.out \in Seq(Txt) /\ m.buf \in Ending(E) /\ m.buf \in Txt
      /\ Content(m.out) \o Solid(m.buf) = Content(ss)
  BY EndingTexts DEF Joined, Loop
<1>2. s \in Txt /\ s # <<>>
  BY Endings
<1>3. Append(m.out, m.buf) \in Seq(Ending(E))
  BY <1>1, AppendProperties
<1>4. Content(Append(m.out, m.buf)) = Content(ss) /\ Content(Append(ss, s)) = Content(ss) \o Solid(s)
  BY <1>1, <1>2, ContentSteps
<1>5. PICK b \in Nat, l \in Nat, w \in Nat, v \in Nat :
          b = Len(m.buf) /\ l = Len(s) /\ w = Width(ss) /\ v = Width(m.out)
  BY <1>1, <1>2, LenProperties, WidthSteps DEF Txt
<1>6. v + (b + 1) <= w
  BY <1>5 DEF Joined
<1>7. Width(Append(ss, s)) = w + l + 1 /\ Width(Append(m.out, m.buf)) = v + b + 1
  BY <1>1, <1>2, <1>5, WidthSteps
<1>8. (v + b + 1) + (l + 1) <= w + l + 1
  BY <1>6
<1>9. Width(Append(m.out, m.buf)) + (IF s = <<>> THEN 0 ELSE Len(s) + 1) <= Width(Append(ss, s))
  BY <1>2, <1>5, <1>7, <1>8
<1> QED
  BY <1>3, <1>4, <1>9 DEF Joined

LEMMA GroupKeeps ==
    ASSUME NEW E, NEW ss \in Seq(Txt), NEW m \in Loop, Joined(m, ss, E), NEW s \in Ending(E),
           NEW n, n = group(m, s)
    PROVE  Joined(n, Append(ss, s), E)
<1>1. PICK c : c = join(m.buf, s)
  OBVIOUS
<1>2. m = [out |-> m.out, buf |-> m.buf]
  BY DEF Loop
<1>3. CASE m.buf # <<>> /\ Len(c) > MaxSegment
  <2>1. n = [out |-> Append(m.out, m.buf), buf |-> s]
    BY <1>1, <1>3 DEF group
  <2> QED
    BY <1>3, <2>1, JoinNext
<1>4. CASE ~(m.buf # <<>> /\ Len(c) > MaxSegment)
  <2>1. n = [out |-> m.out, buf |-> c]
    BY <1>1, <1>2, <1>4 DEF group
  <2> QED
    BY <1>1, <2>1, JoinOne
<1> QED
  BY <1>3, <1>4

LEMMA GroupedKeeps ==
    ASSUME NEW E, NEW ss \in Seq(Ending(E))
    PROVE  Joined(grouped(ss), ss, E)
<1> DEFINE P == {us \in Seq(Ending(E)) : Joined(grouped(us), us, E)}
<1>1. <<>> \in P
  <2>1. <<>> \in Seq(Ending(E)) /\ grouped(<<>>) = Nothing
    BY EmptySeq, GroupSteps
  <2>2. Nothing.out = <<>> /\ Nothing.buf = <<>>
    BY DEF Nothing
  <2>3. Content(<<>>) \o Solid(<<>>) = Content(<<>>)
    <3>1. <<>> \in Seq(Glyph) /\ Content(<<>>) = <<>> /\ Solid(<<>>) = <<>>
      BY ContentSteps, SolidSteps, EmptySeq
    <3> QED
      BY <3>1, ConcatEmptySeq
  <2>4. Width(<<>>) + 0 <= Width(<<>>)
    BY WidthSteps
  <2>5. Joined(Nothing, <<>>, E)
    BY <2>1, <2>2, <2>3, <2>4 DEF Joined
  <2> QED
    BY <2>1, <2>5
<1>2. ASSUME NEW us \in Seq(Ending(E)), NEW u \in Ending(E), us \in P PROVE Append(us, u) \in P
  <2>1. us \in Seq(Txt) /\ u \in Txt /\ Append(us, u) \in Seq(Ending(E))
    BY EndingTexts, Endings, AppendProperties
  <2>2. grouped(us) \in Loop /\ grouped(Append(us, u)) = group(grouped(us), u)
    BY <2>1, GroupSteps
  <2>3. Joined(grouped(us), us, E)
    BY <1>2
  <2>4. Joined(grouped(Append(us, u)), Append(us, u), E)
    BY <2>1, <2>2, <2>3, GroupKeeps
  <2> QED
    BY <2>1, <2>4
<1>3. Seq(Ending(E)) \subseteq P
  <2> HIDE DEF P
  <2> QED
    BY <1>1, <1>2, Appending
<1> QED
  BY <1>3

LEMMA AllNeat == Ending(Glyph) = Neats
<1> SUFFICES ASSUME NEW s \in Neats PROVE Last(s) \in Glyph
  BY DEF Ending
<1>1. s \in Seq(Glyph) /\ s # <<>>
  BY DEF Neats, Neat, Txt
<1>2. Len(s) \in 1..Len(s)
  BY <1>1, LenProperties, EmptySeq
<1> QED
  BY <1>1, <1>2, ElementOfSeq DEF Last

\* A last one.
LEMMA ContentOne ==
    ASSUME NEW s \in Txt
    PROVE  <<s>> = Append(<<>>, s) /\ <<s>> \in Seq(Txt) /\ Content(<<s>>) = Solid(s)
           /\ Len(<<s>>) = 1 /\ <<s>>[1] = s
<1>1. <<s>> = Append(<<>>, s) /\ <<>> \in Seq(Txt) /\ <<s>> \in Seq(Txt)
  BY EmptySeq
<1>2. Content(<<s>>) = <<>> \o Solid(s)
  BY <1>1, ContentSteps
<1>3. Solid(s) \in Seq(Glyph \ Spaces)
  BY SolidSteps
<1> QED
  BY <1>1, <1>2, <1>3, ConcatEmptySeq

LEMMA RegroupKeeps ==
    ASSUME NEW ss \in Seq(Neats)
    PROVE  regroup(ss) \in Seq(Neats) /\ Content(regroup(ss)) = Content(ss)
<1>1. PICK m : m = grouped(ss)
  OBVIOUS
<1>2. ss \in Seq(Txt) /\ Joined(m, ss, Glyph)
  BY <1>1, AllNeat, EndingTexts, GroupedKeeps
<1>3. /\ m.out \in Seq(Neats) /\ m.out \in Seq(Txt)
      /\ m.buf = <<>> \/ (m.buf \in Neats /\ m.buf \in Txt)
      /\ Content(m.out) \o Solid(m.buf) = Content(ss)
  <2>1. m.out \in Seq(Neats) /\ Content(m.out) \o Solid(m.buf) = Content(ss)
    BY <1>2, AllNeat DEF Joined
  <2>2. m.buf = <<>> \/ m.buf \in Neats
    BY <1>2, AllNeat DEF Joined
  <2>3. m.out \in Seq(Txt)
    BY <2>1, AllNeat, EndingTexts
  <2> QED
    BY <2>1, <2>2, <2>3 DEF Neats
<1>4. CASE m.buf = <<>>
  <2>1. regroup(ss) = m.out
    BY <1>1, <1>4 DEF regroup
  <2>2. Content(m.out) \o <<>> = Content(m.out)
    BY <1>3, ContentSteps, ConcatEmptySeq
  <2> QED
    BY <1>3, <1>4, <2>1, <2>2, SolidSteps
<1>5. CASE m.buf # <<>>
  <2>1. regroup(ss) = Append(m.out, m.buf)
    BY <1>1, <1>5 DEF regroup
  <2>2. Append(m.out, m.buf) \in Seq(Neats)
    BY <1>3, <1>5, AppendProperties
  <2>3. Content(Append(m.out, m.buf)) = Content(ss)
    BY <1>3, <1>5, ContentSteps
  <2> QED
    BY <2>1, <2>2, <2>3
<1> QED
  BY <1>4, <1>5

LEMMA ExceptLast ==
    ASSUME NEW S, NEW ss \in Seq(S), NEW x \in S, NEW y \in S
    PROVE  [Append(ss, x) EXCEPT ![Len(Append(ss, x))] = y] = Append(ss, y)
<1>1. PICK m, t, n : m \in Nat /\ m = Len(ss) /\ t = Append(ss, x) /\ n = Len(t)
  BY LenProperties
<1>2. /\ t \in Seq(S) /\ Len(t) = m + 1 /\ \A i \in 1..m : t[i] = ss[i]
  BY <1>1, AppendProperties
<1>3. /\ Append(ss, y) \in Seq(S) /\ Len(Append(ss, y)) = m + 1 /\ Append(ss, y)[m + 1] = y
      /\ \A i \in 1..m : Append(ss, y)[i] = ss[i]
  BY <1>1, AppendProperties
<1>4. n = m + 1 /\ t \in [1..n -> S] /\ Append(ss, y) \in [1..n -> S]
  BY <1>1, <1>2, <1>3, LenProperties
<1> DEFINE u == [t EXCEPT ![n] = y]
           v == Append(ss, y)
<1>5. u \in [1..n -> S] /\ u[n] = y /\ \A i \in 1..n : i # n => u[i] = t[i]
  <2>1. n \in 1..n
    BY <1>1, <1>4
  <2> QED
    BY <1>4, <2>1
<1> HIDE DEF u, v
<1>6. ASSUME NEW i \in 1..n PROVE u[i] = v[i]
  <2>1. CASE i = n
    BY <1>3, <1>4, <1>5, <2>1 DEF v
  <2>2. CASE i # n
    <3>1. i \in 1..m
      BY <1>1, <1>4, <2>2
    <3> QED
      BY <1>2, <1>3, <1>5, <2>2, <3>1 DEF v
  <2> QED
    BY <2>1, <2>2
<1>7. v \in [1..n -> S]
  BY <1>4 DEF v
<1>8. u = v
  <2>1. u = [i \in 1..n |-> u[i]] /\ v = [i \in 1..n |-> v[i]]
    BY <1>5, <1>7
  <2>2. [i \in 1..n |-> u[i]] = [i \in 1..n |-> v[i]]
    BY <1>6
  <2> QED
    BY <2>1, <2>2
<1> QED
  BY <1>1, <1>8 DEF u, v

LEMMA ExtendLast ==
    ASSUME NEW q \in Seq(Txt), NEW l \in Txt, NEW x \in Glyph
    PROVE  [Append(q, l) EXCEPT ![Len(Append(q, l))] = Append(@, x)] = Append(q, Append(l, x))
<1>1. PICK t, n : t = Append(q, l) /\ n = Len(t)
  OBVIOUS
<1>2. Append(l, x) \in Txt
  BY AppendProperties DEF Txt
<1>3. Len(t) = Len(q) + 1 /\ t[Len(q) + 1] = l
  BY <1>1, AppendProperties
<1>4. t[n] = l
  BY <1>1, <1>3
<1>5. [t EXCEPT ![n] = Append(@, x)] = [t EXCEPT ![n] = Append(l, x)]
  BY <1>4
<1>6. \A ps \in Seq(Txt), p, y \in Txt :
          [Append(ps, p) EXCEPT ![Len(Append(ps, p))] = y] = Append(ps, y)
  BY ExceptLast
<1>7. [Append(q, l) EXCEPT ![Len(Append(q, l))] = Append(l, x)] = Append(q, Append(l, x))
  BY <1>2, <1>6, Zenon
<1> QED
  BY <1>1, <1>5, <1>7

\* Segments in E that may be read as any, and the one they end with.
LEMMA Wider ==
    ASSUME NEW E, NEW m, NEW ss, Joined(m, ss, E)
    PROVE  Joined(m, ss, Glyph)
<1>1. Ending(E) \subseteq Neats
  BY DEF Ending
<1>2. \A t \in Seq(Ending(E)) : t \in Seq(Neats)
  <2> SUFFICES ASSUME NEW t \in Seq(Ending(E)) PROVE t \in Seq(Neats)
    OBVIOUS
  <2>1. PICK n \in Nat : t \in [1..n -> Ending(E)]
    BY LenProperties
  <2>2. t \in [1..n -> Neats]
    BY <1>1, <2>1
  <2> QED
    BY <2>2, SeqDef
<1> QED
  BY <1>1, <1>2, AllNeat DEF Joined

\* What segments have become: o, and the last one y.
Shortened(ss, o, y) ==
    /\ _merge_short(ss) = Append(o, y)
    /\ Content(Append(o, y)) = Content(ss)
    /\ Width(Append(o, y)) <= Width(ss)
    /\ o # <<>> => Long(Append(o, y))

\* What _merge_short makes of segments that all but the last end in E.
LEMMA MergeShortKeeps ==
    ASSUME NEW E, NEW us \in Seq(Ending(E)), NEW z \in Neats
    PROVE  \E o \in Seq(Ending(E)), y \in Neats : Shortened(Append(us, z), o, y)
<1> SUFFICES ASSUME NEW ss, ss = Append(us, z)
             PROVE  \E o \in Seq(Ending(E)), y \in Neats :
                        /\ _merge_short(ss) = Append(o, y)
                        /\ Content(Append(o, y)) = Content(ss)
                        /\ Width(Append(o, y)) <= Width(ss)
                        /\ o # <<>> => Long(Append(o, y))
  BY DEF Shortened
<1>1. us \in Seq(Txt) /\ z \in Txt /\ z \in Ending(Glyph) /\ ss \in Seq(Txt)
  <2>1. us \in Seq(Txt) /\ z \in Txt
    BY EndingTexts DEF Neats
  <2> QED
    BY <2>1, AllNeat, AppendProperties
<1>2. PICK k \in Loop : k = merged(us) /\ Joined(k, us, E) /\ Long(k.out)
  BY <1>1, MergeSteps, MergedKeeps
<1>3. PICK m \in Loop : m = merged(ss) /\ m = merge(k, z)
  <2>1. merged(ss) = merge(merged(us), z) /\ merged(ss) \in Loop
    BY <1>1, MergeSteps
  <2> QED
    BY <1>2, <2>1
<1>4. /\ Joined(m, ss, Glyph)
      /\ Long(m.out)
      /\ (m.buf # <<>> => m.out = k.out)
      /\ (m.buf = <<>> => \E c \in Ending(Glyph) : m.out = Append(k.out, c))
  <2>1. Joined(k, us, Glyph)
    BY <1>2, Wider
  <2> QED
    BY <1>1, <1>2, <1>3, <2>1, MergeKeeps, SMTT(30)
<1>5. k.out \in Seq(Ending(E)) /\ m.out \in Seq(Neats) /\ m.out \in Seq(Txt)
      /\ (m.buf = <<>> \/ m.buf \in Neats)
  <2>1. k.out \in Seq(Ending(E))
    BY <1>2 DEF Joined
  <2> QED
    BY <1>4, <2>1, AllNeat DEF Joined, Loop
<1>6. CASE m.buf = <<>>
  <2>1. PICK c \in Neats : m.out = Append(k.out, c)
    BY <1>4, <1>6, AllNeat
  <2>2. _merge_short(ss) = m.out
    BY <1>3, <1>6 DEF _merge_short
  <2>3. Content(m.out) = Content(ss)
    <3>1. Content(m.out) \o Solid(<<>>) = Content(ss)
      BY <1>4, <1>6 DEF Joined
    <3>2. Content(m.out) \o <<>> = Content(m.out)
      BY <1>5, ContentSteps, ConcatEmptySeq
    <3> QED
      BY <3>1, <3>2, SolidSteps
  <2>4. Width(m.out) <= Width(ss)
    <3>1. Width(m.out) + 0 <= Width(ss) /\ Width(m.out) \in Nat
      BY <1>4, <1>5, <1>6, WidthSteps DEF Joined
    <3> QED
      BY <3>1
  <2> QED
    BY <1>4, <1>5, <2>1, <2>2, <2>3, <2>4
<1>7. CASE m.buf # <<>>
  <2>1. m.buf \in Neats /\ m.buf \in Txt /\ Neat(m.buf)
    BY <1>5, <1>7 DEF Neats
  <2>2. Content(m.out) \o Solid(m.buf) = Content(ss)
    BY <1>4 DEF Joined
  <2>3. PICK b \in Nat, v \in Nat, w \in Nat :
            b = Len(m.buf) /\ v = Width(m.out) /\ w = Width(ss) /\ v + (b + 1) <= w
    <3>1. Len(m.buf) \in Nat /\ Width(m.out) \in Nat /\ Width(ss) \in Nat
      BY <1>1, <1>5, <2>1, LenProperties, WidthSteps DEF Txt
    <3>2. Width(m.out) + (Len(m.buf) + 1) <= Width(ss)
      BY <1>4, <1>7 DEF Joined
    <3> QED
      BY <3>1, <3>2
  <2>4. CASE Len(m.out) = 0
    <3>1. m.out = <<>>
      BY <1>5, <2>4, EmptySeq
    <3>2. _merge_short(ss) = <<m.buf>>
      BY <1>3, <1>7, <2>4 DEF _merge_short
    <3>3. <<m.buf>> = Append(<<>>, m.buf) /\ Content(<<m.buf>>) = Solid(m.buf)
      BY <2>1, ContentOne
    <3>4. Content(<<m.buf>>) = Content(ss)
      <4>1. Solid(m.buf) \in Seq(Glyph \ Spaces) /\ Content(<<>>) = <<>>
        BY <2>1, SolidSteps, ContentSteps
      <4> QED
        BY <2>2, <3>1, <3>3, <4>1, ConcatEmptySeq
    <3>5. Width(<<m.buf>>) <= Width(ss)
      <4>1. Width(Append(<<>>, m.buf)) = 0 + b + 1
        <5>1. <<>> \in Seq(Txt)
          BY EmptySeq
        <5> QED
          BY <2>1, <2>3, <5>1, WidthSteps
      <4> QED
        BY <2>3, <3>3, <4>1
    <3>6. <<>> \in Seq(Ending(E))
      BY EmptySeq
    <3> QED
      BY <2>1, <3>2, <3>3, <3>4, <3>5, <3>6
  <2>5. CASE Len(m.out) # 0
    <3>1. m.out = k.out /\ m.out # <<>>
      BY <1>4, <1>7, <2>5, EmptySeq
    <3>2. PICK o \in Seq(Ending(E)), x \in Ending(E) : m.out = Append(o, x)
      <4>1. m.out \in Seq(Ending(E)) /\ m.out # <<>>
        BY <1>5, <3>1
      <4> QED
        BY <4>1, SequenceEmptyOrAppend
    <3>3. o \in Seq(Txt) /\ x \in Txt /\ Neat(x)
      BY <3>2, EndingTexts, Endings
    <3>4. PICK j : j = join(x, m.buf)
      OBVIOUS
    <3>5. /\ j \in Neats /\ j \in Txt /\ Solid(j) = Solid(x) \o Solid(m.buf)
          /\ Len(j) = Len(x) + 1 + Len(m.buf)
      <4>1. /\ Neat(j) /\ Solid(j) = Solid(x) \o Solid(m.buf)
            /\ Len(j) = (IF x = <<>> THEN 0 ELSE Len(x) + 1) + Len(m.buf)
        BY <2>1, <3>3, <3>4, JoinNeat
      <4>2. x # <<>>
        BY <3>3 DEF Neat
      <4> QED
        BY <4>1, <4>2 DEF Neats, Neat
    <3>6. _merge_short(ss) = [m.out EXCEPT ![Len(m.out)] = join(@, m.buf)]
      BY <1>3, <1>7, <2>5 DEF _merge_short
    <3>7. [m.out EXCEPT ![Len(m.out)] = join(@, m.buf)] = [m.out EXCEPT ![Len(m.out)] = j]
      <4>1. m.out[Len(m.out)] = x
        <5>1. Len(m.out) = Len(o) + 1 /\ Append(o, x)[Len(o) + 1] = x
          BY <3>2, <3>3, AppendProperties
        <5> QED
          BY <3>2, <5>1
      <4> QED
        BY <3>4, <4>1
    <3>8. [m.out EXCEPT ![Len(m.out)] = j] = Append(o, j)
      <4>1. x \in Txt /\ j \in Txt /\ o \in Seq(Txt) /\ m.out = Append(o, x)
        BY <3>2, <3>3, <3>5
      <4>2. [Append(o, x) EXCEPT ![Len(Append(o, x))] = j] = Append(o, j)
        <5>1. \A ps \in Seq(Txt), p, q \in Txt :
                  [Append(ps, p) EXCEPT ![Len(Append(ps, p))] = q] = Append(ps, q)
          BY ExceptLast
        <5> QED
          BY <4>1, <5>1, Zenon
      <4> QED
        BY <4>1, <4>2
    <3>9. Content(Append(o, j)) = Content(ss)
      <4>1. PICK p \in Seq(Glyph \ Spaces), q \in Seq(Glyph \ Spaces), r \in Seq(Glyph \ Spaces) :
                p = Content(o) /\ q = Solid(x) /\ r = Solid(m.buf)
        BY <2>1, <3>3, ContentSteps, SolidSteps
      <4>2. Content(m.out) = p \o q
        BY <3>2, <3>3, <4>1, ContentSteps
      <4>3. Content(Append(o, j)) = p \o (q \o r)
        BY <3>3, <3>5, <4>1, ContentSteps
      <4>4. p \o (q \o r) = (p \o q) \o r
        BY ConcatAssociative, SMTT(30)
      <4> QED
        BY <2>2, <4>1, <4>2, <4>3, <4>4
    <3>10. PICK l \in Nat, a \in Nat : l = Len(x) /\ a = Width(o)
      BY <3>3, LenProperties, WidthSteps DEF Txt
    <3>11. Width(Append(o, j)) <= Width(ss)
      <4>1. Width(m.out) = a + l + 1
        BY <3>2, <3>3, <3>10, WidthSteps
      <4>2. Width(Append(o, j)) = a + (l + 1 + b) + 1
        BY <2>3, <3>3, <3>5, <3>10, WidthSteps
      <4> QED
        <5>1. v = a + l + 1
          BY <2>3, <4>1
        <5>2. v + (b + 1) <= w
          BY <2>3
        <5>3. a + (l + 1 + b) + 1 <= w
          BY <5>1, <5>2
        <5> QED
          BY <2>3, <4>2, <5>3
    <3>12. Long(Append(o, j))
      <4>1. PICK n \in Nat : n = Len(o)
        BY <3>3, LenProperties
      <4>2. /\ Len(m.out) = n + 1 /\ m.out[n + 1] = x /\ \A i \in 1..n : m.out[i] = o[i]
        BY <3>2, <3>3, <4>1, AppendProperties
      <4>3. n + 1 \in 1..(n + 1) /\ \A i \in 1..n : i \in 1..(n + 1)
        BY <4>1
      <4>4. l >= MinSegment /\ Long(o)
        BY <1>4, <3>10, <4>1, <4>2, <4>3 DEF Long
      <4>5. Len(j) >= MinSegment
        <5>1. Len(j) = l + 1 + b /\ MinSegment \in Nat
          BY <2>3, <3>5, <3>10, FrontendAssumption
        <5>2. l >= MinSegment /\ l \in Nat /\ b \in Nat
          BY <2>3, <3>10, <4>4
        <5>3. l + 1 + b >= MinSegment
          BY <5>1, <5>2
        <5> QED
          BY <5>1, <5>3
      <4> QED
        BY <3>3, <3>5, <4>4, <4>5, LongAppend
    <3> QED
      BY <3>2, <3>5, <3>6, <3>7, <3>8, <3>9, <3>11, <3>12
  <2> QED
    BY <2>4, <2>5
<1> QED
  BY <1>6, <1>7

\* Where a segment is cut, there is a blank.
LEMMA CutPoint ==
    ASSUME NEW s \in Txt, NEW w, w = cut_point(s)
    PROVE  w \in Int /\ (w >= MinSegment => w \in 1..(Len(s) - 1))
<1> DEFINE I == {j \in DOMAIN s : s[j] = "blank" /\ j <= Len(s) \div 2 + Slack}
           S == {-1} \cup {i - 1 : i \in I}
<1>1. PICK l \in Nat : l = Len(s) /\ DOMAIN s = 1..l
  BY LenProperties DEF Txt
<1>2. I \in SUBSET (1..l)
  BY <1>1
<1>3. w = Max(S)
  BY DEF cut_point
<1> HIDE DEF I
<1>4. \E x \in S : \A y \in S : x >= y
  <2>1. CASE I = {}
    <3>1. -1 \in S /\ \A y \in S : -1 >= y
      BY <2>1
    <3> QED
      BY <3>1, Zenon
  <2>2. CASE I # {}
    <3>1. PICK m \in I : \A i \in I : i <= m
      BY <1>2, <2>2, Extremes
    <3>2. m - 1 \in S /\ \A y \in S : m - 1 >= y
      BY <1>2, <3>1
    <3> QED
      BY <3>2, Zenon
  <2> QED
    BY <2>1, <2>2
<1>5. Max(S) \in S
  <2> HIDE DEF S
  <2> QED
    BY <1>4, Zenon DEF Max
<1>6. MinSegment \in Nat /\ MinSegment >= 1
  BY FrontendAssumption
<1> QED
  BY <1>1, <1>2, <1>3, <1>5, <1>6

LEMMA TwoSegments ==
    ASSUME NEW x \in Neats, NEW y \in Neats
    PROVE  <<x, y>> \in Seq(Neats) /\ Content(<<x, y>>) = Solid(x) \o Solid(y)
<1>1. x \in Txt /\ y \in Txt
  BY DEF Neats
<1>2. <<x>> \in Seq(Txt) /\ Content(<<x>>) = Solid(x)
  BY <1>1, ContentOne
<1>3. <<x, y>> = Append(<<x>>, y)
  OBVIOUS
<1>4. Content(Append(<<x>>, y)) = Content(<<x>>) \o Solid(y)
  BY <1>1, <1>2, ContentSteps
<1>5. <<x, y>> \in Seq(Neats)
  OBVIOUS
<1> QED
  BY <1>2, <1>3, <1>4, <1>5

\* A segment that is cut near its middle is two, with nothing lost.
LEMMA HardSplitKeeps ==
    ASSUME NEW s \in Neats
    PROVE  hard_split(s) \in Seq(Neats) /\ Content(hard_split(s)) = Solid(s)
<1>1. s \in Txt /\ Neat(s)
  BY DEF Neats
<1>2. PICK w : w = cut_point(s)
  OBVIOUS
<1>3. CASE w < MinSegment
  <2>1. hard_split(s) = <<s>>
    BY <1>2, <1>3 DEF hard_split
  <2> QED
    BY <1>1, <2>1, ContentOne
<1>4. CASE ~ (w < MinSegment)
  <2>1. PICK l \in Nat : l = Len(s)
    BY <1>1, LenProperties DEF Txt
  <2>2. w \in 1..(l - 1)
    <3>1. w \in Int /\ MinSegment \in Int
      <4>1. MinSegment \in Int
        BY FrontendAssumption
      <4> QED
        BY <1>1, <1>2, <4>1, CutPoint
    <3>2. w >= MinSegment
      BY <1>4, <3>1
    <3> QED
      BY <1>1, <1>2, <2>1, <3>2, CutPoint
  <2>3. PICK a \in Txt, b \in Txt :
            /\ a = SubSeq(s, 1, w) /\ b = SubSeq(s, w + 1, Len(s)) /\ s = a \o b
            /\ Len(a) = w /\ a[1] = s[1] /\ Len(b) = l - w /\ b[l - w] = s[l]
    <3>1. w \in 0..Len(s) /\ 1 \in 1..w /\ l - w \in 1..(Len(s) - w) /\ w + (l - w) = l
      BY <2>1, <2>2
    <3>2. PICK a, b : a = SubSeq(s, 1, w) /\ b = SubSeq(s, w + 1, Len(s))
      OBVIOUS
    <3>3. /\ a \in Txt /\ Len(a) = w /\ \A i \in 1..w : a[i] = s[i]
          /\ b \in Txt /\ Len(b) = Len(s) - w /\ \A i \in 1..(Len(s) - w) : b[i] = s[w + i]
          /\ s = a \o b
      BY <1>1, <3>1, <3>2, CutText
    <3>4. a[1] = s[1] /\ b[l - w] = s[w + (l - w)]
      BY <3>1, <3>3
    <3> QED
      BY <2>1, <3>1, <3>2, <3>3, <3>4
  <2>4. s[1] \notin Spaces /\ s[l] \notin Spaces
    BY <1>1, <2>1 DEF Neat
  <2>5. 1 \in 1..Len(a) /\ l - w \in 1..Len(b)
    BY <2>1, <2>2, <2>3
  <2>6. Neat(trim(a)) /\ Solid(trim(a)) = Solid(a)
    BY <2>3, <2>4, <2>5, TrimNeat
  <2>7. Neat(trim(b)) /\ Solid(trim(b)) = Solid(b)
    BY <2>3, <2>4, <2>5, TrimNeat
  <2>8. trim(a) \in Neats /\ trim(b) \in Neats
    BY <2>6, <2>7 DEF Neats, Neat
  <2>9. hard_split(s) = <<trim(a), trim(b)>>
    BY <1>2, <1>4, <2>3 DEF hard_split
  <2>10. Solid(s) = Solid(a) \o Solid(b)
    BY <2>3, SolidCat
  <2>11. <<trim(a), trim(b)>> \in Seq(Neats)
         /\ Content(<<trim(a), trim(b)>>) = Solid(trim(a)) \o Solid(trim(b))
    BY <2>8, TwoSegments
  <2> QED
    BY <2>6, <2>7, <2>9, <2>10, <2>11
<1> QED
  BY <1>3, <1>4

-----------------------------------------------------------------------------
(* Cutting a text.                                                         *)

CutOf(s, between) ==
    {k \in DOMAIN s : \E i \in 1..k - 1, j \in k + 1..Len(s) :
        <<s[i], s[j]>> \in between /\ \A m \in i + 1..j - 1 : s[m] \in Spaces}
Part(s, cut, ps, k) ==
    IF k \notin cut THEN [ps EXCEPT ![Len(ps)] = Append(@, s[k])]
    ELSE IF k - 1 \in cut THEN ps ELSE Append(ps, <<>>)

\* The pairs of characters that a text is cut between: the first ends a segment.
Borders(s, between, E) ==
    \A i, j \in 1..Len(s) : <<s[i], s[j]>> \in between =>
        s[i] \in E /\ s[i] \notin Spaces /\ s[j] \notin Spaces

\* Only spaces are cut out, a cut begins after a character in E, and what follows it
\* is no space.
LEMMA CutFacts ==
    ASSUME NEW s \in Txt, NEW between, NEW E, Borders(s, between, E),
           NEW C, C = CutOf(s, between), NEW k \in 1..Len(s)
    PROVE  /\ k \in C => k # 1 /\ k # Len(s) /\ s[k] \in Spaces
           /\ k \in C /\ k - 1 \notin C => s[k - 1] \in E /\ s[k - 1] \notin Spaces
           /\ k \notin C /\ k - 1 \in C => s[k] \notin Spaces
<1>1. PICK n \in Nat : n = Len(s) /\ DOMAIN s = 1..n
  BY LenProperties DEF Txt
<1>2. \A m : m \in C <=> m \in 1..n /\ \E i \in 1..m - 1, j \in m + 1..n :
                            <<s[i], s[j]>> \in between /\ \A x \in i + 1..j - 1 : s[x] \in Spaces
  BY <1>1 DEF CutOf
<1>3. ASSUME NEW m \in C
      PROVE  m \in 1..n /\ \E i \in 1..(m - 1), j \in (m + 1)..n :
                /\ s[i] \in E /\ s[i] \notin Spaces /\ s[j] \notin Spaces
                /\ <<s[i], s[j]>> \in between /\ \A x \in i + 1..j - 1 : s[x] \in Spaces
  <2>1. PICK i \in 1..m - 1, j \in m + 1..n :
            <<s[i], s[j]>> \in between /\ \A x \in i + 1..j - 1 : s[x] \in Spaces
    BY <1>2
  <2>2. m \in 1..n
    BY <1>2
  <2>3. i \in 1..Len(s) /\ j \in 1..Len(s)
    BY <1>1, <2>2
  <2>4. s[i] \in E /\ s[i] \notin Spaces /\ s[j] \notin Spaces
    BY <2>1, <2>3 DEF Borders
  <2> QED
    BY <2>1, <2>2, <2>4
<1>4. ASSUME k \in C PROVE k # 1 /\ k # Len(s) /\ s[k] \in Spaces
  <2>1. PICK i \in 1..(k - 1), j \in (k + 1)..n : \A x \in i + 1..j - 1 : s[x] \in Spaces
    <3>1. PICK m \in C : m = k
      BY <1>4
    <3>2. PICK i \in 1..(m - 1), j \in (m + 1)..n :
              /\ s[i] \in E /\ s[i] \notin Spaces /\ s[j] \notin Spaces
              /\ <<s[i], s[j]>> \in between /\ \A x \in i + 1..j - 1 : s[x] \in Spaces
      BY <1>3
    <3> QED
      BY <3>1, <3>2
  <2>2. k \in i + 1..j - 1 /\ k # 1 /\ k # n
    BY <1>1
  <2> QED
    BY <1>1, <2>1, <2>2
<1>5. ASSUME k \in C, k - 1 \notin C PROVE s[k - 1] \in E /\ s[k - 1] \notin Spaces
  <2>1. PICK i \in 1..(k - 1), j \in (k + 1)..n :
            /\ s[i] \in E /\ s[i] \notin Spaces
            /\ <<s[i], s[j]>> \in between /\ \A x \in i + 1..j - 1 : s[x] \in Spaces
    BY <1>3, <1>5
  <2>2. CASE i = k - 1
    BY <2>1, <2>2
  <2>3. CASE i # k - 1
    <3>1. PICK m \in Int : m = k - 1
      BY <1>1
    <3>2. m \in 1..n /\ i \in 1..m - 1 /\ j \in m + 1..n
      BY <1>1, <2>3, <3>1
    <3>3. m \in C
      BY <1>2, <2>1, <3>2
    <3> QED
      BY <1>5, <3>1, <3>3
  <2> QED
    BY <2>2, <2>3
<1>6. ASSUME k \notin C, k - 1 \in C PROVE s[k] \notin Spaces
  <2>1. PICK m \in C : m = k - 1
    BY <1>6
  <2>2. PICK i \in 1..(m - 1), j \in (m + 1)..n :
            /\ s[j] \notin Spaces
            /\ <<s[i], s[j]>> \in between /\ \A x \in i + 1..j - 1 : s[x] \in Spaces
    BY <1>3
  <2>3. m \in 1..n
    BY <1>3
  <2>4. CASE j = k
    BY <2>2, <2>4
  <2>5. CASE j # k
    <3>1. i \in 1..k - 1 /\ j \in k + 1..n /\ k \in 1..n
      BY <1>1, <2>1, <2>3, <2>5
    <3>2. k \in C
      BY <1>2, <2>2, <3>1
    <3> QED
      BY <1>6, <3>2
  <2> QED
    BY <2>4, <2>5
<1> QED
  BY <1>4, <1>5, <1>6

\* The parts of a text, character by character.
LEMMA SplitSteps ==
    ASSUME NEW s \in Txt, NEW between
    PROVE  \E g : /\ split(s, between) = g[Len(s)] /\ g[0] = <<<<>>>>
                  /\ \A k \in 1..Len(s) : g[k] = Part(s, CutOf(s, between), g[k - 1], k)
<1> DEFINE C == CutOf(s, between)
           V == Seq(Txt) \ {<<>>}
           n == Len(s)
           h == [p \in V \X (1..n) |-> Part(s, C, p[1], p[2])]
           ks == [k \in 1..n |-> k]
           F(f) == f = [k \in 0..n |-> IF k = 0 THEN <<<<>>>> ELSE Part(s, C, f[k - 1], k)]
           g == CHOOSE f : F(f)
<1>1. n \in Nat /\ \A i \in 1..n : s[i] \in Glyph
  BY LenProperties, ElementOfSeq DEF Txt
<1>2. ks \in Seq(1..n) /\ Len(ks) = n /\ \A k \in 1..n : ks[k] = k
  <2>1. ks \in [1..n -> 1..n]
    OBVIOUS
  <2>2. ks \in Seq(1..n)
    BY <1>1, <2>1, SeqDef
  <2> QED
    BY <1>1, <2>1, <2>2, LenProperties
<1>3. \A v \in V, k \in 1..n : h[<<v, k>>] = Part(s, C, v, k)
  OBVIOUS
<1>4. ASSUME NEW v \in V, NEW k \in 1..n PROVE Part(s, C, v, k) \in V
  <2>1. PICK q \in Seq(Txt), l \in Txt : v = Append(q, l)
    BY SequenceEmptyOrAppend
  <2>2. <<>> \in Txt /\ Append(l, s[k]) \in Txt
    BY <1>1, EmptySeq, AppendProperties DEF Txt
  <2>3. Append(v, <<>>) \in V
    BY <2>2, AppendProperties
  <2>4. [v EXCEPT ![Len(v)] = Append(@, s[k])] \in V
    <3>1. PICK x \in Glyph, t \in Txt : x = s[k] /\ t = Append(l, x)
      BY <1>1, <2>2
    <3>2. [Append(q, l) EXCEPT ![Len(Append(q, l))] = Append(@, x)] = Append(q, Append(l, x))
      BY ExtendLast
    <3>3. Append(q, t) \in V
      BY AppendProperties
    <3> QED
      BY <2>1, <3>1, <3>2, <3>3
  <2> QED
    BY <2>3, <2>4 DEF Part
<1>5. Closed(h, <<<<>>>>, V, 1..n)
  <2>1. <<<<>>>> \in V
    BY EmptySeq DEF Txt
  <2> HIDE DEF h, V
  <2> QED
    BY <1>3, <1>4, <2>1 DEF Closed
<1>6. \E f : F(f)
  <2> HIDE DEF h, V, ks
  <2>1. PICK f \in [0..Len(ks) -> V] : Stepwise(h, <<<<>>>>, ks, f)
    BY <1>2, <1>5, StepwiseExists
  <2> HIDE DEF n
  <2>2. f \in [0..n -> V] /\ f = [k \in 0..n |-> IF k = 0 THEN <<<<>>>> ELSE h[<<f[k - 1], ks[k]>>]]
    BY <1>2, <2>1 DEF Stepwise
  <2>3. \A k \in 0..n : k # 0 => k \in 1..n /\ f[k - 1] \in V
    BY <1>1, <2>2
  <2>4. \A k \in 0..n : k # 0 => h[<<f[k - 1], ks[k]>>] = Part(s, C, f[k - 1], k)
    BY <1>2, <1>3, <2>3
  <2>5. F(f)
    BY <2>2, <2>4
  <2> QED
    BY <2>5
<1>7. F(g)
  BY <1>6, Zenon
<1>8. split(s, between) = g[n]
  BY DEF split, CutOf, Part
<1> HIDE DEF g
<1>9. g[0] = <<<<>>>> /\ \A k \in 1..n : g[k] = Part(s, C, g[k - 1], k)
  <2>1. \A k \in 0..n : g[k] = IF k = 0 THEN <<<<>>>> ELSE Part(s, C, g[k - 1], k)
    BY <1>7, Zenon
  <2>2. 0 \in 0..n /\ \A k \in 1..n : k \in 0..n /\ k # 0
    BY <1>1
  <2> QED
    BY <2>1, <2>2, Zenon
<1> QED
  BY <1>8, <1>9

\* What the parts of the first k characters have of them: finished ones in q, the last
\* one in l.
Cutting(s, C, E, ps, k) ==
    \E q \in Seq(Ending(E)), l \in Txt :
        /\ ps = Append(q, l)
        /\ Content(q) \o Solid(l) = Solid(SubSeq(s, 1, k))
        /\ Width(q) + Len(l) <= k
        /\ k \in C => l = <<>>
        /\ l = <<>> => k = 0 \/ k \in C
        /\ l # <<>> => l[1] \notin Spaces /\ l[Len(l)] = s[k]

LEMMA FirstMore ==
    ASSUME NEW s \in Txt, NEW k \in 1..Len(s)
    PROVE  /\ SubSeq(s, 1, k) = Append(SubSeq(s, 1, k - 1), s[k]) /\ s[k] \in Glyph
           /\ SubSeq(s, 1, k - 1) \in Txt /\ SubSeq(s, 1, k) \in Txt
<1>1. PICK n \in Nat : n = Len(s) /\ k \in 1..n
  BY LenProperties DEF Txt
<1>2. k \in 0..n /\ k - 1 \in 0..n
  BY <1>1
<1>3. PICK u, v : u = SubSeq(s, 1, k - 1) /\ v = SubSeq(s, 1, k)
  OBVIOUS
<1>4. /\ u \in Txt /\ Len(u) = k - 1 /\ \A i \in 1..(k - 1) : u[i] = s[i]
      /\ v \in Txt /\ Len(v) = k /\ \A i \in 1..k : v[i] = s[i]
  BY <1>1, <1>2, <1>3, CutText
<1>5. s[k] \in Glyph
  BY ElementOfSeq DEF Txt
<1>6. PICK w : w = Append(u, s[k])
  OBVIOUS
<1>7. w \in Txt /\ Len(w) = (k - 1) + 1 /\ w[(k - 1) + 1] = s[k] /\ \A i \in 1..(k - 1) : w[i] = u[i]
  BY <1>4, <1>5, <1>6, AppendProperties DEF Txt
<1>8. ASSUME NEW i \in 1..k PROVE v[i] = w[i]
  <2>1. CASE i = k
    BY <1>1, <1>4, <1>7, <2>1
  <2>2. CASE i # k
    <3>1. i \in 1..(k - 1)
      BY <1>1, <2>2
    <3> QED
      BY <1>4, <1>7, <3>1
  <2> QED
    BY <2>1, <2>2
<1>9. v = w
  BY <1>1, <1>4, <1>7, <1>8, SeqEqual DEF Txt
<1> QED
  BY <1>3, <1>4, <1>5, <1>6, <1>9

LEMMA WholeText ==
    ASSUME NEW s \in Txt
    PROVE  SubSeq(s, 1, Len(s)) = s
<1>1. PICK n \in Nat : n = Len(s) /\ n \in 0..Len(s)
  BY LenProperties DEF Txt
<1>2. /\ SubSeq(s, 1, n) \in Txt /\ Len(SubSeq(s, 1, n)) = n
      /\ \A i \in 1..n : SubSeq(s, 1, n)[i] = s[i]
  BY <1>1, CutText
<1>3. PICK t : t = SubSeq(s, 1, n)
  OBVIOUS
<1>4. t = s
  BY <1>1, <1>2, <1>3, SeqEqual DEF Txt
<1> QED
  BY <1>1, <1>3, <1>4

LEMMA CuttingStep ==
    ASSUME NEW s \in Txt, Neat(s), NEW between, NEW E, Borders(s, between, E),
           NEW C, C = CutOf(s, between), NEW k \in 1..Len(s), NEW ps, Cutting(s, C, E, ps, k - 1)
    PROVE  Cutting(s, C, E, Part(s, C, ps, k), k)
<1>1. PICK q \in Seq(Ending(E)), l \in Txt :
        /\ ps = Append(q, l)
        /\ Content(q) \o Solid(l) = Solid(SubSeq(s, 1, k - 1))
        /\ Width(q) + Len(l) <= k - 1
        /\ k - 1 \in C => l = <<>>
        /\ l = <<>> => k - 1 = 0 \/ k - 1 \in C
        /\ l # <<>> => l[1] \notin Spaces /\ l[Len(l)] = s[k - 1]
  BY Zenon DEF Cutting
<1>2. PICK n \in Nat, w \in Nat, a \in Nat, x \in Glyph :
          n = Len(s) /\ k \in 1..n /\ w = Width(q) /\ a = Len(l) /\ x = s[k] /\ w + a <= k - 1
  <2>1. Len(s) \in Nat /\ Len(l) \in Nat /\ s[k] \in Glyph
    BY LenProperties, ElementOfSeq DEF Txt
  <2>2. Width(q) \in Nat
    BY EndingTexts, WidthSteps
  <2> QED
    BY <1>1, <2>1, <2>2
<1>3. PICK u \in Txt : /\ u = SubSeq(s, 1, k - 1) /\ SubSeq(s, 1, k) = Append(u, x)
                        /\ Content(q) \o Solid(l) = Solid(u)
  BY <1>1, <1>2, FirstMore
<1>4. q \in Seq(Txt) /\ Content(q) \in Seq(Glyph \ Spaces) /\ Solid(l) \in Seq(Glyph \ Spaces)
  BY EndingTexts, ContentSteps, SolidSteps
<1>5. Solid(Append(u, x)) = IF x \in Spaces THEN Solid(u) ELSE Append(Solid(u), x)
  BY SolidSteps
<1>6. /\ k \in C => x \in Spaces /\ k # 1
      /\ (k \in C /\ k - 1 \notin C) => (s[k - 1] \in E /\ s[k - 1] \notin Spaces)
      /\ (k \notin C /\ k - 1 \in C) => x \notin Spaces
  BY <1>2, CutFacts
<1>7. CASE k \notin C
  <2>1. PICK t \in Txt : t = Append(l, x)
    BY AppendProperties DEF Txt
  <2>2. Part(s, C, ps, k) = Append(q, t)
    <3>1. [Append(q, l) EXCEPT ![Len(Append(q, l))] = Append(@, x)] = Append(q, Append(l, x))
      BY <1>4, ExtendLast
    <3> QED
      BY <1>1, <1>2, <1>7, <2>1, <3>1 DEF Part
  <2>3. Len(t) = a + 1 /\ t[a + 1] = x /\ \A i \in 1..a : t[i] = l[i]
    BY <1>2, <2>1, AppendProperties DEF Txt
  <2>4. Content(q) \o Solid(t) = Solid(Append(u, x))
    <3>1. Solid(t) = IF x \in Spaces THEN Solid(l) ELSE Append(Solid(l), x)
      BY <2>1, SolidSteps
    <3>2. CASE x \in Spaces
      BY <1>3, <1>5, <3>1, <3>2
    <3>3. CASE x \notin Spaces
      <4>1. Content(q) \o Append(Solid(l), x) = Append(Content(q) \o Solid(l), x)
        <5>1. x \in Glyph \ Spaces
          BY <3>3
        <5> QED
          BY <1>4, <5>1, CatAppend
      <4> QED
        BY <1>3, <1>5, <3>1, <3>3, <4>1
    <3> QED
      BY <3>2, <3>3
  <2>5. Width(q) + Len(t) <= k
    BY <1>2, <2>3
  <2>6. t # <<>>
    BY <1>2, <2>3, EmptySeq
  <2>7. t[1] \notin Spaces
    <3>1. CASE l = <<>>
      <4>1. a = 0
        BY <1>2, <3>1, EmptySeq
      <4>2. t[1] = x
        BY <2>3, <4>1
      <4>3. CASE k - 1 \in C
        BY <1>6, <1>7, <4>2, <4>3
      <4>4. CASE k - 1 \notin C
        <5>1. k = 1
          BY <1>1, <1>2, <3>1, <4>4
        <5> QED
          BY <1>2, <4>2, <5>1 DEF Neat
      <4> QED
        BY <4>3, <4>4
    <3>2. CASE l # <<>>
      <4>1. a # 0
        BY <1>2, <3>2, EmptySeq DEF Txt
      <4>2. 1 \in 1..a
        BY <1>2, <4>1
      <4> QED
        BY <1>1, <2>3, <3>2, <4>2
    <3> QED
      BY <3>1, <3>2
  <2>8. t[Len(t)] = s[k]
    BY <1>2, <2>3
  <2>9. Content(q) \o Solid(t) = Solid(SubSeq(s, 1, k))
    BY <1>3, <2>4
  <2> QED
    BY <1>7, <2>2, <2>5, <2>6, <2>7, <2>8, <2>9 DEF Cutting
<1>8. CASE k \in C /\ k - 1 \in C
  <2>1. Part(s, C, ps, k) = Append(q, l) /\ l = <<>>
    BY <1>1, <1>8 DEF Part
  <2>2. Content(q) \o Solid(l) = Solid(SubSeq(s, 1, k))
    BY <1>3, <1>5, <1>6, <1>8
  <2>3. Width(q) + Len(l) <= k
    BY <1>2
  <2> QED
    BY <1>8, <2>1, <2>2, <2>3 DEF Cutting
<1>9. CASE k \in C /\ k - 1 \notin C
  <2>1. Part(s, C, ps, k) = Append(Append(q, l), <<>>)
    BY <1>1, <1>9 DEF Part
  <2>2. l # <<>>
    <3>1. k - 1 # 0
      BY <1>2, <1>6, <1>9
    <3> QED
      BY <1>1, <1>9, <3>1
  <2>3. l \in Ending(E)
    <3>1. l[1] \notin Spaces /\ l[Len(l)] \notin Spaces /\ l[Len(l)] \in E
      BY <1>1, <1>6, <1>9, <2>2
    <3> QED
      BY <2>2, <3>1 DEF Ending, Neats, Neat, Last
  <2>4. PICK p \in Seq(Ending(E)) : p = Append(q, l)
    BY <2>3, AppendProperties
  <2>5. Content(p) = Content(q) \o Solid(l) /\ Width(p) = w + a + 1
    BY <1>2, <1>4, <2>4, ContentSteps, WidthSteps
  <2>6. Content(p) \o Solid(<<>>) = Solid(SubSeq(s, 1, k))
    <3>1. Content(p) \in Seq(Glyph \ Spaces)
      BY EndingTexts, ContentSteps
    <3>2. Content(p) \o <<>> = Content(p)
      BY <3>1, ConcatEmptySeq
    <3> QED
      BY <1>3, <1>5, <1>6, <1>9, <2>5, <3>2, SolidSteps
  <2>7. Width(p) + Len(<<>>) <= k
    <3>1. Len(<<>>) = 0
      BY EmptySeq
    <3> QED
      BY <1>2, <2>5, <3>1
  <2>8. <<>> \in Txt
    BY EmptySeq DEF Txt
  <2> QED
    BY <1>9, <2>1, <2>4, <2>6, <2>7, <2>8 DEF Cutting
<1> QED
  BY <1>7, <1>8, <1>9

\* Cut or not, all of a text is in its parts, and all but the last end in E.
LEMMA SplitKeeps ==
    ASSUME NEW s \in Neats, NEW between, NEW E, Borders(s, between, E)
    PROVE  \E q \in Seq(Ending(E)), z \in Neats :
               /\ split(s, between) = Append(q, z)
               /\ Content(Append(q, z)) = Solid(s)
               /\ Width(Append(q, z)) <= Len(s) + 1
<1>1. s \in Txt /\ Neat(s)
  BY DEF Neats
<1>2. PICK C, n : C = CutOf(s, between) /\ n = Len(s) /\ s # <<>> /\ n # 0 /\ n \in Nat
  <2>1. s # <<>> /\ Len(s) # 0 /\ Len(s) \in Nat
    BY <1>1, LenProperties, EmptySeq DEF Txt, Neat
  <2> QED
    BY <2>1
<1>3. PICK g : /\ split(s, between) = g[n] /\ g[0] = <<<<>>>>
               /\ \A k \in 1..n : g[k] = Part(s, C, g[k - 1], k)
  <2>1. \E g : /\ split(s, between) = g[Len(s)] /\ g[0] = <<<<>>>>
               /\ \A k \in 1..Len(s) : g[k] = Part(s, CutOf(s, between), g[k - 1], k)
    BY <1>1, SplitSteps, Zenon
  <2> QED
    BY <1>2, <2>1
<1>4. Cutting(s, C, E, g[0], 0)
  <2>1. <<>> \in Txt /\ <<>> \in Seq(Ending(E)) /\ <<>> \in Seq(Txt) /\ Len(<<>>) = 0
    BY EmptySeq DEF Txt
  <2>2. <<<<>>>> = Append(<<>>, <<>>)
    BY <2>1, ContentOne
  <2>3. SubSeq(s, 1, 0) = <<>>
    <3>1. SubSeq(s, 1, 0) \in Txt /\ Len(SubSeq(s, 1, 0)) = 0
      <4>1. 0 \in 0..Len(s)
        BY <1>2
      <4> QED
        BY <1>1, <4>1, CutText
    <3> QED
      BY <3>1, EmptySeq DEF Txt
  <2>4. Content(<<>>) \o Solid(<<>>) = Solid(SubSeq(s, 1, 0))
    BY <2>1, <2>3, ContentSteps, SolidSteps, ConcatEmptySeq
  <2>5. Width(<<>>) + Len(<<>>) <= 0
    BY <2>1, WidthSteps
  <2>6. 0 \notin C
    BY <1>1, <1>2, LenProperties DEF CutOf, Txt
  <2> QED
    BY <1>3, <2>1, <2>2, <2>4, <2>5, <2>6 DEF Cutting
<1> DEFINE P == {k \in 0..n : Cutting(s, C, E, g[k], k)}
<1>5. ASSUME NEW k \in 1..n, k - 1 \in P PROVE k \in P
  <2>1. Cutting(s, C, E, Part(s, C, g[k - 1], k), k)
    BY <1>1, <1>2, <1>5, CuttingStep
  <2> QED
    BY <1>2, <1>3, <2>1
<1>6. Cutting(s, C, E, g[n], n)
  <2>1. 0 \in P
    BY <1>2, <1>4
  <2> HIDE DEF P
  <2>2. 0..n \subseteq P
    BY <1>2, <1>5, <2>1, Counting
  <2>3. n \in P
    BY <1>2, <2>2
  <2> QED
    BY <2>3 DEF P
<1>7. PICK q \in Seq(Ending(E)), l \in Txt :
        /\ g[n] = Append(q, l)
        /\ Content(q) \o Solid(l) = Solid(SubSeq(s, 1, n))
        /\ Width(q) + Len(l) <= n
        /\ l = <<>> => n = 0 \/ n \in C
        /\ l # <<>> => l[1] \notin Spaces /\ l[Len(l)] = s[n]
  BY <1>6, Zenon DEF Cutting
<1>8. n \notin C
  <2>1. n \in 1..Len(s)
    BY <1>2
  <2> QED
    BY <1>1, <1>2, <2>1, CutFacts
<1>9. l \in Neats
  <2>1. l # <<>> /\ l[1] \notin Spaces /\ l[Len(l)] \notin Spaces
    BY <1>1, <1>2, <1>7, <1>8 DEF Neat
  <2> QED
    BY <2>1 DEF Neats, Neat
<1>10. q \in Seq(Txt)
  BY EndingTexts
<1>11. Content(Append(q, l)) = Solid(s)
  <2>1. SubSeq(s, 1, n) = s
    BY <1>1, <1>2, WholeText
  <2> QED
    BY <1>7, <1>10, <2>1, ContentSteps
<1>12. Width(Append(q, l)) <= Len(s) + 1
  <2>1. PICK w \in Nat, a \in Nat : w = Width(q) /\ a = Len(l) /\ w + a <= n
    BY <1>7, <1>10, WidthSteps, LenProperties DEF Txt
  <2>2. Width(Append(q, l)) = w + a + 1
    BY <1>10, <2>1, WidthSteps
  <2> QED
    BY <1>2, <2>1, <2>2
<1> QED
  BY <1>3, <1>7, <1>9, <1>11, <1>12

LEMMA ContentCat ==
    ASSUME NEW ss \in Seq(Txt), NEW ts \in Seq(Txt)
    PROVE  Content(ss \o ts) = Content(ss) \o Content(ts)
<1>1. ss \in Seq(Seq(Glyph)) /\ ts \in Seq(Seq(Glyph))
  BY DEF Txt
<1>2. FlattenSeq(ss \o ts) = FlattenSeq(ss) \o FlattenSeq(ts)
  BY <1>1, FlatCat
<1>3. FlattenSeq(ss) \in Txt /\ FlattenSeq(ts) \in Txt
  BY <1>1, FlatSteps DEF Txt
<1>4. Solid(FlattenSeq(ss) \o FlattenSeq(ts)) = Solid(FlattenSeq(ss)) \o Solid(FlattenSeq(ts))
  BY <1>3, SolidCat
<1> QED
  BY <1>2, <1>4 DEF Content

LEMMA NeatTexts ==
    ASSUME NEW ss \in Seq(Neats)
    PROVE  ss \in Seq(Txt)
<1>1. ss \in Seq(Ending(Glyph))
  BY AllNeat
<1> QED
  BY <1>1, EndingTexts

\* A segment that is too long becomes several, one that is not stays.
LEMMA SplitLongKeeps ==
    ASSUME NEW s \in Neats
    PROVE  /\ _split_long(s) \in Seq(Neats) /\ Content(_split_long(s)) = Solid(s)
           /\ Len(s) <= MaxSegment => _split_long(s) = <<s>>
<1>1. s \in Txt
  BY DEF Neats
<1>2. PICK between, parts : between = {"comma"} \X (Glyph \ Spaces) /\ parts = split(s, between)
  OBVIOUS
<1>3. Borders(s, between, Glyph)
  <2>1. "comma" \in Glyph /\ "comma" \notin Spaces
    BY DEF Glyph, Spaces
  <2>2. \A x, y : <<x, y>> \in between => x = "comma" /\ y \notin Spaces
    BY <1>2
  <2> QED
    BY <2>1, <2>2 DEF Borders
<1>4. parts \in Seq(Neats) /\ Content(parts) = Solid(s)
  <2>1. PICK q \in Seq(Ending(Glyph)), z \in Neats :
            split(s, between) = Append(q, z) /\ Content(Append(q, z)) = Solid(s)
    BY <1>3, SplitKeeps
  <2>2. Append(q, z) \in Seq(Neats)
    BY AllNeat, AppendProperties
  <2> QED
    BY <1>2, <2>1, <2>2
<1>5. _split_long(s) = IF Len(s) <= MaxSegment THEN <<s>>
                       ELSE IF Len(parts) = 1 THEN hard_split(s) ELSE regroup(parts)
  BY <1>2 DEF _split_long
<1>6. <<s>> \in Seq(Neats) /\ Content(<<s>>) = Solid(s)
  BY <1>1, ContentOne
<1>7. hard_split(s) \in Seq(Neats) /\ Content(hard_split(s)) = Solid(s)
  BY HardSplitKeeps
<1>8. regroup(parts) \in Seq(Neats) /\ Content(regroup(parts)) = Solid(s)
  BY <1>4, RegroupKeeps
<1> QED
  BY <1>5, <1>6, <1>7, <1>8

\* Segments, with those that are too long cut.
expand_long(segs) == FlattenSeq([i \in DOMAIN segs |-> _split_long(segs[i])])

LEMMA ExpandLongKeeps ==
    ASSUME NEW ss \in Seq(Neats)
    PROVE  /\ expand_long(ss) \in Seq(Neats) /\ Content(expand_long(ss)) = Content(ss)
           /\ (\A i \in 1..Len(ss) : Len(ss[i]) <= MaxSegment) => expand_long(ss) = ss
<1> DEFINE L == [s \in Neats |-> _split_long(s)]
           X(us) == FlattenSeq(Each(L, us))
           Keeps(us) ==
               /\ X(us) \in Seq(Neats) /\ Content(X(us)) = Content(us)
               /\ (\A i \in 1..Len(us) : Len(us[i]) <= MaxSegment) => X(us) = us
           P == {us \in Seq(Neats) : Keeps(us)}
<1>1. Replaces(L, Neats, Seq(Neats)) /\ \A s \in Neats : L[s] = _split_long(s)
  BY SplitLongKeeps DEF Replaces
<1>2. expand_long(ss) = X(ss)
  <2>1. \A i \in DOMAIN ss : ss[i] \in Neats
    BY ElementOfSeq, LenProperties
  <2> QED
    BY <2>1 DEF expand_long, Each
<1> HIDE DEF L
<1>3. <<>> \in P
  <2>1. X(<<>>) = <<>> /\ <<>> \in Seq(Neats)
    BY EachEmpty, FlatSteps, EmptySeq
  <2> QED
    BY <2>1
<1>4. ASSUME NEW us \in Seq(Neats), NEW u \in Neats, us \in P PROVE Append(us, u) \in P
  <2>1. PICK n \in Nat, t \in Seq(Neats) : n = Len(us) /\ t = Append(us, u)
    BY LenProperties, AppendProperties
  <2>2. Len(t) = n + 1 /\ t[n + 1] = u /\ \A i \in 1..n : t[i] = us[i]
    BY <2>1, AppendProperties
  <2>3. X(t) = X(us) \o L[u]
    <3>1. Each(L, Append(us, u)) = Append(Each(L, us), L[u])
      BY <1>1, EachAppend
    <3>2. Each(L, us) \in Seq(Seq(Neats)) /\ L[u] \in Seq(Neats)
      <4>1. L[u] \in Seq(Neats)
        BY <1>1, SplitLongKeeps
      <4> QED
        BY <1>1, <4>1, EachSteps
    <3>3. FlattenSeq(Append(Each(L, us), L[u])) = FlattenSeq(Each(L, us)) \o L[u]
      BY <3>2, FlatSteps
    <3> QED
      BY <2>1, <3>1, <3>3
  <2>4. L[u] \in Seq(Neats) /\ Content(L[u]) = Solid(u) /\ (Len(u) <= MaxSegment => L[u] = <<u>>)
    BY <1>1, SplitLongKeeps
  <2>5. Keeps(us)
    BY <1>4
  <2>6. X(us) \in Seq(Neats) /\ Content(X(us)) = Content(us)
    BY <2>5
  <2>7. X(t) \in Seq(Neats)
    BY <2>3, <2>4, <2>6, ConcatProperties
  <2>8. Content(X(t)) = Content(t)
    <3>1. Content(X(us) \o L[u]) = Content(X(us)) \o Content(L[u])
      BY <2>4, <2>6, NeatTexts, ContentCat
    <3>2. Content(Append(us, u)) = Content(us) \o Solid(u)
      <4>1. us \in Seq(Txt) /\ u \in Txt
        BY NeatTexts DEF Neats
      <4> QED
        BY <4>1, ContentSteps
    <3> QED
      BY <2>1, <2>3, <2>4, <2>6, <3>1, <3>2
  <2>9. ASSUME \A i \in 1..Len(t) : Len(t[i]) <= MaxSegment PROVE X(t) = t
    <3>1. \A i \in 1..n : i \in 1..Len(t) /\ t[i] = us[i]
      BY <2>1, <2>2
    <3>2. X(us) = us
      BY <2>1, <2>5, <2>9, <3>1
    <3>3. n + 1 \in 1..Len(t)
      BY <2>1, <2>2
    <3>4. L[u] = <<u>>
      BY <2>2, <2>4, <2>9, <3>3
    <3>5. us \o <<u>> = Append(us, u)
      OBVIOUS
    <3> QED
      BY <2>1, <2>3, <3>2, <3>4, <3>5
  <2> QED
    BY <2>1, <2>7, <2>8, <2>9
<1>5. Seq(Neats) \subseteq P
  <2> HIDE DEF P
  <2> QED
    BY <1>3, <1>4, Appending
<1>6. Keeps(ss)
  BY <1>5
<1> QED
  BY <1>2, <1>6

-----------------------------------------------------------------------------
(* The sentences of a text.                                                *)

Protected == [x \in Glyph |-> IF x = "abbr" THEN "placeholder" ELSE x]
Restored == [x \in Glyph |-> IF x = "placeholder" THEN "abbr" ELSE x]
Plain == Glyph \ {"placeholder"}

LEMMA Protection ==
    /\ Spaced(Protected) /\ Spaced(Restored)
    /\ Replaces(Protected, Glyph, Glyph) /\ Replaces(Restored, Glyph, Plain)
    /\ \A x \in Glyph : Protected[x] # "abbr" /\ (Restored[x] = "abbr" <=> x \in {"abbr", "placeholder"})
    /\ \A x \in Plain : Protected[x] \in Glyph /\ Restored[Protected[x]] = x
    /\ \A s \in Txt : protect(s) = Each(Protected, s) /\ restore(s) = Each(Restored, s)
<1>1. \A x \in Glyph : Protected[x] \in Glyph /\ Restored[x] \in Plain
  BY DEF Protected, Restored, Glyph, Plain
<1>2. \A x \in Glyph : (Protected[x] \in Spaces <=> x \in Spaces) /\ (Restored[x] \in Spaces <=> x \in Spaces)
  BY DEF Protected, Restored, Spaces
<1>3. Protected \in [Glyph -> Glyph] /\ Restored \in [Glyph -> Plain] /\ Restored \in [Glyph -> Glyph]
  <2>1. Plain \subseteq Glyph
    BY DEF Plain
  <2> QED
    BY <1>1, <2>1 DEF Protected, Restored
<1>4. \A x \in Glyph : Protected[x] # "abbr" /\ (Restored[x] = "abbr" <=> x \in {"abbr", "placeholder"})
  BY DEF Protected, Restored
<1>5. \A x \in Plain : Protected[x] \in Glyph /\ Restored[Protected[x]] = x
  BY DEF Protected, Restored, Glyph, Plain
<1>6. ASSUME NEW s \in Txt PROVE protect(s) = Each(Protected, s) /\ restore(s) = Each(Restored, s)
  <2>1. \A i \in DOMAIN s : s[i] \in Glyph
    BY ElementOfSeq, LenProperties DEF Txt
  <2> QED
    BY <2>1 DEF protect, restore, Each, Protected, Restored
<1> QED
  BY <1>1, <1>2, <1>3, <1>4, <1>5, <1>6 DEF Spaced, Replaces

LEMMA PlainText ==
    ASSUME NEW t \in Seq(Plain)
    PROVE  t \in Txt /\ Solid(t) \in Seq(Plain)
<1> DEFINE P == {u \in Seq(Plain) : u \in Txt /\ Solid(u) \in Seq(Plain)}
<1>1. <<>> \in P
  BY EmptySeq, SolidSteps DEF Txt
<1>2. ASSUME NEW u \in Seq(Plain), NEW x \in Plain, u \in P PROVE Append(u, x) \in P
  <2>1. u \in Txt /\ Solid(u) \in Seq(Plain) /\ x \in Glyph
    BY <1>2 DEF Plain
  <2>2. Append(u, x) \in Txt /\ Append(u, x) \in Seq(Plain) /\ Append(Solid(u), x) \in Seq(Plain)
    BY <2>1, AppendProperties DEF Txt
  <2>3. Solid(Append(u, x)) = IF x \in Spaces THEN Solid(u) ELSE Append(Solid(u), x)
    BY <2>1, SolidSteps
  <2> QED
    BY <2>1, <2>2, <2>3
<1>3. Seq(Plain) \subseteq P
  <2> HIDE DEF P
  <2> QED
    BY <1>1, <1>2, Appending
<1> QED
  BY <1>3

\* What is protected is restored.
LEMMA RestoreProtect ==
    ASSUME NEW t \in Seq(Plain)
    PROVE  Each(Restored, Each(Protected, t)) = t
<1>1. \A x \in Plain : Protected[x] \in Glyph /\ Restored[Protected[x]] = x
  BY Protection
<1>2. PICK n \in Nat : n = Len(t) /\ DOMAIN t = 1..n /\ t \in [1..n -> Plain]
  BY LenProperties
<1>3. Each(Protected, t) = [i \in 1..n |-> Protected[t[i]]]
  BY <1>2 DEF Each
<1>4. Each(Restored, Each(Protected, t)) = [i \in 1..n |-> Restored[Protected[t[i]]]]
  BY <1>3 DEF Each
<1> QED
  BY <1>1, <1>2, <1>4

\* The sentences, short ones joined: all but the last end in a stop.
LEMMA SentencesKeep ==
    ASSUME NEW t \in Txt, trim(t) # <<>>
    PROVE  \E o \in Seq(Ending({"stop"})), y \in Neats :
               /\ _merge_short(sentences(protect(trim(t)))) = Append(o, y)
               /\ Content(Append(o, y)) = Each(Protected, Solid(t))
               /\ Width(Append(o, y)) <= Len(t) + 1
               /\ o # <<>> => Long(Append(o, y))
<1>1. PICK s \in Txt : /\ s = trim(t) /\ Neat(s) /\ Solid(s) = Solid(t) /\ Len(s) <= Len(t)
  BY TrimNeat
<1>2. PICK p : p = protect(s) /\ p = Each(Protected, s)
  BY Protection
<1>3. p \in Neats /\ p \in Txt /\ Len(p) = Len(s) /\ Solid(p) = Each(Protected, Solid(t))
  BY <1>1, <1>2, Protection, EachSolid DEF Neats
<1>4. PICK between : between = {"stop", "abbr"} \X {"upper"} /\ sentences(p) = split(p, between)
  BY DEF sentences
<1>5. Borders(p, between, {"stop"})
  <2>1. "stop" \notin Spaces /\ "upper" \notin Spaces
    BY DEF Spaces
  <2>2. \A i \in 1..Len(p) : p[i] # "abbr"
    <3>1. \A i \in 1..Len(s) : s[i] \in Glyph
      BY ElementOfSeq DEF Txt
    <3>2. \A i \in 1..Len(s) : p[i] = Protected[s[i]]
      <4>1. s \in Seq(Glyph) /\ Replaces(Protected, Glyph, Glyph)
        BY Protection DEF Txt
      <4> QED
        BY <1>2, <4>1, EachSteps
    <3>3. \A x \in Glyph : Protected[x] # "abbr"
      BY Protection
    <3> QED
      BY <1>3, <3>1, <3>2, <3>3
  <2>3. \A x, y : <<x, y>> \in between => x \in {"stop", "abbr"} /\ y = "upper"
    BY <1>4
  <2> QED
    BY <2>1, <2>2, <2>3 DEF Borders
<1>6. PICK q \in Seq(Ending({"stop"})), z \in Neats :
            /\ split(p, between) = Append(q, z)
            /\ Content(Append(q, z)) = Solid(p)
            /\ Width(Append(q, z)) <= Len(p) + 1
  BY <1>3, <1>5, SplitKeeps
<1>7. PICK ss : ss = Append(q, z)
  OBVIOUS
<1>8. PICK o \in Seq(Ending({"stop"})), y \in Neats :
               /\ _merge_short(ss) = Append(o, y)
               /\ Content(Append(o, y)) = Content(ss)
               /\ Width(Append(o, y)) <= Width(ss)
               /\ o # <<>> => Long(Append(o, y))
  <2>1. \E o \in Seq(Ending({"stop"})), y \in Neats : Shortened(Append(q, z), o, y)
    BY MergeShortKeeps
  <2> QED
    BY <1>7, <2>1 DEF Shortened
<1>9. Width(Append(o, y)) <= Len(t) + 1
  <2>1. PICK a \in Nat, b \in Nat : a = Len(s) /\ b = Len(t) /\ a <= b
    BY <1>1, LenProperties DEF Txt
  <2>2. Width(ss) \in Nat /\ Width(Append(o, y)) \in Nat
    <3>1. q \in Seq(Txt) /\ o \in Seq(Txt) /\ z \in Txt /\ y \in Txt
      BY EndingTexts DEF Neats
    <3>2. ss \in Seq(Txt) /\ Append(o, y) \in Seq(Txt)
      BY <1>7, <3>1, AppendProperties
    <3> QED
      BY <3>2, WidthSteps
  <2>3. Width(ss) <= a + 1
    BY <1>3, <1>6, <1>7, <2>1
  <2> QED
    BY <1>8, <2>1, <2>2, <2>3
<1>10. _merge_short(sentences(protect(trim(t)))) = Append(o, y)
  BY <1>1, <1>2, <1>4, <1>6, <1>7, <1>8
<1>11. Content(Append(o, y)) = Each(Protected, Solid(t))
  BY <1>3, <1>6, <1>7, <1>8
<1> QED
  BY <1>8, <1>9, <1>10, <1>11

\* The segments of t: all of it, none empty, none that ends or is short against the rule.
SegmentsOf(t, g) ==
    /\ g \in Seq(Seq(Plain)) /\ Solid(FlattenSeq(g)) = Solid(t)
    /\ \A i \in DOMAIN g : g[i] # <<>> /\ trim(g[i]) = g[i]
    /\ Len(t) <= MaxSegment =>
          /\ \A i \in 1..Len(g) - 1 : Last(g[i]) # "abbr"
          /\ Len(g) > 1 => \A i \in DOMAIN g : Len(g[i]) >= MinSegment

LEMMA SegmentsKeep ==
    ASSUME NEW t \in Seq(Plain)
    PROVE  SegmentsOf(t, segment_sentences(t))
<1>1. t \in Txt /\ Solid(t) \in Seq(Plain)
  BY PlainText
<1>2. CASE trim(t) = <<>>
  <2>1. segment_sentences(t) = <<>>
    BY <1>2 DEF segment_sentences
  <2>2. Solid(t) = <<>>
    <3>1. Solid(trim(t)) = Solid(t)
      BY <1>1, TrimNeat
    <3> QED
      BY <1>2, <3>1, SolidSteps
  <2>3. FlattenSeq(<<>>) = <<>> /\ Solid(<<>>) = <<>>
    BY FlatSteps, SolidSteps
  <2>4. <<>> \in Seq(Seq(Plain)) /\ Len(<<>>) = 0 /\ DOMAIN <<>> = {}
    OBVIOUS
  <2>5. SegmentsOf(t, <<>>)
    BY <2>2, <2>3, <2>4 DEF SegmentsOf
  <2> QED
    BY <2>1, <2>5
<1>3. CASE trim(t) # <<>>
  <2>1. PICK o \in Seq(Ending({"stop"})), y \in Neats :
               /\ _merge_short(sentences(protect(trim(t)))) = Append(o, y)
               /\ Content(Append(o, y)) = Each(Protected, Solid(t))
               /\ Width(Append(o, y)) <= Len(t) + 1
               /\ o # <<>> => Long(Append(o, y))
    BY <1>1, <1>3, SentencesKeep
  <2>2. PICK ss : ss = Append(o, y)
    OBVIOUS
  <2>3. o \in Seq(Txt) /\ o \in Seq(Neats) /\ ss \in Seq(Neats) /\ ss \in Seq(Txt)
    <3>1. Ending({"stop"}) \subseteq Neats
      BY DEF Ending
    <3>2. PICK n \in Nat : o \in [1..n -> Ending({"stop"})]
      BY LenProperties
    <3>3. o \in [1..n -> Neats]
      BY <3>1, <3>2
    <3>4. o \in Seq(Neats)
      BY <3>3, SeqDef
    <3>5. ss \in Seq(Neats)
      BY <2>2, <3>4, AppendProperties
    <3> QED
      BY <3>4, <3>5, NeatTexts
  <2>4. PICK e : /\ e = expand_long(ss) /\ e \in Seq(Neats) /\ Content(e) = Content(ss)
                 /\ (\A i \in 1..Len(ss) : Len(ss[i]) <= MaxSegment) => e = ss
    BY <2>3, ExpandLongKeeps
  <2>5. PICK m \in Nat : m = Len(e) /\ DOMAIN e = 1..m /\ \A i \in 1..m : e[i] \in Neats /\ e[i] \in Txt
    BY <2>4, LenProperties, ElementOfSeq DEF Neats
  <2>6. PICK g : g = segment_sentences(t) /\ g = [i \in DOMAIN e |-> restore(e[i])]
    BY <1>3, <2>1, <2>2, <2>4 DEF segment_sentences, expand_long
  <2>7. \A i \in 1..m : g[i] = Each(Restored, e[i])
    BY <2>5, <2>6, Protection
  <2> DEFINE R == [s \in Txt |-> Each(Restored, s)]
  <2>8. Replaces(R, Txt, Seq(Plain)) /\ \A s \in Txt : R[s] = Each(Restored, s)
    <3>1. \A s \in Seq(Glyph) : Each(Restored, s) \in Seq(Plain)
      BY Protection, EachSteps
    <3> QED
      BY <3>1 DEF Replaces, Txt
  <2>9. g = Each(R, e)
    BY <2>5, <2>6, <2>7 DEF Each
  <2>10. FlattenSeq(g) = Each(Restored, FlattenSeq(e))
    <3>1. e \in Seq(Seq(Glyph)) /\ R = [s \in Seq(Glyph) |-> Each(Restored, s)]
      BY <2>4, NeatTexts DEF Txt
    <3>2. Replaces(Restored, Glyph, Plain)
      BY Protection
    <3> HIDE DEF R
    <3>3. FlattenSeq(Each(R, e)) = Each(Restored, FlattenSeq(e))
      BY <3>1, <3>2, EachFlat
    <3> QED
      BY <2>9, <3>3
  <2> HIDE DEF R
  <2>11. g \in Seq(Seq(Plain)) /\ Len(g) = m
    <3>1. e \in Seq(Txt)
      BY <2>4, NeatTexts
    <3>2. Each(R, e) \in Seq(Seq(Plain)) /\ Len(Each(R, e)) = Len(e)
      BY <2>8, <3>1, EachSteps
    <3> QED
      BY <2>5, <2>9, <3>2
  <2>12. Solid(FlattenSeq(g)) = Solid(t)
    <3>1. FlattenSeq(e) \in Txt
      <4>1. e \in Seq(Seq(Glyph))
        BY <2>4, NeatTexts DEF Txt
      <4> QED
        BY <4>1, FlatSteps DEF Txt
    <3>2. Solid(Each(Restored, FlattenSeq(e))) = Each(Restored, Solid(FlattenSeq(e)))
      BY <3>1, Protection, EachSolid
    <3>3. Solid(FlattenSeq(e)) = Each(Protected, Solid(t))
      BY <2>1, <2>2, <2>4 DEF Content
    <3>4. Each(Restored, Each(Protected, Solid(t))) = Solid(t)
      BY <1>1, RestoreProtect
    <3> QED
      BY <2>10, <3>2, <3>3, <3>4
  <2>13. ASSUME NEW i \in 1..m
         PROVE  /\ g[i] # <<>> /\ trim(g[i]) = g[i] /\ Len(g[i]) = Len(e[i])
                /\ Last(g[i]) = Restored[Last(e[i])]
    <3>1. PICK s \in Txt : s = e[i] /\ Neat(s)
      BY <2>5 DEF Neats
    <3>2. PICK u : u = g[i] /\ u = Each(Restored, s)
      BY <2>7, <3>1
    <3>3. u \in Txt /\ Len(u) = Len(s) /\ Neat(u) /\ Last(u) = Restored[Last(s)]
      BY <3>1, <3>2, Protection, EachSolid
    <3>4. trim(u) = u /\ u # <<>>
      BY <3>3, TrimNeat DEF Neat
    <3> QED
      BY <3>1, <3>2, <3>3, <3>4
  <2>14. ASSUME Len(t) <= MaxSegment
         PROVE  /\ \A i \in 1..Len(g) - 1 : Last(g[i]) # "abbr"
                /\ Len(g) > 1 => \A i \in 1..m : Len(g[i]) >= MinSegment
    <3>1. PICK n \in Nat, l \in Nat : n = Len(o) /\ l = Len(t)
      BY <1>1, LenProperties DEF Txt
    <3>2. Len(ss) = n + 1 /\ \A i \in 1..n : ss[i] = o[i]
      BY <2>2, <2>3, <3>1, AppendProperties
    <3>3. ASSUME NEW i \in 1..Len(ss) PROVE Len(ss[i]) <= MaxSegment
      <4>1. PICK a \in Nat, w \in Nat : a = Len(ss[i]) /\ w = Width(ss)
        <5>1. ss[i] \in Txt
          BY <2>3, ElementOfSeq
        <5> QED
          BY <2>3, <5>1, LenProperties, WidthSteps DEF Txt
      <4>2. Len(ss[i]) + Len(ss) <= Width(ss)
        BY <2>3, WidthBounds
      <4>3. a + (n + 1) <= w
        BY <3>2, <4>1, <4>2
      <4>4. w <= l + 1 /\ l <= MaxSegment /\ MaxSegment \in Nat
        BY <2>1, <2>2, <2>14, <3>1, <4>1, FrontendAssumption
      <4>5. a <= MaxSegment
        BY <4>3, <4>4
      <4> QED
        BY <4>1, <4>5
    <3>4. e = ss /\ m = n + 1
      BY <2>4, <2>5, <3>2, <3>3
    <3>5. ASSUME NEW i \in 1..Len(g) - 1 PROVE Last(g[i]) # "abbr"
      <4>1. i \in 1..n /\ i \in 1..m
        BY <2>11, <3>1, <3>4
      <4>2. e[i] \in Ending({"stop"})
        BY <3>1, <3>2, <3>4, <4>1, ElementOfSeq
      <4>3. Last(e[i]) = "stop"
        BY <4>2 DEF Ending
      <4>4. Restored["stop"] # "abbr"
        BY DEF Restored, Glyph
      <4> QED
        BY <2>13, <4>1, <4>3, <4>4
    <3>6. ASSUME Len(g) > 1, NEW i \in 1..m PROVE Len(g[i]) >= MinSegment
      <4>1. n # 0
        BY <2>11, <3>1, <3>4, <3>6
      <4>2. o # <<>>
        BY <3>1, <4>1, EmptySeq
      <4>3. Long(ss)
        BY <2>1, <2>2, <4>2
      <4>4. Len(e[i]) >= MinSegment
        BY <3>2, <3>4, <4>3 DEF Long
      <4> QED
        BY <2>13, <4>4
    <3> QED
      BY <3>5, <3>6
  <2>15. DOMAIN g = 1..m
    BY <2>5, <2>6
  <2>16. SegmentsOf(t, g)
    BY <2>11, <2>12, <2>13, <2>14, <2>15 DEF SegmentsOf
  <2> QED
    BY <2>6, <2>16
<1> QED
  BY <1>2, <1>3

-----------------------------------------------------------------------------
(* Numbers, said and heard.                                                *)

Ears == [total : Nat, group : Nat]
Ones == {_ONES[i] : i \in 1..9}
Tens == {_TENS[i] : i \in 1..9}
Scales == {"milyar", "milyon", "bin"}
Said == Ones \cup Tens \cup Scales \cup {"yuz", "sifir"}

\* The words of a table are different, and those of one are in no other.
LEMMA Vocabulary ==
    /\ ToSet(_ONES) = Ones /\ ToSet(_TENS) = Tens
    /\ \A i \in 1..9 : Index(_ONES, _ONES[i]) = i /\ Index(_TENS, _TENS[i]) = i
    /\ Ones \cap Tens = {}
    /\ \A w \in Ones \cup Tens : w \notin Scales \cup {"yuz", "sifir", "eksi", "virgul"}
<1>1. DOMAIN _ONES = 1..9 /\ DOMAIN _TENS = 1..9
  BY DEF _ONES, _TENS
<1>2. \A i \in 1..9 : i = 1 \/ i = 2 \/ i = 3 \/ i = 4 \/ i = 5 \/ i = 6 \/ i = 7 \/ i = 8 \/ i = 9
  OBVIOUS
<1>3. \A i, j \in 1..9 : _ONES[i] = _ONES[j] => i = j
  BY SMTT(60) DEF _ONES
<1>4. \A i, j \in 1..9 : _TENS[i] = _TENS[j] => i = j
  BY SMTT(60) DEF _TENS
<1>5. \A i \in 1..9 : Index(_ONES, _ONES[i]) = i
  BY <1>1, <1>3 DEF Index
<1>6. \A i \in 1..9 : Index(_TENS, _TENS[i]) = i
  BY <1>1, <1>4 DEF Index
<1>7. \A i, j \in 1..9 : _ONES[i] # _TENS[j]
  BY <1>2 DEF _ONES, _TENS
<1>8. \A i \in 1..9 : _ONES[i] \notin Scales \cup {"yuz", "sifir", "eksi", "virgul"}
  BY <1>2 DEF _ONES, Scales
<1>9. \A i \in 1..9 : _TENS[i] \notin Scales \cup {"yuz", "sifir", "eksi", "virgul"}
  BY <1>2 DEF _TENS, Scales
<1>10. ToSet(_ONES) = Ones /\ ToSet(_TENS) = Tens
  BY <1>1 DEF ToSet, Ones, Tens
<1> QED
  BY <1>5, <1>6, <1>7, <1>8, <1>9, <1>10 DEF Ones, Tens

\* What each word does to what was heard.
LEMMA Hearing ==
    ASSUME NEW a \in Ears
    PROVE  /\ \A i \in 1..9 : Hear(a, _ONES[i]) = [total |-> a.total, group |-> a.group + i]
           /\ \A i \in 1..9 : Hear(a, _TENS[i]) = [total |-> a.total, group |-> a.group + 10 * i]
           /\ Hear(a, "yuz") = [total |-> a.total,
                                group |-> (IF a.group = 0 THEN 1 ELSE a.group) * 100]
           /\ Hear(a, "sifir") = a
           /\ \A k \in 1..3 : Hear(a, _SCALES[k].name) =
                 [total |-> a.total + (IF a.group = 0 THEN 1 ELSE a.group) * _SCALES[k].value,
                  group |-> 0]
<1>1. \A i \in 1..9 : _ONES[i] \in Ones /\ _TENS[i] \in Tens
  BY DEF Ones, Tens
<1>2. ASSUME NEW i \in 1..9 PROVE Hear(a, _ONES[i]) = [total |-> a.total, group |-> a.group + i]
  <2>1. _ONES[i] \in ToSet(_ONES) /\ Index(_ONES, _ONES[i]) = i
    BY <1>1, Vocabulary
  <2>2. Hear(a, _ONES[i]) = [a EXCEPT !.group = @ + i]
    <3> DEFINE w == _ONES[i]
    <3>1. /\ w \in ToSet(_ONES) /\ Index(_ONES, w) = i
          /\ w \notin ToSet(_TENS) /\ w # "yuz" /\ w # "sifir"
      BY <1>1, <2>1, Vocabulary
    <3> HIDE DEF w
    <3>2. Hear(a, w) = [a EXCEPT !.group = @ + Index(_ONES, w)]
      BY <3>1 DEF Hear
    <3> QED
      BY <3>1, <3>2 DEF w
  <2> QED
    BY <2>2 DEF Ears
<1>3. ASSUME NEW i \in 1..9
      PROVE  Hear(a, _TENS[i]) = [total |-> a.total, group |-> a.group + 10 * i]
  <2>1. _TENS[i] \notin ToSet(_ONES) /\ _TENS[i] \in ToSet(_TENS) /\ Index(_TENS, _TENS[i]) = i
    BY <1>1, Vocabulary
  <2>2. Hear(a, _TENS[i]) = [a EXCEPT !.group = @ + 10 * i]
    <3> DEFINE w == _TENS[i]
    <3>1. /\ w \in ToSet(_TENS) /\ Index(_TENS, w) = i
          /\ w \notin ToSet(_ONES) /\ w # "yuz" /\ w # "sifir"
      BY <1>1, <2>1, Vocabulary
    <3> HIDE DEF w
    <3>2. Hear(a, w) = [a EXCEPT !.group = @ + 10 * Index(_TENS, w)]
      BY <3>1 DEF Hear
    <3> QED
      BY <3>1, <3>2 DEF w
  <2> QED
    BY <2>2 DEF Ears
<1>4. \A w \in Scales \cup {"yuz", "sifir"} : w \notin ToSet(_ONES) /\ w \notin ToSet(_TENS)
  BY Vocabulary
<1>5. Max({a.group, 1}) = IF a.group = 0 THEN 1 ELSE a.group
  <2>1. a.group \in Nat
    BY DEF Ears
  <2> QED
    BY <2>1 DEF Max
<1>6. Hear(a, "yuz") = [total |-> a.total, group |-> (IF a.group = 0 THEN 1 ELSE a.group) * 100]
  <2>1. Hear(a, "yuz") = [a EXCEPT !.group = Max({@, 1}) * 100]
    BY <1>4 DEF Hear
  <2> QED
    BY <1>5, <2>1 DEF Ears
<1>7. Hear(a, "sifir") = a
  BY <1>4 DEF Hear
<1>8. ASSUME NEW k \in 1..3
      PROVE  Hear(a, _SCALES[k].name) =
                 [total |-> a.total + (IF a.group = 0 THEN 1 ELSE a.group) * _SCALES[k].value,
                  group |-> 0]
  <2> DEFINE w == _SCALES[k].name
             scale == CHOOSE x \in ToSet(_SCALES) : x.name = w
  <2>1. w \in Scales /\ w # "yuz" /\ w # "sifir"
    BY DEF _SCALES, Scales
  <2>2. scale = _SCALES[k]
    <3>1. ToSet(_SCALES) = {_SCALES[1], _SCALES[2], _SCALES[3]}
      BY DEF _SCALES, ToSet
    <3>2. \A x \in ToSet(_SCALES) : x.name = w => x = _SCALES[k]
      BY <3>1 DEF _SCALES
    <3>3. _SCALES[k] \in ToSet(_SCALES)
      BY <3>1
    <3> HIDE DEF w
    <3>4. _SCALES[k].name = w
      BY DEF w
    <3> QED
      BY <3>2, <3>3, <3>4, Zenon
  <2> HIDE DEF w
  <2>3. Hear(a, w) = [total |-> a.total + Max({a.group, 1}) * scale.value, group |-> 0]
    <3>1. w \notin ToSet(_ONES) /\ w \notin ToSet(_TENS) /\ w # "yuz" /\ w # "sifir"
      BY <1>4, <2>1
    <3> HIDE DEF scale
    <3> QED
      BY <3>1 DEF Hear, scale
  <2> QED
    BY <1>5, <2>2, <2>3 DEF w
<1> QED
  BY <1>2, <1>3, <1>6, <1>7, <1>8

LEMMA HearEars ==
    ASSUME NEW a \in Ears, NEW w \in Said
    PROVE  Hear(a, w) \in Ears
<1>1. a.total \in Nat /\ a.group \in Nat
  BY DEF Ears
<1>2. CASE w \in Ones
  <2>1. PICK i \in 1..9 : w = _ONES[i]
    BY <1>2 DEF Ones
  <2>2. Hear(a, w) = [total |-> a.total, group |-> a.group + i]
    BY <2>1, Hearing
  <2>3. a.group + i \in Nat
    BY <1>1
  <2> QED
    BY <1>1, <2>2, <2>3 DEF Ears
<1>3. CASE w \in Tens
  <2>1. PICK i \in 1..9 : w = _TENS[i]
    BY <1>3 DEF Tens
  <2>2. Hear(a, w) = [total |-> a.total, group |-> a.group + 10 * i]
    BY <2>1, Hearing
  <2>3. a.group + 10 * i \in Nat
    BY <1>1
  <2> QED
    BY <1>1, <2>2, <2>3 DEF Ears
<1>4. CASE w \in Scales
  <2>1. PICK k \in 1..3 : w = _SCALES[k].name /\ _SCALES[k].value \in Nat
    <3>1. /\ _SCALES[1].name = "milyar" /\ _SCALES[2].name = "milyon" /\ _SCALES[3].name = "bin"
          /\ _SCALES[1].value \in Nat /\ _SCALES[2].value \in Nat /\ _SCALES[3].value \in Nat
      BY DEF _SCALES
    <3> QED
      BY <1>4, <3>1 DEF Scales
  <2>2. PICK v \in Nat : v = (IF a.group = 0 THEN 1 ELSE a.group) * _SCALES[k].value
    BY <1>1, <2>1
  <2>3. Hear(a, w) = [total |-> a.total + v, group |-> 0]
    BY <2>1, <2>2, Hearing
  <2> QED
    BY <1>1, <2>3 DEF Ears
<1>5. CASE w = "yuz"
  <2>1. Hear(a, w) = [total |-> a.total, group |-> (IF a.group = 0 THEN 1 ELSE a.group) * 100]
    BY <1>5, Hearing
  <2>2. (IF a.group = 0 THEN 1 ELSE a.group) * 100 \in Nat
    BY <1>1
  <2> QED
    BY <1>1, <2>1, <2>2 DEF Ears
<1>6. CASE w = "sifir"
  BY <1>6, Hearing
<1> QED
  BY <1>2, <1>3, <1>4, <1>5, <1>6 DEF Said

Silence0 == [total |-> 0, group |-> 0]

LEMMA HeardSteps ==
    /\ Heard(<<>>) = Silence0
    /\ \A s \in Seq(Said) : Heard(s) \in Ears
    /\ \A s \in Seq(Said), w \in Said : Heard(Append(s, w)) = Hear(Heard(s), w)
<1> DEFINE h == [p \in Ears \X Said |-> Hear(p[1], p[2])]
           F(f, s) == f = [i \in 0..Len(s) |->
                               IF i = 0 THEN [total |-> 0, group |-> 0] ELSE Hear(f[i - 1], s[i])]
<1>1. \A v \in Ears, w \in Said : h[<<v, w>>] = Hear(v, w)
  OBVIOUS
<1>2. Closed(h, Silence0, Ears, Said)
  <2>1. Silence0 \in Ears
    BY DEF Silence0, Ears
  <2> HIDE DEF h
  <2> QED
    BY <1>1, <2>1, HearEars DEF Closed
<1>3. ASSUME NEW s \in Seq(Said) PROVE Heard(s) \in Ears /\ Heard(s) = Fold(h, Silence0, s)
  <2> DEFINE g == CHOOSE f : F(f, s)
  <2>1. Len(s) \in Nat /\ \A i \in 1..Len(s) : s[i] \in Said
    BY LenProperties, ElementOfSeq
  <2>2. PICK f \in [0..Len(s) -> Ears] : Stepwise(h, Silence0, s, f)
    BY <1>2, StepwiseExists
  <2>3. F(f, s)
    <3> HIDE DEF h
    <3>1. \A i \in 1..Len(s) : i - 1 \in 0..Len(s) /\ f[i - 1] \in Ears
      BY <2>1, <2>2
    <3>2. \A i \in 1..Len(s) : h[<<f[i - 1], s[i]>>] = Hear(f[i - 1], s[i])
      BY <1>1, <2>1, <3>1
    <3>3. \A i \in 0..Len(s) : i # 0 => i \in 1..Len(s)
      BY <2>1
    <3> QED
      BY <2>1, <2>2, <3>2, <3>3 DEF Stepwise, Silence0
  <2>4. F(g, s)
    BY <2>3, Zenon
  <2>5. Heard(s) = g[Len(s)]
    BY DEF Heard
  <2>6. Follows(g, h, Silence0, Ears, s, Len(s))
    <3> HIDE DEF h
    <3>1. g[0] = Silence0 /\ \A i \in 1..Len(s) : g[i] = Hear(g[i - 1], s[i])
      <4> HIDE DEF g
      <4>1. \A i \in 0..Len(s) : g[i] = IF i = 0 THEN Silence0 ELSE Hear(g[i - 1], s[i])
        BY <2>4, Zenon DEF Silence0
      <4>2. 0 \in 0..Len(s) /\ \A i \in 1..Len(s) : i \in 0..Len(s) /\ i # 0
        BY <2>1
      <4> QED
        BY <4>1, <4>2, Zenon
    <3> HIDE DEF g
    <3> QED
      BY <1>1, <2>1, <3>1 DEF Follows
  <2> HIDE DEF g, h
  <2> QED
    BY <1>2, <2>5, <2>6, FoldIs
<1> HIDE DEF h
<1>4. /\ Fold(h, Silence0, <<>>) = Silence0
      /\ \A s \in Seq(Said), w \in Said :
            Fold(h, Silence0, Append(s, w)) = h[<<Fold(h, Silence0, s), w>>]
  BY <1>2, FoldSteps
<1>5. \A s \in Seq(Said), w \in Said : Append(s, w) \in Seq(Said)
  BY AppendProperties
<1>6. <<>> \in Seq(Said)
  BY EmptySeq
<1>7. \A s \in Seq(Said), w \in Said : Heard(Append(s, w)) = h[<<Heard(s), w>>]
  BY <1>3, <1>4, <1>5
<1> QED
  BY <1>1, <1>3, <1>4, <1>6, <1>7

\* s is heard as t, and g of the group that is being said.
Hears(s, t, g) ==
    s \in Seq(Said) /\ t \in Nat /\ g \in Nat /\ Heard(s) = [total |-> t, group |-> g]

LEMMA HearWord ==
    ASSUME NEW s, NEW t, NEW g, Hears(s, t, g), NEW w \in Said,
           NEW u \in Nat, NEW h \in Nat,
           Hear([total |-> t, group |-> g], w) = [total |-> u, group |-> h]
    PROVE  <<w>> \in Seq(Said) /\ Hears(s \o <<w>>, u, h)
<1>1. s \in Seq(Said) /\ Heard(s) = [total |-> t, group |-> g]
  BY DEF Hears
<1>2. <<w>> \in Seq(Said) /\ s \o <<w>> = Append(s, w) /\ Append(s, w) \in Seq(Said)
  BY <1>1, AppendIsConcat, AppendProperties
<1>3. Heard(Append(s, w)) = Hear(Heard(s), w)
  BY <1>1, HeardSteps
<1> QED
  BY <1>1, <1>2, <1>3 DEF Hears

LEMMA SaidCat ==
    \A a, b, c \in Seq(Said) : a \o (b \o c) = (a \o b) \o c
BY ConcatAssociative, SMTT(30)

LEMMA HearNone ==
    ASSUME NEW s, NEW t, NEW g, Hears(s, t, g)
    PROVE  <<>> \in Seq(Said) /\ Hears(s \o <<>>, t, g)
BY EmptySeq, ConcatEmptySeq DEF Hears

LEMMA HearOne ==
    ASSUME NEW s, NEW t, NEW g, Hears(s, t, g), NEW i \in 1..9
    PROVE  <<_ONES[i]>> \in Seq(Said) /\ Hears(s \o <<_ONES[i]>>, t, g + i)
<1> DEFINE a == [total |-> t, group |-> g]
<1>1. a \in Ears /\ a.total = t /\ a.group = g /\ t \in Nat /\ g + i \in Nat
  BY DEF Hears, Ears
<1> HIDE DEF a
<1>2. Hear(a, _ONES[i]) = [total |-> t, group |-> g + i]
  BY <1>1, Hearing
<1>3. _ONES[i] \in Said
  BY DEF Said, Ones
<1> QED
  BY <1>1, <1>2, <1>3, HearWord DEF a

LEMMA HearTen ==
    ASSUME NEW s, NEW t, NEW g, Hears(s, t, g), NEW i \in 1..9
    PROVE  <<_TENS[i]>> \in Seq(Said) /\ Hears(s \o <<_TENS[i]>>, t, g + 10 * i)
<1> DEFINE a == [total |-> t, group |-> g]
<1>1. a \in Ears /\ a.total = t /\ a.group = g /\ t \in Nat /\ g + 10 * i \in Nat
  BY DEF Hears, Ears
<1> HIDE DEF a
<1>2. Hear(a, _TENS[i]) = [total |-> t, group |-> g + 10 * i]
  BY <1>1, Hearing
<1>3. _TENS[i] \in Said
  BY DEF Said, Tens
<1> QED
  BY <1>1, <1>2, <1>3, HearWord DEF a

LEMMA HearHundred ==
    ASSUME NEW s, NEW t, NEW g, Hears(s, t, g), NEW h \in Nat, h = IF g = 0 THEN 1 ELSE g
    PROVE  <<"yuz">> \in Seq(Said) /\ Hears(s \o <<"yuz">>, t, 100 * h)
<1> DEFINE a == [total |-> t, group |-> g]
<1>1. a \in Ears /\ a.total = t /\ a.group = g /\ t \in Nat /\ 100 * h \in Nat
  BY DEF Hears, Ears
<1> HIDE DEF a
<1>2. Hear(a, "yuz") = [total |-> t, group |-> h * 100]
  BY <1>1, Hearing, ZenonT(60)
<1>3. "yuz" \in Said /\ h * 100 = 100 * h
  BY DEF Said
<1> QED
  BY <1>1, <1>2, <1>3, HearWord DEF a

\* The scales: each a thousand of the next.
LEMMA Thousands ==
    /\ \A k \in 1..3 : _SCALES[k].value \in Nat \ {0}
    /\ _SCALES[1].value = 1000 * _SCALES[2].value
    /\ _SCALES[2].value = 1000 * _SCALES[3].value
    /\ _SCALES[3].value = 1000
    /\ _SCALES[1].name = "milyar" /\ _SCALES[2].name = "milyon" /\ _SCALES[3].name = "bin"
BY SMT DEF _SCALES

\* u is n of a scale; r is at most so many that a group of three digits can count it.
Many(u, n, k) == u = n * _SCALES[k].value
Fits(r, k) == r < 1000 * _SCALES[k].value

LEMMA HearScale ==
    ASSUME NEW s, NEW t, NEW g, Hears(s, t, g), NEW h \in Nat, h = (IF g = 0 THEN 1 ELSE g),
           NEW k \in 1..3, NEW u, Many(u, h, k)
    PROVE  <<_SCALES[k].name>> \in Seq(Said)
           /\ Hears(s \o <<_SCALES[k].name>>, t + u, 0)
<1> DEFINE a == [total |-> t, group |-> g]
<1>1. a \in Ears /\ a.total = t /\ a.group = g /\ t \in Nat
  BY DEF Hears, Ears
<1>2. _SCALES[k].value \in Nat /\ _SCALES[k].name \in Said
  BY Thousands DEF Said, Scales
<1>3. u = h * _SCALES[k].value /\ u \in Nat /\ t + u \in Nat
  BY <1>1, <1>2 DEF Many
<1> HIDE DEF a
<1>4. Hear(a, _SCALES[k].name) = [total |-> t + u, group |-> 0]
  BY <1>1, <1>3, Hearing, ZenonT(60)
<1> QED
  BY <1>1, <1>2, <1>3, <1>4, HearWord DEF a

\* A number is its quotient and its remainder.
LEMMA QuotientOf ==
    ASSUME NEW b \in Nat, NEW p \in Nat \ {0}
    PROVE  \E q, r \in Nat : q = b \div p /\ r = b % p /\ b = p * q + r /\ r < p
OBVIOUS

LEMMA SayBelow ==
    ASSUME NEW s, NEW t, Hears(s, t, 0), NEW n \in 0..999
    PROVE  _below_thousand(n) \in Seq(Said) /\ Hears(s \o _below_thousand(n), t, n)
<1>1. PICK i, r \in Nat : i = n \div 100 /\ r = n % 100 /\ n = 100 * i + r /\ r < 100
  BY QuotientOf
<1>2. PICK j, k \in Nat : j = r \div 10 /\ r = 10 * j + k /\ k < 10
  BY <1>1, QuotientOf
<1>3. PICK q, m \in Nat : m = n % 10 /\ n = 10 * q + m /\ m < 10
  BY QuotientOf
<1>4. k = m /\ i \in 0..9 /\ j \in 0..9
  BY <1>1, <1>2, <1>3
<1> DEFINE A == When(i > 1, <<_ONES[i]>>)
           B == When(i > 0, <<"yuz">>)
           C == When(j > 0, <<_TENS[j]>>)
           D == When(k > 0, <<_ONES[k]>>)
<1>5. _below_thousand(n) = ((A \o B) \o C) \o D
  BY <1>1, <1>2, <1>3, <1>4, ZenonT(60) DEF _below_thousand
<1>6. A \in Seq(Said) /\ Hears(s \o A, t, IF i > 1 THEN i ELSE 0)
  <2>1. CASE i > 1
    <3>1. i \in 1..9 /\ 0 + i = i /\ A = <<_ONES[i]>>
      BY <1>4, <2>1 DEF When
    <3> HIDE DEF A
    <3> QED
      BY <2>1, <3>1, HearOne
  <2>2. CASE ~(i > 1)
    <3>1. A = <<>>
      BY <2>2 DEF When
    <3> HIDE DEF A
    <3> QED
      BY <2>2, <3>1, HearNone
  <2> QED
    BY <2>1, <2>2
<1> HIDE DEF A
<1>7. B \in Seq(Said) /\ Hears((s \o A) \o B, t, 100 * i)
  <2>1. CASE i > 0
    <3>1. B = <<"yuz">>
      BY <2>1 DEF When
    <3>2. i = IF (IF i > 1 THEN i ELSE 0) = 0 THEN 1 ELSE (IF i > 1 THEN i ELSE 0)
      BY <2>1
    <3> HIDE DEF B
    <3> QED
      BY <1>6, <3>1, <3>2, HearHundred
  <2>2. CASE ~(i > 0)
    <3>1. B = <<>> /\ (IF i > 1 THEN i ELSE 0) = 0 /\ 100 * i = 0
      BY <2>2 DEF When
    <3> HIDE DEF B
    <3> QED
      BY <1>6, <3>1, HearNone
  <2> QED
    BY <2>1, <2>2
<1> HIDE DEF B
<1>8. C \in Seq(Said) /\ Hears(((s \o A) \o B) \o C, t, 100 * i + 10 * j)
  <2>1. CASE j > 0
    <3>1. C = <<_TENS[j]>> /\ j \in 1..9
      BY <1>4, <2>1 DEF When
    <3> HIDE DEF C
    <3> QED
      BY <1>7, <3>1, HearTen
  <2>2. CASE ~(j > 0)
    <3>1. C = <<>> /\ 100 * i + 10 * j = 100 * i
      BY <2>2 DEF When
    <3> HIDE DEF C
    <3> QED
      BY <1>7, <3>1, HearNone
  <2> QED
    BY <2>1, <2>2
<1> HIDE DEF C
<1>9. D \in Seq(Said) /\ Hears((((s \o A) \o B) \o C) \o D, t, n)
  <2>1. n = (100 * i + 10 * j) + k
    BY <1>1, <1>2
  <2>2. CASE k > 0
    <3>1. D = <<_ONES[k]>> /\ k \in 1..9
      BY <1>2, <2>2 DEF When
    <3> HIDE DEF D
    <3> QED
      BY <1>8, <2>1, <3>1, HearOne, ZenonT(60)
  <2>3. CASE ~(k > 0)
    <3>1. D = <<>> /\ n = 100 * i + 10 * j
      BY <2>1, <2>3 DEF When
    <3> HIDE DEF D
    <3> QED
      BY <1>8, <3>1, HearNone
  <2> QED
    BY <2>2, <2>3
<1> HIDE DEF D
<1>10. /\ s \o (((A \o B) \o C) \o D) = (((s \o A) \o B) \o C) \o D
       /\ ((A \o B) \o C) \o D \in Seq(Said)
  <2>1. s \in Seq(Said)
    BY DEF Hears
  <2>2. A \o B \in Seq(Said) /\ (A \o B) \o C \in Seq(Said)
        /\ ((A \o B) \o C) \o D \in Seq(Said)
    BY <1>6, <1>7, <1>8, <1>9, ConcatProperties
  <2>3. s \o (A \o B) = (s \o A) \o B
    BY <1>6, <1>7, <2>1, SaidCat, Zenon
  <2>4. s \o ((A \o B) \o C) = (s \o (A \o B)) \o C
    BY <1>8, <2>1, <2>2, SaidCat, ZenonT(60)
  <2>5. s \o (((A \o B) \o C) \o D) = (s \o ((A \o B) \o C)) \o D
    BY <1>9, <2>1, <2>2, SaidCat, ZenonT(60)
  <2> QED
    BY <2>2, <2>3, <2>4, <2>5
<1> QED
  BY <1>5, <1>9, <1>10

LEMMA Below ==
    ASSUME NEW q \in Nat, NEW p \in Nat \ {0}, p * q < 1000 * p
    PROVE  q < 1000
<1>1. CASE q >= 1000
  <2>1. p * (q - 1000) >= 0
    BY <1>1
  <2>2. p * (q - 1000) = p * q - 1000 * p
    OBVIOUS
  <2> QED
    BY <2>1, <2>2
<1> QED
  BY <1>1

\* A count and the scale it is one of.
LEMMA SayScaled ==
    ASSUME NEW s, NEW t, Hears(s, t, 0), NEW n \in 1..999, NEW k \in 1..3,
           NEW u, Many(u, n, k)
    PROVE  Hears(s \o scaled(n, _SCALES[k].name), t + u, 0)
<1> DEFINE w == _SCALES[k].name
           A == When(w # "bin" \/ n # 1, _below_thousand(n))
<1>1. PICK g \in Nat : g = IF w # "bin" \/ n # 1 THEN n ELSE 0
  OBVIOUS
<1>2. A \in Seq(Said) /\ Hears(s \o A, t, g)
  <2>1. CASE w # "bin" \/ n # 1
    <3>1. A = _below_thousand(n) /\ n \in 0..999 /\ g = n
      BY <1>1, <2>1 DEF When
    <3>2. _below_thousand(n) \in Seq(Said) /\ Hears(s \o _below_thousand(n), t, n)
      BY <3>1, SayBelow, ZenonT(60)
    <3> HIDE DEF A
    <3> QED
      BY <3>1, <3>2
  <2>2. CASE ~(w # "bin" \/ n # 1)
    <3>1. A = <<>> /\ g = 0
      BY <1>1, <2>2 DEF When
    <3> HIDE DEF A
    <3> QED
      BY <3>1, HearNone
  <2> QED
    BY <2>1, <2>2
<1>3. scaled(n, w) = A \o <<w>>
  BY DEF scaled
<1> HIDE DEF A, w
<1>4. n \in Nat /\ n = IF g = 0 THEN 1 ELSE g
  BY <1>1
<1>5. <<w>> \in Seq(Said) /\ Hears((s \o A) \o <<w>>, t + u, 0)
  BY <1>2, <1>4, HearScale DEF w
<1>6. s \o (A \o <<w>>) = (s \o A) \o <<w>>
  <2>1. s \in Seq(Said)
    BY DEF Hears
  <2> QED
    BY <1>2, <1>5, <2>1, ConcatAssociative
<1> QED
  BY <1>3, <1>5, <1>6 DEF w

\* What has been said and what is left are n.
Sums(x, n) == x.rest \in Nat /\ \E t \in Nat : Hears(x.parts, t, 0) /\ t + x.rest = n

LEMMA SayScale ==
    ASSUME NEW x, NEW n \in Nat, Sums(x, n), NEW k \in 1..3, Fits(x.rest, k),
           NEW after, after = say_scale(x, _SCALES[k])
    PROVE  Sums(after, n) /\ after.rest < _SCALES[k].value
<1>1. PICK v \in Nat \ {0} : v = _SCALES[k].value
  BY Thousands
<1>2. PICK t \in Nat, r \in Nat : r = x.rest /\ Hears(x.parts, t, 0) /\ t + r = n
  BY DEF Sums
<1>3. CASE r < v
  <2>1. after = x
    BY <1>1, <1>2, <1>3 DEF say_scale
  <2> QED
    BY <1>1, <1>2, <1>3, <2>1
<1>4. CASE ~(r < v)
  <2>1. PICK m, l \in Nat : m = r \div v /\ l = r % v /\ r = v * m + l /\ l < v
    BY <1>1, QuotientOf
  <2>2. PICK u \in Nat : u + l = r /\ Many(u, m, k)
    <3>1. v * m \in Nat /\ v * m = m * v
      OBVIOUS
    <3> QED
      BY <1>1, <2>1, <3>1 DEF Many
  <2>3. m \in 1..999
    <3>1. m < 1000
      <4>1. v * m < 1000 * v
        <5>1. r < 1000 * v /\ v * m \in Nat
          BY <1>1, <1>2 DEF Fits
        <5> QED
          BY <2>1, <5>1
      <4> QED
        BY <4>1, Below
    <3>2. m = 0 => v * m = 0
      OBVIOUS
    <3> QED
      BY <1>4, <2>1, <3>1, <3>2
  <2>4. after = [parts |-> x.parts \o scaled(m, _SCALES[k].name), rest |-> l]
    BY <1>1, <1>2, <1>4, <2>1 DEF say_scale
  <2>5. Hears(x.parts \o scaled(m, _SCALES[k].name), t + u, 0)
    BY <1>1, <1>2, <2>2, <2>3, SayScaled, ZenonT(60)
  <2>6. t + u \in Nat /\ (t + u) + l = n
    BY <1>2, <2>2
  <2>7. after.parts = x.parts \o scaled(m, _SCALES[k].name) /\ after.rest = l
    <3> DEFINE p == x.parts \o scaled(m, _SCALES[k].name)
    <3> HIDE DEF p
    <3>1. after = [parts |-> p, rest |-> l]
      BY <2>4 DEF p
    <3>2. after.parts = p /\ after.rest = l
      BY <3>1
    <3> QED
      BY <3>2 DEF p
  <2> QED
    BY <1>1, <2>1, <2>5, <2>6, <2>7 DEF Sums
<1> QED
  BY <1>1, <1>2, <1>3, <1>4

\* What is heard of a number is the number.
LEMMA SayNumber ==
    ASSUME NEW n \in Nat, Fits(n, 1)
    PROVE  /\ number_to_turkish(n) \in Seq(Said) /\ number_to_turkish(n) # <<>>
           /\ Value(number_to_turkish(n)) = n
<1> DEFINE W == number_to_turkish(n)
<1>1. Hears(<<>>, 0, 0)
  BY EmptySeq, HeardSteps DEF Silence0, Hears
<1>2. CASE n = 0
  <2>1. W = <<"sifir">>
    BY <1>2 DEF number_to_turkish
  <2> HIDE DEF W
  <2>2. "sifir" \in Said /\ [total |-> 0, group |-> 0] \in Ears
    BY DEF Said, Ears
  <2>3. Hear([total |-> 0, group |-> 0], "sifir") = [total |-> 0, group |-> 0]
    BY <2>2, Hearing
  <2>4. <<"sifir">> \in Seq(Said) /\ Hears(<<>> \o <<"sifir">>, 0, 0)
    BY <1>1, <2>2, <2>3, HearWord
  <2>5. Heard(W) = [total |-> 0, group |-> 0] /\ W \in Seq(Said)
    BY <2>1, <2>4 DEF Hears
  <2>6. W # <<>> /\ Value(W) = 0
    BY <2>1, <2>5 DEF Value
  <2> QED
    BY <1>2, <2>5, <2>6 DEF W
<1>3. CASE n # 0
  <2>1. PICK first, billions, millions, thousands :
            /\ first = [parts |-> <<>>, rest |-> n]
            /\ billions = say_scale(first, _SCALES[1])
            /\ millions = say_scale(billions, _SCALES[2])
            /\ thousands = say_scale(millions, _SCALES[3])
            /\ W = thousands.parts \o _below_thousand(thousands.rest)
    BY <1>3 DEF number_to_turkish
  <2> HIDE DEF W
  <2>2. PICK a \in Nat \ {0}, b \in Nat \ {0}, c \in Nat \ {0} :
            /\ a = _SCALES[1].value /\ b = _SCALES[2].value /\ c = _SCALES[3].value
            /\ a = 1000 * b /\ b = 1000 * c /\ c = 1000
    BY Thousands
  <2>3. Sums(first, n) /\ first.rest = n
    BY <1>1, <2>1 DEF Sums
  <2>4. Sums(billions, n) /\ billions.rest < a
    <3>1. Fits(first.rest, 1) /\ 1 \in 1..3
      BY <2>3
    <3>2. billions = say_scale(first, _SCALES[1])
      BY <2>1
    <3>3. Sums(billions, n) /\ billions.rest < _SCALES[1].value
      BY <2>3, <3>1, <3>2, SayScale
    <3> QED
      BY <2>2, <3>3
  <2>5. Sums(millions, n) /\ millions.rest < b
    <3>1. Fits(billions.rest, 2)
      BY <2>2, <2>4 DEF Fits
    <3>2. millions = say_scale(billions, _SCALES[2]) /\ 2 \in 1..3
      BY <2>1
    <3>3. Sums(millions, n) /\ millions.rest < _SCALES[2].value
      BY <2>4, <3>1, <3>2, SayScale
    <3> QED
      BY <2>2, <3>3
  <2>6. Sums(thousands, n) /\ thousands.rest \in 0..999
    <3>1. Fits(millions.rest, 3)
      BY <2>2, <2>5 DEF Fits
    <3>2. thousands = say_scale(millions, _SCALES[3]) /\ 3 \in 1..3
      BY <2>1
    <3>3. Sums(thousands, n) /\ thousands.rest < _SCALES[3].value
      BY <2>5, <3>1, <3>2, SayScale
    <3> QED
      BY <2>2, <3>3, SMTT(30) DEF Sums
  <2>7. PICK u \in Nat : Hears(thousands.parts, u, 0) /\ u + thousands.rest = n
    BY <2>6 DEF Sums
  <2>8. Hears(W, u, thousands.rest)
    BY <2>1, <2>6, <2>7, SayBelow, ZenonT(60)
  <2>9. W \in Seq(Said) /\ Heard(W) = [total |-> u, group |-> thousands.rest]
    BY <2>8 DEF Hears
  <2>10. Value(W) = n
    BY <2>7, <2>9 DEF Value
  <2>11. Value(<<>>) = 0
    BY <1>1 DEF Value, Hears
  <2> QED
    BY <1>3, <2>9, <2>10, <2>11 DEF W
<1> QED
  BY <1>2, <1>3

\* A decimal.
LEMMA SayDigit ==
    ASSUME NEW d \in 0..9, NEW w, w = IF d = 0 THEN "sifir" ELSE _ONES[d]
    PROVE  w \in Said /\ Value(<<w>>) = d
<1>1. w \in Said
  BY DEF Said, Ones
<1>2. Hears(<<>>, 0, 0) /\ [total |-> 0, group |-> 0] \in Ears
  BY EmptySeq, HeardSteps DEF Silence0, Hears, Ears
<1>3. Hears(<<>> \o <<w>>, 0, d)
  <2>1. CASE d = 0
    <3>1. Hear([total |-> 0, group |-> 0], w) = [total |-> 0, group |-> 0]
      BY <1>2, <2>1, Hearing
    <3> QED
      BY <1>1, <1>2, <2>1, <3>1, HearWord
  <2>2. CASE d # 0
    <3>1. d \in 1..9 /\ 0 + d = d /\ w = _ONES[d]
      BY <2>2
    <3> QED
      BY <1>2, <3>1, HearOne
  <2> QED
    BY <2>1, <2>2
<1>4. <<>> \o <<w>> = <<w>>
  BY <1>1, ConcatEmptySeq
<1>5. Heard(<<w>>) = [total |-> 0, group |-> d]
  BY <1>3, <1>4 DEF Hears
<1> QED
  BY <1>1, <1>5 DEF Value

LEMMA SpokenFits ==
    ASSUME NEW n \in Nat, n \div 10^9 < 1000
    PROVE  Fits(n, 1)
<1>1. PICK p \in Nat \ {0} : p = _SCALES[1].value
  BY Thousands
<1>2. 10^9 = p
  BY <1>1, SMT DEF _SCALES
<1>3. n \div p < 1000
  BY <1>2
<1>4. PICK q, r \in Nat : q = n \div p /\ n = p * q + r /\ r < p
  BY QuotientOf
<1>5. q <= 999
  BY <1>3, <1>4
<1>6. p * q <= p * 999
  <2>1. p * (999 - q) >= 0
    BY <1>5
  <2>2. p * (999 - q) = p * 999 - p * q
    OBVIOUS
  <2> QED
    BY <2>1, <2>2
<1>7. n < 1000 * p
  BY <1>4, <1>6
<1> QED
  BY <1>1, <1>7 DEF Fits

\* The words of a number, in three parts.
Unsigned(n) == decimal_to_turkish(n.whole, n.decimals)

LEMMA WordsAre == Word = Said \cup {"virgul", "eksi"} /\ "virgul" \notin Said /\ "eksi" \notin Said
<1>1. {scale.name : scale \in ToSet(_SCALES)} = Scales
  <2>1. ToSet(_SCALES) = {_SCALES[1], _SCALES[2], _SCALES[3]}
    BY SMT DEF _SCALES, ToSet
  <2>2. /\ _SCALES[1].name = "milyar" /\ _SCALES[2].name = "milyon" /\ _SCALES[3].name = "bin"
    BY Thousands
  <2> QED
    BY <2>1, <2>2 DEF Scales
<1>2. Word = Said \cup {"virgul", "eksi"}
  BY <1>1, Vocabulary DEF Word, Said
<1>3. "virgul" \notin Said /\ "eksi" \notin Said
  BY Vocabulary DEF Said, Scales
<1> QED
  BY <1>2, <1>3

LEMMA UnsignedReads ==
    ASSUME NEW whole \in Nat, Fits(whole, 1), NEW dec \in Seq(0..9),
           NEW U, U = decimal_to_turkish(whole, dec)
    PROVE  /\ U \in Seq(Word) /\ U # <<>> /\ U[1] \in Said
           /\ ReadBack(U) = [whole |-> whole, decimals |-> dec]
<1> DEFINE W == number_to_turkish(whole)
           D == [i \in DOMAIN dec |-> IF dec[i] = 0 THEN "sifir" ELSE _ONES[dec[i]]]
           V == When(dec # <<>>, <<"virgul">> \o D)
           points == {i \in DOMAIN U : U[i] = "virgul"}
           point == IF points = {} THEN Len(U) + 1 ELSE Min(points)
           decimals == SubSeq(U, point + 1, Len(U))
<1>0. ReadBack(U) = [whole |-> Value(SubSeq(U, 1, point - 1)),
                 decimals |-> [i \in DOMAIN decimals |-> Value(<<decimals[i]>>)]]
  BY DEF ReadBack
<1>1. U = W \o V
  BY DEF decimal_to_turkish
<1>2. W \in Seq(Said) /\ W # <<>> /\ Value(W) = whole
  BY SayNumber
<1> HIDE DEF W
<1>3. PICK m \in Nat : m = Len(dec) /\ DOMAIN dec = 1..m /\ dec \in [1..m -> 0..9]
  BY LenProperties
<1>4. D \in Seq(Said) /\ Len(D) = m /\ \A i \in 1..m : Value(<<D[i]>>) = dec[i]
  <2>1. \A i \in 1..m : D[i] = IF dec[i] = 0 THEN "sifir" ELSE _ONES[dec[i]]
    BY <1>3
  <2>2. D = [i \in 1..m |-> D[i]]
    BY <1>3
  <2> HIDE DEF D
  <2>3. \A i \in 1..m : D[i] \in Said /\ Value(<<D[i]>>) = dec[i]
    BY <1>3, <2>1, SayDigit
  <2>4. D \in [1..m -> Said]
    BY <2>2, <2>3
  <2>5. D \in Seq(Said)
    BY <2>4, SeqDef
  <2>6. Len(D) = m
    BY <2>4, <2>5, LenProperties
  <2> QED
    BY <2>3, <2>5, <2>6
<1> HIDE DEF D
<1>5. PICK k \in Nat : k = Len(W) /\ k >= 1 /\ \A i \in 1..k : W[i] \in Said
  BY <1>2, LenProperties, EmptySeq, ElementOfSeq
<1>6. Said \subseteq Word /\ "virgul" \in Word /\ W \in Seq(Word) /\ D \in Seq(Word)
      /\ "virgul" \notin Said
  <2>1. Said \subseteq Word /\ "virgul" \in Word /\ "virgul" \notin Said
    BY WordsAre
  <2>2. W \in [1..k -> Said] /\ D \in [1..m -> Said]
    BY <1>2, <1>4, <1>5, LenProperties
  <2>3. W \in [1..k -> Word] /\ D \in [1..m -> Word]
    BY <2>1, <2>2
  <2> QED
    BY <2>1, <2>3, SeqDef
<1>7. CASE dec = <<>>
  <2>1. m = 0
    BY <1>3, <1>7, EmptySeq
  <2>2. V = <<>>
    BY <1>7 DEF When
  <2> HIDE DEF V
  <2>3. U = W
    BY <1>1, <1>2, <2>2, ConcatEmptySeq
  <2>4. DOMAIN U = 1..k /\ points = {}
    BY <1>2, <1>5, <1>6, <2>3, LenProperties
  <2>5. point = k + 1
    BY <1>5, <2>3, <2>4
  <2> HIDE DEF points, point
  <2>6. SubSeq(U, 1, point - 1) = W
    <3>1. point - 1 = Len(W)
      BY <1>5, <2>5
    <3> QED
      BY <1>2, <2>3, <3>1, SubSeqFull
  <2>7. SubSeq(U, point + 1, Len(U)) = <<>>
    <3>1. PICK l \in Nat : l = point + 1 /\ l > k
      BY <2>5
    <3>2. \A i \in l..k : W[i] \in Said
      BY <3>1
    <3>3. SubSeq(W, l, k) \in Seq(Said) /\ Len(SubSeq(W, l, k)) = 0
      BY <3>1, <3>2, SubSeqProperties
    <3> QED
      BY <1>5, <2>3, <3>1, <3>3, EmptySeq
  <2>8. dec = [i \in DOMAIN decimals |-> Value(<<decimals[i]>>)]
    <3>1. DOMAIN <<>> = {}
      BY EmptySeq
    <3>2. DOMAIN decimals = {} /\ DOMAIN dec = {}
      BY <1>7, <2>7, <3>1
    <3> HIDE DEF decimals
    <3> QED
      BY <1>3, <3>2
  <2>9. U \in Seq(Word) /\ U # <<>> /\ U[1] \in Said
    BY <1>2, <1>5, <1>6, <2>3
  <2> HIDE DEF decimals
  <2> QED
    BY <1>0, <1>2, <2>6, <2>8, <2>9
<1>8. CASE dec # <<>>
  <2> DEFINE A == W \o <<"virgul">>
  <2>1. <<"virgul">> \in Seq(Word) /\ A = Append(W, "virgul")
    BY <1>6, AppendIsConcat
  <2>2. V = <<"virgul">> \o D
    BY <1>8 DEF When
  <2> HIDE DEF V
  <2>3. U = A \o D
    BY <1>1, <1>6, <2>1, <2>2, ConcatAssociative
  <2>4. /\ A \in Seq(Word) /\ Len(A) = k + 1 /\ A[k + 1] = "virgul"
        /\ \A i \in 1..k : A[i] = W[i]
    <3> HIDE DEF A
    <3> QED
      BY <1>5, <1>6, <2>1, AppendProperties
  <2> HIDE DEF A
  <2>5. /\ U \in Seq(Word) /\ Len(U) = k + 1 + m
        /\ \A i \in 1..(k + 1) : U[i] = A[i]
        /\ \A i \in 1..m : U[k + 1 + i] = D[i]
        /\ SubSeq(U, k + 1 + 1, Len(U)) = D
    <3>1. /\ U \in Seq(Word) /\ Len(U) = Len(A) + Len(D)
          /\ \A i \in 1..Len(A) : U[i] = A[i]
          /\ \A i \in 1..Len(D) : U[Len(A) + i] = D[i]
          /\ SubSeq(U, Len(A) + 1, Len(U)) = D
      <4>1. A \in Seq(Word) /\ D \in Seq(Word)
        BY <1>6, <2>4
      <4> QED
        BY <2>3, <4>1, CutCat
    <3> QED
      BY <1>4, <2>4, <3>1
  <2>6. DOMAIN U = 1..(k + 1 + m)
    BY <2>5, LenProperties
  <2>7. \A i \in 1..(k + 1 + m) : U[i] = "virgul" <=> i = k + 1
    <3> SUFFICES ASSUME NEW i \in 1..(k + 1 + m) PROVE U[i] = "virgul" <=> i = k + 1
      OBVIOUS
    <3>1. CASE i <= k
      <4>1. i \in 1..k /\ i \in 1..(k + 1)
        BY <3>1
      <4> QED
        BY <1>5, <1>6, <2>4, <2>5, <4>1
    <3>2. CASE i = k + 1
      <4>1. i \in 1..(k + 1)
        BY <3>2
      <4> QED
        BY <2>4, <2>5, <3>2, <4>1
    <3>3. CASE i > k + 1
      <4>1. PICK j \in 1..m : i = k + 1 + j
        <5>1. i - (k + 1) \in 1..m /\ i = k + 1 + (i - (k + 1))
          BY <3>3
        <5> QED
          BY <5>1
      <4>2. D[j] \in Said
        BY <1>4, ElementOfSeq
      <4> QED
        BY <1>6, <2>5, <3>3, <4>1, <4>2
    <3> QED
      BY <3>1, <3>2, <3>3
  <2>8. points = {k + 1}
    <3>1. k + 1 \in 1..(k + 1 + m)
      OBVIOUS
    <3> QED
      BY <2>6, <2>7, <3>1
  <2>9. point = k + 1
    <3>1. Min({k + 1}) = k + 1
      BY DEF Min
    <3> HIDE DEF points
    <3> QED
      BY <2>8, <3>1
  <2> HIDE DEF points, point
  <2>10. SubSeq(U, 1, point - 1) = W
    <3>1. point - 1 = k
      BY <2>9
    <3>2. U = W \o (<<"virgul">> \o D) /\ <<"virgul">> \o D \in Seq(Word)
      BY <1>1, <1>6, <2>1, <2>2, ConcatProperties
    <3> QED
      BY <1>5, <1>6, <3>1, <3>2, CutCat
  <2>11. decimals = D
    BY <2>5, <2>9
  <2>12. dec = [i \in DOMAIN decimals |-> Value(<<decimals[i]>>)]
    <3>1. DOMAIN D = 1..m
      BY <1>4, LenProperties
    <3> HIDE DEF decimals
    <3> QED
      BY <1>3, <1>4, <2>11, <3>1
  <2>13. U # <<>> /\ U[1] \in Said
    <3>1. 1 \in 1..k /\ 1 \in 1..(k + 1) /\ k + 1 + m # 0
      BY <1>5
    <3> QED
      BY <1>5, <2>4, <2>5, <3>1, EmptySeq
  <2> HIDE DEF decimals
  <2> QED
    BY <1>0, <1>2, <2>5, <2>10, <2>12, <2>13
<1> QED
  BY <1>7, <1>8

\* A number, its words, and what is read of them.
ReadsBack(n, ws) ==
    LET negative == Head(ws) = "eksi" IN
    /\ n.negative = negative
    /\ ReadBack(IF negative THEN Tail(ws) ELSE ws) = [whole |-> n.whole, decimals |-> n.decimals]

LEMMA ExpandReads ==
    ASSUME NEW n \in [negative : BOOLEAN, whole : Nat, decimals : Seq(0..9)], Fits(n.whole, 1),
           NEW ws, ws = expand(n)
    PROVE  ws \in Seq(Word) /\ ws # <<>> /\ ReadsBack(n, ws)
<1>1. PICK U : U = decimal_to_turkish(n.whole, n.decimals)
  OBVIOUS
<1>2. n.whole \in Nat /\ n.decimals \in Seq(0..9) /\ n.negative \in BOOLEAN
  OBVIOUS
<1>3. /\ U \in Seq(Word) /\ U # <<>> /\ U[1] \in Said
      /\ ReadBack(U) = [whole |-> n.whole, decimals |-> n.decimals]
  BY <1>1, <1>2, UnsignedReads
<1>4. "eksi" \in Word /\ "eksi" \notin Said
  BY WordsAre
<1>5. CASE n.negative
  <2>1. ws = <<"eksi">> \o U /\ <<"eksi">> \in Seq(Word) /\ Len(<<"eksi">>) = 1
    BY <1>1, <1>4, <1>5 DEF expand, When
  <2>2. ws \in Seq(Word) /\ ws[1] = "eksi" /\ SubSeq(ws, 2, Len(ws)) = U
        /\ Len(ws) = 1 + Len(U)
    <3>1. 1 \in 1..Len(<<"eksi">>) /\ <<"eksi">>[1] = "eksi"
      BY <2>1
    <3> DEFINE e == <<"eksi">>
    <3>2. e \in Seq(Word) /\ Len(e) = 1 /\ ws = e \o U /\ e[1] = "eksi" /\ 1 \in 1..Len(e)
      BY <2>1, <3>1
    <3> HIDE DEF e
    <3>3. /\ ws \in Seq(Word) /\ Len(ws) = Len(e) + Len(U)
          /\ \A i \in 1..Len(e) : ws[i] = e[i]
          /\ SubSeq(ws, Len(e) + 1, Len(ws)) = U
      <4>1. e \in Seq(Word) /\ U \in Seq(Word) /\ ws = e \o U
        BY <1>3, <3>2
      <4> QED
        BY <4>1, CutCat
    <3>4. Len(e) + 1 = 2
      BY <3>2
    <3> QED
      BY <3>2, <3>3, <3>4
  <2>3. ws # <<>>
    BY <1>3, <2>2, LenProperties, EmptySeq
  <2>4. Head(ws) = "eksi" /\ Tail(ws) = U
    BY <2>2, <2>3, HeadTailProperties, TailIsSubSeq
  <2> QED
    BY <1>3, <1>5, <2>2, <2>3, <2>4 DEF ReadsBack
<1>6. CASE ~n.negative
  <2>1. ws = U
    BY <1>1, <1>3, <1>6, ConcatEmptySeq DEF expand, When
  <2>2. Head(ws) # "eksi"
    BY <1>3, <1>4, <2>1, HeadTailProperties
  <2> QED
    BY <1>2, <1>3, <1>6, <2>1, <2>2 DEF ReadsBack
<1> QED
  BY <1>2, <1>5, <1>6

-----------------------------------------------------------------------------
(* The texts and numbers of the engine.                                    *)

\* What is said is what segment_sentences and expand make of a text and a number.
FrontendInv ==
    \/ FrontendInit
    \/ /\ text \in Seq(Plain) /\ segments = segment_sentences(text)
       /\ number \in [negative : BOOLEAN, whole : Nat, decimals : Seq(0..9)]
       /\ Fits(number.whole, 1)
       /\ words = expand(number)

LEMMA InitFrontend == FrontendInit => FrontendInv
BY DEF FrontendInv

\* Zero is what a text comes with, and in range.
LEMMA ZeroFits ==
    Zero \in [negative : BOOLEAN, whole : Nat, decimals : Seq(0..9)] /\ Fits(Zero.whole, 1)
<1>1. <<>> \in Seq(0..9) /\ Zero.whole = 0
  BY EmptySeq DEF Zero
<1>2. Zero \in [negative : BOOLEAN, whole : Nat, decimals : Seq(0..9)]
  BY <1>1 DEF Zero
<1>3. 0 \div 10^9 < 1000
  BY SMT
<1> QED
  BY <1>1, <1>2, <1>3, SpokenFits

LEMMA PrepareKeeps ==
    ASSUME FrontendInv, [Prepare]_frontendVars
    PROVE  FrontendInv'
<1>1. ASSUME NEW t \in Seq(Plain),
             NEW n \in [negative : BOOLEAN, whole : Nat, decimals : Seq(0..9)], Fits(n.whole, 1),
             Say(t, n)
      PROVE  FrontendInv'
  BY <1>1 DEF Say, FrontendInv
<1>2. ASSUME NEW t \in SpokenTexts, Say(t, Zero) PROVE FrontendInv'
  <2>1. t \in Seq(Plain)
    BY FrontendAssumption DEF Plain
  <2> QED
    BY <1>1, <1>2, <2>1, ZeroFits
<1>3. ASSUME NEW n \in SpokenNumbers, Say(<<>>, n) PROVE FrontendInv'
  <2>1. n \in [negative : BOOLEAN, whole : Nat, decimals : Seq(0..9)] /\ n.whole \div 10^9 < 1000
    BY FrontendAssumption
  <2>2. n.whole \in Nat
    BY <2>1
  <2>3. Fits(n.whole, 1)
    BY <2>1, <2>2, SpokenFits
  <2>4. <<>> \in Seq(Plain)
    BY EmptySeq
  <2> QED
    BY <1>1, <1>3, <2>1, <2>3, <2>4
<1>4. CASE Prepare
  BY <1>2, <1>3, <1>4 DEF Prepare
<1>5. CASE UNCHANGED frontendVars
  BY <1>5 DEF frontendVars, FrontendInv, FrontendInit
<1> QED
  BY <1>4, <1>5

LEMMA FrontendHolds == FrontendSpec => []FrontendInv
BY InitFrontend, PrepareKeeps, PTL DEF FrontendSpec

\* Sign, whole part and decimals of a number are read back from the words alone
\* (number_to_turkish, decimal_to_turkish, _expand_integer and its kin).
THEOREM NumbersHold == FrontendSpec => []NumbersReadBack
<1>1. FrontendInv => NumbersReadBack
  <2> SUFFICES ASSUME FrontendInv, Prepared PROVE NumbersReadBack
    BY DEF NumbersReadBack
  <2>1. /\ number \in [negative : BOOLEAN, whole : Nat, decimals : Seq(0..9)]
        /\ Fits(number.whole, 1) /\ words = expand(number)
    BY DEF FrontendInv, FrontendInit, Prepared
  <2>2. ReadsBack(number, words)
    BY <2>1, ExpandReads
  <2> QED
    BY <2>2 DEF NumbersReadBack, ReadsBack
<1> QED
  BY <1>1, FrontendHolds, PTL

\* All of a text is in its segments, once and in order; none is empty, has space at an
\* end, or is short or ends with an abbreviation against the rule (segment_sentences).
THEOREM SegmentsHold == FrontendSpec => []SegmentsSound
<1>1. FrontendInit => SegmentsSound
  <2> SUFFICES ASSUME FrontendInit PROVE SegmentsSound
    OBVIOUS
  <2>1. /\ text \in Seq(Glyph) /\ segments \in Seq(Seq(Glyph \ {"placeholder"}))
        /\ words \in Seq(Word) /\ words = <<>>
    BY EmptySeq DEF FrontendInit
  <2>2. number.whole \in Nat /\ number.decimals \in Seq(0..9)
    BY ZeroFits DEF FrontendInit
  <2> QED
    BY <2>1, <2>2
       DEF SegmentsSound, FrontendTypeOK, SegmentsHoldText, AbbreviationsHold, ShortIsMerged, Prepared
<1>2. FrontendInv => SegmentsSound
  <2> SUFFICES ASSUME FrontendInv, ~ FrontendInit PROVE SegmentsSound
    BY <1>1
  <2>1. /\ text \in Seq(Plain) /\ segments = segment_sentences(text)
        /\ number \in [negative : BOOLEAN, whole : Nat, decimals : Seq(0..9)]
        /\ Fits(number.whole, 1) /\ words = expand(number)
    BY DEF FrontendInv
  <2>2. SegmentsOf(text, segments)
    BY <2>1, SegmentsKeep
  <2>3. words \in Seq(Word)
    BY <2>1, ExpandReads
  <2>4. text \in Seq(Glyph)
    BY <2>1, PlainText DEF Txt
  <2>5. segments \in Seq(Seq(Glyph \ {"placeholder"}))
    BY <2>2 DEF SegmentsOf, Plain
  <2>6. FrontendTypeOK
    BY <2>1, <2>3, <2>4, <2>5 DEF FrontendTypeOK
  <2>7. SegmentsHoldText
    BY <2>2 DEF SegmentsHoldText, SegmentsOf
  <2>8. AbbreviationsHold
    BY <2>2 DEF AbbreviationsHold, SegmentsOf
  <2>9. ShortIsMerged
    BY <2>2 DEF ShortIsMerged, SegmentsOf
  <2> QED
    BY <2>6, <2>7, <2>8, <2>9 DEF SegmentsSound
<1> QED
  BY <1>2, FrontendHolds, PTL
=============================================================================
