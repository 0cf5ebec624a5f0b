--------------------------- MODULE PositionLemmas ---------------------------
(***************************************************************************)
(* Facts about positions that the proofs share: the least of a set of      *)
(* naturals, which the community modules' Min and SelectInSeq return, the  *)
(* k-th of a finite set, sets with one element, and sequences that are     *)
(* joined element by element.                                              *)
(***************************************************************************)
EXTENDS Integers, Sequences, FiniteSets, SequencesExt, TLAPS, SequenceTheorems,
        WellFoundedInduction, FiniteSetTheorems

\* Every non-empty set of naturals has a least element.
LEMMA NatLeast ==
  ASSUME NEW S \in SUBSET Nat, S # {}
  PROVE  \E n \in S : \A m \in S : n <= m
<1> DEFINE R == {p \in Nat \X Nat : p[1] < p[2]}
<1>1. R \cap (Nat \X Nat) \subseteq OpToRel(<, Nat)
  BY DEF OpToRel
<1>2. IsWellFoundedOn(R, Nat)
  BY <1>1, NatLessThanWellFounded, IsWellFoundedOnSubrelation, Zenon
<1>3. \A x, y \in S : <<y, x>> \notin R => x <= y
  OBVIOUS
<1> HIDE DEF R
<1>4. \E x \in S : \A y \in S : <<y, x>> \notin R
  BY <1>2, WFMin
<1> QED BY <1>3, <1>4

\* Min, which SelectInSeq is defined with, returns it.
LEMMA MinIsLeast ==
  ASSUME NEW S \in SUBSET Nat, S # {}
  PROVE  Min(S) \in S /\ \A m \in S : Min(S) <= m
BY NatLeast DEF Min

\* Max, which SelectLastInSeq is defined with, returns the greatest.
LEMMA MaxIsGreatest ==
  ASSUME NEW n \in Nat, NEW S \in SUBSET (0 .. n), S # {}
  PROVE  Max(S) \in S /\ \A m \in S : m <= Max(S)
<1> DEFINE U == {u \in Nat : \A m \in S : m <= u}
<1>0. \A m \in S : m \in Nat /\ m <= n
  OBVIOUS
<1>1. n \in U
  BY <1>0
<1>2. PICK u \in U : \A v \in U : u <= v
  <2> HIDE DEF U
  <2>1. U \in SUBSET Nat BY DEF U
  <2> QED BY <1>1, <2>1, NatLeast
<1>3. u \in Nat /\ \A m \in S : m <= u
  BY <1>2
<1>4. u \in S
  <2> SUFFICES ASSUME u \notin S PROVE FALSE
    OBVIOUS
  <2>1. \A m \in S : m <= u - 1 /\ m >= 0
    BY <1>0, <1>3
  <2>2. u - 1 \in Nat
    <3>1. PICK m \in S : TRUE
      OBVIOUS
    <3>2. m <= u - 1 /\ m >= 0 /\ m \in Nat
      BY <1>0, <2>1, <3>1
    <3> QED BY <1>3, <3>2
  <2>3. u - 1 \in U
    BY <2>1, <2>2
  <2> QED BY <1>2, <1>3, <2>3
<1>5. \A m \in S : u >= m
  BY <1>0, <1>3
<1>6. Max(S) \in S /\ \A m \in S : Max(S) >= m
  BY <1>4, <1>5 DEF Max
<1> QED BY <1>0, <1>6

\* A set of positions is finite, and so are its parts.
LEMMA PositionsFinite ==
  ASSUME NEW n \in Nat, NEW S \in SUBSET (1 .. n)
  PROVE  IsFiniteSet(S) /\ Cardinality(S) \in Nat
<1>1. IsFiniteSet(1 .. n)
  BY FS_Interval
<1>2. IsFiniteSet(S)
  BY <1>1, FS_Subset
<1> QED BY <1>2, FS_CardinalityType

\* A set in which no two elements differ has at most one.
LEMMA AtMostOne ==
  ASSUME NEW S, IsFiniteSet(S), \A x, y \in S : x = y
  PROVE  Cardinality(S) <= 1
<1>1. CASE S = {}
  BY <1>1, FS_EmptySet
<1>2. CASE S # {}
  <2>1. PICK x \in S : S = {x}
    BY <1>2
  <2> QED BY <2>1, FS_Singleton
<1> QED BY <1>1, <1>2

\* The k-th of a set of positions is the one with k - 1 of them before it.
LEMMA KthExists ==
  ASSUME NEW n \in Nat, NEW P \in SUBSET (1 .. n), NEW k \in 1 .. Cardinality(P)
  PROVE  \E i \in P : Cardinality({j \in P : j < i}) = k - 1
<1> DEFINE Before(i) == {j \in P : j < i}
           T == {i \in Nat : Cardinality(Before(i)) >= k}
<1>0. \A j \in P : j \in Nat /\ 1 <= j /\ j <= n
  OBVIOUS
<1>1. \A i \in Nat : IsFiniteSet(Before(i)) /\ Cardinality(Before(i)) \in Nat
  BY PositionsFinite
<1>2. Cardinality(P) \in Nat /\ Cardinality(P) >= k /\ k >= 1 /\ k \in Nat
  BY PositionsFinite
<1>3. n + 1 \in T
  <2>1. \A j \in P : j < n + 1
    BY <1>0
  <2>2. Before(n + 1) = P
    BY <2>1, Zenon
  <2> QED BY <1>2, <2>2
<1>4. PICK i \in T : \A m \in T : i <= m
  <2> HIDE DEF T
  <2>1. T \in SUBSET Nat BY DEF T
  <2> QED BY <1>3, <2>1, NatLeast
<1>5. i # 0
  <2>1. \A j \in P : ~(j < 0)
    BY <1>0
  <2>2. Before(0) = {}
    BY <2>1, Zenon
  <2> QED BY <1>2, <2>2, FS_EmptySet
<1>6. i \in Nat /\ i - 1 \in Nat /\ i - 1 \notin T
  BY <1>4, <1>5
<1>7. i - 1 \in P
  <2>1. CASE i - 1 \notin P
    <3>1. \A j \in P : j < i <=> j < i - 1
      BY <1>0, <1>6, <2>1
    <3>2. Before(i) = Before(i - 1)
      BY <3>1, Zenon
    <3> QED BY <3>2, <1>4, <1>6
  <2> QED BY <2>1
<1>8. Cardinality(Before(i)) = Cardinality(Before(i - 1)) + 1
  <2>1. \A j \in P : j < i <=> j < i - 1 \/ j = i - 1
    BY <1>0, <1>6
  <2>2. ~(i - 1 < i - 1)
    BY <1>6
  <2>3. Before(i) = Before(i - 1) \cup {i - 1}
    BY <1>7, <2>1, Zenon
  <2>4. i - 1 \notin Before(i - 1)
    BY <2>2, Zenon
  <2> HIDE DEF Before
  <2> QED BY <1>1, <1>6, <2>3, <2>4, FS_AddElement
<1>9. Cardinality(Before(i - 1)) = k - 1
  <2>1. ~(Cardinality(Before(i - 1)) >= k)
    BY <1>6, Zenon
  <2>2. Cardinality(Before(i)) >= k
    BY <1>4
  <2> HIDE DEF Before, T
  <2>3. Cardinality(Before(i)) \in Nat /\ Cardinality(Before(i - 1)) \in Nat
    BY <1>1, <1>6
  <2> QED BY <1>2, <1>8, <2>1, <2>2, <2>3
<1> QED BY <1>7, <1>9

\* Induction over the natural numbers, of a set.
LEMMA NatInduct ==
  ASSUME NEW S, 0 \in S, \A n \in Nat : n \in S => n + 1 \in S
  PROVE  Nat \subseteq S
<1> DEFINE U == {n \in Nat : n \notin S}
<1> SUFFICES ASSUME U # {} PROVE FALSE
  OBVIOUS
<1>1. PICK n \in U : \A m \in U : n <= m
  BY NatLeast
<1>2. n # 0 /\ n \in Nat
  BY <1>1
<1>3. n - 1 \in Nat /\ n - 1 \notin U
  BY <1>1, <1>2
<1>4. n - 1 \in S
  BY <1>3
<1> QED BY <1>1, <1>2, <1>3, <1>4

\* What FlattenSeq is defined with.
Flattens(g, s, n) == g = [i \in 1 .. n |-> IF i = 1 THEN s[i] ELSE g[i - 1] \o s[i]]

\* The recursive function behind the flattening of a sequence exists.
LEMMA FlattensExists ==
  ASSUME NEW s, NEW n \in Nat
  PROVE  \E g : Flattens(g, s, n)
<1> DEFINE P == {m \in Nat : \E g : Flattens(g, s, m)}
<1>1. 0 \in P
  <2>1. Flattens([i \in 1 .. 0 |-> IF i = 1 THEN s[i] ELSE s[i]], s, 0)
    BY DEF Flattens
  <2> QED BY <2>1
<1>2. ASSUME NEW m \in Nat, m \in P PROVE m + 1 \in P
  <2>1. PICK g : Flattens(g, s, m)
    BY <1>2
  <2> DEFINE h == [i \in 1 .. m + 1 |-> IF i = 1 THEN s[i] ELSE g[i - 1] \o s[i]]
  <2>2. \A i \in 1 .. m + 1 : i # 1 => i - 1 \in 1 .. m /\ i - 1 \in 1 .. m + 1
    OBVIOUS
  <2>3. \A i \in 1 .. m : h[i] = g[i]
    <3>1. \A i \in 1 .. m : g[i] = IF i = 1 THEN s[i] ELSE g[i - 1] \o s[i]
      BY <2>1 DEF Flattens
    <3>2. \A i \in 1 .. m : i \in 1 .. m + 1
      OBVIOUS
    <3> QED BY <3>1, <3>2
  <2>4. h = [i \in 1 .. m + 1 |-> IF i = 1 THEN s[i] ELSE h[i - 1] \o s[i]]
    <3>1. \A i \in 1 .. m + 1 : i # 1 => h[i - 1] = g[i - 1]
      BY <2>2, <2>3
    <3> QED BY <3>1
  <2>5. Flattens(h, s, m + 1)
    BY <2>4 DEF Flattens
  <2> QED BY <2>5
<1>3. Nat \subseteq P
  <2> HIDE DEF P
  <2> QED BY <1>1, <1>2, NatInduct
<1> QED BY <1>3

\* The elements of a sequence of sequences, joined, by its last one.
LEMMA FlattenUnfolds ==
  ASSUME NEW S, NEW s \in Seq(Seq(S))
  PROVE  /\ FlattenSeq(<<>>) = <<>>
         /\ FlattenSeq(s) \in Seq(S)
         /\ \A t \in Seq(S) : FlattenSeq(Append(s, t)) = FlattenSeq(s) \o t
<1>1. FlattenSeq(<<>>) = <<>>
  BY DEF FlattenSeq
<1> DEFINE Made(q) == CHOOSE g : Flattens(g, q, Len(q))
<1>2. ASSUME NEW q \in Seq(Seq(S)), q # <<>>
      PROVE  Flattens(Made(q), q, Len(q)) /\ FlattenSeq(q) = Made(q)[Len(q)]
  <2>1. Len(q) \in Nat /\ Len(q) # 0
    BY <1>2
  <2>2. \E g : Flattens(g, q, Len(q))
    BY <2>1, FlattensExists
  <2>3. Flattens(Made(q), q, Len(q))
    BY <2>2
  <2>4. FlattenSeq(q) = Made(q)[Len(q)]
    BY <2>1 DEF FlattenSeq, Flattens
  <2> QED BY <2>3, <2>4
<1> HIDE DEF Made
\* Along a sequence and one that extends it, what is made agrees.
<1>3. ASSUME NEW q \in Seq(Seq(S)), NEW r \in Seq(Seq(S)), Len(q) <= Len(r), q # <<>>,
             \A i \in 1 .. Len(q) : q[i] = r[i]
      PROVE  \A i \in 1 .. Len(q) : Made(q)[i] \in Seq(S) /\ Made(r)[i] = Made(q)[i]
  <2> DEFINE P == {i \in Nat : i \in 1 .. Len(q) =>
                                 Made(q)[i] \in Seq(S) /\ Made(r)[i] = Made(q)[i]}
  <2>0. Len(q) \in Nat /\ Len(r) \in Nat /\ r # <<>>
    BY <1>3
  <2>1. 0 \in P
    OBVIOUS
  <2>2. \A i \in 1 .. Len(q) : /\ Made(q)[i] = IF i = 1 THEN q[i] ELSE Made(q)[i - 1] \o q[i]
                               /\ Made(r)[i] = IF i = 1 THEN r[i] ELSE Made(r)[i - 1] \o r[i]
                               /\ q[i] \in Seq(S) /\ q[i] = r[i]
    <3>1. Flattens(Made(q), q, Len(q)) /\ Flattens(Made(r), r, Len(r))
      BY <1>2, <1>3, <2>0
    <3>2. \A i \in 1 .. Len(q) : i \in 1 .. Len(r)
      BY <1>3, <2>0
    <3>3. \A i \in 1 .. Len(q) : Made(q)[i] = IF i = 1 THEN q[i] ELSE Made(q)[i - 1] \o q[i]
      BY <3>1 DEF Flattens
    <3>4. \A i \in 1 .. Len(r) : Made(r)[i] = IF i = 1 THEN r[i] ELSE Made(r)[i - 1] \o r[i]
      BY <3>1 DEF Flattens
    <3>5. \A i \in 1 .. Len(q) : q[i] \in Seq(S)
      BY <1>3
    <3> QED BY <1>3, <3>2, <3>3, <3>4, <3>5, Zenon
  <2>3. ASSUME NEW i \in Nat, i \in P PROVE i + 1 \in P
    <3>1. CASE i + 1 \notin 1 .. Len(q)
      BY <3>1
    <3>2. CASE i + 1 \in 1 .. Len(q) /\ i = 0
      <4>1. i + 1 = 1
        BY <3>2
      <4> QED BY <2>2, <3>2, <4>1
    <3>3. CASE i + 1 \in 1 .. Len(q) /\ i # 0
      <4>1. i \in 1 .. Len(q) /\ i + 1 # 1 /\ (i + 1) - 1 = i
        BY <2>0, <3>3
      <4>2. Made(q)[i] \in Seq(S) /\ Made(r)[i] = Made(q)[i]
        BY <2>3, <4>1
      <4>3. /\ Made(q)[i + 1] = Made(q)[i] \o q[i + 1]
            /\ Made(r)[i + 1] = Made(r)[i] \o r[i + 1]
            /\ q[i + 1] \in Seq(S) /\ q[i + 1] = r[i + 1]
        BY <2>2, <3>3, <4>1
      <4>4. Made(q)[i] \o q[i + 1] \in Seq(S)
        BY <4>2, <4>3
      <4>5. Made(q)[i + 1] \in Seq(S) /\ Made(r)[i + 1] = Made(q)[i + 1]
        BY <4>2, <4>3, <4>4, Zenon
      <4> QED BY <4>5
    <3> QED BY <3>1, <3>2, <3>3
  <2>4. Nat \subseteq P
    <3> HIDE DEF P
    <3> QED BY <2>1, <2>3, NatInduct
  <2> QED BY <2>0, <2>4
<1>4. FlattenSeq(s) \in Seq(S)
  <2>1. CASE s = <<>>
    <3>1. FlattenSeq(s) = <<>>
      BY <1>1, <2>1, Zenon
    <3> QED BY <3>1
  <2>2. CASE s # <<>>
    <3>1. Len(s) \in 1 .. Len(s)
      BY <2>2
    <3> QED BY <1>2, <1>3, <2>2, <3>1
  <2> QED BY <2>1, <2>2
<1>5. ASSUME NEW t \in Seq(S) PROVE FlattenSeq(Append(s, t)) = FlattenSeq(s) \o t
  <2> DEFINE r == Append(s, t)
  <2>1. /\ r \in Seq(Seq(S)) /\ r # <<>> /\ Len(r) = Len(s) + 1 /\ Len(s) \in Nat
        /\ r[Len(s) + 1] = t /\ \A i \in 1 .. Len(s) : r[i] = s[i]
    <3> DEFINE W == Seq(S)
    <3>1. s \in Seq(W) /\ t \in W
      OBVIOUS
    <3> HIDE DEF W
    <3>2. /\ r \in Seq(W) /\ r # <<>> /\ Len(r) = Len(s) + 1 /\ Len(s) \in Nat
          /\ r[Len(s) + 1] = t /\ \A i \in 1 .. Len(s) : r[i] = s[i]
      BY <3>1
    <3> QED BY <3>2 DEF W
  <2> HIDE DEF r
  <2>2. FlattenSeq(r) = Made(r)[Len(s) + 1] /\ Flattens(Made(r), r, Len(s) + 1)
    BY <1>2, <2>1
  <2>3. CASE s = <<>>
    <3>1. FlattenSeq(s) \o t = t
      BY <1>1, <2>3
    <3>2. Len(s) = 0
      BY <2>3
    <3> QED BY <2>1, <2>2, <3>1, <3>2 DEF Flattens, r
  <2>4. CASE s # <<>>
    <3>1. Len(s) \in 1 .. Len(s) /\ Len(s) + 1 \in 1 .. Len(s) + 1 /\ Len(s) + 1 # 1
          /\ (Len(s) + 1) - 1 = Len(s)
      BY <2>1, <2>4
    <3>2. Made(r)[Len(s) + 1] = Made(r)[Len(s)] \o t
      BY <2>1, <2>2, <3>1 DEF Flattens
    <3>3. Made(r)[Len(s)] = Made(s)[Len(s)]
      <4>1. Len(s) <= Len(r) /\ \A i \in 1 .. Len(s) : s[i] = r[i]
        BY <2>1
      <4>2. \A i \in 1 .. Len(s) : Made(r)[i] = Made(s)[i]
        BY <1>3, <2>1, <2>4, <4>1
      <4> QED BY <3>1, <4>2
    <3> QED BY <1>2, <2>2, <2>4, <3>2, <3>3 DEF r
  <2> QED BY <2>3, <2>4
<1> QED BY <1>1, <1>4, <1>5

\* What holds of the empty sequence, and of a sequence with one more element,
\* holds of every sequence.
LEMMA SnocInduct ==
  ASSUME NEW A, NEW P, <<>> \in P,
         \A s \in Seq(A), x \in A : s \in P => Append(s, x) \in P
  PROVE  Seq(A) \subseteq P
<1> DEFINE Q == {n \in Nat : \A s \in Seq(A) : Len(s) = n => s \in P}
<1>1. 0 \in Q
  <2>1. \A s \in Seq(A) : Len(s) = 0 => s = <<>>
    OBVIOUS
  <2> QED BY <2>1
<1>2. ASSUME NEW n \in Nat, n \in Q PROVE n + 1 \in Q
  <2> SUFFICES ASSUME NEW s \in Seq(A), Len(s) = n + 1 PROVE s \in P
    OBVIOUS
  <2> DEFINE t == SubSeq(s, 1, n)
             x == s[n + 1]
  <2>1. t \in Seq(A) /\ Len(t) = n /\ x \in A
    OBVIOUS
  <2>2. s = Append(t, x)
    <3>1. Append(t, x) \in Seq(A) /\ Len(Append(t, x)) = Len(s)
      BY <2>1
    <3>2. \A i \in 1 .. Len(s) : Append(t, x)[i] = s[i]
      OBVIOUS
    <3> HIDE DEF t, x
    <3> QED BY <3>1, <3>2, SeqEqual
  <2>3. t \in P
    BY <1>2, <2>1
  <2> HIDE DEF t, x
  <2> QED BY <2>1, <2>2, <2>3
<1>3. Nat \subseteq Q
  <2> HIDE DEF Q
  <2> QED BY <1>1, <1>2, NatInduct
<1> QED
  <2>1. \A s \in Seq(A) : Len(s) \in Nat
    OBVIOUS
  <2> QED BY <1>3, <2>1

\* The images of the elements of a sequence, joined.
ToSeqs(A, B) == [A -> Seq(B)]
FlatMap(s, F) == FlattenSeq([i \in DOMAIN s |-> F[s[i]]])

\* The images of an empty sequence, and of one with one more element.
LEMMA FlatMapUnfolds ==
  ASSUME NEW A, NEW B, NEW F \in ToSeqs(A, B), NEW s \in Seq(A)
  PROVE  /\ FlatMap(<<>>, F) = <<>>
         /\ FlatMap(s, F) \in Seq(B)
         /\ \A x \in A : FlatMap(Append(s, x), F) = FlatMap(s, F) \o F[x]
<1>0. F \in [A -> Seq(B)]
  BY DEF ToSeqs
<1> DEFINE W == Seq(B)
           Of(q) == [i \in DOMAIN q |-> F[q[i]]]
<1>1. \A q \in Seq(A) : Of(q) \in Seq(W)
  <2> SUFFICES ASSUME NEW q \in Seq(A) PROVE Of(q) \in Seq(W)
    OBVIOUS
  <2>1. Len(q) \in Nat /\ DOMAIN q = 1 .. Len(q) /\ \A i \in 1 .. Len(q) : F[q[i]] \in W
    BY <1>0
  <2> HIDE DEF W
  <2>2. Of(q) = [i \in 1 .. Len(q) |-> F[q[i]]]
    BY <2>1
  <2> QED BY <2>1, <2>2
<1>2. FlatMap(<<>>, F) = <<>>
  <2>1. Of(<<>>) = <<>>
    OBVIOUS
  <2>2. <<>> \in Seq(Seq(B))
    OBVIOUS
  <2>3. FlattenSeq(<<>>) = <<>>
    BY <2>2, FlattenUnfolds
  <2> QED BY <2>1, <2>3 DEF FlatMap
<1>3. FlatMap(s, F) \in Seq(B)
  BY <1>1, FlattenUnfolds DEF FlatMap
<1>4. ASSUME NEW x \in A PROVE FlatMap(Append(s, x), F) = FlatMap(s, F) \o F[x]
  <2>1. Of(s) \in Seq(W) /\ F[x] \in W /\ Append(s, x) \in Seq(A)
    BY <1>0, <1>1
  <2>2. Of(Append(s, x)) = Append(Of(s), F[x])
    <3>1. Of(Append(s, x)) \in Seq(W)
      BY <1>1, <2>1
    <3>2. Len(Of(Append(s, x))) = Len(s) + 1 /\ Len(Of(s)) = Len(s) /\ Len(s) \in Nat
      OBVIOUS
    <3>3. \A i \in 1 .. Len(s) + 1 : Of(Append(s, x))[i] = Append(Of(s), F[x])[i]
      OBVIOUS
    <3>4. Append(Of(s), F[x]) \in Seq(W) /\ Len(Append(Of(s), F[x])) = Len(s) + 1
      <4> HIDE DEF Of, W
      <4> QED BY <2>1, <3>2
    <3> HIDE DEF Of, W
    <3> QED BY <3>1, <3>2, <3>3, <3>4, SeqEqual
  <2>3. FlattenSeq(Append(Of(s), F[x])) = FlattenSeq(Of(s)) \o F[x]
    BY <2>1, FlattenUnfolds
  <2> QED BY <2>2, <2>3 DEF FlatMap
<1> QED BY <1>2, <1>3, <1>4

\* Joining sequences, element by element.
LEMMA ConcatFacts ==
  ASSUME NEW A, NEW s \in Seq(A), NEW t \in Seq(A), NEW u \in Seq(A), NEW x \in A
  PROVE  /\ s \o t \in Seq(A)
         /\ s \o <<>> = s /\ <<>> \o s = s
         /\ s \o <<x>> = Append(s, x)
         /\ s \o Append(t, x) = Append(s \o t, x)
         /\ (s \o t) \o u = s \o (t \o u)
OBVIOUS

\* An image of joined sequences, and of one element.
LEMMA FlatMapConcat ==
  ASSUME NEW A, NEW B, NEW F \in ToSeqs(A, B), NEW s \in Seq(A), NEW t \in Seq(A)
  PROVE  FlatMap(s \o t, F) = FlatMap(s, F) \o FlatMap(t, F)
<1> DEFINE P == {q \in Seq(A) : FlatMap(s \o q, F) = FlatMap(s, F) \o FlatMap(q, F)}
<1>0. FlatMap(s, F) \in Seq(B) /\ FlatMap(<<>>, F) = <<>>
  BY FlatMapUnfolds
<1>1. <<>> \in P
  <2>1. s \o <<>> = s /\ FlatMap(s, F) \o <<>> = FlatMap(s, F) /\ <<>> \in Seq(A)
    BY <1>0
  <2> QED BY <1>0, <2>1, Zenon
<1>2. ASSUME NEW q \in Seq(A), NEW x \in A, q \in P PROVE Append(q, x) \in P
  <2>1. s \o Append(q, x) = Append(s \o q, x) /\ s \o q \in Seq(A) /\ Append(q, x) \in Seq(A)
    OBVIOUS
  <2>2. /\ FlatMap(Append(s \o q, x), F) = FlatMap(s \o q, F) \o F[x]
        /\ FlatMap(Append(q, x), F) = FlatMap(q, F) \o F[x]
        /\ FlatMap(q, F) \in Seq(B) /\ F[x] \in Seq(B)
    <3>1. F[x] \in Seq(B)
      BY DEF ToSeqs
    <3>2. FlatMap(q, F) \in Seq(B)
      BY FlatMapUnfolds
    <3>3. \A y \in A : FlatMap(Append(q, y), F) = FlatMap(q, F) \o F[y]
      BY FlatMapUnfolds
    <3>4. \A r \in Seq(A) : \A y \in A : FlatMap(Append(r, y), F) = FlatMap(r, F) \o F[y]
      BY FlatMapUnfolds
    <3> QED BY <2>1, <3>1, <3>2, <3>3, <3>4, Zenon
  <2>3. (FlatMap(s, F) \o FlatMap(q, F)) \o F[x] = FlatMap(s, F) \o (FlatMap(q, F) \o F[x])
    <3>1. \A u, v, w \in Seq(B) : (u \o v) \o w = u \o (v \o w)
      OBVIOUS
    <3> QED BY <1>0, <2>2, <3>1, Zenon
  <2>4. FlatMap(s \o Append(q, x), F) = FlatMap(s, F) \o FlatMap(Append(q, x), F)
    BY <1>2, <2>1, <2>2, <2>3, Zenon
  <2> QED BY <2>1, <2>4
<1>3. Seq(A) \subseteq P
  <2> HIDE DEF P
  <2> QED BY <1>1, <1>2, SnocInduct
<1> QED BY <1>3

\* Mapping a sequence of one gives the image of its element.
LEMMA FlatMapOfOne ==
  ASSUME NEW A, NEW B, NEW F \in ToSeqs(A, B), NEW x \in A
  PROVE  FlatMap(<<x>>, F) = F[x]
<1>1. <<x>> = Append(<<>>, x) /\ <<>> \in Seq(A)
  OBVIOUS
<1>2. FlatMap(Append(<<>>, x), F) = FlatMap(<<>>, F) \o F[x] /\ FlatMap(<<>>, F) = <<>>
  <2>1. FlatMap(<<>>, F) = <<>>
    BY <1>1, FlatMapUnfolds
  <2>2. \A q \in Seq(A) : \A y \in A : FlatMap(Append(q, y), F) = FlatMap(q, F) \o F[y]
    BY FlatMapUnfolds
  <2> QED BY <1>1, <2>1, <2>2, Zenon
<1>3. <<>> \o F[x] = F[x]
  <2>1. F[x] \in Seq(B)
    BY DEF ToSeqs
  <2> QED BY <2>1
<1> QED BY <1>1, <1>2, <1>3, Zenon

\* A sequence has an element.
Lists(s, y) == \E p \in 1 .. Len(s) : s[p] = y

\* What is in an image comes from an element, and all of an element is there.
LEMMA FlatMapElements ==
  ASSUME NEW A, NEW B, NEW F \in ToSeqs(A, B), NEW s \in Seq(A)
  PROVE  \A y : Lists(FlatMap(s, F), y) <=> \E i \in 1 .. Len(s) : Lists(F[s[i]], y)
<1> DEFINE P == {q \in Seq(A) : \A y : Lists(FlatMap(q, F), y) <=> \E i \in 1 .. Len(q) : Lists(F[q[i]], y)}
<1>1. <<>> \in P
  <2>1. FlatMap(<<>>, F) = <<>>
    BY FlatMapUnfolds
  <2>2. \A y : ~Lists(<<>>, y)
    BY DEF Lists
  <2>3. \A y : ~\E i \in 1 .. Len(<<>>) : Lists(F[<<>>[i]], y)
    OBVIOUS
  <2>4. <<>> \in Seq(A)
    OBVIOUS
  <2> QED BY <2>1, <2>2, <2>3, <2>4, Zenon
<1>2. ASSUME NEW q \in Seq(A), NEW x \in A, q \in P PROVE Append(q, x) \in P
  <2>1. /\ FlatMap(Append(q, x), F) = FlatMap(q, F) \o F[x]
        /\ FlatMap(q, F) \in Seq(B) /\ F[x] \in Seq(B)
    <3>1. F[x] \in Seq(B)
      BY DEF ToSeqs
    <3>2. FlatMap(q, F) \in Seq(B)
      BY FlatMapUnfolds
    <3>3. \A y \in A : FlatMap(Append(q, y), F) = FlatMap(q, F) \o F[y]
      BY FlatMapUnfolds
    <3> QED BY <3>1, <3>2, <3>3, Zenon
  <2>2. \A y : Lists(FlatMap(q, F) \o F[x], y) <=> Lists(FlatMap(q, F), y) \/ Lists(F[x], y)
    <3>1. \A v, w \in Seq(B) : \A y : Lists(v \o w, y) <=> Lists(v, y) \/ Lists(w, y)
      <4> SUFFICES ASSUME NEW v \in Seq(B), NEW w \in Seq(B), NEW y
                   PROVE  Lists(v \o w, y) <=> Lists(v, y) \/ Lists(w, y)
        OBVIOUS
      <4>1. /\ Len(v \o w) = Len(v) + Len(w) /\ Len(v) \in Nat /\ Len(w) \in Nat
            /\ \A p \in 1 .. Len(v) : (v \o w)[p] = v[p]
            /\ \A p \in 1 .. Len(w) : (v \o w)[Len(v) + p] = w[p]
        OBVIOUS
      <4>2. ASSUME NEW p \in 1 .. Len(v \o w), (v \o w)[p] = y PROVE Lists(v, y) \/ Lists(w, y)
        <5>1. CASE p <= Len(v)
          <6>1. p \in 1 .. Len(v)
            BY <4>1, <5>1
          <6> QED BY <4>1, <4>2, <6>1 DEF Lists
        <5>2. CASE p > Len(v)
          <6>1. p - Len(v) \in 1 .. Len(w) /\ p = Len(v) + (p - Len(v))
            BY <4>1, <5>2
          <6> QED BY <4>1, <4>2, <6>1 DEF Lists
        <5> QED BY <4>1, <5>1, <5>2
      <4>3. ASSUME NEW p \in 1 .. Len(v), v[p] = y PROVE Lists(v \o w, y)
        BY <4>1, <4>3 DEF Lists
      <4>4. ASSUME NEW p \in 1 .. Len(w), w[p] = y PROVE Lists(v \o w, y)
        <5>1. Len(v) + p \in 1 .. Len(v \o w)
          BY <4>1
        <5> QED BY <4>1, <4>4, <5>1 DEF Lists
      <4> QED BY <4>2, <4>3, <4>4 DEF Lists
    <3> QED BY <2>1, <3>1
  <2>3. /\ Len(Append(q, x)) = Len(q) + 1 /\ Len(q) \in Nat
        /\ \A i \in 1 .. Len(q) : Append(q, x)[i] = q[i]
        /\ Append(q, x)[Len(q) + 1] = x
    OBVIOUS
  <2> SUFFICES ASSUME NEW y
               PROVE  Lists(FlatMap(Append(q, x), F), y)
                        <=> \E i \in 1 .. Len(Append(q, x)) : Lists(F[Append(q, x)[i]], y)
    <3>1. Append(q, x) \in Seq(A)
      OBVIOUS
    <3> QED BY <3>1
  <2>4. Lists(FlatMap(q, F), y) <=> \E i \in 1 .. Len(q) : Lists(F[q[i]], y)
    BY <1>2
  <2>5. (\E i \in 1 .. Len(Append(q, x)) : Lists(F[Append(q, x)[i]], y))
          <=> (\E i \in 1 .. Len(q) : Lists(F[q[i]], y)) \/ Lists(F[x], y)
    <3> DEFINE r == Append(q, x)
               n == Len(q)
    <3>1. Len(r) = n + 1 /\ n \in Nat /\ (\A i \in 1 .. n : r[i] = q[i]) /\ r[n + 1] = x
      BY <2>3
    <3> HIDE DEF r, n
    <3>2. (\E i \in 1 .. Len(r) : Lists(F[r[i]], y)) <=> (\E i \in 1 .. n : Lists(F[q[i]], y)) \/ Lists(F[x], y)
      <4>1. n + 1 \in 1 .. n + 1 /\ \A i \in 1 .. n + 1 : i \in 1 .. n \/ i = n + 1
        BY <3>1
      <4>2. \A i \in 1 .. n : i \in 1 .. n + 1
        BY <3>1
      <4> QED BY <3>1, <4>1, <4>2, Zenon
    <3> QED BY <3>2 DEF r, n
  <2> QED BY <2>1, <2>2, <2>4, <2>5, Zenon
<1>3. Seq(A) \subseteq P
  <2> HIDE DEF P
  <2> QED BY <1>1, <1>2, SnocInduct
<1> QED BY <1>3

\* An image of sequences joined.
LEMMA FlatMapFlatten ==
  ASSUME NEW A, NEW B, NEW F \in ToSeqs(A, B), NEW s \in Seq(Seq(A))
  PROVE  FlattenSeq([i \in DOMAIN s |-> FlatMap(s[i], F)]) = FlatMap(FlattenSeq(s), F)
<1> DEFINE W == Seq(A)
           V == Seq(B)
           Of(q) == [i \in DOMAIN q |-> FlatMap(q[i], F)]
           P == {q \in Seq(W) : FlattenSeq(Of(q)) = FlatMap(FlattenSeq(q), F)}
<1>1. \A q \in Seq(W) : Of(q) \in Seq(V)
  <2> SUFFICES ASSUME NEW q \in Seq(W) PROVE Of(q) \in Seq(V)
    OBVIOUS
  <2>1. \A t \in W : FlatMap(t, F) \in V
    BY FlatMapUnfolds
  <2> HIDE DEF W, V
  <2>2. Len(q) \in Nat /\ DOMAIN q = 1 .. Len(q) /\ \A i \in 1 .. Len(q) : FlatMap(q[i], F) \in V
    BY <2>1
  <2>3. Of(q) = [i \in 1 .. Len(q) |-> FlatMap(q[i], F)]
    BY <2>2
  <2> QED BY <2>2, <2>3
<1>2. <<>> \in P
  <2>1. Of(<<>>) = <<>> /\ <<>> \in Seq(W) /\ <<>> \in Seq(Seq(B)) /\ <<>> \in Seq(A)
    OBVIOUS
  <2>2. FlattenSeq(<<>>) = <<>>
    BY <2>1, FlattenUnfolds
  <2>3. FlatMap(<<>>, F) = <<>>
    BY <2>1, FlatMapUnfolds
  <2> QED BY <2>1, <2>2, <2>3
<1>3. ASSUME NEW q \in Seq(W), NEW t \in W, q \in P PROVE Append(q, t) \in P
  <2> DEFINE r == Append(q, t)
  <2>1. r \in Seq(W) /\ Of(q) \in Seq(V) /\ Of(r) \in Seq(V) /\ FlatMap(t, F) \in V
    <3>1. r \in Seq(W)
      <4> HIDE DEF W
      <4> QED OBVIOUS
    <3> HIDE DEF Of, r
    <3> QED BY <1>1, <3>1, FlatMapUnfolds
  <2>2. Of(r) = Append(Of(q), FlatMap(t, F))
    <3>1. Len(Of(r)) = Len(q) + 1 /\ Len(Of(q)) = Len(q) /\ Len(q) \in Nat
      <4> HIDE DEF W
      <4> QED OBVIOUS
    <3>2. \A i \in 1 .. Len(q) + 1 : Of(r)[i] = Append(Of(q), FlatMap(t, F))[i]
      <4> HIDE DEF W
      <4> QED OBVIOUS
    <3>3. Append(Of(q), FlatMap(t, F)) \in Seq(V) /\ Len(Append(Of(q), FlatMap(t, F))) = Len(q) + 1
      <4> HIDE DEF Of, V, W, r
      <4> QED BY <2>1, <3>1
    <3> HIDE DEF Of, V, W, r
    <3> QED BY <2>1, <3>1, <3>2, <3>3, SeqEqual
  <2>3. FlattenSeq(Append(Of(q), FlatMap(t, F))) = FlattenSeq(Of(q)) \o FlatMap(t, F)
    <3> HIDE DEF Of
    <3> QED BY <2>1, FlattenUnfolds
  <2>4. FlattenSeq(r) = FlattenSeq(q) \o t /\ FlattenSeq(q) \in Seq(A)
    BY FlattenUnfolds
  <2>5. FlatMap(FlattenSeq(q) \o t, F) = FlatMap(FlattenSeq(q), F) \o FlatMap(t, F)
    BY <2>4, FlatMapConcat
  <2>6. FlattenSeq(Of(q)) = FlatMap(FlattenSeq(q), F)
    BY <1>3
  <2>7. FlattenSeq(Of(r)) = FlatMap(FlattenSeq(r), F)
    <3> HIDE DEF Of, r
    <3> QED BY <2>2, <2>3, <2>4, <2>5, <2>6, Zenon
  <2> QED BY <2>1, <2>7
<1>4. Seq(W) \subseteq P
  <2> HIDE DEF P, W
  <2> QED BY <1>2, <1>3, SnocInduct
<1> QED BY <1>4

Fours(x, y, z, w) ==
  /\ <<x>> \o <<y>> = <<x, y>>
  /\ <<x, y>> \o <<z>> = <<x, y, z>>
  /\ <<x>> \o <<y, z>> = <<x, y, z>>
  /\ <<x, y, z>> \o <<w>> = <<x, y, z, w>>
  /\ <<x, y>> \o <<z, w>> = <<x, y, z, w>>

\* Four elements in short sequences, joined.
LEMMA FourJoin ==
  ASSUME NEW x, NEW y, NEW z, NEW w
  PROVE  Fours(x, y, z, w)
<1> DEFINE S == {x, y, z, w}
<1>1. /\ <<x>> \in Seq(S) /\ <<y>> \in Seq(S) /\ <<z>> \in Seq(S) /\ <<w>> \in Seq(S)
      /\ <<x, y>> \in Seq(S) /\ <<y, z>> \in Seq(S) /\ <<z, w>> \in Seq(S)
      /\ <<x, y, z>> \in Seq(S) /\ <<x, y, z, w>> \in Seq(S)
  OBVIOUS
<1>2. ASSUME NEW s \in Seq(S), NEW t \in Seq(S), NEW u \in Seq(S), Len(u) = Len(s) + Len(t),
             \A i \in 1 .. Len(s) : u[i] = s[i],
             \A i \in 1 .. Len(t) : u[Len(s) + i] = t[i]
      PROVE  s \o t = u
  <2> HIDE DEF S
  <2>1. /\ s \o t \in Seq(S) /\ Len(s \o t) = Len(s) + Len(t) /\ Len(s) \in Nat /\ Len(t) \in Nat
        /\ \A i \in 1 .. Len(s) : (s \o t)[i] = s[i]
        /\ \A i \in 1 .. Len(t) : (s \o t)[Len(s) + i] = t[i]
    OBVIOUS
  <2> DEFINE v == s \o t
  <2>2. v \in Seq(S) /\ Len(v) = Len(u)
    BY <1>2, <2>1
  <2> HIDE DEF v
  <2>3. ASSUME NEW i \in 1 .. Len(v) PROVE v[i] = u[i]
    <3>1. CASE i \in 1 .. Len(s)
      BY <1>2, <2>1, <3>1 DEF v
    <3>2. CASE i \notin 1 .. Len(s)
      <4>1. i - Len(s) \in 1 .. Len(t) /\ i = Len(s) + (i - Len(s))
        BY <1>2, <2>1, <2>2, <3>2
      <4> QED BY <1>2, <2>1, <4>1 DEF v
    <3> QED BY <3>1, <3>2
  <2> QED BY <2>2, <2>3, SeqEqual DEF v
<1>3. /\ Len(<<x>>) = 1 /\ Len(<<y>>) = 1 /\ Len(<<z>>) = 1 /\ Len(<<w>>) = 1
      /\ Len(<<x, y>>) = 2 /\ Len(<<y, z>>) = 2 /\ Len(<<z, w>>) = 2
      /\ Len(<<x, y, z>>) = 3 /\ Len(<<x, y, z, w>>) = 4
  OBVIOUS
<1> HIDE DEF S
<1>4. <<x>> \o <<y>> = <<x, y>>
  <2> DEFINE s == <<x>>
             t == <<y>>
             u == <<x, y>>
  <2>1. Len(u) = Len(s) + Len(t)
    BY <1>3
  <2>2. \A i \in 1 .. Len(s) : u[i] = s[i]
    OBVIOUS
  <2>3. \A i \in 1 .. Len(t) : u[Len(s) + i] = t[i]
    OBVIOUS
  <2>4. s \in Seq(S) /\ t \in Seq(S) /\ u \in Seq(S)
    BY <1>1
  <2> HIDE DEF s, t, u
  <2>5. s \o t = u
    BY <1>2, <2>1, <2>2, <2>3, <2>4
  <2> QED BY <2>5 DEF s, t, u
<1>5. <<x, y>> \o <<z>> = <<x, y, z>>
  <2> DEFINE s == <<x, y>>
             t == <<z>>
             u == <<x, y, z>>
  <2>1. Len(u) = Len(s) + Len(t)
    BY <1>3
  <2>2. \A i \in 1 .. Len(s) : u[i] = s[i]
    OBVIOUS
  <2>3. \A i \in 1 .. Len(t) : u[Len(s) + i] = t[i]
    OBVIOUS
  <2>4. s \in Seq(S) /\ t \in Seq(S) /\ u \in Seq(S)
    BY <1>1
  <2> HIDE DEF s, t, u
  <2>5. s \o t = u
    BY <1>2, <2>1, <2>2, <2>3, <2>4
  <2> QED BY <2>5 DEF s, t, u
<1>6. <<x>> \o <<y, z>> = <<x, y, z>>
  <2> DEFINE s == <<x>>
             t == <<y, z>>
             u == <<x, y, z>>
  <2>1. Len(u) = Len(s) + Len(t)
    BY <1>3
  <2>2. \A i \in 1 .. Len(s) : u[i] = s[i]
    OBVIOUS
  <2>3. \A i \in 1 .. Len(t) : u[Len(s) + i] = t[i]
    OBVIOUS
  <2>4. s \in Seq(S) /\ t \in Seq(S) /\ u \in Seq(S)
    BY <1>1
  <2> HIDE DEF s, t, u
  <2>5. s \o t = u
    BY <1>2, <2>1, <2>2, <2>3, <2>4
  <2> QED BY <2>5 DEF s, t, u
<1>7. <<x, y, z>> \o <<w>> = <<x, y, z, w>>
  <2> DEFINE s == <<x, y, z>>
             t == <<w>>
             u == <<x, y, z, w>>
  <2>1. Len(u) = Len(s) + Len(t)
    BY <1>3
  <2>2. \A i \in 1 .. Len(s) : u[i] = s[i]
    OBVIOUS
  <2>3. \A i \in 1 .. Len(t) : u[Len(s) + i] = t[i]
    OBVIOUS
  <2>4. s \in Seq(S) /\ t \in Seq(S) /\ u \in Seq(S)
    BY <1>1
  <2> HIDE DEF s, t, u
  <2>5. s \o t = u
    BY <1>2, <2>1, <2>2, <2>3, <2>4
  <2> QED BY <2>5 DEF s, t, u
<1>8. <<x, y>> \o <<z, w>> = <<x, y, z, w>>
  <2> DEFINE s == <<x, y>>
             t == <<z, w>>
             u == <<x, y, z, w>>
  <2>1. Len(u) = Len(s) + Len(t)
    BY <1>3
  <2>2. \A i \in 1 .. Len(s) : u[i] = s[i]
    OBVIOUS
  <2>3. \A i \in 1 .. Len(t) : u[Len(s) + i] = t[i]
    OBVIOUS
  <2>4. s \in Seq(S) /\ t \in Seq(S) /\ u \in Seq(S)
    BY <1>1
  <2> HIDE DEF s, t, u
  <2>5. s \o t = u
    BY <1>2, <2>1, <2>2, <2>3, <2>4
  <2> QED BY <2>5 DEF s, t, u
<1> QED BY <1>4, <1>5, <1>6, <1>7, <1>8, Zenon DEF Fours

\* Short sequences joined.
LEMMA TuplesJoin ==
  /\ \A x, y : <<x>> \o <<y>> = <<x, y>>
  /\ \A x, y, z : <<x, y>> \o <<z>> = <<x, y, z>>
  /\ \A x, y, z : <<x>> \o <<y, z>> = <<x, y, z>>
  /\ \A x, y, z, w : <<x, y, z>> \o <<w>> = <<x, y, z, w>>
  /\ \A x, y, z, w : <<x, y>> \o <<z, w>> = <<x, y, z, w>>
<1>1. ASSUME NEW x, NEW y PROVE <<x>> \o <<y>> = <<x, y>>
  <2>1. Fours(x, y, x, y)
    BY FourJoin
  <2> QED BY <2>1 DEF Fours
<1>2. ASSUME NEW x, NEW y, NEW z PROVE <<x, y>> \o <<z>> = <<x, y, z>>
  <2>1. Fours(x, y, z, x)
    BY FourJoin
  <2> QED BY <2>1 DEF Fours
<1>3. ASSUME NEW x, NEW y, NEW z PROVE <<x>> \o <<y, z>> = <<x, y, z>>
  <2>1. Fours(x, y, z, x)
    BY FourJoin
  <2> QED BY <2>1 DEF Fours
<1>4. ASSUME NEW x, NEW y, NEW z, NEW w PROVE <<x, y, z>> \o <<w>> = <<x, y, z, w>>
  <2>1. Fours(x, y, z, w)
    BY FourJoin
  <2> QED BY <2>1 DEF Fours
<1>5. ASSUME NEW x, NEW y, NEW z, NEW w PROVE <<x, y>> \o <<z, w>> = <<x, y, z, w>>
  <2>1. Fours(x, y, z, w)
    BY FourJoin
  <2> QED BY <2>1 DEF Fours
<1> QED BY <1>1, <1>2, <1>3, <1>4, <1>5
=============================================================================
