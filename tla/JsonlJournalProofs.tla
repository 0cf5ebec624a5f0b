------------------------- MODULE JsonlJournalProofs -------------------------
(***************************************************************************)
(* Proofs about module JsonlJournal, for any number of callers, events,    *)
(* restarts and losses of power.  Every file that a process or a loss of   *)
(* power may leave is lines of one chain (Lined), so that what load does   *)
(* with it can be computed; the rest is where each append stands in its    *)
(* line, and that every acknowledged event is on a line of every file.     *)
(***************************************************************************)
EXTENDS JsonlJournal, PositionLemmas

-----------------------------------------------------------------------------
(* Every third position.                                                    *)

Tripled(n) == {3 * k : k \in 1 .. n}

\* A position is the first, the second or the third of its line.
LEMMA Thirds ==
  ASSUME NEW n \in Nat
  PROVE  \E k \in Nat : n = 3 * k \/ n = 3 * k + 1 \/ n = 3 * k + 2
<1> n \div 3 \in Nat
  OBVIOUS
<1> QED OBVIOUS

\* There are n multiples of three up to 3n...
LEMMA TripledCardinality ==
  ASSUME NEW n \in Nat
  PROVE  IsFiniteSet(Tripled(n)) /\ Cardinality(Tripled(n)) = n
<1> DEFINE F == [k \in 1 .. n |-> 3 * k]
<1>1. F \in Bijection(1 .. n, Tripled(n))
  <2>1. F \in [1 .. n -> Tripled(n)]
    BY DEF Tripled
  <2>2. \A x, y \in 1 .. n : F[x] = F[y] => x = y
    OBVIOUS
  <2>3. \A t \in Tripled(n) : \E x \in 1 .. n : F[x] = t
    BY DEF Tripled
  <2> HIDE DEF F
  <2> QED BY <2>1, <2>2, <2>3 DEF Bijection, Injection, Surjection, IsInjective
<1>2. IsFiniteSet(1 .. n) /\ Cardinality(1 .. n) = n
  BY FS_Interval
<1>3. ExistsBijection(1 .. n, Tripled(n))
  BY <1>1 DEF ExistsBijection
<1> QED BY <1>2, <1>3, FS_Bijection

\* ... and the k-th of them is 3k.
LEMMA TripledNth ==
  ASSUME NEW n \in Nat, NEW k \in 1 .. n
  PROVE  Nth(Tripled(n), k) = 3 * k
<1> DEFINE Below(e) == {d \in Tripled(n) : d < e}
<1>1. ASSUME NEW j \in 1 .. n
      PROVE  Cardinality(Below(3 * j)) = j - 1
  <2>1. Below(3 * j) = Tripled(j - 1)
    BY DEF Tripled
  <2> HIDE DEF Below
  <2> QED BY <2>1, TripledCardinality
<1>2. 3 * k \in Tripled(n)
  BY DEF Tripled
<1>3. ASSUME NEW e \in Tripled(n), Cardinality(Below(e)) = k - 1
      PROVE  e = 3 * k
  <2>1. PICK j \in 1 .. n : e = 3 * j
    BY DEF Tripled
  <2> HIDE DEF Below
  <2>2. j - 1 = k - 1
    BY <1>1, <1>3, <2>1
  <2> QED BY <2>1, <2>2
<1> QED BY <1>1, <1>2, <1>3 DEF Nth

-----------------------------------------------------------------------------
(* What load makes of a file of whole lines, the last of which may be torn. *)

\* The lines that parse: the whole ones, and one that lacks its newline only.
Whole(f) == (Len(f) + 1) \div 3

\* Lines of three bytes, each of one event, in the order of a chain.
Lined(f) ==
  /\ \A k \in Nat :
       /\ 3 * k + 1 <= Len(f) =>
            /\ f[3 * k + 1].part = "text"
            /\ f[3 * k + 1].parent = IF k = 0 THEN None ELSE f[3 * k - 2].id
       /\ 3 * k + 2 <= Len(f) =>
            f[3 * k + 2].part = "end" /\ f[3 * k + 2].id = f[3 * k + 1].id
       /\ 3 * k + 3 <= Len(f) =>
            f[3 * k + 3].part = "newline" /\ f[3 * k + 3].id = f[3 * k + 1].id
  /\ \A k, l \in Nat : k < l /\ 3 * l + 1 <= Len(f) => f[3 * k + 1].id < f[3 * l + 1].id

\* The length of a file, in lines that parse.
LEMMA WholeIs ==
  ASSUME NEW f \in Seq(Byte)
  PROVE  /\ Whole(f) \in Nat
         /\ \/ Len(f) = 3 * Whole(f) - 1
            \/ Len(f) = 3 * Whole(f)
            \/ Len(f) = 3 * Whole(f) + 1
BY DEF Whole

\* Newlines stand at every third position.
LEMMA LinedParts ==
  ASSUME NEW f \in Seq(Byte), Lined(f), NEW i \in 1 .. Len(f)
  PROVE  f[i].part = "newline" <=> \E k \in 1 .. Len(f) : i = 3 * k
<1>1. PICK k \in Nat : i = 3 * k + 3 \/ i = 3 * k + 1 \/ i = 3 * k + 2
  <2> i \in Nat
    OBVIOUS
  <2>1. PICK k \in Nat : i = 3 * k \/ i = 3 * k + 1 \/ i = 3 * k + 2
    BY Thirds
  <2>2. i = 3 * k => i = 3 * (k - 1) + 3 /\ k - 1 \in Nat
    OBVIOUS
  <2> QED BY <2>1, <2>2
<1>2. CASE i = 3 * k + 1
  <2>1. f[3 * k + 1].part = "text"
    BY <1>2 DEF Lined
  <2> QED BY <1>2, <2>1
<1>3. CASE i = 3 * k + 2
  <2>1. f[3 * k + 2].part = "end"
    BY <1>3 DEF Lined
  <2> QED BY <1>3, <2>1
<1>4. CASE i = 3 * k + 3
  <2>1. f[3 * k + 3].part = "newline"
    BY <1>4 DEF Lined
  <2>2. k + 1 \in 1 .. Len(f) /\ i = 3 * (k + 1)
    BY <1>4
  <2> QED BY <1>4, <2>1, <2>2
<1> QED BY <1>1, <1>2, <1>3, <1>4

\* Lines end there, and at the end of a torn text.
LEMMA LinedEnds ==
  ASSUME NEW f \in Seq(Byte), Lined(f)
  PROVE  LineEnds(f) = Tripled(Whole(f)) \cup
           (IF Len(f) = 3 * Whole(f) + 1 THEN {Len(f) + 1} ELSE {})
<1> DEFINE m == Whole(f)
<1>1. m \in Nat /\ (Len(f) = 3 * m - 1 \/ Len(f) = 3 * m \/ Len(f) = 3 * m + 1)
  BY WholeIs
<1> HIDE DEF m
<1>2. {i \in 1 .. Len(f) : f[i].part = "newline"} =
        {i \in 1 .. Len(f) : \E k \in 1 .. Len(f) : i = 3 * k}
  BY LinedParts
<1>3. f # <<>> => /\ Len(f) >= 1
                  /\ Last(f) = f[Len(f)]
                  /\ Last(f).part = "newline" <=> \E k \in 1 .. Len(f) : Len(f) = 3 * k
  BY LinedParts DEF Last
<1>4. {i \in 1 .. Len(f) : \E k \in 1 .. Len(f) : i = 3 * k} =
        {3 * k : k \in {j \in 1 .. m : 3 * j <= Len(f)}}
  BY <1>1
<1>5. LineEnds(f) = {3 * k : k \in {j \in 1 .. m : 3 * j <= Len(f)}}
        \cup (IF f # <<>> /\ ~(\E k \in 1 .. Len(f) : Len(f) = 3 * k)
              THEN {Len(f) + 1} ELSE {})
  BY <1>2, <1>3, <1>4 DEF LineEnds
<1>6. CASE Len(f) = 3 * m - 1
  <2>1. m >= 1 /\ f # <<>> /\ ~(\E k \in 1 .. Len(f) : Len(f) = 3 * k)
    BY <1>1, <1>6
  <2>2. {3 * k : k \in {j \in 1 .. m : 3 * j <= Len(f)}} \cup {3 * m} = {3 * k : k \in 1 .. m}
    BY <1>1, <1>6, <2>1
  <2>3. LineEnds(f) = {3 * k : k \in {j \in 1 .. m : 3 * j <= Len(f)}} \cup {3 * m}
    BY <1>1, <1>5, <1>6, <2>1
  <2>4. Len(f) # 3 * m + 1
    BY <1>1, <1>6
  <2> QED BY <2>2, <2>3, <2>4 DEF Tripled, m
<1>7. CASE Len(f) = 3 * m
  <2>1. ~(f # <<>> /\ ~(\E k \in 1 .. Len(f) : Len(f) = 3 * k))
    BY <1>1, <1>7
  <2>2. {3 * k : k \in {j \in 1 .. m : 3 * j <= Len(f)}} = {3 * k : k \in 1 .. m}
    BY <1>1, <1>7
  <2> QED BY <1>1, <1>5, <1>7, <2>1, <2>2 DEF Tripled, m
<1>8. CASE Len(f) = 3 * m + 1
  <2>1. f # <<>> /\ ~(\E k \in 1 .. Len(f) : Len(f) = 3 * k)
    BY <1>1, <1>8
  <2>2. {3 * k : k \in {j \in 1 .. m : 3 * j <= Len(f)}} = {3 * k : k \in 1 .. m}
    BY <1>1, <1>8
  <2> QED BY <1>1, <1>5, <1>8, <2>1, <2>2 DEF Tripled, m
<1> QED BY <1>1, <1>6, <1>7, <1>8 DEF m

\* Where the line that ends at e starts.
LineStart(f, e) == Max({0} \cup {i \in LineEnds(f) : i < e})

\* The line that ends at e starts after the end before it, in any file.
LEMMA LineStartIs ==
  ASSUME NEW f \in Seq(Byte), NEW e \in LineEnds(f)
  PROVE  /\ e \in 1 .. Len(f) + 1
         /\ LineStart(f, e) \in 0 .. e - 1
         /\ LineStart(f, e) = 0 \/ LineStart(f, e) \in LineEnds(f)
         /\ \A i \in LineEnds(f) : i < e => i <= LineStart(f, e)
         /\ LineAt(f, e) = SubSeq(f, LineStart(f, e) + 1, e - 1)
         /\ Len(LineAt(f, e)) = e - 1 - LineStart(f, e)
         /\ \A i \in 1 .. e - 1 - LineStart(f, e) : LineAt(f, e)[i] = f[LineStart(f, e) + i]
<1> DEFINE S == {0} \cup {i \in LineEnds(f) : i < e}
<1>1. \A i \in LineEnds(f) : i \in 1 .. Len(f) + 1
  BY DEF LineEnds
<1>2. S \in SUBSET (0 .. Len(f) + 1) /\ S # {}
  BY <1>1
<1>3. Max(S) \in S /\ \A i \in S : i <= Max(S)
  <2>1. Len(f) + 1 \in Nat
    OBVIOUS
  <2> HIDE DEF S
  <2> QED BY <1>2, <2>1, MaxIsGreatest
<1>4. LineStart(f, e) = Max(S)
  BY DEF LineStart
<1>5. LineStart(f, e) \in 0 .. e - 1
  BY <1>1, <1>3, <1>4
<1>6. LineAt(f, e) = SubSeq(f, LineStart(f, e) + 1, e - 1)
  BY DEF LineAt, LineStart
<1>7. /\ Len(LineAt(f, e)) = e - 1 - LineStart(f, e)
      /\ \A i \in 1 .. e - 1 - LineStart(f, e) : LineAt(f, e)[i] = f[LineStart(f, e) + i]
  <2> DEFINE a == LineStart(f, e)
             n == Len(f)
             t == SubSeq(f, a + 1, e - 1)
  <2>1. n \in Nat /\ e \in 1 .. n + 1 /\ a \in 0 .. e - 1
    BY <1>1, <1>5
  <2> HIDE DEF a, n
  <2>2. Len(t) = e - 1 - a
    BY <2>1 DEF n
  <2>3. ASSUME NEW i \in 1 .. e - 1 - a PROVE t[i] = f[a + i]
    <3>1. t[i] = f[a + 1 + i - 1]
      BY <2>1, <2>3 DEF n
    <3>2. a + 1 + i - 1 = a + i
      BY <2>1, <2>3
    <3> QED BY <3>1, <3>2, Zenon
  <2> HIDE DEF t
  <2>4. LineAt(f, e) = t
    BY <1>6 DEF t, a
  <2> QED BY <2>2, <2>3, <2>4 DEF a
<1> QED BY <1>1, <1>3, <1>4, <1>5, <1>6, <1>7

\* A whole line is the text of its event.
LEMMA LinedLine ==
  ASSUME NEW f \in Seq(Byte), Lined(f), NEW k \in 1 .. Whole(f)
  PROVE  /\ 3 * k \in LineEnds(f)
         /\ Parses(LineAt(f, 3 * k))
         /\ LineAt(f, 3 * k)[1] = f[3 * k - 2]
<1> DEFINE m == Whole(f)
           s == LineStart(f, 3 * k)
<1>1. m \in Nat /\ (Len(f) = 3 * m - 1 \/ Len(f) = 3 * m \/ Len(f) = 3 * m + 1)
  BY WholeIs
<1>2. \A i \in LineEnds(f) : i <= 3 * m => \E j \in 1 .. m : i = 3 * j
  BY <1>1, LinedEnds DEF Tripled
<1>3. \A j \in 1 .. m : 3 * j \in LineEnds(f)
  BY LinedEnds DEF Tripled
<1> HIDE DEF m
<1>4. k \in 1 .. m
  BY DEF m
<1>5. s = 3 * k - 3
  <2>1. s \in 0 .. 3 * k - 1 /\ (s = 0 \/ s \in LineEnds(f))
    BY <1>3, <1>4, LineStartIs
  <2>2. ASSUME k # 1  PROVE  3 * (k - 1) <= s
    <3>1. k - 1 \in 1 .. m
      BY <1>1, <1>4, <2>2
    <3>2. 3 * (k - 1) \in LineEnds(f) /\ 3 * (k - 1) < 3 * k
      BY <1>3, <1>4, <3>1
    <3> QED BY <1>3, <1>4, <3>2, LineStartIs
  <2>3. s = 0 \/ \E j \in 1 .. m : s = 3 * j
    BY <1>1, <1>2, <1>4, <2>1
  <2> HIDE DEF s
  <2> QED BY <1>1, <1>4, <2>1, <2>2, <2>3
<1>6. /\ Len(LineAt(f, 3 * k)) = 3 * k - 1 - s
      /\ \A i \in 1 .. 3 * k - 1 - s : LineAt(f, 3 * k)[i] = f[s + i]
  BY <1>3, <1>4, LineStartIs
<1> HIDE DEF s
<1>7. /\ Len(LineAt(f, 3 * k)) = 2
      /\ LineAt(f, 3 * k)[1] = f[3 * k - 2]
      /\ LineAt(f, 3 * k)[2] = f[3 * k - 1]
  <2>1. 3 * k - 1 - s = 2 /\ s + 1 = 3 * k - 2 /\ s + 2 = 3 * k - 1
    BY <1>1, <1>4, <1>5
  <2> DEFINE q == LineAt(f, 3 * k)
             w == 3 * k - 1 - s
  <2>2. Len(q) = w /\ \A i \in 1 .. w : q[i] = f[s + i]
    BY <1>6
  <2>3. w = 2
    BY <2>1
  <2> HIDE DEF q, w
  <2>4. Len(q) = 2 /\ q[1] = f[s + 1] /\ q[2] = f[s + 2]
    BY <2>2, <2>3
  <2> QED BY <2>1, <2>4 DEF q
<1>8. k - 1 \in Nat /\ 3 * (k - 1) + 1 = 3 * k - 2 /\ 3 * (k - 1) + 2 = 3 * k - 1 /\ 3 * k - 1 <= Len(f)
  BY <1>1, <1>4
<1>9. f[3 * (k - 1) + 1].part = "text" /\ f[3 * (k - 1) + 2].part = "end"
  <2> DEFINE j == k - 1
  <2>1. j \in Nat /\ 3 * j + 1 <= Len(f) /\ 3 * j + 2 <= Len(f)
    BY <1>1, <1>4, <1>8
  <2> HIDE DEF j
  <2>2. f[3 * j + 1].part = "text" /\ f[3 * j + 2].part = "end"
    BY <2>1 DEF Lined
  <2> QED BY <2>2 DEF j
<1> QED BY <1>3, <1>4, <1>7, <1>8, <1>9 DEF Parses

\* All whole lines parse and no other does.
LEMMA LinedValid ==
  ASSUME NEW f \in Seq(Byte), Lined(f)
  PROVE  Valid(f) = Tripled(Whole(f)) /\ ~Invalid(f)
<1> DEFINE m == Whole(f)
<1>1. m \in Nat /\ (Len(f) = 3 * m - 1 \/ Len(f) = 3 * m \/ Len(f) = 3 * m + 1)
  BY WholeIs
<1>2. LineEnds(f) = Tripled(m) \cup (IF Len(f) = 3 * m + 1 THEN {Len(f) + 1} ELSE {})
  BY LinedEnds
<1>3. \A d \in Tripled(m) : Parses(LineAt(f, d)) /\ d <= 3 * m
  BY <1>1, LinedLine DEF Tripled
<1>4. Len(f) = 3 * m + 1 => ~Parses(LineAt(f, Len(f) + 1))
  <2> SUFFICES ASSUME Len(f) = 3 * m + 1
               PROVE  ~Parses(LineAt(f, Len(f) + 1))
    OBVIOUS
  <2> DEFINE e == Len(f) + 1
  <2>1. e \in LineEnds(f) /\ e = 3 * m + 2
    BY <1>1, <1>2
  <2>2. LineStart(f, e) >= 3 * m
    <3>1. CASE m = 0
      BY <2>1, <3>1, LineStartIs
    <3>2. CASE m # 0
      <4>1. 3 * m \in LineEnds(f) /\ 3 * m < e
        BY <1>1, <1>2, <2>1, <3>2 DEF Tripled
      <4> QED BY <2>1, <4>1, LineStartIs
    <3> QED BY <3>1, <3>2
  <2>3. LineStart(f, e) \in Nat /\ Len(LineAt(f, e)) = e - 1 - LineStart(f, e)
    BY <2>1, LineStartIs
  <2> DEFINE t == LineStart(f, e)
             n == Len(LineAt(f, e))
  <2>5. m \in Nat /\ e = 3 * m + 2 /\ t \in Nat /\ t >= 3 * m /\ n = e - 1 - t
    BY <1>1, <2>1, <2>2, <2>3
  <2> HIDE DEF m, e, t, n
  <2>4. n # 2
    BY <2>5
  <2> QED BY <2>4 DEF Parses, e, n
<1> HIDE DEF m
<1>5. Valid(f) = Tripled(m)
  <2>1. \A d \in LineEnds(f) : d \in Int
    BY DEF LineEnds
  <2>2. ASSUME Len(f) = 3 * m + 1  PROVE  Len(f) + 1 \notin Valid(f)
    BY <1>1, <1>2, <1>4, <2>1, <2>2 DEF Valid
  <2>3. ASSUME NEW e \in Tripled(m)  PROVE  e \in Valid(f)
    <3>1. \A d \in LineEnds(f) : d <= e => d \in Tripled(m)
      <4>1. e \in Nat /\ e <= 3 * m
        BY <1>1 DEF Tripled
      <4>2. Len(f) = 3 * m + 1 => ~(Len(f) + 1 <= e)
        BY <1>1, <4>1
      <4> QED BY <1>2, <4>2
    <3> QED BY <1>2, <1>3, <3>1 DEF Valid
  <2>4. Valid(f) \subseteq LineEnds(f)
    BY DEF Valid
  <2> QED BY <1>2, <2>2, <2>3, <2>4
<1>6. ~Invalid(f)
  <2> DEFINE B == LineEnds(f) \ Valid(f)
  <2>1. B = {} \/ B = {Len(f) + 1}
    BY <1>2, <1>5
  <2>2. Cardinality(B) = 0 \/ Cardinality(B) = 1
    BY <2>1, FS_EmptySet, FS_Singleton
  <2> QED BY <2>2 DEF Invalid
<1> QED BY <1>5, <1>6 DEF m

\* Load returns the event of each whole line.
LEMMA LinedEvents ==
  ASSUME NEW f \in Seq(Byte), Lined(f)
  PROVE  Events(f) = [k \in 1 .. Whole(f) |-> f[3 * k - 2]]
<1> DEFINE m == Whole(f)
<1>1. m \in Nat
  BY WholeIs
<1>2. Valid(f) = Tripled(m)
  BY LinedValid
<1>3. Cardinality(Valid(f)) = m
  BY <1>1, <1>2, TripledCardinality
<1>4. Events(f) = [k \in 1 .. m |-> LineAt(f, Nth(Valid(f), k))[1]]
  BY <1>3 DEF Events
<1>5. \A k \in 1 .. m : LineAt(f, Nth(Valid(f), k))[1] = f[3 * k - 2]
  <2> SUFFICES ASSUME NEW k \in 1 .. m
               PROVE  LineAt(f, Nth(Valid(f), k))[1] = f[3 * k - 2]
    OBVIOUS
  <2>1. Nth(Valid(f), k) = 3 * k
    BY <1>1, <1>2, TripledNth
  <2>2. LineAt(f, 3 * k)[1] = f[3 * k - 2]
    BY LinedLine
  <2> QED BY <2>1, <2>2
<1> HIDE DEF m
<1>6. Events(f) = [k \in 1 .. m |-> f[3 * k - 2]]
  BY <1>4, <1>5, Zenon
<1> QED BY <1>6 DEF m

\* Every event that load returns stands in the file, at the start of a line.
LEMMA LinedEvent ==
  ASSUME NEW f \in Seq(Byte), Lined(f)
  PROVE  /\ Whole(f) \in Nat
         /\ DOMAIN Events(f) = 1 .. Whole(f)
         /\ Len(Events(f)) = Whole(f)
         /\ Events(f) \in Seq(Byte)
         /\ \A k \in 1 .. Whole(f) :
              /\ Events(f)[k] = f[3 * k - 2]
              /\ 3 * k - 2 \in 1 .. Len(f)
<1> DEFINE m == Whole(f)
<1>1. m \in Nat /\ (Len(f) = 3 * m - 1 \/ Len(f) = 3 * m \/ Len(f) = 3 * m + 1)
  BY WholeIs
<1>2. Events(f) = [k \in 1 .. m |-> f[3 * k - 2]]
  BY LinedEvents
<1> HIDE DEF m
<1>3. \A k \in 1 .. m : 3 * k - 2 \in 1 .. Len(f)
  BY <1>1
<1>4. \A k \in 1 .. m : f[3 * k - 2] \in Byte
  BY <1>3
<1>5. Events(f) \in Seq(Byte) /\ Len(Events(f)) = m /\ DOMAIN Events(f) = 1 .. m
  BY <1>1, <1>2, <1>4
<1>6. \A k \in 1 .. m : Events(f)[k] = f[3 * k - 2]
  BY <1>2
<1> QED BY <1>1, <1>3, <1>5, <1>6 DEF m

\* The head, the bytes to keep and the chain that load finds.
LEMMA LinedLoads ==
  ASSUME NEW f \in Seq(Byte), Lined(f)
  PROVE  /\ HeadOf(f) = IF Whole(f) = 0 THEN None ELSE f[3 * Whole(f) - 2].id
         /\ ValidBytes(f) = 3 * Whole(f)
         /\ Readable(f)
<1> DEFINE m == Whole(f)
           E == Events(f)
<1>1. /\ m \in Nat
      /\ DOMAIN E = 1 .. m
      /\ Len(E) = m
      /\ E \in Seq(Byte)
      /\ \A k \in 1 .. m : E[k] = f[3 * k - 2] /\ 3 * k - 2 \in 1 .. Len(f)
  BY LinedEvent
<1>2. Valid(f) = Tripled(m) /\ ~Invalid(f)
  BY LinedValid
<1>3. HeadOf(f) = IF m = 0 THEN None ELSE f[3 * m - 2].id
  <2> HIDE DEF m, E
  <2>1. CASE m = 0
    <3>1. E = <<>>
      BY <1>1, <2>1
    <3> QED BY <2>1, <3>1 DEF HeadOf, E
  <2>2. CASE m # 0
    <3>1. E # <<>> /\ Last(E) = f[3 * m - 2]
      BY <1>1, <2>2 DEF Last
    <3> QED BY <2>2, <3>1 DEF HeadOf, E
  <2> QED BY <2>1, <2>2
<1>4. ValidBytes(f) = 3 * m
  <2> DEFINE S == {0} \cup Tripled(m)
  <2>1. S \in SUBSET (0 .. 3 * m) /\ S # {} /\ 3 * m \in Nat /\ 3 * m \in S
    BY <1>1 DEF Tripled
  <2>2. ValidBytes(f) = Max(S)
    BY <1>2 DEF ValidBytes
  <2> HIDE DEF S, m
  <2>3. Max(S) \in S /\ \A i \in S : i <= Max(S)
    BY <2>1, MaxIsGreatest
  <2> DEFINE M == Max(S)
  <2>4. M \in 0 .. 3 * m /\ 3 * m <= M
    BY <2>1, <2>3
  <2> HIDE DEF M
  <2>5. M = 3 * m
    BY <1>1, <2>4
  <2> QED BY <2>2, <2>5 DEF M
<1>5. Chained(E)
  <2> SUFFICES ASSUME NEW k \in 1 .. m
               PROVE  E[k].parent = IF k = 1 THEN None ELSE E[k - 1].id
    BY <1>1 DEF Chained
  <2> DEFINE j == k - 1
  <2>1. j \in Nat /\ 3 * j + 1 = 3 * k - 2 /\ 3 * j - 2 = 3 * (k - 1) - 2 /\ (j = 0 <=> k = 1)
    BY <1>1
  <2>2. 3 * j + 1 <= Len(f)
    BY <1>1, <2>1
  <2>3. E[k] = f[3 * j + 1]
    BY <1>1, <2>1
  <2>4. k # 1 => E[k - 1] = f[3 * j - 2]
    <3>1. k # 1 => k - 1 \in 1 .. m
      BY <1>1
    <3> QED BY <1>1, <2>1, <3>1
  <2> HIDE DEF j, E, m
  <2>5. f[3 * j + 1].parent = IF j = 0 THEN None ELSE f[3 * j - 2].id
    BY <2>1, <2>2 DEF Lined
  <2> QED BY <2>1, <2>3, <2>4, <2>5
<1>6. Readable(f)
  BY <1>2, <1>5 DEF Readable
<1> QED BY <1>3, <1>4, <1>6

-----------------------------------------------------------------------------
(* What load makes of any file, and what the steps make of lines.           *)

\* The bytes that load counts as valid are at most one more than there are.
LEMMA ValidBytesIs ==
  ASSUME NEW f \in Seq(Byte)
  PROVE  ValidBytes(f) \in 0 .. Len(f) + 1
<1> DEFINE S == {0} \cup Valid(f)
           M == Max(S)
<1>1. Len(f) + 1 \in Nat
  OBVIOUS
<1>2. S \in SUBSET (0 .. Len(f) + 1) /\ S # {}
  BY DEF Valid, LineEnds
<1> HIDE DEF S
<1>3. M \in S
  BY <1>1, <1>2, MaxIsGreatest
<1> QED BY <1>2, <1>3 DEF ValidBytes, S

\* The head that load finds is the id of a byte of the file.
LEMMA HeadAmong ==
  ASSUME NEW f \in Seq(Byte), HeadOf(f) # None
  PROVE  \E i \in 1 .. Len(f) : HeadOf(f) = f[i].id
<1> DEFINE V == Valid(f)
           n == Cardinality(V)
           E == Events(f)
<1>1. Len(f) + 1 \in Nat /\ V \in SUBSET (1 .. Len(f) + 1)
  BY DEF Valid, LineEnds
<1>2. n \in Nat
  <2> HIDE DEF V
  <2> QED BY <1>1, PositionsFinite
<1>3. E = [k \in 1 .. n |-> LineAt(f, Nth(V, k))[1]]
  BY DEF Events
<1>4. Len(E) = n /\ DOMAIN E = 1 .. n
  <2> HIDE DEF n, V
  <2> QED BY <1>2, <1>3
<1>5. E # <<>> /\ HeadOf(f) = E[n].id
  BY <1>4 DEF HeadOf, Last
<1>6. n \in 1 .. n
  <2>1. n # 0
    BY <1>4, <1>5
  <2> HIDE DEF n
  <2> QED BY <1>2, <2>1
<1>7. Nth(V, n) \in V
  <2> HIDE DEF V
  <2>1. \E e \in V : Cardinality({d \in V : d < e}) = n - 1
    BY <1>1, <1>6, KthExists
  <2> HIDE DEF n
  <2> QED BY <2>1 DEF Nth
<1> DEFINE e == Nth(V, n)
           s == LineStart(f, e)
<1>8. e \in LineEnds(f) /\ Len(LineAt(f, e)) = 2
  <2>1. e \in V /\ e \in Nat
    BY <1>1, <1>7
  <2> HIDE DEF e, s, n
  <2>2. e \in LineEnds(f) /\ \A d \in LineEnds(f) : d <= e => Parses(LineAt(f, d))
    BY <2>1 DEF Valid
  <2> QED BY <2>1, <2>2 DEF Parses
<1>9. /\ e \in 1 .. Len(f) + 1
      /\ s \in 0 .. e - 1
      /\ Len(LineAt(f, e)) = e - 1 - s
      /\ \A i \in 1 .. e - 1 - s : LineAt(f, e)[i] = f[s + i]
  BY <1>8, LineStartIs
<1>10. HeadOf(f) = LineAt(f, e)[1].id
  BY <1>3, <1>5, <1>6
<1> HIDE DEF e, s
<1>11. 1 \in 1 .. e - 1 - s /\ s + 1 \in 1 .. Len(f)
  <2> DEFINE n2 == Len(LineAt(f, e))
  <2>1. n2 = 2 /\ n2 = e - 1 - s
    BY <1>8, <1>9
  <2> HIDE DEF n2
  <2> QED BY <1>9, <2>1
<1>12. LineAt(f, e)[1] = f[s + 1]
  BY <1>9, <1>11
<1> QED BY <1>10, <1>11, <1>12

\* To remove the first occurrence of the head is to drop the head.
LEMMA RemoveHead ==
  ASSUME NEW S, NEW q \in Seq(S), q # <<>>
  PROVE  RemoveFirst(q, Head(q)) = Tail(q)
<1> DEFINE I == {i \in 1 .. Len(q) : q[i] = Head(q)}
<1>1. 1 \in I /\ I \in SUBSET Nat
  OBVIOUS
<1>2. SelectInSeq(q, LAMBDA v : v = Head(q)) = Min(I)
  BY <1>1 DEF SelectInSeq
<1> HIDE DEF I
<1>3. Min(I) \in I /\ \A i \in I : Min(I) <= i
  BY <1>1, MinIsLeast
<1>4. Min(I) = 1
  <2> DEFINE M == Min(I)
  <2>1. M \in 1 .. Len(q) /\ M <= 1
    BY <1>1, <1>3 DEF I
  <2> HIDE DEF M
  <2>2. M = 1
    BY <2>1
  <2> QED BY <2>2 DEF M
<1>5. RemoveAt(q, 1) = Tail(q)
  BY DEF RemoveAt
<1> QED BY <1>1, <1>2, <1>4, <1>5 DEF RemoveFirst, I

\* The first bytes of lines are lines.
LEMMA LinedPrefix ==
  ASSUME NEW f \in Seq(Byte), Lined(f), NEW g \in Seq(Byte), Len(g) <= Len(f),
         \A i \in 1 .. Len(g) : g[i] = f[i]
  PROVE  Lined(g)
<1>1. ASSUME NEW k \in Nat, 3 * k + 1 <= Len(g)
      PROVE  /\ 3 * k + 1 <= Len(f)
             /\ g[3 * k + 1] = f[3 * k + 1]
             /\ k # 0 => g[3 * k - 2] = f[3 * k - 2]
  BY <1>1
<1>2. ASSUME NEW k \in Nat
      PROVE  /\ 3 * k + 2 <= Len(g) =>
                  3 * k + 2 <= Len(f) /\ 3 * k + 1 <= Len(g) /\ g[3 * k + 2] = f[3 * k + 2]
             /\ 3 * k + 3 <= Len(g) =>
                  3 * k + 3 <= Len(f) /\ 3 * k + 1 <= Len(g) /\ g[3 * k + 3] = f[3 * k + 3]
  OBVIOUS
<1>3. ASSUME NEW k \in Nat, NEW l \in Nat, k < l, 3 * l + 1 <= Len(g)
      PROVE  g[3 * k + 1].id < g[3 * l + 1].id
  <2>1. 3 * k + 1 <= Len(g)
    BY <1>3
  <2>2. g[3 * k + 1] = f[3 * k + 1] /\ g[3 * l + 1] = f[3 * l + 1] /\ 3 * l + 1 <= Len(f)
    BY <1>1, <1>3, <2>1
  <2> QED BY <1>3, <2>2 DEF Lined
<1>4. ASSUME NEW k \in Nat
      PROVE  /\ 3 * k + 1 <= Len(g) =>
                  /\ g[3 * k + 1].part = "text"
                  /\ g[3 * k + 1].parent = IF k = 0 THEN None ELSE g[3 * k - 2].id
             /\ 3 * k + 2 <= Len(g) =>
                  g[3 * k + 2].part = "end" /\ g[3 * k + 2].id = g[3 * k + 1].id
             /\ 3 * k + 3 <= Len(g) =>
                  g[3 * k + 3].part = "newline" /\ g[3 * k + 3].id = g[3 * k + 1].id
  <2>1. /\ 3 * k + 1 <= Len(f) =>
             /\ f[3 * k + 1].part = "text"
             /\ f[3 * k + 1].parent = IF k = 0 THEN None ELSE f[3 * k - 2].id
        /\ 3 * k + 2 <= Len(f) =>
             f[3 * k + 2].part = "end" /\ f[3 * k + 2].id = f[3 * k + 1].id
        /\ 3 * k + 3 <= Len(f) =>
             f[3 * k + 3].part = "newline" /\ f[3 * k + 3].id = f[3 * k + 1].id
    BY DEF Lined
  <2>2. 3 * k + 1 <= Len(g) =>
             /\ g[3 * k + 1].part = "text"
             /\ g[3 * k + 1].parent = IF k = 0 THEN None ELSE g[3 * k - 2].id
    BY <1>1, <2>1
  <2>3. 3 * k + 2 <= Len(g) =>
             g[3 * k + 2].part = "end" /\ g[3 * k + 2].id = g[3 * k + 1].id
    BY <1>1, <1>2, <2>1
  <2>4. 3 * k + 3 <= Len(g) =>
             g[3 * k + 3].part = "newline" /\ g[3 * k + 3].id = g[3 * k + 1].id
    BY <1>1, <1>2, <2>1
  <2> QED BY <2>2, <2>3, <2>4
<1> QED BY <1>3, <1>4 DEF Lined

\* Concatenation, position by position.
LEMMA Joined ==
  ASSUME NEW f \in Seq(Byte), NEW g \in Seq(Byte)
  PROVE  /\ f \o g \in Seq(Byte)
         /\ Len(f \o g) = Len(f) + Len(g)
         /\ \A i \in 1 .. Len(f) : (f \o g)[i] = f[i]
         /\ \A i \in 1 .. Len(g) : (f \o g)[Len(f) + i] = g[i]
OBVIOUS

\* A line after a file.
LEMMA ThreeMore ==
  ASSUME NEW f \in Seq(Byte), NEW g \in Seq(Byte), Len(g) = 3,
         NEW n \in Nat, Len(f) = n
  PROVE  /\ Len(f \o g) = n + 3
         /\ \A i \in 1 .. n : (f \o g)[i] = f[i]
         /\ (f \o g)[n + 1] = g[1]
         /\ (f \o g)[n + 2] = g[2]
         /\ (f \o g)[n + 3] = g[3]
<1> DEFINE h == f \o g
<1>1. /\ Len(h) = Len(f) + Len(g)
      /\ \A i \in 1 .. Len(f) : h[i] = f[i]
      /\ \A i \in 1 .. Len(g) : h[Len(f) + i] = g[i]
  BY Joined
<1> HIDE DEF h
<1>2. /\ Len(h) = n + 3
      /\ \A i \in 1 .. n : h[i] = f[i]
      /\ \A i \in 1 .. 3 : h[n + i] = g[i]
  BY <1>1
<1>3. h[n + 1] = g[1] /\ h[n + 2] = g[2] /\ h[n + 3] = g[3]
  BY <1>2
<1> QED BY <1>2, <1>3 DEF h

\* The bytes of a line.
LEMMA LineOfIs ==
  ASSUME NEW id \in Nat, NEW parent \in Nat \cup {None}
  PROVE  /\ LineOf(id, parent) \in Seq(Byte)
         /\ Len(LineOf(id, parent)) = 3
         /\ LineOf(id, parent)[1] = [id |-> id, parent |-> parent, part |-> "text"]
         /\ LineOf(id, parent)[2] = [id |-> id, parent |-> parent, part |-> "end"]
         /\ LineOf(id, parent)[3] = [id |-> id, parent |-> parent, part |-> "newline"]
<1>1. Parts[1] = "text" /\ Parts[2] = "end" /\ Parts[3] = "newline"
  BY DEF Parts
<1> DEFINE L == [i \in 1 .. 3 |-> [id |-> id, parent |-> parent, part |-> Parts[i]]]
<1>2. \A i \in 1 .. 3 : [id |-> id, parent |-> parent, part |-> Parts[i]] \in Byte
  <2>1. \A i \in 1 .. 3 : Parts[i] \in {"text", "end", "newline"}
    BY <1>1
  <2> QED BY <2>1 DEF Byte
<1>3. L \in Seq(Byte) /\ Len(L) = 3
  BY <1>2
<1> QED BY <1>1, <1>3 DEF LineOf

\* After whole lines, a line with a later id and the head for its parent is
\* one more link of the chain.
LEMMA LinedNext ==
  ASSUME NEW f \in Seq(Byte), Lined(f), Len(f) = 3 * Whole(f), HeadOf(f) \in Nat \cup {None},
         NEW id \in Nat, \A i \in 1 .. Len(f) : f[i].id < id
  PROVE  Lined(f \o LineOf(id, HeadOf(f)))
<1> DEFINE m == Whole(f)
           h == HeadOf(f)
           L == LineOf(id, h)
           g == f \o L
<1>1. m \in Nat /\ Len(f) = 3 * m
  BY WholeIs
<1>2. h = IF m = 0 THEN None ELSE f[3 * m - 2].id
  BY LinedLoads
<1>3. /\ L \in Seq(Byte)
      /\ Len(L) = 3
      /\ L[1] = [id |-> id, parent |-> h, part |-> "text"]
      /\ L[2] = [id |-> id, parent |-> h, part |-> "end"]
      /\ L[3] = [id |-> id, parent |-> h, part |-> "newline"]
  BY LineOfIs
<1> HIDE DEF m, h, L
<1>4. /\ Len(g) = 3 * m + 3
      /\ \A i \in 1 .. 3 * m : g[i] = f[i]
      /\ g[3 * m + 1] = L[1]
      /\ g[3 * m + 2] = L[2]
      /\ g[3 * m + 3] = L[3]
  <2>1. 3 * m \in Nat
    BY <1>1
  <2> HIDE DEF g
  <2>2. /\ Len(f \o L) = 3 * m + 3
        /\ \A i \in 1 .. 3 * m : (f \o L)[i] = f[i]
        /\ (f \o L)[3 * m + 1] = L[1]
        /\ (f \o L)[3 * m + 2] = L[2]
        /\ (f \o L)[3 * m + 3] = L[3]
    BY <1>1, <1>3, <2>1, ThreeMore
  <2> QED BY <2>2, Zenon DEF g
<1> HIDE DEF g
<1>5. ASSUME NEW k \in Nat
      PROVE  /\ 3 * k + 1 <= Len(g) =>
                  /\ g[3 * k + 1].part = "text"
                  /\ g[3 * k + 1].parent = IF k = 0 THEN None ELSE g[3 * k - 2].id
             /\ 3 * k + 2 <= Len(g) =>
                  g[3 * k + 2].part = "end" /\ g[3 * k + 2].id = g[3 * k + 1].id
             /\ 3 * k + 3 <= Len(g) =>
                  g[3 * k + 3].part = "newline" /\ g[3 * k + 3].id = g[3 * k + 1].id
  <2>1. CASE k < m
    <3>1. /\ 3 * k + 1 <= Len(f) /\ 3 * k + 2 <= Len(f) /\ 3 * k + 3 <= Len(f)
          /\ g[3 * k + 1] = f[3 * k + 1] /\ g[3 * k + 2] = f[3 * k + 2]
          /\ g[3 * k + 3] = f[3 * k + 3]
          /\ k # 0 => g[3 * k - 2] = f[3 * k - 2]
      BY <1>1, <1>4, <2>1
    <3>2. /\ f[3 * k + 1].part = "text"
          /\ f[3 * k + 1].parent = IF k = 0 THEN None ELSE f[3 * k - 2].id
          /\ f[3 * k + 2].part = "end" /\ f[3 * k + 2].id = f[3 * k + 1].id
          /\ f[3 * k + 3].part = "newline" /\ f[3 * k + 3].id = f[3 * k + 1].id
      BY <3>1 DEF Lined
    <3> QED BY <3>1, <3>2
  <2>2. CASE k = m
    <3>1. m # 0 => g[3 * m - 2] = f[3 * m - 2]
      BY <1>1, <1>4
    <3>2. /\ g[3 * k + 1] = L[1] /\ g[3 * k + 2] = L[2] /\ g[3 * k + 3] = L[3]
          /\ k # 0 => h = g[3 * k - 2].id
          /\ k = 0 => h = None
      BY <1>2, <1>4, <2>2, <3>1
    <3> QED BY <1>3, <3>2
  <2>3. CASE k > m
    BY <1>1, <1>4, <2>3
  <2> QED BY <1>1, <2>1, <2>2, <2>3
<1>6. ASSUME NEW k \in Nat, NEW l \in Nat, k < l, 3 * l + 1 <= Len(g)
      PROVE  g[3 * k + 1].id < g[3 * l + 1].id
  <2>1. k < m /\ 3 * k + 1 \in 1 .. Len(f) /\ g[3 * k + 1] = f[3 * k + 1]
    BY <1>1, <1>4, <1>6
  <2>2. CASE l < m
    <3>1. 3 * l + 1 <= Len(f) /\ g[3 * l + 1] = f[3 * l + 1]
      BY <1>1, <1>4, <2>2
    <3> QED BY <1>6, <2>1, <3>1 DEF Lined
  <2>3. CASE l = m
    <3>1. g[3 * l + 1].id = id
      BY <1>3, <1>4, <2>3
    <3> QED BY <2>1, <3>1
  <2> QED BY <1>1, <1>4, <1>6, <2>2, <2>3
<1>7. Lined(g)
  BY <1>5, <1>6 DEF Lined
<1> QED BY <1>7 DEF g, L, h

\* More whole lines, more events.
LEMMA EventsGrow ==
  ASSUME NEW f \in Seq(Byte), Lined(f), NEW g \in Seq(Byte), Lined(g), Whole(f) <= Whole(g),
         \A i \in 1 .. Len(f) : i <= Len(g) => f[i] = g[i]
  PROVE  IsPrefix(Events(f), Events(g))
<1> DEFINE m == Whole(f)
           E == Events(f)
           F == Events(g)
<1>1. /\ m \in Nat /\ E \in Seq(Byte) /\ Len(E) = m
      /\ \A k \in 1 .. m : E[k] = f[3 * k - 2] /\ 3 * k - 2 \in 1 .. Len(f)
  BY LinedEvent
<1>2. /\ Whole(g) \in Nat /\ F \in Seq(Byte) /\ Len(F) = Whole(g)
      /\ \A k \in 1 .. Whole(g) : F[k] = g[3 * k - 2] /\ 3 * k - 2 \in 1 .. Len(g)
  BY LinedEvent
<1>3. m <= Whole(g)
  OBVIOUS
<1> HIDE DEF m, E, F
<1>4. \A k \in 1 .. m : E[k] = F[k]
  <2> SUFFICES ASSUME NEW k \in 1 .. m  PROVE E[k] = F[k]
    OBVIOUS
  <2>1. k \in 1 .. Whole(g)
    BY <1>1, <1>2, <1>3
  <2>2. E[k] = f[3 * k - 2] /\ F[k] = g[3 * k - 2] /\ 3 * k - 2 \in 1 .. Len(f) /\ 3 * k - 2 <= Len(g)
    BY <1>1, <1>2, <2>1
  <2> QED BY <2>2
<1>5. Len(E) <= Len(F) /\ SubSeq(E, 1, m) = SubSeq(F, 1, m)
  BY <1>1, <1>2, <1>3, <1>4
<1> QED BY <1>1, <1>5 DEF IsPrefix, E, F

-----------------------------------------------------------------------------
(* The inductive invariant.  Its first half holds of every file, its second *)
(* while no write has stopped between an event's text and its newline.      *)

Writing == {"truncate", "compose", "write", "sync", "resolve"}

\* What the steps of append rely on whatever the file is.
StepsInv ==
  /\ \A i, j \in 1 .. Len(queue) : queue[i] = queue[j] => i = j
  /\ \A c \in Callers : pc[c] \in Writing => Turn(c)
  /\ \A f \in disk : \A i \in 1 .. Len(f) : f[i].id \in 1 .. lastId
  /\ \A c \in Callers :
       /\ pc[c] = "truncate" => base[c].bytes < Len(file)
       /\ pc[c] = "write" =>
            /\ line[c] # <<>>
            /\ \A i \in 1 .. Len(line[c]) : line[c][i].id \in 1 .. lastId
       /\ pc[c] \in {"sync", "resolve"} => file # <<>>

\* Where the append of c stands in its line.
Building(c) ==
  /\ pc[c] \in {"truncate", "compose"} =>
       base[c] = [bytes |-> 3 * Whole(file), head |-> HeadOf(file)]
  /\ pc[c] = "truncate" => Len(file) = base[c].bytes + 1
  /\ pc[c] = "compose" => Len(file) = base[c].bytes
  /\ pc[c] \in {"write", "sync", "resolve"} =>
       /\ \E k \in Nat : base[c].bytes = 3 * k
       /\ \A k \in 1 .. Len(acked) : acked[k] < lastId
  /\ pc[c] = "write" =>
       /\ Lined(file \o line[c])
       /\ Len(file) + Len(line[c]) = base[c].bytes + 3
       /\ \A i \in 1 .. Len(line[c]) : line[c][i].id = lastId
  /\ pc[c] \in {"sync", "resolve"} =>
       Len(file) = base[c].bytes + 3 /\ Last(file).id = lastId
  /\ pc[c] = "resolve" => disk = {file}

\* The event with the id a is on a line of f that ends in a newline.
Holds(f, a) == \E k \in Nat \ {0} : 3 * k <= Len(f) /\ f[3 * k - 2].id = a

FilesInv ==
  /\ \A f \in disk : Lined(f)
  /\ (\A c \in Callers : pc[c] # "write") => Len(file) # 3 * Whole(file) - 1
  /\ \A c \in Callers : Building(c)
  /\ tail # None =>
       \E k \in Nat \ {0} :
         3 * k <= Len(file) /\ tail = [bytes |-> 3 * k, head |-> file[3 * k - 2].id]
  /\ \A f \in disk : \A k \in 1 .. Len(acked) : Holds(f, acked[k])
  /\ \A k, l \in 1 .. Len(acked) : k < l => acked[k] < acked[l]

IInv ==
  /\ TypeOK
  /\ StepsInv
  /\ ~wholeTail => FilesInv

\* The invariant holds of an empty file and an idle process.
LEMMA InitIInv == Init => IInv
<1> SUFFICES ASSUME Init
             PROVE  IInv
  OBVIOUS
<1>1. file = <<>> /\ disk = {<<>>} /\ queue = <<>> /\ acked = <<>>
  BY DEF Init
<1>2. TypeOK
  <2>1. NoTail \in JournalTail
    BY DEF NoTail, JournalTail
  <2>2. ToSet(queue) = {}
    BY <1>1 DEF ToSet
  <2>3. /\ file \in Seq(Byte) /\ file \in disk /\ disk \subseteq Seq(Byte)
        /\ queue \in Seq(Callers) /\ acked \in Seq(1 .. lastId)
    BY <1>1
  <2>4. /\ expected \in [Callers -> SUBSET ((1 .. lastId) \cup {None})]
        /\ pc \in [Callers -> {"idle", "queued", "truncate", "compose", "write", "sync", "resolve"}]
        /\ base \in [Callers -> JournalTail]
        /\ line \in [Callers -> Seq(Byte)]
    BY <2>1 DEF Init
  <2>5. lastId \in 0 .. MaxId /\ stops \in 0 .. MaxStops
    BY JsonlJournalAssumption DEF Init
  <2>6. /\ tail \in JournalTail \cup {None}
        /\ wholeTail \in BOOLEAN
        /\ \A c \in Callers : pc[c] # "idle" <=> c \in ToSet(queue)
    BY <2>2 DEF Init
  <2> QED BY <2>3, <2>4, <2>5, <2>6 DEF TypeOK
<1>3. StepsInv
  BY <1>1 DEF Init, StepsInv, Writing
<1>4. FilesInv
  <2>1. <<>> \in Seq(Byte) /\ Len(<<>>) = 0
    OBVIOUS
  <2>2. Lined(<<>>)
    BY DEF Lined
  <2>3. Len(file) # 3 * Whole(file) - 1
    <3>1. Whole(file) = 0
      BY <1>1 DEF Whole
    <3> QED BY <1>1, <3>1
  <2>4. \A c \in Callers : Building(c)
    BY DEF Init, Building
  <2> QED BY <1>1, <2>2, <2>3, <2>4 DEF Init, FilesInv
<1> QED BY <1>2, <1>3, <1>4 DEF IInv

-----------------------------------------------------------------------------
(* What the steps share.                                                    *)

\* Only the first of the queue can be past waiting.
LEMMA OneRuns ==
  ASSUME StepsInv, NEW c \in Callers, Turn(c)
  PROVE  \A d \in Callers : pc[d] \in Writing => d = c
BY DEF StepsInv, Turn

\* A queue without repetitions loses its head only.
LEMMA TailSet ==
  ASSUME NEW q \in Seq(Callers), q # <<>>,
         \A i, j \in 1 .. Len(q) : q[i] = q[j] => i = j
  PROVE  /\ Tail(q) \in Seq(Callers)
         /\ ToSet(Tail(q)) = ToSet(q) \ {Head(q)}
         /\ \A i, j \in 1 .. Len(Tail(q)) : Tail(q)[i] = Tail(q)[j] => i = j
<1>1. /\ Tail(q) \in Seq(Callers)
      /\ Len(q) >= 1
      /\ Len(Tail(q)) = Len(q) - 1
      /\ \A i \in 1 .. Len(Tail(q)) : Tail(q)[i] = q[i + 1] /\ i + 1 \in 1 .. Len(q)
      /\ DOMAIN q = 1 .. Len(q) /\ DOMAIN Tail(q) = 1 .. Len(Tail(q))
      /\ Head(q) = q[1]
  OBVIOUS
<1>2. \A i \in 1 .. Len(q) : i # 1 => i - 1 \in 1 .. Len(Tail(q)) /\ Tail(q)[i - 1] = q[i]
  BY <1>1
<1>3. ToSet(Tail(q)) \subseteq ToSet(q) \ {Head(q)}
  <2> SUFFICES ASSUME NEW i \in 1 .. Len(Tail(q))
               PROVE  Tail(q)[i] \in ToSet(q) \ {Head(q)}
    BY <1>1 DEF ToSet
  <2>1. Tail(q)[i] = q[i + 1] /\ i + 1 \in 1 .. Len(q) /\ i + 1 # 1 /\ 1 \in 1 .. Len(q)
    BY <1>1
  <2> QED BY <1>1, <2>1 DEF ToSet
<1>4. ToSet(q) \ {Head(q)} \subseteq ToSet(Tail(q))
  <2> SUFFICES ASSUME NEW i \in 1 .. Len(q), q[i] # Head(q)
               PROVE  q[i] \in ToSet(Tail(q))
    BY <1>1 DEF ToSet
  <2>1. i # 1
    BY <1>1
  <2>2. i - 1 \in DOMAIN Tail(q) /\ Tail(q)[i - 1] = q[i]
    BY <1>1, <1>2, <2>1
  <2> QED BY <2>2, Zenon DEF ToSet
<1>5. \A i, j \in 1 .. Len(Tail(q)) : Tail(q)[i] = Tail(q)[j] => i = j
  <2> SUFFICES ASSUME NEW i \in 1 .. Len(Tail(q)), NEW j \in 1 .. Len(Tail(q)), Tail(q)[i] = Tail(q)[j]
               PROVE  i = j
    OBVIOUS
  <2>1. i + 1 = j + 1
    BY <1>1
  <2> QED BY <2>1
<1> QED BY <1>1, <1>3, <1>4, <1>5

\* The append that ends is the first of the queue; no other is past waiting.
LEMMA EndType ==
  ASSUME TypeOK, StepsInv, NEW c \in Callers, Turn(c), End(c)
  PROVE  /\ queue' \in Seq(Callers)
         /\ expected' \in [Callers -> SUBSET ((1 .. lastId) \cup {None})]
         /\ pc' \in [Callers -> {"idle", "queued", "truncate", "compose", "write", "sync", "resolve"}]
         /\ \A d \in Callers : pc'[d] # "idle" <=> d \in ToSet(queue')
         /\ base' \in [Callers -> JournalTail]
         /\ line' \in [Callers -> Seq(Byte)]
         /\ \A i, j \in 1 .. Len(queue') : queue'[i] = queue'[j] => i = j
         /\ \A d \in Callers : pc'[d] \in {"idle", "queued"}
<1>1. queue \in Seq(Callers) /\ queue # <<>> /\ Head(queue) = c
  BY DEF Turn, TypeOK
<1>2. \A i, j \in 1 .. Len(queue) : queue[i] = queue[j] => i = j
  BY DEF StepsInv
<1>3. queue' = Tail(queue)
  BY <1>1, RemoveHead DEF End
<1>4. /\ queue' \in Seq(Callers)
      /\ ToSet(queue') = ToSet(queue) \ {c}
      /\ \A i, j \in 1 .. Len(queue') : queue'[i] = queue'[j] => i = j
  <2>1. /\ Tail(queue) \in Seq(Callers)
        /\ ToSet(Tail(queue)) = ToSet(queue) \ {Head(queue)}
        /\ \A i, j \in 1 .. Len(Tail(queue)) : Tail(queue)[i] = Tail(queue)[j] => i = j
    BY <1>1, <1>2, TailSet
  <2>2. ToSet(queue') = ToSet(Tail(queue))
    BY <1>3
  <2> QED BY <1>1, <1>3, <2>1, <2>2
<1>5. pc' = [pc EXCEPT ![c] = "idle"] /\ base' = [base EXCEPT ![c] = NoTail]
      /\ expected' = [expected EXCEPT ![c] = {}] /\ line' = [line EXCEPT ![c] = <<>>]
  BY DEF End
<1>6. /\ pc \in [Callers -> {"idle", "queued", "truncate", "compose", "write", "sync", "resolve"}]
      /\ \A d \in Callers : pc[d] # "idle" <=> d \in ToSet(queue)
      /\ expected \in [Callers -> SUBSET ((1 .. lastId) \cup {None})]
      /\ base \in [Callers -> JournalTail]
      /\ line \in [Callers -> Seq(Byte)]
  BY DEF TypeOK
<1>7. NoTail \in JournalTail /\ <<>> \in Seq(Byte)
  BY DEF NoTail, JournalTail
<1>8. \A d \in Callers : pc'[d] # "idle" <=> d \in ToSet(queue')
  BY <1>4, <1>5, <1>6
<1>9. /\ pc' \in [Callers -> {"idle", "queued", "truncate", "compose", "write", "sync", "resolve"}]
      /\ expected' \in [Callers -> SUBSET ((1 .. lastId) \cup {None})]
      /\ base' \in [Callers -> JournalTail]
      /\ line' \in [Callers -> Seq(Byte)]
  BY <1>5, <1>6, <1>7
<1>10. \A d \in Callers : pc'[d] \in {"idle", "queued"}
  <2>1. \A d \in Callers : d # c => pc[d] \notin Writing
    BY OneRuns
  <2> QED BY <1>5, <1>6, <2>1 DEF Writing
<1> QED BY <1>4, <1>8, <1>9, <1>10

\* Membership in a queue.
LEMMA ToSetIs ==
  ASSUME NEW q \in Seq(Callers), NEW c
  PROVE  c \in ToSet(q) <=> \E i \in 1 .. Len(q) : q[i] = c
BY DEF ToSet

\* An append that is idle or waits for its turn builds nothing.
LEMMA BuildingWaits ==
  ASSUME NEW c \in Callers, pc'[c] \in {"idle", "queued"}
  PROVE  Building(c)'
BY DEF Building

\* What the append of c relies on stays while nothing of it changes.
LEMMA BuildingStays ==
  ASSUME NEW c \in Callers, Building(c), pc'[c] = pc[c], base'[c] = base[c], line'[c] = line[c],
         UNCHANGED <<file, disk, lastId, acked>>
  PROVE  Building(c)'
BY DEF Building

\* The head that load finds is an id that was created.
LEMMA HeadKnown ==
  ASSUME TypeOK, StepsInv
  PROVE  HeadOf(file) \in (1 .. lastId) \cup {None}
<1>1. file \in Seq(Byte) /\ file \in disk
  BY DEF TypeOK
<1>2. \A i \in 1 .. Len(file) : file[i].id \in 1 .. lastId
  BY <1>1 DEF StepsInv
<1>3. HeadOf(file) # None => \E i \in 1 .. Len(file) : HeadOf(file) = file[i].id
  BY <1>1, HeadAmong
<1> QED BY <1>2, <1>3

\* append is called: it joins the end of the queue...
LEMMA CallType ==
  ASSUME TypeOK, StepsInv, NEW c \in Callers, Call(c)
  PROVE  TypeOK' /\ StepsInv'
<1>1. /\ queue \in Seq(Callers) /\ queue' = Append(queue, c) /\ c \notin ToSet(queue)
      /\ pc[c] = "idle" /\ pc' = [pc EXCEPT ![c] = "queued"]
  BY DEF Call, TypeOK
<1>2. /\ queue' \in Seq(Callers)
      /\ Len(queue') = Len(queue) + 1
      /\ \A i \in 1 .. Len(queue) : queue'[i] = queue[i]
      /\ queue'[Len(queue) + 1] = c
  BY <1>1
<1>3. \A d \in Callers : d \in ToSet(queue') <=> d \in ToSet(queue) \/ d = c
  <2> SUFFICES ASSUME NEW d \in Callers
               PROVE  d \in ToSet(queue') <=> d \in ToSet(queue) \/ d = c
    OBVIOUS
  <2>1. d \in ToSet(queue') <=> \E i \in 1 .. Len(queue') : queue'[i] = d
    BY <1>2, ToSetIs
  <2>2. d \in ToSet(queue) <=> \E i \in 1 .. Len(queue) : queue[i] = d
    BY <1>1, ToSetIs
  <2>3. Len(queue) + 1 \in 1 .. Len(queue')
    BY <1>1, <1>2
  <2>4. \A i \in 1 .. Len(queue') : i = Len(queue) + 1 \/ i \in 1 .. Len(queue)
    BY <1>1, <1>2
  <2>5. \A i \in 1 .. Len(queue) : i \in 1 .. Len(queue')
    BY <1>1, <1>2
  <2> QED BY <1>2, <2>1, <2>2, <2>3, <2>4, <2>5
<1>4. expected' \in [Callers -> SUBSET ((1 .. lastId') \cup {None})]
  <2>1. HeadOf(file) \in (1 .. lastId) \cup {None}
    BY HeadKnown
  <2>2. expected \in [Callers -> SUBSET ((1 .. lastId) \cup {None})] /\ lastId' = lastId
    BY DEF TypeOK, Call
  <2>3. PICK e \in {{}, {HeadOf(file)}} : expected' = [expected EXCEPT ![c] = e]
    BY DEF Call
  <2> QED BY <2>1, <2>2, <2>3
<1>5. TypeOK'
  <2>1. /\ file' \in Seq(Byte) /\ file' \in disk' /\ disk' \subseteq Seq(Byte)
        /\ tail' \in JournalTail \cup {None}
        /\ base' \in [Callers -> JournalTail] /\ line' \in [Callers -> Seq(Byte)]
        /\ lastId' \in 0 .. MaxId /\ acked' \in Seq(1 .. lastId')
        /\ wholeTail' \in BOOLEAN /\ stops' \in 0 .. MaxStops
    BY DEF TypeOK, Call
  <2>2. pc' \in [Callers -> {"idle", "queued", "truncate", "compose", "write", "sync", "resolve"}]
    BY <1>1 DEF TypeOK
  <2>3. \A d \in Callers : pc'[d] # "idle" <=> d \in ToSet(queue')
    BY <1>1, <1>3 DEF TypeOK
  <2> QED BY <1>2, <1>4, <2>1, <2>2, <2>3 DEF TypeOK
<1>6. \A i, j \in 1 .. Len(queue') : queue'[i] = queue'[j] => i = j
  <2>1. \A i \in 1 .. Len(queue) : queue[i] # c
    BY <1>1, ToSetIs
  <2>2. \A i \in 1 .. Len(queue') : i = Len(queue) + 1 \/ i \in 1 .. Len(queue)
    BY <1>1, <1>2
  <2> QED BY <1>2, <2>1, <2>2 DEF StepsInv
<1>7. \A d \in Callers : pc'[d] \in Writing => pc[d] = pc'[d] /\ Turn(d)'
  <2> SUFFICES ASSUME NEW d \in Callers, pc'[d] \in Writing
               PROVE  pc[d] = pc'[d] /\ Turn(d)'
    OBVIOUS
  <2>1. d # c /\ pc[d] = pc'[d]
    BY <1>1 DEF Writing, TypeOK
  <2>2. Turn(d)
    BY <2>1 DEF StepsInv
  <2>3. queue' # <<>> /\ Head(queue') = Head(queue)
    BY <1>1, <2>2 DEF Turn
  <2> QED BY <2>1, <2>2, <2>3 DEF Turn
<1>8. StepsInv'
  <2>1. UNCHANGED <<file, disk, base, line, lastId>>
    BY DEF Call
  <2>2. \A f \in disk' : \A i \in 1 .. Len(f) : f[i].id \in 1 .. lastId'
    BY <2>1 DEF StepsInv
  <2>3. \A d \in Callers :
          /\ pc'[d] = "truncate" => base'[d].bytes < Len(file')
          /\ pc'[d] = "write" =>
               /\ line'[d] # <<>>
               /\ \A i \in 1 .. Len(line'[d]) : line'[d][i].id \in 1 .. lastId'
          /\ pc'[d] \in {"sync", "resolve"} => file' # <<>>
    BY <1>7, <2>1 DEF StepsInv, Writing
  <2> QED BY <1>6, <1>7, <2>2, <2>3 DEF StepsInv
<1> QED BY <1>5, <1>8

\* ... and touches no file.
LEMMA CallFiles ==
  ASSUME TypeOK, StepsInv, FilesInv, NEW c \in Callers, Call(c)
  PROVE  FilesInv'
<1>1. /\ pc[c] = "idle" /\ pc' = [pc EXCEPT ![c] = "queued"]
      /\ UNCHANGED <<file, disk, tail, base, line, lastId, acked>>
  BY DEF Call
<1>2. \A d \in Callers : d # c => pc'[d] = pc[d]
  BY <1>1 DEF TypeOK
<1>3. pc'[c] = "queued"
  BY <1>1 DEF TypeOK
<1>4. \A d \in Callers : Building(d)'
  <2> SUFFICES ASSUME NEW d \in Callers
               PROVE  Building(d)'
    OBVIOUS
  <2>1. CASE d = c
    BY <1>3, <2>1, BuildingWaits
  <2>2. CASE d # c
    BY <1>1, <1>2, <2>2, BuildingStays DEF FilesInv
  <2> QED BY <2>1, <2>2
<1>5. (\A d \in Callers : pc'[d] # "write") => \A d \in Callers : pc[d] # "write"
  BY <1>1, <1>2
<1> QED BY <1>1, <1>4, <1>5 DEF FilesInv

\* A step of the append whose turn it is: all others wait.
LEMMA RunningStep ==
  ASSUME TypeOK, StepsInv, NEW c \in Callers, Turn(c), pc[c] # "idle",
         NEW p \in Writing, pc' = [pc EXCEPT ![c] = p], queue' = queue
  PROVE  /\ queue' \in Seq(Callers)
         /\ pc' \in [Callers -> {"idle", "queued", "truncate", "compose", "write", "sync", "resolve"}]
         /\ \A d \in Callers : pc'[d] # "idle" <=> d \in ToSet(queue')
         /\ \A i, j \in 1 .. Len(queue') : queue'[i] = queue'[j] => i = j
         /\ \A d \in Callers : pc'[d] \in Writing => Turn(d)'
         /\ pc'[c] = p
         /\ \A d \in Callers : d # c => pc'[d] = pc[d] /\ pc'[d] \in {"idle", "queued"}
<1>1. queue' \in Seq(Callers) /\ \A i, j \in 1 .. Len(queue') : queue'[i] = queue'[j] => i = j
  BY DEF TypeOK, StepsInv
<1>2. pc' \in [Callers -> {"idle", "queued", "truncate", "compose", "write", "sync", "resolve"}]
  BY DEF TypeOK, Writing
<1>3. pc'[c] = p /\ \A d \in Callers : d # c => pc'[d] = pc[d]
  BY DEF TypeOK
<1>4. \A d \in Callers : d # c => pc'[d] \in {"idle", "queued"}
  <2>1. \A d \in Callers : d # c => pc[d] \notin Writing
    BY OneRuns
  <2> QED BY <1>2, <1>3, <2>1 DEF Writing
<1>5. \A d \in Callers : pc'[d] # "idle" <=> d \in ToSet(queue')
  <2>1. ToSet(queue') = ToSet(queue)
    OBVIOUS
  <2>2. p # "idle"
    BY DEF Writing
  <2> QED BY <1>3, <2>1, <2>2 DEF TypeOK
<1>6. \A d \in Callers : pc'[d] \in Writing => Turn(d)'
  BY <1>4 DEF Turn, Writing
<1> QED BY <1>1, <1>2, <1>3, <1>4, <1>5, <1>6

\* The base of an append is well-typed, cached or loaded, from any file.
LEMMA LocateType ==
  ASSUME TypeOK, StepsInv, NEW c \in Callers, Locate(c)
  PROVE  TypeOK' /\ StepsInv'
<1>1. /\ pc[c] = "queued" /\ Turn(c) /\ queue' = queue
      /\ UNCHANGED <<file, disk, tail, expected, line, lastId, acked, wholeTail, stops>>
  BY DEF Locate
<1>2. PICK p \in {"truncate", "compose"}, b \in JournalTail :
        /\ pc' = [pc EXCEPT ![c] = p] /\ base' = [base EXCEPT ![c] = b]
        /\ p = "truncate" => b.bytes < Len(file)
  <2>1. CASE Cached /\ base' = [base EXCEPT ![c] = tail] /\ pc' = [pc EXCEPT ![c] = "compose"]
    <3>1. tail \in JournalTail
      BY <2>1 DEF Cached, TypeOK
    <3> QED BY <2>1, <3>1
  <2>2. CASE /\ base' = [base EXCEPT ![c] = [bytes |-> ValidBytes(file), head |-> HeadOf(file)]]
             /\ pc' = [pc EXCEPT ![c] =
                  IF ValidBytes(file) < Len(file) THEN "truncate" ELSE "compose"]
    <3> DEFINE b == [bytes |-> ValidBytes(file), head |-> HeadOf(file)]
    <3>1. ValidBytes(file) \in Nat
      BY ValidBytesIs DEF TypeOK
    <3>2. HeadOf(file) \in Nat \cup {None}
      BY HeadKnown DEF TypeOK
    <3>3. b \in JournalTail
      BY <3>1, <3>2 DEF JournalTail
    <3>4. CASE ValidBytes(file) < Len(file)
      BY <2>2, <3>3, <3>4
    <3>5. CASE ~(ValidBytes(file) < Len(file))
      BY <2>2, <3>3, <3>5
    <3> QED BY <3>4, <3>5
  <2> QED BY <2>1, <2>2 DEF Locate
<1>3. p \in Writing
  BY DEF Writing
<1>4. /\ queue' \in Seq(Callers)
      /\ pc' \in [Callers -> {"idle", "queued", "truncate", "compose", "write", "sync", "resolve"}]
      /\ \A d \in Callers : pc'[d] # "idle" <=> d \in ToSet(queue')
      /\ \A i, j \in 1 .. Len(queue') : queue'[i] = queue'[j] => i = j
      /\ \A d \in Callers : pc'[d] \in Writing => Turn(d)'
      /\ pc'[c] = p
      /\ \A d \in Callers : d # c => pc'[d] = pc[d] /\ pc'[d] \in {"idle", "queued"}
  BY <1>1, <1>2, <1>3, RunningStep
<1>5. base' \in [Callers -> JournalTail] /\ base'[c] = b
  BY <1>2 DEF TypeOK
<1>6. TypeOK'
  BY <1>1, <1>4, <1>5 DEF TypeOK
<1>7. \A d \in Callers :
        /\ pc'[d] = "truncate" => base'[d].bytes < Len(file')
        /\ pc'[d] = "write" =>
             /\ line'[d] # <<>>
             /\ \A i \in 1 .. Len(line'[d]) : line'[d][i].id \in 1 .. lastId'
        /\ pc'[d] \in {"sync", "resolve"} => file' # <<>>
  BY <1>1, <1>2, <1>4, <1>5
<1>8. \A f \in disk' : \A i \in 1 .. Len(f) : f[i].id \in 1 .. lastId'
  BY <1>1 DEF StepsInv
<1> QED BY <1>4, <1>6, <1>7, <1>8 DEF StepsInv

\* Nobody writes while an append looks for the tail.
LEMMA LocateFiles ==
  ASSUME TypeOK, StepsInv, FilesInv, NEW c \in Callers, Locate(c)
  PROVE  FilesInv'
<1> DEFINE m == Whole(file)
           b == [bytes |-> 3 * m, head |-> HeadOf(file)]
<1>1. /\ pc[c] = "queued" /\ Turn(c) /\ queue' = queue
      /\ UNCHANGED <<file, disk, tail, lastId, acked>>
  BY DEF Locate
<1>2. file \in Seq(Byte) /\ Lined(file)
  BY DEF TypeOK, FilesInv
<1>3. \A d \in Callers : pc[d] \notin Writing
  BY <1>1, OneRuns DEF Writing
<1>4. Len(file) # 3 * m - 1
  BY <1>3 DEF FilesInv, Writing
<1>5. m \in Nat /\ (Len(file) = 3 * m \/ Len(file) = 3 * m + 1)
  BY <1>2, <1>4, WholeIs
<1>6. ValidBytes(file) = 3 * m /\ HeadOf(file) = IF m = 0 THEN None ELSE file[3 * m - 2].id
  BY <1>2, LinedLoads
<1>7. \E p \in {"truncate", "compose"} :
        /\ pc' = [pc EXCEPT ![c] = p] /\ base' = [base EXCEPT ![c] = b]
        /\ p = "truncate" => Len(file) = 3 * m + 1
        /\ p = "compose" => Len(file) = 3 * m
  <2>1. CASE Cached /\ base' = [base EXCEPT ![c] = tail] /\ pc' = [pc EXCEPT ![c] = "compose"]
    <3>1. PICK k \in Nat \ {0} :
            3 * k <= Len(file) /\ tail = [bytes |-> 3 * k, head |-> file[3 * k - 2].id]
      BY <2>1 DEF Cached, FilesInv
    <3>2. 3 * k = Len(file)
      BY <2>1, <3>1 DEF Cached
    <3> HIDE DEF m
    <3>3. k = m /\ Len(file) = 3 * m
      BY <1>5, <3>2
    <3>4. tail = b
      BY <1>6, <3>1, <3>3
    <3> QED BY <2>1, <3>3, <3>4
  <2>2. CASE /\ base' = [base EXCEPT ![c] = [bytes |-> ValidBytes(file), head |-> HeadOf(file)]]
             /\ pc' = [pc EXCEPT ![c] =
                  IF ValidBytes(file) < Len(file) THEN "truncate" ELSE "compose"]
    <3>1. base' = [base EXCEPT ![c] = b]
      BY <1>6, <2>2
    <3> HIDE DEF m, b
    <3>2. CASE Len(file) = 3 * m
      <4>1. pc' = [pc EXCEPT ![c] = "compose"]
        <5>1. ~(ValidBytes(file) < Len(file))
          <6>1. 3 * m \in Nat
            BY <1>5
          <6> QED BY <1>6, <3>2, <6>1
        <5> QED BY <2>2, <5>1
      <4> QED BY <3>1, <3>2, <4>1
    <3>3. CASE Len(file) = 3 * m + 1
      <4>1. pc' = [pc EXCEPT ![c] = "truncate"]
        <5>1. ValidBytes(file) < Len(file)
          <6>1. 3 * m < 3 * m + 1
            BY <1>5
          <6> QED BY <1>6, <3>3, <6>1
        <5> QED BY <2>2, <5>1
      <4> QED BY <3>1, <3>3, <4>1
    <3> QED BY <1>5, <3>2, <3>3
  <2> QED BY <2>1, <2>2 DEF Locate
<1>8. PICK p \in {"truncate", "compose"} :
        /\ pc' = [pc EXCEPT ![c] = p] /\ base' = [base EXCEPT ![c] = b]
        /\ p = "truncate" => Len(file) = 3 * m + 1
        /\ p = "compose" => Len(file) = 3 * m
  BY <1>7
<1>9. pc'[c] = p /\ base'[c] = b /\ \A d \in Callers : d # c => pc'[d] = pc[d]
  BY <1>8 DEF TypeOK
<1>10. \A d \in Callers : Building(d)'
  <2> SUFFICES ASSUME NEW d \in Callers
               PROVE  Building(d)'
    OBVIOUS
  <2>1. CASE d = c
    <3>1. pc'[c] \in {"truncate", "compose"}
      BY <1>9
    <3>2. base'[c] = [bytes |-> 3 * Whole(file'), head |-> HeadOf(file')]
      BY <1>1, <1>9
    <3>3. base'[c].bytes = 3 * m /\ Len(file') = Len(file)
      BY <1>1, <1>9
    <3>4. pc'[c] = "truncate" => Len(file') = base'[c].bytes + 1
      BY <1>8, <1>9, <3>3
    <3>5. pc'[c] = "compose" => Len(file') = base'[c].bytes
      BY <1>8, <1>9, <3>3
    <3> QED BY <2>1, <3>1, <3>2, <3>4, <3>5 DEF Building
  <2>2. CASE d # c
    <3>1. pc'[d] \in {"idle", "queued"}
      BY <1>3, <1>9, <2>2 DEF Writing, TypeOK
    <3> QED BY <3>1, BuildingWaits
  <2> QED BY <2>1, <2>2
<1>11. Len(file') # 3 * Whole(file') - 1
  BY <1>1, <1>4
<1> QED BY <1>1, <1>10, <1>11 DEF FilesInv

\* The first n bytes.
LEMMA Cut ==
  ASSUME NEW f \in Seq(Byte), NEW n \in Nat, n <= Len(f)
  PROVE  /\ SubSeq(f, 1, n) \in Seq(Byte)
         /\ Len(SubSeq(f, 1, n)) = n
         /\ \A i \in 1 .. n : SubSeq(f, 1, n)[i] = f[i]
OBVIOUS

\* A file keeps an event while its line and what is before stay.
LEMMA HoldsKept ==
  ASSUME NEW f \in Seq(Byte), NEW g \in Seq(Byte), NEW a, Holds(f, a),
         \A k \in Nat : 3 * k <= Len(f) => 3 * k <= Len(g),
         \A i \in 1 .. Len(f) : i <= Len(g) => g[i] = f[i]
  PROVE  Holds(g, a)
<1>1. PICK k \in Nat \ {0} : 3 * k <= Len(f) /\ f[3 * k - 2].id = a
  BY DEF Holds
<1>2. 3 * k - 2 \in 1 .. Len(f) /\ 3 * k <= Len(g) /\ 3 * k - 2 <= Len(g)
  BY <1>1
<1>3. g[3 * k - 2] = f[3 * k - 2]
  BY <1>2
<1> QED BY <1>1, <1>2, <1>3 DEF Holds

\* The truncation cuts at a position of the file.
LEMMA TruncateType ==
  ASSUME TypeOK, StepsInv, NEW c \in Callers, Truncate(c)
  PROVE  TypeOK' /\ StepsInv'
<1> DEFINE n == base[c].bytes
<1>1. /\ pc[c] = "truncate" /\ queue' = queue /\ pc' = [pc EXCEPT ![c] = "compose"]
      /\ file' = SubSeq(file, 1, n) /\ disk' = disk \cup {file'}
      /\ UNCHANGED <<tail, expected, base, line, lastId, acked, wholeTail, stops>>
  BY DEF Truncate, Become
<1>2. Turn(c)
  BY <1>1 DEF StepsInv, Writing
<1>3. "compose" \in Writing
  BY DEF Writing
<1>4. /\ queue' \in Seq(Callers)
      /\ pc' \in [Callers -> {"idle", "queued", "truncate", "compose", "write", "sync", "resolve"}]
      /\ \A d \in Callers : pc'[d] # "idle" <=> d \in ToSet(queue')
      /\ \A i, j \in 1 .. Len(queue') : queue'[i] = queue'[j] => i = j
      /\ \A d \in Callers : pc'[d] \in Writing => Turn(d)'
      /\ pc'[c] = "compose"
      /\ \A d \in Callers : d # c => pc'[d] = pc[d] /\ pc'[d] \in {"idle", "queued"}
  BY <1>1, <1>2, <1>3, RunningStep
<1>5. file \in Seq(Byte) /\ file \in disk /\ n \in Nat /\ n <= Len(file)
  BY <1>1 DEF TypeOK, JournalTail, StepsInv
<1>6. /\ file' \in Seq(Byte) /\ Len(file') = n
      /\ \A i \in 1 .. n : file'[i] = file[i]
  BY <1>1, <1>5, Cut
<1>7. TypeOK'
  BY <1>1, <1>4, <1>6 DEF TypeOK
<1>8. \A f \in disk' : \A i \in 1 .. Len(f) : f[i].id \in 1 .. lastId'
  <2>1. \A i \in 1 .. Len(file') : file'[i].id \in 1 .. lastId
    BY <1>5, <1>6 DEF StepsInv
  <2> QED BY <1>1, <2>1 DEF StepsInv
<1>9. \A d \in Callers : pc'[d] \in {"idle", "queued", "compose"}
  BY <1>4
<1> QED BY <1>4, <1>7, <1>8, <1>9 DEF StepsInv

\* It cuts the torn line and nothing else.
LEMMA TruncateFiles ==
  ASSUME TypeOK, StepsInv, FilesInv, NEW c \in Callers, Truncate(c)
  PROVE  FilesInv'
<1> DEFINE m == Whole(file)
           n == base[c].bytes
<1>1. /\ pc[c] = "truncate" /\ queue' = queue /\ pc' = [pc EXCEPT ![c] = "compose"]
      /\ file' = SubSeq(file, 1, n) /\ disk' = disk \cup {file'}
      /\ UNCHANGED <<tail, base, lastId, acked>>
  BY DEF Truncate, Become
<1>2. Turn(c) /\ "compose" \in Writing
  BY <1>1 DEF StepsInv, Writing
<1>3. /\ pc'[c] = "compose"
      /\ \A d \in Callers : d # c => pc'[d] \in {"idle", "queued"}
  BY <1>1, <1>2, RunningStep
<1>4. file \in Seq(Byte) /\ file \in disk /\ Lined(file)
  BY DEF TypeOK, FilesInv
<1>5. m \in Nat /\ base[c] = [bytes |-> 3 * m, head |-> HeadOf(file)] /\ Len(file) = n + 1
  BY <1>1, <1>4, WholeIs DEF FilesInv, Building
<1>6. n = 3 * m /\ n \in Nat /\ n <= Len(file)
  BY <1>5
<1>7. /\ file' \in Seq(Byte) /\ Len(file') = n
      /\ \A i \in 1 .. n : file'[i] = file[i]
  BY <1>1, <1>4, <1>6, Cut
<1>8. Lined(file')
  BY <1>4, <1>6, <1>7, LinedPrefix
<1>9. Whole(file') = m
  <2> DEFINE w == Whole(file')
  <2>1. w \in Nat /\ (Len(file') = 3 * w - 1 \/ Len(file') = 3 * w \/ Len(file') = 3 * w + 1)
    BY <1>7, WholeIs
  <2> HIDE DEF w, m
  <2> QED BY <1>5, <1>6, <1>7, <2>1 DEF w
<1>10. HeadOf(file') = HeadOf(file)
  <2>1. HeadOf(file') = IF m = 0 THEN None ELSE file'[3 * m - 2].id
    BY <1>7, <1>8, <1>9, LinedLoads
  <2>2. HeadOf(file) = IF m = 0 THEN None ELSE file[3 * m - 2].id
    BY <1>4, LinedLoads
  <2>3. m # 0 => 3 * m - 2 \in 1 .. n
    BY <1>5, <1>6
  <2> QED BY <1>7, <2>1, <2>2, <2>3
<1>11. \A d \in Callers : Building(d)'
  <2> SUFFICES ASSUME NEW d \in Callers
               PROVE  Building(d)'
    OBVIOUS
  <2>1. CASE d = c
    <3>1. base'[c] = [bytes |-> 3 * Whole(file'), head |-> HeadOf(file')] /\ Len(file') = base'[c].bytes
      BY <1>1, <1>5, <1>7, <1>9, <1>10
    <3> QED BY <1>3, <2>1, <3>1 DEF Building
  <2>2. CASE d # c
    BY <1>3, <2>2, BuildingWaits
  <2> QED BY <2>1, <2>2
<1> HIDE DEF n, m
<1>12. Len(file') # 3 * Whole(file') - 1
  BY <1>5, <1>6, <1>7, <1>9
<1>13. ASSUME tail' # None
       PROVE  \E k \in Nat \ {0} :
                3 * k <= Len(file') /\ tail' = [bytes |-> 3 * k, head |-> file'[3 * k - 2].id]
  <2>1. PICK k \in Nat \ {0} :
          3 * k <= Len(file) /\ tail = [bytes |-> 3 * k, head |-> file[3 * k - 2].id]
    BY <1>1, <1>13 DEF FilesInv
  <2>2. 3 * k <= n /\ 3 * k - 2 \in 1 .. n
    BY <1>5, <1>6, <2>1
  <2> QED BY <1>1, <1>7, <2>1, <2>2
<1>14. \A f \in disk' : \A k \in 1 .. Len(acked') : Holds(f, acked'[k])
  <2>1. ASSUME NEW k \in 1 .. Len(acked)
        PROVE  Holds(file', acked[k])
    <3>1. Holds(file, acked[k])
      BY <1>4 DEF FilesInv
    <3>2. \A l \in Nat : 3 * l <= Len(file) => 3 * l <= Len(file')
      BY <1>5, <1>6, <1>7
    <3>3. \A i \in 1 .. Len(file) : i <= Len(file') => file'[i] = file[i]
      BY <1>6, <1>7
    <3> QED BY <1>4, <1>7, <3>1, <3>2, <3>3, HoldsKept
  <2> QED BY <1>1, <2>1 DEF FilesInv
<1>15. \A f \in disk' : Lined(f)
  BY <1>1, <1>8 DEF FilesInv
<1> QED BY <1>1, <1>11, <1>12, <1>13, <1>14, <1>15 DEF FilesInv

\* A sequence over a set is one over any larger set.
LEMMA SeqOver ==
  ASSUME NEW S, NEW T, S \subseteq T, NEW s \in Seq(S)
  PROVE  s \in Seq(T)
<1>1. \A i \in 1 .. Len(s) : s[i] \in T
  OBVIOUS
<1> QED BY <1>1

\* The new line carries the id that is created with it.
LEMMA ComposeType ==
  ASSUME TypeOK, StepsInv, NEW c \in Callers, Compose(c)
  PROVE  TypeOK' /\ StepsInv'
<1> DEFINE L == LineOf(lastId', base[c].head)
<1>1. /\ pc[c] = "compose" /\ queue' = queue /\ pc' = [pc EXCEPT ![c] = "write"]
      /\ lastId < MaxId /\ lastId' = lastId + 1
      /\ line' = [line EXCEPT ![c] = L]
      /\ UNCHANGED <<file, disk, tail, expected, base, acked, wholeTail, stops>>
  BY DEF Compose
<1>2. Turn(c) /\ "write" \in Writing
  BY <1>1 DEF StepsInv, Writing
<1>3. /\ queue' \in Seq(Callers)
      /\ pc' \in [Callers -> {"idle", "queued", "truncate", "compose", "write", "sync", "resolve"}]
      /\ \A d \in Callers : pc'[d] # "idle" <=> d \in ToSet(queue')
      /\ \A i, j \in 1 .. Len(queue') : queue'[i] = queue'[j] => i = j
      /\ \A d \in Callers : pc'[d] \in Writing => Turn(d)'
      /\ pc'[c] = "write"
      /\ \A d \in Callers : d # c => pc'[d] = pc[d] /\ pc'[d] \in {"idle", "queued"}
  BY <1>1, <1>2, RunningStep
<1>4. lastId \in 0 .. MaxId /\ MaxId \in Nat
  BY JsonlJournalAssumption DEF TypeOK
<1>5. lastId' \in 0 .. MaxId /\ lastId' \in Nat /\ lastId' \in 1 .. lastId'
  BY <1>1, <1>4
<1>6. 1 .. lastId \subseteq 1 .. lastId'
  BY <1>1, <1>4
<1>7. expected' \in [Callers -> SUBSET ((1 .. lastId') \cup {None})] /\ acked' \in Seq(1 .. lastId')
  <2>1. expected \in [Callers -> SUBSET ((1 .. lastId) \cup {None})] /\ acked \in Seq(1 .. lastId)
    BY DEF TypeOK
  <2>2. \A d \in Callers : expected[d] \in SUBSET ((1 .. lastId') \cup {None})
    BY <1>6, <2>1
  <2>3. acked \in Seq(1 .. lastId')
    BY <1>6, <2>1, SeqOver
  <2> QED BY <1>1, <2>1, <2>2, <2>3
<1>8. /\ L \in Seq(Byte)
      /\ Len(L) = 3
      /\ \A i \in 1 .. Len(L) : L[i].id = lastId'
  <2>1. base[c].head \in Nat \cup {None}
    BY DEF TypeOK, JournalTail
  <2>2. /\ L \in Seq(Byte)
        /\ Len(L) = 3
        /\ L[1] = [id |-> lastId', parent |-> base[c].head, part |-> "text"]
        /\ L[2] = [id |-> lastId', parent |-> base[c].head, part |-> "end"]
        /\ L[3] = [id |-> lastId', parent |-> base[c].head, part |-> "newline"]
    BY <1>5, <2>1, LineOfIs
  <2> HIDE DEF L
  <2> QED BY <2>2
<1> HIDE DEF L
<1>9. line' \in [Callers -> Seq(Byte)] /\ line'[c] = L
  BY <1>1, <1>8 DEF TypeOK
<1>10. TypeOK'
  BY <1>1, <1>3, <1>5, <1>7, <1>9 DEF TypeOK
<1>11. \A f \in disk' : \A i \in 1 .. Len(f) : f[i].id \in 1 .. lastId'
  BY <1>1, <1>6 DEF StepsInv
<1>12. line'[c] # <<>> /\ \A i \in 1 .. Len(line'[c]) : line'[c][i].id \in 1 .. lastId'
  <2>1. L # <<>>
    <3>1. Len(<<>>) = 0 /\ Len(L) = 3
      BY <1>8
    <3> QED BY <3>1
  <2>2. \A i \in 1 .. Len(L) : L[i].id \in 1 .. lastId'
    BY <1>5, <1>8, Zenon
  <2> QED BY <1>9, <2>1, <2>2, Zenon
<1> QED BY <1>3, <1>10, <1>11, <1>12 DEF StepsInv

\* The line continues the file's chain: the file is all whole lines, and
\* the base of the append has their head.
LEMMA ComposeFiles ==
  ASSUME TypeOK, StepsInv, FilesInv, NEW c \in Callers, Compose(c)
  PROVE  FilesInv'
<1> DEFINE m == Whole(file)
           L == LineOf(lastId', HeadOf(file))
<1>1. /\ pc[c] = "compose" /\ queue' = queue /\ pc' = [pc EXCEPT ![c] = "write"]
      /\ lastId' = lastId + 1
      /\ line' = [line EXCEPT ![c] = LineOf(lastId', base[c].head)]
      /\ UNCHANGED <<file, disk, tail, base, acked>>
  BY DEF Compose
<1>2. Turn(c) /\ "write" \in Writing
  BY <1>1 DEF StepsInv, Writing
<1>3. /\ pc'[c] = "write"
      /\ \A d \in Callers : d # c => pc'[d] \in {"idle", "queued"}
  BY <1>1, <1>2, RunningStep
<1>4. file \in Seq(Byte) /\ file \in disk /\ Lined(file) /\ lastId \in Nat
  BY DEF TypeOK, FilesInv
<1>5. base[c] = [bytes |-> 3 * m, head |-> HeadOf(file)] /\ Len(file) = base[c].bytes
  BY <1>1 DEF FilesInv, Building
<1>6. m \in Nat /\ base[c].bytes = 3 * m /\ Len(file) = 3 * m
  BY <1>4, <1>5, WholeIs
<1>7. HeadOf(file) \in Nat \cup {None}
  BY HeadKnown, <1>4
<1>8. \A i \in 1 .. Len(file) : file[i].id < lastId'
  BY <1>1, <1>4 DEF StepsInv
<1>9. Lined(file \o L)
  BY <1>1, <1>4, <1>6, <1>7, <1>8, LinedNext
<1>10. /\ L \in Seq(Byte)
       /\ Len(L) = 3
       /\ \A i \in 1 .. Len(L) : L[i].id = lastId'
  <2>1. lastId' \in Nat
    BY <1>1, <1>4
  <2>2. /\ L \in Seq(Byte)
        /\ Len(L) = 3
        /\ L[1] = [id |-> lastId', parent |-> HeadOf(file), part |-> "text"]
        /\ L[2] = [id |-> lastId', parent |-> HeadOf(file), part |-> "end"]
        /\ L[3] = [id |-> lastId', parent |-> HeadOf(file), part |-> "newline"]
    BY <1>7, <2>1, LineOfIs
  <2> HIDE DEF L
  <2> QED BY <2>2
<1>11. line'[c] = L
  BY <1>1, <1>5 DEF TypeOK
<1>12. \A k \in 1 .. Len(acked) : acked[k] < lastId'
  <2>1. \A k \in 1 .. Len(acked) : acked[k] \in 1 .. lastId
    BY DEF TypeOK
  <2> QED BY <1>1, <1>4, <2>1
<1> HIDE DEF L, m
<1>13. Building(c)'
  <2>1. Lined(file' \o line'[c]) /\ Len(file') + Len(line'[c]) = base'[c].bytes + 3
    BY <1>1, <1>6, <1>9, <1>10, <1>11
  <2>2. \A i \in 1 .. Len(line'[c]) : line'[c][i].id = lastId'
    BY <1>10, <1>11
  <2>3. \E k \in Nat : base'[c].bytes = 3 * k
    BY <1>1, <1>6
  <2>4. \A k \in 1 .. Len(acked') : acked'[k] < lastId'
    BY <1>1, <1>12
  <2> QED BY <1>3, <2>1, <2>2, <2>3, <2>4 DEF Building
<1>14. \A d \in Callers : Building(d)'
  BY <1>3, <1>13, BuildingWaits
<1> QED BY <1>1, <1>3, <1>14 DEF FilesInv

\* A byte moves from what is left to write to the file.
LEMMA MoveOne ==
  ASSUME NEW f \in Seq(Byte), NEW t \in Seq(Byte), t # <<>>
  PROVE  /\ Append(f, Head(t)) \in Seq(Byte)
         /\ Tail(t) \in Seq(Byte)
         /\ Len(Append(f, Head(t))) = Len(f) + 1
         /\ Len(Tail(t)) = Len(t) - 1
         /\ Len(t) >= 1
         /\ \A i \in 1 .. Len(f) : Append(f, Head(t))[i] = f[i]
         /\ Append(f, Head(t))[Len(f) + 1] = t[1]
         /\ \A i \in 1 .. Len(Tail(t)) : Tail(t)[i] = t[i + 1]
         /\ Append(f, Head(t)) \o Tail(t) = f \o t
<1>1. /\ Append(f, Head(t)) \in Seq(Byte)
      /\ Tail(t) \in Seq(Byte)
      /\ Len(Append(f, Head(t))) = Len(f) + 1
      /\ Len(Tail(t)) = Len(t) - 1
      /\ Len(t) >= 1
      /\ \A i \in 1 .. Len(f) : Append(f, Head(t))[i] = f[i]
      /\ Append(f, Head(t))[Len(f) + 1] = t[1]
      /\ \A i \in 1 .. Len(Tail(t)) : Tail(t)[i] = t[i + 1]
  OBVIOUS
<1>2. Append(f, Head(t)) \o Tail(t) = f \o t
  OBVIOUS
<1> QED BY <1>1, <1>2

\* A byte of the line is written.
LEMMA WriteType ==
  ASSUME TypeOK, StepsInv, NEW c \in Callers, Write(c)
  PROVE  TypeOK' /\ StepsInv'
<1> DEFINE p == IF Len(line[c]) = 1 THEN "sync" ELSE "write"
<1>1. /\ pc[c] = "write" /\ queue' = queue /\ pc' = [pc EXCEPT ![c] = p]
      /\ file' = Append(file, Head(line[c])) /\ disk' = disk \cup {file'}
      /\ line' = [line EXCEPT ![c] = Tail(line[c])]
      /\ UNCHANGED <<tail, expected, base, lastId, acked, wholeTail, stops>>
  BY DEF Write, Become
<1>2. Turn(c) /\ p \in Writing
  BY <1>1 DEF StepsInv, Writing
<1>3. /\ queue' \in Seq(Callers)
      /\ pc' \in [Callers -> {"idle", "queued", "truncate", "compose", "write", "sync", "resolve"}]
      /\ \A d \in Callers : pc'[d] # "idle" <=> d \in ToSet(queue')
      /\ \A i, j \in 1 .. Len(queue') : queue'[i] = queue'[j] => i = j
      /\ \A d \in Callers : pc'[d] \in Writing => Turn(d)'
      /\ pc'[c] = p
      /\ \A d \in Callers : d # c => pc'[d] = pc[d] /\ pc'[d] \in {"idle", "queued"}
  BY <1>1, <1>2, RunningStep
<1>4. /\ file \in Seq(Byte) /\ file \in disk
      /\ line \in [Callers -> Seq(Byte)] /\ line[c] \in Seq(Byte) /\ line[c] # <<>>
      /\ \A i \in 1 .. Len(line[c]) : line[c][i].id \in 1 .. lastId
      /\ \A i \in 1 .. Len(file) : file[i].id \in 1 .. lastId
  BY <1>1 DEF TypeOK, StepsInv
<1>5. /\ file' \in Seq(Byte)
      /\ Tail(line[c]) \in Seq(Byte)
      /\ Len(file') = Len(file) + 1
      /\ Len(Tail(line[c])) = Len(line[c]) - 1
      /\ Len(line[c]) >= 1
      /\ \A i \in 1 .. Len(file) : file'[i] = file[i]
      /\ file'[Len(file) + 1] = line[c][1]
      /\ \A i \in 1 .. Len(Tail(line[c])) : Tail(line[c])[i] = line[c][i + 1]
  BY <1>1, <1>4, MoveOne
<1>6. line' \in [Callers -> Seq(Byte)] /\ line'[c] = Tail(line[c])
  BY <1>1, <1>4, <1>5
<1>7. TypeOK'
  BY <1>1, <1>3, <1>5, <1>6 DEF TypeOK
<1>8. \A i \in 1 .. Len(file') : file'[i].id \in 1 .. lastId
  <2> SUFFICES ASSUME NEW i \in 1 .. Len(file')
               PROVE  file'[i].id \in 1 .. lastId
    OBVIOUS
  <2>1. CASE i \in 1 .. Len(file)
    BY <1>4, <1>5, <2>1
  <2>2. CASE i = Len(file) + 1
    <3>1. 1 \in 1 .. Len(line[c])
      BY <1>4, <1>5
    <3> QED BY <1>4, <1>5, <2>2, <3>1
  <2> QED BY <1>4, <1>5, <2>1, <2>2
<1>9. \A f \in disk' : \A i \in 1 .. Len(f) : f[i].id \in 1 .. lastId'
  BY <1>1, <1>8 DEF StepsInv
<1>10. \A i \in 1 .. Len(line'[c]) : line'[c][i].id \in 1 .. lastId'
  <2>1. \A i \in 1 .. Len(Tail(line[c])) : i + 1 \in 1 .. Len(line[c])
    BY <1>4, <1>5
  <2>2. \A i \in 1 .. Len(Tail(line[c])) : Tail(line[c])[i].id \in 1 .. lastId
    BY <1>4, <1>5, <2>1
  <2> QED BY <1>1, <1>6, <2>2
<1>11. p = "write" => line'[c] # <<>>
  <2>1. p = "write" => Len(line'[c]) >= 1
    BY <1>4, <1>5, <1>6
  <2>2. Len(<<>>) = 0
    OBVIOUS
  <2> QED BY <2>1, <2>2
<1>12. file' # <<>>
  <2>1. Len(file') >= 1 /\ Len(<<>>) = 0
    BY <1>4, <1>5
  <2> QED BY <2>1
<1>13. \A d \in Callers :
        /\ pc'[d] = "truncate" => base'[d].bytes < Len(file')
        /\ pc'[d] = "write" =>
             /\ line'[d] # <<>>
             /\ \A i \in 1 .. Len(line'[d]) : line'[d][i].id \in 1 .. lastId'
        /\ pc'[d] \in {"sync", "resolve"} => file' # <<>>
  <2>1. p # "truncate"
    OBVIOUS
  <2> HIDE DEF p
  <2> QED BY <1>3, <1>10, <1>11, <1>12, <2>1
<1> QED BY <1>3, <1>7, <1>9, <1>13 DEF StepsInv

\* File and rest of the line are what they were together; after the last
\* byte the file ends in the new event.
LEMMA WriteFiles ==
  ASSUME TypeOK, StepsInv, FilesInv, NEW c \in Callers, Write(c)
  PROVE  FilesInv'
<1> DEFINE p == IF Len(line[c]) = 1 THEN "sync" ELSE "write"
           t == line[c]
<1>1. /\ pc[c] = "write" /\ queue' = queue /\ pc' = [pc EXCEPT ![c] = p]
      /\ file' = Append(file, Head(t)) /\ disk' = disk \cup {file'}
      /\ line' = [line EXCEPT ![c] = Tail(t)]
      /\ UNCHANGED <<tail, base, lastId, acked>>
  BY DEF Write, Become
<1>2. Turn(c) /\ p \in Writing
  BY <1>1 DEF StepsInv, Writing
<1>3. /\ pc'[c] = p
      /\ \A d \in Callers : d # c => pc'[d] \in {"idle", "queued"}
  BY <1>1, <1>2, RunningStep
<1>4. /\ file \in Seq(Byte) /\ file \in disk
      /\ line \in [Callers -> Seq(Byte)] /\ t \in Seq(Byte) /\ t # <<>>
  BY <1>1 DEF TypeOK, StepsInv
<1>5. /\ file' \in Seq(Byte)
      /\ Tail(t) \in Seq(Byte)
      /\ Len(file') = Len(file) + 1
      /\ Len(Tail(t)) = Len(t) - 1
      /\ Len(t) >= 1
      /\ \A i \in 1 .. Len(file) : file'[i] = file[i]
      /\ file'[Len(file) + 1] = t[1]
      /\ \A i \in 1 .. Len(Tail(t)) : Tail(t)[i] = t[i + 1]
      /\ file' \o Tail(t) = file \o t
  BY <1>1, <1>4, MoveOne
<1>6. line'[c] = Tail(t)
  BY <1>1, <1>4
<1>7. /\ Lined(file \o t)
      /\ Len(file) + Len(t) = base[c].bytes + 3
      /\ \A i \in 1 .. Len(t) : t[i].id = lastId
      /\ \E k \in Nat : base[c].bytes = 3 * k
      /\ \A k \in 1 .. Len(acked) : acked[k] < lastId
  BY <1>1 DEF FilesInv, Building
<1>8. Lined(file')
  <2> DEFINE g == file' \o Tail(t)
  <2>1. Lined(g)
    BY <1>5, <1>7
  <2>2. /\ g \in Seq(Byte) /\ Len(g) = Len(file') + Len(Tail(t))
        /\ \A i \in 1 .. Len(file') : g[i] = file'[i]
    BY <1>5, Joined
  <2>3. Len(file') <= Len(g)
    BY <1>5, <2>2
  <2> HIDE DEF g
  <2> QED BY <1>5, <2>1, <2>2, <2>3, LinedPrefix
<1> HIDE DEF t
<1>9. ASSUME Len(t) = 1
      PROVE  Building(c)' /\ Len(file') # 3 * Whole(file') - 1
  <2>1. pc'[c] = "sync" /\ Len(file') = base[c].bytes + 3
    BY <1>3, <1>4, <1>5, <1>7, <1>9 DEF t
  <2>2. Last(file').id = lastId
    <3>1. Last(file') = file'[Len(file) + 1]
      BY <1>5 DEF Last
    <3> QED BY <1>5, <1>7, <1>9, <3>1
  <2>3. Building(c)'
    BY <1>1, <1>7, <2>1, <2>2 DEF Building
  <2>4. Len(file') # 3 * Whole(file') - 1
    <3> DEFINE w == Whole(file')
    <3>1. w \in Nat
      BY <1>5, WholeIs
    <3>2. PICK k \in Nat : Len(file') = 3 * k + 3
      BY <1>7, <2>1
    <3> HIDE DEF w
    <3> QED BY <3>1, <3>2 DEF w
  <2> QED BY <2>3, <2>4
<1>10. ASSUME Len(t) # 1
       PROVE  Building(c)' /\ pc'[c] = "write"
  <2>1. pc'[c] = "write" /\ Len(file') + Len(line'[c]) = base[c].bytes + 3
    BY <1>3, <1>4, <1>5, <1>6, <1>7, <1>10 DEF t
  <2>2. \A i \in 1 .. Len(line'[c]) : line'[c][i].id = lastId
    <3>1. \A i \in 1 .. Len(Tail(t)) : i + 1 \in 1 .. Len(t)
      BY <1>4, <1>5
    <3> QED BY <1>5, <1>6, <1>7, <3>1
  <2>3. Lined(file' \o line'[c])
    BY <1>5, <1>6, <1>7
  <2>4. Building(c)'
    BY <1>1, <1>7, <2>1, <2>2, <2>3 DEF Building
  <2> QED BY <2>1, <2>4
<1>11. /\ Building(c)'
       /\ (\A d \in Callers : pc'[d] # "write") => Len(file') # 3 * Whole(file') - 1
  BY <1>9, <1>10
<1>12. \A d \in Callers : Building(d)'
  BY <1>3, <1>11, BuildingWaits
<1>13. ASSUME tail' # None
       PROVE  \E k \in Nat \ {0} :
                3 * k <= Len(file') /\ tail' = [bytes |-> 3 * k, head |-> file'[3 * k - 2].id]
  <2>1. PICK k \in Nat \ {0} :
          3 * k <= Len(file) /\ tail = [bytes |-> 3 * k, head |-> file[3 * k - 2].id]
    BY <1>1, <1>13 DEF FilesInv
  <2>2. 3 * k <= Len(file') /\ 3 * k - 2 \in 1 .. Len(file)
    BY <1>4, <1>5, <2>1
  <2> QED BY <1>1, <1>5, <2>1, <2>2
<1>14. \A f \in disk' : \A k \in 1 .. Len(acked') : Holds(f, acked'[k])
  <2>1. ASSUME NEW k \in 1 .. Len(acked)
        PROVE  Holds(file', acked[k])
    <3>1. Holds(file, acked[k])
      BY <1>4 DEF FilesInv
    <3>2. \A l \in Nat : 3 * l <= Len(file) => 3 * l <= Len(file')
      BY <1>4, <1>5
    <3>3. \A i \in 1 .. Len(file) : i <= Len(file') => file'[i] = file[i]
      BY <1>5
    <3> QED BY <1>4, <1>5, <3>1, <3>2, <3>3, HoldsKept
  <2> QED BY <1>1, <2>1 DEF FilesInv
<1>15. \A f \in disk' : Lined(f)
  BY <1>1, <1>8 DEF FilesInv
<1>16. \A k, l \in 1 .. Len(acked') : k < l => acked'[k] < acked'[l]
  BY <1>1 DEF FilesInv
<1> QED BY <1>11, <1>12, <1>13, <1>14, <1>15, <1>16 DEF FilesInv

\* Only the file as it is can be found from now on.
LEMMA DatasyncType ==
  ASSUME TypeOK, StepsInv, NEW c \in Callers, Datasync(c)
  PROVE  TypeOK' /\ StepsInv'
<1>1. /\ pc[c] = "sync" /\ queue' = queue /\ pc' = [pc EXCEPT ![c] = "resolve"]
      /\ disk' = {file}
      /\ UNCHANGED <<file, tail, expected, base, line, lastId, acked, wholeTail, stops>>
  BY DEF Datasync
<1>2. Turn(c) /\ "resolve" \in Writing
  BY <1>1 DEF StepsInv, Writing
<1>3. /\ queue' \in Seq(Callers)
      /\ pc' \in [Callers -> {"idle", "queued", "truncate", "compose", "write", "sync", "resolve"}]
      /\ \A d \in Callers : pc'[d] # "idle" <=> d \in ToSet(queue')
      /\ \A i, j \in 1 .. Len(queue') : queue'[i] = queue'[j] => i = j
      /\ \A d \in Callers : pc'[d] \in Writing => Turn(d)'
      /\ pc'[c] = "resolve"
      /\ \A d \in Callers : d # c => pc'[d] = pc[d] /\ pc'[d] \in {"idle", "queued"}
  BY <1>1, <1>2, RunningStep
<1>4. TypeOK'
  BY <1>1, <1>3 DEF TypeOK
<1>5. file' # <<>> /\ \A f \in disk' : \A i \in 1 .. Len(f) : f[i].id \in 1 .. lastId'
  BY <1>1 DEF StepsInv, TypeOK
<1> QED BY <1>3, <1>4, <1>5 DEF StepsInv

\* All of it is lines, with the acknowledged events among them.
LEMMA DatasyncFiles ==
  ASSUME TypeOK, StepsInv, FilesInv, NEW c \in Callers, Datasync(c)
  PROVE  FilesInv'
<1>1. /\ pc[c] = "sync" /\ queue' = queue /\ pc' = [pc EXCEPT ![c] = "resolve"]
      /\ disk' = {file}
      /\ UNCHANGED <<file, tail, base, lastId, acked>>
  BY DEF Datasync
<1>2. Turn(c) /\ "resolve" \in Writing
  BY <1>1 DEF StepsInv, Writing
<1>3. /\ pc'[c] = "resolve"
      /\ \A d \in Callers : d # c => pc'[d] \in {"idle", "queued"}
  BY <1>1, <1>2, RunningStep
<1>4. Building(c)'
  BY <1>1, <1>3 DEF FilesInv, Building
<1>5. \A d \in Callers : Building(d)'
  BY <1>3, <1>4, BuildingWaits
<1>6. \A d \in Callers : pc[d] # "write"
  BY <1>1, <1>2, OneRuns DEF Writing
<1>7. Len(file') # 3 * Whole(file') - 1
  BY <1>1, <1>6 DEF FilesInv
<1>8. \A f \in disk' : f \in disk
  BY <1>1 DEF TypeOK
<1>9. /\ \A f \in disk' : Lined(f)
      /\ \A f \in disk' : \A k \in 1 .. Len(acked') : Holds(f, acked'[k])
  BY <1>1, <1>8 DEF FilesInv
<1> QED BY <1>1, <1>5, <1>7, <1>9 DEF FilesInv

-----------------------------------------------------------------------------
(* The end of an append, and of the process.                                *)

\* An append that ends leaves nobody past waiting...
LEMMA EndSteps ==
  ASSUME TypeOK, StepsInv, NEW c \in Callers, Turn(c), End(c),
         UNCHANGED <<file, disk, lastId>>
  PROVE  StepsInv'
<1>1. /\ \A i, j \in 1 .. Len(queue') : queue'[i] = queue'[j] => i = j
      /\ \A d \in Callers : pc'[d] \in {"idle", "queued"}
  BY EndType
<1>2. \A f \in disk' : \A i \in 1 .. Len(f) : f[i].id \in 1 .. lastId'
  BY DEF StepsInv
<1> QED BY <1>1, <1>2 DEF StepsInv, Writing

\* ... and the files as they were.
LEMMA EndFiles ==
  ASSUME TypeOK, StepsInv, FilesInv, NEW c \in Callers, Turn(c), End(c),
         UNCHANGED <<file, disk, tail, lastId, acked>>,
         Len(file) # 3 * Whole(file) - 1
  PROVE  FilesInv'
<1>1. \A d \in Callers : pc'[d] \in {"idle", "queued"}
  BY EndType
<1>2. \A d \in Callers : Building(d)'
  BY <1>1, BuildingWaits
<1> QED BY <1>2 DEF FilesInv

\* A line that lacks its newline only ends in the end of an event's text.
LEMMA TornEnd ==
  ASSUME NEW f \in Seq(Byte), Lined(f), ~(f # <<>> /\ Last(f).part = "end")
  PROVE  Len(f) # 3 * Whole(f) - 1
<1> DEFINE w == Whole(f)
<1>1. w \in Nat
  BY WholeIs
<1> SUFFICES ASSUME Len(f) = 3 * w - 1
             PROVE  FALSE
  OBVIOUS
<1> HIDE DEF w
<1> DEFINE k == w - 1
<1>2. k \in Nat /\ Len(f) = 3 * k + 2 /\ 3 * k + 2 >= 1
  BY <1>1
<1> HIDE DEF k
<1>3. f[3 * k + 2].part = "end"
  BY <1>2 DEF Lined
<1>4. f # <<>> /\ Last(f) = f[3 * k + 2]
  BY <1>2 DEF Last
<1> QED BY <1>3, <1>4

\* A refused append has written nothing.
LEMMA RefuseStep ==
  ASSUME IInv, NEW c \in Callers, Refuse(c)
  PROVE  IInv'
<1>1. /\ End(c) /\ pc[c] \in {"queued", "compose"}
      /\ pc[c] = "queued" => Turn(c)
      /\ UNCHANGED <<file, disk, tail, lastId, acked, wholeTail, stops>>
  BY DEF Refuse
<1>2. TypeOK /\ StepsInv
  BY DEF IInv
<1>3. Turn(c)
  BY <1>1, <1>2 DEF StepsInv, Writing
<1>4. StepsInv'
  BY <1>1, <1>2, <1>3, EndSteps
<1>5. TypeOK'
  <2>1. /\ queue' \in Seq(Callers)
        /\ expected' \in [Callers -> SUBSET ((1 .. lastId) \cup {None})]
        /\ pc' \in [Callers -> {"idle", "queued", "truncate", "compose", "write", "sync", "resolve"}]
        /\ \A d \in Callers : pc'[d] # "idle" <=> d \in ToSet(queue')
        /\ base' \in [Callers -> JournalTail]
        /\ line' \in [Callers -> Seq(Byte)]
    BY <1>1, <1>2, <1>3, EndType
  <2> QED BY <1>1, <1>2, <2>1 DEF TypeOK
<1>6. ASSUME ~wholeTail'
      PROVE  FilesInv'
  <2>1. FilesInv
    BY <1>1, <1>6 DEF IInv
  <2>2. \A d \in Callers : pc[d] # "write"
    BY <1>1, <1>2, <1>3, OneRuns DEF Writing
  <2>3. Len(file) # 3 * Whole(file) - 1
    BY <2>1, <2>2 DEF FilesInv
  <2> QED BY <1>1, <1>2, <1>3, <2>1, <2>3, EndFiles
<1> QED BY <1>4, <1>5, <1>6 DEF IInv

\* A failed one leaves a prefix of its line.
LEMMA FailStep ==
  ASSUME IInv, NEW c \in Callers, Fail(c)
  PROVE  IInv'
<1>1. /\ End(c) /\ Turn(c) /\ NoteTail(file)
      /\ UNCHANGED <<file, disk, tail, lastId, acked, stops>>
  BY DEF Fail
<1>2. TypeOK /\ StepsInv
  BY DEF IInv
<1>3. wholeTail' = (wholeTail \/ (file # <<>> /\ Last(file).part = "end"))
  BY <1>1 DEF NoteTail
<1>4. StepsInv'
  BY <1>1, <1>2, EndSteps
<1>5. TypeOK'
  <2>1. /\ queue' \in Seq(Callers)
        /\ expected' \in [Callers -> SUBSET ((1 .. lastId) \cup {None})]
        /\ pc' \in [Callers -> {"idle", "queued", "truncate", "compose", "write", "sync", "resolve"}]
        /\ \A d \in Callers : pc'[d] # "idle" <=> d \in ToSet(queue')
        /\ base' \in [Callers -> JournalTail]
        /\ line' \in [Callers -> Seq(Byte)]
    BY <1>1, <1>2, EndType
  <2>2. wholeTail' \in BOOLEAN
    BY <1>2, <1>3, Zenon DEF TypeOK
  <2> QED BY <1>1, <1>2, <2>1, <2>2 DEF TypeOK
<1>6. ASSUME ~wholeTail'
      PROVE  FilesInv'
  <2>1. ~wholeTail /\ ~(file # <<>> /\ Last(file).part = "end")
    BY <1>3, <1>6
  <2>2. FilesInv
    BY <2>1 DEF IInv
  <2>3. file \in Seq(Byte) /\ Lined(file)
    BY <1>2, <2>2 DEF TypeOK, FilesInv
  <2>4. Len(file) # 3 * Whole(file) - 1
    BY <2>1, <2>3, TornEnd
  <2> QED BY <1>1, <1>2, <2>2, <2>4, EndFiles
<1> QED BY <1>4, <1>5, <1>6 DEF IInv

\* The event that append resolves with ends the file that a loss of power
\* can leave, after all that were acknowledged before it.
LEMMA ResolveFiles ==
  ASSUME TypeOK, StepsInv, FilesInv, NEW c \in Callers, Resolve(c)
  PROVE  FilesInv'
<1>1. /\ pc[c] = "resolve" /\ End(c)
      /\ tail' = [bytes |-> base[c].bytes + 3, head |-> Last(file).id]
      /\ acked' = Append(acked, Last(file).id)
      /\ UNCHANGED <<file, disk, lastId>>
  BY DEF Resolve, TailAfter
<1>2. Turn(c)
  BY <1>1 DEF StepsInv, Writing
<1>3. /\ Len(file) = base[c].bytes + 3 /\ Last(file).id = lastId /\ disk = {file}
      /\ \A k \in 1 .. Len(acked) : acked[k] < lastId
  BY <1>1 DEF FilesInv, Building
<1>4. PICK k \in Nat : base[c].bytes = 3 * k
  BY <1>1 DEF FilesInv, Building
<1>5. file \in Seq(Byte) /\ file \in disk /\ Lined(file) /\ Len(file) = 3 * k + 3
  BY <1>3, <1>4 DEF TypeOK, FilesInv
<1>6. file[3 * k + 1].id = lastId
  <2>1. file[3 * k + 3].id = file[3 * k + 1].id
    BY <1>5 DEF Lined
  <2>2. Last(file) = file[3 * k + 3]
    BY <1>5 DEF Last
  <2> QED BY <1>3, <2>1, <2>2
<1>7. \A d \in Callers : pc'[d] \in {"idle", "queued"}
  BY <1>1, <1>2, EndType
<1>8. \A d \in Callers : Building(d)'
  BY <1>7, BuildingWaits
<1>9. Len(file) # 3 * Whole(file) - 1
  <2> DEFINE w == Whole(file)
  <2>1. w \in Nat
    BY <1>5, WholeIs
  <2> HIDE DEF w
  <2> QED BY <1>5, <2>1 DEF w
<1>10. \E l \in Nat \ {0} :
         3 * l <= Len(file) /\ tail' = [bytes |-> 3 * l, head |-> file[3 * l - 2].id]
  <2> DEFINE l == k + 1
  <2>1. l \in Nat \ {0} /\ 3 * l = 3 * k + 3 /\ 3 * l - 2 = 3 * k + 1
    OBVIOUS
  <2>2. tail' = [bytes |-> 3 * l, head |-> file[3 * l - 2].id]
    BY <1>1, <1>3, <1>4, <1>6, <2>1
  <2> HIDE DEF l
  <2>3. 3 * l <= Len(file)
    BY <1>5, <2>1
  <2> QED BY <2>1, <2>2, <2>3
<1>11. acked \in Seq(1 .. lastId) /\ lastId \in Nat
  BY DEF TypeOK
<1>12. /\ Len(acked') = Len(acked) + 1 /\ acked'[Len(acked) + 1] = lastId
       /\ \A i \in 1 .. Len(acked) : acked'[i] = acked[i]
  <2>1. acked' = Append(acked, lastId)
    BY <1>1, <1>3
  <2> DEFINE S == 1 .. lastId
  <2> HIDE DEF S
  <2>2. acked \in Seq(S)
    BY <1>11 DEF S
  <2> QED BY <2>1, <2>2
<1>13. \A i \in 1 .. Len(acked') : i = Len(acked) + 1 \/ i \in 1 .. Len(acked)
  BY <1>11, <1>12
<1>14. Holds(file, lastId)
  <2>1. 3 * (k + 1) = 3 * k + 3 /\ 3 * (k + 1) - 2 = 3 * k + 1 /\ k + 1 \in Nat \ {0}
    OBVIOUS
  <2> DEFINE l == k + 1
  <2>2. l \in Nat \ {0} /\ 3 * l <= Len(file) /\ file[3 * l - 2].id = lastId
    BY <1>5, <1>6, <2>1
  <2> HIDE DEF l
  <2> QED BY <2>2 DEF Holds
<1>15. \A f \in disk' : \A i \in 1 .. Len(acked') : Holds(f, acked'[i])
  <2> SUFFICES ASSUME NEW i \in 1 .. Len(acked')
               PROVE  Holds(file, acked'[i])
    BY <1>1, <1>3
  <2>1. CASE i \in 1 .. Len(acked)
    BY <1>5, <1>12, <2>1 DEF FilesInv
  <2>2. CASE i = Len(acked) + 1
    BY <1>12, <1>14, <2>2
  <2> QED BY <1>13, <2>1, <2>2
<1>16. \A i, j \in 1 .. Len(acked') : i < j => acked'[i] < acked'[j]
  <2> SUFFICES ASSUME NEW i \in 1 .. Len(acked'), NEW j \in 1 .. Len(acked'), i < j
               PROVE  acked'[i] < acked'[j]
    OBVIOUS
  <2>1. i \in 1 .. Len(acked)
    BY <1>11, <1>12
  <2>2. CASE j \in 1 .. Len(acked)
    BY <1>12, <2>1, <2>2 DEF FilesInv
  <2>3. CASE j = Len(acked) + 1
    BY <1>3, <1>12, <2>1, <2>3
  <2> QED BY <1>13, <2>2, <2>3
<1>17. \A f \in disk' : Lined(f)
  BY <1>1 DEF FilesInv
<1>18. tail' # None =>
         \E l \in Nat \ {0} :
           3 * l <= Len(file') /\ tail' = [bytes |-> 3 * l, head |-> file'[3 * l - 2].id]
  BY <1>1, <1>10
<1>19. Len(file') # 3 * Whole(file') - 1
  BY <1>1, <1>9
<1> QED BY <1>8, <1>15, <1>16, <1>17, <1>18, <1>19 DEF FilesInv

\* The cached tail is counted right.
LEMMA ResolveStep ==
  ASSUME IInv, NEW c \in Callers, Resolve(c)
  PROVE  IInv'
<1>1. /\ pc[c] = "resolve" /\ End(c)
      /\ tail' = [bytes |-> base[c].bytes + 3, head |-> Last(file).id]
      /\ acked' = Append(acked, Last(file).id)
      /\ UNCHANGED <<file, disk, lastId, wholeTail, stops>>
  BY DEF Resolve, TailAfter
<1>2. TypeOK /\ StepsInv
  BY DEF IInv
<1>3. Turn(c)
  BY <1>1, <1>2 DEF StepsInv, Writing
<1>4. StepsInv'
  BY <1>1, <1>2, <1>3, EndSteps
<1>5. Last(file).id \in 1 .. lastId
  <2>1. file \in Seq(Byte) /\ file \in disk /\ file # <<>>
    BY <1>1, <1>2 DEF TypeOK, StepsInv
  <2>2. Len(file) \in 1 .. Len(file) /\ Last(file) = file[Len(file)]
    BY <2>1 DEF Last
  <2> QED BY <1>2, <2>1, <2>2 DEF StepsInv
<1>6. TypeOK'
  <2>1. /\ queue' \in Seq(Callers)
        /\ expected' \in [Callers -> SUBSET ((1 .. lastId) \cup {None})]
        /\ pc' \in [Callers -> {"idle", "queued", "truncate", "compose", "write", "sync", "resolve"}]
        /\ \A d \in Callers : pc'[d] # "idle" <=> d \in ToSet(queue')
        /\ base' \in [Callers -> JournalTail]
        /\ line' \in [Callers -> Seq(Byte)]
    BY <1>1, <1>2, <1>3, EndType
  <2>2. tail' \in JournalTail
    <3>1. base[c].bytes + 3 \in Nat /\ Last(file).id \in Nat
      BY <1>2, <1>5 DEF TypeOK, JournalTail
    <3> QED BY <1>1, <3>1 DEF JournalTail
  <2>3. acked' \in Seq(1 .. lastId)
    BY <1>1, <1>2, <1>5 DEF TypeOK
  <2> QED BY <1>1, <1>2, <2>1, <2>2, <2>3 DEF TypeOK
<1>7. ~wholeTail' => FilesInv'
  BY <1>1, <1>2, ResolveFiles DEF IInv
<1> QED BY <1>4, <1>6, <1>7 DEF IInv

\* Another process finds one of the files the disk may hold.
LEMMA RestartStep ==
  ASSUME IInv, NEW f \in disk, Restart(f), disk' \subseteq disk, f \in disk'
  PROVE  IInv'
<1>1. /\ stops < MaxStops /\ stops' = stops + 1 /\ file' = f /\ tail' = None /\ queue' = <<>>
      /\ wholeTail' = (wholeTail \/ (f # <<>> /\ Last(f).part = "end"))
      /\ expected' = [c \in Callers |-> {}]
      /\ pc' = [c \in Callers |-> "idle"]
      /\ base' = [c \in Callers |-> NoTail]
      /\ line' = [c \in Callers |-> <<>>]
      /\ UNCHANGED <<lastId, acked>>
  BY DEF Restart, NoteTail
<1>2. TypeOK /\ StepsInv
  BY DEF IInv
<1>3. TypeOK'
  <2>1. NoTail \in JournalTail
    BY DEF NoTail, JournalTail
  <2>2. ToSet(queue') = {} /\ queue' \in Seq(Callers)
    BY <1>1 DEF ToSet
  <2>3. /\ expected' \in [Callers -> SUBSET ((1 .. lastId') \cup {None})]
        /\ pc' \in [Callers -> {"idle", "queued", "truncate", "compose", "write", "sync", "resolve"}]
        /\ base' \in [Callers -> JournalTail]
        /\ line' \in [Callers -> Seq(Byte)]
    BY <1>1, <2>1
  <2>4. \A c \in Callers : pc'[c] # "idle" <=> c \in ToSet(queue')
    BY <1>1, <2>2
  <2>5. stops' \in 0 .. MaxStops
    BY <1>1, <1>2, JsonlJournalAssumption DEF TypeOK
  <2>6. wholeTail' \in BOOLEAN
    BY <1>1, <1>2, Zenon DEF TypeOK
  <2>7. /\ file' \in Seq(Byte) /\ file' \in disk' /\ disk' \subseteq Seq(Byte)
        /\ tail' \in JournalTail \cup {None} /\ lastId' \in 0 .. MaxId
        /\ acked' \in Seq(1 .. lastId')
    BY <1>1, <1>2 DEF TypeOK
  <2> QED BY <2>2, <2>3, <2>4, <2>5, <2>6, <2>7 DEF TypeOK
<1>4. StepsInv'
  <2>1. \A g \in disk' : \A i \in 1 .. Len(g) : g[i].id \in 1 .. lastId'
    BY <1>1, <1>2 DEF StepsInv
  <2> QED BY <1>1, <2>1 DEF StepsInv, Writing
<1>5. ASSUME ~wholeTail'
      PROVE  FilesInv'
  <2>1. FilesInv /\ ~(f # <<>> /\ Last(f).part = "end")
    BY <1>1, <1>5 DEF IInv
  <2>2. f \in Seq(Byte) /\ Lined(f)
    BY <1>2, <2>1 DEF TypeOK, FilesInv
  <2>3. Len(f) # 3 * Whole(f) - 1
    BY <2>1, <2>2, TornEnd
  <2>4. \A c \in Callers : Building(c)'
    BY <1>1, BuildingWaits
  <2> QED BY <1>1, <2>1, <2>3, <2>4 DEF FilesInv
<1> QED BY <1>3, <1>4, <1>5 DEF IInv

\* The invariant is inductive.
LEMMA NextIInv == IInv /\ [Next]_vars => IInv'
<1> SUFFICES ASSUME IInv, [Next]_vars
             PROVE  IInv'
  OBVIOUS
<1>1. TypeOK /\ StepsInv /\ (~wholeTail => FilesInv)
  BY DEF IInv
<1>2. CASE UNCHANGED vars
  <2>1. UNCHANGED <<file, disk, tail, queue, expected, pc, base, line, lastId, acked, wholeTail, stops>>
    BY <1>2 DEF vars, callers
  <2>2. TypeOK' /\ StepsInv'
    BY <1>1, <2>1 DEF TypeOK, StepsInv, Turn
  <2>3. \A c \in Callers : Turn(c)' <=> Turn(c)
    BY <2>1 DEF Turn
  <2>4. FilesInv => FilesInv'
    BY <2>1, BuildingStays DEF FilesInv
  <2> QED BY <1>1, <2>1, <2>2, <2>4 DEF IInv
<1>3. ASSUME NEW c \in Callers, Call(c)  PROVE IInv'
  <2>1. wholeTail' = wholeTail
    BY <1>3 DEF Call
  <2> QED BY <1>1, <1>3, <2>1, CallType, CallFiles DEF IInv
<1>4. ASSUME NEW c \in Callers, Locate(c)  PROVE IInv'
  <2>1. wholeTail' = wholeTail
    BY <1>4 DEF Locate
  <2> QED BY <1>1, <1>4, <2>1, LocateType, LocateFiles DEF IInv
<1>5. ASSUME NEW c \in Callers, Truncate(c)  PROVE IInv'
  <2>1. wholeTail' = wholeTail
    BY <1>5 DEF Truncate
  <2> QED BY <1>1, <1>5, <2>1, TruncateType, TruncateFiles DEF IInv
<1>6. ASSUME NEW c \in Callers, Compose(c)  PROVE IInv'
  <2>1. wholeTail' = wholeTail
    BY <1>6 DEF Compose
  <2> QED BY <1>1, <1>6, <2>1, ComposeType, ComposeFiles DEF IInv
<1>7. ASSUME NEW c \in Callers, Write(c)  PROVE IInv'
  <2>1. wholeTail' = wholeTail
    BY <1>7 DEF Write
  <2> QED BY <1>1, <1>7, <2>1, WriteType, WriteFiles DEF IInv
<1>8. ASSUME NEW c \in Callers, Datasync(c)  PROVE IInv'
  <2>1. wholeTail' = wholeTail
    BY <1>8 DEF Datasync
  <2> QED BY <1>1, <1>8, <2>1, DatasyncType, DatasyncFiles DEF IInv
<1>9. ASSUME ProcessDies  PROVE IInv'
  <2>1. Restart(file) /\ disk' = disk /\ file \in disk
    BY <1>1, <1>9 DEF ProcessDies, TypeOK
  <2> QED BY <2>1, RestartStep
<1>10. ASSUME PowerLost  PROVE IInv'
  <2>1. PICK f \in disk : Restart(f) /\ disk' = {f}
    BY <1>10 DEF PowerLost
  <2> QED BY <2>1, RestartStep
<1> QED BY <1>2, <1>3, <1>4, <1>5, <1>6, <1>7, <1>8, <1>9, <1>10, RefuseStep, FailStep,
           ResolveStep DEF Next

\* The invariant holds always.
LEMMA Invariance == Spec => []IInv
BY InitIInv, NextIInv, PTL DEF Spec

-----------------------------------------------------------------------------
(* The theorems.                                                            *)

\* Type correctness.  Among the rest: the heads that callers expect and the
\* ids that appends resolved with are ids that were created, whatever a torn
\* file made load return, and the file is always one that a loss of power may
\* leave.
THEOREM TypeCorrect == Spec => []TypeOK
<1>1. IInv => TypeOK
  BY DEF IInv
<1> QED BY <1>1, Invariance, PTL

\* load succeeds at every moment and after a loss of power at any: no series
\* of failed, refused, dying and resolved appends leaves two lines that do not
\* parse, or an event whose parent is not the one before it.
THEOREM LoadsCleanlyAlways == Spec => []LoadsCleanly
<1>1. IInv => LoadsCleanly
  <2> SUFFICES ASSUME IInv, ~wholeTail, NEW f \in disk
               PROVE  Readable(f)
    BY DEF LoadsCleanly
  <2>1. f \in Seq(Byte) /\ Lined(f)
    BY DEF IInv, TypeOK, FilesInv
  <2> QED BY <2>1, LinedLoads
<1> QED BY <1>1, Invariance, PTL

\* The tail that append caches instead of loading: whenever an append may use
\* it, its head is the one that load would find.
THEOREM CacheHonestAlways == Spec => []CacheHonest
<1>1. IInv => CacheHonest
  <2> SUFFICES ASSUME IInv, Cached, \A c \in Callers : pc[c] \in {"idle", "queued"}, ~wholeTail
               PROVE  tail.head = HeadOf(file)
    BY DEF CacheHonest
  <2> DEFINE m == Whole(file)
  <2>1. file \in Seq(Byte) /\ Lined(file) /\ FilesInv
    BY DEF IInv, TypeOK, FilesInv
  <2>2. PICK k \in Nat \ {0} :
          3 * k <= Len(file) /\ tail = [bytes |-> 3 * k, head |-> file[3 * k - 2].id]
    BY <2>1 DEF FilesInv, Cached
  <2>3. 3 * k = Len(file)
    BY <2>2 DEF Cached
  <2>4. m \in Nat /\ (Len(file) = 3 * m - 1 \/ Len(file) = 3 * m \/ Len(file) = 3 * m + 1)
    BY <2>1, WholeIs
  <2>5. HeadOf(file) = IF m = 0 THEN None ELSE file[3 * m - 2].id
    BY <2>1, LinedLoads
  <2> HIDE DEF m
  <2>6. k = m
    BY <2>3, <2>4
  <2> QED BY <2>2, <2>5, <2>6
<1> QED BY <1>1, Invariance, PTL

\* What append resolved for is in every file that a loss of power may leave,
\* once and in the order of resolution.
THEOREM AckedSurviveAlways == Spec => []AckedSurvive
<1>1. IInv => AckedSurvive
  <2> SUFFICES ASSUME IInv, ~wholeTail, NEW f \in disk
               PROVE  AllAcked(f)
    BY DEF AckedSurvive
  <2> DEFINE m == Whole(f)
             E == Events(f)
  <2>1. f \in Seq(Byte) /\ Lined(f) /\ FilesInv /\ acked \in Seq(1 .. lastId)
    BY DEF IInv, TypeOK, FilesInv
  <2>2. /\ m \in Nat
        /\ DOMAIN E = 1 .. m
        /\ \A k \in 1 .. m : E[k] = f[3 * k - 2] /\ 3 * k - 2 \in 1 .. Len(f)
    BY <2>1, LinedEvent
  <2>3. Len(f) = 3 * m - 1 \/ Len(f) = 3 * m \/ Len(f) = 3 * m + 1
    BY <2>1, WholeIs
  <2>4. DOMAIN acked = 1 .. Len(acked) /\ \A k \in 1 .. Len(acked) : acked[k] \in Nat
    <3>1. acked \in Seq(Nat)
      <4>1. 1 .. lastId \subseteq Nat
        OBVIOUS
      <4> QED BY <2>1, <4>1, SeqOver
    <3> QED BY <3>1
  <2> HIDE DEF m, E
  <2>5. ASSUME NEW k \in DOMAIN acked
        PROVE  \E i \in DOMAIN E : E[i].id = acked[k]
    <3>1. Holds(f, acked[k])
      BY <2>1, <2>4 DEF FilesInv
    <3>2. PICK i \in Nat \ {0} : 3 * i <= Len(f) /\ f[3 * i - 2].id = acked[k]
      BY <3>1 DEF Holds
    <3>3. i \in 1 .. m
      BY <2>2, <2>3, <3>2
    <3> QED BY <2>2, <3>2, <3>3
  <2>6. \A i, j \in 1 .. m : i < j => E[i].id < E[j].id
    <3> SUFFICES ASSUME NEW i \in 1 .. m, NEW j \in 1 .. m, i < j
                 PROVE  E[i].id < E[j].id
      OBVIOUS
    <3> DEFINE a == i - 1
               b == j - 1
    <3>1. a \in Nat /\ b \in Nat /\ a < b /\ 3 * a + 1 = 3 * i - 2 /\ 3 * b + 1 = 3 * j - 2
      BY <2>2
    <3>2. E[i] = f[3 * a + 1] /\ E[j] = f[3 * b + 1] /\ 3 * b + 1 <= Len(f)
      BY <2>2, <3>1
    <3> HIDE DEF a, b
    <3>3. f[3 * a + 1].id < f[3 * b + 1].id
      BY <2>1, <3>1, <3>2 DEF Lined
    <3> QED BY <3>2, <3>3
  <2>7. \A i \in 1 .. m : E[i].id \in Nat
    <3>1. \A i \in 1 .. Len(f) : f[i] \in Byte
      BY <2>1
    <3>2. \A i \in 1 .. m : E[i] \in Byte
      BY <2>2, <3>1
    <3> QED BY <3>2 DEF Byte
  <2>8. ASSUME NEW i \in DOMAIN E, NEW j \in DOMAIN E,
               NEW k \in DOMAIN acked, NEW l \in DOMAIN acked,
               E[i].id = acked[k], E[j].id = acked[l]
        PROVE  i < j <=> k < l
    <3>1. i < j => acked[k] < acked[l]
      BY <2>2, <2>6, <2>8
    <3>2. j < i => acked[l] < acked[k]
      BY <2>2, <2>6, <2>8
    <3>3. i = j => acked[k] = acked[l]
      BY <2>8
    <3>4. /\ k < l => acked[k] < acked[l]
          /\ l < k => acked[l] < acked[k]
          /\ k = l => acked[k] = acked[l]
      BY <2>1, <2>4 DEF FilesInv
    <3>5. /\ i \in Int /\ j \in Int /\ k \in Int /\ l \in Int
          /\ acked[k] \in Nat /\ acked[l] \in Nat
      BY <2>2, <2>4
    <3> QED BY <3>1, <3>2, <3>3, <3>4, <3>5
  <2> QED BY <2>5, <2>8 DEF AllAcked, E
<1> QED BY <1>1, Invariance, PTL

\* More bytes, or the cut of a line that does not parse, take no event back.
LEMMA StepKeepsReads ==
  ASSUME IInv, [Next]_vars, ~wholeTail', ~PowerLost
  PROVE  IsPrefix(Events(file), Events(file'))
<1>1. IInv'
  BY NextIInv
<1>2. ~wholeTail
  BY DEF Next, vars, callers, Call, Locate, Truncate, Compose, Refuse, Write, Datasync, Fail,
         Resolve, ProcessDies, Restart, NoteTail
<1>3. file \in Seq(Byte) /\ Lined(file)
  BY <1>2 DEF IInv, TypeOK, FilesInv
<1>4. file' \in Seq(Byte) /\ Lined(file')
  BY <1>1 DEF IInv, TypeOK, FilesInv
<1> DEFINE m == Whole(file)
           n == Whole(file')
<1>5. m \in Nat /\ (Len(file) = 3 * m - 1 \/ Len(file) = 3 * m \/ Len(file) = 3 * m + 1)
  BY <1>3, WholeIs
<1>6. n \in Nat /\ (Len(file') = 3 * n - 1 \/ Len(file') = 3 * n \/ Len(file') = 3 * n + 1)
  BY <1>4, WholeIs
<1> SUFFICES /\ m <= n
             /\ \A i \in 1 .. Len(file) : i <= Len(file') => file[i] = file'[i]
  BY <1>3, <1>4, EventsGrow
<1>7. CASE file' = file
  BY <1>5, <1>7
<1>8. ASSUME NEW c \in Callers, Truncate(c)
      PROVE  /\ m <= n
             /\ \A i \in 1 .. Len(file) : i <= Len(file') => file[i] = file'[i]
  <2>1. pc[c] = "truncate" /\ file' = SubSeq(file, 1, base[c].bytes)
    BY <1>8 DEF Truncate, Become
  <2>2. base[c].bytes = 3 * m /\ Len(file) = base[c].bytes + 1
    BY <1>2, <2>1 DEF IInv, FilesInv, Building
  <2>3. base[c].bytes \in Nat /\ base[c].bytes <= Len(file)
    BY <1>5, <2>2
  <2>4. /\ Len(file') = base[c].bytes
        /\ \A i \in 1 .. base[c].bytes : file'[i] = file[i]
    BY <1>3, <2>1, <2>3, Cut
  <2> HIDE DEF m, n
  <2>5. n = m
    BY <1>5, <1>6, <2>2, <2>4
  <2>6. \A i \in 1 .. Len(file) : i <= Len(file') => file[i] = file'[i]
    BY <1>5, <2>2, <2>3, <2>4
  <2> QED BY <1>5, <2>5, <2>6
<1>9. ASSUME NEW c \in Callers, Write(c)
      PROVE  /\ m <= n
             /\ \A i \in 1 .. Len(file) : i <= Len(file') => file[i] = file'[i]
  <2>1. pc[c] = "write" /\ file' = Append(file, Head(line[c]))
    BY <1>9 DEF Write, Become
  <2>2. line[c] \in Seq(Byte) /\ line[c] # <<>>
    BY <2>1 DEF IInv, TypeOK, StepsInv
  <2>3. Len(file') = Len(file) + 1 /\ \A i \in 1 .. Len(file) : file'[i] = file[i]
    BY <1>3, <2>1, <2>2, MoveOne
  <2> HIDE DEF m, n
  <2>4. m <= n
    BY <1>5, <1>6, <2>3
  <2> QED BY <2>3, <2>4
<1>10. \/ file' = file
       \/ \E c \in Callers : Truncate(c) \/ Write(c)
  BY DEF Next, vars, callers, Call, Locate, Compose, Refuse, Datasync, Fail, Resolve,
         ProcessDies, Restart
<1> QED BY <1>7, <1>8, <1>9, <1>10

\* What read or head returned is there at every later moment of every process,
\* but for what a loss of power takes before its sync.
THEOREM ReadsStableAlways == Spec => ReadsStable
<1>1. IInv /\ [Next]_vars =>
        [wholeTail' \/ PowerLost \/ IsPrefix(Events(file), Events(file'))]_vars
  BY StepKeepsReads
<1> QED BY <1>1, Invariance, PTL DEF Spec, ReadsStable
=============================================================================
