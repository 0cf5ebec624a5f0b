-------------------------- MODULE AgentLoopProofs ---------------------------
(***************************************************************************)
(* Proofs about module AgentLoop, for any number of processes that run one *)
(* session, any calls and mail and any bounds.                             *)
(*                                                                         *)
(* What a process has in memory says something about the journal only      *)
(* while no one else appends: the invariants of its phases are stated for  *)
(* a process that knows the whole journal, which is what each of its       *)
(* appends checks.                                                         *)
(***************************************************************************)
EXTENDS AgentLoop, PositionLemmas

-----------------------------------------------------------------------------
(* Enumerations in the order of the journal.                                *)

\* InOrder lists each element of a finite set of positions once.
LEMMA InOrderLists ==
  ASSUME NEW S \in SUBSET (Nat \X Nat), IsFiniteSet(S)
  PROVE  /\ Cardinality(S) \in Nat
         /\ InOrder(S) \in [1 .. Cardinality(S) -> S]
         /\ \A a, b \in 1 .. Cardinality(S) : InOrder(S)[a] = InOrder(S)[b] => a = b
         /\ \A x \in S : \E n \in 1 .. Cardinality(S) : InOrder(S)[n] = x
<1> DEFINE Below(x) == {y \in S : Before(y, x)}
           N == Cardinality(S)
           rank == [x \in S |-> Cardinality(Below(x))]
<1>1. N \in Nat
  BY FS_CardinalityType
<1>2. \A x \in S : x[1] \in Nat /\ x[2] \in Nat /\ x = <<x[1], x[2]>>
  OBVIOUS
<1>3. \A x \in S : ~Before(x, x)
  BY <1>2 DEF Before
<1>4. \A x, y \in S : x = y \/ Before(x, y) \/ Before(y, x)
  BY <1>2 DEF Before
<1>5. \A x, y, z \in S : Before(x, y) /\ Before(y, z) => Before(x, z)
  BY <1>2 DEF Before
<1>6. \A x \in S : IsFiniteSet(Below(x)) /\ Cardinality(Below(x)) \in Nat
  <2> TAKE x \in S
  <2>1. Below(x) \in SUBSET S
    OBVIOUS
  <2> HIDE DEF Below
  <2> QED BY <2>1, FS_Subset, FS_CardinalityType
<1>7. \A x, y \in S : Before(x, y) => Cardinality(Below(x)) < Cardinality(Below(y))
  <2> SUFFICES ASSUME NEW x \in S, NEW y \in S, Before(x, y)
               PROVE  Cardinality(Below(x)) < Cardinality(Below(y))
    OBVIOUS
  <2>1. Below(x) \cup {x} \in SUBSET Below(y)
    BY <1>5
  <2>2. x \notin Below(x)
    BY <1>3
  <2> HIDE DEF Below
  <2>3. Cardinality(Below(x) \cup {x}) = Cardinality(Below(x)) + 1
    BY <1>6, <2>2, FS_AddElement
  <2>4. Cardinality(Below(x) \cup {x}) <= Cardinality(Below(y))
    BY <1>6, <2>1, FS_Subset
  <2> QED BY <1>6, <2>3, <2>4
<1>8. \A x \in S : Cardinality(Below(x)) < N
  <2> TAKE x \in S
  <2>1. Below(x) \cup {x} \in SUBSET S
    OBVIOUS
  <2>2. x \notin Below(x)
    BY <1>3
  <2> HIDE DEF Below
  <2>3. Cardinality(Below(x) \cup {x}) = Cardinality(Below(x)) + 1
    BY <1>6, <2>2, FS_AddElement
  <2>4. Cardinality(Below(x) \cup {x}) <= N
    BY <2>1, FS_Subset
  <2> HIDE DEF N
  <2> QED BY <1>1, <1>6, <2>3, <2>4
<1> DEFINE R == 1 .. N
           place == [x \in S |-> rank[x] + 1]
<1>9. place \in Surjection(S, R)
  <2>1. \A x \in S : rank[x] \in Nat /\ rank[x] < N
    BY <1>6, <1>8
  <2>2. \A x, y \in S : rank[x] = rank[y] => x = y
    <3> SUFFICES ASSUME NEW x \in S, NEW y \in S, rank[x] = rank[y], x # y
                 PROVE  FALSE
      OBVIOUS
    <3>1. Before(x, y) \/ Before(y, x)
      BY <1>4
    <3>2. Cardinality(Below(x)) = Cardinality(Below(y))
      OBVIOUS
    <3>3. Cardinality(Below(x)) \in Nat /\ Cardinality(Below(y)) \in Nat
      BY <1>6
    <3> HIDE DEF Below
    <3> QED BY <1>7, <3>1, <3>2, <3>3
  <2> HIDE DEF rank, N
  <2>3. place \in [S -> R] /\ \A x, y \in S : place[x] = place[y] => x = y
    BY <1>1, <2>1, <2>2
  <2> HIDE DEF place
  <2>4. place \in Injection(S, R)
    BY <2>3 DEF Injection, IsInjective
  <2>5. IsFiniteSet(R) /\ Cardinality(R) = N
    <3>1. IsFiniteSet(1 .. N) /\ Cardinality(1 .. N) = IF 1 > N THEN 0 ELSE N - 1 + 1
      BY <1>1, FS_Interval
    <3> QED BY <1>1, <3>1
  <2>6. Cardinality(S) = Cardinality(R)
    BY <2>5 DEF N
  <2> HIDE DEF R
  <2> QED BY <2>4, <2>5, <2>6, FS_Injection
<1>10. \A n \in R : \E x \in S : Cardinality(Below(x)) = n - 1
  <2> TAKE n \in R
  <2>1. PICK x \in S : place[x] = n
    <3> HIDE DEF place, R
    <3> QED BY <1>9 DEF Surjection
  <2>2. rank[x] = n - 1
    <3> HIDE DEF N
    <3>1. rank[x] \in Nat
      BY <1>6
    <3> HIDE DEF rank
    <3> QED BY <1>1, <2>1, <3>1
  <2> QED BY <2>2
<1> DEFINE At(n) == CHOOSE x \in S : Cardinality(Below(x)) = n - 1
<1>11. InOrder(S) = [n \in R |-> At(n)]
  BY DEF InOrder
<1>12. \A n \in R : At(n) \in S /\ Cardinality(Below(At(n))) = n - 1
  <2> HIDE DEF R, Below
  <2> QED BY <1>10
<1>13. \A x \in S : \E n \in R : At(n) = x
  <2> TAKE x \in S
  <2> DEFINE n == Cardinality(Below(x)) + 1
  <2>0. \A y \in S : Cardinality(Below(y)) \in Nat
    BY <1>6
  <2>1. n \in R
    <3> HIDE DEF Below, N
    <3> QED BY <1>1, <1>6, <1>8
  <2>2. n - 1 = Cardinality(Below(x))
    <3> HIDE DEF Below
    <3> QED BY <2>0
  <2>3. At(n) \in S /\ Cardinality(Below(At(n))) = Cardinality(Below(x))
    <3> HIDE DEF At, R, n, Below
    <3> QED BY <1>12, <2>1, <2>2
  <2>4. At(n) = x
    <3> HIDE DEF At, Below, n
    <3> QED BY <1>4, <1>7, <2>0, <2>3
  <2> QED BY <2>1, <2>4
<1>14. \A a, b \in R : At(a) = At(b) => a = b
  <2> SUFFICES ASSUME NEW a \in R, NEW b \in R, At(a) = At(b)
               PROVE  a = b
    OBVIOUS
  <2>1. a - 1 = b - 1
    <3> HIDE DEF At, R, Below
    <3> QED BY <1>12
  <2>2. a \in Int /\ b \in Int
    OBVIOUS
  <2> QED BY <2>1, <2>2
<1> HIDE DEF At, Below, rank, place
<1> QED BY <1>1, <1>11, <1>12, <1>13, <1>14

-----------------------------------------------------------------------------
\* An action is closed: its receipt is terminal and its result recorded.
Closed(j, n) == ReceiptOf(j, n) \in Settled /\ ResultProjected(j, n)

\* What precedes an event.
Wellformed(j) ==
  \A i \in 1 .. Len(j) :
    /\ j[i].type = "action.started" =>
         /\ j[i].call \in Calls
         /\ \E a \in 1 .. i - 1 : j[i].call \in ToSet(j[a].calls)
    /\ j[i].type \in {"action.completed", "result"} =>
         /\ j[i].inv \in Starts(j) /\ j[i].inv < i
         /\ j[j[i].inv].call = j[i].call
         /\ j[i].status \in Statuses
    /\ j[i].type = "assistant" =>
         /\ i > 1
         /\ j[i - 1].type = "model.completed" /\ j[i - 1].status # "threw"
    /\ j[i].type = "model.completed" =>
         /\ i > 1 /\ j[i - 1].type = "model.started"
         /\ j[i].status \in Stops \cup {"threw"}

\* The last model call ended with a stop reason, and has seen every message.
Earned(j, stop) ==
  \E d \in 2 .. Len(j) :
    /\ j[d - 1].type = "model.started"
    /\ j[d].type = "model.completed" /\ j[d].status = stop
    /\ \A k \in (d + 1) .. Len(j) : j[k].type \notin {"model.started", "model.completed", "user"}

\* After every final answer the run ended or a message came.
Followed(j) ==
  \A a \in 1 .. Len(j) :
    j[a].type = "assistant" /\ j[a].calls = <<>> =>
      \E k \in (a + 1) .. Len(j) : j[k].type = "run.completed" \/ IsMessage(j[k])
-----------------------------------------------------------------------------
(* Searches from the end.                                                   *)

\* i is the last of the positions of a journal that are in S, 0 if S is empty.
IsLast(i, S) == IF S = {} THEN i = 0 ELSE i \in S /\ \A m \in S : m <= i

\* What SelectLastInSeq returns.
LEMMA LastIs ==
  ASSUME NEW n \in Nat, NEW I \in SUBSET (1 .. n), NEW i, i = IF I # {} THEN Max(I) ELSE 0
  PROVE  i \in 0 .. n /\ IsLast(i, I)
<1>1. CASE I = {}
  BY <1>1 DEF IsLast
<1>2. CASE I # {}
  <2>1. I \in SUBSET (0 .. n)
    OBVIOUS
  <2>2. Max(I) \in I /\ \A m \in I : m <= Max(I)
    BY <1>2, <2>1, MaxIsGreatest
  <2>3. i = Max(I) /\ i \in 0 .. n
    <3>1. \A m \in I : m \in 0 .. n
      OBVIOUS
    <3> QED BY <1>2, <2>2, <3>1
  <2> QED BY <1>2, <2>2, <2>3 DEF IsLast
<1> QED BY <1>1, <1>2

ReceiptsOf(j, inv) == {i \in 1 .. Len(j) : j[i].type = "action.completed" /\ j[i].inv = inv}
ResultsOf(j, inv) == {i \in 1 .. Len(j) : j[i].type = "result" /\ j[i].inv = inv}

\* ReceiptOf reads the last receipt of an invocation.
LEMMA ReceiptIs ==
  ASSUME NEW j \in Seq(Event), NEW inv
  PROVE  \/ ReceiptsOf(j, inv) = {} /\ ReceiptOf(j, inv) = ""
         \/ \E i \in ReceiptsOf(j, inv) :
              IsLast(i, ReceiptsOf(j, inv)) /\ ReceiptOf(j, inv) = j[i].status
<1> DEFINE I == ReceiptsOf(j, inv)
           last == LastWhere(j, LAMBDA e : e.type = "action.completed" /\ e.inv = inv)
<1>1. I \in SUBSET (0 .. Len(j)) /\ Len(j) \in Nat /\ 0 \notin I
  BY DEF ReceiptsOf
<1>2. last = IF I # {} THEN Max(I) ELSE 0
  BY DEF LastWhere, SelectLastInSeq, ReceiptsOf
<1>3. ReceiptOf(j, inv) = IF last = 0 THEN "" ELSE j[last].status
  BY DEF ReceiptOf
<1> HIDE DEF I, last
<1>4. IsLast(last, I)
  BY <1>1, <1>2, MaxIsGreatest DEF IsLast
<1>5. CASE I = {}
  BY <1>3, <1>4, <1>5 DEF I, IsLast
<1>6. CASE I # {}
  <2>1. last \in I /\ last # 0
    BY <1>1, <1>4, <1>6 DEF IsLast
  <2> QED BY <1>3, <1>4, <2>1 DEF I
<1> QED BY <1>5, <1>6

\* ProjectedOf reads the last result of an invocation.
LEMMA ProjectedIs ==
  ASSUME NEW j \in Seq(Event), NEW inv
  PROVE  \/ ResultsOf(j, inv) = {} /\ ProjectedOf(j, inv) = ""
         \/ \E i \in ResultsOf(j, inv) :
              IsLast(i, ResultsOf(j, inv)) /\ ProjectedOf(j, inv) = j[i].status
<1> DEFINE I == ResultsOf(j, inv)
           last == LastWhere(j, LAMBDA e : e.type = "result" /\ e.inv = inv)
<1>1. I \in SUBSET (0 .. Len(j)) /\ Len(j) \in Nat /\ 0 \notin I
  BY DEF ResultsOf
<1>2. last = IF I # {} THEN Max(I) ELSE 0
  BY DEF LastWhere, SelectLastInSeq, ResultsOf
<1>3. ProjectedOf(j, inv) = IF last = 0 THEN "" ELSE j[last].status
  BY DEF ProjectedOf
<1> HIDE DEF I, last
<1>4. IsLast(last, I)
  BY <1>1, <1>2, MaxIsGreatest DEF IsLast
<1>5. CASE I = {}
  BY <1>3, <1>4, <1>5 DEF I, IsLast
<1>6. CASE I # {}
  <2>1. last \in I /\ last # 0
    BY <1>1, <1>4, <1>6 DEF IsLast
  <2> QED BY <1>3, <1>4, <2>1 DEF I
<1> QED BY <1>5, <1>6

\* A longer journal has the events of the shorter one where they were.
LEMMA AppendIs ==
  ASSUME NEW j \in Seq(Event), NEW e \in Event
  PROVE  /\ Append(j, e) \in Seq(Event)
         /\ Len(j) \in Nat /\ Len(Append(j, e)) = Len(j) + 1
         /\ \A i \in 1 .. Len(j) : Append(j, e)[i] = j[i]
         /\ Append(j, e)[Len(j) + 1] = e
OBVIOUS

\* The receipt of an invocation changes when one is appended for it.
LEMMA ReceiptAppend ==
  ASSUME NEW j \in Seq(Event), NEW e \in Event, NEW inv
  PROVE  ReceiptOf(Append(j, e), inv) =
           IF e.type = "action.completed" /\ e.inv = inv THEN e.status ELSE ReceiptOf(j, inv)
<1> DEFINE k == Append(j, e)
           n == Len(j)
<1>1. k \in Seq(Event) /\ n \in Nat /\ Len(k) = n + 1 /\ k[n + 1] = e
      /\ \A i \in 1 .. n : k[i] = j[i]
  BY AppendIs
<1> HIDE DEF k
<1>2. CASE e.type = "action.completed" /\ e.inv = inv
  <2>1. n + 1 \in ReceiptsOf(k, inv) /\ \A i \in ReceiptsOf(k, inv) : i <= n + 1
    BY <1>1, <1>2 DEF ReceiptsOf
  <2>2. PICK i \in ReceiptsOf(k, inv) :
          IsLast(i, ReceiptsOf(k, inv)) /\ ReceiptOf(k, inv) = k[i].status
    BY <1>1, <2>1, ReceiptIs
  <2>3. i \in 1 .. n + 1 /\ n + 1 <= i
    BY <1>1, <2>1, <2>2 DEF IsLast, ReceiptsOf
  <2>4. i = n + 1
    BY <1>1, <2>3
  <2> QED BY <1>1, <1>2, <2>2, <2>4 DEF k
<1>3. CASE ~(e.type = "action.completed" /\ e.inv = inv)
  <2>1. \A i : i \in ReceiptsOf(k, inv) <=> i \in ReceiptsOf(j, inv)
    BY <1>1, <1>3 DEF ReceiptsOf
  <2>2. ReceiptsOf(k, inv) = ReceiptsOf(j, inv)
    BY <2>1, Zenon
  <2>3. CASE ReceiptsOf(j, inv) = {}
    <3>1. ReceiptOf(j, inv) = "" /\ ReceiptOf(k, inv) = ""
      BY <1>1, <2>2, <2>3, ReceiptIs
    <3> QED BY <1>3, <3>1 DEF k
  <2>4. CASE ReceiptsOf(j, inv) # {}
    <3>1. PICK i \in ReceiptsOf(j, inv) :
            IsLast(i, ReceiptsOf(j, inv)) /\ ReceiptOf(j, inv) = j[i].status
      BY <2>4, ReceiptIs
    <3>2. PICK m \in ReceiptsOf(j, inv) :
            IsLast(m, ReceiptsOf(j, inv)) /\ ReceiptOf(k, inv) = k[m].status
      BY <1>1, <2>2, <2>4, ReceiptIs
    <3>3. i \in 1 .. n /\ m \in 1 .. n /\ i <= m /\ m <= i
      BY <3>1, <3>2 DEF IsLast, ReceiptsOf
    <3>4. i = m
      BY <1>1, <3>3
    <3> QED BY <1>1, <1>3, <3>1, <3>2, <3>3, <3>4 DEF k
  <2> QED BY <2>3, <2>4
<1> QED BY <1>2, <1>3

\* So does its result.
LEMMA ProjectedAppend ==
  ASSUME NEW j \in Seq(Event), NEW e \in Event, NEW inv
  PROVE  ProjectedOf(Append(j, e), inv) =
           IF e.type = "result" /\ e.inv = inv THEN e.status ELSE ProjectedOf(j, inv)
<1> DEFINE k == Append(j, e)
           n == Len(j)
<1>1. k \in Seq(Event) /\ n \in Nat /\ Len(k) = n + 1 /\ k[n + 1] = e
      /\ \A i \in 1 .. n : k[i] = j[i]
  BY AppendIs
<1> HIDE DEF k
<1>2. CASE e.type = "result" /\ e.inv = inv
  <2>1. n + 1 \in ResultsOf(k, inv) /\ \A i \in ResultsOf(k, inv) : i <= n + 1
    BY <1>1, <1>2 DEF ResultsOf
  <2>2. PICK i \in ResultsOf(k, inv) :
          IsLast(i, ResultsOf(k, inv)) /\ ProjectedOf(k, inv) = k[i].status
    BY <1>1, <2>1, ProjectedIs
  <2>3. i \in 1 .. n + 1 /\ n + 1 <= i
    BY <1>1, <2>1, <2>2 DEF IsLast, ResultsOf
  <2>4. i = n + 1
    BY <1>1, <2>3
  <2> QED BY <1>1, <1>2, <2>2, <2>4 DEF k
<1>3. CASE ~(e.type = "result" /\ e.inv = inv)
  <2>1. \A i : i \in ResultsOf(k, inv) <=> i \in ResultsOf(j, inv)
    BY <1>1, <1>3 DEF ResultsOf
  <2>2. ResultsOf(k, inv) = ResultsOf(j, inv)
    BY <2>1, Zenon
  <2>3. CASE ResultsOf(j, inv) = {}
    <3>1. ProjectedOf(j, inv) = "" /\ ProjectedOf(k, inv) = ""
      BY <1>1, <2>2, <2>3, ProjectedIs
    <3> QED BY <1>3, <3>1 DEF k
  <2>4. CASE ResultsOf(j, inv) # {}
    <3>1. PICK i \in ResultsOf(j, inv) :
            IsLast(i, ResultsOf(j, inv)) /\ ProjectedOf(j, inv) = j[i].status
      BY <2>4, ProjectedIs
    <3>2. PICK m \in ResultsOf(j, inv) :
            IsLast(m, ResultsOf(j, inv)) /\ ProjectedOf(k, inv) = k[m].status
      BY <1>1, <2>2, <2>4, ProjectedIs
    <3>3. i \in 1 .. n /\ m \in 1 .. n /\ i <= m /\ m <= i
      BY <3>1, <3>2 DEF IsLast, ResultsOf
    <3>4. i = m
      BY <1>1, <3>3
    <3> QED BY <1>1, <1>3, <3>1, <3>2, <3>3, <3>4 DEF k
  <2> QED BY <2>3, <2>4
<1> QED BY <1>2, <1>3

-----------------------------------------------------------------------------
(* What one more event changes.                                             *)

\* Calls that have a start, a result, or neither.
LEMMA MarksAppend ==
  ASSUME NEW j \in Seq(Event), NEW e \in Event
  PROVE  /\ \A c : HasStart(Append(j, e), c) <=>
                     HasStart(j, c) \/ (e.type = "action.started" /\ e.call = c)
         /\ \A c : HasResult(Append(j, e), c) <=>
                     HasResult(j, c) \/ (e.type = "result" /\ e.call = c)
         /\ \A n : n \in Starts(Append(j, e)) <=>
                     n \in Starts(j) \/ (n = Len(j) + 1 /\ e.type = "action.started")
         /\ Starts(j) \subseteq 1 .. Len(j)
<1> DEFINE k == Append(j, e)
           n == Len(j)
<1>1. k \in Seq(Event) /\ n \in Nat /\ Len(k) = n + 1 /\ k[n + 1] = e
      /\ \A i \in 1 .. n : k[i] = j[i]
  BY AppendIs
<1> HIDE DEF k
<1>2. \A i : i \in 1 .. n + 1 <=> i \in 1 .. n \/ i = n + 1
  BY <1>1
<1>3. n + 1 \notin 1 .. n
  BY <1>1
<1>4. \A c : HasStart(k, c) <=> HasStart(j, c) \/ (e.type = "action.started" /\ e.call = c)
  BY <1>1, <1>2 DEF HasStart
<1>5. \A c : HasResult(k, c) <=> HasResult(j, c) \/ (e.type = "result" /\ e.call = c)
  BY <1>1, <1>2 DEF HasResult
<1>6. \A i : i \in Starts(k) <=> i \in Starts(j) \/ (i = n + 1 /\ e.type = "action.started")
  BY <1>1, <1>2, <1>3 DEF Starts
<1>7. Starts(j) \subseteq 1 .. n
  BY DEF Starts
<1> QED BY <1>4, <1>5, <1>6, <1>7 DEF k

\* An event that is not a receipt or a result of an invocation leaves it closed.
LEMMA ClosedAppend ==
  ASSUME NEW j \in Seq(Event), NEW e \in Event, NEW n \in Starts(j), Closed(j, n),
         e.type \in {"action.completed", "result"} => e.inv # n
  PROVE  Closed(Append(j, e), n)
<1> DEFINE k == Append(j, e)
<1>1. ReceiptOf(k, n) = ReceiptOf(j, n)
  BY ReceiptAppend
<1>2. ProjectedOf(k, n) = ProjectedOf(j, n)
  BY ProjectedAppend
<1>3. k[n] = j[n]
  BY AppendIs DEF Starts
<1>4. HasResult(j, j[n].call) => HasResult(k, j[n].call)
  BY MarksAppend
<1> HIDE DEF k
<1>5. Closed(k, n)
  BY <1>1, <1>2, <1>3, <1>4 DEF Closed, ResultProjected
<1> QED BY <1>5 DEF k

\* A settled receipt and a result that agrees close an action.
LEMMA ClosedByResult ==
  ASSUME NEW j \in Seq(Event), NEW e \in Event, NEW n \in Starts(j),
         e.type = "result", e.inv = n, e.status = ReceiptOf(j, n), e.status \in Settled
  PROVE  Closed(Append(j, e), n)
<1> DEFINE k == Append(j, e)
<1>1. ReceiptOf(k, n) = e.status
  BY ReceiptAppend
<1>2. ProjectedOf(k, n) = e.status
  BY ProjectedAppend
<1> HIDE DEF k
<1>3. Closed(k, n)
  BY <1>1, <1>2 DEF Closed, ResultProjected
<1> QED BY <1>3 DEF k

\* What an event needs before it.
Preceded(j, e) ==
  /\ e.type = "action.started" =>
       /\ e.call \in Calls
       /\ \E a \in 1 .. Len(j) : e.call \in ToSet(j[a].calls)
  /\ e.type \in {"action.completed", "result"} =>
       /\ e.inv \in Starts(j) /\ j[e.inv].call = e.call
       /\ e.status \in Statuses
  /\ e.type = "assistant" =>
       /\ Len(j) > 0
       /\ j[Len(j)].type = "model.completed" /\ j[Len(j)].status # "threw"
  /\ e.type = "model.completed" =>
       /\ Len(j) > 0 /\ j[Len(j)].type = "model.started"
       /\ e.status \in Stops \cup {"threw"}

LEMMA WellformedAppend ==
  ASSUME NEW j \in Seq(Event), NEW e \in Event, Wellformed(j), Preceded(j, e)
  PROVE  Wellformed(Append(j, e))
<1> DEFINE k == Append(j, e)
           n == Len(j)
<1>1. k \in Seq(Event) /\ n \in Nat /\ Len(k) = n + 1 /\ k[n + 1] = e
      /\ \A i \in 1 .. n : k[i] = j[i]
  BY AppendIs
<1>2. \A i \in Starts(j) : i \in Starts(k) /\ i \in 1 .. n
  BY MarksAppend
<1> HIDE DEF k
<1> SUFFICES ASSUME NEW i \in 1 .. n + 1
             PROVE  /\ k[i].type = "action.started" =>
                         /\ k[i].call \in Calls
                         /\ \E a \in 1 .. i - 1 : k[i].call \in ToSet(k[a].calls)
                    /\ k[i].type \in {"action.completed", "result"} =>
                         /\ k[i].inv \in Starts(k) /\ k[i].inv < i
                         /\ k[k[i].inv].call = k[i].call
                         /\ k[i].status \in Statuses
                    /\ k[i].type = "assistant" =>
                         /\ i > 1
                         /\ k[i - 1].type = "model.completed" /\ k[i - 1].status # "threw"
                    /\ k[i].type = "model.completed" =>
                         /\ i > 1 /\ k[i - 1].type = "model.started"
                         /\ k[i].status \in Stops \cup {"threw"}
  BY <1>1 DEF Wellformed, k
<1>3. CASE i \in 1 .. n
  <2>1. k[i] = j[i] /\ (i > 1 => k[i - 1] = j[i - 1]) /\ \A a \in 1 .. i - 1 : k[a] = j[a]
    BY <1>1, <1>3
  <2>2. j[i].type = "action.started" =>
          j[i].call \in Calls /\ \E a \in 1 .. i - 1 : j[i].call \in ToSet(j[a].calls)
    BY <1>3 DEF Wellformed
  <2>3. j[i].type \in {"action.completed", "result"} =>
          /\ j[i].inv \in Starts(j) /\ j[i].inv < i
          /\ j[j[i].inv].call = j[i].call
          /\ j[i].status \in Statuses
    BY <1>3 DEF Wellformed
  <2>4. /\ j[i].type = "assistant" =>
             /\ i > 1
             /\ j[i - 1].type = "model.completed" /\ j[i - 1].status # "threw"
        /\ j[i].type = "model.completed" =>
             /\ i > 1 /\ j[i - 1].type = "model.started"
             /\ j[i].status \in Stops \cup {"threw"}
    BY <1>3 DEF Wellformed
  <2> QED BY <1>1, <1>2, <2>1, <2>2, <2>3, <2>4
<1>4. CASE i = n + 1
  <2>1. k[i] = e /\ i - 1 = n /\ \A a \in 1 .. n : k[a] = j[a]
    BY <1>1, <1>4
  <2> QED BY <1>1, <1>2, <1>4, <2>1 DEF Preceded
<1> QED BY <1>1, <1>3, <1>4

\* A run or a message ends what a final answer left open; nothing but another
\* final answer opens it.
LEMMA FollowedAppend ==
  ASSUME NEW j \in Seq(Event), NEW e \in Event
  PROVE  /\ e.type = "run.completed" \/ e.type \in {"user", "result"} => Followed(Append(j, e))
         /\ Followed(j) /\ ~(e.type = "assistant" /\ e.calls = <<>>) => Followed(Append(j, e))
<1> DEFINE k == Append(j, e)
           n == Len(j)
<1>1. k \in Seq(Event) /\ n \in Nat /\ Len(k) = n + 1 /\ k[n + 1] = e
      /\ \A i \in 1 .. n : k[i] = j[i]
  BY AppendIs
<1> HIDE DEF k
<1>2. ASSUME e.type = "run.completed" \/ e.type \in {"user", "result"}
      PROVE  Followed(k)
  <2> SUFFICES ASSUME NEW a \in 1 .. n + 1, k[a].type = "assistant"
               PROVE  \E i \in a + 1 .. n + 1 : k[i].type = "run.completed" \/ IsMessage(k[i])
    BY <1>1 DEF Followed
  <2>1. a \in 1 .. n /\ n + 1 \in a + 1 .. n + 1
    BY <1>1, <1>2
  <2> QED BY <1>1, <1>2, <2>1 DEF IsMessage
<1>3. ASSUME Followed(j), ~(e.type = "assistant" /\ e.calls = <<>>)
      PROVE  Followed(k)
  <2> SUFFICES ASSUME NEW a \in 1 .. n + 1, k[a].type = "assistant", k[a].calls = <<>>
               PROVE  \E i \in a + 1 .. n + 1 : k[i].type = "run.completed" \/ IsMessage(k[i])
    BY <1>1 DEF Followed
  <2>1. a \in 1 .. n
    BY <1>1, <1>3
  <2>2. PICK i \in a + 1 .. n : j[i].type = "run.completed" \/ IsMessage(j[i])
    BY <1>1, <1>3, <2>1 DEF Followed
  <2>3. i \in a + 1 .. n + 1 /\ k[i] = j[i]
    BY <1>1, <2>1, <2>2
  <2> QED BY <2>2, <2>3
<1> QED BY <1>2, <1>3 DEF k

\* An answer has seen everything until the model is called or mail arrives.
LEMMA EarnedAppend ==
  ASSUME NEW j \in Seq(Event), NEW e \in Event, NEW stop, Earned(j, stop),
         e.type \notin {"model.started", "model.completed", "user"}
  PROVE  Earned(Append(j, e), stop)
<1> DEFINE k == Append(j, e)
           n == Len(j)
<1>1. k \in Seq(Event) /\ n \in Nat /\ Len(k) = n + 1 /\ k[n + 1] = e
      /\ \A i \in 1 .. n : k[i] = j[i]
  BY AppendIs
<1> HIDE DEF k
<1>2. PICK d \in 2 .. n :
        /\ j[d - 1].type = "model.started"
        /\ j[d].type = "model.completed" /\ j[d].status = stop
        /\ \A i \in d + 1 .. n : j[i].type \notin {"model.started", "model.completed", "user"}
  BY DEF Earned
<1>3. d \in 2 .. n + 1 /\ k[d] = j[d] /\ k[d - 1] = j[d - 1]
  BY <1>1, <1>2
<1>4. ASSUME NEW i \in d + 1 .. n + 1
      PROVE  k[i].type \notin {"model.started", "model.completed", "user"}
  <2>1. (i \in d + 1 .. n /\ k[i] = j[i]) \/ k[i] = e
    BY <1>1, <1>2, <1>4
  <2> QED BY <1>2, <2>1
<1>5. Earned(k, stop)
  BY <1>1, <1>2, <1>3, <1>4 DEF Earned
<1> QED BY <1>5 DEF k

-----------------------------------------------------------------------------
(* The state of the model call.                                             *)

\* The events of some types.
OfType(j, types) == {i \in 1 .. Len(j) : j[i].type \in types}

\* No model call follows a final answer that nothing else followed.
NotReinvoked(j) ==
  \A i \in 1 .. Len(j) : \A a \in 1 .. (i - 1) :
    /\ j[i].type = "model.started"
    /\ j[a].type = "assistant" /\ j[a].calls = <<>>
    => \E k \in (a + 1) .. (i - 1) : j[k].type = "run.completed" \/ IsMessage(j[k])

\* The parts ModelState looks at: the open run segment starts after from; last
\* is its last model event, done its last completion, answer the first
\* assistant message after that.
Parts(j, from, last, done, answers, answer) ==
  LET end == Len(j)
  IN  /\ from \in 0 .. end /\ IsLast(from, OfType(j, {"run.completed"}))
      /\ last \in 0 .. end - from
      /\ IsLast(last, {i \in 1 .. end - from :
                         j[from + i].type \in {"model.started", "model.completed", "model.interrupted"}})
      /\ done \in 0 .. end - from
      /\ IsLast(done, {i \in 1 .. end - from : j[from + i].type = "model.completed"})
      /\ answers = {i \in done + 1 .. end - from : j[from + i].type = "assistant"}
      /\ answers # {} => answer \in answers /\ \A k \in answers : answer <= k

LEMMA ModelStateIs ==
  ASSUME NEW j \in Seq(Event)
  PROVE  LET s == ModelState(j)
         IN  \E from, last, done, answers, answer :
               /\ Parts(j, from, last, done, answers, answer)
               /\ s = [state |-> s.state, calls |-> <<>>, stop |-> s.stop]
               /\ \/ /\ last > 0 /\ j[from + last].type = "model.started"
                     /\ s.state = "dangling" /\ s.stop = "end"
                  \/ /\ ~(last > 0 /\ j[from + last].type = "model.started")
                     /\ (done = 0 \/ j[from + done].status = "threw")
                     /\ s.state = "clean" /\ s.stop = "end"
                  \/ /\ done # 0 /\ answers = {}
                     /\ s.state = "lost" /\ s.stop = "end"
                  \/ /\ done # 0 /\ j[from + done].status # "threw" /\ answers # {}
                     /\ j[from + answer].calls = <<>>
                     /\ \A i \in from + answer + 1 .. Len(j) : ~IsMessage(j[i])
                     /\ s.state = "finished" /\ s.stop = j[from + done].status
                  \/ /\ done # 0 /\ answers # {}
                     /\ \/ j[from + answer].calls # <<>>
                        \/ \E i \in from + answer + 1 .. Len(j) : IsMessage(j[i])
                     /\ s.state = "clean" /\ s.stop = "end"
<1> DEFINE from == LastWhere(j, LAMBDA e : e.type = "run.completed")
           seg == SubSeq(j, from + 1, Len(j))
           last == LastWhere(seg, LAMBDA e :
                     e.type \in {"model.started", "model.completed", "model.interrupted"})
           done == LastWhere(seg, LAMBDA e : e.type = "model.completed")
           answers == {i \in done + 1 .. Len(seg) : seg[i].type = "assistant"}
           answer == CHOOSE i \in answers : \A k \in answers : i <= k
           Plainly(state) == [state |-> state, calls |-> <<>>, stop |-> "end"]
<1>1. ModelState(j) =
        IF last > 0 /\ seg[last].type = "model.started" THEN Plainly("dangling")
        ELSE IF done = 0 \/ seg[done].status = "threw" THEN Plainly("clean")
        ELSE IF answers = {} THEN Plainly("lost")
        ELSE IF seg[answer].calls = <<>> /\ ~ContextAfter(seg, answer)
             THEN [Plainly("finished") EXCEPT !.stop = seg[done].status]
             ELSE Plainly("clean")
  BY DEF ModelState
<1> DEFINE end == Len(j)
           F == OfType(j, {"run.completed"})
<1>2. from \in 0 .. end /\ end \in Nat /\ IsLast(from, F)
  <2>1. from = IF F # {} THEN Max(F) ELSE 0
    <3>1. F = {i \in 1 .. Len(j) : j[i].type = "run.completed"}
      BY DEF OfType
    <3> QED BY <3>1 DEF LastWhere, SelectLastInSeq
  <2>2. F \in SUBSET (1 .. end) /\ end \in Nat
    BY DEF OfType
  <2> HIDE DEF from, F, end
  <2> QED BY <2>1, <2>2, LastIs
<1>3. /\ Len(seg) = end - from /\ end - from \in Nat /\ end \in Nat
      /\ \A i \in 1 .. end - from : seg[i] = j[from + i]
  <2> HIDE DEF from
  <2> QED BY <1>2
<1> HIDE DEF from, F, seg
<1> DEFINE L == {i \in 1 .. Len(seg) :
                   seg[i].type \in {"model.started", "model.completed", "model.interrupted"}}
           D == {i \in 1 .. Len(seg) : seg[i].type = "model.completed"}
<1>4. last \in 0 .. end - from /\ IsLast(last, L)
  <2>1. last = IF L # {} THEN Max(L) ELSE 0
    BY DEF LastWhere, SelectLastInSeq
  <2>2. L \in SUBSET (1 .. end - from)
    BY <1>3
  <2> HIDE DEF last, L, end
  <2> QED BY <1>3, <2>1, <2>2, LastIs
<1>5. done \in 0 .. end - from /\ IsLast(done, D)
  <2>1. done = IF D # {} THEN Max(D) ELSE 0
    BY DEF LastWhere, SelectLastInSeq
  <2>2. D \in SUBSET (1 .. end - from)
    BY <1>3
  <2> HIDE DEF done, D, end
  <2> QED BY <1>3, <2>1, <2>2, LastIs
<1> HIDE DEF last, done
<1>6. L = {i \in 1 .. end - from :
             j[from + i].type \in {"model.started", "model.completed", "model.interrupted"}}
      /\ D = {i \in 1 .. end - from : j[from + i].type = "model.completed"}
  BY <1>3
<1>7. answers = {i \in done + 1 .. end - from : j[from + i].type = "assistant"}
  <2>1. \A i \in done + 1 .. end - from : seg[i] = j[from + i]
    BY <1>3, <1>5
  <2> QED BY <1>3, <2>1
<1>8. answers # {} => answer \in answers /\ \A k \in answers : answer <= k
  <2>1. answers \in SUBSET Nat
    BY <1>3, <1>5
  <2> HIDE DEF answers
  <2> QED BY <2>1, NatLeast
<1>9. Parts(j, from, last, done, answers, answer)
  <2> HIDE DEF answers, answer, seg
  <2> QED BY <1>2, <1>4, <1>5, <1>6, <1>7, <1>8 DEF Parts, F
<1>10. /\ last > 0 => seg[last] = j[from + last]
       /\ done > 0 => seg[done] = j[from + done]
  <2>1. /\ last > 0 => last \in 1 .. end - from
        /\ done > 0 => done \in 1 .. end - from
    BY <1>3, <1>4, <1>5
  <2> QED BY <1>3, <2>1
<1>11. answers # {} =>
         /\ seg[answer] = j[from + answer]
         /\ ContextAfter(seg, answer) <=> \E i \in from + answer + 1 .. Len(j) : IsMessage(j[i])
  <2> SUFFICES ASSUME answers # {}
               PROVE  /\ seg[answer] = j[from + answer]
                      /\ ContextAfter(seg, answer) <=> \E i \in from + answer + 1 .. Len(j) : IsMessage(j[i])
    OBVIOUS
  <2>1. answer \in 1 .. end - from
    <3>1. \A i \in answers : i \in 1 .. end - from
      BY <1>3, <1>5, <1>7
    <3> HIDE DEF answers, answer
    <3> QED BY <1>8, <3>1
  <2> HIDE DEF answers, answer, seg
  <2>2. ContextAfter(seg, answer) <=> \E i \in answer + 1 .. end - from : IsMessage(j[from + i])
    BY <1>3, <2>1 DEF ContextAfter
  <2>3. ASSUME NEW i \in answer + 1 .. end - from, IsMessage(j[from + i])
        PROVE  \E m \in from + answer + 1 .. end : IsMessage(j[m])
    BY <1>2, <1>3, <2>1, <2>3
  <2>4. ASSUME NEW m \in from + answer + 1 .. end, IsMessage(j[m])
        PROVE  \E i \in answer + 1 .. end - from : IsMessage(j[from + i])
    <3>1. m - from \in answer + 1 .. end - from /\ from + (m - from) = m
      BY <1>2, <1>3, <2>1
    <3> QED BY <2>4, <3>1
  <2> QED BY <1>3, <2>1, <2>2, <2>3, <2>4
<1> HIDE DEF answers, answer, seg, end, L, D
<1> DEFINE s == ModelState(j)
<1>12. CASE last > 0 /\ seg[last].type = "model.started"
  <2>1. s = [state |-> s.state, calls |-> <<>>, stop |-> s.stop] /\ s.state = "dangling" /\ s.stop = "end"
    BY <1>1, <1>12
  <2> QED BY <1>9, <1>10, <1>12, <2>1
<1>13. CASE ~(last > 0 /\ seg[last].type = "model.started") /\ (done = 0 \/ seg[done].status = "threw")
  <2>1. s = [state |-> s.state, calls |-> <<>>, stop |-> s.stop] /\ s.state = "clean" /\ s.stop = "end"
    BY <1>1, <1>13
  <2>2. done = 0 \/ done > 0
    BY <1>5
  <2> HIDE DEF s
  <2> QED BY <1>9, <1>10, <1>13, <2>1, <2>2 DEF s
<1>14. CASE ~(last > 0 /\ seg[last].type = "model.started") /\ ~(done = 0 \/ seg[done].status = "threw")
  <2>0. done # 0 /\ done > 0
    BY <1>5, <1>14
  <2>1. CASE answers = {}
    <3>1. s = [state |-> s.state, calls |-> <<>>, stop |-> s.stop] /\ s.state = "lost" /\ s.stop = "end"
      BY <1>1, <1>14, <2>1
    <3> HIDE DEF s
    <3> QED BY <1>9, <2>0, <2>1, <3>1 DEF s
  <2>2. CASE answers # {} /\ seg[answer].calls = <<>> /\ ~ContextAfter(seg, answer)
    <3>1. s = [Plainly("finished") EXCEPT !.stop = seg[done].status]
      BY <1>1, <1>14, <2>2
    <3>2. s = [state |-> s.state, calls |-> <<>>, stop |-> s.stop] /\ s.state = "finished" /\ s.stop = seg[done].status
      BY <3>1
    <3> HIDE DEF s
    <3> QED BY <1>9, <1>10, <1>11, <1>14, <2>0, <2>2, <3>2 DEF s
  <2>3. CASE answers # {} /\ ~(seg[answer].calls = <<>> /\ ~ContextAfter(seg, answer))
    <3>1. s = Plainly("clean")
      BY <1>1, <1>14, <2>3
    <3>2. s = [state |-> s.state, calls |-> <<>>, stop |-> s.stop] /\ s.state = "clean" /\ s.stop = "end"
      BY <3>1
    <3> HIDE DEF s
    <3> QED BY <1>9, <1>11, <2>0, <2>3, <3>2 DEF s
  <2> QED BY <2>1, <2>2, <2>3
<1> QED BY <1>12, <1>13, <1>14

\* What ModelState returns is typed.
LEMMA ModelStateType ==
  ASSUME NEW j \in Seq(Event), Wellformed(j)
  PROVE  /\ ModelState(j) \in Answer
         /\ ModelState(j).state \in {"clean", "dangling", "lost", "finished"}
<1> DEFINE s == ModelState(j)
<1>1. PICK from, last, done, answers, answer :
        /\ Parts(j, from, last, done, answers, answer)
        /\ s = [state |-> s.state, calls |-> <<>>, stop |-> s.stop]
        /\ \/ s.state \in {"dangling", "clean", "lost"} /\ s.stop = "end"
           \/ /\ done # 0 /\ j[from + done].status # "threw"
              /\ s.state = "finished" /\ s.stop = j[from + done].status
  BY ModelStateIs
<1>2. s.stop \in Stops
  <2>1. CASE s.stop = "end"
    BY <2>1 DEF Stops
  <2>2. CASE done # 0 /\ j[from + done].status # "threw" /\ s.stop = j[from + done].status
    <3>1. from \in 0 .. Len(j) /\ done \in 1 .. Len(j) - from
          /\ IsLast(done, {i \in 1 .. Len(j) - from : j[from + i].type = "model.completed"})
      BY <1>1, <2>2 DEF Parts
    <3>2. j[from + done].type = "model.completed"
      BY <2>2, <3>1 DEF IsLast
    <3>3. from + done \in 1 .. Len(j)
      BY <3>1
    <3> QED BY <2>2, <3>2, <3>3 DEF Wellformed
  <2> QED BY <1>1, <2>1, <2>2
<1>3. s.state \in {"clean", "dangling", "lost", "finished"}
  BY <1>1
<1> HIDE DEF s
<1>4. s \in Answer
  <2>1. <<>> \in Seq(Calls)
    BY EmptySeq
  <2>2. PICK state, stop : /\ s = [state |-> state, calls |-> <<>>, stop |-> stop]
                           /\ state \in {"clean", "dangling", "lost", "finished"} /\ stop \in Stops
    BY <1>1, <1>2, <1>3
  <2> QED BY <2>1, <2>2 DEF Answer
<1> QED BY <1>3, <1>4 DEF s

\* A finished turn whose outcome was lost has earned it.
LEMMA FinishedEarned ==
  ASSUME NEW j \in Seq(Event), Wellformed(j), NotReinvoked(j), ModelState(j).state = "finished"
  PROVE  Earned(j, ModelState(j).stop)
<1>1. PICK from, last, done, answers, answer :
        /\ Parts(j, from, last, done, answers, answer)
        /\ done # 0 /\ j[from + done].status # "threw" /\ answers # {}
        /\ j[from + answer].calls = <<>>
        /\ \A i \in from + answer + 1 .. Len(j) : ~IsMessage(j[i])
        /\ ModelState(j).stop = j[from + done].status
  BY ModelStateIs
<1> DEFINE d == from + done
           a == from + answer
           n == Len(j)
<1>2. n \in Nat /\ from \in 0 .. n /\ done \in 1 .. n - from
  BY <1>1 DEF Parts
<1>3. answer \in done + 1 .. n - from /\ j[a].type = "assistant"
  BY <1>1 DEF Parts
<1>4. d \in Nat /\ a \in Nat /\ 1 <= d /\ d < a /\ a <= n /\ from < d
  BY <1>2, <1>3
<1>5. \A i \in 1 .. n - from : j[from + i].type = "model.completed" => i <= done
  BY <1>1 DEF Parts, IsLast
<1>6. \A i \in d + 1 .. n : j[i].type # "model.completed"
  <2> SUFFICES ASSUME NEW i \in d + 1 .. n, j[i].type = "model.completed" PROVE FALSE
    OBVIOUS
  <2>1. PICK m \in 1 .. n - from : from + m = i /\ m > done
    <3>1. i - from \in 1 .. n - from /\ from + (i - from) = i /\ i - from > done
      BY <1>2, <1>4
    <3> QED BY <3>1
  <2>2. m <= done
    BY <1>5, <2>1
  <2> QED BY <1>2, <2>1, <2>2
<1>7. j[d].type = "model.completed"
  <2>1. done \in {i \in 1 .. n - from : j[from + i].type = "model.completed"}
    BY <1>1, <1>2 DEF Parts, IsLast
  <2> QED BY <2>1
<1>8. \A i \in from + 1 .. n : j[i].type # "run.completed"
  <2> SUFFICES ASSUME NEW i \in from + 1 .. n, j[i].type = "run.completed" PROVE FALSE
    OBVIOUS
  <2>1. i \in OfType(j, {"run.completed"}) /\ IsLast(from, OfType(j, {"run.completed"}))
    BY <1>1, <1>2 DEF OfType, Parts
  <2>2. i <= from
    BY <2>1 DEF IsLast
  <2> QED BY <1>2, <2>2
<1> HIDE DEF d, a
<1>9. a - 1 = d
  <2>1. j[a - 1].type = "model.completed" /\ a - 1 \in 1 .. n
    BY <1>2, <1>3, <1>4 DEF Wellformed
  <2> QED BY <1>2, <1>4, <1>6, <2>1
<1>10. d > 1 /\ j[d - 1].type = "model.started"
  BY <1>2, <1>4, <1>7 DEF Wellformed
<1>11. ASSUME NEW k \in d + 1 .. n
       PROVE  j[k].type \notin {"model.started", "model.completed", "user"}
  <2>1. CASE k = a
    BY <1>3, <2>1
  <2>2. CASE k # a
    <3>1. k \in a + 1 .. n /\ k \in 1 .. n /\ a \in 1 .. k - 1
      BY <1>2, <1>4, <1>9, <2>2
    <3>2. ~IsMessage(j[k])
      BY <1>1, <3>1 DEF a
    <3>3. j[k].type # "model.started"
      <4> SUFFICES ASSUME j[k].type = "model.started" PROVE FALSE
        OBVIOUS
      <4>1. j[a].calls = <<>>
        BY <1>1 DEF a
      <4>2. PICK i \in a + 1 .. k - 1 : j[i].type = "run.completed" \/ IsMessage(j[i])
        BY <1>3, <3>1, <4>1 DEF NotReinvoked
      <4>3. i \in a + 1 .. n /\ i \in from + 1 .. n
        BY <1>2, <1>4, <3>1
      <4> QED BY <1>1, <1>8, <4>2, <4>3 DEF a
    <3> QED BY <1>6, <3>2, <3>3 DEF IsMessage
  <2> QED BY <2>1, <2>2
<1>12. ModelState(j).stop = j[d].status
  BY <1>1 DEF d
<1> QED BY <1>2, <1>4, <1>7, <1>10, <1>11, <1>12 DEF Earned

\* A final answer that nothing followed is found as a finished turn.
LEMMA UnfollowedFinished ==
  ASSUME NEW j \in Seq(Event), Wellformed(j), NotReinvoked(j),
         ModelState(j).state # "finished"
  PROVE  Followed(j)
<1> DEFINE n == Len(j)
<1> SUFFICES ASSUME NEW a \in 1 .. n, j[a].type = "assistant", j[a].calls = <<>>,
                    \A k \in a + 1 .. n : j[k].type # "run.completed" /\ ~IsMessage(j[k])
             PROVE  FALSE
  BY DEF Followed
<1>1. n \in Nat
  OBVIOUS
<1>2. a > 1 /\ j[a - 1].type = "model.completed" /\ j[a - 1].status # "threw"
  BY DEF Wellformed
<1>3. \A i \in a + 1 .. n : j[i].type # "model.started"
  <2> SUFFICES ASSUME NEW i \in a + 1 .. n, j[i].type = "model.started" PROVE FALSE
    OBVIOUS
  <2>1. i \in 1 .. n /\ a \in 1 .. i - 1
    BY <1>1
  <2>2. PICK k \in a + 1 .. i - 1 : j[k].type = "run.completed" \/ IsMessage(j[k])
    BY <2>1 DEF NotReinvoked
  <2>3. k \in a + 1 .. n
    BY <1>1, <2>1
  <2> QED BY <2>2, <2>3
<1>4. \A i \in a .. n : j[i].type # "model.completed"
  <2> SUFFICES ASSUME NEW i \in a .. n, j[i].type = "model.completed" PROVE FALSE
    OBVIOUS
  <2>1. i \in a + 1 .. n
    BY <1>1
  <2>2. j[i - 1].type = "model.started"
    BY <1>1, <2>1 DEF Wellformed
  <2>3. i - 1 = a \/ i - 1 \in a + 1 .. n
    BY <1>1, <2>1
  <2> QED BY <1>3, <2>2, <2>3
<1>5. PICK from, last, done, answers, answer :
        /\ Parts(j, from, last, done, answers, answer)
        /\ \/ last > 0 /\ j[from + last].type = "model.started"
           \/ done = 0 \/ j[from + done].status = "threw"
           \/ answers = {}
           \/ /\ answers # {}
              /\ \/ j[from + answer].calls # <<>>
                 \/ \E i \in from + answer + 1 .. Len(j) : IsMessage(j[i])
  BY ModelStateIs
<1>6. from \in 0 .. n /\ last \in 0 .. n - from /\ done \in 0 .. n - from
  BY <1>5 DEF Parts
<1>7. from < a - 1
  <2>1. CASE from = 0
    BY <1>2, <2>1
  <2>2. CASE from # 0
    <3>1. from \in 1 .. n /\ j[from].type = "run.completed"
      BY <1>5, <1>6, <2>2 DEF Parts, IsLast, OfType
    <3>2. from \notin a + 1 .. n /\ from # a /\ from # a - 1
      BY <1>2, <3>1
    <3> QED BY <1>1, <3>1, <3>2
  <2> QED BY <2>1, <2>2
<1>8. from + done = a - 1 /\ done > 0
  <2> DEFINE D == {i \in 1 .. n - from : j[from + i].type = "model.completed"}
  <2>0. IsLast(done, D)
    BY <1>5 DEF Parts
  <2>1. a - 1 - from \in D
    <3>1. a - 1 - from \in 1 .. n - from /\ from + (a - 1 - from) = a - 1
      BY <1>1, <1>6, <1>7
    <3> QED BY <1>2, <3>1
  <2>2. done \in D /\ a - 1 - from <= done
    BY <2>0, <2>1 DEF IsLast
  <2>3. j[from + done].type = "model.completed" /\ from + done \in 1 .. n
    BY <1>1, <1>6, <2>2
  <2>4. ~(from + done \in a .. n)
    BY <1>4, <2>3
  <2> HIDE DEF D
  <2> QED BY <1>1, <1>6, <1>7, <2>2, <2>3, <2>4
<1>9. ~(last > 0 /\ j[from + last].type = "model.started")
  <2> SUFFICES ASSUME last > 0, j[from + last].type = "model.started" PROVE FALSE
    OBVIOUS
  <2> DEFINE L == {i \in 1 .. n - from :
                     j[from + i].type \in {"model.started", "model.completed", "model.interrupted"}}
  <2>0. IsLast(last, L)
    BY <1>5 DEF Parts
  <2>1. done \in L
    BY <1>2, <1>6, <1>8
  <2>2. done <= last
    BY <2>0, <2>1 DEF IsLast
  <2>3. from + last \in a - 1 .. n
    BY <1>1, <1>2, <1>6, <1>8, <2>2
  <2>4. from + last = a - 1 \/ from + last = a \/ from + last \in a + 1 .. n
    BY <1>1, <2>3
  <2> QED BY <1>2, <1>3, <2>4
<1>10. a - from \in answers /\ answer = a - from
  <2>1. answers = {i \in done + 1 .. n - from : j[from + i].type = "assistant"}
    BY <1>5 DEF Parts
  <2>2. a - from \in done + 1 .. n - from /\ from + (a - from) = a
    BY <1>1, <1>6, <1>8
  <2>3. a - from \in answers
    BY <2>1, <2>2
  <2>4. answer \in answers /\ answer <= a - from
    BY <1>5, <2>3 DEF Parts
  <2>5. answer \in done + 1 .. n - from
    BY <2>1, <2>4
  <2> QED BY <1>1, <1>6, <1>8, <2>3, <2>4, <2>5
<1>11. from + answer = a
  BY <1>6, <1>10
<1> QED BY <1>2, <1>5, <1>8, <1>9, <1>10, <1>11

-----------------------------------------------------------------------------
(* The actions to repair.                                                   *)

\* Three sequences of tasks one after the other.
LEMMA TasksJoined ==
  ASSUME NEW A \in Seq(Task), NEW B \in Seq(Task), NEW C \in Seq(Task)
  PROVE  LET t == A \o B \o C
         IN  /\ t \in Seq(Task)
             /\ Len(t) = Len(A) + Len(B) + Len(C)
             /\ \A i \in 1 .. Len(A) : t[i] = A[i]
             /\ \A i \in 1 .. Len(B) : t[Len(A) + i] = B[i]
             /\ \A i \in 1 .. Len(C) : t[Len(A) + Len(B) + i] = C[i]
             /\ \A i \in 1 .. Len(t) :
                  \/ i \in 1 .. Len(A)
                  \/ \E k \in 1 .. Len(B) : i = Len(A) + k
                  \/ \E k \in 1 .. Len(C) : i = Len(A) + Len(B) + k
<1> DEFINE D == A \o B
           t == D \o C
<1>1. D \in Seq(Task) /\ Len(D) = Len(A) + Len(B)
  OBVIOUS
<1>2. /\ \A i \in 1 .. Len(A) : D[i] = A[i]
      /\ \A i \in 1 .. Len(B) : D[Len(A) + i] = B[i]
  OBVIOUS
<1>3. Len(A) \in Nat /\ Len(B) \in Nat /\ Len(C) \in Nat
  OBVIOUS
<1> HIDE DEF D
<1>4. t \in Seq(Task) /\ Len(t) = Len(D) + Len(C)
  BY <1>1, ConcatProperties
<1>5. /\ \A i \in 1 .. Len(D) : t[i] = D[i]
      /\ \A i \in 1 .. Len(C) : t[Len(D) + i] = C[i]
  <2> DEFINE S == Seq(Task)
  <2>1. D \in S /\ C \in S
    BY <1>1
  <2> QED BY <2>1
<1> HIDE DEF t
<1>6. \A i \in 1 .. Len(A) : t[i] = A[i]
  BY <1>1, <1>2, <1>3, <1>5
<1>7. \A i \in 1 .. Len(B) : t[Len(A) + i] = B[i]
  <2> TAKE i \in 1 .. Len(B)
  <2>1. Len(A) + i \in 1 .. Len(D)
    BY <1>1, <1>3
  <2> QED BY <1>2, <1>5, <2>1
<1>8. \A i \in 1 .. Len(C) : t[Len(A) + Len(B) + i] = C[i]
  BY <1>1, <1>5
<1>9. ASSUME NEW i \in 1 .. Len(t)
      PROVE  \/ i \in 1 .. Len(A)
             \/ \E k \in 1 .. Len(B) : i = Len(A) + k
             \/ \E k \in 1 .. Len(C) : i = Len(A) + Len(B) + k
  <2>1. CASE i > Len(A) + Len(B)
    <3>1. i - Len(A) - Len(B) \in 1 .. Len(C) /\ i = Len(A) + Len(B) + (i - Len(A) - Len(B))
      BY <1>1, <1>3, <1>4, <2>1
    <3> QED BY <3>1
  <2>2. CASE i > Len(A) /\ i <= Len(A) + Len(B)
    <3>1. i - Len(A) \in 1 .. Len(B) /\ i = Len(A) + (i - Len(A))
      BY <1>1, <1>3, <1>4, <2>2
    <3> QED BY <3>1
  <2>3. CASE i <= Len(A)
    BY <1>1, <1>3, <1>4, <2>3
  <2> QED BY <1>1, <1>3, <1>4, <2>1, <2>2, <2>3
<1> QED BY <1>1, <1>3, <1>4, <1>6, <1>7, <1>8, <1>9 DEF t, D

\* The positions of the three lists are finitely many.
LEMMA RepairFinite ==
  ASSUME NEW j \in Seq(Event)
  PROVE  /\ Missing(j) \X {0} \in SUBSET (Nat \X Nat) /\ IsFiniteSet(Missing(j) \X {0})
         /\ Interrupted(j) \X {0} \in SUBSET (Nat \X Nat) /\ IsFiniteSet(Interrupted(j) \X {0})
         /\ NeverStarted(j) \in SUBSET (Nat \X Nat) /\ IsFiniteSet(NeverStarted(j))
         /\ \A x \in NeverStarted(j) : x[1] \in 1 .. Len(j) /\ x[2] \in 1 .. Len(j[x[1]].calls)
<1> DEFINE n == Len(j)
           At == [i \in 1 .. n |-> {i} \X DOMAIN j[i].calls]
           T == {At[i] : i \in 1 .. n}
<1>0. n \in Nat /\ IsFiniteSet(1 .. n) /\ IsFiniteSet({0})
  <2>1. IsFiniteSet({0})
    BY FS_Singleton, Zenon
  <2>2. n \in Nat /\ IsFiniteSet(1 .. n)
    BY FS_Interval
  <2> QED BY <2>1, <2>2
<1>1. Missing(j) \in SUBSET (1 .. n) /\ Interrupted(j) \in SUBSET (1 .. n)
  BY DEF Missing, Interrupted, Starts
<1>2. IsFiniteSet(Missing(j) \X {0}) /\ IsFiniteSet(Interrupted(j) \X {0})
  BY <1>0, <1>1, FS_Subset, FS_Product
<1>3. \A i \in 1 .. n : j[i].calls \in Seq(Calls)
  <2>1. \A i \in 1 .. n : j[i] \in Event
    OBVIOUS
  <2> QED BY <2>1 DEF Event
<1>4. \A i \in 1 .. n : DOMAIN j[i].calls = 1 .. Len(j[i].calls) /\ Len(j[i].calls) \in Nat
  BY <1>3
<1>5. IsFiniteSet(T)
  <2>1. At \in Surjection(1 .. n, T)
    <3> DEFINE R == 1 .. n
    <3> HIDE DEF R
    <3>1. At = [i \in R |-> {i} \X DOMAIN j[i].calls] /\ T = {At[i] : i \in R}
      BY DEF R
    <3> HIDE DEF At, T
    <3>2. At \in Surjection(R, T)
      BY <3>1 DEF Surjection
    <3> QED BY <3>2 DEF R
  <2> HIDE DEF At, T
  <2> QED BY <1>0, <2>1, FS_Surjection
<1>6. \A i \in 1 .. n : IsFiniteSet({i} \X DOMAIN j[i].calls)
  <2> TAKE i \in 1 .. n
  <2>1. IsFiniteSet({i}) /\ IsFiniteSet(1 .. Len(j[i].calls))
    <3>1. IsFiniteSet({i})
      BY FS_Singleton, Zenon
    <3>2. PICK m \in Nat : m = Len(j[i].calls)
      BY <1>4
    <3>3. IsFiniteSet(1 .. m)
      BY FS_Interval
    <3>4. IsFiniteSet(1 .. Len(j[i].calls))
      BY <3>2, <3>3
    <3> QED BY <3>1, <3>4
  <2>2. IsFiniteSet({i} \X (1 .. Len(j[i].calls)))
    BY <2>1, FS_Product
  <2> QED BY <1>4, <2>2
<1>7. IsFiniteSet(UNION T)
  <2>1. \A t \in T : IsFiniteSet(t)
    BY <1>6
  <2> HIDE DEF T
  <2> QED BY <1>5, <2>1, FS_UNION
<1>8. NeverStarted(j) \in SUBSET (UNION T)
  BY DEF NeverStarted
<1>9. \A x \in UNION T : x \in Nat \X Nat /\ x[1] \in 1 .. n /\ x[2] \in DOMAIN j[x[1]].calls
  <2> SUFFICES ASSUME NEW i \in 1 .. n, NEW x \in {i} \X DOMAIN j[i].calls
               PROVE  x \in Nat \X Nat /\ x[1] \in 1 .. n /\ x[2] \in DOMAIN j[x[1]].calls
    OBVIOUS
  <2>1. x[1] = i /\ x[2] \in DOMAIN j[i].calls /\ x = <<x[1], x[2]>>
    OBVIOUS
  <2>2. x[2] \in Nat
    BY <1>4, <2>1
  <2> QED BY <2>1, <2>2
<1>10. IsFiniteSet(NeverStarted(j))
  <2> HIDE DEF T
  <2> QED BY <1>7, <1>8, FS_Subset
<1>11. Missing(j) \X {0} \in SUBSET (Nat \X Nat) /\ Interrupted(j) \X {0} \in SUBSET (Nat \X Nat)
  BY <1>0, <1>1
<1>12. \A x \in NeverStarted(j) : x \in Nat \X Nat /\ x[1] \in 1 .. n /\ x[2] \in 1 .. Len(j[x[1]].calls)
  <2> HIDE DEF T
  <2> QED BY <1>4, <1>8, <1>9
<1> QED BY <1>2, <1>10, <1>11, <1>12

\* What stands at a position of the list of actions to repair.
TaskIs(j, t) ==
  \/ /\ t.stage = "done" /\ t.inv \in Missing(j)
     /\ t.call = j[t.inv].call /\ t.status = ReceiptOf(j, t.inv)
  \/ /\ t.stage = "unresolved" /\ t.inv \in Interrupted(j)
     /\ t.call = j[t.inv].call
  \/ /\ t.stage = "unstarted" /\ t.inv = 0
     /\ \E x \in NeverStarted(j) : t.call = j[x[1]].calls[x[2]]

\* The status a receipt leaves.
LEMMA ReceiptType ==
  ASSUME NEW j \in Seq(Event), Wellformed(j), NEW inv
  PROVE  ReceiptOf(j, inv) \in Statuses \cup {""}
<1>1. CASE ReceiptsOf(j, inv) = {} /\ ReceiptOf(j, inv) = ""
  BY <1>1
<1>2. CASE \E i \in ReceiptsOf(j, inv) : ReceiptOf(j, inv) = j[i].status
  <2>1. PICK i \in ReceiptsOf(j, inv) : ReceiptOf(j, inv) = j[i].status
    BY <1>2
  <2>2. j[i].status \in Statuses
    BY <2>1 DEF ReceiptsOf, Wellformed
  <2> QED BY <2>1, <2>2
<1> QED BY <1>1, <1>2, ReceiptIs

\* ActionsToRepair lists every action that is not closed, once.
LEMMA RepairIs ==
  ASSUME NEW j \in Seq(Event), Wellformed(j)
  PROVE  LET t == ActionsToRepair(j)
         IN  /\ t \in Seq(Task)
             /\ \A i \in 1 .. Len(t) : TaskIs(j, t[i])
             /\ \A i, k \in 1 .. Len(t) : t[i].inv = t[k].inv /\ t[i].inv # 0 => i = k
             /\ \A n \in Missing(j) \cup Interrupted(j) : \E i \in 1 .. Len(t) : t[i].inv = n
             /\ \A x \in NeverStarted(j) : \E i \in 1 .. Len(t) :
                  t[i].stage = "unstarted" /\ t[i].call = j[x[1]].calls[x[2]]
             /\ \A i, k \in 1 .. Len(t) :
                  t[i].stage = "unstarted" /\ t[k].stage = "unstarted" /\ i # k =>
                    \E x, y \in NeverStarted(j) :
                      /\ x # y
                      /\ t[i].call = j[x[1]].calls[x[2]] /\ t[k].call = j[y[1]].calls[y[2]]
<1> DEFINE M == InOrder(Missing(j) \X {0})
           I == InOrder(Interrupted(j) \X {0})
           U == InOrder(NeverStarted(j))
           m == Cardinality(Missing(j) \X {0})
           r == Cardinality(Interrupted(j) \X {0})
           u == Cardinality(NeverStarted(j))
           TaskAt(stage, i) == [stage |-> stage, call |-> j[i].call, inv |-> i,
                                status |-> ReceiptOf(j, i)]
           A == [k \in DOMAIN M |-> TaskAt("done", M[k][1])]
           B == [k \in DOMAIN I |-> TaskAt("unresolved", I[k][1])]
           C == [k \in DOMAIN U |-> NewTask(j[U[k][1]].calls[U[k][2]])]
           t == A \o B \o C
<1>0. ActionsToRepair(j) = t
  BY DEF ActionsToRepair
<1>1. /\ m \in Nat /\ M \in [1 .. m -> Missing(j) \X {0}]
      /\ \A a, b \in 1 .. m : M[a] = M[b] => a = b
      /\ \A x \in Missing(j) \X {0} : \E n \in 1 .. m : M[n] = x
  <2> DEFINE S == Missing(j) \X {0}
  <2>1. S \in SUBSET (Nat \X Nat) /\ IsFiniteSet(S)
    BY RepairFinite
  <2> HIDE DEF S
  <2>2. /\ Cardinality(S) \in Nat
        /\ InOrder(S) \in [1 .. Cardinality(S) -> S]
        /\ \A a, b \in 1 .. Cardinality(S) : InOrder(S)[a] = InOrder(S)[b] => a = b
        /\ \A x \in S : \E n \in 1 .. Cardinality(S) : InOrder(S)[n] = x
    BY <2>1, InOrderLists
  <2> QED BY <2>2 DEF S
<1>2. /\ r \in Nat /\ I \in [1 .. r -> Interrupted(j) \X {0}]
      /\ \A a, b \in 1 .. r : I[a] = I[b] => a = b
      /\ \A x \in Interrupted(j) \X {0} : \E n \in 1 .. r : I[n] = x
  <2> DEFINE S == Interrupted(j) \X {0}
  <2>1. S \in SUBSET (Nat \X Nat) /\ IsFiniteSet(S)
    BY RepairFinite
  <2> HIDE DEF S
  <2>2. /\ Cardinality(S) \in Nat
        /\ InOrder(S) \in [1 .. Cardinality(S) -> S]
        /\ \A a, b \in 1 .. Cardinality(S) : InOrder(S)[a] = InOrder(S)[b] => a = b
        /\ \A x \in S : \E n \in 1 .. Cardinality(S) : InOrder(S)[n] = x
    BY <2>1, InOrderLists
  <2> QED BY <2>2 DEF S
<1>3. /\ u \in Nat /\ U \in [1 .. u -> NeverStarted(j)]
      /\ \A a, b \in 1 .. u : U[a] = U[b] => a = b
      /\ \A x \in NeverStarted(j) : \E n \in 1 .. u : U[n] = x
  <2> DEFINE S == NeverStarted(j)
  <2>1. S \in SUBSET (Nat \X Nat) /\ IsFiniteSet(S)
    BY RepairFinite
  <2> HIDE DEF S
  <2>2. /\ Cardinality(S) \in Nat
        /\ InOrder(S) \in [1 .. Cardinality(S) -> S]
        /\ \A a, b \in 1 .. Cardinality(S) : InOrder(S)[a] = InOrder(S)[b] => a = b
        /\ \A x \in S : \E n \in 1 .. Cardinality(S) : InOrder(S)[n] = x
    BY <2>1, InOrderLists
  <2> QED BY <2>2 DEF S
<1>4. \A n \in Starts(j) : /\ n \in 1 .. Len(j) /\ n # 0 /\ n \in Nat
                           /\ j[n].call \in Calls /\ ReceiptOf(j, n) \in Statuses \cup {""}
  <2>1. \A n : ReceiptOf(j, n) \in Statuses \cup {""}
    BY ReceiptType
  <2>2. \A n \in Starts(j) : n \in 1 .. Len(j) /\ j[n].call \in Calls
    BY DEF Starts, Wellformed
  <2>3. \A n \in 1 .. Len(j) : n # 0 /\ n \in Nat
    OBVIOUS
  <2> QED BY <2>1, <2>2, <2>3
<1>5. \A x \in NeverStarted(j) : j[x[1]].calls[x[2]] \in Calls
  <2> TAKE x \in NeverStarted(j)
  <2>1. x[1] \in 1 .. Len(j) /\ x[2] \in 1 .. Len(j[x[1]].calls)
    BY RepairFinite
  <2>2. j[x[1]] \in Event
    BY <2>1
  <2>3. j[x[1]].calls \in Seq(Calls)
    BY <2>2 DEF Event
  <2> QED BY <2>1, <2>3
<1>6. Missing(j) \subseteq Starts(j) /\ Interrupted(j) \subseteq Starts(j)
  BY DEF Missing, Interrupted
<1> HIDE DEF M, I, U, m, r, u
<1>7. \A k \in 1 .. m : M[k][1] \in Missing(j) /\ M[k] = <<M[k][1], 0>>
  BY <1>1
<1>8. \A k \in 1 .. r : I[k][1] \in Interrupted(j) /\ I[k] = <<I[k][1], 0>>
  BY <1>2
<1>9. \A i \in Starts(j) : TaskAt("done", i) \in Task /\ TaskAt("unresolved", i) \in Task
  BY <1>4 DEF Task
<1>10. \A x \in NeverStarted(j) : NewTask(j[x[1]].calls[x[2]]) \in Task
  BY <1>5 DEF Task, NewTask
<1>11. A \in Seq(Task) /\ Len(A) = m /\ \A k \in 1 .. m : A[k] = TaskAt("done", M[k][1])
  <2>1. \A k \in 1 .. m : TaskAt("done", M[k][1]) \in Task
    BY <1>6, <1>7, <1>9
  <2> HIDE DEF TaskAt
  <2>2. A = [k \in 1 .. m |-> TaskAt("done", M[k][1])]
    BY <1>1
  <2> HIDE DEF A
  <2> QED BY <1>1, <2>1, <2>2
<1>12. B \in Seq(Task) /\ Len(B) = r /\ \A k \in 1 .. r : B[k] = TaskAt("unresolved", I[k][1])
  <2>1. \A k \in 1 .. r : TaskAt("unresolved", I[k][1]) \in Task
    BY <1>6, <1>8, <1>9
  <2> HIDE DEF TaskAt
  <2>2. B = [k \in 1 .. r |-> TaskAt("unresolved", I[k][1])]
    BY <1>2
  <2> HIDE DEF B
  <2> QED BY <1>2, <2>1, <2>2
<1>13. C \in Seq(Task) /\ Len(C) = u /\ \A k \in 1 .. u : C[k] = NewTask(j[U[k][1]].calls[U[k][2]])
  <2>1. \A k \in 1 .. u : U[k] \in NeverStarted(j)
    BY <1>3
  <2>2. \A k \in 1 .. u : NewTask(j[U[k][1]].calls[U[k][2]]) \in Task
    BY <1>10, <2>1
  <2>3. C = [k \in 1 .. u |-> NewTask(j[U[k][1]].calls[U[k][2]])]
    BY <1>3
  <2> HIDE DEF C
  <2> QED BY <1>3, <2>2, <2>3
<1>14. /\ \A k \in 1 .. m : /\ A[k].stage = "done" /\ A[k].inv = M[k][1]
                            /\ A[k].call = j[M[k][1]].call /\ A[k].status = ReceiptOf(j, M[k][1])
       /\ \A k \in 1 .. r : /\ B[k].stage = "unresolved" /\ B[k].inv = I[k][1]
                            /\ B[k].call = j[I[k][1]].call
       /\ \A k \in 1 .. u : /\ C[k].stage = "unstarted" /\ C[k].inv = 0
                            /\ C[k].call = j[U[k][1]].calls[U[k][2]]
  <2> HIDE DEF A, B, C
  <2>1. \A k \in 1 .. m : A[k] = TaskAt("done", M[k][1])
    BY <1>11
  <2>2. \A k \in 1 .. r : B[k] = TaskAt("unresolved", I[k][1])
    BY <1>12
  <2>3. \A k \in 1 .. u : C[k] = NewTask(j[U[k][1]].calls[U[k][2]])
    BY <1>13
  <2>4. \A stage, i : /\ TaskAt(stage, i).stage = stage /\ TaskAt(stage, i).inv = i
                      /\ TaskAt(stage, i).call = j[i].call
                      /\ TaskAt(stage, i).status = ReceiptOf(j, i)
    OBVIOUS
  <2>5. \A c : NewTask(c).stage = "unstarted" /\ NewTask(c).inv = 0 /\ NewTask(c).call = c
    BY DEF NewTask
  <2> HIDE DEF TaskAt
  <2> QED BY <2>1, <2>2, <2>3, <2>4, <2>5
<1> HIDE DEF A, B, C
<1>15. /\ t \in Seq(Task)
       /\ Len(t) = m + r + u
       /\ \A i \in 1 .. m : t[i] = A[i]
       /\ \A i \in 1 .. r : t[m + i] = B[i]
       /\ \A i \in 1 .. u : t[m + r + i] = C[i]
       /\ \A i \in 1 .. Len(t) :
            \/ i \in 1 .. m
            \/ \E k \in 1 .. r : i = m + k
            \/ \E k \in 1 .. u : i = m + r + k
  <2>1. /\ t \in Seq(Task)
        /\ Len(t) = Len(A) + Len(B) + Len(C)
        /\ \A i \in 1 .. Len(A) : t[i] = A[i]
        /\ \A i \in 1 .. Len(B) : t[Len(A) + i] = B[i]
        /\ \A i \in 1 .. Len(C) : t[Len(A) + Len(B) + i] = C[i]
        /\ \A i \in 1 .. Len(t) :
             \/ i \in 1 .. Len(A)
             \/ \E k \in 1 .. Len(B) : i = Len(A) + k
             \/ \E k \in 1 .. Len(C) : i = Len(A) + Len(B) + k
    BY <1>11, <1>12, <1>13, TasksJoined
  <2> HIDE DEF t
  <2> QED BY <1>11, <1>12, <1>13, <2>1
<1> HIDE DEF t
\* The three cases of a position.
<1>16. ASSUME NEW i \in 1 .. Len(t)
       PROVE  \/ \E k \in 1 .. m : i = k /\ t[i].stage = "done" /\ t[i].inv = M[k][1]
              \/ \E k \in 1 .. r : i = m + k /\ t[i].stage = "unresolved" /\ t[i].inv = I[k][1]
              \/ \E k \in 1 .. u : /\ i = m + r + k /\ t[i].stage = "unstarted" /\ t[i].inv = 0
                                   /\ t[i].call = j[U[k][1]].calls[U[k][2]]
  <2>1. CASE i \in 1 .. m
    <3>1. t[i] = A[i]
      BY <1>15, <2>1
    <3> QED BY <1>14, <2>1, <3>1
  <2>2. CASE \E k \in 1 .. r : i = m + k
    <3>1. PICK k \in 1 .. r : i = m + k
      BY <2>2
    <3>2. t[i] = B[k]
      BY <1>15, <3>1
    <3> QED BY <1>14, <3>1, <3>2
  <2>3. CASE \E k \in 1 .. u : i = m + r + k
    <3>1. PICK k \in 1 .. u : i = m + r + k
      BY <2>3
    <3>2. t[i] = C[k]
      BY <1>15, <3>1
    <3> QED BY <1>14, <3>1, <3>2
  <2> QED BY <1>15, <2>1, <2>2, <2>3
<1>17. \A i \in 1 .. Len(t) : TaskIs(j, t[i])
  <2> TAKE i \in 1 .. Len(t)
  <2>1. CASE i \in 1 .. m
    <3>1. t[i] = A[i] /\ M[i][1] \in Missing(j)
      BY <1>7, <1>15, <2>1
    <3> QED BY <1>14, <2>1, <3>1 DEF TaskIs
  <2>2. CASE \E k \in 1 .. r : i = m + k
    <3>1. PICK k \in 1 .. r : i = m + k
      BY <2>2
    <3>2. t[i] = B[k] /\ I[k][1] \in Interrupted(j)
      BY <1>8, <1>15, <3>1
    <3> QED BY <1>14, <3>2 DEF TaskIs
  <2>3. CASE \E k \in 1 .. u : i = m + r + k
    <3>1. PICK k \in 1 .. u : i = m + r + k
      BY <2>3
    <3>2. t[i] = C[k] /\ U[k] \in NeverStarted(j)
      BY <1>3, <1>15, <3>1
    <3> QED BY <1>14, <3>2 DEF TaskIs
  <2> QED BY <1>15, <2>1, <2>2, <2>3
<1>18. \A x \in Missing(j) : x \notin Interrupted(j) /\ x # 0
  BY <1>4, <1>6 DEF Missing, Interrupted, Unresolved
<1>19. \A x \in Interrupted(j) : x # 0
  BY <1>4, <1>6
<1>20. ASSUME NEW i \in 1 .. Len(t), NEW k \in 1 .. Len(t), t[i].inv = t[k].inv, t[i].inv # 0
       PROVE  i = k
  <2>1. CASE \E a \in 1 .. m : i = a /\ t[i].inv = M[a][1]
    <3>1. PICK a \in 1 .. m : i = a /\ t[i].inv = M[a][1]
      BY <2>1
    <3>2. t[i].inv \in Missing(j)
      BY <1>7, <3>1
    <3>3. PICK b \in 1 .. m : k = b /\ t[k].inv = M[b][1]
      BY <1>8, <1>16, <1>18, <1>20, <3>2
    <3>4. M[a] = M[b]
      BY <1>7, <1>20, <3>1, <3>3
    <3> QED BY <1>1, <3>1, <3>3, <3>4
  <2>2. CASE \E a \in 1 .. r : i = m + a /\ t[i].inv = I[a][1]
    <3>1. PICK a \in 1 .. r : i = m + a /\ t[i].inv = I[a][1]
      BY <2>2
    <3>2. t[i].inv \in Interrupted(j)
      BY <1>8, <3>1
    <3>3. PICK b \in 1 .. r : k = m + b /\ t[k].inv = I[b][1]
      BY <1>7, <1>16, <1>18, <1>20, <3>2
    <3>4. I[a] = I[b]
      BY <1>8, <1>20, <3>1, <3>3
    <3> QED BY <1>2, <3>1, <3>3, <3>4
  <2> QED BY <1>16, <1>20, <2>1, <2>2
<1>21. \A n \in Missing(j) \cup Interrupted(j) : \E i \in 1 .. Len(t) : t[i].inv = n
  <2>1. ASSUME NEW n \in Missing(j)
        PROVE  \E i \in 1 .. Len(t) : t[i].inv = n
    <3>1. <<n, 0>> \in Missing(j) \X {0}
      OBVIOUS
    <3>2. PICK k \in 1 .. m : M[k] = <<n, 0>>
      BY <1>1, <3>1
    <3>3. k \in 1 .. Len(t) /\ t[k] = A[k]
      BY <1>1, <1>2, <1>3, <1>15
    <3> QED BY <1>14, <3>2, <3>3
  <2>2. ASSUME NEW n \in Interrupted(j)
        PROVE  \E i \in 1 .. Len(t) : t[i].inv = n
    <3>1. <<n, 0>> \in Interrupted(j) \X {0}
      OBVIOUS
    <3>2. PICK k \in 1 .. r : I[k] = <<n, 0>>
      BY <1>2, <3>1
    <3>3. m + k \in 1 .. Len(t) /\ t[m + k] = B[k]
      BY <1>1, <1>2, <1>3, <1>15
    <3> QED BY <1>14, <3>2, <3>3
  <2> QED BY <2>1, <2>2
<1>22. ASSUME NEW x \in NeverStarted(j)
       PROVE  \E i \in 1 .. Len(t) : t[i].stage = "unstarted" /\ t[i].call = j[x[1]].calls[x[2]]
  <2>1. PICK k \in 1 .. u : U[k] = x
    BY <1>3
  <2>2. m + r + k \in 1 .. Len(t) /\ t[m + r + k] = C[k]
    BY <1>1, <1>2, <1>3, <1>15
  <2> QED BY <1>14, <2>1, <2>2
<1>23. ASSUME NEW i \in 1 .. Len(t), NEW k \in 1 .. Len(t), i # k,
              t[i].stage = "unstarted", t[k].stage = "unstarted"
       PROVE  \E x, y \in NeverStarted(j) :
                /\ x # y
                /\ t[i].call = j[x[1]].calls[x[2]] /\ t[k].call = j[y[1]].calls[y[2]]
  <2>1. PICK a \in 1 .. u : i = m + r + a /\ t[i].call = j[U[a][1]].calls[U[a][2]]
    BY <1>16, <1>23
  <2>2. PICK b \in 1 .. u : k = m + r + b /\ t[k].call = j[U[b][1]].calls[U[b][2]]
    BY <1>16, <1>23
  <2>3. a # b
    BY <1>23, <2>1, <2>2
  <2>4. U[a] \in NeverStarted(j) /\ U[b] \in NeverStarted(j) /\ U[a] # U[b]
    BY <1>3, <2>3
  <2> QED BY <2>1, <2>2, <2>4
<1> QED BY <1>0, <1>15, <1>17, <1>20, <1>21, <1>22, <1>23

-----------------------------------------------------------------------------
(* What the repair leaves behind.                                           *)

\* Every action that was started is closed and every call was started, or has
\* a result.
AllClosed(j) ==
  /\ \A n \in Starts(j) : Closed(j, n)
  /\ \A k \in 1 .. Len(j) : \A c \in ToSet(j[k].calls) : ~Unstarted(j, c)

\* Then there is nothing to repair.
LEMMA NothingToRepair ==
  ASSUME NEW j \in Seq(Event), Wellformed(j), AllClosed(j)
  PROVE  ActionsToRepair(j) = <<>>
<1> DEFINE t == ActionsToRepair(j)
<1>1. t \in Seq(Task) /\ \A i \in 1 .. Len(t) : TaskIs(j, t[i])
  BY RepairIs
<1>2. Missing(j) = {} /\ Interrupted(j) = {}
  BY DEF Missing, Interrupted, AllClosed, Closed, Unresolved
<1>3. NeverStarted(j) = {}
  <2> SUFFICES ASSUME NEW x \in NeverStarted(j) PROVE FALSE
    OBVIOUS
  <2>1. x[1] \in 1 .. Len(j) /\ x[2] \in 1 .. Len(j[x[1]].calls)
    BY RepairFinite
  <2>2. j[x[1]] \in Event
    BY <2>1
  <2>3. j[x[1]].calls \in Seq(Calls)
    BY <2>2 DEF Event
  <2>4. j[x[1]].calls[x[2]] \in ToSet(j[x[1]].calls)
    BY <2>1, <2>3 DEF ToSet
  <2>5. Unstarted(j, j[x[1]].calls[x[2]])
    BY DEF NeverStarted
  <2> QED BY <2>1, <2>4, <2>5 DEF AllClosed
<1>4. \A i \in 1 .. Len(t) : FALSE
  BY <1>1, <1>2, <1>3 DEF TaskIs
<1> HIDE DEF t
<1>5. t = <<>>
  BY <1>1, <1>4, EmptySeq
<1> QED BY <1>5 DEF t

\* And the model sees every call with its result, if no call was started twice.
LEMMA ClosedForModel ==
  ASSUME NEW j \in Seq(Event), Wellformed(j), AllClosed(j),
         \A i, k \in Starts(j) : j[i].call = j[k].call => i = k
  PROVE  ActionsClosed(j)
<1>1. ASSUME NEW n \in Starts(j), ProjectedOf(j, n) # ""
      PROVE  HasResult(j, j[n].call)
  <2>1. PICK i \in ResultsOf(j, n) : TRUE
    BY <1>1, ProjectedIs
  <2>2. i \in 1 .. Len(j) /\ j[i].type = "result" /\ j[i].inv = n
    BY <2>1 DEF ResultsOf
  <2>3. j[i].call = j[n].call
    BY <2>2 DEF Wellformed
  <2> QED BY <2>2, <2>3 DEF HasResult
<1>2. ASSUME NEW n \in Starts(j), HasResult(j, j[n].call)
      PROVE  ProjectedOf(j, n) # ""
  <2>1. PICK i \in 1 .. Len(j) : j[i].type = "result" /\ j[i].call = j[n].call
    BY <1>2 DEF HasResult
  <2>2. j[i].inv \in Starts(j) /\ j[j[i].inv].call = j[i].call
    BY <2>1 DEF Wellformed
  <2>3. j[i].inv = n
    BY <2>1, <2>2
  <2>4. i \in ResultsOf(j, n)
    BY <2>1, <2>3 DEF ResultsOf
  <2>5. PICK m \in ResultsOf(j, n) : ProjectedOf(j, n) = j[m].status
    BY <2>4, ProjectedIs
  <2>6. j[m].status \in Statuses
    BY <2>5 DEF ResultsOf, Wellformed
  <2> QED BY <2>5, <2>6 DEF Statuses
<1>3. \A n \in Starts(j) : /\ ReceiptOf(j, n) \in Settled /\ ReceiptOf(j, n) # ""
                           /\ ProjectedOf(j, n) = ReceiptOf(j, n)
  <2> TAKE n \in Starts(j)
  <2>1. Closed(j, n)
    BY DEF AllClosed
  <2> QED BY <1>2, <2>1 DEF Closed, ResultProjected, Settled
<1>4. ASSUME NEW k \in 1 .. Len(j), NEW c \in ToSet(j[k].calls)
      PROVE  HasResult(j, c)
  <2>1. HasStart(j, c) \/ HasResult(j, c)
    BY DEF AllClosed, Unstarted
  <2>2. ASSUME HasStart(j, c)
        PROVE  HasResult(j, c)
    <3>1. PICK n \in Starts(j) : j[n].call = c
      BY <2>2 DEF HasStart, Starts
    <3> QED BY <1>1, <1>3, <3>1
  <2> QED BY <2>1, <2>2
<1> QED BY <1>3, <1>4 DEF ActionsClosed

\* An earned end with nothing to repair saw everything.
LEMMA EarnedSawAll ==
  ASSUME NEW j \in Seq(Event), Wellformed(j), AllClosed(j), Earned(j, "end")
  PROVE  AnswerSawAll(j)
<1> DEFINE n == Len(j)
           done == LastWhere(j, LAMBDA e : e.type = "model.completed")
           called == LastWhere(j, LAMBDA e : e.type = "model.started")
           D == {i \in 1 .. Len(j) : j[i].type = "model.completed"}
           C == {i \in 1 .. Len(j) : j[i].type = "model.started"}
<1>0. n \in Nat
  OBVIOUS
<1>1. done \in 0 .. n /\ IsLast(done, D)
  <2>1. done = IF D # {} THEN Max(D) ELSE 0
    BY DEF LastWhere, SelectLastInSeq
  <2>2. D \in SUBSET (1 .. n)
    OBVIOUS
  <2> HIDE DEF done, D, n
  <2> QED BY <1>0, <2>1, <2>2, LastIs
<1>2. called \in 0 .. n /\ IsLast(called, C)
  <2>1. called = IF C # {} THEN Max(C) ELSE 0
    BY DEF LastWhere, SelectLastInSeq
  <2>2. C \in SUBSET (1 .. n)
    OBVIOUS
  <2> HIDE DEF called, C, n
  <2> QED BY <1>0, <2>1, <2>2, LastIs
<1>3. AnswerSawAll(j) <=> /\ done > 0 /\ j[done].status = "end"
                          /\ ActionsToRepair(j) = <<>>
                          /\ \A k \in called .. n : j[k].type # "user"
  BY DEF AnswerSawAll
<1> HIDE DEF done, called
<1>4. PICK d \in 2 .. n :
        /\ j[d - 1].type = "model.started"
        /\ j[d].type = "model.completed" /\ j[d].status = "end"
        /\ \A k \in d + 1 .. n : j[k].type \notin {"model.started", "model.completed", "user"}
  BY DEF Earned
<1>5. done = d
  <2>1. d \in D
    BY <1>4
  <2>2. done \in D /\ d <= done
    BY <1>1, <2>1 DEF IsLast
  <2>3. done \notin d + 1 .. n /\ done \in 1 .. n
    BY <1>4, <2>2
  <2> QED BY <1>0, <1>4, <2>2, <2>3
<1>6. called = d - 1
  <2>1. d - 1 \in C
    BY <1>0, <1>4
  <2>2. called \in C /\ d - 1 <= called
    BY <1>2, <2>1 DEF IsLast
  <2>3. called \notin d + 1 .. n /\ called # d /\ called \in 1 .. n
    BY <1>4, <2>2
  <2> QED BY <1>0, <1>4, <2>2, <2>3
<1>7. ASSUME NEW k \in called .. n
      PROVE  j[k].type # "user"
  <2>1. k = d - 1 \/ k = d \/ k \in d + 1 .. n
    BY <1>0, <1>4, <1>6
  <2> QED BY <1>4, <2>1
<1> QED BY <1>3, <1>4, <1>5, <1>7, NothingToRepair

-----------------------------------------------------------------------------
(* What a journal owes to its past stays true when it grows.                *)

\* The past of an event does not change.
LEMMA PastAppend ==
  ASSUME NEW j \in Seq(Event), NEW e \in Event
  PROVE  /\ \A i \in 1 .. Len(j) : SubSeq(Append(j, e), 1, i - 1) = SubSeq(j, 1, i - 1)
         /\ SubSeq(Append(j, e), 1, (Len(j) + 1) - 1) = j
<1> DEFINE k == Append(j, e)
           n == Len(j)
<1>1. k \in Seq(Event) /\ n \in Nat /\ Len(k) = n + 1
      /\ \A i \in 1 .. n : k[i] = j[i]
  BY AppendIs
<1> HIDE DEF k
<1>2. ASSUME NEW m \in 0 .. n
      PROVE  SubSeq(k, 1, m) = SubSeq(j, 1, m)
  <2>1. SubSeq(k, 1, m) = [i \in 1 .. m |-> k[i]]
    BY <1>1
  <2>2. SubSeq(j, 1, m) = [i \in 1 .. m |-> j[i]]
    BY <1>1
  <2>3. \A i \in 1 .. m : k[i] = j[i]
    BY <1>1
  <2> QED BY <2>1, <2>2, <2>3
<1>3. SubSeq(j, 1, n) = j
  BY <1>1
<1>4. \A i \in 1 .. n : i - 1 \in 0 .. n
  BY <1>1
<1>5. (n + 1) - 1 = n /\ n \in 0 .. n
  BY <1>1
<1>6. SubSeq(k, 1, (n + 1) - 1) = j
  BY <1>2, <1>3, <1>5
<1> QED BY <1>2, <1>4, <1>6 DEF k

\* Model calls after final answers.
LEMMA NotReinvokedAppend ==
  ASSUME NEW j \in Seq(Event), NEW e \in Event, NotReinvoked(j),
         e.type = "model.started" => Followed(j)
  PROVE  NotReinvoked(Append(j, e))
<1> DEFINE k == Append(j, e)
           n == Len(j)
<1>1. k \in Seq(Event) /\ n \in Nat /\ Len(k) = n + 1 /\ k[n + 1] = e
      /\ \A i \in 1 .. n : k[i] = j[i]
  BY AppendIs
<1> HIDE DEF k
<1> SUFFICES ASSUME NEW i \in 1 .. n + 1, NEW a \in 1 .. i - 1, k[i].type = "model.started",
                    k[a].type = "assistant", k[a].calls = <<>>
             PROVE  \E m \in a + 1 .. i - 1 : k[m].type = "run.completed" \/ IsMessage(k[m])
  BY <1>1 DEF NotReinvoked, k
<1>2. k[a] = j[a] /\ a \in 1 .. n
  BY <1>1
<1>3. PICK m \in a + 1 .. i - 1 : j[m].type = "run.completed" \/ IsMessage(j[m])
  <2>1. CASE i \in 1 .. n
    BY <1>1, <1>2, <2>1 DEF NotReinvoked
  <2>2. CASE i = n + 1
    BY <1>1, <1>2, <2>2 DEF Followed
  <2> QED BY <1>1, <2>1, <2>2
<1>4. k[m] = j[m]
  BY <1>1, <1>3
<1> QED BY <1>3, <1>4

\* What the model saw, and what completed runs saw.
ModelSaw(j) ==
  \A i \in 1 .. Len(j) : j[i].type = "model.started" => ActionsClosed(SubSeq(j, 1, i - 1))
CompletionsSaw(j) ==
  \A i \in 1 .. Len(j) :
    j[i].type = "run.completed" /\ j[i].status = "completed" => AnswerSawAll(SubSeq(j, 1, i - 1))

LEMMA ModelSawAppend ==
  ASSUME NEW j \in Seq(Event), NEW e \in Event, ModelSaw(j),
         e.type = "model.started" => ActionsClosed(j)
  PROVE  ModelSaw(Append(j, e))
<1> DEFINE k == Append(j, e)
           n == Len(j)
<1>1. k \in Seq(Event) /\ n \in Nat /\ Len(k) = n + 1 /\ k[n + 1] = e
      /\ \A i \in 1 .. n : k[i] = j[i]
  BY AppendIs
<1>2. /\ \A i \in 1 .. n : SubSeq(k, 1, i - 1) = SubSeq(j, 1, i - 1)
      /\ SubSeq(k, 1, (n + 1) - 1) = j
  BY PastAppend
<1> HIDE DEF k
<1> SUFFICES ASSUME NEW i \in 1 .. n + 1, k[i].type = "model.started"
             PROVE  ActionsClosed(SubSeq(k, 1, i - 1))
  BY <1>1 DEF ModelSaw, k
<1>3. CASE i \in 1 .. n
  BY <1>1, <1>2, <1>3 DEF ModelSaw
<1>4. CASE i = n + 1
  BY <1>1, <1>2, <1>4
<1> QED BY <1>1, <1>3, <1>4

LEMMA CompletionsSawAppend ==
  ASSUME NEW j \in Seq(Event), NEW e \in Event, CompletionsSaw(j),
         e.type = "run.completed" /\ e.status = "completed" => AnswerSawAll(j)
  PROVE  CompletionsSaw(Append(j, e))
<1> DEFINE k == Append(j, e)
           n == Len(j)
<1>1. k \in Seq(Event) /\ n \in Nat /\ Len(k) = n + 1 /\ k[n + 1] = e
      /\ \A i \in 1 .. n : k[i] = j[i]
  BY AppendIs
<1>2. /\ \A i \in 1 .. n : SubSeq(k, 1, i - 1) = SubSeq(j, 1, i - 1)
      /\ SubSeq(k, 1, (n + 1) - 1) = j
  BY PastAppend
<1> HIDE DEF k
<1> SUFFICES ASSUME NEW i \in 1 .. n + 1, k[i].type = "run.completed", k[i].status = "completed"
             PROVE  AnswerSawAll(SubSeq(k, 1, i - 1))
  BY <1>1 DEF CompletionsSaw, k
<1>3. CASE i \in 1 .. n
  BY <1>1, <1>2, <1>3 DEF CompletionsSaw
<1>4. CASE i = n + 1
  BY <1>1, <1>2, <1>4
<1> QED BY <1>1, <1>3, <1>4

-----------------------------------------------------------------------------
(* The inductive invariant of the loop.                                     *)

\* The process knows the whole journal.
Current(p) == pc[p] \notin {"down", "unwinding"} /\ HeadExpected(p)

\* What a process has in memory in each phase.
InPhase(p) ==
  /\ pc[p] \notin {"repair", "act", "unwinding"} => todo[p] = <<>> /\ open[p] = NothingOpen
  /\ pc[p] = "act" => ~open[p].unreconciled
  /\ pc[p] = "repair" => prior[p].state \in {"clean", "dangling", "lost", "finished"}
  /\ pc[p] \in {"down", "top", "call", "invoke", "act", "failed"} => prior[p].state = "none"
  /\ pc[p] = "answered" => prior[p].state \in {"answered", "refused", "threw"}
  /\ pc[p] = "message" => prior[p].state = "answered"
  /\ pc[p] = "receive" => prior[p].state \in {"none", "answered"}
  /\ pc[p] = "deliver" => prior[p].state \in {"none", "answered", "continue"}
  /\ pc[p] = "refused" => prior[p].state \in {"none", "refused"}
  /\ pc[p] \in {"receive", "deliver"} /\ prior[p].state = "none" => turns[p] < Limit
  /\ pc[p] \in {"down", "repair"} => batch[p] = <<>>

\* A task that was started points to its start, and no other task to the same.
TaskAnchored(j, t) ==
  /\ t.stage = "unstarted" =>
       /\ t.inv = 0
       /\ \E a \in 1 .. Len(j) : t.call \in ToSet(j[a].calls)
  /\ t.stage # "unstarted" => t.inv \in Starts(j) /\ j[t.inv].call = t.call
  /\ t.stage \in {"executed", "done"} => t.status \in Statuses

Anchored(p) ==
  /\ \A i \in 1 .. Len(todo[p]) : TaskAnchored(journal, todo[p][i])
  /\ \A i, k \in 1 .. Len(todo[p]) :
       todo[p][i].inv = todo[p][k].inv /\ todo[p][i].inv # 0 => i = k

\* Every action that is not closed is one the process works on, or one it
\* leaves open when it stops.
Covered(p) == Current(p) =>
  /\ \A n \in Starts(journal) :
       \/ Closed(journal, n)
       \/ open[p] # NothingOpen
       \/ \E i \in 1 .. Len(todo[p]) : todo[p][i].inv = n
  /\ \A k \in 1 .. Len(journal) : \A c \in ToSet(journal[k].calls) :
       Unstarted(journal, c) =>
         \E i \in 1 .. Len(todo[p]) : todo[p][i].stage = "unstarted" /\ todo[p][i].call = c
  /\ \A i \in 1 .. Len(todo[p]) :
       todo[p][i].stage = "done" => todo[p][i].status = ReceiptOf(journal, todo[p][i].inv)

\* The process stands before the outcome of a final answer.
Answering(p) ==
  \/ pc[p] = "repair" /\ prior[p].state = "finished"
  \/ pc[p] \in {"receive", "deliver"} /\ prior[p].state = "answered"

\* What the journal ends with in each phase of a model call.
Calling(p) == Current(p) =>
  LET n == Len(journal)
  IN  /\ pc[p] \in {"invoke", "answered"} => n > 0 /\ journal[n].type = "model.started"
      /\ pc[p] = "message" => /\ n > 1
                              /\ journal[n - 1].type = "model.started"
                              /\ journal[n].type = "model.completed"
                              /\ journal[n].status = prior[p].stop
      /\ Answering(p) => Earned(journal, prior[p].stop)
      /\ ~Answering(p) => Followed(journal)

Typed == TypeOK /\ Len(journal) <= MaxEvents /\ \A p \in Procs : known[p] <= Len(journal)

LoopInv ==
  /\ Typed
  /\ Wellformed(journal)
  /\ \A p \in Procs : InPhase(p) /\ Anchored(p) /\ Covered(p) /\ Calling(p)
  /\ FinishedTurnNotReinvoked
  /\ CompletedIsEarned

\* Mail is sent once; what is told is what was sent first, in that order.
Told == {journal[i].call : i \in Tellings}
Place(s, m) == CHOOSE k \in 1 .. Len(s) : s[k] = m

MailInv ==
  /\ \A i, k \in 1 .. Len(sent) : sent[i] = sent[k] => i = k
  /\ \A i \in Tellings : LET k == Cardinality({n \in Tellings : n <= i})
                         IN  k <= Len(sent) /\ journal[i].call = sent[k]
  /\ Cardinality(Tellings) <= Len(sent)
  /\ \A k \in 1 .. Len(sent) : sent[k] \in Told <=> k <= Cardinality(Tellings)
  /\ \A k \in 1 .. Len(sent) : sent[k] \notin Told => sent[k] \in ToSet(pending)
  /\ ToSet(pending) \subseteq ToSet(sent)
  /\ \A i, k \in 1 .. Len(pending) : i < k => Place(sent, pending[i]) < Place(sent, pending[k])

\* The batch holds what the journal does not have in the order it was sent,
\* and leaves nothing out.
BatchInv(p) ==
  /\ \A i \in 1 .. Len(batch[p]) :
       batch[p][i].mail \in ToSet(sent) /\ (batch[p][i].told => batch[p][i].mail \in Told)
  /\ Current(p) =>
       /\ \A i, k \in 1 .. Len(batch[p]) :
            i < k => Place(sent, batch[p][i].mail) < Place(sent, batch[p][k].mail)
       /\ \A i \in 1 .. Len(batch[p]) : ~batch[p][i].told =>
            /\ batch[p][i].mail \notin Told
            /\ \A l \in 1 .. Place(sent, batch[p][i].mail) - 1 : sent[l] \notin Told =>
                 \E k \in 1 .. Len(batch[p]) : batch[p][k].mail = sent[l]

\* Call ids that are not reused: a call has one answer and one start.
FreshJournal ==
  /\ \A a, b \in 1 .. Len(journal) :
       a # b => ToSet(journal[a].calls) \cap ToSet(journal[b].calls) = {}
  /\ \A a \in 1 .. Len(journal) : IsInjective(journal[a].calls)
  /\ \A i, k \in Starts(journal) : journal[i].call = journal[k].call => i = k

FreshTasks(p) ==
  /\ \A i, k \in 1 .. Len(todo[p]) :
       todo[p][i].stage = "unstarted" /\ todo[p][k].stage = "unstarted"
         /\ todo[p][i].call = todo[p][k].call => i = k
  /\ Current(p) => \A i \in 1 .. Len(todo[p]) :
       todo[p][i].stage = "unstarted" => ~HasStart(journal, todo[p][i].call)
  /\ Current(p) /\ pc[p] \in {"answered", "message"} /\ prior[p].state = "answered" =>
       /\ IsInjective(prior[p].calls)
       /\ \A k \in 1 .. Len(journal) : ToSet(prior[p].calls) \cap ToSet(journal[k].calls) = {}

\* An action that is about to be executed never was, and no other process is
\* about to execute it.
Unexecuted(p) == \A i \in 1 .. Len(todo[p]) : todo[p][i].stage = "started" =>
  /\ effects[todo[p][i].call] = 0
  /\ \A q \in Procs \ {p} : \A k \in 1 .. Len(todo[q]) :
       todo[q][k].stage = "started" => todo[q][k].inv # todo[p][i].inv

FreshInv ==
  /\ FreshJournal
  /\ \A p \in Procs : FreshTasks(p) /\ Unexecuted(p)
  /\ EffectsAtMostOnce
  /\ ModelSeesClosedActions

-----------------------------------------------------------------------------
(* A step of one process leaves the others alone.                           *)

Same(q) ==
  /\ pc'[q] = pc[q] /\ known'[q] = known[q] /\ turns'[q] = turns[q] /\ todo'[q] = todo[q]
  /\ open'[q] = open[q] /\ prior'[q] = prior[q] /\ batch'[q] = batch[q]

Others(p) == \A q \in Procs : q # p =>
  /\ pc'[q] = pc[q] /\ known'[q] = known[q] /\ turns'[q] = turns[q] /\ todo'[q] = todo[q]
  /\ open'[q] = open[q] /\ prior'[q] = prior[q] /\ batch'[q] = batch[q]

\* The journal stays as it is or gets an event that may follow.
MayFollow(e) ==
  /\ Preceded(journal, e)
  /\ e.type = "model.started" => Followed(journal)
  /\ e.type = "run.completed" /\ e.status = "completed" => AnswerSawAll(journal)

Grows == \/ journal' = journal
         \/ \E e \in Event : journal' = Append(journal, e) /\ MayFollow(e)

ProcessInv(p) == InPhase(p) /\ Anchored(p) /\ Covered(p) /\ Calling(p)

\* A task stays anchored as the journal grows.
LEMMA AnchoredAppend ==
  ASSUME NEW j \in Seq(Event), NEW e \in Event, NEW t, TaskAnchored(j, t)
  PROVE  TaskAnchored(Append(j, e), t)
<1>1. /\ Len(j) \in Nat /\ Len(Append(j, e)) = Len(j) + 1
      /\ \A i \in 1 .. Len(j) : Append(j, e)[i] = j[i] /\ i \in 1 .. Len(Append(j, e))
  BY AppendIs
<1>2. \A n \in Starts(j) : n \in Starts(Append(j, e)) /\ n \in 1 .. Len(j)
  BY MarksAppend
<1> QED BY <1>1, <1>2 DEF TaskAnchored

\* The memory of a process keeps its meaning while others write: what it knew
\* about the whole journal it no longer claims.
LEMMA OtherProcess ==
  ASSUME Typed, NEW q \in Procs, Same(q), Grows, ProcessInv(q)
  PROVE  ProcessInv(q)'
<1>0. journal \in Seq(Event) /\ Len(journal) \in Nat /\ known[q] <= Len(journal) /\ known[q] \in Nat
  BY DEF Typed, TypeOK
<1>1. /\ pc'[q] = pc[q] /\ known'[q] = known[q] /\ turns'[q] = turns[q] /\ todo'[q] = todo[q]
      /\ open'[q] = open[q] /\ prior'[q] = prior[q] /\ batch'[q] = batch[q]
  BY DEF Same
<1>2. InPhase(q)'
  BY <1>1 DEF ProcessInv, InPhase
<1>3. CASE journal' = journal
  <2>1. Anchored(q)'
    BY <1>1, <1>3 DEF ProcessInv, Anchored
  <2>2. Covered(q)'
    BY <1>1, <1>3 DEF ProcessInv, Covered, Current, HeadExpected
  <2>3. Calling(q)'
    BY <1>1, <1>3 DEF ProcessInv, Calling, Answering, Current, HeadExpected
  <2> QED BY <1>2, <2>1, <2>2, <2>3 DEF ProcessInv
<1>4. ASSUME NEW e \in Event, journal' = Append(journal, e)
      PROVE  ProcessInv(q)'
  <2>1. /\ Len(journal') = Len(journal) + 1
        /\ \A i \in 1 .. Len(journal) : journal'[i] = journal[i]
        /\ \A n \in Starts(journal) : n \in Starts(journal') /\ n \in 1 .. Len(journal)
    BY <1>0, <1>4, AppendIs, MarksAppend
  <2>2. ~Current(q)'
    BY <1>0, <1>1, <2>1 DEF Current, HeadExpected
  <2>3. Anchored(q)'
    <3>1. \A i \in 1 .. Len(todo[q]) : TaskAnchored(journal', todo[q][i])
      BY <1>0, <1>4, AnchoredAppend DEF ProcessInv, Anchored
    <3> QED BY <1>1, <3>1 DEF ProcessInv, Anchored
  <2> QED BY <1>2, <2>2, <2>3 DEF ProcessInv, Covered, Calling
<1> QED BY <1>3, <1>4 DEF Grows

-----------------------------------------------------------------------------
(* Tasks.                                                                   *)

\* One task of a process changes; the others stay where they are.
Retasked(p, i, t) ==
  /\ todo' \in [Procs -> Seq(Task)]
  /\ \A q \in Procs : q # p => todo'[q] = todo[q]
  /\ Len(todo'[p]) = Len(todo[p]) /\ t \in Task /\ todo'[p][i] = t
  /\ \A k \in 1 .. Len(todo[p]) : k # i => todo'[p][k] = todo[p][k]

LEMMA TaskMoves ==
  ASSUME Typed, NEW p \in Procs, NEW i \in 1 .. Len(todo[p])
  PROVE  /\ todo[p][i] \in Task
         /\ \A n \in Nat :
              todo' = [todo EXCEPT ![p][i].stage = "started", ![p][i].inv = n]
                => Retasked(p, i, [todo[p][i] EXCEPT !.stage = "started", !.inv = n])
         /\ \A status \in Statuses :
              todo' = [todo EXCEPT ![p][i].stage = "executed", ![p][i].status = status]
                => Retasked(p, i, [todo[p][i] EXCEPT !.stage = "executed", !.status = status])
         /\ todo' = [todo EXCEPT ![p][i].stage = "done"]
              => Retasked(p, i, [todo[p][i] EXCEPT !.stage = "done"])
<1>1. todo \in [Procs -> Seq(Task)]
  BY DEF Typed, TypeOK
<1>2. todo[p] \in Seq(Task) /\ todo[p][i] \in Task
  BY <1>1
<1> DEFINE S == Seq(Task)
<1>3. ASSUME NEW t \in Task, todo' = [todo EXCEPT ![p] = [todo[p] EXCEPT ![i] = t]]
      PROVE  Retasked(p, i, t)
  <2> DEFINE s == [todo[p] EXCEPT ![i] = t]
  <2>1. s \in Seq(Task) /\ Len(s) = Len(todo[p]) /\ s[i] = t
        /\ \A k \in 1 .. Len(todo[p]) : k # i => s[k] = todo[p][k]
    BY <1>2
  <2>2. todo' = [todo EXCEPT ![p] = s]
    BY <1>3
  <2> HIDE DEF s
  <2>3. todo' \in [Procs -> S] /\ todo'[p] = s /\ \A q \in Procs : q # p => todo'[q] = todo[q]
    <3>1. s \in S /\ todo \in [Procs -> S]
      BY <1>1, <2>1
    <3> HIDE DEF S
    <3> QED BY <2>2, <3>1
  <2> QED BY <2>1, <2>3 DEF Retasked
<1>4. ASSUME NEW n \in Nat,
             todo' = [todo EXCEPT ![p][i].stage = "started", ![p][i].inv = n]
      PROVE  Retasked(p, i, [todo[p][i] EXCEPT !.stage = "started", !.inv = n])
  <2>1. [todo[p][i] EXCEPT !.stage = "started", !.inv = n] \in Task
    BY <1>2 DEF Task
  <2>2. todo' = [todo EXCEPT ![p] = [todo[p] EXCEPT ![i] =
                   [todo[p][i] EXCEPT !.stage = "started", !.inv = n]]]
    BY <1>1, <1>2, <1>4
  <2> QED BY <1>3, <2>1, <2>2
<1>5. ASSUME NEW status \in Statuses,
             todo' = [todo EXCEPT ![p][i].stage = "executed", ![p][i].status = status]
      PROVE  Retasked(p, i, [todo[p][i] EXCEPT !.stage = "executed", !.status = status])
  <2>1. [todo[p][i] EXCEPT !.stage = "executed", !.status = status] \in Task
    BY <1>2 DEF Task
  <2>2. todo' = [todo EXCEPT ![p] = [todo[p] EXCEPT ![i] =
                   [todo[p][i] EXCEPT !.stage = "executed", !.status = status]]]
    BY <1>1, <1>2, <1>5
  <2> QED BY <1>3, <2>1, <2>2
<1>6. ASSUME todo' = [todo EXCEPT ![p][i].stage = "done"]
      PROVE  Retasked(p, i, [todo[p][i] EXCEPT !.stage = "done"])
  <2>1. [todo[p][i] EXCEPT !.stage = "done"] \in Task
    BY <1>2 DEF Task
  <2>2. todo' = [todo EXCEPT ![p] = [todo[p] EXCEPT ![i] =
                   [todo[p][i] EXCEPT !.stage = "done"]]]
    BY <1>1, <1>2, <1>6
  <2> QED BY <1>3, <2>1, <2>2
<1> QED BY <1>2, <1>4, <1>5, <1>6

\* The first task changes, or is done with.
Popped(p) ==
  /\ todo' \in [Procs -> Seq(Task)]
  /\ \A q \in Procs : q # p => todo'[q] = todo[q]
  /\ Len(todo[p]) > 0 /\ Len(todo'[p]) = Len(todo[p]) - 1
  /\ \A k \in 1 .. Len(todo'[p]) : todo'[p][k] = todo[p][k + 1]

LEMMA HeadMoves ==
  ASSUME Typed, NEW p \in Procs, todo[p] # <<>>
  PROVE  /\ Head(todo[p]) = todo[p][1] /\ todo[p][1] \in Task /\ Len(todo[p]) \in Nat /\ Len(todo[p]) > 0
         /\ todo' = [todo EXCEPT ![p] = Tail(@)] => Popped(p)
         /\ \A t \in Task : todo' = [todo EXCEPT ![p] = <<t>> \o Tail(@)] => Retasked(p, 1, t)
<1>1. todo \in [Procs -> Seq(Task)] /\ todo[p] \in Seq(Task)
  BY DEF Typed, TypeOK
<1> DEFINE S == Seq(Task)
<1>2. /\ Head(todo[p]) = todo[p][1] /\ todo[p][1] \in Task
      /\ Len(todo[p]) \in Nat /\ Len(todo[p]) > 0
      /\ Tail(todo[p]) \in Seq(Task) /\ Len(Tail(todo[p])) = Len(todo[p]) - 1
      /\ \A k \in 1 .. Len(Tail(todo[p])) : Tail(todo[p])[k] = todo[p][k + 1]
  BY <1>1
<1>3. ASSUME NEW s \in Seq(Task), todo' = [todo EXCEPT ![p] = s]
      PROVE  todo' \in [Procs -> S] /\ todo'[p] = s /\ \A q \in Procs : q # p => todo'[q] = todo[q]
  <2>1. s \in S /\ todo \in [Procs -> S]
    BY <1>1, <1>3
  <2> HIDE DEF S
  <2> QED BY <1>3, <2>1
<1>4. ASSUME todo' = [todo EXCEPT ![p] = Tail(@)]
      PROVE  Popped(p)
  <2>1. todo' = [todo EXCEPT ![p] = Tail(todo[p])]
    BY <1>1, <1>4
  <2>2. todo' \in [Procs -> S] /\ todo'[p] = Tail(todo[p]) /\ \A q \in Procs : q # p => todo'[q] = todo[q]
    BY <1>2, <1>3, <2>1
  <2> QED BY <1>2, <2>2 DEF Popped
<1>5. ASSUME NEW t \in Task, todo' = [todo EXCEPT ![p] = <<t>> \o Tail(@)]
      PROVE  Retasked(p, 1, t)
  <2> DEFINE s == <<t>> \o Tail(todo[p])
  <2>1. todo' = [todo EXCEPT ![p] = s]
    BY <1>1, <1>5
  <2>2. <<t>> \in Seq(Task) /\ Len(<<t>>) = 1 /\ <<t>>[1] = t
    OBVIOUS
  <2>3. s \in Seq(Task) /\ Len(s) = Len(todo[p]) /\ s[1] = t
        /\ \A k \in 2 .. Len(todo[p]) : s[k] = Tail(todo[p])[k - 1]
    BY <1>2, <2>2, ConcatProperties
  <2>4. \A k \in 1 .. Len(todo[p]) : k # 1 => s[k] = todo[p][k]
    <3> TAKE k \in 1 .. Len(todo[p])
    <3> SUFFICES ASSUME k # 1 PROVE s[k] = todo[p][k]
      OBVIOUS
    <3> HIDE DEF s
    <3>1. k \in 2 .. Len(todo[p]) /\ k - 1 \in 1 .. Len(Tail(todo[p])) /\ (k - 1) + 1 = k
      BY <1>2
    <3> QED BY <1>2, <2>3, <3>1
  <2> HIDE DEF s
  <2>5. todo' \in [Procs -> S] /\ todo'[p] = s /\ \A q \in Procs : q # p => todo'[q] = todo[q]
    BY <1>3, <2>1, <2>3
  <2> QED BY <2>3, <2>4, <2>5 DEF Retasked
<1> QED BY <1>2, <1>4, <1>5

-----------------------------------------------------------------------------
(* What the common steps do.                                                *)

\* The journal after an append.
Appended(p, e) ==
  /\ e \in Event /\ journal' = Append(journal, e) /\ journal' \in Seq(Event)
  /\ Len(journal') = Len(journal) + 1 /\ Len(journal') <= MaxEvents
  /\ HeadExpected(p)

LEMMA WriteIs ==
  ASSUME Typed, NEW p \in Procs, NEW e \in Event, Write(p, e)
  PROVE  /\ Appended(p, e)
         /\ known' \in [Procs -> 0 .. MaxEvents] /\ known'[p] = Len(journal')
         /\ \A q \in Procs : q # p => known'[q] = known[q]
         /\ \A q \in Procs : known'[q] <= Len(journal')
<1>1. journal \in Seq(Event) /\ Len(journal) \in Nat /\ MaxEvents \in Nat
      /\ known \in [Procs -> 0 .. MaxEvents] /\ \A q \in Procs : known[q] <= Len(journal)
  BY AgentLoopAssumption DEF Typed, TypeOK
<1>2. journal' = Append(journal, e) /\ known' = [known EXCEPT ![p] = Len(journal) + 1]
      /\ Len(journal) < MaxEvents /\ HeadExpected(p)
  BY DEF Write
<1>3. Appended(p, e)
  BY <1>1, <1>2 DEF Appended
<1>4. Len(journal') = Len(journal) + 1
  BY <1>3 DEF Appended
<1> QED BY <1>1, <1>2, <1>3, <1>4

\* A process that stops has nothing in memory.
Down(p) ==
  /\ pc'[p] = "down" /\ known'[p] = 0 /\ turns'[p] = 0 /\ todo'[p] = <<>>
  /\ open'[p] = NothingOpen /\ prior'[p] = NoAnswer /\ batch'[p] = <<>>

\* The memories are typed.
LocalTypes ==
  /\ pc \in [Procs -> Phases] /\ known \in [Procs -> 0 .. MaxEvents]
  /\ turns \in [Procs -> 0 .. Limit] /\ todo \in [Procs -> Seq(Task)]
  /\ open \in [Procs -> [unreconciled : BOOLEAN, pending : BOOLEAN]]
  /\ prior \in [Procs -> Answer] /\ batch \in [Procs -> Seq([mail : Mails, told : BOOLEAN])]

LEMMA StopIs ==
  ASSUME Typed, NEW p \in Procs, Stop(p)
  PROVE  /\ Down(p) /\ Others(p) /\ LocalTypes'
         /\ \A q \in Procs : known'[q] <= Len(journal)
<1>0. LocalTypes /\ \A q \in Procs : known[q] <= Len(journal) /\ Len(journal) \in Nat
  <2>1. LocalTypes
    BY Zenon DEF Typed, TypeOK, LocalTypes
  <2>2. journal \in Seq(Event) /\ \A q \in Procs : known[q] <= Len(journal)
    BY Zenon DEF Typed, TypeOK
  <2>3. Len(journal) \in Nat
    BY <2>2
  <2> QED BY <2>1, <2>2, <2>3
<1>1. Down(p) /\ Others(p)
  BY <1>0 DEF LocalTypes, Stop, Down, Others
<1>2. pc' \in [Procs -> Phases] /\ known' \in [Procs -> 0 .. MaxEvents] /\ turns' \in [Procs -> 0 .. Limit]
  BY <1>0, AgentLoopAssumption DEF LocalTypes, Stop, Phases
<1>3. open' \in [Procs -> [unreconciled : BOOLEAN, pending : BOOLEAN]]
  BY <1>0 DEF LocalTypes, Stop, NothingOpen
<1>4. prior' \in [Procs -> Answer]
  <2>1. <<>> \in Seq(Calls)
    BY EmptySeq
  <2>2. NoAnswer \in Answer
    BY <2>1 DEF NoAnswer, Answer, Stops
  <2> QED BY <1>0, <2>2 DEF LocalTypes, Stop
<1>5. todo' \in [Procs -> Seq(Task)]
  <2> DEFINE S == Seq(Task)
  <2>1. <<>> \in S /\ todo \in [Procs -> S] /\ todo' = [todo EXCEPT ![p] = <<>>]
    BY <1>0, EmptySeq DEF LocalTypes, Stop
  <2> HIDE DEF S
  <2>2. todo' \in [Procs -> S]
    BY <2>1
  <2> QED BY <2>2 DEF S
<1>6. batch' \in [Procs -> Seq([mail : Mails, told : BOOLEAN])]
  <2> DEFINE S == Seq([mail : Mails, told : BOOLEAN])
  <2>1. <<>> \in S /\ batch \in [Procs -> S] /\ batch' = [batch EXCEPT ![p] = <<>>]
    BY <1>0, EmptySeq DEF LocalTypes, Stop
  <2> HIDE DEF S
  <2>2. batch' \in [Procs -> S]
    BY <2>1
  <2> QED BY <2>2 DEF S
<1>7. \A q \in Procs : known'[q] <= Len(journal)
  BY <1>0, <1>1 DEF Down, Others
<1> QED BY <1>1, <1>2, <1>3, <1>4, <1>5, <1>6, <1>7 DEF LocalTypes

\* A process that finishes appends an outcome.
LEMMA FinishIs ==
  ASSUME Typed, NEW p \in Procs, NEW status \in Outcomes, Finish(p, status)
  PROVE  /\ Appended(p, OutcomeEvent(status)) /\ Down(p) /\ Others(p) /\ Typed'
         /\ UNCHANGED <<pending, sent, effects, starts, foreign>>
<1>0. /\ journal \in Seq(Event) /\ Len(journal) \in Nat /\ MaxEvents \in Nat
      /\ pending \in Seq(Mails) /\ sent \in Seq(Mails) /\ effects \in [Calls -> Nat]
      /\ starts \in 0 .. MaxStarts /\ foreign \in 0 .. MaxForeign
  BY AgentLoopAssumption DEF Typed, TypeOK
<1>1. OutcomeEvent(status) \in Event
  <2>1. <<>> \in Seq(Calls)
    BY EmptySeq
  <2> QED BY <2>1 DEF OutcomeEvent, Plain, Event, Types
<1>2. Stop(p) /\ HeadExpected(p) /\ Len(journal) < MaxEvents
      /\ journal' = Append(journal, OutcomeEvent(status))
      /\ UNCHANGED <<pending, sent, effects, starts, foreign>>
  BY DEF Finish
<1>3. Appended(p, OutcomeEvent(status))
  BY <1>0, <1>1, <1>2 DEF Appended
<1>4. /\ Down(p) /\ Others(p) /\ LocalTypes'
      /\ \A q \in Procs : known'[q] <= Len(journal)
  BY <1>2, StopIs
<1>5. \A q \in Procs : known'[q] <= Len(journal')
  <2>1. \A q \in Procs : known'[q] \in Nat
    BY <1>4 DEF LocalTypes
  <2> QED BY <1>0, <1>3, <1>4, <2>1 DEF Appended
<1>6. TypeOK'
  BY <1>0, <1>2, <1>3, <1>4 DEF TypeOK, LocalTypes, Appended
<1> QED BY <1>2, <1>3, <1>4, <1>5, <1>6 DEF Typed, Appended

-----------------------------------------------------------------------------
(* From the step of a process to the invariant.                             *)

\* The journal keeps what it promises when it grows by what may follow.
LEMMA JournalKept ==
  ASSUME LoopInv, Typed', Grows, \A q \in Procs : ProcessInv(q)'
  PROVE  LoopInv'
<1>1. /\ Typed /\ Wellformed(journal) /\ NotReinvoked(journal) /\ CompletionsSaw(journal)
      /\ \A q \in Procs : ProcessInv(q)
  BY DEF LoopInv, ProcessInv, FinishedTurnNotReinvoked, NotReinvoked, CompletedIsEarned, CompletionsSaw
<1>2. journal \in Seq(Event)
  BY <1>1 DEF Typed, TypeOK
<1>4. Wellformed(journal') /\ NotReinvoked(journal') /\ CompletionsSaw(journal')
  <2>1. CASE journal' = journal
    BY <1>1, <2>1
  <2>2. ASSUME NEW e \in Event, journal' = Append(journal, e), MayFollow(e)
        PROVE  Wellformed(journal') /\ NotReinvoked(journal') /\ CompletionsSaw(journal')
    <3>1. /\ Preceded(journal, e)
          /\ e.type = "model.started" => Followed(journal)
          /\ e.type = "run.completed" /\ e.status = "completed" => AnswerSawAll(journal)
      BY <2>2 DEF MayFollow
    <3>2. Wellformed(Append(journal, e))
      BY <1>1, <1>2, <3>1, WellformedAppend
    <3>3. NotReinvoked(Append(journal, e))
      BY <1>1, <1>2, <3>1, NotReinvokedAppend
    <3>4. CompletionsSaw(Append(journal, e))
      BY <1>1, <1>2, <3>1, CompletionsSawAppend
    <3> QED BY <2>2, <3>2, <3>3, <3>4
  <2> QED BY <2>1, <2>2 DEF Grows
<1>5. FinishedTurnNotReinvoked' /\ CompletedIsEarned'
  BY <1>4 DEF FinishedTurnNotReinvoked, NotReinvoked, CompletedIsEarned, CompletionsSaw
<1> QED BY <1>4, <1>5 DEF LoopInv, ProcessInv

\* What a process must show of its step.
LEMMA Assemble ==
  ASSUME LoopInv, NEW p \in Procs, Typed', Others(p), Grows, ProcessInv(p)'
  PROVE  LoopInv'
<1>1. Typed /\ \A q \in Procs : ProcessInv(q)
  BY DEF LoopInv, ProcessInv
<1>2. ASSUME NEW q \in Procs PROVE ProcessInv(q)'
  <2>1. CASE q = p
    BY <2>1
  <2>2. CASE q # p
    <3>1. Same(q)
      BY <2>2 DEF Others, Same
    <3> QED BY <1>1, <3>1, OtherProcess
  <2> QED BY <2>1, <2>2
<1> QED BY <1>2, JournalKept

\* A process that is down has nothing to show.
LEMMA DownInv ==
  ASSUME NEW p \in Procs, Down(p)
  PROVE  ProcessInv(p)'
<1>1. /\ pc'[p] = "down" /\ todo'[p] = <<>> /\ open'[p] = NothingOpen
      /\ prior'[p].state = "none" /\ batch'[p] = <<>>
  BY DEF Down, NoAnswer
<1>2. InPhase(p)'
  BY <1>1 DEF InPhase
<1>3. ~Current(p)'
  BY <1>1 DEF Current
<1>4. Anchored(p)'
  BY <1>1 DEF Anchored
<1> QED BY <1>2, <1>3, <1>4 DEF ProcessInv, Covered, Calling

\* A process that keeps its tasks keeps them anchored and complete, whatever
\* it appends that is not about an action.
LEMMA TasksKept ==
  ASSUME Typed, NEW p \in Procs, Anchored(p), Covered(p), todo'[p] = todo[p], open'[p] = open[p],
         Current(p)' => Current(p),
         \/ journal' = journal
         \/ \E e \in Event : /\ journal' = Append(journal, e) /\ e.calls = <<>>
                             /\ e.type \notin {"action.started", "action.completed", "result"}
  PROVE  Anchored(p)' /\ Covered(p)'
<1>0. journal \in Seq(Event) /\ todo[p] \in Seq(Task)
  BY DEF Typed, TypeOK
<1>1. CASE journal' = journal
  BY <1>1 DEF Anchored, Covered
<1>2. ASSUME NEW e \in Event, journal' = Append(journal, e), e.calls = <<>>,
             e.type \notin {"action.started", "action.completed", "result"}
      PROVE  Anchored(p)' /\ Covered(p)'
  <2>1. /\ Len(journal) \in Nat /\ Len(journal') = Len(journal) + 1
        /\ \A i \in 1 .. Len(journal) : journal'[i] = journal[i] /\ i \in 1 .. Len(journal')
        /\ journal'[Len(journal) + 1] = e
    BY <1>0, <1>2, AppendIs
  <2>2. /\ Starts(journal') = Starts(journal) /\ Starts(journal) \subseteq 1 .. Len(journal)
        /\ \A c : Unstarted(journal', c) <=> Unstarted(journal, c)
    BY <1>0, <1>2, MarksAppend DEF Unstarted
  <2>3. \A n : ReceiptOf(journal', n) = ReceiptOf(journal, n)
    BY <1>0, <1>2, ReceiptAppend
  <2>4. \A n \in Starts(journal) : Closed(journal, n) => Closed(journal', n)
    BY <1>0, <1>2, ClosedAppend
  <2>5. ASSUME NEW k \in 1 .. Len(journal'), NEW c \in ToSet(journal'[k].calls)
        PROVE  k \in 1 .. Len(journal) /\ c \in ToSet(journal[k].calls)
    <3>1. ToSet(<<>>) = {}
      BY DEF ToSet
    <3>2. k # Len(journal) + 1
      BY <1>2, <2>1, <2>5, <3>1
    <3> QED BY <2>1, <2>5, <3>2
  <2>6. Anchored(p)'
    <3>1. \A i \in 1 .. Len(todo[p]) : TaskAnchored(journal', todo[p][i])
      BY <1>0, <1>2, AnchoredAppend DEF Anchored
    <3> QED BY <3>1 DEF Anchored
  <2>7. Covered(p)'
    <3> SUFFICES ASSUME Current(p)'
                 PROVE  Covered(p)'
      BY DEF Covered
    <3>1. \A n \in Starts(journal') :
            \/ Closed(journal', n)
            \/ open[p] # NothingOpen
            \/ \E i \in 1 .. Len(todo[p]) : todo[p][i].inv = n
      BY <2>2, <2>4 DEF Covered
    <3>2. \A k \in 1 .. Len(journal') : \A c \in ToSet(journal'[k].calls) :
            Unstarted(journal', c) =>
              \E i \in 1 .. Len(todo[p]) : todo[p][i].stage = "unstarted" /\ todo[p][i].call = c
      BY <2>2, <2>5 DEF Covered
    <3>3. \A i \in 1 .. Len(todo[p]) :
            todo[p][i].stage = "done" => todo[p][i].status = ReceiptOf(journal', todo[p][i].inv)
      BY <2>3 DEF Covered
    <3> QED BY <3>1, <3>2, <3>3 DEF Covered
  <2> QED BY <2>6, <2>7
<1> QED BY <1>1, <1>2

-----------------------------------------------------------------------------
(* Steps that leave the tasks of a process alone.                           *)

\* What the processes share besides the journal is typed.
WorldTypes ==
  /\ pending \in Seq(Mails) /\ sent \in Seq(Mails) /\ effects \in [Calls -> Nat]
  /\ starts \in 0 .. MaxStarts /\ foreign \in 0 .. MaxForeign

\* The parts of Typed.
LEMMA TypedIs ==
  ASSUME Typed
  PROVE  /\ LocalTypes /\ WorldTypes
         /\ journal \in Seq(Event) /\ Len(journal) \in Nat /\ Len(journal) <= MaxEvents
         /\ \A q \in Procs : known[q] <= Len(journal)
         /\ {Width, Limit, Batch, MaxEvents, MaxStarts, MaxForeign} \subseteq Nat
<1>1. LocalTypes /\ WorldTypes
  BY Zenon DEF Typed, TypeOK, LocalTypes, WorldTypes
<1>2. /\ journal \in Seq(Event) /\ Len(journal) <= MaxEvents
      /\ \A q \in Procs : known[q] <= Len(journal)
  BY Zenon DEF Typed, TypeOK
<1>3. Len(journal) \in Nat
  BY <1>2
<1> QED BY <1>1, <1>2, <1>3, AgentLoopAssumption

\* A function changed at one process.
LEMMA OneChanges ==
  ASSUME NEW S, NEW f \in [Procs -> S], NEW p \in Procs, NEW v \in S, NEW g,
         g = [f EXCEPT ![p] = v]
  PROVE  g \in [Procs -> S] /\ g[p] = v /\ \A q \in Procs : q # p => g[q] = f[q]
OBVIOUS

\* Where a process goes, and what it keeps of an answer.
LEMMA GotoIs ==
  ASSUME Typed, NEW p \in Procs, NEW f \in Phases, Goto(p, f)
  PROVE  pc' \in [Procs -> Phases] /\ pc'[p] = f /\ \A q \in Procs : q # p => pc'[q] = pc[q]
BY TypedIs, OneChanges DEF LocalTypes, Goto

LEMMA PriorIs ==
  ASSUME Typed, NEW p \in Procs, NEW r \in Answer, prior' = [prior EXCEPT ![p] = r]
  PROVE  prior' \in [Procs -> Answer] /\ prior'[p] = r /\ \A q \in Procs : q # p => prior'[q] = prior[q]
BY TypedIs, OneChanges DEF LocalTypes

\* The answers of the model that carry no calls.
LEMMA AnswerIs ==
  /\ NoAnswer \in Answer /\ NoAnswer.state = "none" /\ NoAnswer.calls = <<>>
  /\ \A s \in {"continue", "refused", "threw"} :
       /\ [NoAnswer EXCEPT !.state = s] \in Answer
       /\ [NoAnswer EXCEPT !.state = s].state = s
<1>1. <<>> \in Seq(Calls)
  BY EmptySeq
<1> QED BY <1>1 DEF NoAnswer, Answer, Stops

\* The events of the loop.
LEMMA EventIs ==
  /\ \A m \in Mails \cup {None} : /\ UserEvent(m) \in Event /\ UserEvent(m).type = "user"
                                  /\ UserEvent(m).call = m /\ UserEvent(m).calls = <<>>
  /\ StartedEvent \in Event /\ StartedEvent.type = "model.started" /\ StartedEvent.calls = <<>>
  /\ InterruptedEvent \in Event /\ InterruptedEvent.type = "model.interrupted"
     /\ InterruptedEvent.calls = <<>>
  /\ \A s \in Stops : /\ CompletedEvent(s) \in Event /\ CompletedEvent(s).type = "model.completed"
                      /\ CompletedEvent(s).status = s /\ CompletedEvent(s).calls = <<>>
  /\ ErrorEvent \in Event /\ ErrorEvent.type = "model.completed" /\ ErrorEvent.status = "threw"
     /\ ErrorEvent.calls = <<>>
  /\ \A cs \in Seq(Calls) : /\ AssistantEvent(cs) \in Event /\ AssistantEvent(cs).type = "assistant"
                            /\ AssistantEvent(cs).calls = cs
  /\ \A s \in Outcomes : /\ OutcomeEvent(s) \in Event /\ OutcomeEvent(s).type = "run.completed"
                         /\ OutcomeEvent(s).status = s /\ OutcomeEvent(s).calls = <<>>
  /\ Plain("protocol.error") \in Event /\ Plain("protocol.error").type = "protocol.error"
     /\ Plain("protocol.error").calls = <<>>
<1>1. <<>> \in Seq(Calls)
  BY EmptySeq
<1>2. \A cs \in Seq(Calls) : /\ AssistantEvent(cs) \in Event /\ AssistantEvent(cs).type = "assistant"
                            /\ AssistantEvent(cs).calls = cs
  BY DEF AssistantEvent, Plain, Event, Types
<1>3. \A s \in Outcomes : /\ OutcomeEvent(s) \in Event /\ OutcomeEvent(s).type = "run.completed"
                         /\ OutcomeEvent(s).status = s /\ OutcomeEvent(s).calls = <<>>
  BY <1>1 DEF OutcomeEvent, Plain, Event, Types
<1>4. \A s \in Stops : /\ CompletedEvent(s) \in Event /\ CompletedEvent(s).type = "model.completed"
                      /\ CompletedEvent(s).status = s /\ CompletedEvent(s).calls = <<>>
  BY <1>1 DEF CompletedEvent, Plain, Event, Types
<1>5. \A m \in Mails \cup {None} : /\ UserEvent(m) \in Event /\ UserEvent(m).type = "user"
                                  /\ UserEvent(m).call = m /\ UserEvent(m).calls = <<>>
  BY <1>1 DEF UserEvent, Plain, Event, Types
<1> QED BY <1>1, <1>2, <1>3, <1>4, <1>5 DEF StartedEvent, InterruptedEvent, ErrorEvent, Plain, Event, Types

\* The events of actions.
LEMMA ActionEventIs ==
  ASSUME NEW t \in Task, t.status \in Statuses
  PROVE  /\ ActionCompleted(t) \in Event /\ ActionCompleted(t).type = "action.completed"
         /\ ActionCompleted(t).inv = t.inv /\ ActionCompleted(t).call = t.call
         /\ ActionCompleted(t).status = t.status /\ ActionCompleted(t).calls = <<>>
         /\ ResultEvent(t) \in Event /\ ResultEvent(t).type = "result"
         /\ ResultEvent(t).inv = t.inv /\ ResultEvent(t).call = t.call
         /\ ResultEvent(t).status = t.status /\ ResultEvent(t).calls = <<>>
<1>1. <<>> \in Seq(Calls)
  BY EmptySeq
<1>2. t.call \in Calls /\ t.inv \in Nat
  BY DEF Task
<1> QED BY <1>1, <1>2 DEF ActionCompleted, ResultEvent, Plain, Event, Types

\* A step that changes where a process stands and appends at most an event
\* that is not about an action.
LEMMA MemoryStep ==
  ASSUME LoopInv, NEW p \in Procs, LocalTypes', WorldTypes', Others(p),
         todo'[p] = todo[p], open'[p] = open[p],
         \/ journal' = journal /\ known' = known
         \/ \E e \in Event : /\ Write(p, e) /\ e.calls = <<>> /\ MayFollow(e)
                             /\ e.type \notin {"action.started", "action.completed", "result"},
         pc'[p] \notin {"down", "unwinding"} => pc[p] \notin {"down", "unwinding"},
         InPhase(p)', Calling(p)'
  PROVE  LoopInv'
<1>1. Typed /\ Anchored(p) /\ Covered(p)
  BY DEF LoopInv
<1>2. Grows /\ Typed' /\ (Current(p)' => Current(p))
  <2>1. CASE journal' = journal /\ known' = known
    <3>1. Typed'
      BY <1>1, <2>1, TypedIs DEF Typed, TypeOK, LocalTypes, WorldTypes
    <3> QED BY <2>1, <3>1 DEF Grows, Current, HeadExpected
  <2>2. ASSUME NEW e \in Event, Write(p, e), MayFollow(e)
        PROVE  Grows /\ Typed' /\ (Current(p)' => Current(p))
    <3>1. Appended(p, e) /\ \A q \in Procs : known'[q] <= Len(journal')
      BY <1>1, <2>2, WriteIs
    <3>2. Typed'
      BY <3>1 DEF Typed, TypeOK, LocalTypes, WorldTypes, Appended
    <3> QED BY <2>2, <3>1, <3>2 DEF Grows, Appended, Current
  <2> QED BY <2>1, <2>2
<1>3. \/ journal' = journal
      \/ \E e \in Event : /\ journal' = Append(journal, e) /\ e.calls = <<>>
                          /\ e.type \notin {"action.started", "action.completed", "result"}
  BY DEF Write
<1>4. Anchored(p)' /\ Covered(p)'
  BY <1>1, <1>2, <1>3, TasksKept
<1> QED BY <1>2, <1>4, Assemble DEF ProcessInv

\* A run ends.
LEMMA FinishStep ==
  ASSUME LoopInv, NEW p \in Procs, NEW status \in Outcomes, Finish(p, status),
         status = "completed" => AnswerSawAll(journal)
  PROVE  LoopInv'
<1>1. Typed
  BY DEF LoopInv
<1>2. /\ Appended(p, OutcomeEvent(status)) /\ Down(p) /\ Others(p) /\ Typed'
  BY <1>1, FinishIs
<1>3. Grows
  BY <1>2, EventIs DEF Grows, Appended, MayFollow, Preceded
<1> QED BY <1>2, <1>3, DownInv, Assemble

-----------------------------------------------------------------------------
(* Starting, stopping and the head of the loop.                             *)

\* With no tasks and nothing left open, every action is closed.
LEMMA ClosedNow ==
  ASSUME NEW p \in Procs, Covered(p), Current(p), todo[p] = <<>>, open[p] = NothingOpen
  PROVE  AllClosed(journal)
BY DEF Covered, AllClosed

\* A final answer that stopped with "end" completes the run.
LEMMA OutcomeIs ==
  ASSUME NEW stop \in Stops
  PROVE  FinalOutcome(stop) \in Outcomes /\ (FinalOutcome(stop) = "completed" => stop = "end")
BY DEF FinalOutcome, Stops, Outcomes

LEMMA AnswerCompletes ==
  ASSUME LoopInv, NEW p \in Procs, Current(p), Answering(p), todo[p] = <<>>, open[p] = NothingOpen
  PROVE  FinalOutcome(prior[p].stop) = "completed" => AnswerSawAll(journal)
<1>1. /\ Typed /\ Wellformed(journal) /\ Covered(p) /\ Calling(p)
  BY DEF LoopInv
<1>2. journal \in Seq(Event) /\ prior[p] \in Answer
  BY <1>1, TypedIs DEF LocalTypes
<1>3. AllClosed(journal)
  BY <1>1, ClosedNow
<1>4. Earned(journal, prior[p].stop) /\ prior[p].stop \in Stops
  BY <1>1, <1>2 DEF Calling, Answer
<1> QED BY <1>1, <1>2, <1>3, <1>4, OutcomeIs, EarnedSawAll

LEMMA ExitStep ==
  ASSUME LoopInv, NEW p \in Procs, Exit(p)
  PROVE  LoopInv'
<1>1. Typed
  BY DEF LoopInv
<1>2. /\ Stop(p) /\ journal' = journal
      /\ pending' = pending /\ sent' = sent /\ effects' = effects
      /\ starts' = starts /\ foreign' = foreign
  BY DEF Exit, world
<1>3. Down(p) /\ Others(p) /\ LocalTypes' /\ \A q \in Procs : known'[q] <= Len(journal)
  BY <1>1, <1>2, StopIs
<1>4. Typed'
  BY <1>1, <1>2, <1>3, TypedIs DEF Typed, TypeOK, LocalTypes, WorldTypes
<1>5. Grows
  BY <1>2 DEF Grows
<1> QED BY <1>3, <1>4, <1>5, DownInv, Assemble

LEMMA CheckpointRepairStep ==
  ASSUME LoopInv, NEW p \in Procs, CheckpointRepair(p)
  PROVE  LoopInv'
BY FinishStep DEF CheckpointRepair, Outcomes

LEMMA LimitReachedStep ==
  ASSUME LoopInv, NEW p \in Procs, LimitReached(p)
  PROVE  LoopInv'
BY FinishStep DEF LimitReached, Outcomes

LEMMA HostStopsStep ==
  ASSUME LoopInv, NEW p \in Procs, HostStops(p)
  PROVE  LoopInv'
BY FinishStep DEF HostStops, Outcomes

LEMMA FailRunStep ==
  ASSUME LoopInv, NEW p \in Procs, FailRun(p)
  PROVE  LoopInv'
BY FinishStep DEF FailRun, Outcomes

LEMMA FailRefusedStep ==
  ASSUME LoopInv, NEW p \in Procs, FailRefused(p)
  PROVE  LoopInv'
BY FinishStep DEF FailRefused, Outcomes

LEMMA EndRunStep ==
  ASSUME LoopInv, NEW p \in Procs, EndRun(p)
  PROVE  LoopInv'
<1>1. Typed /\ InPhase(p)
  BY DEF LoopInv
<1>2. prior[p] \in Answer
  BY <1>1, TypedIs DEF LocalTypes
<1>3. /\ pc[p] = "deliver" /\ prior[p].state = "answered"
      /\ Finish(p, FinalOutcome(prior[p].stop)) /\ HeadExpected(p)
  BY DEF EndRun, Finish
<1>4. Current(p) /\ Answering(p) /\ todo[p] = <<>> /\ open[p] = NothingOpen
  BY <1>1, <1>3 DEF Current, Answering, InPhase
<1>5. FinalOutcome(prior[p].stop) \in Outcomes
  BY <1>2, OutcomeIs DEF Answer
<1> QED BY <1>3, <1>4, <1>5, AnswerCompletes, FinishStep

\* A process that waits, or is about to unwind.
LEMMA ConflictStep ==
  ASSUME LoopInv, NEW p \in Procs, Conflict(p)
  PROVE  LoopInv'
<1>1. Typed /\ InPhase(p)
  BY DEF LoopInv
<1>2. pc' \in [Procs -> Phases] /\ pc'[p] = "unwinding" /\ \A q \in Procs : q # p => pc'[q] = pc[q]
  BY <1>1, GotoIs DEF Conflict, Phases
<1>3. /\ pending' = pending /\ sent' = sent /\ effects' = effects
      /\ starts' = starts /\ foreign' = foreign /\ journal' = journal
      /\ known' = known /\ turns' = turns /\ todo' = todo /\ open' = open
      /\ prior' = prior /\ batch' = batch
  BY DEF Conflict, world
<1>4. LocalTypes' /\ WorldTypes' /\ Others(p)
  BY <1>1, <1>2, <1>3, TypedIs DEF LocalTypes, WorldTypes, Others
<1>5. InPhase(p)' /\ Calling(p)'
  BY <1>1, <1>2, <1>3 DEF InPhase, Calling, Current
<1> QED BY <1>2, <1>3, <1>4, <1>5, MemoryStep

LEMMA NextTurnStep ==
  ASSUME LoopInv, NEW p \in Procs, NextTurn(p)
  PROVE  LoopInv'
<1>1. Typed /\ InPhase(p) /\ Calling(p)
  BY DEF LoopInv
<1>2. pc' \in [Procs -> Phases] /\ pc'[p] = "receive" /\ \A q \in Procs : q # p => pc'[q] = pc[q]
  BY <1>1, GotoIs DEF NextTurn, Phases
<1>3. /\ pc[p] = "top" /\ turns[p] < Limit
      /\ pending' = pending /\ sent' = sent /\ effects' = effects
      /\ starts' = starts /\ foreign' = foreign /\ journal' = journal
      /\ known' = known /\ turns' = turns /\ todo' = todo /\ open' = open
      /\ prior' = prior /\ batch' = batch
  BY DEF NextTurn, world, TurnsLeft
<1>4. LocalTypes' /\ WorldTypes' /\ Others(p)
  BY <1>1, <1>2, <1>3, TypedIs DEF LocalTypes, WorldTypes, Others
<1>5. InPhase(p)'
  BY <1>1, <1>2, <1>3 DEF InPhase
<1>6. Calling(p)'
  BY <1>1, <1>2, <1>3 DEF InPhase, Calling, Current, Answering, HeadExpected
<1> QED BY <1>2, <1>3, <1>4, <1>5, <1>6, MemoryStep

LEMMA RetryCallStep ==
  ASSUME LoopInv, NEW p \in Procs, RetryCall(p)
  PROVE  LoopInv'
<1>1. Typed /\ InPhase(p) /\ Calling(p)
  BY DEF LoopInv
<1>2. pc' \in [Procs -> Phases] /\ pc'[p] = "call" /\ \A q \in Procs : q # p => pc'[q] = pc[q]
  BY <1>1, GotoIs DEF RetryCall, Phases
<1>3. /\ pc[p] = "failed"
      /\ pending' = pending /\ sent' = sent /\ effects' = effects
      /\ starts' = starts /\ foreign' = foreign /\ journal' = journal
      /\ known' = known /\ turns' = turns /\ todo' = todo /\ open' = open
      /\ prior' = prior /\ batch' = batch
  BY DEF RetryCall, world
<1>4. LocalTypes' /\ WorldTypes' /\ Others(p)
  BY <1>1, <1>2, <1>3, TypedIs DEF LocalTypes, WorldTypes, Others
<1>5. InPhase(p)'
  BY <1>1, <1>2, <1>3 DEF InPhase
<1>6. Calling(p)'
  BY <1>1, <1>2, <1>3 DEF InPhase, Calling, Current, Answering, HeadExpected
<1> QED BY <1>2, <1>3, <1>4, <1>5, <1>6, MemoryStep

LEMMA NothingToReplayStep ==
  ASSUME LoopInv, NEW p \in Procs, NothingToReplay(p)
  PROVE  LoopInv'
<1>1. Typed /\ InPhase(p) /\ Calling(p)
  BY DEF LoopInv
<1>2. pc' \in [Procs -> Phases] /\ pc'[p] = "top" /\ \A q \in Procs : q # p => pc'[q] = pc[q]
  BY <1>1, GotoIs DEF NothingToReplay, Phases
<1>3. /\ prior' \in [Procs -> Answer] /\ prior'[p].state = "none"
      /\ \A q \in Procs : q # p => prior'[q] = prior[q]
  BY <1>1, PriorIs, AnswerIs DEF NothingToReplay
<1>4. /\ pc[p] = "repair" /\ todo[p] = <<>> /\ open[p] = NothingOpen /\ prior[p].state = "clean"
      /\ pending' = pending /\ sent' = sent /\ effects' = effects
      /\ starts' = starts /\ foreign' = foreign /\ journal' = journal
      /\ known' = known /\ turns' = turns /\ todo' = todo /\ open' = open
      /\ batch' = batch
  BY DEF NothingToReplay, Repaired, world
<1>5. LocalTypes' /\ WorldTypes' /\ Others(p)
  BY <1>1, <1>2, <1>3, <1>4, TypedIs DEF LocalTypes, WorldTypes, Others
<1>6. InPhase(p)'
  BY <1>1, <1>2, <1>3, <1>4 DEF InPhase
<1>7. Calling(p)'
  BY <1>1, <1>2, <1>3, <1>4 DEF InPhase, Calling, Current, Answering, HeadExpected
<1> QED BY <1>2, <1>4, <1>5, <1>6, <1>7, MemoryStep

LEMMA TurnDoneStep ==
  ASSUME LoopInv, NEW p \in Procs, TurnDone(p)
  PROVE  LoopInv'
<1>1. Typed /\ InPhase(p) /\ Calling(p)
  BY DEF LoopInv
<1>2. CASE open[p].pending
  BY <1>2, FinishStep DEF TurnDone, Outcomes
<1>3. CASE ~open[p].pending
  <2>1. pc' \in [Procs -> Phases] /\ pc'[p] = "top" /\ \A q \in Procs : q # p => pc'[q] = pc[q]
    BY <1>1, <1>3, GotoIs DEF TurnDone, Phases
  <2>2. /\ pc[p] = "act" /\ todo[p] = <<>>
        /\ pending' = pending /\ sent' = sent /\ effects' = effects
        /\ starts' = starts /\ foreign' = foreign /\ journal' = journal
        /\ known' = known /\ turns' = turns /\ todo' = todo /\ open' = open
        /\ prior' = prior /\ batch' = batch
    BY <1>3 DEF TurnDone, world
  <2>3. open[p] = NothingOpen
    <3>1. open[p] \in [unreconciled : BOOLEAN, pending : BOOLEAN]
      BY <1>1, TypedIs DEF LocalTypes
    <3>2. ~open[p].unreconciled
      BY <1>1, <2>2 DEF InPhase
    <3>3. open[p].unreconciled = FALSE /\ open[p].pending = FALSE
      BY <1>3, <3>1, <3>2
    <3> QED BY <3>1, <3>3 DEF NothingOpen
  <2>4. LocalTypes' /\ WorldTypes' /\ Others(p)
    BY <1>1, <2>1, <2>2, TypedIs DEF LocalTypes, WorldTypes, Others
  <2>5. InPhase(p)'
    BY <1>1, <2>1, <2>2, <2>3 DEF InPhase
  <2>6. Calling(p)'
    BY <1>1, <2>1, <2>2 DEF InPhase, Calling, Current, Answering, HeadExpected
  <2> QED BY <2>1, <2>2, <2>4, <2>5, <2>6, MemoryStep
<1> QED BY <1>2, <1>3

-----------------------------------------------------------------------------
(* Mail.                                                                    *)

Batches == Seq([mail : Mails, told : BOOLEAN])

\* The batch a process reads.
LEMMA BatchIs ==
  ASSUME Typed, NEW p \in Procs, ReadMail(p)
  PROVE  /\ batch' \in [Procs -> Batches] /\ \A q \in Procs : q # p => batch'[q] = batch[q]
         /\ Len(batch'[p]) \in Nat /\ Len(batch'[p]) <= Len(pending)
         /\ \A i \in 1 .. Len(batch'[p]) :
              batch'[p][i] = [mail |-> pending[i], told |-> pending[i] \in Journaled]
<1> DEFINE n == Min({Len(pending), Batch})
           b == [i \in 1 .. n |-> [mail |-> pending[i], told |-> pending[i] \in Journaled]]
<1>1. pending \in Seq(Mails) /\ Len(pending) \in Nat /\ Batch \in Nat
  <2>1. pending \in Seq(Mails)
    BY TypedIs DEF WorldTypes
  <2> QED BY <2>1, TypedIs
<1>2. n \in Nat /\ n <= Len(pending)
  <2> DEFINE S == {Len(pending), Batch}
  <2>1. S \in SUBSET Nat /\ S # {} /\ Len(pending) \in S
    BY <1>1
  <2> HIDE DEF S
  <2>2. Min(S) \in S /\ \A m \in S : Min(S) <= m
    BY <2>1, MinIsLeast
  <2> QED BY <2>1, <2>2 DEF S
<1>3. batch' = [batch EXCEPT ![p] = b]
  BY DEF ReadMail
<1> HIDE DEF n
<1>4. \A i \in 1 .. n : b[i] \in [mail : Mails, told : BOOLEAN]
  BY <1>1, <1>2
<1>5. b \in Batches /\ Len(b) = n
  BY <1>2, <1>4 DEF Batches
<1>6. \A i \in 1 .. n : b[i] = [mail |-> pending[i], told |-> pending[i] \in Journaled]
  OBVIOUS
<1> HIDE DEF b
<1>7. batch \in [Procs -> Batches]
  BY TypedIs DEF LocalTypes, Batches
<1>8. batch' \in [Procs -> Batches] /\ batch'[p] = b /\ \A q \in Procs : q # p => batch'[q] = batch[q]
  BY <1>3, <1>5, <1>7, OneChanges
<1> QED BY <1>2, <1>5, <1>6, <1>8

LEMMA ReadMailStep ==
  ASSUME LoopInv, NEW p \in Procs, ReadMail(p)
  PROVE  LoopInv'
<1>1. Typed /\ InPhase(p) /\ Calling(p)
  BY DEF LoopInv
<1>2. pc' \in [Procs -> Phases] /\ pc'[p] = "deliver" /\ \A q \in Procs : q # p => pc'[q] = pc[q]
  BY <1>1, GotoIs DEF ReadMail, Phases
<1>3. batch' \in [Procs -> Batches] /\ \A q \in Procs : q # p => batch'[q] = batch[q]
  BY <1>1, BatchIs
<1>4. /\ pc[p] = "receive"
      /\ pending' = pending /\ sent' = sent /\ effects' = effects
      /\ starts' = starts /\ foreign' = foreign /\ journal' = journal
      /\ known' = known /\ turns' = turns /\ todo' = todo /\ open' = open
      /\ prior' = prior
  BY DEF ReadMail, world
<1>5. LocalTypes' /\ WorldTypes' /\ Others(p)
  BY <1>1, <1>2, <1>3, <1>4, TypedIs DEF LocalTypes, WorldTypes, Others, Batches
<1>6. InPhase(p)'
  BY <1>1, <1>2, <1>4 DEF InPhase
<1>7. Calling(p)'
  BY <1>1, <1>2, <1>4 DEF InPhase, Calling, Current, Answering, HeadExpected
<1> QED BY <1>2, <1>4, <1>5, <1>6, <1>7, MemoryStep

\* The first message of a batch is marked as told.
LEMMA TellingIs ==
  ASSUME Typed, NEW p \in Procs, DeliverMail(p)
  PROVE  /\ batch' \in [Procs -> Batches] /\ \A q \in Procs : q # p => batch'[q] = batch[q]
         /\ Len(batch[p]) \in Nat /\ Len(batch[p]) > 0 /\ Len(batch'[p]) = Len(batch[p])
         /\ Head(batch[p]) = batch[p][1] /\ batch[p][1].mail \in Mails
         /\ batch'[p][1].mail = batch[p][1].mail /\ batch'[p][1].told
         /\ \A i \in 2 .. Len(batch[p]) : batch'[p][i] = batch[p][i]
         /\ \A i \in 1 .. Len(batch[p]) : batch'[p][i].mail = batch[p][i].mail
<1> DEFINE b == [batch[p] EXCEPT ![1].told = TRUE]
<1>1. batch \in [Procs -> Batches] /\ batch[p] \in Batches
  BY TypedIs DEF LocalTypes, Batches
<1>2. /\ batch[p] # <<>> /\ batch' = [batch EXCEPT ![p][1].told = TRUE]
  BY DEF DeliverMail
<1> DEFINE R == [mail : Mails, told : BOOLEAN]
<1>3. /\ Len(batch[p]) \in Nat /\ Len(batch[p]) > 0 /\ Head(batch[p]) = batch[p][1]
      /\ \A i \in 1 .. Len(batch[p]) : batch[p][i] \in R
  <2>1. batch[p] \in Seq(R)
    BY <1>1 DEF Batches
  <2> HIDE DEF R
  <2> QED BY <1>2, <2>1
<1>4. /\ b \in Batches /\ Len(b) = Len(batch[p]) /\ b[1].told /\ b[1].mail = batch[p][1].mail
      /\ \A i \in 2 .. Len(batch[p]) : b[i] = batch[p][i]
  <2> DEFINE t == [batch[p][1] EXCEPT !.told = TRUE]
  <2>1. batch[p][1] \in R
    BY <1>3
  <2>2. t \in R /\ t.told /\ t.mail = batch[p][1].mail
    BY <2>1
  <2>3. batch[p] \in Seq(R) /\ b = [batch[p] EXCEPT ![1] = t]
    BY <1>1 DEF Batches
  <2> HIDE DEF R, t, b
  <2>4. b \in Seq(R) /\ Len(b) = Len(batch[p]) /\ b[1] = t
        /\ \A i \in 2 .. Len(batch[p]) : b[i] = batch[p][i]
    BY <1>3, <2>2, <2>3
  <2> QED BY <2>2, <2>4 DEF Batches, R
<1>5. batch' = [batch EXCEPT ![p] = b]
  BY <1>1, <1>2
<1> HIDE DEF b
<1>6. batch' \in [Procs -> Batches] /\ batch'[p] = b /\ \A q \in Procs : q # p => batch'[q] = batch[q]
  BY <1>1, <1>4, <1>5, OneChanges
<1> QED BY <1>3, <1>4, <1>6

LEMMA DeliverMailStep ==
  ASSUME LoopInv, NEW p \in Procs, DeliverMail(p)
  PROVE  LoopInv'
<1> DEFINE e == UserEvent(batch[p][1].mail)
<1>1. Typed /\ InPhase(p) /\ Calling(p)
  BY DEF LoopInv
<1>2. /\ batch' \in [Procs -> Batches] /\ \A q \in Procs : q # p => batch'[q] = batch[q]
      /\ Head(batch[p]) = batch[p][1] /\ batch[p][1].mail \in Mails
  BY <1>1, TellingIs
<1>3. e \in Event /\ e.type = "user" /\ e.calls = <<>>
  BY <1>2, EventIs
<1>4. /\ pc[p] = "deliver" /\ Write(p, e)
      /\ prior' = [prior EXCEPT ![p] = IF @.state = "none" THEN @ ELSE [NoAnswer EXCEPT !.state = "continue"]]
      /\ pending' = pending /\ sent' = sent /\ effects' = effects
      /\ starts' = starts /\ foreign' = foreign
      /\ pc' = pc /\ turns' = turns /\ todo' = todo /\ open' = open
  BY <1>2 DEF DeliverMail, world
<1>5. /\ prior' \in [Procs -> Answer] /\ \A q \in Procs : q # p => prior'[q] = prior[q]
      /\ prior'[p].state = IF prior[p].state = "none" THEN "none" ELSE "continue"
  <2>1. prior \in [Procs -> Answer]
    BY <1>1, TypedIs DEF LocalTypes
  <2>2. prior' = [prior EXCEPT ![p] = IF prior[p].state = "none" THEN prior[p] ELSE [NoAnswer EXCEPT !.state = "continue"]]
    BY <1>4, <2>1
  <2> QED BY <1>1, <2>1, <2>2, PriorIs, AnswerIs
<1>6. /\ Appended(p, e) /\ known' \in [Procs -> 0 .. MaxEvents]
      /\ \A q \in Procs : q # p => known'[q] = known[q]
  BY <1>1, <1>3, <1>4, WriteIs
<1>7. LocalTypes' /\ WorldTypes' /\ Others(p)
  BY <1>1, <1>2, <1>4, <1>5, <1>6, TypedIs DEF LocalTypes, WorldTypes, Others, Batches
<1>8. MayFollow(e)
  BY <1>3 DEF MayFollow, Preceded
<1>9. InPhase(p)'
  BY <1>1, <1>4, <1>5 DEF InPhase
<1>10. Followed(journal')
  BY <1>1, <1>3, <1>6, TypedIs, FollowedAppend DEF Appended
<1>11. Calling(p)'
  BY <1>4, <1>5, <1>10 DEF Calling, Answering
<1> HIDE DEF e
<1> QED BY <1>3, <1>4, <1>7, <1>8, <1>9, <1>11, MemoryStep

\* The first message of a batch is acknowledged.
LEMMA AcknowledgedIs ==
  ASSUME Typed, NEW p \in Procs, Acknowledge(p)
  PROVE  /\ batch' \in [Procs -> Batches] /\ \A q \in Procs : q # p => batch'[q] = batch[q]
         /\ Len(batch[p]) \in Nat /\ Len(batch[p]) > 0 /\ Len(batch'[p]) = Len(batch[p]) - 1
         /\ Head(batch[p]) = batch[p][1] /\ batch[p][1].mail \in Mails /\ batch[p][1].told
         /\ \A i \in 1 .. Len(batch'[p]) : batch'[p][i] = batch[p][i + 1]
         /\ pending' = Unacknowledged(batch[p][1].mail)
<1>1. batch \in [Procs -> Batches] /\ batch[p] \in Batches
  BY TypedIs DEF LocalTypes, Batches
<1>2. /\ batch[p] # <<>> /\ batch' = [batch EXCEPT ![p] = Tail(@)] /\ Head(batch[p]).told
      /\ pending' = Unacknowledged(Head(batch[p]).mail)
  BY DEF Acknowledge
<1>3. /\ Len(batch[p]) \in Nat /\ Len(batch[p]) > 0 /\ Head(batch[p]) = batch[p][1]
      /\ batch[p][1] \in [mail : Mails, told : BOOLEAN]
      /\ Tail(batch[p]) \in Batches /\ Len(Tail(batch[p])) = Len(batch[p]) - 1
      /\ \A i \in 1 .. Len(Tail(batch[p])) : Tail(batch[p])[i] = batch[p][i + 1]
  <2> DEFINE R == [mail : Mails, told : BOOLEAN]
  <2>1. batch[p] \in Seq(R) /\ Batches = Seq(R)
    BY <1>1 DEF Batches
  <2> HIDE DEF R
  <2>2. /\ Len(batch[p]) \in Nat /\ Len(batch[p]) > 0 /\ Head(batch[p]) = batch[p][1]
        /\ batch[p][1] \in R
        /\ Tail(batch[p]) \in Batches /\ Len(Tail(batch[p])) = Len(batch[p]) - 1
        /\ \A i \in 1 .. Len(Tail(batch[p])) : Tail(batch[p])[i] = batch[p][i + 1]
    BY <1>2, <2>1
  <2> QED BY <2>2 DEF R
<1>4. batch' = [batch EXCEPT ![p] = Tail(batch[p])]
  BY <1>1, <1>2
<1>5. batch' \in [Procs -> Batches] /\ batch'[p] = Tail(batch[p])
      /\ \A q \in Procs : q # p => batch'[q] = batch[q]
  BY <1>1, <1>3, <1>4, OneChanges
<1> QED BY <1>2, <1>3, <1>5

\* What is left of the pending mail: all but the first of a message.
LEMMA UnacknowledgedIs ==
  ASSUME Typed, NEW m \in Mails
  PROVE  /\ Unacknowledged(m) \in Seq(Mails)
         /\ \/ Unacknowledged(m) = pending /\ m \notin ToSet(pending)
            \/ \E i \in 1 .. Len(pending) :
                 /\ pending[i] = m
                 /\ Len(Unacknowledged(m)) = Len(pending) - 1
                 /\ \A k \in 1 .. i - 1 : Unacknowledged(m)[k] = pending[k]
                 /\ \A k \in i .. Len(pending) - 1 : Unacknowledged(m)[k] = pending[k + 1]
<1> DEFINE i == SelectInSeq(pending, LAMBDA x : x = m)
           I == {k \in 1 .. Len(pending) : pending[k] = m}
<1>1. pending \in Seq(Mails) /\ Len(pending) \in Nat
  <2>1. pending \in Seq(Mails)
    BY TypedIs DEF WorldTypes
  <2> QED BY <2>1
<1>2. i = IF I # {} THEN Min(I) ELSE 0
  BY DEF SelectInSeq
<1>3. Unacknowledged(m) = IF i = 0 THEN pending ELSE RemoveAt(pending, i)
  BY DEF Unacknowledged
<1> HIDE DEF i
<1>4. CASE I = {}
  <2>1. Unacknowledged(m) = pending
    BY <1>2, <1>3, <1>4
  <2>2. m \notin ToSet(pending)
    BY <1>4 DEF ToSet
  <2> QED BY <1>1, <2>1, <2>2
<1>5. CASE I # {}
  <2>1. I \in SUBSET Nat
    OBVIOUS
  <2> HIDE DEF I
  <2>2. i \in I
    BY <1>2, <1>5, <2>1, MinIsLeast
  <2>3. i \in 1 .. Len(pending) /\ pending[i] = m
    BY <2>2 DEF I
  <2> DEFINE A == SubSeq(pending, 1, i - 1)
             B == SubSeq(pending, i + 1, Len(pending))
  <2>4. /\ A \in Seq(Mails) /\ Len(A) = i - 1 /\ \A k \in 1 .. i - 1 : A[k] = pending[k]
        /\ B \in Seq(Mails) /\ Len(B) = Len(pending) - i
        /\ \A k \in 1 .. Len(pending) - i : B[k] = pending[i + k]
    BY <1>1, <2>3
  <2>5. Unacknowledged(m) = A \o B
    <3>1. i # 0
      BY <2>3
    <3> QED BY <1>3, <3>1, Zenon DEF RemoveAt
  <2> HIDE DEF A, B
  <2>6. /\ A \o B \in Seq(Mails) /\ Len(A \o B) = Len(A) + Len(B)
        /\ \A k \in 1 .. Len(A) + Len(B) : (A \o B)[k] = IF k <= Len(A) THEN A[k] ELSE B[k - Len(A)]
    BY <2>4, ConcatProperties
  <2>7. \A k \in i .. Len(pending) - 1 : (A \o B)[k] = pending[k + 1]
    <3> TAKE k \in i .. Len(pending) - 1
    <3>1. /\ k \in 1 .. Len(A) + Len(B) /\ ~(k <= Len(A))
          /\ k - Len(A) \in 1 .. Len(pending) - i /\ i + (k - Len(A)) = k + 1
      BY <1>1, <2>3, <2>4
    <3> QED BY <2>4, <2>6, <3>1
  <2>8. \A k \in 1 .. i - 1 : (A \o B)[k] = pending[k]
    <3> TAKE k \in 1 .. i - 1
    <3>1. k \in 1 .. Len(A) + Len(B) /\ k <= Len(A)
      BY <1>1, <2>3, <2>4
    <3> QED BY <2>4, <2>6, <3>1
  <2>9. (i - 1) + (Len(pending) - i) = Len(pending) - 1
    BY <1>1, <2>3
  <2>10. A \o B \in Seq(Mails) /\ Len(A \o B) = Len(pending) - 1
    BY <2>4, <2>6, <2>9
  <2> QED BY <2>3, <2>5, <2>7, <2>8, <2>10, Zenon
<1> QED BY <1>4, <1>5, Zenon

LEMMA AcknowledgeStep ==
  ASSUME LoopInv, NEW p \in Procs, Acknowledge(p)
  PROVE  LoopInv'
<1>1. Typed /\ InPhase(p) /\ Calling(p)
  BY DEF LoopInv
<1>2. /\ batch' \in [Procs -> Batches] /\ \A q \in Procs : q # p => batch'[q] = batch[q]
      /\ pending' \in Seq(Mails)
  BY <1>1, AcknowledgedIs, UnacknowledgedIs
<1>3. /\ pc[p] = "deliver"
      /\ sent' = sent /\ effects' = effects
      /\ starts' = starts /\ foreign' = foreign /\ journal' = journal
      /\ pc' = pc /\ known' = known /\ turns' = turns /\ todo' = todo /\ open' = open
      /\ prior' = prior
  BY DEF Acknowledge, bounds
<1>4. LocalTypes' /\ WorldTypes' /\ Others(p)
  BY <1>1, <1>2, <1>3, TypedIs DEF LocalTypes, WorldTypes, Others, Batches
<1>5. InPhase(p)'
  BY <1>1, <1>3 DEF InPhase
<1>6. Calling(p)'
  BY <1>1, <1>3 DEF Calling, Current, Answering, HeadExpected
<1> QED BY <1>3, <1>4, <1>5, <1>6, MemoryStep

LEMMA MailDoneStep ==
  ASSUME LoopInv, NEW p \in Procs, MailDone(p)
  PROVE  LoopInv'
<1>1. Typed /\ InPhase(p) /\ Calling(p)
  BY DEF LoopInv
<1>2. /\ prior' \in [Procs -> Answer] /\ prior'[p].state = "none"
      /\ \A q \in Procs : q # p => prior'[q] = prior[q]
  BY <1>1, PriorIs, AnswerIs DEF MailDone
<1>3. /\ pc[p] = "deliver" /\ batch[p] = <<>>
      /\ pending' = pending /\ sent' = sent /\ effects' = effects
      /\ starts' = starts /\ foreign' = foreign /\ journal' = journal
      /\ known' = known /\ todo' = todo /\ open' = open /\ batch' = batch
  BY DEF MailDone, world
<1>4. \E f \in {"call", "top"} :
        /\ Goto(p, f) /\ prior[p].state \in {"none", "continue"}
        /\ turns' \in [Procs -> 0 .. Limit] /\ \A q \in Procs : q # p => turns'[q] = turns[q]
  <2>0. turns \in [Procs -> 0 .. Limit] /\ Limit \in Nat
    BY <1>1, TypedIs DEF LocalTypes
  <2>1. CASE /\ prior[p].state = "none" /\ Goto(p, "call")
             /\ turns' = [turns EXCEPT ![p] = @ + 1]
    <3>1. turns[p] + 1 \in 0 .. Limit
      BY <1>1, <1>3, <2>0, <2>1 DEF InPhase
    <3>2. turns' = [turns EXCEPT ![p] = turns[p] + 1]
      BY <2>0, <2>1
    <3>3. turns' \in [Procs -> 0 .. Limit] /\ \A q \in Procs : q # p => turns'[q] = turns[q]
      BY <2>0, <3>1, <3>2, OneChanges
    <3> QED BY <2>1, <3>3
  <2>2. CASE prior[p].state = "continue" /\ Goto(p, "top") /\ UNCHANGED turns
    BY <2>0, <2>2
  <2> QED BY <2>1, <2>2 DEF MailDone
<1>5. PICK f \in {"call", "top"} :
        /\ Goto(p, f) /\ prior[p].state \in {"none", "continue"}
        /\ turns' \in [Procs -> 0 .. Limit] /\ \A q \in Procs : q # p => turns'[q] = turns[q]
  BY <1>4
<1>6. pc' \in [Procs -> Phases] /\ pc'[p] = f /\ \A q \in Procs : q # p => pc'[q] = pc[q]
  BY <1>1, <1>5, GotoIs DEF Phases
<1>7. LocalTypes' /\ WorldTypes' /\ Others(p)
  BY <1>1, <1>2, <1>3, <1>5, <1>6, TypedIs DEF LocalTypes, WorldTypes, Others
<1>8. InPhase(p)'
  BY <1>1, <1>2, <1>3, <1>6 DEF InPhase
<1>9. Calling(p)'
  BY <1>1, <1>2, <1>3, <1>5, <1>6 DEF Calling, Current, Answering, HeadExpected
<1> QED BY <1>3, <1>6, <1>7, <1>8, <1>9, MemoryStep

-----------------------------------------------------------------------------
(* Model calls.                                                             *)

\* A process that knows the whole journal and is not before an outcome has
\* nothing open behind it.
LEMMA CallingIs ==
  ASSUME LoopInv, NEW p \in Procs, pc[p] \notin {"down", "unwinding"}, HeadExpected(p)
  PROVE  /\ Current(p)
         /\ pc[p] \in {"invoke", "answered"} =>
              Len(journal) > 0 /\ journal[Len(journal)].type = "model.started"
         /\ pc[p] = "message" =>
              /\ Len(journal) > 1
              /\ journal[Len(journal) - 1].type = "model.started"
              /\ journal[Len(journal)].type = "model.completed"
              /\ journal[Len(journal)].status = prior[p].stop
         /\ Answering(p) => Earned(journal, prior[p].stop)
         /\ ~Answering(p) => Followed(journal)
<1>1. Calling(p) /\ Current(p)
  BY DEF LoopInv, Current
<1> QED BY <1>1 DEF Calling

\* What a process that appends sees of the journal afterwards.
LEMMA WroteIs ==
  ASSUME Typed, NEW p \in Procs, NEW e \in Event, Write(p, e)
  PROVE  /\ Len(journal') = Len(journal) + 1 /\ journal'[Len(journal')] = e
         /\ \A i \in 1 .. Len(journal) : journal'[i] = journal[i]
         /\ journal \in Seq(Event) /\ Len(journal) \in Nat /\ journal' = Append(journal, e)
         /\ known' \in [Procs -> 0 .. MaxEvents] /\ HeadExpected(p)
         /\ \A q \in Procs : q # p => known'[q] = known[q]
<1>1. /\ Appended(p, e) /\ known' \in [Procs -> 0 .. MaxEvents]
      /\ \A q \in Procs : q # p => known'[q] = known[q]
  BY WriteIs
<1>2. journal \in Seq(Event)
  BY TypedIs
<1> QED BY <1>1, <1>2, AppendIs DEF Appended

LEMMA MarkInterruptedStep ==
  ASSUME LoopInv, NEW p \in Procs, MarkInterrupted(p)
  PROVE  LoopInv'
<1>1. Typed /\ InPhase(p)
  BY DEF LoopInv
<1>2. /\ pc[p] = "repair" /\ todo[p] = <<>> /\ open[p] = NothingOpen
      /\ prior[p].state \in {"dangling", "lost"}
      /\ Write(p, InterruptedEvent)
      /\ pending' = pending /\ sent' = sent /\ effects' = effects
      /\ starts' = starts /\ foreign' = foreign
      /\ turns' = turns /\ todo' = todo /\ open' = open /\ batch' = batch
  BY DEF MarkInterrupted, Repaired, world
<1>3. pc' \in [Procs -> Phases] /\ pc'[p] = "top" /\ \A q \in Procs : q # p => pc'[q] = pc[q]
  BY <1>1, GotoIs DEF MarkInterrupted, Phases
<1>4. /\ prior' \in [Procs -> Answer] /\ prior'[p].state = "none"
      /\ \A q \in Procs : q # p => prior'[q] = prior[q]
  BY <1>1, PriorIs, AnswerIs DEF MarkInterrupted
<1>5. /\ InterruptedEvent \in Event /\ InterruptedEvent.type = "model.interrupted"
      /\ InterruptedEvent.calls = <<>>
  BY EventIs
<1>6. /\ journal \in Seq(Event) /\ journal' = Append(journal, InterruptedEvent)
      /\ known' \in [Procs -> 0 .. MaxEvents] /\ HeadExpected(p)
      /\ \A q \in Procs : q # p => known'[q] = known[q]
  BY <1>1, <1>2, <1>5, WroteIs
<1>7. LocalTypes' /\ WorldTypes' /\ Others(p)
  BY <1>1, <1>2, <1>3, <1>4, <1>6, TypedIs DEF LocalTypes, WorldTypes, Others
<1>8. InPhase(p)'
  BY <1>1, <1>2, <1>3, <1>4 DEF InPhase
<1>9. Followed(journal)
  BY <1>2, <1>6, CallingIs DEF Answering
<1>10. Followed(journal')
  BY <1>5, <1>6, <1>9, FollowedAppend
<1>11. Calling(p)'
  BY <1>3, <1>10 DEF Calling, Answering
<1>12. MayFollow(InterruptedEvent)
  BY <1>5 DEF MayFollow, Preceded
<1> QED BY <1>2, <1>5, <1>7, <1>8, <1>11, <1>12, MemoryStep

LEMMA ReplayOutcomeStep ==
  ASSUME LoopInv, NEW p \in Procs, ReplayOutcome(p)
  PROVE  LoopInv'
<1> DEFINE status == FinalOutcome(prior[p].stop)
           e == OutcomeEvent(status)
<1>1. Typed /\ InPhase(p)
  BY DEF LoopInv
<1>2. /\ pc[p] = "repair" /\ todo[p] = <<>> /\ open[p] = NothingOpen
      /\ prior[p].state = "finished" /\ HeadExpected(p)
  BY DEF ReplayOutcome, Repaired, Write, Finish
<1>3. prior[p] \in Answer
  BY <1>1, TypedIs DEF LocalTypes
<1>4. status \in Outcomes
  BY <1>3, OutcomeIs DEF Answer
<1>5. Current(p) /\ Answering(p)
  BY <1>2 DEF Current, Answering
<1>6. status = "completed" => AnswerSawAll(journal)
  BY <1>2, <1>5, AnswerCompletes
<1>7. CASE Finish(p, status)
  BY <1>4, <1>6, <1>7, FinishStep
<1>8. CASE /\ Write(p, e)
           /\ Goto(p, "top")
           /\ prior' = [prior EXCEPT ![p] = NoAnswer]
           /\ UNCHANGED <<world, turns, todo, open, batch>>
  <2>1. /\ pending' = pending /\ sent' = sent /\ effects' = effects
        /\ starts' = starts /\ foreign' = foreign
        /\ turns' = turns /\ todo' = todo /\ open' = open /\ batch' = batch
    BY <1>8 DEF world
  <2>2. pc' \in [Procs -> Phases] /\ pc'[p] = "top" /\ \A q \in Procs : q # p => pc'[q] = pc[q]
    BY <1>1, <1>8, GotoIs DEF Phases
  <2>3. /\ prior' \in [Procs -> Answer] /\ prior'[p].state = "none"
        /\ \A q \in Procs : q # p => prior'[q] = prior[q]
    BY <1>1, <1>8, PriorIs, AnswerIs
  <2>4. e \in Event /\ e.type = "run.completed" /\ e.status = status /\ e.calls = <<>>
    BY <1>4, EventIs
  <2>5. /\ journal \in Seq(Event) /\ journal' = Append(journal, e)
        /\ known' \in [Procs -> 0 .. MaxEvents]
        /\ \A q \in Procs : q # p => known'[q] = known[q]
    BY <1>1, <1>8, <2>4, WroteIs
  <2>6. LocalTypes' /\ WorldTypes' /\ Others(p)
    BY <1>1, <2>1, <2>2, <2>3, <2>5, TypedIs DEF LocalTypes, WorldTypes, Others
  <2>7. InPhase(p)'
    BY <1>1, <1>2, <2>1, <2>2, <2>3 DEF InPhase
  <2>8. Followed(journal')
    BY <2>4, <2>5, FollowedAppend
  <2>9. Calling(p)'
    BY <2>2, <2>8 DEF Calling, Answering
  <2>10. MayFollow(e)
    BY <1>6, <2>4 DEF MayFollow, Preceded
  <2> HIDE DEF e, status
  <2> QED BY <1>2, <1>8, <2>1, <2>4, <2>6, <2>7, <2>9, <2>10, MemoryStep
<1> QED BY <1>7, <1>8 DEF ReplayOutcome

LEMMA CallModelStep ==
  ASSUME LoopInv, NEW p \in Procs, CallModel(p)
  PROVE  LoopInv'
<1>1. Typed /\ InPhase(p)
  BY DEF LoopInv
<1>2. /\ pc[p] = "call" /\ Write(p, StartedEvent)
      /\ pending' = pending /\ sent' = sent /\ effects' = effects
      /\ starts' = starts /\ foreign' = foreign
      /\ turns' = turns /\ todo' = todo /\ open' = open /\ batch' = batch /\ prior' = prior
  BY DEF CallModel, world
<1>3. pc' \in [Procs -> Phases] /\ pc'[p] = "invoke" /\ \A q \in Procs : q # p => pc'[q] = pc[q]
  BY <1>1, GotoIs DEF CallModel, Phases
<1>4. StartedEvent \in Event /\ StartedEvent.type = "model.started" /\ StartedEvent.calls = <<>>
  BY EventIs
<1>5. /\ journal \in Seq(Event) /\ journal' = Append(journal, StartedEvent)
      /\ Len(journal) \in Nat /\ Len(journal') = Len(journal) + 1 /\ journal'[Len(journal')] = StartedEvent
      /\ known' \in [Procs -> 0 .. MaxEvents] /\ HeadExpected(p)
      /\ \A q \in Procs : q # p => known'[q] = known[q]
  BY <1>1, <1>2, <1>4, WroteIs
<1>6. LocalTypes' /\ WorldTypes' /\ Others(p)
  BY <1>1, <1>2, <1>3, <1>5, TypedIs DEF LocalTypes, WorldTypes, Others
<1>7. InPhase(p)'
  BY <1>1, <1>2, <1>3 DEF InPhase
<1>8. Followed(journal)
  BY <1>2, <1>5, CallingIs DEF Answering
<1>9. Followed(journal')
  BY <1>4, <1>5, <1>8, FollowedAppend
<1>10. Calling(p)'
  BY <1>3, <1>4, <1>5, <1>9 DEF Calling, Answering
<1>11. MayFollow(StartedEvent)
  BY <1>4, <1>8 DEF MayFollow, Preceded
<1> QED BY <1>2, <1>4, <1>6, <1>7, <1>10, <1>11, MemoryStep

\* What the model may answer.
LEMMA ResponseIs ==
  ASSUME NEW r \in Responses
  PROVE  r \in Answer /\ r.state \in {"answered", "refused", "threw"}
         /\ (r.state = "answered" =>
               /\ IsInjective(r.calls)
               /\ ToSet(r.calls) \subseteq Callable)
<1>0. Callable \subseteq Calls /\ Width \in Nat
  BY AgentLoopAssumption DEF Callable
<1>1. ASSUME NEW stop \in FinalStops, r = [state |-> "answered", calls |-> <<>>, stop |-> stop]
      PROVE  /\ r \in Answer /\ r.state \in {"answered", "refused", "threw"}
             /\ IsInjective(r.calls) /\ ToSet(r.calls) \subseteq Callable
  <2>1. <<>> \in Seq(Calls) /\ stop \in Stops
    BY AgentLoopAssumption, EmptySeq DEF Stops
  <2>2. IsInjective(<<>>) /\ ToSet(<<>>) = {}
    BY DEF IsInjective, ToSet
  <2> QED BY <1>1, <2>1, <2>2 DEF Answer
<1>2. ASSUME NEW n \in 1 .. Width, NEW cs \in [1 .. n -> Callable], IsInjective(cs),
             r = [state |-> "answered", calls |-> cs, stop |-> "tool_use"]
      PROVE  /\ r \in Answer /\ r.state \in {"answered", "refused", "threw"}
             /\ IsInjective(r.calls) /\ ToSet(r.calls) \subseteq Callable
  <2>1. cs \in Seq(Calls) /\ Len(cs) = n /\ n \in Nat
    BY <1>0
  <2>2. ToSet(cs) \subseteq Callable
    BY <2>1 DEF ToSet
  <2> QED BY <1>2, <2>1, <2>2 DEF Answer, Stops
<1>3. CASE r \in {[NoAnswer EXCEPT !.state = "refused"], [NoAnswer EXCEPT !.state = "threw"]}
  BY <1>3, AnswerIs
<1> QED BY <1>1, <1>2, <1>3 DEF Responses

LEMMA InvokeStep ==
  ASSUME LoopInv, NEW p \in Procs, Invoke(p)
  PROVE  LoopInv'
<1>1. Typed /\ InPhase(p) /\ Calling(p)
  BY DEF LoopInv
<1>2. /\ pc[p] = "invoke"
      /\ pending' = pending /\ sent' = sent /\ effects' = effects
      /\ starts' = starts /\ foreign' = foreign /\ journal' = journal
      /\ known' = known /\ turns' = turns /\ todo' = todo /\ open' = open /\ batch' = batch
  BY DEF Invoke, world
<1>3. pc' \in [Procs -> Phases] /\ pc'[p] = "answered" /\ \A q \in Procs : q # p => pc'[q] = pc[q]
  BY <1>1, GotoIs DEF Invoke, Phases
<1>4. PICK r \in Responses : prior' = [prior EXCEPT ![p] = r]
  BY DEF Invoke
<1>5. r \in Answer /\ r.state \in {"answered", "refused", "threw"}
  BY ResponseIs
<1>6. /\ prior' \in [Procs -> Answer] /\ prior'[p] = r
      /\ \A q \in Procs : q # p => prior'[q] = prior[q]
  BY <1>1, <1>4, <1>5, PriorIs
<1>7. LocalTypes' /\ WorldTypes' /\ Others(p)
  BY <1>1, <1>2, <1>3, <1>6, TypedIs DEF LocalTypes, WorldTypes, Others
<1>8. InPhase(p)'
  BY <1>1, <1>2, <1>3, <1>5, <1>6 DEF InPhase
<1>9. Calling(p)'
  BY <1>1, <1>2, <1>3 DEF Calling, Current, Answering, HeadExpected
<1> QED BY <1>2, <1>3, <1>7, <1>8, <1>9, MemoryStep

LEMMA RecordErrorStep ==
  ASSUME LoopInv, NEW p \in Procs, RecordError(p)
  PROVE  LoopInv'
<1>1. Typed /\ InPhase(p)
  BY DEF LoopInv
<1>2. /\ pc[p] = "answered" /\ Write(p, ErrorEvent)
      /\ pending' = pending /\ sent' = sent /\ effects' = effects
      /\ starts' = starts /\ foreign' = foreign
      /\ turns' = turns /\ todo' = todo /\ open' = open /\ batch' = batch
  BY DEF RecordError, world
<1>3. PICK f \in {"failed", "refused"} : Goto(p, f)
  BY DEF RecordError
<1>4. pc' \in [Procs -> Phases] /\ pc'[p] = f /\ \A q \in Procs : q # p => pc'[q] = pc[q]
  BY <1>1, <1>3, GotoIs DEF Phases
<1>5. /\ prior' \in [Procs -> Answer] /\ prior'[p].state = "none"
      /\ \A q \in Procs : q # p => prior'[q] = prior[q]
  BY <1>1, PriorIs, AnswerIs DEF RecordError
<1>6. /\ ErrorEvent \in Event /\ ErrorEvent.type = "model.completed" /\ ErrorEvent.status = "threw"
      /\ ErrorEvent.calls = <<>>
  BY EventIs
<1>7. /\ journal \in Seq(Event) /\ journal' = Append(journal, ErrorEvent)
      /\ known' \in [Procs -> 0 .. MaxEvents] /\ HeadExpected(p)
      /\ \A q \in Procs : q # p => known'[q] = known[q]
  BY <1>1, <1>2, <1>6, WroteIs
<1>8. LocalTypes' /\ WorldTypes' /\ Others(p)
  BY <1>1, <1>2, <1>4, <1>5, <1>7, TypedIs DEF LocalTypes, WorldTypes, Others
<1>9. InPhase(p)'
  BY <1>1, <1>2, <1>4, <1>5 DEF InPhase
<1>10. /\ Followed(journal) /\ Len(journal) > 0 /\ journal[Len(journal)].type = "model.started"
  BY <1>2, <1>7, CallingIs DEF Answering
<1>11. Followed(journal')
  BY <1>6, <1>7, <1>10, FollowedAppend
<1>12. Calling(p)'
  BY <1>4, <1>11 DEF Calling, Answering
<1>13. MayFollow(ErrorEvent)
  BY <1>6, <1>10 DEF MayFollow, Preceded
<1> QED BY <1>2, <1>6, <1>8, <1>9, <1>12, <1>13, MemoryStep

LEMMA RecordProtocolErrorStep ==
  ASSUME LoopInv, NEW p \in Procs, RecordProtocolError(p)
  PROVE  LoopInv'
<1> DEFINE e == Plain("protocol.error")
<1>1. Typed /\ InPhase(p)
  BY DEF LoopInv
<1>2. /\ pc[p] = "refused" /\ Write(p, e) /\ prior' = [prior EXCEPT ![p].state = "refused"]
      /\ pending' = pending /\ sent' = sent /\ effects' = effects
      /\ starts' = starts /\ foreign' = foreign
      /\ pc' = pc /\ turns' = turns /\ todo' = todo /\ open' = open /\ batch' = batch
  BY DEF RecordProtocolError, world
<1>3. /\ prior' \in [Procs -> Answer] /\ prior'[p].state = "refused"
      /\ \A q \in Procs : q # p => prior'[q] = prior[q]
  <2>1. prior \in [Procs -> Answer] /\ prior[p] \in Answer
    BY <1>1, TypedIs DEF LocalTypes
  <2>2. [prior[p] EXCEPT !.state = "refused"] \in Answer
    BY <2>1 DEF Answer
  <2>3. [prior[p] EXCEPT !.state = "refused"].state = "refused"
    BY <2>1 DEF Answer
  <2>4. prior' = [prior EXCEPT ![p] = [prior[p] EXCEPT !.state = "refused"]]
    BY <1>2, <2>1
  <2> QED BY <1>1, <2>2, <2>3, <2>4, PriorIs
<1>4. e \in Event /\ e.type = "protocol.error" /\ e.calls = <<>>
  BY EventIs
<1>5. /\ journal \in Seq(Event) /\ journal' = Append(journal, e)
      /\ known' \in [Procs -> 0 .. MaxEvents] /\ HeadExpected(p)
      /\ \A q \in Procs : q # p => known'[q] = known[q]
  BY <1>1, <1>2, <1>4, WroteIs
<1>6. LocalTypes' /\ WorldTypes' /\ Others(p)
  BY <1>1, <1>2, <1>3, <1>5, TypedIs DEF LocalTypes, WorldTypes, Others
<1>7. InPhase(p)'
  BY <1>1, <1>2, <1>3 DEF InPhase
<1>8. Followed(journal)
  BY <1>2, <1>5, CallingIs DEF Answering
<1>9. Followed(journal')
  BY <1>4, <1>5, <1>8, FollowedAppend
<1>10. Calling(p)'
  BY <1>2, <1>9 DEF Calling, Answering
<1>11. MayFollow(e)
  BY <1>4 DEF MayFollow, Preceded
<1> HIDE DEF e
<1> QED BY <1>2, <1>4, <1>6, <1>7, <1>10, <1>11, MemoryStep

LEMMA RecordCompletionStep ==
  ASSUME LoopInv, NEW p \in Procs, RecordCompletion(p)
  PROVE  LoopInv'
<1> DEFINE e == CompletedEvent(prior[p].stop)
<1>1. Typed /\ InPhase(p)
  BY DEF LoopInv
<1>2. /\ pc[p] = "answered" /\ prior[p].state = "answered" /\ Write(p, e)
      /\ pending' = pending /\ sent' = sent /\ effects' = effects
      /\ starts' = starts /\ foreign' = foreign
      /\ turns' = turns /\ todo' = todo /\ open' = open /\ batch' = batch /\ prior' = prior
  BY DEF RecordCompletion, world
<1>3. pc' \in [Procs -> Phases] /\ pc'[p] = "message" /\ \A q \in Procs : q # p => pc'[q] = pc[q]
  BY <1>1, GotoIs DEF RecordCompletion, Phases
<1>4. prior[p].stop \in Stops
  BY <1>1, TypedIs DEF LocalTypes, Answer
<1>5. e \in Event /\ e.type = "model.completed" /\ e.status = prior[p].stop /\ e.calls = <<>>
  BY <1>4, EventIs
<1>6. /\ journal \in Seq(Event) /\ journal' = Append(journal, e)
      /\ Len(journal) \in Nat /\ Len(journal') = Len(journal) + 1 /\ journal'[Len(journal')] = e
      /\ \A i \in 1 .. Len(journal) : journal'[i] = journal[i]
      /\ known' \in [Procs -> 0 .. MaxEvents] /\ HeadExpected(p)
      /\ \A q \in Procs : q # p => known'[q] = known[q]
  BY <1>1, <1>2, <1>5, WroteIs
<1>7. LocalTypes' /\ WorldTypes' /\ Others(p)
  BY <1>1, <1>2, <1>3, <1>6, TypedIs DEF LocalTypes, WorldTypes, Others
<1>8. InPhase(p)'
  BY <1>1, <1>2, <1>3 DEF InPhase
<1>9. /\ Followed(journal) /\ Len(journal) > 0 /\ journal[Len(journal)].type = "model.started"
  BY <1>2, <1>6, CallingIs DEF Answering
<1>10. Followed(journal')
  BY <1>5, <1>6, <1>9, FollowedAppend
<1>11. /\ Len(journal') > 1 /\ journal'[Len(journal') - 1].type = "model.started"
       /\ journal'[Len(journal')].type = "model.completed"
       /\ journal'[Len(journal')].status = prior'[p].stop
  BY <1>2, <1>5, <1>6, <1>9
<1>12. Calling(p)'
  BY <1>3, <1>10, <1>11 DEF Calling, Answering
<1>13. MayFollow(e)
  BY <1>4, <1>5, <1>9 DEF MayFollow, Preceded
<1> HIDE DEF e
<1> QED BY <1>2, <1>5, <1>7, <1>8, <1>12, <1>13, MemoryStep

-----------------------------------------------------------------------------
(* Actions.                                                                 *)

\* A step that works on the tasks of a process.
LEMMA TaskStep ==
  ASSUME LoopInv, NEW p \in Procs, LocalTypes', WorldTypes', Others(p),
         \/ journal' = journal /\ \A q \in Procs : known'[q] <= Len(journal)
         \/ \E e \in Event : Write(p, e) /\ MayFollow(e),
         InPhase(p)', Anchored(p)', Covered(p)', Calling(p)'
  PROVE  LoopInv'
<1>1. Typed
  BY DEF LoopInv
<1>2. Grows /\ Typed'
  <2>1. CASE journal' = journal /\ \A q \in Procs : known'[q] <= Len(journal)
    BY <1>1, <2>1, TypedIs DEF Grows, Typed, TypeOK, LocalTypes, WorldTypes
  <2>2. ASSUME NEW e \in Event, Write(p, e), MayFollow(e)
        PROVE  Grows /\ Typed'
    <3>1. Appended(p, e) /\ \A q \in Procs : known'[q] <= Len(journal')
      BY <1>1, <2>2, WriteIs
    <3>2. Typed'
      BY <3>1 DEF Typed, TypeOK, LocalTypes, WorldTypes, Appended
    <3> QED BY <2>2, <3>1, <3>2 DEF Grows, Appended
  <2> QED BY <2>1, <2>2
<1> QED BY <1>2, Assemble DEF ProcessInv

\* The events of actions change nothing about the model call.
LEMMA ActionCalling ==
  ASSUME LoopInv, NEW p \in Procs, pc[p] \in {"repair", "act"}, NEW e \in Event, Write(p, e),
         e.type \in {"action.started", "action.completed", "result"},
         pc'[p] = pc[p], prior'[p] = prior[p]
  PROVE  Calling(p)'
<1>1. Typed
  BY DEF LoopInv
<1>2. journal \in Seq(Event) /\ journal' = Append(journal, e) /\ HeadExpected(p)
  BY <1>1, WroteIs
<1>3. /\ Answering(p) => Earned(journal, prior[p].stop)
      /\ ~Answering(p) => Followed(journal)
  BY <1>2, CallingIs
<1>4. /\ Answering(p) => Earned(journal', prior[p].stop)
      /\ ~Answering(p) => Followed(journal')
  BY <1>2, <1>3, EarnedAppend, FollowedAppend
<1>5. Answering(p)' <=> Answering(p)
  BY DEF Answering
<1> QED BY <1>4, <1>5 DEF Calling

\* A task that changes stays anchored, and so do the others.
LEMMA RetaskAnchored ==
  ASSUME Typed, NEW p \in Procs, Anchored(p), NEW i \in 1 .. Len(todo[p]), NEW t, Retasked(p, i, t),
         \/ journal' = journal
         \/ \E e \in Event : journal' = Append(journal, e),
         TaskAnchored(journal', t),
         t.inv \in {todo[p][i].inv, Len(journal) + 1}
  PROVE  Anchored(p)'
<1>1. /\ journal \in Seq(Event) /\ Len(journal) \in Nat /\ todo[p] \in Seq(Task)
      /\ Starts(journal) \subseteq 1 .. Len(journal)
  BY TypedIs DEF LocalTypes, Starts
<1>2. \A k \in 1 .. Len(todo[p]) : TaskAnchored(journal', todo[p][k])
  BY <1>1, AnchoredAppend DEF Anchored
<1>3. ASSUME NEW k \in 1 .. Len(todo[p])
      PROVE  todo[p][k].inv # Len(journal) + 1
  BY <1>1 DEF Anchored, TaskAnchored
<1>4. /\ Len(todo'[p]) = Len(todo[p]) /\ todo'[p][i] = t
      /\ \A k \in 1 .. Len(todo[p]) : k # i => todo'[p][k] = todo[p][k]
  BY DEF Retasked
<1>5. \A k \in 1 .. Len(todo'[p]) : TaskAnchored(journal', todo'[p][k])
  BY <1>2, <1>4
<1>6. \A k, l \in 1 .. Len(todo'[p]) :
         todo'[p][k].inv = todo'[p][l].inv /\ todo'[p][k].inv # 0 => k = l
  BY <1>3, <1>4 DEF Anchored
<1> QED BY <1>5, <1>6 DEF Anchored

\* A task that is done with leaves the others anchored.
LEMMA PoppedAnchored ==
  ASSUME Typed, NEW p \in Procs, Anchored(p), Popped(p),
         \/ journal' = journal
         \/ \E e \in Event : journal' = Append(journal, e)
  PROVE  Anchored(p)'
<1>1. journal \in Seq(Event) /\ todo[p] \in Seq(Task) /\ Len(todo[p]) \in Nat
  <2>1. journal \in Seq(Event) /\ todo[p] \in Seq(Task)
    BY TypedIs DEF LocalTypes
  <2> QED BY <2>1
<1>2. \A k \in 1 .. Len(todo[p]) : TaskAnchored(journal', todo[p][k])
  BY <1>1, AnchoredAppend DEF Anchored
<1>3. /\ Len(todo'[p]) = Len(todo[p]) - 1
      /\ \A k \in 1 .. Len(todo'[p]) : todo'[p][k] = todo[p][k + 1] /\ k + 1 \in 1 .. Len(todo[p])
  BY <1>1 DEF Popped
<1>4. \A k, l \in 1 .. Len(todo'[p]) :
         todo'[p][k].inv = todo'[p][l].inv /\ todo'[p][k].inv # 0 => k = l
  <2> TAKE k, l \in 1 .. Len(todo'[p])
  <2> SUFFICES ASSUME todo'[p][k].inv = todo'[p][l].inv, todo'[p][k].inv # 0
               PROVE  k = l
    OBVIOUS
  <2>1. k + 1 \in 1 .. Len(todo[p]) /\ l + 1 \in 1 .. Len(todo[p])
        /\ todo[p][k + 1].inv = todo[p][l + 1].inv /\ todo[p][k + 1].inv # 0
    BY <1>3
  <2>2. k + 1 = l + 1
    BY <2>1 DEF Anchored
  <2>3. k \in Int /\ l \in Int
    OBVIOUS
  <2> QED BY <2>2, <2>3
<1> QED BY <1>2, <1>3, <1>4 DEF Anchored

LEMMA UnreconciledStep ==
  ASSUME LoopInv, NEW p \in Procs, Unreconciled(p)
  PROVE  LoopInv'
<1>1. Typed /\ InPhase(p) /\ Anchored(p) /\ Covered(p) /\ Calling(p)
  BY DEF LoopInv
<1>2. /\ pc[p] = "repair" /\ todo[p] # <<>> /\ Head(todo[p]).stage = "unresolved"
      /\ open' = [open EXCEPT ![p].unreconciled = TRUE]
      /\ pending' = pending /\ sent' = sent /\ effects' = effects
      /\ starts' = starts /\ foreign' = foreign /\ journal' = journal
      /\ pc' = pc /\ known' = known /\ turns' = turns /\ prior' = prior /\ batch' = batch
  BY DEF Unreconciled, Repairing, world
<1>3. Popped(p) /\ Head(todo[p]) = todo[p][1] /\ Len(todo[p]) \in Nat
  BY <1>1, <1>2, HeadMoves DEF Unreconciled
<1>4. /\ open' \in [Procs -> [unreconciled : BOOLEAN, pending : BOOLEAN]]
      /\ open'[p] # NothingOpen /\ \A q \in Procs : q # p => open'[q] = open[q]
  <2>1. open \in [Procs -> [unreconciled : BOOLEAN, pending : BOOLEAN]]
    BY <1>1, TypedIs DEF LocalTypes
  <2> QED BY <1>2, <2>1 DEF NothingOpen
<1>5. LocalTypes' /\ WorldTypes' /\ Others(p)
  BY <1>1, <1>2, <1>3, <1>4, TypedIs DEF LocalTypes, WorldTypes, Others, Popped
<1>6. InPhase(p)'
  BY <1>1, <1>2 DEF InPhase
<1>7. Anchored(p)'
  BY <1>1, <1>2, <1>3, PoppedAnchored
<1>8. Calling(p)'
  BY <1>1, <1>2 DEF Calling, Current, Answering, HeadExpected
<1>9. Covered(p)'
  <2>1. /\ Len(todo'[p]) = Len(todo[p]) - 1
        /\ \A k \in 1 .. Len(todo'[p]) : todo'[p][k] = todo[p][k + 1] /\ k + 1 \in 1 .. Len(todo[p])
    BY <1>3 DEF Popped
  <2> SUFFICES ASSUME Current(p)'
               PROVE  Covered(p)'
    BY DEF Covered
  <2>2. Current(p)
    BY <1>2 DEF Current, HeadExpected
  <2>3. ASSUME NEW k \in 1 .. Len(journal), NEW c \in ToSet(journal[k].calls), Unstarted(journal, c)
        PROVE  \E i \in 1 .. Len(todo'[p]) : todo'[p][i].stage = "unstarted" /\ todo'[p][i].call = c
    <3>1. PICK i \in 1 .. Len(todo[p]) : todo[p][i].stage = "unstarted" /\ todo[p][i].call = c
      BY <1>1, <2>2, <2>3 DEF Covered
    <3>2. i - 1 \in 1 .. Len(todo'[p]) /\ (i - 1) + 1 = i
      BY <1>2, <1>3, <2>1, <3>1
    <3> QED BY <2>1, <3>1, <3>2
  <2>4. \A i \in 1 .. Len(todo'[p]) :
          todo'[p][i].stage = "done" => todo'[p][i].status = ReceiptOf(journal, todo'[p][i].inv)
    BY <1>1, <2>1, <2>2 DEF Covered
  <2> QED BY <1>2, <1>4, <2>3, <2>4 DEF Covered
<1>10. \A q \in Procs : known'[q] <= Len(journal)
  BY <1>1, <1>2, TypedIs
<1> QED BY <1>2, <1>5, <1>6, <1>7, <1>8, <1>9, <1>10, TaskStep

\* A receipt of an executed or reconciled action.
LEMMA ReceiptCovered ==
  ASSUME Typed, NEW p \in Procs, Anchored(p), Covered(p), Current(p),
         NEW i \in 1 .. Len(todo[p]), NEW t \in Task, t.status \in Statuses,
         todo[p][i].stage # "unstarted", t.stage = "done", t.inv = todo[p][i].inv,
         journal' = Append(journal, ActionCompleted(t)), Retasked(p, i, t), open'[p] = open[p]
  PROVE  Covered(p)'
<1> DEFINE e == ActionCompleted(t)
<1>1. /\ e \in Event /\ e.type = "action.completed" /\ e.inv = t.inv /\ e.status = t.status
      /\ e.calls = <<>> /\ journal' = Append(journal, e)
  BY ActionEventIs
<1> HIDE DEF e
<1>2. /\ journal \in Seq(Event) /\ Len(journal) \in Nat
      /\ Len(journal') = Len(journal) + 1 /\ journal'[Len(journal) + 1] = e
      /\ \A k \in 1 .. Len(journal) : journal'[k] = journal[k]
  BY <1>1, TypedIs, AppendIs
<1>3. /\ Starts(journal') = Starts(journal) /\ Starts(journal) \subseteq 1 .. Len(journal)
      /\ \A c : Unstarted(journal', c) <=> Unstarted(journal, c)
  <2>1. /\ \A c : HasStart(journal', c) <=> HasStart(journal, c)
        /\ \A c : HasResult(journal', c) <=> HasResult(journal, c)
        /\ \A n : n \in Starts(journal') <=> n \in Starts(journal)
        /\ Starts(journal) \subseteq 1 .. Len(journal)
    BY <1>1, <1>2, MarksAppend
  <2> QED BY <2>1 DEF Unstarted
<1>4. /\ Len(todo'[p]) = Len(todo[p]) /\ todo'[p][i] = t
      /\ \A k \in 1 .. Len(todo[p]) : k # i => todo'[p][k] = todo[p][k]
  BY DEF Retasked
<1>5. ASSUME NEW n \in Starts(journal')
      PROVE  \/ Closed(journal', n)
             \/ open'[p] # NothingOpen
             \/ \E k \in 1 .. Len(todo'[p]) : todo'[p][k].inv = n
  <2>1. CASE n = t.inv
    BY <1>4, <2>1
  <2>2. CASE n # t.inv
    <3>1. \/ Closed(journal, n)
          \/ open[p] # NothingOpen
          \/ \E k \in 1 .. Len(todo[p]) : todo[p][k].inv = n
      BY <1>3, <1>5 DEF Covered
    <3>2. Closed(journal, n) => Closed(journal', n)
      BY <1>1, <1>2, <1>3, <1>5, <2>2, ClosedAppend
    <3> QED BY <1>4, <2>2, <3>1, <3>2
  <2> QED BY <2>1, <2>2
<1>6. ASSUME NEW k \in 1 .. Len(journal'), NEW c \in ToSet(journal'[k].calls), Unstarted(journal', c)
      PROVE  \E l \in 1 .. Len(todo'[p]) : todo'[p][l].stage = "unstarted" /\ todo'[p][l].call = c
  <2>1. ToSet(<<>>) = {}
    BY DEF ToSet
  <2>2. k \in 1 .. Len(journal) /\ c \in ToSet(journal[k].calls)
    BY <1>1, <1>2, <1>6, <2>1
  <2>3. PICK l \in 1 .. Len(todo[p]) : todo[p][l].stage = "unstarted" /\ todo[p][l].call = c
    BY <1>3, <1>6, <2>2 DEF Covered
  <2> QED BY <1>4, <2>3
<1>7. ASSUME NEW k \in 1 .. Len(todo'[p]), todo'[p][k].stage = "done"
      PROVE  todo'[p][k].status = ReceiptOf(journal', todo'[p][k].inv)
  <2>1. CASE k = i
    BY <1>1, <1>2, <1>4, <2>1, ReceiptAppend
  <2>2. CASE k # i
    <3>1. k \in 1 .. Len(todo[p]) /\ todo'[p][k] = todo[p][k]
      BY <1>4, <2>2
    <3>2. todo[p][k].inv # t.inv
      BY <1>2, <1>3, <2>2, <3>1 DEF Anchored, TaskAnchored
    <3>3. ReceiptOf(journal', todo[p][k].inv) = ReceiptOf(journal, todo[p][k].inv)
      BY <1>1, <1>2, <3>2, ReceiptAppend
    <3> QED BY <1>7, <3>1, <3>3 DEF Covered
  <2> QED BY <2>1, <2>2
<1> QED BY <1>5, <1>6, <1>7 DEF Covered

\* Steps that record a receipt.
LEMMA ReceiptStep ==
  ASSUME LoopInv, NEW p \in Procs, pc[p] \in {"repair", "act"}, NEW i \in 1 .. Len(todo[p]),
         NEW t \in Task, t.status \in Statuses,
         todo[p][i].stage # "unstarted", t.stage = "done", t.inv = todo[p][i].inv,
         t.call = todo[p][i].call,
         Write(p, ActionCompleted(t)), Retasked(p, i, t),
         UNCHANGED <<world, pc, turns, open, prior, batch>>
  PROVE  LoopInv'
<1> DEFINE e == ActionCompleted(t)
<1>1. Typed /\ InPhase(p) /\ Anchored(p) /\ Covered(p) /\ Calling(p)
  BY DEF LoopInv
<1>2. /\ e \in Event /\ e.type = "action.completed" /\ e.inv = t.inv /\ e.status = t.status
      /\ e.call = t.call
  BY ActionEventIs
<1>3. /\ pending' = pending /\ sent' = sent /\ effects' = effects
      /\ starts' = starts /\ foreign' = foreign
      /\ pc' = pc /\ turns' = turns /\ open' = open /\ prior' = prior /\ batch' = batch
  BY DEF world
<1>4. /\ journal \in Seq(Event) /\ journal' = Append(journal, e)
      /\ known' \in [Procs -> 0 .. MaxEvents] /\ HeadExpected(p)
      /\ \A q \in Procs : q # p => known'[q] = known[q]
  BY <1>1, <1>2, WroteIs
<1>5. LocalTypes' /\ WorldTypes' /\ Others(p)
  BY <1>1, <1>3, <1>4, TypedIs DEF LocalTypes, WorldTypes, Others, Retasked
<1>6. t.inv \in Starts(journal) /\ journal[t.inv].call = t.call
  BY <1>1 DEF Anchored, TaskAnchored
<1>7. MayFollow(e)
  BY <1>2, <1>6 DEF MayFollow, Preceded
<1>8. InPhase(p)'
  BY <1>1, <1>3 DEF InPhase
<1>9. TaskAnchored(journal', t)
  <2>1. TaskAnchored(journal, t)
    BY <1>6 DEF TaskAnchored
  <2> QED BY <1>2, <1>4, <2>1, AnchoredAppend
<1>10. Anchored(p)'
  BY <1>1, <1>2, <1>4, <1>9, RetaskAnchored
<1>11. Covered(p)'
  <2>1. Current(p)
    BY <1>4 DEF Current
  <2> QED BY <1>1, <1>3, <1>4, <2>1, ReceiptCovered
<1>12. Calling(p)'
  BY <1>2, <1>3, ActionCalling
<1> HIDE DEF e
<1> QED BY <1>2, <1>5, <1>7, <1>8, <1>10, <1>11, <1>12, TaskStep DEF e

LEMMA ReconcileStep ==
  ASSUME LoopInv, NEW p \in Procs, Reconcile(p)
  PROVE  LoopInv'
<1>1. Typed
  BY DEF LoopInv
<1>2. /\ pc[p] = "repair" /\ todo[p] # <<>> /\ Head(todo[p]).stage = "unresolved"
      /\ UNCHANGED <<world, pc, turns, open, prior, batch>>
  BY DEF Reconcile, Repairing
<1>3. PICK status \in Settled :
        LET t == [Head(todo[p]) EXCEPT !.stage = "done", !.status = status]
        IN  /\ Write(p, ActionCompleted(t))
            /\ todo' = [todo EXCEPT ![p] = <<t>> \o Tail(@)]
  BY DEF Reconcile
<1> DEFINE t == [todo[p][1] EXCEPT !.stage = "done", !.status = status]
<1>4. /\ Head(todo[p]) = todo[p][1] /\ todo[p][1] \in Task /\ Len(todo[p]) \in Nat /\ Len(todo[p]) > 0
      /\ \A x \in Task : todo' = [todo EXCEPT ![p] = <<x>> \o Tail(@)] => Retasked(p, 1, x)
  BY <1>1, <1>2, HeadMoves
<1>5. /\ t \in Task /\ t.status \in Statuses /\ t.stage = "done"
      /\ t.inv = todo[p][1].inv /\ t.call = todo[p][1].call
  BY <1>4 DEF Task, Settled, Statuses
<1>6. Write(p, ActionCompleted(t)) /\ todo' = [todo EXCEPT ![p] = <<t>> \o Tail(@)]
  BY <1>3, <1>4
<1> HIDE DEF t
<1>7. Retasked(p, 1, t) /\ 1 \in 1 .. Len(todo[p])
  <2>1. Retasked(p, 1, t)
    BY <1>4, <1>5, <1>6, Zenon
  <2> QED BY <1>4, <2>1
<1>8. todo[p][1].stage # "unstarted"
  BY <1>2, <1>4
<1>9. pc[p] \in {"repair", "act"}
  BY <1>2
<1> QED BY <1>2, <1>5, <1>6, <1>7, <1>8, <1>9, ReceiptStep

LEMMA EndActionStep ==
  ASSUME LoopInv, NEW p \in Procs, EndAction(p)
  PROVE  LoopInv'
<1>1. Typed /\ Anchored(p)
  BY DEF LoopInv
<1>2. pc[p] \in {"repair", "act"} /\ UNCHANGED <<world, pc, turns, open, prior, batch>>
  BY DEF EndAction
<1>3. PICK i \in 1 .. Len(todo[p]) :
        /\ todo[p][i].stage = "executed"
        /\ Write(p, ActionCompleted(todo[p][i]))
        /\ todo' = [todo EXCEPT ![p][i].stage = "done"]
  BY DEF EndAction
<1> DEFINE t == [todo[p][i] EXCEPT !.stage = "done"]
<1>4. todo[p][i] \in Task /\ Retasked(p, i, t)
  BY <1>1, <1>3, TaskMoves
<1>5. todo[p][i].status \in Statuses /\ todo[p][i].stage # "unstarted"
  BY <1>1, <1>3 DEF Anchored, TaskAnchored
<1>6. /\ t \in Task /\ t.status = todo[p][i].status /\ t.stage = "done"
      /\ t.inv = todo[p][i].inv /\ t.call = todo[p][i].call
  BY <1>4 DEF Task
<1>7. ActionCompleted(t) = ActionCompleted(todo[p][i])
  BY <1>6 DEF ActionCompleted
<1> HIDE DEF t
<1>8. Write(p, ActionCompleted(t)) /\ t.status \in Statuses
  BY <1>3, <1>5, <1>6, <1>7
<1> QED BY <1>2, <1>4, <1>5, <1>6, <1>8, ReceiptStep

LEMMA ExecuteStep ==
  ASSUME LoopInv, NEW p \in Procs, Execute(p)
  PROVE  LoopInv'
<1>1. Typed /\ InPhase(p) /\ Anchored(p) /\ Covered(p) /\ Calling(p)
  BY DEF LoopInv
<1>2. /\ pc[p] \in {"repair", "act", "unwinding"}
      /\ pending' = pending /\ sent' = sent
      /\ starts' = starts /\ foreign' = foreign /\ journal' = journal
      /\ pc' = pc /\ known' = known /\ turns' = turns /\ open' = open
      /\ prior' = prior /\ batch' = batch
  BY DEF Execute, bounds
<1>3. PICK i \in 1 .. Len(todo[p]), status \in Receipts :
        /\ todo[p][i].stage = "started"
        /\ todo' = [todo EXCEPT ![p][i].stage = "executed", ![p][i].status = status]
        /\ effects' = [effects EXCEPT ![todo[p][i].call] = @ + 1]
  BY DEF Execute
<1> DEFINE t == [todo[p][i] EXCEPT !.stage = "executed", !.status = status]
<1>4. status \in Statuses
  BY AgentLoopAssumption DEF Statuses
<1>5. todo[p][i] \in Task /\ Retasked(p, i, t)
  BY <1>1, <1>3, <1>4, TaskMoves
<1>6. /\ t \in Task /\ t.status \in Statuses /\ t.stage = "executed"
      /\ t.inv = todo[p][i].inv /\ t.call = todo[p][i].call
  BY <1>4, <1>5 DEF Task
<1>7. effects' \in [Calls -> Nat]
  <2>1. effects \in [Calls -> Nat]
    BY <1>1, TypedIs DEF WorldTypes
  <2>2. todo[p][i].call \in Calls
    BY <1>5 DEF Task
  <2>3. effects[todo[p][i].call] + 1 \in Nat
    BY <2>1, <2>2
  <2>4. effects' = [effects EXCEPT ![todo[p][i].call] = effects[todo[p][i].call] + 1]
    BY <1>3, <2>1, <2>2
  <2> QED BY <2>1, <2>2, <2>3, <2>4
<1> HIDE DEF t
<1>8. /\ todo' \in [Procs -> Seq(Task)] /\ \A q \in Procs : q # p => todo'[q] = todo[q]
      /\ Len(todo'[p]) = Len(todo[p]) /\ todo'[p][i] = t
      /\ \A k \in 1 .. Len(todo[p]) : k # i => todo'[p][k] = todo[p][k]
  BY <1>5 DEF Retasked
<1>9. LocalTypes' /\ WorldTypes' /\ Others(p)
  BY <1>1, <1>2, <1>7, <1>8, TypedIs DEF LocalTypes, WorldTypes, Others
<1>10. InPhase(p)'
  BY <1>1, <1>2 DEF InPhase
<1>11. TaskAnchored(journal', t)
  BY <1>1, <1>2, <1>3, <1>6 DEF Anchored, TaskAnchored
<1>12. Anchored(p)'
  BY <1>1, <1>2, <1>5, <1>6, <1>11, RetaskAnchored
<1>13. Calling(p)'
  BY <1>1, <1>2 DEF Calling, Current, Answering, HeadExpected
<1>14. Covered(p)'
  <2> SUFFICES ASSUME Current(p)'
               PROVE  Covered(p)'
    BY DEF Covered
  <2>1. Current(p)
    BY <1>2 DEF Current, HeadExpected
  <2>2. \A n \in Starts(journal) :
          \/ Closed(journal, n)
          \/ open[p] # NothingOpen
          \/ \E k \in 1 .. Len(todo'[p]) : todo'[p][k].inv = n
    BY <1>1, <1>6, <1>8, <2>1 DEF Covered
  <2>3. \A k \in 1 .. Len(journal) : \A c \in ToSet(journal[k].calls) :
          Unstarted(journal, c) =>
            \E l \in 1 .. Len(todo'[p]) : todo'[p][l].stage = "unstarted" /\ todo'[p][l].call = c
    <3> SUFFICES ASSUME NEW k \in 1 .. Len(journal), NEW c \in ToSet(journal[k].calls),
                        Unstarted(journal, c)
                 PROVE  \E l \in 1 .. Len(todo'[p]) :
                          todo'[p][l].stage = "unstarted" /\ todo'[p][l].call = c
      OBVIOUS
    <3>1. PICK l \in 1 .. Len(todo[p]) : todo[p][l].stage = "unstarted" /\ todo[p][l].call = c
      BY <1>1, <2>1 DEF Covered
    <3>2. l # i
      BY <1>3, <3>1
    <3> QED BY <1>8, <3>1, <3>2
  <2>4. \A k \in 1 .. Len(todo'[p]) :
          todo'[p][k].stage = "done" => todo'[p][k].status = ReceiptOf(journal, todo'[p][k].inv)
    BY <1>1, <1>6, <1>8, <2>1 DEF Covered
  <2> QED BY <1>2, <2>2, <2>3, <2>4 DEF Covered
<1>15. \A q \in Procs : known'[q] <= Len(journal)
  BY <1>1, <1>2, TypedIs
<1> QED BY <1>2, <1>9, <1>10, <1>12, <1>13, <1>14, <1>15, TaskStep

\* The event of a start.
LEMMA StartIs ==
  ASSUME Typed, NEW call \in Calls
  PROVE  LET e == ActionStarted(call)
         IN  /\ e \in Event /\ e.type = "action.started" /\ e.call = call
             /\ e.calls = <<>> /\ Len(journal) + 1 \in Nat
<1>1. <<>> \in Seq(Calls)
  BY EmptySeq
<1>2. Len(journal) + 1 \in Nat
  BY TypedIs
<1> QED BY <1>1, <1>2 DEF ActionStarted, Plain, Event, Types

LEMMA BeginActionStep ==
  ASSUME LoopInv, NEW p \in Procs, BeginAction(p)
  PROVE  LoopInv'
<1>1. Typed /\ InPhase(p) /\ Anchored(p) /\ Covered(p) /\ Calling(p)
  BY DEF LoopInv
<1>2. /\ pc[p] \in {"repair", "act"}
      /\ pending' = pending /\ sent' = sent /\ effects' = effects
      /\ starts' = starts /\ foreign' = foreign
      /\ pc' = pc /\ turns' = turns /\ open' = open /\ prior' = prior /\ batch' = batch
  BY DEF BeginAction, Repairing, world
<1>3. PICK i \in 1 .. Len(todo[p]) :
        /\ todo[p][i].stage = "unstarted"
        /\ Write(p, ActionStarted(todo[p][i].call))
        /\ todo' = [todo EXCEPT ![p][i].stage = "started", ![p][i].inv = Len(journal) + 1]
  BY DEF BeginAction
<1> DEFINE n == Len(journal) + 1
           call == todo[p][i].call
           e == ActionStarted(call)
           t == [todo[p][i] EXCEPT !.stage = "started", !.inv = n]
<1>4. /\ todo[p][i] \in Task /\ call \in Calls /\ n \in Nat
  <2>1. todo[p][i] \in Task
    BY <1>1, TaskMoves
  <2>2. call \in Calls
    BY <2>1 DEF Task
  <2>3. Len(journal) \in Nat
    BY <1>1, TypedIs
  <2> QED BY <2>1, <2>2, <2>3
<1>5. Retasked(p, i, t)
  BY <1>1, <1>3, <1>4, TaskMoves
<1>6. e \in Event /\ e.type = "action.started" /\ e.call = call /\ e.calls = <<>>
  BY <1>1, <1>4, StartIs
<1>7. /\ t.stage = "started" /\ t.inv = n /\ t.call = call
  BY <1>4 DEF Task
<1>8. /\ journal \in Seq(Event) /\ Len(journal) \in Nat /\ journal' = Append(journal, e)
      /\ Len(journal') = n /\ journal'[n] = e
      /\ \A k \in 1 .. Len(journal) : journal'[k] = journal[k]
      /\ known' \in [Procs -> 0 .. MaxEvents] /\ HeadExpected(p)
      /\ \A q \in Procs : q # p => known'[q] = known[q]
  BY <1>1, <1>3, <1>6, WroteIs
<1> HIDE DEF t, e
<1>9. /\ todo' \in [Procs -> Seq(Task)] /\ \A q \in Procs : q # p => todo'[q] = todo[q]
      /\ Len(todo'[p]) = Len(todo[p]) /\ todo'[p][i] = t
      /\ \A k \in 1 .. Len(todo[p]) : k # i => todo'[p][k] = todo[p][k]
  BY <1>5 DEF Retasked
<1>10. LocalTypes' /\ WorldTypes' /\ Others(p)
  BY <1>1, <1>2, <1>8, <1>9, TypedIs DEF LocalTypes, WorldTypes, Others
<1>11. InPhase(p)'
  BY <1>1, <1>2 DEF InPhase
<1>12. /\ \A m : m \in Starts(journal') <=> m \in Starts(journal) \/ m = n
       /\ Starts(journal) \subseteq 1 .. Len(journal)
       /\ \A c : HasStart(journal', c) <=> HasStart(journal, c) \/ c = call
       /\ \A c : HasResult(journal', c) <=> HasResult(journal, c)
  <2>1. e.type # "result"
    BY <1>6
  <2> QED BY <1>6, <1>8, <2>1, MarksAppend
<1>13. TaskAnchored(journal', t)
  BY <1>6, <1>7, <1>8, <1>12 DEF TaskAnchored
<1>14. Anchored(p)'
  BY <1>1, <1>5, <1>7, <1>8, <1>6, <1>13, RetaskAnchored
<1>15. Calling(p)'
  BY <1>2, <1>3, <1>6, ActionCalling DEF e
<1>16. MayFollow(e)
  BY <1>1, <1>3, <1>4, <1>6 DEF MayFollow, Preceded, Anchored, TaskAnchored
<1>17. Covered(p)'
  <2>1. Current(p)
    BY <1>2, <1>8 DEF Current
  <2>2. ASSUME NEW m \in Starts(journal')
        PROVE  \/ Closed(journal', m)
               \/ open'[p] # NothingOpen
               \/ \E k \in 1 .. Len(todo'[p]) : todo'[p][k].inv = m
    <3>1. CASE m = n
      BY <1>7, <1>9, <3>1
    <3>2. CASE m # n
      <4>1. m \in Starts(journal) /\ m # 0
        BY <1>12, <2>2, <3>2
      <4>2. Closed(journal, m) => Closed(journal', m)
        BY <1>6, <1>8, <4>1, ClosedAppend
      <4>3. todo[p][i].inv = 0
        BY <1>1, <1>3 DEF Anchored, TaskAnchored
      <4>4. \/ Closed(journal, m)
            \/ open[p] # NothingOpen
            \/ \E k \in 1 .. Len(todo[p]) : todo[p][k].inv = m
        BY <1>1, <2>1, <4>1 DEF Covered
      <4> QED BY <1>2, <1>9, <4>1, <4>2, <4>3, <4>4
    <3> QED BY <3>1, <3>2
  <2>3. ASSUME NEW k \in 1 .. Len(journal'), NEW c \in ToSet(journal'[k].calls), Unstarted(journal', c)
        PROVE  \E l \in 1 .. Len(todo'[p]) : todo'[p][l].stage = "unstarted" /\ todo'[p][l].call = c
    <3>1. ToSet(<<>>) = {}
      BY DEF ToSet
    <3>2. k \in 1 .. Len(journal) /\ c \in ToSet(journal[k].calls)
      BY <1>6, <1>8, <2>3, <3>1
    <3>3. Unstarted(journal, c) /\ c # call
      BY <1>12, <2>3 DEF Unstarted
    <3>4. PICK l \in 1 .. Len(todo[p]) : todo[p][l].stage = "unstarted" /\ todo[p][l].call = c
      BY <1>1, <2>1, <3>2, <3>3 DEF Covered
    <3>5. l # i
      BY <3>3, <3>4
    <3> QED BY <1>9, <3>4, <3>5
  <2>4. ASSUME NEW k \in 1 .. Len(todo'[p]), todo'[p][k].stage = "done"
        PROVE  todo'[p][k].status = ReceiptOf(journal', todo'[p][k].inv)
    <3>1. k # i
      BY <1>7, <1>9, <2>4
    <3>2. ReceiptOf(journal', todo[p][k].inv) = ReceiptOf(journal, todo[p][k].inv)
      BY <1>6, <1>8, ReceiptAppend
    <3> QED BY <1>1, <1>9, <2>1, <2>4, <3>1, <3>2 DEF Covered
  <2> QED BY <2>2, <2>3, <2>4 DEF Covered
<1>18. Write(p, e)
  BY <1>3 DEF e
<1> QED BY <1>6, <1>10, <1>11, <1>14, <1>15, <1>16, <1>17, <1>18, TaskStep

LEMMA AppendResultStep ==
  ASSUME LoopInv, NEW p \in Procs, AppendResult(p)
  PROVE  LoopInv'
<1> DEFINE t == todo[p][1]
           e == ResultEvent(t)
<1>1. Typed /\ InPhase(p) /\ Anchored(p) /\ Covered(p) /\ Calling(p)
  BY DEF LoopInv
<1>2. /\ todo[p] # <<>> /\ pc[p] \in {"repair", "act"}
      /\ todo' = [todo EXCEPT ![p] = Tail(@)]
      /\ open' = [open EXCEPT ![p].pending = @ \/ Head(todo[p]).status \notin Settled]
      /\ pending' = pending /\ sent' = sent /\ effects' = effects
      /\ starts' = starts /\ foreign' = foreign
      /\ pc' = pc /\ turns' = turns /\ prior' = prior /\ batch' = batch
  BY DEF AppendResult, Repairing, world
<1>3. /\ Popped(p) /\ Head(todo[p]) = t /\ t \in Task
      /\ Len(todo[p]) \in Nat /\ Len(todo[p]) > 0 /\ 1 \in 1 .. Len(todo[p])
  <2>1. /\ Head(todo[p]) = t /\ t \in Task
        /\ Len(todo[p]) \in Nat /\ Len(todo[p]) > 0
        /\ todo' = [todo EXCEPT ![p] = Tail(@)] => Popped(p)
    BY <1>1, <1>2, HeadMoves, Zenon
  <2>2. 1 \in 1 .. Len(todo[p])
    BY <2>1
  <2> QED BY <1>2, <2>1, <2>2, Zenon
<1>4. Write(p, e) /\ t.stage = "done"
  BY <1>3 DEF AppendResult, Repairing
<1>5. /\ t.inv \in Starts(journal) /\ journal[t.inv].call = t.call /\ t.status \in Statuses
  BY <1>1, <1>3, <1>4 DEF Anchored, TaskAnchored
<1>6. /\ e \in Event /\ e.type = "result" /\ e.inv = t.inv /\ e.call = t.call
      /\ e.status = t.status /\ e.calls = <<>>
  BY <1>3, <1>5, ActionEventIs
<1>7. /\ journal \in Seq(Event) /\ Len(journal) \in Nat /\ journal' = Append(journal, e)
      /\ Len(journal') = Len(journal) + 1 /\ journal'[Len(journal) + 1] = e
      /\ \A k \in 1 .. Len(journal) : journal'[k] = journal[k]
      /\ known' \in [Procs -> 0 .. MaxEvents] /\ HeadExpected(p)
      /\ \A q \in Procs : q # p => known'[q] = known[q]
  BY <1>1, <1>4, <1>6, WroteIs
<1> HIDE DEF e
<1>8. /\ open' \in [Procs -> [unreconciled : BOOLEAN, pending : BOOLEAN]]
      /\ \A q \in Procs : q # p => open'[q] = open[q]
      /\ open'[p].unreconciled = open[p].unreconciled
      /\ open[p] # NothingOpen \/ t.status \notin Settled => open'[p] # NothingOpen
  <2>1. open \in [Procs -> [unreconciled : BOOLEAN, pending : BOOLEAN]]
    BY <1>1, TypedIs DEF LocalTypes
  <2>2. PICK u \in BOOLEAN, v \in BOOLEAN : open[p] = [unreconciled |-> u, pending |-> v]
    BY <2>1
  <2>3. open' = [open EXCEPT ![p] = [unreconciled |-> u, pending |-> (v \/ t.status \notin Settled)]]
    <3> DEFINE done == t.status \notin Settled
    <3>1. open' = [open EXCEPT ![p].pending = @ \/ done]
      BY <1>2, <1>3
    <3> HIDE DEF done
    <3>2. open' = [open EXCEPT ![p] = [open[p] EXCEPT !.pending = open[p].pending \/ done]]
      BY <2>1, <3>1
    <3>3. [open[p] EXCEPT !.pending = open[p].pending \/ done]
            = [unreconciled |-> u, pending |-> (v \/ done)]
      BY <2>2
    <3> QED BY <3>2, <3>3 DEF done
  <2>4. (v \/ t.status \notin Settled) \in BOOLEAN
    OBVIOUS
  <2>5. /\ open' \in [Procs -> [unreconciled : BOOLEAN, pending : BOOLEAN]]
        /\ open'[p] = [unreconciled |-> u, pending |-> (v \/ t.status \notin Settled)]
        /\ \A q \in Procs : q # p => open'[q] = open[q]
    BY <2>1, <2>3, <2>4
  <2> QED BY <2>2, <2>5 DEF NothingOpen
<1>9. /\ todo' \in [Procs -> Seq(Task)] /\ \A q \in Procs : q # p => todo'[q] = todo[q]
      /\ Len(todo'[p]) = Len(todo[p]) - 1
      /\ \A k \in 1 .. Len(todo'[p]) : todo'[p][k] = todo[p][k + 1] /\ k + 1 \in 1 .. Len(todo[p])
      /\ \A k \in 1 .. Len(todo[p]) : k # 1 => k - 1 \in 1 .. Len(todo'[p]) /\ todo'[p][k - 1] = todo[p][k]
  <2>1. /\ todo' \in [Procs -> Seq(Task)] /\ \A q \in Procs : q # p => todo'[q] = todo[q]
        /\ Len(todo'[p]) = Len(todo[p]) - 1
        /\ \A k \in 1 .. Len(todo'[p]) : todo'[p][k] = todo[p][k + 1] /\ k + 1 \in 1 .. Len(todo[p])
    BY <1>3 DEF Popped
  <2>2. ASSUME NEW k \in 1 .. Len(todo[p]), k # 1
        PROVE  k - 1 \in 1 .. Len(todo'[p]) /\ todo'[p][k - 1] = todo[p][k]
    <3>1. k - 1 \in 1 .. Len(todo'[p]) /\ (k - 1) + 1 = k
      BY <1>3, <2>1, <2>2
    <3> QED BY <2>1, <3>1
  <2> QED BY <2>1, <2>2
<1>10. LocalTypes' /\ WorldTypes' /\ Others(p)
  BY <1>1, <1>2, <1>7, <1>8, <1>9, TypedIs DEF LocalTypes, WorldTypes, Others
<1>11. InPhase(p)'
  BY <1>1, <1>2, <1>8 DEF InPhase
<1>12. Anchored(p)'
  BY <1>1, <1>3, <1>6, <1>7, PoppedAnchored
<1>13. Calling(p)'
  BY <1>2, <1>4, <1>6, ActionCalling
<1>14. MayFollow(e)
  BY <1>5, <1>6 DEF MayFollow, Preceded
<1>15. /\ Starts(journal') = Starts(journal) /\ Starts(journal) \subseteq 1 .. Len(journal)
       /\ \A c : Unstarted(journal', c) => Unstarted(journal, c)
  <2>1. /\ \A c : HasStart(journal', c) <=> HasStart(journal, c)
        /\ \A c : HasResult(journal, c) => HasResult(journal', c)
        /\ \A n : n \in Starts(journal') <=> n \in Starts(journal)
        /\ Starts(journal) \subseteq 1 .. Len(journal)
    BY <1>6, <1>7, MarksAppend
  <2> QED BY <2>1 DEF Unstarted
<1>16. Covered(p)'
  <2>1. Current(p)
    BY <1>2, <1>7 DEF Current
  <2>2. t.status = ReceiptOf(journal, t.inv)
    BY <1>1, <1>3, <1>4, <2>1 DEF Covered
  <2>3. ASSUME NEW n \in Starts(journal')
        PROVE  \/ Closed(journal', n)
               \/ open'[p] # NothingOpen
               \/ \E k \in 1 .. Len(todo'[p]) : todo'[p][k].inv = n
    <3>0. n \in Starts(journal)
      BY <1>15, <2>3
    <3>1. CASE n = t.inv
      <4>1. CASE t.status \in Settled
        BY <1>5, <1>6, <1>7, <2>2, <3>1, <4>1, ClosedByResult
      <4>2. CASE t.status \notin Settled
        BY <1>8, <4>2
      <4> QED BY <4>1, <4>2
    <3>2. CASE n # t.inv
      <4>1. \/ Closed(journal, n)
            \/ open[p] # NothingOpen
            \/ \E k \in 1 .. Len(todo[p]) : todo[p][k].inv = n
        BY <1>1, <2>1, <3>0 DEF Covered
      <4>2. Closed(journal, n) => Closed(journal', n)
        BY <1>6, <1>7, <3>0, <3>2, ClosedAppend
      <4>3. ASSUME NEW k \in 1 .. Len(todo[p]), todo[p][k].inv = n
            PROVE  \E l \in 1 .. Len(todo'[p]) : todo'[p][l].inv = n
        BY <1>9, <3>2, <4>3
      <4> QED BY <1>8, <4>1, <4>2, <4>3
    <3> QED BY <3>1, <3>2
  <2>4. ASSUME NEW k \in 1 .. Len(journal'), NEW c \in ToSet(journal'[k].calls), Unstarted(journal', c)
        PROVE  \E l \in 1 .. Len(todo'[p]) : todo'[p][l].stage = "unstarted" /\ todo'[p][l].call = c
    <3>1. ToSet(<<>>) = {}
      BY DEF ToSet
    <3>2. k \in 1 .. Len(journal) /\ c \in ToSet(journal[k].calls)
      BY <1>6, <1>7, <2>4, <3>1
    <3>3. PICK l \in 1 .. Len(todo[p]) : todo[p][l].stage = "unstarted" /\ todo[p][l].call = c
      BY <1>1, <1>15, <2>1, <2>4, <3>2 DEF Covered
    <3>4. l # 1
      BY <1>4, <3>3
    <3> QED BY <1>9, <3>3, <3>4
  <2>5. ASSUME NEW k \in 1 .. Len(todo'[p]), todo'[p][k].stage = "done"
        PROVE  todo'[p][k].status = ReceiptOf(journal', todo'[p][k].inv)
    <3>1. ReceiptOf(journal', todo'[p][k].inv) = ReceiptOf(journal, todo'[p][k].inv)
      BY <1>6, <1>7, ReceiptAppend
    <3> QED BY <1>1, <1>9, <2>1, <2>5, <3>1 DEF Covered
  <2> QED BY <2>3, <2>4, <2>5 DEF Covered
<1> QED BY <1>4, <1>6, <1>10, <1>11, <1>12, <1>13, <1>14, <1>16, TaskStep

\* The calls of an answer as tasks.
LEMMA NewTasksAre ==
  ASSUME NEW calls \in Seq(Calls)
  PROVE  LET ts == [i \in 1 .. Len(calls) |-> NewTask(calls[i])]
         IN  /\ ts \in Seq(Task) /\ Len(ts) = Len(calls) /\ Len(calls) \in Nat
             /\ \A i \in 1 .. Len(calls) :
                  ts[i].stage = "unstarted" /\ ts[i].inv = 0 /\ ts[i].call = calls[i]
<1> DEFINE ts == [i \in 1 .. Len(calls) |-> NewTask(calls[i])]
<1>1. Len(calls) \in Nat /\ \A i \in 1 .. Len(calls) : calls[i] \in Calls
  OBVIOUS
<1>2. \A c \in Calls : NewTask(c) \in Task
  BY DEF NewTask, Task
<1>3. ts \in [1 .. Len(calls) -> Task]
  BY <1>1, <1>2
<1>4. ts \in Seq(Task) /\ Len(ts) = Len(calls)
  <2> HIDE DEF ts
  <2> QED BY <1>1, <1>3
<1>5. \A i \in 1 .. Len(calls) :
        ts[i].stage = "unstarted" /\ ts[i].inv = 0 /\ ts[i].call = calls[i]
  BY DEF NewTask
<1> QED BY <1>1, <1>4, <1>5

LEMMA RecordMessageStep ==
  ASSUME LoopInv, NEW p \in Procs, RecordMessage(p)
  PROVE  LoopInv'
<1> DEFINE calls == prior[p].calls
           e == AssistantEvent(calls)
<1>1. Typed /\ InPhase(p) /\ Anchored(p) /\ Covered(p) /\ Calling(p)
  BY DEF LoopInv
<1>2. /\ pc[p] = "message" /\ Write(p, e)
      /\ pending' = pending /\ sent' = sent /\ effects' = effects
      /\ starts' = starts /\ foreign' = foreign
      /\ turns' = turns /\ open' = open /\ batch' = batch
  BY DEF RecordMessage, world
<1>3. prior \in [Procs -> Answer] /\ calls \in Seq(Calls) /\ prior[p].stop \in Stops
  BY <1>1, TypedIs DEF LocalTypes, Answer
<1>4. e \in Event /\ e.type = "assistant" /\ e.calls = calls
  BY <1>3, EventIs
<1>5. /\ journal \in Seq(Event) /\ Len(journal) \in Nat /\ journal' = Append(journal, e)
      /\ Len(journal') = Len(journal) + 1 /\ journal'[Len(journal) + 1] = e
      /\ \A k \in 1 .. Len(journal) : journal'[k] = journal[k]
      /\ known' \in [Procs -> 0 .. MaxEvents] /\ HeadExpected(p)
      /\ \A q \in Procs : q # p => known'[q] = known[q]
  BY <1>1, <1>2, <1>4, WroteIs
<1>6. /\ Followed(journal) /\ Current(p)
      /\ Len(journal) > 1 /\ journal[Len(journal) - 1].type = "model.started"
      /\ journal[Len(journal)].type = "model.completed"
      /\ journal[Len(journal)].status = prior[p].stop
  BY <1>2, <1>5, CallingIs DEF Answering
<1>7. MayFollow(e)
  BY <1>3, <1>4, <1>6 DEF MayFollow, Preceded, Stops
<1>8. todo[p] = <<>> /\ open[p] = NothingOpen /\ prior[p].state = "answered"
  BY <1>1, <1>2 DEF InPhase
<1> HIDE DEF e, calls
<1>9. CASE calls = <<>>
  <2>1. PICK f \in {"receive", "deliver"} : Goto(p, f)
    BY <1>9 DEF RecordMessage, calls
  <2>2. pc' \in [Procs -> Phases] /\ pc'[p] = f /\ \A q \in Procs : q # p => pc'[q] = pc[q]
    BY <1>1, <2>1, GotoIs DEF Phases
  <2>3. todo' = todo /\ prior' = prior
    BY <1>9 DEF RecordMessage, calls
  <2>4. LocalTypes' /\ WorldTypes' /\ Others(p)
    BY <1>1, <1>2, <1>5, <2>2, <2>3, TypedIs DEF LocalTypes, WorldTypes, Others
  <2>5. InPhase(p)'
    BY <1>1, <1>2, <1>8, <2>2, <2>3 DEF InPhase
  <2>6. Earned(journal', prior[p].stop)
    <3> DEFINE d == Len(journal)
    <3>1. /\ d \in 2 .. Len(journal') /\ journal'[d - 1].type = "model.started"
          /\ journal'[d].type = "model.completed" /\ journal'[d].status = prior[p].stop
          /\ \A k \in (d + 1) .. Len(journal') : journal'[k].type = "assistant"
      BY <1>4, <1>5, <1>6
    <3> HIDE DEF d
    <3> QED BY <3>1 DEF Earned
  <2>7. Calling(p)'
    BY <1>8, <2>2, <2>3, <2>6 DEF Calling, Answering
  <2> QED BY <1>2, <1>4, <1>7, <1>9, <2>2, <2>3, <2>4, <2>5, <2>7, MemoryStep
<1>10. CASE calls # <<>>
  <2> DEFINE ts == [i \in 1 .. Len(calls) |-> NewTask(calls[i])]
  <2>1. /\ ts \in Seq(Task) /\ Len(ts) = Len(calls) /\ Len(calls) \in Nat
        /\ \A i \in 1 .. Len(calls) :
             ts[i].stage = "unstarted" /\ ts[i].inv = 0 /\ ts[i].call = calls[i]
    BY <1>3, NewTasksAre DEF calls
  <2>2. Goto(p, "act") /\ todo' = [todo EXCEPT ![p] = ts] /\ prior' = [prior EXCEPT ![p] = NoAnswer]
    BY <1>10 DEF RecordMessage, calls
  <2> HIDE DEF ts
  <2>3. pc' \in [Procs -> Phases] /\ pc'[p] = "act" /\ \A q \in Procs : q # p => pc'[q] = pc[q]
    BY <1>1, <2>2, GotoIs DEF Phases
  <2>4. /\ prior' \in [Procs -> Answer] /\ prior'[p].state = "none"
        /\ \A q \in Procs : q # p => prior'[q] = prior[q]
    BY <1>1, <2>2, PriorIs, AnswerIs
  <2>5. /\ todo' \in [Procs -> Seq(Task)] /\ todo'[p] = ts
        /\ \A q \in Procs : q # p => todo'[q] = todo[q]
    <3> DEFINE S == Seq(Task)
    <3>1. ts \in S /\ todo \in [Procs -> S]
      BY <1>1, <2>1, TypedIs DEF LocalTypes
    <3> HIDE DEF S
    <3>2. /\ todo' \in [Procs -> S] /\ todo'[p] = ts
          /\ \A q \in Procs : q # p => todo'[q] = todo[q]
      BY <2>2, <3>1, OneChanges
    <3> QED BY <3>2 DEF S
  <2>6. LocalTypes' /\ WorldTypes' /\ Others(p)
    BY <1>1, <1>2, <1>5, <2>3, <2>4, <2>5, TypedIs DEF LocalTypes, WorldTypes, Others
  <2>7. InPhase(p)'
    BY <1>1, <1>2, <1>8, <2>3, <2>4 DEF InPhase, NothingOpen
  <2>8. Followed(journal')
    BY <1>4, <1>5, <1>6, <1>10, FollowedAppend
  <2>9. Calling(p)'
    BY <2>3, <2>8 DEF Calling, Answering
  <2>10. \A i \in 1 .. Len(calls) : calls[i] \in ToSet(journal'[Len(journal)+1].calls)
    BY <1>4, <1>5 DEF ToSet
  <2>11. Anchored(p)'
    <3>1. Len(journal) + 1 \in 1 .. Len(journal')
      BY <1>5
    <3>2. \A i \in 1 .. Len(ts) : TaskAnchored(journal', ts[i])
      BY <2>1, <2>10, <3>1 DEF TaskAnchored
    <3>3. \A i \in 1 .. Len(ts) : ts[i].inv = 0
      BY <2>1
    <3> QED BY <2>5, <3>2, <3>3 DEF Anchored
  <2>12. Covered(p)'
    <3>1. /\ Starts(journal') = Starts(journal)
          /\ \A c : Unstarted(journal', c) <=> Unstarted(journal, c)
      <4>1. /\ \A c : HasStart(journal', c) <=> HasStart(journal, c)
            /\ \A c : HasResult(journal', c) <=> HasResult(journal, c)
            /\ \A n : n \in Starts(journal') <=> n \in Starts(journal)
        BY <1>4, <1>5, MarksAppend
      <4> QED BY <4>1 DEF Unstarted
    <3>2. AllClosed(journal)
      BY <1>1, <1>6, <1>8, ClosedNow
    <3>3. \A n \in Starts(journal') : Closed(journal', n)
      BY <1>4, <1>5, <3>1, <3>2, ClosedAppend DEF AllClosed
    <3>4. ASSUME NEW k \in 1 .. Len(journal'), NEW c \in ToSet(journal'[k].calls), Unstarted(journal', c)
          PROVE  \E l \in 1 .. Len(todo'[p]) : todo'[p][l].stage = "unstarted" /\ todo'[p][l].call = c
      <4>1. CASE k \in 1 .. Len(journal)
        BY <1>5, <3>1, <3>2, <3>4, <4>1 DEF AllClosed
      <4>2. CASE k = Len(journal) + 1
        <5>1. c \in ToSet(calls)
          BY <1>4, <1>5, <3>4, <4>2
        <5>2. PICK l \in 1 .. Len(calls) : calls[l] = c
          BY <5>1 DEF ToSet
        <5> QED BY <2>1, <2>5, <5>2
      <4> QED BY <1>5, <4>1, <4>2
    <3>5. \A i \in 1 .. Len(todo'[p]) : todo'[p][i].stage # "done"
      BY <2>1, <2>5
    <3> QED BY <3>3, <3>4, <3>5 DEF Covered
  <2> QED BY <1>2, <1>4, <1>7, <2>6, <2>7, <2>9, <2>11, <2>12, TaskStep
<1> QED BY <1>9, <1>10

LEMMA StartStep ==
  ASSUME LoopInv, NEW p \in Procs, Start(p)
  PROVE  LoopInv'
<1> DEFINE ts == ActionsToRepair(journal)
           s == ModelState(journal)
<1>1. /\ Typed /\ InPhase(p) /\ Wellformed(journal) /\ NotReinvoked(journal)
  BY DEF LoopInv, FinishedTurnNotReinvoked, NotReinvoked
<1>2. /\ pc[p] = "down" /\ starts < MaxStarts /\ starts' = starts + 1
      /\ known' = [known EXCEPT ![p] = Len(journal)]
      /\ todo' = [todo EXCEPT ![p] = ts]
      /\ prior' = [prior EXCEPT ![p] = s]
      /\ pending' = pending /\ sent' = sent /\ effects' = effects
      /\ foreign' = foreign /\ journal' = journal
      /\ turns' = turns /\ open' = open /\ batch' = batch
  BY DEF Start
<1>3. /\ journal \in Seq(Event) /\ Len(journal) \in 0 .. MaxEvents
      /\ starts \in 0 .. MaxStarts /\ MaxStarts \in Nat /\ \A q \in Procs : known[q] <= Len(journal)
  BY <1>1, TypedIs DEF WorldTypes
<1>4. pc' \in [Procs -> Phases] /\ pc'[p] = "repair" /\ \A q \in Procs : q # p => pc'[q] = pc[q]
  BY <1>1, GotoIs DEF Start, Phases
<1>5. /\ ts \in Seq(Task)
      /\ \A i \in 1 .. Len(ts) : TaskIs(journal, ts[i])
      /\ \A i, k \in 1 .. Len(ts) : ts[i].inv = ts[k].inv /\ ts[i].inv # 0 => i = k
      /\ \A n \in Missing(journal) \cup Interrupted(journal) : \E i \in 1 .. Len(ts) : ts[i].inv = n
      /\ \A x \in NeverStarted(journal) : \E i \in 1 .. Len(ts) :
           ts[i].stage = "unstarted" /\ ts[i].call = journal[x[1]].calls[x[2]]
  BY <1>1, <1>3, RepairIs
<1>6. s \in Answer /\ s.state \in {"clean", "dangling", "lost", "finished"}
  BY <1>1, <1>3, ModelStateType
<1>7. /\ s.state = "finished" => Earned(journal, s.stop)
      /\ s.state # "finished" => Followed(journal)
  BY <1>1, <1>3, FinishedEarned, UnfollowedFinished
<1> HIDE DEF ts, s
<1>8. /\ prior' \in [Procs -> Answer] /\ prior'[p] = s
      /\ \A q \in Procs : q # p => prior'[q] = prior[q]
  BY <1>1, <1>2, <1>6, PriorIs
<1>9. /\ todo' \in [Procs -> Seq(Task)] /\ todo'[p] = ts
      /\ \A q \in Procs : q # p => todo'[q] = todo[q]
  <2> DEFINE S == Seq(Task)
  <2>1. ts \in S /\ todo \in [Procs -> S]
    BY <1>1, <1>5, TypedIs DEF LocalTypes
  <2> HIDE DEF S
  <2>2. /\ todo' \in [Procs -> S] /\ todo'[p] = ts
        /\ \A q \in Procs : q # p => todo'[q] = todo[q]
    BY <1>2, <2>1, OneChanges
  <2> QED BY <2>2 DEF S
<1>10. /\ known' \in [Procs -> 0 .. MaxEvents] /\ known'[p] = Len(journal)
       /\ \A q \in Procs : q # p => known'[q] = known[q]
       /\ \A q \in Procs : known'[q] <= Len(journal)
  <2>1. known \in [Procs -> 0 .. MaxEvents]
    BY <1>1, TypedIs DEF LocalTypes
  <2>2. /\ known' \in [Procs -> 0 .. MaxEvents] /\ known'[p] = Len(journal)
        /\ \A q \in Procs : q # p => known'[q] = known[q]
    BY <1>2, <1>3, <2>1, OneChanges
  <2> QED BY <1>3, <2>2
<1>11. starts' \in 0 .. MaxStarts
  BY <1>2, <1>3
<1>12. LocalTypes' /\ WorldTypes' /\ Others(p)
  BY <1>1, <1>2, <1>4, <1>8, <1>9, <1>10, <1>11, TypedIs DEF LocalTypes, WorldTypes, Others
<1>13. InPhase(p)'
  BY <1>1, <1>2, <1>4, <1>6, <1>8 DEF InPhase
<1>14. Anchored(p)'
  <2>1. ASSUME NEW i \in 1 .. Len(ts)
        PROVE  TaskAnchored(journal, ts[i])
    <3>1. TaskIs(journal, ts[i])
      BY <1>5
    <3>2. CASE ts[i].stage = "unstarted"
      <4>1. ts[i].inv = 0 /\ \E x \in NeverStarted(journal) : ts[i].call = journal[x[1]].calls[x[2]]
        BY <3>1, <3>2 DEF TaskIs
      <4>2. PICK x \in NeverStarted(journal) : ts[i].call = journal[x[1]].calls[x[2]]
        BY <4>1
      <4>3. x[1] \in 1 .. Len(journal) /\ x[2] \in 1 .. Len(journal[x[1]].calls)
        BY <1>3, RepairFinite
      <4>4. ts[i].call \in ToSet(journal[x[1]].calls)
        BY <4>2, <4>3 DEF ToSet
      <4> QED BY <3>2, <4>1, <4>3, <4>4 DEF TaskAnchored
    <3>3. CASE ts[i].stage # "unstarted"
      BY <3>1, <3>3 DEF TaskIs, TaskAnchored, Missing, Interrupted, Settled, Statuses
    <3> QED BY <3>2, <3>3
  <2> QED BY <1>2, <1>5, <1>9, <2>1 DEF Anchored
<1>15. Calling(p)'
  BY <1>2, <1>4, <1>7, <1>8 DEF Calling, Answering
<1>16. Covered(p)'
  <2>1. ASSUME NEW n \in Starts(journal)
        PROVE  Closed(journal, n) \/ \E i \in 1 .. Len(ts) : ts[i].inv = n
    BY <1>5 DEF Missing, Interrupted, Unresolved, Closed
  <2>2. ASSUME NEW k \in 1 .. Len(journal), NEW c \in ToSet(journal[k].calls), Unstarted(journal, c)
        PROVE  \E i \in 1 .. Len(ts) : ts[i].stage = "unstarted" /\ ts[i].call = c
    <3>1. PICK l \in DOMAIN journal[k].calls : journal[k].calls[l] = c
      <4>1. journal[k] \in Event
        BY <1>3
      <4>2. journal[k].calls \in Seq(Calls)
        BY <4>1 DEF Event
      <4> QED BY <2>2, <4>2 DEF ToSet
    <3> DEFINE x == <<k, l>>
    <3>2. x \in NeverStarted(journal)
      BY <2>2, <3>1 DEF NeverStarted
    <3>3. journal[x[1]].calls[x[2]] = c
      BY <3>1
    <3> HIDE DEF x
    <3> QED BY <1>5, <3>2, <3>3
  <2>3. \A i \in 1 .. Len(ts) :
          ts[i].stage = "done" => ts[i].status = ReceiptOf(journal, ts[i].inv)
    BY <1>5 DEF TaskIs
  <2> QED BY <1>2, <1>9, <2>1, <2>2, <2>3 DEF Covered
<1> QED BY <1>2, <1>10, <1>12, <1>13, <1>14, <1>15, <1>16, TaskStep

-----------------------------------------------------------------------------
(* Senders and other writers.                                               *)

LEMMA WorldStep ==
  ASSUME LoopInv, WorldTypes', UNCHANGED local,
         \/ journal' = journal
         \/ \E e \in Event : /\ journal' = Append(journal, e) /\ MayFollow(e)
                             /\ Len(journal) < MaxEvents
  PROVE  LoopInv'
<1>1. Typed /\ \A q \in Procs : ProcessInv(q)
  BY DEF LoopInv, ProcessInv
<1>2. /\ pc' = pc /\ known' = known /\ turns' = turns /\ todo' = todo
      /\ open' = open /\ prior' = prior /\ batch' = batch
  BY DEF local
<1>3. Grows
  BY DEF Grows
<1>4. \A q \in Procs : ProcessInv(q)'
  BY <1>1, <1>2, <1>3, OtherProcess DEF Same
<1>5. /\ LocalTypes /\ journal \in Seq(Event) /\ Len(journal) \in Nat /\ Len(journal) <= MaxEvents
      /\ MaxEvents \in Nat /\ \A q \in Procs : known[q] <= Len(journal) /\ known[q] \in Nat
  <2>1. /\ LocalTypes /\ journal \in Seq(Event) /\ Len(journal) \in Nat /\ Len(journal) <= MaxEvents
        /\ MaxEvents \in Nat /\ \A q \in Procs : known[q] <= Len(journal)
    BY <1>1, TypedIs
  <2>2. \A q \in Procs : known[q] \in Nat
    BY <2>1 DEF LocalTypes
  <2> QED BY <2>1, <2>2
<1>6. journal' \in Seq(Event) /\ Len(journal') <= MaxEvents /\ Len(journal) <= Len(journal')
      /\ Len(journal') \in Nat
  BY <1>5, AppendIs
<1>7. LocalTypes'
  BY <1>2, <1>5 DEF LocalTypes
<1>8. \A q \in Procs : known'[q] <= Len(journal')
  BY <1>2, <1>5, <1>6
<1>9. Typed'
  BY <1>6, <1>7, <1>8 DEF Typed, TypeOK, LocalTypes, WorldTypes
<1> QED BY <1>3, <1>4, <1>9, JournalKept

LEMMA SendStep ==
  ASSUME LoopInv, Send
  PROVE  LoopInv'
<1>1. WorldTypes
  BY TypedIs DEF LoopInv
<1>2. PICK m \in Mails \ ToSet(sent) : sent' = Append(sent, m) /\ pending' = Append(pending, m)
  BY DEF Send
<1>3. sent' \in Seq(Mails) /\ pending' \in Seq(Mails)
  BY <1>1, <1>2 DEF WorldTypes
<1>4. WorldTypes'
  BY <1>1, <1>3 DEF Send, bounds, WorldTypes
<1> QED BY <1>4, WorldStep DEF Send

LEMMA ForeignWriteStep ==
  ASSUME LoopInv, ForeignWrite
  PROVE  LoopInv'
<1>1. Typed /\ Wellformed(journal)
  BY DEF LoopInv
<1>2. /\ WorldTypes /\ MaxForeign \in Nat /\ journal \in Seq(Event) /\ Len(journal) \in Nat
  BY <1>1, TypedIs
<1>3. WorldTypes'
  <2>1. foreign' \in 0 .. MaxForeign
    BY <1>2 DEF WorldTypes, ForeignWrite
  <2> QED BY <1>2, <2>1 DEF WorldTypes, ForeignWrite
<1>4. \E e \in Event : journal' = Append(journal, e) /\ MayFollow(e)
  <2>1. CASE journal' = Append(journal, UserEvent(None))
    <3>1. UserEvent(None) \in Event /\ UserEvent(None).type = "user"
      BY EventIs
    <3> QED BY <2>1, <3>1 DEF MayFollow, Preceded
  <2>2. ASSUME NEW i \in 1 .. Len(journal), NEW status \in Settled,
               journal[i].type = "action.started",
               journal' = Append(journal, ActionCompleted(
                 [call |-> journal[i].call, inv |-> i, status |-> status]))
        PROVE  \E e \in Event : journal' = Append(journal, e) /\ MayFollow(e)
    <3> DEFINE t == [stage |-> "done", call |-> journal[i].call, inv |-> i, status |-> status]
               e == ActionCompleted(t)
    <3>1. journal[i].call \in Calls /\ status \in Statuses /\ i \in Nat
      BY <1>1, <1>2, <2>2 DEF Wellformed, Settled, Statuses
    <3>2. t \in Task /\ t.status \in Statuses
      BY <3>1 DEF Task
    <3>3. t.inv = i /\ t.call = journal[i].call /\ t.status = status
      OBVIOUS
    <3>4. journal' = Append(journal, e)
      BY <2>2, <3>3 DEF ActionCompleted
    <3> HIDE DEF t
    <3>5. /\ e \in Event /\ e.type = "action.completed" /\ e.inv = i
          /\ e.call = journal[i].call /\ e.status = status
      BY <3>2, <3>3, ActionEventIs
    <3> HIDE DEF e
    <3>6. i \in Starts(journal)
      BY <2>2 DEF Starts
    <3>7. MayFollow(e)
      BY <3>1, <3>5, <3>6 DEF MayFollow, Preceded
    <3> QED BY <3>4, <3>5, <3>7
  <2> QED BY <2>1, <2>2 DEF ForeignWrite
<1>5. Len(journal) < MaxEvents /\ UNCHANGED local
  BY DEF ForeignWrite
<1> QED BY <1>3, <1>4, <1>5, WorldStep

-----------------------------------------------------------------------------
(* The invariant holds.                                                     *)

LEMMA LoopInit == Init => LoopInv
<1> SUFFICES ASSUME Init PROVE LoopInv
  OBVIOUS
<1>1. /\ journal = <<>> /\ pending = <<>> /\ sent = <<>>
      /\ effects = [c \in Calls |-> 0] /\ starts = 0 /\ foreign = 0
      /\ pc = [p \in Procs |-> "down"] /\ known = [p \in Procs |-> 0]
      /\ turns = [p \in Procs |-> 0] /\ todo = [p \in Procs |-> <<>>]
      /\ open = [p \in Procs |-> NothingOpen] /\ prior = [p \in Procs |-> NoAnswer]
      /\ batch = [p \in Procs |-> <<>>]
  BY DEF Init
<1>2. {Width, Limit, Batch, MaxEvents, MaxStarts, MaxForeign} \subseteq Nat
  BY AgentLoopAssumption
<1>3. /\ <<>> \in Seq(Event) /\ <<>> \in Seq(Mails) /\ <<>> \in Seq(Task)
      /\ <<>> \in Seq([mail : Mails, told : BOOLEAN]) /\ Len(<<>>) = 0
  BY EmptySeq
<1>4. /\ journal \in Seq(Event) /\ pending \in Seq(Mails) /\ sent \in Seq(Mails)
      /\ effects \in [Calls -> Nat] /\ starts \in 0 .. MaxStarts /\ foreign \in 0 .. MaxForeign
  BY <1>1, <1>2, <1>3
<1>5. /\ pc \in [Procs -> Phases] /\ known \in [Procs -> 0 .. MaxEvents]
      /\ turns \in [Procs -> 0 .. Limit]
  BY <1>1, <1>2 DEF Phases
<1>6. /\ open \in [Procs -> [unreconciled : BOOLEAN, pending : BOOLEAN]]
      /\ prior \in [Procs -> Answer]
  BY <1>1, AnswerIs DEF NothingOpen
<1>7. todo \in [Procs -> Seq(Task)]
  <2> DEFINE S == Seq(Task)
  <2>1. <<>> \in S
    BY <1>3
  <2> HIDE DEF S
  <2>2. todo \in [Procs -> S]
    BY <1>1, <2>1
  <2> QED BY <2>2 DEF S
<1>8. batch \in [Procs -> Seq([mail : Mails, told : BOOLEAN])]
  <2> DEFINE S == Seq([mail : Mails, told : BOOLEAN])
  <2>1. <<>> \in S
    BY <1>3
  <2> HIDE DEF S
  <2>2. batch \in [Procs -> S]
    BY <1>1, <2>1
  <2> QED BY <2>2 DEF S
<1>9. Typed
  <2>1. Len(journal) = 0 /\ \A p \in Procs : known[p] = 0
    BY <1>1, <1>3
  <2>2. TypeOK
    BY <1>4, <1>5, <1>6, <1>7, <1>8, Zenon DEF TypeOK
  <2>3. MaxEvents \in Nat
    BY <1>2
  <2> QED BY <2>1, <2>2, <2>3 DEF Typed
<1>10. /\ Wellformed(journal) /\ FinishedTurnNotReinvoked /\ CompletedIsEarned
  BY <1>1, <1>3 DEF Wellformed, FinishedTurnNotReinvoked, CompletedIsEarned
<1>11. ASSUME NEW p \in Procs
       PROVE  InPhase(p) /\ Anchored(p) /\ Covered(p) /\ Calling(p)
  <2>1. /\ pc[p] = "down" /\ todo[p] = <<>> /\ open[p] = NothingOpen /\ prior[p].state = "none"
        /\ batch[p] = <<>>
    BY <1>1, AnswerIs
  <2>2. InPhase(p) /\ ~Current(p)
    BY <2>1 DEF InPhase, Current
  <2>3. Anchored(p)
    BY <1>3, <2>1 DEF Anchored
  <2> QED BY <2>2, <2>3 DEF Covered, Calling
<1> QED BY <1>9, <1>10, <1>11 DEF LoopInv

LEMMA LoopNext == LoopInv /\ [Next]_vars => LoopInv'
<1> SUFFICES ASSUME LoopInv, [Next]_vars PROVE LoopInv'
  OBVIOUS
<1>1. CASE UNCHANGED vars
  <2>1. /\ journal' = journal /\ pending' = pending /\ sent' = sent /\ effects' = effects
        /\ starts' = starts /\ foreign' = foreign /\ UNCHANGED local
    BY <1>1 DEF vars
  <2>2. WorldTypes'
    BY <2>1, TypedIs DEF LoopInv, WorldTypes
  <2> QED BY <2>1, <2>2, WorldStep
<1>2. ASSUME NEW p \in Procs, Loop(p)
      PROVE  LoopInv'
  BY <1>2, StartStep, UnreconciledStep, ReconcileStep, BeginActionStep, ExecuteStep,
     EndActionStep, AppendResultStep, CheckpointRepairStep, MarkInterruptedStep,
     ReplayOutcomeStep, NothingToReplayStep, LimitReachedStep, HostStopsStep,
     NextTurnStep, ReadMailStep, DeliverMailStep, AcknowledgeStep, MailDoneStep,
     CallModelStep, InvokeStep, RecordErrorStep, RetryCallStep, FailRunStep,
     RecordProtocolErrorStep, FailRefusedStep, RecordCompletionStep,
     RecordMessageStep, EndRunStep, TurnDoneStep, ConflictStep, ExitStep
     DEF Loop
<1> QED BY <1>1, <1>2, SendStep, ForeignWriteStep DEF Next

LEMMA LoopInvariant == Spec => []LoopInv
BY LoopInit, LoopNext, PTL DEF Spec

-----------------------------------------------------------------------------
(* When the provider never repeats a call id.                               *)

\* What is left to start or to execute are tasks the process had before.
Kept(p) == \E d \in {0, 1} : \A i \in 1 .. Len(todo'[p]) :
  todo'[p][i].stage \in {"unstarted", "started"} =>
    i + d \in 1 .. Len(todo[p]) /\ todo'[p][i] = todo[p][i + d]

\* A step that neither starts nor executes an action nor brings new calls.
Moved(p) ==
  /\ Others(p) /\ Kept(p)
  /\ Current(p)' => Current(p)
  /\ pc'[p] \in {"answered", "message"} => pc[p] = "answered" /\ prior'[p] = prior[p]
  /\ \/ journal' = journal
     \/ \E e \in Event : /\ journal' = Append(journal, e) /\ e.calls = <<>>
                         /\ e.type # "action.started"

\* An event without calls changes nothing about calls.
LEMMA FreshGrows ==
  ASSUME Typed, FreshJournal, NEW e \in Event, journal' = Append(journal, e), e.calls = <<>>,
         e.type # "action.started"
  PROVE  /\ FreshJournal'
         /\ \A c : HasStart(journal', c) <=> HasStart(journal, c)
         /\ \A S : (\A k \in 1 .. Len(journal) : S \cap ToSet(journal[k].calls) = {})
              => \A k \in 1 .. Len(journal') : S \cap ToSet(journal'[k].calls) = {}
<1>1. /\ journal \in Seq(Event) /\ Len(journal) \in Nat /\ Len(journal') = Len(journal) + 1
      /\ \A i \in 1 .. Len(journal) : journal'[i] = journal[i]
      /\ journal'[Len(journal) + 1] = e
  BY TypedIs, AppendIs
<1>2. ToSet(<<>>) = {} /\ IsInjective(<<>>)
  BY DEF ToSet, IsInjective
<1>3. \A k \in 1 .. Len(journal') :
        \/ k \in 1 .. Len(journal) /\ journal'[k].calls = journal[k].calls
        \/ k = Len(journal) + 1 /\ journal'[k].calls = <<>>
  BY <1>1
<1>4. /\ \A c : HasStart(journal', c) <=> HasStart(journal, c)
      /\ \A n : n \in Starts(journal') <=> n \in Starts(journal)
      /\ Starts(journal) \subseteq 1 .. Len(journal)
  BY <1>1, MarksAppend
<1>5. ASSUME NEW a \in 1 .. Len(journal'), NEW b \in 1 .. Len(journal'), a # b
      PROVE  ToSet(journal'[a].calls) \cap ToSet(journal'[b].calls) = {}
  <2>1. CASE journal'[a].calls = <<>> \/ journal'[b].calls = <<>>
    BY <1>2, <2>1
  <2>2. CASE journal'[a].calls # <<>> /\ journal'[b].calls # <<>>
    BY <1>3, <1>5, <2>2 DEF FreshJournal
  <2> QED BY <2>1, <2>2
<1>6. \A a \in 1 .. Len(journal') : IsInjective(journal'[a].calls)
  BY <1>2, <1>3 DEF FreshJournal
<1>7. \A i, k \in Starts(journal') : journal'[i].call = journal'[k].call => i = k
  <2>1. \A i \in Starts(journal') : i \in Starts(journal) /\ journal'[i] = journal[i]
    BY <1>1, <1>4
  <2> QED BY <2>1 DEF FreshJournal
<1>8. ASSUME NEW S, \A k \in 1 .. Len(journal) : S \cap ToSet(journal[k].calls) = {},
             NEW k \in 1 .. Len(journal')
      PROVE  S \cap ToSet(journal'[k].calls) = {}
  BY <1>2, <1>3, <1>8
<1> QED BY <1>4, <1>5, <1>6, <1>7, <1>8 DEF FreshJournal

\* The tasks of the others stay as fresh as they were.
LEMMA FreshOther ==
  ASSUME Typed, NEW q \in Procs, Same(q), FreshTasks(q),
         \/ journal' = journal
         \/ \E e \in Event : journal' = Append(journal, e)
  PROVE  FreshTasks(q)'
<1>1. /\ pc'[q] = pc[q] /\ known'[q] = known[q] /\ todo'[q] = todo[q] /\ prior'[q] = prior[q]
  BY DEF Same
<1>2. CASE journal' = journal
  BY <1>1, <1>2 DEF FreshTasks, Current, HeadExpected
<1>3. ASSUME NEW e \in Event, journal' = Append(journal, e)
      PROVE  FreshTasks(q)'
  <2>1. /\ Len(journal) \in Nat /\ Len(journal') = Len(journal) + 1 /\ known[q] <= Len(journal)
        /\ known[q] \in Nat
    <3>1. LocalTypes /\ journal \in Seq(Event) /\ known[q] <= Len(journal)
      BY TypedIs
    <3>2. known[q] \in Nat
      BY <3>1 DEF LocalTypes
    <3> QED BY <1>3, <3>1, <3>2, AppendIs
  <2>2. ~Current(q)'
    BY <1>1, <2>1 DEF Current, HeadExpected
  <2> QED BY <1>1, <2>2 DEF FreshTasks
<1> QED BY <1>2, <1>3

\* What holds of the tasks that are kept.
LEMMA FreshMoved ==
  ASSUME LoopInv, FreshInv, NEW p \in Procs, Moved(p), effects' = effects
  PROVE  /\ FreshJournal' /\ EffectsAtMostOnce'
         /\ \A q \in Procs : FreshTasks(q)' /\ Unexecuted(q)'
<1>1. /\ Typed /\ FreshJournal /\ \A q \in Procs : FreshTasks(q) /\ Unexecuted(q)
  BY DEF LoopInv, FreshInv
<1>2. /\ FreshJournal'
      /\ \A c : HasStart(journal', c) <=> HasStart(journal, c)
      /\ \A S : (\A k \in 1 .. Len(journal) : S \cap ToSet(journal[k].calls) = {})
           => \A k \in 1 .. Len(journal') : S \cap ToSet(journal'[k].calls) = {}
  <2>1. CASE journal' = journal
    BY <1>1, <2>1 DEF FreshJournal
  <2>2. CASE \E e \in Event : /\ journal' = Append(journal, e) /\ e.calls = <<>>
                              /\ e.type # "action.started"
    BY <1>1, <2>2, FreshGrows
  <2> QED BY <2>1, <2>2 DEF Moved
<1>3. EffectsAtMostOnce'
  BY <1>2 DEF FreshInv, EffectsAtMostOnce
<1>4. PICK d \in {0, 1} : \A i \in 1 .. Len(todo'[p]) :
        todo'[p][i].stage \in {"unstarted", "started"} =>
          i + d \in 1 .. Len(todo[p]) /\ todo'[p][i] = todo[p][i + d]
  BY DEF Moved, Kept
<1>5. FreshTasks(p)'
  <2>1. ASSUME NEW i \in 1 .. Len(todo'[p]), NEW k \in 1 .. Len(todo'[p]),
               todo'[p][i].stage = "unstarted", todo'[p][k].stage = "unstarted",
               todo'[p][i].call = todo'[p][k].call
        PROVE  i = k
    <3>1. /\ i + d \in 1 .. Len(todo[p]) /\ todo'[p][i] = todo[p][i + d]
          /\ k + d \in 1 .. Len(todo[p]) /\ todo'[p][k] = todo[p][k + d]
      BY <1>4, <2>1
    <3>2. i + d = k + d
      BY <1>1, <2>1, <3>1 DEF FreshTasks
    <3>3. i \in Int /\ k \in Int /\ d \in Int
      OBVIOUS
    <3> QED BY <3>2, <3>3
  <2>2. ASSUME Current(p)', NEW i \in 1 .. Len(todo'[p]), todo'[p][i].stage = "unstarted"
        PROVE  ~HasStart(journal', todo'[p][i].call)
    <3>1. Current(p)
      BY <2>2 DEF Moved
    <3>2. i + d \in 1 .. Len(todo[p]) /\ todo'[p][i] = todo[p][i + d]
      BY <1>4, <2>2
    <3> QED BY <1>1, <1>2, <2>2, <3>1, <3>2 DEF FreshTasks
  <2>3. ASSUME Current(p)', pc'[p] \in {"answered", "message"}, prior'[p].state = "answered"
        PROVE  /\ IsInjective(prior'[p].calls)
               /\ \A k \in 1 .. Len(journal') : ToSet(prior'[p].calls) \cap ToSet(journal'[k].calls) = {}
    <3>1. Current(p) /\ pc[p] = "answered" /\ prior'[p] = prior[p]
      BY <2>3 DEF Moved
    <3>2. /\ IsInjective(prior[p].calls)
          /\ \A k \in 1 .. Len(journal) : ToSet(prior[p].calls) \cap ToSet(journal[k].calls) = {}
      BY <1>1, <2>3, <3>1 DEF FreshTasks
    <3> QED BY <1>2, <3>1, <3>2
  <2> QED BY <2>1, <2>2, <2>3 DEF FreshTasks
<1>6. ASSUME NEW q \in Procs
      PROVE  FreshTasks(q)'
  <2>1. CASE q = p
    BY <1>5, <2>1
  <2>2. CASE q # p
    BY <1>1, <2>2, FreshOther DEF Moved, Others, Same
  <2> QED BY <2>1, <2>2
<1>7. ASSUME NEW q \in Procs, NEW i \in 1 .. Len(todo'[q]), todo'[q][i].stage = "started"
      PROVE  \E k \in 1 .. Len(todo[q]) : todo[q][k] = todo'[q][i]
  <2>1. CASE q = p
    BY <1>4, <1>7, <2>1
  <2>2. CASE q # p
    BY <1>7, <2>2 DEF Moved, Others
  <2> QED BY <2>1, <2>2
<1>8. ASSUME NEW q \in Procs
      PROVE  Unexecuted(q)'
  <2>1. ASSUME NEW i \in 1 .. Len(todo'[q]), todo'[q][i].stage = "started"
        PROVE  /\ effects'[todo'[q][i].call] = 0
               /\ \A r \in Procs \ {q} : \A k \in 1 .. Len(todo'[r]) :
                    todo'[r][k].stage = "started" => todo'[r][k].inv # todo'[q][i].inv
    <3>1. PICK j \in 1 .. Len(todo[q]) : todo[q][j] = todo'[q][i]
      BY <1>7, <2>1
    <3>2. effects'[todo'[q][i].call] = 0
      BY <1>1, <2>1, <3>1 DEF Unexecuted
    <3>3. ASSUME NEW r \in Procs \ {q}, NEW k \in 1 .. Len(todo'[r]), todo'[r][k].stage = "started"
          PROVE  todo'[r][k].inv # todo'[q][i].inv
      <4>1. PICK l \in 1 .. Len(todo[r]) : todo[r][l] = todo'[r][k]
        BY <1>7, <3>3
      <4>2. todo[q][j].stage = "started" /\ todo[r][l].stage = "started"
        BY <2>1, <3>1, <3>3, <4>1
      <4>3. Unexecuted(q)
        BY <1>1
      <4>4. todo[r][l].inv # todo[q][j].inv
        BY <4>2, <4>3 DEF Unexecuted
      <4> QED BY <3>1, <4>1, <4>4
    <3> QED BY <3>2, <3>3
  <2> QED BY <2>1 DEF Unexecuted
<1> QED BY <1>2, <1>3, <1>6, <1>8

\* Tasks that stay, are done with, or get one stage further are kept.
LEMMA KeptIs ==
  ASSUME Typed, NEW p \in Procs,
         \/ todo'[p] = todo[p]
         \/ Popped(p)
         \/ Down(p)
         \/ \E i \in 1 .. Len(todo[p]), t \in Task :
              Retasked(p, i, t) /\ t.stage \notin {"unstarted", "started"}
  PROVE  Kept(p)
<1>1. todo[p] \in Seq(Task)
  BY TypedIs DEF LocalTypes
<1>2. Len(todo[p]) \in Nat
  BY <1>1
<1>3. CASE todo'[p] = todo[p]
  <2>1. \A i \in 1 .. Len(todo'[p]) : i + 0 \in 1 .. Len(todo[p]) /\ todo'[p][i] = todo[p][i + 0]
    BY <1>2, <1>3
  <2> QED BY <2>1 DEF Kept
<1>4. CASE Popped(p)
  <2>1. \A i \in 1 .. Len(todo'[p]) : i + 1 \in 1 .. Len(todo[p]) /\ todo'[p][i] = todo[p][i + 1]
    BY <1>2, <1>4 DEF Popped
  <2> QED BY <2>1 DEF Kept
<1>5. CASE Down(p)
  BY <1>5 DEF Down, Kept
<1>6. ASSUME NEW i \in 1 .. Len(todo[p]), NEW t \in Task,
             Retasked(p, i, t), t.stage \notin {"unstarted", "started"}
      PROVE  Kept(p)
  <2>1. \A k \in 1 .. Len(todo'[p]) : todo'[p][k].stage \in {"unstarted", "started"} =>
          k + 0 \in 1 .. Len(todo[p]) /\ todo'[p][k] = todo[p][k + 0]
    BY <1>2, <1>6 DEF Retasked
  <2> QED BY <2>1 DEF Kept
<1> QED BY <1>3, <1>4, <1>5, <1>6

-----------------------------------------------------------------------------
(* The steps that touch neither calls nor mail.                             *)

Only(p, f, g) == \A q \in Procs : q # p => g[q] = f[q]

\* A step that moves a process on and brings neither a call nor a message.
Quiet(p) ==
  /\ Moved(p)
  /\ pending' = pending /\ sent' = sent /\ effects' = effects
  /\ \/ journal' = journal
     \/ \E e \in Event : /\ journal' = Append(journal, e)
                         /\ e.type \notin {"model.started", "user"}
  /\ batch'[p] \in {batch[p], <<>>}

LEMMA QuietFinish ==
  ASSUME LoopInv, NEW p \in Procs, NEW status \in Outcomes, Finish(p, status)
  PROVE  Quiet(p)
<1> DEFINE e == OutcomeEvent(status)
<1>1. Typed
  BY DEF LoopInv
<1>2. /\ Appended(p, e) /\ Down(p) /\ Others(p)
      /\ pending' = pending /\ sent' = sent /\ effects' = effects
  BY <1>1, FinishIs
<1>3. e \in Event /\ e.type = "run.completed" /\ e.calls = <<>>
  BY EventIs
<1>4. journal' = Append(journal, e)
  BY <1>2 DEF Appended
<1> HIDE DEF e
<1>5. pc'[p] = "down" /\ batch'[p] = <<>> /\ ~Current(p)'
  BY <1>2 DEF Down, Current
<1>6. Kept(p)
  BY <1>1, <1>2, KeptIs
<1>7. Moved(p)
  BY <1>2, <1>3, <1>4, <1>5, <1>6 DEF Moved
<1> QED BY <1>2, <1>3, <1>4, <1>5, <1>7 DEF Quiet

LEMMA QuietExit ==
  ASSUME LoopInv, NEW p \in Procs, Exit(p)
  PROVE  Quiet(p)
<1>1. Typed
  BY DEF LoopInv
<1>2. Stop(p) /\ journal' = journal /\ pending' = pending /\ sent' = sent /\ effects' = effects
  BY DEF Exit, world
<1>3. Down(p) /\ Others(p)
  BY <1>1, <1>2, StopIs
<1>4. pc'[p] = "down" /\ batch'[p] = <<>> /\ ~Current(p)'
  BY <1>3 DEF Down, Current
<1>5. Kept(p)
  BY <1>1, <1>3, KeptIs
<1>6. Moved(p)
  BY <1>2, <1>3, <1>4, <1>5 DEF Moved
<1> QED BY <1>2, <1>4, <1>6 DEF Quiet

\* A running process goes on.
LEMMA QuietIs ==
  ASSUME LoopInv, NEW p \in Procs, pc[p] \notin {"down", "unwinding"},
         pending' = pending, sent' = sent, effects' = effects, batch' = batch,
         Only(p, pc, pc'), Only(p, turns, turns'), Only(p, todo, todo'),
         Only(p, open, open'), Only(p, prior, prior'),
         \/ journal' = journal /\ known' = known
         \/ \E e \in Event : /\ Write(p, e) /\ e.calls = <<>>
                             /\ e.type \notin {"action.started", "model.started", "user"},
         \/ todo'[p] = todo[p]
         \/ Popped(p)
         \/ \E i \in 1 .. Len(todo[p]), t \in Task :
              Retasked(p, i, t) /\ t.stage \notin {"unstarted", "started"},
         pc'[p] \in {"answered", "message"} => pc[p] = "answered" /\ prior'[p] = prior[p]
  PROVE  Quiet(p)
<1>1. Typed
  BY DEF LoopInv
<1>2. Kept(p)
  BY <1>1, KeptIs
<1>3. /\ Only(p, known, known')
      /\ Current(p)' => Current(p)
      /\ \/ journal' = journal
         \/ \E e \in Event : /\ journal' = Append(journal, e) /\ e.calls = <<>>
                             /\ e.type \notin {"action.started", "model.started", "user"}
  <2>1. CASE journal' = journal /\ known' = known
    BY <2>1 DEF Only, Current, HeadExpected
  <2>2. ASSUME NEW e \in Event, Write(p, e)
        PROVE  Only(p, known, known') /\ Current(p) /\ journal' = Append(journal, e)
    BY <1>1, <2>2, WroteIs DEF Only, Current
  <2> QED BY <2>1, <2>2
<1>4. Others(p)
  BY <1>3 DEF Others, Only
<1>5. Moved(p)
  BY <1>2, <1>3, <1>4 DEF Moved
<1> QED BY <1>3, <1>5 DEF Quiet

LEMMA QuietNothingToReplay ==
  ASSUME LoopInv, NEW p \in Procs, NothingToReplay(p)
  PROVE  Quiet(p)
<1>1. LocalTypes
  BY TypedIs DEF LoopInv
<1>2. /\ pc[p] = "repair" /\ pc' = [pc EXCEPT ![p] = "top"]
      /\ prior' = [prior EXCEPT ![p] = NoAnswer]
      /\ pending' = pending /\ sent' = sent /\ effects' = effects /\ journal' = journal
      /\ known' = known /\ turns' = turns /\ todo' = todo /\ open' = open /\ batch' = batch
  BY DEF NothingToReplay, Repaired, Goto, world
<1>3. /\ pc'[p] = "top" /\ Only(p, pc, pc') /\ Only(p, turns, turns') /\ Only(p, todo, todo')
      /\ Only(p, open, open') /\ Only(p, prior, prior')
  BY <1>1, <1>2 DEF LocalTypes, Only
<1> QED BY <1>2, <1>3, QuietIs

LEMMA QuietNextTurn ==
  ASSUME LoopInv, NEW p \in Procs, NextTurn(p)
  PROVE  Quiet(p)
<1>1. LocalTypes
  BY TypedIs DEF LoopInv
<1>2. /\ pc[p] = "top" /\ pc' = [pc EXCEPT ![p] = "receive"] /\ prior' = prior
      /\ pending' = pending /\ sent' = sent /\ effects' = effects /\ journal' = journal
      /\ known' = known /\ turns' = turns /\ todo' = todo /\ open' = open /\ batch' = batch
  BY DEF NextTurn, Goto, world
<1>3. /\ pc'[p] = "receive" /\ Only(p, pc, pc') /\ Only(p, turns, turns') /\ Only(p, todo, todo')
      /\ Only(p, open, open') /\ Only(p, prior, prior')
  BY <1>1, <1>2 DEF LocalTypes, Only
<1> QED BY <1>2, <1>3, QuietIs

LEMMA QuietRetryCall ==
  ASSUME LoopInv, NEW p \in Procs, RetryCall(p)
  PROVE  Quiet(p)
<1>1. LocalTypes
  BY TypedIs DEF LoopInv
<1>2. /\ pc[p] = "failed" /\ pc' = [pc EXCEPT ![p] = "call"] /\ prior' = prior
      /\ pending' = pending /\ sent' = sent /\ effects' = effects /\ journal' = journal
      /\ known' = known /\ turns' = turns /\ todo' = todo /\ open' = open /\ batch' = batch
  BY DEF RetryCall, Goto, world
<1>3. /\ pc'[p] = "call" /\ Only(p, pc, pc') /\ Only(p, turns, turns') /\ Only(p, todo, todo')
      /\ Only(p, open, open') /\ Only(p, prior, prior')
  BY <1>1, <1>2 DEF LocalTypes, Only
<1> QED BY <1>2, <1>3, QuietIs

LEMMA QuietConflict ==
  ASSUME LoopInv, NEW p \in Procs, Conflict(p)
  PROVE  Quiet(p)
<1>1. LocalTypes
  BY TypedIs DEF LoopInv
<1>2. /\ pc[p] \notin {"down", "unwinding"} /\ pc' = [pc EXCEPT ![p] = "unwinding"] /\ prior' = prior
      /\ pending' = pending /\ sent' = sent /\ effects' = effects /\ journal' = journal
      /\ known' = known /\ turns' = turns /\ todo' = todo /\ open' = open /\ batch' = batch
  BY DEF Conflict, Goto, world
<1>3. /\ pc'[p] = "unwinding" /\ Only(p, pc, pc') /\ Only(p, turns, turns') /\ Only(p, todo, todo')
      /\ Only(p, open, open') /\ Only(p, prior, prior')
  BY <1>1, <1>2 DEF LocalTypes, Only
<1> QED BY <1>2, <1>3, QuietIs

LEMMA QuietMailDone ==
  ASSUME LoopInv, NEW p \in Procs, MailDone(p)
  PROVE  Quiet(p)
<1>1. LocalTypes
  BY TypedIs DEF LoopInv
<1>2. /\ pc[p] = "deliver" /\ prior' = [prior EXCEPT ![p] = NoAnswer]
      /\ \/ pc' = [pc EXCEPT ![p] = "call"] /\ turns' = [turns EXCEPT ![p] = @ + 1]
         \/ pc' = [pc EXCEPT ![p] = "top"] /\ turns' = turns
      /\ pending' = pending /\ sent' = sent /\ effects' = effects /\ journal' = journal
      /\ known' = known /\ todo' = todo /\ open' = open /\ batch' = batch
  BY DEF MailDone, Goto, world
<1>3. /\ pc'[p] \in {"call", "top"} /\ Only(p, pc, pc') /\ Only(p, turns, turns')
      /\ Only(p, todo, todo') /\ Only(p, open, open') /\ Only(p, prior, prior')
  BY <1>1, <1>2 DEF LocalTypes, Only
<1> QED BY <1>2, <1>3, QuietIs

LEMMA QuietTurnDone ==
  ASSUME LoopInv, NEW p \in Procs, TurnDone(p)
  PROVE  Quiet(p)
<1>1. LocalTypes
  BY TypedIs DEF LoopInv
<1>2. CASE open[p].pending
  BY <1>2, QuietFinish DEF TurnDone, Outcomes
<1>3. CASE ~open[p].pending
  <2>2. /\ pc[p] = "act" /\ pc' = [pc EXCEPT ![p] = "top"] /\ prior' = prior
        /\ pending' = pending /\ sent' = sent /\ effects' = effects /\ journal' = journal
        /\ known' = known /\ turns' = turns /\ todo' = todo /\ open' = open /\ batch' = batch
    BY <1>3 DEF TurnDone, Goto, world
  <2>3. /\ pc'[p] = "top" /\ Only(p, pc, pc') /\ Only(p, turns, turns') /\ Only(p, todo, todo')
        /\ Only(p, open, open') /\ Only(p, prior, prior')
    BY <1>1, <2>2 DEF LocalTypes, Only
  <2> QED BY <2>2, <2>3, QuietIs
<1> QED BY <1>2, <1>3

LEMMA QuietMarkInterrupted ==
  ASSUME LoopInv, NEW p \in Procs, MarkInterrupted(p)
  PROVE  Quiet(p)
<1>1. LocalTypes
  BY TypedIs DEF LoopInv
<1>2. /\ pc[p] = "repair" /\ pc' = [pc EXCEPT ![p] = "top"] /\ Write(p, InterruptedEvent)
      /\ prior' = [prior EXCEPT ![p] = NoAnswer]
      /\ pending' = pending /\ sent' = sent /\ effects' = effects
      /\ turns' = turns /\ todo' = todo /\ open' = open /\ batch' = batch
  BY DEF MarkInterrupted, Repaired, Goto, world
<1>3. /\ pc'[p] = "top" /\ Only(p, pc, pc') /\ Only(p, turns, turns') /\ Only(p, todo, todo')
      /\ Only(p, open, open') /\ Only(p, prior, prior')
  BY <1>1, <1>2 DEF LocalTypes, Only
<1>4. InterruptedEvent \in Event /\ InterruptedEvent.type = "model.interrupted" /\ InterruptedEvent.calls = <<>>
  BY EventIs
<1> QED BY <1>2, <1>3, <1>4, QuietIs

LEMMA QuietReplayOutcome ==
  ASSUME LoopInv, NEW p \in Procs, ReplayOutcome(p)
  PROVE  Quiet(p)
<1> DEFINE status == FinalOutcome(prior[p].stop)
           e == OutcomeEvent(status)
<1>1. LocalTypes
  BY TypedIs DEF LoopInv
<1>2. status \in Outcomes
  BY <1>1, OutcomeIs DEF LocalTypes, Answer
<1>3. e \in Event /\ e.type = "run.completed" /\ e.calls = <<>>
  BY <1>2, EventIs
<1>4. \/ Finish(p, status)
      \/ /\ pc[p] = "repair" /\ pc' = [pc EXCEPT ![p] = "top"] /\ Write(p, e)
         /\ prior' = [prior EXCEPT ![p] = NoAnswer]
         /\ pending' = pending /\ sent' = sent /\ effects' = effects
         /\ turns' = turns /\ todo' = todo /\ open' = open /\ batch' = batch
  BY DEF ReplayOutcome, Repaired, Goto, world
<1> HIDE DEF status, e
<1>5. CASE Finish(p, status)
  BY <1>2, <1>5, QuietFinish
<1>6. CASE /\ pc[p] = "repair" /\ pc' = [pc EXCEPT ![p] = "top"] /\ Write(p, e)
           /\ prior' = [prior EXCEPT ![p] = NoAnswer]
           /\ pending' = pending /\ sent' = sent /\ effects' = effects
           /\ turns' = turns /\ todo' = todo /\ open' = open /\ batch' = batch
  <2>1. /\ pc'[p] = "top" /\ Only(p, pc, pc') /\ Only(p, turns, turns') /\ Only(p, todo, todo')
        /\ Only(p, open, open') /\ Only(p, prior, prior')
    BY <1>1, <1>6 DEF LocalTypes, Only
  <2> QED BY <1>3, <1>6, <2>1, QuietIs
<1> QED BY <1>4, <1>5, <1>6

LEMMA QuietRecordError ==
  ASSUME LoopInv, NEW p \in Procs, RecordError(p)
  PROVE  Quiet(p)
<1>1. LocalTypes
  BY TypedIs DEF LoopInv
<1>2. /\ pc[p] = "answered" /\ Write(p, ErrorEvent)
      /\ pc' = [pc EXCEPT ![p] = IF prior[p].state = "threw" THEN "failed" ELSE "refused"]
      /\ prior' = [prior EXCEPT ![p] = NoAnswer]
      /\ pending' = pending /\ sent' = sent /\ effects' = effects
      /\ turns' = turns /\ todo' = todo /\ open' = open /\ batch' = batch
  BY DEF RecordError, Goto, world
<1>3. /\ pc'[p] \in {"failed", "refused"} /\ Only(p, pc, pc') /\ Only(p, turns, turns')
      /\ Only(p, todo, todo') /\ Only(p, open, open') /\ Only(p, prior, prior')
  BY <1>1, <1>2 DEF LocalTypes, Only
<1>4. ErrorEvent \in Event /\ ErrorEvent.type = "model.completed" /\ ErrorEvent.calls = <<>>
  BY EventIs
<1> QED BY <1>2, <1>3, <1>4, QuietIs

LEMMA QuietRecordProtocolError ==
  ASSUME LoopInv, NEW p \in Procs, RecordProtocolError(p)
  PROVE  Quiet(p)
<1> DEFINE e == Plain("protocol.error")
<1>1. LocalTypes
  BY TypedIs DEF LoopInv
<1>2. /\ pc[p] = "refused" /\ pc' = pc /\ Write(p, e)
      /\ prior' = [prior EXCEPT ![p].state = "refused"]
      /\ pending' = pending /\ sent' = sent /\ effects' = effects
      /\ turns' = turns /\ todo' = todo /\ open' = open /\ batch' = batch
  BY DEF RecordProtocolError, world
<1>3. /\ pc'[p] = "refused" /\ Only(p, pc, pc') /\ Only(p, turns, turns') /\ Only(p, todo, todo')
      /\ Only(p, open, open') /\ Only(p, prior, prior')
  BY <1>1, <1>2 DEF LocalTypes, Only
<1>4. e \in Event /\ e.type = "protocol.error" /\ e.calls = <<>>
  BY EventIs
<1> HIDE DEF e
<1> QED BY <1>2, <1>3, <1>4, QuietIs

LEMMA QuietRecordCompletion ==
  ASSUME LoopInv, NEW p \in Procs, RecordCompletion(p)
  PROVE  Quiet(p)
<1> DEFINE e == CompletedEvent(prior[p].stop)
<1>1. LocalTypes
  BY TypedIs DEF LoopInv
<1>2. /\ pc[p] = "answered" /\ pc' = [pc EXCEPT ![p] = "message"] /\ Write(p, e) /\ prior' = prior
      /\ pending' = pending /\ sent' = sent /\ effects' = effects
      /\ turns' = turns /\ todo' = todo /\ open' = open /\ batch' = batch
  BY DEF RecordCompletion, Goto, world
<1>3. /\ Only(p, pc, pc') /\ Only(p, turns, turns') /\ Only(p, todo, todo')
      /\ Only(p, open, open') /\ Only(p, prior, prior')
  BY <1>1, <1>2 DEF LocalTypes, Only
<1>4. prior[p].stop \in Stops
  BY <1>1 DEF LocalTypes, Answer
<1>5. e \in Event /\ e.type = "model.completed" /\ e.calls = <<>>
  BY <1>4, EventIs
<1> HIDE DEF e
<1> QED BY <1>2, <1>3, <1>5, QuietIs

LEMMA QuietRecordMessage ==
  ASSUME LoopInv, NEW p \in Procs, RecordMessage(p), prior[p].calls = <<>>
  PROVE  Quiet(p)
<1> DEFINE e == AssistantEvent(<<>>)
<1>1. LocalTypes
  BY TypedIs DEF LoopInv
<1>2. /\ pc[p] = "message" /\ Write(p, e)
      /\ pc' = [pc EXCEPT ![p] = IF prior[p].stop = "end" THEN "receive" ELSE "deliver"]
      /\ pending' = pending /\ sent' = sent /\ effects' = effects /\ prior' = prior
      /\ turns' = turns /\ todo' = todo /\ open' = open /\ batch' = batch
  BY DEF RecordMessage, Goto, world
<1>3. /\ pc'[p] \in {"receive", "deliver"} /\ Only(p, pc, pc') /\ Only(p, turns, turns')
      /\ Only(p, todo, todo') /\ Only(p, open, open') /\ Only(p, prior, prior')
  BY <1>1, <1>2 DEF LocalTypes, Only
<1>4. e \in Event /\ e.type = "assistant" /\ e.calls = <<>>
  BY EventIs, EmptySeq
<1> HIDE DEF e
<1> QED BY <1>2, <1>3, <1>4, QuietIs

LEMMA QuietUnreconciled ==
  ASSUME LoopInv, NEW p \in Procs, Unreconciled(p)
  PROVE  Quiet(p)
<1>1. Typed /\ LocalTypes
  BY TypedIs DEF LoopInv
<1>2. /\ pc[p] = "repair" /\ todo[p] # <<>> /\ todo' = [todo EXCEPT ![p] = Tail(@)]
      /\ open' = [open EXCEPT ![p].unreconciled = TRUE]
      /\ pending' = pending /\ sent' = sent /\ effects' = effects /\ journal' = journal
      /\ pc' = pc /\ known' = known /\ turns' = turns /\ prior' = prior /\ batch' = batch
  BY DEF Unreconciled, Repairing, world
<1>3. Popped(p)
  BY <1>1, <1>2, HeadMoves
<1>4. /\ Only(p, pc, pc') /\ Only(p, turns, turns') /\ Only(p, todo, todo')
      /\ Only(p, open, open') /\ Only(p, prior, prior')
  BY <1>1, <1>2, <1>3 DEF LocalTypes, Only, Popped
<1> QED BY <1>2, <1>3, <1>4, QuietIs

LEMMA QuietReconcile ==
  ASSUME LoopInv, NEW p \in Procs, Reconcile(p)
  PROVE  Quiet(p)
<1>1. Typed /\ Anchored(p)
  BY DEF LoopInv
<1>2. /\ pc[p] = "repair" /\ todo[p] # <<>> /\ Head(todo[p]).stage = "unresolved"
      /\ pending' = pending /\ sent' = sent /\ effects' = effects
      /\ pc' = pc /\ turns' = turns /\ open' = open /\ prior' = prior /\ batch' = batch
  BY DEF Reconcile, Repairing, world
<1>3. PICK status \in Settled :
        LET t == [Head(todo[p]) EXCEPT !.stage = "done", !.status = status]
        IN  /\ Write(p, ActionCompleted(t))
            /\ todo' = [todo EXCEPT ![p] = <<t>> \o Tail(@)]
  BY DEF Reconcile
<1> DEFINE t == [todo[p][1] EXCEPT !.stage = "done", !.status = status]
           e == ActionCompleted(t)
<1>4. /\ Head(todo[p]) = todo[p][1] /\ todo[p][1] \in Task /\ Len(todo[p]) \in Nat /\ Len(todo[p]) > 0
      /\ \A x \in Task : todo' = [todo EXCEPT ![p] = <<x>> \o Tail(@)] => Retasked(p, 1, x)
  BY <1>1, <1>2, HeadMoves
<1>5. t \in Task /\ t.status \in Statuses /\ t.stage = "done"
  BY <1>4 DEF Task, Settled, Statuses
<1>6. Write(p, e) /\ todo' = [todo EXCEPT ![p] = <<t>> \o Tail(@)]
  BY <1>3, <1>4
<1>7. e \in Event /\ e.type = "action.completed" /\ e.calls = <<>>
  BY <1>5, ActionEventIs
<1> HIDE DEF t, e
<1>8. Retasked(p, 1, t)
  BY <1>4, <1>5, <1>6, Zenon
<1>9. 1 \in 1 .. Len(todo[p])
  BY <1>4
<1>10. /\ Only(p, pc, pc') /\ Only(p, turns, turns') /\ Only(p, todo, todo')
       /\ Only(p, open, open') /\ Only(p, prior, prior')
  BY <1>2, <1>8 DEF Only, Retasked
<1> QED BY <1>2, <1>5, <1>6, <1>7, <1>8, <1>9, <1>10, QuietIs

LEMMA QuietEndAction ==
  ASSUME LoopInv, NEW p \in Procs, EndAction(p)
  PROVE  Quiet(p)
<1>1. Typed /\ Anchored(p)
  BY DEF LoopInv
<1>2. /\ pc[p] \in {"repair", "act"}
      /\ pending' = pending /\ sent' = sent /\ effects' = effects
      /\ pc' = pc /\ turns' = turns /\ open' = open /\ prior' = prior /\ batch' = batch
  BY DEF EndAction, world
<1>3. PICK i \in 1 .. Len(todo[p]) :
        /\ todo[p][i].stage = "executed"
        /\ Write(p, ActionCompleted(todo[p][i]))
        /\ todo' = [todo EXCEPT ![p][i].stage = "done"]
  BY DEF EndAction
<1> DEFINE t == [todo[p][i] EXCEPT !.stage = "done"]
           e == ActionCompleted(todo[p][i])
<1>4. todo[p][i] \in Task /\ Retasked(p, i, t)
  BY <1>1, <1>3, TaskMoves
<1>5. todo[p][i].status \in Statuses
  BY <1>1, <1>3 DEF Anchored, TaskAnchored
<1>6. t \in Task /\ t.stage = "done"
  BY <1>4 DEF Task
<1>7. e \in Event /\ e.type = "action.completed" /\ e.calls = <<>> /\ Write(p, e)
  BY <1>3, <1>4, <1>5, ActionEventIs
<1> HIDE DEF t, e
<1>8. /\ Only(p, pc, pc') /\ Only(p, turns, turns') /\ Only(p, todo, todo')
      /\ Only(p, open, open') /\ Only(p, prior, prior')
  BY <1>2, <1>4 DEF Only, Retasked
<1> QED BY <1>2, <1>4, <1>6, <1>7, <1>8, QuietIs

LEMMA QuietAppendResult ==
  ASSUME LoopInv, NEW p \in Procs, AppendResult(p)
  PROVE  Quiet(p)
<1> DEFINE t == todo[p][1]
           e == ResultEvent(t)
<1>1. Typed /\ LocalTypes /\ Anchored(p)
  BY TypedIs DEF LoopInv
<1>2. /\ todo[p] # <<>> /\ pc[p] \in {"repair", "act"}
      /\ todo' = [todo EXCEPT ![p] = Tail(@)]
      /\ open' = [open EXCEPT ![p].pending = @ \/ Head(todo[p]).status \notin Settled]
      /\ pending' = pending /\ sent' = sent /\ effects' = effects
      /\ pc' = pc /\ turns' = turns /\ prior' = prior /\ batch' = batch
  BY DEF AppendResult, Repairing, world
<1>3. /\ Popped(p) /\ Head(todo[p]) = t /\ t \in Task /\ Len(todo[p]) \in Nat /\ Len(todo[p]) > 0
  BY <1>1, <1>2, HeadMoves, Zenon
<1>4. 1 \in 1 .. Len(todo[p])
  BY <1>3
<1>5. Write(p, e) /\ t.stage = "done"
  BY <1>3 DEF AppendResult, Repairing
<1>6. t.status \in Statuses
  BY <1>1, <1>4, <1>5 DEF Anchored, TaskAnchored
<1>7. e \in Event /\ e.type = "result" /\ e.calls = <<>>
  BY <1>3, <1>6, ActionEventIs
<1> HIDE DEF e
<1>8. Only(p, open, open')
  <2> DEFINE v == Head(todo[p]).status \notin Settled
  <2>1. open' = [open EXCEPT ![p].pending = @ \/ v]
    BY <1>2
  <2> HIDE DEF v
  <2>2. open \in [Procs -> [unreconciled : BOOLEAN, pending : BOOLEAN]]
    BY <1>1 DEF LocalTypes
  <2> QED BY <2>1, <2>2 DEF Only
<1>9. /\ Only(p, pc, pc') /\ Only(p, turns, turns') /\ Only(p, todo, todo') /\ Only(p, prior, prior')
  BY <1>2, <1>3 DEF Only, Popped
<1> QED BY <1>2, <1>3, <1>5, <1>7, <1>8, <1>9, QuietIs

\* All of them.
Unremarkable(p) ==
  \/ Unreconciled(p) \/ Reconcile(p) \/ EndAction(p) \/ AppendResult(p) \/ CheckpointRepair(p)
  \/ MarkInterrupted(p) \/ ReplayOutcome(p) \/ NothingToReplay(p)
  \/ LimitReached(p) \/ HostStops(p) \/ NextTurn(p) \/ MailDone(p)
  \/ RecordError(p) \/ RetryCall(p) \/ FailRun(p) \/ RecordProtocolError(p) \/ FailRefused(p)
  \/ RecordCompletion(p) \/ (RecordMessage(p) /\ prior[p].calls = <<>>) \/ EndRun(p)
  \/ TurnDone(p) \/ Conflict(p) \/ Exit(p)

LEMMA QuietStep ==
  ASSUME LoopInv, NEW p \in Procs, Unremarkable(p)
  PROVE  Quiet(p)
<1>1. prior[p] \in Answer
  BY TypedIs DEF LoopInv, LocalTypes
<1>2. FinalOutcome(prior[p].stop) \in Outcomes
  BY <1>1, OutcomeIs DEF Answer
<1>3. CASE \/ CheckpointRepair(p) \/ LimitReached(p) \/ HostStops(p) \/ FailRun(p)
           \/ FailRefused(p) \/ EndRun(p)
  <2>1. \E status \in Outcomes : Finish(p, status)
    BY <1>2, <1>3
       DEF CheckpointRepair, LimitReached, HostStops, FailRun, FailRefused, EndRun, Outcomes
  <2> QED BY <2>1, QuietFinish
<1> QED
  BY <1>3, QuietUnreconciled, QuietReconcile, QuietEndAction, QuietAppendResult,
     QuietMarkInterrupted, QuietReplayOutcome, QuietNothingToReplay, QuietNextTurn,
     QuietMailDone, QuietRecordError, QuietRetryCall, QuietRecordProtocolError,
     QuietRecordCompletion, QuietRecordMessage, QuietTurnDone, QuietConflict, QuietExit
     DEF Unremarkable

-----------------------------------------------------------------------------
(* Calls, step by step.                                                     *)

\* A step that moves a process on keeps the calls fresh.
LEMMA FreshStep ==
  ASSUME LoopInv, FreshInv, NEW p \in Procs, Moved(p), effects' = effects,
         \/ journal' = journal
         \/ \E e \in Event : /\ journal' = Append(journal, e)
                             /\ e.type = "model.started" => ActionsClosed(journal)
  PROVE  FreshInv'
<1>1. /\ FreshJournal' /\ EffectsAtMostOnce'
      /\ \A q \in Procs : FreshTasks(q)' /\ Unexecuted(q)'
  BY FreshMoved
<1>2. journal \in Seq(Event)
  BY TypedIs DEF LoopInv
<1>3. ModelSaw(journal)
  BY DEF FreshInv, ModelSeesClosedActions, ModelSaw
<1>4. ModelSaw(journal')
  BY <1>2, <1>3, ModelSawAppend
<1>5. ModelSeesClosedActions'
  BY <1>4 DEF ModelSeesClosedActions, ModelSaw
<1> QED BY <1>1, <1>5 DEF FreshInv

LEMMA FreshQuiet ==
  ASSUME LoopInv, FreshInv, NEW p \in Procs, Quiet(p)
  PROVE  FreshInv'
BY FreshStep DEF Quiet

LEMMA FreshReadMail ==
  ASSUME LoopInv, FreshInv, NEW p \in Procs, ReadMail(p)
  PROVE  FreshInv'
<1>1. Typed /\ LocalTypes
  BY TypedIs DEF LoopInv
<1>2. /\ pc[p] = "receive" /\ pc' = [pc EXCEPT ![p] = "deliver"] /\ prior' = prior
      /\ effects' = effects /\ journal' = journal
      /\ known' = known /\ turns' = turns /\ todo' = todo /\ open' = open
  BY DEF ReadMail, Goto, world
<1>3. \A q \in Procs : q # p => batch'[q] = batch[q]
  BY <1>1, BatchIs
<1>4. pc'[p] = "deliver" /\ Others(p)
  BY <1>1, <1>2, <1>3 DEF LocalTypes, Others
<1>5. Kept(p)
  BY <1>1, <1>2, KeptIs
<1>6. Moved(p)
  BY <1>2, <1>4, <1>5 DEF Moved, Current, HeadExpected
<1> QED BY <1>2, <1>6, FreshStep

LEMMA FreshDeliverMail ==
  ASSUME LoopInv, FreshInv, NEW p \in Procs, DeliverMail(p)
  PROVE  FreshInv'
<1> DEFINE e == UserEvent(batch[p][1].mail)
<1>1. Typed /\ LocalTypes
  BY TypedIs DEF LoopInv
<1>2. /\ \A q \in Procs : q # p => batch'[q] = batch[q]
      /\ Head(batch[p]) = batch[p][1] /\ batch[p][1].mail \in Mails
  BY <1>1, TellingIs
<1>3. /\ pc[p] = "deliver" /\ pc' = pc /\ Write(p, e)
      /\ prior' = [prior EXCEPT ![p] = IF @.state = "none" THEN @ ELSE [NoAnswer EXCEPT !.state = "continue"]]
      /\ effects' = effects /\ turns' = turns /\ todo' = todo /\ open' = open
  BY <1>2 DEF DeliverMail, world
<1>4. e \in Event /\ e.type = "user" /\ e.calls = <<>>
  BY <1>2, EventIs
<1> HIDE DEF e
<1>5. /\ HeadExpected(p) /\ journal' = Append(journal, e)
      /\ \A q \in Procs : q # p => known'[q] = known[q]
  BY <1>1, <1>3, <1>4, WroteIs
<1>6. Others(p)
  BY <1>1, <1>2, <1>3, <1>5 DEF LocalTypes, Others
<1>7. Kept(p)
  BY <1>1, <1>3, KeptIs
<1>8. Moved(p)
  BY <1>3, <1>4, <1>5, <1>6, <1>7 DEF Moved, Current
<1> QED BY <1>3, <1>4, <1>5, <1>8, FreshStep

LEMMA FreshAcknowledge ==
  ASSUME LoopInv, FreshInv, NEW p \in Procs, Acknowledge(p)
  PROVE  FreshInv'
<1>1. Typed /\ LocalTypes
  BY TypedIs DEF LoopInv
<1>2. /\ pc[p] = "deliver" /\ pc' = pc /\ prior' = prior
      /\ effects' = effects /\ journal' = journal
      /\ known' = known /\ turns' = turns /\ todo' = todo /\ open' = open
  BY DEF Acknowledge
<1>3. \A q \in Procs : q # p => batch'[q] = batch[q]
  BY <1>1, AcknowledgedIs
<1>4. Others(p)
  BY <1>1, <1>2, <1>3 DEF LocalTypes, Others
<1>5. Kept(p)
  BY <1>1, <1>2, KeptIs
<1>6. Moved(p)
  BY <1>2, <1>4, <1>5 DEF Moved, Current, HeadExpected
<1> QED BY <1>2, <1>6, FreshStep

\* The model is called with every action closed.
LEMMA FreshCallModel ==
  ASSUME LoopInv, FreshInv, NEW p \in Procs, CallModel(p)
  PROVE  FreshInv'
<1>1. Typed /\ LocalTypes /\ Wellformed(journal) /\ InPhase(p) /\ Covered(p) /\ journal \in Seq(Event)
  BY TypedIs DEF LoopInv
<1>2. /\ pc[p] = "call" /\ pc' = [pc EXCEPT ![p] = "invoke"] /\ Write(p, StartedEvent)
      /\ effects' = effects /\ prior' = prior
      /\ turns' = turns /\ todo' = todo /\ open' = open /\ batch' = batch
  BY DEF CallModel, Goto, world
<1>3. StartedEvent \in Event /\ StartedEvent.type = "model.started" /\ StartedEvent.calls = <<>>
  BY EventIs
<1>4. /\ HeadExpected(p) /\ journal' = Append(journal, StartedEvent)
      /\ \A q \in Procs : q # p => known'[q] = known[q]
  BY <1>1, <1>2, <1>3, WroteIs
<1>5. pc'[p] = "invoke" /\ Others(p)
  BY <1>1, <1>2, <1>4 DEF LocalTypes, Others
<1>6. Kept(p)
  BY <1>1, <1>2, KeptIs
<1>7. Current(p)
  BY <1>2, <1>4 DEF Current
<1>8. Moved(p)
  BY <1>3, <1>4, <1>5, <1>6, <1>7 DEF Moved
<1>9. todo[p] = <<>> /\ open[p] = NothingOpen
  BY <1>1, <1>2 DEF InPhase
<1>10. ActionsClosed(journal)
  <2>1. AllClosed(journal)
    BY <1>1, <1>7, <1>9, ClosedNow
  <2> QED BY <1>1, <2>1, ClosedForModel DEF FreshInv, FreshJournal
<1> QED BY <1>2, <1>3, <1>4, <1>8, <1>10, FreshStep

LEMMA FreshWorld ==
  ASSUME LoopInv, FreshInv, UNCHANGED local, effects' = effects,
         \/ journal' = journal
         \/ \E e \in Event : /\ journal' = Append(journal, e) /\ e.calls = <<>>
                             /\ e.type \notin {"action.started", "model.started"}
  PROVE  FreshInv'
<1>1. /\ Typed /\ FreshJournal /\ \A q \in Procs : FreshTasks(q) /\ Unexecuted(q)
  BY DEF LoopInv, FreshInv
<1>2. /\ pc' = pc /\ known' = known /\ turns' = turns /\ todo' = todo
      /\ open' = open /\ prior' = prior /\ batch' = batch
  BY DEF local
<1>3. FreshJournal' /\ \A c : HasStart(journal', c) <=> HasStart(journal, c)
  <2>1. CASE journal' = journal
    BY <1>1, <2>1 DEF FreshJournal
  <2>2. CASE \E e \in Event : /\ journal' = Append(journal, e) /\ e.calls = <<>>
                              /\ e.type # "action.started"
    BY <1>1, <2>2, FreshGrows
  <2> QED BY <2>1, <2>2
<1>4. EffectsAtMostOnce'
  BY <1>3 DEF FreshInv, EffectsAtMostOnce
<1>5. \A q \in Procs : FreshTasks(q)'
  BY <1>1, <1>2, FreshOther DEF Same
<1>6. \A q \in Procs : Unexecuted(q)'
  BY <1>1, <1>2 DEF Unexecuted
<1>7. ModelSaw(journal) /\ journal \in Seq(Event)
  BY <1>1, TypedIs DEF FreshInv, ModelSeesClosedActions, ModelSaw
<1>8. ModelSaw(journal')
  BY <1>7, ModelSawAppend
<1>9. ModelSeesClosedActions'
  BY <1>8 DEF ModelSeesClosedActions, ModelSaw
<1> QED BY <1>3, <1>4, <1>5, <1>6, <1>9 DEF FreshInv

\* What another writer appends.
LEMMA ForeignIs ==
  ASSUME LoopInv, ForeignWrite
  PROVE  \E e \in Event : /\ journal' = Append(journal, e) /\ e.calls = <<>>
                          /\ \/ e.type = "user" /\ e.call = None
                             \/ e.type = "action.completed"
<1>1. Typed /\ Wellformed(journal)
  BY DEF LoopInv
<1>2. CASE journal' = Append(journal, UserEvent(None))
  BY <1>2, EventIs
<1>3. ASSUME NEW i \in 1 .. Len(journal), NEW status \in Settled,
             journal[i].type = "action.started",
             journal' = Append(journal, ActionCompleted(
               [call |-> journal[i].call, inv |-> i, status |-> status]))
      PROVE  \E e \in Event : /\ journal' = Append(journal, e) /\ e.calls = <<>>
                              /\ e.type = "action.completed"
  <2> DEFINE t == [stage |-> "done", call |-> journal[i].call, inv |-> i, status |-> status]
             e == ActionCompleted(t)
  <2>1. journal[i].call \in Calls /\ status \in Statuses /\ i \in Nat
    BY <1>1, <1>3, TypedIs DEF Wellformed, Settled, Statuses
  <2>2. t \in Task /\ t.status \in Statuses
    BY <2>1 DEF Task
  <2>3. t.inv = i /\ t.call = journal[i].call /\ t.status = status
    OBVIOUS
  <2>4. journal' = Append(journal, e)
    BY <1>3, <2>3 DEF ActionCompleted
  <2> HIDE DEF t
  <2>5. e \in Event /\ e.type = "action.completed" /\ e.calls = <<>>
    BY <2>2, ActionEventIs
  <2> HIDE DEF e
  <2> QED BY <2>4, <2>5
<1> QED BY <1>2, <1>3 DEF ForeignWrite

LEMMA FreshSend ==
  ASSUME LoopInv, FreshInv, Send
  PROVE  FreshInv'
BY FreshWorld DEF Send

LEMMA FreshForeignWrite ==
  ASSUME LoopInv, FreshInv, ForeignWrite
  PROVE  FreshInv'
<1>1. \E e \in Event : /\ journal' = Append(journal, e) /\ e.calls = <<>>
                       /\ e.type \notin {"action.started", "model.started"}
  BY ForeignIs
<1> QED BY <1>1, FreshWorld DEF ForeignWrite

\* An answer brings calls that were never used.
LEMMA FreshInvoke ==
  ASSUME FreshCalls, LoopInv, FreshInv, NEW p \in Procs, Invoke(p)
  PROVE  FreshInv'
<1>1. /\ Typed /\ LocalTypes /\ InPhase(p) /\ FreshJournal /\ EffectsAtMostOnce
      /\ ModelSeesClosedActions /\ \A q \in Procs : FreshTasks(q) /\ Unexecuted(q)
  BY TypedIs DEF LoopInv, FreshInv
<1>2. /\ pc[p] = "invoke" /\ pc' = [pc EXCEPT ![p] = "answered"]
      /\ effects' = effects /\ journal' = journal
      /\ known' = known /\ turns' = turns /\ todo' = todo /\ open' = open /\ batch' = batch
  BY DEF Invoke, Goto, world
<1>3. PICK r \in Responses : prior' = [prior EXCEPT ![p] = r]
  BY DEF Invoke
<1>4. r.state = "answered" =>
        /\ IsInjective(r.calls)
        /\ \A k \in 1 .. Len(journal) : ToSet(r.calls) \cap ToSet(journal[k].calls) = {}
  <2>1. Callable = Calls \ UNION {ToSet(journal[i].calls) : i \in 1 .. Len(journal)}
    BY DEF Callable
  <2>2. r.state = "answered" => IsInjective(r.calls) /\ ToSet(r.calls) \subseteq Callable
    BY ResponseIs
  <2> QED BY <2>1, <2>2
<1>5. /\ prior'[p] = r /\ todo'[p] = <<>>
      /\ \A q \in Procs : q # p => pc'[q] = pc[q] /\ prior'[q] = prior[q]
  BY <1>1, <1>2, <1>3 DEF LocalTypes, InPhase
<1>6. ASSUME NEW q \in Procs
      PROVE  FreshTasks(q)'
  <2>1. CASE q = p
    <3>1. Len(todo'[p]) = 0
      BY <1>5
    <3> QED BY <1>2, <1>4, <1>5, <2>1, <3>1 DEF FreshTasks
  <2>2. CASE q # p
    BY <1>1, <1>2, <1>5, <2>2, FreshOther DEF Same
  <2> QED BY <2>1, <2>2
<1>7. \A q \in Procs : Unexecuted(q)'
  BY <1>1, <1>2 DEF Unexecuted
<1> QED BY <1>1, <1>2, <1>6, <1>7 DEF FreshInv, FreshJournal, EffectsAtMostOnce, ModelSeesClosedActions

\* The calls of an answer become tasks that were never started.
LEMMA FreshRecordMessage ==
  ASSUME LoopInv, FreshInv, NEW p \in Procs, RecordMessage(p), prior[p].calls # <<>>
  PROVE  FreshInv'
<1> DEFINE calls == prior[p].calls
           e == AssistantEvent(calls)
           ts == [i \in 1 .. Len(calls) |-> NewTask(calls[i])]
<1>1. /\ Typed /\ LocalTypes /\ InPhase(p) /\ Wellformed(journal)
      /\ FreshJournal /\ EffectsAtMostOnce
      /\ \A q \in Procs : FreshTasks(q) /\ Unexecuted(q)
  BY TypedIs DEF LoopInv, FreshInv
<1>2. /\ pc[p] = "message" /\ pc' = [pc EXCEPT ![p] = "act"] /\ Write(p, e)
      /\ todo' = [todo EXCEPT ![p] = ts] /\ prior' = [prior EXCEPT ![p] = NoAnswer]
      /\ effects' = effects /\ turns' = turns /\ open' = open /\ batch' = batch
  BY DEF RecordMessage, Goto, world
<1>3. calls \in Seq(Calls)
  BY <1>1 DEF LocalTypes, Answer
<1>4. /\ e \in Event /\ e.type = "assistant" /\ e.calls = calls
      /\ Len(ts) = Len(calls) /\ Len(calls) \in Nat
      /\ \A i \in 1 .. Len(calls) :
           ts[i].stage = "unstarted" /\ ts[i].inv = 0 /\ ts[i].call = calls[i]
  BY <1>3, EventIs, NewTasksAre
<1> HIDE DEF e, ts
<1>5. /\ journal \in Seq(Event) /\ Len(journal) \in Nat /\ journal' = Append(journal, e)
      /\ Len(journal') = Len(journal) + 1 /\ journal'[Len(journal) + 1] = e
      /\ \A k \in 1 .. Len(journal) : journal'[k] = journal[k]
      /\ HeadExpected(p) /\ \A q \in Procs : q # p => known'[q] = known[q]
  BY <1>1, <1>2, <1>4, WroteIs, AppendIs
<1>6. /\ pc'[p] = "act" /\ todo'[p] = ts
      /\ \A q \in Procs : q # p =>
           pc'[q] = pc[q] /\ todo'[q] = todo[q] /\ prior'[q] = prior[q]
  BY <1>1, <1>2 DEF LocalTypes
<1>7. /\ IsInjective(calls)
      /\ \A k \in 1 .. Len(journal) : ToSet(calls) \cap ToSet(journal[k].calls) = {}
  <2>1. Current(p) /\ prior[p].state = "answered"
    BY <1>1, <1>2, <1>5 DEF Current, InPhase
  <2> QED BY <1>1, <1>2, <2>1 DEF FreshTasks
<1>8. /\ \A c : HasStart(journal', c) <=> HasStart(journal, c)
      /\ \A n : n \in Starts(journal') <=> n \in Starts(journal)
      /\ Starts(journal) \subseteq 1 .. Len(journal)
  <2>1. e.type # "action.started"
    BY <1>4
  <2> QED BY <1>4, <1>5, <2>1, MarksAppend
<1>9. \A i \in 1 .. Len(calls) : calls[i] \in ToSet(calls) /\ ~HasStart(journal', calls[i])
  <2> TAKE i \in 1 .. Len(calls)
  <2>1. calls[i] \in ToSet(calls)
    BY <1>3 DEF ToSet
  <2>2. ASSUME HasStart(journal, calls[i])
        PROVE  FALSE
    <3>1. PICK n \in 1 .. Len(journal) : journal[n].type = "action.started" /\ journal[n].call = calls[i]
      BY <2>2 DEF HasStart
    <3>2. PICK a \in 1 .. n - 1 : calls[i] \in ToSet(journal[a].calls)
      BY <1>1, <3>1 DEF Wellformed
    <3>3. a \in 1 .. Len(journal)
      BY <1>5, <3>1, <3>2
    <3> QED BY <1>7, <2>1, <3>2, <3>3
  <2> QED BY <1>8, <2>1, <2>2
<1>10. FreshJournal'
  <2>1. ASSUME NEW a \in 1 .. Len(journal'), NEW b \in 1 .. Len(journal'), a # b
        PROVE  ToSet(journal'[a].calls) \cap ToSet(journal'[b].calls) = {}
    <3>1. \/ a \in 1 .. Len(journal) /\ b \in 1 .. Len(journal)
          \/ a = Len(journal) + 1 /\ b \in 1 .. Len(journal)
          \/ a \in 1 .. Len(journal) /\ b = Len(journal) + 1
      BY <1>5, <2>1
    <3>2. journal'[Len(journal) + 1].calls = calls
      BY <1>4, <1>5
    <3> HIDE DEF calls
    <3>3. CASE a \in 1 .. Len(journal) /\ b \in 1 .. Len(journal)
      BY <1>1, <1>5, <2>1, <3>3 DEF FreshJournal
    <3>4. CASE a = Len(journal) + 1 /\ b \in 1 .. Len(journal)
      <4>1. journal'[a].calls = calls /\ journal'[b] = journal[b]
        BY <1>5, <3>2, <3>4
      <4> QED BY <1>7, <3>4, <4>1
    <3>5. CASE a \in 1 .. Len(journal) /\ b = Len(journal) + 1
      <4>1. journal'[b].calls = calls /\ journal'[a] = journal[a]
        BY <1>5, <3>2, <3>5
      <4>2. ToSet(calls) \cap ToSet(journal[a].calls) = {}
        BY <1>7, <3>5
      <4> QED BY <4>1, <4>2
    <3> QED BY <3>1, <3>3, <3>4, <3>5
  <2>2. \A a \in 1 .. Len(journal') : IsInjective(journal'[a].calls)
    <3> TAKE a \in 1 .. Len(journal')
    <3>1. CASE a = Len(journal) + 1
      BY <1>4, <1>5, <1>7, <3>1
    <3>2. CASE a # Len(journal) + 1
      <4>1. a \in 1 .. Len(journal) /\ journal'[a] = journal[a]
        BY <1>5, <3>2
      <4> QED BY <1>1, <4>1 DEF FreshJournal
    <3> QED BY <3>1, <3>2
  <2>3. \A i, k \in Starts(journal') : journal'[i].call = journal'[k].call => i = k
    <3>1. \A i \in Starts(journal') : i \in Starts(journal) /\ journal'[i] = journal[i]
      BY <1>5, <1>8
    <3> QED BY <1>1, <3>1 DEF FreshJournal
  <2> QED BY <2>1, <2>2, <2>3 DEF FreshJournal
<1>11. EffectsAtMostOnce'
  BY <1>1, <1>2, <1>8 DEF EffectsAtMostOnce
<1>12. ASSUME NEW q \in Procs
       PROVE  FreshTasks(q)'
  <2>1. CASE q = p
    <3>1. \A i, k \in 1 .. Len(calls) : calls[i] = calls[k] => i = k
      BY <1>3, <1>7 DEF IsInjective
    <3> HIDE DEF calls
    <3>2. \A i, k \in 1 .. Len(todo'[p]) : todo'[p][i].call = todo'[p][k].call => i = k
      BY <1>4, <1>6, <3>1
    <3>3. \A i \in 1 .. Len(todo'[p]) : ~HasStart(journal', todo'[p][i].call)
      BY <1>4, <1>6, <1>9
    <3> QED BY <1>6, <2>1, <3>2, <3>3 DEF FreshTasks
  <2>2. CASE q # p
    BY <1>1, <1>2, <1>4, <1>5, <1>6, <2>2, FreshOther DEF Same
  <2> QED BY <2>1, <2>2
<1>13. ASSUME NEW q \in Procs
       PROVE  Unexecuted(q)'
  <2>1. \A i \in 1 .. Len(todo'[p]) : todo'[p][i].stage # "started"
    BY <1>4, <1>6
  <2>2. CASE q = p
    BY <2>1, <2>2 DEF Unexecuted
  <2>3. CASE q # p
    BY <1>1, <1>2, <1>6, <2>1, <2>3 DEF Unexecuted
  <2> QED BY <2>2, <2>3
<1>14. ModelSeesClosedActions'
  <2>1. ModelSaw(journal)
    BY DEF FreshInv, ModelSeesClosedActions, ModelSaw
  <2>2. e.type # "model.started"
    BY <1>4
  <2>3. ModelSaw(journal')
    BY <1>4, <1>5, <2>1, <2>2, ModelSawAppend
  <2> QED BY <2>3 DEF ModelSeesClosedActions, ModelSaw
<1> QED BY <1>10, <1>11, <1>12, <1>13, <1>14 DEF FreshInv

\* Of two starts of a call the one that finds the head writes: the call had no
\* start, and so no effect.
LEMMA FreshBeginAction ==
  ASSUME LoopInv, FreshInv, NEW p \in Procs, BeginAction(p)
  PROVE  FreshInv'
<1>1. /\ Typed /\ LocalTypes /\ FreshJournal /\ EffectsAtMostOnce
      /\ \A q \in Procs : FreshTasks(q) /\ Unexecuted(q) /\ Anchored(q)
  BY TypedIs DEF LoopInv, FreshInv
<1>2. /\ pc[p] \in {"repair", "act"} /\ effects' = effects
      /\ pc' = pc /\ turns' = turns /\ open' = open /\ prior' = prior /\ batch' = batch
  BY DEF BeginAction, Repairing, world
<1>3. PICK i \in 1 .. Len(todo[p]) :
        /\ todo[p][i].stage = "unstarted"
        /\ Write(p, ActionStarted(todo[p][i].call))
        /\ todo' = [todo EXCEPT ![p][i].stage = "started", ![p][i].inv = Len(journal) + 1]
  BY DEF BeginAction
<1> DEFINE n == Len(journal) + 1
           call == todo[p][i].call
           e == ActionStarted(call)
           t == [todo[p][i] EXCEPT !.stage = "started", !.inv = n]
<1>4. /\ todo[p][i] \in Task /\ call \in Calls /\ n \in Nat
  <2>1. todo[p][i] \in Task
    BY <1>1, TaskMoves
  <2>2. call \in Calls
    BY <2>1 DEF Task
  <2>3. Len(journal) \in Nat
    BY <1>1, TypedIs
  <2> QED BY <2>1, <2>2, <2>3
<1>5. Retasked(p, i, t)
  BY <1>1, <1>3, <1>4, TaskMoves
<1>6. e \in Event /\ e.type = "action.started" /\ e.call = call /\ e.calls = <<>>
  BY <1>1, <1>4, StartIs
<1>7. /\ t.stage = "started" /\ t.inv = n /\ t.call = call
  BY <1>4 DEF Task
<1>8. /\ journal \in Seq(Event) /\ Len(journal) \in Nat /\ journal' = Append(journal, e)
      /\ Len(journal') = n /\ journal'[n] = e
      /\ \A k \in 1 .. Len(journal) : journal'[k] = journal[k]
      /\ HeadExpected(p) /\ \A q \in Procs : q # p => known'[q] = known[q]
  BY <1>1, <1>3, <1>6, WroteIs
<1> HIDE DEF t, e
<1>9. /\ \A q \in Procs : q # p => todo'[q] = todo[q]
      /\ Len(todo'[p]) = Len(todo[p]) /\ todo'[p][i] = t
      /\ \A k \in 1 .. Len(todo[p]) : k # i => todo'[p][k] = todo[p][k]
  BY <1>5 DEF Retasked
<1>10. /\ \A m : m \in Starts(journal') <=> m \in Starts(journal) \/ m = n
       /\ Starts(journal) \subseteq 1 .. Len(journal)
       /\ \A c : HasStart(journal', c) <=> HasStart(journal, c) \/ c = call
  BY <1>6, <1>8, MarksAppend
<1>11. ~HasStart(journal, call)
  <2>1. Current(p)
    BY <1>2, <1>8 DEF Current
  <2> QED BY <1>1, <1>3, <2>1 DEF FreshTasks
<1>12. effects[call] = 0
  <2>1. effects \in [Calls -> Nat]
    BY <1>1, TypedIs DEF WorldTypes
  <2>2. effects[call] <= 0
    BY <1>1, <1>4, <1>11 DEF EffectsAtMostOnce
  <2>3. effects[call] \in Nat
    BY <1>4, <2>1
  <2> QED BY <2>2, <2>3
<1>13. FreshJournal'
  <2>1. ToSet(<<>>) = {} /\ IsInjective(<<>>)
    BY DEF ToSet, IsInjective
  <2>2. \A k \in 1 .. Len(journal') :
          \/ k \in 1 .. Len(journal) /\ journal'[k] = journal[k]
          \/ k = n /\ journal'[k].calls = <<>>
    BY <1>6, <1>8
  <2>3. ASSUME NEW a \in 1 .. Len(journal'), NEW b \in 1 .. Len(journal'), a # b
        PROVE  ToSet(journal'[a].calls) \cap ToSet(journal'[b].calls) = {}
    <3>1. CASE journal'[a].calls = <<>> \/ journal'[b].calls = <<>>
      BY <2>1, <3>1
    <3>2. CASE journal'[a].calls # <<>> /\ journal'[b].calls # <<>>
      BY <1>1, <2>2, <2>3, <3>2 DEF FreshJournal
    <3> QED BY <3>1, <3>2
  <2>4. \A a \in 1 .. Len(journal') : IsInjective(journal'[a].calls)
    BY <1>1, <2>1, <2>2 DEF FreshJournal
  <2>5. ASSUME NEW a \in Starts(journal'), NEW b \in Starts(journal'),
               journal'[a].call = journal'[b].call
        PROVE  a = b
    <3>1. \A m \in Starts(journal) : journal'[m] = journal[m] /\ journal[m].call # call
      BY <1>8, <1>10, <1>11 DEF HasStart, Starts
    <3> QED BY <1>1, <1>6, <1>8, <1>10, <2>5, <3>1 DEF FreshJournal
  <2> QED BY <2>3, <2>4, <2>5 DEF FreshJournal
<1>14. EffectsAtMostOnce'
  <2>1. ASSUME NEW c \in Calls
        PROVE  effects'[c] <= IF HasStart(journal', c) THEN 1 ELSE 0
    <3>1. effects[c] <= IF HasStart(journal, c) THEN 1 ELSE 0
      BY <1>1 DEF EffectsAtMostOnce
    <3> QED BY <1>2, <1>10, <1>12, <3>1
  <2> QED BY <2>1 DEF EffectsAtMostOnce
<1>15. ASSUME NEW q \in Procs
       PROVE  FreshTasks(q)'
  <2>1. CASE q = p
    <3>1. \A k \in 1 .. Len(todo'[p]) : todo'[p][k].stage = "unstarted" =>
            k # i /\ k \in 1 .. Len(todo[p]) /\ todo'[p][k] = todo[p][k]
      BY <1>7, <1>9
    <3>2. ASSUME NEW a \in 1 .. Len(todo'[p]), NEW b \in 1 .. Len(todo'[p]),
                 todo'[p][a].stage = "unstarted", todo'[p][b].stage = "unstarted",
                 todo'[p][a].call = todo'[p][b].call
          PROVE  a = b
      BY <1>1, <3>1, <3>2 DEF FreshTasks
    <3>3. ASSUME NEW k \in 1 .. Len(todo'[p]), todo'[p][k].stage = "unstarted"
          PROVE  ~HasStart(journal', todo'[p][k].call)
      <4>1. k # i /\ k \in 1 .. Len(todo[p]) /\ todo'[p][k] = todo[p][k]
        BY <3>1, <3>3
      <4>2. Current(p)
        BY <1>2, <1>8 DEF Current
      <4>3. ~HasStart(journal, todo[p][k].call)
        BY <1>1, <3>3, <4>1, <4>2 DEF FreshTasks
      <4>4. todo[p][k].call # call
        BY <1>1, <1>3, <3>3, <4>1 DEF FreshTasks
      <4> QED BY <1>10, <4>1, <4>3, <4>4
    <3>4. pc'[p] \notin {"answered", "message"}
      BY <1>2
    <3> QED BY <2>1, <3>2, <3>3, <3>4 DEF FreshTasks
  <2>2. CASE q # p
    BY <1>1, <1>2, <1>6, <1>8, <1>9, <2>2, FreshOther DEF Same
  <2> QED BY <2>1, <2>2
<1>16. ASSUME NEW q \in Procs, NEW a \in 1 .. Len(todo'[q]), todo'[q][a].stage = "started"
       PROVE  \/ q = p /\ a = i /\ todo'[q][a] = t
              \/ /\ a \in 1 .. Len(todo[q]) /\ todo'[q][a] = todo[q][a]
                 /\ todo[q][a].inv \in 1 .. Len(journal)
  <2>1. CASE q = p /\ a = i
    BY <1>9, <2>1
  <2>2. CASE ~(q = p /\ a = i)
    <3>1. a \in 1 .. Len(todo[q]) /\ todo'[q][a] = todo[q][a]
      BY <1>9, <1>16, <2>2
    <3>2. todo[q][a].inv \in Starts(journal)
      BY <1>1, <1>16, <3>1 DEF Anchored, TaskAnchored
    <3> QED BY <1>10, <3>1, <3>2
  <2> QED BY <2>1, <2>2
<1>17. ASSUME NEW q \in Procs
       PROVE  Unexecuted(q)'
  <2>1. ASSUME NEW a \in 1 .. Len(todo'[q]), todo'[q][a].stage = "started"
        PROVE  /\ effects'[todo'[q][a].call] = 0
               /\ \A r \in Procs \ {q} : \A k \in 1 .. Len(todo'[r]) :
                    todo'[r][k].stage = "started" => todo'[r][k].inv # todo'[q][a].inv
    <3>0. Unexecuted(q)
      BY <1>1
    <3>1. effects'[todo'[q][a].call] = 0
      <4>1. CASE todo'[q][a] = t
        BY <1>2, <1>7, <1>12, <4>1
      <4>2. CASE a \in 1 .. Len(todo[q]) /\ todo'[q][a] = todo[q][a]
        BY <1>2, <2>1, <3>0, <4>2 DEF Unexecuted
      <4> QED BY <1>16, <2>1, <4>1, <4>2
    <3>2. ASSUME NEW r \in Procs \ {q}, NEW k \in 1 .. Len(todo'[r]), todo'[r][k].stage = "started"
          PROVE  todo'[r][k].inv # todo'[q][a].inv
      <4>1. \/ q = p /\ a = i /\ todo'[q][a] = t
            \/ /\ a \in 1 .. Len(todo[q]) /\ todo'[q][a] = todo[q][a]
               /\ todo[q][a].inv \in 1 .. Len(journal)
        BY <1>16, <2>1
      <4>2. \/ r = p /\ k = i /\ todo'[r][k] = t
            \/ /\ k \in 1 .. Len(todo[r]) /\ todo'[r][k] = todo[r][k]
               /\ todo[r][k].inv \in 1 .. Len(journal)
        BY <1>16, <3>2
      <4>3. n \notin 1 .. Len(journal)
        BY <1>8
      <4>4. CASE /\ a \in 1 .. Len(todo[q]) /\ todo'[q][a] = todo[q][a]
                 /\ k \in 1 .. Len(todo[r]) /\ todo'[r][k] = todo[r][k]
        BY <2>1, <3>0, <3>2, <4>4 DEF Unexecuted
      <4> QED BY <1>7, <4>1, <4>2, <4>3, <4>4
    <3> QED BY <3>1, <3>2
  <2> QED BY <2>1 DEF Unexecuted
<1>18. ModelSeesClosedActions'
  <2>1. ModelSaw(journal)
    BY DEF FreshInv, ModelSeesClosedActions, ModelSaw
  <2>2. e.type # "model.started"
    BY <1>6
  <2>3. ModelSaw(journal')
    BY <1>6, <1>8, <2>1, <2>2, ModelSawAppend
  <2> QED BY <2>3 DEF ModelSeesClosedActions, ModelSaw
<1> QED BY <1>13, <1>14, <1>15, <1>17, <1>18 DEF FreshInv

\* An effect that was never performed is performed behind its start, and no one
\* else is about to perform it.
LEMMA FreshExecute ==
  ASSUME LoopInv, FreshInv, NEW p \in Procs, Execute(p)
  PROVE  FreshInv'
<1>1. /\ Typed /\ LocalTypes /\ FreshJournal /\ EffectsAtMostOnce /\ ModelSeesClosedActions
      /\ \A q \in Procs : FreshTasks(q) /\ Unexecuted(q) /\ Anchored(q)
  BY TypedIs DEF LoopInv, FreshInv
<1>2. /\ journal' = journal /\ pc[p] \in {"repair", "act", "unwinding"}
      /\ pc' = pc /\ known' = known /\ turns' = turns /\ open' = open
      /\ prior' = prior /\ batch' = batch
  BY DEF Execute
<1>3. PICK i \in 1 .. Len(todo[p]), status \in Receipts :
        /\ todo[p][i].stage = "started"
        /\ todo' = [todo EXCEPT ![p][i].stage = "executed", ![p][i].status = status]
        /\ effects' = [effects EXCEPT ![todo[p][i].call] = @ + 1]
  BY DEF Execute
<1> DEFINE t == [todo[p][i] EXCEPT !.stage = "executed", !.status = status]
           call == todo[p][i].call
<1>4. status \in Statuses
  BY AgentLoopAssumption DEF Statuses
<1>5. todo[p][i] \in Task /\ Retasked(p, i, t)
  BY <1>1, <1>3, <1>4, TaskMoves
<1>6. t.stage = "executed" /\ call \in Calls
  BY <1>4, <1>5 DEF Task
<1> HIDE DEF t
<1>7. /\ \A q \in Procs : q # p => todo'[q] = todo[q]
      /\ Len(todo'[p]) = Len(todo[p]) /\ todo'[p][i] = t
      /\ \A k \in 1 .. Len(todo[p]) : k # i => todo'[p][k] = todo[p][k]
  BY <1>5 DEF Retasked
<1>8. effects[call] = 0
  BY <1>1, <1>3 DEF Unexecuted
<1>9. effects \in [Calls -> Nat] /\ effects'[call] = 1
      /\ \A c \in Calls : c # call => effects'[c] = effects[c]
  <2>1. effects \in [Calls -> Nat]
    BY <1>1, TypedIs DEF WorldTypes
  <2>2. effects' = [effects EXCEPT ![call] = effects[call] + 1]
    BY <1>3, <1>6, <2>1
  <2> HIDE DEF call
  <2> QED BY <1>6, <1>8, <2>1, <2>2
<1>10. todo[p][i].inv \in Starts(journal) /\ journal[todo[p][i].inv].call = call
  BY <1>1, <1>3 DEF Anchored, TaskAnchored
<1>11. HasStart(journal, call)
  BY <1>10 DEF HasStart, Starts
<1>12. EffectsAtMostOnce'
  <2>1. ASSUME NEW c \in Calls
        PROVE  effects'[c] <= IF HasStart(journal', c) THEN 1 ELSE 0
    <3>1. CASE c = call
      BY <1>2, <1>9, <1>11, <3>1
    <3>2. CASE c # call
      BY <1>1, <1>2, <1>9, <3>2 DEF EffectsAtMostOnce
    <3> QED BY <3>1, <3>2
  <2> QED BY <2>1 DEF EffectsAtMostOnce
<1>13. ASSUME NEW q \in Procs, NEW a \in 1 .. Len(todo'[q]), todo'[q][a].stage \in {"unstarted", "started"}
       PROVE  /\ a \in 1 .. Len(todo[q]) /\ todo'[q][a] = todo[q][a]
              /\ ~(q = p /\ a = i)
  <2>1. ~(q = p /\ a = i)
    BY <1>6, <1>7, <1>13
  <2> QED BY <1>7, <1>13, <2>1
<1>14. ASSUME NEW q \in Procs
       PROVE  FreshTasks(q)'
  <2>1. ASSUME NEW a \in 1 .. Len(todo'[q]), NEW b \in 1 .. Len(todo'[q]),
               todo'[q][a].stage = "unstarted", todo'[q][b].stage = "unstarted",
               todo'[q][a].call = todo'[q][b].call
        PROVE  a = b
    <3>1. /\ a \in 1 .. Len(todo[q]) /\ todo'[q][a] = todo[q][a]
          /\ b \in 1 .. Len(todo[q]) /\ todo'[q][b] = todo[q][b]
      BY <1>13, <2>1
    <3> QED BY <1>1, <2>1, <3>1 DEF FreshTasks
  <2>2. ASSUME Current(q)', NEW a \in 1 .. Len(todo'[q]), todo'[q][a].stage = "unstarted"
        PROVE  ~HasStart(journal', todo'[q][a].call)
    <3>1. a \in 1 .. Len(todo[q]) /\ todo'[q][a] = todo[q][a]
      BY <1>13, <2>2
    <3>2. Current(q)
      BY <1>2, <2>2 DEF Current, HeadExpected
    <3> QED BY <1>1, <1>2, <2>2, <3>1, <3>2 DEF FreshTasks
  <2>3. Current(q)' => Current(q)
    BY <1>2 DEF Current, HeadExpected
  <2> QED BY <1>1, <1>2, <2>1, <2>2, <2>3 DEF FreshTasks
<1>15. ASSUME NEW q \in Procs
       PROVE  Unexecuted(q)'
  <2>1. ASSUME NEW a \in 1 .. Len(todo'[q]), todo'[q][a].stage = "started"
        PROVE  /\ effects'[todo'[q][a].call] = 0
               /\ \A r \in Procs \ {q} : \A k \in 1 .. Len(todo'[r]) :
                    todo'[r][k].stage = "started" => todo'[r][k].inv # todo'[q][a].inv
    <3>1. /\ a \in 1 .. Len(todo[q]) /\ todo'[q][a] = todo[q][a] /\ ~(q = p /\ a = i)
      BY <1>13, <2>1
    <3>2. todo[q][a].inv \in Starts(journal) /\ journal[todo[q][a].inv].call = todo[q][a].call
      BY <1>1, <2>1, <3>1 DEF Anchored, TaskAnchored
    <3>3. todo[q][a].inv # todo[p][i].inv
      <4>1. CASE q = p
        <5>1. 0 \notin Starts(journal)
          BY DEF Starts
        <5> QED BY <1>1, <1>10, <3>1, <4>1, <5>1 DEF Anchored
      <4>2. CASE q # p
        <5>1. Unexecuted(q)
          BY <1>1
        <5> QED BY <1>3, <2>1, <3>1, <4>2, <5>1 DEF Unexecuted
      <4> QED BY <4>1, <4>2
    <3>4. todo[q][a].call # call
      BY <1>1, <1>10, <3>2, <3>3 DEF FreshJournal
    <3>5. todo[q][a].call \in Calls
      <4>1. todo[q][a] \in Task
        BY <1>1, <3>1, TaskMoves
      <4> QED BY <4>1 DEF Task
    <3>6. Unexecuted(q)
      BY <1>1
    <3>7. effects'[todo'[q][a].call] = 0
      BY <1>9, <2>1, <3>1, <3>4, <3>5, <3>6 DEF Unexecuted
    <3>8. ASSUME NEW r \in Procs \ {q}, NEW k \in 1 .. Len(todo'[r]), todo'[r][k].stage = "started"
          PROVE  todo'[r][k].inv # todo'[q][a].inv
      <4>1. k \in 1 .. Len(todo[r]) /\ todo'[r][k] = todo[r][k]
        BY <1>13, <3>8
      <4> QED BY <2>1, <3>1, <3>6, <3>8, <4>1 DEF Unexecuted
    <3> QED BY <3>7, <3>8
  <2> QED BY <2>1 DEF Unexecuted
<1>16. FreshJournal' /\ ModelSeesClosedActions'
  BY <1>1, <1>2 DEF FreshJournal, ModelSeesClosedActions
<1> QED BY <1>12, <1>14, <1>15, <1>16 DEF FreshInv

\* A run that starts finds each call that was never started once.
LEMMA FreshStart ==
  ASSUME LoopInv, FreshInv, NEW p \in Procs, Start(p)
  PROVE  FreshInv'
<1> DEFINE ts == ActionsToRepair(journal)
<1>1. /\ Typed /\ LocalTypes /\ Wellformed(journal)
      /\ FreshJournal /\ EffectsAtMostOnce /\ ModelSeesClosedActions
      /\ \A q \in Procs : FreshTasks(q) /\ Unexecuted(q)
      /\ journal \in Seq(Event)
  BY TypedIs DEF LoopInv, FreshInv
<1>2. /\ journal' = journal /\ effects' = effects
      /\ pc' = [pc EXCEPT ![p] = "repair"]
      /\ known' = [known EXCEPT ![p] = Len(journal)]
      /\ todo' = [todo EXCEPT ![p] = ts]
      /\ prior' = [prior EXCEPT ![p] = ModelState(journal)]
      /\ turns' = turns /\ open' = open /\ batch' = batch
  BY DEF Start, Goto
<1>3. /\ \A i \in 1 .. Len(ts) : TaskIs(journal, ts[i])
      /\ \A i, k \in 1 .. Len(ts) :
           ts[i].stage = "unstarted" /\ ts[k].stage = "unstarted" /\ i # k =>
             \E x, y \in NeverStarted(journal) :
               /\ x # y
               /\ ts[i].call = journal[x[1]].calls[x[2]] /\ ts[k].call = journal[y[1]].calls[y[2]]
  BY <1>1, RepairIs
<1> HIDE DEF ts
<1>4. /\ pc'[p] = "repair" /\ todo'[p] = ts
      /\ \A q \in Procs : q # p =>
           /\ pc'[q] = pc[q] /\ known'[q] = known[q] /\ todo'[q] = todo[q] /\ prior'[q] = prior[q]
  <2> DEFINE s == ModelState(journal)
  <2>1. prior' = [prior EXCEPT ![p] = s]
    BY <1>2
  <2> HIDE DEF s
  <2> QED BY <1>1, <1>2, <2>1 DEF LocalTypes
<1>5. ASSUME NEW x \in NeverStarted(journal)
      PROVE  /\ x[1] \in 1 .. Len(journal) /\ x[2] \in DOMAIN journal[x[1]].calls
             /\ journal[x[1]].calls[x[2]] \in ToSet(journal[x[1]].calls)
             /\ x = <<x[1], x[2]>>
             /\ ~HasStart(journal, journal[x[1]].calls[x[2]])
  <2>1. PICK i \in 1 .. Len(journal) : x \in {i} \X DOMAIN journal[i].calls
    BY DEF NeverStarted
  <2>2. x[1] = i /\ x[2] \in DOMAIN journal[i].calls /\ x = <<x[1], x[2]>>
    BY <2>1
  <2>3. journal[i].calls \in Seq(Calls)
    <3>1. journal[i] \in Event
      BY <1>1
    <3> QED BY <3>1 DEF Event
  <2>4. journal[i].calls[x[2]] \in ToSet(journal[i].calls)
    BY <2>2, <2>3 DEF ToSet
  <2>5. Unstarted(journal, journal[x[1]].calls[x[2]])
    BY DEF NeverStarted
  <2> QED BY <2>2, <2>4, <2>5 DEF Unstarted
<1>6. ASSUME NEW x \in NeverStarted(journal), NEW y \in NeverStarted(journal), x # y
      PROVE  journal[x[1]].calls[x[2]] # journal[y[1]].calls[y[2]]
  <2>1. x[1] # y[1] \/ x[2] # y[2]
    BY <1>5, <1>6
  <2>2. CASE x[1] # y[1]
    BY <1>1, <1>5, <2>2 DEF FreshJournal
  <2>3. CASE x[1] = y[1] /\ x[2] # y[2]
    <3>1. IsInjective(journal[x[1]].calls)
      BY <1>1, <1>5 DEF FreshJournal
    <3> QED BY <1>5, <2>3, <3>1 DEF IsInjective
  <2> QED BY <2>1, <2>2, <2>3
<1>7. \A i \in 1 .. Len(ts) : ts[i].stage = "unstarted" => ~HasStart(journal, ts[i].call)
  BY <1>3, <1>5 DEF TaskIs
<1>8. ASSUME NEW q \in Procs
      PROVE  FreshTasks(q)'
  <2>1. CASE q = p
    BY <1>2, <1>3, <1>4, <1>6, <1>7, <2>1 DEF FreshTasks
  <2>2. CASE q # p
    BY <1>1, <1>2, <1>4, <2>2, FreshOther DEF Same
  <2> QED BY <2>1, <2>2
<1>9. ASSUME NEW q \in Procs
      PROVE  Unexecuted(q)'
  <2>1. \A i \in 1 .. Len(todo'[p]) : todo'[p][i].stage # "started"
    BY <1>3, <1>4 DEF TaskIs
  <2>2. CASE q = p
    BY <2>1, <2>2 DEF Unexecuted
  <2>3. CASE q # p
    BY <1>1, <1>2, <1>4, <2>1, <2>3 DEF Unexecuted
  <2> QED BY <2>2, <2>3
<1>10. FreshJournal' /\ EffectsAtMostOnce' /\ ModelSeesClosedActions'
  BY <1>1, <1>2 DEF FreshJournal, EffectsAtMostOnce, ModelSeesClosedActions
<1> QED BY <1>8, <1>9, <1>10 DEF FreshInv

LEMMA FreshInit == Init => FreshInv
<1> SUFFICES ASSUME Init PROVE FreshInv
  OBVIOUS
<1>1. /\ journal = <<>> /\ Len(<<>>) = 0 /\ \A p \in Procs : todo[p] = <<>> /\ pc[p] = "down"
      /\ \A c \in Calls : effects[c] = 0
  BY DEF Init
<1>2. FreshJournal /\ ModelSeesClosedActions
  BY <1>1 DEF FreshJournal, Starts, ModelSeesClosedActions
<1>3. EffectsAtMostOnce
  BY <1>1 DEF EffectsAtMostOnce
<1>4. \A p \in Procs : FreshTasks(p) /\ Unexecuted(p)
  BY <1>1 DEF FreshTasks, Unexecuted
<1> QED BY <1>2, <1>3, <1>4 DEF FreshInv

LEMMA FreshNext ==
  ASSUME FreshCalls, LoopInv, FreshInv, [Next]_vars
  PROVE  FreshInv'
<1>1. CASE UNCHANGED vars
  <2>1. UNCHANGED local /\ effects' = effects /\ journal' = journal
    BY <1>1 DEF vars
  <2> QED BY <2>1, FreshWorld
<1>2. ASSUME NEW p \in Procs, Loop(p)
      PROVE  FreshInv'
  <2>1. \/ Unremarkable(p)
        \/ Start(p) \/ BeginAction(p) \/ Execute(p) \/ ReadMail(p) \/ DeliverMail(p)
        \/ Acknowledge(p) \/ CallModel(p) \/ Invoke(p)
        \/ RecordMessage(p) /\ prior[p].calls # <<>>
    BY <1>2 DEF Loop, Unremarkable
  <2>2. CASE Unremarkable(p)
    BY <2>2, QuietStep, FreshQuiet
  <2> QED
    BY <2>1, <2>2, FreshStart, FreshBeginAction, FreshExecute, FreshReadMail,
       FreshDeliverMail, FreshAcknowledge, FreshCallModel, FreshInvoke, FreshRecordMessage
<1> QED BY <1>1, <1>2, FreshSend, FreshForeignWrite DEF Next

LEMMA FreshInvariant ==
  ASSUME FreshCalls
  PROVE  Spec => []FreshInv
<1>1. LoopInv /\ FreshInv /\ [Next]_vars => FreshInv'
  BY FreshNext
<1> QED BY <1>1, FreshInit, LoopInvariant, PTL DEF Spec

-----------------------------------------------------------------------------
(* What is told, step by step.                                              *)

\* A message has one place in a sequence without repetitions.
LEMMA PlaceIs ==
  ASSUME NEW s \in Seq(Mails), \A i, k \in 1 .. Len(s) : s[i] = s[k] => i = k
  PROVE  /\ \A k \in 1 .. Len(s) : Place(s, s[k]) = k
         /\ \A m \in ToSet(s) : Place(s, m) \in 1 .. Len(s) /\ s[Place(s, m)] = m
<1>1. \A m \in ToSet(s) : \E k \in 1 .. Len(s) : s[k] = m
  BY DEF ToSet
<1>2. \A m \in ToSet(s) : Place(s, m) \in 1 .. Len(s) /\ s[Place(s, m)] = m
  BY <1>1 DEF Place
<1>3. \A k \in 1 .. Len(s) : s[k] \in ToSet(s)
  BY DEF ToSet
<1> QED BY <1>2, <1>3

\* The mail of the journal.
LEMMA TellingsAre ==
  ASSUME Typed
  PROVE  /\ Tellings \in SUBSET (1 .. Len(journal)) /\ IsFiniteSet(Tellings)
         /\ Cardinality(Tellings) \in Nat /\ Told \subseteq Mails
<1>1. Tellings \in SUBSET (1 .. Len(journal)) /\ Len(journal) \in Nat
  BY TypedIs DEF Tellings
<1> QED BY <1>1, PositionsFinite DEF Told, Tellings

LEMMA NotTold ==
  ASSUME Typed, NEW e \in Event, journal' = Append(journal, e),
         e.type # "user" \/ e.call \notin Mails
  PROVE  Tellings' = Tellings /\ Told' = Told
         /\ \A i \in Tellings : journal'[i] = journal[i]
<1>1. /\ Len(journal) \in Nat /\ Len(journal') = Len(journal) + 1
      /\ \A i \in 1 .. Len(journal) : journal'[i] = journal[i]
      /\ journal'[Len(journal) + 1] = e
  BY TypedIs, AppendIs
<1>2. \A i : i \in Tellings' <=> i \in Tellings
  BY <1>1 DEF Tellings
<1>3. Tellings' = Tellings /\ \A i \in Tellings : i \in 1 .. Len(journal)
  BY <1>2 DEF Tellings
<1>4. \A i \in Tellings : journal'[i] = journal[i]
  BY <1>1, <1>3
<1> QED BY <1>3, <1>4 DEF Told

\* What a process has of its batch after a step that is not about mail.
Holds(q) == \/ batch'[q] = <<>>
            \/ batch'[q] = batch[q] /\ (Current(q)' => Current(q))

LEMMA MailKept ==
  ASSUME Typed, MailInv, \A q \in Procs : BatchInv(q) /\ Holds(q),
         sent' = sent, pending' = pending,
         \/ journal' = journal
         \/ \E e \in Event : /\ journal' = Append(journal, e)
                             /\ e.type # "user" \/ e.call \notin Mails
  PROVE  MailInv' /\ \A q \in Procs : BatchInv(q)'
<1>1. /\ Tellings' = Tellings /\ Told' = Told
      /\ \A i \in Tellings : journal'[i] = journal[i]
  <2>1. CASE journal' = journal
    BY <2>1 DEF Told, Tellings
  <2> QED BY <2>1, NotTold
<1>2. MailInv'
  BY <1>1 DEF MailInv
<1>3. ASSUME NEW q \in Procs
      PROVE  BatchInv(q)'
  <2>1. CASE batch'[q] = <<>>
    BY <2>1 DEF BatchInv
  <2>2. CASE batch'[q] = batch[q] /\ (Current(q)' => Current(q))
    BY <1>1, <2>2 DEF BatchInv
  <2> QED BY <2>1, <2>2 DEF Holds
<1> QED BY <1>2, <1>3

\* The mail of the others.
LEMMA HoldsOther ==
  ASSUME Typed, NEW q \in Procs, pc'[q] = pc[q], known'[q] = known[q], batch'[q] = batch[q],
         \/ journal' = journal
         \/ \E e \in Event : journal' = Append(journal, e)
  PROVE  Holds(q) /\ (journal' # journal => ~Current(q)')
<1>1. CASE journal' = journal
  BY <1>1 DEF Holds, Current, HeadExpected
<1>2. ASSUME NEW e \in Event, journal' = Append(journal, e)
      PROVE  ~Current(q)'
  <2>1. /\ Len(journal) \in Nat /\ Len(journal') = Len(journal) + 1 /\ known[q] <= Len(journal)
        /\ known[q] \in Nat
    <3>1. LocalTypes /\ journal \in Seq(Event) /\ known[q] <= Len(journal)
      BY TypedIs
    <3>2. known[q] \in Nat
      BY <3>1 DEF LocalTypes
    <3> QED BY <1>2, <3>1, <3>2, AppendIs
  <2> QED BY <2>1 DEF Current, HeadExpected
<1> QED BY <1>1, <1>2 DEF Holds

\* The next message a process appends is the first that was not told.
LEMMA NextToTell ==
  ASSUME Typed, MailInv, NEW p \in Procs, BatchInv(p), Current(p),
         Len(batch[p]) \in Nat, Len(batch[p]) > 0, ~batch[p][1].told
  PROVE  /\ Cardinality(Tellings) + 1 <= Len(sent)
         /\ batch[p][1].mail = sent[Cardinality(Tellings) + 1]
         /\ batch[p][1].mail \notin Told
<1> DEFINE m == batch[p][1].mail
           n == Cardinality(Tellings)
<1>1. sent \in Seq(Mails) /\ Len(sent) \in Nat /\ n \in Nat
  <2>1. sent \in Seq(Mails)
    BY TypedIs DEF WorldTypes
  <2> QED BY <2>1, TellingsAre
<1>2. /\ \A k \in 1 .. Len(sent) : Place(sent, sent[k]) = k
      /\ \A x \in ToSet(sent) : Place(sent, x) \in 1 .. Len(sent) /\ sent[Place(sent, x)] = x
  BY <1>1, PlaceIs DEF MailInv
<1>3. 1 \in 1 .. Len(batch[p])
  OBVIOUS
<1>4. m \in ToSet(sent) /\ m \notin Told
  BY <1>3 DEF BatchInv
<1> DEFINE k == Place(sent, m)
<1>5. k \in 1 .. Len(sent) /\ sent[k] = m
  BY <1>2, <1>4
<1>6. \A l \in 1 .. k - 1 : sent[l] \in Told
  <2> SUFFICES ASSUME NEW l \in 1 .. k - 1, sent[l] \notin Told
               PROVE  FALSE
    OBVIOUS
  <2>1. PICK i \in 1 .. Len(batch[p]) : batch[p][i].mail = sent[l]
    BY <1>3 DEF BatchInv
  <2>2. Place(sent, sent[l]) = l
    BY <1>1, <1>2, <1>5
  <2>3. CASE i = 1
    BY <1>5, <2>1, <2>2, <2>3
  <2>4. CASE i # 1
    <3>1. 1 < i
      BY <2>4
    <3>2. Place(sent, batch[p][1].mail) < Place(sent, batch[p][i].mail)
      BY <1>3, <3>1 DEF BatchInv
    <3> QED BY <1>5, <2>1, <2>2, <3>2
  <2> QED BY <2>3, <2>4
<1> HIDE DEF n, k, m
<1>7. \A l \in 1 .. Len(sent) : sent[l] \in Told <=> l <= n
  BY DEF MailInv, n
<1>8. n < k
  BY <1>1, <1>4, <1>5, <1>7
<1>9. k - 1 <= n
  <2>1. CASE k = 1
    BY <1>1, <2>1
  <2>2. CASE k # 1
    <3>1. k - 1 \in 1 .. k - 1 /\ k - 1 \in 1 .. Len(sent)
      BY <1>1, <1>5, <2>2
    <3> QED BY <1>6, <1>7, <3>1
  <2> QED BY <2>1, <2>2
<1>10. k = n + 1
  BY <1>1, <1>5, <1>8, <1>9
<1> QED BY <1>1, <1>4, <1>5, <1>10 DEF n, m

LEMMA MailDeliver ==
  ASSUME LoopInv, MailInv, \A q \in Procs : BatchInv(q), NEW p \in Procs, DeliverMail(p)
  PROVE  MailInv' /\ \A q \in Procs : BatchInv(q)'
<1> DEFINE m == batch[p][1].mail
           e == UserEvent(m)
           n == Cardinality(Tellings)
           L == Len(journal) + 1
<1>1. Typed
  BY DEF LoopInv
<1>2. /\ \A q \in Procs : q # p => batch'[q] = batch[q]
      /\ Len(batch[p]) \in Nat /\ Len(batch[p]) > 0 /\ Len(batch'[p]) = Len(batch[p])
      /\ Head(batch[p]) = batch[p][1] /\ m \in Mails /\ batch'[p][1].told
      /\ \A i \in 2 .. Len(batch[p]) : batch'[p][i] = batch[p][i]
      /\ \A i \in 1 .. Len(batch[p]) : batch'[p][i].mail = batch[p][i].mail
  BY <1>1, TellingIs
<1>3. /\ pc[p] = "deliver" /\ Write(p, e) /\ ~batch[p][1].told
      /\ pc' = pc /\ sent' = sent /\ pending' = pending
  BY <1>2 DEF DeliverMail, world
<1>4. e \in Event /\ e.type = "user" /\ e.call = m
  BY <1>2, EventIs
<1> HIDE DEF e
<1>5. /\ journal' = Append(journal, e) /\ HeadExpected(p)
      /\ Len(journal) \in Nat /\ Len(journal') = L /\ journal'[L] = e
      /\ \A i \in 1 .. Len(journal) : journal'[i] = journal[i]
      /\ \A q \in Procs : q # p => known'[q] = known[q]
  BY <1>1, <1>3, <1>4, WroteIs
<1>6. Current(p)
  BY <1>3, <1>5 DEF Current
<1>7. n + 1 <= Len(sent) /\ m = sent[n + 1] /\ m \notin Told
  BY <1>1, <1>2, <1>3, <1>6, NextToTell
<1>8. sent \in Seq(Mails) /\ Len(sent) \in Nat /\ n \in Nat
      /\ Tellings \in SUBSET (1 .. Len(journal)) /\ IsFiniteSet(Tellings)
  <2>1. sent \in Seq(Mails)
    BY <1>1, TypedIs DEF WorldTypes
  <2> QED BY <1>1, <2>1, TellingsAre
<1> HIDE DEF m
<1>9. Tellings' = Tellings \cup {L}
  <2>1. \A i : i \in Tellings' <=> i \in Tellings \/ i = L
    BY <1>2, <1>4, <1>5 DEF Tellings
  <2> QED BY <2>1
<1>10. Told' = Told \cup {m}
  <2>1. \A i \in Tellings : journal'[i] = journal[i]
    BY <1>5, <1>8
  <2> QED BY <1>4, <1>5, <1>9, <2>1 DEF Told
<1>11. Cardinality(Tellings') = n + 1
  <2>1. L \notin Tellings
    BY <1>5, <1>8
  <2> QED BY <1>8, <1>9, <2>1, FS_AddElement
<1>12. ASSUME NEW i \in Tellings'
       PROVE  LET k == Cardinality({j \in Tellings' : j <= i})
              IN  k <= Len(sent') /\ journal'[i].call = sent'[k]
  <2>1. CASE i \in Tellings
    <3>1. \A k : k \in {j \in Tellings' : j <= i} <=> k \in {j \in Tellings : j <= i}
      BY <1>5, <1>8, <1>9, <2>1
    <3>2. {j \in Tellings' : j <= i} = {j \in Tellings : j <= i}
      BY <3>1
    <3>3. journal'[i] = journal[i]
      BY <1>5, <1>8, <2>1
    <3> QED BY <1>3, <2>1, <3>2, <3>3 DEF MailInv
  <2>2. CASE i = L
    <3>1. \A j \in Tellings' : j <= L
      BY <1>5, <1>8, <1>9
    <3>2. {j \in Tellings' : j <= i} = Tellings'
      BY <2>2, <3>1
    <3> QED BY <1>3, <1>4, <1>5, <1>7, <1>11, <2>2, <3>2
  <2> QED BY <1>9, <2>1, <2>2
<1>13. \A k \in 1 .. Len(sent) : sent[k] \in Told' <=> k <= n + 1
  <2> TAKE k \in 1 .. Len(sent)
  <2>1. sent[k] \in Told <=> k <= n
    BY DEF MailInv
  <2>2. sent[k] = m <=> k = n + 1
    BY <1>7, <1>8 DEF MailInv
  <2> QED BY <1>8, <1>10, <2>1, <2>2
<1>14. MailInv'
  <2>1. Cardinality(Tellings') <= Len(sent')
    BY <1>3, <1>7, <1>11
  <2>2. \A k \in 1 .. Len(sent') : sent'[k] \in Told' <=> k <= Cardinality(Tellings')
    BY <1>3, <1>11, <1>13
  <2>3. \A k \in 1 .. Len(sent') : sent'[k] \notin Told' => sent'[k] \in ToSet(pending')
    BY <1>3, <1>10 DEF MailInv
  <2>4. /\ \A i, k \in 1 .. Len(sent') : sent'[i] = sent'[k] => i = k
        /\ ToSet(pending') \subseteq ToSet(sent')
        /\ \A i, k \in 1 .. Len(pending') :
             i < k => Place(sent', pending'[i]) < Place(sent', pending'[k])
    BY <1>3 DEF MailInv
  <2> QED BY <1>12, <2>1, <2>2, <2>3, <2>4 DEF MailInv
<1>15. ASSUME NEW q \in Procs, q # p
       PROVE  BatchInv(q)'
  <2>1. ~Current(q)'
    <3>1. pc'[q] = pc[q] /\ known'[q] = known[q] /\ batch'[q] = batch[q] /\ journal' # journal
      BY <1>2, <1>3, <1>5, <1>15
    <3> QED BY <1>1, <1>4, <1>5, <3>1, HoldsOther
  <2>2. batch'[q] = batch[q]
    BY <1>2, <1>15
  <2>3. \A i \in 1 .. Len(batch'[q]) :
          /\ batch'[q][i].mail \in ToSet(sent')
          /\ batch'[q][i].told => batch'[q][i].mail \in Told'
    BY <1>3, <1>10, <2>2 DEF BatchInv
  <2> QED BY <2>1, <2>3 DEF BatchInv
<1>16. BatchInv(p)'
  <2>0. BatchInv(p)
    OBVIOUS
  <2>1. \A i \in 1 .. Len(batch'[p]) :
          /\ batch'[p][i].mail \in ToSet(sent')
          /\ batch'[p][i].told => batch'[p][i].mail \in Told'
    <3> TAKE i \in 1 .. Len(batch'[p])
    <3>1. i \in 1 .. Len(batch[p]) /\ batch'[p][i].mail = batch[p][i].mail
      BY <1>2
    <3>2. batch'[p][i].mail \in ToSet(sent')
      BY <1>3, <2>0, <3>1 DEF BatchInv
    <3>3. CASE i = 1
      BY <1>10, <3>1, <3>2, <3>3 DEF m
    <3>4. CASE i # 1
      <4>1. i \in 2 .. Len(batch[p])
        BY <1>2, <3>1, <3>4
      <4> QED BY <1>2, <1>10, <2>0, <3>1, <3>2, <4>1 DEF BatchInv
    <3> QED BY <3>3, <3>4
  <2>2. \A i, k \in 1 .. Len(batch'[p]) :
          i < k => Place(sent', batch'[p][i].mail) < Place(sent', batch'[p][k].mail)
    BY <1>2, <1>3, <1>6, <2>0 DEF BatchInv
  <2>3. ASSUME NEW i \in 1 .. Len(batch'[p]), ~batch'[p][i].told
        PROVE  /\ batch'[p][i].mail \notin Told'
               /\ \A l \in 1 .. Place(sent', batch'[p][i].mail) - 1 : sent'[l] \notin Told' =>
                    \E k \in 1 .. Len(batch'[p]) : batch'[p][k].mail = sent'[l]
    <3>1. i \in 2 .. Len(batch[p]) /\ i \in 1 .. Len(batch[p]) /\ batch'[p][i] = batch[p][i]
          /\ 1 \in 1 .. Len(batch[p]) /\ 1 < i
      BY <1>2, <2>3
    <3>2. ~batch[p][i].told
      BY <2>3, <3>1
    <3>3. batch[p][i].mail # m
      <4>1. Place(sent, batch[p][1].mail) < Place(sent, batch[p][i].mail)
        BY <1>6, <2>0, <3>1 DEF BatchInv
      <4>2. /\ \A x \in ToSet(sent) : Place(sent, x) \in 1 .. Len(sent)
            /\ m \in ToSet(sent)
        BY <1>8, <2>0, <3>1, PlaceIs DEF MailInv, BatchInv, m
      <4>3. Place(sent, m) \in Nat /\ Place(sent, m) < Place(sent, batch[p][i].mail)
        BY <4>1, <4>2 DEF m
      <4> QED BY <4>3
    <3>4. batch'[p][i].mail \notin Told'
      BY <1>6, <1>10, <2>0, <3>1, <3>2, <3>3 DEF BatchInv
    <3>5. ASSUME NEW l \in 1 .. Place(sent, batch[p][i].mail) - 1, sent[l] \notin Told'
          PROVE  \E k \in 1 .. Len(batch'[p]) : batch'[p][k].mail = sent[l]
      <4>1. PICK k \in 1 .. Len(batch[p]) : batch[p][k].mail = sent[l]
        BY <1>6, <1>10, <2>0, <3>1, <3>2, <3>5 DEF BatchInv
      <4> QED BY <1>2, <4>1
    <3> QED BY <1>3, <3>1, <3>4, <3>5
  <2> QED BY <2>1, <2>2, <2>3 DEF BatchInv
<1> QED BY <1>14, <1>15, <1>16

\* The batch is the oldest of the pending mail.
LEMMA MailRead ==
  ASSUME LoopInv, MailInv, \A q \in Procs : BatchInv(q), NEW p \in Procs, ReadMail(p)
  PROVE  MailInv' /\ \A q \in Procs : BatchInv(q)'
<1>1. Typed /\ LocalTypes
  BY TypedIs DEF LoopInv
<1>2. /\ \A q \in Procs : q # p => batch'[q] = batch[q]
      /\ Len(batch'[p]) \in Nat /\ Len(batch'[p]) <= Len(pending)
      /\ \A i \in 1 .. Len(batch'[p]) :
           batch'[p][i] = [mail |-> pending[i], told |-> pending[i] \in Journaled]
  BY <1>1, BatchIs
<1>3. /\ pc' = [pc EXCEPT ![p] = "deliver"] /\ journal' = journal
      /\ pending' = pending /\ sent' = sent /\ known' = known
  BY DEF ReadMail, Goto, world
<1>4. Tellings' = Tellings /\ Told' = Told
  BY <1>3 DEF Tellings, Told
<1>5. MailInv'
  BY <1>3, <1>4 DEF MailInv
<1>6. ASSUME NEW q \in Procs, q # p
      PROVE  BatchInv(q)'
  <2>1. batch'[q] = batch[q] /\ Current(q)' => Current(q)
    BY <1>1, <1>2, <1>3, <1>6 DEF LocalTypes, Current, HeadExpected
  <2>2. batch'[q] = batch[q]
    BY <1>2, <1>6
  <2> QED BY <1>3, <1>4, <2>1, <2>2 DEF BatchInv
<1>7. /\ sent \in Seq(Mails) /\ Len(sent) \in Nat /\ pending \in Seq(Mails) /\ Len(pending) \in Nat
  <2>1. sent \in Seq(Mails) /\ pending \in Seq(Mails)
    BY <1>1, TypedIs DEF WorldTypes
  <2> QED BY <2>1
<1>8. /\ \A k \in 1 .. Len(sent) : Place(sent, sent[k]) = k
      /\ \A x \in ToSet(sent) : Place(sent, x) \in 1 .. Len(sent) /\ sent[Place(sent, x)] = x
  BY <1>7, PlaceIs DEF MailInv
<1>9. ASSUME NEW i \in 1 .. Len(batch'[p])
      PROVE  /\ i \in 1 .. Len(pending) /\ pending[i] \in Mails
             /\ pending[i] \in ToSet(pending) /\ pending[i] \in ToSet(sent)
             /\ batch'[p][i].mail = pending[i]
             /\ batch'[p][i].told <=> pending[i] \in Told
  <2>1. i \in 1 .. Len(pending)
    BY <1>2, <1>7
  <2>2. pending[i] \in Mails /\ pending[i] \in ToSet(pending)
    BY <1>7, <2>1 DEF ToSet
  <2>3. pending[i] \in ToSet(sent)
    BY <2>2 DEF MailInv
  <2>4. pending[i] \in Journaled <=> pending[i] \in Told
    BY <2>2 DEF Journaled, Told, Tellings
  <2>5. batch'[p][i] = [mail |-> pending[i], told |-> pending[i] \in Journaled]
    BY <1>2
  <2> DEFINE v == pending[i] \in Journaled
  <2>5a. batch'[p][i] = [mail |-> pending[i], told |-> v]
    BY <2>5
  <2>6. v \in BOOLEAN
    OBVIOUS
  <2> HIDE DEF v
  <2>7. batch'[p][i].mail = pending[i] /\ (batch'[p][i].told <=> v)
    BY <2>5a, <2>6
  <2> QED BY <2>1, <2>2, <2>3, <2>4, <2>7, Zenon DEF v
<1>10. \A i, k \in 1 .. Len(batch'[p]) :
         i < k => Place(sent, batch'[p][i].mail) < Place(sent, batch'[p][k].mail)
  BY <1>9 DEF MailInv
<1>11. ASSUME NEW i \in 1 .. Len(batch'[p]),
              NEW l \in 1 .. Place(sent, batch'[p][i].mail) - 1, sent[l] \notin Told
       PROVE  \E k \in 1 .. Len(batch'[p]) : batch'[p][k].mail = sent[l]
  <2>1. batch'[p][i].mail = pending[i] /\ i \in 1 .. Len(pending)
        /\ Place(sent, pending[i]) \in 1 .. Len(sent)
    BY <1>8, <1>9
  <2>2. l \in 1 .. Len(sent) /\ l < Place(sent, pending[i]) /\ Place(sent, sent[l]) = l
    BY <1>7, <1>8, <1>11, <2>1
  <2>3. PICK x \in 1 .. Len(pending) : pending[x] = sent[l]
    BY <1>11, <2>2 DEF MailInv, ToSet
  <2>4. ~(i < x)
    <3>1. i < x => Place(sent, pending[i]) < Place(sent, pending[x])
      BY <2>1, <2>3 DEF MailInv
    <3> QED BY <2>1, <2>2, <2>3, <3>1
  <2>5. x \in 1 .. Len(batch'[p])
    BY <1>2, <1>7, <2>1, <2>3, <2>4
  <2> QED BY <1>9, <2>3, <2>5
<1>12. BatchInv(p)'
  <2>1. \A i \in 1 .. Len(batch'[p]) :
          /\ batch'[p][i].mail \in ToSet(sent')
          /\ batch'[p][i].told => batch'[p][i].mail \in Told'
    BY <1>3, <1>4, <1>9
  <2>2. \A i, k \in 1 .. Len(batch'[p]) :
          i < k => Place(sent', batch'[p][i].mail) < Place(sent', batch'[p][k].mail)
    BY <1>3, <1>10
  <2>3. \A i \in 1 .. Len(batch'[p]) : ~batch'[p][i].told =>
          /\ batch'[p][i].mail \notin Told'
          /\ \A l \in 1 .. Place(sent', batch'[p][i].mail) - 1 : sent'[l] \notin Told' =>
               \E k \in 1 .. Len(batch'[p]) : batch'[p][k].mail = sent'[l]
    BY <1>3, <1>4, <1>9, <1>11
  <2> QED BY <2>1, <2>2, <2>3 DEF BatchInv
<1> QED BY <1>5, <1>6, <1>12

\* Only told mail is acknowledged.
LEMMA MailAcknowledge ==
  ASSUME LoopInv, MailInv, \A q \in Procs : BatchInv(q), NEW p \in Procs, Acknowledge(p)
  PROVE  MailInv' /\ \A q \in Procs : BatchInv(q)'
<1> DEFINE m == batch[p][1].mail
<1>1. Typed /\ LocalTypes
  BY TypedIs DEF LoopInv
<1>2. /\ \A q \in Procs : q # p => batch'[q] = batch[q]
      /\ Len(batch[p]) \in Nat /\ Len(batch[p]) > 0 /\ Len(batch'[p]) = Len(batch[p]) - 1
      /\ m \in Mails /\ batch[p][1].told
      /\ \A i \in 1 .. Len(batch'[p]) : batch'[p][i] = batch[p][i + 1]
      /\ pending' = Unacknowledged(m)
  BY <1>1, AcknowledgedIs
<1>3. /\ pc' = pc /\ journal' = journal /\ sent' = sent /\ known' = known
  BY DEF Acknowledge
<1>4. Tellings' = Tellings /\ Told' = Told
  BY <1>3 DEF Tellings, Told
<1>5. m \in Told
  <2>1. BatchInv(p) /\ 1 \in 1 .. Len(batch[p])
    BY <1>2
  <2> QED BY <1>2, <2>1 DEF BatchInv
<1> HIDE DEF m
<1>6. pending \in Seq(Mails) /\ Len(pending) \in Nat
  <2>1. pending \in Seq(Mails)
    BY <1>1, TypedIs DEF WorldTypes
  <2> QED BY <2>1
<1>7. \/ pending' = pending
      \/ \E i \in 1 .. Len(pending) :
           /\ pending[i] = m /\ Len(pending') = Len(pending) - 1
           /\ \A k \in 1 .. i - 1 : pending'[k] = pending[k]
           /\ \A k \in i .. Len(pending) - 1 : pending'[k] = pending[k + 1]
  BY <1>1, <1>2, UnacknowledgedIs
<1>8. /\ \A x \in ToSet(pending) : x # m => x \in ToSet(pending')
      /\ ToSet(pending') \subseteq ToSet(pending)
      /\ \A a, b \in 1 .. Len(pending') : a < b => Place(sent, pending'[a]) < Place(sent, pending'[b])
  <2>1. CASE pending' = pending
    BY <2>1 DEF MailInv
  <2>2. ASSUME NEW i \in 1 .. Len(pending), pending[i] = m, Len(pending') = Len(pending) - 1,
               \A k \in 1 .. i - 1 : pending'[k] = pending[k],
               \A k \in i .. Len(pending) - 1 : pending'[k] = pending[k + 1]
        PROVE  /\ \A x \in ToSet(pending) : x # m => x \in ToSet(pending')
               /\ ToSet(pending') \subseteq ToSet(pending)
               /\ \A a, b \in 1 .. Len(pending') :
                    a < b => Place(sent, pending'[a]) < Place(sent, pending'[b])
    <3>0. pending' \in Seq(Mails)
      BY <1>1, <1>2, UnacknowledgedIs DEF m
    <3>1. ASSUME NEW x \in ToSet(pending), x # m
          PROVE  x \in ToSet(pending')
      <4>1. PICK k \in 1 .. Len(pending) : pending[k] = x
        BY <1>6, <3>1 DEF ToSet
      <4>2. CASE k < i
        <5>1. k \in 1 .. i - 1 /\ k \in 1 .. Len(pending')
          BY <1>6, <2>2, <4>1, <4>2
        <5> QED BY <2>2, <3>0, <4>1, <5>1 DEF ToSet
      <4>3. CASE k > i
        <5>1. k - 1 \in i .. Len(pending) - 1 /\ k - 1 \in 1 .. Len(pending') /\ (k - 1) + 1 = k
          BY <1>6, <2>2, <4>1, <4>3
        <5>2. pending'[k - 1] = x
          BY <2>2, <4>1, <5>1
        <5> QED BY <3>0, <5>1, <5>2 DEF ToSet
      <4>4. k # i
        BY <2>2, <3>1, <4>1
      <4> QED BY <4>1, <4>2, <4>3, <4>4
    <3>2. ASSUME NEW a \in 1 .. Len(pending')
          PROVE  \/ a \in 1 .. i - 1 /\ a \in 1 .. Len(pending) /\ pending'[a] = pending[a]
                 \/ a \in i .. Len(pending) - 1 /\ a + 1 \in 1 .. Len(pending) /\ pending'[a] = pending[a + 1]
      <4>1. \/ a \in 1 .. i - 1 /\ a \in 1 .. Len(pending)
            \/ a \in i .. Len(pending) - 1 /\ a + 1 \in 1 .. Len(pending)
        BY <1>6, <2>2, <3>2
      <4> QED BY <2>2, <4>1
    <3>3. ToSet(pending') \subseteq ToSet(pending)
      <4> SUFFICES ASSUME NEW x \in ToSet(pending') PROVE x \in ToSet(pending)
        OBVIOUS
      <4>1. PICK a \in 1 .. Len(pending') : pending'[a] = x
        BY <3>0 DEF ToSet
      <4>2. \E b \in 1 .. Len(pending) : pending[b] = x
        BY <3>2, <4>1
      <4> QED BY <1>6, <4>2 DEF ToSet
    <3>4. ASSUME NEW a \in 1 .. Len(pending'), NEW b \in 1 .. Len(pending'), a < b
          PROVE  Place(sent, pending'[a]) < Place(sent, pending'[b])
      <4>1. \E c, d \in 1 .. Len(pending) :
              c < d /\ pending'[a] = pending[c] /\ pending'[b] = pending[d]
        <5>1. CASE a \in 1 .. i - 1 /\ b \in 1 .. i - 1
          BY <3>2, <3>4, <5>1
        <5>2. CASE a \in 1 .. i - 1 /\ b \in i .. Len(pending) - 1
          <6>1. a < b + 1 /\ a \in 1 .. Len(pending) /\ b + 1 \in 1 .. Len(pending)
            BY <1>6, <3>4, <5>2
          <6> QED BY <2>2, <5>2, <6>1
        <5>3. CASE a \in i .. Len(pending) - 1 /\ b \in i .. Len(pending) - 1
          <6>1. a + 1 < b + 1 /\ a + 1 \in 1 .. Len(pending) /\ b + 1 \in 1 .. Len(pending)
            BY <1>6, <3>4, <5>3
          <6> QED BY <2>2, <5>3, <6>1
        <5>4. ~(a \in i .. Len(pending) - 1 /\ b \in 1 .. i - 1)
          BY <1>6, <3>4
        <5> QED BY <3>2, <5>1, <5>2, <5>3, <5>4
      <4> QED BY <4>1 DEF MailInv
    <3> QED BY <3>1, <3>3, <3>4
  <2> QED BY <1>7, <2>1, <2>2
<1>9. MailInv'
  <2>1. \A k \in 1 .. Len(sent') : sent'[k] \notin Told' => sent'[k] \in ToSet(pending')
    BY <1>3, <1>4, <1>5, <1>8 DEF MailInv
  <2>2. ToSet(pending') \subseteq ToSet(sent')
    BY <1>3, <1>8 DEF MailInv
  <2>3. \A i, k \in 1 .. Len(pending') :
          i < k => Place(sent', pending'[i]) < Place(sent', pending'[k])
    BY <1>3, <1>8
  <2> QED BY <1>3, <1>4, <2>1, <2>2, <2>3 DEF MailInv
<1>10. ASSUME NEW q \in Procs, q # p
       PROVE  BatchInv(q)'
  <2>1. batch'[q] = batch[q] /\ (Current(q)' => Current(q))
    BY <1>2, <1>3, <1>10 DEF Current, HeadExpected
  <2> QED BY <1>3, <1>4, <2>1 DEF BatchInv
<1>11. BatchInv(p)'
  <2>0. /\ BatchInv(p)
        /\ \A i \in 1 .. Len(batch'[p]) : i + 1 \in 1 .. Len(batch[p]) /\ batch'[p][i] = batch[p][i + 1]
    BY <1>2
  <2>1. \A i \in 1 .. Len(batch'[p]) :
          /\ batch'[p][i].mail \in ToSet(sent')
          /\ batch'[p][i].told => batch'[p][i].mail \in Told'
    <3> TAKE i \in 1 .. Len(batch'[p])
    <3>1. i + 1 \in 1 .. Len(batch[p]) /\ batch'[p][i] = batch[p][i + 1]
      BY <2>0
    <3>2. batch[p][i + 1].mail \in ToSet(sent) /\ (batch[p][i + 1].told => batch[p][i + 1].mail \in Told)
      BY <2>0, <3>1 DEF BatchInv
    <3> QED BY <1>3, <1>4, <3>1, <3>2
  <2>2. ASSUME Current(p)', NEW i \in 1 .. Len(batch'[p]), NEW k \in 1 .. Len(batch'[p]), i < k
        PROVE  Place(sent', batch'[p][i].mail) < Place(sent', batch'[p][k].mail)
    <3>1. Current(p)
      BY <1>3, <2>2 DEF Current, HeadExpected
    <3>2. i + 1 < k + 1
      BY <1>2, <2>2
    <3> QED BY <1>3, <2>0, <3>1, <3>2 DEF BatchInv
  <2>3. ASSUME Current(p)', NEW i \in 1 .. Len(batch'[p]), ~batch'[p][i].told
        PROVE  /\ batch'[p][i].mail \notin Told'
               /\ \A l \in 1 .. Place(sent', batch'[p][i].mail) - 1 : sent'[l] \notin Told' =>
                    \E k \in 1 .. Len(batch'[p]) : batch'[p][k].mail = sent'[l]
    <3>1. Current(p)
      BY <1>3, <2>3 DEF Current, HeadExpected
    <3>2. i + 1 \in 1 .. Len(batch[p]) /\ batch'[p][i] = batch[p][i + 1]
      BY <2>0
    <3>3. batch'[p][i].mail \notin Told'
      BY <1>4, <2>0, <2>3, <3>1, <3>2 DEF BatchInv
    <3>4. ASSUME NEW l \in 1 .. Place(sent, batch[p][i + 1].mail) - 1, sent[l] \notin Told
          PROVE  \E k \in 1 .. Len(batch'[p]) : batch'[p][k].mail = sent[l]
      <4>1. PICK k \in 1 .. Len(batch[p]) : batch[p][k].mail = sent[l]
        BY <2>0, <2>3, <3>1, <3>2, <3>4 DEF BatchInv
      <4>2. k # 1
        BY <1>5, <3>4, <4>1 DEF m
      <4>3. k - 1 \in 1 .. Len(batch'[p]) /\ (k - 1) + 1 = k
        BY <1>2, <4>1, <4>2
      <4>4. batch'[p][k - 1] = batch[p][k]
        BY <2>0, <4>3
      <4> QED BY <4>1, <4>3, <4>4
    <3> QED BY <1>3, <1>4, <3>2, <3>3, <3>4
  <2> QED BY <2>1, <2>2, <2>3 DEF BatchInv
<1> QED BY <1>9, <1>10, <1>11

\* Each telling is of one of the messages sent.
LEMMA ToldFrom ==
  ASSUME Typed, MailInv, NEW i \in Tellings
  PROVE  LET k == Cardinality({j \in Tellings : j <= i})
         IN  k \in 1 .. Len(sent) /\ journal[i].call = sent[k]
<1> DEFINE before == {j \in Tellings : j <= i}
<1>1. IsFiniteSet(Tellings) /\ Tellings \in SUBSET (1 .. Len(journal)) /\ Len(sent) \in Nat
  <2>1. sent \in Seq(Mails)
    BY TypedIs DEF WorldTypes
  <2> QED BY <2>1, TellingsAre
<1>2. Cardinality(before) <= Len(sent) /\ journal[i].call = sent[Cardinality(before)]
  BY DEF MailInv
<1>3. before \subseteq Tellings /\ i \in before
  BY <1>1
<1>4. IsFiniteSet(before)
  BY <1>1, <1>3, FS_Subset
<1> HIDE DEF before
<1>5. Cardinality(before) \in Nat /\ Cardinality(before) # 0
  BY <1>3, <1>4, FS_CardinalityType, FS_EmptySet
<1>6. Cardinality(before) \in 1 .. Len(sent)
  BY <1>1, <1>2, <1>5
<1> QED BY <1>2, <1>6 DEF before

\* New mail comes last and is pending.
LEMMA MailSend ==
  ASSUME LoopInv, MailInv, \A q \in Procs : BatchInv(q), Send
  PROVE  MailInv' /\ \A q \in Procs : BatchInv(q)'
<1>1. PICK m \in Mails \ ToSet(sent) : sent' = Append(sent, m) /\ pending' = Append(pending, m)
  BY DEF Send
<1>2. /\ journal' = journal /\ pc' = pc /\ known' = known /\ batch' = batch
  BY DEF Send, local
<1>3. Tellings' = Tellings /\ Told' = Told
  BY <1>2 DEF Tellings, Told
<1> DEFINE n == Len(sent)
           l == Len(pending)
<1>4. /\ sent \in Seq(Mails) /\ n \in Nat /\ pending \in Seq(Mails) /\ l \in Nat
      /\ Cardinality(Tellings) \in Nat
  <2>1. sent \in Seq(Mails) /\ pending \in Seq(Mails) /\ Typed
    BY TypedIs DEF LoopInv, WorldTypes
  <2> QED BY <2>1, TellingsAre
<1>5. /\ sent' \in Seq(Mails) /\ Len(sent') = n + 1 /\ sent'[n + 1] = m
      /\ \A k \in 1 .. n : sent'[k] = sent[k]
      /\ pending' \in Seq(Mails) /\ Len(pending') = l + 1 /\ pending'[l + 1] = m
      /\ \A k \in 1 .. l : pending'[k] = pending[k]
  BY <1>1, <1>4
<1> HIDE DEF n, l
<1>6. /\ \A x : x \in ToSet(sent) <=> \E k \in 1 .. n : sent[k] = x
      /\ \A x : x \in ToSet(sent') <=> \E k \in 1 .. n + 1 : sent'[k] = x
      /\ \A x : x \in ToSet(pending) <=> \E k \in 1 .. l : pending[k] = x
      /\ \A x : x \in ToSet(pending') <=> \E k \in 1 .. l + 1 : pending'[k] = x
  <2>1. /\ DOMAIN sent = 1 .. n /\ DOMAIN pending = 1 .. l
        /\ DOMAIN sent' = 1 .. n + 1 /\ DOMAIN pending' = 1 .. l + 1
    BY <1>4, <1>5 DEF n, l
  <2> QED BY <2>1 DEF ToSet
<1>7. /\ 1 .. n + 1 = 1 .. n \cup {n + 1} /\ 1 .. l + 1 = 1 .. l \cup {l + 1}
  BY <1>4
<1>8. /\ ToSet(sent) \subseteq ToSet(sent') /\ m \in ToSet(sent')
      /\ ToSet(pending) \subseteq ToSet(pending') /\ m \in ToSet(pending')
      /\ ToSet(pending') \subseteq ToSet(pending) \cup {m}
  BY <1>5, <1>6, <1>7
<1>9. \A k \in 1 .. n : sent[k] # m
  BY <1>1, <1>6
<1>10. \A i, k \in 1 .. n + 1 : sent'[i] = sent'[k] => i = k
  BY <1>5, <1>7, <1>9 DEF MailInv, n
<1>11. /\ \A k \in 1 .. n : Place(sent, sent[k]) = k
       /\ \A x \in ToSet(sent) : Place(sent, x) \in 1 .. n /\ sent[Place(sent, x)] = x
       /\ \A k \in 1 .. n + 1 : Place(sent', sent'[k]) = k
  <2>1. \A i, k \in 1 .. Len(sent) : sent[i] = sent[k] => i = k
    BY DEF MailInv
  <2>2. \A i, k \in 1 .. Len(sent') : sent'[i] = sent'[k] => i = k
    BY <1>5, <1>10
  <2> QED BY <1>4, <1>5, <2>1, <2>2, PlaceIs DEF n
<1>12. /\ \A x \in ToSet(sent) : Place(sent', x) = Place(sent, x) /\ Place(sent, x) \in 1 .. n
       /\ Place(sent', m) = n + 1
  <2>1. ASSUME NEW x \in ToSet(sent)
        PROVE  Place(sent', x) = Place(sent, x) /\ Place(sent, x) \in 1 .. n
    <3>1. PICK k \in 1 .. n : sent[k] = x
      BY <1>6
    <3>2. k \in 1 .. n + 1 /\ sent'[k] = x
      BY <1>5, <1>7, <3>1
    <3> QED BY <1>11, <3>1, <3>2
  <2>2. n + 1 \in 1 .. n + 1
    BY <1>4
  <2> QED BY <1>5, <1>11, <2>1, <2>2
<1>13. m \notin Told
  <2>1. \A i \in Tellings : \E k \in 1 .. n : journal[i].call = sent[k]
    BY ToldFrom DEF LoopInv, n
  <2> QED BY <1>9, <2>1 DEF Told
<1>14. MailInv'
  <2>1. \A i, k \in 1 .. Len(sent') : sent'[i] = sent'[k] => i = k
    BY <1>5, <1>10
  <2>2. \A i \in Tellings' : LET k == Cardinality({j \in Tellings' : j <= i})
                             IN  k <= Len(sent') /\ journal'[i].call = sent'[k]
    <3> SUFFICES ASSUME NEW i \in Tellings
                 PROVE  LET k == Cardinality({j \in Tellings : j <= i})
                        IN  k <= Len(sent') /\ journal[i].call = sent'[k]
      BY <1>2, <1>3
    <3> DEFINE k == Cardinality({j \in Tellings : j <= i})
    <3>1. k \in 1 .. n /\ journal[i].call = sent[k]
      BY ToldFrom DEF LoopInv, n
    <3> HIDE DEF k
    <3>3. k <= Len(sent') /\ journal[i].call = sent'[k]
      BY <1>4, <1>5, <3>1
    <3> QED BY <3>3 DEF k
  <2>3. Cardinality(Tellings') <= Len(sent')
    BY <1>3, <1>4, <1>5 DEF MailInv, n
  <2>4. \A k \in 1 .. Len(sent') : sent'[k] \in Told' <=> k <= Cardinality(Tellings')
    <3> SUFFICES ASSUME NEW k \in 1 .. n + 1
                 PROVE  sent'[k] \in Told <=> k <= Cardinality(Tellings)
      BY <1>3, <1>5
    <3>1. CASE k \in 1 .. n
      BY <1>5, <3>1 DEF MailInv, n
    <3>2. CASE k = n + 1
      BY <1>4, <1>5, <1>13, <3>2 DEF MailInv, n
    <3> QED BY <1>7, <3>1, <3>2
  <2>5. \A k \in 1 .. Len(sent') : sent'[k] \notin Told' => sent'[k] \in ToSet(pending')
    <3> SUFFICES ASSUME NEW k \in 1 .. n + 1, sent'[k] \notin Told
                 PROVE  sent'[k] \in ToSet(pending')
      BY <1>3, <1>5
    <3>1. CASE k \in 1 .. n
      BY <1>5, <1>8, <3>1 DEF MailInv, n
    <3>2. CASE k = n + 1
      BY <1>5, <1>8, <3>2
    <3> QED BY <1>7, <3>1, <3>2
  <2>6. ToSet(pending') \subseteq ToSet(sent')
    BY <1>8 DEF MailInv
  <2>7. \A i, k \in 1 .. Len(pending') :
          i < k => Place(sent', pending'[i]) < Place(sent', pending'[k])
    <3> SUFFICES ASSUME NEW i \in 1 .. l + 1, NEW k \in 1 .. l + 1, i < k
                 PROVE  Place(sent', pending'[i]) < Place(sent', pending'[k])
      BY <1>5
    <3>1. i \in 1 .. l /\ pending'[i] = pending[i] /\ pending[i] \in ToSet(sent)
      <4>1. i \in 1 .. l
        BY <1>4
      <4>2. pending[i] \in ToSet(pending)
        BY <1>6, <4>1
      <4> QED BY <1>5, <4>1, <4>2 DEF MailInv
    <3>2. CASE k \in 1 .. l
      <4>1. pending'[k] = pending[k] /\ pending[k] \in ToSet(sent)
        <5>1. pending[k] \in ToSet(pending)
          BY <1>6, <3>2
        <5> QED BY <1>5, <3>2, <5>1 DEF MailInv
      <4> QED BY <1>12, <3>1, <3>2, <4>1 DEF MailInv, l
    <3>3. CASE k = l + 1
      BY <1>4, <1>5, <1>12, <3>1, <3>3
    <3> QED BY <1>7, <3>2, <3>3
  <2> QED BY <2>1, <2>2, <2>3, <2>4, <2>5, <2>6, <2>7 DEF MailInv
<1>15. ASSUME NEW q \in Procs
       PROVE  BatchInv(q)'
  <2>1. batch'[q] = batch[q] /\ (Current(q)' => Current(q))
    BY <1>2 DEF Current, HeadExpected
  <2>2. \A i \in 1 .. Len(batch[q]) :
          /\ batch[q][i].mail \in ToSet(sent) /\ batch[q][i].mail \in ToSet(sent')
          /\ Place(sent', batch[q][i].mail) = Place(sent, batch[q][i].mail)
          /\ Place(sent, batch[q][i].mail) \in 1 .. n
          /\ batch[q][i].told => batch[q][i].mail \in Told
    BY <1>8, <1>12 DEF BatchInv
  <2>3. ASSUME Current(q), NEW i \in 1 .. Len(batch[q]), ~batch[q][i].told,
               NEW k \in 1 .. Place(sent', batch[q][i].mail) - 1, sent'[k] \notin Told
        PROVE  \E j \in 1 .. Len(batch[q]) : batch[q][j].mail = sent'[k]
    <3>1. k \in 1 .. Place(sent, batch[q][i].mail) - 1 /\ k \in 1 .. n
      <4>1. k \in Int /\ Place(sent, batch[q][i].mail) <= n
        BY <2>2, <2>3
      <4>2. Place(sent', batch[q][i].mail) = Place(sent, batch[q][i].mail)
        BY <2>2, <2>3
      <4> QED BY <1>4, <2>2, <2>3, <4>1, <4>2, SMTT(30)
    <3>2. sent'[k] = sent[k]
      BY <1>5, <3>1
    <3> QED BY <2>3, <3>1, <3>2 DEF BatchInv
  <2>4. Current(q) => \A i \in 1 .. Len(batch[q]) : ~batch[q][i].told => batch[q][i].mail \notin Told
    BY DEF BatchInv
  <2>5. Current(q) => \A i, k \in 1 .. Len(batch[q]) :
          i < k => Place(sent', batch[q][i].mail) < Place(sent', batch[q][k].mail)
    BY <2>2 DEF BatchInv
  <2> QED BY <1>3, <2>1, <2>2, <2>3, <2>4, <2>5 DEF BatchInv
<1> QED BY <1>14, <1>15

\* A step of one process that is not about mail.
LEMMA MailStep ==
  ASSUME LoopInv, MailInv, \A q \in Procs : BatchInv(q), NEW p \in Procs, Holds(p),
         \A q \in Procs : q # p =>
           pc'[q] = pc[q] /\ known'[q] = known[q] /\ batch'[q] = batch[q],
         sent' = sent, pending' = pending,
         \/ journal' = journal
         \/ \E e \in Event : journal' = Append(journal, e) /\ e.type # "user"
  PROVE  MailInv' /\ \A q \in Procs : BatchInv(q)'
<1>1. Typed
  BY DEF LoopInv
<1>2. \A q \in Procs : q # p => Holds(q)
  BY <1>1, HoldsOther
<1> QED BY <1>1, <1>2, MailKept

LEMMA MailQuiet ==
  ASSUME LoopInv, MailInv, \A q \in Procs : BatchInv(q), NEW p \in Procs, Quiet(p)
  PROVE  MailInv' /\ \A q \in Procs : BatchInv(q)'
<1>1. /\ Moved(p) /\ batch'[p] \in {batch[p], <<>>} /\ pending' = pending /\ sent' = sent
      /\ \/ journal' = journal
         \/ \E e \in Event : journal' = Append(journal, e) /\ e.type # "user"
  BY DEF Quiet
<1>2. /\ Current(p)' => Current(p)
      /\ \A q \in Procs : q # p =>
           pc'[q] = pc[q] /\ known'[q] = known[q] /\ batch'[q] = batch[q]
  BY <1>1 DEF Moved, Others
<1>3. Holds(p)
  BY <1>1, <1>2 DEF Holds
<1> QED BY <1>1, <1>2, <1>3, MailStep

LEMMA MailStart ==
  ASSUME LoopInv, MailInv, \A q \in Procs : BatchInv(q), NEW p \in Procs, Start(p)
  PROVE  MailInv' /\ \A q \in Procs : BatchInv(q)'
<1>1. LocalTypes /\ InPhase(p)
  BY TypedIs DEF LoopInv
<1>2. /\ pc[p] = "down" /\ pc' = [pc EXCEPT ![p] = "repair"]
      /\ known' = [known EXCEPT ![p] = Len(journal)]
      /\ journal' = journal /\ pending' = pending /\ sent' = sent /\ batch' = batch
  BY DEF Start, Goto
<1>3. batch'[p] = <<>>
  BY <1>1, <1>2 DEF InPhase
<1>4. \A q \in Procs : q # p =>
        pc'[q] = pc[q] /\ known'[q] = known[q] /\ batch'[q] = batch[q]
  BY <1>1, <1>2 DEF LocalTypes
<1> QED BY <1>2, <1>3, <1>4, MailStep DEF Holds

\* A process that appends or only goes on keeps its batch.
LEMMA MailWrite ==
  ASSUME LoopInv, MailInv, \A q \in Procs : BatchInv(q), NEW p \in Procs,
         pc[p] \notin {"down", "unwinding"}, NEW e \in Event, Write(p, e), e.type # "user",
         NEW phase \in Phases, pc' = [pc EXCEPT ![p] = phase] \/ pc' = pc,
         sent' = sent, pending' = pending, batch' = batch
  PROVE  MailInv' /\ \A q \in Procs : BatchInv(q)'
<1>1. Typed /\ LocalTypes
  BY TypedIs DEF LoopInv
<1>2. /\ journal' = Append(journal, e) /\ HeadExpected(p)
      /\ \A q \in Procs : q # p => known'[q] = known[q]
  BY <1>1, WroteIs
<1>3. Current(p)
  BY <1>2 DEF Current
<1>4. \A q \in Procs : q # p =>
        pc'[q] = pc[q] /\ known'[q] = known[q] /\ batch'[q] = batch[q]
  BY <1>1, <1>2 DEF LocalTypes
<1> QED BY <1>2, <1>3, <1>4, MailStep DEF Holds

LEMMA MailBeginAction ==
  ASSUME LoopInv, MailInv, \A q \in Procs : BatchInv(q), NEW p \in Procs, BeginAction(p)
  PROVE  MailInv' /\ \A q \in Procs : BatchInv(q)'
<1>1. Typed
  BY DEF LoopInv
<1>2. /\ pc[p] \in {"repair", "act"} /\ pc' = pc
      /\ pending' = pending /\ sent' = sent /\ batch' = batch
  BY DEF BeginAction, Repairing, world
<1>3. PICK i \in 1 .. Len(todo[p]) : Write(p, ActionStarted(todo[p][i].call))
  BY DEF BeginAction
<1>4. todo[p][i].call \in Calls
  <2>1. todo[p][i] \in Task
    BY <1>1, TaskMoves
  <2> QED BY <2>1 DEF Task
<1> DEFINE e == ActionStarted(todo[p][i].call)
<1>5. e \in Event /\ e.type = "action.started" /\ Write(p, e)
  BY <1>1, <1>3, <1>4, StartIs
<1> HIDE DEF e
<1> QED BY <1>2, <1>5, MailWrite DEF Phases

LEMMA MailExecute ==
  ASSUME LoopInv, MailInv, \A q \in Procs : BatchInv(q), NEW p \in Procs, Execute(p)
  PROVE  MailInv' /\ \A q \in Procs : BatchInv(q)'
<1>1. /\ journal' = journal /\ pc' = pc /\ known' = known
      /\ pending' = pending /\ sent' = sent /\ batch' = batch
  BY DEF Execute
<1>2. Holds(p)
  BY <1>1 DEF Holds, Current, HeadExpected
<1> QED BY <1>1, <1>2, MailStep

LEMMA MailCallModel ==
  ASSUME LoopInv, MailInv, \A q \in Procs : BatchInv(q), NEW p \in Procs, CallModel(p)
  PROVE  MailInv' /\ \A q \in Procs : BatchInv(q)'
<1>1. /\ pc[p] = "call" /\ pc' = [pc EXCEPT ![p] = "invoke"] /\ Write(p, StartedEvent)
      /\ pending' = pending /\ sent' = sent /\ batch' = batch
  BY DEF CallModel, Goto, world
<1>2. StartedEvent \in Event /\ StartedEvent.type = "model.started"
  BY EventIs
<1>3. "invoke" \in Phases
  BY DEF Phases
<1> QED BY <1>1, <1>2, <1>3, MailWrite

LEMMA MailInvoke ==
  ASSUME LoopInv, MailInv, \A q \in Procs : BatchInv(q), NEW p \in Procs, Invoke(p)
  PROVE  MailInv' /\ \A q \in Procs : BatchInv(q)'
<1>1. LocalTypes
  BY TypedIs DEF LoopInv
<1>2. /\ pc[p] = "invoke" /\ pc' = [pc EXCEPT ![p] = "answered"] /\ journal' = journal
      /\ known' = known /\ pending' = pending /\ sent' = sent /\ batch' = batch
  BY DEF Invoke, Goto, world
<1>3. Holds(p)
  BY <1>2 DEF Holds, Current, HeadExpected
<1>4. \A q \in Procs : q # p => pc'[q] = pc[q]
  BY <1>1, <1>2 DEF LocalTypes
<1> QED BY <1>2, <1>3, <1>4, MailStep

LEMMA MailRecordMessage ==
  ASSUME LoopInv, MailInv, \A q \in Procs : BatchInv(q), NEW p \in Procs, RecordMessage(p),
         prior[p].calls # <<>>
  PROVE  MailInv' /\ \A q \in Procs : BatchInv(q)'
<1> DEFINE e == AssistantEvent(prior[p].calls)
<1>1. /\ pc[p] = "message" /\ pc' = [pc EXCEPT ![p] = "act"] /\ Write(p, e)
      /\ pending' = pending /\ sent' = sent /\ batch' = batch
  BY DEF RecordMessage, Goto, world
<1>2. prior[p].calls \in Seq(Calls)
  BY TypedIs DEF LoopInv, LocalTypes, Answer
<1>3. e \in Event /\ e.type = "assistant"
  BY <1>2, EventIs
<1> HIDE DEF e
<1>4. "act" \in Phases
  BY DEF Phases
<1> QED BY <1>1, <1>3, <1>4, MailWrite

LEMMA MailForeignWrite ==
  ASSUME LoopInv, MailInv, \A q \in Procs : BatchInv(q), ForeignWrite
  PROVE  MailInv' /\ \A q \in Procs : BatchInv(q)'
<1>1. Typed
  BY DEF LoopInv
<1>2. /\ pc' = pc /\ known' = known /\ batch' = batch /\ pending' = pending /\ sent' = sent
  BY DEF ForeignWrite, local
<1>3. \E e \in Event : /\ journal' = Append(journal, e)
                       /\ e.type # "user" \/ e.call \notin Mails
  BY ForeignIs, AgentLoopAssumption
<1>4. \A q \in Procs : Holds(q)
  BY <1>1, <1>2, <1>3, HoldsOther
<1> QED BY <1>1, <1>2, <1>3, <1>4, MailKept

LEMMA MailInit == Init => MailInv /\ \A q \in Procs : BatchInv(q)
<1> SUFFICES ASSUME Init PROVE MailInv /\ \A q \in Procs : BatchInv(q)
  OBVIOUS
<1>1. /\ journal = <<>> /\ Len(<<>>) = 0 /\ sent = <<>> /\ pending = <<>> /\ 1 .. 0 = {}
      /\ \A q \in Procs : batch[q] = <<>>
  BY DEF Init
<1>2. Tellings = {} /\ ToSet(pending) = {}
  BY <1>1 DEF Tellings, ToSet
<1>3. Cardinality(Tellings) = 0
  BY <1>2, FS_EmptySet
<1>4. MailInv
  BY <1>1, <1>2, <1>3 DEF MailInv
<1>5. \A q \in Procs : BatchInv(q)
  BY <1>1 DEF BatchInv
<1> QED BY <1>4, <1>5

LEMMA MailNext ==
  ASSUME LoopInv, MailInv, \A q \in Procs : BatchInv(q), [Next]_vars
  PROVE  MailInv' /\ \A q \in Procs : BatchInv(q)'
<1>1. CASE UNCHANGED vars
  <2>1. /\ pc' = pc /\ known' = known /\ batch' = batch /\ journal' = journal
        /\ pending' = pending /\ sent' = sent /\ Typed
    BY <1>1 DEF vars, local, LoopInv
  <2>2. \A q \in Procs : Holds(q)
    BY <2>1 DEF Holds, Current, HeadExpected
  <2> QED BY <2>1, <2>2, MailKept
<1>2. ASSUME NEW p \in Procs, Loop(p)
      PROVE  MailInv' /\ \A q \in Procs : BatchInv(q)'
  <2>1. \/ Unremarkable(p)
        \/ Start(p) \/ BeginAction(p) \/ Execute(p) \/ ReadMail(p) \/ DeliverMail(p)
        \/ Acknowledge(p) \/ CallModel(p) \/ Invoke(p)
        \/ RecordMessage(p) /\ prior[p].calls # <<>>
    BY <1>2 DEF Loop, Unremarkable
  <2>2. CASE Unremarkable(p)
    BY <2>2, QuietStep, MailQuiet
  <2> QED
    BY <2>1, <2>2, MailStart, MailBeginAction, MailExecute, MailRead, MailDeliver,
       MailAcknowledge, MailCallModel, MailInvoke, MailRecordMessage
<1> QED BY <1>1, <1>2, MailSend, MailForeignWrite DEF Next

LEMMA MailInvariant == Spec => [](MailInv /\ \A q \in Procs : BatchInv(q))
<1> DEFINE Inv == MailInv /\ \A q \in Procs : BatchInv(q)
<1>1. LoopInv /\ Inv /\ [Next]_vars => Inv'
  BY MailNext
<1>2. Init => Inv
  BY MailInit
<1> HIDE DEF Inv
<1>3. Spec => []Inv
  BY <1>1, <1>2, LoopInvariant, PTL DEF Spec
<1> QED BY <1>3 DEF Inv

-----------------------------------------------------------------------------
(* The theorems.                                                            *)

\* The journal, the mailbox and the memory of each process are typed, and no
\* process takes more turns than its limit, for any number of processes, calls,
\* messages and any bounds.
THEOREM TypeCorrect == Spec => []TypeOK
<1>1. LoopInv => TypeOK
  BY DEF LoopInv, Typed
<1> QED BY <1>1, LoopInvariant, PTL

\* A finished turn is never answered twice, however many processes run the
\* session and whenever they die: between a final answer and the next model
\* call the run ends or a message comes.
THEOREM FinishedTurnAlways == Spec => []FinishedTurnNotReinvoked
<1>1. LoopInv => FinishedTurnNotReinvoked
  BY DEF LoopInv
<1> QED BY <1>1, LoopInvariant, PTL

\* A run only completes on an answer that saw every message, with no action
\* left open.
THEOREM CompletedAlways == Spec => []CompletedIsEarned
<1>1. LoopInv => CompletedIsEarned
  BY DEF LoopInv
<1> QED BY <1>1, LoopInvariant, PTL

\* With a provider that does not repeat call ids, no action is executed twice,
\* and none without its start in the journal.
THEOREM EffectsOnceAlways ==
  ASSUME FreshCalls
  PROVE  Spec => []EffectsAtMostOnce
<1>1. FreshInv => EffectsAtMostOnce
  BY DEF FreshInv
<1> QED BY <1>1, FreshInvariant, PTL

\* With a provider that does not repeat call ids, the model is only called on a
\* journal in which all its actions have their terminal results.
THEOREM ModelSeesClosedAlways ==
  ASSUME FreshCalls
  PROVE  Spec => []ModelSeesClosedActions
<1>1. FreshInv => ModelSeesClosedActions
  BY DEF FreshInv
<1> QED BY <1>1, FreshInvariant, PTL

LEMMA ToldOnce ==
  ASSUME Typed, MailInv
  PROVE  MailOnce
<1>0. sent \in Seq(Mails)
  BY TypedIs DEF WorldTypes
<1>1. ASSUME NEW m \in ToSet(sent), m \notin ToSet(pending)
      PROVE  m \in Told
  <2>1. \E k \in DOMAIN sent : sent[k] = m
    BY <1>1 DEF ToSet
  <2>2. DOMAIN sent = 1 .. Len(sent)
    BY <1>0
  <2> QED BY <1>1, <2>1, <2>2 DEF MailInv
<1> QED BY <1>1 DEF MailOnce, MailInv, Told

\* Mail is received once: what is acknowledged is in the journal, which has
\* each message once and in the order it was sent.
THEOREM MailOnceAlways == Spec => []MailOnce
<1>1. LoopInv /\ MailInv => MailOnce
  BY ToldOnce DEF LoopInv
<1> QED BY <1>1, LoopInvariant, MailInvariant, PTL

\* Any number of processes on one session keep what one process keeps, with a
\* provider that does not repeat call ids.
THEOREM ConcurrentSafetyAlways ==
  ASSUME FreshCalls
  PROVE  Spec => []ConcurrentSafety
<1>1. EffectsAtMostOnce /\ ModelSeesClosedActions /\ CompletedIsEarned /\ MailOnce
        => ConcurrentSafety
  BY DEF ConcurrentSafety
<1> QED
  BY <1>1, EffectsOnceAlways, ModelSeesClosedAlways, CompletedAlways, MailOnceAlways, PTL
=============================================================================
