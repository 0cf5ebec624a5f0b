---------------------------- MODULE AnswerProofs ----------------------------
(***************************************************************************)
(* Proofs about the answers that Context journals: that one which arrived  *)
(* as a stream is what its provider sent, but for what the accumulator has *)
(* no place for, and what the host is told on the way, for any answer and  *)
(* any way of cutting it.                                                  *)
(***************************************************************************)
EXTENDS ContextProofs

-----------------------------------------------------------------------------
(* The body of a stream, without its carriage returns.                      *)

Bared(B) == [x \in B |-> IF x = CR THEN <<>> ELSE <<x>>]
Bare(b, B) == FlatMap(b, Bared(B))

\* Every carriage return is followed by a line feed.
Matched(b) == \A i \in 1 .. Len(b) : b[i] = CR => i < Len(b) /\ b[i + 1] = LF

\* The kinds of bytes differ.
LEMMA KindsDiffer ==
  /\ LF # CR
  /\ \A k : Byte("open", k) # LF /\ Byte("open", k) # CR
  /\ \A k : Byte("close", k) # LF /\ Byte("close", k) # CR
  /\ \A k, j : Byte("open", k) # Byte("close", j)
  /\ Byte("comment", 0) # LF /\ Byte("comment", 0) # CR
<1>1. \A s, t, k, j : Byte(s, k) = Byte(t, j) => s = t
  <2>1. \A s, k : Byte(s, k).kind = s
    BY DEF Byte
  <2> QED BY <2>1
<1>2. "LF" # "CR" /\ "open" # "LF" /\ "open" # "CR" /\ "close" # "LF" /\ "close" # "CR"
      /\ "open" # "close" /\ "comment" # "LF" /\ "comment" # "CR"
  OBVIOUS
<1> QED BY <1>1, <1>2, Zenon DEF LF, CR

\* What is left of joined bytes, and of bytes that hold no carriage return.
LEMMA BareFacts ==
  ASSUME NEW B
  PROVE  /\ Bared(B) \in ToSeqs(B, B)
         /\ \A x \in B : Bared(B)[x] = IF x = CR THEN <<>> ELSE <<x>>
         /\ \A s \in Seq(B) : Bare(s, B) \in Seq(B)
         /\ \A s, t \in Seq(B) : Bare(s \o t, B) = Bare(s, B) \o Bare(t, B)
         /\ \A s \in Seq(B), x \in B : Bare(Append(s, x), B) = Bare(s, B) \o Bared(B)[x]
         /\ Bare(<<>>, B) = <<>>
         /\ \A s \in Seq(B) : (\A i \in 1 .. Len(s) : s[i] # CR) => Bare(s, B) = s
<1> DEFINE F == Bared(B)
<1>1. F \in ToSeqs(B, B) /\ \A x \in B : F[x] = IF x = CR THEN <<>> ELSE <<x>>
  <2>1. \A x \in B : <<x>> \in Seq(B) /\ <<>> \in Seq(B)
    OBVIOUS
  <2>2. [x \in B |-> IF x = CR THEN <<>> ELSE <<x>>] \in [B -> Seq(B)]
    BY <2>1
  <2> QED BY <2>2 DEF Bared, ToSeqs
<1> HIDE DEF F
<1>2. /\ \A s \in Seq(B) : FlatMap(s, F) \in Seq(B)
      /\ \A s \in Seq(B), x \in B : FlatMap(Append(s, x), F) = FlatMap(s, F) \o F[x]
      /\ FlatMap(<<>>, F) = <<>>
  <2>1. <<>> \in Seq(B)
    OBVIOUS
  <2>2. ASSUME NEW s \in Seq(B)
        PROVE  /\ FlatMap(<<>>, F) = <<>> /\ FlatMap(s, F) \in Seq(B)
               /\ \A x \in B : FlatMap(Append(s, x), F) = FlatMap(s, F) \o F[x]
    BY <1>1, FlatMapUnfolds
  <2> QED BY <2>1, <2>2, Zenon
<1>3. \A s, t \in Seq(B) : FlatMap(s \o t, F) = FlatMap(s, F) \o FlatMap(t, F)
  BY <1>1, FlatMapConcat
<1>4. ASSUME NEW s \in Seq(B), \A i \in 1 .. Len(s) : s[i] # CR PROVE FlatMap(s, F) = s
  <2> DEFINE P == {q \in Seq(B) : (\A i \in 1 .. Len(q) : q[i] # CR) => FlatMap(q, F) = q}
  <2>1. <<>> \in P
    BY <1>2
  <2>2. ASSUME NEW q \in Seq(B), NEW x \in B, q \in P PROVE Append(q, x) \in P
    <3>1. /\ Append(q, x) \in Seq(B) /\ Len(q) \in Nat /\ Len(Append(q, x)) = Len(q) + 1
          /\ Append(q, x)[Len(q) + 1] = x /\ \A i \in 1 .. Len(q) : Append(q, x)[i] = q[i]
      OBVIOUS
    <3> SUFFICES ASSUME \A i \in 1 .. Len(Append(q, x)) : Append(q, x)[i] # CR
                 PROVE  FlatMap(Append(q, x), F) = Append(q, x)
      BY <3>1
    <3>2. x # CR /\ \A i \in 1 .. Len(q) : q[i] # CR
      BY <3>1
    <3>3. FlatMap(q, F) = q /\ F[x] = <<x>>
      BY <1>1, <2>2, <3>2
    <3>4. q \o <<x>> = Append(q, x)
      OBVIOUS
    <3> QED BY <1>2, <3>3, <3>4, Zenon
  <2>3. Seq(B) \subseteq P
    <3> HIDE DEF P
    <3> QED BY <2>1, <2>2, SnocInduct
  <2> QED BY <1>4, <2>3
<1> QED BY <1>1, <1>2, <1>3, <1>4, Zenon DEF Bare, F

\* What the reader buffers: all bytes without carriage returns, but for one
\* that may still get its line feed.
LEMMA BufferedAs ==
  ASSUME NEW B, LF \in B, CR \in B, NEW buffer \in Seq(B), NEW piece \in Seq(B), piece # <<>>,
         \A i \in 1 .. Len(buffer \o piece) - 1 :
           (buffer \o piece)[i] = CR => (buffer \o piece)[i + 1] = LF
  PROVE  LET all == buffer \o piece
         IN  Buffered(buffer, piece) =
               IF all[Len(all)] = CR THEN Append(Bare(all, B), CR) ELSE Bare(all, B)
<1> DEFINE all == buffer \o piece
           n == Len(all)
           last == all[n]
           front == SubSeq(all, 1, n - 1)
           F == Bared(B)
           f == [i \in DOMAIN all |->
                  IF all[i] = CR /\ i < n /\ all[i + 1] = LF THEN <<>> ELSE <<all[i]>>]
           g == [i \in DOMAIN front |-> F[front[i]]]
<1>1. all \in Seq(B) /\ n \in Nat /\ n >= 1
  OBVIOUS
<1>2. \A i \in 1 .. n - 1 : all[i] = CR => all[i + 1] = LF
  OBVIOUS
<1>3. Buffered(buffer, piece) = FlattenSeq(f)
  BY Zenon DEF Buffered, all
<1> HIDE DEF all
<1>4. /\ front \in Seq(B) /\ Len(front) = n - 1 /\ last \in B
      /\ \A i \in 1 .. n - 1 : front[i] = all[i]
  <2>0. Len(all) = n /\ last = all[n]
    OBVIOUS
  <2> HIDE DEF n, last
  <2>1. n - 1 \in Nat /\ n - 1 <= Len(all) /\ \A k \in 1 .. n - 1 : k \in 1 .. Len(all)
    BY <1>1, <2>0
  <2>2. front \in Seq(B)
    BY <1>1, <2>1
  <2>3. Len(front) = n - 1
    BY <1>1, <2>1
  <2>4. \A i \in 1 .. n - 1 : front[i] = all[i]
    BY <1>1, <2>1
  <2> QED BY <1>1, <2>0, <2>2, <2>3, <2>4
<1>5. F \in ToSeqs(B, B) /\ \A x \in B : F[x] = IF x = CR THEN <<>> ELSE <<x>>
  BY BareFacts
<1> HIDE DEF front, last, F
<1>6. /\ \A i \in 1 .. n - 1 : f[i] = F[front[i]] /\ front[i] \in B
      /\ f[n] = <<last>> /\ DOMAIN f = 1 .. n
  <2>1. DOMAIN all = 1 .. n /\ LF # CR
    BY <1>1, KindsDiffer
  <2>2. ASSUME NEW i \in 1 .. n - 1 PROVE f[i] = F[front[i]] /\ front[i] \in B
    <3>1. i \in 1 .. n /\ i < n /\ front[i] = all[i] /\ front[i] \in B
      BY <1>1, <1>4
    <3> QED BY <1>2, <1>5, <2>1, <3>1
  <2>3. f[n] = <<last>>
    BY <1>1, <2>1 DEF last
  <2> QED BY <2>1, <2>2, <2>3
<1> HIDE DEF f
<1>7. g \in Seq(Seq(B)) /\ Len(g) = n - 1 /\ \A i \in 1 .. n - 1 : g[i] = F[front[i]]
  <2> DEFINE W == Seq(B)
  <2>1. DOMAIN front = 1 .. n - 1 /\ n - 1 \in Nat
    BY <1>1, <1>4
  <2>2. \A i \in 1 .. n - 1 : F[front[i]] \in W
    BY <1>5, <1>6 DEF ToSeqs
  <2> HIDE DEF W
  <2>3. g = [i \in 1 .. n - 1 |-> F[front[i]]]
    BY <2>1
  <2>4. g \in Seq(W) /\ Len(g) = n - 1 /\ \A i \in 1 .. n - 1 : g[i] = F[front[i]]
    BY <2>1, <2>2, <2>3
  <2> QED BY <2>4 DEF W
<1>8. FlatMap(front, F) = FlattenSeq(g)
  BY DEF FlatMap
<1> HIDE DEF g
<1>9. f = Append(g, <<last>>)
  <2> DEFINE W == Seq(B)
             l == <<last>>
  <2>1. l \in W /\ g \in Seq(W)
    BY <1>4, <1>7
  <2> HIDE DEF f
  <2>2. \A i \in 1 .. n : f[i] = IF i = n THEN l ELSE g[i]
    <3>1. \A i \in 1 .. n : i = n \/ i \in 1 .. n - 1
      BY <1>1
    <3> QED BY <1>6, <1>7, <3>1, Zenon
  <2>0. g \in Seq(W) /\ Len(g) = n - 1
    BY <1>7 DEF W
  <2> HIDE DEF W, l
  <2>3. /\ Append(g, l) \in Seq(W) /\ Len(Append(g, l)) = n
        /\ \A i \in 1 .. n : Append(g, l)[i] = IF i = n THEN l ELSE g[i]
    BY <1>1, <2>0, <2>1
  <2>4. Append(g, l) = [i \in 1 .. n |-> IF i = n THEN l ELSE g[i]]
    <3> DEFINE q == Append(g, l)
    <3>1. q \in Seq(W) /\ Len(q) = n /\ \A i \in 1 .. n : q[i] = IF i = n THEN l ELSE g[i]
      BY <2>3
    <3> HIDE DEF q
    <3>2. q = [i \in 1 .. n |-> q[i]]
      BY <3>1
    <3>3. [i \in 1 .. n |-> q[i]] = [i \in 1 .. n |-> IF i = n THEN l ELSE g[i]]
      BY <3>1, Zenon
    <3> QED BY <3>2, <3>3, Zenon DEF q
  <2>5. f = [i \in 1 .. n |-> f[i]]
    BY <1>3, <1>6 DEF f
  <2>6. f = [i \in 1 .. n |-> IF i = n THEN l ELSE g[i]]
    BY <2>2, <2>5
  <2> QED BY <2>4, <2>6 DEF l
<1>10. FlattenSeq(f) = FlatMap(front, F) \o <<last>>
  <2>1. <<last>> \in Seq(B)
    BY <1>4
  <2> QED BY <1>7, <1>8, <1>9, <2>1, FlattenUnfolds
<1>11. all = Append(front, last)
  <2>1. /\ Append(front, last) \in Seq(B) /\ Len(Append(front, last)) = n
        /\ \A i \in 1 .. n : Append(front, last)[i] = IF i = n THEN last ELSE front[i]
    BY <1>1, <1>4
  <2>2. \A i \in 1 .. n : Append(front, last)[i] = all[i]
    BY <1>1, <1>4, <2>1 DEF last
  <2> QED BY <1>1, <2>1, <2>2, SeqEqual
<1>12. Bare(all, B) = Bare(front, B) \o F[last] /\ Bare(front, B) \in Seq(B)
  BY <1>4, <1>11, BareFacts DEF F
<1>13. Bare(front, B) = FlatMap(front, F)
  BY DEF Bare, F
<1>14. \A s \in Seq(B) : s \o <<>> = s /\ s \o <<last>> = Append(s, last)
  BY <1>4
<1>15. Buffered(buffer, piece) = IF last = CR THEN Append(Bare(all, B), CR) ELSE Bare(all, B)
  BY <1>3, <1>4, <1>5, <1>10, <1>12, <1>13, <1>14
<1> QED BY <1>15 DEF all, last
Line(crlf) == IF crlf THEN <<CR, LF>> ELSE <<LF>>
Sent(k, crlf) == <<Byte("open", k), Byte("close", k)>> \o Line(crlf) \o Line(crlf)

\* Where the bytes of the chunks num[1], num[2] .. are, behind the comment.
Laid(A, m, num) ==
  /\ Len(A) = 4 * m + 3
  /\ A[1] = Byte("comment", 0) /\ A[2] = LF /\ A[3] = LF
  /\ \A k \in 1 .. m : /\ A[4 * k] = Byte("open", num[k]) /\ A[4 * k + 1] = Byte("close", num[k])
                       /\ A[4 * k + 2] = LF /\ A[4 * k + 3] = LF

\* One more chunk behind the others.
LEMMA LaidMore ==
  ASSUME NEW B, NEW A \in Seq(B), NEW m \in Nat, NEW num, Laid(A, m, num),
         NEW e \in Seq(B), e = <<Byte("open", num[m + 1]), Byte("close", num[m + 1]), LF, LF>>
  PROVE  Laid(A \o e, m + 1, num)
<1> DEFINE C == A \o e
           n == 4 * m + 3
<1>1. Len(A) = n /\ Len(e) = 4 /\ n \in Nat
  BY DEF Laid
<1>2. /\ e[1] = Byte("open", num[m + 1]) /\ e[2] = Byte("close", num[m + 1]) /\ e[3] = LF /\ e[4] = LF
  OBVIOUS
<1>3. /\ Len(C) = n + 4
      /\ \A i \in 1 .. n : C[i] = A[i]
      /\ \A i \in 1 .. 4 : C[n + i] = e[i]
  <2> HIDE DEF n
  <2> QED BY <1>1
<1> HIDE DEF C
<1>4. Len(C) = 4 * (m + 1) + 3
  BY <1>3
<1>5. C[1] = Byte("comment", 0) /\ C[2] = LF /\ C[3] = LF
  <2>1. 1 \in 1 .. n /\ 2 \in 1 .. n /\ 3 \in 1 .. n
    OBVIOUS
  <2> QED BY <1>3, <2>1, Zenon DEF Laid
<1>6. ASSUME NEW k \in 1 .. m + 1
      PROVE  /\ C[4 * k] = Byte("open", num[k]) /\ C[4 * k + 1] = Byte("close", num[k])
             /\ C[4 * k + 2] = LF /\ C[4 * k + 3] = LF
  <2>1. CASE k \in 1 .. m
    <3>1. 4 * k \in 1 .. n /\ 4 * k + 1 \in 1 .. n /\ 4 * k + 2 \in 1 .. n /\ 4 * k + 3 \in 1 .. n
      BY <2>1
    <3>2. /\ C[4 * k] = A[4 * k] /\ C[4 * k + 1] = A[4 * k + 1]
          /\ C[4 * k + 2] = A[4 * k + 2] /\ C[4 * k + 3] = A[4 * k + 3]
      BY <1>3, <3>1, Zenon
    <3> QED BY <2>1, <3>2, Zenon DEF Laid
  <2>2. CASE k = m + 1
    <3>1. /\ 4 * k = n + 1 /\ 4 * k + 1 = n + 2 /\ 4 * k + 2 = n + 3 /\ 4 * k + 3 = n + 4
      BY <2>2
    <3>2. 1 \in 1 .. 4 /\ 2 \in 1 .. 4 /\ 3 \in 1 .. 4 /\ 4 \in 1 .. 4
      OBVIOUS
    <3>3. C[n + 1] = e[1] /\ C[n + 2] = e[2] /\ C[n + 3] = e[3] /\ C[n + 4] = e[4]
      BY <1>3, <3>2, Zenon
    <3> QED BY <1>2, <2>2, <3>1, <3>3, Zenon
  <2> QED BY <2>1, <2>2
<1> QED BY <1>4, <1>5, <1>6, Zenon DEF Laid, C

\* Joined bytes match where the parts do.
LEMMA MatchedJoins ==
  ASSUME NEW B, NEW s \in Seq(B), NEW t \in Seq(B), Matched(s), Matched(t)
  PROVE  Matched(s \o t)
<1> DEFINE u == s \o t
<1>1. /\ Len(s) \in Nat /\ Len(t) \in Nat /\ Len(u) = Len(s) + Len(t)
      /\ \A i \in 1 .. Len(s) : u[i] = s[i]
      /\ \A i \in 1 .. Len(t) : u[Len(s) + i] = t[i]
  OBVIOUS
<1> HIDE DEF u
<1> SUFFICES ASSUME NEW i \in 1 .. Len(u), u[i] = CR PROVE i < Len(u) /\ u[i + 1] = LF
  BY DEF Matched, u
<1>2. CASE i \in 1 .. Len(s)
  <2>1. s[i] = CR
    BY <1>1, <1>2
  <2>2. i < Len(s) /\ s[i + 1] = LF
    BY <1>2, <2>1 DEF Matched
  <2>3. i + 1 \in 1 .. Len(s)
    BY <1>1, <1>2, <2>2
  <2> QED BY <1>1, <2>2, <2>3
<1>3. CASE i \notin 1 .. Len(s)
  <2> DEFINE j == i - Len(s)
  <2>1. j \in 1 .. Len(t) /\ i = Len(s) + j
    BY <1>1, <1>3
  <2> HIDE DEF j
  <2>2. t[j] = CR
    BY <1>1, <2>1
  <2>3. j < Len(t) /\ t[j + 1] = LF
    BY <2>1, <2>2 DEF Matched
  <2>4. j + 1 \in 1 .. Len(t) /\ i + 1 = Len(s) + (j + 1)
    BY <1>1, <2>1, <2>3
  <2> QED BY <1>1, <2>1, <2>3, <2>4
<1> QED BY <1>2, <1>3

\* s is t with carriage returns at the ends of some lines.
Carries(s, t, B) == s \in Seq(B) /\ Matched(s) /\ Bare(s, B) = t

\* A chunk's bytes, and the comment's, whatever ends their lines.
LEMMA SentTypes ==
  ASSUME NEW B, LF \in B, CR \in B, NEW crlf \in BOOLEAN, NEW x \in B, NEW y \in B,
         x # CR, y # CR
  PROVE  /\ Carries(<<x>> \o Line(crlf) \o Line(crlf), <<x, LF, LF>>, B)
         /\ Carries(<<x, y>> \o Line(crlf) \o Line(crlf), <<x, y, LF, LF>>, B)
<1>0. LF # CR
  BY KindsDiffer
<1> DEFINE l == Line(crlf)
<1>1. l \in Seq(B) /\ Matched(l) /\ Bare(l, B) = <<LF>>
  <2>1. CASE crlf
    <3>1. l = <<CR, LF>>
      BY <2>1 DEF Line
    <3>2. <<CR, LF>> \in Seq(B) /\ <<CR>> \in Seq(B) /\ <<LF>> \in Seq(B) /\ <<>> \in Seq(B)
      OBVIOUS
    <3>3. Matched(<<CR, LF>>)
      BY <1>0 DEF Matched
    <3>4. <<CR, LF>> = Append(<<CR>>, LF) /\ <<CR>> = Append(<<>>, CR)
      OBVIOUS
    <3>5. Bare(Append(<<>>, CR), B) = Bare(<<>>, B) \o Bared(B)[CR] /\ Bare(<<>>, B) = <<>> /\ Bared(B)[CR] = <<>>
      BY <3>2, BareFacts
    <3>6. Bare(Append(<<CR>>, LF), B) = Bare(<<CR>>, B) \o Bared(B)[LF] /\ Bared(B)[LF] = <<LF>>
      BY <1>0, <3>2, BareFacts
    <3>7. <<>> \o <<>> = <<>> /\ <<>> \o <<LF>> = <<LF>>
      OBVIOUS
    <3> QED BY <3>1, <3>2, <3>3, <3>4, <3>5, <3>6, <3>7, Zenon
  <2>2. CASE ~crlf
    <3>1. l = <<LF>>
      BY <2>2 DEF Line
    <3>2. <<LF>> \in Seq(B) /\ \A i \in 1 .. Len(<<LF>>) : <<LF>>[i] # CR
      BY <1>0
    <3>3. Matched(<<LF>>)
      BY <3>2 DEF Matched
    <3>4. Bare(<<LF>>, B) = <<LF>>
      BY <3>2, BareFacts, Zenon
    <3> QED BY <3>1, <3>2, <3>3, <3>4, Zenon
  <2> QED BY <2>1, <2>2
<1> HIDE DEF l
<1>2. l \o l \in Seq(B) /\ Matched(l \o l) /\ Bare(l \o l, B) = <<LF, LF>>
  <2>1. <<LF>> \o <<LF>> = <<LF, LF>>
    BY TuplesJoin, Zenon
  <2>2. Bare(l \o l, B) = Bare(l, B) \o Bare(l, B)
    BY <1>1, BareFacts
  <2>3. l \o l \in Seq(B) /\ Matched(l \o l)
    BY <1>1, MatchedJoins
  <2> QED BY <1>1, <2>1, <2>2, <2>3
<1>3. ASSUME NEW e \in Seq(B), \A i \in 1 .. Len(e) : e[i] # CR
      PROVE  /\ e \o l \o l \in Seq(B) /\ Matched(e \o l \o l)
             /\ Bare(e \o l \o l, B) = e \o <<LF, LF>>
  <2>1. e \o l \o l = e \o (l \o l)
    BY <1>1
  <2>2. Matched(e) /\ Bare(e, B) = e
    BY <1>3, BareFacts DEF Matched
  <2>3. Bare(e \o (l \o l), B) = Bare(e, B) \o Bare(l \o l, B)
    BY <1>2, BareFacts
  <2> DEFINE m == l \o l
  <2>4. e \o m \in Seq(B) /\ Matched(e \o m)
    <3>1. m \in Seq(B) /\ Matched(m)
      BY <1>2
    <3> HIDE DEF m
    <3> QED BY <2>2, <3>1, MatchedJoins
  <2> QED BY <1>2, <2>1, <2>2, <2>3, <2>4, Zenon
<1>4. /\ <<x>> \in Seq(B) /\ <<x, y>> \in Seq(B)
      /\ \A i \in 1 .. Len(<<x>>) : <<x>>[i] # CR
      /\ \A i \in 1 .. Len(<<x, y>>) : <<x, y>>[i] # CR
      /\ <<x>> \o <<LF, LF>> = <<x, LF, LF>> /\ <<x, y>> \o <<LF, LF>> = <<x, y, LF, LF>>
  <2>1. /\ <<x>> \in Seq(B) /\ <<x, y>> \in Seq(B)
        /\ \A i \in 1 .. Len(<<x>>) : <<x>>[i] # CR
        /\ \A i \in 1 .. Len(<<x, y>>) : <<x, y>>[i] # CR
    OBVIOUS
  <2>2. <<x>> \o <<LF, LF>> = <<x, LF, LF>>
    BY TuplesJoin
  <2>3. <<x, y>> \o <<LF, LF>> = <<x, y, LF, LF>>
    BY TuplesJoin
  <2> QED BY <2>1, <2>2, <2>3
<1>5. /\ <<x>> \o l \o l \in Seq(B) /\ Matched(<<x>> \o l \o l) /\ Bare(<<x>> \o l \o l, B) = <<x, LF, LF>>
  BY <1>3, <1>4
<1>6. /\ <<x, y>> \o l \o l \in Seq(B) /\ Matched(<<x, y>> \o l \o l)
      /\ Bare(<<x, y>> \o l \o l, B) = <<x, y, LF, LF>>
  BY <1>3, <1>4
<1> QED BY <1>5, <1>6, Zenon DEF l, Carries

Numbers(n) == [k \in 1 .. n + 1 |-> IF k = n + 1 THEN 0 ELSE k]

\* The body of n chunks: without its carriage returns it is laid out frame by
\* frame, and each of them is followed by a line feed.
LEMMA BodyLaid ==
  ASSUME NEW n \in Nat, NEW crlf \in BOOLEAN
  PROVE  LET B == BytesOf(n)
         IN  /\ LF \in B /\ CR \in B
             /\ Bytes(n, crlf) \in Seq(B) /\ Matched(Bytes(n, crlf))
             /\ Bare(Bytes(n, crlf), B) = Bytes(n, FALSE)
             /\ Laid(Bytes(n, FALSE), n + 1, Numbers(n))
<1> DEFINE B == BytesOf(n)
           num == Numbers(n)
           Made(c, m) == FlattenSeq([k \in 1 .. m |-> Sent(k, c)])
           U(c, m) == <<Byte("comment", 0)>> \o Line(c) \o Line(c) \o Made(c, m)
<1>1. \A t \in ByteKinds, k \in 0 .. n : Byte(t, k) \in B
  BY DEF Byte, BytesOf
<1>2. LF \in B /\ CR \in B /\ Byte("comment", 0) \in B
      /\ \A k \in 0 .. n : Byte("open", k) \in B /\ Byte("close", k) \in B
  <2>1. 0 \in 0 .. n /\ "LF" \in ByteKinds /\ "CR" \in ByteKinds /\ "comment" \in ByteKinds
        /\ "open" \in ByteKinds /\ "close" \in ByteKinds
    BY DEF ByteKinds
  <2> QED BY <1>1, <2>1, Zenon DEF LF, CR
<1>3. \A k \in 1 .. n : num[k] = k
  BY DEF Numbers
<1>4. num[n + 1] = 0
  BY DEF Numbers
<1> HIDE DEF B, num
<1>5. \A c \in BOOLEAN, k \in 0 .. n :
        /\ Sent(k, c) \in Seq(B) /\ Matched(Sent(k, c))
        /\ Bare(Sent(k, c), B) = <<Byte("open", k), Byte("close", k), LF, LF>>
  <2> SUFFICES ASSUME NEW c \in BOOLEAN, NEW k \in 0 .. n
               PROVE  /\ Sent(k, c) \in Seq(B) /\ Matched(Sent(k, c))
                      /\ Bare(Sent(k, c), B) = <<Byte("open", k), Byte("close", k), LF, LF>>
    OBVIOUS
  <2>1. Byte("open", k) \in B /\ Byte("close", k) \in B /\ Byte("open", k) # CR /\ Byte("close", k) # CR
    BY <1>2, KindsDiffer, Zenon
  <2> DEFINE x == Byte("open", k)
             y == Byte("close", k)
  <2> HIDE DEF x, y
  <2>2. x \in B /\ y \in B /\ x # CR /\ y # CR
    BY <2>1 DEF x, y
  <2>3. Carries(<<x, y>> \o Line(c) \o Line(c), <<x, y, LF, LF>>, B)
    BY <1>2, <2>2, SentTypes
  <2> QED BY <2>3, Zenon DEF x, y, Sent, Carries
<1>6. \A c \in BOOLEAN :
        Carries(<<Byte("comment", 0)>> \o Line(c) \o Line(c), <<Byte("comment", 0), LF, LF>>, B)
  <2> DEFINE x == Byte("comment", 0)
  <2>1. x \in B /\ x # CR
    BY <1>2, KindsDiffer, Zenon
  <2> HIDE DEF x
  <2>2. ASSUME NEW c \in BOOLEAN
        PROVE  Carries(<<x>> \o Line(c) \o Line(c), <<x, LF, LF>>, B)
    BY <1>2, <2>1, SentTypes
  <2> QED BY <2>2 DEF x
<1>7. \A c \in BOOLEAN : \A m \in 0 .. n :
        /\ Made(c, m) \in Seq(B)
        /\ m + 1 \in 0 .. n => Made(c, m + 1) = Made(c, m) \o Sent(m + 1, c)
  <2> SUFFICES ASSUME NEW c \in BOOLEAN, NEW m \in 0 .. n
               PROVE  /\ Made(c, m) \in Seq(B)
                      /\ m + 1 \in 0 .. n => Made(c, m + 1) = Made(c, m) \o Sent(m + 1, c)
    OBVIOUS
  <2> DEFINE W == Seq(B)
             f == [k \in 1 .. m |-> Sent(k, c)]
             g == [k \in 1 .. m + 1 |-> Sent(k, c)]
  <2>1. \A k \in 0 .. n : Sent(k, c) \in W
    BY <1>5
  <2> HIDE DEF W
  <2>2. f \in Seq(W) /\ Len(f) = m
    BY <2>1
  <2>3. ASSUME m + 1 \in 0 .. n PROVE g = Append(f, Sent(m + 1, c))
    <3> DEFINE e == Sent(m + 1, c)
    <3>1. e \in W
      BY <2>1, <2>3
    <3>2. \A k \in 1 .. m + 1 : Sent(k, c) = IF k = m + 1 THEN e ELSE f[k]
      OBVIOUS
    <3> HIDE DEF e, f
    <3>3. /\ Append(f, e) \in Seq(W) /\ Len(Append(f, e)) = m + 1
          /\ \A k \in 1 .. m + 1 : Append(f, e)[k] = IF k = m + 1 THEN e ELSE f[k]
      BY <2>2, <3>1
    <3>4. g \in Seq(W) /\ Len(g) = m + 1 /\ \A k \in 1 .. m + 1 : g[k] = Sent(k, c)
      BY <2>1, <2>3
    <3> HIDE DEF g
    <3>5. \A k \in 1 .. m + 1 : g[k] = Append(f, e)[k]
      BY <3>2, <3>3, <3>4
    <3> QED BY <3>3, <3>4, <3>5, SeqEqual DEF e
  <2> HIDE DEF f, g
  <2>4. FlattenSeq(f) \in Seq(B) /\ \A t \in Seq(B) : FlattenSeq(Append(f, t)) = FlattenSeq(f) \o t
    BY <2>2, FlattenUnfolds DEF W
  <2>5. m + 1 \in 0 .. n => FlattenSeq(g) = FlattenSeq(f) \o Sent(m + 1, c)
    BY <1>5, <2>3, <2>4
  <2> QED BY <2>4, <2>5 DEF f, g
<1> HIDE DEF Made
<1> DEFINE Ok(u, v, m) == /\ u \in Seq(B) /\ v \in Seq(B) /\ Matched(u) /\ Bare(u, B) = v
                       /\ Laid(v, m, num)
<1>8. ASSUME NEW u, NEW v, NEW m \in Nat, Ok(u, v, m), NEW c \in BOOLEAN, NEW k \in 0 .. n,
             num[m + 1] = k
      PROVE  Ok(u \o Sent(k, c), v \o Sent(k, FALSE), m + 1)
  <2> DEFINE e == <<Byte("open", k), Byte("close", k), LF, LF>>
  <2>1. Sent(k, c) \in Seq(B) /\ Matched(Sent(k, c)) /\ Bare(Sent(k, c), B) = e
    BY <1>5
  <2>2. Sent(k, FALSE) = e
    <3>1. Sent(k, FALSE) \in Seq(B) /\ Bare(Sent(k, FALSE), B) = e
      BY <1>5
    <3> DEFINE x == Byte("open", k)
               y == Byte("close", k)
    <3>2. Sent(k, FALSE) = <<x, y>> \o <<LF>> \o <<LF>>
      BY DEF Sent, Line
    <3> HIDE DEF x, y
    <3>3. <<x, y>> \o <<LF>> \o <<LF>> = <<x, y, LF, LF>>
      <4>1. <<x, y>> \o <<LF>> = <<x, y, LF>>
        BY TuplesJoin
      <4>2. <<x, y, LF>> \o <<LF>> = <<x, y, LF, LF>>
        BY TuplesJoin
      <4> QED BY <4>1, <4>2, Zenon
    <3> QED BY <3>2, <3>3 DEF x, y
  <2>3. e \in Seq(B)
    BY <1>5, <2>2
  <2> HIDE DEF e
  <2>4. Matched(u \o Sent(k, c)) /\ u \o Sent(k, c) \in Seq(B) /\ v \o e \in Seq(B)
    BY <1>8, <2>1, <2>3, MatchedJoins
  <2>5. Bare(u \o Sent(k, c), B) = v \o e
    BY <1>8, <2>1, BareFacts
  <2>6. Laid(v \o e, m + 1, num)
    BY <1>8, <2>3, LaidMore DEF e
  <2> QED BY <2>2, <2>4, <2>5, <2>6
<1> HIDE DEF Ok
<1>9. ASSUME NEW c \in BOOLEAN PROVE Ok(U(c, 0), U(FALSE, 0), 0)
  <2>1. \A d \in BOOLEAN : Made(d, 0) = <<>>
    <3>1. [k \in 1 .. 0 |-> Sent(k, TRUE)] = <<>> /\ [k \in 1 .. 0 |-> Sent(k, FALSE)] = <<>>
      OBVIOUS
    <3>2. \A d \in BOOLEAN : [k \in 1 .. 0 |-> Sent(k, d)] = <<>>
      OBVIOUS
    <3>3. <<>> \in Seq(Seq(B))
      OBVIOUS
    <3>4. FlattenSeq(<<>>) = <<>>
      BY <3>3, FlattenUnfolds
    <3> QED BY <3>2, <3>4 DEF Made
  <2> DEFINE a(d) == <<Byte("comment", 0)>> \o Line(d) \o Line(d)
             x == Byte("comment", 0)
  <2>2. \A d \in BOOLEAN : a(d) \in Seq(B) /\ Matched(a(d)) /\ Bare(a(d), B) = <<x, LF, LF>>
    BY <1>6, Zenon DEF Carries
  <2>3. \A d \in BOOLEAN : U(d, 0) = a(d) \o <<>>
    BY <2>1, Zenon
  <2>4. a(FALSE) = <<x, LF, LF>>
    <3>1. a(FALSE) = <<x>> \o <<LF>> \o <<LF>>
      BY DEF Line
    <3> HIDE DEF x
    <3>2. <<x>> \o <<LF>> \o <<LF>> = <<x, LF, LF>>
      <4>1. <<x>> \o <<LF>> = <<x, LF>>
        BY TuplesJoin
      <4>2. <<x, LF>> \o <<LF>> = <<x, LF, LF>>
        BY TuplesJoin
      <4> QED BY <4>1, <4>2, Zenon
    <3> QED BY <3>1, <3>2
  <2> HIDE DEF a, U
  <2>5. \A d \in BOOLEAN : U(d, 0) = a(d)
    <3>1. \A w \in Seq(B) : w \o <<>> = w
      OBVIOUS
    <3> QED BY <2>2, <2>3, <3>1
  <2>6. Laid(<<x, LF, LF>>, 0, num)
    <3> DEFINE A == <<x, LF, LF>>
    <3>1. Len(A) = 3 /\ A[1] = x /\ A[2] = LF /\ A[3] = LF /\ 1 .. 0 = {} /\ 4 * 0 + 3 = 3
      OBVIOUS
    <3> HIDE DEF A
    <3> QED BY <3>1, Zenon DEF Laid, x, A
  <2> HIDE DEF x
  <2> QED BY <2>2, <2>4, <2>5, <2>6 DEF Ok
<1>10. ASSUME NEW c \in BOOLEAN, NEW m \in Nat, m + 1 <= n, Ok(U(c, m), U(FALSE, m), m)
       PROVE  Ok(U(c, m + 1), U(FALSE, m + 1), m + 1)
  <2>1. m \in 0 .. n /\ m + 1 \in 0 .. n /\ m + 1 \in 1 .. n
    BY <1>10
  <2>2. \A d \in BOOLEAN : U(d, m + 1) = U(d, m) \o Sent(m + 1, d)
    <3> SUFFICES ASSUME NEW d \in BOOLEAN PROVE U(d, m + 1) = U(d, m) \o Sent(m + 1, d)
      OBVIOUS
    <3> DEFINE a == <<Byte("comment", 0)>> \o Line(d) \o Line(d)
    <3>1. a \in Seq(B)
      BY <1>6, Zenon DEF Carries
    <3> HIDE DEF a
    <3>2. /\ Made(d, m) \in Seq(B) /\ Sent(m + 1, d) \in Seq(B)
          /\ Made(d, m + 1) = Made(d, m) \o Sent(m + 1, d)
      BY <1>5, <1>7, <2>1
    <3>3. a \o (Made(d, m) \o Sent(m + 1, d)) = (a \o Made(d, m)) \o Sent(m + 1, d)
      BY <3>1, <3>2
    <3>4. U(d, m + 1) = a \o Made(d, m + 1) /\ U(d, m) = a \o Made(d, m)
      BY DEF a
    <3> QED BY <3>2, <3>3, <3>4, Zenon
  <2>3. num[m + 1] = m + 1
    BY <1>3, <2>1
  <2> HIDE DEF U
  <2>4. Ok(U(c, m) \o Sent(m + 1, c), U(FALSE, m) \o Sent(m + 1, FALSE), m + 1)
    BY <1>8, <1>10, <2>1, <2>3, Zenon
  <2> QED BY <2>2, <2>4
<1> DEFINE Q == {m \in Nat : m <= n => Ok(U(crlf, m), U(FALSE, m), m)}
<1>11. Nat \subseteq Q
  <2> HIDE DEF U
  <2>1. 0 \in Q
    BY <1>9
  <2>2. ASSUME NEW m \in Nat, m \in Q PROVE m + 1 \in Q
    <3>0. m + 1 \in Nat
      OBVIOUS
    <3> SUFFICES ASSUME m + 1 <= n PROVE Ok(U(crlf, m + 1), U(FALSE, m + 1), m + 1)
      BY <3>0, Zenon
    <3>1. m <= n
      <4> HIDE DEF Q
      <4> QED OBVIOUS
    <3>2. Ok(U(crlf, m), U(FALSE, m), m)
      BY <2>2, <3>1, Zenon
    <3> QED BY <1>10, <3>2, Zenon
  <2> HIDE DEF Q
  <2> QED BY <2>1, <2>2, NatInduct
<1>12. Ok(U(crlf, n), U(FALSE, n), n)
  <2> HIDE DEF U
  <2>1. n \in Q /\ n <= n
    <3> HIDE DEF Q
    <3> QED BY <1>11
  <2> QED BY <2>1
<1>13. Ok(U(crlf, n) \o Sent(0, crlf), U(FALSE, n) \o Sent(0, FALSE), n + 1)
  <2>1. 0 \in 0 .. n
    OBVIOUS
  <2> HIDE DEF U
  <2> QED BY <1>4, <1>8, <1>12, <2>1
<1>14. \A c \in BOOLEAN : Bytes(n, c) = U(c, n) \o Sent(0, c)
  BY Zenon DEF Bytes, Made, Sent, Line
<1> HIDE DEF U
<1> QED BY <1>2, <1>13, <1>14 DEF Ok, B, num

\* A number divided by four.
LEMMA Quarters ==
  \A i \in Nat : \E k \in Nat : 4 * k <= i /\ i <= 4 * k + 3
<1> DEFINE P == {i \in Nat : \E k \in Nat : 4 * k <= i /\ i <= 4 * k + 3}
<1>1. 0 \in P
  <2>1. 4 * 0 <= 0 /\ 0 <= 4 * 0 + 3 /\ 0 \in Nat
    OBVIOUS
  <2> QED BY <2>1
<1>2. ASSUME NEW i \in Nat, i \in P PROVE i + 1 \in P
  <2>1. PICK k \in Nat : 4 * k <= i /\ i <= 4 * k + 3
    BY <1>2
  <2>2. CASE i < 4 * k + 3
    BY <2>1, <2>2
  <2>3. CASE i = 4 * k + 3
    <3> DEFINE q == k + 1
    <3>1. q \in Nat /\ 4 * q <= i + 1 /\ i + 1 <= 4 * q + 3
      BY <2>3
    <3> HIDE DEF q
    <3> QED BY <3>1
  <2> QED BY <2>1, <2>2, <2>3
<1>3. Nat \subseteq P
  <2> HIDE DEF P
  <2> QED BY <1>1, <1>2, NatInduct
<1> QED BY <1>3

\* Where the lines end.
LEMMA LaidLines ==
  ASSUME NEW A, NEW m \in Nat, NEW num, Laid(A, m, num)
  PROVE  \A i \in 1 .. Len(A) :
           /\ A[i] # CR
           /\ A[i] = LF <=> \E k \in 0 .. m : i = 4 * k + 2 \/ i = 4 * k + 3
<1>0. Len(A) = 4 * m + 3
  BY DEF Laid
<1> SUFFICES ASSUME NEW i \in 1 .. Len(A)
             PROVE  /\ A[i] # CR
                    /\ A[i] = LF <=> \E k \in 0 .. m : i = 4 * k + 2 \/ i = 4 * k + 3
  OBVIOUS
<1>1. PICK k \in Nat : 4 * k <= i /\ i <= 4 * k + 3
  <2>1. i \in Nat
    BY <1>0
  <2> QED BY <2>1, Quarters
<1>2. k \in 0 .. m
  BY <1>0, <1>1
<1>3. CASE i = 4 * k + 2 \/ i = 4 * k + 3
  <2>1. A[i] = LF
    <3>1. CASE k = 0
      <4>1. i = 2 \/ i = 3
        BY <1>3, <3>1
      <4> QED BY <4>1 DEF Laid
    <3>2. CASE k # 0
      <4>1. k \in 1 .. m
        BY <1>2, <3>2
      <4> QED BY <1>3, <4>1 DEF Laid
    <3> QED BY <3>1, <3>2
  <2> QED BY <1>2, <1>3, <2>1, KindsDiffer
<1>4. CASE i = 4 * k \/ i = 4 * k + 1
  <2>1. \A j \in 0 .. m : ~(i = 4 * j + 2 \/ i = 4 * j + 3)
    BY <1>1, <1>4
  <2>2. A[i] # LF /\ A[i] # CR
    <3>1. CASE k = 0
      <4>1. i = 1
        BY <1>4, <3>1
      <4> QED BY <4>1, KindsDiffer, Zenon DEF Laid
    <3>2. CASE k # 0
      <4>1. k \in 1 .. m
        BY <1>2, <3>2
      <4>2. A[4 * k] = Byte("open", num[k]) /\ A[4 * k + 1] = Byte("close", num[k])
        BY <4>1 DEF Laid
      <4> QED BY <1>4, <4>2, KindsDiffer, Zenon
    <3> QED BY <3>1, <3>2
  <2> QED BY <2>1, <2>2
<1>5. i = 4 * k \/ i = 4 * k + 1 \/ i = 4 * k + 2 \/ i = 4 * k + 3
  BY <1>1
<1> QED BY <1>3, <1>4, <1>5

\* Where frame k begins, what is in it, and bytes that may end in half a line end.
FrameStart(k) == IF k = 0 THEN 1 ELSE 4 * k
FrameOf(A, k) == SubSeq(A, FrameStart(k), 4 * k + 1)
Halved(c, half) == IF half THEN Append(c, CR) ELSE c

\* A part of a sequence.
LEMMA PartFacts ==
  ASSUME NEW B, NEW s \in Seq(B), NEW a \in Nat, NEW e \in Int, a >= 1, e >= a - 1, e <= Len(s)
  PROVE  /\ SubSeq(s, a, e) \in Seq(B) /\ Len(SubSeq(s, a, e)) = e - a + 1
         /\ \A i \in 1 .. e - a + 1 : SubSeq(s, a, e)[i] = s[a - 1 + i]
<1>1. \A i \in a .. e : i \in 1 .. Len(s)
  OBVIOUS
<1>2. SubSeq(s, a, e) \in Seq(B)
  BY <1>1
<1>3. Len(SubSeq(s, a, e)) = e - a + 1
  OBVIOUS
<1>4. \A i \in 1 .. e - a + 1 : SubSeq(s, a, e)[i] = s[a - 1 + i]
  OBVIOUS
<1> QED BY <1>2, <1>3, <1>4

\* A part of a part, and the part after an element.
LEMMA PartOfPart ==
  ASSUME NEW B, NEW s \in Seq(B), NEW t \in Seq(B), NEW o \in Nat,
         NEW a \in Nat, NEW e \in Int, a >= 1, e >= a - 1, e <= Len(t), o + e <= Len(s),
         \A i \in a .. e : t[i] = s[o + i]
  PROVE  SubSeq(t, a, e) = SubSeq(s, o + a, o + e)
<1> DEFINE u == SubSeq(t, a, e)
           v == SubSeq(s, o + a, o + e)
<1>1. u \in Seq(B) /\ Len(u) = e - a + 1 /\ \A i \in 1 .. e - a + 1 : u[i] = t[a - 1 + i]
  BY PartFacts
<1>2. v \in Seq(B) /\ Len(v) = e - a + 1 /\ \A i \in 1 .. e - a + 1 : v[i] = s[o + a - 1 + i]
  <2> DEFINE x == o + a
             y == o + e
  <2>1. x \in Nat /\ y \in Int /\ x >= 1 /\ y >= x - 1 /\ y <= Len(s)
    OBVIOUS
  <2>2. y - x + 1 = e - a + 1
    OBVIOUS
  <2> HIDE DEF x, y
  <2>3. /\ SubSeq(s, x, y) \in Seq(B) /\ Len(SubSeq(s, x, y)) = y - x + 1
        /\ \A i \in 1 .. y - x + 1 : SubSeq(s, x, y)[i] = s[x - 1 + i]
    BY <2>1, PartFacts
  <2> QED BY <2>2, <2>3 DEF x, y
<1> HIDE DEF u, v
<1>3. \A i \in 1 .. e - a + 1 : u[i] = v[i]
  <2> SUFFICES ASSUME NEW i \in 1 .. e - a + 1 PROVE u[i] = v[i]
    OBVIOUS
  <2>1. a - 1 + i \in a .. e /\ o + (a - 1 + i) = o + a - 1 + i
    OBVIOUS
  <2> QED BY <1>1, <1>2, <2>1
<1> QED BY <1>1, <1>2, <1>3, SeqEqual DEF u, v

\* The frames from k on that are complete at p, and what follows them.
Framed(split, A, m, k, p, half) ==
  \E j \in k .. m + 1 :
    /\ 4 * j - 1 <= p /\ p <= 4 * j + 2
    /\ split.events = [i \in 1 .. j - k |-> FrameOf(A, k + i - 1)]
    /\ split.rest = Halved(SubSeq(A, FrameStart(j), p), half)

\* A buffer that begins with frame k and holds the bytes up to p is split into
\* the frames that are complete and what follows them.
LEMMA SplitLaid ==
  ASSUME NEW B, CR \in B, NEW A \in Seq(B), NEW m \in Nat, NEW num, Laid(A, m, num),
         NEW k \in Nat, NEW p \in Nat, FrameStart(k) - 1 <= p, p <= Len(A),
         NEW half \in BOOLEAN, NEW b, b = Halved(SubSeq(A, FrameStart(k), p), half)
  PROVE  Framed(SplitEvents(b), A, m, k, p, half)
<1> DEFINE s == FrameStart(k)
           q == p - s + 1
           n == IF half THEN q + 1 ELSE q
           c == SubSeq(A, s, p)
<1>1. /\ s \in Nat /\ s >= 1 /\ q \in Nat /\ n \in Nat /\ Len(A) = 4 * m + 3 /\ Len(A) \in Nat
      /\ q = p - s + 1 /\ s - 1 <= p /\ p <= Len(A)
  BY DEF FrameStart, Laid
<1>2. c \in Seq(B) /\ Len(c) = q /\ \A i \in 1 .. q : c[i] = A[s - 1 + i]
  <2> HIDE DEF s
  <2>1. p \in Int /\ s >= 1 /\ p >= s - 1 /\ p <= Len(A)
    BY <1>1
  <2> QED BY <1>1, <2>1, PartFacts
<1> HIDE DEF s, q, c
<1>3. /\ b \in Seq(B) /\ Len(b) = n
      /\ \A i \in 1 .. q : b[i] = A[s - 1 + i]
      /\ half => b[q + 1] = CR
  <2>1. b = IF half THEN Append(c, CR) ELSE c
    BY DEF Halved, s, c
  <2>2. CASE half
    <3>1. Append(c, CR) \in Seq(B) /\ Len(Append(c, CR)) = q + 1 /\ Append(c, CR)[q + 1] = CR
          /\ \A i \in 1 .. q : Append(c, CR)[i] = c[i]
      BY <1>1, <1>2
    <3> QED BY <1>2, <2>1, <2>2, <3>1
  <2>3. CASE ~half
    BY <1>2, <2>1, <2>3
  <2> QED BY <2>2, <2>3
<1>4. n \in {q, q + 1} /\ (n = q + 1 => half) /\ (half => n = q + 1)
  <2>1. CASE half
    BY <2>1
  <2>2. CASE ~half
    <3>1. n = q /\ q # q + 1
      BY <1>1, <2>2
    <3> QED BY <2>2, <3>1
  <2> QED BY <2>1, <2>2
<1> HIDE DEF n
<1>5. PICK j \in Nat : 4 * j <= p + 1 /\ p + 1 <= 4 * j + 3
  <2>1. p + 1 \in Nat
    OBVIOUS
  <2> QED BY <2>1, Quarters
<1>6. j \in k .. m + 1 /\ 4 * j - 1 <= p /\ p <= 4 * j + 2
  BY <1>1, <1>5 DEF FrameStart, s
<1> DEFINE Pos(t) == FrameStart(t) - s + 1
           End(t) == 4 * t + 2 - s + 1
<1>7. \A t \in k .. j : Pos(t) \in 1 .. n + 1 /\ Pos(t) >= 1 /\ Pos(t) - 1 <= q /\ Pos(t) \in Nat
  BY <1>1, <1>4, <1>5, <1>6 DEF FrameStart, s
<1>8. \A i \in 1 .. q : /\ s - 1 + i \in 1 .. Len(A)
                        /\ A[s - 1 + i] = LF => \E u \in 0 .. m : s - 1 + i = 4 * u + 2 \/ s - 1 + i = 4 * u + 3
  <2> SUFFICES ASSUME NEW i \in 1 .. q
               PROVE  /\ s - 1 + i \in 1 .. Len(A)
                      /\ A[s - 1 + i] = LF => \E u \in 0 .. m : s - 1 + i = 4 * u + 2 \/ s - 1 + i = 4 * u + 3
    OBVIOUS
  <2> DEFINE a == s - 1 + i
  <2>1. a \in 1 .. Len(A)
    BY <1>1
  <2> HIDE DEF a
  <2>2. A[a] = LF => \E u \in 0 .. m : a = 4 * u + 2 \/ a = 4 * u + 3
    <3>1. \A x \in 1 .. Len(A) :
            A[x] # CR /\ (A[x] = LF <=> \E u \in 0 .. m : x = 4 * u + 2 \/ x = 4 * u + 3)
      BY LaidLines
    <3> QED BY <2>1, <3>1, Zenon
  <2> QED BY <2>1, <2>2 DEF a
<1>9. ASSUME NEW i \in Nat, i >= 1, i <= n - 1, b[i] = LF, b[i + 1] = LF
      PROVE  \E u \in 0 .. m : i = End(u) /\ i + 1 <= q
  <2>1. i + 1 <= q
    <3>1. ~(half /\ i + 1 = q + 1)
      BY <1>3, <1>9, KindsDiffer
    <3> QED BY <1>1, <1>4, <1>9, <3>1
  <2>2. i \in 1 .. q /\ i + 1 \in 1 .. q
    BY <1>1, <1>9, <2>1
  <2>3. A[s - 1 + i] = LF /\ A[s - 1 + (i + 1)] = LF
    BY <1>3, <1>9, <2>2
  <2>4. PICK u \in 0 .. m : s - 1 + i = 4 * u + 2 \/ s - 1 + i = 4 * u + 3
    BY <1>8, <2>2, <2>3
  <2>5. PICK v \in 0 .. m : s - 1 + (i + 1) = 4 * v + 2 \/ s - 1 + (i + 1) = 4 * v + 3
    BY <1>8, <2>2, <2>3
  <2>6. i = End(u)
    BY <1>1, <2>4, <2>5
  <2> QED BY <2>1, <2>6
<1>10. BlanksFrom(b, Pos(j)) = {}
  <2> SUFFICES ASSUME NEW i \in BlanksFrom(b, Pos(j)) PROVE FALSE
    OBVIOUS
  <2> DEFINE pj == Pos(j)
  <2>0. pj \in Nat /\ pj >= 1 /\ pj = FrameStart(j) - s + 1
    BY <1>6, <1>7
  <2> HIDE DEF pj
  <2>1. i \in Nat /\ i >= pj /\ i >= 1 /\ i <= n - 1 /\ b[i] = LF /\ b[i + 1] = LF
    <3>1. i \in BlanksFrom(b, pj)
      BY DEF pj
    <3> QED BY <1>1, <1>3, <2>0, <3>1 DEF BlanksFrom
  <2>2. PICK u \in 0 .. m : i = End(u) /\ i + 1 <= q
    BY <1>9, <2>1
  <2> QED BY <1>1, <1>6, <2>0, <2>1, <2>2 DEF FrameStart
<1>11. ASSUME NEW t \in k .. j - 1
       PROVE  /\ BlanksFrom(b, Pos(t)) # {} /\ Min(BlanksFrom(b, Pos(t))) = End(t)
              /\ End(t) + 2 = Pos(t + 1) /\ End(t) + 1 <= q /\ End(t) >= Pos(t)
  <2> DEFINE pt == Pos(t)
             et == End(t)
  <2>0. /\ pt \in Nat /\ pt >= 1 /\ pt = FrameStart(t) - s + 1 /\ pt \in 1 .. n + 1
        /\ t \in k .. j
    BY <1>6, <1>7
  <2>1. et \in Nat /\ et >= pt /\ et + 1 <= q /\ et + 2 = Pos(t + 1) /\ et <= n - 1 /\ et >= 1 /\ et + 1 >= 1
    BY <1>1, <1>4, <1>5, <1>6, <2>0 DEF FrameStart
  <2>2. b[et] = LF /\ b[et + 1] = LF
    <3>1. et \in 1 .. q /\ et + 1 \in 1 .. q
      <4> HIDE DEF et
      <4> QED BY <1>1, <2>1
    <3>2. t \in 0 .. m /\ s - 1 + et = 4 * t + 2 /\ s - 1 + (et + 1) = 4 * t + 3
      BY <1>1, <1>6
    <3>3. A[4 * t + 2] = LF /\ A[4 * t + 3] = LF
      <4>1. 4 * t + 2 \in 1 .. Len(A) /\ 4 * t + 3 \in 1 .. Len(A)
        BY <1>1, <3>2
      <4> QED BY <3>2, <4>1, LaidLines
    <3> HIDE DEF et
    <3> QED BY <1>3, <3>1, <3>2, <3>3
  <2> HIDE DEF pt, et
  <2>3. et \in BlanksFrom(b, pt)
    BY <1>1, <1>3, <2>0, <2>1, <2>2 DEF BlanksFrom
  <2>4. \A i \in BlanksFrom(b, pt) : i >= et /\ i \in Int
    <3> SUFFICES ASSUME NEW i \in BlanksFrom(b, pt) PROVE i >= et /\ i \in Int
      OBVIOUS
    <3>1. i \in Nat /\ i >= pt /\ i >= 1 /\ i <= n - 1 /\ b[i] = LF /\ b[i + 1] = LF
      BY <1>1, <1>3, <2>0 DEF BlanksFrom
    <3>2. PICK u \in 0 .. m : i = End(u) /\ i + 1 <= q
      BY <1>9, <3>1
    <3> QED BY <1>1, <2>0, <3>1, <3>2 DEF FrameStart, et
  <2>5. /\ Min(BlanksFrom(b, pt)) \in BlanksFrom(b, pt)
        /\ \A i \in BlanksFrom(b, pt) : Min(BlanksFrom(b, pt)) <= i
    <3>1. pt \in 1 .. Len(b) + 1 /\ BlanksFrom(b, pt) # {}
      BY <1>3, <2>0, <2>3
    <3> QED BY <1>3, <3>1, SplitUnfolds
  <2> DEFINE least == Min(BlanksFrom(b, pt))
  <2>6. least = et
    <3>1. least \in BlanksFrom(b, pt) /\ least <= et
      BY <2>3, <2>5
    <3> HIDE DEF least
    <3>2. least >= et /\ least \in Int
      BY <2>4, <3>1
    <3> QED BY <2>1, <3>1, <3>2
  <2> QED BY <2>1, <2>3, <2>6 DEF pt, et, least
<1>12. ASSUME NEW t \in k .. j - 1 PROVE SubSeq(b, Pos(t), End(t) - 1) = FrameOf(A, t)
  <2> DEFINE pt == Pos(t)
             e == End(t) - 1
             o == s - 1
  <2>1. /\ pt \in Nat /\ pt >= 1 /\ e \in Int /\ e >= pt - 1 /\ e <= q /\ e <= Len(b)
        /\ o \in Nat /\ o + e <= Len(A) /\ o + pt = FrameStart(t) /\ o + e = 4 * t + 1
    <3>1. t \in k .. j
      BY <1>6
    <3>2. End(t) + 1 <= q /\ End(t) >= Pos(t) /\ End(t) \in Int
      BY <1>1, <1>11
    <3>3. pt \in Nat /\ pt >= 1
      BY <1>7, <3>1
    <3>4. FrameStart(t) \in Nat /\ t \in Nat
      BY <3>1 DEF FrameStart
    <3>5. o \in Nat /\ o + pt = FrameStart(t) /\ o + e = 4 * t + 1 /\ e \in Int
      BY <1>1, <3>4
    <3>6. e >= pt - 1 /\ e <= q /\ e <= Len(b)
      <4> HIDE DEF Pos, End
      <4> QED BY <1>1, <1>3, <1>4, <3>2, <3>3
    <3>7. o + e <= Len(A)
      <4>1. o + q = p
        BY <1>1
      <4> HIDE DEF e, o
      <4> QED BY <1>1, <3>5, <3>6, <4>1
    <3> QED BY <3>3, <3>5, <3>6, <3>7
  <2> HIDE DEF pt, e, o
  <2>2. \A i \in pt .. e : b[i] = A[o + i]
    <3>1. \A i \in pt .. e : i \in 1 .. q
      BY <1>1, <2>1
    <3> QED BY <1>3, <3>1 DEF o
  <2>3. SubSeq(b, pt, e) = SubSeq(A, o + pt, o + e)
    BY <1>3, <2>1, <2>2, PartOfPart
  <2> QED BY <2>1, <2>3 DEF FrameOf, pt, e
<1>13. SubSeq(b, Pos(j), n) = Halved(SubSeq(A, FrameStart(j), p), half)
  <2> DEFINE pj == Pos(j)
             o == s - 1
             d == SubSeq(A, FrameStart(j), p)
  <2>1. /\ pj \in Nat /\ pj >= 1 /\ q >= pj - 1 /\ q <= Len(b) /\ o \in Nat /\ q \in Int
        /\ o + q = p /\ o + pj = FrameStart(j) /\ o + q <= Len(A)
    <3>1. j \in k .. j /\ j \in Nat /\ FrameStart(j) \in Nat
      BY <1>6 DEF FrameStart
    <3>2. pj \in Nat /\ pj >= 1 /\ q >= pj - 1
      <4> HIDE DEF Pos
      <4>1. pj - 1 <= q /\ pj \in Nat /\ pj >= 1
        BY <1>7, <3>1
      <4> HIDE DEF pj
      <4> QED BY <1>1, <4>1
    <3>3. q <= Len(b) /\ o \in Nat /\ q \in Int /\ o + q = p /\ o + q <= Len(A)
      BY <1>1, <1>3, <1>4
    <3>4. o + pj = FrameStart(j)
      BY <1>1, <3>1
    <3> QED BY <3>2, <3>3, <3>4
  <2> HIDE DEF pj, o
  <2>2. \A i \in pj .. q : b[i] = A[o + i]
    <3>1. \A i \in pj .. q : i \in 1 .. q
      BY <1>1, <2>1
    <3> QED BY <1>3, <3>1 DEF o
  <2>3. SubSeq(b, pj, q) = d
    <3>1. SubSeq(b, pj, q) = SubSeq(A, o + pj, o + q)
      BY <1>3, <2>1, <2>2, PartOfPart
    <3> QED BY <2>1, <3>1
  <2>4. CASE ~half
    BY <1>4, <2>3, <2>4 DEF Halved, pj
  <2>5. CASE half
    <3>1. n = q + 1 /\ b[q + 1] = CR
      BY <1>3, <1>4, <2>5
    <3>2. d \in Seq(B) /\ Len(d) = q - pj + 1 /\ \A i \in 1 .. q - pj + 1 : d[i] = b[pj - 1 + i]
      <4>1. /\ SubSeq(b, pj, q) \in Seq(B) /\ Len(SubSeq(b, pj, q)) = q - pj + 1
            /\ \A i \in 1 .. q - pj + 1 : SubSeq(b, pj, q)[i] = b[pj - 1 + i]
        BY <1>3, <2>1, PartFacts
      <4> QED BY <2>3, <4>1
    <3> DEFINE u == SubSeq(b, pj, q + 1)
    <3>3. u \in Seq(B) /\ Len(u) = q + 1 - pj + 1 /\ \A i \in 1 .. q + 1 - pj + 1 : u[i] = b[pj - 1 + i]
      <4>1. q + 1 \in Int /\ q + 1 >= pj - 1 /\ q + 1 <= Len(b)
        BY <1>3, <2>1, <3>1
      <4> QED BY <1>3, <2>1, <4>1, PartFacts
    <3> HIDE DEF u, d
    <3>4. /\ Append(d, CR) \in Seq(B) /\ Len(Append(d, CR)) = q - pj + 2
          /\ Append(d, CR)[q - pj + 2] = CR
          /\ \A i \in 1 .. q - pj + 1 : Append(d, CR)[i] = d[i]
      <4> DEFINE l == q - pj + 1
      <4>1. l \in Nat /\ Len(d) = l /\ l + 1 = q - pj + 2
        BY <2>1, <3>2
      <4> HIDE DEF l
      <4>2. /\ Append(d, CR) \in Seq(B) /\ Len(Append(d, CR)) = l + 1
            /\ Append(d, CR)[l + 1] = CR
            /\ \A i \in 1 .. l : Append(d, CR)[i] = d[i]
        BY <3>2, <4>1
      <4> QED BY <4>1, <4>2, Zenon DEF l
    <3>5. \A i \in 1 .. Len(u) : u[i] = Append(d, CR)[i]
      <4> SUFFICES ASSUME NEW i \in 1 .. Len(u) PROVE u[i] = Append(d, CR)[i]
        OBVIOUS
      <4>1. CASE i \in 1 .. q - pj + 1
        <5>1. i \in 1 .. q + 1 - pj + 1
          BY <3>3
        <5> QED BY <3>2, <3>3, <3>4, <4>1, <5>1
      <4>2. CASE i = q - pj + 2
        <5>1. i \in 1 .. q + 1 - pj + 1 /\ pj - 1 + i = q + 1
          <6>1. pj \in Nat /\ q \in Int /\ q >= pj - 1
            BY <2>1
          <6> QED BY <4>2, <6>1
        <5> QED BY <3>1, <3>3, <3>4, <4>2, <5>1
      <4>3. i \in 1 .. q - pj + 1 \/ i = q - pj + 2
        <5>1. pj \in Int /\ q \in Int
          BY <2>1
        <5>2. i \in 1 .. q + 1 - pj + 1
          BY <3>3
        <5> HIDE DEF pj, q
        <5> QED BY <5>1, <5>2
      <4> QED BY <4>1, <4>2, <4>3
    <3>6. u = Append(d, CR)
      <4>1. Len(u) = Len(Append(d, CR))
        BY <2>1, <3>3, <3>4
      <4> QED BY <3>3, <3>4, <3>5, <4>1, SeqEqual
    <3> QED BY <2>5, <3>1, <3>6 DEF Halved, d, u, pj
  <2> QED BY <2>4, <2>5
<1> HIDE DEF Pos, End
<1>14. PICK g : Splits(g, b) /\ SplitEvents(b) = g[1]
  BY <1>3, SplitUnfolds
<1> DEFINE r == Halved(SubSeq(A, FrameStart(j), p), half)
           Frames(t) == [i \in 1 .. j - t |-> FrameOf(A, t + i - 1)]
           P == {d \in Nat : d <= j - k => g[Pos(j - d)] = [events |-> Frames(j - d), rest |-> r]}
<1>15. 0 \in P
  <2>1. j - 0 = j /\ j \in k .. j
    BY <1>6
  <2>2. Pos(j) \in 1 .. Len(b) + 1
    BY <1>3, <1>7, <2>1
  <2>3. g[Pos(j)] = [events |-> <<>>, rest |-> SubSeq(b, Pos(j), Len(b))]
    BY <1>10, <1>14, <2>2 DEF Splits
  <2>4. Frames(j) = <<>>
    <3>1. 1 .. j - j = {}
      OBVIOUS
    <3> QED BY <3>1
  <2> HIDE DEF Frames, r
  <2>5. g[Pos(j)] = [events |-> Frames(j), rest |-> r]
    BY <1>3, <1>13, <2>3, <2>4, Zenon DEF r
  <2> QED BY <2>1, <2>5
<1>16. ASSUME NEW d \in Nat, d \in P PROVE d + 1 \in P
  <2> SUFFICES ASSUME d + 1 <= j - k
               PROVE  g[Pos(j - (d + 1))] = [events |-> Frames(j - (d + 1)), rest |-> r]
    OBVIOUS
  <2> DEFINE t == j - (d + 1)
  <2>1. t \in k .. j - 1 /\ t + 1 = j - d /\ d <= j - k /\ t \in k .. j /\ j - t = d + 1 /\ j - (t + 1) = d
    BY <1>6
  <2>2. g[Pos(t + 1)] = [events |-> Frames(t + 1), rest |-> r]
    <3> HIDE DEF t, Frames, r
    <3>1. g[Pos(j - d)] = [events |-> Frames(j - d), rest |-> r]
      BY <1>16, <2>1
    <3> QED BY <2>1, <3>1
  <2> HIDE DEF t
  <2>3. g[Pos(t)] = [g[End(t) + 2] EXCEPT !.events = <<SubSeq(b, Pos(t), End(t) - 1)>> \o @]
    <3>1. Pos(t) \in 1 .. Len(b) + 1
      BY <1>3, <1>7, <2>1
    <3>2. BlanksFrom(b, Pos(t)) # {} /\ Min(BlanksFrom(b, Pos(t))) = End(t)
      BY <1>11, <2>1
    <3> QED BY <1>14, <3>1, <3>2 DEF Splits
  <2>4. End(t) + 2 = Pos(t + 1) /\ SubSeq(b, Pos(t), End(t) - 1) = FrameOf(A, t)
    BY <1>11, <1>12, <2>1
  <2>5. <<FrameOf(A, t)>> \o Frames(t + 1) = Frames(t)
    <3> DEFINE T == {FrameOf(A, i) : i \in Nat}
               x == FrameOf(A, t)
               f == Frames(t + 1)
               h == Frames(t)
    <3>0. t \in Nat
      BY <2>1
    <3>1. x \in T /\ f \in Seq(T) /\ Len(f) = d /\ h \in Seq(T) /\ Len(h) = d + 1
      <4>1. \A i \in 1 .. d : FrameOf(A, t + 1 + i - 1) \in T
        BY <3>0
      <4>2. \A i \in 1 .. d + 1 : FrameOf(A, t + i - 1) \in T
        BY <3>0
      <4>3. x \in T
        BY <3>0
      <4> HIDE DEF T
      <4> QED BY <2>1, <4>1, <4>2, <4>3
    <3>2. h[1] = x /\ \A i \in 1 .. d : h[1 + i] = f[i]
      <4>1. 1 \in 1 .. j - t /\ t + 1 - 1 = t
        BY <2>1, <3>0
      <4>2. \A i \in 1 .. d : 1 + i \in 1 .. j - t /\ i \in 1 .. j - (t + 1) /\ t + (1 + i) - 1 = t + 1 + i - 1
        BY <2>1, <3>0
      <4> QED BY <4>1, <4>2
    <3> HIDE DEF T, x, f, h
    <3>3. /\ <<x>> \o f \in Seq(T) /\ Len(<<x>> \o f) = d + 1
          /\ (<<x>> \o f)[1] = x /\ \A i \in 1 .. d : (<<x>> \o f)[1 + i] = f[i]
      BY <3>1
    <3>4. \A i \in 1 .. d + 1 : i = 1 \/ (i - 1 \in 1 .. d /\ i = 1 + (i - 1))
      OBVIOUS
    <3>5. \A i \in 1 .. d + 1 : (<<x>> \o f)[i] = h[i]
      BY <3>2, <3>3, <3>4
    <3>6. <<x>> \o f = h
      BY <3>1, <3>3, <3>5, SeqEqual
    <3> QED BY <3>6 DEF x, f, h
  <2> DEFINE v == g[Pos(t + 1)]
  <2>6. g[Pos(t)] = [v EXCEPT !.events = <<FrameOf(A, t)>> \o @] /\ v = [events |-> Frames(t + 1), rest |-> r]
    BY <2>2, <2>3, <2>4
  <2> HIDE DEF v, Frames, r
  <2>7. g[Pos(t)] = [events |-> <<FrameOf(A, t)>> \o Frames(t + 1), rest |-> r]
    BY <2>6
  <2> QED BY <2>5, <2>7 DEF t
<1>17. Nat \subseteq P
  <2> HIDE DEF P
  <2> QED BY <1>15, <1>16, NatInduct
<1>18. SplitEvents(b) = [events |-> Frames(k), rest |-> r]
  <2>1. j - k \in Nat /\ j - (j - k) = k /\ k \in k .. j /\ j - k \in P
    <3> HIDE DEF P
    <3> QED BY <1>6, <1>17
  <2>2. Pos(k) = 1
    BY <1>1 DEF Pos, s
  <2> HIDE DEF r, Frames
  <2>3. g[Pos(j - (j - k))] = [events |-> Frames(j - (j - k)), rest |-> r]
    BY <2>1
  <2> QED BY <1>14, <2>1, <2>2, <2>3
<1> HIDE DEF r, Frames
<1>19. SplitEvents(b).events = Frames(k) /\ SplitEvents(b).rest = r
  BY <1>18
<1> QED BY <1>6, <1>19, Zenon DEF Framed, r, Frames

-----------------------------------------------------------------------------
(* The chunks that a reader has pushed.                                     *)

Datum(B) == [x \in B |-> IF x.kind \in {"open", "close"} THEN <<x>> ELSE <<>>]

\* The data of an event, byte by byte.
LEMMA DataUnfolds ==
  ASSUME NEW B
  PROVE  /\ DataOf(<<>>) = <<>>
         /\ \A s \in Seq(B), x \in B :
              DataOf(Append(s, x)) = DataOf(s) \o (IF x.kind \in {"open", "close"} THEN <<x>> ELSE <<>>)
         /\ \A s \in Seq(B) : DataOf(s) \in Seq(B)
<1> DEFINE F == Datum(B)
           Of(s) == [i \in DOMAIN s |-> F[s[i]]]
           Taken(s) == [i \in DOMAIN s |-> IF s[i].kind \in {"open", "close"} THEN <<s[i]>> ELSE <<>>]
<1>1. F \in ToSeqs(B, B) /\ \A x \in B : F[x] = IF x.kind \in {"open", "close"} THEN <<x>> ELSE <<>>
  <2>1. \A x \in B : <<x>> \in Seq(B) /\ <<>> \in Seq(B)
    OBVIOUS
  <2>2. [x \in B |-> IF x.kind \in {"open", "close"} THEN <<x>> ELSE <<>>] \in [B -> Seq(B)]
    BY <2>1
  <2> QED BY <2>2 DEF Datum, ToSeqs
<1> HIDE DEF F
<1>2. ASSUME NEW s \in Seq(B) PROVE DataOf(s) = FlatMap(s, F)
  <2>1. \A i \in DOMAIN s : s[i] \in B
    OBVIOUS
  <2>2. Taken(s) = Of(s)
    BY <1>1, <2>1
  <2>3. DataOf(s) = FlattenSeq(Taken(s))
    BY DEF DataOf, Filter, Each
  <2>4. FlatMap(s, F) = FlattenSeq(Of(s))
    BY DEF FlatMap
  <2> HIDE DEF Of, Taken
  <2> QED BY <2>2, <2>3, <2>4
<1> HIDE DEF Of, Taken
<1>3. ASSUME NEW s \in Seq(B)
      PROVE  /\ FlatMap(<<>>, F) = <<>> /\ FlatMap(s, F) \in Seq(B)
             /\ \A x \in B : FlatMap(Append(s, x), F) = FlatMap(s, F) \o F[x]
  BY <1>1, FlatMapUnfolds
<1>4. <<>> \in Seq(B) /\ \A s \in Seq(B), x \in B : Append(s, x) \in Seq(B)
  OBVIOUS
<1>5. DataOf(<<>>) = <<>>
  BY <1>2, <1>3, <1>4
<1>6. \A s \in Seq(B), x \in B :
        DataOf(Append(s, x)) = DataOf(s) \o (IF x.kind \in {"open", "close"} THEN <<x>> ELSE <<>>)
  BY <1>1, <1>2, <1>3, <1>4, Zenon
<1>7. \A s \in Seq(B) : DataOf(s) \in Seq(B)
  BY <1>2, <1>3
<1> QED BY <1>5, <1>6, <1>7

\* The data of what is left in front of the end of frame k.
LEMMA DataLaid ==
  ASSUME NEW B, CR \in B, NEW A \in Seq(B), NEW m \in Nat, NEW num, Laid(A, m, num),
         NEW k \in 0 .. m, NEW p \in Nat, FrameStart(k) - 1 <= p, p <= 4 * k + 2, NEW half \in BOOLEAN
  PROVE  DataOf(Halved(SubSeq(A, FrameStart(k), p), half)) =
           IF k = 0 \/ p < 4 * k THEN <<>>
           ELSE IF p = 4 * k THEN <<Byte("open", num[k])>>
           ELSE <<Byte("open", num[k]), Byte("close", num[k])>>
<1> DEFINE s == FrameStart(k)
           c(e) == SubSeq(A, s, e)
           D(e) == DataOf(c(e))
<1>1. /\ s \in Nat /\ s >= 1 /\ Len(A) = 4 * m + 3 /\ 4 * k + 3 <= Len(A)
      /\ s = (IF k = 0 THEN 1 ELSE 4 * k) /\ k \in Nat
  BY DEF FrameStart, Laid
<1> HIDE DEF s
<1>2. ASSUME NEW e \in s - 1 .. 4 * k + 2
      PROVE  c(e) \in Seq(B) /\ Len(c(e)) = e - s + 1 /\ \A i \in 1 .. e - s + 1 : c(e)[i] = A[s - 1 + i]
  <2>1. e \in Int /\ e >= s - 1 /\ e <= Len(A)
    BY <1>1
  <2> QED BY <1>1, <2>1, PartFacts
<1>3. ASSUME NEW e \in s - 1 .. 4 * k + 1
      PROVE  D(e + 1) = D(e) \o (IF A[e + 1].kind \in {"open", "close"} THEN <<A[e + 1]>> ELSE <<>>)
  <2> DEFINE x == A[e + 1]
             u == c(e)
             v == c(e + 1)
             l == e - s + 1
  <2>1. l \in Nat /\ e + 1 \in s - 1 .. 4 * k + 2 /\ e \in s - 1 .. 4 * k + 2 /\ s - 1 + (l + 1) = e + 1
        /\ e + 1 - s + 1 = l + 1
    BY <1>1
  <2>2. u \in Seq(B) /\ Len(u) = l /\ \A i \in 1 .. l : u[i] = A[s - 1 + i]
    BY <1>2, <2>1
  <2>3. v \in Seq(B) /\ Len(v) = l + 1 /\ \A i \in 1 .. l + 1 : v[i] = A[s - 1 + i]
    <3> HIDE DEF l
    <3>1. /\ c(e + 1) \in Seq(B) /\ Len(c(e + 1)) = e + 1 - s + 1
          /\ \A i \in 1 .. e + 1 - s + 1 : c(e + 1)[i] = A[s - 1 + i]
      BY <1>2, <2>1
    <3> QED BY <2>1, <3>1
  <2>4. x \in B
    <3>1. e + 1 \in 1 .. Len(A)
      BY <1>1
    <3> QED BY <3>1
  <2>5. v[l + 1] = x
    <3>1. l + 1 \in 1 .. l + 1
      BY <2>1
    <3> HIDE DEF v, l
    <3> QED BY <2>1, <2>3, <3>1
  <2> HIDE DEF u, v, x, l
  <2>6. v = Append(u, x)
    <3>1. /\ Append(u, x) \in Seq(B) /\ Len(Append(u, x)) = l + 1
          /\ Append(u, x)[l + 1] = x /\ \A i \in 1 .. l : Append(u, x)[i] = u[i]
      BY <2>1, <2>2, <2>4
    <3>2. \A i \in 1 .. l + 1 : i = l + 1 \/ i \in 1 .. l
      BY <2>1
    <3>3. \A i \in 1 .. l : i \in 1 .. l + 1
      BY <2>1
    <3>4. \A i \in 1 .. l + 1 : v[i] = Append(u, x)[i]
      BY <2>2, <2>3, <2>5, <3>1, <3>2, <3>3, Zenon
    <3> QED BY <2>3, <3>1, <3>4, SeqEqual
  <2>7. DataOf(Append(u, x)) = DataOf(u) \o (IF x.kind \in {"open", "close"} THEN <<x>> ELSE <<>>)
    BY <2>2, <2>4, DataUnfolds
  <2> QED BY <2>6, <2>7, Zenon DEF u, v, x
<1>4. D(s - 1) = <<>>
  <2>1. s - 1 \in s - 1 .. 4 * k + 2
    BY <1>1
  <2>2. c(s - 1) \in Seq(B) /\ Len(c(s - 1)) = (s - 1) - s + 1
    BY <1>2, <2>1
  <2>3. c(s - 1) = <<>>
    <3> DEFINE w == c(s - 1)
    <3>1. w \in Seq(B) /\ Len(w) = 0
      BY <1>1, <2>2
    <3> HIDE DEF w
    <3>2. w = <<>>
      BY <3>1
    <3> QED BY <3>2 DEF w
  <2> HIDE DEF c
  <2> QED BY <2>3, DataUnfolds, Zenon
<1>5. \A e \in s - 1 .. 4 * k + 2 : D(e) \in Seq(B)
  <2>1. \A e \in s - 1 .. 4 * k + 2 : c(e) \in Seq(B)
    BY <1>2
  <2> HIDE DEF c
  <2> QED BY <2>1, DataUnfolds
<1>6. \A t \in Seq(B) : t \o <<>> = t /\ <<>> \o t = t
  OBVIOUS
<1>7. /\ LF.kind = "LF" /\ CR.kind = "CR" /\ Byte("comment", 0).kind = "comment"
      /\ \A j : Byte("open", j).kind = "open" /\ Byte("close", j).kind = "close"
      /\ "LF" \notin {"open", "close"} /\ "CR" \notin {"open", "close"}
      /\ "comment" \notin {"open", "close"} /\ "open" \in {"open", "close"} /\ "close" \in {"open", "close"}
  BY DEF LF, CR, Byte
<1> DEFINE x == Byte("open", num[k])
           y == Byte("close", num[k])
<1>8. D(p) = IF k = 0 \/ p < 4 * k THEN <<>> ELSE IF p = 4 * k THEN <<x>> ELSE <<x, y>>
  <2>1. CASE k = 0
    <3>1. A[1].kind = "comment" /\ A[2].kind = "LF"
      BY <1>7, Zenon DEF Laid
    <3> HIDE DEF D
    <3>2. D(0) = <<>>
      BY <1>1, <1>4, <2>1
    <3>3. D(0 + 1) = D(0) \o <<>>
      <4>1. 0 \in s - 1 .. 4 * k + 1 /\ 0 + 1 = 1
        BY <1>1, <2>1
      <4> QED BY <1>3, <1>7, <3>1, <4>1
    <3>4. D(1 + 1) = D(1) \o <<>>
      <4>1. 1 \in s - 1 .. 4 * k + 1 /\ 1 + 1 = 2
        BY <1>1, <2>1
      <4> QED BY <1>3, <1>7, <3>1, <4>1
    <3>5. D(1) = <<>> /\ D(2) = <<>>
      <4>1. <<>> \in Seq(B) /\ 0 + 1 = 1 /\ 1 + 1 = 2
        OBVIOUS
      <4> QED BY <1>6, <3>2, <3>3, <3>4, <4>1
    <3>6. p = 0 \/ p = 1 \/ p = 2
      BY <2>1
    <3> QED BY <2>1, <3>2, <3>5, <3>6
  <2>2. CASE k # 0
    <3>0. k \in 1 .. m /\ s = 4 * k
      BY <1>1, <2>2
    <3>1. /\ A[4 * k] = x /\ A[4 * k + 1] = y /\ A[4 * k + 2] = LF
      BY <3>0 DEF Laid
    <3>2. x.kind = "open" /\ y.kind = "close"
      BY <1>7
    <3>3. x \in B /\ y \in B
      <4>1. 4 * k \in 1 .. Len(A) /\ 4 * k + 1 \in 1 .. Len(A)
        BY <1>1, <3>0
      <4>2. A[4 * k] \in B /\ A[4 * k + 1] \in B
        BY <4>1
      <4> QED BY <3>1, <4>2
    <3> HIDE DEF D, x, y
    <3> DEFINE a == 4 * k - 1
    <3>4. a \in s - 1 .. 4 * k + 1 /\ a + 1 = 4 * k /\ a + 2 = 4 * k + 1 /\ a + 3 = 4 * k + 2 /\ a \in Int
          /\ a + 1 \in s - 1 .. 4 * k + 1 /\ a + 2 \in s - 1 .. 4 * k + 1 /\ s - 1 = a
          /\ a + 1 + 1 = a + 2 /\ a + 2 + 1 = a + 3
      BY <1>1, <3>0
    <3> HIDE DEF a
    <3>5. D(a) = <<>>
      BY <1>4, <3>4
    <3>6. D(a + 1) = D(a) \o <<x>>
      BY <1>3, <1>7, <3>1, <3>2, <3>4
    <3>7. D(a + 1 + 1) = D(a + 1) \o <<y>>
      BY <1>3, <1>7, <3>1, <3>2, <3>4
    <3>8. D(a + 2 + 1) = D(a + 2) \o <<>>
      BY <1>3, <1>7, <3>1, <3>2, <3>4
    <3>9. <<>> \o <<x>> = <<x>> /\ <<x, y>> \o <<>> = <<x, y>>
      BY <1>6, <3>3
    <3>10. <<x>> \o <<y>> = <<x, y>>
      BY TuplesJoin
    <3>11. D(a + 1) = <<x>>
      BY <3>5, <3>6, <3>9, Zenon
    <3>12. D(a + 2) = <<x, y>>
      BY <3>4, <3>7, <3>10, <3>11
    <3>13. D(a + 3) = <<x, y>>
      BY <3>4, <3>8, <3>9, <3>12
    <3>14. p = a \/ p = a + 1 \/ p = a + 2 \/ p = a + 3
      BY <1>1, <3>0, <3>4 DEF s
    <3>15. CASE p = a
      <4>1. p < 4 * k
        BY <3>4, <3>15
      <4> QED BY <2>2, <3>5, <3>15, <4>1
    <3>16. CASE p = a + 1
      <4>1. ~(p < 4 * k) /\ p = 4 * k
        BY <3>0, <3>4, <3>16
      <4> QED BY <2>2, <3>11, <3>16, <4>1
    <3>17. CASE p = a + 2 \/ p = a + 3
      <4>1. ~(p < 4 * k) /\ p # 4 * k /\ p > 4 * k
        BY <3>0, <3>4, <3>17
      <4> QED BY <2>2, <3>12, <3>13, <3>17, <4>1
    <3> QED BY <3>14, <3>15, <3>16, <3>17
  <2> QED BY <2>1, <2>2
<1>9. DataOf(Halved(c(p), half)) = D(p)
  <2>1. p \in s - 1 .. 4 * k + 2
    BY <1>1 DEF s
  <2>2. c(p) \in Seq(B) /\ DataOf(c(p)) \in Seq(B)
    BY <1>2, <1>5, <2>1
  <2> HIDE DEF c
  <2>3. DataOf(Append(c(p), CR)) = DataOf(c(p)) \o <<>>
    BY <1>7, <2>2, DataUnfolds
  <2> QED BY <1>6, <2>2, <2>3 DEF Halved
<1> HIDE DEF D
<1> QED BY <1>8, <1>9 DEF s, x, y

\* acc is what the first d chunks, pushed one after the other, accumulate.
Pushed(acc, chunks, d) ==
  \E h : h[0] = EmptyAccumulator /\ h[d] = acc /\ \A i \in 1 .. d : h[i] = Push(h[i - 1], chunks[i])

\* One more chunk.
LEMMA PushedMore ==
  ASSUME NEW chunks
  PROVE  /\ Pushed(EmptyAccumulator, chunks, 0)
         /\ \A acc : \A d \in Nat :
              Pushed(acc, chunks, d) => Pushed(Push(acc, chunks[d + 1]), chunks, d + 1)
<1>1. Pushed(EmptyAccumulator, chunks, 0)
  <2> DEFINE h == [i \in 0 .. 0 |-> EmptyAccumulator]
  <2>1. h[0] = EmptyAccumulator /\ 1 .. 0 = {}
    OBVIOUS
  <2> HIDE DEF h
  <2>2. \A i \in 1 .. 0 : h[i] = Push(h[i - 1], chunks[i])
    BY <2>1
  <2> QED BY <2>1, <2>2, Zenon DEF Pushed
<1>2. ASSUME NEW d \in Nat, NEW acc, Pushed(acc, chunks, d)
      PROVE  Pushed(Push(acc, chunks[d + 1]), chunks, d + 1)
  <2>1. PICK h : h[0] = EmptyAccumulator /\ h[d] = acc
                 /\ \A i \in 1 .. d : h[i] = Push(h[i - 1], chunks[i])
    BY <1>2, Zenon DEF Pushed
  <2> DEFINE x == Push(acc, chunks[d + 1])
             g == [i \in 0 .. d + 1 |-> IF i = d + 1 THEN x ELSE h[i]]
  <2>2. g[d + 1] = x /\ \A i \in 0 .. d : g[i] = h[i]
    <3> HIDE DEF x
    <3> QED OBVIOUS
  <2>3. 0 \in 0 .. d /\ d \in 0 .. d
    OBVIOUS
  <2> HIDE DEF g
  <2>4. ASSUME NEW i \in 1 .. d + 1 PROVE g[i] = Push(g[i - 1], chunks[i])
    <3>1. CASE i = d + 1
      <4>1. i - 1 = d
        BY <3>1
      <4>2. g[i - 1] = acc
        BY <2>1, <2>2, <2>3, <4>1
      <4> QED BY <2>2, <3>1, <4>2, Zenon
    <3>2. CASE i # d + 1
      <4>1. i \in 1 .. d /\ i \in 0 .. d /\ i - 1 \in 0 .. d
        BY <3>2
      <4>2. g[i] = h[i] /\ g[i - 1] = h[i - 1]
        BY <2>2, <4>1
      <4> QED BY <2>1, <4>1, <4>2, Zenon
    <3> QED BY <3>1, <3>2
  <2>5. g[0] = EmptyAccumulator
    BY <2>1, <2>2, <2>3
  <2> QED BY <2>2, <2>4, <2>5, Zenon DEF Pushed, x
<1> QED BY <1>1, <1>2

\* What becomes of the data of an event.
LEMMA ConsumeData ==
  ASSUME NEW r, r.status = "reading", NEW event, NEW chunks
  PROVE  /\ DataOf(event) = <<>> => Consume(r, event, chunks) = r
         /\ \A k \in Nat : DataOf(event) = <<Byte("open", k)>> =>
              Consume(r, event, chunks) = [r EXCEPT !.status = "failed"]
         /\ DataOf(event) = <<Byte("open", 0), Byte("close", 0)>> =>
              Consume(r, event, chunks) = [r EXCEPT !.status = "ended"]
         /\ \A k \in Nat \ {0} : DataOf(event) = <<Byte("open", k), Byte("close", k)>> =>
              Consume(r, event, chunks) = [r EXCEPT !.acc = Push(@, chunks[k])]
<1> DEFINE data == DataOf(event)
<1>1. Consume(r, event, chunks) =
        CASE r.status # "reading" \/ data = <<>> -> r
          [] r.status = "reading" /\ IsDone(data) -> [r EXCEPT !.status = "ended"]
          [] r.status = "reading" /\ IsJson(data) /\ ~IsDone(data) ->
               [r EXCEPT !.acc = Push(@, chunks[data[1].chunk])]
          [] OTHER -> [r EXCEPT !.status = "failed"]
  BY Zenon DEF Consume
<1>2. \A a, b : <<a>> # <<>> /\ <<a, b>> # <<>> /\ Len(<<a>>) # 2 /\ Len(<<a, b>>) = 2
                /\ <<a, b>>[1] = a /\ <<a, b>>[2] = b
  OBVIOUS
<1>2a. Len(<<>>) # 2
  OBVIOUS
<1>3. \A k : /\ Byte("open", k).kind = "open" /\ Byte("open", k).chunk = k
             /\ Byte("open", k) = Byte("open", 0) => k = 0
  <2>1. \A k : Byte("open", k).kind = "open" /\ Byte("open", k).chunk = k
    BY DEF Byte
  <2> QED BY <2>1
<1> HIDE DEF data
<1>4. ASSUME data = <<>> PROVE Consume(r, event, chunks) = r
  <2>1. ~IsDone(data) /\ ~IsJson(data)
    BY <1>2a, <1>4, Zenon DEF IsDone, IsJson
  <2> QED BY <1>1, <1>4, <2>1
<1>5. ASSUME NEW k \in Nat, data = <<Byte("open", k)>>
      PROVE  Consume(r, event, chunks) = [r EXCEPT !.status = "failed"]
  <2>1. data # <<>> /\ ~IsDone(data) /\ ~IsJson(data)
    BY <1>2, <1>5, Zenon DEF IsDone, IsJson
  <2> QED BY <1>1, <2>1
<1>6. ASSUME data = <<Byte("open", 0), Byte("close", 0)>>
      PROVE  Consume(r, event, chunks) = [r EXCEPT !.status = "ended"]
  <2>1. data # <<>> /\ IsDone(data)
    BY <1>2, <1>6, Zenon DEF IsDone
  <2> QED BY <1>1, <2>1
<1>7. ASSUME NEW k \in Nat \ {0}, data = <<Byte("open", k), Byte("close", k)>>
      PROVE  Consume(r, event, chunks) = [r EXCEPT !.acc = Push(@, chunks[k])]
  <2>1. data # <<>> /\ data[1] = Byte("open", k) /\ data[2] = Byte("close", k) /\ Len(data) = 2
    BY <1>2, <1>7, Zenon
  <2>2. data[1].chunk = k /\ data[1].kind = "open" /\ data[1] # Byte("open", 0)
    BY <1>3, <2>1
  <2>3. ~IsDone(data) /\ IsJson(data)
    BY <2>1, <2>2, Zenon DEF IsDone, IsJson
  <2>4. Consume(r, event, chunks) = [r EXCEPT !.acc = Push(@, chunks[data[1].chunk])]
    <3> HIDE DEF data
    <3> QED BY <1>1, <2>1, <2>3
  <2> QED BY <2>2, <2>4
<1> QED BY <1>4, <1>5, <1>6, <1>7 DEF data

\* How many chunks there are in the frames before frame k of a body of n chunks.
ChunksBefore(k, n) == IF k = 0 THEN 0 ELSE IF k = n + 2 THEN n ELSE k - 1

\* A reader that has consumed all frames of the body before frame k.
ReaderAt(r, chunks, k) ==
  /\ DOMAIN r = {"buffer", "status", "acc"}
  /\ r.status = IF k = Len(chunks) + 2 THEN "ended" ELSE "reading"
  /\ Pushed(r.acc, chunks, ChunksBefore(k, Len(chunks)))

\* The data of a whole frame.
LEMMA FrameData ==
  ASSUME NEW B, CR \in B, NEW A \in Seq(B), NEW m \in Nat, NEW num, Laid(A, m, num), NEW k \in 0 .. m
  PROVE  DataOf(FrameOf(A, k)) =
           IF k = 0 THEN <<>> ELSE <<Byte("open", num[k]), Byte("close", num[k])>>
<1>1. ASSUME NEW p \in Nat, p = 4 * k + 1, NEW half \in BOOLEAN
      PROVE  DataOf(Halved(SubSeq(A, FrameStart(k), p), half)) =
               IF k = 0 THEN <<>> ELSE <<Byte("open", num[k]), Byte("close", num[k])>>
  <2>1. FrameStart(k) - 1 <= p /\ p <= 4 * k + 2
    BY <1>1 DEF FrameStart
  <2>2. DataOf(Halved(SubSeq(A, FrameStart(k), p), half)) =
          IF k = 0 \/ p < 4 * k THEN <<>>
          ELSE IF p = 4 * k THEN <<Byte("open", num[k])>>
          ELSE <<Byte("open", num[k]), Byte("close", num[k])>>
    BY <2>1, DataLaid
  <2>3. ~(p < 4 * k) /\ p # 4 * k
    BY <1>1
  <2> QED BY <2>2, <2>3, Zenon
<1>2. FrameOf(A, k) = Halved(SubSeq(A, FrameStart(k), 4 * k + 1), FALSE) /\ 4 * k + 1 \in Nat
  BY DEF FrameOf, Halved
<1> QED BY <1>1, <1>2

\* Frame after frame.
LEMMA FrameConsumed ==
  ASSUME NEW N \in Nat, NEW chunks, Len(chunks) = N, NEW A \in Seq(BytesOf(N)),
         Laid(A, N + 1, Numbers(N)), NEW k \in 0 .. N + 1, NEW r, ReaderAt(r, chunks, k)
  PROVE  /\ ReaderAt(Consume(r, FrameOf(A, k), chunks), chunks, k + 1)
         /\ Consume(r, FrameOf(A, k), chunks).buffer = r.buffer
<1> DEFINE event == FrameOf(A, k)
           p == 4 * k + 1
           num == Numbers(N)
           q == Consume(r, event, chunks)
<1>0. DOMAIN r = {"buffer", "status", "acc"} /\ r.status = "reading"
  <2>1. k # N + 2
    OBVIOUS
  <2> QED BY <2>1, Zenon DEF ReaderAt
<1> DEFINE d == ChunksBefore(k, N)
<1>1. d \in Nat /\ Pushed(r.acc, chunks, d) /\ d = IF k = 0 THEN 0 ELSE k - 1
  <2>1. Pushed(r.acc, chunks, d)
    BY Zenon DEF ReaderAt
  <2>2. d \in Nat /\ d = IF k = 0 THEN 0 ELSE k - 1
    BY DEF ChunksBefore
  <2> QED BY <2>1, <2>2
<1> HIDE DEF d
<1>2. DataOf(event) = IF k = 0 THEN <<>> ELSE <<Byte("open", num[k]), Byte("close", num[k])>>
  <2> DEFINE B == BytesOf(N)
             m == N + 1
  <2>1. CR \in B /\ A \in Seq(B) /\ m \in Nat /\ Laid(A, m, num) /\ k \in 0 .. m
    <3>1. CR \in B
      BY BodyLaid
    <3> QED BY <3>1
  <2> HIDE DEF B, m, num
  <2> QED BY <2>1, FrameData DEF event
<1> HIDE DEF event
<1>3. CASE k = 0
  <2>1. q = r
    BY <1>0, <1>2, <1>3, ConsumeData
  <2>2. 1 # N + 2 /\ k + 1 = 1 /\ 1 # 0 /\ 1 - 1 = 0 /\ d = 0
    BY <1>1, <1>3
  <2>3. Pushed(r.acc, chunks, 0) /\ ChunksBefore(1, Len(chunks)) = 0
    BY <1>1, <2>2 DEF ChunksBefore
  <2> HIDE DEF q
  <2>4. ReaderAt(q, chunks, 1)
    BY <1>0, <2>1, <2>2, <2>3, Zenon DEF ReaderAt
  <2> QED BY <2>1, <2>2, <2>4 DEF q, event
<1>4. CASE k \in 1 .. N
  <2>1. num[k] = k /\ k \in Nat \ {0} /\ k # 0
    BY <1>4 DEF Numbers
  <2>2. DataOf(event) = <<Byte("open", k), Byte("close", k)>>
    BY <1>2, <2>1, Zenon
  <2>3. q = [r EXCEPT !.acc = Push(@, chunks[k])]
    BY <1>0, <2>1, <2>2, ConsumeData
  <2> DEFINE x == Push(r.acc, chunks[k])
  <2>4. q = [r EXCEPT !.acc = x]
    BY <2>3, Zenon
  <2>5. d + 1 = k /\ k + 1 # 0 /\ k + 1 # N + 2 /\ k + 1 - 1 = k
    BY <1>1, <1>4
  <2>6. Pushed(x, chunks, k)
    BY <1>1, <2>5, PushedMore
  <2> HIDE DEF x, q
  <2>7. DOMAIN q = DOMAIN r /\ q.status = r.status /\ q.buffer = r.buffer /\ q.acc = x
    BY <1>0, <2>4
  <2>8. ReaderAt(q, chunks, k + 1)
    <3>1. ChunksBefore(k + 1, Len(chunks)) = k
      BY <2>1, <2>5 DEF ChunksBefore
    <3>2. q.status = IF k + 1 = Len(chunks) + 2 THEN "ended" ELSE "reading"
      BY <1>0, <2>5, <2>7
    <3> QED BY <1>0, <2>6, <2>7, <3>1, <3>2, Zenon DEF ReaderAt
  <2> QED BY <2>7, <2>8, Zenon DEF q, event
<1>5. CASE k = N + 1
  <2>1. num[k] = 0 /\ k # 0
    BY <1>5 DEF Numbers
  <2>2. DataOf(event) = <<Byte("open", 0), Byte("close", 0)>>
    BY <1>2, <2>1, Zenon
  <2>3. q = [r EXCEPT !.status = "ended"]
    BY <1>0, <2>2, ConsumeData
  <2>4. d = N /\ k + 1 = N + 2 /\ k + 1 # 0
    BY <1>1, <1>5
  <2> HIDE DEF q
  <2>5. DOMAIN q = DOMAIN r /\ q.status = "ended" /\ q.buffer = r.buffer /\ q.acc = r.acc
    BY <1>0, <2>3
  <2>6. ReaderAt(q, chunks, k + 1)
    <3>1. ChunksBefore(k + 1, Len(chunks)) = N /\ k + 1 = Len(chunks) + 2
      BY <2>4 DEF ChunksBefore
    <3> QED BY <1>0, <1>1, <2>4, <2>5, <3>1, Zenon DEF ReaderAt
  <2> QED BY <2>5, <2>6, Zenon DEF q, event
<1>6. k = 0 \/ k \in 1 .. N \/ k = N + 1
  OBVIOUS
<1> QED BY <1>3, <1>4, <1>5, <1>6 DEF event

\* All frames that were complete.
LEMMA FramesConsumed ==
  ASSUME NEW N \in Nat, NEW chunks, Len(chunks) = N, NEW A \in Seq(BytesOf(N)),
         Laid(A, N + 1, Numbers(N)), NEW k \in Nat, NEW j \in k .. N + 2, NEW r, ReaderAt(r, chunks, k),
         NEW events, events = [i \in 1 .. j - k |-> FrameOf(A, k + i - 1)]
  PROVE  /\ ReaderAt(ConsumeAll(r, events, chunks), chunks, j)
         /\ ConsumeAll(r, events, chunks).buffer = r.buffer
<1> DEFINE T == {FrameOf(A, i) : i \in Nat}
           n == j - k
<1>1. n \in Nat /\ events \in Seq(T) /\ Len(events) = n
      /\ \A i \in 1 .. n : events[i] = FrameOf(A, k + i - 1)
  <2>1. n \in Nat /\ \A i \in 1 .. n : FrameOf(A, k + i - 1) \in T
    OBVIOUS
  <2> HIDE DEF T
  <2> QED BY <2>1
<1>2. PICK h : ConsumedBy(h, r, events, chunks)
  <2> HIDE DEF T, n
  <2> QED BY <1>1, ConsumedFolds
<1>3. /\ h[0] = r /\ h[n] = ConsumeAll(r, events, chunks)
      /\ \A i \in 1 .. n : h[i] = Consume(h[i - 1], events[i], chunks)
  BY <1>1, <1>2, Zenon DEF ConsumedBy
<1> DEFINE P == {i \in Nat : i <= n => ReaderAt(h[i], chunks, k + i) /\ h[i].buffer = r.buffer}
<1>4. 0 \in P
  <2>1. k + 0 = k
    OBVIOUS
  <2> QED BY <1>3, <2>1
<1>5. ASSUME NEW i \in Nat, i \in P PROVE i + 1 \in P
  <2> SUFFICES ASSUME i + 1 <= n
               PROVE  ReaderAt(h[i + 1], chunks, k + (i + 1)) /\ h[i + 1].buffer = r.buffer
    OBVIOUS
  <2>1. i <= n /\ i + 1 \in 1 .. n /\ k + i \in 0 .. N + 1 /\ k + (i + 1) - 1 = k + i
        /\ (i + 1) - 1 = i /\ k + i + 1 = k + (i + 1)
    BY <1>1
  <2>2. ReaderAt(h[i], chunks, k + i) /\ h[i].buffer = r.buffer
    BY <1>5, <2>1
  <2>3. h[i + 1] = Consume(h[i], FrameOf(A, k + i), chunks)
    BY <1>1, <1>3, <2>1
  <2> DEFINE u == k + i
             v == h[i]
  <2> HIDE DEF u, v
  <2>4. u \in 0 .. N + 1 /\ ReaderAt(v, chunks, u)
    BY <2>1, <2>2 DEF u, v
  <2>5. ReaderAt(Consume(v, FrameOf(A, u), chunks), chunks, u + 1)
        /\ Consume(v, FrameOf(A, u), chunks).buffer = v.buffer
    BY <2>4, FrameConsumed
  <2> QED BY <2>1, <2>2, <2>3, <2>5 DEF u, v
<1>6. Nat \subseteq P
  <2> HIDE DEF P
  <2> QED BY <1>4, <1>5, NatInduct
<1>7. n \in P /\ k + n = j
  <2> HIDE DEF P
  <2>1. k + n = j
    OBVIOUS
  <2> QED BY <1>1, <1>6, <2>1
<1> QED BY <1>1, <1>3, <1>7

\* u has the elements of s and, behind them, those of t.
JoinOf(u, s, t) ==
  /\ Len(u) = Len(s) + Len(t)
  /\ \A i \in 1 .. Len(s) : u[i] = s[i]
  /\ \A i \in 1 .. Len(t) : u[Len(s) + i] = t[i]

\* Joined sequences.
LEMMA JoinedElements ==
  ASSUME NEW B, NEW s \in Seq(B), NEW t \in Seq(B)
  PROVE  s \o t \in Seq(B) /\ JoinOf(s \o t, s, t)
BY DEF JoinOf

\* Adjacent parts of a sequence.
LEMMA PartsJoin ==
  ASSUME NEW B, NEW s \in Seq(B), NEW a \in Nat, a >= 1, NEW p \in Nat, p >= a - 1,
         NEW q \in Nat, q >= p, q <= Len(s)
  PROVE  SubSeq(s, a, p) \o SubSeq(s, p + 1, q) = SubSeq(s, a, q)
<1> DEFINE u == SubSeq(s, a, p)
           v == SubSeq(s, p + 1, q)
           w == SubSeq(s, a, q)
           m == p - a + 1
           n == q - p
<1>1. u \in Seq(B) /\ Len(u) = m /\ \A i \in 1 .. m : u[i] = s[a - 1 + i]
  <2>1. p \in Int /\ p <= Len(s)
    OBVIOUS
  <2> QED BY <2>1, PartFacts
<1>2. v \in Seq(B) /\ Len(v) = n /\ \A i \in 1 .. n : v[i] = s[p + i]
  <2> DEFINE b == p + 1
  <2>1. b \in Nat /\ q \in Int /\ b >= 1 /\ q >= b - 1 /\ q <= Len(s) /\ q - b + 1 = n /\ b - 1 = p
    OBVIOUS
  <2> HIDE DEF b
  <2>2. /\ SubSeq(s, b, q) \in Seq(B) /\ Len(SubSeq(s, b, q)) = q - b + 1
        /\ \A i \in 1 .. q - b + 1 : SubSeq(s, b, q)[i] = s[b - 1 + i]
    BY <2>1, PartFacts
  <2> QED BY <2>1, <2>2 DEF b
<1>3. w \in Seq(B) /\ Len(w) = m + n /\ \A i \in 1 .. m + n : w[i] = s[a - 1 + i]
  <2>1. q \in Int /\ q >= a - 1 /\ q - a + 1 = m + n
    OBVIOUS
  <2>2. /\ w \in Seq(B) /\ Len(w) = q - a + 1
        /\ \A i \in 1 .. q - a + 1 : w[i] = s[a - 1 + i]
    BY <2>1, PartFacts
  <2> QED BY <2>1, <2>2
<1>4. m \in Nat /\ n \in Nat /\ \A i \in Int : a - 1 + (m + i) = p + i
  OBVIOUS
<1> HIDE DEF u, v, w, m, n
<1>5. /\ u \o v \in Seq(B) /\ Len(u \o v) = m + n
      /\ \A i \in 1 .. m : (u \o v)[i] = u[i] /\ i \in 1 .. m + n
      /\ \A i \in 1 .. n : (u \o v)[m + i] = v[i] /\ m + i \in 1 .. m + n
  <2>1. u \o v \in Seq(B) /\ JoinOf(u \o v, u, v)
    BY <1>1, <1>2, JoinedElements, Zenon
  <2>2. /\ \A i \in 1 .. m : i \in 1 .. m + n
        /\ \A i \in 1 .. n : m + i \in 1 .. m + n
    BY <1>4
  <2> QED BY <1>1, <1>2, <2>1, <2>2 DEF JoinOf
<1>6. ASSUME NEW i \in 1 .. m + n PROVE (u \o v)[i] = w[i]
  <2>1. CASE i \in 1 .. m
    BY <1>1, <1>3, <1>5, <2>1
  <2>2. CASE i \notin 1 .. m
    <3> DEFINE j == i - m
    <3>1. j \in 1 .. n /\ i = m + j /\ a - 1 + (m + j) = p + j
      BY <1>4, <2>2
    <3> HIDE DEF j
    <3> QED BY <1>2, <1>3, <1>5, <3>1
  <2> QED BY <2>1, <2>2
<1>7. u \o v = w
  BY <1>3, <1>5, <1>6, SeqEqual
<1> QED BY <1>7 DEF u, v, w

\* The parts of what is left of a sequence.
LEMMA PartSplits ==
  ASSUME NEW B, NEW s \in Seq(B), NEW p \in Nat, p <= Len(s), NEW u \in Seq(B), NEW v \in Seq(B),
         u \o v = SubSeq(s, p + 1, Len(s))
  PROVE  /\ p + Len(u) <= Len(s)
         /\ u = SubSeq(s, p + 1, p + Len(u))
         /\ v = SubSeq(s, p + Len(u) + 1, Len(s))
<1> DEFINE L == Len(s)
           m == Len(u)
           n == Len(v)
           w == SubSeq(s, p + 1, L)
<1>0. L \in Nat /\ m \in Nat /\ n \in Nat
  OBVIOUS
<1>1. Len(w) = L - p /\ \A i \in 1 .. L - p : w[i] = s[p + i]
  <2> DEFINE b == p + 1
  <2>1. b \in Nat /\ L \in Int /\ b >= 1 /\ L >= b - 1 /\ L <= Len(s) /\ L - b + 1 = L - p /\ b - 1 = p
    BY <1>0
  <2> HIDE DEF b, L
  <2>2. /\ SubSeq(s, b, L) \in Seq(B) /\ Len(SubSeq(s, b, L)) = L - b + 1
        /\ \A i \in 1 .. L - b + 1 : SubSeq(s, b, L)[i] = s[b - 1 + i]
    BY <2>1, PartFacts
  <2> QED BY <2>1, <2>2 DEF b
<1>2. /\ Len(u \o v) = m + n
      /\ \A i \in 1 .. m : (u \o v)[i] = u[i]
      /\ \A i \in 1 .. n : (u \o v)[m + i] = v[i]
  <2>1. u \o v \in Seq(B) /\ JoinOf(u \o v, u, v)
    BY JoinedElements, Zenon
  <2> QED BY <2>1, Zenon DEF JoinOf
<1>2a. u \o v = w
  OBVIOUS
<1> HIDE DEF L, m, n, w
<1>3. m + n = L - p
  BY <1>1, <1>2, <1>2a
<1>4. \A i \in 1 .. m : u[i] = s[p + i]
  <2>1. \A i \in 1 .. m : i \in 1 .. L - p
    BY <1>0, <1>3
  <2> QED BY <1>1, <1>2, <1>2a, <2>1
<1>5. \A i \in 1 .. n : v[i] = s[p + m + i]
  <2>1. \A i \in 1 .. n : m + i \in 1 .. L - p /\ p + (m + i) = p + m + i
    BY <1>0, <1>3
  <2> QED BY <1>1, <1>2, <1>2a, <2>1
<1>6. u = SubSeq(s, p + 1, p + m)
  <2> DEFINE b == p + 1
             e == p + m
  <2>1. b \in Nat /\ e \in Int /\ b >= 1 /\ e >= b - 1 /\ e <= Len(s) /\ e - b + 1 = m /\ b - 1 = p
    BY <1>0, <1>3 DEF L
  <2> HIDE DEF b, e
  <2>2. /\ SubSeq(s, b, e) \in Seq(B) /\ Len(SubSeq(s, b, e)) = e - b + 1
        /\ \A i \in 1 .. e - b + 1 : SubSeq(s, b, e)[i] = s[b - 1 + i]
    BY <2>1, PartFacts
  <2>3. Len(SubSeq(s, b, e)) = m /\ \A i \in 1 .. m : SubSeq(s, b, e)[i] = u[i]
    BY <1>4, <2>1, <2>2
  <2>4. u = SubSeq(s, b, e)
    BY <2>2, <2>3, SeqEqual DEF m
  <2> QED BY <2>4 DEF b, e
<1>7. v = SubSeq(s, p + m + 1, L)
  <2> DEFINE b == p + m + 1
  <2>1. b \in Nat /\ L \in Int /\ b >= 1 /\ L >= b - 1 /\ L <= Len(s) /\ L - b + 1 = n /\ b - 1 = p + m
    BY <1>0, <1>3 DEF L
  <2> HIDE DEF b
  <2>2. /\ SubSeq(s, b, L) \in Seq(B) /\ Len(SubSeq(s, b, L)) = L - b + 1
        /\ \A i \in 1 .. L - b + 1 : SubSeq(s, b, L)[i] = s[b - 1 + i]
    BY <2>1, PartFacts
  <2>3. Len(SubSeq(s, b, L)) = n /\ \A i \in 1 .. n : SubSeq(s, b, L)[i] = v[i]
    BY <1>5, <2>1, <2>2
  <2>4. v = SubSeq(s, b, L)
    BY <2>2, <2>3, SeqEqual DEF n
  <2> QED BY <2>4 DEF b
<1>8. p + m <= L
  BY <1>0, <1>3
<1> QED BY <1>6, <1>7, <1>8 DEF L, m

\* What a reader holds of a body A: the bytes from frame k on, up to p.
Held(buffer, A, k, p, half) ==
  /\ FrameStart(k) - 1 <= p /\ p <= 4 * k + 2
  /\ buffer = Halved(SubSeq(A, FrameStart(k), p), half)

\* What is still to come.
ToCome(transit, A, p, half, B) ==
  /\ transit \in Seq(B) /\ Matched(transit) /\ Bare(transit, B) = SubSeq(A, p + 1, Len(A))
  /\ half => transit # <<>> /\ transit[1] = LF

\* A buffer that has grown by some of the bytes behind p.
Filled(buffer, rest, A, k, p, B) ==
  \E q \in Nat, still \in BOOLEAN :
    /\ p <= q /\ q <= Len(A)
    /\ buffer = Halved(SubSeq(A, FrameStart(k), q), still)
    /\ ToCome(rest, A, q, still, B)

\* A piece of the body fills the buffer up.
LEMMA PieceBuffered ==
  ASSUME NEW B, LF \in B, CR \in B, NEW A \in Seq(B), NEW m \in Nat, NEW num, Laid(A, m, num),
         NEW k \in Nat, NEW p \in Nat, FrameStart(k) - 1 <= p, p <= Len(A),
         NEW half \in BOOLEAN, NEW buffer, buffer = Halved(SubSeq(A, FrameStart(k), p), half),
         NEW transit, ToCome(transit, A, p, half, B), NEW n \in 1 .. Len(transit)
  PROVE  Filled(Buffered(buffer, SubSeq(transit, 1, n)), SubSeq(transit, n + 1, Len(transit)), A, k, p, B)
<1> DEFINE s == FrameStart(k)
           c == SubSeq(A, s, p)
           piece == SubSeq(transit, 1, n)
           rest == SubSeq(transit, n + 1, Len(transit))
           L == Len(transit)
           q == p + Len(Bare(piece, B))
           still == (transit[n] = CR)
<1>1. s \in Nat /\ s >= 1 /\ s - 1 <= p
  BY DEF FrameStart
<1>2. transit \in Seq(B) /\ L \in Nat /\ n \in Nat /\ n >= 1 /\ n <= L
  BY DEF ToCome
<1> HIDE DEF s
<1>3. c \in Seq(B) /\ Len(c) = p - s + 1 /\ \A i \in 1 .. p - s + 1 : c[i] = A[s - 1 + i]
  <2>1. p \in Int /\ p >= s - 1
    BY <1>1
  <2> QED BY <1>1, <2>1, PartFacts
<1>4. piece \in Seq(B) /\ Len(piece) = n /\ \A i \in 1 .. n : piece[i] = transit[i]
  <2>1. 1 \in Nat /\ 1 >= 1 /\ n \in Int /\ n >= 1 - 1 /\ n <= Len(transit) /\ n - 1 + 1 = n
        /\ \A i \in Int : 1 - 1 + i = i
    BY <1>2
  <2>2. /\ SubSeq(transit, 1, n) \in Seq(B) /\ Len(SubSeq(transit, 1, n)) = n - 1 + 1
        /\ \A i \in 1 .. n - 1 + 1 : SubSeq(transit, 1, n)[i] = transit[1 - 1 + i]
    BY <1>2, <2>1, PartFacts
  <2> QED BY <2>1, <2>2
<1>5. rest \in Seq(B) /\ Len(rest) = L - n /\ \A i \in 1 .. L - n : rest[i] = transit[n + i]
  <2> DEFINE b == n + 1
  <2>1. b \in Nat /\ b >= 1 /\ L \in Int /\ L >= b - 1 /\ L <= Len(transit) /\ L - b + 1 = L - n
        /\ b - 1 = n
    BY <1>2
  <2> HIDE DEF b, L
  <2>2. /\ SubSeq(transit, b, L) \in Seq(B) /\ Len(SubSeq(transit, b, L)) = L - b + 1
        /\ \A i \in 1 .. L - b + 1 : SubSeq(transit, b, L)[i] = transit[b - 1 + i]
    BY <1>2, <2>1, PartFacts
  <2> QED BY <2>1, <2>2 DEF b, L
<1>6. piece \o rest = transit
  <2>1. 1 \in Nat /\ 1 >= 1 /\ n >= 1 - 1 /\ L >= n /\ L <= Len(transit)
    BY <1>2
  <2>2. SubSeq(transit, 1, n) \o SubSeq(transit, n + 1, L) = SubSeq(transit, 1, L)
    BY <1>2, <2>1, PartsJoin
  <2>3. SubSeq(transit, 1, L) = transit
    BY <1>2
  <2> QED BY <2>2, <2>3
<1>7. Bare(piece, B) \in Seq(B) /\ Bare(rest, B) \in Seq(B)
      /\ Bare(piece, B) \o Bare(rest, B) = SubSeq(A, p + 1, Len(A))
  <2> HIDE DEF piece, rest
  <2>1. Bare(piece \o rest, B) = Bare(piece, B) \o Bare(rest, B)
        /\ Bare(piece, B) \in Seq(B) /\ Bare(rest, B) \in Seq(B)
    BY <1>4, <1>5, BareFacts
  <2>2. Bare(transit, B) = SubSeq(A, p + 1, Len(A))
    BY DEF ToCome
  <2> QED BY <1>6, <2>1, <2>2
<1>8. /\ q \in Nat /\ p <= q /\ q <= Len(A)
      /\ Bare(piece, B) = SubSeq(A, p + 1, q)
      /\ Bare(rest, B) = SubSeq(A, q + 1, Len(A))
  <2> DEFINE u == Bare(piece, B)
             v == Bare(rest, B)
  <2>1. u \in Seq(B) /\ v \in Seq(B) /\ u \o v = SubSeq(A, p + 1, Len(A))
    BY <1>7
  <2> HIDE DEF u, v
  <2>2. /\ p + Len(u) <= Len(A)
        /\ u = SubSeq(A, p + 1, p + Len(u))
        /\ v = SubSeq(A, p + Len(u) + 1, Len(A))
    <3>1. p \in Nat /\ p <= Len(A) /\ A \in Seq(B)
      OBVIOUS
    <3> QED BY <2>1, <3>1, PartSplits, ZenonT(60)
  <2>3. Len(u) \in Nat
    BY <2>1
  <2> QED BY <2>2, <2>3 DEF u, v
<1>9. buffer \in Seq(B) /\ Bare(buffer, B) = c /\ Len(buffer) \in Nat
      /\ \A i \in 1 .. Len(buffer) : buffer[i] = CR => half /\ i = Len(buffer)
  <2>1. \A i \in 1 .. Len(c) : c[i] # CR
    <3>1. \A i \in 1 .. Len(A) : A[i] # CR
      BY LaidLines
    <3>2. \A i \in 1 .. p - s + 1 : s - 1 + i \in 1 .. Len(A)
      BY <1>1
    <3> QED BY <1>3, <3>1, <3>2
  <2>2. Bare(c, B) = c
    BY <1>3, <2>1, BareFacts
  <2>3. buffer = IF half THEN Append(c, CR) ELSE c
    BY DEF Halved, s
  <2>4. CASE half
    <3> HIDE DEF c
    <3>1. Append(c, CR) \in Seq(B) /\ Len(Append(c, CR)) = Len(c) + 1 /\ Len(c) \in Nat
          /\ \A i \in 1 .. Len(c) : Append(c, CR)[i] = c[i]
      BY <1>3
    <3>2. Bare(Append(c, CR), B) = Bare(c, B) \o Bared(B)[CR] /\ Bared(B)[CR] = <<>>
      BY <1>3, BareFacts
    <3>3. c \o <<>> = c
      BY <1>3
    <3>4. Bare(buffer, B) = c
      BY <2>2, <2>3, <2>4, <3>2, <3>3
    <3>5. \A i \in 1 .. Len(c) + 1 : i \in 1 .. Len(c) \/ i = Len(c) + 1
      BY <3>1
    <3> QED BY <2>1, <2>3, <2>4, <3>1, <3>4, <3>5
  <2>5. CASE ~half
    BY <1>3, <2>1, <2>2, <2>3, <2>5
  <2> QED BY <2>4, <2>5
<1> DEFINE all == buffer \o piece
<1>10. /\ all \in Seq(B) /\ Len(all) = Len(buffer) + n
       /\ \A i \in 1 .. Len(buffer) : all[i] = buffer[i]
       /\ \A i \in 1 .. n : all[Len(buffer) + i] = transit[i]
  <2> HIDE DEF piece
  <2>1. buffer \o piece \in Seq(B) /\ JoinOf(buffer \o piece, buffer, piece)
    BY <1>4, <1>9, JoinedElements, Zenon
  <2> QED BY <1>4, <2>1 DEF JoinOf
<1>11. piece # <<>>
  BY <1>2, <1>4
<1>12. \A i \in 1 .. Len(transit) : transit[i] = CR => i < Len(transit) /\ transit[i + 1] = LF
  BY DEF ToCome, Matched
<1>13. half => transit[1] = LF
  BY DEF ToCome
<1> HIDE DEF all, piece, rest, c, q
<1>14. ASSUME NEW i \in 1 .. Len(all) - 1, all[i] = CR PROVE all[i + 1] = LF
  <2>1. CASE i \in 1 .. Len(buffer)
    <3>1. half /\ i = Len(buffer)
      BY <1>9, <1>10, <1>14, <2>1
    <3>2. 1 \in 1 .. n
      BY <1>2
    <3> QED BY <1>10, <1>13, <3>1, <3>2
  <2>2. CASE i \notin 1 .. Len(buffer)
    <3> DEFINE j == i - Len(buffer)
    <3>1. j \in 1 .. n /\ i = Len(buffer) + j /\ j + 1 \in 1 .. n /\ i + 1 = Len(buffer) + (j + 1)
          /\ j \in 1 .. Len(transit)
      BY <1>2, <1>9, <1>10, <2>2
    <3> HIDE DEF j
    <3>2. transit[j] = CR
      BY <1>10, <1>14, <3>1
    <3>3. transit[j + 1] = LF
      BY <1>12, <3>1, <3>2
    <3> QED BY <1>10, <3>1, <3>3
  <2> QED BY <2>1, <2>2
<1>15. all[Len(all)] = transit[n]
  <2>1. n \in 1 .. n
    BY <1>2
  <2> QED BY <1>10, <2>1
<1>16. Buffered(buffer, piece) = IF all[Len(all)] = CR THEN Append(Bare(all, B), CR) ELSE Bare(all, B)
  <2>1. \A i \in 1 .. Len(buffer \o piece) - 1 : (buffer \o piece)[i] = CR => (buffer \o piece)[i + 1] = LF
    BY <1>14 DEF all
  <2>2. Buffered(buffer, piece) =
          IF (buffer \o piece)[Len(buffer \o piece)] = CR
          THEN Append(Bare(buffer \o piece, B), CR) ELSE Bare(buffer \o piece, B)
    BY <1>4, <1>9, <1>11, <2>1, BufferedAs
  <2> QED BY <2>2 DEF all
<1>17. Bare(all, B) = SubSeq(A, s, q)
  <2>1. Bare(all, B) = Bare(buffer, B) \o Bare(piece, B)
    BY <1>4, <1>9, BareFacts DEF all
  <2>2. SubSeq(A, s, p) \o SubSeq(A, p + 1, q) = SubSeq(A, s, q)
    BY <1>1, <1>8, PartsJoin
  <2> QED BY <1>8, <1>9, <2>1, <2>2 DEF c
<1>18. Buffered(buffer, piece) = Halved(SubSeq(A, s, q), still)
  BY <1>15, <1>16, <1>17, Zenon DEF Halved
<1>19. ToCome(rest, A, q, still, B)
  <2>1. Matched(rest)
    <3> SUFFICES ASSUME NEW i \in 1 .. Len(rest), rest[i] = CR PROVE i < Len(rest) /\ rest[i + 1] = LF
      BY DEF Matched
    <3>1. i \in 1 .. L - n /\ n + i \in 1 .. L /\ transit[n + i] = CR
      BY <1>2, <1>5
    <3>2. n + i < L /\ transit[n + i + 1] = LF
      BY <1>12, <3>1
    <3>3. i + 1 \in 1 .. L - n /\ n + (i + 1) = n + i + 1
      BY <1>2, <3>1, <3>2
    <3> QED BY <1>2, <1>5, <3>1, <3>2, <3>3
  <2>2. ASSUME still PROVE rest # <<>> /\ rest[1] = LF
    <3>1. n < L /\ transit[n + 1] = LF
      BY <1>2, <1>12, <2>2
    <3>2. 1 \in 1 .. L - n
      BY <1>2, <3>1
    <3>3. rest # <<>>
      BY <1>5, <3>2
    <3> QED BY <1>5, <3>1, <3>2, <3>3
  <2> HIDE DEF still
  <2> QED BY <1>5, <1>8, <2>1, <2>2, Zenon DEF ToCome
<1>20. still \in BOOLEAN
  OBVIOUS
<1> HIDE DEF still
<1> HIDE DEF q
<1>21. Filled(Buffered(buffer, piece), rest, A, k, p, B)
  BY <1>8, <1>18, <1>19, <1>20, Zenon DEF s, Filled
<1> QED BY <1>21 DEF piece, rest

-----------------------------------------------------------------------------
(* The reader of a stream.                                                  *)

\* A reader that has consumed the frames before frame k and holds what follows.
Reached(r, chunks, k, p, half) ==
  ReaderAt(r, chunks, k) /\ Held(r.buffer, Bytes(Len(chunks), FALSE), k, p, half)

\* The reader of a body whose other bytes are in transit, and of one that was cut off.
Reading(r, transit, chunks, k) ==
  \E p \in Nat, half \in BOOLEAN :
    /\ Reached(r, chunks, k, p, half)
    /\ ToCome(transit, Bytes(Len(chunks), FALSE), p, half, BytesOf(Len(chunks)))
Stopped(r, chunks, k) ==
  \E p \in Nat, half \in BOOLEAN : Reached(r, chunks, k, p, half)

\* The body at hand.
LEMMA Body ==
  ASSUME NEW N \in Nat
  PROVE  /\ LF \in BytesOf(N) /\ CR \in BytesOf(N) /\ Bytes(N, FALSE) \in Seq(BytesOf(N))
         /\ Laid(Bytes(N, FALSE), N + 1, Numbers(N)) /\ Len(Bytes(N, FALSE)) = 4 * (N + 1) + 3
<1>1. /\ LF \in BytesOf(N) /\ CR \in BytesOf(N) /\ Bytes(N, FALSE) \in Seq(BytesOf(N))
      /\ Laid(Bytes(N, FALSE), N + 1, Numbers(N))
  BY BodyLaid
<1>2. Len(Bytes(N, FALSE)) = 4 * (N + 1) + 3
  BY <1>1, Zenon DEF Laid
<1> QED BY <1>1, <1>2

\* A piece is read.
LEMMA PieceRead ==
  ASSUME NEW N \in Nat, NEW chunks, Len(chunks) = N, NEW k \in 0 .. N + 1, NEW r, NEW transit,
         Reading(r, transit, chunks, k), NEW n \in 1 .. Len(transit)
  PROVE  \E j \in 0 .. N + 2 :
           Reading(Read(r, SubSeq(transit, 1, n), chunks), SubSeq(transit, n + 1, Len(transit)), chunks, j)
<1> DEFINE A == Bytes(N, FALSE)
           B == BytesOf(N)
           m == N + 1
           num == Numbers(N)
           piece == SubSeq(transit, 1, n)
           rest == SubSeq(transit, n + 1, Len(transit))
           b == Buffered(r.buffer, piece)
           split == SplitEvents(b)
<1>1. LF \in B /\ CR \in B /\ A \in Seq(B) /\ m \in Nat /\ Laid(A, m, num) /\ Len(A) = 4 * m + 3
  <2>1. LF \in B /\ CR \in B /\ A \in Seq(B) /\ Laid(A, m, num) /\ Len(A) = 4 * m + 3
    BY Body, Zenon
  <2>2. m \in Nat
    OBVIOUS
  <2> QED BY <2>1, <2>2, Zenon
<1> HIDE DEF A, B, num
<1>2. PICK p \in Nat, half \in BOOLEAN :
        ReaderAt(r, chunks, k) /\ Held(r.buffer, A, k, p, half) /\ ToCome(transit, A, p, half, B)
  BY Zenon DEF Reading, Reached, A, B
<1>3. /\ FrameStart(k) - 1 <= p /\ p <= 4 * k + 2 /\ r.buffer = Halved(SubSeq(A, FrameStart(k), p), half)
  BY <1>2, Zenon DEF Held
<1>4. k \in Nat /\ p <= Len(A)
  BY <1>1, <1>3
<1> HIDE DEF m
<1>5. PICK q \in Nat, still \in BOOLEAN :
           /\ p <= q /\ q <= Len(A)
           /\ b = Halved(SubSeq(A, FrameStart(k), q), still)
           /\ ToCome(rest, A, q, still, B)
  <2>1. Filled(Buffered(r.buffer, piece), rest, A, k, p, B)
    BY <1>1, <1>2, <1>3, <1>4, PieceBuffered, Zenon
  <2> QED BY <2>1, Zenon DEF Filled
<1>6. FrameStart(k) - 1 <= q
  <2>1. FrameStart(k) \in Nat
    BY DEF FrameStart
  <2> QED BY <1>3, <1>5, <2>1
<1> HIDE DEF b, rest, piece
<1>7. PICK j \in k .. m + 1 :
           /\ 4 * j - 1 <= q /\ q <= 4 * j + 2
           /\ split.events = [i \in 1 .. j - k |-> FrameOf(A, k + i - 1)]
           /\ split.rest = Halved(SubSeq(A, FrameStart(j), q), still)
  <2>1. Framed(SplitEvents(b), A, m, k, q, still)
    BY <1>1, <1>4, <1>5, <1>6, SplitLaid, Zenon
  <2> QED BY <2>1, Zenon DEF Framed
<1> HIDE DEF split
<1> DEFINE left == [r EXCEPT !.buffer = split.rest]
           new == ConsumeAll(left, split.events, chunks)
<1>8. Read(r, piece, chunks) = new
  BY Zenon DEF Read, ConsumeAll, split, b
<1>9. ReaderAt(left, chunks, k) /\ left.buffer = split.rest
  <2>1. DOMAIN r = {"buffer", "status", "acc"}
    BY <1>2, Zenon DEF ReaderAt
  <2>2. DOMAIN left = DOMAIN r /\ left.status = r.status /\ left.acc = r.acc /\ left.buffer = split.rest
    BY <2>1
  <2> HIDE DEF left
  <2> QED BY <1>2, <2>2, Zenon DEF ReaderAt
<1> HIDE DEF left
<1>10. j \in k .. N + 2 /\ j \in 0 .. N + 2 /\ j \in Nat
  BY <1>4, <1>7 DEF m
<1>11. ReaderAt(new, chunks, j) /\ new.buffer = left.buffer
  <2>1. A \in Seq(BytesOf(N)) /\ Laid(A, N + 1, Numbers(N))
    BY <1>1 DEF B, m, num
  <2> HIDE DEF new
  <2>2. /\ ReaderAt(ConsumeAll(left, split.events, chunks), chunks, j)
        /\ ConsumeAll(left, split.events, chunks).buffer = left.buffer
    <3> DEFINE events == split.events
    <3>1. events = [i \in 1 .. j - k |-> FrameOf(A, k + i - 1)] /\ N \in Nat /\ Len(chunks) = N
      BY <1>7
    <3> HIDE DEF events
    <3>2. /\ ReaderAt(ConsumeAll(left, events, chunks), chunks, j)
          /\ ConsumeAll(left, events, chunks).buffer = left.buffer
      BY <1>4, <1>9, <1>10, <2>1, <3>1, FramesConsumed
    <3> QED BY <3>2 DEF events
  <2> QED BY <2>2 DEF new
<1> HIDE DEF new
<1>12. Held(new.buffer, A, j, q, still)
  <2>1. FrameStart(j) - 1 <= q /\ q <= 4 * j + 2
    BY <1>7, <1>10 DEF FrameStart
  <2> QED BY <1>7, <1>9, <1>11, <2>1, Zenon DEF Held
<1>13. Reading(new, rest, chunks, j)
  BY <1>5, <1>11, <1>12, Zenon DEF Reading, Reached, A, B
<1> QED BY <1>8, <1>10, <1>13 DEF rest, piece

\* The body ends; it cannot be that all of it came and [DONE] was not read.
LEMMA EndRead ==
  ASSUME NEW N \in Nat, NEW chunks, Len(chunks) = N, NEW k \in 0 .. N + 1, NEW r
  PROVE  /\ ~Reading(r, <<>>, chunks, k)
         /\ Stopped(r, chunks, k) =>
              /\ ReadEnd(r, chunks).status # "reading"
              /\ \E d \in 0 .. N : Pushed(ReadEnd(r, chunks).acc, chunks, d)
<1> DEFINE A == Bytes(N, FALSE)
           B == BytesOf(N)
           m == N + 1
           num == Numbers(N)
<1>1. LF \in B /\ CR \in B /\ A \in Seq(B) /\ m \in Nat /\ Laid(A, m, num) /\ Len(A) = 4 * m + 3
      /\ k \in 0 .. m /\ k \in Nat
  <2>1. LF \in B /\ CR \in B /\ A \in Seq(B) /\ Laid(A, m, num) /\ Len(A) = 4 * m + 3
    BY Body, Zenon
  <2>2. m \in Nat /\ k \in 0 .. m /\ k \in Nat
    OBVIOUS
  <2> QED BY <2>1, <2>2, Zenon
<1> HIDE DEF A, B
<1>2. ASSUME Reading(r, <<>>, chunks, k) PROVE FALSE
  <2>1. PICK p \in Nat, half \in BOOLEAN :
          Held(r.buffer, A, k, p, half) /\ ToCome(<<>>, A, p, half, B)
    BY <1>2, Zenon DEF Reading, Reached, A, B
  <2>2. p <= 4 * k + 2 /\ Bare(<<>>, B) = SubSeq(A, p + 1, Len(A))
    BY <2>1, Zenon DEF Held, ToCome
  <2>3. Bare(<<>>, B) = <<>>
    BY BareFacts
  <2>4. p + 1 <= Len(A)
    BY <1>1, <2>2
  <2>5. Len(SubSeq(A, p + 1, Len(A))) = Len(A) - p
    <3> DEFINE a == p + 1
               e == Len(A)
    <3>1. a \in Nat /\ e \in Int /\ a >= 1 /\ e >= a - 1 /\ e <= Len(A) /\ e - a + 1 = Len(A) - p
      BY <1>1, <2>4
    <3> HIDE DEF a, e
    <3>2. Len(SubSeq(A, a, e)) = e - a + 1
      BY <1>1, <3>1, PartFacts
    <3> QED BY <3>1, <3>2 DEF a, e
  <2>6. Len(<<>>) = 0
    OBVIOUS
  <2>7. Len(A) - p = 0
    BY <2>2, <2>3, <2>5, <2>6
  <2> QED BY <1>1, <2>4, <2>7
<1>3. ASSUME Stopped(r, chunks, k)
      PROVE  /\ ReadEnd(r, chunks).status # "reading"
             /\ \E d \in 0 .. N : Pushed(ReadEnd(r, chunks).acc, chunks, d)
  <2> DEFINE last == Consume(r, r.buffer, chunks)
             new == [last EXCEPT !.status = "ended"]
             x == Push(r.acc, chunks[k])
  <2>1. PICK p \in Nat, half \in BOOLEAN : ReaderAt(r, chunks, k) /\ Held(r.buffer, A, k, p, half)
    BY <1>3, Zenon DEF Stopped, Reached, A
  <2>2. /\ FrameStart(k) - 1 <= p /\ p <= 4 * k + 2 /\ r.buffer = Halved(SubSeq(A, FrameStart(k), p), half)
    BY <2>1, Zenon DEF Held
  <2>3. DOMAIN r = {"buffer", "status", "acc"} /\ r.status = "reading"
        /\ Pushed(r.acc, chunks, ChunksBefore(k, N))
    <3>1. k # N + 2
      OBVIOUS
    <3> QED BY <2>1, <3>1, Zenon DEF ReaderAt
  <2>4. ChunksBefore(k, N) \in 0 .. N /\ ChunksBefore(k, N) \in Nat
        /\ (k \in 1 .. N => ChunksBefore(k, N) + 1 = k)
    BY DEF ChunksBefore
  <2>5. DataOf(r.buffer) = IF k = 0 \/ p < 4 * k THEN <<>>
                           ELSE IF p = 4 * k THEN <<Byte("open", num[k])>>
                           ELSE <<Byte("open", num[k]), Byte("close", num[k])>>
    <3> HIDE DEF m, num
    <3>1. DataOf(Halved(SubSeq(A, FrameStart(k), p), half)) =
            IF k = 0 \/ p < 4 * k THEN <<>>
            ELSE IF p = 4 * k THEN <<Byte("open", num[k])>>
            ELSE <<Byte("open", num[k]), Byte("close", num[k])>>
      BY <1>1, <2>2, DataLaid
    <3> QED BY <2>2, <3>1
  <2>6. num[k] \in Nat \/ k = 0
    BY DEF Numbers
  <2>7. ReadEnd(r, chunks) = IF last.status = "reading" THEN new ELSE last
    BY Zenon DEF ReadEnd
  <2>8. last = r \/ last = [r EXCEPT !.status = "failed"] \/ last = [r EXCEPT !.status = "ended"]
        \/ (k \in 1 .. N /\ last = [r EXCEPT !.acc = x])
    <3>1. CASE DataOf(r.buffer) = <<>>
      BY <2>3, <3>1, ConsumeData
    <3>2. CASE k # 0 /\ DataOf(r.buffer) = <<Byte("open", num[k])>>
      <4> DEFINE i == num[k]
      <4>1. i \in Nat
        BY <2>6, <3>2
      <4> HIDE DEF i, last
      <4>2. Consume(r, r.buffer, chunks) = [r EXCEPT !.status = "failed"]
        BY <2>3, <3>2, <4>1, ConsumeData DEF i
      <4> QED BY <4>2 DEF last
    <3>3. CASE k # 0 /\ DataOf(r.buffer) = <<Byte("open", num[k]), Byte("close", num[k])>>
      <4>1. CASE k = N + 1
        <5>1. num[k] = 0
          BY <4>1 DEF Numbers
        <5> QED BY <2>3, <3>3, <5>1, ConsumeData
      <4>2. CASE k # N + 1
        <5>1. k \in 1 .. N /\ k \in Nat \ {0}
          BY <3>3, <4>2
        <5>2. num[k] = k
          BY <5>1 DEF Numbers
        <5>3. last = [r EXCEPT !.acc = Push(@, chunks[k])]
          BY <2>3, <3>3, <5>1, <5>2, ConsumeData
        <5>4. last = [r EXCEPT !.acc = x]
          BY <5>3, Zenon
        <5> QED BY <5>1, <5>4
      <4> QED BY <4>1, <4>2
    <3> QED BY <2>5, <3>1, <3>2, <3>3
  <2>9. k \in 1 .. N => Pushed(x, chunks, k) /\ k \in 0 .. N
    <3> HIDE DEF x
    <3>1. \A acc : \A d \in Nat : Pushed(acc, chunks, d) => Pushed(Push(acc, chunks[d + 1]), chunks, d + 1)
      BY PushedMore
    <3> DEFINE d == ChunksBefore(k, N)
               acc == r.acc
    <3> SUFFICES ASSUME k \in 1 .. N PROVE Pushed(x, chunks, k) /\ k \in 0 .. N
      OBVIOUS
    <3>2. d \in Nat /\ Pushed(acc, chunks, d) /\ d + 1 = k
      BY <2>3, <2>4
    <3> HIDE DEF d, acc
    <3>3. Pushed(Push(acc, chunks[d + 1]), chunks, d + 1)
      BY <3>1, <3>2
    <3>4. Pushed(Push(acc, chunks[k]), chunks, k)
      BY <3>2, <3>3
    <3> QED BY <3>4 DEF acc, x
  <2> HIDE DEF last, x
  <2>10. /\ "status" \in DOMAIN last /\ DOMAIN last = DOMAIN r
         /\ last.acc = r.acc \/ (k \in 1 .. N /\ last.acc = x)
    BY <2>3, <2>8
  <2>11. new.status = "ended" /\ new.acc = last.acc
    BY <2>3, <2>10
  <2> HIDE DEF new
  <2>12. ReadEnd(r, chunks).status # "reading" /\ ReadEnd(r, chunks).acc = last.acc
    BY <2>7, <2>11
  <2>13. \E d \in 0 .. N : Pushed(last.acc, chunks, d)
    BY <2>3, <2>4, <2>9, <2>10
  <2> QED BY <2>12, <2>13
<1> QED BY <1>2, <1>3

\* A stream whose chunks were pushed in order, up to where its reader is.
Fed(s) ==
  LET N == Len(s.chunks)
      r == s.reader
  IN  /\ \E cuts \in SUBSET (1 .. Len(s.answer.deltas) - 1) :
           s.chunks = Chunks(s.answer.deltas, s.answer.wire, cuts)
      /\ \E d \in 0 .. N :
           Pushed(r.acc, s.chunks, d) /\ (r.status = "ended" /\ ~s.cut => d = N)
      /\ r.status = "failed" => s.cut
      /\ r.status = "reading" /\ ~s.cut => \E k \in 0 .. N + 1 : Reading(r, s.transit, s.chunks, k)
      /\ r.status = "reading" /\ s.cut =>
           s.transit = <<>> /\ \E k \in 0 .. N + 1 : Stopped(r, s.chunks, k)

\* How far a reader is.
LEMMA ReachedFacts ==
  ASSUME NEW N \in Nat, NEW chunks, Len(chunks) = N, NEW k \in 0 .. N + 2, NEW r, NEW transit
  PROVE  /\ Reading(r, transit, chunks, k) => Stopped(r, chunks, k)
         /\ Stopped(r, chunks, k) =>
              /\ r.status = IF k = N + 2 THEN "ended" ELSE "reading"
              /\ \E d \in 0 .. N : Pushed(r.acc, chunks, d) /\ (k = N + 2 => d = N)
<1>1. Reading(r, transit, chunks, k) => Stopped(r, chunks, k)
  BY Zenon DEF Reading, Stopped
<1>2. ASSUME Stopped(r, chunks, k)
      PROVE  /\ r.status = IF k = N + 2 THEN "ended" ELSE "reading"
             /\ \E d \in 0 .. N : Pushed(r.acc, chunks, d) /\ (k = N + 2 => d = N)
  <2>1. ReaderAt(r, chunks, k)
    BY <1>2, Zenon DEF Stopped, Reached
  <2> DEFINE d == ChunksBefore(k, N)
  <2>2. r.status = (IF k = N + 2 THEN "ended" ELSE "reading") /\ Pushed(r.acc, chunks, d)
    BY <2>1, Zenon DEF ReaderAt
  <2>3. d \in 0 .. N /\ (k = N + 2 => d = N)
    BY DEF ChunksBefore
  <2> HIDE DEF d
  <2> QED BY <2>2, <2>3
<1> QED BY <1>1, <1>2

\* Nothing was read yet.
LEMMA FedOpen ==
  ASSUME NEW answer \in Streamed, NEW crlf \in BOOLEAN,
         NEW cuts \in SUBSET (1 .. Len(answer.deltas) - 1),
         NEW chunks, chunks = Chunks(answer.deltas, answer.wire, cuts)
  PROVE  Fed([answer |-> answer, chunks |-> chunks, transit |-> Bytes(Len(chunks), crlf),
              reader |-> NewReader, cut |-> FALSE])
<1> DEFINE N == Len(chunks)
           A == Bytes(N, FALSE)
           B == BytesOf(N)
           T == Bytes(N, crlf)
           s == [answer |-> answer, chunks |-> chunks, transit |-> T, reader |-> NewReader, cut |-> FALSE]
<1>1. N \in Nat
  <2>1. answer.wire \in ChatAnswers /\ answer.deltas \in Seq(Deltas(answer.wire))
    BY StreamedTypes
  <2>2. chunks \in Seq(ChunksOf(answer.wire))
    BY <2>1, ChunkTypes
  <2> QED BY <2>2
<1>2. /\ s.answer = answer /\ s.chunks = chunks /\ s.transit = T /\ s.reader = NewReader /\ s.cut = FALSE
      /\ DOMAIN NewReader = {"buffer", "status", "acc"}
      /\ NewReader.status = "reading" /\ NewReader.acc = EmptyAccumulator /\ NewReader.buffer = <<>>
  BY DEF NewReader
<1> HIDE DEF s
<1>3. T \in Seq(B) /\ Matched(T) /\ Bare(T, B) = A /\ A \in Seq(B)
  <2> HIDE DEF N
  <2>1. T \in Seq(B) /\ Matched(T) /\ Bare(T, B) = A
    BY <1>1, BodyLaid
  <2>2. A \in Seq(B)
    BY <1>1, BodyLaid
  <2> QED BY <2>1, <2>2
<1>4. Pushed(EmptyAccumulator, chunks, 0)
  BY PushedMore
<1> HIDE DEF N, A, B, T
<1>5. ReaderAt(NewReader, chunks, 0)
  <2>1. ChunksBefore(0, Len(chunks)) = 0
    BY DEF ChunksBefore
  <2>2. 0 # Len(chunks) + 2
    BY <1>1 DEF N
  <2> QED BY <1>2, <1>4, <2>1, <2>2, Zenon DEF ReaderAt
<1>6. SubSeq(A, 1, 0) = <<>> /\ SubSeq(A, 0 + 1, Len(A)) = A
  BY <1>3
<1> DEFINE half == FALSE
<1>7. Held(NewReader.buffer, A, 0, 0, half)
  <2>1. FrameStart(0) = 1 /\ FrameStart(0) - 1 <= 0 /\ 0 <= 4 * 0 + 2
    BY DEF FrameStart
  <2>2. NewReader.buffer = Halved(SubSeq(A, FrameStart(0), 0), half)
    BY <1>2, <1>6, <2>1 DEF Halved
  <2> QED BY <2>1, <2>2, Zenon DEF Held
<1>8. ToCome(T, A, 0, half, B)
  BY <1>3, <1>6, Zenon DEF ToCome
<1>9. half \in BOOLEAN /\ 0 \in Nat
  OBVIOUS
<1> HIDE DEF half
<1>10. Reading(NewReader, T, chunks, 0)
  BY <1>5, <1>7, <1>8, <1>9, Zenon DEF Reading, Reached, A, B, N
<1>11. 0 \in 0 .. N + 1 /\ 0 \in 0 .. N /\ "reading" # "ended" /\ "reading" # "failed"
  BY <1>1
<1>12. Fed(s)
  BY <1>2, <1>4, <1>10, <1>11, Zenon DEF Fed, N
<1> QED BY <1>12 DEF s, N, T

\* A piece arrives, the connection is cut, or the body ends.
LEMMA FedArrives ==
  ASSUME stream # None, IsStream(stream), Fed(stream), Receive \/ Cut \/ EndOfBody
  PROVE  Fed(stream')
<1> DEFINE chunks == stream.chunks
           N == Len(chunks)
           r == stream.reader
           t == stream.transit
           Cuttable == \E cuts \in SUBSET (1 .. Len(stream.answer.deltas) - 1) :
                         chunks = Chunks(stream.answer.deltas, stream.answer.wire, cuts)
<1>1. N \in Nat /\ DOMAIN stream = {"answer", "chunks", "transit", "reader", "cut"}
      /\ stream.cut \in BOOLEAN
  <2>1. chunks \in Seq(ChunksOf(stream.answer.wire))
    BY DEF IsStream
  <2> QED BY <2>1 DEF IsStream
<1>2. /\ Cuttable
      /\ \E d \in 0 .. N : Pushed(r.acc, chunks, d) /\ (r.status = "ended" /\ ~stream.cut => d = N)
      /\ r.status = "failed" => stream.cut
      /\ r.status = "reading" /\ ~stream.cut => \E k \in 0 .. N + 1 : Reading(r, t, chunks, k)
      /\ r.status = "reading" /\ stream.cut =>
           t = <<>> /\ \E k \in 0 .. N + 1 : Stopped(r, chunks, k)
  BY Zenon DEF Fed
<1>3. r.status = "reading"
  BY DEF Receive, Cut, EndOfBody, Arriving
<1>4. ASSUME NEW q, NEW u, NEW c \in BOOLEAN,
             stream' = [stream EXCEPT !.transit = u, !.reader = q, !.cut = c],
             \E d \in 0 .. N : Pushed(q.acc, chunks, d) /\ (q.status = "ended" /\ ~c => d = N),
             q.status = "failed" => c,
             q.status = "reading" /\ ~c => \E k \in 0 .. N + 1 : Reading(q, u, chunks, k),
             q.status = "reading" /\ c => u = <<>> /\ \E k \in 0 .. N + 1 : Stopped(q, chunks, k)
      PROVE  Fed(stream')
  <2>1. /\ stream'.answer = stream.answer /\ stream'.chunks = chunks /\ stream'.transit = u
        /\ stream'.reader = q /\ stream'.cut = c
    BY <1>1, <1>4
  <2> QED BY <1>2, <1>4, <2>1, Zenon DEF Fed
<1> HIDE DEF Cuttable, chunks, r, t, N
<1>5. CASE Receive
  <2>1. PICK n \in DOMAIN t :
          stream' = [stream EXCEPT !.transit = SubSeq(@, n + 1, Len(@)),
                                   !.reader = Read(@, SubSeq(t, 1, n), chunks)]
    BY <1>5 DEF Receive, t, chunks
  <2> DEFINE u == SubSeq(t, n + 1, Len(t))
             q == Read(r, SubSeq(t, 1, n), chunks)
             c == stream.cut
  <2>2. t \in Seq(BytesOf(N)) /\ n \in 1 .. Len(t)
    <3>1. t \in Seq(BytesOf(N))
      BY DEF IsStream, t, N, chunks
    <3> QED BY <2>1, <3>1
  <2>3. t # <<>>
    BY <2>2
  <2>4. ~c
    BY <1>1, <1>2, <1>3, <2>3
  <2>5. PICK k \in 0 .. N + 1 : Reading(r, t, chunks, k)
    BY <1>2, <1>3, <2>4
  <2>6. PICK j \in 0 .. N + 2 : Reading(q, u, chunks, j)
    <3>1. Len(chunks) = N
      BY DEF N
    <3> QED BY <1>1, <2>2, <2>5, <3>1, PieceRead
  <2>7. stream' = [stream EXCEPT !.transit = u, !.reader = q, !.cut = c]
    <3>1. stream' = [stream EXCEPT !.transit = u, !.reader = q]
      BY <2>1, Zenon DEF t, r
    <3> HIDE DEF u, q
    <3> QED BY <1>1, <3>1
  <2> HIDE DEF u, q
  <2>8. /\ q.status = IF j = N + 2 THEN "ended" ELSE "reading"
        /\ \E d \in 0 .. N : Pushed(q.acc, chunks, d) /\ (j = N + 2 => d = N)
    <3>1. Len(chunks) = N
      BY DEF N
    <3> QED BY <1>1, <2>6, <3>1, ReachedFacts
  <2>9. j # N + 2 => j \in 0 .. N + 1
    BY <1>1
  <2>10. "ended" # "reading" /\ "failed" # "reading" /\ "failed" # "ended" /\ c \in BOOLEAN
    BY <1>1
  <2> HIDE DEF c
  <2>11. /\ \E d \in 0 .. N : Pushed(q.acc, chunks, d) /\ (q.status = "ended" /\ ~c => d = N)
         /\ q.status = "failed" => c
         /\ q.status = "reading" /\ ~c => \E i \in 0 .. N + 1 : Reading(q, u, chunks, i)
    BY <2>6, <2>8, <2>9, <2>10
  <2> QED BY <1>4, <2>4, <2>7, <2>10, <2>11 DEF c
<1>6. CASE Cut
  <2>1. stream' = [stream EXCEPT !.transit = <<>>, !.cut = TRUE] /\ t # <<>>
    BY <1>6 DEF Cut, t
  <2> DEFINE u == <<>>
             c == TRUE
  <2>2. stream' = [stream EXCEPT !.transit = u, !.reader = r, !.cut = c]
    BY <1>1, <2>1 DEF r
  <2>3. PICK k \in 0 .. N + 1 : Reading(r, t, chunks, k)
    BY <1>1, <1>2, <1>3, <2>1
  <2>4. Stopped(r, chunks, k)
    <3>1. Len(chunks) = N /\ k \in 0 .. N + 2
      BY <1>1 DEF N
    <3> QED BY <1>1, <2>3, <3>1, ReachedFacts
  <2>5. \E d \in 0 .. N : Pushed(r.acc, chunks, d)
    BY <1>2
  <2>6. c \in BOOLEAN /\ c
    OBVIOUS
  <2> HIDE DEF u, c
  <2> QED BY <1>4, <2>2, <2>4, <2>5, <2>6 DEF u
<1>7. CASE EndOfBody
  <2> DEFINE q == ReadEnd(r, chunks)
             u == t
             c == stream.cut
  <2>1. stream' = [stream EXCEPT !.reader = q] /\ t = <<>>
    BY <1>7, Zenon DEF EndOfBody, t, r, chunks
  <2>2. Len(chunks) = N
    BY DEF N
  <2>3. c
    <3> SUFFICES ASSUME ~c PROVE FALSE
      OBVIOUS
    <3>1. PICK k \in 0 .. N + 1 : Reading(r, <<>>, chunks, k)
      BY <1>2, <1>3, <2>1
    <3> QED BY <1>1, <2>2, <3>1, EndRead
  <2>4. PICK k \in 0 .. N + 1 : Stopped(r, chunks, k)
    BY <1>2, <1>3, <2>3
  <2>5. q.status # "reading" /\ \E d \in 0 .. N : Pushed(q.acc, chunks, d)
    BY <1>1, <2>2, <2>4, EndRead
  <2>6. stream' = [stream EXCEPT !.transit = u, !.reader = q, !.cut = c]
    <3> HIDE DEF q
    <3> QED BY <1>1, <2>1 DEF t
  <2> HIDE DEF q, u, c
  <2>7. c \in BOOLEAN
    BY <1>1 DEF c
  <2> QED BY <1>4, <2>3, <2>5, <2>6, <2>7
<1> QED BY <1>5, <1>6, <1>7

-----------------------------------------------------------------------------
(* Positions in what is joined.                                             *)

\* The beginnings of a sequence.
LEMMA PrefixMore ==
  ASSUME NEW A, NEW s \in Seq(A)
  PROVE  /\ SubSeq(s, 1, 0) = <<>> /\ SubSeq(s, 1, Len(s)) = s
         /\ \A n \in 0 .. Len(s) : SubSeq(s, 1, n) \in Seq(A) /\ Len(SubSeq(s, 1, n)) = n
         /\ \A n \in Nat : n + 1 <= Len(s) =>
              s[n + 1] \in A /\ SubSeq(s, 1, n + 1) = Append(SubSeq(s, 1, n), s[n + 1])
<1>1. SubSeq(s, 1, 0) = <<>> /\ SubSeq(s, 1, Len(s)) = s
  OBVIOUS
<1>2. ASSUME NEW n \in 0 .. Len(s) PROVE SubSeq(s, 1, n) \in Seq(A) /\ Len(SubSeq(s, 1, n)) = n
  OBVIOUS
<1>3. ASSUME NEW n \in Nat, n + 1 <= Len(s)
      PROVE  s[n + 1] \in A /\ SubSeq(s, 1, n + 1) = Append(SubSeq(s, 1, n), s[n + 1])
  <2> DEFINE u == SubSeq(s, 1, n + 1)
             v == SubSeq(s, 1, n)
             w == Append(v, s[n + 1])
  <2>0. /\ s[n + 1] \in A /\ 1 \in Nat /\ n \in Int /\ n + 1 \in Int /\ n <= Len(s)
    <3>1. Len(s) \in Nat /\ n + 1 \in 1 .. Len(s)
      BY <1>3
    <3> QED BY <3>1
  <2>1. u \in Seq(A) /\ Len(u) = n + 1 /\ \A i \in 1 .. n + 1 : u[i] = s[i]
    <3> DEFINE e == n + 1
               a == 1
    <3>1. /\ a \in Nat /\ e \in Int /\ a >= 1 /\ e >= a - 1 /\ e <= Len(s) /\ e - a + 1 = n + 1
          /\ \A i \in 1 .. n + 1 : a - 1 + i = i
      BY <1>3, <2>0
    <3> HIDE DEF e, a
    <3>2. /\ SubSeq(s, a, e) \in Seq(A) /\ Len(SubSeq(s, a, e)) = e - a + 1
          /\ \A i \in 1 .. e - a + 1 : SubSeq(s, a, e)[i] = s[a - 1 + i]
      BY <3>1, PartFacts
    <3>3. SubSeq(s, a, e) = u
      BY DEF a, e
    <3> QED BY <3>1, <3>2, <3>3
  <2>2. v \in Seq(A) /\ Len(v) = n /\ \A i \in 1 .. n : v[i] = s[i]
    <3> DEFINE a == 1
    <3>1. /\ a \in Nat /\ n \in Int /\ a >= 1 /\ n >= a - 1 /\ n <= Len(s) /\ n - a + 1 = n
          /\ \A i \in 1 .. n : a - 1 + i = i
      BY <1>3, <2>0
    <3> HIDE DEF a
    <3>2. /\ SubSeq(s, a, n) \in Seq(A) /\ Len(SubSeq(s, a, n)) = n - a + 1
          /\ \A i \in 1 .. n - a + 1 : SubSeq(s, a, n)[i] = s[a - 1 + i]
      BY <3>1, PartFacts
    <3>3. SubSeq(s, a, n) = v
      BY DEF a
    <3> QED BY <3>1, <3>2, <3>3
  <2> HIDE DEF u, v
  <2>3. w \in Seq(A) /\ Len(w) = n + 1 /\ \A i \in 1 .. n + 1 : w[i] = s[i]
    BY <2>0, <2>1, <2>2
  <2> HIDE DEF w
  <2>4. u = w
    BY <2>1, <2>3, SeqEqual
  <2> QED BY <2>0, <2>4 DEF u, v, w
<1> QED BY <1>1, <1>2, <1>3

\* Where each element has one image, the images are in the same order.
LEMMA SinglesMapped ==
  ASSUME NEW A, NEW B, NEW F \in ToSeqs(A, B), NEW s \in Seq(A), NEW t \in Seq(B),
         Len(t) = Len(s), \A i \in 1 .. Len(s) : F[s[i]] = <<t[i]>>
  PROVE  FlatMap(s, F) = t
<1> DEFINE P == {n \in Nat : n <= Len(s) => FlatMap(SubSeq(s, 1, n), F) = SubSeq(t, 1, n)}
<1>1. 0 \in P
  <2>1. SubSeq(s, 1, 0) = <<>> /\ SubSeq(t, 1, 0) = <<>>
    BY PrefixMore
  <2>2. FlatMap(<<>>, F) = <<>>
    BY FlatMapUnfolds
  <2> QED BY <2>1, <2>2
<1>2. ASSUME NEW n \in Nat, n \in P PROVE n + 1 \in P
  <2> SUFFICES ASSUME n + 1 <= Len(s) PROVE FlatMap(SubSeq(s, 1, n + 1), F) = SubSeq(t, 1, n + 1)
    OBVIOUS
  <2> DEFINE u == SubSeq(s, 1, n)
             v == SubSeq(t, 1, n)
  <2>1. n \in 0 .. Len(s) /\ n <= Len(s) /\ n + 1 \in 1 .. Len(s)
    OBVIOUS
  <2>2. /\ u \in Seq(A) /\ s[n + 1] \in A /\ SubSeq(s, 1, n + 1) = Append(u, s[n + 1])
        /\ v \in Seq(B) /\ t[n + 1] \in B /\ SubSeq(t, 1, n + 1) = Append(v, t[n + 1])
    BY <2>1, PrefixMore
  <2>3. FlatMap(u, F) = v
    BY <1>2, <2>1
  <2> HIDE DEF u, v
  <2>4. FlatMap(Append(u, s[n + 1]), F) = FlatMap(u, F) \o F[s[n + 1]]
    <3>1. \A x \in A : FlatMap(Append(u, x), F) = FlatMap(u, F) \o F[x]
      BY <2>2, FlatMapUnfolds
    <3> QED BY <2>2, <3>1, Zenon
  <2>5. F[s[n + 1]] = <<t[n + 1]>>
    BY <2>1
  <2>6. v \o <<t[n + 1]>> = Append(v, t[n + 1])
    BY <2>2, ConcatFacts
  <2> QED BY <2>2, <2>3, <2>4, <2>5, <2>6
<1>3. Nat \subseteq P
  <2> HIDE DEF P
  <2> QED BY <1>1, <1>2, NatInduct
<1>4. Len(s) \in Nat
  OBVIOUS
<1>5. FlatMap(SubSeq(s, 1, Len(s)), F) = SubSeq(t, 1, Len(s))
  BY <1>3, <1>4
<1>6. SubSeq(s, 1, Len(s)) = s /\ SubSeq(t, 1, Len(t)) = t
  BY PrefixMore
<1> QED BY <1>5, <1>6

\* Where no element has an image, there is nothing to join.
LEMMA SilentMapped ==
  ASSUME NEW A, NEW B, NEW F \in ToSeqs(A, B), NEW s \in Seq(A),
         \A i \in 1 .. Len(s) : F[s[i]] = <<>>
  PROVE  FlatMap(s, F) = <<>>
<1> DEFINE P == {n \in Nat : n <= Len(s) => FlatMap(SubSeq(s, 1, n), F) = <<>>}
<1>1. 0 \in P
  <2>1. SubSeq(s, 1, 0) = <<>>
    BY PrefixMore
  <2>2. FlatMap(<<>>, F) = <<>>
    BY FlatMapUnfolds
  <2> QED BY <2>1, <2>2
<1>2. ASSUME NEW n \in Nat, n \in P PROVE n + 1 \in P
  <2> SUFFICES ASSUME n + 1 <= Len(s) PROVE FlatMap(SubSeq(s, 1, n + 1), F) = <<>>
    OBVIOUS
  <2> DEFINE u == SubSeq(s, 1, n)
  <2>1. n \in 0 .. Len(s) /\ n <= Len(s) /\ n + 1 \in 1 .. Len(s)
    OBVIOUS
  <2>2. /\ u \in Seq(A) /\ s[n + 1] \in A /\ SubSeq(s, 1, n + 1) = Append(u, s[n + 1])
    BY <2>1, PrefixMore
  <2>3. FlatMap(u, F) = <<>> /\ F[s[n + 1]] = <<>>
    BY <1>2, <2>1
  <2> HIDE DEF u
  <2>4. FlatMap(Append(u, s[n + 1]), F) = FlatMap(u, F) \o F[s[n + 1]]
    BY <2>2, FlatMapUnfolds
  <2>5. <<>> \o <<>> = <<>>
    OBVIOUS
  <2> QED BY <2>2, <2>3, <2>4, <2>5
<1>3. Nat \subseteq P
  <2> HIDE DEF P
  <2> QED BY <1>1, <1>2, NatInduct
<1>4. Len(s) \in Nat
  OBVIOUS
<1>5. FlatMap(SubSeq(s, 1, Len(s)), F) = <<>>
  BY <1>3, <1>4
<1>6. SubSeq(s, 1, Len(s)) = s
  BY PrefixMore
<1> QED BY <1>5, <1>6

-----------------------------------------------------------------------------
(* Numbers in order.                                                        *)

Numbered(n) == [i \in 1 .. n |-> i]
Chosen(S) == [i \in Nat |-> IF i \in S THEN <<i>> ELSE <<>>]

\* The numbers of a set, in order, as images.
LEMMA InOrderAs ==
  ASSUME NEW n \in Nat, NEW S \in SUBSET (1 .. n), n \in S \/ n = 0
  PROVE  /\ InOrder(S) = FlatMap(Numbered(n), Chosen(S))
         /\ Chosen(S) \in ToSeqs(Nat, Nat)
<1> DEFINE m == Max(S \cup {0})
           f == [i \in DOMAIN Numbered(m) |->
                   IF Numbered(m)[i] \in S THEN <<Numbered(m)[i]>> ELSE <<>>]
           g == [i \in DOMAIN Numbered(n) |-> Chosen(S)[Numbered(n)[i]]]
<1>1. m = n
  <2>1. S \cup {0} \in SUBSET (0 .. n) /\ S \cup {0} # {} /\ n \in S \cup {0}
    OBVIOUS
  <2>2. m \in S \cup {0} /\ \A i \in S \cup {0} : i <= m
    BY <2>1, MaxIsGreatest
  <2>3. m \in 0 .. n /\ n <= m
    <3> HIDE DEF m
    <3> QED BY <2>1, <2>2
  <2> HIDE DEF m
  <2> QED BY <2>3
<1>2. InOrder(S) = FlattenSeq(f)
  BY DEF InOrder, Filter, Each, Numbered
<1>3. f = g
  <2> HIDE DEF m
  <2> QED BY <1>1 DEF Numbered, Chosen
<1>4. \A i \in Nat : <<i>> \in Seq(Nat)
  OBVIOUS
<1>5. Chosen(S) \in ToSeqs(Nat, Nat)
  BY <1>4 DEF Chosen, ToSeqs
<1> HIDE DEF f, g
<1> QED BY <1>2, <1>3, <1>5, Zenon DEF FlatMap, g

\* All numbers up to n, in order.
LEMMA InOrderAll ==
  ASSUME NEW n \in Nat
  PROVE  InOrder(1 .. n) = Numbered(n)
<1> DEFINE S == 1 .. n
<1>1. S \in SUBSET (1 .. n) /\ (n \in S \/ n = 0)
  OBVIOUS
<1>2. Numbered(n) \in Seq(Nat) /\ Len(Numbered(n)) = n
  BY DEF Numbered
<1>3. \A i \in 1 .. n : Chosen(S)[Numbered(n)[i]] = <<Numbered(n)[i]>>
  BY DEF Chosen, Numbered
<1>3a. Chosen(S) \in ToSeqs(Nat, Nat) /\ InOrder(S) = FlatMap(Numbered(n), Chosen(S))
  <2> HIDE DEF S
  <2> QED BY <1>1, InOrderAs
<1> HIDE DEF S
<1>4. FlatMap(Numbered(n), Chosen(S)) = Numbered(n)
  BY <1>2, <1>3, <1>3a, SinglesMapped
<1> QED BY <1>3a, <1>4 DEF S

\* q rises, has only elements of S up to k, and ends with k if it can.
Rising(q, S, k) ==
  /\ q \in Seq(Nat)
  /\ \A i \in 1 .. Len(q) : q[i] \in S /\ q[i] <= k
  /\ \A i \in 1 .. Len(q) : i > 1 => q[i - 1] < q[i]
  /\ k \in S => Len(q) > 0 /\ q[Len(q)] = k

\* Numbers in order rise.
LEMMA InOrderRises ==
  ASSUME NEW n \in Nat, NEW S \in SUBSET (1 .. n), n \in S
  PROVE  Rising(InOrder(S), S, n)
<1> DEFINE F == Chosen(S)
           P == {k \in Nat : Rising(FlatMap(Numbered(k), F), S, k)}
<1>1. F \in ToSeqs(Nat, Nat) /\ InOrder(S) = FlatMap(Numbered(n), F)
  BY InOrderAs
<1>2. 0 \in P
  <2>1. Numbered(0) = <<>>
    BY DEF Numbered
  <2>2. FlatMap(<<>>, F) = <<>>
    <3> HIDE DEF F
    <3>1. <<>> \in Seq(Nat)
      OBVIOUS
    <3> QED BY <1>1, <3>1, FlatMapUnfolds
  <2>3. <<>> \in Seq(Nat) /\ Len(<<>>) = 0 /\ 1 .. 0 = {} /\ 0 \notin S
    OBVIOUS
  <2>4. Rising(<<>>, S, 0)
    BY <2>3 DEF Rising
  <2> QED BY <2>1, <2>2, <2>4
<1>3. ASSUME NEW k \in Nat, k \in P PROVE k + 1 \in P
  <2> DEFINE q == FlatMap(Numbered(k), F)
             r == FlatMap(Numbered(k + 1), F)
  <2>1. Numbered(k) \in Seq(Nat) /\ Numbered(k + 1) = Append(Numbered(k), k + 1) /\ k + 1 \in Nat
    BY DEF Numbered
  <2>2. r = q \o F[k + 1]
    <3> HIDE DEF F
    <3>1. \A x \in Nat : FlatMap(Append(Numbered(k), x), F) = FlatMap(Numbered(k), F) \o F[x]
      <4> DEFINE M == Nat
      <4>1. F \in ToSeqs(M, M) /\ Numbered(k) \in Seq(M)
        BY <1>1, <2>1
      <4> HIDE DEF M
      <4>2. \A x \in M : FlatMap(Append(Numbered(k), x), F) = FlatMap(Numbered(k), F) \o F[x]
        BY <4>1, FlatMapUnfolds
      <4> QED BY <4>2 DEF M
    <3> QED BY <2>1, <3>1, Zenon
  <2>3. F[k + 1] = IF k + 1 \in S THEN <<k + 1>> ELSE <<>>
    BY <2>1 DEF Chosen
  <2>4. Rising(q, S, k)
    BY <1>3
  <2> HIDE DEF F, q, r
  <2>5. CASE k + 1 \in S
    <3>1. q \in Seq(Nat)
      BY <2>4 DEF Rising
    <3>2. r = Append(q, k + 1)
      <4>1. q \o <<k + 1>> = Append(q, k + 1)
        BY <2>1, <3>1, ConcatFacts
      <4> QED BY <2>2, <2>3, <2>5, <4>1
    <3> DEFINE L == Len(q)
    <3>3. L \in Nat /\ r \in Seq(Nat) /\ Len(r) = L + 1 /\ r[L + 1] = k + 1 /\ \A i \in 1 .. L : r[i] = q[i]
      BY <2>1, <3>1, <3>2
    <3> HIDE DEF L
    <3>4. /\ \A i \in 1 .. L : q[i] \in S /\ q[i] <= k /\ q[i] \in Nat
          /\ \A i \in 1 .. L : i > 1 => q[i - 1] < q[i]
      BY <2>4, <3>1 DEF Rising, L
    <3>5. ASSUME NEW i \in 1 .. L + 1 PROVE r[i] \in S /\ r[i] <= k + 1 /\ (i > 1 => r[i - 1] < r[i])
      <4>1. CASE i = L + 1
        <5>1. i > 1 => i - 1 \in 1 .. L /\ r[i - 1] = q[i - 1] /\ q[i - 1] <= k /\ q[i - 1] \in Nat
          <6>1. i > 1 => i - 1 \in 1 .. L
            BY <3>3, <4>1
          <6> QED BY <3>3, <3>4, <6>1
        <5> QED BY <2>5, <3>3, <4>1, <5>1
      <4>2. CASE i # L + 1
        <5>1. i \in 1 .. L /\ (i > 1 => i - 1 \in 1 .. L)
          BY <3>3, <4>2
        <5>2. r[i] = q[i] /\ (i > 1 => r[i - 1] = q[i - 1])
          BY <3>3, <5>1
        <5>3. q[i] \in S /\ q[i] <= k /\ q[i] \in Nat /\ (i > 1 => q[i - 1] < q[i])
          BY <3>4, <5>1
        <5> QED BY <5>2, <5>3
      <4> QED BY <4>1, <4>2
    <3>6. Rising(r, S, k + 1)
      BY <3>3, <3>5 DEF Rising
    <3> QED BY <2>1, <3>6 DEF r
  <2>6. CASE k + 1 \notin S
    <3>1. q \in Seq(Nat)
      BY <2>4 DEF Rising
    <3>2. r = q
      BY <2>2, <2>3, <2>6, <3>1
    <3>3. Rising(q, S, k + 1)
      <4>1. \A i \in 1 .. Len(q) : q[i] \in Nat
        BY <3>1
      <4> QED BY <2>4, <2>6, <4>1 DEF Rising
    <3> QED BY <2>1, <3>2, <3>3 DEF r
  <2> QED BY <2>5, <2>6
<1>4. Nat \subseteq P
  <2> HIDE DEF P
  <2> QED BY <1>2, <1>3, NatInduct
<1> QED BY <1>1, <1>4

\* The values of a map whose indices are the first numbers.
LEMMA ValuesNumbered ==
  ASSUME NEW n \in Nat, NEW map, DOMAIN map = 1 .. n
  PROVE  Values(map) = [i \in 1 .. n |-> map[i]]
<1>1. InOrder(DOMAIN map) = Numbered(n)
  BY InOrderAll
<1>2. DOMAIN Numbered(n) = 1 .. n /\ \A i \in 1 .. n : Numbered(n)[i] = i
  BY DEF Numbered
<1>3. Values(map) = [k \in DOMAIN Numbered(n) |-> map[Numbered(n)[k]]]
  BY <1>1 DEF Values
<1> QED BY <1>2, <1>3

\* A sequence and what follows it.
LEMMA PrefixOfJoined ==
  ASSUME NEW A, NEW s \in Seq(A), NEW t \in Seq(A)
  PROVE  IsPrefix(s, s \o t)
<1> DEFINE u == s \o t
           v == SubSeq(s, 1, Len(s))
           w == SubSeq(u, 1, Len(s))
<1>1. u \in Seq(A) /\ JoinOf(u, s, t)
  BY JoinedElements, Zenon
<1>2. Len(s) \in Nat /\ Len(t) \in Nat
  OBVIOUS
<1>3. Len(u) = Len(s) + Len(t) /\ \A i \in 1 .. Len(s) : u[i] = s[i]
  BY <1>1, Zenon DEF JoinOf
<1> HIDE DEF u
<1>4. Len(s) <= Len(u) /\ 1 \in Nat /\ Len(s) \in 0 .. Len(s) /\ Len(s) \in 0 .. Len(u)
  BY <1>2, <1>3
<1>5. v = s /\ w \in Seq(A) /\ Len(w) = Len(s)
  BY <1>1, <1>4, PrefixMore
<1>6. \A i \in 1 .. Len(s) : w[i] = s[i]
  <2> DEFINE e == Len(s)
             a == 1
  <2>1. a \in Nat /\ e \in Int /\ a >= 1 /\ e >= a - 1 /\ e <= Len(u) /\ e - a + 1 = e
        /\ \A i \in 1 .. e : a - 1 + i = i
    BY <1>2, <1>4
  <2> HIDE DEF e, a
  <2>2. \A i \in 1 .. e - a + 1 : SubSeq(u, a, e)[i] = u[a - 1 + i]
    BY <1>1, <2>1, PartFacts
  <2>3. \A i \in 1 .. e : SubSeq(u, a, e)[i] = u[i]
    BY <2>1, <2>2
  <2> QED BY <1>3, <2>3 DEF a, e
<1> HIDE DEF w
<1>7. w = s
  BY <1>5, <1>6, SeqEqual
<1> QED BY <1>4, <1>5, <1>7 DEF IsPrefix, u, w

-----------------------------------------------------------------------------
(* What the host is told.                                                   *)

\* Whatever a host can be told.
Words == STRING \cup Finishes

Speaks(type) == [l \in Lives |-> IF l.type = type THEN l.value ELSE <<>>]
Argues(id) ==
  [l \in Lives |-> IF l.type = "tool_call_arguments_delta" /\ l.value[1] = id
                   THEN Tail(l.value) ELSE <<>>]
ToldBy(live, type) == FlatMap(live, Speaks(type))
ArguedBy(live, id) == FlatMap(live, Argues(id))

\* Their types.
LEMMA SpeaksTypes ==
  /\ \A type : Speaks(type) \in ToSeqs(Lives, Words)
  /\ \A id : Argues(id) \in ToSeqs(Lives, Words)
<1> DEFINE W == Seq(Words)
<1>1. \A l \in Lives : l.value \in W
  <2>1. Seq(Finishes) \subseteq W
    <3> DEFINE S == Words
    <3>1. Finishes \subseteq S
      BY DEF Words
    <3> HIDE DEF S
    <3>2. Seq(Finishes) \subseteq Seq(S)
      BY <3>1
    <3> QED BY <3>2 DEF S
  <2>2. Texts \subseteq W
    <3> DEFINE S == Words
               R == STRING
    <3>1. R \subseteq S
      BY DEF Words
    <3> HIDE DEF S, R
    <3>2. Seq(R) \subseteq Seq(S)
      BY <3>1
    <3> QED BY <3>2 DEF S, R, Texts
  <2> HIDE DEF W
  <2> QED BY <2>1, <2>2 DEF Lives
<1>2. <<>> \in W
  OBVIOUS
<1>3. \A v \in W : Tail(v) \in W
  <2> DEFINE S == Words
  <2>1. ASSUME NEW v \in Seq(S) PROVE Tail(v) \in Seq(S)
    <3> HIDE DEF S
    <3>1. CASE v = <<>>
      <4>1. Tail(v) = [i \in 1 .. Len(v) - 1 |-> v[i + 1]]
        BY <3>1
      <4> QED BY <3>1, <4>1
    <3>2. CASE v # <<>>
      BY <3>2
    <3> QED BY <3>1, <3>2
  <2> QED BY <2>1
<1> HIDE DEF W
<1>4. \A type : Speaks(type) \in [Lives -> W]
  BY <1>1, <1>2 DEF Speaks
<1>5. \A id : Argues(id) \in [Lives -> W]
  BY <1>1, <1>2, <1>3 DEF Argues
<1> QED BY <1>4, <1>5, Zenon DEF ToSeqs, W

\* What is told once more.
LEMMA MoreTold ==
  ASSUME NEW live \in Seq(Lives), NEW l \in Lives
  PROVE  /\ Append(live, l) \in Seq(Lives)
         /\ \A type : ToldBy(Append(live, l), type)
                        = ToldBy(live, type) \o (IF l.type = type THEN l.value ELSE <<>>)
         /\ \A id : ArguedBy(Append(live, l), id)
                      = ArguedBy(live, id)
                        \o (IF l.type = "tool_call_arguments_delta" /\ l.value[1] = id
                            THEN Tail(l.value) ELSE <<>>)
<1>1. Append(live, l) \in Seq(Lives)
  OBVIOUS
<1>2. ASSUME NEW F \in ToSeqs(Lives, Words) PROVE FlatMap(Append(live, l), F) = FlatMap(live, F) \o F[l]
  <2> DEFINE A == Lives
             B == Words
  <2>1. F \in ToSeqs(A, B) /\ live \in Seq(A) /\ l \in A
    OBVIOUS
  <2> HIDE DEF A, B
  <2>2. FlatMap(Append(live, l), F) = FlatMap(live, F) \o F[l]
    BY <2>1, FlatMapUnfolds
  <2> QED BY <2>2
<1>3. /\ \A type : Speaks(type)[l] = IF l.type = type THEN l.value ELSE <<>>
      /\ \A id : Argues(id)[l] = IF l.type = "tool_call_arguments_delta" /\ l.value[1] = id
                                 THEN Tail(l.value) ELSE <<>>
  BY DEF Speaks, Argues
<1>4. ASSUME NEW type
      PROVE  ToldBy(Append(live, l), type)
               = ToldBy(live, type) \o (IF l.type = type THEN l.value ELSE <<>>)
  <2>1. FlatMap(Append(live, l), Speaks(type)) = FlatMap(live, Speaks(type)) \o Speaks(type)[l]
    BY <1>2, SpeaksTypes
  <2> QED BY <1>3, <2>1, Zenon DEF ToldBy
<1>5. ASSUME NEW id
      PROVE  ArguedBy(Append(live, l), id)
               = ArguedBy(live, id)
                 \o (IF l.type = "tool_call_arguments_delta" /\ l.value[1] = id
                     THEN Tail(l.value) ELSE <<>>)
  <2>1. FlatMap(Append(live, l), Argues(id)) = FlatMap(live, Argues(id)) \o Argues(id)[l]
    BY <1>2, SpeaksTypes
  <2> QED BY <1>3, <2>1, Zenon DEF ArguedBy
<1> QED BY <1>1, <1>4, <1>5

\* What is told is text.
LEMMA ToldTypes ==
  ASSUME NEW live \in Seq(Lives)
  PROVE  /\ \A type : ToldBy(live, type) \in Seq(Words)
         /\ \A id : ArguedBy(live, id) \in Seq(Words)
         /\ \A type : ToldBy(<<>>, type) = <<>>
         /\ \A id : ArguedBy(<<>>, id) = <<>>
<1> DEFINE A == Lives
           B == Words
<1>1. /\ \A type : Speaks(type) \in ToSeqs(A, B)
      /\ \A id : Argues(id) \in ToSeqs(A, B)
      /\ live \in Seq(A)
  BY SpeaksTypes
<1> HIDE DEF A, B
<1>2. \A F \in ToSeqs(A, B) : FlatMap(live, F) \in Seq(B) /\ FlatMap(<<>>, F) = <<>>
  BY <1>1, FlatMapUnfolds
<1> QED BY <1>1, <1>2, Zenon DEF ToldBy, ArguedBy, B

\* t is what acc becomes when the host is told a value, one of the given type.
Tells(t, acc, type, value) ==
  /\ t.content = acc.content /\ t.reasoning = acc.reasoning /\ t.calls = acc.calls
  /\ t.details = acc.details /\ t.finish = acc.finish /\ t.chunks = acc.chunks
  /\ ToldBy(t.live, type) = ToldBy(acc.live, type) \o value
  /\ \A other : other # type => ToldBy(t.live, other) = ToldBy(acc.live, other)
  /\ type # "tool_call_arguments_delta" =>
       \A id : ArguedBy(t.live, id) = ArguedBy(acc.live, id)

\* What t tells of a call's arguments, and acc does not.
ArguesMore(t, acc, type, value) ==
  \A id : ArguedBy(t.live, id)
            = ArguedBy(acc.live, id)
              \o (IF type = "tool_call_arguments_delta" /\ value[1] = id THEN Tail(value) ELSE <<>>)

\* The host is told.
LEMMA TellTells ==
  ASSUME NEW answer, NEW acc, IsAccumulator(acc, answer), NEW type, NEW value,
         value # <<>> => Live(type, value) \in Lives
  PROVE  /\ IsAccumulator(Tell(acc, type, value), answer)
         /\ Tells(Tell(acc, type, value), acc, type, value)
         /\ value # <<>> => ArguesMore(Tell(acc, type, value), acc, type, value)
<1> DEFINE t == Tell(acc, type, value)
           l == Live(type, value)
<1>1. IsAccumulator(t, answer) /\ \A x \in AccumulatorFields \ {"live"} : t[x] = acc[x]
  BY TellTypes
<1>2. acc.live \in Seq(Lives) /\ DOMAIN acc = AccumulatorFields
  BY DEF IsAccumulator, EmptyAccumulator, AccumulatorFields
<1>3. value = <<>> => t = acc
  BY DEF Tell
<1>4. value # <<>> => t.live = Append(acc.live, l)
  <2> DEFINE v == Append(acc.live, l)
  <2>1. value # <<>> => t = [acc EXCEPT !.live = v]
    BY Zenon DEF Tell
  <2> HIDE DEF v, t
  <2> QED BY <1>2, <2>1 DEF AccumulatorFields, v
<1>5. l.type = type /\ l.value = value
  BY DEF Live
<1> HIDE DEF t, l
<1>6. /\ t.content = acc.content /\ t.reasoning = acc.reasoning /\ t.calls = acc.calls
      /\ t.details = acc.details /\ t.finish = acc.finish /\ t.chunks = acc.chunks
  BY <1>1 DEF AccumulatorFields
<1>7. \A s \in Seq(Words) : s \o <<>> = s
  OBVIOUS
<1>8. /\ \A ty : ToldBy(acc.live, ty) \in Seq(Words)
      /\ \A id : ArguedBy(acc.live, id) \in Seq(Words)
  BY <1>2, ToldTypes
<1>9. CASE value = <<>>
  <2>1. t = acc
    BY <1>3, <1>9
  <2>2. Tells(t, acc, type, value)
    BY <1>7, <1>8, <1>9, <2>1, Zenon DEF Tells
  <2> QED BY <1>1, <1>9, <2>2 DEF t
<1>10. CASE value # <<>>
  <2>1. l \in Lives /\ t.live = Append(acc.live, l)
    BY <1>4, <1>10 DEF l
  <2>2. /\ \A ty : ToldBy(t.live, ty)
                        = ToldBy(acc.live, ty) \o (IF type = ty THEN value ELSE <<>>)
        /\ \A id : ArguedBy(t.live, id)
                      = ArguedBy(acc.live, id)
                        \o (IF type = "tool_call_arguments_delta" /\ value[1] = id
                            THEN Tail(value) ELSE <<>>)
    <3>1. /\ \A ty : ToldBy(Append(acc.live, l), ty)
                        = ToldBy(acc.live, ty) \o (IF l.type = ty THEN l.value ELSE <<>>)
          /\ \A id : ArguedBy(Append(acc.live, l), id)
                      = ArguedBy(acc.live, id)
                        \o (IF l.type = "tool_call_arguments_delta" /\ l.value[1] = id
                            THEN Tail(l.value) ELSE <<>>)
      BY <1>2, <2>1, MoreTold
    <3> QED BY <1>5, <2>1, <3>1, Zenon
  <2>3. ToldBy(t.live, type) = ToldBy(acc.live, type) \o value
    BY <2>2, Zenon
  <2>4. \A other : other # type => ToldBy(t.live, other) = ToldBy(acc.live, other)
    <3>1. \A other : other # type => ToldBy(t.live, other) = ToldBy(acc.live, other) \o <<>>
      BY <2>2, Zenon
    <3> QED BY <1>7, <1>8, <3>1, Zenon
  <2>5. type # "tool_call_arguments_delta" => \A id : ArguedBy(t.live, id) = ArguedBy(acc.live, id)
    <3>1. type # "tool_call_arguments_delta" =>
            \A id : ArguedBy(t.live, id) = ArguedBy(acc.live, id) \o <<>>
      BY <2>2, Zenon
    <3> QED BY <1>7, <1>8, <3>1, Zenon
  <2>6. Tells(t, acc, type, value)
    BY <1>6, <2>3, <2>4, <2>5, Zenon DEF Tells
  <2>7. ArguesMore(t, acc, type, value)
    BY <2>2, Zenon DEF ArguesMore
  <2> QED BY <1>1, <2>6, <2>7, Zenon DEF t
<1> QED BY <1>9, <1>10

-----------------------------------------------------------------------------
(* Fields of what is joined.                                                *)

\* JoinedText and LastGiven, of a field given as a function.
TextsIn(F) == [x \in DOMAIN F |-> TextOf(F[x])]
GivenIn(F) == [x \in DOMAIN F |-> IF F[x] = None THEN <<>> ELSE <<F[x]>>]
TextBy(s, F) == IF \A i \in DOMAIN s : F[s[i]] = None THEN None ELSE FlatMap(s, TextsIn(F))
LastBy(s, F) == LET given == FlatMap(s, GivenIn(F)) IN IF given = <<>> THEN None ELSE Last(given)

\* One more text.
LEMMA TextMore ==
  ASSUME NEW A, NEW F \in [A -> Maybe(Texts)], NEW s \in Seq(A), None \notin Texts
  PROVE  /\ TextsIn(F) \in ToSeqs(A, STRING)
         /\ TextBy(<<>>, F) = None /\ TextBy(s, F) \in Maybe(Texts)
         /\ TextOf(TextBy(s, F)) = FlatMap(s, TextsIn(F))
         /\ \A x \in A : TextBy(Append(s, x), F) = Grown(TextBy(s, F), F[x])
<1> DEFINE G == TextsIn(F)
           S == STRING
<1>1. G \in ToSeqs(A, S) /\ \A x \in A : G[x] = TextOf(F[x])
  <2>1. \A x \in A : TextOf(F[x]) \in Texts
    BY TextTyped
  <2> DEFINE T == Texts
  <2>2. [x \in A |-> TextOf(F[x])] \in [A -> T]
    BY <2>1
  <2>3. G = [x \in A |-> TextOf(F[x])] /\ \A x \in A : G[x] = TextOf(F[x])
    BY DEF TextsIn
  <2> HIDE DEF G
  <2> QED BY <2>2, <2>3, Zenon DEF ToSeqs, Texts
<1>2. FlatMap(<<>>, G) = <<>> /\ FlatMap(s, G) \in Seq(S)
      /\ \A x \in A : FlatMap(Append(s, x), G) = FlatMap(s, G) \o G[x]
  <2> HIDE DEF G, S
  <2> QED BY <1>1, FlatMapUnfolds
<1>3. TextBy(<<>>, F) = None
  BY DEF TextBy
<1>4. ASSUME \A i \in DOMAIN s : F[s[i]] = None PROVE FlatMap(s, G) = <<>>
  <2>1. TextOf(None) = <<>>
    BY DEF TextOf
  <2>2. \A i \in 1 .. Len(s) : s[i] \in A /\ F[s[i]] = None
    BY <1>4
  <2>3. \A i \in 1 .. Len(s) : G[s[i]] = <<>>
    BY <1>1, <2>1, <2>2
  <2> HIDE DEF G, S
  <2> QED BY <1>1, <2>3, SilentMapped
<1>5. TextBy(s, F) = (IF \A i \in DOMAIN s : F[s[i]] = None THEN None ELSE FlatMap(s, G))
  BY DEF TextBy
<1>6. TextOf(TextBy(s, F)) = FlatMap(s, G) /\ TextBy(s, F) \in Maybe(Texts)
  <2>1. FlatMap(s, G) \in Texts /\ FlatMap(s, G) # None
    BY <1>2 DEF Texts
  <2> HIDE DEF G
  <2> QED BY <1>4, <1>5, <2>1 DEF TextOf, Maybe
<1>7. ASSUME NEW x \in A PROVE TextBy(Append(s, x), F) = Grown(TextBy(s, F), F[x])
  <2>1. TextBy(Append(s, x), F)
          = (IF \A i \in DOMAIN Append(s, x) : F[Append(s, x)[i]] = None THEN None
             ELSE FlatMap(s, G) \o G[x])
    <3>1. TextBy(Append(s, x), F)
            = (IF \A i \in DOMAIN Append(s, x) : F[Append(s, x)[i]] = None THEN None
               ELSE FlatMap(Append(s, x), G))
      BY Zenon DEF TextBy
    <3> QED BY <1>2, <3>1
  <2>2. (\A i \in DOMAIN Append(s, x) : F[Append(s, x)[i]] = None)
          <=> (\A i \in DOMAIN s : F[s[i]] = None) /\ F[x] = None
    <3>1. /\ DOMAIN Append(s, x) = 1 .. Len(s) + 1 /\ DOMAIN s = 1 .. Len(s) /\ Len(s) \in Nat
          /\ Append(s, x)[Len(s) + 1] = x /\ \A i \in 1 .. Len(s) : Append(s, x)[i] = s[i]
      OBVIOUS
    <3> QED BY <3>1
  <2>3. G[x] = TextOf(F[x]) /\ F[x] \in Maybe(Texts)
    BY <1>1
  <2> HIDE DEF G
  <2>4. CASE F[x] = None
    <3>1. G[x] = <<>>
      BY <2>3, <2>4 DEF TextOf
    <3>2. FlatMap(s, G) \o <<>> = FlatMap(s, G)
      BY <1>2
    <3> QED BY <1>5, <2>1, <2>2, <2>4, <3>1, <3>2 DEF Grown
  <2>5. CASE F[x] # None
    <3>1. G[x] = F[x]
      BY <2>3, <2>5 DEF TextOf
    <3>2. Grown(TextBy(s, F), F[x]) = FlatMap(s, G) \o F[x]
      BY <1>6, <2>5 DEF Grown
    <3> QED BY <2>1, <2>2, <2>5, <3>1, <3>2
  <2> QED BY <2>4, <2>5
<1> QED BY <1>1, <1>2, <1>3, <1>6, <1>7

\* The text of sequences, joined.
LEMMA TextJoins ==
  ASSUME NEW A, NEW F \in [A -> Maybe(Texts)], NEW s \in Seq(A), NEW t \in Seq(A), None \notin Texts
  PROVE  TextBy(s \o t, F) = Grown(TextBy(s, F), TextBy(t, F))
<1> DEFINE G == TextsIn(F)
           S == STRING
<1>1. G \in ToSeqs(A, S) /\ s \o t \in Seq(A)
  BY TextMore
<1>2. FlatMap(s \o t, G) = FlatMap(s, G) \o FlatMap(t, G) /\ FlatMap(s, G) \in Seq(S)
  <2> HIDE DEF G, S
  <2>1. FlatMap(s \o t, G) = FlatMap(s, G) \o FlatMap(t, G)
    BY <1>1, FlatMapConcat
  <2>2. FlatMap(s, G) \in Seq(S)
    BY <1>1, FlatMapUnfolds
  <2> QED BY <2>1, <2>2
<1>3. /\ TextOf(TextBy(s, F)) = FlatMap(s, G) /\ TextOf(TextBy(t, F)) = FlatMap(t, G)
      /\ TextBy(t, F) \in Maybe(Texts)
  BY TextMore
<1>4. (\A i \in DOMAIN (s \o t) : F[(s \o t)[i]] = None)
        <=> (\A i \in DOMAIN s : F[s[i]] = None) /\ (\A i \in DOMAIN t : F[t[i]] = None)
  <2>1. JoinOf(s \o t, s, t)
    BY JoinedElements
  <2> DEFINE u == s \o t
  <2>2. /\ Len(u) = Len(s) + Len(t) /\ DOMAIN u = 1 .. Len(u)
        /\ DOMAIN s = 1 .. Len(s) /\ DOMAIN t = 1 .. Len(t) /\ Len(s) \in Nat /\ Len(t) \in Nat
        /\ \A i \in 1 .. Len(s) : u[i] = s[i]
        /\ \A i \in 1 .. Len(t) : u[Len(s) + i] = t[i]
    BY <2>1 DEF JoinOf
  <2> HIDE DEF u
  <2>3. /\ \A i \in 1 .. Len(s) : i \in 1 .. Len(u)
        /\ \A i \in 1 .. Len(t) : Len(s) + i \in 1 .. Len(u)
        /\ \A i \in 1 .. Len(u) : i \in 1 .. Len(s) \/ \E j \in 1 .. Len(t) : i = Len(s) + j
    <3>1. ASSUME NEW i \in 1 .. Len(u), i \notin 1 .. Len(s) PROVE \E j \in 1 .. Len(t) : i = Len(s) + j
      <4>1. i - Len(s) \in 1 .. Len(t) /\ i = Len(s) + (i - Len(s))
        BY <2>2, <3>1
      <4> QED BY <4>1
    <3> QED BY <2>2, <3>1
  <2>4. ASSUME \A i \in DOMAIN u : F[u[i]] = None
        PROVE  (\A i \in DOMAIN s : F[s[i]] = None) /\ (\A i \in DOMAIN t : F[t[i]] = None)
    <3>1. \A i \in 1 .. Len(u) : F[u[i]] = None
      BY <2>2, <2>4
    <3>2. \A i \in 1 .. Len(s) : F[s[i]] = None
      BY <2>2, <2>3, <3>1
    <3>3. ASSUME NEW i \in 1 .. Len(t) PROVE F[t[i]] = None
      <4>1. Len(s) + i \in 1 .. Len(u) /\ u[Len(s) + i] = t[i]
        BY <2>2, <2>3
      <4>2. F[u[Len(s) + i]] = None
        BY <3>1, <4>1
      <4> QED BY <4>1, <4>2
    <3> QED BY <2>2, <3>2, <3>3
  <2>5. ASSUME \A i \in DOMAIN s : F[s[i]] = None, \A i \in DOMAIN t : F[t[i]] = None
        PROVE  \A i \in DOMAIN u : F[u[i]] = None
    BY <2>2, <2>3, <2>5
  <2> QED BY <2>4, <2>5 DEF u
<1>5. /\ TextBy(s \o t, F) = (IF \A i \in DOMAIN (s \o t) : F[(s \o t)[i]] = None THEN None
                              ELSE FlatMap(s \o t, G))
      /\ TextBy(s, F) = (IF \A i \in DOMAIN s : F[s[i]] = None THEN None ELSE FlatMap(s, G))
      /\ TextBy(t, F) = (IF \A i \in DOMAIN t : F[t[i]] = None THEN None ELSE FlatMap(t, G))
  BY Zenon DEF TextBy
<1>6. FlatMap(t, G) \in Texts /\ \A x \in Texts : TextOf(x) = x /\ x # None
  <2>1. FlatMap(t, G) \in Texts
    <3> DEFINE B == STRING
    <3>1. FlatMap(t, G) \in Seq(B)
      <4>1. G \in ToSeqs(A, B)
        BY <1>1
      <4> HIDE DEF G, B
      <4> QED BY <4>1, FlatMapUnfolds
    <3> QED BY <3>1 DEF Texts
  <2> QED BY <2>1 DEF TextOf
<1> DEFINE x == TextBy(s, F)
           y == TextBy(t, F)
           f == FlatMap(s, G)
           g == FlatMap(t, G)
<1> HIDE DEF G
<1>7. CASE \A i \in DOMAIN t : F[t[i]] = None
  <2>1. y = None /\ g = <<>>
    <3>1. TextOf(None) = <<>>
      BY DEF TextOf
    <3> QED BY <1>3, <1>5, <1>7, <3>1
  <2>2. f \o g = f
    BY <1>2, <2>1
  <2> QED BY <1>2, <1>4, <1>5, <1>7, <2>1, <2>2 DEF Grown
<1>8. CASE ~\A i \in DOMAIN t : F[t[i]] = None
  <2>1. y = g /\ y # None
    BY <1>5, <1>6, <1>8
  <2>2. Grown(x, y) = f \o g
    BY <1>3, <2>1 DEF Grown
  <2> QED BY <1>2, <1>4, <1>5, <1>8, <2>2
<1> QED BY <1>7, <1>8

\* One more field that replaces what it gives.
LEMMA LastMore ==
  ASSUME NEW A, NEW F \in [A -> Maybe(STRING)], NEW s \in Seq(A)
  PROVE  /\ LastBy(<<>>, F) = None
         /\ \A x \in A : LastBy(Append(s, x), F) = Replaced(LastBy(s, F), F[x])
<1> DEFINE G == GivenIn(F)
           S == STRING \cup {None}
<1>1. G \in ToSeqs(A, S) /\ \A x \in A : G[x] = (IF F[x] = None THEN <<>> ELSE <<F[x]>>)
  <2>1. \A x \in A : F[x] \in S
    BY DEF Maybe
  <2>2. G = [x \in A |-> IF F[x] = None THEN <<>> ELSE <<F[x]>>]
    BY DEF GivenIn
  <2> HIDE DEF G, S
  <2>3. \A x \in A : (IF F[x] = None THEN <<>> ELSE <<F[x]>>) \in Seq(S)
    BY <2>1
  <2> DEFINE W == Seq(S)
             value(x) == IF F[x] = None THEN <<>> ELSE <<F[x]>>
  <2>4. G = [x \in A |-> value(x)] /\ \A x \in A : value(x) \in W
    BY <2>2, <2>3, Zenon
  <2> HIDE DEF W, value
  <2>5. G \in [A -> W] /\ \A x \in A : G[x] = value(x)
    BY <2>4
  <2> QED BY <2>5, Zenon DEF ToSeqs, W, value
<1>2. FlatMap(<<>>, G) = <<>> /\ FlatMap(s, G) \in Seq(S)
      /\ \A x \in A : FlatMap(Append(s, x), G) = FlatMap(s, G) \o G[x]
  <2> HIDE DEF G, S
  <2> QED BY <1>1, FlatMapUnfolds
<1>3. LastBy(<<>>, F) = None
  BY <1>2 DEF LastBy
<1>4. ASSUME NEW x \in A PROVE LastBy(Append(s, x), F) = Replaced(LastBy(s, F), F[x])
  <2> DEFINE f == FlatMap(s, G)
             g == FlatMap(Append(s, x), G)
  <2>1. g = f \o G[x] /\ f \in Seq(S) /\ F[x] \in S
    BY <1>2 DEF Maybe
  <2>2. /\ LastBy(s, F) = (IF f = <<>> THEN None ELSE Last(f))
        /\ LastBy(Append(s, x), F) = (IF g = <<>> THEN None ELSE Last(g))
    BY Zenon DEF LastBy
  <2>3. G[x] = (IF F[x] = None THEN <<>> ELSE <<F[x]>>)
    BY <1>1
  <2> HIDE DEF f, g, G, S
  <2>4. CASE F[x] = None
    BY <2>1, <2>2, <2>3, <2>4 DEF Replaced
  <2>5. CASE F[x] # None
    <3>1. g = Append(f, F[x])
      BY <2>1, <2>3, <2>5
    <3>2. Len(g) = Len(f) + 1 /\ Len(f) \in Nat /\ g[Len(f) + 1] = F[x] /\ g # <<>>
      BY <2>1, <3>1
    <3>3. Last(g) = F[x]
      BY <3>2 DEF Last
    <3> QED BY <2>2, <2>5, <3>2, <3>3 DEF Replaced
  <2> QED BY <2>4, <2>5
<1> QED BY <1>3, <1>4

-----------------------------------------------------------------------------
(* Parts of calls and of details.                                           *)

AtIndex(A, k) == [p \in A |-> IF p.index = k THEN <<p>> ELSE <<>>]

\* They are picked out one by one.
LEMMA PartsAs ==
  ASSUME NEW A, NEW k
  PROVE  /\ AtIndex(A, k) \in ToSeqs(A, A)
         /\ \A p \in A : AtIndex(A, k)[p] = IF p.index = k THEN <<p>> ELSE <<>>
         /\ \A Q \in Seq(A) : PartsOf(Q, k) = FlatMap(Q, AtIndex(A, k))
<1> DEFINE F == AtIndex(A, k)
<1>1. F \in ToSeqs(A, A) /\ \A p \in A : F[p] = (IF p.index = k THEN <<p>> ELSE <<>>)
  <2> DEFINE W == Seq(A)
             value(p) == IF p.index = k THEN <<p>> ELSE <<>>
  <2>1. ASSUME NEW p \in A PROVE value(p) \in W
    OBVIOUS
  <2>2. F = [p \in A |-> value(p)]
    BY DEF AtIndex
  <2> HIDE DEF W, value
  <2>3. F \in [A -> W] /\ \A p \in A : F[p] = value(p)
    BY <2>1, <2>2
  <2> QED BY <2>3, Zenon DEF ToSeqs, W, value
<1>2. ASSUME NEW Q \in Seq(A) PROVE PartsOf(Q, k) = FlatMap(Q, F)
  <2>1. PartsOf(Q, k) = FlattenSeq([i \in DOMAIN Q |-> IF Q[i].index = k THEN <<Q[i]>> ELSE <<>>])
    BY DEF PartsOf, Filter, Each
  <2>2. \A i \in DOMAIN Q : Q[i] \in A
    OBVIOUS
  <2>3. [i \in DOMAIN Q |-> IF Q[i].index = k THEN <<Q[i]>> ELSE <<>>] = [i \in DOMAIN Q |-> F[Q[i]]]
    BY <1>1, <2>2
  <2> QED BY <2>1, <2>3 DEF FlatMap
<1> HIDE DEF F
<1> QED BY <1>1, <1>2 DEF F

\* The parts of one index among those that came so far.
LEMMA PartsMore ==
  ASSUME NEW A, NEW P \in Seq(A), NEW k
  PROVE  /\ PartsOf(<<>>, k) = <<>> /\ PartsOf(P, k) \in Seq(A)
         /\ \A p \in A : PartsOf(Append(P, p), k)
                           = IF p.index = k THEN Append(PartsOf(P, k), p) ELSE PartsOf(P, k)
<1> DEFINE F == AtIndex(A, k)
<1>1. F \in ToSeqs(A, A) /\ \A p \in A : F[p] = IF p.index = k THEN <<p>> ELSE <<>>
  BY PartsAs
<1>2. ASSUME NEW Q \in Seq(A) PROVE PartsOf(Q, k) = FlatMap(Q, F)
  BY PartsAs
<1> HIDE DEF F
<1>3. /\ FlatMap(<<>>, F) = <<>> /\ FlatMap(P, F) \in Seq(A)
      /\ \A p \in A : FlatMap(Append(P, p), F) = FlatMap(P, F) \o F[p]
  BY <1>1, FlatMapUnfolds
<1>4. <<>> \in Seq(A) /\ PartsOf(<<>>, k) = <<>> /\ PartsOf(P, k) = FlatMap(P, F)
  <2>1. <<>> \in Seq(A) /\ P \in Seq(A)
    OBVIOUS
  <2> DEFINE none == <<>>
             all == Seq(A)
  <2> HIDE DEF none, all
  <2>2. none \in all /\ P \in all /\ \A Q \in all : PartsOf(Q, k) = FlatMap(Q, F)
    BY <1>2, <2>1 DEF none, all
  <2>3. PartsOf(none, k) = FlatMap(none, F) /\ PartsOf(P, k) = FlatMap(P, F)
    BY <2>2, Zenon
  <2> QED BY <1>3, <2>1, <2>3 DEF none
<1>5. ASSUME NEW p \in A
      PROVE  PartsOf(Append(P, p), k) = IF p.index = k THEN Append(PartsOf(P, k), p) ELSE PartsOf(P, k)
  <2>1. PartsOf(Append(P, p), k) = PartsOf(P, k) \o F[p]
    <3>1. Append(P, p) \in Seq(A)
      OBVIOUS
    <3> QED BY <1>2, <1>3, <1>4, <3>1
  <2>2. PartsOf(P, k) \in Seq(A)
    BY <1>3, <1>4
  <2>3. PartsOf(P, k) \o <<>> = PartsOf(P, k) /\ PartsOf(P, k) \o <<p>> = Append(PartsOf(P, k), p)
    BY <2>2
  <2> QED BY <1>1, <2>1, <2>3
<1> QED BY <1>3, <1>4, <1>5

\* The parts of what is joined.
LEMMA PartsConcat ==
  ASSUME NEW A, NEW P \in Seq(A), NEW Q \in Seq(A), NEW k
  PROVE  PartsOf(P \o Q, k) = PartsOf(P, k) \o PartsOf(Q, k)
<1> DEFINE F == AtIndex(A, k)
<1>1. F \in ToSeqs(A, A) /\ \A R \in Seq(A) : PartsOf(R, k) = FlatMap(R, F)
  BY PartsAs
<1> HIDE DEF F
<1>2. P \o Q \in Seq(A)
  OBVIOUS
<1>3. FlatMap(P \o Q, F) = FlatMap(P, F) \o FlatMap(Q, F)
  BY <1>1, FlatMapConcat
<1> QED BY <1>1, <1>2, <1>3

FormatIn(w) == [p \in DetailParts(w) |-> p.format]
TextIn(w) == [p \in DetailParts(w) |-> p.text]
SignatureIn(w) == [p \in DetailParts(w) |-> p.signature]
DataIn(w) == [p \in DetailParts(w) |-> p.data]
IdIn(w) == [p \in CallParts(w) |-> p.id]
ArgumentsIn(w) == [p \in CallParts(w) |-> p.arguments]

\* Their types.
LEMMA FieldTypes ==
  ASSUME NEW w
  PROVE  /\ FormatIn(w) \in [DetailParts(w) -> Maybe(STRING)]
         /\ TextIn(w) \in [DetailParts(w) -> Maybe(Texts)]
         /\ SignatureIn(w) \in [DetailParts(w) -> Maybe(STRING)]
         /\ DataIn(w) \in [DetailParts(w) -> Maybe(STRING)]
         /\ IdIn(w) \in [CallParts(w) -> Maybe(STRING)]
         /\ ArgumentsIn(w) \in ToSeqs(CallParts(w), STRING)
<1> DEFINE D == DetailParts(w)
           C == CallParts(w)
           T == Maybe(Texts)
           S == Maybe(STRING)
           X == Texts
<1>1. \A p \in D : p.format \in S /\ p.text \in T /\ p.signature \in S /\ p.data \in S
  BY DEF DetailParts
<1>2. \A p \in C : p.id \in S /\ p.arguments \in X
  BY DEF CallParts
<1> HIDE DEF D, C, T, S, X
<1>3. /\ [p \in D |-> p.format] \in [D -> S] /\ [p \in D |-> p.text] \in [D -> T]
      /\ [p \in D |-> p.signature] \in [D -> S] /\ [p \in D |-> p.data] \in [D -> S]
      /\ [p \in C |-> p.id] \in [C -> S] /\ [p \in C |-> p.arguments] \in [C -> X]
  BY <1>1, <1>2
<1> QED BY <1>3, Zenon DEF FormatIn, TextIn, SignatureIn, DataIn, IdIn, ArgumentsIn, ToSeqs,
                           Texts, D, C, T, S, X

\* What parts of a detail come to, by field.
LEMMA DetailAs ==
  ASSUME NEW w, NEW s \in Seq(DetailParts(w))
  PROVE  DetailOf(s) = Detail(LastBy(s, FormatIn(w)), TextBy(s, TextIn(w)),
                              LastBy(s, SignatureIn(w)), LastBy(s, DataIn(w)))
<1>1. \A i \in DOMAIN s : s[i] \in DetailParts(w)
  OBVIOUS
<1>2. LastGiven(s, LAMBDA p : p.format) = LastBy(s, FormatIn(w))
  <2> DEFINE G == GivenIn(FormatIn(w))
             given == FlattenSeq([i \in DOMAIN s |-> IF s[i].format = None THEN <<>> ELSE <<s[i].format>>])
  <2>1. [i \in DOMAIN s |-> IF s[i].format = None THEN <<>> ELSE <<s[i].format>>]
          = [i \in DOMAIN s |-> G[s[i]]]
    BY <1>1 DEF GivenIn, FormatIn
  <2>2. given = FlatMap(s, G)
    BY <2>1, Zenon DEF FlatMap
  <2>3. LastGiven(s, LAMBDA p : p.format) = (IF given = <<>> THEN None ELSE Last(given))
    BY Zenon DEF LastGiven, Each
  <2> HIDE DEF given
  <2> QED BY <2>2, <2>3, Zenon DEF LastBy
<1>3. LastGiven(s, LAMBDA p : p.signature) = LastBy(s, SignatureIn(w))
  <2> DEFINE G == GivenIn(SignatureIn(w))
             given == FlattenSeq([i \in DOMAIN s |-> IF s[i].signature = None THEN <<>> ELSE <<s[i].signature>>])
  <2>1. [i \in DOMAIN s |-> IF s[i].signature = None THEN <<>> ELSE <<s[i].signature>>]
          = [i \in DOMAIN s |-> G[s[i]]]
    BY <1>1 DEF GivenIn, SignatureIn
  <2>2. given = FlatMap(s, G)
    BY <2>1, Zenon DEF FlatMap
  <2>3. LastGiven(s, LAMBDA p : p.signature) = (IF given = <<>> THEN None ELSE Last(given))
    BY Zenon DEF LastGiven, Each
  <2> HIDE DEF given
  <2> QED BY <2>2, <2>3, Zenon DEF LastBy
<1>4. LastGiven(s, LAMBDA p : p.data) = LastBy(s, DataIn(w))
  <2> DEFINE G == GivenIn(DataIn(w))
             given == FlattenSeq([i \in DOMAIN s |-> IF s[i].data = None THEN <<>> ELSE <<s[i].data>>])
  <2>1. [i \in DOMAIN s |-> IF s[i].data = None THEN <<>> ELSE <<s[i].data>>]
          = [i \in DOMAIN s |-> G[s[i]]]
    BY <1>1 DEF GivenIn, DataIn
  <2>2. given = FlatMap(s, G)
    BY <2>1, Zenon DEF FlatMap
  <2>3. LastGiven(s, LAMBDA p : p.data) = (IF given = <<>> THEN None ELSE Last(given))
    BY Zenon DEF LastGiven, Each
  <2> HIDE DEF given
  <2> QED BY <2>2, <2>3, Zenon DEF LastBy
<1>5. JoinedText(s, LAMBDA p : p.text) = TextBy(s, TextIn(w))
  <2> DEFINE G == TextsIn(TextIn(w))
             absent == \A i \in DOMAIN s : s[i].text = None
             all == FlattenSeq([i \in DOMAIN s |-> TextOf(s[i].text)])
  <2>1. [i \in DOMAIN s |-> TextOf(s[i].text)] = [i \in DOMAIN s |-> G[s[i]]]
    BY <1>1 DEF TextsIn, TextIn
  <2>2. all = FlatMap(s, G)
    BY <2>1, Zenon DEF FlatMap
  <2>3. absent <=> \A i \in DOMAIN s : TextIn(w)[s[i]] = None
    BY <1>1 DEF TextIn
  <2>4. JoinedText(s, LAMBDA p : p.text) = (IF absent THEN None ELSE all)
    BY Zenon DEF JoinedText, Each
  <2> HIDE DEF absent, all
  <2> QED BY <2>2, <2>3, <2>4 DEF TextBy
<1> QED BY <1>2, <1>3, <1>4, <1>5, Zenon DEF DetailOf

\* What parts of a call come to, by field.
LEMMA CallAs ==
  ASSUME NEW w, NEW s \in Seq(CallParts(w))
  PROVE  CallOf(s) = WireCall("function", LastBy(s, IdIn(w)), FlatMap(s, ArgumentsIn(w)))
<1>1. \A i \in DOMAIN s : s[i] \in CallParts(w)
  OBVIOUS
<1>2. LastGiven(s, LAMBDA p : p.id) = LastBy(s, IdIn(w))
  <2> DEFINE G == GivenIn(IdIn(w))
             given == FlattenSeq([i \in DOMAIN s |-> IF s[i].id = None THEN <<>> ELSE <<s[i].id>>])
  <2>1. [i \in DOMAIN s |-> IF s[i].id = None THEN <<>> ELSE <<s[i].id>>]
          = [i \in DOMAIN s |-> G[s[i]]]
    BY <1>1 DEF GivenIn, IdIn
  <2>2. given = FlatMap(s, G)
    BY <2>1, Zenon DEF FlatMap
  <2>3. LastGiven(s, LAMBDA p : p.id) = (IF given = <<>> THEN None ELSE Last(given))
    BY Zenon DEF LastGiven, Each
  <2> HIDE DEF given
  <2> QED BY <2>2, <2>3, Zenon DEF LastBy
<1>3. Each(s, LAMBDA p : p.arguments) = FlatMap(s, ArgumentsIn(w))
  <2>1. [i \in DOMAIN s |-> s[i].arguments] = [i \in DOMAIN s |-> ArgumentsIn(w)[s[i]]]
    BY <1>1 DEF ArgumentsIn
  <2> QED BY <2>1, Zenon DEF Each, FlatMap
<1> QED BY <1>2, <1>3, Zenon DEF CallOf

\* One more part of a detail.
LEMMA DetailMore ==
  ASSUME NEW w, NEW s \in Seq(DetailParts(w)), NEW p \in DetailParts(w), None \notin Texts
  PROVE  /\ DetailOf(<<>>) = Detail(None, None, None, None)
         /\ LET old == DetailOf(s) IN DetailOf(Append(s, p))
              = Detail(Replaced(old.format, p.format), Grown(old.text, p.text),
                       Replaced(old.signature, p.signature), Replaced(old.data, p.data))
<1> DEFINE A == DetailParts(w)
           old == DetailOf(s)
           q == Append(s, p)
<1>1. <<>> \in Seq(A) /\ q \in Seq(A)
  OBVIOUS
<1>2. /\ FormatIn(w)[p] = p.format /\ TextIn(w)[p] = p.text /\ SignatureIn(w)[p] = p.signature
      /\ DataIn(w)[p] = p.data
  BY DEF FormatIn, TextIn, SignatureIn, DataIn
<1> HIDE DEF q
<1>3. /\ DetailOf(<<>>) = Detail(LastBy(<<>>, FormatIn(w)), TextBy(<<>>, TextIn(w)),
                                 LastBy(<<>>, SignatureIn(w)), LastBy(<<>>, DataIn(w)))
      /\ old = Detail(LastBy(s, FormatIn(w)), TextBy(s, TextIn(w)),
                      LastBy(s, SignatureIn(w)), LastBy(s, DataIn(w)))
      /\ DetailOf(q) = Detail(LastBy(q, FormatIn(w)), TextBy(q, TextIn(w)),
                              LastBy(q, SignatureIn(w)), LastBy(q, DataIn(w)))
  <2>1. \A r \in Seq(DetailParts(w)) :
          DetailOf(r) = Detail(LastBy(r, FormatIn(w)), TextBy(r, TextIn(w)),
                               LastBy(r, SignatureIn(w)), LastBy(r, DataIn(w)))
    BY DetailAs
  <2> QED BY <1>1, <2>1, Zenon DEF A
<1>4. /\ LastBy(<<>>, FormatIn(w)) = None /\ LastBy(q, FormatIn(w)) = Replaced(LastBy(s, FormatIn(w)), p.format)
      /\ LastBy(<<>>, SignatureIn(w)) = None
      /\ LastBy(q, SignatureIn(w)) = Replaced(LastBy(s, SignatureIn(w)), p.signature)
      /\ LastBy(<<>>, DataIn(w)) = None /\ LastBy(q, DataIn(w)) = Replaced(LastBy(s, DataIn(w)), p.data)
  BY <1>2, FieldTypes, LastMore DEF q
<1>5. TextBy(<<>>, TextIn(w)) = None /\ TextBy(q, TextIn(w)) = Grown(TextBy(s, TextIn(w)), p.text)
  BY <1>2, FieldTypes, TextMore DEF q
<1>6. /\ old.format = LastBy(s, FormatIn(w)) /\ old.text = TextBy(s, TextIn(w))
      /\ old.signature = LastBy(s, SignatureIn(w)) /\ old.data = LastBy(s, DataIn(w))
  <2> HIDE DEF old
  <2> QED BY <1>3 DEF Detail
<1> HIDE DEF old
<1>7. DetailOf(q) = Detail(Replaced(old.format, p.format), Grown(old.text, p.text),
                           Replaced(old.signature, p.signature), Replaced(old.data, p.data))
  BY <1>3, <1>4, <1>5, <1>6, Zenon
<1>8. DetailOf(<<>>) = Detail(None, None, None, None)
  BY <1>3, <1>4, <1>5, Zenon
<1> QED BY <1>7, <1>8 DEF old, q

\* Records of calls.
LEMMA WireCallFacts ==
  ASSUME NEW id, NEW t
  PROVE  /\ WireCall("function", id, t).id = id /\ WireCall("function", id, t).arguments = t
         /\ WireCall("function", id, t).type = "function"
BY DEF WireCall

\* One more part of a call.
LEMMA CallMore ==
  ASSUME NEW w, NEW s \in Seq(CallParts(w)), NEW p \in CallParts(w)
  PROVE  /\ CallOf(<<>>) = WireCall("function", None, <<>>)
         /\ LET old == CallOf(s) IN
              /\ CallOf(Append(s, p)) = WireCall("function", Replaced(old.id, p.id),
                                                 old.arguments \o p.arguments)
              /\ old = WireCall("function", old.id, old.arguments) /\ old.arguments \in Texts
<1> DEFINE A == CallParts(w)
           old == CallOf(s)
           q == Append(s, p)
           F == ArgumentsIn(w)
           S == STRING
<1>1. <<>> \in Seq(A) /\ q \in Seq(A)
  OBVIOUS
<1>2. IdIn(w)[p] = p.id /\ F[p] = p.arguments
  BY DEF IdIn, ArgumentsIn
<1> HIDE DEF q
<1>3. /\ CallOf(<<>>) = WireCall("function", LastBy(<<>>, IdIn(w)), FlatMap(<<>>, F))
      /\ old = WireCall("function", LastBy(s, IdIn(w)), FlatMap(s, F))
      /\ CallOf(q) = WireCall("function", LastBy(q, IdIn(w)), FlatMap(q, F))
  <2>1. \A r \in Seq(CallParts(w)) : CallOf(r) = WireCall("function", LastBy(r, IdIn(w)), FlatMap(r, ArgumentsIn(w)))
    BY CallAs
  <2> QED BY <1>1, <2>1, Zenon DEF A
<1>4. LastBy(<<>>, IdIn(w)) = None /\ LastBy(q, IdIn(w)) = Replaced(LastBy(s, IdIn(w)), p.id)
  BY <1>2, FieldTypes, LastMore DEF q
<1>5. FlatMap(<<>>, F) = <<>> /\ FlatMap(s, F) \in Seq(S) /\ FlatMap(q, F) = FlatMap(s, F) \o p.arguments
  <2>1. F \in ToSeqs(A, S) /\ s \in Seq(A) /\ p \in A
    BY FieldTypes
  <2> HIDE DEF F, S, A
  <2>2. FlatMap(<<>>, F) = <<>> /\ FlatMap(s, F) \in Seq(S)
        /\ \A x \in A : FlatMap(Append(s, x), F) = FlatMap(s, F) \o F[x]
    BY <2>1, FlatMapUnfolds
  <2> QED BY <1>2, <2>1, <2>2 DEF q
<1>6. old.id = LastBy(s, IdIn(w)) /\ old.arguments = FlatMap(s, F)
  <2> HIDE DEF old, F
  <2> QED BY <1>3, WireCallFacts
<1> HIDE DEF old, F
<1>7. CallOf(q) = WireCall("function", Replaced(old.id, p.id), old.arguments \o p.arguments)
  BY <1>3, <1>4, <1>5, <1>6, Zenon
<1>8. CallOf(<<>>) = WireCall("function", None, <<>>)
  BY <1>3, <1>4, <1>5, Zenon
<1>9. old = WireCall("function", old.id, old.arguments) /\ old.arguments \in Texts
  BY <1>3, <1>5, <1>6 DEF Texts
<1> QED BY <1>7, <1>8, <1>9 DEF old, q

-----------------------------------------------------------------------------
(* Details, one part after the other.                                       *)

\* The details that the parts so far come to.
DetailsHold(map, w, P) ==
  /\ DOMAIN map = {k \in DOMAIN w.details : PartsOf(P, k) # <<>>}
  /\ \A k \in DOMAIN map : map[k] = DetailOf(PartsOf(P, k))

\* t is acc but for its details.
ButDetails(t, acc) ==
  /\ t.content = acc.content /\ t.reasoning = acc.reasoning /\ t.calls = acc.calls
  /\ t.live = acc.live /\ t.finish = acc.finish /\ t.chunks = acc.chunks

\* A detail with the fields of a part.
DetailWith(old, part) ==
  Detail(Replaced(old.format, part.format), Grown(old.text, part.text),
         Replaced(old.signature, part.signature), Replaced(old.data, part.data))
NoDetail == Detail(None, None, None, None)

\* A part is added to the details.
LEMMA AddDetailAs ==
  ASSUME NEW acc, DOMAIN acc = AccumulatorFields, NEW part
  PROVE  /\ AddDetail(acc, part).details
              = With(acc.details, part.index, DetailWith(At(acc.details, part.index, NoDetail), part))
         /\ ButDetails(AddDetail(acc, part), acc)
<1> DEFINE old == At(acc.details, part.index, NoDetail)
           map == With(acc.details, part.index, DetailWith(old, part))
           new == [acc EXCEPT !.details = map]
<1>1. AddDetail(acc, part) = new
  BY DEF AddDetail, DetailWith, NoDetail
<1> HIDE DEF map
<1>2. new.details = map /\ ButDetails(new, acc)
  BY DEF AccumulatorFields, ButDetails
<1> HIDE DEF new
<1> QED BY <1>1, <1>2 DEF map, old

\* One more part of a detail.
LEMMA DetailAdded ==
  ASSUME NEW w, NEW acc, DOMAIN acc = AccumulatorFields, None \notin Texts,
         NEW P \in Seq(DetailParts(w)), DetailsHold(acc.details, w, P), NEW p \in DetailParts(w)
  PROVE  /\ DetailsHold(AddDetail(acc, p).details, w, Append(P, p))
         /\ ButDetails(AddDetail(acc, p), acc)
<1> DEFINE k == p.index
           map == acc.details
           Q == Append(P, p)
           value == DetailWith(At(map, k, NoDetail), p)
           new == AddDetail(acc, p).details
<1>1. new = With(map, k, value) /\ ButDetails(AddDetail(acc, p), acc)
  BY AddDetailAs
<1>2. k \in DOMAIN w.details
  BY DEF DetailParts
<1>3. /\ DOMAIN map = {j \in DOMAIN w.details : PartsOf(P, j) # <<>>}
      /\ \A j \in DOMAIN map : map[j] = DetailOf(PartsOf(P, j))
  BY Zenon DEF DetailsHold
<1> DEFINE s == PartsOf(P, k)
<1>4. /\ s \in Seq(DetailParts(w)) /\ PartsOf(Q, k) = Append(s, p)
      /\ \A j : j # k => PartsOf(Q, j) = PartsOf(P, j)
  <2>1. \A j : /\ PartsOf(P, j) \in Seq(DetailParts(w))
               /\ PartsOf(Q, j) = IF p.index = j THEN Append(PartsOf(P, j), p) ELSE PartsOf(P, j)
    BY PartsMore
  <2> QED BY <2>1, Zenon
<1> HIDE DEF Q
<1>5. value = DetailOf(Append(s, p))
  <2>1. At(map, k, NoDetail) = DetailOf(s)
    <3>1. CASE k \in DOMAIN map
      BY <1>3, <3>1 DEF At
    <3>2. CASE k \notin DOMAIN map
      <4>1. s = <<>>
        BY <1>2, <1>3, <3>2
      <4>2. DetailOf(<<>>) = NoDetail
        BY <1>4, DetailMore DEF NoDetail
      <4> QED BY <3>2, <4>1, <4>2 DEF At
    <3> QED BY <3>1, <3>2
  <2> DEFINE old == DetailOf(s)
  <2>2. DetailOf(Append(s, p)) = DetailWith(old, p)
    <3> HIDE DEF s
    <3> QED BY <1>4, DetailMore, Zenon DEF DetailWith
  <2> QED BY <2>1, <2>2
<1>6. Append(s, p) # <<>>
  <2>1. s \in Seq(DetailParts(w))
    BY <1>4
  <2> HIDE DEF s
  <2> QED BY <2>1
<1> HIDE DEF s, value, map, new, k
<1>7. DOMAIN new = DOMAIN map \cup {k} /\ new[k] = value /\ \A j \in DOMAIN map : j # k => new[j] = map[j]
  BY <1>1 DEF With
<1>8. DOMAIN new = {j \in DOMAIN w.details : PartsOf(Q, j) # <<>>}
  BY <1>2, <1>3, <1>4, <1>6, <1>7
<1>9. ASSUME NEW j \in DOMAIN new PROVE new[j] = DetailOf(PartsOf(Q, j))
  BY <1>3, <1>4, <1>5, <1>7
<1>10. DetailsHold(new, w, Q)
  BY <1>8, <1>9, Zenon DEF DetailsHold
<1> QED BY <1>1, <1>10 DEF new, Q

\* More parts of details.
LEMMA DetailsAdded ==
  ASSUME NEW w \in ChatAnswers, NEW acc, IsAccumulator(acc, w), None \notin Texts,
         NEW P \in Seq(DetailParts(w)), DetailsHold(acc.details, w, P), NEW s \in Seq(DetailParts(w))
  PROVE  /\ DetailsHold(AddDetails(acc, s).details, w, P \o s)
         /\ ButDetails(AddDetails(acc, s), acc)
<1> DEFINE n == Len(s)
           A == DetailParts(w)
<1>1. PICK h : /\ h[0] = acc /\ h[n] = AddDetails(acc, s)
               /\ \A k \in 1 .. n : h[k] = AddDetail(h[k - 1], s[k])
  BY DetailsFolds
<1> DEFINE u(i) == SubSeq(s, 1, i)
           I(i) == /\ IsAccumulator(h[i], w) /\ DetailsHold(h[i].details, w, P \o u(i))
                   /\ ButDetails(h[i], acc)
           R == {i \in Nat : i <= n => I(i)}
<1>2. n \in Nat /\ \A k \in 1 .. n : s[k] \in A
  OBVIOUS
<1>3. /\ u(0) = <<>> /\ u(n) = s
      /\ \A k \in 0 .. n : u(k) \in Seq(A)
      /\ \A k \in Nat : k + 1 <= n => u(k + 1) = Append(u(k), s[k + 1])
  BY PrefixMore
<1>4. P \o <<>> = P
  OBVIOUS
<1> HIDE DEF n, u
<1>5. 0 \in R
  <2>1. ButDetails(acc, acc)
    BY DEF ButDetails
  <2> QED BY <1>1, <1>3, <1>4, <2>1
<1>6. ASSUME NEW k \in Nat, k \in R PROVE k + 1 \in R
  <2> SUFFICES ASSUME k + 1 <= n PROVE I(k + 1)
    OBVIOUS
  <2>1. k + 1 \in 1 .. n /\ (k + 1) - 1 = k /\ k \in 0 .. n /\ I(k)
    BY <1>2, <1>6
  <2>2. h[k + 1] = AddDetail(h[k], s[k + 1]) /\ s[k + 1] \in A
    <3>1. h[k + 1] = AddDetail(h[(k + 1) - 1], s[k + 1])
      BY <1>1, <2>1, Zenon
    <3>2. h[k + 1] = AddDetail(h[k], s[k + 1])
      BY <2>1, <3>1, Zenon
    <3> QED BY <1>2, <2>1, <3>2
  <2> DEFINE v == P \o u(k)
             x == s[k + 1]
  <2>3. v \in Seq(A) /\ P \o u(k + 1) = Append(v, x)
    <3> DEFINE q == u(k)
    <3>1. q \in Seq(A) /\ u(k + 1) = Append(q, x) /\ x \in A /\ P \in Seq(A)
      BY <1>3, <2>1, <2>2
    <3> HIDE DEF A, x, q
    <3>2. P \o q \in Seq(A) /\ P \o Append(q, x) = Append(P \o q, x)
      BY <3>1
    <3> QED BY <3>1, <3>2 DEF q
  <2>4. DOMAIN h[k] = AccumulatorFields
    BY <2>1 DEF IsAccumulator, EmptyAccumulator, AccumulatorFields
  <2> HIDE DEF v, x
  <2>5. IsAccumulator(h[k + 1], w)
    BY <2>1, <2>2, AddDetailTypes
  <2>6. DetailsHold(h[k].details, w, v)
    BY <2>1 DEF v
  <2>7. DetailsHold(h[k + 1].details, w, Append(v, x)) /\ ButDetails(h[k + 1], h[k])
    BY <2>2, <2>3, <2>4, <2>6, DetailAdded DEF x
  <2>8. ButDetails(h[k + 1], acc)
    BY <2>1, <2>7 DEF ButDetails
  <2> QED BY <2>3, <2>5, <2>7, <2>8
<1>7. Nat \subseteq R
  <2> HIDE DEF R
  <2> QED BY <1>5, <1>6, NatInduct
<1>8. I(n)
  BY <1>2, <1>7
<1> QED BY <1>1, <1>3, <1>8

-----------------------------------------------------------------------------
(* Calls, one part after the other.                                         *)

\* t is acc but for its calls, and what the host is told of them.
ButCalls(t, acc) ==
  /\ t.content = acc.content /\ t.reasoning = acc.reasoning /\ t.details = acc.details
  /\ t.finish = acc.finish /\ t.chunks = acc.chunks
  /\ \A type : type \notin {"tool_call_started", "tool_call_arguments_delta"} =>
       ToldBy(t.live, type) = ToldBy(acc.live, type)

\* t has one part more than acc of a call that was old and becomes new; the
\* host is told of it.
CallStep(t, acc, k, old, new, arguments) ==
  /\ t.calls = With(acc.calls, k, new)
  /\ ButCalls(t, acc)
  /\ ToldBy(t.live, "tool_call_started")
       = ToldBy(acc.live, "tool_call_started")
         \o (IF old.id = None /\ new.id # None THEN <<new.id>> ELSE <<>>)
  /\ \A y : ArguedBy(t.live, y)
              = ArguedBy(acc.live, y) \o (IF new.id # None /\ y = new.id THEN arguments ELSE <<>>)

\* What is added to the calls of acc and told to its host.
CallValue(old, part) ==
  [old EXCEPT !.id = Replaced(@, part.id), !.arguments = @ \o part.arguments]
Announced(acc, old, new) ==
  IF old.id = None /\ new.id # None THEN Tell(acc, "tool_call_started", <<new.id>>) ELSE acc
CallTold(acc, new, part) ==
  IF new.id = None \/ part.arguments = <<>> THEN acc
  ELSE Tell(acc, "tool_call_arguments_delta", <<new.id>> \o part.arguments)
CallOld(acc, part) == At(acc.calls, part.index, WireCall("function", None, <<>>))
CallKept(acc, k, call) == [acc EXCEPT !.calls = With(@, k, call)]

\* A part is added to the calls.
LEMMA AddCallAs ==
  ASSUME NEW acc, NEW part, NEW old, old = CallOld(acc, part), NEW new, new = CallValue(old, part)
  PROVE  AddCall(acc, part) = CallKept(CallTold(Announced(acc, old, new), new, part), part.index, new)
BY DEF AddCall, CallOld, CallValue, CallTold, CallKept, Announced

\* The calls of what is told are replaced.
LEMMA CallsReplaced ==
  ASSUME NEW told, DOMAIN told = AccumulatorFields, NEW map
  PROVE  /\ [told EXCEPT !.calls = map].calls = map
         /\ \A f \in AccumulatorFields \ {"calls"} : [told EXCEPT !.calls = map][f] = told[f]
BY DEF AccumulatorFields

\* A call with another id and other arguments.
LEMMA CallValueAs ==
  ASSUME NEW id, NEW t, NEW part
  PROVE  CallValue(WireCall("function", id, t), part)
           = WireCall("function", Replaced(id, part.id), t \o part.arguments)
<1> DEFINE f == "function"
           i == Replaced(id, part.id)
           u == t \o part.arguments
           T == {f}
           I == {id, i}
           U == {t, u}
           old == [type |-> f, id |-> id, arguments |-> t]
           new == [type |-> f, id |-> i, arguments |-> u]
<1>1. CallValue(old, part) = [old EXCEPT !.id = i, !.arguments = u]
  BY DEF CallValue
<1> HIDE DEF i, u
<1>2. old \in [type : T, id : I, arguments : U]
  OBVIOUS
<1>3. new \in [type : T, id : I, arguments : U] /\ new.type = old.type /\ new.id = i /\ new.arguments = u
  OBVIOUS
<1>4. i \in I /\ u \in U
  OBVIOUS
<1> HIDE DEF old, new, T, I, U
<1>5. [old EXCEPT !.id = i, !.arguments = u] = new
  BY <1>2, <1>3, <1>4
<1> QED BY <1>1, <1>5 DEF WireCall, i, u, old, new

\* The host is told that a call begins.
LEMMA CallAnnounced ==
  ASSUME NEW w, NEW acc, IsAccumulator(acc, w), NEW old, NEW new, new.id \in Maybe(STRING)
  PROVE  /\ IsAccumulator(Announced(acc, old, new), w)
         /\ Tells(Announced(acc, old, new), acc, "tool_call_started",
                  IF old.id = None /\ new.id # None THEN <<new.id>> ELSE <<>>)
<1> DEFINE type == "tool_call_started"
           t == Announced(acc, old, new)
           i == new.id
           value == IF old.id = None /\ i # None THEN <<i>> ELSE <<>>
<1>1. t = Tell(acc, type, value)
  <2>1. CASE old.id = None /\ i # None
    BY <2>1, Zenon DEF Announced
  <2>2. CASE ~(old.id = None /\ i # None)
    <3>1. value = <<>> /\ t = acc
      BY <2>2, Zenon DEF Announced
    <3> HIDE DEF value, t
    <3> QED BY <3>1 DEF Tell
  <2> QED BY <2>1, <2>2
<1>2. value # <<>> => Live(type, value) \in Lives
  <2>1. value # <<>> => value \in Texts
    <3> DEFINE S == STRING
    <3>1. i \in S \cup {None}
      BY DEF Maybe
    <3> HIDE DEF S, i
    <3>2. value # <<>> => value \in Seq(S)
      BY <3>1
    <3> QED BY <3>2 DEF S, Texts
  <2> HIDE DEF value
  <2> QED BY <2>1 DEF Live, Lives
<1> HIDE DEF value, t
<1>3. IsAccumulator(t, w) /\ Tells(t, acc, type, value)
  BY <1>1, <1>2, TellTells
<1> QED BY <1>3 DEF value, t

\* t is acc but for the arguments of a call, which the host is told.
Argued(t, acc, id, arguments) ==
  /\ t.calls = acc.calls /\ ButCalls(t, acc)
  /\ ToldBy(t.live, "tool_call_started") = ToldBy(acc.live, "tool_call_started")
  /\ \A y : ArguedBy(t.live, y)
              = ArguedBy(acc.live, y) \o (IF id # None /\ y = id THEN arguments ELSE <<>>)

\* The host is told of a call's arguments.
LEMMA CallSpoken ==
  ASSUME NEW w, NEW acc, IsAccumulator(acc, w), NEW new, new.id \in Maybe(STRING),
         NEW part, part.arguments \in Texts
  PROVE  /\ IsAccumulator(CallTold(acc, new, part), w)
         /\ Argued(CallTold(acc, new, part), acc, new.id, part.arguments)
<1> DEFINE type == "tool_call_arguments_delta"
           t == CallTold(acc, new, part)
           i == new.id
           a == part.arguments
           value == <<i>> \o a
<1>1. CASE i = None \/ a = <<>>
  <2>1. t = acc
    BY <1>1, Zenon DEF CallTold
  <2>2. ButCalls(acc, acc)
    BY DEF ButCalls
  <2>3. \A y : ArguedBy(acc.live, y) \o <<>> = ArguedBy(acc.live, y)
    <3>1. acc.live \in Seq(Lives)
      BY DEF IsAccumulator
    <3>2. \A y : ArguedBy(acc.live, y) \in Seq(Words)
      BY <3>1, ToldTypes
    <3>3. \A s \in Seq(Words) : s \o <<>> = s
      OBVIOUS
    <3> QED BY <3>2, <3>3, Zenon
  <2>4. \A y : (IF i # None /\ y = i THEN a ELSE <<>>) = <<>>
    BY <1>1
  <2>5. \A y : ArguedBy(acc.live, y)
                 = ArguedBy(acc.live, y) \o (IF i # None /\ y = i THEN a ELSE <<>>)
    <3> DEFINE more(y) == IF i # None /\ y = i THEN a ELSE <<>>
    <3>1. \A y : more(y) = <<>>
      BY <2>4
    <3> HIDE DEF more
    <3>2. \A y : ArguedBy(acc.live, y) = ArguedBy(acc.live, y) \o more(y)
      BY <2>3, <3>1, Zenon
    <3> QED BY <3>2 DEF more
  <2> HIDE DEF t
  <2>6. \A y : ArguedBy(t.live, y)
                 = ArguedBy(acc.live, y) \o (IF i # None /\ y = i THEN a ELSE <<>>)
    BY <2>1, <2>5, Zenon
  <2>7. IsAccumulator(t, w) /\ t.calls = acc.calls /\ ButCalls(t, acc)
        /\ ToldBy(t.live, "tool_call_started") = ToldBy(acc.live, "tool_call_started")
    BY <2>1, <2>2, Zenon
  <2>8. Argued(t, acc, i, a)
    BY <2>6, <2>7, Zenon DEF Argued
  <2> QED BY <2>7, <2>8 DEF t
<1>2. CASE i # None /\ a # <<>>
  <2>1. t = Tell(acc, type, value)
    BY <1>2, Zenon DEF CallTold
  <2>2. value # <<>> /\ value \in Texts /\ value[1] = i /\ Tail(value) = a
    <3> DEFINE S == STRING
    <3>1. i \in S /\ a \in Seq(S)
      BY <1>2 DEF Maybe, Texts
    <3> HIDE DEF S, i, a
    <3>2. value # <<>> /\ value \in Seq(S) /\ value[1] = i
      BY <3>1
    <3>3. Tail(value) = a
      BY <3>1
    <3> QED BY <3>2, <3>3 DEF S, Texts
  <2>3. Live(type, value) \in Lives
    BY <2>2 DEF Live, Lives
  <2> HIDE DEF value, t
  <2>4. /\ IsAccumulator(t, w) /\ Tells(t, acc, type, value)
        /\ ArguesMore(t, acc, type, value)
    <3> DEFINE Q == Tell(acc, type, value)
    <3>1. IsAccumulator(Q, w) /\ Tells(Q, acc, type, value)
      BY <2>3, TellTells
    <3>2. ArguesMore(Q, acc, type, value)
      BY <2>2, <2>3, TellTells
    <3> QED BY <2>1, <3>1, <3>2
  <2>5. \A y : ArguedBy(t.live, y) = ArguedBy(acc.live, y) \o (IF i = y THEN a ELSE <<>>)
    BY <2>2, <2>4, Zenon DEF ArguesMore
  <2>6. \A y : (IF i = y THEN a ELSE <<>>) = (IF i # None /\ y = i THEN a ELSE <<>>)
    BY <1>2
  <2>7. \A y : ArguedBy(t.live, y)
                 = ArguedBy(acc.live, y) \o (IF i # None /\ y = i THEN a ELSE <<>>)
    BY <2>5, <2>6, Zenon
  <2>8. "tool_call_started" # type
    OBVIOUS
  <2>9. /\ t.content = acc.content /\ t.reasoning = acc.reasoning /\ t.calls = acc.calls
        /\ t.details = acc.details /\ t.finish = acc.finish /\ t.chunks = acc.chunks
        /\ \A other : other # type => ToldBy(t.live, other) = ToldBy(acc.live, other)
    BY <2>4, Zenon DEF Tells
  <2>10. /\ \A ty : ty \notin {"tool_call_started", type} => ToldBy(t.live, ty) = ToldBy(acc.live, ty)
         /\ ToldBy(t.live, "tool_call_started") = ToldBy(acc.live, "tool_call_started")
    BY <2>8, <2>9, Zenon
  <2>11. ButCalls(t, acc)
    BY <2>9, <2>10, Zenon DEF ButCalls
  <2>12. Argued(t, acc, i, a)
    BY <2>7, <2>9, <2>10, <2>11, Zenon DEF Argued
  <2> QED BY <2>4, <2>12 DEF t
<1>3. (i = None \/ a = <<>>) \/ (i # None /\ a # <<>>)
  OBVIOUS
<1> QED BY <1>1, <1>2, <1>3

\* A part of a call is added, and the host told of it.
LEMMA CallStepped ==
  ASSUME NEW w, NEW acc, IsAccumulator(acc, w), NEW p \in CallParts(w),
         NEW id \in Maybe(STRING), NEW t, CallOld(acc, p) = WireCall("function", id, t)
  PROVE  CallStep(AddCall(acc, p), acc, p.index, WireCall("function", id, t),
                  WireCall("function", Replaced(id, p.id), t \o p.arguments), p.arguments)
<1> DEFINE i == Replaced(id, p.id)
           old == WireCall("function", id, t)
           new == WireCall("function", i, t \o p.arguments)
           a == p.arguments
           k == p.index
           first == Announced(acc, old, new)
           told == CallTold(first, new, p)
           map == With(told.calls, k, new)
           all == [told EXCEPT !.calls = map]
           started == IF id = None /\ i # None THEN <<i>> ELSE <<>>
<1>1. new = CallValue(old, p)
  BY CallValueAs
<1>2. old.id = id /\ new.id = i /\ i \in Maybe(STRING) /\ a \in Texts
  <2>1. p.id \in Maybe(STRING) /\ a \in Texts
    BY DEF CallParts
  <2> QED BY <2>1, WireCallFacts DEF Replaced
<1>3. AddCall(acc, p) = CallKept(told, k, new)
  <2> HIDE DEF old, new
  <2> QED BY <1>1, AddCallAs DEF old
<1>4. AddCall(acc, p) = all
  BY <1>3, Zenon DEF CallKept
<1> HIDE DEF i, old, new
<1>5. IsAccumulator(first, w) /\ Tells(first, acc, "tool_call_started", started)
  <2> HIDE DEF first
  <2>1. new.id \in Maybe(STRING)
    BY <1>2
  <2>2. /\ IsAccumulator(first, w)
        /\ Tells(first, acc, "tool_call_started", IF old.id = None /\ new.id # None THEN <<new.id>> ELSE <<>>)
    BY <2>1, CallAnnounced DEF first
  <2> QED BY <1>2, <2>2
<1> HIDE DEF first, started
<1>6. /\ IsAccumulator(told, w) /\ told.calls = first.calls /\ ButCalls(told, first)
      /\ ToldBy(told.live, "tool_call_started") = ToldBy(first.live, "tool_call_started")
      /\ \A y : ArguedBy(told.live, y)
                  = ArguedBy(first.live, y) \o (IF new.id # None /\ y = new.id THEN a ELSE <<>>)
  <2>1. new.id \in Maybe(STRING) /\ p.arguments \in Texts /\ IsAccumulator(first, w)
    BY <1>2, <1>5
  <2>2. IsAccumulator(told, w) /\ Argued(told, first, new.id, p.arguments)
    BY <2>1, CallSpoken
  <2> HIDE DEF told
  <2> QED BY <2>2, Zenon DEF Argued
<1>7. DOMAIN told = AccumulatorFields
  BY <1>6 DEF IsAccumulator, EmptyAccumulator, AccumulatorFields
<1> HIDE DEF told, map, all
<1>8. all.calls = map /\ \A f \in AccumulatorFields \ {"calls"} : all[f] = told[f]
  BY <1>7, CallsReplaced DEF all
<1>9. /\ all.content = told.content /\ all.reasoning = told.reasoning /\ all.details = told.details
      /\ all.finish = told.finish /\ all.chunks = told.chunks /\ all.live = told.live
  BY <1>8 DEF AccumulatorFields
<1>10. /\ first.content = acc.content /\ first.reasoning = acc.reasoning /\ first.calls = acc.calls
       /\ first.details = acc.details /\ first.finish = acc.finish /\ first.chunks = acc.chunks
       /\ ToldBy(first.live, "tool_call_started") = ToldBy(acc.live, "tool_call_started") \o started
       /\ \A other : other # "tool_call_started" => ToldBy(first.live, other) = ToldBy(acc.live, other)
       /\ \A x : ArguedBy(first.live, x) = ArguedBy(acc.live, x)
  <2>1. "tool_call_started" # "tool_call_arguments_delta"
    OBVIOUS
  <2> QED BY <1>5, <2>1, Zenon DEF Tells
<1>11. /\ told.content = first.content /\ told.reasoning = first.reasoning
       /\ told.details = first.details /\ told.finish = first.finish /\ told.chunks = first.chunks
       /\ \A type : type \notin {"tool_call_started", "tool_call_arguments_delta"} =>
            ToldBy(told.live, type) = ToldBy(first.live, type)
  BY <1>6, Zenon DEF ButCalls
<1>12. \A type : type \notin {"tool_call_started", "tool_call_arguments_delta"} =>
         ToldBy(all.live, type) = ToldBy(acc.live, type)
  BY <1>9, <1>10, <1>11, Zenon
<1>13. ButCalls(all, acc)
  BY <1>9, <1>10, <1>11, <1>12, Zenon DEF ButCalls
<1>14. all.calls = With(acc.calls, k, new)
  BY <1>6, <1>8, <1>10, Zenon DEF map
<1>15. ToldBy(all.live, "tool_call_started") = ToldBy(acc.live, "tool_call_started")
         \o (IF old.id = None /\ new.id # None THEN <<new.id>> ELSE <<>>)
  BY <1>2, <1>6, <1>9, <1>10, Zenon DEF started
<1>16. \A y : ArguedBy(all.live, y)
                = ArguedBy(acc.live, y) \o (IF new.id # None /\ y = new.id THEN a ELSE <<>>)
  BY <1>6, <1>9, <1>10, Zenon
<1>17. CallStep(all, acc, k, old, new, a)
  BY <1>13, <1>14, <1>15, <1>16, Zenon DEF CallStep
<1> QED BY <1>4, <1>17, Zenon DEF old, new, i

\* What is left of a sequence that grows.
LEMMA TailMore ==
  ASSUME NEW B, NEW s \in Seq(B), NEW t \in Seq(B), NEW n \in 0 .. Len(s)
  PROVE  /\ SubSeq(s, n + 1, Len(s)) \o t = SubSeq(s \o t, n + 1, Len(s \o t))
         /\ n \in 0 .. Len(s \o t)
         /\ SubSeq(s, Len(s) + 1, Len(s)) = <<>>
<1> DEFINE L == Len(s)
           u == s \o t
           M == Len(u)
<1>0. L \in Nat /\ u \in Seq(B) /\ M \in Nat /\ n \in Nat /\ n <= L
  OBVIOUS
<1>1. M = L + Len(t) /\ Len(t) \in Nat /\ M >= L
      /\ (\A i \in 1 .. L : u[i] = s[i]) /\ \A i \in 1 .. Len(t) : u[L + i] = t[i]
  <2>1. JoinOf(u, s, t)
    BY JoinedElements
  <2> HIDE DEF u
  <2> QED BY <1>0, <2>1 DEF JoinOf
<1> HIDE DEF u, L, M
<1>2. SubSeq(u, n + 1, L) = SubSeq(s, n + 1, L)
  <2> DEFINE a == n + 1
             v == SubSeq(u, a, L)
             w == SubSeq(s, a, L)
  <2>1. a \in Nat /\ L \in Int /\ a >= 1 /\ L >= a - 1 /\ L <= Len(u) /\ L <= Len(s)
    BY <1>0, <1>1 DEF M, L
  <2>2. \A i \in 1 .. L - a + 1 : a - 1 + i \in 1 .. L
    BY <1>0
  <2> HIDE DEF a
  <2>3. /\ SubSeq(u, a, L) \in Seq(B) /\ Len(SubSeq(u, a, L)) = L - a + 1
        /\ \A i \in 1 .. L - a + 1 : SubSeq(u, a, L)[i] = u[a - 1 + i]
    BY <1>0, <2>1, PartFacts
  <2>4. /\ SubSeq(s, a, L) \in Seq(B) /\ Len(SubSeq(s, a, L)) = L - a + 1
        /\ \A i \in 1 .. L - a + 1 : SubSeq(s, a, L)[i] = s[a - 1 + i]
    BY <2>1, PartFacts
  <2> HIDE DEF v, w
  <2>5. v = w
    <3>1. v \in Seq(B) /\ w \in Seq(B) /\ Len(v) = Len(w) /\ \A i \in 1 .. Len(v) : v[i] = w[i]
      BY <1>1, <2>2, <2>3, <2>4 DEF v, w
    <3> QED BY <3>1, SeqEqual
  <2> QED BY <2>5 DEF v, w, a
<1>3. SubSeq(u, L + 1, M) = t
  <2> DEFINE a == L + 1
             v == SubSeq(u, a, M)
  <2>1. a \in Nat /\ M \in Int /\ a >= 1 /\ M >= a - 1 /\ M <= Len(u) /\ M - a + 1 = Len(t) /\ a - 1 = L
    BY <1>0, <1>1 DEF M
  <2> HIDE DEF a
  <2>3. /\ SubSeq(u, a, M) \in Seq(B) /\ Len(SubSeq(u, a, M)) = M - a + 1
        /\ \A i \in 1 .. M - a + 1 : SubSeq(u, a, M)[i] = u[a - 1 + i]
    BY <1>0, <2>1, PartFacts
  <2> HIDE DEF v
  <2>4. v = t
    <3>1. v \in Seq(B) /\ Len(v) = Len(t) /\ \A i \in 1 .. Len(v) : v[i] = t[i]
      BY <1>1, <2>1, <2>3 DEF v
    <3> QED BY <3>1, SeqEqual
  <2> QED BY <2>4 DEF v, a
<1>4. SubSeq(u, n + 1, L) \o SubSeq(u, L + 1, M) = SubSeq(u, n + 1, M)
  <2> DEFINE a == n + 1
  <2>1. a \in Nat /\ a >= 1 /\ L \in Nat /\ L >= a - 1 /\ M \in Nat /\ M >= L /\ M <= Len(u)
    BY <1>0, <1>1 DEF M
  <2> HIDE DEF a
  <2> QED BY <1>0, <2>1, PartsJoin DEF a
<1>5. n \in 0 .. M
  BY <1>0, <1>1
<1>6. SubSeq(s, L + 1, L) = <<>>
  <2> DEFINE a == L + 1
             v == SubSeq(s, a, L)
  <2>1. a \in Nat /\ L \in Int /\ a >= 1 /\ L >= a - 1 /\ L <= Len(s) /\ L - a + 1 = 0
    BY <1>0 DEF L
  <2> HIDE DEF a
  <2>2. SubSeq(s, a, L) \in Seq(B) /\ Len(SubSeq(s, a, L)) = L - a + 1
    BY <2>1, PartFacts
  <2> HIDE DEF v
  <2>3. v \in Seq(B) /\ Len(v) = 0
    BY <2>1, <2>2 DEF v
  <2>4. v = <<>>
    BY <2>3
  <2> QED BY <2>4 DEF v, a
<1> QED BY <1>2, <1>3, <1>4, <1>5, <1>6 DEF u, L, M

\* One more element that is not among those of a sequence.
LEMMA StartedMore ==
  ASSUME NEW B, NEW s \in Seq(B), IsInjective(s), NEW x \in B, x \notin ToSet(s)
  PROVE  IsInjective(Append(s, x)) /\ ToSet(Append(s, x)) = ToSet(s) \cup {x}
<1> DEFINE u == Append(s, x)
           n == Len(s)
<1>1. /\ DOMAIN s = 1 .. n /\ DOMAIN u = 1 .. n + 1 /\ n \in Nat /\ u[n + 1] = x
      /\ \A i \in 1 .. n : u[i] = s[i]
  OBVIOUS
<1>2. \A i \in 1 .. n : s[i] # x
  BY <1>1 DEF ToSet
<1> HIDE DEF u, n
<1>3. IsInjective(u)
  <2> SUFFICES ASSUME NEW i \in 1 .. n + 1, NEW j \in 1 .. n + 1, u[i] = u[j] PROVE i = j
    BY <1>1 DEF IsInjective
  <2>1. \A a, b \in 1 .. n : s[a] = s[b] => a = b
    BY <1>1 DEF IsInjective
  <2>2. i \in 1 .. n \/ i = n + 1
    BY <1>1
  <2>3. j \in 1 .. n \/ j = n + 1
    BY <1>1
  <2> QED BY <1>1, <1>2, <2>1, <2>2, <2>3
<1>4. ToSet(u) = {u[i] : i \in 1 .. n + 1} /\ ToSet(s) = {s[i] : i \in 1 .. n}
  BY <1>1 DEF ToSet
<1>5. ToSet(u) = ToSet(s) \cup {x}
  <2>1. 1 .. n + 1 = (1 .. n) \cup {n + 1}
    BY <1>1
  <2> QED BY <1>1, <1>4, <2>1
<1> QED BY <1>3, <1>5 DEF u

\* The calls that the parts so far come to.
CallsHold(map, w, P) ==
  /\ DOMAIN map = {k \in DOMAIN w.calls : PartsOf(P, k) # <<>>}
  /\ \A k \in DOMAIN map : map[k] = CallOf(PartsOf(P, k))

\* Calls of an answer that have an id are told apart by it.
Distinct(w) ==
  \A i, j \in DOMAIN w.calls : w.calls[i].id = w.calls[j].id => i = j \/ w.calls[i].id = None

\* What the host was told of the calls so far: all but n of a call's arguments.
ArgumentsTold(live, call, n) ==
  /\ n \in 0 .. Len(call.arguments)
  /\ ArguedBy(live, call.id) = SubSeq(call.arguments, n + 1, Len(call.arguments))
NamedFirst(P, k) == Head(PartsOf(P, k)).id # None
CallsTold(live, map, P) ==
  /\ IsInjective(ToldBy(live, "tool_call_started"))
  /\ ToSet(ToldBy(live, "tool_call_started")) = {map[k].id : k \in DOMAIN map} \ {None}
  /\ \A x : x \notin ToSet(ToldBy(live, "tool_call_started")) => ArguedBy(live, x) = <<>>
  /\ \A k \in DOMAIN map :
       /\ map[k].id # None =>
            \E n : ArgumentsTold(live, map[k], n) /\ (NamedFirst(P, k) => n = 0)
       /\ NamedFirst(P, k) => map[k].id # None

\* One more part of a call.
LEMMA CallAdded ==
  ASSUME NEW w \in ChatAnswers, Distinct(w), NEW acc, IsAccumulator(acc, w), None \notin Texts,
         NEW P \in Seq(CallParts(w)), CallsHold(acc.calls, w, P), CallsTold(acc.live, acc.calls, P),
         NEW p \in CallParts(w)
  PROVE  LET t == AddCall(acc, p) IN
         /\ CallsHold(t.calls, w, Append(P, p)) /\ CallsTold(t.live, t.calls, Append(P, p))
         /\ ButCalls(t, acc)
<1> DEFINE A == CallParts(w)
           k == p.index
           map == acc.calls
           live == acc.live
           Q == Append(P, p)
           s == PartsOf(P, k)
           r == Append(s, p)
           old == CallOf(s)
           new == CallOf(r)
           a == p.arguments
           b == old.arguments
           t == AddCall(acc, p)
           map2 == t.calls
           live2 == t.live
<1>1. k \in DOMAIN w.calls /\ a \in Texts /\ p.id \in {None, w.calls[k].id} /\ p.id \in Maybe(STRING)
  BY DEF CallParts
<1>2. /\ DOMAIN map = {j \in DOMAIN w.calls : PartsOf(P, j) # <<>>}
      /\ \A j \in DOMAIN map : map[j] = CallOf(PartsOf(P, j))
  BY Zenon DEF CallsHold
<1>3. /\ s \in Seq(A) /\ PartsOf(Q, k) = r
      /\ \A j : j # k => PartsOf(Q, j) = PartsOf(P, j)
  <2>1. \A j : /\ PartsOf(P, j) \in Seq(A)
               /\ PartsOf(Q, j) = IF p.index = j THEN Append(PartsOf(P, j), p) ELSE PartsOf(P, j)
    BY PartsMore
  <2> QED BY <2>1, Zenon
<1>4. r # <<>> /\ (s # <<>> => Head(r) = Head(s)) /\ (s = <<>> => Head(r) = p)
  <2> HIDE DEF s, A
  <2>1. p \in A
    BY DEF A
  <2> QED BY <1>3, <2>1
<1>5. /\ CallOf(<<>>) = WireCall("function", None, <<>>)
      /\ new = WireCall("function", Replaced(old.id, p.id), b \o a)
      /\ old = WireCall("function", old.id, b) /\ b \in Texts
  <2> HIDE DEF s
  <2> QED BY <1>3, CallMore, Zenon
<1>6. \A j \in DOMAIN map : map[j].id \in {None, w.calls[j].id} /\ map[j].id \in Maybe(STRING)
  <2>1. PICK D \in SUBSET DOMAIN w.calls :
          map \in [D -> WireCalls] /\ \A j \in D : map[j].id \in {None, w.calls[j].id}
    BY DEF IsAccumulator
  <2>2. \A c \in WireCalls : c.id \in Maybe(STRING)
    BY DEF WireCalls
  <2> QED BY <2>1, <2>2
<1> HIDE DEF Q, A, map, live, t, map2, live2
<1>7. CallOld(acc, p) = old
  <2>1. CASE k \in DOMAIN map
    BY <1>2, <2>1 DEF At, CallOld, map
  <2>2. CASE k \notin DOMAIN map
    <3>1. s = <<>>
      BY <1>1, <1>2, <2>2
    <3> QED BY <1>5, <2>2, <3>1, Zenon DEF At, CallOld, map
  <2> QED BY <2>1, <2>2
<1>8. (k \notin DOMAIN map => s = <<>> /\ old.id = None) /\ (k \in DOMAIN map => map[k] = old /\ s # <<>>)
      /\ (s = <<>> => old.id = None)
  <2>1. s = <<>> => old.id = None
    <3>1. CallOf(<<>>).id = None
      BY <1>5, WireCallFacts
    <3> HIDE DEF s
    <3> QED BY <3>1
  <2> HIDE DEF s, old
  <2>2. map[k] = CallOf(PartsOf(P, k)) <=> map[k] = old
    BY DEF old, s
  <2>3. s = PartsOf(P, k)
    BY DEF s
  <2> QED BY <1>1, <1>2, <2>1, <2>2, <2>3
<1>9. old.id \in Maybe(STRING) /\ old.id \in {None, w.calls[k].id}
  <2> HIDE DEF old, s
  <2> QED BY <1>6, <1>8 DEF Maybe
<1> HIDE DEF s, r, old, new
<1>10. new.id = Replaced(old.id, p.id) /\ new.arguments = b \o a
  <2> DEFINE x == Replaced(old.id, p.id)
             y == b \o a
  <2>1. new = WireCall("function", x, y)
    BY <1>5
  <2> HIDE DEF x, y
  <2>2. new.id = x /\ new.arguments = y
    BY <2>1, WireCallFacts
  <2> QED BY <2>2 DEF x, y
<1>11. CallStep(t, acc, k, old, new, a)
  <2> DEFINE i == old.id
  <2>1. i \in Maybe(STRING) /\ CallOld(acc, p) = WireCall("function", i, b)
    BY <1>5, <1>7, <1>9
  <2>2. new = WireCall("function", Replaced(i, p.id), b \o a) /\ old = WireCall("function", i, b)
    BY <1>5
  <2> HIDE DEF i, a, b, k
  <2>3. CallStep(AddCall(acc, p), acc, p.index, WireCall("function", i, b),
                 WireCall("function", Replaced(i, p.id), b \o p.arguments), p.arguments)
    BY <2>1, CallStepped
  <2> QED BY <2>2, <2>3 DEF t, a, k
<1>12. /\ map2 = With(map, k, new) /\ ButCalls(t, acc)
       /\ ToldBy(live2, "tool_call_started") = ToldBy(live, "tool_call_started")
            \o (IF old.id = None /\ new.id # None THEN <<new.id>> ELSE <<>>)
       /\ \A y : ArguedBy(live2, y)
                   = ArguedBy(live, y) \o (IF new.id # None /\ y = new.id THEN a ELSE <<>>)
  BY <1>11, Zenon DEF CallStep, map, live, map2, live2
<1>13. DOMAIN map2 = DOMAIN map \cup {k} /\ map2[k] = new /\ \A j \in DOMAIN map : j # k => map2[j] = map[j]
  <2> HIDE DEF k
  <2>1. map2 = With(map, k, new)
    BY <1>12
  <2> QED BY <2>1 DEF With
<1>14. CallsHold(map2, w, Q)
  <2>1. DOMAIN map2 = {j \in DOMAIN w.calls : PartsOf(Q, j) # <<>>}
    BY <1>1, <1>2, <1>3, <1>4, <1>13
  <2>2. ASSUME NEW j \in DOMAIN map2 PROVE map2[j] = CallOf(PartsOf(Q, j))
    <3>1. CASE j = k
      BY <1>3, <1>13, <3>1, Zenon DEF new
    <3>2. CASE j # k
      <4>1. j \in DOMAIN map
        BY <1>13, <3>2
      <4>2. map2[j] = map[j] /\ map[j] = CallOf(PartsOf(P, j)) /\ PartsOf(Q, j) = PartsOf(P, j)
        BY <1>2, <1>3, <1>13, <3>2, <4>1
      <4> QED BY <4>2
    <3> QED BY <3>1, <3>2
  <2> QED BY <2>1, <2>2, Zenon DEF CallsHold
<1> DEFINE started == ToldBy(live, "tool_call_started")
           begun == ToSet(started)
           started2 == ToldBy(live2, "tool_call_started")
           x == new.id
<1>15. /\ IsInjective(started) /\ begun = {map[j].id : j \in DOMAIN map} \ {None}
       /\ \A y : y \notin begun => ArguedBy(live, y) = <<>>
       /\ \A j \in DOMAIN map :
            /\ map[j].id # None =>
                 \E n : ArgumentsTold(live, map[j], n) /\ (NamedFirst(P, j) => n = 0)
            /\ NamedFirst(P, j) => map[j].id # None
  BY Zenon DEF CallsTold, map, live
<1>16. started \in Seq(Words) /\ \A y : ArguedBy(live, y) \in Seq(Words)
  <2>1. live \in Seq(Lives)
    BY DEF IsAccumulator, live
  <2> QED BY <2>1, ToldTypes
<1>17. \A j \in DOMAIN map : map[j].id # None /\ map[j].id = w.calls[k].id => j = k
  <2>1. DOMAIN map \subseteq DOMAIN w.calls
    BY <1>2
  <2> QED BY <1>1, <1>6, <2>1 DEF Distinct
<1>18. /\ x \in {None, w.calls[k].id} /\ x \in Maybe(STRING)
       /\ old.id # None => x = old.id
       /\ (p.id # None => x = p.id)
  BY <1>1, <1>9, <1>10 DEF Replaced
<1>19. NamedFirst(Q, k) => x # None
  <2>1. CASE s = <<>>
    BY <1>3, <1>4, <1>18, <2>1 DEF NamedFirst
  <2>2. CASE s # <<>>
    <3>1. k \in DOMAIN map
      BY <1>8, <2>2
    <3>2. NamedFirst(Q, k) => NamedFirst(P, k)
      BY <1>3, <1>4, <2>2, Zenon DEF NamedFirst, s
    <3>3. NamedFirst(P, k) => old.id # None
      BY <1>8, <1>15, <3>1
    <3> QED BY <1>18, <3>2, <3>3
  <2> QED BY <2>1, <2>2
<1>20. \A j : j # k => (NamedFirst(Q, j) <=> NamedFirst(P, j))
  BY <1>3, Zenon DEF NamedFirst
<1> HIDE DEF started, begun, started2, x, a, b, k
<1>21. \A y \in Seq(Words) : y \o <<>> = y
  OBVIOUS
<1>22. /\ IsInjective(started2)
       /\ ToSet(started2) = begun \cup ({x} \ {None})
       /\ old.id = None /\ x # None => x \notin begun
  <2>1. CASE old.id = None /\ x # None
    <3>1. x \notin begun
      <4> SUFFICES ASSUME x \in begun PROVE FALSE
        OBVIOUS
      <4>1. PICK j \in DOMAIN map : map[j].id = x
        BY <1>15
      <4>2. j = k
        BY <1>17, <1>18, <2>1, <4>1
      <4> QED BY <1>8, <2>1, <4>1, <4>2
    <3>2. started2 = Append(started, x) /\ x \in Words
      <4>1. started2 = started \o <<x>>
        BY <1>12, <2>1 DEF started, started2, x
      <4>2. x \in Words
        BY <1>18, <2>1 DEF Maybe, Words
      <4> QED BY <1>16, <4>1, <4>2
    <3>3. IsInjective(started2) /\ ToSet(started2) = begun \cup {x}
      BY <1>15, <1>16, <3>1, <3>2, StartedMore DEF begun
    <3> QED BY <2>1, <3>1, <3>3
  <2>2. CASE ~(old.id = None /\ x # None)
    <3>1. started2 = started
      <4>1. started2 = started \o <<>>
        BY <1>12, <2>2 DEF started, started2, x
      <4> QED BY <1>16, <1>21, <4>1
    <3>2. x # None => x \in begun
      <4> SUFFICES ASSUME x # None PROVE x \in begun
        OBVIOUS
      <4>1. old.id # None /\ k \in DOMAIN map /\ map[k].id = x
        BY <1>8, <1>18, <2>2
      <4> QED BY <1>15, <4>1
    <3>3. ToSet(started2) = begun
      BY <3>1 DEF begun
    <3> QED BY <1>15, <2>2, <3>1, <3>2, <3>3
  <2> QED BY <2>1, <2>2
<1>23. begun \cup ({x} \ {None}) = {map2[j].id : j \in DOMAIN map2} \ {None}
  <2>1. ASSUME NEW y, y \in begun PROVE y \in {map2[j].id : j \in DOMAIN map2} \ {None}
    <3>1. PICK j \in DOMAIN map : map[j].id = y /\ y # None
      BY <1>15, <2>1
    <3>2. CASE j = k
      <4>1. y = x
        BY <1>8, <1>18, <3>1, <3>2
      <4> QED BY <1>13, <3>1, <4>1 DEF x
    <3>3. CASE j # k
      BY <1>13, <3>1, <3>3
    <3> QED BY <3>2, <3>3
  <2>2. x # None => x \in {map2[j].id : j \in DOMAIN map2} \ {None}
    BY <1>13 DEF x
  <2>3. ASSUME NEW j \in DOMAIN map2, map2[j].id # None PROVE map2[j].id \in begun \cup ({x} \ {None})
    <3>1. CASE j = k
      BY <1>13, <2>3, <3>1 DEF x
    <3>2. CASE j # k
      BY <1>13, <1>15, <2>3, <3>2
    <3> QED BY <3>1, <3>2
  <2> QED BY <2>1, <2>2, <2>3
<1>24. /\ \A y : y # x => ArguedBy(live2, y) = ArguedBy(live, y)
       /\ x # None => ArguedBy(live2, x) = ArguedBy(live, x) \o a
  BY <1>12, <1>16, <1>21, Zenon DEF x
<1>25. ASSUME NEW y, y \notin ToSet(started2) PROVE ArguedBy(live2, y) = <<>>
  <2>1. y \notin begun
    BY <1>22, <1>25
  <2>2. CASE y = x
    <3>1. x = None
      BY <1>22, <1>25, <2>2
    <3>2. ArguedBy(live2, y) = ArguedBy(live, y) \o <<>>
      BY <1>12, <2>2, <3>1, Zenon DEF x
    <3> QED BY <1>15, <1>16, <1>21, <2>1, <3>2, Zenon
  <2>3. CASE y # x
    BY <1>15, <1>24, <2>1, <2>3
  <2> QED BY <2>2, <2>3
<1>26. ASSUME NEW j \in DOMAIN map2, map2[j].id # None
       PROVE  \E n : ArgumentsTold(live2, map2[j], n) /\ (NamedFirst(Q, j) => n = 0)
  <2>1. CASE j = k
    <3>1. map2[j] = new /\ x # None /\ map2[j].id = x
      BY <1>13, <1>26, <2>1 DEF x
    <3>2. PICK n : /\ n \in 0 .. Len(b) /\ ArguedBy(live, x) = SubSeq(b, n + 1, Len(b))
                   /\ NamedFirst(Q, k) => n = 0
      <4>1. CASE old.id = None
        <5>1. ArguedBy(live, x) = <<>>
          BY <1>15, <1>22, <3>1, <4>1
        <5>2. SubSeq(b, Len(b) + 1, Len(b)) = <<>> /\ Len(b) \in 0 .. Len(b)
          <6> DEFINE S == STRING
          <6>1. b \in Seq(S)
            BY <1>5 DEF Texts
          <6> HIDE DEF S
          <6>2. Len(b) \in 0 .. Len(b)
            BY <6>1
          <6> QED BY <6>1, <6>2, TailMore
        <5>3. NamedFirst(Q, k) => Len(b) = 0
          <6>1. CASE s = <<>>
            <7>1. CallOf(<<>>).arguments = <<>>
              BY <1>5, WireCallFacts
            <7>2. b = <<>>
              BY <6>1, <7>1 DEF b, old
            <7> QED BY <7>2
          <6>2. CASE s # <<>>
            <7>1. k \in DOMAIN map
              BY <1>8, <6>2
            <7>2. NamedFirst(Q, k) => NamedFirst(P, k)
              BY <1>3, <1>4, <6>2, Zenon DEF NamedFirst, s
            <7> QED BY <1>8, <1>15, <4>1, <7>1, <7>2
          <6> QED BY <6>1, <6>2
        <5> QED BY <5>1, <5>2, <5>3
      <4>2. CASE old.id # None
        <5>1. k \in DOMAIN map /\ map[k] = old /\ x = old.id /\ s # <<>>
          BY <1>8, <1>18, <4>2
        <5>2. PICK n : ArgumentsTold(live, map[k], n) /\ (NamedFirst(P, k) => n = 0)
          BY <1>15, <4>2, <5>1
        <5>3. NamedFirst(Q, k) => NamedFirst(P, k)
          BY <1>3, <1>4, <5>1, Zenon DEF NamedFirst, s
        <5>4. n \in 0 .. Len(b) /\ ArguedBy(live, x) = SubSeq(b, n + 1, Len(b))
          BY <5>1, <5>2, Zenon DEF ArgumentsTold, b
        <5> QED BY <5>2, <5>3, <5>4
      <4> QED BY <4>1, <4>2
    <3>3. ArgumentsTold(live2, new, n)
      <4> DEFINE S == STRING
                 u == b \o a
      <4>1. b \in Seq(S) /\ a \in Seq(S)
        BY <1>1, <1>5 DEF Texts, a
      <4> HIDE DEF S
      <4>2. SubSeq(b, n + 1, Len(b)) \o a = SubSeq(u, n + 1, Len(u)) /\ n \in 0 .. Len(u)
        BY <3>2, <4>1, TailMore
      <4>3. new.arguments = u /\ new.id = x
        BY <1>10 DEF a, b, x
      <4> HIDE DEF u
      <4>4. ArguedBy(live2, x) = SubSeq(u, n + 1, Len(u))
        BY <1>24, <3>1, <3>2, <4>2
      <4> QED BY <4>2, <4>3, <4>4, Zenon DEF ArgumentsTold
    <3> QED BY <2>1, <3>1, <3>2, <3>3
  <2>2. CASE j # k
    <3>1. j \in DOMAIN map /\ map2[j] = map[j]
      BY <1>13, <2>2
    <3>2. map[j].id # x
      BY <1>17, <1>18, <1>26, <2>2, <3>1
    <3>3. PICK n : ArgumentsTold(live, map[j], n) /\ (NamedFirst(P, j) => n = 0)
      BY <1>15, <1>26, <3>1
    <3>4. ArgumentsTold(live2, map[j], n)
      BY <1>24, <3>2, <3>3, Zenon DEF ArgumentsTold
    <3> QED BY <1>20, <2>2, <3>1, <3>3, <3>4
  <2> QED BY <2>1, <2>2
<1>27. ASSUME NEW j \in DOMAIN map2, NamedFirst(Q, j) PROVE map2[j].id # None
  <2>1. CASE j = k
    BY <1>13, <1>19, <1>27, <2>1 DEF x
  <2>2. CASE j # k
    BY <1>13, <1>15, <1>20, <1>27, <2>2
  <2> QED BY <2>1, <2>2
<1>28. CallsTold(live2, map2, Q)
  <2>1. ToSet(started2) = {map2[j].id : j \in DOMAIN map2} \ {None}
    BY <1>22, <1>23
  <2> QED BY <1>22, <1>25, <1>26, <1>27, <2>1, Zenon DEF CallsTold, started2
<1> QED BY <1>12, <1>14, <1>28 DEF t, map2, live2, Q

\* More parts of calls.
LEMMA CallsAdded ==
  ASSUME NEW w \in ChatAnswers, Distinct(w), NEW acc, IsAccumulator(acc, w), None \notin Texts,
         NEW P \in Seq(CallParts(w)), CallsHold(acc.calls, w, P), CallsTold(acc.live, acc.calls, P),
         NEW s \in Seq(CallParts(w))
  PROVE  /\ CallsHold(AddCalls(acc, s).calls, w, P \o s)
         /\ CallsTold(AddCalls(acc, s).live, AddCalls(acc, s).calls, P \o s)
         /\ ButCalls(AddCalls(acc, s), acc)
<1> DEFINE n == Len(s)
           A == CallParts(w)
<1>1. PICK h : /\ h[0] = acc /\ h[n] = AddCalls(acc, s)
               /\ \A k \in 1 .. n : h[k] = AddCall(h[k - 1], s[k])
  BY CallsFolds
<1> DEFINE u(i) == SubSeq(s, 1, i)
           I(i) == /\ IsAccumulator(h[i], w) /\ CallsHold(h[i].calls, w, P \o u(i))
                   /\ CallsTold(h[i].live, h[i].calls, P \o u(i)) /\ ButCalls(h[i], acc)
           R == {i \in Nat : i <= n => I(i)}
<1>2. n \in Nat /\ \A k \in 1 .. n : s[k] \in A
  OBVIOUS
<1>3. /\ u(0) = <<>> /\ u(n) = s
      /\ \A k \in 0 .. n : u(k) \in Seq(A)
      /\ \A k \in Nat : k + 1 <= n => u(k + 1) = Append(u(k), s[k + 1])
  BY PrefixMore
<1>4. P \o <<>> = P
  OBVIOUS
<1> HIDE DEF n, u
<1>5. 0 \in R
  <2>1. ButCalls(acc, acc)
    BY DEF ButCalls
  <2> QED BY <1>1, <1>3, <1>4, <2>1
<1>6. ASSUME NEW k \in Nat, k \in R PROVE k + 1 \in R
  <2> SUFFICES ASSUME k + 1 <= n PROVE I(k + 1)
    OBVIOUS
  <2>1. k + 1 \in 1 .. n /\ (k + 1) - 1 = k /\ k \in 0 .. n /\ I(k)
    BY <1>2, <1>6
  <2>2. h[k + 1] = AddCall(h[k], s[k + 1]) /\ s[k + 1] \in A
    <3>1. h[k + 1] = AddCall(h[(k + 1) - 1], s[k + 1])
      BY <1>1, <2>1, Zenon
    <3>2. h[k + 1] = AddCall(h[k], s[k + 1])
      BY <2>1, <3>1, Zenon
    <3> QED BY <1>2, <2>1, <3>2
  <2> DEFINE v == P \o u(k)
             x == s[k + 1]
  <2>3. v \in Seq(A) /\ P \o u(k + 1) = Append(v, x)
    <3> DEFINE q == u(k)
    <3>1. q \in Seq(A) /\ u(k + 1) = Append(q, x) /\ x \in A /\ P \in Seq(A)
      BY <1>3, <2>1, <2>2
    <3> HIDE DEF A, x, q
    <3>2. P \o q \in Seq(A) /\ P \o Append(q, x) = Append(P \o q, x)
      BY <3>1
    <3> QED BY <3>1, <3>2 DEF q
  <2> HIDE DEF v, x
  <2>5. IsAccumulator(h[k + 1], w)
    BY <2>1, <2>2, AddCallTypes
  <2>6. CallsHold(h[k].calls, w, v) /\ CallsTold(h[k].live, h[k].calls, v)
    BY <2>1 DEF v
  <2> DEFINE t == AddCall(h[k], x)
  <2>7. CallsHold(t.calls, w, Append(v, x)) /\ CallsTold(t.live, t.calls, Append(v, x))
        /\ ButCalls(t, h[k])
    <3>1. x \in CallParts(w) /\ v \in Seq(CallParts(w)) /\ IsAccumulator(h[k], w)
      BY <2>1, <2>2, <2>3 DEF x
    <3> QED BY <2>6, <3>1, CallAdded
  <2>8. ButCalls(t, acc)
    BY <2>1, <2>7, Zenon DEF ButCalls
  <2>9. t = h[k + 1]
    BY <2>2 DEF x
  <2> HIDE DEF t
  <2> QED BY <2>3, <2>5, <2>7, <2>8, <2>9
<1>7. Nat \subseteq R
  <2> HIDE DEF R
  <2> QED BY <1>5, <1>6, NatInduct
<1>8. I(n)
  BY <1>2, <1>7
<1> QED BY <1>1, <1>3, <1>8

-----------------------------------------------------------------------------
(* Deltas, joined.                                                          *)

\* What a delta has of each kind.
ContentIn(w) == [d \in Deltas(w) |-> d.content]
ReasoningIn(w) == [d \in Deltas(w) |-> d.reasoning]
CallsIn(w) == [d \in Deltas(w) |-> d.calls]
DetailsIn(w) == [d \in Deltas(w) |-> d.details]

\* Their types.
LEMMA InTypes ==
  ASSUME NEW w
  PROVE  /\ ContentIn(w) \in ToSeqs(Deltas(w), STRING)
         /\ ReasoningIn(w) \in [Deltas(w) -> Maybe(Texts)]
         /\ CallsIn(w) \in ToSeqs(Deltas(w), CallParts(w))
         /\ DetailsIn(w) \in ToSeqs(Deltas(w), DetailParts(w))
<1> DEFINE T == Seq(STRING)
           M == Maybe(Texts)
           C == Seq(CallParts(w))
           R == Seq(DetailParts(w))
           P == Seq(ChatParts)
           D == Deltas(w)
<1>1. D = [content : T, parts : P, refusal : M, reasoning : M, calls : C, details : R]
  BY DEF Deltas, Texts
<1> HIDE DEF T, C, R, D, M, P
<1>2. \A d \in D : d.content \in T /\ d.reasoning \in M /\ d.calls \in C /\ d.details \in R
  BY <1>1
<1>3. /\ [d \in D |-> d.content] \in [D -> T] /\ [d \in D |-> d.reasoning] \in [D -> M]
      /\ [d \in D |-> d.calls] \in [D -> C] /\ [d \in D |-> d.details] \in [D -> R]
  BY <1>2
<1> QED BY <1>3, Zenon DEF T, M, C, R, D, ContentIn, ReasoningIn, CallsIn, DetailsIn, ToSeqs

\* Deltas, joined.
LEMMA JoinedAs ==
  ASSUME NEW w, NEW s \in Seq(Deltas(w))
  PROVE  /\ Joined(s).content = FlatMap(s, ContentIn(w))
         /\ Joined(s).reasoning = TextBy(s, ReasoningIn(w))
         /\ Joined(s).calls = FlatMap(s, CallsIn(w))
         /\ Joined(s).details = FlatMap(s, DetailsIn(w))
<1>1. \A i \in DOMAIN s : s[i] \in Deltas(w)
  OBVIOUS
<1>2. /\ [i \in DOMAIN s |-> s[i].content] = [i \in DOMAIN s |-> ContentIn(w)[s[i]]]
      /\ [i \in DOMAIN s |-> s[i].calls] = [i \in DOMAIN s |-> CallsIn(w)[s[i]]]
      /\ [i \in DOMAIN s |-> s[i].details] = [i \in DOMAIN s |-> DetailsIn(w)[s[i]]]
  BY <1>1 DEF ContentIn, CallsIn, DetailsIn
<1> DEFINE a == FlattenSeq([i \in DOMAIN s |-> s[i].content])
           b == JoinedText(s, LAMBDA d : d.reasoning)
           p == FlattenSeq([i \in DOMAIN s |-> s[i].parts])
           r == JoinedText(s, LAMBDA d : d.refusal)
           c == FlattenSeq([i \in DOMAIN s |-> s[i].calls])
           d == FlattenSeq([i \in DOMAIN s |-> s[i].details])
<1>3. Joined(s) = [content |-> a, parts |-> p, refusal |-> r, reasoning |-> b, calls |-> c, details |-> d]
  BY Zenon DEF Joined, Each
<1>4. b = TextBy(s, ReasoningIn(w))
  <2> DEFINE G == TextsIn(ReasoningIn(w))
             absent == \A i \in DOMAIN s : s[i].reasoning = None
             all == FlattenSeq([i \in DOMAIN s |-> TextOf(s[i].reasoning)])
  <2>1. [i \in DOMAIN s |-> TextOf(s[i].reasoning)] = [i \in DOMAIN s |-> G[s[i]]]
    BY <1>1 DEF TextsIn, ReasoningIn
  <2>2. all = FlatMap(s, G)
    BY <2>1, Zenon DEF FlatMap
  <2>3. absent <=> \A i \in DOMAIN s : ReasoningIn(w)[s[i]] = None
    BY <1>1 DEF ReasoningIn
  <2>4. b = (IF absent THEN None ELSE all)
    BY Zenon DEF JoinedText, Each
  <2> HIDE DEF absent, all, b
  <2> QED BY <2>2, <2>3, <2>4 DEF TextBy
<1> HIDE DEF a, b, c, d, p, r
<1>5. /\ Joined(s).content = a /\ Joined(s).reasoning = b
      /\ Joined(s).calls = c /\ Joined(s).details = d
  BY <1>3
<1> QED BY <1>2, <1>4, <1>5, Zenon DEF FlatMap, a, c, d

\* c has what a has and, behind it, what b has.
Follows(a, b, c) ==
  /\ c.content = a.content \o b.content /\ c.reasoning = Grown(a.reasoning, b.reasoning)
  /\ c.calls = a.calls \o b.calls /\ c.details = a.details \o b.details

\* Deltas behind deltas.
LEMMA JoinedFollow ==
  ASSUME NEW w, NEW s \in Seq(Deltas(w)), NEW t \in Seq(Deltas(w)), None \notin Texts
  PROVE  Follows(Joined(s), Joined(t), Joined(s \o t))
<1> DEFINE D == Deltas(w)
<1>1. s \o t \in Seq(D)
  OBVIOUS
<1>2. /\ FlatMap(s \o t, ContentIn(w)) = FlatMap(s, ContentIn(w)) \o FlatMap(t, ContentIn(w))
      /\ FlatMap(s \o t, CallsIn(w)) = FlatMap(s, CallsIn(w)) \o FlatMap(t, CallsIn(w))
      /\ FlatMap(s \o t, DetailsIn(w)) = FlatMap(s, DetailsIn(w)) \o FlatMap(t, DetailsIn(w))
  <2> DEFINE C == CallParts(w)
             R == DetailParts(w)
             S == STRING
  <2>1. /\ ContentIn(w) \in ToSeqs(D, S) /\ CallsIn(w) \in ToSeqs(D, C)
        /\ DetailsIn(w) \in ToSeqs(D, R) /\ s \in Seq(D) /\ t \in Seq(D)
    BY InTypes
  <2> HIDE DEF C, R, S, D
  <2>2. FlatMap(s \o t, ContentIn(w)) = FlatMap(s, ContentIn(w)) \o FlatMap(t, ContentIn(w))
    BY <2>1, FlatMapConcat
  <2>3. FlatMap(s \o t, CallsIn(w)) = FlatMap(s, CallsIn(w)) \o FlatMap(t, CallsIn(w))
    BY <2>1, FlatMapConcat
  <2>4. FlatMap(s \o t, DetailsIn(w)) = FlatMap(s, DetailsIn(w)) \o FlatMap(t, DetailsIn(w))
    BY <2>1, FlatMapConcat
  <2> QED BY <2>2, <2>3, <2>4
<1>3. TextBy(s \o t, ReasoningIn(w)) = Grown(TextBy(s, ReasoningIn(w)), TextBy(t, ReasoningIn(w)))
  BY InTypes, TextJoins
<1> QED BY <1>1, <1>2, <1>3, JoinedAs DEF Follows

\* No deltas, joined.
LEMMA JoinedNone ==
  ASSUME NEW w, None \notin Texts
  PROVE  /\ Joined(<<>>).content = <<>> /\ Joined(<<>>).reasoning = None
         /\ Joined(<<>>).calls = <<>> /\ Joined(<<>>).details = <<>>
<1> DEFINE z == <<>>
           D == Deltas(w)
<1>1. z \in Seq(D)
  OBVIOUS
<1>2. FlatMap(z, ContentIn(w)) = <<>> /\ FlatMap(z, CallsIn(w)) = <<>> /\ FlatMap(z, DetailsIn(w)) = <<>>
  BY <1>1, InTypes, FlatMapUnfolds
<1>3. TextBy(z, ReasoningIn(w)) = None
  BY <1>1, InTypes, TextMore
<1> DEFINE none == <<>>
<1>4. none = <<>> /\ none = z
  OBVIOUS
<1> HIDE DEF z, D, none
<1>5. /\ Joined(z).content = FlatMap(z, ContentIn(w)) /\ Joined(z).reasoning = TextBy(z, ReasoningIn(w))
      /\ Joined(z).calls = FlatMap(z, CallsIn(w)) /\ Joined(z).details = FlatMap(z, DetailsIn(w))
  BY <1>1, JoinedAs DEF D
<1> QED BY <1>2, <1>3, <1>4, <1>5
\* cum: what the first d chunks of the answer w have, for each d.
Cumulates(cum, chunks, deltas, w) ==
  /\ Len(chunks) \in Nat \ {0}
  /\ cum[0].content = <<>> /\ cum[0].reasoning = None /\ cum[0].calls = <<>> /\ cum[0].details = <<>>
  /\ \A d \in 0 .. Len(chunks) :
       cum[d] \in Deltas(w) /\ \E rest \in Deltas(w) : Follows(cum[d], rest, Joined(deltas))
  /\ cum[Len(chunks)] = Joined(deltas)
  /\ \A d \in 1 .. Len(chunks) :
       /\ chunks[d].delta \in Deltas(w) /\ Follows(cum[d - 1], chunks[d].delta, cum[d])
       /\ chunks[d].finish = IF d < Len(chunks) THEN None
                             ELSE IF w.calls = <<>> THEN "stop" ELSE "tool_calls"

\* Wherever an answer is cut, its chunks are all of it, in order.
LEMMA ChunksCumulate ==
  ASSUME NEW w, NEW deltas \in Seq(Deltas(w)), deltas # <<>>, None \notin Texts,
         NEW cuts \in SUBSET (1 .. Len(deltas) - 1)
  PROVE  \E cum : Cumulates(cum, Chunks(deltas, w, cuts), deltas, w)
<1> DEFINE f == deltas
           D == Deltas(w)
           n == Len(f)
           S == cuts \cup {n}
           ends == InOrder(S)
           N == Len(ends)
           begin(k) == IF k = 1 THEN 1 ELSE ends[k - 1] + 1
           finish(k) == IF k < N THEN None
                        ELSE IF w.calls = <<>> THEN "stop" ELSE "tool_calls"
           chunks == Chunks(deltas, w, cuts)
           e == [d \in 0 .. N |-> IF d = 0 THEN 0 ELSE ends[d]]
           cum == [d \in 0 .. N |-> Joined(SubSeq(f, 1, e[d]))]
<1>1. f \in Seq(D) /\ n \in Nat \ {0}
  <2>1. f \in Seq(D)
    OBVIOUS
  <2> HIDE DEF f, D
  <2>2. \A s \in Seq(D) : s # <<>> => Len(s) \in Nat \ {0}
    OBVIOUS
  <2>3. f # <<>>
    BY DEF f
  <2> QED BY <2>1, <2>2, <2>3
<1>2. Rising(ends, S, n)
  <2>1. S \in SUBSET (1 .. n) /\ n \in S
    <3>1. cuts \in SUBSET (1 .. n - 1)
      OBVIOUS
    <3> HIDE DEF n
    <3> QED BY <1>1, <3>1
  <2> HIDE DEF S, n
  <2> QED BY <1>1, <2>1, InOrderRises
<1>3. /\ N \in Nat \ {0} /\ ends[N] = n /\ DOMAIN ends = 1 .. N
      /\ \A k \in 1 .. N : ends[k] \in Nat /\ ends[k] <= n /\ ends[k] >= 1
      /\ \A k \in 1 .. N : k > 1 => ends[k - 1] < ends[k]
  <2>1. ends \in Seq(Nat) /\ n \in S
    BY <1>2 DEF Rising
  <2>2. \A k \in S : k >= 1
    <3>1. cuts \in SUBSET (1 .. n - 1)
      OBVIOUS
    <3> HIDE DEF n
    <3> QED BY <1>1, <3>1
  <2> HIDE DEF ends, S, n
  <2>3. N \in Nat /\ DOMAIN ends = 1 .. N /\ \A k \in 1 .. N : ends[k] \in Nat
    BY <2>1
  <2>4. /\ N > 0 /\ ends[N] = n
        /\ \A k \in 1 .. N : ends[k] \in S /\ ends[k] <= n
        /\ \A k \in 1 .. N : k > 1 => ends[k - 1] < ends[k]
    BY <1>2, <2>1 DEF Rising
  <2> HIDE DEF N
  <2> QED BY <2>2, <2>3, <2>4
<1>4. chunks = [k \in 1 .. N |-> [delta |-> Joined(SubSeq(f, begin(k), ends[k])), finish |-> finish(k)]]
  <2>1. chunks = [k \in DOMAIN ends |->
          [delta |-> Joined(SubSeq(f, begin(k), ends[k])), finish |-> finish(k)]]
    BY Zenon DEF Chunks
  <2> HIDE DEF f, ends, begin, finish, N, chunks
  <2> QED BY <1>3, <2>1, Zenon
<1> HIDE DEF f, D, n, S, ends, N, chunks
<1>5. /\ \A d \in 0 .. N : e[d] \in 0 .. n
      /\ e[0] = 0 /\ e[N] = n
      /\ \A d \in 1 .. N : e[d - 1] < e[d] /\ e[d] = ends[d] /\ begin(d) = e[d - 1] + 1
  <2>1. ASSUME NEW d \in 0 .. N PROVE e[d] \in 0 .. n
    <3>1. d # 0 => d \in 1 .. N
      BY <1>3
    <3> QED BY <1>1, <1>3, <3>1
  <2>2. e[0] = 0 /\ e[N] = n
    <3>1. 0 \in 0 .. N /\ N \in 0 .. N /\ N # 0
      BY <1>3
    <3> QED BY <1>3, <3>1
  <2>3. ASSUME NEW d \in 1 .. N PROVE e[d - 1] < e[d] /\ e[d] = ends[d] /\ begin(d) = e[d - 1] + 1
    <3>1. d \in 0 .. N /\ d - 1 \in 0 .. N /\ d # 0
      BY <1>3
    <3>2. e[d] = ends[d] /\ e[d - 1] = IF d - 1 = 0 THEN 0 ELSE ends[d - 1]
      BY <3>1
    <3>3. CASE d = 1
      BY <1>3, <3>2, <3>3
    <3>4. CASE d # 1
      <4>1. d > 1 /\ d - 1 # 0 /\ d - 1 \in 1 .. N
        BY <3>4, <1>3
      <4>2. e[d - 1] = ends[d - 1] /\ begin(d) = ends[d - 1] + 1
        BY <3>2, <3>4, <4>1
      <4> HIDE DEF e, begin
      <4> QED BY <1>3, <3>2, <4>1, <4>2
    <3> QED BY <3>3, <3>4
  <2> QED BY <2>1, <2>2, <2>3
<1>6. Len(chunks) = N
  BY <1>3, <1>4
<1>7. ASSUME NEW d \in 1 .. N
      PROVE  chunks[d].delta = Joined(SubSeq(f, e[d - 1] + 1, e[d])) /\ chunks[d].finish = finish(d)
  <2> DEFINE x == Joined(SubSeq(f, begin(d), ends[d]))
             y == finish(d)
  <2>1. chunks[d] = [delta |-> x, finish |-> y]
    <3> HIDE DEF begin, finish
    <3> QED BY <1>4 DEF x, y
  <2>2. x = Joined(SubSeq(f, e[d - 1] + 1, e[d]))
    <3> HIDE DEF begin, e
    <3> QED BY <1>5, Zenon DEF x
  <2> HIDE DEF x, y
  <2>3. chunks[d].delta = x /\ chunks[d].finish = y
    BY <2>1
  <2> QED BY <2>2, <2>3 DEF y
<1> HIDE DEF begin, finish, e
<1>8. \A d \in 0 .. N : cum[d] = Joined(SubSeq(f, 1, e[d]))
  OBVIOUS
<1> HIDE DEF cum
<1>9. \A p \in 0 .. n : SubSeq(f, 1, p) \in Seq(D)
  BY <1>1, PrefixMore DEF n
<1>10. ASSUME NEW p \in 0 .. n, NEW q \in 0 .. n, p <= q
       PROVE  /\ SubSeq(f, p + 1, q) \in Seq(D)
              /\ Follows(Joined(SubSeq(f, 1, p)), Joined(SubSeq(f, p + 1, q)), Joined(SubSeq(f, 1, q)))
  <2> DEFINE a == 1
             b == p + 1
  <2>1. /\ a \in Nat /\ a >= 1 /\ p \in Nat /\ p >= a - 1 /\ q \in Nat /\ q >= p /\ q <= Len(f)
        /\ b \in Nat /\ q \in Int /\ b >= 1 /\ q >= b - 1
    BY <1>1, <1>10 DEF n
  <2> HIDE DEF a
  <2>2. SubSeq(f, a, p) \o SubSeq(f, p + 1, q) = SubSeq(f, a, q)
    BY <1>1, <2>1, PartsJoin
  <2>3. SubSeq(f, b, q) \in Seq(D)
    <3> HIDE DEF b
    <3> QED BY <1>1, <2>1, PartFacts
  <2>4. SubSeq(f, a, p) \in Seq(D)
    BY <1>9 DEF a
  <2> DEFINE u == SubSeq(f, a, p)
             v == SubSeq(f, b, q)
  <2> HIDE DEF u, v
  <2>5. Follows(Joined(u), Joined(v), Joined(u \o v))
    BY <2>3, <2>4, JoinedFollow DEF u, v, D
  <2> QED BY <2>2, <2>3, <2>5, Zenon DEF u, v, a, b
<1>11. \A s \in Seq(D) : Joined(s) \in D
  BY JoinedTypes DEF D
<1>12. Joined(f) = cum[N]
  <2>1. SubSeq(f, 1, n) = f
    BY <1>1, PrefixMore DEF n
  <2>2. N \in 0 .. N
    BY <1>3
  <2> QED BY <1>5, <1>8, <2>1, <2>2
<1>13. /\ cum[0].content = <<>> /\ cum[0].reasoning = None /\ cum[0].calls = <<>> /\ cum[0].details = <<>>
  <2>1. SubSeq(f, 1, 0) = <<>> /\ 0 \in 0 .. N
    BY <1>1, <1>3, PrefixMore
  <2>2. cum[0] = Joined(<<>>)
    BY <1>5, <1>8, <2>1
  <2> QED BY <2>2, JoinedNone
<1>14. ASSUME NEW d \in 0 .. N
       PROVE  cum[d] \in D /\ \E rest \in D : Follows(cum[d], rest, Joined(f))
  <2>1. e[d] \in 0 .. n /\ n \in 0 .. n /\ e[d] <= n /\ N \in 0 .. N /\ e[N] = n
    BY <1>1, <1>3, <1>5
  <2>2. cum[d] = Joined(SubSeq(f, 1, e[d])) /\ cum[N] = Joined(SubSeq(f, 1, n))
    BY <1>8, <2>1
  <2> DEFINE rest == Joined(SubSeq(f, e[d] + 1, n))
  <2>3. Follows(cum[d], rest, Joined(f)) /\ SubSeq(f, e[d] + 1, n) \in Seq(D)
    BY <1>10, <1>12, <2>1, <2>2
  <2>4. rest \in D /\ cum[d] \in D
    BY <1>9, <1>11, <2>1, <2>2, <2>3
  <2> HIDE DEF rest
  <2> QED BY <2>3, <2>4
<1>15. ASSUME NEW d \in 1 .. N
       PROVE  chunks[d].delta \in D /\ Follows(cum[d - 1], chunks[d].delta, cum[d])
  <2>1. d \in 0 .. N /\ d - 1 \in 0 .. N
    BY <1>3
  <2>2. e[d] \in 0 .. n /\ e[d - 1] \in 0 .. n /\ e[d - 1] <= e[d]
    BY <1>1, <1>5, <2>1
  <2> DEFINE p == e[d - 1]
             q == e[d]
  <2> HIDE DEF p, q
  <2>3. Follows(Joined(SubSeq(f, 1, p)), Joined(SubSeq(f, p + 1, q)), Joined(SubSeq(f, 1, q)))
        /\ SubSeq(f, p + 1, q) \in Seq(D)
    BY <1>10, <2>2 DEF p, q
  <2>4. chunks[d].delta = Joined(SubSeq(f, p + 1, q)) /\ cum[d] = Joined(SubSeq(f, 1, q))
        /\ cum[d - 1] = Joined(SubSeq(f, 1, p))
    BY <1>7, <1>8, <2>1 DEF p, q
  <2> QED BY <1>11, <2>3, <2>4
<1>16. Cumulates(cum, chunks, deltas, w)
  <2>1. \A d \in 1 .. N : chunks[d].finish = finish(d)
    BY <1>7
  <2> QED BY <1>3, <1>6, <1>12, <1>13, <1>14, <1>15, <2>1, Zenon DEF Cumulates, f, D, finish
<1> QED BY <1>16, Zenon DEF chunks

-----------------------------------------------------------------------------
(* One more chunk.                                                          *)

\* What the host was told, where nothing else is.
SameTold(t, acc) ==
  /\ ToldBy(t.live, "tool_call_started") = ToldBy(acc.live, "tool_call_started")
  /\ \A id : ArguedBy(t.live, id) = ArguedBy(acc.live, id)

\* Calls told are the same where what the host was told of them is.
LEMMA CallsToldSame ==
  ASSUME NEW t, NEW acc, NEW P, CallsTold(acc.live, acc.calls, P), t.calls = acc.calls, SameTold(t, acc)
  PROVE  CallsTold(t.live, t.calls, P)
BY Zenon DEF CallsTold, SameTold, ArgumentsTold

\* acc has all that e has, and the host was told of its content and its calls.
Holding(acc, w, e) ==
  /\ IsAccumulator(acc, w)
  /\ acc.content = e.content /\ acc.reasoning = e.reasoning
  /\ ToldBy(acc.live, "text_delta") = e.content
  /\ DetailsHold(acc.details, w, e.details)
  /\ CallsHold(acc.calls, w, e.calls) /\ CallsTold(acc.live, acc.calls, e.calls)

\* acc ends for the given reason, None if it does not end yet.
Ending(acc, finish) ==
  /\ acc.finish = finish
  /\ ToldBy(acc.live, "stream_completed") = IF finish = None THEN <<>> ELSE <<finish>>

\* t has one chunk more than acc, whose reasoning the host was told.
Mused(t, acc, delta) ==
  /\ t.chunks = acc.chunks + 1
  /\ ToldBy(t.live, "reasoning_delta") = ToldBy(acc.live, "reasoning_delta") \o Reasoned(delta)

\* t is acc with more content, and with more reasoning.
MoreContent(t, acc, text) ==
  /\ t.content = acc.content \o text /\ t.reasoning = acc.reasoning /\ t.calls = acc.calls
  /\ t.details = acc.details /\ t.finish = acc.finish /\ t.live = acc.live
  /\ t.chunks = acc.chunks + 1
MoreReasoning(t, acc, text) ==
  /\ t.content = acc.content /\ t.reasoning = Grown(acc.reasoning, text) /\ t.calls = acc.calls
  /\ t.details = acc.details /\ t.finish = acc.finish /\ t.live = acc.live
  /\ t.chunks = acc.chunks

\* Fields of the accumulator, updated.
LEMMA FieldsUpdated ==
  ASSUME NEW acc, DOMAIN acc = AccumulatorFields, NEW text, NEW f
  PROVE  /\ MoreContent([acc EXCEPT !.content = @ \o text, !.chunks = @ + 1], acc, text)
         /\ MoreReasoning([acc EXCEPT !.reasoning = Grown(@, text)], acc, text)
         /\ [acc EXCEPT !.finish = f].finish = f
         /\ \A g \in AccumulatorFields \ {"finish"} : [acc EXCEPT !.finish = f][g] = acc[g]
<1> DEFINE x == acc.content \o text
           y == Grown(acc.reasoning, text)
           n == acc.chunks + 1
<1>1. MoreContent([acc EXCEPT !.content = @ \o text, !.chunks = @ + 1], acc, text)
  <2> DEFINE t == [acc EXCEPT !.content = x, !.chunks = n]
  <2>1. t = [acc EXCEPT !.content = @ \o text, !.chunks = @ + 1]
    OBVIOUS
  <2> HIDE DEF x, n
  <2>2. /\ t.content = x /\ t.reasoning = acc.reasoning /\ t.calls = acc.calls
        /\ t.details = acc.details /\ t.finish = acc.finish /\ t.live = acc.live
        /\ t.chunks = n
    BY DEF AccumulatorFields
  <2> HIDE DEF t
  <2> QED BY <2>1, <2>2 DEF MoreContent, x, n
<1>2. MoreReasoning([acc EXCEPT !.reasoning = Grown(@, text)], acc, text)
  <2> DEFINE t == [acc EXCEPT !.reasoning = y]
  <2>1. t = [acc EXCEPT !.reasoning = Grown(@, text)]
    OBVIOUS
  <2> HIDE DEF y
  <2>2. /\ t.content = acc.content /\ t.reasoning = y /\ t.calls = acc.calls
        /\ t.details = acc.details /\ t.finish = acc.finish /\ t.live = acc.live
        /\ t.chunks = acc.chunks
    BY DEF AccumulatorFields
  <2> HIDE DEF t
  <2> QED BY <2>1, <2>2 DEF MoreReasoning, y
<1>3. /\ [acc EXCEPT !.finish = f].finish = f
      /\ \A g \in AccumulatorFields \ {"finish"} : [acc EXCEPT !.finish = f][g] = acc[g]
  BY DEF AccumulatorFields
<1> QED BY <1>1, <1>2, <1>3

\* new is acc with more content and reasoning, of which the host is told.
SaidThought(new, acc, text, thought) ==
  /\ new.content = acc.content \o text /\ new.reasoning = Grown(acc.reasoning, thought)
  /\ new.calls = acc.calls /\ new.details = acc.details /\ new.finish = acc.finish
  /\ new.chunks = acc.chunks + 1
  /\ ToldBy(new.live, "text_delta") = ToldBy(acc.live, "text_delta") \o text
  /\ ToldBy(new.live, "reasoning_delta") = ToldBy(acc.live, "reasoning_delta") \o TextOf(thought)
  /\ ToldBy(new.live, "tool_call_started") = ToldBy(acc.live, "tool_call_started")
  /\ ToldBy(new.live, "stream_completed") = ToldBy(acc.live, "stream_completed")
  /\ \A id : ArguedBy(new.live, id) = ArguedBy(acc.live, id)

\* Content and reasoning of a chunk.
LEMMA ContentPushed ==
  ASSUME NEW w \in ChatAnswers, NEW acc, IsAccumulator(acc, w), NEW text \in Texts, NEW thought \in Maybe(Texts),
         NEW texted, texted = [acc EXCEPT !.content = @ \o text, !.chunks = @ + 1],
         NEW said, said = Tell(texted, "text_delta", text),
         NEW reasoned, reasoned = [said EXCEPT !.reasoning = Grown(@, thought)],
         NEW new, new = Tell(reasoned, "reasoning_delta", TextOf(thought))
  PROVE  IsAccumulator(new, w) /\ SaidThought(new, acc, text, thought)
<1>0. None \in Maybe(Finishes) /\ TextOf(thought) \in Texts
  <2>1. TextOf(thought) \in Texts
    BY TextTyped
  <2> QED BY <2>1 DEF Maybe
<1>1. \A t \in Texts : Live("text_delta", t) \in Lives /\ Live("reasoning_delta", t) \in Lives
  BY DEF Live, Lives
<1>2. DOMAIN acc = AccumulatorFields
  BY DEF IsAccumulator, EmptyAccumulator, AccumulatorFields
<1>3. IsAccumulator(texted, w) /\ MoreContent(texted, acc, text)
  <2> DEFINE t == [acc EXCEPT !.content = @ \o text, !.chunks = @ + 1]
  <2>1. IsAccumulator(t, w)
    BY <1>0, UpdateTypes
  <2>2. MoreContent(t, acc, text)
    BY <1>2, FieldsUpdated
  <2>3. texted = t
    OBVIOUS
  <2> HIDE DEF t
  <2> QED BY <2>1, <2>2, <2>3
<1>4. IsAccumulator(said, w) /\ Tells(said, texted, "text_delta", text)
  BY <1>1, <1>3, TellTells
<1>5. DOMAIN said = AccumulatorFields
  BY <1>4 DEF IsAccumulator, EmptyAccumulator, AccumulatorFields
<1>6. IsAccumulator(reasoned, w) /\ MoreReasoning(reasoned, said, thought)
  <2> DEFINE t == [said EXCEPT !.reasoning = Grown(@, thought)]
  <2>1. IsAccumulator(t, w)
    <3>1. IsAccumulator(said, w)
      BY <1>4
    <3> QED BY <1>0, <3>1, UpdateTypes
  <2>2. MoreReasoning(t, said, thought)
    BY <1>5, FieldsUpdated
  <2>3. reasoned = t
    OBVIOUS
  <2> HIDE DEF t
  <2> QED BY <2>1, <2>2, <2>3
<1>7. IsAccumulator(new, w) /\ Tells(new, reasoned, "reasoning_delta", TextOf(thought))
  BY <1>0, <1>1, <1>6, TellTells
<1>8. /\ "text_delta" # "reasoning_delta" /\ "tool_call_started" # "reasoning_delta"
      /\ "stream_completed" # "reasoning_delta" /\ "tool_call_arguments_delta" # "reasoning_delta"
      /\ "tool_call_started" # "text_delta" /\ "stream_completed" # "text_delta"
      /\ "tool_call_arguments_delta" # "text_delta"
  OBVIOUS
<1>9. /\ texted.content = acc.content \o text /\ texted.reasoning = acc.reasoning
      /\ texted.calls = acc.calls /\ texted.details = acc.details /\ texted.finish = acc.finish
      /\ texted.live = acc.live /\ texted.chunks = acc.chunks + 1
  BY <1>3, Zenon DEF MoreContent
<1>10. /\ said.content = texted.content /\ said.reasoning = texted.reasoning
       /\ said.calls = texted.calls /\ said.details = texted.details /\ said.finish = texted.finish
       /\ said.chunks = texted.chunks
       /\ ToldBy(said.live, "text_delta") = ToldBy(texted.live, "text_delta") \o text
       /\ \A other : other # "text_delta" => ToldBy(said.live, other) = ToldBy(texted.live, other)
       /\ \A id : ArguedBy(said.live, id) = ArguedBy(texted.live, id)
  BY <1>4, <1>8, Zenon DEF Tells
<1>11. /\ reasoned.content = said.content /\ reasoned.reasoning = Grown(said.reasoning, thought)
       /\ reasoned.calls = said.calls /\ reasoned.details = said.details
       /\ reasoned.finish = said.finish /\ reasoned.live = said.live
       /\ reasoned.chunks = said.chunks
  BY <1>6, Zenon DEF MoreReasoning
<1>12. /\ new.content = reasoned.content /\ new.reasoning = reasoned.reasoning
       /\ new.calls = reasoned.calls /\ new.details = reasoned.details /\ new.finish = reasoned.finish
       /\ new.chunks = reasoned.chunks
       /\ ToldBy(new.live, "reasoning_delta") = ToldBy(reasoned.live, "reasoning_delta") \o TextOf(thought)
       /\ \A other : other # "reasoning_delta" => ToldBy(new.live, other) = ToldBy(reasoned.live, other)
       /\ \A id : ArguedBy(new.live, id) = ArguedBy(reasoned.live, id)
  BY <1>7, <1>8, Zenon DEF Tells
<1>13. /\ new.content = acc.content \o text /\ new.reasoning = Grown(acc.reasoning, thought)
       /\ new.calls = acc.calls /\ new.details = acc.details /\ new.finish = acc.finish
       /\ new.chunks = acc.chunks + 1
  BY <1>9, <1>10, <1>11, <1>12, Zenon
<1>14. /\ ToldBy(new.live, "text_delta") = ToldBy(acc.live, "text_delta") \o text
       /\ ToldBy(new.live, "reasoning_delta") = ToldBy(acc.live, "reasoning_delta") \o TextOf(thought)
       /\ ToldBy(new.live, "tool_call_started") = ToldBy(acc.live, "tool_call_started")
       /\ ToldBy(new.live, "stream_completed") = ToldBy(acc.live, "stream_completed")
  <2>1. ToldBy(new.live, "text_delta") = ToldBy(acc.live, "text_delta") \o text
    BY <1>8, <1>9, <1>10, <1>11, <1>12, Zenon
  <2>2. ToldBy(new.live, "reasoning_delta") = ToldBy(acc.live, "reasoning_delta") \o TextOf(thought)
    BY <1>8, <1>9, <1>10, <1>11, <1>12, Zenon
  <2>3. ASSUME NEW type, type # "text_delta", type # "reasoning_delta"
        PROVE  ToldBy(new.live, type) = ToldBy(acc.live, type)
    <3>1. ToldBy(new.live, type) = ToldBy(said.live, type)
      BY <1>11, <1>12, <2>3, Zenon
    <3>2. ToldBy(said.live, type) = ToldBy(acc.live, type)
      BY <1>9, <1>10, <2>3, Zenon
    <3> QED BY <3>1, <3>2, Zenon
  <2>4. /\ ToldBy(new.live, "tool_call_started") = ToldBy(acc.live, "tool_call_started")
        /\ ToldBy(new.live, "stream_completed") = ToldBy(acc.live, "stream_completed")
    BY <1>8, <2>3, Zenon
  <2> QED BY <2>1, <2>2, <2>4
<1>15. \A id : ArguedBy(new.live, id) = ArguedBy(acc.live, id)
  <2> TAKE id
  <2>1. ArguedBy(new.live, id) = ArguedBy(said.live, id)
    BY <1>11, <1>12, Zenon
  <2>2. ArguedBy(said.live, id) = ArguedBy(acc.live, id)
    BY <1>9, <1>10, Zenon
  <2> QED BY <2>1, <2>2, Zenon
<1> QED BY <1>7, <1>13, <1>14, <1>15, Zenon DEF SaidThought

\* The text of a chunk's details.
LEMMA MusingTypes ==
  ASSUME NEW w, NEW s \in Seq(DetailParts(w))
  PROVE  Each(s, LAMBDA p : TextOf(p.text)) \in Texts
<1> DEFINE n == Len(s)
           f == [i \in 1 .. n |-> s[i].text]
           text == Each(s, LAMBDA p : TextOf(p.text))
<1>1. \A p \in DetailParts(w) : p.text \in Maybe(Texts)
  BY DEF DetailParts
<1>2. n \in Nat /\ DOMAIN s = 1 .. n /\ \A i \in 1 .. n : f[i] \in Maybe(Texts)
  BY <1>1
<1>3. [i \in 1 .. n |-> TextOf(f[i])] = [i \in 1 .. n |-> TextOf(s[i].text)]
  OBVIOUS
<1>4. text = FlattenSeq([i \in 1 .. n |-> TextOf(s[i].text)])
  BY <1>2 DEF Each
<1> HIDE DEF f, n
<1> QED BY <1>2, <1>3, <1>4, TextsTyped

\* A chunk adds its delta to what the accumulator holds.
LEMMA PushHolds ==
  ASSUME NEW w \in ChatAnswers, Distinct(w), None \notin Texts,
         NEW e \in Deltas(w), NEW e2 \in Deltas(w),
         NEW chunk, chunk.delta \in Deltas(w), chunk.finish \in Maybe(Finishes),
         Follows(e, chunk.delta, e2),
         NEW acc, Holding(acc, w, e), Ending(acc, None)
  PROVE  /\ Holding(Push(acc, chunk), w, e2) /\ Ending(Push(acc, chunk), chunk.finish)
         /\ Mused(Push(acc, chunk), acc, chunk.delta)
<1> DEFINE delta == chunk.delta
           texted == [acc EXCEPT !.content = @ \o delta.content, !.chunks = @ + 1]
           said == Tell(texted, "text_delta", delta.content)
           reasoned == [said EXCEPT !.reasoning = Grown(@, delta.reasoning)]
           thought == Tell(reasoned, "reasoning_delta", TextOf(delta.reasoning))
           detailed == FoldLeft(AddDetail, thought, delta.details)
           text == Each(delta.details, LAMBDA p : TextOf(p.text))
           mused == IF delta.reasoning # None THEN detailed
                    ELSE Tell(detailed, "reasoning_delta", text)
           called == FoldLeft(AddCall, mused, delta.calls)
           ended == IF acc.finish = None
                    THEN Tell(called, "stream_completed", <<chunk.finish>>) ELSE called
<1>0. Push(acc, chunk) = IF chunk.finish = None THEN called
                          ELSE [ended EXCEPT !.finish = chunk.finish]
  BY Zenon DEF Push
<1>1. /\ delta \in Deltas(w) /\ delta.content \in Texts /\ delta.reasoning \in Maybe(Texts)
      /\ delta.calls \in Seq(CallParts(w)) /\ delta.details \in Seq(DetailParts(w))
      /\ e.calls \in Seq(CallParts(w)) /\ e.details \in Seq(DetailParts(w))
  BY DEF Deltas
<1>2. /\ IsAccumulator(acc, w)
      /\ acc.content = e.content /\ acc.reasoning = e.reasoning
      /\ ToldBy(acc.live, "text_delta") = e.content
      /\ DetailsHold(acc.details, w, e.details)
      /\ CallsHold(acc.calls, w, e.calls) /\ CallsTold(acc.live, acc.calls, e.calls)
      /\ acc.finish = None /\ ToldBy(acc.live, "stream_completed") = <<>>
  BY Zenon DEF Holding, Ending
<1>4. /\ e2.content = e.content \o delta.content /\ e2.reasoning = Grown(e.reasoning, delta.reasoning)
      /\ e2.calls = e.calls \o delta.calls /\ e2.details = e.details \o delta.details
  BY Zenon DEF Follows
<1>5. text \in Texts /\ Reasoned(delta) = IF delta.reasoning # None THEN delta.reasoning ELSE text
  <2>1. text \in Texts
    BY <1>1, MusingTypes
  <2> QED BY <2>1, Zenon DEF Reasoned
<1> HIDE DEF delta
<1>6. IsAccumulator(thought, w) /\ SaidThought(thought, acc, delta.content, delta.reasoning)
  BY <1>1, <1>2, ContentPushed
<1> HIDE DEF thought
<1>7. /\ thought.content = e2.content /\ thought.reasoning = e2.reasoning
      /\ thought.calls = acc.calls /\ thought.details = acc.details /\ thought.finish = None
      /\ thought.chunks = acc.chunks + 1
      /\ ToldBy(thought.live, "text_delta") = e2.content
      /\ ToldBy(thought.live, "reasoning_delta")
           = ToldBy(acc.live, "reasoning_delta") \o TextOf(delta.reasoning)
      /\ ToldBy(thought.live, "tool_call_started") = ToldBy(acc.live, "tool_call_started")
      /\ ToldBy(thought.live, "stream_completed") = <<>>
      /\ \A id : ArguedBy(thought.live, id) = ArguedBy(acc.live, id)
  BY <1>2, <1>4, <1>6, Zenon DEF SaidThought
<1>10. /\ IsAccumulator(detailed, w) /\ ButDetails(detailed, thought)
       /\ DetailsHold(detailed.details, w, e2.details)
  <2>1. IsAccumulator(detailed, w)
    BY <1>1, <1>6, FoldedTypes
  <2> DEFINE s == delta.details
             p == e.details
  <2>2. DetailsHold(thought.details, w, p) /\ p \in Seq(DetailParts(w)) /\ s \in Seq(DetailParts(w))
    BY <1>1, <1>2, <1>7
  <2> HIDE DEF s, p, detailed
  <2>3. DetailsHold(AddDetails(thought, s).details, w, p \o s) /\ ButDetails(AddDetails(thought, s), thought)
    BY <1>6, <2>2, DetailsAdded
  <2>4. AddDetails(thought, s) = detailed
    BY Zenon DEF AddDetails, detailed, s
  <2> QED BY <1>4, <2>1, <2>3, <2>4, Zenon DEF s, p
<1> HIDE DEF detailed, text
<1> DEFINE m == IF delta.reasoning # None THEN <<>> ELSE text
<1>11. IsAccumulator(mused, w) /\ Tells(mused, detailed, "reasoning_delta", m)
  <2>1. mused = Tell(detailed, "reasoning_delta", m)
    BY DEF Tell
  <2>2. m # <<>> => Live("reasoning_delta", m) \in Lives
    <3>1. m # <<>> => m \in Texts
      BY <1>5
    <3> HIDE DEF m
    <3> QED BY <3>1 DEF Live, Lives
  <2> HIDE DEF m, mused
  <2>3. /\ IsAccumulator(Tell(detailed, "reasoning_delta", m), w)
        /\ Tells(Tell(detailed, "reasoning_delta", m), detailed, "reasoning_delta", m)
    BY <1>10, <2>2, TellTells
  <2> QED BY <2>1, <2>3
<1> HIDE DEF mused
<1>12. /\ mused.content = e2.content /\ mused.reasoning = e2.reasoning
       /\ mused.calls = acc.calls /\ mused.details = detailed.details /\ mused.finish = None
       /\ mused.chunks = acc.chunks + 1
       /\ ToldBy(mused.live, "text_delta") = e2.content
       /\ ToldBy(mused.live, "reasoning_delta")
            = (ToldBy(acc.live, "reasoning_delta") \o TextOf(delta.reasoning)) \o m
       /\ ToldBy(mused.live, "tool_call_started") = ToldBy(acc.live, "tool_call_started")
       /\ ToldBy(mused.live, "stream_completed") = <<>>
       /\ \A id : ArguedBy(mused.live, id) = ArguedBy(acc.live, id)
  <2>1. /\ detailed.content = thought.content /\ detailed.reasoning = thought.reasoning
        /\ detailed.calls = thought.calls /\ detailed.chunks = thought.chunks
        /\ detailed.live = thought.live /\ detailed.finish = thought.finish
    BY <1>10, Zenon DEF ButDetails
  <2>2. /\ "text_delta" # "reasoning_delta" /\ "tool_call_started" # "reasoning_delta"
        /\ "stream_completed" # "reasoning_delta" /\ "tool_call_arguments_delta" # "reasoning_delta"
    OBVIOUS
  <2> HIDE DEF m
  <2>3. /\ mused.content = detailed.content /\ mused.reasoning = detailed.reasoning
        /\ mused.calls = detailed.calls /\ mused.details = detailed.details
        /\ mused.finish = detailed.finish /\ mused.chunks = detailed.chunks
        /\ ToldBy(mused.live, "reasoning_delta") = ToldBy(detailed.live, "reasoning_delta") \o m
        /\ ToldBy(mused.live, "text_delta") = ToldBy(detailed.live, "text_delta")
        /\ ToldBy(mused.live, "tool_call_started") = ToldBy(detailed.live, "tool_call_started")
        /\ ToldBy(mused.live, "stream_completed") = ToldBy(detailed.live, "stream_completed")
        /\ \A id : ArguedBy(mused.live, id) = ArguedBy(detailed.live, id)
    BY <1>11, <2>2, Zenon DEF Tells
  <2>4. /\ ToldBy(mused.live, "reasoning_delta")
            = (ToldBy(acc.live, "reasoning_delta") \o TextOf(delta.reasoning)) \o m
        /\ ToldBy(mused.live, "text_delta") = e2.content
        /\ ToldBy(mused.live, "tool_call_started") = ToldBy(acc.live, "tool_call_started")
        /\ ToldBy(mused.live, "stream_completed") = <<>>
    BY <1>7, <2>1, <2>3
  <2>5. \A id : ArguedBy(mused.live, id) = ArguedBy(acc.live, id)
    BY <1>7, <2>1, <2>3
  <2>6. /\ mused.content = e2.content /\ mused.reasoning = e2.reasoning
        /\ mused.calls = acc.calls /\ mused.details = detailed.details /\ mused.finish = None
        /\ mused.chunks = acc.chunks + 1
    BY <1>7, <2>1, <2>3
  <2> QED BY <2>4, <2>5, <2>6
<1>13. ToldBy(mused.live, "reasoning_delta") = ToldBy(acc.live, "reasoning_delta") \o Reasoned(delta)
  <2> DEFINE a == ToldBy(acc.live, "reasoning_delta")
             r == delta.reasoning
             t == TextOf(r)
             W == Words
             x == Reasoned(delta)
  <2>1. a \in Seq(W)
    <3>1. acc.live \in Seq(Lives)
      BY <1>2 DEF IsAccumulator
    <3> QED BY <3>1, ToldTypes
  <2>2. Texts \subseteq Seq(W)
    <3> DEFINE S == STRING
    <3>1. S \subseteq W
      BY DEF Words
    <3> HIDE DEF S, W
    <3>2. Seq(S) \subseteq Seq(W)
      BY <3>1
    <3> QED BY <3>2 DEF S, Texts
  <2>3. ToldBy(mused.live, "reasoning_delta") = (a \o t) \o m
    BY <1>12
  <2>4. (r # None => t = r /\ r \in Texts /\ m = <<>> /\ x = r) /\ (r = None => t = <<>> /\ m = text /\ x = text)
    BY <1>1, <1>5 DEF TextOf, Maybe
  <2>5. text \in Texts
    BY <1>5
  <2> HIDE DEF a, r, t, W, x, m
  <2>6. r \in Texts => r \in Seq(W) /\ a \o r \in Seq(W) /\ (a \o r) \o <<>> = a \o r
    <3> SUFFICES ASSUME r \in Seq(W) PROVE a \o r \in Seq(W) /\ (a \o r) \o <<>> = a \o r
      BY <2>2
    <3>1. a \o r \in Seq(W)
      BY <2>1
    <3> QED BY <3>1
  <2>7. a \o <<>> = a
    BY <2>1
  <2>8. CASE r # None
    BY <2>3, <2>4, <2>6, <2>8 DEF a, x
  <2>9. CASE r = None
    BY <2>3, <2>4, <2>7, <2>9 DEF a, x
  <2> QED BY <2>8, <2>9
<1> HIDE DEF m
<1>14. /\ IsAccumulator(called, w) /\ ButCalls(called, mused)
       /\ CallsHold(called.calls, w, e2.calls) /\ CallsTold(called.live, called.calls, e2.calls)
  <2>1. IsAccumulator(called, w)
    BY <1>1, <1>11, FoldedTypes
  <2> DEFINE s == delta.calls
             p == e.calls
  <2>2. CallsHold(mused.calls, w, p) /\ p \in Seq(CallParts(w)) /\ s \in Seq(CallParts(w))
    BY <1>1, <1>2, <1>12
  <2>3. CallsTold(mused.live, mused.calls, p)
    <3>1. SameTold(mused, acc) /\ mused.calls = acc.calls
      BY <1>12, Zenon DEF SameTold
    <3> QED BY <1>2, <3>1, CallsToldSame
  <2> HIDE DEF s, p, called
  <2>4. /\ CallsHold(AddCalls(mused, s).calls, w, p \o s)
        /\ CallsTold(AddCalls(mused, s).live, AddCalls(mused, s).calls, p \o s)
        /\ ButCalls(AddCalls(mused, s), mused)
    BY <1>11, <2>2, <2>3, CallsAdded
  <2>5. AddCalls(mused, s) = called
    BY Zenon DEF AddCalls, called, s
  <2> QED BY <1>4, <2>1, <2>4, <2>5, Zenon DEF s, p
<1> HIDE DEF called
<1>15. /\ called.content = e2.content /\ called.reasoning = e2.reasoning
       /\ called.details = detailed.details /\ called.finish = None
       /\ called.chunks = acc.chunks + 1
       /\ ToldBy(called.live, "text_delta") = e2.content
       /\ ToldBy(called.live, "reasoning_delta") = ToldBy(acc.live, "reasoning_delta") \o Reasoned(delta)
       /\ ToldBy(called.live, "stream_completed") = <<>>
  <2>1. \A type : type \notin {"tool_call_started", "tool_call_arguments_delta"} =>
          ToldBy(called.live, type) = ToldBy(mused.live, type)
    BY <1>14, Zenon DEF ButCalls
  <2>2. /\ "text_delta" \notin {"tool_call_started", "tool_call_arguments_delta"}
        /\ "reasoning_delta" \notin {"tool_call_started", "tool_call_arguments_delta"}
        /\ "stream_completed" \notin {"tool_call_started", "tool_call_arguments_delta"}
    OBVIOUS
  <2>3. /\ called.content = mused.content /\ called.reasoning = mused.reasoning
        /\ called.details = mused.details /\ called.finish = mused.finish
        /\ called.chunks = mused.chunks
    BY <1>14, Zenon DEF ButCalls
  <2> QED BY <1>12, <1>13, <2>1, <2>2, <2>3
<1>17. Holding(called, w, e2) /\ Ending(called, None) /\ Mused(called, acc, delta)
  <2>1. DetailsHold(called.details, w, e2.details)
    BY <1>10, <1>15
  <2>2. Holding(called, w, e2)
    BY <1>14, <1>15, <2>1, Zenon DEF Holding
  <2>3. Ending(called, None)
    BY <1>15 DEF Ending
  <2>4. Mused(called, acc, delta)
    BY <1>15, Zenon DEF Mused
  <2> QED BY <2>2, <2>3, <2>4
<1>18. CASE chunk.finish = None
  BY <1>0, <1>17, <1>18 DEF delta
<1>19. CASE chunk.finish # None
  <2> DEFINE f == chunk.finish
             value == <<f>>
             last == Tell(called, "stream_completed", value)
             r == [last EXCEPT !.finish = f]
  <2>1. f \in Finishes /\ value # <<>>
    BY <1>19 DEF Maybe
  <2>2. Live("stream_completed", value) \in Lives
    <3>1. value \in Seq(Finishes)
      BY <2>1
    <3> HIDE DEF value
    <3> QED BY <3>1 DEF Live, Lives
  <2>3. IsAccumulator(last, w) /\ Tells(last, called, "stream_completed", value)
    BY <1>14, <2>2, TellTells
  <2>4. Push(acc, chunk) = r
    BY <1>0, <1>2, <1>19
  <2> HIDE DEF last, value
  <2>5. DOMAIN last = AccumulatorFields
    BY <2>3 DEF IsAccumulator, EmptyAccumulator, AccumulatorFields
  <2>6. r.finish = f /\ \A g \in AccumulatorFields \ {"finish"} : r[g] = last[g]
    BY <2>5, FieldsUpdated
  <2>7. IsAccumulator(r, w)
    <3>1. f \in Maybe(Finishes) /\ <<>> \in Texts /\ None \in Maybe(Texts)
      BY <2>1 DEF Maybe, Texts
    <3> QED BY <2>3, <3>1, UpdateTypes
  <2> HIDE DEF r
  <2>8. /\ r.content = last.content /\ r.reasoning = last.reasoning /\ r.calls = last.calls
        /\ r.details = last.details /\ r.live = last.live /\ r.chunks = last.chunks
    BY <2>6 DEF AccumulatorFields
  <2>9. /\ "text_delta" # "stream_completed" /\ "reasoning_delta" # "stream_completed"
        /\ "tool_call_started" # "stream_completed" /\ "stream_completed" # "tool_call_arguments_delta"
    OBVIOUS
  <2>10. /\ last.content = called.content /\ last.reasoning = called.reasoning
         /\ last.calls = called.calls /\ last.details = called.details /\ last.chunks = called.chunks
         /\ ToldBy(last.live, "stream_completed") = ToldBy(called.live, "stream_completed") \o value
         /\ ToldBy(last.live, "text_delta") = ToldBy(called.live, "text_delta")
         /\ ToldBy(last.live, "reasoning_delta") = ToldBy(called.live, "reasoning_delta")
         /\ ToldBy(last.live, "tool_call_started") = ToldBy(called.live, "tool_call_started")
         /\ \A id : ArguedBy(last.live, id) = ArguedBy(called.live, id)
    BY <2>3, <2>9, Zenon DEF Tells
  <2>11. r.calls = called.calls /\ r.details = called.details /\ SameTold(r, called)
    BY <2>8, <2>10, Zenon DEF SameTold
  <2>12. /\ CallsHold(r.calls, w, e2.calls) /\ CallsTold(r.live, r.calls, e2.calls)
         /\ DetailsHold(r.details, w, e2.details)
    <3>1. CallsTold(r.live, r.calls, e2.calls)
      BY <1>14, <2>11, CallsToldSame
    <3> QED BY <1>10, <1>14, <1>15, <2>11, <3>1
  <2>13. /\ r.content = e2.content /\ r.reasoning = e2.reasoning /\ r.chunks = acc.chunks + 1
         /\ ToldBy(r.live, "text_delta") = e2.content
         /\ ToldBy(r.live, "reasoning_delta") = ToldBy(acc.live, "reasoning_delta") \o Reasoned(delta)
    BY <1>15, <2>8, <2>10, Zenon
  <2>14. Holding(r, w, e2) /\ Mused(r, acc, delta)
    BY <2>7, <2>12, <2>13, Zenon DEF Holding, Mused
  <2>15. Ending(r, f)
    <3>1. <<>> \o value = value
      <4>1. <<>> \in Seq({f}) /\ value \in Seq({f})
        BY DEF value
      <4> HIDE DEF value
      <4> QED BY <4>1
    <3>2. ToldBy(r.live, "stream_completed") = value
      BY <1>15, <2>8, <2>10, <3>1, Zenon
    <3> QED BY <1>19, <2>6, <3>2 DEF Ending, value
  <2> QED BY <2>4, <2>14, <2>15 DEF delta
<1> QED BY <1>18, <1>19

\* What the host is told of the reasoning of a chunk.
ReasonedIn(w) == [c \in ChunksOf(w) |-> Reasoned(c.delta)]

\* It is text.
LEMMA ReasonedTypes ==
  ASSUME NEW w
  PROVE  ReasonedIn(w) \in ToSeqs(ChunksOf(w), STRING)
<1> DEFINE C == ChunksOf(w)
           T == Texts
           value(c) == Reasoned(c.delta)
<1>1. ASSUME NEW c \in C PROVE value(c) \in T
  <2> DEFINE d == c.delta
             text == Each(d.details, LAMBDA p : TextOf(p.text))
  <2>1. d \in Deltas(w)
    BY DEF ChunksOf
  <2>2. d.reasoning \in Maybe(Texts) /\ d.details \in Seq(DetailParts(w))
    BY <2>1 DEF Deltas
  <2>3. text \in T
    BY <2>2, MusingTypes
  <2>4. value(c) = IF d.reasoning # None THEN d.reasoning ELSE text
    BY Zenon DEF Reasoned
  <2> HIDE DEF text, d, value
  <2> QED BY <2>2, <2>3, <2>4 DEF Maybe
<1>2. ReasonedIn(w) = [c \in C |-> value(c)]
  BY DEF ReasonedIn
<1> HIDE DEF C, T, value
<1>3. ReasonedIn(w) \in [C -> T]
  BY <1>1, <1>2
<1> QED BY <1>3, Zenon DEF C, T, Texts, ToSeqs

\* Nothing was pushed yet.
LEMMA EmptyHolds ==
  ASSUME NEW w, NEW e, e.content = <<>>, e.reasoning = None, e.calls = <<>>, e.details = <<>>
  PROVE  Holding(EmptyAccumulator, w, e) /\ Ending(EmptyAccumulator, None)
<1> DEFINE acc == EmptyAccumulator
<1>1. /\ acc.content = <<>> /\ acc.reasoning = None /\ acc.calls = <<>> /\ acc.details = <<>>
      /\ acc.finish = None /\ acc.chunks = 0 /\ acc.live = <<>> /\ DOMAIN acc = DOMAIN EmptyAccumulator
  BY DEF EmptyAccumulator
<1>2. IsAccumulator(acc, w)
  <2>1. /\ <<>> \in Texts /\ None \in Maybe(Finishes) /\ None \in Maybe(Texts)
        /\ <<>> \in Seq(Lives) /\ 0 \in Nat
    BY DEF Texts, Maybe
  <2>2. <<>> \in [{} -> WireCalls] /\ <<>> \in [{} -> Details]
    OBVIOUS
  <2> HIDE DEF acc
  <2> QED BY <1>1, <2>1, <2>2 DEF IsAccumulator
<1>3. /\ \A type : ToldBy(<<>>, type) = <<>>
      /\ \A id : ArguedBy(<<>>, id) = <<>>
  <2>1. <<>> \in Seq(Lives)
    OBVIOUS
  <2> QED BY <2>1, ToldTypes
<1>4. /\ DOMAIN <<>> = {} /\ \A k : PartsOf(<<>>, k) = <<>>
  <2>1. <<>> \in Seq({})
    OBVIOUS
  <2>2. \A k : PartsOf(<<>>, k) = <<>>
    BY <2>1, PartsMore
  <2> QED BY <2>2
<1> HIDE DEF acc
<1>5. CallsHold(acc.calls, w, e.calls) /\ DetailsHold(acc.details, w, e.details)
  BY <1>1, <1>4 DEF CallsHold, DetailsHold
<1>6. CallsTold(acc.live, acc.calls, e.calls)
  <2> DEFINE map == acc.calls
             told == ToldBy(acc.live, "tool_call_started")
  <2>1. told = <<>> /\ DOMAIN map = {}
    BY <1>1, <1>3, <1>4
  <2>2. IsInjective(told) /\ ToSet(told) = {}
    BY <1>4, <2>1 DEF IsInjective, ToSet
  <2>3. \A x : ArguedBy(acc.live, x) = <<>>
    BY <1>1, <1>3
  <2> HIDE DEF map, told
  <2>4. ToSet(told) = {map[k].id : k \in DOMAIN map} \ {None}
    BY <2>1, <2>2
  <2> QED BY <2>1, <2>2, <2>3, <2>4 DEF CallsTold, map, told
<1>7. Holding(acc, w, e)
  <2>1. ToldBy(acc.live, "text_delta") = e.content
    BY <1>1, <1>3
  <2> QED BY <1>1, <1>2, <1>5, <1>6, <2>1, Zenon DEF Holding
<1>8. Ending(acc, None)
  BY <1>1, <1>3 DEF Ending
<1> QED BY <1>7, <1>8 DEF acc

\* What the first d chunks of an answer accumulate.
LEMMA PushedHolds ==
  ASSUME NEW w \in ChatAnswers, Distinct(w), None \notin Texts, None \notin Finishes,
         NEW deltas, NEW chunks \in Seq(ChunksOf(w)), NEW cum, Cumulates(cum, chunks, deltas, w),
         NEW d \in 0 .. Len(chunks), NEW acc, Pushed(acc, chunks, d)
  PROVE  /\ Holding(acc, w, cum[d])
         /\ Ending(acc, IF d < Len(chunks) THEN None ELSE chunks[d].finish)
         /\ acc.chunks = d
         /\ ToldBy(acc.live, "reasoning_delta") = FlatMap(SubSeq(chunks, 1, d), ReasonedIn(w))
<1> DEFINE N == Len(chunks)
           R == ReasonedIn(w)
           u(i) == SubSeq(chunks, 1, i)
           end(i) == IF i < N THEN None ELSE chunks[i].finish
           holds(a, i) == /\ Holding(a, w, cum[i]) /\ Ending(a, end(i)) /\ a.chunks = i
                          /\ ToldBy(a.live, "reasoning_delta") = FlatMap(u(i), R)
<1>1. PICK h : h[0] = EmptyAccumulator /\ h[d] = acc
               /\ \A i \in 1 .. d : h[i] = Push(h[i - 1], chunks[i])
  BY Zenon DEF Pushed
<1>2. /\ N \in Nat \ {0}
      /\ cum[0].content = <<>> /\ cum[0].reasoning = None /\ cum[0].calls = <<>> /\ cum[0].details = <<>>
      /\ \A i \in 0 .. N : cum[i] \in Deltas(w)
      /\ \A i \in 1 .. N :
           /\ chunks[i].delta \in Deltas(w) /\ Follows(cum[i - 1], chunks[i].delta, cum[i])
           /\ chunks[i].finish = IF i < N THEN None ELSE IF w.calls = <<>> THEN "stop" ELSE "tool_calls"
  BY Zenon DEF Cumulates
<1>3. \A i \in 1 .. N : chunks[i].finish \in Maybe(Finishes) /\ chunks[i].finish = end(i)
  BY <1>2 DEF Maybe, Finishes
<1>4. d \in Nat /\ d <= N
  BY <1>2
<1> DEFINE C == ChunksOf(w)
           S == STRING
<1>5. /\ u(0) = <<>>
      /\ \A k \in 0 .. N : u(k) \in Seq(C)
      /\ \A k \in Nat : k + 1 <= N => u(k + 1) = Append(u(k), chunks[k + 1])
      /\ \A i \in 1 .. N : chunks[i] \in C
  <2>1. \A i \in 1 .. N : chunks[i] \in C
    OBVIOUS
  <2> QED BY <2>1, PrefixMore
<1>6. /\ R \in ToSeqs(C, S)
      /\ \A i \in 1 .. N : R[chunks[i]] = Reasoned(chunks[i].delta)
  <2>1. \A i \in 1 .. N : R[chunks[i]] = Reasoned(chunks[i].delta)
    <3> DEFINE value(c) == Reasoned(c.delta)
    <3>1. R = [c \in C |-> value(c)]
      BY DEF ReasonedIn
    <3> HIDE DEF R, C, N, value
    <3>2. \A i \in 1 .. N : R[chunks[i]] = value(chunks[i])
      BY <1>5, <3>1
    <3> QED BY <3>2 DEF value
  <2> QED BY <2>1, ReasonedTypes
<1> DEFINE P == {i \in Nat : i <= d => holds(h[i], i)}
<1> HIDE DEF N, R, u, C, S
<1>7. 0 \in P
  <2>1. Holding(EmptyAccumulator, w, cum[0]) /\ Ending(EmptyAccumulator, None)
    BY <1>2, EmptyHolds
  <2>2. end(0) = None
    BY <1>2
  <2>3. EmptyAccumulator.chunks = 0 /\ EmptyAccumulator.live = <<>>
    BY DEF EmptyAccumulator
  <2>4. ToldBy(<<>>, "reasoning_delta") = <<>>
    <3>1. <<>> \in Seq(Lives)
      OBVIOUS
    <3> QED BY <3>1, ToldTypes
  <2>5. FlatMap(<<>>, R) = <<>>
    <3>1. <<>> \in Seq(C)
      OBVIOUS
    <3> QED BY <1>6, <3>1, FlatMapUnfolds
  <2> HIDE DEF end
  <2>6. holds(h[0], 0)
    BY <1>1, <1>5, <2>1, <2>2, <2>3, <2>4, <2>5
  <2> HIDE DEF holds
  <2> QED BY <2>6
<1>8. ASSUME NEW m \in Nat, m \in P PROVE m + 1 \in P
  <2> DEFINE n == m + 1
  <2> SUFFICES ASSUME n <= d PROVE holds(h[n], n)
    OBVIOUS
  <2>1. /\ n \in 1 .. N /\ n \in 1 .. d /\ n - 1 = m /\ m \in 0 .. N /\ n \in 0 .. N /\ m <= d /\ m < N
    BY <1>2, <1>4
  <2>2. u(n) = Append(u(m), chunks[n]) /\ u(m) \in Seq(C) /\ chunks[n] \in C
    <3>1. m + 1 <= N
      BY <2>1, <1>2
    <3> QED BY <1>5, <2>1, <3>1
  <2>a. m + 1 = n
    OBVIOUS
  <2> HIDE DEF n
  <2>3. holds(h[m], m) /\ end(m) = None
    BY <1>8, <2>1
  <2> HIDE DEF end
  <2>4. /\ cum[m] \in Deltas(w) /\ cum[n] \in Deltas(w) /\ chunks[n].delta \in Deltas(w)
        /\ chunks[n].finish \in Maybe(Finishes) /\ chunks[n].finish = end(n)
        /\ Follows(cum[m], chunks[n].delta, cum[n])
    BY <1>2, <1>3, <2>1
  <2>5. h[n] = Push(h[m], chunks[n])
    BY <1>1, <2>1
  <2>6. Holding(h[m], w, cum[m]) /\ Ending(h[m], None)
    BY <2>3
  <2>7. /\ Holding(Push(h[m], chunks[n]), w, cum[n])
        /\ Ending(Push(h[m], chunks[n]), chunks[n].finish)
        /\ Mused(Push(h[m], chunks[n]), h[m], chunks[n].delta)
    BY <2>4, <2>6, PushHolds
  <2>8. h[n].chunks = n
    BY <2>a, <2>3, <2>5, <2>7 DEF Mused
  <2>9. ToldBy(h[n].live, "reasoning_delta") = FlatMap(u(n), R)
    <3>1. FlatMap(u(n), R) = FlatMap(u(m), R) \o R[chunks[n]]
      <4> DEFINE q == u(m)
                 x == chunks[n]
      <4>1. R \in ToSeqs(C, S) /\ q \in Seq(C) /\ x \in C
        BY <1>6, <2>2
      <4> HIDE DEF q, x
      <4>2. FlatMap(Append(q, x), R) = FlatMap(q, R) \o R[x]
        BY <4>1, FlatMapUnfolds
      <4> QED BY <2>2, <4>2 DEF q, x
    <3>2. R[chunks[n]] = Reasoned(chunks[n].delta)
      BY <1>6, <2>1
    <3> QED BY <2>3, <2>5, <2>7, <3>1, <3>2, Zenon DEF Mused
  <2> QED BY <2>4, <2>5, <2>7, <2>8, <2>9
<1>9. Nat \subseteq P
  <2> HIDE DEF P
  <2> QED BY <1>7, <1>8, NatInduct
<1>10. holds(h[d], d)
  <2> HIDE DEF holds
  <2> QED BY <1>4, <1>9
<1> QED BY <1>1, <1>10 DEF N, R, u

\* What the streamed answers are assumed to be.
LEMMA StreamedAnswers ==
  ASSUME NEW a \in Streamed
  PROVE  /\ a.wire \in ChatAnswers /\ Distinct(a.wire)
         /\ a.deltas \in Seq(Deltas(a.wire)) /\ a.deltas # <<>> /\ Delivers(a.deltas, a.wire)
         /\ None \notin Texts /\ None \notin Finishes
<1> DEFINE w == a.wire
           calls == w.calls
<1>1. /\ a.deltas \in Seq(Deltas(w)) /\ a.deltas # <<>> /\ Delivers(a.deltas, w)
      /\ \A i, j \in DOMAIN calls : calls[i].id = calls[j].id => i = j \/ calls[i].id = None
  BY StreamedAssumption, Zenon
<1>2. None \notin Texts /\ None \notin Finishes
  BY StreamedAssumption
<1>3. w \in ChatAnswers
  BY StreamedTypes
<1>4. Distinct(w)
  <2> HIDE DEF w
  <2> QED BY <1>1, Zenon DEF Distinct, calls
<1> QED BY <1>1, <1>2, <1>3, <1>4

\* What the accumulator returns when it has all that it has a place for.
LEMMA ResponseWhole ==
  ASSUME NEW w \in ChatAnswers, NEW acc,
         acc.content = w.content, acc.reasoning = w.reasoning,
         Values(acc.calls) = w.calls, Values(acc.details) = w.details
  PROVE  Response(acc) = Carried(w)
<1> DEFINE T == Texts
           M == Maybe(Texts)
           Q == Seq(ChatParts)
           C == Seq(WireCalls)
           D == Seq(Details)
           r == IF w.reasoning = <<>> THEN None ELSE w.reasoning
<1>1. w \in [content : T, parts : Q, refusal : M, calls : C, reasoning : M, details : D]
  BY DEF ChatAnswers
<1>2. Response(acc) = [content |-> w.content, parts |-> <<>>, refusal |-> None, calls |-> w.calls,
                       reasoning |-> r, details |-> w.details]
  BY Zenon DEF Response, ChatAnswer
<1>3. Carried(w) = [w EXCEPT !.parts = <<>>, !.refusal = None, !.reasoning = r]
  BY DEF Carried
<1> HIDE DEF T, M, Q, C, D, r
<1>4. [w EXCEPT !.parts = <<>>, !.refusal = None, !.reasoning = r]
        = [content |-> w.content, parts |-> <<>>, refusal |-> None, calls |-> w.calls,
           reasoning |-> r, details |-> w.details]
  <2> DEFINE K == {"content", "parts", "refusal", "calls", "reasoning", "details"}
             w1 == [w EXCEPT !.parts = <<>>]
             w2 == [w1 EXCEPT !.refusal = None]
             w3 == [w2 EXCEPT !.reasoning = r]
             v == [content |-> w.content, parts |-> <<>>, refusal |-> None, calls |-> w.calls,
                   reasoning |-> r, details |-> w.details]
  <2>0. [w EXCEPT !.parts = <<>>, !.refusal = None, !.reasoning = r] = w3
    BY Zenon
  <2>1. w = [k \in K |-> w[k]]
    BY <1>1
  <2>2. w1 = [k \in K |-> IF k = "parts" THEN <<>> ELSE w[k]]
    BY <2>1
  <2> HIDE DEF w1
  <2>3. w2 = [k \in K |-> IF k = "refusal" THEN None ELSE w1[k]]
    BY <2>2
  <2> HIDE DEF w2
  <2>4. w3 = [k \in K |-> IF k = "reasoning" THEN r ELSE w2[k]]
    BY <2>3
  <2> HIDE DEF w3
  <2>5. v = [k \in K |-> v[k]]
    OBVIOUS
  <2>6. \A k \in K : w3[k] = v[k]
    BY <2>2, <2>3, <2>4
  <2> HIDE DEF v, K
  <2>7. w3 = v
    BY <2>4, <2>5, <2>6
  <2> QED BY <2>0, <2>7, Zenon DEF v
<1> QED BY <1>2, <1>3, <1>4, Zenon

\* Where every index has its value, the values in order are the list.
LEMMA ValuesWhole ==
  ASSUME NEW A, NEW s \in Seq(A), NEW map, DOMAIN map = DOMAIN s,
         \A k \in DOMAIN s : map[k] = s[k]
  PROVE  Values(map) = s
<1> DEFINE n == Len(s)
<1>1. n \in Nat /\ DOMAIN s = 1 .. n /\ s = [i \in 1 .. n |-> s[i]]
  OBVIOUS
<1> HIDE DEF n
<1>2. Values(map) = [i \in 1 .. n |-> map[i]]
  BY <1>1, ValuesNumbered
<1>3. \A i \in 1 .. n : map[i] = s[i]
  BY <1>1
<1> QED BY <1>1, <1>2, <1>3

\* The maps hold the answer when all of its parts are added.
LEMMA HeldWhole ==
  ASSUME NEW w \in ChatAnswers, NEW deltas, Delivers(deltas, w), NEW acc,
         Holding(acc, w, Joined(deltas))
  PROVE  Response(acc) = Carried(w)
<1> DEFINE all == Joined(deltas)
<1>1. /\ acc.content = all.content /\ acc.reasoning = all.reasoning
      /\ DetailsHold(acc.details, w, all.details)
      /\ CallsHold(acc.calls, w, all.calls)
  BY Zenon DEF Holding
<1>2. /\ all.content = w.content /\ all.reasoning = w.reasoning
      /\ \A k \in DOMAIN w.calls :
           PartsOf(all.calls, k) # <<>> /\ w.calls[k] = CallOf(PartsOf(all.calls, k))
      /\ \A k \in DOMAIN w.details :
           PartsOf(all.details, k) # <<>> /\ w.details[k] = DetailOf(PartsOf(all.details, k))
  BY Zenon DEF Delivers
<1>3. w.calls \in Seq(WireCalls) /\ w.details \in Seq(Details)
  BY DEF ChatAnswers
<1> HIDE DEF all
<1>4. Values(acc.calls) = w.calls
  <2> DEFINE map == acc.calls
             s == w.calls
  <2>1. DOMAIN map = DOMAIN s /\ \A k \in DOMAIN s : map[k] = s[k]
    BY <1>1, <1>2 DEF CallsHold
  <2>2. s \in Seq(WireCalls)
    BY <1>3
  <2> HIDE DEF map, s
  <2>3. Values(map) = s
    BY <2>1, <2>2, ValuesWhole
  <2> QED BY <2>3 DEF map, s
<1>5. Values(acc.details) = w.details
  <2> DEFINE map == acc.details
             s == w.details
  <2>1. DOMAIN map = DOMAIN s /\ \A k \in DOMAIN s : map[k] = s[k]
    BY <1>1, <1>2 DEF DetailsHold
  <2>2. s \in Seq(Details)
    BY <1>3
  <2> HIDE DEF map, s
  <2>3. Values(map) = s
    BY <2>1, <2>2, ValuesWhole
  <2> QED BY <2>3 DEF map, s
<1> QED BY <1>1, <1>2, <1>4, <1>5, ResponseWhole

\* A call of which a part has come is named at once, or not, by that part, and
\* its arguments go on from what has come.
LEMMA PartsGoOn ==
  ASSUME NEW w, NEW a \in Deltas(w), NEW b \in Deltas(w), NEW c, Follows(a, b, c),
         NEW k, PartsOf(a.calls, k) # <<>>
  PROVE  /\ NamedFirst(c.calls, k) <=> NamedFirst(a.calls, k)
         /\ CallOf(PartsOf(a.calls, k)).arguments \in Texts
         /\ IsPrefix(CallOf(PartsOf(a.calls, k)).arguments, CallOf(PartsOf(c.calls, k)).arguments)
<1> DEFINE A == CallParts(w)
           F == ArgumentsIn(w)
           S == STRING
           x == PartsOf(a.calls, k)
           y == PartsOf(b.calls, k)
           xs == a.calls
           ys == b.calls
<1>1. xs \in Seq(A) /\ ys \in Seq(A) /\ c.calls = xs \o ys
  BY DEF Deltas, Follows
<1>2. PartsOf(c.calls, k) = x \o y /\ x \in Seq(A) /\ y \in Seq(A)
  <2> HIDE DEF A, xs, ys
  <2>0. xs \in Seq(A) /\ ys \in Seq(A)
    BY <1>1
  <2>1. PartsOf(xs \o ys, k) = PartsOf(xs, k) \o PartsOf(ys, k)
    BY <2>0, PartsConcat
  <2>2. PartsOf(xs, k) \in Seq(A) /\ PartsOf(ys, k) \in Seq(A)
    BY <1>1, PartsMore
  <2> QED BY <1>1, <2>1, <2>2 DEF xs, ys
<1>3. x # <<>>
  OBVIOUS
<1>4. F \in ToSeqs(A, S)
  BY FieldTypes
<1>5. \A s \in Seq(A) : CallOf(s).arguments = FlatMap(s, F)
  BY CallAs, WireCallFacts
<1>6. NamedFirst(c.calls, k) <=> NamedFirst(a.calls, k)
  <2>1. NamedFirst(c.calls, k) <=> Head(x \o y).id # None
    BY <1>2 DEF NamedFirst
  <2>2. NamedFirst(a.calls, k) <=> Head(x).id # None
    BY DEF NamedFirst
  <2> HIDE DEF x, y, A
  <2>3. Head(x \o y) = Head(x)
    BY <1>2, <1>3
  <2> QED BY <2>1, <2>2, <2>3
<1> HIDE DEF A, F, S, x, y
<1>7. FlatMap(x \o y, F) = FlatMap(x, F) \o FlatMap(y, F)
  BY <1>2, <1>4, FlatMapConcat
<1>8. FlatMap(x, F) \in Seq(S) /\ FlatMap(y, F) \in Seq(S)
  BY <1>2, <1>4, FlatMapUnfolds
<1>9. IsPrefix(FlatMap(x, F), FlatMap(x, F) \o FlatMap(y, F))
  BY <1>8, PrefixOfJoined
<1>10. CallOf(x).arguments = FlatMap(x, F) /\ CallOf(x \o y).arguments = FlatMap(x \o y, F)
  <2>1. x \o y \in Seq(A)
    BY <1>2
  <2> QED BY <1>2, <1>5, <2>1
<1> QED BY <1>2, <1>6, <1>7, <1>8, <1>9, <1>10 DEF x, S, Texts

\* What a stream tells, in terms of what each entry says.
LEMMA ToldAsSaid ==
  ASSUME stream.reader.acc.live \in Seq(Lives)
  PROVE  /\ \A type : Told(type) = ToldBy(stream.reader.acc.live, type)
         /\ \A id : ToldArguments(id) = ArguedBy(stream.reader.acc.live, id)
<1> DEFINE live == stream.reader.acc.live
<1>1. \A i \in DOMAIN live : live[i] \in Lives
  OBVIOUS
<1>2. ASSUME NEW type PROVE Told(type) = ToldBy(live, type)
  <2> HIDE DEF live
  <2>1. [i \in DOMAIN live |-> IF live[i].type = type THEN live[i].value ELSE <<>>]
          = [i \in DOMAIN live |-> Speaks(type)[live[i]]]
    BY <1>1 DEF Speaks
  <2>2. Told(type) = FlattenSeq([i \in DOMAIN live |->
                       IF live[i].type = type THEN live[i].value ELSE <<>>])
    BY DEF Told, Each, live
  <2> QED BY <2>1, <2>2, Zenon DEF ToldBy, FlatMap
<1>3. ASSUME NEW id PROVE ToldArguments(id) = ArguedBy(live, id)
  <2> HIDE DEF live
  <2>1. [i \in DOMAIN live |-> IF live[i].type = "tool_call_arguments_delta" /\ live[i].value[1] = id
                               THEN Tail(live[i].value) ELSE <<>>]
          = [i \in DOMAIN live |-> Argues(id)[live[i]]]
    BY <1>1 DEF Argues
  <2>2. ToldArguments(id) = FlattenSeq([i \in DOMAIN live |->
          IF live[i].type = "tool_call_arguments_delta" /\ live[i].value[1] = id
          THEN Tail(live[i].value) ELSE <<>>])
    BY DEF ToldArguments, Each, live
  <2> QED BY <2>1, <2>2, Zenon DEF ArguedBy, FlatMap
<1> QED BY <1>2, <1>3

\* What the chunks say of the reasoning, as far as they were pushed.
LEMMA ReasonedAs ==
  ASSUME NEW w, NEW chunks \in Seq(ChunksOf(w)), NEW d \in 0 .. Len(chunks)
  PROVE  Each(SubSeq(chunks, 1, d), LAMBDA c : Reasoned(c.delta))
           = FlatMap(SubSeq(chunks, 1, d), ReasonedIn(w))
<1> DEFINE s == SubSeq(chunks, 1, d)
           C == ChunksOf(w)
           value(c) == Reasoned(c.delta)
           R == ReasonedIn(w)
<1>1. s \in Seq(C)
  BY PrefixMore
<1>2. R = [c \in C |-> value(c)]
  BY DEF ReasonedIn
<1>3. Each(s, LAMBDA c : Reasoned(c.delta)) = FlattenSeq([i \in DOMAIN s |-> value(s[i])])
  BY DEF Each
<1> HIDE DEF s, C, value, R
<1>4. [i \in DOMAIN s |-> value(s[i])] = [i \in DOMAIN s |-> R[s[i]]]
  BY <1>1, <1>2
<1> QED BY <1>3, <1>4, Zenon DEF FlatMap, s, R

\* What the host was told of the calls, and what it will be.
LEMMA CallsShow ==
  ASSUME NEW w \in ChatAnswers, Distinct(w), NEW deltas, Delivers(deltas, w),
         NEW e \in Deltas(w), NEW rest \in Deltas(w), Follows(e, rest, Joined(deltas)),
         NEW acc, Holding(acc, w, e)
  PROVE  /\ IsInjective(ToldBy(acc.live, "tool_call_started"))
         /\ ToSet(ToldBy(acc.live, "tool_call_started"))
              = {acc.calls[k].id : k \in DOMAIN acc.calls} \ {None}
         /\ \A k \in DOMAIN acc.calls :
              /\ IsPrefix(acc.calls[k].arguments, w.calls[k].arguments)
              /\ acc.calls[k].id # None =>
                   \E n : /\ ArgumentsTold(acc.live, acc.calls[k], n)
                          /\ NamedFirst(Joined(deltas).calls, k) => n = 0
<1> DEFINE map == acc.calls
           all == Joined(deltas)
<1>1. CallsHold(map, w, e.calls) /\ CallsTold(acc.live, map, e.calls)
  BY Zenon DEF Holding
<1>2. \A k \in DOMAIN w.calls : w.calls[k] = CallOf(PartsOf(all.calls, k))
  BY Zenon DEF Delivers
<1> HIDE DEF map, all
<1>3. ASSUME NEW k \in DOMAIN map
      PROVE  /\ IsPrefix(map[k].arguments, w.calls[k].arguments)
             /\ map[k].id # None =>
                  \E n : ArgumentsTold(acc.live, map[k], n) /\ (NamedFirst(all.calls, k) => n = 0)
  <2>1. k \in DOMAIN w.calls /\ PartsOf(e.calls, k) # <<>> /\ map[k] = CallOf(PartsOf(e.calls, k))
    BY <1>1 DEF CallsHold
  <2>2. Follows(e, rest, all)
    BY DEF all
  <2>3. /\ NamedFirst(all.calls, k) <=> NamedFirst(e.calls, k)
        /\ IsPrefix(CallOf(PartsOf(e.calls, k)).arguments, CallOf(PartsOf(all.calls, k)).arguments)
    BY <2>1, <2>2, PartsGoOn
  <2>4. IsPrefix(map[k].arguments, w.calls[k].arguments)
    BY <1>2, <2>1, <2>3, Zenon
  <2>5. map[k].id # None =>
          \E n : ArgumentsTold(acc.live, map[k], n) /\ (NamedFirst(e.calls, k) => n = 0)
    BY <1>1, Zenon DEF CallsTold
  <2> QED BY <2>3, <2>4, <2>5, Zenon
<1>4. /\ IsInjective(ToldBy(acc.live, "tool_call_started"))
      /\ ToSet(ToldBy(acc.live, "tool_call_started")) = {map[k].id : k \in DOMAIN map} \ {None}
  BY <1>1, Zenon DEF CallsTold
<1> QED BY <1>3, <1>4, Zenon DEF map, all

\* A stream whose chunks were pushed in order is taken for what it is.
LEMMA FedShows ==
  ASSUME stream # None, IsStream(stream), Fed(stream)
  PROVE  StreamedAsWhole
<1> DEFINE r == stream.reader
           acc == stream.reader.acc
           w == stream.answer.wire
           deltas == stream.answer.deltas
           chunks == stream.chunks
           N == Len(chunks)
           all == Joined(deltas)
<1>1. stream.answer \in Streamed /\ IsAccumulator(acc, w) /\ chunks \in Seq(ChunksOf(w))
  BY DEF IsStream, IsReader
<1>2. /\ w \in ChatAnswers /\ Distinct(w)
      /\ deltas \in Seq(Deltas(w)) /\ deltas # <<>> /\ Delivers(deltas, w)
      /\ None \notin Texts /\ None \notin Finishes
  BY <1>1, StreamedAnswers
<1>3. PICK cuts \in SUBSET (1 .. Len(deltas) - 1) : chunks = Chunks(deltas, w, cuts)
  BY Zenon DEF Fed
<1>4. PICK d \in 0 .. N : /\ Pushed(acc, chunks, d)
                          /\ r.status = "ended" /\ ~stream.cut => d = N
  BY Zenon DEF Fed
<1>5. r.status = "failed" => stream.cut
  BY Zenon DEF Fed
<1> HIDE DEF r, acc, w, deltas, chunks, all, N
<1>6. \E cum : Cumulates(cum, chunks, deltas, w)
  BY <1>2, <1>3, ChunksCumulate
<1>7. PICK cum : Cumulates(cum, chunks, deltas, w)
  BY <1>6
<1>8. /\ Holding(acc, w, cum[d])
      /\ Ending(acc, IF d < N THEN None ELSE chunks[d].finish)
      /\ acc.chunks = d
      /\ ToldBy(acc.live, "reasoning_delta") = FlatMap(SubSeq(chunks, 1, d), ReasonedIn(w))
  BY <1>1, <1>2, <1>4, <1>7, PushedHolds DEF N
<1> DEFINE e == cum[d]
           finish == IF d < N THEN None ELSE chunks[d].finish
<1>9. /\ N \in Nat \ {0} /\ cum[N] = all
      /\ e \in Deltas(w) /\ \E rest \in Deltas(w) : Follows(e, rest, all)
      /\ chunks[N].finish = IF w.calls = <<>> THEN "stop" ELSE "tool_calls"
  <2>1. /\ N \in Nat \ {0} /\ cum[N] = all
        /\ \A i \in 0 .. N : cum[i] \in Deltas(w) /\ \E rest \in Deltas(w) : Follows(cum[i], rest, all)
        /\ \A i \in 1 .. N : chunks[i].finish = IF i < N THEN None
                                                ELSE IF w.calls = <<>> THEN "stop" ELSE "tool_calls"
    BY <1>7, Zenon DEF Cumulates, N, all
  <2>2. N \in 1 .. N /\ ~(N < N)
    BY <2>1
  <2> QED BY <2>1, <2>2
<1>10. PICK rest \in Deltas(w) : Follows(e, rest, all)
  BY <1>9
<1> HIDE DEF e, finish
<1>11. /\ Holding(acc, w, e)
       /\ acc.content = e.content /\ ToldBy(acc.live, "text_delta") = e.content
       /\ acc.finish = finish
       /\ ToldBy(acc.live, "stream_completed") = IF finish = None THEN <<>> ELSE <<finish>>
  BY <1>8, Zenon DEF Holding, Ending, e, finish
<1>12. /\ \A type : Told(type) = ToldBy(acc.live, type)
       /\ \A id : ToldArguments(id) = ArguedBy(acc.live, id)
  <2>1. acc.live \in Seq(Lives)
    BY <1>1 DEF IsAccumulator
  <2> QED BY <2>1, ToldAsSaid DEF acc
<1>13. IsPrefix(acc.content, w.content)
  <2>1. w.content = e.content \o rest.content
    BY <1>2, <1>10, Zenon DEF Follows, Delivers, all
  <2>2. rest.content \in Texts /\ e.content \in Texts
    BY <1>9, <1>10 DEF Deltas
  <2> DEFINE x == rest.content
             y == e.content
             S == STRING
  <2>3. x \in Seq(S) /\ y \in Seq(S)
    BY <2>2 DEF Texts
  <2> HIDE DEF x, y, S
  <2>4. IsPrefix(y, y \o x)
    BY <2>3, PrefixOfJoined
  <2> QED BY <1>11, <2>1, <2>4 DEF x, y
<1>14. finish # None => d = N /\ finish = IF w.calls = <<>> THEN "stop" ELSE "tool_calls"
  <2>1. d \in 0 .. N /\ N \in Nat
    BY <1>9
  <2> QED BY <1>9, <2>1 DEF finish
<1>15. acc.finish # None =>
         /\ Response(acc) = Carried(w)
         /\ StopReason(acc.finish) = (IF w.calls = <<>> THEN "end" ELSE "tool_use")
         /\ Told("stream_completed") = <<acc.finish>>
  <2> SUFFICES ASSUME acc.finish # None
               PROVE  /\ Response(acc) = Carried(w)
                      /\ StopReason(acc.finish) = (IF w.calls = <<>> THEN "end" ELSE "tool_use")
                      /\ Told("stream_completed") = <<acc.finish>>
    OBVIOUS
  <2>1. d = N /\ acc.finish = IF w.calls = <<>> THEN "stop" ELSE "tool_calls"
    BY <1>11, <1>14
  <2>2. Holding(acc, w, Joined(deltas))
    BY <1>9, <1>11, <2>1 DEF e, all
  <2>3. Response(acc) = Carried(w)
    BY <1>2, <2>2, HeldWhole
  <2>4. StopReason(acc.finish) = (IF w.calls = <<>> THEN "end" ELSE "tool_use")
    BY <2>1 DEF StopReason
  <2>5. Told("stream_completed") = <<acc.finish>>
    BY <1>11, <1>12
  <2> QED BY <2>3, <2>4, <2>5
<1>16. r.status = "ended" /\ ~stream.cut => acc.finish # None
  <2> SUFFICES ASSUME r.status = "ended" /\ ~stream.cut PROVE acc.finish # None
    OBVIOUS
  <2>1. d = N /\ ~(N < N)
    BY <1>4, <1>9
  <2>2. acc.finish = IF w.calls = <<>> THEN "stop" ELSE "tool_calls"
    BY <1>9, <1>11, <2>1 DEF finish
  <2>3. "stop" \in Finishes /\ "tool_calls" \in Finishes
    BY DEF Finishes
  <2> QED BY <1>2, <2>2, <2>3
<1>17. /\ IsInjective(ToldBy(acc.live, "tool_call_started"))
       /\ ToSet(ToldBy(acc.live, "tool_call_started"))
            = {acc.calls[k].id : k \in DOMAIN acc.calls} \ {None}
       /\ \A k \in DOMAIN acc.calls :
            /\ IsPrefix(acc.calls[k].arguments, w.calls[k].arguments)
            /\ acc.calls[k].id # None =>
                 \E n : ArgumentsTold(acc.live, acc.calls[k], n) /\ (NamedFirst(all.calls, k) => n = 0)
  <2>1. Follows(e, rest, Joined(deltas))
    BY <1>10 DEF all
  <2> QED BY <1>2, <1>9, <1>11, <2>1, CallsShow DEF all
<1>18. ASSUME NEW k \in DOMAIN acc.calls
       PROVE  /\ IsPrefix(acc.calls[k].arguments, w.calls[k].arguments)
              /\ acc.calls[k].id # None =>
                   \E n \in 0 .. Len(acc.calls[k].arguments) :
                     /\ ToldArguments(acc.calls[k].id)
                          = SubSeq(acc.calls[k].arguments, n + 1, Len(acc.calls[k].arguments))
                     /\ NamedAtOnce(k) => n = 0
  <2>1. NamedAtOnce(k) <=> NamedFirst(all.calls, k)
    BY DEF NamedAtOnce, NamedFirst, all, deltas
  <2> QED BY <1>12, <1>17, <2>1, Zenon DEF ArgumentsTold
<1>19. Told("reasoning_delta") = Each(SubSeq(chunks, 1, acc.chunks), LAMBDA c : Reasoned(c.delta))
  BY <1>1, <1>4, <1>8, <1>12, ReasonedAs DEF N
<1>20. Told("text_delta") = acc.content
  BY <1>11, <1>12
<1>21. /\ IsInjective(Told("tool_call_started"))
       /\ ToSet(Told("tool_call_started")) = {acc.calls[k].id : k \in DOMAIN acc.calls} \ {None}
  BY <1>12, <1>17, Zenon
<1> QED BY <1>5, <1>13, <1>15, <1>16, <1>18, <1>19, <1>20, <1>21, Zenon
        DEF StreamedAsWhole, acc, w, r, chunks

\* The invariant: the chunks of what arrives were pushed in order.
InOrderFed == stream # None => Fed(stream)

\* However an answer's deltas interleave its parts, wherever they are cut into
\* chunks and the bytes into pieces, the accumulated answer is the provider's
\* but for a refusal and for content in parts; the host is told the calls, their
\* arguments, the text and each chunk's reasoning as StreamedAsWhole says; and a
\* connection that ends early never passes for a complete answer.
THEOREM StreamedAsWholeAlways == Spec => []StreamedAsWhole
<1>1. Init => InOrderFed
  BY DEF Init, InOrderFed
<1>2. TypeOK /\ InOrderFed /\ [Next]_vars => InOrderFed'
  <2> SUFFICES ASSUME TypeOK, InOrderFed, [Next]_vars PROVE InOrderFed'
    OBVIOUS
  <2>1. InOrderFed' <=> (stream' # None => Fed(stream'))
    BY Zenon DEF InOrderFed, Fed
  <2>2. ASSUME stream' = None \/ stream' = stream PROVE InOrderFed'
    BY <2>1, <2>2 DEF InOrderFed
  <2>3. ASSUME NEW s \in Sessions, Say(s) \/ Answer(s) \/ Settle(s) \/ Compact(s) \/ Fork(s)
        PROVE  InOrderFed'
    BY <2>2, <2>3 DEF Say, Answer, Settle, Compact, Fork
  <2>4. CASE Open
    <3>1. PICK answer \in Streamed, crlf \in BOOLEAN :
            \E cuts \in SUBSET (1 .. Len(answer.deltas) - 1) :
              LET chunks == Chunks(answer.deltas, answer.wire, cuts)
              IN  stream' = [answer |-> answer, chunks |-> chunks,
                             transit |-> Bytes(Len(chunks), crlf),
                             reader |-> NewReader, cut |-> FALSE]
      BY <2>4 DEF Open
    <3>2. Fed(stream')
      BY <3>1, FedOpen
    <3> QED BY <2>1, <3>2
  <2>5. CASE Receive \/ Cut \/ EndOfBody
    <3>1. stream # None
      BY <2>5 DEF Receive, Cut, EndOfBody, Arriving
    <3>2. IsStream(stream) /\ Fed(stream)
      BY <3>1, Zenon DEF TypeOK, IsStream, InOrderFed
    <3>3. Fed(stream')
      BY <2>5, <3>1, <3>2, FedArrives
    <3> QED BY <2>1, <3>3
  <2>6. CASE Complete
    BY <2>2, <2>6 DEF Complete
  <2>7. CASE UNCHANGED vars
    BY <2>2, <2>7 DEF vars
  <2> QED BY <2>3, <2>4, <2>5, <2>6, <2>7 DEF Next
<1>3. TypeOK /\ InOrderFed => StreamedAsWhole
  <2> SUFFICES ASSUME TypeOK, InOrderFed, stream # None PROVE StreamedAsWhole
    BY DEF StreamedAsWhole
  <2>1. IsStream(stream) /\ Fed(stream)
    BY Zenon DEF TypeOK, IsStream, InOrderFed
  <2> QED BY <2>1, FedShows
<1> QED BY <1>1, <1>2, <1>3, TypeCorrect, PTL DEF Spec
=============================================================================
