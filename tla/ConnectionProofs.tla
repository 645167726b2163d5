-------------------------- MODULE ConnectionProofs --------------------------
(***************************************************************************)
(* What a connection keeps, for every file, query and interleaving.        *)
(*                                                                         *)
(* Live views: a view that parses the whole file again never mixes two     *)
(* versions of it, a SELECT answers with the rows of the file while its    *)
(* versions can be told apart, and parsing what was appended to whole      *)
(* lines invents nothing.  First what the parser makes of a file and of    *)
(* what it grows to, then the invariants of the steps.                     *)
(*                                                                         *)
(* Results of the C API: cells, columns and masks of NULLs are what the    *)
(* query returned, in whatever order they are fetched, and strings stay    *)
(* where they are.  First what a query returns and what is built from it,  *)
(* then what each call keeps.                                              *)
(***************************************************************************)
EXTENDS LiveView, ClientApi, SequenceLemmas, FiniteSetTheorems, TLAPS
-----------------------------------------------------------------------------
(* What FindLineStart finds                                                *)

(* The end of the line that holds the next byte.                           *)
LEMMA LineStart ==
  ASSUME NEW T, NEW w \in Seq(T), NEW k \in Nat, NEW m \in Nat, k < m, m <= Len(w),
         m = Len(w) \/ w[m] = NL, \A i \in k + 1 .. m - 1 : w[i] # NL
  PROVE  FindLineStart(w, k) = m
<1> DEFINE S == {i \in k + 1 .. Len(w) : w[i] = NL} \cup {IF k < Len(w) THEN Len(w) ELSE k}
<1>1. Len(w) \in Nat /\ k < Len(w)
  OBVIOUS
<1>2. m \in S
  BY <1>1
<1>3. \A x \in S : m <= x /\ x \in Nat
  <2> SUFFICES ASSUME NEW x \in S PROVE m <= x /\ x \in Nat
    OBVIOUS
  <2>1. CASE x = Len(w)
    BY <2>1, <1>1
  <2>2. CASE x \in k + 1 .. Len(w) /\ w[x] = NL
    <3>1. x \in Nat /\ x >= k + 1 /\ ~(x \in k + 1 .. m - 1)
      BY <2>2, <1>1
    <3> QED BY <3>1
  <2> QED BY <2>1, <2>2, <1>1
<1>4. \A y \in S : (\A x \in S : y <= x) => y = m
  <2> HIDE DEF S
  <2> QED BY <1>2, <1>3
<1>5. Minimum(S) = m
  <2> HIDE DEF S
  <2> QED BY <1>2, <1>3, <1>4 DEF Minimum
<1> QED BY <1>5 DEF FindLineStart

(* There is always something to find.                                      *)
LEMMA LineStartExists ==
  ASSUME NEW T, NEW w \in Seq(T), NEW k \in Nat, k < Len(w)
  PROVE  \E m \in Nat : /\ k < m /\ m <= Len(w) /\ (m = Len(w) \/ w[m] = NL)
                        /\ \A i \in k + 1 .. m - 1 : w[i] # NL
                        /\ FindLineStart(w, k) = m
<1> DEFINE Clear(n) == \A i \in k + 1 .. n : w[i] # NL
           G == {n \in Nat : n <= k \/ n > Len(w) \/ Clear(n)}
<1>1. Len(w) \in Nat
  OBVIOUS
<1>2. CASE \A i \in k + 1 .. Len(w) : w[i] # NL
  <2>1. FindLineStart(w, k) = Len(w)
    <3>1. \A i \in k + 1 .. Len(w) - 1 : w[i] # NL
      BY <1>1, <1>2
    <3> QED BY <1>1, <3>1, LineStart
  <2> QED BY <1>1, <1>2, <2>1
<1>3. CASE \E i \in k + 1 .. Len(w) : w[i] = NL
  <2>1. PICK m \in k + 1 .. Len(w) : w[m] = NL /\ \A i \in k + 1 .. m - 1 : w[i] # NL
    <3> SUFFICES ASSUME \A m \in k + 1 .. Len(w) : w[m] = NL => ~ Clear(m - 1)
                 PROVE  FALSE
      OBVIOUS
    <3>1. 0 \in G
      OBVIOUS
    <3>2. ASSUME NEW n \in Nat, n \in G PROVE n + 1 \in G
      <4> SUFFICES ASSUME n + 1 > k, n + 1 <= Len(w) PROVE Clear(n + 1)
        OBVIOUS
      <4>1. Clear(n)
        BY <3>2, <1>1
      <4>2. n + 1 \in k + 1 .. Len(w) /\ (n + 1) - 1 = n
        BY <1>1
      <4>3. w[n + 1] # NL
        BY <4>1, <4>2
      <4> QED BY <4>1, <4>3
    <3>3. \A n \in Nat : n \in G
      <4> HIDE DEF G
      <4> QED BY <3>1, <3>2, Induction
    <3>4. Len(w) \in G
      BY <3>3, <1>1
    <3> QED BY <3>4, <1>1, <1>3
  <2>2. m \in Nat /\ k < m /\ m <= Len(w)
    BY <1>1
  <2>3. FindLineStart(w, k) = m
    BY <2>1, <2>2, LineStart
  <2> QED BY <2>1, <2>2, <2>3
<1> QED BY <1>2, <1>3

(* At the end and behind it there is nothing more.                         *)
LEMMA LineStartAtEnd ==
  ASSUME NEW T, NEW w \in Seq(T), NEW k \in Nat, k >= Len(w)
  PROVE  FindLineStart(w, k) = k
<1>1. Len(w) \in Nat /\ {i \in k + 1 .. Len(w) : w[i] = NL} = {}
  OBVIOUS
<1>2. {i \in k + 1 .. Len(w) : w[i] = NL} \cup {IF k < Len(w) THEN Len(w) ELSE k} = {k}
  BY <1>1
<1>3. FindLineStart(w, k) = Minimum({k})
  BY <1>2 DEF FindLineStart
<1> QED BY <1>3 DEF Minimum

(* It never lies before the offset.                                        *)
LEMMA LineStartType ==
  ASSUME NEW T, NEW w \in Seq(T), NEW k \in Nat
  PROVE  FindLineStart(w, k) \in Nat /\ FindLineStart(w, k) >= k
<1>1. CASE k < Len(w)
  BY <1>1, LineStartExists
<1>2. CASE k >= Len(w)
  BY <1>2, LineStartAtEnd
<1> QED BY <1>1, <1>2
-----------------------------------------------------------------------------
(* What ParseFrom parses                                                   *)

(* The line that begins at a byte, without its end.                        *)
LineAt(w, i) == LET next == FindLineStart(w, i - 1)
                IN  SubSeq(w, i, IF w[next] = NL THEN next - 1 ELSE next)

IsStart(w, pos, n) == n > pos /\ (n = pos + 1 \/ w[n - 1] = NL)

Parses(r, w, pos) ==
  /\ DOMAIN r = 0 .. Len(w)
  /\ r[0] = <<>>
  /\ \A n \in 1 .. Len(w) :
       r[n] = IF IsStart(w, pos, n) THEN Append(r[n - 1], LineAt(w, n)) ELSE
              IF n > pos THEN r[n - 1] ELSE <<>>

(* A line is a sequence of bytes.                                          *)
LEMMA LineAtType ==
  ASSUME NEW T, NEW w \in Seq(T), NEW i \in 1 .. Len(w)
  PROVE  LineAt(w, i) \in Seq(T)
<1>1. i - 1 \in Nat /\ i - 1 < Len(w) /\ Len(w) \in Nat
  OBVIOUS
<1>2. PICK m \in Nat : m <= Len(w) /\ FindLineStart(w, i - 1) = m
  BY <1>1, LineStartExists
<1>3. \A e \in Int : e <= Len(w) => SubSeq(w, i, e) \in Seq(T)
  BY <1>1
<1> QED BY <1>2, <1>3, <1>1 DEF LineAt

(* The recursion of ParseFrom, as a sequence of steps.                     *)
LEMMA ParseSteps ==
  ASSUME NEW T, NEW w \in Seq(T), NEW pos \in Nat
  PROVE  \E r \in [0 .. Len(w) -> Seq(Seq(T))] : Parses(r, w, pos) /\ ParseFrom(w, pos) = r[Len(w)]
<1> DEFINE S == Seq(Seq(T))
           N == Len(w)
           step == [n \in Nat |-> [p \in S |->
                     IF n \in 1 .. N /\ IsStart(w, pos, n) THEN Append(p, LineAt(w, n))
                     ELSE IF n > pos THEN p ELSE <<>>]]
<1>1. N \in Nat /\ <<>> \in S /\ step \in [Nat -> [S -> S]]
  <2>1. N \in Nat /\ <<>> \in S
    OBVIOUS
  <2>2. ASSUME NEW n \in Nat, NEW p \in S
        PROVE  (IF n \in 1 .. N /\ IsStart(w, pos, n) THEN Append(p, LineAt(w, n))
                ELSE IF n > pos THEN p ELSE <<>>) \in S
    <3>1. CASE n \in 1 .. N /\ IsStart(w, pos, n)
      <4>1. LineAt(w, n) \in Seq(T)
        BY <3>1, LineAtType
      <4> DEFINE Q == Seq(T)
                 l == LineAt(w, n)
      <4> HIDE DEF Q, l
      <4>2. p \in Seq(Q) /\ l \in Q
        BY <4>1 DEF Q, l
      <4>3. Append(p, l) \in Seq(Q)
        BY <4>2
      <4> QED BY <4>3, <3>1 DEF Q, l
    <3>2. CASE ~(n \in 1 .. N /\ IsStart(w, pos, n))
      BY <3>2, <2>1
    <3> QED BY <3>1, <3>2
  <2> HIDE DEF S, N
  <2> QED BY <2>1, <2>2
<1>2. PICK r : Computes(r, <<>>, step, S, N)
  <2> HIDE DEF step, S, N
  <2> QED BY <1>1, Recursion
<1>3. r \in [0 .. N -> S] /\ r[0] = <<>>
  BY <1>2 DEF Computes
<1>4. \A n \in 1 .. N : n - 1 \in 0 .. N /\ n \in Nat /\ r[n - 1] \in S
  <2> HIDE DEF S, N
  <2> QED BY <1>1, <1>3
<1>5. \A n \in 1 .. N : r[n] = step[n][r[n - 1]]
  BY <1>2 DEF Computes
<1>6. Parses(r, w, pos)
  <2>1. ASSUME NEW n \in 1 .. N
        PROVE  r[n] = IF IsStart(w, pos, n) THEN Append(r[n - 1], LineAt(w, n)) ELSE
                      IF n > pos THEN r[n - 1] ELSE <<>>
    <3> HIDE DEF S, N
    <3> QED BY <1>4, <1>5
  <2> QED BY <1>3, <2>1 DEF Parses
<1> DEFINE E(q) == [n \in 0 .. N |->
                     IF n <= pos THEN <<>>
                     ELSE IF n = pos + 1 \/ w[n - 1] = NL THEN Append(q[n - 1], LineAt(w, n))
                     ELSE q[n - 1]]
           h == CHOOSE q : q = E(q)
<1>7. r = E(r)
  <2>1. r = [n \in 0 .. N |-> r[n]]
    BY <1>3
  <2>2. ASSUME NEW n \in 0 .. N
        PROVE  r[n] = IF n <= pos THEN <<>>
                      ELSE IF n = pos + 1 \/ w[n - 1] = NL THEN Append(r[n - 1], LineAt(w, n))
                      ELSE r[n - 1]
    <3>1. CASE n = 0
      BY <3>1, <1>3
    <3>2. CASE n \in 1 .. N
      <4>1. r[n] = IF IsStart(w, pos, n) THEN Append(r[n - 1], LineAt(w, n)) ELSE
                   IF n > pos THEN r[n - 1] ELSE <<>>
        BY <3>2, <1>6 DEF Parses
      <4>2. n \in Int /\ pos \in Int
        OBVIOUS
      <4>3. n > pos \/ n <= pos
        BY <4>2
      <4>4. CASE n <= pos
        BY <4>1, <4>2, <4>4 DEF IsStart
      <4>5. CASE n > pos
        <5>1. ~(n <= pos)
          BY <4>2, <4>5
        <5> QED BY <4>1, <4>5, <5>1 DEF IsStart
      <4> QED BY <4>3, <4>4, <4>5
    <3> QED BY <3>1, <3>2, <1>1
  <2> HIDE DEF N
  <2> QED BY <2>1, <2>2
<1>8. h = E(h)
  BY <1>7
<1>9. ParseFrom(w, pos) = h[N]
  BY DEF ParseFrom, LineAt
<1>10. \A n \in 0 .. N : h[n] = IF n <= pos THEN <<>>
                      ELSE IF n = pos + 1 \/ w[n - 1] = NL THEN Append(h[n - 1], LineAt(w, n))
                      ELSE h[n - 1]
  <2> HIDE DEF h, N
  <2> QED BY <1>8
<1>11. \A n \in 0 .. N : r[n] = IF n <= pos THEN <<>>
                      ELSE IF n = pos + 1 \/ w[n - 1] = NL THEN Append(r[n - 1], LineAt(w, n))
                      ELSE r[n - 1]
  <2> HIDE DEF h, N
  <2> QED BY <1>7
<1>12. h[N] = r[N]
  <2> HIDE DEF h, E, step, S, N
  <2> DEFINE G == {n \in Nat : n <= N => h[n] = r[n]}
  <2>1. 0 \in G
    <3>1. 0 <= pos /\ 0 \in 0 .. N
      BY <1>1
    <3> QED BY <3>1, <1>10, <1>11
  <2>2. ASSUME NEW n \in Nat, n \in G PROVE n + 1 \in G
    <3> SUFFICES ASSUME n + 1 <= N PROVE h[n + 1] = r[n + 1]
      OBVIOUS
    <3>1. n + 1 \in 0 .. N /\ (n + 1) - 1 = n /\ h[n] = r[n]
      BY <1>1, <2>2
    <3> QED BY <3>1, <1>10, <1>11
  <2>3. \A n \in Nat : n \in G
    <3> HIDE DEF G
    <3> QED BY <2>1, <2>2, Induction
  <2> QED BY <2>3, <1>1
<1> HIDE DEF h, E
<1> QED BY <1>3, <1>6, <1>9, <1>12

(* Rows are sequences of bytes.                                            *)
LEMMA ParseType ==
  ASSUME NEW T, NEW w \in Seq(T), NEW pos \in Nat
  PROVE  ParseFrom(w, pos) \in Seq(Seq(T))
<1>1. PICK r \in [0 .. Len(w) -> Seq(Seq(T))] : ParseFrom(w, pos) = r[Len(w)]
  BY ParseSteps
<1>2. Len(w) \in 0 .. Len(w)
  OBVIOUS
<1> QED BY <1>1, <1>2

(* So are those behind the header.                                         *)
LEMMA RowsType ==
  ASSUME NEW T, NEW w \in Seq(T)
  PROVE  Rows(w) \in Seq(Seq(T))
<1> DEFINE k == FindLineStart(w, 0)
<1>1. k \in Nat
  BY LineStartType
<1> HIDE DEF k
<1>2. ParseFrom(w, k) \in Seq(Seq(T))
  BY <1>1, ParseType
<1> QED BY <1>2 DEF Rows, k

(* No line begins before the place the parser starts at.                   *)
LEMMA ParsesNothing ==
  ASSUME NEW T, NEW w \in Seq(T), NEW pos \in Nat, NEW r, Parses(r, w, pos),
         NEW n \in 0 .. Len(w), n <= pos
  PROVE  r[n] = <<>>
<1>1. CASE n = 0
  BY <1>1 DEF Parses
<1>2. CASE n # 0
  <2>1. n \in 1 .. Len(w) /\ ~(n > pos)
    BY <1>2
  <2> QED BY <2>1 DEF Parses, IsStart
<1> QED BY <1>1, <1>2

(* Nor behind the end of the file.                                         *)
LEMMA NothingAtEnd ==
  ASSUME NEW T, NEW w \in Seq(T), NEW pos \in Nat, Len(w) <= pos
  PROVE  ParseFrom(w, pos) = <<>>
<1>1. PICK r : Parses(r, w, pos) /\ ParseFrom(w, pos) = r[Len(w)]
  BY ParseSteps
<1>2. Len(w) \in 0 .. Len(w)
  OBVIOUS
<1> QED BY <1>1, <1>2, ParsesNothing

OneMore(a, b, l) == Append(a \o b, l) = a \o Append(b, l)

(* One more element goes to the end of both.                               *)
LEMMA AppendConcat ==
  ASSUME NEW Q, NEW a \in Seq(Q), NEW b \in Seq(Q), NEW l \in Q
  PROVE  OneMore(a, b, l)
BY DEF OneMore

(* What was parsed up to m, and from there on.                             *)
Continues(w, p, m, a) == /\ ParseFrom(w, p) = a \o ParseFrom(w, m)
                         /\ \A r : Parses(r, w, p) => r[m] = a

(* A parser that goes on where a line begins finds what one that started   *)
(* earlier finds there.                                                    *)
LEMMA ParseOn ==
  ASSUME NEW T, NEW w \in Seq(T), NEW p \in Nat, NEW m \in Nat,
         p <= m, m <= Len(w), m = p \/ m = Len(w) \/ w[m] = NL
  PROVE  \E a \in Seq(Seq(T)) : Continues(w, p, m, a)
<1> DEFINE N == Len(w)
           S == Seq(Seq(T))
<1>1. N \in Nat /\ m \in 0 .. N
  OBVIOUS
<1>2. PICK r \in [0 .. N -> S] : Parses(r, w, p) /\ ParseFrom(w, p) = r[N]
  BY ParseSteps
<1>3. PICK q \in [0 .. N -> S] : Parses(q, w, m) /\ ParseFrom(w, m) = q[N]
  BY ParseSteps
<1> DEFINE a == r[m]
<1>4. a \in S
  BY <1>1
<1>5. \A n \in 1 .. N : n - 1 \in 0 .. N /\ r[n - 1] \in S /\ q[n - 1] \in S
  <2> HIDE DEF N, S
  <2> QED BY <1>1
<1>6. \A n \in 1 .. N : LineAt(w, n) \in Seq(T)
  BY LineAtType
<1> DEFINE G == {n \in Nat : m <= n /\ n <= N => r[n] = a \o q[n]}
<1>7. r[m] = a \o q[m]
  <2>1. q[m] = <<>>
    BY <1>1, <1>3, ParsesNothing
  <2>2. a \o <<>> = a
    BY <1>4
  <2> HIDE DEF a
  <2>3. r[m] = a
    BY DEF a
  <2> QED BY <2>1, <2>2, <2>3
<1>8. 0 \in G
  <2>1. m <= 0 => m = 0
    OBVIOUS
  <2> QED BY <1>7, <2>1
<1>9. ASSUME NEW n \in Nat, n \in G PROVE n + 1 \in G
  <2> SUFFICES ASSUME m <= n + 1, n + 1 <= N PROVE r[n + 1] = a \o q[n + 1]
    OBVIOUS
  <2>1. CASE m = n + 1
    BY <2>1, <1>7
  <2>2. CASE m <= n
    <3> DEFINE l == LineAt(w, n + 1)
               Q == Seq(T)
    <3>1. n + 1 \in 1 .. N /\ (n + 1) - 1 = n /\ n + 1 > m /\ n + 1 > p /\ n \in 0 .. N
      BY <1>1, <2>2
    <3>2. r[n] = a \o q[n] /\ q[n] \in S /\ l \in Seq(T)
      BY <1>9, <2>2, <1>1, <3>1, <1>6
    <3>3. IsStart(w, p, n + 1) <=> IsStart(w, m, n + 1)
      <4>1. n + 1 = m + 1 => IsStart(w, p, n + 1)
        <5>1. n + 1 = m + 1 => n = m /\ m # N
          BY <3>1, <1>1
        <5> QED BY <3>1, <5>1, <2>2 DEF IsStart
      <4>2. n + 1 = p + 1 => n + 1 = m + 1
        BY <2>2
      <4> QED BY <3>1, <4>1, <4>2 DEF IsStart
    <3>4. /\ r[n + 1] = IF IsStart(w, m, n + 1) THEN Append(r[n], l) ELSE r[n]
          /\ q[n + 1] = IF IsStart(w, m, n + 1) THEN Append(q[n], l) ELSE q[n]
      BY <1>2, <1>3, <3>1, <3>3 DEF Parses
    <3>5. Append(a \o q[n], l) = a \o Append(q[n], l)
      <4> DEFINE b == q[n]
      <4>1. a \in Seq(Q) /\ b \in Seq(Q) /\ l \in Q
        BY <1>4, <3>2
      <4> HIDE DEF a, b, l, Q
      <4>2. OneMore(a, b, l)
        BY <4>1, AppendConcat
      <4>3. Append(a \o b, l) = a \o Append(b, l)
        BY <4>2 DEF OneMore
      <4> QED BY <4>3 DEF b
    <3> HIDE DEF a, l, N, S
    <3> QED BY <3>2, <3>4, <3>5
  <2> QED BY <2>1, <2>2
<1>10. \A n \in Nat : n \in G
  <2> HIDE DEF G
  <2> QED BY <1>8, <1>9, Induction
<1>11. ParseFrom(w, p) = a \o ParseFrom(w, m)
  <2>1. N \in G
    BY <1>1, <1>10
  <2>2. r[N] = a \o q[N]
    BY <1>1, <2>1
  <2> HIDE DEF a, N
  <2> QED BY <1>2, <1>3, <2>2
<1>12. ASSUME NEW s, Parses(s, w, p) PROVE s[m] = a
  <2> DEFINE H == {n \in Nat : n <= N => s[n] = r[n]}
  <2>1. 0 \in H
    BY <1>2, <1>12 DEF Parses
  <2>2. ASSUME NEW n \in Nat, n \in H PROVE n + 1 \in H
    <3> SUFFICES ASSUME n + 1 <= N PROVE s[n + 1] = r[n + 1]
      OBVIOUS
    <3>1. n + 1 \in 1 .. N /\ (n + 1) - 1 = n /\ s[n] = r[n]
      BY <1>1, <2>2
    <3> QED BY <1>2, <1>12, <3>1 DEF Parses
  <2>3. \A n \in Nat : n \in H
    <3> HIDE DEF H
    <3> QED BY <2>1, <2>2, Induction
  <2> QED BY <2>3
<1> HIDE DEF a, S
<1>13. Continues(w, p, m, a)
  BY <1>11, <1>12 DEF Continues
<1> QED BY <1>4, <1>13 DEF S
-----------------------------------------------------------------------------
(* A file and what it has grown to                                         *)

(* The seam is clean when one of its sides is the end of a line.           *)
CleanSeam(v, w) ==
  /\ Len(v) < Len(w)
  /\ \A i \in 1 .. Len(v) : w[i] = v[i]
  /\ EndsLine(v) \/ w[Len(v) + 1] = NL

(* A line that ends before a clean seam, or at it, is the same in both.    *)
LEMMA SameLines ==
  ASSUME NEW T, NEW v \in Seq(T), NEW w \in Seq(T), CleanSeam(v, w), NEW i \in 1 .. Len(v)
  PROVE  LineAt(w, i) = LineAt(v, i)
<1> DEFINE k == Len(v)
<1>1. k \in Nat /\ Len(w) \in Nat /\ k < Len(w) /\ i - 1 \in Nat /\ i - 1 < k /\ i \in Nat
  BY DEF CleanSeam
<1>2. \A j \in 1 .. k : w[j] = v[j]
  BY DEF CleanSeam
<1>3. PICK m \in Nat : /\ i - 1 < m /\ m <= k /\ (m = k \/ v[m] = NL)
                       /\ \A j \in (i - 1) + 1 .. m - 1 : v[j] # NL
                       /\ FindLineStart(v, i - 1) = m
  BY <1>1, LineStartExists
<1>4. \A e \in 0 .. k : SubSeq(w, i, e) = SubSeq(v, i, e)
  BY <1>1, <1>2
<1>5. \A j \in (i - 1) + 1 .. m - 1 : j \in 1 .. k /\ w[j] # NL
  <2> SUFFICES ASSUME NEW j \in (i - 1) + 1 .. m - 1 PROVE j \in 1 .. k /\ w[j] # NL
    OBVIOUS
  <2>1. j \in 1 .. k
    BY <1>1, <1>3
  <2>2. v[j] # NL /\ w[j] = v[j]
    BY <1>2, <1>3, <2>1
  <2> QED BY <2>1, <2>2
<1>6. m \in 1 .. k /\ m - 1 \in 0 .. k /\ m \in 0 .. k
  BY <1>1, <1>3
<1>7. CASE v[m] = NL
  <2>1. w[m] = NL /\ m <= Len(w)
    BY <1>1, <1>2, <1>6, <1>7
  <2>2. FindLineStart(w, i - 1) = m
    BY <1>1, <1>3, <1>5, <2>1, LineStart
  <2> QED BY <1>3, <1>4, <1>6, <1>7, <2>1, <2>2 DEF LineAt
<1>8. CASE v[m] # NL
  <2>1. m = k /\ w[k + 1] = NL /\ w[m] # NL
    <3>1. m = k
      BY <1>3, <1>8
    <3> QED BY <1>2, <1>6, <1>8, <3>1 DEF CleanSeam, EndsLine
  <2>2. \A j \in (i - 1) + 1 .. (k + 1) - 1 : w[j] # NL
    <3>1. \A j \in (i - 1) + 1 .. (k + 1) - 1 : j = k \/ j \in (i - 1) + 1 .. k - 1
      BY <1>1
    <3> QED BY <2>1, <1>5, <3>1
  <2>3. FindLineStart(w, i - 1) = k + 1
    <3>1. k + 1 \in Nat /\ i - 1 < k + 1 /\ k + 1 <= Len(w)
      BY <1>1
    <3> HIDE DEF k
    <3> QED BY <1>1, <2>1, <2>2, <3>1, LineStart
  <2>4. LineAt(w, i) = SubSeq(w, i, k)
    <3>1. (k + 1) - 1 = k
      BY <1>1
    <3> HIDE DEF k
    <3> QED BY <2>1, <2>3, <3>1 DEF LineAt
  <2>5. LineAt(v, i) = SubSeq(v, i, k)
    BY <1>3, <1>8, <2>1 DEF LineAt
  <2> QED BY <1>4, <1>6, <2>1, <2>4, <2>5
<1> QED BY <1>7, <1>8

(* Both are parsed alike up to the seam.                                   *)
LEMMA ParsedAlike ==
  ASSUME NEW T, NEW v \in Seq(T), NEW w \in Seq(T), CleanSeam(v, w), NEW p \in Nat,
         NEW r, Parses(r, w, p), NEW q, Parses(q, v, p)
  PROVE  r[Len(v)] = q[Len(v)]
<1> DEFINE k == Len(v)
           G == {n \in Nat : n <= k => r[n] = q[n]}
<1>1. k \in Nat /\ Len(w) \in Nat /\ k < Len(w)
  BY DEF CleanSeam
<1>2. 0 \in G
  BY DEF Parses
<1>3. ASSUME NEW n \in Nat, n \in G PROVE n + 1 \in G
  <2> SUFFICES ASSUME n + 1 <= k PROVE r[n + 1] = q[n + 1]
    OBVIOUS
  <2>1. /\ n + 1 \in 1 .. k /\ n + 1 \in 1 .. Len(w) /\ (n + 1) - 1 = n /\ r[n] = q[n]
        /\ n # 0 => n \in 1 .. k
    BY <1>1, <1>3
  <2>2. LineAt(w, n + 1) = LineAt(v, n + 1)
    BY <2>1, SameLines
  <2>3. IsStart(w, p, n + 1) <=> IsStart(v, p, n + 1)
    <3>1. n # 0 => w[n] = v[n]
      BY <2>1 DEF CleanSeam
    <3>2. n = 0 => (n + 1 > p <=> n + 1 = p + 1)
      OBVIOUS
    <3> QED BY <2>1, <3>1, <3>2 DEF IsStart
  <2> QED BY <2>1, <2>2, <2>3 DEF Parses
<1>4. \A n \in Nat : n \in G
  <2> HIDE DEF G
  <2> QED BY <1>2, <1>3, Induction
<1> QED BY <1>1, <1>4

(* The rows of the file are those it had, and what follows the seam.       *)
LEMMA Seam ==
  ASSUME NEW T, NEW v \in Seq(T), NEW w \in Seq(T), CleanSeam(v, w)
  PROVE  Rows(w) = Rows(v) \o ParseFrom(w, IF EndsLine(v) THEN Len(v) ELSE Len(v) + 1)
<1> DEFINE k == Len(v)
           m == IF EndsLine(v) THEN k ELSE k + 1
           z == 0
<1>1. k \in Nat /\ Len(w) \in Nat /\ k < Len(w) /\ m \in Nat /\ m <= Len(w) /\ k <= m /\ z \in Nat
  BY DEF CleanSeam
<1>2. \A j \in 1 .. k : w[j] = v[j]
  BY DEF CleanSeam
<1>3. ParseFrom(w, m) \in Seq(Seq(T))
  <2> HIDE DEF m
  <2> QED BY <1>1, ParseType
<1>4. <<>> \o ParseFrom(w, m) = ParseFrom(w, m)
  <2> HIDE DEF m
  <2> QED BY <1>3
<1>5. w[m] = NL
  <2>1. CASE EndsLine(v)
    BY <2>1, <1>1, <1>2 DEF EndsLine
  <2>2. CASE ~EndsLine(v)
    BY <2>2 DEF CleanSeam
  <2> QED BY <2>1, <2>2
<1>6. ASSUME \A j \in 1 .. k : w[j] # NL
      PROVE  Rows(w) = Rows(v) \o ParseFrom(w, m)
  <2>1. ~EndsLine(v) /\ m = k + 1
    <3>1. EndsLine(v) => k \in 1 .. k /\ v[k] = NL
      BY DEF EndsLine
    <3> QED BY <1>2, <1>6, <3>1
  <2>2. FindLineStart(w, z) = m
    <3>1. z < m /\ \A j \in z + 1 .. m - 1 : w[j] # NL
      BY <1>1, <1>6, <2>1
    <3> HIDE DEF z, m, k
    <3> QED BY <1>1, <1>5, <3>1, LineStart
  <2>3. FindLineStart(v, z) = k
    <3>1. CASE k = 0
      <4>1. z >= k /\ z = k
        BY <3>1
      <4> HIDE DEF z
      <4> QED BY <1>1, <4>1, LineStartAtEnd
    <3>2. CASE k # 0
      <4>1. z < k /\ \A j \in z + 1 .. k - 1 : v[j] # NL
        BY <1>1, <1>2, <1>6, <3>2
      <4> HIDE DEF z
      <4> QED BY <1>1, <4>1, LineStart
    <3> QED BY <3>1, <3>2
  <2>4. Rows(v) = <<>>
    BY <2>3, <1>1, NothingAtEnd DEF Rows
  <2> HIDE DEF m
  <2> QED BY <1>4, <2>2, <2>4 DEF Rows
<1>7. ASSUME NEW j \in 1 .. k, v[j] = NL
      PROVE  Rows(w) = Rows(v) \o ParseFrom(w, m)
  <2>1. PICK p \in Nat : /\ z < p /\ p <= k /\ (p = k \/ v[p] = NL)
                         /\ \A i \in z + 1 .. p - 1 : v[i] # NL
                         /\ FindLineStart(v, z) = p
    <3>1. z < Len(v)
      BY <1>1
    <3> HIDE DEF z
    <3> QED BY <1>1, <3>1, LineStartExists
  <2>2. v[p] = NL /\ w[p] = NL /\ p \in 1 .. k
    <3>1. p \in 1 .. k
      BY <1>1, <2>1
    <3>2. CASE p = k
      <4>1. j = k \/ j \in z + 1 .. p - 1
        BY <3>2, <1>1
      <4> QED BY <4>1, <2>1, <1>7, <3>2, <1>2, <3>1
    <3>3. CASE p # k
      BY <3>1, <3>3, <2>1, <1>2
    <3> QED BY <3>1, <3>2, <3>3
  <2>3. FindLineStart(w, z) = p
    <3>1. \A i \in z + 1 .. p - 1 : i \in 1 .. k /\ w[i] # NL
      BY <1>1, <1>2, <2>1
    <3>2. p <= Len(w)
      BY <1>1, <2>1
    <3> HIDE DEF z, k
    <3> QED BY <1>1, <2>1, <2>2, <3>1, <3>2, LineStart
  <2>4. PICK r : Parses(r, w, p)
    BY ParseSteps
  <2>5. PICK q : Parses(q, v, p) /\ ParseFrom(v, p) = q[k]
    BY ParseSteps
  <2>6. r[k] = ParseFrom(v, p)
    BY <2>4, <2>5, ParsedAlike
  <2>7. r[m] = r[k]
    <3>1. CASE EndsLine(v)
      BY <3>1
    <3>2. CASE ~EndsLine(v)
      <4>1. m = k + 1 /\ m \in 1 .. Len(w) /\ m - 1 = k /\ k \in 1 .. k /\ v[k] # NL
        BY <3>2, <1>1 DEF EndsLine
      <4>2. w[k] # NL /\ p # k /\ m > p /\ m # p + 1
        BY <4>1, <1>2, <2>1, <2>2
      <4>3. ~IsStart(w, p, m)
        BY <4>1, <4>2 DEF IsStart
      <4> HIDE DEF m, k
      <4> QED BY <2>4, <4>1, <4>2, <4>3 DEF Parses
    <3> QED BY <3>1, <3>2
  <2>8. ParseFrom(w, p) = r[m] \o ParseFrom(w, m)
    <3>1. p <= m
      BY <1>1, <2>1
    <3> HIDE DEF m
    <3>2. m = p \/ m = Len(w) \/ w[m] = NL
      BY <1>5
    <3>3. p \in Nat /\ m \in Nat /\ p <= m /\ m <= Len(w) /\ w \in Seq(T)
      BY <1>1, <3>1
    <3>4. PICK a \in Seq(Seq(T)) : Continues(w, p, m, a)
      BY <3>2, <3>3, ParseOn
    <3> QED BY <2>4, <3>4 DEF Continues
  <2> HIDE DEF m, k
  <2> QED BY <2>1, <2>3, <2>6, <2>7, <2>8 DEF Rows
<1>8. \A j \in 1 .. k : v[j] = w[j]
  BY <1>2
<1> HIDE DEF m, k
<1> QED BY <1>6, <1>7, <1>8 DEF m, k

(* Nothing is left out.                                                    *)
LEMMA PartOfItself ==
  ASSUME NEW s
  PROVE  IsPartOf(s, s)
<1> DEFINE at == [i \in DOMAIN s |-> i]
<1>1. at \in [DOMAIN s -> DOMAIN s]
  OBVIOUS
<1>2. \A i, j \in DOMAIN s : s[i] = s[at[i]] /\ (i < j => at[i] < at[j])
  OBVIOUS
<1> QED BY <1>1, <1>2 DEF IsPartOf

(* What is put behind both may leave something out.                        *)
LEMMA PartExtended ==
  ASSUME NEW R, NEW s \in Seq(R), NEW t \in Seq(R), NEW a \in Seq(R), NEW b \in Seq(R),
         IsPartOf(s, t)
  PROVE  IsPartOf(s \o b, t \o (a \o b))
<1>1. PICK at \in [DOMAIN s -> DOMAIN t] :
        \A i, j \in DOMAIN s : s[i] = t[at[i]] /\ (i < j => at[i] < at[j])
  BY DEF IsPartOf
<1> DEFINE k == Len(s)
           n == Len(t) + Len(a)
           u == s \o b
           w == t \o (a \o b)
           to == [i \in DOMAIN u |-> IF i <= k THEN at[i] ELSE (i - k) + n]
<1>2. k \in Nat /\ Len(t) \in Nat /\ Len(a) \in Nat /\ Len(b) \in Nat
  OBVIOUS
<1>3. DOMAIN u = 1 .. k + Len(b) /\ DOMAIN w = 1 .. n + Len(b)
  <2>1. Len(u) = k + Len(b) /\ u \in Seq(R)
    OBVIOUS
  <2>2. Len(a \o b) = Len(a) + Len(b) /\ a \o b \in Seq(R)
    OBVIOUS
  <2>3. Len(w) = Len(t) + (Len(a) + Len(b)) /\ w \in Seq(R)
    BY <2>2
  <2> QED BY <2>1, <2>3, <1>2
<1>4. \A i \in 1 .. k : u[i] = s[i] /\ at[i] \in 1 .. Len(t) /\ w[at[i]] = t[at[i]]
  <2>1. \A i \in 1 .. k : at[i] \in 1 .. Len(t)
    OBVIOUS
  <2>2. \A i \in 1 .. Len(t) : w[i] = t[i]
    <3>1. a \o b \in Seq(R)
      OBVIOUS
    <3> QED BY <3>1
  <2>3. \A i \in 1 .. k : u[i] = s[i]
    OBVIOUS
  <2> QED BY <2>1, <2>2, <2>3
<1>5. \A i \in 1 .. Len(b) : u[k + i] = b[i] /\ w[i + n] = b[i]
  <2> SUFFICES ASSUME NEW i \in 1 .. Len(b) PROVE u[k + i] = b[i] /\ w[i + n] = b[i]
    OBVIOUS
  <2>1. u[k + i] = b[i]
    OBVIOUS
  <2>2. a \o b \in Seq(R) /\ Len(a \o b) = Len(a) + Len(b) /\ (a \o b)[Len(a) + i] = b[i]
    OBVIOUS
  <2>3. w[Len(t) + (Len(a) + i)] = (a \o b)[Len(a) + i]
    <3> DEFINE ab == a \o b
               j == Len(a) + i
    <3>1. ab \in Seq(R) /\ j \in 1 .. Len(ab)
      BY <2>2, <1>2
    <3> HIDE DEF ab, j
    <3>2. (t \o ab)[Len(t) + j] = ab[j]
      BY <3>1
    <3> QED BY <3>2 DEF ab, j
  <2>4. i + n = Len(t) + (Len(a) + i)
    BY <1>2
  <2> HIDE DEF w, u, n
  <2> QED BY <2>1, <2>2, <2>3, <2>4
<1>6. \A i \in DOMAIN u : i \in 1 .. k \/ (i - k \in 1 .. Len(b) /\ i > k /\ i = k + (i - k))
  BY <1>2, <1>3
<1>7. \A i \in 1 .. k : at[i] \in 1 .. n + Len(b) /\ at[i] <= n
  BY <1>2, <1>4
<1>8. \A i \in 1 .. Len(b) : i + n \in 1 .. n + Len(b) /\ n < i + n
  BY <1>2
<1>9. /\ \A i \in 1 .. k : i <= k
      /\ \A i \in DOMAIN u : i > k => ~(i <= k)
  BY <1>2, <1>3
<1> HIDE DEF u, w, n
<1>10. to \in [DOMAIN u -> DOMAIN w]
  <2> SUFFICES ASSUME NEW i \in DOMAIN u
               PROVE  (IF i <= k THEN at[i] ELSE (i - k) + n) \in DOMAIN w
    OBVIOUS
  <2>1. CASE i \in 1 .. k
    BY <2>1, <1>3, <1>7, <1>9
  <2>2. CASE i - k \in 1 .. Len(b) /\ i > k
    BY <2>2, <1>3, <1>8, <1>9
  <2> QED BY <2>1, <2>2, <1>6
<1>11. ASSUME NEW i \in DOMAIN u PROVE u[i] = w[to[i]]
  <2>1. CASE i \in 1 .. k
    BY <2>1, <1>1, <1>4, <1>9
  <2>2. CASE i - k \in 1 .. Len(b) /\ i > k /\ i = k + (i - k)
    <3>1. to[i] = (i - k) + n
      BY <2>2, <1>9
    <3>2. u[k + (i - k)] = w[(i - k) + n]
      BY <2>2, <1>5
    <3> QED BY <2>2, <3>1, <3>2
  <2> QED BY <2>1, <2>2, <1>6
<1>12. ASSUME NEW i \in DOMAIN u, NEW j \in DOMAIN u, i < j PROVE to[i] < to[j]
  <2>1. CASE i \in 1 .. k /\ j \in 1 .. k
    BY <2>1, <1>1, <1>9, <1>12
  <2>2. CASE i \in 1 .. k /\ j - k \in 1 .. Len(b) /\ j > k
    <3>1. to[i] = at[i] /\ to[j] = (j - k) + n
      BY <2>2, <1>9
    <3>2. n \in Nat /\ at[i] \in Nat /\ at[i] <= n /\ n < (j - k) + n /\ (j - k) + n \in Nat
      BY <2>2, <1>2, <1>7, <1>8 DEF n
    <3> QED BY <3>1, <3>2
  <2>3. CASE i - k \in 1 .. Len(b) /\ i > k
    <3>1. j > k /\ j - k \in 1 .. Len(b)
      BY <2>3, <1>2, <1>3, <1>6, <1>12
    <3>2. to[i] = (i - k) + n /\ to[j] = (j - k) + n
      BY <2>3, <3>1, <1>9
    <3>3. n \in Nat
      BY <1>2 DEF n
    <3> QED BY <3>2, <3>3, <1>2, <1>3, <1>12
  <2> QED BY <2>1, <2>2, <2>3, <1>6
<1> HIDE DEF to
<1>13. IsPartOf(u, w)
  BY <1>10, <1>11, <1>12 DEF IsPartOf
<1> QED BY <1>13 DEF u, w
-----------------------------------------------------------------------------
(* What every step keeps                                                   *)

Bytes == UNION {Range(f) : f \in Files \cup Contents \cup Tails}
Known == versions \ {Missing}

ViewType == [rows : Seq(Seq(Bytes)), size : Nat, head : Seq(Bytes)]
SelectType == [at : {"idle", "sized", "append", "rescan", "done"}, size : Nat, last : Nat]

TypeOK ==
  /\ eligible \in BOOLEAN
  /\ view \in ViewType
  /\ created \in {"no", "queried", "sized", "yes"}
  /\ select \in [Connections -> SelectType]
  /\ versions \subseteq {Missing} \cup Seq(Bytes)
  /\ quiet \subseteq Connections

(* The versions are finitely many: one to begin with and at most one more  *)
(* for each change.                                                        *)
Recorded == /\ file \in versions /\ changes \in Nat
            /\ IsFiniteSet(versions) /\ Cardinality(versions) <= changes + 1

(* Without a race one SELECT runs at a time, and on an unchanged file.     *)
Undisturbed ==
  /\ "two" \notin races => \A c, d \in Connections : Busy(c) /\ Busy(d) => c = d
  /\ "select" \notin races => \A c \in Connections : Busy(c) => c \in quiet

(* Once it is created, a view that never parses a tail holds the rows of   *)
(* some version.                                                           *)
ViewIsAVersion ==
  ~eligible /\ created # "no" => \E v \in Known : view.rows = Rows(v)
NoTail == \A c \in Connections : /\ ~eligible => ~At(c, "append")
                                 /\ ~At(c, "idle") => created = "yes"

(* Without a race the seam an append remembers is still the one recorded.  *)
SeamKnown ==
  "two" \notin races => \A c \in Connections : At(c, "append") => select[c].last = view.size

Inv == TypeOK /\ Recorded /\ Undisturbed /\ ViewIsAVersion /\ NoTail /\ SeamKnown

(* Files, what they become and what is appended are sequences of bytes.    *)
LEMMA FilesType == \A f \in Files \cup Contents \cup Tails : f \in Seq(Bytes)
<1> SUFFICES ASSUME NEW f \in Files \cup Contents \cup Tails PROVE f \in Seq(Bytes)
  OBVIOUS
<1>1. f \in Seq(Range(f)) /\ Range(f) \subseteq Bytes
  BY LiveViewAssumption DEF Bytes
<1> DEFINE S == Range(f)
<1> HIDE DEF S
<1>2. f \in Seq(S) /\ S \subseteq Bytes
  BY <1>1 DEF S
<1> QED BY <1>2

(* So is the beginning of a file.                                          *)
LEMMA BeginningType ==
  ASSUME NEW w \in Seq(Bytes)
  PROVE  Beginning(w) \in Seq(Bytes)
BY LiveViewAssumption DEF Beginning

(* What is read from a file that is there.                                 *)
LEMMA KnownFile ==
  ASSUME TypeOK, Recorded, file # Missing
  PROVE  file \in Seq(Bytes) /\ Size \in Nat /\ Rows(file) \in Seq(Seq(Bytes))
         /\ FirstBytes \in Seq(Bytes)
<1>1. file \in Seq(Bytes)
  BY DEF TypeOK, Recorded
<1> QED BY <1>1, RowsType, BeginningType DEF Size, FirstBytes

(* The invariant of the steps holds at first.                              *)
LEMMA Initial == Init => Inv
<1> SUFFICES ASSUME Init PROVE Inv
  OBVIOUS
<1>1. TypeOK
  <2>1. file \in Seq(Bytes)
    BY FilesType DEF Init
  <2>2. view \in ViewType
    <3>1. <<>> \in Seq(Seq(Bytes)) /\ <<>> \in Seq(Bytes)
      OBVIOUS
    <3> QED BY <3>1 DEF Init, ViewType
  <2> QED BY <2>1, <2>2 DEF Init, TypeOK, SelectType
<1>2. Recorded
  <2>1. IsFiniteSet({file}) /\ Cardinality({file}) = 1
    BY FS_Singleton
  <2> QED BY <2>1 DEF Init, Recorded
<1>3. Undisturbed /\ NoTail /\ SeamKnown
  BY DEF Init, Undisturbed, NoTail, SeamKnown, Busy, At
<1>4. ViewIsAVersion
  BY DEF Init, ViewIsAVersion
<1> QED BY <1>1, <1>2, <1>3, <1>4 DEF Inv

(* What the file has become belongs to the versions.                       *)
LEMMA ChangeKeeps ==
  ASSUME Inv, NEW new \in {Missing} \cup Seq(Bytes), Change(new)
  PROVE  Inv'
<1> USE DEF Inv, history, ViewType, SelectType
<1>1. TypeOK'
  BY DEF Change, TypeOK
<1>2. Recorded'
  <2>1. IsFiniteSet(versions') /\ Cardinality(versions') <= Cardinality(versions) + 1
    <3>1. IsFiniteSet(versions) /\ versions' = versions \cup {new}
      BY DEF Change, Recorded
    <3>2. /\ IsFiniteSet(versions \cup {new})
          /\ Cardinality(versions \cup {new}) =
               IF new \in versions THEN Cardinality(versions) ELSE Cardinality(versions) + 1
      BY <3>1, FS_AddElement
    <3>3. Cardinality(versions) \in Nat
      BY <3>1, FS_CardinalityType
    <3> QED BY <3>1, <3>2, <3>3
  <2>2. Cardinality(versions) \in Nat /\ Cardinality(versions') \in Nat
    BY <2>1, FS_CardinalityType DEF Recorded
  <2> QED BY <2>1, <2>2 DEF Change, Recorded
<1>3. Undisturbed'
  BY DEF Change, Undisturbed, Busy
<1>4. ViewIsAVersion' /\ NoTail' /\ SeamKnown'
  BY DEF Change, ViewIsAVersion, NoTail, SeamKnown, Known, At
<1> QED BY <1>1, <1>2, <1>3, <1>4

(* Every writer changes the file to something it may be.                   *)
LEMMA Changes ==
  ASSUME Inv, Extend \/ Rewrite \/ Vanish
  PROVE  \E new \in {Missing} \cup Seq(Bytes) : Change(new)
<1>1. ASSUME Extend PROVE \E new \in {Missing} \cup Seq(Bytes) : Change(new)
  <2>1. PICK tail \in Tails : file # Missing /\ Change(file \o tail)
    BY <1>1 DEF Extend
  <2>2. file \in Seq(Bytes) /\ tail \in Seq(Bytes)
    BY <2>1, KnownFile, FilesType DEF Inv
  <2>3. file \o tail \in Seq(Bytes)
    BY <2>2
  <2> QED BY <2>1, <2>3
<1>2. ASSUME Rewrite PROVE \E new \in {Missing} \cup Seq(Bytes) : Change(new)
  BY <1>2, FilesType DEF Rewrite
<1>3. ASSUME Vanish PROVE \E new \in {Missing} \cup Seq(Bytes) : Change(new)
  BY <1>3 DEF Vanish
<1> QED BY <1>1, <1>2, <1>3

(* Every step keeps the invariant.                                         *)
LEMMA Inductive == Inv /\ [Next]_vars => Inv'
<1> SUFFICES ASSUME Inv, [Next]_vars PROVE Inv'
  OBVIOUS
<1> USE DEF Inv, history, ViewType, SelectType
<1>1. CASE CreateQuery
  <2>1. view' = [view EXCEPT !.rows = Rows(file)] /\ Rows(file) \in Seq(Seq(Bytes))
    BY <1>1, KnownFile DEF CreateQuery
  <2>2. TypeOK' /\ view'.rows = Rows(file)
    BY <1>1, <2>1 DEF CreateQuery, TypeOK
  <2>3. file \in Known
    BY <1>1 DEF CreateQuery, Recorded, Known
  <2>4. ViewIsAVersion'
    BY <1>1, <2>2, <2>3 DEF CreateQuery, ViewIsAVersion, Known
  <2>5. SeamKnown'
    BY <1>1 DEF CreateQuery, NoTail, SeamKnown, At
  <2> QED BY <1>1, <2>2, <2>4, <2>5 DEF CreateQuery, Recorded, Undisturbed, NoTail, Busy, At
<1>2. CASE CreateStat
  <2>0. SeamKnown'
    BY <1>2 DEF CreateStat, NoTail, SeamKnown, At
  <2>1. CASE file = Missing
    BY <1>2, <2>0, <2>1 DEF CreateStat, TypeOK, Recorded, Undisturbed, ViewIsAVersion, NoTail,
                      Known, Busy, At
  <2>2. CASE file # Missing
    <3>1. view' = [view EXCEPT !.size = Size] /\ Size \in Nat
      BY <1>2, <2>2, KnownFile DEF CreateStat
    <3>2. TypeOK' /\ view'.rows = view.rows
      BY <1>2, <2>2, <3>1 DEF CreateStat, TypeOK
    <3> QED BY <1>2, <2>0, <2>2, <3>2 DEF CreateStat, Recorded, Undisturbed, ViewIsAVersion,
                                    NoTail, Known, Busy, At
  <2> QED BY <2>1, <2>2
<1>3. CASE CreateHead
  <2> DEFINE head == IF file = Missing THEN <<>> ELSE FirstBytes
  <2>1. head \in Seq(Bytes)
    BY KnownFile
  <2>2. view' = [view EXCEPT !.head = head]
    BY <1>3 DEF CreateHead
  <2> HIDE DEF head
  <2>3. TypeOK' /\ view'.rows = view.rows
    BY <1>3, <2>1, <2>2 DEF CreateHead, TypeOK
  <2>4. SeamKnown'
    BY <1>3 DEF CreateHead, NoTail, SeamKnown, At
  <2> QED BY <1>3, <2>3, <2>4 DEF CreateHead, Recorded, Undisturbed, ViewIsAVersion, NoTail,
                            Known, Busy, At
<1>4. ASSUME NEW c \in Connections, Stat(c) PROVE Inv'
  <2> DEFINE s == IF file = Missing THEN [at |-> "rescan", size |-> 0, last |-> 0]
                                    ELSE [at |-> "sized", size |-> Size, last |-> 0]
  <2>1. /\ s \in SelectType
        /\ s.at \in {"sized", "rescan"}
    BY KnownFile
  <2>2. select' = [select EXCEPT ![c] = s] /\ quiet' = quiet \cup {c}
    BY <1>4 DEF Stat
  <2> HIDE DEF s
  <2>3. TypeOK'
    BY <1>4, <2>1, <2>2 DEF Stat, TypeOK
  <2>4. /\ select'[c] = s
        /\ \A d \in Connections : d # c => select'[d] = select[d]
    BY <2>2 DEF TypeOK
  <2>5. Undisturbed'
    <3>1. \A d \in Connections : d # c => (Busy(d)' <=> Busy(d))
      BY <2>4 DEF Busy
    <3>2. races \subseteq races'
      BY <1>4 DEF Stat
    <3>3. "two" \notin races' => \A d \in Connections : d # c => ~Busy(d)
      BY <1>4 DEF Stat
    <3>4. "two" \notin races' => \A d, e \in Connections : Busy(d)' /\ Busy(e)' => d = e
      BY <3>1, <3>3
    <3>5. "select" \notin races' => \A d \in Connections : Busy(d)' => d \in quiet'
      BY <2>2, <3>1, <3>2 DEF Undisturbed
    <3> QED BY <3>4, <3>5 DEF Undisturbed
  <2>6. NoTail'
    BY <1>4, <2>1, <2>4 DEF Stat, NoTail, At
  <2>7. SeamKnown'
    BY <1>4, <2>1, <2>4 DEF Stat, SeamKnown, At
  <2> QED BY <1>4, <2>3, <2>5, <2>6, <2>7 DEF Stat, Recorded, ViewIsAVersion, Known
<1>5. ASSUME NEW c \in Connections, Decide(c) PROVE Inv'
  <2> DEFINE head == IF file = Missing THEN <<>> ELSE FirstBytes
  <2>1. head \in Seq(Bytes) /\ select[c].size \in Nat
    BY KnownFile DEF TypeOK
  <2>2. \/ UNCHANGED view
        \/ view' = [view EXCEPT !.size = select[c].size, !.head = head]
    BY <1>5 DEF Decide
  <2>3. /\ UNCHANGED <<file, eligible, created, changes, quiet, versions, races>>
        /\ At(c, "sized")
    BY <1>5 DEF Decide
  <2>4. PICK at \in {"done", "append", "rescan"}, last \in Nat :
          /\ select' = [select EXCEPT ![c].at = at, ![c].last = last]
          /\ at = "append" => eligible /\ UNCHANGED view /\ last = view.size
    <3>1. CASE \E at \in {"done", "rescan"} : Goto(c, at)
      <4>1. PICK at \in {"done", "rescan"} : select' = [select EXCEPT ![c].at = at]
        BY <3>1 DEF Goto
      <4>2. select' = [select EXCEPT ![c].at = at, ![c].last = select[c].last] /\ select[c].last \in Nat
        BY <4>1 DEF TypeOK
      <4> QED BY <4>2
    <3>2. CASE /\ eligible /\ UNCHANGED view
               /\ select' = [select EXCEPT ![c].at = "append", ![c].last = view.size]
      <4>1. view.size \in Nat
        BY DEF TypeOK
      <4> QED BY <3>2, <4>1
    <3> QED BY <1>5, <3>1, <3>2 DEF Decide, Grew
  <2> HIDE DEF head
  <2>5. TypeOK' /\ view'.rows = view.rows
    <3>1. view' \in ViewType /\ view'.rows = view.rows
      BY <2>1, <2>2 DEF TypeOK
    <3>2. select' \in [Connections -> SelectType]
      BY <2>4 DEF TypeOK
    <3> QED BY <2>3, <3>1, <3>2 DEF TypeOK
  <2>6. /\ select'[c].at = at /\ select'[c].last = last
        /\ \A d \in Connections : d # c => select'[d] = select[d]
    BY <2>4 DEF TypeOK
  <2>7. Busy(c) /\ \A d \in Connections : Busy(d)' => Busy(d)
    BY <2>3, <2>6 DEF Busy, At
  <2>8. Undisturbed'
    BY <2>3, <2>7 DEF Undisturbed
  <2>9. NoTail'
    BY <2>3, <2>4, <2>6 DEF NoTail, At
  <2>10. SeamKnown'
    <3>1. "two" \notin races => \A d \in Connections : d # c => ~At(d, "append")
      BY <2>7 DEF Undisturbed, Busy, At
    <3>2. "two" \notin races' => \A d \in Connections : At(d, "append")' => d = c
      BY <2>3, <2>6, <3>1 DEF At
    <3>3. At(c, "append")' => select'[c].last = view'.size
      BY <2>4, <2>6 DEF At
    <3> QED BY <3>2, <3>3 DEF SeamKnown
  <2> QED BY <2>3, <2>5, <2>8, <2>9, <2>10 DEF Recorded, ViewIsAVersion, Known
<1>6. ASSUME NEW c \in Connections, AppendTail(c) PROVE Inv'
  <2> DEFINE rows == ParseFrom(file, FindLineStart(file, select[c].last))
  <2>1. rows \in Seq(Seq(Bytes))
    <3>1. file \in Seq(Bytes) /\ select[c].last \in Nat
      BY <1>6, KnownFile DEF AppendTail, TypeOK
    <3> DEFINE k == FindLineStart(file, select[c].last)
    <3>2. k \in Nat
      BY <3>1, LineStartType
    <3> HIDE DEF k
    <3>3. ParseFrom(file, k) \in Seq(Seq(Bytes))
      BY <3>1, <3>2, ParseType
    <3> QED BY <3>3 DEF k
  <2> HIDE DEF rows
  <2>2. view.rows \o rows \in Seq(Seq(Bytes)) /\ select[c].size \in Nat
    <3>1. view.rows \in Seq(Seq(Bytes)) /\ select[c].size \in Nat
      BY DEF TypeOK
    <3> DEFINE R == Seq(Bytes)
               old == view.rows
    <3>2. old \in Seq(R) /\ rows \in Seq(R)
      BY <2>1, <3>1
    <3> HIDE DEF R, old
    <3>3. old \o rows \in Seq(R)
      BY <3>2
    <3> QED BY <3>1, <3>3 DEF R, old
  <2>3. view' = [view EXCEPT !.rows = view.rows \o rows, !.size = select[c].size]
    BY <1>6 DEF AppendTail, rows
  <2>4. TypeOK'
    <3>1. select' \in [Connections -> SelectType]
      BY <1>6 DEF AppendTail, Goto, TypeOK
    <3>2. view' \in ViewType
      BY <2>2, <2>3 DEF TypeOK
    <3> QED BY <1>6, <3>1, <3>2 DEF AppendTail, TypeOK
  <2>5. /\ select'[c].at = "done"
        /\ \A d \in Connections : d # c => select'[d] = select[d]
    BY <1>6 DEF AppendTail, Goto, TypeOK
  <2>6. eligible
    BY <1>6 DEF AppendTail, NoTail, TypeOK
  <2>7. Undisturbed' /\ NoTail'
    BY <1>6, <2>5 DEF AppendTail, Undisturbed, NoTail, Busy, At
  <2>8. SeamKnown'
    <3>1. "two" \notin races => \A d \in Connections : d # c => ~At(d, "append")
      BY <1>6 DEF AppendTail, Undisturbed, Busy, At
    <3> QED BY <1>6, <2>5, <3>1 DEF AppendTail, history, SeamKnown, At
  <2> QED BY <1>6, <2>4, <2>6, <2>7, <2>8 DEF AppendTail, Recorded, ViewIsAVersion
<1>7. ASSUME NEW c \in Connections, Rescan(c) PROVE Inv'
  <2>1. view' = [view EXCEPT !.rows = Rows(file)] /\ Rows(file) \in Seq(Seq(Bytes))
    BY <1>7, KnownFile DEF Rescan
  <2>2. TypeOK' /\ view'.rows = Rows(file)
    <3>1. view'.rows = Rows(file)
      BY <2>1 DEF TypeOK, ViewType
    <3>2. view' \in ViewType
      <4> DEFINE R == Seq(Bytes)
                 rows == Rows(file)
      <4>1. rows \in Seq(R) /\ view' = [view EXCEPT !.rows = rows]
        BY <2>1
      <4>2. view \in ViewType
        BY DEF TypeOK
      <4> HIDE DEF rows
      <4> QED BY <4>1, <4>2 DEF ViewType, R
    <3>3. select' \in [Connections -> SelectType]
      BY <1>7 DEF Rescan, Goto, TypeOK
    <3> QED BY <1>7, <3>1, <3>2, <3>3 DEF Rescan, TypeOK
  <2>3. /\ select'[c].at = "done"
        /\ \A d \in Connections : d # c => select'[d] = select[d]
    BY <1>7 DEF Rescan, Goto, TypeOK
  <2>4. file \in Known
    BY <1>7 DEF Rescan, Recorded, Known
  <2>5. ViewIsAVersion'
    BY <1>7, <2>2, <2>4 DEF Rescan, ViewIsAVersion, Known
  <2>6. Undisturbed' /\ NoTail'
    BY <1>7, <2>3 DEF Rescan, Undisturbed, NoTail, Busy, At
  <2>7. view'.size = view.size
    BY <2>1 DEF TypeOK
  <2>8. SeamKnown'
    BY <1>7, <2>3, <2>7 DEF Rescan, SeamKnown, At
  <2> QED BY <1>7, <2>2, <2>5, <2>6, <2>8 DEF Rescan, Recorded
<1>8. ASSUME NEW c \in Connections, SelectThrows(c) PROVE Inv'
  <2>1. /\ select'[c].at = "idle"
        /\ \A d \in Connections : d # c => select'[d] = select[d]
    BY <1>8 DEF SelectThrows, Goto, TypeOK
  <2>2. Undisturbed' /\ NoTail' /\ SeamKnown'
    BY <1>8, <2>1 DEF SelectThrows, Undisturbed, NoTail, SeamKnown, Busy, At
  <2> QED BY <1>8, <2>2 DEF SelectThrows, Goto, TypeOK, Recorded, ViewIsAVersion, Known
<1>9. CASE Extend \/ Rewrite \/ Vanish
  BY <1>9, Changes, ChangeKeeps
<1>10. CASE UNCHANGED vars
  BY <1>10 DEF vars, TypeOK, Recorded, Undisturbed, ViewIsAVersion, NoTail, SeamKnown, Known, Busy, At
<1> QED BY <1>1, <1>2, <1>3, <1>4, <1>5, <1>6, <1>7, <1>8, <1>9, <1>10 DEF Next

(* Every state of the view, its SELECTs and the file is well typed.        *)
THEOREM TypeCorrect == Spec => []TypeOK
<1>1. Inv => TypeOK
  BY DEF Inv
<1> QED BY Initial, Inductive, <1>1, PTL DEF Spec

(* A SELECT on a view that is rescanned, whatever happens to the file and  *)
(* whichever other SELECTs run, answers with the rows of one version.      *)
THEOREM RescansAreWhole == Spec => []WholeVersion
<1>1. Inv => WholeVersion
  BY DEF Inv, ViewIsAVersion, NoTail, WholeVersion, At, Known
<1> QED BY Initial, Inductive, <1>1, PTL DEF Spec
-----------------------------------------------------------------------------
(* Three ways for the view to be right.  Once the condition of one fails,  *)
(* it never holds again: what each promises may be given up then.          *)

Alone == Missing \notin versions /\ races \cap {"create", "two"} = {}

Creating ==
  /\ created \in {"queried", "sized"} => view.rows = Rows(file)
  /\ created = "sized" => view.size = Len(file)

(* Between the decision to rescan and the rescan, the view does not hold   *)
(* what it says it holds.                                                  *)
Settled == created = "yes" /\ \A c \in Connections : ~At(c, "rescan")

(* The whole file is parsed again, and no two versions have one length.    *)
ByLength == /\ Alone /\ ~eligible /\ Cardinality(versions) = changes + 1
            /\ \A v, w \in versions : v = w \/ Len(v) # Len(w)

ByLengthInv ==
  /\ Creating
  /\ created = "yes" => \E v \in versions : view.size = Len(v)
  /\ Settled /\ view.size = Len(file) => view.rows = Rows(file)
  /\ \A c \in Connections : At(c, "sized") =>
       /\ \E v \in versions : select[c].size = Len(v)
       /\ c \in quiet => select[c].size = Len(file)
  /\ \A c \in quiet : At(c, "done") => view.rows = Rows(file)

(* No SELECT meets two versions, and they can be told apart.               *)
ByContent == /\ Alone /\ "select" \notin races
             /\ \A v, w \in versions : ToldApart(v, w) \/ ToldApart(w, v)

Holds(v) == view.rows = Rows(v) /\ view.size = Len(v) /\ view.head = Beginning(v)

ByContentInv ==
  /\ Creating
  /\ Settled => \E v \in versions : Holds(v)
  /\ \A c \in Connections :
       /\ At(c, "sized") \/ At(c, "append") => select[c].size = Len(file)
       /\ At(c, "append") => \E v \in versions :
            Holds(v) /\ Beginning(v) = Beginning(file) /\ CleanSeam(v, file) /\ ~EndsLine(v)
       /\ At(c, "rescan") => view.size = Len(file) /\ view.head = Beginning(file)
  /\ \A c \in quiet : At(c, "done") => view.rows = Rows(file)

(* The file grows by whole lines, and no SELECT meets two versions.        *)
ByLines == GrowsByLines /\ races = {}

HoldsPart(v) == view.size = Len(v) /\ IsPartOf(view.rows, Rows(v))

ByLinesInv ==
  /\ Creating
  /\ Settled => \E v \in versions : HoldsPart(v)
  /\ \A c \in Connections :
       /\ At(c, "sized") \/ At(c, "append") => select[c].size = Len(file)
       /\ At(c, "append") => view.size < Len(file)
       /\ At(c, "rescan") => view.size = Len(file)
  /\ \A c \in quiet : At(c, "done") => IsPartOf(view.rows, Rows(file))
-----------------------------------------------------------------------------
(* What each step does to the file that is there                           *)

Moves(c, at) == /\ select'[c].at = at /\ select'[c].size = select[c].size
                /\ \A d \in Connections : d # c => select'[d] = select[d]

(* A SELECT moves on, the others stay where they are.                      *)
LEMMA GotoMoves ==
  ASSUME TypeOK, NEW c \in Connections, NEW at, Goto(c, at)
  PROVE  Moves(c, at)
BY DEF TypeOK, Goto, Moves

(* The size is that of the file.                                           *)
LEMMA StatSteps ==
  ASSUME TypeOK, NEW c \in Connections, Stat(c), file # Missing
  PROVE  /\ select'[c].at = "sized" /\ select'[c].size = Len(file)
         /\ \A d \in Connections : d # c => select'[d] = select[d]
         /\ quiet' = quiet \cup {c} /\ created = "yes" /\ ~Busy(c)
         /\ UNCHANGED <<file, view, created, versions, changes, eligible>>
BY DEF TypeOK, Stat, Size

Same == UNCHANGED <<file, eligible, created, changes, quiet, versions, races>>

(* A hit, an append or a rescan.                                           *)
LEMMA DecideSteps ==
  ASSUME TypeOK, NEW c \in Connections, Decide(c), file # Missing
  PROVE  /\ Same /\ At(c, "sized")
         /\ \/ /\ Moves(c, "done") /\ UNCHANGED view
               /\ Beginning(file) = view.head /\ select[c].size = view.size
            \/ /\ Moves(c, "append") /\ UNCHANGED view
               /\ eligible /\ Beginning(file) = view.head /\ select[c].size > view.size
            \/ /\ Moves(c, "rescan") /\ view'.rows = view.rows
               /\ view'.size = select[c].size /\ view'.head = Beginning(file)
<1>1. Same /\ At(c, "sized")
  BY DEF Decide, Same, history
<1>2. CASE Hit(c, Beginning(file))
  BY <1>1, <1>2, GotoMoves DEF Decide, Hit, FirstBytes
<1>3. CASE ~Hit(c, Beginning(file)) /\ Grew(c, Beginning(file))
  <2>1. select' = [select EXCEPT ![c].at = "append", ![c].last = view.size] /\ UNCHANGED view
    BY <1>1, <1>3 DEF Decide, FirstBytes
  <2>2. Moves(c, "append")
    BY <2>1 DEF TypeOK, Moves
  <2> QED BY <1>1, <1>3, <2>1, <2>2 DEF Grew
<1>4. CASE ~Hit(c, Beginning(file)) /\ ~Grew(c, Beginning(file))
  <2>1. /\ Goto(c, "rescan")
        /\ view' = [view EXCEPT !.size = select[c].size, !.head = Beginning(file)]
    BY <1>4 DEF Decide, FirstBytes
  <2>2. /\ view'.rows = view.rows /\ view'.size = select[c].size
        /\ view'.head = Beginning(file)
    BY <2>1 DEF TypeOK
  <2> QED BY <1>1, <2>1, <2>2, GotoMoves
<1> QED BY <1>2, <1>3, <1>4

(* The rows of the tail are added, behind the seam recorded.               *)
LEMMA AppendSteps ==
  ASSUME TypeOK, SeamKnown, "two" \notin races, NEW c \in Connections, AppendTail(c)
  PROVE  /\ Same /\ At(c, "append") /\ Moves(c, "done")
         /\ view'.rows = view.rows \o ParseFrom(file, FindLineStart(file, view.size))
         /\ view'.size = select[c].size /\ view'.head = view.head
<1>1. Same /\ At(c, "append") /\ Goto(c, "done")
  BY DEF AppendTail, Same, history
<1> DEFINE rows == view.rows \o ParseFrom(file, FindLineStart(file, view.size))
<1>2. view' = [view EXCEPT !.rows = rows, !.size = select[c].size]
  BY <1>1 DEF AppendTail, SeamKnown
<1> HIDE DEF rows
<1>3. view'.rows = rows /\ view'.size = select[c].size /\ view'.head = view.head
  BY <1>2 DEF TypeOK
<1> QED BY <1>1, <1>3, GotoMoves DEF rows

(* The rows of the file replace those of the view.                         *)
LEMMA RescanSteps ==
  ASSUME TypeOK, NEW c \in Connections, Rescan(c)
  PROVE  /\ Same /\ At(c, "rescan") /\ Moves(c, "done")
         /\ view'.rows = Rows(file) /\ view'.size = view.size /\ view'.head = view.head
<1>1. Same /\ At(c, "rescan") /\ Goto(c, "done")
  BY DEF Rescan, Same, history
<1>2. view'.rows = Rows(file) /\ view'.size = view.size /\ view'.head = view.head
  BY DEF Rescan, TypeOK
<1> QED BY <1>1, <1>2, GotoMoves

(* While the view is created, no SELECT runs; what is recorded is the file.*)
LEMMA CreateSteps ==
  ASSUME Inv, CreateQuery \/ CreateStat \/ CreateHead, file # Missing, Creating
  PROVE  /\ Creating' /\ UNCHANGED <<file, eligible, select, changes, quiet, versions, races>>
         /\ \A c \in Connections : At(c, "idle")
         /\ created' = "yes" => /\ view'.rows = Rows(file) /\ view'.size = Len(file)
                                /\ view'.head = Beginning(file)
<1>1. UNCHANGED <<file, eligible, select, changes, quiet, versions, races>>
  BY DEF CreateQuery, CreateStat, CreateHead, history
<1>2. \A c \in Connections : At(c, "idle")
  BY DEF CreateQuery, CreateStat, CreateHead, Inv, NoTail
<1> USE DEF Inv, TypeOK, ViewType, Creating
<1>3. CASE CreateQuery
  BY <1>1, <1>2, <1>3 DEF CreateQuery
<1>4. CASE CreateStat
  BY <1>1, <1>2, <1>4 DEF CreateStat, Size
<1>5. CASE CreateHead
  BY <1>1, <1>2, <1>5 DEF CreateHead, FirstBytes
<1> QED BY <1>3, <1>4, <1>5

(* Nothing that has been or has crossed is forgotten.                      *)
LEMMA Remembers ==
  ASSUME Inv, [Next]_vars
  PROVE  /\ versions \subseteq versions' /\ races \subseteq races' /\ eligible' = eligible
         /\ \/ UNCHANGED <<changes, versions>>
            \/ \E new \in {Missing} \cup Seq(Bytes) : Change(new)
<1>1. CASE Extend \/ Rewrite \/ Vanish
  BY <1>1, Changes DEF Change
<1>2. CASE CreateQuery \/ CreateStat \/ CreateHead \/ UNCHANGED vars
  BY <1>2 DEF CreateQuery, CreateStat, CreateHead, vars, history
<1>3. ASSUME NEW c \in Connections,
             Stat(c) \/ Decide(c) \/ AppendTail(c) \/ Rescan(c) \/ SelectThrows(c)
      PROVE  versions \subseteq versions' /\ races \subseteq races' /\ eligible' = eligible
             /\ UNCHANGED <<changes, versions>>
  BY <1>3 DEF Stat, Decide, AppendTail, Rescan, SelectThrows, history
<1> QED BY <1>1, <1>2, <1>3 DEF Next

(* A change of the file while the view is created or selected from is a    *)
(* race.                                                                   *)
LEMMA ChangeRaces ==
  ASSUME NEW new, Change(new)
  PROVE  /\ file' = new /\ new \in versions' /\ quiet' = {}
         /\ UNCHANGED <<view, created, select>>
         /\ "create" \notin races' => created \notin {"queried", "sized"}
         /\ "select" \notin races' => \A c \in Connections : ~Busy(c)
BY DEF Change
-----------------------------------------------------------------------------
(* One view that rescans                                                   *)

(* The condition was there before, and every change brings a new version.  *)
LEMMA LengthRemains ==
  ASSUME Inv, [Next]_vars, ByLength'
  PROVE  /\ ByLength /\ file # Missing /\ file' # Missing
         /\ \A new : Change(new) => new \notin versions
<1>1. versions \subseteq versions' /\ races \subseteq races' /\ eligible' = eligible
  BY Remembers
<1>2. Alone /\ ~eligible
  BY <1>1 DEF ByLength, Alone
<1>3. \A v, w \in versions : v = w \/ Len(v) # Len(w)
  BY <1>1 DEF ByLength
<1>4. Cardinality(versions) \in Nat /\ Cardinality(versions) <= changes + 1 /\ changes \in Nat
  BY FS_CardinalityType DEF Inv, Recorded
<1>5. ASSUME NEW new, Change(new)
      PROVE  new \notin versions /\ Cardinality(versions) = changes + 1
  <2>1. versions' = versions \cup {new} /\ changes' = changes + 1
    BY <1>5 DEF Change
  <2>2. Cardinality(versions') = (changes + 1) + 1
    BY <2>1 DEF ByLength
  <2>3. new \notin versions
    <3>1. new \in versions => versions' = versions
      BY <2>1
    <3> QED BY <3>1, <2>2, <1>4
  <2>4. Cardinality(versions \cup {new}) = Cardinality(versions) + 1
    BY <2>3, FS_AddElement DEF Inv, Recorded
  <2> QED BY <2>1, <2>2, <2>3, <2>4, <1>4
<1>6. Cardinality(versions) = changes + 1
  BY <1>5, Remembers DEF ByLength
<1>7. file # Missing /\ file' # Missing
  <2>1. file \in versions /\ file' \in versions'
    BY Inductive DEF Inv, Recorded
  <2> QED BY <2>1, <1>2 DEF ByLength, Alone
<1> QED BY <1>2, <1>3, <1>5, <1>6, <1>7 DEF ByLength

(* Every step keeps what it promises.                                      *)
LEMMA LengthStep ==
  ASSUME Inv, [Next]_vars, ByLength', ByLengthInv
  PROVE  ByLengthInv'
<1>1. /\ ByLength /\ file # Missing /\ file' # Missing /\ ~eligible
      /\ \A new : Change(new) => new \notin versions
  BY LengthRemains DEF ByLength
<1>2. /\ TypeOK /\ Recorded /\ Undisturbed /\ NoTail /\ file \in versions
      /\ quiet \subseteq Connections
  BY DEF Inv, Recorded, TypeOK
<1>3. \A c, d \in Connections : Busy(c) /\ Busy(d) => c = d
  BY <1>1, <1>2 DEF Undisturbed, ByLength, Alone
<1> USE DEF At
<1>4. CASE CreateQuery \/ CreateStat \/ CreateHead
  <2>1. /\ Creating' /\ UNCHANGED <<file, eligible, select, changes, quiet, versions, races>>
        /\ \A c \in Connections : At(c, "idle")
        /\ created' = "yes" => view'.rows = Rows(file) /\ view'.size = Len(file)
    BY <1>1, <1>4, CreateSteps DEF ByLengthInv
  <2> QED BY <2>1, <1>2 DEF ByLengthInv, Settled
<1>5. ASSUME NEW c \in Connections, Stat(c) PROVE ByLengthInv'
  <2>1. /\ select'[c].at = "sized" /\ select'[c].size = Len(file)
        /\ \A d \in Connections : d # c => select'[d] = select[d]
        /\ quiet' = quiet \cup {c} /\ created = "yes" /\ ~Busy(c)
        /\ UNCHANGED <<file, view, created, versions, changes, eligible>>
    BY <1>1, <1>2, <1>5, StatSteps
  <2>2. Settled' => Settled
    BY <2>1 DEF Settled, Busy
  <2>3. Creating'
    BY <2>1 DEF Creating
  <2> QED BY <2>1, <2>2, <2>3, <1>2 DEF ByLengthInv
<1>6. ASSUME NEW c \in Connections, Decide(c) PROVE ByLengthInv'
  <2>1. /\ Same /\ At(c, "sized")
        /\ \/ /\ Moves(c, "done") /\ UNCHANGED view
              /\ Beginning(file) = view.head /\ select[c].size = view.size
           \/ /\ Moves(c, "rescan") /\ view'.rows = view.rows
              /\ view'.size = select[c].size /\ view'.head = Beginning(file)
    BY <1>1, <1>2, <1>6, DecideSteps
  <2>2. created = "yes"
    BY <2>1, <1>2 DEF NoTail
  <2>3. Creating'
    BY <2>1, <2>2 DEF Same, Creating
  <2>4. \A d \in Connections : d # c => ~Busy(d)
    BY <2>1, <1>3 DEF Busy
  <2>5. Settled
    BY <2>1, <2>2, <2>4 DEF Settled, Busy
  <2>6. CASE Moves(c, "done") /\ UNCHANGED view /\ select[c].size = view.size
    <3>1. c \in quiet => view.rows = Rows(file)
      BY <2>1, <2>5, <2>6 DEF ByLengthInv
    <3>2. Settled' => Settled
      BY <2>5
    <3> QED BY <2>1, <2>2, <2>3, <2>6, <3>1, <3>2, <1>2 DEF ByLengthInv, Same, Moves
  <2>7. CASE Moves(c, "rescan") /\ view'.rows = view.rows /\ view'.size = select[c].size
    <3>1. ~Settled'
      BY <2>7 DEF Settled, Moves
    <3> QED BY <2>1, <2>2, <2>3, <2>7, <3>1, <1>2 DEF ByLengthInv, Same, Moves
  <2> QED BY <2>1, <2>6, <2>7
<1>7. ASSUME NEW c \in Connections, AppendTail(c) PROVE ByLengthInv'
  BY <1>1, <1>2, <1>7 DEF AppendTail, NoTail
<1>8. ASSUME NEW c \in Connections, Rescan(c) PROVE ByLengthInv'
  <2>1. /\ Same /\ At(c, "rescan") /\ Moves(c, "done")
        /\ view'.rows = Rows(file) /\ view'.size = view.size
    BY <1>2, <1>8, RescanSteps
  <2>2. created = "yes"
    BY <2>1, <1>2 DEF NoTail
  <2>3. Creating'
    BY <2>1, <2>2 DEF Same, Creating
  <2> QED BY <2>1, <2>2, <2>3, <1>2 DEF ByLengthInv, Same, Moves
<1>9. ASSUME NEW c \in Connections, SelectThrows(c) PROVE ByLengthInv'
  BY <1>1, <1>9 DEF SelectThrows
<1>10. CASE Extend \/ Rewrite \/ Vanish
  <2>1. PICK new : Change(new)
    BY <1>10, Changes
  <2>2. /\ file' = new /\ new \in versions' /\ quiet' = {}
        /\ UNCHANGED <<view, created, select>>
        /\ created \notin {"queried", "sized"}
    BY <2>1, ChangeRaces DEF ByLength, Alone
  <2>3. versions \subseteq versions' /\ new \notin versions
    BY <1>1, <2>1, Remembers
  <2>4. Creating'
    BY <2>2 DEF Creating
  <2>5. created = "yes" => view.size # Len(new)
    BY <2>2, <2>3 DEF ByLengthInv, ByLength
  <2> QED BY <2>2, <2>3, <2>4, <2>5 DEF ByLengthInv, Settled
<1>11. CASE UNCHANGED vars
  BY <1>11 DEF vars, history, ByLengthInv, Creating, Settled
<1> QED BY <1>4, <1>5, <1>6, <1>7, <1>8, <1>9, <1>10, <1>11 DEF Next
-----------------------------------------------------------------------------
(* Versions that can be told apart                                         *)

(* The condition was there before.                                         *)
LEMMA ContentRemains ==
  ASSUME Inv, [Next]_vars, ByContent'
  PROVE  ByContent /\ file # Missing /\ file' # Missing
<1>1. versions \subseteq versions' /\ races \subseteq races' /\ eligible' = eligible
  BY Remembers
<1>2. Alone /\ "select" \notin races
  BY <1>1 DEF ByContent, Alone
<1>3. \A v, w \in versions : ToldApart(v, w) \/ ToldApart(w, v)
  BY <1>1 DEF ByContent, ToldApart
<1>4. file # Missing /\ file' # Missing
  <2>1. file \in versions /\ file' \in versions'
    BY Inductive DEF Inv, Recorded
  <2> QED BY <2>1, <1>2 DEF ByContent, Alone
<1> QED BY <1>2, <1>3, <1>4 DEF ByContent

(* The size and the beginning of the file the view holds do not tell       *)
(* another file from it, except one that has grown behind a clean seam.    *)
LEMMA Told ==
  ASSUME NEW v \in Seq(Bytes), NEW w \in Seq(Bytes), ToldApart(v, w) \/ ToldApart(w, v),
         Beginning(v) = Beginning(w)
  PROVE  /\ Len(v) = Len(w) => v = w
         /\ eligible /\ Len(v) < Len(w) => CleanSeam(v, w) /\ ~EndsLine(v)
<1>1. Len(v) \in Nat /\ Len(w) \in Nat
  OBVIOUS
<1>2. Len(v) = Len(w) => v = w
  BY <1>1 DEF ToldApart
<1>3. ASSUME eligible, Len(v) < Len(w) PROVE CleanSeam(v, w) /\ ~EndsLine(v)
  <2>1. Len(v) <= Len(w) /\ SubSeq(w, 1, Len(v)) = v /\ ~EndsLine(v) /\ w[Len(v) + 1] = NL
    BY <1>1, <1>3 DEF ToldApart, Begins
  <2>2. \A i \in 1 .. Len(v) : SubSeq(w, 1, Len(v))[i] = w[i]
    BY <1>1, <1>3
  <2> QED BY <2>1, <2>2, <1>3 DEF CleanSeam
<1> QED BY <1>2, <1>3

(* The rest of the file behind such a seam is what the view lacks.         *)
LEMMA TailCompletes ==
  ASSUME NEW T, NEW v \in Seq(T), NEW w \in Seq(T), CleanSeam(v, w), ~EndsLine(v)
  PROVE  Rows(v) \o ParseFrom(w, FindLineStart(w, Len(v))) = Rows(w)
<1> DEFINE k == Len(v)
           m == k + 1
<1>1. k \in Nat /\ m \in Nat /\ k < m /\ m <= Len(w) /\ w[m] = NL
  BY DEF CleanSeam
<1>2. \A i \in k + 1 .. m - 1 : w[i] # NL
  BY <1>1
<1>3. FindLineStart(w, k) = m
  <2> HIDE DEF m
  <2> QED BY <1>1, <1>2, LineStart
<1>4. Rows(w) = Rows(v) \o ParseFrom(w, m)
  BY Seam
<1> QED BY <1>3, <1>4

(* Every step keeps what it promises.                                      *)
LEMMA ContentStep ==
  ASSUME Inv, [Next]_vars, ByContent', ByContentInv
  PROVE  ByContentInv'
<1>1. ByContent /\ file # Missing /\ file' # Missing
  BY ContentRemains
<1>2. /\ TypeOK /\ Recorded /\ Undisturbed /\ NoTail /\ file \in versions
      /\ quiet \subseteq Connections /\ file \in Seq(Bytes)
  BY <1>1, KnownFile DEF Inv, Recorded, TypeOK
<1>3. \A c, d \in Connections : Busy(c) /\ Busy(d) => c = d
  BY <1>1, <1>2 DEF Undisturbed, ByContent, Alone
<1>12. SeamKnown /\ "two" \notin races
  BY <1>1 DEF Inv, ByContent, Alone
<1> USE DEF At
<1>4. CASE CreateQuery \/ CreateStat \/ CreateHead
  <2>1. /\ Creating' /\ UNCHANGED <<file, eligible, select, changes, quiet, versions, races>>
        /\ \A c \in Connections : At(c, "idle")
        /\ created' = "yes" => Holds(file)'
    <3>1. /\ Creating' /\ UNCHANGED <<file, eligible, select, changes, quiet, versions, races>>
          /\ \A c \in Connections : At(c, "idle")
          /\ created' = "yes" => /\ view'.rows = Rows(file) /\ view'.size = Len(file)
                                 /\ view'.head = Beginning(file)
      BY <1>1, <1>4, CreateSteps DEF ByContentInv
    <3> QED BY <3>1 DEF Holds
  <2>2. Settled' => Holds(file)' /\ file' \in versions'
    BY <2>1, <1>2 DEF Settled
  <2> QED BY <2>1, <2>2, <1>2 DEF ByContentInv
<1>5. ASSUME NEW c \in Connections, Stat(c) PROVE ByContentInv'
  <2>1. /\ select'[c].at = "sized" /\ select'[c].size = Len(file)
        /\ \A d \in Connections : d # c => select'[d] = select[d]
        /\ quiet' = quiet \cup {c} /\ created = "yes" /\ ~Busy(c)
        /\ UNCHANGED <<file, view, created, versions, changes, eligible>>
    BY <1>1, <1>2, <1>5, StatSteps
  <2>2. Settled' => Settled
    BY <2>1 DEF Settled, Busy
  <2>3. Creating'
    BY <2>1 DEF Creating
  <2>4. Settled' => \E v \in versions' : Holds(v)'
    BY <2>1, <2>2 DEF ByContentInv, Holds
  <2>5. ASSUME NEW d \in Connections
        PROVE  /\ At(d, "sized")' \/ At(d, "append")' => select'[d].size = Len(file')
               /\ At(d, "append")' => \E v \in versions' :
                    (/\ Holds(v) /\ Beginning(v) = Beginning(file)
                     /\ CleanSeam(v, file) /\ ~EndsLine(v))'
               /\ At(d, "rescan")' => view'.size = Len(file') /\ view'.head = Beginning(file')
    BY <2>1 DEF ByContentInv, Holds
  <2>6. \A d \in quiet' : At(d, "done")' => view'.rows = Rows(file')
    BY <2>1, <1>2 DEF ByContentInv
  <2> QED BY <2>3, <2>4, <2>5, <2>6 DEF ByContentInv
<1>6. ASSUME NEW c \in Connections, Decide(c) PROVE ByContentInv'
  <2>1. /\ Same /\ At(c, "sized")
        /\ \/ /\ Moves(c, "done") /\ UNCHANGED view
              /\ Beginning(file) = view.head /\ select[c].size = view.size
           \/ /\ Moves(c, "append") /\ UNCHANGED view
              /\ eligible /\ Beginning(file) = view.head /\ select[c].size > view.size
           \/ /\ Moves(c, "rescan") /\ view'.rows = view.rows
              /\ view'.size = select[c].size /\ view'.head = Beginning(file)
    BY <1>1, <1>2, <1>6, DecideSteps
  <2>2. created = "yes" /\ select[c].size = Len(file)
    BY <2>1, <1>2 DEF NoTail, ByContentInv
  <2>3. Creating'
    BY <2>1, <2>2 DEF Same, Creating
  <2>4. \A d \in Connections : d # c => ~Busy(d)
    BY <2>1, <1>3 DEF Busy
  <2>5. Settled
    BY <2>1, <2>2, <2>4 DEF Settled, Busy
  <2>6. PICK v \in versions : Holds(v)
    BY <2>5 DEF ByContentInv
  <2>7. v \in Seq(Bytes) /\ (ToldApart(v, file) \/ ToldApart(file, v))
    BY <1>1, <1>2 DEF ByContent, Alone, TypeOK
  <2>8. \A d \in Connections : d # c =>
          /\ select'[d] = select[d] /\ ~At(d, "sized") /\ ~At(d, "append") /\ ~At(d, "rescan")
    BY <2>1, <2>4 DEF Moves, Busy
  <2>9. \A d \in quiet : At(d, "done") => view.rows = Rows(file)
    BY DEF ByContentInv
  <2>10. CASE Moves(c, "done") /\ UNCHANGED view /\ Beginning(file) = view.head
              /\ select[c].size = view.size
    <3>1. v = file
      BY <2>2, <2>6, <2>7, <2>10, <1>2, Told DEF Holds
    <3>2. view'.rows = Rows(file') /\ Holds(v)'
      BY <2>1, <2>6, <2>10, <3>1 DEF Holds, Same
    <3>3. \A d \in Connections : ~At(d, "sized")' /\ ~At(d, "append")' /\ ~At(d, "rescan")'
      BY <2>8, <2>10 DEF Moves
    <3>4. v \in versions'
      BY <2>1 DEF Same
    <3> QED BY <2>3, <3>2, <3>3, <3>4 DEF ByContentInv
  <2>11. CASE Moves(c, "append") /\ UNCHANGED view /\ eligible
              /\ Beginning(file) = view.head /\ select[c].size > view.size
    <3>1. Len(v) < Len(file) /\ Beginning(v) = Beginning(file)
      BY <2>2, <2>6, <2>7, <2>11, <1>2 DEF Holds
    <3>2. CleanSeam(v, file) /\ ~EndsLine(v)
      BY <2>7, <2>11, <3>1, <1>2, Told
    <3>3. /\ v \in versions' /\ Holds(v)'
          /\ Beginning(v) = Beginning(file') /\ CleanSeam(v, file') /\ ~EndsLine(v)
      BY <2>1, <2>6, <2>11, <3>1, <3>2 DEF Holds, Same
    <3>4. \A d \in Connections : d # c =>
            ~At(d, "sized")' /\ ~At(d, "append")' /\ ~At(d, "rescan")'
      BY <2>8
    <3>5. /\ At(c, "append")' /\ select'[c].size = Len(file') /\ ~At(c, "rescan")'
          /\ ~At(c, "done")'
      BY <2>1, <2>2, <2>11 DEF Moves, Same
    <3>6. ASSUME NEW d \in Connections
          PROVE  /\ At(d, "sized")' \/ At(d, "append")' => select'[d].size = Len(file')
                 /\ At(d, "append")' => \E u \in versions' :
                      (/\ Holds(u) /\ Beginning(u) = Beginning(file)
                       /\ CleanSeam(u, file) /\ ~EndsLine(u))'
                 /\ At(d, "rescan")' => view'.size = Len(file') /\ view'.head = Beginning(file')
      BY <3>3, <3>4, <3>5
    <3>7. \A d \in quiet' : At(d, "done")' => view'.rows = Rows(file')
      BY <2>1, <2>8, <2>9, <2>11, <3>5, <1>2 DEF Same
    <3>8. Settled' => \E u \in versions' : Holds(u)'
      BY <3>3
    <3> QED BY <2>3, <3>6, <3>7, <3>8 DEF ByContentInv
  <2>12. CASE Moves(c, "rescan") /\ view'.rows = view.rows
              /\ view'.size = select[c].size /\ view'.head = Beginning(file)
    <3>1. \A d \in Connections : d # c =>
            ~At(d, "sized")' /\ ~At(d, "append")' /\ ~At(d, "rescan")'
      BY <2>8
    <3>2. At(c, "rescan")' /\ view'.size = Len(file') /\ view'.head = Beginning(file')
      BY <2>1, <2>2, <2>12 DEF Moves, Same
    <3>3. ~Settled'
      BY <3>2 DEF Settled
    <3>4. \A d \in quiet' : At(d, "done")' => view'.rows = Rows(file')
      BY <2>1, <2>8, <2>9, <2>12, <3>2, <1>2 DEF Same
    <3>5. ASSUME NEW d \in Connections
          PROVE  /\ ~At(d, "sized")' /\ ~At(d, "append")'
                 /\ At(d, "rescan")' => view'.size = Len(file') /\ view'.head = Beginning(file')
      BY <3>1, <3>2
    <3> QED BY <2>3, <3>3, <3>4, <3>5 DEF ByContentInv
  <2> QED BY <2>1, <2>10, <2>11, <2>12
<1>7. ASSUME NEW c \in Connections, AppendTail(c) \/ Rescan(c) PROVE ByContentInv'
  <2>1. Same /\ Moves(c, "done") /\ Busy(c)
    BY <1>2, <1>7, <1>12, AppendSteps, RescanSteps DEF Busy
  <2>2. Holds(file)'
    <3>1. CASE AppendTail(c)
      <4>1. /\ At(c, "append") /\ view'.size = select[c].size /\ view'.head = view.head
            /\ view'.rows = view.rows \o ParseFrom(file, FindLineStart(file, view.size))
        BY <1>2, <1>12, <3>1, AppendSteps
      <4>2. PICK v \in versions : Holds(v) /\ Beginning(v) = Beginning(file)
                                  /\ CleanSeam(v, file) /\ ~EndsLine(v)
        BY <4>1 DEF ByContentInv
      <4>3. v \in Seq(Bytes)
        BY <1>1, <1>2 DEF ByContent, Alone, TypeOK
      <4>4. Rows(v) \o ParseFrom(file, FindLineStart(file, Len(v))) = Rows(file)
        BY <1>2, <4>2, <4>3, TailCompletes
      <4>5. select[c].size = Len(file)
        BY <4>1 DEF ByContentInv
      <4>6. /\ view'.rows = Rows(file) /\ view'.size = Len(file)
            /\ view'.head = Beginning(file)
        BY <4>1, <4>2, <4>4, <4>5 DEF Holds
      <4> QED BY <2>1, <4>6 DEF Holds, Same
    <3>2. CASE Rescan(c)
      <4>1. /\ At(c, "rescan") /\ view'.rows = Rows(file)
            /\ view'.size = view.size /\ view'.head = view.head
        BY <1>2, <3>2, RescanSteps
      <4>2. view.size = Len(file) /\ view.head = Beginning(file)
        BY <4>1 DEF ByContentInv
      <4> QED BY <2>1, <4>1, <4>2 DEF Holds, Same
    <3> QED BY <1>7, <3>1, <3>2
  <2>3. \A d \in Connections : ~At(d, "sized")' /\ ~At(d, "append")' /\ ~At(d, "rescan")'
    BY <2>1, <1>3 DEF Moves, Busy
  <2>4. created' = "yes" /\ file' \in versions'
    BY <2>1, <1>2 DEF NoTail, Same, Busy
  <2>5. Creating'
    BY <2>4 DEF Creating
  <2>6. view'.rows = Rows(file')
    BY <2>2 DEF Holds
  <2> QED BY <2>2, <2>3, <2>4, <2>5, <2>6 DEF ByContentInv
<1>8. ASSUME NEW c \in Connections, SelectThrows(c) PROVE ByContentInv'
  BY <1>1, <1>8 DEF SelectThrows
<1>9. CASE Extend \/ Rewrite \/ Vanish
  <2>1. PICK new : Change(new)
    BY <1>9, Changes
  <2>2. /\ file' = new /\ quiet' = {} /\ UNCHANGED <<view, created, select>>
        /\ created \notin {"queried", "sized"} /\ \A c \in Connections : ~Busy(c)
    BY <2>1, ChangeRaces DEF ByContent, Alone
  <2>3. versions \subseteq versions'
    BY Remembers
  <2>4. Creating'
    BY <2>2 DEF Creating
  <2>5. \A d \in Connections : ~At(d, "sized")' /\ ~At(d, "append")' /\ ~At(d, "rescan")'
    BY <2>2 DEF Busy
  <2>6. Settled' => \E v \in versions' : Holds(v)'
    BY <2>2, <2>3 DEF ByContentInv, Settled, Holds
  <2> QED BY <2>2, <2>4, <2>5, <2>6 DEF ByContentInv
<1>10. CASE UNCHANGED vars
  BY <1>10 DEF vars, history, ByContentInv, Creating, Settled, Holds
<1> QED BY <1>4, <1>5, <1>6, <1>7, <1>8, <1>9, <1>10 DEF Next
-----------------------------------------------------------------------------
(* Files that grow by whole lines                                          *)

(* The condition was there before.                                         *)
LEMMA LinesRemain ==
  ASSUME Inv, [Next]_vars, ByLines'
  PROVE  ByLines /\ file # Missing /\ file' # Missing
<1>1. versions \subseteq versions' /\ races \subseteq races'
  BY Remembers
<1>2. ByLines
  BY <1>1 DEF ByLines, GrowsByLines
<1>3. file # Missing /\ file' # Missing
  <2>1. file \in versions /\ file' \in versions'
    BY Inductive DEF Inv, Recorded
  <2> QED BY <2>1, <1>2 DEF ByLines, GrowsByLines
<1> QED BY <1>2, <1>3

(* Of two versions, the longer one has grown from the other.               *)
LEMMA Grown ==
  ASSUME NEW T, NEW v \in Seq(T), NEW w \in Seq(T), Begins(v, w) \/ Begins(w, v), EndsLine(v)
  PROVE  /\ Len(v) = Len(w) => v = w
         /\ Len(v) < Len(w) => CleanSeam(v, w)
<1>1. Len(v) \in Nat /\ Len(w) \in Nat
  OBVIOUS
<1>2. SubSeq(v, 1, Len(v)) = v /\ SubSeq(w, 1, Len(w)) = w
  OBVIOUS
<1>3. Len(v) = Len(w) => v = w
  BY <1>1, <1>2 DEF Begins
<1>4. ASSUME Len(v) < Len(w) PROVE CleanSeam(v, w)
  <2>1. SubSeq(w, 1, Len(v)) = v
    BY <1>1, <1>4 DEF Begins
  <2>2. \A i \in 1 .. Len(v) : SubSeq(w, 1, Len(v))[i] = w[i]
    BY <1>1, <1>4
  <2> QED BY <2>1, <2>2, <1>4 DEF CleanSeam
<1> QED BY <1>3, <1>4

(* Behind a seam that ends a line the parser leaves the first line out.    *)
LEMMA TailIsPart ==
  ASSUME NEW T, NEW v \in Seq(T), NEW w \in Seq(T), CleanSeam(v, w), EndsLine(v),
         NEW rows \in Seq(Seq(T)), IsPartOf(rows, Rows(v))
  PROVE  IsPartOf(rows \o ParseFrom(w, FindLineStart(w, Len(v))), Rows(w))
<1> DEFINE k == Len(v)
<1>1. k \in Nat /\ k < Len(w) /\ Len(w) \in Nat
  BY DEF CleanSeam
<1>2. PICK m \in Nat : /\ k < m /\ m <= Len(w) /\ (m = Len(w) \/ w[m] = NL)
                       /\ FindLineStart(w, k) = m
  BY <1>1, LineStartExists
<1>3. PICK a \in Seq(Seq(T)) : Continues(w, k, m, a)
  <2>1. k <= m /\ (m = k \/ m = Len(w) \/ w[m] = NL)
    BY <1>1, <1>2
  <2> HIDE DEF k
  <2> QED BY <1>1, <1>2, <2>1, ParseOn
<1>4. Rows(w) = Rows(v) \o ParseFrom(w, k)
  BY Seam
<1> DEFINE b == ParseFrom(w, m)
           R == Seq(T)
<1>5. ParseFrom(w, k) = a \o b
  BY <1>3 DEF Continues
<1>6. Rows(v) \in Seq(R) /\ rows \in Seq(R) /\ a \in Seq(R) /\ b \in Seq(R)
  BY RowsType, ParseType
<1> HIDE DEF b, R
<1>7. IsPartOf(rows \o b, Rows(v) \o (a \o b))
  BY <1>6, PartExtended
<1> QED BY <1>2, <1>4, <1>5, <1>7 DEF b

(* Every step keeps what it promises.                                      *)
LEMMA LinesStep ==
  ASSUME Inv, [Next]_vars, ByLines', ByLinesInv
  PROVE  ByLinesInv'
<1>1. ByLines /\ file # Missing /\ file' # Missing
  BY LinesRemain
<1>2. /\ TypeOK /\ Recorded /\ Undisturbed /\ NoTail /\ file \in versions
      /\ quiet \subseteq Connections /\ file \in Seq(Bytes)
  BY <1>1, KnownFile DEF Inv, Recorded, TypeOK
<1>3. \A c, d \in Connections : Busy(c) /\ Busy(d) => c = d
  BY <1>1, <1>2 DEF Undisturbed, ByLines
<1>12. SeamKnown /\ "two" \notin races
  BY <1>1 DEF Inv, ByLines
<1> USE DEF At
<1>4. CASE CreateQuery \/ CreateStat \/ CreateHead
  <2>1. /\ Creating' /\ UNCHANGED <<file, eligible, select, changes, quiet, versions, races>>
        /\ \A c \in Connections : At(c, "idle")
        /\ created' = "yes" => view'.rows = Rows(file) /\ view'.size = Len(file)
    BY <1>1, <1>4, CreateSteps DEF ByLinesInv
  <2>2. Settled' => HoldsPart(file)' /\ file' \in versions'
    BY <2>1, <1>2, PartOfItself DEF Settled, HoldsPart
  <2> QED BY <2>1, <2>2, <1>2 DEF ByLinesInv
<1>5. ASSUME NEW c \in Connections, Stat(c) PROVE ByLinesInv'
  <2>1. /\ select'[c].at = "sized" /\ select'[c].size = Len(file)
        /\ \A d \in Connections : d # c => select'[d] = select[d]
        /\ quiet' = quiet \cup {c} /\ created = "yes" /\ ~Busy(c)
        /\ UNCHANGED <<file, view, created, versions, changes, eligible>>
    BY <1>1, <1>2, <1>5, StatSteps
  <2>2. Settled' => Settled
    BY <2>1 DEF Settled, Busy
  <2>3. Creating'
    BY <2>1 DEF Creating
  <2>4. Settled' => \E v \in versions' : HoldsPart(v)'
    BY <2>1, <2>2 DEF ByLinesInv, HoldsPart
  <2>5. ASSUME NEW d \in Connections
        PROVE  /\ At(d, "sized")' \/ At(d, "append")' => select'[d].size = Len(file')
               /\ At(d, "append")' => view'.size < Len(file')
               /\ At(d, "rescan")' => view'.size = Len(file')
    BY <2>1 DEF ByLinesInv
  <2>6. \A d \in quiet' : At(d, "done")' => IsPartOf(view'.rows, Rows(file'))
    BY <2>1, <1>2 DEF ByLinesInv
  <2> QED BY <2>3, <2>4, <2>5, <2>6 DEF ByLinesInv
<1>6. ASSUME NEW c \in Connections, Decide(c) PROVE ByLinesInv'
  <2>1. /\ Same /\ At(c, "sized")
        /\ \/ Moves(c, "done") /\ UNCHANGED view /\ select[c].size = view.size
           \/ Moves(c, "append") /\ UNCHANGED view /\ select[c].size > view.size
           \/ /\ Moves(c, "rescan") /\ view'.rows = view.rows
              /\ view'.size = select[c].size
    BY <1>1, <1>2, <1>6, DecideSteps
  <2>2. created = "yes" /\ select[c].size = Len(file)
    BY <2>1, <1>2 DEF NoTail, ByLinesInv
  <2>3. Creating'
    BY <2>1, <2>2 DEF Same, Creating
  <2>4. \A d \in Connections : d # c => ~Busy(d)
    BY <2>1, <1>3 DEF Busy
  <2>5. Settled
    BY <2>1, <2>2, <2>4 DEF Settled, Busy
  <2>6. PICK v \in versions : HoldsPart(v)
    BY <2>5 DEF ByLinesInv
  <2>7. v \in Seq(Bytes) /\ (Begins(v, file) \/ Begins(file, v)) /\ EndsLine(v)
    BY <1>1, <1>2 DEF ByLines, GrowsByLines, TypeOK
  <2>8. \A d \in Connections : d # c =>
          /\ select'[d] = select[d]
          /\ ~At(d, "sized")' /\ ~At(d, "append")' /\ ~At(d, "rescan")'
    BY <2>1, <2>4 DEF Moves, Busy
  <2>9. \A d \in quiet : At(d, "done") => IsPartOf(view.rows, Rows(file))
    BY DEF ByLinesInv
  <2>10. CASE Moves(c, "done") /\ UNCHANGED view /\ select[c].size = view.size
    <3>1. v = file
      BY <2>2, <2>6, <2>7, <2>10, <1>2, Grown DEF HoldsPart
    <3>2. IsPartOf(view'.rows, Rows(file')) /\ HoldsPart(v)' /\ v \in versions'
      BY <2>1, <2>6, <2>10, <3>1 DEF HoldsPart, Same
    <3>3. \A d \in Connections : ~At(d, "sized")' /\ ~At(d, "append")' /\ ~At(d, "rescan")'
      BY <2>8, <2>10 DEF Moves
    <3> QED BY <2>3, <3>2, <3>3 DEF ByLinesInv
  <2>11. CASE Moves(c, "append") /\ UNCHANGED view /\ select[c].size > view.size
    <3>1. view.size < Len(file)
      BY <2>2, <2>11, <1>2 DEF TypeOK
    <3>2. v \in versions' /\ HoldsPart(v)'
      BY <2>1, <2>6, <2>11 DEF HoldsPart, Same
    <3>3. /\ At(c, "append")' /\ select'[c].size = Len(file') /\ view'.size < Len(file')
          /\ ~At(c, "rescan")' /\ ~At(c, "done")'
      BY <2>1, <2>2, <2>11, <3>1 DEF Moves, Same
    <3>4. ASSUME NEW d \in Connections
          PROVE  /\ At(d, "sized")' \/ At(d, "append")' => select'[d].size = Len(file')
                 /\ At(d, "append")' => view'.size < Len(file')
                 /\ At(d, "rescan")' => view'.size = Len(file')
      BY <2>8, <3>3
    <3>5. \A d \in quiet' : At(d, "done")' => IsPartOf(view'.rows, Rows(file'))
      BY <2>1, <2>8, <2>9, <2>11, <3>3, <1>2 DEF Same
    <3> QED BY <2>3, <3>2, <3>4, <3>5 DEF ByLinesInv
  <2>12. CASE Moves(c, "rescan") /\ view'.rows = view.rows /\ view'.size = select[c].size
    <3>1. At(c, "rescan")' /\ view'.size = Len(file')
      BY <2>1, <2>2, <2>12 DEF Moves, Same
    <3>2. ~Settled'
      BY <3>1 DEF Settled
    <3>3. \A d \in quiet' : At(d, "done")' => IsPartOf(view'.rows, Rows(file'))
      BY <2>1, <2>8, <2>9, <2>12, <3>1, <1>2 DEF Same
    <3>4. ASSUME NEW d \in Connections
          PROVE  /\ ~At(d, "sized")' /\ ~At(d, "append")'
                 /\ At(d, "rescan")' => view'.size = Len(file')
      BY <2>8, <3>1
    <3> QED BY <2>3, <3>2, <3>3, <3>4 DEF ByLinesInv
  <2> QED BY <2>1, <2>10, <2>11, <2>12
<1>7. ASSUME NEW c \in Connections, AppendTail(c) \/ Rescan(c) PROVE ByLinesInv'
  <2>1. Same /\ Moves(c, "done") /\ Busy(c)
    BY <1>2, <1>7, <1>12, AppendSteps, RescanSteps DEF Busy
  <2>2. created = "yes"
    BY <2>1, <1>2 DEF NoTail, Busy
  <2>3. view'.size = Len(file) /\ IsPartOf(view'.rows, Rows(file))
    <3>1. CASE AppendTail(c)
      <4>1. /\ At(c, "append") /\ view'.size = select[c].size
            /\ view'.rows = view.rows \o ParseFrom(file, FindLineStart(file, view.size))
        BY <1>2, <1>12, <3>1, AppendSteps
      <4>2. Settled
        BY <4>1, <2>1, <2>2, <1>3 DEF Settled, Busy
      <4>3. PICK v \in versions : HoldsPart(v)
        BY <4>2 DEF ByLinesInv
      <4>4. v \in Seq(Bytes) /\ (Begins(v, file) \/ Begins(file, v)) /\ EndsLine(v)
        BY <1>1, <1>2 DEF ByLines, GrowsByLines, TypeOK
      <4>5. select[c].size = Len(file) /\ view.size < Len(file) /\ Len(v) = view.size
        BY <4>1, <4>3 DEF ByLinesInv, HoldsPart
      <4>6. CleanSeam(v, file)
        BY <4>4, <4>5, <1>2, Grown
      <4>7. view.rows \in Seq(Seq(Bytes)) /\ IsPartOf(view.rows, Rows(v))
        BY <4>3, <1>2 DEF TypeOK, ViewType, HoldsPart
      <4> DEFINE rows == view.rows
      <4> HIDE DEF rows
      <4>8. rows \in Seq(Seq(Bytes)) /\ IsPartOf(rows, Rows(v))
        BY <4>7 DEF rows
      <4>9. IsPartOf(rows \o ParseFrom(file, FindLineStart(file, Len(v))), Rows(file))
        BY <4>4, <4>6, <4>8, <1>2, TailIsPart
      <4> QED BY <4>1, <4>5, <4>9 DEF rows
    <3>2. CASE Rescan(c)
      <4>1. /\ At(c, "rescan") /\ view'.rows = Rows(file) /\ view'.size = view.size
        BY <1>2, <3>2, RescanSteps
      <4>2. view.size = Len(file)
        BY <4>1 DEF ByLinesInv
      <4> QED BY <4>1, <4>2, PartOfItself
    <3> QED BY <1>7, <3>1, <3>2
  <2>4. HoldsPart(file)' /\ file' \in versions' /\ IsPartOf(view'.rows, Rows(file'))
    BY <2>1, <2>3, <1>2 DEF HoldsPart, Same
  <2>5. \A d \in Connections : ~At(d, "sized")' /\ ~At(d, "append")' /\ ~At(d, "rescan")'
    BY <2>1, <1>3 DEF Moves, Busy
  <2>6. Creating'
    BY <2>1, <2>2 DEF Creating, Same
  <2> QED BY <2>4, <2>5, <2>6 DEF ByLinesInv
<1>8. ASSUME NEW c \in Connections, SelectThrows(c) PROVE ByLinesInv'
  BY <1>1, <1>8 DEF SelectThrows
<1>9. CASE Extend \/ Rewrite \/ Vanish
  <2>1. PICK new : Change(new)
    BY <1>9, Changes
  <2>2. /\ file' = new /\ quiet' = {} /\ UNCHANGED <<view, created, select>>
        /\ created \notin {"queried", "sized"} /\ \A c \in Connections : ~Busy(c)
    BY <2>1, ChangeRaces DEF ByLines
  <2>3. versions \subseteq versions'
    BY Remembers
  <2>4. Creating'
    BY <2>2 DEF Creating
  <2>5. \A d \in Connections : ~At(d, "sized")' /\ ~At(d, "append")' /\ ~At(d, "rescan")'
    BY <2>2 DEF Busy
  <2>6. Settled' => \E v \in versions' : HoldsPart(v)'
    BY <2>2, <2>3 DEF ByLinesInv, Settled, HoldsPart
  <2> QED BY <2>2, <2>4, <2>5, <2>6 DEF ByLinesInv
<1>10. CASE UNCHANGED vars
  BY <1>10 DEF vars, history, ByLinesInv, Creating, Settled, HoldsPart
<1> QED BY <1>4, <1>5, <1>6, <1>7, <1>8, <1>9, <1>10 DEF Next
-----------------------------------------------------------------------------
Safe == /\ ByLength => ByLengthInv
        /\ ByContent => ByContentInv
        /\ ByLines => ByLinesInv

(* A view that is not created promises nothing.                            *)
LEMMA SafeAtFirst == Init => Safe
BY DEF Init, Safe, ByLengthInv, ByContentInv, ByLinesInv, Creating, Settled, At

(* Every step keeps all three.                                             *)
LEMMA SafeKept == Inv /\ Safe /\ [Next]_vars => Safe'
BY LengthRemains, LengthStep, ContentRemains, ContentStep, LinesRemain, LinesStep DEF Safe

(* The conditions under which a SELECT answers with the rows of the file   *)
(* are those of one of the first two ways.                                 *)
LEMMA Current == Inv /\ Safe => SelectIsCurrent
<1> SUFFICES ASSUME Inv, Safe,
                    Missing \notin versions, races \cap {"create", "two"} = {},
                    "select" \in races => ~eligible /\ Cardinality(versions) = changes + 1,
                    \A v, w \in versions : ToldApart(v, w) \/ ToldApart(w, v)
             PROVE  \A c \in quiet : At(c, "done") => view.rows = Rows(file)
  BY DEF SelectIsCurrent
<1>1. Alone
  BY DEF Alone
<1>2. CASE "select" \notin races
  BY <1>1, <1>2 DEF ByContent, Safe, ByContentInv
<1>3. CASE "select" \in races
  <2>1. \A v \in versions : Len(v) \in Nat
    BY DEF Inv, TypeOK
  <2>2. \A v, w \in versions : v = w \/ Len(v) # Len(w)
    BY <1>3, <2>1 DEF ToldApart
  <2> QED BY <1>1, <1>3, <2>2 DEF ByLength, Safe, ByLengthInv
<1> QED BY <1>2, <1>3

(* A SELECT under which the file has not changed answers with the rows of  *)
(* the file, for every number of connections, every file and every order   *)
(* of its changes in which the versions can be told apart.                 *)
THEOREM CurrentWhenToldApart == Spec => []SelectIsCurrent
BY Initial, Inductive, SafeAtFirst, SafeKept, Current, PTL DEF Spec

(* While the file grows by whole lines, a view that parses only what was   *)
(* appended leaves lines out but never has one twice or one that the file  *)
(* does not have.                                                          *)
THEOREM NothingInvented == Spec => []OnlyFileRows
<1>1. Safe => OnlyFileRows
  BY DEF Safe, OnlyFileRows, ByLines, ByLinesInv
<1> QED BY Initial, Inductive, SafeAtFirst, SafeKept, <1>1, PTL DEF Spec
-----------------------------------------------------------------------------
(* What a query returns.                                                   *)
Value   == [type : ResultTypes \cup {"SQLNULL"}, null : BOOLEAN, bits : Int]
TextNames == ResultTypes \cup {"", "NULL"} \cup {t.name : t \in Range(query.tables)}
Text    == [of : TextNames, bits : Int]

Returned == Answer(query)
WithShown == [Returned EXCEPT !.rows = Shown]

(* Every row has a cell for each column, and a value that is not NULL has the type its column is boxed as. *)
RowsOf(types)  == [DOMAIN types -> Value]
Typed(rows, types) ==
  rows \in Seq(RowsOf(types)) /\ \A r \in DOMAIN rows, c \in DOMAIN types : rows[r][c].null \/ rows[r][c].type = BoxedType(types[c])

IsAnswer(a) ==
  /\ a = [types |-> a.types, rows |-> a.rows, chunks |-> a.chunks]
  /\ a.types \in Seq(ResultTypes) /\ a.chunks \in Seq(Seq([DOMAIN a.types -> Cell]))
  /\ Typed(a.rows, a.types)
  /\ a.chunks # <<>> => a.rows = <<>>

(* What has a value for each place of a sequence is a sequence.            *)
LEMMA AlongSequence ==
  ASSUME NEW S, NEW T, NEW s \in Seq(S), NEW f \in [DOMAIN s -> T]
  PROVE  f \in Seq(T) /\ Len(f) = Len(s) /\ DOMAIN f = DOMAIN s
<1>1. DOMAIN s = 1 .. Len(s) /\ Len(s) \in Nat
  OBVIOUS
<1>2. f \in [1 .. Len(s) -> T]
  BY <1>1
<1>3. f \in Seq(T)
  BY <1>1, <1>2, SeqDef
<1> QED BY <1>1, <1>2, <1>3

LEMMA FilledType ==
  ASSUME NEW T, NEW chunks \in Seq(Seq(T))
  PROVE  Filled(chunks) \in Seq(Seq(T))
<1> DEFINE s == [k \in DOMAIN chunks |-> IF chunks[k] = <<>> THEN <<>> ELSE <<chunks[k]>>]
<1>1. s \in Seq(Seq(Seq(T)))
  <2>1. ASSUME NEW k \in DOMAIN chunks PROVE s[k] \in Seq(Seq(T))
    <3>1. chunks[k] \in Seq(T)
      OBVIOUS
    <3>2. <<>> \in Seq(Seq(T)) /\ <<chunks[k]>> \in Seq(Seq(T))
      BY <3>1
    <3> QED BY <3>2
  <2>2. s \in [DOMAIN chunks -> Seq(Seq(T))]
    BY <2>1
  <2> HIDE DEF s
  <2> QED BY <2>2, AlongSequence
<1> HIDE DEF s
<1> QED BY <1>1, FlattenType DEF Filled, s

LEMMA BoxedIsTyped ==
  ASSUME NEW types \in Seq(ResultTypes), NEW cells \in Seq([DOMAIN types -> Cell])
  PROVE  Typed([r \in DOMAIN cells |-> [c \in DOMAIN types |-> Boxed(cells[r][c], types[c])]], types)
<1> DEFINE rows == [r \in DOMAIN cells |-> [c \in DOMAIN types |-> Boxed(cells[r][c], types[c])]]
<1>1. ASSUME NEW r \in DOMAIN cells, NEW c \in DOMAIN types
      PROVE  /\ Boxed(cells[r][c], types[c]) \in Value
             /\ Boxed(cells[r][c], types[c]).null \/ Boxed(cells[r][c], types[c]).type = BoxedType(types[c])
  <2>1. cells[r][c] \in Cell /\ types[c] \in ResultTypes
    OBVIOUS
  <2>2. CASE cells[r][c].null
    <3>1. Boxed(cells[r][c], types[c]) = [type |-> "SQLNULL", null |-> TRUE, bits |-> 0]
      BY <2>2 DEF Boxed
    <3> QED BY <3>1 DEF Value
  <2>3. CASE ~cells[r][c].null
    <3>1. Boxed(cells[r][c], types[c]) = [type |-> BoxedType(types[c]), null |-> FALSE, bits |-> cells[r][c].bits]
      BY <2>3 DEF Boxed
    <3>2. BoxedType(types[c]) \in ResultTypes /\ cells[r][c].bits \in Int
      BY <2>1 DEF BoxedType, ResultTypes, Cell
    <3> QED BY <3>1, <3>2 DEF Value
  <2> QED BY <2>2, <2>3
<1>2. ASSUME NEW r \in DOMAIN cells PROVE rows[r] \in RowsOf(types)
  BY <1>1 DEF RowsOf
<1>3. rows \in Seq(RowsOf(types)) /\ DOMAIN rows = DOMAIN cells
  <2>1. rows \in [DOMAIN cells -> RowsOf(types)]
    BY <1>2
  <2> HIDE DEF rows
  <2> QED BY <2>1, AlongSequence
<1> QED BY <1>1, <1>3 DEF Typed

LEMMA CellsType ==
  ASSUME NEW T, NEW result, result.chunks \in Seq(Seq(T))
  PROVE  Cells(result) \in Seq(T)
BY FlattenType DEF Cells

LEMMA AnswerType ==
  ASSUME NEW q, IsClientQuery(q)
  PROVE  IsAnswer(Answer(q))
<1> DEFINE types    == Retagged(q.display, q.types)
           chunks   == Filled(q.chunks)
           streamed == [types |-> types, rows |-> <<>>, chunks |-> chunks]
           boxed    == [streamed EXCEPT !.rows = MaterialisedRows(streamed), !.chunks = <<>>]
           cells    == Cells(streamed)
<1>1. types \in Seq(ResultTypes) /\ DOMAIN types = DOMAIN q.types
  <2>1. ASSUME NEW c \in DOMAIN q.types PROVE types[c] \in ResultTypes
    <3>1. q.types[c] \in ResultTypes
      BY DEF IsClientQuery
    <3>2. types[c] = IF Fits(q.display[c], q.types[c]) THEN q.display[c] ELSE q.types[c]
      BY DEF Retagged
    <3> QED BY <3>1, <3>2 DEF Fits, ResultTypes
  <2>2. types = [c \in DOMAIN q.types |-> types[c]]
    BY DEF Retagged
  <2> HIDE DEF types
  <2>3. types \in [DOMAIN q.types -> ResultTypes]
    BY <2>1, <2>2
  <2> QED BY <2>3, AlongSequence DEF IsClientQuery
<1>2. chunks \in Seq(Seq([DOMAIN types -> Cell]))
  BY <1>1, FilledType DEF IsClientQuery
<1>3. cells \in Seq([DOMAIN types -> Cell])
  <2>1. streamed.chunks = chunks
    OBVIOUS
  <2> HIDE DEF types, chunks, streamed
  <2> QED BY <1>2, <2>1, CellsType
<1>4. Typed(MaterialisedRows(streamed), types)
  <2>1. streamed.rows = <<>> /\ streamed.types = types
    OBVIOUS
  <2>2. MaterialisedRows(streamed) = [r \in DOMAIN cells |-> [c \in DOMAIN types |-> Boxed(cells[r][c], types[c])]]
    BY <2>1 DEF MaterialisedRows
  <2> HIDE DEF types, cells, streamed
  <2> QED BY <1>1, <1>3, <2>2, BoxedIsTyped
<1>5. Typed(<<>>, types)
  BY DEF Typed
<1>6. IsAnswer(streamed)
  <2> HIDE DEF types, chunks
  <2> QED BY <1>1, <1>2, <1>5 DEF IsAnswer
<1>7. IsAnswer(boxed)
  <2> DEFINE rows == MaterialisedRows(streamed)
  <2>1. boxed = [types |-> types, rows |-> rows, chunks |-> <<>>] /\ Typed(rows, types)
    <3>1. boxed = [types |-> types, rows |-> rows, chunks |-> <<>>]
      <4>1. streamed = [types |-> types, rows |-> <<>>, chunks |-> chunks]
        OBVIOUS
      <4>2. boxed = [streamed EXCEPT !.rows = rows, !.chunks = <<>>]
        OBVIOUS
      <4> HIDE DEF types, chunks, rows, streamed, boxed
      <4> QED BY <4>1, <4>2
    <3> QED BY <3>1, <1>4
  <2> HIDE DEF types, boxed, rows
  <2> QED BY <1>1, <2>1 DEF IsAnswer
<1>8. q.affected >= 0 => IsAnswer(Counted(q.affected))
  <2> SUFFICES ASSUME q.affected \in Int PROVE IsAnswer(Counted(q.affected))
    BY DEF IsClientQuery
  <2> DEFINE b == <<"BIGINT">>
             v == Boxed([null |-> FALSE, bits |-> q.affected], "BIGINT")
             rows == <<<<v>>>>
  <2>1. v = [type |-> "BIGINT", null |-> FALSE, bits |-> q.affected] /\ BoxedType("BIGINT") = "BIGINT"
    BY DEF Boxed, BoxedType
  <2>2. v \in Value /\ v.type = BoxedType("BIGINT")
    <3> HIDE DEF v
    <3> QED BY <2>1 DEF Value, ResultTypes
  <2> HIDE DEF v
  <2>3. Typed(rows, b)
    <3>1. <<v>> \in RowsOf(b)
      BY <2>2 DEF RowsOf
    <3>2. rows \in Seq(RowsOf(b))
      BY <3>1
    <3>3. \A r \in DOMAIN rows, c \in DOMAIN b : rows[r][c] = v /\ b[c] = "BIGINT"
      OBVIOUS
    <3> QED BY <2>2, <3>2, <3>3 DEF Typed
  <2>4. Counted(q.affected) = [types |-> b, chunks |-> <<>>, rows |-> rows]
    BY DEF Counted, v
  <2> HIDE DEF rows
  <2>5. b \in Seq(ResultTypes)
    BY DEF ResultTypes
  <2> HIDE DEF b
  <2> QED BY <2>3, <2>4, <2>5 DEF IsAnswer
<1>9. Answer(q) = IF q.affected >= 0 /\ streamed.chunks = <<>> THEN Counted(q.affected) ELSE IF q.combined THEN boxed ELSE streamed
  BY DEF Answer
<1> HIDE DEF streamed, boxed
<1> QED BY <1>6, <1>7, <1>8, <1>9

(* The cells of the answer, row by row.                                    *)
LEMMA ShownType ==
  ASSUME IsClientQuery(query)
  PROVE  /\ Typed(Shown, Returned.types)
         /\ Cells(Returned) \in Seq([DOMAIN Returned.types -> Cell])
         /\ Returned.chunks = <<>> => Shown = Returned.rows
         /\ Returned.chunks # <<>> => 
              Shown = [r \in DOMAIN Cells(Returned) |-> [c \in DOMAIN Returned.types |-> Boxed(Cells(Returned)[r][c], Returned.types[c])]]
         /\ Returned.rows = <<>> => 
              Shown = [r \in DOMAIN Cells(Returned) |-> [c \in DOMAIN Returned.types |-> Boxed(Cells(Returned)[r][c], Returned.types[c])]]
         /\ Returned.rows # <<>> => Shown = Returned.rows
<1> DEFINE a == Returned
           cells == Cells(a)
           boxed == [r \in DOMAIN cells |-> [c \in DOMAIN a.types |-> Boxed(cells[r][c], a.types[c])]]
<1>1. IsAnswer(a)
  BY AnswerType DEF Returned
<1>2. cells \in Seq([DOMAIN a.types -> Cell])
  BY <1>1, CellsType DEF IsAnswer
<1>3. Shown = IF a.rows # <<>> THEN a.rows ELSE boxed
  BY DEF Shown, Returned
<1>4. Typed(boxed, a.types)
  BY <1>1, <1>2, BoxedIsTyped DEF IsAnswer
<1>5. a.chunks = <<>> => cells = <<>>
  BY FlattenEmpty DEF Cells
<1>6. cells = <<>> => boxed = <<>>
  OBVIOUS
<1> HIDE DEF a, cells, boxed
<1>7. a.chunks = <<>> => Shown = a.rows
  BY <1>3, <1>5, <1>6
<1>8. Typed(Shown, a.types)
  BY <1>1, <1>3, <1>4 DEF IsAnswer
<1>9. a.chunks # <<>> => Shown = boxed
  BY <1>1, <1>3 DEF IsAnswer
<1> QED BY <1>2, <1>3, <1>7, <1>8, <1>9 DEF a, cells, boxed

(* However the result is kept, these are its rows, and boxing all of them  *)
(* changes nothing but that they are kept.                                 *)
LEMMA KeptRows ==
  ASSUME IsClientQuery(query), NEW result \in {Returned, WithShown}
  PROVE  /\ result.types = Returned.types /\ result.chunks = Returned.chunks
         /\ Cells(result) = Cells(Returned)
         /\ MaterialisedRows(result) = Shown
         /\ RowCount(result) = Len(Shown)
         /\ result.chunks = <<>> => result.rows = Shown
         /\ [result EXCEPT !.rows = Shown] = WithShown
<1> DEFINE a == Returned
           boxed == [r \in DOMAIN Cells(a) |-> [c \in DOMAIN a.types |-> Boxed(Cells(a)[r][c], a.types[c])]]
<1>1. IsAnswer(a)
  BY AnswerType DEF Returned
<1>2. a = [types |-> a.types, rows |-> a.rows, chunks |-> a.chunks]
  BY <1>1 DEF IsAnswer
<1>3. WithShown = [types |-> a.types, rows |-> Shown, chunks |-> a.chunks]
  <2> HIDE DEF a
  <2> QED BY <1>2 DEF WithShown, a
<1>4. /\ result.types = a.types /\ result.chunks = a.chunks /\ result.rows \in {a.rows, Shown}
      /\ result = [types |-> a.types, rows |-> result.rows, chunks |-> a.chunks]
  <2>1. CASE result = a
    <3> HIDE DEF a
    <3> QED BY <2>1, <1>2
  <2>2. CASE result = WithShown
    BY <2>2, <1>3
  <2> QED BY <2>1, <2>2
<1>5. Cells(result) = Cells(a)
  BY <1>4 DEF Cells
<1>6. /\ a.rows # <<>> => Shown = a.rows
      /\ a.rows = <<>> => Shown = boxed
      /\ a.chunks = <<>> => Shown = a.rows
      /\ Cells(a) \in Seq([DOMAIN a.types -> Cell])
  BY ShownType
<1>7. MaterialisedRows(result) = IF result.rows # <<>> THEN result.rows ELSE boxed
  BY <1>4, <1>5 DEF MaterialisedRows
<1>8. Shown = <<>> => a.rows = <<>>
  BY <1>6
<1>9. MaterialisedRows(result) = Shown
  <2> HIDE DEF boxed, a
  <2> QED BY <1>4, <1>6, <1>7, <1>8
<1>10. RowCount(result) = Len(Shown)
  <2>1. CASE result.rows # <<>>
    <3>1. result.rows = Shown
      BY <2>1, <1>7, <1>9
    <3> QED BY <2>1, <3>1 DEF RowCount
  <2>2. CASE result.rows = <<>>
    <3>1. Shown = boxed
      BY <2>2, <1>7, <1>9
    <3>2. Len(boxed) = Len(Cells(a))
      BY <1>6
    <3> QED BY <2>2, <3>1, <3>2, <1>5 DEF RowCount
  <2> QED BY <2>1, <2>2
<1>11. [result EXCEPT !.rows = Shown] = WithShown
  <2> HIDE DEF a
  <2> QED BY <1>3, <1>4
<1>12. result.chunks = <<>> => result.rows = Shown
  BY <1>4, <1>6
<1> QED BY <1>4, <1>5, <1>9, <1>10, <1>11, <1>12
-----------------------------------------------------------------------------
(* What is built from a result.                                            *)

LEMMA NullsType ==
  ASSUME NEW D, NEW c \in D, NEW chunk \in Seq([D -> Cell])
  PROVE  NullsOf(chunk, c) \in Seq({0, 1}) /\ DOMAIN NullsOf(chunk, c) = DOMAIN chunk /\ Len(NullsOf(chunk, c)) = Len(chunk)
<1>1. NullsOf(chunk, c) \in [DOMAIN chunk -> {0, 1}]
  BY DEF NullsOf
<1> QED BY <1>1, AlongSequence

(* The mask of all chunks is that of their rows.                           *)
LEMMA NullsOfAll ==
  ASSUME NEW D, NEW c \in D, NEW chunks \in Seq(Seq([D -> Cell]))
  PROVE  FlattenSeq([k \in DOMAIN chunks |-> NullsOf(chunks[k], c)]) = NullsOf(FlattenSeq(chunks), c)
<1> DEFINE R == [D -> Cell]
           Masks(s) == [k \in DOMAIN s |-> NullsOf(s[k], c)]
           Alike == {s \in Seq(Seq(R)) : FlattenSeq(Masks(s)) = NullsOf(FlattenSeq(s), c)}
<1>1. <<>> \in Alike
  <2>1. Masks(<<>>) = <<>> /\ NullsOf(<<>>, c) = <<>>
    BY DEF NullsOf
  <2> QED BY <2>1, FlattenEmpty
<1>2. ASSUME NEW s \in Seq(Seq(R)) PROVE Masks(s) \in Seq(Seq({0, 1})) /\ DOMAIN Masks(s) = DOMAIN s /\ Len(Masks(s)) = Len(s)
  <2>1. ASSUME NEW k \in DOMAIN s PROVE NullsOf(s[k], c) \in Seq({0, 1})
    <3>1. s[k] \in Seq(R)
      OBVIOUS
    <3> QED BY <3>1, NullsType
  <2>2. Masks(s) \in [DOMAIN s -> Seq({0, 1})]
    BY <2>1
  <2> HIDE DEF Masks, R
  <2> QED BY <2>2, AlongSequence
<1>3. ASSUME NEW s \in Seq(Seq(R)), NEW e \in Seq(R), s \in Alike PROVE Append(s, e) \in Alike
  <2> DEFINE m == Masks(s)
             n == NullsOf(e, c)
             x == FlattenSeq(s)
  <2>1. n \in Seq({0, 1}) /\ DOMAIN n = DOMAIN e /\ Len(n) = Len(e) /\ x \in Seq(R)
    <3>1. n \in Seq({0, 1}) /\ DOMAIN n = DOMAIN e /\ Len(n) = Len(e)
      BY NullsType
    <3>2. x \in Seq(R)
      BY FlattenType
    <3> QED BY <3>1, <3>2
  <2>2. m \in Seq(Seq({0, 1})) /\ DOMAIN m = DOMAIN s /\ Len(m) = Len(s)
    BY <1>2
  <2>3. Append(s, e) \in Seq(Seq(R)) /\ DOMAIN Append(s, e) = 1 .. Len(s) + 1 /\ Append(s, e)[Len(s) + 1] = e
        /\ \A k \in DOMAIN s : Append(s, e)[k] = s[k] /\ DOMAIN s = 1 .. Len(s) /\ Len(s) \in Nat
    OBVIOUS
  <2>4. Masks(Append(s, e)) = Append(m, n)
    <3> DEFINE u == Masks(Append(s, e))
               w == Append(m, n)
    <3>1. w \in Seq(Seq({0, 1})) /\ Len(w) = Len(s) + 1 /\ w[Len(s) + 1] = n /\ \A k \in 1 .. Len(s) : w[k] = m[k]
      <4> HIDE DEF m, n
      <4> QED BY <2>1, <2>2
    <3>2. u \in Seq(Seq({0, 1})) /\ Len(u) = Len(Append(s, e)) /\ DOMAIN u = DOMAIN Append(s, e)
      BY <2>3, <1>2
    <3>3. Len(Append(s, e)) = Len(s) + 1
      OBVIOUS
    <3>4. u[Len(s) + 1] = n
      BY <2>3
    <3>5. ASSUME NEW k \in 1 .. Len(s) PROVE u[k] = m[k]
      <4>1. k \in DOMAIN s /\ k \in DOMAIN Append(s, e) /\ Append(s, e)[k] = s[k]
        BY <2>3
      <4> QED BY <4>1
    <3> HIDE DEF u, w, m, n
    <3>6. \A k \in 1 .. Len(s) + 1 : u[k] = w[k]
      <4>1. \A k \in 1 .. Len(s) + 1 : k \in 1 .. Len(s) \/ k = Len(s) + 1
        BY <2>3
      <4> QED BY <3>1, <3>4, <3>5, <4>1
    <3>7. u = w
      BY <3>1, <3>2, <3>3, <3>6
    <3> QED BY <3>7 DEF u, w
  <2>5. FlattenSeq(Append(m, n)) = FlattenSeq(m) \o n
    <3> HIDE DEF m, n
    <3> QED BY <2>1, <2>2, FlattenAppend
  <2>6. FlattenSeq(Append(s, e)) = x \o e
    BY FlattenAppend
  <2>7. NullsOf(x \o e, c) = NullsOf(x, c) \o n
    <3> DEFINE v == NullsOf(x, c)
    <3> HIDE DEF x
    <3>1. v \in Seq({0, 1}) /\ DOMAIN v = DOMAIN x /\ Len(v) = Len(x)
      BY <2>1, NullsType
    <3>2. x \o e \in Seq(R) /\ Len(x \o e) = Len(x) + Len(e)
      BY <2>1
    <3>3. NullsOf(x \o e, c) \in Seq({0, 1}) /\ Len(NullsOf(x \o e, c)) = Len(x) + Len(e)
      BY <3>2, NullsType
    <3>4. ASSUME NEW i \in 1 .. Len(x) + Len(e) PROVE NullsOf(x \o e, c)[i] = (v \o n)[i]
      <4>1. CASE i <= Len(x)
        <5>1. (x \o e)[i] = x[i] /\ i \in DOMAIN x /\ i \in DOMAIN (x \o e)
          BY <2>1, <4>1, <3>2
        <5>2. (v \o n)[i] = v[i]
          <6> HIDE DEF v, n
          <6> QED BY <2>1, <3>1, <4>1
        <5> QED BY <5>1, <5>2 DEF NullsOf
      <4>2. CASE i > Len(x)
        <5>1. (x \o e)[i] = e[i - Len(x)] /\ i - Len(x) \in DOMAIN e /\ i \in DOMAIN (x \o e)
          BY <2>1, <4>2, <3>2
        <5>2. (v \o n)[i] = n[i - Len(x)]
          <6>1. \A p, q \in Seq({0, 1}) : \A j \in 1 .. Len(p) + Len(q) : j > Len(p) => (p \o q)[j] = q[j - Len(p)]
            OBVIOUS
          <6>2. v \in Seq({0, 1}) /\ n \in Seq({0, 1}) /\ i \in 1 .. Len(v) + Len(n) /\ i > Len(v) /\ Len(v) = Len(x)
            BY <2>1, <3>1, <4>2
          <6> HIDE DEF v, n
          <6> QED BY <6>1, <6>2
        <5> QED BY <5>1, <5>2 DEF NullsOf
      <4>3. Len(x) \in Nat /\ Len(e) \in Nat
        BY <2>1
      <4>4. i <= Len(x) \/ i > Len(x)
        BY <4>3
      <4> HIDE DEF v, n
      <4> QED BY <4>1, <4>2, <4>4
    <3> DEFINE y == NullsOf(x \o e, c)
               z == v \o n
    <3>5. z \in Seq({0, 1}) /\ Len(z) = Len(x) + Len(e)
      <4> DEFINE B == {0, 1}
      <4>1. v \in Seq(B) /\ n \in Seq(B) /\ Len(v) = Len(x) /\ Len(n) = Len(e)
        BY <2>1, <3>1
      <4> HIDE DEF v, n, B
      <4>2. v \o n \in Seq(B) /\ Len(v \o n) = Len(v) + Len(n)
        <5>1. \A p, q \in Seq(B) : p \o q \in Seq(B) /\ Len(p \o q) = Len(p) + Len(q)
          OBVIOUS
        <5> QED BY <4>1, <5>1
      <4> QED BY <4>1, <4>2 DEF B
    <3> HIDE DEF v, n, y, z
    <3>6. \A i \in 1 .. Len(x) + Len(e) : y[i] = z[i]
      BY <3>4 DEF y, z
    <3>7. y = z
      BY <3>3, <3>5, <3>6 DEF y
    <3> QED BY <3>7 DEF v, y, z
  <2> QED BY <2>3, <2>4, <2>5, <2>6, <2>7, <1>3
<1>4. \A s \in Seq(Seq(R)) : s \in Alike
  <2> DEFINE T == Seq(R)
  <2>1. \A s \in Seq(T) : \A e \in T : s \in Alike => Append(s, e) \in Alike
    BY <1>3
  <2> HIDE DEF T, Alike
  <2>2. \A s \in Seq(T) : s \in Alike
    BY <1>1, <2>1, SequenceInduction
  <2> QED BY <2>2 DEF T
<1> QED BY <1>4

LEMMA MaskBuilt ==
  ASSUME IsClientQuery(query), NEW result \in {Returned, WithShown}, NEW c \in DOMAIN result.types
  PROVE  ValidityOf(result, c) = Mask(c) /\ Mask(c) \in Seq({0, 1}) /\ Len(Mask(c)) = Len(Shown)
<1> DEFINE a == Returned
           cells == Cells(a)
           D == DOMAIN a.types
<1>1. /\ result.types = a.types /\ result.chunks = a.chunks /\ Cells(result) = cells
      /\ result.chunks = <<>> => result.rows = Shown
  BY KeptRows
<1>2. IsAnswer(a)
  BY AnswerType DEF Returned
<1>3. /\ Typed(Shown, a.types) /\ cells \in Seq([D -> Cell])
      /\ a.chunks # <<>> => Shown = [r \in DOMAIN cells |-> [k \in D |-> Boxed(cells[r][k], a.types[k])]]
  BY ShownType
<1>4. Mask(c) \in Seq({0, 1}) /\ Len(Mask(c)) = Len(Shown)
  <2>1. Mask(c) \in [DOMAIN Shown -> {0, 1}]
    BY DEF Mask
  <2> QED BY <1>3, <2>1, AlongSequence DEF Typed
<1>5. CASE a.chunks = <<>>
  <2>1. ValidityOf(result, c) = [r \in DOMAIN Shown |-> IF Shown[r][c].null THEN 0 ELSE 1]
    BY <1>1, <1>5 DEF ValidityOf
  <2> QED BY <1>4, <2>1 DEF Mask
<1>6. CASE a.chunks # <<>>
  <2>1. ValidityOf(result, c) = FlattenSeq([k \in DOMAIN a.chunks |-> NullsOf(a.chunks[k], c)])
    BY <1>1, <1>6 DEF ValidityOf
  <2>2. ValidityOf(result, c) = NullsOf(cells, c)
    <3>1. a.chunks \in Seq(Seq([D -> Cell])) /\ c \in D
      BY <1>1, <1>2 DEF IsAnswer
    <3> QED BY <2>1, <3>1, NullsOfAll DEF Cells
  <2>3. DOMAIN Shown = DOMAIN cells /\ \A r \in DOMAIN cells : Shown[r][c].null = cells[r][c].null
    <3>1. DOMAIN Shown = DOMAIN cells /\ \A r \in DOMAIN cells : Shown[r][c] = Boxed(cells[r][c], a.types[c])
      <4> HIDE DEF a, cells
      <4> QED BY <1>1, <1>3, <1>6
    <3>2. ASSUME NEW r \in DOMAIN cells PROVE cells[r][c] \in Cell
      BY <1>1, <1>3
    <3>3. ASSUME NEW cell \in Cell, NEW type PROVE Boxed(cell, type).null = cell.null
      BY DEF Boxed, Cell
    <3> HIDE DEF a, cells
    <3> QED BY <3>1, <3>2, <3>3
  <2>4. Mask(c) = NullsOf(cells, c)
    BY <2>3 DEF Mask, NullsOf
  <2> QED BY <1>4, <2>2, <2>4
<1> QED BY <1>5, <1>6

(* The types that a column is shown as.                                    *)
LEMMA Columns ==
  ASSUME NEW type \in ResultTypes
  PROVE  /\ ColumnType(type) = "INTEGER" <=> type = "INTEGER"
         /\ ColumnType(type) = "BIGINT" <=> type = "BIGINT"
         /\ ColumnType(type) \in {"DOUBLE", "FLOAT"} <=> type \in {"DOUBLE", "FLOAT"}
         /\ ColumnType(type) = "VARCHAR" <=> type \in {"DATE", "TIME", "TIMESTAMP", "TIMESTAMP_TZ", "VARCHAR"}
<1>1. CASE type \in {"DATE", "TIME", "TIMESTAMP", "TIMESTAMP_TZ"}
  <2>1. ColumnType(type) = "VARCHAR"
    BY <1>1 DEF ColumnType
  <2> QED BY <1>1, <2>1
<1>2. CASE type \notin {"DATE", "TIME", "TIMESTAMP", "TIMESTAMP_TZ"}
  <2>1. ColumnType(type) = type
    BY <1>2 DEF ColumnType, ResultTypes
  <2> QED BY <1>2, <2>1
<1> QED BY <1>1, <1>2

LEMMA GetAsType ==
  ASSUME NEW v \in Value, NEW member
  PROVE  GetAs(v, member) \in Seq(Int)
<1>1. v.bits \in Int
  BY DEF Value
<1>2. Low(v.bits) \in Int
  <2> DEFINE n == v.bits + Wide
             d == 2 * Wide
  <2>1. n \in Int /\ d \in Int /\ d > 0 /\ Wide \in Int
    BY <1>1, ClientApiAssumption
  <2> HIDE DEF n, d
  <2>2. n % d \in Int
    BY <2>1
  <2>3. (n % d) - Wide \in Int
    BY <2>1, <2>2
  <2> QED BY <2>3 DEF Low, n, d
<1>3. <<v.bits>> \in Seq(Int) /\ <<Low(v.bits)>> \in Seq(Int) /\ <<>> \in Seq(Int)
  BY <1>1, <1>2
<1>4. CASE MemberOf(v.type) = member
  BY <1>3, <1>4 DEF GetAs
<1>5. CASE MemberOf(v.type) # member /\ MemberOf(v.type) = "int64" /\ member = "int32"
  BY <1>3, <1>5 DEF GetAs
<1>6. CASE MemberOf(v.type) # member /\ ~(MemberOf(v.type) = "int64" /\ member = "int32")
  BY <1>3, <1>6 DEF GetAs
<1> QED BY <1>4, <1>5, <1>6

(* The member of the union that was set is read, but for a date or time.   *)
Member(kind, type) == CASE kind = "int64" /\ ColumnType(type) # "BIGINT" -> "int32"
                        [] kind = "double" -> type
                        [] OTHER -> kind

LEMMA MemberRead ==
  ASSUME NEW type \in ResultTypes, NEW kind \in {"int32", "int64", "double"}, Offers(kind, type),
         NEW v \in Value, v.type = BoxedType(type)
  PROVE  GetAs(v, Member(kind, type)) = <<v.bits>> \/ (kind = "int64" /\ MemberOf(v.type) = "int64" /\ v.type # "BIGINT")
<1> SUFFICES MemberOf(v.type) = Member(kind, type) \/ (kind = "int64" /\ MemberOf(v.type) = "int64" /\ v.type # "BIGINT")
  BY DEF GetAs
<1>1. CASE kind = "int32"
  <2>1. type = "INTEGER"
    BY <1>1, Columns DEF Offers
  <2> QED BY <1>1, <2>1 DEF MemberOf, Member, BoxedType
<1>2. CASE kind = "double"
  <2>1. type \in {"DOUBLE", "FLOAT"}
    BY <1>2, Columns DEF Offers
  <2>2. BoxedType(type) = type /\ MemberOf(type) = type
    BY <2>1 DEF BoxedType, MemberOf
  <2>3. Member(kind, type) = type
    BY <1>2 DEF Member
  <2> QED BY <2>2, <2>3
<1>3. CASE kind = "int64"
  <2>1. type \in {"BIGINT", "INTEGER"} \/ type \in {"TIMESTAMP", "TIMESTAMP_TZ", "TIME"}
    BY <1>3, Columns DEF Offers
  <2>2. CASE type = "BIGINT"
    <3>1. ColumnType(type) = "BIGINT"
      BY <2>2, Columns
    <3> QED BY <1>3, <2>2, <3>1 DEF Member, MemberOf, BoxedType
  <2>3. CASE type = "INTEGER"
    <3>1. ColumnType(type) # "BIGINT"
      BY <2>3, Columns
    <3> QED BY <1>3, <2>3, <3>1 DEF Member, MemberOf, BoxedType
  <2>4. CASE type \in {"TIMESTAMP", "TIMESTAMP_TZ", "TIME"}
    BY <1>3, <2>4 DEF MemberOf, BoxedType
  <2> QED BY <2>1, <2>2, <2>3, <2>4
<1> QED BY <1>1, <1>2, <1>3

(* A column of numbers is what it should be, from chunks and from rows.    *)
LEMMA NumbersBuilt ==
  ASSUME IsClientQuery(query), NEW result \in {Returned, WithShown}, NEW c \in DOMAIN result.types,
         NEW kind \in {"int32", "int64", "double"}, Offers(kind, result.types[c])
  PROVE  /\ Numbers(result, kind, c) \in Seq(Text \cup Seq(Int))
         /\ BufferIsRight(kind, c, Numbers(result, kind, c))
<1> DEFINE a == Returned
           cells == Cells(a)
           D == DOMAIN a.types
           numbers == Numbers(result, kind, c)
           Right(r) == Unreliable(kind, r, c) \/ numbers[r] = IF Shown[r][c].null THEN <<0>> ELSE <<Shown[r][c].bits>>
<1>1. /\ result.types = a.types /\ result.chunks = a.chunks /\ Cells(result) = cells
      /\ result.chunks = <<>> => result.rows = Shown
  BY KeptRows
<1>2. IsAnswer(a)
  BY AnswerType DEF Returned
<1>3. /\ Typed(Shown, a.types) /\ cells \in Seq([D -> Cell])
      /\ a.chunks # <<>> => Shown = [r \in DOMAIN cells |-> [k \in D |-> Boxed(cells[r][k], a.types[k])]]
  BY ShownType
<1>4. c \in D /\ a.types[c] \in ResultTypes /\ Offers(kind, a.types[c]) /\ Shown \in Seq(RowsOf(a.types))
  BY <1>1, <1>2, <1>3 DEF IsAnswer, Typed
<1> SUFFICES /\ numbers \in Seq(Text \cup Seq(Int)) /\ Len(numbers) = Len(Shown)
             /\ \A r \in DOMAIN Shown : Right(r)
  BY DEF BufferIsRight
<1>5. CASE a.chunks = <<>>
  <2> DEFINE member == Member(kind, a.types[c])
  <2>1. numbers = [r \in DOMAIN Shown |-> IF Shown[r][c].null THEN <<0>> ELSE GetAs(Shown[r][c], member)]
    BY <1>1, <1>5 DEF Numbers, Member
  <2>2. ASSUME NEW r \in DOMAIN Shown PROVE Shown[r][c] \in Value /\ (~Shown[r][c].null => Shown[r][c].type = BoxedType(a.types[c]))
    <3>1. Shown[r] \in RowsOf(a.types)
      BY <1>4
    <3>2. Shown[r][c] \in Value
      BY <1>4, <3>1 DEF RowsOf
    <3> QED BY <1>3, <1>4, <3>2 DEF Typed
  <2> HIDE DEF a, numbers, member
  <2>3. ASSUME NEW r \in DOMAIN Shown PROVE numbers[r] \in Text \cup Seq(Int)
    <3>1. <<0>> \in Seq(Int) /\ GetAs(Shown[r][c], member) \in Seq(Int)
      BY <2>2, GetAsType
    <3> QED BY <2>1, <3>1
  <2>4. numbers \in [DOMAIN Shown -> Text \cup Seq(Int)]
    BY <2>1, <2>3
  <2>5. numbers \in Seq(Text \cup Seq(Int)) /\ Len(numbers) = Len(Shown)
    BY <1>4, <2>4, AlongSequence
  <2>6. ASSUME NEW r \in DOMAIN Shown PROVE Right(r)
    <3>1. CASE Shown[r][c].null
      BY <2>1, <3>1
    <3>2. CASE ~Shown[r][c].null
      <4>1. GetAs(Shown[r][c], member) = <<Shown[r][c].bits>>
            \/ (kind = "int64" /\ MemberOf(Shown[r][c].type) = "int64" /\ Shown[r][c].type # "BIGINT")
        BY <1>4, <2>2, <3>2, MemberRead DEF member
      <4> QED BY <1>5, <2>1, <3>2, <4>1 DEF Unreliable, a, Returned
    <3> QED BY <3>1, <3>2
  <2> QED BY <2>5, <2>6
<1>6. CASE a.chunks # <<>>
  <2>1. numbers = [r \in DOMAIN cells |-> <<cells[r][c].bits>>]
    BY <1>1, <1>6 DEF Numbers
  <2>2. ASSUME NEW r \in DOMAIN cells PROVE cells[r][c] \in Cell
    BY <1>3, <1>4
  <2>3. DOMAIN Shown = DOMAIN cells /\ \A r \in DOMAIN cells : Shown[r][c] = Boxed(cells[r][c], a.types[c])
    <3> HIDE DEF a, cells
    <3> QED BY <1>3, <1>4, <1>6
  <2> HIDE DEF a, cells, numbers
  <2>4. ASSUME NEW r \in DOMAIN cells PROVE <<cells[r][c].bits>> \in Text \cup Seq(Int)
    <3>1. cells[r][c].bits \in Int
      BY <2>2 DEF Cell
    <3> QED BY <3>1
  <2>5. numbers \in [DOMAIN Shown -> Text \cup Seq(Int)]
    BY <2>1, <2>3, <2>4
  <2>6. numbers \in Seq(Text \cup Seq(Int)) /\ Len(numbers) = Len(Shown)
    BY <1>4, <2>5, AlongSequence
  <2>7. ASSUME NEW r \in DOMAIN Shown PROVE Right(r)
    <3>1. numbers[r] = <<cells[r][c].bits>> /\ Shown[r][c] = Boxed(cells[r][c], a.types[c])
      BY <2>1, <2>3
    <3>2. CASE Shown[r][c].null
      BY <1>6, <3>2 DEF Unreliable, a, Returned
    <3>3. CASE ~Shown[r][c].null
      <4>1. Shown[r][c].bits = cells[r][c].bits
        BY <3>1, <3>3 DEF Boxed
      <4> QED BY <3>1, <3>3, <4>1
    <3> QED BY <3>2, <3>3
  <2> QED BY <2>6, <2>7
<1> QED BY <1>5, <1>6

LEMMA NoTextType == NoText \in Text
<1> DEFINE n == ""
<1>1. n \in TextNames
  BY DEF TextNames
<1>2. NoText = [of |-> n, bits |-> 0]
  BY DEF NoText
<1> HIDE DEF n
<1> QED BY <1>1, <1>2 DEF Text

(* And so is a column of texts.                                            *)
LEMMA TextsBuilt ==
  ASSUME IsClientQuery(query), NEW result \in {Returned, WithShown}, NEW c \in DOMAIN result.types,
         Offers("varchar", result.types[c])
  PROVE  /\ Texts(result, c) \in Seq(Text \cup Seq(Int))
         /\ BufferIsRight("varchar", c, Texts(result, c))
<1> DEFINE a == Returned
           cells == Cells(a)
           D == DOMAIN a.types
           texts == [r \in DOMAIN Shown |-> IF Shown[r][c].null THEN NoText ELSE ToText(Shown[r][c])]
<1>1. /\ result.types = a.types /\ result.chunks = a.chunks /\ Cells(result) = cells
      /\ MaterialisedRows(result) = Shown
  BY KeptRows
<1>2. IsAnswer(a)
  BY AnswerType DEF Returned
<1>3. /\ Typed(Shown, a.types) /\ cells \in Seq([D -> Cell])
      /\ a.chunks # <<>> => Shown = [r \in DOMAIN cells |-> [k \in D |-> Boxed(cells[r][k], a.types[k])]]
  BY ShownType
<1>4. c \in D /\ a.types[c] \in ResultTypes /\ Shown \in Seq(RowsOf(a.types))
  BY <1>1, <1>2, <1>3 DEF IsAnswer, Typed
<1>5. ASSUME NEW r \in DOMAIN Shown PROVE Shown[r][c] \in Value /\ (~Shown[r][c].null => Shown[r][c].type = BoxedType(a.types[c]))
  <2>1. Shown[r] \in RowsOf(a.types)
    BY <1>4
  <2>2. Shown[r][c] \in Value
    BY <1>4, <2>1 DEF RowsOf
  <2> QED BY <1>3, <1>4, <2>2 DEF Typed
<1>6. texts \in Seq(Text \cup Seq(Int))
  <2>1. ASSUME NEW r \in DOMAIN Shown PROVE texts[r] \in Text
    <3>1. NoText \in Text
      BY NoTextType
    <3>2. CASE Shown[r][c].null
      BY <3>1, <3>2
    <3>3. CASE ~Shown[r][c].null
      <4>1. Shown[r][c].type \in ResultTypes /\ Shown[r][c].bits \in Int
        BY <1>4, <1>5, <3>3 DEF BoxedType, ResultTypes, Value
      <4>2. texts[r] = [of |-> Shown[r][c].type, bits |-> Shown[r][c].bits]
        BY <3>3 DEF ToText
      <4> HIDE DEF texts
      <4>3. Shown[r][c].type \in TextNames
        BY <4>1 DEF TextNames
      <4> QED BY <4>1, <4>2, <4>3 DEF Text
    <3> QED BY <3>2, <3>3
  <2>2. texts \in [DOMAIN Shown -> Text \cup Seq(Int)]
    BY <2>1
  <2> HIDE DEF texts
  <2> QED BY <1>4, <2>2, AlongSequence
<1>7. Texts(result, c) = texts
  <2>1. CASE Formats(result, c)
    BY <1>1, <2>1 DEF Texts
  <2>2. CASE ~Formats(result, c)
    <3>1. a.chunks # <<>> /\ a.types[c] = "VARCHAR"
      BY <1>1, <2>2 DEF Formats
    <3>2. Texts(result, c) = [r \in DOMAIN cells |-> IF cells[r][c].null THEN NoText ELSE [of |-> "VARCHAR", bits |-> cells[r][c].bits]]
      BY <1>1, <2>2 DEF Texts
    <3>3. DOMAIN Shown = DOMAIN cells /\ \A r \in DOMAIN cells : Shown[r][c] = Boxed(cells[r][c], "VARCHAR")
      <4> HIDE DEF a, cells
      <4> QED BY <1>3, <1>4, <3>1
    <3>4. ASSUME NEW r \in DOMAIN cells
          PROVE  texts[r] = IF cells[r][c].null THEN NoText ELSE [of |-> "VARCHAR", bits |-> cells[r][c].bits]
      <4>1. cells[r][c] \in Cell
        BY <1>3, <1>4
      <4>2. Shown[r][c].null = cells[r][c].null /\ (~cells[r][c].null => ToText(Shown[r][c]) = [of |-> "VARCHAR", bits |-> cells[r][c].bits])
        <5>1. BoxedType("VARCHAR") = "VARCHAR"
          BY DEF BoxedType
        <5>2. CASE cells[r][c].null
          <6>1. Shown[r][c] = [type |-> "SQLNULL", null |-> TRUE, bits |-> 0]
            BY <3>3, <5>2 DEF Boxed
          <6> QED BY <5>2, <6>1
        <5>3. CASE ~cells[r][c].null
          <6>1. Shown[r][c] = [type |-> "VARCHAR", null |-> FALSE, bits |-> cells[r][c].bits]
            BY <3>3, <5>1, <5>3 DEF Boxed
          <6>2. Shown[r][c].null = FALSE /\ ToText(Shown[r][c]) = [of |-> "VARCHAR", bits |-> cells[r][c].bits]
            <7> HIDE DEF cells
            <7> QED BY <6>1 DEF ToText
          <6>3. cells[r][c].null = FALSE
            BY <4>1, <5>3 DEF Cell
          <6> QED BY <6>2, <6>3
        <5> QED BY <5>2, <5>3
      <4> QED BY <3>3, <4>2
    <3> HIDE DEF cells
    <3>5. texts = [r \in DOMAIN cells |-> texts[r]]
      BY <3>3
    <3> HIDE DEF texts
    <3> QED BY <3>2, <3>4, <3>5
  <2> QED BY <2>1, <2>2
<1>8. BufferIsRight("varchar", c, texts)
  BY DEF BufferIsRight
<1> HIDE DEF texts
<1> QED BY <1>6, <1>7, <1>8
-----------------------------------------------------------------------------
(* The invariant of a client.                                              *)

Pointer == [into : {"cache", "arena"}, at : Nat, moves : Nat, text : Text]
Buffer  == [values : Seq(Text \cup Seq(Int)), built : BOOLEAN]
Buffers == [of : [Kinds -> Buffer], validity : Seq({0, 1}), hasNulls : BOOLEAN]

ClientStates ==
  [at : {"connected", "result", "freed"}, result : {NoResult, Returned, WithShown}, buffers : Seq(Buffers),
   cache : Seq(Text), capacity : Nat, moves : Nat, tables : Seq(Range(query.tables)),
   arena : Seq(Text), arenaMoves : Nat, held : SUBSET Pointer, calls : Nat]

ResultIsKept(s) ==
  IF s.at = "result" THEN s.result \in {Returned, WithShown} ELSE s.result = NoResult /\ s.buffers = <<>>

(* A buffer that is built is right, and the mask is that of its column.    *)
BufferIsKept(c, b) ==
  /\ \A kind \in Kinds : b.of[kind].built => BufferIsRight(kind, c, b.of[kind].values)
  /\ b.validity \in {<<>>, Mask(c)} /\ (b.hasNulls <=> 0 \in Range(b.validity))

BuffersAreKept(s) ==
  /\ s.buffers # <<>> => Len(s.buffers) = Len(Returned.types)
  /\ \A c \in DOMAIN s.buffers : BufferIsKept(c, s.buffers[c])

(* A string of the cache moves, but is never given up; one of the thread   *)
(* never moves again, as the first that is asked for makes room for both.  *)
PointerIsKept(s, p) ==
  IF p.into = "cache" THEN p.at \in DOMAIN s.cache /\ s.cache[p.at] = p.text
  ELSE p.at \in DOMAIN s.arena /\ p.at \in {1, 2} /\ s.arena[p.at] = p.text /\ p.moves = s.arenaMoves

PointersAreKept(s) ==
  /\ s.arena # <<>> => Len(s.arena) >= 2
  /\ \A p \in s.held : PointerIsKept(s, p)

ClientIsKept(s) ==
  s \in ClientStates /\ ResultIsKept(s) /\ BuffersAreKept(s) /\ PointersAreKept(s)

(* Boxing the rows of a result.                                            *)
LEMMA BoxingKeeps ==
  ASSUME IsClientQuery(query), NEW s, ClientIsKept(s), s.at = "result"
  PROVE  /\ ClientIsKept([s EXCEPT !.result.rows = MaterialisedRows(s.result)])
         /\ [s EXCEPT !.result.rows = MaterialisedRows(s.result)] = [s EXCEPT !.result = WithShown]
<1> DEFINE t == [s EXCEPT !.result = WithShown]
<1>1. s \in ClientStates /\ s.result \in {Returned, WithShown}
  BY DEF ClientIsKept, ResultIsKept
<1>2. [s.result EXCEPT !.rows = Shown] = WithShown /\ MaterialisedRows(s.result) = Shown
  BY <1>1, KeptRows
<1>3. [s EXCEPT !.result.rows = MaterialisedRows(s.result)] = t
  BY <1>1, <1>2 DEF ClientStates
<1>4. /\ t \in ClientStates /\ t.at = "result" /\ t.result = WithShown /\ t.buffers = s.buffers
      /\ t.cache = s.cache /\ t.arena = s.arena /\ t.arenaMoves = s.arenaMoves /\ t.held = s.held
  BY <1>1 DEF ClientStates
<1> HIDE DEF t
<1>5. ResultIsKept(t)
  BY <1>4 DEF ResultIsKept
<1>6. BuffersAreKept(t)
  BY <1>4 DEF BuffersAreKept, ClientIsKept
<1>7. PointersAreKept(t)
  BY <1>4 DEF PointersAreKept, PointerIsKept, ClientIsKept
<1> QED BY <1>3, <1>4, <1>5, <1>6, <1>7 DEF t, ClientIsKept

(* Changing nothing but the buffers, to such that are kept.                *)
LEMMA RebufferKeeps ==
  ASSUME NEW s, ClientIsKept(s), s.at = "result", NEW b \in Seq(Buffers), Len(b) = Len(Returned.types),
         \A c \in DOMAIN b : BufferIsKept(c, b[c])
  PROVE  /\ ClientIsKept([s EXCEPT !.buffers = b])
         /\ [s EXCEPT !.buffers = b].buffers = b /\ [s EXCEPT !.buffers = b].at = "result"
         /\ [s EXCEPT !.buffers = b].result = s.result
<1> DEFINE t == [s EXCEPT !.buffers = b]
<1>1. s \in ClientStates
  BY DEF ClientIsKept
<1>2. /\ t \in ClientStates /\ t.at = "result" /\ t.result = s.result /\ t.buffers = b
      /\ t.cache = s.cache /\ t.arena = s.arena /\ t.arenaMoves = s.arenaMoves /\ t.held = s.held
  BY <1>1 DEF ClientStates
<1> HIDE DEF t
<1>3. ResultIsKept(t)
  BY <1>2 DEF ResultIsKept, ClientIsKept
<1>4. BuffersAreKept(t)
  BY <1>2 DEF BuffersAreKept
<1>5. PointersAreKept(t)
  BY <1>2 DEF PointersAreKept, PointerIsKept, ClientIsKept
<1> QED BY <1>2, <1>3, <1>4, <1>5 DEF t, ClientIsKept

Ready(s, c) == /\ ClientIsKept(s) /\ s.at = "result" /\ Len(s.buffers) = Len(Returned.types)
               /\ c \in DOMAIN Returned.types /\ c \in DOMAIN s.buffers

LEMMA EnsureColBufKeeps ==
  ASSUME IsClientQuery(query), NEW s, ClientIsKept(s), s.at = "result", NEW c \in DOMAIN s.result.types
  PROVE  Ready(EnsureColBuf(s), c) /\ EnsureColBuf(s).result = s.result
<1>1. s \in ClientStates /\ s.result \in {Returned, WithShown} /\ s.buffers \in Seq(Buffers)
  BY DEF ClientIsKept, ResultIsKept, ClientStates
<1>2. s.result.types = Returned.types /\ Returned.types \in Seq(ResultTypes)
  BY <1>1, KeptRows, AnswerType DEF IsAnswer, Returned
<1>3. CASE Len(s.buffers) = Len(Returned.types)
  <2>1. EnsureColBuf(s) = s
    BY <1>2, <1>3 DEF EnsureColBuf, ColumnCount
  <2>2. c \in DOMAIN s.buffers
    BY <1>1, <1>2, <1>3
  <2> QED BY <1>2, <1>3, <2>1, <2>2 DEF Ready
<1>4. CASE Len(s.buffers) # Len(Returned.types)
  <2> DEFINE b == [k \in DOMAIN Returned.types |-> NoBuffers]
  <2>1. EnsureColBuf(s) = [s EXCEPT !.buffers = b]
    BY <1>2, <1>4 DEF EnsureColBuf, ColumnCount
  <2>2. NoBuffers \in Buffers
    <3>1. Unbuilt \in Buffer
      BY DEF Unbuilt, Buffer
    <3>2. [kind \in Kinds |-> Unbuilt] \in [Kinds -> Buffer]
      BY <3>1
    <3> QED BY <3>2 DEF NoBuffers, Buffers
  <2>3. b \in Seq(Buffers) /\ Len(b) = Len(Returned.types) /\ DOMAIN b = DOMAIN Returned.types
    <3>1. b \in [DOMAIN Returned.types -> Buffers]
      BY <2>2
    <3> HIDE DEF b
    <3> QED BY <1>2, <3>1, AlongSequence
  <2>4. ASSUME NEW k \in DOMAIN b PROVE BufferIsKept(k, b[k])
    <3>1. b[k] = NoBuffers
      BY <2>3
    <3>2. NoBuffers.validity = <<>> /\ NoBuffers.hasNulls = FALSE /\ \A kind \in Kinds : NoBuffers.of[kind].built = FALSE
      BY DEF NoBuffers, Unbuilt
    <3>3. Range(<<>>) = {}
      BY DEF Range
    <3> HIDE DEF b
    <3> QED BY <3>1, <3>2, <3>3 DEF BufferIsKept
  <2> HIDE DEF b
  <2> QED BY <1>2, <2>1, <2>3, <2>4, RebufferKeeps DEF Ready
<1> QED BY <1>3, <1>4

LEMMA BuildValidityKeeps ==
  ASSUME IsClientQuery(query), NEW s, NEW c, Ready(s, c)
  PROVE  /\ Ready(BuildValidity(s, c), c) /\ BuildValidity(s, c).result = s.result
         /\ BuildValidity(s, c).buffers[c].validity = Mask(c)
         /\ BuildValidity(s, c).buffers[c].hasNulls <=> 0 \in Range(Mask(c))
         /\ BuildValidity(s, c).buffers[c].of = s.buffers[c].of
<1>1. s \in ClientStates /\ s.result \in {Returned, WithShown} /\ s.buffers \in Seq(Buffers)
  BY DEF Ready, ClientIsKept, ResultIsKept, ClientStates
<1>2. s.result.types = Returned.types /\ Returned.types \in Seq(ResultTypes)
  BY <1>1, KeptRows, AnswerType DEF IsAnswer, Returned
<1>3. ValidityOf(s.result, c) = Mask(c) /\ Mask(c) \in Seq({0, 1})
  BY <1>1, <1>2, MaskBuilt DEF Ready
<1>4. s.buffers[c] \in Buffers /\ BufferIsKept(c, s.buffers[c]) /\ c \in DOMAIN s.buffers
  BY <1>1 DEF Ready, ClientIsKept, BuffersAreKept
<1>5. CASE s.buffers[c].validity # <<>>
  BY <1>4, <1>5 DEF BuildValidity, BufferIsKept
<1>6. CASE s.buffers[c].validity = <<>>
  <2> DEFINE z == 0 \in Range(Mask(c))
             n == [s.buffers[c] EXCEPT !.validity = Mask(c), !.hasNulls = z]
             b == [s.buffers EXCEPT ![c] = n]
  <2>1. BuildValidity(s, c) = [s EXCEPT !.buffers = b]
    <3>1. BuildValidity(s, c) = [s EXCEPT !.buffers[c].validity = Mask(c), !.buffers[c].hasNulls = 0 \in Range(Mask(c))]
      BY <1>3, <1>6 DEF BuildValidity
    <3> QED BY <1>1, <1>4, <3>1 DEF ClientStates
  <2>2. n \in Buffers /\ n.of = s.buffers[c].of /\ n.validity = Mask(c) /\ n.hasNulls = z
    <3>1. z \in BOOLEAN
      OBVIOUS
    <3> HIDE DEF z
    <3> QED BY <1>3, <1>4, <3>1 DEF Buffers
  <2> HIDE DEF n, z
  <2>3. b \in Seq(Buffers) /\ Len(b) = Len(s.buffers) /\ DOMAIN b = DOMAIN s.buffers /\ b[c] = n
        /\ \A k \in DOMAIN b : k # c => b[k] = s.buffers[k]
    BY <1>1, <1>4, <2>2
  <2>4. BufferIsKept(c, n)
    BY <1>4, <2>2 DEF BufferIsKept, z
  <2>5. \A k \in DOMAIN b : BufferIsKept(k, b[k])
    BY <2>3, <2>4 DEF Ready, ClientIsKept, BuffersAreKept
  <2> HIDE DEF b
  <2>6. Len(b) = Len(Returned.types) /\ ClientIsKept(s) /\ s.at = "result"
    BY <2>3 DEF Ready
  <2> DEFINE t == [s EXCEPT !.buffers = b]
  <2>7. ClientIsKept(t) /\ t.buffers = b /\ t.at = "result" /\ t.result = s.result
    BY <2>3, <2>5, <2>6, RebufferKeeps
  <2> HIDE DEF t
  <2>8. Ready(t, c)
    BY <1>4, <2>3, <2>6, <2>7 DEF Ready
  <2>9. t.buffers[c].validity = Mask(c) /\ (t.buffers[c].hasNulls <=> 0 \in Range(Mask(c))) /\ t.buffers[c].of = s.buffers[c].of
    BY <2>2, <2>3, <2>7 DEF z
  <2>10. BuildValidity(s, c) = t
    BY <2>1 DEF t
  <2> QED BY <2>7, <2>8, <2>9, <2>10
<1> QED BY <1>5, <1>6

(* A column of any kind that is offered.                                   *)
LEMMA BuiltKeeps ==
  ASSUME IsClientQuery(query), NEW s, NEW c, Ready(s, c), NEW kind \in Kinds, Offers(kind, s.result.types[c])
  PROVE  /\ ClientIsKept(Built(s, kind, c)) /\ Built(s, kind, c).at = "result"
         /\ BufferIsRight(kind, c, Built(s, kind, c).buffers[c].of[kind].values)
<1>1. s \in ClientStates /\ s.result \in {Returned, WithShown} /\ s.buffers \in Seq(Buffers) /\ s.at = "result" /\ ClientIsKept(s)
  BY DEF Ready, ClientIsKept, ResultIsKept, ClientStates
<1>2. s.result.types = Returned.types /\ Returned.types \in Seq(ResultTypes)
  BY <1>1, KeptRows, AnswerType DEF IsAnswer, Returned
<1>3. s.buffers[c] \in Buffers /\ BufferIsKept(c, s.buffers[c]) /\ c \in DOMAIN s.buffers /\ c \in DOMAIN s.result.types
  BY <1>1, <1>2 DEF Ready, ClientIsKept, BuffersAreKept
<1>4. CASE s.buffers[c].of[kind].built
  BY <1>1, <1>3, <1>4 DEF Built, BufferIsKept
<1>5. CASE ~s.buffers[c].of[kind].built
  <2> DEFINE values == IF kind = "varchar" THEN Texts(s.result, c) ELSE Numbers(s.result, kind, c)
             boxed  == IF kind = "varchar" /\ Formats(s.result, c) THEN [s EXCEPT !.result.rows = MaterialisedRows(s.result)] ELSE s
             column == [values |-> values, built |-> TRUE]
             n == [s.buffers[c] EXCEPT !.of = [@ EXCEPT ![kind] = column]]
             b == [s.buffers EXCEPT ![c] = n]
             t == [boxed EXCEPT !.buffers = b]
  <2>1. values \in Seq(Text \cup Seq(Int)) /\ BufferIsRight(kind, c, values)
    <3>1. CASE kind = "varchar"
      BY <1>1, <1>3, <3>1, TextsBuilt
    <3>2. CASE kind # "varchar"
      <4>1. kind \in {"int32", "int64", "double"}
        BY <3>2 DEF Kinds
      <4> QED BY <1>1, <1>3, <3>2, <4>1, NumbersBuilt
    <3> QED BY <3>1, <3>2
  <2>2. Built(s, kind, c) = BuildValidity([boxed EXCEPT !.buffers[c].of[kind] = column], c)
    BY <1>5 DEF Built
  <2> HIDE DEF values
  <2>3. ClientIsKept(boxed) /\ boxed.at = "result" /\ boxed.buffers = s.buffers /\ boxed \in ClientStates
    <3>1. CASE boxed = s
      BY <1>1, <3>1
    <3>2. CASE boxed = [s EXCEPT !.result.rows = MaterialisedRows(s.result)]
      <4>1. ClientIsKept(boxed) /\ boxed = [s EXCEPT !.result = WithShown]
        BY <1>1, <3>2, BoxingKeeps
      <4> HIDE DEF boxed
      <4>2. boxed.at = "result" /\ boxed.buffers = s.buffers
        BY <1>1, <4>1 DEF ClientStates
      <4> QED BY <4>1, <4>2 DEF ClientIsKept
    <3> QED BY <3>1, <3>2
  <2> HIDE DEF boxed
  <2>4. column \in Buffer /\ column.values = values
    BY <2>1 DEF Buffer
  <2> HIDE DEF column
  <2>5. /\ n \in Buffers /\ n.validity = s.buffers[c].validity /\ n.hasNulls = s.buffers[c].hasNulls
        /\ n.of[kind] = column /\ \A k \in Kinds : k # kind => n.of[k] = s.buffers[c].of[k]
    BY <1>3, <2>4 DEF Buffers
  <2>6. [boxed EXCEPT !.buffers[c].of[kind] = column] = t
    BY <1>1, <1>3, <2>3 DEF ClientStates, Buffers
  <2> HIDE DEF n
  <2>7. b \in Seq(Buffers) /\ Len(b) = Len(s.buffers) /\ DOMAIN b = DOMAIN s.buffers /\ b[c] = n
        /\ \A k \in DOMAIN b : k # c => b[k] = s.buffers[k]
    BY <1>1, <1>3, <2>5
  <2>8. BufferIsKept(c, n)
    <3>1. ASSUME NEW k \in Kinds, n.of[k].built PROVE BufferIsRight(k, c, n.of[k].values)
      BY <1>3, <2>1, <2>4, <2>5, <3>1 DEF BufferIsKept
    <3> QED BY <1>3, <2>5, <3>1 DEF BufferIsKept
  <2>9. \A k \in DOMAIN b : BufferIsKept(k, b[k])
    BY <2>7, <2>8 DEF Ready, ClientIsKept, BuffersAreKept
  <2> HIDE DEF b
  <2>10. Len(b) = Len(Returned.types)
    BY <2>7 DEF Ready
  <2>11. ClientIsKept(t) /\ t.buffers = b /\ t.at = "result"
    BY <2>3, <2>7, <2>9, <2>10, RebufferKeeps
  <2> HIDE DEF t
  <2>12. Ready(t, c)
    BY <1>2, <1>3, <2>7, <2>10, <2>11 DEF Ready
  <2>13. Built(s, kind, c) = BuildValidity(t, c)
    BY <2>2, <2>6
  <2>14. ClientIsKept(BuildValidity(t, c)) /\ BuildValidity(t, c).at = "result" /\ BuildValidity(t, c).buffers[c].of = b[c].of
    BY <2>11, <2>12, BuildValidityKeeps DEF Ready
  <2> QED BY <2>1, <2>4, <2>5, <2>7, <2>13, <2>14
<1> QED BY <1>4, <1>5
-----------------------------------------------------------------------------
(* The pointers.                                                           *)

LEMMA PushingKeeps ==
  ASSUME NEW s, ClientIsKept(s), s.at = "result", NEW text \in Text
  PROVE  ClientIsKept(Given(Pushed(s, text), CachePointer(Pushed(s, text))))
<1> DEFINE full  == Len(s.cache) = s.capacity
           cache == Append(s.cache, text)
           size  == IF ~full THEN s.capacity ELSE IF s.capacity = 0 THEN 1 ELSE 2 * s.capacity
           moves == IF full THEN s.moves + 1 ELSE s.moves
           u == [s EXCEPT !.cache = cache, !.capacity = size, !.moves = moves]
           p == CachePointer(u)
           held  == s.held \cup {p}
           calls == s.calls + 1
           t == [u EXCEPT !.held = held, !.calls = calls]
<1>1. /\ s \in ClientStates /\ s.cache \in Seq(Text) /\ s.capacity \in Nat /\ s.moves \in Nat /\ s.calls \in Nat
      /\ s.held \subseteq Pointer
  BY DEF ClientIsKept, ClientStates
<1>2. cache \in Seq(Text) /\ Len(cache) = Len(s.cache) + 1 /\ cache[Len(cache)] = text /\ DOMAIN cache = 1 .. Len(s.cache) + 1
      /\ \A i \in DOMAIN s.cache : i \in DOMAIN cache /\ cache[i] = s.cache[i]
  BY <1>1
<1>3. size \in Nat /\ moves \in Nat
  BY <1>1
<1>4. Pushed(s, text) = u
  BY <1>1 DEF Pushed, ClientStates
<1> HIDE DEF cache, size, moves
<1>5. /\ u \in ClientStates /\ u.cache = cache /\ u.moves = moves /\ u.held = s.held /\ u.calls = s.calls /\ u.at = s.at /\ u.result = s.result
      /\ u.buffers = s.buffers /\ u.arena = s.arena /\ u.arenaMoves = s.arenaMoves
  BY <1>1, <1>2, <1>3 DEF ClientStates
<1> HIDE DEF u
<1>6. p = [into |-> "cache", at |-> Len(cache), moves |-> moves, text |-> text]
  BY <1>2, <1>5 DEF CachePointer, Last
<1>7. p \in Pointer /\ p.into = "cache" /\ p.at = Len(cache) /\ p.text = text
  <2>1. Len(cache) \in Nat
    BY <1>2
  <2> HIDE DEF p
  <2> QED BY <1>3, <1>6, <2>1 DEF Pointer
<1> HIDE DEF p
<1>8. /\ t \in ClientStates /\ t.cache = cache /\ t.held = held /\ t.at = s.at /\ t.result = s.result
      /\ t.buffers = s.buffers /\ t.arena = s.arena /\ t.arenaMoves = s.arenaMoves
  <2>1. held \in SUBSET Pointer /\ calls \in Nat
    BY <1>1, <1>7
  <2> HIDE DEF held, calls
  <2> QED BY <1>5, <2>1 DEF ClientStates
<1>9. Given(Pushed(s, text), CachePointer(Pushed(s, text))) = t
  BY <1>4, <1>5 DEF Given, p
<1> HIDE DEF t
<1>10. ResultIsKept(t) /\ BuffersAreKept(t)
  BY <1>8 DEF ResultIsKept, BuffersAreKept, ClientIsKept
<1>11. PointersAreKept(t)
  <2>1. ASSUME NEW o \in t.held PROVE PointerIsKept(t, o)
    <3>1. CASE o = p
      <4>1. Len(cache) \in DOMAIN cache
        BY <1>1, <1>2
      <4> QED BY <3>1, <4>1, <1>2, <1>7, <1>8 DEF PointerIsKept
    <3>2. CASE o \in s.held
      BY <3>2, <1>2, <1>8 DEF PointerIsKept, ClientIsKept, PointersAreKept
    <3> QED BY <3>1, <3>2, <1>8
  <2> QED BY <2>1, <1>8 DEF PointersAreKept, ClientIsKept
<1> QED BY <1>8, <1>9, <1>10, <1>11 DEF ClientIsKept

LEMMA IntrospectionKeeps ==
  ASSUME NEW s, ClientIsKept(s), NEW slot \in {1, 2}, NEW text \in Text
  PROVE  LET stored == IntoSlot(GivenUp(s, slot), slot, text) IN ClientIsKept(Given(stored, ArenaPointer(stored, slot)))
<1> DEFINE kept  == {p \in s.held : p.into # "arena" \/ p.at # slot}
           g == [s EXCEPT !.held = kept]
           room == IF slot <= Len(s.arena) THEN s.arena ELSE [i \in 1 .. slot + 15 |-> IF i <= Len(s.arena) THEN s.arena[i] ELSE NoText]
           arena == [room EXCEPT ![slot] = text]
           moves == IF slot <= Len(s.arena) THEN s.arenaMoves ELSE s.arenaMoves + 1
           u == [g EXCEPT !.arena = arena, !.arenaMoves = moves]
           p == ArenaPointer(u, slot)
           held  == kept \cup {p}
           calls == s.calls + 1
           t == [u EXCEPT !.held = held, !.calls = calls]
<1>1. /\ s \in ClientStates /\ s.arena \in Seq(Text) /\ s.arenaMoves \in Nat /\ s.calls \in Nat
      /\ s.held \subseteq Pointer /\ slot \in Nat /\ Len(s.arena) \in Nat
      /\ s.arena # <<>> => Len(s.arena) >= 2
  BY DEF ClientIsKept, ClientStates, PointersAreKept
<1>2. room \in Seq(Text) /\ Len(room) >= 2 /\ \A i \in DOMAIN s.arena : i \in DOMAIN room /\ room[i] = s.arena[i]
  <2>1. CASE slot <= Len(s.arena)
    BY <1>1, <2>1
  <2>2. CASE ~(slot <= Len(s.arena))
    <3> DEFINE n == slot + 15
    <3>1. n \in Nat /\ n >= 2 /\ n >= Len(s.arena) /\ room = [i \in 1 .. n |-> IF i <= Len(s.arena) THEN s.arena[i] ELSE NoText]
      BY <1>1, <2>2
    <3>2. NoText \in Text
      BY NoTextType
    <3> HIDE DEF n, room
    <3>3. ASSUME NEW i \in 1 .. n PROVE room[i] \in Text /\ (i \in DOMAIN s.arena => room[i] = s.arena[i])
      BY <1>1, <3>1, <3>2
    <3>4. room \in [1 .. n -> Text]
      BY <3>1, <3>3
    <3>5. room \in Seq(Text) /\ Len(room) = n /\ DOMAIN room = 1 .. n
      BY <3>1, <3>4, SeqDef
    <3>6. DOMAIN s.arena \subseteq 1 .. n
      BY <1>1, <3>1
    <3> QED BY <3>1, <3>3, <3>5, <3>6
  <2> QED BY <2>1, <2>2
<1> HIDE DEF room
<1>3. /\ arena \in Seq(Text) /\ Len(arena) >= 2 /\ slot \in DOMAIN arena /\ arena[slot] = text
      /\ \A i \in DOMAIN s.arena : i \in DOMAIN arena /\ (i # slot => arena[i] = s.arena[i])
  BY <1>1, <1>2
<1>4. moves \in Nat
  BY <1>1
<1>5. GivenUp(s, slot) = g /\ g \in ClientStates /\ g.arena = s.arena /\ g.arenaMoves = s.arenaMoves /\ g.calls = s.calls /\ g.held = kept
      /\ g.at = s.at /\ g.result = s.result /\ g.buffers = s.buffers /\ g.cache = s.cache
  BY <1>1 DEF GivenUp, ClientStates
<1> HIDE DEF g
<1>6. IntoSlot(g, slot, text) = u
  <2>1. IntoSlot(g, slot, text) = [g EXCEPT !.arena = arena, !.arenaMoves = IF slot <= Len(s.arena) THEN @ ELSE @ + 1]
    BY <1>5 DEF IntoSlot, room
  <2> HIDE DEF arena
  <2> QED BY <1>5, <2>1 DEF ClientStates
<1> HIDE DEF arena, moves
<1>7. /\ u \in ClientStates /\ u.arena = arena /\ u.arenaMoves = moves /\ u.held = kept /\ u.calls = s.calls /\ u.at = s.at /\ u.result = s.result
      /\ u.buffers = s.buffers /\ u.cache = s.cache
  BY <1>3, <1>4, <1>5 DEF ClientStates
<1> HIDE DEF u
<1>8. p = [into |-> "arena", at |-> slot, moves |-> moves, text |-> text]
  BY <1>3, <1>7 DEF ArenaPointer
<1>9. p \in Pointer /\ p.into = "arena" /\ p.at = slot /\ p.text = text /\ p.moves = moves
  <2> HIDE DEF p
  <2> QED BY <1>1, <1>4, <1>8 DEF Pointer
<1> HIDE DEF p
<1>10. kept \subseteq Pointer /\ \A o \in kept : o \in s.held /\ (o.into # "arena" \/ o.at # slot)
  BY <1>1
<1> HIDE DEF kept
<1>11. /\ t \in ClientStates /\ t.cache = s.cache /\ t.held = held /\ t.at = s.at /\ t.result = s.result
       /\ t.buffers = s.buffers /\ t.arena = arena /\ t.arenaMoves = moves
  <2>1. held \in SUBSET Pointer /\ calls \in Nat
    BY <1>1, <1>9, <1>10
  <2> HIDE DEF held, calls
  <2> QED BY <1>7, <2>1 DEF ClientStates
<1>12. Given(u, ArenaPointer(u, slot)) = t
  BY <1>7 DEF Given, p
<1> HIDE DEF t
<1>13. ResultIsKept(t) /\ BuffersAreKept(t)
  BY <1>11 DEF ResultIsKept, BuffersAreKept, ClientIsKept
<1>14. PointersAreKept(t)
  <2>1. ASSUME NEW o \in t.held PROVE PointerIsKept(t, o)
    <3>1. CASE o = p
      BY <3>1, <1>3, <1>9, <1>11 DEF PointerIsKept
    <3>2. CASE o \in kept
      <4>1. PointerIsKept(s, o) /\ (o.into # "arena" \/ o.at # slot) /\ o \in Pointer
        BY <3>2, <1>10 DEF ClientIsKept, PointersAreKept
      <4>2. CASE o.into = "cache"
        BY <4>1, <4>2, <1>11 DEF PointerIsKept
      <4>3. CASE o.into = "arena"
        <5>1. o.at \in DOMAIN s.arena /\ o.at \in {1, 2} /\ s.arena[o.at] = o.text /\ o.moves = s.arenaMoves /\ o.at # slot
          BY <4>1, <4>3 DEF PointerIsKept
        <5>2. slot <= Len(s.arena)
          BY <1>1, <5>1
        <5>3. moves = s.arenaMoves
          BY <5>2 DEF moves
        <5> QED BY <4>3, <5>1, <5>3, <1>3, <1>11 DEF PointerIsKept
      <4> QED BY <4>1, <4>2, <4>3 DEF Pointer
    <3> QED BY <3>1, <3>2, <1>11
  <2> QED BY <2>1, <1>3, <1>11 DEF PointersAreKept
<1>15. ClientIsKept(t)
  BY <1>11, <1>13, <1>14 DEF ClientIsKept
<1> QED BY <1>5, <1>6, <1>12, <1>15
-----------------------------------------------------------------------------
(* The calls.                                                              *)

ClientInv == IsClientQuery(query) /\ ClientIsKept(state) /\ IsRight(out)

(* The query never changes.                                                *)
LEMMA SameQuery ==
  ASSUME query' = query, IsClientQuery(query), ClientIsKept(state'), IsRight(out')
  PROVE  ClientInv'
<1>1. Returned' = Returned /\ Shown' = Shown
  BY DEF Returned, Shown
<1>2. WithShown' = WithShown /\ TextNames' = TextNames
  BY <1>1 DEF WithShown, TextNames
<1>3. Text' = Text /\ \A c : Mask(c)' = Mask(c)
  BY <1>1, <1>2 DEF Text, Mask
<1>4. Pointer' = Pointer /\ Buffers' = Buffers
  BY <1>3 DEF Pointer, Buffers, Buffer
<1>5. ClientStates' = ClientStates
  BY <1>1, <1>2, <1>3, <1>4 DEF ClientStates
<1>6. \A kind, c, values : BufferIsRight(kind, c, values)' <=> BufferIsRight(kind, c, values)
  BY <1>1 DEF BufferIsRight, Unreliable
<1>7. \A c, b : BufferIsKept(c, b)' <=> BufferIsKept(c, b)
  BY <1>3, <1>6 DEF BufferIsKept
<1>8. ClientIsKept(state)'
  BY <1>1, <1>2, <1>5, <1>7 DEF ClientIsKept, ResultIsKept, BuffersAreKept, PointersAreKept, PointerIsKept
<1>9. IsRight(out)'
  BY <1>1, <1>3, <1>6 DEF IsRight, CellIsRight
<1>10. IsClientQuery(query)'
  OBVIOUS
<1> QED BY <1>8, <1>9, <1>10 DEF ClientInv

(* What a call finds in a result.                                          *)
LEMMA Finds ==
  ASSUME ClientInv, HasResult, NEW r \in RowNumbers, NEW c, InRange(r) => c \in DOMAIN state.result.types
  PROVE  /\ InRange(r) <=> r <= Len(Shown)
         /\ InRange(r) => /\ ValueAt(r, c) = Shown[r][c] /\ Shown[r][c] \in Value
                          /\ ~Shown[r][c].null => Shown[r][c].type \in ResultTypes
<1>1. IsClientQuery(query) /\ state.result \in {Returned, WithShown}
  BY DEF ClientInv, ClientIsKept, ResultIsKept, HasResult
<1>2. MaterialisedRows(state.result) = Shown /\ RowCount(state.result) = Len(Shown) /\ state.result.types = Returned.types
  BY <1>1, KeptRows
<1>3. Typed(Shown, Returned.types) /\ Returned.types \in Seq(ResultTypes)
  BY <1>1, ShownType, AnswerType DEF IsAnswer, Returned
<1>4. ASSUME InRange(r)
      PROVE ValueAt(r, c) = Shown[r][c] /\ Shown[r][c] \in Value /\ (~Shown[r][c].null => Shown[r][c].type \in ResultTypes)
  <2>1. r \in DOMAIN Shown /\ Shown \in Seq(RowsOf(Returned.types)) /\ c \in DOMAIN Returned.types
    BY <1>2, <1>3, <1>4 DEF InRange, Typed, RowNumbers
  <2>2. Shown[r] \in RowsOf(Returned.types)
    BY <2>1
  <2>3. Shown[r][c] \in Value /\ (~Shown[r][c].null => Shown[r][c].type = BoxedType(Returned.types[c]))
    BY <1>3, <2>1, <2>2 DEF RowsOf, Typed
  <2>4. BoxedType(Returned.types[c]) \in ResultTypes
    BY <1>3, <2>1 DEF BoxedType, ResultTypes
  <2> QED BY <1>2, <2>3, <2>4 DEF ValueAt
<1> QED BY <1>2, <1>4 DEF InRange

LEMMA RowsKept ==
  ASSUME ClientInv, HasResult
  PROVE  ClientIsKept(WithRows) /\ WithRows.at = "result"
<1>1. state \in ClientStates /\ ClientIsKept(state) /\ state.at = "result" /\ IsClientQuery(query)
  BY DEF ClientInv, ClientIsKept, HasResult
<1>2. ClientIsKept(WithRows) /\ WithRows = [state EXCEPT !.result = WithShown]
  BY <1>1, BoxingKeeps DEF WithRows
<1> QED BY <1>1, <1>2 DEF ClientStates

LEMMA CellAnswer ==
  ASSUME NEW call \in {"is_null", "int32", "int64", "double"}, NEW r \in Nat, NEW c, NEW answer, Len(Shown) \in Nat,
         r <= Len(Shown) => IF call = "is_null" THEN answer = <<IF Shown[r][c].null THEN 1 ELSE 0>>
                            ELSE Shown[r][c].null \/ Shown[r][c].type \in Numeric(call)
                                   => answer = <<IF Shown[r][c].null THEN 0 ELSE Shown[r][c].bits>>
  PROVE  IsRight([call |-> call, row |-> r, col |-> c, answer |-> answer])
<1> DEFINE o == [call |-> call, row |-> r, col |-> c, answer |-> answer]
           v == Shown[r][c]
<1>1. o.call = call /\ o.row = r /\ o.col = c /\ o.answer = answer
  OBVIOUS
<1> HIDE DEF o
<1>2. CellIsRight(o)
  <2>1. CASE r > Len(Shown)
    BY <1>1, <2>1 DEF CellIsRight
  <2>2. CASE r <= Len(Shown) /\ call = "is_null"
    <3>1. ~(r > Len(Shown))
      BY <2>2
    <3> QED BY <1>1, <2>2, <3>1 DEF CellIsRight
  <2>3. CASE r <= Len(Shown) /\ call # "is_null"
    <3>1. ~(r > Len(Shown)) /\ call # "varchar"
      BY <2>3
    <3> QED BY <1>1, <2>3, <3>1 DEF CellIsRight
  <2> QED BY <2>1, <2>2, <2>3
<1>3. IsRight(o)
  BY <1>1, <1>2 DEF IsRight
<1> QED BY <1>3 DEF o

LEMMA FetchKeeps ==
  ASSUME ClientInv, UNCHANGED query, NEW r \in RowNumbers, NEW c \in ColumnNumbers,
         ValueIsNull(r, c) \/ ValueInt32(r, c) \/ ValueInt64(r, c) \/ ValueDouble(r, c)
  PROVE  ClientInv'
<1> DEFINE v == Shown[r][c]
<1>1. /\ HasResult /\ (InRange(r) => c \in DOMAIN state.result.types)
      /\ state' = IF InRange(r) THEN WithRows ELSE state
  BY DEF ValueIsNull, ValueInt32, ValueInt64, ValueDouble, Fetch
<1>2. ClientIsKept(state')
  BY <1>1, RowsKept DEF ClientInv
<1>3. /\ InRange(r) <=> r <= Len(Shown)
      /\ InRange(r) => ValueAt(r, c) = v /\ v \in Value
  BY <1>1, Finds
<1>4. r \in Nat /\ Len(Shown) \in Nat
  <2>1. Typed(Shown, Returned.types)
    BY ShownType DEF ClientInv
  <2> QED BY <2>1 DEF Typed, RowNumbers
<1>5. InRange(r) => v.null \in BOOLEAN
  BY <1>3 DEF Value
<1> HIDE DEF v
<1> SUFFICES IsRight(out')
  BY <1>2, SameQuery DEF ClientInv
<1>6. CASE ValueIsNull(r, c)
  <2>1. out' = [call |-> "is_null", row |-> r, col |-> c, answer |-> IF InRange(r) /\ ~v.null THEN <<0>> ELSE <<1>>]
    BY <1>3, <1>6 DEF ValueIsNull, Fetch
  <2> QED BY <1>3, <1>4, <1>5, <2>1, CellAnswer DEF v
<1>7. CASE ValueInt32(r, c)
  <2>1. out' = [call |-> "int32", row |-> r, col |-> c, answer |-> IF InRange(r) /\ ~v.null THEN GetAs(v, "int32") ELSE <<0>>]
    BY <1>3, <1>7 DEF ValueInt32, Fetch
  <2>2. v.type \in Numeric("int32") => GetAs(v, "int32") = <<v.bits>>
    BY DEF Numeric, GetAs, MemberOf
  <2> QED BY <1>3, <1>4, <1>5, <2>1, <2>2, CellAnswer DEF v
<1>8. CASE ValueInt64(r, c)
  <2> DEFINE n == GetAs(v, IF v.type = "INTEGER" THEN "int32" ELSE "int64")
  <2>1. out' = [call |-> "int64", row |-> r, col |-> c, answer |-> IF InRange(r) /\ ~v.null THEN n ELSE <<0>>]
    BY <1>3, <1>8 DEF ValueInt64, Fetch
  <2>2. v.type \in Numeric("int64") => n = <<v.bits>>
    BY DEF Numeric, GetAs, MemberOf
  <2> HIDE DEF n
  <2> QED BY <1>3, <1>4, <1>5, <2>1, <2>2, CellAnswer DEF v
<1>9. CASE ValueDouble(r, c)
  <2>1. out' = [call |-> "double", row |-> r, col |-> c, answer |-> IF InRange(r) /\ ~v.null THEN GetAs(v, "DOUBLE") ELSE <<0>>]
    BY <1>3, <1>9 DEF ValueDouble, Fetch
  <2>2. v.type \in Numeric("double") => GetAs(v, "DOUBLE") = <<v.bits>>
    BY DEF Numeric, GetAs, MemberOf
  <2> QED BY <1>3, <1>4, <1>5, <2>1, <2>2, CellAnswer DEF v
<1> QED BY <1>6, <1>7, <1>8, <1>9

LEMMA VarcharKeeps ==
  ASSUME ClientInv, UNCHANGED query, NEW r \in RowNumbers, NEW c \in ColumnNumbers, ValueVarchar(r, c)
  PROVE  ClientInv'
<1> DEFINE v == Shown[r][c]
           pushed == Pushed(WithRows, ToText(v))
<1>1. HasResult /\ InRange(r) /\ c \in DOMAIN state.result.types
  BY DEF ValueVarchar
<1>2. /\ r <= Len(Shown) /\ ValueAt(r, c) = v /\ v \in Value
      /\ ~v.null => v.type \in ResultTypes
  BY <1>1, Finds
<1>3. /\ state' = IF v.null THEN WithRows ELSE Given(pushed, CachePointer(pushed))
      /\ out' = [call |-> "varchar", row |-> r, col |-> c, answer |-> <<IF v.null THEN NullText ELSE ToText(v)>>]
  BY <1>2 DEF ValueVarchar
<1>4. ClientIsKept(WithRows) /\ WithRows.at = "result"
  BY <1>1, RowsKept
<1>5. ~v.null => ToText(v) \in Text
  <2> SUFFICES ASSUME ~v.null PROVE ToText(v) \in Text
    OBVIOUS
  <2>1. v.type \in TextNames /\ v.bits \in Int
    BY <1>2 DEF TextNames, Value
  <2> HIDE DEF v
  <2> QED BY <2>1 DEF ToText, Text
<1> HIDE DEF v
<1>6. ClientIsKept(state')
  BY <1>3, <1>4, <1>5, PushingKeeps
<1>7. IsRight(out')
  <2>1. r \in Nat /\ Len(Shown) \in Nat
    <3>1. Typed(Shown, Returned.types)
      BY ShownType DEF ClientInv
    <3> QED BY <3>1 DEF Typed, RowNumbers
  <2> QED BY <1>2, <1>3, <2>1 DEF IsRight, CellIsRight, v
<1> QED BY <1>6, <1>7, SameQuery DEF ClientInv

LEMMA ColumnKeeps ==
  ASSUME ClientInv, UNCHANGED query, NEW kind \in Kinds, NEW c \in ColumnNumbers, ColumnBuffer(kind, c)
  PROVE  ClientInv'
<1> DEFINE ready == EnsureColBuf(state)
           offered == Offers(kind, state.result.types[c])
           done == IF offered THEN Built(ready, kind, c) ELSE ready
<1>1. HasResult /\ c \in DOMAIN state.result.types /\ state' = done
      /\ out' = [call |-> "buffer", kind |-> kind, col |-> c, offered |-> offered, values |-> done.buffers[c].of[kind].values]
  BY DEF ColumnBuffer
<1>2. Ready(ready, c) /\ ready.result = state.result
  BY <1>1, EnsureColBufKeeps DEF ClientInv, HasResult
<1>3. offered => ClientIsKept(Built(ready, kind, c)) /\ BufferIsRight(kind, c, Built(ready, kind, c).buffers[c].of[kind].values)
  BY <1>2, BuiltKeeps DEF ClientInv
<1> HIDE DEF ready, offered
<1>4. ClientIsKept(state')
  BY <1>1, <1>2, <1>3 DEF Ready
<1>5. IsRight(out')
  <2>1. offered => BufferIsRight(kind, c, done.buffers[c].of[kind].values)
    BY <1>3
  <2> HIDE DEF done
  <2> QED BY <1>1, <2>1 DEF IsRight
<1> QED BY <1>4, <1>5, SameQuery DEF ClientInv

LEMMA ValidityKeeps ==
  ASSUME ClientInv, UNCHANGED query, NEW c \in ColumnNumbers, ValidityBuffer(c)
  PROVE  ClientInv'
<1> DEFINE ready == EnsureColBuf(state)
           done == BuildValidity(ready, c)
           mask == Mask(c)
<1>1. HasResult /\ c \in DOMAIN state.result.types /\ state' = done
      /\ out' = [call |-> "validity", col |-> c, valid |-> IF done.buffers[c].hasNulls THEN done.buffers[c].validity ELSE <<>>]
  BY DEF ValidityBuffer
<1>2. Ready(ready, c) /\ ready.result = state.result
  BY <1>1, EnsureColBufKeeps DEF ClientInv, HasResult
<1>3. Ready(done, c) /\ done.buffers[c].validity = mask /\ (done.buffers[c].hasNulls <=> 0 \in Range(mask))
  BY <1>2, BuildValidityKeeps DEF ClientInv
<1>4. 0 \in Range(mask) <=> ~\A r \in DOMAIN Shown : ~Shown[r][c].null
  BY DEF Mask, Range
<1> HIDE DEF done, mask
<1>5. IsRight(out')
  <2>1. out'.call = "validity" /\ out'.col = c /\ out'.valid = IF 0 \in Range(mask) THEN mask ELSE <<>>
    BY <1>1, <1>3
  <2> QED BY <1>4, <2>1 DEF IsRight, mask
<1> QED BY <1>1, <1>3, <1>5, SameQuery DEF ClientInv, Ready

(* The calls that answer with nothing a client has asked of its result.    *)
LEMMA NothingIsRight == IsRight(Nothing)
BY DEF IsRight, Nothing

LEMMA QueryKeeps ==
  ASSUME ClientInv, UNCHANGED query, QueryCall
  PROVE  ClientInv'
<1> DEFINE result == IF query.fails THEN NoResult ELSE Answer(query)
           t == [state EXCEPT !.at = "result", !.result = result]
<1>1. state.at = "connected" /\ state' = t /\ out' = [call |-> "query", ok |-> ~query.fails]
  BY DEF QueryCall
<1>2. result = Returned
  <2>1. ASSUME query.fails PROVE Answer(query) = NoResult
    <3>1. query.types = <<>> /\ query.chunks = <<>> /\ ~(query.affected >= 0) /\ query.combined \in BOOLEAN
      BY <2>1 DEF IsClientQuery, ClientInv
    <3>2. Retagged(query.display, <<>>) = <<>> /\ Filled(<<>>) = <<>>
      <4>1. [k \in DOMAIN <<>> |-> IF <<>>[k] = <<>> THEN <<>> ELSE <<<<>>[k]>>] = <<>>
        OBVIOUS
      <4> QED BY <4>1, FlattenEmpty DEF Retagged, Filled
    <3>3. MaterialisedRows(NoResult) = <<>>
      <4>1. Cells(NoResult) = <<>> /\ NoResult.rows = <<>>
        BY FlattenEmpty DEF Cells, NoResult
      <4> QED BY <4>1 DEF MaterialisedRows
    <3>4. Answer(query) = IF query.combined THEN [NoResult EXCEPT !.rows = MaterialisedRows(NoResult), !.chunks = <<>>] ELSE NoResult
      BY <3>1, <3>2 DEF Answer, NoResult
    <3> QED BY <3>3, <3>4 DEF NoResult
  <2> QED BY <2>1 DEF Returned
<1> HIDE DEF result
<1>3. state \in ClientStates /\ ResultIsKept(state) /\ BuffersAreKept(state) /\ PointersAreKept(state)
  BY DEF ClientInv, ClientIsKept
<1>4. /\ t \in ClientStates /\ t.at = "result" /\ t.result = Returned /\ t.buffers = state.buffers
      /\ t.cache = state.cache /\ t.arena = state.arena /\ t.arenaMoves = state.arenaMoves /\ t.held = state.held
  BY <1>2, <1>3 DEF ClientStates
<1> HIDE DEF t
<1>5. ClientIsKept(t)
  BY <1>3, <1>4 DEF ClientIsKept, ResultIsKept, BuffersAreKept, PointersAreKept, PointerIsKept
<1>6. IsRight(out')
  BY <1>1 DEF IsRight
<1> QED BY <1>1, <1>5, <1>6, SameQuery DEF ClientInv

LEMMA FreeKeeps ==
  ASSUME ClientInv, UNCHANGED query, FreeResult
  PROVE  ClientInv'
<1> DEFINE t == [state EXCEPT !.at = "freed", !.result = NoResult, !.cache = <<>>, !.capacity = 0, !.buffers = <<>>, !.held = {}]
<1>1. state' = t /\ out' = Nothing
  BY DEF FreeResult
<1>2. state \in ClientStates /\ PointersAreKept(state)
  BY DEF ClientInv, ClientIsKept
<1>3. /\ t \in ClientStates /\ t.at = "freed" /\ t.result = NoResult /\ t.buffers = <<>>
      /\ t.arena = state.arena /\ t.held = {}
  <2> DEFINE none == <<>>
             u == [state EXCEPT !.at = "freed", !.result = NoResult, !.cache = none]
             w == [u EXCEPT !.capacity = 0, !.buffers = none]
  <2>1. none \in Seq(Text) /\ none \in Seq(Buffers)
    OBVIOUS
  <2>2. t = [w EXCEPT !.held = {}]
    OBVIOUS
  <2> HIDE DEF t, none
  <2>3. u \in ClientStates /\ u.at = "freed" /\ u.result = NoResult /\ u.arena = state.arena
    BY <1>2, <2>1 DEF ClientStates
  <2> HIDE DEF u
  <2>4. w \in ClientStates /\ w.at = "freed" /\ w.result = NoResult /\ w.buffers = none /\ w.arena = state.arena
    BY <2>1, <2>3 DEF ClientStates
  <2> HIDE DEF w
  <2> QED BY <2>2, <2>4 DEF ClientStates, none
<1> HIDE DEF t
<1>4. ClientIsKept(t)
  BY <1>2, <1>3 DEF ClientIsKept, ResultIsKept, BuffersAreKept, PointersAreKept
<1> QED BY <1>1, <1>4, NothingIsRight, SameQuery DEF ClientInv

LEMMA BrowseKeeps ==
  ASSUME ClientInv, UNCHANGED query, NEW t \in 1 .. 2, NEW c \in ColumnNumbers, TableName(t) \/ ColumnName(t, c)
  PROVE  ClientInv'
<1>1. t \in DOMAIN state.tables /\ out' = Nothing /\ state.tables \in Seq(Range(query.tables)) /\ ClientIsKept(state)
  BY DEF TableName, ColumnName, ClientInv, ClientIsKept, ClientStates
<1>2. state.tables[t] \in Range(query.tables)
  BY <1>1
<1> DEFINE n == state.tables[t].name
<1>3. n \in TextNames
  BY <1>2 DEF TextNames
<1>4. PICK slot \in {1, 2}, b \in Int : Introspect(slot, [of |-> n, bits |-> b])
  <2>1. CASE TableName(t)
    BY <2>1 DEF TableName, Slots
  <2>2. CASE ColumnName(t, c)
    BY <2>2 DEF ColumnName, Slots, ColumnNumbers
  <2> QED BY <2>1, <2>2
<1> HIDE DEF n
<1>5. [of |-> n, bits |-> b] \in Text
  BY <1>3 DEF Text
<1>6. ClientIsKept(state')
  BY <1>1, <1>4, <1>5, IntrospectionKeeps DEF Introspect
<1> QED BY <1>1, <1>6, NothingIsRight, SameQuery DEF ClientInv

LEMMA DropKeeps ==
  ASSUME ClientInv, UNCHANGED query, TableDropped
  PROVE  ClientInv'
<1>1. PICK i \in DOMAIN state.tables : state' = [state EXCEPT !.tables = RemoveAt(state.tables, i)]
  BY DEF TableDropped
<1> DEFINE tables == RemoveAt(state.tables, i)
           t == [state EXCEPT !.tables = tables]
<1>2. state \in ClientStates /\ ClientIsKept(state) /\ out' = Nothing /\ state.tables \in Seq(Range(query.tables))
  BY DEF TableDropped, ClientInv, ClientIsKept, ClientStates
<1>3. tables \in Seq(Range(query.tables))
  <2> DEFINE T == Range(query.tables)
  <2> HIDE DEF T
  <2>1. SubSeq(state.tables, 1, i - 1) \in Seq(T) /\ SubSeq(state.tables, i + 1, Len(state.tables)) \in Seq(T)
    BY <1>2 DEF T
  <2> QED BY <2>1 DEF RemoveAt, T
<1> HIDE DEF tables
<1>4. /\ t \in ClientStates /\ t.at = state.at /\ t.result = state.result /\ t.buffers = state.buffers
      /\ t.cache = state.cache /\ t.arena = state.arena /\ t.arenaMoves = state.arenaMoves /\ t.held = state.held
  BY <1>2, <1>3 DEF ClientStates
<1>5. state' = t
  BY <1>1 DEF tables
<1> HIDE DEF t
<1>6. ClientIsKept(t)
  BY <1>2, <1>4 DEF ClientIsKept, ResultIsKept, BuffersAreKept, PointersAreKept, PointerIsKept
<1> QED BY <1>2, <1>5, <1>6, NothingIsRight, SameQuery DEF ClientInv

LEMMA ClientAtFirst == ClientInit => ClientInv
<1> SUFFICES ASSUME ClientInit PROVE ClientInv
  OBVIOUS
<1>1. /\ state = [at |-> "connected", result |-> NoResult, buffers |-> <<>>, cache |-> <<>>, capacity |-> 0, moves |-> 0,
                  tables |-> query.tables, arena |-> <<>>, arenaMoves |-> 0, held |-> {}, calls |-> 0]
      /\ out = Nothing /\ IsClientQuery(query)
  BY DEF ClientInit, Fresh
<1>2. query.tables \in Seq(Range(query.tables))
  <2>1. query.tables \in Seq(TableEntry)
    BY <1>1 DEF IsClientQuery
  <2>2. query.tables \in [DOMAIN query.tables -> Range(query.tables)]
    BY <2>1 DEF Range
  <2> QED BY <2>1, <2>2, AlongSequence
<1>3. state \in ClientStates
  BY <1>1, <1>2 DEF ClientStates
<1>4. ResultIsKept(state) /\ BuffersAreKept(state) /\ PointersAreKept(state)
  BY <1>1 DEF ResultIsKept, BuffersAreKept, PointersAreKept
<1> QED BY <1>1, <1>3, <1>4, NothingIsRight DEF ClientInv, ClientIsKept

LEMMA ClientSteps == ClientInv /\ [ClientNext]_clientVars => ClientInv'
<1> SUFFICES ASSUME ClientInv, [ClientNext]_clientVars PROVE ClientInv'
  OBVIOUS
<1>1. CASE ClientNext
  <2> USE <1>1
  <2>1. UNCHANGED query
    BY DEF ClientNext
  <2>2. CASE QueryCall
    BY <2>1, <2>2, QueryKeeps
  <2>3. CASE FreeResult
    BY <2>1, <2>3, FreeKeeps
  <2>4. CASE \E r \in RowNumbers, c \in ColumnNumbers :
               ValueIsNull(r, c) \/ ValueInt32(r, c) \/ ValueInt64(r, c) \/ ValueDouble(r, c) \/ ValueVarchar(r, c)
    BY <2>1, <2>4, FetchKeeps, VarcharKeeps
  <2>5. CASE \E c \in ColumnNumbers : ValidityBuffer(c) \/ \E kind \in Kinds : ColumnBuffer(kind, c)
    BY <2>1, <2>5, ValidityKeeps, ColumnKeeps
  <2>6. CASE \E t \in 1 .. 2 : TableName(t) \/ \E c \in ColumnNumbers : ColumnName(t, c)
    <3>1. 1 \in ColumnNumbers
      BY DEF ColumnNumbers
    <3> QED BY <2>1, <2>6, <3>1, BrowseKeeps
  <2>7. CASE TableDropped
    BY <2>1, <2>7, DropKeeps
  <2> QED BY <2>2, <2>3, <2>4, <2>5, <2>6, <2>7 DEF ClientNext
<1>2. CASE UNCHANGED clientVars
  <2>1. query' = query /\ state' = state /\ out' = out
    BY <1>2 DEF clientVars
  <2> QED BY <2>1, SameQuery DEF ClientInv
<1> QED BY <1>1, <1>2

(* Whatever a client fetches, in whatever order and through whichever call. *)
THEOREM FetchesAreRight == ClientSpec => []FetchesAgree
<1>1. ClientInv => FetchesAgree
  BY DEF ClientInv, FetchesAgree
<1> QED BY <1>1, ClientAtFirst, ClientSteps, PTL DEF ClientSpec

(* Every string a client was given is where it says, or was short.          *)
THEOREM PointersAreValid == ClientSpec => []PointersStay
<1>1. ClientInv => PointersStay
  <2> SUFFICES ASSUME ClientIsKept(state) PROVE PointersStay
    BY DEF ClientInv
  <2>1. ASSUME NEW p \in state.held PROVE PointerIsKept(state, p) /\ p.into \in {"cache", "arena"}
    BY DEF ClientIsKept, PointersAreKept, ClientStates, Pointer
  <2> QED BY <2>1 DEF PointersStay, PointerIsKept
<1> QED BY <1>1, ClientAtFirst, ClientSteps, PTL DEF ClientSpec
=============================================================================
