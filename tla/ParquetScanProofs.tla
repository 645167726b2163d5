------------------------- MODULE ParquetScanProofs --------------------------
(***************************************************************************)
(* For every file, number of threads and request: the rows come in the     *)
(* order of the file, a LIMIT loses none of those it lets through, each    *)
(* group is consumed once, and no group is decoded too far ahead.          *)
(***************************************************************************)
EXTENDS ParquetScan, SequenceLemmas, FiniteSetTheorems

-----------------------------------------------------------------------------
(* The least of two numbers and the greatest                               *)

LEMMA MinOfTwo ==
  ASSUME NEW a \in Int, NEW b \in Int PROVE Min({a, b}) = IF a <= b THEN a ELSE b
<1> DEFINE P(x) == x \in {a, b} /\ \A y \in {a, b} : x <= y
<1>1. \E x : P(x)
  <2>1. P(a) \/ P(b)
    OBVIOUS
  <2> QED BY <2>1
<1>2. P(Min({a, b}))
  BY <1>1 DEF Min
<1> QED BY <1>2

LEMMA MaxOfTwo ==
  ASSUME NEW a \in Int, NEW b \in Int PROVE Max({a, b}) = IF a <= b THEN b ELSE a
<1> DEFINE P(x) == x \in {a, b} /\ \A y \in {a, b} : x >= y
<1>1. \E x : P(x)
  <2>1. P(a) \/ P(b)
    OBVIOUS
  <2> QED BY <2>1
<1>2. P(Max({a, b}))
  BY <1>1 DEF Max
<1> QED BY <1>2

(* A set of numbers has a least one.                                       *)
LEMMA MinIsLeast ==
  ASSUME NEW S \in SUBSET Nat, S # {}
  PROVE  Min(S) \in S /\ \A y \in S : Min(S) <= y
<1>1. PICK n \in S : \A m \in S : <<m, n>> \notin OpToRel(<, Nat)
  BY NatLessThanWellFounded, WFMin
<1>2. \A m \in S : n <= m
  <2> TAKE m \in S
  <2>1. m < n => <<m, n>> \in OpToRel(<, Nat)
    BY DEF OpToRel
  <2>2. ~(m < n)
    BY <1>1, <2>1
  <2>3. m \in Nat /\ n \in Nat
    OBVIOUS
  <2> QED BY <2>2, <2>3
<1>3. \E x \in S : \A y \in S : x <= y
  BY <1>2
<1> QED BY <1>3 DEF Min

-----------------------------------------------------------------------------
(* The rows of a file, for the groups p that a filter excludes             *)

Row == Groups \X Nat

SizeOf(p, g) == IF g \in p THEN 0 ELSE Sizes[g]
RowsOf(p, g) == [i \in 1 .. SizeOf(p, g) |-> <<g, i>>]

FirstRows(p, n) == FlattenSeq([k \in 1 .. n |-> RowsOf(p, k - 1)])

LEMMA RowsOfType ==
  ASSUME NEW p, NEW g \in Groups
  PROVE  /\ SizeOf(p, g) \in Nat
         /\ RowsOf(p, g) \in Seq(Row)
         /\ Len(RowsOf(p, g)) = SizeOf(p, g)
<1>1. SizeOf(p, g) \in Nat
  BY ParquetScanAssumption DEF SizeOf
<1> DEFINE N == SizeOf(p, g)
<1>2. \A i \in 1 .. N : <<g, i>> \in Row
  BY <1>1 DEF Row
<1> HIDE DEF N
<1>3. [i \in 1 .. N |-> <<g, i>>] \in Seq(Row) /\ Len([i \in 1 .. N |-> <<g, i>>]) = N
  BY <1>1, <1>2 DEF N
<1> QED BY <1>1, <1>3 DEF RowsOf, N

LEMMA FirstRowsStep ==
  ASSUME NEW p, NEW n \in 0 .. NumGroups
  PROVE  /\ FirstRows(p, n) \in Seq(Row)
         /\ n < NumGroups => FirstRows(p, n + 1) = FirstRows(p, n) \o RowsOf(p, n)
<1> DEFINE parts(m) == [k \in 1 .. m |-> RowsOf(p, k - 1)]
           R == Seq(Row)
<1>1. NumGroups \in Nat /\ n \in Nat
  BY ParquetScanAssumption
<1>2. ASSUME NEW m \in 0 .. NumGroups PROVE parts(m) \in Seq(R)
  <2>1. \A k \in 1 .. m : k - 1 \in Groups
    BY <1>1 DEF Groups
  <2>2. \A k \in 1 .. m : RowsOf(p, k - 1) \in R
    BY <2>1, RowsOfType
  <2>3. m \in Nat
    BY <1>1
  <2> HIDE DEF R
  <2> QED BY <2>2, <2>3
<1>3. FirstRows(p, n) \in R
  BY <1>2, FlattenType DEF FirstRows
<1>4. ASSUME n < NumGroups PROVE FirstRows(p, n + 1) = FirstRows(p, n) \o RowsOf(p, n)
  <2>1. n \in Groups /\ n + 1 \in 0 .. NumGroups
    BY <1>1, <1>4 DEF Groups
  <2>2. RowsOf(p, n) \in R
    BY <2>1, RowsOfType
  <2>3. parts(n + 1) = Append(parts(n), RowsOf(p, n))
    <3> DEFINE s == parts(n) t == parts(n + 1) e == RowsOf(p, n)
    <3>1. s \in Seq(R) /\ t \in Seq(R) /\ e \in R
      BY <1>2, <2>1, <2>2
    <3>2. Len(s) = n /\ Len(t) = n + 1 /\ \A i \in 1 .. n : t[i] = s[i]
      BY <1>1
    <3>3. t[n + 1] = e
      BY <1>1
    <3> HIDE DEF s, t, e, R
    <3>4. Append(s, e) \in Seq(R) /\ Len(Append(s, e)) = n + 1
      BY <1>1, <3>1, <3>2
    <3>5. \A i \in 1 .. n + 1 : t[i] = Append(s, e)[i]
      BY <1>1, <3>1, <3>2, <3>3
    <3>6. t = Append(s, e)
      BY <3>1, <3>2, <3>4, <3>5, SeqEqual
    <3> QED BY <3>6 DEF s, t, e
  <2>4. FlattenSeq(Append(parts(n), RowsOf(p, n))) = FlattenSeq(parts(n)) \o RowsOf(p, n)
    <3>1. parts(n) \in Seq(R)
      BY <1>2
    <3> HIDE DEF parts
    <3> QED BY <2>2, <3>1, FlattenAppend
  <2> QED BY <2>3, <2>4 DEF FirstRows
<1> QED BY <1>3, <1>4

LEMMA FirstRowsNone == ASSUME NEW p PROVE FirstRows(p, 0) = <<>>
<1>1. [k \in 1 .. 0 |-> RowsOf(p, k - 1)] = <<>>
  OBVIOUS
<1> QED BY <1>1, FlattenEmpty DEF FirstRows

(* What is missing in the rows of some groups comes after them.            *)
LEMMA FirstRowsBegin ==
  ASSUME NEW p, NEW n \in 0 .. NumGroups
  PROVE  \E rest \in Seq(Row) : FirstRows(p, NumGroups) = FirstRows(p, n) \o rest
<1> DEFINE All == FirstRows(p, NumGroups)
           Begins(m) == \E rest \in Seq(Row) : All = FirstRows(p, m) \o rest
           G == {d \in Nat : d <= NumGroups => Begins(NumGroups - d)}
<1>1. NumGroups \in Nat
  BY ParquetScanAssumption
<1>2. 0 \in G
  <2>1. All \in Seq(Row) /\ NumGroups - 0 = NumGroups
    BY <1>1, FirstRowsStep
  <2>2. All = All \o <<>> /\ <<>> \in Seq(Row)
    <3> HIDE DEF All
    <3> QED BY <2>1
  <2>3. Begins(NumGroups)
    BY <2>2
  <2> QED BY <2>1, <2>3
<1>3. ASSUME NEW d \in Nat, d \in G PROVE d + 1 \in G
  <2> SUFFICES ASSUME d + 1 <= NumGroups PROVE Begins(NumGroups - (d + 1))
    <3> HIDE DEF Begins
    <3> QED OBVIOUS
  <2> DEFINE m == NumGroups - (d + 1)
  <2>1. m \in 0 .. NumGroups /\ m \in Groups /\ m < NumGroups /\ m + 1 = NumGroups - d
    BY <1>1 DEF Groups
  <2>2. PICK rest \in Seq(Row) : All = FirstRows(p, m + 1) \o rest
    BY <1>1, <1>3, <2>1
  <2>3. FirstRows(p, m + 1) = FirstRows(p, m) \o RowsOf(p, m) /\ FirstRows(p, m) \in Seq(Row)
    BY <2>1, FirstRowsStep
  <2>4. RowsOf(p, m) \in Seq(Row)
    BY <2>1, RowsOfType
  <2> HIDE DEF All, m
  <2>5. All = FirstRows(p, m) \o (RowsOf(p, m) \o rest)
    <3> DEFINE a == FirstRows(p, m) b == RowsOf(p, m)
    <3>1. a \in Seq(Row) /\ b \in Seq(Row) /\ All = (a \o b) \o rest
      BY <2>2, <2>3, <2>4
    <3> HIDE DEF a, b
    <3>2. (a \o b) \o rest = a \o (b \o rest)
      BY <3>1, ConcatAssociative
    <3>3. All = a \o (b \o rest)
      BY <3>1, <3>2
    <3> QED BY <3>3 DEF a, b
  <2>6. RowsOf(p, m) \o rest \in Seq(Row)
    BY <2>4
  <2>7. Begins(m)
    BY <2>5, <2>6
  <2> QED BY <2>7 DEF m
<1>4. \A d \in Nat : d \in G
  <2> HIDE DEF G
  <2> QED BY <1>2, <1>3, Induction
<1>5. NumGroups - n \in Nat /\ NumGroups - n <= NumGroups /\ NumGroups - (NumGroups - n) = n
  BY <1>1
<1> HIDE DEF All
<1>6. Begins(NumGroups - (NumGroups - n))
  BY <1>4, <1>5
<1>7. Begins(n)
  BY <1>5, <1>6
<1> QED BY <1>7 DEF All

(* RowsBefore counts the rows of the groups before one.                    *)
SumStep(sum) == sum = [n \in 0 .. NumGroups |-> IF n = 0 THEN 0 ELSE sum[n - 1] + Sizes[n - 1]]

LEMMA RowsBeforeSteps ==
  /\ RowsBefore(0) = 0
  /\ \A n \in Groups : RowsBefore(n + 1) = RowsBefore(n) + Sizes[n]
<1>1. NumGroups \in Nat /\ Sizes \in [Groups -> Nat]
  BY ParquetScanAssumption
<1> DEFINE N == NumGroups
           step == [n \in Nat |-> [s \in Nat |-> IF n \in 1 .. N THEN s + Sizes[n - 1] ELSE s]]
<1>2. \A n \in 1 .. N : n - 1 \in Groups /\ Sizes[n - 1] \in Nat
  BY <1>1 DEF Groups
<1>3. step \in [Nat -> [Nat -> Nat]] /\ 0 \in Nat
  <2> HIDE DEF N
  <2> QED BY <1>2
<1>4. PICK f : Computes(f, 0, step, Nat, N)
  <2> HIDE DEF step
  <2> QED BY <1>1, <1>3, Recursion
<1>5. SumStep(f)
  <2>1. f \in [0 .. N -> Nat] /\ f[0] = 0
    BY <1>4 DEF Computes
  <2>2. ASSUME NEW n \in 0 .. N, n # 0 PROVE f[n] = f[n - 1] + Sizes[n - 1]
    <3>1. n \in 1 .. N /\ n \in Nat /\ n - 1 \in 0 .. N
      BY <1>1, <2>2
    <3>2. f[n] = step[n][f[n - 1]] /\ f[n - 1] \in Nat
      BY <1>4, <2>1, <3>1 DEF Computes
    <3> QED BY <3>1, <3>2
  <2> QED BY <2>1, <2>2 DEF SumStep
<1> DEFINE h == CHOOSE sum : SumStep(sum)
<1>6. SumStep(h)
  BY <1>5
<1>7. \A k : RowsBefore(k) = h[k]
  BY DEF RowsBefore, SumStep
<1> HIDE DEF h
<1>8. h[0] = 0 /\ \A n \in 0 .. N : n # 0 => h[n] = h[n - 1] + Sizes[n - 1]
  BY <1>1, <1>6 DEF SumStep
<1>9. ASSUME NEW n \in Groups PROVE h[n + 1] = h[n] + Sizes[n]
  <2>1. n + 1 \in 0 .. N /\ n + 1 # 0 /\ (n + 1) - 1 = n
    BY <1>1 DEF Groups
  <2> QED BY <1>8, <2>1
<1> QED BY <1>7, <1>8, <1>9

LEMMA RowsBeforeCounts ==
  \A n \in 0 .. NumGroups : Len(FirstRows({}, n)) = RowsBefore(n) /\ RowsBefore(n) \in Nat
<1> DEFINE Counted(n) == Len(FirstRows({}, n)) = RowsBefore(n) /\ RowsBefore(n) \in Nat
           G == {n \in Nat : n <= NumGroups => Counted(n)}
<1>1. NumGroups \in Nat
  BY ParquetScanAssumption
<1>2. 0 \in G
  BY FirstRowsNone, RowsBeforeSteps
<1>3. ASSUME NEW n \in Nat, n \in G PROVE n + 1 \in G
  <2> SUFFICES ASSUME n + 1 <= NumGroups PROVE Counted(n + 1)
    <3> HIDE DEF Counted
    <3> QED OBVIOUS
  <2>1. n \in 0 .. NumGroups /\ n \in Groups /\ n < NumGroups
    BY <1>1 DEF Groups
  <2>2. Counted(n)
    BY <1>1, <1>3
  <2>3. /\ FirstRows({}, n + 1) = FirstRows({}, n) \o RowsOf({}, n)
        /\ FirstRows({}, n) \in Seq(Row)
    BY <2>1, FirstRowsStep
  <2>4. RowsOf({}, n) \in Seq(Row) /\ Len(RowsOf({}, n)) = Sizes[n] /\ Sizes[n] \in Nat
    BY <2>1, RowsOfType DEF SizeOf
  <2>5. Len(FirstRows({}, n + 1)) = Len(FirstRows({}, n)) + Sizes[n]
    BY <2>3, <2>4
  <2> QED BY <2>1, <2>2, <2>4, <2>5, RowsBeforeSteps
<1>4. \A n \in Nat : n \in G
  <2> HIDE DEF G
  <2> QED BY <1>2, <1>3, Induction
<1>5. \A n \in 0 .. NumGroups : n \in Nat /\ n <= NumGroups
  BY <1>1
<1> QED BY <1>4, <1>5

-----------------------------------------------------------------------------
(* What LIMIT and OFFSET let through                                       *)

Cut(r, s) == LET last == IF r.limit = NoLimit THEN Len(s) ELSE r.offset + r.limit
             IN  SubSeq(s, r.offset + 1, Min({last, Len(s)}))

(* How many of k rows it lets through, and which of the c rows after them.  *)
Passed(o, l, k) == LET up == IF l # NoLimit /\ o + l <= k THEN o + l ELSE k
                   IN  IF o < up THEN up - o ELSE 0

From(o, k) == IF o <= k THEN 1 ELSE o - k + 1

UpTo(o, l, k, c) == LET room == IF l = NoLimit THEN c ELSE l - Passed(o, l, k)
                    IN  IF c <= From(o, k) - 1 + room THEN c ELSE From(o, k) - 1 + room

More(o, l, k, c) == IF From(o, k) <= UpTo(o, l, k, c)
                    THEN UpTo(o, l, k, c) - From(o, k) + 1 ELSE 0

PassedFacts(o, l, k, c) ==
  /\ Passed(o, l, k) \in Nat
  /\ Passed(o, l, k) > 0 => o + Passed(o, l, k) <= k
  /\ l # NoLimit /\ (Passed(o, l, k) >= l \/ k >= o + l) =>
       Passed(o, l, k) = l /\ Passed(o, l, k + c) = l
  /\ From(o, k) \in Nat /\ From(o, k) >= 1
  /\ UpTo(o, l, k, c) \in Int /\ UpTo(o, l, k, c) <= c
  /\ More(o, l, k, c) \in Nat
  /\ Passed(o, l, k + c) = Passed(o, l, k) + More(o, l, k, c)
  /\ More(o, l, k, c) > 0 => /\ o + Passed(o, l, k) - k = From(o, k) - 1
                             /\ o + Passed(o, l, k) >= k
                             /\ o + Passed(o, l, k) + More(o, l, k, c) <= k + c

LEMMA PassedAdds ==
  ASSUME NEW o \in Nat, NEW l \in Nat \cup {NoLimit}, NEW k \in Nat, NEW c \in Nat
  PROVE  PassedFacts(o, l, k, c)
<1>1. NoLimit = -1
  BY DEF NoLimit
<1> USE DEF PassedFacts, Passed, From, UpTo, More
<1>2. CASE l = NoLimit
  <2>1. CASE o <= k
    BY <1>1, <1>2, <2>1
  <2>2. CASE o > k
    BY <1>1, <1>2, <2>2
  <2> QED BY <2>1, <2>2
<1>3. CASE l \in Nat
  <2>1. CASE o <= k
    BY <1>1, <1>3, <2>1
  <2>2. CASE o > k
    BY <1>1, <1>3, <2>2
  <2> QED BY <2>1, <2>2
<1> QED BY <1>2, <1>3

LEMMA CutIs ==
  ASSUME NEW r \in AnyRequest, NEW s \in Seq(Row)
  PROVE  LET n == Passed(r.offset, r.limit, Len(s))
         IN  /\ Cut(r, s) \in Seq(Row)
             /\ Len(Cut(r, s)) = n
             /\ \A i \in 1 .. n : Cut(r, s)[i] = s[r.offset + i]
<1> DEFINE o == r.offset
           l == r.limit
           k == Len(s)
           last == IF l = NoLimit THEN k ELSE o + l
           up == IF l # NoLimit /\ o + l <= k THEN o + l ELSE k
           n  == IF o < up THEN up - o ELSE 0
<1>1. o \in Nat /\ l \in Nat \cup {NoLimit} /\ NoLimit = -1 /\ k \in Nat
  BY DEF AnyRequest, NoLimit
<1>2. Cut(r, s) = SubSeq(s, o + 1, Min({last, k}))
  BY DEF Cut
<1>3. n = Passed(o, l, k)
  BY DEF Passed
<1>4. \A i \in 1 .. k : s[i] \in Row
  OBVIOUS
<1> HIDE DEF o, l, k
<1>5. last \in Int
  BY <1>1
<1>6. Min({last, k}) = up /\ up \in Nat /\ up <= k
  <2>1. Min({last, k}) = IF last <= k THEN last ELSE k
    <3> HIDE DEF last
    <3> QED BY <1>1, <1>5, MinOfTwo
  <2> QED BY <1>1, <2>1
<1> HIDE DEF last, up
<1>7. \A i \in o + 1 .. up : s[i] \in Row
  BY <1>1, <1>4, <1>6
<1>8. /\ SubSeq(s, o + 1, up) \in Seq(Row)
      /\ Len(SubSeq(s, o + 1, up)) = IF o + 1 <= up THEN up - (o + 1) + 1 ELSE 0
      /\ \A i \in 1 .. up - (o + 1) + 1 : SubSeq(s, o + 1, up)[i] = s[o + 1 + i - 1]
  <2>1. o + 1 \in Int /\ up \in Int
    BY <1>1, <1>6
  <2> QED BY <1>7, <2>1, SubSeqProperties
<1>9. Cut(r, s) = SubSeq(s, o + 1, up)
  BY <1>2, <1>6
<1>10. n = IF o + 1 <= up THEN up - (o + 1) + 1 ELSE 0
  BY <1>1, <1>6
<1>11. \A i \in 1 .. n : i \in 1 .. up - (o + 1) + 1 /\ o + 1 + i - 1 = o + i
  BY <1>1, <1>6
<1> HIDE DEF n
<1>12. /\ Cut(r, s) \in Seq(Row)
       /\ Len(Cut(r, s)) = n
       /\ \A i \in 1 .. n : Cut(r, s)[i] = s[o + i]
  BY <1>8, <1>9, <1>10, <1>11
<1> QED BY <1>3, <1>12 DEF o, l, k

LEMMA CutNone == ASSUME NEW r \in AnyRequest PROVE Cut(r, <<>>) = <<>>
<1> DEFINE none == <<>>
<1>1. none \in Seq(Row) /\ Len(none) = 0
  OBVIOUS
<1>2. r.offset \in Nat /\ r.limit \in Nat \cup {NoLimit} /\ NoLimit = -1
  BY DEF AnyRequest, NoLimit
<1>3. Passed(r.offset, r.limit, 0) = 0
  BY <1>2 DEF Passed
<1>4. Cut(r, none) \in Seq(Row) /\ Len(Cut(r, none)) = 0
  <2> HIDE DEF none
  <2> QED BY <1>1, <1>3, CutIs
<1>5. \A s \in Seq(Row) : Len(s) = 0 => s = <<>>
  OBVIOUS
<1>6. Cut(r, none) = <<>>
  BY <1>4, <1>5
<1> QED BY <1>6

(* Nothing that comes behind enough rows is let through.                   *)
LEMMA CutEnough ==
  ASSUME NEW r \in AnyRequest, NEW s \in Seq(Row), NEW rest \in Seq(Row),
         r.limit # NoLimit, Len(Cut(r, s)) >= r.limit \/ Len(s) >= r.offset + r.limit
  PROVE  Cut(r, s \o rest) = Cut(r, s)
<1> DEFINE t == s \o rest  o == r.offset  l == r.limit  k == Len(s)  c == Len(rest)
           v == Cut(r, s)  w == Cut(r, t)
<1>1. o \in Nat /\ l \in Nat \cup {NoLimit} /\ l # NoLimit /\ k \in Nat /\ c \in Nat
  BY DEF AnyRequest
<1>2. t \in Seq(Row) /\ Len(t) = k + c /\ \A i \in 1 .. k : t[i] = s[i]
  OBVIOUS
<1> HIDE DEF t
<1>3. /\ v \in Seq(Row) /\ Len(v) = Passed(o, l, k)
      /\ \A i \in 1 .. Passed(o, l, k) : v[i] = s[o + i]
  BY CutIs
<1>4. /\ w \in Seq(Row) /\ Len(w) = Passed(o, l, k + c)
      /\ \A i \in 1 .. Passed(o, l, k + c) : w[i] = t[o + i]
  <2>1. /\ w \in Seq(Row) /\ Len(w) = Passed(o, l, Len(t))
        /\ \A i \in 1 .. Passed(o, l, Len(t)) : w[i] = t[o + i]
    BY <1>2, CutIs
  <2> HIDE DEF w
  <2> QED BY <1>2, <2>1
<1>5. Len(v) >= l \/ k >= o + l
  OBVIOUS
<1> HIDE DEF o, l, k, c, v, w
<1>6. /\ Passed(o, l, k) = l /\ Passed(o, l, k + c) = l
      /\ Passed(o, l, k) > 0 => o + Passed(o, l, k) <= k
  <2>1. PassedFacts(o, l, k, c)
    BY <1>1, PassedAdds
  <2> QED BY <1>1, <1>3, <1>5, <2>1 DEF PassedFacts
<1>7. ASSUME NEW i \in 1 .. l PROVE w[i] = v[i]
  <2>1. o + i \in 1 .. k
    BY <1>1, <1>6
  <2> QED BY <1>2, <1>3, <1>4, <1>6, <2>1
<1>8. w = v
  BY <1>3, <1>4, <1>6, <1>7, SeqEqual
<1> QED BY <1>8 DEF w, v, t

(* PhysicalLimit lets through of a chunk what Cut adds.                    *)
Through(r, s, chunk) ==
  LET from == Max({1, r.offset - Len(s) + 1})
      room == IF r.limit = NoLimit THEN Len(chunk) ELSE r.limit - Len(Cut(r, s))
  IN  SubSeq(chunk, from, Min({Len(chunk), from - 1 + room}))

LEMMA CutStep ==
  ASSUME NEW r \in AnyRequest, NEW s \in Seq(Row), NEW chunk \in Seq(Row)
  PROVE  Cut(r, s \o chunk) = Cut(r, s) \o Through(r, s, chunk)
<1> DEFINE t == s \o chunk  o == r.offset  l == r.limit  k == Len(s)  c == Len(chunk)
           v == Cut(r, s)  w == Cut(r, t)
           n == Passed(o, l, k)  from == From(o, k)  to == UpTo(o, l, k, c)
           more == More(o, l, k, c)
           u == SubSeq(chunk, from, to)
           room == IF l = NoLimit THEN c ELSE l - n
<1>1. o \in Nat /\ l \in Nat \cup {NoLimit} /\ NoLimit = -1 /\ k \in Nat /\ c \in Nat
  BY DEF AnyRequest, NoLimit
<1>2. /\ t \in Seq(Row) /\ Len(t) = k + c
      /\ \A i \in 1 .. k : t[i] = s[i]
      /\ \A i \in k + 1 .. k + c : t[i] = chunk[i - k]
  OBVIOUS
<1> HIDE DEF t
<1>3. v \in Seq(Row) /\ Len(v) = n /\ \A i \in 1 .. n : v[i] = s[o + i]
  BY CutIs
<1>4. /\ w \in Seq(Row) /\ Len(w) = Passed(o, l, k + c)
      /\ \A i \in 1 .. Passed(o, l, k + c) : w[i] = t[o + i]
  <2>1. /\ w \in Seq(Row) /\ Len(w) = Passed(o, l, Len(t))
        /\ \A i \in 1 .. Passed(o, l, Len(t)) : w[i] = t[o + i]
    BY <1>2, CutIs
  <2> HIDE DEF w
  <2> QED BY <1>2, <2>1
<1>5. \A i \in 1 .. c : chunk[i] \in Row
  OBVIOUS
<1>6. Through(r, s, chunk) =
        LET f == Max({1, o - k + 1})
        IN  SubSeq(chunk, f, Min({c, f - 1 + IF l = NoLimit THEN c ELSE l - Len(v)}))
  BY DEF Through
<1> HIDE DEF o, l, k, c, v, w
<1>7. /\ n \in Nat /\ (n > 0 => o + n <= k)
      /\ from \in Nat /\ from >= 1 /\ to \in Int /\ to <= c /\ more \in Nat
      /\ Passed(o, l, k + c) = n + more
      /\ more > 0 => o + n - k = from - 1 /\ o + n >= k /\ o + n + more <= k + c
  <2>1. PassedFacts(o, l, k, c)
    BY <1>1, PassedAdds
  <2> QED BY <2>1 DEF PassedFacts
<1>8. more = (IF from <= to THEN to - from + 1 ELSE 0)
  BY DEF More
<1>9. Max({1, o - k + 1}) = from
  <2>1. o - k + 1 \in Int
    BY <1>1
  <2>2. Max({1, o - k + 1}) = IF 1 <= o - k + 1 THEN o - k + 1 ELSE 1
    BY <2>1, MaxOfTwo
  <2> QED BY <1>1, <2>2 DEF From
<1>10. to = (IF c <= from - 1 + room THEN c ELSE from - 1 + room)
  BY DEF UpTo
<1> HIDE DEF n, from, to, more
<1>11. Min({c, from - 1 + room}) = to
  <2>1. from - 1 + room \in Int /\ c \in Int
    BY <1>1, <1>7
  <2> HIDE DEF room
  <2> QED BY <1>10, <2>1, MinOfTwo
<1>12. Through(r, s, chunk) = u
  BY <1>3, <1>6, <1>9, <1>11
<1>13. u \in Seq(Row) /\ Len(u) = more /\ \A i \in 1 .. more : u[i] = chunk[from + i - 1]
  <2>1. \A i \in from .. to : chunk[i] \in Row
    BY <1>1, <1>5, <1>7
  <2>2. from \in Int /\ to \in Int
    BY <1>7
  <2>3. /\ u \in Seq(Row)
        /\ Len(u) = IF from <= to THEN to - from + 1 ELSE 0
        /\ \A i \in 1 .. to - from + 1 : u[i] = chunk[from + i - 1]
    BY <2>1, <2>2, SubSeqProperties
  <2>4. \A i \in 1 .. more : i \in 1 .. to - from + 1
    BY <1>8, <2>2
  <2> QED BY <1>8, <2>3, <2>4
<1> HIDE DEF u
<1>14. /\ v \o u \in Seq(Row) /\ Len(v \o u) = n + more
       /\ \A i \in 1 .. n + more : (v \o u)[i] = IF i <= n THEN v[i] ELSE u[i - n]
  BY <1>3, <1>13, ConcatProperties
<1>15. ASSUME NEW i \in 1 .. n + more PROVE w[i] = (v \o u)[i]
  <2>0. i \in Int
    BY <1>7
  <2>1. CASE i <= n
    <3>1. i \in 1 .. n /\ o + i \in 1 .. k
      BY <1>1, <1>7, <2>1
    <3> QED BY <1>2, <1>3, <1>4, <1>7, <1>14, <2>1, <3>1
  <2>2. CASE i > n
    <3>1. i - n \in 1 .. more /\ more > 0
      BY <1>7, <2>2
    <3>2. o + i \in k + 1 .. k + c /\ (o + i) - k = from + (i - n) - 1
      BY <1>1, <1>7, <2>2, <3>1
    <3>3. w[i] = t[o + i]
      BY <1>4, <1>7
    <3>4. t[o + i] = chunk[from + (i - n) - 1]
      BY <1>2, <3>2
    <3>5. (v \o u)[i] = u[i - n]
      BY <1>7, <1>14, <2>2
    <3>6. u[i - n] = chunk[from + (i - n) - 1]
      BY <1>13, <3>1
    <3> QED BY <3>3, <3>4, <3>5, <3>6
  <2>3. i <= n \/ i > n
    BY <1>7, <2>0
  <2> QED BY <2>1, <2>2, <2>3
<1>16. w = v \o u
  BY <1>4, <1>7, <1>14, <1>15, SeqEqual
<1> QED BY <1>12, <1>16 DEF w, v, t

-----------------------------------------------------------------------------
(* The invariant                                                           *)

CallerAt == {"idle", "get", "wait", "waiting", "advance", "running", "stopping", "joining",
             "stopped"}
WorkerAt == {"gone", "loop", "throttle", "tested", "asleep", "decode", "notify", "consume"}

TypeOK ==
  /\ asked \in Requests
  /\ client \in {"asked", "reading", "ended", "failed", "closing", "restarting", "closed",
                 "aborted"}
  /\ restarted \in BOOLEAN /\ stop \in BOOLEAN
  /\ effective \in 0 .. NumGroups /\ nextDecode \in Nat /\ nextEmit \in 0 .. NumGroups
  /\ slots \in [Groups -> {"none", "work"}]
  /\ crew \in 0 .. NumThreads /\ ahead \in [Workers -> Nat]
  /\ mutex \in Threads \cup {Nobody}
  /\ pc \in [Threads -> CallerAt \cup WorkerAt]
  /\ pc[Caller] \in CallerAt /\ \A w \in Workers : pc[w] \in WorkerAt
  /\ rg \in [Workers -> Groups]
  /\ current \in [group : Groups, size : Nat, at : Nat]
  /\ got \in Seq(Row) /\ answer \in Seq(Row)

Rests == \A g \in Groups : slots[g] = "none"

(* Who is where, and in which part of the life of a query.                 *)
Control ==
  /\ pc[Caller] \in {"get", "wait", "waiting", "advance"} =>
       client \in {"reading", "aborted"} /\ asked.mode = "rows"
  /\ pc[Caller] = "running" => client \in {"reading", "aborted"} /\ asked.mode = "groups"
  /\ pc[Caller] \in {"stopping", "joining", "stopped"} =>
       client \in {"closing", "restarting", "aborted"}
  /\ pc[Caller] = "stopped" => crew = 0
  /\ pc[Caller] = "advance" => Drained /\ nextEmit < effective
  /\ client = "asked" => crew = 0 /\ pc[Caller] = "idle"
  /\ crew = 0 => AllJoined /\ Rests
  /\ asked.mode = "rows" => \A w \in Workers : pc[w] # "consume"

(* An aggregate reads the whole file, and starts nothing over.             *)
Groupwise ==
  asked.mode = "groups" =>
    /\ client \notin {"restarting", "failed"}
    /\ client = "reading" => pc[Caller] = "running"
    /\ \A w \in Workers : pc[w] \in {"gone", "loop", "consume"}
    /\ Rests
    /\ effective = NumGroups

Steady == TypeOK /\ Control /\ Groupwise

(* The groups left out hold no row that a LIMIT lets through.              *)
EnoughGroups ==
  effective < NumGroups => /\ asked.limit # NoLimit /\ asked.pruned = {}
                           /\ RowsBefore(effective) >= asked.offset + asked.limit

(* What has been emitted of the file.                                      *)
Emitted ==
  IF nextEmit = 0
  THEN current = Empty /\ got = <<>>
  ELSE /\ current.group = nextEmit - 1
       /\ current.size = SizeOf(asked.pruned, nextEmit - 1)
       /\ current.at <= current.size
       /\ got = FirstRows(asked.pruned, nextEmit - 1)
                  \o SubSeq(RowsOf(asked.pruned, nextEmit - 1), 1, current.at)

Rowwise ==
  /\ EnoughGroups
  /\ asked.mode = "rows" =>
       /\ Emitted
       /\ nextEmit <= effective
       /\ answer = Cut(asked, got)
       /\ client = "ended" => Full \/ (Drained /\ nextEmit >= effective)

(* Each group before next_decode_ has been consumed, or is about to be.    *)
Consumed(g)  == \E i \in DOMAIN got : got[i][1] = g
Consuming(g) == \E w \in Workers : pc[w] = "consume" /\ rg[w] = g

Once      == \A i, j \in DOMAIN got : got[i][1] = got[j][1] => i = j
Done      == \A i \in DOMAIN got : got[i][1] < nextDecode /\ got[i][1] \notin asked.pruned
Doing     == \A w \in Workers : pc[w] = "consume" =>
               rg[w] < nextDecode /\ rg[w] \notin asked.pruned /\ ~Consumed(rg[w])
OneEach   == \A v, w \in Workers :
               pc[v] = "consume" /\ pc[w] = "consume" /\ rg[v] = rg[w] => v = w
NoneLost  == \A g \in Groups \ asked.pruned : g < nextDecode => Consumed(g) \/ Consuming(g)
EndsRight == /\ client = "asked" => got = <<>>
             /\ client = "reading" /\ pc[0] = "gone" => stop \/ nextDecode >= NumGroups
             /\ client = "ended" => (stop \/ nextDecode >= NumGroups) /\ crew = 0

Claims == asked.mode = "groups" => Once /\ Done /\ Doing /\ OneEach /\ NoneLost /\ EndsRight

(* A group that is being decoded was near enough.                          *)
NearEnough ==
  /\ \A w \in Workers : pc[w] = "decode" /\ rg[w] \notin asked.pruned => Near(w)
  /\ BoundedAhead

IInv == Steady /\ Rowwise /\ Claims /\ NearEnough

LEMMA Names ==
  /\ NumGroups \in Nat \ {0, 1} /\ NumThreads \in Nat \ {0, 1} /\ VectorSize \in Nat \ {0}
  /\ Threads = Workers \cup {Caller} /\ Caller \notin Workers /\ Nobody \notin Workers
  /\ Caller # Nobody
BY ParquetScanAssumption DEF Threads

-----------------------------------------------------------------------------
(* Init                                                                    *)

LEMMA EffectiveIs ==
  ASSUME asked \in Requests
  PROVE  /\ EffectiveGroups \in 0 .. NumGroups
         /\ asked.mode = "groups" => EffectiveGroups = NumGroups
         /\ EffectiveGroups < NumGroups =>
              /\ asked.limit # NoLimit /\ asked.pruned = {}
              /\ RowsBefore(EffectiveGroups) >= asked.offset + asked.limit
<1> DEFINE some == {k + 1 : k \in {g \in Groups : RowsBefore(g + 1) >= RowLimit}}
           S == {NumGroups} \cup some
<1>1. /\ NumGroups \in Nat /\ asked \in AnyRequest
      /\ asked.limit \in Nat \cup {NoLimit} /\ asked.offset \in Nat /\ NoLimit = -1
      /\ asked.mode = "groups" => asked.limit = NoLimit
  BY ParquetScanAssumption DEF AnyRequest, NoLimit
<1>2. /\ RowLimit = IF asked.limit = NoLimit THEN 0 ELSE asked.limit + asked.offset
      /\ EffectiveGroups = IF RowLimit > 0 /\ asked.pruned = {} THEN Min(S) ELSE NumGroups
  BY DEF RowLimit, EffectiveGroups
<1>3. S \in SUBSET Nat /\ S # {} /\ NumGroups \in S
  BY <1>1 DEF Groups
<1>4. \A x \in some : RowsBefore(x) >= RowLimit
  OBVIOUS
<1> HIDE DEF some
<1>5. Min(S) \in S /\ Min(S) <= NumGroups /\ Min(S) \in Nat
  <2> HIDE DEF S
  <2> QED BY <1>3, MinIsLeast
<1>6. Min(S) < NumGroups => Min(S) \in some
  BY <1>1, <1>5
<1> HIDE DEF S
<1>7. CASE RowLimit > 0 /\ asked.pruned = {}
  <2>1. asked.limit # NoLimit /\ RowLimit = asked.limit + asked.offset /\ EffectiveGroups = Min(S)
    BY <1>1, <1>2, <1>7
  <2>2. asked.limit + asked.offset = asked.offset + asked.limit
    BY <1>1, <2>1
  <2> QED BY <1>1, <1>4, <1>5, <1>6, <1>7, <2>1, <2>2
<1>8. CASE ~(RowLimit > 0 /\ asked.pruned = {})
  BY <1>1, <1>2, <1>8
<1> QED BY <1>7, <1>8

LEMMA InitSteady == Init => Steady
<1> SUFFICES ASSUME Init PROVE Steady
  OBVIOUS
<1>1. /\ NumGroups \in Nat \ {0, 1} /\ NumThreads \in Nat \ {0, 1}
      /\ Caller \notin Workers \cup {Nobody}
  BY ParquetScanAssumption
<1>2. TypeOK
  <2>1. 0 \in Groups /\ 0 \in 0 .. NumGroups /\ 0 \in 0 .. NumThreads /\ <<>> \in Seq(Row)
    BY <1>1 DEF Groups
  <2>2. effective \in 0 .. NumGroups
    BY EffectiveIs DEF Init
  <2>3. pc \in [Threads -> CallerAt \cup WorkerAt]
    BY DEF Init, CallerAt, WorkerAt
  <2>4. pc[Caller] \in CallerAt /\ \A w \in Workers : pc[w] \in WorkerAt
    BY <1>1 DEF Init, CallerAt, WorkerAt, Threads
  <2> QED BY <2>1, <2>2, <2>3, <2>4 DEF Init, TypeOK, Empty
<1>3. Control
  BY <1>1 DEF Init, Control, AllJoined, Rests, Threads
<1>4. Groupwise
  BY <1>1, EffectiveIs DEF Init, Groupwise, Rests, Threads
<1> QED BY <1>2, <1>3, <1>4 DEF Steady

LEMMA InitIInv == Init => IInv
<1> SUFFICES ASSUME Init PROVE IInv
  OBVIOUS
<1>1. Steady
  BY InitSteady
<1>2. asked \in Requests /\ asked \in AnyRequest
  BY ParquetScanAssumption DEF Init
<1>3. Rowwise
  <2>1. EnoughGroups
    BY EffectiveIs DEF Init, EnoughGroups
  <2>2. answer = Cut(asked, got)
    BY <1>2, CutNone DEF Init
  <2>3. 0 <= effective
    BY <1>1 DEF Steady, TypeOK
  <2> QED BY <2>1, <2>2, <2>3 DEF Rowwise, Emitted, Init
<1>4. Claims
  BY <1>1, Names DEF Init, Claims, Once, Done, Doing, OneEach, NoneLost, EndsRight, Consumed,
                     Groups, Workers
<1>5. NearEnough
  BY <1>1 DEF Init, NearEnough, BoundedAhead, Steady, TypeOK, WorkerAt, Threads
<1> QED BY <1>1, <1>3, <1>4, <1>5 DEF IInv

-----------------------------------------------------------------------------
(* The steps of a worker keep Steady                                       *)

LEMMA WorkerSteady ==
  ASSUME Steady, client # "aborted", NEW w \in Workers, Worker(w)
  PROVE  Steady'
<1> USE Names DEF Steady
<1>1. CASE Leave(w)
  <2> USE <1>1 DEF Leave, Goto, query, private, results
  <2>1. TypeOK'
    BY DEF TypeOK, CallerAt, WorkerAt, Woken, Groups, Row
  <2>2. Control'
    BY DEF TypeOK, Control, CallerAt, WorkerAt, AllJoined, Rests, Woken, Drained
  <2>3. Groupwise'
    BY DEF TypeOK, Groupwise, Control, Rests, Woken
  <2> QED BY <2>1, <2>2, <2>3
<1>2. CASE ClaimGroup(w)
  <2> USE <1>2 DEF ClaimGroup, Goto, query, private, results
  <2>1. TypeOK'
    <3>1. nextDecode \in Groups /\ nextDecode + 1 \in Nat
      <4>1. nextDecode < effective
        OBVIOUS
      <4>2. nextDecode \in Nat /\ effective \in 0 .. NumGroups /\ NumGroups \in Nat
        BY DEF TypeOK
      <4> QED BY ONLY <4>1, <4>2 DEF Groups
    <3>2. PICK label \in WorkerAt : pc' = [pc EXCEPT ![w] = label]
      BY DEF WorkerAt
    <3>3. /\ pc' \in [Threads -> CallerAt \cup WorkerAt] /\ pc'[Caller] = pc[Caller]
          /\ \A v \in Workers : pc'[v] \in WorkerAt
      BY <3>2 DEF TypeOK
    <3> QED BY <3>1, <3>3 DEF TypeOK
  <2>2. Control'
    BY DEF TypeOK, Control, CallerAt, WorkerAt, AllJoined, Rests, Woken, Drained
  <2>3. Groupwise'
    BY DEF TypeOK, Groupwise, Control, Rests, Woken
  <2> QED BY <2>1, <2>2, <2>3
<1>3. CASE ThrottleTest(w)
  <2> USE <1>3 DEF ThrottleTest, Goto, query, private, results
  <2>1. TypeOK'
    BY DEF TypeOK, CallerAt, WorkerAt, Woken, Groups, Row
  <2>2. Control'
    BY DEF TypeOK, Control, CallerAt, WorkerAt, AllJoined, Rests, Woken, Drained
  <2>3. Groupwise'
    BY DEF TypeOK, Groupwise, Control, Rests, Woken
  <2> QED BY <2>1, <2>2, <2>3
<1>4. CASE Sleep(w)
  <2> USE <1>4 DEF Sleep, Goto, query, private, results
  <2>1. TypeOK'
    BY DEF TypeOK, CallerAt, WorkerAt, Woken, Groups, Row
  <2>2. Control'
    BY DEF TypeOK, Control, CallerAt, WorkerAt, AllJoined, Rests, Woken, Drained
  <2>3. Groupwise'
    BY DEF TypeOK, Groupwise, Control, Rests, Woken
  <2> QED BY <2>1, <2>2, <2>3
<1>5. CASE Deposit(w)
  <2> USE <1>5 DEF Deposit, Goto, query, private, results
  <2>1. TypeOK'
    BY DEF TypeOK, CallerAt, WorkerAt, Woken, Groups, Row
  <2>2. Control'
    BY DEF TypeOK, Control, CallerAt, WorkerAt, AllJoined, Rests, Woken, Drained
  <2>3. Groupwise'
    BY DEF TypeOK, Groupwise, Control, Rests, Woken
  <2> QED BY <2>1, <2>2, <2>3
<1>6. CASE NotifyReady(w)
  <2> USE <1>6 DEF NotifyReady, Goto, query, private, results
  <2>1. TypeOK'
    <3>1. Woken(Caller) \in CallerAt /\ "loop" \in WorkerAt /\ 0 \in Groups
      BY DEF TypeOK, Woken, CallerAt, WorkerAt, Groups
    <3>2. /\ pc' \in [Threads -> CallerAt \cup WorkerAt] /\ pc'[Caller] \in CallerAt
          /\ \A v \in Workers : pc'[v] \in WorkerAt
      BY <3>1 DEF TypeOK
    <3> QED BY <3>1, <3>2 DEF TypeOK
  <2>2. Control'
    BY DEF TypeOK, Control, CallerAt, WorkerAt, AllJoined, Rests, Woken, Drained
  <2>3. Groupwise'
    BY DEF TypeOK, Groupwise, Control, Rests, Woken
  <2> QED BY <2>1, <2>2, <2>3
<1>7. CASE Consume(w)
  <2> USE <1>7 DEF Consume, Goto, query, private, results
  <2>1. TypeOK'
    <3>1. w \in Nat /\ 0 \in Groups /\ "loop" \in WorkerAt
      BY DEF Workers, Groups, WorkerAt
    <3>2. CASE Decodes(rg[w])
      <4>1. Append(got, <<rg[w], w>>) \in Seq(Row)
        <5>1. <<rg[w], w>> \in Row
          BY <3>1 DEF TypeOK, Row
        <5> QED BY <5>1 DEF TypeOK
      <4>2. /\ pc' \in [Threads -> CallerAt \cup WorkerAt] /\ pc'[Caller] = pc[Caller]
            /\ \A v \in Workers : pc'[v] \in WorkerAt
        <5>1. pc' = [pc EXCEPT ![w] = "loop"]
          BY <3>2
        <5>2. pc \in [Threads -> CallerAt \cup WorkerAt] /\ \A v \in Workers : pc[v] \in WorkerAt
          BY DEF TypeOK
        <5> QED BY ONLY <3>1, <5>1, <5>2, Names
      <4>3. stop' \in BOOLEAN
        <5>1. asked.enough \in BOOLEAN
          BY ParquetScanAssumption DEF TypeOK, AnyRequest
        <5>2. stop' = stop \/ stop' = (stop \/ asked.enough)
          BY <3>2
        <5>3. stop \in BOOLEAN
          BY DEF TypeOK
        <5> QED BY <5>1, <5>2, <5>3, Zenon
      <4>4. rg' \in [Workers -> Groups] /\ got' \in Seq(Row)
        BY <3>1, <3>2, <4>1 DEF TypeOK
      <4> QED BY <3>2, <4>2, <4>3, <4>4 DEF TypeOK
    <3>3. CASE ~Decodes(rg[w])
      BY <3>3 DEF TypeOK
    <3> QED BY <3>2, <3>3
  <2>2. Control'
    BY DEF TypeOK, Control, CallerAt, WorkerAt, AllJoined, Rests, Woken, Drained
  <2>3. Groupwise'
    BY DEF TypeOK, Groupwise, Control, Rests, Woken
  <2> QED BY <2>1, <2>2, <2>3
<1> QED BY <1>1, <1>2, <1>3, <1>4, <1>5, <1>6, <1>7 DEF Worker

-----------------------------------------------------------------------------
(* The steps of the caller keep Steady                                     *)

LEMMA WorkType ==
  ASSUME asked \in Requests, NEW g \in Groups
  PROVE  /\ Work(g) \in [group : Groups, size : Nat, at : Nat]
         /\ Work(g).group = g /\ Work(g).size = SizeOf(asked.pruned, g) /\ Work(g).at = 0
BY ParquetScanAssumption DEF Work, SizeOf

LEMMA CrewType ==
  ASSUME TypeOK, NEW n \in 0 .. NumThreads
  PROVE  /\ Crew(n) \in [Threads -> CallerAt \cup WorkerAt]
         /\ Crew(n)[Caller] = pc[Caller]
         /\ \A w \in Workers : Crew(n)[w] = IF w < n THEN "loop" ELSE pc[w]
<1>1. \A w \in Workers : w \in Threads /\ (w \in 0 .. n - 1 <=> w < n)
  BY Names DEF Workers
<1>2. Caller \in Threads /\ Caller \notin 0 .. n - 1
  BY Names DEF Workers
<1>3. "loop" \in CallerAt \cup WorkerAt
  BY DEF WorkerAt
<1>4. pc \in [Threads -> CallerAt \cup WorkerAt]
  BY DEF TypeOK
<1> QED BY <1>1, <1>2, <1>3, <1>4 DEF Crew

LEMMA EmitType ==
  ASSUME TypeOK, EmitChunk
  PROVE  /\ got' \in Seq(Row) /\ answer' \in Seq(Row)
         /\ current' \in [group : Groups, size : Nat, at : Nat]
<1> DEFINE count == Min({current.size - current.at, VectorSize})
           chunk == [i \in 1 .. count |-> <<current.group, current.at + i>>]
<1>1. /\ current.group \in Groups /\ current.size \in Nat /\ current.at \in Nat
      /\ current.at < current.size /\ VectorSize \in Nat \ {0}
  BY Names DEF TypeOK, EmitChunk, Drained
<1>2. count \in Nat \ {0} /\ count <= current.size - current.at
  <2>1. count = IF current.size - current.at <= VectorSize THEN current.size - current.at
                                                            ELSE VectorSize
    <3>1. current.size - current.at \in Int /\ VectorSize \in Int
      BY <1>1
    <3> QED BY <3>1, MinOfTwo
  <2> HIDE DEF count
  <2> QED BY <1>1, <2>1
<1> HIDE DEF count
<1>3. \A i \in 1 .. count : <<current.group, current.at + i>> \in Row
  BY <1>1, <1>2 DEF Row
<1>4. chunk \in Seq(Row) /\ Len(chunk) = count
  BY <1>2, <1>3
<1>5. LetThrough(chunk) \in Seq(Row)
  <2> DEFINE from == Max({1, asked.offset - Len(got) + 1})
             room == IF asked.limit = NoLimit THEN Len(chunk) ELSE asked.limit - Len(answer)
             to == Min({Len(chunk), from - 1 + room})
  <2>1. /\ asked.offset \in Nat /\ asked.limit \in Nat \cup {NoLimit}
        /\ Len(got) \in Nat /\ Len(answer) \in Nat
    BY ParquetScanAssumption DEF TypeOK, AnyRequest
  <2>2. asked.offset - Len(got) + 1 \in Int /\ room \in Int /\ Len(chunk) \in Int
    BY <1>2, <1>4, <2>1
  <2>3. from \in Int /\ from >= 1
    <3>1. from = IF 1 <= asked.offset - Len(got) + 1 THEN asked.offset - Len(got) + 1 ELSE 1
      BY <2>2, MaxOfTwo
    <3> HIDE DEF from
    <3> QED BY <2>2, <3>1
  <2>4. LetThrough(chunk) = SubSeq(chunk, from, to)
    BY DEF LetThrough
  <2>5. to \in Int /\ to <= Len(chunk)
    <3> HIDE DEF from, room, chunk
    <3>1. from - 1 + room \in Int
      BY <2>2, <2>3
    <3>2. to = IF Len(chunk) <= from - 1 + room THEN Len(chunk) ELSE from - 1 + room
      BY <2>2, <3>1, MinOfTwo
    <3> HIDE DEF to
    <3> QED BY <2>2, <3>1, <3>2
  <2> HIDE DEF from, to, chunk
  <2>6. \A i \in from .. to : chunk[i] \in Row
    BY <1>4, <2>3, <2>5
  <2>7. SubSeq(chunk, from, to) \in Seq(Row)
    BY <2>3, <2>5, <2>6, SubSeqProperties
  <2> QED BY <2>4, <2>7
<1>6. got' = got \o chunk /\ answer' = answer \o LetThrough(chunk)
      /\ current' = [current EXCEPT !.at = @ + count]
  BY DEF EmitChunk, count
<1> HIDE DEF chunk
<1>7. got \in Seq(Row) /\ answer \in Seq(Row) /\ current \in [group : Groups, size : Nat, at : Nat]
  BY DEF TypeOK
<1>8. got' \in Seq(Row) /\ answer' \in Seq(Row)
  BY ONLY <1>4, <1>5, <1>6, <1>7
<1>9. current' \in [group : Groups, size : Nat, at : Nat]
  <2>1. current.at + count \in Nat
    BY <1>1, <1>2
  <2> QED BY ONLY <1>6, <1>7, <2>1
<1> QED BY <1>8, <1>9

LEMMA DrawSteady ==
  ASSUME Steady, client # "aborted", Draw
  PROVE  Steady'
<1> USE Names DEF Steady
<1>0. asked \in Requests /\ asked.mode \in {"rows", "groups"} /\ effective <= NumGroups
  BY ParquetScanAssumption DEF TypeOK, AnyRequest
<1>1. CASE SpawnWorkers
  <2> USE <1>1 DEF SpawnWorkers, Goto, query, private, results
  <2> DEFINE budget == Min({NumThreads, effective})
             n == IF budget <= 1 THEN 0 ELSE budget
  <2>a. n \in 0 .. NumThreads
    <3>1. budget = IF NumThreads <= effective THEN NumThreads ELSE effective
      <4>1. NumThreads \in Int /\ effective \in Int
        BY DEF TypeOK
      <4> QED BY ONLY <4>1, MinOfTwo
    <3> HIDE DEF budget
    <3> QED BY <3>1 DEF TypeOK
  <2>b. crew' = n /\ pc' = Crew(n) /\ client' = "reading" /\ stop' = FALSE
    OBVIOUS
  <2>c. ahead' \in [Workers -> Nat]
    <3>1. PICK sizes \in [Workers -> 0 .. n] : ahead' = [w \in Workers |-> sizes[w] * 2 + 2]
      OBVIOUS
    <3> HIDE DEF n
    <3>2. \A w \in Workers : sizes[w] * 2 + 2 \in Nat
      BY <2>a
    <3> QED BY ONLY <3>1, <3>2
  <2>d. UNCHANGED <<asked, restarted, effective, nextDecode, nextEmit, slots, mutex, rg, current,
                    got, answer>>
    OBVIOUS
  <2>f. client = "asked" /\ asked.mode = "rows"
    OBVIOUS
  <2>e. /\ pc' \in [Threads -> CallerAt \cup WorkerAt] /\ pc'[Caller] = pc[Caller]
        /\ \A w \in Workers : pc'[w] = IF w < n THEN "loop" ELSE pc[w]
    <3> HIDE DEF n
    <3> QED BY <2>a, <2>b, CrewType
  <2> HIDE <1>1 DEF n, SpawnWorkers
  <2>1. TypeOK'
    <3>1. "loop" \in WorkerAt
      BY DEF WorkerAt
    <3> QED BY <2>a, <2>b, <2>c, <2>d, <2>e, <3>1 DEF TypeOK
  <2>2. Control'
    <3>1. \A w \in Workers : n = 0 => ~(w < n)
      BY <2>a DEF Workers
    <3>2. pc[Caller] = "idle" /\ AllJoined /\ Rests
      BY <2>f DEF Control
    <3> QED BY <2>a, <2>b, <2>d, <2>e, <2>f, <3>1, <3>2 DEF Control, AllJoined, Rests
  <2>3. Groupwise'
    BY <2>d, <2>f DEF Groupwise
  <2> QED BY <2>1, <2>2, <2>3
<1>2. CASE GetData
  <2> USE <1>2 DEF GetData, Goto, query, private, results
  <2>1. TypeOK'
    BY DEF TypeOK, CallerAt, WorkerAt, Woken, Groups, Row
  <2>2. Control'
    <3>1. asked.mode = "rows"
      BY <1>0 DEF Groupwise
    <3>2. pc'[Caller] = "get" /\ \A w \in Workers : pc'[w] = pc[w]
      BY DEF TypeOK
    <3> QED BY <3>1, <3>2 DEF TypeOK, Control, AllJoined, Rests, Drained
  <2>3. Groupwise'
    BY <1>0 DEF TypeOK, Groupwise, Control, Rests, Woken
  <2> QED BY <2>1, <2>2, <2>3
<1>3. CASE LimitReached
  <2> USE <1>3 DEF LimitReached, Goto, query, private, results
  <2>1. TypeOK'
    BY DEF TypeOK, CallerAt, WorkerAt, Woken, Groups, Row
  <2>2. Control'
    BY <1>0 DEF TypeOK, Control, CallerAt, WorkerAt, AllJoined, Rests, Woken, Drained
  <2>3. Groupwise'
    BY <1>0 DEF TypeOK, Groupwise, Control, Rests, Woken
  <2> QED BY <2>1, <2>2, <2>3
<1>4. CASE NoMoreGroups
  <2> USE <1>4 DEF NoMoreGroups, Goto, query, private, results
  <2>1. TypeOK'
    BY DEF TypeOK, CallerAt, WorkerAt, Woken, Groups, Row
  <2>2. Control'
    BY <1>0 DEF TypeOK, Control, CallerAt, WorkerAt, AllJoined, Rests, Woken, Drained
  <2>3. Groupwise'
    BY <1>0 DEF TypeOK, Groupwise, Control, Rests, Woken
  <2> QED BY <2>1, <2>2, <2>3
<1>5. CASE DecodeInline
  <2> USE <1>5 DEF DecodeInline, Goto, query, private, results, NeedsGroup
  <2>1. TypeOK'
    <3>1. nextEmit \in Groups /\ nextEmit + 1 \in 0 .. NumGroups
      BY <1>0 DEF TypeOK, Groups
    <3>2. Work(nextEmit) \in [group : Groups, size : Nat, at : Nat]
      BY <1>0, <3>1, WorkType
    <3>3. CASE Decodes(nextEmit)
      BY <3>1, <3>2, <3>3 DEF TypeOK
    <3>4. CASE ~Decodes(nextEmit)
      BY <3>4 DEF TypeOK, CallerAt
    <3> QED BY <3>3, <3>4
  <2>2. Control'
    BY <1>0 DEF TypeOK, Control, CallerAt, WorkerAt, AllJoined, Rests, Woken, Drained
  <2>3. Groupwise'
    BY <1>0 DEF TypeOK, Groupwise, Control, Rests, Woken
  <2> QED BY <2>1, <2>2, <2>3
<1>6. CASE TakeGroup
  <2> USE <1>6 DEF TakeGroup, Goto, query, private, results, NeedsGroup
  <2>1. TypeOK'
    BY DEF TypeOK, CallerAt, WorkerAt, Woken, Groups, Row
  <2>2. Control'
    BY <1>0 DEF TypeOK, Control, CallerAt, WorkerAt, AllJoined, Rests, Woken, Drained
  <2>3. Groupwise'
    BY <1>0 DEF TypeOK, Groupwise, Control, Rests, Woken
  <2> QED BY <2>1, <2>2, <2>3
<1>7. CASE NotReady
  <2> USE <1>7 DEF NotReady, Goto, query, private, results, NeedsGroup
  <2>1. TypeOK'
    BY DEF TypeOK, CallerAt, WorkerAt, Woken, Groups, Row
  <2>2. Control'
    BY <1>0 DEF TypeOK, Control, CallerAt, WorkerAt, AllJoined, Rests, Woken, Drained
  <2>3. Groupwise'
    BY <1>0 DEF TypeOK, Groupwise, Control, Rests, Woken
  <2> QED BY <2>1, <2>2, <2>3
<1>8. CASE WaitReady
  <2> USE <1>8 DEF WaitReady, Goto, query, private, results
  <2>1. TypeOK'
    BY DEF TypeOK, CallerAt, WorkerAt, Woken, Groups, Row
  <2>2. Control'
    BY <1>0 DEF TypeOK, Control, CallerAt, WorkerAt, AllJoined, Rests, Woken, Drained
  <2>3. Groupwise'
    BY <1>0 DEF TypeOK, Groupwise, Control, Rests, Woken
  <2> QED BY <2>1, <2>2, <2>3
<1>9. CASE Advance
  <2> USE <1>9 DEF Advance, Goto, query, private, results
  <2>1. TypeOK'
    <3>1. nextEmit \in Groups /\ nextEmit + 1 \in 0 .. NumGroups
      BY <1>0 DEF TypeOK, Groups, Control
    <3>2. Work(nextEmit) \in [group : Groups, size : Nat, at : Nat]
      BY <1>0, <3>1, WorkType
    <3> QED BY <3>1, <3>2 DEF TypeOK, CallerAt
  <2>2. Control'
    BY <1>0 DEF TypeOK, Control, CallerAt, WorkerAt, AllJoined, Rests, Woken, Drained
  <2>3. Groupwise'
    BY <1>0 DEF TypeOK, Groupwise, Control, Rests, Woken
  <2> QED BY <2>1, <2>2, <2>3
<1>10. CASE EmitChunk
  <2> USE <1>10 DEF EmitChunk, Goto, query, private, results
  <2>1. TypeOK'
    <3>1. /\ got' \in Seq(Row) /\ answer' \in Seq(Row)
          /\ current' \in [group : Groups, size : Nat, at : Nat]
      BY EmitType
    <3> QED BY <3>1 DEF TypeOK, CallerAt
  <2>2. Control'
    BY <1>0 DEF TypeOK, Control, CallerAt, WorkerAt, AllJoined, Rests, Woken, Drained
  <2>3. Groupwise'
    BY <1>0 DEF TypeOK, Groupwise, Control, Rests, Woken
  <2> QED BY <2>1, <2>2, <2>3
<1>11. CASE RunParallelRGs
  <2> USE <1>11 DEF RunParallelRGs, Goto, query, private, results
  <2> DEFINE n == Min({NumThreads, NumGroups})
  <2>a. n \in 0 .. NumThreads /\ n > 0
    <3>1. n = IF NumThreads <= NumGroups THEN NumThreads ELSE NumGroups
      BY MinOfTwo
    <3> QED BY <3>1
  <2>b. /\ crew' = n /\ pc' = [Crew(n) EXCEPT ![Caller] = "running"] /\ client' = "reading"
        /\ stop' = FALSE /\ nextDecode' = 0
    OBVIOUS
  <2>d. UNCHANGED <<asked, restarted, effective, nextEmit, slots, mutex, rg, ahead, current,
                    got, answer>>
    OBVIOUS
  <2>f. client = "asked" /\ asked.mode = "groups"
    OBVIOUS
  <2> HIDE <1>11 DEF n, RunParallelRGs
  <2>e. /\ pc' \in [Threads -> CallerAt \cup WorkerAt] /\ pc'[Caller] = "running"
        /\ \A w \in Workers : pc'[w] = IF w < n THEN "loop" ELSE pc[w]
    <3>1. "running" \in CallerAt
      BY DEF CallerAt
    <3> QED BY <2>a, <2>b, <3>1, CrewType
  <2>1. TypeOK'
    <3>1. "loop" \in WorkerAt /\ "running" \in CallerAt
      BY DEF WorkerAt, CallerAt
    <3> QED BY <2>a, <2>b, <2>d, <2>e, <3>1 DEF TypeOK
  <2>2. Control'
    BY <2>a, <2>b, <2>d, <2>e, <2>f DEF Control
  <2>3. Groupwise'
    BY <2>b, <2>d, <2>e, <2>f DEF Groupwise, Rests
  <2> QED BY <2>1, <2>2, <2>3
<1>12. CASE AllConsumed
  <2> USE <1>12 DEF AllConsumed, Goto, query, private, results
  <2>1. TypeOK'
    BY DEF TypeOK, CallerAt, WorkerAt, Woken, Groups, Row
  <2>2. Control'
    <3>1. asked.mode = "groups" /\ Rests
      BY DEF Control, Groupwise
    <3>2. pc'[Caller] = "idle" /\ \A w \in Workers : pc'[w] = pc[w]
      BY DEF TypeOK
    <3> QED BY <3>1, <3>2 DEF TypeOK, Control, AllJoined, Rests, Drained
  <2>3. Groupwise'
    BY <1>0 DEF TypeOK, Groupwise, Control, Rests, Woken
  <2> QED BY <2>1, <2>2, <2>3
<1> QED BY <1>1, <1>2, <1>3, <1>4, <1>5, <1>6, <1>7, <1>8, <1>9, <1>10, <1>11, <1>12 DEF Draw

LEMMA StopSteady ==
  ASSUME Steady, client # "aborted", Close \/ Restart \/ StopWorkers
  PROVE  Steady'
<1> USE Names DEF Steady
<1>0. asked \in Requests /\ asked.mode \in {"rows", "groups"} /\ effective <= NumGroups
  BY ParquetScanAssumption DEF TypeOK, AnyRequest
<1>1. CASE Close
  <2> USE <1>1 DEF Close, Quit, Goto, query, private, results
  <2>1. TypeOK'
    BY DEF TypeOK, CallerAt, WorkerAt, Woken, Groups, Row
  <2>2. Control'
    BY <1>0 DEF TypeOK, Control, CallerAt, WorkerAt, AllJoined, Rests, Woken, Drained
  <2>3. Groupwise'
    BY <1>0 DEF TypeOK, Groupwise, Control, Rests, Woken
  <2> QED BY <2>1, <2>2, <2>3
<1>2. CASE Restart
  <2> USE <1>2 DEF Restart, Quit, Goto, query, private, results
  <2>1. TypeOK'
    BY DEF TypeOK, CallerAt, WorkerAt, Woken, Groups, Row
  <2>2. Control'
    BY <1>0 DEF TypeOK, Control, CallerAt, WorkerAt, AllJoined, Rests, Woken, Drained
  <2>3. Groupwise'
    BY <1>0 DEF TypeOK, Groupwise, Control, Rests, Woken
  <2> QED BY <2>1, <2>2, <2>3
<1>3. CASE NotifyAll
  <2> USE <1>3 DEF NotifyAll, Goto, query, private, results
  <2>1. TypeOK'
    BY DEF TypeOK, CallerAt, WorkerAt, Woken, Groups, Row
  <2>2. Control'
    BY <1>0 DEF TypeOK, Control, CallerAt, WorkerAt, AllJoined, Rests, Woken, Drained
  <2>3. Groupwise'
    BY <1>0 DEF TypeOK, Groupwise, Control, Rests, Woken
  <2> QED BY <2>1, <2>2, <2>3
<1>4. CASE Join
  <2> USE <1>4 DEF Join, Goto, query, private, results
  <2>1. TypeOK'
    <3>1. /\ 0 \in Groups /\ 0 \in 0 .. NumThreads /\ "stopped" \in CallerAt
          /\ [g \in Groups |-> "none"] \in [Groups -> {"none", "work"}]
      BY DEF Groups, CallerAt
    <3> QED BY <3>1 DEF TypeOK
  <2>2. Control'
    BY <1>0 DEF TypeOK, Control, CallerAt, WorkerAt, AllJoined, Rests, Woken, Drained
  <2>3. Groupwise'
    BY <1>0 DEF TypeOK, Groupwise, Control, Rests, Woken
  <2> QED BY <2>1, <2>2, <2>3
<1>5. CASE Stopped
  <2> USE <1>5 DEF Stopped, Reset, Goto, query, private, results
  <2>1. TypeOK'
    <3>1. /\ 0 \in Groups /\ 0 \in 0 .. NumGroups /\ "idle" \in CallerAt
          /\ <<>> \in Seq(Row) /\ Empty \in [group : Groups, size : Nat, at : Nat]
      BY DEF Groups, CallerAt, Empty
    <3>2. CASE client = "restarting"
      BY <3>1, <3>2 DEF TypeOK
    <3>3. CASE client # "restarting"
      BY <3>1, <3>3 DEF TypeOK
    <3> QED BY <3>2, <3>3
  <2>2. Control'
    BY <1>0 DEF TypeOK, Control, CallerAt, WorkerAt, AllJoined, Rests, Woken, Drained
  <2>3. Groupwise'
    BY <1>0 DEF TypeOK, Groupwise, Control, Rests, Woken
  <2> QED BY <2>1, <2>2, <2>3
<1> QED BY <1>1, <1>2, <1>3, <1>4, <1>5 DEF StopWorkers

LEMMA SteadyStep == Steady /\ [Next]_vars => Steady'
<1> SUFFICES ASSUME Steady, [Next]_vars PROVE Steady'
  OBVIOUS
<1>1. CASE UNCHANGED vars
  BY <1>1 DEF vars, query, private, results, Steady, TypeOK, Control, Groupwise, AllJoined, Rests,
              Drained
<1>2. CASE Next
  <2>1. client # "aborted"
    BY <1>2 DEF Next
  <2>2. ASSUME NEW w \in Workers, Worker(w) PROVE Steady'
    BY <2>1, <2>2, WorkerSteady
  <2>3. CASE Draw
    BY <2>1, <2>3, DrawSteady
  <2>4. CASE Close \/ Restart \/ StopWorkers
    BY <2>1, <2>4, StopSteady
  <2>5. ASSUME NEW p \in Threads, Spurious(p) PROVE Steady'
    <3> USE <2>5, Names DEF Steady, Spurious, Goto, query, private, results
    <3>1. TypeOK'
      BY DEF TypeOK, CallerAt, WorkerAt, Woken
    <3>2. Control'
      BY <2>1 DEF TypeOK, Control, CallerAt, WorkerAt, AllJoined, Rests, Woken, Drained
    <3>3. Groupwise'
      BY DEF TypeOK, Groupwise, Control, Rests, Woken, CallerAt, WorkerAt
    <3> QED BY <3>1, <3>2, <3>3
  <2> QED BY <1>2, <2>2, <2>3, <2>4, <2>5 DEF Next
<1> QED BY <1>1, <1>2


-----------------------------------------------------------------------------
(* The rows come in the order of the file                                  *)

(* A chunk continues the rows of its group.                                *)
PartOf(g, a, c) == [i \in 1 .. c |-> <<g, a + i>>]

LEMMA RowsOfPart ==
  ASSUME NEW p, NEW g \in Groups, NEW a \in Nat, NEW c \in Nat, a + c <= SizeOf(p, g)
  PROVE  SubSeq(RowsOf(p, g), 1, a) \o PartOf(g, a, c)
           = SubSeq(RowsOf(p, g), 1, a + c)
<1> DEFINE R == RowsOf(p, g)
           x == SubSeq(R, 1, a)
           y == PartOf(g, a, c)
           z == SubSeq(R, 1, a + c)
<1>1. R \in Seq(Row) /\ Len(R) = SizeOf(p, g) /\ SizeOf(p, g) \in Nat
  BY RowsOfType
<1>2. \A i \in 1 .. SizeOf(p, g) : R[i] = <<g, i>>
  BY DEF RowsOf
<1>3. \A i \in 1 .. c : <<g, a + i>> \in Row
  BY DEF Row
<1>4. y \in Seq(Row) /\ Len(y) = c /\ \A i \in 1 .. c : y[i] = <<g, a + i>>
  BY <1>3 DEF PartOf
<1> HIDE DEF R, y
<1>5. \A i \in 1 .. a + c : R[i] \in Row
  BY <1>1
<1>6. x \in Seq(Row) /\ Len(x) = a /\ \A i \in 1 .. a : x[i] = R[i]
  BY <1>1, <1>5
<1>7. z \in Seq(Row) /\ Len(z) = a + c /\ \A i \in 1 .. a + c : z[i] = R[i]
  BY <1>1, <1>5
<1> HIDE DEF x, z
<1>8. /\ x \o y \in Seq(Row) /\ Len(x \o y) = a + c
      /\ \A i \in 1 .. a + c : (x \o y)[i] = IF i <= a THEN x[i] ELSE y[i - a]
  BY <1>4, <1>6, ConcatProperties
<1>9. ASSUME NEW i \in 1 .. a + c PROVE (x \o y)[i] = z[i]
  <2>1. i \in Nat /\ z[i] = R[i] /\ R[i] = <<g, i>>
    BY <1>1, <1>2, <1>7
  <2>2. CASE i <= a
    BY <1>6, <1>8, <2>1, <2>2
  <2>3. CASE i > a
    <3>1. i - a \in 1 .. c /\ a + (i - a) = i
      BY <2>1, <2>3
    <3>2. (x \o y)[i] = y[i - a]
      BY <1>8, <2>1, <2>3
    <3> QED BY <1>4, <2>1, <3>1, <3>2
  <2>4. i <= a \/ i > a
    BY <2>1
  <2> QED BY <2>2, <2>3, <2>4
<1>10. x \o y = z
  BY <1>7, <1>8, <1>9, SeqEqual
<1> QED BY <1>10 DEF x, y, z, R

(* The rows emitted when the current group is drained.                     *)
LEMMA DrainedRows ==
  ASSUME Steady, Emitted, Drained
  PROVE  got = FirstRows(asked.pruned, nextEmit)
<1> DEFINE p == asked.pruned
<1>1. CASE nextEmit = 0
  BY <1>1, FirstRowsNone DEF Emitted
<1>2. CASE nextEmit # 0
  <2> DEFINE k == nextEmit - 1
  <2>1. k \in Groups /\ k \in 0 .. NumGroups /\ k < NumGroups /\ k + 1 = nextEmit
    BY <1>2, Names DEF Steady, TypeOK, Groups
  <2>2. /\ current.size = SizeOf(p, k) /\ current.at <= current.size
        /\ got = FirstRows(p, k) \o SubSeq(RowsOf(p, k), 1, current.at)
    BY <1>2 DEF Emitted
  <2>3. current.at = SizeOf(p, k)
    BY <2>2 DEF Drained, Steady, TypeOK
  <2>4. RowsOf(p, k) \in Seq(Row) /\ Len(RowsOf(p, k)) = SizeOf(p, k)
    BY <2>1, RowsOfType
  <2>5. SubSeq(RowsOf(p, k), 1, current.at) = RowsOf(p, k)
    BY <2>3, <2>4, SubSeqFull
  <2>6. FirstRows(p, k + 1) = FirstRows(p, k) \o RowsOf(p, k)
    BY <2>1, FirstRowsStep
  <2> QED BY <2>1, <2>2, <2>5, <2>6
<1> QED BY <1>1, <1>2

LEMMA RowwiseKept ==
  ASSUME Steady, Rowwise, UNCHANGED <<asked, effective, nextEmit, current, got, answer>>,
         client' = "ended" => client = "ended" \/ Full \/ (Drained /\ nextEmit >= effective)
  PROVE  Rowwise'
<1>1. EnoughGroups' /\ (asked.mode = "rows" => Emitted')
  BY DEF Rowwise, EnoughGroups, Emitted
<1> QED BY <1>1 DEF Rowwise, Full, Drained

(* The caller goes on to the next group.                                   *)
LEMMA RowwiseNext ==
  ASSUME Steady, Rowwise, asked.mode = "rows", Drained, nextEmit < effective,
         UNCHANGED <<asked, effective, got, answer>>, client' # "ended",
         nextEmit' = nextEmit + 1, current' = Work(nextEmit)
  PROVE  Rowwise'
<1> DEFINE p == asked.pruned
<1>1. nextEmit \in Groups /\ nextEmit \in Nat /\ asked \in Requests
  BY Names DEF Steady, TypeOK, Groups
<1>2. got = FirstRows(p, nextEmit)
  BY DrainedRows DEF Rowwise
<1>3. /\ current'.group = nextEmit /\ current'.size = SizeOf(p, nextEmit) /\ current'.at = 0
      /\ SizeOf(p, nextEmit) \in Nat
  BY <1>1, WorkType, RowsOfType
<1>4. FirstRows(p, nextEmit) \o SubSeq(RowsOf(p, nextEmit), 1, 0) = FirstRows(p, nextEmit)
  <2>1. FirstRows(p, nextEmit) \in Seq(Row)
    BY <1>1, Names, FirstRowsStep DEF Groups
  <2>2. SubSeq(RowsOf(p, nextEmit), 1, 0) = <<>>
    BY SubSeqEmpty
  <2> QED BY <2>1, <2>2, ConcatEmptySeq
<1>5. nextEmit' # 0 /\ nextEmit' - 1 = nextEmit /\ asked' = asked /\ got' = got
  BY <1>1
<1>6. Emitted'
  BY <1>2, <1>3, <1>4, <1>5 DEF Emitted
<1>7. EnoughGroups'
  BY DEF Rowwise, EnoughGroups
<1>8. nextEmit' <= effective'
  BY <1>1 DEF Steady, TypeOK
<1> QED BY <1>6, <1>7, <1>8 DEF Rowwise

LEMMA RowwiseChunk ==
  ASSUME Steady, Rowwise, EmitChunk
  PROVE  Rowwise'
<1> DEFINE p == asked.pruned
           k == nextEmit - 1
           at == current.at
           count == Min({current.size - at, VectorSize})
           chunk == [i \in 1 .. count |-> <<current.group, at + i>>]
<1>1. /\ current.group \in Groups /\ current.size \in Nat /\ at \in Nat
      /\ at < current.size /\ VectorSize \in Nat \ {0} /\ asked \in AnyRequest
      /\ got \in Seq(Row) /\ asked.mode = "rows"
  BY Names, ParquetScanAssumption DEF Steady, Control, TypeOK, EmitChunk, Drained
<1>2. count \in Nat \ {0} /\ at + count <= current.size
  <2>1. count = IF current.size - at <= VectorSize THEN current.size - at ELSE VectorSize
    <3>1. current.size - at \in Int /\ VectorSize \in Int
      BY <1>1
    <3> QED BY ONLY <3>1, MinOfTwo
  <2> HIDE DEF count
  <2> QED BY <1>1, <2>1
<1>3. /\ got' = got \o chunk /\ answer' = answer \o LetThrough(chunk)
      /\ current' = [current EXCEPT !.at = @ + count] /\ client' = client
      /\ UNCHANGED <<asked, effective, nextEmit>>
  BY DEF EmitChunk, query
<1> HIDE DEF count
<1>4. /\ nextEmit # 0 /\ current.group = k /\ current.size = SizeOf(p, k) /\ k \in Groups
      /\ got = FirstRows(p, k) \o SubSeq(RowsOf(p, k), 1, at)
  <2>1. nextEmit # 0
    BY <1>1 DEF Rowwise, Emitted, Empty
  <2>2. current.group = k /\ current.size = SizeOf(p, k)
        /\ got = FirstRows(p, k) \o SubSeq(RowsOf(p, k), 1, at)
    BY <1>1, <2>1 DEF Rowwise, Emitted
  <2> QED BY <1>1, <2>1, <2>2
<1>5. chunk = PartOf(k, at, count)
  BY <1>4 DEF PartOf
<1>6. chunk \in Seq(Row) /\ Len(chunk) = count
  <2>1. \A i \in 1 .. count : <<current.group, at + i>> \in Row
    BY <1>1, <1>2 DEF Row
  <2> QED BY <1>2, <2>1
<1> HIDE DEF chunk
<1>7. SubSeq(RowsOf(p, k), 1, at) \o chunk = SubSeq(RowsOf(p, k), 1, at + count)
  <2>1. k \in Groups /\ at \in Nat /\ count \in Nat /\ at + count <= SizeOf(p, k)
    BY <1>1, <1>2, <1>4
  <2> HIDE DEF p, k, at
  <2>2. SubSeq(RowsOf(p, k), 1, at) \o PartOf(k, at, count)
          = SubSeq(RowsOf(p, k), 1, at + count)
    BY ONLY <2>1, RowsOfPart
  <2> QED BY <1>5, <2>2
<1>8. got' = FirstRows(p, k) \o SubSeq(RowsOf(p, k), 1, at + count)
  <2> DEFINE f == FirstRows(p, k)
             r == SubSeq(RowsOf(p, k), 1, at)
  <2>1. f \in Seq(Row)
    BY <1>4, Names, FirstRowsStep DEF Groups
  <2>2. r \in Seq(Row)
    <3>1. RowsOf(p, k) \in Seq(Row) /\ Len(RowsOf(p, k)) = SizeOf(p, k)
      BY <1>4, RowsOfType
    <3> QED BY <1>1, <1>4, <3>1
  <2>3. (f \o r) \o chunk = f \o (r \o chunk)
    <3> HIDE DEF f, r
    <3> QED BY <1>6, <2>1, <2>2, ConcatAssociative
  <2> QED BY <1>3, <1>4, <1>7, <2>3
<1>9. /\ current'.at = at + count /\ current'.group = k /\ current'.size = SizeOf(p, k)
      /\ at + count <= SizeOf(p, k)
  BY <1>1, <1>2, <1>3, <1>4 DEF Steady, TypeOK
<1>10. Emitted'
  BY <1>3, <1>4, <1>8, <1>9 DEF Emitted
<1>11. answer' = Cut(asked', got')
  <2>1. answer = Cut(asked, got)
    BY <1>1 DEF Rowwise
  <2>2. LetThrough(chunk) = Through(asked, got, chunk)
    BY <2>1 DEF LetThrough, Through
  <2>3. Cut(asked, got \o chunk) = Cut(asked, got) \o Through(asked, got, chunk)
    BY <1>1, <1>6, CutStep
  <2> QED BY <1>3, <2>1, <2>2, <2>3
<1>12. EnoughGroups' /\ client' # "ended"
  BY <1>3 DEF Rowwise, EnoughGroups, EmitChunk, Steady, Control
<1>13. nextEmit' <= effective'
  BY <1>1, <1>3 DEF Rowwise
<1> QED BY <1>10, <1>11, <1>12, <1>13 DEF Rowwise

LEMMA RowwiseReset ==
  ASSUME Steady, Rowwise, UNCHANGED <<asked, effective>>, Reset
  PROVE  Rowwise'
<1>1. asked \in AnyRequest
  BY ParquetScanAssumption DEF Steady, TypeOK
<1>2. Cut(asked, <<>>) = <<>>
  BY <1>1, CutNone
<1>3. 0 <= effective
  BY DEF Steady, TypeOK
<1>4. EnoughGroups'
  BY DEF Rowwise, EnoughGroups
<1>5. Emitted'
  BY DEF Emitted, Reset
<1> QED BY <1>2, <1>3, <1>4, <1>5 DEF Rowwise, Reset

LEMMA RowwiseStep == Steady /\ Rowwise /\ [Next]_vars => Rowwise'
<1> SUFFICES ASSUME Steady, Rowwise, [Next]_vars PROVE Rowwise'
  OBVIOUS
<1> DEFINE Same == UNCHANGED <<asked, effective, nextEmit, current, got, answer>>
<1>0. asked.mode \in {"rows", "groups"}
  BY ParquetScanAssumption DEF Steady, TypeOK, AnyRequest
<1> USE DEF query, private, results
<1>1. CASE UNCHANGED vars
  BY <1>1, RowwiseKept DEF vars
<1>2. CASE Next
  <2>1. ASSUME NEW w \in Workers, Worker(w) PROVE Rowwise'
    <3>1. CASE Consume(w)
      <4>1. asked.mode = "groups"
        BY <1>0, <3>1 DEF Consume, Steady, Control
      <4> QED BY <3>1, <4>1 DEF Consume, Rowwise, EnoughGroups
    <3>2. CASE ~Consume(w)
      <4>1. Same /\ (client' = "ended" => client = "ended")
        BY <2>1, <3>2 DEF Worker, Leave, ClaimGroup, ThrottleTest, Sleep, Deposit, NotifyReady
      <4> QED BY <4>1, RowwiseKept
    <3> QED BY <3>1, <3>2
  <2>2. CASE Draw
    <3>1. CASE SpawnWorkers \/ GetData \/ NotReady \/ WaitReady \/ TakeGroup \/ RunParallelRGs
      <4>1. Same /\ (client' = "ended" => client = "ended")
        BY <3>1 DEF SpawnWorkers, GetData, NotReady, WaitReady, TakeGroup, RunParallelRGs
      <4> QED BY <4>1, RowwiseKept
    <3>2. CASE LimitReached
      <4>1. Same /\ Full
        BY <3>2 DEF LimitReached
      <4> QED BY <4>1, RowwiseKept
    <3>3. CASE NoMoreGroups
      <4>1. Same /\ Drained /\ nextEmit >= effective
        BY <3>3 DEF NoMoreGroups
      <4> QED BY <4>1, RowwiseKept
    <3>4. CASE DecodeInline
      <4>1. /\ asked.mode = "rows" /\ client \in {"reading", "aborted"}
            /\ Drained /\ nextEmit < effective
        BY <3>4 DEF DecodeInline, NeedsGroup, Steady, Control
      <4>2. CASE Decodes(nextEmit)
        <5>1. /\ UNCHANGED <<asked, effective, got, answer>> /\ client' # "ended"
              /\ nextEmit' = nextEmit + 1 /\ current' = Work(nextEmit)
          BY <3>4, <4>1, <4>2 DEF DecodeInline
        <5> QED BY <4>1, <5>1, RowwiseNext
      <4>3. CASE ~Decodes(nextEmit)
        <5>1. Same /\ client' = "failed"
          BY <3>4, <4>3 DEF DecodeInline
        <5> QED BY <5>1, RowwiseKept
      <4> QED BY <4>2, <4>3
    <3>5. CASE Advance
      <4>1. /\ asked.mode = "rows" /\ client \in {"reading", "aborted"}
            /\ Drained /\ nextEmit < effective
        BY <3>5 DEF Advance, Steady, Control
      <4>2. /\ UNCHANGED <<asked, effective, got, answer>> /\ client' # "ended"
            /\ nextEmit' = nextEmit + 1 /\ current' = Work(nextEmit)
        BY <3>5, <4>1 DEF Advance
      <4> QED BY <4>1, <4>2, RowwiseNext
    <3>6. CASE EmitChunk
      BY <3>6, RowwiseChunk
    <3>7. CASE AllConsumed
      <4>1. asked.mode = "groups" /\ Same
        BY <3>7 DEF AllConsumed, Steady, Control
      <4> QED BY <4>1 DEF Rowwise, EnoughGroups
    <3> QED BY <2>2, <3>1, <3>2, <3>3, <3>4, <3>5, <3>6, <3>7 DEF Draw
  <2>3. CASE Close \/ Restart \/ NotifyAll \/ Join
    <3>1. Same /\ (client' # "ended" \/ client' = client)
      BY <2>3 DEF Close, Restart, Quit, NotifyAll, Join
    <3> QED BY <3>1, RowwiseKept
  <2>4. CASE Stopped
    <3>1. CASE client = "restarting"
      BY <2>4, <3>1, RowwiseReset DEF Stopped
    <3>2. CASE client # "restarting"
      <4>1. Same /\ client' = "closed"
        BY <2>4, <3>2 DEF Stopped
      <4> QED BY <4>1, RowwiseKept
    <3> QED BY <3>1, <3>2
  <2>5. ASSUME NEW p \in Threads, Spurious(p) PROVE Rowwise'
    <3>1. Same /\ client' = client
      BY <2>5 DEF Spurious
    <3> QED BY <3>1, RowwiseKept
  <2> QED BY <1>2, <2>1, <2>2, <2>3, <2>4, <2>5 DEF Next, StopWorkers
<1> QED BY <1>1, <1>2

LEMMA Continues ==
  ASSUME NEW f \in Seq(Row), NEW s \in Seq(Row), NEW rest \in Seq(Row), NEW a \in 0 .. Len(s)
  PROVE  \E more \in Seq(Row) : (f \o s) \o rest = (f \o SubSeq(s, 1, a)) \o more
<1> DEFINE u == SubSeq(s, 1, a)
           v == SubSeq(s, a + 1, Len(s))
<1>1. u \in Seq(Row) /\ v \in Seq(Row)
  OBVIOUS
<1>2. u \o v = s
  <2>1. 1 \in 1 .. Len(s) + 1 /\ a \in 1 - 1 .. Len(s) /\ Len(s) \in a .. Len(s)
    OBVIOUS
  <2>2. u \o v = SubSeq(s, 1, Len(s))
    BY <2>1, ConcatAdjacentSubSeq
  <2> QED BY <2>2, SubSeqFull
<1> HIDE DEF u, v
<1>3. f \o u \in Seq(Row) /\ v \o rest \in Seq(Row)
  BY <1>1
<1>4. (f \o u) \o v = f \o (u \o v)
  BY <1>1, ConcatAssociative
<1>5. ((f \o u) \o v) \o rest = (f \o u) \o (v \o rest)
  <2> DEFINE g == f \o u
  <2>1. g \in Seq(Row)
    BY <1>3
  <2> HIDE DEF g
  <2>2. (g \o v) \o rest = g \o (v \o rest)
    BY <1>1, <2>1, ConcatAssociative
  <2> QED BY <2>2 DEF g
<1>6. (f \o s) \o rest = (f \o u) \o (v \o rest)
  BY <1>2, <1>4, <1>5
<1> QED BY <1>3, <1>6 DEF u

LEMMA RowsAreInOrder == Steady /\ Rowwise => RowsInFileOrder
<1> SUFFICES ASSUME Steady, Rowwise, asked.mode = "rows"
             PROVE  IsPrefix(got, AllRows) /\ (client = "ended" => answer = Limited(AllRows))
  BY DEF RowsInFileOrder
<1> DEFINE p == asked.pruned
           All == FirstRows(p, NumGroups)
<1>1. asked \in AnyRequest /\ NumGroups \in Nat /\ got \in Seq(Row)
  BY ParquetScanAssumption DEF Steady, TypeOK
<1>2. AllRows = All
  BY DEF AllRows, FirstRows, RowsOf, SizeOf, Work
<1>3. Limited(All) = Cut(asked, All)
  BY DEF Limited, Cut
<1>4. \E rest \in Seq(Row) : All = got \o rest
  <2>1. CASE nextEmit = 0
    <3>1. got = <<>> /\ All \in Seq(Row)
      BY <1>1, <2>1, FirstRowsStep DEF Rowwise, Emitted
    <3>2. All = got \o All
      BY <3>1, ConcatEmptySeq
    <3> QED BY <3>1, <3>2
  <2>2. CASE nextEmit # 0
    <3> DEFINE k == nextEmit - 1
               a == current.at
               R == RowsOf(p, k)
               f == FirstRows(p, k)
               u == SubSeq(R, 1, a)
               v == SubSeq(R, a + 1, Len(R))
    <3>1. k \in Groups /\ k \in 0 .. NumGroups /\ k < NumGroups
      BY <2>2, <1>1 DEF Steady, TypeOK, Groups
    <3>2. got = f \o u /\ a <= SizeOf(p, k) /\ a \in Nat
      BY <2>2 DEF Rowwise, Emitted, Steady, TypeOK
    <3>3. R \in Seq(Row) /\ Len(R) = SizeOf(p, k) /\ f \in Seq(Row)
          /\ FirstRows(p, k + 1) = f \o R /\ k + 1 \in 0 .. NumGroups
      <4>1. R \in Seq(Row) /\ Len(R) = SizeOf(p, k)
        BY <3>1, RowsOfType
      <4>2. f \in Seq(Row) /\ FirstRows(p, k + 1) = f \o R
        BY <3>1, FirstRowsStep
      <4>3. k + 1 \in 0 .. NumGroups
        BY <1>1, <3>1
      <4> QED BY <4>1, <4>2, <4>3
    <3>4. PICK rest \in Seq(Row) : All = FirstRows(p, k + 1) \o rest
      BY <3>3, FirstRowsBegin
    <3>5. a \in 0 .. Len(R)
      BY <3>2, <3>3
    <3> HIDE DEF All, R, f, k, a
    <3>6. \E more \in Seq(Row) : (f \o R) \o rest = (f \o SubSeq(R, 1, a)) \o more
      BY <3>3, <3>5, Continues
    <3> QED BY <3>2, <3>3, <3>4, <3>6
  <2> QED BY <2>1, <2>2
<1> HIDE DEF All
<1>5. IsPrefix(got, All)
  <2>1. PICK rest \in Seq(Row) : All = got \o rest
    BY <1>4
  <2>2. Len(got) <= Len(got \o rest) /\ SubSeq(got \o rest, 1, Len(got)) = got
    BY <1>1, <2>1
  <2>3. SubSeq(got, 1, Len(got)) = got
    BY <1>1, SubSeqFull
  <2> QED BY <2>1, <2>2, <2>3 DEF IsPrefix
<1>6. ASSUME client = "ended" PROVE answer = Cut(asked, All)
  <2>1. answer = Cut(asked, got)
    BY DEF Rowwise
  <2>2. PICK rest \in Seq(Row) : All = got \o rest
    BY <1>4
  <2>3. CASE Full
    <3>1. asked.limit # NoLimit /\ Len(Cut(asked, got)) >= asked.limit
      BY <2>1, <2>3 DEF Full
    <3>2. Cut(asked, got \o rest) = Cut(asked, got)
      BY <1>1, <3>1, CutEnough
    <3> QED BY <2>1, <2>2, <3>2
  <2>4. CASE Drained /\ nextEmit >= effective
    <3>1. got = FirstRows(p, nextEmit) /\ nextEmit \in 0 .. NumGroups
      BY <2>4, DrainedRows DEF Rowwise, Steady, TypeOK
    <3>2. CASE nextEmit = NumGroups
      BY <2>1, <3>1, <3>2 DEF All
    <3>3. CASE nextEmit < NumGroups
      <4>1. /\ asked.limit # NoLimit /\ asked.pruned = {} /\ effective \in 0 .. NumGroups
            /\ RowsBefore(effective) >= asked.offset + asked.limit
        BY <2>4, <3>1, <3>3 DEF Rowwise, EnoughGroups, Steady, TypeOK
      <4>2. Len(got) >= RowsBefore(effective)
        <5>1. nextEmit = effective
          BY <2>4, <3>1, <4>1 DEF Rowwise
        <5>2. Len(FirstRows({}, effective)) = RowsBefore(effective) /\ RowsBefore(effective) \in Nat
          BY <4>1, RowsBeforeCounts
        <5> QED BY <3>1, <4>1, <5>1, <5>2
      <4>3. Len(got) >= asked.offset + asked.limit
        <5>1. asked.offset \in Nat /\ asked.limit \in Nat /\ RowsBefore(effective) \in Nat
          BY <1>1, <4>1, RowsBeforeCounts DEF AnyRequest
        <5>2. Len(got) \in Nat
          BY <1>1
        <5> QED BY ONLY <4>1, <4>2, <5>1, <5>2
      <4>4. Cut(asked, got \o rest) = Cut(asked, got)
        BY <1>1, <4>1, <4>3, CutEnough
      <4> QED BY <2>1, <2>2, <4>4
    <3> QED BY <1>1, <3>1, <3>2, <3>3
  <2> QED BY <1>6, <2>3, <2>4 DEF Rowwise
<1> QED BY <1>2, <1>3, <1>5, <1>6

-----------------------------------------------------------------------------
(* Each group is consumed once                                             *)

LEMMA StepKeepsQuery == ASSUME [Next]_vars PROVE asked' = asked /\ effective' = effective
BY DEF vars, Next, query, private, results, Worker, Leave, ClaimGroup, ThrottleTest, Sleep, Deposit,
       NotifyReady, Consume, Draw, SpawnWorkers, GetData, LimitReached, NoMoreGroups, DecodeInline,
       TakeGroup, NotReady, WaitReady, Advance, EmitChunk, RunParallelRGs, AllConsumed, Close,
       Restart, Quit, StopWorkers, NotifyAll, Join, Stopped, Reset, Spurious

LEMMA ClaimsStep == Steady /\ Claims /\ [Next]_vars => Claims'
<1> SUFFICES ASSUME Steady, Claims, [Next]_vars, asked.mode = "groups" PROVE Claims'
  BY StepKeepsQuery DEF Claims
<1>0. Once /\ Done /\ Doing /\ OneEach /\ NoneLost /\ EndsRight
  BY DEF Claims
<1>1. /\ asked.limit = NoLimit /\ asked \in AnyRequest
      /\ 0 \in Workers /\ effective = NumGroups /\ NumGroups \in Nat
  BY ParquetScanAssumption, Names DEF Steady, TypeOK, AnyRequest, Groupwise, Workers
<1>2. /\ pc \in [Threads -> CallerAt \cup WorkerAt] /\ rg \in [Workers -> Groups]
      /\ nextDecode \in Nat /\ got \in Seq(Row) /\ stop \in BOOLEAN
      /\ \A w \in Workers : pc[w] \in {"gone", "loop", "consume"} /\ w \in Threads /\ w # Caller
  BY <1>1, Names DEF Steady, TypeOK, Groupwise
<1>3. /\ client = "reading" => pc[Caller] = "running"
      /\ pc[Caller] = "running" => client \in {"reading", "aborted"}
      /\ pc[Caller] \notin {"get", "wait", "waiting", "advance"}
      /\ pc[Caller] \in {"stopping", "joining", "stopped"} =>
           client \in {"closing", "restarting", "aborted"}
      /\ client \notin {"restarting", "failed"}
      /\ client = "asked" => AllJoined
  BY DEF Steady, Control, Groupwise
<1> USE DEF query, private, results
<1> DEFINE Same == /\ asked' = asked /\ got' = got /\ nextDecode' = nextDecode
                   /\ \A w \in Workers : /\ pc'[w] = pc[w]
                                         /\ pc[w] = "consume" => rg'[w] = rg[w]
           None == client' \notin {"asked", "reading", "ended"}
<1>4. ASSUME Same, None \/ (client' = client /\ stop' = stop /\ crew' = crew) PROVE Claims'
  <2>1. Once' /\ Done'
    BY <1>0, <1>4 DEF Once, Done
  <2>2. Doing' /\ OneEach'
    BY <1>0, <1>4 DEF Doing, OneEach, Consumed
  <2>3. NoneLost'
    BY <1>0, <1>4 DEF NoneLost, Consumed, Consuming
  <2>4. EndsRight'
    BY <1>0, <1>1, <1>4 DEF EndsRight
  <2> QED BY <2>1, <2>2, <2>3, <2>4 DEF Claims
<1>5. CASE UNCHANGED vars
  BY <1>4, <1>5 DEF vars
<1>6. ASSUME NEW w \in Workers, Leave(w) PROVE Claims'
  <2> USE <1>6 DEF Leave, Goto
  <2>1. /\ nextDecode' \in {nextDecode, nextDecode + 1} /\ got' = got /\ rg' = rg /\ asked' = asked
        /\ stop \/ nextDecode >= NumGroups
        /\ nextDecode' = nextDecode \/ nextDecode >= NumGroups
        /\ client' = client /\ stop' = stop /\ crew' = crew /\ pc[w] = "loop"
        /\ pc'[w] = "gone" /\ \A v \in Workers : v # w => pc'[v] = pc[v]
    BY <1>1, <1>2
  <2> HIDE <1>6
  <2>2. Once' /\ Done'
    BY <1>0, <1>2, <2>1 DEF Once, Done, Row, Groups
  <2>3. Doing' /\ OneEach'
    BY <1>0, <1>2, <2>1 DEF Doing, OneEach, Consumed, Groups
  <2>4. NoneLost'
    BY <1>0, <1>1, <1>2, <2>1 DEF NoneLost, Consumed, Consuming, Groups
  <2>5. EndsRight'
    BY <1>0, <1>1, <1>2, <2>1 DEF EndsRight
  <2> QED BY <2>2, <2>3, <2>4, <2>5 DEF Claims
<1>7. ASSUME NEW w \in Workers, ClaimGroup(w) PROVE Claims'
  <2> USE <1>7 DEF ClaimGroup, Goto
  <2>1. /\ nextDecode' = nextDecode + 1 /\ got' = got /\ asked' = asked /\ nextDecode \in Groups
        /\ client' = client /\ stop' = stop /\ crew' = crew /\ pc[w] = "loop"
        /\ rg'[w] = nextDecode
        /\ nextDecode \notin asked.pruned => pc'[w] = "consume"
        /\ nextDecode \in asked.pruned => pc'[w] = "loop"
        /\ \A v \in Workers : v # w => pc'[v] = pc[v] /\ rg'[v] = rg[v]
    BY <1>1, <1>2 DEF Groups
  <2> HIDE <1>7
  <2>2. Once' /\ Done'
    BY <1>0, <1>2, <2>1 DEF Once, Done, Row, Groups
  <2>3. ~Consumed(nextDecode)
    BY <1>0, <1>2 DEF Done, Consumed, Row, Groups
  <2>4. Doing'
    BY <1>0, <1>2, <2>1, <2>3 DEF Doing, Consumed, Groups
  <2>5. OneEach'
    BY <1>0, <1>2, <2>1 DEF OneEach, Doing, Groups
  <2>6. NoneLost'
    BY <1>0, <1>1, <1>2, <2>1 DEF NoneLost, Consumed, Consuming, Groups
  <2>7. EndsRight'
    BY <1>0, <1>1, <1>2, <2>1 DEF EndsRight
  <2> QED BY <2>2, <2>4, <2>5, <2>6, <2>7 DEF Claims
<1>8. ASSUME NEW w \in Workers, Consume(w) PROVE Claims'
  <2> USE <1>8 DEF Consume, Goto
  <2>1. CASE ~Decodes(rg[w])
    <3>1. Same /\ None
      BY <1>2, <2>1
    <3> QED BY <1>4, <3>1
  <2>2. CASE Decodes(rg[w])
    <3>1. /\ nextDecode' = nextDecode /\ asked' = asked /\ client' = client /\ crew' = crew
          /\ pc[w] = "consume" /\ pc'[w] = "loop" /\ (stop => stop')
          /\ \A v \in Workers : v # w => pc'[v] = pc[v] /\ rg'[v] = rg[v]
      BY <1>1, <1>2, <2>2
    <3>2. /\ got' = Append(got, <<rg[w], w>>)
          /\ <<rg[w], w>> \in Row
      BY <1>2, <2>2 DEF Row, Workers
    <3> HIDE <1>8
    <3> DEFINE n == Len(got)
    <3>3. /\ n \in Nat /\ DOMAIN got = 1 .. n /\ DOMAIN got' = 1 .. n + 1
          /\ \A i \in 1 .. n : got'[i] = got[i]
          /\ got'[n + 1][1] = rg[w]
      BY <1>2, <3>2
    <3> HIDE DEF n
    <3>4. rg[w] < nextDecode /\ rg[w] \notin asked.pruned /\ ~Consumed(rg[w])
      BY <1>0, <3>1 DEF Doing
    <3>5. \A g : Consumed(g)' <=> Consumed(g) \/ g = rg[w]
      BY <3>3 DEF Consumed
    <3>6. Once'
      BY <1>0, <3>3, <3>4 DEF Once, Consumed
    <3>7. Done'
      BY <1>0, <3>1, <3>3, <3>4 DEF Done
    <3>8. Doing'
      BY <1>0, <3>1, <3>5 DEF Doing, OneEach
    <3>9. OneEach'
      BY <1>0, <3>1 DEF OneEach
    <3>10. NoneLost'
      BY <1>0, <3>1, <3>5 DEF NoneLost, Consuming
    <3>11. EndsRight'
      BY <1>0, <1>1, <1>3, <3>1 DEF EndsRight, AllJoined
    <3> QED BY <3>6, <3>7, <3>8, <3>9, <3>10, <3>11 DEF Claims
  <2> QED BY <2>1, <2>2
<1>9. CASE RunParallelRGs
  <2>1. /\ client = "asked" /\ client' = "reading" /\ nextDecode' = 0
        /\ asked' = asked /\ got' = got /\ rg' = rg
    BY <1>9 DEF RunParallelRGs
  <2>2. got = <<>> /\ AllJoined
    BY <1>0, <1>3, <2>1 DEF EndsRight
  <2>3. pc'[0] = "loop" /\ \A w \in Workers : pc'[w] # "consume"
    <3> DEFINE m == Min({NumThreads, NumGroups})
    <3>1. pc' = [Crew(m) EXCEPT ![Caller] = "running"]
      BY <1>9 DEF RunParallelRGs
    <3>2. m \in 0 .. NumThreads /\ m > 0
      <4>1. m = IF NumThreads <= NumGroups THEN NumThreads ELSE NumGroups
        BY Names, MinOfTwo
      <4> QED BY <4>1, Names
    <3> HIDE DEF m
    <3>3. /\ Crew(m) \in [Threads -> CallerAt \cup WorkerAt]
          /\ \A w \in Workers : Crew(m)[w] = IF w < m THEN "loop" ELSE pc[w]
      BY <3>2, CrewType DEF Steady
    <3>4. \A w \in Workers : pc'[w] = IF w < m THEN "loop" ELSE "gone"
      BY <1>2, <2>2, <3>1, <3>3 DEF AllJoined
    <3> QED BY <1>1, <3>2, <3>4
  <2>4. Once' /\ Done' /\ Doing' /\ OneEach'
    BY <2>1, <2>2, <2>3 DEF Once, Done, Doing, OneEach
  <2>5. NoneLost'
    BY <2>1 DEF NoneLost, Groups
  <2>6. EndsRight'
    BY <2>1, <2>3 DEF EndsRight
  <2> QED BY <2>4, <2>5, <2>6 DEF Claims
<1>10. ASSUME AllConsumed, client # "aborted" PROVE Claims'
  <2>1. /\ pc[Caller] = "running" /\ AllJoined /\ client' = "ended" /\ crew' = 0
        /\ asked' = asked /\ got' = got /\ rg' = rg /\ nextDecode' = nextDecode /\ stop' = stop
        /\ \A w \in Workers : pc'[w] = pc[w]
    BY <1>2, <1>10 DEF AllConsumed, Goto
  <2>2. client = "reading"
    BY <1>3, <1>10, <2>1
  <2>3. Once' /\ Done' /\ Doing' /\ OneEach'
    BY <1>0, <2>1 DEF Once, Done, Doing, OneEach, Consumed
  <2>4. NoneLost'
    BY <1>0, <2>1 DEF NoneLost, Consumed, Consuming
  <2>5. EndsRight'
    BY <1>0, <1>1, <2>1, <2>2 DEF EndsRight, AllJoined
  <2> QED BY <2>3, <2>4, <2>5 DEF Claims
<1>11. CASE Close \/ NotifyAll \/ Join \/ Stopped
  <2> DEFINE Left == pc[Caller] \in {"stopping", "joining", "stopped"}
  <2>1. CASE Close
    <3>1. Same /\ client' = "closing"
      BY <1>2, <2>1 DEF Close, Quit, Goto
    <3> QED BY <1>4, <3>1
  <2>2. CASE NotifyAll
    <3>1. Same /\ client' = client /\ Left
      BY <1>2, <2>2 DEF NotifyAll, Woken
    <3>2. None
      BY <1>3, <3>1
    <3> QED BY <1>4, <3>1, <3>2
  <2>3. CASE Join
    <3>1. Same /\ client' = client /\ Left
      BY <1>2, <2>3 DEF Join, Goto, AllJoined
    <3>2. None
      BY <1>3, <3>1
    <3> QED BY <1>4, <3>1, <3>2
  <2>4. CASE Stopped
    <3>1. Same /\ client' = "closed"
      BY <1>2, <1>3, <2>4 DEF Stopped, Goto
    <3> QED BY <1>4, <3>1
  <2> QED BY <1>11, <2>1, <2>2, <2>3, <2>4
<1>12. Next => \/ \E w \in Workers : Leave(w) \/ ClaimGroup(w) \/ Consume(w)
               \/ RunParallelRGs \/ AllConsumed
               \/ Close \/ NotifyAll \/ Join \/ Stopped
  <2> SUFFICES ASSUME Next PROVE \/ \E w \in Workers : Leave(w) \/ ClaimGroup(w) \/ Consume(w)
                                 \/ RunParallelRGs \/ AllConsumed
                                 \/ Close \/ NotifyAll \/ Join \/ Stopped
    OBVIOUS
  <2>1. ASSUME NEW w \in Workers, Worker(w) PROVE Leave(w) \/ ClaimGroup(w) \/ Consume(w)
    BY <1>2, <2>1 DEF Worker, ThrottleTest, Sleep, Deposit, NotifyReady
  <2>2. Draw => RunParallelRGs \/ AllConsumed
    BY <1>1, <1>3 DEF Draw, SpawnWorkers, GetData, LimitReached, Full, NoMoreGroups, DecodeInline,
                      NeedsGroup, TakeGroup, NotReady, WaitReady, Advance, EmitChunk
  <2>3. ~Restart
    BY <1>3 DEF Restart, Quit
  <2>4. \A p \in Threads : ~Spurious(p)
    BY <1>2, <1>3, Names DEF Spurious, Steady, TypeOK, CallerAt
  <2> QED BY <2>1, <2>2, <2>3, <2>4 DEF Next, StopWorkers
<1>13. Next => client # "aborted"
  BY DEF Next
<1> QED BY <1>5, <1>6, <1>7, <1>8, <1>9, <1>10, <1>11, <1>12, <1>13

(* Threads that claim different groups consume each once, and leave none.  *)
LEMMA GroupsAreOnce == Steady /\ Claims => GroupsOnce
<1> SUFFICES ASSUME Steady, Claims, asked.mode = "groups"
             PROVE  LET consumed == {got[i][1] : i \in DOMAIN got}
                    IN  /\ Cardinality(consumed) = Len(got)
                        /\ client = "ended" => stop \/ consumed = Groups \ asked.pruned
  BY DEF GroupsOnce
<1> DEFINE consumed == {got[i][1] : i \in DOMAIN got}
           n == Len(got)
           f == [i \in 1 .. n |-> got[i][1]]
<1>1. Once /\ Done /\ NoneLost /\ EndsRight
  BY DEF Claims
<1>2. n \in Nat /\ DOMAIN got = 1 .. n /\ \A i \in 1 .. n : got[i][1] \in Groups
  BY DEF Steady, TypeOK, Row
<1>3. Cardinality(consumed) = n
  <2>1. f \in [1 .. n -> consumed]
    BY <1>2
  <2>2. \A i, j \in 1 .. n : f[i] = f[j] => i = j
    BY <1>1, <1>2 DEF Once
  <2>3. \A g \in consumed : \E i \in 1 .. n : f[i] = g
    BY <1>2
  <2> HIDE DEF f, consumed, n
  <2>4. f \in Bijection(1 .. n, consumed)
    BY <2>1, <2>2, <2>3 DEF Bijection, Injection, Surjection, IsInjective
  <2>5. ExistsBijection(1 .. n, consumed)
    BY <2>4 DEF ExistsBijection
  <2> QED BY <1>2, <2>5, FS_CountingElements
<1>4. ASSUME client = "ended", ~stop PROVE consumed = Groups \ asked.pruned
  <2>1. nextDecode >= NumGroups /\ AllJoined
    BY <1>1, <1>4 DEF EndsRight, Steady, Control
  <2>2. ASSUME NEW g \in Groups \ asked.pruned PROVE g \in consumed
    <3>1. g < nextDecode
      BY <2>1, Names DEF Steady, TypeOK, Groups
    <3>2. ~Consuming(g)
      BY <2>1 DEF Consuming, AllJoined
    <3> QED BY <1>1, <3>1, <3>2 DEF NoneLost, Consumed
  <2>3. ASSUME NEW g \in consumed PROVE g \in Groups \ asked.pruned
    BY <1>1, <1>2 DEF Done
  <2> QED BY <2>2, <2>3
<1> QED BY <1>3, <1>4

-----------------------------------------------------------------------------
(* No group is decoded too far ahead                                       *)

(* Steps after which a worker decodes a group that is near enough, or one  *)
(* that holds no rows, and fills a slot for the group it decodes.          *)
Careful ==
  /\ asked' = asked /\ ahead' = ahead /\ nextEmit' >= nextEmit
  /\ \A w \in Workers :
       pc'[w] = "decode" => \/ rg'[w] \in asked.pruned
                            \/ rg'[w] = rg[w] /\ (pc[w] = "decode" \/ Near(w))
  /\ \A g \in Groups :
       slots'[g] = "work" => \/ slots[g] = "work"
                             \/ \E w \in Workers : pc[w] = "decode" /\ rg[w] = g

LEMMA CarefulStep == Steady /\ NearEnough /\ nextEmit' \in Nat /\ Careful => NearEnough'
<1> SUFFICES ASSUME Steady, NearEnough, nextEmit' \in Nat, Careful PROVE NearEnough'
  OBVIOUS
<1>1. /\ ahead \in [Workers -> Nat] /\ rg \in [Workers -> Groups] /\ nextEmit \in Nat
      /\ \A g \in Groups : g \in Int
      /\ \A w \in Workers : ahead[w] \in Nat
  BY DEF Steady, TypeOK, Groups
<1>2. \A w \in Workers, g \in Groups : g < nextEmit + ahead[w] => g < nextEmit' + ahead'[w]
  BY <1>1 DEF Careful
<1>3. ASSUME NEW w \in Workers, pc'[w] = "decode", rg'[w] \notin asked'.pruned PROVE Near(w)'
  <2>1. rg'[w] = rg[w] /\ rg[w] \notin asked.pruned /\ (pc[w] = "decode" \/ Near(w))
    BY <1>3 DEF Careful
  <2>2. Near(w)
    BY <2>1 DEF NearEnough
  <2> QED BY <1>1, <1>2, <2>1, <2>2 DEF Near
<1>4. BoundedAhead'
  <2> SUFFICES ASSUME NEW g \in Groups \ asked.pruned, slots'[g] = "work"
               PROVE  \E w \in Workers : g < nextEmit' + ahead'[w]
    BY DEF BoundedAhead, Careful
  <2>1. slots[g] = "work" \/ \E w \in Workers : pc[w] = "decode" /\ rg[w] = g
    BY DEF Careful
  <2>2. \E w \in Workers : g < nextEmit + ahead[w]
    BY <2>1 DEF NearEnough, BoundedAhead, Near
  <2> QED BY <1>2, <2>2
<1> QED BY <1>3, <1>4 DEF NearEnough

LEMMA NearEnoughStep == Steady /\ NearEnough /\ [Next]_vars => NearEnough'
<1> SUFFICES ASSUME Steady, NearEnough, [Next]_vars PROVE NearEnough'
  OBVIOUS
<1> USE Names
<1>0. Steady'
  BY SteadyStep
<1>1. /\ nextEmit \in Nat /\ nextEmit' \in Nat
      /\ pc \in [Threads -> CallerAt \cup WorkerAt]
      /\ rg \in [Workers -> Groups] /\ slots \in [Groups -> {"none", "work"}]
      /\ pc[Caller] \in CallerAt
      /\ \A w \in Workers : w \in Threads /\ w # Caller
  BY <1>0 DEF Steady, TypeOK
<1> USE DEF query, private, results
<1>2. ASSUME Careful PROVE NearEnough'
  BY <1>1, <1>2, CarefulStep
<1>3. ASSUME Rests', \A w \in Workers : pc'[w] # "decode" PROVE NearEnough'
  BY <1>3 DEF NearEnough, BoundedAhead, Rests
<1>4. CASE UNCHANGED vars
  <2>1. Careful
    BY <1>1, <1>4 DEF vars, Careful
  <2> QED BY <1>2, <2>1
<1>5. ASSUME NEW w \in Workers, Worker(w) PROVE NearEnough'
  <2>1. CASE Leave(w)
    <3>1. Careful
      BY <1>1, <2>1 DEF Careful, Leave, Goto
    <3> QED BY <1>2, <3>1
  <2>2. CASE ClaimGroup(w)
    <3>1. /\ asked' = asked /\ ahead' = ahead /\ nextEmit' = nextEmit /\ slots' = slots
          /\ rg'[w] = nextDecode
          /\ pc'[w] = "decode" => nextDecode \in asked.pruned
          /\ \A v \in Workers : v # w => pc'[v] = pc[v] /\ rg'[v] = rg[v]
      BY <1>1, <2>2 DEF ClaimGroup, Goto
    <3>2. Careful
      BY <1>1, <3>1 DEF Careful
    <3> QED BY <1>2, <3>2
  <2>3. CASE ThrottleTest(w)
    <3>1. /\ asked' = asked /\ ahead' = ahead /\ nextEmit' = nextEmit /\ slots' = slots /\ rg' = rg
          /\ \E label \in {"gone", "decode", "tested"} :
               pc' = [pc EXCEPT ![w] = label] /\ (label = "decode" => Near(w))
      BY <2>3 DEF ThrottleTest, Goto
    <3>2. /\ pc'[w] = "decode" => Near(w)
          /\ \A v \in Workers : v # w => pc'[v] = pc[v]
      BY <1>1, <3>1
    <3>3. Careful
      BY <1>1, <3>1, <3>2 DEF Careful
    <3> QED BY <1>2, <3>3
  <2>4. CASE Sleep(w)
    <3>1. Careful
      BY <1>1, <2>4 DEF Careful, Sleep, Goto
    <3> QED BY <1>2, <3>1
  <2>5. CASE Deposit(w)
    <3>1. Careful
      BY <1>1, <2>5 DEF Careful, Deposit, Goto
    <3> QED BY <1>2, <3>1
  <2>6. CASE NotifyReady(w)
    <3>1. Careful
      BY <1>1, <2>6 DEF Careful, NotifyReady
    <3> QED BY <1>2, <3>1
  <2>7. CASE Consume(w)
    <3>1. Careful
      BY <1>1, <2>7 DEF Careful, Consume, Goto
    <3> QED BY <1>2, <3>1
  <2> QED BY <1>5, <2>1, <2>2, <2>3, <2>4, <2>5, <2>6, <2>7 DEF Worker
<1>6. CASE SpawnWorkers
  <2> DEFINE budget == Min({NumThreads, effective})
             n == IF budget <= 1 THEN 0 ELSE budget
  <2>1. client = "asked" /\ pc' = Crew(n) /\ slots' = slots
    BY <1>6 DEF SpawnWorkers
  <2>2. n \in 0 .. NumThreads
    <3>1. budget = IF NumThreads <= effective THEN NumThreads ELSE effective
      <4>1. NumThreads \in Int /\ effective \in Int
        BY DEF Steady, TypeOK
      <4> QED BY ONLY <4>1, MinOfTwo
    <3> HIDE DEF budget
    <3> QED BY <3>1 DEF Steady, TypeOK
  <2>3. AllJoined /\ Rests
    BY <2>1 DEF Steady, Control
  <2> HIDE DEF n
  <2>4. \A w \in Workers : pc'[w] # "decode"
    BY <2>1, <2>2, <2>3, CrewType DEF AllJoined, Steady
  <2> QED BY <1>3, <2>1, <2>3, <2>4 DEF Rests
<1>7. CASE RunParallelRGs
  <2>1. /\ client = "asked" /\ slots' = slots
        /\ pc' = [Crew(Min({NumThreads, NumGroups})) EXCEPT ![Caller] = "running"]
    BY <1>7 DEF RunParallelRGs
  <2>2. Min({NumThreads, NumGroups}) \in 0 .. NumThreads
    <3>1. Min({NumThreads, NumGroups}) = IF NumThreads <= NumGroups THEN NumThreads ELSE NumGroups
      BY MinOfTwo
    <3> QED BY <3>1
  <2>3. AllJoined /\ Rests
    BY <2>1 DEF Steady, Control
  <2>4. \A w \in Workers : pc'[w] # "decode"
    <3> DEFINE n == Min({NumThreads, NumGroups})
    <3>1. /\ Crew(n) \in [Threads -> CallerAt \cup WorkerAt]
          /\ \A w \in Workers : Crew(n)[w] = IF w < n THEN "loop" ELSE pc[w]
      <4>1. TypeOK /\ n \in 0 .. NumThreads
        BY <2>2 DEF Steady
      <4> HIDE DEF n
      <4> QED BY <4>1, CrewType
    <3> HIDE DEF n
    <3>2. \A w \in Workers : pc'[w] = IF w < n THEN "loop" ELSE "gone"
      BY <1>1, <2>1, <2>3, <3>1 DEF AllJoined, n
    <3> QED BY <3>2
  <2> QED BY <1>3, <2>1, <2>3, <2>4 DEF Rests
<1>8. CASE \/ GetData \/ LimitReached \/ NoMoreGroups \/ NotReady \/ WaitReady \/ EmitChunk
           \/ AllConsumed
  <2>1. /\ asked' = asked /\ ahead' = ahead /\ nextEmit' = nextEmit /\ slots' = slots /\ rg' = rg
        /\ \A w \in Workers : pc'[w] = pc[w]
    BY <1>1, <1>8 DEF GetData, LimitReached, NoMoreGroups, NotReady, WaitReady, EmitChunk,
                      AllConsumed, Goto
  <2>2. Careful
    BY <1>1, <2>1 DEF Careful
  <2> QED BY <1>2, <2>2
<1>9. CASE DecodeInline \/ Advance
  <2>1. /\ asked' = asked /\ ahead' = ahead /\ nextEmit' \in {nextEmit, nextEmit + 1}
        /\ slots' = slots /\ rg' = rg
        /\ \A w \in Workers : pc'[w] = pc[w]
    BY <1>1, <1>9 DEF DecodeInline, Advance, Goto
  <2>2. Careful
    BY <1>1, <2>1 DEF Careful
  <2> QED BY <1>2, <2>2
<1>10. CASE TakeGroup \/ NotifyAll
  <2>1. /\ asked' = asked /\ ahead' = ahead /\ nextEmit' = nextEmit /\ rg' = rg
        /\ \A g \in Groups : slots'[g] = "work" => slots[g] = "work"
        /\ \A w \in Workers : pc'[w] = Woken(w)
    BY <1>1, <1>10 DEF TakeGroup, NotifyAll
  <2>2. Careful
    BY <1>1, <2>1 DEF Careful, Woken
  <2> QED BY <1>2, <2>2
<1>11. CASE Close \/ Restart
  <2>1. Careful
    BY <1>1, <1>11 DEF Careful, Close, Restart, Quit, Goto
  <2> QED BY <1>2, <2>1
<1>12. CASE Join
  <2>1. Rests' /\ \A w \in Workers : pc'[w] = "gone"
    BY <1>1, <1>12 DEF Join, Goto, Rests, AllJoined
  <2> QED BY <1>3, <2>1
<1>13. CASE Stopped
  <2>1. AllJoined /\ Rests
    BY <1>13 DEF Stopped, Steady, Control
  <2>2. Rests' /\ \A w \in Workers : pc'[w] = "gone"
    BY <1>1, <1>13, <2>1 DEF Stopped, Goto, Rests, AllJoined
  <2> QED BY <1>3, <2>2
<1>14. ASSUME NEW p \in Threads, Spurious(p) PROVE NearEnough'
  <2>1. Careful
    BY <1>1, <1>14 DEF Careful, Spurious, Goto, Woken
  <2> QED BY <1>2, <2>1
<1> QED BY <1>4, <1>5, <1>6, <1>7, <1>8, <1>9, <1>10, <1>11, <1>12, <1>13, <1>14
        DEF Next, Draw, StopWorkers

-----------------------------------------------------------------------------
(* The theorems                                                            *)

LEMMA NextIInv == IInv /\ [Next]_vars => IInv'
BY SteadyStep, RowwiseStep, ClaimsStep, NearEnoughStep DEF IInv

LEMMA Always == Spec => []IInv
<1>1. Init => IInv
  BY InitIInv
<1>2. IInv /\ [Next]_vars => IInv'
  BY NextIInv
<1> QED BY <1>1, <1>2, PTL DEF Spec

(* What scan, workers and LIMIT keep has its type.                         *)
THEOREM TypeCorrect == Spec => []TypeOK
<1>1. IInv => TypeOK
  BY DEF IInv, Steady
<1> QED BY <1>1, Always, PTL

(* GetData delivers the rows of the groups that the filters let through in *)
(* the order of the file, however the workers interleave and sleep, and a  *)
(* query that ends has got all rows that its LIMIT and OFFSET leave.       *)
THEOREM RowsComeInOrder == Spec => []RowsInFileOrder
<1>1. IInv => RowsInFileOrder
  BY RowsAreInOrder DEF IInv
<1> QED BY <1>1, Always, PTL

(* RunParallelRGs has each group consumed by one thread, once, and leaves  *)
(* none out unless it was told to stop; WorkerLoop's throttle keeps every  *)
(* slot that is filled within the max_ahead of some worker.                *)
THEOREM GroupsComeInTurn == Spec => []GroupsInTurn
<1>1. IInv => GroupsInTurn
  BY GroupsAreOnce DEF IInv, NearEnough, GroupsInTurn
<1> QED BY <1>1, Always, PTL
=============================================================================
